--------------------------- MODULE WebViewerProofs ---------------------------
(***************************************************************************)
(* Proofs about tdb view, for every file, every set of clients and every   *)
(* order of requests, keys and scroll events: what the server answers fits *)
(* the file, and what the page shows fits the answer and the list.         *)
(***************************************************************************)
EXTENDS WebViewer, StatsProofs

-----------------------------------------------------------------------------
(* The server. *)

\* Every answer is one the handler gives to the request it stands for, or the
\* end of a connection that was open when the server was stopped.
Answered(c) ==
  answer[c] # None =>
    /\ asked[c] # None
    /\ answer[c] \in Respond(asked[c]) \/ (answer[c] = Dropped /\ server = "stopped")

ServerInv ==
  /\ file \in Files
  /\ asked \in [Clients -> RequestKinds \cup {None}]
  /\ DOMAIN answer = Clients
  /\ server = "failed" => ~Loads(file) \/ port = "taken"
  /\ \A c \in Clients : Answered(c)

\* What happens at the server: it starts, stops and handles requests, and
\* clients, the page among them, ask and take their answers.
ServerEvents ==
  \/ Start \/ StartFails \/ StopServer
  \/ \E c \in Clients :
       Handle(c) \/ TakeAnswer(c) \/ \E r \in RequestKinds : Ask(c, r) \/ AskTooLate(c, r)
  \/ UNCHANGED serverVars

\* Every step of the system is one of these at the server.
LEMMA NextServerEvents == [WebNext]_webVars => ServerEvents
<1> SUFFICES ASSUME [WebNext]_webVars PROVE ServerEvents
  OBVIOUS
<1>0. Browser \in Clients /\ [kind |-> "all"] \in RequestKinds /\ Requests \subseteq RequestKinds
  BY WebAssumption, ServerAssumption DEF RequestKinds
<1>1. CASE ServerStep
  BY <1>0, <1>1 DEF ServerStep, ServerEvents
<1>2. CASE OpenPage
  BY <1>0, <1>2 DEF OpenPage, ServerEvents
<1>3. CASE Load \/ LoadNothing \/ LoadFails
  BY <1>0, <1>3 DEF Load, LoadNothing, LoadFails, ServerEvents
<1>4. CASE UserStep \/ OnScroll
  <2>1. Opened
    BY <1>4 DEF UserStep, OnScroll, stepBy, jumpTo, goToStep, findNext, findPrev, ClickRow,
       TypeFilter, Escape, toggleHelp, Scroll, InView
  <2> QED
    BY <2>1 DEF Opened, KeepServer, ServerEvents
<1>5. CASE UNCHANGED webVars
  BY <1>5 DEF webVars, ServerEvents
<1> QED
  BY <1>1, <1>2, <1>3, <1>4, <1>5 DEF WebNext

\* Nothing has been asked when the server is started.
LEMMA InitServer == ServerInit => ServerInv
BY DEF ServerInit, ServerInv, Answered

\* An answer stands for its request until the client takes it.
LEMMA NextServer == ServerInv /\ ServerEvents => ServerInv'
<1> SUFFICES ASSUME ServerInv, ServerEvents PROVE ServerInv'
  OBVIOUS
<1>0. /\ file \in Files /\ asked \in [Clients -> RequestKinds \cup {None}] /\ DOMAIN answer = Clients
      /\ server = "failed" => ~Loads(file) \/ port = "taken"
      /\ \A c \in Clients : Answered(c)
  BY DEF ServerInv
<1>1. UNCHANGED << file, port >>
  BY DEF ServerEvents, Start, StartFails, StopServer, Handle, TakeAnswer, Ask, AskTooLate, serverVars
<1>2. \A r : Respond(r)' = Respond(r)
  BY <1>1 DEF Respond, TraceResponse, BackwardRange
<1>3. Loads(file)' = Loads(file)
  BY <1>1
<1> HIDE DEF Respond, Loads
<1>4. CASE Start \/ StartFails \/ UNCHANGED serverVars
  <2>1. (UNCHANGED << asked, answer >> /\ server # "stopped") \/ UNCHANGED serverVars
    BY <1>4 DEF Start, StartFails
  <2>2. \A c \in Clients : Answered(c)'
    BY <1>0, <1>2, <2>1 DEF Answered, serverVars
  <2>3. (server = "failed" => ~Loads(file) \/ port = "taken")'
    BY <1>0, <1>1, <1>3, <1>4 DEF Start, StartFails, serverVars
  <2>4. UNCHANGED << asked, answer >>
    BY <2>1 DEF serverVars
  <2> QED
    BY <1>0, <1>1, <2>2, <2>3, <2>4 DEF ServerInv
<1>5. CASE StopServer
  <2>1. /\ server = "up" /\ server' = "stopped" /\ UNCHANGED asked
        /\ answer' = [c \in Clients |-> IF Pending(c) THEN Dropped ELSE answer[c]]
    BY <1>5 DEF StopServer
  <2>2. ASSUME NEW c \in Clients PROVE Answered(c)'
    BY <1>0, <1>2, <2>1 DEF Answered, Pending
  <2> QED
    BY <1>0, <1>1, <2>1, <2>2 DEF ServerInv
<1>6. ASSUME NEW c \in Clients, Handle(c) PROVE ServerInv'
  <2>1. PICK a \in Respond(asked[c]) : answer' = [answer EXCEPT ![c] = a]
    BY <1>6 DEF Handle
  <2>2. asked[c] # None /\ UNCHANGED << asked, server >>
    BY <1>6 DEF Handle, Pending
  <2>3. ASSUME NEW e \in Clients PROVE Answered(e)'
    BY <1>0, <1>2, <2>1, <2>2 DEF Answered
  <2> QED
    BY <1>0, <1>1, <1>3, <2>1, <2>2, <2>3 DEF ServerInv
<1>7. ASSUME NEW c \in Clients, TakeAnswer(c) PROVE ServerInv'
  <2>1. /\ asked' = [asked EXCEPT ![c] = None] /\ answer' = [answer EXCEPT ![c] = None]
        /\ UNCHANGED server
    BY <1>7 DEF TakeAnswer
  <2>2. ASSUME NEW e \in Clients PROVE Answered(e)'
    BY <1>0, <1>2, <2>1 DEF Answered
  <2>3. asked' \in [Clients -> RequestKinds \cup {None}]
    BY <1>0, <2>1
  <2> QED
    BY <1>0, <1>1, <1>3, <2>1, <2>2, <2>3 DEF ServerInv
<1>8. ASSUME NEW c \in Clients, NEW r \in RequestKinds, Ask(c, r) PROVE ServerInv'
  <2>1. asked[c] = None /\ asked' = [asked EXCEPT ![c] = r] /\ UNCHANGED << answer, server >>
    BY <1>8 DEF Ask
  <2>2. ASSUME NEW e \in Clients PROVE Answered(e)'
    BY <1>0, <1>2, <2>1 DEF Answered
  <2>3. asked' \in [Clients -> RequestKinds \cup {None}]
    BY <1>0, <2>1
  <2> QED
    BY <1>0, <1>1, <1>3, <2>1, <2>2, <2>3 DEF ServerInv
<1>9. ASSUME NEW c \in Clients, NEW r \in RequestKinds, AskTooLate(c, r) PROVE ServerInv'
  <2>1. /\ server = "stopped" /\ UNCHANGED server
        /\ asked' = [asked EXCEPT ![c] = r] /\ answer' = [answer EXCEPT ![c] = Dropped]
    BY <1>9 DEF AskTooLate
  <2>2. r # None
    BY <1>9, NoneAssumption
  <2>3. ASSUME NEW e \in Clients PROVE Answered(e)'
    BY <1>0, <1>2, <2>1, <2>2 DEF Answered
  <2>4. asked' \in [Clients -> RequestKinds \cup {None}]
    BY <1>0, <2>1
  <2> QED
    BY <1>0, <1>1, <1>3, <2>1, <2>3, <2>4 DEF ServerInv
<1> QED
  BY <1>4, <1>5, <1>6, <1>7, <1>8, <1>9 DEF ServerEvents

\* The invariant of the server holds throughout.
LEMMA AlwaysServed == WebSpec => []ServerInv
<1>1. WebInit => ServerInv
  BY InitServer DEF WebInit
<1>2. ServerInv /\ [WebNext]_webVars => ServerInv'
  BY NextServer, NextServerEvents
<1> QED
  BY <1>1, <1>2, PTL DEF WebSpec

\* A request is answered by a response of its kind, unless the range it asks
\* for ends before it starts.
LEMMA Responses ==
  ASSUME NEW r \in RequestKinds, NEW a \in Respond(r)
  PROVE  /\ r.kind \in {"all", "range", "step", "count", "stats"}
         /\ r.kind = "all" => a = TraceResponse(get_all(file.entries))
         /\ r.kind = "range" => a = IF BackwardRange(r) THEN Dropped
                                    ELSE TraceResponse(get_range(file.entries, r.start, r.end))
         /\ r.kind = "step" => a = IF r.step \in DOMAIN file.entries
                                   THEN [kind |-> "entry", entry |-> file.entries[r.step]]
                                   ELSE NotFound
         /\ r.kind = "count" => a = [kind |-> "count", count |-> Count(file.entries)]
         /\ r.kind = "stats" => \E s \in Analyses[file] : a = [kind |-> "stats", stats |-> s]
         /\ a = Dropped => BackwardRange(r)
<1>1. r.kind \in {"all", "range", "step", "count", "stats"}
  BY DEF RequestKinds
<1>0. \A list : TraceResponse(list) # Dropped
  <2> TAKE list
  <2>1. TraceResponse(list).kind = "trace" /\ Dropped.kind = "dropped"
    BY DEF TraceResponse, Dropped
  <2> QED
    BY <2>1
<1>2. CASE r.kind = "all"
  BY <1>0, <1>2 DEF Respond
<1>3. CASE r.kind = "range"
  <2>1. a = IF BackwardRange(r) THEN Dropped ELSE TraceResponse(get_range(file.entries, r.start, r.end))
    BY <1>3 DEF Respond
  <2> QED
    BY <1>0, <1>3, <2>1
<1>4. CASE r.kind = "step"
  <2>1. a = IF r.step \in DOMAIN file.entries
            THEN [kind |-> "entry", entry |-> file.entries[r.step]] ELSE NotFound
    BY <1>4 DEF Respond
  <2>2. a.kind \in {"entry", "not found"} /\ Dropped.kind = "dropped"
    BY <2>1 DEF NotFound, Dropped
  <2>3. a # Dropped
    BY <2>2
  <2> QED
    BY <1>4, <2>1, <2>3
<1>5. CASE r.kind = "count"
  BY <1>5 DEF Respond, Dropped
<1>6. CASE r.kind = "stats"
  BY <1>6 DEF Respond, Dropped
<1> QED
  BY <1>1, <1>2, <1>3, <1>4, <1>5, <1>6

\* Whatever clients ask, in whatever order: the server that failed could not
\* have started, and a connection it closes had asked for a backward range.
THEOREM OnlyBackwardRangesClose == WebSpec => []OnlyBackwardRangesFail
<1>1. ASSUME ServerInv PROVE OnlyBackwardRangesFail
  <2>1. ASSUME NEW c \in Clients, server = "up", answer[c] = Dropped
        PROVE  BackwardRange(asked[c])
    <3>1. asked[c] # None /\ answer[c] \in Respond(asked[c])
      BY <1>1, <2>1, NoneAssumption DEF ServerInv, Answered
    <3>2. asked[c] \in RequestKinds
      BY <1>1, <3>1 DEF ServerInv
    <3> QED
      BY <2>1, <3>1, <3>2, Responses
  <2> QED
    BY <1>1, <2>1 DEF ServerInv, OnlyBackwardRangesFail
<1> QED
  BY <1>1, AlwaysServed, PTL

\* Of a saved database get_all lists the entries of all steps, each as often as
\* it is there, in ascending order.
LEMMA SavedEntries ==
  ASSUME NEW d, IsSaved(d)
  PROVE  /\ Count(d) \in Nat /\ DOMAIN get_all(d) = 1 .. Count(d) /\ Len(get_all(d)) = Count(d)
         /\ \A j \in 1 .. Count(d) : \E s \in DOMAIN d : get_all(d)[j] = d[s]
         /\ ToSet(get_all(d)) = {d[s] : s \in DOMAIN d}
         /\ \A j, k \in 1 .. Count(d) : j < k => get_all(d)[j].step < get_all(d)[k].step
<1>0. IsFiniteSet(DOMAIN d) /\ DOMAIN d \subseteq Int /\ \A s \in DOMAIN d : d[s].step = s
  BY DEF IsSaved
<1> DEFINE n == Count(d)
           list == get_all(d)
<1>1. /\ n \in Nat /\ DOMAIN list = 1 .. n /\ Len(list) = n
      /\ \A s \in DOMAIN d : Rank(DOMAIN d, s) \in 1 .. n /\ list[Rank(DOMAIN d, s)] = d[s]
      /\ \A k \in 1 .. n : \E s \in DOMAIN d : Rank(DOMAIN d, s) = k /\ list[k] = d[s]
  BY <1>0, GetAllInOrder
<1>2. \A s, t \in DOMAIN d : s < t => Rank(DOMAIN d, s) < Rank(DOMAIN d, t)
  BY <1>0, Ranks
<1> HIDE DEF n, list
<1>3. ToSet(list) = {d[s] : s \in DOMAIN d}
  BY <1>1 DEF ToSet
<1>4. ASSUME NEW j \in 1 .. n, NEW k \in 1 .. n, j < k
      PROVE  list[j].step < list[k].step
  <2>1. PICK s \in DOMAIN d : Rank(DOMAIN d, s) = j /\ list[j] = d[s]
    BY <1>1
  <2>2. PICK t \in DOMAIN d : Rank(DOMAIN d, t) = k /\ list[k] = d[t]
    BY <1>1
  <2>3. s # t /\ ~(t < s)
    BY <1>1, <1>2, <1>4, <2>1, <2>2
  <2>4. list[j].step = s /\ list[k].step = t /\ s \in Int /\ t \in Int
    BY <1>0, <2>1, <2>2
  <2> QED
    BY <2>3, <2>4
<1>5. \A j \in 1 .. n : \E s \in DOMAIN d : list[j] = d[s]
  BY <1>1
<1> QED
  BY <1>1, <1>3, <1>4, <1>5 DEF n, list

\* get_range lists the entries between its ends, in ascending order.
LEMMA RangeEntries ==
  ASSUME NEW d, IsSaved(d), NEW start \in Nat, NEW end \in Nat
  PROVE  /\ ToSet(get_range(d, start, end)) = {e \in ToSet(get_all(d)) : e.step \in start .. end}
         /\ Len(get_range(d, start, end)) \in Nat
         /\ \A j \in 1 .. Len(get_range(d, start, end)) - 1 :
              get_range(d, start, end)[j].step < get_range(d, start, end)[j + 1].step
<1> DEFINE D == {t \in DOMAIN d : start <= t /\ t <= end}
           part == [s \in D |-> d[s]]
           list == get_all(part)
           n == Count(part)
<1>0. IsFiniteSet(DOMAIN d) /\ DOMAIN d \subseteq Nat
      /\ \A s \in DOMAIN d : d[s].step = s /\ IsFiniteSet(d[s].mem_changes)
  BY DEF IsSaved
<1>1. D \subseteq DOMAIN d /\ IsFiniteSet(D)
  BY <1>0, FS_Subset
<1>2. DOMAIN part = D /\ \A s \in D : part[s] = d[s]
  OBVIOUS
<1>3. IsSaved(part)
  BY <1>0, <1>1, <1>2 DEF IsSaved
<1>4. get_range(d, start, end) = list
  BY DEF get_range
<1>5. /\ n \in Nat /\ Len(list) = n
      /\ ToSet(list) = {part[s] : s \in D}
      /\ \A j, k \in 1 .. n : j < k => list[j].step < list[k].step
  BY <1>2, <1>3, SavedEntries
<1>6. ToSet(get_all(d)) = {d[s] : s \in DOMAIN d}
  BY SavedEntries
<1>7. {part[s] : s \in D} = {e \in {d[s] : s \in DOMAIN d} : e.step \in start .. end}
  BY <1>0
<1> HIDE DEF list, n, part, D
<1>8. \A j \in 1 .. n - 1 : list[j].step < list[j + 1].step
  BY <1>5
<1> QED
  BY <1>4, <1>5, <1>6, <1>7, <1>8

\* What the endpoints answer, to whichever client and in whatever order, fits
\* together: all of it describes the entries of the one file.
THEOREM AnswersAlwaysFit == WebSpec => []AnswersFitTogether
<1>1. ASSUME ServerInv, NEW c \in Clients, answer[c] # None, answer[c] # Dropped
      PROVE  LET r == asked[c]
                 a == answer[c]
             IN  /\ r.kind = "range" =>
                      /\ ToSet(a.entries) = {e \in ToSet(Whole) : e.step \in r.start .. r.end}
                      /\ \A j \in 1 .. Len(a.entries) - 1 : a.entries[j].step < a.entries[j + 1].step
                      /\ a.total = Len(Whole)
                 /\ r.kind = "step" =>
                      IF a = NotFound THEN \A e \in ToSet(Whole) : e.step # r.step
                      ELSE a.entry \in ToSet(Whole) /\ a.entry.step = r.step
                 /\ r.kind = "count" => a.count = Len(Whole)
  <2> DEFINE r == asked[c]
             a == answer[c]
             d == file.entries
  <2>1. r \in RequestKinds /\ a \in Respond(r)
    BY <1>1 DEF ServerInv, Answered
  <2>2. IsSaved(d)
    BY <1>1, ServerAssumption DEF ServerInv
  <2>3. /\ Len(Whole) = Count(d) /\ ToSet(Whole) = {d[s] : s \in DOMAIN d}
        /\ \A s \in DOMAIN d : d[s].step = s
    BY <2>2, SavedEntries DEF Whole, IsSaved
  <2>4. CASE r.kind = "range"
    <3>1. r.start \in Nat /\ r.end \in Nat
      BY <2>1, <2>4 DEF RequestKinds
    <3>2. a = TraceResponse(get_range(d, r.start, r.end))
      BY <1>1, <2>1, <2>4, Responses
    <3>3. a.total = Count(d) /\ a.entries = get_range(d, r.start, r.end)
      BY <3>2 DEF TraceResponse
    <3> HIDE DEF r, a, d
    <3> QED
      BY <2>2, <2>3, <2>4, <3>1, <3>3, RangeEntries DEF Whole, r, a, d
  <2>5. CASE r.kind = "step"
    <3>1. a = IF r.step \in DOMAIN d THEN [kind |-> "entry", entry |-> d[r.step]] ELSE NotFound
      BY <2>1, <2>5, Responses
    <3>2. CASE r.step \in DOMAIN d
      <4>1. a.kind = "entry" /\ a.entry = d[r.step] /\ NotFound.kind = "not found"
        BY <3>1, <3>2 DEF NotFound
      <4>2. a # NotFound
        BY <4>1
      <4> QED
        BY <2>3, <2>5, <3>2, <4>1, <4>2
    <3>3. CASE r.step \notin DOMAIN d
      BY <2>3, <2>5, <3>1, <3>3
    <3> QED
      BY <3>2, <3>3
  <2>6. CASE r.kind = "count"
    <3>1. a = [kind |-> "count", count |-> Count(d)]
      BY <2>1, <2>6, Responses
    <3> QED
      BY <2>3, <2>6, <3>1
  <2> QED
    BY <2>4, <2>5, <2>6
<1>2. ServerInv => AnswersFitTogether
  BY <1>1 DEF AnswersFitTogether
<1> QED
  BY <1>2, AlwaysServed, PTL

-----------------------------------------------------------------------------
(* The statistics. *)

\* counts has each key once, with the number of its occurrences.
LEMMA CountsOfKeys ==
  ASSUME NEW keys
  PROVE  /\ DOMAIN Counts(keys) = {keys[k] : k \in DOMAIN keys}
         /\ \A x \in DOMAIN Counts(keys) :
              Counts(keys)[x] = Cardinality({k \in DOMAIN keys : keys[k] = x})
BY DEF Counts, ToBag, Range

\* The values of a sequence are finitely many.
LEMMA FiniteValues ==
  ASSUME NEW n \in Nat, NEW f, DOMAIN f = 1 .. n, NEW T, T = {f[k] : k \in 1 .. n}
  PROVE  IsFiniteSet(T)
<1> DEFINE g == [k \in 1 .. n |-> f[k]]
<1>1. g \in Surjection(1 .. n, T)
  BY DEF Surjection
<1>2. IsFiniteSet(1 .. n)
  BY FS_Interval
<1> QED
  BY <1>1, <1>2, FS_Surjection

\* A listing has distinct mnemonics with their numbers, in descending order of
\* these; a mnemonic is missing only when the list is full, and then it is not
\* more frequent than those that are there.
LEMMA ListingsDescribe ==
  ASSUME NEW n \in Nat, NEW keys, DOMAIN keys = 1 .. n,
         NEW list \in Listings(Counts(keys))
  PROVE  LET counts == Counts(keys)
             listed == {p.insn : p \in ToSet(list)}
         IN  /\ Cardinality(listed) = Len(list)
             /\ Len(list) = MaxListed \/ listed = DOMAIN counts
             /\ Descending(list)
             /\ \A p \in ToSet(list) : p.insn \in DOMAIN counts /\ p.count = counts[p.insn]
             /\ \A p \in ToSet(list), i \in DOMAIN counts \ listed : counts[i] <= p.count
<1> DEFINE counts == Counts(keys)
           listed == {p.insn : p \in ToSet(list)}
           pairs == {[insn |-> i, count |-> counts[i]] : i \in DOMAIN counts}
           m == Cardinality(pairs)
<1>1. DOMAIN counts = {keys[k] : k \in 1 .. n}
      /\ \A x \in DOMAIN counts : counts[x] = Cardinality({k \in 1 .. n : keys[k] = x})
  BY CountsOfKeys
<1>2. \A x \in DOMAIN counts : counts[x] \in Nat
  <2> TAKE x \in DOMAIN counts
  <2>1. IsFiniteSet(1 .. n)
    BY FS_Interval
  <2>2. {k \in 1 .. n : keys[k] = x} \subseteq 1 .. n
    OBVIOUS
  <2>3. Cardinality({k \in 1 .. n : keys[k] = x}) \in Nat
    BY <2>1, <2>2, FS_Subset, FS_CardinalityType
  <2> QED
    BY <1>1, <2>3
<1> HIDE DEF counts
<1>3. IsFiniteSet(pairs) /\ m \in Nat
  <2>1. pairs = {[insn |-> keys[k], count |-> counts[keys[k]]] : k \in 1 .. n}
    BY <1>1
  <2> DEFINE f == [k \in 1 .. n |-> [insn |-> keys[k], count |-> counts[keys[k]]]]
  <2>2. DOMAIN f = 1 .. n /\ pairs = {f[k] : k \in 1 .. n}
    BY <2>1
  <2> HIDE DEF f, pairs
  <2> QED
    BY <2>2, FiniteValues, FS_CardinalityType
<1>4. PICK l \in SetToSeqs(pairs) : Descending(l) /\ list = Truncate(l)
  BY DEF Listings, counts
<1>5. l \in [1 .. m -> pairs] /\ \A i, j \in 1 .. m : i # j => l[i] # l[j]
  BY <1>4 DEF SetToSeqs
<1>6. \A p \in pairs : \E k \in 1 .. m : l[k] = p
  <2>1. l \in Injection(1 .. m, pairs)
    BY <1>5 DEF Injection, IsInjective
  <2>2. IsFiniteSet(1 .. m) /\ Cardinality(1 .. m) = m
    BY <1>3, FS_Interval
  <2> HIDE DEF pairs
  <2>3. l \in Surjection(1 .. m, pairs)
    BY <1>3, <2>1, <2>2, FS_Injection
  <2> QED
    BY <2>3 DEF Surjection
<1>7. \A p \in pairs : p.insn \in DOMAIN counts /\ p.count = counts[p.insn]
                       /\ p = [insn |-> p.insn, count |-> p.count]
  OBVIOUS
<1>8. \A i \in DOMAIN counts : \E p \in pairs : p.insn = i /\ p.count = counts[i]
  <2> TAKE i \in DOMAIN counts
  <2>1. [insn |-> i, count |-> counts[i]] \in pairs
    OBVIOUS
  <2> QED
    BY <2>1
<1> HIDE DEF pairs, m
<1> DEFINE q == IF m < MaxListed THEN m ELSE MaxListed
<1>9. q \in Nat /\ q <= m /\ MaxListed \in Nat
  BY <1>3, StatsAssumption
<1>10. Len(list) = q /\ DOMAIN list = 1 .. q /\ \A j \in 1 .. q : list[j] = l[j]
  <2>1. l \in Seq(pairs) /\ Len(l) = m
    BY <1>3, <1>5
  <2>2. list = SubSeq(l, 1, q)
    BY <1>4, <2>1 DEF Truncate
  <2> HIDE DEF q
  <2>3. SubSeq(l, 1, q) \in Seq(pairs) /\ Len(SubSeq(l, 1, q)) = q
        /\ \A j \in 1 .. q : SubSeq(l, 1, q)[j] = l[j]
    BY <1>3, <1>9, <2>1, \A j \in 1 .. q : j \in 1 .. m
  <2> QED
    BY <1>9, <2>2, <2>3
<1>11. ToSet(list) = {l[j] : j \in 1 .. q} /\ listed = {l[j].insn : j \in 1 .. q}
  BY <1>10 DEF ToSet
<1>12. \A j \in 1 .. q : j \in 1 .. m /\ l[j] \in pairs
  BY <1>3, <1>5, <1>9
<1>13. q = MaxListed \/ q = m
  OBVIOUS
<1> HIDE DEF q, listed
<1>14. Cardinality(listed) = Len(list)
  <2> DEFINE f == [j \in 1 .. q |-> l[j].insn]
  <2>1. f \in [1 .. q -> listed] /\ \A i \in listed : \E j \in 1 .. q : f[j] = i
    BY <1>11
  <2>2. \A i, j \in 1 .. q : f[i] = f[j] => i = j
    <3> SUFFICES ASSUME NEW i \in 1 .. q, NEW j \in 1 .. q, l[i].insn = l[j].insn PROVE i = j
      OBVIOUS
    <3>1. l[i] = l[j]
      BY <1>7, <1>12
    <3> QED
      BY <1>5, <1>12, <3>1
  <2> HIDE DEF f
  <2>3. f \in Bijection(1 .. q, listed)
    BY <2>1, <2>2 DEF Bijection, Injection, Surjection, IsInjective
  <2>4. ExistsBijection(1 .. q, listed)
    BY <2>3 DEF ExistsBijection
  <2>5. IsFiniteSet(1 .. q) /\ Cardinality(1 .. q) = q
    BY <1>9, FS_Interval
  <2>6. Cardinality(listed) = q
    BY <2>4, <2>5, FS_Bijection
  <2> QED
    BY <1>10, <2>6
<1>15. Len(list) = MaxListed \/ listed = DOMAIN counts
  <2> SUFFICES ASSUME q = m PROVE listed = DOMAIN counts
    BY <1>10, <1>13
  <2>1. listed \subseteq DOMAIN counts
    BY <1>7, <1>11, <1>12
  <2>2. DOMAIN counts \subseteq listed
    BY <1>6, <1>8, <1>11
  <2> QED
    BY <2>1, <2>2
<1>16. \A j, k \in 1 .. m : j < k => l[j].count >= l[k].count
  BY <1>4, <1>5 DEF Descending
<1>17. Descending(list)
  BY <1>10, <1>12, <1>16 DEF Descending
<1>18. \A p \in ToSet(list) : p.insn \in DOMAIN counts /\ p.count = counts[p.insn]
  BY <1>7, <1>11, <1>12
<1>19. ASSUME NEW p \in ToSet(list), NEW i \in DOMAIN counts, i \notin listed
       PROVE  counts[i] <= p.count
  <2>1. PICK j \in 1 .. q : p = l[j]
    BY <1>11
  <2>2. PICK k \in 1 .. m : l[k].insn = i /\ l[k].count = counts[i]
    BY <1>6, <1>8
  <2>3. k \notin 1 .. q
    BY <1>11, <1>19, <2>2
  <2>4. j \in 1 .. m /\ j < k
    BY <1>3, <1>9, <1>12, <2>3
  <2>5. l[j].count >= l[k].count /\ l[j].count \in Nat /\ counts[i] \in Nat
    BY <1>2, <1>5, <1>7, <1>16, <2>4
  <2> QED
    BY <2>1, <2>2, <2>5
<1> QED
  BY <1>14, <1>15, <1>17, <1>18, <1>19 DEF counts, listed

\* The statistics of a file describe its trace.
LEMMA AnalysisDescribes ==
  ASSUME file \in Files, NEW s \in analyze(file.entries)
  PROVE  DescribesTrace(s)
<1> DEFINE n == Len(Whole)
           addrKeys == [k \in DOMAIN Whole |-> Whole[k].pc]
           insnKeys == [k \in DOMAIN Whole |-> Whole[k].insn]
           addrs == Counts(addrKeys)
           insns == Counts(insnKeys)
           list  == s.instruction_counts
           most  == s.most_executed_address
<1>1. n \in Nat /\ DOMAIN Whole = 1 .. n
  BY ServerAssumption, SavedEntries DEF Whole
<1>2. /\ s.total_steps = n /\ list \in Listings(insns)
      /\ most \in IF Whole = << >> THEN {<< >>}
                  ELSE {<< [addr |-> a, count |-> addrs[a]] >> : a \in MostExecuted(addrs)}
  <2>1. Whole = get_all(file.entries) /\ addrs = AddrCounts(Whole) /\ insns = InsnCounts(Whole)
    BY DEF Whole, AddrCounts, InsnCounts
  <2> HIDE DEF addrs, insns
  <2>2. PICK listing \in Listings(insns),
             m \in IF Whole = << >> THEN {<< >>}
                   ELSE {<< [addr |-> a, count |-> addrs[a]] >> : a \in MostExecuted(addrs)} :
          /\ s.total_steps = Len(Whole) /\ s.instruction_counts = listing
          /\ s.most_executed_address = m
    BY <2>1 DEF analyze
  <2> QED
    BY <2>2
<1>3. DOMAIN addrKeys = 1 .. n /\ DOMAIN insnKeys = 1 .. n
      /\ \A k \in 1 .. n : addrKeys[k] = Whole[k].pc /\ insnKeys[k] = Whole[k].insn
  BY <1>1
<1> HIDE DEF list, most, n
<1>4. /\ \A k \in 1 .. n : Whole[k].pc \in DOMAIN addrs
      /\ \A x \in DOMAIN addrs : addrs[x] = Cardinality({k \in 1 .. n : Whole[k].pc = x})
  <2> HIDE DEF addrKeys
  <2>0. DOMAIN addrs = {addrKeys[k] : k \in DOMAIN addrKeys}
        /\ \A x \in DOMAIN addrs : addrs[x] = Cardinality({k \in DOMAIN addrKeys : addrKeys[k] = x})
    BY CountsOfKeys
  <2>1. DOMAIN addrs = {addrKeys[k] : k \in 1 .. n}
        /\ \A x \in DOMAIN addrs : addrs[x] = Cardinality({k \in 1 .. n : addrKeys[k] = x})
    BY <1>3, <2>0
  <2>2. \A x : {k \in 1 .. n : addrKeys[k] = x} = {k \in 1 .. n : Whole[k].pc = x}
    BY <1>3
  <2> QED
    BY <1>3, <2>1, <2>2
<1>5. /\ DOMAIN insns = Mnemonics
      /\ \A x \in DOMAIN insns : insns[x] = Cardinality({k \in 1 .. n : Whole[k].insn = x})
  <2> HIDE DEF insnKeys
  <2>0. DOMAIN insns = {insnKeys[k] : k \in DOMAIN insnKeys}
        /\ \A x \in DOMAIN insns : insns[x] = Cardinality({k \in DOMAIN insnKeys : insnKeys[k] = x})
    BY CountsOfKeys
  <2>1. DOMAIN insns = {insnKeys[k] : k \in 1 .. n}
        /\ \A x \in DOMAIN insns : insns[x] = Cardinality({k \in 1 .. n : insnKeys[k] = x})
    BY <1>3, <2>0
  <2>2. \A x : {k \in 1 .. n : insnKeys[k] = x} = {k \in 1 .. n : Whole[k].insn = x}
    BY <1>3
  <2>3. Mnemonics = {insnKeys[k] : k \in 1 .. n}
    BY <1>1, <1>3 DEF Mnemonics, ToSet
  <2> QED
    BY <2>1, <2>2, <2>3
<1>6. LET listed == {p.insn : p \in ToSet(list)}
      IN  /\ Cardinality(listed) = Len(list)
          /\ Len(list) = MaxListed \/ listed = DOMAIN insns
          /\ Descending(list)
          /\ \A p \in ToSet(list) : p.insn \in DOMAIN insns /\ p.count = insns[p.insn]
          /\ \A p \in ToSet(list), i \in DOMAIN insns \ listed : insns[i] <= p.count
  <2> HIDE DEF insnKeys
  <2> QED
    BY <1>1, <1>2, <1>3, ListingsDescribe
<1> HIDE DEF addrs, insns
<1>7. (most = << >>) <=> (Whole = << >>)
  BY <1>2
<1>8. ASSUME NEW p \in ToSet(most)
      PROVE  /\ p.count = Cardinality({k \in 1 .. n : Whole[k].pc = p.addr})
             /\ \A j \in 1 .. n : Cardinality({k \in 1 .. n : Whole[k].pc = Whole[j].pc}) <= p.count
  <2>1. most # << >>
    BY <1>8 DEF ToSet
  <2>2. PICK a \in MostExecuted(addrs) : most = << [addr |-> a, count |-> addrs[a]] >>
    BY <1>2, <2>1
  <2>3. p = [addr |-> a, count |-> addrs[a]]
    BY <1>8, <2>2 DEF ToSet
  <2>4. a \in DOMAIN addrs /\ \A b \in DOMAIN addrs : addrs[b] <= addrs[a]
    BY <2>2 DEF MostExecuted
  <2> QED
    BY <1>4, <2>3, <2>4
<1> QED
  BY <1>1, <1>2, <1>5, <1>6, <1>7, <1>8 DEF DescribesTrace, Occurrences, list, most, n

\* The statistics of every answer name the most frequent addresses and
\* mnemonics of the trace with their exact numbers.
THEOREM StatsAlwaysDescribe == WebSpec => []StatsDescribeTrace
<1>1. ASSUME ServerInv, NEW c \in Clients, answer[c] # None, asked[c].kind = "stats",
             answer[c] # Dropped
      PROVE  DescribesTrace(answer[c].stats)
  <2>1. asked[c] \in RequestKinds /\ answer[c] \in Respond(asked[c]) /\ file \in Files
    BY <1>1 DEF ServerInv, Answered
  <2>2. PICK s \in Analyses[file] : answer[c] = [kind |-> "stats", stats |-> s]
    BY <1>1, <2>1, Responses
  <2>3. s \in analyze(file.entries) /\ answer[c].stats = s
    BY <2>1, <2>2 DEF Analyses
  <2> QED
    BY <2>1, <2>3, AnalysisDescribes
<1>2. ServerInv => StatsDescribeTrace
  BY <1>1 DEF StatsDescribeTrace
<1> QED
  BY <1>2, AlwaysServed, PTL

-----------------------------------------------------------------------------
(* What the page shows. *)

\* Rows stand where the list has their entries, one at a place.
Placed(R, list) ==
  /\ R \subseteq [fi : Nat, i : Nat, active : BOOLEAN]
  /\ \A r \in R : r.i \in list /\ r.fi = Position(r.i, list)
  /\ \A r, q \in R : r.fi = q.fi => r = q

\* The row of the entry shown, and no other, is marked, if the list has it.
Marked(R, list, c) == c \in list => \A r \in R : r.active <=> r.i = c

\* Every place renderVisible is to fill has a row.
Covers(R, top, list) ==
  \A fi \in StartFi(top) .. EndFi(top, list) - 1 : \E r \in R : r.fi = fi

\* The answer with the whole trace.
Reply == TraceResponse(Whole)

\* The page holds the reply once it is ready, and nothing before.
PageInv ==
  /\ phase = "loading" => asked[Browser] = [kind |-> "all"]
  /\ phase = "ready" => /\ trace = Entries(Reply) /\ header = HeaderOf(Reply)
                        /\ curr \in Indices /\ prevRegs = Doubles(trace[curr].regs)
  /\ phase # "ready" => trace = EmptyDb

ListInv ==
  /\ filtered \subseteq Indices
  /\ scrollTop \in Nat /\ scrolled \in BOOLEAN
  /\ Placed(rows, filtered) /\ Marked(rows, filtered, curr)
  /\ ~scrolled => Covers(rows, scrollTop, filtered)
  /\ ListFollowsBox

-----------------------------------------------------------------------------
(* Numbers and places. *)

\* Dividing rounds down.
LEMMA Division ==
  ASSUME NEW a \in Int, NEW b \in Nat \ {0}
  PROVE  /\ a \div b \in Int
         /\ (a \div b) * b <= a /\ a < ((a \div b) + 1) * b
OBVIOUS

\* Positions are numbers of half pixels, places are numbers of rows.
LEMMA Pixels ==
  ASSUME NEW list, Cardinality(list) \in Nat
  PROVE  /\ \A top \in Int : Clamped(top, list) \in Nat /\ Settable(top, list) \subseteq Nat
         /\ \A top \in Nat : StartFi(top) \in Nat
         /\ \A top \in Nat : EndFi(top, list) \in Int /\ EndFi(top, list) <= Cardinality(list)
<1> DEFINE n == Cardinality(list)
<1>0. Buffer \in Nat /\ RowHeight \in Nat \ {0} /\ ViewSpan \in Nat \ {0}
  BY WebAssumption DEF RowHeight, ViewSpan
<1> HIDE DEF n
<1>1. \A a, b \in Int : Least(a, b) = (IF a < b THEN a ELSE b) /\ Most(a, b) = (IF a < b THEN b ELSE a)
  BY DEF Least, Most
<1>2. ASSUME NEW top \in Int PROVE Clamped(top, list) \in Nat
  <2>1. n * RowHeight - ViewSpan \in Int
    BY <1>0 DEF n
  <2>2. Clamped(top, list) = Least(Most(top, 0), Most(n * RowHeight - ViewSpan, 0))
    BY DEF Clamped, n
  <2> QED
    BY <1>1, <2>1, <2>2
<1>3. ASSUME NEW top \in Nat PROVE StartFi(top) \in Nat
  <2>1. (top \div RowHeight) - Buffer \in Int
    BY <1>0, Division
  <2> QED
    BY <1>1, <2>1 DEF StartFi
<1>4. ASSUME NEW top \in Nat PROVE EndFi(top, list) \in Int /\ EndFi(top, list) <= n
  <2>1. ((top + ViewSpan + RowHeight - 1) \div RowHeight) + Buffer \in Int
    BY <1>0, Division
  <2>2. EndFi(top, list) = Least(n, ((top + ViewSpan + RowHeight - 1) \div RowHeight) + Buffer)
    BY DEF EndFi, n
  <2> QED
    BY <1>1, <2>1, <2>2 DEF n
<1>5. ASSUME NEW top \in Int PROVE Settable(top, list) \subseteq Nat
  <2>1. (IF top % 2 = 0 THEN {top} ELSE {top - 1, top, top + 1}) \subseteq Int
    OBVIOUS
  <2> QED
    BY <1>2, <2>1 DEF Settable
<1> QED
  BY <1>2, <1>3, <1>4, <1>5 DEF n

\* A list of indices has as many places as indices, and At finds the index at
\* each of them.
LEMMA Places ==
  ASSUME NEW n \in Nat, NEW list, list \subseteq 0 .. n - 1
  PROVE  /\ Cardinality(list) \in Nat
         /\ \A i \in list : Position(i, list) \in 0 .. Cardinality(list) - 1
         /\ \A fi \in 0 .. Cardinality(list) - 1 : At(fi, list) \in list /\ Position(At(fi, list), list) = fi
<1> DEFINE m == Cardinality(list)
<1>0. IsFiniteSet(0 .. n - 1)
  BY FS_Interval
<1>1. IsFiniteSet(list) /\ list \subseteq Int
  <2>1. IsFiniteSet(list)
    BY <1>0, FS_Subset
  <2>2. list \subseteq Int
    OBVIOUS
  <2> QED
    BY <2>1, <2>2
<1>2. /\ m \in Nat
      /\ \A i \in list : Rank(list, i) \in 1 .. m
      /\ \A k \in 1 .. m : \E i \in list : Rank(list, i) = k
  BY <1>1, Ranks
<1>3. ASSUME NEW i \in list PROVE Position(i, list) = Rank(list, i) - 1
  <2> DEFINE before == {j \in list : j < i}
  <2>1. IsFiniteSet(before) /\ Cardinality(before) \in Nat
    BY <1>1, FS_Subset, FS_CardinalityType
  <2>2. {t \in list : t <= i} = before \cup {i} /\ i \notin before
    <3>1. \A t \in list : t <= i <=> t < i \/ t = i
      BY <1>1
    <3>2. ~(i < i)
      BY <1>1
    <3> QED
      BY <3>1, <3>2
  <2>3. Rank(list, i) = Cardinality(before) + 1
    BY <2>1, <2>2, FS_AddElement DEF Rank
  <2> QED
    BY <2>1, <2>3 DEF Position
<1> HIDE DEF m
<1>4. ASSUME NEW i \in list PROVE Position(i, list) \in 0 .. m - 1
  BY <1>2, <1>3
<1>5. ASSUME NEW fi \in 0 .. m - 1 PROVE At(fi, list) \in list /\ Position(At(fi, list), list) = fi
  <2>1. fi + 1 \in 1 .. m
    BY <1>2
  <2>2. PICK i \in list : Rank(list, i) = fi + 1
    BY <1>2, <2>1
  <2>3. Position(i, list) = fi
    BY <1>3, <2>2
  <2> QED
    BY <2>3 DEF At
<1> QED
  BY <1>2, <1>4, <1>5 DEF m

-----------------------------------------------------------------------------
(* Rendering. *)

\* After renderVisible the rows stand where they belong and every place it is
\* to fill has one; the marks are right if they were.
LEMMA Rendered ==
  ASSUME NEW n \in Nat, NEW list, list \subseteq 0 .. n - 1, NEW top \in Nat, NEW c,
         NEW old, Placed(old, list)
  PROVE  /\ Placed(RenderVisible(old, top, list, c), list)
         /\ Covers(RenderVisible(old, top, list, c), top, list)
         /\ Marked(old, list, c) => Marked(RenderVisible(old, top, list, c), list, c)
<1>a. list \subseteq Nat
  OBVIOUS
<1> DEFINE m == Cardinality(list)
           range == StartFi(top) .. EndFi(top, list) - 1
           kept == {r \in old : r.fi \in range}
           new == {fi \in range : \A r \in kept : r.fi # fi}
           row(fi) == [fi |-> fi, i |-> At(fi, list), active |-> At(fi, list) = c]
           R == RenderVisible(old, top, list, c)
<1>0. R = kept \cup {row(fi) : fi \in new}
  BY DEF RenderVisible
<1>1. /\ m \in Nat
      /\ \A fi \in 0 .. m - 1 : At(fi, list) \in list /\ Position(At(fi, list), list) = fi
  BY Places
<1>2. StartFi(top) \in Nat /\ EndFi(top, list) \in Int /\ EndFi(top, list) <= m
  BY <1>1, Pixels
<1>3. range \subseteq 0 .. m - 1
  BY <1>1, <1>2
<1> HIDE DEF m, range, R
<1>4. \A fi \in new : /\ row(fi) \in [fi : Nat, i : Nat, active : BOOLEAN]
                      /\ row(fi).i \in list /\ row(fi).fi = fi /\ Position(row(fi).i, list) = fi
                      /\ row(fi).active = (row(fi).i = c)
  <2> TAKE fi \in new
  <2>1. fi \in 0 .. m - 1
    BY <1>3
  <2>2. fi \in Nat /\ At(fi, list) \in list /\ Position(At(fi, list), list) = fi
    BY <1>1, <2>1
  <2>3. At(fi, list) \in Nat
    BY <1>a, <2>2
  <2> QED
    BY <2>2, <2>3
<1>5. /\ kept \subseteq [fi : Nat, i : Nat, active : BOOLEAN]
      /\ \A r \in kept : r.i \in list /\ r.fi = Position(r.i, list)
      /\ \A r, q \in kept : r.fi = q.fi => r = q
  BY DEF Placed
<1>6. \A r \in R : r \in kept \/ \E fi \in new : r = row(fi)
  BY <1>0
<1>7. \A fi \in new : \A r \in kept : r.fi # fi
  OBVIOUS
<1>8. \A fi \in range : \E r \in R : r.fi = fi
  <2> TAKE fi \in range
  <2>1. CASE fi \in new
    BY <1>0, <1>4, <2>1
  <2>2. CASE fi \notin new
    BY <1>0, <2>2
  <2> QED
    BY <2>1, <2>2
<1> HIDE DEF kept, new, row
<1>9. Placed(R, list)
  <2>1. R \subseteq [fi : Nat, i : Nat, active : BOOLEAN]
    BY <1>4, <1>5, <1>6
  <2>2. \A r \in R : r.i \in list /\ r.fi = Position(r.i, list)
    BY <1>4, <1>5, <1>6
  <2>3. ASSUME NEW r \in R, NEW q \in R, r.fi = q.fi PROVE r = q
    <3>1. CASE r \in kept /\ q \in kept
      BY <1>5, <2>3, <3>1
    <3>2. CASE r \notin kept \/ q \notin kept
      BY <1>4, <1>6, <1>7, <2>3, <3>2
    <3> QED
      BY <3>1, <3>2
  <2> QED
    BY <2>1, <2>2, <2>3 DEF Placed
<1>10. Covers(R, top, list)
  BY <1>8 DEF Covers, range
<1>11. ASSUME Marked(old, list, c) PROVE Marked(R, list, c)
  <2>1. \A r \in kept : r \in old
    BY DEF kept
  <2> QED
    BY <1>4, <1>6, <1>11, <2>1 DEF Marked
<1> QED
  BY <1>9, <1>10, <1>11 DEF R

\* After scrollToActive the entry shown is the one that is marked.
LEMMA ScrolledToActive ==
  ASSUME NEW n \in Nat, NEW list, list \subseteq 0 .. n - 1, NEW c \in list,
         NEW old, Placed(old, list), scrollTop \in Nat, scrolled \in BOOLEAN,
         ScrollToActive(c, list, old)
  PROVE  /\ scrollTop' \in Nat /\ scrolled' \in BOOLEAN
         /\ Placed(rows', list) /\ Marked(rows', list, c) /\ Covers(rows', scrollTop', list)
<1> DEFINE R == RenderVisible(old, scrollTop', list, c)
<1>1. /\ scrollTop' \in ScrollTops(c, list) /\ scrolled' = (scrolled \/ scrollTop' # scrollTop)
      /\ rows' = {[r EXCEPT !.active = (r.i = c)] : r \in R}
  BY DEF ScrollToActive
<1>2. Cardinality(list) \in Nat /\ Position(c, list) \in Int
  <2>1. Cardinality(list) \in Nat /\ Position(c, list) \in 0 .. Cardinality(list) - 1
    BY Places
  <2> QED
    BY <2>1
<1>3. Position(c, list) * RowHeight - ViewSpan \div 2 \in Int
  <2>1. ViewSpan \div 2 \in Int /\ RowHeight \in Int
    BY WebAssumption DEF ViewSpan, RowHeight
  <2> QED
    BY <1>2, <2>1
<1>4. scrollTop' \in Nat
  BY <1>1, <1>2, <1>3, Pixels DEF ScrollTops
<1>5. Placed(R, list) /\ Covers(R, scrollTop', list)
  BY <1>4, Rendered
<1> HIDE DEF R
<1>6. \A r \in R : /\ r \in [fi : Nat, i : Nat, active : BOOLEAN]
                   /\ r.i \in list /\ r.fi = Position(r.i, list)
  BY <1>5 DEF Placed
<1>7. \A q \in rows' : \E r \in R : /\ q = [r EXCEPT !.active = (r.i = c)]
                                    /\ q \in [fi : Nat, i : Nat, active : BOOLEAN]
                                    /\ q.i = r.i /\ q.fi = r.fi /\ q.active = (r.i = c)
  BY <1>1, <1>6
<1>8. \A r \in R : \E q \in rows' : q.fi = r.fi
  <2> TAKE r \in R
  <2>1. [r EXCEPT !.active = (r.i = c)] \in rows'
    BY <1>1
  <2>2. [r EXCEPT !.active = (r.i = c)].fi = r.fi
    BY <1>6
  <2> QED
    BY <2>1, <2>2
<1>9. Placed(rows', list)
  <2>1. \A q \in rows' : q.i \in list /\ q.fi = Position(q.i, list)
    BY <1>6, <1>7
  <2>2. \A p, q \in rows' : p.fi = q.fi => p = q
    <3> SUFFICES ASSUME NEW p \in rows', NEW q \in rows', p.fi = q.fi PROVE p = q
      OBVIOUS
    <3>1. PICK r \in R : p = [r EXCEPT !.active = (r.i = c)] /\ p.fi = r.fi
      BY <1>7
    <3>2. PICK s \in R : q = [s EXCEPT !.active = (s.i = c)] /\ q.fi = s.fi
      BY <1>7
    <3>3. r = s
      BY <1>5, <3>1, <3>2 DEF Placed
    <3> QED
      BY <3>1, <3>2, <3>3
  <2> QED
    BY <1>7, <2>1, <2>2 DEF Placed
<1>10. Marked(rows', list, c)
  BY <1>7 DEF Marked
<1>11. Covers(rows', scrollTop', list)
  BY <1>5, <1>8 DEF Covers
<1> QED
  BY <1>1, <1>4, <1>9, <1>10, <1>11

-----------------------------------------------------------------------------
(* The page's invariant. *)

WebInv == ServerInv /\ PageInv /\ ListInv

\* What may happen to the page: nothing, while the server or another client is
\* busy; a key that shows an entry, or fails to; a filter that is applied.
Elsewhere == UNCHANGED browserVars /\ asked'[Browser] = asked[Browser]

Shows ==
  /\ UNCHANGED << phase, trace, header, unapplied, filtered, box, asked >>
  /\ NoShow \/ \E idx \in Indices : Show(idx, trace, filtered, rows)

Refilters ==
  /\ UNCHANGED << phase, trace, header, detailVars, asked >>
  /\ unapplied' = FALSE /\ applyFilter(box')

\* Every step is one of these, of the loading or of the scrolling.
LEMMA NextPage ==
  ASSUME ServerInv, [WebNext]_webVars
  PROVE  \/ Elsewhere \/ OpenPage \/ Load \/ LoadNothing \/ LoadFails
         \/ Shows \/ Refilters \/ toggleHelp \/ Scroll \/ OnScroll
<1>0. Browser \in Clients /\ asked \in [Clients -> RequestKinds \cup {None}]
  BY WebAssumption DEF ServerInv
<1>1. CASE ServerStep
  <2>1. UNCHANGED browserVars
    BY <1>1 DEF ServerStep
  <2>2. UNCHANGED asked \/ \E c \in Clients \ {Browser} : \E v : asked' = [asked EXCEPT ![c] = v]
    BY <1>1 DEF ServerStep, Start, StartFails, StopServer, Handle, TakeAnswer, Ask
  <2> QED
    BY <1>0, <2>1, <2>2 DEF Elsewhere
<1>2. ASSUME NEW idx, InView, TryShow(idx) PROVE Shows
  BY <1>2 DEF InView, Opened, KeepServer, serverVars, TryShow, Shows
<1>3. ASSUME InView, NoShow PROVE Shows
  BY <1>3 DEF InView, Opened, KeepServer, serverVars, Shows
<1>4. CASE UserStep
  <2>1. CASE TypeFilter \/ Escape
    BY <2>1 DEF TypeFilter, Escape, Opened, KeepServer, serverVars, Refilters
  <2>2. CASE \E d \in {-1, 1, -Page, Page} : stepBy(d)
    BY <1>2, <2>2 DEF stepBy
  <2>3. CASE jumpTo(0) \/ jumpTo(Size - 1)
    BY <1>2, <2>3 DEF jumpTo
  <2>4. CASE \E s \in Indices \cup {Size} : goToStep(s)
    BY <1>2, <1>3, <2>4 DEF goToStep
  <2>5. CASE \E type \in {"call", "ret", "mem"} : findNext(type) \/ findPrev(type)
    BY <1>2, <1>3, <2>5 DEF findNext, findPrev
  <2>6. CASE ClickRow
    BY <1>2, <2>6 DEF ClickRow
  <2> QED
    BY <1>4, <2>1, <2>2, <2>3, <2>4, <2>5, <2>6 DEF UserStep
<1>5. CASE UNCHANGED webVars
  BY <1>5 DEF webVars, serverVars, Elsewhere
<1> QED
  BY <1>1, <1>4, <1>5 DEF WebNext

\* The file that is served stays the same, and so does the reply.
LEMMA SameReply ==
  ASSUME [WebNext]_webVars
  PROVE  file' = file /\ Whole' = Whole /\ Reply' = Reply
<1>1. file' = file
  BY NextServerEvents DEF ServerEvents, Start, StartFails, StopServer, Handle, TakeAnswer, Ask, AskTooLate, serverVars
<1> QED
  BY <1>1 DEF Whole, Reply, TraceResponse

\* The indices are those of a sequence, empty until the page is ready.
LEMMA IndicesType ==
  ASSUME ServerInv, PageInv
  PROVE  \E n \in Nat : Indices = 0 .. n - 1
<1>1. CASE phase = "ready"
  <2>1. Len(Whole) \in Nat
    BY ServerAssumption, SavedEntries DEF ServerInv, Whole
  <2>2. Reply.entries = Whole
    BY DEF Reply, TraceResponse
  <2>3. Indices = 0 .. Len(Whole) - 1
    BY <1>1, <2>2 DEF PageInv, Entries, Indices
  <2> QED
    BY <2>1, <2>3
<1>2. CASE phase # "ready"
  <2>1. Indices = {} /\ {} = 0 .. 0 - 1
    BY <1>2 DEF PageInv, EmptyDb, Indices
  <2> QED
    BY <2>1
<1> QED
  BY <1>1, <1>2

\* No row belongs to an empty list.
LEMMA EmptyList ==
  /\ Placed({}, {}) /\ Covers({}, 0, {})
  /\ \A R, c : Marked(R, {}, c)
<1>1. Cardinality({}) = 0
  BY FS_EmptySet
<1>2. StartFi(0) \in Nat /\ EndFi(0, {}) \in Int /\ EndFi(0, {}) <= 0
  BY <1>1, Pixels
<1>3. StartFi(0) .. EndFi(0, {}) - 1 = {}
  BY <1>2
<1> QED
  BY <1>3 DEF Placed, Covers, Marked

\* The closed page shows nothing.
LEMMA InitWeb == WebInit => WebInv
<1> SUFFICES ASSUME WebInit PROVE WebInv
  OBVIOUS
<1>1. ServerInv
  BY InitServer DEF WebInit
<1>2. PageInv
  BY DEF WebInit, PageInv
<1>3. ListInv
  BY EmptyList DEF WebInit, ListInv, ListFollowsBox
<1> QED
  BY <1>1, <1>2, <1>3 DEF WebInv

\* What arrives while the page is loading is the reply, if it is an answer.
LEMMA Arrives ==
  ASSUME ServerInv, PageInv, phase = "loading", answer[Browser] \notin {None, Dropped}
  PROVE  answer[Browser] = Reply
<1>1. Answered(Browser) /\ asked[Browser] = [kind |-> "all"] /\ [kind |-> "all"] \in RequestKinds
  BY WebAssumption DEF ServerInv, PageInv, RequestKinds
<1>2. answer[Browser] \in Respond([kind |-> "all"])
  BY <1>1 DEF Answered
<1> QED
  BY <1>1, <1>2, Responses DEF Reply, Whole

\* Once the trace is there, it has a first entry.
LEMMA Loaded ==
  ASSUME ServerInv, PageInv, Load
  PROVE  /\ trace' = Entries(Reply) /\ header' = HeaderOf(Reply) /\ 0 \in DOMAIN trace'
         /\ filtered' = DOMAIN trace' /\ phase' = "ready" /\ unapplied' = (box # NoText) /\ box' = box
         /\ Show(0, trace', DOMAIN trace', RenderVisible(rows, scrollTop, DOMAIN trace', curr))
         /\ \E n \in Nat : DOMAIN trace' = 0 .. n - 1
<1>1. answer[Browser] = Reply
  BY Arrives DEF Load
<1>2. Len(Whole) \in Nat /\ Reply.entries = Whole
  BY ServerAssumption, SavedEntries DEF ServerInv, Whole, Reply, TraceResponse
<1>3. Entries(Reply) = [i \in 0 .. Len(Whole) - 1 |-> Whole[i + 1]]
  BY <1>2 DEF Entries
<1>4. Entries(Reply) # EmptyDb
  BY <1>1 DEF Load
<1>5. Len(Whole) # 0
  <2> SUFFICES ASSUME Len(Whole) = 0 PROVE FALSE
    OBVIOUS
  <2>1. 0 .. Len(Whole) - 1 = {}
    OBVIOUS
  <2>2. [i \in {} |-> Whole[i + 1]] = [s \in {} |-> 0]
    OBVIOUS
  <2> QED
    BY <1>3, <1>4, <2>1, <2>2 DEF EmptyDb
<1>6. trace' = Entries(Reply)
  BY <1>1 DEF Load
<1>7. DOMAIN trace' = 0 .. Len(Whole) - 1 /\ 0 \in DOMAIN trace'
  BY <1>2, <1>3, <1>5, <1>6
<1> QED
  BY <1>1, <1>2, <1>6, <1>7 DEF Load

\* The page gets its trace from the reply and shows an entry of it.
LEMMA NextPageInv == WebInv /\ [WebNext]_webVars => PageInv'
<1> SUFFICES ASSUME WebInv, [WebNext]_webVars PROVE PageInv'
  OBVIOUS
<1>0. ServerInv /\ PageInv /\ Reply' = Reply
  BY SameReply DEF WebInv
<1>1. CASE Elsewhere
  BY <1>0, <1>1 DEF Elsewhere, browserVars, detailVars, PageInv, Indices
<1>2. CASE OpenPage
  <2>1. asked' = [asked EXCEPT ![Browser] = [kind |-> "all"]] /\ phase' = "loading"
        /\ phase = "closed" /\ UNCHANGED trace
    BY <1>2 DEF OpenPage, Ask, AskTooLate
  <2>2. asked'[Browser] = [kind |-> "all"]
    BY <1>0, <2>1, WebAssumption DEF ServerInv
  <2> QED
    BY <1>0, <2>1, <2>2 DEF PageInv
<1>3. CASE Load
  <2>1. /\ trace' = Entries(Reply) /\ header' = HeaderOf(Reply) /\ 0 \in DOMAIN trace'
        /\ phase' = "ready" /\ curr' = 0 /\ prevRegs' = Doubles(trace'[0].regs)
    BY <1>0, <1>3, Loaded DEF Show
  <2> QED
    BY <1>0, <2>1 DEF PageInv, Indices
<1>4. CASE LoadNothing \/ LoadFails
  BY <1>0, <1>4 DEF LoadNothing, LoadFails, PageInv
<1>5. CASE Shows
  <2>1. CASE NoShow
    BY <1>0, <1>5, <2>1 DEF Shows, NoShow, detailVars, PageInv, Indices
  <2>2. CASE \E idx \in Indices : Show(idx, trace, filtered, rows)
    <3>1. PICK idx \in Indices : curr' = idx /\ prevRegs' = Doubles(trace[idx].regs)
      BY <2>2 DEF Show
    <3> QED
      BY <1>0, <1>5, <3>1 DEF Shows, PageInv, Indices
  <2> QED
    BY <1>5, <2>1, <2>2 DEF Shows
<1>6. CASE Refilters \/ toggleHelp \/ Scroll \/ OnScroll
  <2>1. UNCHANGED << phase, trace, header, detailVars, asked >>
    BY <1>6 DEF Refilters, toggleHelp, Scroll, OnScroll, Opened, KeepServer, serverVars
  <2> QED
    BY <1>0, <2>1 DEF detailVars, PageInv, Indices
<1> QED
  BY <1>0, <1>1, <1>2, <1>3, <1>4, <1>5, <1>6, NextPage

\* Whatever is done to the list, its rows are rendered with it.
LEMMA NextListInv == WebInv /\ [WebNext]_webVars => ListInv'
<1> SUFFICES ASSUME WebInv, [WebNext]_webVars PROVE ListInv'
  OBVIOUS
<1>0. ServerInv /\ PageInv /\ ListInv
  BY DEF WebInv
<1>1. /\ filtered \subseteq Indices
      /\ scrollTop \in Nat /\ scrolled \in BOOLEAN
      /\ Placed(rows, filtered) /\ Marked(rows, filtered, curr)
      /\ ~scrolled => Covers(rows, scrollTop, filtered)
      /\ ListFollowsBox
  BY <1>0 DEF ListInv
<1>2. PICK n \in Nat : Indices = 0 .. n - 1
  BY <1>0, IndicesType
<1>3. Cardinality(filtered) \in Nat
  BY <1>1, <1>2, Places
\* The three things a step does to the list: nothing, a rendering, or less.
<1>4. ASSUME UNCHANGED << filtered, scrollTop, scrolled, rows >>, UNCHANGED << trace, curr, box, unapplied >>,
             phase' = phase \/ phase' # "ready"
      PROVE  ListInv'
  BY <1>1, <1>4 DEF ListInv, ListFollowsBox, Matching, Indices
<1>5. CASE Elsewhere \/ toggleHelp
  BY <1>4, <1>5 DEF Elsewhere, toggleHelp, Opened, browserVars, listVars, detailVars
<1>6. CASE OpenPage \/ LoadNothing \/ LoadFails
  BY <1>4, <1>6 DEF OpenPage, LoadNothing, LoadFails, listVars, detailVars
<1>7. CASE Load
  <2> DEFINE list == DOMAIN trace'
             old == RenderVisible(rows, scrollTop, list, curr)
  <2>1. /\ filtered' = list /\ unapplied' = (box' # NoText) /\ Show(0, trace', list, old)
        /\ 0 \in list /\ \E k \in Nat : list = 0 .. k - 1
    BY <1>0, <1>7, Loaded
  <2>2. rows = {}
    <3>1. Indices = {}
      BY <1>0, <1>7 DEF Load, PageInv, EmptyDb, Indices
    <3> QED
      BY <1>1, <3>1 DEF Placed
  <2>3. Placed(rows, list)
    BY <2>2 DEF Placed
  <2> HIDE DEF list
  <2>4. PICK k \in Nat : list \subseteq 0 .. k - 1
    BY <2>1
  <2>5. Placed(old, list)
    BY <1>1, <2>3, <2>4, Rendered
  <2> HIDE DEF old
  <2>6. curr' = 0 /\ ScrollToActive(0, list, old)
    BY <2>1 DEF Show
  <2>7. /\ scrollTop' \in Nat /\ scrolled' \in BOOLEAN
        /\ Placed(rows', list) /\ Marked(rows', list, 0) /\ Covers(rows', scrollTop', list)
    BY <1>1, <2>1, <2>4, <2>5, <2>6, ScrolledToActive
  <2>8. ListFollowsBox'
    BY <2>1 DEF ListFollowsBox, Matching, Indices, list
  <2> QED
    BY <2>1, <2>6, <2>7, <2>8 DEF ListInv, Indices, list
<1>8. CASE Shows
  <2>0. UNCHANGED << phase, trace, unapplied, filtered, box >>
    BY <1>8 DEF Shows
  <2>1. Indices' = Indices /\ ListFollowsBox'
    BY <1>1, <2>0 DEF ListFollowsBox, Matching, Indices
  <2>2. CASE NoShow
    BY <1>4, <2>0, <2>2 DEF NoShow, detailVars
  <2>3. ASSUME NEW idx \in Indices, Show(idx, trace, filtered, rows) PROVE ListInv'
    <3>1. curr' = idx /\ ScrollToActive(idx, filtered, rows)
      BY <2>3 DEF Show
    <3>2. CASE idx \in filtered
      <4>1. /\ scrollTop' \in Nat /\ scrolled' \in BOOLEAN
            /\ Placed(rows', filtered) /\ Marked(rows', filtered, idx)
            /\ Covers(rows', scrollTop', filtered)
        BY <1>1, <1>2, <3>1, <3>2, ScrolledToActive
      <4> QED
        BY <1>1, <2>0, <2>1, <3>1, <4>1 DEF ListInv
    <3>3. CASE idx \notin filtered
      <4>1. UNCHANGED << rows, scrollTop, scrolled >>
        BY <3>1, <3>3 DEF ScrollToActive
      <4>2. Marked(rows, filtered, idx)
        BY <3>3 DEF Marked
      <4> QED
        BY <1>1, <2>0, <2>1, <3>1, <4>1, <4>2 DEF ListInv
    <3> QED
      BY <3>2, <3>3
  <2> QED
    BY <1>8, <2>2, <2>3 DEF Shows
<1>9. CASE Refilters
  <2> DEFINE list == Matching(box')
  <2>0. UNCHANGED << phase, trace, curr >>
    BY <1>9 DEF Refilters, detailVars
  <2>1. /\ filtered' = list /\ scrollTop' = Clamped(scrollTop, list)
        /\ scrolled' = (scrolled \/ scrollTop' # scrollTop)
        /\ rows' = RenderVisible({}, scrollTop', list, curr)
    BY <1>9 DEF Refilters, applyFilter
  <2>2. list \subseteq Indices
    BY DEF Matching
  <2>3. Indices' = Indices /\ ListFollowsBox'
    BY <2>0, <2>1 DEF ListFollowsBox, Matching, Indices
  <2> HIDE DEF list
  <2>4. Cardinality(list) \in Nat
    BY <1>2, <2>2, Places
  <2>5. scrollTop' \in Nat /\ scrolled' \in BOOLEAN
    BY <1>1, <2>1, <2>4, Pixels
  <2>6. Placed({}, list) /\ Marked({}, list, curr)
    BY DEF Placed, Marked
  <2>7. Placed(rows', list) /\ Marked(rows', list, curr) /\ Covers(rows', scrollTop', list)
    BY <1>2, <2>1, <2>2, <2>5, <2>6, Rendered
  <2> QED
    BY <2>0, <2>1, <2>2, <2>3, <2>5, <2>7 DEF ListInv
<1>10. CASE Scroll
  <2>1. /\ UNCHANGED << phase, trace, unapplied, curr, filtered, box, rows >> /\ scrolled' = TRUE
        /\ scrollTop' \in 0 .. Clamped(Cardinality(filtered) * RowHeight, filtered)
    BY <1>10 DEF Scroll, Opened, detailVars
  <2>2. scrollTop' \in Nat
    <3>1. Cardinality(filtered) * RowHeight \in Int
      BY <1>3, WebAssumption DEF RowHeight
    <3> QED
      BY <1>3, <2>1, <3>1, Pixels
  <2>3. Indices' = Indices /\ ListFollowsBox'
    BY <1>1, <2>1 DEF ListFollowsBox, Matching, Indices
  <2> QED
    BY <1>1, <2>1, <2>2, <2>3 DEF ListInv
<1>11. CASE OnScroll
  <2>1. /\ UNCHANGED << phase, trace, unapplied, curr, filtered, box, scrollTop >> /\ scrolled' = FALSE
        /\ rows' = RenderVisible(rows, scrollTop, filtered, curr)
    BY <1>11 DEF OnScroll, Opened, detailVars
  <2>2. Placed(rows', filtered) /\ Marked(rows', filtered, curr) /\ Covers(rows', scrollTop, filtered)
    BY <1>1, <1>2, <2>1, Rendered
  <2>3. Indices' = Indices /\ ListFollowsBox'
    BY <1>1, <2>1 DEF ListFollowsBox, Matching, Indices
  <2> QED
    BY <1>1, <2>1, <2>2, <2>3 DEF ListInv
<1> QED
  BY <1>0, <1>5, <1>6, <1>7, <1>8, <1>9, <1>10, <1>11, NextPage

\* The invariant of the page holds throughout.
LEMMA AlwaysWeb == WebSpec => []WebInv
<1>1. WebInv /\ [WebNext]_webVars => WebInv'
  <2>1. WebInv /\ [WebNext]_webVars => ServerInv'
    BY NextServer, NextServerEvents DEF WebInv
  <2> QED
    BY <2>1, NextPageInv, NextListInv DEF WebInv
<1> QED
  BY <1>1, InitWeb, PTL DEF WebSpec

-----------------------------------------------------------------------------
(* The header. *)

\* An instruction is a call or a return, not both: filter counts those the two
\* counters of the statistics count.
LEMMA CallsAndReturns ==
  ASSUME NEW list, NEW n \in Nat, DOMAIN list = 1 .. n,
         \A j \in 1 .. n : IsFiniteSet(list[j].mem_changes)
  PROVE  CallCount(list) = Totals(list).calls + Totals(list).returns
<1> DEFINE C == IndicesOf(list, n, Calls)
           R == IndicesOf(list, n, Returns)
<1>1. Totals(list).calls = Cardinality(C) /\ Totals(list).returns = Cardinality(R)
  BY TotalsCount DEF Counted
<1>2. /\ IsFiniteSet(C) /\ Cardinality(C) \in Nat
      /\ IsFiniteSet(R) /\ Cardinality(R) \in Nat
  BY CountNext
<1>3. {k \in DOMAIN list : list[k].insn \in Calls \cup Returns} = C \cup R
  BY DEF IndicesOf
<1>4. C \cap R = {}
  BY WebAssumption DEF IndicesOf
<1> HIDE DEF C, R
<1>5. Cardinality(C \cup R) = Cardinality(C) + Cardinality(R)
  <2>1. Cardinality(C \cup R) = Cardinality(C) + Cardinality(R) - Cardinality(C \cap R)
    BY <1>2, FS_Union
  <2>2. Cardinality(C \cap R) = 0
    BY <1>4, FS_EmptySet
  <2> QED
    BY <1>2, <2>1, <2>2
<1> QED
  BY <1>1, <1>3, <1>5 DEF CallCount

\* m is the reduction of the entries with the indices up to n.
IsReduction(list, n, m) ==
  m = [s \in SUBSET (1 .. n) |->
         IF s = {} THEN 0 ELSE m[s \ {Max(s)}] + Cardinality(list[Max(s)].mem_changes)]

Reduction(list, n) == CHOOSE m : IsReduction(list, n, m)

\* MemCount is that reduction.
LEMMA MemCountIsReduction ==
  ASSUME NEW list, NEW n \in Nat, DOMAIN list = 1 .. n
  PROVE  MemCount(list) = Reduction(list, n)[1 .. n]
BY DEF MemCount, FoldLeft, MapThenFoldSet, Reduction, IsReduction

\* reduce adds up the memory changes the statistics add up beside the rest.
LEMMA MemIsTotal ==
  ASSUME NEW list, NEW n \in Nat, DOMAIN list = 1 .. n
  PROVE  MemCount(list) = Totals(list).mem
<1> DEFINE g == Fold(list, n)
           m == Reduction(list, n)
           P == {k \in Nat : m[1 .. k] = g[1 .. k].mem}
<1>1. IsFold(list, n, g)
  BY FoldExists DEF Fold
<1>2. /\ g[{}] = Zero
      /\ \A k \in 0 .. n - 1 : g[1 .. k + 1] = Add(g[1 .. k], list[k + 1])
  BY FoldSteps
<1>3. Totals(list) = g[1 .. n]
  BY TotalsIsFold
<1>a. Zero.mem = 0 /\ \A t, e : Add(t, e).mem = t.mem + Cardinality(e.mem_changes)
  BY DEF Zero, Add, One
<1> HIDE DEF g
<1>4. \E h : IsReduction(list, n, h)
  <2> DEFINE h == [s \in SUBSET (1 .. n) |-> g[s].mem]
  <2>1. ASSUME NEW s \in SUBSET (1 .. n)
        PROVE  h[s] = IF s = {} THEN 0 ELSE h[s \ {Max(s)}] + Cardinality(list[Max(s)].mem_changes)
    <3>1. g[s] = IF s = {} THEN Zero ELSE Add(g[s \ {Max(s)}], list[Max(s)])
      BY <1>1 DEF IsFold
    <3>2. s \ {Max(s)} \in SUBSET (1 .. n)
      OBVIOUS
    <3> QED
      BY <1>a, <3>1, <3>2
  <2>2. h = [s \in SUBSET (1 .. n) |->
               IF s = {} THEN 0 ELSE h[s \ {Max(s)}] + Cardinality(list[Max(s)].mem_changes)]
    BY <2>1
  <2>3. IsReduction(list, n, h)
    BY <2>2 DEF IsReduction
  <2> QED
    BY <2>3
<1>5. IsReduction(list, n, m)
  BY <1>4 DEF Reduction
<1>6. MemCount(list) = m[1 .. n]
  BY MemCountIsReduction
<1> HIDE DEF m
<1>7. \A s \in SUBSET (1 .. n) :
        m[s] = IF s = {} THEN 0 ELSE m[s \ {Max(s)}] + Cardinality(list[Max(s)].mem_changes)
  BY <1>5 DEF IsReduction
<1>8. 0 \in P
  <2>1. 1 .. 0 = {} /\ {} \in SUBSET (1 .. n)
    OBVIOUS
  <2> QED
    BY <1>2, <1>7, <1>a, <2>1
<1>9. ASSUME NEW k \in 0 .. n - 1, k \in P
      PROVE  k + 1 \in P
  <2>0. k \in Nat /\ k + 1 \in Nat /\ k + 1 <= n
    OBVIOUS
  <2>1. 1 .. k + 1 \in SUBSET (1 .. n) /\ 1 .. k + 1 # {} /\ k + 1 \in 1 .. k + 1
    <3>1. k + 1 \in 1 .. k + 1
      BY <2>0
    <3>2. \A j \in 1 .. k + 1 : j \in 1 .. n
      BY <2>0
    <3> QED
      BY <3>1, <3>2
  <2>2. Max(1 .. k + 1) = k + 1
    <3>1. Max(1 .. k + 1) \in 1 .. k + 1 /\ Max(1 .. k + 1) >= k + 1
      BY <2>1, MaxIndex
    <3> QED
      BY <3>1
  <2>3. (1 .. k + 1) \ {k + 1} = 1 .. k
    OBVIOUS
  <2>4. m[1 .. k + 1] = m[1 .. k] + Cardinality(list[k + 1].mem_changes)
    BY <1>7, <2>1, <2>2, <2>3
  <2>5. g[1 .. k + 1].mem = g[1 .. k].mem + Cardinality(list[k + 1].mem_changes)
    BY <1>2, <1>a
  <2>6. m[1 .. k] = g[1 .. k].mem
    BY <1>9
  <2> QED
    BY <2>0, <2>4, <2>5, <2>6
<1>10. n \in P
  <2> HIDE DEF P
  <2>1. \A k \in 0 .. n : k \in P
    BY <1>8, <1>9, UpTo
  <2> QED
    BY <2>1
<1> QED
  BY <1>3, <1>6, <1>10

-----------------------------------------------------------------------------
(* What the reader can rely on. *)

\* The loop of the page and the loop of tdb stats count the same in every file,
\* the calls of the page being calls and returns.
THEOREM HeaderIsStats == WebSpec => []HeaderAgreesWithStats
<1>1. ASSUME WebInv, phase = "ready", NEW s \in Analyses[file]
      PROVE  header = [steps |-> s.total_steps, calls |-> s.call_count + s.ret_count,
                       mem |-> s.mem_change_count]
  <2>1. file \in Files /\ header = HeaderOf(Reply)
    BY <1>1 DEF WebInv, ServerInv, PageInv
  <2>2. s \in analyze(file.entries)
    BY <2>1 DEF Analyses
  <2> DEFINE t == Totals(Whole)
  <2>3. s.total_steps = Len(Whole) /\ s.call_count = t.calls /\ s.ret_count = t.returns
        /\ s.mem_change_count = t.mem
    BY <2>2 DEF analyze, Whole
  <2>4. Len(Whole) = Count(file.entries)
    BY <2>1, ServerAssumption, SavedEntries DEF Whole
  <2>5. Reply.entries = Whole /\ Reply.total = Count(file.entries)
    BY DEF Reply, TraceResponse
  <2>a. IsSaved(file.entries)
    BY <2>1, ServerAssumption
  <2>b. /\ Count(file.entries) \in Nat /\ DOMAIN Whole = 1 .. Count(file.entries)
        /\ \A j \in 1 .. Count(file.entries) : \E q \in DOMAIN file.entries : Whole[j] = file.entries[q]
    BY <2>a, SavedEntries DEF Whole
  <2>c. \A j \in 1 .. Count(file.entries) : IsFiniteSet(Whole[j].mem_changes)
    BY <2>a, <2>b DEF IsSaved
  <2>d. CallCount(Whole) = t.calls + t.returns /\ MemCount(Whole) = t.mem
    BY <2>b, <2>c, CallsAndReturns, MemIsTotal
  <2>6. header = [steps |-> Count(file.entries), calls |-> t.calls + t.returns, mem |-> t.mem]
    BY <2>1, <2>5, <2>d DEF HeaderOf
  <2> HIDE DEF t
  <2> QED
    BY <2>3, <2>4, <2>6
<1>2. WebInv => HeaderAgreesWithStats
  BY <1>1 DEF HeaderAgreesWithStats
<1> QED
  BY <1>2, AlwaysWeb, PTL

\* However the list was filtered and scrolled and whatever was clicked: rows
\* stand where the list has their entries and mark the entry shown.
THEOREM RowsAlwaysShowTheList == WebSpec => []RowsShowTheList
<1>1. WebInv => RowsShowTheList
  BY DEF WebInv, ListInv, Placed, Marked, RowsShowTheList
<1> QED
  BY <1>1, AlwaysWeb, PTL

\* Unless a scroll event is on its way, every visible place of the list has its
\* row, for every height of a row and of the list, odd or even: the places
\* renderVisible fills are at least those that can be seen.
THEOREM NoRowIsBlank == WebSpec => []NoBlankRows
<1>1. ASSUME WebInv, ~scrolled, NEW fi \in 0 .. Cardinality(filtered) - 1,
             fi * RowHeight < scrollTop + ViewSpan, (fi + 1) * RowHeight > scrollTop
      PROVE  \E r \in rows : r.fi = fi
  <2> DEFINE h == RowHeight
             m == Cardinality(filtered)
             first == scrollTop \div h
             last == (scrollTop + ViewSpan + h - 1) \div h
  <2>0. /\ h \in Nat \ {0} /\ ViewSpan \in Nat \ {0} /\ Buffer \in Nat
        /\ scrollTop \in Nat /\ fi \in Nat
        /\ Covers(rows, scrollTop, filtered)
    BY <1>1, WebAssumption DEF WebInv, ListInv, RowHeight, ViewSpan
  <2>1. m \in Nat
    <3>1. PICK n \in Nat : Indices = 0 .. n - 1
      BY <1>1, IndicesType DEF WebInv
    <3>2. filtered \subseteq 0 .. n - 1
      BY <1>1, <3>1 DEF WebInv, ListInv
    <3> QED
      BY <3>2, Places
  <2>2. first \in Int /\ first * h <= scrollTop
    BY <2>0, Division
  <2>3. last \in Int /\ scrollTop + ViewSpan + h - 1 < (last + 1) * h
    <3>1. scrollTop + ViewSpan + h - 1 \in Int
      BY <2>0
    <3> QED
      BY <2>0, <3>1, Division
  <2> HIDE DEF first, last, m
  <2>4. first <= fi
    <3>1. first * h < (fi + 1) * h
      BY <1>1, <2>0, <2>2
    <3> HIDE DEF h
    <3>2. \A a, b \in Int : a * h < b * h => a < b
      BY <2>0
    <3>3. first < fi + 1
      BY <2>0, <2>2, <3>1, <3>2
    <3> QED
      BY <2>0, <2>2, <3>3
  <2>5. fi < last
    <3>1. (fi + 1) * h < (last + 1) * h
      <4>1. fi * h < scrollTop + ViewSpan
        BY <1>1
      <4> HIDE DEF h
      <4>2. (fi + 1) * h = fi * h + h /\ fi * h \in Int /\ (last + 1) * h \in Int
        BY <2>0, <2>3
      <4> QED
        BY <2>0, <2>3, <4>1, <4>2
    <3> HIDE DEF h
    <3>2. \A a, b \in Int : a * h < b * h => a < b
      BY <2>0
    <3>3. fi + 1 < last + 1
      BY <2>0, <2>3, <3>1, <3>2
    <3> QED
      BY <2>0, <2>3, <3>3
  <2>6. StartFi(scrollTop) = Most(0, first - Buffer)
        /\ EndFi(scrollTop, filtered) = Least(m, last + Buffer)
    BY DEF StartFi, EndFi, first, last, m
  <2>7. StartFi(scrollTop) \in Int /\ StartFi(scrollTop) <= fi
    BY <2>0, <2>2, <2>4, <2>6 DEF Most
  <2>8. EndFi(scrollTop, filtered) \in Int /\ fi <= EndFi(scrollTop, filtered) - 1
    BY <1>1, <2>0, <2>1, <2>3, <2>5, <2>6 DEF Least, m
  <2>9. fi \in StartFi(scrollTop) .. EndFi(scrollTop, filtered) - 1
    BY <2>0, <2>7, <2>8
  <2> QED
    BY <2>0, <2>9 DEF Covers
<1>2. WebInv => NoBlankRows
  BY <1>1 DEF NoBlankRows
<1> QED
  BY <1>2, AlwaysWeb, PTL

\* The list is that of the text in the filter box, cleared or not, unless a text
\* was there when the trace arrived and the box has not been used since.
THEOREM ListAlwaysFollowsBox == WebSpec => []ListFollowsBox
<1>1. WebInv => ListFollowsBox
  BY DEF WebInv, ListInv
<1> QED
  BY <1>1, AlwaysWeb, PTL

\* Of the entry left and the entry reached, the registers marked are those that
\* differ, up to values JavaScript cannot hold exactly.
THEOREM ChangedRegistersAreMarked == WebSpec => MarksChangedRegisters
<1>1. ASSUME WebInv, [WebNext]_webVars, phase = "ready", curr' # curr, NEW r \in Registers
      PROVE  LET before == trace[curr].regs[r]
                 after  == trace[curr'].regs[r]
             IN  IF r \in changed' THEN before # after
                 ELSE before = after \/ before > MaxExact \/ after > MaxExact
  <2>0. ServerInv /\ PageInv
    BY <1>1 DEF WebInv
  <2>1. PICK idx \in Indices : Show(idx, trace, filtered, rows)
    <3>1. Elsewhere \/ OpenPage \/ Load \/ LoadNothing \/ LoadFails \/ Shows
          \/ Refilters \/ toggleHelp \/ Scroll \/ OnScroll
      BY <1>1, <2>0, NextPage
    <3>2. Shows /\ ~NoShow
      BY <1>1, <3>1 DEF Elsewhere, OpenPage, Load, LoadNothing, LoadFails, Refilters, toggleHelp,
         Scroll, OnScroll, NoShow, browserVars, detailVars
    <3> QED
      BY <3>2 DEF Shows
  <2>2. /\ curr \in Indices /\ prevRegs = Doubles(trace[curr].regs) /\ curr' = idx
        /\ changed' = IF prevRegs = None THEN {}
                      ELSE {n \in Registers : prevRegs[n] # Double(trace[idx].regs[n])}
    BY <1>1, <2>0, <2>1 DEF PageInv, Show
  <2>3. \A i \in Indices : trace[i].regs \in [Registers -> Nat]
    <3>1. trace = Entries(Reply) /\ Reply.entries = Whole /\ file \in Files
      BY <1>1, <2>0 DEF PageInv, ServerInv, Reply, TraceResponse
    <3>2. /\ Len(Whole) = Count(file.entries) /\ Count(file.entries) \in Nat
          /\ \A j \in 1 .. Count(file.entries) : \E s \in DOMAIN file.entries : Whole[j] = file.entries[s]
      BY <3>1, ServerAssumption, SavedEntries DEF Whole
    <3> TAKE i \in Indices
    <3>3. i + 1 \in 1 .. Count(file.entries) /\ trace[i] = Whole[i + 1]
      BY <3>1, <3>2 DEF Entries, Indices
    <3>4. PICK s \in DOMAIN file.entries : Whole[i + 1] = file.entries[s]
      BY <3>2, <3>3
    <3> QED
      BY <3>1, <3>3, <3>4, WebAssumption
  <2> DEFINE before == trace[curr].regs[r]
             after == trace[idx].regs[r]
  <2>4. before \in Nat /\ after \in Nat /\ MaxExact \in Nat
    BY <2>2, <2>3, WebAssumption
  <2>5. \A v \in Nat : Double(v) \in Int
    BY DEF Double
  <2>6. prevRegs # None
    <3>1. prevRegs \in [Registers -> Int]
      BY <2>2, <2>3, <2>5 DEF Doubles
    <3> QED
      BY <3>1, WebAssumption
  <2>7. r \in changed' <=> Double(before) # Double(after)
    BY <2>2, <2>6 DEF Doubles
  <2>8. \A v \in Nat : v <= MaxExact => Double(v) = v
    BY DEF Double
  <2> HIDE DEF before, after
  <2>9. IF r \in changed' THEN before # after
        ELSE before = after \/ before > MaxExact \/ after > MaxExact
    BY <2>4, <2>7, <2>8
  <2> QED
    BY <2>2, <2>9 DEF before, after
<1> DEFINE Marks == phase = "ready" /\ curr' # curr =>
              \A n \in Registers :
                LET before == trace[curr].regs[n]
                    after  == trace[curr'].regs[n]
                IN  IF n \in changed' THEN before # after
                    ELSE before = after \/ before > MaxExact \/ after > MaxExact
<1>2. WebInv /\ [WebNext]_webVars => [Marks]_webVars
  BY <1>1
<1> QED
  BY <1>2, AlwaysWeb, PTL DEF WebSpec, MarksChangedRegisters

=============================================================================
