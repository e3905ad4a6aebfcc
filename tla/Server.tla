------------------------------- MODULE Server -------------------------------
(***************************************************************************)
(* tdb view (view_trace of src/main.rs and src/server/mod.rs): the file is *)
(* loaded once and served to several clients at the same time.  Nothing    *)
(* writes the database while it is served, so a handler is one step, in    *)
(* whatever order the runtime takes the requests.                          *)
(*                                                                         *)
(* A handler that panics ends the connection of its client only: the       *)
(* runtime catches the panic, and the read lock of parking_lot is released *)
(* and not poisoned.                                                       *)
(***************************************************************************)
EXTENDS TraceStats

CONSTANTS
  Files,       \* what the file given on the command line may hold
  Clients,
  Requests,    \* requests other than the viewer's: see RequestKinds
  None

RequestKinds ==
  [kind : {"all", "count", "stats"}] \cup [kind : {"step"}, step : Nat]
    \cup [kind : {"range"}, start : Nat, end : Nat]

\* A database that was saved has finitely many entries, each under its own step,
\* with finitely many memory changes.
IsSaved(d) ==
  /\ IsFiniteSet(DOMAIN d) /\ DOMAIN d \subseteq Nat
  /\ \A s \in DOMAIN d : d[s].step = s /\ IsFiniteSet(d[s].mem_changes)

ASSUME ServerAssumption ==
  /\ \A f \in Files : IsSaved(f.entries)
  /\ Requests \subseteq RequestKinds

VARIABLES
  file,
  port,      \* "free" | "taken", when the server binds it
  server,    \* "loading" | "up" | "failed" | "stopped"
  asked,     \* client -> the request it has sent, or None
  answer     \* client -> the response it has received, or None

serverVars == << file, port, server, asked, answer >>

NotFound == [kind |-> "not found"]
Dropped  == [kind |-> "dropped"]     \* the connection was closed

ASSUME NoneAssumption == None # Dropped /\ None \notin RequestKinds

ServerInit ==
  /\ file \in Files
  /\ port \in {"free", "taken"}
  /\ server = "loading"
  /\ asked  = [c \in Clients |-> None]
  /\ answer = [c \in Clients |-> None]

-----------------------------------------------------------------------------
(* The handlers. *)

\* BTreeMap::range panics; a map without entries has no tree to search.
BackwardRange(r) == r.kind = "range" /\ r.start > r.end /\ file.entries # EmptyDb

TraceResponse(entries) == [kind |-> "trace", total |-> Count(file.entries), entries |-> entries]

\* What analyze may return for each file.
Analyses == [f \in Files |-> analyze(f.entries)]

\* get_trace, get_step, get_count, get_stats: what may be answered.
Respond(r) ==
  CASE r.kind = "all"   -> {TraceResponse(get_all(file.entries))}
    [] r.kind = "range" -> IF BackwardRange(r) THEN {Dropped}
                           ELSE {TraceResponse(get_range(file.entries, r.start, r.end))}
    [] r.kind = "step"  -> IF r.step \in DOMAIN file.entries
                           THEN {[kind |-> "entry", entry |-> file.entries[r.step]]}
                           ELSE {NotFound}
    [] r.kind = "count" -> {[kind |-> "count", count |-> Count(file.entries)]}
    [] r.kind = "stats" -> {[kind |-> "stats", stats |-> s] : s \in Analyses[file]}

\* TraceDb::load and the bind succeed: from here on db is what the file holds.
Start ==
  /\ server = "loading"
  /\ Loads(file) /\ port = "free"
  /\ server' = "up"
  /\ UNCHANGED << file, port, asked, answer >>

\* expect and unwrap panic.
StartFails ==
  /\ server = "loading"
  /\ ~Loads(file) \/ port = "taken"
  /\ server' = "failed"
  /\ UNCHANGED << file, port, asked, answer >>

Pending(c) == asked[c] # None /\ answer[c] = None

\* bug: a panic ends the program (panic = "abort")
HandleOrAbort(c) ==
  /\ server = "up" /\ Pending(c)
  /\ \E a \in Respond(asked[c]) :
       /\ answer' = [answer EXCEPT ![c] = a]
       /\ server' = IF a = Dropped THEN "failed" ELSE server
  /\ UNCHANGED << file, port, asked >>

\* bug: a loop from start to end that a backward range never leaves
HandleForever(c) ==
  /\ server = "up" /\ Pending(c)
  /\ ~BackwardRange(asked[c])
  /\ \E a \in Respond(asked[c]) : answer' = [answer EXCEPT ![c] = a]
  /\ UNCHANGED << file, port, server, asked >>

Handle(c) ==
  /\ server = "up" /\ Pending(c)
  /\ \E a \in Respond(asked[c]) : answer' = [answer EXCEPT ![c] = a]
  /\ UNCHANGED << file, port, server, asked >>

\* Ctrl+C: pending connections are closed.
StopServer ==
  /\ server = "up"
  /\ server' = "stopped"
  /\ answer' = [c \in Clients |-> IF Pending(c) THEN Dropped ELSE answer[c]]
  /\ UNCHANGED << file, port, asked >>

-----------------------------------------------------------------------------
(* A client. *)

Ask(c, r) ==
  /\ server = "up" /\ asked[c] = None
  /\ asked' = [asked EXCEPT ![c] = r]
  /\ UNCHANGED << file, port, server, answer >>

\* The server is gone: the connection is refused.
AskTooLate(c, r) ==
  /\ server = "stopped" /\ asked[c] = None
  /\ asked'  = [asked EXCEPT ![c] = r]
  /\ answer' = [answer EXCEPT ![c] = Dropped]
  /\ UNCHANGED << file, port, server >>

TakeAnswer(c) ==
  /\ answer[c] # None
  /\ asked'  = [asked EXCEPT ![c] = None]
  /\ answer' = [answer EXCEPT ![c] = None]
  /\ UNCHANGED << file, port, server >>

-----------------------------------------------------------------------------
(* Properties. *)

\* What the endpoints say of a trace fits together, whichever client asks:
\* a range is the part of the whole trace between its ends, a step is found
\* exactly when the whole trace has it, and counts are those of the whole trace.
Whole == get_all(file.entries)

AnswersFitTogether ==
  \A c \in Clients :
    LET r == asked[c]
        a == answer[c]
    IN  /\ a # None /\ r.kind = "range" /\ a # Dropped =>
             /\ ToSet(a.entries) = {e \in ToSet(Whole) : e.step \in r.start .. r.end}
             /\ \A j \in 1 .. Len(a.entries) - 1 : a.entries[j].step < a.entries[j + 1].step
             /\ a.total = Len(Whole)
        /\ a # None /\ r.kind = "step" /\ a # Dropped =>
             IF a = NotFound THEN \A e \in ToSet(Whole) : e.step # r.step
             ELSE a.entry \in ToSet(Whole) /\ a.entry.step = r.step
        /\ a # None /\ r.kind = "count" /\ a # Dropped => a.count = Len(Whole)

\* The statistics describe the trace: the addresses and mnemonics they name
\* are the most frequent ones with their exact numbers, in descending order,
\* and the list is cut short only when it is full.
Occurrences(Test(_)) == Cardinality({k \in DOMAIN Whole : Test(Whole[k])})
Mnemonics == {e.insn : e \in ToSet(Whole)}

DescribesTrace(s) ==
  /\ s.total_steps = Len(Whole)
  /\ \A p \in ToSet(s.most_executed_address) :
       /\ p.count = Occurrences(LAMBDA e : e.pc = p.addr)
       /\ \A k \in DOMAIN Whole : Occurrences(LAMBDA e : e.pc = Whole[k].pc) <= p.count
  /\ (s.most_executed_address = << >>) <=> (Whole = << >>)
  /\ LET list   == s.instruction_counts
         listed == {p.insn : p \in ToSet(list)}
     IN  /\ Cardinality(listed) = Len(list)
         /\ Len(list) = MaxListed \/ listed = Mnemonics
         /\ Descending(list)
         /\ \A p \in ToSet(list) : p.count = Occurrences(LAMBDA e : e.insn = p.insn)
         /\ \A p \in ToSet(list), i \in Mnemonics \ listed :
              Occurrences(LAMBDA e : e.insn = i) <= p.count

StatsDescribeTrace ==
  \A c \in Clients :
    answer[c] # None /\ asked[c].kind = "stats" /\ answer[c] # Dropped =>
      DescribesTrace(answer[c].stats)

\* Nothing a client asks for ends the server, and a client whose request is
\* in order is always served: only a backward range closes a connection.
OnlyBackwardRangesFail ==
  /\ server = "failed" => ~Loads(file) \/ port = "taken"
  /\ server = "up" =>
       \A c \in Clients : answer[c] = Dropped => BackwardRange(asked[c])

\* Every request gets an answer, an error or the end of its connection.
EveryRequestEnds == \A c \in Clients : Pending(c) ~> ~Pending(c)

=============================================================================
