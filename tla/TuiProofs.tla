------------------------------ MODULE TuiProofs ------------------------------
(***************************************************************************)
(* Proofs about the terminal viewer, for every trace and every sequence of *)
(* keys: what is highlighted is what is shown, a search shows its first    *)
(* match, and the panes agree with each other.                             *)
(***************************************************************************)
EXTENDS Tui, FiniteSetTheorems, TLAPS

\* The theorems about statistics, for those of the header.
Thm == INSTANCE StatsProofs WITH
  Calls <- {"call"}, Returns <- {"ret"}, Branches <- {}, MaxListed <- 20

-----------------------------------------------------------------------------
(* Numbers and places. *)

\* The least of a list of indices.
LEMMA MinType ==
  ASSUME NEW S, S \subseteq Nat, S # {}
  PROVE  Min(S) \in S /\ \A y \in S : Min(S) <= y
<1>1. \E x \in S : \A y \in S : x <= y
  BY Thm!LeastNumber, 20 \in Nat \ {0}
<1> QED
  BY <1>1 DEF Min

\* The greatest of a list of indices.
LEMMA MaxType ==
  ASSUME NEW n \in Nat, NEW S, S \subseteq 0 .. n, S # {}
  PROVE  Max(S) \in S
<1> DEFINE T == {n - y : y \in S}
<1>1. \A y \in S : n - y \in Nat
  OBVIOUS
<1>2. T \subseteq Nat
  BY <1>1
<1>2a. T # {}
  OBVIOUS
<1> HIDE DEF T
<1>3. PICK x \in T : \A y \in T : x <= y
  BY <1>2, <1>2a, Thm!LeastNumber, 20 \in Nat \ {0}
<1> USE DEF T
<1>4. PICK m \in S : x = n - m
  BY <1>3
<1>5. \A y \in S : m >= y
  <2> TAKE y \in S
  <2>1. n - m <= n - y
    BY <1>3, <1>4
  <2>2. m \in Nat /\ y \in Nat
    OBVIOUS
  <2> QED
    BY <2>1, <2>2
<1> QED
  BY <1>5 DEF Max

\* Clamping a move to the bounds of the trace.
LEMMA Clamp ==
  ASSUME NEW n \in Nat \ {0}, NEW k \in Int
  PROVE  Min({Max({k, 0}), n - 1}) \in 0 .. n - 1
<1>1. Max({k, 0}) = IF k >= 0 THEN k ELSE 0
  BY DEF Max
<1>2. \A a, b \in Int : Min({a, b}) = IF a <= b THEN a ELSE b
  BY DEF Min
<1> QED
  BY <1>1, <1>2

\* The place of an index in a list that has it is a place of the list, and the
\* first of a list is at place 0.
LEMMA PositionType ==
  ASSUME NEW n \in Nat, NEW list, list \subseteq 0 .. n - 1, NEW idx \in list
  PROVE  /\ IsFiniteSet(list) /\ Cardinality(list) \in 0 .. n
         /\ Position(idx, list) \in Nat
         /\ Position(idx, list) <= Cardinality(list) - 1
         /\ (\A y \in list : idx <= y) => Position(idx, list) = 0
<1> DEFINE before == {i \in list : i < idx}
<1>1. IsFiniteSet(0 .. n - 1) /\ Cardinality(0 .. n - 1) = n
  BY FS_Interval
<1>2. IsFiniteSet(list) /\ Cardinality(list) <= n /\ Cardinality(list) \in Nat
  BY <1>1, FS_Subset, FS_CardinalityType
<1>3. IsFiniteSet(before) /\ Cardinality(before) <= Cardinality(list) /\ Cardinality(before) \in Nat
      /\ (Cardinality(list) = Cardinality(before) => list = before)
  BY <1>2, FS_Subset, FS_CardinalityType
<1>4. list # before
  OBVIOUS
<1>5. (\A y \in list : idx <= y) => before = {}
  <2> SUFFICES ASSUME \A y \in list : idx <= y, NEW y \in before PROVE FALSE
    OBVIOUS
  <2>1. y \in Int /\ idx \in Int /\ idx <= y /\ y < idx
    OBVIOUS
  <2> QED
    BY <2>1
<1> QED
  BY <1>2, <1>3, <1>4, <1>5, FS_EmptySet DEF Position

-----------------------------------------------------------------------------
(* Types. *)

\* The indices are those of a sequence of entries.
LEMMA SizeType ==
  ASSUME TuiTypeOK
  PROVE  /\ Size \in Nat \ {0} /\ Indices = 0 .. Size - 1
         /\ trace \in [0 .. Size - 1 -> Entries]
<1>1. PICK n \in 1 .. MaxLen : trace \in [0 .. n - 1 -> Entries]
  BY DEF TuiTypeOK
<1>2. n \in Nat \ {0} /\ Indices = 0 .. n - 1
  BY <1>1, TuiAssumption DEF Indices
<1>3. Size = n
  BY <1>2, FS_Interval DEF Size
<1> QED
  BY <1>1, <1>2, <1>3

\* Selecting an entry of the trace keeps the types, whatever the list.
LEMMA SelectType ==
  ASSUME TuiTypeOK, NEW idx \in Indices, NEW list \in SUBSET Indices, Select(idx, list)
  PROVE  /\ current' \in Indices /\ selected' \in Indices \cup {NoIndex}
         /\ prev' \in Indices \cup {NoIndex} /\ cancelled' \in BOOLEAN
<1>1. CASE idx \in list
  <2>1. Position(idx, list) \in 0 .. Size - 1
    <3>1. Size \in Nat /\ Indices = 0 .. Size - 1
      BY SizeType
    <3>2. list \subseteq 0 .. Size - 1
      BY <3>1
    <3>3. /\ Cardinality(list) \in 0 .. Size /\ Position(idx, list) \in Nat
          /\ Position(idx, list) <= Cardinality(list) - 1
      BY <1>1, <3>1, <3>2, PositionType
    <3> QED
      BY <3>1, <3>3
  <2> QED
    BY <1>1, <2>1, SizeType DEF Select, TuiTypeOK
<1>2. CASE idx \notin list
  BY <1>2 DEF Select, TuiTypeOK
<1> QED
  BY <1>1, <1>2

\* The viewer starts at the first entry of a trace that has one.
LEMMA TuiInitType == TuiInit => TuiTypeOK
<1> SUFFICES ASSUME TuiInit PROVE TuiTypeOK
  OBVIOUS
<1>1. PICK n \in 1 .. MaxLen : trace \in [0 .. n - 1 -> Entries]
  BY DEF TuiInit
<1>2. 0 \in Indices
  BY <1>1, TuiAssumption DEF Indices
<1> QED
  BY <1>1, <1>2 DEF TuiInit, TuiTypeOK

\* Every key that moves, by a step or a page, to an end or to the next or
\* previous entry of a kind, selects an entry of the trace.
LEMMA MovesSelect ==
  ASSUME TuiTypeOK
  PROVE  /\ Move => \E idx \in Indices : Select(idx, filtered)
         /\ First => \E idx \in Indices : Select(idx, filtered)
         /\ Last => \E idx \in Indices : Select(idx, filtered)
         /\ Jump => Stay \/ \E idx \in Indices : Select(idx, filtered)
<1>0. /\ Size \in Nat \ {0} /\ Indices = 0 .. Size - 1 /\ current \in 0 .. Size - 1
      /\ Page \in Nat
  BY SizeType, TuiAssumption DEF TuiTypeOK
<1>1. ASSUME Move PROVE \E idx \in Indices : Select(idx, filtered)
  <2>1. PICK delta \in {-1, 1, Page, -Page} : StepBy(delta)
    BY <1>1 DEF Move
  <2>2. current + delta \in Int
    BY <1>0
  <2>3. Min({Max({current + delta, 0}), Size - 1}) \in Indices
    BY <1>0, <2>2, Clamp
  <2> QED
    BY <2>1, <2>3 DEF StepBy
<1>2. ASSUME First PROVE \E idx \in Indices : Select(idx, filtered)
  BY <1>0, <1>2 DEF First
<1>3. ASSUME Last PROVE \E idx \in Indices : Select(idx, filtered)
  <2>1. Size - 1 \in Indices
    BY <1>0
  <2> QED
    BY <1>3, <2>1 DEF Last
<1>4. ASSUME Jump PROVE Stay \/ \E idx \in Indices : Select(idx, filtered)
  <2>1. PICK what \in {"call", "ret", "mem"} : FindNext(what) \/ FindPrev(what)
    BY <1>4 DEF Jump
  <2>2. CASE FindNext(what)
    <3> DEFINE found == {i \in Indices : i > current /\ MatchesFilter(i, what)}
    <3>1. found # {} => Min(found) \in found
      <4>1. found \subseteq Nat
        BY <1>0
      <4> HIDE DEF found
      <4> QED
        BY <4>1, MinType
    <3>2. Stay \/ (found # {} /\ Select(Min(found), filtered))
      BY <2>2 DEF FindNext
    <3> QED
      BY <3>1, <3>2
  <2>3. CASE FindPrev(what)
    <3> DEFINE found == {i \in Indices : i < current /\ MatchesFilter(i, what)}
    <3>1. found # {} => Max(found) \in found
      <4>1. found \subseteq 0 .. Size - 1 /\ Size - 1 \in Nat
        BY <1>0
      <4> HIDE DEF found
      <4> QED
        BY <4>1, MaxType
    <3>2. Stay \/ (found # {} /\ Select(Max(found), filtered))
      BY <2>3 DEF FindPrev
    <3> QED
      BY <3>1, <3>2
  <2> QED
    BY <2>1, <2>2, <2>3
<1> QED
  BY <1>1, <1>2, <1>3, <1>4

\* A search lists entries of the trace and selects the first of them, if any.
LEMMA SearchSelects ==
  ASSUME TuiTypeOK, NEW q, ApplySearch(q)
  PROVE  /\ filtered' = Matches(q) /\ Matches(q) \subseteq Indices
         /\ Matches(q) = {} => Stay
         /\ Matches(q) # {} => /\ Min(Matches(q)) \in Matches(q)
                               /\ \A y \in Matches(q) : Min(Matches(q)) <= y
                               /\ Select(Min(Matches(q)), Matches(q))
<1>1. Matches(q) \subseteq Indices
  BY DEF Matches
<1>2. Matches(q) \subseteq Nat
  BY <1>1, SizeType
<1> QED
  BY <1>1, <1>2, MinType DEF ApplySearch

-----------------------------------------------------------------------------
(* The invariant. *)

\* The list highlights the entry shown, drawn or not.
Follows == ~cancelled /\ current \in filtered => selected = Position(current, filtered)

TuiInv == TuiTypeOK /\ SearchShowsFirstMatch /\ Follows

\* The keys by what they do to the selection.
Moves   == Move \/ First \/ Last \/ Jump
Leaves  == Quit \/ OpenSearch \/ OpenHelp \/ CloseHelp \/ AcceptSearch
Queries == TypeChar \/ Backspace

\* A key that edits the query searches for what it makes of it.
LEMMA QueryType ==
  ASSUME TuiTypeOK, Queries
  PROVE  \E q \in Seq(Chars) : query' = q /\ ApplySearch(q)
<1>0. query \in Seq(Chars)
  BY DEF TuiTypeOK
<1>1. CASE TypeChar
  <2>1. PICK c \in Chars : query' = Append(query, c) /\ ApplySearch(Append(query, c))
    BY <1>1 DEF TypeChar
  <2>2. Append(query, c) \in Seq(Chars)
    BY <1>0
  <2> QED
    BY <2>1, <2>2
<1>2. CASE Backspace
  <2> DEFINE q == IF query = << >> THEN << >> ELSE SubSeq(query, 1, Len(query) - 1)
  <2>1. query' = q /\ ApplySearch(q)
    BY <1>2 DEF Backspace
  <2>2. q \in Seq(Chars)
    <3>1. CASE query = << >>
      BY <3>1
    <3>2. CASE query # << >>
      <4>1. SubSeq(query, 1, Len(query) - 1) \in Seq(Chars)
        BY <1>0, <3>2, \A i \in 1 .. Len(query) - 1 : i \in 1 .. Len(query)
      <4> QED
        BY <3>2, <4>1
    <3> QED
      BY <3>1, <3>2
  <2> QED
    BY <2>1, <2>2
<1> QED
  BY <1>1, <1>2 DEF Queries

\* The complete list highlights its first entry.
LEMMA TuiInitInv == TuiInit => TuiInv
<1> SUFFICES ASSUME TuiInit PROVE TuiInv
  OBVIOUS
<1>1. TuiTypeOK
  BY TuiInitType
<1>2. Indices = 0 .. Size - 1 /\ Size \in Nat \ {0} /\ current = 0 /\ selected = 0 /\ filtered = Indices
      /\ query = << >>
  BY <1>1, SizeType DEF TuiInit
<1>3. Position(0, Indices) = 0
  <2>1. 0 \in Indices /\ Indices \subseteq 0 .. Size - 1 /\ \A y \in Indices : 0 <= y
    BY <1>2
  <2> QED
    BY <1>2, <2>1, PositionType
<1> QED
  BY <1>1, <1>2, <1>3 DEF TuiInv, SearchShowsFirstMatch, Follows

\* What the list and the search look at is the trace, which no key changes.
LEMMA SameTrace ==
  ASSUME UNCHANGED trace
  PROVE  Indices' = Indices /\ Size' = Size /\ \A q : Matches(q)' = Matches(q)
BY DEF Indices, Size, Matches

\* Every key keeps the list, its highlight and the details together.
LEMMA TuiStepInv == TuiInv /\ [TuiNext]_vars => TuiInv'
<1> SUFFICES ASSUME TuiInv, [TuiNext]_vars PROVE TuiInv'
  OBVIOUS
<1>0. TuiTypeOK /\ SearchShowsFirstMatch /\ Follows /\ UNCHANGED trace
  BY DEF TuiInv, TuiNext, Draw, Move, First, Last, Jump, Quit, OpenSearch, OpenHelp, CloseHelp,
         CancelSearch, AcceptSearch, TypeChar, Backspace, HasQuit, Key, vars
<1> USE <1>0
<1>1. /\ Indices' = Indices /\ \A q : Matches(q)' = Matches(q)
      /\ Size \in Nat \ {0} /\ Indices = 0 .. Size - 1
  BY SameTrace, SizeType
<1>2. ASSUME Stay \/ \E idx \in Indices : Select(idx, filtered), UNCHANGED filtered,
             query' = << >> \/ (UNCHANGED query /\ mode' = "normal"),
             mode' \in {"normal", "search", "help"},
             drawn' \in BOOLEAN, should_quit' \in BOOLEAN
      PROVE  TuiInv'
  <2>1. TuiTypeOK'
    BY <1>1, <1>2, SelectType DEF TuiTypeOK, Stay, Indices
  <2>2. SearchShowsFirstMatch'
    BY <1>2 DEF SearchShowsFirstMatch
  <2>3. Follows'
    <3>1. CASE Stay
      BY <1>2, <3>1 DEF Follows, Stay, Position
    <3>2. ASSUME NEW idx \in Indices, Select(idx, filtered) PROVE Follows'
      <4>1. current' = idx /\ filtered' = filtered /\ (idx \in filtered => selected' = Position(idx, filtered))
        BY <1>2, <3>2 DEF Select
      <4>2. Position(current, filtered)' = Position(idx, filtered)
        BY <4>1 DEF Position
      <4> QED
        BY <4>1, <4>2 DEF Follows
    <3> QED
      BY <1>2, <3>1, <3>2
  <2> QED
    BY <2>1, <2>2, <2>3 DEF TuiInv
<1>3. CASE Moves
  <2>1. Stay \/ \E idx \in Indices : Select(idx, filtered)
    BY <1>3, MovesSelect DEF Moves
  <2>2. UNCHANGED << mode, query, filtered, should_quit >> /\ mode = "normal" /\ drawn' = FALSE
    BY <1>3 DEF Moves, Move, First, Last, Jump, Key, KeepSearch
  <2> QED
    BY <1>2, <2>1, <2>2 DEF TuiTypeOK
<1>4. CASE Leaves
  <2>1. /\ Stay /\ UNCHANGED filtered /\ drawn' = FALSE /\ should_quit' \in BOOLEAN
        /\ query' = << >> \/ (UNCHANGED query /\ mode' = "normal")
        /\ mode' \in {"normal", "search", "help"}
    BY <1>4 DEF Leaves, Quit, OpenSearch, OpenHelp, CloseHelp, AcceptSearch, Key, TuiTypeOK
  <2>2. drawn' \in BOOLEAN
    BY <2>1
  <2> QED
    BY <1>2, <2>1, <2>2
<1>5. CASE CancelSearch
  <2>1. TuiTypeOK'
    <3>1. /\ filtered' = Indices /\ mode' = "normal" /\ query' = << >> /\ cancelled' = TRUE
          /\ UNCHANGED << current, selected, prev, should_quit >> /\ drawn' = FALSE
      BY <1>5 DEF CancelSearch, Key
    <3>2. << >> \in Seq(Chars)
      OBVIOUS
    <3> QED
      BY <1>1, <3>1, <3>2 DEF TuiTypeOK
  <2> QED
    BY <1>5, <2>1 DEF CancelSearch, TuiInv, SearchShowsFirstMatch, Follows
<1>6. CASE Queries
  <2>1. PICK q \in Seq(Chars) : query' = q /\ ApplySearch(q)
    BY <1>6, QueryType
  <2>2. UNCHANGED << mode, should_quit >> /\ drawn' = FALSE
    BY <1>6 DEF Queries, TypeChar, Backspace, Key
  <2>3. /\ filtered' = Matches(q) /\ Matches(q) \subseteq Indices
        /\ Matches(q) = {} => Stay
        /\ Matches(q) # {} => /\ Min(Matches(q)) \in Matches(q)
                              /\ \A y \in Matches(q) : Min(Matches(q)) <= y
                              /\ Select(Min(Matches(q)), Matches(q))
    BY <2>1, SearchSelects
  <2>4. CASE Matches(q) = {}
    <3>1. TuiTypeOK'
      BY <1>1, <2>1, <2>2, <2>3, <2>4 DEF Stay, TuiTypeOK, Indices
    <3> QED
      BY <1>1, <2>1, <2>3, <2>4, <3>1 DEF TuiInv, SearchShowsFirstMatch, Follows
  <2>5. CASE Matches(q) # {}
    <3> DEFINE first == Min(Matches(q))
    <3>1. first \in Matches(q) /\ first \in Indices /\ Select(first, Matches(q))
          /\ \A y \in Matches(q) : first <= y
      BY <2>3, <2>5
    <3>2. Position(first, Matches(q)) = 0
      BY <1>1, <2>3, <3>1, PositionType
    <3>3. current' = first /\ selected' = 0
      BY <3>1, <3>2 DEF Select
    <3>4. /\ current' \in Indices /\ selected' \in Indices \cup {NoIndex}
          /\ prev' \in Indices \cup {NoIndex} /\ cancelled' \in BOOLEAN
      BY <2>3, <3>1, SelectType
    <3>5. TuiTypeOK'
      BY <1>1, <2>1, <2>2, <2>3, <3>4 DEF TuiTypeOK, Indices
    <3>6. SearchShowsFirstMatch'
      BY <1>1, <2>1, <2>3, <3>3 DEF SearchShowsFirstMatch
    <3>7. Follows'
      BY <2>3, <3>2, <3>3 DEF Follows, Position
    <3> QED
      BY <3>5, <3>6, <3>7 DEF TuiInv
  <2> QED
    BY <2>4, <2>5
<1>7. CASE Draw
  <2>1. drawn' = TRUE /\ UNCHANGED << current, prev, mode, query, filtered, should_quit, cancelled >>
        /\ selected' = IF filtered = {} \/ selected = NoIndex THEN NoIndex
                       ELSE Min({selected, Cardinality(filtered) - 1})
    BY <1>7 DEF Draw
  <2>2. \A a, b \in Int : Min({a, b}) = IF a <= b THEN a ELSE b
    BY DEF Min
  <2>3. /\ filtered \subseteq 0 .. Size - 1 /\ NoIndex \notin Nat
        /\ selected \in 0 .. Size - 1 \/ selected = NoIndex
    BY <1>1, TuiAssumption DEF TuiTypeOK
  <2>4. filtered # {} => Cardinality(filtered) \in 1 .. Size
    <3> SUFFICES ASSUME NEW i \in filtered PROVE Cardinality(filtered) \in 1 .. Size
      OBVIOUS
    <3>1. Cardinality(filtered) \in 0 .. Size /\ Position(i, filtered) \in Nat
          /\ Position(i, filtered) <= Cardinality(filtered) - 1
      BY <1>1, <2>3, PositionType
    <3> QED
      BY <1>1, <3>1
  <2>5. filtered # {} /\ selected # NoIndex =>
          selected' = IF selected <= Cardinality(filtered) - 1 THEN selected ELSE Cardinality(filtered) - 1
    <3> DEFINE last == Cardinality(filtered) - 1
    <3> SUFFICES ASSUME filtered # {}, selected # NoIndex
                 PROVE  selected' = IF selected <= last THEN selected ELSE last
      OBVIOUS
    <3>1. selected \in Int
      BY <1>1, <2>3
    <3>2. last \in Int
      BY <1>1, <2>4
    <3>3. selected' = Min({selected, last})
      BY <2>1
    <3> HIDE DEF last
    <3> QED
      BY <2>2, <3>1, <3>2, <3>3
  <2>6. selected' \in Indices \cup {NoIndex}
    BY <1>1, <2>1, <2>3, <2>4, <2>5
  <2>7. TuiTypeOK'
    BY <1>1, <2>1, <2>6 DEF TuiTypeOK, Indices
  <2>8. SearchShowsFirstMatch'
    <3>1. filtered # {} /\ selected = 0 => selected' = 0
      BY <2>3, <2>4, <2>5
    <3> QED
      BY <1>1, <2>1, <3>1 DEF SearchShowsFirstMatch
  <2>9. Follows'
    <3>1. current \in filtered => /\ Position(current, filtered) \in Nat
                                  /\ Position(current, filtered) <= Cardinality(filtered) - 1
      BY <1>1, <2>3, PositionType
    <3>2. current \in filtered /\ selected = Position(current, filtered) => selected' = selected
      BY <2>3, <2>5, <3>1
    <3> QED
      BY <2>1, <3>2 DEF Follows, Position
  <2> QED
    BY <2>7, <2>8, <2>9 DEF TuiInv
<1>8. CASE UNCHANGED vars
  <2>1. TuiTypeOK'
    BY <1>8 DEF vars, TuiTypeOK, Indices
  <2> QED
    BY <1>1, <1>8, <2>1 DEF vars, TuiInv, SearchShowsFirstMatch, Follows, Position
<1> QED
  BY <1>3, <1>4, <1>5, <1>6, <1>7, <1>8 DEF TuiNext, HasQuit, Moves, Leaves, Queries

\* The invariant holds whatever keys are pressed.
LEMMA AlwaysTui == TuiSpec => []TuiInv
BY TuiInitInv, TuiStepInv, PTL DEF TuiSpec

\* Whatever keys are pressed, the viewer shows and highlights entries that the
\* trace and the list have.
THEOREM TuiTypeCorrect == TuiSpec => []TuiTypeOK
<1>1. TuiInv => TuiTypeOK
  BY DEF TuiInv
<1> QED
  BY <1>1, AlwaysTui, PTL

\* As long as a query is typed, the list is that of its matches and the first of
\* them is shown and highlighted.
THEOREM SearchIsShown == TuiSpec => []SearchShowsFirstMatch
<1>1. TuiInv => SearchShowsFirstMatch
  BY DEF TuiInv
<1> QED
  BY <1>1, AlwaysTui, PTL

\* The list highlights the entry whose details are shown, if it has it, except
\* between the cancelling of a search and the next move.
THEOREM SelectionIsShown == TuiSpec => []SelectionFollows
<1>1. TuiInv => SelectionFollows
  BY DEF TuiInv, Follows, SelectionFollows, SelectionShowsCurrent
<1> QED
  BY <1>1, AlwaysTui, PTL

-----------------------------------------------------------------------------
(* What a step may not do. *)

\* A text that contains a query contains the query before its last character.
LEMMA ContainsLess ==
  ASSUME NEW text \in Seq(Chars), NEW q \in Seq(Chars), NEW c \in Chars,
         Contains(text, Append(q, c))
  PROVE  Contains(text, q)
<1>0. Len(Append(q, c)) = Len(q) + 1 /\ Len(q) \in Nat /\ Len(text) \in Nat
  OBVIOUS
<1>1. PICK i \in 0 .. Len(text) - (Len(q) + 1) :
         SubSeq(text, i + 1, i + (Len(q) + 1)) = Append(q, c)
  BY <1>0 DEF Contains
<1>2. i \in 0 .. Len(text) - Len(q)
  BY <1>0, <1>1
<1>3. SubSeq(text, i + 1, i + Len(q)) = q
  <2> DEFINE s == SubSeq(text, i + 1, i + Len(q))
             l == SubSeq(text, i + 1, i + (Len(q) + 1))
  <2>1. s \in Seq(Chars) /\ Len(s) = Len(q)
    BY <1>0, <1>1, \A j \in i + 1 .. i + Len(q) : j \in 1 .. Len(text)
  <2>2. ASSUME NEW j \in 1 .. Len(q) PROVE s[j] = q[j]
    <3>1. s[j] = text[i + j]
      BY <1>0, <1>1
    <3>2. l[j] = text[i + j]
      BY <1>0, <1>1
    <3>3. Append(q, c)[j] = q[j]
      BY <1>0
    <3> QED
      BY <1>1, <3>1, <3>2, <3>3
  <2> HIDE DEF s, l
  <2>3. s = [j \in 1 .. Len(q) |-> s[j]] /\ q = [j \in 1 .. Len(q) |-> q[j]]
    BY <2>1
  <2>4. [j \in 1 .. Len(q) |-> s[j]] = [j \in 1 .. Len(q) |-> q[j]]
    BY <2>2
  <2>5. s = q
    BY <2>3, <2>4
  <2> QED
    BY <2>5 DEF s
<1> QED
  BY <1>2, <1>3 DEF Contains

\* Each character typed after the first narrows the list: the matches of the
\* longer query are among those of the shorter, and the list is that of the
\* shorter query's matches when the character is typed.
THEOREM TypingOnlyNarrows == TuiSpec => TypingNarrows
<1> DEFINE Narrows == query # << >> /\ Len(query') > Len(query) => filtered' \subseteq filtered
<1>1. ASSUME TuiInv, [TuiNext]_vars, query # << >>, Len(query') > Len(query)
      PROVE  filtered' \subseteq filtered
  <2>0. TuiTypeOK /\ query \in Seq(Chars) /\ Len(query) \in Nat
    BY <1>1 DEF TuiInv, TuiTypeOK
  <2>1. UNCHANGED query \/ query' = << >> \/ TypeChar \/ Backspace
    BY <1>1 DEF TuiNext, Draw, Move, First, Last, Jump, Quit, OpenSearch, OpenHelp, CloseHelp,
                CancelSearch, AcceptSearch, HasQuit, KeepSearch, vars
  <2>2. ~ UNCHANGED query /\ query' # << >>
    BY <1>1, <2>0
  <2>3. ~ Backspace
    <3> SUFFICES ASSUME Backspace PROVE FALSE
      OBVIOUS
    <3>1. query' = SubSeq(query, 1, Len(query) - 1)
      BY <1>1 DEF Backspace
    <3>2. Len(query') = Len(query) - 1
      BY <1>1, <2>0, <3>1
    <3> QED
      BY <1>1, <2>0, <3>2
  <2>4. PICK c \in Chars : mode = "search" /\ ApplySearch(Append(query, c))
    BY <2>1, <2>2, <2>3 DEF TypeChar, Key
  <2>5. filtered = Matches(query) /\ filtered' = Matches(Append(query, c))
    BY <1>1, <2>4 DEF ApplySearch, TuiInv, SearchShowsFirstMatch
  <2>6. Append(query, c) # << >>
    BY <2>0
  <2>7. ASSUME NEW i \in Indices, Contains(trace[i].text, Append(query, c))
        PROVE  Contains(trace[i].text, query)
    <3>1. trace[i] \in Entries
      BY <2>0, <2>7, SizeType
    <3>2. trace[i].text \in Seq(Chars)
      BY <3>1, TuiAssumption
    <3> QED
      BY <2>0, <2>7, <3>2, ContainsLess
  <2> QED
    BY <1>1, <2>5, <2>6, <2>7 DEF Matches
<1>2. TuiInv /\ [TuiNext]_vars => [Narrows]_vars
  BY <1>1
<1> QED
  BY <1>2, AlwaysTui, PTL DEF TuiSpec, TypingNarrows

\* Whichever key leads to another entry, the registers drawn as changed are
\* those in which the entry left and the entry reached differ.
THEOREM ChangedRegistersMarked == TuiSpec => MarksWhatChanged
<1> DEFINE Marks == current' # current =>
             ChangedRegisters' = {n \in Registers : trace[current].regs[n] # trace'[current'].regs[n]}
<1>1. ASSUME TuiInv, [TuiNext]_vars, current' # current
      PROVE  ChangedRegisters' = {n \in Registers : trace[current].regs[n] # trace'[current'].regs[n]}
  <2>0. TuiTypeOK
    BY <1>1 DEF TuiInv
  <2>1. UNCHANGED trace /\ prev' = current
    BY <1>1 DEF TuiNext, Draw, Move, First, Last, Jump, Quit, OpenSearch, OpenHelp, CloseHelp,
         CancelSearch, AcceptSearch, TypeChar, Backspace, HasQuit, vars, Key, StepBy, FindNext,
         FindPrev, ApplySearch, Select, Stay
  <2>2. prev' # NoIndex
    BY <2>0, <2>1, SizeType, TuiAssumption DEF TuiTypeOK
  <2> QED
    BY <2>1, <2>2 DEF ChangedRegisters
<1>2. TuiInv /\ [TuiNext]_vars => [Marks]_vars
  BY <1>1
<1> QED
  BY <1>2, AlwaysTui, PTL DEF TuiSpec, MarksWhatChanged

-----------------------------------------------------------------------------
(* The panes. *)

\* The operators of the two instances are the same.
LEMMA SameHeader ==
  /\ \A list : Stats!Totals(list) = Thm!Totals(list)
  /\ \A d : Stats!get_all(d) = Thm!get_all(d)
  /\ \A S : Thm!Cardinality(S) = Cardinality(S) /\ Thm!IsFiniteSet(S) = IsFiniteSet(S)
<1>1. ASSUME NEW list PROVE Stats!Totals(list) = Thm!Totals(list)
  BY DEF Stats!Totals, Thm!Totals, Stats!FoldLeft, Thm!FoldLeft, Stats!MapThenFoldSet,
         Thm!MapThenFoldSet, Stats!One, Thm!One, Stats!Max, Thm!Max, Stats!Cardinality, Thm!Cardinality
<1>2. ASSUME NEW d PROVE Stats!get_all(d) = Thm!get_all(d)
  BY DEF Stats!get_all, Thm!get_all, Stats!Count, Thm!Count, Stats!Cardinality, Thm!Cardinality
<1>3. ASSUME NEW S PROVE Thm!Cardinality(S) = Cardinality(S) /\ Thm!IsFiniteSet(S) = IsFiniteSet(S)
  BY DEF Thm!Cardinality, Cardinality, Thm!IsFiniteSet, IsFiniteSet
<1> QED
  BY <1>1, <1>2, <1>3

\* Counting from 0 or from 1, it is as many.
LEMMA Shift ==
  ASSUME NEW n \in Nat, NEW S, S \subseteq 0 .. n - 1
  PROVE  Cardinality({k \in 1 .. n : k - 1 \in S}) = Cardinality(S)
<1> DEFINE T == {k \in 1 .. n : k - 1 \in S}
           f == [i \in S |-> i + 1]
<1>0. IsFiniteSet(0 .. n - 1)
  BY FS_Interval
<1>1. IsFiniteSet(S)
  BY <1>0, FS_Subset
<1>2. f \in [S -> T]
  OBVIOUS
<1>3. \A i, j \in S : f[i] = f[j] => i = j
  OBVIOUS
<1>4. \A k \in T : \E i \in S : f[i] = k
  <2> TAKE k \in T
  <2>1. k - 1 \in S /\ f[k - 1] = k
    OBVIOUS
  <2> QED
    BY <2>1
<1> HIDE DEF f, T
<1>5. f \in Bijection(S, T)
  BY <1>2, <1>3, <1>4 DEF Bijection, Injection, Surjection, IsInjective
<1>6. ExistsBijection(S, T)
  BY <1>5 DEF ExistsBijection
<1>7. Cardinality(T) = Cardinality(S)
  BY <1>1, <1>6, FS_Bijection
<1> QED
  BY <1>7 DEF T

\* What the panes say is the same of every state the viewer can be in: the
\* header counts the call markers of the complete list and at least the memory
\* changes of the pane below.
THEOREM PanesAlwaysAgree == TuiSpec => []PanesAgree
<1>1. ASSUME TuiTypeOK, filtered = Indices PROVE PanesAgree
  <2> DEFINE n == Size
             list == [k \in 1 .. n |-> trace[k - 1]]
             t == Thm!Totals(list)
             calls == {i \in Indices : trace[i].insn = "call"}
  <2>1. n \in Nat \ {0} /\ Indices = 0 .. n - 1 /\ trace \in [0 .. n - 1 -> Entries]
        /\ current \in 0 .. n - 1
    BY <1>1, SizeType DEF TuiTypeOK
  <2> HIDE DEF n
  <2>2. Stats!get_all(trace) = list
    BY <2>1, Thm!GetAll, SameHeader
  <2>3. Header = [steps |-> n, step |-> current, percent |-> (current * 100) \div n,
                  calls |-> t.calls, mem |-> t.mem]
    BY <2>2, SameHeader DEF Header, n
  <2>4. DOMAIN list = 1 .. n /\ \A j \in 1 .. n : IsFiniteSet(list[j].mem_changes)
    BY <2>1, TuiAssumption
  <2>5. Thm!Counted(list, n, t)
    BY <2>1, <2>4, SameHeader, Thm!TotalsCount
  <2>6. t.calls = Cardinality(calls)
    <3>1. {j \in 1 .. n : list[j].insn \in {"call"}} = {k \in 1 .. n : k - 1 \in calls}
      BY <2>1
    <3>2. t.calls = Cardinality({j \in 1 .. n : list[j].insn \in {"call"}})
      BY <2>5, SameHeader DEF Thm!Counted, Thm!IndicesOf
    <3>3. calls \subseteq 0 .. n - 1 /\ n \in Nat
      BY <2>1
    <3> QED
      BY <3>1, <3>2, <3>3, Shift
  <2>7. {i \in Indices : Timeline[i].marker = ">"} = calls
    BY <1>1 DEF Timeline, Marker
  <2>8. Cardinality(MemoryPane) <= t.mem
    <3>1. current + 1 \in 1 .. n /\ list[current + 1] = trace[current]
      BY <2>1
    <3>2. Cardinality(list[current + 1].mem_changes) <= t.mem
      BY <2>5, <3>1, SameHeader DEF Thm!Counted
    <3> QED
      BY <3>1, <3>2 DEF MemoryPane
  <2>9. {i \in Indices : Timeline[i].shown} = {current}
    BY <1>1, <2>1 DEF Timeline
  <2> HIDE DEF t, calls, list
  <2> QED
    BY <2>3, <2>6, <2>7, <2>8, <2>9 DEF PanesAgree
<1>2. TuiInv => PanesAgree
  BY <1>1 DEF TuiInv, PanesAgree
<1> QED
  BY <1>2, AlwaysTui, PTL

=============================================================================
