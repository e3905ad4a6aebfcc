-------------------------------- MODULE Tui --------------------------------
(***************************************************************************)
(* The terminal viewer, src/tui.rs: the state of App and what each key     *)
(* does to it.  The main loop alternates between drawing, in which the     *)
(* list widget adjusts the selection it was given, and handling one key.   *)
(*                                                                         *)
(* filtered_indices is always ascending, so it is modelled as the set of   *)
(* its elements, and the place of an index in the list is the number of    *)
(* smaller ones.                                                           *)
(***************************************************************************)
EXTENDS Integers, Sequences, FiniteSets, FiniteSetsExt

CONSTANTS
  Entries,     \* entries a trace may have
  Registers,
  Chars,       \* characters of instruction texts and of queries
  MaxLen,      \* bound: entries of a trace
  MaxQuery,    \* bound: characters of a query
  Page,        \* entries PageDown moves by: 50
  NoIndex      \* None of Option<usize>

Kinds == {"plain", "call", "ret"}

ASSUME TuiAssumption ==
  /\ \A e \in Entries :
       /\ e.text \in Seq(Chars) /\ e.insn \in Kinds
       /\ e.regs \in [Registers -> Nat]
       /\ IsFiniteSet(e.mem_changes)
  /\ MaxLen \in Nat \ {0} /\ MaxQuery \in Nat /\ Page \in Nat
  /\ NoIndex \notin Nat

VARIABLES
  trace,        \* the entries, by index
  current,      \* index of the entry whose details are shown
  selected,     \* list_state: the place in the list that is highlighted
  prev,         \* index of the entry prev_regs was taken from
  mode,         \* "normal" | "search" | "help"
  query,        \* the string of Mode::Search
  filtered,     \* filtered_indices
  should_quit,
  drawn,        \* the screen shows this state, a key is awaited
  cancelled     \* history: a search was cancelled and nothing selected since

vars == << trace, current, selected, prev, mode, query, filtered, should_quit, drawn, cancelled >>

Indices == DOMAIN trace
Size    == Cardinality(Indices)

\* Place of an index in a list.
Position(idx, list) == Cardinality({i \in list : i < idx})

\* str::contains
Contains(text, q) ==
  \E i \in 0 .. Len(text) - Len(q) : SubSeq(text, i + 1, i + Len(q)) = q

\* Every variable keeps its type: the entry shown, the one highlighted and those
\* listed are entries of the trace.
TuiTypeOK ==
  /\ \E n \in 1 .. MaxLen : trace \in [0 .. n - 1 -> Entries]
  /\ current \in Indices
  /\ selected \in Indices \cup {NoIndex}
  /\ prev \in Indices \cup {NoIndex}
  /\ mode \in {"normal", "search", "help"}
  /\ query \in Seq(Chars)
  /\ filtered \subseteq Indices
  /\ should_quit \in BOOLEAN
  /\ drawn \in BOOLEAN
  /\ cancelled \in BOOLEAN

\* run refuses an empty trace; App::new.
TuiInit ==
  /\ \E n \in 1 .. MaxLen : trace \in [0 .. n - 1 -> Entries]
  /\ current = 0
  /\ selected = 0
  /\ prev = NoIndex
  /\ mode = "normal"
  /\ query = << >>
  /\ filtered = Indices
  /\ should_quit = FALSE
  /\ drawn = FALSE
  /\ cancelled = FALSE

\* List::render of ratatui: the selection of an empty list is dropped, one
\* beyond the end is moved to the last item.
Draw ==
  /\ ~drawn /\ ~should_quit
  /\ drawn' = TRUE
  /\ selected' = IF filtered = {} \/ selected = NoIndex THEN NoIndex
                 ELSE Min({selected, Cardinality(filtered) - 1})
  /\ UNCHANGED << trace, current, prev, mode, query, filtered, should_quit, cancelled >>

-----------------------------------------------------------------------------
(* Methods of App. *)

\* bug: the registers are saved after the move
SelectSavesLate(idx, list) ==
  /\ prev' = idx
  /\ current' = idx
  /\ selected' = IF idx \in list THEN Position(idx, list) ELSE selected
  /\ cancelled' = FALSE

\* bug: the list is not told
SelectUnsynced(idx, list) ==
  /\ prev' = current
  /\ current' = idx
  /\ selected' = selected
  /\ cancelled' = FALSE

\* App::select, for an index of the trace, when the list is (or has become) list.
Select(idx, list) ==
  /\ prev' = current
  /\ current' = idx
  /\ selected' = IF idx \in list THEN Position(idx, list) ELSE selected
  /\ cancelled' = FALSE

\* bug: the last index is not a bound
StepByUnbounded(delta) == Select(Max({current + delta, 0}), filtered)

\* App::step
StepBy(delta) == Select(Min({Max({current + delta, 0}), Size - 1}), filtered)

Stay == UNCHANGED << prev, current, selected, cancelled >>

\* App::matches_filter
MatchesFilter(i, what) ==
  CASE what = "mem" -> trace[i].mem_changes # {}
    [] OTHER        -> trace[i].insn = what

\* App::find_next and App::find_prev
FindNext(what) ==
  LET found == {i \in Indices : i > current /\ MatchesFilter(i, what)}
  IN  IF found = {} THEN Stay ELSE Select(Min(found), filtered)

FindPrev(what) ==
  LET found == {i \in Indices : i < current /\ MatchesFilter(i, what)}
  IN  IF found = {} THEN Stay ELSE Select(Max(found), filtered)

\* bug: only the last character typed is searched for
MatchesLastChar(q) ==
  IF q = << >> THEN Indices
  ELSE {i \in Indices : Contains(trace[i].text, << q[Len(q)] >>)}

Matches(q) == IF q = << >> THEN Indices ELSE {i \in Indices : Contains(trace[i].text, q)}

\* bug: the entry shown stays where it was
ApplySearchStay(q) == filtered' = Matches(q) /\ Stay

\* App::apply_search
ApplySearch(q) ==
  /\ filtered' = Matches(q)
  /\ IF Matches(q) = {} THEN Stay ELSE Select(Min(Matches(q)), Matches(q))

-----------------------------------------------------------------------------
(* Keys. *)

\* main_loop hands a key to the handler of the mode and draws again.
Key(m) == drawn /\ ~should_quit /\ mode = m /\ drawn' = FALSE /\ UNCHANGED trace

KeepSearch == UNCHANGED << mode, query, filtered, should_quit >>

Move ==
  /\ Key("normal")
  /\ \E delta \in {-1, 1, Page, -Page} : StepBy(delta)
  /\ KeepSearch

First == Key("normal") /\ Select(0, filtered) /\ KeepSearch
Last  == Key("normal") /\ Select(Size - 1, filtered) /\ KeepSearch

Jump ==
  /\ Key("normal")
  /\ \E what \in {"call", "ret", "mem"} : FindNext(what) \/ FindPrev(what)
  /\ KeepSearch

Quit ==
  /\ Key("normal")
  /\ should_quit' = TRUE
  /\ Stay
  /\ UNCHANGED << mode, query, filtered >>

\* The list keeps the filter of an earlier search until a character is typed.
OpenSearch ==
  /\ Key("normal")
  /\ mode' = "search"
  /\ query' = << >>
  /\ Stay
  /\ UNCHANGED << filtered, should_quit >>

OpenHelp ==
  /\ Key("normal")
  /\ mode' = "help"
  /\ Stay
  /\ UNCHANGED << query, filtered, should_quit >>

\* Any key.
CloseHelp ==
  /\ Key("help")
  /\ mode' = "normal"
  /\ Stay
  /\ UNCHANGED << query, filtered, should_quit >>

\* Esc: cancel search, restore full list.
CancelSearch ==
  /\ Key("search")
  /\ filtered' = Indices
  /\ mode' = "normal" /\ query' = << >>
  /\ cancelled' = TRUE
  /\ UNCHANGED << current, selected, prev, should_quit >>

\* Enter: the filter stays.
AcceptSearch ==
  /\ Key("search")
  /\ mode' = "normal" /\ query' = << >>
  /\ Stay
  /\ UNCHANGED << filtered, should_quit >>

TypeChar ==
  /\ Key("search")
  /\ Len(query) < MaxQuery
  /\ \E c \in Chars : query' = Append(query, c) /\ ApplySearch(Append(query, c))
  /\ UNCHANGED << mode, should_quit >>

\* Of an empty query too, which searches for everything.
Backspace ==
  /\ Key("search")
  /\ LET q == IF query = << >> THEN << >> ELSE SubSeq(query, 1, Len(query) - 1)
     IN  query' = q /\ ApplySearch(q)
  /\ UNCHANGED << mode, should_quit >>

HasQuit == should_quit /\ UNCHANGED vars

TuiNext ==
  \/ Draw
  \/ Move \/ First \/ Last \/ Jump \/ Quit
  \/ OpenSearch \/ OpenHelp \/ CloseHelp
  \/ CancelSearch \/ AcceptSearch \/ TypeChar \/ Backspace
  \/ HasQuit

TuiSpec == TuiInit /\ [][TuiNext]_vars

-----------------------------------------------------------------------------
(* What ui draws of this state: the header, the timeline and the registers. *)

Stats == INSTANCE TraceStats WITH
  Calls <- {"call"}, Returns <- {"ret"}, Branches <- {}, MaxListed <- 20

\* render_header
Header ==
  LET t == Stats!Totals(Stats!get_all(trace))
  IN  [steps |-> Size, step |-> current, percent |-> (current * 100) \div Size,
       calls |-> t.calls, mem |-> t.mem]

\* bug: memory changes come first
MarkerMemFirst(i) ==
  IF trace[i].mem_changes # {} THEN "*"
  ELSE IF trace[i].insn = "call" THEN ">"
  ELSE IF trace[i].insn = "ret" THEN "<" ELSE " "

\* render_timeline
Marker(i) ==
  IF trace[i].insn = "call" THEN ">"
  ELSE IF trace[i].insn = "ret" THEN "<"
  ELSE IF trace[i].mem_changes # {} THEN "*" ELSE " "

Timeline == [i \in filtered |-> [marker |-> Marker(i), shown |-> i = current]]

\* render_registers: the names drawn in green.
ChangedRegisters ==
  IF prev = NoIndex THEN {}
  ELSE {n \in Registers : trace[prev].regs[n] # trace[current].regs[n]}

\* render_memory
MemoryPane == trace[current].mem_changes

-----------------------------------------------------------------------------
(* Properties. *)

\* The panes agree with each other: as long as the list is complete, it has as
\* many call markers as the header counts calls, and no entry has more memory
\* changes in its pane than the header counts in all.
PanesAgree ==
  filtered = Indices =>
    /\ Header.calls = Cardinality({i \in Indices : Timeline[i].marker = ">"})
    /\ Cardinality(MemoryPane) <= Header.mem
    /\ {i \in Indices : Timeline[i].shown} = {Header.step}

\* When a key moves to another entry, the registers drawn as changed are those
\* in which the two entries differ, whichever key it was.
MarksWhatChanged ==
  [][ current' # current =>
        ChangedRegisters' = {n \in Registers : trace[current].regs[n] # trace'[current'].regs[n]} ]_vars

\* While a query is typed, the list is that of its matches and both the list
\* and the details show the first of them, wherever the user was before.
SearchShowsFirstMatch ==
  mode = "search" /\ query # << >> =>
    /\ filtered = Matches(query)
    /\ filtered # {} => current = Min(filtered) /\ selected = 0

\* Each character typed after the first narrows the list, whatever the trace.
TypingNarrows ==
  [][ query # << >> /\ Len(query') > Len(query) => filtered' \subseteq filtered ]_vars

\* What is highlighted in the list is what the details show, whenever the list
\* has that entry ("Sync list selection").
SelectionShowsCurrent ==
  drawn /\ current \in filtered => selected = Position(current, filtered)

\* ... except between the Esc that cancels a search and the next move.
SelectionFollows == ~cancelled => SelectionShowsCurrent

=============================================================================
