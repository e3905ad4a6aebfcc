----------------------------- MODULE WebViewer -----------------------------
(***************************************************************************)
(* The viewer in the browser, src/web/index.html (which server/mod.rs      *)
(* embeds), beside the server and its other clients.  The page asks for    *)
(* the whole trace, which takes a while, and may be used in the meantime;  *)
(* then it shows one entry and a list of rows of which only those near the *)
(* visible part exist.                                                     *)
(*                                                                         *)
(* filteredIndices is always ascending, so it is modelled as the set of    *)
(* its elements.  What the keyboard focus decides, namely which of several *)
(* actions a key stands for, is left open.  Lengths are in half pixels:    *)
(* scrollToActive takes half the height of the list, which may be odd.     *)
(***************************************************************************)
EXTENDS Server

CONSTANTS
  Browser,     \* the client the page runs in
  Words,       \* texts typed into the filter; NoText is the empty one
  NoText,
  Found,       \* instruction -> the Words its text contains
  Registers,
  MaxExact,    \* integers up to here are exact in JavaScript: 2^53
  ItemHeight,  \* ITEM_H: 28 pixels
  Buffer,      \* BUFFER: 15 rows
  ViewHeight,  \* clientHeight of the list, in pixels
  Page         \* steps PageDown moves by: 50

ASSUME WebAssumption ==
  /\ Browser \in Clients /\ NoText \notin Words
  /\ Calls \cap Returns = {}     \* an instruction has one annotation
  /\ \A f \in Files : \A s \in DOMAIN f.entries : f.entries[s].regs \in [Registers -> Nat]
  /\ None \notin [Registers -> Int]
  /\ MaxExact \in Nat /\ (MaxExact % 4) = 0 /\ Buffer \in Nat /\ Page \in Nat
  /\ ItemHeight \in Nat \ {0} /\ ViewHeight \in Nat \ {0}

VARIABLES
  phase,         \* "closed" | "loading" | "ready" | "empty" | "error"
  trace,         \* the entries, from 0
  curr,
  changed,       \* the registers shown as changed
  prevRegs,      \* None, or the registers of the entry shown last
  header,        \* [steps, calls, mem]: h-steps, h-calls and h-mem
  filtered,      \* filteredIndices
  box,           \* the text in the filter box
  rows,          \* the row elements: [fi, i, active]
  scrollTop,
  scrolled,      \* a scroll event is on its way
  help,          \* the help overlay is visible
  unapplied      \* history: the filter box has the text it had when the trace arrived

listVars    == << filtered, box, rows, scrollTop, scrolled >>
detailVars  == << curr, changed, prevRegs >>
browserVars == << phase, trace, header, help, unapplied, detailVars, listVars >>
webVars     == << serverVars, browserVars >>

Indices == DOMAIN trace
Size    == Cardinality(Indices)

NoHeader == [steps |-> 0, calls |-> 0, mem |-> 0]

WebInit ==
  /\ ServerInit
  /\ phase = "closed"
  /\ trace = EmptyDb
  /\ curr = 0 /\ changed = {} /\ prevRegs = None
  /\ header = NoHeader
  /\ filtered = {} /\ box = NoText /\ rows = {}
  /\ scrollTop = 0 /\ scrolled = FALSE
  /\ help = FALSE
  /\ unapplied = FALSE

-----------------------------------------------------------------------------
(* The list. *)

\* Place of an index in a list, and the index at a place.
Position(i, list) == Cardinality({j \in list : j < i})
At(fi, list) == CHOOSE i \in list : Position(i, list) = fi

RowHeight == 2 * ItemHeight
ViewSpan  == 2 * ViewHeight

Least(a, b) == IF a < b THEN a ELSE b
Most(a, b)  == IF a < b THEN b ELSE a

\* The browser keeps scrollTop within the list.
Clamped(top, list) ==
  Least(Most(top, 0), Most(Cardinality(list) * RowHeight - ViewSpan, 0))

\* Of a position between two pixels it may keep the half or take either.
Settable(top, list) ==
  {Clamped(t, list) : t \in IF top % 2 = 0 THEN {top} ELSE {top - 1, top, top + 1}}

StartFi(top) == Most(0, (top \div RowHeight) - Buffer)

\* bug: floor for ceil
EndFiFloor(top, list) ==
  Least(Cardinality(list), ((top + ViewSpan) \div RowHeight) + Buffer)
EndFi(top, list) ==
  Least(Cardinality(list), ((top + ViewSpan + RowHeight - 1) \div RowHeight) + Buffer)

\* renderVisible: the rows old become these.
RenderVisible(old, top, list, c) ==
  LET range == StartFi(top) .. EndFi(top, list) - 1
      kept  == {r \in old : r.fi \in range}
      new   == {fi \in range : \A r \in kept : r.fi # fi}
  IN  kept \cup {[fi |-> fi, i |-> At(fi, list), active |-> At(fi, list) = c] : fi \in new}

Matching(text) ==
  IF text = NoText THEN Indices ELSE {i \in Indices : text \in Found[trace[i].insn]}

\* scrollToActive, when c is shown and the list has the rows old: unless the row
\* is visible, it is brought to the middle.
ScrollTops(c, list) ==
  LET target == Position(c, list) * RowHeight
  IN  IF target < scrollTop \/ target > scrollTop + ViewSpan - RowHeight
      THEN Settable(target - ViewSpan \div 2, list) ELSE {scrollTop}

ScrollToActive(c, list, old) ==
  IF c \in list
  THEN /\ scrollTop' \in ScrollTops(c, list)
       /\ scrolled' = (scrolled \/ scrollTop' # scrollTop)
       /\ rows' = {[r EXCEPT !.active = (r.i = c)] :
                     r \in RenderVisible(old, scrollTop', list, c)}
  ELSE rows' = old /\ UNCHANGED << scrollTop, scrolled >>

-----------------------------------------------------------------------------
(* The entry. *)

\* JSON.parse: above MaxExact a double holds even integers only and an odd one
\* becomes the neighbour that is a multiple of 4 (below 2 * MaxExact).
Double(v) ==
  IF v <= MaxExact \/ v % 2 = 0 THEN v ELSE IF v % 4 = 1 THEN v - 1 ELSE v + 1

Doubles(regs) == [n \in Registers |-> Double(regs[n])]

\* bug: the registers are compared after they were saved
ShowSavedFirst(idx, t, list, old) ==
  /\ curr' = idx
  /\ prevRegs' = Doubles(t[idx].regs)
  /\ changed' = {n \in Registers : prevRegs'[n] # Double(t[idx].regs[n])}
  /\ ScrollToActive(idx, list, old)

\* show, for an index of the trace t.
Show(idx, t, list, old) ==
  /\ curr' = idx
  /\ changed' = IF prevRegs = None THEN {}
                ELSE {n \in Registers : prevRegs[n] # Double(t[idx].regs[n])}
  /\ prevRegs' = Doubles(t[idx].regs)
  /\ ScrollToActive(idx, list, old)

\* Elsewhere it returns at once.
NoShow == UNCHANGED << detailVars, rows, scrollTop, scrolled >>
TryShow(idx) == IF idx \in Indices THEN Show(idx, trace, filtered, rows) ELSE NoShow

-----------------------------------------------------------------------------
(* Loading. *)

KeepServer == UNCHANGED serverVars

\* The server has sent the page, and may have stopped since.
OpenPage ==
  /\ phase = "closed"
  /\ Ask(Browser, [kind |-> "all"]) \/ AskTooLate(Browser, [kind |-> "all"])
  /\ phase' = "loading"
  /\ UNCHANGED << trace, header, help, unapplied, detailVars, listVars >>

Entries(a) == [i \in 0 .. Len(a.entries) - 1 |-> a.entries[i + 1]]

\* callCnt: filter and length.  memCnt: reduce.
CallCount(entries) == Cardinality({k \in DOMAIN entries : entries[k].insn \in Calls \cup Returns})
MemCount(entries)  == FoldLeft(LAMBDA s, e : s + Cardinality(e.mem_changes), 0, entries)

\* bug: entries with memory changes are counted, not the changes
HeaderOfEntries(a) ==
  [steps |-> a.total, calls |-> CallCount(a.entries),
   mem |-> Cardinality({k \in DOMAIN a.entries : a.entries[k].mem_changes # {}})]

HeaderOf(a) ==
  [steps |-> a.total, calls |-> CallCount(a.entries), mem |-> MemCount(a.entries)]

\* The answer arrives: initVirtualScroll and show(0).
Load ==
  /\ phase = "loading"
  /\ answer[Browser] \notin {None, Dropped}
  /\ LET a == answer[Browser]
         t == Entries(a)
     IN  /\ t # EmptyDb
         /\ trace' = t
         /\ header' = HeaderOf(a)
         /\ filtered' = DOMAIN t
         /\ Show(0, t, DOMAIN t, RenderVisible(rows, scrollTop, DOMAIN t, curr))
  /\ phase' = "ready"
  /\ unapplied' = (box # NoText)
  /\ TakeAnswer(Browser)
  /\ UNCHANGED << box, help >>

LoadNothing ==
  /\ phase = "loading"
  /\ answer[Browser] \notin {None, Dropped} /\ answer[Browser].entries = << >>
  /\ phase' = "empty"
  /\ TakeAnswer(Browser)
  /\ UNCHANGED << trace, header, help, unapplied, detailVars, listVars >>

\* bug: nothing catches the error
LoadFailsUncaught ==
  /\ phase = "loading"
  /\ answer[Browser] = Dropped
  /\ TakeAnswer(Browser)
  /\ UNCHANGED browserVars

\* fetch rejects.
LoadFails ==
  /\ phase = "loading"
  /\ answer[Browser] = Dropped
  /\ phase' = "error"
  /\ TakeAnswer(Browser)
  /\ UNCHANGED << trace, header, help, unapplied, detailVars, listVars >>

-----------------------------------------------------------------------------
(* Keys and buttons.  The help overlay takes the shortcuts and the mouse; the *)
(* two input fields, and a button that has the focus, still act behind it.    *)

Opened == phase # "closed" /\ KeepServer /\ UNCHANGED << phase, trace, header >>

InView == Opened /\ UNCHANGED << filtered, box, help, unapplied >>

\* Buttons go by one step, shortcuts by Page too.
stepBy(d) == InView /\ (help => d \in {-1, 1}) /\ TryShow(curr + d)

jumpTo(i) == InView /\ TryShow(Most(0, Least(Size - 1, i)))

\* The number in the step box.
goToStep(s) ==
  LET found == {i \in Indices : trace[i].step = s}
  IN  InView /\ IF found = {} THEN NoShow ELSE TryShow(Min(found))

IsOfType(i, type) ==
  CASE type = "call" -> trace[i].insn \in Calls
    [] type = "ret"  -> trace[i].insn \in Returns
    [] type = "mem"  -> trace[i].mem_changes # {}

findNext(type) ==
  LET found == {i \in Indices : i > curr /\ IsOfType(i, type)}
  IN  InView /\ IF found = {} THEN NoShow ELSE TryShow(Min(found))

findPrev(type) ==
  LET found == {i \in Indices : i < curr /\ IsOfType(i, type)}
  IN  ~help /\ InView /\ IF found = {} THEN NoShow ELSE TryShow(Max(found))

\* A click on a row shows the entry the row was made for.
ClickRow == ~help /\ InView /\ \E r \in rows : TryShow(r.i)

\* bug: the rows of the earlier list are not removed
ApplyFilterKeepingRows(text) ==
  /\ filtered' = Matching(text)
  /\ scrollTop' = Clamped(scrollTop, filtered')
  /\ scrolled' = (scrolled \/ scrollTop' # scrollTop)
  /\ rows' = RenderVisible(rows, scrollTop', filtered', curr)

applyFilter(text) ==
  /\ filtered' = Matching(text)
  /\ scrollTop' = Clamped(scrollTop, filtered')
  /\ scrolled' = (scrolled \/ scrollTop' # scrollTop)
  /\ rows' = RenderVisible({}, scrollTop', filtered', curr)

\* oninput
TypeFilter ==
  /\ Opened
  /\ \E text \in (Words \cup {NoText}) \ {box} : box' = text /\ applyFilter(text)
  /\ unapplied' = FALSE
  /\ UNCHANGED << help, detailVars >>

\* bug: the box is cleared without a look at the list
EscapeOnlyClears ==
  /\ ~help /\ Opened
  /\ box' = NoText /\ unapplied' = FALSE
  /\ UNCHANGED << help, detailVars, filtered, rows, scrollTop, scrolled >>

\* Escape in the filter box, or in the step box, which clears that one.
Escape ==
  /\ ~help /\ Opened
  /\ \/ box' = NoText /\ applyFilter(NoText)
     \/ box' = box /\ applyFilter(box)
  /\ unapplied' = FALSE
  /\ UNCHANGED << help, detailVars >>

toggleHelp ==
  /\ Opened
  /\ help' = ~help
  /\ UNCHANGED << unapplied, detailVars, listVars >>

\* The user scrolls; the event comes later.
Scroll ==
  /\ Opened
  /\ scrollTop' \in 0 .. Clamped(Cardinality(filtered) * RowHeight, filtered)
  /\ scrollTop' # scrollTop
  /\ scrolled' = TRUE
  /\ UNCHANGED << help, unapplied, detailVars, filtered, box, rows >>

OnScroll ==
  /\ scrolled /\ Opened
  /\ scrolled' = FALSE
  /\ rows' = RenderVisible(rows, scrollTop, filtered, curr)
  /\ UNCHANGED << help, unapplied, detailVars, filtered, box, scrollTop >>

UserStep ==
  \/ \E d \in {-1, 1, -Page, Page} : stepBy(d)
  \/ jumpTo(0) \/ jumpTo(Size - 1)
  \/ \E s \in Indices \cup {Size} : goToStep(s)
  \/ \E type \in {"call", "ret", "mem"} : findNext(type) \/ findPrev(type)
  \/ ClickRow \/ TypeFilter \/ Escape \/ toggleHelp \/ Scroll

ServerStep ==
  /\ \/ Start \/ StartFails \/ StopServer
     \/ \E c \in Clients : Handle(c)
     \/ \E c \in Clients \ {Browser} : TakeAnswer(c) \/ \E r \in Requests : Ask(c, r)
  /\ UNCHANGED browserVars

WebNext ==
  \/ ServerStep
  \/ OpenPage \/ Load \/ LoadNothing \/ LoadFails
  \/ UserStep \/ OnScroll

\* The runtime serves every request, and the page's script runs.
WebFairness ==
  /\ \A c \in Clients : WF_webVars(Handle(c) /\ UNCHANGED browserVars)
  /\ WF_webVars(Load \/ LoadNothing \/ LoadFails)

WebSpec == WebInit /\ [][WebNext]_webVars /\ WebFairness

-----------------------------------------------------------------------------
(* Properties. *)

\* The page ends its loading with the trace, with the news that there is none
\* or with an error, whatever becomes of the server.
PageSettles == phase = "loading" ~> phase \in {"ready", "empty", "error"}

\* What the page counts in its own two passes over the entries it was sent, against
\* what tdb stats counts in the same file: the memory changes are the same, and the
\* number under CALLS is above that of the function calls by that of the returns.
HeaderAgreesWithStats ==
  phase = "ready" =>
    \A s \in Analyses[file] :
      header = [steps |-> s.total_steps, calls |-> s.call_count + s.ret_count,
                mem |-> s.mem_change_count]

\* Whatever was typed, scrolled and clicked, in whatever order: a row stands
\* where the list has its entry, no place of the list has two rows, and the
\* row of the entry shown is the only one that is marked.  (When the filter
\* excludes that entry, the row marked last may stay marked.)
RowsShowTheList ==
  /\ \A r \in rows : r.i \in filtered /\ r.fi = Position(r.i, filtered)
  /\ \A r, q \in rows : r.fi = q.fi => r = q
  /\ curr \in filtered => \A r \in rows : r.active <=> r.i = curr

\* No visible place of the list is blank, unless a scroll event is still to be
\* handled.
NoBlankRows ==
  ~scrolled =>
    \A fi \in 0 .. Cardinality(filtered) - 1 :
      fi * RowHeight < scrollTop + ViewSpan /\ (fi + 1) * RowHeight > scrollTop =>
        \E r \in rows : r.fi = fi

\* The list follows the filter box, whatever was typed, cleared and typed again.
\* Only a text that was there when the trace arrived is not applied to it until
\* the box is used again: load lists all entries.
ListFollowsBox == phase = "ready" /\ ~unapplied => filtered = Matching(box)

\* When another entry is shown, the registers marked as changed are those that
\* differ between the two, except that a value above 2^53 may look like another.
MarksChangedRegisters ==
  [][ phase = "ready" /\ curr' # curr =>
        \A n \in Registers :
          LET before == trace[curr].regs[n]
              after  == trace[curr'].regs[n]
          IN  IF n \in changed' THEN before # after
              ELSE before = after \/ before > MaxExact \/ after > MaxExact ]_webVars

=============================================================================
