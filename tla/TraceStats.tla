----------------------------- MODULE TraceStats -----------------------------
(***************************************************************************)
(* TraceStats::analyze (src/stats/mod.rs), with the queries of the trace   *)
(* database it and the viewers are built on.  The module is pure.          *)
(*                                                                         *)
(* Of an entry it uses the instruction (the mnemonic and the annotation of *)
(* its text), the address pc and the memory changes.                       *)
(***************************************************************************)
EXTENDS TraceDb, SequencesExt

CONSTANTS
  Calls,       \* instructions annotated with CALL
  Returns,     \* ... with RETURN
  Branches,    \* ... whose mnemonic is_branch_mnemonic recognises
  MaxListed    \* mnemonics the statistics list: 20

ASSUME StatsAssumption == MaxListed \in Nat \ {0}

\* TraceDb::get_all: in ascending order of step.
get_all(d) ==
  [k \in 1 .. Count(d) |->
     d[CHOOSE s \in DOMAIN d : Cardinality({t \in DOMAIN d : t <= s}) = k]]

\* bug: start..end for start..=end
GetRangeOpen(d, start, end) ==
  get_all([s \in {t \in DOMAIN d : start <= t /\ t < end} |-> d[s]])

\* TraceDb::get_range: the entries whose keys are in start..=end.
get_range(d, start, end) ==
  get_all([s \in {t \in DOMAIN d : start <= t /\ t <= end} |-> d[s]])

-----------------------------------------------------------------------------
One(b) == IF b THEN 1 ELSE 0

\* The counters of the loop over the entries.
Totals(entries) ==
  FoldLeft(LAMBDA t, e : [calls   |-> t.calls + One(e.insn \in Calls),
                          returns |-> t.returns + One(e.insn \in Returns),
                          jumps   |-> t.jumps + One(e.insn \in Branches),
                          mem     |-> t.mem + Cardinality(e.mem_changes)],
           [calls |-> 0, returns |-> 0, jumps |-> 0, mem |-> 0], entries)

\* addr_counts and insn_counts: how often each key occurs.
Counts(keys) == ToBag(keys)
AddrCounts(entries) == Counts([k \in DOMAIN entries |-> entries[k].pc])
InsnCounts(entries) == Counts([k \in DOMAIN entries |-> entries[k].insn])

\* max_by_key takes the last of the greatest, in the order of a HashMap: any.
MostExecuted(counts) ==
  {a \in DOMAIN counts : \A b \in DOMAIN counts : counts[b] <= counts[a]}

Descending(list) == \A j, k \in DOMAIN list : j < k => list[j].count >= list[k].count

Truncate(list) == SubSeq(list, 1, IF Len(list) < MaxListed THEN Len(list) ELSE MaxListed)

\* bug: truncated before it is sorted
ListingsCutFirst(counts) ==
  LET pairs == {[insn |-> i, count |-> counts[i]] : i \in DOMAIN counts}
  IN  {list \in {Truncate(l) : l \in SetToSeqs(pairs)} : Descending(list)}

\* instruction_counts: the pairs of a HashMap, in any order, sorted by count.
Listings(counts) ==
  LET pairs == {[insn |-> i, count |-> counts[i]] : i \in DOMAIN counts}
  IN  {Truncate(list) : list \in {l \in SetToSeqs(pairs) : Descending(l)}}

\* What analyze may return; most_executed_address is a sequence of length 0 or 1.
analyze(d) ==
  LET entries == get_all(d)
      addrs   == AddrCounts(entries)
      t       == Totals(entries)
  IN  { [total_steps           |-> Len(entries),
         unique_addresses      |-> Cardinality(DOMAIN addrs),
         instruction_counts    |-> listing,
         most_executed_address |-> most,
         call_count |-> t.calls, ret_count |-> t.returns, jump_count |-> t.jumps,
         mem_change_count |-> t.mem] :
          listing \in Listings(InsnCounts(entries)),
          most \in IF entries = << >> THEN {<< >>}
                   ELSE {<< [addr |-> a, count |-> addrs[a]] >> : a \in MostExecuted(addrs)} }

=============================================================================
