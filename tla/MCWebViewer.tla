---------------------------- MODULE MCWebViewer ----------------------------
(* Constants of the TLC runs of WebViewer. *)
EXTENDS WebViewer

CONSTANTS bl, ret, cbz, str, w

Entry(s, addr, i, reg, mem) ==
  [step |-> s, pc |-> addr, insn |-> i, regs |-> [r \in {"x0"} |-> reg],
   mem_changes |-> [addr : 1 .. mem, old_val : {0}, new_val : {1}]]

Trace(list) == [s \in 0 .. Len(list) - 1 |-> list[s + 1]]

\* Four steps whose addresses and mnemonics occur with different and with equal
\* frequencies, and whose register passes 2^53 (here 4).
MCLoop == Trace(<< Entry(0, 1, str, 0, 0), Entry(1, 2, bl, 1, 2), Entry(2, 1, str, 4, 0),
                   Entry(3, 3, ret, 5, 1) >>)

MCShort == Trace(<< Entry(0, 1, cbz, 5, 0), Entry(1, 2, str, 4, 0) >>)

MCFiles == {Serialize(EmptyDb), Serialize(MCLoop), Serialize(MCShort), NoFile}

MCRequests == {[kind |-> "stats"], [kind |-> "count"],
               [kind |-> "step", step |-> 1], [kind |-> "step", step |-> 9],
               [kind |-> "range", start |-> 1, end |-> 3],
               [kind |-> "range", start |-> 3, end |-> 1]}

MCFound == [i \in {bl, ret, cbz, str} |-> IF i \in {str, ret} THEN {w} ELSE {}]

=============================================================================
