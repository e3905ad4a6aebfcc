------------------------------- MODULE MCTui -------------------------------
(* Constants of the TLC runs of Tui. *)
EXTENDS Tui

CONSTANTS a, b

Change(n) == [addr : 1 .. n, old_val : {0}, new_val : {1}]

\* The call has changed memory too, and the plain entry shares a register value
\* with it.
MCEntries ==
  { [text |-> << a >>, insn |-> "plain", regs |-> [x0 |-> 0, sp |-> 1], mem_changes |-> {}],
    [text |-> << a, b >>, insn |-> "call", regs |-> [x0 |-> 1, sp |-> 1], mem_changes |-> Change(2)],
    [text |-> << b, a, b >>, insn |-> "ret", regs |-> [x0 |-> 1, sp |-> 0], mem_changes |-> Change(1)] }

=============================================================================
