--------------------------- MODULE MCTraceSession ---------------------------
(* Constants of the TLC runs of TraceSession. *)
EXTENDS TraceSession

\* A trace of one entry that an earlier session saved in the output file.
MCOldTrace == Serialize([s \in {0} |-> [step |-> 0, tick |-> -1]])

=============================================================================
