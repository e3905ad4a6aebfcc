------------------------------ MODULE Recorder ------------------------------
(***************************************************************************)
(* What a trace promises, without the mechanism: the log lists the states  *)
(* the program's CPU goes through, in order, and no instruction is         *)
(* executed before the state it starts from is the last one of the log.    *)
(*                                                                         *)
(* With Exact, no state is listed twice and the CPU only moves by          *)
(* executing instructions: the log is the execution.  Without it, the same *)
(* state may be recorded again as long as its instruction has not been     *)
(* executed, and a signal may divert the program.                          *)
(***************************************************************************)
EXTENDS Naturals, Sequences

CONSTANT Exact

VARIABLES
  log,   \* states recorded
  cur,   \* the state the CPU is in
  ran    \* states whose instruction has been executed

RecorderInit ==
  /\ log = << >>
  /\ cur = 0
  /\ ran = {}

Recorded == log # << >> /\ log[Len(log)] = cur

Record ==
  /\ cur \notin ran
  /\ Exact => ~Recorded
  /\ log' = Append(log, cur)
  /\ UNCHANGED << cur, ran >>

Execute ==
  /\ Recorded
  /\ ran' = ran \cup {cur}
  /\ cur' \in {cur, cur + 1}   \* the last instruction leads nowhere
  /\ UNCHANGED log

Divert ==
  /\ ~Exact
  /\ Recorded
  /\ cur' = cur + 1
  /\ UNCHANGED << log, ran >>

RecorderNext == Record \/ Execute \/ Divert

RecorderSpec == RecorderInit /\ [][RecorderNext]_<< log, cur, ran >>

=============================================================================
