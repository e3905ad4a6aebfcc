--------------------------- MODULE RecordingProofs ---------------------------
(***************************************************************************)
(* Proofs that the trace is faithful, under every event of the             *)
(* environment: no executed instruction is missing from it, its order is   *)
(* that of the execution, the session implements the abstract recorder,    *)
(* the file is the whole trace or does not load, and a stop request is     *)
(* obeyed within a step.                                                   *)
(*                                                                         *)
(* The properties are not inductive by themselves.  What makes them hold   *)
(* is that the state of a process that can execute its instruction is the  *)
(* last one recorded (Armed), which in turn needs to know where tdb is     *)
(* when the process is in each of its states (Control).                    *)
(***************************************************************************)
EXTENDS TraceSessionProofs, Sequences

\* The process runs only while tdb is in waitpid, it is let go only at the
\* end, and a status that reports a stop is about a process that is stopped.
Control ==
  /\ proc \in {"running", "blocked"} => pc = "wait" /\ status = NoStatus
  /\ proc = "free" => pc = "done"
  /\ status.kind \in {"trap", "signal"} => proc = "stopped" /\ pc = "wait"
  /\ status = Exited => proc = "dead"

\* At first the process is stopped and tdb about to step.
LEMMA InitControl == Init => Control
BY DEF Init, TraceeInit, CpuInit, SessionInit, LoopInit, Control, NoStatus, Exited

\* Every step leaves tdb where the state of the process allows it to be.
LEMMA NextControl == TypeOK /\ Control /\ [Next]_vars => Control'
<1> SUFFICES ASSUME TypeOK, Control, [Next]_vars
             PROVE  Control'
  OBVIOUS
<1> USE DEF NoStatus, Trap, Exited, SignalStatus
<1>1. CASE StepTracer
  <2>1. CASE ReadFails \/ ReadRegisters \/ DecodeFails \/ Decode \/ Record \/ StepFails
    BY <2>1 DEF ReadFails, ReadRegisters, DecodeFails, Decode, Record, StepFails, traceeVars, Control
  <2>2. CASE StepSucceeds
    BY <2>2 DEF StepSucceeds, CanStep, PtraceStep, Control, TypeOK, TraceeTypeOK
  <2>3. CASE WaitTrap \/ WaitSignal \/ WaitExited
    BY <2>3 DEF WaitTrap, WaitSignal, WaitExited, Collect, Control
  <2>4. CASE WaitFails
    BY <2>4 DEF WaitFails, traceeVars, Control
  <2> QED
    BY <1>1, <2>1, <2>2, <2>3, <2>4 DEF StepTracer, single_step
<1>2. CASE TraceeStep
  <2>1. CASE TraceeProgress \/ Wake
    BY <1>2, <2>1 DEF TraceeStep, TraceeProgress, TrapAfterStep, Block, Exit, SignalStop,
       DeliverIgnored, DeliverToHandler, DeliverFatal, Deliver, Wake, Stop, Control
  <2>2. CASE Kill
    BY <1>2, <2>2 DEF TraceeStep, Kill, Control
  <2>3. ASSUME NEW new \in SUBSET Signals, PostSignals(new) PROVE Control'
    BY <1>2, <2>3 DEF TraceeStep, PostSignals, Control
  <2> QED
    BY <1>2, <2>1, <2>2, <2>3 DEF TraceeStep, TraceeNext
<1>3. CASE LoopStops \/ LoopSteps \/ HandleOk \/ HandleExited \/ HandleError \/ Save
  BY <1>3 DEF LoopStops, LoopSteps, HandleOk, HandleExited, HandleError, Save, traceeVars, Control
<1>4. CASE DetachAndReport
  BY <1>4 DEF DetachAndReport, Detach, PtraceDetach, Control, TypeOK, TraceeTypeOK
<1>5. CASE SaveFails \/ Crash
  BY <1>5 DEF SaveFails, Crash, Die, KillTracee, Finished, Control
<1>6. CASE CtrlC \/ CtrlCHandler
  BY <1>6 DEF CtrlC, CtrlCHandler, traceeVars, Control
<1>7. CASE UNCHANGED vars
  BY <1>7 DEF vars, traceeVars, Control
<1> QED
  BY <1>1, <1>2, <1>3, <1>4, <1>5, <1>6, <1>7 DEF Next, trace_loop, Terminated

\* While single_step looks at the process, nothing but death can change it.
THEOREM ReadsAStoppedProcess == Spec => []SteppedOnlyWhenStopped
<1>1. TypeOK /\ Control => SteppedOnlyWhenStopped
  BY DEF TypeOK, TraceeTypeOK, TracerTypeOK, Control, SteppedOnlyWhenStopped
<1>2. Spec => []Control
  BY TypeCorrect, InitControl, NextControl, PTL DEF Spec
<1> QED
  BY <1>1, <1>2, TypeCorrect, PTL

-----------------------------------------------------------------------------
(* The trace against the execution. *)

\* The last entry shows the state the CPU is in.
LastIsCurrent == step_count > 0 /\ db[step_count - 1].tick = cpu.tick

\* A process that may execute its instruction before tdb looks again.
MayRun == proc \in {"running", "blocked"} \/ (proc = "stopped" /\ pc = "step")

Armed == MayRun => LastIsCurrent

\* Entries are numbered and in the order of the execution, none is ahead of it.
Ordered ==
  \A s \in DOMAIN db :
    /\ db[s].step = s
    /\ db[s].tick <= cpu.tick
    /\ s > 0 => db[s - 1].tick <= db[s].tick

\* The current instruction of a live process has not been executed, nor that of
\* a process that was killed while it was looked at.
Ahead ==
  /\ \A t \in executed : t <= cpu.tick
  /\ proc \notin {"dead", "free"} \/ pc = "record" => cpu.tick \notin executed

Faithful == Armed /\ Ordered /\ NoMissedInstruction /\ Ahead

\* Nothing is recorded and nothing executed.
LEMMA InitFaithful == Init => Faithful
BY DEF Init, TraceeInit, CpuInit, TracerInit, SessionInit, LoopInit, EmptyDb, Faithful, MayRun, Armed, Ordered,
       NoMissedInstruction, Ahead

\* Arithmetic of ticks and steps, from the types.
LEMMA TickType ==
  ASSUME TypeOK
  PROVE  /\ cpu.tick \in Nat /\ step_count \in Nat
         /\ DOMAIN db = 0 .. step_count - 1
         /\ \A s \in DOMAIN db : db[s].tick \in Nat
         /\ executed \subseteq Nat
BY TraceeAssumption DEF TypeOK, TraceeTypeOK, TracerTypeOK, TraceEntry

\* Recording the state the CPU is in keeps the trace faithful.
LEMMA RecordFaithful ==
  ASSUME TypeOK, Control, Faithful, Record
  PROVE  Faithful' /\ LastIsCurrent'
<1> PICK e : db' = Insert(db, e) /\ e.step = step_count /\ e.tick = cpu.tick
  BY DEF Record, NewEntry
<1>1. /\ step_count' = step_count + 1 /\ step_count \in Nat /\ cpu.tick \in Nat
      /\ UNCHANGED << cpu, proc, executed >>
      /\ DOMAIN db = 0 .. step_count - 1
  BY TickType DEF Record, traceeVars
<1>2. /\ DOMAIN db' = 0 .. step_count /\ db'[step_count] = e
      /\ \A s \in 0 .. step_count - 1 : db'[s] = db[s]
  BY <1>1, InsertNext
<1>3. LastIsCurrent'
  BY <1>1, <1>2 DEF LastIsCurrent
<1>4. Ordered'
  <2> SUFFICES ASSUME NEW s \in 0 .. step_count
               PROVE  /\ db'[s].step = s
                      /\ db'[s].tick <= cpu.tick
                      /\ s > 0 => db'[s - 1].tick <= db'[s].tick
    BY <1>1, <1>2 DEF Ordered
  <2>1. CASE s = step_count
    <3>1. s > 0 => s - 1 \in DOMAIN db /\ db'[s - 1] = db[s - 1]
      BY <1>1, <1>2, <2>1
    <3> QED
      BY <1>1, <1>2, <2>1, <3>1 DEF Ordered, Faithful
  <2>2. CASE s \in 0 .. step_count - 1
    <3>1. db'[s] = db[s] /\ (s > 0 => db'[s - 1] = db[s - 1])
      BY <1>1, <1>2, <2>2
    <3> QED
      BY <1>1, <2>2, <3>1 DEF Ordered, Faithful
  <2> QED
    BY <1>1, <2>1, <2>2
<1>5. NoMissedInstruction'
  BY <1>1, <1>2 DEF Faithful, NoMissedInstruction, Recorded
<1> QED
  BY <1>1, <1>3, <1>4, <1>5 DEF Record, Faithful, Armed, Ahead

\* Executing the current instruction of a process whose state is the last one
\* recorded keeps the trace faithful.
LEMMA ExecuteFaithful ==
  ASSUME TypeOK, Faithful, LastIsCurrent,
         executed' \subseteq executed \cup {cpu.tick}, UNCHANGED << db, step_count >>,
         pc' = "wait",
         \/ proc' = "dead" /\ UNCHANGED cpu
         \/ proc' = "stopped" /\ cpu'.tick = cpu.tick + 1
  PROVE  Faithful'
<1>1. /\ cpu.tick \in Nat /\ step_count \in Nat /\ DOMAIN db = 0 .. step_count - 1
      /\ \A s \in DOMAIN db : db[s].tick \in Nat
      /\ executed \subseteq Nat
  BY TickType
<1>2. cpu.tick \in Recorded
  BY <1>1 DEF LastIsCurrent, Recorded
<1>3. NoMissedInstruction'
  BY <1>2 DEF Faithful, NoMissedInstruction, Recorded
<1>4. cpu'.tick \in Nat /\ cpu.tick <= cpu'.tick
  BY <1>1
<1>5. Ordered'
  BY <1>1, <1>4 DEF Faithful, Ordered
<1>6. Ahead'
  <2>1. \A t \in executed' : t \in Nat /\ t <= cpu.tick
    BY <1>1 DEF Faithful, Ahead
  <2>2. CASE proc' = "dead" /\ UNCHANGED cpu
    BY <2>1, <2>2 DEF Ahead
  <2>3. CASE cpu'.tick = cpu.tick + 1
    <3>1. \A t \in executed' : t <= cpu'.tick /\ t # cpu'.tick
      BY <1>1, <2>1, <2>3
    <3> QED
      BY <3>1 DEF Ahead
  <2> QED
    BY <2>2, <2>3
<1>7. Armed'
  BY DEF Armed, MayRun
<1> QED
  BY <1>3, <1>5, <1>6, <1>7 DEF Faithful

\* Only Record changes the trace, and only an armed process executes.
LEMMA NextFaithful == TypeOK /\ Control /\ Faithful /\ [Next]_vars => Faithful'
<1> SUFFICES ASSUME TypeOK, Control, Faithful, [Next]_vars
             PROVE  Faithful'
  OBVIOUS
<1> DEFINE Unmoved == UNCHANGED << db, step_count, cpu, executed >>
<1>1. ASSUME Unmoved, MayRun' => MayRun, proc' \in {"dead", "free"} \/ proc \notin {"dead", "free"},
             pc' = "record" => pc = "record" \/ proc \notin {"dead", "free"}
      PROVE  Faithful'
  BY <1>1 DEF Faithful, Armed, LastIsCurrent, Ordered, NoMissedInstruction, Recorded, Ahead
<1>2. CASE StepTracer
  <2>1. CASE Record
    BY <2>1, RecordFaithful
  <2>2. CASE ReadFails \/ ReadRegisters \/ DecodeFails \/ StepFails \/ WaitFails
    BY <1>1, <2>2 DEF ReadFails, ReadRegisters, DecodeFails, StepFails, WaitFails,
       tracerVars, traceeVars, MayRun
  <2>5. CASE Decode
    BY <1>1, <2>5 DEF Decode, ThreadsFound, Control, tracerVars, traceeVars, MayRun
  <2>3. CASE StepSucceeds
    BY <1>1, <2>3 DEF StepSucceeds, CanStep, PtraceStep, MayRun
  <2>4. CASE WaitTrap \/ WaitSignal \/ WaitExited
    BY <1>1, <2>4 DEF WaitTrap, WaitSignal, WaitExited, Collect, tracerVars, MayRun
  <2> QED
    BY <1>2, <2>1, <2>2, <2>3, <2>4, <2>5 DEF StepTracer, single_step
<1>3. CASE TraceeStep
  <2>0. UNCHANGED << pc, db, step_count >>
    BY <1>3 DEF TraceeStep, tracerVars
  <2>1. proc \in {"running", "blocked"} => LastIsCurrent /\ pc = "wait"
    BY DEF Faithful, Armed, MayRun, Control
  <2>2. CASE TrapAfterStep \/ Wake
    BY <2>0, <2>1, <2>2, ExecuteFaithful
       DEF TrapAfterStep, Wake, Retire, Execute, MoveTo, Stop
  <2>3. CASE Exit
    BY <2>0, <2>1, <2>3, ExecuteFaithful DEF Exit, Execute
  <2>4. ASSUME NEW s \in Signals, SignalStop(s) PROVE Faithful'
    <3>1. CASE Retire
      BY <2>0, <2>1, <2>4, <3>1, ExecuteFaithful DEF SignalStop, Retire, Execute, MoveTo, Stop
    <3>2. CASE UNCHANGED << cpu, stackAt, executed, frames, lowest >>
      BY <1>1, <2>0, <2>1, <2>4, <3>2 DEF SignalStop, Stop, MayRun
    <3> QED
      BY <2>4, <3>1, <3>2 DEF SignalStop
  <2>5. CASE DeliverToHandler
    BY <2>0, <2>1, <2>5, ExecuteFaithful DEF DeliverToHandler, Deliver, MoveTo, Stop
  <2>6. CASE Block \/ DeliverIgnored \/ DeliverFatal
    BY <1>1, <2>0, <2>6 DEF Block, DeliverIgnored, DeliverFatal, Deliver, MayRun
  <2>7. CASE Kill
    BY <1>1, <2>0, <2>7 DEF Kill, MayRun
  <2>8. ASSUME NEW new \in SUBSET Signals, PostSignals(new) PROVE Faithful'
    BY <1>1, <2>0, <2>8 DEF PostSignals, MayRun
  <2> QED
    BY <1>3, <2>2, <2>3, <2>4, <2>5, <2>6, <2>7, <2>8 DEF TraceeStep, TraceeNext, TraceeProgress
<1>4. CASE LoopStops \/ LoopSteps \/ HandleOk \/ HandleExited \/ HandleError \/ Save
  BY <1>1, <1>4 DEF LoopStops, LoopSteps, HandleOk, HandleExited, HandleError, Save,
     tracerVars, traceeVars, MayRun
<1>5. CASE DetachAndReport
  BY <1>1, <1>5 DEF DetachAndReport, Detach, PtraceDetach, tracerVars, MayRun
<1>6. CASE SaveFails \/ Crash
  BY <1>1, <1>6 DEF SaveFails, Crash, Die, KillTracee, tracerVars, MayRun
<1>7. CASE CtrlC \/ CtrlCHandler
  BY <1>1, <1>7 DEF CtrlC, CtrlCHandler, tracerVars, traceeVars, MayRun
<1>8. CASE UNCHANGED vars
  BY <1>1, <1>8 DEF vars, tracerVars, traceeVars, MayRun
<1> QED
  BY <1>2, <1>3, <1>4, <1>5, <1>6, <1>7, <1>8 DEF Next, trace_loop, Terminated

\* The inductive invariant holds throughout every session.
LEMMA AlwaysFaithful == Spec => [](TypeOK /\ Control /\ Faithful)
BY TypeCorrect, InitControl, NextControl, InitFaithful, NextFaithful, PTL DEF Spec

\* Whatever signals, deaths and failures come in between, every instruction
\* the process executed is in the trace.
THEOREM NothingIsMissed == Spec => []NoMissedInstruction
<1>1. Faithful => NoMissedInstruction
  BY DEF Faithful
<1> QED
  BY <1>1, AlwaysFaithful, PTL

\* The steps of the trace are numbered without gaps and in the order in which
\* the program went through them.
THEOREM TraceIsInOrder == Spec => []TraceInOrder
<1>1. TypeOK /\ Faithful => TraceInOrder
  BY TickType DEF Faithful, Ordered, TraceInOrder
<1> QED
  BY <1>1, AlwaysFaithful, PTL

-----------------------------------------------------------------------------
(* The session implements the abstract recorder: the trace is the log of a *)
(* Recorder that lists each state before its instruction is executed.      *)

\* The ticks of a trace read as a sequence.
TicksOf(d, n) == [i \in 1 .. n |-> d[i - 1].tick]

\* Read as a sequence, the ticks of n entries are n numbers.
LEMMA TicksType ==
  ASSUME NEW n \in Nat, NEW d, \A s \in 0 .. n - 1 : d[s].tick \in Nat
  PROVE  /\ TicksOf(d, n) \in Seq(Nat) /\ Len(TicksOf(d, n)) = n
         /\ \A i \in 1 .. n : TicksOf(d, n)[i] = d[i - 1].tick
<1>1. \A i \in 1 .. n : i - 1 \in 0 .. n - 1
  OBVIOUS
<1>2. TicksOf(d, n) \in [1 .. n -> Nat]
  BY <1>1 DEF TicksOf
<1> QED
  BY <1>2 DEF TicksOf

\* One more entry is one more tick.
LEMMA TicksAppend ==
  ASSUME NEW n \in Nat, NEW d, NEW d1,
         \A s \in 0 .. n - 1 : d[s].tick \in Nat /\ d1[s] = d[s], d1[n].tick \in Nat
  PROVE  TicksOf(d1, n + 1) = Append(TicksOf(d, n), d1[n].tick)
<1>1. /\ TicksOf(d, n) \in Seq(Nat) /\ Len(TicksOf(d, n)) = n
      /\ \A i \in 1 .. n : TicksOf(d, n)[i] = d[i - 1].tick
  BY TicksType
<1>2. \A s \in 0 .. (n + 1) - 1 : d1[s].tick \in Nat
  <2> TAKE s \in 0 .. (n + 1) - 1
  <2>1. s \in 0 .. n - 1 \/ s = n
    OBVIOUS
  <2> QED
    BY <2>1
<1>3. /\ TicksOf(d1, n + 1) \in Seq(Nat) /\ Len(TicksOf(d1, n + 1)) = n + 1
      /\ \A i \in 1 .. n + 1 : TicksOf(d1, n + 1)[i] = d1[i - 1].tick
  BY <1>2, TicksType
<1>4. \A i \in 1 .. n : TicksOf(d1, n + 1)[i] = TicksOf(d, n)[i]
  <2> TAKE i \in 1 .. n
  <2>1. i - 1 \in 0 .. n - 1 /\ i \in 1 .. n + 1
    OBVIOUS
  <2> QED
    BY <1>1, <1>3, <2>1
<1>5. TicksOf(d1, n + 1)[n + 1] = d1[n].tick
  BY <1>3
<1> QED
  BY <1>1, <1>3, <1>4, <1>5

\* The trace read as a sequence.
LEMMA LogType ==
  ASSUME TypeOK
  PROVE  /\ Log \in Seq(Nat) /\ Len(Log) = step_count
         /\ \A i \in 1 .. step_count : Log[i] = db[i - 1].tick
BY TickType, TicksType DEF Log, TicksOf

\* The session starts as a recorder with an empty log.
LEMMA InitRefines == Init => Lenient!RecorderInit
<1> SUFFICES ASSUME Init PROVE Lenient!RecorderInit
  OBVIOUS
<1>1. step_count = 0 /\ cpu.tick = 0 /\ executed = {}
  BY DEF Init, TracerInit, TraceeInit, CpuInit
<1>2. TypeOK
  BY InitType DEF TypeInv
<1>3. Log = << >>
  BY <1>1, <1>2, LogType
<1> QED
  BY <1>1, <1>3 DEF Lenient!RecorderInit

\* The abstract variables.
abstract == << Log, cpu.tick, executed >>

\* Recording an entry is a step of the recorder that lists its state.
LEMMA RecordRefines ==
  ASSUME TypeOK, Control, Faithful, Record
  PROVE  Lenient!Record
<1>1. cpu.tick \notin executed
  BY DEF Record, Faithful, Ahead
<1>2. LastIsCurrent'
  BY RecordFaithful
<1>3. step_count' = step_count + 1 /\ UNCHANGED << cpu, executed >>
  BY DEF Record, traceeVars
<1>4. \A s \in 0 .. step_count - 1 : db'[s] = db[s]
  <2>1. PICK e : db' = Insert(db, e) /\ e.step = step_count
    BY DEF Record, NewEntry
  <2> QED
    BY <2>1, TickType, InsertNext
<1>5. Log' = Append(Log, cpu.tick)
  <2>1. step_count \in Nat /\ cpu.tick \in Nat /\ \A s \in 0 .. step_count - 1 : db[s].tick \in Nat
    BY TickType
  <2>2. db'[step_count].tick = cpu.tick
    BY <1>2, <1>3, <2>1 DEF LastIsCurrent
  <2>3. TicksOf(db', step_count + 1) = Append(TicksOf(db, step_count), cpu.tick)
    BY <1>4, <2>1, <2>2, TicksAppend
  <2> QED
    BY <1>3, <2>3 DEF Log, TicksOf
<1> QED
  BY <1>1, <1>3, <1>5 DEF Lenient!Record

\* The state of a process that moves on has been recorded.
LEMMA ArmedIsRecorded ==
  ASSUME TypeOK, Faithful, proc \in {"running", "blocked"}
  PROVE  Lenient!Recorded
<1>1. step_count > 0 /\ db[step_count - 1].tick = cpu.tick
  BY DEF Faithful, Armed, MayRun, LastIsCurrent
<1>2. step_count \in Nat /\ Log \in Seq(Nat) /\ Len(Log) = step_count
      /\ \A i \in 1 .. step_count : Log[i] = db[i - 1].tick
  BY LogType, TickType
<1> QED
  BY <1>1, <1>2 DEF Lenient!Recorded

\* The trace as a sequence depends on the database only.
LEMMA LogUnchanged ==
  ASSUME UNCHANGED << db, step_count >>
  PROVE  UNCHANGED Log
BY DEF Log

\* What the process does is an execution of the last state listed, or none.
LEMMA TraceeRefines ==
  ASSUME TypeOK, Faithful, TraceeNext, UNCHANGED << db, step_count >>
  PROVE  Lenient!RecorderNext \/ UNCHANGED abstract
<1>0. UNCHANGED Log
  BY LogUnchanged
<1>1. CASE TrapAfterStep \/ Wake \/ Exit
  <2>1. Lenient!Execute
    BY <1>0, <1>1, ArmedIsRecorded
       DEF TrapAfterStep, Wake, Exit, Retire, Execute, MoveTo, Lenient!Execute
  <2> QED
    BY <2>1 DEF Lenient!RecorderNext
<1>2. ASSUME NEW s \in Signals, SignalStop(s)
      PROVE  Lenient!RecorderNext \/ UNCHANGED abstract
  <2>1. CASE Retire
    <3>1. Lenient!Execute
      BY <1>0, <1>2, <2>1, ArmedIsRecorded
         DEF SignalStop, Retire, Execute, MoveTo, Lenient!Execute
    <3> QED
      BY <3>1 DEF Lenient!RecorderNext
  <2>2. CASE UNCHANGED << cpu, stackAt, executed, frames, lowest >>
    BY <1>0, <2>2 DEF abstract
  <2> QED
    BY <1>2, <2>1, <2>2 DEF SignalStop
<1>3. CASE DeliverToHandler
  <2>1. Lenient!Divert
    BY <1>0, <1>3, ArmedIsRecorded DEF DeliverToHandler, Deliver, MoveTo, Lenient!Divert
  <2> QED
    BY <2>1 DEF Lenient!RecorderNext
<1>4. CASE Block \/ DeliverIgnored \/ DeliverFatal \/ Kill
  BY <1>0, <1>4 DEF Block, DeliverIgnored, DeliverFatal, Deliver, Kill, abstract
<1>5. ASSUME NEW new \in SUBSET Signals, PostSignals(new) PROVE UNCHANGED abstract
  BY <1>0, <1>5 DEF PostSignals, abstract
<1> QED
  BY <1>1, <1>2, <1>3, <1>4, <1>5 DEF TraceeNext, TraceeProgress

\* Every step of the session is one of the recorder, or none.
LEMMA NextRefines ==
  TypeOK /\ Control /\ Faithful /\ [Next]_vars
    => [Lenient!RecorderNext]_abstract
<1> SUFFICES ASSUME TypeOK, Control, Faithful, [Next]_vars
             PROVE  Lenient!RecorderNext \/ UNCHANGED abstract
  OBVIOUS
<1>1. ASSUME UNCHANGED << db, step_count, cpu, executed >>
      PROVE  UNCHANGED abstract
  BY <1>1, LogUnchanged DEF abstract
<1>2. CASE StepTracer
  <2>1. CASE Record
    BY <2>1, RecordRefines DEF Lenient!RecorderNext
  <2>2. CASE ~Record
    BY <1>1, <1>2, <2>2 DEF StepTracer, single_step, ReadFails, ReadRegisters, DecodeFails, Decode, StepSucceeds,
       StepFails, WaitTrap, WaitSignal, WaitExited, WaitFails, Collect, tracerVars, traceeVars
  <2> QED
    BY <2>1, <2>2
<1>3. CASE TraceeStep
  BY <1>3, TraceeRefines DEF TraceeStep, tracerVars
<1>4. CASE LoopStops \/ LoopSteps \/ HandleOk \/ HandleExited \/ HandleError \/ Save
  BY <1>1, <1>4 DEF LoopStops, LoopSteps, HandleOk, HandleExited, HandleError, Save,
     tracerVars, traceeVars
<1>5. CASE DetachAndReport
  BY <1>1, <1>5 DEF DetachAndReport, Detach, tracerVars
<1>6. CASE SaveFails \/ Crash
  BY <1>1, <1>6 DEF SaveFails, Crash, Die, tracerVars
<1>7. CASE CtrlC \/ CtrlCHandler
  BY <1>1, <1>7 DEF CtrlC, CtrlCHandler, tracerVars, traceeVars
<1>8. CASE UNCHANGED vars
  BY <1>1, <1>8 DEF vars, tracerVars, traceeVars
<1> QED
  BY <1>2, <1>3, <1>4, <1>5, <1>6, <1>7, <1>8 DEF Next, trace_loop, Terminated

\* Every behaviour of a session, with any signals and faults, is one of the
\* recorder that never lets an instruction run before its state is in the log.
THEOREM RecordingRefinesRecorder == Spec => RecordsFaithfully
<1>1. Init => Lenient!RecorderInit
  BY InitRefines
<1>2. TypeOK /\ Control /\ Faithful /\ [Next]_vars => [Lenient!RecorderNext]_abstract
  BY NextRefines
<1> QED
  BY <1>1, <1>2, AlwaysFaithful, PTL
     DEF Spec, RecordsFaithfully, Lenient!RecorderSpec, abstract

-----------------------------------------------------------------------------
(* The end of a session. *)

\* A write that stopped half-way is not mistaken for a trace.
LEMMA TornDoesNotLoad ==
  ASSUME NEW d, IsFiniteSet(DOMAIN d), DOMAIN d \subseteq Nat, NEW f \in TornImages(d)
  PROVE  ~Loads(f)
<1>1. CASE f = NoFile
  BY <1>1 DEF NoFile, Loads
<1>2. ASSUME NEW k \in DOMAIN d,
             f = [count |-> Count(d), entries |-> [s \in {t \in DOMAIN d : t < k} |-> d[s]]]
      PROVE  ~Loads(f)
  <2> DEFINE T == {t \in DOMAIN d : t < k}
  <2>1. T \in SUBSET (DOMAIN d) /\ T # DOMAIN d
    BY <1>2
  <2>2. /\ IsFiniteSet(T) /\ Cardinality(T) <= Cardinality(DOMAIN d)
        /\ Cardinality(DOMAIN d) = Cardinality(T) => DOMAIN d = T
    BY <2>1, FS_Subset
  <2>3. Cardinality(T) \in Nat /\ Cardinality(DOMAIN d) \in Nat
    BY <2>2, FS_CardinalityType
  <2>4. Cardinality(T) < Cardinality(DOMAIN d)
    BY <2>1, <2>2, <2>3
  <2>5. f.count = Cardinality(DOMAIN d) /\ DOMAIN f.entries = T
    BY <1>2 DEF Count
  <2> QED
    BY <2>3, <2>4, <2>5 DEF Loads
<1> QED
  BY <1>1, <1>2 DEF TornImages

\* A complete write loads.
LEMMA WholeLoads ==
  ASSUME NEW d, IsFiniteSet(DOMAIN d)
  PROVE  Loads(Serialize(d)) /\ Serialize(d).entries = d
<1>1. Cardinality(DOMAIN d) \in Nat
  BY FS_CardinalityType
<1> QED
  BY <1>1 DEF Loads, Serialize, Count, Unwritten

\* The output file holds the earlier trace until the session saves, the whole
\* trace afterwards, and a part of it only if tdb died while it wrote.
FileInv ==
  \/ file = OldTrace /\ pc \notin {"detach", "done"}
  \/ file = Serialize(db) /\ pc \in {"detach", "done", "crashed"}
  \/ file \in TornImages(db) /\ pc = "crashed"

\* While the flag is down, single_step is entered no more; if it was about to
\* read the process when the flag went down, it still records that step.
StopInv ==
  ~running => step_count <= stopAt + (IF pc \in {"read", "decode", "record"} THEN 0 ELSE 1)

EndInv == FileInv /\ StopInv

\* At first nothing has been written and no stop was asked for.
LEMMA InitEnd == Init => EndInv
BY DEF Init, SessionInit, LoopInit, EndInv, FileInv, StopInv

\* Every step keeps what the file holds in line with how the session ended.
LEMMA NextEnd == TypeOK /\ EndInv /\ [Next]_vars => EndInv'
<1> SUFFICES ASSUME TypeOK, EndInv, [Next]_vars
             PROVE  EndInv'
  OBVIOUS
<1>0. step_count \in Nat /\ stopAt \in Nat /\ pc \in ControlPoints
  BY DEF TypeOK, TracerTypeOK, SessionTypeOK
<1>1. CASE StepTracer
  <2>1. UNCHANGED sessionVars /\ pc \in {"read", "decode", "record", "step", "wait"}
        /\ pc' \in {"decode", "record", "step", "wait", "ok", "exited", "error"}
    BY <1>1 DEF StepTracer, single_step, ReadFails, ReadRegisters, DecodeFails, Decode, Record, StepSucceeds, StepFails,
       WaitTrap, WaitSignal, WaitExited, WaitFails
  <2>2. FileInv'
    BY <2>1 DEF EndInv, FileInv, sessionVars
  <2>3. CASE Record
    <3>1. step_count' = step_count + 1 /\ pc = "record" /\ pc' = "step"
      BY <2>3 DEF Record
    <3> QED
      BY <1>0, <2>1, <2>2, <3>1 DEF EndInv, StopInv, sessionVars
  <2>4. CASE ~Record
    <3>1. /\ step_count' = step_count
          /\ pc' \in {"read", "decode", "record"} => pc \in {"read", "decode", "record"}
      BY <1>1, <2>4 DEF StepTracer, single_step, ReadFails, ReadRegisters, DecodeFails, Decode, StepSucceeds, StepFails,
         WaitTrap, WaitSignal, WaitExited, WaitFails, tracerVars
    <3> QED
      BY <1>0, <2>1, <2>2, <3>1 DEF EndInv, StopInv, sessionVars
  <2> QED
    BY <2>3, <2>4
<1>2. CASE TraceeStep
  BY <1>2 DEF TraceeStep, tracerVars, sessionVars, EndInv, FileInv, StopInv
<1>3. CASE LoopStops \/ LoopSteps \/ HandleOk \/ HandleExited \/ HandleError
  BY <1>0, <1>3 DEF LoopStops, LoopSteps, HandleOk, HandleExited, HandleError,
     loopVars, sessionVars, tracerVars, EndInv, FileInv, StopInv
<1>4. CASE Save
  BY <1>0, <1>4 DEF Save, tracerVars, EndInv, FileInv, StopInv
<1>5. CASE DetachAndReport
  BY <1>0, <1>5 DEF DetachAndReport, Detach, sessionVars, tracerVars, EndInv, FileInv, StopInv
<1>6. CASE SaveFails \/ Crash
  <2>1. /\ pc' = "crashed" /\ UNCHANGED << tracerVars, running, stopAt >>
        /\ ~Finished /\ (file' = file \/ file' \in TornImages(db))
    BY <1>6 DEF SaveFails, Crash, Die, Finished
  <2> QED
    BY <1>0, <2>1 DEF tracerVars, Finished, EndInv, FileInv, StopInv
<1>7. CASE CtrlC
  BY <1>7 DEF CtrlC, tracerVars, EndInv, FileInv, StopInv
<1>8. CASE CtrlCHandler
  BY <1>0, <1>8 DEF CtrlCHandler, tracerVars, EndInv, FileInv, StopInv
<1>9. CASE UNCHANGED vars
  BY <1>9 DEF vars, tracerVars, sessionVars, EndInv, FileInv, StopInv
<1> QED
  BY <1>1, <1>2, <1>3, <1>4, <1>5, <1>6, <1>7, <1>8, <1>9 DEF Next, trace_loop, Terminated

\* The invariants of the end hold throughout every session.
LEMMA AlwaysEnd == Spec => [](TypeOK /\ Faithful /\ EndInv)
BY AlwaysFaithful, InitEnd, NextEnd, PTL DEF Spec

\* The trace in memory is finite.
LEMMA FiniteTrace == TypeOK => IsFiniteSet(DOMAIN db) /\ DOMAIN db \subseteq Nat
BY TickType, FS_Interval

\* A file written after the loop is the whole trace.
LEMMA DoneIsWhole == TypeOK /\ Faithful /\ EndInv => SavedTraceComplete
<1> SUFFICES ASSUME TypeOK, Faithful, EndInv, pc = "done"
             PROVE  SavedTraceComplete
  BY DEF SavedTraceComplete
<1>1. file = Serialize(db)
  BY DEF EndInv, FileInv
<1>2. Loads(file) /\ file.entries = db
  BY <1>1, FiniteTrace, WholeLoads
<1> QED
  BY <1>2 DEF SavedTraceComplete, Faithful, NoMissedInstruction, Recorded

\* However the loop ended, the file of a session that is done loads as the whole
\* trace, and every executed instruction is in it.
THEOREM SavedTraceIsComplete == Spec => []SavedTraceComplete
BY DoneIsWhole, AlwaysEnd, PTL

\* A file that loads is the old one or the whole trace, for a torn one does not.
LEMMA LoadedIsWhole == TypeOK /\ EndInv => ReloadIsWhole
BY FiniteTrace, TornDoesNotLoad DEF EndInv, FileInv, ReloadIsWhole

\* A file that loads after a crash or a failed write is not a part of a trace.
THEOREM ReloadIsAllOrNothing == Spec => []ReloadIsWhole
BY LoadedIsWhole, AlwaysEnd, PTL

\* After the handler of Ctrl+C has run, at most one more step is recorded.
THEOREM StopIsPrompt == Spec => []StopsWithinOneStep
<1>1. TypeOK /\ EndInv => StopsWithinOneStep
  BY DEF TypeOK, TracerTypeOK, SessionTypeOK, EndInv, StopInv, StopsWithinOneStep
<1> QED
  BY <1>1, AlwaysEnd, PTL

=============================================================================
