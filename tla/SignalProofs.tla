---------------------------- MODULE SignalProofs ----------------------------
(***************************************************************************)
(* Proof that signals are neither lost nor delivered twice while the       *)
(* process is traced, provided PT_STEP does not fail for a stopped         *)
(* process.  (With such failures the property is false: see the run        *)
(* signal_dropped.)                                                        *)
(***************************************************************************)
EXTENDS RecordingProofs

Alive == proc \notin {"dead", "free"}

\* Where a signal may be: pending_signal is empty during waitpid, a signal on
\* its way back belongs to a running process, and a signal that has been
\* reported is not sent again.
SignalPlaces ==
  Alive =>
    /\ carried # NoSignal => proc = "running"
    /\ status.sig # NoSignal => pc = "wait" /\ proc = "stopped"
    /\ pending_signal # NoSignal => pc # "wait"
    /\ posted \cap reported = {}
    /\ ctrlc = "idle" => Interrupt \notin posted \cup reported

SignalInv == SignalConservation /\ SignalPlaces

\* There is no signal at first.
LEMMA InitSignals == Init => SignalInv
BY DEF Init, TraceeInit, CpuInit, TracerInit, SessionInit, LoopInit, SignalInv, SignalConservation, SignalPlaces,
       InFlight, NoStatus, One, Alive

\* A step that touches none of the places of a signal.
LEMMA SignalsUntouched ==
  ASSUME SignalInv, Alive' => Alive,
         UNCHANGED << status, pending_signal, carried, reported, delivered, posted, ctrlc >>,
         Alive' => (pc' = "wait" <=> pc = "wait") /\ UNCHANGED proc
  PROVE  SignalInv'
BY DEF SignalInv, SignalConservation, SignalPlaces, InFlight, Alive

\* Every step keeps each signal in its one place.
LEMMA NextSignals ==
  ASSUME "stepfail" \notin Env
  PROVE  TypeOK /\ Control /\ SignalInv /\ [Next]_vars => SignalInv'
<1> SUFFICES ASSUME TypeOK, Control, SignalInv, [Next]_vars
             PROVE  SignalInv'
  OBVIOUS
<1>0. /\ status \in {NoStatus, Trap, Exited} \cup {SignalStatus(s) : s \in Signals}
      /\ carried \in Signals \cup {NoSignal} /\ pending_signal \in Signals \cup {NoSignal}
      /\ proc \in {"stopped", "running", "blocked", "dead", "free"}
      /\ NoSignal \notin Signals /\ Interrupt \in Signals
  BY TraceeAssumption DEF TypeOK, TraceeTypeOK, TracerTypeOK
<1> SUFFICES ASSUME Alive' PROVE SignalInv'
  BY DEF SignalInv, SignalConservation, SignalPlaces, Alive
<1>1. CASE StepTracer
  <2>1. CASE ReadFails \/ ReadRegisters \/ DecodeFails \/ Decode \/ Record
    BY <1>1, <2>1, SignalsUntouched
       DEF StepTracer, ReadFails, ReadRegisters, DecodeFails, Decode, Record, tracerVars, traceeVars, sessionVars, Alive
  <2>2. CASE StepSucceeds
    <3>1. /\ status' = status /\ carried' = pending_signal /\ pending_signal' = NoSignal
          /\ proc = "stopped" /\ proc' = "running" /\ pc = "step" /\ pc' = "wait"
          /\ UNCHANGED << reported, delivered, posted, ctrlc >>
      BY <1>1, <2>2 DEF StepTracer, StepSucceeds, CanStep, PtraceStep, TakeSignal, sessionVars
    <3>2. carried = NoSignal /\ status.sig = NoSignal
      BY <3>1 DEF SignalInv, SignalPlaces, Alive
    <3> QED
      BY <3>1, <3>2 DEF SignalInv, SignalConservation, SignalPlaces, InFlight, Alive, One
  <2>3. CASE StepFails
    <3>1. proc = "dead" /\ proc' = proc
      BY <2>3, <1>0 DEF StepFails, CanStep, traceeVars, Control
    <3> QED
      BY <3>1 DEF Alive
  <2>4. CASE WaitTrap
    <3>1. status.sig = NoSignal /\ status'.sig = NoSignal
      BY <2>4 DEF WaitTrap, Collect, Trap, NoStatus
    <3> QED
      BY <1>1, <2>4, <3>1
         DEF WaitTrap, Collect, StepTracer, sessionVars, tracerVars,
             SignalInv, SignalConservation, SignalPlaces, InFlight, Alive
  <2>5. CASE WaitSignal
    <3>1. /\ status'.sig = NoSignal /\ pending_signal' = status.sig /\ status.sig \in Signals
          /\ pc = "wait" /\ pc' = "ok"
          /\ UNCHANGED << proc, carried, reported, delivered, posted, ctrlc >>
      BY <1>0, <1>1, <2>5 DEF WaitSignal, KeepSignal, Collect, StepTracer, sessionVars,
         NoStatus, Trap, Exited, SignalStatus
    <3>2. pending_signal = NoSignal /\ carried = NoSignal
      BY <1>0, <3>1 DEF SignalInv, SignalPlaces, Alive
    <3> QED
      BY <1>0, <3>1, <3>2 DEF SignalInv, SignalConservation, SignalPlaces, InFlight, Alive, One
  <2>6. CASE WaitExited \/ WaitFails
    <3>1. proc = "dead" /\ proc' = proc
      BY <2>6 DEF WaitExited, WaitFails, Collect, traceeVars, Control
    <3> QED
      BY <3>1 DEF Alive
  <2> QED
    BY <1>1, <2>1, <2>2, <2>3, <2>4, <2>5, <2>6 DEF StepTracer, single_step
<1>2. CASE TraceeStep
  <2>0. UNCHANGED << pc, pending_signal, ctrlc >>
    BY <1>2 DEF TraceeStep, tracerVars, sessionVars
  <2>1. proc \in {"running", "blocked"} =>
          pc = "wait" /\ status.sig = NoSignal /\ pending_signal = NoSignal
    BY DEF Control, NoStatus, SignalInv, SignalPlaces, Alive
  <2>2. CASE TrapAfterStep \/ Wake \/ Block
    BY <2>0, <2>1, <2>2 DEF TrapAfterStep, Wake, Block, Stop, Trap,
       SignalInv, SignalConservation, SignalPlaces, InFlight, Alive
  <2>3. CASE Exit \/ DeliverFatal \/ Kill
    BY <2>3 DEF Exit, DeliverFatal, Kill, Alive
  <2>4. ASSUME NEW s \in Signals, SignalStop(s) PROVE SignalInv'
    <3>1. /\ status'.sig = s /\ carried = NoSignal /\ carried' = NoSignal /\ proc' = "stopped"
          /\ reported' = reported \cup {s} /\ posted' = posted \ {s} /\ s \in posted
          /\ delivered' = delivered
          /\ proc \in {"running", "blocked"}
      BY <2>4 DEF SignalStop, Stop, SignalStatus
    <3>2. reported = delivered /\ s \notin delivered
      BY <2>1, <3>1 DEF SignalInv, SignalConservation, SignalPlaces, InFlight, Alive
    <3>3. InFlight' = {s}
      BY <1>0, <2>0, <2>1, <3>1 DEF InFlight
    <3>4. SignalConservation'
      BY <1>0, <2>0, <2>1, <3>1, <3>2, <3>3 DEF SignalConservation, One
    <3>5. SignalPlaces'
      BY <2>0, <2>1, <3>1 DEF SignalInv, SignalPlaces, Alive
    <3> QED
      BY <3>4, <3>5 DEF SignalInv
  <2>5. CASE DeliverIgnored \/ DeliverToHandler
    <3>1. /\ status'.sig = NoSignal /\ status.sig = NoSignal /\ carried \in Signals
          /\ carried' = NoSignal /\ delivered' = delivered \cup {carried}
          /\ proc = "running" /\ UNCHANGED << reported, posted >>
      BY <1>0, <2>1, <2>5 DEF DeliverIgnored, DeliverToHandler, Deliver, Stop, Trap
    <3>2. InFlight = {carried} /\ InFlight' = {}
      BY <1>0, <2>0, <2>1, <3>1 DEF InFlight
    <3>3. SignalConservation'
      BY <2>0, <2>1, <3>1, <3>2 DEF SignalInv, SignalConservation, One, Alive
    <3>4. SignalPlaces'
      BY <2>0, <2>1, <3>1 DEF SignalInv, SignalPlaces, Alive
    <3> QED
      BY <3>3, <3>4 DEF SignalInv
  <2>6. ASSUME NEW new \in SUBSET Signals, PostSignals(new) PROVE SignalInv'
    BY <2>0, <2>6 DEF PostSignals, SignalInv, SignalConservation, SignalPlaces, InFlight, Alive
  <2> QED
    BY <1>2, <2>2, <2>3, <2>4, <2>5, <2>6 DEF TraceeStep, TraceeNext, TraceeProgress
<1>3. CASE LoopStops \/ LoopSteps \/ HandleOk \/ HandleExited \/ HandleError \/ Save
  BY <1>3, SignalsUntouched DEF LoopStops, LoopSteps, HandleOk, HandleExited, HandleError, Save,
     loopVars, tracerVars, traceeVars, sessionVars, Alive
<1>4. CASE DetachAndReport
  BY <1>4 DEF DetachAndReport, Detach, PtraceDetach, Alive
<1>5. CASE SaveFails \/ Crash
  BY <1>5 DEF SaveFails, Crash, Die, KillTracee, Alive
<1>6. CASE CtrlC
  BY <1>6 DEF CtrlC, tracerVars, SignalInv, SignalConservation, SignalPlaces, InFlight, Alive
<1>7. CASE CtrlCHandler
  BY <1>7 DEF CtrlCHandler, tracerVars, traceeVars,
     SignalInv, SignalConservation, SignalPlaces, InFlight, Alive
<1>8. CASE UNCHANGED vars
  BY <1>8, SignalsUntouched DEF vars, tracerVars, traceeVars, sessionVars, Alive
<1> QED
  BY <1>1, <1>2, <1>3, <1>4, <1>5, <1>6, <1>7, <1>8 DEF Next, trace_loop, Terminated

\* If PT_STEP does not fail for a stopped process, every signal the process
\* stopped for is, as long as it is traced, in exactly one of: its wait status,
\* pending_signal, on its way back, or delivered.
THEOREM SignalsAreConserved ==
  ASSUME "stepfail" \notin Env
  PROVE  Spec => []SignalConservation
<1>1. SignalInv => SignalConservation
  BY DEF SignalInv
<1>2. TypeOK /\ Control /\ SignalInv /\ [Next]_vars => SignalInv'
  BY NextSignals
<1> QED
  BY <1>1, <1>2, InitSignals, AlwaysFaithful, PTL DEF Spec

-----------------------------------------------------------------------------
(* Repeated entries. *)

\* The state the process is in has been recorded, and will be again when tdb
\* gets to Record: it stopped before it executed its instruction.
Owed ==
  /\ LastIsCurrent
  /\ \/ /\ pc \in {"loop", "read", "decode", "record", "ok", "error"}
        /\ proc # "dead" \/ pc = "record"
     \/ pc = "wait" /\ status.kind \in {"trap", "signal"}

RepeatInv ==
  /\ IsFiniteSet(reported)
  /\ cpu.tick \in Recorded => LastIsCurrent
  /\ step_count + One(Owed) <= Cardinality(Recorded) + Cardinality(reported)

\* No state has been recorded, and none twice.
LEMMA InitRepeat == Init => RepeatInv
<1> SUFFICES ASSUME Init PROVE RepeatInv
  OBVIOUS
<1>1. DOMAIN db = {} /\ step_count = 0 /\ reported = {}
  BY DEF Init, TraceeInit, CpuInit, TracerInit, EmptyDb
<1>2. Recorded = {} /\ ~LastIsCurrent
  BY <1>1 DEF Recorded, LastIsCurrent
<1> QED
  BY <1>1, <1>2, FS_EmptySet DEF RepeatInv, Owed, One

\* The ticks recorded are finitely many.
LEMMA RecordedType ==
  ASSUME TypeOK, Ordered
  PROVE  /\ IsFiniteSet(Recorded) /\ Cardinality(Recorded) \in Nat
         /\ Recorded \subseteq 0 .. cpu.tick
<1>1. cpu.tick \in Nat /\ \A s \in DOMAIN db : db[s].tick \in Nat
  BY TickType
<1>2. Recorded \subseteq 0 .. cpu.tick
  BY <1>1 DEF Ordered, Recorded
<1>3. IsFiniteSet(0 .. cpu.tick)
  BY <1>1, FS_Interval
<1> QED
  BY <1>2, <1>3, FS_Subset, FS_CardinalityType

\* Recording a state a second time pays what was owed; a new one counts itself.
LEMMA RecordRepeat ==
  ASSUME TypeOK, Control, Faithful, RepeatInv, Record
  PROVE  RepeatInv'
<1>1. PICK e : db' = Insert(db, e) /\ e.step = step_count /\ e.tick = cpu.tick
  BY DEF Record, NewEntry
<1>2. /\ step_count' = step_count + 1 /\ step_count \in Nat
      /\ UNCHANGED << cpu, proc, reported >> /\ pc = "record" /\ pc' = "step"
      /\ DOMAIN db = 0 .. step_count - 1
  BY TickType DEF Record, traceeVars
<1>3. /\ DOMAIN db' = 0 .. step_count /\ db'[step_count] = e
      /\ \A s \in 0 .. step_count - 1 : db'[s] = db[s]
  BY <1>1, <1>2, InsertNext
<1>4. LastIsCurrent'
  BY <1>1, <1>2, <1>3 DEF LastIsCurrent
<1>5. Recorded' = Recorded \cup {cpu.tick}
  <2>1. DOMAIN db' = DOMAIN db \cup {step_count}
    BY <1>2, <1>3
  <2>2. \A s \in DOMAIN db : db'[s] = db[s]
    BY <1>2, <1>3
  <2>3. db'[step_count].tick = cpu.tick
    BY <1>1, <1>3
  <2>4. \A t : t \in Recorded' <=> t \in Recorded \cup {cpu.tick}
    BY <2>1, <2>2, <2>3 DEF Recorded
  <2> QED
    BY <2>4
<1>6. ~Owed'
  BY <1>2 DEF Owed
<1>7. /\ IsFiniteSet(Recorded) /\ Cardinality(Recorded) \in Nat
      /\ Cardinality(reported) \in Nat
  BY RecordedType, FS_CardinalityType DEF Faithful, RepeatInv
<1>8. CASE cpu.tick \in Recorded
  <2>1. Owed /\ Recorded' = Recorded
    BY <1>2, <1>5, <1>8 DEF RepeatInv, Owed
  <2> QED
    BY <1>2, <1>4, <1>6, <1>7, <2>1 DEF RepeatInv, One
<1>9. CASE cpu.tick \notin Recorded
  <2>1. Cardinality(Recorded') = Cardinality(Recorded) + 1
    BY <1>5, <1>7, <1>9, FS_AddElement
  <2>2. One(Owed) \in {0, 1}
    BY DEF One
  <2> QED
    BY <1>2, <1>4, <1>6, <1>7, <2>1, <2>2 DEF RepeatInv, One
<1> QED
  BY <1>8, <1>9

\* Moving on to a new state leaves nothing owed.
LEMMA MoveRepeat ==
  ASSUME TypeOK, Faithful, RepeatInv, UNCHANGED << db, step_count >>,
         cpu'.tick = cpu.tick + 1,
         \/ UNCHANGED reported
         \/ \E s : s \notin reported /\ reported' = reported \cup {s}
  PROVE  RepeatInv'
<1>1. cpu.tick \in Nat /\ step_count \in Nat /\ DOMAIN db = 0 .. step_count - 1
      /\ Recorded \subseteq 0 .. cpu.tick /\ Cardinality(Recorded) \in Nat
  BY TickType, RecordedType DEF Faithful
<1>2. Recorded' = Recorded
  BY DEF Recorded
<1>3. cpu'.tick \notin Recorded'
  BY <1>1, <1>2
<1>4. ~LastIsCurrent'
  BY <1>1, <1>3 DEF LastIsCurrent, Recorded
<1>5. IsFiniteSet(reported') /\ Cardinality(reported') >= Cardinality(reported)
      /\ Cardinality(reported) \in Nat /\ Cardinality(reported') \in Nat
  <2>1. IsFiniteSet(reported) /\ Cardinality(reported) \in Nat
    BY FS_CardinalityType DEF RepeatInv
  <2>2. CASE UNCHANGED reported
    BY <2>1, <2>2
  <2>3. ASSUME NEW s, s \notin reported, reported' = reported \cup {s}
        PROVE  IsFiniteSet(reported') /\ Cardinality(reported') = Cardinality(reported) + 1
    BY <2>1, <2>3, FS_AddElement
  <2> QED
    BY <2>1, <2>2, <2>3
<1>6. One(Owed) \in {0, 1}
  BY DEF One
<1> QED
  BY <1>1, <1>2, <1>3, <1>4, <1>5, <1>6 DEF RepeatInv, Owed, One

\* A state is recorded again only when a signal came before its instruction.
LEMMA NextRepeat ==
  ASSUME "stepfail" \notin Env
  PROVE  TypeOK /\ Control /\ Faithful /\ SignalInv /\ RepeatInv /\ [Next]_vars => RepeatInv'
<1> SUFFICES ASSUME TypeOK, Control, Faithful, SignalInv, RepeatInv, [Next]_vars
             PROVE  RepeatInv'
  OBVIOUS
<1> USE DEF NoStatus, Trap, Exited, SignalStatus
<1>0. /\ proc \in {"stopped", "running", "blocked", "dead", "free"} /\ pc \in ControlPoints
      /\ step_count \in Nat /\ Cardinality(Recorded) \in Nat /\ Cardinality(reported) \in Nat
  BY RecordedType, FS_CardinalityType DEF TypeOK, TraceeTypeOK, TracerTypeOK, Faithful, RepeatInv
<1>1. ASSUME UNCHANGED << db, step_count, cpu, reported >>, Owed' => Owed
      PROVE  RepeatInv'
  <2>1. UNCHANGED << Recorded, LastIsCurrent >>
    BY <1>1 DEF Recorded, LastIsCurrent
  <2> QED
    BY <1>0, <1>1, <2>1 DEF RepeatInv, One
<1>2. CASE StepTracer
  <2>1. CASE Record
    BY <2>1, RecordRepeat
  <2>2. CASE ReadFails \/ ReadRegisters \/ DecodeFails \/ Decode
    BY <1>1, <2>2 DEF ReadFails, ReadRegisters, DecodeFails, Decode, ThreadsFound,
       tracerVars, traceeVars, Owed, LastIsCurrent
  <2>3. CASE StepSucceeds
    BY <1>1, <2>3 DEF StepSucceeds, CanStep, Control, Owed
  <2>4. CASE StepFails
    <3>1. proc' = "dead" /\ pc' = "error"
      BY <1>0, <2>4 DEF StepFails, CanStep, Control, traceeVars
    <3> QED
      BY <1>1, <2>4, <3>1 DEF StepFails, traceeVars, Owed
  <2>5. CASE WaitTrap \/ WaitSignal
    BY <1>1, <2>5 DEF WaitTrap, WaitSignal, Collect, tracerVars, Owed, LastIsCurrent
  <2>6. CASE WaitExited \/ WaitFails
    <3>1. proc' = "dead" /\ pc' \in {"exited", "error"}
      BY <2>6 DEF WaitExited, WaitFails, Collect, Control, traceeVars
    <3> QED
      BY <1>1, <2>6, <3>1 DEF WaitExited, WaitFails, Collect, tracerVars, traceeVars, Owed
  <2> QED
    BY <1>2, <2>1, <2>2, <2>3, <2>4, <2>5, <2>6 DEF StepTracer, single_step
<1>3. CASE TraceeStep
  <2>0. UNCHANGED << pc, db, step_count >>
    BY <1>3 DEF TraceeStep, tracerVars
  <2>1. proc \in {"running", "blocked"} => pc = "wait" /\ status = NoStatus
    BY DEF Control
  <2>2. CASE TrapAfterStep \/ Wake
    BY <2>0, <2>2, MoveRepeat DEF TrapAfterStep, Wake, Retire, MoveTo
  <2>3. ASSUME NEW s \in Signals, SignalStop(s) PROVE RepeatInv'
    <3>1. reported' = reported \cup {s} /\ s \notin reported
          /\ pc = "wait" /\ status = NoStatus
      BY <2>1, <2>3 DEF SignalStop, SignalInv, SignalPlaces, Alive
    <3>2. CASE Retire
      BY <2>0, <3>1, <3>2, MoveRepeat DEF Retire, MoveTo
    <3>3. CASE UNCHANGED << cpu, stackAt, executed, frames, lowest >>
      <4>1. ~Owed /\ UNCHANGED << Recorded, LastIsCurrent >>
        BY <2>0, <3>1, <3>3 DEF Owed, Recorded, LastIsCurrent
      <4>2. IsFiniteSet(reported') /\ Cardinality(reported') = Cardinality(reported) + 1
        BY <3>1, FS_AddElement DEF RepeatInv
      <4>3. One(Owed') \in {0, 1}
        BY DEF One
      <4> QED
        BY <1>0, <2>0, <3>3, <4>1, <4>2, <4>3 DEF RepeatInv, One
    <3> QED
      BY <2>3, <3>2, <3>3 DEF SignalStop
  <2>4. CASE DeliverToHandler
    BY <2>0, <2>4, MoveRepeat DEF DeliverToHandler, Deliver, MoveTo
  <2>5. CASE Exit \/ DeliverFatal \/ Kill
    <3>1. UNCHANGED << cpu, reported >> /\ proc' = "dead" /\ status'.kind \in {"none", "exited"}
      BY <2>5 DEF Exit, DeliverFatal, Deliver, Kill
    <3> QED
      BY <1>1, <2>0, <2>5, <3>1 DEF Owed, LastIsCurrent, Exit, DeliverFatal, Deliver, Kill
  <2>6. CASE Block \/ DeliverIgnored
    BY <1>1, <2>0, <2>6 DEF Block, DeliverIgnored, Deliver, Control, Owed, LastIsCurrent
  <2>7. ASSUME NEW new \in SUBSET Signals, PostSignals(new) PROVE RepeatInv'
    BY <1>1, <2>0, <2>7 DEF PostSignals, Owed, LastIsCurrent
  <2> QED
    BY <1>3, <2>2, <2>3, <2>4, <2>5, <2>6, <2>7 DEF TraceeStep, TraceeNext, TraceeProgress
<1>4. CASE LoopStops \/ LoopSteps \/ HandleOk \/ HandleExited \/ HandleError \/ Save
  BY <1>1, <1>4 DEF LoopStops, LoopSteps, HandleOk, HandleExited, HandleError, Save,
     tracerVars, traceeVars, Owed, LastIsCurrent
<1>5. CASE DetachAndReport
  BY <1>1, <1>5 DEF DetachAndReport, Detach, tracerVars, Owed
<1>6. CASE SaveFails \/ Crash
  BY <1>1, <1>6 DEF SaveFails, Crash, Die, tracerVars, Owed
<1>7. CASE CtrlC \/ CtrlCHandler
  BY <1>1, <1>7 DEF CtrlC, CtrlCHandler, tracerVars, traceeVars, Owed, LastIsCurrent
<1>8. CASE UNCHANGED vars
  BY <1>1, <1>8 DEF vars, tracerVars, traceeVars, Owed, LastIsCurrent
<1> QED
  BY <1>2, <1>3, <1>4, <1>5, <1>6, <1>7, <1>8 DEF Next, trace_loop, Terminated

\* What is owed counts for what has been recorded.
LEMMA RepeatsBounded == TypeOK /\ Faithful /\ RepeatInv => RepeatsOnlyForSignals
<1> SUFFICES ASSUME TypeOK, Faithful, RepeatInv PROVE RepeatsOnlyForSignals
  OBVIOUS
<1>1. step_count \in Nat /\ Cardinality(Recorded) \in Nat /\ Cardinality(reported) \in Nat
      /\ One(Owed) \in {0, 1}
  BY RecordedType, TickType, FS_CardinalityType DEF Faithful, RepeatInv, One
<1> QED
  BY <1>1 DEF RepeatInv, RepeatsOnlyForSignals

\* If PT_STEP does not fail for a stopped process, a state of the program is in
\* the trace once, and once more for every signal it stopped for at that state.
THEOREM RepeatsAreSignals ==
  ASSUME "stepfail" \notin Env
  PROVE  Spec => []RepeatsOnlyForSignals
<1>1. TypeOK /\ Control /\ SignalInv /\ [Next]_vars => SignalInv'
  BY NextSignals
<1>2. TypeOK /\ Control /\ Faithful /\ SignalInv /\ RepeatInv /\ [Next]_vars => RepeatInv'
  BY NextRepeat
<1> QED
  BY <1>1, <1>2, RepeatsBounded, InitSignals, InitRepeat, AlwaysFaithful, PTL DEF Spec

=============================================================================
