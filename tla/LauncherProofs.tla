--------------------------- MODULE LauncherProofs ---------------------------
(***************************************************************************)
(* Proofs about the launch: it implements the session of TraceSession, the *)
(* program tdb starts never runs untraced, and what is proved of a session *)
(* that begins at the loop holds of the commands run and trace.            *)
(*                                                                         *)
(* Until the launcher returns, the session sees none of what happens; from *)
(* the loop on, it sees the variables as they are, and each of its actions *)
(* is the action of the same name under the substitution.                  *)
(***************************************************************************)
EXTENDS Launcher, SignalProofs

-----------------------------------------------------------------------------
(* Steps of the traced process. *)

\* The process is as the session sees it.
SameProcess ==
  /\ sessionProc = proc /\ sessionStatus = status
  /\ sessionPosted = posted /\ sessionReported = reported

\* An instruction retires for the session as it does for the process.
LEMMA SameRetire ==
  ASSUME Retire PROVE Session!Retire
<1>1. Session!Execute
  BY DEF Retire, Execute, Session!Execute
<1>2. \A i, m : Session!StacksAfter(i, m) = StacksAfter(i, m)
  BY DEF StacksAfter, Session!StacksAfter, Written, Session!Written
<1>3. \A i, p, m : MoveTo(i, p, m) => Session!MoveTo(i, p, m)
  BY DEF MoveTo, Session!MoveTo
<1> QED
  BY <1>1, <1>2, <1>3 DEF Retire, Session!Retire

\* The process stops after one instruction.
LEMMA SameTrapAfterStep ==
  ASSUME SameProcess, SameProcess', TrapAfterStep PROVE Session!TrapAfterStep
BY SameRetire DEF SameProcess, TrapAfterStep, Session!TrapAfterStep,
                  Stop, Session!Stop, Trap, Session!Trap

\* The process wakes up.
LEMMA SameWake ==
  ASSUME SameProcess, SameProcess', Wake PROVE Session!Wake
BY SameRetire DEF SameProcess, Wake, Session!Wake, Stop, Session!Stop, Trap, Session!Trap

\* The instruction is a system call that blocks.
LEMMA SameBlock ==
  ASSUME SameProcess, SameProcess', Block PROVE Session!Block
BY DEF SameProcess, Block, Session!Block

\* The process ends by itself.
LEMMA SameExit ==
  ASSUME SameProcess, SameProcess', Exit PROVE Session!Exit
BY DEF SameProcess, Exit, Session!Exit, Execute, Session!Execute,
       Exited, Session!Exited, NoStatus, Session!NoStatus

\* A signal stops the process.
LEMMA SameSignalStop ==
  ASSUME SameProcess, SameProcess', NEW s, SignalStop(s) PROVE Session!SignalStop(s)
BY SameRetire DEF SameProcess, SignalStop, Session!SignalStop, Stop, Session!Stop,
                  SignalStatus, Session!SignalStatus

\* The signal passed to PT_STEP arrives.
LEMMA SameDelivery ==
  ASSUME SameProcess, SameProcess', DeliverIgnored \/ DeliverToHandler \/ DeliverFatal
  PROVE  Session!DeliverIgnored \/ Session!DeliverToHandler \/ Session!DeliverFatal
<1>1. CASE DeliverIgnored
  BY <1>1 DEF SameProcess, DeliverIgnored, Session!DeliverIgnored, Deliver, Session!Deliver
<1>2. CASE DeliverToHandler
  BY <1>2 DEF SameProcess, DeliverToHandler, Session!DeliverToHandler, Deliver, Session!Deliver,
              MoveTo, Session!MoveTo, Written, Session!Written, Stop, Session!Stop, Trap, Session!Trap
<1>3. CASE DeliverFatal
  BY <1>3 DEF SameProcess, DeliverFatal, Session!DeliverFatal, Deliver, Session!Deliver,
              Exited, Session!Exited
<1> QED
  BY <1>1, <1>2, <1>3

\* SIGKILL ends the process.
LEMMA SameKill ==
  ASSUME SameProcess, SameProcess', Kill PROVE Session!Kill
BY DEF SameProcess, Kill, Session!Kill, Exited, Session!Exited

\* Signals are sent to the process.
LEMMA SamePostSignals ==
  ASSUME SameProcess, SameProcess', NEW new, PostSignals(new) PROVE Session!PostSignals(new)
BY DEF SameProcess, PostSignals, Session!PostSignals

\* Each step of the process is one of the process of the session.
LEMMA SameTraceeNext ==
  ASSUME SameProcess, SameProcess', TraceeNext PROVE Session!TraceeNext
<1>1. TraceeProgress => Session!TraceeProgress
  BY SameTrapAfterStep, SameBlock, SameExit, SameSignalStop, SameDelivery
     DEF TraceeProgress, Session!TraceeProgress
<1> QED
  BY <1>1, SameWake, SameKill, SamePostSignals DEF TraceeNext, Session!TraceeNext

-----------------------------------------------------------------------------
(* Steps of tdb in the loop. *)

\* The session sees everything as it is.
Same == sessionPc = pc /\ SameProcess

\* single_step up to the decoded instruction.
LEMMA SameRead ==
  ASSUME Same, Same', ReadFails \/ ReadRegisters \/ DecodeFails \/ Decode
  PROVE  Session!ReadFails \/ Session!ReadRegisters \/ Session!DecodeFails \/ Session!Decode
BY DEF Same, SameProcess, ReadFails, ReadRegisters, DecodeFails, Decode,
       Session!ReadFails, Session!ReadRegisters, Session!DecodeFails, Session!Decode,
       ThreadsFound, Session!ThreadsFound, LastSp, Session!LastSp,
       tracerVars, Session!tracerVars, traceeVars, Session!traceeVars

\* single_step: depth, memory changes and insert.
LEMMA SameRecord ==
  ASSUME Same, Same', Record PROVE Session!Record
BY DEF Same, SameProcess, Record, Session!Record, NeedsCheck, Session!NeedsCheck,
       Readable, Session!Readable, Mapped, Session!Mapped, StackBase, Session!StackBase,
       Window, Session!Window, Insert, Session!Insert, NewEntry, Session!NewEntry,
       NextDepth, Session!NextDepth, MemChanges, Session!MemChanges,
       Differences, Session!Differences, ReadMemory, Session!ReadMemory,
       CacheWindow, Session!CacheWindow, traceeVars, Session!traceeVars

\* single_step: ptrace::step.
LEMMA SameStep ==
  ASSUME Same, Same', StepSucceeds \/ StepFails
  PROVE  Session!StepSucceeds \/ Session!StepFails
<1>1. CASE StepSucceeds
  BY <1>1 DEF Same, SameProcess, StepSucceeds, Session!StepSucceeds, CanStep, Session!CanStep,
              PtraceStep, Session!PtraceStep, TakeSignal, Session!TakeSignal
<1>2. CASE StepFails
  BY <1>2 DEF Same, SameProcess, StepFails, Session!StepFails, CanStep, Session!CanStep,
              TakeSignal, Session!TakeSignal, traceeVars, Session!traceeVars
<1> QED
  BY <1>1, <1>2

\* single_step: the arms of the match on waitpid.
LEMMA SameWait ==
  ASSUME Same, Same', WaitTrap \/ WaitSignal \/ WaitExited \/ WaitFails
  PROVE  Session!WaitTrap \/ Session!WaitSignal \/ Session!WaitExited \/ Session!WaitFails
<1> USE DEF Same, SameProcess, Collect, Session!Collect, NoStatus, Session!NoStatus,
            tracerVars, Session!tracerVars
<1>1. CASE WaitTrap
  BY <1>1 DEF WaitTrap, Session!WaitTrap, Trap, Session!Trap
<1>2. CASE WaitSignal
  BY <1>2 DEF WaitSignal, Session!WaitSignal, KeepSignal, Session!KeepSignal
<1>3. CASE WaitExited
  BY <1>3 DEF WaitExited, Session!WaitExited, Exited, Session!Exited
<1>4. CASE WaitFails
  BY <1>4 DEF WaitFails, Session!WaitFails, traceeVars, Session!traceeVars
<1> QED
  BY <1>1, <1>2, <1>3, <1>4

\* single_step as the loop calls it.
LEMMA SameStepTracer ==
  ASSUME Same, Same', StepTracer PROVE Session!StepTracer
BY SameRead, SameRecord, SameStep, SameWait
   DEF StepTracer, Session!StepTracer, single_step, Session!single_step,
       sessionVars, Session!sessionVars

\* The test of the loop on running.
LEMMA SameLoop ==
  ASSUME Same, Same', LoopStops \/ LoopSteps
  PROVE  Session!LoopStops \/ Session!LoopSteps
BY DEF Same, SameProcess, LoopStops, LoopSteps, Session!LoopStops, Session!LoopSteps,
       tracerVars, Session!tracerVars, traceeVars, Session!traceeVars,
       sessionVars, Session!sessionVars

\* The arms of the match on the result of single_step.
LEMMA SameHandle ==
  ASSUME Same, Same', HandleOk \/ HandleExited \/ HandleError
  PROVE  Session!HandleOk \/ Session!HandleExited \/ Session!HandleError
<1> USE DEF Same, SameProcess, tracerVars, Session!tracerVars, traceeVars, Session!traceeVars,
            loopVars, Session!loopVars, sessionVars, Session!sessionVars
<1>1. CASE HandleOk
  <2>1. \A e : Session!Counted(e) = Counted(e)
    BY DEF Counted, Session!Counted, One, Session!One, Cardinality, Session!Cardinality
  <2> QED
    BY <1>1, <2>1 DEF HandleOk, Session!HandleOk
<1>2. CASE HandleExited
  BY <1>2 DEF HandleExited, Session!HandleExited
<1>3. CASE HandleError
  BY <1>3 DEF HandleError, Session!HandleError, CountError, Session!CountError
<1> QED
  BY <1>1, <1>2, <1>3

\* The death of tdb, which the traced process follows.
LEMMA SameDie ==
  ASSUME Same, Same', Die PROVE Session!Die
BY DEF Same, SameProcess, Die, Session!Die, KillTracee, Session!KillTracee,
       NoStatus, Session!NoStatus, tracerVars, Session!tracerVars

\* The ends of a session: save and detach, a failed write, a crash.
LEMMA SameEnd ==
  ASSUME Same, Same', Save \/ DetachAndReport \/ SaveFails \/ Crash
  PROVE  Session!Save \/ Session!DetachAndReport \/ Session!SaveFails \/ Session!Crash
<1> USE DEF Same, SameProcess, tracerVars, Session!tracerVars
<1>0. Session!Count(db) = Count(db)
  BY DEF Count, Session!Count, Cardinality, Session!Cardinality
<1>1. CASE Save
  BY <1>0, <1>1 DEF Save, Session!Save, Serialize, Session!Serialize,
                    traceeVars, Session!traceeVars
<1>2. CASE DetachAndReport
  BY <1>2 DEF DetachAndReport, Session!DetachAndReport, Detach, Session!Detach,
              PtraceDetach, Session!PtraceDetach, sessionVars, Session!sessionVars
<1>3. TornImages(db) = Session!TornImages(db)
  BY <1>0 DEF TornImages, Session!TornImages, EmptyDb, Session!EmptyDb,
              Unwritten, Session!Unwritten, NoFile, Session!NoFile
<1>4. CASE SaveFails
  BY <1>3, <1>4, SameDie DEF SaveFails, Session!SaveFails
<1>5. CASE Crash
  BY <1>3, <1>5, SameDie DEF Crash, Session!Crash, Finished, Session!Finished
<1> QED
  BY <1>1, <1>2, <1>4, <1>5

\* Ctrl+C and its handler.
LEMMA SameCtrlC ==
  ASSUME Same, Same', CtrlC \/ CtrlCHandler
  PROVE  Session!CtrlC \/ Session!CtrlCHandler
BY DEF Same, SameProcess, CtrlC, CtrlCHandler, Session!CtrlC, Session!CtrlCHandler,
       Finished, Session!Finished, tracerVars, Session!tracerVars, traceeVars, Session!traceeVars

\* Every step of the loop is the session's step.
LEMMA SameNext ==
  ASSUME Same, Same', Next PROVE Session!Next
<1>1. CASE trace_loop
  BY <1>1, SameStepTracer, SameLoop, SameHandle, SameEnd
     DEF trace_loop, Session!trace_loop, Session!Next
<1>2. CASE TraceeStep
  BY <1>2, SameTraceeNext DEF Same, TraceeStep, Session!TraceeStep, Session!Next,
     tracerVars, Session!tracerVars, sessionVars, Session!sessionVars
<1>3. CASE CtrlC \/ CtrlCHandler
  BY <1>3, SameCtrlC DEF Session!Next
<1>4. CASE SaveFails \/ Crash
  BY <1>4, SameEnd DEF Session!Next, Session!trace_loop
<1>5. CASE Terminated
  BY <1>5 DEF Same, SameProcess, Terminated, Session!Terminated, Finished, Session!Finished,
     vars, Session!vars, tracerVars, Session!tracerVars, traceeVars, Session!traceeVars,
     sessionVars, Session!sessionVars, Session!Next
<1> QED
  BY <1>1, <1>2, <1>3, <1>4, <1>5 DEF Next

-----------------------------------------------------------------------------
(* The launch. *)

\* No control point of the launch follows one of the session.
LEMMA SessionStays ==
  ASSUME Next PROVE pc' = pc \/ pc' \in ControlPoints
<1>1. CASE trace_loop
  <2>1. CASE StepTracer
    BY <2>1 DEF StepTracer, single_step, ReadFails, ReadRegisters, DecodeFails, Decode, Record,
       StepSucceeds, StepFails, WaitTrap, WaitSignal, WaitExited, WaitFails, ControlPoints
  <2> QED
    BY <1>1, <2>1 DEF trace_loop, LoopStops, LoopSteps, HandleOk, HandleExited, HandleError,
       Save, DetachAndReport, ControlPoints
<1>2. CASE TraceeStep \/ CtrlC \/ CtrlCHandler
  BY <1>2 DEF TraceeStep, CtrlC, CtrlCHandler
<1>3. CASE SaveFails \/ Crash
  BY <1>3 DEF SaveFails, Crash, Die, ControlPoints
<1>4. CASE Terminated
  BY <1>4 DEF Terminated, vars
<1> QED
  BY <1>1, <1>2, <1>3, <1>4 DEF Next

\* What holds while tdb waits for the first stop: a stop to collect means that
\* the process is stopped, Ctrl+C is not among the signals under way, and
\* without signals from outside there is only the SIGSTOP of PT_ATTACH, which
\* is the first stop.
Stopping ==
  /\ posted \subseteq Signals \ {Interrupt}
  /\ status.kind \in {"trap", "signal"} => proc = "stopped"
  /\ "signal" \notin Env =>
       /\ posted \subseteq {SigStop}
       /\ code \in {"forked", "traced"} \/ status.kind \in {"trap", "signal"} => posted = {}

Unstarted == posted = {} /\ reported = {} /\ status = NoStatus /\ code \in {"none", "program"}

LaunchInv ==
  /\ pc = "start" => Unstarted
  /\ pc = "first stop" => Stopping

\* The launch begins with no signal, no stop and no child.
LEMMA LaunchInitInv == LaunchInit => LaunchInv
BY DEF LaunchInit, LaunchInv, Unstarted, CpuInit

\* What happens to the process before its first stop keeps Stopping.
LEMMA StoppingStep ==
  ASSUME Stopping, TraceMe \/ Exec \/ EndsEarly \/ StopsEarly \/ SignalledEarly
  PROVE  Stopping'
<1> USE DEF Stopping, NoStatus, Trap, Exited, SignalStatus, Stop
<1>1. CASE TraceMe
  BY <1>1 DEF TraceMe
<1>2. CASE Exec
  BY <1>2 DEF Exec
<1>3. CASE EndsEarly
  BY <1>3 DEF EndsEarly
<1>4. CASE StopsEarly
  BY <1>4 DEF StopsEarly, SignalStop
<1>5. CASE SignalledEarly
  BY <1>5 DEF SignalledEarly, Kill, PostSignals
<1> QED
  BY <1>1, <1>2, <1>3, <1>4, <1>5

\* The invariant is inductive.
LEMMA LaunchStepInv ==
  ASSUME LaunchInv, [LaunchNext]_launchVars
  PROVE  LaunchInv'
<1>1. CASE launch_or_attach
  <2>1. CASE Fork
    <3>1. Unstarted
      BY <2>1 DEF Fork, LaunchInv
    <3>2. posted' = {} /\ status' = NoStatus /\ pc' = "first stop"
      BY <2>1, <3>1 DEF Fork, Unstarted
    <3> QED
      BY <3>2 DEF LaunchInv, Stopping, NoStatus
  <2>2. CASE Attach
    <3>1. Unstarted
      BY <2>2 DEF Attach, LaunchInv
    <3>2. /\ posted' = {SigStop} /\ status' = NoStatus /\ pc' = "first stop"
          /\ code' \notin {"forked", "traced"}
      BY <2>2, <3>1 DEF Attach, Unstarted
    <3> QED
      BY <3>2, LauncherAssumption DEF LaunchInv, Stopping, NoStatus
  <2>3. CASE StartFails \/ FirstStop \/ FirstWaitFails \/ NewTracer \/ SetHandler \/ StartupFails
    BY <2>3 DEF StartFails, FirstStop, FirstWaitFails, NewTracer, SetHandler, StartupFails,
       Die, LaunchInv
  <2> QED
    BY <1>1, <2>1, <2>2, <2>3 DEF launch_or_attach
<1>2. CASE CtrlCEndsLaunch \/ KillEndsLaunch
  BY <1>2 DEF CtrlCEndsLaunch, KillEndsLaunch, LaunchInv
<1>3. CASE ChildProgress \/ SignalledEarly
  <2>1. pc \in {"first stop", "failed"} /\ pc' = pc
    BY <1>3 DEF ChildProgress, TraceMe, Exec, EndsEarly, StopsEarly, SignalledEarly, Starting,
       Waiting
  <2> QED
    BY <1>3, <2>1, StoppingStep DEF LaunchInv, ChildProgress
<1>4. CASE StoppedAtStart
  BY <1>4 DEF StoppedAtStart, TraceeStep, LaunchInv
<1>5. CASE LaunchFailed \/ UNCHANGED launchVars
  BY <1>5 DEF LaunchFailed, launchVars, vars, traceeVars, LaunchInv, Unstarted, Stopping
<1>6. CASE Traced
  BY <1>6, SessionStays DEF Traced, LaunchEnded, ControlPoints, LaunchInv
<1> QED
  BY <1>1, <1>2, <1>3, <1>4, <1>5, <1>6 DEF LaunchNext

-----------------------------------------------------------------------------
(* The refinement. *)

\* Launches begin where sessions do.
LEMMA LaunchInitRefines == LaunchInit => Session!Init
<1> SUFFICES ASSUME LaunchInit PROVE Session!Init
  OBVIOUS
<1>1. Session!TracerInit
  BY DEF LaunchInit, TracerInit, Session!TracerInit, EmptyDb, Session!EmptyDb
<1>2. Session!LoopInit
  BY DEF LaunchInit, LoopInit, Session!LoopInit, NoEntries, Session!NoEntries
<1>3. Session!TraceeInit
  BY DEF LaunchInit, CpuInit, Session!CpuInit, Session!TraceeInit, HandedOver,
         sessionProc, sessionStatus, sessionPosted, sessionReported, NoStatus, Session!NoStatus
<1>4. sessionPc = "loop"
  BY DEF LaunchInit, sessionPc, LaunchEnded
<1> QED
  BY <1>1, <1>2, <1>3, <1>4 DEF Session!Init, Session!SessionInit

\* A step that changes none of the session's variables nor what stands for
\* them is a stutter.
LEMMA UnseenStutters ==
  ASSUME KeepSession,
         UNCHANGED << sessionPc, sessionProc, sessionStatus, sessionPosted, sessionReported >>
  PROVE  UNCHANGED Session!vars
BY DEF KeepSession, Session!vars, Session!tracerVars, Session!traceeVars, Session!sessionVars,
       tracerVars, sessionVars

\* Before the first stop has been collected the session sees nothing.
LEMMA HiddenStutters ==
  ASSUME pc \in {"start", "first stop", "failed"}, pc' \in {"first stop", "failed"}, KeepSession
  PROVE  UNCHANGED Session!vars
<1>1. UNCHANGED << sessionPc, sessionProc, sessionStatus, sessionPosted, sessionReported >>
  BY DEF sessionPc, sessionProc, sessionStatus, sessionPosted, sessionReported, HandedOver,
         LaunchEnded
<1> QED
  BY <1>1, UnseenStutters

\* The first stop: signals that are still to come were sent in the session.
LEMMA FirstStopRefines ==
  ASSUME LaunchInv, FirstStop
  PROVE  Session!Next \/ UNCHANGED Session!vars
<1>1. /\ sessionPc = "loop" /\ sessionProc = "stopped" /\ sessionStatus = NoStatus
      /\ sessionPosted = {} /\ sessionReported = {}
      /\ sessionPc' = "loop" /\ sessionProc' = proc' /\ sessionStatus' = NoStatus
      /\ sessionPosted' = posted' /\ sessionReported' = {}
  BY DEF FirstStop, Waiting, sessionPc, sessionProc, sessionStatus, sessionPosted,
         sessionReported, HandedOver, LaunchEnded
<1>2. /\ posted' \subseteq Signals \ {Interrupt} /\ proc' = "stopped"
      /\ "signal" \notin Env => posted' = {}
  BY DEF FirstStop, Waiting, LaunchInv, Stopping
<1>3. KeepSession
  BY DEF FirstStop
<1>4. CASE posted' = {}
  BY <1>1, <1>2, <1>3, <1>4, UnseenStutters
<1>5. CASE posted' # {}
  <2>1. Session!PostSignals(posted')
    BY <1>1, <1>2, <1>3, <1>5 DEF Session!PostSignals, KeepSession
  <2>2. Session!TraceeNext
    BY <1>2, <1>5, <2>1 DEF Session!TraceeNext
  <2> QED
    BY <1>1, <1>3, <2>2 DEF Session!Next, Session!TraceeStep, KeepSession, tracerVars,
       Session!tracerVars, sessionVars, Session!sessionVars
<1> QED
  BY <1>4, <1>5

\* Between the hand-over and the loop the session sees the process as it is.
LEMMA StartupRefines ==
  ASSUME NewTracer \/ SetHandler \/ StartupFails \/ StoppedAtStart
  PROVE  Session!Next \/ UNCHANGED Session!vars
<1>1. SameProcess /\ sessionPc = "loop"
  BY DEF NewTracer, SetHandler, StartupFails, StoppedAtStart, SameProcess, HandedOver,
         LaunchEnded, sessionPc, sessionProc, sessionStatus, sessionPosted, sessionReported
<1>2. SameProcess'
  BY DEF NewTracer, SetHandler, StartupFails, StoppedAtStart, TraceeStep, Die, SameProcess,
         HandedOver, sessionProc, sessionStatus, sessionPosted, sessionReported
<1>3. CASE NewTracer \/ SetHandler
  <2>1. sessionPc' = "loop" /\ UNCHANGED << tracerVars, traceeVars, sessionVars >>
    BY <1>3 DEF NewTracer, SetHandler, sessionPc, HandedOver, LaunchEnded
  <2> QED
    BY <1>1, <1>2, <2>1, UnseenStutters DEF SameProcess, KeepSession, traceeVars
<1>4. CASE StartupFails
  <2>1. sessionPc' = "crashed"
    BY <1>4 DEF StartupFails, Die, sessionPc, HandedOver, LaunchEnded
  <2>2. Session!Die
    BY <1>1, <1>2, <1>4, <2>1 DEF StartupFails, Die, Session!Die, SameProcess, KillTracee,
       Session!KillTracee, NoStatus, Session!NoStatus, tracerVars, Session!tracerVars
  <2> QED
    BY <1>1, <1>4, <2>2 DEF StartupFails, Session!Crash, Session!Finished, Session!Next
<1>5. CASE StoppedAtStart
  <2>1. sessionPc' = "loop"
    BY <1>5 DEF StoppedAtStart, TraceeStep, sessionPc, HandedOver, LaunchEnded
  <2> QED
    BY <1>1, <1>2, <1>5, <2>1, SameTraceeNext
       DEF StoppedAtStart, TraceeStep, Session!TraceeStep, Session!Next,
           tracerVars, Session!tracerVars, sessionVars, Session!sessionVars
<1> QED
  BY <1>3, <1>4, <1>5

\* From the loop on each step is a step of the session.
LEMMA TracedRefines ==
  ASSUME Traced PROVE Session!Next
<1>1. Same
  BY DEF Traced, Same, SameProcess, HandedOver, LaunchEnded,
         sessionPc, sessionProc, sessionStatus, sessionPosted, sessionReported
<1>2. Same'
  BY SessionStays DEF Traced, ControlPoints, Same, SameProcess, HandedOver, LaunchEnded,
     sessionPc, sessionProc, sessionStatus, sessionPosted, sessionReported
<1> QED
  BY <1>1, <1>2, SameNext DEF Traced

\* Every step of a launch is a step of the session or a stutter.
LEMMA LaunchStepRefines ==
  ASSUME LaunchInv, [LaunchNext]_launchVars
  PROVE  [Session!Next]_Session!vars
<1>1. CASE Fork \/ Attach \/ StartFails \/ FirstWaitFails \/ CtrlCEndsLaunch \/ KillEndsLaunch
  BY <1>1, HiddenStutters DEF Fork, Attach, StartFails, FirstWaitFails, CtrlCEndsLaunch,
     KillEndsLaunch, KeepLaunch, Waiting
<1>2. CASE TraceMe \/ Exec \/ EndsEarly
  BY <1>2, HiddenStutters DEF TraceMe, Exec, EndsEarly, KeepLaunch, Starting, Waiting
<1>3. CASE StopsEarly \/ SignalledEarly
  <2>1. KeepSession /\ pc = "first stop" /\ pc' = pc
    BY <1>3 DEF StopsEarly, SignalledEarly, Waiting, KeepSession, SignalStop, Kill, PostSignals
  <2> QED
    BY <2>1, HiddenStutters
<1>4. CASE FirstStop
  BY <1>4, FirstStopRefines
<1>5. CASE NewTracer \/ SetHandler \/ StartupFails \/ StoppedAtStart
  BY <1>5, StartupRefines
<1>6. CASE LaunchFailed \/ UNCHANGED launchVars
  <2>1. UNCHANGED launchVars
    BY <1>6 DEF LaunchFailed
  <2>2. KeepSession /\ UNCHANGED << pc, proc, status, posted, reported >>
    BY <2>1 DEF launchVars, vars, traceeVars, KeepSession
  <2>3. UNCHANGED << sessionPc, sessionProc, sessionStatus, sessionPosted, sessionReported >>
    BY <2>2 DEF sessionPc, sessionProc, sessionStatus, sessionPosted, sessionReported,
       HandedOver, LaunchEnded
  <2> QED
    BY <2>2, <2>3, UnseenStutters
<1>7. CASE Traced
  BY <1>7, TracedRefines
<1> QED
  BY <1>1, <1>2, <1>3, <1>4, <1>5, <1>6, <1>7 DEF LaunchNext, launch_or_attach, ChildProgress

\* The commands run and trace behave as a session of TraceSession whose process
\* is stopped and untouched when it begins, whatever signals, deaths, failures
\* and Ctrl+C come during the launch.
THEOREM LaunchImplementsSession == LaunchSpec => ImplementsSession
<1>1. LaunchInit => LaunchInv
  BY LaunchInitInv
<1>2. LaunchInv /\ [LaunchNext]_launchVars => LaunchInv'
  BY LaunchStepInv
<1>3. LaunchInv /\ [LaunchNext]_launchVars => [Session!Next]_Session!vars
  BY LaunchStepRefines
<1> QED
  BY <1>1, <1>2, <1>3, LaunchInitRefines, PTL DEF LaunchSpec, ImplementsSession, Session!Spec

-----------------------------------------------------------------------------
(* The program never runs untraced. *)

\* In a session the process is let go only by detach, after which it is done.
LEMMA TracedStaysTraced ==
  ASSUME NeverUntraced, Traced PROVE NeverUntraced'
<1> SUFFICES ASSUME mode' = "run", code' = "program", pc' # "done", proc' = "free"
             PROVE  FALSE
  BY DEF NeverUntraced
<1>1. UNCHANGED << mode, code >>
  <2>1. CASE trace_loop
    BY <2>1 DEF Traced, trace_loop, LoopStops, LoopSteps, StepTracer, HandleOk, HandleExited,
       HandleError, Save, DetachAndReport, sessionVars, loopVars
  <2> QED
    BY <2>1 DEF Traced, Next, TraceeStep, CtrlC, CtrlCHandler, SaveFails, Crash, Die, Terminated,
       vars, sessionVars
<1>2. proc = "free"
  <2>1. CASE trace_loop
    BY <2>1 DEF trace_loop, LoopStops, LoopSteps, StepTracer, single_step, ReadFails,
       ReadRegisters, DecodeFails, Decode, Record, StepSucceeds, PtraceStep, StepFails, WaitTrap,
       WaitSignal, WaitExited, WaitFails, Collect, HandleOk, HandleExited, HandleError, Save,
       DetachAndReport, traceeVars
  <2>2. CASE TraceeStep
    BY <2>2 DEF TraceeStep, TraceeNext, TraceeProgress, TrapAfterStep, Stop, Block, Exit,
       SignalStop, DeliverIgnored, DeliverToHandler, DeliverFatal, Wake, Kill, PostSignals
  <2> QED
    BY <2>1, <2>2 DEF Traced, Next, CtrlC, CtrlCHandler, SaveFails, Crash, Die, KillTracee,
       Terminated, vars, traceeVars
<1>3. pc = "done"
  BY <1>1, <1>2 DEF NeverUntraced
<1>4. pc' = "done"
  <2>1. ~trace_loop
    BY <1>3 DEF trace_loop, LoopStops, LoopSteps, StepTracer, single_step, ReadFails,
       ReadRegisters, DecodeFails, Decode, Record, StepSucceeds, StepFails, WaitTrap,
       WaitSignal, WaitExited, WaitFails, HandleOk, HandleExited, HandleError, Save,
       DetachAndReport
  <2> QED
    BY <1>3, <2>1 DEF Traced, Next, TraceeStep, CtrlC, CtrlCHandler, SaveFails, Crash, Finished,
       Terminated, vars
<1> QED
  BY <1>4

\* No step of a launch lets the program run untraced.
LEMMA UntracedStep ==
  ASSUME NeverUntraced, [LaunchNext]_launchVars PROVE NeverUntraced'
<1> USE DEF NeverUntraced
<1>1. CASE launch_or_attach \/ CtrlCEndsLaunch \/ KillEndsLaunch
  <2>1. UNCHANGED mode
    BY <1>1 DEF launch_or_attach, CtrlCEndsLaunch, KillEndsLaunch, Fork, Attach, StartFails, FirstStop,
       FirstWaitFails, NewTracer, SetHandler, StartupFails, Die, KeepLaunch, KeepSession, sessionVars
  <2> QED
    BY <1>1, <2>1 DEF launch_or_attach, CtrlCEndsLaunch, KillEndsLaunch, Fork, Attach, StartFails, FirstStop,
       FirstWaitFails, NewTracer, SetHandler, StartupFails, Die, KillTracee, Waiting, traceeVars
<1>2. CASE ChildProgress \/ SignalledEarly
  <2>1. UNCHANGED mode
    BY <1>2 DEF ChildProgress, TraceMe, Exec, EndsEarly, StopsEarly, SignalledEarly,
       KeepLaunch, KeepSession, sessionVars
  <2> QED
    BY <1>2, <2>1 DEF ChildProgress, TraceMe, Exec, EndsEarly, StopsEarly, SignalledEarly,
       SignalStop, Stop, Kill, PostSignals, Starting, Waiting
<1>3. CASE StoppedAtStart
  <2>1. UNCHANGED << mode, code, pc >> /\ pc # "done" /\ TraceeNext
    BY <1>3 DEF StoppedAtStart, TraceeStep, sessionVars
  <2>2. proc' = "free" => proc = "free"
    BY <2>1 DEF TraceeNext, TraceeProgress, TrapAfterStep, Stop, Block, Exit, SignalStop,
       DeliverIgnored, DeliverToHandler, DeliverFatal, Wake, Kill, PostSignals
  <2> QED
    BY <2>1, <2>2
<1>4. CASE LaunchFailed \/ UNCHANGED launchVars
  BY <1>4 DEF LaunchFailed, launchVars, vars, traceeVars, sessionVars
<1>5. CASE Traced
  BY <1>5, TracedStaysTraced
<1> QED
  BY <1>1, <1>2, <1>3, <1>4, <1>5 DEF LaunchNext

\* A program tdb starts never runs without a tracer before tdb has detached from it.
THEOREM ProgramNeverRunsUntraced == LaunchSpec => []NeverUntraced
<1>1. LaunchInit => NeverUntraced
  BY DEF LaunchInit, NeverUntraced
<1> QED
  BY <1>1, UntracedStep, PTL DEF LaunchSpec

-----------------------------------------------------------------------------
(* What the commands promise of the trace and the signals. *)

\* All that belongs to the session is as it was at the start.
Fresh ==
  /\ TracerInit /\ LoopInit
  /\ cpu \in [tick : {0}, insn : Insns, sp : SPs]
  /\ \E b \in Bytes : stackAt = [t \in {0} |-> [a \in 0 .. StackTop |-> b]]
  /\ carried = NoSignal /\ executed = {} /\ delivered = {} /\ frames = 0 /\ lowest = 0

\* Before the hand-over the process has stopped at most once.
EarlyInv ==
  /\ Fresh
  /\ IsFiniteSet(reported)
  /\ status = Exited => proc = "dead"
  /\ proc # "blocked"
  /\ proc \in {"free", "running"} => status = NoStatus
  /\ proc # "dead" => reported = {status.sig} \ {NoSignal}
  /\ pc = "start" => proc \in {"dead", "free"}
  /\ dropped = {}

\* Between the hand-over and the loop it is stopped, unless it is killed.
ReadyInv ==
  /\ Fresh
  /\ proc \in {"stopped", "dead"}
  /\ status = NoStatus \/ (status = Exited /\ proc = "dead")
  /\ posted \subseteq Signals \ {Interrupt}
  /\ reported = {}

SessionInv == TypeInv /\ Handled /\ Control /\ Faithful /\ EndInv

CommandInv ==
  \/ pc \in {"start", "first stop", "failed"} /\ EarlyInv
  \/ pc \in {"new", "handler"} /\ ReadyInv
  \/ pc \in ControlPoints /\ SessionInv

\* A session can begin in this state, if it is one the launch hands over.
Begins ==
  pc \in {"loop", "crashed"} /\ ReadyInv => SessionInv /\ SignalInv /\ RepeatInv

\* A launch begins with nothing recorded and nothing stopped.
LEMMA LaunchInitCommand == LaunchInit => CommandInv
BY FS_EmptySet DEF LaunchInit, CpuInit, CommandInv, EarlyInv, Fresh, NoStatus, Exited

\* What the launch hands over is what a session can begin with, also when tdb dies
\* at once.
LEMMA ReadyBegins == Begins
<1> SUFFICES ASSUME pc \in {"loop", "crashed"}, ReadyInv
             PROVE  SessionInv /\ SignalInv /\ RepeatInv
  BY DEF Begins
<1> USE TraceeAssumption, SessionAssumption
<1>1. TraceeTypeOK
  BY DEF ReadyInv, Fresh, TraceeTypeOK, Stacks
<1>2. DOMAIN db = {} /\ DOMAIN memory_cache = {} /\ step_count = 0 /\ 0 .. step_count - 1 = {}
      /\ reported = {}
  BY DEF ReadyInv, Fresh, TracerInit, EmptyDb
<1>3. db = [s \in {} |-> db[s]]
  BY DEF ReadyInv, Fresh, TracerInit, EmptyDb
<1>4. TracerTypeOK
  BY <1>2, <1>3 DEF ReadyInv, Fresh, TracerInit, LoopInit, TracerTypeOK, ControlPoints
<1>5. SessionTypeOK /\ FiniteChanges /\ ErrorBound /\ Handled
  BY <1>2 DEF ReadyInv, Fresh, LoopInit, SessionTypeOK, FiniteChanges, ErrorBound, NoEntries,
     Handled
<1>6. Control
  BY DEF ReadyInv, Control, NoStatus, Exited
<1>7. Faithful
  BY <1>2 DEF ReadyInv, Fresh, Faithful, MayRun, Armed, Ordered, NoMissedInstruction, Ahead
<1>8. EndInv
  BY <1>2 DEF ReadyInv, Fresh, LoopInit, EndInv, FileInv, StopInv
<1>9. SignalInv
  BY <1>2 DEF ReadyInv, Fresh, TracerInit, LoopInit, SignalInv, SignalConservation, SignalPlaces,
     InFlight, NoStatus, Exited, One, Alive
<1>10. Recorded = {} /\ ~LastIsCurrent
  BY <1>2 DEF Recorded, LastIsCurrent
<1>11. RepeatInv
  BY <1>2, <1>10, FS_EmptySet DEF RepeatInv, Owed, One
<1> QED
  BY <1>1, <1>4, <1>5, <1>6, <1>7, <1>8, <1>9, <1>11 DEF SessionInv, TypeInv, TypeOK

\* What belongs to the session stays as it is.
LEMMA FreshStays ==
  ASSUME Fresh,
         UNCHANGED << tracerVars, cpu, stackAt, carried, executed, delivered, frames, lowest,
                      mode, ctrlc, running, error_count, summary, file, stopAt >>
  PROVE  Fresh'
BY DEF Fresh, TracerInit, LoopInit, tracerVars

\* A step of the process before its first stop.
LEMMA EarlyProcess ==
  ASSUME pc \in {"first stop", "failed"}, EarlyInv,
         TraceMe \/ Exec \/ EndsEarly \/ StopsEarly \/ SignalledEarly
  PROVE  EarlyInv' /\ pc' = pc
<1> USE DEF EarlyInv, NoStatus, Trap, Exited, SignalStatus, Stop
<1>1. Fresh' /\ pc' = pc /\ dropped' = dropped
  BY DEF TraceMe, Exec, EndsEarly, StopsEarly, SignalledEarly, KeepLaunch, KeepSession, Kill,
     PostSignals, SignalStop, Fresh, TracerInit, LoopInit, tracerVars, sessionVars
<1>2. CASE TraceMe
  BY <1>1, <1>2 DEF TraceMe
<1>3. CASE Exec
  <2>1. /\ status = NoStatus /\ reported' = reported
        /\ proc = "running" /\ proc' = "stopped" /\ status' = Trap
    BY <1>3 DEF Exec
  <2>2. reported' = {} /\ reported' = {status'.sig} \ {NoSignal} /\ status' # Exited
    BY <2>1
  <2> QED
    BY <1>1, <2>1, <2>2
<1>4. CASE EndsEarly
  BY <1>1, <1>4 DEF EndsEarly
<1>5. CASE StopsEarly
  <2>1. PICK s \in Signals : SignalStop(s)
    BY <1>5 DEF StopsEarly
  <2>2. /\ status = NoStatus /\ reported' = reported \cup {s}
        /\ proc = "running" /\ proc' = "stopped" /\ status' = SignalStatus(s)
    BY <1>5, <2>1 DEF SignalStop, StopsEarly
  <2>3. reported = {} /\ s # NoSignal
    BY <2>2, TraceeAssumption
  <2>4. reported' = {status'.sig} \ {NoSignal} /\ status' # Exited
    BY <2>2, <2>3
  <2>5. IsFiniteSet(reported')
    BY <2>2, FS_AddElement
  <2> QED
    BY <1>1, <2>2, <2>4, <2>5
<1>6. CASE SignalledEarly
  BY <1>1, <1>6 DEF SignalledEarly, Kill, PostSignals
<1> QED
  BY <1>2, <1>3, <1>4, <1>5, <1>6

\* A step of a session that has begun keeps what holds of sessions.
LEMMA NextSession == SessionInv /\ [Next]_vars => SessionInv'
<1>1. TypeInv => TypeOK
  BY DEF TypeInv
<1> QED
  BY <1>1, NextType, NextControl, NextFaithful, NextEnd DEF SessionInv

\* Where a step of the commands leads.
LEMMA CommandStep ==
  ASSUME CommandInv, LaunchInv, [LaunchNext]_launchVars
  PROVE  \/ pc' \in {"start", "first stop", "failed"} /\ EarlyInv'
         \/ pc' \in {"new", "handler"} /\ ReadyInv'
         \/ pc' \in {"loop", "crashed"} /\ ReadyInv' /\ pc \in {"new", "handler"}
         \/ pc \in ControlPoints /\ [Next]_vars /\ SessionInv /\ pc' \in ControlPoints
<1> USE DEF NoStatus, Trap, Exited, SignalStatus
<1>1. CASE Fork \/ Attach \/ StartFails
  <2>1. /\ EarlyInv /\ Unstarted /\ proc \in {"dead", "free"} /\ reported = {}
    BY <1>1 DEF CommandInv, LaunchInv, Fork, Attach, StartFails, ControlPoints, EarlyInv, Unstarted
  <2>2. Fresh' /\ reported' = {} /\ status' = NoStatus
    BY <1>1, <2>1, FreshStays DEF KeepLaunch, KeepSession, sessionVars, Fork, Attach, StartFails,
       EarlyInv, Unstarted
  <2> QED
    BY <1>1, <2>1, <2>2, FS_EmptySet DEF Fork, Attach, StartFails, EarlyInv, KeepLaunch
<1>2. CASE FirstStop
  <2>1. EarlyInv /\ Stopping /\ proc = "stopped"
    BY <1>2 DEF CommandInv, LaunchInv, Stopping, FirstStop, Waiting, ControlPoints
  <2>2. Fresh'
    BY <1>2, <2>1, FreshStays DEF KeepSession, sessionVars, FirstStop, EarlyInv
  <2> QED
    BY <1>2, <2>1, <2>2 DEF FirstStop, ReadyInv, Stopping
<1>3. CASE FirstWaitFails \/ CtrlCEndsLaunch \/ KillEndsLaunch
  <2>1. EarlyInv /\ (pc = "start" => Unstarted)
    BY <1>3 DEF CommandInv, LaunchInv, FirstWaitFails, CtrlCEndsLaunch, KillEndsLaunch, Waiting,
       ControlPoints
  <2>2. /\ Fresh' /\ status' = NoStatus /\ pc' = "failed" /\ reported' = reported
        /\ proc' = "dead" \/ (proc' = "free" /\ proc = "free")
    BY <1>3, <2>1, FreshStays DEF KeepLaunch, KeepSession, sessionVars, FirstWaitFails,
       CtrlCEndsLaunch, KillEndsLaunch, KillTracee, EarlyInv
  <2>3. dropped' = {}
    BY <1>3, <2>1 DEF KeepLaunch, FirstWaitFails, CtrlCEndsLaunch, KillEndsLaunch, EarlyInv
  <2> QED
    BY <1>3, <2>1, <2>2, <2>3 DEF EarlyInv
<1>4. CASE NewTracer \/ SetHandler \/ StartupFails
  <2>1. pc \in {"new", "handler"} /\ ReadyInv
    BY <1>4 DEF CommandInv, NewTracer, SetHandler, StartupFails, ControlPoints
  <2>2. Fresh'
    BY <1>4, <2>1, FreshStays DEF NewTracer, SetHandler, StartupFails, Die, ReadyInv, traceeVars,
       sessionVars
  <2> QED
    BY <1>4, <2>1, <2>2 DEF NewTracer, SetHandler, StartupFails, Die, KillTracee, ReadyInv, traceeVars
<1>5. CASE ChildProgress \/ SignalledEarly
  <2>1. pc \in {"first stop", "failed"}
    BY <1>5 DEF ChildProgress, TraceMe, Exec, EndsEarly, StopsEarly, SignalledEarly, Starting,
       Waiting
  <2>2. EarlyInv
    BY <2>1 DEF CommandInv, ControlPoints
  <2> QED
    BY <1>5, <2>1, <2>2, EarlyProcess DEF ChildProgress
<1>6. CASE StoppedAtStart
  <2>1. pc \in {"new", "handler"} /\ pc' = pc /\ ReadyInv /\ TraceeNext
    BY <1>6 DEF CommandInv, StoppedAtStart, TraceeStep, ControlPoints
  <2>2. Kill \/ \E new \in SUBSET Signals : PostSignals(new)
    BY <2>1 DEF ReadyInv, TraceeNext, TraceeProgress, TrapAfterStep, Block, Exit, SignalStop,
       DeliverIgnored, DeliverToHandler, DeliverFatal, Deliver, Wake
  <2>3. Fresh'
    BY <1>6, <2>1, <2>2, FreshStays DEF StoppedAtStart, TraceeStep, Kill, PostSignals, ReadyInv,
       sessionVars
  <2> QED
    BY <2>1, <2>2, <2>3 DEF Kill, PostSignals, ReadyInv
<1>7. CASE LaunchFailed \/ UNCHANGED launchVars
  <2>1. UNCHANGED << pc, dropped, vars >>
    BY <1>7 DEF LaunchFailed, launchVars, vars
  <2>2. CASE pc \in ControlPoints
    <3>1. SessionInv
      BY <2>2 DEF CommandInv, ControlPoints
    <3> QED
      BY <2>1, <2>2, <3>1
  <2>3. CASE pc \in {"start", "first stop", "failed"}
    <3>1. EarlyInv
      BY <2>3 DEF CommandInv, ControlPoints
    <3> QED
      BY <2>1, <2>3, <3>1, FreshStays DEF EarlyInv, vars, traceeVars, sessionVars
  <2>4. CASE pc \in {"new", "handler"}
    <3>1. ReadyInv
      BY <2>4 DEF CommandInv, ControlPoints
    <3> QED
      BY <2>1, <2>4, <3>1, FreshStays DEF ReadyInv, vars, traceeVars, sessionVars
  <2> QED
    BY <2>2, <2>3, <2>4 DEF CommandInv
<1>8. CASE Traced
  <2>1. pc \in ControlPoints /\ Next
    BY <1>8 DEF Traced, LaunchEnded, CommandInv
  <2>2. SessionInv
    BY <2>1 DEF CommandInv, ControlPoints
  <2> QED
    BY <2>1, <2>2, SessionStays
<1> QED
  BY <1>1, <1>2, <1>3, <1>4, <1>5, <1>6, <1>7, <1>8 DEF LaunchNext, launch_or_attach

\* The invariant is inductive.
LEMMA NextCommand ==
  CommandInv /\ LaunchInv /\ [LaunchNext]_launchVars /\ Begins' => CommandInv'
<1> SUFFICES ASSUME CommandInv, LaunchInv, [LaunchNext]_launchVars, Begins'
             PROVE  CommandInv'
  OBVIOUS
<1>1. CASE pc' \in {"start", "first stop", "failed"} /\ EarlyInv'
  BY <1>1 DEF CommandInv
<1>2. CASE pc' \in {"new", "handler"} /\ ReadyInv'
  BY <1>2 DEF CommandInv
<1>3. CASE pc' \in {"loop", "crashed"} /\ ReadyInv'
  BY <1>3 DEF Begins, CommandInv, ControlPoints
<1>4. CASE pc \in ControlPoints /\ [Next]_vars /\ SessionInv /\ pc' \in ControlPoints
  BY <1>4, NextSession DEF CommandInv
<1> QED
  BY <1>1, <1>2, <1>3, <1>4, CommandStep

\* From the loop on, signals are as in a session.
SignalsFromLoop == pc \in ControlPoints => SignalInv /\ RepeatInv

\* At first tdb is not in the loop.
LEMMA LaunchInitSignals == LaunchInit => SignalsFromLoop
BY DEF LaunchInit, SignalsFromLoop, ControlPoints

\* Each step of the commands keeps every signal in its place.
LEMMA NextSignalsFromLoop ==
  ASSUME "stepfail" \notin Env
  PROVE  CommandInv /\ LaunchInv /\ SignalsFromLoop /\ [LaunchNext]_launchVars /\ Begins'
           => SignalsFromLoop'
<1> SUFFICES ASSUME CommandInv, LaunchInv, SignalsFromLoop, [LaunchNext]_launchVars, Begins'
             PROVE  SignalsFromLoop'
  OBVIOUS
<1>1. CASE pc' \in {"start", "first stop", "failed", "new", "handler"}
  BY <1>1 DEF SignalsFromLoop, ControlPoints
<1>2. CASE pc' \in {"loop", "crashed"} /\ ReadyInv'
  BY <1>2 DEF Begins, SignalsFromLoop
<1>3. CASE pc \in ControlPoints /\ [Next]_vars /\ SessionInv
  <2>1. TypeOK /\ Control /\ Faithful /\ SignalInv /\ RepeatInv
    BY <1>3 DEF SessionInv, TypeInv, SignalsFromLoop
  <2> QED
    BY <1>3, <2>1, NextSignals, NextRepeat DEF SignalsFromLoop
<1> QED
  BY <1>1, <1>2, <1>3, CommandStep

\* The invariants hold throughout every run of the commands.
LEMMA AlwaysCommand == LaunchSpec => [](CommandInv /\ LaunchInv)
BY LaunchInitInv, LaunchStepInv, LaunchInitCommand, NextCommand, ReadyBegins, PTL DEF LaunchSpec

\* Without a session nothing has been recorded and no file written.
LEMMA FreshPromises ==
  ASSUME Fresh, pc # "done"
  PROVE  NoMissedInstruction /\ TraceInOrder /\ SavedTraceComplete /\ ReloadIsWhole
         /\ step_count = 0 /\ Recorded = {}
<1>1. db = EmptyDb /\ DOMAIN db = {} /\ step_count = 0 /\ executed = {} /\ file = OldTrace
  BY DEF Fresh, TracerInit, LoopInit, EmptyDb
<1> QED
  BY <1>1 DEF NoMissedInstruction, TraceInOrder, SavedTraceComplete, ReloadIsWhole, Recorded

\* Whatever happens during the launch, the commands run and trace record every
\* instruction executed from the hand-over on, in order, and leave a file
\* that loads as the whole trace or as it was before.
THEOREM LaunchedTraceIsWhole ==
  LaunchSpec => [](NoMissedInstruction /\ TraceInOrder /\ SavedTraceComplete /\ ReloadIsWhole)
<1>1. CommandInv => NoMissedInstruction /\ TraceInOrder /\ SavedTraceComplete /\ ReloadIsWhole
  <2> SUFFICES ASSUME CommandInv
               PROVE  NoMissedInstruction /\ TraceInOrder /\ SavedTraceComplete /\ ReloadIsWhole
    OBVIOUS
  <2>1. CASE pc \in {"start", "first stop", "failed", "new", "handler"} /\ Fresh
    BY <2>1, FreshPromises
  <2>2. CASE SessionInv
    BY <2>2, DoneIsWhole, LoadedIsWhole, TickType
       DEF SessionInv, TypeInv, Faithful, Ordered, TraceInOrder
  <2> QED
    BY <2>1, <2>2 DEF CommandInv, EarlyInv, ReadyInv
<1> QED
  BY <1>1, AlwaysCommand, PTL

\* Signals that were sent are not taken back.
LEMMA SignalsStay ==
  ASSUME Next PROVE mode' = mode /\ posted \cup reported \subseteq posted' \cup reported'
<1>1. CASE trace_loop
  BY <1>1 DEF trace_loop, LoopStops, LoopSteps, StepTracer, single_step, ReadFails, ReadRegisters,
     DecodeFails, Decode, Record, StepSucceeds, StepFails, WaitTrap, WaitSignal, WaitExited,
     WaitFails, Collect, HandleOk, HandleExited, HandleError, Save, DetachAndReport, Detach,
     traceeVars, loopVars, sessionVars
<1>2. CASE TraceeStep
  BY <1>2 DEF TraceeStep, TraceeNext, TraceeProgress, TrapAfterStep, Block, Exit, SignalStop,
     DeliverIgnored, DeliverToHandler, DeliverFatal, Wake, Kill, PostSignals, sessionVars
<1>3. CASE CtrlC \/ CtrlCHandler \/ SaveFails \/ Crash \/ Terminated
  BY <1>3 DEF CtrlC, CtrlCHandler, SaveFails, Crash, Die, Terminated, vars, traceeVars, sessionVars
<1> QED
  BY <1>1, <1>2, <1>3 DEF Next

\* The launcher collects one stop, and the SIGSTOP of PT_ATTACH has been posted
\* before it.
DropInv ==
  /\ \A s, t \in dropped : s = t
  /\ mode = "trace" /\ pc \notin {"start", "failed"} =>
       SigStop \in dropped \cup posted \cup reported

\* Only the first stop drops a signal.
LEMMA NextDrop ==
  ASSUME CommandInv, LaunchInv, DropInv, [LaunchNext]_launchVars
  PROVE  DropInv'
<1>1. CASE Fork \/ Attach \/ StartFails
  BY <1>1 DEF Fork, Attach, StartFails, KeepLaunch, KeepSession, sessionVars, DropInv
<1>2. CASE FirstStop
  <2>1. EarlyInv /\ proc = "stopped" /\ pc = "first stop"
    BY <1>2 DEF CommandInv, LaunchInv, Stopping, FirstStop, Waiting, ControlPoints
  <2>2. dropped = {} /\ reported = {status.sig} \ {NoSignal}
    BY <2>1 DEF EarlyInv
  <2>3. dropped' = reported /\ reported' = {} /\ posted' = posted /\ mode' = mode
    BY <1>2 DEF FirstStop, KeepSession, sessionVars
  <2> QED
    BY <2>1, <2>2, <2>3 DEF DropInv
<1>3. CASE FirstWaitFails \/ CtrlCEndsLaunch \/ KillEndsLaunch
  BY <1>3 DEF FirstWaitFails, CtrlCEndsLaunch, KillEndsLaunch, KeepLaunch, DropInv
<1>4. CASE NewTracer \/ SetHandler \/ StartupFails
  BY <1>4 DEF NewTracer, SetHandler, StartupFails, Die, traceeVars, sessionVars, DropInv
<1>5. CASE ChildProgress \/ SignalledEarly
  BY <1>5 DEF ChildProgress, TraceMe, Exec, EndsEarly, StopsEarly, SignalStop, SignalledEarly,
     Kill, PostSignals, KeepLaunch, KeepSession, sessionVars, DropInv
<1>6. CASE StoppedAtStart
  BY <1>6, SignalsStay DEF StoppedAtStart, Next, TraceeStep, DropInv
<1>7. CASE LaunchFailed \/ UNCHANGED launchVars
  BY <1>7 DEF LaunchFailed, launchVars, vars, traceeVars, sessionVars, DropInv
<1>8. CASE Traced
  BY <1>8, SignalsStay DEF Traced, LaunchEnded, DropInv
<1> QED
  BY <1>1, <1>2, <1>3, <1>4, <1>5, <1>6, <1>7, <1>8 DEF LaunchNext, launch_or_attach

\* If PT_STEP does not fail for a stopped process, the commands run and trace lose
\* no signal the process stops for and deliver none twice until the detach, save
\* the signal of the one stop the launcher collects; and the SIGSTOP of PT_ATTACH,
\* when it did not make that stop, is not lost.
THEOREM LaunchDropsOneSignal ==
  ASSUME "stepfail" \notin Env
  PROVE  LaunchSpec => []OnlyFirstStopDrops
<1>1. CommandInv /\ SignalsFromLoop => SignalConservation
  <2> SUFFICES ASSUME CommandInv, SignalsFromLoop, proc \notin {"dead", "free"}
               PROVE  SignalConservation
    BY DEF SignalConservation
  <2>1. CASE pc \in ControlPoints
    BY <2>1 DEF SignalsFromLoop, SignalInv
  <2>2. CASE EarlyInv \/ ReadyInv
    <3>1. /\ reported = {status.sig} \ {NoSignal}
          /\ delivered = {} /\ pending_signal = NoSignal /\ carried = NoSignal
      BY <2>2 DEF EarlyInv, ReadyInv, Fresh, TracerInit, NoStatus
    <3> QED
      BY <3>1 DEF SignalConservation, InFlight, One
  <2> QED
    BY <2>1, <2>2 DEF CommandInv
<1>2. CommandInv /\ LaunchInv /\ SignalsFromLoop /\ [LaunchNext]_launchVars /\ Begins'
        => SignalsFromLoop'
  BY NextSignalsFromLoop
<1>3. LaunchInit => DropInv
  BY DEF LaunchInit, DropInv
<1>4. SignalConservation /\ DropInv => OnlyFirstStopDrops
  BY DEF OnlyFirstStopDrops, DropInv, HandedOver
<1> QED
  BY <1>1, <1>2, <1>3, <1>4, NextDrop, LaunchInitSignals, ReadyBegins, AlwaysCommand, PTL
     DEF LaunchSpec

\* If PT_STEP does not fail for a stopped process, the commands run and trace record
\* a state again only for a signal, once for each.
THEOREM LaunchedRepeatsAreSignals ==
  ASSUME "stepfail" \notin Env
  PROVE  LaunchSpec => []RepeatsOnlyForSignals
<1>1. CommandInv /\ SignalsFromLoop => RepeatsOnlyForSignals
  <2> SUFFICES ASSUME CommandInv, SignalsFromLoop PROVE RepeatsOnlyForSignals
    OBVIOUS
  <2>1. CASE pc \in ControlPoints /\ SessionInv
    BY <2>1, RepeatsBounded DEF SignalsFromLoop, SessionInv, TypeInv
  <2>2. CASE pc \in {"start", "first stop", "failed", "new", "handler"} /\ (EarlyInv \/ ReadyInv)
    <3>1. IsFiniteSet(reported) /\ step_count = 0 /\ Recorded = {}
      BY <2>2, FreshPromises, FS_EmptySet DEF EarlyInv, ReadyInv
    <3>2. Cardinality(reported) \in Nat /\ Cardinality(Recorded) = 0
      BY <3>1, FS_CardinalityType, FS_EmptySet
    <3> QED
      BY <3>1, <3>2 DEF RepeatsOnlyForSignals
  <2> QED
    BY <2>1, <2>2 DEF CommandInv
<1>2. CommandInv /\ LaunchInv /\ SignalsFromLoop /\ [LaunchNext]_launchVars /\ Begins'
        => SignalsFromLoop'
  BY NextSignalsFromLoop
<1> QED
  BY <1>1, <1>2, LaunchInitSignals, ReadyBegins, AlwaysCommand, PTL DEF LaunchSpec

=============================================================================
