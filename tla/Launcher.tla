------------------------------ MODULE Launcher ------------------------------
(***************************************************************************)
(* The commands run and trace, from the start of the process to the trace  *)
(* loop: ProcessLauncher (src/launcher/mod.rs), Tracer::new and the        *)
(* installation of the Ctrl+C handler, and then the session TraceSession   *)
(* describes, beside the child process as fork made it.                    *)
(*                                                                         *)
(* The launcher waits for the first stop of the process, whatever signal   *)
(* it is for, and passes nothing of it on.  The session begins at the      *)
(* hand-over: `reported' holds the signals the process has stopped for     *)
(* since then, `dropped' the one the launcher collected and forgot.        *)
(***************************************************************************)
EXTENDS TraceSession

CONSTANT SigStop   \* SIGSTOP, which PT_ATTACH sends

ASSUME LauncherAssumption == SigStop \in Signals \ {Interrupt}

VARIABLES
  code,  \* what the process executes: "none" (there is no process), "forked"
         \* and "traced" (the child's branch of launch, before and after
         \* PT_TRACE_ME), "program"
  dropped  \* history: the signal of the first stop, once it has been collected

launchVars == << code, dropped, vars >>

\* Control points of tdb before the loop: fork or PT_ATTACH, waitpid,
\* Tracer::new, set_handler; at "failed" it has ended without a process to trace.
Waiting   == pc = "first stop"
HandedOver == pc \notin {"start", "first stop", "failed"}
LaunchEnded == pc \notin {"start", "first stop", "new", "handler"}

LaunchInit ==
  /\ pc = "start"
  /\ LoopInit
  /\ TracerInit
  /\ CpuInit
  /\ status = NoStatus
  /\ dropped = {}
  /\ code = IF mode = "run" THEN "none" ELSE "program"
  /\ proc = IF mode = "run" THEN "dead" ELSE "free"

\* Nothing but the process, its signals and the control points changes.
KeepSession == UNCHANGED << tracerVars, cpu, stackAt, carried, executed, delivered,
                            frames, lowest, sessionVars >>

KeepLaunch == KeepSession /\ UNCHANGED dropped

-----------------------------------------------------------------------------
(* tdb. *)

\* ProcessLauncher::launch
Fork ==
  /\ pc = "start" /\ mode = "run"
  /\ code' = "forked" /\ proc' = "free"
  /\ pc' = "first stop"
  /\ KeepLaunch /\ UNCHANGED << status, posted, reported >>

\* ProcessLauncher::attach
Attach ==
  /\ pc = "start" /\ mode = "trace"
  /\ proc' = "running" /\ posted' = {SigStop}
  /\ pc' = "first stop"
  /\ KeepLaunch /\ UNCHANGED << status, reported, code >>

\* fork fails, or PT_ATTACH (no such process, no permission): expect panics.
StartFails ==
  /\ pc = "start"
  /\ pc' = "failed"
  /\ KeepLaunch /\ UNCHANGED << proc, status, posted, reported, code >>

\* bug: WNOHANG, and "still alive" taken for a stop
FirstStopNoHang ==
  /\ Waiting
  /\ status.kind \in {"trap", "signal", "none"} /\ proc # "dead"
  /\ pc' = "new"
  /\ status' = NoStatus /\ reported' = {} /\ dropped' = reported
  /\ KeepSession /\ UNCHANGED << proc, posted, code >>

\* WaitStatus::Stopped(_, _): any stop will do, and its signal is forgotten.
FirstStop ==
  /\ Waiting
  /\ status.kind \in {"trap", "signal"}
  /\ pc' = "new"
  /\ status' = NoStatus
  /\ dropped' = reported /\ reported' = {}
  /\ KeepSession /\ UNCHANGED << proc, posted, code >>

\* bug: waitpid is called again when it fails
FirstWaitFailsRetried ==
  /\ Waiting
  /\ status = Exited
  /\ pc' = "failed"
  /\ status' = NoStatus
  /\ KeepLaunch /\ UNCHANGED << proc, posted, reported, code >>

\* Exited, Signaled or ECHILD: expect panics.
FirstWaitFails ==
  /\ Waiting
  /\ status = Exited \/ (proc = "dead" /\ status = NoStatus)
  /\ pc' = "failed"
  /\ status' = NoStatus
  /\ KeepLaunch /\ UNCHANGED << proc, posted, reported, code >>

\* Tracer::new: task_for_pid finds the task.
NewTracer ==
  /\ pc = "new"
  /\ proc # "dead"
  /\ pc' = "handler"
  /\ UNCHANGED << tracerVars, traceeVars, sessionVars, code, dropped >>

\* ctrlc::set_handler
SetHandler ==
  /\ pc = "handler"
  /\ pc' = "loop"
  /\ UNCHANGED << tracerVars, traceeVars, sessionVars, code, dropped >>

\* task_for_pid fails (no entitlement, the process is gone), set_handler
\* fails, or Ctrl+C comes while SIGINT still has its default action.
StartupFails ==
  /\ pc \in {"new", "handler"}
  /\ Die
  /\ UNCHANGED << file, code, dropped >>

\* ... or comes earlier.  The child has the SIGINT too and dies with tdb; a
\* process tdb has attached to is killed by the kernel.
CtrlCEndsLaunch ==
  /\ "interrupt" \in Env
  /\ pc \in {"start", "first stop"}
  /\ pc' = "failed"
  /\ proc' = IF mode = "trace" /\ proc = "free" THEN "free" ELSE "dead"
  /\ status' = NoStatus
  /\ KeepLaunch /\ UNCHANGED << posted, reported, code >>

\* tdb is killed before the launcher returns.  The kernel kills what it traces;
\* a child that has not called PT_TRACE_ME yet lives on.
KillEndsLaunch ==
  /\ "crash" \in Env
  /\ pc \in {"start", "first stop"}
  /\ pc' = "failed"
  /\ KillTracee
  /\ KeepLaunch /\ UNCHANGED << posted, reported, code >>

launch_or_attach ==
  \/ Fork \/ Attach \/ StartFails
  \/ FirstStop \/ FirstWaitFails
  \/ NewTracer \/ SetHandler \/ StartupFails

-----------------------------------------------------------------------------
(* The process before its first stop. *)

\* The child of a tdb that was killed goes on: its new parent is who traces it.
Starting == Waiting \/ (pc = "failed" /\ mode = "run")

TraceMe ==
  /\ Starting /\ code = "forked" /\ proc = "free"
  /\ code' = "traced" /\ proc' = "running"
  /\ KeepLaunch /\ UNCHANGED << pc, status, posted, reported >>

\* bug: the child goes on when PT_TRACE_ME has failed
ExecUntraced ==
  /\ Waiting
  /\ \/ code = "traced" /\ proc = "running" /\ Stop(Trap)
     \/ code = "forked" /\ proc = "free" /\ UNCHANGED << proc, status >>
  /\ code' = "program"
  /\ KeepLaunch /\ UNCHANGED << pc, posted, reported >>

\* The kernel stops a traced process that calls exec.
Exec ==
  /\ Starting /\ code = "traced" /\ proc = "running"
  /\ code' = "program"
  /\ Stop(Trap)
  /\ KeepLaunch /\ UNCHANGED << pc, posted, reported >>

\* PT_TRACE_ME or execvp fails and the child exits with 127, a signal ends it
\* while it is not traced, or the process attached to ends by itself.
EndsEarly ==
  /\ Starting /\ proc \in {"free", "running"}
  /\ proc' = "dead"
  /\ status' \in IF "reap" \in Env THEN {Exited, NoStatus} ELSE {Exited}
  /\ KeepLaunch /\ UNCHANGED << pc, posted, reported, code >>

\* A traced process stops for a signal, in the child's branch of launch too.
StopsEarly ==
  /\ Waiting
  /\ UNCHANGED << pc, tracerVars, cpu, stackAt, executed, frames, lowest, sessionVars, code, dropped >>
  /\ \E s \in Signals : SignalStop(s)

SignalledEarly ==
  /\ Waiting
  /\ Kill \/ \E new \in (SUBSET Signals) \ {{}} : PostSignals(new)
  /\ UNCHANGED << pc, tracerVars, sessionVars, code, dropped >>

StoppedAtStart ==
  /\ pc \in {"new", "handler"}
  /\ TraceeStep
  /\ UNCHANGED << code, dropped >>

ChildProgress == TraceMe \/ Exec \/ EndsEarly \/ StopsEarly

LaunchFailed == pc = "failed" /\ UNCHANGED launchVars

Traced == LaunchEnded /\ pc # "failed" /\ Next /\ UNCHANGED << code, dropped >>

LaunchNext ==
  \/ launch_or_attach \/ CtrlCEndsLaunch \/ KillEndsLaunch
  \/ ChildProgress \/ SignalledEarly \/ StoppedAtStart
  \/ LaunchFailed
  \/ Traced

LaunchSpec == LaunchInit /\ [][LaunchNext]_launchVars

LaunchFairness ==
  /\ WF_launchVars(launch_or_attach)
  /\ WF_launchVars(ChildProgress)

LaunchFairSpec == LaunchSpec /\ LaunchFairness

-----------------------------------------------------------------------------
(* Properties. *)

\* From the moment the launcher returns, the commands run and trace behave as
\* the session of TraceSession, which starts with a process that is stopped and
\* has executed nothing: whatever happened during the launch, and although the
\* process may be killed or signalled before the loop begins.  A failure of
\* Tracer::new is the death of tdb.
sessionPc       == IF LaunchEnded /\ HandedOver THEN pc ELSE "loop"
sessionProc     == IF HandedOver THEN proc ELSE "stopped"
sessionStatus   == IF HandedOver THEN status ELSE NoStatus
sessionPosted   == IF HandedOver THEN posted ELSE {}
sessionReported == IF HandedOver THEN reported ELSE {}

Session == INSTANCE TraceSession WITH
  Env      <- Env \cup {"crash"},
  pc       <- sessionPc,
  proc     <- sessionProc,
  status   <- sessionStatus,
  posted   <- sessionPosted,
  reported <- sessionReported

ImplementsSession == Session!Spec

\* The program tdb starts never runs untraced: not before the first stop, not
\* when the launch fails half-way.
NeverUntraced == mode = "run" /\ code = "program" /\ pc # "done" => proc # "free"

\* No signal the process stops for is lost or delivered twice, except that of the
\* one stop the launcher collects: `Stopped(_, _)` forgets it, and nothing delivers
\* it ("saved and re-delivered" holds from the hand-over on).  When that was not the SIGSTOP of PT_ATTACH,
\* the SIGSTOP is not lost with it: it is still to come, or has stopped the
\* process in the session.
OnlyFirstStopDrops ==
  /\ SignalConservation
  /\ \A s, t \in dropped : s = t
  /\ mode = "trace" /\ HandedOver => SigStop \in dropped \cup posted \cup reported

\* The launch comes to an end, with a session or with tdb gone.
LaunchEnds == <>LaunchEnded

\* A program tdb starts is at its first instruction when tracing begins ("the
\* kernel stops it at the first instruction -- no race condition").
StopsAtFirstInstruction == mode = "run" /\ HandedOver => code = "program"

=============================================================================
