---------------------------- MODULE TraceSession ----------------------------
(***************************************************************************)
(* A tracing session: trace_loop of src/main.rs, which drives the tracer   *)
(* until the process ends, Ctrl+C is pressed or too many errors follow     *)
(* each other, and then saves the trace and detaches.  It runs beside the  *)
(* traced process, the thread of the Ctrl+C handler and the user.          *)
(***************************************************************************)
EXTENDS Tracer

CONSTANTS
  MaxErrors,   \* errors in a row that are put up with: 10
  Modes,       \* "run": tdb started the program; "trace": it attached to it
  OldTrace     \* what the output file holds before the session

ASSUME SessionAssumption == MaxErrors \in Nat /\ Modes \subseteq {"run", "trace"}

VARIABLES
  mode,
  ctrlc,         \* "idle" | "pressed" | "handled"
  running,       \* the flag of the handler
  error_count,
  summary,       \* [calls, returns, mem]: call_count, return_count, mem_change_count
  file,          \* the output file
  stopAt         \* history: step_count when running became FALSE

sessionVars == << mode, ctrlc, running, error_count, summary, file, stopAt >>
loopVars    == << mode, ctrlc, running, file, stopAt >>
vars        == << pc, tracerVars, traceeVars, sessionVars >>

NoEntries == [calls |-> 0, returns |-> 0, mem |-> 0]

SessionTypeOK ==
  /\ mode \in Modes
  /\ ctrlc \in {"idle", "pressed", "handled"}
  /\ running \in BOOLEAN
  /\ error_count \in 0 .. MaxErrors + 1
  /\ summary \in [calls : Nat, returns : Nat, mem : Nat]
  /\ stopAt \in Nat

LoopInit ==
  /\ mode \in Modes
  /\ ctrlc = "idle"
  /\ running = TRUE
  /\ error_count = 0
  /\ summary = NoEntries
  /\ file = OldTrace
  /\ stopAt = 0

SessionInit == pc = "loop" /\ LoopInit

Init == TraceeInit /\ TracerInit /\ SessionInit

Finished == pc \in {"done", "crashed"}

-----------------------------------------------------------------------------
(* The loop. *)

LoopStops ==
  /\ pc = "loop"
  /\ ~running
  /\ pc' = "save"
  /\ UNCHANGED << tracerVars, traceeVars, sessionVars >>

\* bug: the flag is not looked at
LoopStepsUnchecked ==
  /\ pc = "loop"
  /\ pc' = "read"
  /\ UNCHANGED << tracerVars, traceeVars, sessionVars >>

LoopSteps ==
  /\ pc = "loop"
  /\ running
  /\ pc' = "read"
  /\ UNCHANGED << tracerVars, traceeVars, sessionVars >>

StepTracer == single_step /\ UNCHANGED sessionVars

One(b) == IF b THEN 1 ELSE 0

\* bug: every annotated entry is counted as a call
CountedAnnotated(e) ==
  [calls   |-> summary.calls + One(e.insn \in Calls \cup Returns),
   returns |-> summary.returns + One(e.insn \in Returns),
   mem     |-> summary.mem + Cardinality(e.mem_changes)]
Counted(e) ==
  [calls   |-> summary.calls + One(e.insn \in Calls),
   returns |-> summary.returns + One(e.insn \in Returns),
   mem     |-> summary.mem + Cardinality(e.mem_changes)]

\* Ok(entry)
HandleOk ==
  /\ pc = "ok"
  /\ error_count' = 0
  /\ summary' = Counted(db[step_count - 1])
  /\ pc' = "loop"
  /\ UNCHANGED << tracerVars, traceeVars, loopVars >>

\* bug: the session ends without saving
HandleExitedUnsaved ==
  /\ pc = "exited"
  /\ pc' = "detach"
  /\ UNCHANGED << tracerVars, traceeVars, sessionVars >>

\* ProcessExited(code): the last entry is not counted.
HandleExited ==
  /\ pc = "exited"
  /\ pc' = "save"
  /\ UNCHANGED << tracerVars, traceeVars, sessionVars >>

\* bug: errors are not counted
CountErrorNever == error_count' = error_count
CountError      == error_count' = error_count + 1

\* bug: an off-by-one in the limit
HandleErrorLate ==
  /\ pc = "error"
  /\ CountError
  /\ pc' = IF error_count' > MaxErrors + 1 THEN "save" ELSE "loop"
  /\ UNCHANGED << tracerVars, traceeVars, loopVars, summary >>

\* bug: the call is retried on the spot
HandleErrorRetry ==
  /\ pc = "error"
  /\ pc' = "read"
  /\ UNCHANGED << tracerVars, traceeVars, sessionVars >>

HandleError ==
  /\ pc = "error"
  /\ CountError
  /\ pc' = IF error_count' > MaxErrors THEN "save" ELSE "loop"
  /\ UNCHANGED << tracerVars, traceeVars, loopVars, summary >>

-----------------------------------------------------------------------------
(* The end. *)

\* tracer.db().save().expect(..)
Save ==
  /\ pc = "save"
  /\ file' = Serialize(db)
  /\ pc' = "detach"
  /\ UNCHANGED << tracerVars, traceeVars, mode, ctrlc, running, error_count, summary, stopAt >>

\* tdb is gone, whatever it was doing, and the kernel kills what it traced.
Die ==
  /\ pc' = "crashed"
  /\ KillTracee
  /\ UNCHANGED << tracerVars, cpu, stackAt, posted, carried, executed, reported, delivered,
                  frames, lowest, mode, ctrlc, running, error_count, summary, stopAt >>

\* The file cannot be opened, or the disk fills up: expect panics.
SaveFails ==
  /\ "writefail" \in Env
  /\ pc = "save"
  /\ file' \in {file} \cup TornImages(db)
  /\ Die

\* tdb is killed.
Crash ==
  /\ "crash" \in Env
  /\ ~Finished
  /\ file' \in {file} \cup (IF pc = "save" THEN TornImages(db) ELSE {})
  /\ Die

DetachAndReport ==
  /\ pc = "detach"
  /\ Detach
  /\ pc' = "done"
  /\ UNCHANGED sessionVars

-----------------------------------------------------------------------------
(* The user and the handler. *)

\* The terminal sends SIGINT to its foreground process group: to tdb, and to
\* the traced process too when tdb started it.
CtrlC ==
  /\ "interrupt" \in Env
  /\ ctrlc = "idle" /\ ~Finished
  /\ ctrlc' = "pressed"
  /\ posted' = IF mode = "run" /\ proc \in {"stopped", "running", "blocked"}
               THEN posted \cup {Interrupt} ELSE posted
  /\ UNCHANGED << pc, tracerVars, proc, status, cpu, stackAt, carried, executed, reported,
                  delivered, frames, lowest, mode, running, error_count, summary, file, stopAt >>

\* The ctrlc crate runs the handler on a thread of its own.
CtrlCHandler ==
  /\ ctrlc = "pressed" /\ ~Finished
  /\ ctrlc' = "handled"
  /\ running' = FALSE
  /\ stopAt' = step_count
  /\ UNCHANGED << pc, tracerVars, traceeVars, mode, error_count, summary, file >>

trace_loop ==
  \/ LoopStops \/ LoopSteps
  \/ StepTracer
  \/ HandleOk \/ HandleExited \/ HandleError
  \/ Save \/ DetachAndReport

TraceeStep == TraceeNext /\ UNCHANGED << pc, tracerVars, sessionVars >>

\* A session that is over.
Terminated == Finished /\ UNCHANGED vars

Next ==
  \/ trace_loop
  \/ TraceeStep
  \/ CtrlC \/ CtrlCHandler
  \/ SaveFails \/ Crash
  \/ Terminated

Spec == Init /\ [][Next]_vars

\* tdb and its handler thread are scheduled, and so is a traced process that
\* can run.  Nothing wakes a process that sleeps, and nobody has to press
\* Ctrl+C or send a signal.
Fairness ==
  /\ WF_vars(trace_loop)
  /\ WF_vars(CtrlCHandler)
  /\ WF_vars(TraceeProgress /\ UNCHANGED << pc, tracerVars, sessionVars >>)

FairSpec == Spec /\ Fairness

\* Every variable keeps its type; the trace is a function on the steps counted,
\* cached windows are whole and the errors in a row stay within the limit.
TypeOK == TraceeTypeOK /\ TracerTypeOK /\ SessionTypeOK

-----------------------------------------------------------------------------
(* Safety. *)

Recorded == {db[s].tick : s \in DOMAIN db}

\* Every instruction the process executed is in the trace, whatever signals,
\* failures of PT_STEP or deaths came in between (README.md: every instruction
\* that executes is recorded).
NoMissedInstruction == executed \subseteq Recorded

\* The trace has no gaps and never goes back in time: its steps are
\* 0 .. step_count - 1, and later steps show later states of the CPU.
TraceInOrder ==
  /\ DOMAIN db = 0 .. step_count - 1
  /\ \A s \in DOMAIN db : db[s].step = s /\ (s > 0 => db[s - 1].tick <= db[s].tick)

\* A state is in the trace more than once only because the process stopped
\* for a signal before it executed the instruction, once for each signal.
RepeatsOnlyForSignals ==
  step_count <= Cardinality(Recorded) + Cardinality(reported)

\* Outside waitpid, the traced process is stopped or gone: single_step looks at
\* registers and memory that do not change under it ("the process must already
\* be in a ptrace-stopped state").
SteppedOnlyWhenStopped ==
  pc \in ControlPoints \ {"wait", "done", "crashed"} => proc \in {"stopped", "dead"}

\* As long as it is traced, no signal the process stopped for is lost or
\* delivered twice: it is in the wait status, in pending_signal, on its way
\* back with PT_STEP or delivered, in exactly one of them.
InFlight == {status.sig, pending_signal, carried} \ {NoSignal}

SignalConservation ==
  proc \notin {"dead", "free"} =>
    /\ reported = delivered \cup InFlight
    /\ delivered \cap InFlight = {}
    /\ One(status.sig # NoSignal) + One(pending_signal # NoSignal) + One(carried # NoSignal) <= 1

\* A session that ends leaves a file that loads as the whole trace, whichever
\* way the loop ended ("Always save, even after Ctrl+C").
SavedTraceComplete ==
  pc = "done" =>
    /\ Loads(file) /\ file.entries = db
    /\ executed \subseteq {file.entries[s].tick : s \in DOMAIN file.entries}

\* A file that loads is never a part of the trace: it is the whole of it, or
\* the file of an earlier session, after a crash or a full disk too.
ReloadIsWhole ==
  Loads(file) => file = OldTrace \/ file = Serialize(db)

\* Once the flag of the Ctrl+C handler is down, at most one more instruction
\* is recorded.
StopsWithinOneStep == ~running => step_count <= stopAt + 1

\* The depth in the annotations is the number of frames of the program above
\* the outermost frame it has returned to since tracing began.
DepthCountsFrames == pc = "loop" => call_depth = frames - lowest

\* Once the instruction of the last entry has been executed, the depth in its
\* annotation ("function call depth tracking") is the number of frames the program
\* is in.
DepthAfterExecution ==
  pc = "loop" /\ step_count > 0 /\ db[step_count - 1].tick \in executed =>
    db[step_count - 1].depth = frames - lowest

\* The first k entries of the trace, and a summary that counts them as tdb
\* stats does.
Stats == INSTANCE TraceStats WITH Branches <- {}, MaxListed <- 20

FirstEntries(k) == [i \in 1 .. k |-> db[i - 1]]

Counts(list) ==
  LET t == Stats!Totals(list)
  IN  summary = [calls |-> t.calls, returns |-> t.returns, mem |-> t.mem]

\* The summary that is printed at the end counts every entry when the process
\* has outlived the trace, and every entry but the last when it has ended: the
\* step that ended it was recorded but never came back as Ok.
SummaryAtReport ==
  pc = "done" =>
    Counts(FirstEntries(IF proc = "dead" THEN step_count - 1 ELSE step_count))

\* The summary that is printed is what "tdb stats trace.tdb # Statistics
\* summary" finds in the file just saved.
SummaryAgrees == pc = "done" => Counts(Stats!get_all(file.entries))

\* The memory changes of an entry are the bytes of its window that differ
\* between its own state and the last earlier state at which the same window
\* was read, neither more nor fewer.  A window is read when the stack
\* pointer has moved since the previous entry or the instruction is a store.
\* (The last entry of a process that was killed may lack its changes.)
ReadsWindow(s) ==
  /\ Mapped(StackBase(db[s].sp))
  /\ \/ db[s].insn \in Stores
     \/ s > 0 /\ db[s].sp # db[s - 1].sp

LastReading(s) ==
  { r \in 0 .. s - 1 :
      /\ ReadsWindow(r) /\ StackBase(db[r].sp) = StackBase(db[s].sp)
      /\ \A q \in r + 1 .. s - 1 :
           ~(ReadsWindow(q) /\ StackBase(db[q].sp) = StackBase(db[s].sp)) }

ChangedBetween(t, u, window) ==
  { [addr |-> a, old_val |-> stackAt[t][a], new_val |-> stackAt[u][a]] :
      a \in {x \in window : stackAt[t][x] # stackAt[u][x]} }

MemChangesFollowMemory ==
  \A s \in DOMAIN db :
    ~(proc = "dead" /\ s = step_count - 1 /\ db[s].mem_changes = {}) =>
    db[s].mem_changes =
      IF ReadsWindow(s)
      THEN UNION {ChangedBetween(db[r].tick, db[s].tick, Window(StackBase(db[s].sp))) :
                    r \in LastReading(s)}
      ELSE {}

-----------------------------------------------------------------------------
(* Liveness, under FairSpec. *)

\* The death of the process ends the session, even when its exit status is
\* never seen.
DeathEndsSession == proc = "dead" ~> Finished

\* Ctrl+C ends the session ("Press Ctrl+C to stop tracing").
CtrlCEndsSession == ctrlc = "pressed" ~> Finished

\* ... if the process does not sleep for good in a system call.
CtrlCEndsSessionUnlessAsleep == []<>(proc # "blocked") => CtrlCEndsSession

-----------------------------------------------------------------------------
(* Refinement: the trace is the log of a Recorder. *)

Log == [i \in 1 .. step_count |-> db[i - 1].tick]

Lenient == INSTANCE Recorder WITH Exact <- FALSE, log <- Log, cur <- cpu.tick, ran <- executed
Strict  == INSTANCE Recorder WITH Exact <- TRUE,  log <- Log, cur <- cpu.tick, ran <- executed

\* Under every fault, the trace is a faithful log: instructions are recorded
\* before they run, in the order in which they run.
RecordsFaithfully == Lenient!RecorderSpec

\* Without signals and failures of PT_STEP, the trace is the execution: each
\* instruction is recorded exactly once.
RecordsExactly == Strict!RecorderSpec

=============================================================================
