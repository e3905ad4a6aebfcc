# A TLA+ verification of TDB

TDB is a timeless debugger for macOS: it runs a program one instruction at a
time under `ptrace`, records the state of the CPU before each instruction, saves
the trace to a file and shows it in a terminal or a browser. This directory
holds TLA+ modules translated from its Rust source, the TLC configurations that
check them, and theorems about them that TLAPS proves.

Paths such as `tracer/trace.rs` are below `src/src/`.

## 1. The system

### Components

| Component | State | Operations | Module |
|---|---|---|---|
| Tracer, `tracer/trace.rs` | `db`, `step_count`, `memory_cache`, `last_sp`, `call_depth`, `pending_signal` | `new`, `single_step`, `detach` | `Tracer` |
| Mach access, `tracer/mach.rs` | a task port | attach, read threads, registers, memory | the reads in `Tracer`, `NewTracer` in `Launcher` |
| Trace loop, `main.rs` | `running`, `error_count`, the three counters of the summary, the output file | `trace_loop`, the Ctrl+C handler | `TraceSession` |
| Trace database, `storage/mod.rs` | a `BTreeMap` behind an `RwLock`, a path | `insert`, `count`, `save`, `load`; `get`, `get_range`, `get_all` | `TraceDb`; `TraceStats` and `Server` |
| Launcher, `launcher/mod.rs` and the start of the commands in `main.rs` | a pid, the child of fork | `launch`, `attach`, `Tracer::new`, `set_handler` | `Launcher` |
| Statistics, `stats/mod.rs` | none | `analyze` | `TraceStats` |
| HTTP server, `server/mod.rs` | a loaded database | `view_trace`, `serve`, four API handlers | `Server` |
| Web viewer, `web/index.html` | the trace, the current entry, registers to compare with, the filtered list, the rows that exist, the scroll position | `load`, navigation, filter, virtual scrolling, help | `WebViewer` |
| Terminal viewer, `tui.rs` | `App` | one operation per key, the panes | `Tui` |
| The traced process and the kernel | registers, stack, signals, a wait status | run, sleep, exit, stop for a signal | `Tracee` (environment) |

### How they interact

`tdb run` forks a child that asks to be traced and calls `execvp`; `tdb trace`
attaches to a process. Both wait for the first stop, build a `Tracer`, install the
Ctrl+C handler and enter `trace_loop`. The loop calls `single_step` until
the handler has cleared the flag `running`, the process is gone, or more than ten
errors followed each other; then it saves the database, detaches and prints the
summary. `single_step` reads the process through Mach calls, inserts an entry,
resumes the process with `PT_STEP` (passing on the signal of the previous stop)
and blocks in `waitpid`. Concurrent with the loop are the traced process, the
kernel's signals, and the thread on which the `ctrlc` crate runs the handler; the
only state they share with the loop is the flag, the wait status and the process
itself. The viewers and the statistics start from a saved file and never write.
`tdb view` loads the file once and serves it to any number of clients, one of which is
the page it embeds: the page fetches the whole trace and works on its own copy.

### What is hard

* An entry is committed before the step it describes. The step can then fail, be
  pre-empted by a signal, sleep, or end the process.
* A signal has to be carried from one `waitpid` to a later `PT_STEP`, in whatever
  order errors, stops and Ctrl+C come.
* The process can be killed between any two calls, and its exit status can be lost.
* Ctrl+C reaches the tracer, and in `run` mode also the traced process, at any
  point of a step.
* Memory changes are differences against a cache of windows that are read only
  now and then.
* `save` truncates the file and then writes it; a crash or a full disk can come
  between.
* Before the first stop the child runs tdb's own code, and signals, failures and Ctrl+C
  can come at any point of the launch.
* A panic in a handler of the server must cost no more than one connection.
* The page can be used while the trace is on its way. Of its list only the rows near the
  visible part exist, the browser moves the scroll position by itself and reports it
  later, and the rows have to follow filter, scroll position and current entry.
* In the terminal viewer, three things must agree (the filter, the list's selection and the
  current entry) and the list widget changes one of them when it draws.

### What makes each part correct

| Part | Correct when | Checked as |
|---|---|---|
| Tracer | no executed instruction is missing, the order is that of execution, a state is repeated only for a signal | `NoMissedInstruction`, `TraceInOrder`, `RepeatsOnlyForSignals`, `RecordsFaithfully`, `RecordsExactly` |
| Tracer | it looks at the process only while that is stopped | `SteppedOnlyWhenStopped` |
| Tracer | signals are neither lost nor delivered twice | `SignalConservation`, `OnlyFirstStopDrops` |
| Tracer | depths count frames, memory changes are differences of readings | `DepthCountsFrames`, `DepthAfterExecution`, `MemChangesFollowMemory` |
| Loop | it ends when the process dies or the user asks, soon, with the trace saved and a summary that counts it (it does not count the step that ends the process) | `DeathEndsSession`, `CtrlCEndsSession`, `StopsWithinOneStep`, `SavedTraceComplete`, `SummaryAtReport`, `SummaryAgrees` |
| Database | a file loads as the whole trace or not at all | `ReloadIsWhole` |
| Launcher | it hands over a stopped process that has executed nothing under the tracer, or ends; what it starts never runs untraced; it loses no signal but that of the first stop | `ImplementsSession`, `LaunchEnds`, `NeverUntraced`, `StopsAtFirstInstruction`, `OnlyFirstStopDrops` |
| Statistics | they describe the trace, whatever the order of a hash map | `StatsDescribeTrace` |
| Server | its answers fit together, every request ends, and only a backward range fails | `AnswersFitTogether`, `EveryRequestEnds`, `OnlyBackwardRangesFail` |
| Web viewer | loading settles; rows, list, filter box and entry agree; the header agrees with the statistics | `PageSettles`, `RowsShowTheList`, `NoBlankRows`, `ListFollowsBox`, `MarksChangedRegisters`, `HeaderAgreesWithStats` |
| Terminal viewer | no key leads outside the trace; search shows matches; list, details and panes agree | `TuiTypeOK`, `SearchShowsFirstMatch`, `TypingNarrows`, `SelectionFollows`, `SelectionShowsCurrent`, `PanesAgree`, `MarksWhatChanged` |

## 2. The modules

```
 Tracee (environment)        TraceDb                  Recorder (abstract)
         \                 /        \                     |
          \               /          TraceStats           |
           \             /          /     |    \          |
               Tracer              /    Server  Tui       |
                  \               /       |       \       |
                   TraceSession --        |       MCTui   |
                    |        \ \------------ refinement --+
                    |         \           |
             MCTraceSession    Launcher   WebViewer
                                  |           |
                             MCLauncher   MCWebViewer

 TraceSessionProofs (types)                          StatsProofs
         |                                          /     |     \
 RecordingProofs (order, completeness,             /  TuiProofs  WebViewerProofs
         |   refinement, end of a session)        /
         |\--- EntryProofs (contents of entries) -
         |
   SignalProofs --- LauncherProofs
```

The lower part shows which theorems rest on which. Each proof module extends the module it
is about; `EntryProofs` takes `StatsProofs` by INSTANCE for the summary, `TuiProofs` for
the header.

`TraceSession` and `Tui` take `TraceStats` by INSTANCE, `Server` extends it, and
`WebViewer` (the page) extends `Server`: the run `web` checks the two together.
`Launcher` extends `TraceSession` and is shown to implement it, by the runs and in
`LauncherProofs`.

**`Tracee`** is the environment, no part of which is code of the repository: it is
modelled from how the tracer uses it. The program is arbitrary. Whenever an instruction
retires, the next one is any instruction with any stack pointer, and one that writes
may have changed a byte of the stack. Every new state of the CPU gets a
number, its *tick*, which stands for the contents of the registers; an entry that
shows tick `t` shows exactly that state. `proc` says whether the process is stopped,
running, asleep, dead or detached, `status` is what `waitpid` would return, and
`posted`, `reported`, `carried`, `delivered` follow each signal. The constant `Env`
selects the events a run allows: `interrupt` (Ctrl+C), `signal`, `kill`, `reap` (the
exit status is lost), `stepfail` (`PT_STEP` fails for a stopped process),
`writefail`, `crash`. What is assumed about the kernel:

* a signal passed to `PT_STEP` is delivered before the next instruction. If a handler
  runs, the step ends at the handler's first instruction; a fatal one ends the process;
  an ignored one changes nothing and the instruction is executed;
* a signal can stop the process before the instruction, after it, or in its sleep;
* a process that sleeps wakes up or does not, at will;
* a tracer that ends takes its traced processes with it;
* when `SIGCHLD` was inherited as ignored, an exit leaves no status and `waitpid`
  returns `ECHILD`;
* there is one thread (the code looks at `threads[0]` only).

**`Tracer`** is `tracer/trace.rs`. `single_step` is one sequential function, cut where
another actor can come in between: `ReadRegisters` (lines 80-99), `Decode` (101-124),
`Record` (126-217: depth, memory changes, insert), `StepSucceeds`/`StepFails`
(`ptrace::step`, 219-224), and `WaitTrap`/`WaitSignal`/`WaitExited`/`WaitFails`, the arms
of the match on `waitpid`. A process killed between the Mach calls makes the next one
fail (`ReadFails`), or, when only the stack is left to read, the entry is made without
memory changes. `DecodeFails` keeps `last_sp` and nothing else, as the code does;
`StepFails` has already emptied `pending_signal`.

**`TraceSession`** is `trace_loop` with the file, the user and the handler thread. Each
arm of the match on the result of `single_step` is an action. `SaveFails` is the
`expect` on `save`, which panics before the detach; `Crash` is the death of tdb
anywhere.

**`TraceDb`** has the database's operations as operators and the file as a count and
entries, so that a write that stops half-way is a count with fewer entries.
`load` of a file that lacks bytes fails, because bincode reads the count first.

**`Launcher`** puts the start of `run` and `trace` before the session: `Fork`, the child's
branch (`TraceMe`, `Exec`, or `EndsEarly` with code 127), `Attach`, the match on the first
wait status (`FirstStop`, `FirstWaitFails`), `NewTracer`, `SetHandler` and their panics.
`code` says what the process executes. Signals, SIGKILL and Ctrl+C may come at any of these
points; before `SetHandler` Ctrl+C ends tdb, and so may SIGKILL or SIGTERM to tdb at any
point (`KillEndsLaunch`): a traced process goes with it, a child that is not traced yet lives
on by itself. `FirstStop` takes any stop, as the code does; the history variable `dropped` keeps
the signal of that stop, which the code forgets. The refinement mapping shows the session's
initial state until the hand-over and the real one after it. `Tracer::new` failing is a
crash of the session it would have been, because the kernel kills the process.

**`TraceStats`** is `TraceStats::analyze` with `get_all` and `get_range`, which lists the
entries whose keys are in the range, in the order of the keys. `analyze` is the
set of the results the code may return: `max_by_key` takes any of the most frequent
addresses and equally frequent mnemonics are listed in any order, because both come from
a `HashMap`. `StatsDescribeTrace` compares the result with counts over the whole trace.

**`Server`** is `view_trace` and `serve`: `Start`, `StartFails` (the `expect` on `load` and
the `unwrap` on the bind), and `Handle`, which answers the request of a client with what
the handler returns. Nothing writes the database, so that a handler is one step whatever
the runtime's threads do. A loaded database is one that `insert` built (`IsSaved`): finitely
many entries, each under its own step. `get_range` panics for a backward range; the runtime closes that
connection (`Dropped`) and goes on. `StopServer` is Ctrl+C; a request that comes after it
(`AskTooLate`) gets no connection.

**`WebViewer`** is the page: `OpenPage` sends the request, to a server that may have stopped
since it served the page, `Load`, `LoadNothing` and
`LoadFails` are the three ends of `load`, `RenderVisible`, `ScrollToActive`, `Show` and
`applyFilter` are the functions of these names, and each key, click and button is an
action. Scrolling and the event it causes are two steps. The header counts the way the page
does, in passes of its own over the entries (`CallCount` is the `filter` whose length is taken,
`MemCount` the `reduce`), not with the operators of `TraceStats`. Lengths are in half pixels:
the middle of a list of odd height is at half a pixel, and the browser may keep or round it
(`Settable`). Register values pass through `Double`, because `JSON.parse` rounds integers above
2^53. Where the focus decides what a key does, both are possible; the overlay with the help takes
the shortcuts and the mouse, while a button or box that has the focus still acts behind it.
The history variable `unapplied` marks a text that was in the filter box when the trace
arrived, until the box is used again.

**`Recorder`** is the abstract specification: a log of CPU states in which an
instruction runs only after the state it starts from is the last one of the log.
`Exact` forbids listing a state twice.

**`Tui`** is `App` and its three key handlers, with operators for what the header, the
timeline and the panes of registers and memory draw. `Draw` is the list widget (ratatui
0.29), which drops the selection of an empty list and moves one beyond the end to the
last line. `filtered_indices` is ascending in the code and a set here.

Operators marked `bug:` in the modules are variants of the definition below them with
a mistake a programmer could make. No specification uses them; they exist to show that
a property notices the mistake.

## 3. The runs

Passing runs:

| Run | Question | Bounds |
|---|---|---|
| `session_faults` | Does the trace stay complete, ordered and loadable under every event, and does the session end? | two signals, 3 CPU states, every event |
| `session_clean` | Without signals and failures, is the trace the execution, is the depth right, and what does the summary at the end count? | 5 CPU states of 4 kinds of instruction |
| `session_memory` | Are memory changes the differences between readings, also when the process is killed between two reads? | 3 CPU states, 3 bytes, 3 windows of 2 bytes |
| `launch_signals` | Does the launch hand over a session as `TraceSession` has it, does it end, and is no signal lost but that of the first stop? | three signals (SIGSTOP one of them), 3 CPU states, SIGKILL to the process and to tdb, `PT_STEP` not failing |
| `web` | Do the server's answers fit together, and does the page show what it holds? | four files (4 entries, 2, none, no file), two clients, six requests, one filter text |
| `tui_navigation` | Do filter, selection, current entry and panes agree? | traces of 1 to 4 entries, queries of 2 characters |

Runs that show a disagreement (section 6): `signal_dropped`, `ctrlc_asleep`,
`depth_drift`, `summary_lags`, `tui_selection`, `launch_race`.

Why the bounds are enough to meet the interesting cases:

* `MaxTick` bounds the CPU states of a program. Hazards of the tracer concern an entry
  and the one after it; three states have a first, a middle and a last one. The depth
  needs more: `session_clean` has five, which allow a return above the start, two
  nested calls, and a return from them. `session_memory` needs three, to read a window,
  leave it, and read it again; with stops by a signal it makes up to four entries.
* `MaxErrors` is 1 (10 in the code; 0 in `session_memory`, where no step fails). The
  limit is reached, and not reached because an `Ok` resets the counter. The proofs hold
  for every limit.
* Each signal is sent at most once and Ctrl+C is pressed once. A second Ctrl+C would
  not change the flag again, and for the process it is one more signal, of which the runs have
  two.
* `Below` and `CheckSize` are 1 or 2 (128 and 256 in the code). In `session_memory` the
  windows of stack pointers 1 and 2 overlap, as windows do in practice, and that of 3
  is not mapped, so that the read fails. For stack pointer 1 the base is where
  `saturating_sub` bottoms out.
* Sets of instructions have one member of each kind that the run's properties tell
  apart. Between them the runs fire every action and every disjunct.
* In `Tui`, entries are three combinations of text, kind, registers and memory changes;
  `Page` is 2 (50 in the code), which exceeds the shortest traces and is within the
  longest.
* In `web`, the list is 3 pixels high with rows of 2 and no buffer (28 pixels and 15 rows in
  the code): four entries have places above, in and below the visible part, rows are
  cut by its edge, and centring a row of an odd height in view gives half a pixel.
  `Page` is 3, so that it leads past either end from some entries.
  `MaxListed` is 2 for three mnemonics (20 in the code), `MaxExact` is 4 (2^53), and the
  traces have registers on both sides of it.

Deadlock is checked in all runs but `web`, where the server may be stopped: a session that has ended takes the step
`Terminated`, a viewer that has quit `HasQuit`. That nothing else deadlocks includes
that every wait status `waitpid` returns has an arm that handles it.

### Fairness

`FairSpec` assumes weak fairness of the loop (a thread that can run is scheduled), of
the handler's thread, and of the traced process when it can run. It assumes none for
waking up from a system call, for signals, for Ctrl+C or for faults: nothing in the
code or the kernel guarantees them. So `CtrlCEndsSession` fails, and holds under the
premise that the process is awake again and again
(`CtrlCEndsSessionUnlessAsleep`). `DeathEndsSession` holds without a premise, even when
the exit status is lost: `waitpid` then fails, each retry fails at the Mach calls, and
the error limit ends the loop.

`LaunchFairness` assumes that tdb runs and that the child, which is in tdb's own code
until `execvp`, does (`ChildProgress`); a process that is attached to stops or ends, which
is what PT_ATTACH sends SIGSTOP for. `WebFairness` assumes that the runtime takes every
request that has arrived and that the page's script continues when its answer is there.
It assumes nothing about the user, the start of the server or its end.

## 4. What is proved

TLAPS proves every invariant and every action property of the passing runs, and both
refinements, for all values of the constants: for programs of any length, any stack,
window size, set of signals and error limit; for traces and queries of any length; for
any number of clients, any files, any height of the list and its rows. What the
constants must satisfy is stated in `TraceeAssumption`, `TracerAssumption`,
`SessionAssumption` (the sets of instructions are subsets of `Insns`, calls are not
returns, stack pointers are positive, bounds are naturals), `LauncherAssumption` (SIGSTOP
is a signal other than SIGINT), `TuiAssumption`, `StatsAssumption`, `ServerAssumption` and
`WebAssumption` (files hold saved databases, registers are naturals, no instruction is both a
call and a return, heights are positive, odd or even). TLC evaluates each of them in the runs.

| Theorem | States | If |
|---|---|---|
| `TypeCorrect` | `Spec => []TypeOK` | |
| `ReadsAStoppedProcess` | `Spec => []SteppedOnlyWhenStopped` | |
| `NothingIsMissed` | `Spec => []NoMissedInstruction` | |
| `TraceIsInOrder` | `Spec => []TraceInOrder` | |
| `RecordingRefinesRecorder` | `Spec => RecordsFaithfully`: the session implements `Recorder` | |
| `RecordingRefinesExactRecorder` | `Spec => RecordsExactly`: ... and lists no state twice | `Undisturbed` |
| `ChangesFollowMemory` | `Spec => []MemChangesFollowMemory` | |
| `DepthIsFrames` | `Spec => []DepthCountsFrames` | `Undisturbed`, no `kill` |
| `SummaryLacksOnlyLast` | `Spec => []SummaryAtReport`: the summary counts all entries, or all but the last when the process has ended | no `stepfail`, `kill`, `reap` |
| `SignalsAreConserved` | `Spec => []SignalConservation` | no `stepfail` |
| `RepeatsAreSignals` | `Spec => []RepeatsOnlyForSignals` | no `stepfail` |
| `SavedTraceIsComplete`, `ReloadIsAllOrNothing`, `StopIsPrompt` | the three properties of how a session ends | |
| `LaunchImplementsSession` | `LaunchSpec => ImplementsSession`: `run` and `trace`, launch included, implement `TraceSession` | |
| `ProgramNeverRunsUntraced` | `LaunchSpec => []NeverUntraced` | |
| `LaunchedTraceIsWhole` | `LaunchSpec => []` of `NoMissedInstruction`, `TraceInOrder`, `SavedTraceComplete` and `ReloadIsWhole` | |
| `LaunchDropsOneSignal`, `LaunchedRepeatsAreSignals` | `LaunchSpec => []OnlyFirstStopDrops`, `... => []RepeatsOnlyForSignals` | no `stepfail` |
| `GetAllInOrder`, `TotalsCount` | `get_all` lists a database in order; `analyze` counts it | |
| `TuiTypeCorrect`, `SearchIsShown`, `SelectionIsShown`, `PanesAlwaysAgree` | the invariants of `Tui` | |
| `TypingOnlyNarrows`, `ChangedRegistersMarked` | the action properties of `Tui` | |
| `OnlyBackwardRangesClose`, `AnswersAlwaysFit`, `StatsAlwaysDescribe` | the invariants of `Server`, of `WebSpec` | |
| `HeaderIsStats`, `RowsAlwaysShowTheList`, `NoRowIsBlank`, `ListAlwaysFollowsBox` | the invariants of `WebViewer` | |
| `ChangedRegistersAreMarked` | `WebSpec => MarksChangedRegisters` | |

The third column is a condition on `Env` and `Modes`, the events that may happen.
`Undisturbed` says that nothing sends the process a signal (no `signal`, and Ctrl+C only in
`trace` mode, where the process is not in the foreground group) and that `PT_STEP` does
not fail for a stopped process; tdb may still crash, a write fail, an exit status be
lost. The conditions are needed: `signal_dropped` is a counterexample to the conservation of
signals under `stepfail`, in `depth_drift` one signal puts the depth off, and a step that
fails after `Record` leaves an entry that the summary does not count, whether `PT_STEP` failed,
the process was killed or its exit status was lost.

### The argument: the session

None of the properties is inductive. What carries them:

1. `TypeInv` adds two facts to `TypeOK`: while the session goes on, the error counter is
   at most `MaxErrors` (so that counting one more keeps its type), and the memory changes
   of each entry are finitely many (so that adding their number keeps the summary's).
2. `Control` relates the control point to the process: it runs or sleeps only while tdb
   is in `waitpid` and has nothing to collect, a stop to collect means that it is stopped
   and tdb in `waitpid`, and it is free only when the session is done.
   `SteppedOnlyWhenStopped` is a consequence.
3. `Faithful` is the core. *Armed*: whenever the process may execute (it runs, sleeps, or
   is about to be resumed), the last entry shows the present CPU state. *Ordered*: entries
   are numbered by their steps, their ticks ascend, and none is ahead of the CPU.
   *NoMissedInstruction*: executed ticks are recorded. *Ahead*: the current instruction of a
   live process has not been executed. `Execute` needs *Armed* to keep *NoMissedInstruction*, `Record`
   establishes *Armed*, and `Control` is what keeps the process from moving between the two.
4. The refinement maps `log` to the ticks of the entries in order, `cur` to the
   present tick and `ran` to the executed ticks. Record steps map to `Record`, retiring
   steps to `Execute`, signal handlers to `Divert`, everything else stutters.
   `Faithful` gives the guards of the abstract steps.
5. `ExactInv` (`EntryProofs`) says that a state is not recorded yet when tdb is anywhere
   between the top of the loop and `Record`, or has a trap to collect. Without signals every
   stop is a trap after an instruction that retired, which is what makes it inductive, and it
   is the guard of the exact recorder.
6. `MemoryInv` ties `memory_cache` to the entries: what is cached for a window is the stack as
   it was at the entry that read this window last, every window read by some entry
   is cached, and `last_sp` is the stack pointer of the last entry. Only then is the
   comparison in `Record` one with the last reading. It holds as long as a further `Record`
   may come; a process killed between the Mach calls leaves one last entry without changes.
7. `DepthInv` says where the call that is counted is: between `Record` and the retirement of
   the instruction `call_depth` is already what the frames will be *after* it
   (`DepthAfter`), at every other point what they are now.
8. `SummaryInv`: the summary counts all entries, except between `Record` and `HandleOk`,
   where it lacks the last; if the process exits in between, `HandleOk` is not reached, and what
   is printed lacks it too. That `Totals` of one entry more adds that entry is
   `TotalsAppend` in `StatsProofs`.
9. `SignalPlaces` adds to conservation where a signal can be at which control point, and
   that a signal that is posted has not been reported yet. `TakeSignal` and `PtraceStep` move
   a signal in the same step, which is what `stepfail` breaks.
10. `RepeatInv` counts in advance: if the process stopped before its recorded instruction
    retired, a further entry for the same state is *owed*, and `step_count` plus what is owed
    is at most the number of different states plus that of reported signals. A
    stop for a signal pays with the signal; `Record` only collects what is owed.
11. `EndInv` says which image the file holds at each control point (the old one, the whole
    trace, or a torn one after a crash), and that `step_count` exceeds `stopAt` by at most
    one, and not before the step that was about to begin is recorded.
12. `LauncherProofs` shows that the launch implements the session. `LaunchInv` says that
    before the first stop is collected, a stop to collect means that the process is stopped,
    that SIGINT is not among the signals under way, and that without signals from outside
    nothing but the SIGSTOP of the attach is, and not beside another stop. The steps before
    the first stop are stutters of the session; the first stop is a stutter too, or the
    arrival of the signals that were under way (`PostSignals`, whose guards `LaunchInv` gives);
    a failure of `Tracer::new` or `set_handler` is a `Crash`. From the loop on, one
    lemma per action (`SameRecord`, `SameWait`, ...) shows it to be the session's
    action under the substitution.
13. `CommandInv` carries the invariants of a session over to the commands: before the
    hand-over the session's variables are as at the start and what was reported is what the
    wait status shows (`EarlyInv`), then the process is stopped or dead (`ReadyInv`), and
    a session's invariants hold from the loop on. `ReadyBegins` is the step between: they
    do not need `Init`, only a process that is stopped or was killed, with or without signals
    posted meanwhile. `DropInv` adds what the first stop dropped: at most one signal, and if that
    is not the SIGSTOP of the attach, the SIGSTOP is still posted or has been reported.

### The argument: the viewers

1. `StatsProofs` is about the operators. `analyze` is a fold, a function defined by recursion on
   sets of indices, and `get_all` sorts a set. The proofs use the well-founded order of
   the naturals (`WFMin`, as `LeastNumber`): were the fold not what it should be,
   there would be a least index at which it is not. So `TotalsCount` is proved for lists of any
   length. `GetAllInOrder` is shown through `Rank`, the number of steps up to one.
2. `TuiInv` is the type invariant, `SearchShowsFirstMatch` and `Follows`: unless a search
   was cancelled, the selection is the place of the current entry whenever the list has
   it, drawn or not. `Draw` would correct a selection beyond the end of the list;
   `Follows` shows that there is nothing to correct. `PanesAgree` follows from `TotalsCount`.
3. `ServerInv` says that an answer a client holds is one the handler gives to the request
   *this* client sent, or the end of its connection by a stop. The file never changes, so that
   all answers are about one database, and the properties are lemmas about `Respond`:
   `get_range` by keys and `get_all` agree on every entry (`GetAllInOrder`), statistics
   agree with `TotalsCount`. That the header agrees with them is a lemma about loops of two
   kinds: the entries the `filter` keeps are the calls and the returns, two disjoint sets
   (`CallsAndReturns`), and the `reduce` reaches at each index what the fold of `analyze` does
   (`MemCountIsReduction`).
4. `PageInv` says that the page holds the whole trace once it is ready and nothing
   before, and that `prevRegs` are the rounded registers of the current entry. The mark
   for a changed register compares with `prevRegs`, so `MarksChangedRegisters` needs it.
5. `ListInv` relates rows, list, scroll position and current entry: a row stands at the place
   of its entry, one row at most is at each place, the current entry's is marked, and, unless
   a scroll event is due, `renderVisible` has filled every place from `StartFi` to
   `EndFi`. Its lemmas are one for each of `renderVisible`, `scrollToActive`, `Show` and
   `applyFilter`. `NoBlankRows` is then arithmetic: rounding down at the top and up at the
   bottom covers each place that is partly visible, for every height in half pixels.

Two definitions were changed to reason about them: `get_range` restricts the database by
its keys, as `BTreeMap::range` does, instead of filtering the list; and what the server
assumes of files is stated (`IsSaved`) instead of being left to the instances of the runs.

### What is only model-checked

* The five liveness properties `DeathEndsSession`, `CtrlCEndsSessionUnlessAsleep`, `LaunchEnds`,
  `EveryRequestEnds` and `PageSettles`: TLAPS does not reason about `ENABLED` and fairness here.

## 5. What is not modelled

* Instruction text, operands, register JSON, colours, layout, argument parsing, usage text,
  `TraceStats::print`: wording and formatting. A mnemonic is its kind (call, return,
  branch, store, other), and the kinds are constants, so that `is_store_mnemonic`,
  `is_branch_mnemonic` and the annotations are abstracted to the sets they define.
* The labels of the detail panes: their own rules for what a branch is differ from each
  other and from `is_branch_mnemonic` (tui.rs:463 takes every mnemonic that starts with b
  or j, and misses cbz), but nothing else depends on them.
* An `execvp` by the traced program itself, and the program it then runs.
* In the page: resizing the window (nothing listens to it, so that rows stay missing until
  the next scroll), the export of the loaded trace, and where the focus is.
* Several threads: `PT_STEP` resumes all of them while only `threads[0]` is read. This
  is listed as a hazard; it would need a model of the scheduler.
* What the process does after `detach`; a signal still pending then is not passed on.
* Ports, buffers and structure layouts in `mach.rs`.
* The lock of the database: in a session one thread uses it, and the server only reads.
* Routing, and query strings that do not parse.
* Examples, build files and the tests of the command line have no logic to model.

## 6. Disagreements the runs show

* `signal_dropped`: `pending_signal.take()` (trace.rs:221) runs before `PT_STEP` is
  tried. If that fails, the retry passes no signal. README.md:201 promises re-delivery.
* `ctrlc_asleep`: while the process sleeps in a system call, tdb is in `waitpid` and
  does not see the flag (main.rs:128). README.md:83 says Ctrl+C stops tracing.
* `depth_drift`: a stop for a signal before a call makes the call be recorded and
  counted twice (trace.rs:232), although `single_step` is documented to execute exactly
  one instruction (trace.rs:67). The run ends after the call has been executed: its last
  entry says depth 2, and the program is in one frame.
* `summary_lags`: the step that ends the process is recorded, and the arm of `ProcessExited`
  (main.rs:176) leaves the loop without counting it. The summary printed at the end lacks the
  calls, returns and memory changes of that entry, which `tdb stats` counts ("Statistics
  summary", README.md:32). `SummaryAtReport` says that this is the only difference.
* `tui_selection`: Esc restores the whole list (tui.rs:250) and not its selection.
* `launch_race`: `launch` takes any stop for that of exec (launcher/mod.rs:40). A signal
  between PT_TRACE_ME and `execvp` stops the child earlier, and the trace begins in tdb's
  own code; launcher/mod.rs:12-13 and README.md:198 rule this out. The signal of that stop is
  forgotten, as it is in `attach` (launcher/mod.rs:62), where a signal may stop the process
  before the SIGSTOP does: the process never gets it. README.md:201 promises re-delivery for
  signals that come during stepping; `OnlyFirstStopDrops` says that no others are lost.

Seen while modelling, without a run of their own:

* src/README.md:96-103 lists keys of the terminal viewer that `handle_normal_key` does not
  have (Ctrl+d and Ctrl+u, n and N, Tab).
* Memory is compared before the instruction runs (trace.rs:154), so that an entry shows
  the effects of earlier instructions and never its own, where src/README.md:13-17 speaks of
  what every instruction changes. `MemChangesFollowMemory` states which readings are compared.
* CALLS in the header of the page counts calls and returns (index.html:650), in `tdb stats`
  and the terminal viewer it is calls only. `HeaderAgreesWithStats` shows the two differ by exactly
  the returns: a trace of one call and one return is shown with two calls.
* When the filter excludes the entry shown, the row marked before may stay marked
  (index.html:723), which `RowsShowTheList` allows for.
* A text typed into the filter before the trace arrives is not applied to it until the box
  is used again (index.html:659), the exception in `ListFollowsBox`.
* Escape in the filter box works as documented; Escape in the step box applies the filter
  again, to the same effect.
* Two register values above 2^53 that round to the same double are not marked as changed
  in the page (index.html:777), the exception in `MarksChangedRegisters`.

## 7. What could be done next

Every component that carries logic has its module, and each invariant, action
property and refinement of the passing runs has its theorem. Beyond that:

1. `RecordsExactly`, `DepthCountsFrames`, `SummaryAtReport` and `MemChangesFollowMemory` of the
   commands, from `ReadyInv` as `LaunchedTraceIsWhole` is.
2. The rest of what `analyze` returns as lemmas (the mnemonics listed and their order), and
   `Double` as a lemma about rounding to the nearest even multiple.
3. How much the conditions of `DepthIsFrames` can be relaxed: after one signal the depth
   differs from the frames by at most the calls that were repeated.
