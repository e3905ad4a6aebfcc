------------------------------- MODULE Tracer -------------------------------
(***************************************************************************)
(* The single-step engine, src/tracer/trace.rs.  One call of single_step   *)
(* is five steps of the model, between which the traced process may be     *)
(* killed or signalled: read the registers, read and decode the            *)
(* instruction, read the stack and record it all, resume the process with  *)
(* PT_STEP, wait for it to stop.                                            *)
(*                                                                         *)
(* A trace entry keeps its step, the number of the CPU state whose         *)
(* registers it shows (tick), the instruction and stack pointer of that    *)
(* state, the call depth of its annotation and its memory changes.         *)
(***************************************************************************)
EXTENDS Tracee, TraceDb

CONSTANTS
  Below,      \* the stack window starts this far below the stack pointer: 128
  CheckSize   \* bytes in the window: 256

ASSUME TracerAssumption == Below \in Nat /\ CheckSize \in Nat \ {0}

VARIABLES
  pc,              \* control point of tdb, see ControlPoints
  db,
  step_count,
  memory_cache,    \* window base -> contents when it was last read
  last_sp,         \* 0: no instruction was looked at yet
  call_depth,
  pending_signal

tracerVars == << db, step_count, memory_cache, last_sp, call_depth, pending_signal >>

\* In single_step: the first row.  Its result: "ok", "exited" and "error".
\* The other points belong to trace_loop.
ControlPoints == {"read", "decode", "record", "step", "wait",
                  "ok", "exited", "error",
                  "loop", "save", "detach", "done", "crashed"}

\* u64::saturating_sub
StackBase(sp) == IF sp > Below THEN sp - Below ELSE 0
Window(base)  == base .. base + CheckSize - 1

MemChange  == [addr : Nat, old_val : Bytes, new_val : Bytes]
TraceEntry == [step : Nat, tick : 0 .. MaxTick, insn : Insns, sp : SPs,
               depth : Nat, mem_changes : SUBSET MemChange]

TracerTypeOK ==
  /\ pc \in ControlPoints
  /\ step_count \in Nat
  /\ db \in [0 .. step_count - 1 -> TraceEntry]
  /\ DOMAIN memory_cache \subseteq {StackBase(p) : p \in SPs}
  /\ \A base \in DOMAIN memory_cache : memory_cache[base] \in [Window(base) -> Bytes]
  /\ last_sp \in SPs \cup {0}
  /\ call_depth \in Nat
  /\ pending_signal \in Signals \cup {NoSignal}

\* Tracer::new
TracerInit ==
  /\ db = EmptyDb
  /\ step_count = 0
  /\ memory_cache = EmptyDb
  /\ last_sp = 0
  /\ call_depth = 0
  /\ pending_signal = NoSignal

-----------------------------------------------------------------------------
(* Reading and recording. *)

\* mach_vm_read_overwrite fails unless all of the window is mapped, and when
\* the process has been killed meanwhile.
Mapped(base)     == Window(base) \subseteq 0 .. StackTop
Readable(base)   == proc # "dead" /\ Mapped(base)
ReadMemory(base) == [a \in Window(base) |-> stackAt[cpu.tick][a]]

LastSp(sp) == IF last_sp = 0 THEN sp ELSE last_sp

NeedsCheck(i, sp) == sp # last_sp \/ i \in Stores

Differences(old, new) ==
  { [addr |-> a, old_val |-> old[a], new_val |-> new[a]] :
      a \in {x \in DOMAIN new : new[x] # old[x]} }

\* The memory changes of the entry, when the window was read.
MemChanges(base) ==
  IF base \in DOMAIN memory_cache
  THEN Differences(memory_cache[base], ReadMemory(base))
  ELSE {}

\* bug: the window is cached only once
CacheWindowStale(base) ==
  [b \in DOMAIN memory_cache \cup {base} |->
     IF b \in DOMAIN memory_cache THEN memory_cache[b] ELSE ReadMemory(b)]
CacheWindow(base) ==
  [b \in DOMAIN memory_cache \cup {base} |->
     IF b = base THEN ReadMemory(base) ELSE memory_cache[b]]

\* bug: the depth of the frame a return leaves is kept at the bottom
NextDepthUnclamped(i) ==
  CASE i \in Calls   -> call_depth + 1
    [] i \in Returns -> IF call_depth > 1 THEN call_depth - 1 ELSE 1
    [] OTHER         -> call_depth
NextDepth(i) ==
  CASE i \in Calls   -> call_depth + 1
    [] i \in Returns -> IF call_depth > 0 THEN call_depth - 1 ELSE 0
    [] OTHER         -> call_depth

\* The Mach calls fail, or find no thread, once the process is gone.
ThreadsFound == proc # "dead"

ReadFails ==
  /\ pc \in {"read", "decode"}
  /\ ~ThreadsFound
  /\ pc' = "error"
  /\ UNCHANGED << tracerVars, traceeVars >>

\* The state of threads[0].
ReadRegisters ==
  /\ pc = "read"
  /\ ThreadsFound
  /\ last_sp' = LastSp(cpu.sp)
  /\ pc' = "decode"
  /\ UNCHANGED << db, step_count, memory_cache, call_depth, pending_signal, traceeVars >>

\* The bytes at the program counter cannot be read, or are no instruction: all
\* that is kept is the first stack pointer.
DecodeFails ==
  /\ pc = "decode"
  /\ ThreadsFound
  /\ cpu.insn \in Unreadable
  /\ pc' = "error"
  /\ UNCHANGED << tracerVars, traceeVars >>

\* bug: an instruction that cannot be decoded is stepped over
DecodeAnyway ==
  /\ pc = "decode"
  /\ ThreadsFound
  /\ pc' = IF cpu.insn \in Unreadable THEN "step" ELSE "record"
  /\ UNCHANGED << tracerVars, traceeVars >>

Decode ==
  /\ pc = "decode"
  /\ ThreadsFound
  /\ cpu.insn \notin Unreadable
  /\ pc' = "record"
  /\ UNCHANGED << tracerVars, traceeVars >>

NewEntry(checked) ==
  [step |-> step_count, tick |-> cpu.tick, insn |-> cpu.insn, sp |-> cpu.sp,
   depth |-> NextDepth(cpu.insn),
   mem_changes |-> IF checked THEN MemChanges(StackBase(cpu.sp)) ELSE {}]

Record ==
  /\ pc = "record"
  /\ LET base    == StackBase(cpu.sp)
         checked == NeedsCheck(cpu.insn, cpu.sp) /\ Readable(base)
     IN  /\ db' = Insert(db, NewEntry(checked))
         /\ memory_cache' = IF checked THEN CacheWindow(base) ELSE memory_cache
  /\ call_depth' = NextDepth(cpu.insn)
  /\ step_count' = step_count + 1
  /\ last_sp' = cpu.sp
  /\ pc' = "step"
  /\ UNCHANGED << pending_signal, traceeVars >>

-----------------------------------------------------------------------------
(* Resuming and waiting. *)

\* bug: the pending signal is copied, not taken
TakeSignalCopied == pending_signal' = pending_signal
TakeSignal       == pending_signal' = NoSignal

StepSucceeds ==
  /\ pc = "step"
  /\ CanStep
  /\ PtraceStep(pending_signal)
  /\ TakeSignal
  /\ pc' = "wait"
  /\ UNCHANGED << db, step_count, memory_cache, last_sp, call_depth,
                  status, cpu, stackAt, posted, executed, reported, delivered, frames, lowest >>

\* bug: the step number is given back, the entry stays
StepFailsUndo ==
  /\ pc = "step"
  /\ ~CanStep \/ "stepfail" \in Env
  /\ TakeSignal
  /\ step_count' = step_count - 1
  /\ pc' = "error"
  /\ UNCHANGED << db, memory_cache, last_sp, call_depth, traceeVars >>

\* bug: PT_STEP is called in a way that is refused when a signal is passed on
StepFailsWithSignal ==
  /\ pc = "step"
  /\ ~CanStep \/ pending_signal # NoSignal
  /\ TakeSignal
  /\ pc' = "error"
  /\ UNCHANGED << db, step_count, memory_cache, last_sp, call_depth, traceeVars >>

\* The signal has been taken by then.
StepFails ==
  /\ pc = "step"
  /\ ~CanStep \/ "stepfail" \in Env
  /\ TakeSignal
  /\ pc' = "error"
  /\ UNCHANGED << db, step_count, memory_cache, last_sp, call_depth, traceeVars >>

\* waitpid collects the status.
Collect ==
  /\ status' = NoStatus
  /\ UNCHANGED << proc, cpu, stackAt, posted, carried,
                  executed, reported, delivered, frames, lowest >>

\* bug: WNOHANG, and "still alive" taken for a stop
WaitTrapNoHang ==
  /\ pc = "wait"
  /\ status \in {Trap, NoStatus}
  /\ Collect
  /\ pc' = "ok"
  /\ UNCHANGED tracerVars

WaitTrap ==
  /\ pc = "wait"
  /\ status = Trap
  /\ Collect
  /\ pc' = "ok"
  /\ UNCHANGED tracerVars

\* bug: the signal is not kept
KeepSignalLost == pending_signal' = NoSignal
KeepSignal     == pending_signal' = status.sig

WaitSignal ==
  /\ pc = "wait"
  /\ status.kind = "signal"
  /\ KeepSignal
  /\ Collect
  /\ pc' = "ok"
  /\ UNCHANGED << db, step_count, memory_cache, last_sp, call_depth >>

WaitExited ==
  /\ pc = "wait"
  /\ status = Exited
  /\ Collect
  /\ pc' = "exited"
  /\ UNCHANGED tracerVars

\* ECHILD
WaitFails ==
  /\ pc = "wait"
  /\ proc = "dead" /\ status = NoStatus
  /\ pc' = "error"
  /\ UNCHANGED << tracerVars, traceeVars >>

single_step ==
  \/ ReadFails \/ ReadRegisters \/ DecodeFails \/ Decode \/ Record
  \/ StepSucceeds \/ StepFails
  \/ WaitTrap \/ WaitSignal \/ WaitExited \/ WaitFails

\* Tracer::detach: no signal is passed on.
Detach ==
  /\ PtraceDetach
  /\ UNCHANGED << tracerVars, status, cpu, stackAt, posted, carried,
                  executed, reported, delivered, frames, lowest >>

=============================================================================
