------------------------- MODULE TraceSessionProofs -------------------------
(***************************************************************************)
(* Proofs about the tracing session, for every program, every bound and    *)
(* every set of events of the environment.                                  *)
(***************************************************************************)
EXTENDS TraceSession, FiniteSetTheorems, TLAPS

-----------------------------------------------------------------------------
(* Lemmas about the operators. *)

\* The window of the stack at any stack pointer lies above address 0.
LEMMA WindowType ==
  ASSUME NEW p \in SPs
  PROVE  /\ StackBase(p) \in Nat
         /\ Window(StackBase(p)) \subseteq Nat
         /\ IsFiniteSet(Window(StackBase(p)))
<1>1. p \in Nat /\ Below \in Nat /\ CheckSize \in Nat
  BY TraceeAssumption, TracerAssumption
<1>2. StackBase(p) \in Nat
  BY <1>1 DEF StackBase
<1>3. IsFiniteSet(Window(StackBase(p)))
  BY <1>1, <1>2, FS_Interval DEF Window
<1>4. Window(StackBase(p)) \subseteq Nat
  BY <1>1, <1>2 DEF Window
<1> QED
  BY <1>2, <1>3, <1>4

\* Differences of two windows are finitely many memory changes.
LEMMA DifferencesType ==
  ASSUME NEW W, IsFiniteSet(W), W \subseteq Nat,
         NEW old \in [W -> Bytes], NEW new \in [W -> Bytes]
  PROVE  Differences(old, new) \subseteq MemChange /\ IsFiniteSet(Differences(old, new))
<1> DEFINE C == {x \in DOMAIN new : new[x] # old[x]}
           f == [a \in C |-> [addr |-> a, old_val |-> old[a], new_val |-> new[a]]]
<1>1. C \subseteq W /\ IsFiniteSet(C)
  BY FS_Subset
<1>2. Differences(old, new) \subseteq MemChange
  <2> SUFFICES ASSUME NEW a \in C
               PROVE  [addr |-> a, old_val |-> old[a], new_val |-> new[a]] \in MemChange
    BY DEF Differences
  <2>1. a \in Nat /\ old[a] \in Bytes /\ new[a] \in Bytes
    BY <1>1
  <2> QED
    BY <2>1 DEF MemChange
<1>3. f \in Surjection(C, Differences(old, new))
  BY DEF Differences, Surjection
<1> QED
  BY <1>1, <1>2, <1>3, FS_Surjection

-----------------------------------------------------------------------------
(* Type correctness. *)

\* The entries' memory changes are finitely many, so that the summary can
\* count them, and the limit of errors has not been passed while the loop runs.
FiniteChanges == \A s \in DOMAIN db : IsFiniteSet(db[s].mem_changes)
ErrorBound    == pc \notin {"save", "detach", "done", "crashed"} => error_count <= MaxErrors

TypeInv == TypeOK /\ FiniteChanges /\ ErrorBound

\* The stack after an instruction is a stack.
LEMMA StacksAfterType ==
  ASSUME NEW i \in Insns, NEW m \in Stacks
  PROVE  StacksAfter(i, m) \subseteq Stacks
BY DEF StacksAfter, Written, Stacks

\* So is a stack with one byte written.
LEMMA WrittenType ==
  ASSUME NEW m \in Stacks
  PROVE  Written(m) \subseteq Stacks
BY DEF Written, Stacks

\* Reaching a new state of the CPU keeps the types of cpu and its history.
LEMMA MoveToType ==
  ASSUME TraceeTypeOK, NEW i \in Insns, NEW p \in SPs, NEW m \in Stacks, MoveTo(i, p, m)
  PROVE  /\ cpu' \in [tick : 0 .. MaxTick, insn : Insns, sp : SPs]
         /\ stackAt' \in [0 .. cpu'.tick -> Stacks]
<1>1. MaxTick \in Nat /\ cpu.tick \in 0 .. MaxTick /\ cpu.tick < MaxTick
  BY TraceeAssumption DEF TraceeTypeOK, MoveTo
<1>2. cpu' = [tick |-> cpu.tick + 1, insn |-> i, sp |-> p] /\ cpu.tick + 1 \in 0 .. MaxTick
  BY <1>1 DEF MoveTo
<1>3. \A t \in 0 .. cpu.tick + 1 : t = cpu.tick + 1 \/ t \in 0 .. cpu.tick
  BY <1>1
<1>4. stackAt' \in [0 .. cpu.tick + 1 -> Stacks]
  BY <1>3 DEF MoveTo, TraceeTypeOK
<1> QED
  BY <1>2, <1>4

\* Executing an instruction keeps the types of what it touches.
LEMMA ExecuteType ==
  ASSUME TraceeTypeOK, Execute
  PROVE  executed' \subseteq 0 .. MaxTick /\ frames' \in Int /\ lowest' \in Int
BY DEF TraceeTypeOK, Execute

\* Retiring an instruction keeps the types of the processor, of the stack and of
\* what is remembered of the execution.
\* What an executed instruction does to a frame list and the stack keeps
\* their types.
LEMMA RetireType ==
  ASSUME TraceeTypeOK, Retire
  PROVE  /\ cpu' \in [tick : 0 .. MaxTick, insn : Insns, sp : SPs]
         /\ stackAt' \in [0 .. cpu'.tick -> Stacks]
         /\ executed' \subseteq 0 .. MaxTick /\ frames' \in Int /\ lowest' \in Int
<1>1. cpu.insn \in Insns /\ stackAt[cpu.tick] \in Stacks
  BY TraceeAssumption DEF TraceeTypeOK
<1>2. PICK i \in Insns, p \in SPs, m \in StacksAfter(cpu.insn, stackAt[cpu.tick]) :
        MoveTo(i, p, m)
  BY DEF Retire
<1>3. m \in Stacks
  BY <1>1, <1>2, StacksAfterType
<1> QED
  BY <1>2, <1>3, MoveToType, ExecuteType DEF Retire

\* The steps of the traced process and of the kernel keep TraceeTypeOK.
LEMMA TraceeTypePreserved ==
  ASSUME TraceeTypeOK, TraceeNext
  PROVE  TraceeTypeOK'
<1>1. CASE TrapAfterStep
  BY <1>1, RetireType DEF TrapAfterStep, Stop, TraceeTypeOK
<1>2. CASE Block
  BY <1>2 DEF Block, TraceeTypeOK, Stacks
<1>3. CASE Exit
  BY <1>3, ExecuteType DEF Exit, TraceeTypeOK, Stacks
<1>4. ASSUME NEW s \in Signals, SignalStop(s) PROVE TraceeTypeOK'
  <2>1. CASE Retire
    BY <1>4, <2>1, RetireType DEF SignalStop, Stop, TraceeTypeOK
  <2>2. CASE UNCHANGED << cpu, stackAt, executed, frames, lowest >>
    BY <1>4, <2>2 DEF SignalStop, Stop, TraceeTypeOK, Stacks
  <2> QED
    BY <1>4, <2>1, <2>2 DEF SignalStop
<1>5. CASE DeliverIgnored
  BY <1>5 DEF DeliverIgnored, Deliver, TraceeTypeOK, Stacks
<1>6. CASE DeliverToHandler
  <2>1. stackAt[cpu.tick] \in Stacks
    BY TraceeAssumption DEF TraceeTypeOK
  <2>2. PICK i \in Insns, p \in SPs, m \in Written(stackAt[cpu.tick]) : MoveTo(i, p, m)
    BY <1>6 DEF DeliverToHandler
  <2>3. m \in Stacks
    BY <2>1, <2>2, WrittenType
  <2>4. /\ cpu' \in [tick : 0 .. MaxTick, insn : Insns, sp : SPs]
        /\ stackAt' \in [0 .. cpu'.tick -> Stacks]
    BY <2>2, <2>3, MoveToType
  <2> QED
    BY <1>6, <2>4 DEF DeliverToHandler, Deliver, Stop, TraceeTypeOK
<1>7. CASE DeliverFatal
  BY <1>7 DEF DeliverFatal, Deliver, TraceeTypeOK, Stacks
<1>8. CASE Wake
  BY <1>8, RetireType DEF Wake, Stop, TraceeTypeOK
<1>9. CASE Kill
  BY <1>9 DEF Kill, TraceeTypeOK, Stacks
<1>10. ASSUME NEW new \in SUBSET Signals, PostSignals(new) PROVE TraceeTypeOK'
  BY <1>10 DEF PostSignals, TraceeTypeOK, Stacks
<1> QED
  BY <1>1, <1>2, <1>3, <1>4, <1>5, <1>6, <1>7, <1>8, <1>9, <1>10 DEF TraceeNext, TraceeProgress

\* What the tracer reads is a window of the stack.
LEMMA ReadMemoryType ==
  ASSUME TraceeTypeOK, NEW base, Readable(base)
  PROVE  ReadMemory(base) \in [Window(base) -> Bytes]
<1>1. stackAt[cpu.tick] \in Stacks
  BY TraceeAssumption DEF TraceeTypeOK
<1> QED
  BY <1>1 DEF ReadMemory, Readable, Mapped, Stacks

\* The depth stays a number.
LEMMA NextDepthType ==
  ASSUME call_depth \in Nat, NEW i
  PROVE  NextDepth(i) \in Nat
BY DEF NextDepth

\* The entry that Record inserts is an entry, and its changes are finitely many.
LEMMA NewEntryType ==
  ASSUME TraceeTypeOK, TracerTypeOK, NEW checked \in BOOLEAN,
         checked => Readable(StackBase(cpu.sp))
  PROVE  NewEntry(checked) \in TraceEntry /\ IsFiniteSet(NewEntry(checked).mem_changes)
<1> DEFINE base    == StackBase(cpu.sp)
           changes == IF checked THEN MemChanges(base) ELSE {}
<1>1. cpu.tick \in 0 .. MaxTick /\ cpu.insn \in Insns /\ cpu.sp \in SPs
  BY DEF TraceeTypeOK
<1>2. changes \subseteq MemChange /\ IsFiniteSet(changes)
  <2>1. CASE ~(checked /\ base \in DOMAIN memory_cache)
    BY <2>1, FS_EmptySet DEF MemChanges
  <2>2. CASE checked /\ base \in DOMAIN memory_cache
    <3>1. memory_cache[base] \in [Window(base) -> Bytes]
      BY <2>2 DEF TracerTypeOK
    <3>2. ReadMemory(base) \in [Window(base) -> Bytes]
      BY <2>2, ReadMemoryType
    <3>3. Window(base) \subseteq Nat /\ IsFiniteSet(Window(base))
      BY <1>1, WindowType
    <3>4. /\ Differences(memory_cache[base], ReadMemory(base)) \subseteq MemChange
          /\ IsFiniteSet(Differences(memory_cache[base], ReadMemory(base)))
      BY <3>1, <3>2, <3>3, DifferencesType
    <3> QED
      BY <2>2, <3>4 DEF MemChanges
  <2> QED
    BY <2>1, <2>2
<1>3. NextDepth(cpu.insn) \in Nat /\ step_count \in Nat
  BY NextDepthType DEF TracerTypeOK
<1> QED
  BY <1>1, <1>2, <1>3 DEF NewEntry, TraceEntry

\* Inserting an entry under the next step extends the trace by it.
LEMMA InsertNext ==
  ASSUME NEW n \in Nat, NEW d, DOMAIN d = 0 .. n - 1, NEW e, e.step = n
  PROVE  /\ DOMAIN Insert(d, e) = 0 .. n
         /\ Insert(d, e)[n] = e
         /\ \A s \in 0 .. n - 1 : Insert(d, e)[s] = d[s]
<1>1. DOMAIN Insert(d, e) = (0 .. n - 1) \cup {n}
  BY DEF Insert
<1>2. (0 .. n - 1) \cup {n} = 0 .. n /\ n \notin 0 .. n - 1
  OBVIOUS
<1> QED
  BY <1>1, <1>2 DEF Insert

\* The actions of the tracer keep its types and those of the process.
LEMMA TracerTypePreserved ==
  ASSUME TraceeTypeOK, TracerTypeOK, FiniteChanges, single_step
  PROVE  TraceeTypeOK' /\ TracerTypeOK' /\ FiniteChanges'
<1>1. CASE ReadFails \/ DecodeFails \/ Decode
  BY <1>1 DEF ReadFails, DecodeFails, Decode, tracerVars, traceeVars, TraceeTypeOK,
              TracerTypeOK, FiniteChanges, ControlPoints, Stacks
<1>2. CASE ReadRegisters
  <2>1. cpu.sp \in SPs
    BY DEF TraceeTypeOK
  <2> QED
    BY <1>2, <2>1 DEF ReadRegisters, tracerVars, traceeVars, TraceeTypeOK, TracerTypeOK,
                      FiniteChanges, ControlPoints, Stacks, LastSp
<1>3. CASE Record
  <2> DEFINE base    == StackBase(cpu.sp)
             checked == NeedsCheck(cpu.insn, cpu.sp) /\ Readable(base)
             e       == NewEntry(checked)
  <2>1. checked \in BOOLEAN /\ (checked => Readable(base))
    BY DEF NeedsCheck
  <2>2. e \in TraceEntry /\ IsFiniteSet(e.mem_changes)
    BY <2>1, NewEntryType
  <2>3. e.step = step_count /\ step_count \in Nat /\ DOMAIN db = 0 .. step_count - 1
    BY DEF NewEntry, TracerTypeOK
  <2>4. db' = Insert(db, e) /\ step_count' = step_count + 1
    BY <1>3 DEF Record
  <2>5. /\ DOMAIN db' = 0 .. step_count /\ db'[step_count] = e
        /\ \A s \in 0 .. step_count - 1 : db'[s] = db[s]
    BY <2>3, <2>4, InsertNext
  <2>6. db' \in [0 .. step_count -> TraceEntry]
    <3>1. db' = [s \in 0 .. step_count |-> db'[s]]
      BY <2>4, <2>5 DEF Insert
    <3>2. \A s \in 0 .. step_count : db'[s] \in TraceEntry
      BY <2>2, <2>3, <2>5 DEF TracerTypeOK
    <3> QED
      BY <3>1, <3>2
  <2>7. FiniteChanges'
    BY <2>2, <2>3, <2>5 DEF FiniteChanges
  <2>8. /\ DOMAIN memory_cache' \subseteq {StackBase(p) : p \in SPs}
        /\ \A b \in DOMAIN memory_cache' : memory_cache'[b] \in [Window(b) -> Bytes]
    <3>1. CASE ~checked
      BY <1>3, <3>1 DEF Record, TracerTypeOK
    <3>2. CASE checked
      <4>1. memory_cache' = CacheWindow(base)
        BY <1>3, <3>2 DEF Record
      <4>2. ReadMemory(base) \in [Window(base) -> Bytes] /\ cpu.sp \in SPs
        BY <3>2, ReadMemoryType DEF TraceeTypeOK
      <4> QED
        BY <4>1, <4>2 DEF CacheWindow, TracerTypeOK
    <3> QED
      BY <3>1, <3>2
  <2>9. TraceeTypeOK'
    BY <1>3 DEF Record, traceeVars, TraceeTypeOK, Stacks
  <2>10. /\ pc' \in ControlPoints /\ step_count' \in Nat
         /\ last_sp' \in SPs \cup {0} /\ call_depth' \in Nat
         /\ pending_signal' \in Signals \cup {NoSignal}
    BY <1>3, NextDepthType DEF Record, TraceeTypeOK, TracerTypeOK, ControlPoints
  <2>11. db' \in [0 .. step_count' - 1 -> TraceEntry]
    BY <2>3, <2>4, <2>6
  <2> QED
    BY <2>7, <2>8, <2>9, <2>10, <2>11 DEF TracerTypeOK
<1>4. CASE StepSucceeds
  BY <1>4 DEF StepSucceeds, PtraceStep, TakeSignal, tracerVars, traceeVars, TraceeTypeOK,
              TracerTypeOK, FiniteChanges, ControlPoints, Stacks
<1>5. CASE StepFails
  BY <1>5 DEF StepFails, TakeSignal, tracerVars, traceeVars, TraceeTypeOK, TracerTypeOK,
              FiniteChanges, ControlPoints, Stacks
<1>6. CASE WaitTrap
  BY <1>6 DEF WaitTrap, Collect, tracerVars, TraceeTypeOK, TracerTypeOK, FiniteChanges,
              ControlPoints, Stacks
<1>7. CASE WaitSignal
  <2>1. status.sig \in Signals
    BY <1>7 DEF WaitSignal, TraceeTypeOK, NoStatus, Trap, Exited, SignalStatus
  <2> QED
    BY <1>7, <2>1 DEF WaitSignal, KeepSignal, Collect, TraceeTypeOK, TracerTypeOK,
                      FiniteChanges, ControlPoints, Stacks
<1>8. CASE WaitExited
  BY <1>8 DEF WaitExited, Collect, tracerVars, TraceeTypeOK, TracerTypeOK, FiniteChanges,
              ControlPoints, Stacks
<1>9. CASE WaitFails
  BY <1>9 DEF WaitFails, tracerVars, traceeVars, TraceeTypeOK, TracerTypeOK, FiniteChanges,
              ControlPoints, Stacks
<1> QED
  BY <1>1, <1>2, <1>3, <1>4, <1>5, <1>6, <1>7, <1>8, <1>9 DEF single_step

\* The last entry is in the trace after a step that ended well.  This is what
\* HandleOk reads, and what the bound on error_count needs.
Handled == pc \in {"step", "wait", "ok"} => step_count > 0

\* The initial state has the types.
LEMMA InitType == Init => TypeInv /\ Handled
<1> SUFFICES ASSUME Init PROVE TypeInv /\ Handled
  OBVIOUS
<1> USE TraceeAssumption, SessionAssumption
<1>1. TraceeTypeOK
  BY DEF Init, TraceeInit, CpuInit, TraceeTypeOK, Stacks
<1>2. DOMAIN db = {} /\ DOMAIN memory_cache = {} /\ step_count = 0 /\ 0 .. step_count - 1 = {}
  BY DEF Init, TracerInit, EmptyDb
<1>3. db = [s \in {} |-> db[s]]
  BY DEF Init, TracerInit, EmptyDb
<1>4. TracerTypeOK
  BY <1>2, <1>3 DEF Init, TracerInit, SessionInit, LoopInit, TracerTypeOK, ControlPoints
<1>5. SessionTypeOK /\ FiniteChanges /\ ErrorBound /\ Handled
  BY <1>2 DEF Init, SessionInit, LoopInit, SessionTypeOK, FiniteChanges, ErrorBound, NoEntries, Handled
<1> QED
  BY <1>1, <1>4, <1>5 DEF TypeInv, TypeOK

\* Every step keeps the types.
LEMMA NextType == TypeInv /\ Handled /\ [Next]_vars => TypeInv' /\ Handled'
<1> SUFFICES ASSUME TypeInv, Handled, [Next]_vars
             PROVE  TypeInv' /\ Handled'
  OBVIOUS
<1> USE SessionAssumption
<1>0. TraceeTypeOK /\ TracerTypeOK /\ SessionTypeOK /\ FiniteChanges /\ ErrorBound
  BY DEF TypeInv, TypeOK
<1> USE <1>0
<1>1. CASE StepTracer
  <2>1. TraceeTypeOK' /\ TracerTypeOK' /\ FiniteChanges'
    BY <1>1, TracerTypePreserved DEF StepTracer
  <2>2. SessionTypeOK'
    BY <1>1 DEF StepTracer, sessionVars, SessionTypeOK
  <2>3. ErrorBound'
    BY <1>1 DEF StepTracer, sessionVars, ErrorBound, single_step, ReadFails, ReadRegisters, DecodeFails, Decode, Record,
                StepSucceeds, StepFails, WaitTrap, WaitSignal, WaitExited, WaitFails
  <2>4. Handled'
    BY <1>1 DEF StepTracer, Handled, single_step, ReadFails, ReadRegisters, DecodeFails, Decode, Record,
                StepSucceeds, StepFails, WaitTrap, WaitSignal, WaitExited, WaitFails,
                tracerVars, TracerTypeOK
  <2> QED
    BY <2>1, <2>2, <2>3, <2>4 DEF TypeInv, TypeOK
<1>2. CASE TraceeStep
  <2>1. TraceeTypeOK'
    BY <1>2, TraceeTypePreserved DEF TraceeStep
  <2> QED
    BY <1>2, <2>1 DEF TraceeStep, sessionVars, tracerVars, TypeInv, TypeOK, TracerTypeOK,
                      SessionTypeOK, FiniteChanges, ErrorBound, Handled
<1>3. CASE HandleOk
  <2> DEFINE e == db[step_count - 1]
  <2>1. e \in TraceEntry /\ IsFiniteSet(e.mem_changes)
    BY <1>3 DEF HandleOk, Handled, TracerTypeOK, FiniteChanges
  <2>2. Cardinality(e.mem_changes) \in Nat
    BY <2>1, FS_CardinalityType
  <2>3. summary' \in [calls : Nat, returns : Nat, mem : Nat]
    BY <1>3, <2>2 DEF HandleOk, Counted, One, SessionTypeOK
  <2> QED
    BY <1>3, <2>3 DEF HandleOk, loopVars, tracerVars, traceeVars, TypeInv, TypeOK,
       TracerTypeOK, TraceeTypeOK, SessionTypeOK, FiniteChanges, ErrorBound, Handled,
       ControlPoints, Stacks
<1>4. CASE HandleError
  BY <1>4 DEF HandleError, CountError, loopVars, tracerVars, traceeVars, TypeInv, TypeOK,
     TracerTypeOK, TraceeTypeOK, SessionTypeOK, FiniteChanges, ErrorBound, Handled,
     ControlPoints, Stacks
<1>5. CASE LoopStops \/ LoopSteps \/ HandleExited
  BY <1>5 DEF LoopStops, LoopSteps, HandleExited, sessionVars, tracerVars, traceeVars,
     TypeInv, TypeOK, TracerTypeOK, TraceeTypeOK, SessionTypeOK, FiniteChanges, ErrorBound,
     Handled, ControlPoints, Stacks
<1>6. CASE Save
  BY <1>6 DEF Save, tracerVars, traceeVars, TypeInv, TypeOK, TracerTypeOK, TraceeTypeOK,
     SessionTypeOK, FiniteChanges, ErrorBound, Handled, ControlPoints, Stacks
<1>7. CASE DetachAndReport
  BY <1>7 DEF DetachAndReport, Detach, PtraceDetach, sessionVars, tracerVars, TypeInv, TypeOK,
     TracerTypeOK, TraceeTypeOK, SessionTypeOK, FiniteChanges, ErrorBound, Handled,
     ControlPoints, Stacks
<1>8. CASE SaveFails \/ Crash
  <2>1. Die
    BY <1>8 DEF SaveFails, Crash
  <2> QED
    BY <2>1 DEF Die, KillTracee, tracerVars, TypeInv, TypeOK, TracerTypeOK, TraceeTypeOK,
       SessionTypeOK, FiniteChanges, ErrorBound, Handled, ControlPoints, Stacks
<1>9. CASE CtrlC
  BY <1>9, TraceeAssumption DEF CtrlC, tracerVars, TypeInv, TypeOK, TracerTypeOK, TraceeTypeOK,
     SessionTypeOK, FiniteChanges, ErrorBound, Handled, Stacks
<1>10. CASE CtrlCHandler
  BY <1>10 DEF CtrlCHandler, tracerVars, traceeVars, TypeInv, TypeOK, TracerTypeOK,
     TraceeTypeOK, SessionTypeOK, FiniteChanges, ErrorBound, Handled, Stacks
<1>11. CASE UNCHANGED vars
  BY <1>11 DEF vars, tracerVars, traceeVars, sessionVars, TypeInv, TypeOK, TracerTypeOK,
     TraceeTypeOK, SessionTypeOK, FiniteChanges, ErrorBound, Handled, Stacks
<1> QED
  BY <1>1, <1>2, <1>3, <1>4, <1>5, <1>6, <1>7, <1>8, <1>9, <1>10, <1>11
     DEF Next, trace_loop, Terminated

\* Every variable keeps its type: registers and stack, the database and its
\* entries, the counters of the loop, whatever the process and the environment do.
THEOREM TypeCorrect == Spec => []TypeOK
<1>1. TypeInv => TypeOK
  BY DEF TypeInv
<1> QED
  BY <1>1, InitType, NextType, PTL DEF Spec

=============================================================================
