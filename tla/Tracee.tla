------------------------------- MODULE Tracee -------------------------------
(***************************************************************************)
(* The environment of the tracer: the traced process and the part of the   *)
(* kernel behind ptrace(2), waitpid(2) and the Mach calls.  None of it is   *)
(* code of the repository; it is modelled from the way src/tracer and      *)
(* src/launcher use it.                                                    *)
(*                                                                         *)
(* The program is arbitrary: whenever an instruction retires, the next one *)
(* is any instruction, with any stack pointer, and an instruction that     *)
(* writes memory may have changed one byte of the stack.  Each state of    *)
(* the CPU has a number of its own, its tick, which stands for the         *)
(* contents of all registers.                                              *)
(***************************************************************************)
EXTENDS Integers, FiniteSets

CONSTANTS
  Insns,       \* instructions of the traced program
  Calls,       \* ... call-like ones: bl, blr, call
  Returns,     \* ... return-like ones: ret
  Stores,      \* ... ones whose mnemonic is_store_mnemonic recognises
  Writers,     \* ... ones that may change the stack
  Unreadable,  \* ... ones whose bytes cannot be read or decoded
  Blocking,    \* ... system calls that may sleep
  Exiting,     \* ... system calls that may end the process
  SPs,         \* values of the stack pointer
  StackTop,    \* the stack is mapped at the addresses 0 .. StackTop
  Bytes,       \* contents of a byte
  Signals,     \* signals other than SIGTRAP and SIGKILL
  Interrupt,   \* ... among them SIGINT
  NoSignal,    \* None of Option<Signal>
  MaxTick,     \* bound: the program has ended when it leaves this tick
  Env          \* which of the events of Events may happen

Events == {"interrupt", "signal", "kill", "reap", "stepfail", "writefail", "crash"}

ASSUME TraceeAssumption ==
  /\ Calls \subseteq Insns /\ Returns \subseteq Insns /\ Calls \cap Returns = {}
  /\ Stores \subseteq Insns /\ Writers \subseteq Insns
  /\ Unreadable \subseteq Insns /\ Blocking \subseteq Insns /\ Exiting \subseteq Insns
  /\ SPs \subseteq Nat \ {0}
  /\ StackTop \in Nat
  /\ Interrupt \in Signals
  /\ NoSignal \notin Signals
  /\ MaxTick \in Nat
  /\ Env \subseteq Events

VARIABLES
  proc,       \* "stopped" | "running" | "blocked" | "dead" | "free" (detached)
  status,     \* the wait status that waitpid has not collected yet
  cpu,        \* [tick, insn, sp] of the only thread
  stackAt,    \* history: contents of the stack at each tick
  posted,     \* signals sent to the process that it has not stopped for yet
  carried,    \* the signal the last PT_STEP resumed the process with
  executed,   \* history: ticks whose instruction has been executed
  reported,   \* history: signals the process has stopped for
  delivered,  \* history: signals that took effect in the process
  frames,     \* history: calls executed minus returns executed
  lowest      \* history: the least value frames has had

traceeVars == << proc, status, cpu, stackAt, posted, carried,
                 executed, reported, delivered, frames, lowest >>

Stacks == [0 .. StackTop -> Bytes]

\* Wait statuses, as the arms of the match on waitpid tell them apart:
\* Stopped(SIGTRAP), Stopped(other signal), and Exited or Signaled.
NoStatus         == [kind |-> "none",   sig |-> NoSignal]
Trap             == [kind |-> "trap",   sig |-> NoSignal]
Exited           == [kind |-> "exited", sig |-> NoSignal]
SignalStatus(s)  == [kind |-> "signal", sig |-> s]

TraceeTypeOK ==
  /\ proc \in {"stopped", "running", "blocked", "dead", "free"}
  /\ status \in {NoStatus, Trap, Exited} \cup {SignalStatus(s) : s \in Signals}
  /\ cpu \in [tick : 0 .. MaxTick, insn : Insns, sp : SPs]
  /\ stackAt \in [0 .. cpu.tick -> Stacks]
  /\ posted \subseteq Signals
  /\ carried \in Signals \cup {NoSignal}
  /\ executed \subseteq 0 .. MaxTick
  /\ reported \subseteq Signals
  /\ delivered \subseteq Signals
  /\ frames \in Int
  /\ lowest \in Int

\* A process no instruction of which has been traced.
CpuInit ==
  /\ cpu \in [tick : {0}, insn : Insns, sp : SPs]
  /\ \E b \in Bytes : stackAt = [t \in {0} |-> [a \in 0 .. StackTop |-> b]]
  /\ posted = {}
  /\ carried = NoSignal
  /\ executed = {}
  /\ reported = {}
  /\ delivered = {}
  /\ frames = 0
  /\ lowest = 0

\* Stopped at the first instruction by exec after PT_TRACE_ME, or wherever
\* PT_ATTACH found it; the stop itself was collected by ProcessLauncher.
TraceeInit ==
  /\ proc = "stopped"
  /\ status = NoStatus
  /\ CpuInit

-----------------------------------------------------------------------------
(* What the kernel does for the tracer. *)

\* ptrace(PT_STEP, sig): only a stopped process can be resumed.
CanStep == proc = "stopped"
PtraceStep(sig) == proc' = "running" /\ carried' = sig

\* ptrace(PT_DETACH, None): a live process goes on untraced, without a signal.
PtraceDetach == proc' = IF proc = "dead" THEN "dead" ELSE "free"

\* The kernel kills the traced processes of a tracer that ends.
KillTracee ==
  /\ proc' = IF proc = "free" THEN "free" ELSE "dead"
  /\ status' = NoStatus

-----------------------------------------------------------------------------
(* The process. *)

\* The stack m with one byte written.
Written(m) == {[m EXCEPT ![a] = b] : a \in 0 .. StackTop, b \in Bytes}

\* The stack after instruction i, which found it as m.
StacksAfter(i, m) == {m} \cup (IF i \in Writers THEN Written(m) ELSE {})

\* The CPU reaches a state it has not been in.
MoveTo(i, p, m) ==
  /\ cpu.tick < MaxTick
  /\ cpu' = [tick |-> cpu.tick + 1, insn |-> i, sp |-> p]
  /\ stackAt' = [t \in 0 .. cpu.tick + 1 |-> IF t = cpu.tick + 1 THEN m ELSE stackAt[t]]

\* The current instruction is executed.
Execute ==
  /\ executed' = executed \cup {cpu.tick}
  /\ frames' = CASE cpu.insn \in Calls   -> frames + 1
                 [] cpu.insn \in Returns -> frames - 1
                 [] OTHER                -> frames
  /\ lowest' = IF frames' < lowest THEN frames' ELSE lowest

Retire ==
  /\ Execute
  /\ \E i \in Insns, p \in SPs, m \in StacksAfter(cpu.insn, stackAt[cpu.tick]) : MoveTo(i, p, m)

Stop(st) == proc' = "stopped" /\ status' = st

\* The single step ends the ordinary way.
TrapAfterStep ==
  /\ proc = "running" /\ carried = NoSignal
  /\ Retire
  /\ Stop(Trap)
  /\ UNCHANGED << posted, carried, reported, delivered >>

\* The instruction is a system call and goes to sleep.
Block ==
  /\ proc = "running" /\ carried = NoSignal
  /\ cpu.insn \in Blocking
  /\ cpu.tick < MaxTick
  /\ proc' = "blocked"
  /\ UNCHANGED << status, cpu, stackAt, posted, carried,
                  executed, reported, delivered, frames, lowest >>

\* What it slept for happens, which nothing guarantees.
Wake ==
  /\ proc = "blocked"
  /\ Retire
  /\ Stop(Trap)
  /\ UNCHANGED << posted, carried, reported, delivered >>

\* The program ends.  When the tracer inherited an ignored SIGCHLD, the
\* kernel reaps the process itself and waitpid finds no child.
Exit ==
  /\ proc = "running" /\ carried = NoSignal
  /\ cpu.insn \in Exiting \/ cpu.tick = MaxTick
  /\ Execute
  /\ proc' = "dead"
  /\ status' \in IF "reap" \in Env THEN {Exited, NoStatus} ELSE {Exited}
  /\ UNCHANGED << cpu, stackAt, posted, carried, reported, delivered >>

\* The process stops to report a signal: on its way back to user mode before
\* the instruction was executed, in its sleep, or right after the instruction.
SignalStop(s) ==
  /\ proc \in {"running", "blocked"} /\ carried = NoSignal
  /\ s \in posted
  /\ posted' = posted \ {s}
  /\ reported' = reported \cup {s}
  /\ Stop(SignalStatus(s))
  /\ \/ UNCHANGED << cpu, stackAt, executed, frames, lowest >>
     \/ proc = "running" /\ Retire
  /\ UNCHANGED << carried, delivered >>

Deliver ==
  /\ proc = "running" /\ carried # NoSignal
  /\ delivered' = delivered \cup {carried}
  /\ carried' = NoSignal

\* The signal PT_STEP passed on is ignored: the instruction is next.
DeliverIgnored ==
  /\ Deliver
  /\ UNCHANGED << proc, status, cpu, stackAt, posted, executed, reported, frames, lowest >>

\* ... or has a handler: the kernel builds its frame on the stack and the step
\* ends at its first instruction.
DeliverToHandler ==
  /\ Deliver
  /\ \E i \in Insns, p \in SPs, m \in Written(stackAt[cpu.tick]) : MoveTo(i, p, m)
  /\ Stop(Trap)
  /\ UNCHANGED << posted, executed, reported, frames, lowest >>

\* ... or ends the process.
DeliverFatal ==
  /\ Deliver
  /\ proc' = "dead"
  /\ status' = Exited
  /\ UNCHANGED << cpu, stackAt, posted, executed, reported, frames, lowest >>

\* Progress the kernel's scheduler gives a process that can run.
TraceeProgress ==
  \/ TrapAfterStep \/ Block \/ Exit
  \/ \E s \in Signals : SignalStop(s)
  \/ DeliverIgnored \/ DeliverToHandler \/ DeliverFatal

\* Other processes send signals; each is sent once.
PostSignals(new) ==
  /\ "signal" \in Env
  /\ proc \in {"stopped", "running", "blocked"}
  /\ new \cap (posted \cup reported \cup {Interrupt}) = {}
  /\ posted' = posted \cup new
  /\ UNCHANGED << proc, status, cpu, stackAt, carried,
                  executed, reported, delivered, frames, lowest >>

\* SIGKILL, which a tracer is not asked about.
Kill ==
  /\ "kill" \in Env
  /\ proc \in {"stopped", "running", "blocked"}
  /\ proc' = "dead"
  /\ status' = Exited
  /\ UNCHANGED << cpu, stackAt, posted, carried,
                  executed, reported, delivered, frames, lowest >>

TraceeNext ==
  \/ TraceeProgress
  \/ Wake
  \/ Kill
  \/ \E new \in (SUBSET Signals) \ {{}} : PostSignals(new)

=============================================================================
