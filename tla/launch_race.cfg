\* A signal to the child between PT_TRACE_ME and exec.
CONSTANTS
  nop = nop  sigint = sigint  sigusr = sigusr  sigstop = sigstop  NoSignal = NoSignal
  Insns = {nop}
  Calls = {}  Returns = {}  Stores = {}  Writers = {}
  Unreadable = {}  Blocking = {}  Exiting = {}
  SPs = {1}  StackTop = 0  Bytes = {0}
  Signals = {sigint, sigusr, sigstop}  Interrupt = sigint  SigStop = sigstop
  MaxTick = 1
  Env = {"signal"}
  MaxErrors = 1  Modes = {"run"}
  Below = 1  CheckSize = 1
  OldTrace <- MCOldTrace
SPECIFICATION LaunchSpec
INVARIANT StopsAtFirstInstruction
