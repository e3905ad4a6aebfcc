\* A signal reaches the process before a call, which is then recorded twice.
CONSTANTS
  nop = nop  call = call  sigint = sigint  sigusr = sigusr  NoSignal = NoSignal
  Insns = {nop, call}
  Calls = {call}  Returns = {}  Stores = {}  Writers = {}
  Unreadable = {}  Blocking = {}  Exiting = {}
  SPs = {1}  StackTop = 0  Bytes = {0}
  Signals = {sigint, sigusr}  Interrupt = sigint
  MaxTick = 2
  Env = {"signal"}
  MaxErrors = 1  Modes = {"trace"}
  Below = 1  CheckSize = 1
  OldTrace <- MCOldTrace
SPECIFICATION Spec
INVARIANT DepthAfterExecution
