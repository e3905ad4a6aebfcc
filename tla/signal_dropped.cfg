\* PT_STEP may fail while a signal is pending.
CONSTANTS
  nop = nop  sigint = sigint  sigusr = sigusr  NoSignal = NoSignal
  Insns = {nop}
  Calls = {}  Returns = {}  Stores = {}  Writers = {}
  Unreadable = {}  Blocking = {}  Exiting = {}
  SPs = {1}  StackTop = 0  Bytes = {0}
  Signals = {sigint, sigusr}  Interrupt = sigint
  MaxTick = 2
  Env = {"signal", "stepfail"}
  MaxErrors = 1  Modes = {"trace"}
  Below = 1  CheckSize = 1
  OldTrace <- MCOldTrace
SPECIFICATION Spec
INVARIANT SignalConservation
