\* Two overlapping stack windows and one that is not mapped; stores the tracer
\* recognises and writes it does not.
CONSTANTS
  st = st  mov = mov  sigusr = sigusr  sigint = sigint  NoSignal = NoSignal
  Insns = {st, mov}
  Calls = {}  Returns = {}  Stores = {st}  Writers = {st, mov}
  Unreadable = {}  Blocking = {}  Exiting = {}
  SPs = {1, 2, 3}  StackTop = 2  Bytes = {0, 1}
  Signals = {sigint, sigusr}  Interrupt = sigint
  MaxTick = 2
  Env = {"signal", "kill"}
  Below = 1  CheckSize = 2
  MaxErrors = 0  Modes = {"trace"}
  OldTrace <- MCOldTrace
SPECIFICATION Spec
INVARIANT MemChangesFollowMemory
