\* Nothing fails and nobody interferes: stores, and the system call that ends the program.
CONSTANTS
  st = st  sys = sys  sigint = sigint  NoSignal = NoSignal
  Insns = {st, sys}
  Calls = {}  Returns = {}  Stores = {st}  Writers = {st}
  Unreadable = {}  Blocking = {}  Exiting = {sys}
  SPs = {1, 2}  StackTop = 1  Bytes = {0, 1}
  Signals = {sigint}  Interrupt = sigint
  MaxTick = 3
  Env = {}
  MaxErrors = 1  Modes = {"run"}
  Below = 1  CheckSize = 1
  OldTrace <- MCOldTrace
SPECIFICATION Spec
INVARIANT SummaryAgrees
