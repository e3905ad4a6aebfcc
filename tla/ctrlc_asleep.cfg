\* tdb has attached to a process that sleeps in a system call.
CONSTANTS
  sys = sys  sigint = sigint  NoSignal = NoSignal
  Insns = {sys}
  Calls = {}  Returns = {}  Stores = {}  Writers = {}
  Unreadable = {}  Blocking = {sys}  Exiting = {}
  SPs = {1}  StackTop = 0  Bytes = {0}
  Signals = {sigint}  Interrupt = sigint
  MaxTick = 1
  Env = {"interrupt"}
  MaxErrors = 1  Modes = {"trace"}
  Below = 1  CheckSize = 1
  OldTrace <- MCOldTrace
SPECIFICATION FairSpec
PROPERTY CtrlCEndsSession
