\* Every event of the environment.
CONSTANTS
  nop = nop  bad = bad  sigint = sigint  sigusr = sigusr  NoSignal = NoSignal
  Insns = {nop, bad}
  Calls = {}  Returns = {}  Stores = {}  Writers = {}
  Unreadable = {bad}  Blocking = {nop}  Exiting = {nop}
  SPs = {1}  StackTop = 0  Bytes = {0}
  Signals = {sigint, sigusr}  Interrupt = sigint
  MaxTick = 2
  Env = {"interrupt", "signal", "kill", "reap", "stepfail", "writefail", "crash"}
  MaxErrors = 1  Modes = {"run", "trace"}
  Below = 1  CheckSize = 1
  OldTrace <- MCOldTrace
SPECIFICATION FairSpec
INVARIANTS
  TypeOK
  SteppedOnlyWhenStopped
  NoMissedInstruction
  TraceInOrder
  SavedTraceComplete
  ReloadIsWhole
  StopsWithinOneStep
PROPERTIES
  RecordsFaithfully
  DeathEndsSession
  CtrlCEndsSessionUnlessAsleep
