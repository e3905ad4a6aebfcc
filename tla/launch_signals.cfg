\* From fork or PT_ATTACH to the end of the session, with signals, SIGKILL (to the
\* process and to tdb), lost exit statuses and system calls that sleep; PT_STEP
\* does not fail.
CONSTANTS
  nop = nop  bad = bad  sigint = sigint  sigusr = sigusr  sigstop = sigstop
  NoSignal = NoSignal
  Insns = {nop, bad}
  Calls = {}  Returns = {}  Stores = {}  Writers = {}
  Unreadable = {bad}  Blocking = {nop}  Exiting = {}
  SPs = {1}  StackTop = 0  Bytes = {0}
  Signals = {sigint, sigusr, sigstop}  Interrupt = sigint  SigStop = sigstop
  MaxTick = 2
  Env = {"interrupt", "signal", "kill", "reap", "crash"}
  MaxErrors = 1  Modes = {"run", "trace"}
  Below = 1  CheckSize = 1
  OldTrace <- MCOldTrace
SPECIFICATION LaunchFairSpec
INVARIANTS
  RepeatsOnlyForSignals
  OnlyFirstStopDrops
  NeverUntraced
PROPERTIES
  ImplementsSession
  LaunchEnds
