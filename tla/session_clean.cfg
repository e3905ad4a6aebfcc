\* No signals and no failures: calls, returns and undecodable instructions.
CONSTANTS
  nop = nop  call = call  ret = ret  bad = bad  sigint = sigint  NoSignal = NoSignal
  Insns = {nop, call, ret, bad}
  Calls = {call}  Returns = {ret}  Stores = {call}  Writers = {call}
  Unreadable = {bad}  Blocking = {}  Exiting = {}
  SPs = {1}  StackTop = 1  Bytes = {0, 1}
  Signals = {sigint}  Interrupt = sigint
  MaxTick = 4
  Env = {"interrupt"}
  MaxErrors = 1  Modes = {"trace"}
  Below = 1  CheckSize = 1
  OldTrace <- MCOldTrace
SPECIFICATION Spec
INVARIANTS
  DepthCountsFrames
  SummaryAtReport
PROPERTY RecordsExactly
