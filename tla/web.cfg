\* tdb view, its page and another client.
CONSTANTS
  bl = bl  ret = ret  cbz = cbz  str = str  w = w
  Calls = {bl}  Returns = {ret}  Branches = {cbz}  MaxListed = 2
  Files <- MCFiles
  Browser = browser  Clients = {browser, api}  Requests <- MCRequests  None = None
  Words = {w}  NoText = NoText  Found <- MCFound
  Registers = {"x0"}  MaxExact = 4
  ItemHeight = 2  Buffer = 0  ViewHeight = 3  Page = 3
SPECIFICATION WebSpec
INVARIANTS
  AnswersFitTogether
  StatsDescribeTrace
  OnlyBackwardRangesFail
  HeaderAgreesWithStats
  RowsShowTheList
  NoBlankRows
  ListFollowsBox
PROPERTIES
  MarksChangedRegisters
  EveryRequestEnds
  PageSettles
CHECK_DEADLOCK FALSE
