\* The same traces; does the highlighted line always show the current entry?
CONSTANTS
  a = a  b = b
  Chars = {a, b}
  Entries <- MCEntries
  MaxLen = 3  MaxQuery = 2  Page = 2
  NoIndex = NoIndex  Registers = {"x0", "sp"}
SPECIFICATION TuiSpec
INVARIANT SelectionShowsCurrent
