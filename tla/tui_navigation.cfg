\* Traces of up to four entries of three kinds, queries of up to two characters.
CONSTANTS
  a = a  b = b
  Chars = {a, b}
  Entries <- MCEntries
  MaxLen = 4  MaxQuery = 2  Page = 2
  NoIndex = NoIndex  Registers = {"x0", "sp"}
SPECIFICATION TuiSpec
INVARIANTS
  TuiTypeOK
  SearchShowsFirstMatch
  SelectionFollows
  PanesAgree
PROPERTIES
  TypingNarrows
  MarksWhatChanged
