CONSTANTS
  a = a
  b = b
  Newline = Newline
  Blank = Blank
  Leftover = Leftover
  Width = 3
  Height = 3
  Half = 4
  Char <- MCChar
SPECIFICATION Spec
INVARIANTS
  TypeOK
  OneCellSwapped
  ShowsText
