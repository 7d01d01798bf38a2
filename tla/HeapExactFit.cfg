CONSTANTS
  Start = 3
  Size = 14
  Header = 2
  Word = 17
  Requests <- MCRequests
SPECIFICATION Spec
PROPERTY RefusedOnlyWhenTooSmall
