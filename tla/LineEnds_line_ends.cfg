SPECIFICATION Spec
CONSTANTS
  CR = CR
  LF = LF
  Letter = {a, b}
  InitialSize = 4
  MinFill = 2
  MaxInput = 5
INVARIANTS TokenKept RoomToRead
PROPERTIES FillsConverted
