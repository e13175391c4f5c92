SPECIFICATION ClientSpec
CONSTANTS
  Word = 32
  Selects <- MCSelects
  MaxRows = 2
  MaxQueries = 3
  MaxJump = 8
INVARIANT CursorInside
INVARIANT NamesFindValues
CHECK_DEADLOCK FALSE
