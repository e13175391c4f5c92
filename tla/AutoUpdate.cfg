SPECIFICATION AutoSpec
CONSTANTS
  Word = 32
  Requests <- MCRequests
  OldImage = OldImage
  NoImage = NoImage
  Ticks = 3
  MaxRows = 2
INVARIANT RunsWhatWasAsked
INVARIANT SecondQuestionStays
PROPERTY SilenceIsYes
CHECK_DEADLOCK FALSE
