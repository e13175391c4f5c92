SPECIFICATION ToolSpec
CONSTANTS
  i1 = i1
  i2 = i2
  i3 = i3
  Images = {i1, i2, i3}
  NoImage = NoImage
  CloseOnce = TRUE
INVARIANT SendsOneImage
PROPERTY ButtonComesBack
CHECK_DEADLOCK FALSE
