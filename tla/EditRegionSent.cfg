SPECIFICATION ErSpec
CONSTANTS
  MaxOut = 3
  MaxTyped = 1
  MaxKeys = 2
INVARIANTS UserInputIsTyped
CHECK_DEADLOCK FALSE
