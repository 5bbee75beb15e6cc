SPECIFICATION HiSpec
CONSTANTS
  Texts <- SomeTexts
  Empty = ""
  Strip <- Stripped
  StartsWith <- Prefixes
  MaxPushes = 2
PROPERTIES EditResets
CHECK_DEADLOCK FALSE
