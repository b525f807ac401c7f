\* The ordinals between first and last.
SPECIFICATION Spec
CONSTANTS
  Expressions <- Parsed
  Births <- OneBirth
  Span = 0
PROPERTIES SearchEnds
CHECK_DEADLOCK FALSE
