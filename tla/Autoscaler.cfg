SPECIFICATION Spec
CONSTANTS
  Depths = {0, 1, 2, 3}
  Arguments <- SmallArguments
INVARIANTS
  AdviceIsTight
  AdviceMatchesLoad
  TextMatchesNumber
CHECK_DEADLOCK FALSE
