CONSTANTS
  MaxCalls = 3
  Sizes = {1, 2}
  Orders = {ltr, rtl}
  DefaultOrder = ltr
  MaxErrors = 2
SPECIFICATION WebSpec
CHECK_DEADLOCK FALSE
INVARIANTS AnswersItsCall PictureFits
PROPERTIES DestroyIsFinal EveryPromiseSettles
