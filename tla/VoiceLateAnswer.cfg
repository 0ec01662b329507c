SPECIFICATION Spec
CONSTANTS
  MaxQuestions = 2
  MaxReplies = 1
INVARIANTS AnswerIsForQuestion
CHECK_DEADLOCK FALSE
