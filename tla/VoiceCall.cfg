SPECIFICATION FairSpec
CONSTANTS
  MaxQuestions = 2
  MaxReplies = 2
INVARIANTS TypeOK PendingIsWaited MutedUntilComfort OverIsQuiet OnlyCutsDisplace
PROPERTIES SpeaksInTurn QuestionSettles SetupEnds
CHECK_DEADLOCK FALSE
