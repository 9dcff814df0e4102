SPECIFICATION FairSpec
CONSTANTS
  MaxNum = 2
  MaxSends = 3
  MaxChunks = 2
INVARIANTS TypeOK AnswerIsOwn NoDanglingHandle CrashIsExplained BodyIsLastChunk
PROPERTY SendEnds
CHECK_DEADLOCK FALSE
