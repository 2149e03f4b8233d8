SPECIFICATION MCFairSpec
INVARIANTS
    TypesOK
    AnsweredOnce
    ConnectionIsItsOwn
    NoVoiceOutstays
PROPERTIES
    EveryWaitEnds
CHECK_DEADLOCK FALSE
