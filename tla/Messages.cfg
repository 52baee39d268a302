SPECIFICATION MessagesSpec
CONSTANTS
    MaxSent = 4
    Texts = {"t"}
    Files = {"p"}
    MaxLoads = 2
    MaxTasks = 3
INVARIANTS MessagesTypeOK NothingVanishes StatusIsTrue AnsweredOnce
PROPERTIES InOrder DeliversAll SendingEnds
CHECK_DEADLOCK FALSE
