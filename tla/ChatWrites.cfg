SPECIFICATION FairSpec
CONSTANTS
    Requests = {r1, r2, r3}
    Sessions = {s1}
    Tabs = {t1}
    None = None
    NoWrite = NoWrite
    MaxDrops = 0
    Writes <- MCWrites
    Calls <- MCCalls
    r1 = r1
    r2 = r2
    r3 = r3
    s1 = s1
    t1 = t1
CHECK_DEADLOCK FALSE
INVARIANTS
    TypeOK
    WrittenOnlyIfApproved
    AcceptedTakesEffect
    EntriesAreInProgress
    ReturnsOwnCalls
    AnswerTellsItsWrites
PROPERTIES
    EveryWriteAnswered
    EveryChatAnswered
