SPECIFICATION FairSpec
INVARIANTS TypeOK UnattendedMicReported StopMeansFinished AudioInv
PROPERTIES ContextFreeWhenReset StartReplies StopTakesEffect
