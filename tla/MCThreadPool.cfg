SPECIFICATION FairSpec
CONSTANTS
    Size = 4
    MaxJobs = 3
    MaxPanics = 4
INVARIANTS TypeOK HandledOnce DropAnswersAll ChannelOutlivesWorkers
PROPERTIES ServesEverybody DropReturns
\* The pool ends; that it does not get stuck before is DropReturns.
CHECK_DEADLOCK FALSE
