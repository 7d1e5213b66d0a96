SPECIFICATION FairSpec
CONSTANTS
  Configs <- AllConfigs
  MaxUploads = 2
  MultiLine = FALSE
INVARIANTS TypeOK UploadsAccounted RepliesInStep WaitsOnlyIfDueTls AnsweredOnce FailsClosed 
PROPERTIES EveryWaitEnds
