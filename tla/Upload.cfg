CONSTANTS
  Chunks = 2
  Window = 1
  IdleTimeout = 2
SPECIFICATION FairUploadSpec
INVARIANTS UploadTypeOK WholeStreams GivesUpOnSilence ConfirmedIsWhole
 
CHECK_DEADLOCK FALSE
