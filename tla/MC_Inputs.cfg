CONSTANTS
  Base = 3
  UnspecifiedIps = {0}
  LoopbackIps = {1}
  LinkLocalIps = {2}
  BUILT_IN_VIRTUAL_INTERFACES <- MCVirtual
  MAX_REQUEST_LINE_BYTES = 4
  MAX_HEADER_BYTES = 4
  DefaultRange <- MCRange
  DEFAULT_BACKEND_PASSIVE_PORTS <- MCRange
  DefaultRefresh = 1
  Patterns <- MCPatterns
  Texts <- MCTexts
  Listings <- MCListings
  Includes <- MCIncludes
  Excludes <- MCExcludes
  Requests <- MCRequests
  Loads <- MCLoads
  Replies <- MCReplies
  Commands <- MCCommands
SPECIFICATION Spec
INVARIANTS LinesRead SourcesSelected RequestsRead 
CHECK_DEADLOCK FALSE
