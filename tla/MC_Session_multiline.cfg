SPECIFICATION Spec
CONSTANTS
  Configs <- PlainConfigs
  MaxUploads = 1
  MultiLine = TRUE
INVARIANTS RepliesInStep
