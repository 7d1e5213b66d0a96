SPECIFICATION Spec
CONSTANTS
  Configs <- PlainConfigs
  MaxUploads = 1
  MultiLine = FALSE
INVARIANTS WaitsOnlyIfDue
