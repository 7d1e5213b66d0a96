CONSTANTS
  Sessions = {s1, s2}
  MaxUploads = 2
  MaxCount = 3
  Watched = {"uploads_completed_total", "uploads_failed_total"}
SPECIFICATION Spec
INVARIANTS CountersAccounted ToldIsCounted
 
CHECK_DEADLOCK FALSE
