SPECIFICATION HFairSpec
CONSTANTS
  Sessions = {s1, s2}
  RangeSize = 3
  OffsetModulus = 4
  BindFaults = TRUE
  ForeignPorts = {1}
  Nobody = Nobody
  Foreign = Foreign
INVARIANTS TypeOK ReservedOnce ReservedExactly GuardOwnsSocket UndisturbedSearchIsComplete
PROPERTIES ImplementsLease AllocationEnds
