SPECIFICATION Spec
CONSTANTS
  Sessions = {s1, s2, s3}
  Addresses = {1, 2}
  Capacity = 2
  MaxAdvances = 2
  NoAddress = NoAddress
SYMMETRY Symmetry
INVARIANTS TypeOK CapacityKept CycleAccounted CandidatesRight
