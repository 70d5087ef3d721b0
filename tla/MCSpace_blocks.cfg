SPECIFICATION Spec
CONSTANTS
  Objects = {o1, o2, o3, o4, o5}
  FreshSize = 40
  OldSize = 48
  SurvivedSize = 24
  Sizes = {1, 12, 41}
  Counts = {1, 2}
INVARIANTS TypeOK Accounted Intact Walks Compacted RoomKept FatalIsReal
SYMMETRY Interchangeable
