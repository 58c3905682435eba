CONSTANTS
  a = a
  b = b
  None = None
  Writers = {p, q}
  Watched <- MCWatched
  Packets <- MCPackets
  MaxPackets = 2
  Msb = 4
  Named = {a, b}
  Classes <- MCClasses
  Requires <- MCRequires
  Literals = {l}
  Tables = {t}
  Absent = Absent
  Broken = Broken
  MaxEdits = 2
  Second = 3
  Horizon = 16
SPECIFICATION Spec
SYMMETRY DataSymmetry
INVARIANTS  EachCallbackOnce FileShowsWhatRuns NoBursts NoDrift
 
CHECK_DEADLOCK FALSE
