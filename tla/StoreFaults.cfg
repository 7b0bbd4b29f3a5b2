\* Two organisms, every mode of the storage, kills and outages anywhere.
SPECIFICATION Spec
CONSTANTS
  o1 = o1
  o2 = o2
  Owners = {o1, o2}
  None = None
  Setups <- MCSetups
  Window = 2
  MaxSaves = 3
  MaxFaults = 1
SYMMETRY Organisms
INVARIANTS
  NoGhostRow
  AckedIsKept
  TwinsAgree
PROPERTIES
  KeepsPromises
