CONSTANTS
  Name = {a, b, c, d, e}
  Size = {0, 1, 4, 5}
  PAGE_SIZE = 4
  MAX_FAMILIES_PER_VM_PAGE = 2
  MAX_PAGES = 3
  EMPTY = EMPTY

SPECIFICATION Spec

SYMMETRY MCSymmetry

INVARIANTS
  TypeOK
  NoFamilyVanishes

PROPERTIES
  ImplementsDirectory

CHECK_DEADLOCK FALSE
