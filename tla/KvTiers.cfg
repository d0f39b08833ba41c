SPECIFICATION Spec
CONSTANTS
  Caches <- Small
  Nobody = Nobody
  Junk = Junk
INVARIANTS
  TypeOK
  ReadsCurrent
  NewestAreHot
CHECK_DEADLOCK FALSE
