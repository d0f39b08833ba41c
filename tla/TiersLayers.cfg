SPECIFICATION Spec
CONSTANTS
  Caches <- Layered
  Nobody = Nobody
  Junk = Junk
INVARIANTS
  ReadsCurrent
