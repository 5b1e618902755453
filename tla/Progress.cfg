SPECIFICATION Spec
CONSTANTS
  Slots = {p1, p2}
  NoChild = NoChild
  Daemons = {d1, d2}
  NONE = NONE
  STALE = STALE
PROPERTIES DrainGetsTheLock StopsCleanly ModelFollows
