SPECIFICATION Spec
CONSTANTS
  Tasks = {t1, t2}
  MaxManifests = 1
  MaxRestarts = 1
  Ops = {"enable", "revoke", "execute"}
SYMMETRY Symmetry
INVARIANTS
  RevokeIsStickyAlways
