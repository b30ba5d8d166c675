CONSTANTS
  Users = {u1, u2}
  Account <- MCAccount
  Conns = {c1, c2}
  Gates = {g1, g2}
  MaxKey = 2
  MaxOpen = 3
  MaxMishaps = 2
  None = None
SPECIFICATION Spec
SYMMETRY Symmetry
INVARIANTS
  TablesAgree
  KeyIsOwn
  
CHECK_DEADLOCK FALSE
