SPECIFICATION Spec
CONSTANTS
  DbNames = {d1, d2}
  TableNames = {t1}
  UserNames = {admin}
  Passwords = {p0, p1}
  Misread <- TwiceRead
  Default = d1
  Admin = admin
  AdminPassword = p1
  NoPassword = p0
  Sessions = {s1, s2}
  DropsFirst = TRUE
  MaxChanges = 2
  MaxStarts = 1
PROPERTY DropsOneDatabase
SYMMETRY SessionSymmetry
CHECK_DEADLOCK FALSE
