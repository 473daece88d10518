SPECIFICATION Spec
CONSTANTS
  DbNames = {d1, d2, d3}
  TableNames = {t1}
  UserNames = {admin}
  Passwords = {p0, p1}
  Misread <- TwiceRead
  Default = d1
  Admin = admin
  AdminPassword = p1
  NoPassword = p0
  Sessions = {s1, s2}
  DropsFirst = FALSE
  MaxChanges = 4
  MaxStarts = 2
INVARIANTS TypeOK NamesUnique TrapOnlyAfterDrop OnlyEmptyUnsaved
PROPERTIES DirectorySpec CutSaveKeepsAccounts
SYMMETRY SessionSymmetry
CHECK_DEADLOCK FALSE
