SPECIFICATION Spec
CONSTANTS
  Last = 2
  Statements = 3
  Save = {s1, s2, s3}
  Edit = {e1, e2}
  None = None
SYMMETRY Symmetry
INVARIANTS
  AllOrNothing
  FreeBetween
PROPERTIES
  LedgerSpec
