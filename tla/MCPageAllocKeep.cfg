CONSTANTS
  p1 = p1
  p2 = p2
  p3 = p3
  Users = {u1, u2, u3}
  Pages = {p1, p2, p3}
  NULL = NULL
  InitList <- ThreePages
SPECIFICATION Spec
PROPERTY OwnerKeepsData
