SPECIFICATION Spec
CONSTANTS
  Producers = {p1, p2}
  p1 = p1
  p2 = p2
  Consumers = {c1, c2}
  c1 = c1
  c2 = c2
  Nodes = {n1, n2, n3, n4}
  n1 = n1
  n2 = n2
  n3 = n3
  n4 = n4
  Null = Null
  Empty = Empty
  Copies = FALSE
  None = None
  MaxItems = 1
  Phased = FALSE
  SpuriousCAS = TRUE
SYMMETRY Symmetry
INVARIANT NeverTwice
CHECK_DEADLOCK FALSE
