SPECIFICATION FairSpec
CONSTANTS
  Producers = {p1, p2}
  p1 = p1
  p2 = p2
  Consumers = {c1}
  c1 = c1
  Nodes = {n1, n2, n3, n4}
  n1 = n1
  n2 = n2
  n3 = n3
  n4 = n4
  Null = Null
  Empty = Empty
  Copies = TRUE
  None = None
  MaxItems = 2
  Phased = TRUE
  SpuriousCAS = FALSE
INVARIANT NoUseAfterFree
PROPERTY ImplementsQueue
PROPERTY AllDelivered
