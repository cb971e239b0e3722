SPECIFICATION Spec
CONSTANTS
  None = None
  a = a  b = b  s1 = s1  s2 = s2  l1 = l1  l2 = l2
  EventIds = {1, 2, 3}
  Types = {a, b}
  Txns = {p1}
  Subs = {s1, s2}
  Loops = {l1, l2}
  TypeOf <- ChainTypes
  Cascades <- Chain
  SubOf <- ChainLoops
  BatchLimit = 2
  MaxAttempts = 2
  MaxDisruptions = 1
INVARIANT NoPhantomCascade
