SPECIFICATION Spec
CONSTANTS
  None = None
  a = a  b = b  s1 = s1  s2 = s2  l1 = l1  l2 = l2
  EventIds = {1, 2}
  Types = {a}
  Txns = {p1, p2}
  Subs = {s1}
  Loops = {l1}
  TypeOf <- OneType
  Cascades <- Silent
  SubOf <- OneSub
  BatchLimit = 2
  MaxAttempts = 2
  MaxDisruptions = 0
INVARIANT AtLeastOnce
