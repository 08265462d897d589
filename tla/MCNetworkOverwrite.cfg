CONSTANTS
  i1 = i1
  i2 = i2
  i3 = i3
  n1 = n1
  n2 = n2
  c1 = c1
  c2 = c2
  game1 = game1
  game2 = game2
  STATUSUPDATE = STATUSUPDATE
  Inst = {i1, i2, i3}
  Nick = {n1, n2}
  Channel = {c1, c2}
  Owner = {STATUSUPDATE}
  Testing = {}
SYMMETRY Addresses
SPECIFICATION Spec
INVARIANT EntriesAreLive
