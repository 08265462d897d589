CONSTANTS
  uno = uno
  liar = liar
  a1 = a1
  a2 = a2
  a3 = a3
  u1 = u1
  u2 = u2
  Name = {uno, liar}
  Addr = {a1, a2, a3}
  User = {u1, u2}
  Main = Main
  Console = Console
  Channel = Channel
  MayFail = {liar}
  MAX_REQUESTS = 1
  None = None
SYMMETRY Addresses
SPECIFICATION Spec
INVARIANT CommandsAreLive
