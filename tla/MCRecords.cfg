CONSTANTS
  Nick = {n1, n2}
  Msg = {m1}
  Quote = {q1, q2}
  Text = {t1}
  Id = Id
  None = None
  Empty = Empty
  NoFile = NoFile
  MAX_QUOTES = 2

SYMMETRY Symmetry
SPECIFICATION Spec
INVARIANT TypeOK
INVARIANT NoStaleValue
PROPERTY ImplementsStore
PROPERTY OldQuotesStay
