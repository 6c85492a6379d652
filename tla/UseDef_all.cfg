CONSTANTS
  Plain = {p1}
  Phi = {f1}
  Global = {g1, g2}
  Block = {b1, b2}
  Nil = Nil
SPECIFICATION FairSpec
INVARIANTS TypeOK UsersExact NoDangling NothingLostByClear
PROPERTIES ImplementsGraph ReplaceTerminates
