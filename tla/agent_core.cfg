SPECIFICATION Spec
CONSTANTS
  Requests = {r1}
  a = a
  b = b
  k1 = k1
  k2 = k2
  Peers = {a, b}
  NoPeer = NoPeer
  Keys = {k1, k2}
  NoKey = NoKey
  Binary = Binary
  RandomKey = RandomKey
  BadKey = BadKey
  Unset = Unset
  Garbage = Garbage
  Space = Space
  Junk = Junk
  NoConfig = NoConfig
  NoRequest = NoRequest
  Texts <- MCTexts
  UsizeMax = 2000000000
  MaxEdits = 2
SYMMETRY Symmetry
INVARIANTS TypeOK OnlyAllowedServed RefusedOnlyOthers ConfigInForce
