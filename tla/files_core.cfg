SPECIFICATION Spec
CONSTANTS
  u2 = u2
  own = own
  foreign = foreign
  Uploads = {u1, u2}
  Removals = {r1}
  Digests = {q1}
  Kinds = {own, foreign}
  Kind <- MCKind
  Dirs = {d1}
  Joined = Joined
  Names = {n1, fwcloud_sh}
  Creates = {own}
  Single = {foreign}
  MaxFiles = 2
  ScriptName = fwcloud_sh
  NoDir = NoDir
  NoFile = NoFile
SYMMETRY Symmetry
CHECK_DEADLOCK FALSE
INVARIANTS TypeOK RefusedChangesNothing DigestsAgree HalfDone OneLeftover
PROPERTIES UploadInstalls
