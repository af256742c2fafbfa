SPECIFICATION Spec
CONSTANTS
  u2 = u2
  own = own
  foreign = foreign
  Uploads = {u2}
  Removals = {}
  Digests = {}
  Kinds = {own, foreign}
  Kind <- MCKind
  Dirs = {d1}
  Joined = Joined
  Names = {n1, fwcloud_sh}
  Creates = {}
  Single = {foreign}
  MaxFiles = 2
  ScriptName = fwcloud_sh
  NoDir = NoDir
  NoFile = NoFile
CHECK_DEADLOCK FALSE
INVARIANT TmpFilesRemoved
