SPECIFICATION Spec
CONSTANTS
  root = root
  ann = ann
  binary = binary
  code = code
  v1 = v1
  v2 = v2
  Email = {root, ann}
  AdminEmail = root
  SelfRole = {"hirer"}
  Client = {c1, c2}
  MaxTokens = 1
  NoRequest = NoRequest
  File = {binary, code}
  JobFile = {code}
  Version = {v1, v2}
  Size <- MCSize
  User = {c1, c2}
  NoTransfer = NoTransfer
  NoFile = NoFile
  OwnerOf <- MCOwnerOf
  MaxUploads = 2
SYMMETRY ClientSymmetry
INVARIANTS
  TypeOK
  AdminRemains
  AdminsAreMade
  WholeUnlessOverlap
CHECK_DEADLOCK FALSE
