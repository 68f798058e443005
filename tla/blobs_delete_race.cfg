SPECIFICATION Spec
CONSTANTS
  small = small  big = big  other = other
  Blob <- MCTwo
  Size <- MCTwoSize
  NoBlob = NoBlob
  Holder = {h1}
  Upload = {u1, u2}
  NoUpload = NoUpload
  Deleter = {d1}
  Reader = {}
  Cap = 2
  Grace = 1
  UploadsMax = 2
  MaxTime = 2
INVARIANT RowHasFile
