CONSTANTS
  BlockSize = 4
  Lengths <- PassLengths
  MaxTotal = 30
SPECIFICATION Spec
INVARIANTS
  TypeOK
  BufferInv
PROPERTY StreamSpec
