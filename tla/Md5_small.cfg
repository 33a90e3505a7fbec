SPECIFICATION Spec
CONSTANTS
  Block = 8
  LenBytes = 2
  Radix = 64
  Word = 64
  Pieces <- Sizes
  MaxLen = 18
INVARIANTS TypeOK Absorbs HashesPadded
