SPECIFICATION Spec
CONSTANTS
  LastSeg = 74
  First = 2
  Top = 34
  Layouts <- Usual
  HeapUmb <- Heap
  Sizes = {1, 2}
  HmaText = 2
  HmaTop = 7
  MaxDrivers = 2
INVARIANT ChainWhole
INVARIANT HolesLinked
 
