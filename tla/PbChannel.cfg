\* Every message type: requests cut anywhere, replies one after the other.
SPECIFICATION Spec
CONSTANTS
  Types <- MessageTypes
  Ints <- MCInts
  Texts <- MCTexts
  MaxRepeat = 2
  MaxSent <- MCMaxSent
  MaxChunks <- MCMaxChunks
  MaxBody <- MCMaxBody
  InPlace <- MCInPlace
INVARIANTS SizeIsExact WholeBodyIsRead NoSilentCut CutKeepsPrefix AcceptedIsStable
CHECK_DEADLOCK FALSE
