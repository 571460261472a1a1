\* Every way in which a reader may split the texts, both builds, and a buffer of three
\* bytes beside one that holds everything.
SPECIFICATION Spec

CONSTANTS
  MaxDepth = 3
  MaxUint = 4095
  MaxInt8 = 127
  Unrolled = 2
  Utf8 <- MCUtf8
  HashedFields = 2
  Separators <- MCSeparators
  Streams <- MCStreams
  Texts <- MCTexts
  Configs <- MCConfigs
  Foreign <- MCForeign
  Types <- MCTypes
  BufSizes = {1, 3, 100}

INVARIANTS
  JsonTypeOK
  CallsGetTheirElement
  SkippersAgree
