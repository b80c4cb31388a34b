CONSTANTS
  url0 = url0  tempAdj = tempAdj  empty = empty
  w1 = w1  b = b
  Keys = {url0, tempAdj, empty}
  Words = {w1}  NoWord = NoWord
  Heads = {b}  NoHead = NoHead
  Names <- MCNames
  Texts <- MCTexts
  ArrayKeys = {url0}
  EmptyKey = empty
  Calibration = {tempAdj}
  Unset = Unset
SPECIFICATION Spec
INVARIANTS TypeOK OneLinePerKey RewritesMounted LiveAgrees FactoryKeepsCalibration
PROPERTY Durable
