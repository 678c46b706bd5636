SPECIFICATION Spec
CONSTANTS
  MaxPid = 3
  MaxTicks = 1
  ERROR = ERROR
  Statuses = {ERROR}
  Ttys = {t1}
  MaxLine = 1
  MaxInput = 1
  NULL = NULL
INVARIANT TypeOK
INVARIANT OnePlace
INVARIANT ReaderFindsText
INVARIANT WriterWillBeWoken
INVARIANT OneTransmission
INVARIANT PlaceInv
PROPERTY WriteReturnsWhenDone
PROPERTY OutputSpec
