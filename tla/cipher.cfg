SPECIFICATION Spec
CONSTANTS
  Byte = 4
  Block = 4
  KeyLen = 2
  max_encr_len = 14
  Xor <- Xor2
  KeyStream <- Stream
  DefaultKey <- SomeKey
  Randoms <- FewRandoms
  Strings <- FewStrings
  Values <- FewValues
  MaxSends = 2
INVARIANTS
  TypeOK
  ExchangeWorks
  RoundTrip
  InStep
\* The connection may end, or nobody may use it.
CHECK_DEADLOCK FALSE
