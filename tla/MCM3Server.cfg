CONSTANTS
  BufferSize <- MCBufferSize
  MaxReceives = 2
  Traffic <- MCTraffic

SPECIFICATION FairSpec

INVARIANTS
  ReaderAwake
  BatchesIntact
  InStep

PROPERTIES
  ArrivedHandled
  ServeReturns
