CONSTANTS
  c1 = c1
  c2 = c2
  Clients = {c1, c2}
  MaxPacket = 2
  MaxWrites = 4
  MaxErrors = 1
  MaxSpurious = 1
SPECIFICATION FairSpec
INVARIANTS TypeOK BytesConserved OneFlush NoLostSubmit
PROPERTIES CallsReturn
