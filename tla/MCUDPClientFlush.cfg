CONSTANTS
  c1 = c1
  c2 = c2
  Clients = {c1}
  MaxPacket = 2
  MaxWrites = 3
  MaxErrors = 0
  MaxSpurious = 0
SPECIFICATION FairSpec
PROPERTY FlushedIsTaken
