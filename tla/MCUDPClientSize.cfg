CONSTANTS
  c1 = c1
  c2 = c2
  Clients = {c1}
  MaxPacket = 2
  MaxWrites = 4
  MaxErrors = 1
  MaxSpurious = 0
SPECIFICATION Spec
INVARIANT DatagramFits
