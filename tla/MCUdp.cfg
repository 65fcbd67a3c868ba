CONSTANTS
  BufferSize = 2
  Streams = 1
  MaxSize = 3
  MaxMessages = 3
  MaxLine = 2
  MaxFaults = 1
SPECIFICATION UdpFairSpec
INVARIANTS UdpTypeOK NoPhantom
PROPERTIES NotOverwritten ReadInOrder Offered Delivered
