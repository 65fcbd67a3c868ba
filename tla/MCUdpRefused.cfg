CONSTANTS
  BufferSize = 2
  Streams = 1
  MaxSize = 2
  MaxMessages = 1
  MaxLine = 1
  MaxFaults = 1
SPECIFICATION UdpSpec
INVARIANTS OnlyMessages
