CONSTANTS
  TxSize = 2
  RxSize = 2
  MaxSend = 2
  MaxBytes = 3
SPECIFICATION FairSpec
INVARIANTS TypeOK SentInOrder NoSilentLoss ReadInOrder
PROPERTY RequestSent
