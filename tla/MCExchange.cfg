SPECIFICATION FairSpec
CONSTANTS
  Readers = {"server", "client"}
  RIO_BUFSIZE = 2
  MAXLINE = 3
  Asked <- MCAsked
  Files <- MCFiles
  MaxChanges = 1
INVARIANTS
  StreamInOrder
  WholeRequestRead
  AnswerComplete
  
PROPERTIES
  ExchangeEnds
