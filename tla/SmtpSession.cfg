\* One session, with and without TLS and with messages stored or discarded; the
\* limits are small enough for a third RCPT, an oversized SIZE and an oversized body
\* to occur.
SPECIFICATION FairSpec
CONSTANTS
  Names = {"client"}
  Senders = {"ann", "bob"}
  Rcpts = {"carol", "dave"}
  NoName = "noname"
  NoMessage = NoMessage
  maxRecips = 2
  maxMessageBytes = 2
  DeclaredSizes = {0, 2, 3}
  ReadSizes = {1, 2}
INVARIANTS
  EnvelopeInOrder
  
  
  EnvelopeSaidOverThisLink
PROPERTIES
  BodyEndsTransaction
  ClosedMeansQuiet
  ImplementsTransaction
  
CHECK_DEADLOCK FALSE
