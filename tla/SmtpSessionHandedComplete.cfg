\* Expected to be violated: see the property's comment.
SPECIFICATION Spec
CONSTANTS
  Names = {"client"}
  Senders = {"ann", "bob"}
  Rcpts = {"carol", "dave"}
  NoName = "noname"
  NoMessage = NoMessage
  maxRecips = 2
  maxMessageBytes = 2
  DeclaredSizes = {0, 2, 3}
  ReadSizes = {1, 2}
INVARIANT HandedMessageComplete
CHECK_DEADLOCK FALSE
