\* Three clients, one after the other; one may be killed between two requests.
CONSTANTS
  Clients = {c1, c2, c3}
  MAXCLIENTS = 3
  Overlap = FALSE
  Mortal = {c1}
  KillPoints = {"ready"}
  NULL = NULL
  Terminals = {c2}
  Script <- MCScript
SPECIFICATION FairSpec
INVARIANTS TypeOK OwnReplies NoCrash
PROPERTIES Served ServerEnds
CHECK_DEADLOCK FALSE
