\* Two clients at once.
CONSTANTS
  Clients = {c1, c2}
  MAXCLIENTS = 3
  Overlap = TRUE
  Mortal = {}
  KillPoints = {}
  NULL = NULL
  Terminals = {c2}
  Script <- MCScript
SPECIFICATION FairSpec
PROPERTY Answered
CHECK_DEADLOCK FALSE
