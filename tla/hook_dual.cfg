\* Two clients, which share the event.
SPECIFICATION Spec
CONSTANTS
  Clients = {c1, c2}
  c1 = c1
  c2 = c2
  Hooks = {incoming}
  incoming = incoming
  MaxMsgs = 1
  MaxWindows = 1
CHECK_DEADLOCK FALSE
PROPERTY EveryMessageLeaves
