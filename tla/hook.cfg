\* One client: two hook threads, the worker, Item Assistant restarted once, and
\* a filter whose ids the user lists and takes away again.
SPECIFICATION FilterSpec
CONSTANTS
  Clients = {c1}
  c1 = c1
  Hooks = {incoming, outgoing}
  incoming = incoming
  outgoing = outgoing
  MaxMsgs = 2
  MaxWindows = 2
  Ids = {1, 2}
  Length <- NameLength
  MaxEdits = 1
CHECK_DEADLOCK FALSE
INVARIANTS
  PopFindsMessage
  NoLostWakeup
PROPERTIES
  DeliversInOrder
  EveryMessageLeaves
  WithheldUntilListed
