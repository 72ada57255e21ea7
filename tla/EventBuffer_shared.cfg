CONSTANTS
  Keys = {k1, k2}
  Types = {"append", "notify", "other"}
  None = None
  Chats = {c1}
  PlainChats = {c1}
  ConditionalChats = {c1}
  Functions = {f1}
  Nodes = {n1}
  Arriving = {k1, k2}
  Deletable = {k2}
  ListenerAnyType = FALSE
  MaxEmits = 3
  MaxFlushFailures = 1
SPECIFICATION FairSpec
CHECK_DEADLOCK FALSE
INVARIANT TypeOK
PROPERTY KeepsPromise
PROPERTY OthersDelivered
PROPERTY Released
