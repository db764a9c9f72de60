\* A global and a chat bucket, two callers; two cards and a file, a batch of one;
\* three titles in batches of two, one that always fails.
SPECIFICATION Spec
CONSTANTS
  Global = global
  Chats = {chat1}
  Callers = {k1, k2}
  Cost = 3
  GlobalRate = 2
  GlobalLimit = 4
  ChatRate = 2
  ChatLimit = 3
  KeyTTL = 2
  MaxWait = 2
  Jitter = {0, 1}
  Until = 2
  Cards = {1, 2}
  Files = {3}
  NoMessage = 0
  Owners = {o1, o2}
  Admins = {o2}
  Hands = {h1, h2}
  CardTTL = 1
  FileTTL = 1
  BatchLimit = 1
  ExpEnd = 2
  MaxExpFaults = 1
  EnrIds = {1, 2, 3}
  Undated = {2}
  Unanswered = {1}
  EnrBatch = 2
  MaxEnrOps = 2
  MaxEnrFaults = 1
CHECK_DEADLOCK FALSE
INVARIANTS TypeOK SpendBounded WaitSuffices LeftOnlyByFault NoticeTellsTruth
PROPERTIES OnlyOwnerDrives DueIsRemoved PendingSettles
