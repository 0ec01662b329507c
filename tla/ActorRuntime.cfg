SPECIFICATION FairSpec
CONSTANTS
  cc = cc
  thread = thread
  Nobody = Nobody
  User = User
  None = None
  CC <- OneCC
  Chat <- OneThread
  Peer <- PeerOf
  Parent <- ParentIsCC
  StopCalls = {s1}
  MaxErrors = 2
  Obj = {o1, o2, o3}
  Task = {t1, t2}
  MaxSent = 2
INVARIANTS TypeOK SingleLoop LoopReadsOwnMailbox ActiveHasLoop ActiveIsAttached InOrderAtMostOnce
PROPERTIES BudgetSpent QueuedIsHandled ImplementsTable
