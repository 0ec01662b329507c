SPECIFICATION FairSpec
CONSTANTS
  Nobody = Nobody
  Reconciler = Reconciler
  User = {ann}
  Chat = {}
  Request = {r1}
  MaxChanges = 3
  MaxFaults = 1
  Faults = {"crash", "partial list", "gateway"}
  Asked = {"batch", "reset"}
INVARIANTS BindingMatchesAgent
PROPERTIES PermissionsConverge
