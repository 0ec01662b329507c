SPECIFICATION Spec
CONSTANTS
  Nobody = Nobody
  Reconciler = Reconciler
  User = {ann}
  Chat = {room1}
  Request = {r1, r2}
  MaxChanges = 2
  MaxFaults = 1
  Faults = {"crash"}
  Asked = {"message"}
SYMMETRY Names
INVARIANTS TypeOK EventAppliedOnce BindingMatchesAgent
PROPERTIES PatchTouchesOwn
