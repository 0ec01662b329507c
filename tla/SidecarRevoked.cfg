SPECIFICATION Spec
CONSTANTS
  Nobody = Nobody
  Reconciler = Reconciler
  User = {ann}
  Chat = {}
  Request = {r1}
  MaxChanges = 4
  MaxFaults = 0
  Faults = {"crash", "partial list", "gateway"}
  Asked = {"message"}
PROPERTIES RevokedIsUnbound
