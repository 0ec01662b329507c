SPECIFICATION Spec
CONSTANTS
  Main = Main
  Nobody = Nobody
  Session = {dev, ops}
  Cmd = {c1, c2}
  MaxChildren = 1
  MaxBorn = 3
SYMMETRY Alike
INVARIANTS TypeOK SessionKeepsThread ThreadHasSession PinsAreLive LimitOvershoot
PROPERTIES FailedSpawnLeavesNothing KillEndsSession
