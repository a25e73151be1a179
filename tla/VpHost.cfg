SPECIFICATION Spec
CONSTANTS
  i1 = i1
  i2 = i2
  i3 = i3
  N = 2
  Ips <- MCIps
  Nil = Nil
  Absent = Absent
  Faults = {"claim", "release", "start"}
  MaxChanges = 2
  MaxMishaps = 1
SYMMETRY IpSymmetry
INVARIANTS NoLeak OnRealAddress LatestConfigRuns SnapshotHonest CloudLearns
