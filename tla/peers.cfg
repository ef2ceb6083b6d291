SPECIFICATION PartSpec
CONSTANTS
  None = None
  Sentinels <- ThreeSentinels
  Instances <- ThreeInstances
  FirstMaster = rm
  ParallelSyncs = 1
  Configs <- SentinelDeployments
  s1 = s1
  s2 = s2
  s3 = s3
  rm = rm
  r1 = r1
  r2 = r2
  n1 = n1
  n2 = n2
  n3 = n3
  w1 = w1
  w2 = w2
SYMMETRY Interchangeable
INVARIANTS
  FailoverSafe
  ReplicaConsistent
  WaitHonest
PROPERTIES
  ConfigMonotone
CHECK_DEADLOCK FALSE
