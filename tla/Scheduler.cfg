\* Two processors; the threads and devices are those of each instance.
CONSTANTS
  None = None
  t1 = t1
  d1 = d1
  s1 = s1
  Threads = {t1, t2}
  Cpus = {c1, c2}
  Disks = {d1}
  Ports = {s1}
  MaxDt = 2
  StepMs = 1
  Instances <- TheInstances
SPECIFICATION MCSpec
INVARIANT OnePlace
INVARIANT OwnChain
INVARIANT WorkIsPosted
PROPERTY FramesEnd
