\* Two host threads and a serial port.
CONSTANTS
  None = None
  Threads = {t1, t2}
  Cpus = {c1, c2}
  Disks = {}
  Ports = {s1}
  MaxDt = 2
  StepMs = 1
SPECIFICATION Spec
INVARIANT CpuKept
