SPECIFICATION MCSpec
CONSTANTS
  a1 = a1
  a2 = a2
  w1 = w1
  w2 = w2
  c1 = c1
  c2 = c2
  t1 = t1
  t2 = t2
  k1 = k1
  n1 = n1
  Adapters = {a1, a2}
  Configurers = {w1, w2}
  Callers = {c1, c2}
  PcIps = {"p1", "p2"}
  DeviceIps = {"d1", "d2", "d0"}
  DefaultIp = "d0"
  DeviceIp <- MCDeviceIp
  NoPc = "nopc"
  Unplugged = "unplugged"
  Notes = {n1}
  NoNote = nonote
  Free = free
  MaxChanges = 2
  Keys = {k1}
  MaxRuntimes = 2
  Commands = {t1, t2}
  NoCommand = none
  MaxProbes = 1
  MaxSteps = 4
SYMMETRY Symmetry
INVARIANTS VerifiedStaysThere ConfiguredWasVerified PairsToldApart NoLockLeftBehind CancelledNotSent ProbesBounded OneCommandPerDevice
PROPERTY CommandsSentOnce
CHECK_DEADLOCK FALSE
