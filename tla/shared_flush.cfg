SPECIFICATION Spec
CONSTANTS
  i1 = i1
  i2 = i2
  c1 = c1
  c2 = c2
  Isolates = {i1, i2}
  Conns = {c1}
  Handle <- SharedConnection
  Keys = {k}
  Engines = {"postgres"}
  MaxStaged = 2
  MaxLog = 3
  MaxFaults = 0
PROPERTY BatchesAtomic
