CONSTANTS
  t1 = t1
  t2 = t2
  Writers <- TwoWriters
  QueueSize = 2
  MaxLines = 2
  MaxDay = 2
SPECIFICATION Spec
INVARIANTS Lossless NeverNull
PROPERTIES Returns Flushed
