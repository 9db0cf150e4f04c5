CONSTANTS
  Run = {r1}
  Threads = 1
  Total = 1
SPECIFICATION Spec
PROPERTIES ReenabledRunGoesOn
