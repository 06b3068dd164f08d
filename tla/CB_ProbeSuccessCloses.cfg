CONSTANTS
  c1 = c1
  c2 = c2
  c3 = c3
  Calls <- MCCalls
  Threshold = 3
  Cooldown = 2
SPECIFICATION Spec
PROPERTY ProbeSuccessCloses
