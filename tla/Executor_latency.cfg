SPECIFICATION Spec
CONSTANTS
  q0 = q0
  q1 = q1
  q2 = q2
  Queues = {q0, q1, q2}
  Default = q0
  Latency <- MCLatency
  PreemptTimer = 2
  Deltas = {1, 4}
  MaxVruntime = 6
  MaxRunnables = 2
  None = None
PROPERTIES TimerHonoursLatency
CHECK_DEADLOCK FALSE
