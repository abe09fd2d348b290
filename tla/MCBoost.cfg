SPECIFICATION Spec
CONSTANTS
  Workers = {w1, w2}
  LastEpoch = 3
  TaskQueueSize = 2
  ResultQueueSize = 8
  WriteBufferSize = 1
  DefaultTaskSize = 2
  MinTaskSize = 1
  MaxTaskSize = 2
  Threshold = 1
  MaxErrs = 2
  MaxFaults = 1
  MaxAlarms = 1
  Nil = Nil
INVARIANTS TypeOK NothingLost DeliveredInOrder
PROPERTIES RoundsReturn Finishes
CHECK_DEADLOCK FALSE
