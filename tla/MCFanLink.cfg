SPECIFICATION FairSpec
CONSTANTS
  Tx = Tx
  Rx = Rx
  Fan = Fan
  Aio = Aio
  Rgb = Rgb
  None = None
  Backoff <- Rungs
  Slow = 3
  Healthy = 3
  Loads <- Lapse
PROPERTIES
  FanHasTheLink
CHECK_DEADLOCK FALSE
