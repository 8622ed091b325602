SPECIFICATION Spec
CONSTANTS
  ReconnectDelay = 1
  ReconnectDelayMax = 60
  MaxReconnectAttempts = 0
  Width = 12
  MaxAttempt = 14
CHECK_DEADLOCK FALSE
PROPERTY DelayNeverShrinks
