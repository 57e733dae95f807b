SPECIFICATION FairSpec
CONSTANTS
  request = request
  scaler = scaler
  monitor = monitor
  Launchers <- OneLauncher
  Scaler = scaler
  Monitor = monitor
  MaxRetries = 1
PROPERTIES
  DeadNodesDropped
