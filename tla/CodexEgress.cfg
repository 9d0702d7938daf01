\* One tunnel and one probe compete for one slot; the probe may be slow.
SPECIFICATION Spec
CONSTANTS
  Tunnel <- OneTunnel
  Slots = 1
  HeaderLimit = 1
  Budget = 1
  Block = 1
  TunnelTime = 1
  SlowProbe = TRUE
INVARIANTS TypeOK WorkloadsConfined
PROPERTIES PolicyChangeStops ProxyLossStops
