\* As many tunnels as slots, and a probe that is answered in time.
SPECIFICATION Spec
CONSTANTS
  Tunnel <- TwoTunnels
  Slots = 2
  HeaderLimit = 1
  Budget = 1
  Block = 1
  TunnelTime = 1
  SlowProbe = FALSE
PROPERTY OnlyLossStops
