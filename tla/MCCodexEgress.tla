--------------------------- MODULE MCCodexEgress ---------------------------
(* Instances of CodexEgress for TLC: tunnels are interchangeable names.     *)
EXTENDS CodexEgress

TwoTunnels == {"tunnel1", "tunnel2"}
OneTunnel == {"tunnel1"}
=============================================================================
