---------------------------- MODULE CodexEgress ----------------------------
(***************************************************************************)
(* scripts/codex-egress.py: the owner of the worker's PID and network       *)
(* namespace.  It installs a filter for both address families, announces    *)
(* readiness, and every second compares the filter with the one it          *)
(* installed and probes the provider proxy.  Losing either ends the owner,  *)
(* and with it the namespace.  The proxy is the one of ProviderProxy: the   *)
(* owner's probe is a connection like the worker's tunnels.                 *)
(***************************************************************************)
EXTENDS Naturals, FiniteSets

CONSTANTS
  Tunnel,     \* connections the worker may open to the proxy
  Slots, HeaderLimit, Budget, Block, TunnelTime,  \* of ProviderProxy
  SlowProbe   \* whether an admitted probe may take longer than its second

Probe == "probe"   \* the owner's connection
Conn == Tunnel \cup {Probe}
Asks == [c \in Conn |-> IF c = Probe THEN {"health"} ELSE {"connect", "other"}]
Prompt == {Probe}
Family == {"iptables", "ip6tables"}

ASSUME TunnelAssumption == IsFiniteSet(Tunnel) /\ Probe \notin Tunnel
ASSUME SizesAssumption == {Slots, HeaderLimit, Budget, Block, TunnelTime} \subseteq Nat \ {0}
ASSUME SlowProbeAssumption == SlowProbe \in BOOLEAN

VARIABLES
  pc,              \* what the owner does next
  policy,          \* per family: the filter as `-S` shows it
  observed_proxy,  \* the proxy has been healthy once
  late,            \* the 60 seconds of the deadline are over
  ready,           \* /run/codex-policy-ready exists
  box,             \* container state of the proxy and the worker
  why,             \* why the owner ended; for the properties only
  phase, slots, got, remaining, age, reply   \* of ProviderProxy

owner == <<pc, observed_proxy, ready, why>>
proxy == <<phase, slots, got, remaining, age, reply>>
vars == <<pc, policy, observed_proxy, late, ready, box, why,
          phase, slots, got, remaining, age, reply>>

P == INSTANCE ProviderProxy

Box == {"proxy", "worker"}

-----------------------------------------------------------------------------
Init ==
  /\ pc = "install"
  /\ policy = [f \in Family |-> "absent"]
  /\ observed_proxy = FALSE /\ late = FALSE /\ ready = FALSE
  /\ box = [b \in Box |-> "created"]
  /\ why = "none"
  /\ P!Init

(* Mutant: the next proxy inherits the semaphore of the one that died. *)
ProxyGone_keeps_slots ==
  /\ phase' = [c \in Conn |-> "idle"] /\ slots' = slots + 1
  /\ got' = [c \in Conn |-> 0] /\ remaining' = [c \in Conn |-> 0]
  /\ age' = [c \in Conn |-> 0] /\ reply' = [c \in Conn |-> "none"]

(* The process of the proxy is gone, and its connections with it. *)
ProxyGone ==
  /\ phase' = [c \in Conn |-> "idle"] /\ slots' = Slots
  /\ got' = [c \in Conn |-> 0] /\ remaining' = [c \in Conn |-> 0]
  /\ age' = [c \in Conn |-> 0] /\ reply' = [c \in Conn |-> "none"]

(* Mutant: the containers do not join the owner's PID namespace. *)
Exit_alone(reason) ==
  /\ pc' = "dead" /\ why' = reason /\ ready' = FALSE
  /\ policy' = [f \in Family |-> "absent"]
  /\ UNCHANGED <<box, observed_proxy, late, proxy>>

(* The owner unlinks its readiness file and exits; as PID 1 it takes proxy  *)
(* and worker with it.                                                      *)
Exit(reason) ==
  /\ pc' = "dead" /\ why' = reason /\ ready' = FALSE
  /\ policy' = [f \in Family |-> "absent"]
  /\ box' = [b \in Box |-> IF box[b] = "running" THEN "exited" ELSE box[b]]
  /\ ProxyGone
  /\ UNCHANGED <<observed_proxy, late>>

GoTo(step) == pc' = step /\ UNCHANGED <<policy, observed_proxy, late, ready, box, why, proxy>>

(* install, first for IPv4, then for IPv6; any failing command is fatal. *)
Install(f) ==
  /\ pc = "install"
  /\ policy[f] = "absent" /\ (f = "ip6tables" => policy["iptables"] # "absent")
  /\ \/ Exit("command")
     \/ /\ policy' = [policy EXCEPT ![f] = "installed"]
        /\ UNCHANGED <<owner, late, box, proxy>>

AnnounceReady ==
  /\ pc = "install"
  /\ \A f \in Family : policy[f] # "absent"
  /\ ready' = TRUE /\ pc' = "compare_iptables"
  /\ UNCHANGED <<policy, observed_proxy, late, box, why, proxy>>

(* Mutant: only the IPv4 filter is compared. *)
Compare_ip4_only(f, step) ==
  /\ pc = step
  /\ IF policy[f] = "changed" /\ f = "iptables" THEN Exit("policy")
     ELSE \/ GoTo(IF f = "iptables" THEN "compare_ip6tables" ELSE "probe")
          \/ Exit("command")

(* `-S` against the rules seen when they were installed. *)
Compare(f, step) ==
  /\ pc = step
  /\ IF policy[f] = "changed" THEN Exit("policy")
     ELSE \/ GoTo(IF f = "iptables" THEN "compare_ip6tables" ELSE "probe")
          \/ Exit("command")

(* Mutant: before the proxy was seen healthy, its absence is no reason. *)
Judge_without_deadline(healthy, connection) ==
  IF ~healthy /\ observed_proxy
  THEN Exit("proxy")
  ELSE /\ pc' = "compare_iptables"
       /\ observed_proxy' = (observed_proxy \/ healthy)
       /\ connection
       /\ UNCHANGED <<policy, late, ready, box, why>>

(* What the owner makes of a probe; then it sleeps a second.  `connection`  *)
(* is what becomes of the probe's connection if the owner goes on.          *)
Judge(healthy, connection) ==
  IF ~healthy /\ (observed_proxy \/ late)
  THEN Exit("proxy")
  ELSE /\ pc' = "compare_iptables"
       /\ observed_proxy' = (observed_proxy \/ healthy)
       /\ connection
       /\ UNCHANGED <<policy, late, ready, box, why>>

(* proxy_ready: nobody listens, or the connection reaches the proxy. *)
ProbeProxy ==
  /\ pc = "probe"
  /\ \/ box["proxy"] # "running" /\ Judge(FALSE, UNCHANGED proxy)
     \/ /\ box["proxy"] = "running"
        /\ P!Accept(Probe)
        /\ pc' = "await"
        /\ UNCHANGED <<policy, observed_proxy, late, ready, box, why>>

(* The response arrived, or the connection ended without one. *)
ProbeAnswered ==
  /\ pc = "await" /\ phase[Probe] = "idle"
  /\ Judge(reply[Probe] = "200", UNCHANGED proxy)

(* One second without a response. *)
ProbeTimesOut ==
  /\ SlowProbe
  /\ pc = "await" /\ phase[Probe] # "idle"
  /\ Judge(FALSE, P!Close(Probe, "none"))

Owner ==
  \/ \E f \in Family : Install(f)
  \/ AnnounceReady
  \/ Compare("iptables", "compare_iptables") \/ Compare("ip6tables", "compare_ip6tables")
  \/ ProbeProxy \/ ProbeAnswered \/ ProbeTimesOut

-----------------------------------------------------------------------------
(* Time, the kernel, the container engine and the worker.                  *)

DeadlinePasses ==
  /\ ready /\ ~late /\ late' = TRUE
  /\ UNCHANGED <<owner, policy, box, proxy>>

(* The filter is changed behind the owner's back, and maybe put back. *)
Tamper(f) ==
  /\ pc # "dead" /\ ready
  /\ policy' = [policy EXCEPT ![f] = IF @ = "installed" THEN "changed" ELSE "installed"]
  /\ UNCHANGED <<owner, late, box, proxy>>

Kill == pc # "dead" /\ Exit("killed")

(* Owner healthy, that is, the readiness file exists. *)
StartProxy ==
  /\ ready /\ box["proxy"] = "created"
  /\ box' = [box EXCEPT !["proxy"] = "running"]
  /\ UNCHANGED <<owner, policy, late, proxy>>

(* Proxy healthy: the container's own probe was given a slot. *)
StartWorker ==
  /\ box["proxy"] = "running" /\ slots > 0
  /\ box["worker"] = "created"
  /\ box' = [box EXCEPT !["worker"] = "running"]
  /\ UNCHANGED <<owner, policy, late, proxy>>

ProxyExits ==
  /\ box["proxy"] = "running"
  /\ box' = [box EXCEPT !["proxy"] = "exited"]
  /\ ProxyGone
  /\ UNCHANGED <<owner, policy, late>>

WorkerExits ==
  /\ box["worker"] = "running"
  /\ box' = [box EXCEPT !["worker"] = "exited"]
  /\ UNCHANGED <<owner, policy, late, proxy>>

(* A handler of the proxy makes a step; the worker opens a connection. *)
ProxyHandles(c) == P!Handle(c) /\ UNCHANGED <<owner, policy, late, box>>
WorkerConnects ==
  /\ box["worker"] = "running" /\ box["proxy"] = "running"
  /\ \E c \in Tunnel : P!Accept(c)
  /\ UNCHANGED <<owner, policy, late, box>>

(* The operator recreates the owner and its dependents as a group. *)
Recreate ==
  /\ pc = "dead"
  /\ pc' = "install" /\ why' = "none"
  /\ policy' = [f \in Family |-> "absent"]
  /\ observed_proxy' = FALSE /\ late' = FALSE /\ ready' = FALSE
  /\ box' = [b \in Box |-> "created"]
  /\ ProxyGone

Next ==
  \/ Owner
  \/ DeadlinePasses \/ Kill \/ StartProxy \/ StartWorker \/ ProxyExits \/ WorkerExits
  \/ WorkerConnects \/ Recreate
  \/ \E f \in Family : Tamper(f)
  \/ \E c \in Conn : ProxyHandles(c)

(* The owner's loop, the clock, and the handler of its probe make progress. *)
Spec ==
  /\ Init /\ [][Next]_vars
  /\ WF_vars(Owner) /\ WF_vars(DeadlinePasses) /\ WF_vars(ProxyHandles(Probe))

-----------------------------------------------------------------------------
TypeOK ==
  /\ pc \in {"install", "compare_iptables", "compare_ip6tables", "probe", "await", "dead"}
  /\ policy \in [Family -> {"absent", "installed", "changed"}]
  /\ observed_proxy \in BOOLEAN /\ late \in BOOLEAN /\ ready \in BOOLEAN
  /\ box \in [Box -> {"created", "running", "exited"}]
  /\ why \in {"none", "command", "policy", "proxy", "killed"}
  /\ P!TypeOK

(* Neither the proxy nor the worker runs in a namespace whose owner is gone *)
(* or where one family has no filter, through every kill and recreation.    *)
WorkloadsConfined ==
  \A b \in Box : box[b] = "running" =>
    /\ pc # "dead" /\ ready
    /\ \A f \in Family : policy[f] # "absent"

(* A filter that stays changed, in either family, ends the namespace        *)
(* whatever the proxy does meanwhile.                                       *)
PolicyChangeStops ==
  \A f \in Family : (policy[f] = "changed") ~> (pc = "dead" \/ policy[f] = "installed")

(* A proxy that is gone ends the namespace, even when it was lost before    *)
(* the owner ever saw it healthy while the worker already runs.             *)
ProxyLossStops == (box["proxy"] = "exited") ~> (pc = "dead")

(* "Policy change, owner exit, or proxy loss terminates the owner PID       *)
(* namespace": a proxy that runs is not a reason to end it.                 *)
OnlyLossStops == [][why' = "proxy" /\ why # "proxy" => box["proxy"] # "running"]_vars
=============================================================================
