---------------------------- MODULE EgressPolicy ----------------------------
(***************************************************************************)
(* What the egress owner of scripts/agent-egress.sh promises the agents of  *)
(* its namespaces, and nothing about how.  The allowlist is replaced as a   *)
(* whole, by the one that the latest answers of the resolver call for, or   *)
(* revoked as a whole; agents start only behind a default-deny filter; and  *)
(* when the owner stops, every agent stops in the same step.                *)
(***************************************************************************)
CONSTANTS
  Addr,          \* addresses a service may have
  CodexEnabled   \* whether the Codex worker and broker are peers too

VARIABLES
  found,     \* the addresses of each service, as last looked up
  policy,    \* the accept rules in force for the agents
  guarded,   \* default-deny in force, its owner alive
  running    \* the agents that run

vars == <<found, policy, guarded, running>>

Agent == {"reference", "gateway"}
Service == {"room", "keycloak", "codex"}
Findings == [Service -> SUBSET Addr]

(* Room and Keycloak are peers together or not at all. *)
Peers == IF found["room"] # {} /\ found["keycloak"] # {}
         THEN found["room"] \cup found["keycloak"] ELSE {}

Allowlist ==
  [kind : {"peer"}, addr : Peers] \cup
  (IF CodexEnabled
   THEN [kind : {"worker"}, addr : found["codex"]] \cup [kind : {"reply"}, addr : found["room"]]
   ELSE {})

Init ==
  /\ found = [s \in Service |-> {}]
  /\ policy = {} /\ guarded = FALSE /\ running = {}

Hear == found' \in Findings /\ UNCHANGED <<policy, guarded, running>>

Publish == policy' = Allowlist /\ UNCHANGED <<found, guarded, running>>

Revoke == policy' = {} /\ UNCHANGED <<found, guarded, running>>

Guard == guarded' = TRUE /\ UNCHANGED <<found, policy, running>>

Start ==
  /\ guarded
  /\ \E a \in Agent : running' = running \cup {a}
  /\ UNCHANGED <<found, policy, guarded>>

AgentStops ==
  /\ \E a \in running : running' = running \ {a}
  /\ UNCHANGED <<found, policy, guarded>>

(* The owner stops: nothing is left to guard, nobody is left running. *)
FailStop ==
  /\ found' \in Findings
  /\ policy' = {} /\ guarded' = FALSE /\ running' = {}

Next == Hear \/ Publish \/ Revoke \/ Guard \/ Start \/ AgentStops \/ FailStop

Spec == Init /\ [][Next]_vars
=============================================================================
