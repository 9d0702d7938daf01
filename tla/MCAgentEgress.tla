--------------------------- MODULE MCAgentEgress ---------------------------
(* Instances of AgentEgress for TLC.                                        *)
EXTENDS AgentEgress

CONSTANTS a1, a2

Good(addrs) == [ok |-> TRUE, addrs |-> addrs]
Broken(addrs) == [ok |-> FALSE, addrs |-> addrs]

(* A name resolves or fails after an address; or, besides, to another one,  *)
(* to both, to none.                                                        *)
UpOrDown == {Good({a1}), Broken({a2})}
AllReplies == UpOrDown \cup {Good({a2}), Good({a1, a2}), Good({})}

(* Plain and shared addresses, a Keycloak that fails, a lost worker.        *)
LocalSettlements ==
  {[room |-> Good({a1}), keycloak |-> k, codex |-> Broken({})] :
     k \in {Good({a1}), Good({a2}), Broken({a1})}}

CodexSettlements ==
  {[room |-> Good({a1}), keycloak |-> k, codex |-> c] :
     k \in {Good({a1}), Broken({a2})}, c \in {Good({a1}), Good({a2}), Broken({a2})}}
=============================================================================
