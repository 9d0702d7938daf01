---------------------------- MODULE AgentEgress ----------------------------
(***************************************************************************)
(* scripts/agent-egress.sh run as `agent-egress.sh --hold`: the owner of    *)
(* the network and PID namespaces that both A2A agents join.  The owner     *)
(* looks up its peers, installs a default-deny filter in both address       *)
(* families, announces readiness, and then refreshes the peer allowlist for *)
(* ever: it builds each new allowlist in the chain that is not in use and   *)
(* switches to it by replacing one rule.                                    *)
(*                                                                         *)
(* One action is one command of the script that touches the kernel or asks  *)
(* the resolver, with the assignments that follow it.  Any such command may *)
(* fail (the script's error paths), the owner may be killed between any two *)
(* of them, and the agents run concurrently with all of it.                 *)
(***************************************************************************)
EXTENDS Naturals, Sequences

CONSTANTS
  Addr,           \* IPv4 addresses
  Replies,        \* what one `getent ahostsv4` may yield
  Settlements,    \* the replies, per service, the resolver may settle to
  CodexEnabled,   \* THOUGHT_KHORAL_CODEX_ENABLED = true
  RestartLimit    \* compose.yaml, `restart: on-failure:3` of the gateway

Service == {"room", "keycloak", "codex"}
Chain == {"A", "B"}
Agent == {"reference", "gateway"}

(* getent prints addresses and has an exit status; it may print some of    *)
(* them and then fail.                                                     *)
Reply == [ok : BOOLEAN, addrs : SUBSET Addr]

ASSUME RepliesAssumption == Replies \subseteq Reply
ASSUME SettlementsAssumption == Settlements \subseteq [Service -> Reply]
ASSUME CodexAssumption == CodexEnabled \in BOOLEAN
ASSUME RestartAssumption == RestartLimit \in Nat

(* The accept rules of a peer chain, told apart by what they admit: the     *)
(* gateway process may open connections to a peer on 8080 and to the Codex  *)
(* worker on 9091, and may answer the room gateway on 9092.                 *)
Rule == [kind : {"peer", "worker", "reply"}, addr : Addr]

VARIABLES
  pc,            \* the command the owner runs next
  answer,        \* room_ips, keycloak_ips / next_*_ips: the last lookup of each service
  peer_ips, room_ips, codex_ips,   \* the addresses of the policy in force, as the script believes
  active_chain,  \* the chain the script believes to be in use
  todo,          \* rules of the policy being built that are still to be appended
  chain,         \* kernel: the rules of each peer chain
  jump,          \* kernel: target of rule 2 of THOUGHT_AGENT_EGRESS
  installed,     \* kernel: how many commands of Setup have been executed
  ready,         \* /tmp/egress-ready exists
  agents,        \* container state of the two agents
  restarts,      \* automatic restarts of the gateway so far
  settled,       \* from now on lookups repeat and commands succeed
  dns            \* the replies the resolver gives once settled

shell == <<answer, peer_ips, room_ips, codex_ips, active_chain, todo>>
kernel == <<chain, jump, installed>>
containers == <<ready, agents, restarts>>
(* Settling exists only to state what the owner achieves when left alone.   *)
world == <<settled, dns>>
vars == <<pc, answer, peer_ips, room_ips, codex_ips, active_chain, todo,
          chain, jump, installed, ready, agents, restarts, settled, dns>>

-----------------------------------------------------------------------------
(* The default-deny filter: what precedes the readiness file, in order.    *)
(* The dns rules are several commands in the script; whether they are all  *)
(* there makes no difference to any property here.                         *)
Setup == << <<"ip4", "lo">>, <<"ip4", "jump">>, <<"ip4", "dns">>, <<"ip4", "reject">>,
            <<"ip4", "hook">>, <<"ip6", "lo">>, <<"ip6", "reject">>, <<"ip6", "hook">> >>

InstalledRules == {Setup[i] : i \in 1 .. installed}

(* Nothing but a listed exception leaves the namespace, in both families.  *)
Denies == \A family \in {"ip4", "ip6"} :
             {<<family, "reject">>, <<family, "hook">>} \subseteq InstalledRules

add_peer_rules(addresses) == [kind : {"peer"}, addr : addresses]

add_codex_rules(worker_addresses, broker_addresses) ==
  IF CodexEnabled
  THEN [kind : {"worker"}, addr : worker_addresses] \cup [kind : {"reply"}, addr : broker_addresses]
  ELSE {}

Policy(peers, worker, broker) == add_peer_rules(peers) \cup add_codex_rules(worker, broker)

(* Mutant: the exit status of getent is lost, as in a pipeline. *)
resolve_ipv4_ignores_status(reply) == reply.addrs

(* resolve_ipv4: a failed lookup discards what was printed before it.      *)
resolve_ipv4(reply) == IF reply.ok THEN reply.addrs ELSE {}

(* Both names must resolve, or no peer address is kept.                    *)
next_peer_ips == IF answer["room"] # {} /\ answer["keycloak"] # {}
                 THEN answer["room"] \cup answer["keycloak"]
                 ELSE {}

inactive_chain == IF active_chain = "A" THEN "B" ELSE "A"

(* The script appends the peer rules first, then the worker's, then the    *)
(* broker's; within one kind the order is that of the addresses.           *)
Earliest(rules) ==
  LET rank == [peer |-> 1, worker |-> 2, reply |-> 3]
  IN  {r \in rules : \A q \in rules : rank[r.kind] <= rank[q.kind]}

Replied(service) == IF settled THEN {dns[service]} ELSE Replies

-----------------------------------------------------------------------------
Init ==
  /\ pc = "find_room"
  /\ answer = [s \in Service |-> {}]
  /\ peer_ips = {} /\ room_ips = {} /\ codex_ips = {}
  /\ active_chain = "A"
  /\ todo = {}
  /\ chain = [c \in Chain |-> {}]
  /\ jump = "none"
  /\ installed = 0
  /\ ready = FALSE
  /\ agents = [a \in Agent |-> "created"]
  /\ restarts = 0
  /\ settled = FALSE
  /\ dns = [s \in Service |-> [ok |-> FALSE, addrs |-> {}]]

ForgetShell ==
  /\ answer' = [s \in Service |-> {}]
  /\ peer_ips' = {} /\ room_ips' = {} /\ codex_ips' = {}
  /\ active_chain' = "A"
  /\ todo' = {}

(* Mutant: the agents have PID namespaces of their own. *)
Exit_leaves_agents ==
  /\ pc' = "dead"
  /\ ForgetShell
  /\ ready' = FALSE
  /\ UNCHANGED <<kernel, agents, restarts, world>>

(* PID 1 of the namespace is gone: the kernel kills every process in it    *)
(* and the tmpfs that held the readiness file goes with the container.     *)
(* The filter stays, as the engine may keep the network namespace; the      *)
(* variables of the shell are gone.                                         *)
Exit ==
  /\ pc' = "dead"
  /\ ForgetShell
  /\ ready' = FALSE
  /\ agents' = [a \in Agent |-> IF agents[a] = "running" THEN "exited" ELSE agents[a]]
  /\ UNCHANGED <<kernel, restarts, world>>

(* A command of the script that may fail does so only before things settle. *)
Fails == ~settled

-----------------------------------------------------------------------------
(* Startup, under `set -e`: any failure ends the script.                   *)

(* The lookups before the filter is installed. *)
FindRoom ==
  /\ pc = "find_room"
  /\ \E reply \in Replied("room") :
       IF resolve_ipv4(reply) = {}
       THEN Exit
       ELSE /\ answer' = [answer EXCEPT !["room"] = resolve_ipv4(reply)]
            /\ room_ips' = resolve_ipv4(reply)
            /\ pc' = "find_keycloak"
            /\ UNCHANGED <<peer_ips, codex_ips, active_chain, todo, kernel, containers, world>>

FindKeycloak ==
  /\ pc = "find_keycloak"
  /\ \E reply \in Replied("keycloak") :
       IF resolve_ipv4(reply) = {}
       THEN Exit
       ELSE /\ answer' = [answer EXCEPT !["keycloak"] = resolve_ipv4(reply)]
            /\ pc' = IF CodexEnabled THEN "find_codex" ELSE "create"
            /\ UNCHANGED <<peer_ips, room_ips, codex_ips, active_chain, todo,
                           kernel, containers, world>>

FindCodex ==
  /\ pc = "find_codex"
  /\ \E reply \in Replied("codex") :
       IF resolve_ipv4(reply) = {}
       THEN Exit
       ELSE /\ answer' = [answer EXCEPT !["codex"] = resolve_ipv4(reply)]
            /\ codex_ips' = resolve_ipv4(reply)
            /\ pc' = "create"
            /\ UNCHANGED <<peer_ips, room_ips, active_chain, todo, kernel, containers, world>>

(* iptables -N, three times; then the rules for chain A are determined. *)
CreateChains ==
  /\ pc = "create"
  /\ \/ Fails /\ Exit
     \/ /\ peer_ips' = answer["room"] \cup answer["keycloak"]
        /\ todo' = Policy(answer["room"] \cup answer["keycloak"], codex_ips, room_ips)
        /\ pc' = "fill"
        /\ UNCHANGED <<answer, room_ips, codex_ips, active_chain, kernel, containers, world>>

FillChain ==
  /\ pc = "fill" /\ todo # {}
  /\ \/ Fails /\ Exit
     \/ \E r \in Earliest(todo) :
          /\ chain' = [chain EXCEPT !["A"] = @ \cup {r}]
          /\ todo' = todo \ {r}
          /\ UNCHANGED <<pc, answer, peer_ips, room_ips, codex_ips, active_chain,
                         jump, installed, containers, world>>

InstallFilter ==
  /\ pc = "fill" /\ todo = {}
  /\ installed < Len(Setup)
  /\ \/ Fails /\ Exit
     \/ /\ installed' = installed + 1
        /\ jump' = IF Setup[installed + 1] = <<"ip4", "jump">> THEN "A" ELSE jump
        /\ UNCHANGED <<pc, shell, chain, containers, world>>

(* touch /tmp/egress-ready, then the loop is entered with chain A active. *)
AnnounceReady ==
  /\ pc = "fill" /\ todo = {}
  /\ installed = Len(Setup)
  /\ ready' = TRUE
  /\ active_chain' = "A"
  /\ pc' = "sleep"
  /\ UNCHANGED <<answer, peer_ips, room_ips, codex_ips, todo, kernel, agents, restarts, world>>

-----------------------------------------------------------------------------
(* The refresh loop.                                                       *)

(* A lookup in the loop: failing or empty, it yields no address.  The first *)
(* one forgets the last round's answers, none of which is read again.       *)
Lookup(at, service, then) ==
  /\ pc = at
  /\ \E reply \in Replied(service) :
       answer' = [s \in Service |-> IF s = service THEN resolve_ipv4(reply)
                                   ELSE IF at = "sleep" THEN {} ELSE answer[s]]
  /\ pc' = then
  /\ UNCHANGED <<peer_ips, room_ips, codex_ips, active_chain, todo, kernel, containers, world>>

LookupRoom == Lookup("sleep", "room", "next_keycloak")
LookupKeycloak == Lookup("next_keycloak", "keycloak", IF CodexEnabled THEN "next_codex" ELSE "compare")
LookupCodex == Lookup("next_codex", "codex", "compare")

(* Mutant: a change that only concerns the broker is not noticed. *)
Unchanged_ignores_room ==
  /\ next_peer_ips = peer_ips
  /\ answer["codex"] = codex_ips

Unchanged ==
  /\ next_peer_ips = peer_ips
  /\ answer["codex"] = codex_ips
  /\ answer["room"] = room_ips

Compare ==
  /\ pc = "compare"
  /\ pc' = IF Unchanged THEN "sleep" ELSE "flush"
  /\ UNCHANGED <<shell, kernel, containers, world>>

(* A command that failed: the script enters fail_closed_refresh. *)
GiveUp ==
  /\ Fails
  /\ pc' = "revoke"
  /\ todo' = {}
  /\ UNCHANGED <<answer, peer_ips, room_ips, codex_ips, active_chain, kernel, containers, world>>

FlushInactive ==
  /\ pc = "flush"
  /\ \/ GiveUp
     \/ /\ chain' = [chain EXCEPT ![inactive_chain] = {}]
        /\ todo' = Policy(next_peer_ips, answer["codex"], answer["room"])
        /\ pc' = "append"
        /\ UNCHANGED <<answer, peer_ips, room_ips, codex_ips, active_chain,
                       jump, installed, containers, world>>

(* Mutant: the rules are appended to the chain in use. *)
AppendRule_appends_live ==
  /\ pc = "append"
  /\ todo # {}
  /\ \/ GiveUp
     \/ \E r \in Earliest(todo) :
          /\ chain' = [chain EXCEPT ![active_chain] = @ \cup {r}]
          /\ todo' = todo \ {r}
          /\ UNCHANGED <<pc, answer, peer_ips, room_ips, codex_ips, active_chain,
                         jump, installed, containers, world>>

AppendRule ==
  /\ pc = "append"
  /\ todo # {}
  /\ \/ GiveUp
     \/ \E r \in Earliest(todo) :
          /\ chain' = [chain EXCEPT ![inactive_chain] = @ \cup {r}]
          /\ todo' = todo \ {r}
          /\ UNCHANGED <<pc, answer, peer_ips, room_ips, codex_ips, active_chain,
                         jump, installed, containers, world>>

(* Mutant: the script forgets to swap its chain names after the switch. *)
SwitchChain_keeps_names ==
  /\ pc = "append"
  /\ todo = {}
  /\ \/ GiveUp
     \/ /\ jump' = inactive_chain
        /\ peer_ips' = next_peer_ips
        /\ room_ips' = answer["room"]
        /\ codex_ips' = answer["codex"]
        /\ pc' = "clear"
        /\ UNCHANGED <<answer, active_chain, todo, chain, installed, containers, world>>

(* iptables -R THOUGHT_AGENT_EGRESS 2: the whole policy changes at once. *)
SwitchChain ==
  /\ pc = "append"
  /\ todo = {}
  /\ \/ GiveUp
     \/ /\ jump' = inactive_chain
        /\ active_chain' = inactive_chain
        /\ peer_ips' = next_peer_ips
        /\ room_ips' = answer["room"]
        /\ codex_ips' = answer["codex"]
        /\ pc' = "clear"
        /\ UNCHANGED <<answer, todo, chain, installed, containers, world>>

(* The chain just left is flushed; a failure is ignored. *)
ClearPrevious ==
  /\ pc = "clear"
  /\ \/ Fails /\ UNCHANGED chain
     \/ chain' = [chain EXCEPT ![inactive_chain] = {}]
  /\ pc' = "sleep"
  /\ UNCHANGED <<shell, jump, installed, containers, world>>

(* Mutant: the addresses of the revoked policy are remembered as in force. *)
FailClosed_keeps_addresses ==
  /\ pc = "revoke"
  /\ \/ Fails /\ Exit
     \/ /\ chain' = [chain EXCEPT ![active_chain] = {}]
        /\ pc' = "sleep"
        /\ UNCHANGED <<shell, jump, installed, containers, world>>

(* fail_closed_refresh: revoke the policy in force, or die. room_ips stays. *)
FailClosed ==
  /\ pc = "revoke"
  /\ \/ Fails /\ Exit
     \/ /\ chain' = [chain EXCEPT ![active_chain] = {}]
        /\ peer_ips' = {}
        /\ codex_ips' = {}
        /\ pc' = "sleep"
        /\ UNCHANGED <<answer, room_ips, active_chain, todo, jump, installed, containers, world>>

Owner ==
  \/ FindRoom \/ FindKeycloak \/ FindCodex
  \/ CreateChains \/ FillChain \/ InstallFilter \/ AnnounceReady
  \/ LookupRoom \/ LookupKeycloak \/ LookupCodex \/ Compare
  \/ FlushInactive \/ AppendRule \/ SwitchChain \/ ClearPrevious \/ FailClosed

-----------------------------------------------------------------------------
(* The container engine, the agents and the operator.                      *)

(* SIGKILL, an operator's stop, the OOM killer: at any moment. *)
Kill == pc # "dead" /\ Exit

SetAgent(a, state) == agents' = [agents EXCEPT ![a] = state]

(* depends_on: egress healthy, that is, the readiness file exists. *)
StartReference ==
  /\ ready /\ pc # "dead"
  /\ agents["reference"] = "created"
  /\ SetAgent("reference", "running")
  /\ UNCHANGED <<pc, shell, kernel, ready, restarts, world>>

(* depends_on: reference agent healthy. *)
StartGateway ==
  /\ agents["reference"] = "running"
  /\ agents["gateway"] = "created"
  /\ SetAgent("gateway", "running")
  /\ UNCHANGED <<pc, shell, kernel, ready, restarts, world>>

AgentFails(a) ==
  /\ agents[a] = "running"
  /\ SetAgent(a, "exited")
  /\ UNCHANGED <<pc, shell, kernel, ready, restarts, world>>

(* Mutant: `restart: always`. *)
RestartGateway_always ==
  /\ agents["gateway"] = "exited"
  /\ pc # "dead"
  /\ SetAgent("gateway", "running")
  /\ restarts' = restarts + 1
  /\ UNCHANGED <<pc, shell, kernel, ready, world>>

(* restart: on-failure:3.  The engine looks neither at readiness nor at     *)
(* the other agent; it only needs the namespaces of a running owner.        *)
RestartGateway ==
  /\ agents["gateway"] = "exited"
  /\ restarts < RestartLimit
  /\ pc # "dead"
  /\ SetAgent("gateway", "running")
  /\ restarts' = restarts + 1
  /\ UNCHANGED <<pc, shell, kernel, ready, world>>

(* podman-compose up --force-recreate of the owner and both agents: new     *)
(* containers, new namespaces, an empty filter.                             *)
Recreate ==
  /\ pc = "dead"
  /\ pc' = "find_room"
  /\ ForgetShell
  /\ chain' = [c \in Chain |-> {}]
  /\ jump' = "none"
  /\ installed' = 0
  /\ ready' = FALSE
  /\ agents' = [a \in Agent |-> "created"]
  /\ restarts' = 0
  /\ UNCHANGED world

Settle ==
  /\ ~settled
  /\ settled' = TRUE
  /\ dns' \in Settlements
  /\ UNCHANGED <<pc, shell, kernel, containers>>

Environment ==
  \/ Kill \/ Recreate \/ Settle
  \/ StartReference \/ StartGateway \/ RestartGateway
  \/ \E a \in Agent : AgentFails(a)

Next == Owner \/ Environment

(* The shell keeps executing its commands; nothing else is promised.       *)
Spec == Init /\ [][Next]_vars /\ WF_vars(Owner)

-----------------------------------------------------------------------------
TypeOK ==
  /\ pc \in {"find_room", "find_keycloak", "find_codex", "create", "fill", "sleep",
             "next_keycloak", "next_codex", "compare", "flush", "append", "clear",
             "revoke", "dead"}
  /\ answer \in [Service -> SUBSET Addr]
  /\ peer_ips \subseteq Addr /\ room_ips \subseteq Addr /\ codex_ips \subseteq Addr
  /\ active_chain \in Chain
  /\ todo \subseteq Rule
  /\ chain \in [Chain -> SUBSET Rule]
  /\ jump \in Chain \cup {"none"}
  /\ installed \in 0 .. Len(Setup)
  /\ ready \in BOOLEAN
  /\ agents \in [Agent -> {"created", "running", "exited"}]
  /\ restarts \in 0 .. RestartLimit
  /\ settled \in BOOLEAN
  /\ dns \in [Service -> Reply]

(* The peer rules the kernel applies to the agents' packets.               *)
live == IF jump = "none" THEN {} ELSE chain[jump]

running == {a \in Agent : agents[a] = "running"}

(* Whatever step the owner is at, and however many commands have failed,    *)
(* the agents see either no peer rule or exactly the allowlist the script   *)
(* believes to be in force: never one that is half built, half flushed, or  *)
(* mixes two lookups ("Replacing it switches the full peer allowlist in one *)
(* kernel operation; the inactive chain is built first").                   *)
LivePolicyWhole ==
  pc # "dead" /\ jump # "none" => live \in {{}, Policy(peer_ips, codex_ips, room_ips)}

(* Each time the loop goes to sleep, every address the agents may talk to   *)
(* is one the latest lookups returned, for the service it was admitted for, *)
(* and no peer at all is admitted when room or Keycloak did not resolve     *)
(* ("Never retain an address after its service name stops resolving").      *)
OnlyResolvedAddresses ==
  pc = "sleep" => live \subseteq Policy(next_peer_ips, answer["codex"], answer["room"])

(* An agent runs only while the owner does and while both address families  *)
(* end in an unconditional reject that OUTPUT jumps to, through every order  *)
(* of startup, crash, automatic restart of the gateway and recreation.      *)
AgentsAreGuarded == running # {} => pc # "dead" /\ Denies

(* The inductive strengthening of the three invariants above, by the place  *)
(* the owner is at.                                                         *)
Looking == {"find_room", "find_keycloak", "find_codex", "create"}
Looping == {"sleep", "next_keycloak", "next_codex", "compare", "flush", "append",
            "clear", "revoke"}

(* Nothing is installed before the lookups end, and both peers were found.  *)
StartupInv ==
  /\ pc \in Looking => /\ jump = "none" /\ installed = 0
                       /\ chain["A"] = {} /\ active_chain = "A"
  /\ pc \in {"find_keycloak", "find_codex", "create", "fill"} => answer["room"] # {}
  /\ pc \in {"find_keycloak", "find_codex", "create", "fill"} => room_ips = answer["room"]
  /\ pc \in {"find_codex", "create", "fill"} => answer["keycloak"] # {}
  /\ pc \in {"find_room", "find_keycloak", "find_codex"} => codex_ips = {} /\ answer["codex"] = {}
  /\ pc \in {"create", "fill"} => codex_ips = answer["codex"]

(* Chain A holds what is not still to be appended; the jump to it comes     *)
(* only when nothing is.                                                    *)
FillInv ==
  pc = "fill" =>
    /\ peer_ips = answer["room"] \cup answer["keycloak"]
    /\ active_chain = "A"
    /\ chain["A"] \cup todo = Policy(peer_ips, codex_ips, room_ips)
    /\ todo # {} => installed = 0
    /\ jump = IF installed < 2 THEN "none" ELSE "A"

(* In the loop the filter is complete, the script and the kernel agree on   *)
(* the chain in use, and the other one is being built.                      *)
LoopInv ==
  pc \in Looping =>
    /\ installed = Len(Setup)
    /\ jump = active_chain
    /\ chain[active_chain] \in {{}, Policy(peer_ips, codex_ips, room_ips)}
    /\ pc = "append" =>
         chain[inactive_chain] \cup todo = Policy(next_peer_ips, answer["codex"], answer["room"])
    /\ pc = "clear" =>
         /\ peer_ips = next_peer_ips
         /\ codex_ips = answer["codex"]
         /\ room_ips = answer["room"]

(* Agents leave the state "created" only in the loop and run only there.    *)
AgentsInv ==
  /\ ready => pc \in Looping
  /\ \A a \in Agent : agents[a] = "running" => pc \in Looping
  /\ \A a \in Agent : agents[a] = "exited" => pc \in Looping \cup {"dead"}

IInv ==
  /\ TypeOK
  /\ StartupInv /\ FillInv /\ LoopInv /\ AgentsInv
  /\ OnlyResolvedAddresses

(* What the settled resolver says the allowlist should be. *)
Desired ==
  LET found(s) == IF dns[s].ok THEN dns[s].addrs ELSE {}
      peers == IF found("room") # {} /\ found("keycloak") # {}
               THEN found("room") \cup found("keycloak") ELSE {}
  IN  Policy(peers, IF CodexEnabled THEN found("codex") ELSE {}, found("room"))

(* Left in peace, an owner that stays up ends with a policy that admits no  *)
(* address beyond what the resolver vouches for: stale allowances and       *)
(* partial answers do not survive.                                          *)
StaleRevoked ==
  <>[](settled /\ pc # "dead") => <>[](settled /\ live \subseteq Desired)

(* ... and the peers' connectivity comes back after any number of failed    *)
(* refreshes, "handled by the existing in-process retry loop".  Only the    *)
(* reply rule alone is not promised: see the hazard about room_ips.         *)
PolicyRestored ==
  <>[](settled /\ pc # "dead" /\ \E r \in Desired : r.kind # "reply") => <>[](settled /\ live = Desired)

(* The owner implements the atomic allowlist of EgressPolicy.              *)
Abstract == INSTANCE EgressPolicy WITH
  found <- answer,
  policy <- IF pc = "dead" THEN {} ELSE live,
  guarded <- pc # "dead" /\ Denies,
  running <- running

ImplementsPolicy == Abstract!Spec
=============================================================================
