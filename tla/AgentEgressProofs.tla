------------------------- MODULE AgentEgressProofs -------------------------
(***************************************************************************)
(* Proofs about AgentEgress, for any set of addresses, any replies of the   *)
(* resolver, with or without Codex, and any restart limit.                  *)
(***************************************************************************)
EXTENDS AgentEgress, TLAPS

(* A lookup yields addresses. *)
LEMMA ResolveType ==
  ASSUME NEW reply \in Reply
  PROVE  resolve_ipv4(reply) \subseteq Addr
BY DEF resolve_ipv4, Reply

(* Whether or not things have settled, a lookup gets a reply. *)
LEMMA RepliedType ==
  ASSUME TypeOK, NEW s \in Service, NEW reply \in Replied(s)
  PROVE  reply \in Reply
BY RepliesAssumption DEF TypeOK, Replied

(* An allowlist made of addresses is a set of rules. *)
LEMMA PolicyType ==
  ASSUME NEW p \in SUBSET Addr, NEW w \in SUBSET Addr, NEW b \in SUBSET Addr
  PROVE  Policy(p, w, b) \subseteq Rule
BY DEF Policy, add_peer_rules, add_codex_rules, Rule

(* There is a next rule to append as long as any is left. *)
LEMMA EarliestIn == ASSUME NEW rules PROVE Earliest(rules) \subseteq rules
BY DEF Earliest

(* The death of the owner keeps every variable in its type. *)
LEMMA ExitType == TypeOK /\ Exit => TypeOK'
BY DEF TypeOK, Exit, ForgetShell, kernel, world, Agent, Service, Chain

(* The filter is eight commands long. *)
LEMMA SetupLength == Len(Setup) = 8
BY DEF Setup

(* The initial state is well typed, and so is that of a recreated group. *)
LEMMA InitType == Init => TypeOK
<1> SUFFICES ASSUME Init PROVE TypeOK
  OBVIOUS
<1>1. dns \in [Service -> Reply]
  BY DEF Init, Reply
<1>2. restarts \in 0 .. RestartLimit
  BY RestartAssumption DEF Init
<1>3. installed \in 0 .. Len(Setup)
  BY SetupLength DEF Init
<1>4. answer \in [Service -> SUBSET Addr] /\ chain \in [Chain -> SUBSET Rule]
  BY DEF Init
<1>5. agents \in [Agent -> {"created", "running", "exited"}]
  BY DEF Init
<1>6. ready \in BOOLEAN /\ settled \in BOOLEAN
  BY DEF Init
<1> QED BY <1>1, <1>2, <1>3, <1>4, <1>5, <1>6 DEF Init, TypeOK, Chain

LEMMA RecreateType == TypeOK /\ Recreate => TypeOK'
<1> SUFFICES ASSUME TypeOK, Recreate PROVE TypeOK'
  OBVIOUS
<1>1. dns' \in [Service -> Reply] /\ settled' \in BOOLEAN
  BY DEF Recreate, world, TypeOK
<1>2. restarts' \in 0 .. RestartLimit
  BY RestartAssumption DEF Recreate
<1>3. installed' \in 0 .. Len(Setup)
  BY SetupLength DEF Recreate
<1>4. answer' \in [Service -> SUBSET Addr] /\ chain' \in [Chain -> SUBSET Rule]
  BY DEF Recreate, ForgetShell
<1>5. agents' \in [Agent -> {"created", "running", "exited"}]
  BY DEF Recreate
<1>6. ready' \in BOOLEAN
  BY DEF Recreate
<1> QED BY <1>1, <1>2, <1>3, <1>4, <1>5, <1>6 DEF Recreate, ForgetShell, TypeOK, Chain

(* A step of the owner keeps every variable in its type. *)
LEMMA OwnerType == TypeOK /\ Owner => TypeOK'
<1> SUFFICES ASSUME TypeOK, Owner PROVE TypeOK'
  OBVIOUS
<1> USE DEF Service
<1>1. CASE FindRoom
  <2>1. PICK reply \in Replied("room") :
          IF resolve_ipv4(reply) = {} THEN Exit
          ELSE /\ answer' = [answer EXCEPT !["room"] = resolve_ipv4(reply)]
               /\ room_ips' = resolve_ipv4(reply)
               /\ pc' = "find_keycloak"
               /\ UNCHANGED <<peer_ips, codex_ips, active_chain, todo, kernel, containers, world>>
    BY <1>1 DEF FindRoom
  <2>2. resolve_ipv4(reply) \subseteq Addr
    BY RepliedType, ResolveType
  <2>3. CASE Exit
    BY <2>3, ExitType
  <2>4. CASE ~Exit
    BY <2>1, <2>2, <2>4 DEF TypeOK, kernel, containers, world
  <2> QED BY <2>3, <2>4
<1>2. CASE FindKeycloak
  <2>1. PICK reply \in Replied("keycloak") :
          IF resolve_ipv4(reply) = {} THEN Exit
          ELSE /\ answer' = [answer EXCEPT !["keycloak"] = resolve_ipv4(reply)]
               /\ pc' = IF CodexEnabled THEN "find_codex" ELSE "create"
               /\ UNCHANGED <<peer_ips, room_ips, codex_ips, active_chain, todo,
                              kernel, containers, world>>
    BY <1>2 DEF FindKeycloak
  <2>2. resolve_ipv4(reply) \subseteq Addr
    BY RepliedType, ResolveType
  <2>3. CASE Exit
    BY <2>3, ExitType
  <2>4. CASE ~Exit
    BY <2>1, <2>2, <2>4 DEF TypeOK, kernel, containers, world
  <2> QED BY <2>3, <2>4
<1>3. CASE FindCodex
  <2>1. PICK reply \in Replied("codex") :
          IF resolve_ipv4(reply) = {} THEN Exit
          ELSE /\ answer' = [answer EXCEPT !["codex"] = resolve_ipv4(reply)]
               /\ codex_ips' = resolve_ipv4(reply)
               /\ pc' = "create"
               /\ UNCHANGED <<peer_ips, room_ips, active_chain, todo, kernel, containers, world>>
    BY <1>3 DEF FindCodex
  <2>2. resolve_ipv4(reply) \subseteq Addr
    BY RepliedType, ResolveType
  <2>3. CASE Exit
    BY <2>3, ExitType
  <2>4. CASE ~Exit
    BY <2>1, <2>2, <2>4 DEF TypeOK, kernel, containers, world
  <2> QED BY <2>3, <2>4
<1>4. CASE CreateChains
  <2>1. CASE Exit
    BY <2>1, ExitType
  <2>2. CASE ~Exit
    <3>1. Policy(answer["room"] \cup answer["keycloak"], codex_ips, room_ips) \subseteq Rule
      BY PolicyType DEF TypeOK
    <3> QED BY <1>4, <2>2, <3>1 DEF CreateChains, TypeOK, kernel, containers, world
  <2> QED BY <2>1, <2>2
<1>5. CASE FillChain
  <2>1. CASE Exit
    BY <2>1, ExitType
  <2>2. CASE ~Exit
    BY <1>5, <2>2, EarliestIn DEF FillChain, TypeOK, containers, world, Chain
  <2> QED BY <2>1, <2>2
<1>6. CASE InstallFilter
  <2>1. CASE Exit
    BY <2>1, ExitType
  <2>2. CASE ~Exit
    BY <1>6, <2>2, SetupLength DEF InstallFilter, TypeOK, shell, containers, world, Chain
  <2> QED BY <2>1, <2>2
<1>7. CASE AnnounceReady
  BY <1>7 DEF AnnounceReady, TypeOK, kernel, world, Chain
<1>8. ASSUME NEW at, NEW s \in Service, NEW then, Lookup(at, s, then),
             then \in {"next_keycloak", "next_codex", "compare"}
      PROVE  TypeOK'
  <2>1. PICK reply \in Replied(s) :
          answer' = [q \in Service |-> IF q = s THEN resolve_ipv4(reply)
                                       ELSE IF at = "sleep" THEN {} ELSE answer[q]]
    BY <1>8 DEF Lookup
  <2>2. resolve_ipv4(reply) \subseteq Addr
    BY RepliedType, ResolveType
  <2>3. answer' \in [Service -> SUBSET Addr]
    BY <2>1, <2>2 DEF TypeOK
  <2> QED BY <1>8, <2>3 DEF Lookup, TypeOK, kernel, containers, world
<1>9. CASE LookupRoom
  BY <1>8, <1>9 DEF LookupRoom
<1>10. CASE LookupKeycloak
  BY <1>8, <1>10 DEF LookupKeycloak
<1>11. CASE LookupCodex
  BY <1>8, <1>11 DEF LookupCodex
<1>12. CASE Compare
  BY <1>12 DEF Compare, TypeOK, shell, kernel, containers, world
<1>13. CASE GiveUp
  BY <1>13 DEF GiveUp, TypeOK, kernel, containers, world
<1>14. CASE FlushInactive
  <2>1. Policy(next_peer_ips, answer["codex"], answer["room"]) \subseteq Rule
    BY PolicyType DEF TypeOK, next_peer_ips
  <2> QED BY <1>13, <1>14, <2>1 DEF FlushInactive, TypeOK, containers, world, Chain
<1>15. CASE AppendRule
  BY <1>13, <1>15, EarliestIn DEF AppendRule, TypeOK, containers, world, Chain
<1>16. CASE SwitchChain
  BY <1>13, <1>16 DEF SwitchChain, TypeOK, inactive_chain, next_peer_ips, containers, world, Chain
<1>17. CASE ClearPrevious
  BY <1>17 DEF ClearPrevious, TypeOK, shell, containers, world, Chain
<1>18. CASE FailClosed
  <2>1. CASE Exit
    BY <2>1, ExitType
  <2>2. CASE ~Exit
    BY <1>18, <2>2 DEF FailClosed, TypeOK, containers, world, Chain
  <2> QED BY <2>1, <2>2
<1> QED
  BY <1>1, <1>2, <1>3, <1>4, <1>5, <1>6, <1>7, <1>9, <1>10, <1>11, <1>12, <1>14, <1>15,
     <1>16, <1>17, <1>18 DEF Owner

(* A step of the engine, the agents or the operator keeps every type. *)
LEMMA EnvironmentType == TypeOK /\ Environment => TypeOK'
<1> SUFFICES ASSUME TypeOK, Environment PROVE TypeOK'
  OBVIOUS
<1>1. CASE Kill
  BY <1>1, ExitType DEF Kill
<1>2. CASE Recreate
  BY <1>2, RecreateType
<1>3. CASE Settle
  BY <1>3, SettlementsAssumption DEF Settle, TypeOK, shell, kernel, containers
<1>4. CASE StartReference \/ StartGateway \/ \E a \in Agent : AgentFails(a)
  BY <1>4 DEF StartReference, StartGateway, AgentFails, SetAgent, TypeOK, shell, kernel, world, Agent
<1>5. CASE RestartGateway
  BY <1>5, RestartAssumption DEF RestartGateway, SetAgent, TypeOK, shell, kernel, world, Agent
<1> QED BY <1>1, <1>2, <1>3, <1>4, <1>5 DEF Environment

(* Type correctness of the owner, its filter and the agents. *)
THEOREM TypeCorrect == Spec => []TypeOK
<1>1. TypeOK /\ [Next]_vars => TypeOK'
  <2>1. TypeOK /\ UNCHANGED vars => TypeOK'
    BY DEF TypeOK, vars
  <2> QED BY <2>1, OwnerType, EnvironmentType DEF Next
<1> QED BY <1>1, InitType, PTL DEF Spec

-----------------------------------------------------------------------------
(* The inductive invariant.                                                *)

(* It holds initially: nothing is installed and nothing runs. *)
LEMMA InitIInv == Init => IInv
<1> SUFFICES ASSUME Init PROVE IInv
  OBVIOUS
<1>1. TypeOK
  BY InitType
<1>2. StartupInv /\ FillInv /\ LoopInv /\ AgentsInv /\ OnlyResolvedAddresses
  BY DEF Init, StartupInv, FillInv, LoopInv, AgentsInv, OnlyResolvedAddresses,
         Looking, Looping, Service, Chain
<1> QED BY <1>1, <1>2 DEF IInv

(* The death of the owner leaves nothing to keep. *)
LEMMA ExitIInv == IInv /\ Exit => IInv'
<1> SUFFICES ASSUME IInv, Exit PROVE IInv'
  OBVIOUS
<1>1. TypeOK'
  BY ExitType DEF IInv
<1>2. pc' = "dead" /\ ready' = FALSE
  BY DEF Exit
<1>3. AgentsInv'
  BY <1>2 DEF IInv, TypeOK, Exit, AgentsInv, Looping
<1> QED
  BY <1>1, <1>2, <1>3
  DEF IInv, StartupInv, FillInv, LoopInv, OnlyResolvedAddresses, Looking, Looping

(* A command that failed leads to fail_closed_refresh, nothing else changed. *)
LEMMA GiveUpIInv == IInv /\ GiveUp /\ pc \in {"flush", "append"} => IInv'
<1> SUFFICES ASSUME IInv, GiveUp, pc \in {"flush", "append"} PROVE IInv'
  OBVIOUS
<1> USE DEF IInv
<1>1. TypeOK'
  BY DEF GiveUp, TypeOK, kernel, containers, world
<1>2. StartupInv' /\ FillInv' /\ AgentsInv' /\ OnlyResolvedAddresses'
  BY DEF GiveUp, containers, StartupInv, FillInv, AgentsInv, OnlyResolvedAddresses, Looking, Looping
<1>3. LoopInv'
  BY DEF GiveUp, kernel, LoopInv, Looping, Policy
<1> QED BY <1>1, <1>2, <1>3

(* The lookups of the startup. *)
LEMMA FindIInv == IInv /\ (FindRoom \/ FindKeycloak \/ FindCodex) => IInv'
<1> SUFFICES ASSUME IInv, FindRoom \/ FindKeycloak \/ FindCodex PROVE IInv'
  OBVIOUS
<1>1. TypeOK'
  BY OwnerType DEF IInv, Owner
<1>2. CASE Exit
  BY <1>2, ExitIInv
<1>3. CASE ~Exit
  <2>1. StartupInv'
    BY <1>3
    DEF IInv, TypeOK, FindRoom, FindKeycloak, FindCodex, kernel, StartupInv, Looking, Service
  <2>2. pc \in Looking /\ pc' \in Looking /\ containers' = containers
    BY <1>3 DEF FindRoom, FindKeycloak, FindCodex, containers, Looking
  <2>3. FillInv' /\ LoopInv' /\ AgentsInv' /\ OnlyResolvedAddresses'
    BY <2>2 DEF IInv, FillInv, LoopInv, AgentsInv, OnlyResolvedAddresses, containers, Looking, Looping
  <2> QED BY <1>1, <2>1, <2>3 DEF IInv
<1> QED BY <1>2, <1>3

(* The rest of the startup, up to the readiness file. *)
LEMMA SetupIInv == IInv /\ (CreateChains \/ FillChain \/ InstallFilter \/ AnnounceReady) => IInv'
<1> SUFFICES ASSUME IInv, CreateChains \/ FillChain \/ InstallFilter \/ AnnounceReady PROVE IInv'
  OBVIOUS
<1>1. TypeOK'
  BY OwnerType DEF IInv, Owner
<1>2. CASE Exit
  BY <1>2, ExitIInv
<1>3. CASE CreateChains /\ ~Exit
  <2>1. StartupInv' /\ LoopInv' /\ OnlyResolvedAddresses'
    BY <1>3 DEF IInv, CreateChains, StartupInv, LoopInv, OnlyResolvedAddresses, Looking, Looping
  <2>2. FillInv'
    <3>1. /\ UNCHANGED <<answer, room_ips, codex_ips, active_chain, chain, jump, installed>>
          /\ peer_ips' = answer["room"] \cup answer["keycloak"]
          /\ todo' = Policy(answer["room"] \cup answer["keycloak"], codex_ips, room_ips)
      BY <1>3 DEF CreateChains, kernel
    <3>2. chain["A"] = {} /\ active_chain = "A" /\ jump = "none" /\ installed = 0
      BY <1>3 DEF IInv, CreateChains, StartupInv, Looking
    <3> QED BY <3>1, <3>2 DEF FillInv
  <2>3. AgentsInv'
    BY <1>3 DEF IInv, CreateChains, containers, AgentsInv, Looping
  <2> QED BY <1>1, <2>1, <2>2, <2>3 DEF IInv
<1>4. CASE FillChain /\ ~Exit
  <2>1. StartupInv' /\ LoopInv' /\ AgentsInv' /\ OnlyResolvedAddresses'
    BY <1>4 DEF IInv, FillChain, containers, StartupInv, LoopInv, AgentsInv, OnlyResolvedAddresses,
                Looking, Looping
  <2>2. FillInv'
    BY <1>4, EarliestIn DEF IInv, TypeOK, FillChain, FillInv, Chain, Policy
  <2> QED BY <1>1, <2>1, <2>2 DEF IInv
<1>5. CASE InstallFilter /\ ~Exit
  <2>1. pc = "fill" /\ UNCHANGED <<pc, shell, chain, containers>>
    BY <1>5 DEF InstallFilter
  <2>2. StartupInv' /\ LoopInv' /\ AgentsInv' /\ OnlyResolvedAddresses'
    BY <2>1 DEF IInv, shell, containers, StartupInv, LoopInv, AgentsInv,
                OnlyResolvedAddresses, Looking, Looping
  <2>3. FillInv'
    <3>1. Setup[installed + 1] = <<"ip4", "jump">> <=> installed = 1
      BY <1>5, SetupLength DEF InstallFilter, IInv, TypeOK, Setup
    <3> QED BY <1>5, <2>1, <3>1 DEF IInv, TypeOK, InstallFilter, shell, FillInv, Policy
  <2> QED BY <1>1, <2>2, <2>3 DEF IInv
<1>6. CASE AnnounceReady
  <2>1. StartupInv' /\ FillInv' /\ AgentsInv'
    BY <1>6 DEF IInv, AnnounceReady, StartupInv, FillInv, AgentsInv, Looking, Looping
  <2>2. chain["A"] = Policy(peer_ips, codex_ips, room_ips) /\ jump = "A" /\ active_chain = "A"
    BY <1>6, SetupLength DEF IInv, AnnounceReady, FillInv
  <2>3. LoopInv'
    BY <1>6, <2>2 DEF AnnounceReady, kernel, LoopInv, Policy
  <2>4. next_peer_ips = peer_ips /\ answer["codex"] = codex_ips /\ answer["room"] = room_ips
    BY <1>6 DEF IInv, AnnounceReady, StartupInv, FillInv, next_peer_ips
  <2>5. OnlyResolvedAddresses'
    BY <1>6, <2>2, <2>4 DEF AnnounceReady, kernel, OnlyResolvedAddresses, live, next_peer_ips, Policy
  <2> QED BY <1>1, <2>1, <2>3, <2>5 DEF IInv
<1> QED BY <1>2, <1>3, <1>4, <1>5, <1>6

(* The lookups of the loop and the decision to refresh. *)
LEMMA LookupIInv == IInv /\ (LookupRoom \/ LookupKeycloak \/ LookupCodex) => IInv'
<1> SUFFICES ASSUME IInv, LookupRoom \/ LookupKeycloak \/ LookupCodex PROVE IInv'
  OBVIOUS
<1>1. TypeOK'
  BY OwnerType DEF IInv, Owner
<1>2. /\ pc \in {"sleep", "next_keycloak", "next_codex"}
      /\ pc' \in {"next_keycloak", "next_codex", "compare"}
      /\ UNCHANGED <<peer_ips, room_ips, codex_ips, active_chain, todo, kernel, containers, world>>
  BY DEF LookupRoom, LookupKeycloak, LookupCodex, Lookup
<1>3. StartupInv' /\ FillInv' /\ AgentsInv' /\ OnlyResolvedAddresses'
  BY <1>2 DEF IInv, containers, StartupInv, FillInv, AgentsInv, OnlyResolvedAddresses, Looking, Looping
<1>4. LoopInv'
  BY <1>2 DEF IInv, kernel, LoopInv, Looping, Policy
<1> QED BY <1>1, <1>3, <1>4 DEF IInv

(* Skipping a refresh is right: nothing differs from the policy in force. *)
LEMMA CompareIInv == IInv /\ Compare => IInv'
<1> SUFFICES ASSUME IInv, Compare PROVE IInv'
  OBVIOUS
<1>1. TypeOK'
  BY OwnerType DEF IInv, Owner
<1>2. StartupInv' /\ FillInv' /\ AgentsInv'
  BY DEF IInv, Compare, containers, StartupInv, FillInv, AgentsInv, Looking, Looping
<1>3. LoopInv'
  BY DEF IInv, Compare, shell, kernel, LoopInv, Looping, Policy
<1>4. OnlyResolvedAddresses'
  <2>1. CASE Unchanged
    <3>1. live \in {{}, Policy(next_peer_ips, answer["codex"], answer["room"])}
      BY <2>1 DEF IInv, TypeOK, Compare, LoopInv, Looping, Unchanged, live, Chain
    <3>2. UNCHANGED <<live, next_peer_ips, answer>>
      BY DEF Compare, shell, kernel, live, next_peer_ips
    <3> QED BY <3>1, <3>2 DEF OnlyResolvedAddresses
  <2>2. CASE ~Unchanged
    BY <2>2 DEF Compare, OnlyResolvedAddresses
  <2> QED BY <2>1, <2>2
<1> QED BY <1>1, <1>2, <1>3, <1>4 DEF IInv

(* Building the next policy leaves the chain in use alone. *)
LEMMA BuildIInv == IInv /\ (FlushInactive \/ AppendRule) => IInv'
<1> SUFFICES ASSUME IInv, FlushInactive \/ AppendRule PROVE IInv'
  OBVIOUS
<1>1. TypeOK'
  BY OwnerType DEF IInv, Owner
<1>2. CASE GiveUp
  BY <1>2, GiveUpIInv DEF FlushInactive, AppendRule
<1>3. CASE ~GiveUp
  <2>1. /\ pc \in {"flush", "append"} /\ pc' = "append"
        /\ UNCHANGED <<answer, peer_ips, room_ips, codex_ips, active_chain,
                       jump, installed, containers>>
    BY <1>3 DEF FlushInactive, AppendRule
  <2>2. StartupInv' /\ FillInv' /\ AgentsInv' /\ OnlyResolvedAddresses'
    BY <2>1 DEF IInv, containers, StartupInv, FillInv, AgentsInv, OnlyResolvedAddresses,
                Looking, Looping
  <2>3. chain'[active_chain] = chain[active_chain]
    BY <1>3 DEF FlushInactive, AppendRule, IInv, TypeOK, inactive_chain, Chain
  <2>4. chain'[inactive_chain] \cup todo' = Policy(next_peer_ips, answer["codex"], answer["room"])
    BY <1>3, EarliestIn
    DEF FlushInactive, AppendRule, IInv, TypeOK, LoopInv, Looping, inactive_chain, Chain
  <2>5. LoopInv'
    BY <2>1, <2>3, <2>4 DEF IInv, LoopInv, Looping, inactive_chain, next_peer_ips
  <2> QED BY <1>1, <2>2, <2>5 DEF IInv
<1> QED BY <1>2, <1>3

(* Replacing the jump puts a complete policy in force. *)
LEMMA SwitchIInv == IInv /\ SwitchChain => IInv'
<1> SUFFICES ASSUME IInv, SwitchChain PROVE IInv'
  OBVIOUS
<1>1. TypeOK'
  BY OwnerType DEF IInv, Owner
<1>2. CASE GiveUp
  BY <1>2, GiveUpIInv DEF SwitchChain
<1>3. CASE ~GiveUp
  <2>1. StartupInv' /\ FillInv' /\ AgentsInv' /\ OnlyResolvedAddresses'
    BY <1>3 DEF SwitchChain, IInv, containers, StartupInv, FillInv, AgentsInv,
                OnlyResolvedAddresses, Looking, Looping
  <2>2. chain[inactive_chain] = Policy(next_peer_ips, answer["codex"], answer["room"])
    BY DEF SwitchChain, IInv, LoopInv, Looping
  <2>3. LoopInv'
    BY <1>3, <2>2 DEF SwitchChain, IInv, LoopInv, Looping, next_peer_ips
  <2> QED BY <1>1, <2>1, <2>3 DEF IInv
<1> QED BY <1>2, <1>3

(* Flushing the chain just left does not touch the policy in force. *)
LEMMA ClearIInv == IInv /\ ClearPrevious => IInv'
<1> SUFFICES ASSUME IInv, ClearPrevious PROVE IInv'
  OBVIOUS
<1>1. TypeOK'
  BY OwnerType DEF IInv, Owner
<1>2. chain'[active_chain] = chain[active_chain]
  BY DEF ClearPrevious, IInv, TypeOK, inactive_chain, Chain
<1>3. StartupInv' /\ FillInv' /\ AgentsInv'
  BY DEF ClearPrevious, IInv, containers, StartupInv, FillInv, AgentsInv, Looking, Looping
<1>4. LoopInv'
  BY <1>2 DEF ClearPrevious, shell, IInv, LoopInv, Looping
<1>5. OnlyResolvedAddresses'
  <2>1. live' \in {{}, Policy(next_peer_ips, answer["codex"], answer["room"])}
    BY <1>2 DEF ClearPrevious, shell, IInv, TypeOK, LoopInv, Looping, live, Chain
  <2>2. UNCHANGED <<next_peer_ips, answer>>
    BY DEF ClearPrevious, shell, next_peer_ips
  <2> QED BY <2>1, <2>2 DEF OnlyResolvedAddresses
<1> QED BY <1>1, <1>3, <1>4, <1>5 DEF IInv

(* A refresh that failed leaves no peer rule in force, or no owner. *)
LEMMA FailClosedIInv == IInv /\ FailClosed => IInv'
<1> SUFFICES ASSUME IInv, FailClosed PROVE IInv'
  OBVIOUS
<1>1. TypeOK'
  BY OwnerType DEF IInv, Owner
<1>2. CASE Exit
  BY <1>2, ExitIInv
<1>3. CASE ~Exit
  <2>1. StartupInv' /\ FillInv' /\ AgentsInv'
    BY <1>3 DEF FailClosed, IInv, containers, StartupInv, FillInv, AgentsInv, Looking, Looping
  <2>2. chain'[active_chain] = {} /\ jump' = active_chain /\ active_chain' = active_chain
    BY <1>3 DEF FailClosed, IInv, TypeOK, LoopInv, Looping
  <2>3. LoopInv' /\ OnlyResolvedAddresses'
    BY <1>1, <1>3, <2>2
    DEF FailClosed, IInv, TypeOK, LoopInv, OnlyResolvedAddresses, live, Looping, Chain
  <2> QED BY <1>1, <2>1, <2>3 DEF IInv
<1> QED BY <1>2, <1>3

(* What the engine, the agents and the operator do keeps the invariant. *)
LEMMA EnvironmentIInv == IInv /\ Environment => IInv'
<1> SUFFICES ASSUME IInv, Environment PROVE IInv'
  OBVIOUS
<1>1. TypeOK'
  BY EnvironmentType DEF IInv
<1>2. CASE Kill
  BY <1>2, ExitIInv DEF Kill
<1>3. CASE Recreate
  <2>1. StartupInv' /\ FillInv' /\ LoopInv' /\ AgentsInv' /\ OnlyResolvedAddresses'
    BY <1>3 DEF Recreate, ForgetShell, StartupInv, FillInv, LoopInv, AgentsInv,
                OnlyResolvedAddresses, Looking, Looping, Service, Chain
  <2> QED BY <1>1, <2>1 DEF IInv
<1>4. CASE Settle \/ StartReference \/ StartGateway \/ RestartGateway \/ \E a \in Agent : AgentFails(a)
  <2>1. UNCHANGED <<pc, shell, kernel, ready>>
    BY <1>4 DEF Settle, StartReference, StartGateway, RestartGateway, AgentFails, containers
  <2>2. StartupInv' /\ FillInv' /\ LoopInv' /\ OnlyResolvedAddresses'
    BY <2>1 DEF IInv, shell, kernel, StartupInv, FillInv, LoopInv, OnlyResolvedAddresses,
                live, next_peer_ips, inactive_chain, Looking, Looping
  <2>3. AgentsInv'
    BY <1>4, <2>1
    DEF IInv, TypeOK, Settle, StartReference, StartGateway, RestartGateway, AgentFails, SetAgent,
        containers, AgentsInv, Looping, Agent
  <2> QED BY <1>1, <2>2, <2>3 DEF IInv
<1> QED BY <1>2, <1>3, <1>4 DEF Environment

(* IInv is inductive. *)
THEOREM Invariance == Spec => []IInv
<1>1. IInv /\ Owner => IInv'
  BY FindIInv, SetupIInv, LookupIInv, CompareIInv, BuildIInv, SwitchIInv, ClearIInv, FailClosedIInv
  DEF Owner
<1>2. IInv /\ UNCHANGED vars => IInv'
  <2> SUFFICES ASSUME IInv, UNCHANGED vars PROVE IInv'
    OBVIOUS
  <2>1. UNCHANGED <<live, next_peer_ips, inactive_chain>>
    BY DEF vars, live, next_peer_ips, inactive_chain
  <2>2. TypeOK' /\ StartupInv' /\ FillInv'
    BY DEF vars, IInv, TypeOK, StartupInv, FillInv
  <2>3. LoopInv' /\ AgentsInv' /\ OnlyResolvedAddresses'
    BY <2>1 DEF vars, IInv, LoopInv, AgentsInv, OnlyResolvedAddresses
  <2> QED BY <2>2, <2>3 DEF IInv
<1>3. IInv /\ [Next]_vars => IInv'
  BY <1>1, <1>2, EnvironmentIInv DEF Next
<1> QED BY <1>3, InitIInv, PTL DEF Spec

-----------------------------------------------------------------------------
(* The agents never see a half-built allowlist, at any step of a refresh    *)
(* and after any failure.                                                   *)
THEOREM WholePolicies == Spec => []LivePolicyWhole
<1>1. IInv => LivePolicyWhole
  <2> SUFFICES ASSUME IInv, pc # "dead", jump # "none"
               PROVE  live \in {{}, Policy(peer_ips, codex_ips, room_ips)}
    BY DEF LivePolicyWhole
  <2>1. CASE pc \in Looping
    BY <2>1 DEF IInv, TypeOK, LoopInv, live, Chain
  <2>2. CASE pc = "fill"
    BY <2>2 DEF IInv, FillInv, live
  <2>3. pc \in Looking => FALSE
    BY DEF IInv, StartupInv
  <2> QED BY <2>1, <2>2, <2>3 DEF IInv, TypeOK, Looking, Looping
<1> QED BY <1>1, Invariance, PTL

(* Between two rounds no agent may reach an address that the last lookups   *)
(* did not return.                                                          *)
THEOREM NoStaleAddress == Spec => []OnlyResolvedAddresses
<1>1. IInv => OnlyResolvedAddresses
  BY DEF IInv
<1> QED BY <1>1, Invariance, PTL

(* From the loop on, the filter is complete in both families. *)
LEMMA LoopDenies == IInv /\ pc \in Looping => Denies
<1> SUFFICES ASSUME IInv, pc \in Looping PROVE Denies
  OBVIOUS
<1>1. installed = 8
  BY SetupLength DEF IInv, LoopInv
<1>2. /\ <<"ip4", "reject">> = Setup[4] /\ <<"ip4", "hook">> = Setup[5]
      /\ <<"ip6", "reject">> = Setup[7] /\ <<"ip6", "hook">> = Setup[8]
  BY DEF Setup
<1>3. /\ <<"ip4", "reject">> \in InstalledRules /\ <<"ip4", "hook">> \in InstalledRules
      /\ <<"ip6", "reject">> \in InstalledRules /\ <<"ip6", "hook">> \in InstalledRules
  BY <1>1, <1>2 DEF InstalledRules
<1> QED BY <1>3 DEF Denies

(* No agent runs outside a default-deny namespace with a live owner. *)
THEOREM GuardedAgents == Spec => []AgentsAreGuarded
<1>1. IInv => AgentsAreGuarded
  <2> SUFFICES ASSUME IInv, running # {} PROVE pc # "dead" /\ Denies
    BY DEF AgentsAreGuarded
  <2>1. pc \in Looping
    BY DEF IInv, AgentsInv, running
  <2> QED BY <2>1, LoopDenies DEF Looping
<1> QED BY <1>1, Invariance, PTL

-----------------------------------------------------------------------------
(* The owner implements EgressPolicy.                                      *)

(* The state the agents are subject to, as EgressPolicy sees it. *)
policy == IF pc = "dead" THEN {} ELSE live
guarded == pc # "dead" /\ Denies

LEMMA AllowlistIsPolicy == Abstract!Allowlist = Policy(next_peer_ips, answer["codex"], answer["room"])
BY DEF Abstract!Allowlist, Abstract!Peers, Policy, add_peer_rules, add_codex_rules, next_peer_ips

LEMMA AnswersAreFindings == TypeOK' => answer' \in Abstract!Findings
BY DEF TypeOK, Abstract!Findings, Abstract!Service, Service

(* The death of the owner is the fail-stop. *)
LEMMA ExitStep == TypeOK' /\ Exit => Abstract!FailStop
BY AnswersAreFindings DEF Exit, Abstract!FailStop, running

(* A step of the script that neither ends it nor writes to the chain in use *)
(* is at most an answer of the resolver.                                    *)
LEMMA InvisibleStep ==
  ASSUME TypeOK', pc # "dead", pc' # "dead", UNCHANGED <<live, installed, agents>>
  PROVE  Abstract!Next
<1>1. answer' \in Abstract!Findings
  BY AnswersAreFindings
<1>2. Abstract!Hear
  BY <1>1 DEF Abstract!Hear, Denies, InstalledRules, running
<1> QED BY <1>2 DEF Abstract!Next

(* Every step of the script publishes, revokes, completes the filter, stops *)
(* everything, or is invisible.                                             *)
LEMMA OwnerStep == IInv /\ IInv' /\ Owner => [Abstract!Next]_(Abstract!vars)
<1> SUFFICES ASSUME IInv, IInv', Owner PROVE Abstract!Next \/ UNCHANGED Abstract!vars
  OBVIOUS
<1>1. CASE Exit
  BY <1>1, ExitStep DEF Abstract!Next, IInv
<1> SUFFICES ASSUME ~Exit PROVE Abstract!Next \/ UNCHANGED Abstract!vars
  BY <1>1
<1>2. CASE FindRoom \/ FindKeycloak \/ FindCodex \/ CreateChains
  <2>1. pc # "dead" /\ pc' # "dead" /\ UNCHANGED <<kernel, agents>>
    BY <1>2 DEF FindRoom, FindKeycloak, FindCodex, CreateChains, containers
  <2> QED BY <2>1, InvisibleStep DEF kernel, live, IInv
<1>3. CASE FillChain
  <2>1. jump = "none" /\ UNCHANGED <<pc, jump, installed, agents>> /\ pc = "fill"
    BY <1>3 DEF FillChain, containers, IInv, FillInv
  <2> QED BY <2>1, InvisibleStep DEF live, IInv
<1>4. CASE InstallFilter
  <2>1. /\ pc = "fill" /\ pc' = "fill" /\ todo = {}
        /\ installed' = installed + 1 /\ installed \in Nat
        /\ UNCHANGED <<answer, chain, agents, running>>
    BY <1>4 DEF InstallFilter, shell, containers, IInv, TypeOK, running
  <2>2. Denies => Denies'
    BY <2>1 DEF Denies, InstalledRules
  <2>3. CASE UNCHANGED jump
    <3>1. UNCHANGED live
      BY <2>1, <2>3 DEF live
    <3>2. CASE guarded' = guarded
      BY <2>1, <3>1, <3>2 DEF Abstract!vars, guarded
    <3>3. CASE guarded' # guarded
      <4>1. Denies' = TRUE
        BY <2>1, <2>2, <3>3 DEF guarded, Denies
      <4>2. Abstract!Guard
        BY <2>1, <3>1, <4>1 DEF Abstract!Guard
      <4> QED BY <4>2 DEF Abstract!Next
    <3> QED BY <3>2, <3>3
  <2>4. CASE jump' # jump
    <3>1. jump' = "A" /\ installed = 1
      BY <2>1, <2>4, SetupLength DEF IInv, FillInv
    <3>2. live' = Policy(peer_ips, codex_ips, room_ips)
      BY <2>1, <3>1 DEF live, IInv, FillInv
    <3>3. ~Denies /\ ~Denies'
      <4>1. installed < 3 /\ installed' < 3
        BY <2>1, <3>1
      <4>2. Setup[1] = <<"ip4", "lo">> /\ Setup[2] = <<"ip4", "jump">>
        BY DEF Setup
      <4>3. <<"ip4", "hook">> \notin InstalledRules /\ <<"ip4", "hook">> \notin InstalledRules'
        BY <2>1, <3>1, <4>2 DEF InstalledRules
      <4> QED BY <4>3 DEF Denies
    <3>4. Abstract!Publish
      <4>1. next_peer_ips = peer_ips /\ answer["codex"] = codex_ips /\ answer["room"] = room_ips
        BY <2>1 DEF next_peer_ips, IInv, StartupInv, FillInv
      <4>2. policy' = Abstract!Allowlist
        BY <2>1, <3>2, <4>1, AllowlistIsPolicy DEF policy
      <4> QED BY <2>1, <3>3, <4>2 DEF Abstract!Publish, policy
    <3> QED BY <3>4 DEF Abstract!Next
  <2> QED BY <2>3, <2>4
<1>5. CASE AnnounceReady \/ LookupRoom \/ LookupKeycloak \/ LookupCodex \/ Compare
  <2>1. pc # "dead" /\ pc' # "dead" /\ UNCHANGED <<kernel, agents>>
    BY <1>5 DEF AnnounceReady, LookupRoom, LookupKeycloak, LookupCodex, Lookup, Compare, containers
  <2> QED BY <2>1, InvisibleStep DEF kernel, live, IInv
<1>6. CASE (FlushInactive \/ AppendRule \/ SwitchChain) /\ GiveUp
  <2>1. pc # "dead" /\ pc' # "dead" /\ UNCHANGED <<kernel, agents>>
    BY <1>6 DEF FlushInactive, AppendRule, SwitchChain, GiveUp, containers
  <2> QED BY <2>1, InvisibleStep DEF kernel, live, IInv
<1>7. CASE ((FlushInactive \/ AppendRule) /\ ~GiveUp) \/ ClearPrevious
  <2>1. pc \in Looping /\ pc' # "dead" /\ UNCHANGED <<jump, active_chain, installed, agents>>
    BY <1>7 DEF FlushInactive, AppendRule, ClearPrevious, shell, containers, Looping
  <2>2. chain'[active_chain] = chain[active_chain] /\ jump = active_chain
    BY <1>7, <2>1
    DEF FlushInactive, AppendRule, ClearPrevious, IInv, TypeOK, LoopInv, inactive_chain, Chain
  <2>3. UNCHANGED live
    BY <2>1, <2>2 DEF live
  <2> QED BY <2>1, <2>3, InvisibleStep DEF Looping, IInv
<1>8. CASE SwitchChain /\ ~GiveUp
  <2>1. /\ pc = "append" /\ pc' = "clear" /\ todo = {} /\ jump' = inactive_chain
        /\ UNCHANGED <<chain, installed, agents>>
    BY <1>8 DEF SwitchChain, containers
  <2>2. live' = Policy(next_peer_ips, answer["codex"], answer["room"])
    BY <2>1 DEF live, inactive_chain, IInv, LoopInv, Looping
  <2>3. policy' = Abstract!Allowlist
    BY <2>1, <2>2, AllowlistIsPolicy DEF policy
  <2>4. UNCHANGED answer
    BY <1>8 DEF SwitchChain
  <2>5. UNCHANGED <<guarded, running>>
    BY <2>1 DEF guarded, running, Denies, InstalledRules
  <2>6. Abstract!Publish
    BY <2>3, <2>4, <2>5 DEF Abstract!Publish, policy, guarded
  <2> QED BY <2>6 DEF Abstract!Next
<1>9. CASE FailClosed
  <2>1. /\ pc = "revoke" /\ pc' = "sleep" /\ chain' = [chain EXCEPT ![active_chain] = {}]
        /\ UNCHANGED <<answer, jump, installed, agents>>
    BY <1>9 DEF FailClosed, containers
  <2>2. live' = {}
    BY <2>1 DEF live, IInv, TypeOK, LoopInv, Looping
  <2>3. UNCHANGED <<guarded, running>>
    BY <2>1 DEF guarded, running, Denies, InstalledRules
  <2>4. Abstract!Revoke
    BY <2>1, <2>2, <2>3 DEF Abstract!Revoke, guarded
  <2> QED BY <2>4 DEF Abstract!Next
<1> QED
  BY <1>2, <1>3, <1>4, <1>5, <1>6, <1>7, <1>8, <1>9 DEF Owner

(* Agents start behind the filter only, stop one by one, and a group is     *)
(* recreated with nothing in force and nobody running.                      *)
LEMMA EnvironmentStep == IInv /\ IInv' /\ Environment => [Abstract!Next]_(Abstract!vars)
<1> SUFFICES ASSUME IInv, IInv', Environment PROVE Abstract!Next \/ UNCHANGED Abstract!vars
  OBVIOUS
<1>1. CASE Kill
  BY <1>1, ExitStep DEF Kill, Abstract!Next, IInv
<1>2. CASE Recreate
  <2>1. pc = "dead" /\ pc' = "find_room" /\ installed' = 0 /\ jump' = "none"
    BY <1>2 DEF Recreate
  <2>2. running = {} /\ running' = {}
    BY <1>2, <2>1 DEF Recreate, IInv, AgentsInv, Looping, running
  <2>3. live' = {} /\ InstalledRules' = {}
    BY <2>1 DEF live, InstalledRules
  <2>4. answer' \in Abstract!Findings
    BY AnswersAreFindings DEF IInv
  <2>5. Abstract!Hear
    BY <2>1, <2>2, <2>3, <2>4 DEF Abstract!Hear, Denies
  <2> QED BY <2>5 DEF Abstract!Next
<1>3. CASE Settle
  BY <1>3 DEF Settle, shell, kernel, containers, Abstract!vars, live, Denies, InstalledRules, running
<1>4. ASSUME NEW a \in Agent, a \notin running, running' = running \cup {a},
             UNCHANGED <<pc, shell, kernel>>, pc \in Looping
      PROVE  Abstract!Start
  <2>1. pc # "dead" /\ Denies
    BY <1>4, LoopDenies DEF Looping
  <2>2. UNCHANGED <<policy, guarded>>
    BY <1>4 DEF kernel, policy, guarded, live, Denies, InstalledRules
  <2> QED BY <1>4, <2>1, <2>2 DEF Abstract!Start, Abstract!Agent, Agent, policy, guarded, shell
<1>5. CASE StartReference
  <2>1. running' = running \cup {"reference"} /\ "reference" \notin running
    BY <1>5 DEF StartReference, SetAgent, running, IInv, TypeOK, Agent
  <2>2. Abstract!Start
    BY <1>4, <1>5, <2>1 DEF StartReference, Agent, IInv, AgentsInv
  <2> QED BY <2>2 DEF Abstract!Next
<1>6. CASE StartGateway
  <2>1. running' = running \cup {"gateway"} /\ "gateway" \notin running
    BY <1>6 DEF StartGateway, SetAgent, running, IInv, TypeOK, Agent
  <2>2. Abstract!Start
    BY <1>4, <1>6, <2>1 DEF StartGateway, Agent, IInv, AgentsInv
  <2> QED BY <2>2 DEF Abstract!Next
<1>7. CASE RestartGateway
  <2>1. running' = running \cup {"gateway"} /\ "gateway" \notin running
    BY <1>7 DEF RestartGateway, SetAgent, running, IInv, TypeOK, Agent
  <2>2. Abstract!Start
    BY <1>4, <1>7, <2>1 DEF RestartGateway, Agent, IInv, AgentsInv
  <2> QED BY <2>2 DEF Abstract!Next
<1>8. ASSUME NEW a \in Agent, AgentFails(a) PROVE Abstract!AgentStops
  <2>1. a \in running /\ running' = running \ {a}
    BY <1>8 DEF AgentFails, SetAgent, running, IInv, TypeOK
  <2>2. UNCHANGED <<policy, guarded>>
    BY <1>8 DEF AgentFails, kernel, policy, guarded, live, Denies, InstalledRules
  <2>3. UNCHANGED answer
    BY <1>8 DEF AgentFails, shell
  <2> QED BY <2>1, <2>2, <2>3 DEF Abstract!AgentStops, policy, guarded
<1> QED BY <1>1, <1>2, <1>3, <1>5, <1>6, <1>7, <1>8 DEF Environment, Abstract!Next

(* Whatever happens to the resolver, the kernel, the agents and the owner,  *)
(* the agents see an allowlist that is only ever replaced as a whole or     *)
(* revoked, start only behind the filter, and stop with the owner.          *)
THEOREM Refinement == Spec => ImplementsPolicy
<1>1. Init => Abstract!Init
  BY DEF Init, Abstract!Init, Abstract!Service, Service, live, running, Denies, InstalledRules
<1>2. IInv /\ IInv' /\ [Next]_vars => [Abstract!Next]_(Abstract!vars)
  <2>1. UNCHANGED vars => UNCHANGED Abstract!vars
    BY DEF vars, Abstract!vars, live, Denies, InstalledRules, running
  <2> QED BY <2>1, OwnerStep, EnvironmentStep DEF Next
<1> QED BY <1>1, <1>2, Invariance, PTL DEF Spec, ImplementsPolicy, Abstract!Spec
=============================================================================
