------------------------- MODULE CodexEgressProofs -------------------------
(***************************************************************************)
(* Proxy and worker run only behind the filters of both address families    *)
(* and only while their owner does, for any number of tunnels and slots.    *)
(* What makes it inductive is the readiness file: it exists only between    *)
(* the last command of `install` and the end of the owner.                  *)
(***************************************************************************)
EXTENDS CodexEgress, FiniteSetTheorems, TLAPS

ConfinedInv ==
  /\ policy \in [Family -> {"absent", "installed", "changed"}]
  /\ box \in [Box -> {"created", "running", "exited"}]
  /\ ready => /\ pc \notin {"install", "dead"}
              /\ \A f \in Family : policy[f] # "absent"
  /\ \A b \in Box : box[b] = "running" => ready

LEMMA Initially == Init => ConfinedInv
BY DEF Init, ConfinedInv

(* As PID 1 the owner takes the others with it. *)
LEMMA Exiting ==
  ASSUME ConfinedInv, NEW reason, Exit(reason)
  PROVE  ConfinedInv'
BY DEF Exit, ConfinedInv

LEMMA Judging ==
  ASSUME ConfinedInv, NEW healthy, NEW connection, Judge(healthy, connection),
         pc \in {"probe", "await"}
  PROVE  ConfinedInv'
<1>1. CASE Exit("proxy")
  BY <1>1, Exiting
<1>2. CASE pc' = "compare_iptables" /\ UNCHANGED <<policy, ready, box>>
  BY <1>2 DEF ConfinedInv
<1> QED BY <1>1, <1>2 DEF Judge

LEMMA OwnerSteps ==
  ASSUME ConfinedInv, Owner
  PROVE  ConfinedInv'
<1>1. ASSUME NEW f \in Family, Install(f) PROVE ConfinedInv'
  <2>1. CASE Exit("command")
    BY <2>1, Exiting
  <2>2. CASE pc = "install" /\ policy' = [policy EXCEPT ![f] = "installed"] /\ UNCHANGED <<pc, ready, box>>
    BY <2>2 DEF ConfinedInv
  <2> QED BY <1>1, <2>1, <2>2 DEF Install, owner
<1>2. CASE AnnounceReady
  BY <1>2 DEF AnnounceReady, ConfinedInv
<1>3. ASSUME NEW f \in Family, NEW step \in {"compare_iptables", "compare_ip6tables"}, Compare(f, step)
      PROVE  ConfinedInv'
  <2>1. CASE \E reason \in {"policy", "command"} : Exit(reason)
    BY <2>1, Exiting
  <2>2. CASE \E next \in {"compare_ip6tables", "probe"} : GoTo(next)
    BY <2>2 DEF GoTo, ConfinedInv
  <2> QED BY <1>3, <2>1, <2>2 DEF Compare
<1>4. CASE ProbeProxy
  <2>1. CASE Judge(FALSE, UNCHANGED proxy)
    BY <1>4, <2>1, Judging DEF ProbeProxy
  <2>2. CASE pc' = "await" /\ UNCHANGED <<policy, ready, box>>
    BY <2>2 DEF ConfinedInv
  <2> QED BY <1>4, <2>1, <2>2 DEF ProbeProxy
<1>5. CASE ProbeAnswered
  BY <1>5, Judging DEF ProbeAnswered
<1>6. CASE ProbeTimesOut
  BY <1>6, Judging DEF ProbeTimesOut
<1> QED BY <1>1, <1>2, <1>3, <1>4, <1>5, <1>6 DEF Owner, Family

LEMMA OtherSteps ==
  ASSUME ConfinedInv,
         \/ DeadlinePasses \/ Kill \/ StartProxy \/ StartWorker \/ ProxyExits \/ WorkerExits
         \/ WorkerConnects \/ Recreate
         \/ \E f \in Family : Tamper(f)
         \/ \E c \in Conn : ProxyHandles(c)
  PROVE  ConfinedInv'
<1> USE DEF ConfinedInv, owner, Box
<1>1. CASE Kill
  BY <1>1, Exiting DEF Kill
<1>2. CASE DeadlinePasses \/ WorkerConnects \/ \E c \in Conn : ProxyHandles(c)
  BY <1>2 DEF DeadlinePasses, WorkerConnects, ProxyHandles
<1>3. CASE StartProxy
  BY <1>3 DEF StartProxy
<1>4. CASE StartWorker
  BY <1>4 DEF StartWorker
<1>5. CASE ProxyExits \/ WorkerExits
  BY <1>5 DEF ProxyExits, WorkerExits
<1>6. CASE Recreate
  BY <1>6 DEF Recreate
<1>7. ASSUME NEW f \in Family, Tamper(f) PROVE ConfinedInv'
  BY <1>7 DEF Tamper
<1> QED BY <1>1, <1>2, <1>3, <1>4, <1>5, <1>6, <1>7

LEMMA Inductive == ConfinedInv /\ [Next]_vars => ConfinedInv'
<1> SUFFICES ASSUME ConfinedInv, [Next]_vars PROVE ConfinedInv'
  OBVIOUS
<1>1. CASE UNCHANGED vars
  BY <1>1 DEF vars, ConfinedInv
<1>2. CASE Next
  BY <1>2, OwnerSteps, OtherSteps DEF Next
<1> QED BY <1>1, <1>2

(* Through every kill, loss of the proxy, change of a filter from outside   *)
(* and recreation, neither container runs unconfined or without its owner.  *)
THEOREM Confinement == Spec => []WorkloadsConfined
<1>1. ConfinedInv => WorkloadsConfined
  BY DEF ConfinedInv, WorkloadsConfined
<1> QED BY <1>1, Initially, Inductive, PTL DEF Spec

-----------------------------------------------------------------------------
(* The proxy inside the namespace: a proxy that dies takes its semaphore    *)
(* with it, and the owner's probe is one more holder of a slot.  The steps  *)
(* of the proxy itself are those of ProviderProxyProofs.                    *)

PP == INSTANCE ProviderProxyProofs

ProxyInv == P!TypeOK /\ P!SlotsAccounted

LEMMA ConnFinite == IsFiniteSet(Conn)
BY TunnelAssumption, FS_AddElement DEF Conn

LEMMA Sizes ==
  /\ Slots \in Nat \ {0} /\ HeaderLimit \in Nat \ {0}
  /\ Budget \in Nat \ {0} /\ Block \in Nat \ {0} /\ TunnelTime \in Nat \ {0}
BY SizesAssumption

(* The two instances of ProviderProxy are the same. *)
LEMMA Same ==
  /\ \A S : PP!IsFiniteSet(S) = IsFiniteSet(S)
  /\ \A S : PP!Cardinality(S) = Cardinality(S)
  /\ \A S : P!Cardinality(S) = Cardinality(S)
BY DEF P!Cardinality, PP!Cardinality, PP!IsFiniteSet, IsFiniteSet, Cardinality

LEMMA Assumptions ==
  /\ {Slots, HeaderLimit, Budget, Block, TunnelTime} \subseteq Nat \ {0}
  /\ PP!IsFiniteSet(Conn)
  /\ Asks \in [Conn -> SUBSET PP!Request] /\ Prompt \subseteq Conn
BY SizesAssumption, ConnFinite, Same DEF Asks, PP!Request, Prompt, Conn

LEMMA SameInv == (ProxyInv <=> PP!TypeOK /\ PP!SlotsAccounted) /\ (ProxyInv' <=> PP!TypeOK' /\ PP!SlotsAccounted')
BY Same DEF ProxyInv, P!TypeOK, PP!TypeOK, P!Status, PP!Status, P!SlotsAccounted, PP!SlotsAccounted, P!Held, PP!Held

LEMMA Accepting ==
  ASSUME ProxyInv, NEW c \in Conn, P!Accept(c)
  PROVE  ProxyInv'
<1>1. PP!Accept(c)
  BY DEF P!Accept, PP!Accept
<1>2. PP!TypeOK /\ PP!SlotsAccounted
  BY SameInv
<1>3. PP!TypeOK' /\ PP!SlotsAccounted'
  BY <1>1, <1>2, Assumptions, PP!Accepting
<1> QED BY <1>3, SameInv

LEMMA Handling ==
  ASSUME ProxyInv, NEW c \in Conn, P!Handle(c)
  PROVE  ProxyInv'
<1>1. PP!Handle(c)
  BY DEF P!Handle, PP!Handle, P!Read, PP!Read, P!Connect, PP!Connect, P!Relay, PP!Relay, P!Expire, PP!Expire,
         P!Tick, PP!Tick, P!Close, PP!Close, P!Route, PP!Route, P!InTime, PP!InTime,
         P!Received, PP!Received
<1>2. PP!TypeOK /\ PP!SlotsAccounted
  BY SameInv
<1>3. PP!TypeOK' /\ PP!SlotsAccounted'
  BY <1>1, <1>2, Assumptions, PP!Handling
<1> QED BY <1>3, SameInv

(* The probe's connection ends because the owner stops waiting. *)
LEMMA Abandoning ==
  ASSUME ProxyInv, phase[Probe] # "idle", P!Close(Probe, "none")
  PROVE  ProxyInv'
<1>1. Probe \in Conn /\ "none" \in PP!Status
  BY DEF Conn, PP!Status
<1>2. PP!Close(Probe, "none")
  BY DEF P!Close, PP!Close
<1>3. PP!TypeOK /\ PP!SlotsAccounted
  BY SameInv
<1>4. PP!TypeOK' /\ PP!SlotsAccounted'
  BY <1>1, <1>2, <1>3, Assumptions, PP!Closing
<1> QED BY <1>4, SameInv

(* No handler is at work: before the first one, and after a proxy's end. *)
LEMMA Vacant ==
  /\ P!Init => ProxyInv
  /\ ProxyGone => ProxyInv'
<1> USE Sizes, Same, FS_EmptySet
<1>1. ASSUME P!Init PROVE ProxyInv
  <2>1. P!Held = {}
    BY <1>1 DEF P!Init, P!Held
  <2>2. P!SlotsAccounted
    BY <1>1, <2>1 DEF P!Init, P!SlotsAccounted
  <2>3. P!TypeOK
    BY <1>1 DEF P!Init, P!TypeOK, P!Status
  <2> QED BY <2>2, <2>3 DEF ProxyInv
<1>2. ASSUME ProxyGone PROVE ProxyInv'
  <2>1. P!Held' = {}
    BY <1>2 DEF ProxyGone, P!Held
  <2>2. P!SlotsAccounted'
    BY <1>2, <2>1 DEF ProxyGone, P!SlotsAccounted
  <2>3. P!TypeOK'
    BY <1>2 DEF ProxyGone, P!TypeOK, P!Status
  <2> QED BY <2>2, <2>3 DEF ProxyInv
<1> QED BY <1>1, <1>2

LEMMA Untouched == ProxyInv /\ UNCHANGED proxy => ProxyInv'
<1> SUFFICES ASSUME ProxyInv, UNCHANGED proxy PROVE ProxyInv'
  OBVIOUS
<1>1. P!Held' = P!Held
  BY DEF proxy, P!Held
<1> QED BY <1>1 DEF proxy, ProxyInv, P!TypeOK, P!SlotsAccounted

(* Every step of the composition does one of five things to the proxy. *)
LEMMA ProxySteps ==
  ASSUME [Next]_vars
  PROVE  \/ UNCHANGED proxy
         \/ ProxyGone
         \/ \E c \in Conn : P!Accept(c)
         \/ \E c \in Conn : P!Handle(c)
         \/ phase[Probe] # "idle" /\ P!Close(Probe, "none")
<1> USE DEF GoTo, Exit
<1>1. CASE UNCHANGED vars
  BY <1>1 DEF vars, proxy
<1>2. CASE Owner
  <2>1. CASE \/ \E f \in Family : Install(f)
             \/ AnnounceReady
             \/ \E f \in Family, step \in {"compare_iptables", "compare_ip6tables"} : Compare(f, step)
    BY <2>1 DEF Install, AnnounceReady, Compare
  <2>2. CASE ProbeProxy
    BY <2>2 DEF ProbeProxy, Judge, Conn
  <2>3. CASE ProbeAnswered
    BY <2>3 DEF ProbeAnswered, Judge
  <2>4. CASE ProbeTimesOut
    BY <2>4 DEF ProbeTimesOut, Judge
  <2> QED BY <1>2, <2>1, <2>2, <2>3, <2>4 DEF Owner, Family
<1>3. CASE DeadlinePasses \/ Kill \/ StartProxy \/ StartWorker \/ ProxyExits \/ WorkerExits \/ Recreate
  BY <1>3 DEF DeadlinePasses, Kill, StartProxy, StartWorker, ProxyExits, WorkerExits, Recreate
<1>4. CASE WorkerConnects
  BY <1>4 DEF WorkerConnects, Conn
<1>5. CASE \E f \in Family : Tamper(f)
  BY <1>5 DEF Tamper
<1>6. CASE \E c \in Conn : ProxyHandles(c)
  BY <1>6 DEF ProxyHandles
<1> QED BY <1>1, <1>2, <1>3, <1>4, <1>5, <1>6 DEF Next

LEMMA ProxyInvariance == Spec => []ProxyInv
<1>1. Init => ProxyInv
  BY Vacant DEF Init
<1>2. ProxyInv /\ [Next]_vars => ProxyInv'
  BY ProxySteps, Untouched, Vacant, Accepting, Handling, Abandoning
<1> QED BY <1>1, <1>2, PTL DEF Spec

(* Composed with the owner that probes it, kills it with the namespace and  *)
(* recreates it, the proxy still accounts for every slot.                   *)
THEOREM SlotsSurviveTheProxy == Spec => []P!SlotsAccounted
<1>1. ProxyInv => P!SlotsAccounted
  BY DEF ProxyInv
<1> QED BY <1>1, ProxyInvariance, PTL

-----------------------------------------------------------------------------
(* Types.  Those of the proxy come from ProxyInv.                           *)

Reasons == {"none", "command", "policy", "proxy", "killed"}

OwnerTyped ==
  /\ pc \in {"install", "compare_iptables", "compare_ip6tables", "probe", "await", "dead"}
  /\ observed_proxy \in BOOLEAN /\ late \in BOOLEAN /\ ready \in BOOLEAN
  /\ why \in Reasons

LEMMA ExitTyped ==
  ASSUME OwnerTyped, NEW reason \in Reasons, Exit(reason)
  PROVE  OwnerTyped'
BY DEF OwnerTyped, Exit

LEMMA JudgeTyped ==
  ASSUME OwnerTyped, NEW healthy \in BOOLEAN, NEW connection, Judge(healthy, connection)
  PROVE  OwnerTyped'
<1>1. CASE Exit("proxy")
  BY <1>1, ExitTyped DEF Reasons
<1>2. CASE pc' = "compare_iptables" /\ observed_proxy' = (observed_proxy \/ healthy) /\ UNCHANGED <<late, ready, why>>
  BY <1>2 DEF OwnerTyped
<1> QED BY <1>1, <1>2 DEF Judge

LEMMA OwnerTypes ==
  ASSUME OwnerTyped, [Next]_vars
  PROVE  OwnerTyped'
<1>1. CASE UNCHANGED vars
  BY <1>1 DEF vars, OwnerTyped
<1>2. CASE \E reason \in {"command", "policy", "killed"} : Exit(reason)
  BY <1>2, ExitTyped DEF Reasons
<1>3. CASE \E step \in {"compare_ip6tables", "probe"} : GoTo(step)
  BY <1>3 DEF GoTo, OwnerTyped
<1>4. CASE Owner
  <2>1. CASE \E f \in Family : Install(f)
    BY <1>2, <2>1 DEF Install, OwnerTyped, owner
  <2>2. CASE AnnounceReady
    BY <2>2 DEF AnnounceReady, OwnerTyped
  <2>3. CASE \E f \in Family, step \in {"compare_iptables", "compare_ip6tables"} : Compare(f, step)
    BY <1>2, <1>3, <2>3 DEF Compare
  <2>4. CASE ProbeProxy
    <3>1. CASE Judge(FALSE, UNCHANGED proxy)
      BY <3>1, JudgeTyped
    <3>2. CASE pc' = "await" /\ UNCHANGED <<observed_proxy, late, ready, why>>
      BY <3>2 DEF OwnerTyped
    <3> QED BY <2>4, <3>1, <3>2 DEF ProbeProxy
  <2>5. CASE ProbeAnswered
    BY <2>5, JudgeTyped DEF ProbeAnswered
  <2>6. CASE ProbeTimesOut
    BY <2>6, JudgeTyped DEF ProbeTimesOut
  <2> QED BY <1>4, <2>1, <2>2, <2>3, <2>4, <2>5, <2>6 DEF Owner, Family
<1>5. CASE \/ StartProxy \/ StartWorker \/ ProxyExits \/ WorkerExits \/ WorkerConnects
           \/ (\E f \in Family : Tamper(f)) \/ \E c \in Conn : ProxyHandles(c)
  BY <1>5 DEF StartProxy, StartWorker, ProxyExits, WorkerExits, WorkerConnects, Tamper, ProxyHandles, owner, OwnerTyped
<1>6. CASE DeadlinePasses \/ Recreate
  BY <1>6 DEF DeadlinePasses, Recreate, owner, OwnerTyped, Reasons
<1> QED BY <1>1, <1>2, <1>4, <1>5, <1>6 DEF Next, Kill

(* Owner, filters, containers and proxy keep their types through every      *)
(* kill and recreation; that the semaphore stays between 0 and its size is  *)
(* what the accounting of slots is needed for.                              *)
THEOREM EgressTyped == Spec => []TypeOK
<1>1. Init => OwnerTyped
  BY DEF Init, OwnerTyped, Reasons
<1>2. OwnerTyped /\ ConfinedInv /\ ProxyInv => TypeOK
  BY DEF OwnerTyped, Reasons, ConfinedInv, ProxyInv, TypeOK
<1> QED BY <1>1, <1>2, OwnerTypes, Initially, Inductive, ProxyInvariance, PTL DEF Spec
=============================================================================
