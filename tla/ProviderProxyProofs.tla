------------------------ MODULE ProviderProxyProofs ------------------------
(***************************************************************************)
(* No slot of the provider proxy is leaked or returned twice, for any       *)
(* number of connections and slots, whatever the peers send.  The two       *)
(* invariants need each other: that `slots` stays within its type is what   *)
(* BoundedSemaphore would otherwise raise about, and follows from the count *)
(* of handlers; a handler that ends gives back a slot only it held.         *)
(***************************************************************************)
EXTENDS ProviderProxy, FiniteSetTheorems, TLAPS

(* Holders of a slot come and go one at a time. *)
LEMMA HeldFinite == IsFiniteSet(Held)
<1>1. Held \subseteq Conn BY DEF Held
<1> QED BY <1>1, ConnAssumption, FS_Subset

LEMMA HeldCount == Cardinality(Held) \in Nat
BY HeldFinite, FS_CardinalityType

(* What ends a handler: one slot more, one holder less. *)
LEMMA Closing ==
  ASSUME TypeOK, SlotsAccounted, NEW c \in Conn, phase[c] # "idle",
         NEW status \in Status, Close(c, status)
  PROVE  TypeOK' /\ SlotsAccounted'
<1> USE SizesAssumption
<1>1. Held' = Held \ {c}
  BY DEF Held, Close, TypeOK
<1>2. c \in Held
  BY DEF Held
<1>3. Cardinality(Held') = Cardinality(Held) - 1
  BY <1>1, <1>2, HeldFinite, FS_RemoveElement
<1>4. Cardinality(Held) \in Nat /\ Cardinality(Held') \in Nat
  <2>1. IsFiniteSet(Held') BY <1>1, HeldFinite, FS_RemoveElement
  <2> QED BY <2>1, HeldCount, FS_CardinalityType
<1>5. SlotsAccounted'
  BY <1>3, <1>4 DEF SlotsAccounted, Close, TypeOK
<1>6. slots' \in 0 .. Slots
  BY <1>4, <1>5 DEF SlotsAccounted, Close, TypeOK
<1>7. TypeOK'
  BY <1>6 DEF TypeOK, Close, Status
<1> QED BY <1>5, <1>7

(* A step that moves no handler between "idle" and work, nor the semaphore. *)
LEMMA Working ==
  ASSUME SlotsAccounted, UNCHANGED slots, Held' = Held
  PROVE  SlotsAccounted'
BY DEF SlotsAccounted

LEMMA Initially == Init => TypeOK /\ SlotsAccounted
<1> SUFFICES ASSUME Init PROVE TypeOK /\ SlotsAccounted
  OBVIOUS
<1>1. Held = {}
  BY DEF Init, Held
<1>2. SlotsAccounted
  BY <1>1, FS_EmptySet, SizesAssumption DEF SlotsAccounted, Init
<1>3. TypeOK
  BY SizesAssumption DEF Init, TypeOK, Status
<1> QED BY <1>2, <1>3

LEMMA Accepting ==
  ASSUME TypeOK, SlotsAccounted, NEW c \in Conn, Accept(c)
  PROVE  TypeOK' /\ SlotsAccounted'
<1> USE SizesAssumption
<1>1. CASE slots > 0 /\ slots' = slots - 1 /\ phase' = [phase EXCEPT ![c] = "reading"]
           /\ reply' = [reply EXCEPT ![c] = "none"] /\ UNCHANGED <<got, remaining, age>>
  <2>1. Held' = Held \cup {c} /\ c \notin Held
    BY <1>1 DEF Held, Accept, TypeOK
  <2>2. Cardinality(Held') = Cardinality(Held) + 1
    BY <2>1, HeldFinite, FS_AddElement
  <2>3. SlotsAccounted'
    BY <1>1, <2>2, HeldCount DEF SlotsAccounted, TypeOK
  <2>4. TypeOK'
    BY <1>1 DEF TypeOK, Status
  <2> QED BY <2>3, <2>4
<1>2. CASE slots = 0 /\ reply' = [reply EXCEPT ![c] = "503"]
           /\ UNCHANGED <<phase, slots, got, remaining, age>>
  <2>1. Held' = Held
    BY <1>2 DEF Held
  <2>2. TypeOK'
    BY <1>2 DEF TypeOK, Status
  <2> QED BY <1>2, <2>1, <2>2, Working
<1> QED BY <1>1, <1>2 DEF Accept

(* A request that is routed ends the handler or sends it to the provider. *)
LEMMA Routing ==
  ASSUME TypeOK, SlotsAccounted, NEW c \in Conn, phase[c] = "reading",
         NEW request \in Request, Route(c, request)
  PROVE  TypeOK' /\ SlotsAccounted'
<1>1. CASE request = "connect"
  <2>1. phase' = [phase EXCEPT ![c] = "connecting"] /\ UNCHANGED <<slots, got, remaining, age, reply>>
    BY <1>1 DEF Route
  <2>2. Held' = Held
    BY <2>1 DEF Held, TypeOK
  <2>3. TypeOK'
    BY <2>1 DEF TypeOK
  <2> QED BY <2>1, <2>2, <2>3, Working
<1>2. CASE request # "connect"
  <2>1. \E status \in Status : Close(c, status)
    BY <1>2 DEF Route, Status
  <2> QED BY <2>1, Closing
<1> QED BY <1>1, <1>2

LEMMA Reading ==
  ASSUME TypeOK, SlotsAccounted, NEW c \in Conn, Read(c)
  PROVE  TypeOK' /\ SlotsAccounted'
<1> USE SizesAssumption
<1>1. phase[c] = "reading"
  BY DEF Read
<1>2. CASE \E status \in Status : Close(c, status)
  BY <1>1, <1>2, Closing
<1>3. CASE \E request \in Asks[c] : Route(c, request)
  <2>1. Asks[c] \subseteq Request
    BY AsksAssumption
  <2> QED BY <1>1, <1>3, <2>1, Routing
<1>4. CASE got[c] < HeaderLimit /\ got' = [got EXCEPT ![c] = @ + 1]
           /\ UNCHANGED <<phase, slots, remaining, age, reply>>
  <2>1. Held' = Held
    BY <1>4 DEF Held
  <2>2. TypeOK'
    BY <1>4 DEF TypeOK
  <2> QED BY <1>4, <2>1, <2>2, Working
<1> QED BY <1>2, <1>3, <1>4 DEF Read, Status

LEMMA Handling ==
  ASSUME TypeOK, SlotsAccounted, NEW c \in Conn, Handle(c)
  PROVE  TypeOK' /\ SlotsAccounted'
<1> USE SizesAssumption
<1>1. CASE Read(c)
  BY <1>1, Reading
<1>2. CASE phase[c] # "idle" /\ \E status \in Status : Close(c, status)
  BY <1>2, Closing
<1>3. CASE Connect(c) /\ phase' = [phase EXCEPT ![c] = "tunnel"]
           /\ remaining' = [remaining EXCEPT ![c] = Budget] /\ age' = [age EXCEPT ![c] = 0]
           /\ reply' = [reply EXCEPT ![c] = "200"] /\ UNCHANGED <<slots, got>>
  <2>1. Held' = Held
    BY <1>3 DEF Held, Connect, TypeOK
  <2>2. TypeOK'
    BY <1>3 DEF TypeOK, Status
  <2> QED BY <1>3, <2>1, <2>2, Working
<1>4. CASE /\ \E first \in Received(remaining[c]) : \E second \in {0} \cup Received(remaining[c] - first) :
                remaining' = [remaining EXCEPT ![c] = @ - first - second]
           /\ UNCHANGED <<phase, slots, got, age, reply>>
  <2>1. Held' = Held
    BY <1>4 DEF Held
  <2>2. remaining[c] \in 0 .. Budget
    BY DEF TypeOK
  <2>3. PICK first \in Received(remaining[c]) : \E second \in {0} \cup Received(remaining[c] - first) :
          remaining' = [remaining EXCEPT ![c] = @ - first - second]
    BY <1>4
  <2>4. first \in 1 .. remaining[c]
    BY <2>2 DEF Received
  <2>5. PICK second \in {0} \cup Received(remaining[c] - first) :
          remaining' = [remaining EXCEPT ![c] = @ - first - second]
    BY <2>3
  <2>6. second \in 0 .. remaining[c] - first
    BY <2>2, <2>4, <2>5 DEF Received
  <2>7. remaining[c] - first - second \in 0 .. Budget
    BY <2>2, <2>4, <2>6
  <2>8. TypeOK'
    BY <1>4, <2>5, <2>7 DEF TypeOK
  <2> QED BY <1>4, <2>1, <2>8, Working
<1>5. CASE Tick(c)
  <2>1. Held' = Held
    BY <1>5 DEF Held, Tick
  <2>2. TypeOK'
    BY <1>5 DEF TypeOK, Tick
  <2> QED BY <1>5, <2>1, <2>2, Working DEF Tick
<1>6. reply[c] \in Status
  BY DEF TypeOK
<1> QED BY <1>1, <1>2, <1>3, <1>4, <1>5, <1>6 DEF Handle, Connect, Relay, Expire, Status

LEMMA Step == TypeOK /\ SlotsAccounted /\ [Next]_pvars => TypeOK' /\ SlotsAccounted'
<1> SUFFICES ASSUME TypeOK, SlotsAccounted, [Next]_pvars
             PROVE  TypeOK' /\ SlotsAccounted'
  OBVIOUS
<1>1. CASE UNCHANGED pvars
  <2>1. Held' = Held
    BY <1>1 DEF pvars, Held
  <2>2. TypeOK'
    BY <1>1 DEF pvars, TypeOK
  <2> QED BY <1>1, <2>1, <2>2, Working DEF pvars
<1>2. ASSUME NEW c \in Conn, Accept(c) PROVE TypeOK' /\ SlotsAccounted'
  BY <1>2, Accepting
<1>3. ASSUME NEW c \in Conn, Handle(c) PROVE TypeOK' /\ SlotsAccounted'
  BY <1>3, Handling
<1> QED BY <1>1, <1>2, <1>3 DEF Next

(* Every counter of the proxy keeps within its bound: in particular the     *)
(* byte budget of a tunnel, decremented for both its sides, is never        *)
(* negative, and the semaphore never exceeds its initial value.             *)
THEOREM ProxyTypeCorrect == Spec => []TypeOK
<1>1. Spec => [](TypeOK /\ SlotsAccounted)
  BY Initially, Step, PTL DEF Spec
<1> QED BY <1>1, PTL

(* The semaphore always counts the handlers at work: no way out of the      *)
(* handler (seven of them) leaks a slot or returns one it did not take.     *)
THEOREM NoSlotLeaks == Spec => []SlotsAccounted
<1>1. Spec => [](TypeOK /\ SlotsAccounted)
  BY Initially, Step, PTL DEF Spec
<1> QED BY <1>1, PTL
=============================================================================
