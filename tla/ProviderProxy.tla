--------------------------- MODULE ProviderProxy ---------------------------
(***************************************************************************)
(* proxy/codex-provider.py: a thread per connection, at most Slots of them  *)
(* past the semaphore.  A handler reads a bounded header, answers a health  *)
(* probe, refuses what is not the one CONNECT it knows, and otherwise       *)
(* relays bytes both ways within a byte and a time budget.                  *)
(***************************************************************************)
EXTENDS Naturals, FiniteSets

CONSTANTS
  Conn,         \* connections to 127.0.0.1:3128; one is reused after it closed
  Slots,        \* BoundedSemaphore(16)
  HeaderLimit,  \* reads that fit into 8192 bytes
  Budget,       \* pieces that make 64 MiB
  Block,        \* pieces that make 65536 bytes
  TunnelTime,   \* ticks that make 200 seconds
  Asks,         \* Asks[c]: what the peer of connection c may send
  Prompt        \* connections whose peer sends its request at once and waits

Request == {"health", "connect", "other"}
Status == {"none", "200", "403", "431", "502", "503"}

ASSUME SizesAssumption == {Slots, HeaderLimit, Budget, Block, TunnelTime} \subseteq Nat \ {0}
ASSUME ConnAssumption == IsFiniteSet(Conn)
ASSUME AsksAssumption == Asks \in [Conn -> SUBSET Request] /\ Prompt \subseteq Conn

VARIABLES
  phase,      \* where the handler of a connection is; "idle" when there is none
  slots,      \* value of the semaphore
  got,        \* reads done for the header
  remaining,  \* pieces the tunnel may still relay
  age,        \* ticks since the tunnel was established
  reply       \* status of the last response sent on the connection

pvars == <<phase, slots, got, remaining, age, reply>>

Init ==
  /\ phase = [c \in Conn |-> "idle"]
  /\ slots = Slots
  /\ got = [c \in Conn |-> 0]
  /\ remaining = [c \in Conn |-> 0]
  /\ age = [c \in Conn |-> 0]
  /\ reply = [c \in Conn |-> "none"]

(* The `finally` of the handler: whatever ended it, the slot comes back and *)
(* the connection is closed.  "none" is an end without a response: end of   *)
(* stream, a reset, or the five seconds of the socket timeout.              *)
Close(c, status) ==
  /\ phase' = [phase EXCEPT ![c] = "idle"]
  /\ slots' = slots + 1
  /\ got' = [got EXCEPT ![c] = 0]
  /\ remaining' = [remaining EXCEPT ![c] = 0]
  /\ age' = [age EXCEPT ![c] = 0]
  /\ reply' = [reply EXCEPT ![c] = status]

(* Mutant: the refusal is inside the `try`, so it releases a slot as well. *)
Accept_releases_on_busy(c) ==
  /\ phase[c] = "idle"
  /\ \/ /\ slots > 0
        /\ slots' = slots - 1
        /\ phase' = [phase EXCEPT ![c] = "reading"]
        /\ reply' = [reply EXCEPT ![c] = "none"]
     \/ /\ slots = 0
        /\ slots' = slots + 1
        /\ reply' = [reply EXCEPT ![c] = "503"]
        /\ UNCHANGED phase
  /\ UNCHANGED <<got, remaining, age>>

(* slots.acquire(blocking=False), before the `try`. *)
Accept(c) ==
  /\ phase[c] = "idle"
  /\ \/ /\ slots > 0
        /\ slots' = slots - 1
        /\ phase' = [phase EXCEPT ![c] = "reading"]
        /\ reply' = [reply EXCEPT ![c] = "none"]
     \/ /\ slots = 0
        /\ reply' = [reply EXCEPT ![c] = "503"]
        /\ UNCHANGED <<phase, slots>>
  /\ UNCHANGED <<got, remaining, age>>

(* The header is complete: route the request. *)
Route(c, request) ==
  \/ request = "health" /\ Close(c, "200")
  \/ request = "other" /\ Close(c, "403")
  \/ /\ request = "connect"
     /\ phase' = [phase EXCEPT ![c] = "connecting"]
     /\ UNCHANGED <<slots, got, remaining, age, reply>>

(* One recv of the header loop: nothing more, one block too many, a block   *)
(* without the blank line, or the block that completes the header.          *)
Read(c) ==
  /\ phase[c] = "reading"
  /\ \/ c \notin Prompt /\ Close(c, "none")
     \/ got[c] = HeaderLimit /\ Close(c, "431")
     \/ /\ got[c] < HeaderLimit
        /\ \/ c \notin Prompt /\ got' = [got EXCEPT ![c] = @ + 1]
              /\ UNCHANGED <<phase, slots, remaining, age, reply>>
           \/ \E request \in Asks[c] : Route(c, request)

(* open_upstream, then the 200 response; either may fail. *)
Connect(c) ==
  /\ phase[c] = "connecting"
  /\ \/ Close(c, "502")
     \/ Close(c, "none")
     \/ /\ phase' = [phase EXCEPT ![c] = "tunnel"]
        /\ remaining' = [remaining EXCEPT ![c] = Budget]
        /\ age' = [age EXCEPT ![c] = 0]
        /\ reply' = [reply EXCEPT ![c] = "200"]
        /\ UNCHANGED <<slots, got>>

InTime(c) == remaining[c] > 0 /\ age[c] < TunnelTime

(* Mutant: a block, whatever is left of the budget. *)
Received_whole_block(left) == 1 .. Block

(* What recv(min(65536, remaining)) brings; it brings nothing when nothing  *)
(* is left, as if the stream had ended.                                     *)
Received(left) == 1 .. (IF left < Block THEN left ELSE Block)

(* Budget and deadline are tested once for each select, which may find one  *)
(* side readable or both: what they send is relayed, or a socket has ended. *)
Relay(c) ==
  /\ phase[c] = "tunnel"
  /\ InTime(c)
  /\ \/ Close(c, reply[c])
     \/ /\ \E first \in Received(remaining[c]) : \E second \in {0} \cup Received(remaining[c] - first) :
             remaining' = [remaining EXCEPT ![c] = @ - first - second]
        /\ UNCHANGED <<phase, slots, got, age, reply>>

(* Mutant: only the byte budget ends a tunnel. *)
Expire_ignores_deadline(c) ==
  phase[c] = "tunnel" /\ remaining[c] = 0 /\ Close(c, reply[c])

(* The loop condition no longer holds. *)
Expire(c) == phase[c] = "tunnel" /\ ~InTime(c) /\ Close(c, reply[c])

(* Time passes, at least once per select. *)
Tick(c) ==
  /\ phase[c] = "tunnel" /\ age[c] < TunnelTime
  /\ age' = [age EXCEPT ![c] = @ + 1]
  /\ UNCHANGED <<phase, slots, got, remaining, reply>>

Handle(c) == Read(c) \/ Connect(c) \/ Relay(c) \/ Expire(c) \/ Tick(c)

Next == \E c \in Conn : Accept(c) \/ Handle(c)

(* Fair are the steps the peers cannot withhold: a blocking read or connect *)
(* ends at the latest with its timeout, and time passes.  Relay is not.     *)
Fairness == \A c \in Conn : /\ WF_pvars(Read(c)) /\ WF_pvars(Connect(c))
                            /\ WF_pvars(Expire(c)) /\ WF_pvars(Tick(c))

Spec == Init /\ [][Next]_pvars /\ Fairness

-----------------------------------------------------------------------------
Held == {c \in Conn : phase[c] # "idle"}

TypeOK ==
  /\ phase \in [Conn -> {"idle", "reading", "connecting", "tunnel"}]
  /\ slots \in 0 .. Slots
  /\ got \in [Conn -> 0 .. HeaderLimit]
  /\ remaining \in [Conn -> 0 .. Budget]
  /\ age \in [Conn -> 0 .. TunnelTime]
  /\ reply \in [Conn -> Status]

(* The semaphore counts the handlers at work, on every path out of the      *)
(* handler: a refusal takes and returns nothing, everything else returns    *)
(* exactly what it took, so that no sequence of failures leaks a slot.      *)
SlotsAccounted == slots + Cardinality(Held) = Slots

(* Whatever its peers do - send nothing, a byte at a time, or nothing once  *)
(* the tunnel is up - a connection that was admitted gives its slot back.   *)
SlotsComeBack == \A c \in Conn : (phase[c] # "idle") ~> (phase[c] = "idle")
=============================================================================
