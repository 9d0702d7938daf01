------------------------ MODULE AuthenticatedSocket ------------------------
(***************************************************************************)
(* Class AuthenticatedSocket of ui/thought-khoral-bootstrap.js: a WebSocket *)
(* that shows itself open to the application only after the room gateway    *)
(* answered its session.authenticate with an actor.  The browser's socket   *)
(* below it, the gateway and the application act on their own.              *)
(***************************************************************************)
EXTENDS Naturals, Sequences

CONSTANT MaxFrames   \* bound on what gateway and application send each

(* A message either answers the request with an actor, or does not. *)
Message == {"actor", "other"}

VARIABLES
  readyState,  \* what the application sees: "connecting", "open" or "closed"
  socket,      \* the browser's: "connecting", "open", "closing" or "closed"
  inbox,       \* messages that arrived and are not dispatched yet
  answered,    \* messages the gateway has sent
  wire,        \* frames this side has sent
  heard        \* events dispatched to the application

vars == <<readyState, socket, inbox, answered, wire, heard>>

Init ==
  /\ readyState = "connecting" /\ socket = "connecting"
  /\ inbox = <<>> /\ answered = 0 /\ wire = <<>> /\ heard = <<>>

Dispatch(event) == heard' = Append(heard, event)

-----------------------------------------------------------------------------
(* The listeners on the browser's socket.                                  *)

Opened ==
  /\ socket = "connecting" /\ socket' = "open"
  /\ wire' = Append(wire, "authenticate")
  /\ UNCHANGED <<readyState, inbox, answered, heard>>

(* Mutant: a message that is no answer is left to the application. *)
Refused_goes_on == Dispatch("message") /\ UNCHANGED socket

(* Mutant: the application is told, the socket is not closed. *)
Refused_stays_connected == Dispatch("error") /\ UNCHANGED socket

(* Anything but the actor, ill-formed or not, ends the socket. *)
Refused == Dispatch("error") /\ socket' = "closing"

(* The browser dispatches messages in their order, and none once the socket *)
(* is closing.                                                              *)
Received ==
  /\ inbox # <<>> /\ inbox' = Tail(inbox)
  /\ CASE socket # "open" -> UNCHANGED <<readyState, socket, heard>>
       [] socket = "open" /\ readyState = "connecting" /\ Head(inbox) = "actor" ->
            readyState' = "open" /\ Dispatch("open") /\ UNCHANGED socket
       [] socket = "open" /\ readyState = "connecting" /\ Head(inbox) # "actor" ->
            Refused /\ UNCHANGED readyState
       [] OTHER -> Dispatch("message") /\ UNCHANGED <<readyState, socket>>
  /\ UNCHANGED <<answered, wire>>

(* Mutant: the state is the one the browser's socket had. *)
Closed_copies == readyState' = socket /\ Dispatch("close")

Closed == readyState' = "closed" /\ Dispatch("close")

(* Closed or failed: an error is dispatched before the close. *)
Ended ==
  /\ socket # "closed" /\ socket' = "closed"
  /\ inbox' = <<>>
  /\ Closed
  /\ UNCHANGED <<answered, wire>>

Failed ==
  /\ socket \in {"connecting", "open"} /\ socket' = "closing"
  /\ Dispatch("error")
  /\ UNCHANGED <<readyState, inbox, answered, wire>>

-----------------------------------------------------------------------------
(* The application.                                                        *)

(* Mutant: whoever holds the object may send. *)
MaySend_always == socket = "open"

MaySend == readyState = "open"

(* Accepted by send; a browser discards what is sent on a closing socket.  *)
Send ==
  /\ MaySend /\ Len(wire) <= MaxFrames
  /\ wire' = IF socket = "open" THEN Append(wire, "data") ELSE wire
  /\ UNCHANGED <<readyState, socket, inbox, answered, heard>>

Close ==
  /\ socket \in {"connecting", "open"} /\ socket' = "closing"
  /\ UNCHANGED <<readyState, inbox, answered, wire, heard>>

(* The gateway sends what it likes, when it likes. *)
Arrive ==
  /\ socket # "connecting" /\ socket # "closed"
  /\ answered < MaxFrames /\ answered' = answered + 1
  /\ \E m \in Message : inbox' = Append(inbox, m)
  /\ UNCHANGED <<readyState, socket, wire, heard>>

Next == Opened \/ Received \/ Ended \/ Failed \/ Send \/ Close \/ Arrive

(* The browser dispatches what arrived, and a closing handshake ends. *)
Spec == Init /\ [][Next]_vars /\ WF_vars(Received) /\ WF_vars(socket = "closing" /\ Ended)

-----------------------------------------------------------------------------
At(sequence, value) == {i \in DOMAIN sequence : sequence[i] = value}
Event == {"open", "message", "error", "close"}

TypeOK ==
  /\ readyState \in {"connecting", "open", "closed"}
  /\ socket \in {"connecting", "open", "closing", "closed"}
  /\ inbox \in Seq(Message) /\ Len(inbox) <= MaxFrames
  /\ answered \in 0 .. MaxFrames
  /\ wire \in Seq({"authenticate", "data"})
  /\ heard \in Seq(Event)

(* The application sees the life of an ordinary WebSocket: at most one open *)
(* and one close, messages only between the two, and it believes the socket *)
(* open exactly from the one to the other.  What it sends follows the       *)
(* authentication on the wire, and none of it leaves before the gateway     *)
(* named the actor, that is, before the open.                               *)
LooksLikeWebSocket ==
  /\ wire # <<>> => At(wire, "authenticate") = {1}
  /\ At(wire, "data") # {} => At(heard, "open") # {}
  /\ \A event \in {"open", "close"}, i, j \in DOMAIN heard : heard[i] = event /\ heard[j] = event => i = j
  /\ \A i \in At(heard, "message") : \E j \in At(heard, "open") : j < i
  /\ \A i \in At(heard, "close") : i = Len(heard)
  /\ readyState = "open" <=> At(heard, "open") # {} /\ At(heard, "close") = {}
=============================================================================
