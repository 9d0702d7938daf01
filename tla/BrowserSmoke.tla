---------------------------- MODULE BrowserSmoke ----------------------------
(***************************************************************************)
(* scripts/browser-smoke.mjs: sign in as Alice with PKCE, open a WebSocket  *)
(* over a plain TCP connection, authenticate, join the room, hang up.       *)
(*                                                                         *)
(* TCP keeps the order of bytes and nothing else: what the room gateway     *)
(* wrote arrives in pieces of any length, and the answer to the handshake   *)
(* may share a piece with the first frames.  Payload lengths are scaled:    *)
(* Short stands for 125 and Medium for 65535; headers have their own size.  *)
(* Keycloak, the UI's web server, TCP and the room gateway are external.    *)
(***************************************************************************)
EXTENDS Naturals, Sequences

CONSTANTS
  Short, Medium,  \* longest payloads of the two short forms of a frame
  Sizes, Masked,  \* payload lengths of text frames; those that come masked
  MaxFrames       \* bound on the frames of the room gateway

(* "bound" and "joined" answer the two requests as the script wants it;     *)
(* "other" is any other message.                                            *)
Text == {"bound", "joined", "other"}
Frame == [op : {"text"}, text : Text, size : Sizes] \cup [op : {"close", "ping"}, text : {"none"}, size : {0}]

(* A byte, as far as a reader can tell: an opcode, a length, a mask bit, or *)
(* a piece of a message.                                                    *)
Byte(op, length, masked, text) == [op |-> op, length |-> length, masked |-> masked, text |-> text]
Filler == Byte("none", 0, FALSE, "none")
Times(n, b) == [i \in 1 .. n |-> b]

VARIABLES
  pc,        \* what the script awaits
  outcome,   \* "running", "failed" or "passed"
  conn,      \* the script's end: "none", "connecting", "open", "ended", "closed"
  gateway,   \* the room gateway's end: "none", "open", "refusing", "closed"
  asked,     \* requests the script has sent on the WebSocket
  wire,      \* bytes under way to the script
  buffer,    \* bytes it has, and has not made use of
  messages, waiters, hand,  \* as in AgentTaskSmoke
  sent, arrived, taken      \* for the properties: frames sent, and where in the stream
                            \* each ends; bytes of frames that arrived; messages taken

script == <<pc, outcome, asked>>
mailbox == <<messages, waiters, hand, taken>>
vars == <<script, conn, gateway, wire, buffer, mailbox, sent, arrived>>

Init ==
  /\ pc = "authorize" /\ outcome = "running" /\ asked = 0
  /\ conn = "none" /\ gateway = "none"
  /\ wire = <<>> /\ buffer = <<>>
  /\ messages = <<>> /\ waiters = <<>> /\ hand = "none" /\ taken = <<>>
  /\ sent = <<>> /\ arrived = 0

-----------------------------------------------------------------------------
(* authenticateWithPkce.                                                   *)

Fail == pc' = "done" /\ outcome' = "failed" /\ UNCHANGED asked

Proceed(step) == pc' = step /\ UNCHANGED <<outcome, asked>>

(* Where the login redirects to, and what it carries back. *)
Callback == [ours : BOOLEAN, state : {"own", "other"}, code : BOOLEAN]

Accepted(callback) == callback.ours /\ callback.state = "own" /\ callback.code

(* Each request may fail, or bring something else. *)
SignIn ==
  /\ \/ pc = "authorize" /\ Proceed("login")
     \/ pc = "login" /\ \E callback \in Callback : IF Accepted(callback) THEN Proceed("callback") ELSE Fail
     \/ pc = "callback" /\ Proceed("exchange")
     \/ pc \in {"authorize", "login", "callback", "exchange"} /\ Fail
  /\ UNCHANGED <<conn, gateway, wire, buffer, mailbox, sent, arrived>>

-----------------------------------------------------------------------------
(* Frames.                                                                 *)

(* How many bytes of length a payload needs beside the second one. *)
Extension(size) == IF size <= Short THEN 0 ELSE IF size <= Medium THEN 2 ELSE 8

(* They tell it together, and nothing before the last one has arrived. *)
LengthBytes(size) ==
  [i \in 1 .. Extension(size) |-> IF i = Extension(size) THEN Byte("none", size, FALSE, "none") ELSE Filler]

(* encodeClientFrame, and the gateway's counterpart: the masking itself is  *)
(* undone by the reader.                                                    *)
Encode(frame) ==
  LET extra == Extension(frame.size)
      masked == frame.size \in Masked
      code == IF extra = 0 THEN frame.size ELSE IF extra = 2 THEN Short + 1 ELSE Short + 2
  IN  <<Byte(frame.op, 0, FALSE, "none"), Byte("none", code, masked, "none")>>
        \o LengthBytes(frame.size)
        \o Times(IF masked THEN 4 ELSE 0, Filler)
        \o Times(frame.size, Byte("none", 0, FALSE, frame.text))

(* Of the frame at the head of the buffer. *)
HeaderSize ==
  (IF buffer[2].length = Short + 1 THEN 4 ELSE IF buffer[2].length = Short + 2 THEN 10 ELSE 2)
    + (IF buffer[2].masked THEN 4 ELSE 0)

Length ==
  IF buffer[2].length <= Short THEN buffer[2].length
  ELSE IF buffer[2].length = Short + 1 THEN buffer[4].length ELSE buffer[10].length

(* What the loop of parseFrames returns on, or goes on with. *)
Complete ==
  /\ Len(buffer) >= 2
  /\ buffer[2].length = Short + 1 => Len(buffer) >= 4
  /\ buffer[2].length = Short + 2 => Len(buffer) >= 10
  /\ Len(buffer) >= HeaderSize + Length

Payload == {buffer[i].text : i \in HeaderSize + 1 .. HeaderSize + Length}

-----------------------------------------------------------------------------
(* WebSocketConnection.                                                    *)

Live == waiters # <<>> /\ waiters[1] = "live"

(* The finally block: whatever happened, the script hangs up. *)
HangUp(result) ==
  /\ pc' = "done" /\ outcome' = result /\ UNCHANGED asked
  /\ conn' = IF conn = "open" THEN "ended" ELSE conn

rejectWaiters(end) ==
  /\ waiters' = <<>> /\ UNCHANGED <<messages, hand, taken>>
  /\ conn' = IF Live /\ end = "open" THEN "ended" ELSE end
  /\ IF Live THEN Fail ELSE UNCHANGED script

Take(m) == hand' = m /\ taken' = Append(taken, m)

deliver(m) ==
  IF waiters = <<>>
  THEN messages' = Append(messages, m) /\ UNCHANGED <<waiters, hand, taken>>
  ELSE /\ waiters' = Tail(waiters) /\ UNCHANGED messages
       /\ IF Live THEN Take(m) ELSE UNCHANGED <<hand, taken>>

(* One round of the loop; a round follows the other, before anything else   *)
(* in the script runs.  A ping is answered with a pong.  "garbage" is text   *)
(* that does not parse.                                                     *)
ParseFrame ==
  /\ pc # "upgrade" /\ Complete
  /\ buffer' = SubSeq(buffer, HeaderSize + Length + 1, Len(buffer))
  /\ CASE buffer[1].op = "text" ->
            deliver(IF Payload \subseteq Text THEN CHOOSE m \in Payload : TRUE ELSE "garbage")
              /\ UNCHANGED <<script, conn>>
       [] buffer[1].op = "close" -> rejectWaiters(conn)
       [] OTHER -> UNCHANGED <<script, conn, mailbox>>
  /\ UNCHANGED <<gateway, wire, sent, arrived>>

(* The event loop: no frame is left to parse, no promise to be continued.   *)
Quiet == (pc = "upgrade" \/ ~Complete) /\ hand = "none" /\ pc # "greet"

(* receiveJson. *)
Receive(next) ==
  /\ pc' = next /\ asked' = asked + 1 /\ UNCHANGED outcome
  /\ IF messages # <<>>
     THEN Take(Head(messages)) /\ messages' = Tail(messages) /\ UNCHANGED waiters
     ELSE waiters' = Append(waiters, "live") /\ hand' = "none" /\ UNCHANGED <<messages, taken>>

(* Its timer looks for a waiter whose `resolve` is the promise's own; there *)
(* is none, and the waiter stays.                                           *)
TimedOut ==
  /\ Live /\ Quiet
  /\ waiters' = [i \in DOMAIN waiters |-> "stale"]
  /\ HangUp("failed")
  /\ UNCHANGED <<messages, hand, taken, gateway, wire, buffer, sent, arrived>>

-----------------------------------------------------------------------------
(* connectBrowserSocket.                                                   *)

Connect ==
  /\ pc = "exchange" /\ Proceed("upgrade")
  /\ conn' = "connecting"
  /\ UNCHANGED <<gateway, wire, buffer, mailbox, sent, arrived>>

Connected ==
  /\ conn = "connecting" /\ conn' = "open"
  /\ UNCHANGED <<script, gateway, wire, buffer, mailbox, sent, arrived>>

(* The fifteen seconds of the handshake: nothing else ends the wait for an  *)
(* answer that stops short.                                                 *)
HandshakeTimesOut ==
  /\ pc = "upgrade" /\ Fail
  /\ conn' = "closed" /\ wire' = <<>>
  /\ UNCHANGED <<gateway, buffer, mailbox, sent, arrived>>

(* Mutant: what came with the answer is dropped. *)
initialData_dropped(response, end) == <<>>

initialData(response, end) == SubSeq(response, end + 1, Len(response))

(* onData, until the blank line that ends the headers. *)
Upgrade(response) ==
  LET ends == {i \in DOMAIN response : response[i].op = "blank"} IN
  IF ends = {} THEN buffer' = response /\ UNCHANGED <<script, conn, arrived>>
  ELSE IF response[1].op = "101"
  THEN LET end == CHOOSE i \in ends : TRUE
       IN  /\ Proceed("greet") /\ UNCHANGED conn
           /\ buffer' = initialData(response, end) /\ arrived' = Len(response) - end
  ELSE Fail /\ conn' = "closed" /\ UNCHANGED <<buffer, arrived>>

(* A piece of what is under way arrives. *)
Arrives ==
  /\ conn \in {"open", "ended"} /\ Quiet
  /\ \E n \in 1 .. Len(wire) :
       LET piece == SubSeq(wire, 1, n) IN
       /\ wire' = SubSeq(wire, n + 1, Len(wire))
       /\ IF pc = "upgrade" THEN Upgrade(buffer \o piece)
          ELSE /\ buffer' = buffer \o piece /\ arrived' = arrived + n
               /\ UNCHANGED <<script, conn>>
  /\ UNCHANGED <<gateway, mailbox, sent>>

-----------------------------------------------------------------------------
(* verifyConnectedRoom.                                                    *)

Greet ==
  /\ pc = "greet" /\ ~Complete
  /\ Receive("bind")
  /\ UNCHANGED <<conn, gateway, wire, buffer, sent, arrived>>

(* Mutant: any answer to the join will do. *)
Joined_whatever(m) == TRUE

Joined(m) == m = "joined"

Examine ==
  /\ hand # "none" /\ ~Complete
  /\ \/ pc = "bind" /\ hand = "bound" /\ Receive("join") /\ UNCHANGED conn
     \/ /\ HangUp(IF pc = "join" /\ Joined(hand) THEN "passed" ELSE "failed")
        /\ pc = "bind" => hand # "bound"
        /\ hand' = "none" /\ UNCHANGED <<messages, waiters, taken>>
  /\ UNCHANGED <<gateway, wire, buffer, sent, arrived>>

(* The process ends when nothing is open any more. *)
Exit ==
  /\ pc = "done" /\ conn \in {"none", "closed"} /\ ~Complete
  /\ Proceed("exited")
  /\ UNCHANGED <<conn, gateway, wire, buffer, mailbox, sent, arrived>>

-----------------------------------------------------------------------------
(* The room gateway and TCP.                                               *)

(* The bytes of the first k frames. *)
UpTo(k) == IF k = 0 THEN 0 ELSE sent[k].end

Sends(frame) ==
  /\ wire' = wire \o Encode(frame)
  /\ sent' = Append(sent, [frame |-> frame, end |-> UpTo(Len(sent)) + Len(Encode(frame))])

Told(t) == \E k \in DOMAIN sent : sent[k].frame.text = t

(* It answers the handshake, and each request once it has it. *)
GatewayAnswers ==
  /\ conn \in {"open", "ended"} /\ Quiet
  /\ \/ /\ gateway = "none"
        /\ \E status \in {"101", "refused"} :
             /\ gateway' = IF status = "101" THEN "open" ELSE "refusing"
             /\ wire' = wire \o <<Byte(status, 0, FALSE, "none"), Byte("blank", 0, FALSE, "none")>>
        /\ UNCHANGED sent
     \/ /\ gateway = "open" /\ Len(sent) < MaxFrames
        /\ \E frame \in Frame :
             /\ frame.text = "bound" => asked > 0 /\ ~Told("bound")
             /\ frame.text = "joined" => asked > 1 /\ ~Told("joined")
             /\ Sends(frame)
        /\ UNCHANGED gateway
  /\ UNCHANGED <<script, conn, buffer, mailbox, arrived>>

GatewayCloses ==
  /\ conn \in {"open", "ended"} /\ Quiet
  /\ gateway # "closed" /\ gateway' = "closed"
  /\ UNCHANGED <<script, conn, wire, buffer, mailbox, sent, arrived>>

(* The end of the stream, after its last byte; or a reset at any time.  The *)
(* handshake listens for errors alone.                                      *)
Ends ==
  /\ conn \in {"connecting", "open", "ended"} /\ Quiet
  /\ \/ /\ gateway = "closed" /\ wire = <<>> /\ UNCHANGED wire
        /\ IF pc = "upgrade" THEN conn' = "closed" /\ UNCHANGED <<script, mailbox>>
           ELSE rejectWaiters("closed")
     \/ /\ wire' = <<>>
        /\ IF pc = "upgrade" THEN conn' = "closed" /\ Fail /\ UNCHANGED mailbox
           ELSE rejectWaiters("closed")
  /\ UNCHANGED <<gateway, buffer, sent, arrived>>

Script == SignIn \/ Connect \/ HandshakeTimesOut \/ Greet \/ ParseFrame \/ Examine \/ TimedOut \/ Exit
Network == Connected \/ Arrives \/ GatewayCloses \/ Ends

Next == Script \/ Network \/ GatewayAnswers

(* The script's own steps and timers; a gateway, once the script hung up,   *)
(* hangs up as well.                                                        *)
Fairness == WF_vars(Script) /\ WF_vars(conn = "ended" /\ Network)

Spec == Init /\ [][Next]_vars /\ Fairness

-----------------------------------------------------------------------------
TypeOK ==
  /\ pc \in {"authorize", "login", "callback", "exchange", "upgrade", "greet", "bind", "join", "done", "exited"}
  /\ outcome \in {"running", "failed", "passed"}
  /\ conn \in {"none", "connecting", "open", "ended", "closed"}
  /\ gateway \in {"none", "open", "refusing", "closed"}
  /\ asked \in 0 .. 2 /\ arrived \in Nat
  /\ {messages, taken} \subseteq Seq(Text)
  /\ waiters \in {<<>>, <<"live">>, <<"stale">>}
  /\ hand \in Text \cup {"none"}
  /\ sent \in Seq([frame : Frame, end : Nat]) /\ Len(sent) <= MaxFrames

(* The messages the script took and those in its mailbox are the texts of   *)
(* the frames in the first n bytes of the stream, in their order, each once.*)
Reads(n) ==
  LET read == taken \o messages
      whole == {k \in DOMAIN sent : sent[k].frame.op = "text" /\ sent[k].end <= n}
  IN  \E at \in [DOMAIN read -> whole] :
        /\ \A i \in DOMAIN read : read[i] = sent[at[i]].frame.text
        /\ \A i, j \in DOMAIN read : i < j => at[i] < at[j]
        /\ \A k \in whole : \E i \in DOMAIN read : at[i] = k

(* No frame that has arrived whole is missed, doubled or misread, wherever  *)
(* the stream was cut, before, in or after a header or the answer to the    *)
(* handshake, and whatever lengths the payloads have.                       *)
StreamFaithful == outcome # "failed" /\ (pc = "upgrade" \/ ~Complete) => Reads(arrived)

(* "The probe succeeds only when the token actor and room replay responses  *)
(* prove an authenticated connected room": both answers were given, each to *)
(* its request, although the gateway may say anything in between.           *)
PassesConnected == outcome = "passed" => Told("bound") /\ Told("joined") /\ asked = 2
=============================================================================
