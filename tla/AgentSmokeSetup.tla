--------------------------- MODULE AgentSmokeSetup ---------------------------
(***************************************************************************)
(* scripts/smoke-agent-gateway.mjs up to the first task: Alice and Bob sign *)
(* in, connect and authenticate side by side, both join the room, and Bob   *)
(* sends the message that is hidden from Alice.  Promise.all rejects with   *)
(* the first failure and leaves the other promise to itself; the block      *)
(* that closes both connections is entered only when both are there.        *)
(***************************************************************************)
Human == {"alice", "bob"}

VARIABLES
  main,    \* "sign_in", "connect", "join_alice", "join_bob", "hidden", "ready", "failed"
  human,   \* where each human's promise is
  socket   \* each human's connection: "none", "open", "ended" by this side, "closed"

svars == <<main, human, socket>>

Init ==
  /\ main = "sign_in"
  /\ human = [h \in Human |-> "signing"]
  /\ socket = [h \in Human |-> "none"]

(* authenticateWithPkce. *)
SignIn(h) ==
  /\ human[h] = "signing"
  /\ human' = [human EXCEPT ![h] = "token"] \/ human' = [human EXCEPT ![h] = "rejected"]
  /\ UNCHANGED <<main, socket>>

(* The second Promise.all begins. *)
SignedIn ==
  /\ main = "sign_in" /\ \A h \in Human : human[h] = "token"
  /\ main' = "connect" /\ human' = [h \in Human |-> "connecting"]
  /\ UNCHANGED socket

(* connectBrowserSocket, which destroys what it does not hand over. *)
Connect(h) ==
  /\ human[h] = "connecting"
  /\ \/ human' = [human EXCEPT ![h] = "authenticating"] /\ socket' = [socket EXCEPT ![h] = "open"]
     \/ human' = [human EXCEPT ![h] = "rejected"] /\ socket' = [socket EXCEPT ![h] = "closed"]
  /\ UNCHANGED main

(* The rest of authenticateSocket: a refusal, or no answer in time, leaves  *)
(* the connection as it is.                                                 *)
Authenticate(h) ==
  /\ human[h] = "authenticating"
  /\ \/ human' = [human EXCEPT ![h] = "ready"] /\ socket[h] = "open"
     \/ human' = [human EXCEPT ![h] = "rejected"]
  /\ UNCHANGED <<main, socket>>

Connected ==
  /\ main = "connect" /\ \A h \in Human : human[h] = "ready"
  /\ main' = "join_alice" /\ UNCHANGED <<human, socket>>

Rejected ==
  /\ main \in {"sign_in", "connect"} /\ \E h \in Human : human[h] = "rejected"
  /\ main' = "failed" /\ UNCHANGED <<human, socket>>

(* The finally block. *)
CloseBoth == socket' = [h \in Human |-> IF socket[h] = "open" THEN "ended" ELSE socket[h]]

(* joinRoom twice, then sendTargetedHiddenMessage. *)
Prepare ==
  /\ \/ main = "join_alice" /\ main' = "join_bob" /\ UNCHANGED socket
     \/ main = "join_bob" /\ main' = "hidden" /\ UNCHANGED socket
     \/ main = "hidden" /\ main' = "ready" /\ UNCHANGED socket
     \/ main \in {"join_alice", "join_bob", "hidden"} /\ main' = "failed" /\ CloseBoth
  /\ UNCHANGED human

(* What ends a connection from the other side, or completes its end. *)
Ends(h) ==
  /\ socket[h] \in {"open", "ended"}
  /\ socket' = [socket EXCEPT ![h] = "closed"]
  /\ UNCHANGED <<main, human>>

Script ==
  \/ \E h \in Human : SignIn(h) \/ Connect(h) \/ Authenticate(h)
  \/ SignedIn \/ Connected \/ Rejected \/ Prepare

(* The process ends when no promise and no connection is left. *)
Over == main = "failed" /\ \A h \in Human : human[h] \in {"token", "ready", "rejected"}
                                             /\ socket[h] \in {"none", "closed"}

(* A connection that nobody in the script will ever close: its human, or    *)
(* the other one, was rejected before both were there.                      *)
Abandoned == main = "failed" /\ (\E h \in Human : human[h] = "rejected") /\ \E h \in Human : socket[h] = "open"

TypeOK ==
  /\ main \in {"sign_in", "connect", "join_alice", "join_bob", "hidden", "ready", "failed"}
  /\ human \in [Human -> {"signing", "token", "connecting", "authenticating", "ready", "rejected"}]
  /\ socket \in [Human -> {"none", "open", "ended", "closed"}]
=============================================================================
