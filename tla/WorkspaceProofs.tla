-------------------------- MODULE WorkspaceProofs --------------------------
(***************************************************************************)
(* For any number of concurrent calls, authorizations and messages, the     *)
(* login page a tab shows is the one it will accept, and the socket is an   *)
(* ordinary one.  Neither promise is inductive alone.  Of the page: the     *)
(* navigation under way must be the latest one remembered, only a running   *)
(* application navigates, and it runs only once the callback is out of the  *)
(* address.  Of the socket: what each state of the browser's and of the     *)
(* wrapper says about the events the application has heard.                 *)
(***************************************************************************)
EXTENDS Workspace, FiniteSetTheorems, TLAPS

-----------------------------------------------------------------------------
(* The page: the invariant of BootstrapSession.                            *)

SessionInv ==
  /\ assigned # None => page = "app" /\ assigned = transaction
  /\ page = "app" => code = 0
  /\ LoginMatches
  /\ RedirectsClean

LEMMA Initially == Init => SessionInv
BY DEF Init, SessionInv, LoginMatches, RedirectsClean, None

(* Loading, exchanging, leaving and coming back. *)
LEMMA PageSteps ==
  ASSUME SessionInv, Load \/ Exchange \/ Depart \/ SignIn \/ Reload \/ Expire
  PROVE  SessionInv'
<1> USE DEF SessionInv, LoginMatches, RedirectsClean, url, storage, keycloak
<1>1. CASE Load
  BY <1>1 DEF Load
<1>2. CASE Exchange
  <2>1. assigned = None /\ UNCHANGED <<assigned, asked>>
    BY <1>2 DEF Exchange
  <2>2. CASE Exchanged
    BY <2>1, <2>2 DEF Exchanged, None
  <2>3. CASE page' = "broken" /\ UNCHANGED <<url, storage>>
    BY <2>1, <2>3
  <2> QED BY <1>2, <2>2, <2>3 DEF Exchange
<1>3. CASE Depart
  BY <1>3 DEF Depart
<1>4. CASE SignIn
  BY <1>4 DEF SignIn
<1>5. CASE Reload
  BY <1>5 DEF Reload
<1>6. CASE Expire
  BY <1>6 DEF Expire
<1> QED BY <1>1, <1>2, <1>3, <1>4, <1>5, <1>6

LEMMA CallSteps ==
  ASSUME SessionInv, NEW c \in Caller, GetAccessToken(c)
  PROVE  SessionInv'
<1> USE DEF SessionInv, LoginMatches, RedirectsClean, url, storage, keycloak
<1>1. page = "app"
  BY DEF GetAccessToken, Call, Refreshed, RefreshFails, Authorize, Return, Step
<1>2. CASE Authorize(c)
  <2> DEFINE mine == [state |-> starts + 1, coded |-> code # 0]
  <2>1. transaction' = mine /\ assigned' = mine /\ UNCHANGED page /\ UNCHANGED url
    BY <1>2 DEF Authorize, Remember, Navigate
  <2>2. ~mine.coded
    BY <1>1
  <2> QED BY <1>1, <2>1, <2>2
<1>3. CASE ~Authorize(c)
  <2>1. UNCHANGED <<page, url, transaction, assigned, asked>>
    BY <1>3 DEF GetAccessToken, Call, Refreshed, RefreshFails, Return
  <2> QED BY <2>1
<1> QED BY <1>2, <1>3

LEMMA Inductive == SessionInv /\ [Next]_vars => SessionInv'
<1> SUFFICES ASSUME SessionInv, [Next]_vars PROVE SessionInv'
  OBVIOUS
<1>1. CASE UNCHANGED vars
  BY <1>1 DEF vars, url, storage, keycloak, SessionInv, LoginMatches, RedirectsClean
<1>2. CASE Next
  BY <1>2, PageSteps, CallSteps DEF Next
<1> QED BY <1>1, <1>2

(* Every step of the whole is one of the page, or none of its business. *)
LEMMA PageRefines == [WorkspaceNext]_pagevars => [Next]_vars
BY DEF WorkspaceNext, PageStep, CreateSocket, SocketStep, Next, pagevars, vars, url, storage, keycloak

LEMMA PageInvariance == WorkspaceSpec => []SessionInv
<1>1. WorkspaceInit => SessionInv
  BY Initially DEF WorkspaceInit
<1>2. SessionInv /\ [WorkspaceNext]_pagevars => SessionInv'
  BY PageRefines, Inductive
<1> QED BY <1>1, <1>2, PTL DEF WorkspaceSpec

(* Signing in is never answered by "OIDC callback state did not match":     *)
(* of several calls that begin an authorization, the one whose page is      *)
(* shown is the one whose state and verifier are stored, whatever the       *)
(* socket and the application do meanwhile.                                 *)
THEOREM LoginIsAccepted == WorkspaceSpec => []LoginMatches
<1>1. SessionInv => LoginMatches
  BY DEF SessionInv
<1> QED BY <1>1, PageInvariance, PTL

(* No redirect_uri carries the code of an earlier authorization. *)
THEOREM RedirectsAreClean == WorkspaceSpec => []RedirectsClean
<1>1. SessionInv => RedirectsClean
  BY DEF SessionInv
<1> QED BY <1>1, PageInvariance, PTL

-----------------------------------------------------------------------------
(* The socket.                                                             *)

Heard(event) == \E i \in DOMAIN heard : heard[i] = event

WireInv ==
  /\ wire \in Seq({"authenticate", "data"})
  /\ socket = "connecting" => wire = <<>>
  /\ socket = "open" => wire # <<>>
  /\ \A i \in DOMAIN wire : wire[i] = "authenticate" <=> i = 1
  /\ (\E i \in DOMAIN wire : wire[i] = "data") => Heard("open")

HeardInv ==
  /\ heard \in Seq({"open", "message", "error", "close"})
  /\ readyState \in {"connecting", "open", "closed"}
  /\ socket = "closed" <=> readyState = "closed"
  /\ readyState = "connecting" => ~Heard("open")
  /\ readyState = "open" => Heard("open")
  /\ Heard("close") <=> readyState = "closed"
  /\ \A i, j \in DOMAIN heard : heard[i] = "open" /\ heard[j] = "open" => i = j
  /\ \A i \in DOMAIN heard : heard[i] = "close" => i = Len(heard)
  /\ \A i \in DOMAIN heard : heard[i] = "message" => \E j \in DOMAIN heard : heard[j] = "open" /\ j < i

SocketInv == WireInv /\ HeardInv

LEMMA SocketInitially == Socket!Init => SocketInv
BY DEF Socket!Init, SocketInv, WireInv, HeardInv, Heard

(* What one more event may be. *)
LEMMA OneMore ==
  ASSUME HeardInv, NEW event \in {"open", "message", "error", "close"}, Socket!Dispatch(event),
         socket # "closed",
         readyState' \in {"connecting", "open", "closed"},
         socket' = "closed" <=> readyState' = "closed",
         event = "close" <=> readyState' = "closed",
         event = "open" => readyState = "connecting" /\ readyState' = "open",
         event = "message" => readyState = "open",
         event \in {"message", "error"} => readyState' = readyState
  PROVE  HeardInv' /\ (Heard("open") => Heard("open")')
<1>1. heard \in Seq({"open", "message", "error", "close"}) /\ ~Heard("close")
  BY DEF HeardInv
<1>2. /\ heard' \in Seq({"open", "message", "error", "close"})
      /\ Len(heard') = Len(heard) + 1 /\ heard'[Len(heard) + 1] = event
      /\ \A i \in DOMAIN heard : heard'[i] = heard[i]
      /\ DOMAIN heard' = DOMAIN heard \cup {Len(heard) + 1}
      /\ DOMAIN heard = 1 .. Len(heard) /\ Len(heard) \in Nat
  BY <1>1 DEF Socket!Dispatch
<1>3. \A e \in {"open", "message", "error", "close"} : Heard(e)' <=> Heard(e) \/ e = event
  BY <1>2 DEF Heard
<1>4. \A i \in DOMAIN heard' : heard'[i] = "close" => i = Len(heard')
  BY <1>1, <1>2 DEF Heard
<1>5. \A i, j \in DOMAIN heard' : heard'[i] = "open" /\ heard'[j] = "open" => i = j
  BY <1>1, <1>2 DEF Heard, HeardInv
<1>6. \A i \in DOMAIN heard' : heard'[i] = "message" => \E j \in DOMAIN heard' : heard'[j] = "open" /\ j < i
  <2> SUFFICES ASSUME NEW i \in DOMAIN heard', heard'[i] = "message"
               PROVE  \E j \in DOMAIN heard' : heard'[j] = "open" /\ j < i
    OBVIOUS
  <2>1. CASE i \in DOMAIN heard
    BY <1>2, <2>1 DEF HeardInv
  <2>2. CASE i = Len(heard) + 1
    <3>1. Heard("open")
      BY <1>2, <2>2 DEF HeardInv
    <3>2. PICK j \in DOMAIN heard : heard[j] = "open"
      BY <3>1 DEF Heard
    <3> QED BY <1>2, <2>2, <3>2
  <2> QED BY <1>2, <2>1, <2>2
<1> QED BY <1>2, <1>3, <1>4, <1>5, <1>6 DEF HeardInv

LEMMA SocketInductive == SocketInv /\ Socket!Next => SocketInv'
<1> SUFFICES ASSUME SocketInv, Socket!Next PROVE SocketInv'
  OBVIOUS
<1> USE DEF SocketInv
<1>1. CASE Socket!Opened
  <2>1. wire' = <<"authenticate">>
    BY <1>1 DEF Socket!Opened, WireInv
  <2>2. WireInv'
    BY <1>1, <2>1 DEF Socket!Opened, WireInv, Heard
  <2> QED BY <1>1, <2>2 DEF Socket!Opened, HeardInv, Heard
<1>2. CASE Socket!Received
  <2>1. UNCHANGED wire
    BY <1>2 DEF Socket!Received
  <2>2. CASE UNCHANGED <<readyState, socket, heard>>
    BY <2>1, <2>2 DEF WireInv, HeardInv, Heard
  <2>3. CASE ~UNCHANGED <<readyState, socket, heard>>
    <3>1. socket = "open" /\ readyState # "closed"
      BY <1>2, <2>3 DEF Socket!Received, HeardInv
    <3>2. HeardInv' /\ (Heard("open") => Heard("open")')
      <4>1. CASE readyState = "connecting" /\ Head(inbox) = "actor"
        BY <1>2, <3>1, <4>1, OneMore DEF Socket!Received
      <4>2. CASE readyState = "connecting" /\ Head(inbox) # "actor"
        BY <1>2, <3>1, <4>2, OneMore DEF Socket!Received, Socket!Refused
      <4>3. CASE readyState = "open"
        BY <1>2, <3>1, <4>3, OneMore DEF Socket!Received
      <4> QED BY <3>1, <4>1, <4>2, <4>3 DEF HeardInv
    <3>3. socket' # "connecting"
      BY <1>2, <3>1 DEF Socket!Received, Socket!Refused
    <3> QED BY <2>1, <3>1, <3>2, <3>3 DEF WireInv
  <2> QED BY <2>2, <2>3
<1>3. CASE Socket!Ended
  <2>1. HeardInv' /\ (Heard("open") => Heard("open")')
    BY <1>3, OneMore DEF Socket!Ended, Socket!Closed, HeardInv
  <2> QED BY <1>3, <2>1 DEF Socket!Ended, WireInv
<1>4. CASE Socket!Failed
  <2>1. HeardInv' /\ (Heard("open") => Heard("open")')
    BY <1>4, OneMore DEF Socket!Failed, HeardInv
  <2> QED BY <1>4, <2>1 DEF Socket!Failed, WireInv
<1>5. CASE Socket!Send
  <2>1. UNCHANGED <<readyState, socket, heard>> /\ readyState = "open"
    BY <1>5 DEF Socket!Send, Socket!MaySend
  <2>2. HeardInv'
    BY <2>1 DEF HeardInv, Heard
  <2>3. CASE socket = "open"
    <3>1. wire \in Seq({"authenticate", "data"}) /\ wire # <<>> /\ wire' = Append(wire, "data")
      BY <1>5, <2>3 DEF Socket!Send, WireInv
    <3>2. WireInv'
      BY <2>1, <2>3, <3>1 DEF WireInv, HeardInv, Heard
    <3> QED BY <2>2, <3>2
  <2>4. CASE socket # "open"
    BY <1>5, <2>1, <2>2, <2>4 DEF Socket!Send, WireInv, Heard
  <2> QED BY <2>3, <2>4
<1>6. CASE Socket!Close
  BY <1>6 DEF Socket!Close, WireInv, HeardInv, Heard
<1>7. CASE Socket!Arrive
  BY <1>7 DEF Socket!Arrive, WireInv, HeardInv, Heard
<1> QED BY <1>1, <1>2, <1>3, <1>4, <1>5, <1>6, <1>7 DEF Socket!Next

LEMMA SocketSteps == SocketInv /\ [WorkspaceNext]_pagevars => SocketInv'
<1> SUFFICES ASSUME SocketInv, [WorkspaceNext]_pagevars PROVE SocketInv'
  OBVIOUS
<1>1. CASE UNCHANGED socketvars
  BY <1>1 DEF socketvars, SocketInv, WireInv, HeardInv, Heard
<1>2. CASE Unloaded
  <2>1. Socket!Init'
    BY <1>2 DEF Unloaded, Socket!Init
  <2> QED BY <2>1 DEF Socket!Init, SocketInv, WireInv, HeardInv, Heard
<1>3. CASE Socket!Next
  BY <1>3, SocketInductive
<1> QED BY <1>1, <1>2, <1>3 DEF WorkspaceNext, PageStep, CreateSocket, SocketStep, pagevars, socketvars

LEMMA SocketInvariance == WorkspaceSpec => []SocketInv
<1>1. WorkspaceInit => SocketInv
  BY SocketInitially DEF WorkspaceInit
<1> QED BY <1>1, SocketSteps, PTL DEF WorkspaceSpec

(* To the application the wrapper is an ordinary WebSocket, over any number *)
(* of messages, failures and loads of the page.                             *)
THEOREM SocketIsOrdinary == WorkspaceSpec => []LooksLikeWebSocket
<1>1. SocketInv => LooksLikeWebSocket
  <2> SUFFICES ASSUME SocketInv PROVE LooksLikeWebSocket
    OBVIOUS
  <2> USE DEF SocketInv
  <2>1. \A event : Socket!At(heard, event) # {} <=> Heard(event)
    BY DEF Socket!At, Heard
  <2>2. wire # <<>> => Socket!At(wire, "authenticate") = {1}
    BY DEF WireInv, Socket!At
  <2>3. Socket!At(wire, "data") # {} => Heard("open")
    BY DEF WireInv, Socket!At
  <2>4. \A event \in {"open", "close"}, i, j \in DOMAIN heard : heard[i] = event /\ heard[j] = event => i = j
    BY DEF HeardInv
  <2>5. \A i \in Socket!At(heard, "message") : \E j \in Socket!At(heard, "open") : j < i
    BY DEF HeardInv, Socket!At
  <2>6. \A i \in Socket!At(heard, "close") : i = Len(heard)
    BY DEF HeardInv, Socket!At
  <2>7. readyState = "open" <=> Heard("open") /\ ~Heard("close")
    BY DEF HeardInv
  <2> QED BY <2>1, <2>2, <2>3, <2>4, <2>5, <2>6, <2>7 DEF LooksLikeWebSocket, Socket!LooksLikeWebSocket
<1> QED BY <1>1, SocketInvariance, PTL

-----------------------------------------------------------------------------
(* Types of the page.  That no authorization is numbered beyond MaxStarts   *)
(* takes the calls into account that are on their way to begin one.         *)

Digesting == {c \in Caller : call[c] = "digesting"}

Places == {"idle", "refreshing", "digesting", "leaving", "returned"}

PageTyped ==
  /\ page \in {"load", "exchange", "app", "broken", "login"}
  /\ code \in 0 .. MaxStarts /\ state \in 0 .. MaxStarts
  /\ tokens \in Tokens
  /\ {transaction, assigned, asked} \subseteq Transaction
  /\ spent \subseteq 1 .. MaxStarts
  /\ page = "exchange" => code # 0

CallsTyped ==
  /\ call \in [Caller -> Places]
  /\ starts \in Nat
  /\ starts + Cardinality(Digesting) <= MaxStarts

LEMMA DigestingFinite ==
  /\ IsFiniteSet(Digesting) /\ Cardinality(Digesting) \in Nat
  /\ IsFiniteSet(Digesting)' /\ Cardinality(Digesting)' \in Nat
<1>1. Digesting \subseteq Caller /\ Digesting' \subseteq Caller
  BY DEF Digesting
<1> QED BY <1>1, CallerAssumption, FS_Subset, FS_CardinalityType

LEMMA NoTransaction == None \in Transaction
BY StartsAssumption DEF None, Transaction

LEMMA NoCall ==
  /\ (call = Idle => call \in [Caller -> Places] /\ Cardinality(Digesting) = 0)
  /\ (call' = Idle => call' \in [Caller -> Places] /\ Cardinality(Digesting)' = 0)
<1>1. call = Idle => Digesting = {}
  BY DEF Idle, Digesting
<1>2. call' = Idle => Digesting' = {}
  BY DEF Idle, Digesting
<1> QED BY <1>1, <1>2, FS_EmptySet DEF Idle, Places

LEMMA TypedInitially == Init => PageTyped /\ CallsTyped
<1> SUFFICES ASSUME Init PROVE PageTyped /\ CallsTyped
  OBVIOUS
<1>1. PageTyped
  BY NoTransaction, StartsAssumption DEF Init, PageTyped, Tokens
<1>2. CallsTyped
  BY NoCall, StartsAssumption DEF Init, CallsTyped
<1> QED BY <1>1, <1>2

(* A step of one call: where it goes, and how many are digesting then. *)
LEMMA Stepping ==
  ASSUME CallsTyped, NEW c \in Caller, NEW from \in Places, NEW to \in Places, Step(c, from, to)
  PROVE  /\ call' \in [Caller -> Places]
         /\ from # "digesting" /\ to = "digesting" => Cardinality(Digesting)' = Cardinality(Digesting) + 1
         /\ from = "digesting" /\ to # "digesting" => Cardinality(Digesting)' = Cardinality(Digesting) - 1
         /\ from # "digesting" /\ to # "digesting" => Cardinality(Digesting)' = Cardinality(Digesting)
<1>1. call[c] = from /\ call' = [call EXCEPT ![c] = to] /\ call \in [Caller -> Places]
  BY DEF Step, CallsTyped
<1>2. ASSUME from # "digesting", to = "digesting"
      PROVE  Cardinality(Digesting)' = Cardinality(Digesting) + 1
  <2>1. Digesting' = Digesting \cup {c} /\ c \notin Digesting
    BY <1>1, <1>2 DEF Digesting
  <2> QED BY <2>1, DigestingFinite, FS_AddElement
<1>3. ASSUME from = "digesting", to # "digesting"
      PROVE  Cardinality(Digesting)' = Cardinality(Digesting) - 1
  <2>1. Digesting' = Digesting \ {c} /\ c \in Digesting
    BY <1>1, <1>3 DEF Digesting
  <2> QED BY <2>1, DigestingFinite, FS_RemoveElement
<1>4. ASSUME from # "digesting", to # "digesting"
      PROVE  Cardinality(Digesting)' = Cardinality(Digesting)
  <2>1. Digesting' = Digesting
    BY <1>1, <1>4 DEF Digesting
  <2> QED BY <2>1
<1> QED BY <1>1, <1>2, <1>3, <1>4

LEMMA CallsKept ==
  ASSUME CallsTyped, NEW c \in Caller, GetAccessToken(c)
  PROVE  CallsTyped'
<1> USE DigestingFinite, StartsAssumption
<1>1. CASE \E from \in Places \ {"digesting"}, to \in Places \ {"digesting"} : Step(c, from, to) /\ UNCHANGED starts
  BY <1>1, Stepping DEF CallsTyped
<1>2. CASE MayStart /\ UNCHANGED starts /\ \E from \in {"idle", "refreshing"} : Step(c, from, "digesting")
  <2>1. Cardinality(Digesting)' = Cardinality(Digesting) + 1 /\ call' \in [Caller -> Places]
    BY <1>2, Stepping DEF Places
  <2>2. starts + Cardinality(Digesting) < MaxStarts
    BY <1>2 DEF MayStart, Digesting
  <2> QED BY <1>2, <2>1, <2>2 DEF CallsTyped
<1>3. CASE Authorize(c)
  <2>1. Cardinality(Digesting)' = Cardinality(Digesting) - 1 /\ call' \in [Caller -> Places]
    BY <1>3, Stepping DEF Authorize, Places
  <2> QED BY <1>3, <2>1 DEF Authorize, CallsTyped
<1> QED BY <1>1, <1>2, <1>3 DEF GetAccessToken, Call, Refreshed, RefreshFails, Return, Places

LEMMA PageKept ==
  ASSUME PageTyped, CallsTyped, NEW c \in Caller, GetAccessToken(c)
  PROVE  PageTyped'
<1> USE DEF PageTyped, url, storage, keycloak
<1>1. CASE Authorize(c)
  <2> DEFINE mine == [state |-> starts + 1, coded |-> code # 0]
  <2>1. /\ transaction' = mine /\ assigned' = mine
        /\ UNCHANGED <<page, code, state, tokens, asked, spent>>
    BY <1>1 DEF Authorize, Remember, Navigate
  <2>2. c \in Digesting
    BY <1>1 DEF Authorize, Step, Digesting
  <2>3. Cardinality(Digesting) # 0
    BY <2>2, DigestingFinite, FS_EmptySet
  <2>4. starts + 1 \in 0 .. MaxStarts
    BY <2>3, DigestingFinite, StartsAssumption DEF CallsTyped
  <2>5. mine \in Transaction
    BY <2>4 DEF Transaction
  <2> QED BY <2>1, <2>5
<1>2. CASE ~Authorize(c)
  <2>1. UNCHANGED <<page, code, state, transaction, assigned, asked, spent>> /\ tokens' \in Tokens
    BY <1>2 DEF GetAccessToken, Call, Refreshed, RefreshFails, Return, Stored, Tokens
  <2> QED BY <2>1
<1> QED BY <1>1, <1>2

LEMMA LoadsKept ==
  ASSUME PageTyped, CallsTyped, Load \/ Exchange \/ Depart \/ SignIn \/ Reload \/ Expire
  PROVE  PageTyped' /\ CallsTyped'
<1> USE StartsAssumption, NoTransaction DEF PageTyped, url, storage, keycloak
<1>1. UNCHANGED <<call, starts>> => CallsTyped'
  BY DEF CallsTyped, Digesting
<1>2. call' = Idle /\ UNCHANGED starts => CallsTyped'
  BY NoCall, DigestingFinite DEF CallsTyped
<1>3. CASE Load
  BY <1>1, <1>3 DEF Load
<1>4. CASE Exchange
  <2>1. spent' \subseteq 1 .. MaxStarts
    <3>1. code \in 1 .. MaxStarts /\ spent' \in {spent, spent \cup {code}}
      BY <1>4 DEF Exchange
    <3> QED BY <3>1
  <2>2. CASE Exchanged
    BY <1>1, <1>4, <2>1, <2>2 DEF Exchange, Exchanged, Stored, Tokens
  <2>3. CASE page' = "broken" /\ UNCHANGED <<url, storage>>
    BY <1>1, <1>4, <2>1, <2>3 DEF Exchange
  <2> QED BY <1>4, <2>2, <2>3 DEF Exchange
<1>5. CASE Depart
  BY <1>2, <1>5 DEF Depart
<1>6. CASE SignIn
  <2>1. asked.state \in 0 .. MaxStarts
    BY DEF Transaction
  <2> QED BY <1>1, <1>6, <2>1 DEF SignIn
<1>7. CASE Reload
  BY <1>2, <1>7 DEF Reload
<1>8. CASE Expire
  BY <1>1, <1>8 DEF Expire, Tokens
<1> QED BY <1>3, <1>4, <1>5, <1>6, <1>7, <1>8

LEMMA PageTypeInductive == PageTyped /\ CallsTyped /\ [Next]_vars => (PageTyped /\ CallsTyped)'
<1> SUFFICES ASSUME PageTyped, CallsTyped, [Next]_vars PROVE PageTyped' /\ CallsTyped'
  OBVIOUS
<1>1. CASE UNCHANGED vars
  BY <1>1 DEF vars, url, storage, keycloak, PageTyped, CallsTyped, Digesting
<1>2. CASE Next
  BY <1>2, CallsKept, PageKept, LoadsKept DEF Next
<1> QED BY <1>1, <1>2

-----------------------------------------------------------------------------
(* Types of the socket, but for those that SocketInv states.  What waits in *)
(* the inbox has been sent.                                                 *)

SocketTyped ==
  /\ socket \in {"connecting", "open", "closing", "closed"}
  /\ inbox \in Seq(Socket!Message)
  /\ answered \in 0 .. MaxFrames
  /\ Len(inbox) <= answered

Created == created \in BOOLEAN

LEMMA CreatedKept == Created /\ [WorkspaceNext]_pagevars => Created'
BY DEF Created, WorkspaceNext, PageStep, CreateSocket, SocketStep, Unloaded, pagevars

LEMMA EmptyInbox == <<>> \in Seq(Socket!Message) /\ Len(<<>>) = 0
OBVIOUS

LEMMA SocketTypeInductive == SocketTyped /\ [WorkspaceNext]_pagevars => SocketTyped'
<1> SUFFICES ASSUME SocketTyped, [WorkspaceNext]_pagevars PROVE SocketTyped'
  OBVIOUS
<1> USE FramesAssumption DEF SocketTyped
<1>1. CASE UNCHANGED socketvars
  BY <1>1 DEF socketvars
<1>2. CASE Unloaded
  BY <1>2, EmptyInbox DEF Unloaded
<1>3. CASE Socket!Next
  <2>1. CASE Socket!Received
    <3>1. inbox \in Seq(Socket!Message) /\ inbox # <<>> /\ inbox' = Tail(inbox) /\ UNCHANGED answered
      BY <2>1 DEF Socket!Received
    <3>2. inbox' \in Seq(Socket!Message) /\ Len(inbox') = Len(inbox) - 1 /\ Len(inbox) \in Nat
      BY <3>1
    <3>3. socket' \in {socket, "closing"}
      BY <2>1 DEF Socket!Received, Socket!Refused
    <3> QED BY <1>3, <3>1, <3>2, <3>3
  <2>2. CASE Socket!Arrive
    <3>1. PICK m \in Socket!Message : inbox' = Append(inbox, m)
      BY <2>2 DEF Socket!Arrive
    <3>2. inbox' \in Seq(Socket!Message) /\ Len(inbox') = Len(inbox) + 1 /\ Len(inbox) \in Nat
      BY <3>1
    <3> QED BY <1>3, <2>2, <3>2 DEF Socket!Arrive
  <2>3. CASE Socket!Ended
    BY <1>3, <2>3 DEF Socket!Ended
  <2>4. CASE Socket!Opened \/ Socket!Failed \/ Socket!Send \/ Socket!Close
    BY <1>3, <2>4 DEF Socket!Opened, Socket!Failed, Socket!Send, Socket!Close
  <2> QED BY <1>3, <2>1, <2>2, <2>3, <2>4 DEF Socket!Next
<1> QED BY <1>1, <1>2, <1>3 DEF WorkspaceNext, PageStep, CreateSocket, SocketStep, pagevars, vars

(* In the composed page no tab begins more authorizations than its calls    *)
(* were admitted to, whatever calls are cut off by a navigation or reload;  *)
(* only numbers of authorizations are ever in the address or spent, and the *)
(* gateway's messages are dispatched at most once each.                     *)
THEOREM WorkspaceTyped == WorkspaceSpec => []AllTypeOK
<1>1. WorkspaceInit => PageTyped /\ CallsTyped /\ SocketTyped /\ Created
  <2>1. WorkspaceInit => SocketTyped
    BY EmptyInbox, FramesAssumption DEF WorkspaceInit, Socket!Init, SocketTyped
  <2>2. WorkspaceInit => Created
    BY DEF WorkspaceInit, Created
  <2> QED BY <2>1, <2>2, TypedInitially DEF WorkspaceInit
<1>2. PageTyped /\ CallsTyped /\ SocketTyped /\ Created /\ [WorkspaceNext]_pagevars
      => (PageTyped /\ CallsTyped /\ SocketTyped /\ Created)'
  BY PageRefines, PageTypeInductive, SocketTypeInductive, CreatedKept
<1>3. PageTyped /\ CallsTyped /\ SocketTyped /\ Created /\ SocketInv => AllTypeOK
  <2> SUFFICES ASSUME PageTyped, CallsTyped, SocketTyped, Created, SocketInv PROVE AllTypeOK
    OBVIOUS
  <2>1. starts \in 0 .. MaxStarts
    BY DigestingFinite, StartsAssumption DEF CallsTyped
  <2>2. TypeOK
    BY <2>1 DEF PageTyped, CallsTyped, Places, TypeOK
  <2>3. Len(inbox) <= MaxFrames
    BY FramesAssumption DEF SocketTyped
  <2>4. Socket!TypeOK
    BY <2>3 DEF SocketTyped, SocketInv, WireInv, HeardInv, Socket!TypeOK, Socket!Event
  <2> QED BY <2>2, <2>4 DEF Created, AllTypeOK
<1> QED BY <1>1, <1>2, <1>3, SocketInvariance, PTL DEF WorkspaceSpec
=============================================================================
