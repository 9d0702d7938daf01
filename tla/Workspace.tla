------------------------------ MODULE Workspace ------------------------------
(***************************************************************************)
(* ui/thought-khoral-bootstrap.js as a whole: the page that BootstrapSession*)
(* describes hands getAccessToken and createSocket to the application it    *)
(* imports, and the application opens an AuthenticatedSocket with a token a *)
(* call returned.  The socket, its events and the calls all belong to one   *)
(* load of the page.                                                        *)
(***************************************************************************)
EXTENDS BootstrapSession, Sequences

CONSTANT MaxFrames   \* of AuthenticatedSocket

ASSUME FramesAssumption == MaxFrames \in Nat \ {0}

VARIABLES
  created,      \* this load of the page has created its socket
  readyState, socket, inbox, answered, wire, heard   \* of AuthenticatedSocket

Socket == INSTANCE AuthenticatedSocket

socketvars == <<readyState, socket, inbox, answered, wire, heard>>
pagevars == <<vars, created, socketvars>>

WorkspaceInit == Init /\ created = FALSE /\ Socket!Init

(* With the page its socket is gone; the next load has not made one yet. *)
Unloaded ==
  /\ created' = FALSE
  /\ readyState' = "connecting" /\ socket' = "connecting"
  /\ inbox' = <<>> /\ answered' = 0 /\ wire' = <<>> /\ heard' = <<>>

PageStep ==
  \/ (Depart \/ Reload) /\ Unloaded
  \/ /\ Load \/ Exchange \/ SignIn \/ Expire \/ \E c \in Caller : GetAccessToken(c)
     /\ UNCHANGED <<created, socketvars>>

(* createSocket, for whom a token was returned. *)
CreateSocket ==
  /\ page = "app" /\ ~created /\ created' = TRUE
  /\ \E c \in Caller : call[c] = "returned"
  /\ UNCHANGED <<vars, socketvars>>

SocketStep(A) == page = "app" /\ created /\ A /\ UNCHANGED <<vars, created>>

WorkspaceNext == PageStep \/ CreateSocket \/ SocketStep(Socket!Next)

(* What BootstrapSession and AuthenticatedSocket promise, as long as the    *)
(* page lives.                                                              *)
WorkspaceSpec ==
  /\ WorkspaceInit /\ [][WorkspaceNext]_pagevars
  /\ \A c \in Caller :
       WF_pagevars((Refreshed(c) \/ RefreshFails(c) \/ Authorize(c) \/ Return(c)) /\ UNCHANGED <<created, socketvars>>)
  /\ WF_pagevars(Depart /\ Unloaded)
  /\ WF_pagevars(SocketStep(Socket!Received)) /\ WF_pagevars(SocketStep(socket = "closing" /\ Socket!Ended))

-----------------------------------------------------------------------------
AllTypeOK == TypeOK /\ Socket!TypeOK /\ created \in BOOLEAN

(* AuthenticatedSocket. *)
LooksLikeWebSocket == Socket!LooksLikeWebSocket

(* An authentication that was refused, or answered with something else,     *)
(* ends in a close the application hears of, unless the page is left before,*)
(* never in a socket that stays connecting for ever.                        *)
RefusalCloses == Socket!At(heard, "error") # {} ~> (~created \/ Socket!At(heard, "close") # {})
=============================================================================
