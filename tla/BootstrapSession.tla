-------------------------- MODULE BootstrapSession --------------------------
(***************************************************************************)
(* ui/thought-khoral-bootstrap.js, lines 30-120 and 169-192: how one tab    *)
(* obtains, keeps and loses its OIDC tokens.  The tab's sessionStorage and  *)
(* URL survive a load of the page; everything else is gone with it.  Once   *)
(* the application runs, any number of its calls of getAccessToken          *)
(* interleave at their awaits.  Keycloak and the user are the environment.  *)
(***************************************************************************)
EXTENDS Naturals, FiniteSets

CONSTANTS
  Caller,     \* calls of getAccessToken that may be under way at once
  MaxStarts   \* bound on the authorizations a tab begins

ASSUME StartsAssumption == MaxStarts \in Nat
ASSUME CallerAssumption == IsFiniteSet(Caller)

(* Tokens are told apart by whether they are good for 30 more seconds;      *)
(* "bare" are stale ones without a refresh token.                           *)
Tokens == {"none", "fresh", "stale", "bare"}

(* An authorization begun: its state (and verifier), and whether its        *)
(* redirect_uri carries a code of its own.  Number 0 stands for none.       *)
Transaction == [state : 0 .. MaxStarts, coded : BOOLEAN]
None == [state |-> 0, coded |-> FALSE]

VARIABLES
  page,         \* "load", "exchange", "app", "broken", or "login" at Keycloak
  code, state,  \* of the URL: number of the authorization they answer, 0 if absent
  tokens,       \* sessionStorage, sessionKey
  transaction,  \* sessionStorage, transactionKey
  call,         \* where each call of getAccessToken is
  assigned,     \* the authorization of the navigation under way, None if there is none
  asked,        \* the authorization Keycloak's login page is about
  spent,        \* codes Keycloak has exchanged
  starts        \* authorizations begun

url == <<code, state>>
storage == <<tokens, transaction>>
keycloak == <<asked, spent>>
vars == <<page, url, storage, call, assigned, keycloak, starts>>

Idle == [c \in Caller |-> "idle"]

Init ==
  /\ page = "load"
  /\ code = 0 /\ state = 0
  /\ tokens = "none" /\ transaction = None
  /\ call = Idle /\ assigned = None
  /\ asked = None /\ spent = {} /\ starts = 0

-----------------------------------------------------------------------------
(* The page.                                                               *)

(* finishAuthorizationCallback up to its request.  A callback that does not *)
(* match throws: the module is not evaluated and nothing is imported.       *)
Load ==
  /\ page = "load"
  /\ page' = CASE code = 0 -> "app"
               [] code # 0 /\ transaction # None /\ state = transaction.state -> "exchange"
               [] OTHER -> "broken"
  /\ UNCHANGED <<url, storage, call, assigned, keycloak, starts>>

(* storeTokens: what was issued may be short-lived, and need not be         *)
(* refreshable.                                                             *)
Stored == tokens' \in Tokens \ {"none"}

(* Mutant: the callback parameters stay in the address. *)
Exchanged_keeps_code ==
  /\ Stored
  /\ transaction' = None
  /\ page' = "app"
  /\ UNCHANGED url

(* The tokens are stored, then transaction and callback are forgotten. *)
Exchanged ==
  /\ Stored
  /\ transaction' = None
  /\ page' = "app"
  /\ code' = 0 /\ state' = 0

(* The authorization_code request.  Keycloak takes a code once; the answer  *)
(* may be lost, and then the code is gone as well.                          *)
Exchange ==
  /\ page = "exchange"
  /\ \/ code \notin spent /\ spent' = spent \cup {code} /\ Exchanged
     \/ /\ spent' \in {spent, spent \cup {code}}
        /\ page' = "broken"
        /\ UNCHANGED <<url, storage>>
  /\ UNCHANGED <<call, assigned, asked, starts>>

-----------------------------------------------------------------------------
(* getAccessToken.                                                         *)

Step(c, from, to) == page = "app" /\ call[c] = from /\ call' = [call EXCEPT ![c] = to]

(* The bound on authorizations, those under way included. *)
MayStart == starts + Cardinality({c \in Caller : call[c] = "digesting"}) < MaxStarts

(* Up to the first await. *)
Call(c) ==
  /\ \/ tokens = "fresh" /\ Step(c, "idle", "returned")
     \/ tokens = "stale" /\ Step(c, "idle", "refreshing")
     \/ tokens \in {"none", "bare"} /\ MayStart /\ Step(c, "idle", "digesting")
  /\ UNCHANGED <<page, url, storage, assigned, keycloak, starts>>

Refreshed(c) ==
  /\ Step(c, "refreshing", "returned")
  /\ Stored
  /\ UNCHANGED <<page, url, transaction, assigned, keycloak, starts>>

(* Mutant: the failure is not caught, the call rejects. *)
RefreshFails_rejects(c) ==
  /\ Step(c, "refreshing", "rejected")
  /\ UNCHANGED <<page, url, storage, assigned, keycloak, starts>>

(* Whatever the storage holds by now is removed. *)
RefreshFails(c) ==
  /\ MayStart
  /\ Step(c, "refreshing", "digesting")
  /\ tokens' = "none"
  /\ UNCHANGED <<page, url, transaction, assigned, keycloak, starts>>

(* Mutant: the transaction of another call is kept. *)
Remember_first(t) == transaction' = IF transaction = None THEN t ELSE transaction

Remember(t) == transaction' = t

(* Mutant: the address is computed and never assigned. *)
Navigate_not(t) == UNCHANGED assigned

(* location.assign supersedes a navigation that is under way. *)
Navigate(t) == assigned' = t

(* beginAuthorization after the digest, one synchronous stretch; the call   *)
(* itself never ends.                                                       *)
Authorize(c) ==
  /\ Step(c, "digesting", "leaving")
  /\ starts' = starts + 1
  /\ LET mine == [state |-> starts + 1, coded |-> code # 0]
     IN  Remember(mine) /\ Navigate(mine)
  /\ UNCHANGED <<page, url, tokens, keycloak>>

Return(c) == Step(c, "returned", "idle") /\ UNCHANGED <<page, url, storage, assigned, keycloak, starts>>

-----------------------------------------------------------------------------
(* The browser, the user and Keycloak.                                     *)

(* The navigation is committed: the document and its calls are gone. *)
Depart ==
  /\ assigned # None
  /\ page' = "login" /\ asked' = assigned
  /\ call' = Idle /\ assigned' = None
  /\ UNCHANGED <<url, storage, spent, starts>>

(* Keycloak redirects to the redirect_uri, code and state appended; of two  *)
(* codes in an address the first is read.                                   *)
SignIn ==
  /\ page = "login"
  /\ page' = "load"
  /\ state' = asked.state
  /\ code' = IF asked.coded THEN code ELSE asked.state
  /\ UNCHANGED <<storage, call, assigned, keycloak, starts>>

(* The page is loaded again at the address it had: reload, or back from the *)
(* login page.  A request that was under way may have been served.          *)
Reload ==
  /\ page' = "load"
  /\ call' = Idle /\ assigned' = None
  /\ spent' \in {spent} \cup (IF page = "exchange" THEN {spent \cup {code}} ELSE {})
  /\ UNCHANGED <<url, storage, asked, starts>>

Expire == tokens = "fresh" /\ tokens' \in {"stale", "bare"}
          /\ UNCHANGED <<page, url, transaction, call, assigned, keycloak, starts>>

GetAccessToken(c) == Call(c) \/ Refreshed(c) \/ RefreshFails(c) \/ Authorize(c) \/ Return(c)

Next ==
  \/ Load \/ Exchange \/ Depart \/ SignIn \/ Reload \/ Expire
  \/ \E c \in Caller : GetAccessToken(c)

(* A request is answered or fails in the end, and timers and the browser's  *)
(* task queue are served; the user promises nothing.                        *)
Spec ==
  /\ Init /\ [][Next]_vars
  /\ \A c \in Caller : WF_vars(Refreshed(c) \/ RefreshFails(c) \/ Authorize(c) \/ Return(c))
  /\ WF_vars(Depart)

-----------------------------------------------------------------------------
TypeOK ==
  /\ page \in {"load", "exchange", "app", "broken", "login"}
  /\ code \in 0 .. MaxStarts /\ state \in 0 .. MaxStarts
  /\ tokens \in Tokens
  /\ {transaction, assigned, asked} \subseteq Transaction
  /\ call \in [Caller -> {"idle", "refreshing", "digesting", "leaving", "returned"}]
  /\ spent \subseteq 1 .. MaxStarts
  /\ starts \in 0 .. MaxStarts

(* Whichever of several concurrent calls began an authorization last, and   *)
(* whatever was reloaded meanwhile: the login page the user sees is the one *)
(* whose state and redirect_uri the tab has stored, so that signing in is   *)
(* never answered by "OIDC callback state did not match".                   *)
LoginMatches == page = "login" => asked = transaction

(* An authorization never asks Keycloak to return to an address that still  *)
(* carries the code of an earlier one, which the next load would read first.*)
RedirectsClean == ~transaction.coded

(* A call of getAccessToken that is waiting ends or takes the page away,    *)
(* however many calls refresh, fail and navigate at the same time.          *)
CallsEnd == \A c \in Caller : (call[c] # "idle") ~> (call[c] = "idle")
=============================================================================
