-------------------------------- MODULE Smoke --------------------------------
(***************************************************************************)
(* The two programs at the end of scripts/smoke.sh, which runs with `set -e`*)
(* as long as each exits with zero: browser-smoke.mjs, and then             *)
(* smoke-agent-gateway.mjs with its set-up (AgentSmokeSetup) and its tasks  *)
(* (AgentTaskSmoke).                                                        *)
(***************************************************************************)
EXTENDS AgentTaskSmoke

CONSTANTS Short, Medium, Sizes, Masked, MaxFrames   \* of BrowserSmoke

ASSUME LengthAssumption ==
  /\ {Short, Medium, MaxFrames} \subseteq Nat /\ 0 < Short /\ Short < Medium
  /\ Sizes \subseteq Nat \ {0} /\ Masked \subseteq Sizes

VARIABLES
  stage,                  \* "browser", "setup", "tasks", "closing", "passed" or "failed"
  main, human, socket,    \* of AgentSmokeSetup
  b_pc, b_outcome, b_conn, b_gateway, b_asked, b_wire, b_buffer, b_messages,
  b_waiters, b_hand, b_sent, b_arrived, b_taken   \* of BrowserSmoke

Browser == INSTANCE BrowserSmoke WITH
  pc <- b_pc, outcome <- b_outcome, conn <- b_conn, gateway <- b_gateway, asked <- b_asked,
  wire <- b_wire, buffer <- b_buffer, messages <- b_messages, waiters <- b_waiters,
  hand <- b_hand, sent <- b_sent, arrived <- b_arrived, taken <- b_taken
Setup == INSTANCE AgentSmokeSetup

bvars == <<b_pc, b_outcome, b_conn, b_gateway, b_asked, b_wire, b_buffer, b_messages,
           b_waiters, b_hand, b_sent, b_arrived, b_taken>>
svars == <<main, human, socket>>
smokevars == <<stage, vars, bvars, svars>>

SmokeInit == stage = "browser" /\ Init /\ Browser!Init /\ Setup!Init

Within(s) == stage = s /\ UNCHANGED stage

BrowserStep(A) == Within("browser") /\ A /\ UNCHANGED <<vars, svars>>
SetupStep(A) == Within("setup") /\ A /\ UNCHANGED <<vars, bvars>>
TaskStep(A) == Within("tasks") /\ A /\ UNCHANGED <<bvars, svars>>

(* A process that is gone takes its memory with it. *)
BrowserGone ==
  /\ b_pc' = "exited" /\ b_outcome' = "running" /\ b_conn' = "none" /\ b_gateway' = "none"
  /\ b_asked' = 0 /\ b_arrived' = 0 /\ b_hand' = "none"
  /\ b_wire' = <<>> /\ b_buffer' = <<>> /\ b_sent' = <<>>
  /\ b_messages' = <<>> /\ b_waiters' = <<>> /\ b_taken' = <<>>

BrowserExits ==
  /\ stage = "browser" /\ b_pc = "exited"
  /\ stage' = IF b_outcome = "passed" THEN "setup" ELSE "failed"
  /\ BrowserGone
  /\ UNCHANGED <<vars, svars>>

(* Alice's connection is from here on the one of AgentTaskSmoke. *)
TasksBegin ==
  /\ stage = "setup" /\ main = "ready" /\ stage' = "tasks"
  /\ socket' = [h \in Setup!Human |-> "open"] /\ UNCHANGED <<main, human, bvars>>
  /\ IF socket["alice"] = "open" THEN UNCHANGED vars ELSE Drop /\ conn' = "closed"

SetupExits ==
  /\ stage = "setup" /\ Setup!Over /\ stage' = "failed"
  /\ UNCHANGED <<vars, bvars, svars>>

TasksEnd ==
  /\ stage = "tasks" /\ pc = "done"
  /\ stage' = outcome
  /\ UNCHANGED <<vars, bvars, svars>>

SmokeNext ==
  \/ BrowserStep(Browser!Next) \/ SetupStep(Setup!Script \/ \E h \in Setup!Human : Setup!Ends(h))
  \/ TaskStep(Next)
  \/ BrowserExits \/ TasksBegin \/ SetupExits \/ TasksEnd

SmokeSpec ==
  /\ SmokeInit /\ [][SmokeNext]_smokevars
  /\ WF_smokevars(BrowserStep(Browser!Script)) /\ WF_smokevars(BrowserStep(b_conn = "ended" /\ Browser!Network))
  /\ WF_smokevars(SetupStep(Setup!Script))
  /\ \A h \in Setup!Human : WF_smokevars(SetupStep(socket[h] = "ended" /\ Setup!Ends(h)))
  /\ WF_smokevars(TaskStep(pc # "done" /\ Script))
  /\ WF_smokevars(BrowserExits \/ TasksBegin \/ SetupExits \/ TasksEnd)

-----------------------------------------------------------------------------
AllTypeOK ==
  /\ stage \in {"browser", "setup", "tasks", "passed", "failed"}
  /\ TypeOK /\ Browser!TypeOK /\ Setup!TypeOK

(* BrowserSmoke. *)
StreamFaithful == Browser!StreamFaithful

(* BrowserSmoke. *)
PassesConnected == Browser!PassesConnected

(* Both programs end, whatever the room, Keycloak, the connections and      *)
(* compose do: on a connection that ended while nobody waited for it, in    *)
(* the middle of a frame or of the handshake.  The one exception is a set-up*)
(* that failed for one human while the connection of a human was open.      *)
SmokeEnds == <>(stage \in {"passed", "failed"} \/ Setup!Abandoned)
=============================================================================
