-------------------------- MODULE LiveVerification --------------------------
(***************************************************************************)
(* `liveMode` of scripts/smoke-codex-conversation.mjs: the checks before    *)
(* any contact, the evidence file, and the turns Leo submits to the broker  *)
(* while the operator acts at the prompts.  The broker, the room, the       *)
(* worker's container and the operator are external; the worker may restart *)
(* at any moment, and the broker may answer a turn in every way.            *)
(***************************************************************************)
EXTENDS Naturals

CONSTANT MaxRestarts   \* bound on the restarts of the worker

(* The turns, and what the operator and podman are asked before, between    *)
(* and after them.  One probe stands for the five, which are alike.         *)
Turn == {"baseline", "continuation", "alternate", "reset", "probe"}
Opening == <<"room", "maya", "room", "leo", "room", "baseline", "intervene", "before", "restart", "after", "continuation">>

(* What became of a submitted task: no answer of the broker, or no terminal *)
(* state within the polls; a failure; or a reply that is not committed,     *)
(* omits a code, discloses the canary, or is what was asked for.            *)
Answer == {"error", "failed", "bare", "omits", "leaks", "good"}
Result == [answer : Answer, id : {1, 2}, settings : BOOLEAN, began : Nat, ended : Nat]

VARIABLES
  packet,        \* the operator's: is every check before the first contact met,
                 \* are an alternate setting and tool probes in its scope
  step,          \* "verify", "reserve", "run", "poll", "finally", "ended" or "killed"
  done,          \* how much of the plan is done
  fd, file,      \* the descriptor; the file: "none", "empty" or the gate it holds
  gate,          \* evidence.gate
  checks,        \* evidence.checks: [label, code], the failure code known or not
  before,        \* the start time of the container, noted before the restart
  verdict,       \* exit code: "none", "zero" or "nonzero"
  conversation,  \* of the room, at the broker: its number, 0 for none
  starts,        \* starts of the worker's container
  began,         \* starts of the container when the last turn was submitted
  turns,         \* what became of the turns that were answered
  contacted      \* a request has been sent to the broker; for the properties

evidence == <<gate, checks>>
files == <<fd, file>>
broker == <<conversation, turns, began, contacted>>
lvars == <<packet, step, done, files, evidence, before, verdict, starts, broker>>

Init ==
  /\ packet \in [acceptable : BOOLEAN, alternate : BOOLEAN, probes : BOOLEAN]
  /\ step = "verify" /\ done = 0
  /\ fd = "none" /\ file = "none" /\ gate = "none" /\ checks = {}
  /\ before = 0 /\ verdict = "none"
  /\ conversation = 0 /\ starts = 1
  /\ turns = <<>> /\ began = 0 /\ contacted = FALSE

ResetAt == IF packet.alternate THEN 13 ELSE 12
Places == IF packet.probes THEN ResetAt + 1 ELSE ResetAt
plan == [i \in 1 .. Places |-> IF i < 12 THEN Opening[i]
                               ELSE IF i < ResetAt THEN "alternate"
                               ELSE IF i = ResetAt THEN "reset" ELSE "probe"]

Does(what) == step = "run" /\ done < Places /\ plan[done + 1] = what

Proceed == step' = "run" /\ done' = done + 1 /\ UNCHANGED <<gate, verdict>>

(* The catch block, for everything after the reservation. *)
Throw == step' = "finally" /\ gate' = "failed" /\ UNCHANGED <<done, verdict>>

(* An exception before it. *)
Refuse == step' = "ended" /\ verdict' = "nonzero" /\ UNCHANGED <<done, gate>>

-----------------------------------------------------------------------------
(* Approvals, origin, codes, revisions, private paths, tokens of two        *)
(* humans, the image of the container, a terminal.                          *)
Verify ==
  /\ step = "verify"
  /\ IF packet.acceptable THEN step' = "reserve" /\ UNCHANGED <<done, gate, verdict>> ELSE Refuse
  /\ UNCHANGED <<packet, files, checks, before, starts, broker>>

(* Mutant: the file is opened when there is something to save. *)
Reserve_later ==
  /\ step = "reserve" /\ step' = "run" /\ UNCHANGED <<files, done, gate, verdict>>
  /\ UNCHANGED <<packet, checks, before, starts, broker>>

(* Created exclusively; given up if it is not private. *)
Reserve ==
  /\ step = "reserve"
  /\ \/ fd' = "open" /\ file' = "empty" /\ step' = "run" /\ UNCHANGED <<done, gate, verdict>>
     \/ fd' = "closed" /\ file' = "empty" /\ Refuse
     \/ Refuse /\ UNCHANGED files
  /\ UNCHANGED <<packet, checks, before, starts, broker>>

(* conversation(): the room must not have one, or the request fails. *)
Room ==
  /\ Does("room") /\ contacted' = TRUE
  /\ Throw \/ (conversation = 0 /\ Proceed)
  /\ UNCHANGED <<packet, files, checks, before, starts, conversation, turns, began>>

(* rl.question: the operator confirms, without a check, or breaks it off.   *)
(* An operator who closes the input instead has the program killed: nothing *)
(* is left for node to wait for.                                            *)
Prompted ==
  /\ \E what \in {"maya", "leo", "intervene", "restart"} : Does(what)
  /\ Throw \/ Proceed
  /\ UNCHANGED <<packet, files, checks, before, starts, broker>>

(* podman inspect, before the restart and after. *)
Before ==
  /\ Does("before")
  /\ \/ before' = starts /\ Proceed
     \/ Throw /\ UNCHANGED before
  /\ UNCHANGED <<packet, files, checks, starts, broker>>

(* Mutant: any start time will do. *)
Restarted_unchecked == TRUE

Restarted == before # starts

After ==
  /\ Does("after")
  /\ Throw \/ (Restarted /\ Proceed)
  /\ UNCHANGED <<packet, files, checks, before, starts, broker>>

-----------------------------------------------------------------------------
(* submit, and what is made of the turn.                                   *)

Submit ==
  /\ \E t \in Turn : Does(t)
  /\ step' = "poll" /\ contacted' = TRUE /\ began' = starts
  /\ UNCHANGED <<packet, done, files, evidence, before, verdict, starts, conversation, turns>>

Records(t, code) == checks' = checks \cup {[label |-> t, code |-> code]}

(* requireReply. *)
Required(t, now) ==
  IF now.answer = "good" THEN Proceed /\ Records(t, FALSE) ELSE Throw /\ UNCHANGED checks

(* What each turn is checked for; a probe is recorded, however it ended.    *)
Judge(t, now) ==
  CASE now.answer = "error" -> Throw /\ UNCHANGED checks
    [] t = "probe" -> Proceed /\ Records(t, FALSE)
    [] t = "alternate" /\ now.answer = "failed" -> Throw /\ Records(t, TRUE)
    [] \/ t = "continuation" /\ now.id # turns["baseline"].id
       \/ t = "alternate" /\ (now.id # turns["baseline"].id \/ ~now.settings)
       \/ t = "reset" /\ (now.id = turns["baseline"].id \/ ~now.settings) -> Throw /\ UNCHANGED checks
    [] OTHER -> Required(t, now)

(* Mutant: a continuation need not be of the same conversation. *)
Judge_any_conversation(t, now) ==
  CASE now.answer = "error" -> Throw /\ UNCHANGED checks
    [] t = "probe" -> Proceed /\ Records(t, FALSE)
    [] OTHER -> Required(t, now)

(* The broker carries on the conversation it is told to, or another one;    *)
(* a new one is new, or is not.                                             *)
Answered ==
  /\ step = "poll"
  /\ LET t == plan[done + 1] IN
     \E answer \in Answer, id \in {1, 2}, settings \in BOOLEAN :
       LET now == [answer |-> answer, id |-> id, settings |-> settings,
                   began |-> began, ended |-> starts]
       IN  /\ t = "baseline" => id = 1 /\ settings
           /\ turns' = [u \in DOMAIN turns \cup {t} |-> IF u = t THEN now ELSE turns[u]]
           /\ conversation' = id
           /\ Judge(t, now)
  /\ UNCHANGED <<packet, files, before, starts, began, contacted>>

Passed ==
  /\ step = "run" /\ done = Places
  /\ gate' = "passed" /\ step' = "finally"
  /\ UNCHANGED <<packet, done, files, checks, before, verdict, starts, broker>>

(* The evidence is written, if it can be, and the descriptor closed. *)
Finally ==
  /\ step = "finally" /\ fd' = "closed" /\ step' = "ended"
  /\ \/ file' = gate /\ verdict' = IF gate = "passed" THEN "zero" ELSE "nonzero"
     \/ verdict' = "nonzero" /\ UNCHANGED file
  /\ UNCHANGED <<packet, done, evidence, before, starts, broker>>

-----------------------------------------------------------------------------
(* An ordinary message starts Codex, which it should not. *)
RoomStarts ==
  /\ contacted /\ conversation = 0 /\ conversation' = 1
  /\ UNCHANGED <<packet, step, done, files, evidence, before, verdict, starts, turns, began, contacted>>

WorkerRestarts ==
  /\ starts <= MaxRestarts /\ starts' = starts + 1
  /\ UNCHANGED <<packet, step, done, files, evidence, before, verdict, broker>>

(* A signal: there is no handler. *)
Kill ==
  /\ step # "ended" /\ step' = "killed" /\ verdict' = "nonzero"
  /\ UNCHANGED <<packet, done, files, evidence, before, starts, broker>>

Script == Verify \/ Reserve \/ Room \/ Prompted \/ Before \/ After \/ Submit \/ Answered \/ Passed \/ Finally

Next == step \notin {"ended", "killed"} /\ (Script \/ RoomStarts \/ WorkerRestarts \/ Kill)

Spec == Init /\ [][Next]_lvars

-----------------------------------------------------------------------------
TypeOK ==
  /\ step \in {"verify", "reserve", "run", "poll", "finally", "ended", "killed"}
  /\ done \in 0 .. Places /\ DOMAIN turns \subseteq Turn /\ \A t \in DOMAIN turns : turns[t] \in Result
  /\ fd \in {"none", "open", "closed"} /\ file \in {"none", "empty", "passed", "failed"}
  /\ gate \in {"none", "passed", "failed"} /\ verdict \in {"none", "zero", "nonzero"}
  /\ checks \subseteq [label : Turn, code : BOOLEAN]
  /\ conversation \in 0 .. 2 /\ {starts, before, began} \subseteq 0 .. MaxRestarts + 1

(* A gate that is passed was shown what it stands for: committed replies    *)
(* with the codes and without the canary, the worker restarted after the    *)
(* first reply and before the turn that continues its conversation, and a   *)
(* reset that is another one - although the worker restarts when it likes   *)
(* and nobody but the broker knows which conversation a turn belongs to.    *)
PassedMeansShown ==
  gate = "passed" =>
    /\ \A t \in {"baseline", "continuation", "reset"} : turns[t].answer = "good"
    /\ turns["continuation"].id = turns["baseline"].id /\ turns["reset"].id # turns["baseline"].id
    /\ turns["continuation"].began > turns["baseline"].ended
    /\ packet.alternate => turns["alternate"].answer = "good" /\ turns["alternate"].id = turns["baseline"].id

(* "Reserve the validated destination before any broker/provider request":  *)
(* whatever fails after, the run that ends leaves a closed file, with the   *)
(* gate in it unless it could not be written; and only a file that says     *)
(* "passed" lets the script exit with zero.                                 *)
EvidenceKept ==
  /\ contacted => file # "none"
  /\ step = "ended" /\ contacted => fd = "closed" /\ file \in {gate, "empty"}
  /\ verdict = "zero" => file = "passed"

(* "Any failed task records its known safe broker failure code, fails the   *)
(* live gate, and retains partial evidence".                                *)
FailedTasksRecorded ==
  \A t \in DOMAIN turns : turns[t].answer = "failed" /\ gate # "none" =>
    gate = "failed" /\ [label |-> t, code |-> TRUE] \in checks
=============================================================================
