--------------------------- MODULE AgentTaskSmoke ---------------------------
(***************************************************************************)
(* scripts/smoke-agent-gateway.mjs from the moment both humans have joined  *)
(* the room and Bob's hidden message is there.  Alice stops the agent       *)
(* gateway, has a task captured by the script itself, starts the gateway    *)
(* again, and invokes two skills, each of which must yield three progress   *)
(* events, one cited result, and nothing for two seconds after it.  What    *)
(* Alice sees comes through the mailbox of her WebSocketConnection.         *)
(*                                                                         *)
(* The room gateway and the agent gateway are external: they behave as the  *)
(* script expects, or disturb it.  `trouble` records the disturbances.      *)
(***************************************************************************)
EXTENDS Naturals, Sequences

CONSTANT MaxExtra   \* bound on messages beside the lifecycles of the three tasks

ASSUME ExtraAssumption == MaxExtra \in Nat

(* The captured task, then one for each skill; 0 is no task. *)
Task == 1 .. 3
skillId(t) == IF t = 3 THEN "extract-action-items" ELSE "summarize-context"
None == [task |-> 0, type |-> "none"]

(* "uncited" is a success with no citation, one twice, or the hidden one.   *)
Type == {"requested", "accepted", "reading", "preparing", "succeeded", "uncited", "failed"}
Message == [task : Task, type : Type] \cup {[task |-> 0, type |-> "noise"]}

expectedEvents == <<"accepted", "reading", "preparing", "succeeded">>

VARIABLES
  pc,         \* what the script does next
  task,       \* the task it is about
  taskId,     \* the id it read from the requested event; 0 before
  taskEvents, \* the types of the lifecycle events collected
  late,       \* the deadline of receiveUntil or of the observation has passed
  stopped,    \* the finally block has to start the agent gateway again
  outcome,    \* "running", "failed" or "passed"
  messages,   \* Alice's mailbox: buffered messages,
  waiters,    \* the promises that wait for one: "live", or timed out ("stale"),
  hand,       \* and the message a promise was resolved with
  conn,       \* her connection: "open", "closing" after a close frame, "closed"
  status,     \* how far the room has come with each task
  gateway,    \* the container of the agent gateway
  extra,                     \* of the bound, used up
  trouble,                   \* what went wrong outside of the script
  arrived, taken, observed   \* for the properties: messages parsed, messages the script
                             \* took, and how many these were when an observation ended

script == <<pc, task, taskId, taskEvents, late, stopped, outcome, observed>>
mailbox == <<messages, waiters, hand, taken>>
room == <<status, extra>>
vars == <<script, mailbox, conn, room, gateway, trouble, arrived>>

Init ==
  /\ pc = "stop" /\ task = 1 /\ taskId = 0 /\ taskEvents = <<>>
  /\ late = FALSE /\ stopped = FALSE /\ outcome = "running"
  /\ messages = <<>> /\ waiters = <<>> /\ hand = None /\ conn = "open"
  /\ status = [t \in Task |-> "none"] /\ gateway = "running"
  /\ extra = 0 /\ trouble = {}
  /\ arrived = <<>> /\ taken = <<>> /\ observed = [t \in Task |-> 0]

Troubled(cause) == trouble' = trouble \cup {cause}

(* A step of the script that stays in order; each deadline starts anew. *)
Proceed(step) ==
  /\ pc' = step /\ late' = FALSE
  /\ UNCHANGED <<task, taskId, taskEvents, stopped, outcome, observed>>

(* Mutant: an exception skips the rest, the finally block included. *)
Throw_past_finally ==
  /\ pc' = "done" /\ outcome' = "failed"
  /\ UNCHANGED <<task, taskId, taskEvents, late, stopped, observed>>

(* An exception: the finally block of the capture, if it has to, then exit. *)
Throw ==
  /\ pc' = IF stopped THEN "up" ELSE "done"
  /\ outcome' = "failed"
  /\ UNCHANGED <<task, taskId, taskEvents, late, stopped, observed>>

-----------------------------------------------------------------------------
(* WebSocketConnection.                                                    *)

Take(m) == hand' = m /\ taken' = Append(taken, m)

(* The oldest promise is resolved; one that was rejected before swallows it. *)
deliver(m) ==
  IF waiters = <<>>
  THEN messages' = Append(messages, m) /\ UNCHANGED <<waiters, hand, taken>>
  ELSE /\ waiters' = Tail(waiters) /\ UNCHANGED messages
       /\ IF Head(waiters) = "live" THEN Take(m) ELSE UNCHANGED <<hand, taken>>

(* A frame is parsed; nothing arrives after the room's close frame. *)
Arrive(m) ==
  /\ conn = "open"
  /\ arrived' = Append(arrived, m)
  /\ deliver(m)

LiveWaiter == \E i \in DOMAIN waiters : waiters[i] = "live"
Waiting == pc \in {"await", "collect", "observe"} /\ hand = None

(* receiveJson: a buffered message, or a promise with a timer. *)
receiveJson ==
  /\ Waiting /\ ~late /\ ~LiveWaiter
  /\ IF messages # <<>>
     THEN /\ Take(Head(messages)) /\ messages' = Tail(messages)
          /\ UNCHANGED waiters
     ELSE /\ waiters' = Append(waiters, "live")
          /\ UNCHANGED <<messages, hand, taken>>
  /\ UNCHANGED <<script, conn, room, gateway, trouble, arrived>>

(* Mutant: the timer does not find its waiter, as in browser-smoke.mjs. *)
withdraw_not_found == waiters' = [i \in DOMAIN waiters |-> "stale"]

(* The timer removes its waiter, the last one, before it rejects. *)
withdraw == waiters' = SubSeq(waiters, 1, Len(waiters) - 1)

(* The room's close frame, then the end of the connection; or its end alone. *)
(* rejectWaiters reaches who waits now, nobody who will.                     *)
Drop ==
  /\ conn # "closed" /\ conn' \in {"closing", "closed"} \ {conn}
  /\ waiters' = <<>>
  /\ Troubled("connection")
  /\ IF LiveWaiter
     THEN Throw ELSE UNCHANGED script
  /\ UNCHANGED <<messages, hand, taken, room, gateway, arrived>>

-----------------------------------------------------------------------------
(* receiveUntil, invokeSkill and assertNoPostTerminalLifecycle.            *)

Start ==
  /\ pc = "start" /\ pc' = "await" /\ late' = FALSE
  /\ taskId' = 0 /\ taskEvents' = <<>>
  /\ status' = [status EXCEPT ![task] = "sent"]
  /\ UNCHANGED <<task, stopped, outcome, observed, mailbox, conn, extra, gateway, trouble, arrived>>

Ignore == UNCHANGED script

(* Its own request: the captured task, or the skill's. *)
Requested(m) ==
  IF m.type = "requested" /\ skillId(m.task) = skillId(task)
  THEN /\ pc' = IF task = 1 THEN "claim" ELSE "collect"
       /\ taskId' = m.task /\ late' = FALSE
       /\ UNCHANGED <<task, taskEvents, stopped, outcome, observed>>
  ELSE Ignore

Collect(events) ==
  /\ taskEvents' = events /\ late' = FALSE
  /\ UNCHANGED <<task, taskId, stopped, outcome, observed>>

Concerns(m) == m.task = taskId

(* Mutant: a second success is not looked for. *)
Sequence_lenient(events) == {events[i] : i \in DOMAIN events} \subseteq {expectedEvents[i] : i \in DOMAIN expectedEvents}

Sequence(events) == events = expectedEvents

(* Until the first success; then the order and the citations are compared. *)
Collected(m) ==
  LET events == Append(taskEvents, m.type) IN
  IF ~Concerns(m) THEN Ignore
  ELSE CASE m.type \notin {"succeeded", "uncited", "failed"} -> pc' = pc /\ Collect(events)
         [] m.type = "succeeded" /\ Sequence(events) -> pc' = "observe" /\ Collect(events)
         [] OTHER -> Throw

Examine ==
  /\ hand # None /\ hand' = None
  /\ \/ pc = "await" /\ Requested(hand)
     \/ pc = "collect" /\ Collected(hand)
     \/ pc = "observe" /\ IF Concerns(hand) THEN Throw ELSE Ignore
  /\ UNCHANGED <<messages, waiters, taken, conn, room, gateway, trouble, arrived>>

(* The two seconds are over, with nothing wrong seen. *)
Observed ==
  /\ observed' = [observed EXCEPT ![task] = Len(taken)]
  /\ IF task = 3
     THEN pc' = "done" /\ outcome' = "passed" /\ UNCHANGED task
     ELSE pc' = "start" /\ task' = task + 1 /\ UNCHANGED outcome
  /\ UNCHANGED <<taskId, taskEvents, late, stopped>>

GiveUp ==
  IF pc = "observe" THEN Observed /\ UNCHANGED trouble
  ELSE Throw /\ Troubled("slow")

(* The head of a loop whose deadline has passed: what is buffered stays.   *)
Expired ==
  /\ Waiting /\ late /\ ~LiveWaiter
  /\ GiveUp
  /\ UNCHANGED <<mailbox, conn, room, gateway, arrived>>

(* Mutant: only the observation limits its wait. *)
TimedOut_observation ==
  /\ pc = "observe" /\ LiveWaiter
  /\ withdraw /\ GiveUp
  /\ UNCHANGED <<messages, hand, taken, conn, room, gateway, arrived>>

(* The timer of the promise. *)
TimedOut ==
  /\ LiveWaiter
  /\ withdraw /\ GiveUp
  /\ UNCHANGED <<messages, hand, taken, conn, room, gateway, arrived>>

DeadlinePasses ==
  /\ pc \in {"await", "collect", "observe"} /\ ~late /\ late' = TRUE
  /\ UNCHANGED <<pc, task, taskId, taskEvents, stopped, outcome, observed, mailbox, conn, room, gateway, trouble, arrived>>

-----------------------------------------------------------------------------
(* capturePacketWithInternalHarness.                                       *)

(* podman-compose stop; when it fails, nobody knows what it did. *)
Stop ==
  /\ pc = "stop"
  /\ \/ /\ gateway' = "stopped" /\ stopped' = TRUE /\ pc' = "start"
        /\ UNCHANGED <<task, taskId, taskEvents, late, outcome, observed, trouble>>
     \/ gateway' \in {"running", "stopped"} /\ Throw /\ Troubled("command")
  /\ UNCHANGED <<mailbox, conn, room, arrived>>

(* A token, and a task with its packet: the one requested and without the   *)
(* hidden message, or the script fails.                                     *)
Claim ==
  /\ pc = "claim"
  /\ \/ /\ status[taskId] = "requested" /\ status' = [status EXCEPT ![taskId] = "leased"]
        /\ Proceed("update") /\ UNCHANGED trouble
     \/ Throw /\ Troubled("request") /\ UNCHANGED status
  /\ UNCHANGED <<mailbox, conn, extra, gateway, arrived>>

Update ==
  /\ pc = "update"
  /\ \/ /\ status' = [status EXCEPT ![taskId] = "updated"]
        /\ Proceed("up") /\ UNCHANGED trouble
     \/ Throw /\ Troubled("request") /\ UNCHANGED status
  /\ UNCHANGED <<mailbox, conn, extra, gateway, arrived>>

(* The finally block: podman-compose up, whether or not something failed. *)
Up ==
  /\ pc = "up" /\ stopped' = FALSE
  /\ \/ /\ gateway' = "running" /\ UNCHANGED <<outcome, trouble>>
        /\ IF outcome = "failed" THEN pc' = "done" /\ UNCHANGED task
           ELSE pc' = "start" /\ task' = 2
     \/ /\ gateway' \in {"running", "stopped"} /\ Troubled("command")
        /\ outcome' = "failed" /\ pc' = "done" /\ UNCHANGED task
  /\ UNCHANGED <<taskId, taskEvents, late, observed, mailbox, conn, room, arrived>>

Script == Start \/ receiveJson \/ Examine \/ Expired \/ TimedOut \/ Stop \/ Claim \/ Update \/ Up

-----------------------------------------------------------------------------
(* The room gateway, and the agent gateway while it runs.                  *)

Turn == [sent |-> "requested", requested |-> "accepted", accepted |-> "reading",
         reading |-> "preparing", preparing |-> "succeeded", updated |-> "succeeded"]

CanTurn(t) ==
  /\ status[t] \in DOMAIN Turn
  /\ status[t] \notin {"sent", "updated"} => gateway = "running"

(* A task advances, and Alice is told. *)
Advance(t) ==
  /\ CanTurn(t) /\ status' = [status EXCEPT ![t] = Turn[@]]
  /\ Arrive([task |-> t, type |-> Turn[status[t]]])
  /\ UNCHANGED <<script, conn, extra, gateway, trouble>>

(* An event is missing, or comes out of its turn. *)
Fault(t) ==
  /\ extra < MaxExtra /\ extra' = extra + 1 /\ Troubled("event")
  /\ \/ /\ CanTurn(t) /\ status' = [status EXCEPT ![t] = Turn[@]]
        /\ UNCHANGED <<messages, waiters, hand, taken, arrived>>
     \/ /\ status[t] \notin {"none", "sent"} /\ UNCHANGED status
        /\ \E type \in Type : Arrive([task |-> t, type |-> type])
  /\ UNCHANGED <<script, conn, gateway>>

(* What else the room says. *)
Noise ==
  /\ extra < MaxExtra /\ extra' = extra + 1
  /\ Arrive([task |-> 0, type |-> "noise"])
  /\ UNCHANGED <<script, conn, status, gateway, trouble>>

Next ==
  /\ pc # "done"
  /\ \/ Script \/ DeadlinePasses \/ Drop \/ Noise
     \/ \E t \in Task : Advance(t) \/ Fault(t)

(* The script runs, and its timers fire. *)
Spec == Init /\ [][Next]_vars /\ WF_vars(pc # "done" /\ Script)

-----------------------------------------------------------------------------
TypeOK ==
  /\ pc \in {"stop", "start", "await", "claim", "update", "up", "collect", "observe", "done"}
  /\ task \in Task /\ taskId \in Task \cup {0}
  /\ taskEvents \in Seq(Type)
  /\ {late, stopped} \subseteq BOOLEAN
  /\ outcome \in {"running", "failed", "passed"}
  /\ {messages, arrived, taken} \subseteq Seq(Message)
  /\ waiters \in {<<>>, <<"live">>} /\ hand \in Message \cup {None}
  /\ conn \in {"open", "closing", "closed"}
  /\ status \in [Task -> DOMAIN Turn \cup {"none", "leased", "succeeded"}]
  /\ gateway \in {"running", "stopped"}
  /\ extra \in 0 .. MaxExtra
  /\ trouble \subseteq {"connection", "slow", "command", "request", "event"}
  /\ observed \in [Task -> Nat]

(* The mailbox: what the script took, and what is buffered, is what arrived, *)
(* in its order, each message once - whatever timers fired meanwhile.        *)
NothingLost == taken \o messages = arrived

(* The messages at these positions are, in order, of the types in `events`. *)
Spell(read, positions, events) ==
  \E at \in [DOMAIN events -> positions] :
    /\ \A i \in DOMAIN events : read[at[i]].type = events[i]
    /\ \A i, j \in DOMAIN events : i < j => at[i] < at[j]
    /\ \A n \in positions : \E i \in DOMAIN events : at[i] = n

(* While it was busy with task t, the script saw a task for t's skill       *)
(* requested, and from there on these events of that task and no other.     *)
Confirmed(t) ==
  \E r \in observed[t - 1] + 1 .. observed[t] :
    /\ taken[r].type = "requested" /\ skillId(taken[r].task) = skillId(t)
    /\ Spell(taken, {n \in r + 1 .. observed[t] : taken[n].task = taken[r].task}, expectedEvents)

(* "requires the durable sequence of three progress events followed by      *)
(* exactly one cited terminal result for each task ... and rejects any      *)
(* post-terminal lifecycle event": whatever else arrived, and although the  *)
(* captured task's own events are still around, the script passes only      *)
(* tasks it saw begin, advance and end so, with nothing after.  It fails    *)
(* only for a reason outside of itself: its own stop and start of the       *)
(* gateway, the task it took from it and that task's late result in its     *)
(* mailbox are no reason.                                                   *)
VerdictTrue ==
  /\ outcome = "passed" => Confirmed(2) /\ Confirmed(3)
  /\ outcome = "failed" => trouble # {}

(* However the capture ends, the agent gateway runs again, unless compose   *)
(* itself failed.                                                           *)
GatewayRestored == pc = "done" /\ "command" \notin trouble => gateway = "running"
=============================================================================
