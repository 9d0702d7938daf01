----------------------------- MODULE SmokeProofs -----------------------------
(***************************************************************************)
(* Proofs about the two smoke programs and what is between them.  First     *)
(* smoke-agent-gateway.mjs: its mailbox, its finally block, its types, and  *)
(* why its verdict is true.  Then browser-smoke.mjs: the bytes the room     *)
(* gateway writes, the frames they make, and that parseFrames reads these   *)
(* frames.  Last, the types of all of it.                                   *)
(*                                                                          *)
(* Each program has an inductive invariant, TasksInv and BrowserInv, made   *)
(* of named parts; a step of one program is a stutter of the other.         *)
(***************************************************************************)
EXTENDS Smoke, SequenceTheorems, TLAPS

(* Appending to the second part of a concatenation appends to the whole.   *)
LEMMA ConcatAppend ==
  ASSUME NEW S, NEW a \in Seq(S), NEW b \in Seq(S), NEW e \in S
  PROVE  a \o Append(b, e) = Append(a \o b, e)
<1>1. <<e>> \in Seq(S) /\ a \o b \in Seq(S)
  BY ConcatProperties
<1>2. Append(b, e) = b \o <<e>> /\ Append(a \o b, e) = (a \o b) \o <<e>>
  BY <1>1, AppendIsConcat
<1> QED BY <1>1, <1>2, ConcatAssociative

(* A sequence is its head followed by its tail. *)
LEMMA HeadThenTail ==
  ASSUME NEW S, NEW b \in Seq(S), b # <<>>
  PROVE  <<Head(b)>> \o Tail(b) = b
<1>1. Head(b) \in S /\ Tail(b) \in Seq(S) /\ <<Head(b)>> \in Seq(S) /\ Len(b) > 0
  BY HeadTailProperties, EmptySeq
<1>2. Len(<<Head(b)>> \o Tail(b)) = Len(b) /\ <<Head(b)>> \o Tail(b) \in Seq(S)
  BY <1>1, ConcatProperties, HeadTailProperties
<1>3. ASSUME NEW i \in 1 .. Len(b)
      PROVE  (<<Head(b)>> \o Tail(b))[i] = b[i]
  BY <1>1, ConcatProperties, HeadTailProperties
<1> QED BY <1>2, <1>3, SeqEqual

(* Moving the head of the second part to the end of the first. *)
LEMMA MoveHead ==
  ASSUME NEW S, NEW a \in Seq(S), NEW b \in Seq(S), b # <<>>
  PROVE  /\ Head(b) \in S /\ Tail(b) \in Seq(S)
         /\ Append(a, Head(b)) \in Seq(S)
         /\ Append(a, Head(b)) \o Tail(b) = a \o b
<1>1. Head(b) \in S /\ Tail(b) \in Seq(S) /\ <<Head(b)>> \in Seq(S)
  BY HeadTailProperties
<1>2. Append(a, Head(b)) = a \o <<Head(b)>> /\ Append(a, Head(b)) \in Seq(S)
  BY <1>1, AppendIsConcat, AppendProperties
<1> QED BY <1>1, <1>2, ConcatAssociative, HeadThenTail

-----------------------------------------------------------------------------
(* The mailbox.  Nobody waits while a message is buffered; that is why the  *)
(* message a waiter is handed is the next one.                              *)
MailboxInv ==
  /\ messages \in Seq(Message) /\ taken \in Seq(Message) /\ arrived \in Seq(Message)
  /\ waiters \in {<<>>, <<"live">>}
  /\ waiters # <<>> => messages = <<>>
  /\ NothingLost

LEMMA MailboxInitially == Init => MailboxInv
BY ConcatEmptySeq, EmptySeq DEF Init, MailboxInv, NothingLost

(* A message that arrives is handed to who waits, or buffered last. *)
LEMMA Delivery ==
  ASSUME MailboxInv, NEW m \in Message, Arrive(m)
  PROVE  MailboxInv'
<1>1. arrived' = Append(arrived, m) /\ arrived' \in Seq(Message)
  BY AppendProperties DEF MailboxInv, Arrive
<1>2. CASE waiters = <<>>
  <2>1. messages' = Append(messages, m) /\ UNCHANGED <<waiters, taken>>
    BY <1>2 DEF Arrive, deliver
  <2>2. messages' \in Seq(Message)
    BY <2>1, AppendProperties DEF MailboxInv
  <2>3. taken' \o messages' = arrived'
    BY <1>1, <2>1, ConcatAppend DEF MailboxInv, NothingLost
  <2> QED BY <1>1, <1>2, <2>1, <2>2, <2>3 DEF MailboxInv, NothingLost
<1>3. CASE waiters = <<"live">>
  <2>1. waiters # <<>> /\ Head(waiters) = "live" /\ Tail(waiters) = <<>>
    BY <1>3
  <2>2. messages = <<>> /\ messages' = <<>> /\ waiters' = <<>> /\ taken' = Append(taken, m)
    BY <2>1 DEF MailboxInv, Arrive, deliver, Take
  <2>3. arrived = taken /\ taken' \in Seq(Message)
    BY <2>2, ConcatEmptySeq, AppendProperties DEF MailboxInv, NothingLost
  <2>4. taken' \o messages' = arrived'
    BY <1>1, <2>2, <2>3, ConcatEmptySeq
  <2> QED BY <1>1, <2>2, <2>3, <2>4 DEF MailboxInv, NothingLost
<1> QED BY <1>2, <1>3 DEF MailboxInv

(* What the room sends is a message. *)
LEMMA TurnsAreMessages ==
  /\ \A t \in Task, type \in Type : [task |-> t, type |-> type] \in Message
  /\ \A s \in DOMAIN Turn : Turn[s] \in Type
  /\ [task |-> 0, type |-> "noise"] \in Message
<1>1. \A s \in DOMAIN Turn : Turn[s] \in Type
  BY DEF Turn, Type
<1>2. \A t \in Task, type \in Type : [task |-> t, type |-> type] \in Message
  BY DEF Message
<1>3. [task |-> 0, type |-> "noise"] \in Message
  BY DEF Message
<1> QED BY <1>1, <1>2, <1>3

(* The head of the mailbox is taken, or a promise queues for the next. *)
LEMMA Reception ==
  ASSUME MailboxInv, receiveJson
  PROVE  MailboxInv'
<1>1. waiters = <<>>
  <2>1. ASSUME waiters = <<"live">> PROVE FALSE
    <3>1. 1 \in DOMAIN waiters /\ waiters[1] = "live"
      BY <2>1
    <3> QED BY <3>1 DEF receiveJson, LiveWaiter
  <2> QED BY <2>1 DEF MailboxInv
<1>2. CASE messages # <<>>
  <2>1. /\ taken' = Append(taken, Head(messages)) /\ messages' = Tail(messages)
        /\ UNCHANGED <<waiters, arrived>>
    BY <1>2 DEF receiveJson, Take
  <2>2. messages \in Seq(Message) /\ taken \in Seq(Message) /\ taken \o messages = arrived
    BY DEF MailboxInv, NothingLost
  <2>3. messages' \in Seq(Message) /\ taken' \in Seq(Message) /\ taken' \o messages' = taken \o messages
    <3>1. /\ Tail(messages) \in Seq(Message) /\ Append(taken, Head(messages)) \in Seq(Message)
          /\ Append(taken, Head(messages)) \o Tail(messages) = taken \o messages
      BY <1>2, <2>2, MoveHead, Zenon
    <3> QED BY <2>1, <3>1
  <2>4. NothingLost'
    BY <2>1, <2>2, <2>3 DEF NothingLost
  <2> QED BY <1>1, <2>1, <2>3, <2>4 DEF MailboxInv
<1>3. CASE messages = <<>>
  <2>1. waiters' = <<"live">> /\ UNCHANGED <<messages, taken, arrived>>
    BY <1>1, <1>3 DEF receiveJson
  <2> QED BY <1>3, <2>1 DEF MailboxInv, NothingLost
<1> QED BY <1>2, <1>3

(* A timer empties the list of waiters. *)
LEMMA Withdrawal ==
  ASSUME MailboxInv, TimedOut
  PROVE  MailboxInv'
<1>1. waiters = <<"live">>
  <2>1. ASSUME waiters = <<>> PROVE FALSE
    BY <2>1 DEF TimedOut, LiveWaiter
  <2> QED BY <2>1 DEF MailboxInv
<1>2. waiters' = <<>>
  <2>1. waiters' = SubSeq(waiters, 1, Len(waiters) - 1)
    BY DEF TimedOut, withdraw
  <2> QED BY <1>1, <2>1
<1> QED BY <1>2 DEF MailboxInv, NothingLost, TimedOut

LEMMA MailboxStep == MailboxInv /\ [Next]_vars => MailboxInv'
<1> SUFFICES ASSUME MailboxInv, [Next]_vars PROVE MailboxInv'
  OBVIOUS
<1>1. CASE Script
  <2>1. CASE Start
    BY <2>1 DEF Start, MailboxInv, NothingLost, mailbox
  <2>2. CASE Examine
    BY <2>2 DEF Examine, MailboxInv, NothingLost
  <2>3. CASE Expired
    BY <2>3 DEF Expired, MailboxInv, NothingLost, mailbox
  <2>4. CASE Stop
    BY <2>4 DEF Stop, MailboxInv, NothingLost, mailbox
  <2>5. CASE Claim
    BY <2>5 DEF Claim, MailboxInv, NothingLost, mailbox
  <2>6. CASE Update
    BY <2>6 DEF Update, MailboxInv, NothingLost, mailbox
  <2>7. CASE Up
    BY <2>7 DEF Up, MailboxInv, NothingLost, mailbox
  <2> QED BY <1>1, <2>1, <2>2, <2>3, <2>4, <2>5, <2>6, <2>7, Reception, Withdrawal DEF Script
<1>2. CASE DeadlinePasses
  BY <1>2 DEF DeadlinePasses, MailboxInv, NothingLost, mailbox
<1>3. CASE Drop
  BY <1>3 DEF Drop, MailboxInv, NothingLost
<1>4. CASE Noise
  BY <1>4, Delivery, TurnsAreMessages DEF Noise
<1>5. ASSUME NEW t \in Task, Advance(t) PROVE MailboxInv'
  BY <1>5, Delivery, TurnsAreMessages DEF Advance, CanTurn
<1>6. ASSUME NEW t \in Task, Fault(t) PROVE MailboxInv'
  <2>1. CASE \E type \in Type : Arrive([task |-> t, type |-> type])
    BY <2>1, Delivery, TurnsAreMessages
  <2>2. CASE UNCHANGED <<messages, waiters, hand, taken, arrived>>
    BY <2>2 DEF MailboxInv, NothingLost
  <2> QED BY <1>6, <2>1, <2>2 DEF Fault
<1>7. CASE UNCHANGED vars
  BY <1>7 DEF vars, mailbox, MailboxInv, NothingLost
<1> QED BY <1>1, <1>2, <1>3, <1>4, <1>5, <1>6, <1>7 DEF Next

-----------------------------------------------------------------------------
(* The finally block.  While it has something to undo, the script is in the *)
(* capture, and no way out of it leads anywhere but there.                  *)
FinallyInv ==
  /\ stopped \in BOOLEAN
  /\ pc = "stop" => ~stopped
  /\ pc \in {"stop", "claim", "update", "up"} => task = 1
  /\ pc \in {"collect", "observe"} => task # 1
  /\ stopped => task = 1 /\ pc \in {"start", "await", "claim", "update", "up"}
  /\ gateway # "running" /\ "command" \notin trouble => stopped

LEMMA FinallyInitially == Init => FinallyInv
BY DEF Init, FinallyInv

(* An exception leaves what has to be undone to the finally block. *)
LEMMA Throwing ==
  ASSUME FinallyInv, Throw, UNCHANGED gateway, trouble \subseteq trouble'
  PROVE  FinallyInv'
BY DEF FinallyInv, Throw

LEMMA FinallyStep == FinallyInv /\ [Next]_vars => FinallyInv'
<1> SUFFICES ASSUME FinallyInv, [Next]_vars PROVE FinallyInv'
  OBVIOUS
<1>0. ASSUME NEW cause, Troubled(cause) PROVE trouble \subseteq trouble'
  BY <1>0 DEF Troubled
<1>1. ASSUME Ignore, UNCHANGED <<gateway, trouble>> PROVE FinallyInv'
  BY <1>1 DEF Ignore, script, FinallyInv
<1>2. ASSUME GiveUp, Waiting, UNCHANGED gateway PROVE FinallyInv'
  <2>1. CASE pc = "observe"
    BY <1>2, <2>1 DEF GiveUp, Observed, FinallyInv
  <2> QED BY <1>0, <1>2, <2>1, Throwing DEF GiveUp
<1>3. CASE Start
  BY <1>3 DEF Start, FinallyInv
<1>4. CASE receiveJson
  BY <1>1, <1>4 DEF receiveJson, Ignore
<1>5. CASE Examine
  <2>1. UNCHANGED <<gateway, trouble>>
    BY <1>5 DEF Examine
  <2>2. ASSUME pc = "await", Requested(hand) PROVE FinallyInv'
    BY <1>1, <2>1, <2>2 DEF Requested, FinallyInv
  <2>3. ASSUME pc = "collect", Collected(hand) PROVE FinallyInv'
    <3>1. CASE Ignore
      BY <1>1, <2>1, <3>1
    <3>2. CASE Throw
      BY <2>1, <3>2, Throwing
    <3>3. ASSUME NEW events, Collect(events), pc' \in {"collect", "observe"} PROVE FinallyInv'
      BY <2>1, <2>3, <3>3 DEF Collect, FinallyInv
    <3> QED BY <2>3, <3>1, <3>2, <3>3 DEF Collected
  <2>4. ASSUME pc = "observe", Throw \/ Ignore PROVE FinallyInv'
    BY <1>1, <2>1, <2>4, Throwing
  <2> QED BY <1>5, <2>2, <2>3, <2>4 DEF Examine
<1>6. CASE Expired \/ TimedOut
  <2>1. CASE Expired
    BY <1>2, <2>1 DEF Expired, room
  <2>2. CASE TimedOut
    <3>1. GiveUp /\ UNCHANGED gateway
      BY <2>2 DEF TimedOut
    <3>2. CASE pc = "observe"
      BY <3>1, <3>2 DEF GiveUp, Observed, FinallyInv
    <3> QED BY <1>0, <3>1, <3>2, Throwing DEF GiveUp
  <2> QED BY <1>6, <2>1, <2>2
<1>7. CASE Stop
  <2>1. ~stopped
    BY <1>7 DEF Stop, FinallyInv
  <2>2. CASE gateway' = "stopped" /\ stopped' = TRUE /\ pc' = "start" /\ UNCHANGED task
    BY <1>7, <2>2 DEF Stop, FinallyInv
  <2>3. CASE Throw /\ Troubled("command")
    BY <2>1, <2>3 DEF Throw, Troubled, FinallyInv
  <2> QED BY <1>7, <2>2, <2>3 DEF Stop
<1>8. CASE Claim
  BY <1>0, <1>8, Throwing DEF Claim, Proceed, FinallyInv
<1>9. CASE Update
  BY <1>0, <1>9, Throwing DEF Update, Proceed, FinallyInv
<1>10. CASE Up
  BY <1>10 DEF Up, FinallyInv, Troubled
<1>11. CASE DeadlinePasses
  BY <1>11 DEF DeadlinePasses, FinallyInv
<1>12. CASE Drop
  <2>1. UNCHANGED gateway /\ trouble \subseteq trouble'
    BY <1>0, <1>12 DEF Drop
  <2>2. CASE Throw
    BY <2>1, <2>2, Throwing
  <2>3. CASE UNCHANGED script
    BY <2>1, <2>3 DEF script, FinallyInv
  <2> QED BY <1>12, <2>2, <2>3 DEF Drop
<1>13. CASE Noise
  BY <1>1, <1>13 DEF Noise, Ignore
<1>14. ASSUME NEW t \in Task, Advance(t) \/ Fault(t) PROVE FinallyInv'
  <2>1. UNCHANGED <<script, gateway>> /\ trouble \subseteq trouble'
    BY <1>0, <1>14 DEF Advance, Fault
  <2> QED BY <2>1 DEF script, FinallyInv
<1>15. CASE UNCHANGED vars
  BY <1>15 DEF vars, script, FinallyInv
<1> QED BY <1>3, <1>4, <1>5, <1>6, <1>7, <1>8, <1>9, <1>10, <1>11, <1>12, <1>13, <1>14, <1>15 DEF Next, Script

-----------------------------------------------------------------------------
(* Types, one part of TypeOK after the other.                               *)
StepTyped ==
  /\ pc \in {"stop", "start", "await", "claim", "update", "up", "collect", "observe", "done"}
  /\ outcome \in {"running", "failed", "passed"}
  /\ conn \in {"open", "closing", "closed"}
  /\ gateway \in {"running", "stopped"}
  /\ trouble \subseteq {"connection", "slow", "command", "request", "event"}

TaskTyped ==
  /\ task \in Task /\ taskId \in Task \cup {0}
  /\ status \in [Task -> DOMAIN Turn \cup {"none", "leased", "succeeded"}]
  /\ taskEvents \in Seq(Type)
  /\ hand \in Message \cup {None}
  /\ extra \in 0 .. MaxExtra
  /\ observed \in [Task -> Nat]

FlagsTyped == {late, stopped} \subseteq BOOLEAN

LEMMA Parts == TypeOK <=> StepTyped /\ TaskTyped /\ FlagsTyped /\ {messages, arrived, taken} \subseteq Seq(Message) /\ waiters \in {<<>>, <<"live">>}
BY DEF TypeOK, StepTyped, TaskTyped, FlagsTyped

LEMMA StepTypedStep == StepTyped /\ [Next]_vars => StepTyped'
<1> SUFFICES ASSUME StepTyped, [Next]_vars PROVE StepTyped'
  OBVIOUS
<1>1. ASSUME Script PROVE StepTyped'
  BY <1>1 DEF StepTyped, Script, Start, receiveJson, Examine, Expired, TimedOut, Stop, Claim, Update, Up, script, mailbox, room,
              Ignore, Requested, Collected, Collect, Throw, GiveUp, Observed, Troubled, Proceed
<1> QED BY <1>1 DEF Next, vars, script, mailbox, room, StepTyped, DeadlinePasses, Drop, Noise, Advance, Fault, Troubled, Throw

LEMMA FlagsTypedStep == FlagsTyped /\ [Next]_vars => FlagsTyped'
<1> SUFFICES ASSUME FlagsTyped, [Next]_vars PROVE FlagsTyped'
  OBVIOUS
<1>1. ASSUME Script PROVE FlagsTyped'
  BY <1>1 DEF FlagsTyped, Script, Start, receiveJson, Examine, Expired, TimedOut, Stop, Claim, Update, Up, script, mailbox, room,
              Ignore, Requested, Collected, Collect, Throw, GiveUp, Observed, Troubled, Proceed
<1> QED BY <1>1 DEF Next, vars, script, mailbox, room, FlagsTyped, DeadlinePasses, Drop, Noise, Advance, Fault, Troubled, Throw

LEMMA TurnsAreStates ==
  /\ DOMAIN Turn = {"sent", "requested", "accepted", "reading", "preparing", "updated"}
  /\ \A s \in DOMAIN Turn : Turn[s] \in DOMAIN Turn \cup {"none", "leased", "succeeded"}
BY DEF Turn

(* A task is at hand whenever its id is used. *)
TaskNamed == pc \in {"claim", "update", "collect", "observe"} => taskId \in Task

LEMMA TaskTypedStep == TaskTyped /\ TaskNamed /\ MailboxInv /\ [Next]_vars => TaskTyped' /\ TaskNamed'
<1> SUFFICES ASSUME TaskTyped, TaskNamed, MailboxInv, [Next]_vars PROVE TaskTyped' /\ TaskNamed'
  OBVIOUS
<1> USE ExtraAssumption
<1>1. \A m \in Message \cup {None} : m.type = "requested" => m.task \in Task
  BY DEF Message, None, Task
<1>2. \A m \in Message \cup {None} : m.task \in Task => m.type \in Type
  BY DEF Message, None, Task
<1>3. ASSUME NEW m \in Message, Arrive(m) PROVE hand' \in Message \cup {None}
  BY <1>3 DEF Arrive, deliver, Take, TaskTyped
<1>4. ASSUME NEW t \in Task, NEW s \in DOMAIN Turn \cup {"none", "leased", "succeeded"}
      PROVE  [status EXCEPT ![t] = s] \in [Task -> DOMAIN Turn \cup {"none", "leased", "succeeded"}]
  BY <1>4 DEF TaskTyped
<1>5. ASSUME Throw, hand' \in {hand, None}, UNCHANGED <<status, extra>> PROVE TaskTyped' /\ TaskNamed'
  BY <1>5 DEF TaskTyped, TaskNamed, Throw
<1>6. CASE Start
  <2>1. status' \in [Task -> DOMAIN Turn \cup {"none", "leased", "succeeded"}]
    BY <1>6, <1>4, TurnsAreStates DEF Start, TaskTyped
  <2>2. taskEvents' \in Seq(Type)
    BY <1>6, EmptySeq DEF Start
  <2> QED BY <1>6, <2>1, <2>2 DEF Start, TaskTyped, TaskNamed, mailbox
<1>7. CASE receiveJson
  <2>1. messages # <<>> => Head(messages) \in Message
    BY HeadTailProperties DEF MailboxInv
  <2> QED BY <1>7, <2>1 DEF receiveJson, Take, TaskTyped, TaskNamed, script, room
<1>8. CASE Examine
  <2>1. hand' = None /\ UNCHANGED <<status, extra>> /\ hand \in Message
    BY <1>8 DEF Examine, room, TaskTyped
  <2>2. CASE UNCHANGED script
    BY <2>1, <2>2 DEF TaskTyped, TaskNamed, script
  <2>3. ASSUME Requested(hand), ~UNCHANGED script PROVE TaskTyped' /\ TaskNamed'
    <3>1. hand.task \in Task /\ UNCHANGED <<task, taskEvents, observed>> /\ taskId' = hand.task
      BY <1>1, <2>1, <2>3 DEF Requested, Ignore
    <3> QED BY <2>1, <3>1 DEF TaskTyped, TaskNamed
  <2>4. ASSUME Collected(hand), ~UNCHANGED script, pc = "collect" PROVE TaskTyped' /\ TaskNamed'
    <3>1. hand.type \in Type
      BY <1>2, <2>1, <2>4 DEF Collected, Concerns, Ignore, TaskNamed
    <3>2. Append(taskEvents, hand.type) \in Seq(Type)
      BY <3>1, AppendProperties DEF TaskTyped
    <3>3. CASE Throw
      BY <1>5, <2>1, <3>3
    <3>4. CASE ~Throw
      <4>1. taskEvents' = Append(taskEvents, hand.type) /\ UNCHANGED <<task, taskId, observed>>
        BY <2>4, <3>4 DEF Collected, Ignore, Collect
      <4>2. pc' \in {"collect", "observe"}
        BY <2>4, <3>4 DEF Collected, Ignore
      <4> QED BY <2>1, <2>4, <3>2, <4>1 DEF TaskTyped, TaskNamed
    <3> QED BY <3>3, <3>4
  <2> QED BY <1>5, <1>8, <2>1, <2>2, <2>3, <2>4 DEF Examine, Ignore
<1>9. ASSUME GiveUp, UNCHANGED <<status, hand, extra, taken>> PROVE TaskTyped' /\ TaskNamed'
  <2>1. CASE pc = "observe"
    <3>1. Len(taken) \in Nat
      BY LenProperties DEF MailboxInv
    <3>2. Observed
      BY <1>9, <2>1 DEF GiveUp
    <3>3. observed' \in [Task -> Nat]
      BY <3>1, <3>2 DEF Observed, TaskTyped
    <3>4. task' \in Task /\ pc' \in {"done", "start"} /\ UNCHANGED <<taskId, taskEvents>>
      BY <3>2 DEF Observed, TaskTyped, Task
    <3> QED BY <1>9, <3>3, <3>4 DEF TaskTyped, TaskNamed
  <2> QED BY <1>5, <1>9, <2>1 DEF GiveUp
<1>10. CASE Expired \/ TimedOut
  BY <1>9, <1>10 DEF Expired, TimedOut, mailbox, room
<1>11. CASE Stop
  BY <1>5, <1>11 DEF Stop, TaskTyped, TaskNamed, mailbox, room
<1>12. ASSUME NEW step, Proceed(step), NEW s \in DOMAIN Turn \cup {"none", "leased", "succeeded"}, taskId \in Task,
              status' = [status EXCEPT ![taskId] = s], UNCHANGED <<hand, extra>>
       PROVE  TaskTyped' /\ TaskNamed'
  BY <1>4, <1>12 DEF Proceed, TaskTyped, TaskNamed
<1>13. CASE Claim
  BY <1>5, <1>12, <1>13 DEF Claim, TaskNamed, mailbox
<1>14. CASE Update
  BY <1>5, <1>12, <1>14, TurnsAreStates DEF Update, TaskNamed, mailbox
<1>15. CASE Up
  BY <1>15 DEF Up, TaskTyped, TaskNamed, Task, mailbox, room
<1>16. CASE DeadlinePasses
  BY <1>16 DEF DeadlinePasses, TaskTyped, TaskNamed, mailbox, room
<1>17. CASE Drop
  BY <1>5, <1>17 DEF Drop, TaskTyped, TaskNamed, script, room
<1>18. ASSUME UNCHANGED script, hand' \in Message \cup {None}, extra' \in 0 .. MaxExtra,
              status' \in [Task -> DOMAIN Turn \cup {"none", "leased", "succeeded"}]
       PROVE  TaskTyped' /\ TaskNamed'
  BY <1>18 DEF TaskTyped, TaskNamed, script
<1>19. extra < MaxExtra => extra + 1 \in 0 .. MaxExtra
  BY DEF TaskTyped
<1>20. CASE Noise
  BY <1>3, <1>18, <1>19, <1>20, TurnsAreMessages DEF Noise, TaskTyped
<1>21. ASSUME NEW t \in Task, CanTurn(t), status' = [status EXCEPT ![t] = Turn[@]]
       PROVE  status' \in [Task -> DOMAIN Turn \cup {"none", "leased", "succeeded"}]
  BY <1>4, <1>21, TurnsAreStates DEF CanTurn, TaskTyped
<1>22. ASSUME NEW t \in Task, Advance(t) PROVE TaskTyped' /\ TaskNamed'
  <2>1. hand' \in Message \cup {None}
    BY <1>3, <1>22, TurnsAreMessages DEF Advance, CanTurn
  <2> QED BY <1>18, <1>21, <1>22, <2>1 DEF Advance, TaskTyped
<1>23. ASSUME NEW t \in Task, Fault(t) PROVE TaskTyped' /\ TaskNamed'
  <2>1. UNCHANGED script /\ extra' \in 0 .. MaxExtra
    BY <1>19, <1>23 DEF Fault
  <2>2. CASE CanTurn(t) /\ status' = [status EXCEPT ![t] = Turn[@]] /\ UNCHANGED hand
    BY <1>18, <1>21, <2>1, <2>2 DEF TaskTyped
  <2>3. ASSUME UNCHANGED status, NEW type \in Type, Arrive([task |-> t, type |-> type]) PROVE TaskTyped' /\ TaskNamed'
    BY <1>3, <1>18, <2>1, <2>3, TurnsAreMessages DEF TaskTyped
  <2> QED BY <1>23, <2>2, <2>3 DEF Fault
<1>24. CASE UNCHANGED vars
  BY <1>24 DEF vars, mailbox, room, script, TaskTyped, TaskNamed
<1> QED BY <1>6, <1>7, <1>8, <1>10, <1>11, <1>13, <1>14, <1>15, <1>16, <1>17, <1>20, <1>22, <1>23, <1>24 DEF Next, Script

-----------------------------------------------------------------------------
(* What a step does to the script and to the messages it has.               *)
HandInv ==
  /\ hand # None => taken # <<>> /\ hand = taken[Len(taken)]
  /\ hand # None \/ waiters # <<>> => pc \in {"await", "collect", "observe"}
  /\ waiters # <<>> => hand = None

steps == <<pc, task, taskId, taskEvents, outcome, observed>>

Idle == UNCHANGED <<steps, taken, hand>>

Taking ==
  /\ hand = None /\ hand' \in Message /\ taken' = Append(taken, hand')
  /\ pc \in {"await", "collect", "observe"} /\ UNCHANGED steps

Failing ==
  /\ pc' \in {"up", "done"} /\ outcome' = "failed" /\ trouble' # {}
  /\ hand = None /\ UNCHANGED <<task, taskId, taskEvents, observed, taken, hand>>

Finishing == Observed /\ pc = "observe" /\ hand = None /\ UNCHANGED <<taken, hand>>

Moving ==
  /\ pc \in {"stop", "start", "claim", "update", "up"} /\ pc' \in {"start", "await", "update", "up", "done"}
  /\ pc' = "await" => pc = "start" /\ UNCHANGED task
  /\ pc' = "start" => pc = "stop" \/ task' # task
  /\ pc' = "update" => pc = "claim" /\ UNCHANGED taskId
  /\ pc' = "up" => pc = "update"
  /\ task' = task \/ (pc = "up" /\ task = 1 /\ task' = 2)
  /\ hand = None /\ UNCHANGED <<taken, hand, outcome, observed>>

(* A message that arrives while nobody waits is not in the script's hands.  *)
LEMMA DeliveryKinds ==
  ASSUME MailboxInv, HandInv, NEW m \in Message, Arrive(m), UNCHANGED script
  PROVE  (Idle /\ waiters' = waiters) \/ (Taking /\ waiters' = <<>>)
<1>1. CASE waiters = <<>>
  BY <1>1 DEF Arrive, deliver, Idle, steps, script
<1>2. CASE waiters = <<"live">>
  <2>1. waiters # <<>> /\ Head(waiters) = "live" /\ Tail(waiters) = <<>>
    BY <1>2
  <2>2. hand' = m /\ taken' = Append(taken, m) /\ hand = None /\ waiters' = <<>>
    BY <2>1 DEF Arrive, deliver, Take, HandInv
  <2> QED BY <2>1, <2>2 DEF HandInv, Taking, steps, script
<1> QED BY <1>1, <1>2 DEF MailboxInv

LEMMA Kinds ==
  ASSUME MailboxInv, HandInv, FinallyInv, TaskTyped, [Next]_vars
  PROVE  Idle \/ Taking \/ Examine \/ Failing \/ Finishing \/ Moving
<1>0. ASSUME NEW cause, Troubled(cause) PROVE trouble' # {}
  BY <1>0 DEF Troubled
<1>1. ASSUME Throw, trouble' # {}, hand = None, UNCHANGED <<taken, hand>> PROVE Failing
  BY <1>1 DEF Throw, Failing
<1>2. pc \notin {"await", "collect", "observe"} => hand = None
  BY DEF HandInv
<1>3. waiters = <<>> \/ waiters = <<"live">>
  BY DEF MailboxInv
<1>4. LiveWaiter => hand = None /\ pc \in {"await", "collect", "observe"}
  BY <1>3 DEF LiveWaiter, HandInv
<1>5. CASE Start
  BY <1>2, <1>5 DEF Start, Moving, mailbox
<1>6. CASE receiveJson
  <2>1. messages # <<>> => Head(messages) \in Message
    BY HeadTailProperties DEF MailboxInv
  <2> QED BY <1>6, <2>1 DEF receiveJson, Take, Waiting, Taking, Idle, steps, script
<1>7. CASE Expired \/ TimedOut
  <2>1. GiveUp /\ UNCHANGED <<taken, hand>> /\ hand = None
    BY <1>4, <1>7 DEF Expired, TimedOut, Waiting, mailbox
  <2>2. CASE pc = "observe"
    BY <2>1, <2>2 DEF GiveUp, Finishing
  <2>3. CASE pc # "observe"
    BY <1>0, <1>1, <2>1, <2>3 DEF GiveUp
  <2> QED BY <2>2, <2>3
<1>8. CASE Stop
  BY <1>0, <1>1, <1>2, <1>8 DEF Stop, Moving, mailbox
<1>9. CASE Claim
  BY <1>0, <1>1, <1>2, <1>9 DEF Claim, Proceed, Moving, mailbox
<1>10. CASE Update
  BY <1>0, <1>1, <1>2, <1>10 DEF Update, Proceed, Moving, mailbox
<1>11. CASE Up
  <2>1. hand = None /\ UNCHANGED <<taken, hand, observed, taskId, taskEvents>> /\ task = 1
    BY <1>2, <1>11 DEF Up, FinallyInv, mailbox
  <2>2. CASE Troubled("command") /\ outcome' = "failed" /\ pc' = "done" /\ UNCHANGED task
    BY <1>0, <2>1, <2>2 DEF Failing
  <2>3. CASE UNCHANGED outcome /\ pc' \in {"done", "start"} /\ task' \in {task, 2}
    BY <1>11, <2>1, <2>3 DEF Up, Moving
  <2> QED BY <1>11, <2>2, <2>3 DEF Up
<1>12. CASE DeadlinePasses
  BY <1>12 DEF DeadlinePasses, Idle, steps, mailbox
<1>13. CASE Drop
  <2>1. CASE LiveWaiter
    BY <1>0, <1>1, <1>4, <1>13, <2>1 DEF Drop
  <2>2. CASE ~LiveWaiter
    BY <1>13, <2>2 DEF Drop, Idle, steps, script
  <2> QED BY <2>1, <2>2
<1>14. CASE Noise
  BY <1>14, DeliveryKinds, TurnsAreMessages DEF Noise
<1>15. ASSUME NEW t \in Task, Advance(t) PROVE Idle \/ Taking
  BY <1>15, DeliveryKinds, TurnsAreMessages DEF Advance, CanTurn
<1>16. ASSUME NEW t \in Task, Fault(t) PROVE Idle \/ Taking
  <2>1. ASSUME NEW type \in Type, Arrive([task |-> t, type |-> type]) PROVE Idle \/ Taking
    BY <1>16, <2>1, DeliveryKinds, TurnsAreMessages DEF Fault
  <2>2. CASE UNCHANGED <<messages, waiters, hand, taken, arrived>>
    BY <1>16, <2>2 DEF Fault, Idle, steps, script
  <2> QED BY <1>16, <2>1, <2>2 DEF Fault
<1>17. CASE UNCHANGED vars
  BY <1>17 DEF vars, mailbox, script, Idle, steps
<1> QED BY <1>5, <1>6, <1>7, <1>8, <1>9, <1>10, <1>11, <1>12, <1>13, <1>14, <1>15, <1>16, <1>17 DEF Next, Script

LEMMA HandInitially == Init => HandInv
BY DEF Init, HandInv

(* A promise waits only while the script does. *)
LEMMA WaiterKinds ==
  ASSUME MailboxInv, HandInv, [Next]_vars
  PROVE  waiters' = <<>> \/ (Idle /\ (waiters' = waiters \/ Waiting))
<1>1. waiters = <<>> \/ waiters = <<"live">>
  BY DEF MailboxInv
<1>2. ~LiveWaiter => waiters = <<>>
  <2>1. ASSUME waiters = <<"live">> PROVE LiveWaiter
    <3>1. 1 \in DOMAIN waiters /\ waiters[1] = "live"
      BY <2>1
    <3> QED BY <3>1 DEF LiveWaiter
  <2> QED BY <1>1, <2>1
<1>3. CASE Start \/ Stop \/ Claim \/ Update \/ Up \/ Expired
  BY <1>2, <1>3 DEF Start, Stop, Claim, Update, Up, Expired, HandInv, mailbox
<1>4. CASE Examine
  BY <1>4 DEF Examine, HandInv
<1>5. CASE receiveJson
  BY <1>2, <1>5 DEF receiveJson, Take, Idle, steps, script
<1>6. CASE TimedOut
  <2>1. waiters = <<"live">> /\ waiters' = SubSeq(waiters, 1, Len(waiters) - 1)
    BY <1>1, <1>6 DEF TimedOut, withdraw, LiveWaiter
  <2> QED BY <2>1
<1>7. CASE DeadlinePasses \/ UNCHANGED vars
  BY <1>7 DEF DeadlinePasses, Idle, steps, vars, mailbox, script
<1>8. CASE Drop
  BY <1>8 DEF Drop
<1>9. CASE Noise
  BY <1>9, DeliveryKinds, TurnsAreMessages DEF Noise
<1>10. ASSUME NEW t \in Task, Advance(t) PROVE waiters' = <<>> \/ (Idle /\ waiters' = waiters)
  BY <1>10, DeliveryKinds, TurnsAreMessages DEF Advance, CanTurn
<1>11. ASSUME NEW t \in Task, Fault(t) PROVE waiters' = <<>> \/ (Idle /\ waiters' = waiters)
  <2>1. ASSUME NEW type \in Type, Arrive([task |-> t, type |-> type]) PROVE waiters' = <<>> \/ (Idle /\ waiters' = waiters)
    BY <1>11, <2>1, DeliveryKinds, TurnsAreMessages DEF Fault
  <2>2. CASE UNCHANGED <<messages, waiters, hand, taken, arrived>>
    BY <1>11, <2>2 DEF Fault, Idle, steps, script
  <2> QED BY <1>11, <2>1, <2>2 DEF Fault
<1> QED BY <1>3, <1>4, <1>5, <1>6, <1>7, <1>8, <1>9, <1>10, <1>11 DEF Next, Script

LEMMA HandStep == MailboxInv /\ HandInv /\ FinallyInv /\ TaskTyped /\ [Next]_vars => HandInv'
<1> SUFFICES ASSUME MailboxInv, HandInv, FinallyInv, TaskTyped, [Next]_vars PROVE HandInv'
  OBVIOUS
<1>1. waiters' = <<>> \/ (Idle /\ (waiters' = waiters \/ Waiting))
  BY WaiterKinds
<1>2. CASE Idle
  BY <1>1, <1>2 DEF Idle, HandInv, steps, Waiting
<1>3. CASE Taking
  <2>1. taken' # <<>> /\ hand' = taken'[Len(taken')]
    BY <1>3, AppendProperties DEF Taking, MailboxInv
  <2>2. waiters' = <<>> /\ pc' \in {"await", "collect", "observe"}
    <3>1. ASSUME Idle PROVE FALSE
      <4>1. hand' = None /\ hand' \in Message
        BY <1>3, <3>1 DEF Taking, Idle
      <4> QED BY <4>1 DEF None, Message, Task, Type
    <3> QED BY <1>1, <1>3, <3>1 DEF Taking, steps
  <2> QED BY <2>1, <2>2 DEF HandInv
<1>4. ASSUME hand' = None, ~Idle PROVE HandInv'
  BY <1>1, <1>4 DEF HandInv
<1> QED BY <1>2, <1>3, <1>4, Kinds DEF Examine, Failing, Finishing, Moving

-----------------------------------------------------------------------------
(* Spelling.                                                               *)
LEMMA SpellNothing == ASSUME NEW s PROVE Spell(s, {}, <<>>)
<1>1. DOMAIN <<>> = {}
  OBVIOUS
<1>2. [i \in {} |-> 0] \in [DOMAIN <<>> -> {}]
  BY <1>1
<1> QED BY <1>1, <1>2 DEF Spell

LEMMA SpellKept ==
  ASSUME NEW s, NEW s2, NEW P, NEW events, \A n \in P : s2[n] = s[n], Spell(s, P, events)
  PROVE  Spell(s2, P, events)
BY DEF Spell

(* A later message of the next type. *)
LEMMA SpellOn ==
  ASSUME NEW s, NEW S, NEW events \in Seq(S), NEW n \in Int, NEW P \in SUBSET Int, \A k \in P : k < n,
         Spell(s, P, events), s[n].type \in S
  PROVE  Spell(s, P \cup {n}, Append(events, s[n].type))
<1> DEFINE longer == Append(events, s[n].type)
<1>1. PICK at \in [DOMAIN events -> P] :
        /\ \A i \in DOMAIN events : s[at[i]].type = events[i]
        /\ \A i, j \in DOMAIN events : i < j => at[i] < at[j]
        /\ \A k \in P : \E i \in DOMAIN events : at[i] = k
  BY DEF Spell
<1> DEFINE next == [i \in 1 .. Len(events) + 1 |-> IF i \in DOMAIN events THEN at[i] ELSE n]
<1>2. Len(events) \in Nat /\ DOMAIN events = 1 .. Len(events)
  BY LenProperties
<1>3. /\ DOMAIN longer = 1 .. Len(events) + 1
      /\ \A i \in DOMAIN events : longer[i] = events[i]
      /\ longer[Len(events) + 1] = s[n].type
  BY <1>2, AppendProperties
<1>4. next \in [DOMAIN longer -> P \cup {n}]
  BY <1>2, <1>3
<1>5. \A i \in DOMAIN longer : s[next[i]].type = longer[i]
  BY <1>1, <1>2, <1>3
<1>6. \A i, j \in DOMAIN longer : i < j => next[i] < next[j]
  <2> SUFFICES ASSUME NEW i \in DOMAIN longer, NEW j \in DOMAIN longer, i < j PROVE next[i] < next[j]
    OBVIOUS
  <2>1. i \in DOMAIN events /\ next[i] = at[i] /\ at[i] \in P
    BY <1>2, <1>3
  <2>2. CASE j \in DOMAIN events
    BY <1>1, <1>2, <1>3, <2>1, <2>2
  <2>3. CASE j \notin DOMAIN events
    BY <1>2, <1>3, <2>1, <2>3
  <2> QED BY <2>2, <2>3
<1>7. \A k \in P \cup {n} : \E i \in DOMAIN longer : next[i] = k
  <2> SUFFICES ASSUME NEW k \in P \cup {n} PROVE \E i \in DOMAIN longer : next[i] = k
    OBVIOUS
  <2>1. CASE k \in P
    BY <1>1, <1>2, <1>3, <2>1
  <2>2. CASE k = n
    <3>1. next[Len(events) + 1] = n /\ Len(events) + 1 \in DOMAIN longer
      BY <1>2, <1>3
    <3> QED BY <2>2, <3>1
  <2> QED BY <2>1, <2>2
<1> HIDE DEF next, longer
<1>8. Spell(s, P \cup {n}, longer)
  BY <1>4, <1>5, <1>6, <1>7 DEF Spell
<1> QED BY <1>8 DEF longer

-----------------------------------------------------------------------------
(* What the script has seen of the task it follows is what it has collected.*)
Dealt == IF hand = None THEN Len(taken) ELSE Len(taken) - 1

Own(r, n, id) == {k \in r + 1 .. n : taken[k].task = id}

Watched ==
  \E r \in observed[task - 1] + 1 .. Dealt :
    /\ taken[r].type = "requested" /\ skillId(taken[r].task) = skillId(task) /\ taken[r].task = taskId
    /\ Spell(taken, Own(r, Dealt, taskId), taskEvents)

ConfirmInv ==
  /\ pc \in {"collect", "observe"} => Watched
  /\ pc = "await" => taskEvents = <<>>
  /\ pc = "observe" => taskEvents = expectedEvents
  /\ outcome = "passed" => pc = "done"
  /\ \A t \in {2, 3} : t < task \/ outcome = "passed" => Confirmed(t)
  /\ \A t \in Task : observed[t] <= Dealt

LEMMA ConfirmInitially == Init => ConfirmInv
BY DEF Init, ConfirmInv, Dealt, None, Task

(* More messages do not undo what was seen. *)
LEMMA ConfirmedStays ==
  ASSUME MailboxInv, HandInv, TaskTyped, NEW t \in {2, 3}, Confirmed(t), observed[t] <= Len(taken),
         observed'[t] = observed[t], observed'[t - 1] = observed[t - 1],
         \A k \in 1 .. Len(taken) : taken'[k] = taken[k]
  PROVE  Confirmed(t)'
<1>1. PICK r \in observed[t - 1] + 1 .. observed[t] :
        /\ taken[r].type = "requested" /\ skillId(taken[r].task) = skillId(t)
        /\ Spell(taken, {n \in r + 1 .. observed[t] : taken[n].task = taken[r].task}, expectedEvents)
  BY DEF Confirmed
<1>2. observed[t] \in Nat /\ observed[t - 1] \in Nat /\ Len(taken) \in Nat
  BY LenProperties DEF TaskTyped, Task, MailboxInv
<1>3. \A n \in r .. observed[t] : n \in 1 .. Len(taken)
  BY <1>2
<1>4. {n \in r + 1 .. observed[t] : taken'[n].task = taken'[r].task}
        = {n \in r + 1 .. observed[t] : taken[n].task = taken[r].task}
  BY <1>2, <1>3, SMTT(20)
<1>5. Spell(taken', {n \in r + 1 .. observed[t] : taken[n].task = taken[r].task}, expectedEvents)
  BY <1>1, <1>2, <1>3, SpellKept
<1>6. Spell(taken', {n \in r + 1 .. observed'[t] : taken'[n].task = taken'[r].task}, expectedEvents)
  BY <1>4, <1>5
<1>7. taken'[r] = taken[r]
  BY <1>2, <1>3
<1> QED BY <1>1, <1>6, <1>7 DEF Confirmed

(* A message that the script takes is not dealt with yet. *)
LEMMA DealtSteps ==
  ASSUME MailboxInv, HandInv, TaskTyped, [Next]_vars
  PROVE  /\ Dealt \in Nat /\ Dealt <= Len(taken)
         /\ Taking => Dealt' = Dealt
         /\ UNCHANGED <<taken, hand>> => Dealt' = Dealt
         /\ Examine => /\ Dealt' = Dealt + 1 /\ Dealt' = Len(taken) /\ taken' = taken
                       /\ hand = taken[Dealt + 1] /\ hand \in Message
         /\ hand = None => Dealt = Len(taken)
<1>1. Len(taken) \in Nat /\ (taken # <<>> => Len(taken) > 0)
  BY LenProperties, EmptySeq DEF MailboxInv
<1>2. Taking => Len(taken') = Len(taken) + 1 /\ hand' # None
  BY AppendProperties DEF Taking, MailboxInv, None, Message, Task, Type
<1> QED BY <1>1, <1>2 DEF Dealt, HandInv, Examine, Taking, TaskTyped

(* What is dealt with stays so; the next message is the task's, or not.     *)
LEMMA WatchedStays ==
  ASSUME MailboxInv, HandInv, TaskTyped, Watched, task \in {2, 3}, [Next]_vars,
         UNCHANGED <<task, taskId, taskEvents, observed>>, \A k \in 1 .. Len(taken) : taken'[k] = taken[k],
         Dealt' = Dealt \/ (Dealt' = Dealt + 1 /\ Dealt' <= Len(taken) /\ taken[Dealt + 1].task # taskId)
  PROVE  Watched'
<1>1. PICK r \in observed[task - 1] + 1 .. Dealt :
        /\ taken[r].type = "requested" /\ skillId(taken[r].task) = skillId(task) /\ taken[r].task = taskId
        /\ Spell(taken, Own(r, Dealt, taskId), taskEvents)
  BY DEF Watched
<1>2. /\ Dealt \in Nat /\ Dealt <= Len(taken) /\ Len(taken) \in Nat /\ Dealt' \in Nat /\ Dealt' <= Len(taken)
      /\ observed[task - 1] \in Nat
  <2>1. /\ Dealt \in Nat /\ Dealt <= Len(taken) /\ Len(taken) \in Nat
    BY DealtSteps
  <2>2. observed[task - 1] \in Nat
    BY DEF TaskTyped, Task
  <2> QED BY <2>1, <2>2
<1>3. {k \in r + 1 .. Dealt' : taken'[k].task = taskId} = Own(r, Dealt, taskId)
  BY <1>2 DEF Own
<1>4. Spell(taken', {k \in r + 1 .. Dealt' : taken'[k].task = taskId}, taskEvents)
  <2>1. \A n \in Own(r, Dealt, taskId) : taken'[n] = taken[n]
    BY <1>1, <1>2 DEF Own
  <2>2. Spell(taken', Own(r, Dealt, taskId), taskEvents)
    BY <1>1, <2>1, SpellKept
  <2> QED BY <1>3, <2>2
<1>5. Own(r, Dealt, taskId)' = {k \in r + 1 .. Dealt' : taken'[k].task = taskId}
  BY DEF Own
<1>6. r \in observed'[task' - 1] + 1 .. Dealt' /\ taken'[r] = taken[r]
  BY <1>1, <1>2
<1> QED BY <1>1, <1>4, <1>5, <1>6 DEF Watched

LEMMA ConfirmStep == MailboxInv /\ HandInv /\ FinallyInv /\ TaskTyped /\ TaskNamed /\ ConfirmInv /\ [Next]_vars => ConfirmInv'
<1> SUFFICES ASSUME MailboxInv, HandInv, FinallyInv, TaskTyped, TaskNamed, ConfirmInv, [Next]_vars PROVE ConfirmInv'
  OBVIOUS
<1>1. /\ Len(taken) \in Nat /\ Dealt \in Nat /\ Dealt <= Len(taken)
      /\ \A t \in Task : observed[t] \in Nat /\ observed[t] <= Dealt
  BY DealtSteps, LenProperties DEF MailboxInv, TaskTyped, ConfirmInv
<1>2. Idle \/ Taking \/ Examine \/ Failing \/ Finishing \/ Moving
  BY Kinds
<1>3. \A k \in 1 .. Len(taken) : taken'[k] = taken[k]
  <2>1. CASE Taking
    BY <2>1, AppendProperties DEF Taking, MailboxInv
  <2>2. CASE UNCHANGED taken
    BY <2>2
  <2> QED BY <1>2, <2>1, <2>2 DEF Idle, Examine, Failing, Finishing, Moving
<1>4. ASSUME NEW t \in {2, 3}, observed'[t] = observed[t], observed'[t - 1] = observed[t - 1], Confirmed(t) PROVE Confirmed(t)'
  BY <1>1, <1>3, <1>4, ConfirmedStays DEF Task
<1>5. pc \in {"collect", "observe"} => task \in {2, 3}
  BY DEF FinallyInv, TaskTyped, Task
<1>6. CASE Idle \/ Taking
  <2>1. UNCHANGED <<pc, task, taskId, taskEvents, outcome, observed>> /\ Dealt' = Dealt
    BY <1>6, DealtSteps DEF Idle, Taking, steps
  <2>2. pc \in {"collect", "observe"} => Watched'
    BY <1>3, <1>5, <2>1, WatchedStays DEF ConfirmInv
  <2> QED BY <1>4, <2>1, <2>2 DEF ConfirmInv
<1>7. CASE Failing
  BY <1>4, <1>7, DealtSteps DEF Failing, ConfirmInv
<1>8. CASE Moving
  <2>1. UNCHANGED <<taken, hand, outcome, observed>> /\ pc' \notin {"collect", "observe"} /\ Dealt' = Dealt
    BY <1>8, DealtSteps DEF Moving
  <2>2. ASSUME NEW t \in {2, 3}, t < task' PROVE t < task
    BY <1>8, <2>2 DEF Moving, TaskTyped, Task
  <2>3. pc' = "await" => taskEvents' = <<>>
    BY <1>8 DEF Moving, Next, Script, Start, receiveJson, Waiting, Examine, Expired, TimedOut, Stop, Claim, Update, Up, Throw,
                GiveUp, Observed, Proceed, DeadlinePasses, Drop, Noise, Advance, Fault, vars, script
  <2> QED BY <1>4, <1>8, <2>1, <2>2, <2>3 DEF ConfirmInv, Moving
<1>9. CASE Finishing
  <2>1. /\ Dealt = Len(taken) /\ Dealt' = Len(taken) /\ taken' = taken /\ Watched /\ taskEvents = expectedEvents
        /\ observed' = [observed EXCEPT ![task] = Len(taken)] /\ outcome # "passed" /\ task \in {2, 3}
        /\ IF task = 3 THEN pc' = "done" /\ outcome' = "passed" /\ UNCHANGED task
           ELSE pc' = "start" /\ task' = task + 1 /\ UNCHANGED outcome
    BY <1>5, <1>9, DealtSteps DEF Finishing, Observed, ConfirmInv
  <2>2. \A t \in Task : observed'[t] = IF t = task THEN Len(taken) ELSE observed[t]
    BY <2>1 DEF TaskTyped
  <2>3. PICK r \in observed[task - 1] + 1 .. Dealt :
          /\ taken[r].type = "requested" /\ skillId(taken[r].task) = skillId(task) /\ taken[r].task = taskId
          /\ Spell(taken, Own(r, Dealt, taskId), taskEvents)
    BY <2>1 DEF Watched
  <2>4. ASSUME NEW t \in {2, 3}, t < task' \/ outcome' = "passed" PROVE Confirmed(t)'
    <3>1. CASE t = task
      <4>1. observed'[t] = Len(taken) /\ observed'[t - 1] = observed[t - 1]
        BY <2>1, <2>2, <3>1 DEF Task
      <4>2. {n \in r + 1 .. observed'[t] : taken'[n].task = taken'[r].task} = Own(r, Dealt, taskId)
        BY <2>1, <2>3, <4>1 DEF Own
      <4>3. Spell(taken', {n \in r + 1 .. observed'[t] : taken'[n].task = taken'[r].task}, expectedEvents)
        BY <2>1, <2>3, <4>2
      <4>4. r \in observed'[t - 1] + 1 .. observed'[t] /\ taken'[r].type = "requested" /\ skillId(taken'[r].task) = skillId(t)
        BY <2>1, <2>3, <3>1, <4>1
      <4> QED BY <4>3, <4>4 DEF Confirmed
    <3>2. CASE t # task
      BY <1>4, <2>1, <2>2, <2>4, <3>2 DEF ConfirmInv, Task
    <3> QED BY <3>1, <3>2
  <2> QED BY <1>1, <2>1, <2>2, <2>4 DEF ConfirmInv
<1>10. CASE Examine
  <2>1. /\ hand \in Message /\ hand = taken[Dealt + 1] /\ Dealt' = Dealt + 1 /\ Dealt' = Len(taken) /\ taken' = taken
        /\ hand' = None
    BY <1>10, DealtSteps DEF Examine
  <2>2. ASSUME Throw PROVE ConfirmInv'
    BY <1>1, <1>4, <2>1, <2>2 DEF Throw, ConfirmInv
  <2>3. ASSUME Ignore, hand.task = taskId => pc \notin {"collect", "observe"} PROVE ConfirmInv'
    <3>1. UNCHANGED <<pc, task, taskId, taskEvents, outcome, observed>>
      BY <2>3 DEF Ignore, script
    <3>2. pc \in {"collect", "observe"} => Watched'
      BY <1>3, <1>5, <2>1, <2>3, <3>1, WatchedStays DEF ConfirmInv
    <3> QED BY <1>1, <1>4, <2>1, <3>1, <3>2 DEF ConfirmInv
  <2>4. ASSUME pc = "await", Requested(hand), ~Ignore PROVE ConfirmInv'
    <3>1. /\ hand.type = "requested" /\ skillId(hand.task) = skillId(task) /\ taskId' = hand.task
          /\ UNCHANGED <<task, taskEvents, outcome, observed>> /\ taskEvents = <<>>
          /\ pc' = IF task = 1 THEN "claim" ELSE "collect"
      BY <2>4 DEF Requested, ConfirmInv
    <3>2. ASSUME task # 1 PROVE Watched'
      <4>1. observed[task - 1] \in Nat /\ observed[task - 1] <= Dealt
        BY <1>1, <3>2 DEF TaskTyped, Task
      <4>2. {k \in Dealt' + 1 .. Dealt' : taken'[k].task = taskId'} = {}
        BY <1>1, <2>1
      <4>3. Spell(taken', {k \in Dealt' + 1 .. Dealt' : taken'[k].task = taskId'}, taskEvents')
        BY <3>1, <4>2, SpellNothing
      <4>4. Dealt' \in observed'[task' - 1] + 1 .. Dealt' /\ taken'[Dealt'] = hand
        BY <1>1, <2>1, <3>1, <4>1
      <4> QED BY <3>1, <4>3, <4>4 DEF Watched, Own
    <3> QED BY <1>1, <1>4, <2>1, <2>4, <3>1, <3>2 DEF ConfirmInv
  <2>5. ASSUME pc = "collect", Collected(hand), Concerns(hand), ~Throw PROVE ConfirmInv'
    <3>1. /\ hand.task = taskId /\ taskEvents' = Append(taskEvents, hand.type)
          /\ UNCHANGED <<task, taskId, outcome, observed>>
          /\ pc' = "collect" \/ (pc' = "observe" /\ taskEvents' = expectedEvents)
      BY <2>5 DEF Collected, Collect, Concerns, Sequence
    <3>2. hand.type \in Type /\ taskEvents \in Seq(Type)
      BY <2>1, <2>5, <3>1 DEF Message, TaskNamed, TaskTyped, Task
    <3>3. PICK r \in observed[task - 1] + 1 .. Dealt :
            /\ taken[r].type = "requested" /\ skillId(taken[r].task) = skillId(task) /\ taken[r].task = taskId
            /\ Spell(taken, Own(r, Dealt, taskId), taskEvents)
      BY <2>5 DEF ConfirmInv, Watched
    <3>4. observed[task - 1] \in Nat
      BY <1>1, <1>5, <2>5 DEF Task
    <3>5. Own(r, Dealt, taskId) \in SUBSET Int /\ \A k \in Own(r, Dealt, taskId) : k < Dealt + 1
      BY <1>1, <3>4 DEF Own
    <3>6. Spell(taken, Own(r, Dealt, taskId) \cup {Dealt + 1}, Append(taskEvents, taken[Dealt + 1].type))
      <4>1. Dealt + 1 \in Int /\ taken[Dealt + 1].type \in Type /\ Spell(taken, Own(r, Dealt, taskId), taskEvents)
        BY <1>1, <2>1, <3>2, <3>3
      <4> QED BY <3>2, <3>5, <4>1, SpellOn
    <3>7. {k \in r + 1 .. Dealt' : taken'[k].task = taskId'} = Own(r, Dealt, taskId) \cup {Dealt + 1}
      BY <1>1, <2>1, <3>1, <3>4 DEF Own
    <3>8. Spell(taken', {k \in r + 1 .. Dealt' : taken'[k].task = taskId'}, taskEvents')
      BY <2>1, <3>1, <3>6, <3>7
    <3>9. Watched'
      <4>1. r \in observed'[task' - 1] + 1 .. Dealt' /\ taken'[r] = taken[r]
        BY <1>1, <2>1, <3>1, <3>4
      <4> QED BY <3>1, <3>3, <3>8, <4>1 DEF Watched, Own
    <3> QED BY <1>1, <1>4, <2>1, <2>5, <3>1, <3>9 DEF ConfirmInv
  <2>6. CASE pc = "await" /\ Requested(hand)
    BY <2>3, <2>4, <2>6
  <2>7. CASE pc = "collect" /\ Collected(hand)
    BY <2>2, <2>3, <2>5, <2>7 DEF Collected, Concerns
  <2>8. CASE pc = "observe" /\ IF Concerns(hand) THEN Throw ELSE Ignore
    BY <2>2, <2>3, <2>8 DEF Concerns
  <2> QED BY <1>10, <2>6, <2>7, <2>8 DEF Examine
<1> QED BY <1>2, <1>6, <1>7, <1>8, <1>9, <1>10

-----------------------------------------------------------------------------
(* Which task the room tells of.                                           *)
Untold ==
  /\ \A t \in Task : status[t] = "none" => \A n \in 1 .. Len(arrived) : arrived[n].task # t
  /\ \A t \in Task : t > task \/ (t = task /\ pc \in {"stop", "start"}) => status[t] = "none"
  /\ pc \in {"claim", "update"} => taskId = 1

LEMMA UntoldInitially == Init => Untold
BY DEF Init, Untold

LEMMA TakenArrived ==
  ASSUME MailboxInv
  PROVE  /\ Len(taken) \in Nat /\ Len(arrived) \in Nat /\ Len(taken) <= Len(arrived)
         /\ \A k \in 1 .. Len(taken) : taken[k] = arrived[k]
         /\ \A k \in 1 .. Len(arrived) : arrived[k] \in Message
<1>1. messages \in Seq(Message) /\ taken \in Seq(Message) /\ arrived = taken \o messages /\ arrived \in Seq(Message)
  BY DEF MailboxInv, NothingLost
<1>2. \A k \in 1 .. Len(arrived) : arrived[k] \in Message
  BY <1>1, ElementOfSeq
<1> QED BY <1>1, <1>2, ConcatProperties, LenProperties

(* What happens to the tasks, and to what the room has told of them.        *)
RoomKinds ==
  \/ UNCHANGED <<status, arrived>>
  \/ Start
  \/ UNCHANGED arrived /\ pc = "claim" /\ status[taskId] = "requested" /\ status' = [status EXCEPT ![taskId] = "leased"]
  \/ UNCHANGED arrived /\ pc = "update" /\ status' = [status EXCEPT ![taskId] = "updated"]
  \/ \E t \in Task : Advance(t)
  \/ \E t \in Task : Fault(t)
  \/ UNCHANGED status /\ arrived' = Append(arrived, [task |-> 0, type |-> "noise"])

LEMMA RoomSteps == [Next]_vars => RoomKinds
BY DEF Next, Script, Start, receiveJson, Examine, Expired, TimedOut, Stop, Claim, Update, Up, DeadlinePasses, Drop, Noise, vars, room,
       Arrive, RoomKinds

(* Nothing is told of a task that nobody has asked for.                     *)
LEMMA RoomTells ==
  ASSUME FinallyInv, TaskTyped, TaskNamed, Untold, RoomKinds
  PROVE  /\ \A t \in Task : status[t] = "none" => status'[t] = "none" \/ t = task
         /\ \A t \in Task : status'[t] = "none" => status[t] = "none"
         /\ UNCHANGED status \/ pc \notin {"stop", "start"} \/ Start \/ \A t \in Task : status[t] = "none" => status'[t] = "none"
         /\ \/ UNCHANGED arrived
            \/ \E m \in Message : arrived' = Append(arrived, m) /\ (m.task \in Task => status[m.task] # "none")
<1>1. ASSUME NEW t \in Task, CanTurn(t), status' = [status EXCEPT ![t] = Turn[@]]
      PROVE  /\ status[t] # "none" /\ status'[t] # "none"
             /\ \A u \in Task : u # t => status'[u] = status[u]
  BY <1>1 DEF CanTurn, Turn, TaskTyped
<1>2. CASE Start
  BY <1>2 DEF Start, TaskTyped
<1>3. ASSUME pc \in {"claim", "update"}, NEW s \in {"leased", "updated"}, status' = [status EXCEPT ![taskId] = s]
      PROVE  \A t \in Task : IF t = 1 THEN status'[t] = s ELSE status'[t] = status[t]
  BY <1>3 DEF TaskTyped, TaskNamed, Untold
<1>4. pc \in {"claim", "update"} => task = 1
  BY DEF FinallyInv
<1>5. CASE UNCHANGED arrived /\ pc = "claim" /\ status[taskId] = "requested" /\ status' = [status EXCEPT ![taskId] = "leased"]
  BY <1>3, <1>4, <1>5
<1>6. CASE UNCHANGED arrived /\ pc = "update" /\ status' = [status EXCEPT ![taskId] = "updated"]
  BY <1>3, <1>4, <1>6
<1>7. ASSUME NEW t \in Task, Advance(t)
      PROVE  /\ status[t] # "none" /\ status'[t] # "none" /\ \A u \in Task : u # t => status'[u] = status[u]
             /\ \E m \in Message : arrived' = Append(arrived, m) /\ m.task = t
  BY <1>1, <1>7, TurnsAreMessages DEF Advance, Arrive, CanTurn
<1>8. ASSUME NEW t \in Task, Fault(t)
      PROVE  /\ status[t] # "none" /\ status'[t] # "none" /\ \A u \in Task : u # t => status'[u] = status[u]
             /\ UNCHANGED arrived \/ \E m \in Message : arrived' = Append(arrived, m) /\ m.task = t
  BY <1>1, <1>8, TurnsAreMessages DEF Fault, Arrive
<1>9. CASE UNCHANGED <<status, arrived>>
  BY <1>9
<1>10. CASE UNCHANGED status /\ arrived' = Append(arrived, [task |-> 0, type |-> "noise"])
  BY <1>10, TurnsAreMessages DEF Task
<1> QED BY <1>2, <1>5, <1>6, <1>7, <1>8, <1>9, <1>10 DEF RoomKinds

LEMMA UntoldStep ==
  MailboxInv /\ HandInv /\ FinallyInv /\ TaskTyped /\ TaskNamed /\ Untold /\ [Next]_vars => Untold'
<1> SUFFICES ASSUME MailboxInv, HandInv, FinallyInv, TaskTyped, TaskNamed, Untold, [Next]_vars PROVE Untold'
  OBVIOUS
<1>1. RoomKinds
  BY RoomSteps
<1>2. Len(arrived) \in Nat /\ arrived \in Seq(Message)
  BY LenProperties DEF MailboxInv
<1>3. ASSUME NEW t \in Task, status'[t] = "none", NEW n \in 1 .. Len(arrived') PROVE arrived'[n].task # t
  <2>1. status[t] = "none"
    BY <1>1, <1>3, RoomTells
  <2>2. CASE UNCHANGED arrived
    BY <1>3, <2>1, <2>2 DEF Untold
  <2>3. ASSUME NEW m \in Message, arrived' = Append(arrived, m), m.task \in Task => status[m.task] # "none"
        PROVE  arrived'[n].task # t
    BY <1>2, <1>3, <2>1, <2>3, AppendProperties DEF Untold
  <2> QED BY <1>1, <2>2, <2>3, RoomTells
<1>4. Idle \/ Taking \/ Examine \/ Failing \/ Finishing \/ Moving
  BY Kinds
<1>5. Examine => UNCHANGED status /\ UNCHANGED task /\ pc' \notin {"stop", "start"}
  BY DEF Examine, Requested, Collected, Collect, Throw, Ignore, script, room
<1>6. ASSUME NEW t \in Task, t > task' \/ (t = task' /\ pc' \in {"stop", "start"}) PROVE status'[t] = "none"
  <2>1. task \in 1 .. 3 /\ t \in 1 .. 3
    BY DEF TaskTyped, Task
  <2>2. CASE t > task
    <3>1. status[t] = "none" /\ t # task
      BY <2>1, <2>2 DEF Untold
    <3> QED BY <1>1, <3>1, RoomTells
  <2>3. CASE ~(t > task)
    <3>1. t = task /\ task' = task /\ pc' \in {"stop", "start"} /\ pc \in {"stop", "start"} /\ ~Start
      BY <1>4, <1>5, <1>6, <2>1, <2>3 DEF Idle, Taking, Failing, Finishing, Observed, Moving, steps, Start
    <3>2. status[t] = "none"
      BY <3>1 DEF Untold
    <3> QED BY <1>1, <3>1, <3>2, RoomTells
  <2> QED BY <2>2, <2>3
<1>7. ASSUME pc' \in {"claim", "update"} PROVE taskId' = 1
  <2>1. CASE Examine
    <3>1. CASE pc = "await" /\ Requested(hand) /\ ~Ignore
      <4>1. hand.type = "requested" /\ skillId(hand.task) = skillId(task) /\ taskId' = hand.task /\ task = 1
        BY <1>7, <3>1 DEF Requested
      <4>2. hand \in Message /\ hand = taken[Dealt + 1] /\ Dealt + 1 \in 1 .. Len(taken)
        BY <2>1, DealtSteps
      <4>3. hand = arrived[Dealt + 1] /\ Dealt + 1 \in 1 .. Len(arrived)
        BY <4>2, TakenArrived
      <4>4. hand.task \in Task /\ hand.task # 3
        BY <4>1, <4>2 DEF Message, skillId, Task
      <4>5. hand.task # 2
        BY <4>1, <4>3 DEF Untold, Task
      <4> QED BY <4>1, <4>4, <4>5 DEF Task
    <3>2. pc' \in {"await", "collect", "observe", "up", "done"} \/ (pc = "await" /\ Requested(hand) /\ ~Ignore)
      BY <2>1 DEF Examine, Collected, Collect, Throw, Ignore, script
    <3> QED BY <1>7, <3>1, <3>2
  <2>2. CASE ~Examine
    BY <1>4, <1>7, <2>2 DEF Idle, Taking, Failing, Finishing, Observed, Moving, steps, Untold
  <2> QED BY <2>1, <2>2
<1> QED BY <1>3, <1>6, <1>7 DEF Untold

-----------------------------------------------------------------------------
(* While nothing is troubled, the room tells of each skill's task in the    *)
(* order of its lifecycle, of every step once, and asks once for the first. *)
lifecycle == <<"requested", "accepted", "reading", "preparing", "succeeded">>

Rank == [none |-> 0, sent |-> 0, requested |-> 1, accepted |-> 2, reading |-> 3, preparing |-> 4, succeeded |-> 5]

Tells(n, t, i) == arrived[n].task = t /\ arrived[n].type = lifecycle[i]

Ordered(t) ==
  /\ status[t] \in DOMAIN Rank
  /\ \A n \in 1 .. Len(arrived) : arrived[n].task = t => \E i \in 1 .. Rank[status[t]] : Tells(n, t, i)
  /\ \A i \in 1 .. Rank[status[t]] : \E n \in 1 .. Len(arrived) : Tells(n, t, i)
  /\ \A n, m \in 1 .. Len(arrived), i, j \in 1 .. 5 : n < m /\ Tells(n, t, i) /\ Tells(m, t, j) => i < j

FirstOnce ==
  /\ status[1] \in {"none", "sent"} => \A n \in 1 .. Len(arrived) : arrived[n].task # 1
  /\ \A n, m \in 1 .. Len(arrived) : Tells(n, 1, 1) /\ Tells(m, 1, 1) => n = m

OrderInv == trouble = {} => Ordered(2) /\ Ordered(3) /\ FirstOnce

LEMMA Ranks ==
  /\ DOMAIN Rank = {"none", "sent", "requested", "accepted", "reading", "preparing", "succeeded"}
  /\ \A s \in DOMAIN Rank : Rank[s] \in 0 .. 5
  /\ \A s \in DOMAIN Rank \ {"none", "succeeded"} :
       /\ Turn[s] \in DOMAIN Rank /\ Rank[Turn[s]] = Rank[s] + 1
       /\ Rank[s] + 1 \in 1 .. 5 /\ Turn[s] = lifecycle[Rank[s] + 1]
  /\ \A i, j \in 1 .. 5 : lifecycle[i] = lifecycle[j] => i = j
  /\ lifecycle[1] = "requested"
<1>1. /\ lifecycle[1] = "requested" /\ lifecycle[2] = "accepted" /\ lifecycle[3] = "reading"
      /\ lifecycle[4] = "preparing" /\ lifecycle[5] = "succeeded"
  BY DEF lifecycle
<1>2. \A i, j \in 1 .. 5 : lifecycle[i] = lifecycle[j] => i = j
  BY <1>1
<1>3. DOMAIN Rank = {"none", "sent", "requested", "accepted", "reading", "preparing", "succeeded"}
  BY DEF Rank
<1>4. \A s \in DOMAIN Rank : Rank[s] \in 0 .. 5
  BY DEF Rank
<1>5. ASSUME NEW s \in DOMAIN Rank \ {"none", "succeeded"}
      PROVE  /\ Turn[s] \in DOMAIN Rank /\ Rank[Turn[s]] = Rank[s] + 1
             /\ Rank[s] + 1 \in 1 .. 5 /\ Turn[s] = lifecycle[Rank[s] + 1]
  BY <1>1 DEF Turn, Rank
<1> QED BY <1>1, <1>2, <1>3, <1>4, <1>5

LEMMA OrderInitially == Init => OrderInv
BY Ranks DEF Init, OrderInv, Ordered, FirstOnce, Rank, Task

(* Another task's message. *)
LEMMA OrderedStays ==
  ASSUME MailboxInv, NEW t \in Task, Ordered(t), status'[t] \in DOMAIN Rank, Rank[status'[t]] = Rank[status[t]],
         UNCHANGED arrived \/ \E m \in Message : arrived' = Append(arrived, m) /\ m.task # t
  PROVE  Ordered(t)'
<1>1. CASE UNCHANGED arrived
  BY <1>1 DEF Ordered, Tells
<1>2. ASSUME NEW m \in Message, arrived' = Append(arrived, m), m.task # t PROVE Ordered(t)'
  <2>1. /\ Len(arrived) \in Nat /\ Len(arrived') = Len(arrived) + 1
        /\ \A n \in 1 .. Len(arrived) : arrived'[n] = arrived[n]
        /\ arrived'[Len(arrived) + 1].task # t
    BY <1>2, LenProperties, AppendProperties DEF MailboxInv
  <2>2. /\ \A n \in 1 .. Len(arrived), i \in 1 .. 5 : Tells(n, t, i)' <=> Tells(n, t, i)
        /\ \A n \in 1 .. Len(arrived'), i \in 1 .. 5 : Tells(n, t, i)' => n \in 1 .. Len(arrived)
    BY <2>1 DEF Tells
  <2>3. Rank[status[t]] \in 0 .. 5
    BY Ranks DEF Ordered
  <2>4. ASSUME NEW n \in 1 .. Len(arrived'), arrived'[n].task = t PROVE \E i \in 1 .. Rank[status'[t]] : Tells(n, t, i)'
    <3>1. n \in 1 .. Len(arrived) /\ arrived[n].task = t
      BY <2>1, <2>4
    <3>2. PICK i \in 1 .. Rank[status[t]] : Tells(n, t, i)
      BY <3>1 DEF Ordered
    <3> QED BY <2>2, <2>3, <3>1, <3>2
  <2>5. ASSUME NEW i \in 1 .. Rank[status'[t]] PROVE \E n \in 1 .. Len(arrived') : Tells(n, t, i)'
    <3>1. PICK n \in 1 .. Len(arrived) : Tells(n, t, i)
      BY <2>5 DEF Ordered
    <3> QED BY <2>1, <2>2, <2>3, <3>1
  <2>6. ASSUME NEW n \in 1 .. Len(arrived'), NEW k \in 1 .. Len(arrived'), NEW i \in 1 .. 5, NEW j \in 1 .. 5,
               n < k, Tells(n, t, i)', Tells(k, t, j)'
        PROVE  i < j
    BY <2>2, <2>6 DEF Ordered
  <2> QED BY <2>4, <2>5, <2>6 DEF Ordered
<1> QED BY <1>1, <1>2

(* Its own next one. *)
LEMMA OrderedOn ==
  ASSUME MailboxInv, TaskTyped, NEW t \in Task, Ordered(t), Advance(t)
  PROVE  Ordered(t)'
<1> DEFINE k == Rank[status[t]]
<1>1. status[t] \in DOMAIN Rank \ {"none", "succeeded"} /\ k \in 0 .. 4
  BY Ranks, TurnsAreStates DEF Advance, CanTurn, Ordered
<1>2. status'[t] = Turn[status[t]] /\ status'[t] \in DOMAIN Rank /\ Rank[status'[t]] = k + 1 /\ Turn[status[t]] = lifecycle[k + 1]
  BY <1>1, Ranks DEF Advance, TaskTyped
<1>3. /\ Len(arrived) \in Nat /\ Len(arrived') = Len(arrived) + 1
      /\ \A n \in 1 .. Len(arrived) : arrived'[n] = arrived[n]
      /\ arrived'[Len(arrived) + 1] = [task |-> t, type |-> lifecycle[k + 1]]
  <2>1. arrived' = Append(arrived, [task |-> t, type |-> lifecycle[k + 1]])
    BY <1>2 DEF Advance, Arrive
  <2> QED BY <2>1, <1>1, <1>2, LenProperties, AppendProperties, TurnsAreMessages DEF MailboxInv, Advance, CanTurn
<1> HIDE DEF k
<1>4. \A n \in 1 .. Len(arrived) : arrived[n].task = t => \E i \in 1 .. k : Tells(n, t, i)
  BY DEF Ordered, k
<1>5. \A i \in 1 .. k : \E n \in 1 .. Len(arrived) : Tells(n, t, i)
  BY DEF Ordered, k
<1>6. \A n \in 1 .. Len(arrived), i \in 1 .. 5 : Tells(n, t, i) => i <= k
  BY <1>1, <1>4, Ranks DEF Tells
<1>7. \A n \in 1 .. Len(arrived), i \in 1 .. 5 : Tells(n, t, i)' <=> Tells(n, t, i)
  BY <1>3 DEF Tells
<1>8. ASSUME NEW n, n = Len(arrived) + 1, NEW i \in 1 .. 5 PROVE Tells(n, t, i)' <=> i = k + 1
  <2>1. k + 1 \in 1 .. 5
    BY <1>1
  <2> QED BY <1>3, <1>8, <2>1, Ranks DEF Tells
<1>9. ASSUME NEW n \in 1 .. Len(arrived'), arrived'[n].task = t PROVE \E i \in 1 .. k + 1 : Tells(n, t, i)'
  <2>1. CASE n \in 1 .. Len(arrived)
    <3>1. PICK i \in 1 .. k : Tells(n, t, i)
      BY <1>3, <1>4, <1>9, <2>1
    <3> QED BY <1>1, <1>7, <2>1, <3>1
  <2>2. CASE n = Len(arrived) + 1
    <3>1. k + 1 \in 1 .. 5 /\ k + 1 \in 1 .. k + 1
      BY <1>1
    <3>2. \A i \in 1 .. 5 : Tells(n, t, i)' <=> i = k + 1
      BY <1>8, <2>2
    <3> QED BY <3>1, <3>2
  <2> QED BY <1>3, <2>1, <2>2
<1>10. ASSUME NEW i \in 1 .. k + 1 PROVE \E n \in 1 .. Len(arrived') : Tells(n, t, i)'
  <2>1. CASE i \in 1 .. k
    <3>1. PICK n \in 1 .. Len(arrived) : Tells(n, t, i)
      BY <1>5, <2>1
    <3> QED BY <1>1, <1>3, <1>7, <2>1, <3>1
  <2>2. CASE i = k + 1
    <3>1. i \in 1 .. 5
      BY <1>1, <2>2
    <3>2. \A n : n = Len(arrived) + 1 => Tells(n, t, i)'
      BY <1>8, <2>2, <3>1
    <3> QED BY <1>3, <3>2
  <2> QED BY <1>1, <2>1, <2>2
<1>11. ASSUME NEW n \in 1 .. Len(arrived'), NEW m \in 1 .. Len(arrived'), NEW i \in 1 .. 5, NEW j \in 1 .. 5,
              n < m, Tells(n, t, i)', Tells(m, t, j)'
       PROVE  i < j
  <2>1. n \in 1 .. Len(arrived) /\ Tells(n, t, i)
    BY <1>3, <1>7, <1>11
  <2>2. CASE m \in 1 .. Len(arrived)
    BY <1>7, <1>11, <2>1, <2>2 DEF Ordered
  <2>3. CASE m = Len(arrived) + 1
    <3>1. j = k + 1 /\ i <= k
      BY <1>6, <1>8, <1>11, <2>1, <2>3
    <3> QED BY <1>1, <3>1
  <2> QED BY <1>3, <2>2, <2>3
<1> QED BY <1>2, <1>9, <1>11, <1>10 DEF Ordered

LEMMA TroubleStays == [Next]_vars => trouble \subseteq trouble'
BY DEF Next, vars, Script, Start, receiveJson, Examine, Expired, TimedOut, GiveUp, Stop, Claim, Update, Up, DeadlinePasses, Drop, Noise, Advance, Fault, Troubled

LEMMA OrderStep ==
  MailboxInv /\ FinallyInv /\ TaskTyped /\ TaskNamed /\ Untold /\ OrderInv /\ [Next]_vars => OrderInv'
<1> SUFFICES ASSUME MailboxInv, FinallyInv, TaskTyped, TaskNamed, Untold, OrderInv, [Next]_vars, trouble' = {}
             PROVE  Ordered(2)' /\ Ordered(3)' /\ FirstOnce'
  BY DEF OrderInv
<1>1. trouble = {} /\ Ordered(2) /\ Ordered(3) /\ FirstOnce
  BY TroubleStays DEF OrderInv
<1>2. {1, 2, 3} \subseteq Task /\ \A t \in {2, 3} : Ordered(t)
  BY <1>1 DEF Task
<1>3. ASSUME FirstOnce, status'[1] \in {"none", "sent"} => status[1] \in {"none", "sent"},
             UNCHANGED arrived \/ \E m \in Message : arrived' = Append(arrived, m) /\ m.task # 1
      PROVE  FirstOnce'
  <2>1. CASE UNCHANGED arrived
    BY <1>3, <2>1 DEF FirstOnce, Tells
  <2>2. ASSUME NEW m \in Message, arrived' = Append(arrived, m), m.task # 1 PROVE FirstOnce'
    <3>1. /\ Len(arrived) \in Nat /\ Len(arrived') = Len(arrived) + 1
          /\ \A n \in 1 .. Len(arrived) : arrived'[n] = arrived[n]
          /\ arrived'[Len(arrived) + 1].task # 1
      BY <2>2, LenProperties, AppendProperties DEF MailboxInv
    <3>2. \A n \in 1 .. Len(arrived') : n \in 1 .. Len(arrived) \/ arrived'[n].task # 1
      BY <3>1
    <3> QED BY <1>3, <3>1, <3>2 DEF FirstOnce, Tells
  <2> QED BY <1>3, <2>1, <2>2
<1>4. ASSUME UNCHANGED arrived,
             \A t \in {2, 3} : status'[t] = status[t] \/ (status[t] = "none" /\ status'[t] = "sent"),
             status'[1] \in {"none", "sent"} => status[1] \in {"none", "sent"}
      PROVE  Ordered(2)' /\ Ordered(3)' /\ FirstOnce'
  <2>1. ASSUME NEW t \in {2, 3} PROVE status'[t] \in DOMAIN Rank /\ Rank[status'[t]] = Rank[status[t]]
    BY <1>2, <1>4, <2>1 DEF Ordered, Rank
  <2> QED BY <1>1, <1>2, <1>3, <1>4, <2>1, OrderedStays
<1>5. CASE UNCHANGED <<status, arrived>>
  BY <1>4, <1>5
<1>6. CASE Start
  <2>1. status[task] = "none" /\ status' = [status EXCEPT ![task] = "sent"] /\ UNCHANGED arrived /\ task \in Task
    BY <1>6 DEF Start, Untold, TaskTyped
  <2> QED BY <1>4, <2>1 DEF TaskTyped, Task
<1>7. ASSUME UNCHANGED arrived, pc \in {"claim", "update"}, NEW s \in {"leased", "updated"}, status' = [status EXCEPT ![taskId] = s]
      PROVE  Ordered(2)' /\ Ordered(3)' /\ FirstOnce'
  BY <1>4, <1>7 DEF Untold, TaskTyped, Task
<1>8. ASSUME NEW t \in Task, Advance(t) PROVE Ordered(2)' /\ Ordered(3)' /\ FirstOnce'
  <2>1. /\ \A u \in Task : u # t => status'[u] = status[u]
        /\ status'[t] = Turn[status[t]] /\ CanTurn(t)
        /\ arrived' = Append(arrived, [task |-> t, type |-> Turn[status[t]]])
        /\ [task |-> t, type |-> Turn[status[t]]] \in Message
    BY <1>8, TurnsAreMessages DEF Advance, CanTurn, Arrive, TaskTyped
  <2>2. ASSUME NEW u \in {2, 3} PROVE Ordered(u)'
    <3>1. CASE u = t
      BY <1>2, <1>8, <3>1, OrderedOn
    <3>2. CASE u # t
      <4>1. status'[u] \in DOMAIN Rank /\ Rank[status'[u]] = Rank[status[u]]
        BY <1>2, <2>1, <3>2 DEF Ordered
      <4> QED BY <1>2, <2>1, <3>2, <4>1, OrderedStays
    <3> QED BY <3>1, <3>2
  <2>3. FirstOnce'
    <3>1. CASE t # 1
      BY <1>1, <1>2, <1>3, <2>1, <3>1
    <3>2. CASE t = 1
      <4>1. status[1] \in DOMAIN Turn /\ status'[1] \notin {"none", "sent"}
        BY <2>1, <3>2 DEF CanTurn, Turn
      <4>2. status[1] # "sent" => Turn[status[1]] # "requested"
        BY <4>1 DEF Turn
      <4>3. /\ Len(arrived) \in Nat /\ Len(arrived') = Len(arrived) + 1
            /\ \A n \in 1 .. Len(arrived) : arrived'[n] = arrived[n]
            /\ arrived'[Len(arrived) + 1].type = Turn[status[1]]
        BY <2>1, <3>2, LenProperties, AppendProperties DEF MailboxInv
      <4>4. ASSUME NEW n \in 1 .. Len(arrived'), NEW m \in 1 .. Len(arrived'), Tells(n, 1, 1)', Tells(m, 1, 1)' PROVE n = m
        <5>1. \A k \in 1 .. Len(arrived) : Tells(k, 1, 1)' <=> Tells(k, 1, 1)
          BY <4>3 DEF Tells
        <5>2. CASE status[1] = "sent"
          BY <1>1, <4>3, <4>4, <5>1, <5>2 DEF FirstOnce, Tells
        <5>3. CASE status[1] # "sent"
          <6>1. n \in 1 .. Len(arrived) /\ m \in 1 .. Len(arrived)
            BY <4>2, <4>3, <4>4, <5>3, Ranks DEF Tells
          <6> QED BY <1>1, <4>4, <5>1, <6>1 DEF FirstOnce
        <5> QED BY <5>2, <5>3
      <4> QED BY <4>1, <4>4 DEF FirstOnce
    <3> QED BY <3>1, <3>2
  <2> QED BY <2>2, <2>3
<1>9. ASSUME NEW t \in Task, Fault(t) PROVE FALSE
  BY <1>9 DEF Fault, Troubled
<1>10. CASE UNCHANGED status /\ arrived' = Append(arrived, [task |-> 0, type |-> "noise"])
  <2>1. [task |-> 0, type |-> "noise"] \in Message /\ [task |-> 0, type |-> "noise"].task = 0
    BY TurnsAreMessages
  <2>2. ASSUME NEW u \in {2, 3} PROVE Ordered(u)'
    <3>1. status'[u] \in DOMAIN Rank /\ Rank[status'[u]] = Rank[status[u]] /\ u # 0
      BY <1>2, <1>10 DEF Ordered
    <3> QED BY <1>2, <1>10, <2>1, <3>1, OrderedStays
  <2> QED BY <1>1, <1>3, <1>10, <2>1, <2>2
<1> QED BY <1>5, <1>6, <1>7, <1>8, <1>9, <1>10, RoomSteps DEF RoomKinds

-----------------------------------------------------------------------------
(* So the script takes the request it waits for, then the task's steps one  *)
(* after the other, and none is left after the last: it has no reason to    *)
(* fail.                                                                   *)
Following ==
  /\ taskId = task /\ Len(taskEvents) \in 0 .. 4 /\ (pc = "collect" => Len(taskEvents) # 4)
  /\ Len(taskEvents) + 1 <= Rank[status[task]]
  /\ \A i \in 1 .. Len(taskEvents) : taskEvents[i] = expectedEvents[i]
  /\ \A n \in 1 .. Len(arrived), i \in 1 .. 5 : Tells(n, task, i) => (n <= Dealt <=> i <= Len(taskEvents) + 1)

FollowInv == trouble = {} =>
  /\ outcome # "failed"
  /\ pc \in {"collect", "observe"} => Following
  /\ pc = "await" /\ task # 1 => \A n \in 1 .. Dealt : arrived[n].task # task
  /\ pc \in {"claim", "update", "up"} \/ task # 1 =>
       status[1] \notin {"none", "sent"} /\ \A n \in 1 .. Len(arrived) : Tells(n, 1, 1) => n <= Dealt

LEMMA FollowInitially == Init => FollowInv
BY DEF Init, FollowInv

(* What an untroubled room adds to what was told. *)
LEMMA RoomNews ==
  ASSUME MailboxInv, FinallyInv, TaskTyped, TaskNamed, Untold, OrderInv, [Next]_vars, trouble' = {}
  PROVE  /\ Len(arrived) \in Nat /\ Len(arrived') \in Nat /\ Len(arrived) <= Len(arrived')
         /\ \A n \in 1 .. Len(arrived) : arrived'[n] = arrived[n]
         /\ \A t \in {2, 3} : Rank[status[t]] \in 0 .. 5 /\ Rank[status'[t]] \in 0 .. 5 /\ Rank[status[t]] <= Rank[status'[t]]
         /\ \A t \in {2, 3}, i \in 1 .. 5, n \in 1 .. Len(arrived') : Tells(n, t, i)' => n \in 1 .. Len(arrived) \/ i > Rank[status[t]]
         /\ status[1] \notin {"none", "sent"} =>
              status'[1] \notin {"none", "sent"} /\ \A n \in 1 .. Len(arrived') : Tells(n, 1, 1)' => n \in 1 .. Len(arrived)
<1>1. trouble = {} /\ FirstOnce /\ \A t \in {2, 3} : Ordered(t) /\ status[t] \in DOMAIN Rank /\ Rank[status[t]] \in 0 .. 5
  <2>1. trouble = {}
    BY TroubleStays
  <2>2. FirstOnce /\ \A t \in {2, 3} : Ordered(t)
    BY <2>1 DEF OrderInv
  <2>3. ASSUME NEW t \in {2, 3} PROVE status[t] \in DOMAIN Rank /\ Rank[status[t]] \in 0 .. 5
    <3>1. Ordered(t)
      BY <2>2
    <3>2. status[t] \in DOMAIN Rank
      BY <3>1 DEF Ordered
    <3> QED BY <3>2, Ranks
  <2> QED BY <2>1, <2>2, <2>3
<1>2. Ordered(2)' /\ Ordered(3)'
  BY OrderStep DEF OrderInv
<1>3. \A t \in {2, 3} : status'[t] \in DOMAIN Rank /\ Rank[status'[t]] \in 0 .. 5
  BY <1>2, Ranks DEF Ordered
<1>4. Len(arrived) \in Nat /\ arrived \in Seq(Message)
  BY LenProperties DEF MailboxInv
<1>5. CASE UNCHANGED arrived /\ \A t \in Task : status'[t] = status[t] \/ (status[t] = "none" /\ status'[t] = "sent")
                                                \/ (t = 1 /\ status'[t] \in {"leased", "updated"})
  <2>1. \A t \in {2, 3} : Rank[status'[t]] = Rank[status[t]]
    BY <1>5 DEF Rank, Task
  <2> QED BY <1>1, <1>4, <1>5, <2>1 DEF Tells, Task
<1>6. CASE Start
  BY <1>5, <1>6 DEF Start, Untold, TaskTyped
<1>7. ASSUME UNCHANGED arrived, pc \in {"claim", "update"}, NEW s \in {"leased", "updated"}, status' = [status EXCEPT ![taskId] = s]
      PROVE  UNCHANGED arrived /\ \A t \in Task : status'[t] = status[t] \/ (t = 1 /\ status'[t] \in {"leased", "updated"})
  BY <1>7 DEF Untold, TaskTyped, Task
<1>8. ASSUME NEW m \in Message, arrived' = Append(arrived, m)
      PROVE  /\ Len(arrived') = Len(arrived) + 1 /\ \A n \in 1 .. Len(arrived) : arrived'[n] = arrived[n]
             /\ arrived'[Len(arrived) + 1] = m
  BY <1>4, <1>8, AppendProperties
<1>9. ASSUME NEW u \in Task, Advance(u)
      PROVE  /\ \A t \in {2, 3} : Rank[status[t]] <= Rank[status'[t]]
             /\ \E m \in Message : /\ arrived' = Append(arrived, m)
                                   /\ \A t \in {2, 3}, i \in 1 .. 5 : m.task = t /\ m.type = lifecycle[i] => i > Rank[status[t]]
                                   /\ status[1] \notin {"none", "sent"} => ~(m.task = 1 /\ m.type = "requested")
             /\ status[1] \notin {"none", "sent"} => status'[1] \notin {"none", "sent"}
  <2>1. /\ \A t \in Task : t # u => status'[t] = status[t]
        /\ status'[u] = Turn[status[u]] /\ status[u] \in DOMAIN Turn
        /\ arrived' = Append(arrived, [task |-> u, type |-> Turn[status[u]]])
        /\ [task |-> u, type |-> Turn[status[u]]] \in Message
    BY <1>9, TurnsAreMessages DEF Advance, CanTurn, Arrive, TaskTyped
  <2>2. ASSUME u \in {2, 3} PROVE /\ Rank[status[u]] + 1 \in 1 .. 5 /\ Rank[status'[u]] = Rank[status[u]] + 1
                                 /\ Turn[status[u]] = lifecycle[Rank[status[u]] + 1]
    <3>1. status[u] \in DOMAIN Rank \ {"none", "succeeded"}
      BY <1>1, <2>1, <2>2, TurnsAreStates
    <3> QED BY <2>1, <3>1, Ranks
  <2>3. \A t \in {2, 3} : Rank[status[t]] <= Rank[status'[t]]
    BY <1>1, <2>1, <2>2 DEF Task
  <2>4. ASSUME NEW t \in {2, 3}, NEW i \in 1 .. 5, u = t, Turn[status[u]] = lifecycle[i] PROVE i > Rank[status[t]]
    BY <1>1, <2>2, <2>4, Ranks
  <2>5. ASSUME status[1] \notin {"none", "sent"}
        PROVE  status'[1] \notin {"none", "sent"} /\ (u = 1 => Turn[status[u]] # "requested")
    BY <2>1, <2>5 DEF Turn, Task
  <2> QED BY <2>1, <2>3, <2>4, <2>5
<1>10. ASSUME NEW t \in Task, Fault(t) PROVE FALSE
  BY <1>10 DEF Fault, Troubled
<1>11. ASSUME \A t \in {2, 3} : Rank[status[t]] <= Rank[status'[t]],
              status[1] \notin {"none", "sent"} => status'[1] \notin {"none", "sent"},
              NEW m \in Message, arrived' = Append(arrived, m),
              \A t \in {2, 3}, i \in 1 .. 5 : m.task = t /\ m.type = lifecycle[i] => i > Rank[status[t]],
              status[1] \notin {"none", "sent"} => ~(m.task = 1 /\ m.type = "requested")
       PROVE  /\ Len(arrived') \in Nat /\ Len(arrived) <= Len(arrived')
              /\ \A n \in 1 .. Len(arrived) : arrived'[n] = arrived[n]
              /\ \A t \in {2, 3}, i \in 1 .. 5, n \in 1 .. Len(arrived') : Tells(n, t, i)' => n \in 1 .. Len(arrived) \/ i > Rank[status[t]]
              /\ status[1] \notin {"none", "sent"} => \A n \in 1 .. Len(arrived') : Tells(n, 1, 1)' => n \in 1 .. Len(arrived)
  <2>1. /\ Len(arrived') = Len(arrived) + 1 /\ \A n \in 1 .. Len(arrived) : arrived'[n] = arrived[n]
        /\ arrived'[Len(arrived) + 1] = m
    BY <1>8, <1>11
  <2>2. \A n \in 1 .. Len(arrived') : n \in 1 .. Len(arrived) \/ arrived'[n] = m
    BY <1>4, <2>1
  <2> QED BY <1>4, <1>11, <2>1, <2>2, Ranks DEF Tells
<1>12. CASE UNCHANGED status /\ arrived' = Append(arrived, [task |-> 0, type |-> "noise"])
  <2>1. [task |-> 0, type |-> "noise"] \in Message
    BY TurnsAreMessages
  <2> QED BY <1>1, <1>3, <1>4, <1>11, <1>12, <2>1, SMTT(20)
<1>13. CASE \E t \in Task : Advance(t)
  BY <1>1, <1>3, <1>4, <1>9, <1>11, <1>13
<1> QED BY <1>5, <1>6, <1>7, <1>10, <1>12, <1>13, RoomSteps DEF RoomKinds

(* The message in the script's hands is one the room told. *)
LEMMA HandArrived ==
  ASSUME MailboxInv, HandInv, TaskTyped, [Next]_vars, Examine
  PROVE  /\ Dealt \in Nat /\ Dealt + 1 \in 1 .. Len(arrived) /\ Len(arrived) \in Nat
         /\ hand \in Message /\ hand = arrived[Dealt + 1]
         /\ Dealt' = Dealt + 1 /\ UNCHANGED <<arrived, status>>
<1>1. hand \in Message /\ hand = taken[Dealt + 1] /\ Dealt \in Nat /\ Dealt' = Dealt + 1 /\ Dealt' = Len(taken)
  BY DealtSteps
<1> QED BY <1>1, TakenArrived DEF Examine, room

(* A request is the first message about its task that the script takes.     *)
LEMMA RequestFirst ==
  ASSUME MailboxInv, HandInv, FinallyInv, TaskTyped, TaskNamed, Untold, OrderInv, FollowInv, trouble = {},
         [Next]_vars, pc = "await", Examine
  PROVE  /\ hand.task = task /\ task # 1 => hand.type = "requested" /\ Rank[status[task]] >= 1
         /\ hand.type = "requested" /\ skillId(hand.task) = skillId(task) => hand.task = task
<1>1. /\ Dealt \in Nat /\ Dealt + 1 \in 1 .. Len(arrived) /\ Len(arrived) \in Nat
      /\ hand \in Message /\ hand = arrived[Dealt + 1]
  BY HandArrived
<1>2. /\ task \in 1 .. 3 /\ \A t \in {2, 3} : Ordered(t)
      /\ task # 1 => \A n \in 1 .. Dealt : arrived[n].task # task
      /\ task # 1 => \A n \in 1 .. Len(arrived) : Tells(n, 1, 1) => n <= Dealt
  BY DEF TaskTyped, Task, OrderInv, FollowInv
<1>3. ASSUME hand.task = task, task # 1 PROVE hand.type = "requested" /\ Rank[status[task]] >= 1
  <2>0. Ordered(task)
    BY <1>2, <1>3
  <2>1. Ordered(task) /\ Rank[status[task]] \in 0 .. 5
    BY <2>0, Ranks DEF Ordered
  <2>2. PICK i \in 1 .. Rank[status[task]] : Tells(Dealt + 1, task, i)
    BY <1>1, <1>3, <2>1 DEF Ordered
  <2>3. PICK n \in 1 .. Len(arrived) : Tells(n, task, 1)
    BY <2>1, <2>2 DEF Ordered
  <2>4. n > Dealt
    BY <1>1, <1>2, <1>3, <2>3 DEF Tells
  <2>5. ~(Dealt + 1 < n)
    <3>1. i \in 1 .. 5 /\ ~(i < 1)
      BY <2>1, <2>2
    <3> QED BY <1>1, <2>1, <2>2, <2>3, <3>1 DEF Ordered
  <2>6. n = Dealt + 1
    BY <1>1, <2>4, <2>5
  <2> QED BY <1>1, <2>1, <2>2, <2>3, <2>6, Ranks DEF Tells
<1>4. ASSUME hand.type = "requested", skillId(hand.task) = skillId(task) PROVE hand.task = task
  <2>1. hand.task \in 1 .. 3
    BY <1>1, <1>4 DEF Message, Task
  <2>2. hand.task # 1 \/ task = 1
    BY <1>1, <1>2, <1>4, Ranks DEF Tells
  <2>3. hand.task # 2 \/ task # 1
    BY <1>1 DEF Untold, Task
  <2> QED BY <1>2, <1>4, <2>1, <2>2, <2>3 DEF skillId
<1> QED BY <1>3, <1>4

(* The next message about the task tells its next step. *)
LEMMA NextStep ==
  ASSUME MailboxInv, HandInv, FinallyInv, TaskTyped, TaskNamed, Untold, OrderInv, FollowInv, trouble = {},
         [Next]_vars, pc \in {"collect", "observe"}, Examine, Concerns(hand)
  PROVE  /\ Tells(Dealt + 1, task, Len(taskEvents) + 2) /\ Len(taskEvents) + 2 \in 1 .. 5
         /\ Len(taskEvents) + 2 <= Rank[status[task]]
<1>1. /\ Dealt \in Nat /\ Dealt + 1 \in 1 .. Len(arrived) /\ Len(arrived) \in Nat
      /\ hand \in Message /\ hand = arrived[Dealt + 1]
  BY HandArrived
<1>2. /\ task \in {2, 3} /\ \A t \in {2, 3} : Ordered(t)
  BY DEF TaskTyped, Task, OrderInv, FinallyInv
<1>3. Following
  BY DEF FollowInv
<1> DEFINE c == Len(taskEvents)
<1>4. /\ Ordered(task) /\ Rank[status[task]] \in 0 .. 5 /\ hand.task = task /\ c \in 0 .. 4
      /\ \A n \in 1 .. Len(arrived), i \in 1 .. 5 : Tells(n, task, i) => (n <= Dealt <=> i <= c + 1)
  BY <1>2, <1>3, Ranks DEF Ordered, Following, Concerns
<1> HIDE DEF c
<1>5. PICK i \in 1 .. Rank[status[task]] : Tells(Dealt + 1, task, i)
  BY <1>1, <1>4 DEF Ordered
<1>6. i > c + 1 /\ c + 2 \in 1 .. Rank[status[task]] /\ c + 2 \in 1 .. 5
  BY <1>1, <1>4, <1>5
<1>7. PICK n \in 1 .. Len(arrived) : Tells(n, task, c + 2)
  BY <1>4, <1>6 DEF Ordered
<1>8. n > Dealt /\ ~(Dealt + 1 < n)
  <2>1. n > Dealt
    BY <1>1, <1>4, <1>6, <1>7
  <2>2. Dealt + 1 < n => i < c + 2
    <3>1. \A m, o \in 1 .. Len(arrived), a, b \in 1 .. 5 : m < o /\ Tells(m, task, a) /\ Tells(o, task, b) => a < b
      BY <1>4 DEF Ordered
    <3>2. Dealt + 1 \in 1 .. Len(arrived) /\ i \in 1 .. 5
      BY <1>1, <1>4
    <3> QED BY <1>5, <1>6, <1>7, <3>1, <3>2
  <2> QED BY <1>4, <1>6, <2>1, <2>2
<1>9. n = Dealt + 1
  BY <1>1, <1>8
<1> QED BY <1>4, <1>6, <1>7, <1>9 DEF c

LEMMA FollowStep ==
  MailboxInv /\ HandInv /\ FinallyInv /\ TaskTyped /\ TaskNamed /\ ConfirmInv /\ Untold /\ OrderInv /\ FollowInv
    /\ [Next]_vars => FollowInv'
<1> SUFFICES ASSUME MailboxInv, HandInv, FinallyInv, TaskTyped, TaskNamed, ConfirmInv, Untold, OrderInv, FollowInv,
                    [Next]_vars, trouble' = {}
             PROVE  FollowInv'
  BY DEF FollowInv
<1>1. trouble = {}
  BY TroubleStays
<1>2. /\ outcome # "failed"
      /\ pc \in {"collect", "observe"} => Following
      /\ pc = "await" /\ task # 1 => \A n \in 1 .. Dealt : arrived[n].task # task
      /\ pc \in {"claim", "update", "up"} \/ task # 1 =>
           status[1] \notin {"none", "sent"} /\ \A n \in 1 .. Len(arrived) : Tells(n, 1, 1) => n <= Dealt
  BY <1>1 DEF FollowInv
<1>3. /\ Dealt \in Nat /\ Dealt <= Len(arrived) /\ Len(arrived) \in Nat /\ task \in 1 .. 3
      /\ pc \in {"collect", "observe"} => task \in {2, 3}
      /\ \A t \in {2, 3} : Ordered(t)
  BY <1>1, DealtSteps, TakenArrived DEF TaskTyped, Task, FinallyInv, OrderInv
<1>4. /\ Len(arrived') \in Nat /\ Len(arrived) <= Len(arrived')
      /\ \A n \in 1 .. Len(arrived) : arrived'[n] = arrived[n]
      /\ \A t \in {2, 3} : Rank[status[t]] \in 0 .. 5 /\ Rank[status'[t]] \in 0 .. 5 /\ Rank[status[t]] <= Rank[status'[t]]
      /\ \A t \in {2, 3}, i \in 1 .. 5, n \in 1 .. Len(arrived') : Tells(n, t, i)' => n \in 1 .. Len(arrived) \/ i > Rank[status[t]]
      /\ status[1] \notin {"none", "sent"} =>
           status'[1] \notin {"none", "sent"} /\ \A n \in 1 .. Len(arrived') : Tells(n, 1, 1)' => n \in 1 .. Len(arrived)
  BY RoomNews
<1>5. \A n \in 1 .. Len(arrived), t \in Task, i \in 1 .. 5 : Tells(n, t, i)' <=> Tells(n, t, i)
  BY <1>4 DEF Tells
<1>6. ASSUME Dealt' >= Dealt, Dealt' \in Nat, pc \in {"claim", "update", "up"} \/ task # 1
      PROVE  status'[1] \notin {"none", "sent"} /\ \A n \in 1 .. Len(arrived') : Tells(n, 1, 1)' => n <= Dealt'
  <2>1. ASSUME NEW n \in 1 .. Len(arrived'), Tells(n, 1, 1)' PROVE n <= Dealt'
    <3>1. n \in 1 .. Len(arrived) /\ Tells(n, 1, 1)
      BY <1>2, <1>4, <1>5, <1>6, <2>1 DEF Task
    <3> QED BY <1>2, <1>3, <1>6, <3>1
  <2> QED BY <1>2, <1>4, <1>6, <2>1
<1>7. Idle \/ Taking \/ Examine \/ Failing \/ Finishing \/ Moving
  BY Kinds
<1>8. ASSUME UNCHANGED <<task, taskId, taskEvents>>, Following, task \in {2, 3}, pc' = "collect" => pc = "collect",
             Dealt' = Dealt \/ (Dealt' = Dealt + 1 /\ Dealt' <= Len(arrived) /\ arrived[Dealt + 1].task # task)
      PROVE  Following'
  <2> DEFINE c == Len(taskEvents)
  <2>1. c \in 0 .. 4 /\ c + 1 <= Rank[status[task]] /\ c + 1 <= Rank[status'[task]]
    BY <1>4, <1>8 DEF Following
  <2>2. ASSUME NEW n \in 1 .. Len(arrived'), NEW i \in 1 .. 5, Tells(n, task, i)' PROVE n <= Dealt' <=> i <= c + 1
    <3>1. CASE n \in 1 .. Len(arrived)
      <4>1. Tells(n, task, i)
        BY <1>4, <1>8, <2>2, <3>1 DEF Tells
      <4>2. (n <= Dealt <=> i <= c + 1) /\ arrived[n].task = task
        BY <1>8, <3>1, <4>1 DEF Following, Tells
      <4> QED BY <1>3, <1>8, <3>1, <4>2
    <3>2. CASE n \notin 1 .. Len(arrived)
      <4>1. i > Rank[status[task]]
        BY <1>4, <1>8, <2>2, <3>2 DEF Tells
      <4> QED BY <1>3, <1>4, <1>8, <2>1, <3>2, <4>1, SMTT(20)
    <3> QED BY <3>1, <3>2
  <2> QED BY <1>4, <1>8, <2>1, <2>2 DEF Following, Tells
<1>13. CASE Idle \/ Taking
  <2>1. UNCHANGED <<pc, task, taskId, taskEvents, outcome>> /\ Dealt' = Dealt
    BY <1>13, DealtSteps DEF Idle, Taking, steps
  <2>2. pc \in {"collect", "observe"} => Following'
    BY <1>2, <1>3, <1>8, <2>1
  <2>3. pc = "await" /\ task # 1 => \A n \in 1 .. Dealt' : arrived'[n].task # task'
    BY <1>2, <1>3, <1>4, <2>1
  <2> QED BY <1>2, <1>3, <1>6, <2>1, <2>2, <2>3 DEF FollowInv
<1>9. CASE Failing
  BY <1>9 DEF Failing
<1>10. CASE Finishing
  <2>1. Dealt' = Dealt /\ pc' \in {"done", "start"} /\ outcome' \in {outcome, "passed"} /\ task # 1
    BY <1>3, <1>10, DealtSteps DEF Finishing, Observed
  <2> QED BY <1>2, <1>3, <1>6, <2>1 DEF FollowInv
<1>11. CASE Moving
  <2>1. Dealt' = Dealt /\ UNCHANGED outcome /\ pc' \in {"start", "await", "update", "up", "done"}
    BY <1>11, DealtSteps DEF Moving
  <2>2. pc' \in {"claim", "update", "up"} \/ task' # 1 => pc \in {"claim", "update", "up"} \/ task # 1
    BY <1>11 DEF Moving
  <2>3. ASSUME pc' = "await" PROVE \A n \in 1 .. Dealt' : arrived'[n].task # task'
    <3>1. status[task] = "none" /\ task' = task
      BY <1>11, <2>3 DEF Moving, Untold, TaskTyped
    <3>2. \A n \in 1 .. Len(arrived) : arrived[n].task # task
      BY <3>1 DEF Untold, TaskTyped
    <3> QED BY <1>3, <1>4, <2>1, <3>1, <3>2
  <2> QED BY <1>2, <1>3, <1>6, <2>1, <2>2, <2>3 DEF FollowInv
<1>12. CASE Examine
  <2>1. /\ Dealt + 1 \in 1 .. Len(arrived) /\ hand \in Message /\ hand = arrived[Dealt + 1]
        /\ Dealt' = Dealt + 1 /\ UNCHANGED <<arrived, status>>
    BY <1>12, HandArrived
  <2>2. ASSUME Ignore, ~(pc \in {"collect", "observe"} /\ hand.task = taskId), ~(pc = "await" /\ task # 1 /\ hand.task = task)
        PROVE  FollowInv'
    <3>1. UNCHANGED <<pc, task, taskId, taskEvents, outcome>>
      BY <2>2 DEF Ignore, script
    <3>2. pc \in {"collect", "observe"} => Following'
      <4>1. pc \in {"collect", "observe"} => arrived[Dealt + 1].task # task
        BY <1>2, <2>1, <2>2 DEF Following
      <4> QED BY <1>2, <1>3, <1>8, <2>1, <3>1, <4>1
    <3>3. pc = "await" /\ task # 1 => \A n \in 1 .. Dealt' : arrived'[n].task # task'
      BY <1>2, <1>3, <2>1, <2>2, <3>1
    <3> QED BY <1>2, <1>3, <1>6, <2>1, <3>1, <3>2, <3>3 DEF FollowInv
  <2>3. ASSUME pc = "await", Requested(hand) PROVE FollowInv'
    <3>1. /\ hand.task = task /\ task # 1 => hand.type = "requested" /\ Rank[status[task]] >= 1
          /\ hand.type = "requested" /\ skillId(hand.task) = skillId(task) => hand.task = task
      BY <1>1, <1>12, <2>3, RequestFirst
    <3>2. CASE ~(hand.type = "requested" /\ skillId(hand.task) = skillId(task))
      BY <2>2, <2>3, <3>1, <3>2 DEF Requested
    <3>3. CASE hand.type = "requested" /\ skillId(hand.task) = skillId(task)
      <4>1. /\ hand.task = task /\ taskId' = task /\ taskEvents' = <<>>
            /\ UNCHANGED <<task, outcome>> /\ pc' = IF task = 1 THEN "claim" ELSE "collect"
        BY <2>3, <3>1, <3>3 DEF Requested, ConfirmInv
      <4>2. Tells(Dealt + 1, task, 1)
        BY <2>1, <3>3, <4>1, Ranks DEF Tells
      <4>3. CASE task = 1
        <5>1. FirstOnce
          BY <1>1 DEF OrderInv
        <5>2. status[1] \notin {"none", "sent"} /\ \A n \in 1 .. Len(arrived) : Tells(n, 1, 1) => n = Dealt + 1
          BY <2>1, <4>1, <4>2, <4>3, <5>1 DEF FirstOnce
        <5>3. status'[1] \notin {"none", "sent"} /\ \A n \in 1 .. Len(arrived') : Tells(n, 1, 1)' => n <= Dealt'
          BY <1>3, <2>1, <5>2 DEF Tells
        <5> QED BY <1>2, <4>1, <4>3, <5>3 DEF FollowInv
      <4>4. CASE task # 1
        <5>1. Ordered(task) /\ task \in {2, 3}
          BY <1>3, <4>4
        <5>2. ASSUME NEW n \in 1 .. Len(arrived), NEW i \in 1 .. 5, Tells(n, task, i) PROVE n <= Dealt + 1 <=> i <= 1
          <6>1. n > Dealt
            BY <1>2, <1>3, <2>3, <4>4, <5>2 DEF Tells
          <6>2. CASE n = Dealt + 1
            BY <1>3, <4>2, <5>2, <6>2, Ranks DEF Tells
          <6>3. CASE n > Dealt + 1
            <7>1. 1 < i
              BY <1>3, <2>1, <4>2, <5>1, <5>2, <6>3 DEF Ordered
            <7> QED BY <1>3, <6>3, <7>1
          <6> QED BY <1>3, <6>1, <6>2, <6>3
        <5>3. Len(taskEvents') = 0
          BY <4>1
        <5>4. Following'
          BY <1>4, <2>1, <3>1, <3>3, <4>1, <4>4, <5>1, <5>2, <5>3 DEF Following, Tells
        <5> QED BY <1>2, <1>3, <1>6, <2>1, <4>1, <4>4, <5>4 DEF FollowInv
      <4> QED BY <4>3, <4>4
    <3> QED BY <3>2, <3>3
  <2>4. ASSUME pc \in {"collect", "observe"}, Concerns(hand)
        PROVE  /\ Tells(Dealt + 1, task, Len(taskEvents) + 2) /\ Len(taskEvents) + 2 \in 1 .. 5
               /\ Len(taskEvents) + 2 <= Rank[status[task]]
    BY <1>1, <1>12, <2>4, NextStep
  <2>5. ASSUME pc = "collect", Collected(hand), Concerns(hand) PROVE FollowInv'
    <3> DEFINE c == Len(taskEvents)
               events == Append(taskEvents, hand.type)
    <3>1. Following /\ task \in {2, 3} /\ Ordered(task) /\ taskEvents \in Seq(Type)
      BY <1>2, <1>3, <2>5 DEF TaskTyped
    <3>2. /\ c \in 0 .. 3 /\ c + 2 \in 1 .. 5 /\ Tells(Dealt + 1, task, c + 2) /\ c + 2 <= Rank[status[task]]
      BY <2>4, <2>5, <3>1 DEF Following
    <3>3. hand.type = lifecycle[c + 2] /\ hand.type = expectedEvents[c + 1]
          /\ (hand.type = "succeeded" <=> c = 3) /\ hand.type \in {"accepted", "reading", "preparing", "succeeded"}
      <4>1. hand.type = lifecycle[c + 2]
        BY <2>1, <3>2 DEF Tells
      <4>2. /\ lifecycle[2] = "accepted" /\ lifecycle[3] = "reading" /\ lifecycle[4] = "preparing" /\ lifecycle[5] = "succeeded"
            /\ expectedEvents[1] = "accepted" /\ expectedEvents[2] = "reading"
            /\ expectedEvents[3] = "preparing" /\ expectedEvents[4] = "succeeded"
        BY DEF lifecycle, expectedEvents
      <4>3. c = 0 \/ c = 1 \/ c = 2 \/ c = 3
        BY <3>2
      <4> HIDE DEF c
      <4> QED BY <4>1, <4>2, <4>3
    <3>4. hand.type \in Type
      BY <3>3 DEF Type
    <3>5. Len(events) = c + 1 /\ (\A i \in 1 .. c : events[i] = taskEvents[i]) /\ events[c + 1] = hand.type /\ events \in Seq(Type)
      BY <3>1, <3>4, AppendProperties
    <3>6. \A i \in 1 .. c + 1 : events[i] = expectedEvents[i]
      BY <3>1, <3>2, <3>3, <3>5 DEF Following
    <3>7. ASSUME c = 3 PROVE events = expectedEvents
      <4>1. expectedEvents \in Seq(Type) /\ Len(expectedEvents) = 4
        BY DEF expectedEvents, Type
      <4> QED BY <3>5, <3>6, <3>7, <4>1, SeqEqual
    <3>8. /\ taskEvents' = events /\ UNCHANGED <<task, taskId, outcome>>
          /\ pc' = IF c = 3 THEN "observe" ELSE "collect"
      BY <2>5, <3>3, <3>7 DEF Collected, Collect, Sequence
    <3> HIDE DEF events, c
    <3>9. ASSUME NEW n \in 1 .. Len(arrived), NEW i \in 1 .. 5, Tells(n, task, i) PROVE n <= Dealt + 1 <=> i <= c + 2
      <4>1. n <= Dealt <=> i <= c + 1
        BY <3>1, <3>9 DEF Following, c
      <4>2. CASE n <= Dealt
        BY <1>3, <3>2, <4>1, <4>2
      <4>3. CASE n = Dealt + 1
        BY <1>3, <3>2, <3>9, <4>3, Ranks DEF Tells
      <4>4. CASE n > Dealt + 1
        <5>1. c + 2 < i
          BY <1>3, <2>1, <3>1, <3>2, <3>9, <4>4 DEF Ordered
        <5> QED BY <1>3, <3>2, <4>4, <5>1
      <4> QED BY <1>3, <4>2, <4>3, <4>4
    <3>10. Following'
      <4>1. Len(taskEvents') = c + 1 /\ taskId' = task' /\ \A i \in 1 .. Len(taskEvents') : taskEvents'[i] = expectedEvents[i]
        BY <3>1, <3>5, <3>6, <3>8 DEF Following
      <4>2. \A n \in 1 .. Len(arrived'), i \in 1 .. 5 : Tells(n, task, i)' => (n <= Dealt' <=> i <= c + 2)
        BY <2>1, <3>8, <3>9 DEF Tells
      <4>3. Rank[status'[task']] >= c + 2
        BY <1>4, <2>1, <3>1, <3>2, <3>8
      <4>4. /\ Len(taskEvents') \in 0 .. 4 /\ (pc' = "collect" => Len(taskEvents') # 4)
            /\ Len(taskEvents') + 1 <= Rank[status'[task']]
        BY <1>4, <2>1, <3>1, <3>2, <3>8, <4>1, <4>3
      <4>5. \A n \in 1 .. Len(arrived'), i \in 1 .. 5 : Tells(n, task, i)' => (n <= Dealt' <=> i <= Len(taskEvents') + 1)
        BY <3>2, <4>1, <4>2
      <4> QED BY <4>1, <4>4, <4>5 DEF Following
    <3> QED BY <1>2, <1>3, <1>6, <2>1, <3>1, <3>8, <3>10 DEF FollowInv
  <2>6. ASSUME pc = "observe", Concerns(hand) PROVE FALSE
    <3>1. Len(taskEvents) = 4
      BY <2>6 DEF ConfirmInv, expectedEvents
    <3> QED BY <2>4, <2>6, <3>1
  <2>7. CASE pc = "collect" /\ Collected(hand)
    BY <2>2, <2>5, <2>7 DEF Collected, Concerns
  <2>8. CASE pc = "observe" /\ IF Concerns(hand) THEN Throw ELSE Ignore
    BY <2>2, <2>6, <2>8 DEF Concerns
  <2> QED BY <1>12, <2>3, <2>7, <2>8 DEF Examine
<1> QED BY <1>7, <1>9, <1>10, <1>11, <1>12, <1>13

-----------------------------------------------------------------------------
(* The tasks within smoke.sh: nothing of them before their stage, and no    *)
(* other step of them than their own and the loss of a connection that the  *)
(* set-up hands over.                                                       *)
TasksInv ==
  /\ MailboxInv /\ HandInv /\ FinallyInv /\ StepTyped /\ FlagsTyped /\ TaskTyped /\ TaskNamed
  /\ ConfirmInv /\ Untold /\ OrderInv /\ FollowInv
  /\ stage \in {"browser", "setup"} => pc = "stop"

LEMMA TasksBeginning == SmokeInit => TasksInv
<1> SUFFICES ASSUME SmokeInit PROVE TasksInv
  OBVIOUS
<1>1. Init
  BY DEF SmokeInit
<1>2. StepTyped /\ TaskNamed
  BY <1>1 DEF Init, StepTyped, TaskNamed
<1>3. FlagsTyped
  BY <1>1 DEF Init, FlagsTyped
<1>4. TaskTyped
  BY <1>1, ExtraAssumption, TurnsAreStates, EmptySeq DEF Init, TaskTyped, Task
<1> QED BY <1>1, <1>2, <1>3, <1>4, MailboxInitially, HandInitially, FinallyInitially, ConfirmInitially, UntoldInitially,
           OrderInitially, FollowInitially DEF TasksInv, Init

LEMMA StepsOfTasks == (stage \in {"browser", "setup"} => pc = "stop") /\ [SmokeNext]_smokevars => [Next]_vars
<1> SUFFICES ASSUME stage \in {"browser", "setup"} => pc = "stop", [SmokeNext]_smokevars PROVE [Next]_vars
  OBVIOUS
<1>1. CASE TaskStep(Next)
  BY <1>1 DEF TaskStep
<1>2. CASE TasksBegin
  BY <1>2 DEF TasksBegin, Next
<1> QED BY <1>1, <1>2 DEF SmokeNext, smokevars, BrowserStep, SetupStep, BrowserExits, SetupExits, TasksEnd

LEMMA TasksSteps == TasksInv /\ [SmokeNext]_smokevars => TasksInv'
<1> SUFFICES ASSUME TasksInv, [SmokeNext]_smokevars PROVE TasksInv'
  OBVIOUS
<1>1. [Next]_vars
  BY StepsOfTasks DEF TasksInv
<1>2. /\ MailboxInv' /\ HandInv' /\ FinallyInv' /\ StepTyped' /\ FlagsTyped' /\ TaskTyped' /\ TaskNamed'
      /\ ConfirmInv' /\ Untold' /\ OrderInv' /\ FollowInv'
  BY <1>1, MailboxStep, HandStep, FinallyStep, StepTypedStep, FlagsTypedStep, TaskTypedStep, ConfirmStep, UntoldStep, OrderStep,
     FollowStep DEF TasksInv
<1>3. stage' \in {"browser", "setup"} => pc' = "stop"
  BY DEF TasksInv, SmokeNext, smokevars, vars, script, BrowserStep, SetupStep, TaskStep, Within, BrowserExits, TasksBegin, SetupExits, TasksEnd, StepTyped
<1> QED BY <1>2, <1>3 DEF TasksInv

(* Messages reach the script in the order of their arrival, each once:      *)
(* deliver, receiveJson, its timer and rejectWaiters lose none.             *)
THEOREM MailboxKeeps == SmokeSpec => []NothingLost
<1>1. TasksInv => NothingLost
  BY DEF TasksInv, MailboxInv
<1> QED BY <1>1, TasksBeginning, TasksSteps, PTL DEF SmokeSpec

(* The agent gateway that the capture stopped runs again when the script    *)
(* ends, whatever was thrown, unless compose itself failed.                 *)
THEOREM FinallyRestores == SmokeSpec => []GatewayRestored
<1>1. TasksInv => GatewayRestored
  BY DEF TasksInv, FinallyInv, GatewayRestored
<1> QED BY <1>1, TasksBeginning, TasksSteps, PTL DEF SmokeSpec

(* invokeSkill and assertNoPostTerminalLifecycle pass only what they saw    *)
(* requested, carried out step by step and left alone, whatever else the    *)
(* room said and however late; and without trouble from outside they do not *)
(* fail, although the captured task is still told of.                       *)
THEOREM VerdictsTrue == SmokeSpec => []VerdictTrue
<1>1. TasksInv => VerdictTrue
  BY DEF TasksInv, ConfirmInv, FollowInv, VerdictTrue
<1> QED BY <1>1, TasksBeginning, TasksSteps, PTL DEF SmokeSpec

-----------------------------------------------------------------------------
(* browser-smoke.mjs: the bytes of the stream, and the frames they make.   *)

(* The bytes of BrowserSmoke: each tells what it contributes. *)
Bytes == [op : {"text", "close", "ping", "none", "101", "refused", "blank"}, length : Nat, masked : BOOLEAN,
          text : Browser!Text \cup {"none"}]

(* What is appended follows what was there. *)
LEMMA Extended ==
  ASSUME NEW S, NEW a \in Seq(S), NEW b \in Seq(S)
  PROVE  /\ a \o b \in Seq(S) /\ Len(a \o b) = Len(a) + Len(b)
         /\ \A i \in 1 .. Len(a) : (a \o b)[i] = a[i]
         /\ \A i \in Len(a) + 1 .. Len(a) + Len(b) : (a \o b)[i] = b[i - Len(a)]
<1>1. a \o b \in Seq(S) /\ Len(a \o b) = Len(a) + Len(b) /\ Len(a) \in Nat /\ Len(b) \in Nat
  BY ConcatProperties, LenProperties
<1>2. \A i \in 1 .. Len(a) + Len(b) : (a \o b)[i] = IF i <= Len(a) THEN a[i] ELSE b[i - Len(a)]
  BY ConcatProperties
<1> QED BY <1>1, <1>2

(* A byte repeated. *)
LEMMA Repeated ==
  ASSUME NEW S, NEW n \in Nat, NEW b \in S
  PROVE  /\ Browser!Times(n, b) \in Seq(S) /\ Len(Browser!Times(n, b)) = n
         /\ \A i \in 1 .. n : Browser!Times(n, b)[i] = b
BY DEF Browser!Times

LEMMA ByteMade ==
  ASSUME NEW op \in {"text", "close", "ping", "none", "101", "refused", "blank"}, NEW n \in Nat, NEW m \in BOOLEAN,
         NEW t \in Browser!Text \cup {"none"}
  PROVE  Browser!Byte(op, n, m, t) \in Bytes
BY DEF Browser!Byte, Bytes

LEMMA Frames ==
  ASSUME NEW f \in Browser!Frame
  PROVE  /\ f.op \in {"text", "close", "ping"} /\ f.text \in Browser!Text \cup {"none"} /\ f.size \in Nat
         /\ f.op = "text" => f.text \in Browser!Text /\ f.size > 0
         /\ f.op # "text" => f.text = "none" /\ f.size = 0 /\ f.size \notin Masked
<1>1. (\A n \in Sizes : n \in Nat /\ n > 0) /\ Masked \subseteq Sizes
  BY LengthAssumption
<1>2. CASE f \in [op : {"text"}, text : Browser!Text, size : Sizes]
  <2>1. f.op = "text" /\ f.text \in Browser!Text /\ f.size \in Sizes
    BY <1>2
  <2>2. f.size \in Nat /\ f.size > 0
    BY <1>1, <2>1
  <2> QED BY <2>1, <2>2
<1>3. CASE f \in [op : {"close", "ping"}, text : {"none"}, size : {0}]
  <2>1. f.size = 0 /\ 0 \notin Masked
    BY <1>1, <1>3
  <2> QED BY <1>3, <2>1
<1> QED BY <1>2, <1>3 DEF Browser!Frame

(* The bytes of a frame: two, its length if that takes more, its mask, and  *)
(* its payload.                                                             *)
Masking(f) == IF f.size \in Masked THEN 4 ELSE 0

(* The bytes of a frame before its payload, and its seven-bit length. *)
Header(f) == 2 + Browser!Extension(f.size) + Masking(f)

LengthCode(f) ==
  IF Browser!Extension(f.size) = 0 THEN f.size ELSE IF Browser!Extension(f.size) = 2 THEN Short + 1 ELSE Short + 2

(* What parseFrames relies on: where the lengths and the payload of an      *)
(* encoded frame are.                                                       *)
LEMMA Encoded ==
  ASSUME NEW f \in Browser!Frame
  PROVE  /\ Browser!Encode(f) \in Seq(Bytes) /\ Len(Browser!Encode(f)) = Header(f) + f.size
         /\ Browser!Encode(f)[1] = Browser!Byte(f.op, 0, FALSE, "none")
         /\ Browser!Encode(f)[2] = Browser!Byte("none", LengthCode(f), f.size \in Masked, "none")
         /\ Browser!Extension(f.size) # 0 => Browser!Encode(f)[2 + Browser!Extension(f.size)] = Browser!Byte("none", f.size, FALSE, "none")
         /\ \A i \in Header(f) + 1 .. Header(f) + f.size : Browser!Encode(f)[i] = Browser!Byte("none", 0, FALSE, f.text)
         /\ \A i \in 3 .. Header(f) + f.size : Browser!Encode(f)[i].op = "none"
<1> DEFINE x == Browser!Extension(f.size)
           k == Masking(f)
           first == Browser!Byte(f.op, 0, FALSE, "none")
           second == Browser!Byte("none", LengthCode(f), f.size \in Masked, "none")
           ext == Browser!Byte("none", f.size, FALSE, "none")
           fill == Browser!Filler
           body == Browser!Byte("none", 0, FALSE, f.text)
           A == <<first, second>>
           B == Browser!LengthBytes(f.size)
           C == Browser!Times(k, fill)
           D == Browser!Times(f.size, body)
<1>1. f.size \in Nat /\ f.text \in Browser!Text \cup {"none"} /\ f.op \in {"text", "close", "ping"}
  BY Frames
<1>2. Short \in Nat /\ Medium \in Nat
  BY LengthAssumption
<1>3. x \in {0, 2, 8} /\ k \in {0, 4} /\ LengthCode(f) \in Nat
  BY <1>1, <1>2 DEF Browser!Extension, Masking, LengthCode
<1>4. first \in Bytes /\ ext \in Bytes /\ fill \in Bytes /\ body \in Bytes
  BY <1>1, ByteMade DEF Browser!Filler
<1>5. second \in Bytes
  <2>1. (f.size \in Masked) \in BOOLEAN
    OBVIOUS
  <2> QED BY <1>3, <2>1, ByteMade
<1>6. Browser!Encode(f) = A \o B \o C \o D
  BY DEF Browser!Encode, LengthCode, Masking
<1> HIDE DEF first, second, ext, fill, body
<1>7. A \in Seq(Bytes) /\ Len(A) = 2 /\ A[1] = first /\ A[2] = second
  BY <1>4, <1>5
<1>8. /\ B \in Seq(Bytes) /\ Len(B) = x /\ (\A i \in 1 .. x : B[i] \in {ext, fill}) /\ (x # 0 => B[x] = ext)
      /\ C \in Seq(Bytes) /\ Len(C) = k /\ \A i \in 1 .. k : C[i] = fill
      /\ D \in Seq(Bytes) /\ Len(D) = f.size /\ \A i \in 1 .. f.size : D[i] = body
  <2>1. x \in Nat /\ k \in Nat
    BY <1>3
  <2>0. B = [i \in 1 .. x |-> IF i = x THEN ext ELSE fill]
    BY DEF Browser!LengthBytes, ext, fill
  <2> HIDE DEF x, k, B
  <2>2. B \in Seq(Bytes) /\ Len(B) = x /\ (\A i \in 1 .. x : B[i] \in {ext, fill}) /\ (x # 0 => B[x] = ext)
    <3>1. B \in Seq(Bytes) /\ Len(B) = x
      BY <1>4, <2>0, <2>1
    <3>2. x # 0 => x \in 1 .. x
      BY <2>1
    <3> QED BY <2>0, <3>1, <3>2
  <2>3. C \in Seq(Bytes) /\ Len(C) = k /\ \A i \in 1 .. k : C[i] = fill
    BY <1>4, <2>1, Repeated
  <2>4. D \in Seq(Bytes) /\ Len(D) = f.size /\ \A i \in 1 .. f.size : D[i] = body
    <3> DEFINE n == f.size
    <3>1. n \in Nat
      BY <1>1
    <3> HIDE DEF n
    <3>2. Browser!Times(n, body) \in Seq(Bytes) /\ Len(Browser!Times(n, body)) = n
          /\ \A i \in 1 .. n : Browser!Times(n, body)[i] = body
      BY <1>4, <3>1, Repeated
    <3> QED BY <3>2 DEF n
  <2> QED BY <2>2, <2>3, <2>4
<1> HIDE DEF A, B, C, D, x, k
<1>9. /\ A \o B \in Seq(Bytes) /\ Len(A \o B) = 2 + x
      /\ \A i \in 1 .. 2 : (A \o B)[i] = A[i]
      /\ \A i \in 2 + 1 .. 2 + x : (A \o B)[i] \in {ext, fill}
      /\ x # 0 => (A \o B)[2 + x] = ext
  <2> DEFINE p == A
             q == B
             s == p \o q
  <2>1. p \in Seq(Bytes) /\ q \in Seq(Bytes) /\ Len(p) = 2 /\ Len(q) = x
        /\ (\A i \in 1 .. Len(q) : q[i] \in {ext, fill}) /\ (x # 0 => q[x] = ext)
    BY <1>7, <1>8
  <2>2. 2 \in Nat /\ x \in Nat
    BY <1>1, <1>3
  <2> HIDE DEF p, q
  <2>3. s \in Seq(Bytes) /\ Len(s) = Len(p) + Len(q) /\ \A i \in 1 .. Len(p) : s[i] = p[i]
    BY <2>1, Extended
  <2>4. \A i \in Len(p) + 1 .. Len(p) + Len(q) : s[i] = q[i - Len(p)]
    BY <2>1, Extended
  <2> HIDE DEF s
  <2>5. \A i \in Len(p) + 1 .. Len(p) + Len(q) : s[i] \in {ext, fill}
    <3> TAKE i \in Len(p) + 1 .. Len(p) + Len(q)
    <3>1. i - Len(p) \in 1 .. Len(q)
      BY <2>1, <2>2
    <3> QED BY <2>1, <2>4, <3>1
  <2>6. Len(p) + 1 = 2 + 1 /\ Len(p) + Len(q) = 2 + x
    BY <2>1, <2>2
  <2>7. x # 0 => s[2 + x] = ext
    <3> SUFFICES ASSUME x # 0 PROVE s[2 + x] = ext
      OBVIOUS
    <3>1. 2 + x \in Len(p) + 1 .. Len(p) + Len(q) /\ 2 + x - Len(p) = x
      BY <2>1, <2>2
    <3> QED BY <2>1, <2>4, <3>1
  <2> QED BY <2>1, <2>2, <2>3, <2>5, <2>6, <2>7 DEF s, p, q
<1>10. /\ A \o B \o C \in Seq(Bytes) /\ Len(A \o B \o C) = 2 + x + k
       /\ \A i \in 1 .. 2 + x : (A \o B \o C)[i] = (A \o B)[i]
       /\ \A i \in 2 + x + 1 .. 2 + x + k : (A \o B \o C)[i] = fill
  <2> DEFINE p == A \o B
             q == C
             s == p \o q
  <2>1. p \in Seq(Bytes) /\ q \in Seq(Bytes) /\ Len(p) = 2 + x /\ Len(q) = k /\ \A i \in 1 .. Len(q) : q[i] = fill
    BY <1>8, <1>9
  <2>2. 2 + x \in Nat /\ k \in Nat
    BY <1>1, <1>3
  <2> HIDE DEF p, q
  <2>3. s \in Seq(Bytes) /\ Len(s) = Len(p) + Len(q) /\ \A i \in 1 .. Len(p) : s[i] = p[i]
    BY <2>1, Extended
  <2>4. \A i \in Len(p) + 1 .. Len(p) + Len(q) : s[i] = q[i - Len(p)]
    BY <2>1, Extended
  <2> HIDE DEF s
  <2>5. \A i \in Len(p) + 1 .. Len(p) + Len(q) : s[i] = fill
    <3> TAKE i \in Len(p) + 1 .. Len(p) + Len(q)
    <3>1. i - Len(p) \in 1 .. Len(q)
      BY <2>1, <2>2
    <3> QED BY <2>1, <2>4, <3>1
  <2>6. Len(p) + 1 = 2 + x + 1 /\ Len(p) + Len(q) = 2 + x + k
    BY <2>1, <2>2
  <2> QED BY <2>1, <2>2, <2>3, <2>5, <2>6 DEF s, p, q
<1>11. /\ A \o B \o C \o D \in Seq(Bytes) /\ Len(A \o B \o C \o D) = 2 + x + k + f.size
       /\ \A i \in 1 .. 2 + x + k : (A \o B \o C \o D)[i] = (A \o B \o C)[i]
       /\ \A i \in 2 + x + k + 1 .. 2 + x + k + f.size : (A \o B \o C \o D)[i] = body
  <2> DEFINE p == A \o B \o C
             q == D
             s == p \o q
  <2>1. p \in Seq(Bytes) /\ q \in Seq(Bytes) /\ Len(p) = 2 + x + k /\ Len(q) = f.size /\ \A i \in 1 .. Len(q) : q[i] = body
    BY <1>8, <1>10
  <2>2. 2 + x + k \in Nat /\ f.size \in Nat
    BY <1>1, <1>3
  <2> HIDE DEF p, q
  <2>3. s \in Seq(Bytes) /\ Len(s) = Len(p) + Len(q) /\ \A i \in 1 .. Len(p) : s[i] = p[i]
    BY <2>1, Extended
  <2>4. \A i \in Len(p) + 1 .. Len(p) + Len(q) : s[i] = q[i - Len(p)]
    BY <2>1, Extended
  <2> HIDE DEF s
  <2>5. \A i \in Len(p) + 1 .. Len(p) + Len(q) : s[i] = body
    <3> TAKE i \in Len(p) + 1 .. Len(p) + Len(q)
    <3>1. i - Len(p) \in 1 .. Len(q)
      BY <2>1, <2>2
    <3> QED BY <2>1, <2>4, <3>1
  <2>6. Len(p) + 1 = 2 + x + k + 1 /\ Len(p) + Len(q) = 2 + x + k + f.size
    BY <2>1, <2>2
  <2> QED BY <2>1, <2>2, <2>3, <2>5, <2>6 DEF s, p, q
<1> DEFINE s == A \o B \o C \o D
<1>12. Header(f) = 2 + x + k /\ Header(f) \in Nat
  BY <1>3 DEF Header, x, k
<1>13. s \in Seq(Bytes) /\ Len(s) = Header(f) + f.size /\ \A i \in Header(f) + 1 .. Header(f) + f.size : s[i] = body
  BY <1>11, <1>12
<1>14. \A i \in 1 .. 2 : s[i] = A[i]
  <2> TAKE i \in 1 .. 2
  <2>1. i \in 1 .. 2 + x + k /\ i \in 1 .. 2 + x
    BY <1>3
  <2> QED BY <1>9, <1>10, <1>11, <2>1
<1>15. \A i \in 2 + 1 .. 2 + x : s[i] = (A \o B)[i]
  <2> TAKE i \in 2 + 1 .. 2 + x
  <2>1. i \in 1 .. 2 + x + k /\ i \in 1 .. 2 + x
    BY <1>3
  <2> QED BY <1>9, <1>10, <1>11, <2>1
<1>16. \A i \in 2 + x + 1 .. 2 + x + k : s[i] = fill
  <2> TAKE i \in 2 + x + 1 .. 2 + x + k
  <2>1. i \in 1 .. 2 + x + k
    BY <1>3
  <2> QED BY <1>10, <1>11, <2>1
<1>17. s[1] = first /\ s[2] = second
  <2>1. 1 \in 1 .. 2 /\ 2 \in 1 .. 2
    OBVIOUS
  <2>2. s[1] = A[1] /\ s[2] = A[2]
    BY <1>14, <2>1
  <2> QED BY <1>7, <2>2
<1> HIDE DEF s
<1>18. x # 0 => s[2 + x] = ext
  <2> SUFFICES ASSUME x # 0 PROVE s[2 + x] = ext
    OBVIOUS
  <2>1. 2 + x \in 2 + 1 .. 2 + x
    BY <1>3
  <2> QED BY <1>9, <1>15, <2>1
<1>19. ext.op = "none" /\ fill.op = "none" /\ body.op = "none"
  BY DEF ext, fill, body, Browser!Byte, Browser!Filler
<1>20. \A i \in 3 .. Header(f) + f.size : s[i].op = "none"
  <2> TAKE i \in 3 .. Header(f) + f.size
  <2> DEFINE n == f.size
  <2>1. n \in Nat /\ i \in 3 .. Header(f) + n
    BY <1>1
  <2> HIDE DEF n
  <2>2. i \in 2 + 1 .. 2 + x \/ i \in 2 + x + 1 .. 2 + x + k \/ i \in Header(f) + 1 .. Header(f) + n
    BY <1>3, <1>12, <2>1
  <2>3. i \in 2 + 1 .. 2 + x \/ i \in 2 + x + 1 .. 2 + x + k \/ i \in Header(f) + 1 .. Header(f) + f.size
    BY <2>2 DEF n
  <2>4. s[i] \in {ext, fill, body}
    BY <1>9, <1>13, <1>15, <1>16, <2>3
  <2> QED BY <1>19, <2>4
<1>21. Browser!Encode(f) = s
  BY <1>6 DEF s
<1> QED BY <1>13, <1>17, <1>18, <1>20, <1>21 DEF first, second, ext, body, x

-----------------------------------------------------------------------------
(* The stream.  Each frame lies behind the ones before it.                 *)

Parcel == [frame : Browser!Frame, end : Nat]

End(fs, k) == IF k = 0 THEN 0 ELSE fs[k].end

Laid(fs) ==
  /\ fs \in Seq(Parcel)
  /\ \A k \in 1 .. Len(fs) : fs[k].end = End(fs, k - 1) + Len(Browser!Encode(fs[k].frame))
  /\ \A j, k \in 1 .. Len(fs) : j < k => fs[j].end < fs[k].end

(* A part of the stream that begins after its first `from` bytes. *)
Carries(s, from, fs) ==
  \A k \in 1 .. Len(fs), j \in Nat, n \in 1 .. Len(s) :
    n + from = End(fs, k - 1) + j /\ j \in 1 .. Len(Browser!Encode(fs[k].frame))
      => s[n] = Browser!Encode(fs[k].frame)[j]

(* A frame has two bytes at least, and none of them ends a handshake. *)
LEMMA EncodedSize ==
  ASSUME NEW f \in Browser!Frame
  PROVE  /\ Browser!Encode(f) \in Seq(Bytes) /\ Len(Browser!Encode(f)) \in Nat /\ Len(Browser!Encode(f)) >= 2
         /\ \A i \in 1 .. Len(Browser!Encode(f)) : Browser!Encode(f)[i].op # "blank"
<1> DEFINE e == Browser!Encode(f)
           n == f.size
           h == Header(f)
<1>1. n \in Nat /\ f.op \in {"text", "close", "ping"}
  BY Frames
<1>2. h \in Nat /\ h >= 2
  BY <1>1, LengthAssumption DEF Header, Browser!Extension, Masking
<1>3. e \in Seq(Bytes) /\ Len(e) = h + n
  BY Encoded
<1>4. e[1].op = f.op /\ e[2].op = "none" /\ \A i \in 3 .. h + n : e[i].op = "none"
  <2>1. e[1] = Browser!Byte(f.op, 0, FALSE, "none") /\ e[2] = Browser!Byte("none", LengthCode(f), f.size \in Masked, "none")
    BY Encoded
  <2>2. \A i \in 3 .. Header(f) + f.size : e[i].op = "none"
    BY Encoded
  <2> QED BY <2>1, <2>2 DEF Browser!Byte
<1> HIDE DEF e, n, h
<1>5. ASSUME NEW i \in 1 .. Len(e) PROVE e[i].op # "blank"
  <2>1. i = 1 \/ i = 2 \/ i \in 3 .. h + n
    BY <1>1, <1>2, <1>3
  <2> QED BY <1>1, <1>4, <2>1
<1>6. Len(e) \in Nat /\ Len(e) >= 2
  BY <1>1, <1>2, <1>3
<1> QED BY <1>3, <1>5, <1>6 DEF e

(* The ends of the frames, in order. *)
LEMMA Ends ==
  ASSUME NEW fs, Laid(fs)
  PROVE  /\ Len(fs) \in Nat
         /\ \A k \in 0 .. Len(fs) : End(fs, k) \in Nat
         /\ \A k \in 1 .. Len(fs) : /\ fs[k].frame \in Browser!Frame /\ fs[k].end = End(fs, k)
                                    /\ End(fs, k) = End(fs, k - 1) + Len(Browser!Encode(fs[k].frame))
                                    /\ End(fs, k) > 0
         /\ \A j, k \in 0 .. Len(fs) : j < k => End(fs, j) < End(fs, k)
<1>1. Len(fs) \in Nat /\ \A k \in 1 .. Len(fs) : fs[k] \in Parcel
  BY ElementOfSeq, LenProperties DEF Laid
<1>2. \A k \in 1 .. Len(fs) : fs[k].frame \in Browser!Frame /\ fs[k].end \in Nat
  BY <1>1 DEF Parcel
<1>3. \A k \in 0 .. Len(fs) : End(fs, k) \in Nat
  BY <1>1, <1>2 DEF End
<1>4. ASSUME NEW k \in 1 .. Len(fs)
      PROVE  /\ fs[k].end = End(fs, k) /\ End(fs, k) = End(fs, k - 1) + Len(Browser!Encode(fs[k].frame))
             /\ End(fs, k) > 0
  <2>1. fs[k].end = End(fs, k)
    BY <1>1 DEF End
  <2>2. End(fs, k) = End(fs, k - 1) + Len(Browser!Encode(fs[k].frame))
    BY <2>1 DEF Laid
  <2>3. Len(Browser!Encode(fs[k].frame)) \in Nat /\ Len(Browser!Encode(fs[k].frame)) >= 2
    BY <1>2, EncodedSize
  <2>4. k - 1 \in 0 .. Len(fs)
    BY <1>1
  <2> QED BY <1>3, <2>1, <2>2, <2>3, <2>4
<1>5. ASSUME NEW j \in 0 .. Len(fs), NEW k \in 0 .. Len(fs), j < k
      PROVE  End(fs, j) < End(fs, k)
  <2>1. k \in 1 .. Len(fs)
    BY <1>1, <1>5
  <2>2. CASE j = 0
    BY <1>4, <2>1, <2>2 DEF End
  <2>3. CASE j \in 1 .. Len(fs)
    BY <1>1, <1>4, <1>5, <2>1, <2>3 DEF Laid
  <2> QED BY <1>1, <2>2, <2>3
<1> QED BY <1>1, <1>2, <1>3, <1>4, <1>5

(* What remains without the first bytes, and those; together they are all. *)
LEMMA Dropped ==
  ASSUME NEW S, NEW s \in Seq(S), NEW m \in 0 .. Len(s)
  PROVE  /\ SubSeq(s, m + 1, Len(s)) \in Seq(S) /\ Len(SubSeq(s, m + 1, Len(s))) = Len(s) - m
         /\ \A i \in 1 .. Len(s) - m : SubSeq(s, m + 1, Len(s))[i] = s[i + m]
<1> DEFINE l == Len(s)
<1>1. l \in Nat /\ m \in 0 .. l /\ \A i \in 1 .. l : s[i] \in S
  BY LenProperties, ElementOfSeq
<1>2. m + 1 \in 1 .. l + 1 /\ l \in m + 1 - 1 .. l
  BY <1>1
<1>3. /\ SubSeq(s, m + 1, l) \in Seq(S)
      /\ Len(SubSeq(s, m + 1, l)) = IF m + 1 <= l THEN l - (m + 1) + 1 ELSE 0
      /\ \A i \in 1 .. l - (m + 1) + 1 : SubSeq(s, m + 1, l)[i] = s[m + 1 + i - 1]
  BY <1>1
<1> DEFINE t == SubSeq(s, m + 1, l)
<1> HIDE DEF l, t
<1>4. Len(t) = l - m
  BY <1>1, <1>3 DEF t
<1>5. \A i \in 1 .. l - m : t[i] = s[i + m]
  <2> TAKE i \in 1 .. l - m
  <2>1. i \in 1 .. l - (m + 1) + 1 /\ m + 1 + i - 1 = i + m
    BY <1>1
  <2> QED BY <1>3, <2>1 DEF t
<1> QED BY <1>3, <1>4, <1>5 DEF t, l

LEMMA Kept ==
  ASSUME NEW S, NEW s \in Seq(S), NEW m \in 0 .. Len(s)
  PROVE  /\ SubSeq(s, 1, m) \in Seq(S) /\ Len(SubSeq(s, 1, m)) = m
         /\ \A i \in 1 .. m : SubSeq(s, 1, m)[i] = s[i]
<1> DEFINE l == Len(s)
<1>1. l \in Nat /\ m \in 0 .. l /\ \A i \in 1 .. l : s[i] \in S
  BY LenProperties, ElementOfSeq
<1> HIDE DEF l
<1> QED BY <1>1

(* Cut and put together again. *)
LEMMA Cut ==
  ASSUME NEW S, NEW s \in Seq(S), NEW m \in 0 .. Len(s)
  PROVE  SubSeq(s, 1, m) \o SubSeq(s, m + 1, Len(s)) = s
<1> DEFINE a == SubSeq(s, 1, m)
           b == SubSeq(s, m + 1, Len(s))
<1>1. /\ a \in Seq(S) /\ Len(a) = m /\ \A i \in 1 .. m : a[i] = s[i]
      /\ b \in Seq(S) /\ Len(b) = Len(s) - m /\ \A i \in 1 .. Len(s) - m : b[i] = s[i + m]
  BY Kept, Dropped
<1>2. Len(s) \in Nat /\ m \in Nat /\ m <= Len(s)
  BY LenProperties
<1> HIDE DEF a, b
<1>3. /\ a \o b \in Seq(S) /\ Len(a \o b) = Len(s)
      /\ \A i \in 1 .. m : (a \o b)[i] = a[i]
      /\ \A i \in m + 1 .. Len(s) : (a \o b)[i] = b[i - m]
  BY <1>1, <1>2, Extended
<1>4. ASSUME NEW i \in 1 .. Len(s) PROVE (a \o b)[i] = s[i]
  <2>1. CASE i \in 1 .. m
    BY <1>1, <1>3, <2>1
  <2>2. CASE i \in m + 1 .. Len(s)
    <3>1. i - m \in 1 .. Len(s) - m /\ i - m + m = i
      BY <1>2, <2>2
    <3> QED BY <1>1, <1>3, <2>2, <3>1
  <2>3. i \in 1 .. m \/ i \in m + 1 .. Len(s)
    BY <1>2
  <2> QED BY <2>1, <2>2, <2>3
<1>5. a \o b = s
  BY <1>3, <1>4, SeqEqual
<1> QED BY <1>5 DEF a, b

(* Dropping from the first part drops from the whole. *)
LEMMA DroppedFirst ==
  ASSUME NEW S, NEW a \in Seq(S), NEW b \in Seq(S), NEW m \in 0 .. Len(a)
  PROVE  SubSeq(a, m + 1, Len(a)) \o b = SubSeq(a \o b, m + 1, Len(a \o b))
<1> DEFINE c == SubSeq(a, m + 1, Len(a))
           s == a \o b
           t == SubSeq(s, m + 1, Len(s))
<1>1. /\ Len(a) \in Nat /\ Len(b) \in Nat /\ m \in Nat /\ m <= Len(a)
      /\ s \in Seq(S) /\ Len(s) = Len(a) + Len(b)
      /\ \A i \in 1 .. Len(a) : s[i] = a[i]
      /\ \A i \in Len(a) + 1 .. Len(a) + Len(b) : s[i] = b[i - Len(a)]
  BY Extended, LenProperties
<1> HIDE DEF s
<1>2. c \in Seq(S) /\ Len(c) = Len(a) - m /\ \A i \in 1 .. Len(a) - m : c[i] = a[i + m]
  BY Dropped
<1>3. m \in 0 .. Len(s)
  BY <1>1
<1>4. t \in Seq(S) /\ Len(t) = Len(s) - m /\ \A i \in 1 .. Len(s) - m : t[i] = s[i + m]
  BY <1>1, <1>3, Dropped
<1> HIDE DEF c, t
<1>5. /\ c \o b \in Seq(S) /\ Len(c \o b) = Len(c) + Len(b)
      /\ \A i \in 1 .. Len(c) : (c \o b)[i] = c[i]
      /\ \A i \in Len(c) + 1 .. Len(c) + Len(b) : (c \o b)[i] = b[i - Len(c)]
  BY <1>2, Extended
<1>6. Len(c \o b) = Len(t)
  BY <1>1, <1>2, <1>4, <1>5
<1>7. ASSUME NEW i \in 1 .. Len(t) PROVE (c \o b)[i] = t[i]
  <2>1. t[i] = s[i + m]
    BY <1>4, <1>1
  <2>2. CASE i \in 1 .. Len(c)
    <3>1. i \in 1 .. Len(a) - m /\ i + m \in 1 .. Len(a)
      BY <1>1, <1>2, <2>2
    <3>2. (c \o b)[i] = a[i + m]
      BY <1>2, <1>5, <2>2, <3>1
    <3> QED BY <1>1, <2>1, <3>1, <3>2
  <2>3. CASE i \in Len(c) + 1 .. Len(c) + Len(b)
    <3>1. i + m \in Len(a) + 1 .. Len(a) + Len(b) /\ i + m - Len(a) = i - Len(c)
      BY <1>1, <1>2, <2>3
    <3>2. s[i + m] = b[i + m - Len(a)]
      BY <1>1, <3>1
    <3>3. (c \o b)[i] = b[i - Len(c)]
      BY <1>5, <2>3
    <3> QED BY <2>1, <3>1, <3>2, <3>3
  <2>4. Len(c) \in Nat /\ Len(t) = Len(c) + Len(b)
    <3>1. Len(c) \in Nat
      BY <1>2, LenProperties
    <3> QED BY <1>5, <1>6, <3>1
  <2>5. i \in 1 .. Len(c) \/ i \in Len(c) + 1 .. Len(c) + Len(b)
    BY <1>1, <2>4
  <2> QED BY <2>2, <2>3, <2>5
<1>8. c \o b = t
  BY <1>4, <1>5, <1>6, <1>7, SeqEqual
<1> QED BY <1>8 DEF c, t, s

-----------------------------------------------------------------------------

(* A part of the stream, split: the first piece, and the rest. *)
LEMMA CarriesFirst ==
  ASSUME NEW fs, NEW from, NEW a \in Seq(Bytes), NEW b \in Seq(Bytes), Carries(a \o b, from, fs)
  PROVE  Carries(a, from, fs)
<1>1. /\ Len(a) \in Nat /\ Len(b) \in Nat /\ Len(a \o b) = Len(a) + Len(b)
      /\ \A i \in 1 .. Len(a) : (a \o b)[i] = a[i]
  BY Extended, LenProperties
<1>2. \A n \in 1 .. Len(a) : n \in 1 .. Len(a \o b)
  BY <1>1
<1> QED BY <1>1, <1>2 DEF Carries

LEMMA CarriesRest ==
  ASSUME NEW fs, Laid(fs), NEW from \in Int, NEW s \in Seq(Bytes), NEW m \in 0 .. Len(s), Carries(s, from, fs)
  PROVE  Carries(SubSeq(s, m + 1, Len(s)), from + m, fs)
<1> DEFINE t == SubSeq(s, m + 1, Len(s))
<1>1. Len(s) \in Nat /\ m \in Nat /\ m <= Len(s) /\ Len(t) = Len(s) - m /\ \A i \in 1 .. Len(s) - m : t[i] = s[i + m]
  BY Dropped, LenProperties
<1> HIDE DEF t
<1>2. ASSUME NEW k \in 1 .. Len(fs), NEW j \in Nat, NEW n \in 1 .. Len(t),
             n + (from + m) = End(fs, k - 1) + j, j \in 1 .. Len(Browser!Encode(fs[k].frame))
      PROVE  t[n] = Browser!Encode(fs[k].frame)[j]
  <2>1. n + m \in 1 .. Len(s) /\ n + m + from = n + (from + m) /\ n \in 1 .. Len(s) - m
    BY <1>1
  <2>2. s[n + m] = Browser!Encode(fs[k].frame)[j]
    BY <1>2, <2>1 DEF Carries
  <2> QED BY <1>1, <2>1, <2>2
<1>3. Carries(t, from + m, fs)
  BY <1>2 DEF Carries
<1> QED BY <1>3 DEF t

(* One more frame. *)
Parceled(fs, f) == Append(fs, [frame |-> f, end |-> End(fs, Len(fs)) + Len(Browser!Encode(f))])

(* One more frame behind the others. *)
LEMMA LaidMore ==
  ASSUME NEW fs, Laid(fs), NEW f \in Browser!Frame
  PROVE  /\ Laid(Parceled(fs, f)) /\ Len(Parceled(fs, f)) = Len(fs) + 1
         /\ \A k \in 1 .. Len(fs) : Parceled(fs, f)[k] = fs[k]
         /\ \A k \in 0 .. Len(fs) : End(Parceled(fs, f), k) = End(fs, k)
         /\ Parceled(fs, f)[Len(fs) + 1].frame = f
         /\ End(Parceled(fs, f), Len(fs) + 1) = End(fs, Len(fs)) + Len(Browser!Encode(f))
<1> DEFINE e == Browser!Encode(f)
           p == [frame |-> f, end |-> End(fs, Len(fs)) + Len(e)]
           gs == Append(fs, p)
<1>1. Len(e) \in Nat /\ Len(e) >= 2
  BY EncodedSize
<1>2. Len(fs) \in Nat /\ End(fs, Len(fs)) \in Nat
  BY Ends
<1> HIDE DEF e
<1>3. p \in Parcel /\ fs \in Seq(Parcel)
  BY <1>1, <1>2 DEF Parcel, Laid
<1>4. p.frame = f /\ p.end = End(fs, Len(fs)) + Len(e)
  OBVIOUS
<1> HIDE DEF p
<1>5. /\ gs \in Seq(Parcel) /\ Len(gs) = Len(fs) + 1
      /\ \A k \in 1 .. Len(fs) : gs[k] = fs[k]
      /\ gs[Len(fs) + 1] = p
  BY <1>3, AppendProperties
<1> HIDE DEF gs
<1>6. \A k \in 0 .. Len(fs) : End(gs, k) = End(fs, k)
  BY <1>2, <1>5 DEF End
<1>7. End(gs, Len(fs) + 1) = End(fs, Len(fs)) + Len(e)
  BY <1>2, <1>4, <1>5 DEF End
<1>8. ASSUME NEW k \in 1 .. Len(gs)
      PROVE  gs[k].end = End(gs, k - 1) + Len(Browser!Encode(gs[k].frame))
  <2>1. CASE k \in 1 .. Len(fs)
    <3>1. k - 1 \in 0 .. Len(fs)
      BY <1>2, <2>1
    <3>2. fs[k].end = End(fs, k - 1) + Len(Browser!Encode(fs[k].frame))
      BY <2>1 DEF Laid
    <3> QED BY <1>5, <1>6, <2>1, <3>1, <3>2
  <2>2. CASE k = Len(fs) + 1
    <3>1. k - 1 = Len(fs) /\ End(gs, Len(fs)) = End(fs, Len(fs))
      BY <1>2, <1>6, <2>2
    <3> QED BY <1>4, <1>5, <2>2, <3>1 DEF e
  <2> QED BY <1>2, <1>5, <2>1, <2>2
<1>9. ASSUME NEW j \in 1 .. Len(gs), NEW k \in 1 .. Len(gs), j < k
      PROVE  gs[j].end < gs[k].end
  <2>1. j \in 1 .. Len(fs) /\ fs[j].end = End(fs, j) /\ gs[j] = fs[j]
    <3>1. j \in 1 .. Len(fs)
      BY <1>2, <1>5, <1>9
    <3> QED BY <1>5, <3>1, Ends
  <2>2. CASE k \in 1 .. Len(fs)
    BY <1>5, <1>9, <2>1, <2>2 DEF Laid
  <2>3. CASE k = Len(fs) + 1
    <3>1. End(fs, j) \in Nat /\ End(fs, j) <= End(fs, Len(fs))
      <4>1. j \in 0 .. Len(fs) /\ Len(fs) \in 0 .. Len(fs) /\ (j = Len(fs) \/ j < Len(fs))
        BY <1>2, <2>1
      <4> QED BY <4>1, <1>2, Ends
    <3>2. gs[k].end = End(fs, Len(fs)) + Len(e)
      BY <1>4, <1>5, <2>3
    <3> QED BY <1>1, <1>2, <2>1, <3>1, <3>2
  <2> QED BY <1>2, <1>5, <2>2, <2>3
<1>10. Laid(gs)
  BY <1>5, <1>8, <1>9 DEF Laid
<1>11. gs = Parceled(fs, f)
  BY DEF gs, p, e, Parceled
<1> QED BY <1>4, <1>5, <1>6, <1>7, <1>10, <1>11 DEF e

LEMMA CarriesMore ==
  ASSUME NEW fs, Laid(fs), NEW f \in Browser!Frame, NEW from \in Int, NEW s \in Seq(Bytes),
         Carries(s, from, fs), from + Len(s) = End(fs, Len(fs))
  PROVE  Carries(s \o Browser!Encode(f), from, Parceled(fs, f))
<1> DEFINE e == Browser!Encode(f)
           gs == Parceled(fs, f)
           t == s \o e
<1>1. Len(e) \in Nat /\ e \in Seq(Bytes) /\ Len(s) \in Nat
  BY EncodedSize, LenProperties
<1>2. /\ Len(t) = Len(s) + Len(e)
      /\ \A i \in 1 .. Len(s) : t[i] = s[i]
      /\ \A i \in Len(s) + 1 .. Len(s) + Len(e) : t[i] = e[i - Len(s)]
  BY <1>1, Extended
<1> HIDE DEF e, t
<1>3. /\ Len(gs) = Len(fs) + 1 /\ gs[Len(fs) + 1].frame = f
      /\ \A k \in 1 .. Len(fs) : gs[k] = fs[k]
      /\ \A k \in 0 .. Len(fs) : End(gs, k) = End(fs, k)
  BY LaidMore
<1> HIDE DEF gs
<1>4. Len(fs) \in Nat /\ End(fs, Len(fs)) \in Nat
  BY Ends
<1>5. ASSUME NEW k \in 1 .. Len(gs), NEW j \in Nat, NEW n \in 1 .. Len(t),
             n + from = End(gs, k - 1) + j, j \in 1 .. Len(Browser!Encode(gs[k].frame))
      PROVE  t[n] = Browser!Encode(gs[k].frame)[j]
  <2>1. CASE k \in 1 .. Len(fs)
    <3>1. k - 1 \in 0 .. Len(fs) /\ k \in 0 .. Len(fs) /\ Len(fs) \in 0 .. Len(fs) /\ (k = Len(fs) \/ k < Len(fs))
      BY <1>4, <2>1
    <3>2. End(gs, k - 1) = End(fs, k - 1) /\ gs[k] = fs[k]
      BY <1>3, <2>1, <3>1
    <3>3. End(fs, k) = End(fs, k - 1) + Len(Browser!Encode(fs[k].frame)) /\ End(fs, k) <= End(fs, Len(fs))
          /\ End(fs, k - 1) \in Nat /\ End(fs, k) \in Nat
      <4>1. End(fs, k) = End(fs, k - 1) + Len(Browser!Encode(fs[k].frame))
        BY <2>1, Ends
      <4>2. End(fs, k - 1) \in Nat /\ End(fs, k) \in Nat
        BY <3>1, Ends
      <4>3. k = Len(fs) \/ End(fs, k) < End(fs, Len(fs))
        BY <3>1, Ends
      <4> QED BY <1>4, <4>1, <4>2, <4>3
    <3> DEFINE l == Len(Browser!Encode(fs[k].frame))
    <3>4. l \in Nat
      BY <2>1, Ends, EncodedSize
    <3>5. j \in 1 .. l /\ n + from = End(fs, k - 1) + j /\ End(fs, k) = End(fs, k - 1) + l
      BY <1>5, <3>2, <3>3
    <3> HIDE DEF l
    <3>6. n + from <= End(fs, Len(fs))
      <4>1. j <= l /\ j \in Int
        BY <3>4, <3>5
      <4>2. End(fs, k) <= End(fs, Len(fs)) /\ End(fs, k) \in Nat /\ End(fs, k - 1) \in Nat
        BY <3>3
      <4>3. End(fs, Len(fs)) \in Nat /\ n + from = End(fs, k - 1) + j /\ End(fs, k) = End(fs, k - 1) + l
        BY <1>4, <3>5
      <4> QED BY <3>4, <4>1, <4>2, <4>3
    <3>7. n \in 1 .. Len(s)
      <4>1. n \in Int /\ 1 <= n
        BY <1>1, <1>2
      <4>2. n + from <= from + Len(s)
        BY <3>6
      <4> QED BY <1>1, <4>1, <4>2
    <3>8. s[n] = Browser!Encode(fs[k].frame)[j]
      BY <2>1, <3>5, <3>7 DEF Carries, l
    <3> QED BY <1>2, <3>2, <3>7, <3>8
  <2>2. CASE k = Len(fs) + 1
    <3>1. gs[k].frame = f /\ k - 1 = Len(fs) /\ Len(fs) \in 0 .. Len(fs)
      BY <1>3, <1>4, <2>2
    <3>2. n + from = End(fs, Len(fs)) + j /\ j \in 1 .. Len(e)
      BY <1>3, <1>5, <3>1 DEF e
    <3>3. n \in Len(s) + 1 .. Len(s) + Len(e) /\ n - Len(s) = j
      <4>1. n \in Int /\ j \in Int
        OBVIOUS
      <4>2. n + from = from + Len(s) + j
        BY <3>2
      <4>3. n = Len(s) + j
        BY <1>1, <4>1, <4>2
      <4> QED BY <1>1, <3>2, <4>1, <4>3
    <3> QED BY <1>2, <3>1, <3>3 DEF e
  <2> QED BY <1>3, <1>4, <2>1, <2>2
<1>6. Carries(t, from, gs)
  BY <1>5 DEF Carries
<1> QED BY <1>6 DEF t, e, gs

-----------------------------------------------------------------------------
(* The parser at the first byte of a frame: it waits for the frame's last   *)
(* byte, and for no other.                                                  *)
LEMMA HeadFrame ==
  ASSUME NEW f \in Browser!Frame, b_buffer \in Seq(Bytes),
         \A i \in 1 .. Len(b_buffer) : i <= Len(Browser!Encode(f)) => b_buffer[i] = Browser!Encode(f)[i]
  PROVE  /\ Browser!Complete <=> Len(b_buffer) >= Len(Browser!Encode(f))
         /\ Browser!Complete => /\ Browser!HeaderSize + Browser!Length = Len(Browser!Encode(f))
                                /\ b_buffer[1].op = f.op
                                /\ f.op = "text" => Browser!Payload = {f.text}
<1> DEFINE e == Browser!Encode(f)
           l == Len(e)
           b == Len(b_buffer)
           n == f.size
           x == Browser!Extension(f.size)
           m == Masking(f)
           c == LengthCode(f)
           h == Header(f)
<1>1. n \in Nat /\ (f.op = "text" => n > 0)
  BY Frames
<1>2. Short \in Nat /\ Medium \in Nat /\ Short > 0 /\ Short < Medium
  BY LengthAssumption
<1>3. (f.size \in Masked) = (m = 4) /\ m \in {0, 4}
  BY DEF Masking
<1>4. \/ x = 0 /\ c = n /\ n <= Short
      \/ x = 2 /\ c = Short + 1
      \/ x = 8 /\ c = Short + 2
  BY <1>1, <1>2 DEF Browser!Extension, LengthCode
<1>5. e[2].length = c /\ e[2].masked = (m = 4) /\ e[1].op = f.op
  <2>1. e[1] = Browser!Byte(f.op, 0, FALSE, "none") /\ e[2] = Browser!Byte("none", c, f.size \in Masked, "none")
    BY Encoded
  <2> HIDE DEF e, c, m
  <2>2. e[2].length = c /\ e[2].masked = (f.size \in Masked) /\ e[1].op = f.op
    BY <2>1 DEF Browser!Byte
  <2> QED BY <1>3, <2>2
<1>6. x # 0 => e[2 + x].length = n
  <2>1. x # 0 => e[2 + x] = Browser!Byte("none", n, FALSE, "none")
    BY Encoded
  <2> QED BY <2>1 DEF Browser!Byte
<1>7. l = h + n /\ h = 2 + x + m
  BY Encoded DEF Header
<1>8. \A i \in h + 1 .. h + n : e[i].text = f.text
  <2>1. \A i \in h + 1 .. h + n : e[i] = Browser!Byte("none", 0, FALSE, f.text)
    BY Encoded
  <2> QED BY <2>1 DEF Browser!Byte
<1>9. b \in Nat /\ \A i \in 1 .. b : i <= l => b_buffer[i] = e[i]
  BY LenProperties
<1>10. /\ Browser!Complete <=> /\ b >= 2
                               /\ b_buffer[2].length = Short + 1 => b >= 4
                               /\ b_buffer[2].length = Short + 2 => b >= 10
                               /\ b >= Browser!HeaderSize + Browser!Length
  BY DEF Browser!Complete
<1> HIDE DEF e, l, b, n, x, m, c, h
<1>11. h \in Nat /\ x \in {0, 2, 8} /\ h + n >= 2
  BY <1>1, <1>3, <1>4, <1>7
<1>12. CASE b < 2
  <2>1. ~Browser!Complete /\ ~(b >= l)
    BY <1>7, <1>9, <1>10, <1>11, <1>12
  <2> QED BY <2>1 DEF b, l, e
<1>13. CASE b >= 2
  <2>1. b_buffer[1] = e[1] /\ b_buffer[2] = e[2]
    <3>1. 1 \in 1 .. b /\ 2 \in 1 .. b /\ 1 <= l /\ 2 <= l
      BY <1>7, <1>9, <1>11, <1>13
    <3> QED BY <1>9, <3>1
  <2>2. b_buffer[2].length = c /\ b_buffer[2].masked = (m = 4) /\ b_buffer[1].op = f.op
    BY <1>5, <2>1
  <2>3. (IF b_buffer[2].masked THEN 4 ELSE 0) = m
    BY <1>3, <2>2
  <2>4. Browser!HeaderSize = h
    <3>1. Browser!HeaderSize = (IF c = Short + 1 THEN 4 ELSE IF c = Short + 2 THEN 10 ELSE 2)
                                 + (IF b_buffer[2].masked THEN 4 ELSE 0)
      BY <2>2 DEF Browser!HeaderSize
    <3>2. Browser!HeaderSize = (IF c = Short + 1 THEN 4 ELSE IF c = Short + 2 THEN 10 ELSE 2) + m
      BY <2>3, <3>1
    <3> QED BY <1>1, <1>2, <1>3, <1>4, <1>7, <3>2
  <2>5. Browser!Length = IF c <= Short THEN c ELSE IF c = Short + 1 THEN b_buffer[4].length ELSE b_buffer[10].length
    BY <2>2 DEF Browser!Length
  <2>6. b >= 2 + x /\ x # 0 => Browser!Length = n
    <3> SUFFICES ASSUME b >= 2 + x, x # 0 PROVE Browser!Length = n
      OBVIOUS
    <3>1. 2 + x \in 1 .. b /\ 2 + x <= l
      BY <1>1, <1>3, <1>4, <1>7, <1>9
    <3>2. b_buffer[2 + x] = e[2 + x]
      BY <1>9, <3>1
    <3>3. b_buffer[2 + x].length = n
      BY <1>6, <3>2
    <3>4. Browser!Length = b_buffer[2 + x].length
      <4>1. ~(c <= Short)
        BY <1>2, <1>4
      <4>2. CASE x = 2 /\ c = Short + 1
        BY <2>5, <4>1, <4>2
      <4>3. CASE x = 8 /\ c = Short + 2
        <5>1. c # Short + 1 /\ 2 + x = 10
          BY <1>2, <4>3
        <5> QED BY <2>5, <4>1, <5>1
      <4> QED BY <1>4, <4>2, <4>3
    <3> QED BY <3>3, <3>4
  <2>7. x = 0 => Browser!Length = n
    BY <1>1, <1>2, <1>4, <2>5
  <2>8. Browser!Complete <=> /\ c = Short + 1 => b >= 4
                             /\ c = Short + 2 => b >= 10
                             /\ b >= h + Browser!Length
    BY <1>10, <1>13, <2>2, <2>4
  <2>9. ASSUME x = 0
        PROVE (Browser!Complete <=> b >= l) /\ (Browser!Complete => Browser!Length = n)
    <3>1. c # Short + 1 /\ c # Short + 2
      BY <1>1, <1>2, <1>4, <2>9
    <3>2. Browser!Complete <=> b >= l
      BY <1>7, <2>7, <2>8, <2>9, <3>1
    <3> QED BY <2>7, <2>9, <3>2
  <2>10. ASSUME x # 0, b >= 2 + x
         PROVE (Browser!Complete <=> b >= l) /\ (Browser!Complete => Browser!Length = n)
    <3>1. (c = Short + 1 => b >= 4) /\ (c = Short + 2 => b >= 10)
      BY <1>2, <1>4, <1>9, <2>10
    <3>2. Browser!Length = n
      BY <2>6, <2>10
    <3>3. Browser!Complete <=> b >= h + n
      BY <2>8, <3>1, <3>2
    <3> QED BY <1>7, <3>2, <3>3
  <2>11. ASSUME x # 0, ~(b >= 2 + x)
         PROVE (Browser!Complete <=> b >= l) /\ (Browser!Complete => Browser!Length = n)
    <3>1. ~(b >= l)
      BY <1>1, <1>3, <1>7, <1>9, <1>11, <2>11
    <3>2. ~((c = Short + 1 => b >= 4) /\ (c = Short + 2 => b >= 10))
      BY <1>2, <1>4, <1>9, <2>11
    <3> QED BY <2>8, <3>1, <3>2
  <2>12. (Browser!Complete <=> b >= l) /\ (Browser!Complete => Browser!Length = n)
    BY <2>9, <2>10, <2>11
  <2>13. Browser!Complete /\ f.op = "text" => Browser!Payload = {f.text}
    <3> SUFFICES ASSUME Browser!Complete, f.op = "text" PROVE Browser!Payload = {f.text}
      OBVIOUS
    <3>1. Browser!Payload = {b_buffer[i].text : i \in h + 1 .. h + n}
      BY <2>4, <2>12 DEF Browser!Payload
    <3>2. b >= h + n /\ n > 0
      BY <1>1, <1>7, <2>12
    <3>3. ASSUME NEW i \in h + 1 .. h + n PROVE b_buffer[i].text = f.text
      <4>1. i \in 1 .. b /\ i <= l
        BY <1>1, <1>7, <1>9, <1>11, <3>2
      <4>2. b_buffer[i] = e[i]
        BY <1>9, <4>1
      <4> QED BY <1>8, <4>2
    <3>4. h + 1 \in h + 1 .. h + n
      BY <1>1, <1>11, <3>2
    <3> QED BY <3>1, <3>3, <3>4
  <2>14. Browser!Complete => Browser!HeaderSize + Browser!Length = l
    BY <1>7, <2>4, <2>12
  <2> QED BY <2>2, <2>12, <2>13, <2>14 DEF b, l, e
<1> QED BY <1>9, <1>12, <1>13

-----------------------------------------------------------------------------
(* What has been read, as a property of sequences. *)

Whole(fs, n) == {k \in DOMAIN fs : fs[k].frame.op = "text" /\ fs[k].end <= n}

(* Reads, of any sequence of messages and any sequence of frames. *)
ReadsOf(read, fs, n) ==
  \E at \in [DOMAIN read -> Whole(fs, n)] :
    /\ \A i \in DOMAIN read : read[i] = fs[at[i]].frame.text
    /\ \A i, j \in DOMAIN read : i < j => at[i] < at[j]
    /\ \A k \in Whole(fs, n) : \E i \in DOMAIN read : at[i] = k

(* Up to the middle of a frame, the frames before it are whole; and so they *)
(* are up to its first byte.                                                *)
LEMMA WholeUpTo ==
  ASSUME NEW fs, Laid(fs), NEW p \in 0 .. Len(fs), NEW n \in Nat, End(fs, p) <= n,
         p < Len(fs) => n < End(fs, p + 1)
  PROVE  Whole(fs, n) = {k \in 1 .. p : fs[k].frame.op = "text"}
<1>1. DOMAIN fs = 1 .. Len(fs) /\ Len(fs) \in Nat
  BY LenProperties DEF Laid
<1>2. ASSUME NEW k \in 1 .. Len(fs)
      PROVE  fs[k].end <= n <=> k <= p
  <2>1. fs[k].end = End(fs, k) /\ k \in 0 .. Len(fs) /\ End(fs, k) \in Nat /\ End(fs, p) \in Nat
    <3>1. k \in 0 .. Len(fs)
      BY <1>1
    <3>2. fs[k].end = End(fs, k)
      BY Ends
    <3>3. End(fs, k) \in Nat /\ End(fs, p) \in Nat
      BY <3>1, Ends
    <3> QED BY <3>1, <3>2, <3>3
  <2>2. CASE k <= p
    <3>1. k = p \/ End(fs, k) < End(fs, p)
      BY <1>1, <2>1, <2>2, Ends
    <3> QED BY <2>1, <2>2, <3>1
  <2>3. CASE k > p
    <3>1. p < Len(fs) /\ p + 1 \in 0 .. Len(fs) /\ (k = p + 1 \/ p + 1 < k)
      BY <1>1, <2>3
    <3>2. k = p + 1 \/ End(fs, p + 1) < End(fs, k)
      BY <2>1, <3>1, Ends
    <3>3. End(fs, p + 1) \in Nat
      BY <3>1, Ends
    <3>4. n < End(fs, k)
      BY <2>1, <3>1, <3>2, <3>3
    <3> QED BY <2>1, <2>3, <3>4
  <2> QED BY <1>1, <2>2, <2>3
<1>3. \A k : k \in 1 .. p <=> k \in 1 .. Len(fs) /\ k <= p
  BY <1>1
<1> QED BY <1>1, <1>2, <1>3 DEF Whole

LEMMA WholeAt ==
  ASSUME NEW fs, Laid(fs), NEW p \in 0 .. Len(fs)
  PROVE  Whole(fs, End(fs, p)) = {k \in 1 .. p : fs[k].frame.op = "text"}
<1>1. End(fs, p) \in Nat /\ Len(fs) \in Nat
  BY Ends
<1>2. p < Len(fs) => End(fs, p) < End(fs, p + 1)
  <2> SUFFICES ASSUME p < Len(fs) PROVE End(fs, p) < End(fs, p + 1)
    OBVIOUS
  <2>1. p + 1 \in 0 .. Len(fs) /\ p < p + 1
    BY <1>1
  <2> QED BY <2>1, Ends
<1> QED BY <1>1, <1>2, WholeUpTo

(* Reading: nothing, and with one more frame that is no text or has not arrived. *)
LEMMA ReadsNothing ==
  ASSUME NEW fs, NEW n, Whole(fs, n) = {}
  PROVE  ReadsOf(<<>>, fs, n)
<1> DEFINE at == [i \in DOMAIN <<>> |-> 0]
<1>1. DOMAIN <<>> = {}
  OBVIOUS
<1>2. at \in [DOMAIN <<>> -> Whole(fs, n)]
  BY <1>1
<1> QED BY <1>1, <1>2 DEF ReadsOf

LEMMA ReadsSame ==
  ASSUME NEW fs, NEW m, NEW n, NEW r, Whole(fs, m) = Whole(fs, n), ReadsOf(r, fs, n)
  PROVE  ReadsOf(r, fs, m)
BY DEF ReadsOf

(* What one more frame adds. *)
LEMMA ReadsText ==
  ASSUME NEW fs, Laid(fs), NEW p \in 0 .. Len(fs) - 1, NEW r \in Seq(Browser!Text),
         fs[p + 1].frame.op = "text", ReadsOf(r, fs, End(fs, p))
  PROVE  ReadsOf(Append(r, fs[p + 1].frame.text), fs, End(fs, p + 1))
<1> DEFINE t == fs[p + 1].frame.text
           s == Append(r, t)
           old == Whole(fs, End(fs, p))
           new == Whole(fs, End(fs, p + 1))
<1>1. Len(fs) \in Nat /\ p \in Nat /\ p \in 0 .. Len(fs) /\ p + 1 \in 0 .. Len(fs) /\ p + 1 \in 1 .. Len(fs)
  BY Ends
<1>2. t \in Browser!Text
  <2>1. fs[p + 1].frame \in Browser!Frame
    BY <1>1, Ends
  <2> QED BY <2>1, Frames
<1>3. old = {k \in 1 .. p : fs[k].frame.op = "text"} /\ new = {k \in 1 .. p + 1 : fs[k].frame.op = "text"}
  BY <1>1, WholeAt
<1>4. p + 1 \in new /\ (\A k \in old : k \in new /\ k \in 1 .. p) /\ \A k \in new : k \in old \/ k = p + 1
  BY <1>1, <1>3
<1> HIDE DEF t, old, new
<1> DEFINE l == Len(r)
<1>5. l \in Nat /\ DOMAIN r = 1 .. l
  BY LenProperties
<1>6. DOMAIN s = 1 .. l + 1 /\ s[l + 1] = t /\ \A i \in 1 .. l : s[i] = r[i]
  BY <1>2, AppendProperties, LenProperties
<1>7. PICK at \in [1 .. l -> old] :
        /\ \A i \in 1 .. l : r[i] = fs[at[i]].frame.text
        /\ \A i, j \in 1 .. l : i < j => at[i] < at[j]
        /\ \A k \in old : \E i \in 1 .. l : at[i] = k
  <2>1. \E at \in [DOMAIN r -> old] :
          /\ \A i \in DOMAIN r : r[i] = fs[at[i]].frame.text
          /\ \A i, j \in DOMAIN r : i < j => at[i] < at[j]
          /\ \A k \in old : \E i \in DOMAIN r : at[i] = k
    BY DEF ReadsOf, old
  <2>2. DOMAIN r = 1 .. l
    BY <1>5
  <2> QED BY <2>1, <2>2, SMTT(20)
<1> HIDE DEF l, s
<1> DEFINE to == [i \in 1 .. l + 1 |-> IF i = l + 1 THEN p + 1 ELSE at[i]]
<1>8. to[l + 1] = p + 1 /\ \A i \in 1 .. l : to[i] = at[i] /\ i \in 1 .. l + 1 /\ at[i] \in old
  BY <1>5, <1>7
<1>9. to \in [1 .. l + 1 -> new]
  <2>1. \A i \in 1 .. l + 1 : i = l + 1 \/ i \in 1 .. l
    BY <1>5
  <2> QED BY <1>4, <1>7, <2>1
<1> HIDE DEF to
<1>10. \A i \in 1 .. l + 1 : i = l + 1 \/ i \in 1 .. l
  BY <1>5
<1>11. \A i \in 1 .. l + 1 : s[i] = fs[to[i]].frame.text
  BY <1>6, <1>7, <1>8, <1>10 DEF t
<1>12. ASSUME NEW i \in 1 .. l + 1, NEW j \in 1 .. l + 1, i < j
       PROVE  to[i] < to[j]
  <2>1. i \in 1 .. l
    BY <1>5, <1>12
  <2>2. CASE j = l + 1
    <3>1. at[i] \in 1 .. p
      BY <1>4, <1>8, <2>1
    <3> QED BY <1>1, <1>8, <2>1, <2>2, <3>1
  <2>3. CASE j \in 1 .. l
    BY <1>7, <1>8, <1>12, <2>1, <2>3
  <2> QED BY <1>10, <2>2, <2>3
<1>13. ASSUME NEW k \in new PROVE \E i \in 1 .. l + 1 : to[i] = k
  <2>1. CASE k = p + 1
    BY <1>5, <1>8, <2>1
  <2>2. CASE k \in old
    BY <1>7, <1>8, <2>2
  <2> QED BY <1>4, <2>1, <2>2
<1>14. ReadsOf(s, fs, End(fs, p + 1))
  <2>1. /\ to \in [DOMAIN s -> new]
        /\ \A i \in DOMAIN s : s[i] = fs[to[i]].frame.text
        /\ \A i, j \in DOMAIN s : i < j => to[i] < to[j]
        /\ \A k \in new : \E i \in DOMAIN s : to[i] = k
    BY <1>6, <1>9, <1>11, <1>12, <1>13
  <2> QED BY <2>1 DEF ReadsOf, new
<1> QED BY <1>14 DEF s, t

LEMMA ReadsOther ==
  ASSUME NEW fs, Laid(fs), NEW p \in 0 .. Len(fs) - 1, NEW r,
         fs[p + 1].frame.op # "text", ReadsOf(r, fs, End(fs, p))
  PROVE  ReadsOf(r, fs, End(fs, p + 1))
<1>1. Len(fs) \in Nat /\ p \in 0 .. Len(fs) /\ p + 1 \in 0 .. Len(fs)
  BY Ends
<1>2. Whole(fs, End(fs, p)) = {k \in 1 .. p : fs[k].frame.op = "text"}
      /\ Whole(fs, End(fs, p + 1)) = {k \in 1 .. p + 1 : fs[k].frame.op = "text"}
  BY <1>1, WholeAt
<1>3. Whole(fs, End(fs, p)) = Whole(fs, End(fs, p + 1))
  <2>1. \A k : k \in 1 .. p + 1 <=> k \in 1 .. p \/ k = p + 1
    BY <1>1
  <2> QED BY <1>2, <2>1
<1> QED BY <1>3 DEF ReadsOf

LEMMA ReadsMore ==
  ASSUME NEW fs, Laid(fs), NEW p \in 0 .. Len(fs), NEW r, NEW f \in Browser!Frame, ReadsOf(r, fs, End(fs, p))
  PROVE  ReadsOf(r, Parceled(fs, f), End(Parceled(fs, f), p))
<1> DEFINE gs == Parceled(fs, f)
<1>1. /\ Laid(gs) /\ Len(gs) = Len(fs) + 1 /\ Len(fs) \in Nat
      /\ \A k \in 1 .. Len(fs) : gs[k] = fs[k]
  BY LaidMore, Ends
<1> HIDE DEF gs
<1>2. p \in 0 .. Len(gs) /\ \A k \in 1 .. p : gs[k] = fs[k]
  BY <1>1
<1>3. Whole(fs, End(fs, p)) = {k \in 1 .. p : fs[k].frame.op = "text"}
      /\ Whole(gs, End(gs, p)) = {k \in 1 .. p : gs[k].frame.op = "text"}
  BY <1>1, <1>2, WholeAt
<1>4. Whole(gs, End(gs, p)) = Whole(fs, End(fs, p)) /\ \A k \in Whole(fs, End(fs, p)) : gs[k] = fs[k]
  BY <1>2, <1>3
<1>5. PICK at \in [DOMAIN r -> Whole(fs, End(fs, p))] :
        /\ \A i \in DOMAIN r : r[i] = fs[at[i]].frame.text
        /\ \A i, j \in DOMAIN r : i < j => at[i] < at[j]
        /\ \A k \in Whole(fs, End(fs, p)) : \E i \in DOMAIN r : at[i] = k
  BY DEF ReadsOf
<1>6. \A i \in DOMAIN r : r[i] = gs[at[i]].frame.text
  BY <1>4, <1>5
<1>7. ReadsOf(r, gs, End(gs, p))
  BY <1>4, <1>5, <1>6 DEF ReadsOf
<1> QED BY <1>7 DEF gs
-----------------------------------------------------------------------------
(* The state of browser-smoke.mjs, component by component.                 *)

Signing == {"authorize", "login", "callback", "exchange"}
Over == {"done", "exited"}

(* The bytes the script has not made use of, in its buffer or on their way. *)
Rest == b_buffer \o b_wire
Total == End(b_sent, Len(b_sent))

(* The handshake is behind it. *)
Upgraded == b_pc = "greet" \/ b_asked # 0

Contains(s, e) == \E i \in DOMAIN s : s[i] = e

ScriptTyped ==
  /\ b_pc \in Signing \cup {"upgrade", "greet", "bind", "join"} \cup Over
  /\ b_outcome \in {"running", "failed", "passed"}
  /\ b_asked \in 0 .. 2

LinkTyped ==
  /\ b_conn \in {"none", "connecting", "open", "ended", "closed"}
  /\ b_gateway \in {"none", "open", "refusing", "closed"}
  /\ b_wire \in Seq(Bytes) /\ b_buffer \in Seq(Bytes)
  /\ b_arrived \in Nat /\ Laid(b_sent) /\ Len(b_sent) <= MaxFrames

MailTyped ==
  /\ b_messages \in Seq(Browser!Text) /\ b_taken \in Seq(Browser!Text)
  /\ b_waiters \in {<<>>, <<"live">>, <<"stale">>}
  /\ b_hand \in Browser!Text \cup {"none"}

(* Where the script is, what it asked for and whom it waits for. *)
PlaceInv ==
  /\ b_pc \in Signing \cup {"upgrade", "greet"} => b_asked = 0
  /\ b_pc = "bind" => b_asked = 1
  /\ b_pc = "join" => b_asked = 2
  /\ b_outcome # "running" => b_pc \in Over
  /\ b_pc \in Over /\ b_asked # 0 => b_outcome # "running"

MailInv ==
  /\ b_waiters = <<"live">> => b_pc \in {"bind", "join"} /\ b_messages = <<>>
  /\ b_waiters = <<"stale">> => b_outcome = "failed"
  /\ b_hand # "none" => b_pc \in {"bind", "join"} /\ b_waiters = <<>> /\ Contains(b_taken, b_hand)
  /\ b_pc = "join" => Contains(b_taken, "bound")
  /\ b_outcome = "passed" => b_asked = 2 /\ Contains(b_taken, "bound") /\ Contains(b_taken, "joined")

(* Before the upgrade nothing has been said. *)
EarlyInv ==
  /\ b_pc \in Signing => b_conn = "none"
  /\ b_pc = "upgrade" => b_conn \in {"connecting", "open", "closed"}
  /\ b_conn \in {"none", "connecting"} => b_gateway = "none" /\ b_wire = <<>> /\ b_buffer = <<>> /\ b_sent = <<>>
  /\ ~Upgraded => /\ b_arrived = 0 /\ Len(b_buffer) < 2
                  /\ b_messages = <<>> /\ b_taken = <<>> /\ b_waiters = <<>> /\ b_hand = "none"
                  /\ b_pc \in Over => b_conn \in {"none", "closed"}

(* The answer to the handshake, two bytes, is followed by the frames. *)
HandshakeInv ==
  b_pc = "upgrade" /\ b_conn = "open" =>
    \/ b_gateway \in {"none", "closed"} /\ b_wire = <<>> /\ b_buffer = <<>> /\ b_sent = <<>>
    \/ /\ b_gateway # "none" /\ Len(Rest) = 2 + Total /\ Carries(Rest, 0 - 2, b_sent)
       /\ \A n \in 1 .. Len(Rest) : Rest[n].op = "blank" <=> n = 2

(* Then the buffer begins at the first byte of a frame, with all before it  *)
(* read.                                                                    *)
StreamInv ==
  Upgraded =>
    /\ b_conn \in {"open", "ended", "closed"} /\ b_gateway # "none"
    /\ b_arrived <= Total
    /\ b_conn # "closed" => b_arrived + Len(b_wire) = Total
    /\ \E p \in 0 .. Len(b_sent) :
         /\ b_arrived = End(b_sent, p) + Len(b_buffer)
         /\ Carries(Rest, End(b_sent, p), b_sent)
         /\ b_outcome # "failed" => ReadsOf(b_taken \o b_messages, b_sent, End(b_sent, p))

(* The inductive invariant. *)
BrowserInv ==
  ScriptTyped /\ LinkTyped /\ MailTyped /\ PlaceInv /\ MailInv /\ EarlyInv /\ HandshakeInv /\ StreamInv

LEMMA ContainsMore ==
  ASSUME NEW S, NEW s \in Seq(S), NEW e \in S
  PROVE  Contains(Append(s, e), e) /\ \A x : Contains(s, x) => Contains(Append(s, e), x)
<1> DEFINE a == Append(s, e)
<1>1. /\ Len(s) \in Nat /\ DOMAIN s = 1 .. Len(s) /\ Len(a) = Len(s) + 1 /\ DOMAIN a = 1 .. Len(a)
      /\ (\A i \in 1 .. Len(s) : a[i] = s[i]) /\ a[Len(s) + 1] = e
  BY AppendProperties, LenProperties
<1> HIDE DEF a
<1>2. Len(s) + 1 \in DOMAIN a /\ \A i \in DOMAIN s : i \in DOMAIN a /\ a[i] = s[i]
  BY <1>1
<1>3. Contains(a, e) /\ \A x : Contains(s, x) => Contains(a, x)
  BY <1>1, <1>2 DEF Contains
<1> QED BY <1>3 DEF a

(* Asking for a message: what was read stays the same, whether it comes     *)
(* from the mailbox or the script waits.                                    *)
LEMMA Receiving ==
  ASSUME MailTyped, b_waiters = <<>>, NEW next, Browser!Receive(next)
  PROVE  /\ MailTyped' /\ b_taken' \o b_messages' = b_taken \o b_messages
         /\ \A x : Contains(b_taken, x) => Contains(b_taken', x)
         /\ \/ b_waiters' = <<>> /\ Contains(b_taken', b_hand')
            \/ b_waiters' = <<"live">> /\ b_hand' = "none" /\ b_messages' = <<>>
         /\ b_pc' = next /\ b_asked' = b_asked + 1 /\ b_outcome' = b_outcome
<1>1. CASE b_messages # <<>>
  <2>1. /\ b_hand' = Head(b_messages) /\ b_taken' = Append(b_taken, Head(b_messages))
        /\ b_messages' = Tail(b_messages) /\ b_waiters' = b_waiters
    BY <1>1 DEF Browser!Receive, Browser!Take
  <2>2. /\ Head(b_messages) \in Browser!Text /\ b_messages' \in Seq(Browser!Text) /\ b_taken' \in Seq(Browser!Text)
        /\ b_taken' \o b_messages' = b_taken \o b_messages
    BY <1>1, <2>1, MoveHead DEF MailTyped
  <2>3. Contains(b_taken', b_hand') /\ \A x : Contains(b_taken, x) => Contains(b_taken', x)
    BY <2>1, <2>2, ContainsMore DEF MailTyped
  <2> QED BY <2>1, <2>2, <2>3 DEF MailTyped, Browser!Receive
<1>2. CASE b_messages = <<>>
  <2>1. b_waiters' = <<"live">> /\ b_hand' = "none" /\ b_messages' = b_messages /\ b_taken' = b_taken
    BY <1>2 DEF Browser!Receive
  <2> QED BY <1>2, <2>1 DEF MailTyped, Browser!Receive
<1> QED BY <1>1, <1>2

(* A frame's text reaches the waiter, the mailbox, or a promise that was    *)
(* rejected long ago.                                                       *)
LEMMA Delivering ==
  ASSUME MailTyped, MailInv, NEW t \in Browser!Text, Browser!deliver(t)
  PROVE  /\ MailTyped'
         /\ b_outcome # "failed" => b_taken' \o b_messages' = Append(b_taken \o b_messages, t)
         /\ \A x : Contains(b_taken, x) => Contains(b_taken', x)
         /\ \/ b_waiters' = b_waiters /\ b_waiters = <<>> /\ b_hand' = b_hand
            \/ b_waiters = <<"live">> /\ b_waiters' = <<>> /\ b_hand' = t /\ Contains(b_taken', t)
            \/ b_waiters = <<"stale">> /\ b_waiters' = <<>> /\ b_hand' = b_hand
<1>1. CASE b_waiters = <<>>
  <2>1. b_messages' = Append(b_messages, t) /\ b_waiters' = b_waiters /\ b_hand' = b_hand /\ b_taken' = b_taken
    BY <1>1 DEF Browser!deliver
  <2>2. b_messages' \in Seq(Browser!Text)
    BY <2>1, AppendProperties DEF MailTyped
  <2>3. b_taken' \o b_messages' = Append(b_taken \o b_messages, t)
    BY <2>1, ConcatAppend DEF MailTyped
  <2> QED BY <1>1, <2>1, <2>2, <2>3 DEF MailTyped
<1>2. CASE b_waiters = <<"live">>
  <2>1. b_messages = <<>>
    BY <1>2 DEF MailInv
  <2>2. b_waiters # <<>> /\ b_waiters[1] = "live" /\ Tail(b_waiters) = <<>>
    BY <1>2
  <2>3. b_messages' = b_messages /\ b_waiters' = <<>> /\ b_hand' = t /\ b_taken' = Append(b_taken, t)
    BY <2>2 DEF Browser!deliver, Browser!Live, Browser!Take
  <2>4. b_taken' \in Seq(Browser!Text)
    BY <2>3, AppendProperties DEF MailTyped
  <2>5. b_taken' \o <<>> = b_taken' /\ b_taken \o <<>> = b_taken
    BY <2>4, ConcatEmptySeq DEF MailTyped
  <2>6. b_taken' \o b_messages' = Append(b_taken \o b_messages, t)
    BY <2>1, <2>3, <2>5
  <2>7. Contains(b_taken', t) /\ \A x : Contains(b_taken, x) => Contains(b_taken', x)
    BY <2>3, ContainsMore DEF MailTyped
  <2> QED BY <1>2, <2>1, <2>3, <2>4, <2>6, <2>7 DEF MailTyped
<1>3. CASE b_waiters = <<"stale">>
  <2>1. b_outcome = "failed"
    BY <1>3 DEF MailInv
  <2>2. b_waiters # <<>> /\ b_waiters[1] # "live" /\ Tail(b_waiters) = <<>>
    BY <1>3
  <2>3. b_messages' = b_messages /\ b_waiters' = <<>> /\ b_hand' = b_hand /\ b_taken' = b_taken
    BY <2>2 DEF Browser!deliver, Browser!Live
  <2> QED BY <1>3, <2>1, <2>3 DEF MailTyped
<1> QED BY <1>1, <1>2, <1>3 DEF MailTyped

LEMMA LiveWaiting == ASSUME MailTyped PROVE Browser!Live <=> b_waiters = <<"live">>
<1>1. CASE b_waiters = <<>>
  BY <1>1 DEF Browser!Live
<1>2. CASE b_waiters = <<"live">>
  BY <1>2 DEF Browser!Live
<1>3. CASE b_waiters = <<"stale">>
  BY <1>3 DEF Browser!Live
<1> QED BY <1>1, <1>2, <1>3 DEF MailTyped

(* Nothing of the stream moves. *)
LEMMA StreamKept ==
  ASSUME BrowserInv, UNCHANGED <<b_gateway, b_wire, b_buffer, b_sent, b_arrived>>,
         b_conn' \in {"open", "ended", "closed"}, b_conn' # "closed" => b_conn # "closed",
         Upgraded,
         b_outcome' # "failed" => b_outcome # "failed" /\ b_taken' \o b_messages' = b_taken \o b_messages
  PROVE  StreamInv'
<1>1. /\ b_gateway # "none" /\ b_arrived <= Total
      /\ b_conn # "closed" => b_arrived + Len(b_wire) = Total
  BY DEF BrowserInv, StreamInv
<1>2. PICK p \in 0 .. Len(b_sent) :
        /\ b_arrived = End(b_sent, p) + Len(b_buffer)
        /\ Carries(Rest, End(b_sent, p), b_sent)
        /\ b_outcome # "failed" => ReadsOf(b_taken \o b_messages, b_sent, End(b_sent, p))
  BY DEF BrowserInv, StreamInv
<1>3. Rest' = Rest /\ Total' = Total
  BY DEF Rest, Total
<1>4. /\ b_arrived' = End(b_sent', p) + Len(b_buffer')
      /\ Carries(Rest', End(b_sent', p), b_sent')
      /\ b_outcome' # "failed" => ReadsOf(b_taken' \o b_messages', b_sent', End(b_sent', p))
  BY <1>2, <1>3
<1>5. p \in 0 .. Len(b_sent')
  OBVIOUS
<1> QED BY <1>1, <1>3, <1>4, <1>5 DEF StreamInv

(* Signing in, and the start of the connection: nothing is said yet.        *)
LEMMA SigningIn == BrowserInv /\ Browser!SignIn => BrowserInv'
<1> SUFFICES ASSUME BrowserInv, Browser!SignIn PROVE BrowserInv'
  OBVIOUS
<1>1. UNCHANGED <<b_conn, b_gateway, b_wire, b_buffer, b_messages, b_waiters, b_hand, b_taken, b_sent, b_arrived>>
  BY DEF Browser!SignIn, Browser!mailbox
<1>2. /\ b_pc \in Signing /\ b_asked' = b_asked
      /\ \/ b_pc' \in Signing /\ b_outcome' = b_outcome
         \/ b_pc' = "done" /\ b_outcome' = "failed"
  BY DEF Browser!SignIn, Browser!Proceed, Browser!Fail, Signing
<1>3. ScriptTyped' /\ LinkTyped' /\ MailTyped'
  BY <1>1, <1>2 DEF BrowserInv, ScriptTyped, LinkTyped, MailTyped, Over
<1>4. ~Upgraded /\ ~Upgraded'
  BY <1>2 DEF BrowserInv, PlaceInv, Upgraded, Signing
<1>5. PlaceInv' /\ MailInv' /\ EarlyInv'
  BY <1>1, <1>2, <1>4 DEF BrowserInv, PlaceInv, MailInv, EarlyInv, Signing, Over
<1>6. HandshakeInv' /\ StreamInv'
  BY <1>2, <1>4 DEF HandshakeInv, StreamInv, Signing
<1> QED BY <1>3, <1>5, <1>6 DEF BrowserInv

(* The script: one step each. *)
LEMMA Connecting == BrowserInv /\ (Browser!Connect \/ Browser!Connected) => BrowserInv'
<1> SUFFICES ASSUME BrowserInv, Browser!Connect \/ Browser!Connected PROVE BrowserInv'
  OBVIOUS
<1>1. UNCHANGED <<b_gateway, b_wire, b_buffer, b_messages, b_waiters, b_hand, b_taken, b_sent, b_arrived, b_outcome, b_asked>>
  BY DEF Browser!Connect, Browser!Connected, Browser!mailbox, Browser!script, Browser!Proceed
<1>2. \/ b_pc = "exchange" /\ b_pc' = "upgrade" /\ b_conn' = "connecting"
      \/ b_conn = "connecting" /\ b_conn' = "open" /\ b_pc' = b_pc
  BY DEF Browser!Connect, Browser!Connected, Browser!script, Browser!Proceed
<1>3. b_conn \in {"none", "connecting"} /\ ~Upgraded
  <2>1. b_conn \in {"none", "connecting"}
    BY <1>2 DEF BrowserInv, EarlyInv, Signing
  <2> QED BY <2>1 DEF BrowserInv, StreamInv
<1>4. ~Upgraded'
  BY <1>1, <1>2, <1>3 DEF Upgraded
<1>5. ScriptTyped' /\ LinkTyped' /\ MailTyped'
  BY <1>1, <1>2 DEF BrowserInv, ScriptTyped, LinkTyped, MailTyped, Over
<1>6. PlaceInv' /\ MailInv'
  BY <1>1, <1>2, <1>3 DEF BrowserInv, PlaceInv, MailInv, Upgraded, Signing, Over
<1>7. EarlyInv'
  BY <1>1, <1>2, <1>3, <1>4 DEF BrowserInv, EarlyInv, Signing, Over
<1>8. HandshakeInv'
  BY <1>1, <1>2, <1>3 DEF BrowserInv, EarlyInv, HandshakeInv
<1> QED BY <1>4, <1>5, <1>6, <1>7, <1>8 DEF BrowserInv, StreamInv

LEMMA HandshakeOver == BrowserInv /\ Browser!HandshakeTimesOut => BrowserInv'
<1> SUFFICES ASSUME BrowserInv, Browser!HandshakeTimesOut PROVE BrowserInv'
  OBVIOUS
<1>1. /\ UNCHANGED <<b_gateway, b_buffer, b_messages, b_waiters, b_hand, b_taken, b_sent, b_arrived, b_asked>>
      /\ b_pc = "upgrade" /\ b_pc' = "done" /\ b_outcome' = "failed" /\ b_conn' = "closed" /\ b_wire' = <<>>
  BY DEF Browser!HandshakeTimesOut, Browser!mailbox, Browser!Fail
<1>2. ~Upgraded /\ ~Upgraded'
  BY <1>1 DEF BrowserInv, PlaceInv, Upgraded
<1>3. ScriptTyped' /\ LinkTyped' /\ MailTyped'
  BY <1>1, EmptySeq DEF BrowserInv, ScriptTyped, LinkTyped, MailTyped, Over
<1>4. PlaceInv' /\ MailInv' /\ EarlyInv'
  BY <1>1, <1>2 DEF BrowserInv, PlaceInv, MailInv, EarlyInv, Signing, Over
<1> QED BY <1>1, <1>2, <1>3, <1>4 DEF BrowserInv, HandshakeInv, StreamInv

LEMMA Exiting == BrowserInv /\ Browser!Exit => BrowserInv'
<1> SUFFICES ASSUME BrowserInv, Browser!Exit PROVE BrowserInv'
  OBVIOUS
<1>1. /\ UNCHANGED <<b_conn, b_gateway, b_wire, b_buffer, b_messages, b_waiters, b_hand, b_taken, b_sent, b_arrived,
                     b_asked, b_outcome>>
      /\ b_pc = "done" /\ b_pc' = "exited" /\ b_conn \in {"none", "closed"}
  BY DEF Browser!Exit, Browser!mailbox, Browser!Proceed
<1>2. Upgraded' <=> Upgraded
  BY <1>1 DEF Upgraded
<1>3. ScriptTyped' /\ LinkTyped' /\ MailTyped'
  BY <1>1 DEF BrowserInv, ScriptTyped, LinkTyped, MailTyped, Over
<1>4. PlaceInv' /\ MailInv' /\ EarlyInv' /\ HandshakeInv'
  BY <1>1, <1>2 DEF BrowserInv, PlaceInv, MailInv, EarlyInv, HandshakeInv, Signing, Over
<1>5. StreamInv'
  <2>1. CASE ~Upgraded'
    BY <2>1 DEF StreamInv
  <2>2. CASE Upgraded
    <3>1. b_conn' \in {"open", "ended", "closed"}
      BY <1>1, <2>2 DEF BrowserInv, StreamInv
    <3> QED BY <1>1, <2>2, <3>1, StreamKept
  <2> QED BY <1>2, <2>1, <2>2
<1> QED BY <1>3, <1>4, <1>5 DEF BrowserInv

LEMMA Greeting == BrowserInv /\ Browser!Greet => BrowserInv'
<1> SUFFICES ASSUME BrowserInv, Browser!Greet PROVE BrowserInv'
  OBVIOUS
<1>1. /\ UNCHANGED <<b_conn, b_gateway, b_wire, b_buffer, b_sent, b_arrived>>
      /\ b_pc = "greet" /\ Browser!Receive("bind")
  BY DEF Browser!Greet
<1>2. Upgraded /\ b_asked = 0 /\ b_outcome = "running" /\ b_conn \in {"open", "ended", "closed"}
  BY <1>1 DEF BrowserInv, PlaceInv, StreamInv, ScriptTyped, Upgraded, Signing, Over
<1>3. b_waiters = <<>>
  BY <1>1, <1>2 DEF BrowserInv, MailInv, MailTyped
<1>4. /\ MailTyped' /\ b_taken' \o b_messages' = b_taken \o b_messages
      /\ \/ b_waiters' = <<>> /\ Contains(b_taken', b_hand')
         \/ b_waiters' = <<"live">> /\ b_hand' = "none" /\ b_messages' = <<>>
      /\ b_pc' = "bind" /\ b_asked' = b_asked + 1 /\ b_outcome' = b_outcome
  BY <1>1, <1>3, Receiving DEF BrowserInv
<1>5. ScriptTyped' /\ LinkTyped' /\ PlaceInv'
  BY <1>1, <1>2, <1>4 DEF BrowserInv, ScriptTyped, LinkTyped, PlaceInv, Signing, Over
<1>6. MailInv'
  BY <1>2, <1>4 DEF MailInv
<1>7. Upgraded'
  BY <1>2, <1>4 DEF Upgraded
<1>8. EarlyInv' /\ HandshakeInv'
  BY <1>1, <1>2, <1>4, <1>7 DEF BrowserInv, EarlyInv, HandshakeInv, Signing
<1>9. StreamInv'
  BY <1>1, <1>2, <1>4, StreamKept
<1> QED BY <1>4, <1>5, <1>6, <1>8, <1>9 DEF BrowserInv

LEMMA Examining == BrowserInv /\ Browser!Examine => BrowserInv'
<1> SUFFICES ASSUME BrowserInv, Browser!Examine PROVE BrowserInv'
  OBVIOUS
<1>1. UNCHANGED <<b_gateway, b_wire, b_buffer, b_sent, b_arrived>> /\ b_hand # "none"
  BY DEF Browser!Examine
<1>2. b_pc \in {"bind", "join"} /\ b_waiters = <<>> /\ Contains(b_taken, b_hand)
  BY <1>1 DEF BrowserInv, MailInv
<1>3. b_asked \in {1, 2} /\ (b_pc = "join" => b_asked = 2) /\ Upgraded
  BY <1>2 DEF BrowserInv, PlaceInv, Upgraded
<1>4. b_conn \in {"open", "ended", "closed"} /\ b_outcome = "running"
  BY <1>2, <1>3 DEF BrowserInv, StreamInv, PlaceInv, Over, ScriptTyped
<1>5. CASE b_pc = "bind" /\ b_hand = "bound" /\ Browser!Receive("join") /\ UNCHANGED b_conn
  <2>1. /\ MailTyped' /\ b_taken' \o b_messages' = b_taken \o b_messages
        /\ \A x : Contains(b_taken, x) => Contains(b_taken', x)
        /\ \/ b_waiters' = <<>> /\ Contains(b_taken', b_hand')
           \/ b_waiters' = <<"live">> /\ b_hand' = "none" /\ b_messages' = <<>>
        /\ b_pc' = "join" /\ b_asked' = b_asked + 1 /\ b_outcome' = b_outcome
    BY <1>2, <1>5, Receiving DEF BrowserInv
  <2>2. b_asked' = 2
    BY <1>5, <2>1 DEF BrowserInv, PlaceInv
  <2>3. ScriptTyped' /\ LinkTyped' /\ PlaceInv'
    BY <1>1, <1>4, <1>5, <2>1, <2>2 DEF BrowserInv, ScriptTyped, LinkTyped, PlaceInv, Signing, Over
  <2>4. MailInv'
    <3>1. Contains(b_taken, "bound")
      BY <1>2, <1>5
    <3>2. Contains(b_taken', "bound") /\ b_outcome' = "running"
      BY <1>4, <2>1, <3>1
    <3>3. \/ b_waiters' = <<>> /\ Contains(b_taken', b_hand')
          \/ b_waiters' = <<"live">> /\ b_hand' = "none" /\ b_messages' = <<>>
      BY <2>1
    <3>4. b_pc' = "join"
      BY <2>1
    <3> QED BY <3>2, <3>3, <3>4 DEF MailInv
  <2>5. EarlyInv' /\ HandshakeInv'
    BY <1>4, <1>5, <2>1, <2>2 DEF EarlyInv, HandshakeInv, Upgraded, Signing
  <2>6. StreamInv'
    BY <1>1, <1>3, <1>4, <1>5, <2>1, StreamKept
  <2> QED BY <2>1, <2>3, <2>4, <2>5, <2>6 DEF BrowserInv
<1>6. CASE /\ Browser!HangUp(IF b_pc = "join" /\ Browser!Joined(b_hand) THEN "passed" ELSE "failed")
           /\ b_hand' = "none" /\ UNCHANGED <<b_messages, b_waiters, b_taken>>
  <2>1. /\ b_pc' = "done" /\ b_asked' = b_asked /\ b_conn' \in {"open", "ended", "closed"}
        /\ b_conn' # "closed" => b_conn # "closed"
        /\ b_outcome' \in {"passed", "failed"} /\ (b_outcome' = "passed" => b_pc = "join" /\ b_hand = "joined")
    BY <1>4, <1>6 DEF Browser!HangUp, Browser!Joined
  <2>2. ScriptTyped' /\ LinkTyped' /\ MailTyped' /\ PlaceInv'
    BY <1>1, <1>3, <1>6, <2>1 DEF BrowserInv, ScriptTyped, LinkTyped, MailTyped, PlaceInv, Signing, Over
  <2>3. MailInv'
    BY <1>2, <1>3, <1>6, <2>1 DEF BrowserInv, MailInv
  <2>4. EarlyInv' /\ HandshakeInv'
    BY <1>3, <2>1 DEF EarlyInv, HandshakeInv, Upgraded, Signing
  <2>5. StreamInv'
    BY <1>1, <1>3, <1>4, <1>6, <2>1, StreamKept
  <2> QED BY <2>2, <2>3, <2>4, <2>5 DEF BrowserInv
<1> QED BY <1>5, <1>6 DEF Browser!Examine

LEMMA TimingOut == BrowserInv /\ Browser!TimedOut => BrowserInv'
<1> SUFFICES ASSUME BrowserInv, Browser!TimedOut PROVE BrowserInv'
  OBVIOUS
<1>1. /\ UNCHANGED <<b_gateway, b_wire, b_buffer, b_sent, b_arrived, b_messages, b_hand, b_taken, b_asked>>
      /\ b_waiters' = [i \in DOMAIN b_waiters |-> "stale"] /\ b_hand = "none"
      /\ b_pc' = "done" /\ b_outcome' = "failed"
      /\ b_conn' = IF b_conn = "open" THEN "ended" ELSE b_conn
  BY DEF Browser!TimedOut, Browser!Quiet, Browser!HangUp
<1>2. b_waiters = <<"live">>
  BY LiveWaiting DEF Browser!TimedOut, BrowserInv
<1>3. b_waiters' = <<"stale">>
  BY <1>1, <1>2
<1>4. b_asked # 0 /\ Upgraded
  BY <1>2 DEF BrowserInv, MailInv, PlaceInv, Upgraded
<1>5. b_conn' \in {"open", "ended", "closed"} /\ (b_conn' # "closed" => b_conn # "closed")
  BY <1>1, <1>4 DEF BrowserInv, StreamInv
<1>6. ScriptTyped' /\ LinkTyped' /\ MailTyped' /\ PlaceInv'
  BY <1>1, <1>3, <1>5 DEF BrowserInv, ScriptTyped, LinkTyped, MailTyped, PlaceInv, Signing, Over
<1>7. MailInv'
  BY <1>1, <1>3 DEF MailInv
<1>8. EarlyInv' /\ HandshakeInv'
  BY <1>1, <1>4, <1>5 DEF EarlyInv, HandshakeInv, Upgraded, Signing
<1>9. StreamInv'
  BY <1>1, <1>4, <1>5, StreamKept
<1> QED BY <1>6, <1>7, <1>8, <1>9 DEF BrowserInv

(* The rest of the stream, and where in it the connection is. *)
LEMMA RestBytes ==
  ASSUME LinkTyped
  PROVE  /\ Rest \in Seq(Bytes) /\ Len(b_buffer) \in Nat /\ Len(b_wire) \in Nat
         /\ Len(Rest) = Len(b_buffer) + Len(b_wire) /\ Total \in Nat
         /\ \A i \in 1 .. Len(b_buffer) : Rest[i] = b_buffer[i]
<1>1. b_buffer \in Seq(Bytes) /\ b_wire \in Seq(Bytes) /\ Laid(b_sent)
  BY DEF LinkTyped
<1>2. Total \in Nat
  BY <1>1, Ends DEF Total
<1>3. Len(b_buffer) \in Nat /\ Len(b_wire) \in Nat
  BY <1>1, LenProperties
<1> QED BY <1>1, <1>2, <1>3, Extended DEF Rest

(* The parser at the head of the stream. *)
LEMMA HeadOfStream ==
  ASSUME LinkTyped, NEW p \in 0 .. Len(b_sent), b_arrived = End(b_sent, p) + Len(b_buffer), b_arrived <= Total,
         Carries(Rest, End(b_sent, p), b_sent)
  PROVE  /\ p = Len(b_sent) => Len(b_buffer) = 0
         /\ p < Len(b_sent) =>
              LET f == b_sent[p + 1].frame IN
              /\ p + 1 \in 1 .. Len(b_sent) /\ f \in Browser!Frame
              /\ End(b_sent, p + 1) = End(b_sent, p) + Len(Browser!Encode(f))
              /\ Browser!Complete <=> Len(b_buffer) >= Len(Browser!Encode(f))
              /\ Browser!Complete => /\ Browser!HeaderSize + Browser!Length = Len(Browser!Encode(f))
                                     /\ b_buffer[1].op = f.op
                                     /\ f.op = "text" => Browser!Payload = {f.text}
<1>1. Laid(b_sent) /\ Len(b_sent) \in Nat /\ End(b_sent, p) \in Nat /\ Len(b_buffer) \in Nat
  BY RestBytes, Ends DEF LinkTyped
<1>2. p = Len(b_sent) => Len(b_buffer) = 0
  BY <1>1 DEF Total
<1>3. ASSUME p < Len(b_sent), NEW f, f = b_sent[p + 1].frame
      PROVE  /\ p + 1 \in 1 .. Len(b_sent) /\ f \in Browser!Frame
             /\ End(b_sent, p + 1) = End(b_sent, p) + Len(Browser!Encode(f))
             /\ Browser!Complete <=> Len(b_buffer) >= Len(Browser!Encode(f))
             /\ Browser!Complete => /\ Browser!HeaderSize + Browser!Length = Len(Browser!Encode(f))
                                    /\ b_buffer[1].op = f.op
                                    /\ f.op = "text" => Browser!Payload = {f.text}
  <2>1. p + 1 \in 1 .. Len(b_sent) /\ p + 1 - 1 = p
    BY <1>1, <1>3
  <2>2. f \in Browser!Frame /\ End(b_sent, p + 1) = End(b_sent, p) + Len(Browser!Encode(f))
    BY <1>1, <1>3, <2>1, Ends
  <2>3. b_buffer \in Seq(Bytes)
    BY DEF LinkTyped
  <2>4. ASSUME NEW i \in 1 .. Len(b_buffer), i <= Len(Browser!Encode(f))
        PROVE  b_buffer[i] = Browser!Encode(f)[i]
    <3>1. i \in Nat /\ i \in 1 .. Len(Rest) /\ Rest[i] = b_buffer[i]
      BY <1>1, RestBytes
    <3> DEFINE l == Len(Browser!Encode(f))
    <3>2. l \in Nat
      BY <2>2, EncodedSize
    <3>3. i \in 1 .. l
      BY <2>4, <3>1, <3>2
    <3>4. i \in 1 .. Len(Browser!Encode(b_sent[p + 1].frame)) /\ i + End(b_sent, p) = End(b_sent, p + 1 - 1) + i
      BY <1>1, <1>3, <2>1, <3>1, <3>3
    <3>5. Rest[i] = Browser!Encode(b_sent[p + 1].frame)[i]
      BY <2>1, <3>1, <3>4 DEF Carries
    <3> QED BY <1>3, <3>1, <3>5
  <2> QED BY <2>1, <2>2, <2>3, <2>4, HeadFrame
<1> QED BY <1>2, <1>3

(* While bytes may arrive, the script waits for the handshake or is past it. *)
LEMMA Settled ==
  ASSUME BrowserInv, b_conn \in {"open", "ended"}
  PROVE  Upgraded \/ (b_pc = "upgrade" /\ b_conn = "open" /\ ~Upgraded)
BY DEF BrowserInv, ScriptTyped, PlaceInv, EarlyInv, Upgraded, Signing, Over

(* One round of the parser makes use of exactly one frame. *)
LEMMA Parsing == BrowserInv /\ Browser!ParseFrame => BrowserInv'
<1> SUFFICES ASSUME BrowserInv, Browser!ParseFrame PROVE BrowserInv'
  OBVIOUS
<1> DEFINE m == Browser!HeaderSize + Browser!Length
<1>1. /\ UNCHANGED <<b_gateway, b_wire, b_sent, b_arrived>> /\ b_pc # "upgrade" /\ Browser!Complete
      /\ b_buffer' = SubSeq(b_buffer, m + 1, Len(b_buffer))
  BY DEF Browser!ParseFrame
<1>2. LinkTyped /\ Rest \in Seq(Bytes) /\ Len(b_buffer) \in Nat /\ Len(b_wire) \in Nat /\ b_buffer \in Seq(Bytes)
      /\ b_wire \in Seq(Bytes) /\ Len(Rest) = Len(b_buffer) + Len(b_wire) /\ Total \in Nat /\ Laid(b_sent)
  BY RestBytes DEF BrowserInv, LinkTyped
<1>3. Len(b_buffer) >= 2
  BY <1>1 DEF Browser!Complete
<1>4. Upgraded
  BY <1>2, <1>3 DEF BrowserInv, EarlyInv
<1>5. /\ b_conn \in {"open", "ended", "closed"} /\ b_gateway # "none" /\ b_arrived <= Total
      /\ b_conn # "closed" => b_arrived + Len(b_wire) = Total
  BY <1>4 DEF BrowserInv, StreamInv
<1>6. PICK p \in 0 .. Len(b_sent) :
        /\ b_arrived = End(b_sent, p) + Len(b_buffer)
        /\ Carries(Rest, End(b_sent, p), b_sent)
        /\ b_outcome # "failed" => ReadsOf(b_taken \o b_messages, b_sent, End(b_sent, p))
  BY <1>4 DEF BrowserInv, StreamInv
<1>7. Len(b_sent) \in Nat /\ p < Len(b_sent)
  BY <1>2, <1>3, <1>5, <1>6, HeadOfStream, Ends
<1> DEFINE f == b_sent[p + 1].frame
<1>8. /\ p + 1 \in 1 .. Len(b_sent) /\ f \in Browser!Frame
      /\ End(b_sent, p + 1) = End(b_sent, p) + Len(Browser!Encode(f))
      /\ Len(b_buffer) >= Len(Browser!Encode(f))
      /\ m = Len(Browser!Encode(f))
      /\ b_buffer[1].op = f.op
      /\ f.op = "text" => Browser!Payload = {f.text}
  BY <1>1, <1>2, <1>5, <1>6, <1>7, HeadOfStream
<1> HIDE DEF m, f
<1>9. m \in 0 .. Len(b_buffer) /\ End(b_sent, p + 1) = End(b_sent, p) + m /\ End(b_sent, p) \in Nat
  <2>1. m \in Nat
    BY <1>8, EncodedSize
  <2>2. End(b_sent, p) \in Nat
    BY <1>2, Ends
  <2> QED BY <1>2, <1>8, <2>1, <2>2
<1>10. b_buffer' \in Seq(Bytes) /\ Len(b_buffer') = Len(b_buffer) - m
  BY <1>1, <1>2, <1>9, Dropped
<1>11. Rest' = SubSeq(Rest, m + 1, Len(Rest))
  BY <1>1, <1>2, <1>9, DroppedFirst DEF Rest
<1>12. Carries(Rest', End(b_sent, p + 1), b_sent)
  <2>1. m \in 0 .. Len(Rest) /\ End(b_sent, p) \in Int
    BY <1>2, <1>9
  <2> QED BY <1>2, <1>6, <1>9, <1>11, <2>1, CarriesRest
<1>13. b_arrived' = End(b_sent', p + 1) + Len(b_buffer') /\ p + 1 \in 0 .. Len(b_sent')
  BY <1>1, <1>2, <1>6, <1>7, <1>9, <1>10
<1>14. ASSUME b_outcome' # "failed" => ReadsOf(b_taken' \o b_messages', b_sent, End(b_sent, p + 1)),
              b_conn' \in {"open", "ended", "closed"}, b_conn' # "closed" => b_conn # "closed"
       PROVE  StreamInv'
  <2>1. Total' = Total
    BY <1>1 DEF Total
  <2>2. Carries(Rest', End(b_sent', p + 1), b_sent')
        /\ (b_outcome' # "failed" => ReadsOf(b_taken' \o b_messages', b_sent', End(b_sent', p + 1)))
    BY <1>1, <1>12, <1>14
  <2>3. b_conn' # "closed" => b_arrived' + Len(b_wire') = Total'
    BY <1>1, <1>5, <1>14, <2>1
  <2>4. b_conn' \in {"open", "ended", "closed"} /\ b_gateway' # "none" /\ b_arrived' <= Total'
    BY <1>1, <1>5, <1>14, <2>1
  <2> QED BY <1>13, <2>2, <2>3, <2>4 DEF StreamInv
<1>15. b_conn' \in {"none", "connecting", "open", "ended", "closed"} => LinkTyped'
  BY <1>1, <1>10 DEF BrowserInv, LinkTyped
<1>16. p \in 0 .. Len(b_sent) - 1 /\ f = b_sent[p + 1].frame
  BY <1>7 DEF f
<1>17. CASE b_buffer[1].op = "text"
  <2>1. Browser!Payload = {f.text} /\ f.text \in Browser!Text /\ f.op = "text"
    BY <1>8, <1>17, Frames
  <2>2. (IF Browser!Payload \subseteq Browser!Text THEN CHOOSE t \in Browser!Payload : TRUE ELSE "garbage") = f.text
    BY <2>1
  <2>3. Browser!deliver(f.text) /\ UNCHANGED <<b_pc, b_outcome, b_asked, b_conn>>
    BY <1>17, <2>2 DEF Browser!ParseFrame, Browser!script
  <2>4. /\ MailTyped'
        /\ b_outcome # "failed" => b_taken' \o b_messages' = Append(b_taken \o b_messages, f.text)
        /\ \A x : Contains(b_taken, x) => Contains(b_taken', x)
        /\ \/ b_waiters' = b_waiters /\ b_waiters = <<>> /\ b_hand' = b_hand
           \/ b_waiters = <<"live">> /\ b_waiters' = <<>> /\ b_hand' = f.text /\ Contains(b_taken', f.text)
           \/ b_waiters = <<"stale">> /\ b_waiters' = <<>> /\ b_hand' = b_hand
    BY <2>1, <2>3, Delivering DEF BrowserInv
  <2>5. b_outcome' # "failed" => ReadsOf(b_taken' \o b_messages', b_sent, End(b_sent, p + 1))
    <3> SUFFICES ASSUME b_outcome # "failed" PROVE ReadsOf(b_taken' \o b_messages', b_sent, End(b_sent, p + 1))
      BY <2>3
    <3> DEFINE r == b_taken \o b_messages
    <3>1. r \in Seq(Browser!Text)
      BY ConcatProperties DEF BrowserInv, MailTyped
    <3>2. ReadsOf(r, b_sent, End(b_sent, p)) /\ b_taken' \o b_messages' = Append(r, f.text)
      BY <1>6, <2>4
    <3> HIDE DEF r
    <3>3. ReadsOf(Append(r, f.text), b_sent, End(b_sent, p + 1))
      BY <1>2, <1>16, <2>1, <3>1, <3>2, ReadsText
    <3> QED BY <3>2, <3>3
  <2>6. StreamInv' /\ LinkTyped'
    BY <1>5, <1>14, <1>15, <2>3, <2>5
  <2>7. ScriptTyped' /\ PlaceInv' /\ Upgraded'
    BY <1>4, <2>3 DEF BrowserInv, ScriptTyped, PlaceInv, Upgraded
  <2>8. EarlyInv' /\ HandshakeInv'
    BY <1>1, <1>5, <2>3, <2>7, <1>4 DEF BrowserInv, EarlyInv, HandshakeInv
  <2>9. MailInv'
    <3>1. /\ b_pc = "join" => Contains(b_taken', "bound")
          /\ b_outcome = "passed" => b_asked = 2 /\ Contains(b_taken', "bound") /\ Contains(b_taken', "joined")
          /\ b_hand # "none" => Contains(b_taken', b_hand)
      BY <2>4 DEF BrowserInv, MailInv
    <3>2. CASE b_waiters' = b_waiters /\ b_waiters = <<>> /\ b_hand' = b_hand
      BY <2>3, <3>1, <3>2 DEF BrowserInv, MailInv
    <3>3. CASE b_waiters = <<"live">> /\ b_waiters' = <<>> /\ b_hand' = f.text /\ Contains(b_taken', f.text)
      BY <2>3, <3>1, <3>3 DEF BrowserInv, MailInv
    <3>4. CASE b_waiters = <<"stale">> /\ b_waiters' = <<>> /\ b_hand' = b_hand
      BY <2>3, <3>1, <3>4 DEF BrowserInv, MailInv
    <3> QED BY <2>4, <3>2, <3>3, <3>4
  <2> QED BY <2>4, <2>6, <2>7, <2>8, <2>9 DEF BrowserInv
<1>18. b_buffer[1].op # "text" =>
         (b_outcome # "failed" => ReadsOf(b_taken \o b_messages, b_sent, End(b_sent, p + 1)))
  BY <1>2, <1>6, <1>8, <1>16, ReadsOther
<1>19. CASE b_buffer[1].op = "close"
  <2>1. /\ b_waiters' = <<>> /\ UNCHANGED <<b_messages, b_hand, b_taken>>
        /\ b_conn' = IF Browser!Live /\ b_conn = "open" THEN "ended" ELSE b_conn
        /\ IF Browser!Live THEN Browser!Fail ELSE UNCHANGED <<b_pc, b_outcome, b_asked>>
    BY <1>19 DEF Browser!ParseFrame, Browser!rejectWaiters, Browser!script
  <2>2. b_conn' \in {"open", "ended", "closed"} /\ (b_conn' # "closed" => b_conn # "closed")
    BY <1>5, <2>1
  <2>3. b_outcome' # "failed" => b_outcome # "failed" /\ b_taken' \o b_messages' = b_taken \o b_messages
    BY <2>1 DEF Browser!Fail
  <2>4. StreamInv' /\ LinkTyped'
    BY <1>14, <1>15, <1>18, <1>19, <2>2, <2>3
  <2>5. /\ b_asked' = b_asked
        /\ \/ b_pc' = "done" /\ b_outcome' = "failed" /\ b_pc \in {"bind", "join"}
           \/ b_pc' = b_pc /\ b_outcome' = b_outcome
    BY <2>1, LiveWaiting DEF Browser!Fail, BrowserInv, MailInv
  <2>6. ScriptTyped' /\ MailTyped' /\ PlaceInv' /\ Upgraded'
    BY <1>4, <2>1, <2>5 DEF BrowserInv, ScriptTyped, MailTyped, PlaceInv, Upgraded, Signing, Over
  <2>7. EarlyInv' /\ HandshakeInv'
    BY <1>1, <2>2, <2>5, <2>6, <1>4 DEF BrowserInv, EarlyInv, HandshakeInv, PlaceInv, Upgraded, Signing
  <2>8. MailInv'
    <3>1. CASE Browser!Live
      <4>1. b_hand' = "none" /\ b_pc' = "done" /\ b_outcome' = "failed" /\ b_waiters' = <<>>
        BY <2>1, <3>1, LiveWaiting DEF Browser!Fail, BrowserInv, MailInv
      <4> QED BY <4>1 DEF MailInv
    <3>2. CASE ~Browser!Live
      BY <2>1, <3>2 DEF BrowserInv, MailInv
    <3> QED BY <3>1, <3>2
  <2> QED BY <2>4, <2>6, <2>7, <2>8 DEF BrowserInv
<1>20. CASE b_buffer[1].op # "text" /\ b_buffer[1].op # "close"
  <2>1. UNCHANGED <<b_pc, b_outcome, b_asked, b_conn, b_messages, b_waiters, b_hand, b_taken>>
    BY <1>20 DEF Browser!ParseFrame, Browser!script, Browser!mailbox
  <2>2. StreamInv' /\ LinkTyped'
    BY <1>5, <1>14, <1>15, <1>18, <1>20, <2>1
  <2>3. ScriptTyped' /\ MailTyped' /\ PlaceInv' /\ MailInv' /\ Upgraded'
    BY <1>4, <2>1 DEF BrowserInv, ScriptTyped, MailTyped, PlaceInv, MailInv, Upgraded
  <2>4. EarlyInv' /\ HandshakeInv'
    BY <1>1, <1>4, <1>5, <2>1, <2>3 DEF BrowserInv, EarlyInv, HandshakeInv
  <2> QED BY <2>2, <2>3, <2>4 DEF BrowserInv
<1> QED BY <1>17, <1>19, <1>20

(* A piece of the stream changes hands: the bytes not made use of stay.     *)
LEMMA Arriving == BrowserInv /\ Browser!Arrives => BrowserInv'
<1> SUFFICES ASSUME BrowserInv, Browser!Arrives PROVE BrowserInv'
  OBVIOUS
<1>1. /\ UNCHANGED <<b_gateway, b_sent, b_messages, b_waiters, b_hand, b_taken>>
      /\ b_conn \in {"open", "ended"} /\ Browser!Quiet
  BY DEF Browser!Arrives, Browser!mailbox
<1>2. PICK n \in 1 .. Len(b_wire) :
        /\ b_wire' = SubSeq(b_wire, n + 1, Len(b_wire))
        /\ IF b_pc = "upgrade" THEN Browser!Upgrade(b_buffer \o SubSeq(b_wire, 1, n))
           ELSE /\ b_buffer' = b_buffer \o SubSeq(b_wire, 1, n) /\ b_arrived' = b_arrived + n
                /\ UNCHANGED <<b_pc, b_outcome, b_asked, b_conn>>
  BY DEF Browser!Arrives, Browser!script
<1> DEFINE piece == SubSeq(b_wire, 1, n)
           response == b_buffer \o piece
           r == Len(response)
<1>3. LinkTyped /\ Rest \in Seq(Bytes) /\ Len(b_buffer) \in Nat /\ Len(b_wire) \in Nat /\ b_buffer \in Seq(Bytes)
      /\ b_wire \in Seq(Bytes) /\ Len(Rest) = Len(b_buffer) + Len(b_wire) /\ Total \in Nat /\ Laid(b_sent)
  BY RestBytes DEF BrowserInv, LinkTyped
<1>4. /\ piece \in Seq(Bytes) /\ Len(piece) = n /\ b_wire' \in Seq(Bytes) /\ Len(b_wire') = Len(b_wire) - n
      /\ piece \o b_wire' = b_wire /\ n \in 0 .. Len(b_wire)
  <2>1. n \in 0 .. Len(b_wire)
    BY <1>3
  <2> QED BY <1>2, <1>3, <2>1, Kept, Dropped, Cut
<1> HIDE DEF piece
<1>5. response \in Seq(Bytes) /\ r = Len(b_buffer) + n /\ r \in Nat /\ response \o b_wire' = Rest
  <2>1. response \in Seq(Bytes) /\ r = Len(b_buffer) + n
    BY <1>3, <1>4, Extended
  <2>2. response \o b_wire' = Rest
    <3>1. (b_buffer \o piece) \o b_wire' = b_buffer \o (piece \o b_wire')
      <4>1. b_buffer \in Seq(Bytes) /\ piece \in Seq(Bytes) /\ b_wire' \in Seq(Bytes)
        BY <1>3, <1>4
      <4> QED BY <4>1, ConcatAssociative
    <3> QED BY <1>4, <3>1 DEF Rest
  <2> QED BY <1>3, <1>4, <2>1, <2>2
<1>6. \A i \in 1 .. r : response[i] = Rest[i]
  BY <1>4, <1>5, Extended
<1>7. Len(Rest) = r + Len(b_wire') /\ Len(b_wire') \in Nat
  BY <1>3, <1>4, <1>5
<1>8. Total' = Total
  BY <1>1 DEF Total
<1>9. CASE b_pc = "upgrade"
  <2>1. ~Upgraded /\ b_conn = "open" /\ b_asked = 0
    BY <1>1, <1>9 DEF BrowserInv, PlaceInv, EarlyInv, Upgraded
  <2>2. b_wire # <<>>
    BY <1>3, EmptySeq
  <2>3. /\ b_gateway # "none" /\ Len(Rest) = 2 + Total /\ Carries(Rest, 0 - 2, b_sent)
        /\ \A i \in 1 .. Len(Rest) : Rest[i].op = "blank" <=> i = 2
    BY <1>9, <2>1, <2>2 DEF BrowserInv, HandshakeInv
  <2>4. b_arrived = 0 /\ b_messages = <<>> /\ b_taken = <<>> /\ b_waiters = <<>> /\ b_hand = "none" /\ b_outcome = "running"
    BY <1>9, <2>1 DEF BrowserInv, EarlyInv, PlaceInv, ScriptTyped, Over
  <2> DEFINE ends == {i \in DOMAIN response : response[i].op = "blank"}
  <2>5. \A i : i \in ends <=> i = 2 /\ r >= 2
    <3>1. DOMAIN response = 1 .. r
      BY <1>5, LenProperties
    <3>2. \A i \in 1 .. r : i \in 1 .. Len(Rest) /\ (response[i].op = "blank" <=> i = 2)
      <4>1. \A i \in 1 .. r : i \in 1 .. Len(Rest)
        BY <1>5, <1>7
      <4> QED BY <1>6, <2>3, <4>1
    <3>3. 2 \in 1 .. r <=> r >= 2
      BY <1>5
    <3> QED BY <3>1, <3>2, <3>3
  <2>6. Browser!Upgrade(response)
    BY <1>2, <1>9 DEF piece
  <2>7. IF ends = {} THEN b_buffer' = response /\ UNCHANGED <<b_pc, b_outcome, b_asked, b_conn, b_arrived>>
        ELSE IF response[1].op = "101"
        THEN LET end == CHOOSE i \in ends : TRUE
             IN  /\ b_pc' = "greet" /\ UNCHANGED <<b_outcome, b_asked, b_conn>>
                 /\ b_buffer' = SubSeq(response, end + 1, r) /\ b_arrived' = r - end
        ELSE b_pc' = "done" /\ b_outcome' = "failed" /\ b_conn' = "closed" /\ UNCHANGED <<b_asked, b_buffer, b_arrived>>
    BY <2>6 DEF Browser!Upgrade, Browser!Proceed, Browser!Fail, Browser!initialData, Browser!script
  <2> HIDE DEF ends, response
  <2>8. CASE ends = {}
    <3>1. b_buffer' = response /\ UNCHANGED <<b_pc, b_outcome, b_asked, b_conn, b_arrived>> /\ r < 2
      BY <1>5, <2>5, <2>7, <2>8
    <3>2. Rest' = Rest
      BY <1>5, <3>1 DEF Rest
    <3>3. ~Upgraded'
      BY <2>1, <3>1 DEF Upgraded
    <3>4. ScriptTyped' /\ MailTyped' /\ PlaceInv' /\ MailInv'
      BY <1>1, <3>1 DEF BrowserInv, ScriptTyped, MailTyped, PlaceInv, MailInv
    <3>5. LinkTyped'
      BY <1>1, <1>4, <1>5, <3>1 DEF BrowserInv, LinkTyped
    <3>6. EarlyInv'
      BY <1>1, <1>9, <2>1, <2>4, <3>1, <3>3 DEF EarlyInv, Signing, Over
    <3>7. HandshakeInv'
      <4>1. Carries(Rest', 0 - 2, b_sent') /\ b_gateway' # "none"
        BY <1>1, <2>3, <3>2
      <4>2. Len(Rest') = 2 + Total' /\ \A i \in 1 .. Len(Rest') : Rest'[i].op = "blank" <=> i = 2
        BY <1>8, <2>3, <3>2
      <4> QED BY <4>1, <4>2 DEF HandshakeInv
    <3> QED BY <3>3, <3>4, <3>5, <3>6, <3>7 DEF BrowserInv, StreamInv
  <2>9. CASE ends # {} /\ response[1].op = "101"
    <3>1. (CHOOSE i \in ends : TRUE) = 2 /\ r >= 2
      <4>1. ends = {2} /\ r >= 2
        BY <2>5, <2>9
      <4> QED BY <4>1
    <3>2. b_pc' = "greet" /\ UNCHANGED <<b_outcome, b_asked, b_conn>> /\ b_buffer' = SubSeq(response, 2 + 1, r) /\ b_arrived' = r - 2
      BY <2>7, <2>9, <3>1
    <3>3. 2 \in 0 .. r /\ 2 \in 0 .. Len(Rest)
      BY <1>5, <1>7, <3>1
    <3>4. b_buffer' \in Seq(Bytes) /\ Len(b_buffer') = r - 2
      BY <1>5, <3>2, <3>3, Dropped
    <3>5. Rest' = SubSeq(Rest, 2 + 1, Len(Rest))
      <4>1. SubSeq(response, 2 + 1, r) \o b_wire' = SubSeq(response \o b_wire', 2 + 1, Len(response \o b_wire'))
        BY <1>4, <1>5, <3>3, DroppedFirst
      <4> QED BY <1>5, <3>2, <4>1 DEF Rest
    <3>6. Carries(Rest', 0 - 2 + 2, b_sent)
      <4>1. 0 - 2 \in Int
        OBVIOUS
      <4> QED BY <1>3, <2>3, <3>3, <3>5, <4>1, CarriesRest
    <3>7. ReadsOf(b_taken' \o b_messages', b_sent, 0)
      <4>1. 0 \in 0 .. Len(b_sent) /\ End(b_sent, 0) = 0
        BY <1>3, Ends DEF End
      <4>2. Whole(b_sent, 0) = {}
        <5>1. Whole(b_sent, 0) = {k \in 1 .. 0 : b_sent[k].frame.op = "text"}
          BY <1>3, <4>1, WholeAt
        <5> QED BY <5>1
      <4>3. b_taken' \o b_messages' = <<>>
        BY <1>1, <2>4
      <4> QED BY <4>2, <4>3, ReadsNothing
    <3>8. StreamInv'
      <4>1. 0 \in 0 .. Len(b_sent') /\ End(b_sent', 0) = 0
        BY <1>1, <1>3, Ends DEF End
      <4>2. b_arrived' = End(b_sent', 0) + Len(b_buffer')
        BY <1>5, <3>1, <3>2, <3>4, <4>1
      <4>3. Carries(Rest', End(b_sent', 0), b_sent') /\ ReadsOf(b_taken' \o b_messages', b_sent', End(b_sent', 0))
        <5>1. 0 - 2 + 2 = 0
          OBVIOUS
        <5> QED BY <1>1, <3>6, <3>7, <4>1, <5>1
      <4>4. b_arrived' <= Total' /\ b_arrived' + Len(b_wire') = Total'
        BY <1>3, <1>5, <1>7, <1>8, <2>3, <3>2
      <4>5. b_conn' = "open" /\ b_gateway' # "none"
        BY <1>1, <2>1, <2>3, <3>2
      <4> QED BY <4>1, <4>2, <4>3, <4>4, <4>5 DEF StreamInv
    <3>9. ScriptTyped' /\ MailTyped' /\ PlaceInv' /\ MailInv' /\ Upgraded'
      BY <1>1, <2>1, <2>4, <3>2 DEF BrowserInv, ScriptTyped, MailTyped, PlaceInv, MailInv, Upgraded, Signing, Over
    <3>10. LinkTyped'
      <4>1. b_arrived' \in Nat
        BY <1>5, <3>1, <3>2
      <4> QED BY <1>1, <1>4, <3>2, <3>4, <4>1 DEF BrowserInv, LinkTyped
    <3>11. EarlyInv' /\ HandshakeInv'
      BY <2>1, <3>2, <3>9 DEF EarlyInv, HandshakeInv, Signing
    <3> QED BY <3>8, <3>9, <3>10, <3>11 DEF BrowserInv
  <2>10. CASE ends # {} /\ response[1].op # "101"
    <3>1. b_pc' = "done" /\ b_outcome' = "failed" /\ b_conn' = "closed" /\ UNCHANGED <<b_asked, b_buffer, b_arrived>>
      BY <2>7, <2>10
    <3>2. ~Upgraded'
      BY <2>1, <3>1 DEF Upgraded
    <3>3. ScriptTyped' /\ MailTyped' /\ PlaceInv' /\ MailInv'
      BY <1>1, <2>1, <2>4, <3>1 DEF BrowserInv, ScriptTyped, MailTyped, PlaceInv, MailInv, Signing, Over
    <3>4. LinkTyped'
      BY <1>1, <1>4, <3>1 DEF BrowserInv, LinkTyped
    <3>5. EarlyInv' /\ HandshakeInv'
      BY <1>1, <2>1, <2>4, <3>1, <3>2 DEF BrowserInv, EarlyInv, HandshakeInv, Signing, Over
    <3> QED BY <3>2, <3>3, <3>4, <3>5 DEF BrowserInv, StreamInv
  <2> QED BY <2>8, <2>9, <2>10
<1>10. CASE b_pc # "upgrade"
  <2>1. Upgraded
    BY <1>1, <1>10, Settled
  <2>2. b_buffer' = response /\ b_arrived' = b_arrived + n /\ UNCHANGED <<b_pc, b_outcome, b_asked, b_conn>>
    BY <1>2, <1>10 DEF piece
  <2>3. b_gateway # "none" /\ b_arrived <= Total /\ b_arrived + Len(b_wire) = Total /\ b_arrived \in Nat
    BY <1>1, <2>1 DEF BrowserInv, StreamInv, LinkTyped
  <2>4. PICK p \in 0 .. Len(b_sent) :
          /\ b_arrived = End(b_sent, p) + Len(b_buffer)
          /\ Carries(Rest, End(b_sent, p), b_sent)
          /\ b_outcome # "failed" => ReadsOf(b_taken \o b_messages, b_sent, End(b_sent, p))
    BY <2>1 DEF BrowserInv, StreamInv
  <2>5. Rest' = Rest /\ Len(b_buffer') = Len(b_buffer) + n
    BY <1>5, <2>2 DEF Rest
  <2>6. End(b_sent, p) \in Nat
    BY <1>3, Ends
  <2> HIDE DEF response
  <2>7. StreamInv'
    <3>1. p \in 0 .. Len(b_sent') /\ b_arrived' = End(b_sent', p) + Len(b_buffer')
      BY <1>1, <1>3, <2>2, <2>4, <2>5, <2>6
    <3>2. /\ Carries(Rest', End(b_sent', p), b_sent')
          /\ b_outcome' # "failed" => ReadsOf(b_taken' \o b_messages', b_sent', End(b_sent', p))
      BY <1>1, <2>2, <2>4, <2>5
    <3>3. b_arrived' <= Total' /\ b_arrived' + Len(b_wire') = Total'
      <4>1. b_arrived' = b_arrived + n /\ Len(b_wire') = Len(b_wire) - n /\ n \in Nat /\ n <= Len(b_wire)
        BY <1>3, <1>4, <2>2
      <4>2. b_arrived' + Len(b_wire') = Total /\ b_arrived' <= Total
        <5>1. Len(b_wire) \in Nat /\ Total \in Nat /\ b_arrived \in Nat /\ b_arrived + Len(b_wire) = Total
          BY <1>3, <2>3
        <5> QED BY <4>1, <5>1
      <4> QED BY <1>8, <4>2
    <3>4. b_conn' \in {"open", "ended", "closed"} /\ b_gateway' # "none"
      BY <1>1, <2>2, <2>3
    <3> QED BY <3>1, <3>2, <3>3, <3>4 DEF StreamInv
  <2>8. ScriptTyped' /\ MailTyped' /\ PlaceInv' /\ MailInv' /\ Upgraded'
    BY <1>1, <2>1, <2>2 DEF BrowserInv, ScriptTyped, MailTyped, PlaceInv, MailInv, Upgraded
  <2>9. LinkTyped'
    <3>1. b_arrived' \in Nat
      BY <2>2, <2>3
    <3> QED BY <1>1, <1>4, <1>5, <2>2, <3>1 DEF BrowserInv, LinkTyped
  <2>10. EarlyInv' /\ HandshakeInv'
    BY <1>1, <1>10, <2>1, <2>2, <2>8 DEF BrowserInv, EarlyInv, HandshakeInv
  <2> QED BY <2>7, <2>8, <2>9, <2>10 DEF BrowserInv
<1> QED BY <1>9, <1>10

(* One more frame at the end of the stream. *)
LEMMA Sending ==
  ASSUME BrowserInv, b_conn \in {"open", "ended"}, b_gateway = "open", Len(b_sent) < MaxFrames,
         NEW f \in Browser!Frame, Browser!Sends(f),
         UNCHANGED <<b_pc, b_outcome, b_asked, b_conn, b_gateway, b_buffer, b_messages, b_waiters, b_hand, b_taken, b_arrived>>
  PROVE  BrowserInv'
<1> DEFINE e == Browser!Encode(f)
<1>1. LinkTyped /\ Rest \in Seq(Bytes) /\ Len(b_buffer) \in Nat /\ Len(b_wire) \in Nat /\ b_buffer \in Seq(Bytes)
      /\ b_wire \in Seq(Bytes) /\ Len(Rest) = Len(b_buffer) + Len(b_wire) /\ Total \in Nat /\ Laid(b_sent)
  BY RestBytes DEF BrowserInv, LinkTyped
<1>2. e \in Seq(Bytes) /\ Len(e) \in Nat /\ Len(e) >= 2 /\ \A i \in 1 .. Len(e) : e[i].op # "blank"
  BY EncodedSize
<1>3. b_wire' = b_wire \o e /\ b_sent' = Parceled(b_sent, f)
  BY DEF Browser!Sends, Parceled, Browser!UpTo, End
<1>4. /\ Laid(b_sent') /\ Len(b_sent') = Len(b_sent) + 1
      /\ \A k \in 0 .. Len(b_sent) : End(b_sent', k) = End(b_sent, k)
      /\ End(b_sent', Len(b_sent) + 1) = End(b_sent, Len(b_sent)) + Len(e)
  BY <1>1, <1>3, LaidMore
<1> HIDE DEF e
<1>5. Total' = Total + Len(e)
  BY <1>4 DEF Total
<1>6. b_wire' \in Seq(Bytes) /\ Len(b_wire') = Len(b_wire) + Len(e)
  BY <1>1, <1>2, <1>3, Extended
<1>7. Rest' = Rest \o e
  <2>1. (b_buffer \o b_wire) \o e = b_buffer \o (b_wire \o e)
    <3>1. b_buffer \in Seq(Bytes) /\ b_wire \in Seq(Bytes) /\ e \in Seq(Bytes)
      BY <1>1, <1>2
    <3> QED BY <3>1, ConcatAssociative
  <2> QED BY <1>3, <2>1 DEF Rest
<1>8. ASSUME NEW from \in Int, Carries(Rest, from, b_sent), from + Len(Rest) = Total
      PROVE  Carries(Rest', from, b_sent')
  <2>1. Carries(Rest \o e, from, Parceled(b_sent, f))
    BY <1>1, <1>8, CarriesMore DEF Total, e
  <2> QED BY <1>3, <1>7, <2>1
<1>9. Len(b_sent) \in Nat /\ Len(b_sent') <= MaxFrames
  BY <1>1, <1>4, LengthAssumption, Ends
<1>10. ScriptTyped' /\ MailTyped' /\ PlaceInv' /\ MailInv'
  BY DEF BrowserInv, ScriptTyped, MailTyped, PlaceInv, MailInv
<1>11. LinkTyped'
  BY <1>4, <1>6, <1>9 DEF BrowserInv, LinkTyped
<1>12. (Upgraded' <=> Upgraded) /\ EarlyInv'
  BY DEF BrowserInv, EarlyInv, Upgraded
<1>13. HandshakeInv'
  <2> SUFFICES ASSUME b_pc = "upgrade", b_conn = "open" PROVE HandshakeInv'
    BY DEF HandshakeInv
  <2>1. /\ Len(Rest) = 2 + Total /\ Carries(Rest, 0 - 2, b_sent)
        /\ \A n \in 1 .. Len(Rest) : Rest[n].op = "blank" <=> n = 2
    BY DEF BrowserInv, HandshakeInv
  <2>2. Carries(Rest', 0 - 2, b_sent')
    <3>1. 0 - 2 \in Int /\ 0 - 2 + Len(Rest) = Total
      BY <1>1, <2>1
    <3> QED BY <1>8, <2>1, <3>1
  <2>3. /\ Len(Rest') = Len(Rest) + Len(e)
        /\ \A n \in 1 .. Len(Rest) : Rest'[n] = Rest[n]
        /\ \A n \in Len(Rest) + 1 .. Len(Rest) + Len(e) : Rest'[n] = e[n - Len(Rest)]
    <3>1. Rest \in Seq(Bytes) /\ e \in Seq(Bytes)
      BY <1>1, <1>2
    <3>2. /\ Len(Rest \o e) = Len(Rest) + Len(e)
          /\ \A n \in 1 .. Len(Rest) : (Rest \o e)[n] = Rest[n]
          /\ \A n \in Len(Rest) + 1 .. Len(Rest) + Len(e) : (Rest \o e)[n] = e[n - Len(Rest)]
      BY <3>1, Extended
    <3> QED BY <1>7, <3>2
  <2>4. ASSUME NEW n \in 1 .. Len(Rest') PROVE Rest'[n].op = "blank" <=> n = 2
    <3>1. CASE n \in 1 .. Len(Rest)
      BY <2>1, <2>3, <3>1
    <3>2. CASE n \in Len(Rest) + 1 .. Len(Rest) + Len(e)
      <4>1. n - Len(Rest) \in 1 .. Len(e) /\ n # 2 /\ Len(Rest) \in Nat
        BY <1>1, <1>2, <2>1, <3>2
      <4> QED BY <1>2, <2>3, <3>2, <4>1
    <3>3. n \in 1 .. Len(Rest) \/ n \in Len(Rest) + 1 .. Len(Rest) + Len(e)
      BY <1>1, <1>2, <2>3
    <3> QED BY <3>1, <3>2, <3>3
  <2>5. Len(Rest') = 2 + Total'
    <3>1. Len(Rest) \in Nat /\ Total \in Nat /\ Len(e) \in Nat
      BY <1>1, <1>2
    <3> QED BY <1>5, <2>1, <2>3, <3>1
  <2> QED BY <2>2, <2>4, <2>5 DEF HandshakeInv
<1>14. StreamInv'
  <2> SUFFICES ASSUME Upgraded PROVE StreamInv'
    BY <1>12 DEF StreamInv
  <2>1. b_arrived <= Total /\ b_arrived + Len(b_wire) = Total /\ b_arrived \in Nat
    BY DEF BrowserInv, StreamInv, LinkTyped
  <2>2. PICK p \in 0 .. Len(b_sent) :
          /\ b_arrived = End(b_sent, p) + Len(b_buffer)
          /\ Carries(Rest, End(b_sent, p), b_sent)
          /\ b_outcome # "failed" => ReadsOf(b_taken \o b_messages, b_sent, End(b_sent, p))
    BY DEF BrowserInv, StreamInv
  <2>3. End(b_sent, p) \in Nat /\ p \in 0 .. Len(b_sent')
    <3>1. End(b_sent, p) \in Nat
      BY <1>1, Ends
    <3> QED BY <1>4, <1>9, <3>1
  <2>4. End(b_sent', p) = End(b_sent, p)
    BY <1>4
  <2>5. Carries(Rest', End(b_sent, p), b_sent')
    <3>1. End(b_sent, p) \in Int /\ End(b_sent, p) + Len(Rest) = Total
      BY <1>1, <2>1, <2>2, <2>3
    <3> QED BY <1>8, <2>2, <3>1
  <2>6. b_outcome' # "failed" => ReadsOf(b_taken' \o b_messages', b_sent', End(b_sent', p))
    <3>1. b_outcome # "failed" => ReadsOf(b_taken \o b_messages, b_sent', End(b_sent', p))
      BY <1>1, <1>3, <2>2, ReadsMore
    <3> QED BY <3>1
  <2>7. b_arrived' <= Total' /\ b_arrived' + Len(b_wire') = Total'
    <3>1. Total \in Nat /\ Len(e) \in Nat /\ Len(b_wire) \in Nat
      BY <1>1, <1>2
    <3> QED BY <1>5, <1>6, <2>1, <3>1
  <2>8. b_arrived' = End(b_sent', p) + Len(b_buffer')
    BY <2>2, <2>4
  <2> QED BY <2>3, <2>4, <2>5, <2>6, <2>7, <2>8 DEF StreamInv
<1> QED BY <1>10, <1>11, <1>12, <1>13, <1>14 DEF BrowserInv

(* The answer to the handshake. *)
LEMMA Answering ==
  ASSUME BrowserInv, b_conn \in {"open", "ended"}, b_gateway = "none", b_gateway' \in {"open", "refusing"},
         NEW answer \in {"101", "refused"},
         b_wire' = b_wire \o <<Browser!Byte(answer, 0, FALSE, "none"), Browser!Byte("blank", 0, FALSE, "none")>>,
         UNCHANGED <<b_pc, b_outcome, b_asked, b_conn, b_buffer, b_messages, b_waiters, b_hand, b_taken, b_sent, b_arrived>>
  PROVE  BrowserInv'
<1> DEFINE b == Browser!Byte(answer, 0, FALSE, "none")
           c == Browser!Byte("blank", 0, FALSE, "none")
<1>1. b_pc = "upgrade" /\ b_conn = "open" /\ ~Upgraded
  BY Settled DEF BrowserInv, StreamInv
<1>2. b_wire = <<>> /\ b_buffer = <<>> /\ b_sent = <<>>
  BY <1>1 DEF BrowserInv, HandshakeInv
<1>3. b \in Bytes /\ c \in Bytes /\ b.op # "blank" /\ c.op = "blank"
  <2>1. b \in Bytes /\ c \in Bytes
    BY ByteMade
  <2> QED BY <2>1 DEF Browser!Byte
<1> HIDE DEF b, c
<1>4. b_wire' = <<b, c>> /\ b_wire' \in Seq(Bytes)
  <2>1. <<b, c>> \in Seq(Bytes)
    BY <1>3
  <2>2. <<>> \o <<b, c>> = <<b, c>>
    BY <2>1, ConcatEmptySeq
  <2> QED BY <1>2, <2>1, <2>2 DEF b, c
<1>5. Rest' = <<b, c>>
  BY <1>2, <1>4, ConcatEmptySeq DEF Rest
<1>6. Total' = 0
  BY <1>2 DEF Total, End
<1>7. ~Upgraded'
  BY <1>1 DEF Upgraded
<1>8. ScriptTyped' /\ MailTyped' /\ PlaceInv' /\ MailInv' /\ LinkTyped'
  <2>1. ScriptTyped' /\ PlaceInv'
    BY DEF BrowserInv, ScriptTyped, PlaceInv
  <2>2. MailTyped' /\ MailInv'
    BY DEF BrowserInv, MailTyped, MailInv
  <2>3. LinkTyped'
    BY <1>4 DEF BrowserInv, LinkTyped
  <2> QED BY <2>1, <2>2, <2>3
<1>9. EarlyInv'
  BY <1>1, <1>7 DEF BrowserInv, EarlyInv, Signing
<1>10. HandshakeInv'
  <2>1. Len(Rest') = 2 + Total'
    BY <1>5, <1>6
  <2>2. Carries(Rest', 0 - 2, b_sent')
    BY <1>2 DEF Carries
  <2>3. \A n \in 1 .. Len(Rest') : Rest'[n].op = "blank" <=> n = 2
    <3>1. Len(Rest') = 2 /\ Rest'[1] = b /\ Rest'[2] = c
      BY <1>5
    <3>2. \A n \in 1 .. 2 : n = 1 \/ n = 2
      OBVIOUS
    <3> QED BY <1>3, <3>1, <3>2
  <2> QED BY <2>1, <2>2, <2>3 DEF HandshakeInv
<1> QED BY <1>7, <1>8, <1>9, <1>10 DEF BrowserInv, StreamInv

LEMMA GatewayAnswering == BrowserInv /\ Browser!GatewayAnswers => BrowserInv'
<1> SUFFICES ASSUME BrowserInv, Browser!GatewayAnswers PROVE BrowserInv'
  OBVIOUS
<1>1. /\ b_conn \in {"open", "ended"}
      /\ UNCHANGED <<b_pc, b_outcome, b_asked, b_conn, b_buffer, b_messages, b_waiters, b_hand, b_taken, b_arrived>>
  BY DEF Browser!GatewayAnswers, Browser!script, Browser!mailbox
<1>2. CASE b_gateway = "none"
  <2>1. PICK answer \in {"101", "refused"} :
          /\ b_gateway' \in {"open", "refusing"} /\ b_sent' = b_sent
          /\ b_wire' = b_wire \o <<Browser!Byte(answer, 0, FALSE, "none"), Browser!Byte("blank", 0, FALSE, "none")>>
    BY <1>2 DEF Browser!GatewayAnswers
  <2> QED BY <1>1, <1>2, <2>1, Answering
<1>3. CASE b_gateway # "none"
  <2>1. b_gateway = "open" /\ Len(b_sent) < MaxFrames /\ b_gateway' = b_gateway /\ \E f \in Browser!Frame : Browser!Sends(f)
    BY <1>3 DEF Browser!GatewayAnswers
  <2> QED BY <1>1, <2>1, Sending
<1> QED BY <1>2, <1>3

LEMMA GatewayClosing == BrowserInv /\ Browser!GatewayCloses => BrowserInv'
<1> SUFFICES ASSUME BrowserInv, Browser!GatewayCloses PROVE BrowserInv'
  OBVIOUS
<1>1. /\ b_conn \in {"open", "ended"} /\ b_gateway' = "closed"
      /\ UNCHANGED <<b_pc, b_outcome, b_asked, b_conn, b_wire, b_buffer, b_messages, b_waiters, b_hand, b_taken, b_sent, b_arrived>>
  BY DEF Browser!GatewayCloses, Browser!script, Browser!mailbox
<1>2. Rest' = Rest /\ Total' = Total /\ (Upgraded' <=> Upgraded)
  BY <1>1 DEF Rest, Total, Upgraded
<1>3. ScriptTyped' /\ MailTyped' /\ LinkTyped' /\ PlaceInv' /\ MailInv' /\ EarlyInv'
  BY <1>1, <1>2 DEF BrowserInv, ScriptTyped, MailTyped, LinkTyped, PlaceInv, MailInv, EarlyInv
<1>4. HandshakeInv'
  BY <1>1, <1>2 DEF BrowserInv, HandshakeInv
<1>5. StreamInv'
  BY <1>1, <1>2 DEF BrowserInv, StreamInv
<1> QED BY <1>3, <1>4, <1>5 DEF BrowserInv

(* The end of the stream, or a reset: what was under way is lost. *)
LEMMA Ending == BrowserInv /\ Browser!Ends => BrowserInv'
<1> SUFFICES ASSUME BrowserInv, Browser!Ends PROVE BrowserInv'
  OBVIOUS
<1>1. /\ b_conn \in {"connecting", "open", "ended"} /\ b_hand = "none" /\ b_wire' = <<>>
      /\ UNCHANGED <<b_gateway, b_buffer, b_sent, b_arrived>>
  BY DEF Browser!Ends, Browser!Quiet
<1>2. /\ b_pc = "upgrade" => /\ b_conn' = "closed" /\ UNCHANGED <<b_messages, b_waiters, b_hand, b_taken>>
                             /\ UNCHANGED <<b_pc, b_outcome, b_asked>> \/ Browser!Fail
      /\ b_pc # "upgrade" => Browser!rejectWaiters("closed")
  BY DEF Browser!Ends, Browser!script, Browser!mailbox
<1>3. Upgraded \/ (b_pc = "upgrade" /\ ~Upgraded)
  BY <1>1, Settled DEF BrowserInv, ScriptTyped, EarlyInv, PlaceInv, Upgraded, Signing, Over
<1>4. LinkTyped /\ b_buffer \in Seq(Bytes) /\ b_wire \in Seq(Bytes) /\ Laid(b_sent) /\ b_wire' \in Seq(Bytes)
  BY <1>1, EmptySeq DEF BrowserInv, LinkTyped
<1>5. Rest' = b_buffer /\ Total' = Total
  BY <1>1, <1>4, ConcatEmptySeq DEF Rest, Total
<1>6. CASE b_pc = "upgrade" /\ ~Upgraded
  <2>1. /\ b_conn' = "closed" /\ UNCHANGED <<b_messages, b_waiters, b_hand, b_taken, b_asked>>
        /\ \/ b_pc' = b_pc /\ b_outcome' = b_outcome
           \/ b_pc' = "done" /\ b_outcome' = "failed"
    BY <1>2, <1>6 DEF Browser!Fail
  <2>2. ~Upgraded'
    BY <1>6, <2>1 DEF Upgraded
  <2>3. ScriptTyped' /\ MailTyped' /\ LinkTyped'
    BY <1>1, <1>4, <2>1 DEF BrowserInv, ScriptTyped, MailTyped, LinkTyped, Over
  <2>4. PlaceInv' /\ MailInv' /\ EarlyInv'
    BY <1>1, <1>6, <2>1, <2>2 DEF BrowserInv, PlaceInv, MailInv, EarlyInv, Signing, Over
  <2> QED BY <2>1, <2>2, <2>3, <2>4 DEF BrowserInv, HandshakeInv, StreamInv
<1>7. CASE Upgraded
  <2>1. b_pc # "upgrade" /\ b_conn \in {"open", "ended"}
    BY <1>1, <1>7 DEF BrowserInv, PlaceInv, StreamInv, Upgraded
  <2>2. /\ b_waiters' = <<>> /\ UNCHANGED <<b_messages, b_hand, b_taken>> /\ b_conn' = "closed"
        /\ IF Browser!Live THEN Browser!Fail ELSE UNCHANGED <<b_pc, b_outcome, b_asked>>
    BY <1>2, <2>1 DEF Browser!rejectWaiters, Browser!script
  <2>3. /\ b_asked' = b_asked
        /\ \/ b_pc' = "done" /\ b_outcome' = "failed" /\ b_pc \in {"bind", "join"}
           \/ b_pc' = b_pc /\ b_outcome' = b_outcome
    BY <2>2, LiveWaiting DEF Browser!Fail, BrowserInv, MailInv
  <2>4. ScriptTyped' /\ MailTyped' /\ LinkTyped' /\ PlaceInv' /\ Upgraded'
    BY <1>1, <1>4, <1>7, <2>2, <2>3 DEF BrowserInv, ScriptTyped, MailTyped, LinkTyped, PlaceInv, Upgraded, Signing, Over
  <2>5. EarlyInv' /\ HandshakeInv'
    BY <1>7, <2>1, <2>2, <2>3, <2>4 DEF BrowserInv, EarlyInv, HandshakeInv, PlaceInv, Upgraded, Signing
  <2>6. MailInv'
    <3>1. CASE Browser!Live
      BY <1>1, <2>2, <3>1 DEF Browser!Fail, MailInv
    <3>2. CASE ~Browser!Live
      BY <2>2, <3>2 DEF BrowserInv, MailInv
    <3> QED BY <3>1, <3>2
  <2>7. StreamInv'
    <3>1. b_gateway # "none" /\ b_arrived <= Total
      BY <1>7 DEF BrowserInv, StreamInv
    <3>2. PICK p \in 0 .. Len(b_sent) :
            /\ b_arrived = End(b_sent, p) + Len(b_buffer)
            /\ Carries(Rest, End(b_sent, p), b_sent)
            /\ b_outcome # "failed" => ReadsOf(b_taken \o b_messages, b_sent, End(b_sent, p))
      BY <1>7 DEF BrowserInv, StreamInv
    <3>3. Carries(Rest', End(b_sent', p), b_sent')
      <4>1. Carries(b_buffer, End(b_sent, p), b_sent)
        BY <1>4, <3>2, CarriesFirst DEF Rest
      <4> QED BY <1>1, <1>5, <4>1
    <3>4. b_outcome' # "failed" => ReadsOf(b_taken' \o b_messages', b_sent', End(b_sent', p))
      BY <1>1, <2>2, <2>3, <3>2
    <3>5. p \in 0 .. Len(b_sent') /\ b_arrived' = End(b_sent', p) + Len(b_buffer') /\ b_arrived' <= Total'
      BY <1>1, <1>5, <3>1, <3>2
    <3> QED BY <1>1, <2>2, <3>1, <3>3, <3>4, <3>5 DEF StreamInv
  <2> QED BY <2>4, <2>5, <2>6, <2>7 DEF BrowserInv
<1> QED BY <1>3, <1>6, <1>7

-----------------------------------------------------------------------------

(* The whole program: it begins, steps, rests while others step, and leaves. *)
LEMMA BrowserLeaving == BrowserGone => BrowserInv'
<1> SUFFICES ASSUME BrowserGone PROVE BrowserInv'
  OBVIOUS
<1>1. /\ b_pc' = "exited" /\ b_outcome' = "running" /\ b_conn' = "none" /\ b_gateway' = "none"
      /\ b_asked' = 0 /\ b_arrived' = 0 /\ b_hand' = "none"
      /\ b_wire' = <<>> /\ b_buffer' = <<>> /\ b_sent' = <<>>
      /\ b_messages' = <<>> /\ b_waiters' = <<>> /\ b_taken' = <<>>
  BY DEF BrowserGone
<1>2. Laid(<<>>) /\ Len(<<>>) = 0 /\ 0 <= MaxFrames
  BY EmptySeq, LengthAssumption DEF Laid
<1>3. ScriptTyped' /\ LinkTyped' /\ MailTyped'
  BY <1>1, <1>2, EmptySeq DEF ScriptTyped, LinkTyped, MailTyped, Over
<1>4. ~Upgraded'
  BY <1>1 DEF Upgraded
<1>5. PlaceInv' /\ MailInv' /\ EarlyInv' /\ HandshakeInv'
  BY <1>1, <1>2, <1>4 DEF PlaceInv, MailInv, EarlyInv, HandshakeInv, Signing, Over
<1> QED BY <1>3, <1>4, <1>5 DEF BrowserInv, StreamInv

LEMMA BrowserBeginning == SmokeInit => BrowserInv
<1> SUFFICES ASSUME SmokeInit PROVE BrowserInv
  OBVIOUS
<1>1. /\ b_pc = "authorize" /\ b_outcome = "running" /\ b_conn = "none" /\ b_gateway = "none"
      /\ b_asked = 0 /\ b_arrived = 0 /\ b_hand = "none"
      /\ b_wire = <<>> /\ b_buffer = <<>> /\ b_sent = <<>>
      /\ b_messages = <<>> /\ b_waiters = <<>> /\ b_taken = <<>>
  BY DEF SmokeInit, Browser!Init
<1>2. Laid(<<>>) /\ Len(<<>>) = 0 /\ 0 <= MaxFrames
  BY EmptySeq, LengthAssumption DEF Laid
<1>3. ScriptTyped /\ LinkTyped /\ MailTyped
  BY <1>1, <1>2, EmptySeq DEF ScriptTyped, LinkTyped, MailTyped, Signing
<1>4. ~Upgraded
  BY <1>1 DEF Upgraded
<1>5. PlaceInv /\ MailInv /\ EarlyInv /\ HandshakeInv
  BY <1>1, <1>2, <1>4 DEF PlaceInv, MailInv, EarlyInv, HandshakeInv, Signing, Over
<1> QED BY <1>3, <1>4, <1>5 DEF BrowserInv, StreamInv

LEMMA BrowserResting == BrowserInv /\ UNCHANGED bvars => BrowserInv'
<1> SUFFICES ASSUME BrowserInv, UNCHANGED bvars PROVE BrowserInv'
  OBVIOUS
<1>1. UNCHANGED <<b_pc, b_outcome, b_conn, b_gateway, b_asked, b_wire, b_buffer, b_messages,
                  b_waiters, b_hand, b_sent, b_arrived, b_taken>>
  BY DEF bvars
<1>2. Rest' = Rest /\ Total' = Total /\ (Upgraded' <=> Upgraded)
  BY <1>1 DEF Rest, Total, Upgraded
<1>3. ScriptTyped' /\ LinkTyped' /\ MailTyped' /\ PlaceInv' /\ MailInv' /\ EarlyInv'
  BY <1>1, <1>2 DEF BrowserInv, ScriptTyped, LinkTyped, MailTyped, PlaceInv, MailInv, EarlyInv
<1>4. HandshakeInv' /\ StreamInv'
  BY <1>1, <1>2 DEF BrowserInv, HandshakeInv, StreamInv
<1> QED BY <1>3, <1>4 DEF BrowserInv

LEMMA BrowserSteps == BrowserInv /\ [SmokeNext]_smokevars => BrowserInv'
<1> SUFFICES ASSUME BrowserInv, [SmokeNext]_smokevars PROVE BrowserInv'
  OBVIOUS
<1>1. CASE Browser!Next
  <2>1. CASE Browser!Script
    BY <2>1, SigningIn, Connecting, HandshakeOver, Greeting, Parsing, Examining, TimingOut, Exiting DEF Browser!Script
  <2>2. CASE Browser!Network
    BY <2>2, Connecting, Arriving, GatewayClosing, Ending DEF Browser!Network
  <2> QED BY <1>1, <2>1, <2>2, GatewayAnswering DEF Browser!Next
<1>2. CASE BrowserGone
  BY <1>2, BrowserLeaving
<1>3. CASE UNCHANGED bvars
  BY <1>3, BrowserResting
<1>4. Browser!Next \/ BrowserGone \/ UNCHANGED bvars
  BY DEF SmokeNext, smokevars, BrowserStep, SetupStep, TaskStep, BrowserExits, TasksBegin, SetupExits, TasksEnd, bvars
<1> QED BY <1>1, <1>2, <1>3, <1>4

LEMMA ReadsWhat == Browser!Reads(b_arrived) <=> ReadsOf(b_taken \o b_messages, b_sent, b_arrived)
BY DEF Browser!Reads, ReadsOf, Whole

(* Wherever the stream was cut, the script has read the frames that have    *)
(* arrived whole: no others, and none of them twice.                        *)
LEMMA Faithful == BrowserInv => StreamFaithful
<1> SUFFICES ASSUME BrowserInv, b_outcome # "failed", b_pc = "upgrade" \/ ~Browser!Complete
             PROVE  ReadsOf(b_taken \o b_messages, b_sent, b_arrived)
  BY ReadsWhat DEF StreamFaithful, Browser!StreamFaithful
<1>1. LinkTyped /\ Laid(b_sent) /\ Len(b_buffer) \in Nat /\ b_arrived \in Nat
  BY RestBytes DEF BrowserInv, LinkTyped
<1>2. CASE ~Upgraded
  <2>1. b_arrived = 0 /\ b_taken \o b_messages = <<>>
    BY <1>2 DEF BrowserInv, EarlyInv
  <2>2. 0 \in 0 .. Len(b_sent) /\ End(b_sent, 0) = 0
    BY <1>1, Ends DEF End
  <2>3. Whole(b_sent, 0) = {k \in 1 .. 0 : b_sent[k].frame.op = "text"}
    BY <1>1, <2>2, WholeAt
  <2>4. Whole(b_sent, 0) = {}
    BY <2>3
  <2> QED BY <2>1, <2>4, ReadsNothing
<1>3. CASE Upgraded
  <2>1. ~Browser!Complete
    BY <1>3 DEF BrowserInv, PlaceInv, Upgraded
  <2>2. b_arrived <= Total
    BY <1>3 DEF BrowserInv, StreamInv
  <2>3. PICK p \in 0 .. Len(b_sent) :
          /\ b_arrived = End(b_sent, p) + Len(b_buffer)
          /\ Carries(Rest, End(b_sent, p), b_sent)
          /\ b_outcome # "failed" => ReadsOf(b_taken \o b_messages, b_sent, End(b_sent, p))
    BY <1>3 DEF BrowserInv, StreamInv
  <2>4. End(b_sent, p) \in Nat /\ End(b_sent, p) <= b_arrived
    BY <1>1, <2>3, Ends
  <2>5. p < Len(b_sent) => b_arrived < End(b_sent, p + 1)
    <3> SUFFICES ASSUME p < Len(b_sent) PROVE b_arrived < End(b_sent, p + 1)
      OBVIOUS
    <3> DEFINE f == b_sent[p + 1].frame
               l == Len(Browser!Encode(f))
    <3>1. f \in Browser!Frame /\ End(b_sent, p + 1) = End(b_sent, p) + l /\ ~(Len(b_buffer) >= l)
      BY <1>1, <2>1, <2>2, <2>3, HeadOfStream
    <3>2. l \in Nat
      BY <3>1, EncodedSize
    <3> HIDE DEF f, l
    <3> QED BY <1>1, <2>3, <2>4, <3>1, <3>2
  <2>6. Whole(b_sent, b_arrived) = Whole(b_sent, End(b_sent, p))
    <3>1. Whole(b_sent, b_arrived) = {k \in 1 .. p : b_sent[k].frame.op = "text"}
      BY <1>1, <2>4, <2>5, WholeUpTo
    <3> QED BY <1>1, <3>1, WholeAt
  <2>7. ReadsOf(b_taken \o b_messages, b_sent, End(b_sent, p))
    BY <2>3
  <2> QED BY <2>6, <2>7, ReadsSame
<1> QED BY <1>2, <1>3

(* What the script has taken was told. *)
LEMMA TakenWasTold ==
  ASSUME MailTyped, NEW n, ReadsOf(b_taken \o b_messages, b_sent, n), NEW t, Contains(b_taken, t)
  PROVE  Browser!Told(t)
<1>1. PICK i \in DOMAIN b_taken : b_taken[i] = t
  BY DEF Contains
<1> DEFINE r == b_taken \o b_messages
<1>2. i \in DOMAIN r /\ r[i] = t
  <2>1. b_taken \in Seq(Browser!Text) /\ b_messages \in Seq(Browser!Text)
    BY DEF MailTyped
  <2>2. r \in Seq(Browser!Text) /\ Len(r) = Len(b_taken) + Len(b_messages) /\ \A j \in 1 .. Len(b_taken) : r[j] = b_taken[j]
    BY <2>1, Extended
  <2>3. Len(b_taken) \in Nat /\ Len(b_messages) \in Nat /\ DOMAIN b_taken = 1 .. Len(b_taken) /\ DOMAIN r = 1 .. Len(r)
    BY <2>1, <2>2, LenProperties
  <2> QED BY <1>1, <2>2, <2>3
<1> HIDE DEF r
<1>3. PICK at \in [DOMAIN r -> Whole(b_sent, n)] : \A j \in DOMAIN r : r[j] = b_sent[at[j]].frame.text
  BY DEF ReadsOf, r
<1>4. at[i] \in DOMAIN b_sent /\ b_sent[at[i]].frame.text = t
  BY <1>2, <1>3 DEF Whole
<1> QED BY <1>4 DEF Browser!Told

(* Who passed has both answers, each told by the gateway. *)
LEMMA Connected == BrowserInv => PassesConnected
<1> SUFFICES ASSUME BrowserInv, b_outcome = "passed"
             PROVE  Browser!Told("bound") /\ Browser!Told("joined") /\ b_asked = 2
  BY DEF PassesConnected, Browser!PassesConnected
<1>1. b_asked = 2 /\ Contains(b_taken, "bound") /\ Contains(b_taken, "joined") /\ MailTyped
  BY DEF BrowserInv, MailInv
<1>2. Upgraded
  BY <1>1 DEF Upgraded
<1>3. PICK p \in 0 .. Len(b_sent) : ReadsOf(b_taken \o b_messages, b_sent, End(b_sent, p))
  BY <1>2 DEF BrowserInv, StreamInv
<1> QED BY <1>1, <1>3, TakenWasTold

(* parseFrames waits for the last byte of a frame and for no other, and     *)
(* what came with the answer to the handshake is its first data: messages   *)
(* are taken as the room gateway wrote them.                                *)
THEOREM StreamIsFaithful == SmokeSpec => []StreamFaithful
<1> QED BY Faithful, BrowserBeginning, BrowserSteps, PTL DEF SmokeSpec

(* verifyConnectedRoom passes only after both of its requests were answered *)
(* as it asked, in messages the room gateway sent.                          *)
THEOREM PassIsConnected == SmokeSpec => []PassesConnected
<1> QED BY Connected, BrowserBeginning, BrowserSteps, PTL DEF SmokeSpec

-----------------------------------------------------------------------------
(* The types of both programs and of the set-up between them.               *)

(* The script ends with a verdict; smoke.sh ends with it. *)
VerdictInv == pc = "done" => outcome \in {"passed", "failed"}

LEMMA VerdictStep == VerdictInv /\ [Next]_vars => VerdictInv'
<1> SUFFICES ASSUME VerdictInv, [Next]_vars PROVE VerdictInv'
  OBVIOUS
<1>1. ASSUME Script PROVE VerdictInv'
  BY <1>1 DEF VerdictInv, Script, Start, receiveJson, Examine, Expired, TimedOut, Stop, Claim, Update, Up, script, mailbox, room,
              Ignore, Requested, Collected, Collect, Throw, GiveUp, Observed, Troubled, Proceed
<1> QED BY <1>1 DEF Next, vars, script, mailbox, room, VerdictInv, DeadlinePasses, Drop, Noise, Advance, Fault, Troubled, Throw

LEMMA SetupStepTyped == Setup!TypeOK /\ (Setup!Script \/ \E h \in Setup!Human : Setup!Ends(h)) => Setup!TypeOK'
<1> SUFFICES ASSUME Setup!TypeOK, Setup!Script \/ \E h \in Setup!Human : Setup!Ends(h) PROVE Setup!TypeOK'
  OBVIOUS
<1> USE DEF Setup!TypeOK
<1>1. ASSUME NEW h \in Setup!Human, Setup!SignIn(h) \/ Setup!Connect(h) \/ Setup!Authenticate(h) PROVE Setup!TypeOK'
  BY <1>1 DEF Setup!SignIn, Setup!Connect, Setup!Authenticate
<1>2. ASSUME Setup!SignedIn \/ Setup!Connected \/ Setup!Rejected PROVE Setup!TypeOK'
  BY <1>2 DEF Setup!SignedIn, Setup!Connected, Setup!Rejected
<1>3. ASSUME Setup!Prepare PROVE Setup!TypeOK'
  BY <1>3 DEF Setup!Prepare, Setup!CloseBoth
<1>4. ASSUME NEW h \in Setup!Human, Setup!Ends(h) PROVE Setup!TypeOK'
  BY <1>4 DEF Setup!Ends
<1> QED BY <1>1, <1>2, <1>3, <1>4 DEF Setup!Script

TypesInv ==
  /\ stage \in {"browser", "setup", "tasks", "passed", "failed"}
  /\ VerdictInv /\ Setup!TypeOK

LEMMA TypesBeginning == SmokeInit => TypesInv
BY DEF SmokeInit, TypesInv, Init, VerdictInv, Setup!Init, Setup!TypeOK

LEMMA TypesSteps == TasksInv /\ TypesInv /\ [SmokeNext]_smokevars => TypesInv'
<1> SUFFICES ASSUME TasksInv, TypesInv, [SmokeNext]_smokevars PROVE TypesInv'
  OBVIOUS
<1>1. VerdictInv'
  <2>1. [Next]_vars
    BY StepsOfTasks DEF TasksInv
  <2> QED BY <2>1, VerdictStep DEF TypesInv
<1>2. Setup!TypeOK'
  <2>1. CASE SetupStep(Setup!Script \/ \E h \in Setup!Human : Setup!Ends(h))
    BY <2>1, SetupStepTyped DEF SetupStep, TypesInv
  <2>2. CASE TasksBegin
    BY <2>2 DEF TasksBegin, TypesInv, Setup!TypeOK
  <2>3. CASE UNCHANGED svars
    BY <2>3 DEF svars, TypesInv, Setup!TypeOK
  <2> QED BY <2>1, <2>2, <2>3 DEF SmokeNext, smokevars, BrowserStep, TaskStep, BrowserExits, SetupExits, TasksEnd
<1>3. stage' \in {"browser", "setup", "tasks", "passed", "failed"}
  BY DEF TypesInv, VerdictInv, SmokeNext, smokevars, BrowserStep, SetupStep, TaskStep, Within, BrowserExits, TasksBegin, SetupExits, TasksEnd
<1> QED BY <1>1, <1>2, <1>3 DEF TypesInv

LEMMA AllTyped == TasksInv /\ BrowserInv /\ TypesInv => AllTypeOK
<1> SUFFICES ASSUME TasksInv, BrowserInv, TypesInv PROVE AllTypeOK
  OBVIOUS
<1>1. TypeOK
  BY Parts DEF TasksInv, MailboxInv
<1>2. Browser!TypeOK
  <2>1. b_sent \in Seq([frame : Browser!Frame, end : Nat])
    BY DEF BrowserInv, LinkTyped, Laid, Parcel
  <2>2. b_pc \in {"authorize", "login", "callback", "exchange", "upgrade", "greet", "bind", "join", "done", "exited"}
    BY DEF BrowserInv, ScriptTyped, Signing, Over
  <2> QED BY <2>1, <2>2 DEF BrowserInv, ScriptTyped, LinkTyped, MailTyped, Browser!TypeOK
<1> QED BY <1>1, <1>2 DEF TypesInv, AllTypeOK

(* What each variable of the two programs may hold: the mailboxes messages  *)
(* and no other thing, at most one waiter, the stream frames of the sizes   *)
(* the gateway writes; and smoke.sh ends with a verdict.                    *)
THEOREM SmokeTyped == SmokeSpec => []AllTypeOK
<1> QED BY AllTyped, TasksBeginning, TasksSteps, BrowserBeginning, BrowserSteps, TypesBeginning, TypesSteps, PTL DEF SmokeSpec
=============================================================================
