------------------------- MODULE ConversationProofs -------------------------
(***************************************************************************)
(* The runner of the conversation in both modes, for any number of native   *)
(* app-servers, signals, rescans and restarts of the worker.  The fixture's *)
(* invariant says what the last scan of cleanup settles for good; the live  *)
(* run's says, for each place of the plan, what has been shown by then.     *)
(***************************************************************************)
EXTENDS Conversation, TLAPS

-----------------------------------------------------------------------------
(* The fixture.                                                            *)

Scanned ==
  /\ fixture \notin {"running", "zombie"} /\ members = {}
  /\ \A n \in Native : native[n] \notin {"asked", "held", "orphaned"}

RunInv ==
  /\ cleaning # "not" => pc \in {"running", "finally", "finishing", "ended"}
  /\ pc = "ended" => cleaning \in {"clean", "failed"}
  /\ exit # "none" => pc = "ended"
  /\ pc \in {"finally", "finishing", "ended"} /\ ~failed /\ ~interrupted => result /\ fixture = "reaped"
  /\ exit = "zero" => result /\ ~interrupted /\ cleaning = "clean"
  /\ exit # "none" /\ cleaning = "failed" => exit = "nonzero"
  /\ cleaning \in {"clean", "failed"} /\ pc = "ended" => exit # "none"

Life == {"none", "forked", "started", "registered", "asked", "held", "orphaned", "gone"}

(* A pipe to a native is held by a living worker, and a native that ever    *)
(* read a request has registered its group before.                          *)
OwnedInv ==
  /\ native \in [Native -> Life]
  /\ \A n \in Native : native[n] \in {"registered", "asked", "held", "orphaned"} => n \in registry
  /\ members \subseteq Child /\ (piped # {} => "worker" \in members)

CleanInv ==
  /\ cleaning \in {"join", "stop", "erase", "clean"} => Scanned
  /\ cleaning \in {"erase", "clean"} => ~container
  /\ state # "kept" => cleaning \in {"clean", "failed"} /\ Scanned /\ ~container
  /\ state = "erased" => cleaning = "clean"

FixtureInv == RunInv /\ OwnedInv /\ CleanInv

LEMMA FixtureInitially == Init => FixtureInv
BY DEF Init, FixtureInv, RunInv, OwnedInv, Life, CleanInv, Scanned

(* Once scanned, natives may start and register, but none is given a        *)
(* request: no worker is left to hold its pipe, in or out of the fixture.   *)
LEMMA NativeSteps ==
  ASSUME FixtureInv, NEW n \in Native, NativeStep(n)
  PROVE  FixtureInv'
<1> USE DEF Fork, Exec, Register, Ask, Serve, EndOfInput, Leave, Gone, Live
<1>1. UNCHANGED <<runner, queued, signals, fixture, result, members, received, container, state>>
  BY DEF NativeStep
<1>2. RunInv'
  BY <1>1 DEF FixtureInv, RunInv, runner
<1>3. OwnedInv'
  <2>1. native' \in [Native -> Life]
    BY DEF NativeStep, FixtureInv, OwnedInv, Life
  <2>2. \A m \in Native : native'[m] \in {"registered", "asked", "held", "orphaned"} => m \in registry'
    BY DEF NativeStep, FixtureInv, OwnedInv
  <2>3. members' \subseteq Child /\ (piped' # {} => "worker" \in members')
    BY <1>1 DEF NativeStep, FixtureInv, OwnedInv
  <2> QED BY <2>1, <2>2, <2>3 DEF OwnedInv
<1>4. Scanned => Scanned'
  BY <1>1 DEF NativeStep, FixtureInv, OwnedInv, Scanned
<1> QED BY <1>1, <1>2, <1>3, <1>4 DEF FixtureInv, CleanInv, runner

(* A group without leader and without children gets neither.                *)
LEMMA ProcessSteps ==
  ASSUME FixtureInv, FixtureStep \/ Reap
  PROVE  FixtureInv'
<1>1. UNCHANGED <<runner, native, registry, container, state>>
  BY DEF FixtureStep, Reap
<1>2. RunInv'
  <2>1. fixture = "reaped" => fixture' = "reaped" /\ UNCHANGED result
    BY DEF FixtureStep, GroupDies, DieFixture, FixtureEnds, StartChild, ChildGone, Reap
  <2>2. exit = "zero" => UNCHANGED result
    BY DEF FixtureStep, GroupDies, DieFixture, FixtureEnds, StartChild, ChildGone, Reap, FixtureInv, RunInv, CleanInv,
           Scanned
  <2> QED BY <1>1, <2>1, <2>2 DEF FixtureInv, RunInv, runner
<1>3. OwnedInv'
  BY <1>1 DEF FixtureStep, GroupDies, DieFixture, FixtureEnds, StartChild, ChildGone, Reap, FixtureInv, OwnedInv
<1>4. Scanned => Scanned'
  BY <1>1 DEF FixtureStep, GroupDies, DieFixture, FixtureEnds, StartChild, ChildGone, Reap, Scanned
<1> QED BY <1>1, <1>2, <1>3, <1>4 DEF FixtureInv, CleanInv, runner

(* A scan that finds nothing has found every group there can be. *)
LEMMA ScanFinds ==
  ASSUME FixtureInv, ownedGroups = {}
  PROVE  Scanned
BY DEF FixtureInv, OwnedInv, Scanned, ownedGroups

LEMMA CleanupSteps ==
  ASSUME FixtureInv, Cleanup
  PROVE  FixtureInv'
<1>1. UNCHANGED <<pc, failed, interrupted, exit, queued, signals, fixture, result, members, piped, native, registry>>
  BY DEF Cleanup
<1>2. cleaning # "not" /\ cleaning \notin {"clean", "failed"} /\ state = "kept"
  BY DEF Cleanup, FirstScan, Terminate, Rescan, Kill, Sleep, Verify, Join, ScanFails, SignalFails, Stop, Erase,
         Cleans, FixtureInv, CleanInv
<1>3. cleaning' # "not"
  BY DEF Cleanup, FirstScan, Terminate, Rescan, Kill, Sleep, Verify, Join, ScanFails, SignalFails, Stop, Erase, Cleans
<1>4. RunInv'
  BY <1>1, <1>2, <1>3 DEF FixtureInv, RunInv
<1>5. OwnedInv' /\ (Scanned => Scanned')
  BY <1>1 DEF FixtureInv, OwnedInv, Scanned
<1>6. CASE FirstScan \/ Terminate \/ Rescan \/ Kill \/ Sleep \/ ScanFails \/ SignalFails
  <2>1. cleaning' \in {"terminate", "rescan", "kill", "sleep", "verify", "stop_failed"} /\ state' = "kept"
    BY <1>2, <1>6 DEF FirstScan, Terminate, Rescan, Kill, Sleep, ScanFails, SignalFails, Cleans
  <2> QED BY <1>4, <1>5, <2>1 DEF FixtureInv, CleanInv
<1>7. CASE Verify
  BY <1>2, <1>4, <1>5, <1>7, ScanFinds DEF Verify, Cleans, FixtureInv, CleanInv
<1>8. CASE Join
  BY <1>2, <1>4, <1>5, <1>8 DEF Join, Cleans, FixtureInv, CleanInv
<1>9. CASE Stop
  BY <1>2, <1>4, <1>5, <1>9 DEF Stop, FixtureInv, CleanInv
<1>10. CASE Erase
  BY <1>2, <1>4, <1>5, <1>10 DEF Erase, Cleans, FixtureInv, CleanInv
<1> QED BY <1>6, <1>7, <1>8, <1>9, <1>10 DEF Cleanup

LEMMA RunnerSteps ==
  ASSUME FixtureInv, Prepare \/ Spawn \/ ChildEnded \/ Finally \/ Handle \/ End \/ SendSignal
  PROVE  FixtureInv'
<1> USE DEF FixtureInv, RunInv, OwnedInv, CleanInv, Scanned, world
<1>1. CASE Prepare
  BY <1>1 DEF Prepare, generatePackage, StartContainer, waitForPostgres, PreparationFails, Throw
<1>2. CASE Spawn
  BY <1>2 DEF Spawn
<1>3. CASE ChildEnded
  BY <1>3 DEF ChildEnded, Succeeded, Throw
<1>4. CASE Finally
  BY <1>4 DEF Finally, StartCleanup
<1>5. CASE Handle
  BY <1>5 DEF Handle, Interrupt, StartCleanup
<1>6. CASE End
  BY <1>6 DEF End
<1>7. CASE SendSignal
  BY <1>7 DEF SendSignal, runner
<1> QED BY <1>1, <1>2, <1>3, <1>4, <1>5, <1>6, <1>7

LEMMA FixtureInductive == FixtureInv /\ [ConversationNext]_allvars => FixtureInv'
<1> SUFFICES ASSUME FixtureInv, [ConversationNext]_allvars PROVE FixtureInv'
  OBVIOUS
<1>1. CASE UNCHANGED vars
  BY <1>1 DEF vars, runner, world, FixtureInv, RunInv, OwnedInv, CleanInv, Scanned
<1>2. CASE Next
  BY <1>2, NativeSteps, ProcessSteps, CleanupSteps, RunnerSteps DEF Next, Runner
<1> QED BY <1>1, <1>2 DEF ConversationNext, Prologue, Fake, LiveStep, allvars

LEMMA FixtureInvariance == ConversationSpec => []FixtureInv
<1>1. ConversationInit => FixtureInv
  BY FixtureInitially DEF ConversationInit
<1> QED BY <1>1, FixtureInductive, PTL DEF ConversationSpec

(* The state directory is touched only when nothing is left of what was     *)
(* started, for any number of natives started meanwhile, although the       *)
(* fixture's children outlive it and may go on asking natives: what settles *)
(* it is that a scan counts a group while any member lives, that only such  *)
(* a member holds a pipe, and that a native registers before it reads one.  *)
THEOREM NothingIsLeft == ConversationSpec => []NothingSurvives
<1>1. FixtureInv => NothingSurvives
  BY DEF FixtureInv, CleanInv, Scanned, NothingSurvives
<1> QED BY <1>1, FixtureInvariance, PTL

(* The exit code vouches for fixture and cleanup. *)
THEOREM ExitCodeIsTrue == ConversationSpec => []FailureIsSeen
<1>1. FixtureInv => FailureIsSeen
  BY DEF FixtureInv, RunInv, CleanInv, FailureIsSeen
<1> QED BY <1>1, FixtureInvariance, PTL

-----------------------------------------------------------------------------
(* The live run.                                                           *)

plan == Verification!plan
Places == Verification!Places
ResetAt == Verification!ResetAt

Good(t) == t \in DOMAIN turns /\ turns[t].answer = "good"

PlaceInv ==
  /\ {done, starts, before, began} \subseteq Nat
  /\ gate = "passed" => done = Places /\ step \notin {"verify", "reserve", "run", "poll"}
  /\ step = "poll" => done < Places /\ plan[done + 1] \in Verification!Turn
  /\ step = "poll" => began <= starts /\ (done = 10 => before < began)

(* What the places that are done have shown. *)
ShownInv ==
  /\ done >= 6 => Good("baseline") /\ turns["baseline"].ended \in Nat /\ turns["baseline"].ended <= starts
  /\ done >= 8 => turns["baseline"].ended <= before /\ before <= starts
  /\ done >= 10 => before < starts
  /\ done >= 11 => /\ Good("continuation") /\ turns["continuation"].id = turns["baseline"].id
                   /\ turns["continuation"].began > turns["baseline"].ended
  /\ packet.alternate /\ done >= 12 => Good("alternate") /\ turns["alternate"].id = turns["baseline"].id
  /\ done >= ResetAt => Good("reset") /\ turns["reset"].id # turns["baseline"].id

FileInv ==
  /\ step \in {"verify", "reserve"} => ~contacted /\ fd = "none" /\ file = "none"
  /\ step \in {"run", "poll", "finally"} => fd = "open" /\ file = "empty"
  /\ step = "finally" => gate # "none"
  /\ contacted => file # "none"
  /\ step = "ended" /\ contacted => fd = "closed" /\ file \in {gate, "empty"}
  /\ verdict = "zero" => file = "passed" /\ step = "ended"

LiveInv == PlaceInv /\ ShownInv /\ FileInv

LEMMA ResetPlace == ResetAt \in {12, 13} /\ (packet.alternate <=> ResetAt = 13) /\ Places \in {ResetAt, ResetAt + 1}
BY DEF ResetAt, Places, Verification!ResetAt, Verification!Places

(* Each turn, and each question to podman, has its place in the plan. *)
LEMMA PlaceOf ==
  ASSUME done \in Nat, done < Places
  PROVE  /\ plan[done + 1] = "baseline" => done = 5
         /\ plan[done + 1] = "before" => done = 7
         /\ plan[done + 1] = "after" => done = 9
         /\ plan[done + 1] = "continuation" => done = 10
         /\ plan[done + 1] = "alternate" => done = 11 /\ packet.alternate
         /\ plan[done + 1] = "reset" => done + 1 = ResetAt
         /\ plan[done + 1] = "probe" => done = ResetAt
         /\ plan[done + 1] \in {"room", "maya", "leo", "intervene", "restart"} => done \in {0, 1, 2, 3, 4, 6, 8}
<1>1. done + 1 \in 1 .. Places
  BY ResetPlace
<1>2. plan[done + 1] = IF done + 1 < 12 THEN Verification!Opening[done + 1]
                       ELSE IF done + 1 < ResetAt THEN "alternate"
                       ELSE IF done + 1 = ResetAt THEN "reset" ELSE "probe"
  BY <1>1 DEF plan, Verification!plan, Places, ResetAt
<1>3. CASE done + 1 < 12
  <2>1. done \in 0 .. 10
    BY <1>3
  <2>2. plan[done + 1] = Verification!Opening[done + 1]
    BY <1>2, <1>3
  <2> QED BY <2>1, <2>2, ResetPlace DEF Verification!Opening
<1>4. CASE done + 1 >= 12
  BY <1>1, <1>2, <1>4, ResetPlace
<1> QED BY <1>3, <1>4

LEMMA LiveInitially == Verification!Init => LiveInv
BY ResetPlace DEF Verification!Init, LiveInv, PlaceInv, ShownInv, FileInv, Good

(* A turn that is not refused is what was asked for. *)
LEMMA Judged ==
  ASSUME NEW t, NEW now, Verification!Judge(t, now)
  PROVE  \/ Verification!Throw
         \/ /\ Verification!Proceed
            /\ t # "probe" => now.answer = "good"
            /\ t \in {"continuation", "alternate"} => now.id = turns["baseline"].id
            /\ t = "reset" => now.id # turns["baseline"].id
<1>1. CASE now.answer = "error"
  BY <1>1 DEF Verification!Judge
<1>2. CASE now.answer # "error" /\ t = "probe"
  BY <1>2 DEF Verification!Judge
<1>3. CASE now.answer = "failed" /\ t = "alternate"
  BY <1>3 DEF Verification!Judge
<1>4. CASE now.answer # "error" /\ t # "probe" /\ ~(now.answer = "failed" /\ t = "alternate")
  BY <1>4 DEF Verification!Judge, Verification!Required
<1> QED BY <1>1, <1>2, <1>3, <1>4

(* The evidence: only Reserve, Finally and the ends touch it. *)
LEMMA FileSteps ==
  ASSUME FileInv, Verification!Next
  PROVE  FileInv'
<1> USE DEF FileInv, Verification!Proceed, Verification!Throw, Verification!Refuse, Verification!files,
            Verification!broker, Verification!evidence, Verification!Does
<1>1. CASE Verification!Verify \/ Verification!Reserve \/ Verification!Passed \/ Verification!Finally
  BY <1>1 DEF Verification!Verify, Verification!Reserve, Verification!Passed, Verification!Finally
<1>2. CASE Verification!Room \/ Verification!Prompted \/ Verification!Before \/ Verification!After \/ Verification!Submit
  BY <1>2 DEF Verification!Room, Verification!Prompted, Verification!Before, Verification!After, Verification!Submit
<1>3. CASE Verification!Answered
  <2>1. step = "poll" /\ UNCHANGED <<fd, file, contacted>>
    BY <1>3 DEF Verification!Answered
  <2>2. Verification!Throw \/ Verification!Proceed
    BY <1>3, Judged DEF Verification!Answered
  <2> QED BY <2>1, <2>2
<1>4. CASE Verification!RoomStarts \/ Verification!WorkerRestarts \/ Verification!Kill
  BY <1>4 DEF Verification!Next, Verification!RoomStarts, Verification!WorkerRestarts, Verification!Kill
<1> QED BY <1>1, <1>2, <1>3, <1>4 DEF Verification!Next, Verification!Script

(* A turn, judged at its place. *)
LEMMA AnsweredStep ==
  ASSUME PlaceInv, ShownInv, Verification!Answered
  PROVE  PlaceInv' /\ ShownInv'
<1> DEFINE t == plan[done + 1]
<1>1. PICK now :
        /\ now.began = began /\ now.ended = starts
        /\ turns' = [u \in DOMAIN turns \cup {t} |-> IF u = t THEN now ELSE turns[u]]
        /\ Verification!Judge(t, now)
  <2>1. PICK answer \in Verification!Answer, id \in {1, 2}, settings \in BOOLEAN :
          LET now == [answer |-> answer, id |-> id, settings |-> settings,
                      began |-> began, ended |-> starts]
          IN  /\ turns' = [u \in DOMAIN turns \cup {t} |-> IF u = t THEN now ELSE turns[u]]
              /\ Verification!Judge(t, now)
    BY DEF Verification!Answered, plan
  <2> QED BY <2>1
<1>2. step = "poll" /\ UNCHANGED <<packet, before, starts, began>>
  BY DEF Verification!Answered
<1>3. /\ done \in Nat /\ done < Places /\ t \in Verification!Turn
      /\ starts \in Nat /\ before \in Nat /\ began \in Nat /\ began <= starts /\ gate # "passed"
  BY <1>2 DEF PlaceInv
<1>4. /\ t = "baseline" => done = 5
      /\ t = "continuation" => done = 10
      /\ t = "alternate" => done = 11 /\ packet.alternate
      /\ t = "reset" => done + 1 = ResetAt
      /\ t = "probe" => done = ResetAt
  BY <1>3, PlaceOf
<1>5. /\ turns'[t] = now /\ t \in DOMAIN turns'
      /\ \A u \in DOMAIN turns : u \in DOMAIN turns' /\ (u # t => turns'[u] = turns[u])
  BY <1>1
<1>6. ResetAt' = ResetAt /\ Places' = Places /\ plan' = plan
  BY <1>2 DEF ResetAt, Places, plan, Verification!ResetAt, Verification!Places, Verification!plan
<1> HIDE DEF t
<1>7. CASE Verification!Throw
  <2>1. done' = done /\ step' = "finally" /\ gate' = "failed"
    BY <1>7 DEF Verification!Throw
  <2>2. PlaceInv'
    BY <1>2, <1>3, <2>1 DEF PlaceInv
  <2>3. ShownInv'
    BY <1>2, <1>3, <1>4, <1>5, <1>6, <2>1, ResetPlace DEF ShownInv, Good, Verification!Turn
  <2> QED BY <2>2, <2>3
<1>8. CASE /\ Verification!Proceed
           /\ t # "probe" => now.answer = "good"
           /\ t \in {"continuation", "alternate"} => now.id = turns["baseline"].id
           /\ t = "reset" => now.id # turns["baseline"].id
  <2>1. done' = done + 1 /\ step' = "run" /\ gate' = gate
    BY <1>8 DEF Verification!Proceed
  <2>2. PlaceInv'
    BY <1>2, <1>3, <2>1 DEF PlaceInv
  <2>3. done = 10 => before < began
    BY <1>2 DEF PlaceInv
  <2>4. ShownInv'
    <3>1. CASE t = "baseline"
      BY <1>1, <1>2, <1>3, <1>4, <1>5, <1>6, <1>8, <2>1, <3>1, ResetPlace DEF ShownInv, Good
    <3>2. CASE t = "continuation"
      BY <1>1, <1>2, <1>3, <1>4, <1>5, <1>6, <1>8, <2>1, <2>3, <3>2, ResetPlace DEF ShownInv, Good
    <3>3. CASE t = "alternate"
      BY <1>1, <1>2, <1>3, <1>4, <1>5, <1>6, <1>8, <2>1, <3>3, ResetPlace DEF ShownInv, Good
    <3>4. CASE t = "reset"
      BY <1>1, <1>2, <1>3, <1>4, <1>5, <1>6, <1>8, <2>1, <3>4, ResetPlace DEF ShownInv, Good
    <3>5. CASE t = "probe"
      BY <1>2, <1>3, <1>4, <1>5, <1>6, <2>1, <3>5, ResetPlace DEF ShownInv, Good
    <3> QED BY <1>3, <3>1, <3>2, <3>3, <3>4, <3>5 DEF Verification!Turn
  <2> QED BY <2>2, <2>4
<1> QED BY <1>1, <1>7, <1>8, Judged

(* The other steps of the script show nothing, but the two that note the    *)
(* start of the container and compare it.                                   *)
LEMMA OtherSteps ==
  ASSUME PlaceInv, ShownInv, Verification!Next, ~Verification!Answered
  PROVE  PlaceInv' /\ ShownInv'
<1>1. UNCHANGED <<packet, turns>>
  BY DEF Verification!Next, Verification!Script, Verification!Verify, Verification!Reserve, Verification!Room,
         Verification!Prompted, Verification!Before, Verification!After, Verification!Submit, Verification!Passed,
         Verification!Finally, Verification!RoomStarts, Verification!WorkerRestarts, Verification!Kill,
         Verification!broker
<1>2. ResetAt' = ResetAt /\ Places' = Places /\ plan' = plan
  BY <1>1 DEF ResetAt, Places, plan, Verification!ResetAt, Verification!Places, Verification!plan
<1> USE <1>1, <1>2, ResetPlace
<1> USE DEF PlaceInv, Verification!Throw, Verification!Proceed, Verification!Refuse, Verification!evidence,
            Verification!broker
<1>3. CASE Verification!Verify \/ Verification!Reserve \/ Verification!Finally \/ Verification!Kill
  BY <1>3 DEF Verification!Verify, Verification!Reserve, Verification!Finally, Verification!Kill, ShownInv, Good
<1>4. CASE Verification!Room \/ Verification!Prompted
  <2>1. /\ step = "run" /\ done \in Nat /\ done < Places
        /\ plan[done + 1] \in {"room", "maya", "leo", "intervene", "restart"}
    BY <1>4 DEF Verification!Room, Verification!Prompted, Verification!Does, plan, Places
  <2>2. done \in {0, 1, 2, 3, 4, 6, 8}
    BY <2>1, PlaceOf
  <2>3. /\ UNCHANGED <<before, starts, began>>
        /\ Verification!Throw \/ Verification!Proceed
    BY <1>4 DEF Verification!Room, Verification!Prompted
  <2> QED BY <2>1, <2>2, <2>3 DEF ShownInv, Good
<1>5. CASE Verification!Before
  <2>1. step = "run" /\ done = 7 /\ done < Places
    BY <1>5, PlaceOf DEF Verification!Before, Verification!Does, plan, Places
  <2> QED BY <1>5, <2>1 DEF Verification!Before, ShownInv, Good
<1>6. CASE Verification!After
  <2>1. step = "run" /\ done = 9 /\ done < Places
    BY <1>6, PlaceOf DEF Verification!After, Verification!Does, plan, Places
  <2> QED BY <1>6, <2>1 DEF Verification!After, Verification!Restarted, ShownInv, Good
<1>7. CASE Verification!Submit
  <2>1. /\ step = "run" /\ done < Places /\ plan[done + 1] \in Verification!Turn
        /\ step' = "poll" /\ began' = starts /\ UNCHANGED <<done, gate, before, starts>>
    BY <1>7 DEF Verification!Submit, Verification!Does, plan, Places
  <2>2. PlaceInv'
    BY <2>1 DEF ShownInv
  <2> QED BY <2>1, <2>2 DEF ShownInv, Good
<1>8. CASE Verification!Passed
  BY <1>8 DEF Verification!Passed, ShownInv, Good, Places
<1>9. CASE Verification!RoomStarts \/ Verification!WorkerRestarts
  BY <1>9 DEF Verification!RoomStarts, Verification!WorkerRestarts, ShownInv, Good
<1> QED BY <1>3, <1>4, <1>5, <1>6, <1>7, <1>8, <1>9 DEF Verification!Next, Verification!Script

LEMMA LiveInductive == LiveInv /\ [ConversationNext]_allvars => LiveInv'
<1> SUFFICES ASSUME LiveInv, [ConversationNext]_allvars PROVE LiveInv'
  OBVIOUS
<1>1. CASE Verification!Next
  BY <1>1, FileSteps, AnsweredStep, OtherSteps DEF LiveInv
<1>2. CASE UNCHANGED livevars
  <2>1. UNCHANGED <<packet, step, done, fd, file, gate, before, verdict, starts, began, turns, contacted>>
    BY <1>2 DEF livevars
  <2>2. plan' = plan /\ Places' = Places /\ ResetAt' = ResetAt
    BY <2>1 DEF plan, Places, ResetAt, Verification!ResetAt, Verification!Places, Verification!plan
  <2> QED BY <2>1, <2>2 DEF LiveInv, PlaceInv, ShownInv, FileInv, Good
<1> QED BY <1>1, <1>2 DEF ConversationNext, Prologue, Fake, LiveStep, allvars

LEMMA LiveInvariance == ConversationSpec => []LiveInv
<1>1. ConversationInit => LiveInv
  BY LiveInitially DEF ConversationInit
<1> QED BY <1>1, LiveInductive, PTL DEF ConversationSpec

(* However often the worker restarts, a gate that is passed was shown what  *)
(* it stands for.                                                           *)
THEOREM GateIsEarned == ConversationSpec => []PassedMeansShown
<1>1. LiveInv => PassedMeansShown
  BY ResetPlace DEF LiveInv, PlaceInv, ShownInv, Good, PassedMeansShown, Verification!PassedMeansShown, Places
<1> QED BY <1>1, LiveInvariance, PTL

(* Nobody is contacted before the evidence has its file, and only a file    *)
(* that says "passed" lets the script exit with zero.                       *)
THEOREM EvidenceIsKept == ConversationSpec => []EvidenceKept
<1>1. LiveInv => EvidenceKept
  BY DEF LiveInv, FileInv, EvidenceKept, Verification!EvidenceKept
<1> QED BY <1>1, LiveInvariance, PTL

-----------------------------------------------------------------------------
(* Types of the fixture's runner.  Rescans stay within their bound because  *)
(* the loop is left at it; the groups of a scan are groups of the fixture.  *)

Points == {"package", "container", "database", "spawn", "running", "finally", "finishing", "ended"}
Stages == {"not", "scan", "terminate", "rescan", "kill", "sleep", "verify", "join",
           "stop", "stop_failed", "erase", "clean", "failed"}

RunnerTyped ==
  /\ pc \in Points /\ cleaning \in Stages
  /\ attempt \in 0 .. Attempts /\ signals \in 0 .. MaxSignals
  /\ cleaning \in {"kill", "sleep"} => attempt # Attempts
  /\ exit \in {"none", "zero", "nonzero"}
  /\ fixture \in {"none", "running", "zombie", "reaped", "unborn"}

GroupsTyped ==
  /\ targets \subseteq Group
  /\ registry \subseteq Native
  /\ members \subseteq Child /\ piped \subseteq Native
  /\ received \in {"none", "TERM", "KILL"} /\ state \in {"kept", "partly", "erased"}

FlagsTyped == {failed, interrupted, queued, result, container} \subseteq BOOLEAN

LEMMA RunnerTypes ==
  ASSUME RunnerTyped, [Next]_vars
  PROVE  RunnerTyped'
<1> USE BoundsAssumption DEF RunnerTyped, Points, Stages, runner, world
<1>1. CASE UNCHANGED vars
  BY <1>1 DEF vars
<1>2. CASE FixtureStep \/ Reap
  BY <1>2 DEF FixtureStep, Reap, GroupDies, DieFixture, FixtureEnds, StartChild, ChildGone
<1>3. CASE \E n \in Native : NativeStep(n)
  BY <1>3 DEF NativeStep
<1>4. CASE Cleanup
  BY <1>4 DEF Cleanup, FirstScan, Terminate, Rescan, GivesUp, Kill, Sleep, Verify, Join, ScanFails, SignalFails,
              Stop, Erase, Cleans
<1>5. CASE Prepare \/ Spawn \/ ChildEnded
  BY <1>5 DEF Prepare, generatePackage, StartContainer, waitForPostgres, PreparationFails, Throw, Spawn, ChildEnded
<1>6. CASE Finally \/ Handle \/ End \/ SendSignal
  BY <1>6 DEF Finally, Handle, Interrupt, StartCleanup, End, SendSignal
<1> QED BY <1>1, <1>2, <1>3, <1>4, <1>5, <1>6 DEF Next, Runner

LEMMA GroupTypes ==
  ASSUME GroupsTyped, [Next]_vars
  PROVE  GroupsTyped'
<1> USE DEF GroupsTyped, runner, world
<1>1. ownedGroups \subseteq Group
  BY DEF ownedGroups, Group
<1>2. ASSUME NEW signal \in {"TERM", "KILL"}, NEW groups, SignalGroups(signal, groups)
      PROVE  targets' = {} /\ received' \in {"none", "TERM", "KILL"}
  BY <1>2 DEF SignalGroups
<1>3. CASE UNCHANGED vars
  BY <1>3 DEF vars
<1>4. CASE FixtureStep \/ Reap \/ SendSignal
  BY <1>4 DEF FixtureStep, GroupDies, DieFixture, FixtureEnds, StartChild, ChildGone, Reap, SendSignal
<1>5. CASE \E n \in Native : NativeStep(n)
  BY <1>5 DEF NativeStep, Fork, Exec, Register, Ask, Serve, EndOfInput, Leave, Gone
<1>6. CASE Cleanup
  <2>1. UNCHANGED <<members, piped, registry>>
    BY <1>6 DEF Cleanup
  <2>2. CASE FirstScan \/ Rescan
    BY <1>1, <2>1, <2>2 DEF FirstScan, Rescan
  <2>3. CASE Terminate \/ Kill \/ SignalFails
    BY <1>2, <2>1, <2>3 DEF Terminate, Kill, SignalFails
  <2>4. CASE Sleep \/ Verify \/ Join \/ ScanFails \/ Stop
    BY <2>1, <2>4 DEF Sleep, Verify, Join, ScanFails, Stop
  <2>5. CASE Erase
    BY <2>1, <2>5 DEF Erase
  <2> QED BY <1>6, <2>2, <2>3, <2>4, <2>5 DEF Cleanup
<1>7. CASE Prepare \/ Spawn \/ ChildEnded \/ Finally \/ Handle \/ End
  BY <1>7 DEF Prepare, Spawn, ChildEnded, Finally, Handle, End
<1> QED BY <1>3, <1>4, <1>5, <1>6, <1>7 DEF Next, Runner

LEMMA FlagTypes ==
  ASSUME FlagsTyped, [Next]_vars
  PROVE  FlagsTyped'
<1> USE CandidateAssumption DEF FlagsTyped, runner, world
<1>1. CASE UNCHANGED vars
  BY <1>1 DEF vars
<1>2. CASE FixtureStep \/ Reap \/ SendSignal
  BY <1>2 DEF FixtureStep, GroupDies, DieFixture, FixtureEnds, StartChild, ChildGone, Reap, SendSignal
<1>3. CASE \E n \in Native : NativeStep(n)
  BY <1>3 DEF NativeStep
<1>4. CASE Cleanup
  BY <1>4 DEF Cleanup, FirstScan, Terminate, Rescan, Kill, Sleep, Verify, Join, ScanFails, SignalFails, Stop, Erase
<1>5. CASE Prepare \/ Spawn \/ ChildEnded
  BY <1>5 DEF Prepare, generatePackage, StartContainer, waitForPostgres, PreparationFails, Throw, Spawn, ChildEnded
<1>6. CASE Finally \/ Handle \/ End
  BY <1>6 DEF Finally, Handle, End
<1> QED BY <1>1, <1>2, <1>3, <1>4, <1>5, <1>6 DEF Next, Runner

FixtureTyped == RunnerTyped /\ GroupsTyped /\ FlagsTyped

LEMMA FixtureTypeInductive == FixtureTyped /\ [ConversationNext]_allvars => FixtureTyped'
<1>1. [ConversationNext]_allvars => [Next]_vars
  BY DEF ConversationNext, Prologue, Fake, LiveStep, allvars
<1> QED BY <1>1, RunnerTypes, GroupTypes, FlagTypes DEF FixtureTyped

LEMMA FixtureTypedInitially == Init => FixtureTyped
<1> SUFFICES ASSUME Init PROVE FixtureTyped
  OBVIOUS
<1>1. RunnerTyped
  BY BoundsAssumption DEF Init, RunnerTyped, Points, Stages
<1>2. GroupsTyped
  BY DEF Init, GroupsTyped
<1>3. FlagsTyped
  BY DEF Init, FlagsTyped
<1> QED BY <1>1, <1>2, <1>3 DEF FixtureTyped

-----------------------------------------------------------------------------
(* Types of the live run.                                                  *)

StepTyped ==
  /\ step \in {"verify", "reserve", "run", "poll", "finally", "ended", "killed"}
  /\ done \in 0 .. Places
  /\ fd \in {"none", "open", "closed"} /\ file \in {"none", "empty", "passed", "failed"}
  /\ gate \in {"none", "passed", "failed"} /\ verdict \in {"none", "zero", "nonzero"}

RecordsTyped ==
  /\ DOMAIN turns \subseteq Verification!Turn
  /\ \A t \in DOMAIN turns : turns[t] \in Verification!Result
  /\ checks \subseteq [label : Verification!Turn, code : BOOLEAN]
  /\ conversation \in 0 .. 2

CountsTyped == {starts, before, began} \subseteq 0 .. MaxRestarts + 1

LEMMA LiveTypedInitially == Verification!Init => StepTyped /\ RecordsTyped /\ CountsTyped
BY RestartsAssumption, ResetPlace DEF Verification!Init, StepTyped, RecordsTyped, CountsTyped

(* What `Judge` records, and where it leads. *)
LEMMA Recorded ==
  ASSUME RecordsTyped, NEW t \in Verification!Turn, NEW now, Verification!Judge(t, now)
  PROVE  checks' \subseteq [label : Verification!Turn, code : BOOLEAN]
<1>0. SUFFICES checks' = checks \/ Verification!Records(t, TRUE) \/ Verification!Records(t, FALSE)
  <2>1. \A code \in BOOLEAN : [label |-> t, code |-> code] \in [label : Verification!Turn, code : BOOLEAN]
    OBVIOUS
  <2>2. TRUE \in BOOLEAN /\ FALSE \in BOOLEAN
    OBVIOUS
  <2>3. checks' = checks \/ \E code \in BOOLEAN : checks' = checks \cup {[label |-> t, code |-> code]}
    BY <1>0, <2>2, Zenon DEF Verification!Records
  <2> QED BY <2>1, <2>3 DEF RecordsTyped
<1>1. CASE now.answer = "error"
  BY <1>1 DEF Verification!Judge
<1>2. CASE now.answer # "error" /\ t = "probe"
  BY <1>2 DEF Verification!Judge
<1>3. CASE now.answer = "failed" /\ t = "alternate"
  BY <1>3 DEF Verification!Judge
<1>4. CASE now.answer # "error" /\ t # "probe" /\ ~(now.answer = "failed" /\ t = "alternate")
  BY <1>4 DEF Verification!Judge, Verification!Required
<1> QED BY <1>1, <1>2, <1>3, <1>4

(* The plan goes on only while there is a place left, and the gate that is  *)
(* written is one that was decided.                                         *)
LEMMA StepTypes ==
  ASSUME LiveInv, StepTyped, Verification!Next
  PROVE  StepTyped'
<1>1. UNCHANGED packet
  BY DEF Verification!Next, Verification!Script, Verification!Verify, Verification!Reserve, Verification!Room,
         Verification!Prompted, Verification!Before, Verification!After, Verification!Submit, Verification!Answered,
         Verification!Passed, Verification!Finally, Verification!RoomStarts, Verification!WorkerRestarts,
         Verification!Kill
<1>2. Places' = Places /\ Places \in Nat
  BY <1>1, ResetPlace DEF Places, Verification!ResetAt, Verification!Places
<1> USE <1>2 DEF StepTyped, Verification!Throw, Verification!Refuse, Verification!files, Verification!evidence,
                 Verification!broker
<1>3. ASSUME done < Places, Verification!Proceed, UNCHANGED <<fd, file>>
      PROVE  StepTyped'
  BY <1>3 DEF Verification!Proceed
<1>4. CASE Verification!Verify \/ Verification!Reserve
  BY <1>4 DEF Verification!Verify, Verification!Reserve
<1>5. CASE Verification!Room \/ Verification!Prompted \/ Verification!Before \/ Verification!After
  BY <1>3, <1>5 DEF Verification!Room, Verification!Prompted, Verification!Before, Verification!After,
                    Verification!Does, Places
<1>6. CASE Verification!Submit
  BY <1>6 DEF Verification!Submit
<1>7. CASE Verification!Answered
  <2>1. UNCHANGED <<fd, file>> /\ done < Places
    BY <1>7 DEF Verification!Answered, LiveInv, PlaceInv
  <2>2. Verification!Throw \/ Verification!Proceed
    BY <1>7, Judged DEF Verification!Answered
  <2> QED BY <1>3, <2>1, <2>2
<1>8. CASE Verification!Passed
  BY <1>8 DEF Verification!Passed
<1>9. CASE Verification!Finally
  BY <1>9 DEF Verification!Finally, LiveInv, FileInv
<1>10. CASE Verification!RoomStarts \/ Verification!WorkerRestarts \/ Verification!Kill
  BY <1>10 DEF Verification!RoomStarts, Verification!WorkerRestarts, Verification!Kill
<1> QED BY <1>4, <1>5, <1>6, <1>7, <1>8, <1>9, <1>10 DEF Verification!Next, Verification!Script

LEMMA CountTypes ==
  ASSUME CountsTyped, Verification!Next
  PROVE  CountsTyped'
<1> USE RestartsAssumption DEF CountsTyped, Verification!broker
<1>1. CASE Verification!Verify \/ Verification!Reserve \/ Verification!Room \/ Verification!Prompted
  BY <1>1 DEF Verification!Verify, Verification!Reserve, Verification!Room, Verification!Prompted
<1>2. CASE Verification!Before \/ Verification!After \/ Verification!Submit
  BY <1>2 DEF Verification!Before, Verification!After, Verification!Submit
<1>3. CASE Verification!Answered
  BY <1>3 DEF Verification!Answered
<1>4. CASE Verification!Passed \/ Verification!Finally \/ Verification!RoomStarts \/ Verification!Kill
  BY <1>4 DEF Verification!Passed, Verification!Finally, Verification!RoomStarts, Verification!Kill
<1>5. CASE Verification!WorkerRestarts
  BY <1>5 DEF Verification!WorkerRestarts
<1> QED BY <1>1, <1>2, <1>3, <1>4, <1>5 DEF Verification!Next, Verification!Script

LEMMA RecordTypes ==
  ASSUME LiveInv, RecordsTyped, CountsTyped, Verification!Next
  PROVE  RecordsTyped'
<1> USE DEF RecordsTyped, Verification!broker, Verification!evidence
<1>1. CASE Verification!Verify \/ Verification!Reserve \/ Verification!Room \/ Verification!Prompted
  BY <1>1 DEF Verification!Verify, Verification!Reserve, Verification!Room, Verification!Prompted
<1>2. CASE Verification!Before \/ Verification!After \/ Verification!Submit
  BY <1>2 DEF Verification!Before, Verification!After, Verification!Submit
<1>3. CASE Verification!Answered
  <2> DEFINE t == plan[done + 1]
  <2>1. t \in Verification!Turn
    BY <1>3 DEF Verification!Answered, LiveInv, PlaceInv
  <2>2. PICK answer \in Verification!Answer, id \in {1, 2}, settings \in BOOLEAN :
          LET now == [answer |-> answer, id |-> id, settings |-> settings, began |-> began, ended |-> starts]
          IN  /\ turns' = [u \in DOMAIN turns \cup {t} |-> IF u = t THEN now ELSE turns[u]]
              /\ conversation' = id
              /\ Verification!Judge(t, now)
    BY <1>3 DEF Verification!Answered, plan
  <2> DEFINE now == [answer |-> answer, id |-> id, settings |-> settings, began |-> began, ended |-> starts]
  <2>3. began \in Nat /\ starts \in Nat
    BY DEF LiveInv, PlaceInv
  <2>4. now \in Verification!Result
    BY <2>3 DEF Verification!Result
  <2>5. checks' \subseteq [label : Verification!Turn, code : BOOLEAN]
    BY <2>1, <2>2, Recorded
  <2> HIDE DEF t, now
  <2>6. turns' = [u \in DOMAIN turns \cup {t} |-> IF u = t THEN now ELSE turns[u]] /\ conversation' = id
    BY <2>2 DEF now, t
  <2> QED BY <2>1, <2>4, <2>5, <2>6
<1>4. CASE Verification!Passed \/ Verification!Finally \/ Verification!WorkerRestarts \/ Verification!Kill
  BY <1>4 DEF Verification!Passed, Verification!Finally, Verification!WorkerRestarts, Verification!Kill
<1>5. CASE Verification!RoomStarts
  BY <1>5 DEF Verification!RoomStarts
<1> QED BY <1>1, <1>2, <1>3, <1>4, <1>5 DEF Verification!Next, Verification!Script

LiveTyped == StepTyped /\ RecordsTyped /\ CountsTyped

LEMMA LiveTypeInductive == LiveInv /\ LiveTyped /\ [ConversationNext]_allvars => LiveTyped'
<1> SUFFICES ASSUME LiveInv, LiveTyped, [ConversationNext]_allvars PROVE LiveTyped'
  OBVIOUS
<1>1. CASE Verification!Next
  BY <1>1, StepTypes, RecordTypes, CountTypes DEF LiveTyped
<1>2. CASE UNCHANGED livevars
  BY <1>2 DEF livevars, LiveTyped, StepTyped, RecordsTyped, CountsTyped, Places, Verification!Places, Verification!ResetAt
<1> QED BY <1>1, <1>2 DEF ConversationNext, Prologue, Fake, LiveStep, allvars

ModeTyped == mode \in {"live", "pins", "ports", "fake", "over"}

(* Both modes keep their types: cleanup gives up at its bound of rescans    *)
(* and never goes past it, scans only ever name groups of the fixture, and  *)
(* the live plan is never left behind, whatever fails.                      *)
THEOREM ConversationTyped == ConversationSpec => []AllTypeOK
<1>1. ConversationInit => ModeTyped /\ FixtureTyped /\ LiveTyped
  BY FixtureTypedInitially, LiveTypedInitially DEF ConversationInit, ModeTyped, LiveTyped
<1>2. ModeTyped /\ [ConversationNext]_allvars => ModeTyped'
  BY DEF ModeTyped, ConversationNext, Prologue, sourcePins, availablePorts, Fake, LiveStep, allvars
<1>3. ModeTyped /\ FixtureTyped /\ LiveTyped /\ FixtureInv => AllTypeOK
  <2> SUFFICES ASSUME ModeTyped, FixtureTyped, LiveTyped, FixtureInv PROVE AllTypeOK
    OBVIOUS
  <2>1. TypeOK
    <3>1. native \in [Native -> Life]
      BY DEF FixtureInv, OwnedInv
    <3> QED BY <3>1 DEF Life, FixtureTyped, RunnerTyped, Points, Stages, GroupsTyped, FlagsTyped, TypeOK
  <2>2. Verification!TypeOK
    BY DEF LiveTyped, StepTyped, RecordsTyped, CountsTyped, Places, Verification!TypeOK
  <2> QED BY <2>1, <2>2 DEF ModeTyped, AllTypeOK
<1> QED
  BY <1>1, <1>2, <1>3, FixtureTypeInductive, LiveTypeInductive, FixtureInvariance, LiveInvariance, PTL DEF ConversationSpec
=============================================================================
