--------------------------- MODULE FixtureCleanup ---------------------------
(***************************************************************************)
(* `fakeMode` of scripts/smoke-codex-conversation.mjs: the runner of the    *)
(* composed conversation fixture, and how it gets rid of what it started: a *)
(* database container, the fixture's process group, in which its workers    *)
(* and mediators are, and the groups of the native app-servers the workers  *)
(* start.  Each of these processes may outlive the one that started it.     *)
(* The runner is one thread: a signal is handled only where it awaits.      *)
(***************************************************************************)
EXTENDS Naturals

CONSTANTS
  Native,      \* runs of the native app-server, each in a group of its own
  Child,       \* processes of the fixture's group beside its leader: its worker, its mediator
  Candidate,   \* --defaults-candidate: evidence of a failure is retained
  Attempts,    \* rescans before cleanup gives up; 100 in the code
  MaxSignals   \* bound on INT and TERM

ASSUME BoundsAssumption == Attempts \in Nat \ {0} /\ MaxSignals \in Nat
ASSUME ChildAssumption == "worker" \in Child
ASSUME CandidateAssumption == Candidate \in BOOLEAN

Group == {"fixture"} \cup Native

VARIABLES
  pc,          \* of fakeMode; "running" and "finishing" are its awaits
  cleaning,    \* of cleanup: "not", its steps, then "clean" or "failed"
  attempt,     \* rescans so far
  targets,     \* groups a scan found, until they are signalled
  failed, interrupted,
  exit,        \* "none" until the runner exits, then "zero" or "nonzero"
  queued,      \* a signal was sent and is not handled yet
  signals,     \* signals so far
  fixture,     \* leader of its group: "none", "running", "zombie", "reaped" or "unborn"
  result,      \* its exit code is zero
  members,     \* children alive in that group
  piped,       \* natives whose input the worker holds
  native,      \* life of each native app-server
  registry,    \* natives whose group is in the registry file
  received,    \* the last signal the fixture's group was sent
  container,   \* the database container exists
  state        \* directory: "kept", "erased", or "partly" erased

runner == <<pc, cleaning, attempt, targets, failed, interrupted, exit>>
world == <<fixture, result, members, piped, native, registry, received>>
vars == <<runner, queued, signals, world, container, state>>

Init ==
  /\ pc = "package" /\ cleaning = "not" /\ attempt = 0 /\ targets = {}
  /\ failed = FALSE /\ interrupted = FALSE /\ exit = "none"
  /\ queued = FALSE /\ signals = 0
  /\ fixture = "none" /\ result = FALSE /\ members = {} /\ piped = {}
  /\ native = [n \in Native |-> "none"] /\ registry = {}
  /\ received = "none"
  /\ container = FALSE /\ state = "kept"

-----------------------------------------------------------------------------
(* The fixture's group.  Its worker and mediator are replaced now and then; *)
(* a worker that ends closes its natives' input.                            *)

(* A fork with KILL pending does not happen. *)
StartChild(c) ==
  /\ fixture = "running" /\ received # "KILL"
  /\ c \notin members /\ members' = members \cup {c}
  /\ UNCHANGED <<fixture, result, piped>>

(* It ends by itself, or is stopped by the fixture, or of a signal. *)
ChildGone(c) ==
  /\ c \in members /\ members' = members \ {c}
  /\ piped' = IF c = "worker" THEN {} ELSE piped
  /\ UNCHANGED <<fixture, result>>

(* The leader, as well: the others stay in the group. *)
DieFixture ==
  /\ fixture = "running" /\ received # "none"
  /\ fixture' = "zombie" /\ result' = FALSE
  /\ UNCHANGED <<members, piped>>

FixtureEnds ==
  /\ fixture = "running" /\ fixture' = "zombie" /\ result' \in BOOLEAN
  /\ UNCHANGED <<members, piped>>

GroupDies == DieFixture \/ \E c \in Child : ChildGone(c)

FixtureStep ==
  /\ GroupDies \/ FixtureEnds \/ \E c \in Child : StartChild(c)
  /\ UNCHANGED <<runner, queued, signals, native, registry, received, container, state>>

-----------------------------------------------------------------------------
(* The natives.  One is "forked" into its own group, executes the fake      *)
(* app-server, registers its group, and is "asked" by a worker, which may   *)
(* have it "held", with a descendant that the leader may leave "orphaned".  *)

Live(n, from, to) == native[n] = from /\ native' = [native EXCEPT ![n] = to]
Gone(n, from) == Live(n, from, "gone") /\ piped' = piped \ {n}

Fork(n) ==
  /\ "worker" \in members /\ Live(n, "none", "forked")
  /\ piped' = piped \cup {n} /\ UNCHANGED registry

Exec(n) == Live(n, "forked", "started") /\ UNCHANGED <<piped, registry>>

(* Without the state directory there is no file to open. *)
Register(n) ==
  \/ /\ state # "erased" /\ Live(n, "started", "registered")
     /\ registry' = registry \cup {n} /\ UNCHANGED piped
  \/ state = "erased" /\ Gone(n, "started") /\ UNCHANGED registry

(* A request is in the pipe: it will be read though the worker dies.  It    *)
(* comes after the answer to the first, which only initializes.             *)
Ask(n) == n \in piped /\ Live(n, "registered", "asked") /\ UNCHANGED <<piped, registry>>

Serve(n) ==
  /\ Live(n, "asked", "registered") \/ Live(n, "asked", "held")
  /\ UNCHANGED <<piped, registry>>

(* Mutant: the fake app-server goes on reading. *)
EndOfInput_polls(n) == FALSE

EndOfInput(n) == n \notin piped /\ Gone(n, "registered") /\ UNCHANGED registry

(* Leader or descendant die of themselves, or of the worker or fixture. *)
Leave(n) ==
  /\ \/ native[n] \notin {"none", "gone"} /\ Gone(n, native[n])
     \/ Live(n, "held", "orphaned") /\ UNCHANGED piped
  /\ UNCHANGED registry

(* The fake app-server and its descendant have no say, or it ignores TERM. *)
NativeStep(n) ==
  /\ Fork(n) \/ Exec(n) \/ Register(n) \/ Ask(n) \/ Serve(n) \/ EndOfInput(n) \/ Leave(n)
  /\ UNCHANGED <<runner, queued, signals, fixture, result, members, received, container, state>>

-----------------------------------------------------------------------------
(* cleanup.                                                                *)

(* Mutant: the child's group is known by the child alone. *)
ownedGroups_of_leader ==
  (IF fixture \in {"running", "zombie"} THEN {"fixture"} ELSE {})
    \cup {n \in Native : native[n] \in {"started", "registered", "asked", "held"}}
    \cup {n \in registry : native[n] = "orphaned"}

(* The child's group, while it has a member; groups whose leader runs the   *)
(* fake app-server; groups in the registry that still have a member.        *)
ownedGroups ==
  (IF fixture \in {"running", "zombie"} \/ members # {} THEN {"fixture"} ELSE {})
    \cup {n \in Native : native[n] \in {"started", "registered", "asked", "held"}}
    \cup {n \in registry : native[n] = "orphaned"}

(* The groups are those of the scan before.  What a signal does to a native *)
(* is no more than may happen to it at any time.                            *)
SignalGroups(signal, groups) ==
  targets' = {} /\ received' = IF "fixture" \in groups THEN signal ELSE received

Cleans(from, to) == cleaning = from /\ cleaning' = to

FirstScan ==
  /\ Cleans("scan", "terminate") /\ targets' = ownedGroups
  /\ UNCHANGED <<attempt, received, container, state>>

Terminate ==
  /\ Cleans("terminate", "rescan") /\ SignalGroups("TERM", targets)
  /\ UNCHANGED <<attempt, container, state>>

(* Mutant: an off-by-one at the bound. *)
GivesUp_late == attempt > Attempts

GivesUp == attempt = Attempts

(* The loop ends at the first rescan that finds nothing, or at its bound;   *)
(* then one more scan decides.                                              *)
Rescan ==
  /\ \/ ~GivesUp /\ ownedGroups # {} /\ Cleans("rescan", "kill")
        /\ targets' = ownedGroups
     \/ (GivesUp \/ ownedGroups = {}) /\ Cleans("rescan", "verify")
        /\ UNCHANGED targets
  /\ UNCHANGED <<attempt, received, container, state>>

Kill ==
  /\ Cleans("kill", "sleep")
  /\ SignalGroups("KILL", IF attempt > 1 THEN targets ELSE {})
  /\ UNCHANGED <<attempt, container, state>>

Sleep ==
  /\ Cleans("sleep", "rescan") /\ attempt' = attempt + 1
  /\ UNCHANGED <<targets, received, container, state>>

Verify ==
  /\ \/ ownedGroups = {} /\ Cleans("verify", "join")
     \/ ownedGroups # {} /\ Cleans("verify", "stop_failed")
  /\ UNCHANGED <<attempt, targets, received, container, state>>

(* `await childEnded`, which rejects for a child that could not be started. *)
Join ==
  /\ \/ fixture \in {"none", "reaped"} /\ Cleans("join", "stop")
     \/ fixture = "unborn" /\ Cleans("join", "stop_failed")
  /\ UNCHANGED <<attempt, targets, received, container, state>>

(* ps fails, or the registry cannot be read or is not one.  What is caught  *)
(* leaves the processes as they are: cleanup goes on with the container.    *)
ScanFails ==
  /\ cleaning \in {"scan", "rescan", "verify"} /\ cleaning' = "stop_failed"
  /\ UNCHANGED <<attempt, targets, received, container, state>>

(* A group that may not be signalled; the ones after it are not. *)
SignalFails ==
  /\ cleaning = "terminate" \/ (cleaning = "kill" /\ attempt > 1)
  /\ cleaning' = "stop_failed"
  /\ \E groups \in SUBSET targets \ {targets} :
       SignalGroups(IF cleaning = "terminate" THEN "TERM" ELSE "KILL", groups)
  /\ UNCHANGED <<attempt, container, state>>

MayErase == ~(Candidate /\ failed)

(* podman stop and the check that the container is gone, if it was started. *)
Stop ==
  /\ cleaning \in {"stop", "stop_failed"}
  /\ \/ /\ container' = FALSE
        /\ cleaning' = IF cleaning = "stop_failed" THEN "failed" ELSE IF MayErase THEN "erase" ELSE "clean"
     \/ container /\ container' \in BOOLEAN /\ cleaning' = "failed"
  /\ UNCHANGED <<attempt, targets, received, state>>

(* rmSync may throw when something is erased already. *)
Erase ==
  /\ \/ Cleans("erase", "clean") /\ state' = "erased"
     \/ Cleans("erase", "failed") /\ state' = "partly"
  /\ UNCHANGED <<attempt, targets, received, container>>

Cleanup ==
  /\ \/ FirstScan \/ Terminate \/ Rescan \/ Kill \/ Sleep \/ Verify \/ Join \/ Stop \/ Erase
     \/ ScanFails \/ SignalFails
  /\ UNCHANGED <<pc, failed, interrupted, exit, queued, signals,
                 fixture, result, members, piped, native, registry>>

-----------------------------------------------------------------------------
(* fakeMode.                                                               *)

(* Where cleanup awaits, other callbacks run. *)
Awaiting == cleaning \in {"not", "sleep", "join", "clean", "failed"}

StartCleanup == cleaning' = IF cleaning = "not" THEN "scan" ELSE cleaning

Throw == failed' = TRUE /\ pc' = "finally"

(* Synchronous, each.  A container that could not be started is taken not   *)
(* to exist.                                                                *)
generatePackage == pc = "package" /\ pc' = "container" /\ UNCHANGED <<failed, container>>
StartContainer == pc = "container" /\ pc' = "database" /\ container' = TRUE /\ UNCHANGED failed
waitForPostgres == pc = "database" /\ pc' = "spawn" /\ UNCHANGED <<failed, container>>
PreparationFails == pc \in {"package", "container", "database"} /\ Throw /\ UNCHANGED container

Prepare ==
  /\ generatePackage \/ StartContainer \/ waitForPostgres \/ PreparationFails
  /\ UNCHANGED <<cleaning, attempt, targets, interrupted, exit, queued, signals, world, state>>

Spawn ==
  /\ pc = "spawn" /\ pc' = "running" /\ fixture' \in {"running", "unborn"}
  /\ UNCHANGED <<cleaning, attempt, targets, failed, interrupted, exit, queued, signals,
                 result, members, piped, native, registry, received, container, state>>

Reap ==
  /\ pc \in {"running", "finishing"} /\ Awaiting
  /\ fixture = "zombie" /\ fixture' = "reaped"
  /\ UNCHANGED <<runner, queued, signals, result, members, piped, native, registry, received, container, state>>

(* Mutant: what a child does once the runner is interrupted is nobody's     *)
(* business, and neither is its failure before.                             *)
Succeeded_once_started == fixture # "unborn"

Succeeded == fixture = "reaped" /\ (interrupted \/ result)

ChildEnded ==
  /\ pc = "running" /\ Awaiting /\ fixture \in {"reaped", "unborn"}
  /\ IF Succeeded THEN pc' = "finally" /\ UNCHANGED failed ELSE Throw
  /\ UNCHANGED <<cleaning, attempt, targets, interrupted, exit, queued, signals, world, container, state>>

Finally ==
  /\ pc = "finally" /\ pc' = "finishing" /\ StartCleanup
  /\ UNCHANGED <<attempt, targets, failed, interrupted, exit, queued, signals, world, container, state>>

(* Mutant: the handler leaves it to the child to end. *)
Interrupt_waits == cleaning' = cleaning

(* A second signal finds the same cleanup under way. *)
Interrupt == StartCleanup

Handle ==
  /\ queued /\ queued' = FALSE
  /\ pc \in {"running", "finishing"} /\ Awaiting
  /\ interrupted' = TRUE /\ failed' = (failed \/ Candidate)
  /\ Interrupt
  /\ UNCHANGED <<pc, attempt, targets, exit, signals, world, container, state>>

(* The exit code: of the error, else of the signal. *)
End ==
  /\ pc = "finishing" /\ cleaning \in {"clean", "failed"}
  /\ pc' = "ended"
  /\ exit' = IF failed \/ cleaning = "failed" \/ interrupted THEN "nonzero" ELSE "zero"
  /\ UNCHANGED <<cleaning, attempt, targets, failed, interrupted, queued, signals, world, container, state>>

Runner == Prepare \/ Spawn \/ ChildEnded \/ Finally \/ Handle \/ End \/ Cleanup

SendSignal ==
  /\ pc # "ended" /\ signals < MaxSignals /\ signals' = signals + 1
  /\ queued' = TRUE
  /\ UNCHANGED <<runner, world, container, state>>

Next == Runner \/ Reap \/ FixtureStep \/ (\E n \in Native : NativeStep(n)) \/ SendSignal

(* The runner's own steps and timers, its event loop, programs that run,    *)
(* and KILL; nothing says that the fixture ends or anything dies of TERM.   *)
Killed == received = "KILL" /\ GroupDies /\ FixtureStep
Proceeds(n) == (Exec(n) \/ Register(n) \/ EndOfInput(n)) /\ NativeStep(n)

Spec ==
  /\ Init /\ [][Next]_vars
  /\ WF_vars(Runner) /\ WF_vars(Reap)
  /\ WF_vars(Killed) /\ \A n \in Native : WF_vars(Proceeds(n))

-----------------------------------------------------------------------------
TypeOK ==
  /\ pc \in {"package", "container", "database", "spawn", "running", "finally", "finishing", "ended"}
  /\ cleaning \in {"not", "scan", "terminate", "rescan", "kill", "sleep", "verify", "join",
                   "stop", "stop_failed", "erase", "clean", "failed"}
  /\ attempt \in 0 .. Attempts /\ signals \in 0 .. MaxSignals
  /\ targets \subseteq Group
  /\ {failed, interrupted, queued, result, container} \subseteq BOOLEAN
  /\ exit \in {"none", "zero", "nonzero"}
  /\ fixture \in {"none", "running", "zombie", "reaped", "unborn"}
  /\ members \subseteq Child /\ piped \subseteq Native
  /\ native \in [Native -> {"none", "forked", "started", "registered", "asked", "held", "orphaned", "gone"}]
  /\ registry \subseteq Native
  /\ state \in {"kept", "partly", "erased"}
  /\ received \in {"none", "TERM", "KILL"}

(* The state is touched, and cleanup reported as done, only when all of the *)
(* fixture's group and the container are gone and no native has a request   *)
(* or a descendant alive, although workers outlive the fixture, requests    *)
(* their worker, descendants their native, and natives are started while    *)
(* the groups are being scanned ("waits for exit, checks container removal, *)
(* and only then removes its temporary state").                             *)
NothingSurvives ==
  cleaning = "clean" \/ state # "kept" =>
    /\ fixture \notin {"running", "zombie"} /\ members = {} /\ ~container
    /\ \A n \in Native : native[n] \notin {"asked", "held", "orphaned"}

(* A native that was in flight when the last scan found nothing ends too,   *)
(* even if it is in time to register in a directory being erased.           *)
NothingRemains ==
  \A n \in Native :
    ((cleaning = "clean" \/ state # "kept") /\ native[n] # "none") ~> (native[n] = "gone")

(* A zero exit code vouches for a fixture that passed and was cleaned up    *)
(* after; "errors retain state and fail the run".                           *)
FailureIsSeen ==
  /\ exit = "zero" => result /\ ~interrupted /\ cleaning = "clean"
  /\ exit # "none" /\ cleaning = "failed" => state # "erased" /\ exit = "nonzero"

(* A failure, and a signal once it is handled, end the run, however long    *)
(* the fixture would have gone on.  The exception is a cleanup that could   *)
(* not find or signal its processes: the runner then waits for the fixture. *)
RunEnds ==
  (failed \/ interrupted) ~> (pc = "ended" \/ [](cleaning = "failed" /\ fixture = "running"))
=============================================================================
