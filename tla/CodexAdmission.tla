--------------------------- MODULE CodexAdmission ---------------------------
(***************************************************************************)
(* scripts/codex-start.sh, the worker's wrapper, and ui/codex-admission.js, *)
(* the reader of the file it publishes.  The wrapper starts the worker,     *)
(* waits for its card, and then renews a file that admits the agent for at  *)
(* most five seconds; a UI that boots reads the file through the web server *)
(* and decides by its clock.  The file outlives an abrupt end of the        *)
(* wrapper: only its expiry stops it from admitting.                        *)
(*                                                                         *)
(* Time is counted in half seconds; `date +%s` yields whole seconds.        *)
(***************************************************************************)
EXTENDS Integers

CONSTANTS
  MaxClock,     \* bound on the clock
  MaxRuns,      \* bound on how often the wrapper is started
  Disturbances  \* what may go wrong: "fail" (checks and worker), "stop", "kill"

ASSUME BoundsAssumption == {MaxClock, MaxRuns} \subseteq Nat \ {0}
ASSUME DisturbancesAssumption == Disturbances \subseteq {"fail", "stop", "kill"}

Second == 2
Lifetime == 5 * Second

VARIABLES
  pc,        \* what the wrapper does next; "off" when its container does not run
  worker,    \* how port 9091 responds; "none" when there is no worker process
  stopping,  \* TERM has been handled by the wrapper in this run
  expires,   \* expires_ms, computed for the next file
  file,      \* expiry in admission.json; 0 if there is no file
  origin,    \* the run of the wrapper that published the file
  run,       \* the wrapper's runs so far
  killed,    \* the last run was ended from outside; for the properties only
  clock,     \* the host's clock
  stamped,   \* when the wrapper last computed an expiry; for the properties only
  snapshot,  \* what the fetch of a booting UI brought: an expiry or 0; -1 while idle
  admitted   \* the UI's last decision

ui == <<snapshot, admitted>>
vars == <<pc, worker, stopping, expires, file, origin, run, killed, clock, stamped, snapshot, admitted>>

Responses == {"refuses", "silent", "denies", "answers"}
Alive == worker \in Responses

Init ==
  /\ pc = "off" /\ worker = "none" /\ stopping = FALSE
  /\ expires = 0 /\ file = 0 /\ origin = 0 /\ run = 0 /\ killed = FALSE
  /\ clock = 0 /\ stamped = -Lifetime
  /\ snapshot = -1 /\ admitted = FALSE

GoTo(step) ==
  /\ pc' = step
  /\ UNCHANGED <<worker, stopping, expires, file, origin, run, killed, clock, stamped, ui>>

(* The container ends; the file stays as it is. *)
End ==
  /\ pc' = "off" /\ worker' = "none" /\ stopping' = FALSE /\ expires' = 0
  /\ UNCHANGED <<file, origin, run, clock, stamped, ui>>

Abort == End /\ UNCHANGED killed

(* Mutant: there is no trap on EXIT, only those on TERM and INT. *)
Leave_untrapped == Abort

(* Exit with the trap set: `cleanup` removes the file and ends the worker. *)
Leave ==
  /\ pc' = "off" /\ worker' = "none" /\ stopping' = FALSE /\ expires' = 0
  /\ file' = 0
  /\ UNCHANGED <<origin, run, killed, clock, stamped, ui>>

-----------------------------------------------------------------------------
(* The wrapper.                                                            *)

Start ==
  /\ pc = "off" /\ run < MaxRuns
  /\ pc' = "remove" /\ run' = run + 1 /\ killed' = FALSE
  /\ UNCHANGED <<worker, stopping, expires, file, origin, clock, stamped, ui>>

(* Mutant: readiness of an earlier run is not removed. *)
RemoveFile_not ==
  \/ pc = "remove" /\ GoTo("check")
  \/ /\ pc = "spawn" /\ pc' = "try" /\ worker' = "refuses"
     /\ UNCHANGED <<stopping, expires, file, origin, run, killed, clock, stamped, ui>>

(* rm -f before the checks, and again before the worker is started. *)
RemoveFile ==
  /\ file' = 0
  /\ \/ pc = "remove" /\ pc' = "check" /\ UNCHANGED worker
     \/ pc = "spawn" /\ pc' = "try" /\ worker' = "refuses"
  /\ UNCHANGED <<stopping, expires, origin, run, killed, clock, stamped, ui>>

(* Image, directories, secrets, package: any failure ends the run. *)
Check ==
  /\ pc = "check"
  /\ GoTo("spawn") \/ ("fail" \in Disturbances /\ Abort)

(* A round of the startup loop.  `health` is an `if` condition there, where *)
(* errexit does not apply: a response other than 200 does not make it fail, *)
(* and after a refused connection `response` is unset, which `set -u` makes *)
(* fatal for the whole script.  Nothing makes it fail and the loop go on.   *)
Try ==
  /\ pc = "try"
  /\ \/ (~Alive \/ worker = "refuses") /\ Leave
     \/ worker \in {"denies", "answers"} /\ GoTo("confirm")

(* `health` again, as a plain command: anything but a 200 ends the run.     *)
Confirm ==
  /\ pc = "confirm"
  /\ \/ worker \in {"none", "refuses", "denies"} /\ Leave
     \/ worker = "answers" /\ GoTo("renew")

(* The head of the renewal loop and `timeout 2` of the health check.        *)
Renew ==
  /\ pc = "renew"
  /\ IF worker = "answers" THEN GoTo("stamp") ELSE Leave

(* Mutant: the renewal admits for a minute. *)
Stamp_minute ==
  /\ pc = "stamp"
  /\ expires' = ((clock \div Second) + 60) * Second
  /\ stamped' = clock
  /\ pc' = "publish"
  /\ UNCHANGED <<worker, stopping, file, origin, run, killed, clock, ui>>

(* $(date +%s) + 5. *)
Stamp ==
  /\ pc = "stamp"
  /\ expires' = ((clock \div Second) + 5) * Second
  /\ stamped' = clock
  /\ pc' = "publish"
  /\ UNCHANGED <<worker, stopping, file, origin, run, killed, clock, ui>>

(* The temporary file is complete before it is moved; then `sleep 1`. *)
Publish ==
  /\ pc = "publish"
  /\ file' = expires /\ origin' = run
  /\ pc' = "renew"
  /\ UNCHANGED <<worker, stopping, expires, run, killed, clock, stamped, ui>>

Wrapper == RemoveFile \/ Check \/ Try \/ Confirm \/ Renew \/ Stamp \/ Publish

Trapped == pc \in {"try", "confirm", "renew", "stamp", "publish"}

(* TERM or INT: `cleanup` runs between two commands, and the script goes on. *)
Terminate ==
  /\ "stop" \in Disturbances
  /\ \/ /\ Trapped
        /\ file' = 0 /\ stopping' = TRUE
        /\ UNCHANGED <<pc, worker, expires, origin, run, killed, clock, stamped, ui>>
     \/ pc \in {"remove", "check", "spawn"} /\ Abort

(* SIGKILL, or the end of the namespace's owner. *)
Kill == "kill" \in Disturbances /\ pc # "off" /\ End /\ killed' = TRUE

-----------------------------------------------------------------------------
(* The worker, the clock and the UI.                                       *)

WorkerListens ==
  /\ worker = "refuses" /\ worker' = "answers"
  /\ UNCHANGED <<pc, stopping, expires, file, origin, run, killed, clock, stamped, ui>>

WorkerChanges ==
  /\ "fail" \in Disturbances
  /\ Alive
  /\ worker' \in (Responses \ {"refuses"}) \cup {"none"}
  /\ UNCHANGED <<pc, stopping, expires, file, origin, run, killed, clock, stamped, ui>>

(* The signal `cleanup` sent takes effect. *)
WorkerStops ==
  /\ stopping /\ Alive /\ worker' = "none"
  /\ UNCHANGED <<pc, stopping, expires, file, origin, run, killed, clock, stamped, ui>>

Tick ==
  /\ clock < MaxClock /\ clock' = clock + 1
  /\ UNCHANGED <<pc, worker, stopping, expires, file, origin, run, killed, stamped, ui>>

Fetch ==
  /\ snapshot = -1 /\ snapshot' = file
  /\ UNCHANGED <<pc, worker, stopping, expires, file, origin, run, killed, clock, stamped, admitted>>

(* Mutant: an expired file is accepted. *)
Accepts_expired(expiry) == expiry # 0 /\ expiry - clock <= Lifetime

(* remaining <= 0 || remaining > 5000. *)
Accepts(expiry) == expiry - clock > 0 /\ expiry - clock <= Lifetime

(* The response is judged whenever it is complete; the fetch may time out. *)
Decide ==
  /\ snapshot # -1
  /\ admitted' \in {Accepts(snapshot), FALSE}
  /\ snapshot' = -1
  /\ UNCHANGED <<pc, worker, stopping, expires, file, origin, run, killed, clock, stamped>>

Next ==
  \/ Start \/ Wrapper \/ Terminate \/ Kill
  \/ WorkerListens \/ WorkerChanges \/ WorkerStops \/ Tick \/ Fetch \/ Decide

Spec ==
  /\ Init /\ [][Next]_vars
  /\ WF_vars(Start) /\ WF_vars(Wrapper) /\ WF_vars(WorkerListens) /\ WF_vars(WorkerStops)

-----------------------------------------------------------------------------
TypeOK ==
  /\ pc \in {"off", "remove", "check", "spawn", "try", "confirm", "renew", "stamp", "publish"}
  /\ worker \in Responses \cup {"none"}
  /\ {stopping, killed, admitted} \subseteq BOOLEAN
  /\ {expires, file} \subseteq 0 .. MaxClock + Lifetime
  /\ {origin, run} \subseteq 0 .. MaxRuns
  /\ clock \in 0 .. MaxClock
  /\ stamped \in -Lifetime .. MaxClock
  /\ snapshot \in -1 .. MaxClock + Lifetime

(* A UI never admits on the word of a wrapper that has not, within the last *)
(* five seconds, seen the worker answer: whatever was killed, restarted or  *)
(* left on disk, and however long the response was under way ("it ceases to *)
(* enable admission within five seconds").                                  *)
AdmitsOnlyFresh == [][snapshot # -1 /\ admitted' /\ snapshot' = -1 => clock < stamped + Lifetime]_vars

(* Past its first command, a run shows no readiness but its own ("Startup   *)
(* removes it before checks, so failed restarts do not refresh old          *)
(* readiness").                                                             *)
OwnReadinessOnly == pc \notin {"off", "remove"} /\ file # 0 => origin = run

(* A wrapper that was told to stop ends, and leaves no file, although it    *)
(* may renew the file once more after the trap removed it - unless it is    *)
(* killed before it comes to that.                                          *)
StopLeavesNothing == stopping ~> (pc = "off" /\ (file = 0 \/ killed))

(* "After package/state checks and authenticated worker-card health, the    *)
(* worker publishes the closed non-secret UI declaration."  With nothing    *)
(* going wrong, readiness is published.                                     *)
ReadinessPublished == <>(file # 0)
=============================================================================
