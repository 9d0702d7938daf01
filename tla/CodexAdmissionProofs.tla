------------------------ MODULE CodexAdmissionProofs ------------------------
(***************************************************************************)
(* A UI is admitted only on readiness the worker earned less than five      *)
(* seconds ago, for any number of runs, kills and reads.  The inductive     *)
(* invariant follows one expiry on its way: computed, published, left       *)
(* behind, fetched; nowhere is it more than five seconds past the time the  *)
(* wrapper last computed one, because that time only grows.                 *)
(***************************************************************************)
EXTENDS CodexAdmission, TLAPS

Numbers ==
  /\ clock \in Nat /\ run \in Nat
  /\ {stamped, expires, file, snapshot} \subseteq Int

Bounded ==
  /\ -Lifetime <= stamped /\ stamped <= clock
  /\ expires <= stamped + Lifetime
  /\ file <= stamped + Lifetime
  /\ snapshot <= stamped + Lifetime

FreshInv == Numbers /\ Bounded /\ OwnReadinessOnly

LEMMA Constants == Second = 2 /\ Lifetime = 10
BY DEF Second, Lifetime

LEMMA Initially == Init => FreshInv
BY Constants DEF Init, FreshInv, Numbers, Bounded, OwnReadinessOnly

(* The end of a run leaves the file or removes it. *)
LEMMA Endings ==
  ASSUME FreshInv, End \/ Leave
  PROVE  FreshInv'
BY Constants DEF End, Leave, FreshInv, Numbers, Bounded, OwnReadinessOnly, ui

(* The expiry is in whole seconds, rounded down, five of them ahead. *)
LEMMA Stamping ==
  ASSUME FreshInv, Stamp
  PROVE  FreshInv'
<1>1. (clock \div 2) \in Nat /\ (clock \div 2) * 2 <= clock
  BY DEF FreshInv, Numbers
<1>2. expires' = (clock \div 2) * 2 + 10 /\ stamped' = clock
  BY <1>1, Constants DEF Stamp
<1>3. expires' \in Int /\ expires' <= stamped' + Lifetime
  BY <1>1, <1>2, Constants DEF FreshInv, Numbers
<1>4. UNCHANGED <<file, origin, run, clock, snapshot>> /\ stamped <= stamped'
  BY <1>2 DEF Stamp, ui, FreshInv, Bounded
<1>5. Numbers'
  BY <1>2, <1>3, <1>4 DEF FreshInv, Numbers
<1>6. Bounded'
  BY <1>2, <1>3, <1>4, Constants DEF FreshInv, Numbers, Bounded
<1>7. OwnReadinessOnly'
  BY <1>4 DEF Stamp, FreshInv, OwnReadinessOnly
<1> QED BY <1>5, <1>6, <1>7 DEF FreshInv

(* A command that only leads to the next one. *)
LEMMA GoingOn ==
  ASSUME FreshInv, NEW step, GoTo(step), pc \notin {"off", "remove"}
  PROVE  FreshInv'
BY DEF GoTo, FreshInv, Numbers, Bounded, OwnReadinessOnly, ui

LEMMA WrapperSteps ==
  ASSUME FreshInv, Wrapper
  PROVE  FreshInv'
<1>1. CASE RemoveFile
  BY <1>1, Constants DEF RemoveFile, FreshInv, Numbers, Bounded, OwnReadinessOnly, ui
<1>2. CASE Check
  BY <1>2, Endings, GoingOn DEF Check, Abort
<1>3. CASE Try
  BY <1>3, Endings, GoingOn DEF Try
<1>4. CASE Confirm
  BY <1>4, Endings, GoingOn DEF Confirm
<1>5. CASE Renew
  BY <1>5, Endings, GoingOn DEF Renew
<1>6. CASE Stamp
  BY <1>6, Stamping
<1>7. CASE Publish
  BY <1>7 DEF Publish, FreshInv, Numbers, Bounded, OwnReadinessOnly, ui
<1> QED BY <1>1, <1>2, <1>3, <1>4, <1>5, <1>6, <1>7 DEF Wrapper

LEMMA OtherSteps ==
  ASSUME FreshInv,
         Start \/ Terminate \/ Kill \/ WorkerListens \/ WorkerChanges \/ WorkerStops \/ Tick \/ Fetch \/ Decide
  PROVE  FreshInv'
<1> USE Constants DEF FreshInv, Numbers, Bounded, OwnReadinessOnly, ui
<1>1. CASE Start
  BY <1>1 DEF Start
<1>2. CASE End
  BY <1>2, Endings
<1>3. CASE Terminate
  BY <1>2, <1>3 DEF Terminate, Abort
<1>4. CASE WorkerListens \/ WorkerChanges \/ WorkerStops
  BY <1>4 DEF WorkerListens, WorkerChanges, WorkerStops
<1>5. CASE Tick
  BY <1>5 DEF Tick
<1>6. CASE Fetch
  BY <1>6 DEF Fetch
<1>7. CASE Decide
  BY <1>7 DEF Decide
<1> QED BY <1>1, <1>2, <1>3, <1>4, <1>5, <1>6, <1>7 DEF Kill

LEMMA Inductive == FreshInv /\ [Next]_vars => FreshInv'
<1> SUFFICES ASSUME FreshInv, [Next]_vars PROVE FreshInv'
  OBVIOUS
<1>1. CASE UNCHANGED vars
  BY <1>1 DEF vars, ui, FreshInv, Numbers, Bounded, OwnReadinessOnly
<1>2. CASE Next
  BY <1>2, WrapperSteps, OtherSteps DEF Next
<1> QED BY <1>1, <1>2

LEMMA Invariance == Spec => []FreshInv
BY Initially, Inductive, PTL DEF Spec

(* A run never shows the readiness of an earlier one, killed or not. *)
THEOREM ReadinessIsOwn == Spec => []OwnReadinessOnly
<1>1. FreshInv => OwnReadinessOnly
  BY DEF FreshInv
<1> QED BY <1>1, Invariance, PTL

(* Only `Decide` ends a fetch, and it admits only on an expiry ahead. *)
LEMMA Admitting ==
  ASSUME FreshInv, [Next]_vars, snapshot # -1, admitted', snapshot' = -1
  PROVE  clock < stamped + Lifetime
<1>1. snapshot' # snapshot
  OBVIOUS
<1>2. ~UNCHANGED vars
  BY <1>1 DEF vars, ui
<1>3. Decide
  BY <1>1, <1>2 DEF Next, Start, Wrapper, RemoveFile, Check, Try, Confirm, Renew, Stamp, Publish, Terminate, Kill,
     WorkerListens, WorkerChanges, WorkerStops, Tick, Fetch, GoTo, Abort, End, Leave, ui
<1>4. Accepts(snapshot)
  BY <1>3 DEF Decide
<1> QED BY <1>4, Constants DEF Accepts, FreshInv, Numbers, Bounded

(* However long the response was under way and whatever became of the       *)
(* wrapper meanwhile, a UI admits only within five seconds of the time at   *)
(* which the wrapper last vouched for the worker.                           *)
THEOREM FreshAdmission == Spec => AdmitsOnlyFresh
<1>1. FreshInv /\ [Next]_vars => [snapshot # -1 /\ admitted' /\ snapshot' = -1 => clock < stamped + Lifetime]_vars
  BY Admitting
<1> QED BY <1>1, Invariance, PTL DEF Spec, AdmitsOnlyFresh

-----------------------------------------------------------------------------
(* The type invariant is inductive by itself: no clock, run or expiry       *)
(* leaves the bounds that `Tick`, `Start` and `Stamp` observe.              *)

Flags == {stopping, killed, admitted} \subseteq BOOLEAN

Places ==
  /\ pc \in {"off", "remove", "check", "spawn", "try", "confirm", "renew", "stamp", "publish"}
  /\ worker \in Responses \cup {"none"}

Ranges ==
  /\ {expires, file} \subseteq 0 .. MaxClock + Lifetime
  /\ {origin, run} \subseteq 0 .. MaxRuns
  /\ clock \in 0 .. MaxClock
  /\ stamped \in -Lifetime .. MaxClock
  /\ snapshot \in -1 .. MaxClock + Lifetime

LEMMA Sizes == MaxClock \in Nat /\ MaxRuns \in Nat
BY BoundsAssumption

LEMMA Parts == TypeOK <=> Places /\ Flags /\ Ranges
BY DEF TypeOK, Places, Flags, Ranges

LEMMA FlagsKept ==
  ASSUME Flags, [Next]_vars
  PROVE  Flags'
<1> USE DEF Flags, ui
<1>1. CASE UNCHANGED vars
  BY <1>1 DEF vars
<1>2. CASE Wrapper
  BY <1>2 DEF Wrapper, RemoveFile, Check, Try, Confirm, Renew, Stamp, Publish, GoTo, Abort, End, Leave
<1>3. CASE Start \/ Terminate \/ Kill
  BY <1>3 DEF Start, Terminate, Kill, Abort, End
<1>4. CASE WorkerListens \/ WorkerChanges \/ WorkerStops \/ Tick \/ Fetch \/ Decide
  BY <1>4 DEF WorkerListens, WorkerChanges, WorkerStops, Tick, Fetch, Decide, Accepts
<1> QED BY <1>1, <1>2, <1>3, <1>4 DEF Next

LEMMA PlacesKept ==
  ASSUME Places, [Next]_vars
  PROVE  Places'
<1> USE DEF Places, Responses, ui
<1>1. CASE UNCHANGED vars
  BY <1>1 DEF vars
<1>2. CASE Wrapper
  BY <1>2 DEF Wrapper, RemoveFile, Check, Try, Confirm, Renew, Stamp, Publish, GoTo, Abort, End, Leave
<1>3. CASE Start \/ Terminate \/ Kill
  BY <1>3 DEF Start, Terminate, Kill, Abort, End
<1>4. CASE WorkerListens \/ WorkerChanges \/ WorkerStops \/ Tick \/ Fetch \/ Decide
  BY <1>4 DEF WorkerListens, WorkerChanges, WorkerStops, Tick, Fetch, Decide
<1> QED BY <1>1, <1>2, <1>3, <1>4 DEF Next

(* Rounding down keeps the expiry within a lifetime of the clock. *)
LEMMA StampRanges ==
  ASSUME Ranges, Stamp
  PROVE  Ranges'
<1> USE Sizes, Constants
<1>1. clock \in Nat /\ clock <= MaxClock
  BY DEF Ranges
<1>2. (clock \div 2) \in Nat /\ (clock \div 2) * 2 <= clock
  BY <1>1
<1>3. expires' = (clock \div 2) * 2 + 10 /\ stamped' = clock
  BY <1>2 DEF Stamp
<1>4. expires' \in 0 .. MaxClock + Lifetime /\ stamped' \in -Lifetime .. MaxClock
  BY <1>1, <1>2, <1>3
<1>5. UNCHANGED <<file, origin, run, clock, snapshot>>
  BY DEF Stamp, ui
<1> QED BY <1>4, <1>5 DEF Ranges

LEMMA RangesKept ==
  ASSUME Ranges, [Next]_vars
  PROVE  Ranges'
<1> USE Sizes, Constants DEF Ranges, ui
<1>1. CASE UNCHANGED vars
  BY <1>1 DEF vars
<1>2. CASE Wrapper
  <2>1. CASE Stamp
    BY <2>1, StampRanges
  <2>2. CASE RemoveFile \/ Publish
    BY <2>2 DEF RemoveFile, Publish
  <2> QED BY <1>2, <2>1, <2>2 DEF Wrapper, Check, Try, Confirm, Renew, GoTo, Abort, End, Leave
<1>3. CASE Start \/ Terminate \/ Kill
  BY <1>3 DEF Start, Terminate, Kill, Abort, End
<1>4. CASE WorkerListens \/ WorkerChanges \/ WorkerStops
  BY <1>4 DEF WorkerListens, WorkerChanges, WorkerStops
<1>5. CASE Tick
  BY <1>5 DEF Tick
<1>6. CASE Fetch
  BY <1>6 DEF Fetch
<1>7. CASE Decide
  BY <1>7 DEF Decide
<1> QED BY <1>1, <1>2, <1>3, <1>4, <1>5, <1>6, <1>7 DEF Next

(* Every variable keeps its range for every number of runs and every length *)
(* of the clock: in particular no expiry is more than a lifetime past the   *)
(* end of the clock, whatever the rounding of `date +%s`.                   *)
THEOREM AdmissionTyped == Spec => []TypeOK
<1>1. Init => Places /\ Flags /\ Ranges
  <2>1. Init => Places
    BY DEF Init, Places, Responses
  <2>2. Init => Flags
    BY DEF Init, Flags
  <2>3. Init => Ranges
    BY Sizes, Constants DEF Init, Ranges
  <2> QED BY <2>1, <2>2, <2>3
<1>2. Places /\ Flags /\ Ranges /\ [Next]_vars => (Places /\ Flags /\ Ranges)'
  BY FlagsKept, PlacesKept, RangesKept
<1>3. Places /\ Flags /\ Ranges => TypeOK
  BY Parts
<1> QED BY <1>1, <1>2, <1>3, PTL DEF Spec
=============================================================================
