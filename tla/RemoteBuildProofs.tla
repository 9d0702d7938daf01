------------------------- MODULE RemoteBuildProofs -------------------------
(***************************************************************************)
(* For any number of signals the platform starts only from a context with   *)
(* every part.  What is needed is not that the context keeps its parts,     *)
(* which it does not, but that a context with files of the platform in it,  *)
(* all of them or some, has not been emptied since: those come first, and   *)
(* never twice.                                                             *)
(***************************************************************************)
EXTENDS RemoteBuild, TLAPS

(* All that matters of the order.                                          *)
LEMMA Order ==
  /\ Len(Commands) \in Nat
  /\ Len(Commands) > 1
  /\ Commands[1] = "copy"
  /\ \A i \in 1 .. Len(Commands) : /\ Commands[i] = "copy" => i = 1
                                   /\ Commands[i] = "up" => i = Len(Commands)
BY CodexAssumption DEF Commands

LEMMA ClonedBeforeUp ==
  ASSUME NEW c \in Cloned
  PROVE  \E i \in 1 .. Len(Commands) - 1 : Commands[i] = c
BY CodexAssumption DEF Commands, Cloned

Whole == \A i \in 1 .. done : Commands[i] \in Cloned => context[Commands[i]] # "absent"

BuildInv ==
  /\ done \in 0 .. Len(Commands)
  /\ context \in [Part -> {"absent", "requested", "partial", "other"}]
  /\ \A c \in ByCommit : context[c] \in {"absent", "requested"}
  /\ context["platform"] # "absent" => Whole
  /\ StartedFromParts
  /\ NothingLeft

LEMMA BuildInitially == Init => BuildInv
BY Order, ByCommitAssumption DEF Init, BuildInv, Whole, StartedFromParts, NothingLeft, Empty, Part, Cloned

LEMMA CopyStep ==
  ASSUME BuildInv, Copy
  PROVE  BuildInv'
<1>1. done = 0 /\ done' = 1 /\ UNCHANGED <<ended, exists, started>>
  BY Order DEF Copy, AtCommand, Proceed, BuildInv
<1>2. "copy" \notin Cloned /\ \E copied \in {"requested", "partial"} : context' = [context EXCEPT !["platform"] = copied]
  BY DEF Copy, Cloned
<1>3. /\ context' \in [Part -> {"absent", "requested", "partial", "other"}]
      /\ \A c \in ByCommit : context'[c] \in {"absent", "requested"}
  BY <1>2, ByCommitAssumption DEF BuildInv, Part, Cloned
<1>4. Whole'
  BY <1>1, <1>2, Order DEF Whole
<1> QED BY <1>1, <1>3, <1>4, Order DEF BuildInv, StartedFromParts, NothingLeft

(* The other commands that fill the context. *)
LEMMA FillStep ==
  ASSUME BuildInv, NEW c \in Cloned \cup {"image"}, NEW revision \in {"requested", "other"},
         c \in ByCommit => revision = "requested",
         AtCommand(c), context' = [context EXCEPT ![c] = revision], Proceed, UNCHANGED started
  PROVE  BuildInv'
<1>1. /\ ~ended /\ done \in Nat /\ done < Len(Commands) /\ Commands[done + 1] = c
      /\ done' = done + 1 /\ UNCHANGED <<ended, started>>
  BY Order DEF AtCommand, Proceed, BuildInv
<1>2. c \in Part /\ c # "platform"
  BY DEF Part, Cloned
<1>3. /\ context' \in [Part -> {"absent", "requested", "partial", "other"}]
      /\ \A d \in Part : context'[d] = IF d = c THEN revision ELSE context[d]
  BY <1>2 DEF BuildInv
<1>4. \A d \in ByCommit : context'[d] \in {"absent", "requested"}
  BY <1>3, ByCommitAssumption DEF BuildInv, Part
<1>5. context'["platform"] # "absent" => Whole'
  <2> SUFFICES ASSUME context'["platform"] # "absent", NEW i \in 1 .. done', Commands[i] \in Cloned
               PROVE  context'[Commands[i]] # "absent"
    BY DEF Whole
  <2>1. Whole /\ Commands[i] \in Part
    BY <1>2, <1>3 DEF BuildInv, Part
  <2> QED BY <1>1, <1>3, <2>1 DEF Whole
<1> QED BY <1>1, <1>3, <1>4, <1>5, Order DEF BuildInv, StartedFromParts, NothingLeft

(* What is there when the last command starts the platform. *)
LEMMA UpStep ==
  ASSUME BuildInv, Up
  PROVE  BuildInv'
<1>1. done + 1 = Len(Commands) /\ done' = Len(Commands) /\ started' = context /\ UNCHANGED <<ended, context, exists>>
  BY Order DEF Up, AtCommand, Proceed, BuildInv
<1>2. Whole /\ context["platform"] # "absent"
  BY DEF Up, BuildInv
<1>3. \A c \in Cloned : context[c] # "absent"
  BY <1>1, <1>2, Order, ClonedBeforeUp DEF Whole, BuildInv
<1>4. StartedFromParts'
  <2>1. \A p \in Part \ {"image"} : context[p] # "absent"
    BY <1>2, <1>3 DEF Part
  <2>2. \A c \in ByCommit : context[c] = "requested"
    BY <1>3, ByCommitAssumption DEF BuildInv, Part
  <2> QED BY <1>1, <2>1, <2>2 DEF StartedFromParts
<1>5. Whole'
  <2>1. Commands[done + 1] \notin Cloned
    BY DEF Up, AtCommand, Cloned
  <2> QED BY <1>1, <1>2, <2>1, Order DEF Whole, BuildInv
<1> QED BY <1>1, <1>4, <1>5, Order DEF BuildInv, NothingLeft

(* The traps. *)
LEMMA RemovalStep ==
  ASSUME BuildInv, Removed, UNCHANGED <<done, started>>
  PROVE  BuildInv'
<1>1. context' = [p \in Part |-> "absent"] /\ ~exists'
  BY DEF Removed, Empty
<1>2. "platform" \in Part /\ ByCommit \subseteq Part
  BY ByCommitAssumption DEF Part
<1> QED BY <1>1, <1>2 DEF BuildInv, StartedFromParts, NothingLeft

LEMMA BuildInductive == BuildInv /\ [Next]_vars => BuildInv'
<1> SUFFICES ASSUME BuildInv, [Next]_vars PROVE BuildInv'
  OBVIOUS
<1>1. CASE Copy
  BY <1>1, CopyStep
<1>2. ASSUME NEW c \in Cloned, Clone(c) PROVE BuildInv'
  BY <1>2, FillStep DEF Clone, Fetched
<1>3. CASE Verify
  <2>1. /\ done \in Nat /\ done < Len(Commands) /\ done' = done + 1 /\ Commands[done + 1] \notin Cloned
        /\ UNCHANGED <<ended, context, exists, started>>
    BY <1>3, Order DEF Verify, AtCommand, Proceed, BuildInv, Cloned
  <2>2. Whole => Whole'
    BY <2>1 DEF Whole
  <2> QED BY <2>1, <2>2, Order DEF BuildInv, StartedFromParts, NothingLeft
<1>4. CASE BuildImage
  <2>1. "image" \notin ByCommit
    BY ByCommitAssumption DEF Cloned
  <2> QED BY <1>4, <2>1, FillStep DEF BuildImage
<1>5. CASE Up
  BY <1>5, UpStep
<1>6. CASE Fail \/ Finish \/ Signal
  BY <1>6, RemovalStep DEF Fail, Finish, Signal, Exit
<1>7. CASE UNCHANGED vars
  BY <1>7 DEF vars, BuildInv, Whole, StartedFromParts, NothingLeft
<1> QED BY <1>1, <1>2, <1>3, <1>4, <1>5, <1>6, <1>7 DEF Next

LEMMA BuildInvariance == Spec => []BuildInv
BY BuildInitially, BuildInductive, PTL DEF Spec

(* Whatever the signals and the moments they come at, the platform starts   *)
(* from every part, and every part with a commit is at that commit.         *)
THEOREM StartsFromParts == Spec => []StartedFromParts
<1>1. BuildInv => StartedFromParts
  BY DEF BuildInv
<1> QED BY <1>1, BuildInvariance, PTL

(* A script that has ended leaves no context. *)
THEOREM LeavesNothing == Spec => []NothingLeft
<1>1. BuildInv => NothingLeft
  BY DEF BuildInv
<1> QED BY <1>1, BuildInvariance, PTL
=============================================================================
