---------------------------- MODULE RemoteBuild ----------------------------
(***************************************************************************)
(* scripts/build-remote.sh: clones the pinned components into a temporary   *)
(* context, checks it, and starts the platform from it.  Any command may    *)
(* fail.  The trap on INT and TERM removes the context and returns, so the  *)
(* script goes on with its next command, in a directory that is gone until  *)
(* a later clone creates it again.                                          *)
(***************************************************************************)
EXTENDS Naturals, Sequences

CONSTANTS
  CodexEnabled,  \* --codex
  ByCommit,      \* the components whose ref is a commit, not a release tag
  MaxSignals     \* bound on INT and TERM

ASSUME CodexAssumption == CodexEnabled \in BOOLEAN
ASSUME SignalsAssumption == MaxSignals \in Nat

Cloned == {"gateway", "memory", "agent", "ui"} \cup (IF CodexEnabled THEN {"codex"} ELSE {})
Part == {"platform", "image"} \cup Cloned

(* After the context was made: the commands, one after the other. *)
Commands ==
  IF CodexEnabled THEN <<"copy", "gateway", "memory", "agent", "ui", "codex", "verify", "image", "up">>
  ELSE <<"copy", "gateway", "memory", "agent", "ui", "verify", "up">>

ASSUME ByCommitAssumption == ByCommit \subseteq Cloned

VARIABLES
  done,     \* commands that have succeeded
  ended,    \* the script has exited
  context,  \* parts in the temporary context: "absent", "requested", "partial" or "other"
  exists,   \* the temporary context exists
  signals,  \* INT and TERM so far
  started   \* what the platform was started from; "nothing" before

vars == <<done, ended, context, exists, signals, started>>

Empty == [p \in Part |-> "absent"]
Nothing == [p \in Part |-> "nothing"]

(* Up to the mkdir; an earlier failure leaves nothing behind. *)
Init ==
  /\ done = 0 /\ ended = FALSE
  /\ context = Empty /\ exists = TRUE
  /\ signals = 0 /\ started = Nothing

AtCommand(command) == ~ended /\ done < Len(Commands) /\ Commands[done + 1] = command
Proceed == done' = done + 1 /\ UNCHANGED <<ended, signals>>
Removed == context' = Empty /\ exists' = FALSE

(* Mutant: only the signals are trapped. *)
Exit_untrapped == UNCHANGED <<context, exists>>

(* The trap on EXIT. *)
Exit == Removed

-----------------------------------------------------------------------------
(* Two tars in a pipeline, the second in the directory made before.  Only   *)
(* its status counts: a file the first cannot read, or that is gone when it *)
(* gets there, is left out and the script goes on.                          *)
Copy ==
  /\ AtCommand("copy") /\ exists
  /\ \E copied \in {"requested", "partial"} : context' = [context EXCEPT !["platform"] = copied]
  /\ Proceed /\ UNCHANGED <<exists, started>>

(* Mutant: the revision is printed and not compared. *)
Fetched_unchecked(c) == {"requested", "other"}

(* A commit is compared with what was fetched; a tag is what the remote     *)
(* says it is.                                                              *)
Fetched(c) == IF c \in ByCommit THEN {"requested"} ELSE {"requested", "other"}

(* git clone creates the directories that lead to its destination. *)
Clone(c) ==
  /\ AtCommand(c) /\ context[c] = "absent"
  /\ \E revision \in Fetched(c) : context' = [context EXCEPT ![c] = revision]
  /\ exists' = TRUE
  /\ Proceed /\ UNCHANGED started

(* The manifests of all components. *)
Verified == \A c \in Cloned : context[c] # "absent"

Verify == AtCommand("verify") /\ Verified /\ Proceed /\ UNCHANGED <<context, exists, started>>

(* podman build, its image ID written into the context, read and checked. *)
BuildImage ==
  /\ AtCommand("image") /\ context["codex"] # "absent"
  /\ context' = [context EXCEPT !["image"] = "requested"]
  /\ Proceed /\ UNCHANGED <<exists, started>>

(* podman-compose up, with the compose files of the context.  A partial     *)
(* copy that lacks them is one of the failures.                             *)
Up ==
  /\ AtCommand("up") /\ context["platform"] # "absent"
  /\ started' = context
  /\ Proceed /\ UNCHANGED <<context, exists>>

(* A command fails, or cannot succeed: set -e. *)
Fail ==
  /\ ~ended /\ ended' = TRUE
  /\ Exit
  /\ UNCHANGED <<done, signals, started>>

Finish ==
  /\ ~ended /\ done = Len(Commands) /\ ended' = TRUE
  /\ Exit
  /\ UNCHANGED <<done, signals, started>>

(* The trap runs once the command under way has ended. *)
Signal ==
  /\ ~ended /\ signals < MaxSignals /\ signals' = signals + 1
  /\ Removed
  /\ UNCHANGED <<done, ended, started>>

Next == Copy \/ (\E c \in Cloned : Clone(c)) \/ Verify \/ BuildImage \/ Up \/ Fail \/ Finish \/ Signal

Spec == Init /\ [][Next]_vars

-----------------------------------------------------------------------------
(* The platform is never started from a context that was emptied and filled *)
(* again in part: although a signal may empty it at any point and later     *)
(* clones create it again, every part is there, the platform's own files,   *)
(* copied first, among them, and every part with a commit is at that        *)
(* commit.  It does not say that the copy of its own files is whole: it may *)
(* be partial, unnoticed, although "every required source path exists       *)
(* before starting Compose".                                                *)
StartedFromParts ==
  started # Nothing => /\ \A p \in Part \ {"image"} : started[p] # "absent"
                       /\ \A c \in ByCommit : started[c] = "requested"

(* Once the script has ended nothing of the context is left, whatever was   *)
(* created after a signal had removed it.                                   *)
NothingLeft == ended => ~exists
=============================================================================
