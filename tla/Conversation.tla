---------------------------- MODULE Conversation ----------------------------
(***************************************************************************)
(* scripts/smoke-codex-conversation.mjs: its arguments choose between the   *)
(* live verification of LiveVerification and the synthetic fixture, which   *)
(* verifies its pinned sources and that its ports are free before it        *)
(* creates the state that FixtureCleanup is about.  Other arguments are     *)
(* refused.                                                                 *)
(***************************************************************************)
EXTENDS FixtureCleanup

CONSTANT MaxRestarts   \* of LiveVerification

ASSUME RestartsAssumption == MaxRestarts \in Nat \ {0}

VARIABLES
  mode,   \* "live"; or "pins", "ports" and "fake"; "over" if it ended before
  packet, step, done, fd, file, gate, checks, before, verdict, conversation,
  starts, began, turns, contacted   \* of LiveVerification

Verification == INSTANCE LiveVerification

livevars == <<packet, step, done, fd, file, gate, checks, before, verdict, conversation,
              starts, began, turns, contacted>>
allvars == <<mode, vars, livevars>>

(* With --fake nothing reads a packet. *)
ConversationInit ==
  /\ mode \in {"live", "pins"}
  /\ Init /\ Verification!Init
  /\ mode = "pins" => packet = [acceptable |-> FALSE, alternate |-> FALSE, probes |-> FALSE]

(* A source that is not at its revision, not clean or not what its lock     *)
(* says, or a port in use, ends the run; so does a signal, for which there  *)
(* is no handler yet.                                                       *)
sourcePins == mode = "pins" /\ mode' \in {"ports", "over"}
availablePorts == mode = "ports" /\ mode' \in {"fake", "over"}
Prologue == (sourcePins \/ availablePorts) /\ UNCHANGED <<vars, livevars>>

Fake(A) == mode = "fake" /\ A /\ UNCHANGED <<mode, livevars>>

LiveStep == mode = "live" /\ Verification!Next /\ UNCHANGED <<mode, vars>>

ConversationNext == Prologue \/ Fake(Next) \/ LiveStep

(* As in FixtureCleanup; the live mode waits for its operator. *)
ConversationSpec ==
  /\ ConversationInit /\ [][ConversationNext]_allvars
  /\ WF_allvars(Fake(Runner)) /\ WF_allvars(Fake(Reap))
  /\ WF_allvars(Fake(Killed)) /\ \A n \in Native : WF_allvars(Fake(Proceeds(n)))

-----------------------------------------------------------------------------
AllTypeOK == mode \in {"live", "pins", "ports", "fake", "over"} /\ TypeOK /\ Verification!TypeOK

(* LiveVerification. *)
PassedMeansShown == Verification!PassedMeansShown

(* LiveVerification. *)
EvidenceKept == Verification!EvidenceKept
=============================================================================
