----------------------------- MODULE Submitter ------------------------------
(***************************************************************************)
(* What gyrfalcon_core::Submitter promises its caller: one call at a time  *)
(* is pending, it returns exactly one SubmitOutcome, and that outcome is   *)
(* an answer some send path gave or, when no path has answered, the expiry *)
(* of the call's timeout (crates/core/src/traits.rs, types.rs).            *)
(***************************************************************************)

VARIABLES
  phase,    \* of the submit() call
  answers,  \* what the paths answered so far
  expired,  \* the submit timeout has elapsed
  outcome   \* the value returned, "none" before

vars == <<phase, answers, expired, outcome>>

PathOutcome   == {"Landed", "Reverted", "TimedOut"}
SubmitOutcome == {"Landed", "Reverted", "NotIncluded"}

TypeOK ==
  /\ phase \in {"idle", "pending", "returned"}
  /\ answers \in SUBSET PathOutcome
  /\ expired \in BOOLEAN
  /\ outcome \in SubmitOutcome \cup {"none"}

Init ==
  /\ phase = "idle"
  /\ answers = {}
  /\ expired = FALSE
  /\ outcome = "none"

\* A path that timed out counts as not included; the others map to themselves.
ToSubmitOutcome(o) == IF o = "TimedOut" THEN "NotIncluded" ELSE o

Submit ==
  /\ phase = "idle"
  /\ phase' = "pending"
  /\ UNCHANGED <<answers, expired, outcome>>

Answer(o) ==
  /\ phase = "pending"
  /\ answers' = answers \cup {o}
  /\ UNCHANGED <<phase, expired, outcome>>

Expire ==
  /\ phase = "pending"
  /\ expired' = TRUE
  /\ UNCHANGED <<phase, answers, outcome>>

Return ==
  /\ phase = "pending"
  /\ phase' = "returned"
  /\ \/ \E o \in answers : outcome' = ToSubmitOutcome(o)
     \/ answers = {} /\ expired /\ outcome' = "NotIncluded"
  /\ UNCHANGED <<answers, expired>>

\* The caller takes the value; the next call starts afresh.
Take ==
  /\ phase = "returned"
  /\ phase' = "idle"
  /\ answers' = {}
  /\ expired' = FALSE
  /\ outcome' = "none"

Next ==
  \/ Submit
  \/ \E o \in PathOutcome : Answer(o)
  \/ Expire
  \/ Return
  \/ Take

Spec == Init /\ [][Next]_vars
=============================================================================
