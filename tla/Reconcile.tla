------------------------------ MODULE Reconcile ------------------------------
(***************************************************************************)
(* The vocabulary of internal/reconcile: durable intents, the receipts and *)
(* observations attached to them, and the verdict Evaluate draws from an   *)
(* observation.  A request error is never a proof of failure, and absence  *)
(* of data is never a proof of absence.                                    *)
(*                                                                         *)
(* Data abstraction: an observation carries whether its identity equals    *)
(* the intent's (sameIdentity) and whether its timestamp lies in the       *)
(* accepted window: not zero, not before the intent, at most a second in   *)
(* the future and at most a minute old (timely).                           *)
(***************************************************************************)
EXTENDS Integers, Sequences

Unknown        == "UNKNOWN"
RequiresReview == "requires_review"
Succeeded      == "succeeded"
Failed         == "failed"

Actions  == {"command", "create", "delete"}
Outcomes == {Unknown, RequiresReview, Succeeded, Failed}

\* Evidence.Source/State collapsed to what CommandReceipt tells apart.
Evidence == {"none", "observed", "acknowledged", "rejected"}

Intent == [action : Actions, outcome : Outcomes, evidence : Evidence]

NewIntent(a) == [action |-> a, outcome |-> Unknown, evidence |-> "none"]

Observation == [state        : {"exists", "absent", "unknown"},
                sameIdentity : BOOLEAN,
                timely       : BOOLEAN]

\* The state that proves an intent of the given action.
DesiredState(a) == IF a = "create" THEN "exists"
                   ELSE IF a = "delete" THEN "absent" ELSE "never"

\* Evaluate(i, o, now) for an intent written by a compatible binary; the
\* caller overrides the verdict of an incompatible one.
Evaluate(i, o, compatible) ==
    IF ~compatible THEN RequiresReview
    ELSE IF o.state = "unknown" \/ ~o.timely THEN Unknown
    ELSE IF o.sameIdentity /\ o.state = DesiredState(i.action) THEN Succeeded
    ELSE RequiresReview

\* A receipt says that a command returned, not that infrastructure converged.
CommandReceipt(i) ==
    /\ i.action = "command"
    /\ \/ i.evidence = "acknowledged" /\ i.outcome = Succeeded
       \/ i.evidence = "rejected"     /\ i.outcome = Failed

\* An intent that no longer forces its job into "interrupted".
Resolved(i) == i.outcome = Succeeded \/ CommandReceipt(i)
==============================================================================
