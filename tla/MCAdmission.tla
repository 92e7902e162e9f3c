----------------------------- MODULE MCAdmission -----------------------------
(***************************************************************************)
(* Who may act at all: the admission of a process by the execution         *)
(* authority (the module this one extends), with activations of recovered  *)
(* archives, and the admission of a keyed request by a full job journal.   *)
(* The initial state chooses one of them; the other does not move, and the *)
(* state space is the sum of the two.  The journal is instantiated through *)
(* its proof module, whose lemmas AdmissionProofs cites.                   *)
(***************************************************************************)
EXTENDS MCExecutionAuthority

CONSTANTS MaxSubmit, MaxJobs, MaxIntents, MaxRestarts, Keys, NoKey, MachineActions,
          WithLegacy   \* of the job journal

\* The job journal has room for a job, and its requests may be without a key.
ASSUME AdmissionAssumption ==
    /\ MaxSubmit \in Nat \ {0} /\ MaxJobs \in Nat \ {0}
    /\ MaxIntents \in Nat /\ MaxRestarts \in Nat /\ NoKey \notin Keys
    /\ MachineActions \subseteq {"create", "delete"} /\ WithLegacy \in BOOLEAN

\* The variables of the job journal.
VARIABLES focus, s1, s2, s3, s4, s5, s6, s7, s8, s9, s10, s11, s12, s13, s14, s15, s16, s17,
          s18, s19

shared == <<s1, s2, s3, s4, s5, s6, s7, s8, s9, s10, s11, s12, s13, s14, s15, s16, s17, s18, s19>>

Dedupe == INSTANCE JobManagerProofs WITH jobs <- s1, disk <- s2, archive <- s3, active <- s4, manual <- s5,
    manualJob <- s6, closed <- s7, storageErr <- s8, up <- s9, lease <- s10, pc <- s11,
    res <- s12, nextId <- s13, restarts <- s14, dispatched <- s15, proven <- s16,
    accepted <- s17, evicted <- s18, late <- s19

Unused == /\ s1 = 0 /\ s2 = 0 /\ s3 = 0 /\ s4 = 0 /\ s5 = 0 /\ s6 = 0 /\ s7 = 0 /\ s8 = 0 /\ s9 = 0 /\ s10 = 0
          /\ s11 = 0 /\ s12 = 0 /\ s13 = 0 /\ s14 = 0 /\ s15 = 0 /\ s16 = 0 /\ s17 = 0 /\ s18 = 0 /\ s19 = 0

AdmissionInit == Init /\ \/ focus = "process" /\ Unused
                         \/ focus = "request" /\ Dedupe!Init

AdmissionNext ==
  \/ focus = "process" /\ Next /\ UNCHANGED <<focus, shared>>
  \/ focus = "request" /\ Dedupe!Next /\ UNCHANGED <<focus, vars>>

AdmissionSpec == AdmissionInit /\ [][AdmissionNext]_<<focus, vars, shared>>

-----------------------------------------------------------------------------
\* A dedupe key starts one job, across restarts, failed writes and reviews,
\* as long as the journal still holds the job it started.
KeyStartsOnce == focus = "request" => Dedupe!KeyStartsOnce

\* A record written by an incompatible binary stays under review once opened,
\* whatever is observed about its intents, and its first form is archived.
LegacyQuarantined == focus = "request" => Dedupe!LegacyQuarantined
==============================================================================
