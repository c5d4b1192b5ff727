------------------------------- MODULE Plans -------------------------------
(***************************************************************************)
(* The plan of a thread (execution/plan.py, engine/run_engine.py):         *)
(* a tracker in memory and a store on disk. Every command changes the      *)
(* tracker first and then saves; the store refuses a save that would       *)
(* change or downgrade a version, and the tracker keeps what it has.       *)
(*                                                                         *)
(* A content has one step. Of a step the model keeps whether it is done    *)
(* (completed or verified), whether it has evidence, and whether it is done *)
(* only because the proposal said so ("claimed": PlanState.from_dict keeps *)
(* the status and the evidence a client sends); pending, running, failed   *)
(* and skipped are alike. One plan_id.                                     *)
(***************************************************************************)
EXTENDS Naturals

CONSTANTS
    Contents,    \* contents of a plan (what the fingerprint covers)
    MaxVersion   \* bound: versions of the plan

ASSUME PlanConstants == MaxVersion \in Nat \ {0}

VARIABLES
    tracker,     \* PlanTracker._current
    approvedIn,  \* versions that _history has as approved
    planDisk,    \* PlanStore: version -> plan
    blessed,     \* history: contents the user has approved
    refused,     \* history: the store has refused a save
    restarted    \* history: the process was started again

planVars == <<tracker, approvedIn, planDisk, blessed, refused, restarted>>

Versions == 1..MaxVersion
PlanStatuses == {"ready", "revising", "approved", "cancelled"}
NoPlan == [present |-> FALSE]
Plan == [present : {TRUE}, version : Versions, status : PlanStatuses,
         content : Contents, done : BOOLEAN, evidence : BOOLEAN, claimed : BOOLEAN]

StatusRank(s) == CASE s \in {"ready", "revising"} -> 1
                   [] s = "approved" -> 2
                   [] s = "cancelled" -> 5

PlanInit ==
    /\ tracker = NoPlan /\ approvedIn = {}
    /\ planDisk = [v \in Versions |-> NoPlan]
    /\ blessed = {} /\ refused = FALSE /\ restarted = FALSE

-----------------------------------------------------------------------------
(* The store *)

\* Mutant: the status of the version on disk is not looked at.
StoreTakesAny(p) ==
    LET old == planDisk[p.version]
    IN  old.present => old.content = p.content

\* PlanStore.save: same fingerprint, and no step back.
StoreTakes(p) ==
    LET old == planDisk[p.version]
    IN  old.present => /\ old.content = p.content
                       /\ StatusRank(old.status) <= StatusRank(p.status)

\* The tracker gets the plan; then it is saved, or the save raises.
Keep(p) ==
    /\ tracker' = p
    /\ planDisk' = IF StoreTakes(p) THEN [planDisk EXCEPT ![p.version] = p] ELSE planDisk
    /\ refused' = (refused \/ ~StoreTakes(p))
    /\ UNCHANGED restarted

-----------------------------------------------------------------------------
(* Commands *)

\* plan_propose: the tool proposes the version after the current one, the
\* terminal version 1, both with fresh steps; a client any version, with the
\* status and the evidence it says the step has. Not a version that history has
\* as approved or lower.
Propose(v, c, done, evidence) ==
    /\ \A a \in approvedIn : v > a
    /\ Keep([present |-> TRUE, version |-> v, status |-> "ready", content |-> c,
             done |-> done, evidence |-> evidence, claimed |-> done])
    /\ UNCHANGED <<approvedIn, blessed>>

\* plan_approve: only a plan that is ready.
Approve ==
    /\ tracker.present /\ tracker.status = "ready"
    /\ Keep([tracker EXCEPT !.status = "approved"])
    /\ approvedIn' = approvedIn \cup {tracker.version}
    /\ blessed' = blessed \cup {tracker.content}

\* plan_revise: the next version starts with the content and the steps.
Revise ==
    /\ tracker.present /\ tracker.version < MaxVersion
    /\ Keep([tracker EXCEPT !.version = @ + 1, !.status = "revising"])
    /\ UNCHANGED <<approvedIn, blessed>>

\* plan_cancel.
CancelPlan ==
    /\ tracker.present
    /\ Keep([tracker EXCEPT !.status = "cancelled"])
    /\ UNCHANGED <<approvedIn, blessed>>

\* PlanTracker.update_step, once its gates are passed.
UpdateStep(done, evidence) ==
    /\ Keep([tracker EXCEPT !.done = done, !.evidence = evidence, !.claimed = FALSE])
    /\ UNCHANGED <<approvedIn, blessed>>

\* Mutant: evidence is enough to complete a step.
CompleteStepEarly ==
    /\ tracker.present /\ tracker.evidence
    /\ UpdateStep(TRUE, tracker.evidence)

\* plan_update_step to completed or verified.
CompleteStep ==
    /\ tracker.present /\ tracker.evidence
    /\ tracker.status = "approved"
    /\ UpdateStep(TRUE, tracker.evidence)

\* plan_update_step to any other status, in every status of the plan.
MoveStep ==
    /\ tracker.present
    /\ UpdateStep(FALSE, tracker.evidence)

\* artifact_register for an expected artifact of the step: its evidence is
\* attached by an update to the status the step has, through the gates of that
\* status, which a claimed step has not passed before.
AttachEvidence ==
    /\ tracker.present
    /\ tracker.done => tracker.status = "approved"
    /\ UpdateStep(tracker.done, TRUE)

\* A new process: the latest version on disk; only if it is approved does it
\* enter the history.
RestartPlans ==
    /\ LET last == {v \in Versions : planDisk[v].present /\
                      \A u \in Versions : planDisk[u].present => u <= v}
           found == IF last = {} THEN NoPlan ELSE planDisk[CHOOSE v \in last : TRUE]
       IN  /\ tracker' = found
           /\ approvedIn' = IF found.present /\ found.status = "approved"
                            THEN {found.version} ELSE {}
    /\ restarted' = TRUE
    /\ UNCHANGED <<planDisk, blessed, refused>>

PlanNext ==
    \/ \E v \in Versions, c \in Contents, done, evidence \in BOOLEAN : Propose(v, c, done, evidence)
    \/ Approve \/ Revise \/ CancelPlan
    \/ CompleteStep \/ MoveStep \/ AttachEvidence
    \/ RestartPlans

PlanSpec == PlanInit /\ [][PlanNext]_planVars

-----------------------------------------------------------------------------
(* Properties *)

\* What is on disk, as the ledger the store promises.
LedgerOf(p) == IF p.present
               THEN [present |-> TRUE, content |-> p.content, status |-> p.status]
               ELSE [present |-> FALSE]

Ledger == INSTANCE PlanLedger WITH ledger <- [v \in Versions |-> LedgerOf(planDisk[v])]

\* The tracker with all its commands, refused saves and restarts implements
\* the ledger of PlanStore: written versions keep their content and never
\* move back.
LedgerKept == Ledger!LedgerSpec

\* Every variable keeps its type.
PlanTypeOK ==
    /\ tracker \in Plan \cup {NoPlan}
    /\ approvedIn \subseteq Versions
    /\ planDisk \in [Versions -> Plan \cup {NoPlan}]
    /\ \A v \in Versions : planDisk[v].present => planDisk[v].version = v
    /\ blessed \subseteq Contents
    /\ refused \in BOOLEAN /\ restarted \in BOOLEAN

\* A plan is approved, in memory or in any version on disk, only with a content
\* that the user approved; and a step that an update made done belongs to such a
\* plan and has evidence: not even a revision, a restart or a refused save lets
\* the model complete work nobody agreed to (R2-7 in update_step). A step that a
\* client's proposal brought as done passes no gate until it is updated.
DoneWasApproved ==
    \A p \in {tracker} \cup {planDisk[v] : v \in Versions} :
        p.present => /\ p.status = "approved" => p.content \in blessed
                     /\ p.done /\ ~p.claimed => p.content \in blessed /\ p.evidence

\* As long as the store has refused nothing, memory and disk agree, so an
\* approval the user gave outlives the process.
ApprovalIsDurable ==
    ~refused /\ tracker.present => planDisk[tracker.version] = tracker

\* Within one process a version that was approved is never offered again:
\* what is ready is newer than every approved version ("an approved version
\* of a plan_id can never be replaced by a same-or-lower version"). A restart
\* while a revision is the latest version forgets it.
OfferIsNew ==
    ~restarted /\ tracker.present /\ tracker.status = "ready" =>
        \A v \in approvedIn : v < tracker.version

\* Work is done on what was agreed to, the agreement outlives the process, and
\* nothing that was agreed to is offered again.
AgreementsKept == PlanTypeOK /\ DoneWasApproved /\ ApprovalIsDurable /\ OfferIsNew
=============================================================================
