---------------------------- MODULE ProjectGates ----------------------------
(***************************************************************************)
(* What a research project lets through (skills/procedures/research-       *)
(* orchestrator/scripts): artifacts are registered and decided, verdicts   *)
(* are written to gate files, follow-up tasks are made from a proposal,    *)
(* and pre_submit and pre_report let a job or the final report go on.      *)
(* Every script validates the project, writes, and validates again; the    *)
(* rows of artifacts.jsonl are rewritten in place. The scripts of this     *)
(* module run one at a time (TaskLeases has the ones that overlap) and may *)
(* be killed.                                                              *)
(*                                                                         *)
(* One structure verdict, one report verdict, one guide reading, one claim *)
(* and one follow-up proposal. Tasks 1..FirstFollowUp-1 are the project's  *)
(* own; the report consumes the claim and the report verdict.              *)
(***************************************************************************)
EXTENDS Integers, FiniteSets, Sequences

CONSTANTS
    Projects,       \* the artifacts of each project to look at
    Verdicts,       \* by gate: the files somebody may write
    Payloads,       \* recommended_tasks: sequences of [id, out, sound]; id 0 is generated
    FirstFollowUp, LastFollowUp,  \* task numbers
    MaxDecisions,   \* bound: decisions of each behaviour
    MaxKills        \* bound: scripts killed

ASSUME GateConstants ==
    /\ FirstFollowUp \in Nat /\ LastFollowUp \in Nat
    /\ MaxDecisions \in Nat /\ MaxKills \in Nat

\* The order of the rows in artifacts.jsonl.
Rows == <<"structure", "guide", "claim", "proposal", "report">>
Arts == {Rows[i] : i \in DOMAIN Rows}
Gates == {"structure", "report"}
NoGateFile == [status |-> "none"]
NoScript == [at |-> "idle"]
Numbers == FirstFollowUp..LastFollowUp
NoTask == [status |-> "none"]

ASSUME GateInputs ==
    /\ Projects \subseteq SUBSET Arts
    /\ \A p \in Payloads : /\ p \in Seq({p[i] : i \in DOMAIN p})
                           /\ \A i \in DOMAIN p : DOMAIN p[i] = {"id", "out", "sound"}

VARIABLES
    arts,      \* the artifacts this project has
    row,       \* artifacts.jsonl: the status of each artifact
    reviewed,  \* the structure verdict was produced by a reviewer role
    outcome,   \* the claim's claim_outcome
    torn,      \* artifacts.jsonl ends in half a line
    gateFile,  \* the verdict in each gate file
    guideSame, \* the guide has the size the reading recorded
    payload,   \* what the proposal recommends
    decisions, \* decisions.jsonl: <<kind, artifact, decision>>
    followUp,  \* tasks/T<n>.yaml made from the proposal
    hand,      \* the script at work
    passed,    \* history: verdicts with which pre_submit let a job go on
    reported,  \* history: what recommended work was open when pre_report passed
    reruns,    \* history: scaffold_follow_up_tasks was run again
    kills      \* history: scripts killed

gateVars == <<arts, row, reviewed, outcome, torn, gateFile, guideSame, payload, decisions, followUp,
              hand, passed, reported, reruns, kills>>

GateInit ==
    /\ arts \in Projects
    /\ row = [a \in Arts |-> "none"] /\ reviewed = TRUE /\ outcome = "none" /\ torn = FALSE
    /\ gateFile = [g \in Gates |-> NoGateFile] /\ guideSame = TRUE
    /\ payload \in Payloads
    /\ decisions = {} /\ followUp = [n \in Numbers |-> NoTask]
    /\ hand = NoScript /\ passed = {} /\ reported = {} /\ reruns = 0 /\ kills = 0

-----------------------------------------------------------------------------
(* validate_state *)

FollowUps == {n \in Numbers : followUp[n] # NoTask}

\* What validate_task asks of one task: roles, skill, inputs, outputs and policy. Whoever
\* wrote the recommendation decides it.
TaskSound(n) == followUp[n].sound

\* Every task is sound, and an output is expected of one task.
TasksValid ==
    /\ \A n \in FollowUps : TaskSound(n)
    /\ \A n, m \in FollowUps : n # m => followUp[n].out # followUp[m].out

\* A decision names an artifact that is registered.
DecisionsValid == \A d \in decisions : row[d[2]] # "none"

\* A verdict on a structure is known by its file and must come from a reviewer.
ReviewerValid == row["structure"] # "none" /\ gateFile["structure"] # NoGateFile => reviewed

\* Every line of artifacts.jsonl parses.
Valid == ~torn /\ TasksValid /\ DecisionsValid /\ ReviewerValid

-----------------------------------------------------------------------------
(* Gate verdicts *)

Passing == {"pass", "waived"}
Blocking == {"request_revision", "block"}

\* An approved decision that waives a gate.
WaiverDecided == \E d \in decisions : d[1] = "gate-waiver" /\ d[3] = "approved"

\* A check: blocking only in a gate that does not pass, and a metric below its target
\* (short) only as a revision, a block, or a waiver of the whole gate.
CheckStands(v, c) ==
    /\ c.status \in Blocking => v.status \notin Passing
    /\ c.short => \/ c.status \in Blocking
                  \/ c.status = "waived" /\ v.status = "waived"

\* validate_gate_obj. Metrics are looked at in structure gates.
GateValid(g, v) ==
    /\ v.checks # {}
    /\ \A c \in v.checks : CheckStands(v, IF g = "structure" THEN c ELSE [c EXCEPT !.short = FALSE])
    /\ v.status = "pass" => ~v.issues
    /\ v.status \in Blocking => v.issues /\ v.fix
    /\ v.status = "waived" => v.waiver /\ WaiverDecided

\* require_passing_gate: the row is accepted and what the file says now passes.
GatePasses(g) ==
    /\ row[g] = "accepted" /\ gateFile[g] # NoGateFile
    /\ GateValid(g, gateFile[g]) /\ gateFile[g].status \in Passing

-----------------------------------------------------------------------------
(* Follow-ups *)

\* proposal_blocks_report, and no decision and no accepted task that resolves it.
Unresolved ==
    /\ row["proposal"] \in {"validated", "accepted"}
    /\ <<"follow-up-waiver", "proposal", "waived">> \notin decisions
    /\ \A n \in FollowUps : followUp[n].status # "accepted"

\* next_task_ids: the numbers after the highest that exists, skipping none.
NextNumber(used) == IF used = {} THEN FirstFollowUp
                    ELSE 1 + CHOOSE n \in used : \A m \in used : m <= n

\* The numbers of the new tasks, in order: own ones, and generated ones that do not
\* look at the own ones of the same proposal.
NumberOf(used, i) ==
    IF payload[i].id # 0 THEN payload[i].id
    ELSE NextNumber(used) + Cardinality({j \in 1..(i - 1) : payload[j].id = 0})

Numbered == [i \in DOMAIN payload |-> [payload[i] EXCEPT !.id = NumberOf(FollowUps, i)]]

\* scaffold_tasks_from_proposal refuses a proposal without tasks, and a number that is taken.
Scaffoldable ==
    /\ row["proposal"] = "accepted"
    /\ payload # <<>> /\ \A i \in DOMAIN payload : Numbered[i].id \in Numbers \ FollowUps

Scaffolding(then) == [at |-> "tasks", todo |-> Numbered, then |-> then]

-----------------------------------------------------------------------------
(* The scripts *)

Starts == hand = NoScript /\ Valid

\* Somebody appends a row; a gate by a role that may or may not judge structures.
Register(a) ==
    /\ hand = NoScript /\ row[a] = "none" /\ ~torn
    /\ row' = [row EXCEPT ![a] = "draft"]
    /\ IF a = "structure" THEN reviewed' \in BOOLEAN ELSE UNCHANGED reviewed
    /\ UNCHANGED <<arts, outcome, torn, gateFile, guideSame, payload, decisions, followUp, hand,
                   passed, reported, reruns, kills>>

\* A reviewer writes a verdict, or rewrites it.
WriteVerdict(g, v) ==
    /\ gateFile' = [gateFile EXCEPT ![g] = v] /\ gateFile' # gateFile
    /\ UNCHANGED <<arts, row, reviewed, outcome, torn, guideSame, payload, decisions, followUp,
                   hand, passed, reported, reruns, kills>>

GuideChanges ==
    /\ "guide" \in arts /\ guideSame /\ guideSame' = FALSE
    /\ UNCHANGED <<arts, row, reviewed, outcome, torn, gateFile, payload, decisions, followUp, hand,
                   passed, reported, reruns, kills>>

\* accept_artifact: the decision first. Any status may follow any other.
BeginAccept(a, status) ==
    /\ Starts /\ row[a] # "none"
    /\ decisions' = decisions \cup {<<"acceptance", a, status>>}
    /\ Cardinality(decisions') <= MaxDecisions
    /\ hand' = [at |-> "rows", on |-> a, to |-> status, outcome |-> outcome]
    /\ UNCHANGED <<arts, row, reviewed, outcome, torn, gateFile, guideSame, payload, followUp,
                   passed, reported, reruns, kills>>

\* Validated and rejected differ only for a proposal, which blocks reports validated.
Statuses(a) == {"accepted", "rejected"} \cup IF a = "proposal" THEN {"validated"} ELSE {}

\* classify_claim: the outcome decides the status unless the caller names one.
BeginClassify(out) ==
    /\ Starts /\ row["claim"] # "none"
    /\ \E status \in {IF out = "addresses" THEN "accepted" ELSE "draft", "accepted"} :
          /\ hand' = [at |-> "rows", on |-> "claim", to |-> status, outcome |-> out]
          /\ decisions' = decisions \cup {<<"claim-classification", "claim", out>>}
    /\ Cardinality(decisions') <= MaxDecisions
    /\ UNCHANGED <<arts, row, reviewed, outcome, torn, gateFile, guideSame, payload, followUp,
                   passed, reported, reruns, kills>>

Rewritten == [row EXCEPT ![hand.on] = hand.to]

\* write_jsonl opens the file for writing and writes the rows one after the other.
WriteRows ==
    /\ hand.at = "rows"
    /\ row' = Rewritten /\ outcome' = hand.outcome /\ hand' = NoScript
    /\ UNCHANGED <<arts, reviewed, torn, gateFile, guideSame, payload, decisions, followUp, passed,
                   reported, reruns, kills>>

\* The orchestrator records a decision: a gate or a follow-up is waived.
Waive(d) ==
    /\ hand = NoScript /\ row[d[2]] # "none" /\ d \notin decisions
    /\ Cardinality(decisions) < MaxDecisions
    /\ decisions' = decisions \cup {d}
    /\ UNCHANGED <<arts, row, reviewed, outcome, torn, gateFile, guideSame, payload, followUp, hand,
                   passed, reported, reruns, kills>>

\* scaffold_follow_up_tasks: does not ask whether the proposal has tasks already.
Scaffold ==
    /\ Starts /\ Scaffoldable
    /\ hand' = Scaffolding("done")
    /\ reruns' = IF FollowUps = {} THEN reruns ELSE 1
    /\ UNCHANGED <<arts, row, reviewed, outcome, torn, gateFile, guideSame, payload, decisions,
                   followUp, passed, reported, kills>>

\* One task file is written; a file of that name is replaced.
WriteTaskFile ==
    /\ hand.at = "tasks"
    /\ LET t == Head(hand.todo)
       IN  followUp' = [followUp EXCEPT ![t.id] =
                [status |-> "proposed", out |-> t.out, sound |-> t.sound]]
    /\ hand' = IF Len(hand.todo) = 1 THEN NoScript ELSE [hand EXCEPT !.todo = Tail(@)]
    /\ UNCHANGED <<arts, row, reviewed, outcome, torn, gateFile, guideSame, payload, decisions,
                   passed, reported, reruns, kills>>

\* The orchestrator accepts a follow-up that was worked on (one that failed or is
\* cancelled settles as little as one that is proposed).
FollowUpEnds(n) ==
    /\ hand = NoScript /\ followUp[n] # NoTask /\ followUp[n].status = "proposed"
    /\ followUp' = [followUp EXCEPT ![n].status = "accepted"]
    /\ UNCHANGED <<arts, row, reviewed, outcome, torn, gateFile, guideSame, payload, decisions, hand,
                   passed, reported, reruns, kills>>

\* check_pre_submit: the structure verdict and the reading of the cluster's guide.
PreSubmit ==
    /\ Starts /\ GatePasses("structure") /\ reviewed
    /\ row["guide"] = "accepted" /\ guideSame
    /\ passed' = passed \cup {gateFile["structure"]}
    /\ UNCHANGED <<arts, row, reviewed, outcome, torn, gateFile, guideSame, payload, decisions,
                   followUp, hand, reported, reruns, kills>>

ClaimReportable ==
    row["claim"] = "accepted" /\ outcome \in {"addresses", "contradicts", "inconclusive"}

\* Mutant: pre_report makes the follow-up tasks again each time it is blocked.
PreReportBlockedAgain ==
    /\ Starts /\ ClaimReportable /\ Unresolved /\ Scaffoldable
    /\ hand' = Scaffolding("blocked")
    /\ UNCHANGED <<arts, row, reviewed, outcome, torn, gateFile, guideSame, payload, decisions,
                   followUp, passed, reported, reruns, kills>>

\* check_pre_report, blocked by a proposal: its tasks are made unless it has some.
PreReportBlocked ==
    /\ Starts /\ ClaimReportable /\ Unresolved
    /\ FollowUps = {} /\ Scaffoldable
    /\ hand' = Scaffolding("blocked")
    /\ UNCHANGED <<arts, row, reviewed, outcome, torn, gateFile, guideSame, payload, decisions,
                   followUp, passed, reported, reruns, kills>>

\* check_pre_report, passed: the report verdict covers the claim.
PreReportPasses ==
    /\ Starts /\ ClaimReportable /\ ~Unresolved
    /\ GatePasses("report") /\ gateFile["report"].scoped
    /\ reported' = reported \cup
          {[waived |-> <<"follow-up-waiver", "proposal", "waived">> \in decisions,
            blocks |-> row["proposal"] \in {"validated", "accepted"},
            done   |-> {followUp[n].out : n \in {m \in FollowUps : followUp[m].status = "accepted"}}]}
    /\ UNCHANGED <<arts, row, reviewed, outcome, torn, gateFile, guideSame, payload, decisions,
                   followUp, hand, passed, reruns, kills>>

\* A script is killed: before it opens the file, after some of the rows, perhaps in
\* the middle of one, after all of them; or between two task files.
KillScript ==
    /\ hand # NoScript /\ kills < MaxKills /\ kills' = kills + 1
    /\ hand' = NoScript
    /\ IF hand.at = "rows"
       THEN \/ UNCHANGED <<row, torn, outcome>>
            \/ \E n \in 0..Len(Rows) :
                 /\ row' = [a \in Arts |-> IF \E i \in 1..n : Rows[i] = a
                                           THEN Rewritten[a] ELSE "none"]
                 /\ torn' \in BOOLEAN
                 /\ outcome' = IF row'["claim"] = "none" THEN "none" ELSE hand.outcome
       ELSE UNCHANGED <<row, torn, outcome>>
    /\ UNCHANGED <<arts, reviewed, gateFile, guideSame, payload, decisions, followUp, passed,
                   reported, reruns>>

GateNext ==
    \/ \E a \in arts : Register(a)
    \/ \E g \in Gates \cap arts : \E v \in Verdicts[g] : WriteVerdict(g, v)
    \/ \E a \in arts : \E s \in Statuses(a) : BeginAccept(a, s)
    \/ \E out \in {"addresses", "needs-follow-up"} : BeginClassify(out)
    \/ \E d \in {<<"gate-waiver", "structure", "approved">>,
                 <<"follow-up-waiver", "proposal", "waived">>} : Waive(d)
    \/ \E n \in Numbers : FollowUpEnds(n)
    \/ GuideChanges \/ WriteRows \/ Scaffold \/ WriteTaskFile
    \/ PreSubmit \/ PreReportBlocked \/ PreReportPasses \/ KillScript

GateSpec == GateInit /\ [][GateNext]_gateVars

-----------------------------------------------------------------------------
(* Properties *)

\* Every variable keeps its type.
GateTypeOK ==
    /\ row \in [Arts -> {"none", "draft", "validated", "accepted", "rejected"}]
    /\ outcome \in {"none", "addresses", "needs-follow-up"}
    /\ reviewed \in BOOLEAN /\ torn \in BOOLEAN /\ guideSame \in BOOLEAN
    /\ \A g \in Gates : gateFile[g] \in Verdicts[g] \cup {NoGateFile}
    /\ arts \in Projects /\ payload \in Payloads
    /\ hand.at \in {"idle", "rows", "tasks"}
    /\ reruns \in 0..1 /\ kills \in 0..MaxKills

\* An artifact is accepted only by a decision that is on file, even if scripts are
\* killed between the two files.
AcceptedIsDecided ==
    \A a \in Arts : row[a] = "accepted" =>
        \/ <<"acceptance", a, "accepted">> \in decisions
        \/ a = "claim" /\ \E d \in decisions : d[1] = "claim-classification"

\* A verdict that let a job go on has no check that blocks, and a structure below a
\* target was waived by an approved decision.
PassedVerdictsStand ==
    \A v \in passed : \A c \in v.checks :
        /\ c.status \notin Blocking
        /\ c.short => WaiverDecided

Clean(p) == \A i, j \in DOMAIN p :
    p[i].sound /\ p[i].id = 0 /\ (i # j => p[i].out # p[j].out)

\* However often pre_report is blocked, and wherever it is killed, a proposal's tasks
\* are made once: no output is expected of two tasks and the project stays valid.
FollowUpsMadeOnce == Clean(payload) /\ reruns = 0 => TasksValid

\* The final report passed only with the proposal settled: not blocking, waived, or at
\* least one of its tasks accepted.
ReportsSettled == \A r \in reported : r.blocks => r.waived \/ r.done # {}

\* The project lets through what was decided, and keeps itself valid doing so.
ProjectSound == GateTypeOK /\ AcceptedIsDecided /\ PassedVerdictsStand /\ FollowUpsMadeOnce /\ ReportsSettled

\* Not so: one accepted follow-up settles a proposal that recommends two; a killed
\* scaffolding is taken for a complete one; two recommendations get one number.
AllRecommendationsDone ==
    \A r \in reported : r.blocks /\ ~r.waived => {payload[i].out : i \in DOMAIN payload} \subseteq r.done

\* Not so: scaffold_follow_up_tasks run twice, or with a recommendation that is not
\* sound, leaves a project that every script refuses.
ScaffoldKeepsValid == hand = NoScript /\ kills = 0 /\ reviewed => Valid

\* Not so: the accepted verdict is the file's name, its text may change afterwards.
AcceptedIsWhatPassed == \A v, w \in passed : v = w

\* Not so: a killed accept_artifact loses rows that no decision names.
RowsKept == [][\A a \in Arts : row[a] # "none" => row'[a] # "none"]_gateVars
=============================================================================
