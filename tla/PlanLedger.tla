----------------------------- MODULE PlanLedger -----------------------------
(***************************************************************************)
(* What the plan store promises of a thread's plan versions                *)
(* (execution/plan.py, PlanStore): a version is written once and then only *)
(* moves forward; nothing else is said of who writes it and when.          *)
(***************************************************************************)
EXTENDS Naturals

CONSTANTS
    Contents,   \* contents of a plan: everything its fingerprint covers
    MaxVersion  \* bound: versions of the plan

VARIABLE ledger  \* version -> absent, or its content and status

Statuses == {"ready", "revising", "approved", "cancelled"}

\* _STATUS_RANK; the statuses executing and completed are never set.
Rank(s) == CASE s \in {"ready", "revising"} -> 1
             [] s = "approved" -> 2
             [] s = "cancelled" -> 5

Absent == [present |-> FALSE]
Entry(c, s) == [present |-> TRUE, content |-> c, status |-> s]

LedgerInit == ledger = [v \in 1..MaxVersion |-> Absent]

\* save: a new version, or the same content with a status as high.
Write(v, c, s) ==
    /\ ledger[v].present => ledger[v].content = c /\ Rank(ledger[v].status) <= Rank(s)
    /\ ledger' = [ledger EXCEPT ![v] = Entry(c, s)]

LedgerNext == \E v \in 1..MaxVersion, c \in Contents, s \in Statuses : Write(v, c, s)

LedgerSpec == LedgerInit /\ [][LedgerNext]_ledger

\* Once a version was approved its content stays, and so does the approval,
\* unless the plan is cancelled.
Frozen ==
    [][\A v \in 1..MaxVersion :
         ledger[v].present /\ ledger[v].status \in {"approved", "cancelled"} =>
             /\ ledger'[v].present /\ ledger'[v].content = ledger[v].content
             /\ ledger'[v].status \in {ledger[v].status, "cancelled"}]_ledger
=============================================================================
