----------------------------- MODULE TaskLeases -----------------------------
(***************************************************************************)
(* The execution leases of a research project (skills/procedures/          *)
(* research-orchestrator/scripts): agents claim, renew and release tasks   *)
(* and mark expired leases stale. Every script validates the whole         *)
(* .research directory, checks, and then writes file after file: there is  *)
(* no lock, and a script that is killed leaves what it has written.        *)
(*                                                                         *)
(* All tasks require a claim and have one owner. An event's id is the      *)
(* number of lines read plus one, so an append is late when another one    *)
(* came after that reading: the ids repeat, which validate_state refuses.  *)
(***************************************************************************)
EXTENDS FiniteSets, Naturals

CONSTANTS
    Agents, Tasks,
    Projects,   \* the depends_on of the tasks, of each project to look at
    Clash,      \* pairs of tasks whose exclusive paths conflict
    MaxOverlaps \* bound: scripts started while another is at work

ASSUME LeaseConstants ==
    /\ Projects \subseteq [Tasks -> SUBSET Tasks]
    /\ Clash \subseteq Tasks \X Tasks
    /\ MaxOverlaps \in Nat

VARIABLES
    dependsOn,   \* the project's tasks -> tasks that must be accepted before
    task,        \* tasks/<id>.yaml: the status
    lease,       \* leases/<id>.json
    twice,       \* tasks whose current lease is also archived under its id
    idsRepeat,   \* events.jsonl has an id twice
    script,      \* what the script of each agent does
    late,        \* agents whose count of the events is out of date
    executes,    \* tasks each agent works on, having claimed them
    lapsed,      \* history: <<agent, task>> whose lease was marked stale when it
                 \* had expired, or was released by another agent
    overlaps,    \* history: scripts started while another was at work
    killed       \* history: a script was killed

leaseVars == <<dependsOn, task, lease, twice, idsRepeat, script, late, executes, lapsed, overlaps, killed>>

TaskStatuses == {"approved", "running", "completed", "accepted", "blocked"}
Lease == [status : {"none", "active", "released", "stale"}, owner : Agents \cup {"nobody"},
          expired : BOOLEAN]
NoLease == [status |-> "none", owner |-> "nobody", expired |-> FALSE]
Idle == [at |-> "idle"]
Works(a) == script[a].at # "idle"
AllIdle == \A a \in Agents : ~Works(a)
Conflicting(t, u) == <<t, u>> \in Clash \/ <<u, t>> \in Clash
ActiveTasks == {t \in Tasks : lease[t].status = "active"}

LeaseInit ==
    /\ dependsOn \in Projects
    /\ task = [t \in Tasks |-> "approved"]
    /\ lease = [t \in Tasks |-> NoLease]
    /\ twice = {} /\ idsRepeat = FALSE
    /\ script = [a \in Agents |-> Idle] /\ late = {}
    /\ executes = [a \in Agents |-> {}]
    /\ lapsed = {} /\ overlaps = 0 /\ killed = FALSE

-----------------------------------------------------------------------------
(* What the scripts read *)

\* validate_state, as far as the scripts change what it checks.
Valid ==
    /\ ~idsRepeat /\ twice = {}
    /\ \A t \in Tasks : lease[t].status = "active" <=> task[t] = "running"
    /\ \A t, u \in ActiveTasks : t # u => ~Conflicting(t, u)

\* derive_ready: approved, and every dependency accepted.
Ready(t) ==
    /\ task[t] = "approved"
    /\ \A d \in dependsOn[t] : task[d] = "accepted"

\* assert_no_active_conflict.
FreeToClaim(t) ==
    /\ t \notin ActiveTasks
    /\ \A u \in ActiveTasks : ~Conflicting(t, u)

Begin(a, s) ==
    /\ ~Works(a) /\ Valid
    /\ script' = [script EXCEPT ![a] = s]
    /\ overlaps' = IF AllIdle THEN overlaps ELSE overlaps + 1
    /\ overlaps' <= MaxOverlaps
    /\ UNCHANGED <<dependsOn, task, lease, twice, idsRepeat, late, lapsed, killed>>

BeginClaim(a, t) ==
    /\ Ready(t) /\ FreeToClaim(t)
    /\ Begin(a, [at |-> "archive", do |-> "claim", task |-> t, old |-> lease[t], rest |-> {}])
    /\ UNCHANGED executes

\* Both keep the lease they have read. They ask whether a owns it only if the
\* call has --owner: any agent may renew or release a lease.
BeginHeartbeat(a, t) ==
    /\ lease[t].status = "active"
    /\ Begin(a, [at |-> "lease", do |-> "beat", task |-> t, old |-> lease[t], rest |-> {}])
    /\ UNCHANGED executes

BeginRelease(a, t) ==
    /\ lease[t].status = "active"
    /\ Begin(a, [at |-> "lease", do |-> "release", task |-> t, old |-> lease[t], rest |-> {}])
    /\ executes' = [executes EXCEPT ![a] = @ \ {t}]

\* Mutant: every active lease is marked stale.
BeginReconcileAll(a) ==
    \E t \in ActiveTasks :
        /\ Begin(a, [at |-> "lease", do |-> "reconcile", task |-> t, old |-> lease[t],
                     rest |-> ActiveTasks \ {t}])
        /\ UNCHANGED executes

\* reconcile_leases.py --mark-stale, with the leases expired by now.
BeginReconcile(a) ==
    \E t \in {u \in ActiveTasks : lease[u].expired} :
        /\ Begin(a, [at |-> "lease", do |-> "reconcile", task |-> t, old |-> lease[t],
                     rest |-> {u \in ActiveTasks : lease[u].expired} \ {t}])
        /\ UNCHANGED executes

-----------------------------------------------------------------------------
(* What the scripts write, file by file *)

Goto(a, next) == script' = [script EXCEPT ![a].at = next]

\* archive_released_current_lease: a lease file that is there is copied under
\* its id; if it is active by now the claim ends.
Archive(a) ==
    LET t == script[a].task
    IN  /\ script[a].at = "archive"
        /\ \/ /\ lease[t].status = "active"
              /\ script' = [script EXCEPT ![a] = Idle]
              /\ UNCHANGED twice
           \/ /\ lease[t].status # "active"
              /\ twice' = IF lease[t].status = "none" THEN twice ELSE twice \cup {t}
              /\ Goto(a, "lease")
        /\ UNCHANGED <<dependsOn, task, lease, idsRepeat, late, executes, lapsed,
                       overlaps, killed>>

\* The lease each script writes.
NewLease(a) ==
    LET s == script[a]
    IN  CASE s.do = "claim" -> [status |-> "active", owner |-> a, expired |-> FALSE]
          [] s.do = "beat" -> [s.old EXCEPT !.expired = FALSE]
          [] s.do = "release" -> [s.old EXCEPT !.status = "released"]
          [] s.do = "reconcile" -> [s.old EXCEPT !.status = "stale"]

\* write_json_atomic of the lease. A heartbeat has no task to write; a
\* reconciliation records its event before it writes the task.
WriteLease(a) ==
    LET t == script[a].task
    IN  /\ script[a].at = "lease"
        /\ lease' = [lease EXCEPT ![t] = NewLease(a)]
        /\ twice' = IF script[a].do = "claim" THEN twice \ {t} ELSE twice
        /\ lapsed' = IF \/ script[a].do = "reconcile" /\ script[a].old.expired
                        \/ script[a].do = "release" /\ script[a].old.owner # a
                     THEN lapsed \cup {<<script[a].old.owner, t>>} ELSE lapsed
        /\ Goto(a, IF script[a].do \in {"claim", "release"} THEN "task" ELSE "count")
        /\ UNCHANGED <<dependsOn, task, idsRepeat, late, executes, overlaps, killed>>

\* write_task.
WriteTask(a) ==
    LET s == script[a]
    IN  /\ s.at = "task"
        /\ \E status \in CASE s.do = "claim" -> {"running"}
                           [] s.do = "release" -> {"completed", "blocked"}
                           [] s.do = "reconcile" -> {"blocked"} :
              task' = [task EXCEPT ![s.task] = status]
        /\ Goto(a, IF s.do = "reconcile" THEN "count2" ELSE "count")
        /\ UNCHANGED <<dependsOn, lease, twice, idsRepeat, late, executes, lapsed,
                       overlaps, killed>>

\* append_event reads the events to number its own ...
Count(a) ==
    /\ script[a].at \in {"count", "count2"}
    /\ late' = late \ {a}
    /\ Goto(a, IF script[a].at = "count" THEN "append" ELSE "append2")
    /\ UNCHANGED <<dependsOn, task, lease, twice, idsRepeat, executes, lapsed, overlaps,
                   killed>>

\* ... and appends it. Claim and release record two events, a heartbeat one.
AppendEvent(a) ==
    LET s == script[a]
    IN  /\ s.at \in {"append", "append2"}
        /\ idsRepeat' = (idsRepeat \/ a \in late)
        /\ late' = {b \in Agents \ {a} : Works(b) /\ script[b].at \in {"append", "append2"}}
        /\ Goto(a, CASE s.at = "append2" \/ s.do = "beat" -> "check"
                     [] s.at = "append" /\ s.do = "reconcile" -> "task"
                     [] OTHER -> "count2")
        /\ UNCHANGED <<dependsOn, task, lease, twice, executes, lapsed, overlaps, killed>>

\* The last validation: a claim counts only if it passes. A reconciliation
\* goes on with the next lease first.
Finish(a) ==
    LET s == script[a]
    IN  /\ s.at = "check"
        /\ \/ /\ s.rest = {}
              /\ script' = [script EXCEPT ![a] = Idle]
              /\ executes' = IF s.do = "claim" /\ Valid
                             THEN [executes EXCEPT ![a] = @ \cup {s.task}] ELSE executes
           \/ /\ \E t \in s.rest :
                    script' = [script EXCEPT ![a] = [s EXCEPT !.at = "lease", !.task = t,
                                                       !.old = lease[t], !.rest = @ \ {t}]]
              /\ UNCHANGED executes
        /\ UNCHANGED <<dependsOn, task, lease, twice, idsRepeat, late, lapsed, overlaps,
                       killed>>

-----------------------------------------------------------------------------
(* The rest *)

\* The script of an agent is killed.
KillScript(a) ==
    /\ Works(a)
    /\ script' = [script EXCEPT ![a] = Idle]
    /\ late' = late \ {a} /\ killed' = TRUE
    /\ UNCHANGED <<dependsOn, task, lease, twice, idsRepeat, executes, lapsed, overlaps>>

\* A lease passes its expires_at.
LeaseExpires(t) ==
    /\ lease[t].status = "active" /\ ~lease[t].expired
    /\ lease' = [lease EXCEPT ![t].expired = TRUE]
    /\ UNCHANGED <<dependsOn, task, twice, idsRepeat, script, late, executes, lapsed,
                   overlaps, killed>>

\* The orchestrator's decisions, which edit the task: a completed task is
\* accepted, a blocked one approved again.
Decide(t) ==
    /\ \/ task[t] = "completed" /\ task' = [task EXCEPT ![t] = "accepted"]
       \/ task[t] = "blocked" /\ task' = [task EXCEPT ![t] = "approved"]
    /\ overlaps' = IF AllIdle THEN overlaps ELSE overlaps + 1
    /\ overlaps' <= MaxOverlaps
    /\ UNCHANGED <<dependsOn, lease, twice, idsRepeat, script, late, executes, lapsed,
                   killed>>

LeaseNext ==
    \/ \E a \in Agents, t \in Tasks :
          BeginClaim(a, t) \/ BeginHeartbeat(a, t) \/ BeginRelease(a, t)
    \/ \E a \in Agents :
          \/ BeginReconcile(a) \/ Archive(a) \/ WriteLease(a) \/ WriteTask(a)
          \/ Count(a) \/ AppendEvent(a) \/ Finish(a) \/ KillScript(a)
    \/ \E t \in Tasks : LeaseExpires(t) \/ Decide(t)

LeaseSpec == LeaseInit /\ [][LeaseNext]_leaseVars

-----------------------------------------------------------------------------
(* Properties *)

\* Every variable keeps its type.
LeaseTypeOK ==
    /\ dependsOn \in Projects /\ task \in [Tasks -> TaskStatuses] /\ lease \in [Tasks -> Lease]
    /\ twice \subseteq Tasks /\ idsRepeat \in BOOLEAN
    /\ \A a \in Agents : Works(a) =>
          /\ script[a].task \in Tasks /\ script[a].rest \subseteq Tasks
          /\ script[a].old \in Lease
    /\ late \subseteq Agents /\ executes \in [Agents -> SUBSET Tasks]
    /\ lapsed \subseteq Agents \X Tasks
    /\ overlaps \in 0..MaxOverlaps /\ killed \in BOOLEAN

\* Scripts that run one after another and to their end leave a state that the
\* next script accepts. (A killed one, or two at a time, may leave a state
\* that every script refuses, reconcile_leases.py included.)
ScriptsLeaveValidState == AllIdle /\ overlaps = 0 /\ ~killed => Valid

\* Two agents work on the same task or on conflicting paths only after the
\* lease of one has expired and was marked stale, or another agent has released
\* it (without --owner), even if scripts are killed at any step, as long as
\* they do not overlap (lease-contract.md: "only one active lease may exist for
\* a single_owner task").
OneOwner ==
    overlaps = 0 =>
        \A a, b \in Agents : \A t \in executes[a], u \in executes[b] :
            a # b /\ (t = u \/ Conflicting(t, u)) =>
                <<a, t>> \in lapsed \/ <<b, u>> \in lapsed

\* A task runs only when all it depends on is accepted, and it stays so.
DependenciesAccepted ==
    overlaps = 0 => \A t \in Tasks : task[t] = "running" =>
                       \A d \in dependsOn[t] : task[d] = "accepted"

\* What the lease contract promises agents whose scripts do not overlap, even
\* if scripts are killed.
LeasesSound == LeaseTypeOK /\ ScriptsLeaveValidState /\ OneOwner /\ DependenciesAccepted

\* The same without the proviso: two claims that both found the task free.
OneOwnerAlways ==
    \A a, b \in Agents : \A t \in executes[a], u \in executes[b] :
        a # b /\ (t = u \/ Conflicting(t, u)) =>
            <<a, t>> \in lapsed \/ <<b, u>> \in lapsed
=============================================================================
