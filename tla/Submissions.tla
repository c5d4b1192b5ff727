---------------------------- MODULE Submissions ----------------------------
(***************************************************************************)
(* The records of HPC submissions (hpc/submission.py, hpc/reconcile.py).   *)
(* Every use is a short-lived process of its own: prepare_submission.py    *)
(* before a job is submitted and again to bind its id, reconcile_job.py to *)
(* ask the scheduler. Each reads the file when it starts and writes all of *)
(* its copy when it changes one record; only record_attempt takes the lock *)
(* and reads the file again.                                               *)
(*                                                                         *)
(* A key is an idempotency key, one per thread and Run: the tools of a Run *)
(* are executed one after another, those of different Runs side by side.   *)
(***************************************************************************)
EXTENDS Integers, FiniteSets, Sequences

CONSTANTS
    Keys,      \* idempotency keys
    MaxJobs    \* bound: jobs the scheduler accepts

ASSUME SubmissionConstants == MaxJobs \in Nat

VARIABLES
    file,    \* submissions.jsonl: the record of each key
    copy,    \* _records of the process that works for a key
    step,    \* where that process is
    agent,   \* where the agent is with its submission
    jobs,    \* the scheduler: job id -> key and state
    raced    \* history: processes of two keys have been at work at a time

subVars == <<file, copy, step, agent, jobs, raced>>

NoJob == 0
Terminal == {"completed", "failed"}
States == {"", "running"} \cup Terminal
Records == [known : BOOLEAN, job : Nat, state : States]
NoRecord == [known |-> FALSE, job |-> NoJob, state |-> ""]
Attempt == [known |-> TRUE, job |-> NoJob, state |-> ""]
Empty == [k \in Keys |-> NoRecord]
JobIds == DOMAIN jobs
Returned(k) == CHOOSE j \in JobIds : jobs[j].key = k /\ \A i \in JobIds : jobs[i].key = k => i <= j

SubInit ==
    /\ file = Empty
    /\ copy = [k \in Keys |-> Empty]
    /\ step = [k \in Keys |-> "none"]
    /\ agent = [k \in Keys |-> "start"]
    /\ jobs = <<>>
    /\ raced = FALSE

-----------------------------------------------------------------------------
(* The processes *)

\* A process starts: SubmissionStore() loads the file.
Load(k, what) ==
    /\ step[k] = "none"
    /\ copy' = [copy EXCEPT ![k] = file]
    /\ step' = [step EXCEPT ![k] = what]
    /\ raced' = (raced \/ \E o \in Keys \ {k} : step[o] # "none")
    /\ UNCHANGED <<file, agent, jobs>>

\* prepare_submission.py, before the first submission or after a bound one.
BeginPrepare(k) == agent[k] \in {"start", "bound"} /\ Load(k, "prepare")

Done(k, next) ==
    /\ step' = [step EXCEPT ![k] = "none"]
    /\ copy' = [copy EXCEPT ![k] = Empty]
    /\ agent' = [agent EXCEPT ![k] = next]
    /\ UNCHANGED <<jobs, raced>>

\* A record without job is used again, one with a job refuses; without a
\* record record_attempt takes the lock, reads again, checks and appends.
Prepare(k) ==
    /\ step[k] = "prepare"
    /\ LET seen == IF copy[k][k].known THEN copy[k] ELSE file
       IN  IF seen[k].job # NoJob
           THEN Done(k, agent[k]) /\ UNCHANGED file
           ELSE /\ Done(k, "prepared")
                /\ file' = IF copy[k][k].known THEN file
                           ELSE [file EXCEPT ![k] = Attempt]

\* prepare_submission.py --bind-job-id starts.
BeginBind(k) == agent[k] = "submitted" /\ Load(k, "bind")

\* Mutant: only the record of this key is written.
BindAlone(k) ==
    /\ step[k] = "bind"
    /\ file' = IF file[k].job # NoJob THEN file
               ELSE [Empty EXCEPT ![k] = [Attempt EXCEPT !.job = Returned(k)]]
    /\ Done(k, "bound")

\* bind_job_id sets the id in this process's copy and writes the whole copy;
\* a record that is missing is made first, one with a job refuses.
Bind(k) ==
    /\ step[k] = "bind"
    /\ LET seen == IF copy[k][k].known THEN copy[k]
                   ELSE [file EXCEPT ![k] = IF @.job = NoJob THEN Attempt ELSE @]
       IN  IF seen[k].job # NoJob
           THEN UNCHANGED file
           ELSE file' = [seen EXCEPT ![k].job = Returned(k)]
    /\ Done(k, "bound")

\* reconcile_job.py: only a record with a job is asked about.
BeginQuery(k) == agent[k] = "bound" /\ Load(k, "query")

\* The scheduler answers, or the query fails: then nothing is recorded.
Query(k) ==
    /\ step[k] = "query"
    /\ LET job == copy[k][k].job
       IN  \/ /\ job # NoJob
              /\ copy' = [copy EXCEPT ![k][k].state = jobs[job].state]
              /\ step' = [step EXCEPT ![k] = "answered"]
              /\ UNCHANGED <<agent, jobs, raced>>
           \/ Done(k, agent[k])
    /\ UNCHANGED file

\* update_state writes the whole copy, if the state is a new one.
Update(k) ==
    /\ step[k] = "answered"
    /\ file' = copy[k]
    /\ Done(k, agent[k])

\* The process is killed or times out.
Kill(k) ==
    /\ step[k] # "none"
    /\ Done(k, agent[k])
    /\ UNCHANGED file

-----------------------------------------------------------------------------
(* The agent and the scheduler *)

\* sbatch after a successful prepare: it returns an id, or its outcome stays
\* unknown; then it is not repeated (hpc-submit skill).
Submit(k) ==
    /\ agent[k] = "prepared" /\ step[k] = "none"
    /\ \/ /\ Len(jobs) < MaxJobs
          /\ jobs' = Append(jobs, [key |-> k, state |-> "running"])
          /\ agent' = [agent EXCEPT ![k] = "submitted"]
       \/ /\ Len(jobs) < MaxJobs
          /\ jobs' = Append(jobs, [key |-> k, state |-> "running"])
          /\ agent' = [agent EXCEPT ![k] = "unsure"]
       \/ /\ agent' = [agent EXCEPT ![k] = "unsure"]
          /\ UNCHANGED jobs
    /\ UNCHANGED <<file, copy, step, raced>>

\* A job ends.
JobEnds(j) ==
    /\ jobs[j].state = "running"
    /\ \E s \in Terminal : jobs' = [jobs EXCEPT ![j].state = s]
    /\ UNCHANGED <<file, copy, step, agent, raced>>

SubNext ==
    \/ \E k \in Keys :
         \/ BeginPrepare(k) \/ Prepare(k) \/ BeginBind(k) \/ Bind(k)
         \/ BeginQuery(k) \/ Query(k) \/ Update(k) \/ Kill(k) \/ Submit(k)
    \/ \E j \in JobIds : JobEnds(j)

SubSpec == SubInit /\ [][SubNext]_subVars

-----------------------------------------------------------------------------
(* Properties *)

\* Every variable keeps its type.
SubTypeOK ==
    /\ file \in [Keys -> Records] /\ copy \in [Keys -> [Keys -> Records]]
    /\ step \in [Keys -> {"none", "prepare", "bind", "query", "answered"}]
    /\ agent \in [Keys -> {"start", "prepared", "submitted", "unsure", "bound"}]
    /\ jobs \in Seq([key : Keys, state : States]) /\ Len(jobs) <= MaxJobs
    /\ raced \in BOOLEAN

\* As long as processes do not overlap, a Run's submission gives one job at
\* most, however often its preparation, its binding and its queries are
\* killed and repeated ("no sbatch again once thread and Run have a job_id",
\* submission.py).
OneJobPerKey ==
    ~raced => \A i, j \in JobIds : jobs[i].key = jobs[j].key => i = j

\* As long as processes do not overlap, a job that was bound stays on file.
JobsOnFile ==
    ~raced => \A k \in Keys : agent[k] = "bound" => file[k].job # NoJob

\* Even if processes overwrite each other's records, the file never names a
\* job of another Run, and it never says that a job has ended which has not
\* ended that way (reconcile_submission never guesses).
RecordsTellTruth ==
    \A k \in Keys : file[k].job # NoJob =>
        /\ file[k].job \in JobIds
        /\ jobs[file[k].job].key = k
        /\ file[k].state \in Terminal => jobs[file[k].job].state = file[k].state

\* What the records are for, as far as the code secures it.
JobsAccounted == SubTypeOK /\ OneJobPerKey /\ JobsOnFile /\ RecordsTellTruth

\* The same without the proviso: with two Runs at work one may write its old
\* copy over the other's bound job, which is then free to submit again.
OneJobPerKeyAlways ==
    \A i, j \in JobIds : jobs[i].key = jobs[j].key => i = j
=============================================================================
