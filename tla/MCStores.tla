------------------------------ MODULE MCStores ------------------------------
(***************************************************************************)
(* One run for the stores that do not share state: a behaviour is one of   *)
(* the store that "part" names, the others stay as they start.             *)
(***************************************************************************)
EXTENDS Submissions, Plans, AtomicFile, Artifacts, TaskLeases, TLC

CONSTANTS t1, t2

VARIABLE part

\* Two tasks, with or without a dependency; their exclusive paths conflict.
MCProjects == {t1 :> {} @@ t2 :> {}, t1 :> {} @@ t2 :> {t1}}
MCClash == {<<t1, t2>>}

\* Agents, keys and contents are interchangeable.
MCSymmetry == Permutations(Agents) \cup Permutations(Keys) \cup Permutations(Contents)

MCInit ==
    /\ part \in {"submissions", "plans", "files", "artifacts", "leases"}
    /\ SubInit /\ PlanInit /\ FileInit /\ ArtInit /\ LeaseInit
    /\ part # "files" => kind = "log"
    /\ part # "artifacts" => artifactFile = CHOOSE d \in Digests : TRUE
    /\ part # "leases" => dependsOn = [t \in Tasks |-> {}]

MCNext ==
    /\ part' = part
    /\ \/ part = "submissions" /\ SubNext
          /\ UNCHANGED <<planVars, fileVars, artVars, leaseVars>>
       \/ part = "plans" /\ PlanNext
          /\ UNCHANGED <<subVars, fileVars, artVars, leaseVars>>
       \/ part = "files" /\ FileNext
          /\ UNCHANGED <<subVars, planVars, artVars, leaseVars>>
       \/ part = "artifacts" /\ ArtNext
          /\ UNCHANGED <<subVars, planVars, fileVars, leaseVars>>
       \/ part = "leases" /\ LeaseNext
          /\ UNCHANGED <<subVars, planVars, fileVars, artVars>>

MCSpec == MCInit /\ [][MCNext]_<<part, subVars, planVars, fileVars, artVars, leaseVars>>
=============================================================================
