---------------------------- MODULE SkillMounts ----------------------------
(***************************************************************************)
(* Activations of skills in one process: each one saves the frozen skill   *)
(* in the content-addressed private store, copies it into the sandbox      *)
(* under its digest, verifies it there when the sandbox is remote, and     *)
(* records the activation.  Activations of one digest interleave at every  *)
(* await; a step may fail and the process may be killed.                   *)
(***************************************************************************)
EXTENDS Naturals

CONSTANTS Activations, SkillDigests, MaxMountFaults

ASSUME MountAssumption == MaxMountFaults \in Nat /\ SkillDigests # {}

Holds == {"none", "part", "whole"}

VARIABLES
    remote,     \* the sandbox is reached over SSH
    store,      \* what the private store holds of each digest
    mounted,    \* what the sandbox holds under each digest
    act,        \* each activation: where it stands, its digest, its staging directory, and
                \* what a repeated request was given of the skill
    tainted,    \* ghost: digests whose snapshot a killed process left half written
    withdrawn,  \* ghost: digests whose mount a failed activation has removed
    faults

mountVars == <<remote, store, mounted, act, tainted, withdrawn, faults>>

NoAct == [at |-> "new", digest |-> CHOOSE d \in SkillDigests : TRUE,
          staging |-> "none", again |-> "none"]

MountTypeOK ==
    /\ remote \in BOOLEAN
    /\ store \in [SkillDigests -> Holds] /\ mounted \in [SkillDigests -> Holds]
    /\ act \in [Activations -> [at : {"new", "saved", "copying", "copied", "placed",
                                      "verified", "done", "failed"},
                                digest : SkillDigests, staging : Holds, again : Holds]]
    /\ tainted \subseteq SkillDigests /\ withdrawn \subseteq SkillDigests
    /\ faults \in 0 .. MaxMountFaults

MountInit ==
    /\ remote \in BOOLEAN
    /\ store = [d \in SkillDigests |-> "none"] /\ mounted = [d \in SkillDigests |-> "none"]
    /\ act = [a \in Activations |-> NoAct]
    /\ tainted = {} /\ withdrawn = {} /\ faults = 0

Goes(a, at) == act' = [act EXCEPT ![a].at = at]

\* PrivateSnapshotStore.save awaits nothing: a directory of that name is taken as it is,
\* else the snapshot is written whole ...
SaveSnapshot(a, d) ==
    /\ act[a].at = "new"
    /\ act' = [act EXCEPT ![a].at = "saved", ![a].digest = d]
    /\ store' = [store EXCEPT ![d] = IF @ = "none" THEN "whole" ELSE @]
    /\ UNCHANGED <<remote, mounted, tainted, withdrawn, faults>>

\* ... or it cannot be written, and what there is of it is removed ...
SaveFails(a) ==
    /\ act[a].at = "new" /\ faults < MaxMountFaults
    /\ Goes(a, "failed") /\ faults' = faults + 1
    /\ UNCHANGED <<remote, store, mounted, tainted, withdrawn>>

\* ... or the process dies half way, and with it every activation.
KillSaving(d) ==
    /\ \E a \in Activations : act[a].at = "new"
    /\ store[d] = "none" /\ faults < MaxMountFaults
    /\ store' = [store EXCEPT ![d] = "part"] /\ tainted' = tainted \cup {d}
    /\ act' = [a \in Activations |-> NoAct]
    /\ faults' = faults + 1
    /\ UNCHANGED <<remote, mounted, withdrawn>>

\* install_skill_snapshot: a digest that is mounted is not copied again.
LookForMount(a) ==
    LET d == act[a].digest IN
    /\ act[a].at = "saved"
    /\ act' = [act EXCEPT ![a].at = IF mounted[d] # "none" THEN "placed" ELSE "copying"]
    /\ UNCHANGED <<remote, store, mounted, tainted, withdrawn, faults>>

\* The files go to a staging directory, one await each.
CopyPart(a) ==
    /\ act[a].at = "copying" /\ act[a].staging = "none"
    /\ act' = [act EXCEPT ![a].staging = "part"]
    /\ UNCHANGED <<remote, store, mounted, tainted, withdrawn, faults>>

CopyRest(a) ==
    /\ act[a].at = "copying" /\ act[a].staging = "part"
    /\ act' = [act EXCEPT ![a].staging = store[act[a].digest], ![a].at = "copied"]
    /\ UNCHANGED <<remote, store, mounted, tainted, withdrawn, faults>>

\* mv staging target: into the target, when another activation has placed it meanwhile.
Place(a) ==
    LET d == act[a].digest IN
    /\ act[a].at = "copied"
    /\ mounted' = [mounted EXCEPT ![d] = IF @ = "none" THEN act[a].staging ELSE @]
    /\ act' = [act EXCEPT ![a].at = "placed", ![a].staging = "none"]
    /\ UNCHANGED <<remote, store, tainted, withdrawn, faults>>

\* A write or the move fails: only the staging directory is removed.
CopyFails(a) ==
    /\ act[a].at \in {"copying", "copied"} /\ faults < MaxMountFaults
    /\ act' = [act EXCEPT ![a].at = "failed", ![a].staging = "none"]
    /\ faults' = faults + 1
    /\ UNCHANGED <<remote, store, mounted, tainted, withdrawn>>

\* SSH: every file of the store's copy must be in the mount.
Verify(a) ==
    LET d == act[a].digest IN
    /\ act[a].at = "placed"
    /\ remote => mounted[d] = "whole" \/ mounted[d] = store[d]
    /\ Goes(a, "verified")
    /\ UNCHANGED <<remote, store, mounted, tainted, withdrawn, faults>>

\* A file that differs or cannot be read, or a record that cannot be written, removes the
\* mount, whoever else uses it.
MountFails(a) ==
    LET d == act[a].digest IN
    /\ \/ act[a].at = "placed" /\ remote /\ mounted[d] # "whole" /\ mounted[d] # store[d]
          /\ UNCHANGED faults
       \/ act[a].at \in (IF remote THEN {"placed", "verified"} ELSE {"verified"})
          /\ faults < MaxMountFaults /\ faults' = faults + 1
    /\ mounted' = [mounted EXCEPT ![d] = "none"]
    /\ withdrawn' = withdrawn \cup {d}
    /\ Goes(a, "failed")
    /\ UNCHANGED <<remote, store, tainted>>

\* The activation is recorded and its payload given to the model.
Activated(a) ==
    /\ act[a].at = "verified" /\ Goes(a, "done")
    /\ UNCHANGED <<remote, store, mounted, tainted, withdrawn, faults>>

\* What the store gives back of a snapshot: it has no other place to look.
Stored(d) == store[d]

\* The same request again: nothing is done, the payload is put together from the store.
Replay(a) ==
    /\ act[a].at = "done" /\ act[a].again = "none"
    /\ act' = [act EXCEPT ![a].again = Stored(act[a].digest)]
    /\ UNCHANGED <<remote, store, mounted, tainted, withdrawn, faults>>

MountNext ==
    \/ \E a \in Activations : \/ \E d \in SkillDigests : SaveSnapshot(a, d)
                              \/ LookForMount(a) \/ CopyPart(a) \/ CopyRest(a) \/ Place(a)
                              \/ CopyFails(a) \/ Verify(a) \/ MountFails(a) \/ Activated(a)
                              \/ SaveFails(a) \/ Replay(a)
    \/ \E d \in SkillDigests : KillSaving(d)

MountSpec == MountInit /\ [][MountNext]_mountVars

\* Whatever copied, failed or moved into it at the same time, the skill an activation gave
\* to the model lies whole in the sandbox, unless the store's copy was left half written by
\* a killed process (it is never looked at again) or another activation's failure took the
\* mount away; and a repeated request is given the same skill.
MountsWhole ==
    \A a \in Activations :
        act[a].at = "done" /\ act[a].digest \notin tainted
            => /\ act[a].digest \notin withdrawn => mounted[act[a].digest] = "whole"
               /\ act[a].again \in {"none", "whole"}

\* Not so after a kill ("a repeated request returns the SAME body", activation.py:248).
ReplaysWhole == \A a \in Activations : act[a].again # "part"

\* Not so: the rollback of one activation removes the mount another one relies on.
MountsStay ==
    \A a \in Activations :
        act[a].at = "done" /\ act[a].digest \notin tainted
            => mounted[act[a].digest] = "whole"
=============================================================================
