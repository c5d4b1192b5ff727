--------------------------- MODULE SkillInstalls ---------------------------
(***************************************************************************)
(* The directories of one skill name under a skills root, and what         *)
(* SkillInstaller does to them step by step: copy to a hidden staging      *)
(* directory, move the old version aside, move the new one in, delete the  *)
(* old one, write the install manifest.  The installer may be killed       *)
(* between any two steps.  Commands reach the installer one at a time;     *)
(* other processes read the root at any moment.                            *)
(***************************************************************************)
EXTENDS Naturals, FiniteSets

CONSTANTS Bodies,       \* what SKILL.md may say
          Resources,    \* what the other files of a skill may hold
          Backups,      \* names <skill>.bak-<time>; bounds the versions left behind
          MaxInstalls,
          MaxChanges    \* edits, trust decisions, removals and kills together

ASSUME SkillAssumption ==
    /\ MaxInstalls \in Nat /\ MaxChanges \in Nat
    /\ "none" \notin Bodies /\ Backups \cap {"none", "target"} = {}

NoDir == [body |-> "none", res |-> "none", manifest |-> "none"]
Dirs == [body : Bodies, res : Resources, manifest : {"none", "untrusted", "trusted"}]
Slots == {"target"} \cup Backups

VARIABLES
    dirs,       \* the directory of each slot
    staging,    \* the copy an install has staged (a dot directory: never discovered)
    backup,     \* the slot that holds the version the running install replaces
    installer,  \* where the running install stands
    owned,      \* ghost: a version has been put in place and not been uninstalled
    hurt,       \* ghost: an install was killed, or could not delete its backup
    installs, changes

installVars == <<dirs, staging, backup, installer, owned, hurt, installs, changes>>

InstallTypeOK ==
    /\ dirs \in [Slots -> Dirs \cup {NoDir}]
    /\ staging \in Dirs \cup {NoDir}
    /\ backup \in Backups \cup {"none"}
    /\ installer \in {"idle", "staged", "aside", "placed", "bare"}
    /\ owned \in BOOLEAN /\ hurt \in BOOLEAN
    /\ installs \in 0 .. MaxInstalls /\ changes \in 0 .. MaxChanges

\* A root without the skill, or with one its user wrote by hand.
InstallInit ==
    /\ dirs \in {[s \in Slots |-> IF s = "target" THEN d ELSE NoDir] :
                     d \in {NoDir} \cup {e \in Dirs : e.manifest = "none"}}
    /\ staging = NoDir /\ backup = "none" /\ installer = "idle"
    /\ owned = (dirs["target"] # NoDir) /\ hurt = FALSE
    /\ installs = 0 /\ changes = 0

\* What discovery sees: every directory with a SKILL.md whose name has no leading dot,
\* the backups among them.
Visible == {s \in Slots : dirs[s] # NoDir}

\* install_from_*, update: the source is validated and copied; a manifest in it is dropped.
Stage ==
    /\ installer = "idle" /\ installs < MaxInstalls
    /\ \E b \in Bodies, r \in Resources :
           staging' = [body |-> b, res |-> r, manifest |-> "none"]
    /\ installer' = "staged" /\ installs' = installs + 1
    /\ UNCHANGED <<dirs, backup, owned, hurt, changes>>

\* An older version moves to a name of its own.
MoveAside ==
    /\ installer = "staged" /\ installer' = "aside"
    /\ IF dirs["target"] = NoDir
       THEN UNCHANGED <<dirs, backup>>
       ELSE \E b \in Backups :
                /\ dirs[b] = NoDir
                /\ dirs' = [dirs EXCEPT !["target"] = NoDir, ![b] = dirs["target"]]
                /\ backup' = b
    /\ UNCHANGED <<staging, owned, hurt, installs, changes>>

\* The staged copy becomes the skill ...
MoveIn ==
    /\ installer = "aside" /\ installer' = "placed"
    /\ dirs' = [dirs EXCEPT !["target"] = staging]
    /\ staging' = NoDir /\ owned' = TRUE
    /\ UNCHANGED <<backup, hurt, installs, changes>>

\* ... or cannot be moved, and the old version comes back.
MoveInFails ==
    /\ installer = "aside" /\ installer' = "idle"
    /\ dirs' = IF backup = "none" THEN dirs
               ELSE [dirs EXCEPT !["target"] = dirs[backup], ![backup] = NoDir]
    /\ staging' = NoDir /\ backup' = "none"
    /\ UNCHANGED <<owned, hurt, installs, changes>>

\* The old version is deleted; errors while deleting are ignored.
DropBackup ==
    /\ installer = "placed" /\ installer' = "bare"
    /\ \/ /\ dirs' = IF backup = "none" THEN dirs ELSE [dirs EXCEPT ![backup] = NoDir]
          /\ UNCHANGED hurt
       \/ backup # "none" /\ hurt' = TRUE /\ UNCHANGED dirs
    /\ backup' = "none"
    /\ UNCHANGED <<staging, owned, installs, changes>>

\* Last of all the manifest: installed is not trusted.
WriteManifest ==
    /\ installer = "bare" /\ installer' = "idle"
    /\ dirs' = [dirs EXCEPT !["target"].manifest = "untrusted"]
    /\ UNCHANGED <<staging, backup, owned, hurt, installs, changes>>

\* The process of the install ends: the staging directory stays behind, out of sight.
KillInstaller ==
    /\ installer # "idle" /\ changes < MaxChanges
    /\ installer' = "idle" /\ staging' = NoDir /\ backup' = "none"
    /\ hurt' = TRUE /\ changes' = changes + 1
    /\ UNCHANGED <<dirs, owned, installs>>

\* skills/trust: refused for a directory without a manifest.
SetTrust(granted) ==
    /\ installer = "idle" /\ changes < MaxChanges
    /\ dirs["target"] # NoDir /\ dirs["target"].manifest # "none"
    /\ dirs' = [dirs EXCEPT !["target"].manifest = IF granted THEN "trusted" ELSE "untrusted"]
    /\ changes' = changes + 1
    /\ UNCHANGED <<staging, backup, installer, owned, hurt, installs>>

\* skills/remove: the directory of that name, and no other.
Uninstall ==
    /\ installer = "idle" /\ changes < MaxChanges
    /\ dirs["target"] # NoDir
    /\ dirs' = [dirs EXCEPT !["target"] = NoDir]
    /\ owned' = FALSE /\ changes' = changes + 1
    /\ UNCHANGED <<staging, backup, installer, hurt, installs>>

\* The user, or a job, edits one file of the skill in place.
EditSkill ==
    /\ dirs["target"] # NoDir /\ changes < MaxChanges
    /\ \/ \E b \in Bodies : dirs' = [dirs EXCEPT !["target"].body = b]
       \/ \E r \in Resources : dirs' = [dirs EXCEPT !["target"].res = r]
    /\ dirs' # dirs /\ changes' = changes + 1
    /\ UNCHANGED <<staging, backup, installer, owned, hurt, installs>>

InstallNext ==
    \/ Stage \/ MoveAside \/ MoveIn \/ MoveInFails \/ DropBackup \/ WriteManifest
    \/ KillInstaller \/ Uninstall \/ EditSkill
    \/ \E granted \in BOOLEAN : SetTrust(granted)

\* A skill that was in place and not uninstalled is on the disk in some whole version,
\* wherever an install was killed; and as long as no install was hurt, a finished one
\* leaves exactly one version.
SkillKept ==
    /\ owned => Visible # {}
    /\ installer = "idle" /\ ~hurt => Visible \subseteq {"target"}

\* Not so once an install was killed ("either the old or the new version, never a mix").
OldOrNew == installer = "idle" => Cardinality(Visible) <= 1
=============================================================================
