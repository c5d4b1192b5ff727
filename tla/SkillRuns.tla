----------------------------- MODULE SkillRuns -----------------------------
(***************************************************************************)
(* From the directories of a skill to what a turn of the agent may use:    *)
(* SkillCatalogService.reload, which compares fingerprints, reads the      *)
(* candidates, fingerprints again and freezes bodies and resources, each a *)
(* pass of its own over the disk; and SkillRuntime.prepare_turn, which     *)
(* takes the new catalogue as the view of the turn, or keeps the old one.  *)
(* The disk changes at any moment, the trust of the workspace too.         *)
(***************************************************************************)
EXTENDS SkillInstalls

CONSTANT MaxReloads

ASSUME SkillRunAssumption == MaxReloads \in Nat

VARIABLES
    trustedHere,  \* the user trusts the workspace
    catalog,      \* the service's catalogue: slot -> what was read of it
    prints,       \* the fingerprints, and the trust, it is taken to stand for
    signature,
    reload,       \* where the reload stands, what it has read and printed, and for whom
    view,         \* the catalogue of the runtime's current view
    digest,       \* its digest
    viewTorn,     \* ghost: that catalogue was torn
    moved,        \* ghost: the disk or the trust changed since the reload began
    torn,         \* ghost: they changed while the catalogue was being read
    reloads

skillRunVars == <<trustedHere, catalog, prints, signature, reload, view, digest,
                  viewTorn, moved, torn, reloads>>

\* A candidate: the digest is of the body the first pass read, body and resources are
\* those of the second; none of a directory that was gone by then.
Candidates == [digest : Bodies, trusted : BOOLEAN, body : Bodies \cup {"none"},
               res : Resources \cup {"none"}]

NoCatalog == [none |-> TRUE]
NoReload == [at |-> "idle", turn |-> FALSE, sign |-> FALSE, read |-> <<>>,
             prints |-> NoCatalog]

\* load_candidates: body and description digested, trust from the manifest (none: trusted).
Read == [s \in Visible |-> [digest |-> dirs[s].body,
                            trusted |-> trustedHere /\ dirs[s].manifest # "untrusted",
                            body |-> "none", res |-> "none"]]

\* build_catalog: bodies and resource bytes frozen by reading the disk once more.
Frozen(read) ==
    [s \in DOMAIN read |-> [read[s] EXCEPT !.body = dirs[s].body, !.res = dirs[s].res]]

\* Mutant: the fingerprint leaves the install manifest out.
FingerprintOfFiles == [s \in Visible |-> [body |-> dirs[s].body, res |-> dirs[s].res]]

\* fingerprint_source: every body, resource and manifest of the root.
Fingerprint == [s \in Visible |-> dirs[s]]

\* _catalog_digest: identity, body and trust; of the resources only the names.
CatalogDigest(c) == [s \in DOMAIN c |-> [digest |-> c[s].digest, trusted |-> c[s].trusted]]

\* Two directories with one name are an error diagnostic on both.
HasErrors(c) == Cardinality(DOMAIN c) > 1

SkillRunInit ==
    /\ InstallInit
    /\ trustedHere \in BOOLEAN
    /\ catalog = NoCatalog /\ prints = NoCatalog /\ signature = FALSE /\ reload = NoReload
    /\ view = NoCatalog /\ digest = NoCatalog
    /\ moved = FALSE /\ torn = FALSE /\ viewTorn = FALSE /\ reloads = 0

\* prepare_turn (turn) and skills/list, skills/reload (not turn) begin the same reload.
\* Nothing changed: the catalogue stays and the reload is over.
BeginReload(turn) ==
    /\ reload.at = "idle" /\ reloads < MaxReloads
    /\ reloads' = reloads + 1
    /\ reload' = [at |-> IF catalog # NoCatalog /\ prints = Fingerprint /\ signature = trustedHere
                         THEN "loaded" ELSE "read",
                  turn |-> turn, sign |-> trustedHere, read |-> <<>>, prints |-> NoCatalog]
    /\ moved' = FALSE
    /\ torn' = (torn /\ reload'.at = "loaded")
    /\ UNCHANGED <<trustedHere, catalog, prints, signature, view, digest, viewTorn,  installVars>>

ReadCandidates ==
    /\ reload.at = "read"
    /\ reload' = [reload EXCEPT !.at = "print", !.read = Read]
    /\ UNCHANGED <<trustedHere, catalog, prints, signature, view, digest, viewTorn, moved,
                   torn, reloads,  installVars>>

\* The fingerprints are an argument of the new catalogue: taken before it freezes anything.
TakeFingerprints ==
    /\ reload.at = "print"
    /\ reload' = [reload EXCEPT !.at = "freeze", !.prints = Fingerprint]
    /\ UNCHANGED <<trustedHere, catalog, prints, signature, view, digest, viewTorn, moved,
                   torn, reloads,  installVars>>

FreezeBodies ==
    /\ reload.at = "freeze"
    /\ reload' = [reload EXCEPT !.at = "built", !.read = Frozen(reload.read)]
    /\ UNCHANGED <<trustedHere, catalog, prints, signature, view, digest, viewTorn, moved,
                   torn, reloads,  installVars>>

\* The trust is taken last, but reload() puts back the one it saw first, except for the
\* first load of all.
CommitCatalog ==
    /\ reload.at = "built"
    /\ catalog' = reload.read /\ prints' = reload.prints
    /\ signature' = IF catalog = NoCatalog THEN trustedHere ELSE reload.sign
    /\ torn' = (torn \/ moved)
    /\ reload' = [reload EXCEPT !.at = "loaded"]
    /\ UNCHANGED <<trustedHere, view, digest, viewTorn, moved, reloads,  installVars>>

\* The rest of prepare_turn: a catalogue with errors is refused, one with the digest of
\* the view changes nothing, any other one becomes the view.
KeepsView == HasErrors(catalog) \/ (view # NoCatalog /\ CatalogDigest(catalog) = digest)

EndReload ==
    /\ reload.at = "loaded"
    /\ IF reload.turn /\ ~KeepsView
       THEN view' = catalog /\ digest' = CatalogDigest(catalog) /\ viewTorn' = torn
       ELSE UNCHANGED <<view, digest, viewTorn>>
    /\ reload' = [NoReload EXCEPT !.turn = reload.turn]
    /\ UNCHANGED <<trustedHere, catalog, prints, signature, moved, torn, reloads,  installVars>>

\* A workspace is trusted or no longer so.
FlipTrust ==
    /\ changes < MaxChanges /\ changes' = changes + 1
    /\ trustedHere' = ~trustedHere /\ moved' = TRUE
    /\ UNCHANGED <<catalog, prints, signature, reload, view, digest, viewTorn, torn,
                   reloads, dirs, staging, backup, installer, owned, hurt, installs>>

\* Any step of the installer or of an editor, under the eyes of the service.
DiskStep ==
    /\ InstallNext
    /\ moved' = (moved \/ dirs' # dirs)
    /\ UNCHANGED <<trustedHere, catalog, prints, signature, reload, view, digest, viewTorn,
                   torn, reloads>>

SkillRunNext ==
    \/ \E turn \in BOOLEAN : BeginReload(turn)
    \/ ReadCandidates \/ TakeFingerprints \/ FreezeBodies \/ CommitCatalog \/ EndReload
    \/ FlipTrust \/ DiskStep

SkillRunSpec == SkillRunInit /\ [][SkillRunNext]_<<installVars, skillRunVars>>

\* The types of the catalogue side.
SkillRunTypeOK ==
    /\ InstallTypeOK
    /\ trustedHere \in BOOLEAN /\ signature \in BOOLEAN
    /\ reload.at \in {"idle", "read", "print", "freeze", "built", "loaded"}
    /\ catalog = NoCatalog \/ \A s \in DOMAIN catalog : s \in Slots /\ catalog[s] \in Candidates
    /\ viewTorn \in BOOLEAN /\ moved \in BOOLEAN /\ torn \in BOOLEAN
    /\ reloads \in 0 .. MaxReloads

Quiet == reload.at = "idle" /\ ~moved /\ ~torn /\ catalog # NoCatalog

\* After a reload nothing changed under, the catalogue is what the disk holds and the user
\* trusts, whatever was installed, edited, trusted or killed before it ...
CatalogCurrent == Quiet => catalog = Frozen(Read)

\* ... and a turn prepared by it works with those instructions and that trust, unless two
\* directories claim the name.
TurnCurrent ==
    Quiet /\ reload.turn /\ ~viewTorn /\ ~HasErrors(catalog) =>
        /\ view # NoCatalog /\ DOMAIN view = DOMAIN catalog
        /\ \A s \in DOMAIN view : /\ view[s].body = catalog[s].body
                                  /\ view[s].trusted = catalog[s].trusted
SkillsCurrent == CatalogCurrent /\ TurnCurrent

\* Not so: a change of a resource alone gives a new generation ("Content changed") but no
\* new view, and an edit made while a catalogue is read is never looked for again.
ResourcesCurrent == Quiet /\ reload.turn /\ ~viewTorn /\ ~HasErrors(catalog) => view = catalog
EditsNoticed == reload.at = "idle" /\ ~moved /\ catalog # NoCatalog => catalog = Frozen(Read)
=============================================================================
