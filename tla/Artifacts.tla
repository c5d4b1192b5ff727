----------------------------- MODULE Artifacts -----------------------------
(***************************************************************************)
(* The artifacts of a thread (artifacts/manifest.py, registry.py,          *)
(* training.py, engine/run_engine.py): one artifact, its file, its         *)
(* manifest, the versions it replaced and the training set that is packed  *)
(* from accepted ones.                                                     *)
(*                                                                         *)
(* A content of the file is also its digest. The agent creates artifacts;  *)
(* commands of the front ends complete, validate, accept and reject them,  *)
(* a run of the parser decides which of validate and its failure it is. A  *)
(* front end may also register a manifest of its own making, whose verdict *)
(* and status the registry takes as they are.                              *)
(***************************************************************************)
EXTENDS Integers, Sequences

CONSTANTS
    Digests,     \* contents of the file
    Sound,       \* those the deterministic parser finds valid
    MaxVersions, \* bound: versions that were replaced
    MaxClaims    \* bound: manifests that a front end makes

ASSUME ArtifactConstants == Sound \subseteq Digests /\ MaxVersions \in Nat /\ MaxClaims \in Nat

VARIABLES
    artifactFile,  \* what the file at the manifest's path holds
    manifest,      \* the current manifest
    oldVersions,   \* the manifests at {id}@v1, {id}@v2 ...
    packed,        \* the manifest whose file the training set got last
    parsed,        \* history: digests the parser was run on and found valid
    misjudged,     \* history: the parser has judged another content than the
                   \* registered one
    claims         \* how many manifests front ends have made

artVars == <<artifactFile, manifest, oldVersions, packed, parsed, misjudged, claims>>

\* "said" is a history: the fields that are still as a front end sent them.
Statuses_ == {"created", "completed", "validated", "accepted", "rejected", "superseded"}
Verdicts == {"created", "validated", "rejected"}
Confirmers == {"nobody", "somebody"}
Manifest == [known : {TRUE}, sha : Digests, valid : Verdicts, status : Statuses_,
             by : Confirmers, said : SUBSET {"valid", "status"}]
NoManifest == [known |-> FALSE]

\* A manifest as it is sent: what is not "created" is the sender's word.
Sent(sha, valid, status, by) ==
    [known |-> TRUE, sha |-> sha, valid |-> valid, status |-> status, by |-> by,
     said |-> {f \in {"valid", "status"} : (IF f = "valid" THEN valid ELSE status) # "created"}]
Fresh(d) == Sent(d, "created", "created", "nobody")

\* _ACCEPTANCE_TRANSITIONS, as far as commands use it.
MayAccept(s) == CASE s = "created" -> {"completed", "rejected", "superseded"}
                  [] s \in {"completed", "validated"} -> {"accepted", "rejected", "superseded"}
                  [] s = "accepted" -> {"superseded"}
                  [] s = "rejected" -> {"completed", "superseded"}
                  [] OTHER -> {}

\* _VALIDATION_TRANSITIONS, whose key is the acceptance status.
MayJudge(s) == CASE s \in {"created", "validated"} -> {"rejected"}
                 [] s = "completed" -> {"validated", "rejected"}
                 [] s = "rejected" -> {"validated"}
                 [] OTHER -> {}

ArtInit ==
    /\ artifactFile \in Digests
    /\ manifest = NoManifest /\ oldVersions = <<>>
    /\ packed = NoManifest /\ parsed = {} /\ misjudged = FALSE /\ claims = 0

-----------------------------------------------------------------------------
(* The registry *)

\* Mutant: a replaced version goes to one slot only.
RegisterOneSlot(m) ==
    /\ manifest' = m
    /\ oldVersions' = IF manifest.known /\ manifest.sha # m.sha
                      THEN <<[manifest EXCEPT !.status = "superseded"]>>
                      ELSE oldVersions
    /\ UNCHANGED <<artifactFile, packed, parsed, misjudged>>

\* Another digest than before moves the old manifest, superseded, to the next
\* free version; the same one overwrites the manifest in place.
Register(m) ==
    /\ manifest' = m
    /\ oldVersions' = IF manifest.known /\ manifest.sha # m.sha
                      THEN Append(oldVersions, [manifest EXCEPT !.status = "superseded"])
                      ELSE oldVersions
    /\ UNCHANGED <<artifactFile, packed, parsed, misjudged>>

\* There is room for the version that m replaces.
Room(m) == Len(oldVersions) < MaxVersions \/ (manifest.known /\ manifest.sha = m.sha)

\* The agent's tool: the digest of the file as it is now, everything fresh.
RegisterFile ==
    /\ Room(Fresh(artifactFile)) /\ Register(Fresh(artifactFile))
    /\ UNCHANGED claims

\* artifact/register of a front end: its manifest, with any digest, verdict,
\* status and confirmer.
RegisterSent ==
    /\ claims < MaxClaims /\ claims' = claims + 1
    /\ \E sha \in Digests, valid \in Verdicts, status \in Statuses_, by \in Confirmers :
         Room(Sent(sha, valid, status, by)) /\ Register(Sent(sha, valid, status, by))

\* The file is written again (a job, a tool, an editor).
RewriteFile(d) ==
    /\ d # artifactFile
    /\ artifactFile' = d
    /\ UNCHANGED <<manifest, oldVersions, packed, parsed, misjudged, claims>>

-----------------------------------------------------------------------------
(* Commands *)

Step(m) ==
    /\ manifest' = m
    /\ UNCHANGED <<artifactFile, oldVersions, packed, claims>>

WithStatus(s) == [manifest EXCEPT !.status = s, !.said = @ \ {"status"}]
WithVerdict(v) == [manifest EXCEPT !.valid = v, !.said = @ \ {"valid"}]

\* artifact_complete: the program has ended.
Complete ==
    /\ manifest.known /\ "completed" \in MayAccept(manifest.status)
    /\ Step(WithStatus("completed"))
    /\ UNCHANGED <<parsed, misjudged>>

\* artifact_validate_with_parser: parses the file as it is now and records
\* the verdict, if the acceptance status admits it.
Validate ==
    /\ manifest.known
    /\ LET verdict == IF artifactFile \in Sound THEN "validated" ELSE "rejected"
       IN  /\ verdict \in MayJudge(manifest.status)
           /\ Step(WithVerdict(verdict))
    /\ parsed' = parsed \cup ({artifactFile} \cap Sound)
    /\ misjudged' = (misjudged \/ artifactFile # manifest.sha)

\* artifact_accept by the user or a reviewer, never by the agent who made it.
Accept ==
    /\ manifest.known /\ manifest.valid = "validated"
    /\ "accepted" \in MayAccept(manifest.status)
    /\ Step([WithStatus("accepted") EXCEPT !.by = "somebody"])
    /\ UNCHANGED <<parsed, misjudged>>

\* artifact_reject.
Reject ==
    /\ manifest.known /\ "rejected" \in MayAccept(manifest.status)
    /\ Step(WithStatus("rejected"))
    /\ UNCHANGED <<parsed, misjudged>>

\* accepted_for_training: an accepted manifest whose file has its digest.
Pack ==
    /\ manifest.known /\ manifest.status = "accepted" /\ artifactFile = manifest.sha
    /\ packed' = manifest
    /\ UNCHANGED <<artifactFile, manifest, oldVersions, parsed, misjudged, claims>>

ArtNext ==
    \/ RegisterFile \/ RegisterSent
    \/ \E d \in Digests : RewriteFile(d)
    \/ Complete \/ Validate \/ Accept \/ Reject \/ Pack

ArtSpec == ArtInit /\ [][ArtNext]_artVars

-----------------------------------------------------------------------------
(* Properties *)

\* Every variable keeps its type.
ArtTypeOK ==
    /\ artifactFile \in Digests /\ manifest \in Manifest \cup {NoManifest}
    /\ oldVersions \in Seq(Manifest) /\ Len(oldVersions) <= MaxVersions
    /\ packed \in Manifest \cup {NoManifest} /\ parsed \subseteq Sound
    /\ misjudged \in BOOLEAN /\ claims \in 0..MaxClaims

\* An accepted artifact is validated and names a confirmer, whatever was
\* completed, rejected, repaired and parsed in between (R2-6 in accept), unless
\* a front end registered it as accepted.
AcceptedWasValidated ==
    manifest.known /\ manifest.status = "accepted" /\ "status" \notin manifest.said =>
        manifest.valid = "validated" /\ manifest.by # "nobody"

\* A verdict on the registered content is the parser's or a front end's word.
\* That the parser ran on registered contents is a proviso:
\* artifact_validate_with_parser does not compare the digest.
ValidWasParsed ==
    manifest.known /\ manifest.valid = "validated" /\ ~misjudged =>
        manifest.sha \in parsed \/ "valid" \in manifest.said

\* Every version that was replaced is kept, superseded; an accepted one was
\* validated (P1.1 in register).
VersionsKept ==
    [][/\ Len(oldVersions') >= Len(oldVersions)
       /\ \A i \in 1..Len(oldVersions) : oldVersions'[i] = oldVersions[i]
       /\ manifest.known /\ manifest'.sha # manifest.sha =>
            /\ Len(oldVersions') = Len(oldVersions) + 1
            /\ oldVersions'[Len(oldVersions')].sha = manifest.sha]_artVars

\* "Numbers that were not validated must not enter the training set": what is
\* packed was found valid by the parser, whatever was registered again,
\* replaced, rewritten or sent with a status, under the same proviso and
\* unless the verdict or the acceptance was a front end's word to the end.
TrainingDataWasParsed ==
    packed.known /\ packed.said = {} /\ ~misjudged => packed.sha \in parsed

\* Neither an acceptance nor the training set goes past the parser.
NothingUnvalidated == AcceptedWasValidated /\ ValidWasParsed /\ TrainingDataWasParsed

\* What the registry promises of an artifact over all its versions.
ArtifactsSound == [](ArtTypeOK /\ NothingUnvalidated) /\ VersionsKept

\* The same without the provisos: the verdict is about the file as it was when
\* the parser ran, not about the digest of the manifest, and the registry takes
\* a front end's verdict and acceptance for its own.
TrainingDataAlwaysParsed == packed.known => packed.sha \in parsed
=============================================================================
