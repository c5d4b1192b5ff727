------------------------------ MODULE Settings ------------------------------
(***************************************************************************)
(* The settings of a process (app/config.py): the files of the user, of    *)
(* the project and of this machine, read one after another and laid over   *)
(* each other, the trust of the project, the commands that rewrite these   *)
(* files while other processes read them (app/commands/config.py,          *)
(* app/setup.py), and what a process makes of them when it opens a runner  *)
(* and resolves a model (electromind/model_resolver.py).                   *)
(***************************************************************************)
EXTENDS Integers, FiniteSets

CONSTANTS
    Procs,      \* processes of this user
    Options,    \* command lines: [model, perm], Unset where not given
    Edits,      \* commands [kind, file, field, value]; see Begin
    ProjectFile,\* what <project>/.electromind/config.toml says, or NoFile
    OldFiles,   \* what electromind.toml of an older version may say, or NoFile
    Requests,   \* model choices sent with an input: [model, mode, need, phase]
    Offers,     \* sets of models a provider may offer
    MaxOps      \* bound: processes launched and commands begun

Fields == {"key", "model", "perm"}
Unset == "unset"
Nothing == [f \in Fields |-> Unset]
NoFile == [f \in Fields |-> "no file"]
Torn == [f \in Fields |-> "torn"]     \* truncated and not yet written again
Unreadable == [f \in Fields |-> "unreadable"]
TornTrust == {"torn"}

\* resources/default-config.toml
Default == [key |-> Unset, model |-> "flash", perm |-> "prompt"]

Marks == {"no file", "torn", "unreadable"}
IsLayer(c) == c = [f \in Fields |-> c[f]] /\ \A f \in Fields : c[f] \notin Marks

ASSUME SettingsInputs ==
    /\ \A c \in OldFiles \cup {ProjectFile} : c = NoFile \/ IsLayer(c)
    /\ \A e \in Edits : /\ e.kind \in {"set", "provider", "trust", "untrust"}
                        /\ e.file \in {"user", "project"} /\ e.field \in Fields /\ e.value \notin Marks
                        /\ e.kind = "provider" => e.file = "user"
    /\ \A q \in Requests : q = [model |-> q.model, mode |-> q.mode, need |-> q.need, phase |-> q.phase]

VARIABLES
    file,     \* content of each settings file: a layer, NoFile or Torn
    tmp,      \* config.toml.tmp of `config set`
    trust,    \* trusted.json: a set of projects, or TornTrust
    at,       \* what each process is doing
    job,      \* the command a process carries out, or its options
    read,     \* what it has read for it
    config,   \* the settings of a process that is up
    opened,   \* provider of the runner it opened: [key, model], or NoProvider
    told,     \* the model the Run was announced with, or Silent
    ops

\* History: what commands have said, what the last one put into the user's file, the
\* overlaps that lost something, the keys in force while a process opened its runner, trust
\* ever given.
VARIABLES said, wrote, lost, during, trustedEver, autoEver

settingsVars == <<file, tmp, trust, at, job, read, config, opened, told, ops,
                  said, wrote, lost, during, trustedEver, autoEver>>

None == "none"
NoSettings == [f \in Fields |-> None]
NoProvider == [key |-> None, model |-> None]
Silent == [model |-> None, fallback |-> None]
Layer(c) == c \notin {NoFile, Torn, Unreadable}

\* parse_settings: a layer with an illegal mode is refused as a whole.
Legal(c) == Layer(c) => c["perm"] /= "bad"

\* merge_settings: each field from the topmost layer that has it.
Over(low, high) == [f \in Fields |-> IF Layer(high) /\ high[f] /= Unset THEN high[f] ELSE low[f]]
Merged(r) == Over(Over(Default, r.user), r.project)

\* RunOptions.apply_to: the command line over everything.
Applied(c, o) == [c EXCEPT !["model"] = IF o.model = Unset THEN @ ELSE o.model,
                           !["perm"] = IF o.perm = Unset THEN @ ELSE o.perm]

\* What a reader makes of a file: a torn one is empty or does not parse.
Readings(c) == IF c = Torn THEN {Nothing, Unreadable} ELSE {c}
-----------------------------------------------------------------------------
(* The resolver: a policy, a mode and what a provider offers give a model. *)
Profiles == {"fast", "balanced", "best"}
ProfileRank == [fast |-> 1, balanced |-> 2, best |-> 3]
Route == [fast |-> "flash", balanced |-> "pro", best |-> "pro"]

PolicyKind(m) == CASE m \in {Unset, "auto"} -> "auto"
                   [] m \in Profiles -> "profile"
                   [] m = "plan-execute" -> "hybrid"
                   [] OTHER -> "named"

\* The profile a request comes down to: the skill's need counts under "auto".
ProfileOf(q) ==
    CASE PolicyKind(q.model) = "profile" -> q.model
      [] PolicyKind(q.model) = "hybrid" -> IF q.phase = "plan" THEN "best" ELSE "balanced"
      [] OTHER -> IF q.need \in Profiles THEN q.need
                  ELSE IF q.mode = "ask" THEN "fast"
                  ELSE IF q.mode = "plan" THEN "best" ELSE "balanced"

\* _model_for_profile: the routed model, else the best lower one on offer, else
\* the last one on offer.
ModelFor(p, offer) ==
    LET lower == {l \in Profiles : ProfileRank[l] <= ProfileRank[p] /\ Route[l] \in offer}
    IN  IF Route[p] \in offer THEN {Route[p]}
        ELSE IF lower /= {} THEN {Route[l] : l \in {l \in lower : \A k \in lower : ProfileRank[k] <= ProfileRank[l]}}
        ELSE IF offer /= {} THEN offer ELSE {Route[p]}

\* _fallback_for: what a degraded choice replaced.
Fallback(q, m) == IF m = Route[ProfileOf(q)] THEN None ELSE Route[ProfileOf(q)]

Resolutions(q, offer) ==
    IF PolicyKind(q.model) = "named"
    THEN {[model |-> q.model, fallback |-> None]}
    ELSE {[model |-> m, fallback |-> Fallback(q, m)] : m \in ModelFor(ProfileOf(q), offer)}

\* ReplConfig.resolved_model: a policy word goes through the resolver.
Effective(m) ==
    LET q == [model |-> m, mode |-> "agent", need |-> None, phase |-> "plan"]
    IN  CHOOSE e \in {r.model : r \in Resolutions(q, {"flash", "pro"})} : TRUE
-----------------------------------------------------------------------------
SettingsInit ==
    /\ \E c \in OldFiles : /\ file = [user |-> NoFile, project |-> ProjectFile, old |-> c]
                           /\ autoEver = (c["perm"] = "auto")
    /\ tmp = NoFile
    /\ trust = {}
    /\ at = [p \in Procs |-> "off"]
    /\ job = [p \in Procs |-> None]
    /\ read = [p \in Procs |-> None]
    /\ config = [p \in Procs |-> NoSettings]
    /\ opened = [p \in Procs |-> NoProvider]
    /\ told = [p \in Procs |-> Silent]
    /\ ops = 0
    /\ said = Nothing /\ wrote = NoFile
    /\ lost = {}
    /\ during = [p \in Procs |-> {}]
    /\ trustedEver = FALSE

history == <<said, wrote, lost, during, trustedEver, autoEver>>
Go(p, to) == at' = [at EXCEPT ![p] = to]
OnDisk == [user |-> file["user"], project |-> file["project"]]
NoteKeys == during' = [p \in Procs |-> IF at[p] \in {"off", "up"} THEN during[p] ELSE during[p] \cup {OnDisk'}]
-----------------------------------------------------------------------------
(* A process starts, or opens a runner: load_config reads the layers.      *)
Launch(p, o) ==
    /\ at[p] = "off" /\ ops < MaxOps
    /\ ops' = ops + 1
    /\ Go(p, "trust")
    /\ job' = [job EXCEPT ![p] = [kind |-> "start", options |-> o]]
    /\ during' = [during EXCEPT ![p] = {OnDisk}]
    /\ UNCHANGED <<file, tmp, trust, read, config, opened, told, said, wrote, lost, trustedEver, autoEver>>

\* open_runner: refresh_provider_from_disk.
OpenRunner(p) ==
    /\ at[p] = "up" /\ opened[p] = NoProvider
    /\ Go(p, "trust")
    /\ job' = [job EXCEPT ![p].kind = "open"]
    /\ during' = [during EXCEPT ![p] = {OnDisk}]
    /\ UNCHANGED <<file, tmp, trust, read, config, opened, told, ops, said, wrote, lost, trustedEver, autoEver>>

\* A project counts if the user trusts it; a torn trusted.json trusts none.
LoadTrust(p) ==
    /\ at[p] = "trust"
    /\ read' = [read EXCEPT ![p] = [trusted |-> trust /= TornTrust /\ "here" \in trust, user |-> NoFile, project |-> NoFile]]
    /\ Go(p, "adopt")
    /\ UNCHANGED <<file, tmp, trust, job, config, opened, told, ops, history>>

\* _adopt_legacy: the old name's file becomes config.toml unless there is one.
Adopt(p) ==
    /\ at[p] = "adopt"
    /\ IF file["user"] = NoFile /\ file["old"] /= NoFile
       THEN file' = [file EXCEPT !["user"] = file["old"]] /\ Go(p, "unlink")
       ELSE UNCHANGED file /\ Go(p, IF file["user"] = NoFile THEN "publish" ELSE "user")
    /\ NoteKeys
    /\ UNCHANGED <<tmp, trust, job, read, config, opened, told, ops, said, wrote, lost, trustedEver, autoEver>>

DropOld(p) ==
    /\ at[p] = "unlink"
    /\ file' = [file EXCEPT !["old"] = NoFile]
    /\ Go(p, "user")
    /\ UNCHANGED <<tmp, trust, job, read, config, opened, told, ops, history>>

\* Mutant: the default is renamed into place over what came meanwhile.
PublishOver(p) ==
    /\ at[p] = "publish"
    /\ file' = [file EXCEPT !["user"] = Default]
    /\ Go(p, "user")
    /\ NoteKeys
    /\ UNCHANGED <<tmp, trust, job, read, config, opened, told, ops, said, wrote, lost, trustedEver, autoEver>>

\* ensure_home_config: the default, linked into place where no file is.
Publish(p) ==
    /\ at[p] = "publish"
    /\ file' = [file EXCEPT !["user"] = IF @ = NoFile THEN Default ELSE @]
    /\ Go(p, "user")
    /\ NoteKeys
    /\ UNCHANGED <<tmp, trust, job, read, config, opened, told, ops, said, wrote, lost, trustedEver, autoEver>>

ReadUser(p) ==
    /\ at[p] = "user"
    /\ \E c \in Readings(file["user"]) :
          IF c = Unreadable \/ ~Legal(c)
          THEN Go(p, IF job[p].kind = "start" THEN "off" ELSE "up") /\ UNCHANGED read
          ELSE read' = [read EXCEPT ![p].user = c] /\ Go(p, "project")
    /\ UNCHANGED <<file, tmp, trust, job, config, opened, told, ops, history>>

\* The last layer; then the process is up, or its runner has its provider.
Ready(p, r) ==
    IF job[p].kind = "start"
    THEN /\ config' = [config EXCEPT ![p] = Applied(Merged(r), job[p].options)]
         /\ UNCHANGED opened
    ELSE /\ opened' = [opened EXCEPT ![p] = LET fresh == Over(config[p], Merged(r)) IN
                          [key |-> fresh["key"], model |-> Effective(fresh["model"])]]
         /\ UNCHANGED config

ReadProject(p) ==
    /\ at[p] = "project"
    /\ \E c \in IF read[p].trusted THEN Readings(file["project"]) ELSE {NoFile} :
          IF c = Unreadable \/ ~Legal(c)
          THEN Go(p, IF job[p].kind = "start" THEN "off" ELSE "up") /\ UNCHANGED <<config, opened, read>>
          ELSE /\ read' = [read EXCEPT ![p].project = c]
               /\ Ready(p, [read[p] EXCEPT !.project = c])
               /\ Go(p, "up")
    /\ UNCHANGED <<file, tmp, trust, job, told, ops, history>>

\* input/send: the snapshot and the announcement use the input's model, or
\* the process's own settings.
Announce(p, q, offer) ==
    /\ at[p] = "up" /\ opened[p] /= NoProvider /\ told[p].model = None
    /\ \E r \in Resolutions([q EXCEPT !.model = IF @ = Unset THEN config[p]["model"] ELSE @], offer) :
          told' = [told EXCEPT ![p] = [model |-> r.model, fallback |-> r.fallback, request |-> q, offer |-> offer]]
    /\ UNCHANGED <<file, tmp, trust, at, job, read, config, opened, ops, history>>

Leave(p) ==
    /\ at[p] = "up"
    /\ Go(p, "off")
    /\ config' = [config EXCEPT ![p] = NoSettings]
    /\ opened' = [opened EXCEPT ![p] = NoProvider]
    /\ told' = [told EXCEPT ![p] = Silent]
    /\ UNCHANGED <<file, tmp, trust, job, read, ops, history>>
-----------------------------------------------------------------------------
(* The commands that rewrite: each reads, computes and writes the whole;   *)
(* the provider's fields are put into the text, whether it parses or not.  *)
Begin(p, e) ==
    /\ at[p] = "off" /\ ops < MaxOps
    /\ ops' = ops + 1
    /\ job' = [job EXCEPT ![p] = e]
    /\ IF e.kind \in {"trust", "untrust"}
       THEN /\ read' = [read EXCEPT ![p] = IF trust = TornTrust THEN {} ELSE trust]
            /\ Go(p, "truncate trust")
       ELSE \E c \in Readings(file[e.file]) :
               IF c = Unreadable /\ e.kind = "set" THEN Go(p, "off") /\ UNCHANGED read
               ELSE /\ read' = [read EXCEPT ![p] = c]
                    /\ Go(p, IF e.kind = "set" THEN "open tmp" ELSE "truncate")
    /\ UNCHANGED <<file, tmp, trust, config, opened, told, history>>

\* The new content: one field set or unset; the provider's key and model.
Written(p) ==
    LET c == IF Layer(read[p]) THEN read[p] ELSE Nothing IN
    IF job[p].kind = "provider" THEN [c EXCEPT !["key"] = job[p].value, !["model"] = "flash"]
    ELSE [c EXCEPT ![job[p].field] = job[p].value]

Said(p) == IF job[p].file /= "user" THEN said
           ELSE [f \in Fields |-> IF Written(p)[f] /= (IF Layer(read[p]) THEN read[p][f] ELSE Unset) \/ f = job[p].field
                                  THEN Written(p)[f] ELSE said[f]]

\* A command that writes over what another one left there meanwhile loses that; it may write
\* over what a start has put there.
Overlap(p, now) ==
    IF now = read[p] \/ (job[p].file = "user" /\ wrote = NoFile) THEN lost ELSE lost \cup {job[p].kind}
Puts(p, c) ==
    /\ file' = [file EXCEPT ![job[p].file] = c]
    /\ wrote' = IF job[p].file = "user" THEN c ELSE wrote

\* config set: config.toml.tmp is written and renamed; the name is shared.
OpenTmp(p) ==
    /\ at[p] = "open tmp"
    /\ tmp' = Torn
    /\ Go(p, "fill tmp")
    /\ UNCHANGED <<file, trust, job, read, config, opened, told, ops, history>>

FillTmp(p) ==
    /\ at[p] = "fill tmp"
    /\ tmp' = Written(p)
    /\ Go(p, "rename")
    /\ UNCHANGED <<file, trust, job, read, config, opened, told, ops, history>>

Rename(p) ==
    /\ at[p] = "rename"
    /\ Go(p, "off")
    /\ IF tmp = NoFile THEN UNCHANGED <<file, tmp, said, wrote, lost, during, autoEver>>
       ELSE /\ Puts(p, tmp) /\ tmp' = NoFile
            /\ said' = Said(p)
            /\ lost' = IF tmp = Written(p) THEN Overlap(p, file[job[p].file]) ELSE lost \cup {"set"}
            /\ autoEver' = (autoEver \/ (job[p].file = "user" /\ Layer(tmp) /\ tmp["perm"] = "auto"))
            /\ NoteKeys
    /\ UNCHANGED <<trust, job, read, config, opened, told, ops, trustedEver>>

\* set_provider: write_text truncates config.toml and writes it again.
Truncate(p) ==
    /\ at[p] = "truncate"
    /\ Puts(p, Torn)
    /\ lost' = Overlap(p, file[job[p].file])
    /\ Go(p, "fill")
    /\ NoteKeys
    /\ UNCHANGED <<tmp, trust, job, read, config, opened, told, ops, said, trustedEver, autoEver>>

Fill(p) ==
    /\ at[p] = "fill"
    /\ Puts(p, Written(p)) \/ (read[p] = Unreadable /\ Puts(p, Torn))
    /\ lost' = IF file[job[p].file] = Torn THEN lost ELSE lost \cup {"provider"}
    /\ said' = Said(p)
    /\ Go(p, "off")
    /\ NoteKeys
    /\ UNCHANGED <<tmp, trust, job, read, config, opened, told, ops, trustedEver, autoEver>>

\* trust_project, untrust_project: trusted.json likewise.
TruncateTrust(p) ==
    /\ at[p] = "truncate trust"
    /\ lost' = IF trust = read[p] THEN lost ELSE lost \cup {"trust"}
    /\ trust' = TornTrust
    /\ Go(p, "fill trust")
    /\ UNCHANGED <<file, tmp, job, read, config, opened, told, ops, said, wrote, during, trustedEver, autoEver>>

FillTrust(p) ==
    /\ at[p] = "fill trust"
    /\ trust' = IF job[p].kind = "trust" THEN read[p] \cup {job[p].value} ELSE read[p] \ {job[p].value}
    /\ lost' = IF trust = TornTrust THEN lost ELSE lost \cup {"trust"}
    /\ trustedEver' = (trustedEver \/ (job[p].kind = "trust" /\ job[p].value = "here"))
    /\ Go(p, "off")
    /\ UNCHANGED <<file, tmp, job, read, config, opened, told, ops, said, wrote, during, autoEver>>

\* A process is killed with all it knew; what it wrote so far stays.
KillProcess(p) ==
    /\ at[p] \in {"fill", "fill trust", "unlink", "fill tmp"}
    /\ lost' = lost \cup (CASE at[p] = "fill" -> {"provider"} [] at[p] = "fill trust" -> {"trust"} [] OTHER -> {})
    /\ Go(p, "off")
    /\ config' = [config EXCEPT ![p] = NoSettings]
    /\ opened' = [opened EXCEPT ![p] = NoProvider]
    /\ told' = [told EXCEPT ![p] = Silent]
    /\ UNCHANGED <<file, tmp, trust, job, read, ops, said, wrote, during, trustedEver, autoEver>>

ProcStep(p) ==
    \/ OpenRunner(p) \/ LoadTrust(p) \/ Adopt(p) \/ DropOld(p) \/ Publish(p) \/ ReadUser(p) \/ ReadProject(p)
    \/ Leave(p) \/ OpenTmp(p) \/ FillTmp(p) \/ Rename(p) \/ Truncate(p) \/ Fill(p) \/ TruncateTrust(p)
    \/ FillTrust(p) \/ KillProcess(p)

SettingsNext ==
    \E p \in Procs :
       \/ \E o \in Options : Launch(p, o)
       \/ \E e \in Edits : Begin(p, e)
       \/ \E q \in Requests, offer \in Offers : Announce(p, q, offer)
       \/ ProcStep(p)

SettingsSpec == SettingsInit /\ [][SettingsNext]_settingsVars
-----------------------------------------------------------------------------
Writing == \E p \in Procs : at[p] \in {"fill", "rename"}

\* A start of the program, also the very first one and several at once, never
\* replaces settings a command has already written (ensure_home_config).
StartKeepsSettings == wrote /= NoFile => file["user"] = wrote

\* Where no two commands overlapped and none was killed, the user's file says
\* what the last command said of each field, also if a start has put the file
\* there between the reading and the writing of a command.
SaidIsOnFile ==
    lost = {} /\ ~Writing =>
       \A f \in Fields : said[f] /= Unset => Layer(file["user"]) /\ file["user"][f] = said[f]

\* The key of the user's file, or the one a project's file lays over it.
KeyOf(user, project) == Over(Over(Nothing, user), project)["key"]

\* A runner opens with a key the files had while it opened; the key of the
\* start is kept only if some reading gave none (refresh_provider_from_disk).
OpenedIsCurrent ==
    \A p \in Procs : opened[p] /= NoProvider =>
       \E c, d \in during[p] : \E j \in {NoFile, d.project} : KeyOf(c.user, j) \in {Unset, opened[p].key}

\* Nothing is allowed without asking unless the user's own file or command
\* line said so, or the project was trusted at some time.
AutoWasAllowed ==
    \A p \in Procs : config[p] /= NoSettings /\ config[p]["perm"] = "auto" =>
       job[p].options.perm = "auto" \/ autoEver \/ trustedEver

\* The announced model is one on offer, and one that is not the routed one
\* says which it replaces (ModelFallback).
AnnouncedHonestly ==
    \A p \in Procs : told[p].model /= None /\ PolicyKind(told[p].request.model) \notin {"named"} /\ told[p].request.model /= Unset =>
       /\ told[p].offer /= {} => told[p].model \in told[p].offer
       /\ told[p].model /= Route[ProfileOf(told[p].request)] => told[p].fallback = Route[ProfileOf(told[p].request)]

\* All of it, as one run checks it.
SettingsSound == StartKeepsSettings /\ SaidIsOnFile /\ OpenedIsCurrent /\ AutoWasAllowed /\ AnnouncedHonestly

\* Not so: "CLI > Local > Project > User" (RunOptions). The runner's provider
\* is opened after a refresh that lays the files over the command line.
CommandLineWins ==
    \A p \in Procs : opened[p] /= NoProvider /\ job[p].options.model /= Unset => opened[p].model = Effective(job[p].options.model)

\* Not so: an input's model (wire.py, input/send) is announced and frozen in
\* the snapshot, the provider keeps the model it was opened with.
AnnouncedIsUsed ==
    \A p \in Procs : told[p].model /= None => told[p].model = opened[p].model

\* Not so: a command overlapping another one may undo it, an untrust included.
NoCommandLost == lost = {}

\* Not so: `config set` before the first start of a new version writes
\* config.toml, and the old file is never adopted.
OldSettingsAdopted ==
    \A p \in Procs : config[p] /= NoSettings /\ Layer(file["old"]) => file["user"]["key"] = file["old"]["key"] \/ said["key"] /= Unset
=============================================================================
