----------------------------- MODULE SkillPanel -----------------------------
(***************************************************************************)
(* Installing skills from two processes at once: the skills/* commands of  *)
(* the wire process (app/wire.py), handled one at a time, and the command  *)
(* line (app/commands/skills.py).  Each identifies a source, checks for    *)
(* conflicts, fetches the source again and installs it, and may grant      *)
(* trust, over one root that has no lock.  The steps inside one            *)
(* installation are those of SkillInstalls; here it is one step.           *)
(***************************************************************************)
EXTENDS Naturals

CONSTANTS Shelves,    \* names of skills
          Gits, Locals, \* sources: repositories, directories of this machine
          SkillTexts,   \* what a skill may say
          Flags,      \* --name (own), --trust and --force, as users give them together
          Stock,      \* what one name may hold at first
          MaxPanelOps, MaxPushes

Sources == Gits \cup Locals
Fronts == {"wire", "cli"}

ASSUME PanelConstants ==
    /\ SkillTexts # {} /\ Sources \cap {"none", "hand"} = {}
    /\ Stock \subseteq [from : Sources \cup {"none", "hand"}, body : SkillTexts \cup {"none"},
                        trusted : BOOLEAN]
    /\ Flags \subseteq [own : BOOLEAN, trust : BOOLEAN, force : BOOLEAN]
    /\ MaxPanelOps \in Nat /\ MaxPushes \in Nat

\* A skill in the root: from which source, "hand" when it has no manifest.
NoEntry == [from |-> "none", body |-> "none", trusted |-> FALSE]
ByHand(b) == [from |-> "hand", body |-> b, trusted |-> TRUE]
IsManaged(e) == e.from \in Sources

NoJob == [at |-> "idle", op |-> "none", src |-> "none", saw |-> "none", name |-> "none",
          trust |-> FALSE, force |-> FALSE, blur |-> FALSE, blind |-> FALSE]

VARIABLES
    upstream,     \* what each source holds now: a name and a content
    shelf,      \* the entry of each name under the skills root
    spoilt,     \* names whose SKILL.md cannot be read or parsed: no catalogue can be loaded
    serving,    \* the wire process runs
    working,    \* what each process is doing
    panel,      \* the list the wire process sent last
    behind,     \* ghost: the root changed since, and not by the wire process
    meant,      \* ghost: the entry the user meant when trust was granted to a name
    murky,      \* ghost: names trusted in a command that something else changed under
    clobbered,  \* ghost: an entry was replaced that the check was to protect
    handLost,   \* ghost: a skill written by hand was replaced or removed
    panelOps, pushes

panelVars == <<upstream, shelf, spoilt, serving, working, panel, behind, meant, murky, clobbered, handLost,
               panelOps, pushes>>

PanelInit ==
    /\ upstream = [s \in Sources |-> [name |-> CHOOSE n \in Shelves : TRUE,
                                    body |-> CHOOSE b \in SkillTexts : TRUE]]
    /\ \E n \in Shelves, e \in Stock : shelf = [[m \in Shelves |-> NoEntry] EXCEPT ![n] = e]
    /\ spoilt = {} /\ serving = TRUE
    /\ working = [p \in Fronts |-> NoJob] /\ panel = shelf /\ behind = FALSE
    /\ meant = shelf /\ murky = {}
    /\ clobbered = FALSE /\ handLost = FALSE /\ panelOps = 0 /\ pushes = 0

\* Every other process in the middle of a command no longer works on what it saw.
Blurred(p) == [q \in Fronts |-> IF q # p /\ working[q].at # "idle" THEN [working[q] EXCEPT !.blur = TRUE]
                                                                ELSE working[q]]

\* The source gets another commit, or is edited: another text, or another skill altogether.
Push(s) ==
    /\ pushes < MaxPushes /\ pushes' = pushes + 1
    /\ \E n \in Shelves, b \in SkillTexts :
           upstream[s] # [name |-> n, body |-> b] /\ upstream' = [upstream EXCEPT ![s] = [name |-> n, body |-> b]]
    /\ working' = Blurred("user")
    /\ UNCHANGED <<shelf, spoilt, serving, panel, behind, meant, murky, clobbered, handLost, panelOps>>

\* Somebody edits a SKILL.md under the root into one that does not parse, or puts it right.
EditsEntry(n) ==
    /\ pushes < MaxPushes /\ pushes' = pushes + 1 /\ shelf[n] # NoEntry
    /\ spoilt' = IF n \in spoilt THEN spoilt \ {n} ELSE spoilt \cup {n}
    /\ behind' = TRUE /\ working' = Blurred("user")
    /\ UNCHANGED <<upstream, shelf, serving, panel, meant, murky, clobbered, handLost, panelOps>>

\* A process takes up a command: the wire process if it runs, and only if it does no other.
Takes(p) ==
    /\ working[p].at = "idle" /\ (p = "wire" => serving)
    /\ panelOps < MaxPanelOps /\ panelOps' = panelOps + 1

\* identify_source: a clone that is thrown away, or the directory itself.  The command line
\* lets the user type a name of their own (--name).
Identify(p, s) ==
    /\ Takes(p)
    /\ \E f \in Flags, typed \in Shelves :
           /\ f.own <=> typed # upstream[s].name
           /\ p = "wire" => ~f.own /\ ~f.force
           /\ working' = [working EXCEPT ![p] = [at |-> "identified", op |-> "add", src |-> s,
                          saw |-> upstream[s].body, name |-> typed, trust |-> f.trust,
                          force |-> f.force, blur |-> f.own, blind |-> FALSE]]
    /\ UNCHANGED <<upstream, shelf, spoilt, serving, panel, behind, meant, murky, clobbered, handLost, pushes>>

\* The wire process refuses a name that is installed from another source; the source on
\* record of a repository carries its commit, so it is always another one.  The command line
\* refuses every name its catalogue has, unless forced, and none when the catalogue does not
\* load (_preflight swallows the exception).
Conflict(p) ==
    LET e == shelf[working[p].name] IN
    IF p = "wire" THEN IsManaged(e) /\ (e.from # working[p].src \/ e.from \in Gits)
    ELSE e # NoEntry /\ ~working[p].force /\ spoilt = {}

Check(p) ==
    /\ working[p].at = "identified"
    /\ working' = [working EXCEPT ![p].at = IF Conflict(p) THEN "refused" ELSE "checked",
                                  ![p].blind = (p = "cli" /\ spoilt # {})]
    /\ UNCHANGED <<upstream, shelf, spoilt, serving, panel, behind, meant, murky, clobbered, handLost, panelOps, pushes>>

\* SkillInstaller.update and the commands install: a source and a name with no check at all.
Unchecked(op, s, n) ==
    [at |-> "checked", op |-> op, src |-> s, saw |-> "none", name |-> n, trust |-> FALSE,
     force |-> TRUE, blur |-> FALSE, blind |-> FALSE]

\* update: the source on record is fetched again.
Refetch(p, n) ==
    /\ Takes(p) /\ IsManaged(shelf[n])
    /\ working' = [working EXCEPT ![p] = Unchecked("update", shelf[n].from, n)]
    /\ UNCHANGED <<upstream, shelf, spoilt, serving, panel, behind, meant, murky, clobbered, handLost, pushes>>

\* skills install, on the command line only.
InstallNow(s) ==
    /\ Takes("cli")
    /\ working' = [working EXCEPT !["cli"] = Unchecked("install", s, upstream[s].name)]
    /\ UNCHANGED <<upstream, shelf, spoilt, serving, panel, behind, meant, murky, clobbered, handLost, pushes>>

\* Mutant: an update keeps the trust of the version it replaces.
FetchedTrusting(n, s) == [from |-> s, body |-> upstream[s].body, trusted |-> shelf[n].trusted]

\* The entry an installation puts in place: never trusted (_install_staged).
Fetched(n, s) == [from |-> s, body |-> upstream[s].body, trusted |-> FALSE]

\* install_from_git, install_from_dir: the source is fetched anew, and installed under the
\* name it has now.
Place(p) ==
    LET s == working[p].src
        n == upstream[s].name
        old == shelf[n]
    IN
    /\ working[p].at = "checked"
    /\ shelf' = [shelf EXCEPT ![n] = Fetched(n, s)] /\ spoilt' = spoilt \ {n}
    /\ working' = [Blurred(p) EXCEPT ![p].at = "placed"]
    /\ behind' = (behind \/ p # "wire")
    /\ handLost' = (handLost \/ (old.from = "hand" /\ ~working[p].force))
    /\ clobbered' = (clobbered \/ (~working[p].force /\ ~working[p].blur /\ ~working[p].blind
                                   /\ IF p = "wire" THEN IsManaged(old) /\ old.from # s ELSE old # NoEntry))
    /\ UNCHANGED <<upstream, serving, panel, meant, murky, panelOps, pushes>>

\* The user says no, the source has no skill any more, or the copy fails.
GivesUp(p) ==
    /\ working[p].at = "checked" /\ working' = [working EXCEPT ![p].at = "refused"]
    /\ UNCHANGED <<upstream, shelf, spoilt, serving, panel, behind, meant, murky, clobbered, handLost, panelOps,
                   pushes>>

\* set_trust refuses what has no manifest.
Granted(n) == [shelf EXCEPT ![n].trusted = TRUE]

\* The trust asked for with the installation goes to the name identified before it, or typed.
TrustPlaced(p) ==
    LET n == working[p].name IN
    /\ working[p].at = "placed"
    /\ IF working[p].op = "add" /\ working[p].trust /\ IsManaged(shelf[n])
       THEN /\ shelf' = Granted(n) /\ behind' = (behind \/ p # "wire")
            /\ meant' = [meant EXCEPT ![n] = [from |-> working[p].src, body |-> working[p].saw, trusted |-> TRUE]]
            /\ murky' = IF working[p].blur THEN murky \cup {n} ELSE murky \ {n}
            /\ working' = [Blurred(p) EXCEPT ![p].at = "refused"]
       ELSE UNCHANGED <<shelf, behind, meant, murky>> /\ working' = [working EXCEPT ![p].at = "refused"]
    /\ UNCHANGED <<upstream, spoilt, serving, panel, clobbered, handLost, panelOps, pushes>>

\* After every command, done or refused, the wire process reloads and sends the list; it
\* sends nothing when the reload raises, which nobody is told.
SendList(p) ==
    IF p # "wire" THEN panel' = panel /\ behind' = (behind \/ shelf' # shelf)
    ELSE IF spoilt' # {} THEN UNCHANGED <<panel, behind>>
    ELSE panel' = shelf' /\ behind' = FALSE

Finish(p) ==
    /\ working[p].at = "refused" /\ working' = [working EXCEPT ![p] = NoJob]
    /\ UNCHANGED <<shelf, spoilt>> /\ SendList(p)
    /\ UNCHANGED <<upstream, serving, meant, murky, clobbered, handLost, panelOps, pushes>>

\* skills/reload and skills/list.
Reload ==
    /\ working["wire"].at = "idle" /\ serving /\ spoilt = {}
    /\ UNCHANGED <<shelf, spoilt>> /\ SendList("wire") /\ panel' # panel
    /\ UNCHANGED <<upstream, serving, working, meant, murky, clobbered, handLost, panelOps, pushes>>

\* What escapes the command loop ends the wire process: the trust of a skill written by hand
\* or, like a removal, of a name that is none (InstallError), and a list that cannot be loaded.
Escapes ==
    /\ Takes("wire") /\ serving' = FALSE
    /\ UNCHANGED <<upstream, shelf, spoilt, working, panel, behind, meant, murky, clobbered, handLost, pushes>>

\* The desktop starts it anew; what it shows stays until the list is asked for.
Restarts ==
    /\ ~serving /\ serving' = TRUE /\ behind' = TRUE
    /\ UNCHANGED <<upstream, shelf, spoilt, working, panel, meant, murky, clobbered, handLost, panelOps, pushes>>

\* skills trust, skills/trust.
Trust(p, n, granted) ==
    /\ Takes(p) /\ IsManaged(shelf[n]) /\ UNCHANGED spoilt
    /\ shelf' = [shelf EXCEPT ![n].trusted = granted]
    /\ meant' = [meant EXCEPT ![n] = shelf'[n]] /\ murky' = murky \ {n}
    /\ working' = Blurred(p) /\ SendList(p)
    /\ UNCHANGED <<upstream, serving, clobbered, handLost, pushes>>

\* uninstall: the directory of the name, managed or not; what cannot be deleted is ignored,
\* with or without the manifest, and the answer is that it is gone.
Remains(e) == {NoEntry, e, ByHand(e.body)}

\* skills uninstall, skills/remove.
Uninstalls(p, n) ==
    /\ Takes(p) /\ shelf[n] # NoEntry
    /\ \E e \in Remains(shelf[n]) : shelf' = [shelf EXCEPT ![n] = e]
    /\ spoilt' = IF shelf'[n] = NoEntry THEN spoilt \ {n} ELSE spoilt
    /\ handLost' = (handLost \/ (shelf[n].from = "hand" /\ shelf'[n] = NoEntry))
    /\ working' = Blurred(p) /\ SendList(p)
    /\ UNCHANGED <<upstream, serving, meant, murky, clobbered, pushes>>

PanelNext ==
    \/ Reload \/ Escapes \/ Restarts \/ \E n \in Shelves : EditsEntry(n)
    \/ \E s \in Sources : Push(s) \/ InstallNow(s) \/ \E p \in Fronts : Identify(p, s)
    \/ \E p \in Fronts : Check(p) \/ Place(p) \/ GivesUp(p) \/ TrustPlaced(p) \/ Finish(p)
    \/ \E p \in Fronts, n \in Shelves :
           Refetch(p, n) \/ Uninstalls(p, n) \/ \E granted \in BOOLEAN : Trust(p, n, granted)

PanelSpec == PanelInit /\ [][PanelNext]_panelVars

-----------------------------------------------------------------------------
(* What must hold *)

\* A managed skill is trusted only as the version the user meant, through updates,
\* re-installations and removals, unless the grant went with an installation during which
\* the source or the root changed, or that was given another name.
TrustIsMeant ==
    \A n \in Shelves :
        IsManaged(shelf[n]) /\ shelf[n].trusted /\ n \notin murky => meant[n] = shelf[n]

\* An installation that checks for conflicts replaces nothing it was to protect, unless
\* something changed after its check (wire.py:1121: a name from another source is refused) or
\* the check of the command line had no catalogue to look at.
ChecksProtect == ~clobbered

\* Between two commands the desktop shows the root as it is, whatever the last command was
\* and however it ended, until another process changes it or the wire process is started
\* anew; then from the next list that can be sent.
PanelCurrent == working["wire"].at = "idle" /\ ~behind => panel = shelf

\* All of it.
PanelSound == TrustIsMeant /\ ChecksProtect /\ PanelCurrent

-----------------------------------------------------------------------------
(* Not so *)

\* Not so: the source is fetched again after the user agreed, and --name trusts another skill.
TrustIsMeantAlways ==
    \A n \in Shelves : IsManaged(shelf[n]) /\ shelf[n].trusted => meant[n] = shelf[n]

\* Not so: wire.py:1123 looks at managed skills only, and a skill written by hand is
\* replaced; skills/remove removes it (wire.py:1194 says installer-managed skills).
HandWrittenStays == ~handLost

\* Not so: while one SKILL.md of the root does not parse, the command line finds no name
\* taken (commands/skills.py:501) and add replaces a skill without --force.
CheckedIsFree == working["cli"].blind => shelf[working["cli"].name] = NoEntry

\* Not so: then the desktop is not told what its own commands did either (wire.py:1163).
ToldOfCommands == [][Finish("wire") => panel' = shelf']_panelVars

\* Not so: skills/trust of a skill written by hand ends the wire process (wire.py:1222).
WireGoesOn == serving

\* Not so: what is installed is what was shown (commands/skills.py:538 prints the commit).
ShownIsInstalled ==
    \A p \in Fronts : working[p].at = "placed" /\ working[p].op = "add" => shelf[working[p].name].body = working[p].saw

\* Not so: wire.py:1122 lets the same source through, but a repository never is the same.
SameSourcePasses ==
    working["wire"].at = "identified" /\ shelf[working["wire"].name].from = working["wire"].src => ~Conflict("wire")
=============================================================================
