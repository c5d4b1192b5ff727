----------------------------- MODULE SkillTurns -----------------------------
(***************************************************************************)
(* One skill in the turns of one runner (skills/runtime.py, activation.py, *)
(* runtime/base_runner.py, code_runner.py, app/wire.py).  A Run first      *)
(* activates the skill its user named, from the view of the turn before;   *)
(* then it refreshes the view, rewrites the agent's system text and its    *)
(* use_skill tool, and the model may activate.  How a catalogue is read    *)
(* and how a snapshot is mounted are modelled in SkillRuns and SkillMounts.*)
(***************************************************************************)
EXTENDS Integers, Sequences

CONSTANTS Versions,   \* what SKILL.md may say
          MaxTurnRuns, MaxSkillEdits, MaxTurnFaults

NoVersion == "none"
Broken == "broken"  \* two directories of one name, a frontmatter that does not parse
Gone == "gone"

ASSUME TurnConstants ==
    /\ Versions # {} /\ Versions \cap {NoVersion, Broken, Gone} = {}
    /\ MaxTurnRuns \in Nat /\ MaxSkillEdits \in Nat /\ MaxTurnFaults \in Nat

\* A catalogue: its generation, what it froze of the skill, and whether that is trusted.
NoCatalogue == [gen |-> 0, ver |-> NoVersion, ok |-> FALSE]

VARIABLES
    lazily,    \* a CodeRunner, which assembles at its first run, and has no wire process
    skillFile, \* the directory of the skill
    allowed,   \* the user trusts it
    service,   \* the catalogue of the runner's service
    viewed,    \* the catalogue of the runtime's view
    agent,     \* system text: its skills block, what /skill put before it; the use_skill tool
    sysRow,       \* the system row of the conversation: who made it, and what stood before its block
    turn,      \* where the current Run stands
    waiting,   \* messages behind it: did their user name the skill?
    pending,   \* the skill the wire process is to activate, for whichever Run begins next
    loaded,    \* SkillRuntime.activated
    thisRun,   \* SkillRuntime._loaded_this_run
    skillsTold,      \* the last SkillsState the client was sent
    record,    \* the item on disk under the id of the user's activations
    sandboxes,    \* sandboxes this runner has opened
    given,     \* ghost: what use_skill gave the model in this Run
    kept,      \* ghost: what has been recorded as activated
    drawn,     \* ghost: the trust of the candidates anything was activated from
    turns, skillEdits, turnFaults

ghosts == <<given, kept, drawn>>
turnVars == <<lazily, skillFile, allowed, service, viewed, agent, sysRow, turn, waiting, pending,
              loaded, thisRun, skillsTold, record, sandboxes, ghosts, turns, skillEdits, turnFaults>>

NoAgent == [block |-> NoCatalogue, before |-> <<>>, tool |-> NoCatalogue]
NoRow == [by |-> NoVersion, before |-> <<>>]
NotTold == [sent |-> FALSE, all |-> FALSE]
NotRunning == [at |-> "closed", named |-> FALSE, tried |-> FALSE, fresh |-> FALSE]

\* A thread that is new or has a conversation, opened by one front end or the other.
TurnInit ==
    /\ lazily \in BOOLEAN
    /\ skillFile \in {CHOOSE v \in Versions : TRUE, Gone} /\ allowed \in BOOLEAN
    /\ service = NoCatalogue /\ viewed = NoCatalogue /\ agent = NoAgent
    /\ sysRow \in {NoRow, [NoRow EXCEPT !.by = "earlier"]} /\ turn = NotRunning /\ waiting = <<>> /\ pending = FALSE
    /\ loaded = FALSE /\ thisRun = FALSE /\ skillsTold = NotTold /\ record = NoVersion /\ sandboxes = 0
    /\ given = {} /\ kept = {} /\ drawn = {}
    /\ turns = 0 /\ skillEdits = 0 /\ turnFaults = 0

EditSkillFile ==
    /\ skillEdits < MaxSkillEdits /\ skillEdits' = skillEdits + 1
    /\ \/ skillFile' \in (Versions \cup {Broken, Gone}) \ {skillFile} /\ UNCHANGED allowed
       \/ allowed' = ~allowed /\ UNCHANGED skillFile
    /\ UNCHANGED <<lazily, service, viewed, agent, sysRow, turn, waiting, pending, loaded,
                   thisRun, skillsTold, record, sandboxes, ghosts, turns, turnFaults>>

-----------------------------------------------------------------------------
(* Opening the runner *)

\* SkillCatalogService.reload: a new generation when the skill or its trust is another one.
Reloaded ==
    IF service.gen > 0 /\ service.ver = skillFile /\ service.ok = allowed THEN service
    ELSE [gen |-> service.gen + 1, ver |-> skillFile, ok |-> allowed]

\* prepare_turn keeps the view when the catalogue has an error, or the digest of the view.
Viewing(cat) ==
    IF cat.ver = Broken \/ [viewed EXCEPT !.gen = cat.gen] = cat THEN viewed ELSE cat

\* The tool is there if the catalogue had a candidate when it was first wanted.
HasSkill(cat) == cat.ver \in Versions \cup {Broken}

\* assemble_run_resources: the sandbox, the tools, the first catalogue, the system text; the
\* runtime shares the service and pins the generation.
OpenRunnerOf ==
    /\ turn.at = IF lazily THEN "wanted" ELSE "closed"
    /\ sandboxes' = sandboxes + 1
    /\ service' = Reloaded /\ viewed' = Viewing(service')
    /\ agent' = [NoAgent EXCEPT !.block = service',
                                !.tool = IF HasSkill(service') THEN service' ELSE NoCatalogue]
    /\ turn' = [turn EXCEPT !.at = IF lazily THEN "activated" ELSE "idle"]
    /\ UNCHANGED <<lazily, skillFile, allowed, sysRow, waiting, pending, loaded, thisRun, skillsTold,
                   record, ghosts, turns, skillEdits, turnFaults>>

\* It raises once the sandbox is open (a tool name nobody knows, an undeclared effect); a
\* CodeRunner stays uninitialised, and its next run opens another sandbox.
OpeningFails ==
    /\ turn.at = IF lazily THEN "wanted" ELSE "closed"
    /\ turnFaults < MaxTurnFaults /\ turnFaults' = turnFaults + 1
    /\ sandboxes' = sandboxes + 1 /\ turn' = NotRunning
    /\ UNCHANGED <<lazily, skillFile, allowed, service, viewed, agent, sysRow, waiting, pending,
                   loaded, thisRun, skillsTold, record, ghosts, turns, skillEdits>>

-----------------------------------------------------------------------------
(* Messages and the activation their user asked for *)

\* user_message with a skill: the name goes to the one place the process has for it.  A Run
\* takes the first message that waits.
Message(named) ==
    /\ turns < MaxTurnRuns /\ turns' = turns + 1
    /\ lazily => ~named /\ turn.at \in {"closed", "idle"}
    /\ pending' = (pending \/ named)
    /\ \/ /\ turn.at = "idle" /\ waiting = <<>>
          /\ turn' = [turn EXCEPT !.at = "begun", !.named = named, !.tried = FALSE]
          /\ UNCHANGED waiting
       \/ /\ turn.at = "closed" /\ lazily /\ turn' = [NotRunning EXCEPT !.at = "wanted"]
          /\ UNCHANGED waiting
       \/ /\ turn.at \notin {"idle", "closed"} /\ waiting' = Append(waiting, named)
          /\ UNCHANGED turn
    /\ given' = IF turn'.at = "begun" THEN {} ELSE given
    /\ UNCHANGED <<lazily, skillFile, allowed, service, viewed, agent, sysRow, loaded, thisRun,
                   skillsTold, record, sandboxes, kept, drawn, skillEdits, turnFaults>>

NextMessage ==
    /\ turn.at = "idle" /\ waiting # <<>>
    /\ turn' = [turn EXCEPT !.at = "begun", !.named = Head(waiting), !.tried = FALSE]
    /\ waiting' = Tail(waiting) /\ given' = {}
    /\ UNCHANGED <<lazily, skillFile, allowed, service, viewed, agent, sysRow, pending, loaded,
                   thisRun, skillsTold, record, sandboxes, kept, drawn, turns, skillEdits, turnFaults>>

\* _resolve_invocation_skill_id and resolve_qualified, in the frozen catalogue.
Resolves(cat) == cat.ver \in Versions /\ cat.ok

\* What a successful activation leaves behind: the item on disk, then the body.
Recorded(cat) == kept' = kept \cup {cat.ver} /\ drawn' = drawn \cup {cat.ok}

\* _activate_skill_for_run: the view is still that of the turn before.  The request id is the
\* thread's and the name's, so every such activation has the same record.  No such skill, or
\* one that may not be used (which an exact id records as failed); or the snapshot, the mount
\* or the record fails.
ActivateNamed ==
    /\ turn.at = "begun" /\ pending /\ pending' = FALSE
    /\ turn' = [turn EXCEPT !.at = "activated", !.tried = TRUE]
    /\ \/ /\ Resolves(viewed) /\ Recorded(viewed)
          /\ record' = "activated"
          /\ agent' = [agent EXCEPT !.before = <<viewed.ver>> \o @]
          /\ UNCHANGED turnFaults
       \/ /\ ~Resolves(viewed)
          /\ record' \in {record} \cup IF viewed.ver \in Versions THEN {"failed"} ELSE {}
          /\ UNCHANGED <<agent, kept, drawn, turnFaults>>
       \/ /\ Resolves(viewed) /\ turnFaults < MaxTurnFaults /\ turnFaults' = turnFaults + 1
          /\ record' = "failed" /\ UNCHANGED <<agent, kept, drawn>>
    /\ UNCHANGED <<lazily, skillFile, allowed, service, viewed, sysRow, waiting, loaded, thisRun,
                   skillsTold, sandboxes, given, turns, skillEdits>>

NothingNamed ==
    /\ turn.at = "begun" /\ ~pending
    /\ turn' = [turn EXCEPT !.at = "activated"]
    /\ UNCHANGED <<lazily, skillFile, allowed, service, viewed, agent, sysRow, waiting, pending,
                   loaded, thisRun, skillsTold, record, sandboxes, ghosts, turns, skillEdits, turnFaults>>

-----------------------------------------------------------------------------
(* before_user_turn *)

\* apply_to_agent: the skills section of the system text and the use_skill tool.
Refitted(a, cat) ==
    [a EXCEPT !.block = cat,
              !.tool = IF a.tool # NoCatalogue \/ HasSkill(cat) THEN cat ELSE @]

\* prepare_turn, apply_to_agent, ensure_system.  A reload that raises or a catalogue with an
\* error returns early: the old view stays and the record of the last Run is not cleared.
PrepareTurn ==
    /\ turn.at = "activated"
    /\ \/ service' = Reloaded /\ UNCHANGED turnFaults
       \/ /\ turnFaults < MaxTurnFaults /\ turnFaults' = turnFaults + 1
          /\ UNCHANGED service
    /\ LET refused == turnFaults' # turnFaults \/ service'.ver = Broken IN
       /\ viewed' = IF refused THEN viewed ELSE Viewing(service')
       /\ thisRun' = (refused /\ thisRun)
       /\ turn' = [turn EXCEPT !.at = "model", !.fresh = ~refused]
    /\ agent' = IF viewed'.gen > 0 THEN Refitted(agent, viewed') ELSE agent
    /\ sysRow' = IF sysRow.by = NoVersion THEN [by |-> "here", before |-> agent'.before] ELSE sysRow
    /\ UNCHANGED <<lazily, skillFile, allowed, waiting, pending, loaded, skillsTold, record, sandboxes,
                   ghosts, turns, skillEdits>>

-----------------------------------------------------------------------------
(* The model's part *)

\* state_payload: all that was loaded by this runner.
StatePayload == [sent |-> TRUE, all |-> loaded]

\* use_skill: a request id of its own each time, the bodies of the tool's catalogue; the hook
\* around it notes the name and, under a wire process, sends a new SkillsState.
UseSkill ==
    /\ turn.at = "model" /\ Resolves(agent.tool)
    /\ given' = given \cup {agent.tool.ver} /\ Recorded(agent.tool)
    /\ loaded' = TRUE /\ thisRun' = TRUE /\ skillsTold' = IF lazily THEN skillsTold ELSE StatePayload'
    /\ UNCHANGED <<lazily, skillFile, allowed, service, viewed, agent, sysRow, turn, waiting,
                   pending, record, sandboxes, turns, skillEdits, turnFaults>>

\* emit_skills, whenever the client asks.
ShowSkills ==
    /\ ~lazily /\ turn.at # "closed" /\ skillsTold' = StatePayload /\ skillsTold' # skillsTold
    /\ UNCHANGED <<lazily, skillFile, allowed, service, viewed, agent, sysRow, turn, waiting,
                   pending, loaded, thisRun, record, sandboxes, ghosts, turns, skillEdits, turnFaults>>

TurnOver ==
    /\ turn.at = "model" /\ turn' = [turn EXCEPT !.at = "idle", !.fresh = FALSE]
    /\ UNCHANGED <<lazily, skillFile, allowed, service, viewed, agent, sysRow, waiting, pending,
                   loaded, thisRun, skillsTold, record, sandboxes, ghosts, turns, skillEdits, turnFaults>>

TurnNext ==
    \/ EditSkillFile \/ OpenRunnerOf \/ OpeningFails
    \/ \E named \in BOOLEAN : Message(named)
    \/ NextMessage \/ ActivateNamed \/ NothingNamed \/ PrepareTurn
    \/ UseSkill \/ ShowSkills \/ TurnOver

TurnSpec == TurnInit /\ [][TurnNext]_turnVars

-----------------------------------------------------------------------------
(* What must hold *)

\* Whatever is edited while a Run goes on, the model is given one body of the skill, that of
\* the view the Run began with (runtime.py: "run-freeze").
OneBodyPerRun == turn.at = "model" => given \subseteq {viewed.ver}

\* Nothing the catalogue did not trust is ever activated, by the user or by the model.
TrustedOnly == drawn \subseteq {TRUE}

\* No body reaches the model, by the tool or by the system text, that was not first recorded
\* as activated (activation.py:18, the first of its invariants).
RecordedFirst ==
    /\ given \subseteq kept
    /\ \A i \in 1 .. Len(agent.before) : agent.before[i] \in kept

\* The skills the system text lists are those the tool can load, whatever was reloaded,
\* refused or failed in between.
TextAgreesWithTool == agent.tool # NoCatalogue => agent.tool = agent.block

\* The client is told of every skill the model loaded; and in a Run whose view could be
\* refreshed, what counts as loaded in it is what it loaded.
LoadedIsTold ==
    /\ skillsTold.sent => skillsTold.all = loaded
    /\ (~lazily /\ loaded) => skillsTold.sent
    /\ (turn.at = "model" /\ turn.fresh) => (thisRun <=> given # {})

\* All of it.
TurnSound == OneBodyPerRun /\ TrustedOnly /\ RecordedFirst /\ TextAgreesWithTool /\ LoadedIsTold

-----------------------------------------------------------------------------
(* Not so *)

\* Not so: only the first Run of a conversation makes its system row, so a skill activated
\* for a later one, and every later list of skills, never reaches the model.
ModelSeesSkill == turn.at = "model" /\ agent.before # <<>> => sysRow.before # <<>>

\* Not so: a broken catalogue keeps the list of the last Run (runtime.py:137 says it is cleared).
RunStartsClean == turn.at = "model" => (thisRun <=> given # {})

\* Not so: with two messages waiting the skill of the second is activated for the first.
SkillGoesWithMessage == turn.at = "model" /\ ~lazily => turn.tried = turn.named

\* Not so: a second activation of the name fails and its record replaces the first one's,
\* whose body is still in the system text.
ActivatedStays == agent.before # <<>> => record = "activated"

\* Not so: what /skill puts before the system text is never taken out again.
SkillEndsWithRun == turn.at = "idle" => agent.before = <<>>

\* Not so: a CodeRunner whose assembly failed opens another sandbox and closes only the last.
OneSandbox == sandboxes <= 1
=============================================================================
