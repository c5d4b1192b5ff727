----------------------------- MODULE MCClients ------------------------------
(***************************************************************************)
(* One run for the parts around a user's terminal, and the command loop  *)
(* of the wire process, which share no state with each other in the model:  *)
(* a behaviour is one of the part that "part" names, the others stay as     *)
(* they start.                                                              *)
(***************************************************************************)
EXTENDS EmbeddedClient, FrontEnd, Timeline, WireCommands, TextFronts

CONSTANTS t1, t2, k1, m1, m2, m3

VARIABLE part

MCKeyOf == [t \in {t1, t2} |-> k1]
MCInputs == [t \in {t1, t2} |-> IF t = t1 THEN {m1, m2} ELSE {m3}]

MCInit ==
    /\ part \in {"client", "front", "timeline", "commands", "text"}
    /\ ClientInit /\ FrontInit /\ TimelineInit /\ CommandInit /\ TextInit
    /\ part # "text" => sort = "repl" /\ policy = "auto" /\ clients = <<CHOOSE d \in Dialogues : TRUE>>
    /\ part # "front" => view = CHOOSE v \in View : TRUE

MCNext ==
    /\ part' = part
    /\ \/ part = "client" /\ ClientNext /\ UNCHANGED <<uiVars, timelineVars, commandVars, textVars>>
       \/ part = "front" /\ FrontNext /\ UNCHANGED <<clientVars, timelineVars, commandVars, textVars>>
       \/ part = "timeline" /\ TimelineNext /\ UNCHANGED <<clientVars, uiVars, commandVars, textVars>>
       \/ part = "commands" /\ CommandNext /\ UNCHANGED <<clientVars, uiVars, timelineVars, textVars>>
       \/ part = "text" /\ TextNext /\ UNCHANGED <<clientVars, uiVars, timelineVars, commandVars>>

MCSpec ==
    MCInit /\ [][MCNext]_<<part, clientVars, uiVars, timelineVars, commandVars, textVars>>

\* Every promise is looked at in the behaviours of its own part.

\* What the embedded client promises about inputs, cancels and workspaces.
EmbeddedSound == part = "client" => ClientSound

\* What the terminal shows is so, and its keys do what the screen says: the promises of the
\* application, of the timeline it draws and of the front ends without a screen.
TerminalSound ==
    /\ part = "front" => FrontSound
    /\ part = "timeline" => TimelineSound
    /\ part = "text" => TextSound

\* What the command loop of the wire process promises about runners and threads.
CommandLoopSound == part = "commands" => CommandsSound
=============================================================================
