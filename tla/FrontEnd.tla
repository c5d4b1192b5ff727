------------------------------ MODULE FrontEnd ------------------------------
(***************************************************************************)
(* The terminal application (app/tui/application.py, keymap.py and the loop *)
(* of concurrent_repl.py): one view at a time over the threads of an        *)
(* EmbeddedAgentClient.  The client's events reach the application          *)
(* synchronously; what the user asks for becomes a task (call) that runs    *)
(* later, with the arguments that were read when it was made -- except the  *)
(* answer to an approval, which reads the view when it runs.                *)
(***************************************************************************)
EXTENDS Integers, FiniteSets, Sequences

CONSTANTS View,       \* threads the user looks at
          MaxUiRuns,  \* bound: Runs started in a behaviour
          MaxSends,   \* bound: inputs sent
          MaxPresses  \* bound: keys pressed on a Run (approve, cancel)

UiRun == 1..MaxUiRuns
None  == 0            \* no run, no card; an approval is named by its Run

VARIABLES
  live, begun, asks,  \* per thread: session's live run, whether run/started was emitted,
                      \* whether it waits for the answer to an approval
  queued,             \* per thread: inputs waiting for a Run
  view, ui, uiRun,    \* thread_id, state, _active_run_id of the application
  card, vcard,        \* pending_approval of the application and of each thread's view
  calls,              \* tasks made by keys: send, cancel, answer
  sends, presses,     \* how many inputs were sent, keys pressed
  owner,              \* thread of each run started so far
  hit, meant,         \* runs a cancel reached; runs on screen when cancel was pressed
  answered, pressed,  \* <<run, answer>> the client resolved; the user gave
  strayed,            \* the user left a thread that was not idle
  blanked             \* runs over which an empty text was refused

uiVars == <<live, begun, asks, queued, view, ui, uiRun, card, vcard, calls, sends, presses,
            owner, hit, meant, answered, pressed, strayed, blanked>>
clientSide == <<live, begun, asks, queued, owner>>
screen == <<view, ui, uiRun, card, vcard>>
history == <<hit, meant, answered, pressed, strayed, blanked>>

FrontInit ==
  /\ live = [t \in View |-> None] /\ begun = [t \in View |-> FALSE]
  /\ asks = [t \in View |-> FALSE] /\ queued = [t \in View |-> 0]
  /\ view \in View /\ ui = "idle" /\ uiRun = None
  /\ card = None /\ vcard = [t \in View |-> None]
  /\ calls = {} /\ sends = 0 /\ presses = 0 /\ owner = <<>>
  /\ hit = {} /\ meant = {} /\ answered = {} /\ pressed = {} /\ strayed = FALSE
  /\ blanked = {}

-----------------------------------------------------------------------------
(* Events of the client: _apply_event on the thread's view, _update_state on  *)
(* the application when the thread is the one viewed                          *)

Shows(t, state, run, c) ==
  IF t = view THEN ui' = state /\ uiRun' = run /\ card' = c
              ELSE UNCHANGED <<ui, uiRun, card>>

\* start_run consumed a queued input (input/state applied changes no state).
RunCreated(t) ==
  /\ live[t] = None /\ queued[t] > 0 /\ Len(owner) < MaxUiRuns
  /\ owner' = Append(owner, t)
  /\ live' = [live EXCEPT ![t] = Len(owner')]
  /\ begun' = [begun EXCEPT ![t] = FALSE] /\ queued' = [queued EXCEPT ![t] = @ - 1]
  /\ UNCHANGED <<asks, screen, calls, sends, presses, history>>

\* run/started
RunStarted(t) ==
  /\ live[t] # None /\ ~begun[t]
  /\ begun' = [begun EXCEPT ![t] = TRUE]
  /\ Shows(t, "running", live[t], card)
  /\ UNCHANGED <<live, asks, queued, owner, view, vcard, calls, sends, presses, history>>

\* approval/requested
ApprovalRequested(t) ==
  /\ live[t] # None /\ begun[t] /\ ~asks[t] /\ ~\E a \in answered : a[1] = live[t]
  /\ asks' = [asks EXCEPT ![t] = TRUE]
  /\ vcard' = [vcard EXCEPT ![t] = live[t]]
  /\ Shows(t, "approval", live[t], live[t])
  /\ UNCHANGED <<live, begun, queued, owner, view, calls, sends, presses, history>>

\* run/completed; a Run whose tool waits for its permit does not end.
RunCompleted(t) ==
  /\ live[t] # None /\ begun[t] /\ ~asks[t]
  /\ live' = [live EXCEPT ![t] = None]
  /\ vcard' = IF t = view THEN [vcard EXCEPT ![t] = None] ELSE vcard
  /\ Shows(t, "idle", None, None)
  /\ UNCHANGED <<begun, asks, queued, owner, view, calls, sends, presses, history>>

-----------------------------------------------------------------------------
(* Keys *)

Calls(new) == calls' = calls \cup new

\* Enter and Tab: what is bound depends on the state shown.  Nothing looks whether the
\* composer is empty (blank), except Enter under a card: there it approves.
Send(delivery, blank) ==
  /\ sends < MaxSends /\ sends' = sends + 1
  /\ \/ ui = "idle" /\ card = None /\ delivery = "auto"
     \/ ui = "running" /\ delivery = "enqueue"
     \/ ui = "running" /\ delivery = "immediate" /\ (blank => card = None)
     \/ card # None /\ delivery = "immediate" /\ ~blank
  /\ Calls({[kind |-> "send", thread |-> view, n |-> sends', delivery |-> delivery,
              blank |-> blank]})
  /\ UNCHANGED <<clientSide, screen, presses, history>>

\* Enter on an empty composer: approve.
Approve ==
  /\ card # None /\ presses < MaxPresses /\ presses' = presses + 1
  /\ Calls({[kind |-> "answer", item |-> card, yes |-> TRUE]})
  /\ pressed' = pressed \cup {<<card, TRUE>>}
  /\ UNCHANGED <<clientSide, screen, sends, hit, meant, answered, strayed, blanked>>

\* Escape or Ctrl+C: an approval on screen is denied, the Run shown is cancelled.
PressCancel ==
  /\ ui = "running" \/ card # None
  /\ presses < MaxPresses /\ presses' = presses + 1
  /\ Calls({[kind |-> "cancel", thread |-> view, run |-> uiRun]}
           \cup {[kind |-> "answer", item |-> c, yes |-> FALSE] : c \in {card} \ {None}})
  /\ meant' = IF uiRun # None /\ owner[uiRun] = view THEN meant \cup {uiRun} ELSE meant
  /\ pressed' = pressed \cup {<<c, FALSE>> : c \in {card} \ {None}}
  /\ UNCHANGED <<clientSide, screen, sends, hit, answered, strayed, blanked>>

\* /resume or /new: a slash command is refused while the state is running.  Only the
\* card of the application is reset; its state and run id stay those of the old view.
Switch(t) ==
  /\ ui # "running" /\ t # view
  /\ view' = t /\ card' = None
  /\ strayed' = (strayed \/ ui # "idle" \/ live[view] # None \/ live[t] # None \/ calls # {})
  /\ UNCHANGED <<clientSide, ui, uiRun, vcard, calls, sends, presses, hit, meant, answered,
                 pressed, blanked>>

-----------------------------------------------------------------------------
(* The tasks the keys made *)

\* send_input: the session refuses an empty text, whatever runs, and routes any other one.
\* "rejected" shows the thread as idle, every other receipt shows it as running.
RunSend(c) ==
  /\ c \in calls /\ c.kind = "send" /\ calls' = calls \ {c}
  /\ queued' = IF c.blank \/ (live[c.thread] # None /\ c.delivery # "enqueue") THEN queued
               ELSE [queued EXCEPT ![c.thread] = @ + 1]
  /\ ui' = IF c.thread # view THEN ui ELSE IF c.blank THEN "idle" ELSE "running"
  /\ blanked' = blanked \cup {r \in {live[c.thread]} \ {None} :
                              c.blank /\ c.thread = view /\ begun[view]}
  /\ UNCHANGED <<live, begun, asks, owner, view, uiRun, card, vcard, sends, presses, hit, meant,
                 answered, pressed, strayed>>

\* Mutant: the run id of the cancel is not compared.
RunCancelUnbound(c) ==
  /\ c \in calls /\ c.kind = "cancel" /\ calls' = calls \ {c}
  /\ hit' = hit \cup ({live[c.thread]} \ {None})
  /\ UNCHANGED <<clientSide, screen, sends, presses, meant, answered, pressed, strayed, blanked>>

\* cancel_run: refused without a run id or when it is not the session's.
RunCancel(c) ==
  /\ c \in calls /\ c.kind = "cancel" /\ calls' = calls \ {c}
  /\ hit' = hit \cup {r \in {c.run} \ {None} : live[c.thread] = r}
  /\ UNCHANGED <<clientSide, screen, sends, presses, meant, answered, pressed, strayed, blanked>>

\* resolve_approval with the thread and run of the application now: refused unless
\* they and the approval belong together; approval/resolved shows running.
RunAnswer(c) ==
  /\ c \in calls /\ c.kind = "answer" /\ calls' = calls \ {c}
  /\ IF uiRun # None /\ live[view] = uiRun /\ asks[view] /\ c.item = uiRun
       THEN /\ asks' = [asks EXCEPT ![view] = FALSE]
            /\ answered' = answered \cup {<<c.item, c.yes>>}
            /\ vcard' = [vcard EXCEPT ![view] = None]
            /\ card' = None /\ ui' = "running"
       ELSE UNCHANGED <<asks, answered, vcard, card, ui>>
  /\ UNCHANGED <<live, begun, queued, owner, view, uiRun, sends, presses, hit, meant, pressed,
                 strayed, blanked>>

FrontNext ==
  \/ \E t \in View : \/ RunCreated(t) \/ RunStarted(t) \/ ApprovalRequested(t)
                     \/ RunCompleted(t) \/ Switch(t)
  \/ \E d \in {"auto", "immediate", "enqueue"}, blank \in BOOLEAN : Send(d, blank)
  \/ Approve \/ PressCancel
  \/ \E c \in calls : RunSend(c) \/ RunCancel(c) \/ RunAnswer(c)

FrontSpec == FrontInit /\ [][FrontNext]_uiVars

-----------------------------------------------------------------------------
(* Properties *)

\* Whatever the user types and however views change before the task runs: a cancel
\* reaches only a Run that was on screen in its own thread when the user pressed it,
\* and an approval is resolved once, the way the user answered that very card.
ControlsAreBound ==
  /\ hit \subseteq meant
  /\ answered \subseteq pressed
  /\ \A a, b \in answered : a[1] = b[1] => a = b

\* While the user never leaves a thread that is not idle, the screen agrees with the
\* session: the Run shown by its id is the live one, a card is on screen exactly when the
\* Run waits for it, and a Run that has begun is shown as idle only if the user sent an
\* empty text while it was live.
ScreenAgrees ==
  ~strayed =>
    /\ live[view] # None /\ begun[view] =>
         uiRun = live[view] /\ (ui = "idle" => live[view] \in blanked)
    /\ uiRun # None => live[view] = uiRun
    /\ card = IF asks[view] THEN live[view] ELSE None

FrontSound == ControlsAreBound /\ ScreenAgrees

\* Not so: a view that is left while an approval is pending shows no card when the
\* user comes back, so the approval cannot be answered and the Run waits for ever.
PendingIsAnswerable == asks[view] => card = live[view]

\* Not so: Enter on an empty composer while a Run is live is sent and refused, and the
\* refusal shows the thread as idle: no key cancels the Run that goes on.
LiveIsNotIdle == ~strayed /\ live[view] # None /\ begun[view] => ui # "idle"

\* Not so: the state of the old view stays on screen; in a thread with nothing to do
\* no key sends an input any more.
IdleThreadTakesInput ==
  live[view] = None /\ queued[view] = 0 /\ calls = {} => ui = "idle"
=============================================================================
