------------------------------ MODULE Timeline ------------------------------
(***************************************************************************)
(* What one view shows (app/tui/reducer.py and store.py): the events of a   *)
(* thread reduced to an ordered list of items, and the store that draws     *)
(* each item once per width and again when the item was touched.            *)
(***************************************************************************)
EXTENDS Integers, Sequences, FiniteSets

CONSTANTS Tools,      \* tool calls of a behaviour
          Widths,     \* width buckets
          MaxItems,   \* bound: items of the timeline
          MaxChunks   \* bound: text chunks and drawings

\* An item: what it is and what the renderer would draw of it (the length of its
\* text, or the state of a tool, an approval, an activity; 0 draws nothing).
Item == [kind : {"text", "thinking", "tool", "user", "approval"},
         call : Tools \cup {"none"}, look : 0..MaxChunks]

VARIABLES items,     \* reducer.items, in the order they are drawn
          openText,  \* _open_assistant: index of the open text item, or 0
          thinking,  \* _thinking
          dirty,     \* store._dirty
          cache,     \* store._cache: look drawn last, by width and item
          log        \* history: <<kind of event, item it went to>> of texts, tools, users, ends
timelineVars == <<items, openText, thinking, dirty, cache, log>>

TimelineInit ==
  /\ items = <<>> /\ openText = 0 /\ thinking = 0 /\ dirty = {} /\ log = <<>>
  /\ cache = [w \in Widths |-> <<>>]

New(kind, call, look) == [kind |-> kind, call |-> call, look |-> look]
Room == Len(items) < MaxItems

\* _finish_thinking: the activity is done and draws nothing.
ThinkingOver(s) == IF thinking = 0 THEN s ELSE [s EXCEPT ![thinking].look = 0]

\* The newest item of a kind that belongs to a tool call (_find_tool, _find_approval).
ItemsOf(kind, c) == {i \in DOMAIN items : items[i].kind = kind /\ items[i].call = c}
Newest(S)        == CHOOSE i \in S : \A j \in S : j <= i

Touched(S) == dirty' = dirty \cup S

Text ==
  /\ Cardinality({i \in DOMAIN log : log[i][1] = "text"}) < MaxChunks
  /\ openText = 0 => Room
  /\ LET s == IF openText = 0 THEN Append(items, New("text", "none", 0)) ELSE items
         i == IF openText = 0 THEN Len(s) ELSE openText
     IN  /\ items' = [s EXCEPT ![i].look = @ + 1]
         /\ openText' = i
         /\ log' = Append(log, <<"text", i>>)
         /\ Touched({i})
  /\ UNCHANGED <<thinking, cache>>

\* Raw reasoning is not shown: one activity item is lit.
Reasoning ==
  /\ thinking = 0 => Room
  /\ items' = IF thinking = 0 THEN Append(items, New("thinking", "none", 1)) ELSE items
  /\ thinking' = IF thinking = 0 THEN Len(items) + 1 ELSE thinking
  /\ Touched({thinking'})
  /\ UNCHANGED <<openText, cache, log>>

\* A tool begins: the text is closed, the activity finished; only the id of the tool
\* is handed to the store.
ToolBegins(c) ==
  /\ Room /\ ItemsOf("tool", c) = {}
  /\ items' = Append(ThinkingOver(items), New("tool", c, 1))
  /\ openText' = 0 /\ thinking' = 0
  /\ log' = Append(log, <<"tool", Len(items) + 1>>)
  /\ Touched({Len(items) + 1})
  /\ UNCHANGED cache

ToolReturns(c) ==
  /\ ItemsOf("tool", c) # {}
  /\ LET i == Newest(ItemsOf("tool", c))
     IN  /\ items[i].look = 1
         /\ items' = [items EXCEPT ![i].look = 2]
         /\ Touched({i})
  /\ UNCHANGED <<openText, thinking, cache, log>>

\* approval_pending: run_loop asks before item/started is emitted.
ApprovalAsked(c) ==
  /\ Room /\ ItemsOf("tool", c) = {} /\ ItemsOf("approval", c) = {}
  /\ items' = Append(items, New("approval", c, 1))
  /\ Touched({Len(items) + 1})
  /\ UNCHANGED <<openText, thinking, cache, log>>

ApprovalSettled(c) ==
  /\ ItemsOf("approval", c) # {}
  /\ LET i == Newest(ItemsOf("approval", c))
     IN  items[i].look = 1 /\ items' = [items EXCEPT ![i].look = 2] /\ Touched({i})
  /\ UNCHANGED <<openText, thinking, cache, log>>

\* user_message of send_turn: drawn as a new item, nothing is touched.
UserMessage ==
  /\ Room
  /\ items' = Append(items, New("user", "none", 1))
  /\ openText' = 0
  /\ log' = Append(log, <<"user", Len(items) + 1>>)
  /\ UNCHANGED <<thinking, dirty, cache>>

\* RunEnd: the id of the finished activity, or everything.
RunEnds ==
  /\ openText # 0 \/ thinking # 0
  /\ items' = ThinkingOver(items)
  /\ openText' = 0 /\ thinking' = 0
  /\ Touched(IF thinking # 0 THEN {thinking} ELSE DOMAIN items)
  /\ log' = Append(log, <<"end", Len(items)>>)
  /\ UNCHANGED cache

\* render_lines: an item is drawn when this width has no copy or it is dirty.
DrawsAnew(w, i) == i \notin DOMAIN cache[w] \/ i \in dirty

Draw(w) ==
  /\ \E i \in DOMAIN items : DrawsAnew(w, i)
  /\ cache' = [cache EXCEPT ![w] = [i \in DOMAIN items |->
                 IF DrawsAnew(w, i) THEN items[i].look ELSE cache[w][i]]]
  /\ dirty' = {}
  /\ UNCHANGED <<items, openText, thinking, log>>

TimelineNext ==
  \/ Text \/ Reasoning \/ UserMessage \/ RunEnds
  \/ \E c \in Tools : \/ ToolBegins(c) \/ ToolReturns(c)
                      \/ ApprovalAsked(c) \/ ApprovalSettled(c)
  \/ \E w \in Widths : Draw(w)

TimelineSpec == TimelineInit /\ [][TimelineNext]_timelineVars

-----------------------------------------------------------------------------
(* Properties *)

\* Texts, tool cards and user messages stand in the order their events came, and two
\* texts share an item exactly when no tool, user message or end came between them.
ItemsInOrder ==
  \A i, j \in DOMAIN log : i < j =>
    /\ log[i][2] <= log[j][2]
    /\ (log[i][1] = "text" /\ log[j][1] = "text") =>
         (log[i][2] = log[j][2] <=> \A k \in i..j : log[k][1] = "text")

Stale(w, i) == i \in DOMAIN cache[w] /\ i \notin dirty /\ cache[w][i] # items[i].look

\* A view drawn at one width only never shows an old text, tool card or approval.
DrawnIsCurrentAtOneWidth ==
  \A w \in Widths : (\A v \in Widths \ {w} : cache[v] = <<>>) =>
    \A i \in DOMAIN items : Stale(w, i) => items[i].kind = "thinking"

TimelineSound == ItemsInOrder /\ DrawnIsCurrentAtOneWidth

\* Not so: a finished activity is not handed to the store when a tool begins, and a
\* redraw at one width clears the mark another width still needs.
DrawnIsCurrent == \A w \in Widths : \A i \in DOMAIN items : ~Stale(w, i)
=============================================================================
