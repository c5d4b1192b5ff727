---------------------------- MODULE ClientsProofs ----------------------------
(***************************************************************************)
(* Proofs about the parts around a user's terminal and about the command    *)
(* loop of the wire process: what is drawn of a Run's events (Timeline),    *)
(* the application's keys and panels (FrontEnd), the front ends without a   *)
(* screen (TextFronts), runners and thread directories (WireCommands).      *)
(* MCClients puts the parts side by side; the last theorems are about it.   *)
(***************************************************************************)
EXTENDS MCClients, SessionOpsProofs

-----------------------------------------------------------------------------
(* What one view shows *)

Shown == [kind : {"text", "thinking", "tool", "user", "approval"}, call : Tools \cup {"none"}, look : Nat]
LogEntry == {"text", "tool", "user", "end"} \X Nat

\* The activity that is lit is an item of its kind; a text that is open is where the last event
\* of the history went; nothing drawn is beyond the items.
TimelineTyped ==
    /\ items \in Seq(Shown) /\ log \in Seq(LogEntry)
    /\ openText \in 0..Len(items) /\ thinking \in 0..Len(items)
    /\ thinking # 0 => items[thinking].kind = "thinking"
    /\ \A w \in Widths : DOMAIN cache[w] \subseteq 1..Len(items)

OpenIsLast ==
    /\ openText # 0 => log # <<>> /\ log[Len(log)] = <<"text", openText>>
    /\ openText = 0 /\ log # <<>> => log[Len(log)][1] # "text"
    /\ \A i \in DOMAIN log : log[i][2] <= Len(items)

TimelineInv == TimelineTyped /\ OpenIsLast /\ cache \in [Widths -> {cache[w] : w \in Widths}] /\ TimelineSound

LEMMA TimelineStart == TimelineInit => TimelineInv
<1> SUFFICES ASSUME TimelineInit PROVE TimelineInv
  OBVIOUS
<1>1. items = <<>> /\ log = <<>> /\ openText = 0 /\ thinking = 0 /\ cache = [w \in Widths |-> <<>>]
  BY DEF TimelineInit
<1>2. Len(items) = 0 /\ DOMAIN items = {} /\ DOMAIN log = {} /\ items \in Seq(Shown) /\ log \in Seq(LogEntry)
  BY <1>1
<1>3. \A w \in Widths : DOMAIN cache[w] = {}
  BY <1>1
<1>4. TimelineTyped
  BY <1>1, <1>2, <1>3 DEF TimelineTyped
<1>5. OpenIsLast
  BY <1>1, <1>2 DEF OpenIsLast
<1>6. TimelineSound
  BY <1>1, <1>2 DEF TimelineSound, ItemsInOrder, DrawnIsCurrentAtOneWidth
<1>7. cache \in [Widths -> {cache[w] : w \in Widths}]
  BY <1>1
<1> QED
  BY <1>4, <1>5, <1>6, <1>7 DEF TimelineInv

\* An event that goes to an item no older than the last keeps the order.
LEMMA EventKeepsOrder ==
  ASSUME TimelineTyped, OpenIsLast, ItemsInOrder,
         NEW k \in {"text", "tool", "user", "end"}, NEW n \in Nat,
         log' = Append(log, <<k, n>>),
         \A i \in DOMAIN log : log[i][2] <= n,
         k = "text" => \/ n = openText /\ openText # 0
                       \/ openText = 0 /\ \A i \in DOMAIN log : log[i][2] # n
  PROVE  /\ ItemsInOrder' /\ log' \in Seq(LogEntry)
         /\ log' # <<>> /\ log'[Len(log')] = <<k, n>>
         /\ \A i \in DOMAIN log' : log'[i] = <<k, n>> \/ (i \in DOMAIN log /\ log'[i] = log[i])
<1> DEFINE m == Len(log)
<1>1. log \in Seq(LogEntry) /\ <<k, n>> \in LogEntry
  BY DEF TimelineTyped, LogEntry
<1>2. m \in Nat /\ DOMAIN log = 1..m /\ Len(log') = m + 1 /\ DOMAIN log' = 1..m + 1
      /\ log'[m + 1] = <<k, n>> /\ (\A i \in 1..m : log'[i] = log[i]) /\ log' \in Seq(LogEntry)
  BY <1>1, AppendProperties, LenProperties
<1>3. \A i \in 1..m : log[i][2] \in Nat
  BY <1>1, <1>2, ElementOfSeq DEF LogEntry
<1>4. /\ openText # 0 => m > 0 /\ log[m] = <<"text", openText>>
      /\ openText = 0 /\ m > 0 => log[m][1] # "text"
  BY <1>1, <1>2, EmptySeq DEF OpenIsLast
<1> HIDE DEF m
<1>5. ASSUME NEW i \in 1..m + 1, NEW j \in 1..m + 1, i < j
      PROVE  /\ log'[i][2] <= log'[j][2]
             /\ (log'[i][1] = "text" /\ log'[j][1] = "text") =>
                   (log'[i][2] = log'[j][2] <=> \A l \in i..j : log'[l][1] = "text")
  <2>1. CASE j <= m
    <3>1. i \in DOMAIN log /\ j \in DOMAIN log /\ i..j \subseteq 1..m
      BY <1>2, <1>5, <2>1
    <3> QED
      BY <1>2, <1>5, <3>1 DEF ItemsInOrder
  <2>2. CASE j = m + 1
    <3>1. i \in 1..m /\ log'[i] = log[i] /\ log'[j] = <<k, n>> /\ log'[j][1] = k /\ log'[j][2] = n
      BY <1>2, <1>5, <2>2
    <3>2. log'[i][2] <= log'[j][2]
      BY <1>2, <3>1
    <3>3. ASSUME log'[i][1] = "text", k = "text"
          PROVE  log'[i][2] = n <=> \A l \in i..j : log'[l][1] = "text"
      <4>1. CASE openText = 0
        <5>1. log[m][1] # "text" /\ m \in i..j /\ log'[m] = log[m]
          BY <1>2, <1>4, <3>1, <2>2, <4>1
        <5>2. log'[i][2] # n
          BY <1>2, <3>1, <3>3, <4>1
        <5> QED
          BY <5>1, <5>2
      <4>2. CASE openText # 0
        <5>1. n = openText /\ log[m] = <<"text", n>> /\ log[m][1] = "text" /\ log[m][2] = n /\ m \in 1..m /\ log'[m] = log[m]
          BY <1>2, <1>4, <3>1, <3>3, <4>2
        <5>2. CASE i = m
          <6>1. \A l \in i..j : l = m \/ l = m + 1
            BY <1>2, <5>2, <2>2
          <6> QED
            BY <1>2, <3>1, <3>3, <5>1, <5>2, <6>1
        <5>3. CASE i < m
          <6>1. log[i][2] = log[m][2] <=> \A l \in i..m : log[l][1] = "text"
            <7>1. i \in DOMAIN log /\ m \in DOMAIN log /\ log[i][1] = "text" /\ log[m][1] = "text"
              BY <1>2, <3>1, <3>3, <5>1
            <7> QED
              BY <5>3, <7>1 DEF ItemsInOrder
          <6>2. \A l \in i..j : l = m + 1 \/ (l \in i..m /\ log'[l] = log[l])
            BY <1>2, <3>1, <2>2
          <6>3. i..m \subseteq i..j /\ m + 1 \in i..j
            BY <1>2, <2>2, <3>1
          <6>4. (\A l \in i..j : log'[l][1] = "text") <=> \A l \in i..m : log[l][1] = "text"
            BY <1>2, <3>3, <6>2, <6>3
          <6> QED
            BY <3>1, <5>1, <6>1, <6>4
        <5>4. i = m \/ i < m
          BY <1>2, <3>1
        <5> QED
          BY <5>2, <5>3, <5>4
      <4> QED
        BY <4>1, <4>2
    <3> QED
      BY <3>1, <3>2, <3>3
  <2> QED
    BY <1>2, <1>5, <2>1, <2>2
<1>6. ItemsInOrder'
  BY <1>2, <1>5 DEF ItemsInOrder
<1> QED
  BY <1>2, <1>6, <1>1, EmptySeq DEF m

\* What is drawn stays current when an item changes or comes and is not drawn yet, is marked, or
\* is an activity.
LEMMA MarksKeepDrawn ==
  ASSUME TimelineTyped, DrawnIsCurrentAtOneWidth, UNCHANGED cache,
         dirty \subseteq dirty',
         \A i \in DOMAIN items' : \/ i \notin 1..Len(items)
                                  \/ i \in dirty'
                                  \/ items'[i] = items[i]
                                  \/ items'[i].kind = "thinking"
  PROVE  DrawnIsCurrentAtOneWidth'
<1>1. DOMAIN items = 1..Len(items)
  BY LenProperties DEF TimelineTyped
<1> QED
  BY <1>1 DEF DrawnIsCurrentAtOneWidth, Stale, TimelineTyped

\* The items after an item got another look.
Looking(s, i, v) == [s EXCEPT ![i].look = v]

LEMMA LookChanges ==
  ASSUME NEW s \in Seq(Shown), NEW i, NEW v \in Nat
  PROVE  /\ Looking(s, i, v) \in Seq(Shown) /\ Len(Looking(s, i, v)) = Len(s)
         /\ \A j \in 1..Len(s) : /\ j # i => Looking(s, i, v)[j] = s[j]
                                 /\ Looking(s, i, v)[j].kind = s[j].kind
<1> DEFINE t == [s EXCEPT ![i].look = v]
<1>1. Len(s) \in Nat /\ DOMAIN s = 1..Len(s) /\ \A j \in 1..Len(s) : s[j] \in Shown
  BY LenProperties, ElementOfSeq
<1>2. DOMAIN t = 1..Len(s)
  BY <1>1
<1>3. ASSUME NEW j \in 1..Len(s) PROVE t[j] \in Shown /\ (j # i => t[j] = s[j]) /\ t[j].kind = s[j].kind
  <2>1. t[j] = IF j = i THEN [s[j] EXCEPT !.look = v] ELSE s[j]
    BY <1>1
  <2>2. s[j] \in Shown
    BY <1>1
  <2> HIDE DEF t
  <2> QED
    BY <2>1, <2>2 DEF Shown
<1>4. t = [j \in 1..Len(s) |-> t[j]]
  BY <1>2
<1> HIDE DEF t
<1>5. t \in Seq(Shown) /\ Len(t) = Len(s)
  BY <1>1, <1>3, <1>4
<1> QED
  BY <1>3, <1>5 DEF t, Looking

\* The items after an item came.
LEMMA ItemComes ==
  ASSUME NEW s \in Seq(Shown), NEW e \in Shown
  PROVE  /\ Append(s, e) \in Seq(Shown) /\ Len(Append(s, e)) = Len(s) + 1
         /\ Append(s, e)[Len(s) + 1] = e /\ \A j \in 1..Len(s) : Append(s, e)[j] = s[j]
BY AppendProperties, LenProperties

\* An activity that is over draws nothing; the others stay as they are.
LEMMA ActivityEnds ==
  ASSUME TimelineTyped
  PROVE  /\ ThinkingOver(items) \in Seq(Shown) /\ Len(ThinkingOver(items)) = Len(items)
         /\ \A j \in 1..Len(items) : ThinkingOver(items)[j] = items[j] \/ ThinkingOver(items)[j].kind = "thinking"
<1>1. items \in Seq(Shown) /\ (thinking # 0 => thinking \in 1..Len(items) /\ items[thinking].kind = "thinking")
  BY LenProperties DEF TimelineTyped
<1>2. CASE thinking = 0
  BY <1>1, <1>2 DEF ThinkingOver
<1>3. CASE thinking # 0
  <2>1. ThinkingOver(items) = Looking(items, thinking, 0)
    BY <1>3 DEF ThinkingOver, Looking
  <2>2. /\ Looking(items, thinking, 0) \in Seq(Shown) /\ Len(Looking(items, thinking, 0)) = Len(items)
        /\ \A j \in 1..Len(items) : /\ j # thinking => Looking(items, thinking, 0)[j] = items[j]
                                    /\ Looking(items, thinking, 0)[j].kind = items[j].kind
    BY <1>1, LookChanges
  <2> QED
    BY <1>1, <1>3, <2>1, <2>2
<1> QED
  BY <1>2, <1>3

\* A step that adds at most one item, and writes at most one event.
LEMMA TimelineMoves ==
  ASSUME TimelineInv, UNCHANGED cache, items' \in Seq(Shown), Len(items') \in Nat, Len(items) <= Len(items'),
         openText' \in 0..Len(items'), thinking' \in 0..Len(items'),
         thinking' # 0 => items'[thinking'].kind = "thinking",
         dirty \subseteq dirty',
         \A i \in 1..Len(items) : i \in dirty' \/ items'[i] = items[i] \/ items'[i].kind = "thinking",
         \/ UNCHANGED <<log, openText>>
         \/ \E k \in {"text", "tool", "user", "end"}, n \in Nat :
               /\ log' = Append(log, <<k, n>>) /\ n <= Len(items') /\ \A i \in DOMAIN log : log[i][2] <= n
               /\ k # "text" => openText' = 0
               /\ k = "text" => /\ openText' = n /\ n # 0
                               /\ \/ n = openText /\ openText # 0
                                  \/ openText = 0 /\ \A i \in DOMAIN log : log[i][2] # n
  PROVE  TimelineInv'
<1>1. TimelineTyped /\ OpenIsLast /\ ItemsInOrder /\ DrawnIsCurrentAtOneWidth
  BY DEF TimelineInv, TimelineSound
<1>2. items \in Seq(Shown) /\ Len(items) \in Nat /\ log \in Seq(LogEntry)
      /\ \A w \in Widths : DOMAIN cache[w] \subseteq 1..Len(items)
  BY <1>1, LenProperties DEF TimelineTyped
<1>3. \A i \in DOMAIN log : log[i][2] \in Nat
  BY <1>2, ElementOfSeq, LenProperties DEF LogEntry
<1>4. DrawnIsCurrentAtOneWidth'
  <2>1. \A i \in DOMAIN items' : i \notin 1..Len(items) \/ i \in dirty' \/ items'[i] = items[i] \/ items'[i].kind = "thinking"
    OBVIOUS
  <2> QED
    BY <1>1, <2>1, MarksKeepDrawn
<1>5. \A w \in Widths : DOMAIN cache'[w] \subseteq 1..Len(items')
  BY <1>2
<1>6. log' \in Seq(LogEntry) /\ OpenIsLast' /\ ItemsInOrder'
  <2>1. CASE UNCHANGED <<log, openText>>
    BY <1>1, <1>2, <1>3, <2>1 DEF OpenIsLast, ItemsInOrder
  <2>2. ASSUME NEW k \in {"text", "tool", "user", "end"}, NEW n \in Nat,
               log' = Append(log, <<k, n>>), n <= Len(items'), \A i \in DOMAIN log : log[i][2] <= n,
               k # "text" => openText' = 0,
               k = "text" => /\ openText' = n /\ n # 0
                             /\ \/ n = openText /\ openText # 0
                                \/ openText = 0 /\ \A i \in DOMAIN log : log[i][2] # n
        PROVE  log' \in Seq(LogEntry) /\ OpenIsLast' /\ ItemsInOrder'
    <3>1. /\ ItemsInOrder' /\ log' \in Seq(LogEntry)
          /\ log' # <<>> /\ log'[Len(log')] = <<k, n>>
          /\ \A i \in DOMAIN log' : log'[i] = <<k, n>> \/ (i \in DOMAIN log /\ log'[i] = log[i])
      BY <1>1, <2>2, EventKeepsOrder
    <3>2. \A i \in DOMAIN log' : log'[i][2] <= Len(items')
      <4>1. <<k, n>>[2] = n
        OBVIOUS
      <4>2. \A i \in DOMAIN log' : log'[i][2] <= n
        BY <2>2, <3>1, <4>1
      <4>3. \A i \in DOMAIN log' : log'[i] \in LogEntry
        BY <3>1
      <4>4. \A i \in DOMAIN log' : log'[i][2] \in Nat
        BY <4>3 DEF LogEntry
      <4>5. n <= Len(items') /\ Len(items') \in Nat
        BY <2>2
      <4> QED
        BY <4>2, <4>4, <4>5
    <3>3. /\ openText' # 0 => log'[Len(log')] = <<"text", openText'>>
          /\ openText' = 0 => log'[Len(log')][1] # "text"
      BY <2>2, <3>1
    <3> QED
      BY <3>1, <3>2, <3>3 DEF OpenIsLast
  <2> QED
    BY <2>1, <2>2
<1> QED
  BY <1>2, <1>4, <1>5, <1>6 DEF TimelineInv, TimelineTyped, TimelineSound

LEMMA NewIsShown ==
  ASSUME NEW k \in {"text", "thinking", "tool", "user", "approval"}, NEW c \in Tools \cup {"none"}, NEW v \in Nat
  PROVE  New(k, c, v) \in Shown /\ New(k, c, v).kind = k /\ New(k, c, v).look = v
BY DEF New, Shown

LEMMA StepTimelineInv == TimelineInv /\ [TimelineNext]_timelineVars => TimelineInv'
<1> SUFFICES ASSUME TimelineInv, [TimelineNext]_timelineVars PROVE TimelineInv'
  OBVIOUS
<1>a. TimelineTyped /\ OpenIsLast /\ ItemsInOrder /\ DrawnIsCurrentAtOneWidth
  BY DEF TimelineInv, TimelineSound
<1>b. /\ items \in Seq(Shown) /\ Len(items) \in Nat /\ DOMAIN items = 1..Len(items)
      /\ openText \in 0..Len(items) /\ thinking \in 0..Len(items)
      /\ (thinking # 0 => items[thinking].kind = "thinking")
      /\ \A i \in 1..Len(items) : items[i] \in Shown
  BY <1>a, LenProperties, ElementOfSeq DEF TimelineTyped
<1>c. \A i \in DOMAIN log : log[i][2] \in Nat /\ log[i][2] <= Len(items)
  <2>1. \A i \in DOMAIN log : log[i][2] \in Nat
    BY <1>a, ElementOfSeq, LenProperties DEF LogEntry, TimelineTyped
  <2> QED
    BY <1>a, <2>1 DEF OpenIsLast
<1>1. CASE UNCHANGED timelineVars
  BY <1>1 DEF timelineVars, TimelineInv, TimelineTyped, OpenIsLast, TimelineSound, ItemsInOrder,
     DrawnIsCurrentAtOneWidth, Stale
<1>2. CASE Text
  <2>1. CASE openText = 0
    <3> DEFINE e == New("text", "none", 0)
               s == Append(items, e)
               i == Len(items) + 1
    <3>1. /\ e \in Shown /\ s \in Seq(Shown) /\ Len(s) = i /\ \A j \in 1..Len(items) : s[j] = items[j]
      <4>1. e \in Shown
        BY NewIsShown
      <4>2. items \in Seq(Shown)
        BY <1>b
      <4> HIDE DEF e
      <4> QED
        BY <4>1, <4>2, ItemComes
    <3>2. s[i].look + 1 \in Nat /\ i \in Nat
      <4>1. e \in Shown /\ e.look = 0
        BY NewIsShown
      <4>2. items \in Seq(Shown)
        BY <1>b
      <4> HIDE DEF e
      <4>3. s[i] = e
        BY <4>1, <4>2, ItemComes
      <4> HIDE DEF s
      <4> QED
        BY <1>b, <4>1, <4>3
    <3>3. /\ items' = Looking(s, i, s[i].look + 1) /\ openText' = i /\ log' = Append(log, <<"text", i>>)
          /\ dirty' = dirty \cup {i} /\ UNCHANGED <<thinking, cache>>
      BY <1>2, <2>1, <3>1 DEF Text, Looking, Touched
    <3> HIDE DEF s, e
    <3>4. /\ items' \in Seq(Shown) /\ Len(items') = i /\ \A j \in 1..i : j # i => items'[j] = s[j]
      BY <3>1, <3>2, <3>3, LookChanges
    <3>5. \A j \in 1..Len(items) : items'[j] = items[j]
      BY <1>b, <3>1, <3>4
    <3>6. \A j \in DOMAIN log : log[j][2] <= i /\ log[j][2] # i
      BY <1>b, <1>c
    <3>7. thinking # 0 => items'[thinking].kind = "thinking"
      BY <1>b, <3>5
    <3>8. i \in Nat /\ i # 0 /\ Len(items) <= i /\ openText' \in 0..i /\ thinking' \in 0..i
      BY <1>b, <3>3
    <3> HIDE DEF i
    <3> QED
      BY <2>1, <3>3, <3>4, <3>5, <3>6, <3>7, <3>8, TimelineMoves
  <2>2. CASE openText # 0
    <3>1. /\ items' = Looking(items, openText, items[openText].look + 1) /\ openText' = openText
          /\ log' = Append(log, <<"text", openText>>)
          /\ dirty' = dirty \cup {openText} /\ UNCHANGED <<thinking, cache>>
      BY <1>2, <2>2 DEF Text, Looking, Touched
    <3>2. openText \in 1..Len(items) /\ items[openText].look + 1 \in Nat
      BY <1>b, <2>2 DEF Shown
    <3>3. /\ items' \in Seq(Shown) /\ Len(items') = Len(items)
          /\ \A j \in 1..Len(items) : (j # openText => items'[j] = items[j]) /\ items'[j].kind = items[j].kind
      BY <1>b, <3>1, <3>2, LookChanges
    <3>4. \A j \in DOMAIN log : log[j][2] <= openText
      <4>1. log # <<>> /\ log[Len(log)] = <<"text", openText>> /\ log[Len(log)][2] = openText
        BY <1>a, <2>2 DEF OpenIsLast
      <4>2. DOMAIN log = 1..Len(log) /\ Len(log) \in Nat
        BY <1>a, LenProperties DEF TimelineTyped
      <4>3. ASSUME NEW j \in DOMAIN log PROVE log[j][2] <= openText
        <5>1. j = Len(log) \/ (j < Len(log) /\ Len(log) \in DOMAIN log)
          BY <4>2
        <5> QED
          BY <1>a, <1>b, <1>c, <4>1, <5>1 DEF ItemsInOrder
      <4> QED
        BY <4>3
    <3>5. openText \in Nat /\ openText <= Len(items) /\ (thinking # 0 => items'[thinking].kind = "thinking")
      BY <1>b, <3>2, <3>3
    <3> QED
      BY <1>b, <2>2, <3>1, <3>3, <3>4, <3>5, TimelineMoves
  <2> QED
    BY <2>1, <2>2
<1>3. CASE Reasoning
  <2>1. CASE thinking = 0
    <3> DEFINE e == New("thinking", "none", 1)
    <3>1. items' = Append(items, e) /\ thinking' = Len(items) + 1 /\ UNCHANGED <<openText, cache, log>>
          /\ dirty \subseteq dirty'
      BY <1>3, <2>1 DEF Reasoning, Touched
    <3>2. e \in Shown /\ e.kind = "thinking"
      BY NewIsShown
    <3> HIDE DEF e
    <3>3. /\ items' \in Seq(Shown) /\ Len(items') = Len(items) + 1 /\ items'[Len(items) + 1] = e
          /\ \A j \in 1..Len(items) : items'[j] = items[j]
      BY <1>b, <3>1, <3>2, ItemComes
    <3>4. Len(items') \in Nat /\ Len(items) <= Len(items') /\ openText' \in 0..Len(items') /\ thinking' \in 0..Len(items')
      BY <1>b, <3>1, <3>3
    <3> QED
      BY <3>1, <3>2, <3>3, <3>4, TimelineMoves
  <2>2. CASE thinking # 0
    <3>1. UNCHANGED <<items, thinking, openText, cache, log>> /\ dirty \subseteq dirty'
      BY <1>3, <2>2 DEF Reasoning, Touched
    <3> QED
      BY <1>b, <3>1, TimelineMoves
  <2> QED
    BY <2>1, <2>2
<1>4. ASSUME NEW c \in Tools, ToolBegins(c) PROVE TimelineInv'
  <2> DEFINE e == New("tool", c, 1)
             i == Len(items) + 1
  <2>1. /\ items' = Append(ThinkingOver(items), e) /\ openText' = 0 /\ thinking' = 0
        /\ log' = Append(log, <<"tool", i>>) /\ dirty' = dirty \cup {i} /\ UNCHANGED cache
    BY <1>4 DEF ToolBegins, Touched
  <2>2. e \in Shown
    BY NewIsShown
  <2> HIDE DEF e
  <2>3. /\ items' \in Seq(Shown) /\ Len(items') = i
        /\ \A j \in 1..Len(items) : items'[j] = items[j] \/ items'[j].kind = "thinking"
    BY <1>a, <1>b, <2>1, <2>2, ActivityEnds, ItemComes
  <2>4. i \in Nat /\ Len(items) <= i /\ 0 \in 0..i /\ \A j \in DOMAIN log : log[j][2] <= i
    BY <1>b, <1>c
  <2>5. Len(items') \in Nat /\ Len(items) <= Len(items') /\ openText' \in 0..Len(items') /\ thinking' \in 0..Len(items')
    BY <2>1, <2>3, <2>4
  <2>6. \E k \in {"text", "tool", "user", "end"}, m \in Nat :
          /\ log' = Append(log, <<k, m>>) /\ m <= Len(items') /\ \A j \in DOMAIN log : log[j][2] <= m
          /\ k # "text"
    BY <2>1, <2>3, <2>4
  <2>7. thinking' = 0 /\ openText' = 0 /\ dirty \subseteq dirty' /\ UNCHANGED cache
    BY <2>1
  <2> HIDE DEF i
  <2> QED
    BY <2>3, <2>5, <2>6, <2>7, TimelineMoves
<1>5. ASSUME NEW i, items' = Looking(items, i, 2), dirty' = dirty \cup {i}, UNCHANGED <<openText, thinking, cache, log>>
      PROVE  TimelineInv'
  <2>1. /\ items' \in Seq(Shown) /\ Len(items') = Len(items)
        /\ \A j \in 1..Len(items) : (j # i => items'[j] = items[j]) /\ items'[j].kind = items[j].kind
    BY <1>b, <1>5, LookChanges
  <2>2. thinking # 0 => items'[thinking].kind = "thinking"
    BY <1>b, <2>1
  <2> QED
    BY <1>b, <1>5, <2>1, <2>2, TimelineMoves
<1>6. ASSUME NEW c \in Tools, ToolReturns(c) \/ ApprovalSettled(c) PROVE TimelineInv'
  <2>1. PICK i : items' = Looking(items, i, 2) /\ dirty' = dirty \cup {i} /\ UNCHANGED <<openText, thinking, cache, log>>
    BY <1>6 DEF ToolReturns, ApprovalSettled, Looking, Touched
  <2> QED
    BY <1>5, <2>1
<1>7. ASSUME NEW c \in Tools, ApprovalAsked(c) PROVE TimelineInv'
  <2> DEFINE e == New("approval", c, 1)
  <2>1. items' = Append(items, e) /\ dirty \subseteq dirty' /\ UNCHANGED <<openText, thinking, cache, log>>
    BY <1>7 DEF ApprovalAsked, Touched
  <2>2. e \in Shown
    BY NewIsShown
  <2> HIDE DEF e
  <2>3. /\ items' \in Seq(Shown) /\ Len(items') = Len(items) + 1
        /\ \A j \in 1..Len(items) : items'[j] = items[j]
    BY <1>b, <2>1, <2>2, ItemComes
  <2>4. /\ Len(items') \in Nat /\ Len(items) <= Len(items') /\ openText' \in 0..Len(items') /\ thinking' \in 0..Len(items')
        /\ thinking' # 0 => items'[thinking'].kind = "thinking"
    BY <1>b, <2>1, <2>3
  <2> QED
    BY <2>1, <2>3, <2>4, TimelineMoves
<1>8. CASE UserMessage
  <2> DEFINE e == New("user", "none", 1)
             i == Len(items) + 1
  <2>1. items' = Append(items, e) /\ openText' = 0 /\ log' = Append(log, <<"user", i>>) /\ UNCHANGED <<dirty, thinking, cache>>
    BY <1>8 DEF UserMessage
  <2>2. e \in Shown
    BY NewIsShown
  <2> HIDE DEF e
  <2>3. /\ items' \in Seq(Shown) /\ Len(items') = i
        /\ \A j \in 1..Len(items) : items'[j] = items[j]
    BY <1>b, <2>1, <2>2, ItemComes
  <2>4. /\ i \in Nat /\ Len(items) <= i /\ 0 \in 0..i /\ thinking' \in 0..i
        /\ (thinking' # 0 => items'[thinking'].kind = "thinking")
        /\ \A j \in DOMAIN log : log[j][2] <= i
    BY <1>b, <1>c, <2>1, <2>3
  <2> HIDE DEF i
  <2> QED
    BY <2>1, <2>3, <2>4, TimelineMoves
<1>9. CASE RunEnds
  <2>1. /\ items' = ThinkingOver(items) /\ openText' = 0 /\ thinking' = 0
        /\ log' = Append(log, <<"end", Len(items)>>) /\ dirty \subseteq dirty' /\ UNCHANGED cache
    BY <1>9 DEF RunEnds, Touched
  <2>2. /\ items' \in Seq(Shown) /\ Len(items') = Len(items) /\ 0 \in 0..Len(items)
        /\ \A j \in 1..Len(items) : items'[j] = items[j] \/ items'[j].kind = "thinking"
    BY <1>a, <1>b, <2>1, ActivityEnds
  <2>3. Len(items') \in Nat /\ Len(items) <= Len(items') /\ openText' \in 0..Len(items') /\ thinking' \in 0..Len(items')
    BY <1>b, <2>1, <2>2
  <2>4. Len(items) \in Nat /\ Len(items) <= Len(items') /\ \A j \in DOMAIN log : log[j][2] <= Len(items)
    BY <1>b, <1>c, <2>2
  <2> QED
    BY <2>1, <2>2, <2>3, <2>4, TimelineMoves
<1>10. ASSUME NEW w \in Widths, Draw(w) PROVE TimelineInv'
  <2> DEFINE d == [i \in DOMAIN items |-> IF DrawsAnew(w, i) THEN items[i].look ELSE cache[w][i]]
  <2>1. /\ items # <<>> /\ cache' = [cache EXCEPT ![w] = d] /\ dirty' = {}
        /\ UNCHANGED <<items, openText, thinking, log>>
    BY <1>10 DEF Draw
  <2>2. cache'[w] = d /\ \A v \in Widths : v # w => cache'[v] = cache[v]
    BY <2>1 DEF TimelineInv
  <2>3. d # <<>>
    BY <1>b, <2>1, EmptySeq
  <2>4. DrawnIsCurrentAtOneWidth'
    <3> SUFFICES ASSUME NEW v \in Widths, \A u \in Widths \ {v} : cache'[u] = <<>>,
                        NEW i \in DOMAIN items, Stale(v, i)'
                 PROVE  items[i].kind = "thinking"
      BY <2>1 DEF DrawnIsCurrentAtOneWidth
    <3>1. v = w
      BY <2>2, <2>3
    <3>2. d[i] # items[i].look
      BY <2>1, <2>2, <3>1 DEF Stale
    <3>3. Stale(w, i)
      BY <3>2 DEF Stale, DrawsAnew
    <3> QED
      BY <1>a, <2>2, <3>1, <3>3 DEF DrawnIsCurrentAtOneWidth
  <2>5. TimelineTyped'
    <3>1. DOMAIN d = 1..Len(items)
      BY <1>b
    <3> HIDE DEF d
    <3> QED
      BY <1>a, <2>1, <2>2, <3>1 DEF TimelineTyped
  <2>6. OpenIsLast' /\ ItemsInOrder'
    BY <1>a, <2>1 DEF OpenIsLast, ItemsInOrder
  <2>7. cache' \in [Widths -> {cache'[v] : v \in Widths}]
    BY <2>1 DEF TimelineInv
  <2> QED
    BY <2>4, <2>5, <2>6, <2>7 DEF TimelineInv, TimelineSound
<1> QED
  BY <1>1, <1>2, <1>3, <1>4, <1>6, <1>7, <1>8, <1>9, <1>10 DEF TimelineNext

\* Whatever the model, its tools and the user do, and however often and at which widths the
\* screen is drawn: the items stand in the order their events came, and at one width what is drawn
\* is what the item is (app/tui/reducer.py, store.py).
THEOREM TimelineIsTrue == TimelineSpec => []TimelineSound
<1>1. TimelineInv => TimelineSound
  BY DEF TimelineInv
<1> QED
  BY TimelineStart, StepTimelineInv, <1>1, PTL DEF TimelineSpec

-----------------------------------------------------------------------------
(* The terminal application *)

FrontTyped ==
    /\ owner \in Seq(View) /\ view \in View
    /\ live \in [View -> 0..Len(owner)] /\ asks \in [View -> BOOLEAN] /\ begun \in [View -> BOOLEAN]
    /\ uiRun \in 0..Len(owner)

\* The live Run of a thread is its own; one that waits was not answered yet.
LiveIsOwned ==
    \A t \in View :
        /\ live[t] # None => owner[live[t]] = t
        /\ asks[t] => live[t] # None /\ \A a \in answered : a[1] # live[t]

\* A task remembers what was on screen when its key was pressed.
CallsRemember ==
    \A c \in calls :
        /\ c.kind = "cancel" =>
              /\ c.thread \in View /\ c.run \in 0..Len(owner)
              /\ c.run # None /\ owner[c.run] = c.thread => c.run \in meant
        /\ c.kind = "answer" => <<c.item, c.yes>> \in pressed

FrontInv == FrontTyped /\ LiveIsOwned /\ CallsRemember /\ FrontSound

LEMMA FrontStart == FrontInit => FrontInv
<1> SUFFICES ASSUME FrontInit PROVE FrontInv
  OBVIOUS
<1>1. owner = <<>> /\ Len(owner) = 0 /\ owner \in Seq(View) /\ \A t \in View : live[t] = None /\ ~asks[t]
  BY DEF FrontInit, None
<1>2. FrontTyped
  BY <1>1 DEF FrontInit, FrontTyped, None
<1>3. LiveIsOwned /\ CallsRemember
  BY <1>1 DEF LiveIsOwned, CallsRemember, FrontInit
<1>4. FrontSound
  BY <1>1 DEF FrontSound, ControlsAreBound, ScreenAgrees, FrontInit
<1> QED
  BY <1>2, <1>3, <1>4 DEF FrontInv

\* A step that leaves the Runs and what the user did alone, and shows what is so.
LEMMA FrontSteps ==
  ASSUME FrontInv, FrontTyped', UNCHANGED owner,
         \A t \in View : live'[t] = live[t] \/ live'[t] = None,
         \A t \in View : asks'[t] => live'[t] = live[t] /\ live[t] # None /\ \A a \in answered' : a[1] # live[t],
         calls' \subseteq calls, meant \subseteq meant', pressed \subseteq pressed',
         ControlsAreBound', ScreenAgrees'
  PROVE  FrontInv'
<1>1. LiveIsOwned'
  BY DEF FrontInv, LiveIsOwned
<1>2. CallsRemember'
  BY DEF FrontInv, CallsRemember
<1> QED
  BY <1>1, <1>2 DEF FrontInv, FrontSound

LEMMA StepFrontInv == FrontInv /\ [FrontNext]_uiVars => FrontInv'
<1> SUFFICES ASSUME FrontInv, [FrontNext]_uiVars PROVE FrontInv'
  OBVIOUS
<1> USE DEF None
<1>a. FrontTyped /\ LiveIsOwned /\ CallsRemember /\ ControlsAreBound /\ ScreenAgrees
  BY DEF FrontInv, FrontSound
<1>b. Len(owner) \in Nat /\ DOMAIN owner = 1..Len(owner)
  BY <1>a, LenProperties DEF FrontTyped
<1>1. CASE UNCHANGED uiVars
  BY <1>1 DEF uiVars, FrontInv, FrontTyped, LiveIsOwned, CallsRemember, FrontSound, ControlsAreBound, ScreenAgrees
<1>2. ASSUME NEW t \in View, RunCreated(t) PROVE FrontInv'
  <2> DEFINE n == Len(owner) + 1
  <2>1. /\ live[t] = 0 /\ owner' = Append(owner, t) /\ live' = [live EXCEPT ![t] = Len(owner')]
        /\ begun' = [begun EXCEPT ![t] = FALSE]
        /\ UNCHANGED <<asks, view, ui, uiRun, card, vcard, calls, hit, meant, answered, pressed, strayed, blanked>>
    BY <1>2 DEF RunCreated, screen, history
  <2>2. /\ owner' \in Seq(View) /\ Len(owner') = n /\ owner'[n] = t /\ \A i \in 1..Len(owner) : owner'[i] = owner[i]
        /\ n \in Nat
    BY <1>a, <1>b, <2>1, AppendProperties DEF FrontTyped
  <2>3. live' \in [View -> 0..n] /\ live'[t] = n /\ \A u \in View : u # t => live'[u] = live[u]
    BY <1>a, <1>b, <2>1, <2>2 DEF FrontTyped
  <2>4. FrontTyped'
    BY <1>a, <1>b, <2>1, <2>2, <2>3 DEF FrontTyped
  <2>5. LiveIsOwned'
    <3> SUFFICES ASSUME NEW u \in View
                 PROVE  /\ live'[u] # 0 => owner'[live'[u]] = u
                        /\ asks'[u] => live'[u] # 0 /\ \A a \in answered' : a[1] # live'[u]
      BY DEF LiveIsOwned
    <3>1. CASE u = t
      BY <1>a, <2>1, <2>2, <2>3, <3>1 DEF LiveIsOwned
    <3>2. CASE u # t
      <4>1. live'[u] = live[u] /\ live[u] \in 0..Len(owner)
        BY <1>a, <2>3, <3>2 DEF FrontTyped
      <4>2. live[u] # 0 => owner'[live[u]] = owner[live[u]]
        BY <1>b, <2>2, <4>1
      <4> QED
        BY <1>a, <2>1, <4>1, <4>2 DEF LiveIsOwned
    <3> QED
      BY <3>1, <3>2
  <2>6. CallsRemember'
    <3> SUFFICES ASSUME NEW c \in calls
                 PROVE  /\ c.kind = "cancel" =>
                             /\ c.thread \in View /\ c.run \in 0..Len(owner')
                             /\ c.run # 0 /\ owner'[c.run] = c.thread => c.run \in meant
                        /\ c.kind = "answer" => <<c.item, c.yes>> \in pressed
      BY <2>1 DEF CallsRemember
    <3>1. CASE c.kind = "cancel"
      <4>1. c.run \in 0..Len(owner) /\ c.thread \in View /\ (c.run # 0 /\ owner[c.run] = c.thread => c.run \in meant)
        BY <1>a, <3>1 DEF CallsRemember
      <4>2. c.run # 0 => owner'[c.run] = owner[c.run]
        BY <1>b, <2>2, <4>1
      <4>3. c.run \in 0..Len(owner')
        BY <1>b, <2>2, <4>1
      <4> QED
        BY <3>1, <4>1, <4>2, <4>3
    <3>2. CASE c.kind # "cancel"
      BY <1>a, <3>2 DEF CallsRemember
    <3> QED
      BY <3>1, <3>2
  <2>7. ControlsAreBound'
    BY <1>a, <2>1 DEF ControlsAreBound
  <2>8. ScreenAgrees'
    <3>1. CASE t = view
      <4>1. ~strayed => uiRun = 0 /\ ~asks[view]
        BY <1>a, <2>1, <3>1 DEF ScreenAgrees, LiveIsOwned, FrontTyped
      <4>2. ~begun'[view']
        BY <1>a, <2>1, <3>1 DEF FrontTyped
      <4> QED
        BY <1>a, <2>1, <3>1, <4>1, <4>2 DEF ScreenAgrees
    <3>2. CASE t # view
      <4>1. view \in View /\ live'[view] = live[view] /\ begun'[view] = begun[view]
        BY <1>a, <2>1, <2>3, <3>2 DEF FrontTyped
      <4> QED
        BY <1>a, <2>1, <4>1 DEF ScreenAgrees
    <3> QED
      BY <3>1, <3>2
  <2> QED
    BY <2>4, <2>5, <2>6, <2>7, <2>8 DEF FrontInv, FrontSound
<1>3. ASSUME NEW t \in View, RunStarted(t) PROVE FrontInv'
  <2>1. /\ begun' = [begun EXCEPT ![t] = TRUE] /\ Shows(t, "running", live[t], card)
        /\ UNCHANGED <<owner, live, asks, view, vcard, calls, hit, meant, answered, pressed, strayed, blanked>>
    BY <1>3 DEF RunStarted, history
  <2>2. FrontTyped'
    BY <1>a, <2>1 DEF FrontTyped, Shows
  <2>3. ScreenAgrees'
    <3>1. CASE t = view
      BY <1>a, <2>1, <3>1 DEF ScreenAgrees, Shows, FrontTyped
    <3>2. CASE t # view
      BY <1>a, <2>1, <3>2 DEF ScreenAgrees, Shows, FrontTyped
    <3> QED
      BY <3>1, <3>2
  <2> QED
    BY <1>a, <2>1, <2>2, <2>3, FrontSteps DEF LiveIsOwned, ControlsAreBound
<1>4. ASSUME NEW t \in View, ApprovalRequested(t) PROVE FrontInv'
  <2>1. /\ live[t] # 0 /\ begun[t] /\ asks' = [asks EXCEPT ![t] = TRUE] /\ Shows(t, "approval", live[t], live[t])
        /\ \A a \in answered : a[1] # live[t]
        /\ UNCHANGED <<owner, live, begun, view, calls, hit, meant, answered, pressed, strayed, blanked>>
    BY <1>4 DEF ApprovalRequested, history
  <2>2. FrontTyped' /\ asks'[t] /\ \A u \in View : u # t => asks'[u] = asks[u]
    BY <1>a, <2>1 DEF FrontTyped, Shows
  <2>3. ScreenAgrees'
    <3>1. CASE t = view
      BY <1>a, <2>1, <2>2, <3>1 DEF ScreenAgrees, Shows, FrontTyped
    <3>2. CASE t # view
      BY <1>a, <2>1, <2>2, <3>2 DEF ScreenAgrees, Shows, FrontTyped
    <3> QED
      BY <3>1, <3>2
  <2> QED
    BY <1>a, <2>1, <2>2, <2>3, FrontSteps DEF LiveIsOwned, ControlsAreBound
<1>5. ASSUME NEW t \in View, RunCompleted(t) PROVE FrontInv'
  <2>1. /\ ~asks[t] /\ live' = [live EXCEPT ![t] = 0] /\ Shows(t, "idle", 0, 0)
        /\ UNCHANGED <<owner, asks, begun, view, calls, hit, meant, answered, pressed, strayed, blanked>>
    BY <1>5 DEF RunCompleted, history
  <2>2. FrontTyped' /\ live'[t] = 0 /\ \A u \in View : u # t => live'[u] = live[u]
    BY <1>a, <1>b, <2>1 DEF FrontTyped, Shows
  <2>3. ScreenAgrees'
    <3>1. CASE t = view
      BY <1>a, <2>1, <2>2, <3>1 DEF ScreenAgrees, Shows, FrontTyped
    <3>2. CASE t # view
      BY <1>a, <2>1, <2>2, <3>2 DEF ScreenAgrees, Shows, FrontTyped
    <3> QED
      BY <3>1, <3>2
  <2>4. \A u \in View : asks'[u] => live'[u] = live[u] /\ live[u] # 0 /\ \A a \in answered' : a[1] # live[u]
    BY <1>a, <2>1, <2>2 DEF LiveIsOwned
  <2> QED
    BY <1>a, <2>1, <2>2, <2>3, <2>4, FrontSteps DEF ControlsAreBound
<1>6. ASSUME NEW t \in View, Switch(t) PROVE FrontInv'
  <2>1. /\ view' = t /\ card' = 0
        /\ strayed' = (strayed \/ ui # "idle" \/ live[view] # 0 \/ live[t] # 0 \/ calls # {})
        /\ UNCHANGED <<owner, live, asks, begun, ui, uiRun, calls, hit, meant, answered, pressed, blanked>>
    BY <1>6 DEF Switch, clientSide
  <2>2. ScreenAgrees'
    <3> SUFFICES ASSUME ~strayed' PROVE live[t] = 0 /\ uiRun = 0 /\ ~asks[t]
      BY <2>1 DEF ScreenAgrees
    <3> QED
      BY <1>a, <2>1 DEF ScreenAgrees, LiveIsOwned
  <2>3. FrontTyped'
    BY <1>a, <2>1 DEF FrontTyped
  <2> QED
    BY <1>a, <2>1, <2>2, <2>3, FrontSteps DEF LiveIsOwned, ControlsAreBound
<1>7. ASSUME NEW d, NEW b \in BOOLEAN, Send(d, b) PROVE FrontInv'
  <2>1. PICK c : c.kind = "send" /\ calls' = calls \cup {c}
    BY <1>7 DEF Send, Calls
  <2>2. UNCHANGED <<owner, live, asks, begun, view, ui, uiRun, card, hit, meant, answered, pressed, strayed, blanked>>
    BY <1>7 DEF Send, clientSide, screen, history
  <2> QED
    BY <1>a, <2>1, <2>2 DEF FrontInv, FrontTyped, LiveIsOwned, CallsRemember, FrontSound, ControlsAreBound, ScreenAgrees
<1>8. CASE Approve
  <2>1. /\ calls' = calls \cup {[kind |-> "answer", item |-> card, yes |-> TRUE]}
        /\ pressed' = pressed \cup {<<card, TRUE>>}
        /\ UNCHANGED <<owner, live, asks, begun, view, ui, uiRun, card, hit, meant, answered, strayed, blanked>>
    BY <1>8 DEF Approve, Calls, clientSide, screen
  <2> DEFINE e == [kind |-> "answer", item |-> card, yes |-> TRUE]
  <2>2. e.kind = "answer" /\ <<e.item, e.yes>> \in pressed'
    BY <2>1
  <2>3. calls' = calls \cup {e} /\ pressed \subseteq pressed' /\ UNCHANGED <<owner, meant>>
    BY <2>1
  <2> HIDE DEF e
  <2>4. CallsRemember'
    BY <1>a, <2>2, <2>3 DEF CallsRemember
  <2> QED
    BY <1>a, <2>1, <2>4 DEF FrontInv, FrontTyped, LiveIsOwned, FrontSound, ControlsAreBound, ScreenAgrees
<1>9. CASE PressCancel
  <2>1. /\ calls' = calls \cup ({[kind |-> "cancel", thread |-> view, run |-> uiRun]}
                                \cup {[kind |-> "answer", item |-> c, yes |-> FALSE] : c \in {card} \ {0}})
        /\ meant' = (IF uiRun # 0 /\ owner[uiRun] = view THEN meant \cup {uiRun} ELSE meant)
        /\ pressed' = pressed \cup {<<c, FALSE>> : c \in {card} \ {0}}
        /\ UNCHANGED <<owner, live, asks, begun, view, ui, uiRun, card, hit, answered, strayed, blanked>>
    BY <1>9 DEF PressCancel, Calls, clientSide, screen
  <2>2. CallsRemember'
    <3> SUFFICES ASSUME NEW c \in calls'
                 PROVE  /\ c.kind = "cancel" =>
                             /\ c.thread \in View /\ c.run \in 0..Len(owner)
                             /\ c.run # 0 /\ owner[c.run] = c.thread => c.run \in meant'
                        /\ c.kind = "answer" => <<c.item, c.yes>> \in pressed'
      BY <2>1 DEF CallsRemember
    <3>1. CASE c \in calls
      BY <1>a, <2>1, <3>1 DEF CallsRemember
    <3>2. CASE c = [kind |-> "cancel", thread |-> view, run |-> uiRun]
      BY <1>a, <2>1, <3>2 DEF FrontTyped
    <3>3. CASE c \in {[kind |-> "answer", item |-> k, yes |-> FALSE] : k \in {card} \ {0}}
      <4>1. PICK k \in {card} \ {0} : c = [kind |-> "answer", item |-> k, yes |-> FALSE]
        BY <3>3
      <4>2. c.kind = "answer" /\ c.item = k /\ c.yes = FALSE
        BY <4>1
      <4>3. <<k, FALSE>> \in pressed'
        BY <2>1
      <4> QED
        BY <4>2, <4>3
    <3> QED
      BY <2>1, <3>1, <3>2, <3>3
  <2> QED
    BY <1>a, <2>1, <2>2 DEF FrontInv, FrontTyped, LiveIsOwned, FrontSound, ControlsAreBound, ScreenAgrees
<1>10. ASSUME NEW c \in calls, RunSend(c) PROVE FrontInv'
  <2>1. /\ calls' \subseteq calls
        /\ ui' = (IF c.thread # view THEN ui ELSE IF c.blank THEN "idle" ELSE "running")
        /\ blanked' = blanked \cup {r \in {live[c.thread]} \ {0} : c.blank /\ c.thread = view /\ begun[view]}
        /\ UNCHANGED <<owner, live, asks, begun, view, uiRun, card, hit, meant, answered, pressed, strayed>>
    BY <1>10 DEF RunSend
  <2>a. blanked \subseteq blanked' /\ (live[view] # 0 /\ begun[view] /\ ui' = "idle" => ui = "idle" \/ live[view] \in blanked')
    BY <2>1
  <2>2. ScreenAgrees' /\ FrontTyped' /\ ControlsAreBound'
    BY <1>a, <2>1, <2>a DEF ScreenAgrees, FrontTyped, ControlsAreBound
  <2> QED
    BY <1>a, <2>1, <2>2, FrontSteps DEF LiveIsOwned
<1>11. ASSUME NEW c \in calls, RunCancel(c) PROVE FrontInv'
  <2>1. /\ c.kind = "cancel" /\ calls' \subseteq calls
        /\ hit' = hit \cup {r \in {c.run} \ {0} : live[c.thread] = r}
        /\ UNCHANGED <<owner, live, asks, begun, view, ui, uiRun, card, meant, answered, pressed, strayed, blanked>>
    BY <1>11 DEF RunCancel, clientSide, screen
  <2>2. c.run # 0 /\ live[c.thread] = c.run => c.run \in meant
    BY <1>a, <2>1 DEF CallsRemember, LiveIsOwned
  <2>3. ScreenAgrees' /\ FrontTyped' /\ ControlsAreBound'
    BY <1>a, <2>1, <2>2 DEF ScreenAgrees, FrontTyped, ControlsAreBound
  <2> QED
    BY <1>a, <2>1, <2>3, FrontSteps DEF LiveIsOwned
<1>12. ASSUME NEW c \in calls, RunAnswer(c) PROVE FrontInv'
  <2>1. /\ c.kind = "answer" /\ calls' \subseteq calls
        /\ UNCHANGED <<owner, live, begun, view, uiRun, hit, meant, pressed, strayed, blanked>>
    BY <1>12 DEF RunAnswer
  <2>2. CASE uiRun # 0 /\ live[view] = uiRun /\ asks[view] /\ c.item = uiRun
    <3>1. /\ asks' = [asks EXCEPT ![view] = FALSE] /\ answered' = answered \cup {<<c.item, c.yes>>}
          /\ card' = 0 /\ ui' = "running"
      BY <1>12, <2>2 DEF RunAnswer
    <3>2. view \in View /\ FrontTyped' /\ ~asks'[view] /\ \A u \in View : u # view => asks'[u] = asks[u]
      BY <1>a, <2>1, <3>1 DEF FrontTyped
    <3>3. \A u \in View : u # view /\ live[u] # 0 => live[u] # live[view]
      BY <1>a, <2>2, <3>2 DEF LiveIsOwned
    <3>4. <<c.item, c.yes>> \in pressed /\ <<c.item, c.yes>>[1] = live[view] /\ \A a \in answered : a[1] # live[view]
      BY <1>a, <2>1, <2>2, <3>2 DEF CallsRemember, LiveIsOwned
    <3>5. ControlsAreBound'
      BY <1>a, <2>1, <3>1, <3>4 DEF ControlsAreBound
    <3>6. ScreenAgrees'
      BY <1>a, <2>1, <2>2, <3>1, <3>2 DEF ScreenAgrees
    <3>7. \A u \in View : asks'[u] => live[u] # 0 /\ \A a \in answered' : a[1] # live[u]
      BY <1>a, <3>1, <3>2, <3>3, <3>4 DEF LiveIsOwned
    <3> QED
      BY <2>1, <3>2, <3>5, <3>6, <3>7, FrontSteps
  <2>3. CASE ~(uiRun # 0 /\ live[view] = uiRun /\ asks[view] /\ c.item = uiRun)
    <3>1. UNCHANGED <<asks, answered, card, ui>>
      BY <1>12, <2>3 DEF RunAnswer
    <3>2. ScreenAgrees' /\ FrontTyped' /\ ControlsAreBound'
      BY <1>a, <2>1, <3>1 DEF ScreenAgrees, FrontTyped, ControlsAreBound
    <3> QED
      BY <1>a, <2>1, <3>1, <3>2, FrontSteps DEF LiveIsOwned
  <2> QED
    BY <2>2, <2>3
<1> QED
  BY <1>1, <1>2, <1>3, <1>4, <1>5, <1>6, <1>7, <1>8, <1>9, <1>10, <1>11, <1>12 DEF FrontNext

\* Whatever keys are pressed and however views change before their tasks run: a cancel reaches only
\* a Run that was on screen, an approval is answered once and as the user answered it, and the
\* screen agrees with the session until a thread is left that is not idle or, as to whether it runs,
\* an empty text is sent over a live Run (app/tui/application.py).
THEOREM FrontIsSound == FrontSpec => []FrontSound
<1>1. FrontInv => FrontSound
  BY DEF FrontInv
<1> QED
  BY FrontStart, StepFrontInv, <1>1, PTL DEF FrontSpec

-----------------------------------------------------------------------------
(* The front ends without a screen *)

TurnOfClient == [at : Working \cup {"none", "over", "lost"}, job : 0..MaxJobs, late : BOOLEAN, ok : BOOLEAN,
                 class : CallClass]
PrintedResult == [job : Nat, text : SUBSET Nat, code : {"permission", "cancelled", "execution", "ok"}]

TextTyped ==
    /\ jobs \in 0..MaxJobs /\ clients \in Seq(Dialogues) /\ Len(clients) \in Clients
    /\ turn \in [Clients -> TurnOfClient] /\ done \in [Clients -> BOOLEAN]
    /\ held \in [Clients -> SUBSET Nat] /\ filed \in [Dialogues -> SUBSET Nat]
    /\ said \in [Job -> {"nothing", "no", "yes", "late"}]
    /\ readers \subseteq Clients \X Job /\ executed \subseteq Job
    /\ results \in Seq(PrintedResult)
    /\ sink \in [text : SUBSET Nat, stop : {"", "no_tool_calls", "max_turns", "completed"}, denied : BOOLEAN]
    /\ tty \in BOOLEAN /\ (sort = "repl" => tty)

\* At most the Run of the client in use works, and it is that of the last input.
OneWorks ==
    /\ \A c \in Clients : Live(c) => c = Current /\ JobOf(c) = jobs /\ jobs >= 1 /\ front \in {"waiting", "closing"}
    /\ \A c \in Clients : done[c] => turn[c].at = "over"
    /\ \A c \in Clients : c > Current => turn[c].at = "none"

\* Nothing was said yet of an input to come; what was collected is of the last one; each earlier
\* one was printed.
SinkIsOwn ==
    /\ \A j \in Job : j > jobs => said[j] = "nothing"
    /\ sink.text \subseteq {jobs}
    /\ sink.denied <=> ~tty /\ jobs >= 1 /\ said[jobs] = "no"
    /\ Prints /\ front = "ready" => Len(results) = jobs
    /\ Prints /\ (front = "waiting" \/ \E c \in Clients : Live(c)) => Len(results) + 1 = jobs
    /\ ~Prints => results = <<>> /\ sink = NoSink

\* Who waits for a line asks for a Run that waits and has no answer; what is allowed has a yes.
AnswersAreOwn ==
    /\ \A r \in readers : tty /\ turn[r[1]].at = "asking" /\ JobOf(r[1]) = r[2] /\ said[r[2]] = "nothing"
    /\ \A c \in Clients : turn[c].at = "allowed" => tty /\ said[JobOf(c)] = "yes"
    /\ RunsOnYes

\* The client in use has read what is in the file of its thread.
FilesAreRead == filed[clients[Current]] \subseteq held[Current]

TextInv == /\ TextTyped /\ OneWorks /\ SinkIsOwn /\ AnswersAreOwn /\ FilesAreRead
           /\ ResultsAreOwn /\ FirstCodeStays /\ HistoryWhole

LEMMA CurrentIsOne == TextTyped => Current \in Clients /\ Current \in Nat /\ 1..Current \subseteq Clients
<1> SUFFICES ASSUME TextTyped PROVE Current \in Clients /\ Current \in Nat /\ 1..Current \subseteq Clients
  OBVIOUS
<1>1. Current \in 1..MaxClients /\ MaxClients \in Nat
  BY FrontConstants DEF TextTyped, Clients, Current
<1> QED
  BY <1>1 DEF Clients

LEMMA JobNumbers == \A j \in Job : j \in Nat /\ j >= 1 /\ ~(j > j)
BY FrontConstants DEF Job

LEMMA TextInvSound == TextInv => TextSound
<1> SUFFICES ASSUME TextInv PROVE TextSound
  OBVIOUS
<1>1. 1..Current \subseteq Clients
  BY CurrentIsOne DEF TextInv
<1>2. TextTypeOK
  BY DEF TextInv, TextTyped, TextTypeOK, Current, TurnOfClient, JobOf
<1>3. OneAtATime
  BY <1>1 DEF TextInv, OneWorks, OneAtATime
<1>4. FrontLeavesNothing
  <2> SUFFICES ASSUME front = "gone" PROVE readers = {} /\ \A c \in Clients : ~Live(c)
    BY DEF FrontLeavesNothing
  <2>1. \A c \in Clients : ~Live(c)
    BY DEF TextInv, OneWorks
  <2>2. ASSUME NEW r \in readers PROVE FALSE
    <3>1. r[1] \in Clients /\ turn[r[1]].at = "asking"
      BY DEF TextInv, TextTyped, AnswersAreOwn
    <3> QED
      BY <2>1, <3>1 DEF Live, Working
  <2> QED
    BY <2>1, <2>2
<1> QED
  BY <1>2, <1>3, <1>4 DEF TextInv, TextSound, AnswersAreOwn

LEMMA TextStart == TextInit => TextInv
<1> SUFFICES ASSUME TextInit PROVE TextInv
  OBVIOUS
<1>1. PICK d \in Dialogues : clients = <<d>>
  BY DEF TextInit
<1>2. clients \in Seq(Dialogues) /\ Len(clients) = 1 /\ clients[1] = d /\ 1 \in Clients
  BY <1>1, FrontConstants DEF Clients
<1>3. Idle \in TurnOfClient /\ Idle.at = "none"
  BY FrontConstants DEF Idle, TurnOfClient, CallClass
<1>4. \A c \in Clients : turn[c] = Idle /\ ~Live(c) /\ held[c] = {} /\ ~done[c]
  BY <1>3 DEF TextInit, Live, Working
<1>5. NoSink \in [text : SUBSET Nat, stop : {"", "no_tool_calls", "max_turns", "completed"}, denied : BOOLEAN]
      /\ NoSink.text = {} /\ ~NoSink.denied
  BY DEF NoSink
<1>6. results = <<>> /\ Len(results) = 0 /\ DOMAIN results = {} /\ results \in Seq(PrintedResult)
  BY DEF TextInit
<1>7. TextTyped
  <2>1. jobs = 0 /\ jobs \in 0..MaxJobs
    BY FrontConstants DEF TextInit
  <2>2. turn \in [Clients -> TurnOfClient] /\ done \in [Clients -> BOOLEAN] /\ held \in [Clients -> SUBSET Nat]
    BY <1>3 DEF TextInit
  <2>3. filed \in [Dialogues -> SUBSET Nat] /\ said \in [Job -> {"nothing", "no", "yes", "late"}]
    BY DEF TextInit
  <2>4. readers = {} /\ executed = {} /\ sink = NoSink /\ tty \in BOOLEAN /\ (sort = "repl" => tty)
    BY DEF TextInit
  <2> QED
    BY <1>2, <1>5, <1>6, <2>1, <2>2, <2>3, <2>4 DEF TextTyped
<1>8. OneWorks
  BY <1>3, <1>4 DEF OneWorks
<1>9. SinkIsOwn
  <2>1. jobs = 0 /\ front = "ready" /\ sink = NoSink /\ \A j \in Job : said[j] = "nothing"
    BY DEF TextInit
  <2> QED
    <3>1. sink.text \subseteq {jobs} /\ ~(jobs >= 1)
      <4>1. sink.text = {}
        BY <1>5, <2>1
      <4> QED
        BY <2>1, <4>1
    <3>2. ~sink.denied
      BY <1>5, <2>1
    <3>3. sink.denied <=> ~tty /\ jobs >= 1 /\ said[jobs] = "no"
      BY <3>1, <3>2
    <3>4. (Prints /\ front = "ready" => Len(results) = jobs) /\ (~Prints => results = <<>> /\ sink = NoSink)
      BY <1>6, <2>1
    <3>5. Prints /\ (front = "waiting" \/ \E c \in Clients : Live(c)) => Len(results) + 1 = jobs
      BY <1>4, <2>1
    <3> QED
      BY <2>1, <3>1, <3>3, <3>4, <3>5 DEF SinkIsOwn
<1>10. AnswersAreOwn /\ ResultsAreOwn /\ FirstCodeStays
  BY <1>3, <1>4, <1>6 DEF AnswersAreOwn, RunsOnYes, ResultsAreOwn, FirstCodeStays, TextInit
<1>11. FilesAreRead /\ HistoryWhole
  BY <1>2, <1>4 DEF FilesAreRead, HistoryWhole, Current, TextInit
<1> QED
  BY <1>7, <1>8, <1>9, <1>10, <1>11 DEF TextInv

\* The Run of a client goes on, or ends.
LEMMA TurnMoves ==
  ASSUME TextInv, NEW c \in Clients, Live(c), NEW w \in TurnOfClient, turn' = [turn EXCEPT ![c] = w],
         w.job = turn[c].job, w.at # "none",
         UNCHANGED <<front, jobs, clients>>,
         UNCHANGED done \/ (w.at = "over" /\ done' = [done EXCEPT ![c] = TRUE])
  PROVE  /\ turn' \in [Clients -> TurnOfClient] /\ done' \in [Clients -> BOOLEAN] /\ OneWorks'
         /\ c = Current /\ JobOf(c) = jobs /\ jobs \in Job /\ turn'[c] = w
         /\ \A k \in Clients : k # c => turn'[k] = turn[k]
         /\ (\E k \in Clients : Live(k)') => \E k \in Clients : Live(k)
<1>1. turn \in [Clients -> TurnOfClient] /\ done \in [Clients -> BOOLEAN] /\ OneWorks /\ jobs \in 0..MaxJobs
  BY DEF TextInv, TextTyped
<1>2. turn'[c] = w /\ turn' \in [Clients -> TurnOfClient] /\ \A k \in Clients : k # c => turn'[k] = turn[k]
  BY <1>1
<1>3. c = Current /\ JobOf(c) = jobs /\ jobs >= 1 /\ front \in {"waiting", "closing"}
  BY <1>1 DEF OneWorks
<1>4. jobs \in Job
  BY <1>1, <1>3, FrontConstants DEF Job
<1>5. \A k \in Clients : Live(k)' => Live(k)
  BY <1>1, <1>2 DEF Live
<1>6. \A k \in Clients : Live(k)' => k = Current' /\ JobOf(k)' = jobs' /\ jobs' >= 1 /\ front' \in {"waiting", "closing"}
  BY <1>2, <1>3, <1>5, <1>1 DEF OneWorks, JobOf, Current
<1>7. done' \in [Clients -> BOOLEAN] /\ \A k \in Clients : done'[k] => turn'[k].at = "over"
  <2>1. CASE w.at = "over" /\ done' = [done EXCEPT ![c] = TRUE]
    BY <1>1, <1>2, <2>1 DEF OneWorks
  <2>2. CASE UNCHANGED done
    <3>1. turn[c].at # "over"
      BY DEF Live, Working
    <3> QED
      BY <1>1, <1>2, <2>2, <3>1 DEF OneWorks
  <2> QED
    BY <2>1, <2>2
<1>8. \A k \in Clients : k > Current' => turn'[k].at = "none"
  <2>1. Current \in Nat /\ ~(c > Current)
    BY <1>3, CurrentIsOne DEF TextInv
  <2> QED
    BY <1>1, <1>2, <2>1 DEF OneWorks, Current
<1> QED
  BY <1>2, <1>3, <1>4, <1>5, <1>6, <1>7, <1>8 DEF OneWorks

\* What was printed stays so while nothing is said of another Run.
LEMMA PrintedStays ==
  ASSUME TextInv, UNCHANGED <<results, tty, sort>>,
         \/ UNCHANGED said
         \/ tty
         \/ (\E c \in Clients : Live(c)) /\ \A j \in Job : j # jobs => said'[j] = said[j]
  PROVE  ResultsAreOwn'
<1>1. results \in Seq(PrintedResult) /\ jobs \in 0..MaxJobs /\ ResultsAreOwn /\ SinkIsOwn
  BY DEF TextInv, TextTyped
<1>2. DOMAIN results = 1..Len(results) /\ Len(results) \in Nat
  BY <1>1, LenProperties
<1>3. CASE UNCHANGED said
  BY <1>1, <1>3 DEF ResultsAreOwn
<1>4. CASE tty
  BY <1>1, <1>4 DEF ResultsAreOwn
<1>5. CASE (\E c \in Clients : Live(c)) /\ \A j \in Job : j # jobs => said'[j] = said[j]
  <2>1. CASE Prints
    <3>1. Len(results) + 1 = jobs
      BY <1>1, <1>5, <2>1 DEF SinkIsOwn
    <3>2. \A i \in DOMAIN results : i \in Job /\ i # jobs
      BY <1>1, <1>2, <3>1, FrontConstants DEF Job
    <3> QED
      BY <1>1, <1>5, <3>2 DEF ResultsAreOwn
  <2>2. CASE ~Prints
    <3>1. DOMAIN results = {}
      BY <1>1, <2>2 DEF SinkIsOwn
    <3> QED
      BY <1>1, <3>1 DEF ResultsAreOwn
  <2> QED
    BY <2>1, <2>2
<1> QED
  BY <1>3, <1>4, <1>5

\* The Run of a client goes on: what it adds to the history and to what was collected is its own.
LEMMA TurnGoesOn ==
  ASSUME TextInv, NEW c \in Clients, Live(c), NEW w \in TurnOfClient, turn' = [turn EXCEPT ![c] = w],
         w.job = turn[c].job, w.at \notin {"none", "over"}, w.at = "allowed" => tty /\ said'[JobOf(c)] = "yes",
         UNCHANGED <<front, sort, tty, policy, jobs, clients, done, results, exit, filed>>,
         \A k \in Clients : held[k] \subseteq held'[k], \A k \in Clients \ {c} : held'[k] = held[k],
         held' \in [Clients -> SUBSET Nat],
         said' \in [Job -> {"nothing", "no", "yes", "late"}],
         \A j \in Job : said'[j] = said[j] \/ (j = jobs /\ said[j] = "nothing"),
         sink' \in [text : SUBSET Nat, stop : {"", "no_tool_calls", "max_turns", "completed"}, denied : BOOLEAN],
         sink'.text \subseteq {jobs}, sink'.denied <=> ~tty /\ said'[jobs] = "no", ~Prints => sink' = sink,
         readers' \subseteq Clients \X Job, executed' \subseteq Job,
         \A r \in readers' : tty /\ r = <<c, jobs>> /\ w.at = "asking" /\ said'[jobs] = "nothing",
         \A j \in executed' : j \in executed \/ policy = "auto" \/ (tty /\ said[j] = "yes")
  PROVE  TextInv'
<1>1. /\ turn' \in [Clients -> TurnOfClient] /\ OneWorks' /\ c = Current /\ JobOf(c) = jobs /\ jobs \in Job
      /\ turn'[c] = w /\ (\A k \in Clients : k # c => turn'[k] = turn[k])
      /\ (\E k \in Clients : Live(k)') => \E k \in Clients : Live(k)
  BY TurnMoves, ZenonT(60)
<1>2. TextTyped /\ OneWorks /\ SinkIsOwn /\ AnswersAreOwn /\ FilesAreRead
      /\ ResultsAreOwn /\ FirstCodeStays /\ HistoryWhole
  BY DEF TextInv
<1>3. TextTyped'
  BY <1>1, <1>2 DEF TextTyped
<1>4. SinkIsOwn'
  <2>1. \A j \in Job : j > jobs => said'[j] = "nothing"
    <3>1. \A j \in Job : j > jobs => j # jobs
      BY JobNumbers
    <3> QED
      BY <1>2, <3>1, ZenonT(60) DEF SinkIsOwn
  <2>2. jobs >= 1
    BY <1>1, JobNumbers
  <2>3. Prints' <=> Prints
    BY DEF Prints
  <2> QED
    BY <1>1, <1>2, <2>1, <2>2, <2>3 DEF SinkIsOwn
<1>5. ResultsAreOwn'
  BY PrintedStays
<1>6. FirstCodeStays'
  BY <1>2 DEF FirstCodeStays
<1>7. \A j \in Job : said[j] = "yes" => said'[j] = "yes"
  OBVIOUS
<1>8. AnswersAreOwn'
  <2>1. \A r \in readers' : tty' /\ turn'[r[1]].at = "asking" /\ turn'[r[1]].job = r[2] /\ said'[r[2]] = "nothing"
    <3> SUFFICES ASSUME NEW r \in readers' PROVE turn'[r[1]].at = "asking" /\ turn'[r[1]].job = r[2] /\ said'[r[2]] = "nothing"
      OBVIOUS
    <3>1. r = <<c, jobs>> /\ w.at = "asking" /\ said'[jobs] = "nothing"
      OBVIOUS
    <3>2. r[1] = c /\ r[2] = jobs
      BY <3>1
    <3> QED
      BY <1>1, <3>1, <3>2 DEF JobOf
  <2>2. \A k \in Clients : turn'[k].at = "allowed" => tty' /\ said'[turn'[k].job] = "yes"
    <3> SUFFICES ASSUME NEW k \in Clients, turn'[k].at = "allowed" PROVE tty /\ said'[turn'[k].job] = "yes"
      OBVIOUS
    <3>1. CASE k = c
      BY <1>1, <3>1 DEF JobOf
    <3>2. CASE k # c
      BY <1>1, <1>2, <3>2, ZenonT(60) DEF OneWorks, Live, Working
    <3> QED
      BY <3>1, <3>2
  <2>3. RunsOnYes'
    <3> SUFFICES ASSUME policy # "auto", NEW j \in executed' PROVE tty /\ said'[j] = "yes"
      BY DEF RunsOnYes
    <3>1. tty /\ said[j] = "yes" /\ j \in Job
      BY <1>2 DEF AnswersAreOwn, RunsOnYes
    <3> QED
      BY <1>7, <3>1
  <2> QED
    BY <2>1, <2>2, <2>3 DEF AnswersAreOwn, JobOf
<1>9. Current' = Current /\ Current \in Clients
  BY <1>2, CurrentIsOne DEF Current
<1>10. FilesAreRead'
  BY <1>2, <1>9 DEF FilesAreRead
<1>11. HistoryWhole'
  <2> SUFFICES ASSUME NEW k \in 1..Current, turn'[k].at = "over" \/ (turn'[k].at = "none" /\ k = Current)
               PROVE  held'[k] \subseteq filed[clients[k]]
    BY <1>9 DEF HistoryWhole
  <2>1. k # c
    BY <1>1
  <2>2. k \in Clients
    BY <1>2, CurrentIsOne
  <2> QED
    BY <1>1, <1>2, <2>1, <2>2 DEF HistoryWhole
<1> QED
  BY <1>1, <1>3, <1>4, <1>5, <1>6, <1>8, <1>10, <1>11 DEF TextInv

\* The Run of a client ends and is saved.
LEMMA EndsTurnKeeps ==
  ASSUME TextInv, NEW c \in Clients, turn[c].at = "model", NEW ok \in BOOLEAN,
         NEW reason \in {"no_tool_calls", "max_turns", "completed"}, EndsTurn(c, reason, ok),
         UNCHANGED <<front, sort, tty, policy, jobs, clients, results, exit, readers, held, said, executed>>
  PROVE  TextInv'
<1> DEFINE w == [turn[c] EXCEPT !.at = "over", !.ok = ok]
<1>1. TextTyped /\ OneWorks /\ SinkIsOwn /\ AnswersAreOwn /\ FilesAreRead
      /\ ResultsAreOwn /\ FirstCodeStays /\ HistoryWhole
  BY DEF TextInv
<1>2. turn[c] \in TurnOfClient
  BY <1>1 DEF TextTyped
<1>3. w \in TurnOfClient /\ w.job = turn[c].job /\ w.at = "over"
  BY <1>2 DEF TurnOfClient
<1>4. turn' = [turn EXCEPT ![c] = w] /\ done' = [done EXCEPT ![c] = TRUE]
      /\ filed' = [filed EXCEPT ![clients[c]] = held[c]]
      /\ sink' = (IF Prints THEN [sink EXCEPT !.stop = reason] ELSE sink)
  BY DEF EndsTurn, Collects
<1>5. Live(c)
  BY DEF Live, Working
<1> HIDE DEF w
<1>6. /\ turn' \in [Clients -> TurnOfClient] /\ OneWorks' /\ c = Current /\ JobOf(c) = jobs /\ jobs \in Job
      /\ done' \in [Clients -> BOOLEAN]
      /\ turn'[c] = w /\ (\A k \in Clients : k # c => turn'[k] = turn[k])
      /\ (\E k \in Clients : Live(k)') => \E k \in Clients : Live(k)
  BY <1>3, <1>4, <1>5, TurnMoves
<1>7. /\ sink' \in [text : SUBSET Nat, stop : {"", "no_tool_calls", "max_turns", "completed"}, denied : BOOLEAN]
      /\ sink'.text = sink.text /\ (sink'.denied <=> sink.denied) /\ (~Prints => sink' = sink)
  BY <1>1, <1>4 DEF TextTyped
<1>8. clients[c] \in Dialogues /\ \A k \in 1..Current : clients[k] \in Dialogues
  <2>1. clients \in Seq(Dialogues) /\ Len(clients) \in Clients /\ Len(clients) \in Nat
    BY <1>1, LenProperties DEF TextTyped
  <2>2. \A k \in 1..Len(clients) : clients[k] \in Dialogues
    BY <2>1, ElementOfSeq
  <2>3. c = Len(clients) /\ Len(clients) \in 1..Len(clients)
    BY <1>1, <1>6, <2>1, CurrentIsOne, FrontConstants DEF Current, Clients
  <2> QED
    BY <2>2, <2>3 DEF Current
<1>9. filed' \in [Dialogues -> SUBSET Nat] /\ filed'[clients[c]] = held[c]
      /\ \A d \in Dialogues : d # clients[c] => filed'[d] = filed[d]
  BY <1>1, <1>4, <1>8 DEF TextTyped
<1>10. TextTyped'
  BY <1>1, <1>6, <1>7, <1>9 DEF TextTyped
<1>11. SinkIsOwn'
  <2>1. Prints' <=> Prints
    BY DEF Prints
  <2> QED
    BY <1>1, <1>6, <1>7, <2>1 DEF SinkIsOwn
<1>12. ResultsAreOwn' /\ FirstCodeStays'
  BY <1>1 DEF ResultsAreOwn, FirstCodeStays
<1>13. AnswersAreOwn'
  <2>1. ASSUME NEW r \in readers PROVE turn'[r[1]] = turn[r[1]]
    <3>1. r[1] \in Clients /\ turn[r[1]].at = "asking"
      BY <1>1 DEF AnswersAreOwn, TextTyped
    <3> QED
      BY <1>6, <3>1
  <2>2. ASSUME NEW k \in Clients, turn'[k].at = "allowed" PROVE turn'[k] = turn[k]
    BY <1>3, <1>6, <2>2
  <2>3. RunsOnYes'
    BY <1>1 DEF AnswersAreOwn, RunsOnYes
  <2>4. \A r \in readers' : tty' /\ turn'[r[1]].at = "asking" /\ turn'[r[1]].job = r[2] /\ said'[r[2]] = "nothing"
    BY <1>1, <2>1 DEF AnswersAreOwn, JobOf
  <2>5. \A k \in Clients : turn'[k].at = "allowed" => tty' /\ said'[turn'[k].job] = "yes"
    BY <1>1, <2>2 DEF AnswersAreOwn, JobOf
  <2> QED
    BY <2>3, <2>4, <2>5 DEF AnswersAreOwn, JobOf
<1>14. Current' = Current /\ Current \in Clients /\ 1..Current \subseteq Clients
  BY <1>1, CurrentIsOne DEF Current
<1>15. FilesAreRead'
  BY <1>6, <1>9, <1>14 DEF FilesAreRead
<1>16. HistoryWhole'
  <2> SUFFICES ASSUME NEW k \in 1..Current, turn'[k].at = "over" \/ (turn'[k].at = "none" /\ k = Current)
               PROVE  held[k] \subseteq filed'[clients[k]]
    BY <1>14 DEF HistoryWhole
  <2>1. CASE k = c
    BY <1>9, <2>1
  <2>2. CASE k # c
    <3>1. held[k] \subseteq filed[clients[k]] /\ clients[k] \in Dialogues
      BY <1>1, <1>6, <1>8, <1>14, <2>2 DEF HistoryWhole
    <3>2. CASE clients[k] = clients[c]
      BY <1>1, <1>6, <1>9, <3>1, <3>2 DEF FilesAreRead
    <3>3. CASE clients[k] # clients[c]
      BY <1>9, <3>1, <3>3
    <3> QED
      BY <3>2, <3>3
  <2> QED
    BY <2>1, <2>2
<1> QED
  BY <1>6, <1>10, <1>11, <1>12, <1>13, <1>15, <1>16 DEF TextInv

\* While a Run works, only it can have a reader, and only while it asks.
LEMMA ReaderIsOfTheRun ==
  ASSUME TextInv, NEW c \in Clients, Live(c)
  PROVE  /\ \A r \in readers : r = <<c, jobs>> /\ turn[c].at = "asking" /\ said[jobs] = "nothing" /\ tty
         /\ JobOf(c) = jobs /\ jobs \in Job
<1>1. TextTyped /\ OneWorks /\ AnswersAreOwn
  BY DEF TextInv
<1>2. c = Current /\ JobOf(c) = jobs /\ jobs >= 1
  BY <1>1 DEF OneWorks
<1>3. jobs \in Job
  <2>1. jobs \in 0..MaxJobs
    BY <1>1 DEF TextTyped
  <2> QED
    BY <1>2, <2>1, FrontConstants DEF Job
<1>4. ASSUME NEW r \in readers PROVE r = <<c, jobs>> /\ turn[c].at = "asking" /\ said[jobs] = "nothing" /\ tty
  <2>a. r \in Clients \X Job
    BY <1>1 DEF TextTyped
  <2>1. r[1] \in Clients /\ turn[r[1]].at = "asking" /\ JobOf(r[1]) = r[2] /\ said[r[2]] = "nothing" /\ tty
        /\ r = <<r[1], r[2]>>
    BY <1>1, <2>a DEF AnswersAreOwn
  <2>2. Live(r[1])
    BY <2>1 DEF Live, Working
  <2>3. r[1] = c
    BY <1>1, <1>2, <2>1, <2>2 DEF OneWorks
  <2> QED
    BY <1>2, <2>1, <2>3
<1> QED
  BY <1>2, <1>3, <1>4

\* Everything of a Run that goes on but what its step changes.
LEMMA TurnAsItWas ==
  ASSUME TextInv, NEW c \in Clients, Live(c)
  PROVE  /\ held \in [Clients -> SUBSET Nat] /\ said \in [Job -> {"nothing", "no", "yes", "late"}]
         /\ sink \in [text : SUBSET Nat, stop : {"", "no_tool_calls", "max_turns", "completed"}, denied : BOOLEAN]
         /\ sink.text \subseteq {jobs} /\ (sink.denied <=> ~tty /\ said[jobs] = "no")
         /\ readers \subseteq Clients \X Job /\ executed \subseteq Job
         /\ (\A j \in executed : policy = "auto" \/ (tty /\ said[j] = "yes"))
         /\ turn[c] \in TurnOfClient /\ (sort = "repl" => tty)
<1>1. jobs >= 1
  BY DEF TextInv, OneWorks
<1> QED
  BY <1>1 DEF TextInv, TextTyped, SinkIsOwn, AnswersAreOwn, RunsOnYes

LEMMA SpeaksKeeps == ASSUME TextInv, NEW c \in Clients, Speaks(c) PROVE TextInv'
<1> DEFINE w == [turn[c] EXCEPT !.at = "model"]
           e == [sink EXCEPT !.text = @ \cup {jobs}]
<1>1. /\ Live(c) /\ turn[c].at \in {"created", "model"} /\ turn' = [turn EXCEPT ![c] = w]
      /\ held' = [held EXCEPT ![c] = @ \cup {JobOf(c)}]
      /\ UNCHANGED <<front, sort, tty, policy, jobs, clients, done, results, exit, readers, filed, said, executed>>
  BY DEF Speaks
<1>2. JobOf(c) = jobs /\ jobs \in Nat /\ readers = {}
  BY <1>1, ReaderIsOfTheRun, JobNumbers
<1>3. sink' = IF Prints THEN e ELSE sink
  BY <1>2 DEF Speaks, Collects
<1>4. w \in TurnOfClient /\ w.job = turn[c].job /\ w.at = "model"
  BY <1>1, TurnAsItWas DEF TurnOfClient, Working
<1>5. /\ e \in [text : SUBSET Nat, stop : {"", "no_tool_calls", "max_turns", "completed"}, denied : BOOLEAN]
      /\ e.text \subseteq {jobs} /\ (e.denied <=> ~tty /\ said[jobs] = "no")
  BY <1>1, <1>2, TurnAsItWas
<1>6. /\ held' \in [Clients -> SUBSET Nat] /\ (\A k \in Clients : held[k] \subseteq held'[k])
      /\ \A k \in Clients \ {c} : held'[k] = held[k]
  BY <1>1, <1>2, TurnAsItWas
<1>7. /\ sink' \in [text : SUBSET Nat, stop : {"", "no_tool_calls", "max_turns", "completed"}, denied : BOOLEAN]
      /\ sink'.text \subseteq {jobs} /\ (sink'.denied <=> ~tty /\ said[jobs] = "no") /\ (~Prints => sink' = sink)
  BY <1>1, <1>3, <1>5, TurnAsItWas
<1> HIDE DEF w, e
<1> QED
  BY <1>1, <1>2, <1>4, <1>6, <1>7, TurnAsItWas, TurnGoesOn

\* A step of a Run that changes nothing but where it is, and what ran.
LEMMA TurnOnly ==
  ASSUME TextInv, NEW c \in Clients, Live(c), NEW w \in TurnOfClient, turn' = [turn EXCEPT ![c] = w],
         w.job = turn[c].job, w.at \notin {"none", "over", "allowed"}, w.at = "asking" \/ readers' = {},
         UNCHANGED <<front, sort, tty, policy, jobs, clients, done, sink, results, exit, held, filed, said>>,
         readers' \subseteq readers,
         \/ UNCHANGED executed
         \/ executed' = executed \cup {jobs} /\ (policy = "auto" \/ (tty /\ said[jobs] = "yes"))
  PROVE  TextInv'
<1>1. \A r \in readers' : tty /\ r = <<c, jobs>> /\ w.at = "asking" /\ said'[jobs] = "nothing"
  BY ReaderIsOfTheRun
<1>2. executed' \subseteq Job /\ \A j \in executed' : j \in executed \/ policy = "auto" \/ (tty /\ said[j] = "yes")
  BY ReaderIsOfTheRun, TurnAsItWas
<1>3. readers' \subseteq Clients \X Job
  BY TurnAsItWas
<1> QED
  BY <1>1, <1>2, <1>3, TurnAsItWas, TurnGoesOn

LEMMA SmallTurnsKeep ==
  ASSUME TextInv, NEW c \in Clients, NEW k \in CallClass,
         \/ RunsFreely(c, k) \/ QuestionExpires(c) \/ RefusalArrives(c) \/ ToolAnswered(c) \/ RunBreaksEarly(c)
  PROVE  TextInv'
<1>1. CASE RunsFreely(c, k)
  <2>1. /\ turn[c].at = "model" /\ ~HookWaits(k) /\ Ran(c, k)
        /\ UNCHANGED <<front, sort, tty, policy, jobs, clients, turn, done, sink, results, exit, readers, held, filed, said>>
    BY <1>1 DEF RunsFreely
  <2>2. Live(c)
    BY <2>1 DEF Live, Working
  <2>3. readers = {} /\ JobOf(c) = jobs
    BY <2>1, <2>2, ReaderIsOfTheRun
  <2>4. UNCHANGED executed \/ (executed' = executed \cup {jobs} /\ policy = "auto")
    BY <2>1, <2>3 DEF Ran, HookWaits
  <2>5. turn[c] \in TurnOfClient /\ turn' = [turn EXCEPT ![c] = turn[c]]
    BY <2>1 DEF TextInv, TextTyped
  <2> QED
    BY <2>1, <2>2, <2>3, <2>4, <2>5, TurnOnly
<1>2. CASE QuestionExpires(c)
  <2> DEFINE w == [turn[c] EXCEPT !.late = TRUE]
  <2>1. /\ turn[c].at = "asking" /\ turn' = [turn EXCEPT ![c] = w]
        /\ UNCHANGED <<front, sort, tty, policy, jobs, clients, done, sink, results, exit, readers, held, filed, said, executed>>
    BY <1>2 DEF QuestionExpires
  <2>2. Live(c)
    BY <2>1 DEF Live, Working
  <2>3. w \in TurnOfClient /\ w.job = turn[c].job /\ w.at = "asking"
    BY <2>1, <2>2, TurnAsItWas DEF TurnOfClient
  <2> HIDE DEF w
  <2> QED
    BY <2>1, <2>2, <2>3, TurnOnly
<1>3. CASE RefusalArrives(c)
  <2> DEFINE w == [turn[c] EXCEPT !.at = "refused"]
  <2>1. /\ turn[c].at = "asking" /\ ~tty /\ turn' = [turn EXCEPT ![c] = w]
        /\ UNCHANGED <<front, sort, tty, policy, jobs, clients, done, sink, results, exit, readers, held, filed, said, executed>>
    BY <1>3 DEF RefusalArrives
  <2>2. Live(c)
    BY <2>1 DEF Live, Working
  <2>3. w \in TurnOfClient /\ w.job = turn[c].job /\ w.at = "refused"
    BY <2>1, <2>2, TurnAsItWas DEF TurnOfClient, Working
  <2>4. readers = {}
    BY <2>1, <2>2, ReaderIsOfTheRun
  <2> HIDE DEF w
  <2> QED
    BY <2>1, <2>2, <2>3, <2>4, TurnOnly
<1>4. CASE ToolAnswered(c)
  <2> DEFINE w == [turn[c] EXCEPT !.at = "model"]
  <2>1. /\ turn[c].at \in {"allowed", "refused"} /\ turn' = [turn EXCEPT ![c] = w]
        /\ (IF turn[c].at = "allowed" THEN Ran(c, turn[c].class) ELSE UNCHANGED executed)
        /\ UNCHANGED <<front, sort, tty, policy, jobs, clients, done, sink, results, exit, readers, held, filed, said>>
    BY <1>4 DEF ToolAnswered
  <2>2. Live(c)
    BY <2>1 DEF Live, Working
  <2>3. w \in TurnOfClient /\ w.job = turn[c].job /\ w.at = "model"
    BY <2>1, <2>2, TurnAsItWas DEF TurnOfClient, Working
  <2>4. readers = {} /\ JobOf(c) = jobs
    BY <2>1, <2>2, ReaderIsOfTheRun
  <2>5. UNCHANGED executed \/ (executed' = executed \cup {jobs} /\ tty /\ said[jobs] = "yes")
    BY <2>1, <2>4 DEF Ran, TextInv, AnswersAreOwn
  <2> HIDE DEF w
  <2> QED
    BY <2>1, <2>2, <2>3, <2>4, <2>5, TurnOnly
<1>5. CASE RunBreaksEarly(c)
  <2> DEFINE w == [turn[c] EXCEPT !.at = "lost", !.ok = FALSE]
  <2>1. /\ turn[c].at = "created" /\ turn' = [turn EXCEPT ![c] = w]
        /\ UNCHANGED <<front, sort, tty, policy, jobs, clients, done, sink, results, exit, readers, held, filed, said, executed>>
    BY <1>5 DEF RunBreaksEarly
  <2>2. Live(c)
    BY <2>1 DEF Live, Working
  <2>3. w \in TurnOfClient /\ w.job = turn[c].job /\ w.at = "lost"
    BY <2>1, <2>2, TurnAsItWas DEF TurnOfClient, Working
  <2>4. readers = {}
    BY <2>1, <2>2, ReaderIsOfTheRun
  <2> HIDE DEF w
  <2> QED
    BY <2>1, <2>2, <2>3, <2>4, TurnOnly
<1> QED
  BY <1>1, <1>2, <1>3, <1>4, <1>5

LEMMA AsksKeeps == ASSUME TextInv, NEW c \in Clients, NEW k \in CallClass, Asks(c, k) PROVE TextInv'
<1> DEFINE w == [turn[c] EXCEPT !.at = "asking", !.late = FALSE, !.class = k]
           e == [sink EXCEPT !.denied = TRUE]
<1>1. /\ turn[c].at = "model" /\ said[JobOf(c)] = "nothing" /\ turn' = [turn EXCEPT ![c] = w]
      /\ IF tty THEN readers' = readers \cup {<<c, JobOf(c)>>} /\ UNCHANGED <<sink, said>>
         ELSE /\ sink' = e /\ said' = [said EXCEPT ![JobOf(c)] = "no"] /\ UNCHANGED readers
      /\ UNCHANGED <<front, sort, tty, policy, jobs, clients, done, results, exit, held, filed, executed>>
  BY DEF Asks
<1>2. Live(c)
  BY <1>1 DEF Live, Working
<1>3. readers = {} /\ JobOf(c) = jobs /\ jobs \in Job
  BY <1>1, <1>2, ReaderIsOfTheRun
<1>4. w \in TurnOfClient /\ w.job = turn[c].job /\ w.at = "asking"
  BY <1>2, TurnAsItWas DEF TurnOfClient, Working
<1>5. /\ e \in [text : SUBSET Nat, stop : {"", "no_tool_calls", "max_turns", "completed"}, denied : BOOLEAN]
      /\ e.text \subseteq {jobs} /\ e.denied
  BY <1>2, TurnAsItWas
<1>6. CASE tty
  <2>1. readers' \subseteq Clients \X Job /\ \A r \in readers' : tty /\ r = <<c, jobs>> /\ w.at = "asking" /\ said'[jobs] = "nothing"
    BY <1>1, <1>3, <1>4, <1>6
  <2>2. UNCHANGED <<sink, said>>
    BY <1>1, <1>6
  <2> HIDE DEF w, e
  <2> QED
    BY <1>1, <1>2, <1>4, <2>1, <2>2, TurnAsItWas, TurnGoesOn
<1>7. CASE ~tty
  <2>1. sink' = e /\ said' = [said EXCEPT ![jobs] = "no"] /\ readers' = {} /\ Prints
    BY <1>1, <1>2, <1>3, <1>7, TurnAsItWas DEF Prints
  <2>2. said' \in [Job -> {"nothing", "no", "yes", "late"}] /\ said'[jobs] = "no"
        /\ \A j \in Job : said'[j] = said[j] \/ (j = jobs /\ said[j] = "nothing")
    BY <1>1, <1>2, <1>3, <2>1, TurnAsItWas
  <2> HIDE DEF w, e
  <2> QED
    BY <1>1, <1>2, <1>4, <1>5, <1>7, <2>1, <2>2, TurnAsItWas, TurnGoesOn
<1> QED
  BY <1>6, <1>7

LEMMA ReadersKeep ==
  ASSUME TextInv, NEW r \in readers, NEW a \in {"yes", "no"}, ReaderDies(r) \/ Answered(r, a)
  PROVE  TextInv'
<1> DEFINE c == r[1]
<1>1. c \in Clients /\ turn[c].at = "asking"
  BY DEF TextInv, TextTyped, AnswersAreOwn
<1>2. Live(c)
  BY <1>1 DEF Live, Working
<1>3. /\ (\A q \in readers : q = <<c, jobs>>) /\ said[jobs] = "nothing" /\ tty /\ JobOf(c) = jobs /\ jobs \in Job
      /\ r = <<c, jobs>> /\ r[2] = jobs
  BY <1>1, <1>2, ReaderIsOfTheRun
<1>4. /\ turn[c] \in TurnOfClient /\ turn = [turn EXCEPT ![c] = turn[c]]
      /\ said \in [Job -> {"nothing", "no", "yes", "late"}]
  BY <1>1 DEF TextInv, TextTyped
<1>5. CASE ReaderDies(r)
  <2>1. /\ readers' \subseteq readers
        /\ UNCHANGED <<front, sort, tty, policy, jobs, clients, turn, done, sink, results, exit, held, filed, said, executed>>
    BY <1>5 DEF ReaderDies
  <2> HIDE DEF c
  <2> QED
    BY <1>1, <1>2, <1>4, <2>1, TurnOnly
<1>6. CASE Answered(r, a)
  <2>1. /\ readers' = readers \ {r}
        /\ said' = [said EXCEPT ![jobs] = IF Resolves(c, jobs) THEN a ELSE "late"]
        /\ turn' = (IF Resolves(c, jobs) THEN [turn EXCEPT ![c].at = IF a = "yes" THEN "allowed" ELSE "refused"] ELSE turn)
        /\ UNCHANGED <<front, sort, tty, policy, jobs, clients, done, sink, results, exit, held, filed, executed>>
    BY <1>3, <1>6 DEF Answered
  <2> DEFINE w == IF Resolves(c, jobs) THEN [turn[c] EXCEPT !.at = IF a = "yes" THEN "allowed" ELSE "refused"] ELSE turn[c]
  <2>2. readers' = {}
    BY <1>3, <2>1
  <2>3. /\ said' \in [Job -> {"nothing", "no", "yes", "late"}] /\ said'[jobs] = (IF Resolves(c, jobs) THEN a ELSE "late")
        /\ \A j \in Job : said'[j] = said[j] \/ (j = jobs /\ said[j] = "nothing")
    BY <1>3, <1>4, <2>1
  <2>4. /\ w \in TurnOfClient /\ w.job = turn[c].job /\ w.at \in {"allowed", "refused", "asking"}
        /\ w.at = "allowed" => Resolves(c, jobs) /\ a = "yes"
    BY <1>1, <1>4 DEF TurnOfClient, Working
  <2>5. turn' = [turn EXCEPT ![c] = w]
    BY <1>4, <2>1
  <2> HIDE DEF c, w
  <2>6. w.at = "allowed" => tty /\ said'[JobOf(c)] = "yes"
    BY <1>3, <2>3, <2>4
  <2>7. sink'.denied <=> ~tty /\ said'[jobs] = "no"
    BY <1>1, <1>2, <1>3, <2>1, TurnAsItWas
  <2>8. \A q \in readers' : tty /\ q = <<c, jobs>> /\ w.at = "asking" /\ said'[jobs] = "nothing"
    BY <2>2
  <2>9. w.at \notin {"none", "over"} /\ readers' \subseteq Clients \X Job
    BY <2>2, <2>4
  <2>10. /\ UNCHANGED <<front, sort, tty, policy, jobs, clients, done, results, exit, filed>>
         /\ held' = held /\ sink' = sink /\ executed' = executed
    BY <2>1
  <2>11. /\ said' \in [Job -> {"nothing", "no", "yes", "late"}]
         /\ \A j \in Job : said'[j] = said[j] \/ (j = jobs /\ said[j] = "nothing")
    BY <2>3
  <2>12. /\ held' \in [Clients -> SUBSET Nat] /\ executed' \subseteq Job /\ sink'.text \subseteq {jobs}
         /\ sink' \in [text : SUBSET Nat, stop : {"", "no_tool_calls", "max_turns", "completed"}, denied : BOOLEAN]
    BY <1>1, <1>2, <2>10, TurnAsItWas
  <2> QED
    BY <1>1, <1>2, <2>4, <2>5, <2>6, <2>7, <2>8, <2>9, <2>10, <2>11, <2>12, TurnGoesOn
<1> QED
  BY <1>5, <1>6

\* A front that is ready, or whose Run told its end, has no Run that works.
LEMMA NoneWorks ==
  ASSUME TextInv, front \notin {"waiting", "closing"} \/ done[Current]
  PROVE  (\A c \in Clients : ~Live(c)) /\ readers = {} /\ \A c \in Clients : turn[c].at # "allowed"
<1>1. TextTyped /\ OneWorks /\ AnswersAreOwn /\ Current \in Clients
  BY CurrentIsOne DEF TextInv
<1>2. ASSUME NEW c \in Clients, Live(c) PROVE FALSE
  BY <1>1, <1>2 DEF OneWorks, Live, Working
<1>3. ASSUME NEW r \in readers PROVE FALSE
  <2>1. r \in Clients \X Job
    BY <1>1 DEF TextTyped
  <2>2. r[1] \in Clients /\ Live(r[1])
    BY <1>1, <2>1 DEF AnswersAreOwn, Live, Working
  <2> QED
    BY <1>2, <2>2
<1>4. \A c \in Clients : turn[c].at # "allowed"
  BY <1>2 DEF Live, Working
<1> QED
  BY <1>2, <1>3, <1>4

\* A step of the front alone.
LEMMA FrontOnly ==
  ASSUME TextInv, UNCHANGED <<sort, tty, policy, jobs, clients, turn, done, sink, readers, held, filed, said, executed>>,
         front' \in {"waiting", "closing"} \/ \A c \in Clients : ~Live(c),
         results' \in Seq(PrintedResult), ResultsAreOwn', FirstCodeStays',
         Prints /\ front' = "ready" => Len(results') = jobs,
         Prints /\ (front' = "waiting" \/ \E c \in Clients : Live(c)) => Len(results') + 1 = jobs,
         ~Prints => results' = <<>>
  PROVE  TextInv'
<1>1. TextTyped /\ OneWorks /\ SinkIsOwn /\ AnswersAreOwn /\ FilesAreRead /\ HistoryWhole
  BY DEF TextInv
<1>2. TextTyped'
  BY <1>1 DEF TextTyped
<1>3. OneWorks'
  BY <1>1 DEF OneWorks, Live, JobOf, Current
<1>4. SinkIsOwn'
  BY <1>1 DEF SinkIsOwn, Live, Prints
<1>5. AnswersAreOwn'
  BY <1>1 DEF AnswersAreOwn, JobOf, RunsOnYes
<1>6. FilesAreRead' /\ HistoryWhole'
  BY <1>1 DEF FilesAreRead, HistoryWhole, Current
<1> QED
  BY <1>2, <1>3, <1>4, <1>5, <1>6 DEF TextInv

LEMMA PrintResultKeeps == TextInv /\ PrintResult => TextInv'
<1> SUFFICES ASSUME TextInv, PrintResult PROVE TextInv'
  OBVIOUS
<1> DEFINE x == CodeFor(sink)
           e == [job |-> jobs, text |-> sink.text, code |-> x]
<1>1. /\ front = "waiting" /\ Prints /\ done[Current] /\ results' = Append(results, e)
      /\ exit' = Combined(exit, x) /\ front' = (IF sort = "text" THEN "closing" ELSE "ready")
      /\ UNCHANGED <<sort, tty, policy, jobs, clients, turn, done, sink, readers, held, filed, said, executed>>
  BY DEF PrintResult
<1>2. TextTyped /\ SinkIsOwn /\ ResultsAreOwn /\ FirstCodeStays
  BY DEF TextInv
<1>3. \A c \in Clients : ~Live(c)
  BY <1>1, NoneWorks
<1>4. x \in {"permission", "cancelled", "execution", "ok"} /\ (x = "permission" <=> sink.denied)
  BY DEF CodeFor
<1>5. jobs \in Nat /\ sink.text \in SUBSET Nat /\ jobs >= 1 /\ Len(results) + 1 = jobs /\ Len(results) \in Nat
      /\ results \in Seq(PrintedResult)
  <2>1. jobs \in 0..MaxJobs /\ results \in Seq(PrintedResult) /\ sink.text \in SUBSET Nat
    BY <1>2 DEF TextTyped
  <2>2. Len(results) + 1 = jobs
    BY <1>1, <1>2 DEF SinkIsOwn
  <2> QED
    BY <2>1, <2>2, LenProperties, FrontConstants
<1>6. e \in PrintedResult /\ e.job = jobs /\ e.text = sink.text /\ e.code = x
  BY <1>4, <1>5 DEF PrintedResult
<1> HIDE DEF e, x
<1>7. /\ results' \in Seq(PrintedResult) /\ Len(results') = jobs /\ results'[jobs] = e
      /\ DOMAIN results = 1..Len(results) /\ DOMAIN results' = 1..jobs
      /\ \A i \in DOMAIN results : results'[i] = results[i]
  BY <1>1, <1>5, <1>6, AppendProperties, LenProperties
<1>8. \A i \in DOMAIN results' : i = jobs \/ (i \in DOMAIN results /\ results'[i] = results[i])
  BY <1>5, <1>7
<1>9. ResultsAreOwn'
  <2>1. sink.text \subseteq {jobs} /\ (sink.denied <=> ~tty /\ said[jobs] = "no")
    BY <1>2, <1>5 DEF SinkIsOwn
  <2>2. e.job = jobs /\ e.text \subseteq {jobs} /\ (e.code = "permission" <=> (~tty /\ said[jobs] = "no"))
    BY <1>4, <1>6, <2>1
  <2> SUFFICES ASSUME NEW i \in DOMAIN results'
               PROVE  results'[i].job = i /\ results'[i].text \subseteq {i}
                      /\ (results'[i].code = "permission" <=> (~tty /\ said[i] = "no"))
    BY <1>1 DEF ResultsAreOwn
  <2>3. CASE i = jobs
    BY <1>7, <2>2, <2>3
  <2>4. CASE i # jobs
    BY <1>2, <1>8, <2>4 DEF ResultsAreOwn
  <2> QED
    BY <2>3, <2>4
<1>10. FirstCodeStays'
  <2>1. CASE exit = "ok"
    <3>1. exit' = x /\ \A i \in DOMAIN results : results[i].code = "ok"
      BY <1>1, <1>2, <2>1 DEF Combined, FirstCodeStays
    <3>2. exit' = "ok" => \A i \in DOMAIN results' : results'[i].code = "ok"
      BY <1>6, <1>7, <1>8, <3>1
    <3>3. results'[jobs].code = exit' /\ jobs \in DOMAIN results' /\ \A k \in 1..(jobs - 1) : results'[k].code = "ok"
      BY <1>5, <1>6, <1>7, <3>1
    <3> QED
      BY <3>2, <3>3 DEF FirstCodeStays
  <2>2. CASE exit # "ok"
    <3>1. exit' = exit
      BY <1>1, <2>2 DEF Combined
    <3>2. PICK i \in DOMAIN results : results[i].code = exit /\ \A k \in 1..(i - 1) : results[k].code = "ok"
      BY <1>1, <1>2, <2>2 DEF FirstCodeStays
    <3>3. i \in DOMAIN results' /\ results'[i].code = exit /\ \A k \in 1..(i - 1) : results'[k].code = "ok"
      <4>1. i \in DOMAIN results' /\ \A k \in 1..(i - 1) : k \in DOMAIN results
        BY <1>5, <1>7
      <4> QED
        BY <1>7, <3>2, <4>1
    <3> QED
      BY <2>2, <3>1, <3>3 DEF FirstCodeStays
  <2> QED
    BY <2>1, <2>2
<1> QED
  BY <1>1, <1>3, <1>7, <1>9, <1>10, FrontOnly

LEMMA FrontActionsKeep ==
  ASSUME TextInv, NothingToDo \/ SendRaises \/ PromptAgain \/ LineRaises \/ Leave
  PROVE  TextInv'
<1>1. /\ UNCHANGED <<sort, tty, policy, jobs, clients, turn, done, sink, results, readers, held, filed, said, executed>>
      /\ \/ front = "ready" /\ front' \in {"gone", "closing"} /\ (exit' = exit \/ exit' # "ok")
         \/ front = "waiting" /\ front' = "closing" /\ (exit' = exit \/ exit' # "ok")
         \/ front = "waiting" /\ ~Prints /\ done[Current] /\ front' = "ready" /\ exit' = exit
  BY DEF NothingToDo, SendRaises, PromptAgain, LineRaises, Leave
<1>2. TextTyped /\ SinkIsOwn /\ ResultsAreOwn /\ FirstCodeStays
  BY DEF TextInv
<1>3. front' \in {"waiting", "closing"} \/ \A c \in Clients : ~Live(c)
  BY <1>1, NoneWorks
<1>4. ResultsAreOwn' /\ results' \in Seq(PrintedResult)
  BY <1>1, <1>2 DEF ResultsAreOwn, TextTyped
<1>5. FirstCodeStays'
  BY <1>1, <1>2 DEF FirstCodeStays
<1>6. Prints /\ (front' = "waiting" \/ \E c \in Clients : Live(c)) => Len(results') + 1 = jobs
  BY <1>1, <1>2 DEF SinkIsOwn
<1>7. (~Prints => results' = <<>>) /\ (Prints /\ front' = "ready" => Len(results') = jobs)
  BY <1>1, <1>2 DEF SinkIsOwn
<1> QED
  BY <1>1, <1>3, <1>4, <1>5, <1>6, <1>7, FrontOnly

LEMMA SendLineKeeps == TextInv /\ SendLine => TextInv'
<1> SUFFICES ASSUME TextInv, SendLine PROVE TextInv'
  OBVIOUS
<1> DEFINE w == [Idle EXCEPT !.at = "created", !.job = jobs + 1]
           n == jobs + 1
<1>1. /\ front = "ready" /\ jobs < MaxJobs /\ jobs' = n /\ front' = "waiting"
      /\ sink' = (IF Prints THEN NoSink ELSE sink) /\ done' = [done EXCEPT ![Current] = FALSE]
      /\ turn' = [turn EXCEPT ![Current] = w]
      /\ UNCHANGED <<sort, tty, policy, clients, results, exit, readers, held, filed, said, executed>>
  BY DEF SendLine, Forgotten
<1>2. /\ TextTyped /\ OneWorks /\ SinkIsOwn /\ AnswersAreOwn /\ FilesAreRead /\ ResultsAreOwn /\ FirstCodeStays
      /\ HistoryWhole
  BY DEF TextInv
<1>3. Current \in Clients /\ Current' = Current /\ 1..Current \subseteq Clients /\ Current \in Nat
  BY <1>1, <1>2, CurrentIsOne DEF Current
<1>4. jobs \in Nat /\ n \in Nat /\ n \in Job /\ n >= 1 /\ n \in 0..MaxJobs /\ n > jobs
  <2>1. jobs \in 0..MaxJobs
    BY <1>2 DEF TextTyped
  <2> QED
    BY <1>1, <2>1, FrontConstants DEF Job
<1>5. Idle \in TurnOfClient /\ DOMAIN Idle = {"at", "job", "late", "ok", "class"}
  BY <1>4, FrontConstants DEF TurnOfClient, Idle, CallClass
<1>6. w \in TurnOfClient /\ w.at = "created" /\ w.job = n
  <2>1. w.at = "created" /\ w.job = n /\ w.late = FALSE /\ w.ok = TRUE /\ w.class = "free"
    BY DEF Idle
  <2>2. "created" \in Working \cup {"none", "over", "lost"} /\ n \in 0..MaxJobs
    BY <1>4 DEF Working
  <2> QED
    BY <1>5, <2>1, <2>2 DEF TurnOfClient
<1>7. NoSink \in [text : SUBSET Nat, stop : {"", "no_tool_calls", "max_turns", "completed"}, denied : BOOLEAN]
      /\ NoSink.text = {} /\ ~NoSink.denied
  BY DEF NoSink
<1> HIDE DEF w
<1>8. /\ turn' \in [Clients -> TurnOfClient] /\ turn'[Current] = w /\ \A c \in Clients : c # Current => turn'[c] = turn[c]
  BY <1>1, <1>2, <1>3, <1>6 DEF TextTyped
<1>9. done' \in [Clients -> BOOLEAN] /\ ~done'[Current] /\ \A c \in Clients : c # Current => done'[c] = done[c]
  BY <1>1, <1>2, <1>3 DEF TextTyped
<1>10. (\A c \in Clients : ~Live(c)) /\ readers = {} /\ \A c \in Clients : turn[c].at # "allowed"
  BY <1>1, NoneWorks
<1>11. sink' = NoSink
  BY <1>1, <1>2 DEF SinkIsOwn
<1>12. TextTyped'
  BY <1>1, <1>2, <1>4, <1>7, <1>8, <1>9, <1>11 DEF TextTyped
<1>13. OneWorks'
  <2>1. \A c \in Clients : Live(c)' => c = Current
    BY <1>8, <1>10 DEF Live
  <2>2. \A c \in Clients : done'[c] => turn'[c].at = "over"
    BY <1>2, <1>8, <1>9 DEF OneWorks
  <2>3. \A c \in Clients : c > Current' => turn'[c].at = "none"
    BY <1>2, <1>3, <1>8 DEF OneWorks
  <2>4. turn'[Current].job = jobs' /\ jobs' >= 1
    BY <1>1, <1>4, <1>6, <1>8
  <2> QED
    BY <1>1, <1>3, <2>1, <2>2, <2>3, <2>4 DEF OneWorks, JobOf
<1>14. SinkIsOwn'
  <2>1. said[n] = "nothing" /\ \A j \in Job : j > n => said[j] = "nothing"
    <3>1. \A j \in Job : j > n => j > jobs
      BY <1>4, JobNumbers
    <3> QED
      BY <1>2, <1>4, <3>1 DEF SinkIsOwn
  <2>2. Prints => Len(results) = jobs
    BY <1>1, <1>2 DEF SinkIsOwn
  <2>3. (~Prints => results = <<>>) /\ (Prints' <=> Prints)
    BY <1>1, <1>2 DEF SinkIsOwn, Prints
  <2>4. Prints' => Len(results') + 1 = jobs'
    BY <1>1, <1>4, <2>2, <2>3
  <2>5. sink'.text \subseteq {jobs'} /\ ~sink'.denied /\ ~(said'[jobs'] = "no")
    BY <1>1, <1>7, <1>11, <2>1
  <2> QED
    BY <1>1, <1>11, <2>1, <2>3, <2>4, <2>5 DEF SinkIsOwn
<1>15. ResultsAreOwn' /\ FirstCodeStays'
  BY <1>1, <1>2 DEF ResultsAreOwn, FirstCodeStays
<1>16. AnswersAreOwn'
  <2>1. \A c \in Clients : turn'[c].at # "allowed"
    BY <1>6, <1>8, <1>10
  <2>2. RunsOnYes'
    BY <1>1, <1>2 DEF AnswersAreOwn, RunsOnYes
  <2> QED
    BY <1>1, <1>10, <2>1, <2>2 DEF AnswersAreOwn
<1>17. FilesAreRead'
  BY <1>1, <1>2, <1>3 DEF FilesAreRead
<1>18. HistoryWhole'
  <2> SUFFICES ASSUME NEW k \in 1..Current, turn'[k].at = "over" \/ (turn'[k].at = "none" /\ k = Current)
               PROVE  held[k] \subseteq filed[clients[k]]
    BY <1>1, <1>3 DEF HistoryWhole
  <2>1. k \in Clients /\ k # Current
    BY <1>3, <1>6, <1>8
  <2> QED
    BY <1>2, <1>8, <2>1 DEF HistoryWhole
<1> QED
  BY <1>12, <1>13, <1>14, <1>15, <1>16, <1>17, <1>18 DEF TextInv

LEMMA SwitchThreadKeeps == ASSUME TextInv, NEW d \in Dialogues, SwitchThread(d) PROVE TextInv'
<1> DEFINE n == Current + 1
<1>1. /\ front = "ready" /\ sort = "repl" /\ Current < MaxClients /\ clients' = Append(clients, d)
      /\ held' = [held EXCEPT ![n] = filed[d]]
      /\ UNCHANGED <<front, sort, tty, policy, jobs, turn, done, sink, results, exit, readers, filed, said, executed>>
  BY DEF SwitchThread
<1>2. /\ TextTyped /\ OneWorks /\ SinkIsOwn /\ AnswersAreOwn /\ FilesAreRead /\ ResultsAreOwn /\ FirstCodeStays
      /\ HistoryWhole
  BY DEF TextInv
<1>3. Current \in Nat /\ Current \in Clients /\ n \in Clients /\ 1..Current \subseteq Clients
  <2>1. Current \in Clients /\ Current \in Nat /\ 1..Current \subseteq Clients
    BY <1>2, CurrentIsOne
  <2> QED
    BY <1>1, <2>1, FrontConstants DEF Clients
<1>4. /\ clients' \in Seq(Dialogues) /\ Len(clients') = n /\ clients'[n] = d /\ \A k \in 1..Current : clients'[k] = clients[k]
  <2>1. clients \in Seq(Dialogues)
    BY <1>2 DEF TextTyped
  <2>2. clients' = Append(clients, d)
    BY <1>1
  <2> QED
    BY <2>1, <2>2, AppendProperties DEF Current
<1>5. Current' = n
  BY <1>4 DEF Current
<1>6. held' \in [Clients -> SUBSET Nat] /\ held'[n] = filed[d] /\ \A k \in Clients : k # n => held'[k] = held[k]
  BY <1>1, <1>2, <1>3 DEF TextTyped
<1>7. (\A c \in Clients : ~Live(c)) /\ readers = {} /\ \A c \in Clients : turn[c].at # "allowed"
  BY <1>1, NoneWorks
<1>8. TextTyped'
  BY <1>1, <1>2, <1>3, <1>4, <1>6 DEF TextTyped
<1>9. OneWorks'
  <2>1. \A c \in Clients : ~Live(c)'
    BY <1>1, <1>7 DEF Live
  <2>2. \A c \in Clients : c > n => c > Current
    BY <1>3, FrontConstants DEF Clients
  <2> QED
    BY <1>1, <1>2, <1>5, <2>1, <2>2 DEF OneWorks
<1>10. SinkIsOwn' /\ AnswersAreOwn' /\ ResultsAreOwn' /\ FirstCodeStays'
  BY <1>1, <1>2 DEF SinkIsOwn, AnswersAreOwn, ResultsAreOwn, FirstCodeStays, Live, JobOf, Prints, RunsOnYes
<1>11. FilesAreRead'
  BY <1>1, <1>4, <1>5, <1>6 DEF FilesAreRead
<1>12. HistoryWhole'
  <2> SUFFICES ASSUME NEW k \in 1..n, turn[k].at = "over" \/ (turn[k].at = "none" /\ k = n)
               PROVE  held'[k] \subseteq filed[clients'[k]]
    BY <1>1, <1>5 DEF HistoryWhole
  <2>1. CASE k = n
    BY <1>4, <1>6, <2>1
  <2>2. CASE k # n
    <3>1. k \in 1..Current /\ k \in Clients
      BY <1>3, <2>2
    <3> QED
      BY <1>2, <1>4, <1>6, <2>2, <3>1 DEF HistoryWhole
  <2> QED
    BY <2>1, <2>2
<1> QED
  BY <1>8, <1>9, <1>10, <1>11, <1>12 DEF TextInv

LEMMA CloseClientsKeeps == TextInv /\ CloseClients => TextInv'
<1> SUFFICES ASSUME TextInv, CloseClients PROVE TextInv'
  OBVIOUS
<1> DEFINE over(c) == [turn[c] EXCEPT !.at = "over", !.ok = FALSE]
           saved(d) == UNION {held[c] : c \in {k \in 1..Current : Live(k) /\ clients[k] = d}}
<1>1. /\ front' = "gone" /\ turn' = [c \in Clients |-> IF Live(c) THEN over(c) ELSE turn[c]]
      /\ filed' = [d \in Dialogues |-> filed[d] \cup saved(d)] /\ readers' = {}
      /\ UNCHANGED <<sort, tty, policy, jobs, clients, done, sink, results, exit, held, said, executed>>
  BY DEF CloseClients
<1>2. /\ TextTyped /\ OneWorks /\ SinkIsOwn /\ AnswersAreOwn /\ FilesAreRead /\ ResultsAreOwn /\ FirstCodeStays
      /\ HistoryWhole
  BY DEF TextInv
<1>3. Current \in Clients /\ Current' = Current /\ 1..Current \subseteq Clients /\ Current \in 1..Current
  <2>1. Current \in Clients /\ Current \in Nat /\ 1..Current \subseteq Clients
    BY <1>2, CurrentIsOne
  <2>2. Current >= 1
    BY <2>1, FrontConstants DEF Clients
  <2>3. Current \in 1..Current
    BY <2>1, <2>2
  <2>4. Current' = Current
    BY <1>1 DEF Current
  <2> QED
    BY <2>1, <2>3, <2>4
<1>4. \A c \in Clients : over(c) \in TurnOfClient /\ over(c).at = "over"
  BY <1>2, ZenonT(60) DEF TextTyped, TurnOfClient
<1>5. \A c \in Clients : /\ turn'[c] \in TurnOfClient
                         /\ Live(c) => turn'[c].at = "over"
                         /\ ~Live(c) => turn'[c] = turn[c]
  BY <1>1, <1>2, <1>4 DEF TextTyped
<1>6. turn' \in [Clients -> TurnOfClient]
  BY <1>1, <1>5
<1> HIDE DEF over
<1>7. \A c \in Clients : ~Live(c)' /\ turn'[c].at # "allowed"
  BY <1>5 DEF Live, Working
<1>8. \A d \in Dialogues : saved(d) \subseteq held[Current] /\ (Live(Current) /\ clients[Current] = d => held[Current] \subseteq saved(d))
  BY <1>2, <1>3 DEF OneWorks
<1>9. \A d \in Dialogues : saved(d) \in SUBSET Nat
  BY <1>2, <1>3, <1>8 DEF TextTyped
<1> HIDE DEF saved
<1>10. filed' \in [Dialogues -> SUBSET Nat]
  BY <1>1, <1>2, <1>9 DEF TextTyped
<1>11. TextTyped'
  BY <1>1, <1>2, <1>6, <1>10 DEF TextTyped
<1>12. OneWorks'
  <2>1. \A c \in Clients : done'[c] => turn'[c].at = "over"
    BY <1>1, <1>2, <1>5 DEF OneWorks
  <2>2. \A c \in Clients : c > Current' => turn'[c].at = "none"
    BY <1>2, <1>3, <1>5 DEF OneWorks, Live, Working
  <2> QED
    BY <1>7, <2>1, <2>2 DEF OneWorks
<1>13. SinkIsOwn'
  BY <1>1, <1>2, <1>7 DEF SinkIsOwn, Prints
<1>14. AnswersAreOwn' /\ ResultsAreOwn' /\ FirstCodeStays'
  BY <1>1, <1>2, <1>7 DEF AnswersAreOwn, ResultsAreOwn, FirstCodeStays, RunsOnYes
<1>15. \A k \in 1..Current : clients[k] \in Dialogues
  BY <1>2, ElementOfSeq DEF TextTyped, Current
<1>16. FilesAreRead'
  BY <1>1, <1>2, <1>3, <1>8, <1>15 DEF FilesAreRead
<1>17. HistoryWhole'
  <2> SUFFICES ASSUME NEW k \in 1..Current, turn'[k].at = "over" \/ (turn'[k].at = "none" /\ k = Current)
               PROVE  held[k] \subseteq filed'[clients[k]]
    BY <1>1, <1>3 DEF HistoryWhole
  <2>1. k \in Clients /\ clients[k] \in Dialogues /\ filed'[clients[k]] = filed[clients[k]] \cup saved(clients[k])
    BY <1>1, <1>3, <1>15
  <2>2. CASE Live(k)
    <3>1. k = Current
      BY <1>2, <2>1, <2>2 DEF OneWorks
    <3> QED
      BY <1>8, <2>1, <2>2, <3>1
  <2>3. CASE ~Live(k)
    BY <1>2, <1>5, <2>1, <2>3 DEF HistoryWhole
  <2> QED
    BY <2>2, <2>3
<1> QED
  BY <1>11, <1>12, <1>13, <1>14, <1>16, <1>17 DEF TextInv

LEMMA StepTextInv == TextInv /\ [TextNext]_textVars => TextInv'
<1> SUFFICES ASSUME TextInv, [TextNext]_textVars PROVE TextInv'
  OBVIOUS
<1>1. CASE UNCHANGED textVars
  BY <1>1, FrontOnly, ZenonT(60) DEF textVars, TextInv, TextTyped, OneWorks, SinkIsOwn, ResultsAreOwn, FirstCodeStays
<1>2. 1..Current \subseteq Clients
  BY CurrentIsOne DEF TextInv
<1>3. ASSUME NEW c \in 1..Current, NEW reason \in Reasons, RunRaises(c) \/ RunOver(c, reason) PROVE TextInv'
  <2>1. c \in Clients /\ turn[c].at = "model" /\ (EndsTurn(c, reason, TRUE) \/ EndsTurn(c, "completed", FALSE))
    BY <1>2, <1>3 DEF RunRaises, RunOver
  <2>2. /\ c \in Clients /\ turn[c].at = "model"
        /\ UNCHANGED <<front, sort, tty, policy, jobs, clients, results, exit, readers, held, said, executed>>
    BY <1>2, <1>3 DEF RunRaises, RunOver
  <2> QED
    BY <2>1, <2>2, EndsTurnKeeps DEF Reasons
<1>4. ASSUME NEW c \in 1..Current, NEW k \in CallClass,
             RunsFreely(c, k) \/ Asks(c, k) \/ Speaks(c) \/ QuestionExpires(c) \/ RefusalArrives(c) \/ ToolAnswered(c)
             \/ RunBreaksEarly(c)
      PROVE  TextInv'
  BY <1>2, <1>4, SmallTurnsKeep, AsksKeeps, SpeaksKeeps
<1>5. CASE \E r \in readers : ReaderDies(r) \/ \E a \in {"yes", "no"} : Answered(r, a)
  BY <1>5, ReadersKeep
<1>6. "free" \in CallClass /\ "max_turns" \in Reasons
  BY DEF CallClass, Reasons
<1> QED
  BY <1>1, <1>3, <1>4, <1>5, <1>6, PrintResultKeeps, FrontActionsKeep, SendLineKeeps, SwitchThreadKeeps, CloseClientsKeeps
  DEF TextNext

\* However the inputs, the answers and the switches fall: what is printed for an input is of its
\* own Run, the first code that is not OK stays, nothing guarded runs without a yes of its own, one
\* Run works at a time, a thread's file misses nothing, and a process that is gone left no Run and
\* no question (app/commands/print_mode.py, app/repl.py).
THEOREM TextFrontsAreSound == TextSpec => []TextSound
BY TextStart, StepTextInv, TextInvSound, PTL DEF TextSpec

\* The types the tables of the loop have.
TableType ==
    [disk : [Ids -> Dirs], objects : [Objects -> RunnerObjects], turns : [Ids -> TaskStates],
     legacy : Ids \cup {NoThreadId}, last : [Ids -> Objects \cup {NoObject}], waiting : [Ids -> Seq(BOOLEAN)],
     parked : Seq(Ids)]

\* Thread t may use runner x: it was opened for t.
Serves(obs, x, t) == obs[x].thread = t /\ obs[x].state # "unborn"

\* Thread t's Run uses runner x.
Drives(s, t, x) == s.turns[t].pc # "none" /\ s.turns[t].object = x

TableOwned(s) ==
    /\ \A t \in Ids : s.last[t] # NoObject => Serves(s.objects, s.last[t], t)
    /\ \A t \in Ids : s.turns[t].object # NoObject => Serves(s.objects, s.turns[t].object, t)
    /\ \A t \in Ids : s.turns[t].pc # "none" => s.turns[t].object # NoObject
    /\ \A t \in Ids : s.turns[t].holds => s.turns[t].pc # "none"

ModeRight(s, x) ==
    /\ \A t \in Ids : Drives(s, t, x) => s.objects[x].writes = s.turns[t].writes
    /\ (\A t \in Ids : ~Drives(s, t, x)) => s.objects[x].writes

RunnersSound(obs) ==
    \A x \in Objects : /\ obs[x].state = "open" => obs[x].backend = obs[x].asked
                       /\ obs[x].state # "closed" => obs[x].closes = 0

QueuesBounded(s) == \A t \in Ids : Len(s.waiting[t]) <= MaxWaiting

\* What the tables promise but for the mode of runner z and the place of thread l in the old
\* slot, which the end of l's Run has still to put right.
TableInvBut(s, z, l) ==
    /\ s \in TableType /\ TableOwned(s) /\ QueuesBounded(s) /\ RunnersSound(s.objects)
    /\ \A x \in Objects : x # z => ModeRight(s, x)
    /\ s.legacy \notin {NoThreadId, l} => s.turns[s.legacy].pc = "running"

\* What they promise whenever a command, a Run or the exit is done with them.
TableInv(s) == TableInvBut(s, NoObject, NoThreadId)

\* The runners are the same, but for the mode they work in.
SameRunners(a, b) ==
    \A y \in Objects : /\ b[y].state = a[y].state /\ b[y].thread = a[y].thread /\ b[y].asked = a[y].asked
                       /\ b[y].backend = a[y].backend /\ b[y].closes = a[y].closes

\* From s to n nothing happened to a Run.
RunsStay(s, n) == \A u \in Ids : s.turns[u].pc # "none" => n.turns[u] = s.turns[u]

LoopTyped ==
    /\ current \in Objects \cup {NoObject} /\ activeId \in Ids \cup {NoThreadId}
    /\ registry \in [Ids -> Objects \cup {NoObject}] /\ pending \in Backends \cup {"none"}
    /\ opening \in [kind : {"none", "reset", "other", "input", "user"}, thread : Ids \cup {NoThreadId},
                    backend : Backends, writes : BOOLEAN]
    /\ phase \in {"ready", "exiting", "closing", "gone"} /\ stopping \subseteq Ids /\ clock \in Threads
    /\ plain \in BOOLEAN /\ failed \in BOOLEAN /\ broken \in BOOLEAN

LoopOwned(obs) ==
    /\ current # NoObject => activeId # NoThreadId /\ Serves(obs, current, activeId)
    /\ \A t \in Ids : registry[t] # NoObject => Serves(obs, registry[t], t)

\* While a sandbox opens the loop has no runner, and it opens for a thread.
OpeningSound ==
    /\ opening.kind # "none" => current = NoObject /\ phase = "ready" /\ opening.thread # NoThreadId
    /\ opening.kind = "reset" => opening.backend = choice
    /\ FailedChoiceKept

\* The Runs the exit still has to cancel are running; a command that raised has ended the loop.
StoppingRuns(s) == (broken => phase # "ready") /\ (stopping # {} => phase = "exiting") /\ \A t \in stopping : s.turns[t].pc = "running"

\* With one conversation at a time the loop's runner is the only one that is open, but for those
\* that nobody has; only its thread has a Run; nobody waits and nothing is registered.  Until a
\* command raises (up), that runner is open and its directory in place.
PlainTables(s, cur, act, reg, up) ==
    /\ \A x \in Objects : s.objects[x].state = "open" => x = cur \/ s.objects[x].thread = NoThreadId
    /\ \A x \in Objects : s.objects[x].closes <= 1
    /\ up /\ cur # NoObject =>
                         /\ s.objects[cur].state = "open" /\ s.disk[act].there
                         /\ s.disk[act].backend = s.objects[cur].backend
    /\ \A t \in Ids : s.turns[t].pc # "none" => t = act /\ s.turns[t].object = cur
    /\ \A t \in Ids : s.turns[t].pc = "running" => s.legacy = t
    /\ s.parked = <<>> /\ \A t \in Ids : reg[t] = NoObject

PlainInv ==
    /\ plain /\ phase # "gone" => PlainTables(Tables, current, activeId, registry, ~broken)
    /\ plain /\ phase = "gone" =>
         \A x \in Objects : /\ objects[x].state = "open" => objects[x].thread = NoThreadId
                            /\ objects[x].closes <= 1 \/ (broken /\ x = current)

CommandInv ==
    /\ TableInv(Tables) /\ LoopTyped /\ LoopOwned(objects) /\ OpeningSound /\ StoppingRuns(Tables)
    /\ PlainInv

-----------------------------------------------------------------------------
LEMMA OpenedType ==
    ASSUME NEW d \in [Ids -> Dirs], NEW t \in Ids, NEW b \in Backends
    PROVE  /\ OpenedDir(d, t, b) \in [Ids -> Dirs] /\ OpenedDir(d, t, b)[t].there
           /\ \A u \in Ids : d[u].there \/ u # t => OpenedDir(d, t, b)[u] = d[u]
BY DEF OpenedDir, Dirs

\* The runners with x in the mode w, and the Run that starts on it.
ModeSet(obs, x, w) == [obs EXCEPT ![x].writes = w]
NewTurn(x, h, w) == [pc |-> "running", object |-> x, holds |-> h, writes |-> w]

LEMMA ModeSetType ==
    ASSUME NEW obs \in [Objects -> RunnerObjects], NEW x \in Objects, NEW w \in BOOLEAN
    PROVE  /\ ModeSet(obs, x, w) \in [Objects -> RunnerObjects] /\ ModeSet(obs, x, w)[x].writes = w
           /\ \A y \in Objects : y # x => ModeSet(obs, x, w)[y] = obs[y]
           /\ SameRunners(obs, ModeSet(obs, x, w))
<1>1. obs[x] \in RunnerObjects
  OBVIOUS
<1>2. [obs[x] EXCEPT !.writes = w] \in RunnerObjects
  BY <1>1 DEF RunnerObjects
<1> QED
  BY <1>1, <1>2 DEF RunnerObjects, SameRunners, ModeSet

\* What a start makes of the tables.
StartFacts(s, n, t, x, h, act) ==
    /\ n \in TableType /\ Head(s.waiting[t]) \in BOOLEAN
    /\ n.turns = [s.turns EXCEPT ![t] = NewTurn(x, h, Head(s.waiting[t]))]
    /\ n.waiting = [s.waiting EXCEPT ![t] = Tail(@)] /\ n.last = [s.last EXCEPT ![t] = x]
    /\ n.legacy = (IF t = act THEN t ELSE s.legacy) /\ n.disk = Touched0(s.disk, t)
    /\ n.objects = ModeSet(s.objects, x, Head(s.waiting[t])) /\ n.parked = s.parked

LEMMA StartTurnFields ==
    ASSUME NEW s \in TableType, NEW t \in Ids, NEW x \in Objects, NEW h \in BOOLEAN, NEW act \in Ids \cup {NoThreadId},
           s.waiting[t] # <<>>, NEW n, n = StartTurn(s, t, x, h, act)
    PROVE  StartFacts(s, n, t, x, h, act)
<1> DEFINE w == Head(s.waiting[t])
           r == NewTurn(x, h, w)
<1>1. s.waiting[t] \in Seq(BOOLEAN) /\ w \in BOOLEAN /\ Tail(s.waiting[t]) \in Seq(BOOLEAN)
  <2>1. s.waiting[t] \in Seq(BOOLEAN)
    BY DEF TableType
  <2> QED
    BY <2>1, HeadTailProperties
<1>2. r \in TaskStates
  BY <1>1 DEF TaskStates, NewTurn
<1>3. Touched0(s.disk, t) \in [Ids -> Dirs]
  BY OpenedType DEF Touched0, TableType, Backends
<1>4. /\ n.turns = [s.turns EXCEPT ![t] = r]
      /\ n.waiting = [s.waiting EXCEPT ![t] = Tail(@)] /\ n.last = [s.last EXCEPT ![t] = x]
      /\ n.legacy = (IF t = act THEN t ELSE s.legacy) /\ n.disk = Touched0(s.disk, t)
      /\ n.objects = ModeSet(s.objects, x, w) /\ n.parked = s.parked
  BY DEF StartTurn, Snapshot, InMode, TableType, NewTurn, ModeSet
<1>5. n = [f \in DOMAIN s |-> n[f]]
  BY DEF StartTurn, InMode, TableType
<1> HIDE DEF w, r
<1>6. /\ n.turns \in [Ids -> TaskStates] /\ n.waiting \in [Ids -> Seq(BOOLEAN)] /\ n.last \in [Ids -> Objects \cup {NoObject}]
      /\ n.legacy \in Ids \cup {NoThreadId} /\ n.disk \in [Ids -> Dirs] /\ n.parked \in Seq(Ids)
  BY <1>1, <1>2, <1>3, <1>4 DEF TableType
<1>7. n.objects \in [Objects -> RunnerObjects]
  <2>1. s.objects \in [Objects -> RunnerObjects]
    BY DEF TableType
  <2>2. n.objects = ModeSet(s.objects, x, w) /\ w \in BOOLEAN
    BY <1>1, <1>4
  <2>3. ModeSet(s.objects, x, w) \in [Objects -> RunnerObjects]
    BY <2>1, <2>2, ModeSetType
  <2> QED
    BY <2>2, <2>3
<1>8. n \in TableType
  BY <1>5, <1>6, <1>7 DEF TableType
<1> QED
  BY <1>1, <1>4, <1>8 DEF w, r, StartFacts

LEMMA Names == NoObject \notin Objects /\ NoThreadId \notin Ids
BY CommandConstants DEF NoObject, NoThreadId, Ids, Default

\* A Run that starts for the thread its runner serves keeps the tables sound.
LEMMA StartKeeps ==
    ASSUME NEW s, NEW z, NEW l, TableInvBut(s, z, l), NEW t \in Ids, NEW x \in Objects, x # z, Serves(s.objects, x, t),
           NEW h \in BOOLEAN, NEW act \in Ids \cup {NoThreadId}, s.waiting[t] # <<>>, s.turns[t].pc = "none",
           NEW n, n = StartTurn(s, t, x, h, act)
    PROVE      /\ TableInvBut(n, z, l) /\ SameRunners(s.objects, n.objects) /\ RunsStay(s, n)
               /\ \A u \in Ids : u # t => n.turns[u] = s.turns[u]
<1> DEFINE w == Head(s.waiting[t])
           r == NewTurn(x, h, w)
<1>1. s \in TableType /\ TableOwned(s) /\ QueuesBounded(s) /\ RunnersSound(s.objects)
  BY DEF TableInvBut
<1>2. /\ n \in TableType /\ w \in BOOLEAN /\ n.turns = [s.turns EXCEPT ![t] = r]
      /\ n.waiting = [s.waiting EXCEPT ![t] = Tail(@)] /\ n.last = [s.last EXCEPT ![t] = x]
      /\ n.legacy = (IF t = act THEN t ELSE s.legacy)
      /\ n.objects = ModeSet(s.objects, x, w)
  <2>1. StartFacts(s, n, t, x, h, act)
    BY <1>1, StartTurnFields
  <2> QED
    BY <2>1 DEF StartFacts
<1>3. r.pc = "running" /\ r.object = x /\ r.writes = w
  BY DEF NewTurn
<1> HIDE DEF w, r
<1>4. /\ n.turns[t] = r /\ \A u \in Ids : u # t => n.turns[u] = s.turns[u]
      /\ n.last[t] = x /\ \A u \in Ids : u # t => n.last[u] = s.last[u]
  BY <1>1, <1>2 DEF TableType
<1>5. /\ n.objects[x].writes = w /\ \A y \in Objects : y # x => n.objects[y] = s.objects[y]
      /\ SameRunners(s.objects, n.objects)
  <2>1. s.objects \in [Objects -> RunnerObjects]
    BY <1>1 DEF TableType
  <2> QED
    BY <1>2, <2>1, ModeSetType
<1>6. TableOwned(n)
  <2>1. Serves(n.objects, x, t)
    BY <1>5 DEF SameRunners, Serves
  <2>2. \A y \in Objects, u \in Ids : Serves(s.objects, y, u) => Serves(n.objects, y, u)
    BY <1>5 DEF SameRunners, Serves
  <2>3. \A u \in Ids : s.last[u] \in Objects \cup {NoObject} /\ s.turns[u].object \in Objects \cup {NoObject}
    BY <1>1 DEF TableType, TaskStates
  <2> QED
    BY <1>1, <1>3, <1>4, <2>1, <2>2, <2>3, Names DEF TableOwned
<1>7. QueuesBounded(n)
  <2>1. s.waiting[t] \in Seq(BOOLEAN) /\ s.waiting \in [Ids -> Seq(BOOLEAN)]
    BY <1>1 DEF TableType
  <2>2. Len(Tail(s.waiting[t])) <= Len(s.waiting[t]) /\ Len(s.waiting[t]) \in Nat /\ Len(Tail(s.waiting[t])) \in Nat
    BY <2>1, HeadTailProperties, LenProperties
  <2>3. MaxWaiting \in Nat
    BY CommandConstants
  <2>4. Len(Tail(s.waiting[t])) <= MaxWaiting
    BY <1>1, <2>2, <2>3 DEF QueuesBounded
  <2> QED
    BY <1>1, <1>2, <2>1, <2>4 DEF QueuesBounded
<1>8. RunnersSound(n.objects)
  BY <1>1, <1>5 DEF RunnersSound, SameRunners
<1>9. \A y \in Objects : y # z => ModeRight(n, y)
  <2> SUFFICES ASSUME NEW y \in Objects, y # z PROVE ModeRight(n, y)
    OBVIOUS
  <2>1. ModeRight(s, y)
    BY DEF TableInvBut
  <2>2. CASE y # x
    <3>1. \A u \in Ids : Drives(n, u, y) <=> Drives(s, u, y)
      BY <1>3, <1>4, <2>2 DEF Drives
    <3>2. \A u \in Ids : Drives(n, u, y) => n.turns[u] = s.turns[u]
      BY <1>3, <1>4, <2>2 DEF Drives
    <3> QED
      BY <1>5, <2>1, <2>2, <3>1, <3>2 DEF ModeRight
  <2>3. CASE y = x
    <3>1. \A u \in Ids : u # t => ~Drives(s, u, x)
      BY <1>1, Names DEF TableOwned, Drives, Serves
    <3>2. \A u \in Ids : u # t => ~Drives(n, u, x)
      BY <1>4, <3>1 DEF Drives
    <3>3. Drives(n, t, x)
      BY <1>3, <1>4 DEF Drives
    <3> QED
      BY <1>3, <1>4, <1>5, <2>3, <3>2, <3>3 DEF ModeRight
  <2> QED
    BY <2>2, <2>3
<1>10. n.legacy \notin {NoThreadId, l} => n.turns[n.legacy].pc = "running"
  <2>1. s.legacy \in Ids \cup {NoThreadId}
    BY <1>1 DEF TableType
  <2>2. s.legacy \notin {NoThreadId, l} => s.turns[s.legacy].pc = "running"
    BY DEF TableInvBut
  <2> QED
    BY <1>2, <1>3, <1>4, <2>1, <2>2
<1>11. RunsStay(s, n)
  BY <1>4 DEF RunsStay
<1> QED
  BY <1>2, <1>4, <1>5, <1>6, <1>7, <1>8, <1>9, <1>10, <1>11 DEF TableInvBut

\* To wait for the workspace changes the list of waiters only.
LEMMA ParkedKeeps ==
    ASSUME NEW s, NEW z, NEW l, TableInvBut(s, z, l), NEW t \in Ids, NEW n, n = Parked(s, t)
    PROVE      /\ TableInvBut(n, z, l) /\ SameRunners(s.objects, n.objects) /\ RunsStay(s, n)
               /\ n.turns = s.turns
<1> DEFINE q == n.parked
<1>1. s \in TableType /\ s.parked \in Seq(Ids)
  BY DEF TableInvBut, TableType
<1>2. Append(s.parked, t) \in Seq(Ids)
  BY <1>1, AppendProperties
<1>3. q = s.parked \/ q = Append(s.parked, t)
  BY <1>1 DEF Parked, TableType
<1>4. /\ n.turns = s.turns /\ n.objects = s.objects /\ n.waiting = s.waiting /\ n.last = s.last
      /\ n.legacy = s.legacy /\ n.disk = s.disk
  BY <1>1 DEF Parked, TableType
<1>5. n = [f \in DOMAIN s |-> n[f]]
  BY <1>1 DEF Parked, TableType
<1>6. n \in TableType
  BY <1>1, <1>2, <1>3, <1>4, <1>5 DEF TableType
<1>7. SameRunners(s.objects, n.objects) /\ RunsStay(s, n)
  BY <1>4 DEF SameRunners, RunsStay
<1> QED
  BY <1>4, <1>6, <1>7 DEF TableInvBut, TableOwned, QueuesBounded, ModeRight, Drives

LEMMA AutoKeeps ==
    ASSUME NEW s, NEW z, NEW l, TableInvBut(s, z, l), NEW t \in Ids, NEW x \in Objects, x # z, Serves(s.objects, x, t),
           activeId \in Ids \cup {NoThreadId}, NEW n, n = AutoStartNext(s, t, x)
    PROVE      /\ TableInvBut(n, z, l) /\ SameRunners(s.objects, n.objects) /\ RunsStay(s, n)
               /\ \A u \in Ids : u # t => n.turns[u] = s.turns[u]
<1>1. CASE n = s
  BY <1>1 DEF SameRunners, RunsStay
<1>2. CASE n = Parked(s, t)
  BY <1>2, ParkedKeeps
<1>3. CASE s.waiting[t] # <<>> /\ s.turns[t].pc = "none" /\ n = StartTurn(s, t, x, Head(s.waiting[t]), activeId)
  <2>1. Head(s.waiting[t]) \in BOOLEAN
    <3>1. s.waiting[t] \in Seq(BOOLEAN)
      BY DEF TableInvBut, TableType
    <3> QED
      BY <1>3, <3>1, HeadTailProperties
  <2> QED
    BY <1>3, <2>1, StartKeeps
<1> QED
  BY <1>1, <1>2, <1>3 DEF AutoStartNext

\* The registry is typed and holds runners of their threads.
RegistryServes(obs) ==
    /\ registry \in [Ids -> Objects \cup {NoObject}] /\ activeId \in Ids \cup {NoThreadId}
    /\ \A u \in Ids : registry[u] # NoObject => Serves(obs, registry[u], u)

LEMMA SameRunnersServe ==
    ASSUME NEW a, NEW b, SameRunners(a, b)
    PROVE  /\ \A y \in Objects : \A u : Serves(a, y, u) => Serves(b, y, u)
           /\ RegistryServes(a) => RegistryServes(b)
BY DEF SameRunners, Serves, RegistryServes

LEMMA SameRunnersTransitive ==
    ASSUME NEW a, NEW b, NEW c, SameRunners(a, b), SameRunners(b, c) PROVE SameRunners(a, c)
BY DEF SameRunners

LEMMA WakeOneKeeps ==
    ASSUME NEW s, NEW z, NEW l, TableInvBut(s, z, l), NEW w \in Ids, RegistryServes(s.objects),
           NEW t \in Ids, t # w, Serves(s.objects, z, t), NEW n, n = WakeOne(s, w)
    PROVE  /\ TableInvBut(n, z, l) /\ SameRunners(s.objects, n.objects) /\ RunsStay(s, n)
           /\ \A u \in Ids : u # w => n.turns[u] = s.turns[u]
<1> DEFINE x == IF registry[w] # NoObject THEN registry[w] ELSE s.last[w]
<1>1. x \in Objects \cup {NoObject} /\ (x # NoObject => Serves(s.objects, x, w))
  BY DEF TableInvBut, TableType, TableOwned, RegistryServes
<1>2. n = IF x = NoObject THEN Parked(s, w) ELSE IF s.turns[w].pc = "running" THEN s ELSE AutoStartNext(s, w, x)
  BY DEF WakeOne
<1> HIDE DEF x
<1>3. x # NoObject => x # z
  BY <1>1 DEF Serves
<1>4. CASE n = Parked(s, w)
  BY <1>4, ParkedKeeps
<1>5. CASE n = s
  BY <1>5 DEF SameRunners, RunsStay
<1>6. CASE x # NoObject /\ n = AutoStartNext(s, w, x)
  <2>1. activeId \in Ids \cup {NoThreadId}
    BY DEF RegistryServes
  <2> QED
    BY <1>1, <1>3, <1>6, <2>1, AutoKeeps
<1> QED
  BY <1>2, <1>4, <1>5, <1>6

-----------------------------------------------------------------------------
(* The waiters one after the other *)

\* One place of the list: what the tables are after it.
Wakes(f, s, ws, t, i) ==
    f[i] = IF i = 0 THEN s ELSE IF ws[i] = t THEN f[i - 1] ELSE WakeOne(f[i - 1], ws[i])

LEMMA WakesExists ==
    ASSUME NEW s, NEW ws \in Seq(Ids), NEW t
    PROVE  \E f : DOMAIN f = 0..Len(ws) /\ \A i \in 0..Len(ws) : Wakes(f, s, ws, t, i)
<1> DEFINE Good(m) == \E f : DOMAIN f = 0..m /\ \A i \in 0..m : Wakes(f, s, ws, t, i)
           Bad == {m \in 0..Len(ws) : ~Good(m)}
<1>1. Len(ws) \in Nat
  BY LenProperties
<1>2. Good(0)
  <2> DEFINE g == [i \in 0..0 |-> s]
  <2>1. DOMAIN g = 0..0 /\ \A i \in 0..0 : Wakes(g, s, ws, t, i)
    BY DEF Wakes
  <2> QED
    BY <2>1
<1>3. ASSUME NEW m \in 1..Len(ws), Good(m - 1) PROVE Good(m)
  <2>1. PICK f : DOMAIN f = 0..m - 1 /\ \A i \in 0..m - 1 : Wakes(f, s, ws, t, i)
    BY <1>3
  <2> DEFINE g == [i \in 0..m |-> IF i = m THEN (IF ws[m] = t THEN f[m - 1] ELSE WakeOne(f[m - 1], ws[m])) ELSE f[i]]
  <2>2. \A i \in 0..m - 1 : i \in 0..m /\ g[i] = f[i] /\ (i # 0 => i - 1 \in 0..m - 1 /\ g[i - 1] = f[i - 1])
    BY <1>1
  <2>3. \A i \in 0..m - 1 : Wakes(g, s, ws, t, i)
    BY <2>1, <2>2 DEF Wakes
  <2>4. g[m] = (IF ws[m] = t THEN f[m - 1] ELSE WakeOne(f[m - 1], ws[m])) /\ g[m - 1] = f[m - 1] /\ m # 0
    BY <1>1
  <2>5. Wakes(g, s, ws, t, m)
    BY <2>4 DEF Wakes
  <2>6. \A i \in 0..m : i = m \/ i \in 0..m - 1
    BY <1>1
  <2>7. DOMAIN g = 0..m
    OBVIOUS
  <2> HIDE DEF g
  <2> QED
    BY <2>3, <2>5, <2>6, <2>7
<1>4. Bad = {}
  <2> SUFFICES ASSUME Bad # {} PROVE FALSE
    OBVIOUS
  <2>1. PICK m \in Bad : \A k \in Bad : m <= k
    <3>1. Bad \subseteq Nat
      BY <1>1
    <3> QED
      BY <3>1, LeastNumber
  <2>2. m # 0 /\ m \in 1..Len(ws) /\ m - 1 \in 0..Len(ws) /\ ~(m <= m - 1)
    <3>1. m \in 0..Len(ws) /\ ~Good(m)
      BY <2>1
    <3>2. m # 0
      BY <1>2, <3>1
    <3> QED
      BY <1>1, <3>1, <3>2
  <2>3. Good(m - 1)
    BY <2>1, <2>2
  <2> QED
    BY <1>3, <2>1, <2>2, <2>3
<1> QED
  BY <1>1, <1>4

\* However many waiters are woken, the tables stay sound and no Run is disturbed.
LEMMA WokenKeeps ==
    ASSUME NEW s, NEW z \in Objects, NEW l, TableInvBut(s, z, l), NEW ws \in Seq(Ids), RegistryServes(s.objects),
           NEW t \in Ids, Serves(s.objects, z, t), NEW n, n = Woken(s, ws, t)
    PROVE  /\ TableInvBut(n, z, l) /\ SameRunners(s.objects, n.objects) /\ RunsStay(s, n)
           /\ n.turns[t] = s.turns[t] /\ (ws = <<>> => n = s)
<1> DEFINE F == CHOOSE f : f = [i \in 0..Len(ws) |->
                  IF i = 0 THEN s ELSE IF ws[i] = t THEN f[i - 1] ELSE WakeOne(f[i - 1], ws[i])]
<1>1. PICK g : DOMAIN g = 0..Len(ws) /\ \A i \in 0..Len(ws) : Wakes(g, s, ws, t, i)
  BY WakesExists
<1>2. \E h : h = [i \in 0..Len(ws) |->
             IF i = 0 THEN s ELSE IF ws[i] = t THEN h[i - 1] ELSE WakeOne(h[i - 1], ws[i])]
  <2> DEFINE h == [i \in 0..Len(ws) |-> g[i]]
  <2>1. \A i \in 0..Len(ws) : i # 0 => i - 1 \in 0..Len(ws)
    BY LenProperties
  <2>2. \A i \in 0..Len(ws) : h[i] = g[i]
    OBVIOUS
  <2>3. \A i \in 0..Len(ws) : h[i] = IF i = 0 THEN s ELSE IF ws[i] = t THEN h[i - 1] ELSE WakeOne(h[i - 1], ws[i])
    BY <1>1, <2>1, <2>2 DEF Wakes
  <2>4. h = [i \in 0..Len(ws) |-> h[i]]
    OBVIOUS
  <2> HIDE DEF h
  <2>5. h = [i \in 0..Len(ws) |-> IF i = 0 THEN s ELSE IF ws[i] = t THEN h[i - 1] ELSE WakeOne(h[i - 1], ws[i])]
    BY <2>3, <2>4
  <2> QED
    BY <2>5
<1>3. F = [i \in 0..Len(ws) |->
             IF i = 0 THEN s ELSE IF ws[i] = t THEN F[i - 1] ELSE WakeOne(F[i - 1], ws[i])]
  BY <1>2
<1>4. n = F[Len(ws)]
  BY DEF Woken
<1> HIDE DEF F
<1>5. \A i \in 0..Len(ws) : Wakes(F, s, ws, t, i)
  BY <1>3 DEF Wakes
<1> DEFINE Fine(e) == /\ TableInvBut(e, z, l) /\ SameRunners(s.objects, e.objects) /\ RunsStay(s, e)
                      /\ e.turns[t] = s.turns[t]
           B == {i \in 0..Len(ws) : ~Fine(F[i])}
<1>6. Len(ws) \in Nat /\ \A i \in 1..Len(ws) : ws[i] \in Ids
  BY LenProperties, ElementOfSeq
<1>7. Fine(s)
  BY DEF SameRunners, RunsStay
<1>8. ASSUME NEW e, Fine(e), NEW w \in Ids, w # t, NEW f, f = WakeOne(e, w) PROVE Fine(f)
  <2>1. TableInvBut(e, z, l) /\ SameRunners(s.objects, e.objects) /\ RunsStay(s, e) /\ e.turns[t] = s.turns[t]
    BY <1>8
  <2>2. z \in Objects
    BY DEF Serves
  <2>3. RegistryServes(e.objects) /\ Serves(e.objects, z, t)
    BY <2>1, <2>2, SameRunnersServe
  <2>4. /\ TableInvBut(f, z, l) /\ SameRunners(e.objects, f.objects) /\ RunsStay(e, f)
        /\ \A u \in Ids : u # w => f.turns[u] = e.turns[u]
    BY <1>8, <2>1, <2>3, WakeOneKeeps
  <2>5. RunsStay(s, f)
    BY <2>1, <2>4 DEF RunsStay
  <2> QED
    BY <1>8, <2>1, <2>4, <2>5, SameRunnersTransitive
<1> HIDE DEF Fine
<1>9. B = {}
  <2> SUFFICES ASSUME B # {} PROVE FALSE
    OBVIOUS
  <2>1. PICK m \in B : \A k \in B : m <= k
    <3>1. B \subseteq Nat
      BY <1>6
    <3> HIDE DEF B
    <3> QED
      BY <3>1, LeastNumber
  <2>2. m \in 0..Len(ws) /\ ~Fine(F[m])
    BY <2>1
  <2>3. m # 0
    BY <1>5, <1>7, <2>2 DEF Wakes
  <2>4. m \in 1..Len(ws) /\ m - 1 \in 0..Len(ws) /\ ~(m <= m - 1)
    BY <1>6, <2>2, <2>3
  <2>5. Fine(F[m - 1])
    BY <2>1, <2>4
  <2>6. F[m] = IF ws[m] = t THEN F[m - 1] ELSE WakeOne(F[m - 1], ws[m])
    BY <1>5, <2>2, <2>3 DEF Wakes
  <2> QED
    BY <1>6, <1>8, <2>2, <2>4, <2>5, <2>6
<1>10. Fine(n)
  BY <1>4, <1>6, <1>9
<1>11. ws = <<>> => n = s
  BY <1>4, <1>5, <1>6 DEF Wakes
<1> QED
  BY <1>10, <1>11 DEF Fine

-----------------------------------------------------------------------------
(* The end of a Run *)

LEMMA ContentType ==
    ASSUME NEW d \in [Ids -> Dirs], NEW t \in Ids
    PROVE  /\ Touched0(d, t) \in [Ids -> Dirs] /\ WithContent(d, t) \in [Ids -> Dirs]
           /\ \A u \in Ids : d[u].there =>
                /\ Touched0(d, t)[u].there /\ Touched0(d, t)[u].backend = d[u].backend
                /\ WithContent(d, t)[u].there /\ WithContent(d, t)[u].backend = d[u].backend
<1>1. "local" \in Backends
  BY DEF Backends
<1>2. Touched0(d, t) \in [Ids -> Dirs] /\ \A u \in Ids : d[u].there => Touched0(d, t)[u] = d[u]
  BY <1>1, OpenedType DEF Touched0
<1> DEFINE e == Touched0(d, t)
<1> HIDE DEF e
<1>3. e[t] \in Dirs /\ [e[t] EXCEPT !.content = TRUE] \in Dirs
  BY <1>2 DEF Dirs, e
<1>4. WithContent(d, t) = [e EXCEPT ![t].content = TRUE]
  BY DEF WithContent, e
<1> QED
  BY <1>2, <1>3, <1>4 DEF Dirs, e

LEMMA LeftKeeps ==
    ASSUME TableInv(Tables), NEW t \in Ids, HasTurn(t), NEW outcome, NEW n, n = RunGone(t, outcome)
    PROVE  /\ TableInvBut(n, turns[t].object, t) /\ n.objects = objects /\ n.turns[t] = NoTurn
           /\ \A u \in Ids : u # t => n.turns[u] = turns[u]
           /\ n.parked = <<>> /\ n.legacy = legacy /\ n.waiting = waiting /\ n.last = last
           /\ n.disk = IF outcome = "failed" THEN Touched0(disk, t) ELSE WithContent(disk, t)
<1>1. Tables \in TableType /\ TableOwned(Tables) /\ QueuesBounded(Tables) /\ RunnersSound(objects)
  BY DEF TableInv, TableInvBut, Tables
<1>2. /\ disk \in [Ids -> Dirs] /\ objects \in [Objects -> RunnerObjects]
      /\ turns \in [Ids -> TaskStates] /\ legacy \in Ids \cup {NoThreadId}
      /\ last \in [Ids -> Objects \cup {NoObject}] /\ waiting \in [Ids -> Seq(BOOLEAN)]
  BY <1>1 DEF TableType, Tables
<1>3. NoTurn \in TaskStates /\ NoTurn.pc = "none" /\ NoTurn.object = NoObject /\ ~NoTurn.holds
  BY DEF NoTurn, TaskStates
<1>4. /\ n.turns = [turns EXCEPT ![t] = NoTurn] /\ n.objects = objects /\ n.parked = <<>>
      /\ n.legacy = legacy /\ n.waiting = waiting /\ n.last = last
      /\ n.disk = IF outcome = "failed" THEN Touched0(disk, t) ELSE WithContent(disk, t)
  BY DEF RunGone, Tables
<1>5. n = [disk |-> n.disk, objects |-> n.objects, turns |-> n.turns, legacy |-> n.legacy,
           last |-> n.last, waiting |-> n.waiting, parked |-> n.parked]
  BY DEF RunGone, Tables
<1>6. n.disk \in [Ids -> Dirs]
  <2>1. Touched0(disk, t) \in [Ids -> Dirs] /\ WithContent(disk, t) \in [Ids -> Dirs]
    BY <1>2, ContentType
  <2> QED
    BY <1>4, <2>1
<1>7. n \in TableType
  <2>1. n.turns \in [Ids -> TaskStates] /\ n.parked \in Seq(Ids)
    BY <1>2, <1>3, <1>4, EmptySeq
  <2> QED
    BY <1>2, <1>4, <1>5, <1>6, <2>1 DEF TableType
<1>8. n.turns[t] = NoTurn /\ \A u \in Ids : u # t => n.turns[u] = turns[u]
  BY <1>2, <1>4
<1>9. TableOwned(n)
  BY <1>1, <1>3, <1>4, <1>8 DEF TableOwned, Tables
<1>10. QueuesBounded(n) /\ RunnersSound(n.objects)
  BY <1>1, <1>4 DEF QueuesBounded, Tables
<1>11. ASSUME NEW y \in Objects, y # turns[t].object PROVE ModeRight(n, y)
  <2>1. ModeRight(Tables, y)
    BY Names DEF TableInv, TableInvBut
  <2>2. \A u \in Ids : (Drives(n, u, y) <=> Drives(Tables, u, y)) /\ (Drives(n, u, y) => n.turns[u] = turns[u])
    BY <1>3, <1>8, <1>11 DEF Drives, Tables
  <2> QED
    BY <1>4, <2>1, <2>2 DEF ModeRight, Tables
<1>12. n.legacy \notin {NoThreadId, t} => n.turns[n.legacy].pc = "running"
  BY <1>2, <1>4, <1>8 DEF TableInv, TableInvBut, Tables
<1> QED
  BY <1>4, <1>7, <1>8, <1>9, <1>10, <1>11, <1>12 DEF TableInvBut

LEMMA ClearedKeeps ==
    ASSUME NEW s, NEW x \in Objects, NEW t \in Ids, TableInvBut(s, x, t), Serves(s.objects, x, t), s.turns[t] = NoTurn,
           activeId \in Ids \cup {NoThreadId}, NEW n, n = Cleared(s, x, t)
    PROVE  /\ TableInv(n) /\ SameRunners(s.objects, n.objects) /\ n.turns = s.turns
           /\ n.disk = s.disk /\ n.waiting = s.waiting /\ n.parked = s.parked
           /\ n.legacy = IF s.legacy = t \/ t = activeId THEN NoThreadId ELSE s.legacy
<1>1. s \in TableType /\ TableOwned(s) /\ QueuesBounded(s) /\ RunnersSound(s.objects)
  BY DEF TableInvBut
<1>2. /\ n.turns = s.turns /\ n.objects = ModeSet(s.objects, x, TRUE) /\ n.parked = s.parked
      /\ n.waiting = s.waiting /\ n.last = s.last /\ n.disk = s.disk
      /\ n.legacy = IF s.legacy = t \/ t = activeId THEN NoThreadId ELSE s.legacy
  BY <1>1 DEF Cleared, RestoredMode, InMode, ModeSet, TableType
<1>3. n = [f \in DOMAIN s |-> n[f]]
  BY <1>1 DEF Cleared, RestoredMode, InMode, TableType
<1>4. /\ n.objects \in [Objects -> RunnerObjects] /\ n.objects[x].writes
      /\ \A y \in Objects : y # x => n.objects[y] = s.objects[y]
      /\ SameRunners(s.objects, n.objects)
  <2>1. s.objects \in [Objects -> RunnerObjects]
    BY <1>1 DEF TableType
  <2> DEFINE o == ModeSet(s.objects, x, TRUE)
  <2>2. /\ o \in [Objects -> RunnerObjects] /\ o[x].writes = TRUE /\ \A y \in Objects : y # x => o[y] = s.objects[y]
        /\ SameRunners(s.objects, o)
    BY <2>1, ModeSetType, Zenon
  <2>3. n.objects = o
    BY <1>2
  <2> HIDE DEF o
  <2> QED
    BY <2>2, <2>3
<1>5. n.legacy \in Ids \cup {NoThreadId}
  BY <1>1, <1>2 DEF TableType
<1>6. n \in TableType
  BY <1>1, <1>2, <1>3, <1>4, <1>5 DEF TableType
<1>7. TableOwned(n)
  <2>1. \A y \in Objects : \A u : Serves(s.objects, y, u) => Serves(n.objects, y, u)
    BY <1>4, SameRunnersServe
  <2>2. \A u \in Ids : s.last[u] \in Objects \cup {NoObject} /\ s.turns[u].object \in Objects \cup {NoObject}
    BY <1>1 DEF TableType, TaskStates
  <2> QED
    BY <1>1, <1>2, <2>1, <2>2 DEF TableOwned
<1>8. QueuesBounded(n) /\ RunnersSound(n.objects)
  <2>1. QueuesBounded(n)
    BY <1>1, <1>2 DEF QueuesBounded
  <2>2. RunnersSound(n.objects)
    BY <1>1, <1>4 DEF RunnersSound, SameRunners
  <2> QED
    BY <2>1, <2>2
<1>9. ASSUME NEW y \in Objects PROVE ModeRight(n, y)
  <2>0. n.turns = s.turns
    BY <1>2
  <2>1. CASE y # x
    <3>1. ModeRight(s, y)
      BY <2>1 DEF TableInvBut
    <3> QED
      BY <1>4, <2>0, <2>1, <3>1 DEF ModeRight, Drives
  <2>2. CASE y = x
    <3>1. \A u \in Ids : ~Drives(n, u, x)
      BY <1>1, <1>2, Names DEF Drives, TableOwned, Serves, NoTurn
    <3> QED
      BY <1>4, <2>2, <3>1 DEF ModeRight
  <2> QED
    BY <2>1, <2>2
<1>10. n.legacy # NoThreadId => n.turns[n.legacy].pc = "running"
  BY <1>2 DEF TableInvBut
<1> QED
  BY <1>2, <1>4, <1>6, <1>7, <1>8, <1>9, <1>10 DEF TableInv, TableInvBut

\* The end of a Run keeps the tables sound and disturbs no other Run.
LEMMA TurnOverKeeps ==
    ASSUME TableInv(Tables), RegistryServes(objects), NEW t \in Ids, HasTurn(t), NEW outcome, NEW n, n = TurnOver(t, outcome)
    PROVE  /\ TableInv(n) /\ SameRunners(objects, n.objects)
           /\ \A u \in Ids : u # t /\ turns[u].pc # "none" => n.turns[u] = turns[u]
<1> DEFINE x == turns[t].object
           gone == RunGone(t, outcome)
           woken == Woken(gone, parked, t)
           over == Cleared(woken, x, t)
<1>1. x \in Objects /\ Serves(objects, x, t) /\ parked \in Seq(Ids)
  BY DEF TableInv, TableInvBut, TableType, TableOwned, Tables, HasTurn, TaskStates
<1>2. n = IF outcome = "failed" THEN over ELSE AutoStartNext(over, t, x)
  BY DEF TurnOver
<1>3. /\ TableInvBut(gone, x, t) /\ gone.objects = objects /\ gone.turns[t] = NoTurn
      /\ \A u \in Ids : u # t => gone.turns[u] = turns[u]
  BY LeftKeeps
<1> HIDE DEF gone, x
<1>4. /\ TableInvBut(woken, x, t) /\ SameRunners(gone.objects, woken.objects) /\ RunsStay(gone, woken)
      /\ woken.turns[t] = gone.turns[t]
  BY <1>1, <1>3, WokenKeeps
<1> HIDE DEF woken
<1>5. Serves(woken.objects, x, t) /\ activeId \in Ids \cup {NoThreadId}
  BY <1>1, <1>3, <1>4, SameRunnersServe DEF RegistryServes
<1>6. TableInv(over) /\ SameRunners(woken.objects, over.objects) /\ over.turns = woken.turns
  BY <1>1, <1>3, <1>4, <1>5, ClearedKeeps
<1> HIDE DEF over
<1>7. SameRunners(objects, over.objects)
  BY <1>3, <1>4, <1>6, SameRunnersTransitive
<1>8. Serves(over.objects, x, t)
  BY <1>1, <1>7, SameRunnersServe
<1>9. \A u \in Ids : u # t /\ turns[u].pc # "none" => over.turns[u] = turns[u]
  BY <1>3, <1>4, <1>6 DEF RunsStay
<1>10. CASE outcome = "failed"
  BY <1>2, <1>6, <1>7, <1>9, <1>10
<1>11. CASE outcome # "failed"
  <2>1. n = AutoStartNext(over, t, x) /\ x # NoObject
    BY <1>1, <1>2, <1>11, Names
  <2>2. /\ TableInvBut(n, NoObject, NoThreadId) /\ SameRunners(over.objects, n.objects) /\ RunsStay(over, n)
        /\ \A u \in Ids : u # t => n.turns[u] = over.turns[u]
    BY <1>1, <1>5, <1>6, <1>8, <2>1, AutoKeeps DEF TableInv
  <2> QED
    BY <1>7, <1>9, <2>2, SameRunnersTransitive DEF TableInv
<1> QED
  BY <1>10, <1>11

LEMMA UserBranchKeeps ==
    ASSUME NEW s, TableInv(s), NEW t \in Ids, NEW x \in Objects, Serves(s.objects, x, t), NEW w \in BOOLEAN,
           NEW act \in Ids \cup {NoThreadId}, NEW n, n = UserBranch(s, t, x, w, act)
    PROVE  TableInv(n) /\ SameRunners(s.objects, n.objects) /\ RunsStay(s, n)
<1>1. TableInvBut(s, NoObject, NoThreadId) /\ x # NoObject /\ s.turns[t] \in TaskStates
  BY Names DEF TableInv, TableInvBut, TableType
<1>2. CASE n = s
  BY <1>2 DEF SameRunners, RunsStay
<1>3. CASE n = Parked(s, t)
  BY <1>1, <1>3, ParkedKeeps DEF TableInv
<1>4. CASE s.turns[t].pc = "none" /\ s.waiting[t] # <<>> /\ n = StartTurn(s, t, x, w, act)
  BY <1>1, <1>4, StartKeeps DEF TableInv
<1> QED
  BY <1>2, <1>3, <1>4 DEF UserBranch

LEMMA EnqueueKeeps ==
    ASSUME NEW s, TableInv(s), NEW t \in Ids, NEW w \in BOOLEAN, Len(s.waiting[t]) < MaxWaiting, NEW n,
           n \in {Enqueue(s, t, w), Queued(s, t, w)}
    PROVE  /\ TableInv(n) /\ n.objects = s.objects /\ n.turns = s.turns /\ n.legacy = s.legacy /\ n.parked = s.parked
           /\ \A u \in Ids : s.disk[u].there => n.disk[u].there /\ n.disk[u].backend = s.disk[u].backend
<1>1. s \in TableType /\ TableOwned(s) /\ QueuesBounded(s) /\ RunnersSound(s.objects)
  BY DEF TableInv, TableInvBut
<1>2. /\ n.turns = s.turns /\ n.objects = s.objects /\ n.parked = s.parked /\ n.legacy = s.legacy /\ n.last = s.last
      /\ n.disk = s.disk \/ n.disk = Touched0(s.disk, t)
      /\ n.waiting = [s.waiting EXCEPT ![t] = Append(@, w)]
  BY <1>1 DEF Enqueue, Queued, TableType
<1>3. n = [f \in DOMAIN s |-> n[f]]
  BY <1>1 DEF Enqueue, Queued, TableType
<1>4. s.waiting \in [Ids -> Seq(BOOLEAN)] /\ s.waiting[t] \in Seq(BOOLEAN) /\ s.disk \in [Ids -> Dirs]
  BY <1>1 DEF TableType
<1>5. Append(s.waiting[t], w) \in Seq(BOOLEAN) /\ Len(Append(s.waiting[t], w)) = Len(s.waiting[t]) + 1 /\ Len(s.waiting[t]) \in Nat
  BY <1>4, AppendProperties, LenProperties
<1>6. n.disk \in [Ids -> Dirs] /\ \A u \in Ids : s.disk[u].there => n.disk[u].there /\ n.disk[u].backend = s.disk[u].backend
  <2>1. /\ Touched0(s.disk, t) \in [Ids -> Dirs]
        /\ \A u \in Ids : s.disk[u].there =>
             Touched0(s.disk, t)[u].there /\ Touched0(s.disk, t)[u].backend = s.disk[u].backend
    BY <1>4, ContentType
  <2>2. n.disk = s.disk \/ n.disk = Touched0(s.disk, t)
    BY <1>2
  <2> QED
    BY <1>4, <2>1, <2>2
<1> DEFINE q == Append(s.waiting[t], w)
<1>7. n.waiting = [s.waiting EXCEPT ![t] = q]
  BY <1>2
<1> HIDE DEF q
<1>8. n.waiting \in [Ids -> Seq(BOOLEAN)] /\ n.waiting[t] = q /\ \A u \in Ids : u # t => n.waiting[u] = s.waiting[u]
  BY <1>4, <1>5, <1>7 DEF q
<1>9. n \in TableType
  BY <1>1, <1>2, <1>3, <1>6, <1>8 DEF TableType
<1>10. Len(q) <= MaxWaiting
  BY <1>5, CommandConstants DEF q
<1>11. QueuesBounded(n)
  BY <1>1, <1>8, <1>10 DEF QueuesBounded
<1> QED
  BY <1>1, <1>2, <1>6, <1>9, <1>11 DEF TableInv, TableInvBut, TableOwned, ModeRight, Drives

-----------------------------------------------------------------------------
(* One conversation at a time *)

LEMMA StartPlain ==
    ASSUME NEW s \in TableType, NEW t \in Ids, NEW x \in Objects, NEW h \in BOOLEAN, NEW reg, NEW up, s.waiting[t] # <<>>,
           PlainTables(s, x, t, reg, up), NEW n, n = StartTurn(s, t, x, h, t)
    PROVE  PlainTables(n, x, t, reg, up)
<1>1. StartFacts(s, n, t, x, h, t)
  BY StartTurnFields
<1> DEFINE w == Head(s.waiting[t])
           r == NewTurn(x, h, w)
<1>2. /\ n.turns = [s.turns EXCEPT ![t] = r] /\ n.legacy = t /\ n.disk = Touched0(s.disk, t) /\ n.parked = s.parked
      /\ n.objects = ModeSet(s.objects, x, w) /\ w \in BOOLEAN
  BY <1>1 DEF StartFacts
<1>3. r.pc = "running" /\ r.object = x
  BY DEF NewTurn
<1> HIDE DEF w, r
<1>4. s.objects \in [Objects -> RunnerObjects] /\ s.turns \in [Ids -> TaskStates] /\ s.disk \in [Ids -> Dirs]
  BY DEF TableType
<1>5. SameRunners(s.objects, n.objects)
  BY <1>2, <1>4, ModeSetType
<1>6. n.turns[t] = r /\ \A u \in Ids : u # t => n.turns[u] = s.turns[u]
  BY <1>2, <1>4
<1>7. \A u \in Ids : s.disk[u].there => n.disk[u].there /\ n.disk[u].backend = s.disk[u].backend
  BY <1>2, <1>4, ContentType
<1>8. x # NoObject
  BY Names
<1> QED
  BY <1>2, <1>3, <1>5, <1>6, <1>7, <1>8 DEF PlainTables, SameRunners

LEMMA NobodyHolds ==
    ASSUME NEW s, TableInv(s), NEW t \in Ids, NEW x, NEW reg, NEW up, PlainTables(s, x, t, reg, up), s.turns[t].pc = "none"
    PROVE  ~Held(s) /\ \A u \in Ids : s.turns[u].pc = "none"
BY DEF TableInv, TableInvBut, TableOwned, PlainTables, Held

LEMMA UserBranchPlain ==
    ASSUME NEW s, TableInv(s), NEW t \in Ids, NEW x \in Objects, NEW w \in BOOLEAN, NEW reg, NEW up, PlainTables(s, x, t, reg, up),
           s.turns[t].pc # "unwinding", NEW n, n = UserBranch(s, t, x, w, t)
    PROVE  PlainTables(n, x, t, reg, up) /\ (s.turns[t].pc # "running" => ~Held(s))
<1>1. s \in TableType /\ s.turns[t].pc \in {"none", "running", "unwinding"}
  BY DEF TableInv, TableInvBut, TableType, TaskStates
<1>2. CASE s.turns[t].pc = "running"
  BY <1>2 DEF UserBranch
<1>3. CASE s.turns[t].pc = "none"
  <2>1. ~Held(s)
    BY <1>3, NobodyHolds
  <2>2. n = s \/ (s.waiting[t] # <<>> /\ n = StartTurn(s, t, x, w, t))
    BY <1>3, <2>1 DEF UserBranch
  <2> QED
    BY <1>1, <2>1, <2>2, StartPlain
<1> QED
  BY <1>1, <1>2, <1>3

LEMMA TurnOverPlain ==
    ASSUME TableInv(Tables), RegistryServes(objects), NEW t \in Ids, HasTurn(t), NEW outcome, NEW n, n = TurnOver(t, outcome),
           PlainTables(Tables, current, activeId, registry, ~broken)
    PROVE  PlainTables(n, current, activeId, registry, ~broken)
<1> DEFINE x == turns[t].object
           gone == RunGone(t, outcome)
           woken == Woken(gone, parked, t)
           over == Cleared(woken, x, t)
<1>1. x \in Objects /\ Serves(objects, x, t) /\ parked \in Seq(Ids)
  BY DEF TableInv, TableInvBut, TableType, TableOwned, Tables, HasTurn, TaskStates
<1>2. n = IF outcome = "failed" THEN over ELSE AutoStartNext(over, t, x)
  BY DEF TurnOver
<1>3. t = activeId /\ x = current /\ parked = <<>>
  BY DEF PlainTables, Tables, HasTurn
<1>4. /\ TableInvBut(gone, x, t) /\ gone.objects = objects /\ gone.turns[t] = NoTurn
      /\ \A u \in Ids : u # t => gone.turns[u] = turns[u]
      /\ gone.parked = <<>> /\ gone.disk = IF outcome = "failed" THEN Touched0(disk, t) ELSE WithContent(disk, t)
  BY LeftKeeps
<1> HIDE DEF gone, x
<1>5. woken = gone
  <2>1. TableInvBut(gone, x, t) /\ gone.objects = objects
    BY <1>4
  <2>2. parked = <<>> => woken = gone
    BY <1>1, <2>1, WokenKeeps
  <2> QED
    BY <1>3, <2>2
<1> HIDE DEF woken
<1>6. /\ TableInv(over) /\ SameRunners(objects, over.objects) /\ over.turns = gone.turns
      /\ over.disk = gone.disk /\ over.parked = gone.parked
  BY <1>1, <1>3, <1>4, <1>5, ClearedKeeps
<1> HIDE DEF over
<1>7. \A u \in Ids : over.turns[u].pc = "none"
  BY <1>3, <1>4, <1>6 DEF PlainTables, Tables, NoTurn
<1>8. \A u \in Ids : disk[u].there => over.disk[u].there /\ over.disk[u].backend = disk[u].backend
  <2>1. disk \in [Ids -> Dirs]
    BY DEF TableInv, TableInvBut, TableType, Tables
  <2> QED
    BY <1>4, <1>6, <2>1, ContentType
<1>9. PlainTables(over, current, activeId, registry, ~broken)
  BY <1>1, <1>3, <1>4, <1>6, <1>7, <1>8 DEF PlainTables, Tables, SameRunners
<1>10. ~Held(over)
  BY <1>3, <1>6, <1>7, <1>9, NobodyHolds
<1>11. over \in TableType
  BY <1>6 DEF TableInv, TableInvBut
<1>12. n = over \/ (over.waiting[t] # <<>> /\ n = StartTurn(over, t, x, Head(over.waiting[t]), activeId))
  BY <1>2, <1>10 DEF AutoStartNext
<1>13. over.waiting[t] # <<>> => Head(over.waiting[t]) \in BOOLEAN
  <2>1. over.waiting[t] \in Seq(BOOLEAN)
    BY <1>11 DEF TableType
  <2> QED
    BY <2>1, HeadTailProperties
<1> QED
  BY <1>1, <1>3, <1>9, <1>11, <1>12, <1>13, StartPlain

-----------------------------------------------------------------------------
(* The steps *)

LEMMA BecomeTables ==
    ASSUME NEW s \in TableType, Become(s) PROVE Tables' = s
BY DEF Become, Tables, TableType

LEMMA CommandParts ==
    ASSUME CommandInv
    PROVE  /\ disk \in [Ids -> Dirs] /\ objects \in [Objects -> RunnerObjects]
           /\ turns \in [Ids -> TaskStates] /\ legacy \in Ids \cup {NoThreadId}
           /\ last \in [Ids -> Objects \cup {NoObject}] /\ waiting \in [Ids -> Seq(BOOLEAN)] /\ parked \in Seq(Ids)
           /\ RegistryServes(objects) /\ TableInv(Tables) /\ Tables \in TableType
           /\ RunnersSound(objects) /\ TableOwned(Tables)
<1>1. TableInv(Tables) /\ Tables \in TableType
  BY DEF CommandInv, TableInv, TableInvBut
<1> QED
  BY <1>1 DEF CommandInv, LoopTyped, LoopOwned, RegistryServes, TableType, Tables, TableInv, TableInvBut

\* A step that changes the directories only.
LEMMA DisksKeep ==
    ASSUME CommandInv, disk' \in [Ids -> Dirs], UNCHANGED <<objects, turns, legacy, last, waiting, parked>>
    PROVE  TableInv(Tables')
<1>1. Tables' = [disk |-> disk', objects |-> objects, turns |-> turns, legacy |-> legacy, last |-> last,
                 waiting |-> waiting, parked |-> parked]
  BY DEF Tables
<1>2. Tables' \in TableType
  BY <1>1, CommandParts DEF TableType
<1>3. /\ Tables'.objects = objects /\ Tables'.turns = turns /\ Tables'.legacy = legacy /\ Tables'.last = last
      /\ Tables'.waiting = waiting
  BY <1>1
<1> QED
  BY <1>2, <1>3 DEF CommandInv, TableInv, TableInvBut, TableOwned, QueuesBounded, ModeRight, Drives, Tables

LEMMA DisksPlain ==
    ASSUME NEW cur, NEW act, NEW reg, NEW up, PlainTables(Tables, cur, act, reg, up),
           up /\ cur # NoObject => disk'[act].there /\ disk'[act].backend = disk[act].backend,
           UNCHANGED <<objects, turns, legacy, parked>>
    PROVE  PlainTables(Tables', cur, act, reg, up)
BY DEF PlainTables, Tables

LEMMA ClockTicksKeeps == CommandInv /\ ClockTicks => CommandInv'
<1> SUFFICES ASSUME CommandInv, ClockTicks PROVE CommandInv'
  OBVIOUS
<1>1. UNCHANGED <<threadVars, runnerVars, turnVars, phase, stopping, commandHistory>> /\ clock' \in Threads
  BY DEF ClockTicks
<1>2. Tables' = Tables
  BY <1>1 DEF Tables, threadVars, runnerVars, turnVars
<1> QED
  BY <1>1, <1>2 DEF CommandInv, LoopTyped, LoopOwned, OpeningSound, StoppingRuns, PlainInv, FailedChoiceKept, threadVars, runnerVars, turnVars, commandHistory

LEMMA KnownIds == ASSUME NEW t \in Known PROVE t \in Ids
BY DEF Known

LEMMA MetaKeeps == ASSUME CommandInv, NEW t \in Ids, Meta(t) PROVE CommandInv'
<1>1. /\ disk' = Touched0(disk, t)
      /\ UNCHANGED <<waiting, runnerVars, turnVars, phase, stopping, clock, commandHistory>>
  BY DEF Meta
<1>2. /\ disk' \in [Ids -> Dirs]
      /\ \A u \in Ids : disk[u].there => disk'[u].there /\ disk'[u].backend = disk[u].backend
  BY <1>1, CommandParts, ContentType
<1>3. TableInv(Tables')
  BY <1>1, <1>2, DisksKeep DEF runnerVars, turnVars
<1>4. PlainInv'
  <2>1. CASE plain /\ phase # "gone"
    <3>1. PlainTables(Tables, current, activeId, registry, ~broken)
      BY <2>1 DEF CommandInv, PlainInv
    <3>2. ~broken /\ current # NoObject => activeId \in Ids /\ disk[activeId].there
      BY <3>1 DEF CommandInv, LoopOwned, LoopTyped, PlainTables, Tables
    <3>3. PlainTables(Tables', current, activeId, registry, ~broken)
      BY <1>1, <1>2, <3>1, <3>2, DisksPlain DEF runnerVars, turnVars
    <3> QED
      BY <1>1, <2>1, <3>3 DEF PlainInv, runnerVars, turnVars, commandHistory
  <2> QED
    BY <1>1, <2>1 DEF CommandInv, PlainInv, runnerVars, turnVars, commandHistory
<1> QED
  BY <1>1, <1>3, <1>4 DEF CommandInv, LoopTyped, LoopOwned, OpeningSound, StoppingRuns, FailedChoiceKept,
    runnerVars, turnVars, commandHistory, Tables

LEMMA TurnSavesKeeps == ASSUME CommandInv, NEW t \in Ids, TurnSaves(t) PROVE CommandInv'
<1>1. /\ disk' = [disk EXCEPT ![t].content = TRUE]
      /\ UNCHANGED <<waiting, runnerVars, turnVars, loopVars, commandHistory>>
  BY DEF TurnSaves
<1>2. /\ disk' \in [Ids -> Dirs]
      /\ \A u \in Ids : disk[u].there => disk'[u].there /\ disk'[u].backend = disk[u].backend
  <2>1. disk \in [Ids -> Dirs] /\ disk[t] \in Dirs
    BY CommandParts
  <2>2. [disk[t] EXCEPT !.content = TRUE] \in Dirs
    BY <2>1 DEF Dirs
  <2> QED
    BY <1>1, <2>1, <2>2 DEF Dirs
<1>3. TableInv(Tables')
  BY <1>1, <1>2, DisksKeep DEF runnerVars, turnVars
<1>4. PlainInv'
  <2>1. CASE plain /\ phase # "gone"
    <3>1. PlainTables(Tables, current, activeId, registry, ~broken)
      BY <2>1 DEF CommandInv, PlainInv
    <3>2. ~broken /\ current # NoObject => activeId \in Ids /\ disk[activeId].there
      BY <3>1 DEF CommandInv, LoopOwned, LoopTyped, PlainTables, Tables
    <3>3. PlainTables(Tables', current, activeId, registry, ~broken)
      BY <1>1, <1>2, <3>1, <3>2, DisksPlain DEF runnerVars, turnVars
    <3> QED
      BY <1>1, <2>1, <3>3 DEF PlainInv, runnerVars, turnVars, commandHistory, loopVars
  <2> QED
    BY <1>1, <2>1 DEF CommandInv, PlainInv, runnerVars, turnVars, commandHistory, loopVars
<1> QED
  BY <1>1, <1>3, <1>4 DEF CommandInv, LoopTyped, LoopOwned, OpeningSound, StoppingRuns, FailedChoiceKept,
    runnerVars, turnVars, commandHistory, Tables, loopVars

LEMMA ResumeKeeps == ASSUME CommandInv, NEW t \in Ids, Resume(t) PROVE CommandInv'
<1> DEFINE kept == IF current # NoObject /\ activeId \notin {NoThreadId, t}
                   THEN [registry EXCEPT ![activeId] = current] ELSE registry
<1>1. /\ opening = NoOpening /\ phase = "ready" /\ current' = kept[t] /\ registry' = [kept EXCEPT ![t] = NoObject]
      /\ activeId' = t /\ disk' = Touched0(disk, t) /\ ~plain' /\ plain' = FALSE
      /\ UNCHANGED <<objects, pending, opening, waiting, turnVars, phase, stopping, clock, choice, failed, dropped, broken>>
  BY DEF Resume, Command, Free
<1>2. disk' \in [Ids -> Dirs]
  BY <1>1, CommandParts, ContentType
<1>3. TableInv(Tables')
  BY <1>1, <1>2, DisksKeep DEF turnVars
<1>4. /\ kept \in [Ids -> Objects \cup {NoObject}]
      /\ \A u \in Ids : kept[u] # NoObject => Serves(objects, kept[u], u)
  BY DEF CommandInv, LoopTyped, LoopOwned
<1> HIDE DEF kept
<1>5. LoopTyped' /\ LoopOwned(objects)'
  <2>1. t # NoThreadId
    BY Names
  <2>2. /\ registry' \in [Ids -> Objects \cup {NoObject}] /\ registry'[t] = NoObject
        /\ \A u \in Ids : u # t => registry'[u] = kept[u]
    BY <1>1, <1>4
  <2>3. LoopTyped'
    BY <1>1, <1>4, <2>2 DEF CommandInv, LoopTyped
  <2>4. LoopOwned(objects)'
    BY <1>1, <1>4, <2>1, <2>2 DEF LoopOwned
  <2> QED
    BY <2>3, <2>4
<1>6. OpeningSound'
  BY <1>1 DEF CommandInv, OpeningSound, FailedChoiceKept, NoOpening
<1>7. StoppingRuns(Tables)' /\ PlainInv'
  BY <1>1 DEF CommandInv, StoppingRuns, PlainInv, turnVars, Tables
<1> QED
  BY <1>3, <1>5, <1>6, <1>7 DEF CommandInv

LEMMA ClosedType ==
    ASSUME NEW obs \in [Objects -> RunnerObjects], NEW x \in Objects \cup {NoObject}, NEW n, n = ClosedRunner(obs, x)
    PROVE  /\ n \in [Objects -> RunnerObjects]
           /\ \A y \in Objects : /\ n[y].thread = obs[y].thread /\ n[y].asked = obs[y].asked /\ n[y].backend = obs[y].backend
                                 /\ n[y].writes = obs[y].writes /\ (y # x => n[y] = obs[y])
                                 /\ y = x => n[y].state = "closed" /\ (obs[y].closes = 0 => n[y].closes = 1)
           /\ \A y \in Objects : \A u : Serves(obs, y, u) => Serves(n, y, u)
           /\ RunnersSound(obs) => RunnersSound(n)
<1>1. CASE x = NoObject
  BY <1>1, Names DEF ClosedRunner
<1>2. CASE x # NoObject
  <2>1. x \in Objects /\ obs[x] \in RunnerObjects
    BY <1>2
  <2> DEFINE k == IF obs[x].closes < 2 THEN obs[x].closes + 1 ELSE obs[x].closes
             r == [obs[x] EXCEPT !.state = "closed", !.closes = k]
  <2>2. obs[x].closes \in 0..2
    BY <2>1 DEF RunnerObjects
  <2>3. k \in 0..2 /\ (obs[x].closes = 0 => k = 1)
    BY <2>2
  <2> HIDE DEF k
  <2>4. /\ r \in RunnerObjects /\ r.state = "closed" /\ r.closes = k /\ r.thread = obs[x].thread /\ r.asked = obs[x].asked
        /\ r.backend = obs[x].backend /\ r.writes = obs[x].writes
    BY <2>1, <2>3 DEF RunnerObjects
  <2>5. n = [obs EXCEPT ![x] = r]
    BY <1>2, <2>1 DEF ClosedRunner, k, RunnerObjects
  <2> HIDE DEF r
  <2>6. n \in [Objects -> RunnerObjects] /\ n[x] = r /\ \A y \in Objects : y # x => n[y] = obs[y]
    BY <2>1, <2>4, <2>5
  <2>7. \A y \in Objects : \A u : Serves(obs, y, u) => Serves(n, y, u)
    BY <2>4, <2>6 DEF Serves
  <2>8. RunnersSound(obs) => RunnersSound(n)
    BY <2>4, <2>6 DEF RunnersSound
  <2> QED
    BY <2>3, <2>4, <2>6, <2>7, <2>8
<1> QED
  BY <1>1, <1>2

\* A runner is closed, directories may change: the tables stay sound.
LEMMA ClosingKeeps ==
    ASSUME CommandInv, NEW x \in Objects \cup {NoObject}, objects' = ClosedRunner(objects, x), disk' \in [Ids -> Dirs],
           UNCHANGED <<turns, legacy, last, waiting, parked>>
    PROVE  TableInv(Tables') /\ \A y \in Objects : \A u : Serves(objects, y, u) => Serves(objects', y, u)
<1>1. objects \in [Objects -> RunnerObjects] /\ RunnersSound(objects)
  BY CommandParts
<1>2. /\ objects' \in [Objects -> RunnerObjects] /\ RunnersSound(objects')
      /\ \A y \in Objects : objects'[y].writes = objects[y].writes
      /\ \A y \in Objects : \A u : Serves(objects, y, u) => Serves(objects', y, u)
  BY <1>1, ClosedType
<1>3. Tables' = [disk |-> disk', objects |-> objects', turns |-> turns, legacy |-> legacy, last |-> last,
                 waiting |-> waiting, parked |-> parked]
  BY DEF Tables
<1>4. Tables' \in TableType
  BY <1>2, <1>3, CommandParts DEF TableType
<1>5. /\ Tables'.objects = objects' /\ Tables'.turns = turns /\ Tables'.legacy = legacy /\ Tables'.last = last
      /\ Tables'.waiting = waiting
  BY <1>3
<1>6. TableOwned(Tables')
  <2>1. \A u \in Ids : last[u] \in Objects \cup {NoObject} /\ turns[u].object \in Objects \cup {NoObject}
    BY CommandParts DEF TaskStates
  <2>2. TableOwned(Tables)
    BY CommandParts
  <2> QED
    BY <1>2, <1>5, <2>1, <2>2 DEF TableOwned, Tables
<1>7. \A y \in Objects : ModeRight(Tables', y)
  BY <1>2, <1>5, Names DEF CommandInv, TableInv, TableInvBut, ModeRight, Drives, Tables
<1> QED
  BY <1>2, <1>4, <1>5, <1>6, <1>7 DEF CommandInv, TableInv, TableInvBut, QueuesBounded, Tables

LEMMA CleanedType == ASSUME NEW d \in [Ids -> Dirs], NEW keep PROVE Cleaned(d, keep) \in [Ids -> Dirs]
BY DEF Cleaned, NoDirectory, Dirs, Backends

LEMMA EmptyPlain ==
    ASSUME NEW s, NEW act, NEW reg, NEW up, \A t \in Ids : s.turns[t].pc = "none" /\ reg[t] = NoObject,
           \A x \in Objects : /\ s.objects[x].state = "open" => s.objects[x].thread = NoThreadId
                              /\ s.objects[x].closes <= 1,
           s.parked = <<>>
    PROVE  PlainTables(s, NoObject, act, reg, up)
BY DEF PlainTables

\* Without a runner nobody has a Run, if the user keeps to one conversation.
LEMMA IdleRuns ==
    ASSUME CommandInv, NEW act, NEW reg, NEW up, PlainTables(Tables, current, act, reg, up)
    PROVE  /\ current = NoObject => \A t \in Ids : turns[t].pc = "none"
           /\ legacy = NoThreadId => \A t \in Ids : turns[t].pc # "running"
           /\ \A t \in Ids : turns[t].pc \in {"none", "running", "unwinding"}
<1>1. \A t \in Ids : turns[t].pc \in {"none", "running", "unwinding"}
  BY CommandParts DEF TaskStates
<1>2. \A t \in Ids : turns[t].pc # "none" => turns[t].object # NoObject
  BY CommandParts DEF TableOwned, Tables
<1> QED
  BY <1>1, <1>2, Names DEF PlainTables, Tables

\* What closing the loop's runner leaves open, if the user keeps to one conversation.
LEMMA ClosedPlain ==
    ASSUME CommandInv, NEW act, NEW reg, PlainTables(Tables, current, act, reg, ~broken), objects' = ClosedRunner(objects, current)
    PROVE  \A x \in Objects : /\ objects'[x].state = "open" => objects'[x].thread = NoThreadId
                              /\ objects'[x].closes <= 1 \/ (broken /\ x = current)
<1>1. objects \in [Objects -> RunnerObjects] /\ RunnersSound(objects) /\ current \in Objects \cup {NoObject}
  BY CommandParts DEF CommandInv, LoopTyped
<1>2. \A y \in Objects : /\ (y # current => objects'[y] = objects[y]) /\ objects'[y].thread = objects[y].thread
                         /\ y = current => objects'[y].state = "closed" /\ (objects[y].closes = 0 => objects'[y].closes = 1)
  BY <1>1, ClosedType
<1>3. \A y \in Objects : /\ objects[y].state = "open" => y = current \/ objects[y].thread = NoThreadId
                         /\ objects[y].closes <= 1
                         /\ (y = current /\ ~broken) => objects[y].state = "open"
  BY Names DEF PlainTables, Tables
<1>4. \A y \in Objects : objects'[y].state = "open" => objects'[y].thread = NoThreadId
  BY <1>2, <1>3
<1>5. \A y \in Objects : objects'[y].closes <= 1 \/ (broken /\ y = current)
  <2> TAKE y \in Objects
  <2>1. CASE y # current
    BY <1>2, <1>3, <2>1
  <2>2. CASE y = current /\ ~broken
    <3>1. objects[y].closes = 0
      BY <1>1, <1>3, <2>2 DEF RunnersSound
    <3> QED
      BY <1>2, <2>2, <3>1
  <2> QED
    BY <2>1, <2>2
<1> QED
  BY <1>4, <1>5

LEMMA DeleteKeeps == ASSUME CommandInv, NEW t \in Ids, Delete(t) PROVE CommandInv'
<1> DEFINE mine == current # NoObject /\ objects[current].thread = t
           x == IF mine THEN current ELSE NoObject
<1>1. /\ opening = NoOpening /\ phase = "ready" /\ disk' = [disk EXCEPT ![t].deleted = TRUE]
      /\ objects' = (IF mine THEN ClosedRunner(objects, current) ELSE objects)
      /\ current' = (IF mine THEN NoObject ELSE current)
      /\ activeId' = (IF activeId = t THEN NoThreadId ELSE activeId)
      /\ plain' = (plain /\ ~HasTurn(t))
      /\ UNCHANGED <<registry, pending, opening, waiting, turnVars, phase, stopping, clock, choice, failed, dropped, broken>>
  BY DEF Delete, Command, Free
<1>2. objects' = ClosedRunner(objects, x) /\ x \in Objects \cup {NoObject}
  BY <1>1 DEF ClosedRunner, CommandInv, LoopTyped
<1>3. /\ disk' \in [Ids -> Dirs] /\ \A u \in Ids : u # t => disk'[u] = disk[u]
  <2>1. disk \in [Ids -> Dirs] /\ disk[t] \in Dirs
    BY CommandParts
  <2>2. [disk[t] EXCEPT !.deleted = TRUE] \in Dirs
    BY <2>1 DEF Dirs
  <2> QED
    BY <1>1, <2>1, <2>2
<1>4. TableInv(Tables') /\ \A y \in Objects : \A u : Serves(objects, y, u) => Serves(objects', y, u)
  BY <1>1, <1>2, <1>3, ClosingKeeps DEF turnVars
<1>5. current # NoObject => current \in Objects /\ activeId # NoThreadId /\ Serves(objects, current, activeId)
  BY DEF CommandInv, LoopOwned, LoopTyped
<1>6. current # NoObject /\ ~mine => activeId # t
  BY <1>5 DEF Serves
<1>7. LoopTyped'
  BY <1>1 DEF CommandInv, LoopTyped
<1>8. LoopOwned(objects)'
  BY <1>1, <1>4, <1>5, <1>6 DEF CommandInv, LoopTyped, LoopOwned
<1>9. OpeningSound' /\ StoppingRuns(Tables)'
  BY <1>1 DEF CommandInv, OpeningSound, FailedChoiceKept, NoOpening, StoppingRuns, Tables, turnVars
<1>10. PlainInv'
  <2> SUFFICES ASSUME plain, ~HasTurn(t), phase # "gone" PROVE PlainTables(Tables', current', activeId', registry, ~broken)
    BY <1>1 DEF PlainInv
  <2>1. PlainTables(Tables, current, activeId, registry, ~broken)
    BY DEF CommandInv, PlainInv
  <2>2. CASE current = NoObject \/ mine
    <3>1. \A u \in Ids : turns[u].pc = "none" /\ registry[u] = NoObject
      <4>1. CASE current = NoObject
        <5>1. \A u \in Ids : turns[u].pc = "none"
          BY <2>1, <4>1, IdleRuns
        <5> QED
          BY <2>1, <5>1 DEF PlainTables
      <4>2. CASE current # NoObject /\ mine
        <5>1. activeId = t
          BY <1>5, <4>2 DEF Serves
        <5> QED
          BY <2>1, <5>1 DEF PlainTables, Tables, HasTurn
      <4> QED
        BY <2>2, <4>1, <4>2
    <3>2. \A y \in Objects : /\ objects'[y].state = "open" => objects'[y].thread = NoThreadId
                             /\ objects'[y].closes <= 1
      <4>1. objects' = ClosedRunner(objects, current)
        BY <1>1, <2>2 DEF ClosedRunner
      <4>2. ~broken
        BY <1>1 DEF CommandInv, StoppingRuns
      <4> QED
        BY <2>1, <4>1, <4>2, ClosedPlain
    <3>3. current' = NoObject
      BY <1>1, <2>2
    <3> QED
      BY <1>1, <2>1, <3>1, <3>2, <3>3, EmptyPlain DEF Tables, turnVars, PlainTables
  <2>3. CASE current # NoObject /\ ~mine
    <3>1. activeId # t /\ activeId \in Ids
      BY <1>5, <1>6, <2>3 DEF CommandInv, LoopTyped
    <3>2. disk'[activeId] = disk[activeId] /\ current' = current /\ activeId' = activeId /\ UNCHANGED <<objects, turns, legacy, parked>>
      BY <1>1, <1>3, <2>3, <3>1 DEF turnVars
    <3>3. PlainTables(Tables', current, activeId, registry, ~broken)
      <4>1. disk[activeId].there
        <5>1. ~broken
          BY <1>1 DEF CommandInv, StoppingRuns
        <5> QED
          BY <2>1, <2>3, <5>1 DEF PlainTables, Tables
      <4> QED
        BY <2>1, <3>2, <4>1, DisksPlain
    <3> QED
      BY <3>2, <3>3
  <2> QED
    BY <2>2, <2>3
<1> QED
  BY <1>4, <1>7, <1>8, <1>9, <1>10 DEF CommandInv

LEMMA ResetKeeps == ASSUME CommandInv, NEW b \in Backends, Reset(b) PROVE CommandInv'
<1>1. /\ opening = NoOpening /\ phase = "ready" /\ legacy = NoThreadId
      /\ objects' = ClosedRunner(objects, current) /\ current' = NoObject
      /\ disk' = (IF current # NoObject \/ activeId # NoThreadId THEN Cleaned(disk, {}) ELSE disk)
      /\ opening' = [kind |-> "reset", thread |-> clock, backend |-> b, writes |-> FALSE]
      /\ choice' = b /\ plain' = (plain /\ \A t \in Ids : turns[t].pc # "unwinding")
      /\ UNCHANGED <<activeId, registry, pending, waiting, turnVars, phase, stopping, clock, failed, dropped, broken>>
  BY DEF Reset, Command, Free, ResetAllowed, BeginOpen
<1>2. disk' \in [Ids -> Dirs]
  BY <1>1, CommandParts, CleanedType
<1>3. current \in Objects \cup {NoObject}
  BY DEF CommandInv, LoopTyped
<1>4. TableInv(Tables') /\ \A y \in Objects : \A u : Serves(objects, y, u) => Serves(objects', y, u)
  BY <1>1, <1>2, <1>3, ClosingKeeps DEF turnVars
<1>5. clock \in Ids /\ clock # NoThreadId
  BY Names DEF CommandInv, LoopTyped, Ids
<1>6. LoopTyped'
  BY <1>1, <1>5 DEF CommandInv, LoopTyped
<1>7. LoopOwned(objects)'
  BY <1>1, <1>4 DEF CommandInv, LoopTyped, LoopOwned
<1>8. OpeningSound' /\ StoppingRuns(Tables)'
  BY <1>1, <1>5 DEF CommandInv, OpeningSound, FailedChoiceKept, StoppingRuns, Tables, turnVars
<1>9. PlainInv'
  <2> SUFFICES ASSUME plain, \A t \in Ids : turns[t].pc # "unwinding" PROVE PlainTables(Tables', NoObject, activeId, registry, ~broken)
    BY <1>1 DEF PlainInv
  <2>1. PlainTables(Tables, current, activeId, registry, ~broken)
    BY <1>1 DEF CommandInv, PlainInv
  <2>2. \A u \in Ids : turns[u].pc = "none" /\ registry[u] = NoObject
    <3>1. \A u \in Ids : turns[u].pc # "running" /\ turns[u].pc \in {"none", "running", "unwinding"}
      BY <1>1, <2>1, IdleRuns
    <3> QED
      BY <2>1, <3>1 DEF PlainTables
  <2>3. \A y \in Objects : /\ objects'[y].state = "open" => objects'[y].thread = NoThreadId
                           /\ objects'[y].closes <= 1
    <3>1. ~broken
      BY <1>1 DEF CommandInv, StoppingRuns
    <3> QED
      BY <1>1, <2>1, <3>1, ClosedPlain
  <2> QED
    BY <1>1, <2>1, <2>2, <2>3, EmptyPlain DEF Tables, turnVars, PlainTables
<1> QED
  BY <1>4, <1>6, <1>7, <1>8, <1>9 DEF CommandInv

\* The loop's runner is closed and the command raises: the end of the process begins.
LEMMA BreaksKeep ==
    ASSUME CommandInv, opening = NoOpening, phase = "ready", Raises, objects' = ClosedRunner(objects, current),
           disk' \in [Ids -> Dirs], plain' \in BOOLEAN, plain' => plain
    PROVE  CommandInv'
<1>1. /\ broken' = TRUE /\ phase' = "exiting" /\ stopping' = {t \in Ids : turns[t].pc = "running"}
      /\ UNCHANGED <<current, activeId, registry, pending, opening, waiting, turnVars, clock, choice, failed, dropped>>
  BY DEF Raises
<1>2. current \in Objects \cup {NoObject} /\ ~broken
  BY DEF CommandInv, LoopTyped, StoppingRuns
<1>3. TableInv(Tables') /\ \A y \in Objects : \A u : Serves(objects, y, u) => Serves(objects', y, u)
  BY <1>1, <1>2, ClosingKeeps DEF turnVars
<1>4. LoopTyped'
  BY <1>1 DEF CommandInv, LoopTyped
<1>5. LoopOwned(objects)'
  BY <1>1, <1>3 DEF CommandInv, LoopTyped, LoopOwned
<1>6. OpeningSound' /\ StoppingRuns(Tables)'
  BY <1>1 DEF CommandInv, OpeningSound, FailedChoiceKept, NoOpening, StoppingRuns, Tables, turnVars
<1>7. PlainInv'
  <2> SUFFICES ASSUME plain PROVE PlainTables(Tables', current, activeId, registry, FALSE)
    BY <1>1 DEF PlainInv
  <2>1. PlainTables(Tables, current, activeId, registry, ~broken)
    BY DEF CommandInv, PlainInv
  <2>2. \A y \in Objects : /\ objects'[y].state = "open" => objects'[y].thread = NoThreadId
                           /\ objects'[y].closes <= 1
    BY <1>2, <2>1, ClosedPlain
  <2>3. Tables'.objects = objects' /\ Tables'.turns = turns /\ Tables'.legacy = legacy /\ Tables'.parked = parked
    BY <1>1 DEF Tables, turnVars
  <2> QED
    BY <2>1, <2>2, <2>3 DEF PlainTables, Tables
<1> QED
  BY <1>3, <1>4, <1>5, <1>6, <1>7 DEF CommandInv

LEMMA DeleteBreaksKeeps == ASSUME CommandInv, NEW t \in Ids, DeleteBreaks(t) PROVE CommandInv'
<1>1. /\ opening = NoOpening /\ phase = "ready" /\ Raises /\ disk' = [disk EXCEPT ![t].deleted = TRUE]
      /\ objects' = ClosedRunner(objects, current) /\ plain' = (plain /\ ~HasTurn(t))
  BY DEF DeleteBreaks, Command, Free
<1>2. disk' \in [Ids -> Dirs]
  <2>1. disk \in [Ids -> Dirs] /\ disk[t] \in Dirs
    BY CommandParts
  <2>2. [disk[t] EXCEPT !.deleted = TRUE] \in Dirs
    BY <2>1 DEF Dirs
  <2> QED
    BY <1>1, <2>1, <2>2
<1>3. plain' \in BOOLEAN /\ (plain' => plain)
  BY <1>1
<1> QED
  BY <1>1, <1>2, <1>3, BreaksKeep

LEMMA ResetBreaksKeeps == ASSUME CommandInv, ResetBreaks PROVE CommandInv'
<1>1. /\ opening = NoOpening /\ phase = "ready" /\ Raises
      /\ objects' = ClosedRunner(objects, current) /\ plain' = (plain /\ \A t \in Ids : turns[t].pc # "unwinding")
  BY DEF ResetBreaks, Command, Free
<1>2. disk' \in [Ids -> Dirs]
  <2>1. PICK keep \in SUBSET Ids : disk' = Cleaned(disk, keep)
    BY DEF ResetBreaks
  <2> QED
    BY <2>1, CommandParts, CleanedType
<1>3. plain' \in BOOLEAN /\ (plain' => plain)
  BY <1>1
<1> QED
  BY <1>1, <1>2, <1>3, BreaksKeep

LEMMA EnsureTargetType ==
    ASSUME CommandInv
    PROVE  /\ EnsureTarget.thread \in Ids /\ EnsureTarget.thread # NoThreadId /\ EnsureTarget.backend \in Backends
BY Names, CommandConstants DEF CommandInv, LoopTyped, EnsureTarget, Ids

LEMMA OtherCommandKeeps == CommandInv /\ OtherCommand => CommandInv'
<1> SUFFICES ASSUME CommandInv, OtherCommand PROVE CommandInv'
  OBVIOUS
<1> DEFINE e == EnsureTarget
<1>1. /\ opening = NoOpening /\ phase = "ready" /\ current = NoObject
      /\ opening' = [kind |-> "other", thread |-> e.thread, backend |-> e.backend, writes |-> FALSE]
      /\ UNCHANGED <<objects, current, activeId, registry, pending, threadVars, turnVars, phase, stopping, clock, commandHistory>>
  BY DEF OtherCommand, Command, Free, BeginOpen
<1>2. e.thread \in Ids /\ e.thread # NoThreadId /\ e.backend \in Backends
  BY EnsureTargetType
<1> HIDE DEF e
<1>3. Tables' = Tables
  BY <1>1 DEF Tables, threadVars, turnVars
<1>4. LoopTyped'
  BY <1>1, <1>2 DEF CommandInv, LoopTyped, commandHistory
<1>5. OpeningSound'
  BY <1>1, <1>2 DEF CommandInv, OpeningSound, FailedChoiceKept, commandHistory, NoOpening
<1> QED
  BY <1>1, <1>3, <1>4, <1>5 DEF CommandInv, LoopOwned, StoppingRuns, PlainInv, commandHistory

LEMMA CancelTurnKeeps == CommandInv /\ CancelTurn => CommandInv'
<1> SUFFICES ASSUME CommandInv, CancelTurn PROVE CommandInv'
  OBVIOUS
<1>1. /\ opening = NoOpening /\ phase = "ready" /\ activeId # NoThreadId /\ turns[activeId].pc = "running"
      /\ turns' = [turns EXCEPT ![activeId].pc = "unwinding"] /\ legacy' = NoThreadId
      /\ UNCHANGED <<threadVars, runnerVars, last, parked, phase, stopping, clock, commandHistory>>
  BY DEF CancelTurn, Command, Free
<1>2. activeId \in Ids /\ turns \in [Ids -> TaskStates]
  BY <1>1, CommandParts DEF CommandInv, LoopTyped
<1>3. /\ turns' \in [Ids -> TaskStates] /\ turns'[activeId].pc = "unwinding" /\ \A u \in Ids : u # activeId => turns'[u] = turns[u]
      /\ \A u \in Ids : /\ turns'[u].object = turns[u].object /\ turns'[u].writes = turns[u].writes /\ turns'[u].holds = turns[u].holds
                        /\ (turns'[u].pc # "none" <=> turns[u].pc # "none")
  <2>1. turns[activeId] \in TaskStates
    BY <1>2
  <2> DEFINE r == [turns[activeId] EXCEPT !.pc = "unwinding"]
  <2>2. /\ r \in TaskStates /\ r.pc = "unwinding" /\ r.object = turns[activeId].object /\ r.writes = turns[activeId].writes
        /\ r.holds = turns[activeId].holds
    BY <2>1 DEF TaskStates
  <2>3. turns' = [turns EXCEPT ![activeId] = r]
    BY <1>1
  <2> HIDE DEF r
  <2>4. turns' \in [Ids -> TaskStates] /\ turns'[activeId] = r /\ \A u \in Ids : u # activeId => turns'[u] = turns[u]
    BY <1>2, <2>2, <2>3
  <2> QED
    BY <1>1, <1>2, <2>2, <2>4
<1>4. Tables' = [disk |-> disk, objects |-> objects, turns |-> turns', legacy |-> NoThreadId, last |-> last,
                 waiting |-> waiting, parked |-> parked]
  BY <1>1 DEF Tables, threadVars, runnerVars
<1>5. Tables' \in TableType
  BY <1>3, <1>4, CommandParts DEF TableType
<1>6. /\ Tables'.objects = objects /\ Tables'.turns = turns' /\ Tables'.legacy = NoThreadId /\ Tables'.last = last
      /\ Tables'.waiting = waiting /\ Tables'.parked = parked /\ Tables'.disk = disk
  BY <1>4
<1>7. TableOwned(Tables')
  BY <1>3, <1>6, CommandParts DEF TableOwned, Tables
<1>8. \A y \in Objects : ModeRight(Tables', y)
  BY <1>3, <1>6, Names DEF CommandInv, TableInv, TableInvBut, ModeRight, Drives, Tables
<1>9. TableInv(Tables')
  BY <1>5, <1>6, <1>7, <1>8 DEF CommandInv, TableInv, TableInvBut, QueuesBounded, Tables
<1>10. LoopTyped' /\ LoopOwned(objects)'
  BY <1>1 DEF CommandInv, LoopTyped, LoopOwned, runnerVars, commandHistory
<1>11. OpeningSound' /\ StoppingRuns(Tables)'
  BY <1>1 DEF CommandInv, OpeningSound, FailedChoiceKept, NoOpening, StoppingRuns, runnerVars, commandHistory
<1>12. PlainInv'
  <2> SUFFICES ASSUME plain, phase # "gone" PROVE PlainTables(Tables', current, activeId, registry, ~broken)
    BY <1>1 DEF PlainInv, runnerVars, commandHistory
  <2>1. PlainTables(Tables, current, activeId, registry, ~broken)
    BY DEF CommandInv, PlainInv
  <2> QED
    BY <1>3, <1>6, <2>1 DEF PlainTables, Tables
<1> QED
  BY <1>9, <1>10, <1>11, <1>12 DEF CommandInv

LEMMA EofKeeps == CommandInv /\ Eof => CommandInv'
<1> SUFFICES ASSUME CommandInv, Eof PROVE CommandInv'
  OBVIOUS
<1>1. /\ opening = NoOpening /\ phase = "ready" /\ phase' = "exiting" /\ stopping' = {t \in Ids : turns[t].pc = "running"}
      /\ UNCHANGED <<threadVars, runnerVars, turnVars, clock, commands, commandHistory>>
  BY DEF Eof, Free
<1>2. Tables' = Tables
  BY <1>1 DEF Tables, threadVars, runnerVars, turnVars
<1>3. StoppingRuns(Tables)'
  BY <1>1, <1>2 DEF StoppingRuns, Tables
<1>4. LoopTyped'
  BY <1>1 DEF CommandInv, LoopTyped, runnerVars, commandHistory
<1> QED
  BY <1>1, <1>2, <1>3, <1>4 DEF CommandInv, LoopOwned, OpeningSound, PlainInv, FailedChoiceKept, NoOpening, runnerVars, commandHistory

LEMMA ExitClosesKeeps == CommandInv /\ ExitCloses => CommandInv'
<1> SUFFICES ASSUME CommandInv, ExitCloses PROVE CommandInv'
  OBVIOUS
<1>1. /\ phase = "closing" /\ phase' = "gone" /\ objects' = ClosedAtExit
      /\ \E keep \in {{}, {activeId}} : disk' = IF current = NoObject THEN disk ELSE Cleaned(disk, keep)
      /\ UNCHANGED <<waiting, current, activeId, registry, pending, opening, turnVars, stopping, clock, commands, commandHistory>>
  BY DEF ExitCloses
<1>2. disk' \in [Ids -> Dirs]
  <2>1. disk \in [Ids -> Dirs]
    BY CommandParts
  <2>2. Cleaned(disk, {}) \in [Ids -> Dirs] /\ Cleaned(disk, {activeId}) \in [Ids -> Dirs]
    BY <2>1, CleanedType
  <2> QED
    BY <1>1, <2>1, <2>2
<1>3. objects \in [Objects -> RunnerObjects] /\ RunnersSound(objects) /\ current \in Objects \cup {NoObject}
  BY CommandParts DEF CommandInv, LoopTyped
<1> DEFINE first == ClosedRunner(objects, current)
<1>4. /\ first \in [Objects -> RunnerObjects] /\ RunnersSound(first)
      /\ \A y \in Objects : /\ first[y].thread = objects[y].thread /\ first[y].writes = objects[y].writes
      /\ \A y \in Objects : \A u : Serves(objects, y, u) => Serves(first, y, u)
  BY <1>3, ClosedType
<1>5. objects' = [x \in Objects |-> IF \E t \in Ids : registry[t] = x THEN ClosedRunner(first, x)[x] ELSE first[x]]
  BY <1>1 DEF ClosedAtExit
<1> HIDE DEF first
<1>6. \A x \in Objects : LET n == ClosedRunner(first, x)
                         IN  /\ n[x] \in RunnerObjects /\ n[x].thread = first[x].thread /\ n[x].writes = first[x].writes
                             /\ n[x].state = "closed"
  <2> TAKE x \in Objects
  <2> DEFINE n == ClosedRunner(first, x)
  <2>1. /\ n \in [Objects -> RunnerObjects] /\ n[x].thread = first[x].thread /\ n[x].writes = first[x].writes
        /\ n[x].state = "closed"
    BY <1>4, ClosedType
  <2> QED
    BY <2>1
<1>7. \A x \in Objects : /\ objects'[x] \in RunnerObjects /\ objects'[x].thread = objects[x].thread
                         /\ objects'[x].writes = objects[x].writes
                         /\ objects'[x].state = "closed" \/ objects'[x] = first[x]
  BY <1>4, <1>5, <1>6
<1>8. objects' \in [Objects -> RunnerObjects]
  BY <1>5, <1>7
<1>9. RunnersSound(objects') /\ \A y \in Objects : \A u : Serves(objects, y, u) => Serves(objects', y, u)
  BY <1>4, <1>7 DEF RunnersSound, Serves
<1>10. Tables' = [disk |-> disk', objects |-> objects', turns |-> turns, legacy |-> legacy, last |-> last,
                 waiting |-> waiting, parked |-> parked]
  BY <1>1 DEF Tables, turnVars
<1>11. Tables' \in TableType
  BY <1>2, <1>8, <1>10, CommandParts DEF TableType
<1>12. /\ Tables'.objects = objects' /\ Tables'.turns = turns /\ Tables'.legacy = legacy /\ Tables'.last = last
       /\ Tables'.waiting = waiting
  BY <1>10
<1>13. TableOwned(Tables')
  <2>1. \A u \in Ids : last[u] \in Objects \cup {NoObject} /\ turns[u].object \in Objects \cup {NoObject}
    BY CommandParts DEF TaskStates
  <2>2. TableOwned(Tables)
    BY CommandParts
  <2> QED
    BY <1>9, <1>12, <2>1, <2>2 DEF TableOwned, Tables
<1>14. \A y \in Objects : ModeRight(Tables', y)
  BY <1>7, <1>12, Names DEF CommandInv, TableInv, TableInvBut, ModeRight, Drives, Tables
<1>15. TableInv(Tables')
  BY <1>9, <1>11, <1>12, <1>13, <1>14 DEF CommandInv, TableInv, TableInvBut, QueuesBounded, Tables
<1>16. LoopTyped' /\ LoopOwned(objects)'
  <2>1. LoopTyped'
    BY <1>1 DEF CommandInv, LoopTyped, commandHistory
  <2>2. LoopOwned(objects)'
    BY <1>1, <1>9 DEF CommandInv, LoopTyped, LoopOwned
  <2> QED
    BY <2>1, <2>2
<1>17. OpeningSound' /\ StoppingRuns(Tables)'
  BY <1>1 DEF CommandInv, OpeningSound, FailedChoiceKept, StoppingRuns, commandHistory, turnVars, Tables
<1>18. PlainInv'
  <2> SUFFICES ASSUME plain PROVE \A x \in Objects : /\ objects'[x].state = "open" => objects'[x].thread = NoThreadId
                                                     /\ objects'[x].closes <= 1 \/ (broken /\ x = current)
    BY <1>1 DEF PlainInv, commandHistory
  <2>1. PlainTables(Tables, current, activeId, registry, ~broken)
    BY <1>1 DEF CommandInv, PlainInv
  <2>2. \A t \in Ids : registry[t] = NoObject
    BY <2>1 DEF PlainTables
  <2>3. \A x \in Objects : objects'[x] = first[x]
    BY <1>5, <2>2, Names
  <2>4. objects' = first
    BY <1>4, <1>8, <2>3
  <2> QED
    BY <2>1, <2>4, ClosedPlain DEF first
<1> QED
  BY <1>15, <1>16, <1>17, <1>18 DEF CommandInv

LEMMA ExitBreaksKeeps == CommandInv /\ ExitBreaks => CommandInv'
<1> SUFFICES ASSUME CommandInv, ExitBreaks PROVE CommandInv'
  OBVIOUS
<1>1. /\ phase = "closing" /\ phase' = "gone" /\ objects' = ClosedRunner(objects, current)
      /\ UNCHANGED <<waiting, current, activeId, registry, pending, opening, turnVars, stopping, clock, commands, commandHistory>>
  BY DEF ExitBreaks
<1>2. disk' \in [Ids -> Dirs]
  <2>1. PICK keep \in SUBSET Ids : disk' = Cleaned(disk, keep)
    BY DEF ExitBreaks
  <2> QED
    BY <2>1, CommandParts, CleanedType
<1>3. current \in Objects \cup {NoObject}
  BY DEF CommandInv, LoopTyped
<1>4. TableInv(Tables') /\ \A y \in Objects : \A u : Serves(objects, y, u) => Serves(objects', y, u)
  BY <1>1, <1>2, <1>3, ClosingKeeps DEF turnVars
<1>5. LoopTyped' /\ LoopOwned(objects)'
  <2>1. LoopTyped'
    BY <1>1 DEF CommandInv, LoopTyped, commandHistory
  <2>2. LoopOwned(objects)'
    BY <1>1, <1>4 DEF CommandInv, LoopTyped, LoopOwned
  <2> QED
    BY <2>1, <2>2
<1>6. OpeningSound' /\ StoppingRuns(Tables)'
  BY <1>1 DEF CommandInv, OpeningSound, FailedChoiceKept, StoppingRuns, commandHistory, turnVars, Tables
<1>7. PlainInv'
  <2> SUFFICES ASSUME plain PROVE \A x \in Objects : /\ objects'[x].state = "open" => objects'[x].thread = NoThreadId
                                                     /\ objects'[x].closes <= 1 \/ (broken /\ x = current)
    BY <1>1 DEF PlainInv, commandHistory
  <2>1. PlainTables(Tables, current, activeId, registry, ~broken)
    BY <1>1 DEF CommandInv, PlainInv
  <2> QED
    BY <1>1, <2>1, ClosedPlain
<1> QED
  BY <1>4, <1>5, <1>6, <1>7 DEF CommandInv

-----------------------------------------------------------------------------
(* Inputs, and runners that come up *)

\* The input waits, or the rest of the "user" branch ran for the loop's runner.
LEMMA ServedKeeps ==
    ASSUME CommandInv, current # NoObject, opening = NoOpening, phase = "ready", NEW w \in BOOLEAN,
           NEW s, TableInv(s), s.objects = objects, s.turns = turns,
           plain => PlainTables(s, current, activeId, registry, ~broken),
           NEW r, r = UserBranch(s, activeId, current, w, activeId) \/ (turns[activeId].pc = "running" /\ r = s),
           Become(r), registry' = Kept(s, activeId, current, w), plain' = (plain /\ Waits),
           UNCHANGED <<current, activeId, pending, opening, phase, stopping, clock, choice, failed, broken>>
    PROVE  CommandInv'
<1>1. activeId \in Ids /\ current \in Objects /\ Serves(objects, current, activeId) /\ activeId # NoThreadId
  BY DEF CommandInv, LoopTyped, LoopOwned
<1>2. TableInv(r) /\ SameRunners(objects, r.objects)
  <2>1. CASE r = s
    BY <2>1 DEF SameRunners
  <2>2. CASE r = UserBranch(s, activeId, current, w, activeId)
    BY <1>1, <2>2, UserBranchKeeps
  <2> QED
    BY <2>1, <2>2
<1>3. Tables' = r /\ objects' = r.objects
  <2>1. r \in TableType
    BY <1>2 DEF TableInv, TableInvBut
  <2> QED
    BY <2>1, BecomeTables DEF Become
<1>4. registry' \in {registry, [registry EXCEPT ![activeId] = current]}
  BY DEF Kept
<1>5. RegistryServes(objects) /\ \A y \in Objects : \A u : Serves(objects, y, u) => Serves(objects', y, u)
  BY <1>2, <1>3, CommandParts, SameRunnersServe
<1>6. /\ registry' \in [Ids -> Objects \cup {NoObject}]
      /\ \A u \in Ids : registry'[u] # NoObject => Serves(objects', registry'[u], u)
  BY <1>1, <1>4, <1>5 DEF RegistryServes
<1>7. LoopOwned(objects)'
  BY <1>1, <1>5, <1>6 DEF LoopOwned
<1>8. plain' \in BOOLEAN
  BY DEF CommandInv, LoopTyped
<1>9. LoopTyped'
  BY <1>6, <1>8 DEF CommandInv, LoopTyped
<1>10. OpeningSound' /\ StoppingRuns(Tables)'
  BY DEF CommandInv, OpeningSound, FailedChoiceKept, NoOpening, StoppingRuns
<1>11. PlainInv'
  <2> SUFFICES ASSUME plain, Waits PROVE PlainTables(r, current, activeId, registry', ~broken)
    BY <1>3 DEF PlainInv
  <2>1. PlainTables(s, current, activeId, registry, ~broken) /\ s.turns[activeId].pc # "unwinding"
    BY <1>1 DEF Waits
  <2>2. CASE r = s /\ turns[activeId].pc = "running"
    <3>1. registry' = registry
      BY <2>2 DEF Kept
    <3> QED
      BY <2>1, <2>2, <3>1
  <2>3. CASE r = UserBranch(s, activeId, current, w, activeId)
    <3>1. PlainTables(r, current, activeId, registry, ~broken) /\ (s.turns[activeId].pc # "running" => ~Held(s))
      BY <1>1, <2>1, <2>3, UserBranchPlain
    <3>2. registry' = registry
      BY <3>1 DEF Kept
    <3> QED
      BY <3>1, <3>2
  <2> QED
    BY <2>2, <2>3
<1> QED
  BY <1>2, <1>3, <1>7, <1>9, <1>10, <1>11 DEF CommandInv

\* A command without a runner: the loop begins to open one.
LEMMA BeginKeeps ==
    ASSUME CommandInv, current = NoObject, opening = NoOpening, phase = "ready", NEW w \in BOOLEAN,
           NEW kind \in {"input", "user"}, BeginOpen(kind, EnsureTarget, w),
           NEW s, TableInv(s), s.objects = objects, s.turns = turns, s.legacy = legacy, s.parked = parked, Become(s),
           plain' = (plain /\ Waits),
           UNCHANGED <<current, activeId, registry, pending, phase, stopping, clock, choice, failed, broken>>
    PROVE  CommandInv'
<1> DEFINE e == EnsureTarget
<1>1. opening' = [kind |-> kind, thread |-> e.thread, backend |-> e.backend, writes |-> w]
  BY DEF BeginOpen
<1>2. e.thread \in Ids /\ e.thread # NoThreadId /\ e.backend \in Backends
  BY EnsureTargetType
<1> HIDE DEF e
<1>3. Tables' = s /\ objects' = objects
  <2>1. s \in TableType
    BY DEF TableInv, TableInvBut
  <2> QED
    BY <2>1, BecomeTables DEF Become
<1>4. LoopTyped'
  BY <1>1, <1>2 DEF CommandInv, LoopTyped
<1>5. OpeningSound' /\ StoppingRuns(Tables)'
  BY <1>1, <1>2 DEF CommandInv, OpeningSound, FailedChoiceKept, NoOpening, StoppingRuns
<1>6. LoopOwned(objects)'
  BY <1>3 DEF CommandInv, LoopOwned
<1>7. PlainInv'
  BY <1>3, Names DEF CommandInv, PlainInv, PlainTables, Tables
<1> QED
  BY <1>3, <1>4, <1>5, <1>6, <1>7 DEF CommandInv

\* An input that is queued leaves a user with one conversation where they were.
LEMMA QueuedPlain ==
    ASSUME NEW s, NEW n, NEW cur, NEW act \in Ids \cup {NoThreadId}, NEW reg, NEW up, PlainTables(s, cur, act, reg, up),
           cur # NoObject => act \in Ids, n.objects = s.objects, n.turns = s.turns, n.legacy = s.legacy, n.parked = s.parked,
           \A u \in Ids : s.disk[u].there => n.disk[u].there /\ n.disk[u].backend = s.disk[u].backend
    PROVE  PlainTables(n, cur, act, reg, up)
BY DEF PlainTables

LEMMA InputKeeps == ASSUME CommandInv, NEW w \in BOOLEAN, Input(w) PROVE CommandInv'
<1> DEFINE s == Enqueue(Tables, Receiver, w)
<1>1. /\ opening = NoOpening /\ phase = "ready" /\ Len(waiting[Receiver]) < MaxWaiting /\ plain' = (plain /\ Waits)
      /\ UNCHANGED <<current, activeId, pending, phase, stopping, clock, choice, failed, dropped, broken>>
  BY DEF Input, Command, Free
<1>2. Receiver \in Ids
  BY DEF CommandInv, LoopTyped, Receiver, Ids
<1>3. /\ TableInv(s) /\ s.objects = objects /\ s.turns = turns /\ s.legacy = legacy /\ s.parked = parked
      /\ \A u \in Ids : disk[u].there => s.disk[u].there /\ s.disk[u].backend = disk[u].backend
  <2>1. TableInv(Tables) /\ Len(Tables.waiting[Receiver]) < MaxWaiting
    BY <1>1, CommandParts DEF Tables
  <2>2. /\ TableInv(s) /\ s.objects = Tables.objects /\ s.turns = Tables.turns /\ s.legacy = Tables.legacy
        /\ s.parked = Tables.parked
        /\ \A u \in Ids : Tables.disk[u].there => s.disk[u].there /\ s.disk[u].backend = Tables.disk[u].backend
    BY <1>2, <2>1, EnqueueKeeps
  <2> QED
    BY <2>2 DEF Tables
<1>4. CASE current = NoObject
  <2>1. Become(s) /\ BeginOpen("input", EnsureTarget, w) /\ registry' = registry
    BY <1>4 DEF Input
  <2> HIDE DEF s
  <2> QED
    BY <1>1, <1>3, <1>4, <2>1, BeginKeeps
<1>5. CASE current # NoObject
  <2> DEFINE r == UserBranch(s, activeId, current, w, activeId)
  <2>1. Become(r) /\ opening' = opening /\ registry' = Kept(s, activeId, current, w)
    BY <1>5 DEF Input
  <2>2. plain => PlainTables(s, current, activeId, registry, ~broken)
    <3> SUFFICES ASSUME plain PROVE PlainTables(s, current, activeId, registry, ~broken)
      OBVIOUS
    <3>1. PlainTables(Tables, current, activeId, registry, ~broken) /\ activeId \in Ids
      BY <1>1, <1>5 DEF CommandInv, PlainInv, LoopTyped, LoopOwned
    <3> HIDE DEF s
    <3> QED
      BY <1>3, <3>1, QueuedPlain DEF Tables
  <2> HIDE DEF s
  <2> QED
    BY <1>1, <1>3, <1>5, <2>1, <2>2, ServedKeeps
<1> QED
  BY <1>4, <1>5

LEMMA UserCommandKeeps == CommandInv /\ UserCommand => CommandInv'
<1> SUFFICES ASSUME CommandInv, UserCommand PROVE CommandInv'
  OBVIOUS
<1>1. /\ opening = NoOpening /\ phase = "ready" /\ plain' = (plain /\ Waits)
      /\ UNCHANGED <<current, activeId, pending, phase, stopping, clock, choice, failed, broken>>
  BY DEF UserCommand, Command, Free
<1>2. TableInv(Tables) /\ Tables.objects = objects /\ Tables.turns = turns /\ Tables.legacy = legacy /\ Tables.parked = parked
  BY CommandParts DEF Tables
<1>3. CASE current = NoObject
  <2>1. Become(Tables) /\ BeginOpen("user", EnsureTarget, TRUE) /\ registry' = registry
    BY <1>3 DEF UserCommand
  <2> QED
    BY <1>1, <1>2, <1>3, <2>1, BeginKeeps
<1>4. CASE current # NoObject /\ turns[activeId].pc = "running"
  <2> DEFINE s == Queued(Tables, activeId, TRUE)
  <2>1. /\ Len(waiting[activeId]) < MaxWaiting /\ Become(s) /\ opening' = opening
        /\ registry' = Kept(Tables, activeId, current, TRUE)
    BY <1>2, <1>4 DEF UserCommand, UserServed
  <2>2. activeId \in Ids /\ Len(Tables.waiting[activeId]) < MaxWaiting
    BY <1>4, <2>1 DEF CommandInv, LoopTyped, LoopOwned, Tables
  <2>3. /\ TableInv(s) /\ s.objects = Tables.objects /\ s.turns = Tables.turns /\ s.legacy = Tables.legacy
        /\ s.parked = Tables.parked
        /\ \A u \in Ids : Tables.disk[u].there => s.disk[u].there /\ s.disk[u].backend = Tables.disk[u].backend
    BY <1>2, <2>2, EnqueueKeeps
  <2> HIDE DEF s
  <2>4. registry' = registry /\ Kept(s, activeId, current, TRUE) = registry
    BY <1>2, <1>4, <2>1, <2>3 DEF Kept
  <2>5. plain => PlainTables(s, current, activeId, registry, ~broken)
    <3> SUFFICES ASSUME plain PROVE PlainTables(s, current, activeId, registry, ~broken)
      OBVIOUS
    <3>1. PlainTables(Tables, current, activeId, registry, ~broken)
      BY <1>1 DEF CommandInv, PlainInv
    <3> QED
      BY <2>2, <2>3, <3>1, QueuedPlain
  <2> QED
    BY <1>1, <1>2, <1>4, <2>1, <2>3, <2>4, <2>5, ServedKeeps
<1>5. CASE current # NoObject /\ turns[activeId].pc # "running"
  <2> DEFINE r == UserBranch(Tables, activeId, current, TRUE, activeId)
  <2>1. Become(r) /\ opening' = opening /\ registry' = Kept(Tables, activeId, current, TRUE)
    BY <1>2, <1>5 DEF UserCommand, UserServed
  <2>2. plain => PlainTables(Tables, current, activeId, registry, ~broken)
    BY <1>1 DEF CommandInv, PlainInv
  <2> QED
    BY <1>1, <1>2, <1>5, <2>1, <2>2, ServedKeeps
<1> QED
  BY <1>3, <1>4, <1>5

\* Runners that were never opened are in nobody's hands.
LEMMA UnbornIdle ==
    ASSUME NEW s, TableOwned(s), NEW x \in Objects, s.objects[x].state = "unborn"
    PROVE  \A t \in Ids : ~Drives(s, t, x)
BY Names DEF TableOwned, Drives, Serves

\* A runner that comes up, and directories that change: the tables stay sound.
LEMMA FreshKeeps ==
    ASSUME CommandInv, NEW obs \in [Objects -> RunnerObjects], NEW d \in [Ids -> Dirs], RunnersSound(obs),
           \A y \in Objects : \/ obs[y] = objects[y]
                             \/ (objects[y].state = "unborn" /\ obs[y].writes),
           NEW n, n = [disk |-> d, objects |-> obs, turns |-> turns, legacy |-> legacy, last |-> last, waiting |-> waiting,
                       parked |-> parked]
    PROVE  /\ TableInv(n) /\ n.objects = obs /\ n.disk = d /\ n.turns = turns /\ n.legacy = legacy /\ n.last = last
           /\ n.waiting = waiting /\ n.parked = parked
           /\ \A y \in Objects : \A u : Serves(objects, y, u) => Serves(obs, y, u)
<1>2. n \in TableType
  BY CommandParts DEF TableType
<1>3. /\ n.objects = obs /\ n.turns = turns /\ n.legacy = legacy /\ n.last = last /\ n.waiting = waiting /\ n.parked = parked
      /\ n.disk = d
  OBVIOUS
<1>4. \A y \in Objects : \A u : Serves(objects, y, u) => Serves(obs, y, u)
  BY DEF Serves
<1>5. TableOwned(n)
  <2>1. \A u \in Ids : last[u] \in Objects \cup {NoObject} /\ turns[u].object \in Objects \cup {NoObject}
    BY CommandParts DEF TaskStates
  <2>2. TableOwned(Tables)
    BY CommandParts
  <2> QED
    BY <1>3, <1>4, <2>1, <2>2 DEF TableOwned, Tables
<1>6. \A y \in Objects : ModeRight(n, y)
  <2> TAKE y \in Objects
  <2>1. ModeRight(Tables, y)
    BY Names DEF CommandInv, TableInv, TableInvBut
  <2>2. \A u \in Ids : Drives(n, u, y) <=> Drives(Tables, u, y)
    BY <1>3 DEF Drives, Tables
  <2>3. CASE obs[y] = objects[y]
    BY <1>3, <2>1, <2>2, <2>3 DEF ModeRight, Tables
  <2>4. CASE objects[y].state = "unborn" /\ obs[y].writes
    <3>1. \A u \in Ids : ~Drives(Tables, u, y)
      <4>1. TableOwned(Tables) /\ Tables.objects[y].state = "unborn"
        BY <2>4, CommandParts DEF Tables
      <4> QED
        BY <4>1, UnbornIdle
    <3> QED
      BY <1>3, <2>2, <2>4, <3>1 DEF ModeRight
  <2> QED
    BY <2>3, <2>4
<1> QED
  BY <1>2, <1>3, <1>4, <1>5, <1>6 DEF CommandInv, TableInv, TableInvBut, QueuesBounded, Tables

\* While a sandbox opens, a user who keeps to one conversation has no Run and no open runner.
LEMMA OpeningPlain ==
    ASSUME CommandInv, opening.kind # "none", plain
    PROVE  /\ \A t \in Ids : turns[t].pc = "none" /\ registry[t] = NoObject
           /\ \A x \in Objects : (objects[x].state = "open" => objects[x].thread = NoThreadId) /\ objects[x].closes <= 1
           /\ parked = <<>>
<1>1. current = NoObject /\ phase = "ready"
  BY DEF CommandInv, OpeningSound
<1>2. PlainTables(Tables, current, activeId, registry, ~broken)
  BY <1>1 DEF CommandInv, PlainInv
<1> QED
  BY <1>1, <1>2, IdleRuns, Names DEF PlainTables, Tables

\* A command whose open failed.
LEMMA OpenFailedKeeps ==
    ASSUME CommandInv, opening.kind # "none", NEW d \in [Ids -> Dirs], OpenFailed(d), opening' = NoOpening,
           objects' \in [Objects -> RunnerObjects], RunnersSound(objects'),
           \A y \in Objects : \/ objects'[y] = objects[y]
                             \/ (objects[y].state = "unborn" /\ objects'[y].writes),
           plain' => plain /\ \A y \in Objects : objects'[y].state = "open" =>
                                 objects'[y] = objects[y] \/ objects'[y].thread = NoThreadId,
           plain' => \A y \in Objects : objects'[y].closes <= 1, plain' \in BOOLEAN,
           UNCHANGED <<current, registry, waiting, turnVars, loopVars, choice, broken>>
    PROVE  CommandInv'
<1>1. /\ current = NoObject /\ phase = "ready"
  BY DEF CommandInv, OpeningSound
<1>2. disk' \in [Ids -> Dirs]
  BY CleanedType DEF OpenFailed
<1>3. Tables' = [disk |-> disk', objects |-> objects', turns |-> turns, legacy |-> legacy, last |-> last,
                 waiting |-> waiting, parked |-> parked]
  BY DEF Tables, turnVars
<1>4. TableInv(Tables') /\ \A y \in Objects : \A u : Serves(objects, y, u) => Serves(objects', y, u)
  BY <1>2, <1>3, FreshKeeps
<1>5. /\ activeId' \in Ids \cup {NoThreadId} /\ pending' \in Backends \cup {"none"} /\ failed' \in BOOLEAN
  BY DEF OpenFailed, CommandInv, LoopTyped
<1>6. LoopTyped'
  BY <1>5 DEF CommandInv, LoopTyped, NoOpening, Backends, loopVars
<1>7. LoopOwned(objects)'
  BY <1>1, <1>4 DEF CommandInv, LoopTyped, LoopOwned
<1>8. OpeningSound'
  BY DEF CommandInv, OpeningSound, FailedChoiceKept, NoOpening, OpenFailed
<1>9. StoppingRuns(Tables)'
  BY <1>1 DEF CommandInv, StoppingRuns, loopVars
<1>10. PlainInv'
  <2> SUFFICES ASSUME plain' PROVE PlainTables(Tables', NoObject, activeId', registry, ~broken)
    BY <1>1 DEF PlainInv, loopVars
  <2>1. /\ \A t \in Ids : turns[t].pc = "none" /\ registry[t] = NoObject
        /\ \A x \in Objects : (objects'[x].state = "open" => objects'[x].thread = NoThreadId) /\ objects'[x].closes <= 1
        /\ parked = <<>>
    BY OpeningPlain
  <2>2. Tables'.turns = turns /\ Tables'.objects = objects' /\ Tables'.parked = parked
    BY DEF Tables, turnVars
  <2> QED
    BY <2>1, <2>2, EmptyPlain
<1> QED
  BY <1>4, <1>6, <1>7, <1>8, <1>9, <1>10 DEF CommandInv

LEMMA OpeningFacts ==
    ASSUME CommandInv, opening.kind # "none"
    PROVE  /\ opening.thread \in Ids /\ opening.backend \in Backends /\ opening.writes \in BOOLEAN
           /\ current = NoObject /\ phase = "ready"
BY DEF CommandInv, LoopTyped, OpeningSound

LEMMA OpenRefusedKeeps == CommandInv /\ OpenRefused => CommandInv'
<1> SUFFICES ASSUME CommandInv, OpenRefused PROVE CommandInv'
  OBVIOUS
<1>1. /\ opening.kind # "none" /\ opening' = NoOpening
      /\ UNCHANGED <<objects, current, registry, waiting, turnVars, loopVars, plain, choice, dropped, broken>>
  BY DEF OpenRefused
<1>2. PICK d \in {disk, OpenedDir(disk, opening.thread, opening.backend)} : OpenFailed(d)
  BY DEF OpenRefused
<1>3. d \in [Ids -> Dirs]
  <2>1. opening.thread \in Ids /\ opening.backend \in Backends /\ disk \in [Ids -> Dirs]
    BY <1>1, OpeningFacts, CommandParts
  <2>2. OpenedDir(disk, opening.thread, opening.backend) \in [Ids -> Dirs]
    BY <2>1, OpenedType
  <2> QED
    BY <1>2, <2>1, <2>2
<1>4. objects' = objects /\ objects \in [Objects -> RunnerObjects] /\ RunnersSound(objects) /\ plain \in BOOLEAN
  BY <1>1, CommandParts DEF CommandInv, LoopTyped
<1>5. plain => \A y \in Objects : objects[y].closes <= 1
  BY <1>1, OpeningPlain
<1>6. plain' = plain
  BY <1>1
<1> QED
  BY <1>1, <1>2, <1>3, <1>4, <1>5, <1>6, OpenFailedKeeps

\* The runner a command makes.
LEMMA CreatedType ==
    ASSUME CommandInv, opening.kind # "none", NEW b \in Backends, NEW made, made = Created(b)
    PROVE  /\ made \in RunnerObjects /\ made.state = "open" /\ made.thread = opening.thread /\ made.asked = b
           /\ made.backend = OpenedDir(disk, opening.thread, b)[opening.thread].backend
           /\ made.writes /\ made.closes = 0
<1>1. OpenedDir(disk, opening.thread, b)[opening.thread].backend \in Backends
  <2> DEFINE d == OpenedDir(disk, opening.thread, b)
  <2>1. d \in [Ids -> Dirs] /\ opening.thread \in Ids
    BY OpeningFacts, CommandParts, OpenedType
  <2> HIDE DEF d
  <2>2. d[opening.thread] \in Dirs
    BY <2>1
  <2>3. d[opening.thread].backend \in Backends
    BY <2>2 DEF Dirs
  <2> QED
    BY <2>3 DEF d
<1> QED
  BY <1>1, OpeningFacts DEF Created, RunnerObjects

LEMMA MadeTables ==
    ASSUME NEW x, NEW made, NEW t, NEW b, NEW s,
           s = [Tables EXCEPT !.objects[x] = made, !.disk = OpenedDir(@, t, b)]
    PROVE  s = [disk |-> OpenedDir(disk, t, b), objects |-> [objects EXCEPT ![x] = made], turns |-> turns, legacy |-> legacy,
                last |-> last, waiting |-> waiting, parked |-> parked]
BY DEF Tables

LEMMA OpenLeaksKeeps == CommandInv /\ OpenLeaks => CommandInv'
<1> SUFFICES ASSUME CommandInv, OpenLeaks PROVE CommandInv'
  OBVIOUS
<1> DEFINE b == opening.backend
           made == Created(b)
           lost == [made EXCEPT !.thread = NoThreadId]
           d == OpenedDir(disk, opening.thread, b)
<1>1. /\ opening.kind # "none" /\ opening' = NoOpening /\ plain' = plain /\ made.backend = b /\ OpenFailed(d)
      /\ UNCHANGED <<current, registry, waiting, turnVars, loopVars, plain, choice, dropped, broken>>
  BY DEF OpenLeaks
<1>2. PICK x \in Fresh : objects' = [objects EXCEPT ![x] = lost]
  BY DEF OpenLeaks
<1>3. made \in RunnerObjects /\ made.state = "open" /\ made.asked = b /\ made.writes /\ made.closes = 0
  BY <1>1, OpeningFacts, CreatedType
<1>4. d \in [Ids -> Dirs]
  BY <1>1, OpeningFacts, CommandParts, OpenedType
<1> HIDE DEF d, made, b
<1>5. /\ lost \in RunnerObjects /\ lost.state = "open" /\ lost.asked = b /\ lost.backend = b /\ lost.writes /\ lost.closes = 0
      /\ lost.thread = NoThreadId
  BY <1>1, <1>3 DEF RunnerObjects
<1> HIDE DEF lost
<1>6. x \in Objects /\ objects[x].state = "unborn" /\ objects \in [Objects -> RunnerObjects] /\ RunnersSound(objects)
  BY CommandParts DEF Fresh
<1>7. objects' \in [Objects -> RunnerObjects] /\ objects'[x] = lost /\ \A y \in Objects : y # x => objects'[y] = objects[y]
  BY <1>2, <1>5, <1>6
<1>8. RunnersSound(objects')
  BY <1>5, <1>6, <1>7 DEF RunnersSound
<1>9. \A y \in Objects : \/ objects'[y] = objects[y]
                        \/ (objects[y].state = "unborn" /\ objects'[y].writes)
  BY <1>5, <1>6, <1>7
<1>10. plain => \A y \in Objects : objects[y].closes <= 1
  BY <1>1, OpeningPlain
<1>11. plain' => \A y \in Objects : objects'[y].closes <= 1
  BY <1>1, <1>5, <1>7, <1>10
<1>12. \A y \in Objects : objects'[y].state = "open" => objects'[y] = objects[y] \/ objects'[y].thread = NoThreadId
  BY <1>5, <1>7
<1>13. plain' \in BOOLEAN /\ (plain' => plain)
  BY <1>1 DEF CommandInv, LoopTyped
<1> QED
  BY <1>1, <1>4, <1>7, <1>8, <1>9, <1>11, <1>12, <1>13, OpenFailedKeeps

LEMMA OpenDoneKeeps == ASSUME CommandInv, NEW there, OpenDone(there) PROVE CommandInv'
<1>1. /\ opening.kind # "none" /\ opening' = NoOpening
      /\ UNCHANGED <<loopVars, plain, choice, broken>>
  BY DEF OpenDone
<1>2. /\ opening.thread \in Ids /\ opening.backend \in Backends /\ opening.writes \in BOOLEAN
      /\ current = NoObject /\ phase = "ready"
  BY <1>1, OpeningFacts
<1> DEFINE t == opening.thread
           b == opening.backend
           made == Created(b)
           user == opening.kind \in {"input", "user"}
           S(x) == [Tables EXCEPT !.objects[x] = made, !.disk = OpenedDir(@, t, b)]
           R(x) == IF opening.kind = "input" THEN UserBranch(S(x), t, x, opening.writes, t)
                   ELSE IF opening.kind = "user" THEN UserServed(S(x), t, x, t) ELSE S(x)
<1>3. PICK x \in Fresh :
        \/ /\ Agrees(made)
           /\ (opening.kind = "user" /\ turns[t].pc = "running") => Len(waiting[t]) < MaxWaiting
           /\ Become(R(x)) /\ current' = x /\ activeId' = t
           /\ registry' = IF user THEN Kept(S(x), t, x, opening.writes) ELSE registry
           /\ pending' = IF OpensFresh THEN "none" ELSE pending
           /\ failed' = (failed /\ ~OpensFresh)
        \/ /\ ~Agrees(made)
           /\ OpenFailed(S(x).disk)
           /\ objects' = ClosedRunner(S(x).objects, x)
           /\ UNCHANGED <<current, registry, waiting, turnVars>>
  BY DEF OpenDone, Resolved
<1>4. x \in Objects /\ objects[x].state = "unborn" /\ objects \in [Objects -> RunnerObjects] /\ RunnersSound(objects)
  BY CommandParts DEF Fresh
<1> DEFINE s == S(x)
           r == R(x)
           d == OpenedDir(disk, t, b)
           obs == [objects EXCEPT ![x] = made]
<1>5. s = [disk |-> d, objects |-> obs, turns |-> turns, legacy |-> legacy, last |-> last, waiting |-> waiting,
           parked |-> parked]
  BY MadeTables
<1>6. s.disk = d /\ s.objects = obs
  BY <1>5
<1>7. /\ made \in RunnerObjects /\ made.state = "open" /\ made.thread = t /\ made.asked = b
      /\ made.backend = d[t].backend /\ made.writes /\ made.closes = 0
  BY <1>1, <1>2, CreatedType
<1>8. d \in [Ids -> Dirs] /\ d[t].there
  BY <1>2, CommandParts, OpenedType
<1> HIDE DEF made, d
<1>9. obs \in [Objects -> RunnerObjects] /\ obs[x] = made /\ \A y \in Objects : y # x => obs[y] = objects[y]
  BY <1>4, <1>7
<1>10. \A y \in Objects : \/ obs[y] = objects[y]
                         \/ (objects[y].state = "unborn" /\ obs[y].writes)
  BY <1>4, <1>7, <1>9
<1> HIDE DEF obs, S, s
<1>11. CASE Agrees(made)
  <2>1. /\ Become(r) /\ current' = x /\ activeId' = t
        /\ registry' = IF user THEN Kept(s, t, x, opening.writes) ELSE registry
        /\ pending' = IF OpensFresh THEN "none" ELSE pending
        /\ failed' = (failed /\ ~OpensFresh)
        /\ (opening.kind = "user" /\ turns[t].pc = "running") => Len(waiting[t]) < MaxWaiting
    BY <1>3, <1>11 DEF s
  <2>2. \/ user /\ \E w \in BOOLEAN : r = UserBranch(s, t, x, w, t)
        \/ ~user /\ r = s
        \/ user /\ opening.kind = "user" /\ s.turns[t].pc = "running" /\ r = Queued(s, t, TRUE)
    BY <1>2 DEF s, UserServed
  <2> HIDE DEF r, R, user
  <2>3. RunnersSound(obs)
    BY <1>4, <1>7, <1>9, <1>11 DEF RunnersSound, Agrees
  <2>4. /\ TableInv(s) /\ s.objects = obs /\ s.disk = d /\ s.turns = turns /\ s.parked = parked /\ s.waiting = waiting
        /\ \A y \in Objects : \A u : Serves(objects, y, u) => Serves(obs, y, u)
    BY <1>5, <1>8, <1>9, <1>10, <2>3, FreshKeeps
  <2>5. Serves(s.objects, x, t)
    BY <1>7, <1>9, <2>4 DEF Serves
  <2>6. TableInv(r) /\ SameRunners(s.objects, r.objects)
    <3>1. CASE \E w \in BOOLEAN : r = UserBranch(s, t, x, w, t)
      BY <1>2, <1>4, <2>4, <2>5, <3>1, UserBranchKeeps
    <3>2. CASE r = s
      BY <2>4, <3>2 DEF SameRunners
    <3>3. CASE opening.kind = "user" /\ s.turns[t].pc = "running" /\ r = Queued(s, t, TRUE)
      <4>1. Len(s.waiting[t]) < MaxWaiting
        BY <2>1, <2>4, <3>3
      <4>2. TableInv(r) /\ r.objects = s.objects
        BY <1>2, <2>4, <3>3, <4>1, EnqueueKeeps
      <4> QED
        BY <4>2 DEF SameRunners
    <3> QED
      BY <2>2, <3>1, <3>2, <3>3
  <2>7. Tables' = r /\ objects' = r.objects
    <3>1. r \in TableType
      BY <2>6 DEF TableInv, TableInvBut
    <3> QED
      BY <2>1, <3>1, BecomeTables DEF Become
  <2>8. registry' \in {registry, [registry EXCEPT ![t] = x]}
    BY <2>1 DEF Kept
  <2>9. \A y \in Objects : \A u : Serves(objects, y, u) \/ Serves(obs, y, u) => Serves(objects', y, u)
    BY <2>4, <2>6, <2>7, SameRunnersServe
  <2>10. RegistryServes(objects)
    BY CommandParts
  <2>11. /\ registry' \in [Ids -> Objects \cup {NoObject}]
         /\ \A u \in Ids : registry'[u] # NoObject => Serves(objects', registry'[u], u)
    BY <1>2, <1>4, <2>4, <2>5, <2>8, <2>9, <2>10 DEF RegistryServes
  <2>12. LoopOwned(objects)'
    BY <1>2, <1>4, <2>1, <2>4, <2>5, <2>9, <2>11, Names DEF LoopOwned
  <2>13. LoopTyped'
    BY <1>1, <1>2, <1>4, <2>1, <2>11 DEF CommandInv, LoopTyped, NoOpening, Backends, loopVars
  <2>14. OpeningSound' /\ StoppingRuns(Tables)'
    <3>1. FailedChoiceKept'
      BY <1>1, <2>1 DEF CommandInv, OpeningSound, FailedChoiceKept, OpensFresh, NoOpening
    <3> QED
      BY <1>1, <1>2, <3>1 DEF CommandInv, OpeningSound, StoppingRuns, NoOpening, loopVars
  <2>15. PlainInv'
    <3> SUFFICES ASSUME plain PROVE PlainTables(r, x, t, registry', ~broken)
      BY <1>1, <1>2, <2>1, <2>7 DEF PlainInv, loopVars
    <3>1. /\ \A u \in Ids : turns[u].pc = "none" /\ registry[u] = NoObject
          /\ \A y \in Objects : (objects[y].state = "open" => objects[y].thread = NoThreadId) /\ objects[y].closes <= 1
          /\ parked = <<>>
      BY <1>1, OpeningPlain
    <3>2. PlainTables(s, x, t, registry, ~broken)
      BY <1>4, <1>7, <1>8, <1>9, <2>4, <3>1 DEF PlainTables
    <3>3. CASE user
      <4>1. s.turns[t].pc = "none"
        BY <1>2, <2>4, <3>1
      <4>2. PlainTables(r, x, t, registry, ~broken) /\ ~Held(s)
        <5>1. \E w \in BOOLEAN : r = UserBranch(s, t, x, w, t)
          BY <2>2, <3>3, <4>1
        <5> QED
          BY <1>2, <1>4, <2>4, <3>2, <4>1, <5>1, UserBranchPlain
      <4>3. registry' = registry
        BY <2>1, <4>2 DEF Kept
      <4> QED
        BY <4>2, <4>3
    <3>4. CASE ~user
      BY <2>1, <2>2, <3>2, <3>4
    <3> QED
      BY <3>3, <3>4
  <2> QED
    BY <2>6, <2>7, <2>12, <2>13, <2>14, <2>15 DEF CommandInv
<1>12. CASE ~Agrees(made)
  <2>1. /\ OpenFailed(d) /\ objects' = ClosedRunner(obs, x) /\ UNCHANGED <<current, registry, waiting, turnVars>>
    BY <1>3, <1>6, <1>12 DEF s
  <2>2. /\ objects' \in [Objects -> RunnerObjects]
        /\ \A y \in Objects : /\ objects'[y].writes = obs[y].writes /\ (y # x => objects'[y] = obs[y])
                              /\ y = x => objects'[y].state = "closed" /\ (obs[y].closes = 0 => objects'[y].closes = 1)
    BY <1>4, <1>9, <2>1, ClosedType
  <2>3. RunnersSound(objects')
    BY <1>4, <1>9, <2>2 DEF RunnersSound
  <2>4. \A y \in Objects : \/ objects'[y] = objects[y]
                          \/ (objects[y].state = "unborn" /\ objects'[y].writes)
    BY <1>4, <1>7, <1>9, <2>2
  <2>5. plain' = plain /\ plain \in BOOLEAN
    BY <1>1 DEF CommandInv, LoopTyped
  <2>6. plain => \A y \in Objects : objects[y].closes <= 1
    BY <1>1, OpeningPlain
  <2>7. /\ plain' => plain /\ \A y \in Objects : objects'[y].state = "open" =>
                                 objects'[y] = objects[y] \/ objects'[y].thread = NoThreadId
        /\ plain' => \A y \in Objects : objects'[y].closes <= 1
    BY <1>7, <1>9, <2>2, <2>5, <2>6
  <2>8. UNCHANGED <<current, registry, waiting, turnVars, loopVars, choice, broken>>
    BY <1>1, <2>1
  <2> QED
    BY <1>1, <1>8, <2>1, <2>2, <2>3, <2>4, <2>5, <2>7, <2>8, OpenFailedKeeps
<1> QED
  BY <1>11, <1>12

-----------------------------------------------------------------------------
(* Runs that end *)

LEMMA EndKeeps ==
    ASSUME CommandInv, phase # "gone", NEW t \in Ids, HasTurn(t), NEW outcome, Become(TurnOver(t, outcome)),
           stopping' \in SUBSET (stopping \ {t}), phase' \in {"ready", "exiting", "closing"}, phase' = phase \/ (phase = "exiting" /\ phase' = "closing" /\ stopping' = {}),
           UNCHANGED <<current, activeId, registry, pending, opening, clock, commands, commandHistory>>
    PROVE  CommandInv'
<1> DEFINE n == TurnOver(t, outcome)
<1>1. TableInv(Tables) /\ RegistryServes(objects) /\ phase \in {"ready", "exiting", "closing"}
  BY CommandParts DEF CommandInv, LoopTyped
<1>2. /\ TableInv(n) /\ SameRunners(objects, n.objects)
      /\ \A u \in Ids : u # t /\ turns[u].pc # "none" => n.turns[u] = turns[u]
  BY <1>1, TurnOverKeeps
<1>3. plain => PlainTables(n, current, activeId, registry, ~broken)
  <2>1. plain => PlainTables(Tables, current, activeId, registry, ~broken)
    BY DEF CommandInv, PlainInv
  <2> QED
    BY <1>1, <2>1, TurnOverPlain
<1> HIDE DEF n
<1>4. Tables' = n /\ objects' = n.objects /\ turns' = n.turns
  <2>1. n \in TableType
    BY <1>2 DEF TableInv, TableInvBut
  <2>2. Become(n)
    BY DEF n
  <2> QED
    BY <2>1, <2>2, BecomeTables DEF Become
<1>5. \A y \in Objects : \A u : Serves(objects, y, u) => Serves(objects', y, u)
  BY <1>2, <1>4, SameRunnersServe
<1>6. LoopTyped'
  BY DEF CommandInv, LoopTyped, commandHistory
<1>7. LoopOwned(objects)'
  BY <1>5 DEF CommandInv, LoopOwned, LoopTyped
<1>8. OpeningSound'
  BY DEF CommandInv, OpeningSound, FailedChoiceKept, commandHistory
<1>9. StoppingRuns(Tables)'
  <2>1. \A u \in stopping : u \in Ids /\ turns[u].pc = "running"
    BY DEF CommandInv, LoopTyped, StoppingRuns, Tables
  <2>2. \A u \in stopping' : turns'[u].pc = "running"
    BY <1>2, <1>4, <2>1
  <2>3. stopping' # {} => phase' = "exiting"
    BY DEF CommandInv, StoppingRuns
  <2> QED
    <3>1. broken' => phase' # "ready"
      BY DEF CommandInv, StoppingRuns, commandHistory
    <3> QED
      BY <1>4, <2>2, <2>3, <3>1 DEF StoppingRuns
<1>10. PlainInv'
  BY <1>3, <1>4 DEF PlainInv, commandHistory
<1> QED
  BY <1>2, <1>4, <1>6, <1>7, <1>8, <1>9, <1>10 DEF CommandInv

LEMMA TurnEndsKeeps == ASSUME CommandInv, NEW t \in Ids, NEW o, TurnEnds(t, o) PROVE CommandInv'
<1>1. /\ phase # "gone" /\ HasTurn(t) /\ Become(TurnOver(t, o)) /\ stopping' = stopping \ {t}
      /\ UNCHANGED <<current, activeId, registry, pending, opening, phase, clock, commands, commandHistory>>
  BY DEF TurnEnds
<1>2. phase' = phase /\ phase \in {"ready", "exiting", "closing"}
  BY <1>1 DEF CommandInv, LoopTyped
<1> QED
  BY <1>1, <1>2, EndKeeps

LEMMA ExitCancelsKeeps == ASSUME CommandInv, NEW t \in Ids, ExitCancels(t) PROVE CommandInv'
<1>1. /\ phase = "exiting" /\ Become(TurnOver(t, "cancelled")) /\ stopping' = stopping \ {t} /\ phase' = phase
      /\ UNCHANGED <<current, activeId, registry, pending, opening, clock, commands, commandHistory>>
  BY DEF ExitCancels
<1>2. HasTurn(t)
  BY DEF ExitCancels, CommandInv, StoppingRuns, Tables, HasTurn
<1> QED
  BY <1>1, <1>2, EndKeeps

LEMMA ExitLegacyKeeps == CommandInv /\ ExitLegacy => CommandInv'
<1> SUFFICES ASSUME CommandInv, ExitLegacy PROVE CommandInv'
  OBVIOUS
<1>1. /\ phase = "exiting" /\ stopping = {} /\ phase' = "closing" /\ stopping' = stopping
      /\ UNCHANGED <<current, activeId, registry, pending, opening, clock, commands, commandHistory>>
  BY DEF ExitLegacy
<1>2. CASE legacy = NoThreadId
  <2>1. Become(Tables)
    BY <1>2 DEF ExitLegacy
  <2>2. Tables' = Tables /\ objects' = objects
    BY <2>1, CommandParts, BecomeTables DEF Become, Tables
  <2>3. LoopTyped'
    BY <1>1 DEF CommandInv, LoopTyped, commandHistory
  <2>4. OpeningSound' /\ StoppingRuns(Tables)' /\ PlainInv'
    BY <1>1, <2>2 DEF CommandInv, OpeningSound, FailedChoiceKept, StoppingRuns, PlainInv, commandHistory
  <2> QED
    BY <1>1, <2>2, <2>3, <2>4 DEF CommandInv, LoopOwned
<1>3. CASE legacy # NoThreadId
  <2>1. Become(TurnOver(legacy, "cancelled"))
    BY <1>3 DEF ExitLegacy
  <2>2. legacy \in Ids /\ HasTurn(legacy)
    BY <1>3, CommandParts DEF TableInv, TableInvBut, Tables, HasTurn
  <2> QED
    BY <1>1, <2>1, <2>2, EndKeeps
<1> QED
  BY <1>2, <1>3

-----------------------------------------------------------------------------
(* The command loop is sound *)

LEMMA CommandStart == CommandInit => CommandInv
<1> SUFFICES ASSUME CommandInit PROVE CommandInv
  OBVIOUS
<1>1. /\ disk = [t \in Ids |-> NoDirectory] /\ objects = [x \in Objects |-> Unborn]
      /\ registry = [t \in Ids |-> NoObject] /\ turns = [t \in Ids |-> NoTurn] /\ legacy = NoThreadId
      /\ last = [t \in Ids |-> NoObject] /\ waiting = [t \in Ids |-> <<>>] /\ parked = <<>>
      /\ current = NoObject /\ activeId = NoThreadId /\ pending = "none" /\ opening = NoOpening
      /\ phase = "ready" /\ stopping = {} /\ clock = 1 /\ plain = TRUE /\ failed = FALSE /\ broken = FALSE
  BY DEF CommandInit
<1>2. /\ NoDirectory \in Dirs /\ Unborn \in RunnerObjects /\ NoTurn \in TaskStates
      /\ Unborn.state = "unborn" /\ Unborn.closes = 0 /\ Unborn.writes
      /\ NoTurn.pc = "none" /\ NoTurn.object = NoObject /\ ~NoTurn.holds
  BY DEF NoDirectory, Dirs, Backends, Unborn, RunnerObjects, NoTurn, TaskStates
<1>3. <<>> \in Seq(BOOLEAN) /\ <<>> \in Seq(Ids) /\ Len(<<>>) = 0
  BY EmptySeq
<1>4. Tables \in TableType
  BY <1>1, <1>2, <1>3 DEF Tables, TableType
<1>5. TableOwned(Tables) /\ QueuesBounded(Tables) /\ RunnersSound(objects) /\ \A x \in Objects : ModeRight(Tables, x)
  <2>1. QueuesBounded(Tables)
    BY <1>1, <1>3, CommandConstants DEF QueuesBounded, Tables
  <2> QED
    BY <1>1, <1>2, <2>1 DEF TableOwned, RunnersSound, ModeRight, Drives, Tables
<1>6. TableInv(Tables)
  BY <1>1, <1>4, <1>5 DEF TableInv, TableInvBut, Tables
<1>7. LoopTyped
  BY <1>1, CommandConstants DEF LoopTyped, NoOpening, Backends
<1>8. LoopOwned(objects) /\ OpeningSound /\ StoppingRuns(Tables)
  BY <1>1 DEF LoopOwned, OpeningSound, NoOpening, FailedChoiceKept, StoppingRuns
<1>9. PlainInv
  BY <1>1, <1>2 DEF PlainInv, PlainTables, Tables
<1> QED
  BY <1>6, <1>7, <1>8, <1>9 DEF CommandInv

LEMMA StepCommandInv == CommandInv /\ [CommandNext]_commandVars => CommandInv'
<1> SUFFICES ASSUME CommandInv, [CommandNext]_commandVars PROVE CommandInv'
  OBVIOUS
<1>1. CASE ClockTicks
  BY <1>1, ClockTicksKeeps
<1>2. CASE \E t \in Known : Resume(t) \/ Delete(t) \/ DeleteBreaks(t) \/ Meta(t)
  BY <1>2, KnownIds, ResumeKeeps, DeleteKeeps, DeleteBreaksKeeps, MetaKeeps
<1>3. CASE ResetBreaks \/ \E b \in Backends : Reset(b)
  BY <1>3, ResetKeeps, ResetBreaksKeeps
<1>4. CASE OtherCommand
  BY <1>4, OtherCommandKeeps
<1>5. CASE CancelTurn
  BY <1>5, CancelTurnKeeps
<1>6. CASE UserCommand
  BY <1>6, UserCommandKeeps
<1>7. CASE \E w \in BOOLEAN : Input(w)
  BY <1>7, InputKeeps
<1>8. CASE OpenRefused
  BY <1>8, OpenRefusedKeeps
<1>9. CASE OpenLeaks
  BY <1>9, OpenLeaksKeeps
<1>10. CASE \E there \in BOOLEAN : OpenDone(there)
  BY <1>10, OpenDoneKeeps
<1>11. CASE \E t \in Ids : TurnSaves(t)
  BY <1>11, TurnSavesKeeps
<1>12. CASE \E t \in Ids : \E o \in {"completed", "failed", "cancelled"} : TurnEnds(t, o)
  BY <1>12, TurnEndsKeeps
<1>13. CASE Eof
  BY <1>13, EofKeeps
<1>14. CASE \E t \in Ids : ExitCancels(t)
  BY <1>14, ExitCancelsKeeps
<1>15. CASE ExitLegacy
  BY <1>15, ExitLegacyKeeps
<1>16. CASE ExitCloses \/ ExitBreaks
  BY <1>16, ExitClosesKeeps, ExitBreaksKeeps
<1>17. CASE UNCHANGED commandVars
  <2>1. UNCHANGED <<threadVars, runnerVars, turnVars, loopVars, commandHistory>>
    BY <1>17 DEF commandVars
  <2>2. Tables' = Tables
    BY <2>1 DEF Tables, threadVars, runnerVars, turnVars
  <2>3. LoopTyped' /\ LoopOwned(objects)'
    BY <2>1 DEF CommandInv, LoopTyped, LoopOwned, runnerVars, loopVars, commandHistory
  <2>4. OpeningSound' /\ StoppingRuns(Tables)' /\ PlainInv'
    BY <2>1, <2>2 DEF CommandInv, OpeningSound, FailedChoiceKept, StoppingRuns, PlainInv, runnerVars, loopVars, commandHistory
  <2> QED
    BY <2>2, <2>3, <2>4 DEF CommandInv
<1> QED
  BY <1>1, <1>2, <1>3, <1>4, <1>5, <1>6, <1>7, <1>8, <1>9, <1>10, <1>11, <1>12, <1>13, <1>14, <1>15, <1>16, <1>17 DEF CommandNext

LEMMA AtMostOne ==
    ASSUME NEW A, NEW S \in SUBSET A, \A x, y \in S : x = y PROVE Cardinality(S) <= 1
<1>1. CASE S = {}
  BY <1>1, FS_EmptySet
<1>2. CASE S # {}
  <2>1. PICK x \in S : TRUE
    BY <1>2
  <2>2. S = {x}
    BY <2>1
  <2> QED
    BY <2>2, FS_Singleton
<1> QED
  BY <1>1, <1>2

LEMMA CommandInvSound == CommandInv => CommandsSound
<1> SUFFICES ASSUME CommandInv PROVE CommandsSound
  OBVIOUS
<1>1. /\ disk \in [Ids -> Dirs] /\ objects \in [Objects -> RunnerObjects]
      /\ turns \in [Ids -> TaskStates] /\ legacy \in Ids \cup {NoThreadId}
      /\ last \in [Ids -> Objects \cup {NoObject}]
      /\ RunnersSound(objects) /\ TableOwned(Tables) /\ QueuesBounded(Tables)
  BY CommandParts DEF TableInv, TableInvBut
<1>2. CommandTypeOK
  BY <1>1 DEF CommandInv, LoopTyped, CommandTypeOK, QueuesBounded, Tables
<1>3. RunnersOwned
  BY <1>1 DEF CommandInv, LoopOwned, RunnersOwned, Serves, TableOwned, Tables
<1>4. NeverFallsBack /\ FailedChoiceKept
  BY <1>1 DEF CommandInv, OpeningSound, NeverFallsBack, RunnersSound
<1>5. ModeHeld
  <2> SUFFICES ASSUME NEW x \in Objects
               PROVE  LET on == {t \in Ids : HasTurn(t) /\ turns[t].object = x}
                      IN  /\ \A t \in on : objects[x].writes = turns[t].writes
                          /\ on = {} => objects[x].writes
    BY DEF ModeHeld
  <2>1. ModeRight(Tables, x)
    BY Names DEF CommandInv, TableInv, TableInvBut
  <2> QED
    BY <2>1 DEF ModeRight, Drives, HasTurn, Tables
<1>6. PlainUseSound
  <2> SUFFICES ASSUME plain
               PROVE  /\ Cardinality({x \in Objects : objects[x].state = "open" /\ ~Leaked(x)}) <= 1
                      /\ \A x \in Objects : objects[x].closes <= 1 \/ (broken /\ x = current)
                      /\ phase = "ready" => \A t \in Ids : turns[t].pc = "running" =>
                           /\ turns[t].object = current /\ objects[current].state = "open"
                           /\ disk[t].there /\ disk[t].backend = objects[current].backend
                      /\ phase = "gone" => \A x \in Objects : objects[x].state = "open" => Leaked(x)
    BY DEF PlainUseSound
  <2>1. phase # "gone" => PlainTables(Tables, current, activeId, registry, ~broken)
    BY DEF CommandInv, PlainInv
  <2>2. phase = "gone" => \A x \in Objects : /\ objects[x].state = "open" => Leaked(x)
                                             /\ objects[x].closes <= 1 \/ (broken /\ x = current)
    BY DEF CommandInv, PlainInv, Leaked
  <2>3. \A x, y \in Objects : (objects[x].state = "open" /\ ~Leaked(x) /\ objects[y].state = "open" /\ ~Leaked(y)) => x = y
    BY <2>1, <2>2 DEF PlainTables, Tables, Leaked
  <2>4. Cardinality({x \in Objects : objects[x].state = "open" /\ ~Leaked(x)}) <= 1
    BY <2>3, AtMostOne
  <2>5. \A x \in Objects : objects[x].closes <= 1 \/ (broken /\ x = current)
    BY <2>1, <2>2 DEF PlainTables, Tables
  <2>6. \A t \in Ids : turns[t].pc # "none" => turns[t].object # NoObject
    BY <1>1 DEF TableOwned, Tables
  <2>7. phase = "ready" => \A t \in Ids : turns[t].pc = "running" =>
           /\ turns[t].object = current /\ objects[current].state = "open"
           /\ disk[t].there /\ disk[t].backend = objects[current].backend
    <3>1. phase = "ready" => ~broken
      BY DEF CommandInv, StoppingRuns
    <3> QED
      BY <2>1, <2>6, <3>1 DEF PlainTables, Tables
  <2> QED
    BY <2>2, <2>4, <2>5, <2>7
<1> QED
  BY <1>2, <1>3, <1>4, <1>5, <1>6 DEF CommandsSound

\* The command loop keeps what it promises: a runner serves the thread it was opened for, an open
\* runner has the sandbox that was asked for, a reset that failed keeps its choice, a Run's sandbox is
\* in its mode, and a user who keeps to one conversation at a time has one open runner whose
\* directory is in place, but for a sandbox whose assembly failed and for what follows a command
\* that raised (app/wire.py, app/repl.py).
THEOREM CommandLoopIsSound == CommandSpec => []CommandsSound
<1>1. CommandInit => CommandInv
  BY CommandStart
<1>2. CommandInv /\ [CommandNext]_commandVars => CommandInv'
  BY StepCommandInv
<1>3. CommandInv => CommandsSound
  BY CommandInvSound
<1> QED
  BY <1>1, <1>2, <1>3, PTL DEF CommandSpec

-----------------------------------------------------------------------------
(* The parts side by side *)

\* A behaviour of the parts side by side is one of each.
LEMMA EveryPartRuns == MCSpec => TimelineSpec /\ FrontSpec /\ TextSpec /\ CommandSpec
<1>1. MCInit => TimelineInit /\ FrontInit /\ TextInit /\ CommandInit
  BY DEF MCInit
<1>2. [MCNext]_<<part, clientVars, uiVars, timelineVars, commandVars, textVars>> =>
        [TimelineNext]_timelineVars /\ [FrontNext]_uiVars /\ [TextNext]_textVars /\ [CommandNext]_commandVars
  BY DEF MCNext
<1> QED
  BY <1>1, <1>2, PTL DEF MCSpec, TimelineSpec, FrontSpec, TextSpec, CommandSpec

\* What the terminal shows is so, and its keys do what the screen says, whichever front end it
\* is: the application, the timeline it draws, the front ends without a screen
\* (app/tui/application.py, app/tui/reducer.py, app/repl.py, app/commands/print_mode.py).
THEOREM TerminalIsSound == MCSpec => []TerminalSound
<1>1. TimelineSound /\ FrontSound /\ TextSound => TerminalSound
  BY DEF TerminalSound
<1> QED
  BY <1>1, EveryPartRuns, TimelineIsTrue, FrontIsSound, TextFrontsAreSound, PTL

\* What the command loop promises about runners and thread directories holds beside the other
\* parts (app/wire.py, app/repl.py).
THEOREM CommandsAreSound == MCSpec => []CommandLoopSound
<1>1. CommandsSound => CommandLoopSound
  BY DEF CommandLoopSound
<1> QED
  BY <1>1, EveryPartRuns, CommandLoopIsSound, PTL
=============================================================================
