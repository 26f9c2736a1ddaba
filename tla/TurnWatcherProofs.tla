-------------------------- MODULE TurnWatcherProofs ---------------------------
(***************************************************************************)
(* That the watcher announces no message twice and no seen turn early or   *)
(* twice, swallows no dialog it sampled, and that the hub delivers, for    *)
(* any sessions, conversations, browsers and buffers.                      *)
(***************************************************************************)
EXTENDS TurnWatcher, SequenceTheorems, TLAPS

PaneState ==
  [conv : Conv, tui : {"idle", "working", "dialog"}, dialog : Nat, flickered : BOOLEAN]

Message == [conv : Conv, turn : Nat]

TurnId == Conv \X Nat

Event ==
  [kind : {"audit"}, n : Nat] \union [kind : {"dialog"}, n : Nat] \union
  [kind : {"turn"}, n : Nat, turn : TurnId, was : {"idle", "working", "dialog"},
   seen : BOOLEAN]

Channel == [queue : Seq(Event), got : Seq(Event), missed : BOOLEAN, since : Nat]

WatchRecord ==
  [pc : {"sleep", "next", "assistant", "working", "watch"},
   todo : SUBSET Session, listed : SUBSET Session, name : Session \union {None},
   dialog : Nat, waiting : Nat, last : Nat, working : BOOLEAN]

WatchState ==
  [idleStreak : 0..turnWatchSettle, lastNotifiedID : Nat, notifiedWaitID : Nat, told : Nat]

Looks ==
  [working : SUBSET TurnId, missed : SUBSET TurnId, covered : SUBSET TurnId,
   lost : BOOLEAN, retaken : BOOLEAN]

Types ==
  /\ pane \in [Session -> PaneState \union {None}]
  /\ turns \in [Conv -> Nat]
  /\ msgs \in Seq(Message)
  /\ asked \in Seq(Nat)
  /\ watch \in WatchRecord
  /\ state \in [Session -> WatchState \union {None}]
  /\ subs \in [Subscriber -> Channel \union {None}]
  /\ log \in Seq(Event)
  /\ looks \in Looks

TurnOf(m) == <<msgs[m].conv, msgs[m].turn>>

\* A conversation runs in one session at most.
OneSession == \A s, t \in Live : pane[s].conv = pane[t].conv => s = t

\* LastMessage is the last message.
Latest ==
  \A c \in Conv :
    /\ LastMessage(c) \in 0..Len(msgs)
    /\ LastMessage(c) # 0 => msgs[LastMessage(c)].conv = c
    /\ \A m \in DOMAIN msgs : msgs[m].conv = c => m <= LastMessage(c)

\* Nothing is of a turn to come.
Past ==
  /\ \A m \in DOMAIN msgs : msgs[m].turn <= turns[msgs[m].conv]
  /\ \A T \in looks.working \union looks.missed \union looks.covered : T[2] <= turns[T[1]]

Looking == watch.pc \in {"working", "watch"}

Control ==
  /\ (watch.name = None) = (watch.pc \in {"sleep", "next"})
  /\ watch.last \in 0..Len(msgs)
  /\ watch.dialog \in 0..Len(asked)
  /\ watch.waiting = IF watch.dialog = 0 THEN 0 ELSE asked[watch.dialog]

Dialogs ==
  /\ \A s \in Live : pane[s].dialog \in 0..Len(asked)
  /\ \A d \in DOMAIN asked : asked[d] \in 1..Len(asked)

ToldDialogs == {log[i].n : i \in {j \in DOMAIN log : log[j].kind = "dialog"}}

\* The question the watcher remembers is that of a dialog it has announced.
DialogTold ==
  \A s \in Session :
    state[s] # None /\ state[s].notifiedWaitID # 0 =>
      /\ state[s].told \in DOMAIN asked /\ state[s].told \in ToldDialogs
      /\ asked[state[s].told] = state[s].notifiedWaitID

Logged ==
  \A i \in TurnEvents :
    /\ log[i].n \in DOMAIN msgs /\ log[i].turn = TurnOf(log[i].n)
    /\ log[i].seen => log[i].turn \in looks.working

-----------------------------------------------------------------------------

\* Conversations, and how far they have been announced.
Told == {p \in Conv \X Nat : \A i \in TurnEvents : log[i].turn[1] = p[1] => log[i].n <= p[2]}

Once == \A i, j \in TurnEvents : log[i].n = log[j].n => i = j

\* What is remembered under a name is how far its conversation is announced.
Remembered ==
  \A s \in Live : state[s] # None =>
    /\ <<pane[s].conv, state[s].lastNotifiedID>> \in Told
    /\ state[s].lastNotifiedID # 0 =>
         /\ state[s].lastNotifiedID \in DOMAIN msgs
         /\ msgs[state[s].lastNotifiedID].conv = pane[s].conv

\* So it is with the message looked at, and what is remembered when it is.
Sampled ==
  Looking =>
    /\ watch.last # 0 =>
         /\ <<msgs[watch.last].conv, Primed(watch.name).lastNotifiedID>> \in Told
         /\ Primed(watch.name).lastNotifiedID <= watch.last
         /\ watch.name \in Live => pane[watch.name].conv = msgs[watch.last].conv
         /\ \A t \in Live : pane[t].conv = msgs[watch.last].conv /\ t # watch.name
              => state[t] = None
    /\ watch.last = 0 /\ watch.name \in Live /\ state[watch.name] = None
         => <<pane[watch.name].conv, 0>> \in Told

-----------------------------------------------------------------------------

\* The turns that are over, or not begun.
Over ==
  {T \in TurnId : T[2] < turns[T[1]] \/ \A s \in Live : Turn(s) = T => pane[s].tui = "idle"}

\* The messages that ended their turn.
Final == {m \in DOMAIN msgs : TurnOf(m) \in Over /\ \A k \in DOMAIN msgs : TurnOf(k) = TurnOf(m) => k <= m}

\* The sessions whose last sample was idle.
Streaked == {s \in Session : state[s] # None /\ state[s].idleStreak >= 1}

\* The sessions for which an idle sample is right, or has its excuse.
Excused ==
  {s \in Live : \/ pane[s].tui = "idle"
                \/ Turn(s) \in looks.covered
                \/ pane[s].flickered /\ Turn(s) \in looks.missed}

Resetting(s) == watch.pc = "watch" /\ watch.name = s /\ watch.working

Idled == \A s \in Live \cap Streaked : Turn(s) \in looks.working => Resetting(s) \/ s \in Excused

IdleSample == watch.pc = "watch" /\ ~watch.working

SampledIdle ==
  IdleSample /\ watch.name \in Live /\ Turn(watch.name) \in looks.working
    => watch.name \in Excused

\* A turn about to be announced is over, unless a dialog or a flicker deceived the look.
Settled ==
  IdleSample /\ watch.last # 0 =>
    /\ watch.name \in Streaked /\ TurnOf(watch.last) \in looks.working \ looks.covered
         => TurnOf(watch.last) \in Over
    /\ TurnOf(watch.last) \notin looks.missed \union looks.covered
         => TurnOf(watch.last) \in Over

\* A turn seen working, and then idle before this look, was at its last message.
Ripe ==
  /\ Looking /\ (watch.pc = "watch" => ~watch.working)
  /\ watch.last # 0 /\ watch.name \in Streaked
  /\ TurnOf(watch.last) \in looks.working \ (looks.missed \union looks.covered)
  => watch.last \in Final

\* The announcements that are as they should be.
Sound ==
  {e \in Event :
    /\ e.seen /\ e.turn \notin looks.covered => e.was = "idle"
    /\ e.turn \notin looks.missed \union looks.covered =>
         /\ e.turn \in Over
         /\ e.seen => e.n \in Final
         /\ ~e.seen => e.turn \notin looks.working}

Verdicts == \A i \in TurnEvents : log[i] \in Sound

\* What is in the channels ch of the events l.
After(l, n) == SubSeq(l, n + 1, Len(l))

Flow(c) == c.got \o c.queue

Follows(c, l) ==
  /\ c.since <= Len(l)
  /\ Len(c.queue) <= Buffer
  /\ ~c.missed => Flow(c) = After(l, c.since)

Delivered(ch, l) == \A x \in Subscriber : ch[x] # None => Follows(ch[x], l)

Delivery == Delivered(subs, log)

Base ==
  /\ Types /\ Delivery /\ OneSession /\ Latest /\ Past /\ Control
  /\ Dialogs /\ DialogTold /\ Logged

Turns == Once /\ Remembered /\ Sampled

Samples == Idled /\ SampledIdle /\ Settled /\ Ripe /\ Verdicts

Inv == Base /\ (LooksSound => Turns /\ Samples)
-----------------------------------------------------------------------------
(* Types *)

LEMMA Constants ==
  /\ None \notin Session /\ None \notin Conv
  /\ Buffer \in Nat /\ Buffer > 0 /\ MaxEvents \in Nat
  BY WatcherAssumption

LEMMA Shape ==
  ASSUME Types
  PROVE  /\ \A s \in Live : s \in Session /\ pane[s] \in PaneState /\ Turn(s) \in TurnId
         /\ \A s \in Session : state[s] # None => state[s] \in WatchState
         /\ \A x \in Subscriber : subs[x] # None => subs[x] \in Channel
         /\ Len(msgs) \in Nat /\ DOMAIN msgs = 1..Len(msgs) /\ \A m \in DOMAIN msgs : msgs[m] \in Message
         /\ Len(asked) \in Nat /\ DOMAIN asked = 1..Len(asked) /\ \A d \in DOMAIN asked : asked[d] \in Nat
         /\ Len(log) \in Nat /\ DOMAIN log = 1..Len(log) /\ \A i \in DOMAIN log : log[i] \in Event
         /\ watch \in WatchRecord /\ looks \in Looks
  <1>1. \A s \in Live : s \in Session /\ pane[s] \in PaneState
    BY DEF Types, Live
  <1>2. \A s \in Live : Turn(s) \in TurnId
    BY <1>1 DEF Types, Turn, TurnId, PaneState
  <1> QED BY <1>1, <1>2 DEF Types

LEMMA NewWatchType ==
  /\ NewWatch \in WatchRecord /\ NewWatch.pc = "sleep" /\ NewWatch.name = None
  /\ NewWatch.last = 0 /\ NewWatch.dialog = 0 /\ NewWatch.waiting = 0
  BY DEF NewWatch, WatchRecord

LEMMA WatchFields ==
  ASSUME NEW w \in WatchRecord
  PROVE  /\ w.pc \in {"sleep", "next", "assistant", "working", "watch"}
         /\ w.todo \subseteq Session /\ w.listed \subseteq Session /\ w.name \in Session \union {None}
         /\ w.dialog \in Nat /\ w.waiting \in Nat /\ w.last \in Nat /\ w.working \in BOOLEAN
  BY DEF WatchRecord

LEMMA LooksFields ==
  ASSUME NEW l \in Looks
  PROVE  /\ l.working \subseteq TurnId /\ l.missed \subseteq TurnId /\ l.covered \subseteq TurnId
         /\ l.lost \in BOOLEAN /\ l.retaken \in BOOLEAN
  BY DEF Looks

LEMMA MinOfTwo ==
  ASSUME NEW a \in Nat, NEW b \in Nat
  PROVE  Min({a, b}) = IF a <= b THEN a ELSE b
  <1> DEFINE r == IF a <= b THEN a ELSE b
  <1>1. r \in {a, b} /\ \A y \in {a, b} : r <= y
    OBVIOUS
  <1>2. \A x \in {a, b} : (\A y \in {a, b} : x <= y) => x = r
    BY <1>1
  <1> QED BY <1>1, <1>2 DEF Min

LEMMA PrimedType ==
  ASSUME Types, watch.name \in Session
  PROVE  Primed(watch.name) \in WatchState
  <1>1. watch.last \in Nat
    BY Shape, WatchFields
  <1>2. [idleStreak |-> 0, lastNotifiedID |-> watch.last, notifiedWaitID |-> 0, told |-> 0]
          \in WatchState
    BY <1>1 DEF WatchState, turnWatchSettle
  <1> QED BY <1>2, Shape DEF Primed

LEMMA StreakType ==
  ASSUME NEW ws \in WatchState
  PROVE  /\ Streak(ws) \in 0..turnWatchSettle
         /\ watch.working => Streak(ws) = 0
         /\ ~watch.working => Streak(ws) >= 1
         /\ Streak(ws) >= turnWatchSettle => ~watch.working /\ ws.idleStreak >= 1
  <1>1. ws.idleStreak \in 0..2
    BY DEF WatchState, turnWatchSettle
  <1>2. Min({ws.idleStreak + 1, 2}) = IF ws.idleStreak + 1 <= 2 THEN ws.idleStreak + 1 ELSE 2
    BY <1>1, MinOfTwo
  <1> QED BY <1>1, <1>2 DEF Streak, turnWatchSettle

\* The events a look at a session may broadcast.
DialogEvent == [kind |-> "dialog", n |-> watch.dialog]

TurnEvent ==
  [kind |-> "turn", n |-> watch.last, turn |-> TurnOf(watch.last),
   was |-> TurnState(TurnOf(watch.last)), seen |-> TurnOf(watch.last) \in looks.working]

Events ==
  (IF NewDialog(Primed(watch.name)) THEN <<DialogEvent>> ELSE <<>>) \o
  (IF TurnDone(Primed(watch.name)) THEN <<TurnEvent>> ELSE <<>>)

LEMMA TurnStateType ==
  ASSUME Types, NEW T
  PROVE  TurnState(T) \in {"idle", "working", "dialog"}
  BY Shape DEF TurnState, PaneState

LEMMA EventTypes ==
  ASSUME Types
  PROVE  /\ DialogEvent \in Event /\ DialogEvent.kind = "dialog" /\ DialogEvent.n = watch.dialog
         /\ watch.last \in DOMAIN msgs =>
              /\ TurnEvent \in Event /\ TurnEvent.kind = "turn" /\ TurnEvent.n = watch.last
              /\ TurnEvent.turn = TurnOf(watch.last)
              /\ TurnEvent.was = TurnState(TurnOf(watch.last))
              /\ TurnEvent.seen = (TurnOf(watch.last) \in looks.working)
  <1>1. watch.dialog \in Nat /\ watch.last \in Nat
    BY Shape, WatchFields
  <1>2. DialogEvent \in Event
    BY <1>1 DEF DialogEvent, Event
  <1>3. ASSUME watch.last \in DOMAIN msgs PROVE TurnEvent \in Event
    <2>1. TurnOf(watch.last) \in TurnId
      BY <1>3, Shape DEF TurnOf, TurnId, Message
    <2>2. TurnState(TurnOf(watch.last)) \in {"idle", "working", "dialog"}
      BY TurnStateType
    <2>3. (TurnOf(watch.last) \in looks.working) \in BOOLEAN
      OBVIOUS
    <2> QED BY <1>1, <2>1, <2>2, <2>3 DEF TurnEvent, Event
  <1> QED BY <1>2, <1>3 DEF DialogEvent, TurnEvent

-----------------------------------------------------------------------------
(* The hub *)

LEMMA SuffixAppended ==
  ASSUME NEW S, NEW l \in Seq(S), NEW e \in S, NEW n \in Nat, n <= Len(l)
  PROVE  After(Append(l, e), n) = Append(After(l, n), e)
  <1> DEFINE m == Append(l, e)
  <1>1. m \in Seq(S) /\ Len(m) = Len(l) + 1 /\ Len(l) \in Nat /\ m[Len(m)] = e
        /\ \A i \in 1..Len(l) : m[i] = l[i]
    BY AppendProperties, LenProperties
  <1> HIDE DEF m
  <1>2. SubSeq(m, n + 1, Len(m)) = SubSeq(m, n + 1, Len(l)) \o <<e>>
    <2>1. n + 1 \in 1..Len(m) /\ Len(m) \in n + 1..Len(m) /\ Len(m) - 1 = Len(l)
      BY <1>1
    <2> QED BY <1>1, <2>1, SubSeqRecursiveSecond
  <1>3. SubSeq(m, n + 1, Len(l)) = SubSeq(l, n + 1, Len(l))
        /\ SubSeq(l, n + 1, Len(l)) \in Seq(S)
    <2> DEFINE a == SubSeq(m, n + 1, Len(l))
               b == SubSeq(l, n + 1, Len(l))
    <2>1. n + 1 \in Int /\ Len(l) \in Int
          /\ \A i \in n + 1..Len(l) : m[i] \in S /\ l[i] \in S /\ m[i] = l[i]
      BY <1>1, ElementOfSeq
    <2>2. /\ a \in Seq(S) /\ Len(a) = IF n + 1 <= Len(l) THEN Len(l) - (n + 1) + 1 ELSE 0
          /\ \A i \in 1..Len(l) - (n + 1) + 1 : a[i] = m[n + 1 + i - 1]
      BY <2>1, SubSeqProperties
    <2>3. /\ b \in Seq(S) /\ Len(b) = IF n + 1 <= Len(l) THEN Len(l) - (n + 1) + 1 ELSE 0
          /\ \A i \in 1..Len(l) - (n + 1) + 1 : b[i] = l[n + 1 + i - 1]
      BY <2>1, SubSeqProperties
    <2> HIDE DEF a, b
    <2>4. Len(a) = Len(b) /\ \A i \in 1..Len(a) : a[i] = b[i]
      BY <2>1, <2>2, <2>3
    <2>5. a = b
      BY <2>2, <2>3, <2>4, SeqEqual
    <2> QED BY <2>3, <2>5 DEF a, b
  <1>4. Append(SubSeq(l, n + 1, Len(l)), e) = SubSeq(l, n + 1, Len(l)) \o <<e>>
    BY <1>3, AppendIsConcat
  <1> QED BY <1>2, <1>3, <1>4 DEF After, m

LEMMA NothingAfter ==
  ASSUME NEW S, NEW l \in Seq(S)
  PROVE  After(l, Len(l)) = <<>> /\ <<>> \o <<>> = <<>> /\ Len(<<>>) = 0 /\ <<>> \in Seq(S)
  <1>1. Len(l) \in Nat
    BY LenProperties
  <1>2. SubSeq(l, Len(l) + 1, Len(l)) = <<>>
    BY <1>1, SubSeqEmpty
  <1>3. <<>> \in Seq(S) /\ Len(<<>>) = 0
    BY EmptySeq
  <1>4. <<>> \o <<>> = <<>>
    BY <1>3, ConcatEmptySeq
  <1> QED BY <1>2, <1>3, <1>4 DEF After

LEMMA ConcatAppended ==
  ASSUME NEW S, NEW p \in Seq(S), NEW q \in Seq(S), NEW e \in S
  PROVE  p \o Append(q, e) = Append(p \o q, e)
  <1>1. Append(q, e) = q \o <<e>> /\ <<e>> \in Seq(S)
    BY AppendIsConcat
  <1>2. p \o (q \o <<e>>) = (p \o q) \o <<e>>
    BY <1>1, ConcatAssociative
  <1>3. p \o q \in Seq(S)
    BY ConcatProperties
  <1>4. Append(p \o q, e) = (p \o q) \o <<e>>
    BY <1>3, AppendIsConcat
  <1> QED BY <1>1, <1>2, <1>4

LEMMA ReceivedConcat ==
  ASSUME NEW S, NEW p \in Seq(S), NEW q \in Seq(S), q # <<>>
  PROVE  /\ Append(p, Head(q)) \o Tail(q) = p \o q /\ Len(Tail(q)) <= Len(q)
         /\ Append(p, Head(q)) \in Seq(S) /\ Tail(q) \in Seq(S)
  <1>1. Head(q) \in S /\ Tail(q) \in Seq(S) /\ Len(Tail(q)) = Len(q) - 1 /\ Len(q) \in Nat
    BY HeadTailProperties, LenProperties
  <1>2. Append(p, Head(q)) = p \o <<Head(q)>> /\ <<Head(q)>> \in Seq(S)
    BY <1>1, AppendIsConcat
  <1>3. (p \o <<Head(q)>>) \o Tail(q) = p \o (<<Head(q)>> \o Tail(q))
    BY <1>1, <1>2, ConcatAssociative
  <1>4. <<Head(q)>> \o Tail(q) = q
    BY <1>1
  <1> QED BY <1>1, <1>2, <1>3, <1>4, AppendProperties

LEMMA ChannelFields ==
  ASSUME NEW c \in Channel
  PROVE  c.queue \in Seq(Event) /\ c.got \in Seq(Event) /\ c.missed \in BOOLEAN /\ c.since \in Nat
  BY DEF Channel

\* A channel that takes an event, or has no room for it.
LEMMA ChannelTakes ==
  ASSUME NEW c \in Channel, NEW l \in Seq(Event), NEW e \in Event, Follows(c, l)
  PROVE  LET q == [c EXCEPT !.queue = Append(c.queue, e)]
             d == Missing(c)
         IN  /\ Len(c.queue) < Buffer => q \in Channel /\ Follows(q, Append(l, e))
             /\ d \in Channel /\ Follows(d, Append(l, e))
  <1> DEFINE q == [c EXCEPT !.queue = Append(c.queue, e)]
             d == Missing(c)
  <1>1. c.queue \in Seq(Event) /\ c.got \in Seq(Event) /\ c.missed \in BOOLEAN /\ c.since \in Nat
    BY ChannelFields
  <1>2. Append(c.queue, e) \in Seq(Event) /\ Len(Append(c.queue, e)) = Len(c.queue) + 1
        /\ Len(Append(l, e)) = Len(l) + 1 /\ Len(l) \in Nat /\ Len(c.queue) \in Nat
    BY <1>1, AppendProperties, LenProperties
  <1>3. q \in Channel /\ d \in Channel
    <2>1. <<>> \in Seq(Event) /\ 0 \in Nat
      BY EmptySeq
    <2> QED BY <1>2, <2>1 DEF Channel, Missing
  <1>4. /\ q.queue = Append(c.queue, e) /\ q.got = c.got /\ q.since = c.since /\ q.missed = c.missed
        /\ d.queue = c.queue /\ d.since = 0 /\ d.missed
    BY DEF Channel, Missing
  <1> HIDE DEF q, d
  <1>5. c.since <= Len(l) /\ Len(c.queue) <= Buffer
    BY DEF Follows
  <1>6. Follows(d, Append(l, e))
    BY <1>1, <1>2, <1>4, <1>5 DEF Follows
  <1>7. ASSUME Len(c.queue) < Buffer PROVE Follows(q, Append(l, e))
    <2>1. q.since <= Len(Append(l, e)) /\ Len(q.queue) <= Buffer
      BY <1>1, <1>2, <1>4, <1>5, <1>7, Constants
    <2>2. Flow(q) = Append(Flow(c), e)
      <3>1. c.got \in Seq(Event) /\ c.queue \in Seq(Event) /\ e \in Event
        BY <1>1
      <3>2. \A p, r \in Seq(Event) : p \o Append(r, e) = Append(p \o r, e)
        BY ConcatAppended
      <3>3. c.got \o Append(c.queue, e) = Append(c.got \o c.queue, e)
        BY <3>1, <3>2, Zenon
      <3> QED BY <1>4, <3>3 DEF Flow
    <2>3. After(Append(l, e), c.since) = Append(After(l, c.since), e)
      BY <1>1, <1>5, SuffixAppended
    <2> QED BY <1>4, <2>1, <2>2, <2>3 DEF Follows
  <1> QED BY <1>3, <1>6, <1>7 DEF q, d

LEMMA BroadcastDelivers ==
  ASSUME NEW ch \in [Subscriber -> Channel \union {None}], NEW l \in Seq(Event),
         NEW e \in Event, Delivered(ch, l)
  PROVE  /\ Broadcast(ch, e) \in [Subscriber -> Channel \union {None}]
         /\ Delivered(Broadcast(ch, e), Append(l, e))
  <1> DEFINE new == Broadcast(ch, e)
  <1>1. new = [x \in Subscriber |-> new[x]]
    BY DEF Broadcast
  <1>2. ASSUME NEW x \in Subscriber
        PROVE  new[x] \in Channel \union {None} /\ (new[x] # None => Follows(new[x], Append(l, e)))
    <2>1. CASE ch[x] = None
      BY <2>1 DEF Broadcast
    <2>2. CASE ch[x] # None
      <3>1. PICK c : c = ch[x]
        OBVIOUS
      <3>2. c \in Channel /\ Follows(c, l)
        BY <2>2, <3>1 DEF Delivered
      <3>3. new[x] = IF Len(c.queue) < Buffer THEN [c EXCEPT !.queue = Append(c.queue, e)]
                     ELSE Missing(c)
        BY <2>2, <3>1 DEF Broadcast
      <3> QED BY <3>2, <3>3, ChannelTakes
    <2> QED BY <2>1, <2>2
  <1> HIDE DEF new
  <1>3. new \in [Subscriber -> Channel \union {None}]
    BY <1>1, <1>2
  <1>4. Delivered(new, Append(l, e))
    BY <1>2 DEF Delivered
  <1> QED BY <1>3, <1>4 DEF new

LEMMA AuditTypes ==
  ASSUME Types, Delivery, Audit
  PROVE  Types' /\ Delivery'
  <1> DEFINE e == [kind |-> "audit", n |-> Len(log)]
  <1>1. e \in Event
    BY Shape DEF Event
  <1>2. log' = Append(log, e) /\ subs' = Broadcast(subs, e) /\ UNCHANGED <<claude, watch, state, looks>>
    BY DEF Audit
  <1> HIDE DEF e
  <1>3. /\ Broadcast(subs, e) \in [Subscriber -> Channel \union {None}]
        /\ Delivered(Broadcast(subs, e), Append(log, e))
    BY <1>1, BroadcastDelivers DEF Types, Delivery
  <1>4. Append(log, e) \in Seq(Event)
    BY <1>1, AppendProperties DEF Types
  <1> QED BY <1>2, <1>3, <1>4 DEF Types, Delivery, claude

\* What a browser does to its own channel.
LEMMA OneChannel ==
  ASSUME Types, Delivery, NEW x \in Subscriber, NEW c \in Channel \union {None},
         c # None => Follows(c, log),
         subs' = [subs EXCEPT ![x] = c], log' = log, UNCHANGED <<claude, watch, state, looks>>
  PROVE  Types' /\ Delivery'
  <1>1. subs' \in [Subscriber -> Channel \union {None}]
        /\ \A y \in Subscriber : subs'[y] = IF y = x THEN c ELSE subs[y]
    BY DEF Types
  <1>2. Delivered(subs', log)
    BY <1>1 DEF Delivery, Delivered
  <1> QED BY <1>1, <1>2 DEF Types, Delivery, claude

LEMMA SubscribeTypes ==
  ASSUME Types, Delivery, NEW x \in Subscriber, Subscribe(x)
  PROVE  Types' /\ Delivery'
  <1> DEFINE c == [queue |-> <<>>, got |-> <<>>, missed |-> FALSE, since |-> Len(log)]
  <1>1. Len(log) \in Nat /\ log \in Seq(Event)
    BY Shape DEF Types
  <1>2. <<>> \in Seq(Event) /\ After(log, Len(log)) = <<>> /\ <<>> \o <<>> = <<>> /\ Len(<<>>) = 0
    BY <1>1, NothingAfter
  <1>3. c \in Channel
    BY <1>1, <1>2 DEF Channel
  <1>4. c.queue = <<>> /\ c.got = <<>> /\ c.since = Len(log)
    OBVIOUS
  <1>5. subs' = [subs EXCEPT ![x] = c] /\ log' = log /\ UNCHANGED <<claude, watch, state, looks>>
    BY DEF Subscribe
  <1> HIDE DEF c
  <1>6. Follows(c, log)
    BY <1>1, <1>2, <1>4, Constants DEF Follows, Flow
  <1> QED BY <1>3, <1>5, <1>6, OneChannel

LEMMA ReceiveTypes ==
  ASSUME Types, Delivery, NEW x \in Subscriber, Receive(x)
  PROVE  Types' /\ Delivery'
  <1>1. PICK s : s = subs[x]
    OBVIOUS
  <1>2. s \in Channel /\ s.queue # <<>> /\ Follows(s, log)
    BY <1>1, Shape DEF Receive, Delivery, Delivered
  <1> DEFINE q == Tail(s.queue)
             g == IF s.missed THEN s.got ELSE Append(s.got, Head(s.queue))
             c == [s EXCEPT !.queue = q, !.got = g]
  <1>3. s.queue \in Seq(Event) /\ s.got \in Seq(Event) /\ s.since \in Nat /\ s.missed \in BOOLEAN
    BY <1>2, ChannelFields
  <1>4. /\ q \in Seq(Event) /\ g \in Seq(Event) /\ Len(q) <= Len(s.queue)
        /\ ~s.missed => g \o q = s.got \o s.queue
    BY <1>2, <1>3, ReceivedConcat
  <1>5. subs' = [subs EXCEPT ![x] = c] /\ log' = log /\ UNCHANGED <<claude, watch, state, looks>>
    BY <1>1 DEF Receive
  <1> HIDE DEF q, g
  <1>6. c \in Channel
    BY <1>2, <1>4 DEF Channel
  <1>7. c.queue = q /\ c.got = g /\ c.since = s.since /\ c.missed = s.missed
    BY <1>2 DEF Channel
  <1> HIDE DEF c
  <1>8. Len(q) \in Nat /\ Len(s.queue) \in Nat
    BY <1>3, <1>4, LenProperties
  <1>9. Follows(c, log)
    <2>1. ~s.missed => Flow(c) = Flow(s)
      BY <1>4, <1>7 DEF Flow
    <2>2. s.since <= Len(log) /\ Len(s.queue) <= Buffer
          /\ (~s.missed => Flow(s) = After(log, s.since))
      BY <1>2 DEF Follows
    <2>3. Len(q) <= Buffer
      BY <1>4, <1>8, <2>2, Constants
    <2> QED BY <1>7, <2>1, <2>2, <2>3 DEF Follows
  <1> QED BY <1>5, <1>6, <1>9, OneChannel

LEMMA UnsubscribeTypes ==
  ASSUME Types, Delivery, NEW x \in Subscriber, Unsubscribe(x)
  PROVE  Types' /\ Delivery'
  <1>1. subs' = [subs EXCEPT ![x] = None] /\ log' = log /\ UNCHANGED <<claude, watch, state, looks>>
    BY DEF Unsubscribe
  <1> QED BY <1>1, OneChannel

-----------------------------------------------------------------------------
(* The sessions *)

\* What runs at t now is idle, in a new turn, or was not idle before.
Comes(t) ==
  \/ pane'[t].tui = "idle"
  \/ turns[pane'[t].conv] < turns'[pane'[t].conv]
  \/ \E s \in Live : pane[s].conv = pane'[t].conv /\ pane[s].tui # "idle"

\* What runs at t ran there before, and in the same turn only becomes idle.
Stays(t) ==
  /\ t \in Live /\ pane'[t].conv = pane[t].conv
  /\ \/ turns[pane'[t].conv] < turns'[pane'[t].conv]
     \/ pane'[t].flickered = pane[t].flickered /\ (pane[t].tui = "idle" => pane'[t].tui = "idle")

LooksKept ==
  /\ looks' \in Looks
  /\ looks'.working = looks.working /\ looks'.missed = looks.missed
  /\ looks'.covered = looks.covered /\ looks'.lost = looks.lost
  /\ looks.retaken => looks'.retaken

Says1(s) == [conv |-> pane[s].conv, turn |-> turns[pane[s].conv]]

\* What a step of a session does, whichever it is.
Evolves ==
  /\ UNCHANGED <<watch, state, subs, log>> /\ LooksKept
  /\ \A c \in Conv : turns[c] <= turns'[c]
  /\ \/ msgs' = msgs
     \/ /\ UNCHANGED <<pane, turns>>
        /\ \E s \in Live : pane[s].tui = "working" /\ msgs' = Append(msgs, Says1(s))
  /\ \/ asked' = asked
     \/ \E text \in 1..Len(asked) + 1 : asked' = Append(asked, text)
  /\ \A t \in Live' : Comes(t) /\ pane'[t].dialog \in 0..Len(asked')
  /\ ~looks'.retaken =>
       \A t \in Live' : state[t] # None \/ watch.name = t => Stays(t)

LEMMA PaneFields ==
  ASSUME NEW p \in PaneState
  PROVE  /\ p.conv \in Conv /\ p.tui \in {"idle", "working", "dialog"}
         /\ p.dialog \in Nat /\ p.flickered \in BOOLEAN
  BY DEF PaneState

LEMMA OnePane ==
  ASSUME Types, OneSession, NEW s \in Live, NEW r \in PaneState, r.conv = pane[s].conv,
         pane' = [pane EXCEPT ![s] = r]
  PROVE  /\ pane' \in [Session -> PaneState \union {None}]
         /\ \A t \in Live' : /\ t \in Live /\ pane'[t] = (IF t = s THEN r ELSE pane[t])
                             /\ pane'[t].conv = pane[t].conv
         /\ OneSession'
  <1>1. s \in Session /\ pane[s] # None
    BY DEF Live
  <1>2. pane' \in [Session -> PaneState \union {None}]
        /\ \A t \in Session : pane'[t] = IF t = s THEN r ELSE pane[t]
    BY <1>1 DEF Types
  <1>3. \A t \in Live' : t \in Live /\ pane'[t] = IF t = s THEN r ELSE pane[t]
    BY <1>1, <1>2 DEF Live
  <1>4. \A t \in Live' : pane'[t].conv = pane[t].conv
    BY <1>3
  <1>5. OneSession'
    <2> SUFFICES ASSUME NEW t \in Live', NEW u \in Live', pane'[t].conv = pane'[u].conv
                 PROVE  t = u
      BY DEF OneSession
    <2> QED BY <1>3, <1>4 DEF OneSession
  <1> QED BY <1>2, <1>3, <1>4, <1>5

LEMMA StillLooks == Types /\ UNCHANGED looks => LooksKept
  BY DEF Types, LooksKept

LEMMA TurnStartsEvolves ==
  ASSUME Types, OneSession, Dialogs, NEW s \in Session, TurnStarts(s)
  PROVE  Types' /\ OneSession' /\ Evolves
  <1> DEFINE r == [pane[s] EXCEPT !.tui = "working", !.flickered = FALSE]
             c == pane[s].conv
  <1>1. /\ s \in Live /\ pane' = [pane EXCEPT ![s] = r] /\ turns' = [turns EXCEPT ![c] = turns[c] + 1]
        /\ UNCHANGED <<msgs, asked, watch, state, subs, log, looks>>
    BY DEF TurnStarts, unwatched, Types
  <1>2. pane[s] \in PaneState /\ c \in Conv
    BY <1>1, Shape, PaneFields
  <1>3. r \in PaneState /\ r.conv = c /\ r.dialog = pane[s].dialog
    BY <1>2 DEF PaneState
  <1> HIDE DEF r
  <1>4. /\ pane' \in [Session -> PaneState \union {None}] /\ OneSession'
        /\ \A t \in Live' : /\ t \in Live /\ pane'[t] = (IF t = s THEN r ELSE pane[t])
                            /\ pane'[t].conv = pane[t].conv
    BY <1>1, <1>3, OnePane
  <1>5. turns' \in [Conv -> Nat] /\ turns'[c] = turns[c] + 1
        /\ \A d \in Conv : turns[d] <= turns'[d] /\ turns[d] \in Nat
    BY <1>1, <1>2 DEF Types
  <1>6. ASSUME NEW t \in Live' PROVE Comes(t) /\ Stays(t) /\ pane'[t].dialog \in 0..Len(asked')
    <2>1. CASE t = s
      <3>1. pane'[t] = r /\ pane'[t].conv = c /\ t \in Live /\ pane[t].dialog \in 0..Len(asked)
        BY <1>3, <1>4, <2>1 DEF Dialogs
      <3>2. turns[c] < turns'[c]
        BY <1>2, <1>5
      <3> QED BY <1>1, <1>3, <2>1, <3>1, <3>2 DEF Comes, Stays
    <2>2. CASE t # s
      <3>1. pane'[t] = pane[t] /\ t \in Live /\ pane[t].dialog \in 0..Len(asked)
        BY <1>4, <2>2 DEF Dialogs
      <3> QED BY <1>1, <3>1 DEF Comes, Stays
    <2> QED BY <2>1, <2>2
  <1>7. LooksKept
    BY <1>1, StillLooks
  <1>8. Types'
    BY <1>1, <1>4, <1>5 DEF Types
  <1> QED BY <1>1, <1>4, <1>5, <1>6, <1>7, <1>8 DEF Evolves

LEMMA SaysEvolves ==
  ASSUME Types, OneSession, Dialogs, NEW s \in Session, Says(s)
  PROVE  Types' /\ OneSession' /\ Evolves
  <1>1. /\ s \in Live /\ pane[s].tui = "working" /\ msgs' = Append(msgs, Says1(s))
        /\ UNCHANGED <<pane, turns, asked, watch, state, subs, log, looks>>
    BY DEF Says, unwatched, Says1
  <1>2. pane[s].conv \in Conv
    BY <1>1, Shape, PaneFields
  <1>3. Says1(s) \in Message
    BY <1>2 DEF Says1, Message, Types
  <1>4. msgs' \in Seq(Message)
    BY <1>1, <1>3, AppendProperties DEF Types
  <1>5. Live' = Live
    BY <1>1 DEF Live
  <1>6. ASSUME NEW t \in Live' PROVE Comes(t) /\ Stays(t) /\ pane'[t].dialog \in 0..Len(asked')
    BY <1>1, <1>5 DEF Comes, Stays, Dialogs
  <1>7. \A c \in Conv : turns[c] <= turns'[c]
    BY <1>1 DEF Types
  <1>8. LooksKept
    BY <1>1, StillLooks
  <1>9. Types' /\ OneSession'
    BY <1>1, <1>4, <1>5 DEF Types, OneSession
  <1> QED BY <1>1, <1>6, <1>7, <1>8, <1>9 DEF Evolves

\* A pane that stays in its turn.
LEMMA PaneEvolves ==
  ASSUME Types, OneSession, Dialogs, NEW s \in Live, NEW r \in PaneState,
         pane[s].tui # "idle",
         r.conv = pane[s].conv, r.flickered = pane[s].flickered, r.dialog \in 0..Len(asked'),
         pane' = [pane EXCEPT ![s] = r], UNCHANGED <<turns, msgs, watch, state, subs, log, looks>>,
         asked' \in Seq(Nat), Len(asked) <= Len(asked'),
         \/ asked' = asked
         \/ \E text \in 1..Len(asked) + 1 : asked' = Append(asked, text)
  PROVE  Types' /\ OneSession' /\ Evolves
  <1>1. /\ pane' \in [Session -> PaneState \union {None}] /\ OneSession'
        /\ \A t \in Live' : /\ t \in Live /\ pane'[t] = (IF t = s THEN r ELSE pane[t])
                            /\ pane'[t].conv = pane[t].conv
    BY OnePane
  <1>2. \A c \in Conv : turns[c] <= turns'[c]
    BY DEF Types
  <1>3. Len(asked) \in Nat /\ Len(asked') \in Nat
    BY LenProperties DEF Types
  <1>4. ASSUME NEW t \in Live' PROVE Comes(t) /\ Stays(t) /\ pane'[t].dialog \in 0..Len(asked')
    <2>1. CASE t = s
      <3>1. pane'[t] = r /\ t \in Live
        BY <1>1, <2>1
      <3> QED BY <2>1, <3>1 DEF Comes, Stays
    <2>2. CASE t # s
      <3>1. pane'[t] = pane[t] /\ t \in Live /\ pane[t].dialog \in 0..Len(asked)
        BY <1>1, <2>2 DEF Dialogs
      <3> QED BY <1>3, <3>1 DEF Comes, Stays
    <2> QED BY <2>1, <2>2
  <1>5. LooksKept
    BY StillLooks
  <1>6. Types'
    BY <1>1 DEF Types
  <1> QED BY <1>1, <1>2, <1>4, <1>5, <1>6 DEF Evolves

LEMMA TurnEndsEvolves ==
  ASSUME Types, OneSession, Dialogs, NEW s \in Session, TurnEnds(s)
  PROVE  Types' /\ OneSession' /\ Evolves
  <1> DEFINE r == [pane[s] EXCEPT !.tui = "idle"]
  <1>1. /\ s \in Live /\ pane[s].tui = "working" /\ pane' = [pane EXCEPT ![s] = r]
        /\ UNCHANGED <<turns, msgs, asked, watch, state, subs, log, looks>>
    BY DEF TurnEnds, unwatched
  <1>2. pane[s] \in PaneState /\ pane[s].dialog \in 0..Len(asked) /\ Len(asked) \in Nat
    BY <1>1, Shape DEF Dialogs
  <1>3. r \in PaneState /\ r.conv = pane[s].conv /\ r.flickered = pane[s].flickered
        /\ r.dialog = pane[s].dialog
    BY <1>2 DEF PaneState
  <1> HIDE DEF r
  <1>4. /\ asked' \in Seq(Nat) /\ asked' = asked /\ Len(asked) <= Len(asked')
        /\ r.dialog \in 0..Len(asked')
    BY <1>1, <1>2, <1>3 DEF Types
  <1>5. pane[s].tui # "idle"
    BY <1>1
  <1> QED BY <1>1, <1>2, <1>3, <1>4, <1>5, PaneEvolves

LEMMA AnsweredEvolves ==
  ASSUME Types, OneSession, Dialogs, NEW s \in Session, Answered(s)
  PROVE  Types' /\ OneSession' /\ Evolves
  <1> DEFINE r == [pane[s] EXCEPT !.tui = "working", !.dialog = 0]
  <1>1. /\ s \in Live /\ pane[s].tui = "dialog" /\ pane' = [pane EXCEPT ![s] = r]
        /\ UNCHANGED <<turns, msgs, asked, watch, state, subs, log, looks>>
    BY DEF Answered, unwatched
  <1>2. pane[s] \in PaneState /\ Len(asked) \in Nat
    BY <1>1, Shape
  <1>3. r \in PaneState /\ r.conv = pane[s].conv /\ r.flickered = pane[s].flickered
        /\ r.dialog = 0
    BY <1>2 DEF PaneState
  <1> HIDE DEF r
  <1>4. /\ asked' \in Seq(Nat) /\ asked' = asked /\ Len(asked) <= Len(asked')
        /\ r.dialog \in 0..Len(asked')
    BY <1>1, <1>2, <1>3 DEF Types
  <1>5. pane[s].tui # "idle"
    BY <1>1
  <1> QED BY <1>1, <1>2, <1>3, <1>4, <1>5, PaneEvolves

LEMMA AsksEvolves ==
  ASSUME Types, OneSession, Dialogs, NEW s \in Session, Asks(s)
  PROVE  Types' /\ OneSession' /\ Evolves
  <1> DEFINE k == Len(asked) + 1
             r == [pane[s] EXCEPT !.tui = "dialog", !.dialog = k]
  <1>1. /\ s \in Live /\ pane[s].tui = "working" /\ pane' = [pane EXCEPT ![s] = r]
        /\ UNCHANGED <<turns, msgs, watch, state, subs, log, looks>>
    BY DEF Asks, unwatched
  <1>2. PICK text \in {Len(asked) + 1} \union {asked[d] : d \in DOMAIN asked} :
          asked' = Append(asked, text)
    BY DEF Asks
  <1>3. pane[s] \in PaneState /\ Len(asked) \in Nat /\ asked \in Seq(Nat)
    BY <1>1, Shape DEF Types
  <1>4. text \in 1..Len(asked) + 1
    BY <1>2, <1>3 DEF Dialogs
  <1>5. asked' \in Seq(Nat) /\ Len(asked') = Len(asked) + 1
    BY <1>2, <1>3, <1>4, AppendProperties
  <1>6. r \in PaneState /\ r.conv = pane[s].conv /\ r.flickered = pane[s].flickered
        /\ r.dialog = k
    <2>1. k \in Nat
      BY <1>3
    <2> HIDE DEF k
    <2> QED BY <1>3, <2>1 DEF PaneState
  <1> HIDE DEF r
  <1>7. r.dialog \in 0..Len(asked') /\ Len(asked) <= Len(asked')
    BY <1>3, <1>5, <1>6
  <1> QED BY <1>1, <1>2, <1>4, <1>5, <1>6, <1>7, PaneEvolves

LEMMA CloseEvolves ==
  ASSUME Types, OneSession, Dialogs, NEW s \in Session, Close(s)
  PROVE  Types' /\ OneSession' /\ Evolves
  <1>1. /\ pane' = [pane EXCEPT ![s] = None]
        /\ UNCHANGED <<turns, msgs, asked, watch, state, subs, log, looks>>
    BY DEF Close, unwatched
  <1>2. pane' \in [Session -> PaneState \union {None}]
        /\ \A t \in Live' : t \in Live /\ pane'[t] = pane[t]
    BY <1>1 DEF Types, Live
  <1>3. OneSession'
    BY <1>2 DEF OneSession
  <1>4. ASSUME NEW t \in Live' PROVE Comes(t) /\ Stays(t) /\ pane'[t].dialog \in 0..Len(asked')
    BY <1>1, <1>2 DEF Comes, Stays, Dialogs
  <1>5. LooksKept
    BY <1>1, StillLooks
  <1>6. \A c \in Conv : turns[c] <= turns'[c]
    BY <1>1 DEF Types
  <1> QED BY <1>1, <1>2, <1>3, <1>4, <1>5, <1>6 DEF Types, Evolves

LEMMA TakesLooks ==
  ASSUME Types, NEW t \in Session, Takes(t)
  PROVE  LooksKept /\ (~looks'.retaken => state[t] = None /\ watch.name # t)
  BY DEF Types, Takes, LooksKept, Looks

LEMMA RenameEvolves ==
  ASSUME Types, OneSession, Dialogs, NEW s \in Session, NEW t \in Session, Rename(s, t)
  PROVE  Types' /\ OneSession' /\ Evolves
  <1>1. /\ s \in Live /\ t \notin Live /\ Takes(t)
        /\ pane' = [pane EXCEPT ![s] = None, ![t] = pane[s]]
        /\ UNCHANGED <<turns, msgs, asked, watch, state, subs, log>>
    BY DEF Rename, unwatched
  <1>2. s # t
    BY <1>1
  <1>3. pane' \in [Session -> PaneState \union {None}]
        /\ \A u \in Session : pane'[u] = IF u = t THEN pane[s] ELSE IF u = s THEN None ELSE pane[u]
    BY <1>1, <1>2 DEF Types
  <1>4. \A u \in Live' : /\ u = t => pane'[u] = pane[s]
                         /\ u # t => u \in Live /\ u # s /\ pane'[u] = pane[u]
    BY <1>1, <1>3 DEF Live
  <1>5. OneSession'
    <2> SUFFICES ASSUME NEW u \in Live', NEW v \in Live', pane'[u].conv = pane'[v].conv
                 PROVE  u = v
      BY DEF OneSession
    <2>1. CASE u = t /\ v # t
      <3>1. pane[v].conv = pane[s].conv /\ v \in Live /\ v # s
        BY <1>4, <2>1
      <3> QED BY <1>1, <3>1 DEF OneSession
    <2>2. CASE v = t /\ u # t
      <3>1. pane[u].conv = pane[s].conv /\ u \in Live /\ u # s
        BY <1>4, <2>2
      <3> QED BY <1>1, <3>1 DEF OneSession
    <2>3. CASE u # t /\ v # t
      <3>1. pane[u].conv = pane[v].conv /\ u \in Live /\ v \in Live
        BY <1>4, <2>3
      <3> QED BY <3>1 DEF OneSession
    <2> QED BY <2>1, <2>2, <2>3
  <1>6. LooksKept /\ (~looks'.retaken => state[t] = None /\ watch.name # t)
    BY <1>1, TakesLooks
  <1>7. ASSUME NEW u \in Live'
        PROVE  /\ Comes(u) /\ pane'[u].dialog \in 0..Len(asked')
               /\ ~looks'.retaken => (state[u] # None \/ watch.name = u => Stays(u))
    <2>1. CASE u = t
      <3>1. Comes(u)
        BY <1>1, <1>4, <2>1 DEF Comes
      <3> QED BY <1>1, <1>4, <1>6, <2>1, <3>1 DEF Dialogs
    <2>2. CASE u # t
      BY <1>1, <1>4, <2>2 DEF Dialogs, Comes, Stays
    <2> QED BY <2>1, <2>2
  <1>8. \A c \in Conv : turns[c] <= turns'[c]
    BY <1>1 DEF Types
  <1>9. Types'
    BY <1>1, <1>3, <1>6 DEF Types, LooksKept
  <1> QED BY <1>1, <1>5, <1>6, <1>7, <1>8, <1>9 DEF Evolves

LEMMA OpenEvolves ==
  ASSUME Types, OneSession, Dialogs, NEW s \in Session, NEW c \in Conv, Open(s, c)
  PROVE  Types' /\ OneSession' /\ Evolves
  <1> DEFINE r == [conv |-> c, tui |-> "idle", dialog |-> 0, flickered |-> FALSE]
  <1>1. /\ s \notin Live /\ c \notin LiveConvs /\ Takes(s) /\ pane' = [pane EXCEPT ![s] = r]
        /\ UNCHANGED <<turns, msgs, asked, watch, state, subs, log>>
    BY DEF Open, unwatched
  <1>2. r \in PaneState
    BY DEF PaneState
  <1>3. r.conv = c /\ r.tui = "idle" /\ r.dialog = 0
    OBVIOUS
  <1> HIDE DEF r
  <1>4. pane' \in [Session -> PaneState \union {None}]
        /\ \A u \in Session : pane'[u] = IF u = s THEN r ELSE pane[u]
    BY <1>1, <1>2 DEF Types
  <1>5. \A u \in Live' : /\ u = s => pane'[u] = r
                         /\ u # s => u \in Live /\ pane'[u] = pane[u] /\ pane[u].conv # c
    BY <1>1, <1>4 DEF Live, LiveConvs
  <1>6. OneSession'
    <2> SUFFICES ASSUME NEW u \in Live', NEW v \in Live', pane'[u].conv = pane'[v].conv
                 PROVE  u = v
      BY DEF OneSession
    <2> QED BY <1>3, <1>5 DEF OneSession
  <1>7. LooksKept /\ (~looks'.retaken => state[s] = None /\ watch.name # s)
    BY <1>1, TakesLooks
  <1>8. Len(asked) \in Nat
    BY Shape
  <1>9. ASSUME NEW u \in Live'
        PROVE  /\ Comes(u) /\ pane'[u].dialog \in 0..Len(asked')
               /\ ~looks'.retaken => (state[u] # None \/ watch.name = u => Stays(u))
    <2>1. CASE u = s
      BY <1>1, <1>3, <1>5, <1>7, <1>8, <2>1 DEF Comes
    <2>2. CASE u # s
      BY <1>1, <1>5, <2>2 DEF Dialogs, Comes, Stays
    <2> QED BY <2>1, <2>2
  <1>10. \A d \in Conv : turns[d] <= turns'[d]
    BY <1>1 DEF Types
  <1>11. Types'
    BY <1>1, <1>4, <1>7 DEF Types, LooksKept
  <1> QED BY <1>1, <1>6, <1>7, <1>9, <1>10, <1>11 DEF Evolves

LEMMA ClaudeEvolves ==
  ASSUME Types, OneSession, Dialogs, NEW s \in Session, Claude(s)
  PROVE  Types' /\ OneSession' /\ Evolves
  BY TurnStartsEvolves, SaysEvolves, TurnEndsEvolves, AsksEvolves, AnsweredEvolves, CloseEvolves,
     RenameEvolves, OpenEvolves DEF Claude

-----------------------------------------------------------------------------
(* What the invariant says whatever became of the names *)

LEMMA MaxIs ==
  ASSUME NEW S \in SUBSET Nat, NEW k \in S, \A y \in S : y <= k
  PROVE  Max(S) = k
  <1>1. \A x \in S : (\A y \in S : x >= y) => x = k
    OBVIOUS
  <1>2. \A y \in S : k >= y
    OBVIOUS
  <1> QED BY <1>1, <1>2 DEF Max

\* The messages of a conversation so far.
Said(c) == {0} \union {m \in DOMAIN msgs : msgs[m].conv = c}

LEMMA LastIs ==
  ASSUME Types, Latest, NEW c \in Conv
  PROVE  LastMessage(c) \in Said(c) /\ Said(c) \in SUBSET Nat /\ \A m \in Said(c) : m <= LastMessage(c)
  <1>1. LastMessage(c) \in 0..Len(msgs) /\ Len(msgs) \in Nat /\ DOMAIN msgs = 1..Len(msgs)
    BY Shape DEF Latest
  <1>2. LastMessage(c) # 0 => msgs[LastMessage(c)].conv = c
    BY DEF Latest
  <1>3. \A m \in DOMAIN msgs : msgs[m].conv = c => m <= LastMessage(c)
    BY DEF Latest
  <1> QED BY <1>1, <1>2, <1>3 DEF Said

\* How the messages and the questions grow in a step of a session.
LEMMA Growth ==
  ASSUME Types, Types', Evolves
  PROVE  /\ Len(msgs) <= Len(msgs') /\ Len(asked) <= Len(asked')
         /\ \A m \in DOMAIN msgs : m \in DOMAIN msgs' /\ msgs'[m] = msgs[m]
         /\ \A d \in DOMAIN asked : d \in DOMAIN asked' /\ asked'[d] = asked[d]
         /\ \A m \in DOMAIN msgs' \ DOMAIN msgs :
              /\ m = Len(msgs) + 1 /\ UNCHANGED <<pane, turns>>
              /\ \E s \in Live : pane[s].tui = "working" /\ msgs'[m] = Says1(s)
         /\ \A d \in DOMAIN asked' \ DOMAIN asked :
              /\ d = Len(asked) + 1
              /\ asked'[d] \in 1..Len(asked) + 1
  <1>1. /\ Len(msgs) <= Len(msgs')
        /\ \A m \in DOMAIN msgs : m \in DOMAIN msgs' /\ msgs'[m] = msgs[m]
        /\ \A m \in DOMAIN msgs' \ DOMAIN msgs :
             /\ m = Len(msgs) + 1 /\ UNCHANGED <<pane, turns>>
             /\ \E s \in Live : pane[s].tui = "working" /\ msgs'[m] = Says1(s)
    <2>1. CASE msgs' = msgs
      BY <2>1, Shape
    <2>2. CASE /\ UNCHANGED <<pane, turns>>
               /\ \E s \in Live : pane[s].tui = "working" /\ msgs' = Append(msgs, Says1(s))
      <3>1. PICK s \in Live : pane[s].tui = "working" /\ msgs' = Append(msgs, Says1(s))
        BY <2>2
      <3>2. msgs \in Seq(Message) /\ Says1(s) \in Message
        BY Shape, PaneFields DEF Types, Says1, Message
      <3>3. /\ Len(msgs') = Len(msgs) + 1 /\ Len(msgs) \in Nat
            /\ DOMAIN msgs = 1..Len(msgs) /\ DOMAIN msgs' = 1..Len(msgs) + 1
            /\ \A m \in 1..Len(msgs) : msgs'[m] = msgs[m]
            /\ msgs'[Len(msgs) + 1] = Says1(s)
        BY <3>1, <3>2, AppendProperties, LenProperties
      <3> HIDE DEF Says1
      <3> QED BY <2>2, <3>1, <3>3
    <2> QED BY <2>1, <2>2 DEF Evolves
  <1>2. /\ Len(asked) <= Len(asked')
        /\ \A d \in DOMAIN asked : d \in DOMAIN asked' /\ asked'[d] = asked[d]
        /\ \A d \in DOMAIN asked' \ DOMAIN asked :
             /\ d = Len(asked) + 1
             /\ asked'[d] \in 1..Len(asked) + 1
    <2>1. CASE asked' = asked
      BY <2>1, Shape
    <2>2. CASE \E text \in 1..Len(asked) + 1 : asked' = Append(asked, text)
      <3>1. PICK text \in 1..Len(asked) + 1 : asked' = Append(asked, text)
        BY <2>2
      <3>2. asked \in Seq(Nat) /\ Len(asked) \in Nat /\ text \in Nat
        BY <3>1, Shape DEF Types
      <3>3. /\ Len(asked') = Len(asked) + 1
            /\ DOMAIN asked = 1..Len(asked) /\ DOMAIN asked' = 1..Len(asked) + 1
            /\ \A m \in 1..Len(asked) : asked'[m] = asked[m]
            /\ asked'[Len(asked) + 1] = text
        BY <3>1, <3>2, AppendProperties, LenProperties
      <3> QED BY <3>1, <3>2, <3>3
    <2> QED BY <2>1, <2>2 DEF Evolves
  <1> QED BY <1>1, <1>2

LEMMA EvolvesLatest ==
  ASSUME Types, Types', Latest, Evolves
  PROVE  Latest'
  <1> SUFFICES ASSUME NEW c \in Conv
               PROVE  /\ LastMessage(c)' \in 0..Len(msgs')
                      /\ LastMessage(c)' # 0 => msgs'[LastMessage(c)'].conv = c
                      /\ \A m \in DOMAIN msgs' : msgs'[m].conv = c => m <= LastMessage(c)'
    BY DEF Latest
  <1> DEFINE l == LastMessage(c)
  <1>1. l \in Said(c) /\ Said(c) \in SUBSET Nat /\ \A m \in Said(c) : m <= l
    BY LastIs
  <1>2. LastMessage(c)' = Max(Said(c)')
    BY DEF LastMessage, Said
  <1>3. /\ Len(msgs) \in Nat /\ DOMAIN msgs = 1..Len(msgs)
        /\ Len(msgs') \in Nat /\ DOMAIN msgs' = 1..Len(msgs')
    BY Shape, LenProperties DEF Types
  <1> HIDE DEF l
  <1>4. Said(c)' \in SUBSET Nat
    BY <1>3 DEF Said
  <1>5. \A m \in DOMAIN msgs : m \in DOMAIN msgs' /\ msgs'[m] = msgs[m]
    BY Growth
  <1>6. \A m \in DOMAIN msgs' \ DOMAIN msgs : m = Len(msgs) + 1
    BY Growth
  <1>7. CASE \E k \in DOMAIN msgs' \ DOMAIN msgs : msgs'[k].conv = c
    <2>1. PICK k \in DOMAIN msgs' \ DOMAIN msgs : msgs'[k].conv = c
      BY <1>7
    <2>2. k \in Said(c)' /\ k = Len(msgs) + 1
      BY <1>6, <2>1 DEF Said
    <2>3. \A m \in Said(c)' : m <= k
      BY <1>3, <1>6, <2>2 DEF Said
    <2>4. Max(Said(c)') = k
      BY <1>4, <2>2, <2>3, MaxIs
    <2>5. LastMessage(c)' = k /\ k \in 0..Len(msgs')
      BY <1>2, <1>3, <2>1, <2>4
    <2>6. \A m \in DOMAIN msgs' : msgs'[m].conv = c => m <= k
      BY <2>3 DEF Said
    <2> QED BY <2>1, <2>5, <2>6
  <1>8. CASE \A k \in DOMAIN msgs' \ DOMAIN msgs : msgs'[k].conv # c
    <2>1. \A m \in Said(c)' : m \in Said(c)
      BY <1>5, <1>8 DEF Said
    <2>2. l \in Said(c)'
      BY <1>1, <1>5 DEF Said
    <2>3. Max(Said(c)') = l
      BY <1>1, <1>4, <2>1, <2>2, MaxIs
    <2>4. l \in 0..Len(msgs') /\ (l # 0 => msgs'[l].conv = c)
      BY <1>3, <2>2 DEF Said
    <2>5. \A m \in DOMAIN msgs' : msgs'[m].conv = c => m <= l
      BY <1>1, <2>1 DEF Said
    <2> QED BY <1>2, <2>3, <2>4, <2>5
  <1> QED BY <1>7, <1>8

LEMMA EvolvesPast ==
  ASSUME Types, Types', Past, Evolves
  PROVE  Past'
  <1>1. \A c \in Conv : turns[c] <= turns'[c] /\ turns[c] \in Nat /\ turns'[c] \in Nat
    BY DEF Evolves, Types
  <1>2. ASSUME NEW m \in DOMAIN msgs' PROVE msgs'[m].turn <= turns'[msgs'[m].conv]
    <2>1. CASE m \in DOMAIN msgs
      <3>1. msgs'[m] = msgs[m]
        BY <2>1, Growth
      <3>2. msgs[m].turn <= turns[msgs[m].conv]
        BY <2>1 DEF Past
      <3>3. msgs[m].conv \in Conv /\ msgs[m].turn \in Nat
        BY <2>1, Shape DEF Message
      <3> QED BY <1>1, <3>1, <3>2, <3>3
    <2>2. CASE m \notin DOMAIN msgs
      <3>1. turns' = turns /\ \E s \in Live : pane[s].tui = "working" /\ msgs'[m] = Says1(s)
        BY <2>2, Growth
      <3>2. PICK s \in Live : msgs'[m] = Says1(s)
        BY <3>1
      <3>3. msgs'[m].turn = turns[pane[s].conv] /\ msgs'[m].conv = pane[s].conv /\ pane[s].conv \in Conv
        BY <3>2, Shape, PaneFields DEF Says1
      <3> QED BY <1>1, <3>1, <3>3
    <2> QED BY <2>1, <2>2
  <1>3. /\ looks'.working = looks.working /\ looks'.missed = looks.missed
        /\ looks'.covered = looks.covered
    BY DEF Evolves, LooksKept
  <1>4. ASSUME NEW T \in looks.working \union looks.missed \union looks.covered
        PROVE  T[2] <= turns'[T[1]]
    <2>1. T[1] \in Conv /\ T[2] \in Nat
      BY Shape, LooksFields DEF TurnId
    <2>2. T[2] <= turns[T[1]]
      BY DEF Past
    <2> QED BY <1>1, <2>1, <2>2
  <1> QED BY <1>2, <1>3, <1>4 DEF Past

LEMMA EvolvesBase ==
  ASSUME Base, Types', OneSession', Evolves
  PROVE  Base'
  <1>0. UNCHANGED <<watch, state, subs, log>>
    BY DEF Evolves
  <1>1. Latest' /\ Past'
    BY EvolvesLatest, EvolvesPast DEF Base
  <1>2. /\ Len(msgs) \in Nat /\ Len(msgs') \in Nat /\ Len(asked) \in Nat /\ Len(asked') \in Nat
        /\ DOMAIN asked = 1..Len(asked) /\ DOMAIN asked' = 1..Len(asked')
        /\ Len(msgs) <= Len(msgs') /\ Len(asked) <= Len(asked')
    BY Growth, LenProperties DEF Base, Types
  <1>3. Control'
    <2>1. watch.dialog # 0 => asked'[watch.dialog] = asked[watch.dialog]
      BY <1>2, Growth DEF Base, Control
    <2>2. watch.last \in 0..Len(msgs') /\ watch.dialog \in 0..Len(asked')
      BY <1>2 DEF Base, Control
    <2> QED BY <1>0, <2>1, <2>2 DEF Base, Control
  <1>4. Dialogs'
    <2>1. ASSUME NEW d \in DOMAIN asked'
          PROVE  asked'[d] \in 1..Len(asked')
      <3>1. CASE d \in DOMAIN asked
        <4>1. asked'[d] = asked[d]
          BY <3>1, Growth DEF Base
        <4>2. asked[d] \in 1..Len(asked)
          BY <3>1 DEF Base, Dialogs
        <4> QED BY <1>2, <4>1, <4>2
      <3>2. CASE d \notin DOMAIN asked
        <4>1. d = Len(asked) + 1 /\ asked'[d] \in 1..Len(asked) + 1
          BY <3>2, Growth DEF Base
        <4> QED BY <1>2, <4>1
      <3> QED BY <3>1, <3>2
    <2>2. \A t \in Live' : pane'[t].dialog \in 0..Len(asked')
      BY DEF Evolves
    <2> QED BY <2>1, <2>2 DEF Dialogs
  <1>5. DialogTold'
    <2>1. \A d \in DOMAIN asked : d \in DOMAIN asked' /\ asked'[d] = asked[d]
      BY Growth DEF Base
    <2>2. ToldDialogs' = ToldDialogs
      BY <1>0 DEF ToldDialogs
    <2> QED BY <1>0, <2>1, <2>2 DEF Base, DialogTold
  <1>6. Logged'
    <2>1. \A m \in DOMAIN msgs : m \in DOMAIN msgs' /\ msgs'[m] = msgs[m]
      BY Growth DEF Base
    <2>2. looks'.working = looks.working
      BY DEF Evolves, LooksKept
    <2> QED BY <1>0, <2>1, <2>2 DEF Base, Logged, TurnEvents, TurnOf
  <1>7. Delivery'
    BY <1>0 DEF Base, Delivery
  <1> QED BY <1>1, <1>3, <1>4, <1>5, <1>6, <1>7 DEF Base

\* The log grows, by no turn.
NoTurnLogged ==
  /\ \A i \in DOMAIN log : i \in DOMAIN log' /\ log'[i] = log[i]
  /\ \A i \in DOMAIN log' \ DOMAIN log : log'[i].kind # "turn"

LEMMA SameTurns ==
  ASSUME NoTurnLogged
  PROVE  /\ TurnEvents' = TurnEvents /\ \A i \in TurnEvents : log'[i] = log[i]
         /\ ToldDialogs \subseteq ToldDialogs'
  BY DEF NoTurnLogged, TurnEvents, ToldDialogs

\* A step of the hub.
HubStep == UNCHANGED <<claude, watch, state, looks>> /\ NoTurnLogged

LEMMA HubSteps ==
  ASSUME Types, Delivery, Hub
  PROVE  Types' /\ Delivery' /\ HubStep
  <1>1. CASE Audit
    <2> DEFINE e == [kind |-> "audit", n |-> Len(log)]
    <2>1. e \in Event /\ e.kind = "audit"
      BY Shape DEF Event
    <2>2. log' = Append(log, e) /\ UNCHANGED <<claude, watch, state, looks>>
      BY <1>1 DEF Audit
    <2> HIDE DEF e
    <2>3. /\ Len(log') = Len(log) + 1 /\ Len(log) \in Nat
          /\ DOMAIN log = 1..Len(log) /\ DOMAIN log' = 1..Len(log) + 1
          /\ \A i \in 1..Len(log) : log'[i] = log[i]
          /\ log'[Len(log) + 1] = e
      BY <2>1, <2>2, AppendProperties, LenProperties DEF Types
    <2>4. NoTurnLogged
      BY <2>1, <2>3 DEF NoTurnLogged
    <2> QED BY <1>1, <2>2, <2>4, AuditTypes DEF HubStep
  <1>2. ASSUME NEW x \in Subscriber, Subscribe(x) \/ Receive(x) \/ Unsubscribe(x)
        PROVE  Types' /\ Delivery' /\ HubStep
    <2>1. log' = log /\ UNCHANGED <<claude, watch, state, looks>>
      BY <1>2 DEF Subscribe, Receive, Unsubscribe
    <2>2. HubStep
      BY <2>1 DEF HubStep, NoTurnLogged
    <2> QED BY <1>2, <2>2, SubscribeTypes, ReceiveTypes, UnsubscribeTypes
  <1> QED BY <1>1, <1>2 DEF Hub

LEMMA HubBase ==
  ASSUME Base, Types', Delivery', HubStep
  PROVE  Base'
  <1>1. UNCHANGED <<pane, turns, msgs, asked, watch, state, looks>>
    BY DEF HubStep, claude
  <1>2. Live' = Live
    BY <1>1 DEF Live
  <1>3. OneSession' /\ Latest' /\ Past' /\ Control' /\ Dialogs'
    BY <1>1, <1>2 DEF Base, OneSession, Latest, LastMessage, Past, Control, Dialogs
  <1>4. TurnEvents' = TurnEvents /\ (\A i \in TurnEvents : log'[i] = log[i])
        /\ ToldDialogs \subseteq ToldDialogs'
    BY SameTurns DEF HubStep
  <1>5. DialogTold'
    BY <1>1, <1>4 DEF Base, DialogTold
  <1>6. Logged'
    BY <1>1, <1>4 DEF Base, Logged, TurnOf
  <1> QED BY <1>3, <1>5, <1>6 DEF Base

-----------------------------------------------------------------------------
(* Announcements, while the names are kept: steps that announce nothing *)

LEMMA NamesWereKept ==
  ASSUME Types, LooksKept, LooksSound'
  PROVE  LooksSound /\ ~looks'.retaken
  BY DEF LooksKept, LooksSound

\* Turn events are what Logged says.
LEMMA TurnEventIs ==
  ASSUME Base, NEW i \in TurnEvents
  PROVE  /\ i \in DOMAIN log /\ log[i] \in Event /\ log[i].n \in DOMAIN msgs /\ log[i].n \in Nat
         /\ log[i].turn = TurnOf(log[i].n) /\ log[i].turn \in TurnId
         /\ log[i].turn[1] = msgs[log[i].n].conv
         /\ log[i].turn[2] <= turns[log[i].turn[1]]
         /\ log[i].kind = "turn" /\ log[i].seen \in BOOLEAN
  <1>1. i \in DOMAIN log /\ log[i].kind = "turn" /\ log[i].n \in DOMAIN msgs
        /\ log[i].turn = TurnOf(log[i].n)
    BY DEF Base, Logged, TurnEvents
  <1>2. log[i] \in Event
    BY <1>1, Shape DEF Base
  <1>3. log[i].seen \in BOOLEAN
    BY <1>1, <1>2 DEF Event
  <1>4. log[i].n \in Nat /\ msgs[log[i].n] \in Message
    BY <1>1, Shape DEF Base
  <1>5. msgs[log[i].n].turn <= turns[msgs[log[i].n].conv]
    BY <1>1 DEF Base, Past
  <1> QED BY <1>1, <1>2, <1>3, <1>4, <1>5 DEF TurnOf, TurnId, Message

LEMMA EvolvesTurns ==
  ASSUME Base, Types', Evolves, LooksSound', Turns
  PROVE  Turns'
  <1>1. UNCHANGED <<watch, state, subs, log>> /\ ~looks'.retaken
    BY NamesWereKept DEF Evolves, Base
  <1>2. TurnEvents' = TurnEvents /\ Told' = Told
    BY <1>1 DEF TurnEvents, Told
  <1>3. \A m \in DOMAIN msgs : m \in DOMAIN msgs' /\ msgs'[m] = msgs[m]
    BY Growth DEF Base
  <1>4. \A t \in Live' : state[t] # None \/ watch.name = t => t \in Live /\ pane'[t].conv = pane[t].conv
    BY <1>1 DEF Evolves, Stays
  <1>5. Once'
    BY <1>1, <1>2 DEF Turns, Once
  <1>6. Remembered'
    <2> SUFFICES ASSUME NEW s \in Live', state[s] # None
                 PROVE  /\ <<pane'[s].conv, state[s].lastNotifiedID>> \in Told
                        /\ state[s].lastNotifiedID # 0 =>
                             /\ state[s].lastNotifiedID \in DOMAIN msgs'
                             /\ msgs'[state[s].lastNotifiedID].conv = pane'[s].conv
      BY <1>1, <1>2 DEF Remembered
    <2>1. s \in Live /\ pane'[s].conv = pane[s].conv
      BY <1>4
    <2> QED BY <1>3, <2>1 DEF Turns, Remembered
  <1>7. Sampled'
    <2> SUFFICES ASSUME Looking PROVE Sampled'
      BY <1>1 DEF Sampled, Looking
    <2>1. watch.last # 0 => watch.last \in DOMAIN msgs
      BY Shape DEF Base, Control
    <2>2. watch.last # 0 => msgs'[watch.last] = msgs[watch.last]
      BY <1>3, <2>1
    <2>3. Primed(watch.name)' = Primed(watch.name)
      BY <1>1 DEF Primed
    <2>4. ASSUME watch.last # 0
          PROVE  /\ <<msgs[watch.last].conv, Primed(watch.name).lastNotifiedID>> \in Told
                 /\ Primed(watch.name).lastNotifiedID <= watch.last
      BY <2>4 DEF Turns, Sampled
    <2>5. ASSUME watch.last # 0, watch.name \in Live'
          PROVE  pane'[watch.name].conv = msgs[watch.last].conv
      BY <1>4, <2>5 DEF Turns, Sampled
    <2>6. ASSUME watch.last # 0, NEW t \in Live', pane'[t].conv = msgs[watch.last].conv,
                 t # watch.name, state[t] # None
          PROVE  FALSE
      BY <1>4, <2>6 DEF Turns, Sampled
    <2>7. ASSUME watch.last = 0, watch.name \in Live', state[watch.name] = None
          PROVE  <<pane'[watch.name].conv, 0>> \in Told
      BY <1>4, <2>7 DEF Turns, Sampled
    <2> HIDE DEF Looking
    <2> QED BY <1>1, <1>2, <2>2, <2>3, <2>4, <2>5, <2>6, <2>7 DEF Sampled
  <1> QED BY <1>5, <1>6, <1>7 DEF Turns

\* A turn that is over stays so.
LEMMA OverStays ==
  ASSUME Types, Types', Evolves, NEW T \in Over, T[2] <= turns[T[1]]
  PROVE  T \in Over'
  <1>1. T \in TurnId /\ T[1] \in Conv /\ T[2] \in Nat /\ T = <<T[1], T[2]>>
    BY DEF Over, TurnId
  <1>2. turns[T[1]] <= turns'[T[1]] /\ turns[T[1]] \in Nat /\ turns'[T[1]] \in Nat
    BY <1>1 DEF Evolves, Types
  <1>3. CASE T[2] < turns'[T[1]]
    BY <1>1, <1>3 DEF Over
  <1>4. CASE ~(T[2] < turns'[T[1]])
    <2>1. T[2] = turns[T[1]] /\ turns'[T[1]] = turns[T[1]]
      BY <1>1, <1>2, <1>4
    <2>2. \A s \in Live : Turn(s) = T => pane[s].tui = "idle"
      BY <1>1, <1>2, <2>1 DEF Over
    <2>3. ASSUME NEW t \in Live', Turn(t)' = T PROVE pane'[t].tui = "idle"
      <3>1. pane'[t].conv = T[1]
        BY <1>1, <2>3 DEF Turn
      <3>2. Comes(t)
        BY DEF Evolves
      <3>3. ASSUME NEW s \in Live, pane[s].conv = T[1], pane[s].tui # "idle" PROVE FALSE
        <4>1. Turn(s) = T
          BY <1>1, <2>1, <3>3 DEF Turn
        <4> QED BY <2>2, <3>3, <4>1
      <3> QED BY <1>2, <2>1, <3>1, <3>2, <3>3 DEF Comes
    <2> QED BY <1>1, <2>3 DEF Over
  <1> QED BY <1>3, <1>4

\* And its last message stays the last.
LEMMA FinalStays ==
  ASSUME Base, Types', Evolves, NEW m \in Final
  PROVE  m \in Final'
  <1>1. m \in DOMAIN msgs /\ TurnOf(m) \in Over /\ \A k \in DOMAIN msgs : TurnOf(k) = TurnOf(m) => k <= m
    BY DEF Final
  <1>2. m \in DOMAIN msgs' /\ msgs'[m] = msgs[m] /\ \A k \in DOMAIN msgs : msgs'[k] = msgs[k]
    BY <1>1, Growth DEF Base
  <1>3. TurnOf(m)[1] = msgs[m].conv /\ TurnOf(m)[2] = msgs[m].turn /\ TurnOf(m)' = TurnOf(m)
        /\ msgs[m].conv \in Conv /\ msgs[m].turn \in Nat
    BY <1>1, <1>2, Shape DEF TurnOf, Message, Base
  <1>4. TurnOf(m)[2] <= turns[TurnOf(m)[1]] /\ turns[TurnOf(m)[1]] \in Nat
    BY <1>1, <1>3 DEF Base, Past, Types
  <1>5. TurnOf(m) \in Over'
    BY <1>1, <1>4, OverStays DEF Base
  <1>6. ASSUME NEW k \in DOMAIN msgs', TurnOf(k)' = TurnOf(m) PROVE k <= m
    <2>1. CASE k \in DOMAIN msgs
      BY <1>1, <1>2, <1>6, <2>1 DEF TurnOf
    <2>2. CASE k \notin DOMAIN msgs
      <3>1. \E s \in Live : pane[s].tui = "working" /\ msgs'[k] = Says1(s)
        BY <2>2, Growth DEF Base
      <3>2. PICK s \in Live : pane[s].tui = "working" /\ msgs'[k] = Says1(s)
        BY <3>1
      <3>3. Turn(s) = TurnOf(m)
        BY <1>6, <3>2 DEF TurnOf, Turn, Says1
      <3>4. TurnOf(m)[2] = turns[TurnOf(m)[1]]
        BY <3>3 DEF Turn
      <3>5. pane[s].tui = "idle"
        BY <1>1, <1>3, <1>4, <3>3, <3>4 DEF Over
      <3> QED BY <3>2, <3>5
    <2> QED BY <2>1, <2>2
  <1> QED BY <1>2, <1>3, <1>5, <1>6 DEF Final

\* A session that stays is excused as it was, in a turn that has been seen.
LEMMA ExcusedStays ==
  ASSUME Base, Types', Evolves, NEW t \in Live', Stays(t), Turn(t)' \in looks.working
  PROVE  /\ t \in Live /\ Turn(t)' = Turn(t)
         /\ t \in Excused => t \in Excused'
  <1>1. t \in Live /\ pane'[t].conv = pane[t].conv
    BY DEF Stays
  <1>2. pane[t].conv \in Conv
    BY <1>1, Shape, PaneFields DEF Base
  <1>3. turns[pane[t].conv] <= turns'[pane[t].conv] /\ turns[pane[t].conv] \in Nat
        /\ turns'[pane[t].conv] \in Nat
    BY <1>2 DEF Evolves, Base, Types
  <1>4. Turn(t)'[1] = pane[t].conv /\ Turn(t)'[2] = turns'[pane[t].conv]
    BY <1>1 DEF Turn
  <1>5. Turn(t)'[2] <= turns[Turn(t)'[1]]
    BY DEF Base, Past
  <1>6. turns'[pane[t].conv] = turns[pane[t].conv]
    BY <1>3, <1>4, <1>5
  <1>7. Turn(t)' = Turn(t)
    BY <1>1, <1>6 DEF Turn
  <1>8. pane'[t].flickered = pane[t].flickered /\ (pane[t].tui = "idle" => pane'[t].tui = "idle")
    BY <1>1, <1>3, <1>6 DEF Stays
  <1>9. looks'.missed = looks.missed /\ looks'.covered = looks.covered
    BY DEF Evolves, LooksKept
  <1>10. t \in Excused => t \in Excused'
    BY <1>1, <1>7, <1>8, <1>9 DEF Excused
  <1> QED BY <1>1, <1>7, <1>10

\* The message looked at.
LEMMA LastTurn ==
  ASSUME Base, watch.last # 0
  PROVE  /\ watch.last \in DOMAIN msgs /\ TurnOf(watch.last) \in TurnId
         /\ TurnOf(watch.last)[1] = msgs[watch.last].conv
         /\ TurnOf(watch.last)[2] <= turns[TurnOf(watch.last)[1]]
         /\ msgs[watch.last].conv \in Conv
  <1>1. watch.last \in DOMAIN msgs
    BY Shape DEF Base, Control
  <1>2. msgs[watch.last] \in Message
    BY <1>1, Shape DEF Base
  <1> QED BY <1>1, <1>2 DEF TurnOf, TurnId, Message, Base, Past

LEMMA EvolvesSamples ==
  ASSUME Base, Types', Evolves, LooksSound', Samples
  PROVE  Samples'
  <1>1. UNCHANGED <<watch, state, subs, log>> /\ ~looks'.retaken
    BY NamesWereKept DEF Evolves, Base
  <1>2. TurnEvents' = TurnEvents /\ Streaked' = Streaked /\ IdleSample' = IdleSample
        /\ Looking' = Looking /\ \A s : Resetting(s)' = Resetting(s)
    BY <1>1 DEF TurnEvents, Streaked, IdleSample, Looking, Resetting
  <1>3. /\ looks'.working = looks.working /\ looks'.missed = looks.missed
        /\ looks'.covered = looks.covered
    BY DEF Evolves, LooksKept
  <1>4. \A t \in Live' : state[t] # None \/ watch.name = t => Stays(t)
    BY <1>1 DEF Evolves
  <1>5. Idled'
    <2> SUFFICES ASSUME NEW s \in Live', s \in Streaked, Turn(s)' \in looks.working
                 PROVE  Resetting(s) \/ s \in Excused'
      BY <1>2, <1>3 DEF Idled
    <2>1. Stays(s)
      BY <1>4 DEF Streaked
    <2>2. s \in Live /\ Turn(s)' = Turn(s) /\ (s \in Excused => s \in Excused')
      BY <2>1, ExcusedStays
    <2> QED BY <2>2 DEF Samples, Idled
  <1>6. SampledIdle'
    <2> SUFFICES ASSUME IdleSample, watch.name \in Live', Turn(watch.name)' \in looks.working
                 PROVE  watch.name \in Excused'
      BY <1>1, <1>2, <1>3 DEF SampledIdle
    <2>1. PICK s : s = watch.name
      OBVIOUS
    <2>2. s \in Live' /\ Stays(s)
      BY <1>4, <2>1
    <2>3. Turn(s)' \in looks.working
      BY <1>1, <2>1 DEF Turn
    <2>4. s \in Live /\ Turn(s)' = Turn(s) /\ (s \in Excused => s \in Excused')
      BY <2>2, <2>3, ExcusedStays
    <2> QED BY <2>1, <2>3, <2>4 DEF Samples, SampledIdle
  <1>7. ASSUME watch.last # 0
        PROVE  /\ TurnOf(watch.last)' = TurnOf(watch.last)
               /\ TurnOf(watch.last) \in Over => TurnOf(watch.last) \in Over'
    <2>1. msgs'[watch.last] = msgs[watch.last]
      BY <1>7, LastTurn, Growth DEF Base
    <2>2. TurnOf(watch.last) \in Over => TurnOf(watch.last) \in Over'
      BY <1>7, LastTurn, OverStays DEF Base
    <2> QED BY <1>1, <2>1, <2>2 DEF TurnOf
  <1>8. Settled'
    BY <1>1, <1>2, <1>3, <1>7 DEF Samples, Settled
  <1>9. Ripe'
    <2>1. watch.last \in Final => watch.last \in Final'
      BY FinalStays
    <2> QED BY <1>1, <1>2, <1>3, <1>7, <2>1 DEF Samples, Ripe
  <1>10. Verdicts'
    <2> SUFFICES ASSUME NEW i \in TurnEvents PROVE log[i] \in Sound'
      BY <1>1, <1>2 DEF Verdicts
    <2>1. log[i] \in Sound /\ log[i] \in Event
      BY DEF Samples, Verdicts, Sound
    <2>2. log[i].turn \in Over => log[i].turn \in Over'
      BY TurnEventIs, OverStays DEF Base
    <2>3. log[i].n \in Final => log[i].n \in Final'
      BY FinalStays
    <2> QED BY <1>3, <2>1, <2>2, <2>3 DEF Sound
  <1> QED BY <1>5, <1>6, <1>8, <1>9, <1>10 DEF Samples

LEMMA Still ==
  ASSUME UNCHANGED claude
  PROVE  /\ UNCHANGED <<pane, turns, msgs, asked>>
         /\ Live' = Live /\ (\A s : Turn(s)' = Turn(s)) /\ (\A m : TurnOf(m)' = TurnOf(m))
         /\ Over' = Over /\ Final' = Final
         /\ UNCHANGED looks => Excused' = Excused /\ Sound' = Sound
  <1>1. UNCHANGED <<pane, turns, msgs, asked>>
    BY DEF claude
  <1>2. Live' = Live /\ (\A s : Turn(s)' = Turn(s)) /\ (\A m : TurnOf(m)' = TurnOf(m))
    BY <1>1 DEF Live, Turn, TurnOf
  <1>3. Over' = Over
    BY <1>1, <1>2 DEF Over
  <1>4. Final' = Final
    BY <1>1, <1>2, <1>3 DEF Final
  <1>5. ASSUME UNCHANGED looks PROVE Excused' = Excused /\ Sound' = Sound
    BY <1>1, <1>2, <1>3, <1>4, <1>5 DEF Excused, Sound
  <1> QED BY <1>1, <1>2, <1>3, <1>4, <1>5

LEMMA HubTurns ==
  ASSUME HubStep, Turns PROVE Turns'
  <1>1. UNCHANGED <<claude, watch, state, looks>>
    BY DEF HubStep
  <1>2. UNCHANGED <<pane, turns, msgs, asked>> /\ Live' = Live
    BY <1>1, Still
  <1>3. TurnEvents' = TurnEvents /\ \A i \in TurnEvents : log'[i] = log[i]
    BY SameTurns DEF HubStep
  <1>4. Told' = Told
    BY <1>3 DEF Told
  <1>5. Once'
    BY <1>3 DEF Turns, Once
  <1>6. Remembered'
    BY <1>1, <1>2, <1>4 DEF Turns, Remembered
  <1>7. Sampled'
    BY <1>1, <1>2, <1>4 DEF Turns, Sampled, Looking, Primed
  <1> QED BY <1>5, <1>6, <1>7 DEF Turns

LEMMA HubSamples ==
  ASSUME HubStep, Samples PROVE Samples'
  <1>1. UNCHANGED <<claude, watch, state, looks>>
    BY DEF HubStep
  <1>2. /\ UNCHANGED <<pane, turns, msgs, asked>> /\ Live' = Live
        /\ (\A s : Turn(s)' = Turn(s)) /\ (\A m : TurnOf(m)' = TurnOf(m))
        /\ Over' = Over /\ Final' = Final /\ Excused' = Excused /\ Sound' = Sound
    BY <1>1, Still
  <1>3. TurnEvents' = TurnEvents /\ \A i \in TurnEvents : log'[i] = log[i]
    BY SameTurns DEF HubStep
  <1>4. Verdicts'
    BY <1>2, <1>3 DEF Samples, Verdicts
  <1>5. Streaked' = Streaked
    BY <1>1 DEF Streaked
  <1>6. Idled'
    BY <1>1, <1>2, <1>5 DEF Samples, Idled, Resetting
  <1>7. SampledIdle'
    BY <1>1, <1>2 DEF Samples, SampledIdle, IdleSample, Turn
  <1>8. Settled'
    BY <1>1, <1>2, <1>5 DEF Samples, Settled, IdleSample, TurnOf
  <1>9. Ripe'
    BY <1>1, <1>2, <1>5 DEF Samples, Ripe, Looking, TurnOf
  <1> QED BY <1>4, <1>6, <1>7, <1>8, <1>9 DEF Samples

\* A step of the watcher that ends a look, or begins one, and announces nothing.
Quiet ==
  /\ UNCHANGED <<claude, log, looks>>
  /\ ~Looking'
  /\ \A s \in Session : state'[s] \in {state[s], None}
  /\ watch.pc = "watch" => \A s \in Session : state'[s] = None

LEMMA QuietBase ==
  ASSUME Base, Types', Delivery', Control', Quiet
  PROVE  Base'
  <1>1. /\ UNCHANGED <<pane, turns, msgs, asked>> /\ Live' = Live /\ log' = log /\ looks' = looks
        /\ (\A m : TurnOf(m)' = TurnOf(m))
    BY Still DEF Quiet
  <1>2. OneSession' /\ Latest' /\ Past' /\ Dialogs'
    BY <1>1 DEF Base, OneSession, Latest, LastMessage, Past, Dialogs
  <1>3. Logged'
    BY <1>1 DEF Base, Logged, TurnEvents, TurnOf
  <1>4. DialogTold'
    <2>1. \A s \in Session : state'[s] # None => state'[s] = state[s]
      BY DEF Quiet
    <2>2. ToldDialogs' = ToldDialogs
      BY <1>1 DEF ToldDialogs
    <2> QED BY <1>1, <2>1, <2>2 DEF Base, DialogTold
  <1> QED BY <1>2, <1>3, <1>4 DEF Base

LEMMA QuietTurns ==
  ASSUME Quiet, Turns PROVE Turns'
  <1>1. UNCHANGED <<pane, turns, msgs, asked>> /\ Live' = Live /\ log' = log
    BY Still DEF Quiet
  <1>2. TurnEvents' = TurnEvents /\ Told' = Told
    BY <1>1 DEF TurnEvents, Told
  <1>3. Once'
    BY <1>1, <1>2 DEF Turns, Once
  <1>4. \A s \in Live : s \in Session /\ (state'[s] # None => state'[s] = state[s])
    BY DEF Quiet, Live
  <1>5. Remembered'
    BY <1>1, <1>2, <1>4 DEF Turns, Remembered
  <1>6. Sampled'
    BY DEF Quiet, Sampled
  <1> QED BY <1>3, <1>5, <1>6 DEF Turns

LEMMA QuietSamples ==
  ASSUME Quiet, Samples PROVE Samples'
  <1>1. /\ UNCHANGED <<pane, turns, msgs, asked>> /\ Live' = Live /\ log' = log /\ looks' = looks
        /\ (\A s : Turn(s)' = Turn(s)) /\ Excused' = Excused /\ Sound' = Sound
    BY Still DEF Quiet
  <1>2. Verdicts'
    BY <1>1 DEF Samples, Verdicts, TurnEvents
  <1>3. ~IdleSample' /\ SampledIdle' /\ Settled' /\ Ripe'
    BY DEF Quiet, Looking, IdleSample, SampledIdle, Settled, Ripe
  <1>4. \A s \in Streaked' : s \in Streaked /\ watch.pc # "watch"
    BY DEF Quiet, Streaked
  <1>5. Idled'
    BY <1>1, <1>4 DEF Samples, Idled, Resetting
  <1> QED BY <1>2, <1>3, <1>5 DEF Samples

LEMMA QuietSteps ==
  ASSUME Base, List \/ Forget \/ LookWaiting \/ Restart
  PROVE  Types' /\ Delivery' /\ Control' /\ Quiet
  <1>1. CASE List
    <2>0. PICK S \in {Live} \union May("fails", {{}}) :
            watch' = [watch EXCEPT !.pc = "next", !.todo = S, !.listed = S]
      BY <1>1 DEF List
    <2> DEFINE w == [watch EXCEPT !.pc = "next", !.todo = S, !.listed = S]
    <2>1. watch' = w /\ watch.pc = "sleep" /\ UNCHANGED <<claude, state, subs, log, looks>>
      BY <1>1, <2>0 DEF List
    <2>2. watch \in WatchRecord /\ S \subseteq Session
      BY Shape DEF Base, Live, May
    <2>3. w \in WatchRecord /\ w.pc = "next" /\ w.name = watch.name /\ w.dialog = watch.dialog
          /\ w.waiting = watch.waiting /\ w.last = watch.last
      BY <2>2 DEF WatchRecord
    <2> HIDE DEF w
    <2>4. Types' /\ Delivery'
      BY <2>1, <2>3 DEF Base, Types, Delivery, claude
    <2>5. Control'
      BY <2>1, <2>3 DEF Base, Control, claude
    <2>6. Quiet
      BY <2>1, <2>3 DEF Quiet, Looking
    <2> QED BY <2>4, <2>5, <2>6
  <1>2. CASE Forget
    <2>1. /\ watch' = NewWatch /\ watch.pc = "next" /\ UNCHANGED <<claude, subs, log, looks>>
          /\ state' = [s \in Session |-> IF s \in watch.listed THEN state[s] ELSE None]
      BY <1>2 DEF Forget
    <2>2. state' \in [Session -> WatchState \union {None}]
      BY <2>1 DEF Base, Types
    <2>3. Types' /\ Delivery'
      BY <2>1, <2>2, NewWatchType DEF Base, Types, Delivery, claude
    <2>4. Len(msgs) \in Nat /\ Len(asked) \in Nat
      BY Shape DEF Base
    <2>5. Control'
      BY <2>1, <2>4, NewWatchType DEF Control, claude
    <2>6. Quiet
      BY <2>1, NewWatchType DEF Quiet, Looking
    <2> QED BY <2>3, <2>5, <2>6
  <1>3. CASE LookWaiting
    <2>0. watch.pc = "next" /\ UNCHANGED <<claude, state, subs, log, looks>>
      BY <1>3 DEF LookWaiting
    <2>1. watch \in WatchRecord /\ watch.name = None
      BY <2>0, Shape DEF Base, Control
    <2>2. watch.todo \subseteq Session
      BY <2>1, WatchFields
    <2>3. watch' \in WatchRecord /\ Control' /\ ~Looking'
      <3>1. PICK s \in watch.todo :
              \/ watch' = [watch EXCEPT !.todo = watch.todo \ {s}]
              \/ /\ s \in Live
                 /\ watch' = [watch EXCEPT !.pc = "assistant", !.name = s, !.todo = watch.todo \ {s},
                      !.dialog = pane[s].dialog,
                      !.waiting = IF pane[s].dialog = 0 THEN 0 ELSE asked[pane[s].dialog]]
        BY <1>3 DEF LookWaiting
      <3> DEFINE d == pane[s].dialog
                 t == watch.todo \ {s}
                 v == IF d = 0 THEN 0 ELSE asked[d]
                 w1 == [watch EXCEPT !.todo = t]
                 w2 == [watch EXCEPT !.pc = "assistant", !.name = s, !.todo = t, !.dialog = d, !.waiting = v]
      <3>2. t \subseteq Session /\ s \in Session /\ s # None
        BY <2>2, Constants
      <3>3. CASE watch' = w1
        <4> HIDE DEF t
        <4>1. w1 \in WatchRecord /\ w1.pc = watch.pc /\ w1.name = watch.name /\ w1.dialog = watch.dialog
              /\ w1.waiting = watch.waiting /\ w1.last = watch.last
          BY <2>1, <3>2 DEF WatchRecord
        <4> HIDE DEF w1
        <4> QED BY <2>0, <3>3, <4>1 DEF Base, Control, claude, Looking
      <3>4. CASE s \in Live /\ watch' = w2
        <4>1. d \in 0..Len(asked) /\ Len(asked) \in Nat /\ d \in Nat
          BY <3>4, Shape DEF Base, Dialogs
        <4>2. v \in Nat
          BY <4>1, Shape DEF Base
        <4>3. v = IF d = 0 THEN 0 ELSE asked[d]
          OBVIOUS
        <4> HIDE DEF t, d, v
        <4>4. w2 \in WatchRecord /\ w2.pc = "assistant" /\ w2.name = s /\ w2.dialog = d
              /\ w2.waiting = v /\ w2.last = watch.last
          BY <2>1, <3>2, <4>1, <4>2 DEF WatchRecord
        <4> HIDE DEF w2
        <4> QED BY <2>0, <3>2, <3>4, <4>1, <4>3, <4>4 DEF Base, Control, claude, Looking
      <3> QED BY <3>1, <3>3, <3>4
    <2>4. Types' /\ Delivery'
      BY <2>0, <2>3 DEF Base, Types, Delivery, claude
    <2>5. Quiet
      BY <2>0, <2>3 DEF Quiet
    <2> QED BY <2>3, <2>4, <2>5
  <1>4. CASE Restart
    <2>1. /\ watch' = NewWatch /\ UNCHANGED <<claude, log, looks>>
          /\ state' = [s \in Session |-> None] /\ subs' = [x \in Subscriber |-> None]
      BY <1>4 DEF Restart
    <2>2. Types'
      BY <2>1, NewWatchType DEF Base, Types, claude
    <2>3. Delivery'
      BY <2>1 DEF Delivery, Delivered
    <2>4. Len(msgs) \in Nat /\ Len(asked) \in Nat
      BY Shape DEF Base
    <2>5. Control'
      BY <2>1, <2>4, NewWatchType DEF Control, claude
    <2>6. Quiet
      BY <2>1, NewWatchType DEF Quiet, Looking
    <2> QED BY <2>2, <2>3, <2>5, <2>6
  <1> QED BY <1>1, <1>2, <1>3, <1>4

-----------------------------------------------------------------------------
(* The look at the last message *)

\* What there is to find, and whether the look loses what it should know.
LastThere == IF watch.name \in Live THEN LastMessage(pane[watch.name].conv) ELSE 0

LostLook(last) ==
  looks.lost \/ watch.name \notin Live \/ (last # LastThere /\ state[watch.name] = None)

LEMMA LookAssistantBase ==
  ASSUME Base, LookAssistant
  PROVE  /\ Base' /\ UNCHANGED <<claude, state, subs, log>>
         /\ watch.pc = "assistant" /\ watch'.pc = "working" /\ watch'.name = watch.name
         /\ watch.name \in Session
         /\ watch'.last \in {LastThere, 0}
         /\ looks'.working = looks.working /\ looks'.missed = looks.missed
         /\ looks'.covered = looks.covered /\ looks'.retaken = looks.retaken
         /\ looks'.lost = LostLook(watch'.last)
  <1>0. PICK l \in {LastThere, 0} :
          /\ watch' = [watch EXCEPT !.pc = "working", !.last = l]
          /\ looks' = [looks EXCEPT !.lost = LostLook(l)]
    BY DEF LookAssistant, LastThere, LostLook, May
  <1> DEFINE w == [watch EXCEPT !.pc = "working", !.last = l]
             k == [looks EXCEPT !.lost = LostLook(l)]
  <1>1. watch.pc = "assistant" /\ watch' = w /\ looks' = k /\ UNCHANGED <<claude, state, subs, log>>
    BY <1>0 DEF LookAssistant
  <1>2. watch \in WatchRecord /\ looks \in Looks /\ Len(msgs) \in Nat
    BY Shape DEF Base
  <1>3. watch.name \in Session
    BY <1>1, <1>2, WatchFields DEF Base, Control
  <1>4. l \in 0..Len(msgs) /\ l \in Nat
    <2>1. CASE watch.name \in Live
      <3>1. pane[watch.name].conv \in Conv
        BY <2>1, Shape, PaneFields DEF Base
      <3> QED BY <1>2, <2>1, <3>1 DEF Base, Latest, LastThere
    <2>2. CASE watch.name \notin Live
      BY <1>2, <2>2 DEF LastThere
    <2> QED BY <2>1, <2>2
  <1>5. LostLook(l) \in BOOLEAN
    BY <1>2, LooksFields DEF LostLook
  <1>6. /\ w \in WatchRecord /\ w.pc = "working" /\ w.last = l /\ w.name = watch.name
        /\ w.dialog = watch.dialog /\ w.waiting = watch.waiting
    BY <1>2, <1>4 DEF WatchRecord
  <1>7. /\ k \in Looks /\ k.working = looks.working /\ k.missed = looks.missed
        /\ k.covered = looks.covered /\ k.retaken = looks.retaken
        /\ k.lost = LostLook(l)
    BY <1>2, <1>5 DEF Looks
  <1> HIDE DEF w, k
  <1>8. /\ UNCHANGED <<pane, turns, msgs, asked>> /\ Live' = Live /\ (\A m : TurnOf(m)' = TurnOf(m))
    BY <1>1, Still
  <1>9. Types' /\ Delivery'
    BY <1>1, <1>6, <1>7, <1>8 DEF Base, Types, Delivery
  <1>10. OneSession' /\ Latest' /\ Dialogs'
    BY <1>8 DEF Base, OneSession, Latest, LastMessage, Dialogs
  <1>11. Past'
    BY <1>1, <1>7, <1>8 DEF Base, Past
  <1>12. DialogTold' /\ Logged'
    <2>1. ToldDialogs' = ToldDialogs /\ TurnEvents' = TurnEvents /\ log' = log /\ state' = state
      BY <1>1 DEF ToldDialogs, TurnEvents
    <2>2. DialogTold'
      BY <1>8, <2>1 DEF Base, DialogTold
    <2>3. Logged'
      BY <1>1, <1>7, <1>8, <2>1 DEF Base, Logged, TurnOf
    <2> QED BY <2>2, <2>3
  <1>13. Control'
    BY <1>1, <1>4, <1>6, <1>8 DEF Base, Control
  <1>14. Base'
    BY <1>9, <1>10, <1>11, <1>12, <1>13 DEF Base
  <1> QED BY <1>1, <1>3, <1>6, <1>7, <1>14

\* Of a conversation nothing is announced beyond its last message.
LEMMA LastTold ==
  ASSUME Base, NEW c \in Conv
  PROVE  <<c, LastMessage(c)>> \in Told
  <1>1. LastMessage(c) \in Nat
    BY Shape DEF Base, Latest
  <1>2. ASSUME NEW i \in TurnEvents, log[i].turn[1] = c PROVE log[i].n <= LastMessage(c)
    BY <1>2, TurnEventIs DEF Base, Latest
  <1> QED BY <1>1, <1>2 DEF Told

LEMMA LookAssistantKeeps ==
  ASSUME Base, LookAssistant, LooksSound', LooksSound => Turns /\ Samples
  PROVE  Turns' /\ Samples'
  <1> DEFINE s == watch.name
             c == pane[s].conv
             l == LastMessage(c)
  <1>1. /\ Base' /\ UNCHANGED <<claude, state, subs, log>>
        /\ watch.pc = "assistant" /\ watch'.pc = "working" /\ watch'.name = s /\ s \in Session
        /\ watch'.last \in {LastThere, 0}
        /\ looks'.working = looks.working /\ looks'.missed = looks.missed
        /\ looks'.covered = looks.covered /\ looks'.retaken = looks.retaken
        /\ looks'.lost = LostLook(watch'.last)
    BY LookAssistantBase
  <1>2. /\ LooksSound /\ s \in Live /\ Turns /\ Samples
        /\ watch'.last \in {l, 0} /\ (state[s] = None => watch'.last = l)
    <2>1. ~looks.lost /\ s \in Live /\ ~looks.retaken /\ ~LostLook(watch'.last)
      BY <1>1 DEF LooksSound, LostLook
    <2>2. LastThere = l
      BY <2>1 DEF LastThere
    <2>3. state[s] = None => watch'.last = l
      BY <2>1, <2>2 DEF LostLook
    <2> QED BY <1>1, <2>1, <2>2, <2>3 DEF LooksSound
  <1>3. /\ UNCHANGED <<pane, turns, msgs, asked>> /\ Live' = Live
        /\ (\A t : Turn(t)' = Turn(t)) /\ (\A m : TurnOf(m)' = TurnOf(m))
        /\ Over' = Over /\ Final' = Final
    BY <1>1, Still
  <1>4. TurnEvents' = TurnEvents /\ Told' = Told /\ Streaked' = Streaked
    BY <1>1 DEF TurnEvents, Told, Streaked
  <1>5. c \in Conv /\ pane[s] \in PaneState
    BY <1>2, Shape, PaneFields DEF Base
  <1>6. /\ l \in 0..Len(msgs) /\ (l # 0 => msgs[l].conv = c /\ l \in DOMAIN msgs)
        /\ \A m \in DOMAIN msgs : msgs[m].conv = c => m <= l
    BY <1>5, Shape DEF Base, Latest
  <1>7. Once'
    BY <1>1, <1>2, <1>4 DEF Turns, Once
  <1>8. Remembered'
    BY <1>1, <1>2, <1>3, <1>4 DEF Turns, Remembered
  <1>9. Sampled'
    <2>1. Primed(watch.name)'.lastNotifiedID = IF state[s] = None THEN l ELSE state[s].lastNotifiedID
      BY <1>1, <1>2 DEF Primed
    <2>2. <<c, l>> \in Told
      BY <1>5, LastTold
    <2>3. ASSUME state[s] # None
          PROVE  <<c, state[s].lastNotifiedID>> \in Told /\ state[s].lastNotifiedID <= l
      <3>1. /\ <<c, state[s].lastNotifiedID>> \in Told
            /\ state[s].lastNotifiedID # 0 =>
                 state[s].lastNotifiedID \in DOMAIN msgs /\ msgs[state[s].lastNotifiedID].conv = c
        BY <1>2, <2>3 DEF Turns, Remembered
      <3> QED BY <1>6, <3>1
    <2>4. l <= l
      BY <1>6
    <2>5. \A t \in Live : pane[t].conv = c /\ t # s => FALSE
      BY <1>2 DEF Base, OneSession
    <2> HIDE DEF s, c, l
    <2>6. watch'.last # 0 =>
            /\ msgs'[watch'.last].conv = c
            /\ <<c, Primed(watch.name)'.lastNotifiedID>> \in Told
            /\ Primed(watch.name)'.lastNotifiedID <= watch'.last
      BY <1>2, <1>3, <1>6, <2>1, <2>2, <2>3, <2>4
    <2> QED BY <1>1, <1>2, <1>3, <1>4, <2>2, <2>5, <2>6 DEF Sampled, c, s
  <1>10. Excused' = Excused /\ Sound' = Sound
    BY <1>1, <1>3 DEF Excused, Sound
  <1>11. Verdicts'
    BY <1>1, <1>2, <1>4, <1>10 DEF Samples, Verdicts
  <1>12. ~IdleSample' /\ SampledIdle' /\ Settled'
    BY <1>1 DEF IdleSample, SampledIdle, Settled
  <1>13. Idled'
    BY <1>1, <1>2, <1>3, <1>4, <1>10 DEF Samples, Idled, Resetting
  <1>14. Ripe'
    <2> SUFFICES ASSUME l # 0, watch'.last = l, s \in Streaked,
                        TurnOf(l) \in looks.working \ (looks.missed \union looks.covered)
                 PROVE  l \in Final
      BY <1>1, <1>2, <1>3, <1>4 DEF Ripe, TurnOf
    <2>1. TurnOf(l)[1] = c /\ TurnOf(l)[2] <= turns[c] /\ TurnOf(l) \in TurnId /\ TurnOf(l) = <<c, TurnOf(l)[2]>>
          /\ TurnOf(l)[2] \in Nat /\ turns[c] \in Nat
      BY <1>5, <1>6, Shape DEF Base, Past, TurnOf, TurnId, Message, Types
    <2>2. \A k \in DOMAIN msgs : TurnOf(k) = TurnOf(l) => k <= l
      BY <1>6 DEF TurnOf
    <2>3. TurnOf(l) \in Over
      <3>1. CASE TurnOf(l)[2] < turns[c]
        BY <2>1, <3>1 DEF Over
      <3>2. CASE TurnOf(l)[2] = turns[c]
        <4>1. Turn(s) = TurnOf(l)
          BY <2>1, <3>2 DEF Turn
        <4>2. s \in Excused
          BY <1>1, <1>2, <4>1 DEF Samples, Idled, Resetting
        <4>3. pane[s].tui = "idle"
          BY <4>1, <4>2 DEF Excused
        <4>4. \A t \in Live : Turn(t) = TurnOf(l) => t = s
          BY <1>2, <2>1 DEF Base, OneSession, Turn
        <4> QED BY <2>1, <4>3, <4>4 DEF Over
      <3> QED BY <2>1, <3>1, <3>2
    <2> QED BY <1>6, <2>2, <2>3 DEF Final
  <1> QED BY <1>7, <1>8, <1>9, <1>11, <1>12, <1>13, <1>14 DEF Turns, Samples

-----------------------------------------------------------------------------
(* The look at the status word *)

IfSo(b, T) == IF b THEN {T} ELSE {}

\* What it shows and what is noted of it.
LookedAt(s, word) ==
  /\ watch.pc = "working" /\ watch'.pc = "watch" /\ watch'.working = word
  /\ watch'.name = s /\ watch'.last = watch.last
  /\ looks'.retaken = looks.retaken /\ looks'.lost = (looks.lost \/ s \notin Live)
  /\ looks'.working = looks.working \union IfSo(s \in Live /\ word, Turn(s))
  /\ looks'.missed
       = looks.missed \union IfSo(s \in Live /\ ~word /\ pane[s].tui = "working", Turn(s))
  /\ looks'.covered
       = looks.covered \union IfSo(s \in Live /\ ~word /\ pane[s].tui = "dialog", Turn(s))
  /\ s \in Live => /\ word => pane[s].tui # "idle"
                   /\ ~word /\ pane[s].tui = "working" => ~pane[s].flickered
  /\ UNCHANGED <<turns, msgs, asked, state, subs, log>>
  /\ \A t \in Live' :
       /\ t \in Live /\ pane'[t].conv = pane[t].conv /\ pane'[t].tui = pane[t].tui
       /\ pane'[t].dialog = pane[t].dialog
       /\ t # s => pane'[t] = pane[t]
       /\ t = s /\ pane[t].tui = "working" => pane'[t].flickered = ~word

LEMMA LookWorkingShape ==
  ASSUME Base, LookWorking
  PROVE  /\ Types' /\ OneSession' /\ Control' /\ watch.name \in Session
         /\ \E word \in BOOLEAN : LookedAt(watch.name, word)
  <1>1. PICK s : s = watch.name
    OBVIOUS
  <1>2. watch.pc = "working" /\ UNCHANGED <<turns, msgs, asked, state, subs, log>>
    BY DEF LookWorking
  <1>3. watch \in WatchRecord /\ looks \in Looks
    BY Shape DEF Base
  <1>4. s \in Session
    BY <1>1, <1>2, <1>3, WatchFields DEF Base, Control
  <1>5. PICK word \in StatusWord(s) :
          /\ watch' = [watch EXCEPT !.pc = "watch", !.working = word]
          /\ pane' = IF s \in Live /\ pane[s].tui = "working"
                     THEN [pane EXCEPT ![s] = [pane[s] EXCEPT !.flickered = ~word]] ELSE pane
          /\ looks' = CASE s \notin Live -> [looks EXCEPT !.lost = TRUE]
                        [] s \in Live /\ word -> [looks EXCEPT !.working = looks.working \union {Turn(s)}]
                        [] s \in Live /\ ~word /\ pane[s].tui = "working" ->
                             [looks EXCEPT !.missed = looks.missed \union {Turn(s)}]
                        [] s \in Live /\ ~word /\ pane[s].tui = "dialog" ->
                             [looks EXCEPT !.covered = looks.covered \union {Turn(s)}]
                        [] OTHER -> looks
    BY <1>1 DEF LookWorking
  <1>6. word \in BOOLEAN
    BY DEF StatusWord
  <1>7. s \in Live => /\ word => pane[s].tui # "idle"
                      /\ ~word /\ pane[s].tui = "working" => ~pane[s].flickered
    BY DEF StatusWord
  <1> DEFINE w == [watch EXCEPT !.pc = "watch", !.working = word]
  <1>8. /\ w \in WatchRecord /\ w.pc = "watch" /\ w.working = word /\ w.name = s /\ w.last = watch.last
        /\ w.dialog = watch.dialog /\ w.waiting = watch.waiting
    BY <1>1, <1>3, <1>6 DEF WatchRecord
  <1>9. watch' = w
    BY <1>5
  <1> HIDE DEF w
  <1>10. /\ looks' \in Looks
         /\ looks'.retaken = looks.retaken /\ looks'.lost = (looks.lost \/ s \notin Live)
         /\ looks'.working = looks.working \union IfSo(s \in Live /\ word, Turn(s))
         /\ looks'.missed
              = looks.missed \union IfSo(s \in Live /\ ~word /\ pane[s].tui = "working", Turn(s))
         /\ looks'.covered
              = looks.covered \union IfSo(s \in Live /\ ~word /\ pane[s].tui = "dialog", Turn(s))
    <2>1. looks.lost \in BOOLEAN
      BY <1>3, LooksFields
    <2>2. CASE s \notin Live
      <3>1. looks' = [looks EXCEPT !.lost = TRUE]
        BY <1>5, <2>2
      <3> QED BY <1>3, <2>2, <3>1 DEF Looks, IfSo
    <2>3. CASE s \in Live /\ word
      <3>1. looks' = [looks EXCEPT !.working = looks.working \union {Turn(s)}]
        BY <1>5, <2>3
      <3>2. Turn(s) \in TurnId
        BY <2>3, Shape DEF Base
      <3> QED BY <1>3, <2>1, <2>3, <3>1, <3>2 DEF Looks, IfSo
    <2>4. CASE s \in Live /\ ~word /\ pane[s].tui = "working"
      <3>1. looks' = [looks EXCEPT !.missed = looks.missed \union {Turn(s)}]
        BY <1>5, <2>4
      <3>2. Turn(s) \in TurnId
        BY <2>4, Shape DEF Base
      <3> QED BY <1>3, <2>1, <2>4, <3>1, <3>2 DEF Looks, IfSo
    <2>5. CASE s \in Live /\ ~word /\ pane[s].tui = "dialog"
      <3>1. looks' = [looks EXCEPT !.covered = looks.covered \union {Turn(s)}]
        BY <1>5, <2>5
      <3>2. Turn(s) \in TurnId
        BY <2>5, Shape DEF Base
      <3> QED BY <1>3, <2>1, <2>5, <3>1, <3>2 DEF Looks, IfSo
    <2>6. CASE s \in Live /\ ~word /\ pane[s].tui \notin {"working", "dialog"}
      <3>1. looks' = looks
        BY <1>5, <2>6
      <3> QED BY <1>3, <2>1, <2>6, <3>1 DEF IfSo
    <2> QED BY <1>6, <2>2, <2>3, <2>4, <2>5, <2>6
  <1>11. /\ pane' \in [Session -> PaneState \union {None}] /\ OneSession'
         /\ \A t \in Live' :
              /\ t \in Live /\ pane'[t].conv = pane[t].conv /\ pane'[t].tui = pane[t].tui
              /\ pane'[t].dialog = pane[t].dialog
              /\ t # s => pane'[t] = pane[t]
              /\ t = s /\ pane[t].tui = "working" => pane'[t].flickered = ~word
    <2>1. CASE s \in Live /\ pane[s].tui = "working"
      <3> DEFINE r == [pane[s] EXCEPT !.flickered = ~word]
      <3>1. pane' = [pane EXCEPT ![s] = r]
        BY <1>5, <2>1
      <3>2. pane[s] \in PaneState
        BY <2>1, Shape DEF Base
      <3>3. r \in PaneState /\ r.conv = pane[s].conv /\ r.tui = pane[s].tui /\ r.dialog = pane[s].dialog
            /\ r.flickered = ~word
        BY <1>6, <3>2 DEF PaneState
      <3> HIDE DEF r
      <3>4. /\ pane' \in [Session -> PaneState \union {None}] /\ OneSession'
            /\ \A t \in Live' : t \in Live /\ pane'[t] = (IF t = s THEN r ELSE pane[t])
        BY <2>1, <3>1, <3>3, OnePane DEF Base
      <3> QED BY <3>3, <3>4
    <2>2. CASE ~(s \in Live /\ pane[s].tui = "working")
      <3>1. pane' = pane
        BY <1>5, <2>2
      <3>2. Live' = Live
        BY <3>1 DEF Live
      <3> QED BY <2>2, <3>1, <3>2 DEF Base, Types, OneSession
    <2> QED BY <2>1, <2>2
  <1>12. Types'
    BY <1>2, <1>8, <1>9, <1>10, <1>11 DEF Base, Types
  <1>13. Control'
    BY <1>1, <1>2, <1>8, <1>9 DEF Base, Control
  <1>14. LookedAt(s, word)
    BY <1>1, <1>2, <1>7, <1>8, <1>9, <1>10, <1>11 DEF LookedAt
  <1> QED BY <1>1, <1>4, <1>6, <1>11, <1>12, <1>13, <1>14

LEMMA LookedAtBase ==
  ASSUME Base, Types', OneSession', Control', NEW s \in Session, NEW word \in BOOLEAN, LookedAt(s, word)
  PROVE  Base'
  <1>1. /\ UNCHANGED <<turns, msgs, asked, state, subs, log>>
        /\ \A t \in Live' : t \in Live /\ pane'[t].dialog = pane[t].dialog
        /\ looks.working \subseteq looks'.working
    BY DEF LookedAt
  <1>2. Delivery' /\ Latest' /\ DialogTold' /\ Logged'
    <2>1. Delivery' /\ Latest' /\ DialogTold'
      BY <1>1 DEF Base, Delivery, Latest, LastMessage, DialogTold, ToldDialogs
    <2>2. TurnEvents' = TurnEvents /\ (\A m : TurnOf(m)' = TurnOf(m)) /\ log' = log
      BY <1>1 DEF TurnEvents, TurnOf
    <2>3. Logged'
      BY <1>1, <2>2 DEF Base, Logged
    <2> QED BY <2>1, <2>3
  <1>3. Dialogs'
    BY <1>1 DEF Base, Dialogs
  <1>4. ASSUME NEW T \in looks'.working \union looks'.missed \union looks'.covered
        PROVE  T[2] <= turns[T[1]]
    <2>1. CASE T \in looks.working \union looks.missed \union looks.covered
      BY <2>1 DEF Base, Past
    <2>2. CASE s \in Live /\ T = Turn(s)
      <3>1. pane[s].conv \in Conv
        BY <2>2, Shape, PaneFields DEF Base
      <3>2. turns[pane[s].conv] \in Nat
        BY <3>1 DEF Base, Types
      <3> QED BY <2>2, <3>2 DEF Turn
    <2> QED BY <2>1, <2>2 DEF LookedAt, IfSo
  <1>5. Past'
    BY <1>1, <1>4 DEF Base, Past
  <1> QED BY <1>2, <1>3, <1>5 DEF Base

LEMMA LookedAtKeeps ==
  ASSUME Base, NEW s \in Session, NEW word \in BOOLEAN, LookedAt(s, word), watch.name = s,
         LooksSound', LooksSound => Turns /\ Samples
  PROVE  Turns' /\ Samples'
  <1>1. LooksSound /\ s \in Live /\ Turns /\ Samples
    <2>1. ~looks.lost /\ s \in Live /\ ~looks.retaken
      BY DEF LooksSound, LookedAt
    <2> QED BY <2>1 DEF LooksSound
  <1>2. /\ watch.pc = "working" /\ watch'.pc = "watch" /\ watch'.working = word
        /\ watch'.name = s /\ watch'.last = watch.last
        /\ UNCHANGED <<turns, msgs, asked, state, subs, log>>
    BY DEF LookedAt
  <1>3. \A t \in Live' :
          /\ t \in Live /\ pane'[t].conv = pane[t].conv /\ pane'[t].tui = pane[t].tui
          /\ t # s => pane'[t] = pane[t]
          /\ t = s /\ pane[t].tui = "working" => pane'[t].flickered = ~word
    BY DEF LookedAt
  <1>4. \A t \in Live' : Turn(t)' = Turn(t)
    BY <1>2, <1>3 DEF Turn
  <1>5. /\ looks'.working = looks.working \union IfSo(word, Turn(s))
        /\ looks'.missed = looks.missed \union IfSo(~word /\ pane[s].tui = "working", Turn(s))
        /\ looks'.covered = looks.covered \union IfSo(~word /\ pane[s].tui = "dialog", Turn(s))
        /\ (word => pane[s].tui # "idle")
        /\ (~word /\ pane[s].tui = "working" => ~pane[s].flickered)
    BY <1>1 DEF LookedAt, IfSo
  <1>6. pane[s] \in PaneState /\ Turn(s) \in TurnId
        /\ pane[s].conv \in Conv /\ turns[pane[s].conv] \in Nat
        /\ pane[s].tui \in {"idle", "working", "dialog"}
    BY <1>1, Shape, PaneFields DEF Base, Types
  <1>7. /\ TurnEvents' = TurnEvents /\ Told' = Told /\ Streaked' = Streaked
        /\ (\A m : TurnOf(m)' = TurnOf(m)) /\ Primed(watch.name)' = Primed(watch.name)
    BY <1>2 DEF TurnEvents, Told, Streaked, TurnOf, Primed
  <1>8. Once' /\ Remembered'
    BY <1>1, <1>2, <1>3, <1>7 DEF Turns, Once, Remembered
  <1>9. Sampled'
    BY <1>1, <1>2, <1>3, <1>7 DEF Turns, Sampled, Looking
  <1>10. Over \subseteq Over'
    BY <1>2, <1>3, <1>4 DEF Over
  <1>11. Final \subseteq Final'
    BY <1>2, <1>7, <1>10 DEF Final
  <1>12. ASSUME ~word, s \in Live' PROVE s \in Excused'
    <2>1. CASE pane[s].tui = "idle"
      BY <1>3, <1>12, <2>1 DEF Excused
    <2>2. CASE pane[s].tui = "working"
      BY <1>3, <1>4, <1>5, <1>12, <2>2 DEF Excused, IfSo
    <2>3. CASE pane[s].tui = "dialog"
      BY <1>3, <1>4, <1>5, <1>12, <2>3 DEF Excused, IfSo
    <2> QED BY <1>6, <2>1, <2>2, <2>3
  <1>13. Idled'
    <2> SUFFICES ASSUME NEW t \in Live', t \in Streaked, Turn(t) \in looks'.working
                 PROVE  Resetting(t)' \/ t \in Excused'
      BY <1>4, <1>7 DEF Idled
    <2>1. CASE t = s
      BY <1>2, <1>12, <2>1 DEF Resetting
    <2>2. CASE t # s
      <3>1. t \in Live /\ pane'[t] = pane[t] /\ Turn(t) # Turn(s)
        BY <1>1, <1>3, <2>2 DEF Base, OneSession, Turn
      <3>2. Turn(t) \in looks.working
        BY <1>5, <3>1 DEF IfSo
      <3>3. t \in Excused
        BY <1>1, <1>2, <3>1, <3>2 DEF Samples, Idled, Resetting
      <3> QED BY <1>4, <1>5, <3>1, <3>3 DEF Excused
    <2> QED BY <2>1, <2>2
  <1>14. SampledIdle'
    BY <1>2, <1>12 DEF SampledIdle, IdleSample
  <1>15. Settled'
    <2> SUFFICES ASSUME ~word, watch.last # 0
                 PROVE  /\ s \in Streaked /\ TurnOf(watch.last) \in looks'.working \ looks'.covered
                             => TurnOf(watch.last) \in Over
                        /\ TurnOf(watch.last) \notin looks'.missed \union looks'.covered
                             => TurnOf(watch.last) \in Over
      BY <1>2, <1>7, <1>10 DEF Settled, IdleSample, TurnOf
    <2> DEFINE T == TurnOf(watch.last)
    <2>1. T \in TurnId /\ T[1] = msgs[watch.last].conv /\ T[2] <= turns[T[1]]
      BY LastTurn
    <2>2. T[1] = pane[s].conv
      BY <1>1, <1>2, <2>1 DEF Turns, Sampled, Looking
    <2> HIDE DEF T
    <2>3. T = <<pane[s].conv, T[2]>> /\ T[2] \in Nat
      BY <2>1, <2>2 DEF TurnId
    <2>4. CASE T[2] < turns[pane[s].conv]
      BY <2>1, <2>2, <2>4 DEF Over, T
    <2>5. CASE T[2] = turns[pane[s].conv]
      <3>1. T = Turn(s)
        BY <2>3, <2>5 DEF Turn
      <3>2. CASE pane[s].tui = "idle"
        <4>1. \A t \in Live : Turn(t) = T => t = s
          BY <1>1, <3>1 DEF Base, OneSession, Turn
        <4>2. T \in Over
          BY <2>1, <3>2, <4>1 DEF Over
        <4> QED BY <4>2 DEF T
      <3>3. CASE pane[s].tui = "dialog"
        <4>1. T \in looks'.covered
          BY <1>5, <3>1, <3>3 DEF IfSo
        <4> QED BY <4>1 DEF T
      <3>4. CASE pane[s].tui = "working"
        <4>1. T \in looks'.missed
          BY <1>5, <3>1, <3>4 DEF IfSo
        <4>2. ASSUME s \in Streaked, T \in looks'.working, T \notin looks'.covered PROVE FALSE
          <5>1. T \in looks.working /\ T \notin looks.covered
            BY <1>5, <4>2 DEF IfSo
          <5>2. s \in Excused
            BY <1>1, <1>2, <3>1, <4>2, <5>1 DEF Samples, Idled, Resetting
          <5> QED BY <1>5, <3>1, <3>4, <5>1, <5>2 DEF Excused
        <4> QED BY <4>1, <4>2 DEF T
      <3> QED BY <1>6, <3>2, <3>3, <3>4
    <2> QED BY <1>6, <2>1, <2>2, <2>3, <2>4, <2>5
  <1>16. Ripe'
    <2> SUFFICES ASSUME ~word, watch.last # 0, s \in Streaked,
                        TurnOf(watch.last) \in looks'.working \ (looks'.missed \union looks'.covered)
                 PROVE  watch.last \in Final
      BY <1>2, <1>7, <1>11 DEF Ripe, TurnOf
    <2>1. TurnOf(watch.last) \in looks.working \ (looks.missed \union looks.covered)
      BY <1>5 DEF IfSo
    <2> QED BY <1>1, <1>2, <2>1 DEF Samples, Ripe, Looking
  <1>17. Verdicts'
    <2> SUFFICES ASSUME NEW i \in TurnEvents PROVE log[i] \in Sound'
      BY <1>2, <1>7 DEF Verdicts
    <2>1. log[i] \in Sound /\ log[i] \in Event
      BY <1>1 DEF Samples, Verdicts, Sound
    <2>2. ASSUME log[i].turn \in Over, word PROVE log[i].turn # Turn(s)
      <3> SUFFICES ASSUME log[i].turn = Turn(s) PROVE FALSE
        OBVIOUS
      <3>1. pane[s].tui = "idle"
        BY <1>1, <1>6, <2>2 DEF Over, Turn
      <3> QED BY <1>5, <2>2, <3>1
    <2>3. looks.missed \subseteq looks'.missed /\ looks.covered \subseteq looks'.covered
      BY <1>5
    <2>4. ASSUME log[i].turn \notin looks'.missed \union looks'.covered
          PROVE  /\ log[i].turn \in Over' /\ (log[i].seen => log[i].n \in Final')
                 /\ (~log[i].seen => log[i].turn \notin looks'.working)
      <3>1. /\ log[i].turn \in Over /\ (log[i].seen => log[i].n \in Final)
            /\ (~log[i].seen => log[i].turn \notin looks.working)
        BY <2>1, <2>3, <2>4 DEF Sound
      <3> QED BY <1>5, <1>10, <1>11, <2>2, <3>1 DEF IfSo
    <2> QED BY <2>1, <2>3, <2>4 DEF Sound
  <1> QED BY <1>8, <1>9, <1>13, <1>14, <1>15, <1>16, <1>17 DEF Turns, Samples

-----------------------------------------------------------------------------
(* What comes of a look *)

\* The dialog announced last, while its question is open.
ToldNow(ws) ==
  CASE watch.waiting = 0 -> 0
    [] NewDialog(ws) -> watch.dialog
    [] OTHER -> ws.told

\* The events e that a look adds to the log, and what it remembers.
Adds(s, ws) ==
  /\ watch.pc = "watch" /\ watch.name = s /\ UNCHANGED <<claude, looks>>
  /\ watch'.pc = "next" /\ watch'.name = None
  /\ state' = [state EXCEPT ![s] =
       [idleStreak |-> Streak(ws), lastNotifiedID |-> Notified(ws),
        notifiedWaitID |-> watch.waiting, told |-> ToldNow(ws)]]
  /\ \A i \in DOMAIN log : i \in DOMAIN log' /\ log'[i] = log[i]
  /\ \A i \in DOMAIN log' \ DOMAIN log :
       (log'[i] = DialogEvent /\ NewDialog(ws)) \/ (log'[i] = TurnEvent /\ TurnDone(ws))
  /\ \A i, j \in DOMAIN log' \ DOMAIN log :
       log'[i] = TurnEvent /\ log'[j] = TurnEvent /\ TurnDone(ws) => i = j
  /\ NewDialog(ws) => \E i \in DOMAIN log' : log'[i] = DialogEvent

LEMMA OneEvent ==
  ASSUME NEW S, NEW l \in Seq(S)
  PROVE  /\ Len(<<>> \o <<>>) = 0 /\ l \o (<<>> \o <<>>) = l
         /\ \A a \in S : /\ <<a>> \o <<>> = <<a>> /\ <<>> \o <<a>> = <<a>>
                         /\ Len(<<a>>) = 1 /\ <<a>>[1] = a /\ l \o <<a>> = Append(l, a)
  <1>0. <<>> \in Seq(S) /\ Len(<<>>) = 0
    BY EmptySeq
  <1>1. <<>> \o <<>> = <<>> /\ l \o <<>> = l
    BY <1>0, ConcatEmptySeq
  <1>2. ASSUME NEW a \in S
        PROVE  /\ <<a>> \in Seq(S) /\ <<a>> \o <<>> = <<a>> /\ <<>> \o <<a>> = <<a>>
               /\ Len(<<a>>) = 1 /\ <<a>>[1] = a /\ l \o <<a>> = Append(l, a)
    <2>1. <<a>> \in Seq(S) /\ Len(<<a>>) = 1 /\ <<a>>[1] = a
      OBVIOUS
    <2>2. <<a>> \o <<>> = <<a>> /\ <<>> \o <<a>> = <<a>>
      BY <2>1, ConcatEmptySeq
    <2> QED BY <2>1, <2>2, AppendIsConcat
  <1> QED BY <1>0, <1>1, <1>2

Pair(a, b) == <<a>> \o <<b>>

LEMMA TwoEvents ==
  ASSUME NEW S, NEW l \in Seq(S), NEW a \in S, NEW b \in S
  PROVE  /\ Len(Pair(a, b)) = 2 /\ Pair(a, b)[1] = a /\ Pair(a, b)[2] = b
         /\ l \o Pair(a, b) = Append(Append(l, a), b)
  <1>1. PICK p : p = <<a>>
    OBVIOUS
  <1>2. p \in Seq(S) /\ Len(p) = 1 /\ p[1] = a /\ l \o p = Append(l, a)
    BY OneEvent, <1>1
  <1>3. <<b>> \in Seq(S)
    OBVIOUS
  <1>4. p \o <<b>> = Append(p, b) /\ Len(Append(p, b)) = 2 /\ Append(p, b)[1] = a /\ Append(p, b)[2] = b
    BY <1>2, AppendIsConcat, AppendProperties
  <1>5. l \o (p \o <<b>>) = (l \o p) \o <<b>>
    BY <1>2, <1>3, ConcatAssociative
  <1>6. Append(l, a) \in Seq(S)
    BY AppendProperties
  <1>7. Append(l, a) \o <<b>> = Append(Append(l, a), b)
    BY <1>6, AppendIsConcat
  <1>8. l \o (p \o <<b>>) = Append(Append(l, a), b)
    BY <1>2, <1>5, <1>7
  <1> QED BY <1>1, <1>4, <1>8 DEF Pair

\* The log, after one event and after two.
LEMMA LogOne ==
  ASSUME NEW S, NEW l \in Seq(S), NEW a \in S
  PROVE  LET m == Append(l, a) IN
         /\ DOMAIN l = 1..Len(l) /\ DOMAIN m = 1..Len(l) + 1 /\ Len(l) \in Nat
         /\ (\A i \in 1..Len(l) : m[i] = l[i]) /\ m[Len(l) + 1] = a
  BY AppendProperties, LenProperties

LEMMA LogTwo ==
  ASSUME NEW S, NEW l \in Seq(S), NEW a \in S, NEW b \in S
  PROVE  LET m == Append(Append(l, a), b) IN
         /\ DOMAIN l = 1..Len(l) /\ DOMAIN m = 1..Len(l) + 2 /\ Len(l) \in Nat
         /\ (\A i \in 1..Len(l) : m[i] = l[i]) /\ m[Len(l) + 1] = a /\ m[Len(l) + 2] = b
  <1> DEFINE k == Append(l, a)
             m == Append(k, b)
  <1>1. k \in Seq(S) /\ Len(k) = Len(l) + 1 /\ Len(l) \in Nat /\ DOMAIN l = 1..Len(l)
        /\ (\A i \in 1..Len(l) : k[i] = l[i]) /\ k[Len(l) + 1] = a
    BY AppendProperties, LenProperties
  <1> HIDE DEF k
  <1>2. m \in Seq(S) /\ Len(m) = Len(k) + 1 /\ DOMAIN m = 1..Len(m)
        /\ (\A i \in 1..Len(k) : m[i] = k[i]) /\ m[Len(k) + 1] = b
    BY <1>1, AppendProperties, LenProperties
  <1> HIDE DEF m
  <1>3. /\ DOMAIN m = 1..Len(l) + 2 /\ (\A i \in 1..Len(l) : m[i] = l[i])
        /\ m[Len(l) + 1] = a /\ m[Len(l) + 2] = b
    BY <1>1, <1>2
  <1> QED BY <1>1, <1>3 DEF m, k

LEMMA WatchShape ==
  ASSUME Base, Watch
  PROVE  /\ Types' /\ Delivery' /\ Control' /\ watch.name \in Session
         /\ Primed(watch.name) \in WatchState
         /\ Adds(watch.name, Primed(watch.name))
  <1> DEFINE s == watch.name
             ws == Primed(s)
             new == [idleStreak |-> Streak(ws), lastNotifiedID |-> Notified(ws),
                     notifiedWaitID |-> watch.waiting, told |-> ToldNow(ws)]
             dialogs == IF NewDialog(ws) THEN <<DialogEvent>> ELSE <<>>
             done == IF TurnDone(ws) THEN <<TurnEvent>> ELSE <<>>
             w == [NewWatch EXCEPT !.pc = "next", !.todo = watch.todo, !.listed = watch.listed]
  <1>1. /\ watch.pc = "watch" /\ UNCHANGED <<claude, looks>>
        /\ state' = [state EXCEPT ![s] = new] /\ watch' = w
        /\ log' = log \o (dialogs \o done)
        /\ subs' = CASE Len(dialogs \o done) = 0 -> subs
                     [] Len(dialogs \o done) = 1 -> Broadcast(subs, (dialogs \o done)[1])
                     [] OTHER -> Broadcast(Broadcast(subs, (dialogs \o done)[1]), (dialogs \o done)[2])
    BY DEF Watch, DialogEvent, TurnEvent, TurnOf, ToldNow
  <1>2. watch \in WatchRecord /\ s \in Session
    BY <1>1, Shape, WatchFields DEF Base, Control
  <1>3. ws \in WatchState
    BY <1>2, PrimedType DEF Base
  <1>4. watch.waiting \in Nat /\ watch.last \in Nat /\ watch.todo \subseteq Session
        /\ watch.listed \subseteq Session
    BY <1>2, WatchFields
  <1>5. Notified(ws) \in Nat
    BY <1>3, <1>4 DEF Notified, WatchState
  <1>6. Streak(ws) \in 0..turnWatchSettle
    BY <1>3, StreakType
  <1>7. new \in WatchState
    <2>1. ToldNow(ws) \in Nat
      BY <1>2, <1>3, WatchFields DEF ToldNow, WatchState
    <2> QED BY <1>4, <1>5, <1>6, <2>1 DEF WatchState
  <1>8. w \in WatchRecord /\ w.pc = "next" /\ w.name = None /\ w.last = 0 /\ w.dialog = 0 /\ w.waiting = 0
    BY <1>4, NewWatchType DEF WatchRecord
  <1>9. state' \in [Session -> WatchState \union {None}]
    BY <1>1, <1>2, <1>7 DEF Base, Types
  <1>10. DialogEvent \in Event /\ (TurnDone(ws) => TurnEvent \in Event)
    <2>1. TurnDone(ws) => watch.last \in DOMAIN msgs
      BY LastTurn DEF TurnDone
    <2> QED BY <2>1, EventTypes DEF Base
  <1>11. log \in Seq(Event) /\ subs \in [Subscriber -> Channel \union {None}] /\ Delivered(subs, log)
    BY DEF Base, Types, Delivery
  <1> DEFINE D == DialogEvent
             T == TurnEvent
  <1>18. PICK ev : ev = dialogs \o done
    OBVIOUS
  <1>19. log' = log \o ev /\ (Len(ev) = 0 => subs' = subs)
        /\ (Len(ev) = 1 => subs' = Broadcast(subs, ev[1]))
        /\ (Len(ev) = 2 => subs' = Broadcast(Broadcast(subs, ev[1]), ev[2]))
    BY <1>1, <1>18
  <1> HIDE DEF new, w, D, T, ws
  <1>12. /\ log' \in Seq(Event) /\ subs' \in [Subscriber -> Channel \union {None}]
         /\ Delivered(subs', log')
         /\ \A i \in DOMAIN log : i \in DOMAIN log' /\ log'[i] = log[i]
         /\ \A i \in DOMAIN log' \ DOMAIN log :
              (log'[i] = D /\ NewDialog(ws)) \/ (log'[i] = T /\ TurnDone(ws))
         /\ \A i, j \in DOMAIN log' \ DOMAIN log :
              log'[i] = T /\ log'[j] = T /\ TurnDone(ws) /\ D # T => i = j
         /\ NewDialog(ws) => \E i \in DOMAIN log' : log'[i] = D
    <2>1. CASE ~NewDialog(ws) /\ ~TurnDone(ws)
      <3>0. ev = <<>> \o <<>>
        BY <1>18, <2>1
      <3>1. log \o ev = log /\ Len(ev) = 0
        BY <1>11, <3>0, OneEvent
      <3>2. log' = log /\ subs' = subs
        BY <1>19, <3>1
      <3> QED BY <1>11, <2>1, <3>2
    <2>2. CASE NewDialog(ws) /\ ~TurnDone(ws)
      <3>4. D \in Event
        BY <1>10 DEF D
      <3>1. ev = <<D>> \o <<>>
        BY <1>18, <2>2 DEF D
      <3>2. Len(ev) = 1 /\ ev[1] = D /\ log \o ev = Append(log, D)
        BY <1>11, <3>1, <3>4, OneEvent
      <3>3. log' = Append(log, D) /\ subs' = Broadcast(subs, D)
        BY <1>19, <3>2
      <3>5. Append(log, D) \in Seq(Event)
        BY <1>11, <3>4, AppendProperties
      <3>6. /\ Broadcast(subs, D) \in [Subscriber -> Channel \union {None}]
            /\ Delivered(Broadcast(subs, D), Append(log, D))
        BY <1>11, <3>4, BroadcastDelivers
      <3>7. /\ DOMAIN log = 1..Len(log) /\ DOMAIN log' = 1..Len(log) + 1 /\ Len(log) \in Nat
            /\ (\A i \in 1..Len(log) : log'[i] = log[i]) /\ log'[Len(log) + 1] = D
        BY <1>11, <3>3, <3>4, LogOne
      <3> QED BY <2>2, <3>3, <3>5, <3>6, <3>7
    <2>3. CASE ~NewDialog(ws) /\ TurnDone(ws)
      <3>4. T \in Event
        BY <1>10, <2>3 DEF T
      <3>1. ev = <<>> \o <<T>>
        BY <1>18, <2>3 DEF T
      <3>2. Len(ev) = 1 /\ ev[1] = T /\ log \o ev = Append(log, T)
        BY <1>11, <3>1, <3>4, OneEvent
      <3>3. log' = Append(log, T) /\ subs' = Broadcast(subs, T)
        BY <1>19, <3>2
      <3>5. Append(log, T) \in Seq(Event)
        BY <1>11, <3>4, AppendProperties
      <3>6. /\ Broadcast(subs, T) \in [Subscriber -> Channel \union {None}]
            /\ Delivered(Broadcast(subs, T), Append(log, T))
        BY <1>11, <3>4, BroadcastDelivers
      <3>7. /\ DOMAIN log = 1..Len(log) /\ DOMAIN log' = 1..Len(log) + 1 /\ Len(log) \in Nat
            /\ (\A i \in 1..Len(log) : log'[i] = log[i]) /\ log'[Len(log) + 1] = T
        BY <1>11, <3>3, <3>4, LogOne
      <3> QED BY <2>3, <3>3, <3>5, <3>6, <3>7
    <2>4. CASE NewDialog(ws) /\ TurnDone(ws)
      <3>4. D \in Event /\ T \in Event
        BY <1>10, <2>4 DEF D, T
      <3>1. ev = <<D>> \o <<T>>
        BY <1>18, <2>4 DEF D, T
      <3>2. Len(ev) = 2 /\ ev[1] = D /\ ev[2] = T /\ log \o ev = Append(Append(log, D), T)
        <4>1. PICK d \in Event, t \in Event : d = D /\ t = T
          BY <3>4
        <4>2. ev = Pair(d, t)
          BY <3>1, <4>1 DEF Pair
        <4>3. Len(ev) = 2 /\ ev[1] = d /\ ev[2] = t /\ log \o ev = Append(Append(log, d), t)
          BY <1>11, <4>2, TwoEvents
        <4> QED BY <4>1, <4>3
      <3>3. log' = Append(Append(log, D), T) /\ subs' = Broadcast(Broadcast(subs, D), T)
        BY <1>19, <3>2
      <3>5. Append(log, D) \in Seq(Event) /\ Append(Append(log, D), T) \in Seq(Event)
        BY <1>11, <3>4, AppendProperties
      <3>6. /\ Broadcast(subs, D) \in [Subscriber -> Channel \union {None}]
            /\ Delivered(Broadcast(subs, D), Append(log, D))
        BY <1>11, <3>4, BroadcastDelivers
      <3>7. /\ Broadcast(Broadcast(subs, D), T) \in [Subscriber -> Channel \union {None}]
            /\ Delivered(Broadcast(Broadcast(subs, D), T), Append(Append(log, D), T))
        BY <3>4, <3>5, <3>6, BroadcastDelivers
      <3>8. /\ DOMAIN log = 1..Len(log) /\ DOMAIN log' = 1..Len(log) + 2 /\ Len(log) \in Nat
            /\ (\A i \in 1..Len(log) : log'[i] = log[i])
            /\ log'[Len(log) + 1] = D /\ log'[Len(log) + 2] = T
        BY <1>11, <3>3, <3>4, LogTwo
      <3> QED BY <2>4, <3>3, <3>5, <3>7, <3>8
    <2> QED BY <2>1, <2>2, <2>3, <2>4
  <1>13. TurnDone(ws) => D # T
    BY DEF D, T, DialogEvent, TurnEvent
  <1>14. Types' /\ Delivery'
    BY <1>1, <1>8, <1>9, <1>12 DEF Base, Types, Delivery, claude
  <1>15. Len(msgs') \in Nat /\ Len(asked') \in Nat
    BY <1>1, Shape DEF Base, claude
  <1>16. Control'
    BY <1>1, <1>8, <1>15 DEF Control
  <1>17. Adds(s, ws)
    BY <1>1, <1>8, <1>12, <1>13 DEF Adds, new, D, T
  <1> QED BY <1>2, <1>3, <1>14, <1>16, <1>17 DEF ws

LEMMA AddsBase ==
  ASSUME Base, Types', Delivery', Control', NEW s \in Session, NEW ws \in WatchState,
         ws = Primed(s), Adds(s, ws)
  PROVE  Base'
  <1>1. UNCHANGED <<claude, looks>> /\ watch.name = s
    BY DEF Adds
  <1>2. /\ UNCHANGED <<pane, turns, msgs, asked>> /\ Live' = Live /\ \A m : TurnOf(m)' = TurnOf(m)
    BY <1>1, Still
  <1>3. OneSession' /\ Latest' /\ Past' /\ Dialogs'
    BY <1>1, <1>2 DEF Base, OneSession, Latest, LastMessage, Past, Dialogs
  <1>4. /\ \A i \in DOMAIN log : i \in DOMAIN log' /\ log'[i] = log[i]
        /\ \A i \in DOMAIN log' \ DOMAIN log :
             (log'[i] = DialogEvent /\ NewDialog(ws)) \/ (log'[i] = TurnEvent /\ TurnDone(ws))
        /\ NewDialog(ws) => \E i \in DOMAIN log' : log'[i] = DialogEvent
    BY DEF Adds
  <1>5. TurnDone(ws) => watch.last \in DOMAIN msgs
    BY LastTurn DEF TurnDone
  <1>6. Logged'
    <2> SUFFICES ASSUME NEW i \in DOMAIN log', log'[i].kind = "turn"
                 PROVE  /\ log'[i].n \in DOMAIN msgs /\ log'[i].turn = TurnOf(log'[i].n)
                        /\ log'[i].seen => log'[i].turn \in looks.working
      BY <1>1, <1>2 DEF Logged, TurnEvents, TurnOf
    <2>1. CASE i \in DOMAIN log
      BY <1>4, <2>1 DEF Base, Logged, TurnEvents
    <2>2. CASE i \notin DOMAIN log
      <3>1. log'[i] = TurnEvent /\ TurnDone(ws)
        BY <1>4, <2>2, EventTypes DEF Base
      <3> QED BY <1>5, <3>1, EventTypes DEF Base
    <2> QED BY <2>1, <2>2
  <1>7. ToldDialogs \subseteq ToldDialogs'
    BY <1>4 DEF ToldDialogs
  <1>8. DialogTold'
    <2> SUFFICES ASSUME NEW t \in Session, state'[t] # None, state'[t].notifiedWaitID # 0
                 PROVE  /\ state'[t].told \in DOMAIN asked /\ state'[t].told \in ToldDialogs'
                        /\ asked[state'[t].told] = state'[t].notifiedWaitID
      BY <1>2 DEF DialogTold
    <2>1. CASE t = s
      <3>1. state'[t].notifiedWaitID = watch.waiting /\ state'[t].told = ToldNow(ws)
        BY <2>1 DEF Adds, Base, Types
      <3>2. watch.dialog \in DOMAIN asked /\ watch.waiting = asked[watch.dialog] /\ watch.waiting # 0
        BY <3>1, Shape DEF Base, Control
      <3>3. CASE NewDialog(ws)
        <4>1. PICK i \in DOMAIN log' : log'[i] = DialogEvent
          BY <1>4, <3>3
        <4>2. log'[i].kind = "dialog" /\ log'[i].n = watch.dialog
          BY <4>1, EventTypes DEF Base
        <4>3. ToldNow(ws) = watch.dialog
          BY <3>2, <3>3 DEF ToldNow
        <4>4. watch.dialog \in ToldDialogs'
          BY <4>2 DEF ToldDialogs
        <4> QED BY <3>1, <3>2, <4>3, <4>4
      <3>4. CASE ~NewDialog(ws)
        <4>1. ws.notifiedWaitID = watch.waiting
          BY <3>2, <3>4 DEF NewDialog
        <4>2. state[s] # None /\ state[s] = ws
          BY <3>2, <4>1 DEF Primed
        <4>3. ToldNow(ws) = ws.told
          BY <3>2, <3>4 DEF ToldNow
        <4> QED BY <1>7, <3>1, <3>2, <4>1, <4>2, <4>3 DEF Base, DialogTold
      <3> QED BY <3>3, <3>4
    <2>2. CASE t # s
      <3>1. state'[t] = state[t]
        BY <2>2 DEF Adds, Base, Types
      <3> QED BY <1>7, <3>1 DEF Base, DialogTold
    <2> QED BY <2>1, <2>2
  <1> QED BY <1>3, <1>6, <1>8 DEF Base

LEMMA AddsKeeps ==
  ASSUME Base, NEW s \in Session, NEW ws \in WatchState, ws = Primed(s), Adds(s, ws),
         Turns, Samples
  PROVE  Turns' /\ Samples'
  <1>1. UNCHANGED <<claude, looks>> /\ watch.name = s /\ watch.pc = "watch" /\ watch'.pc = "next"
        /\ watch'.name = None
    BY DEF Adds
  <1>2. /\ UNCHANGED <<pane, turns, msgs, asked>> /\ Live' = Live
        /\ (\A t : Turn(t)' = Turn(t)) /\ (\A m : TurnOf(m)' = TurnOf(m))
        /\ Over' = Over /\ Final' = Final /\ Excused' = Excused /\ Sound' = Sound
    BY <1>1, Still
  <1>3. /\ \A i \in DOMAIN log : i \in DOMAIN log' /\ log'[i] = log[i]
        /\ \A i \in DOMAIN log' \ DOMAIN log :
             (log'[i] = DialogEvent /\ NewDialog(ws)) \/ (log'[i] = TurnEvent /\ TurnDone(ws))
        /\ \A i, j \in DOMAIN log' \ DOMAIN log :
             log'[i] = TurnEvent /\ log'[j] = TurnEvent /\ TurnDone(ws) => i = j
    BY DEF Adds
  <1> DEFINE new == [idleStreak |-> Streak(ws), lastNotifiedID |-> Notified(ws),
                     notifiedWaitID |-> watch.waiting, told |-> ToldNow(ws)]
  <1>4. /\ state'[s] = new /\ \A t \in Session \ {s} : state'[t] = state[t]
    BY DEF Adds, Base, Types
  <1>5. new.idleStreak = Streak(ws) /\ new.lastNotifiedID = Notified(ws)
    OBVIOUS
  <1> HIDE DEF new
  <1>6. ws.lastNotifiedID \in Nat /\ watch.last \in Nat /\ ws.idleStreak \in 0..turnWatchSettle
    BY Shape, WatchFields DEF Base, WatchState
  <1>7. ASSUME TurnDone(ws)
        PROVE  /\ watch.last # 0 /\ watch.last # ws.lastNotifiedID /\ Notified(ws) = watch.last
               /\ ~watch.working /\ s \in Streaked /\ IdleSample
               /\ TurnEvent.n = watch.last /\ TurnEvent.turn = TurnOf(watch.last)
               /\ TurnEvent.turn[1] = msgs[watch.last].conv /\ TurnEvent.kind = "turn"
               /\ TurnEvent \in Event
               /\ TurnEvent.was = TurnState(TurnOf(watch.last))
               /\ TurnEvent.seen = (TurnOf(watch.last) \in looks.working)
               /\ watch.last \in DOMAIN msgs /\ TurnOf(watch.last) \in TurnId
    <2>1. /\ watch.last # 0 /\ watch.last # ws.lastNotifiedID /\ Streak(ws) >= turnWatchSettle
          /\ Notified(ws) = watch.last
      BY <1>7 DEF TurnDone, Notified
    <2>2. ~watch.working /\ ws.idleStreak >= 1
      BY <2>1, StreakType
    <2>3. state[s] # None /\ state[s].idleStreak >= 1
      BY <2>2 DEF Primed
    <2>4. watch.last \in DOMAIN msgs /\ TurnOf(watch.last) \in TurnId
          /\ TurnOf(watch.last)[1] = msgs[watch.last].conv
      BY <2>1, LastTurn
    <2> QED BY <1>1, <2>1, <2>2, <2>3, <2>4, EventTypes DEF Streaked, IdleSample, Base
  <1>8. ASSUME NEW i \in TurnEvents'
        PROVE  \/ i \in TurnEvents /\ log'[i] = log[i]
               \/ i \notin DOMAIN log /\ i \in DOMAIN log' /\ log'[i] = TurnEvent /\ TurnDone(ws)
    <2>1. i \in DOMAIN log' /\ log'[i].kind = "turn"
      BY DEF TurnEvents
    <2>2. CASE i \in DOMAIN log
      BY <1>3, <2>1, <2>2 DEF TurnEvents
    <2>3. CASE i \notin DOMAIN log
      BY <1>3, <2>1, <2>3, EventTypes DEF Base
    <2> QED BY <2>2, <2>3
  <1>9. watch.last # 0 =>
          /\ <<msgs[watch.last].conv, ws.lastNotifiedID>> \in Told
          /\ ws.lastNotifiedID <= watch.last
          /\ s \in Live => pane[s].conv = msgs[watch.last].conv
          /\ \A t \in Live : pane[t].conv = msgs[watch.last].conv /\ t # s => state[t] = None
    BY <1>1 DEF Turns, Sampled, Looking
  <1>10. ASSUME NEW i \in TurnEvents, TurnDone(ws), log[i].turn[1] = msgs[watch.last].conv
         PROVE  log[i].n < watch.last
    <2>1. <<msgs[watch.last].conv, ws.lastNotifiedID>> \in Told
      BY <1>7, <1>9, <1>10
    <2>2. log[i].n <= ws.lastNotifiedID
      BY <1>10, <2>1 DEF Told
    <2>3. log[i].n \in Nat
      BY TurnEventIs
    <2> QED BY <1>6, <1>7, <1>9, <1>10, <2>2, <2>3
  <1>11. Once'
    <2> SUFFICES ASSUME NEW i \in TurnEvents', NEW j \in TurnEvents', log'[i].n = log'[j].n
                 PROVE  i = j
      BY DEF Once
    <2>1. ASSUME NEW k \in TurnEvents, TurnDone(ws), log[k].n = watch.last PROVE FALSE
      <3>1. log[k].turn[1] = msgs[watch.last].conv
        BY <2>1, TurnEventIs
      <3> QED BY <1>6, <1>10, <2>1, <3>1
    <2>2. CASE i \in TurnEvents /\ log'[i] = log[i] /\ j \in TurnEvents /\ log'[j] = log[j]
      BY <2>2 DEF Turns, Once
    <2>3. CASE /\ i \notin DOMAIN log /\ i \in DOMAIN log' /\ log'[i] = TurnEvent /\ TurnDone(ws)
               /\ j \notin DOMAIN log /\ j \in DOMAIN log' /\ log'[j] = TurnEvent
      BY <1>3, <2>3
    <2> QED BY <1>7, <1>8, <2>1, <2>2, <2>3
  <1>12. ASSUME NEW p \in Told, TurnDone(ws) /\ p[1] = msgs[watch.last].conv => watch.last <= p[2]
         PROVE  p \in Told'
    <2>1. p \in Conv \X Nat /\ \A i \in TurnEvents : log[i].turn[1] = p[1] => log[i].n <= p[2]
      BY DEF Told
    <2>2. ASSUME NEW i \in TurnEvents', log'[i].turn[1] = p[1] PROVE log'[i].n <= p[2]
      BY <1>7, <1>8, <1>12, <2>1, <2>2
    <2> QED BY <2>1, <2>2 DEF Told
  <1>13. Remembered'
    <2> SUFFICES ASSUME NEW t \in Live, state'[t] # None
                 PROVE  /\ <<pane[t].conv, state'[t].lastNotifiedID>> \in Told'
                        /\ state'[t].lastNotifiedID # 0 =>
                             /\ state'[t].lastNotifiedID \in DOMAIN msgs
                             /\ msgs[state'[t].lastNotifiedID].conv = pane[t].conv
      BY <1>2 DEF Remembered
    <2>0. t \in Session /\ pane[t].conv \in Conv
      BY Shape, PaneFields DEF Base
    <2>1. CASE t = s /\ TurnDone(ws)
      <3>1. state'[t].lastNotifiedID = watch.last /\ pane[t].conv = msgs[watch.last].conv
            /\ watch.last \in DOMAIN msgs
        BY <1>4, <1>5, <1>7, <1>9, <2>1
      <3>2. ASSUME NEW i \in TurnEvents', log'[i].turn[1] = pane[t].conv PROVE log'[i].n <= watch.last
        <4>1. CASE i \in TurnEvents /\ log'[i] = log[i]
          <5>1. log[i].n < watch.last /\ log[i].n \in Nat
            BY <1>10, <2>1, <3>1, <3>2, <4>1, TurnEventIs
          <5> QED BY <1>6, <4>1, <5>1
        <4>2. CASE log'[i] = TurnEvent
          BY <1>6, <1>7, <2>1, <4>2
        <4> QED BY <1>8, <4>1, <4>2
      <3>3. <<pane[t].conv, watch.last>> \in Told'
        BY <1>6, <2>0, <3>2 DEF Told
      <3> QED BY <3>1, <3>3
    <2>2. CASE t = s /\ ~TurnDone(ws)
      <3>1. state'[t].lastNotifiedID = ws.lastNotifiedID
        BY <1>4, <1>5, <2>2 DEF Notified
      <3>2. /\ <<pane[t].conv, ws.lastNotifiedID>> \in Told
            /\ ws.lastNotifiedID # 0 =>
                 ws.lastNotifiedID \in DOMAIN msgs /\ msgs[ws.lastNotifiedID].conv = pane[t].conv
        <4>1. CASE state[s] # None
          <5>1. ws = state[s]
            BY <4>1 DEF Primed
          <5> QED BY <2>2, <4>1, <5>1 DEF Turns, Remembered
        <4>2. CASE state[s] = None
          <5>1. ws.lastNotifiedID = watch.last
            BY <4>2 DEF Primed
          <5>2. CASE watch.last = 0
            <6>1. <<pane[t].conv, 0>> \in Told
              BY <1>1, <2>2, <4>2, <5>2 DEF Turns, Sampled, Looking
            <6> QED BY <5>1, <5>2, <6>1
          <5>3. CASE watch.last # 0
            BY <1>9, <2>2, <5>1, <5>3, LastTurn
          <5> QED BY <5>2, <5>3
        <4> QED BY <4>1, <4>2
      <3>3. <<pane[t].conv, ws.lastNotifiedID>> \in Told'
        BY <1>12, <2>2, <3>2
      <3> QED BY <3>1, <3>2, <3>3
    <2>3. CASE t # s
      <3>1. state'[t] = state[t]
        BY <1>4, <2>0, <2>3
      <3>2. /\ <<pane[t].conv, state[t].lastNotifiedID>> \in Told
            /\ state[t].lastNotifiedID # 0 =>
                 /\ state[t].lastNotifiedID \in DOMAIN msgs
                 /\ msgs[state[t].lastNotifiedID].conv = pane[t].conv
        BY <3>1 DEF Turns, Remembered
      <3>3. TurnDone(ws) => pane[t].conv # msgs[watch.last].conv
        BY <1>7, <1>9, <2>3, <3>1
      <3>4. <<pane[t].conv, state[t].lastNotifiedID>> \in Told'
        BY <1>12, <3>2, <3>3
      <3> QED BY <3>1, <3>2, <3>4
    <2> QED BY <2>1, <2>2, <2>3
  <1>14. Sampled'
    BY <1>1 DEF Sampled, Looking
  <1>15. ~IdleSample' /\ ~Looking' /\ SampledIdle' /\ Settled' /\ Ripe'
    BY <1>1 DEF IdleSample, Looking, SampledIdle, Settled, Ripe
  <1>16. Idled'
    <2> SUFFICES ASSUME NEW t \in Live, t \in Streaked', Turn(t) \in looks.working
                 PROVE  t \in Excused
      BY <1>1, <1>2 DEF Idled
    <2>1. CASE t = s
      <3>1. Streak(ws) >= 1
        BY <1>4, <1>5, <2>1 DEF Streaked
      <3>2. ~watch.working
        BY <3>1, StreakType
      <3> QED BY <1>1, <2>1, <3>2 DEF Samples, SampledIdle, IdleSample
    <2>2. CASE t # s
      <3>1. t \in Session /\ state'[t] = state[t]
        BY <1>4, <2>2 DEF Live
      <3>2. t \in Streaked
        BY <3>1 DEF Streaked
      <3> QED BY <1>1, <2>2, <3>2 DEF Samples, Idled, Resetting
    <2> QED BY <2>1, <2>2
  <1>17. ASSUME NEW T \in Over, T[2] <= turns[T[1]] PROVE TurnState(T) = "idle"
    <2>1. T[1] \in Conv /\ T[2] \in Nat /\ turns[T[1]] \in Nat
      BY DEF Over, TurnId, Base, Types
    <2>2. ASSUME NEW t \in Live, Turn(t) = T PROVE pane[t].tui = "idle"
      BY <2>1, <2>2 DEF Over, Turn
    <2> QED BY <2>2 DEF TurnState
  <1>18. ASSUME TurnDone(ws) PROVE TurnEvent \in Sound
    <2>1. /\ TurnOf(watch.last) \in looks.working \ looks.covered => TurnOf(watch.last) \in Over
          /\ TurnOf(watch.last) \notin looks.missed \union looks.covered
               => TurnOf(watch.last) \in Over
      BY <1>1, <1>7, <1>18 DEF Samples, Settled
    <2>2. TurnOf(watch.last) \in looks.working \ (looks.missed \union looks.covered)
            => watch.last \in Final
      BY <1>1, <1>7, <1>18 DEF Samples, Ripe, Looking
    <2>3. TurnOf(watch.last) \in Over => TurnState(TurnOf(watch.last)) = "idle"
      BY <1>7, <1>17, <1>18, LastTurn
    <2> QED BY <1>7, <1>18, <2>1, <2>2, <2>3 DEF Sound
  <1>19. Verdicts'
    <2> SUFFICES ASSUME NEW i \in TurnEvents' PROVE log'[i] \in Sound
      BY <1>2 DEF Verdicts
    <2> QED BY <1>8, <1>18 DEF Samples, Verdicts
  <1> QED BY <1>11, <1>13, <1>14, <1>15, <1>16, <1>19 DEF Turns, Samples

-----------------------------------------------------------------------------
(* The invariant *)

Opened == [conv : Conv, tui : {"idle"}, dialog : {0}, flickered : {FALSE}]

LEMMA OpenedFields ==
  ASSUME NEW r \in Opened
  PROVE  /\ r.conv \in Conv /\ r.dialog = 0 /\ r \in PaneState
         /\ r = [conv |-> r.conv, tui |-> "idle", dialog |-> 0, flickered |-> FALSE]
  <1>1. r.conv \in Conv /\ r.tui = "idle" /\ r.dialog = 0 /\ r.flickered = FALSE
    BY DEF Opened
  <1>2. r = [conv |-> r.conv, tui |-> r.tui, dialog |-> r.dialog, flickered |-> r.flickered]
    BY DEF Opened
  <1>3. r = [conv |-> r.conv, tui |-> "idle", dialog |-> 0, flickered |-> FALSE]
    BY <1>1, <1>2
  <1>4. r \in PaneState
    <2> DEFINE q == [conv |-> r.conv, tui |-> "idle", dialog |-> 0, flickered |-> FALSE]
    <2>1. q \in PaneState
      BY <1>1 DEF PaneState
    <2> QED BY <1>3, <2>1
  <1> QED BY <1>1, <1>3, <1>4

LEMMA InitInv == Init => Inv
  <1> SUFFICES ASSUME Init PROVE Inv
    OBVIOUS
  <1>1. /\ turns = [c \in Conv |-> 0] /\ msgs = <<>> /\ asked = <<>> /\ log = <<>>
        /\ watch = NewWatch /\ state = [s \in Session |-> None]
        /\ subs = [x \in Subscriber |-> None]
        /\ looks = [working |-> {}, missed |-> {}, covered |-> {}, lost |-> FALSE, retaken |-> FALSE]
    BY DEF Init
  <1>2. DOMAIN msgs = {} /\ DOMAIN asked = {} /\ DOMAIN log = {} /\ Len(msgs) = 0 /\ Len(asked) = 0
    BY <1>1
  <1>3. \A s \in Live : s \in Session /\ pane[s] \in Opened
    BY DEF Init, Live, Opened
  <1>4. pane \in [Session -> PaneState \union {None}]
    <2>1. \A s \in Session : pane[s] \in Opened \union {None}
      BY DEF Init, Opened
    <2>2. \A s \in Session : pane[s] \in PaneState \union {None}
      BY <2>1, OpenedFields
    <2> QED BY <2>2 DEF Init
  <1>5. looks \in Looks
    BY <1>1 DEF Looks
  <1>6. watch \in WatchRecord /\ watch.pc = "sleep" /\ watch.name = None
        /\ watch.last = 0 /\ watch.dialog = 0 /\ watch.waiting = 0
    BY <1>1, NewWatchType
  <1>7. Types
    BY <1>1, <1>4, <1>5, <1>6 DEF Types
  <1>8. OneSession
    <2> SUFFICES ASSUME NEW s \in Live, NEW t \in Live, pane[s].conv = pane[t].conv PROVE s = t
      BY DEF OneSession
    <2>1. pane[s] = pane[t]
      BY <1>3, OpenedFields
    <2> QED BY <2>1, <1>3 DEF Init, Live
  <1>9. Latest
    <2>1. ASSUME NEW c \in Conv PROVE LastMessage(c) = 0
      <3>1. {0} \union {m \in DOMAIN msgs : msgs[m].conv = c} = {0}
        BY <1>2
      <3> QED BY <3>1, MaxIs DEF LastMessage
    <2> QED BY <1>2, <2>1 DEF Latest
  <1>10. Past /\ Logged /\ DialogTold /\ Delivery /\ TurnEvents = {}
    BY <1>1, <1>2 DEF Past, Logged, DialogTold, Delivery, Delivered, TurnEvents
  <1>11. Control
    BY <1>2, <1>6 DEF Control
  <1>12. Dialogs
    BY <1>2, <1>3, OpenedFields DEF Dialogs
  <1>13. Once /\ Remembered /\ Sampled
    BY <1>1, <1>6, <1>10 DEF Live, Once, Remembered, Sampled, Looking
  <1>14. Streaked = {}
    BY <1>1 DEF Streaked
  <1>15. Idled /\ SampledIdle /\ Settled /\ Ripe /\ Verdicts
    BY <1>6, <1>10, <1>14 DEF Idled, SampledIdle, Settled, Ripe, Verdicts, IdleSample, Looking
  <1> QED BY <1>7, <1>8, <1>9, <1>10, <1>11, <1>12, <1>13, <1>15 DEF Inv, Base, Turns, Samples

LEMMA SameNames == UNCHANGED looks => LooksSound' = LooksSound
  BY DEF LooksSound

LEMMA NextInv == Inv /\ [Next]_vars => Inv'
  <1> SUFFICES ASSUME Inv, [Next]_vars PROVE Inv'
    OBVIOUS
  <1>1. Base /\ (LooksSound => Turns /\ Samples)
    BY DEF Inv
  <1>2. Types /\ Delivery /\ OneSession /\ Dialogs
    BY <1>1 DEF Base
  <1>3. CASE Hub
    <2>1. Types' /\ Delivery' /\ HubStep
      BY <1>2, <1>3, HubSteps
    <2>2. Base'
      BY <1>1, <2>1, HubBase
    <2>3. LooksSound' = LooksSound
      BY <2>1, SameNames DEF HubStep
    <2> QED BY <1>1, <2>1, <2>2, <2>3, HubTurns, HubSamples DEF Inv
  <1>4. CASE List \/ Forget \/ LookWaiting \/ Restart
    <2>1. Types' /\ Delivery' /\ Control' /\ Quiet
      BY <1>1, <1>4, QuietSteps
    <2>2. Base'
      BY <1>1, <2>1, QuietBase
    <2>3. LooksSound' = LooksSound
      BY <2>1, SameNames DEF Quiet
    <2> QED BY <1>1, <2>1, <2>2, <2>3, QuietTurns, QuietSamples DEF Inv
  <1>5. CASE LookAssistant
    <2>1. Base'
      BY <1>1, <1>5, LookAssistantBase
    <2>2. LooksSound' => Turns' /\ Samples'
      BY <1>1, <1>5, LookAssistantKeeps
    <2> QED BY <2>1, <2>2 DEF Inv
  <1>6. CASE LookWorking
    <2>1. Types' /\ OneSession' /\ Control' /\ watch.name \in Session
      BY <1>1, <1>6, LookWorkingShape
    <2>2. PICK word \in BOOLEAN : LookedAt(watch.name, word)
      BY <1>1, <1>6, LookWorkingShape
    <2>3. Base'
      BY <1>1, <2>1, <2>2, LookedAtBase
    <2>4. LooksSound' => Turns' /\ Samples'
      BY <1>1, <2>1, <2>2, LookedAtKeeps
    <2> QED BY <2>3, <2>4 DEF Inv
  <1>7. CASE Watch
    <2>1. /\ Types' /\ Delivery' /\ Control' /\ watch.name \in Session
          /\ Primed(watch.name) \in WatchState /\ Adds(watch.name, Primed(watch.name))
      BY <1>1, <1>7, WatchShape
    <2>2. PICK s \in Session, ws \in WatchState : s = watch.name /\ ws = Primed(s) /\ Adds(s, ws)
      BY <2>1
    <2>3. Base'
      BY <1>1, <2>1, <2>2, AddsBase
    <2>4. LooksSound' = LooksSound
      BY <2>2, SameNames DEF Adds
    <2>5. LooksSound => Turns' /\ Samples'
      BY <1>1, <2>2, AddsKeeps
    <2> QED BY <2>3, <2>4, <2>5 DEF Inv
  <1>8. ASSUME NEW s \in Session, Claude(s) PROVE Inv'
    <2>1. Types' /\ OneSession' /\ Evolves
      BY <1>2, <1>8, ClaudeEvolves
    <2>2. Base'
      BY <1>1, <2>1, EvolvesBase
    <2>3. LooksSound' => LooksSound
      BY <1>2, <2>1, NamesWereKept DEF Evolves
    <2>4. LooksSound' => Turns' /\ Samples'
      BY <1>1, <2>1, <2>3, EvolvesTurns, EvolvesSamples
    <2> QED BY <2>2, <2>4 DEF Inv
  <1>9. CASE UNCHANGED vars
    <2>1. HubStep
      BY <1>9 DEF HubStep, NoTurnLogged, vars, claude
    <2>2. Types' /\ Delivery'
      BY <1>2, <1>9 DEF Types, Delivery, vars
    <2>3. Base'
      BY <1>1, <2>1, <2>2, HubBase
    <2>4. LooksSound' = LooksSound
      BY <2>1, SameNames DEF HubStep
    <2> QED BY <1>1, <2>1, <2>3, <2>4, HubTurns, HubSamples DEF Inv
  <1> QED BY <1>3, <1>4, <1>5, <1>6, <1>7, <1>8, <1>9 DEF Next, Watcher

LEMMA Always == Spec => []Inv
  BY InitInv, NextInv, PTL DEF Spec

-----------------------------------------------------------------------------
(* The theorems *)

\* A browser that kept up has what was broadcast since it subscribed, in order,
\* and no channel holds more than it has room for: an event a full channel has
\* no room for is lost to that browser only (events.go:11).
THEOREM Delivers == Spec => []HubDelivers
  <1>1. Inv => HubDelivers
    BY DEF Inv, Base, Delivery, Delivered, Follows, Flow, After, HubDelivers
  <1> QED BY <1>1, Always, PTL

\* watchSession announces no message twice as the end of a turn (watcher.go:116),
\* through restarts, errors, missed listings and renames, as long as no session
\* goes in the middle of a status or is primed from a look that missed its
\* messages, and no name is taken that the watcher remembers.
THEOREM AnnouncedOnce == Spec => []NoDuplicateTurn
  <1>1. Inv => NoDuplicateTurn
    BY DEF Inv, Turns, Once, NoDuplicateTurn
  <1> QED BY <1>1, Always, PTL

\* A turn the watcher has sampled working is announced when it is over, and
\* once (watcher.go:19), unless a look at it missed its status word.
THEOREM SeenTurnsEnd == Spec => []SeenTurns
  <1>1. ASSUME Inv, LooksSound, NEW i \in TurnEvents,
               log[i].seen, log[i].turn \notin looks.covered
        PROVE  /\ log[i].was = "idle"
               /\ log[i].turn \notin looks.missed => \A j \in TurnEvents : log[j].turn = log[i].turn => i = j
    <2>1. Base /\ Once /\ Verdicts
      BY <1>1 DEF Inv, Turns, Samples
    <2>2. \A j \in TurnEvents : log[j] \in Sound
      BY <2>1 DEF Verdicts
    <2>3. log[i].was = "idle"
      BY <1>1, <2>2 DEF Sound
    <2>4. ASSUME log[i].turn \notin looks.missed, NEW j \in TurnEvents, log[j].turn = log[i].turn
          PROVE  i = j
      <3>1. /\ log[i].n \in DOMAIN msgs /\ log[i].turn = TurnOf(log[i].n) /\ log[i].n \in Nat
            /\ log[i].turn \in TurnId
        BY <2>1, TurnEventIs
      <3>2. /\ log[j].n \in DOMAIN msgs /\ log[j].turn = TurnOf(log[j].n) /\ log[j].n \in Nat
            /\ log[j].seen \in BOOLEAN
        BY <2>1, TurnEventIs
      <3>3. log[i].n \in Final
        BY <1>1, <2>2, <2>4 DEF Sound
      <3>4. log[j].seen
        <4>1. SUFFICES ASSUME ~log[j].seen PROVE FALSE
          BY <3>2
        <4>2. log[j].turn \notin looks.working
          BY <1>1, <2>2, <2>4, <4>1 DEF Sound
        <4>3. log[i].turn \in looks.working
          BY <1>1, <2>1 DEF Base, Logged
        <4> QED BY <2>4, <4>2, <4>3
      <3>5. log[j].n \in Final
        BY <1>1, <2>2, <2>4, <3>4 DEF Sound
      <3>6. log[i].n <= log[j].n /\ log[j].n <= log[i].n
        BY <2>4, <3>1, <3>2, <3>3, <3>5 DEF Final
      <3> QED BY <2>1, <3>1, <3>2, <3>6 DEF Once
    <2> QED BY <2>3, <2>4
  <1>2. Inv => SeenTurns
    BY <1>1 DEF SeenTurns
  <1> QED BY <1>2, Always, PTL

LEMMA DialogAnnounced ==
  ASSUME Inv, Watch, NEW d \in Nat, d # 0, watch.dialog = d
  PROVE  Announced("dialog", d)' \/ TakenFor(watch.name, d)
  <1>1. Base
    BY DEF Inv
  <1>2. PICK s \in Session, ws \in WatchState : s = watch.name /\ ws = Primed(s) /\ Adds(s, ws)
    BY <1>1, WatchShape
  <1>3. watch.dialog \in DOMAIN asked /\ watch.waiting = asked[watch.dialog] /\ watch.waiting # 0
    BY <1>1, Shape DEF Base, Control, Dialogs
  <1>4. CASE NewDialog(ws)
    <2>1. PICK i \in DOMAIN log' : log'[i] = DialogEvent
      BY <1>2, <1>4 DEF Adds
    <2>2. log'[i].kind = "dialog" /\ log'[i].n = watch.dialog
      BY <1>1, <2>1, EventTypes DEF Base
    <2> QED BY <2>2 DEF Announced
  <1>5. CASE ~NewDialog(ws)
    <2>1. ws.notifiedWaitID = watch.waiting /\ ws.notifiedWaitID # 0
      BY <1>3, <1>5 DEF NewDialog
    <2>2. state[s] # None /\ ws = state[s]
      BY <1>2, <2>1 DEF Primed
    <2>3. ws.told \in DOMAIN asked /\ ws.told \in ToldDialogs /\ asked[ws.told] = watch.waiting
      BY <1>1, <2>1, <2>2 DEF Base, DialogTold
    <2>4. ws.told # 0 /\ Announced("dialog", ws.told)
      BY <1>1, <2>3, Shape DEF Base, ToldDialogs, Announced
    <2> QED BY <1>2, <1>3, <2>2, <2>3, <2>4 DEF TakenFor
  <1> QED BY <1>4, <1>5

\* Only watchSession ends a look at a session.
LEMMA LookEnds ==
  ASSUME [Next]_vars, watch.pc = "watch", watch'.pc = "next"
  PROVE  Watch
  <1>1. ~List /\ ~Forget /\ ~LookWaiting /\ ~LookAssistant /\ ~LookWorking
    BY DEF List, Forget, LookWaiting, LookAssistant, LookWorking
  <1>2. ~Restart
    BY NewWatchType DEF Restart
  <1>3. Hub \/ UNCHANGED vars \/ (\E s \in Session : Claude(s)) => watch' = watch
    BY DEF Hub, Audit, Subscribe, Receive, Unsubscribe, vars, Claude, TurnStarts, Says, TurnEnds,
           Asks, Answered, Close, Rename, Open, unwatched
  <1> QED BY <1>1, <1>2, <1>3 DEF Next, Watcher

\* A dialog that the watcher sampled has been announced when it turns to the
\* next session (watcher.go:103), whatever the questions, the errors, the restarts
\* and the sessions' names - or an announced dialog of the same session had the
\* same question, and every sample since has found it open (watcher.go:114).
THEOREM DialogsTold == Spec => NoDialogSwallowed
  <1>1. ASSUME Inv, [Next]_vars, NEW d \in 1..MaxDialogs,
               watch.pc = "watch", watch'.pc = "next", watch.dialog = d
        PROVE  Announced("dialog", d)' \/ TakenFor(watch.name, d)
    <2>1. d \in Nat /\ d # 0
      BY WatcherAssumption
    <2>2. Watch
      BY <1>1, LookEnds
    <2> QED BY <1>1, <2>1, <2>2, DialogAnnounced
  <1>2. Inv /\ [Next]_vars
          => [\A d \in 1..MaxDialogs :
                watch.pc = "watch" /\ watch'.pc = "next" /\ watch.dialog = d
                  => Announced("dialog", d)' \/ TakenFor(watch.name, d)]_vars
    BY <1>1
  <1> QED BY <1>2, Always, PTL DEF Spec, NoDialogSwallowed

-----------------------------------------------------------------------------
(* Type correctness *)

\* What the types leave out.
Ranges ==
  /\ \A s \in Live : (pane[s].dialog # 0) = (pane[s].tui = "dialog")
  /\ \A s \in Session : state[s] # None =>
       /\ state[s].lastNotifiedID \in 0..Len(msgs) /\ state[s].notifiedWaitID \in 0..Len(asked)
       /\ state[s].told \in 0..Len(asked)
  /\ watch.todo \subseteq watch.listed

LEMMA DialogShown ==
  ASSUME NEW s \in Session, pane[s] \in PaneState, Len(asked) \in Nat,
         (pane[s].dialog # 0) = (pane[s].tui = "dialog"),
         pane \in [Session -> PaneState \union {None}],
         TurnStarts(s) \/ Says(s) \/ TurnEnds(s) \/ Asks(s) \/ Answered(s)
  PROVE  \E r : pane' = [pane EXCEPT ![s] = r] /\ (r.dialog # 0) = (r.tui = "dialog")
  <1>1. CASE TurnStarts(s)
    <2> DEFINE r == [pane[s] EXCEPT !.tui = "working", !.flickered = FALSE]
    <2>1. pane' = [pane EXCEPT ![s] = r]
      BY <1>1 DEF TurnStarts
    <2>2. r.dialog = 0 /\ r.tui = "working"
      BY <1>1 DEF TurnStarts, PaneState
    <2> HIDE DEF r
    <2> QED BY <2>1, <2>2
  <1>2. CASE Says(s)
    <2>1. pane' = [pane EXCEPT ![s] = pane[s]]
      BY <1>2 DEF Says
    <2> QED BY <2>1
  <1>3. CASE TurnEnds(s)
    <2> DEFINE r == [pane[s] EXCEPT !.tui = "idle"]
    <2>1. pane' = [pane EXCEPT ![s] = r]
      BY <1>3 DEF TurnEnds
    <2>2. r.dialog = 0 /\ r.tui = "idle"
      BY <1>3 DEF TurnEnds, PaneState
    <2> HIDE DEF r
    <2> QED BY <2>1, <2>2
  <1>4. CASE Asks(s)
    <2> DEFINE k == Len(asked) + 1
               r == [pane[s] EXCEPT !.tui = "dialog", !.dialog = k]
    <2>1. pane' = [pane EXCEPT ![s] = r]
      BY <1>4 DEF Asks
    <2>2. k # 0
      OBVIOUS
    <2> HIDE DEF k
    <2>3. r.dialog = k /\ r.tui = "dialog"
      BY DEF PaneState
    <2> HIDE DEF r
    <2> QED BY <2>1, <2>2, <2>3
  <1>5. CASE Answered(s)
    <2> DEFINE r == [pane[s] EXCEPT !.tui = "working", !.dialog = 0]
    <2>1. pane' = [pane EXCEPT ![s] = r]
      BY <1>5 DEF Answered
    <2>2. r.dialog = 0 /\ r.tui = "working"
      BY DEF PaneState
    <2> HIDE DEF r
    <2> QED BY <2>1, <2>2
  <1> QED BY <1>1, <1>2, <1>3, <1>4, <1>5

LEMMA RangesStay ==
  ASSUME Inv, Inv', Ranges, [Next]_vars
  PROVE  Ranges'
  <1>1. Base /\ Base'
    BY DEF Inv
  <1>2. /\ Len(msgs) \in Nat /\ Len(asked) \in Nat /\ Len(msgs') \in Nat /\ Len(asked') \in Nat
        /\ watch \in WatchRecord /\ pane \in [Session -> PaneState \union {None}]
    BY <1>1, Shape DEF Base, Types
  <1>3. ASSUME UNCHANGED <<pane, turns, msgs, asked, state>>, watch'.todo \subseteq watch'.listed
        PROVE  Ranges'
    <2>1. Live' = Live
      BY <1>3 DEF Live
    <2> QED BY <1>3, <2>1 DEF Ranges
  <1>4. CASE Hub \/ UNCHANGED vars
    <2>1. UNCHANGED <<pane, turns, msgs, asked, state, watch>>
      BY <1>4 DEF Hub, Audit, Subscribe, Receive, Unsubscribe, vars, claude
    <2> QED BY <1>3, <2>1 DEF Ranges
  <1>5. CASE List
    <2>1. PICK S : watch' = [watch EXCEPT !.pc = "next", !.todo = S, !.listed = S]
      BY <1>5 DEF List
    <2>2. watch'.todo = S /\ watch'.listed = S
      BY <1>2, <2>1 DEF WatchRecord
    <2> QED BY <1>3, <1>5, <2>2 DEF List, claude
  <1>6. CASE LookWaiting
    <2>1. PICK s \in watch.todo :
            \/ watch' = [watch EXCEPT !.todo = watch.todo \ {s}]
            \/ watch' = [watch EXCEPT !.pc = "assistant", !.name = s, !.todo = watch.todo \ {s},
                 !.dialog = pane[s].dialog,
                 !.waiting = IF pane[s].dialog = 0 THEN 0 ELSE asked[pane[s].dialog]]
      BY <1>6 DEF LookWaiting
    <2>2. watch'.todo = watch.todo \ {s} /\ watch'.listed = watch.listed
      BY <1>2, <2>1 DEF WatchRecord
    <2> QED BY <1>3, <1>6, <2>2 DEF LookWaiting, claude, Ranges
  <1>7. CASE LookAssistant
    <2>1. PICK l : watch' = [watch EXCEPT !.pc = "working", !.last = l]
      BY <1>7 DEF LookAssistant
    <2>2. watch'.todo = watch.todo /\ watch'.listed = watch.listed
      BY <1>2, <2>1 DEF WatchRecord
    <2> QED BY <1>3, <1>7, <2>2 DEF LookAssistant, claude, Ranges
  <1>8. CASE Forget \/ Restart
    <2>1. NewWatch.todo = {}
      BY DEF NewWatch
    <2>2. /\ UNCHANGED <<pane, turns, msgs, asked>> /\ watch' = NewWatch
          /\ \A s \in Session : state'[s] # None => state'[s] = state[s]
      BY <1>8 DEF Forget, Restart, claude
    <2>3. Live' = Live
      BY <2>2 DEF Live
    <2> QED BY <2>1, <2>2, <2>3 DEF Ranges
  <1>9. CASE LookWorking
    <2>1. UNCHANGED <<turns, msgs, asked, state>>
      BY <1>9 DEF LookWorking
    <2>2. watch'.todo \subseteq watch'.listed
      BY <1>2, <1>9 DEF LookWorking, WatchRecord, Ranges
    <2>3. PICK word \in BOOLEAN : LookedAt(watch.name, word)
      BY <1>1, <1>9, LookWorkingShape
    <2>4. \A t \in Live' : t \in Live /\ pane'[t].dialog = pane[t].dialog /\ pane'[t].tui = pane[t].tui
      BY <2>3 DEF LookedAt
    <2> QED BY <2>1, <2>2, <2>4 DEF Ranges
  <1>10. CASE Watch
    <2>1. PICK s \in Session, ws \in WatchState : s = watch.name /\ ws = Primed(s) /\ Adds(s, ws)
      BY <1>1, <1>10, WatchShape
    <2>2. UNCHANGED <<pane, turns, msgs, asked>> /\ watch'.todo = watch.todo /\ watch'.listed = watch.listed
      BY <1>10 DEF Watch, claude, NewWatch
    <2>3. watch.last \in 0..Len(msgs) /\ watch.waiting \in 0..Len(asked) /\ watch.dialog \in 0..Len(asked)
      BY <1>1, <1>2, Shape DEF Base, Control, Dialogs
    <2>4. ws.lastNotifiedID \in 0..Len(msgs) /\ ws.told \in 0..Len(asked)
      BY <1>1, <1>2, <2>1, <2>3 DEF Primed, Ranges
    <2>5. Notified(ws) \in 0..Len(msgs) /\ ToldNow(ws) \in 0..Len(asked)
      BY <1>2, <2>3, <2>4 DEF Notified, ToldNow
    <2>6. \A t \in Session : /\ t # s => state'[t] = state[t]
                             /\ t = s => /\ state'[t].lastNotifiedID = Notified(ws)
                                         /\ state'[t].notifiedWaitID = watch.waiting
                                         /\ state'[t].told = ToldNow(ws)
      BY <1>1, <2>1 DEF Adds, Base, Types
    <2>7. Live' = Live
      BY <2>2 DEF Live
    <2> QED BY <2>2, <2>3, <2>5, <2>6, <2>7 DEF Ranges
  <1>11. ASSUME NEW s \in Session, Claude(s) PROVE Ranges'
    <2>1. Evolves
      BY <1>1, <1>11, ClaudeEvolves DEF Base
    <2>2. state' = state /\ watch' = watch /\ Len(msgs) <= Len(msgs') /\ Len(asked) <= Len(asked')
      BY <1>1, <2>1, Growth DEF Base, Evolves
    <2>3. ASSUME NEW t \in Live' PROVE (pane'[t].dialog # 0) = (pane'[t].tui = "dialog")
      <3>1. \A r \in Live : (pane[r].dialog # 0) = (pane[r].tui = "dialog") /\ r \in Session /\ pane[r] \in PaneState
        BY <1>1, Shape DEF Ranges, Base
      <3>2. t \in Session /\ pane'[t] # None
        BY <2>3 DEF Live
      <3>3. CASE TurnStarts(s) \/ Says(s) \/ TurnEnds(s) \/ Asks(s) \/ Answered(s)
        <4>1. s \in Live
          BY <3>3 DEF TurnStarts, Says, TurnEnds, Asks, Answered
        <4>2. PICK r : pane' = [pane EXCEPT ![s] = r] /\ (r.dialog # 0) = (r.tui = "dialog")
          BY <1>2, <3>1, <3>3, <4>1, DialogShown
        <4> QED BY <1>2, <3>1, <3>2, <4>2 DEF Live
      <3>4. CASE Close(s)
        BY <1>2, <3>1, <3>2, <3>4 DEF Close, Live
      <3>5. ASSUME NEW u \in Session, Rename(s, u)
            PROVE  (pane'[t].dialog # 0) = (pane'[t].tui = "dialog")
        <4>1. s \in Live /\ pane' = [pane EXCEPT ![s] = None, ![u] = pane[s]]
          BY <3>5 DEF Rename
        <4>2. t # u => pane'[t] = pane[t] /\ t \in Live
          BY <1>2, <3>2, <4>1 DEF Live
        <4>3. t = u => pane'[t] = pane[s]
          BY <1>2, <4>1
        <4> QED BY <3>1, <4>1, <4>2, <4>3
      <3>6. ASSUME NEW c \in Conv, Open(s, c)
            PROVE  (pane'[t].dialog # 0) = (pane'[t].tui = "dialog")
        BY <1>2, <3>1, <3>2, <3>6 DEF Open, Live
      <3> QED BY <1>11, <3>3, <3>4, <3>5, <3>6 DEF Claude
    <2> QED BY <1>2, <2>2, <2>3 DEF Ranges
  <1> QED BY <1>4, <1>5, <1>6, <1>7, <1>8, <1>9, <1>10, <1>11 DEF Next, Watcher

\* Every value is of its kind and in its range: identities of messages and
\* dialogs that exist, a channel within its capacity, a session to look at that
\* tmux-ls listed.
THEOREM Typed == Spec => []TypeOK
  <1>1. Init => Ranges
    <2> SUFFICES ASSUME Init PROVE Ranges
      OBVIOUS
    <2>1. \A s \in Live : pane[s] \in Opened
      BY DEF Init, Live, Opened
    <2>2. \A s \in Live : (pane[s].dialog # 0) = (pane[s].tui = "dialog")
      BY <2>1 DEF Opened
    <2>3. NewWatch.todo = {}
      BY DEF NewWatch
    <2> QED BY <2>2, <2>3 DEF Init, Ranges
  <1>2. Inv /\ Inv' /\ Ranges /\ [Next]_vars => Ranges'
    BY RangesStay
  <1>3. ASSUME Inv, Ranges PROVE TypeOK
    <2>1. Base
      BY <1>3 DEF Inv
    <2>2. \A s \in Live : pane[s] \in PaneState /\ pane[s].dialog \in 0..Len(asked)
      BY <2>1, Shape DEF Base, Dialogs
    <2>3. \A s \in Session : state[s] # None => state[s].idleStreak \in 0..turnWatchSettle
      BY <2>1, Shape DEF Base, WatchState
    <2>4. watch.listed \subseteq Session
      BY <2>1, Shape, WatchFields DEF Base
    <2>5. \A x \in Subscriber : subs[x] # None => Len(subs[x].queue) <= Buffer
      BY <2>1 DEF Base, Delivery, Delivered, Follows
    <2> QED BY <1>3, <2>2, <2>3, <2>4, <2>5, PaneFields DEF TypeOK, Ranges
  <1> QED BY <1>1, <1>2, <1>3, Always, PTL DEF Spec
=============================================================================
