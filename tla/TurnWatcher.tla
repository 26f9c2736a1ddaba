---------------------------- MODULE TurnWatcher -----------------------------
(***************************************************************************)
(* The turn watcher of the web server (internal/server/watcher.go), the    *)
(* status it polls from the agent (sessionStatus in internal/host/host.go) *)
(* and the hub its notifications go through (internal/server/events.go).   *)
(*                                                                         *)
(* One goroutine lists the sessions and, for each, asks for a status that  *)
(* is itself three looks at a moving target: the open dialog, the last     *)
(* assistant message of the transcript, the status word.  Messages and     *)
(* dialogs are numbered as they come, across all sessions.                 *)
(***************************************************************************)
EXTENDS Naturals, Sequences, FiniteSetsExt

CONSTANTS
  Session,      \* tmux session names
  Conv,         \* conversations
  Subscriber,   \* browsers
  None,
  Env,          \* what happens meanwhile: see the actions that name a member
  Buffer,       \* capacity of a subscriber's channel (16 in the code)
  MaxMessages,  \* assistant messages, and turns of a conversation (bound)
  MaxDialogs,   \* dialogs (bound)
  MaxEvents     \* broadcasts before the last audit, restart, rename, close, failed
                \* listing, unread transcript, and browser that comes or goes (bound)

turnWatchSettle == 2

ASSUME WatcherAssumption ==
  /\ None \notin Session \union Conv
  /\ Buffer \in Nat \ {0}
  /\ MaxMessages \in Nat /\ MaxDialogs \in Nat /\ MaxEvents \in Nat

VARIABLES
  pane,     \* Session -> its conversation, TUI state and open dialog, or None
  turns,    \* Conv -> its current or last turn
  msgs,     \* the assistant messages: conversation and turn
  asked,    \* the dialogs: their questions
  watch,    \* the watcher's control point and locals
  state,    \* Session -> turnWatchState, or None; and (history) its told: the
            \* dialog announced last, while samples find its question open
  subs,     \* eventHub.subs: Subscriber -> its channel, or None
  log,      \* history: the broadcasts
  looks     \* history: the turns in progress the watcher saw working, missed as
            \* the footer flickered, missed as a dialog covered it; whether a
            \* look was lost, as the session was gone halfway through its three
            \* looks or as the one that primes it found no message; whether a
            \* session took a name that the watcher remembered for another

claude == <<pane, turns, msgs, asked>>
vars == <<pane, turns, msgs, asked, watch, state, subs, log, looks>>

Live == {s \in Session : pane[s] # None}
LiveConvs == {pane[s].conv : s \in Live}

\* lastAssistant: 0 when there is none.
LastMessage(c) == Max({0} \union {m \in DOMAIN msgs : msgs[m].conv = c})

Turn(s) == <<pane[s].conv, turns[pane[s].conv]>>
TurnState(turn) ==
  IF \E s \in Live : Turn(s) = turn THEN pane[CHOOSE s \in Live : Turn(s) = turn].tui
  ELSE "idle"

-----------------------------------------------------------------------------
(* eventHub *)

\* What a browser got is recorded only until it misses an event.
Missing(channel) == [channel EXCEPT !.missed = TRUE, !.got = <<>>, !.since = 0]
Full(channels, x) == channels[x] # None /\ Len(channels[x].queue) = Buffer

\* Mutant: a full channel ends the loop over the subscribers.
BroadcastStopping(channels, e) ==
  [x \in Subscriber |->
     CASE channels[x] = None -> None
       [] Full(channels, x) -> Missing(channels[x])
       [] OTHER -> IF \E y \in Subscriber : Full(channels, y) THEN channels[x]
                   ELSE [channels[x] EXCEPT !.queue = Append(@, e)]]

\* To each subscriber: sent, or dropped when its channel is full.
Broadcast(channels, e) ==
  [x \in Subscriber |->
     IF channels[x] = None THEN None
     ELSE IF Len(channels[x].queue) < Buffer
     THEN [channels[x] EXCEPT !.queue = Append(@, e)]
     ELSE Missing(channels[x])]

Subscribe(x) ==
  /\ subs[x] = None /\ Len(log) < MaxEvents
  /\ subs' = [subs EXCEPT ![x] = [queue |-> <<>>, got |-> <<>>, missed |-> FALSE,
                                  since |-> Len(log)]]
  /\ UNCHANGED <<claude, watch, state, log, looks>>

\* handleEvents writes the next event out.
Receive(x) ==
  /\ subs[x] # None /\ subs[x].queue # <<>>
  /\ subs' = [subs EXCEPT ![x].queue = Tail(@),
       ![x].got = IF subs[x].missed THEN @ ELSE Append(@, Head(subs[x].queue))]
  /\ UNCHANGED <<claude, watch, state, log, looks>>

Unsubscribe(x) ==
  /\ "leave" \in Env /\ subs[x] # None /\ Len(log) < MaxEvents
  /\ subs' = [subs EXCEPT ![x] = None]
  /\ UNCHANGED <<claude, watch, state, log, looks>>

\* The audit log broadcasts what it records.
Audit ==
  /\ "audit" \in Env /\ Len(log) < MaxEvents
  /\ LET e == [kind |-> "audit", n |-> Len(log)] IN
     log' = Append(log, e) /\ subs' = Broadcast(subs, e)
  /\ UNCHANGED <<claude, watch, state, looks>>

-----------------------------------------------------------------------------
(* turnWatchOnce *)

NewWatch ==
  [pc |-> "sleep", todo |-> {}, listed |-> {}, name |-> None,
   dialog |-> 0, waiting |-> 0, last |-> 0, working |-> FALSE]

\* What else a look may find, if it can fail so.
May(failure, found) == IF failure \in Env /\ Len(log) < MaxEvents THEN found ELSE {}

\* tmux-ls; an error of the agent ends the round.  An error of tmux is taken for
\* its exit status when it has no session: nothing is listed.
List ==
  /\ watch.pc = "sleep"
  /\ \E listed \in {Live} \union May("fails", {{}}) :
       watch' = [watch EXCEPT !.pc = "next", !.todo = listed, !.listed = listed]
  /\ UNCHANGED <<claude, state, subs, log, looks>>

\* Sessions that are not listed are dropped, to be primed anew.
Forget ==
  /\ watch.pc = "next" /\ watch.todo = {}
  /\ state' = [s \in Session |-> IF s \in watch.listed THEN state[s] ELSE None]
  /\ watch' = NewWatch
  /\ UNCHANGED <<claude, subs, log, looks>>

-----------------------------------------------------------------------------
(* session-status *)

\* sessionAlive, then paneWaitingDetail: a dialog's id is its question.  An
\* error, of the agent or because the session is gone, skips the session.
LookWaiting ==
  /\ watch.pc = "next"
  /\ \E s \in watch.todo :
       \/ /\ s \notin Live \/ "fails" \in Env
          /\ watch' = [watch EXCEPT !.todo = @ \ {s}]
       \/ /\ s \in Live
          /\ watch' = [watch EXCEPT !.pc = "assistant", !.name = s, !.todo = @ \ {s},
               !.dialog = pane[s].dialog,
               !.waiting = IF pane[s].dialog = 0 THEN 0 ELSE asked[pane[s].dialog]]
  /\ UNCHANGED <<claude, state, subs, log, looks>>

\* lastAssistant: none, also when the transcript cannot be read or its last
\* 256 KB hold no record of the assistant.
LookAssistant ==
  LET there == IF watch.name \in Live THEN LastMessage(pane[watch.name].conv) ELSE 0 IN
  /\ watch.pc = "assistant"
  /\ \E last \in {there} \union May("unread", {0}) :
       /\ watch' = [watch EXCEPT !.pc = "working", !.last = last]
       /\ looks' = [looks EXCEPT
            !.lost = @ \/ watch.name \notin Live \/ (last # there /\ state[watch.name] = None)]
  /\ UNCHANGED <<claude, state, subs, log>>

\* paneStatusWord: none on an idle pane; perhaps one above a dialog; none, for
\* the time of a look, on a working pane whose line is being redrawn.
StatusWord(s) ==
  IF s \notin Live \/ pane[s].tui = "idle" THEN {FALSE}
  ELSE IF pane[s].tui = "dialog" THEN BOOLEAN
  ELSE IF "flicker" \in Env /\ ~pane[s].flickered THEN BOOLEAN ELSE {TRUE}

LookWorking ==
  LET s == watch.name IN
  /\ watch.pc = "working"
  /\ \E word \in StatusWord(s) :
       /\ watch' = [watch EXCEPT !.pc = "watch", !.working = word]
       /\ pane' = IF s \in Live /\ pane[s].tui = "working"
                  THEN [pane EXCEPT ![s].flickered = ~word] ELSE pane
       /\ looks' = CASE s \notin Live -> [looks EXCEPT !.lost = TRUE]
                     [] s \in Live /\ word -> [looks EXCEPT !.working = @ \union {Turn(s)}]
                     [] s \in Live /\ ~word /\ pane[s].tui = "working" ->
                          [looks EXCEPT !.missed = @ \union {Turn(s)}]
                     [] s \in Live /\ ~word /\ pane[s].tui = "dialog" ->
                          [looks EXCEPT !.covered = @ \union {Turn(s)}]
                     [] OTHER -> looks
  /\ UNCHANGED <<turns, msgs, asked, state, subs, log>>

-----------------------------------------------------------------------------
(* watchSession *)

\* Mutant: a session seen for the first time has announced nothing.
PrimedEmpty(s) ==
  IF state[s] = None
  THEN [idleStreak |-> 0, lastNotifiedID |-> 0, notifiedWaitID |-> 0, told |-> 0]
  ELSE state[s]

\* A session seen for the first time has announced the message it has.
Primed(s) ==
  IF state[s] = None
  THEN [idleStreak |-> 0, lastNotifiedID |-> watch.last, notifiedWaitID |-> 0, told |-> 0]
  ELSE state[s]

\* Mutant: announces a dialog only when there was none before.
NewDialogAfterNone(ws) == watch.waiting # 0 /\ ws.notifiedWaitID = 0

NewDialog(ws) == watch.waiting # 0 /\ watch.waiting # ws.notifiedWaitID

\* Mutant: the first idle sample settles the turn.
StreakSettled(ws) == IF watch.working THEN 0 ELSE turnWatchSettle

\* Saturated at turnWatchSettle: no higher count is told apart.
Streak(ws) ==
  IF watch.working THEN 0 ELSE Min({ws.idleStreak + 1, turnWatchSettle})

TurnDone(ws) ==
  /\ Streak(ws) >= turnWatchSettle
  /\ watch.last # 0 /\ watch.last # ws.lastNotifiedID

\* Mutant: a message counts as announced before its turn has settled.
NotifiedAtSight(ws) == watch.last

Notified(ws) == IF TurnDone(ws) THEN watch.last ELSE ws.lastNotifiedID

Watch ==
  LET s == watch.name
      ws == Primed(s)
      m == watch.last
      dialogs == IF NewDialog(ws) THEN <<[kind |-> "dialog", n |-> watch.dialog]>> ELSE <<>>
      done == IF TurnDone(ws)
              THEN <<[kind |-> "turn", n |-> m, turn |-> <<msgs[m].conv, msgs[m].turn>>,
                      was |-> TurnState(<<msgs[m].conv, msgs[m].turn>>),
                      seen |-> <<msgs[m].conv, msgs[m].turn>> \in looks.working]>>
              ELSE <<>>
      events == dialogs \o done
  IN
  /\ watch.pc = "watch"
  /\ state' = [state EXCEPT ![s] =
       [idleStreak |-> Streak(ws),
        lastNotifiedID |-> Notified(ws),
        notifiedWaitID |-> watch.waiting,
        told |-> CASE watch.waiting = 0 -> 0
                   [] NewDialog(ws) -> watch.dialog
                   [] OTHER -> ws.told]]
  /\ log' = log \o events
  /\ subs' = CASE Len(events) = 0 -> subs
               [] Len(events) = 1 -> Broadcast(subs, events[1])
               [] OTHER -> Broadcast(Broadcast(subs, events[1]), events[2])
  /\ watch' = [NewWatch EXCEPT !.pc = "next", !.todo = watch.todo, !.listed = watch.listed]
  /\ UNCHANGED <<claude, looks>>

\* The web server restarts: the watcher and the hub start empty.
Restart ==
  /\ "restart" \in Env /\ Len(log) < MaxEvents
  /\ watch' = NewWatch
  /\ state' = [s \in Session |-> None]
  /\ subs' = [x \in Subscriber |-> None]
  /\ UNCHANGED <<claude, log, looks>>

-----------------------------------------------------------------------------
(* The sessions *)

unwatched == <<watch, state, subs, log>>

\* The watcher's state is kept by name: a name that is taken again before the
\* watcher has dropped it is not re-armed.
Takes(t) ==
  looks' = [looks EXCEPT !.retaken = @ \/ state[t] # None \/ watch.name = t]

TurnStarts(s) ==
  /\ s \in Live /\ pane[s].tui = "idle"
  /\ Len(msgs) < MaxMessages /\ turns[pane[s].conv] < MaxMessages
  /\ pane' = [pane EXCEPT ![s].tui = "working", ![s].flickered = FALSE]
  /\ turns' = [turns EXCEPT ![pane[s].conv] = @ + 1]
  /\ UNCHANGED <<msgs, asked, unwatched, looks>>

Says(s) ==
  /\ s \in Live /\ pane[s].tui = "working" /\ Len(msgs) < MaxMessages
  /\ msgs' = Append(msgs, [conv |-> pane[s].conv, turn |-> turns[pane[s].conv]])
  /\ UNCHANGED <<pane, turns, asked, unwatched, looks>>

\* Not before it has said something.
TurnEnds(s) ==
  /\ s \in Live /\ pane[s].tui = "working"
  /\ \E m \in DOMAIN msgs : <<msgs[m].conv, msgs[m].turn>> = Turn(s)
  /\ pane' = [pane EXCEPT ![s].tui = "idle"]
  /\ UNCHANGED <<turns, msgs, asked, unwatched, looks>>

\* A permission or a question, perhaps one that was asked before: the prompt to
\* run a command always is.  The message that asks for it has been written.
Asks(s) ==
  /\ s \in Live /\ pane[s].tui = "working" /\ Len(asked) < MaxDialogs
  /\ \E m \in DOMAIN msgs : <<msgs[m].conv, msgs[m].turn>> = Turn(s)
  /\ pane' = [pane EXCEPT ![s].tui = "dialog", ![s].dialog = Len(asked) + 1]
  /\ \E text \in {Len(asked) + 1} \union {asked[d] : d \in DOMAIN asked} :
       asked' = Append(asked, text)
  /\ UNCHANGED <<turns, msgs, unwatched, looks>>

Answered(s) ==
  /\ s \in Live /\ pane[s].tui = "dialog"
  /\ pane' = [pane EXCEPT ![s].tui = "working", ![s].dialog = 0]
  /\ UNCHANGED <<turns, msgs, asked, unwatched, looks>>

Rename(s, t) ==
  /\ "rename" \in Env /\ Len(log) < MaxEvents /\ s \in Live /\ t \notin Live
  /\ pane' = [pane EXCEPT ![s] = None, ![t] = pane[s]]
  /\ Takes(t)
  /\ UNCHANGED <<turns, msgs, asked, unwatched>>

Close(s) ==
  /\ "close" \in Env /\ Len(log) < MaxEvents /\ s \in Live
  /\ pane' = [pane EXCEPT ![s] = None]
  /\ UNCHANGED <<turns, msgs, asked, unwatched, looks>>

\* A conversation is opened, or resumed.
Open(s, c) ==
  /\ "close" \in Env /\ s \notin Live /\ c \notin LiveConvs
  /\ pane' = [pane EXCEPT ![s] = [conv |-> c, tui |-> "idle", dialog |-> 0,
                                  flickered |-> FALSE]]
  /\ Takes(s)
  /\ UNCHANGED <<turns, msgs, asked, unwatched>>

-----------------------------------------------------------------------------
\* Some conversations run already, each in a session of its own.
Init ==
  /\ pane \in [Session -> {None} \union
                 [conv : Conv, tui : {"idle"}, dialog : {0}, flickered : {FALSE}]]
  /\ \A s, t \in Session : pane[s] # None /\ pane[s] = pane[t] => s = t
  /\ Live # {}
  /\ turns = [c \in Conv |-> 0]
  /\ msgs = <<>> /\ asked = <<>>
  /\ watch = NewWatch
  /\ state = [s \in Session |-> None]
  /\ subs = [x \in Subscriber |-> None]
  /\ log = <<>>
  /\ looks = [working |-> {}, missed |-> {}, covered |-> {},
              lost |-> FALSE, retaken |-> FALSE]

Watcher == List \/ Forget \/ LookWaiting \/ LookAssistant \/ LookWorking \/ Watch

Hub == Audit \/ \E x \in Subscriber : Subscribe(x) \/ Receive(x) \/ Unsubscribe(x)

Claude(s) ==
  \/ TurnStarts(s) \/ Says(s) \/ TurnEnds(s) \/ Asks(s) \/ Answered(s) \/ Close(s)
  \/ \E t \in Session : Rename(s, t)
  \/ \E c \in Conv : Open(s, c)

Next == Watcher \/ Hub \/ Restart \/ \E s \in Session : Claude(s)

Spec == Init /\ [][Next]_vars

\* The poll loop goes on for as long as the server lives.
FairSpec == Spec /\ WF_vars(Watcher)

-----------------------------------------------------------------------------
(* Properties *)

TypeOK ==
  /\ \A s \in Live : /\ pane[s].conv \in Conv /\ pane[s].tui \in {"idle", "working", "dialog"}
                     /\ pane[s].dialog \in 0..Len(asked)
                     /\ (pane[s].dialog # 0) = (pane[s].tui = "dialog")
  /\ \A s \in Session : state[s] # None => /\ state[s].idleStreak \in 0..turnWatchSettle
                                           /\ state[s].lastNotifiedID \in 0..Len(msgs)
                                           /\ state[s].notifiedWaitID \in 0..Len(asked)
                                           /\ state[s].told \in 0..Len(asked)
  /\ watch.todo \subseteq watch.listed /\ watch.listed \subseteq Session
  /\ \A x \in Subscriber : subs[x] # None => Len(subs[x].queue) <= Buffer

\* No session was renamed or closed between two looks of one status, or primed
\* from a look that missed its messages, and none took, within a poll, a name that
\* the watcher remembered.
LooksSound == ~looks.lost /\ ~looks.retaken

Announced(kind, n) == \E i \in DOMAIN log : log[i].kind = kind /\ log[i].n = n

TurnEvents == {i \in DOMAIN log : log[i].kind = "turn"}

\* No message is announced twice as the end of a turn, through restarts of the
\* server, errors of the agent and renamed sessions, as long as LooksSound.
NoDuplicateTurn ==
  LooksSound => \A i, j \in TurnEvents : log[i].n = log[j].n => i = j

\* watcher.go:19: of a turn the watcher has sampled working, completion is
\* not announced before it is over, though the footer may flicker at a look -
\* unless a dialog covers the status word at one - and is announced only once,
\* whichever messages and looks fall between each other, as long as no look at
\* that turn misses its status word, and LooksSound.
SeenTurns ==
  LooksSound => \A i \in TurnEvents :
    log[i].seen /\ log[i].turn \notin looks.covered =>
      /\ log[i].was = "idle"
      /\ log[i].turn \notin looks.missed =>
           \A j \in TurnEvents : log[j].turn = log[i].turn => i = j

\* The watcher goes by the question: it takes the dialog d for one it announced
\* before, with the very same question, which every sample of the session since
\* has found open.
TakenFor(s, d) ==
  /\ state[s] # None /\ state[s].told # 0
  /\ asked[state[s].told] = asked[d] /\ Announced("dialog", state[s].told)

\* watcher.go:103: of two dialogs in one poll window, none that the watcher
\* sampled is swallowed - but one that repeats the question of the dialog before
\* it (watcher.go:114), and for the time that only.
NoDialogSwallowed ==
  [][\A d \in 1..MaxDialogs :
       watch.pc = "watch" /\ watch'.pc = "next" /\ watch.dialog = d
         => Announced("dialog", d)' \/ TakenFor(watch.name, d)]_vars

\* events.go:11: a browser that kept up has every event since it subscribed,
\* in order, whatever the other subscribers did.
HubDelivers ==
  \A x \in Subscriber :
    subs[x] # None /\ ~subs[x].missed =>
      subs[x].got \o subs[x].queue = SubSeq(log, subs[x].since + 1, Len(log))

Idle(s) == s \in Live /\ pane[s].tui = "idle"

\* A turn that ended under the watcher's eyes is announced, unless the next one
\* starts first.
TurnsAnnounced ==
  \A s \in Session, m \in 1..MaxMessages :
    /\ Idle(s) /\ state[s] # None
    /\ LastMessage(pane[s].conv) = m /\ state[s].lastNotifiedID < m
    ~> Announced("turn", m) \/ ~Idle(s)

\* A dialog is announced, unless it is answered first, or taken for the one before
\* it with the very same question.
DialogsAnnounced ==
  \A s \in Session, d \in 1..MaxDialogs :
    s \in Live /\ pane[s].dialog = d
      ~> s \notin Live \/ pane[s].dialog # d \/ Announced("dialog", d) \/ TakenFor(s, d)
=============================================================================
