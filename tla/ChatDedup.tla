----------------------------- MODULE ChatDedup -----------------------------
(***************************************************************************)
(* What the agent tells of a conversation, rebuilt from its transcript at  *)
(* every look (internal/host/host.go, chatDedup and buildChatTurns): the   *)
(* chat of a live session, the view and the download of a conversation,    *)
(* and the text the search matches (fts.go).                               *)
(*                                                                         *)
(* Claude Code appends to the transcript: a line when the user says        *)
(* something to an idle session; an enqueue when it is said during a turn, *)
(* and when it is taken from the queue either a user line with the same    *)
(* text or, if it goes into the turn as an attachment, nothing; a line per *)
(* snapshot of an assistant message.  Queue lines reach the file at once,  *)
(* the others through a buffer, so lines may be out of order in the file.  *)
(***************************************************************************)
EXTENDS Naturals, Sequences, FiniteSets, SequencesExt

CONSTANTS
  Text,          \* what the user says, without white space around it: an enqueue's is
                 \* trimmed (host.go:2678) and a user line's is not, so that a text
                 \* with some does not match its own enqueue and is shown twice
  maxChatMsgs,
  MaxLines,      \* lines Claude Code writes (bound)
  MaxSnapshots   \* snapshots of one assistant message (bound)

ASSUME ChatAssumption ==
  maxChatMsgs \in Nat \ {0} /\ MaxLines \in Nat /\ MaxSnapshots \in Nat \ {0}

VARIABLES
  lines,    \* the file, in the order written
  buffer,   \* lines not yet flushed to it
  queue,    \* what was said during the turn and has not been taken
  speaking, \* the id of the assistant message being written, or 0
  busy,     \* a turn is in progress
  client,   \* what ChatStream emitted last
  log,      \* history: all displayed lines, written or buffered, the n-th with
            \* timestamp n
  said,     \* history: the messages of the conversation, in the order they
            \* began, each the sequence of the timestamps of its lines
  passed,   \* history: texts in the queue when a later assistant message began
  attached, \* history: texts attached since the last assistant message began
  late,     \* history: a text was taken that had been passed
  eaten     \* history: an idle session was told a text that had been attached

chatVars == <<lines, buffer, queue, speaking, busy, client, log, said, passed, attached,
              late, eaten>>

-----------------------------------------------------------------------------
(* Reading: chatRoleAndText, chatDedup.  A line's id is that of its assistant *)
(* message, 0 on other lines.                                                 *)

Line(kind, text, id, ts) == [kind |-> kind, text |-> text, id |-> id, ts |-> ts]

\* chatRoleAndText: what is displayed at all; of the queue's lines, the enqueues.
Displayed(l) == l.kind \in {"user", "assistant", "enqueue"}

Role(l) == IF l.kind = "assistant" THEN "assistant" ELSE "user"

Turn(l) == [role |-> Role(l), text |-> l.text, id |-> l.id]

\* chatDedup's fields; last is 0 when the last turn is not an assistant's.
NoTurns == [pending |-> <<>>, last |-> 0, turns |-> <<>>]

flushPending(d) == [d EXCEPT !.turns = @ \o d.pending, !.pending = <<>>]

append(d, t) ==
  [d EXCEPT !.turns = Append(@, t),
            !.last = IF t.role = "assistant" THEN Len(d.turns) + 1 ELSE 0]

\* The first pending enqueue of a text, 0 if there is none.
Awaiting(d, text) == SelectInSeq(d.pending, LAMBDA t : t.text = text)

\* The drain of the j-th pending enqueue: the line stands for it, after the
\* enqueues before it.
Drained(d, j, t) ==
  append([d EXCEPT !.turns = @ \o SubSeq(d.pending, 1, j - 1),
                   !.pending = SubSeq(@, j + 1, Len(@))], t)

\* add
add(d, l) ==
  LET t == Turn(l)
      j == Awaiting(d, l.text)
      again == d.last # 0 /\ d.turns[d.last].id = l.id
  IN
  CASE l.kind = "enqueue" -> [d EXCEPT !.pending = Append(@, t)]
    [] l.kind = "user" /\ j # 0 -> Drained(d, j, t)
    [] l.kind = "assistant" /\ again -> [d EXCEPT !.turns[d.last].text = l.text]
    [] OTHER -> append(flushPending(d), t)

\* What the elements of a sequence, one after the other, make of a value.
Folded(step(_, _), start, s) ==
  LET so[i \in 0..Len(s)] == IF i = 0 THEN start ELSE step(so[i - 1], s[i])
  IN so[Len(s)]

\* Mutant: folded as the file has them.
InFileOrder(sorted, l) == Append(sorted, l)

\* sort.SliceStable by timestamp: a line goes after those that are not later.
ByTime(sorted, l) ==
  InsertAt(sorted, SelectLastInSeq(sorted, LAMBDA k : k.ts <= l.ts) + 1, l)

\* The lines that are displayed, sorted.
Enter(sorted, l) == IF Displayed(l) THEN ByTime(sorted, l) ELSE sorted

Entries == Folded(Enter, <<>>, lines)

buildChatTurns(sorted) == flushPending(Folded(add, NoTurns, sorted)).turns

Numbers(turns) ==
  [i \in DOMAIN turns |-> [index |-> i - 1, role |-> turns[i].role, text |-> turns[i].text]]

\* The last n.
Recent(messages, n) ==
  SubSeq(messages, IF Len(messages) > n THEN Len(messages) - n + 1 ELSE 1, Len(messages))

\* Mutant: numbered after the cut.
NumberedLate(turns) == Numbers(Recent(turns, maxChatMsgs))

\* The last maxChatMsgs turns, numbered among all of them.
Numbered(turns) == Recent(Numbers(turns), maxChatMsgs)

sessionChat == Numbered(buildChatTurns(Entries))

\* The history view: its last nLines messages.
conversationGet(turns, nLines) == Recent(Numbers(turns), nLines)

\* The download as text: all of it, with no numbers.
conversationExport(turns) == [i \in DOMAIN turns |-> [role |-> turns[i].role, text |-> turns[i].text]]

\* The words search matches, as the file has them: assistant snapshots by their
\* message and number.
conversationFullTextJoined ==
  {<<lines[i].id, lines[i].text>> : i \in {j \in DOMAIN lines : Displayed(lines[j])}}

-----------------------------------------------------------------------------
(* Writing: Claude Code *)

MayWrite == Len(lines) + Len(buffer) < MaxLines

\* The timestamp of the next line.
Now == Len(log) + 1

\* Through the buffer, or at once.
Buffers(l) == log' = Append(log, l) /\ buffer' = Append(buffer, l) /\ UNCHANGED lines
Writes(l) == log' = Append(log, l) /\ lines' = Append(lines, l) /\ UNCHANGED buffer

\* The queue's line when a text is taken from it, not displayed.
Removal == Line("remove", Head(queue), 0, Len(log))

\* A message begins.
Message == said' = Append(said, <<Now>>)

\* Prompt of an idle session.
Says(t) ==
  /\ MayWrite /\ ~busy /\ queue = <<>>
  /\ busy' = TRUE
  /\ Buffers(Line("user", t, 0, Now)) /\ Message
  /\ eaten' = (eaten \/ t \in attached)
  /\ UNCHANGED <<client, queue, speaking, passed, attached, late>>

\* Typed during a turn.
Queues(t) ==
  /\ MayWrite /\ busy
  /\ queue' = Append(queue, t)
  /\ Writes(Line("enqueue", t, 0, Now)) /\ Message
  /\ UNCHANGED <<client, speaking, busy, passed, attached, late, eaten>>

\* The head of the queue becomes a prompt ("remove", then a user line), between
\* two assistant messages or as the next turn.
Drains ==
  LET l == Line("user", Head(queue), 0, Now) IN
  /\ MayWrite /\ queue # <<>>
  /\ queue' = Tail(queue) /\ speaking' = 0 /\ busy' = TRUE
  /\ lines' = Append(lines, Removal)
  /\ log' = Append(log, l) /\ buffer' = Append(buffer, l)
  /\ late' = (late \/ Head(queue) \in passed)
  /\ passed' = passed \intersect ToSet(queue')
  /\ UNCHANGED <<client, said, attached, eaten>>

\* Or goes into the turn as an attachment.
Attaches ==
  /\ MayWrite /\ busy /\ queue # <<>>
  /\ queue' = Tail(queue) /\ speaking' = 0
  /\ lines' = Append(lines, Removal)
  /\ attached' = attached \union {Head(queue)}
  /\ passed' = passed \intersect ToSet(queue')
  /\ UNCHANGED <<buffer, log, client, busy, said, late, eaten>>

\* A new assistant message, its id the time it began.
Replies ==
  /\ MayWrite /\ busy
  /\ speaking' = Now
  /\ Buffers(Line("assistant", 1, Now, Now)) /\ Message
  /\ passed' = passed \union ToSet(queue) /\ attached' = {}
  /\ UNCHANGED <<client, queue, busy, late, eaten>>

\* A fuller snapshot, its text the number of the snapshot.
Snapshots ==
  /\ MayWrite /\ speaking # 0
  /\ \E i \in DOMAIN said :
       /\ said[i][1] = speaking /\ Len(said[i]) < MaxSnapshots
       /\ Buffers(Line("assistant", Len(said[i]) + 1, speaking, Now))
       /\ said' = [said EXCEPT ![i] = Append(@, Now)]
  /\ UNCHANGED <<client, queue, speaking, busy, passed, attached, late, eaten>>

TurnEnds ==
  /\ busy /\ busy' = FALSE /\ speaking' = 0
  /\ UNCHANGED <<client, lines, buffer, log, queue, said, passed, attached, late, eaten>>

Flushes ==
  /\ buffer # <<>>
  /\ lines' = Append(lines, Head(buffer)) /\ buffer' = Tail(buffer)
  /\ UNCHANGED <<client, log, queue, speaking, busy, said, passed, attached, late, eaten>>

-----------------------------------------------------------------------------
(* ChatStream *)

\* Once a second: emitted again if the transcript has grown since.
Looks ==
  /\ client.size # Len(lines)
  /\ client' = [size |-> Len(lines), messages |-> sessionChat]
  /\ UNCHANGED <<lines, buffer, log, queue, speaking, busy, said, passed, attached,
                 late, eaten>>

-----------------------------------------------------------------------------
ChatInit ==
  /\ lines = <<>> /\ buffer = <<>> /\ log = <<>> /\ queue = <<>> /\ speaking = 0
  /\ busy = FALSE /\ client = [size |-> 0, messages |-> <<>>]
  /\ said = <<>> /\ passed = {} /\ attached = {}
  /\ late = FALSE /\ eaten = FALSE

ChatNext ==
  \/ \E t \in Text : Says(t) \/ Queues(t)
  \/ Drains \/ Attaches \/ Replies \/ Snapshots \/ TurnEnds \/ Flushes \/ Looks

ChatSpec == ChatInit /\ [][ChatNext]_chatVars

-----------------------------------------------------------------------------
(* Properties *)

\* The timestamps of the displayed lines among the first n of the file.
Held(n) == {lines[i].ts : i \in {j \in 1..n : Displayed(lines[j])}}

\* What the file holds of the conversation: each message once, in the order they
\* began, as the latest of its lines that is held has it.
Hear(held, all, m) ==
  LET there == ToSet(m) \intersect held IN
  IF there = {} THEN all ELSE Append(all, Turn(log[Max(there)]))

Conversation(held) == Folded(LAMBDA all, m : Hear(held, all, m), <<>>, said)

\* The messages of a view are the last ones of the conversation.
Tells(view, all) ==
  LET first == Len(all) - Len(view) IN
  /\ first >= 0
  /\ \A i \in DOMAIN view : view[i].role = all[first + i].role /\ view[i].text = all[first + i].text

Clear == ~late /\ ~eaten

\* host.go:2696: the live chat, the history view and the download are the
\* conversation at every look, though messages said during a turn have two lines
\* or one, assistant messages have many and the file has them out of order:
\* nothing twice, nothing lost, nothing swapped, cut to the most recent, and all
\* of it to be found by a search.  Unless a message is taken from the queue after a
\* later assistant message began, or said again to an idle session right after it
\* was attached.
ChatIsConversation ==
  LET all == Conversation(Held(Len(lines)))
      turns == buildChatTurns(Entries)
      chat == Numbered(turns)
      export == conversationExport(turns)
  IN
  Clear =>
    /\ Len(export) = Len(all) /\ Tells(export, all)
    /\ Len(chat) = (IF Len(all) > maxChatMsgs THEN maxChatMsgs ELSE Len(all)) /\ Tells(chat, all)
    /\ Tells(conversationGet(turns, 1), all)
    /\ \A i \in DOMAIN turns : <<turns[i].id, turns[i].text>> \in conversationFullTextJoined

WrittenLate ==
  \E i \in 1..client.size, j \in client.size + 1..Len(lines) :
    Displayed(lines[j]) /\ lines[j].ts < lines[i].ts

\* host.go:2878: "Capping the deduplicated turns keeps index stable": the number
\* a browser has for a message stands for that message in the next look too,
\* though queued messages are drained and old ones cut off in between, unless a
\* line came that was written late.
IndexStable ==
  LET chat == sessionChat IN
  Clear /\ ~WrittenLate =>
    \A i \in DOMAIN client.messages, j \in DOMAIN chat :
      LET before == client.messages[i]  now == chat[j] IN
      before.index = now.index =>
        /\ before.role = now.role
        /\ before.role = "user" => before.text = now.text
=============================================================================
