----------------------------- MODULE PaneInput ------------------------------
(***************************************************************************)
(* What the host executor types into a Claude Code pane                    *)
(* (internal/host/host.go).  Every keystroke is a tmux process of its own  *)
(* (send-keys -l text, send-keys -l "\r", ...); sessionSendLock(name), a   *)
(* mutex per session NAME, makes the keystrokes of one request contiguous. *)
(* sessionRc and checkStartup type without it.                             *)
(*                                                                         *)
(* The TUI: a readline while it is idle or working; while it boots or a    *)
(* dialog is open, text goes unread into the pty's buffer and joins the    *)
(* readline's text when the dialog is gone.                                *)
(***************************************************************************)
EXTENDS Naturals, Sequences, SequencesExt

CONSTANTS
  Op,          \* requests, each made at most once
  Pane,        \* tmux panes: one per session, whatever its name
  Name,        \* session names
  None,
  Requests,    \* the request kinds made
  Env,         \* what the Claude processes and the user do meanwhile
  MaxDialogs   \* dialogs a pane opens (bound)

Locking == {"text", "rename", "autoRename", "key", "choice"}
Kinds == Locking \union {"rc", "startup", "move"}
Options == 0..1     \* a dialog's options; "Yes, I trust this folder" is 1
Trust == 1

ASSUME PaneAssumption ==
  /\ None \notin Op \union Name \union Kinds
  /\ Requests \subseteq Kinds
  /\ MaxDialogs \in Nat

VARIABLES
  pane,    \* Pane -> name, TUI state, readline text, unread text, dialog, and
           \* (history) whether the turn was started outside the send lock
  lock,    \* Name -> the request holding sessionSendLock(name), or None
  op,      \* Op -> control point and locals
  lines,   \* history: the lines submitted, as sequences of requests
  blind,   \* history: the requests whose text no readline was reading, or a
           \* dialog came to cover before its Enter
  picks    \* history: the dialog answers given

history == <<lines, blind, picks>>
vars == <<pane, lock, op, lines, blind, picks>>

TUI == {"none", "boot", "trust", "dialog", "idle", "working"}
PCs == {"idle", "lock", "ready", "type", "enter", "press", "poll", "recheck",
        "clear", "busy", "look", "moveTo", "ok", "error"}

Blocked(p) == pane[p].tui \in {"trust", "dialog"}
Reading(p) == pane[p].tui \in {"idle", "working"}

\* paneTarget: the pane of the session that has the name now.
Targets(n) == {p \in Pane : pane[p].name = n /\ pane[p].tui # "none"}
SessionAlive(n) == Targets(n) # {}

\* paneTextSafe: mode badge up, no dialog.
TextSafe(n) == \E p \in Targets(n) : Reading(p)

-----------------------------------------------------------------------------
(* Keystrokes, as the TUI takes them *)

\* Text: onto the readline, or unread into the pty.
TypeText(p, o) ==
  IF Reading(p)
  THEN pane' = [pane EXCEPT ![p].line = Append(@, o)] /\ UNCHANGED blind
  ELSE pane' = [pane EXCEPT ![p].raw = Append(@, o)] /\ blind' = blind \union {o}

\* Which dialog is open.
Dialog(p) == <<p, pane[p].dialog>>

\* A dialog closes, or the TUI comes up: the unread text is one line with
\* what the readline held.
Resumed(p, tui) ==
  [pane[p] EXCEPT !.tui = tui, !.line = @ \o pane[p].raw, !.raw = <<>>]

\* Claude exits, and the tmux session with it.
Closed(p) == [pane[p] EXCEPT !.name = None, !.tui = "none", !.line = <<>>, !.raw = <<>>]

\* The trust dialog's other option is "No, exit".
AnsweredWith(p, option) ==
  IF pane[p].tui = "dialog" THEN Resumed(p, "working")
  ELSE IF option = Trust THEN Resumed(p, "idle") ELSE Closed(p)

\* "\r": submits the readline's text, or answers the dialog with the option
\* under its cursor; before the TUI reads, it submits nothing.
PressEnter(p, o) ==
  \/ /\ Reading(p) /\ pane[p].line # <<>>
     /\ lines' = lines \union {pane[p].line}
     /\ pane' = [pane EXCEPT ![p].line = <<>>, ![p].tui = "working",
                             ![p].outside = op[o].kind \notin Locking]
     /\ UNCHANGED picks
  \/ /\ Blocked(p)
     /\ picks' = picks \union
          {[op |-> o, picked |-> pane[p].cursor, same |-> op[o].dialog = Dialog(p)]}
     /\ pane' = [pane EXCEPT ![p] = AnsweredWith(p, pane[p].cursor)]
     /\ UNCHANGED lines
  \/ /\ ~Blocked(p) /\ (Reading(p) => pane[p].line = <<>>)
     /\ UNCHANGED <<pane, lines, picks>>

\* Escape, and Ctrl-C: closes a dialog or stops the turn; Ctrl-C at the
\* prompt clears it.
Interrupted(p) ==
  IF pane[p].tui = "dialog" THEN {Resumed(p, "idle")}
  ELSE IF pane[p].tui = "trust" THEN {Closed(p)}
  ELSE IF pane[p].tui = "working" THEN {[pane[p] EXCEPT !.tui = "idle"]}
  ELSE {pane[p], [pane[p] EXCEPT !.line = <<>>]}

\* An arrow moves a dialog's cursor: past the last option it stays or wraps.
Steps(p, step) ==
  IF ~Blocked(p) THEN {pane[p].cursor}
  ELSE IF step = "down" THEN IF pane[p].cursor = 0 THEN {1} ELSE {0, 1}
  ELSE IF pane[p].cursor = 1 THEN {0} ELSE {0, 1}

Arrow(n, step) ==
  \E p \in Targets(n) : \E c \in Steps(p, step) : pane' = [pane EXCEPT ![p].cursor = c]

-----------------------------------------------------------------------------
(* sessionSendLock *)

Goto(o, pc) == op' = [op EXCEPT ![o].pc = pc]

Held(n) == lock[n] # None

\* defer mu.Unlock() (and renameWhenIdle's explicit ones).
Release(o) ==
  lock' = [n \in Name |-> IF lock[n] = o THEN None ELSE lock[n]]

\* Mutant: no mutual exclusion.
LockAlways(o) ==
  LET r == op[o] IN
  /\ r.pc = "lock"
  /\ lock' = [lock EXCEPT ![r.name] = o]
  /\ Goto(o, IF r.kind = "autoRename" THEN "recheck" ELSE "ready")
  /\ UNCHANGED <<pane, history>>

Lock(o) ==
  LET r == op[o] IN
  /\ r.pc = "lock" /\ ~Held(r.name)
  /\ lock' = [lock EXCEPT ![r.name] = o]
  /\ Goto(o, IF r.kind = "autoRename" THEN "recheck" ELSE "ready")
  /\ UNCHANGED <<pane, history>>

Finish(o, pc) == Goto(o, pc) /\ Release(o)

-----------------------------------------------------------------------------
(* sessionSend, claudeRename: text *)

Start(o, kind, n) ==
  /\ op[o].pc = "idle" /\ kind \in Requests \ {"move", "startup"}
  /\ op' = [op EXCEPT ![o] =
       [@ EXCEPT !.kind = kind, !.name = n,
                 !.pc = CASE kind = "autoRename" -> "poll" [] kind = "rc" -> "clear"
                          [] OTHER -> "lock"]]
  /\ UNCHANGED <<pane, lock, history>>

\* ensureTextReady: waits for a text-safe pane; past the deadline it fails on
\* a dialog and types anyway otherwise.
TextReady(o) ==
  LET r == op[o] IN
  /\ r.pc = "ready" /\ r.kind \in {"text", "rename"}
  /\ IF ~SessionAlive(r.name) \/ \E p \in Targets(r.name) : Blocked(p)
     THEN Finish(o, "error")
     ELSE Goto(o, "type") /\ UNCHANGED lock
  /\ UNCHANGED <<pane, history>>

\* Mutant: the lock covers one keystroke at a time.
TypeUnlocking(o) ==
  LET r == op[o] IN
  /\ r.pc = "type"
  /\ \E p \in Targets(r.name) :
       TypeText(p, o) /\ Goto(o, "enter") /\ Release(o)
  /\ UNCHANGED <<lines, picks>>

\* send-keys -l literal: an error if the session is gone.
Type(o) ==
  LET r == op[o] IN
  /\ r.pc = "type"
  /\ IF SessionAlive(r.name)
     THEN /\ \E p \in Targets(r.name) : TypeText(p, o)
          /\ Goto(o, "enter") /\ UNCHANGED lock
     ELSE Finish(o, "error") /\ UNCHANGED <<pane, blind>>
  /\ UNCHANGED <<lines, picks>>

\* pressEnter; sessionRc may type the command a second time (off, then on),
\* checkStartup goes back to looking.
Enter(o) ==
  LET r == op[o] IN
  /\ r.pc = "enter"
  /\ IF SessionAlive(r.name)
     THEN /\ \E p \in Targets(r.name) : PressEnter(p, o)
          /\ CASE r.kind = "rc" /\ r.left > 0 ->
                    op' = [op EXCEPT ![o].pc = "type", ![o].left = 0] /\ UNCHANGED lock
               [] r.kind = "startup" -> Goto(o, "look") /\ UNCHANGED lock
               [] OTHER -> Finish(o, "ok")
     ELSE Finish(o, "error") /\ UNCHANGED <<pane, lines, picks>>
  /\ UNCHANGED blind

-----------------------------------------------------------------------------
(* sessionSend: one key;  sessionChoice *)

\* ensurePaneReady fails open, so there is nothing to wait for.
SendKey(o) ==
  LET r == op[o] IN
  /\ r.pc = "ready" /\ r.kind = "key"
  /\ IF SessionAlive(r.name)
     THEN \/ Goto(o, "enter") /\ UNCHANGED <<pane, lock>>
        \/ /\ \/ \E step \in {"up", "down"} : Arrow(r.name, step)
              \/ \E p \in Targets(r.name) : \E after \in Interrupted(p) :
                   pane' = [pane EXCEPT ![p] = after]
           /\ Finish(o, "ok")
     ELSE Finish(o, "error") /\ UNCHANGED pane
  /\ UNCHANGED history

\* Mutant: presses from the option the client saw highlighted.
ReadChoiceStale(o) ==
  LET r == op[o] IN
  /\ r.pc = "ready" /\ r.kind = "choice"
  /\ \E p \in {q \in Targets(r.name) : Blocked(q)}, want \in Options :
       op' = [op EXCEPT ![o].pc = "press", ![o].want = want, ![o].left = want,
                        ![o].step = "down", ![o].dialog = Dialog(p)]
  /\ UNCHANGED <<pane, lock, history>>

\* The pane is read again under the lock for the dialog's cursor.
ReadChoice(o) ==
  LET r == op[o] IN
  /\ r.pc = "ready" /\ r.kind = "choice"
  /\ IF \E p \in Targets(r.name) : Blocked(p)
     THEN /\ \E p \in Targets(r.name), want \in Options :
               LET cursor == pane[p].cursor IN
               op' = [op EXCEPT ![o] =
                 [@ EXCEPT !.pc = "press", !.want = want, !.dialog = Dialog(p),
                           !.left = IF want = cursor THEN 0 ELSE 1,
                           !.step = IF want < cursor THEN "up" ELSE "down"]]
          /\ UNCHANGED lock
     ELSE Finish(o, "error")
  /\ UNCHANGED <<pane, history>>

Press(o) ==
  LET r == op[o] IN
  /\ r.pc = "press"
  /\ CASE r.left = 0 -> Goto(o, "enter") /\ UNCHANGED <<pane, lock>>
       [] r.left > 0 /\ SessionAlive(r.name) ->
            Arrow(r.name, r.step) /\ op' = [op EXCEPT ![o].left = @ - 1] /\ UNCHANGED lock
       [] OTHER -> Finish(o, "error") /\ UNCHANGED pane
  /\ UNCHANGED history

-----------------------------------------------------------------------------
(* renameWhenIdle: polls without the lock, looks again under it *)

Idle(n) == \E p \in Targets(n) : pane[p].tui = "idle"

\* The session is gone, or the deadline passes.
Poll(o) ==
  LET r == op[o] IN
  /\ r.pc = "poll"
  /\ Goto(o, IF Idle(r.name) THEN "lock" ELSE "error")
  /\ UNCHANGED <<pane, lock, history>>

\* Mutant: trusts the look it took before it had the lock.
RecheckNothing(o) ==
  /\ op[o].pc = "recheck"
  /\ Goto(o, "type")
  /\ UNCHANGED <<pane, lock, history>>

\* Mutant: leaves without unlocking.
RecheckKeepingLock(o) ==
  /\ op[o].pc = "recheck"
  /\ Goto(o, IF Idle(op[o].name) THEN "type" ELSE "error")
  /\ UNCHANGED <<pane, lock, history>>

Recheck(o) ==
  LET r == op[o] IN
  /\ r.pc = "recheck"
  /\ IF Idle(r.name) THEN Goto(o, "type") /\ UNCHANGED lock
     ELSE Finish(o, "poll")
  /\ UNCHANGED <<pane, history>>

-----------------------------------------------------------------------------
(* sessionRc: C-u, a look at the footer, /remote-control once or twice *)

ClearInput(o) ==
  LET r == op[o] IN
  /\ r.pc = "clear"
  /\ IF SessionAlive(r.name)
     THEN /\ \E p \in Targets(r.name) :
               pane' = [pane EXCEPT ![p].line = IF Reading(p) THEN <<>> ELSE @]
          /\ Goto(o, "busy")
     ELSE Goto(o, "error") /\ UNCHANGED pane
  /\ UNCHANGED <<lock, history>>

NotBusy(o) ==
  LET r == op[o] IN
  /\ r.pc = "busy"
  /\ IF \E p \in Targets(r.name) : pane[p].tui = "working"
     THEN Goto(o, "error")
     ELSE \E again \in {0, 1} : op' = [op EXCEPT ![o].pc = "type", ![o].left = again]
  /\ UNCHANGED <<pane, lock, history>>

-----------------------------------------------------------------------------
(* newSession and checkStartup *)

\* tmux new-session; the session is listed, and takes input, from here on.
NewSession(o, p, n) ==
  /\ op[o].pc = "idle" /\ "startup" \in Requests
  /\ pane[p].tui = "none" /\ ~SessionAlive(n)
  /\ pane' = [pane EXCEPT ![p].name = n, ![p].tui = "boot", ![p].outside = TRUE]
  /\ op' = [op EXCEPT ![o] = [@ EXCEPT !.kind = "startup", !.name = n, !.pc = "look"]]
  /\ UNCHANGED <<lock, history>>

\* Until the input box shows, or the deadline passes: the trust dialog is
\* answered once (Down, Enter), any other closes the session.
Look(o) ==
  LET r == op[o] IN
  /\ r.pc = "look"
  /\ \/ Goto(o, "ok") /\ UNCHANGED pane
     \/ \E p \in Targets(r.name) :
          \/ /\ pane[p].tui = "trust" /\ r.want # Trust
             /\ op' = [op EXCEPT ![o] =
                  [@ EXCEPT !.pc = "press", !.want = Trust, !.left = 1, !.dialog = Dialog(p)]]
             /\ UNCHANGED pane
          \/ /\ pane[p].tui = "dialog"
             /\ pane' = [pane EXCEPT ![p] = Closed(p)]
             /\ Goto(o, "error")
  /\ UNCHANGED <<lock, history>>

-----------------------------------------------------------------------------
(* tmuxRename *)

Move(o, n, m) ==
  /\ op[o].pc = "idle" /\ "move" \in Requests
  /\ n # m /\ ~SessionAlive(m) /\ SessionAlive(n)
  /\ op' = [op EXCEPT ![o] = [@ EXCEPT !.kind = "move", !.name = n, !.to = m, !.pc = "moveTo"]]
  /\ UNCHANGED <<pane, lock, history>>

\* tmux rename-session: refused if either name has changed hands.
MoveTo(o) ==
  LET r == op[o] IN
  /\ r.pc = "moveTo"
  /\ IF SessionAlive(r.name) /\ ~SessionAlive(r.to)
     THEN /\ \E p \in Targets(r.name) : pane' = [pane EXCEPT ![p].name = r.to]
          /\ Goto(o, "ok")
     ELSE Goto(o, "error") /\ UNCHANGED pane
  /\ UNCHANGED <<lock, history>>

-----------------------------------------------------------------------------
(* The Claude processes and the user *)

Boots(p) ==
  /\ pane[p].tui = "boot"
  /\ \/ pane' = [pane EXCEPT ![p] = Resumed(p, "idle")]
     \/ /\ pane[p].dialog < MaxDialogs /\ "startup" \in Requests
        /\ \E tui \in {"trust", "dialog"} :
             pane' = [pane EXCEPT ![p].tui = tui, ![p].dialog = @ + 1, ![p].cursor = 0]
  /\ UNCHANGED <<lock, op, history>>

TurnEnds(p) ==
  /\ pane[p].tui = "working"
  /\ pane' = [pane EXCEPT ![p].tui = "idle"]
  /\ UNCHANGED <<lock, op, history>>

\* A tool asks for permission, or Claude asks a question.
Asks(p) ==
  /\ "asks" \in Env /\ pane[p].tui = "working" /\ pane[p].dialog < MaxDialogs
  /\ pane' = [pane EXCEPT ![p].tui = "dialog", ![p].dialog = @ + 1, ![p].cursor = 0]
  /\ blind' = blind \union ToSet(pane[p].line)
  /\ UNCHANGED <<lock, op, lines, picks>>

\* Answered from the mobile app.
Answered(p) ==
  /\ "phone" \in Env /\ pane[p].tui = "dialog"
  /\ pane' = [pane EXCEPT ![p] = Resumed(p, "working")]
  /\ UNCHANGED <<lock, op, history>>

\* A turn started from the mobile app.
RemoteTurn(p) ==
  /\ "phone" \in Env /\ pane[p].tui = "idle"
  /\ pane' = [pane EXCEPT ![p].tui = "working", ![p].outside = TRUE]
  /\ UNCHANGED <<lock, op, history>>

-----------------------------------------------------------------------------
NewOp == [kind |-> None, pc |-> "idle", name |-> None, to |-> None, want |-> 0, left |-> 0,
          step |-> "down", dialog |-> <<>>]

\* Sessions that run already, each under its own name, or no session yet.
Init ==
  /\ pane \in [Pane -> [name : Name \union {None}, tui : {"none", "boot", "idle", "working"},
                        line : {<<>>}, raw : {<<>>}, dialog : {0}, cursor : {0},
                        outside : {FALSE}]]
  /\ \A p \in Pane : (pane[p].tui = "none") = (pane[p].name = None)
  /\ \A p, q \in Pane : pane[p].name = pane[q].name => p = q \/ pane[p].name = None
  /\ lock = [n \in Name |-> None]
  /\ op = [o \in Op |-> NewOp]
  /\ lines = {} /\ blind = {} /\ picks = {}

Step(o) ==
  \/ Lock(o) \/ TextReady(o) \/ Type(o) \/ Enter(o)
  \/ SendKey(o) \/ ReadChoice(o) \/ Press(o)
  \/ Poll(o) \/ Recheck(o) \/ ClearInput(o) \/ NotBusy(o) \/ Look(o) \/ MoveTo(o)

Claude(p) == Boots(p) \/ TurnEnds(p) \/ Asks(p) \/ Answered(p) \/ RemoteTurn(p)

Next ==
  \/ \E o \in Op :
       \/ Step(o)
       \/ \E n \in Name :
            \/ \E kind \in Kinds : Start(o, kind, n)
            \/ \E p \in Pane : NewSession(o, p, n)
            \/ \E m \in Name : Move(o, n, m)
  \/ \E p \in Pane : Claude(p)

Spec == Init /\ [][Next]_vars

-----------------------------------------------------------------------------
(* Properties *)

TypeOK ==
  /\ \A p \in Pane : /\ pane[p].name \in Name \union {None} /\ pane[p].tui \in TUI
                     /\ pane[p].line \in Seq(Op) /\ pane[p].raw \in Seq(Op)
                     /\ pane[p].dialog \in 0..MaxDialogs /\ pane[p].cursor \in Options
  /\ lock \in [Name -> Op \union {None}]
  /\ \A o \in Op : op[o].pc \in PCs /\ op[o].left \in 0..1
  /\ lines \subseteq Seq(Op) /\ blind \subseteq Op

Whole(line) == ToSet(line) \intersect blind = {} => Len(line) = 1
Made(kind) == \E o \in Op : op[o].kind = kind
Moved(o) == op[o].kind = "move" /\ op[o].pc = "ok"

\* The session of a request has kept its name, and no other has been given it.
KeepsName(o) == \A q \in Op : Moved(q) => op[o].name \notin {op[q].name, op[q].to}

\* host.go:66: the keystrokes of two requests that take the lock never end up in
\* one submitted line, whatever sessionRc and checkStartup type beside them - as
\* long as their sessions keep their names, and unless a request typed into a TUI
\* that was not reading, or a dialog opened over its text.
LockedLinesWhole ==
  \A line \in lines :
    (\A o \in ToSet(line) : op[o].kind \in Locking /\ KeepsName(o)) => Whole(line)

\* sessionSend says "sent" of a message only if it was submitted - or no
\* readline was there for it all the way to its Enter, or sessionRc cleared it -
\* as long as its session keeps its name.
SentMeansSubmitted ==
  \A o \in Op :
    op[o].kind = "text" /\ op[o].pc = "ok" /\ KeepsName(o) =>
      o \in blind \/ Made("rc") \/ \E line \in lines : o \in ToSet(line)

\* host.go:3526: sessionChoice "is the atomic backend counterpart of clicking an
\* option": what it confirms in the dialog it read is the option asked for, not
\* wherever other keys had left the cursor.  The same of checkStartup, which
\* takes no lock, as long as no other request sends keys while a session starts;
\* and as long as its session keeps its name.
ChoiceConfirms ==
  \A k \in picks :
    /\ op[k.op].kind \in {"choice", "startup"} /\ k.same /\ KeepsName(k.op)
    /\ ~\E o, q \in Op : /\ o # q /\ op[o].kind = "startup"
                         /\ op[q].kind \in {"choice", "key", "startup"}
    => k.picked = op[k.op].want

\* renameClaudeAfterReady never types its /rename into a turn that a request
\* started under the lock, and would be merged into the user's next message - as
\* long as its session keeps its name.
RenameWaitsForIdle ==
  [][\A o \in Op :
       op[o].kind = "autoRename" /\ op[o].pc = "type" /\ op'[o].pc = "enter" /\ KeepsName(o)
         => \E p \in Targets(op[o].name) :
              pane[p].tui = "idle" \/ pane[p].outside]_vars

\* Whoever holds sessionSendLock is still running, so that a request waiting for
\* it gets its turn: every exit of renameWhenIdle and the others unlocks.
HolderRuns == \A n \in Name : Held(n) => op[lock[n]].pc \notin {"idle", "ok", "error"}
=============================================================================
