---------------------------- MODULE AgentResize ----------------------------
(***************************************************************************)
(* The redraw of a resized terminal, with the agents it runs in            *)
(* (AgentSingleton): the client's dial of the socket path                  *)
(* (internal/agent/client.go), the handler that executes the request       *)
(* (cmd/ccsm-agent/main.go), and Host.sessionResize and nudgeRedraw        *)
(* (internal/host/host.go).                                                *)
(*                                                                         *)
(* A redraw is a Ctrl+L typed into the pane, and two of them close to each *)
(* other make Claude Code run /clear.  nudgeRedraw remembers, by session   *)
(* name and in the memory of its agent, when it last typed one; it holds   *)
(* the send lock of the name while it looks, notes the time and types.     *)
(* A request goes on in the agent when its client has given up, so several *)
(* of them may be for one session; nothing sends a request twice.          *)
(***************************************************************************)
EXTENDS AgentSingleton

CONSTANTS
  Req,         \* requests in flight
  Session,
  Name,        \* session names
  Cooldown,    \* redrawCooldown, 3 s
  Window,      \* two Ctrl+L no more than this apart are a /clear: 2 s
  MaxDelay     \* from noting the time to the key's arrival in the pane

ASSUME ResizeAssumption ==
  /\ None \notin Req
  /\ Cooldown \in Nat /\ Window \in Nat /\ MaxDelay \in Nat
  /\ Window + MaxDelay < Cooldown

VARIABLES
  name,    \* Session -> its name
  req,     \* Req -> control point, agent and name
  holder,  \* Agent -> Name -> the request that has the send lock, or None
  cooling, \* Agent -> Name -> what is left of the cooldown after the time in
           \* redrawMu; 0 when there is none
  last,    \* history: Session -> its last Ctrl+L, and how long another is too close
  close    \* history: two were too close, of one agent and under one name

host == <<name, req, holder, cooling, last, close>>
rvars == <<vars, host>>

-----------------------------------------------------------------------------
ReqPCs == {"idle", "lock", "check", "store", "send"}
Idle == [pc |-> "idle", agent |-> None, name |-> None]
NoKey == [agent |-> None, name |-> None, left |-> 0]

At(r, place) == req[r].pc = place
Moves(r, place) == req' = [req EXCEPT ![r].pc = place]
Ends(r) == req' = [req EXCEPT ![r] = Idle]
Releases(r) == holder' = [holder EXCEPT ![req[r].agent][req[r].name] = None]
Left(r) == cooling[req[r].agent][req[r].name]

\* Client.Exec: a request reaches the agent the path leads to, once; without one
\* the client gets an error and that is all.  (Every request dials: that a kept
\* connection may lead to an agent the path no longer names is left out.)
Reaches(r, a) == At(r, "idle") /\ a \in Answers

\* sessionResize up to its nudge.  Without a session of that name, or with a tmux
\* that fails, the client gets an error and that is all.
SessionResize(r, a, n) ==
  /\ Reaches(r, a) /\ \E s \in Session : name[s] = n
  /\ req' = [req EXCEPT ![r] = [pc |-> "lock", agent |-> a, name |-> n]]
  /\ UNCHANGED <<vars, name, holder, cooling, last, close>>

\* Mutant: nudgeRedraw does not take the send lock.
NoLock(r) ==
  /\ At(r, "lock")
  /\ Moves(r, "check")
  /\ UNCHANGED <<vars, name, holder, cooling, last, close>>

\* nudgeRedraw
Lock(r) ==
  LET a == req[r].agent
      n == req[r].name
  IN
  /\ At(r, "lock") /\ holder[a][n] = None
  /\ Moves(r, "check")
  /\ holder' = [holder EXCEPT ![a][n] = r]
  /\ UNCHANGED <<vars, name, cooling, last, close>>

\* Too early: the redraw is left out.
Skip(r) ==
  /\ At(r, "check") /\ Left(r) > 0
  /\ Ends(r) /\ Releases(r)
  /\ UNCHANGED <<vars, name, cooling, last, close>>

Pass(r) ==
  /\ At(r, "check") /\ Left(r) = 0
  /\ Moves(r, "store")
  /\ UNCHANGED <<vars, name, holder, cooling, last, close>>

Store(r) ==
  /\ At(r, "store")
  /\ Moves(r, "send")
  /\ cooling' = [cooling EXCEPT ![req[r].agent][req[r].name] = Cooldown]
  /\ UNCHANGED <<vars, name, holder, last, close>>

\* The Ctrl+L reaches whoever has the name by now.
Send(r) ==
  LET a == req[r].agent
      n == req[r].name
      to == {s \in Session : name[s] = n}
  IN
  /\ At(r, "send")
  /\ last' = [s \in Session |-> IF s \in to THEN [agent |-> a, name |-> n, left |-> Window + 1]
                                ELSE last[s]]
  /\ close' = (close \/ \E s \in to : last[s].agent = a /\ last[s].name = n)
  /\ Ends(r) /\ Releases(r)
  /\ UNCHANGED <<vars, name, cooling>>

-----------------------------------------------------------------------------
\* tmuxRename: what is remembered stays with the old name.
TmuxRename(s, n) ==
  /\ \A t \in Session : name[t] # n
  /\ name' = [name EXCEPT ![s] = n]
  /\ UNCHANGED <<vars, req, holder, cooling, last, close>>

\* A second goes by; nothing waits longer than MaxDelay to type.
Less(t) == IF t > 0 THEN t - 1 ELSE 0
Tick ==
  /\ \A r \in Req : At(r, "send") => Left(r) + MaxDelay > Cooldown
  /\ cooling' = [a \in Agent |-> [n \in Name |-> Less(cooling[a][n])]]
  /\ last' = [s \in Session |-> IF last[s].left > 1 THEN [last[s] EXCEPT !.left = @ - 1] ELSE NoKey]
  /\ UNCHANGED <<vars, name, req, holder, close>>

\* An agent dies with its requests and its memory.  One started later in its
\* place is another agent to whom the last Ctrl+L is not known.
Die(a) ==
  /\ Crash(a)
  /\ req' = [r \in Req |-> IF req[r].agent = a THEN Idle ELSE req[r]]
  /\ holder' = [holder EXCEPT ![a] = [n \in Name |-> None]]
  /\ cooling' = [cooling EXCEPT ![a] = [n \in Name |-> 0]]
  /\ last' = [s \in Session |-> IF last[s].agent = a THEN NoKey ELSE last[s]]
  /\ UNCHANGED <<name, close>>

-----------------------------------------------------------------------------
ResizeInit ==
  /\ Init
  /\ name \in [Session -> Name] /\ \A s, t \in Session : name[s] = name[t] => s = t
  /\ req = [r \in Req |-> Idle]
  /\ holder = [a \in Agent |-> [n \in Name |-> None]]
  /\ cooling = [a \in Agent |-> [n \in Name |-> 0]]
  /\ last = [s \in Session |-> NoKey]
  /\ close = FALSE

Resizing(r) ==
  \/ \E a \in Agent, n \in Name : SessionResize(r, a, n)
  \/ Lock(r) \/ Skip(r) \/ Pass(r) \/ Store(r) \/ Send(r)

ResizeNext ==
  \/ \E a \in Agent : (Step(a) /\ UNCHANGED host) \/ Die(a)
  \/ \E r \in Req : Resizing(r)
  \/ \E s \in Session, n \in Name : TmuxRename(s, n)
  \/ Tick

ResizeSpec == ResizeInit /\ [][ResizeNext]_rvars
FairResizeSpec == ResizeSpec /\ Fairness

-----------------------------------------------------------------------------
(* Properties *)

ResizeTypeOK ==
  /\ name \in [Session -> Name]
  /\ req \in [Req -> [pc : ReqPCs, agent : Agent \union {None}, name : Name \union {None}]]
  /\ holder \in [Agent -> [Name -> Req \union {None}]]
  /\ cooling \in [Agent -> [Name -> 0..Cooldown]]
  /\ last \in [Session -> [agent : Agent \union {None}, name : Name \union {None}, left : 0..Window + 1]]
  /\ close \in BOOLEAN

\* host.go:4030 redrawCooldown: "two Ctrl+L presses within 2s run /clear instead of
\* two redraws".  However requests pile up and sessions trade names, a session
\* never gets two that close from one agent under one name - the cooldown is worth
\* that much; it is not kept across a rename or a restart of the agent.
NeverCleared == ~close
=============================================================================
