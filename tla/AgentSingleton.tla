--------------------------- MODULE AgentSingleton ---------------------------
(***************************************************************************)
(* How ccsm-agent comes up (cmd/ccsm-agent/main.go): ensureSingle dials    *)
(* the Unix socket's path, removes the file when nobody answers, and       *)
(* net.Listen binds and listens.  The file names the socket of the process *)
(* that bound it, whether or not it is alive; only a socket that listens   *)
(* answers a dial.  systemd starts it again when it fails.                 *)
(***************************************************************************)
EXTENDS Naturals

CONSTANTS
  Agent,       \* the processes started
  None,
  MaxCrashes   \* agents that are killed (bound)

ASSUME AgentAssumption == None \notin Agent /\ MaxCrashes \in Nat

VARIABLES
  file,      \* the process whose socket the path names, or None
  pc,        \* Agent -> control point of main
  crashes,
  raced      \* history: a process started while another was starting

vars == <<file, pc, crashes, raced>>

PCs == {"off", "dial", "remove", "bind", "listen", "serve", "refused", "dead"}
Starting == {"dial", "remove", "bind", "listen"}

Listeners == {a \in Agent : pc[a] = "serve"}

\* What a dial, and so every request of the web server, reaches.
Answers == {a \in Listeners : file = a}

-----------------------------------------------------------------------------
Goto(a, to) == pc' = [pc EXCEPT ![a] = to]

Begin(a) ==
  /\ Goto(a, "dial")
  /\ raced' = (raced \/ \E b \in Agent : pc[b] \in Starting)
  /\ UNCHANGED <<file, crashes>>

Start(a) == pc[a] = "off" /\ Begin(a)

\* Mutant: removes the file without asking who answers.
DialNobody(a) ==
  /\ pc[a] = "dial"
  /\ Goto(a, "remove")
  /\ UNCHANGED <<file, crashes, raced>>

\* ensureSingle
Dial(a) ==
  /\ pc[a] = "dial"
  /\ Goto(a, IF Answers # {} THEN "refused" ELSE "remove")
  /\ UNCHANGED <<file, crashes, raced>>

\* Mutant: a stale file is left for Listen to find.
RemoveNothing(a) ==
  /\ pc[a] = "remove"
  /\ Goto(a, "bind")
  /\ UNCHANGED <<file, crashes, raced>>

\* os.Remove of whatever the path names now.
Remove(a) ==
  /\ pc[a] = "remove"
  /\ file' = None
  /\ Goto(a, "bind")
  /\ UNCHANGED <<crashes, raced>>

\* Mutant: the path is taken over from whoever has bound it.
BindOver(a) ==
  /\ pc[a] = "bind"
  /\ file' = a /\ Goto(a, "listen")
  /\ UNCHANGED <<crashes, raced>>

\* net.Listen: bind fails if the path exists (log.Fatal).
Bind(a) ==
  /\ pc[a] = "bind"
  /\ IF file = None THEN file' = a /\ Goto(a, "listen")
     ELSE Goto(a, "dead") /\ UNCHANGED file
  /\ UNCHANGED <<crashes, raced>>

Listen(a) ==
  /\ pc[a] = "listen"
  /\ Goto(a, "serve")
  /\ UNCHANGED <<file, crashes, raced>>

\* Killed, or log.Fatal: nothing unlinks the socket file.
Crash(a) ==
  /\ crashes < MaxCrashes /\ pc[a] \in Starting \union {"serve"}
  /\ Goto(a, "dead")
  /\ crashes' = crashes + 1
  /\ UNCHANGED <<file, raced>>

\* Restart=on-failure: a process that failed is started again.
Restart(a) == pc[a] \in {"dead", "refused"} /\ Begin(a)

-----------------------------------------------------------------------------
\* The path may name the socket of an agent that died before.
Init ==
  /\ file \in Agent \union {None}
  /\ pc = [a \in Agent |-> "off"]
  /\ crashes = 0 /\ raced = FALSE

Step(a) == Start(a) \/ Dial(a) \/ Remove(a) \/ Bind(a) \/ Listen(a) \/ Restart(a)

Next == \E a \in Agent : Step(a) \/ Crash(a)

Spec == Init /\ [][Next]_vars

\* Each started process runs, and systemd gets round to each restart.
Fairness ==
  \A a \in Agent :
    /\ WF_vars(Dial(a) \/ Remove(a) \/ Bind(a) \/ Listen(a))
    /\ SF_vars(Start(a) \/ Restart(a))

-----------------------------------------------------------------------------
(* Properties *)

TypeOK ==
  /\ file \in Agent \union {None}
  /\ pc \in [Agent -> PCs]
  /\ crashes \in 0..MaxCrashes
  /\ raced \in BOOLEAN

\* docs/architecture.md:50: "a single agent deployment per host": when no process
\* starts while another is starting, an agent that serves is the one every client
\* reaches - no start takes the path away from it, so no two serve.
ListenersReachable == ~raced => Listeners = Answers

\* Nobody has found the path deserted and is about to remove what it names.
Settled(a) == a \in Answers /\ \A b \in Agent : pc[b] # "remove"

\* However many starts overlap, the agent that answers when the last of those that
\* found nobody has removed the file keeps the path until it dies: they fail to
\* bind, and the starts that come later are refused.
SettledKeepsPath == [][\A a \in Agent : Settled(a) => Settled(a)' \/ pc'[a] = "dead"]_vars

\* Races or not, after the last crash an agent is reachable again, and for good.
ComesUp == <>[](Answers # {})
=============================================================================
