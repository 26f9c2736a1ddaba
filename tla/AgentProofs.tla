---------------------------- MODULE AgentProofs ----------------------------
(***************************************************************************)
(* Proofs about AgentSingleton, for any number of processes and crashes,   *)
(* and about AgentResize, for any number of agents, requests, sessions and *)
(* names, and any lengths with Window + MaxDelay < Cooldown.               *)
(***************************************************************************)
EXTENDS AgentResize, TLAPS

-----------------------------------------------------------------------------
(* Agents that come up                                                       *)

\* One process is coming up at a time, and once it has found nobody to answer
\* nobody serves; who serves owns the path.
OneStarting == \A a, b \in Agent : pc[a] \in Starting /\ pc[b] \in Starting => a = b

PastDial == {"remove", "bind", "listen"}

UnracedInv ==
  /\ OneStarting
  /\ \A a \in Agent : pc[a] \in PastDial => Listeners = {}
  /\ \A a \in Listeners : file = a
  /\ \A a \in Agent : pc[a] = "listen" => file = a

AgentInv == TypeOK /\ (~raced => UnracedInv)

\* AgentInv holds at the start.
LEMMA AgentInit == Init => AgentInv
<1> SUFFICES ASSUME Init PROVE AgentInv
  OBVIOUS
<1>1. TypeOK
  <2>1. pc \in [Agent -> PCs]
    BY DEF Init, PCs
  <2>2. crashes \in 0..MaxCrashes
    BY AgentAssumption DEF Init
  <2>3. raced \in BOOLEAN
    BY DEF Init
  <2> QED
    BY <2>1, <2>2, <2>3 DEF Init, TypeOK
<1>2. UnracedInv
  BY DEF Init, UnracedInv, OneStarting, PastDial, Listeners, Starting
<1> QED
  BY <1>1, <1>2 DEF AgentInv

\* Every step preserves AgentInv: a race is remembered, and without one the
\* starts do not overlap.
LEMMA AgentStep == AgentInv /\ [Next]_vars => AgentInv'
<1> SUFFICES ASSUME AgentInv, [Next]_vars PROVE AgentInv'
  OBVIOUS
<1> USE AgentAssumption
    DEF AgentInv, UnracedInv, TypeOK, PastDial, Starting, PCs, Listeners, OneStarting, Goto
<1>1. ASSUME NEW a \in Agent, Start(a) \/ Restart(a) PROVE AgentInv'
  BY <1>1 DEF Start, Restart, Begin
<1>2. ASSUME NEW a \in Agent, Dial(a) PROVE AgentInv'
  BY <1>2 DEF Dial, Answers
<1>3. ASSUME NEW a \in Agent, Remove(a) PROVE AgentInv'
  BY <1>3 DEF Remove
<1>4. ASSUME NEW a \in Agent, Bind(a) PROVE AgentInv'
  BY <1>4 DEF Bind
<1>5. ASSUME NEW a \in Agent, Listen(a) PROVE AgentInv'
  BY <1>5 DEF Listen
<1>6. ASSUME NEW a \in Agent, Crash(a) PROVE AgentInv'
  BY <1>6 DEF Crash
<1>7. CASE UNCHANGED vars
  BY <1>7 DEF vars
<1> QED
  BY <1>1, <1>2, <1>3, <1>4, <1>5, <1>6, <1>7 DEF Next, Step

\* However starts overlap and whichever of them fail, an agent that answers while
\* nobody is about to remove the file keeps the path until it dies: ensureSingle
\* refuses the starts that dial from then on, and the bind of those that dialed
\* before fails.
THEOREM SettledKept == Spec => SettledKeepsPath
<1>1. ASSUME TypeOK, [Next]_vars, NEW a \in Agent, Settled(a)
      PROVE  Settled(a)' \/ pc'[a] = "dead"
  <2> USE <1>1, AgentAssumption DEF Settled, Answers, Listeners, TypeOK, PCs, Goto
  <2>1. ASSUME NEW b \in Agent, Start(b) \/ Restart(b) PROVE Settled(a)'
    BY <2>1 DEF Start, Restart, Begin
  <2>2. ASSUME NEW b \in Agent, Dial(b) PROVE Settled(a)'
    BY <2>2 DEF Dial
  <2>3. ASSUME NEW b \in Agent, Remove(b) PROVE FALSE
    BY <2>3 DEF Remove
  <2>4. ASSUME NEW b \in Agent, Bind(b) PROVE Settled(a)'
    BY <2>4 DEF Bind
  <2>5. ASSUME NEW b \in Agent, Listen(b) PROVE Settled(a)'
    BY <2>5 DEF Listen
  <2>6. ASSUME NEW b \in Agent, Crash(b) PROVE Settled(a)' \/ pc'[a] = "dead"
    BY <2>6 DEF Crash
  <2>7. CASE UNCHANGED vars
    BY <2>7 DEF vars
  <2> QED
    BY <2>1, <2>2, <2>3, <2>4, <2>5, <2>6, <2>7 DEF Next, Step
<1>2. TypeOK /\ [Next]_vars
        => [\A a \in Agent : Settled(a) => Settled(a)' \/ pc'[a] = "dead"]_vars
  BY <1>1
<1>3. AgentInv /\ [Next]_vars => AgentInv'
  BY AgentStep
<1>4. AgentInv => TypeOK
  BY DEF AgentInv
<1> QED
  BY AgentInit, <1>2, <1>3, <1>4, PTL DEF Spec, SettledKeepsPath

\* Unless two starts overlapped, an agent that serves is the one a client's dial of
\* the path reaches, however agents crash and whatever file was left at the path.
THEOREM OneAgentReached == Spec => []ListenersReachable
<1>1. AgentInv /\ [Next]_vars => AgentInv'
  BY AgentStep
<1>2. AgentInv => ListenersReachable
  BY DEF AgentInv, UnracedInv, ListenersReachable, Answers
<1> QED
  BY AgentInit, <1>1, <1>2, PTL DEF Spec

-----------------------------------------------------------------------------
(* Redraws                                                                   *)

\* r is in nudgeRedraw's critical section for the name n in the agent a.
Inside(r, a, n) == req[r].pc \in {"check", "store", "send"} /\ req[r].agent = a /\ req[r].name = n
Typing(r, a, n) == req[r].pc = "send" /\ req[r].agent = a /\ req[r].name = n

\* The send lock is held by who is inside.
LockInv ==
  \A r \in Req, a \in Agent, n \in Name : Inside(r, a, n) => holder[a][n] = r

\* A request under way has an agent and a name.
Placed == \A r \in Req : req[r].pc # "idle" => req[r].agent \in Agent /\ req[r].name \in Name

\* While a Ctrl+L is too recent for another its agent is still cooling; once
\* another is to be typed it no longer is too recent, and by the time it is
\* typed the cooldown that began with it still outlasts the window.
CoolInv ==
  /\ \A a \in Agent, n \in Name, s \in Session :
       last[s].agent = a /\ last[s].name = n => last[s].left > 0 /\ last[s].left <= cooling[a][n]
  /\ \A r \in Req, a \in Agent, n \in Name : Typing(r, a, n) =>
       /\ cooling[a][n] + MaxDelay >= Cooldown
       /\ \A s \in Session : ~(last[s].agent = a /\ last[s].name = n)

\* Who is about to note the time still finds the cooldown over.
Storing(r, a, n) == req[r].pc = "store" /\ req[r].agent = a /\ req[r].name = n
StoreInv == \A r \in Req, a \in Agent, n \in Name : Storing(r, a, n) => cooling[a][n] = 0

ResizeInv == ResizeTypeOK /\ Placed /\ LockInv /\ CoolInv /\ StoreInv /\ ~close

\* ResizeInv holds at the start: nothing has been typed and nobody is inside.
LEMMA ResizeStart == ResizeInit => ResizeInv
<1> SUFFICES ASSUME ResizeInit PROVE ResizeInv
  OBVIOUS
<1> USE ResizeAssumption DEF ResizeInit, Idle, NoKey
<1>1. ResizeTypeOK
  <2>1. 0 \in 0..Cooldown /\ 0 \in 0..Window + 1
    OBVIOUS
  <2>2. cooling \in [Agent -> [Name -> 0..Cooldown]]
    BY <2>1
  <2>3. last \in [Session -> [agent : Agent \union {None}, name : Name \union {None}, left : 0..Window + 1]]
    BY <2>1
  <2>4. req \in [Req -> [pc : ReqPCs, agent : Agent \union {None}, name : Name \union {None}]]
    BY DEF ReqPCs
  <2> QED
    BY <2>2, <2>3, <2>4 DEF ResizeTypeOK
<1>2. Placed /\ LockInv /\ CoolInv /\ StoreInv
  <2>1. \A r \in Req : req[r].pc = "idle"
    OBVIOUS
  <2>2. \A s \in Session : last[s].agent = None
    OBVIOUS
  <2> QED
    BY <2>1, <2>2, AgentAssumption DEF Placed, LockInv, CoolInv, StoreInv, Inside, Typing, Storing
<1> QED
  BY <1>1, <1>2 DEF ResizeInv

ReqRecord == [pc : ReqPCs, agent : Agent \union {None}, name : Name \union {None}]
LastRecord == [agent : Agent \union {None}, name : Name \union {None}, left : 0..Window + 1]

\* Whoever was inside leaves and gives the lock back: nobody else was inside.
LEMMA Leaves ==
  ASSUME NEW r \in Req, req[r].pc \in {"check", "store", "send"}, Placed, LockInv,
         req \in [Req -> ReqRecord], holder \in [Agent -> [Name -> Req \union {None}]],
         req' = [req EXCEPT ![r] = Idle],
         holder' = [holder EXCEPT ![req[r].agent][req[r].name] = None]
  PROVE /\ Placed' /\ LockInv' /\ req' \in [Req -> ReqRecord]
        /\ holder' \in [Agent -> [Name -> Req \union {None}]]
        /\ \A q \in Req, b \in Agent, m \in Name :
             /\ Typing(q, b, m)' => Typing(q, b, m) /\ (b # req[r].agent \/ m # req[r].name)
             /\ Storing(q, b, m)' => Storing(q, b, m)
<1> DEFINE a == req[r].agent
           n == req[r].name
<1>1. a \in Agent /\ n \in Name /\ holder[a][n] = r
  BY DEF Placed, LockInv, Inside
<1>2. req'[r].pc = "idle" /\ req' \in [Req -> ReqRecord] /\ \A q \in Req : q # r => req'[q] = req[q]
  BY DEF Idle, ReqRecord, ReqPCs
<1>3. /\ holder' \in [Agent -> [Name -> Req \union {None}]]
      /\ \A b \in Agent, m \in Name : b # a \/ m # n => holder'[b][m] = holder[b][m]
  BY <1>1
<1>4. Placed'
  BY <1>2 DEF Placed
<1>5. \A q \in Req, b \in Agent, m \in Name :
        Inside(q, b, m)' => q # r /\ Inside(q, b, m) /\ (b # a \/ m # n)
  BY <1>1, <1>2 DEF LockInv, Inside
<1>6. LockInv'
  BY <1>3, <1>5 DEF LockInv
<1>7. \A q \in Req, b \in Agent, m \in Name :
        /\ Typing(q, b, m)' => Typing(q, b, m) /\ (b # a \/ m # n)
        /\ Storing(q, b, m)' => Storing(q, b, m)
  BY <1>2, <1>5 DEF Typing, Storing, Inside
<1> QED
  BY <1>2, <1>3, <1>4, <1>6, <1>7

\* A step of nudgeRedraw, of tmux, of the clock or of an agent's end preserves
\* ResizeInv.
LEMMA ResizeStep == ResizeInv /\ [ResizeNext]_rvars => ResizeInv'
<1>0. SUFFICES ASSUME ResizeInv, [ResizeNext]_rvars PROVE ResizeInv'
  OBVIOUS
<1> USE ResizeAssumption, AgentAssumption DEF At
<1>a. /\ ResizeTypeOK /\ Placed /\ LockInv /\ CoolInv /\ StoreInv /\ ~close
      /\ req \in [Req -> ReqRecord] /\ last \in [Session -> LastRecord]
      /\ cooling \in [Agent -> [Name -> 0..Cooldown]]
      /\ holder \in [Agent -> [Name -> Req \union {None}]]
  BY <1>0 DEF ResizeInv, ResizeTypeOK, ReqRecord, LastRecord
<1>1. ASSUME NEW r \in Req, NEW a \in Agent, NEW n \in Name, SessionResize(r, a, n)
      PROVE ResizeInv'
  <2>1. UNCHANGED <<name, holder, cooling, last, close>> /\ req[r].pc = "idle"
        /\ req' = [req EXCEPT ![r] = [pc |-> "lock", agent |-> a, name |-> n]]
    BY <1>1 DEF SessionResize, Reaches
  <2>2. [pc |-> "lock", agent |-> a, name |-> n] \in ReqRecord
    BY DEF ReqRecord, ReqPCs
  <2>3. req' \in [Req -> ReqRecord] /\ \A q \in Req : q # r => req'[q] = req[q]
    BY <1>a, <2>1, <2>2
  <2>4. req'[r].pc = "lock" /\ req'[r].agent = a /\ req'[r].name = n
    BY <1>a, <2>1
  <2>5. ResizeTypeOK'
    BY <1>a, <2>1, <2>3 DEF ResizeTypeOK, ReqRecord
  <2>6. Placed' /\ LockInv' /\ CoolInv' /\ StoreInv'
    BY <1>a, <2>1, <2>3, <2>4 DEF Placed, LockInv, CoolInv, StoreInv, Inside, Typing, Storing
  <2> QED
    BY <1>a, <2>1, <2>5, <2>6 DEF ResizeInv
<1>2. ASSUME NEW r \in Req, Lock(r) PROVE ResizeInv'
  <2> DEFINE a == req[r].agent
             n == req[r].name
  <2>1. /\ req[r].pc = "lock" /\ holder[a][n] = None
        /\ a \in Agent /\ n \in Name
        /\ UNCHANGED <<name, cooling, last, close>>
        /\ req' = [req EXCEPT ![r].pc = "check"]
        /\ holder' = [holder EXCEPT ![a][n] = r]
    BY <1>a, <1>2 DEF Lock, Moves, Placed
  <2>2. /\ req' \in [Req -> ReqRecord] /\ \A q \in Req : q # r => req'[q] = req[q]
        /\ req'[r].pc = "check" /\ req'[r].agent = a /\ req'[r].name = n
    BY <1>a, <2>1 DEF ReqRecord, ReqPCs
  <2>3. /\ holder' \in [Agent -> [Name -> Req \union {None}]] /\ holder'[a][n] = r
        /\ \A b \in Agent, m \in Name : b # a \/ m # n => holder'[b][m] = holder[b][m]
    BY <1>a, <2>1
  <2>4. ResizeTypeOK'
    BY <1>a, <2>1, <2>2, <2>3 DEF ResizeTypeOK, ReqRecord
  <2>5. Placed' /\ LockInv' /\ CoolInv' /\ StoreInv'
    BY <1>a, <2>1, <2>2, <2>3 DEF Placed, LockInv, CoolInv, StoreInv, Inside, Typing, Storing
  <2> QED
    BY <1>a, <2>1, <2>4, <2>5 DEF ResizeInv
<1>3. ASSUME NEW r \in Req, Skip(r) PROVE ResizeInv'
  <2>1. req[r].pc = "check" /\ req' = [req EXCEPT ![r] = Idle]
        /\ holder' = [holder EXCEPT ![req[r].agent][req[r].name] = None]
        /\ UNCHANGED <<name, cooling, last, close>>
    BY <1>3 DEF Skip, Ends, Releases
  <2>2. Placed' /\ LockInv' /\ req' \in [Req -> ReqRecord]
        /\ holder' \in [Agent -> [Name -> Req \union {None}]]
        /\ \A q \in Req, b \in Agent, m \in Name :
             /\ Typing(q, b, m)' => Typing(q, b, m)
             /\ Storing(q, b, m)' => Storing(q, b, m)
    BY <1>a, <2>1, Leaves
  <2>3. ResizeTypeOK'
    BY <1>a, <2>1, <2>2 DEF ResizeTypeOK, ReqRecord
  <2>4. CoolInv' /\ StoreInv'
    BY <1>a, <2>1, <2>2 DEF CoolInv, StoreInv
  <2> QED
    BY <1>a, <2>1, <2>2, <2>3, <2>4 DEF ResizeInv
<1>p. ASSUME NEW r \in Req, Pass(r) PROVE ResizeInv'
  <2> DEFINE a == req[r].agent
             n == req[r].name
  <2>1. /\ req[r].pc = "check" /\ cooling[a][n] = 0
        /\ a \in Agent /\ n \in Name
        /\ UNCHANGED <<name, holder, cooling, last, close>>
        /\ req' = [req EXCEPT ![r].pc = "store"]
    BY <1>a, <1>p DEF Pass, Left, Moves, Placed
  <2>2. /\ req' \in [Req -> ReqRecord] /\ \A q \in Req : q # r => req'[q] = req[q]
        /\ req'[r].pc = "store" /\ req'[r].agent = a /\ req'[r].name = n
    BY <1>a, <2>1 DEF ReqRecord, ReqPCs
  <2>3. ResizeTypeOK'
    BY <1>a, <2>1, <2>2 DEF ResizeTypeOK, ReqRecord
  <2>4. Placed' /\ LockInv' /\ CoolInv' /\ StoreInv'
    BY <1>a, <2>1, <2>2 DEF Placed, LockInv, CoolInv, StoreInv, Inside, Typing, Storing
  <2> QED
    BY <1>a, <2>1, <2>3, <2>4 DEF ResizeInv
<1>4. ASSUME NEW r \in Req, Store(r) PROVE ResizeInv'
  <2> DEFINE a == req[r].agent
             n == req[r].name
  <2>1. /\ a \in Agent /\ n \in Name /\ cooling[a][n] = 0
        /\ Inside(r, a, n) /\ req[r].pc = "store"
        /\ UNCHANGED <<name, holder, last, close>>
        /\ req' = [req EXCEPT ![r].pc = "send"]
        /\ cooling' = [cooling EXCEPT ![a][n] = Cooldown]
    BY <1>a, <1>4 DEF Store, StoreInv, Storing, Moves, Placed, Inside
  <2>2. /\ req' \in [Req -> ReqRecord] /\ \A q \in Req : q # r => req'[q] = req[q]
        /\ req'[r].pc = "send" /\ req'[r].agent = a /\ req'[r].name = n
    BY <1>a, <2>1 DEF ReqRecord, ReqPCs
  <2>3. /\ cooling' \in [Agent -> [Name -> 0..Cooldown]] /\ cooling'[a][n] = Cooldown
        /\ \A b \in Agent, m \in Name : b # a \/ m # n => cooling'[b][m] = cooling[b][m]
    BY <1>a, <2>1
  <2>4. ResizeTypeOK'
    BY <1>a, <2>1, <2>2, <2>3 DEF ResizeTypeOK, ReqRecord
  <2>5. Placed' /\ LockInv'
    BY <1>a, <2>1, <2>2 DEF Placed, LockInv, Inside
  <2>6. \A s \in Session : ~(last[s].agent = a /\ last[s].name = n)
    <3>1. \A s \in Session : last[s].left \in 0..Window + 1
      BY <1>a DEF LastRecord
    <3> QED
      BY <1>a, <2>1, <3>1 DEF CoolInv
  <2>7. CoolInv'
    BY <1>a, <2>1, <2>2, <2>3, <2>6 DEF CoolInv, Typing
  <2>8. StoreInv'
    <3>1. \A q \in Req : q # r => ~Inside(q, a, n)
      BY <1>a, <2>1 DEF LockInv
    <3>2. ASSUME NEW q \in Req, NEW b \in Agent, NEW m \in Name, Storing(q, b, m)'
          PROVE cooling'[b][m] = 0
      <4>1. q # r /\ Storing(q, b, m)
        BY <2>2, <3>2 DEF Storing
      <4>2. b # a \/ m # n
        BY <3>1, <4>1 DEF Storing, Inside
      <4> QED
        BY <1>a, <2>3, <4>1, <4>2 DEF StoreInv
    <3> QED
      BY <3>2 DEF StoreInv
  <2> QED
    BY <1>a, <2>1, <2>4, <2>5, <2>7, <2>8 DEF ResizeInv
<1>5. ASSUME NEW r \in Req, Send(r) PROVE ResizeInv'
  <2> DEFINE a == req[r].agent
             n == req[r].name
  <2>1. /\ a \in Agent /\ n \in Name /\ Typing(r, a, n) /\ Inside(r, a, n)
        /\ req[r].pc = "send"
        /\ UNCHANGED <<name, cooling>> /\ req' = [req EXCEPT ![r] = Idle]
        /\ holder' = [holder EXCEPT ![a][n] = None]
    BY <1>a, <1>5 DEF Send, Ends, Releases, Placed, Typing, Inside
  <2>2. /\ Window + 1 <= cooling[a][n]
        /\ \A s \in Session : ~(last[s].agent = a /\ last[s].name = n)
    <3>1. cooling[a][n] + MaxDelay >= Cooldown /\ cooling[a][n] \in Nat
      BY <1>a, <2>1 DEF CoolInv
    <3> QED
      BY <1>a, <2>1, <3>1 DEF CoolInv
  <2>3. close' = FALSE
    BY <1>a, <1>5, <2>2 DEF Send, ResizeTypeOK
  <2>4. last' \in [Session -> LastRecord]
    <3>1. [agent |-> a, name |-> n, left |-> Window + 1] \in LastRecord
      BY <2>1 DEF LastRecord
    <3> QED
      BY <1>a, <1>5, <3>1 DEF Send
  <2>5. \A s \in Session :
          \/ last'[s] = last[s]
          \/ last'[s].agent = a /\ last'[s].name = n /\ last'[s].left = Window + 1
    BY <1>5 DEF Send
  <2>6. Placed' /\ LockInv' /\ req' \in [Req -> ReqRecord]
        /\ holder' \in [Agent -> [Name -> Req \union {None}]]
        /\ \A q \in Req, b \in Agent, m \in Name :
             /\ Typing(q, b, m)' => Typing(q, b, m) /\ (b # a \/ m # n)
             /\ Storing(q, b, m)' => Storing(q, b, m)
    BY <1>a, <2>1, Leaves
  <2>7. ResizeTypeOK'
    BY <1>a, <2>1, <2>3, <2>4, <2>6 DEF ResizeTypeOK, ReqRecord, LastRecord
  <2>8. ASSUME NEW b \in Agent, NEW m \in Name, NEW s \in Session,
               last'[s].agent = b, last'[s].name = m
        PROVE last'[s].left > 0 /\ last'[s].left <= cooling'[b][m]
    <3>1. CASE last'[s] = last[s]
      BY <1>a, <2>1, <2>8, <3>1 DEF CoolInv
    <3>2. CASE last'[s].agent = a /\ last'[s].name = n /\ last'[s].left = Window + 1
      BY <2>1, <2>2, <2>8, <3>2
    <3> QED
      BY <2>5, <3>1, <3>2
  <2>9. ASSUME NEW q \in Req, NEW b \in Agent, NEW m \in Name, Typing(q, b, m)'
        PROVE /\ cooling'[b][m] + MaxDelay >= Cooldown
              /\ \A s \in Session : ~(last'[s].agent = b /\ last'[s].name = m)
    <3>1. Typing(q, b, m) /\ (b # a \/ m # n)
      BY <2>6, <2>9
    <3>2. cooling[b][m] + MaxDelay >= Cooldown /\ \A s \in Session : ~(last[s].agent = b /\ last[s].name = m)
      BY <1>a, <3>1 DEF CoolInv
    <3> QED
      BY <2>1, <2>5, <3>1, <3>2
  <2>10. StoreInv'
    BY <1>a, <2>1, <2>6 DEF StoreInv
  <2> QED
    BY <2>3, <2>6, <2>7, <2>8, <2>9, <2>10 DEF ResizeInv, CoolInv
<1>6. ASSUME NEW s \in Session, NEW n \in Name, TmuxRename(s, n) PROVE ResizeInv'
  BY <1>a, <1>6 
     DEF TmuxRename, ResizeInv, ResizeTypeOK, Placed, LockInv, CoolInv, StoreInv, Inside, Typing, Storing
<1>7. CASE Tick
  <2>1. UNCHANGED <<name, req, holder, close>>
    BY <1>7 DEF Tick
  <2>2. /\ cooling' \in [Agent -> [Name -> 0..Cooldown]]
        /\ \A a \in Agent, n \in Name :
             cooling'[a][n] = IF cooling[a][n] > 0 THEN cooling[a][n] - 1 ELSE 0
    BY <1>a, <1>7 DEF Tick, Less
  <2>3. ASSUME NEW s \in Session
        PROVE /\ last'[s] \in LastRecord
              /\ \/ last'[s].agent = None
                 \/ /\ last'[s].agent = last[s].agent /\ last'[s].name = last[s].name
                    /\ last[s].left > 1 /\ last'[s].left = last[s].left - 1
    <3>1. CASE last[s].left > 1
      <4>1. last'[s] = [last[s] EXCEPT !.left = last[s].left - 1]
        BY <1>7, <3>1 DEF Tick
      <4>2. last[s].left - 1 \in 0..Window + 1
        BY <1>a, <3>1 DEF LastRecord
      <4> QED
        BY <1>a, <3>1, <4>1, <4>2 DEF LastRecord
    <3>2. CASE ~(last[s].left > 1)
      BY <1>7, <3>2 DEF Tick, NoKey, LastRecord
    <3> QED
      BY <3>1, <3>2
  <2>4. last' \in [Session -> LastRecord]
    BY <1>7, <2>3 DEF Tick
  <2>5. ResizeTypeOK' /\ Placed' /\ LockInv'
    <3>1. ResizeTypeOK'
      BY <1>a, <2>1, <2>2, <2>4 DEF ResizeTypeOK, LastRecord
    <3>2. Placed' /\ LockInv'
      BY <1>a, <2>1 DEF Placed, LockInv, Inside
    <3> QED
      BY <3>1, <3>2
  <2>6. ASSUME NEW a \in Agent, NEW n \in Name, NEW s \in Session,
               last'[s].agent = a, last'[s].name = n
        PROVE last'[s].left > 0 /\ last'[s].left <= cooling'[a][n]
    <3>1. /\ last[s].agent = a /\ last[s].name = n
          /\ last[s].left > 1 /\ last'[s].left = last[s].left - 1
      BY <2>3, <2>6
    <3>2. last[s].left \in Nat /\ cooling[a][n] \in Nat /\ last[s].left <= cooling[a][n]
      BY <1>a, <3>1 DEF CoolInv, LastRecord
    <3>3. cooling'[a][n] = cooling[a][n] - 1
      BY <2>2, <3>1, <3>2
    <3> QED
      BY <3>1, <3>2, <3>3
  <2>7. ASSUME NEW r \in Req, NEW a \in Agent, NEW n \in Name, Typing(r, a, n)'
        PROVE /\ cooling'[a][n] + MaxDelay >= Cooldown
              /\ \A s \in Session : ~(last'[s].agent = a /\ last'[s].name = n)
    <3>1. Typing(r, a, n)
      BY <2>1, <2>7 DEF Typing
    <3>2. cooling[a][n] + MaxDelay > Cooldown /\ cooling[a][n] \in Nat
      BY <1>a, <1>7, <3>1 DEF Tick, Left, Typing
    <3>3. cooling'[a][n] + MaxDelay >= Cooldown
      BY <2>2, <3>2
    <3>4. \A s \in Session : ~(last'[s].agent = a /\ last'[s].name = n)
      BY <1>a, <2>3, <3>1 DEF CoolInv
    <3> QED
      BY <3>3, <3>4
  <2>8. StoreInv'
    BY <1>a, <2>1, <2>2 DEF StoreInv, Storing
  <2> QED
    BY <1>a, <2>1, <2>5, <2>6, <2>7, <2>8 DEF ResizeInv, CoolInv
<1>8. ASSUME NEW a \in Agent, Die(a) PROVE ResizeInv'
  BY <1>a, <1>8
     DEF Die, Idle, NoKey, ResizeInv, ResizeTypeOK, ReqPCs, Placed, LockInv, CoolInv,
         StoreInv, Inside, Typing, Storing
<1>9. CASE UNCHANGED host
  BY <1>a, <1>9 
     DEF host, ResizeInv, ResizeTypeOK, Placed, LockInv, CoolInv, StoreInv, Inside, Typing, Storing
<1> QED
  BY <1>0, <1>1, <1>2, <1>3, <1>p, <1>4, <1>5, <1>6, <1>7, <1>8, <1>9
     DEF ResizeNext, Resizing, rvars

\* However requests, renames, crashes and restarts interleave, one agent never
\* types two Ctrl+L under one name so close that Claude Code runs /clear: the
\* cooldown and the send lock suffice for that as long as typing is not delayed
\* by as much as the cooldown exceeds Claude Code's window.
THEOREM RedrawsApart == ResizeSpec => []NeverCleared
<1>1. ResizeInv => NeverCleared
  BY DEF ResizeInv, NeverCleared
<1> QED
  BY ResizeStart, ResizeStep, <1>1, PTL DEF ResizeSpec
=============================================================================
