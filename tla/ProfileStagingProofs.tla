------------------------ MODULE ProfileStagingProofs ------------------------
(***************************************************************************)
(* Proofs about ProfileStaging, for every catalog, every set of requests,  *)
(* sessions and conversations, every environment and every fault budget.   *)
(***************************************************************************)
EXTENDS ProfileStaging, TLAPS

-----------------------------------------------------------------------------
(* The record operators *)

\* The literals of the control state, so that the sets need no expansion.
LEMMA Literals ==
  /\ \A pc \in {"free", "write", "launch", "spawn", "wait", "rcSend", "rcDecide",
                "killRead", "kill", "resCheck", "switched", "relaunch"} : pc \in PCs
  /\ \A role \in {"user", "stage", "restore"} : role \in Roles
  /\ \A kind \in {"new", "newWith", "kill", "resume", "rc", "profile"} : kind \in Kinds
  BY DEF PCs, Roles, Kinds

\* An idle request's record is well formed.
LEMMA FreeType == Free \in OpRecord
  BY DEF Free, OpRecord, Kinds, PCs, Roles, Statuses, Credential

\* Moving a request to another control point keeps its record well formed.
LEMMA AtType ==
  ASSUME NEW r \in OpRecord, NEW pc \in PCs
  PROVE  At(r, pc) \in OpRecord
  BY FreeType DEF At, OpRecord

\* Ending a write keeps the record well formed.
LEMMA WrittenType ==
  ASSUME NEW r \in OpRecord, NEW owed \in Profile \union {None}
  PROVE  Written(r, owed) \in OpRecord
  <1>1. "free" \in PCs /\ "user" \in Roles /\ None \in Profile \union {None}
    BY DEF PCs, Roles
  <1> QED BY <1>1 DEF Written, OpRecord

\* Replacing one request's record keeps op well formed.
LEMMA BecomeType ==
  ASSUME op \in [Op -> OpRecord], NEW o \in Op, NEW r \in OpRecord, Become(o, r)
  PROVE  op' \in [Op -> OpRecord]
  BY DEF Become

\* A resume that goes on to launch keeps its record well formed.
LEMMA LaunchingType ==
  ASSUME NEW r \in OpRecord, NEW x \in Name \union {None}, NEW y \in Profile \union {None}
  PROVE  [r EXCEPT !.pc = "launch", !.active = y, !.name = x] \in OpRecord
  BY Literals DEF OpRecord

\* The sessions: a new one, and what a live one becomes.
LEMMA NewSessionType ==
  ASSUME NEW c \in Conv \union {None}, NEW tui \in {"idle", "working", "dialog"}
  PROVE  NewSessionRecord(c, tui) \in LiveSession
  BY DEF NewSessionRecord, LiveSession

\* A live session's record is a LiveSession.
LEMMA AliveType ==
  ASSUME TypeOK, NEW n \in Name, Alive(n)
  PROVE  sessions[n] \in LiveSession
  BY DEF TypeOK, Alive

\* A live session may change state, be marked spared, or drop its bridge.
LEMMA LiveSessionUpdates ==
  ASSUME NEW s \in LiveSession
  PROVE  /\ \A tui \in {"idle", "working", "dialog"} : [s EXCEPT !.tui = tui] \in LiveSession
         /\ \A b \in BOOLEAN : [s EXCEPT !.bridge = b] \in LiveSession
         /\ [s EXCEPT !.spared = TRUE] \in LiveSession
         /\ \A cred \in Credential \union {None} : [s EXCEPT !.cred = cred] \in LiveSession
  BY DEF LiveSession

\* The conversation attributed to a session is a conversation or nothing.
LEMMA ConvIdsType ==
  ASSUME TypeOK, NEW n \in Name
  PROVE  ConvIds(n) \subseteq Conv \union {None}
  BY AliveType DEF ConvIds, TypeOK, LiveSession

\* The credentials settings.json selects.
LEMMA CredOfType ==
  ASSUME NEW content
  PROVE  CredOf(content) \in Credential
  BY DEF CredOf, Credential

-----------------------------------------------------------------------------
(* What a request's step does to its record and to settings.json: it starts  *)
(* a write, or it leaves the file alone and stays staged or unstaged.        *)

Advances(o) ==
  \E w \in OpRecord :
    /\ Become(o, w)
    /\ ControlOf(w)
    /\ \/ settings' = Torn /\ w.pc = "write"
       \/ settings' = settings /\ w.pc # "write" /\ (Staged(w) <=> Staged(op[o]))
    /\ w.pc = "write" /\ w.role = "stage" =>
         /\ ~Staged(op[o])
         /\ w.active = settings \/ (op[o].pc = "launch" /\ w.active = op[o].active)
    /\ Staged(w) => Staged(op[o]) /\ w.active = op[o].active
    /\ w.pc = "launch" => w.active \in {None, settings}

\* The control points at which a request holds a session's name.
Naming == {"wait", "rcSend", "rcDecide", "killRead", "kill"}

\* Taking any record that is neither staged nor writing.
LEMMA QuietAdvances ==
  ASSUME NEW o \in Op, NEW w \in OpRecord, w.pc # "write",
         w.pc \in Naming => w.name \in Name,
         w.pc = "launch" => w.active \in {None, settings},
         ~Staged(w), ~Staged(op[o]), Become(o, w), settings' = settings
  PROVE  Advances(o)
  <1>1. ControlOf(w)
    BY DEF ControlOf, Naming
  <1> QED BY <1>1 DEF Advances

\* Going to another control point while not staged.
LEMMA AtAdvances ==
  ASSUME NEW o \in Op, NEW r \in OpRecord, NEW pc \in PCs,
         pc \notin {"write", "launch"}, pc \in Naming => r.name \in Name,
         ~Staged(r), ~Staged(op[o]), Become(o, At(r, pc)), settings' = settings
  PROVE  Advances(o)
  <1> DEFINE w == At(r, pc)
  <1>1. w \in OpRecord
    BY AtType
  <1>2. w.pc = pc /\ ~Staged(w) /\ (pc # "free" => w.name = r.name)
    BY DEF At, Free, Staged, OpRecord
  <1> HIDE DEF w
  <1> QED BY <1>1, <1>2, QuietAdvances DEF w, Naming

\* Going on with what is staged still staged.
LEMMA StayAdvances ==
  ASSUME NEW o \in Op, NEW w \in OpRecord, w.pc \in {"wait", "rcSend"},
         w.name \in Name, Staged(w) => w.owed = w.active,
         w.owed = op[o].owed, w.active = op[o].active,
         Become(o, w), settings' = settings
  PROVE  Advances(o)
  <1>1. ControlOf(w)
    BY DEF ControlOf
  <1> QED BY <1>1 DEF Advances, Staged

\* Starting to write a user's choice.
LEMMA ChooseAdvances ==
  ASSUME NEW o \in Op, NEW r \in OpRecord, NEW p \in Profile,
         NEW after \in {"launch", "switched"}, ~Staged(r), r.active = p,
         Apply(o, r, p, "user", after)
  PROVE  Advances(o)
  <1> DEFINE w == [r EXCEPT !.pc = "write", !.write = p, !.role = "user", !.after = after]
  <1>1. w \in OpRecord
    BY Literals DEF OpRecord
  <1>2. /\ w.pc = "write" /\ w.write = p /\ w.role = "user" /\ w.after = after
        /\ w.active = p /\ ~Staged(w)
    BY DEF OpRecord, Staged
  <1>3. ControlOf(w)
    BY <1>2 DEF ControlOf
  <1> QED BY <1>1, <1>2, <1>3 DEF Advances, Apply

\* Starting to write the bootstrap profile.
LEMMA StageAdvances ==
  ASSUME NEW o \in Op, NEW r \in OpRecord,
         NEW after \in {"spawn", "kill", "rcSend"}, ~Staged(r), ~Staged(op[o]),
         r.active \in Profile,
         after # "spawn" => r.name \in Name,
         r.active = settings \/ (op[o].pc = "launch" /\ r.active = op[o].active),
         Apply(o, r, Boot, "stage", after)
  PROVE  Advances(o)
  <1> DEFINE w == [r EXCEPT !.pc = "write", !.write = Boot, !.role = "stage", !.after = after]
  <1>1. w \in OpRecord
    BY Literals, ProfileAssumption DEF OpRecord
  <1>2. /\ w.pc = "write" /\ w.write = Boot /\ w.role = "stage" /\ w.after = after
        /\ w.active = r.active /\ w.name = r.name /\ ~Staged(w)
    BY DEF OpRecord, Staged
  <1>3. ControlOf(w)
    BY <1>2, ProfileAssumption DEF ControlOf
  <1> QED BY <1>1, <1>2, <1>3 DEF Advances, Apply

\* Restoring, or going on when there is nothing to restore.
LEMMA RestoreAdvances ==
  ASSUME NEW o \in Op, NEW r \in OpRecord,
         NEW after \in {"free", "relaunch", "resCheck", "rcDecide"},
         after = "rcDecide" => r.name \in Name,
         Staged(r) => r.owed \in Profile /\ r.owed = r.active,
         r.owed = op[o].owed, r.active = op[o].active,
         RestoreThen(o, r, after)
  PROVE  Advances(o)
  <1>1. CASE Staged(r)
    <2> DEFINE w == [r EXCEPT !.pc = "write", !.write = r.owed, !.role = "restore",
                              !.after = after]
    <2>1. w \in OpRecord
      BY <1>1, Literals DEF OpRecord
    <2>2. /\ w.pc = "write" /\ w.write = r.owed /\ w.role = "restore" /\ w.after = after
          /\ w.active = r.active /\ w.name = r.name /\ w.owed = r.owed
      BY DEF OpRecord
    <2>3. Staged(w) /\ Staged(op[o])
      BY <1>1, <2>2 DEF Staged
    <2>4. Become(o, w) /\ settings' = Torn
      BY <1>1 DEF RestoreThen, Apply
    <2>5. ControlOf(w)
      BY <1>1, <2>2, <2>3 DEF ControlOf
    <2> QED BY <1>1, <2>1, <2>2, <2>3, <2>4, <2>5 DEF Advances
  <1>2. CASE ~Staged(r)
    <2>1. Become(o, At(r, after)) /\ settings' = settings /\ ~Staged(op[o])
      BY <1>2 DEF RestoreThen, Staged
    <2> QED BY <1>2, <2>1, AtAdvances, Literals DEF Naming
  <1> QED BY <1>1, <1>2

-----------------------------------------------------------------------------
(* Every step of a request other than the end of a write advances it *)

\* What TypeOK and ControlInv say of one request.
LEMMA RequestFacts ==
  ASSUME TypeOK, ControlInv, NEW o \in Op
  PROVE  /\ op[o] \in OpRecord /\ ControlOf(op[o])
         /\ Staged(op[o]) => op[o].owed \in Profile /\ op[o].owed = op[o].active
         /\ ActiveProfileName \in Profile \union {None}
         /\ ActiveProfileName # None => ActiveProfileName = settings
  <1>1. op[o] \in OpRecord /\ ControlOf(op[o])
    BY DEF TypeOK, ControlInv
  <1>2. Staged(op[o]) => op[o].owed \in Profile /\ op[o].owed = op[o].active
    BY <1>1 DEF Staged, OpRecord, ControlOf
  <1> QED BY <1>1, <1>2 DEF ActiveProfileName

\* A step that begins, launches, waits, kills or resumes.
LEMMA StepAdvances ==
  ASSUME TypeOK, ControlInv, NEW o \in Op, Step(o), ~EndWrite(o)
  PROVE  Advances(o)
  <1> DEFINE r == op[o]
  <1>r. /\ r \in OpRecord /\ ControlOf(r)
        /\ Staged(r) => r.owed \in Profile /\ r.owed = r.active
        /\ ActiveProfileName \in Profile \union {None}
        /\ ActiveProfileName # None => ActiveProfileName = settings
    BY RequestFacts
  <1>e. OnError(r) \in {"free", "relaunch"} /\ AfterLaunch(r) \in {"free", "relaunch"}
    BY DEF OnError, AfterLaunch
  <1>2. CASE Launch(o)
    <2>0. r.pc = "launch" /\ ~Staged(r)
      BY <1>r, <1>2 DEF Launch, ControlOf
    <2>1. CASE RequiresStaging(r.active) /\ BootAvailable
      <3>1. Apply(o, r, Boot, "stage", "spawn") /\ r.active \in Profile
        BY <1>2, <1>r, <2>1 DEF Launch, RequiresStaging, OpRecord
      <3> QED BY <1>r, <2>0, <3>1, StageAdvances
    <2>2. CASE ~(RequiresStaging(r.active) /\ BootAvailable)
      <3>1. Become(o, At(r, "spawn")) /\ settings' = settings
        BY <1>2, <2>2 DEF Launch
      <3> QED BY <1>r, <2>0, <3>1, AtAdvances, Literals DEF Naming
    <2> QED BY <2>1, <2>2
  <1>3. CASE Spawn(o)
    <2>0. (IF r.name = None THEN Name ELSE {r.name}) \subseteq Name
      BY <1>r DEF OpRecord
    <2>1. PICK n \in (IF r.name = None THEN Name ELSE {r.name}) :
            Become(o, IF Staged(r) THEN [r EXCEPT !.pc = "wait", !.name = n]
                      ELSE At([r EXCEPT !.name = None, !.conv = None], AfterLaunch(r)))
      BY <1>3, Zenon DEF Spawn
    <2>2. n \in Name /\ settings' = settings
      BY <1>3, <2>0 DEF Spawn
    <2>3. CASE Staged(r)
      <3> DEFINE w == [r EXCEPT !.pc = "wait", !.name = n]
      <3>1. /\ w \in OpRecord /\ w.pc = "wait" /\ w.name = n
            /\ w.owed = r.owed /\ w.active = r.active
        BY <1>r, <2>2, Literals DEF OpRecord
      <3>2. Become(o, w)
        BY <2>1, <2>3
      <3> HIDE DEF w
      <3> QED BY <1>r, <2>2, <2>3, <3>1, <3>2, StayAdvances
    <2>4. CASE ~Staged(r)
      <3> DEFINE w == [r EXCEPT !.name = None, !.conv = None]
      <3>1. w \in OpRecord /\ ~Staged(w)
        BY <1>r, <2>4 DEF OpRecord, Staged
      <3>2. Become(o, At(w, AfterLaunch(r)))
        BY <2>1, <2>4
      <3> HIDE DEF w
      <3> QED BY <1>e, <2>2, <2>4, <3>1, <3>2, AtAdvances, Literals DEF Naming
    <2> QED BY <2>3, <2>4
  <1>4. CASE SpawnFails(o)
    <2>1. RestoreThen(o, r, OnError(r))
      BY <1>4 DEF SpawnFails
    <2> QED BY <1>r, <1>e, <2>1, RestoreAdvances
  <1>5. CASE WaitEnds(o)
    <2>1. r.name \in Name
      BY <1>r, <1>5 DEF WaitEnds, ControlOf
    <2>2. PICK status \in Statuses :
            IF r.kind = "rc" /\ r.conv = None
            THEN RestoreThen(o, [r EXCEPT !.status = status], "rcDecide")
            ELSE RestoreThen(o, r, AfterLaunch(r))
      BY <1>5 DEF WaitEnds
    <2> DEFINE w == [r EXCEPT !.status = status]
    <2>3. w \in OpRecord /\ w.owed = r.owed /\ w.active = r.active /\ w.name = r.name
      BY <1>r DEF OpRecord
    <2>4. Staged(w) => w.owed \in Profile /\ w.owed = w.active
      BY <1>r, <2>3 DEF Staged
    <2>5. CASE RestoreThen(o, w, "rcDecide")
      BY <2>1, <2>3, <2>4, <2>5, RestoreAdvances
    <2>6. CASE RestoreThen(o, r, AfterLaunch(r))
      BY <1>r, <1>e, <2>6, RestoreAdvances
    <2> QED BY <2>2, <2>5, <2>6
  <1>6. CASE KillRead(o)
    <2> DEFINE w == [r EXCEPT !.active = ActiveProfileName]
    <2>0. r.pc = "killRead" /\ ~Staged(r) /\ r.name \in Name
      BY <1>r, <1>6 DEF KillRead, ControlOf
    <2>1. /\ w \in OpRecord /\ w.active = ActiveProfileName
          /\ w.owed = r.owed /\ w.name = r.name /\ ~Staged(w)
      BY <1>r, <2>0 DEF OpRecord, Staged
    <2>2. CASE RequiresStaging(w.active) /\ BootAvailable
      <3>1. Apply(o, w, Boot, "stage", "kill")
        BY <1>6, <2>2 DEF KillRead
      <3>2. w.active \in Profile /\ w.active = settings
        BY <1>r, <2>1, <2>2 DEF RequiresStaging
      <3> QED BY <2>0, <2>1, <3>1, <3>2, StageAdvances
    <2>3. CASE ~(RequiresStaging(w.active) /\ BootAvailable)
      <3>1. Become(o, At(w, "kill")) /\ settings' = settings
        BY <1>6, <2>3 DEF KillRead
      <3> QED BY <2>0, <2>1, <3>1, AtAdvances, Literals DEF Naming
    <2> QED BY <2>2, <2>3
  <1>7. CASE Kill(o)
    <2>1. RestoreThen(o, r, IF Alive(r.name) /\ r.kind # "kill" THEN "resCheck" ELSE OnError(r))
      BY <1>7 DEF Kill
    <2> QED BY <1>r, <1>e, <2>1, RestoreAdvances
  <1>8. CASE ResCheck(o)
    <2> DEFINE kept == IF r.name \in Name /\ Alive(r.name) THEN None ELSE r.name
               w == [r EXCEPT !.pc = "launch", !.active = ActiveProfileName, !.name = kept]
               v == [r EXCEPT !.name = None, !.conv = None, !.active = None]
    <2>0. ~Staged(r) /\ settings' = settings
      BY <1>r, <1>8 DEF ResCheck, ControlOf
    <2>1. Become(o, At(v, OnError(r))) \/ Become(o, w)
      BY <1>8, <1>r DEF ResCheck, OpRecord
    <2>2. kept \in Name \union {None}
      BY <1>r DEF OpRecord
    <2>3. w \in OpRecord
      BY <1>r, <2>2, LaunchingType
    <2>4. w.pc = "launch" /\ w.active = ActiveProfileName /\ ~Staged(w)
      BY <1>r, <2>0 DEF OpRecord, Staged
    <2>5. v \in OpRecord /\ ~Staged(v)
      BY <1>r, <2>0 DEF OpRecord, Staged
    <2> HIDE DEF w, v
    <2>6. CASE Become(o, At(v, OnError(r)))
      BY <1>e, <2>0, <2>5, <2>6, AtAdvances, Literals DEF Naming
    <2>7. CASE Become(o, w)
      BY <1>r, <2>0, <2>3, <2>4, <2>7, QuietAdvances DEF Naming
    <2> QED BY <2>1, <2>6, <2>7
  <1>9. CASE RcSend(o)
    <2>0. r.pc = "rcSend" /\ r.name \in Name
      BY <1>r, <1>9 DEF RcSend, ControlOf
    <2>1. CASE Alive(r.name)
      <3> DEFINE w == At(r, "wait")
      <3>1. /\ w \in OpRecord /\ w.pc = "wait" /\ w.name = r.name
            /\ w.owed = r.owed /\ w.active = r.active
        BY <1>r, Literals DEF At, OpRecord
      <3>2. Become(o, w) /\ settings' = settings
        BY <1>9, <2>1 DEF RcSend
      <3> HIDE DEF w
      <3> QED BY <1>r, <2>0, <3>1, <3>2, StayAdvances DEF Staged
    <2>2. CASE ~Alive(r.name)
      <3>1. RestoreThen(o, r, "free")
        BY <1>9, <2>2 DEF RcSend
      <3> QED BY <1>r, <3>1, RestoreAdvances
    <2> QED BY <2>1, <2>2
  <1>10. CASE RcDecide(o)
    <2>0. r.pc = "rcDecide" /\ r.name \in Name /\ ~Staged(r) /\ settings' = settings
      BY <1>r, <1>10 DEF RcDecide, ControlOf
    <2>1. PICK c \in ConvIds(r.name) :
            Become(o, IF r.status = "ok" \/ c = None THEN Free
                      ELSE [r EXCEPT !.pc = "killRead", !.conv = c])
      BY <1>10 DEF RcDecide
    <2>2. c \in Conv \union {None}
      BY <2>0, <2>1, ConvIdsType
    <2> DEFINE w == [r EXCEPT !.pc = "killRead", !.conv = c]
    <2>3. w \in OpRecord /\ w.pc = "killRead" /\ w.name = r.name /\ ~Staged(w)
      BY <1>r, <2>0, <2>2, Literals DEF OpRecord, Staged
    <2>4. Become(o, At(r, "free")) \/ Become(o, w)
      BY <2>1 DEF At
    <2> HIDE DEF w
    <2>5. CASE Become(o, At(r, "free"))
      BY <1>r, <2>0, <2>5, AtAdvances, Literals DEF Naming
    <2>6. CASE Become(o, w)
      BY <2>0, <2>3, <2>6, QuietAdvances
    <2> QED BY <2>4, <2>5, <2>6
  <1>11. CASE Switched(o)
    <2>0. r.pc = "switched" /\ ~Staged(r) /\ settings' = settings
      BY <1>r, <1>11 DEF Switched, ControlOf
    <2> DEFINE w == [r EXCEPT !.pc = "relaunch", !.active = None, !.old = OAuth,
                              !.todo = {n \in Name : Alive(n)}]
    <2>1. OAuth \in Credential /\ {n \in Name : Alive(n)} \in SUBSET Name
      BY DEF Credential
    <2>2. w \in OpRecord /\ w.pc = "relaunch" /\ ~Staged(w)
      BY <1>r, <2>0, <2>1, Literals, NameAssumption DEF OpRecord, Staged
    <2>3. Become(o, At(r, "free")) \/ Become(o, w)
      BY <1>11 DEF Switched, At
    <2> HIDE DEF w
    <2>4. CASE Become(o, At(r, "free"))
      BY <1>r, <2>0, <2>4, AtAdvances, Literals DEF Naming
    <2>5. CASE Become(o, w)
      BY <2>0, <2>2, <2>5, QuietAdvances DEF Naming
    <2> QED BY <2>3, <2>4, <2>5
  <1>12. CASE RelaunchNext(o)
    <2> DEFINE v == [r EXCEPT !.name = None, !.conv = None, !.active = None]
    <2>p. v.pc = "relaunch" /\ settings' = settings
      BY <1>12 DEF RelaunchNext
    <2>q. v.pc = r.pc
      BY <1>r DEF OpRecord
    <2>0. r.pc = "relaunch" /\ ~Staged(r) /\ settings' = settings
      BY <1>r, <2>p, <2>q DEF ControlOf
    <2>1. v \in OpRecord /\ v.pc = "relaunch" /\ ~Staged(v)
      BY <1>r, <2>0 DEF OpRecord, Staged
    <2>2. CASE Become(o, Free)
      <3>1. Become(o, At(r, "free"))
        BY <2>2 DEF At
      <3> QED BY <1>r, <2>0, <3>1, AtAdvances, Literals DEF Naming
    <2>3. CASE \E n \in v.todo : \E c \in ConvIds(n) :
                 \/ Become(o, [v EXCEPT !.todo = @ \ {n}])
                 \/ Become(o, [v EXCEPT !.pc = "killRead", !.name = n, !.conv = c,
                                        !.todo = @ \ {n}])
      <3>1. v.todo \in SUBSET Name
        BY <2>1 DEF OpRecord
      <3>2. PICK n \in v.todo : \E c \in ConvIds(n) :
                 \/ Become(o, [v EXCEPT !.todo = @ \ {n}])
                 \/ Become(o, [v EXCEPT !.pc = "killRead", !.name = n, !.conv = c,
                                        !.todo = @ \ {n}])
        BY <2>3
      <3>3. PICK c \in ConvIds(n) :
                 \/ Become(o, [v EXCEPT !.todo = @ \ {n}])
                 \/ Become(o, [v EXCEPT !.pc = "killRead", !.name = n, !.conv = c,
                                        !.todo = @ \ {n}])
        BY <3>2
      <3>4. n \in Name /\ c \in Conv \union {None} /\ v.todo \ {n} \in SUBSET Name
        BY <3>1, <3>3, ConvIdsType
      <3> DEFINE x == [v EXCEPT !.todo = @ \ {n}]
                 y == [v EXCEPT !.pc = "killRead", !.name = n, !.conv = c, !.todo = @ \ {n}]
      <3> HIDE DEF v
      <3>5. x \in OpRecord /\ x.pc = "relaunch" /\ ~Staged(x)
        BY <2>1, <3>4 DEF OpRecord, Staged
      <3>6. y \in OpRecord /\ y.pc = "killRead" /\ y.name \in Name /\ ~Staged(y)
        BY <2>1, <3>4, Literals DEF OpRecord, Staged
      <3> HIDE DEF x, y
      <3>7. CASE Become(o, x)
        BY <2>0, <3>5, <3>7, QuietAdvances DEF Naming
      <3>8. CASE Become(o, y)
        BY <2>0, <3>6, <3>8, QuietAdvances DEF Naming
      <3> QED BY <3>3, <3>7, <3>8 DEF x, y
    <2> QED BY <1>12, <2>2, <2>3 DEF RelaunchNext
  <1> QED BY <1>2, <1>3, <1>4, <1>5, <1>6, <1>7, <1>8, <1>9, <1>10, <1>11, <1>12
          DEF Step

\* A step that admits a request.
LEMMA StartAdvances ==
  ASSUME TypeOK, ControlInv, NEW o \in Op, Start(o)
  PROVE  Advances(o)
  <1> USE Literals
  <1>f. Free \in OpRecord /\ Free.owed = None /\ Free.pc = "free"
    BY FreeType DEF Free
  <1>a. ActiveProfileName \in Profile \union {None}
        /\ (ActiveProfileName # None => ActiveProfileName = settings)
    BY RequestFacts
  <1>r. op[o].pc = "free" => ~Staged(op[o])
    BY RequestFacts DEF ControlOf
  <1>1. ASSUME NEW n \in Name \union {None}, StartNew(o, n)
        PROVE  Advances(o)
    <2>1. PICK c \in FreshConvs :
            Become(o, [Free EXCEPT !.kind = "new", !.pc = "launch", !.name = n,
                                   !.conv = c, !.active = ActiveProfileName])
      BY <1>1 DEF StartNew
    <2> DEFINE w == [Free EXCEPT !.kind = "new", !.pc = "launch", !.name = n,
                                 !.conv = c, !.active = ActiveProfileName]
    <2>2. c \in Conv
      BY DEF FreshConvs
    <2>3. w \in OpRecord /\ w.pc = "launch" /\ w.active = ActiveProfileName /\ ~Staged(w)
      BY <1>f, <1>a, <2>2 DEF OpRecord, Staged
    <2>4. op[o].pc = "free" /\ settings' = settings /\ Become(o, w)
      BY <1>1, <2>1 DEF StartNew, Admit
    <2> HIDE DEF w
    <2> QED BY <1>a, <1>r, <2>3, <2>4, QuietAdvances DEF Naming
  <1>2. ASSUME NEW n \in Name \union {None}, NEW p \in Profile, StartNewWith(o, n, p)
        PROVE  Advances(o)
    <2>1. PICK c \in FreshConvs :
            Apply(o, [Free EXCEPT !.kind = "newWith", !.name = n, !.conv = c, !.active = p],
                  p, "user", "launch")
      BY <1>2 DEF StartNewWith
    <2> DEFINE w == [Free EXCEPT !.kind = "newWith", !.name = n, !.conv = c, !.active = p]
    <2>2. c \in Conv
      BY DEF FreshConvs
    <2>3. w \in OpRecord /\ w.active = p /\ ~Staged(w)
      BY <1>f, <2>2 DEF OpRecord, Staged
    <2> HIDE DEF w
    <2> QED BY <2>1, <2>3, ChooseAdvances DEF w
  <1>3. ASSUME NEW n \in Name, StartKill(o, n)
        PROVE  Advances(o)
    <2> DEFINE w == [Free EXCEPT !.kind = "kill", !.pc = "killRead", !.name = n]
    <2>1. w \in OpRecord /\ w.pc = "killRead" /\ w.name = n /\ ~Staged(w)
      BY <1>f DEF OpRecord, Staged
    <2>2. op[o].pc = "free" /\ settings' = settings /\ Become(o, w)
      BY <1>3 DEF StartKill, Admit
    <2> HIDE DEF w
    <2> QED BY <1>r, <2>1, <2>2, QuietAdvances
  <1>4. ASSUME NEW n \in Name, StartRc(o, n)
        PROVE  Advances(o)
    <2> DEFINE w == [Free EXCEPT !.kind = "rc", !.name = n, !.active = ActiveProfileName]
    <2>1. w \in OpRecord /\ w.name = n /\ w.active = ActiveProfileName /\ ~Staged(w)
      BY <1>f, <1>a DEF OpRecord, Staged
    <2>2. op[o].pc = "free"
      BY <1>4 DEF StartRc, Admit
    <2>3. \/ RequiresStaging(w.active) /\ Apply(o, w, Boot, "stage", "rcSend")
          \/ Become(o, At(w, "rcSend")) /\ settings' = settings
      BY <1>4 DEF StartRc
    <2> HIDE DEF w
    <2>4. CASE RequiresStaging(w.active) /\ Apply(o, w, Boot, "stage", "rcSend")
      BY <1>a, <1>r, <2>1, <2>2, <2>4, StageAdvances DEF RequiresStaging
    <2>5. CASE Become(o, At(w, "rcSend")) /\ settings' = settings
      BY <1>r, <2>1, <2>2, <2>5, AtAdvances
    <2> QED BY <2>3, <2>4, <2>5
  <1>5. ASSUME NEW c \in Conv, StartResume(o, c)
        PROVE  Advances(o)
    <2> DEFINE w == [Free EXCEPT !.kind = "resume", !.pc = "resCheck", !.conv = c]
    <2>1. w \in OpRecord /\ w.pc = "resCheck" /\ ~Staged(w)
      BY <1>f DEF OpRecord, Staged
    <2>2. op[o].pc = "free" /\ settings' = settings /\ Become(o, w)
      BY <1>5 DEF StartResume, Admit
    <2> HIDE DEF w
    <2> QED BY <1>r, <2>1, <2>2, QuietAdvances DEF Naming
  <1>6. ASSUME NEW p \in Profile, StartProfile(o, p)
        PROVE  Advances(o)
    <2> DEFINE w == [Free EXCEPT !.kind = "profile", !.active = p, !.old = CredOf(settings)]
    <2>1. w \in OpRecord /\ w.active = p /\ ~Staged(w)
      BY <1>f, CredOfType DEF OpRecord, Staged
    <2>2. Apply(o, w, p, "user", "switched")
      BY <1>6 DEF StartProfile
    <2> HIDE DEF w
    <2> QED BY <2>1, <2>2, ChooseAdvances
  <1> QED BY <1>1, <1>2, <1>3, <1>4, <1>5, <1>6 DEF Start

-----------------------------------------------------------------------------
(* The end of a write *)

\* Where the request goes, and what it then owes.
LEMMA EndWriteRecord ==
  ASSUME TypeOK, ControlInv, NEW o \in Op, EndWrite(o)
  PROVE  \E w \in OpRecord :
           /\ Become(o, w) /\ ControlOf(w)
           /\ w.pc = op[o].after /\ w.pc # "write"
           /\ op[o].role = "stage" => Staged(w) /\ w.active = op[o].active
           /\ op[o].role # "stage" =>
                ~Staged(w) /\ (w.pc # "free" => w.active = op[o].active)
  <1> DEFINE r == op[o]
             owed == IF r.role = "stage" THEN r.active ELSE None
             v == Written(r, owed)
             w == At(v, r.after)
  <1> USE Literals
  <1>0. r.pc = "write" /\ Become(o, w)
    BY DEF EndWrite
  <1>1. /\ r \in OpRecord /\ ControlOf(r)
        /\ r.after \in PCs /\ r.role \in Roles /\ owed \in Profile \union {None}
    BY RequestFacts DEF OpRecord
  <1>2. v \in OpRecord /\ w \in OpRecord
    BY <1>1, WrittenType, AtType
  <1>3. v.owed = owed /\ v.active = r.active /\ v.name = r.name /\ v.role = "user"
    BY <1>1 DEF Written, OpRecord
  <1>4. /\ w.pc = r.after
        /\ r.after # "free" => w.owed = owed /\ w.active = r.active /\ w.name = r.name
        /\ r.after = "free" => w.owed = None
    <2>1. CASE r.after = "free"
      BY <2>1 DEF At, Free
    <2>2. CASE r.after # "free"
      <3>1. w = [v EXCEPT !.pc = r.after]
        BY <2>2 DEF At
      <3> HIDE DEF v, w
      <3>2. w.pc = r.after /\ w.owed = v.owed /\ w.active = v.active /\ w.name = v.name
        BY <1>2, <3>1 DEF OpRecord
      <3> QED BY <1>3, <2>2, <3>2
    <2> QED BY <2>1, <2>2
  <1> HIDE DEF v, w
  <1>5. r.role = "stage" => owed = r.active /\ owed \in Profile
                            /\ r.after \in {"spawn", "kill", "rcSend"}
    BY <1>0, <1>1 DEF ControlOf
  <1>6. r.role # "stage" => owed = None
                            /\ r.after \in {"launch", "switched", "free", "relaunch",
                                            "resCheck", "rcDecide"}
    BY <1>0, <1>1 DEF ControlOf, Roles
  <1>7. r.after \in {"kill", "rcSend", "rcDecide"} => r.name \in Name
    BY <1>0, <1>1 DEF ControlOf
  <1>8. ControlOf(w)
    <2>1. CASE r.role = "stage"
      BY <1>4, <1>5, <1>7, <2>1 DEF ControlOf, Staged
    <2>2. CASE r.role # "stage"
      BY <1>4, <1>6, <1>7, <2>2 DEF ControlOf, Staged
    <2> QED BY <2>1, <2>2
  <1>9. Staged(w) <=> w.owed # None
    BY DEF Staged
  <1> QED BY <1>0, <1>2, <1>4, <1>5, <1>6, <1>8, <1>9, ProfileAssumption

\* What settings.json then holds.
LEMMA EndWriteSettings ==
  ASSUME TypeOK, ControlInv, NEW o \in Op, EndWrite(o)
  PROVE  /\ op[o].write \in Profile
         /\ settings' \in Content \ {Torn}
         /\ settings = Torn => settings' = op[o].write
  <1>1. op[o].pc = "write" /\ op[o].write \in Profile
    BY RequestFacts DEF EndWrite, ControlOf
  <1>2. settings' \in Landings(op[o].write)
    BY DEF EndWrite
  <1> QED BY <1>1, <1>2, ProfileAssumption DEF Landings, Content

-----------------------------------------------------------------------------
(* Type correctness *)

\* A request's step keeps the other requests, and its own record well formed.
LEMMA AdvancesType ==
  ASSUME TypeOK, ControlInv, NEW o \in Op, Advances(o)
  PROVE  op' \in [Op -> OpRecord] /\ settings' \in Content /\ ControlInv'
  <1>1. PICK w \in OpRecord :
          Become(o, w) /\ ControlOf(w) /\ (settings' = Torn \/ settings' = settings)
    BY DEF Advances
  <1>2. op \in [Op -> OpRecord] /\ settings \in Content
    BY DEF TypeOK
  <1>3. \A q \in Op : op'[q] = IF q = o THEN w ELSE op[q]
    BY <1>1, <1>2 DEF Become
  <1> QED BY <1>1, <1>2, <1>3, BecomeType DEF Content, ControlInv

\* So does the end of a write.
LEMMA EndWriteType ==
  ASSUME TypeOK, ControlInv, NEW o \in Op, EndWrite(o)
  PROVE  op' \in [Op -> OpRecord] /\ ControlInv'
  <1>1. PICK w \in OpRecord : Become(o, w) /\ ControlOf(w)
    BY EndWriteRecord
  <1>2. op \in [Op -> OpRecord]
    BY DEF TypeOK
  <1>3. \A q \in Op : op'[q] = IF q = o THEN w ELSE op[q]
    BY <1>1, <1>2 DEF Become
  <1> QED BY <1>1, <1>2, <1>3, BecomeType DEF ControlInv

\* A request's step leaves every session a session.
LEMMA SessionsType ==
  ASSUME TypeOK, ControlInv, NEW o \in Op, Step(o)
  PROVE  sessions' \in [Name -> LiveSession \union {Dead}]
  <1> DEFINE r == op[o]
  <1>r. r \in OpRecord /\ ControlOf(r) /\ sessions \in [Name -> LiveSession \union {Dead}]
    BY RequestFacts DEF TypeOK
  <1>1. CASE Spawn(o)
    <2>0. PICK n \in (IF r.name = None THEN Name ELSE {r.name}) :
            \E tui \in {"idle"} \union (IF "dialog" \in Env THEN {"dialog"} ELSE {}) :
              sessions' = [sessions EXCEPT ![n] = NewSessionRecord(r.conv, tui)]
      BY <1>1, Zenon DEF Spawn
    <2>1. PICK tui \in {"idle", "dialog"} :
            sessions' = [sessions EXCEPT ![n] = NewSessionRecord(r.conv, tui)]
      BY <2>0
    <2>2. NewSessionRecord(r.conv, tui) \in LiveSession
      BY <1>r, NewSessionType DEF OpRecord
    <2> QED BY <1>r, <2>1, <2>2
  <1>2. CASE Kill(o)
    BY <1>r, <1>2 DEF Kill
  <1>3. CASE RcSend(o)
    <2>1. CASE Alive(r.name)
      BY <1>3, <1>r, <2>1, AliveType, LiveSessionUpdates DEF RcSend, ControlOf
    <2>2. CASE ~Alive(r.name)
      BY <1>3, <1>r, <2>2 DEF RcSend
    <2> QED BY <2>1, <2>2
  <1>4. CASE RelaunchNext(o)
    <2>1. \/ sessions' = sessions
          \/ \E n \in [r EXCEPT !.name = None, !.conv = None, !.active = None].todo :
               Alive(n) /\ sessions' = [sessions EXCEPT ![n].spared = TRUE]
      BY <1>4 DEF RelaunchNext
    <2>2. [r EXCEPT !.name = None, !.conv = None, !.active = None].todo \subseteq Name
      BY <1>r DEF OpRecord
    <2>3. ASSUME NEW n \in Name, Alive(n),
                 sessions' = [sessions EXCEPT ![n].spared = TRUE]
          PROVE  sessions' \in [Name -> LiveSession \union {Dead}]
      <3>1. [sessions[n] EXCEPT !.spared = TRUE] \in LiveSession
        BY <2>3, AliveType, LiveSessionUpdates
      <3> QED BY <1>r, <2>3, <3>1
    <2> QED BY <1>r, <2>1, <2>2, <2>3
  <1>5. CASE ~(Spawn(o) \/ Kill(o) \/ RcSend(o) \/ RelaunchNext(o))
    <2>1. sessions' = sessions
      BY <1>5 DEF Step, EndWrite, Launch, SpawnFails, WaitEnds, KillRead, ResCheck,
                  RcDecide, Switched
    <2> QED BY <1>r, <2>1
  <1> QED BY <1>1, <1>2, <1>3, <1>4, <1>5

\* No step of a request changes transcripts; only a failed spawn counts as a
\* fault; only the end of a write touches the history variables.
LEMMA StepFrame ==
  ASSUME TypeOK, ControlInv, NEW o \in Op, Start(o) \/ Step(o)
  PROVE  /\ transcripts' = transcripts
         /\ faults' \in 0..MaxFaults
         /\ ~EndWrite(o) => UNCHANGED ghosts
         /\ Start(o) => sessions' = sessions
  <1>0. faults \in 0..MaxFaults /\ MaxFaults \in Nat
    BY SwitchAssumption DEF TypeOK
  <1>1. CASE Start(o)
    BY <1>0, <1>1 DEF Start, StartNew, StartNewWith, StartKill, StartRc, StartResume,
                      StartProfile
  <1>2. CASE SpawnFails(o)
    <2>1. faults' = faults \/ (faults < MaxFaults /\ faults' = faults + 1)
      BY <1>2 DEF SpawnFails, MayFail
    <2> QED BY <1>0, <1>2, <2>1 DEF SpawnFails
  <1>3. CASE Step(o) /\ ~SpawnFails(o)
    <2>1. transcripts' = transcripts /\ faults' = faults /\ (~EndWrite(o) => UNCHANGED ghosts)
      BY <1>3 DEF Step, EndWrite, Launch, Spawn, WaitEnds, KillRead, Kill, ResCheck,
                  RcSend, RcDecide, Switched, RelaunchNext
    <2>2. ~Start(o) \/ sessions' = sessions
      BY <1>1
    <2> QED BY <1>0, <2>1, <2>2
  <1> QED BY <1>1, <1>2, <1>3

\* Control states are kept when the file and the requests are left alone.
LEMMA RequestType ==
  ASSUME TypeOK, ControlInv, NEW o \in Op, Start(o) \/ Step(o)
  PROVE  TypeOK' /\ ControlInv'
  <1>1. sessions' \in [Name -> LiveSession \union {Dead}]
    BY StepFrame, SessionsType DEF TypeOK
  <1>2. transcripts' \subseteq Conv /\ faults' \in 0..MaxFaults
    BY StepFrame DEF TypeOK
  <1>3. CASE EndWrite(o)
    <2>1. op' \in [Op -> OpRecord] /\ ControlInv'
      BY <1>3, EndWriteType
    <2>2. settings' \in Content /\ op[o].write \in Profile /\ op[o].role \in Roles
      BY <1>3, EndWriteSettings, RequestFacts DEF OpRecord
    <2>3. author' \in Roles /\ wanted' \in Profile \union {Edited}
      BY <1>3, <2>2 DEF EndWrite, TypeOK
    <2>4. hurt' \in BOOLEAN
      BY <1>3, Zenon DEF EndWrite
    <2>5. clashed' \subseteq Op /\ landed' \in Profile \union {Edited, None}
      BY <1>3, <2>2 DEF EndWrite, OtherWriters, TypeOK
    <2> QED BY <1>1, <1>2, <2>1, <2>2, <2>3, <2>4, <2>5 DEF TypeOK
  <1>4. CASE ~EndWrite(o)
    <2>1. Advances(o) /\ UNCHANGED ghosts
      BY <1>4, StartAdvances, StepAdvances, StepFrame
    <2>2. op' \in [Op -> OpRecord] /\ settings' \in Content /\ ControlInv'
      BY <2>1, AdvancesType
    <2> QED BY <1>1, <1>2, <2>1, <2>2 DEF TypeOK, ghosts
  <1> QED BY <1>3, <1>4

-----------------------------------------------------------------------------
(* The Claude processes, the user and the host *)

\* A write that fails leaves its request neither writing nor staged.
LEMMA WriteFailsRecord ==
  ASSUME TypeOK, ControlInv, NEW o \in Op, WriteFails(o)
  PROVE  \E w \in OpRecord :
           /\ Become(o, w) /\ ControlOf(w) /\ ~Staged(w)
           /\ w.pc \in {"free", "relaunch", "resCheck"}
  <1> DEFINE r == op[o]
             next == IF r.role = "restore" /\ r.after # "rcDecide" THEN r.after ELSE OnError(r)
             v == Written(r, None)
             w == At(v, next)
  <1> USE Literals
  <1>1. r \in OpRecord /\ ControlOf(r) /\ r.pc = "write" /\ Become(o, w)
    BY RequestFacts DEF WriteFails
  <1>2. next \in {"free", "relaunch", "resCheck"}
    BY <1>1 DEF ControlOf, OnError
  <1>3. v \in OpRecord /\ v.owed = None
    BY <1>1, WrittenType DEF Written, OpRecord
  <1> HIDE DEF v
  <1>4. w \in OpRecord
    BY <1>2, <1>3, AtType
  <1>5. w.pc = next /\ w.owed = None
    BY <1>2, <1>3 DEF At, Free, OpRecord
  <1> HIDE DEF w, next
  <1>6. ControlOf(w) /\ ~Staged(w)
    BY <1>2, <1>5 DEF ControlOf, Staged
  <1> QED BY <1>1, <1>2, <1>4, <1>5, <1>6

\* What happens around the requests keeps every variable in its type.
LEMMA EnvironmentType ==
  ASSUME TypeOK, ControlInv, Environment
  PROVE  TypeOK' /\ ControlInv'
  <1> USE SwitchAssumption
  <1>t. /\ sessions \in [Name -> LiveSession \union {Dead}]
        /\ op \in [Op -> OpRecord] /\ faults \in 0..MaxFaults /\ MaxFaults \in Nat
    BY DEF TypeOK
  <1>1. CASE Crash
    <2>1. Free \in OpRecord /\ ControlOf(Free)
      BY FreeType DEF Free, ControlOf, Staged
    <2>2. op' = [o \in Op |-> Free] /\ faults' \in 0..MaxFaults /\ hurt' = TRUE
      BY <1>1, <1>t DEF Crash, MayFail
    <2> QED BY <1>1, <2>1, <2>2 DEF Crash, TypeOK, ControlInv
  <1>2. ASSUME NEW o \in Op, WriteFails(o)
        PROVE  TypeOK' /\ ControlInv'
    <2>1. PICK w \in OpRecord : Become(o, w) /\ ControlOf(w)
      BY <1>2, WriteFailsRecord
    <2>2. \A q \in Op : op'[q] = IF q = o THEN w ELSE op[q]
      BY <1>t, <2>1 DEF Become
    <2>3. op' \in [Op -> OpRecord] /\ ControlInv'
      BY <1>t, <2>1, <2>2, BecomeType DEF ControlInv
    <2>4. faults' \in 0..MaxFaults /\ hurt' = TRUE
      BY <1>2, <1>t DEF WriteFails, MayFail
    <2>5. clashed' \subseteq Op /\ landed' \in Profile \union {Edited, None}
      BY <1>2 DEF WriteFails, OtherWriters, TypeOK
    <2> QED BY <1>2, <2>3, <2>4, <2>5 DEF WriteFails, TypeOK
  <1>3. ASSUME NEW n \in Name,
               Turn(n) \/ TurnEnds(n) \/ DialogOpens(n) \/ DialogAnswered(n)
               \/ BridgeChanges(n) \/ SessionExits(n) \/ StartedByHand(n)
        PROVE  TypeOK' /\ ControlInv'
    <2>1. UNCHANGED <<settings, op, faults, ghosts>>
      BY <1>3 DEF Turn, TurnEnds, DialogOpens, DialogAnswered, BridgeChanges, SessionExits,
                  StartedByHand
    <2>2. sessions' \in [Name -> LiveSession \union {Dead}] /\ transcripts' \subseteq Conv
      <3>1. CASE Turn(n)
        <4> DEFINE cred == IF sessions[n].cred = None THEN CredOf(settings)
                           ELSE sessions[n].cred
        <4>0. Alive(n)
          BY <3>1 DEF Turn
        <4>1. sessions[n] \in LiveSession
          BY <4>0, AliveType
        <4>2. cred \in Credential \union {None}
          BY <4>1, CredOfType DEF LiveSession
        <4>3. [sessions[n] EXCEPT !.tui = "working", !.cred = cred] \in LiveSession
          BY <4>1, <4>2 DEF LiveSession
        <4>4. sessions' = [sessions EXCEPT
                             ![n] = [sessions[n] EXCEPT !.tui = "working", !.cred = cred]]
          BY <1>t, <3>1 DEF Turn
        <4>5. sessions[n].conv \in Conv \union {None} /\ transcripts \subseteq Conv
          BY <4>1 DEF LiveSession, TypeOK
        <4>6. transcripts' \subseteq Conv
          BY <3>1, <4>5 DEF Turn
        <4> QED BY <1>t, <4>3, <4>4, <4>6
      <3>2. ASSUME NEW tui \in {"idle", "working", "dialog"}, Alive(n),
                   sessions' = [sessions EXCEPT ![n].tui = tui], transcripts' = transcripts
            PROVE  sessions' \in [Name -> LiveSession \union {Dead}]
                   /\ transcripts' \subseteq Conv
        <4>1. [sessions[n] EXCEPT !.tui = tui] \in LiveSession
          BY <3>2, AliveType, LiveSessionUpdates
        <4> QED BY <1>t, <3>2, <4>1 DEF TypeOK
      <3>3. CASE TurnEnds(n) \/ DialogOpens(n) \/ DialogAnswered(n)
        BY <3>2, <3>3 DEF TurnEnds, DialogOpens, DialogAnswered
      <3>4. CASE BridgeChanges(n)
        <4>0. Alive(n)
          BY <3>4 DEF BridgeChanges
        <4>1. sessions[n] \in LiveSession /\ (~sessions[n].bridge) \in BOOLEAN
          BY <4>0, AliveType DEF LiveSession
        <4>2. [sessions[n] EXCEPT !.bridge = ~sessions[n].bridge] \in LiveSession
          BY <4>1, LiveSessionUpdates
        <4> QED BY <1>t, <3>4, <4>2 DEF BridgeChanges, TypeOK
      <3>5. CASE SessionExits(n)
        BY <1>t, <3>5 DEF SessionExits, TypeOK
      <3>6. CASE StartedByHand(n)
        <4>1. NewSessionRecord(None, "idle") \in LiveSession
          BY NewSessionType
        <4> QED BY <1>t, <3>6, <4>1 DEF StartedByHand, TypeOK
      <3> QED BY <1>3, <3>1, <3>3, <3>4, <3>5, <3>6
    <2> QED BY <2>1, <2>2 DEF TypeOK, ControlInv, ghosts
  <1> QED BY <1>1, <1>2, <1>3 DEF Environment

-----------------------------------------------------------------------------
(* The theorems *)

\* The initial state is well formed.
LEMMA InitType == Init => TypeOK /\ ControlInv
  <1> SUFFICES ASSUME Init PROVE TypeOK /\ ControlInv
    OBVIOUS
  <1>1. Free \in OpRecord /\ ControlOf(Free)
    BY FreeType DEF Free, ControlOf, Staged
  <1>2. 0 \in 0..MaxFaults
    BY SwitchAssumption
  <1> QED BY <1>1, <1>2 DEF Init, TypeOK, ControlInv, Content, Roles

\* Every step keeps types and control.
LEMMA NextType ==
  TypeOK /\ ControlInv /\ [Next]_vars => TypeOK' /\ ControlInv'
  <1>1. ASSUME TypeOK, ControlInv, Next
        PROVE  TypeOK' /\ ControlInv'
    BY <1>1, RequestType, EnvironmentType DEF Next
  <1>2. ASSUME TypeOK, ControlInv, UNCHANGED vars
        PROVE  TypeOK' /\ ControlInv'
    BY <1>2 DEF vars, TypeOK, ControlInv
  <1> QED BY <1>1, <1>2

\* Every variable keeps its type, whatever requests, sessions, interleavings and
\* faults there are.
THEOREM TypeCorrect == Spec => []TypeOK
  <1>1. Spec => [](TypeOK /\ ControlInv)
    BY InitType, NextType, PTL DEF Spec
  <1> QED BY <1>1, PTL

-----------------------------------------------------------------------------
(* The file is never forgotten in its staged state, nor left mixed *)

\* A step that changes no more than the sessions changes nothing here.
LEMMA QuietEnvironment ==
  ASSUME Environment, ~Crash, \A o \in Op : ~WriteFails(o)
  PROVE  UNCHANGED <<settings, op, ghosts>>
  BY DEF Environment, Turn, TurnEnds, DialogOpens, DialogAnswered, BridgeChanges,
         SessionExits, StartedByHand

\* A request is started when it is free; its other steps are neither that nor
\* taken while it writes.
LEMMA ControlPoint ==
  ASSUME TypeOK, NEW o \in Op
  PROVE  /\ Start(o) => op[o].pc = "free" /\ (Serial => \A q \in Op : op[q].pc = "free")
         /\ Step(o) => op[o].pc # "free" /\ (~EndWrite(o) => op[o].pc # "write")
  <1>1. ASSUME Start(o)
        PROVE  op[o].pc = "free" /\ (Serial => \A q \in Op : op[q].pc = "free")
    BY <1>1 DEF Start, StartNew, StartNewWith, StartKill, StartRc, StartResume, StartProfile,
            Admit
  <1>2. CASE RelaunchNext(o)
    <2> DEFINE v == [op[o] EXCEPT !.name = None, !.conv = None, !.active = None]
    <2>1. v.pc = "relaunch"
      BY <1>2 DEF RelaunchNext
    <2>2. v.pc = op[o].pc
      BY DEF TypeOK, OpRecord
    <2>3. op[o].pc = "relaunch"
      BY <2>1, <2>2
    <2> QED BY <1>1, <2>3
  <1>3. ASSUME Step(o), ~RelaunchNext(o)
        PROVE  op[o].pc # "free" /\ (~EndWrite(o) => op[o].pc # "write")
    BY <1>3 DEF Step, EndWrite, Launch, Spawn, SpawnFails, WaitEnds, KillRead, Kill,
            ResCheck, RcSend, RcDecide, Switched
  <1> QED BY <1>1, <1>2, <1>3

\* One step keeps the debt of a staged file.
LEMMA NextOwed ==
  ASSUME TypeOK, ControlInv, NoOrphanStaging, Next
  PROVE  NoOrphanStaging'
  <1>t. op \in [Op -> OpRecord]
    BY DEF TypeOK
  <1>1. ASSUME NEW o \in Op, EndWrite(o)
        PROVE  NoOrphanStaging'
    <2>1. PICK w \in OpRecord : Become(o, w) /\ (op[o].role = "stage" => Staged(w))
      BY <1>1, EndWriteRecord
    <2>2. op'[o] = w
      BY <1>t, <2>1 DEF Become
    <2>3. author' = op[o].role
      BY <1>1 DEF EndWrite
    <2> QED BY <2>1, <2>2, <2>3 DEF NoOrphanStaging, Staged
  <1>2. ASSUME NEW o \in Op, Start(o) \/ Step(o), ~EndWrite(o)
        PROVE  NoOrphanStaging'
    <2>1. Advances(o) /\ UNCHANGED ghosts
      BY <1>2, StartAdvances, StepAdvances, StepFrame
    <2>2. PICK w \in OpRecord :
            /\ Become(o, w)
            /\ \/ settings' = Torn /\ w.pc = "write"
               \/ settings' = settings /\ (Staged(w) <=> Staged(op[o]))
      BY <2>1 DEF Advances
    <2>3. \A q \in Op : op'[q] = IF q = o THEN w ELSE op[q]
      BY <1>t, <2>2 DEF Become
    <2>4. CASE settings' = Torn
      BY <2>4, ProfileAssumption DEF NoOrphanStaging
    <2>5. CASE settings' = settings /\ (Staged(w) <=> Staged(op[o]))
      <3>1. \A q \in Op : Staged(op[q]) <=> Staged(op'[q])
        BY <2>3, <2>5
      <3> QED BY <2>1, <2>5, <3>1 DEF NoOrphanStaging, ghosts, Staged
    <2> QED BY <2>2, <2>4, <2>5
  <1>3. CASE Crash \/ \E o \in Op : WriteFails(o)
    BY <1>3 DEF Crash, WriteFails, NoOrphanStaging
  <1>4. CASE Environment /\ ~Crash /\ \A o \in Op : ~WriteFails(o)
    BY <1>4, QuietEnvironment DEF NoOrphanStaging, Staged, ghosts
  <1> QED BY <1>1, <1>2, <1>3, <1>4 DEF Next

\* When a write ends or fails, those that were under way count as overlapped.
LEMMA OthersClash ==
  ASSUME TypeOK, NEW o \in Op, NEW w \in OpRecord, w.pc # "write", Become(o, w),
         clashed' = (clashed \ {o}) \union OtherWriters(o)
  PROVE  /\ \A q \in Op : op'[q].pc = "write" => q \in clashed'
         /\ OtherWriters(o) # {} <=> \E q \in Op : op'[q].pc = "write"
  <1>1. \A q \in Op : op'[q] = IF q = o THEN w ELSE op[q]
    BY DEF TypeOK, Become
  <1> QED BY <1>1 DEF OtherWriters

\* One step keeps the file whole.
LEMMA NextWhole ==
  ASSUME TypeOK, ControlInv, WriterAlone, FileWhole, Next
  PROVE  WriterAlone' /\ FileWhole'
  <1>t. op \in [Op -> OpRecord]
    BY DEF TypeOK
  <1>1. ASSUME NEW o \in Op, EndWrite(o)
        PROVE  WriterAlone' /\ FileWhole'
    <2>1. PICK w \in OpRecord : Become(o, w) /\ w.pc # "write"
      BY <1>1, EndWriteRecord
    <2>2. /\ op[o].pc = "write" /\ settings' \in Landings(op[o].write)
          /\ clashed' = (clashed \ {o}) \union OtherWriters(o)
          /\ landed' = IF o \in clashed \/ OtherWriters(o) # {} THEN None ELSE op[o].write
      BY <1>1 DEF EndWrite
    <2>3. WriterAlone'
      BY <2>1, <2>2, OthersClash DEF WriterAlone
    <2>4. CASE o \in clashed \/ OtherWriters(o) # {}
      BY <2>2, <2>3, <2>4 DEF FileWhole
    <2>5. CASE ~(o \in clashed \/ OtherWriters(o) # {})
      <3>1. settings = Torn
        BY <2>2, <2>5 DEF WriterAlone
      <3>2. Landings(op[o].write) = {op[o].write}
        BY <3>1, ProfileAssumption DEF Landings
      <3> QED BY <2>2, <2>3, <2>5, <3>2 DEF FileWhole
    <2> QED BY <2>4, <2>5, <2>3
  <1>2. ASSUME NEW o \in Op, Start(o) \/ Step(o), ~EndWrite(o)
        PROVE  WriterAlone' /\ FileWhole'
    <2>1. Advances(o) /\ UNCHANGED <<clashed, landed>>
      BY <1>2, StartAdvances, StepAdvances, StepFrame DEF ghosts
    <2>2. PICK w \in OpRecord :
            /\ Become(o, w)
            /\ \/ settings' = Torn /\ w.pc = "write"
               \/ settings' = settings /\ w.pc # "write"
      BY <2>1 DEF Advances
    <2>3. \A q \in Op : op'[q] = IF q = o THEN w ELSE op[q]
      BY <1>t, <2>2 DEF Become
    <2>4. op[o].pc # "write"
      BY <1>2, ControlPoint
    <2>5. CASE settings' = Torn /\ w.pc = "write"
      BY <2>3, <2>5 DEF WriterAlone, FileWhole
    <2>6. CASE settings' = settings /\ w.pc # "write"
      <3>1. \A q \in Op : op'[q].pc = "write" <=> op[q].pc = "write"
        BY <2>3, <2>4, <2>6
      <3> QED BY <2>1, <2>6, <3>1 DEF WriterAlone, FileWhole
    <2> QED BY <2>2, <2>5, <2>6
  <1>3. CASE Crash
    BY <1>3 DEF Crash, WriterAlone, FileWhole, Free
  <1>4. ASSUME NEW o \in Op, WriteFails(o)
        PROVE  WriterAlone' /\ FileWhole'
    <2>1. PICK w \in OpRecord : Become(o, w) /\ w.pc # "write"
      BY <1>4, WriteFailsRecord
    <2>2. clashed' = (clashed \ {o}) \union OtherWriters(o) /\ landed' = None
      BY <1>4 DEF WriteFails
    <2> QED BY <2>1, <2>2, OthersClash DEF WriterAlone, FileWhole
  <1>5. CASE Environment /\ ~Crash /\ \A o \in Op : ~WriteFails(o)
    BY <1>5, QuietEnvironment DEF WriterAlone, FileWhole, ghosts
  <1> QED BY <1>1, <1>2, <1>3, <1>4, <1>5 DEF Next

\* The invariant that carries both.
SafeInv == TypeOK /\ ControlInv /\ NoOrphanStaging /\ WriterAlone /\ FileWhole

\* It is inductive.
LEMMA Safe == Spec => []SafeInv
  <1>1. Init => SafeInv
    <2>1. Init => NoOrphanStaging /\ WriterAlone /\ FileWhole
      BY ProfileAssumption DEF Init, NoOrphanStaging, WriterAlone, FileWhole, Free
    <2> QED BY <2>1, InitType DEF SafeInv
  <1>2. SafeInv /\ [Next]_vars => SafeInv'
    <2>1. ASSUME SafeInv, Next PROVE SafeInv'
      BY <2>1, NextType, NextOwed, NextWhole DEF SafeInv
    <2>2. ASSUME SafeInv, UNCHANGED vars PROVE SafeInv'
      BY <2>2 DEF vars, SafeInv, TypeOK, ControlInv, NoOrphanStaging, WriterAlone, FileWhole,
                  Staged
    <2> QED BY <2>1, <2>2
  <1> QED BY <1>1, <1>2, PTL DEF Spec

\* However many requests interleave, and wherever they fail, the bootstrap
\* profile that staging put in settings.json is owed a restore.
THEOREM StagingOwed == Spec => []NoOrphanStaging
  <1>1. SafeInv => NoOrphanStaging
    BY DEF SafeInv
  <1> QED BY <1>1, Safe, PTL

\* And whatever writes overlapped, failed or were cut short before it, a write
\* that overlaps none leaves settings.json whole, and so it stays until the next.
THEOREM SoleWriteLands == Spec => []FileWhole
  <1>1. SafeInv => FileWhole
    BY DEF SafeInv
  <1> QED BY <1>1, Safe, PTL

-----------------------------------------------------------------------------
(* One request at a time *)

\* Only the requests other than the idle ones matter.
LEMMA IdleRequest ==
  ASSUME ControlInv, NEW o \in Op, op[o].pc = "free"
  PROVE  ~Staged(op[o]) /\ KeepsChoiceOf(op[o])
  <1>1. ControlOf(op[o])
    BY DEF ControlInv
  <1>2. ~Staged(op[o])
    BY <1>1 DEF ControlOf
  <1> QED BY <1>2 DEF KeepsChoiceOf

\* A request that has just moved to w, while the others are idle.
LEMMA MovedRequest ==
  ASSUME TypeOK, ControlInv, ControlInv', NEW o \in Op, NEW w \in OpRecord, Become(o, w),
         \A q \in Op : q # o => op[q].pc = "free",
         w.pc = "write" => settings' = Torn,
         w.pc # "write" /\ Staged(w) => settings' = Boot,
         ~hurt' => /\ w.pc \notin {"write"} /\ ~Staged(w) => settings' = wanted'
                   /\ Staged(w) \/ (w.pc = "write" /\ w.role # "user") => w.active = wanted'
                   /\ w.pc = "launch" => w.active \in {None, wanted'}
  PROVE  OneRequest' /\ KeepsChoice'
  <1>1. \A q \in Op : op'[q] = IF q = o THEN w ELSE op[q]
    BY DEF TypeOK, Become
  <1>2. \A q \in Op : q # o => op'[q].pc = "free"
    BY <1>1
  <1>3. \A q \in Op : q # o => ~Staged(op'[q])
    BY <1>1, IdleRequest
  <1>4. OneRequest'
    BY <1>1, <1>2, <1>3 DEF OneRequest, Staged
  <1>5. ASSUME ~hurt', op'[o].pc = "free"
        PROVE  settings' = wanted'
    <2>1. ControlOf(op'[o])
      BY DEF ControlInv, ControlOf, Staged
    <2>2. ~Staged(op'[o])
      BY <1>5, <2>1 DEF ControlOf
    <2> QED BY <1>1, <1>5, <2>2
  <1>6. ASSUME ~hurt', NEW q \in Op
        PROVE  KeepsChoiceOf(op[q])'
    <2>1. CASE q = o
      BY <1>1, <1>6, <2>1 DEF KeepsChoiceOf, Staged
    <2>2. CASE q # o
      BY <1>2, <1>3, <2>2 DEF KeepsChoiceOf, Staged
    <2> QED BY <2>1, <2>2
  <1>7. KeepsChoice'
    BY <1>5, <1>6 DEF KeepsChoice, Quiescent
  <1> QED BY <1>4, <1>7

\* One step of a single request keeps what it carries in agreement with the
\* user's last choice.
LEMMA NextSerial ==
  ASSUME Serial, TypeOK, ControlInv, OneRequest, KeepsChoice, Next
  PROVE  OneRequest' /\ KeepsChoice'
  <1>p. TypeOK' /\ ControlInv'
    BY NextType
  <1>o. ASSUME NEW o \in Op, Start(o) \/ Step(o)
        PROVE  \A q \in Op : q # o => op[q].pc = "free"
    BY <1>o, ControlPoint DEF OneRequest
  <1>1. ASSUME NEW o \in Op, EndWrite(o)
        PROVE  OneRequest' /\ KeepsChoice'
    <2> DEFINE r == op[o]
    <2>1. PICK w \in OpRecord :
            /\ Become(o, w) /\ w.pc = r.after /\ w.pc # "write"
            /\ r.role = "stage" => Staged(w) /\ w.active = r.active
            /\ r.role # "stage" => ~Staged(w) /\ (w.pc # "free" => w.active = r.active)
      BY <1>1, EndWriteRecord
    <2>2. r.pc = "write" /\ ControlOf(r) /\ r.role \in Roles
      BY <1>1, RequestFacts DEF EndWrite, OpRecord
    <2>3. settings' = r.write
      BY <1>1, <2>2, EndWriteSettings DEF OneRequest
    <2>4. /\ r.role = "user" => wanted' = r.write /\ r.active = r.write
          /\ r.role = "stage" => r.write = Boot /\ r.after # "launch"
          /\ r.role = "restore" => r.write = r.active /\ r.after # "launch"
      BY <1>1, <2>2 DEF EndWrite, ControlOf
    <2>w. r.role # "user" => wanted' = wanted /\ (~hurt' => ~hurt)
      BY <1>1, Zenon DEF EndWrite
    <2>5. ~hurt /\ r.role # "user" => r.active = wanted
      BY <2>2 DEF KeepsChoice, KeepsChoiceOf
    <2>6. CASE r.role = "user"
      BY <1>o, <1>1, <1>p, <2>1, <2>3, <2>4, <2>6, MovedRequest DEF Step
    <2>7. CASE r.role = "stage"
      BY <1>o, <1>1, <1>p, <2>1, <2>3, <2>4, <2>5, <2>w, <2>7, MovedRequest DEF Step
    <2>8. CASE r.role = "restore"
      BY <1>o, <1>1, <1>p, <2>1, <2>3, <2>4, <2>5, <2>w, <2>8, MovedRequest DEF Step
    <2> QED BY <2>2, <2>6, <2>7, <2>8 DEF Roles
  <1>2. ASSUME NEW o \in Op, Start(o) \/ Step(o), ~EndWrite(o)
        PROVE  OneRequest' /\ KeepsChoice'
    <2> DEFINE r == op[o]
    <2>1. Advances(o) /\ UNCHANGED ghosts
      BY <1>2, StartAdvances, StepAdvances, StepFrame
    <2>2. PICK w \in OpRecord :
            /\ Become(o, w) /\ ControlOf(w)
            /\ \/ settings' = Torn /\ w.pc = "write"
               \/ settings' = settings /\ w.pc # "write" /\ (Staged(w) <=> Staged(r))
            /\ w.pc = "write" /\ w.role = "stage" =>
                 /\ ~Staged(r)
                 /\ w.active = settings \/ (r.pc = "launch" /\ w.active = r.active)
            /\ Staged(w) => Staged(r) /\ w.active = r.active
            /\ w.pc = "launch" => w.active \in {None, settings}
      BY <2>1 DEF Advances
    <2>3. r.pc # "write" /\ ControlOf(r)
      BY <1>2, ControlPoint, RequestFacts
    <2>4. Staged(r) => settings = Boot
      BY <2>3 DEF OneRequest
    <2>5. ~hurt /\ ~Staged(r) => settings = wanted
      <3>1. CASE r.pc = "free"
        BY <1>2, <1>o, <3>1 DEF KeepsChoice, Quiescent
      <3>2. CASE r.pc # "free"
        BY <2>3, <3>2 DEF KeepsChoice, KeepsChoiceOf
      <3> QED BY <3>1, <3>2
    <2>6. ~hurt => /\ Staged(r) => r.active = wanted
                   /\ r.pc = "launch" => r.active \in {None, wanted}
      BY DEF KeepsChoice, KeepsChoiceOf
    <2>7. hurt' = hurt /\ wanted' = wanted
      BY <2>1 DEF ghosts
    <2>8. w.role \in Roles
      BY DEF OpRecord
    <2>9. w.pc # "write" /\ Staged(w) => settings' = Boot
      BY <2>2, <2>4
    <2>10. ~hurt /\ w.pc # "write" /\ ~Staged(w) => settings' = wanted
      BY <2>2, <2>5
    <2>11. ~hurt /\ (Staged(w) \/ (w.pc = "write" /\ w.role # "user")) => w.active = wanted
      <3>1. CASE Staged(w)
        BY <2>2, <2>6, <3>1
      <3>2. CASE ~Staged(w) /\ w.pc = "write" /\ w.role = "stage"
        <4>1. w.active \in Profile
          BY <2>2, <3>2 DEF ControlOf
        <4> QED BY <2>2, <2>5, <2>6, <3>2, <4>1, ProfileAssumption
      <3>3. w.pc = "write" /\ w.role = "restore" => Staged(w)
        BY <2>2 DEF ControlOf
      <3> QED BY <2>8, <3>1, <3>2, <3>3 DEF Roles
    <2>12. ~hurt /\ w.pc = "launch" => w.active \in {None, wanted}
      <3>1. w.pc = "launch" => ~Staged(w)
        BY <2>2 DEF ControlOf
      <3> QED BY <2>2, <2>5, <3>1
    <2> QED BY <1>o, <1>2, <1>p, <2>2, <2>7, <2>9, <2>10, <2>11, <2>12, MovedRequest
  <1>3. CASE Crash
    <2>1. \A o \in Op : op'[o].pc = "free" /\ ~Staged(op'[o])
      BY <1>3 DEF Crash, Free, Staged
    <2>2. hurt' = TRUE
      BY <1>3 DEF Crash
    <2> QED BY <2>1, <2>2 DEF OneRequest, KeepsChoice, Staged
  <1>4. ASSUME NEW o \in Op, WriteFails(o)
        PROVE  OneRequest' /\ KeepsChoice'
    <2>1. PICK w \in OpRecord : Become(o, w) /\ ~Staged(w) /\ w.pc # "write"
      BY <1>4, WriteFailsRecord
    <2>2. op[o].pc = "write" /\ hurt' = TRUE
      BY <1>4 DEF WriteFails
    <2>3. \A q \in Op : q # o => op[q].pc = "free"
      BY <2>2 DEF OneRequest
    <2> QED BY <1>p, <2>1, <2>2, <2>3, MovedRequest
  <1>5. CASE Environment /\ ~Crash /\ \A o \in Op : ~WriteFails(o)
    BY <1>5, QuietEnvironment
       DEF OneRequest, KeepsChoice, KeepsChoiceOf, Quiescent, Staged, ghosts
  <1> QED BY <1>1, <1>2, <1>3, <1>4, <1>5 DEF Next

\* The invariant of the one-request system.
SerialInv == SafeInv /\ (Serial => OneRequest /\ KeepsChoice)

\* It is inductive.
LEMMA SerialSafe == Spec => []SerialInv
  <1>1. Init => SerialInv
    <2> SUFFICES ASSUME Init PROVE OneRequest /\ KeepsChoice /\ SafeInv
      BY DEF SerialInv
    <2>1. SafeInv
      BY InitType, ProfileAssumption DEF Init, SafeInv, NoOrphanStaging, WriterAlone,
                                                FileWhole, Free
    <2>2. \A o \in Op : op[o].pc = "free" /\ ~Staged(op[o])
      BY DEF Init, Free, Staged
    <2>3. settings = wanted
      BY DEF Init
    <2> QED BY <2>1, <2>2, <2>3 DEF OneRequest, KeepsChoice, KeepsChoiceOf
  <1>2. SerialInv /\ [Next]_vars => SerialInv'
    <2>1. ASSUME SerialInv, Next PROVE SerialInv'
      BY <2>1, NextType, NextOwed, NextWhole, NextSerial DEF SerialInv, SafeInv
    <2>2. ASSUME SerialInv, UNCHANGED vars PROVE SerialInv'
      BY <2>2 DEF vars, SerialInv, SafeInv, TypeOK, ControlInv, NoOrphanStaging, WriterAlone,
                  FileWhole,
                  OneRequest, KeepsChoice, KeepsChoiceOf, Quiescent, Staged
    <2> QED BY <2>1, <2>2
  <1> QED BY <1>1, <1>2, PTL DEF Spec

\* When requests are made one at a time, settings.json ends up holding the
\* profile last chosen, whatever sessions were started, archived, resumed,
\* re-registered or relaunched since, and whichever of their steps failed.
THEOREM SerialRequestedState == Serial => (Spec => []EndsInRequestedState)
  <1> SUFFICES ASSUME Serial PROVE Spec => []EndsInRequestedState
    OBVIOUS
  <1>1. SerialInv => EndsInRequestedState
    BY DEF SerialInv, KeepsChoice, EndsInRequestedState
  <1> QED BY <1>1, SerialSafe, PTL

\* And everything that needs the bootstrap profile runs under it.
THEOREM SerialStagedUnderBoot == Serial => (Spec => []StagedUnderBoot)
  <1> SUFFICES ASSUME Serial PROVE Spec => []StagedUnderBoot
    OBVIOUS
  <1>1. SerialInv => StagedUnderBoot
    BY DEF SerialInv, OneRequest, StagedUnderBoot
  <1> QED BY <1>1, SerialSafe, PTL
-----------------------------------------------------------------------------
(* The register that settings.json is to its users                           *)

\* With one request at a time the choice being carried out is the one of the
\* request that writes it; undamaged, the profile in force is the last choice.
AskedIs ==
  /\ \A o \in Op : Choosing(o) => Asked = op[o].write
  /\ (\A o \in Op : ~Choosing(o)) => Asked = None

InForceIs == ~hurt => InForce = wanted

\* Both hold of every state of the one-request system.
LEMMA Observed ==
  ASSUME Serial, SerialInv
  PROVE  AskedIs /\ InForceIs
  <1>0. TypeOK /\ ControlInv /\ OneRequest /\ KeepsChoice
    BY DEF SerialInv, SafeInv
  <1>1. \A o, q \in Op : Choosing(o) /\ Choosing(q) => o = q
    BY <1>0 DEF OneRequest, Choosing
  <1>2. AskedIs
    <2>1. ASSUME NEW o \in Op, Choosing(o)
          PROVE  (CHOOSE q \in Op : Choosing(q)) = o
      <3>1. \A q \in Op : Choosing(q) => q = o
        BY <1>1, <2>1
      <3> HIDE DEF Choosing
      <3> QED BY <2>1, <3>1, Zenon
    <2>2. ASSUME NEW o \in Op, Choosing(o)
          PROVE  Asked = op[o].write
      <3> HIDE DEF Choosing
      <3>1. Asked = op[CHOOSE q \in Op : Choosing(q)].write
        BY <2>2, Zenon DEF Asked
      <3> QED BY <2>1, <2>2, <3>1
    <2>3. (\A o \in Op : ~Choosing(o)) => Asked = None
      BY Zenon DEF Asked
    <2> QED BY <2>2, <2>3 DEF AskedIs
  <1>x. ASSUME NEW o \in Op, NEW q \in Op, Choosing(o)
        PROVE  ~Staging(q)
    <2>1. op[o].pc = "write" /\ op[o].role = "user" /\ ControlOf(op[o]) /\ ControlOf(op[q])
      BY <1>0, <1>x DEF Choosing, ControlInv
    <2>2. ~Staged(op[o])
      BY <2>1 DEF ControlOf
    <2>3. CASE q = o
      BY <2>1, <2>2, <2>3 DEF Staging
    <2>4. CASE q # o
      <3>1. op[q].pc = "free"
        BY <1>0, <2>1, <2>4 DEF OneRequest
      <3> QED BY <2>1, <3>1 DEF Staging, ControlOf
    <2> QED BY <2>3, <2>4
  <1>3. ASSUME ~hurt PROVE InForce = wanted
    <2>1. CASE \E o \in Op : Choosing(o)
      <3>1. ~\E q \in Op : Staging(q)
        BY <1>x, <2>1
      <3> QED BY <2>1, <3>1, Zenon DEF InForce
    <2>2. CASE (\A o \in Op : ~Choosing(o)) /\ \E o \in Op : Staging(o)
      <3> DEFINE o == CHOOSE q \in Op : Staging(q)
      <3>1. o \in Op /\ Staging(o)
        BY <2>2, Zenon
      <3>2. InForce = op[o].active
        BY <2>2, Zenon DEF InForce
      <3> HIDE DEF o
      <3>3. KeepsChoiceOf(op[o])
        BY <1>0, <1>3, <3>1 DEF KeepsChoice
      <3>4. op[o].active = wanted
        BY <3>1, <3>3 DEF KeepsChoiceOf, Staging
      <3> QED BY <3>2, <3>4
    <2>3. CASE \A o \in Op : ~Choosing(o) /\ ~Staging(o)
      <3>1. InForce = settings
        BY <2>3, Zenon DEF InForce
      <3>2. CASE Quiescent
        BY <1>0, <1>3, <3>1, <3>2 DEF KeepsChoice
      <3>3. ASSUME NEW o \in Op, op[o].pc # "free"
            PROVE  settings = wanted
        <4>1. op[o] \in OpRecord /\ ControlOf(op[o]) /\ KeepsChoiceOf(op[o])
          BY <1>0, <1>3 DEF TypeOK, ControlInv, KeepsChoice
        <4>2. ~Staged(op[o]) /\ op[o].pc # "write"
          BY <2>3, <4>1 DEF Choosing, Staging, OpRecord, Roles, ControlOf
        <4> QED BY <3>3, <4>1, <4>2 DEF KeepsChoiceOf
      <3> QED BY <3>1, <3>2, <3>3 DEF Quiescent
    <2> QED BY <2>1, <2>2, <2>3
  <1> QED BY <1>2, <1>3 DEF InForceIs

\* A step that leaves an undamaged file asks, commits, or is not observed.
LEMMA NextRegister ==
  ASSUME Serial, SerialInv, AskedIs, InForceIs, SerialInv', AskedIs', InForceIs', Next, ~hurt'
  PROVE  [Register!Next]_<<InForce, Asked, ~hurt>>
  <1>0. /\ TypeOK /\ ControlInv /\ OneRequest
        /\ TypeOK' /\ ControlInv' /\ OneRequest'
    BY DEF SerialInv, SafeInv
  <1>t. op \in [Op -> OpRecord] /\ hurt \in BOOLEAN /\ hurt' = FALSE
    BY <1>0 DEF TypeOK
  <1>f. InForce' = wanted'
    BY DEF InForceIs
  <1>1. ASSUME NEW o \in Op, EndWrite(o)
        PROVE  [Register!Next]_<<InForce, Asked, ~hurt>>
    <2> DEFINE r == op[o]
    <2>1. PICK w \in OpRecord : Become(o, w) /\ w.pc # "write"
      BY <1>0, <1>1, EndWriteRecord
    <2>2. r.pc = "write" /\ ControlOf(r)
      BY <1>0, <1>1, RequestFacts DEF EndWrite
    <2>3. \A q \in Op : q # o => op[q].pc = "free"
      BY <1>0, <2>2 DEF OneRequest
    <2>4. Asked' = None
      <3>1. \A q \in Op : op'[q] = IF q = o THEN w ELSE op[q]
        BY <1>t, <2>1 DEF Become
      <3>2. \A q \in Op : op'[q].pc # "write"
        BY <2>1, <2>3, <3>1
      <3>3. \A q \in Op : ~Choosing(q)'
        BY <3>2 DEF Choosing
      <3> QED BY <3>3 DEF AskedIs
    <2>5. CASE r.role = "user"
      <3>1. Asked = r.write /\ r.write \in Profile
        BY <2>2, <2>5 DEF AskedIs, Choosing, ControlOf
      <3>2. wanted' = r.write
        BY <1>1, <2>5 DEF EndWrite
      <3>3. Register!Commit
        BY <1>t, <1>f, <2>4, <3>1, <3>2, ProfileAssumption DEF Register!Commit
      <3> QED BY <3>3 DEF Register!Next
    <2>6. CASE r.role # "user"
      <3>1. \A q \in Op : ~Choosing(q)
        BY <2>3, <2>6 DEF Choosing
      <3>2. Asked = None
        BY <3>1 DEF AskedIs
      <3>3. wanted' = wanted /\ hurt = FALSE
        BY <1>1, <1>t, <2>6, Zenon DEF EndWrite
      <3>4. InForce' = InForce
        BY <1>f, <3>3 DEF InForceIs
      <3> QED BY <1>t, <2>4, <3>2, <3>3, <3>4
    <2> QED BY <2>5, <2>6
  <1>2. ASSUME NEW o \in Op, Start(o) \/ Step(o), ~EndWrite(o)
        PROVE  [Register!Next]_<<InForce, Asked, ~hurt>>
    <2>1. UNCHANGED ghosts
      BY <1>0, <1>2, StepFrame
    <2>2. hurt' = hurt /\ InForce' = InForce
      BY <1>f, <1>t, <2>1 DEF ghosts, InForceIs
    <2>3. PICK w \in OpRecord : Become(o, w)
      BY <1>0, <1>2, StartAdvances, StepAdvances DEF Advances
    <2>4. \A q \in Op : op'[q] = IF q = o THEN w ELSE op[q]
      BY <1>t, <2>3 DEF Become
    <2>5. op[o].pc # "write" /\ \A q \in Op : q # o => op[q].pc = "free"
      BY <1>0, <1>2, ControlPoint DEF OneRequest
    <2>6. Asked = None
      BY <2>5 DEF AskedIs, Choosing
    <2>7. CASE Choosing(o)'
      <3>1. Asked' = op'[o].write
        BY <2>7 DEF AskedIs
      <3>2. op'[o].write \in Profile
        BY <1>0, <2>7 DEF ControlInv, ControlOf, Choosing
      <3>3. Register!Ask(Asked')
        BY <2>2, <2>6 DEF Register!Ask
      <3> QED BY <3>1, <3>2, <3>3 DEF Register!Next
    <2>8. CASE ~Choosing(o)'
      <3>1. \A q \in Op : ~Choosing(q)'
        BY <2>4, <2>5, <2>8 DEF Choosing
      <3>2. Asked' = None
        BY <3>1 DEF AskedIs
      <3> QED BY <2>2, <2>6, <3>2
    <2> QED BY <2>7, <2>8
  <1>3. CASE Crash \/ \E o \in Op : WriteFails(o)
    BY <1>3, <1>t DEF Crash, WriteFails
  <1>4. CASE Environment /\ ~Crash /\ \A o \in Op : ~WriteFails(o)
    <2>1. UNCHANGED <<settings, op, ghosts>>
      BY <1>4, QuietEnvironment
    <2>2. InForce' = InForce /\ Asked' = Asked /\ hurt' = hurt
      BY <2>1 DEF InForce, Asked, Choosing, Staging, Staged, ghosts
    <2> QED BY <2>2
  <1> QED BY <1>1, <1>2, <1>3, <1>4 DEF Next

\* One request at a time, settings.json is a register of the profile last
\* chosen: staging, restoring, archiving, resuming and relaunching are not
\* observed, and only a crash or a failed write damages it.
THEOREM SerialImplementsRegister == Serial => (Spec => ImplementsRegister)
  <1> SUFFICES ASSUME Serial PROVE Spec => ImplementsRegister
    OBVIOUS
  <1>1. Init => Register!Init
    <2> SUFFICES ASSUME Init PROVE Register!Init
      OBVIOUS
    <2>1. \A o \in Op : ~Choosing(o) /\ ~Staging(o)
      BY DEF Init, Choosing, Staging, Staged, Free
    <2>2. InForce = settings /\ Asked = None
      BY <2>1, Zenon DEF InForce, Asked
    <2> QED BY <2>2 DEF Init, Register!Init
  <1>2. SerialInv => AskedIs /\ InForceIs
    BY Observed
  <1>3. /\ SerialInv /\ AskedIs /\ InForceIs
        /\ SerialInv' /\ AskedIs' /\ InForceIs'
        /\ [Next]_vars
        => [Register!Next]_<<InForce, Asked, ~hurt>>
    <2> SUFFICES ASSUME SerialInv, AskedIs, InForceIs, SerialInv', AskedIs', InForceIs',
                        [Next]_vars
                 PROVE  [Register!Next]_<<InForce, Asked, ~hurt>>
      OBVIOUS
    <2>1. CASE Next /\ ~hurt'
      BY <2>1, NextRegister
    <2>2. CASE hurt'
      <3>1. hurt' = TRUE
        BY <2>2 DEF SerialInv, SafeInv, TypeOK
      <3>2. Register!Damage
        BY <3>1 DEF Register!Damage
      <3> QED BY <3>2 DEF Register!Next
    <2>3. CASE UNCHANGED vars
      BY <2>3 DEF vars, InForce, Asked, Choosing, Staging, Staged
    <2> QED BY <2>1, <2>2, <2>3
  <1> QED BY <1>1, <1>2, <1>3, SerialSafe, PTL DEF Spec, ImplementsRegister, Register!Spec

-----------------------------------------------------------------------------
(* What a request carries: its kind, its conversation and its session        *)

\* The record w goes on from r with the same errand.
Follows(w, r) ==
  /\ w.kind = r.kind /\ w.conv = r.conv /\ w.name = r.name
  /\ w.todo = r.todo /\ w.old = r.old

\* Going to a control point.
LEMMA AtPoint ==
  ASSUME NEW r \in OpRecord, NEW pc \in PCs, pc # "write"
  PROVE  /\ At(r, pc).pc = pc
         /\ pc # "free" => Follows(At(r, pc), r)
  BY DEF At, Free, OpRecord, Follows

\* Going into a write.
LEMMA ApplyPoint ==
  ASSUME NEW o \in Op, NEW r \in OpRecord, NEW p \in Profile, NEW role \in Roles,
         NEW after \in PCs, Apply(o, r, p, role, after)
  PROVE  \E w \in OpRecord :
           Become(o, w) /\ w.pc = "write" /\ w.after = after /\ w.role = role /\ Follows(w, r)
  <1> DEFINE w == [r EXCEPT !.pc = "write", !.write = p, !.role = role, !.after = after]
  <1>1. w \in OpRecord
    BY Literals DEF OpRecord
  <1>2. w.pc = "write" /\ w.after = after /\ w.role = role /\ Follows(w, r)
    BY DEF OpRecord, Follows
  <1>3. Become(o, w)
    BY DEF Apply
  <1> QED BY <1>1, <1>2, <1>3

\* Going on, with or without a restore.
LEMMA RestorePoint ==
  ASSUME NEW o \in Op, NEW r \in OpRecord, Staged(r) => r.owed \in Profile,
         NEW after \in PCs, after # "write", RestoreThen(o, r, after)
  PROVE  \E w \in OpRecord :
           /\ Become(o, w)
           /\ Point(w) = after /\ (w.pc = "write" \/ w.pc = after)
           /\ after # "free" => Follows(w, r)
  <1>1. CASE Staged(r)
    <2>1. Apply(o, r, r.owed, "restore", after)
      BY <1>1 DEF RestoreThen
    <2>2. PICK w \in OpRecord : Become(o, w) /\ w.pc = "write" /\ w.after = after /\ Follows(w, r)
      BY <1>1, <2>1, ApplyPoint, Literals
    <2> QED BY <2>2 DEF Point
  <1>2. CASE ~Staged(r)
    <2>1. Become(o, At(r, after))
      BY <1>2 DEF RestoreThen
    <2>2. At(r, after) \in OpRecord
      BY AtType
    <2> QED BY <2>1, <2>2, AtPoint DEF Point
  <1> QED BY <1>1, <1>2

\* Recovering, of a record.
Recovers(r) ==
  /\ r.kind \in {"rc", "profile"} /\ r.conv # None
  /\ \/ r.pc \in {"resCheck", "launch", "spawn"}
     \/ r.pc = "write" /\ r.after \in {"resCheck", "spawn"}

Recovery == {"resCheck", "launch", "spawn"}

LEMMA RecoveryPoints ==
  /\ \A o \in Op : Recovering(o) <=> Recovers(op[o])
  /\ \A o \in Op : Recovering(o)' <=> Recovers(op'[o])
  /\ \A r : Recovers(r) => Point(r) \in Recovery
  BY DEF Recovering, Recovers, Recovery, Point

Kills(o) == op[o].pc = "kill" /\ op[o].kind # "kill" /\ Alive(op[o].name)

\* The request goes on as w; if it was recovering it still is, with a name that
\* is free, or the conversation is open, or a step has failed.
Continues(o, w) ==
  /\ w \in OpRecord /\ Become(o, w) /\ CarriesOf(w)
  /\ Recovers(w) => w.name \in Name /\ sessions'[w.name] = Dead
  /\ (Recovers(op[o]) \/ Kills(o)) /\ faults' = faults /\ op[o].conv \in transcripts =>
       \/ Recovers(w) /\ w.conv = op[o].conv
       \/ \E n \in Name : sessions'[n] # Dead /\ sessions'[n].conv = op[o].conv

\* Away from a recovery.
LEMMA AwayContinues ==
  ASSUME NEW o \in Op, NEW w \in OpRecord, Become(o, w), CarriesOf(w),
         ~Recovers(w), ~Recovers(op[o]), op[o].pc # "kill"
  PROVE  Continues(o, w)
  BY DEF Continues, Kills

\* Within it.
LEMMA WithinContinues ==
  ASSUME NEW o \in Op, NEW w \in OpRecord, Become(o, w), CarriesOf(w),
         Recovers(w) => w.name \in Name /\ sessions'[w.name] = Dead,
         Recovers(op[o]) \/ Kills(o) => Recovers(w) /\ w.conv = op[o].conv
  PROVE  Continues(o, w)
  BY DEF Continues

\* Where a request ends, or goes on to its next session.
LEMMA ErrorCarries ==
  ASSUME NEW r \in OpRecord, CarriesOf(r)
  PROVE  /\ OnError(r) \in {"free", "relaunch"} /\ AfterLaunch(r) \in {"free", "relaunch"}
         /\ OnError(r) = "relaunch" => r.kind = "profile"
         /\ AfterLaunch(r) = "relaunch" => r.kind = "profile"
  BY DEF OnError, AfterLaunch

\* A record at a point that asks nothing of it.
LEMMA PlainCarries ==
  ASSUME NEW w \in OpRecord, Point(w) \in {"free", "relaunch", "rcSend", "wait"},
         Point(w) = "relaunch" => w.kind = "profile"
  PROVE  CarriesOf(w) /\ ~Recovers(w)
  <1>1. w.pc = "write" /\ w.after = "launch" => Point(w) = "launch"
    BY DEF Point
  <1> QED BY <1>1 DEF CarriesOf, Recovers, Point

\* Ending there.
LEMMA EndPoint ==
  ASSUME NEW r \in OpRecord, NEW pc \in {"free", "relaunch"}
  PROVE  /\ At(r, pc) \in OpRecord /\ Point(At(r, pc)) = pc
         /\ pc = "relaunch" => At(r, pc).kind = r.kind
  <1> DEFINE w == At(r, pc)
  <1>1. pc \in PCs /\ pc # "write"
    BY Literals
  <1>2. w \in OpRecord /\ w.pc = pc /\ (pc # "free" => Follows(w, r))
    BY <1>1, AtType, AtPoint
  <1> HIDE DEF w
  <1>3. Point(w) = pc /\ (pc = "relaunch" => w.kind = r.kind)
    BY <1>1, <1>2 DEF Follows, Point
  <1> QED BY <1>2, <1>3 DEF w

\* Every step of a request continues it.
LEMMA StepContinues ==
  ASSUME TypeOK, ControlInv, CarriesInv, NamesHeld, Serial, "byHand" \notin Env,
         NEW o \in Op, Step(o)
  PROVE  \E w \in OpRecord : Continues(o, w)
  <1> DEFINE r == op[o]
  <1> USE Literals
  <1>r. /\ r \in OpRecord /\ ControlOf(r) /\ CarriesOf(r)
        /\ Staged(r) => r.owed \in Profile
        /\ Recovers(r) => r.name \in Name /\ sessions[r.name] = Dead
        /\ \A n \in Name : Alive(n) => sessions[n].conv \in Conv
    BY RequestFacts, RecoveryPoints DEF CarriesInv, NamesHeld, Alive
  <1>e. /\ OnError(r) \in {"free", "relaunch"} /\ AfterLaunch(r) \in {"free", "relaunch"}
        /\ OnError(r) = "relaunch" => r.kind = "profile"
        /\ AfterLaunch(r) = "relaunch" => r.kind = "profile"
    BY <1>r, ErrorCarries
  <1>f. Free \in OpRecord /\ Point(Free) = "free"
    BY FreeType DEF Free, Point
  <1> HIDE DEF r
  <1> USE DEF r
  <1>1. CASE EndWrite(o)
    <2> DEFINE v == Written(r, IF r.role = "stage" THEN r.active ELSE None)
               w == At(v, r.after)
    <2>1. r.pc = "write" /\ Become(o, w) /\ sessions' = sessions
      BY <1>1 DEF EndWrite
    <2>2. r.after \in PCs /\ r.after # "write" /\ r.active \in Profile \union {None}
      BY <1>r, <2>1 DEF ControlOf, OpRecord, Roles
    <2>3. v \in OpRecord
      BY <1>r, <2>2, WrittenType
    <2>4. Follows(v, r)
      BY <1>r DEF Written, Follows, OpRecord
    <2>5. w \in OpRecord
      BY <2>2, <2>3, AtType
    <2>6. w.pc = r.after /\ (r.after # "free" => Follows(w, v))
      BY <2>2, <2>3, AtPoint
    <2> HIDE DEF v, w
    <2>7. Point(w) = Point(r) /\ (Point(r) # "free" => Follows(w, r))
      BY <2>1, <2>2, <2>4, <2>6 DEF Point, Follows
    <2>8. CarriesOf(w)
      BY <1>r, <2>2, <2>6, <2>7 DEF CarriesOf, Follows
    <2>9. Recovers(w) <=> Recovers(r)
      BY <1>r, <2>1, <2>2, <2>6, <2>7 DEF Recovers, Follows, Point, CarriesOf
    <2>10. Recovers(r) => Follows(w, r)
      BY <2>7 DEF Recovers, Point
    <2> QED BY <1>r, <2>1, <2>5, <2>8, <2>9, <2>10, WithinContinues DEF Follows, Kills
  <1>2. CASE Launch(o)
    <2>1. r.pc = "launch" /\ sessions' = sessions
      BY <1>2 DEF Launch
    <2>2. PICK w \in OpRecord : /\ Become(o, w) /\ Follows(w, r)
                                /\ Point(w) = "spawn" /\ (w.pc = "write" \/ w.pc = "spawn")
      <3>1. CASE RequiresStaging(r.active) /\ BootAvailable
        <4>1. Apply(o, r, Boot, "stage", "spawn")
          BY <1>2, <3>1 DEF Launch
        <4> QED BY <1>r, <4>1, ApplyPoint, ProfileAssumption DEF Point
      <3>2. CASE ~(RequiresStaging(r.active) /\ BootAvailable)
        <4>1. Become(o, At(r, "spawn"))
          BY <1>2, <3>2 DEF Launch
        <4> QED BY <1>r, <4>1, AtPoint, AtType DEF Point
      <3> QED BY <3>1, <3>2
    <2>3. CarriesOf(w)
      BY <1>r, <2>1, <2>2 DEF CarriesOf, Follows, Point
    <2>4. Recovers(w) <=> Recovers(r)
      BY <2>1, <2>2 DEF Recovers, Follows, Point
    <2> QED BY <1>r, <2>1, <2>2, <2>3, <2>4, WithinContinues DEF Follows, Kills
  <1>3. CASE Spawn(o)
    <2>1. PICK n \in Name, tui \in {"idle", "dialog"} :
            /\ ~Alive(n)
            /\ sessions' = [sessions EXCEPT ![n] = NewSessionRecord(r.conv, tui)]
            /\ Become(o, IF Staged(r) THEN [r EXCEPT !.pc = "wait", !.name = n]
                         ELSE At([r EXCEPT !.name = None, !.conv = None], AfterLaunch(r)))
      BY <1>3, <1>r DEF Spawn, OpRecord
    <2>2. r.pc = "spawn"
      BY <1>3 DEF Spawn
    <2>3. PICK w \in OpRecord : Become(o, w) /\ CarriesOf(w) /\ ~Recovers(w)
      <3>1. CASE Staged(r)
        <4> DEFINE w == [r EXCEPT !.pc = "wait", !.name = n]
        <4>1. w \in OpRecord /\ w.pc = "wait"
          BY <1>r DEF OpRecord
        <4>2. Become(o, w)
          BY <2>1, <3>1
        <4> HIDE DEF w
        <4> QED BY <4>1, <4>2, PlainCarries DEF Point
      <3>2. CASE ~Staged(r)
        <4> DEFINE v == [r EXCEPT !.name = None, !.conv = None]
                   w == At(v, AfterLaunch(r))
        <4>1. v \in OpRecord /\ v.kind = r.kind
          BY <1>r DEF OpRecord
        <4>2. Become(o, w)
          BY <2>1, <3>2
        <4> HIDE DEF v
        <4>3. /\ w \in OpRecord /\ Point(w) = AfterLaunch(r)
              /\ AfterLaunch(r) = "relaunch" => w.kind = r.kind
          BY <1>e, <4>1, EndPoint
        <4> HIDE DEF w
        <4> QED BY <1>e, <4>2, <4>3, PlainCarries
      <3> QED BY <3>1, <3>2
    <2>4. sessions'[n] # Dead /\ sessions'[n].conv = r.conv
      <3>1. sessions'[n] = NewSessionRecord(r.conv, tui)
        BY <2>1 DEF TypeOK
      <3>2. r.conv \in Conv
        BY <1>r, <2>2 DEF CarriesOf, Point
      <3>3. sessions'[n] \in LiveSession
        BY <3>1, <3>2, NewSessionType
      <3>4. sessions'[n] # Dead
        BY <3>3, DeadAssumption, Zenon
      <3>5. sessions'[n].conv = r.conv
        BY <3>1 DEF NewSessionRecord
      <3> QED BY <3>4, <3>5
    <2> QED BY <2>3, <2>4 DEF Continues
  <1>4. CASE SpawnFails(o)
    <2>1. RestoreThen(o, r, OnError(r))
      BY <1>4 DEF SpawnFails
    <2>2. PICK w \in OpRecord :
            /\ Become(o, w) /\ Point(w) = OnError(r)
            /\ OnError(r) # "free" => Follows(w, r)
      BY <1>r, <1>e, <2>1, RestorePoint
    <2>3. CarriesOf(w) /\ ~Recovers(w)
      BY <1>e, <2>2, PlainCarries DEF Follows
    <2>4. r.pc = "spawn" /\ (Recovers(r) => faults' # faults)
      <3>1. \/ r.name \in Name /\ Alive(r.name)
            \/ r.name = None
            \/ faults' = faults + 1
        BY <1>4 DEF SpawnFails
      <3>2. faults + 1 # faults
        BY SwitchAssumption DEF TypeOK
      <3> QED BY <1>4, <1>r, <3>1, <3>2, NameAssumption DEF SpawnFails, Alive
    <2> QED BY <2>2, <2>3, <2>4 DEF Continues, Kills
  <1>5. CASE WaitEnds(o)
    <2>1. PICK status \in Statuses :
            IF r.kind = "rc" /\ r.conv = None
            THEN RestoreThen(o, [r EXCEPT !.status = status], "rcDecide")
            ELSE RestoreThen(o, r, AfterLaunch(r))
      BY <1>5 DEF WaitEnds
    <2>2. r.pc = "wait" /\ ~Recovers(r)
      BY <1>5 DEF WaitEnds, Recovers
    <2>3. CASE r.kind = "rc" /\ r.conv = None
      <3> DEFINE v == [r EXCEPT !.status = status]
      <3>1. v \in OpRecord /\ v.kind = r.kind /\ v.owed = r.owed
        BY <1>r DEF OpRecord
      <3>2. RestoreThen(o, v, "rcDecide")
        BY <2>1, <2>3
      <3> HIDE DEF v
      <3>3. PICK w \in OpRecord : Become(o, w) /\ Point(w) = "rcDecide" /\ Follows(w, v)
        BY <1>r, <3>1, <3>2, RestorePoint DEF Staged
      <3>4. CarriesOf(w) /\ ~Recovers(w)
        BY <2>3, <3>1, <3>3 DEF CarriesOf, Recovers, Follows, Point
      <3> QED BY <2>2, <3>3, <3>4, AwayContinues
    <2>4. CASE ~(r.kind = "rc" /\ r.conv = None)
      <3>1. PICK w \in OpRecord :
              /\ Become(o, w) /\ Point(w) = AfterLaunch(r)
              /\ AfterLaunch(r) # "free" => Follows(w, r)
        BY <1>r, <1>e, <2>1, <2>4, RestorePoint
      <3>2. CarriesOf(w) /\ ~Recovers(w)
        BY <1>e, <3>1, PlainCarries DEF Follows
      <3> QED BY <2>2, <3>1, <3>2, AwayContinues
    <2> QED BY <2>3, <2>4
  <1>6. CASE KillRead(o)
    <2> DEFINE v == [r EXCEPT !.active = ActiveProfileName]
    <2>0. v \in OpRecord /\ Follows(v, r)
      BY <1>r, RequestFacts DEF OpRecord, Follows
    <2>1. r.pc = "killRead" /\ ~Recovers(r)
      BY <1>6 DEF KillRead, Recovers
    <2>2. \/ Apply(o, v, Boot, "stage", "kill")
          \/ Become(o, At(v, "kill"))
      BY <1>6 DEF KillRead
    <2> HIDE DEF v
    <2>3. PICK w \in OpRecord :
            Become(o, w) /\ Follows(w, v) /\ Point(w) = "kill" /\ (w.pc = "write" \/ w.pc = "kill")
      <3>1. CASE Apply(o, v, Boot, "stage", "kill")
        BY <2>0, <3>1, ApplyPoint, ProfileAssumption DEF Point
      <3>2. CASE Become(o, At(v, "kill"))
        BY <2>0, <3>2, AtPoint, AtType DEF Point
      <3> QED BY <2>2, <3>1, <3>2
    <2>4. CarriesOf(w) /\ ~Recovers(w)
      BY <1>r, <2>0, <2>1, <2>3 DEF CarriesOf, Recovers, Follows, Point
    <2> QED BY <2>1, <2>3, <2>4, AwayContinues
  <1>7. CASE Kill(o)
    <2> DEFINE after == IF Alive(r.name) /\ r.kind # "kill" THEN "resCheck" ELSE OnError(r)
    <2>1. r.pc = "kill" /\ ~Recovers(r) /\ r.name \in Name
      BY <1>7, <1>r DEF Kill, Recovers, ControlOf
    <2>2. sessions'[r.name] = Dead
      BY <1>7, <2>1 DEF Kill, TypeOK
    <2>3. PICK w \in OpRecord :
            /\ Become(o, w) /\ Point(w) = after /\ (w.pc = "write" \/ w.pc = after)
            /\ after # "free" => Follows(w, r)
      <3>1. RestoreThen(o, r, after)
        BY <1>7 DEF Kill
      <3>2. after \in PCs /\ after # "write"
        BY <1>e
      <3> HIDE DEF after
      <3> QED BY <1>r, <3>1, <3>2, RestorePoint
    <2>4. CASE Kills(o)
      <3>1. after = "resCheck"
        BY <2>4 DEF Kills
      <3>2. r.kind \in {"rc", "profile"} /\ r.conv \in Conv
        BY <1>r, <2>1, <2>4 DEF CarriesOf, Point, Kills
      <3>3. CarriesOf(w)
        BY <2>3, <3>1, <3>2 DEF CarriesOf, Follows, Point
      <3>4. Recovers(w)
        BY <2>3, <3>1, <3>2, NameAssumption DEF Recovers, Follows, Point
      <3> QED BY <2>1, <2>2, <2>3, <3>1, <3>3, <3>4, WithinContinues DEF Follows
    <2>5. CASE ~Kills(o)
      <3>1. after = OnError(r)
        BY <2>1, <2>5 DEF Kills
      <3>2. CarriesOf(w) /\ ~Recovers(w)
        BY <1>e, <2>3, <3>1, PlainCarries DEF Follows
      <3> QED BY <2>1, <2>3, <2>5, <3>2, WithinContinues
    <2> QED BY <2>4, <2>5
  <1>8. CASE ResCheck(o)
    <2> DEFINE v == [r EXCEPT !.name = None, !.conv = None, !.active = None]
               name == IF r.name \in Name /\ Alive(r.name) THEN None ELSE r.name
               u == [r EXCEPT !.pc = "launch", !.active = ActiveProfileName, !.name = name]
    <2>1. r.pc = "resCheck" /\ sessions' = sessions
      BY <1>8 DEF ResCheck
    <2>2. CASE r.conv \notin transcripts \/ ActiveSessionUsing(r.conv)
      <3> DEFINE w == At(v, OnError(r))
      <3>1. Become(o, w)
        BY <1>8, <2>2 DEF ResCheck
      <3>2. v \in OpRecord /\ v.kind = r.kind
        BY <1>r DEF OpRecord
      <3> HIDE DEF v
      <3>3. /\ w \in OpRecord /\ Point(w) = OnError(r)
            /\ OnError(r) = "relaunch" => w.kind = r.kind
        BY <1>e, <3>2, EndPoint
      <3> HIDE DEF w
      <3>4. CarriesOf(w) /\ ~Recovers(w)
        BY <1>e, <3>3, PlainCarries
      <3>5. ASSUME r.conv \in transcripts
            PROVE  \E n \in Name : sessions'[n] # Dead /\ sessions'[n].conv = r.conv
        <4>1. PICK n \in Name : Alive(n) /\ r.conv \in ConvIds(n)
          BY <2>2, <3>5 DEF ActiveSessionUsing
        <4>2. sessions[n].conv # None
          BY <1>r, <4>1, NameAssumption
        <4>3. sessions[n].conv = r.conv
          BY <4>1, <4>2 DEF ConvIds
        <4> QED BY <2>1, <4>1, <4>3 DEF Alive
      <3> QED BY <3>1, <3>3, <3>4, <3>5 DEF Continues
    <2>3. CASE ~(r.conv \notin transcripts \/ ActiveSessionUsing(r.conv))
      <3>1. Become(o, u)
        BY <1>8, <2>3 DEF ResCheck
      <3>2. ActiveProfileName \in Profile \union {None} /\ name \in Name \union {None}
        BY <1>r, RequestFacts DEF OpRecord
      <3> HIDE DEF name
      <3>3. /\ u \in OpRecord /\ u.pc = "launch"
            /\ u.kind = r.kind /\ u.conv = r.conv /\ u.name = name
        BY <1>r, <3>2, LaunchingType DEF OpRecord
      <3> HIDE DEF u
      <3>4. CarriesOf(u)
        BY <1>r, <2>1, <3>3 DEF CarriesOf, Point
      <3>5. Recovers(u) <=> Recovers(r)
        BY <2>1, <3>3 DEF Recovers
      <3>6. Recovers(r) => name = r.name
        BY <1>r DEF name, Alive
      <3> QED BY <1>r, <2>1, <3>1, <3>3, <3>4, <3>5, <3>6, WithinContinues DEF Kills
    <2> QED BY <2>2, <2>3
  <1>9. CASE RcSend(o)
    <2>1. r.pc = "rcSend" /\ ~Recovers(r)
      BY <1>9 DEF RcSend, Recovers
    <2>2. CASE Alive(r.name)
      <3>1. Become(o, At(r, "wait"))
        BY <1>9, <2>2 DEF RcSend
      <3>2. At(r, "wait") \in OpRecord /\ Point(At(r, "wait")) = "wait"
        BY <1>r, AtType, AtPoint DEF Point
      <3> QED BY <2>1, <3>1, <3>2, PlainCarries, AwayContinues
    <2>3. CASE ~Alive(r.name)
      <3>1. RestoreThen(o, r, "free")
        BY <1>9, <2>3 DEF RcSend
      <3>2. PICK w \in OpRecord : Become(o, w) /\ Point(w) = "free"
        BY <1>r, <3>1, RestorePoint
      <3> QED BY <2>1, <3>2, PlainCarries, AwayContinues
    <2> QED BY <2>2, <2>3
  <1>10. CASE RcDecide(o)
    <2>1. PICK c \in ConvIds(r.name) :
            Become(o, IF r.status = "ok" \/ c = None THEN Free
                      ELSE [r EXCEPT !.pc = "killRead", !.conv = c])
      BY <1>10 DEF RcDecide
    <2>2. r.pc = "rcDecide" /\ ~Recovers(r) /\ r.kind = "rc" /\ r.name \in Name
      BY <1>10, <1>r DEF RcDecide, Recovers, CarriesOf, Point, ControlOf
    <2>3. CASE r.status = "ok" \/ c = None
      BY <1>f, <2>1, <2>2, <2>3, PlainCarries, AwayContinues
    <2>4. CASE ~(r.status = "ok" \/ c = None)
      <3> DEFINE w == [r EXCEPT !.pc = "killRead", !.conv = c]
      <3>1. c \in Conv
        BY <2>2, <2>4, ConvIdsType
      <3>2. w \in OpRecord /\ w.pc = "killRead" /\ w.kind = "rc" /\ w.conv = c
        BY <1>r, <2>2, <3>1 DEF OpRecord
      <3>3. Become(o, w)
        BY <2>1, <2>4
      <3> HIDE DEF w
      <3>4. CarriesOf(w) /\ ~Recovers(w)
        BY <3>1, <3>2 DEF CarriesOf, Recovers, Point
      <3> QED BY <2>2, <3>2, <3>3, <3>4, AwayContinues
    <2> QED BY <2>3, <2>4
  <1>11. CASE Switched(o)
    <2> DEFINE w == [r EXCEPT !.pc = "relaunch", !.active = None, !.old = OAuth,
                              !.todo = {n \in Name : Alive(n)}]
    <2>1. r.pc = "switched" /\ ~Recovers(r) /\ r.kind = "profile"
      BY <1>11, <1>r DEF Switched, Recovers, CarriesOf, Point
    <2>2. Become(o, Free) \/ Become(o, w)
      BY <1>11 DEF Switched
    <2>3. w \in OpRecord /\ w.pc = "relaunch" /\ w.kind = "profile"
      BY <1>r, <2>1 DEF OpRecord, Credential
    <2> HIDE DEF w
    <2>4. CASE Become(o, Free)
      BY <1>f, <2>1, <2>4, PlainCarries, AwayContinues
    <2>5. CASE Become(o, w)
      BY <2>1, <2>3, <2>5, PlainCarries, AwayContinues DEF Point
    <2> QED BY <2>2, <2>4, <2>5
  <1>12. CASE RelaunchNext(o)
    <2> DEFINE v == [r EXCEPT !.name = None, !.conv = None, !.active = None]
    <2>1. v \in OpRecord /\ v.pc = r.pc /\ v.kind = r.kind /\ v.todo = r.todo
      BY <1>r DEF OpRecord
    <2>2. \/ Become(o, Free)
          \/ \E n \in v.todo : \E c \in ConvIds(n) :
               LET skip == c = None \/ (Alive(n) /\ sessions[n].tui = "working")
               IN Become(o, IF skip THEN [v EXCEPT !.todo = @ \ {n}]
                            ELSE [v EXCEPT !.pc = "killRead", !.name = n, !.conv = c,
                                           !.todo = @ \ {n}])
      BY <1>12 DEF RelaunchNext
    <2>3. v.pc = "relaunch"
      BY <1>12 DEF RelaunchNext
    <2>4. ~Recovers(r) /\ r.kind = "profile" /\ r.pc # "kill"
      BY <1>r, <2>1, <2>3 DEF Recovers, CarriesOf, Point
    <2> HIDE DEF v
    <2>5. CASE Become(o, Free)
      BY <1>f, <2>4, <2>5, PlainCarries, AwayContinues
    <2>6. CASE ~Become(o, Free)
      <3>1. PICK n \in v.todo : \E c \in ConvIds(n) :
              \/ Become(o, [v EXCEPT !.todo = @ \ {n}])
              \/ /\ c # None
                 /\ Become(o, [v EXCEPT !.pc = "killRead", !.name = n, !.conv = c,
                                        !.todo = @ \ {n}])
        BY <2>2, <2>6
      <3>c. PICK c \in ConvIds(n) :
              \/ Become(o, [v EXCEPT !.todo = @ \ {n}])
              \/ /\ c # None
                 /\ Become(o, [v EXCEPT !.pc = "killRead", !.name = n, !.conv = c,
                                        !.todo = @ \ {n}])
        BY <3>1
      <3>2. n \in Name /\ (c # None => c \in Conv)
        BY <2>1, <3>1, ConvIdsType DEF OpRecord
      <3>3. CASE Become(o, [v EXCEPT !.todo = @ \ {n}])
        <4> DEFINE w == [v EXCEPT !.todo = @ \ {n}]
        <4>1. w \in OpRecord /\ w.pc = "relaunch" /\ w.kind = "profile"
          BY <2>1, <2>3, <2>4 DEF OpRecord
        <4> HIDE DEF w
        <4> QED BY <2>4, <3>3, <4>1, PlainCarries, AwayContinues DEF w, Point
      <3>4. CASE c # None /\ Become(o, [v EXCEPT !.pc = "killRead", !.name = n, !.conv = c,
                                                 !.todo = @ \ {n}])
        <4> DEFINE w == [v EXCEPT !.pc = "killRead", !.name = n, !.conv = c, !.todo = @ \ {n}]
        <4>1. w \in OpRecord /\ w.pc = "killRead" /\ w.kind = "profile" /\ w.conv = c
          BY <2>1, <2>3, <2>4, <3>2, <3>4 DEF OpRecord
        <4>2. Become(o, w)
          BY <3>4
        <4> HIDE DEF w
        <4>3. CarriesOf(w) /\ ~Recovers(w)
          BY <3>2, <3>4, <4>1 DEF CarriesOf, Recovers, Point
        <4> QED BY <2>4, <4>1, <4>2, <4>3, AwayContinues
      <3> QED BY <3>c, <3>3, <3>4
    <2> QED BY <2>5, <2>6
  <1> QED BY <1>1, <1>2, <1>3, <1>4, <1>5, <1>6, <1>7, <1>8, <1>9, <1>10, <1>11, <1>12
          DEF Step

\* A request begins away from a recovery.
LEMMA StartContinues ==
  ASSUME TypeOK, ControlInv, NEW o \in Op, Start(o)
  PROVE  \E w \in OpRecord : Become(o, w) /\ CarriesOf(w) /\ ~Recovers(w)
  <1> USE Literals
  <1>f. /\ Free \in OpRecord /\ Free.pc = "free" /\ Free.conv = None
        /\ ActiveProfileName \in Profile \union {None}
        /\ None \notin Conv
    BY FreeType, RequestFacts, NameAssumption DEF Free
  <1>1. ASSUME NEW n \in Name \union {None}, StartNew(o, n)
        PROVE  \E w \in OpRecord : Become(o, w) /\ CarriesOf(w) /\ ~Recovers(w)
    <2>1. PICK c \in FreshConvs :
            Become(o, [Free EXCEPT !.kind = "new", !.pc = "launch", !.name = n,
                                   !.conv = c, !.active = ActiveProfileName])
      BY <1>1 DEF StartNew
    <2> DEFINE w == [Free EXCEPT !.kind = "new", !.pc = "launch", !.name = n,
                                 !.conv = c, !.active = ActiveProfileName]
    <2>2. c \in Conv
      BY DEF FreshConvs
    <2>3. w \in OpRecord /\ w.pc = "launch" /\ w.kind = "new" /\ w.conv = c
      BY <1>f, <2>2 DEF OpRecord
    <2>4. Become(o, w)
      BY <2>1
    <2> HIDE DEF w
    <2> QED BY <2>2, <2>3, <2>4 DEF CarriesOf, Recovers, Point
  <1>2. ASSUME NEW n \in Name \union {None}, NEW p \in Profile, StartNewWith(o, n, p)
        PROVE  \E w \in OpRecord : Become(o, w) /\ CarriesOf(w) /\ ~Recovers(w)
    <2>1. PICK c \in FreshConvs :
            Apply(o, [Free EXCEPT !.kind = "newWith", !.name = n, !.conv = c, !.active = p],
                  p, "user", "launch")
      BY <1>2 DEF StartNewWith
    <2> DEFINE v == [Free EXCEPT !.kind = "newWith", !.name = n, !.conv = c, !.active = p]
    <2>2. c \in Conv
      BY DEF FreshConvs
    <2>3. v \in OpRecord /\ v.kind = "newWith" /\ v.conv = c
      BY <1>f, <2>2 DEF OpRecord
    <2>4. Apply(o, v, p, "user", "launch")
      BY <2>1
    <2> HIDE DEF v
    <2>5. PICK w \in OpRecord :
            Become(o, w) /\ w.pc = "write" /\ w.after = "launch" /\ Follows(w, v)
      BY <2>3, <2>4, ApplyPoint
    <2> QED BY <2>2, <2>3, <2>5 DEF CarriesOf, Recovers, Point, Follows
  <1>3. ASSUME NEW n \in Name, StartKill(o, n)
        PROVE  \E w \in OpRecord : Become(o, w) /\ CarriesOf(w) /\ ~Recovers(w)
    <2> DEFINE w == [Free EXCEPT !.kind = "kill", !.pc = "killRead", !.name = n]
    <2>1. w \in OpRecord /\ w.pc = "killRead" /\ w.kind = "kill"
      BY <1>f DEF OpRecord
    <2>2. Become(o, w)
      BY <1>3 DEF StartKill
    <2> HIDE DEF w
    <2> QED BY <2>1, <2>2 DEF CarriesOf, Recovers, Point
  <1>4. ASSUME NEW n \in Name, StartRc(o, n)
        PROVE  \E w \in OpRecord : Become(o, w) /\ CarriesOf(w) /\ ~Recovers(w)
    <2> DEFINE v == [Free EXCEPT !.kind = "rc", !.name = n, !.active = ActiveProfileName]
    <2>1. v \in OpRecord
      BY <1>f DEF OpRecord
    <2>2. Apply(o, v, Boot, "stage", "rcSend") \/ Become(o, At(v, "rcSend"))
      BY <1>4 DEF StartRc
    <2> HIDE DEF v
    <2>3. PICK w \in OpRecord : Become(o, w) /\ Point(w) = "rcSend"
      <3>1. CASE Apply(o, v, Boot, "stage", "rcSend")
        BY <2>1, <3>1, ApplyPoint, ProfileAssumption DEF Point
      <3>2. CASE Become(o, At(v, "rcSend"))
        BY <2>1, <3>2, AtPoint, AtType DEF Point
      <3> QED BY <2>2, <3>1, <3>2
    <2> QED BY <2>3, PlainCarries
  <1>5. ASSUME NEW c \in Conv, StartResume(o, c)
        PROVE  \E w \in OpRecord : Become(o, w) /\ CarriesOf(w) /\ ~Recovers(w)
    <2> DEFINE w == [Free EXCEPT !.kind = "resume", !.pc = "resCheck", !.conv = c]
    <2>1. w \in OpRecord /\ w.pc = "resCheck" /\ w.kind = "resume" /\ w.conv = c
      BY <1>f DEF OpRecord
    <2>2. Become(o, w)
      BY <1>5 DEF StartResume
    <2> HIDE DEF w
    <2> QED BY <2>1, <2>2 DEF CarriesOf, Recovers, Point
  <1>6. ASSUME NEW p \in Profile, StartProfile(o, p)
        PROVE  \E w \in OpRecord : Become(o, w) /\ CarriesOf(w) /\ ~Recovers(w)
    <2> DEFINE v == [Free EXCEPT !.kind = "profile", !.active = p, !.old = CredOf(settings)]
    <2>1. v \in OpRecord /\ v.kind = "profile"
      BY <1>f, CredOfType DEF OpRecord
    <2>2. Apply(o, v, p, "user", "switched")
      BY <1>6 DEF StartProfile
    <2> HIDE DEF v
    <2>3. PICK w \in OpRecord :
            Become(o, w) /\ w.pc = "write" /\ w.after = "switched" /\ Follows(w, v)
      BY <2>1, <2>2, ApplyPoint
    <2> QED BY <2>1, <2>3 DEF CarriesOf, Recovers, Point, Follows
  <1> QED BY <1>1, <1>2, <1>3, <1>4, <1>5, <1>6 DEF Start

\* A write that fails continues its request too, but counts as a failure.
LEMMA WriteFailsContinues ==
  ASSUME TypeOK, ControlInv, CarriesInv, NamesHeld, Serial, "byHand" \notin Env,
         NEW o \in Op, WriteFails(o)
  PROVE  \E w \in OpRecord :
           /\ Become(o, w) /\ CarriesOf(w)
           /\ Recovers(w) => w.name \in Name /\ sessions'[w.name] = Dead
  <1> DEFINE r == op[o]
             next == IF r.role = "restore" /\ r.after # "rcDecide" THEN r.after ELSE OnError(r)
             v == Written(r, None)
             w == At(v, next)
  <1> USE Literals
  <1>1. /\ r \in OpRecord /\ ControlOf(r) /\ CarriesOf(r) /\ r.pc = "write"
        /\ Become(o, w) /\ sessions' = sessions
        /\ Recovers(r) => r.name \in Name /\ sessions[r.name] = Dead
    BY RequestFacts, RecoveryPoints DEF WriteFails, CarriesInv, NamesHeld, Alive
  <1>2. /\ next \in {"free", "relaunch", "resCheck"}
        /\ next = "relaunch" => r.kind = "profile"
        /\ next = "resCheck" => r.after = "resCheck"
    BY <1>1 DEF ControlOf, OnError, CarriesOf, Point
  <1>3. v \in OpRecord /\ Follows(v, r)
    BY <1>1, WrittenType DEF Written, OpRecord, Follows
  <1> HIDE DEF v, next
  <1>4. w \in OpRecord /\ w.pc = next /\ (next # "free" => Follows(w, v))
    BY <1>2, <1>3, AtType, AtPoint
  <1> HIDE DEF w
  <1>5. CASE next = "resCheck"
    <2>1. CarriesOf(w) /\ Follows(w, r) /\ (Recovers(w) => Recovers(r))
      BY <1>1, <1>2, <1>3, <1>4, <1>5 DEF CarriesOf, Point, Follows, Recovers
    <2> QED BY <1>1, <1>4, <2>1 DEF Follows
  <1>6. CASE next # "resCheck"
    <2>1. CarriesOf(w) /\ ~Recovers(w)
      BY <1>2, <1>3, <1>4, <1>6, PlainCarries DEF Point, Follows
    <2> QED BY <1>1, <1>4, <2>1
  <1> QED BY <1>5, <1>6

\* A session is started with a conversation, and keeps it.
LEMMA StepConvs ==
  ASSUME TypeOK, ControlInv, CarriesInv, NEW o \in Op, Start(o) \/ Step(o),
         \A n \in Name : Alive(n) => sessions[n].conv \in Conv
  PROVE  \A n \in Name : sessions'[n] # Dead => sessions'[n].conv \in Conv
  <1> DEFINE r == op[o]
  <1>r. /\ r \in OpRecord /\ ControlOf(r) /\ CarriesOf(r)
        /\ sessions \in [Name -> LiveSession \union {Dead}]
    BY RequestFacts DEF TypeOK, CarriesInv
  <1>1. CASE Spawn(o)
    <2>0. PICK n \in (IF r.name = None THEN Name ELSE {r.name}) :
            \E tui \in {"idle"} \union (IF "dialog" \in Env THEN {"dialog"} ELSE {}) :
              sessions' = [sessions EXCEPT ![n] = NewSessionRecord(r.conv, tui)]
      BY <1>1, Zenon DEF Spawn
    <2>1. PICK tui \in {"idle", "dialog"} :
            sessions' = [sessions EXCEPT ![n] = NewSessionRecord(r.conv, tui)]
      BY <2>0
    <2>2. r.conv \in Conv
      BY <1>1, <1>r DEF Spawn, CarriesOf, Point
    <2>3. NewSessionRecord(r.conv, tui).conv = r.conv
      BY DEF NewSessionRecord
    <2> QED BY <1>r, <2>1, <2>2, <2>3 DEF Alive
  <1>2. CASE Kill(o)
    BY <1>r, <1>2 DEF Kill, Alive
  <1>3. CASE RcSend(o)
    <2>1. CASE Alive(r.name)
      <3>1. r.name \in Name /\ sessions' = [sessions EXCEPT ![r.name].bridge = FALSE]
        BY <1>3, <1>r, <2>1 DEF RcSend, ControlOf
      <3>2. [sessions[r.name] EXCEPT !.bridge = FALSE].conv = sessions[r.name].conv
        BY <2>1, <3>1, AliveType DEF LiveSession
      <3> QED BY <1>r, <2>1, <3>1, <3>2 DEF Alive
    <2>2. CASE ~Alive(r.name)
      BY <1>3, <1>r, <2>2 DEF RcSend, Alive
    <2> QED BY <2>1, <2>2
  <1>4. CASE RelaunchNext(o)
    <2>1. \/ sessions' = sessions
          \/ \E n \in [r EXCEPT !.name = None, !.conv = None, !.active = None].todo :
               Alive(n) /\ sessions' = [sessions EXCEPT ![n].spared = TRUE]
      BY <1>4 DEF RelaunchNext
    <2>2. [r EXCEPT !.name = None, !.conv = None, !.active = None].todo \subseteq Name
      BY <1>r DEF OpRecord
    <2>3. ASSUME NEW n \in Name, Alive(n),
                 sessions' = [sessions EXCEPT ![n].spared = TRUE]
          PROVE  \A m \in Name : sessions'[m] # Dead => sessions'[m].conv \in Conv
      <3>1. [sessions[n] EXCEPT !.spared = TRUE].conv = sessions[n].conv
        BY <2>3, AliveType DEF LiveSession
      <3> QED BY <1>r, <2>3, <3>1 DEF Alive
    <2> QED BY <2>1, <2>2, <2>3 DEF Alive
  <1>5. CASE ~(Spawn(o) \/ Kill(o) \/ RcSend(o) \/ RelaunchNext(o))
    <2>1. sessions' = sessions
      <3>1. CASE Start(o)
        BY <3>1, StepFrame
      <3>2. CASE Step(o)
        BY <1>5, <3>2 DEF Step, EndWrite, Launch, SpawnFails, WaitEnds, KillRead, ResCheck,
                          RcDecide, Switched
      <3> QED BY <3>1, <3>2
    <2> QED BY <2>1 DEF Alive
  <1> QED BY <1>1, <1>2, <1>3, <1>4, <1>5

\* Unless one is started by hand, nothing around the requests starts a session.
LEMMA EnvironmentConvs ==
  ASSUME TypeOK, "byHand" \notin Env, Environment, NEW m \in Name, sessions'[m] # Dead
  PROVE  Alive(m) /\ sessions'[m].conv = sessions[m].conv
  <1>t. sessions \in [Name -> LiveSession \union {Dead}]
    BY DEF TypeOK
  <1>1. CASE Crash \/ \E o \in Op : WriteFails(o)
    BY <1>1 DEF Crash, WriteFails, Alive
  <1>2. ASSUME NEW n \in Name, Turn(n)
        PROVE  Alive(m) /\ sessions'[m].conv = sessions[m].conv
    <2> DEFINE cred == IF sessions[n].cred = None THEN CredOf(settings) ELSE sessions[n].cred
               s == [sessions[n] EXCEPT !.tui = "working", !.cred = cred]
    <2>1. Alive(n) /\ sessions' = [sessions EXCEPT ![n] = s]
      BY <1>t, <1>2 DEF Turn
    <2>2. s.conv = sessions[n].conv
      BY <2>1, AliveType DEF LiveSession
    <2> HIDE DEF s
    <2> QED BY <1>t, <2>1, <2>2 DEF Alive
  <1>3. ASSUME NEW n \in Name, TurnEnds(n) \/ DialogOpens(n) \/ DialogAnswered(n)
        PROVE  Alive(m) /\ sessions'[m].conv = sessions[m].conv
    <2>1. PICK tui \in {"idle", "working", "dialog"} :
            Alive(n) /\ sessions' = [sessions EXCEPT ![n].tui = tui]
      BY <1>3 DEF TurnEnds, DialogOpens, DialogAnswered
    <2>2. [sessions[n] EXCEPT !.tui = tui].conv = sessions[n].conv
      BY <2>1, AliveType DEF LiveSession
    <2> QED BY <1>t, <2>1, <2>2 DEF Alive
  <1>4. ASSUME NEW n \in Name, BridgeChanges(n)
        PROVE  Alive(m) /\ sessions'[m].conv = sessions[m].conv
    <2> DEFINE s == [sessions[n] EXCEPT !.bridge = ~sessions[n].bridge]
    <2>1. Alive(n) /\ sessions' = [sessions EXCEPT ![n] = s]
      BY <1>t, <1>4 DEF BridgeChanges
    <2>2. s.conv = sessions[n].conv
      BY <2>1, AliveType DEF LiveSession
    <2> HIDE DEF s
    <2> QED BY <1>t, <2>1, <2>2 DEF Alive
  <1>5. ASSUME NEW n \in Name, SessionExits(n)
        PROVE  Alive(m) /\ sessions'[m].conv = sessions[m].conv
    BY <1>t, <1>5 DEF SessionExits, Alive
  <1>6. \A n \in Name : ~StartedByHand(n)
    BY DEF StartedByHand
  <1> QED BY <1>1, <1>2, <1>3, <1>4, <1>5, <1>6 DEF Environment

-----------------------------------------------------------------------------
(* What was killed to be recovered is opened again *)

\* No request at q abandons a recovery in this step.
Reopens(q) ==
  Abandons(q) /\ op[q].conv \in transcripts
    => \E n \in Name : sessions'[n] # Dead /\ sessions'[n].conv = op[q].conv

HeldInv == CarriesInv /\ NamesHeld

\* A request goes on as w while the others are idle.
LEMMA OneHeld ==
  ASSUME TypeOK, HeldInv, Serial, NEW o \in Op, NEW w \in OpRecord,
         Become(o, w), CarriesOf(w),
         \A q \in Op : q # o => op[q].pc = "free",
         \A n \in Name : sessions'[n] # Dead => sessions'[n].conv \in Conv,
         Recovers(w) => w.name \in Name /\ sessions'[w.name] = Dead,
         Abandons(o) /\ op[o].conv \in transcripts =>
           \/ Recovers(w)
           \/ \E n \in Name : sessions'[n] # Dead /\ sessions'[n].conv = op[o].conv
  PROVE  HeldInv' /\ \A q \in Op : Reopens(q)
  <1>1. \A q \in Op : op'[q] = IF q = o THEN w ELSE op[q]
    BY DEF TypeOK, Become
  <1>2. \A q \in Op : q # o => ~Recovers(op[q]) /\ op[q].pc # "kill"
    BY DEF Recovers
  <1>3. CarriesInv'
    <2>1. \A q \in Op : CarriesOf(op'[q])
      BY <1>1 DEF HeldInv, CarriesInv
    <2> QED BY <2>1 DEF CarriesInv, CarriesOf, Point
  <1>4. NamesHeld'
    <2>1. \A q \in Op : Recovering(q)' => op'[q].name \in Name /\ sessions'[op'[q].name] = Dead
      BY <1>1, <1>2, RecoveryPoints
    <2> QED BY <2>1 DEF NamesHeld, Alive
  <1>5. ASSUME NEW q \in Op PROVE Reopens(q)
    <2>1. CASE q # o
      BY <1>2, <2>1, RecoveryPoints DEF Reopens, Abandons, KillsToRecover
    <2>2. CASE q = o
      BY <1>1, <2>2, RecoveryPoints DEF Reopens, Abandons
    <2> QED BY <2>1, <2>2
  <1> QED BY <1>3, <1>4, <1>5 DEF HeldInv

\* Every step keeps the invariant and reopens what it must.
LEMMA NextHeld ==
  ASSUME Serial, "byHand" \notin Env, SerialInv, HeldInv, Next
  PROVE  HeldInv' /\ \A q \in Op : Reopens(q)
  <1>0. /\ TypeOK /\ ControlInv /\ OneRequest /\ CarriesInv /\ NamesHeld
        /\ \A n \in Name : Alive(n) => sessions[n].conv \in Conv
    BY DEF SerialInv, SafeInv, HeldInv, NamesHeld
  <1>f. faults + 1 # faults
    BY <1>0, SwitchAssumption DEF TypeOK
  <1>o. ASSUME NEW o \in Op, Start(o) \/ Step(o)
        PROVE  \A q \in Op : q # o => op[q].pc = "free"
    BY <1>0, <1>o, ControlPoint DEF OneRequest
  <1>1. ASSUME NEW o \in Op, Step(o)
        PROVE  HeldInv' /\ \A q \in Op : Reopens(q)
    <2>1. PICK w \in OpRecord : Continues(o, w)
      BY <1>0, <1>1, StepContinues
    <2>2. \A n \in Name : sessions'[n] # Dead => sessions'[n].conv \in Conv
      BY <1>0, <1>1, StepConvs
    <2>3. Abandons(o) /\ op[o].conv \in transcripts =>
            \/ Recovers(w)
            \/ \E n \in Name : sessions'[n] # Dead /\ sessions'[n].conv = op[o].conv
      <3>1. Abandons(o) => (Recovers(op[o]) \/ Kills(o)) /\ faults' = faults
        BY RecoveryPoints DEF Abandons, KillsToRecover, Kills
      <3> QED BY <2>1, <3>1 DEF Continues
    <2> QED BY <1>0, <1>1, <1>o, <2>1, <2>2, <2>3, OneHeld DEF Continues
  <1>2. ASSUME NEW o \in Op, Start(o)
        PROVE  HeldInv' /\ \A q \in Op : Reopens(q)
    <2>1. PICK w \in OpRecord : Become(o, w) /\ CarriesOf(w) /\ ~Recovers(w)
      BY <1>0, <1>2, StartContinues
    <2>2. \A n \in Name : sessions'[n] # Dead => sessions'[n].conv \in Conv
      BY <1>0, <1>2, StepConvs
    <2>3. ~Abandons(o)
      <3>1. op[o].pc = "free"
        BY <1>0, <1>2, ControlPoint
      <3>2. ~Recovers(op[o])
        BY <3>1 DEF Recovers
      <3> QED BY <3>1, <3>2, RecoveryPoints DEF Abandons, KillsToRecover
    <2> QED BY <1>0, <1>2, <1>o, <2>1, <2>2, <2>3, OneHeld
  <1>3. ASSUME NEW o \in Op, WriteFails(o)
        PROVE  HeldInv' /\ \A q \in Op : Reopens(q)
    <2>1. PICK w \in OpRecord :
            /\ Become(o, w) /\ CarriesOf(w)
            /\ Recovers(w) => w.name \in Name /\ sessions'[w.name] = Dead
      BY <1>0, <1>3, WriteFailsContinues
    <2>2. op[o].pc = "write" /\ faults' # faults /\ sessions' = sessions
      BY <1>3, <1>f DEF WriteFails
    <2>3. \A q \in Op : q # o => op[q].pc = "free"
      BY <1>0, <2>2 DEF OneRequest
    <2>4. ~Abandons(o)
      BY <2>2 DEF Abandons
    <2> QED BY <1>0, <2>1, <2>2, <2>3, <2>4, OneHeld DEF Alive
  <1>4. CASE Crash
    <2>1. /\ \A q \in Op : op'[q] = Free
          /\ sessions' = sessions /\ faults' # faults
      BY <1>4, <1>f DEF Crash
    <2>2. Free \in OpRecord /\ Point(Free) = "free"
      BY FreeType DEF Free, Point
    <2>3. CarriesOf(Free) /\ ~Recovers(Free)
      BY <2>2, PlainCarries
    <2>4. CarriesInv'
      BY <2>1, <2>3 DEF CarriesInv, CarriesOf, Point
    <2>5. NamesHeld'
      <3>1. \A q \in Op : ~Recovering(q)'
        BY <2>1, <2>3, RecoveryPoints
      <3> QED BY <1>0, <2>1, <3>1 DEF NamesHeld, Alive
    <2>6. \A q \in Op : Reopens(q)
      BY <2>1 DEF Reopens, Abandons
    <2> QED BY <2>4, <2>5, <2>6 DEF HeldInv
  <1>5. CASE Environment /\ ~Crash /\ \A o \in Op : ~WriteFails(o)
    <2>1. op' = op
      BY <1>5, QuietEnvironment
    <2>2. \A m \in Name : sessions'[m] # Dead => Alive(m) /\ sessions'[m].conv = sessions[m].conv
      BY <1>0, <1>5, EnvironmentConvs
    <2>3. \A q \in Op : Recovering(q)' <=> Recovering(q)
      BY <2>1, RecoveryPoints
    <2>4. CarriesInv'
      BY <1>0, <2>1 DEF CarriesInv, CarriesOf, Point
    <2>5. NamesHeld'
      <3>1. \A q \in Op : Recovering(q)' => op'[q].name \in Name /\ sessions'[op'[q].name] = Dead
        BY <1>0, <2>1, <2>2, <2>3 DEF NamesHeld
      <3> QED BY <1>0, <2>2, <3>1 DEF NamesHeld, Alive
    <2>6. \A q \in Op : Reopens(q)
      BY <2>1, <2>3 DEF Reopens, Abandons, KillsToRecover
    <2> QED BY <2>4, <2>5, <2>6 DEF HeldInv
  <1> QED BY <1>1, <1>2, <1>3, <1>4, <1>5 DEF Next

\* With one request at a time and no session started by hand, sessionRc and
\* relaunchLiveSessions bring back what they kill: unless a step fails, the
\* conversation ends up open.
THEOREM SerialRecoveryReopens ==
  Serial /\ "byHand" \notin Env => (Spec => RecoveryReopens)
  <1> SUFFICES ASSUME Serial, "byHand" \notin Env PROVE Spec => RecoveryReopens
    OBVIOUS
  <1>1. Init => HeldInv
    <2> SUFFICES ASSUME Init PROVE HeldInv
      OBVIOUS
    <2>1. \A o \in Op : op[o].pc = "free" /\ Point(op[o]) = "free"
      BY DEF Init, Free, Point
    <2>2. \A n \in Name : ~Alive(n)
      BY DEF Init, Alive
    <2>3. \A o \in Op : ~Recovering(o)
      BY <2>1 DEF Recovering
    <2> QED BY <2>1, <2>2, <2>3 DEF HeldInv, CarriesInv, CarriesOf, NamesHeld
  <1>2. SerialInv /\ HeldInv /\ [Next]_vars => HeldInv'
    <2>1. ASSUME SerialInv, HeldInv, Next PROVE HeldInv'
      BY <2>1, NextHeld
    <2>2. ASSUME HeldInv, UNCHANGED vars PROVE HeldInv'
      BY <2>2 DEF vars, HeldInv, CarriesInv, CarriesOf, Point, NamesHeld, Alive, Recovering
    <2> QED BY <2>1, <2>2
  <1>3. SerialInv /\ HeldInv /\ [Next]_vars =>
          [\A o \in Op, c \in transcripts : Abandons(o) /\ op[o].conv = c => Open(c)']_vars
    <2>1. ASSUME SerialInv, HeldInv, Next, NEW o \in Op, NEW c \in transcripts,
                 Abandons(o), op[o].conv = c
          PROVE  Open(c)'
      BY <2>1, NextHeld DEF Reopens, Open, Alive
    <2> QED BY <2>1
  <1> QED BY <1>1, <1>2, <1>3, SerialSafe, PTL DEF Spec, RecoveryReopens

-----------------------------------------------------------------------------
(* Credentials                                                               *)

\* Profiles are switched by requests to switch, one at a time, that are not cut
\* short, and the bootstrap profile is a clean one.
CleanSwitching ==
  /\ Serial
  /\ "newWith" \notin Requests
  /\ "write" \notin Faults /\ "crash" \notin Faults
  /\ Auth[Boot] = OAuth

\* Undamaged, settings.json never selects credentials of another profile.
LEMMA SettingsSelect ==
  ASSUME CleanSwitching, SerialInv, ~hurt
  PROVE  CredOf(settings) \in {OAuth, CredOf(wanted)}
  <1>0. /\ ControlInv /\ OneRequest /\ KeepsChoice /\ Serial
    BY DEF SerialInv, SafeInv, CleanSwitching
  <1>1. CASE Quiescent
    BY <1>0, <1>1 DEF KeepsChoice
  <1>2. ASSUME NEW o \in Op, op[o].pc # "free"
        PROVE  settings \in {wanted, Torn, Boot}
    <2>1. CASE op[o].pc = "write"
      BY <1>0, <2>1 DEF OneRequest
    <2>2. CASE op[o].pc # "write" /\ Staged(op[o])
      BY <1>0, <2>2 DEF OneRequest
    <2>3. CASE op[o].pc # "write" /\ ~Staged(op[o])
      BY <1>0, <1>2, <2>3 DEF KeepsChoice, KeepsChoiceOf
    <2> QED BY <2>1, <2>2, <2>3
  <1>3. CredOf(Torn) = OAuth /\ CredOf(Boot) = OAuth
    BY ProfileAssumption DEF CredOf, CleanSwitching
  <1> QED BY <1>1, <1>2, <1>3 DEF Quiescent

\* The request goes on as w, and has left no session aside.
Pays(o, w) ==
  /\ w \in OpRecord /\ Become(o, w) /\ SwitchOf(w)
  /\ \A n \in Pending(op[o]) \cap Name :
       n \in Pending(w) \/ sessions'[n] = Dead \/ sessions'[n].spared

\* Same errand, and the name too while it is being killed.
LEMMA KeepsPays ==
  ASSUME NEW o \in Op, NEW w \in OpRecord, Become(o, w), SwitchOf(w),
         w.kind = op[o].kind, w.todo = op[o].todo,
         Point(op[o]) \in {"killRead", "kill"} =>
           /\ w.name = op[o].name /\ Point(w) \in {"killRead", "kill"}
  PROVE  Pays(o, w)
  BY DEF Pays, Pending

\* No errand.
LEMMA NothingPays ==
  ASSUME NEW o \in Op, NEW w \in OpRecord, Become(o, w), SwitchOf(w), op[o].kind # "profile"
  PROVE  Pays(o, w)
  BY DEF Pays, Pending

\* A record at a point that asks nothing of it.
LEMMA PlainSwitch ==
  ASSUME NEW w, Point(w) \notin {"free", "relaunch", "switched", "rcSend", "rcDecide"},
         w.pc = "write" => w.role # "user"
  PROVE  SwitchOf(w)
  BY DEF SwitchOf, Point

\* The end of a request, or on to the next session.
LEMMA EndSwitch ==
  ASSUME NEW w, Point(w) \in {"free", "relaunch"}, w.pc = "write" => w.role # "user",
         Point(w) = "free" => w.kind # "profile",
         Point(w) = "relaunch" => w.kind = "profile"
  PROVE  SwitchOf(w)
  BY DEF SwitchOf, Point

\* Going on, with or without a restore.
LEMMA RestoreRole ==
  ASSUME NEW o \in Op, NEW r \in OpRecord, Staged(r) => r.owed \in Profile,
         NEW after \in PCs, after # "write", RestoreThen(o, r, after)
  PROVE  \E w \in OpRecord :
           /\ Become(o, w)
           /\ Point(w) = after /\ (w.pc = "write" => w.role # "user")
           /\ w = Free \/ Follows(w, r)
           /\ after # "free" => Follows(w, r)
  <1>1. CASE Staged(r)
    <2>1. Apply(o, r, r.owed, "restore", after)
      BY <1>1 DEF RestoreThen
    <2>2. PICK w \in OpRecord :
            Become(o, w) /\ w.pc = "write" /\ w.after = after /\ w.role = "restore" /\ Follows(w, r)
      BY <1>1, <2>1, ApplyPoint, Literals
    <2> QED BY <2>2 DEF Point
  <1>2. CASE ~Staged(r)
    <2> DEFINE w == At(r, after)
    <2>1. Become(o, w)
      BY <1>2 DEF RestoreThen
    <2>2. w \in OpRecord
      BY AtType
    <2>3. w.pc = after /\ (after # "free" => Follows(w, r)) /\ (after = "free" => w = Free)
      BY AtPoint DEF At
    <2> HIDE DEF w
    <2> QED BY <2>1, <2>2, <2>3 DEF Point
  <1> QED BY <1>1, <1>2

\* ... to the end of the request, or on to the next session.
LEMMA RestorePays ==
  ASSUME NEW o \in Op, NEW r \in OpRecord, Staged(r) => r.owed \in Profile,
         NEW after \in {"free", "relaunch"}, RestoreThen(o, r, after),
         r.kind = op[o].kind, r.todo = op[o].todo,
         after = "relaunch" <=> r.kind = "profile",
         Point(op[o]) \notin {"killRead", "kill"}
  PROVE  \E w \in OpRecord : Pays(o, w)
  <1> USE Literals
  <1>0. Free.kind # "profile"
    BY NameAssumption DEF Free, Kinds
  <1>1. PICK w \in OpRecord :
          /\ Become(o, w)
          /\ Point(w) = after /\ (w.pc = "write" => w.role # "user")
          /\ w = Free \/ Follows(w, r)
          /\ after # "free" => Follows(w, r)
    BY RestoreRole
  <1>2. Point(w) = "free" => w.kind # "profile"
    BY <1>0, <1>1 DEF Follows
  <1>3. Point(w) = "relaunch" => w.kind = "profile"
    BY <1>1 DEF Follows
  <1>4. SwitchOf(w)
    BY <1>1, <1>2, <1>3, EndSwitch
  <1>5. CASE after = "free"
    BY <1>1, <1>4, <1>5, NothingPays
  <1>6. CASE after = "relaunch"
    BY <1>1, <1>4, <1>6, KeepsPays DEF Follows
  <1> QED BY <1>5, <1>6

\* Every step of a request but the end of a write and of a switch.
LEMMA StepPays ==
  ASSUME TypeOK, ControlInv, NEW o \in Op, SwitchOf(op[o]),
         Step(o), ~EndWrite(o), ~Switched(o)
  PROVE  \E w \in OpRecord : Pays(o, w)
  <1> DEFINE r == op[o]
  <1> USE Literals
  <1>r. /\ r \in OpRecord /\ ControlOf(r) /\ SwitchOf(r)
        /\ Staged(r) => r.owed \in Profile
    BY RequestFacts
  <1>e. /\ OnError(r) \in {"free", "relaunch"} /\ AfterLaunch(r) \in {"free", "relaunch"}
        /\ OnError(r) = "relaunch" <=> r.kind = "profile"
        /\ AfterLaunch(r) = "relaunch" <=> r.kind = "profile"
    BY DEF OnError, AfterLaunch
  <1>f. Free \in OpRecord /\ Point(Free) = "free" /\ Free.kind # "profile" /\ Free.pc = "free"
    BY FreeType, NameAssumption DEF Free, Point, Kinds
  <1>g. SwitchOf(Free)
    BY <1>f, EndSwitch
  <1> HIDE DEF r
  <1> USE DEF r
  <1>2. CASE Launch(o)
    <2>1. r.pc = "launch"
      BY <1>2 DEF Launch
    <2>2. PICK w \in OpRecord :
            Become(o, w) /\ Follows(w, r) /\ Point(w) = "spawn" /\ (w.pc = "write" => w.role = "stage")
      <3>1. CASE RequiresStaging(r.active) /\ BootAvailable
        <4>1. Apply(o, r, Boot, "stage", "spawn")
          BY <1>2, <3>1 DEF Launch
        <4> QED BY <1>r, <4>1, ApplyPoint, ProfileAssumption DEF Point
      <3>2. CASE ~(RequiresStaging(r.active) /\ BootAvailable)
        <4>1. Become(o, At(r, "spawn"))
          BY <1>2, <3>2 DEF Launch
        <4> QED BY <1>r, <4>1, AtPoint, AtType DEF Point
      <3> QED BY <3>1, <3>2
    <2> QED BY <2>1, <2>2, PlainSwitch, KeepsPays DEF Follows, Point
  <1>3. CASE Spawn(o)
    <2>1. PICK n \in Name :
            Become(o, IF Staged(r) THEN [r EXCEPT !.pc = "wait", !.name = n]
                      ELSE At([r EXCEPT !.name = None, !.conv = None], AfterLaunch(r)))
      BY <1>3, <1>r DEF Spawn, OpRecord
    <2>2. r.pc = "spawn"
      BY <1>3 DEF Spawn
    <2>3. CASE Staged(r)
      <3> DEFINE w == [r EXCEPT !.pc = "wait", !.name = n]
      <3>1. w \in OpRecord /\ w.pc = "wait" /\ w.kind = r.kind /\ w.todo = r.todo
        BY <1>r DEF OpRecord
      <3>2. Become(o, w)
        BY <2>1, <2>3
      <3> HIDE DEF w
      <3> QED BY <2>2, <3>1, <3>2, PlainSwitch, KeepsPays DEF Point
    <2>4. CASE ~Staged(r)
      <3> DEFINE v == [r EXCEPT !.name = None, !.conv = None]
      <3>1. v \in OpRecord /\ v.kind = r.kind /\ v.todo = r.todo /\ v.owed = r.owed
        BY <1>r DEF OpRecord
      <3>2. Become(o, At(v, AfterLaunch(r)))
        BY <2>1, <2>4
      <3> HIDE DEF v
      <3>3. RestoreThen(o, v, AfterLaunch(r)) \/ settings' # settings
        BY <2>4, <3>1, <3>2 DEF RestoreThen, Staged
      <3>4. settings' = settings
        BY <1>3 DEF Spawn
      <3> QED BY <1>r, <1>e, <2>2, <3>1, <3>3, <3>4, RestorePays DEF Point, Staged
    <2> QED BY <2>3, <2>4
  <1>4. CASE SpawnFails(o)
    <2>1. RestoreThen(o, r, OnError(r)) /\ r.pc = "spawn"
      BY <1>4 DEF SpawnFails
    <2> QED BY <1>r, <1>e, <2>1, RestorePays DEF Point
  <1>5. CASE WaitEnds(o)
    <2>1. PICK status \in Statuses :
            IF r.kind = "rc" /\ r.conv = None
            THEN RestoreThen(o, [r EXCEPT !.status = status], "rcDecide")
            ELSE RestoreThen(o, r, AfterLaunch(r))
      BY <1>5 DEF WaitEnds
    <2>2. r.pc = "wait"
      BY <1>5 DEF WaitEnds
    <2>3. CASE r.kind = "rc" /\ r.conv = None
      <3> DEFINE v == [r EXCEPT !.status = status]
      <3>1. v \in OpRecord /\ v.kind = r.kind /\ v.owed = r.owed
        BY <1>r DEF OpRecord
      <3>2. RestoreThen(o, v, "rcDecide")
        BY <2>1, <2>3
      <3> HIDE DEF v
      <3>3. PICK w \in OpRecord :
              /\ Become(o, w) /\ Point(w) = "rcDecide" /\ Follows(w, v)
              /\ w.pc = "write" => w.role # "user"
        BY <1>r, <3>1, <3>2, RestoreRole DEF Staged
      <3>4. SwitchOf(w)
        BY <2>3, <3>1, <3>3 DEF SwitchOf, Follows, Point
      <3> QED BY <2>3, <3>3, <3>4, NothingPays
    <2>4. CASE ~(r.kind = "rc" /\ r.conv = None)
      <3>1. RestoreThen(o, r, AfterLaunch(r))
        BY <2>1, <2>4
      <3> QED BY <1>r, <1>e, <2>2, <3>1, RestorePays DEF Point
    <2> QED BY <2>3, <2>4
  <1>6. CASE KillRead(o)
    <2> DEFINE v == [r EXCEPT !.active = ActiveProfileName]
    <2>0. v \in OpRecord /\ Follows(v, r)
      BY <1>r, RequestFacts DEF OpRecord, Follows
    <2>1. r.pc = "killRead"
      BY <1>6 DEF KillRead
    <2>2. Apply(o, v, Boot, "stage", "kill") \/ Become(o, At(v, "kill"))
      BY <1>6 DEF KillRead
    <2> HIDE DEF v
    <2>3. PICK w \in OpRecord :
            Become(o, w) /\ Follows(w, v) /\ Point(w) = "kill" /\ (w.pc = "write" => w.role = "stage")
      <3>1. CASE Apply(o, v, Boot, "stage", "kill")
        BY <2>0, <3>1, ApplyPoint, ProfileAssumption DEF Point
      <3>2. CASE Become(o, At(v, "kill"))
        BY <2>0, <3>2, AtPoint, AtType DEF Point
      <3> QED BY <2>2, <3>1, <3>2
    <2> QED BY <2>0, <2>3, PlainSwitch, KeepsPays DEF Follows
  <1>7. CASE Kill(o)
    <2> DEFINE after == IF Alive(r.name) /\ r.kind # "kill" THEN "resCheck" ELSE OnError(r)
    <2>1. r.pc = "kill" /\ r.name \in Name
      BY <1>7, <1>r DEF Kill, ControlOf
    <2>2. sessions'[r.name] = Dead
      BY <1>7, <2>1 DEF Kill, TypeOK
    <2>a. /\ after \in {"resCheck", "free", "relaunch"}
          /\ after = "free" => r.kind # "profile"
          /\ after = "relaunch" => r.kind = "profile"
      BY <1>e
    <2>3. RestoreThen(o, r, after)
      BY <1>7 DEF Kill
    <2> HIDE DEF after
    <2>4. PICK w \in OpRecord :
            /\ Become(o, w) /\ Point(w) = after /\ (w.pc = "write" => w.role # "user")
            /\ w = Free \/ Follows(w, r)
            /\ after # "free" => Follows(w, r)
      BY <1>r, <2>a, <2>3, RestoreRole
    <2>5. SwitchOf(w)
      <3>1. CASE after = "resCheck"
        BY <2>4, <3>1, PlainSwitch
      <3>2. CASE after # "resCheck"
        BY <1>f, <2>a, <2>4, <3>2, EndSwitch DEF Follows
      <3> QED BY <3>1, <3>2
    <2>6. ASSUME NEW n \in Pending(r) \cap Name
          PROVE  n \in Pending(w) \/ sessions'[n] = Dead
      <3>1. r.kind = "profile" /\ (n \in r.todo \/ n = r.name)
        BY <2>6 DEF Pending
      <3>2. w.kind = "profile" /\ w.todo = r.todo
        BY <2>a, <2>4, <3>1 DEF Follows
      <3> QED BY <2>2, <3>1, <3>2 DEF Pending
    <2> QED BY <2>4, <2>5, <2>6 DEF Pays
  <1>8. CASE ResCheck(o)
    <2> DEFINE v == [r EXCEPT !.name = None, !.conv = None, !.active = None]
               name == IF r.name \in Name /\ Alive(r.name) THEN None ELSE r.name
               u == [r EXCEPT !.pc = "launch", !.active = ActiveProfileName, !.name = name]
    <2>1. r.pc = "resCheck" /\ settings' = settings
      BY <1>8 DEF ResCheck
    <2>2. CASE r.conv \notin transcripts \/ ActiveSessionUsing(r.conv)
      <3>1. Become(o, At(v, OnError(r)))
        BY <1>8, <2>2 DEF ResCheck
      <3>2. v \in OpRecord /\ v.kind = r.kind /\ v.todo = r.todo /\ v.owed = r.owed
        BY <1>r DEF OpRecord
      <3> HIDE DEF v
      <3>3. ~Staged(v)
        BY <1>r, <2>1, <3>2 DEF ControlOf, Staged
      <3>4. RestoreThen(o, v, OnError(r))
        BY <2>1, <3>1, <3>3 DEF RestoreThen
      <3> QED BY <1>e, <2>1, <3>2, <3>3, <3>4, RestorePays DEF Point
    <2>3. CASE ~(r.conv \notin transcripts \/ ActiveSessionUsing(r.conv))
      <3>1. Become(o, u)
        BY <1>8, <2>3 DEF ResCheck
      <3>2. ActiveProfileName \in Profile \union {None} /\ name \in Name \union {None}
        BY <1>r, RequestFacts DEF OpRecord
      <3> HIDE DEF name
      <3>3. u \in OpRecord /\ u.pc = "launch" /\ u.kind = r.kind /\ u.todo = r.todo
        BY <1>r, <3>2, LaunchingType DEF OpRecord
      <3> HIDE DEF u
      <3> QED BY <2>1, <3>1, <3>3, PlainSwitch, KeepsPays DEF Point
    <2> QED BY <2>2, <2>3
  <1>9. CASE RcSend(o)
    <2>1. r.pc = "rcSend" /\ r.kind = "rc"
      BY <1>9, <1>r DEF RcSend, SwitchOf, Point
    <2>2. CASE Alive(r.name)
      <3>1. Become(o, At(r, "wait"))
        BY <1>9, <2>2 DEF RcSend
      <3>2. At(r, "wait") \in OpRecord /\ Point(At(r, "wait")) = "wait" /\ At(r, "wait").pc = "wait"
        BY <1>r, AtType, AtPoint DEF Point
      <3> QED BY <2>1, <3>1, <3>2, PlainSwitch, NothingPays
    <2>3. CASE ~Alive(r.name)
      <3>1. RestoreThen(o, r, "free")
        BY <1>9, <2>3 DEF RcSend
      <3> QED BY <1>r, <2>1, <3>1, RestorePays DEF Point
    <2> QED BY <2>2, <2>3
  <1>10. CASE RcDecide(o)
    <2>1. PICK c \in ConvIds(r.name) :
            Become(o, IF r.status = "ok" \/ c = None THEN Free
                      ELSE [r EXCEPT !.pc = "killRead", !.conv = c])
      BY <1>10 DEF RcDecide
    <2>2. r.pc = "rcDecide" /\ r.kind = "rc" /\ r.name \in Name
      BY <1>10, <1>r DEF RcDecide, SwitchOf, Point, ControlOf
    <2>3. CASE r.status = "ok" \/ c = None
      BY <1>f, <1>g, <2>1, <2>2, <2>3, NothingPays
    <2>4. CASE ~(r.status = "ok" \/ c = None)
      <3> DEFINE w == [r EXCEPT !.pc = "killRead", !.conv = c]
      <3>1. c \in Conv
        BY <2>2, <2>4, ConvIdsType
      <3>2. w \in OpRecord /\ w.pc = "killRead"
        BY <1>r, <3>1 DEF OpRecord
      <3>3. Become(o, w)
        BY <2>1, <2>4
      <3> HIDE DEF w
      <3> QED BY <2>2, <3>2, <3>3, PlainSwitch, NothingPays DEF Point
    <2> QED BY <2>3, <2>4
  <1>12. CASE RelaunchNext(o)
    <2> DEFINE v == [r EXCEPT !.name = None, !.conv = None, !.active = None]
    <2>1. v \in OpRecord /\ v.pc = r.pc /\ v.kind = r.kind /\ v.todo = r.todo
      BY <1>r DEF OpRecord
    <2>2. /\ v.pc = "relaunch"
          /\ \/ v.todo = {} /\ Become(o, Free)
             \/ \E n \in v.todo : \E c \in ConvIds(n) :
                  LET skip == c = None \/ (Alive(n) /\ sessions[n].tui = "working")
                  IN /\ Become(o, IF skip THEN [v EXCEPT !.todo = @ \ {n}]
                                  ELSE [v EXCEPT !.pc = "killRead", !.name = n, !.conv = c,
                                                 !.todo = @ \ {n}])
                     /\ sessions' = IF skip /\ Alive(n)
                                    THEN [sessions EXCEPT ![n].spared = TRUE] ELSE sessions
      BY <1>12 DEF RelaunchNext
    <2> HIDE DEF v
    <2>4. r.kind = "profile" /\ Pending(r) = r.todo
      BY <1>r, <2>1, <2>2 DEF SwitchOf, Point, Pending
    <2>5. CASE v.todo = {} /\ Become(o, Free)
      BY <1>f, <1>g, <2>1, <2>4, <2>5 DEF Pays
    <2>6. CASE ~(v.todo = {} /\ Become(o, Free))
      <3>1. PICK n \in v.todo : \E c \in ConvIds(n) :
              \/ /\ Become(o, [v EXCEPT !.todo = @ \ {n}])
                 /\ sessions' = IF Alive(n) THEN [sessions EXCEPT ![n].spared = TRUE] ELSE sessions
              \/ /\ c # None
                 /\ Become(o, [v EXCEPT !.pc = "killRead", !.name = n, !.conv = c,
                                        !.todo = @ \ {n}])
        BY <2>2, <2>6
      <3>c. PICK c \in ConvIds(n) :
              \/ /\ Become(o, [v EXCEPT !.todo = @ \ {n}])
                 /\ sessions' = IF Alive(n) THEN [sessions EXCEPT ![n].spared = TRUE] ELSE sessions
              \/ /\ c # None
                 /\ Become(o, [v EXCEPT !.pc = "killRead", !.name = n, !.conv = c,
                                        !.todo = @ \ {n}])
        BY <3>1
      <3>2. n \in Name /\ (c # None => c \in Conv)
        BY <2>1, <3>1, ConvIdsType DEF OpRecord
      <3>3. CASE /\ Become(o, [v EXCEPT !.todo = @ \ {n}])
                 /\ sessions' = IF Alive(n) THEN [sessions EXCEPT ![n].spared = TRUE] ELSE sessions
        <4> DEFINE w == [v EXCEPT !.todo = @ \ {n}]
        <4>1. /\ w \in OpRecord /\ w.pc = "relaunch" /\ w.kind = "profile"
              /\ w.todo = v.todo \ {n}
          BY <2>1, <2>2, <2>4 DEF OpRecord
        <4>0. Become(o, w)
          BY <3>3
        <4> HIDE DEF w
        <4>2. sessions'[n] = Dead \/ sessions'[n].spared
          <5>1. CASE Alive(n)
            <6>1. [sessions[n] EXCEPT !.spared = TRUE].spared
              BY <3>2, <5>1, AliveType DEF LiveSession
            <6>2. sessions'[n] = [sessions[n] EXCEPT !.spared = TRUE]
              BY <3>2, <3>3, <5>1 DEF TypeOK
            <6> QED BY <6>1, <6>2
          <5>2. CASE ~Alive(n)
            BY <3>3, <5>2 DEF Alive
          <5> QED BY <5>1, <5>2
        <4>3. SwitchOf(w)
          BY <4>1, EndSwitch DEF Point
        <4>4. Pending(w) = v.todo \ {n}
          BY <4>1 DEF Pending, Point
        <4> QED BY <2>1, <2>4, <4>0, <4>1, <4>2, <4>3, <4>4 DEF Pays
      <3>4. CASE c # None /\ Become(o, [v EXCEPT !.pc = "killRead", !.name = n, !.conv = c,
                                                 !.todo = @ \ {n}])
        <4> DEFINE w == [v EXCEPT !.pc = "killRead", !.name = n, !.conv = c, !.todo = @ \ {n}]
        <4>1. /\ w \in OpRecord /\ w.pc = "killRead" /\ w.kind = "profile" /\ w.name = n
              /\ w.todo = v.todo \ {n}
          BY <2>1, <2>2, <2>4, <3>2, <3>4 DEF OpRecord
        <4>2. Become(o, w)
          BY <3>4
        <4> HIDE DEF w
        <4>3. SwitchOf(w)
          BY <4>1, PlainSwitch DEF Point
        <4>4. Pending(w) = (v.todo \ {n}) \union {n}
          BY <4>1 DEF Pending, Point
        <4> QED BY <2>1, <2>4, <4>1, <4>2, <4>3, <4>4 DEF Pays
      <3> QED BY <3>c, <3>3, <3>4
    <2> QED BY <2>5, <2>6
  <1> QED BY <1>2, <1>3, <1>4, <1>5, <1>6, <1>7, <1>8, <1>9, <1>10, <1>12 DEF Step

\* A session that is not new keeps its credentials, and stays spared.
KeepsCred(n) ==
  sessions'[n] # Dead =>
    \/ sessions'[n].cred = None
    \/ /\ Alive(n) /\ sessions'[n].cred = sessions[n].cred
       /\ sessions[n].spared => sessions'[n].spared

\* So it is in a step of a request ...
LEMMA StepCreds ==
  ASSUME TypeOK, ControlInv, NEW o \in Op, Start(o) \/ Step(o), NEW m \in Name
  PROVE  KeepsCred(m)
  <1> DEFINE r == op[o]
  <1>r. /\ r \in OpRecord /\ ControlOf(r)
        /\ sessions \in [Name -> LiveSession \union {Dead}]
    BY RequestFacts DEF TypeOK
  <1>1. CASE Spawn(o)
    <2>0. PICK n \in (IF r.name = None THEN Name ELSE {r.name}) :
            \E tui \in {"idle"} \union (IF "dialog" \in Env THEN {"dialog"} ELSE {}) :
              sessions' = [sessions EXCEPT ![n] = NewSessionRecord(r.conv, tui)]
      BY <1>1, Zenon DEF Spawn
    <2>1. PICK tui \in {"idle", "dialog"} :
            sessions' = [sessions EXCEPT ![n] = NewSessionRecord(r.conv, tui)]
      BY <2>0
    <2>2. NewSessionRecord(r.conv, tui).cred = None
      BY DEF NewSessionRecord
    <2> QED BY <1>r, <2>1, <2>2 DEF Alive, KeepsCred
  <1>2. CASE Kill(o)
    BY <1>r, <1>2 DEF Kill, Alive, KeepsCred
  <1>3. CASE RcSend(o)
    <2>1. CASE Alive(r.name)
      <3>1. r.name \in Name /\ sessions' = [sessions EXCEPT ![r.name].bridge = FALSE]
        BY <1>3, <1>r, <2>1 DEF RcSend, ControlOf
      <3>2. /\ [sessions[r.name] EXCEPT !.bridge = FALSE].cred = sessions[r.name].cred
            /\ [sessions[r.name] EXCEPT !.bridge = FALSE].spared = sessions[r.name].spared
        BY <2>1, <3>1, AliveType DEF LiveSession
      <3> QED BY <1>r, <2>1, <3>1, <3>2 DEF Alive, KeepsCred
    <2>2. CASE ~Alive(r.name)
      BY <1>3, <1>r, <2>2 DEF RcSend, Alive, KeepsCred
    <2> QED BY <2>1, <2>2
  <1>4. CASE RelaunchNext(o)
    <2>1. \/ sessions' = sessions
          \/ \E n \in [r EXCEPT !.name = None, !.conv = None, !.active = None].todo :
               Alive(n) /\ sessions' = [sessions EXCEPT ![n].spared = TRUE]
      BY <1>4 DEF RelaunchNext
    <2>2. [r EXCEPT !.name = None, !.conv = None, !.active = None].todo \subseteq Name
      BY <1>r DEF OpRecord
    <2>3. ASSUME NEW n \in Name, Alive(n),
                 sessions' = [sessions EXCEPT ![n].spared = TRUE]
          PROVE  KeepsCred(m)
      <3>1. /\ [sessions[n] EXCEPT !.spared = TRUE].cred = sessions[n].cred
            /\ [sessions[n] EXCEPT !.spared = TRUE].spared
        BY <2>3, AliveType DEF LiveSession
      <3> QED BY <1>r, <2>3, <3>1 DEF Alive, KeepsCred
    <2> QED BY <2>1, <2>2, <2>3 DEF Alive, KeepsCred
  <1>5. CASE ~(Spawn(o) \/ Kill(o) \/ RcSend(o) \/ RelaunchNext(o))
    <2>1. sessions' = sessions
      <3>1. CASE Start(o)
        BY <3>1, StepFrame
      <3>2. CASE Step(o)
        BY <1>5, <3>2 DEF Step, EndWrite, Launch, SpawnFails, WaitEnds, KillRead, ResCheck,
                          RcDecide, Switched
      <3> QED BY <3>1, <3>2
    <2> QED BY <2>1 DEF Alive, KeepsCred
  <1> QED BY <1>1, <1>2, <1>3, <1>4, <1>5

\* ... and around the requests, but for the first turn of a session.
LEMMA EnvironmentCreds ==
  ASSUME TypeOK, Environment, NEW m \in Name
  PROVE  \/ KeepsCred(m)
         \/ sessions'[m].cred = CredOf(settings)
  <1>t. sessions \in [Name -> LiveSession \union {Dead}]
    BY DEF TypeOK
  <1>1. CASE Crash \/ \E o \in Op : WriteFails(o)
    BY <1>1 DEF Crash, WriteFails, Alive, KeepsCred
  <1>2. ASSUME NEW n \in Name, Turn(n)
        PROVE  KeepsCred(m) \/ sessions'[m].cred = CredOf(settings)
    <2> DEFINE cred == IF sessions[n].cred = None THEN CredOf(settings) ELSE sessions[n].cred
               s == [sessions[n] EXCEPT !.tui = "working", !.cred = cred]
    <2>1. Alive(n) /\ sessions' = [sessions EXCEPT ![n] = s]
      BY <1>t, <1>2 DEF Turn
    <2>2. s.cred = cred /\ s.spared = sessions[n].spared
      BY <2>1, AliveType DEF LiveSession
    <2>3. cred = CredOf(settings) \/ cred = sessions[n].cred
      OBVIOUS
    <2> HIDE DEF s, cred
    <2> QED BY <1>t, <2>1, <2>2, <2>3 DEF Alive, KeepsCred
  <1>3. ASSUME NEW n \in Name, TurnEnds(n) \/ DialogOpens(n) \/ DialogAnswered(n)
        PROVE  KeepsCred(m)
    <2>1. PICK tui \in {"idle", "working", "dialog"} :
            Alive(n) /\ sessions' = [sessions EXCEPT ![n].tui = tui]
      BY <1>3 DEF TurnEnds, DialogOpens, DialogAnswered
    <2>2. /\ [sessions[n] EXCEPT !.tui = tui].cred = sessions[n].cred
          /\ [sessions[n] EXCEPT !.tui = tui].spared = sessions[n].spared
      BY <2>1, AliveType DEF LiveSession
    <2> QED BY <1>t, <2>1, <2>2 DEF Alive, KeepsCred
  <1>4. ASSUME NEW n \in Name, BridgeChanges(n)
        PROVE  KeepsCred(m)
    <2> DEFINE s == [sessions[n] EXCEPT !.bridge = ~sessions[n].bridge]
    <2>1. Alive(n) /\ sessions' = [sessions EXCEPT ![n] = s]
      BY <1>t, <1>4 DEF BridgeChanges
    <2>2. s.cred = sessions[n].cred /\ s.spared = sessions[n].spared
      BY <2>1, AliveType DEF LiveSession
    <2> HIDE DEF s
    <2> QED BY <1>t, <2>1, <2>2 DEF Alive, KeepsCred
  <1>5. ASSUME NEW n \in Name, SessionExits(n)
        PROVE  KeepsCred(m)
    BY <1>t, <1>5 DEF SessionExits, Alive, KeepsCred
  <1>6. ASSUME NEW n \in Name, StartedByHand(n)
        PROVE  KeepsCred(m)
    <2>1. NewSessionRecord(None, "idle").cred = None
      BY DEF NewSessionRecord
    <2> QED BY <1>t, <1>6, <2>1 DEF StartedByHand, Alive, KeepsCred
  <1> QED BY <1>1, <1>2, <1>3, <1>4, <1>5, <1>6 DEF Environment

\* A request that begins asks of no session anything.
LEMMA StartPays ==
  ASSUME CleanSwitching, SerialInv, ~hurt, NEW o \in Op, Start(o)
  PROVE  \E w \in OpRecord : Become(o, w) /\ SwitchOf(w)
  <1> USE Literals
  <1>0. TypeOK /\ ControlInv /\ KeepsChoice /\ Serial
    BY DEF SerialInv, SafeInv, CleanSwitching
  <1>f. /\ Free \in OpRecord /\ Free.todo = {}
        /\ ActiveProfileName \in Profile \union {None}
        /\ settings = wanted
    BY <1>0, FreeType, RequestFacts, ControlPoint DEF Free, KeepsChoice, Quiescent
  <1>1. ASSUME NEW n \in Name \union {None}, StartNew(o, n)
        PROVE  \E w \in OpRecord : Become(o, w) /\ SwitchOf(w)
    <2>1. PICK c \in FreshConvs :
            Become(o, [Free EXCEPT !.kind = "new", !.pc = "launch", !.name = n,
                                   !.conv = c, !.active = ActiveProfileName])
      BY <1>1 DEF StartNew
    <2> DEFINE w == [Free EXCEPT !.kind = "new", !.pc = "launch", !.name = n,
                                 !.conv = c, !.active = ActiveProfileName]
    <2>2. c \in Conv
      BY DEF FreshConvs
    <2>3. w \in OpRecord /\ w.pc = "launch" /\ Become(o, w)
      BY <1>f, <2>1, <2>2 DEF OpRecord
    <2> HIDE DEF w
    <2> QED BY <2>3, PlainSwitch DEF Point
  <1>2. ASSUME NEW n \in Name \union {None}, NEW p \in Profile, StartNewWith(o, n, p)
        PROVE  FALSE
    BY <1>2 DEF StartNewWith, Admit, CleanSwitching
  <1>3. ASSUME NEW n \in Name, StartKill(o, n)
        PROVE  \E w \in OpRecord : Become(o, w) /\ SwitchOf(w)
    <2> DEFINE w == [Free EXCEPT !.kind = "kill", !.pc = "killRead", !.name = n]
    <2>1. w \in OpRecord /\ w.pc = "killRead" /\ Become(o, w)
      BY <1>f, <1>3 DEF OpRecord, StartKill
    <2> HIDE DEF w
    <2> QED BY <2>1, PlainSwitch DEF Point
  <1>4. ASSUME NEW n \in Name, StartRc(o, n)
        PROVE  \E w \in OpRecord : Become(o, w) /\ SwitchOf(w)
    <2> DEFINE v == [Free EXCEPT !.kind = "rc", !.name = n, !.active = ActiveProfileName]
    <2>1. v \in OpRecord /\ v.kind = "rc"
      BY <1>f DEF OpRecord
    <2>2. Apply(o, v, Boot, "stage", "rcSend") \/ Become(o, At(v, "rcSend"))
      BY <1>4 DEF StartRc
    <2> HIDE DEF v
    <2>3. PICK w \in OpRecord : /\ Become(o, w) /\ Point(w) = "rcSend" /\ Follows(w, v)
                                /\ w.pc = "write" => w.role = "stage"
      <3>1. CASE Apply(o, v, Boot, "stage", "rcSend")
        BY <2>1, <3>1, ApplyPoint, ProfileAssumption DEF Point
      <3>2. CASE Become(o, At(v, "rcSend"))
        BY <2>1, <3>2, AtPoint, AtType DEF Point
      <3> QED BY <2>2, <3>1, <3>2
    <2> QED BY <2>1, <2>3 DEF SwitchOf, Follows, Point
  <1>5. ASSUME NEW c \in Conv, StartResume(o, c)
        PROVE  \E w \in OpRecord : Become(o, w) /\ SwitchOf(w)
    <2> DEFINE w == [Free EXCEPT !.kind = "resume", !.pc = "resCheck", !.conv = c]
    <2>1. w \in OpRecord /\ w.pc = "resCheck" /\ Become(o, w)
      BY <1>f, <1>5 DEF OpRecord, StartResume
    <2> HIDE DEF w
    <2> QED BY <2>1, PlainSwitch DEF Point
  <1>6. ASSUME NEW p \in Profile, StartProfile(o, p)
        PROVE  \E w \in OpRecord : Become(o, w) /\ SwitchOf(w)
    <2> DEFINE v == [Free EXCEPT !.kind = "profile", !.active = p, !.old = CredOf(settings)]
    <2>1. v \in OpRecord /\ v.kind = "profile" /\ v.old = CredOf(wanted) /\ v.todo = {}
      BY <1>f, CredOfType DEF OpRecord
    <2>2. Apply(o, v, p, "user", "switched")
      BY <1>6 DEF StartProfile
    <2> HIDE DEF v
    <2>3. PICK w \in OpRecord :
            Become(o, w) /\ w.pc = "write" /\ w.after = "switched" /\ Follows(w, v)
      BY <2>1, <2>2, ApplyPoint
    <2> QED BY <2>1, <2>3 DEF SwitchOf, Follows, Point
  <1> QED BY <1>1, <1>2, <1>3, <1>4, <1>5, <1>6 DEF Start

\* Where a write leads.
LEMMA EndWriteFollows ==
  ASSUME TypeOK, ControlInv, NEW o \in Op, EndWrite(o)
  PROVE  \E w \in OpRecord :
           /\ Become(o, w) /\ w.pc = op[o].after /\ w.pc # "write"
           /\ w.pc # "free" => Follows(w, op[o]) /\ w.active = op[o].active
           /\ w.pc = "free" => w = Free
  <1> DEFINE r == op[o]
             v == Written(r, IF r.role = "stage" THEN r.active ELSE None)
             w == At(v, r.after)
  <1> USE Literals
  <1>1. r \in OpRecord /\ ControlOf(r) /\ r.pc = "write" /\ Become(o, w)
    BY RequestFacts DEF EndWrite
  <1>2. r.after \in PCs /\ r.after # "write" /\ r.active \in Profile \union {None}
    BY <1>1 DEF ControlOf, OpRecord, Roles
  <1>3. v \in OpRecord
    BY <1>1, <1>2, WrittenType
  <1>4. Follows(v, r) /\ v.active = r.active
    BY <1>1 DEF Written, Follows, OpRecord
  <1>5. w \in OpRecord /\ w.pc = r.after /\ (r.after # "free" => Follows(w, v))
    BY <1>2, <1>3, AtType, AtPoint
  <1>6. r.after # "free" => w.active = v.active
    BY <1>3 DEF At, OpRecord
  <1>7. r.after = "free" => w = Free
    BY DEF At
  <1> HIDE DEF v, w
  <1> QED BY <1>1, <1>2, <1>4, <1>5, <1>6, <1>7 DEF Follows

\* A request goes on as w while the others are idle and the choice stands.
LEMMA OneSettled ==
  ASSUME TypeOK, CredInv, NEW o \in Op, NEW w \in OpRecord, Become(o, w), SwitchOf(w),
         \A q \in Op : q # o => op[q].pc = "free",
         UNCHANGED <<hurt, wanted>>,
         op[o].pc # "switched",
         \A n \in Name : KeepsCred(n),
         \A n \in Pending(op[o]) \cap Name :
           n \in Pending(w) \/ sessions'[n] = Dead \/ sessions'[n].spared
  PROVE  CredInv'
  <1>1. \A q \in Op : op'[q] = IF q = o THEN w ELSE op[q]
    BY DEF TypeOK, Become
  <1>2. \A q \in Op : SwitchOf(op[q])'
    BY <1>1 DEF CredInv, SwitchOf, Point, CredOf
  <1>3. \A q \in Op : q # o => Pending(op[q]) = {} /\ op[q].pc # "switched"
    BY DEF CredInv, SwitchOf, Point, Pending
  <1>4. ASSUME NEW n \in Name, sessions'[n] # Dead
        PROVE  Settled(n)'
    <2>1. CASE sessions'[n].cred = None
      BY <2>1 DEF Settled
    <2>2. CASE Alive(n) /\ sessions'[n].cred = sessions[n].cred
               /\ (sessions[n].spared => sessions'[n].spared)
      <3>1. \/ sessions[n].cred \in {None, OAuth, CredOf(wanted)} \/ sessions[n].spared
            \/ n \in Pending(op[o])
        BY <1>3, <2>2 DEF CredInv, Settled
      <3>2. CASE sessions[n].cred \in {None, OAuth, CredOf(wanted)} \/ sessions[n].spared
        BY <2>2, <3>2 DEF Settled, CredOf
      <3>3. CASE n \in Pending(op[o])
        <4>1. n \in Pending(op'[o]) \/ sessions'[n].spared
          BY <1>1, <1>4, <3>3
        <4> QED BY <4>1 DEF Settled, Pending, Point
      <3> QED BY <3>1, <3>2, <3>3
    <2> QED BY <1>4, <2>1, <2>2 DEF KeepsCred
  <1> QED BY <1>2, <1>4 DEF CredInv, Alive

\* Every step keeps the invariant.
LEMMA NextCreds ==
  ASSUME CleanSwitching, SerialInv, CredInv, Next
  PROVE  CredInv'
  <1>0. /\ TypeOK /\ ControlInv /\ OneRequest /\ Serial /\ ~hurt
        /\ op \in [Op -> OpRecord]
    BY DEF SerialInv, SafeInv, CleanSwitching, CredInv, TypeOK
  <1>o. ASSUME NEW o \in Op, Start(o) \/ Step(o)
        PROVE  \A q \in Op : q # o => op[q].pc = "free"
    BY <1>0, <1>o, ControlPoint DEF OneRequest
  <1>1. ASSUME NEW o \in Op, Start(o)
        PROVE  CredInv'
    <2>1. PICK w \in OpRecord : Become(o, w) /\ SwitchOf(w)
      BY <1>0, <1>1, StartPays
    <2>2. op[o].pc = "free"
      BY <1>0, <1>1, ControlPoint
    <2>3. UNCHANGED <<hurt, wanted>>
      BY <1>0, <1>1, <2>2, StepFrame DEF EndWrite, ghosts
    <2>4. Pending(op[o]) = {}
      BY <2>2 DEF CredInv, SwitchOf, Pending, Point
    <2>5. \A n \in Name : KeepsCred(n)
      BY <1>0, <1>1, StepCreds
    <2> QED BY <1>0, <1>1, <1>o, <2>1, <2>2, <2>3, <2>4, <2>5, OneSettled
  <1>2. ASSUME NEW o \in Op, EndWrite(o)
        PROVE  CredInv'
    <2> DEFINE r == op[o]
    <2>1. PICK w \in OpRecord :
            /\ Become(o, w) /\ w.pc = r.after /\ w.pc # "write"
            /\ w.pc # "free" => Follows(w, r) /\ w.active = r.active
            /\ w.pc = "free" => w = Free
      BY <1>0, <1>2, EndWriteFollows
    <2>2. r.pc = "write" /\ ControlOf(r) /\ SwitchOf(r) /\ r.role \in Roles
      BY <1>0, <1>2, RequestFacts DEF EndWrite, CredInv, OpRecord
    <2>3. sessions' = sessions /\ hurt' = FALSE
      BY <1>0, <1>2 DEF EndWrite
    <2>4. \A q \in Op : q # o => op[q].pc = "free"
      BY <1>2, <1>o DEF Step
    <2>5. CASE r.role = "user"
      <3>1. /\ r.after = "switched" /\ r.old = CredOf(wanted)
            /\ r.active = r.write /\ r.write \in Profile /\ wanted' = r.write
        BY <1>2, <2>2, <2>5 DEF SwitchOf, ControlOf, EndWrite
      <3>2. /\ w.pc = "switched" /\ w.old = CredOf(wanted) /\ w.active = wanted'
            /\ w.active \in Profile /\ w.kind = "profile" /\ w.todo = {}
        BY <2>1, <2>2, <3>1 DEF Follows, SwitchOf, Point
      <3>3. \A q \in Op : op'[q] = IF q = o THEN w ELSE op[q]
        BY <1>0, <2>1 DEF Become
      <3>4. ASSUME NEW q \in Op PROVE SwitchOf(op[q])'
        <4>1. CASE q = o
          BY <3>2, <3>3, <4>1 DEF SwitchOf, Point
        <4>2. CASE q # o
          <5>1. SwitchOf(op[q]) /\ op[q].pc = "free"
            BY <2>4, <4>2 DEF CredInv
          <5> QED BY <3>3, <4>2, <5>1 DEF SwitchOf, Point
        <4> QED BY <4>1, <4>2
      <3>5. ASSUME NEW n \in Name, Alive(n)
            PROVE  Settled(n)'
        <4>1. \A q \in Op : Pending(op[q]) = {} /\ op[q].pc # "switched"
          <5>1. CASE r.kind = "profile"
            BY <2>2, <2>4, <3>1 DEF CredInv, SwitchOf, Pending, Point
          <5> QED BY <2>2, <2>4, <3>1, <5>1 DEF CredInv, SwitchOf, Pending, Point
        <4>2. sessions[n].cred \in {None, OAuth, CredOf(wanted)} \/ sessions[n].spared
          BY <3>5, <4>1 DEF CredInv, Settled
        <4>3. op'[o].pc = "switched" /\ op'[o].old = CredOf(wanted)
          BY <3>2, <3>3
        <4> QED BY <2>3, <4>2, <4>3 DEF Settled
      <3> QED BY <2>3, <3>4, <3>5 DEF CredInv, Alive
    <2>6. CASE r.role # "user"
      <3>1. UNCHANGED <<hurt, wanted>>
        BY <1>0, <1>2, <2>3, <2>6 DEF EndWrite, TypeOK
      <3>2. w.pc # "switched"
        BY <2>1, <2>2, <2>6 DEF ControlOf, Roles
      <3>3. Free.kind # "profile" /\ Free.pc = "free"
        BY NameAssumption DEF Free, Kinds
      <3>4. SwitchOf(w)
        BY <2>1, <2>2, <3>2, <3>3 DEF SwitchOf, Follows, Point
      <3>5. Pending(r) \subseteq Pending(w)
        BY <2>1, <2>2, <3>3 DEF Pending, Follows, Point, SwitchOf
      <3>6. \A n \in Name : KeepsCred(n)
        BY <2>3 DEF KeepsCred, Alive
      <3> QED BY <1>0, <2>1, <2>2, <2>4, <3>1, <3>4, <3>5, <3>6, OneSettled
    <2> QED BY <2>5, <2>6
  <1>3. ASSUME NEW o \in Op, Switched(o)
        PROVE  CredInv'
    <2> DEFINE r == op[o]
               w == IF r.old = OAuth \/ r.old = Auth[r.active] THEN Free
                    ELSE [r EXCEPT !.pc = "relaunch", !.active = None, !.old = OAuth,
                                   !.todo = {n \in Name : Alive(n)}]
    <2>1. /\ r.pc = "switched" /\ Become(o, w)
          /\ UNCHANGED <<sessions, hurt, wanted>>
      BY <1>3 DEF Switched, ghosts
    <2>2. /\ r \in OpRecord /\ SwitchOf(r)
          /\ r.kind = "profile" /\ r.todo = {} /\ CredOf(wanted) = Auth[r.active]
      BY <1>0, <2>1 DEF CredInv, SwitchOf, Point, CredOf
    <2>3. \A q \in Op : op'[q] = IF q = o THEN w ELSE op[q]
      BY <1>0, <2>1 DEF Become
    <2>4. \A q \in Op : q # o => op[q].pc = "free"
      BY <1>3, <1>o DEF Step
    <2>5. \A n \in Name : Alive(n) =>
            \/ sessions[n].cred \in {None, OAuth, CredOf(wanted)} \/ sessions[n].spared
            \/ sessions[n].cred = r.old
      <3>1. \A q \in Op : Pending(op[q]) = {}
        BY <2>1, <2>2, <2>4 DEF CredInv, SwitchOf, Pending, Point
      <3> QED BY <2>4, <3>1 DEF CredInv, Settled
    <2>6. CASE r.old = OAuth \/ r.old = Auth[r.active]
      <3>1. w = Free /\ Free.kind # "profile" /\ Free.pc = "free"
        BY <2>6, NameAssumption DEF Free, Kinds
      <3> HIDE DEF w
      <3>2. \A q \in Op : SwitchOf(op[q])'
        BY <2>1, <2>3, <3>1 DEF CredInv, SwitchOf, Point, CredOf
      <3>3. \A n \in Name : Alive(n) =>
              sessions[n].cred \in {None, OAuth, CredOf(wanted)} \/ sessions[n].spared
        BY <2>2, <2>5, <2>6
      <3> QED BY <1>0, <2>1, <3>2, <3>3 DEF CredInv, Alive, Settled, CredOf
    <2>7. CASE ~(r.old = OAuth \/ r.old = Auth[r.active])
      <3>1. w.pc = "relaunch" /\ w.kind = "profile" /\ w.todo = {n \in Name : Alive(n)}
        BY <2>2, <2>7 DEF OpRecord
      <3> HIDE DEF w
      <3>2. SwitchOf(w)
        BY <3>1 DEF SwitchOf, Point
      <3>3. \A q \in Op : SwitchOf(op[q])'
        BY <2>1, <2>3, <3>2 DEF CredInv, SwitchOf, Point, CredOf
      <3>4. \A n \in Name : Alive(n) => n \in Pending(op'[o])
        BY <2>3, <3>1 DEF Pending
      <3>5. \A n \in Name : Alive(n) => Settled(n)'
        BY <3>4 DEF Settled, Pending, Point
      <3> QED BY <1>0, <2>1, <3>3, <3>5 DEF CredInv, Alive
    <2> QED BY <2>6, <2>7
  <1>4. ASSUME NEW o \in Op, Step(o), ~EndWrite(o), ~Switched(o)
        PROVE  CredInv'
    <2>1. PICK w \in OpRecord : Pays(o, w)
      BY <1>0, <1>4, StepPays DEF CredInv
    <2>2. UNCHANGED <<hurt, wanted>>
      BY <1>0, <1>4, StepFrame DEF ghosts
    <2>3. \A n \in Name : KeepsCred(n)
      BY <1>0, <1>4, StepCreds
    <2>4. op[o].pc # "switched"
      <3>1. CASE RelaunchNext(o)
        <4> DEFINE v == [op[o] EXCEPT !.name = None, !.conv = None, !.active = None]
        <4>1. v.pc = "relaunch"
          BY <3>1 DEF RelaunchNext
        <4>2. v.pc = op[o].pc
          BY <1>0 DEF OpRecord
        <4> QED BY <4>1, <4>2
      <3>2. CASE ~RelaunchNext(o)
        BY <1>4, <3>2 DEF Step, Launch, Spawn, SpawnFails, WaitEnds, KillRead, Kill, ResCheck,
                          RcSend, RcDecide
      <3> QED BY <3>1, <3>2
    <2> QED BY <1>0, <1>4, <1>o, <2>1, <2>2, <2>3, <2>4, OneSettled DEF Pays
  <1>5. ~Crash /\ \A o \in Op : ~WriteFails(o)
    BY DEF CleanSwitching, Crash, WriteFails, MayFail
  <1>6. CASE Environment
    <2>1. UNCHANGED <<op, hurt, wanted>>
      BY <1>5, <1>6, QuietEnvironment DEF ghosts
    <2>2. \A q \in Op : SwitchOf(op[q])'
      BY <2>1 DEF CredInv, SwitchOf, Point, CredOf
    <2>3. ASSUME NEW n \in Name, sessions'[n] # Dead
          PROVE  Settled(n)'
      <3>1. CASE sessions'[n].cred = CredOf(settings)
        BY <1>0, <2>1, <3>1, SettingsSelect DEF Settled, CredOf
      <3>2. CASE sessions'[n].cred = None
        BY <3>2 DEF Settled
      <3>3. CASE Alive(n) /\ sessions'[n].cred = sessions[n].cred
                 /\ (sessions[n].spared => sessions'[n].spared)
        <4>1. Settled(n)
          BY <3>3 DEF CredInv
        <4> QED BY <2>1, <3>3, <4>1 DEF Settled, Pending, Point, CredOf
      <3> QED BY <1>0, <1>6, <2>3, <3>1, <3>2, <3>3, EnvironmentCreds DEF KeepsCred
    <2> QED BY <1>0, <2>1, <2>2, <2>3 DEF CredInv, Alive
  <1> QED BY <1>1, <1>2, <1>3, <1>4, <1>6 DEF Next

\* When profiles are switched by claudeProfile only, one request at a time and
\* none cut short, no session is left on credentials of an earlier profile but
\* the ones found working or without a conversation.
THEOREM CleanCredentials == CleanSwitching => (Spec => []NoStaleCredentials)
  <1> SUFFICES ASSUME CleanSwitching PROVE Spec => []NoStaleCredentials
    OBVIOUS
  <1>1. Init => CredInv
    <2> SUFFICES ASSUME Init PROVE CredInv
      OBVIOUS
    <2>1. \A o \in Op : op[o].pc = "free" /\ op[o].kind # "profile"
      BY NameAssumption DEF Init, Free, Kinds
    <2>2. \A o \in Op : SwitchOf(op[o])
      BY <2>1 DEF SwitchOf, Point
    <2>3. ~hurt /\ \A n \in Name : ~Alive(n)
      BY DEF Init, Alive
    <2> QED BY <2>2, <2>3 DEF CredInv
  <1>2. SerialInv /\ CredInv /\ [Next]_vars => CredInv'
    <2>1. ASSUME SerialInv, CredInv, Next PROVE CredInv'
      BY <2>1, NextCreds
    <2>2. ASSUME CredInv, UNCHANGED vars PROVE CredInv'
      BY <2>2 DEF vars, CredInv, SwitchOf, Settled, Pending, Point, Alive, CredOf
    <2> QED BY <2>1, <2>2
  <1>3. SerialInv /\ CredInv => NoStaleCredentials
    <2> SUFFICES ASSUME SerialInv, CredInv, Quiescent, NEW n \in Name, Alive(n)
                 PROVE  sessions[n].cred \in {None, OAuth, CredOf(settings)}
                        \/ sessions[n].spared
      BY DEF NoStaleCredentials
    <2>1. settings = wanted
      BY DEF SerialInv, CleanSwitching, CredInv, KeepsChoice
    <2>2. \A o \in Op : Pending(op[o]) = {} /\ op[o].pc # "switched"
      BY DEF Quiescent, CredInv, SwitchOf, Pending, Point
    <2> QED BY <2>1, <2>2 DEF CredInv, Settled
  <1> QED BY <1>1, <1>2, <1>3, SerialSafe, PTL DEF Spec
=============================================================================
