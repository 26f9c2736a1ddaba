--------------------------- MODULE AccountsProofs ----------------------------
(***************************************************************************)
(* Proofs about Accounts, for any number of requests, browsers and users,  *)
(* any faults and any bounds: its types, and each of the five invariants   *)
(* its run checks.                                                         *)
(***************************************************************************)
EXTENDS Accounts, Integers, FiniteSetTheorems, TLAPS

PCs == {"idle", "password", "issue", "reset", "open", "fail", "code", "use", "promote",
        "hand", "verify", "set", "drop", "spend", "replace", "fill"}

\* The record of a request, and what its control point says of its locals.
OpType ==
  [kind : Kinds \union {None}, pc : PCs, client : Client \union {None},
   user : User \union {None}, secret : 0..MaxSecrets, step : Period \union {0}]
OpRecord ==
  {r \in OpType :
     /\ r.pc \in {"password", "issue", "reset", "open", "fail", "code", "use", "promote"}
          => r.client \in Client
     /\ r.pc \in {"password", "issue", "reset", "open", "code", "use", "promote", "hand", "verify", "set",
                  "drop", "spend"}
          => r.user \in User
     /\ r.pc \in Writing /\ r.kind \in {"confirm", "disable"} => r.user \in User}

SessionType == [user : User, pending : BOOLEAN]
LimiterType == [fails : 0..MaxFails - 1, blocked : BOOLEAN]

Types ==
  /\ TypeOK
  /\ op \in [Op -> OpRecord]
  /\ session \in [Client -> SessionType \union {None}]
  /\ limiter \in [Client -> LimiterType] /\ wrong \in [Client -> Int]
  /\ now \in 1..MaxTime /\ issued \in 0..MaxSecrets

\* The variables of Types other than op.
data == <<conf, file, memory, issued, now, proven, wrong>>

-----------------------------------------------------------------------------
(* Types *)

\* Idle requests have their type.
LEMMA NewOpType == NewOp \in OpRecord /\ NewOp.pc = "idle"
  BY AccountsAssumption DEF NewOp, OpRecord, OpType, PCs, Writing

\* A request's first record has its type.
LEMMA StartRecord ==
  ASSUME NEW kind \in Kinds, NEW pc \in PCs \ Writing, NEW c \in Client \union {None}, NEW u \in User,
         pc \in {"password", "issue", "reset", "open", "fail", "code", "use", "promote"} => c \in Client
  PROVE  /\ [NewOp EXCEPT !.kind = kind, !.pc = pc, !.client = c, !.user = u] \in OpRecord
         /\ [NewOp EXCEPT !.kind = kind, !.pc = pc, !.client = c, !.user = u].pc = pc
  <1> DEFINE r == [NewOp EXCEPT !.kind = kind, !.pc = pc, !.client = c, !.user = u]
  <1>1. r \in OpType
    <2>1. kind \in Kinds \union {None} /\ pc \in PCs /\ c \in Client \union {None} /\ u \in User \union {None}
      OBVIOUS
    <2>2. 0 \in 0..MaxSecrets /\ 0 \in Period \union {0}
      BY AccountsAssumption
    <2> QED BY <2>1, <2>2 DEF NewOp, OpType
  <1>2. r.pc = pc /\ r.client = c /\ r.user = u
    BY DEF NewOp
  <1> HIDE DEF r
  <1>3. r \in OpRecord
    BY <1>1, <1>2 DEF OpRecord
  <1> QED BY <1>2, <1>3 DEF r

\* A step that changes the records of requests only, and lets none begin to write.
LEMMA OpStep ==
  ASSUME Types, UNCHANGED data, op' \in [Op -> OpRecord],
         \A o \in Op : op'[o].pc \in Writing => op[o].pc \in Writing
  PROVE  Types'
  BY DEF Types, TypeOK, data, memory

\* SecretOf is the type of a secret, and the codes accepted are of known periods.
LEMMA SecretType ==
  ASSUME Types, NEW u \in User
  PROVE  SecretOf(u) \in 0..MaxSecrets /\ (Exists(u) => conf.users[u] \in Account)
  BY AccountsAssumption DEF Types, TypeOK, SecretOf, Exists, Config, Account

LEMMA WindowType ==
  ASSUME Types, NEW s
  PROVE  CodesOf(s) \subseteq Period
  BY AccountsAssumption DEF Types, CodesOf, Window, Period

\* One request goes to a control point where it does not write.
LEMMA OneOp ==
  ASSUME Types, NEW o \in Op, NEW r \in OpRecord, r.pc \notin Writing, op' = [op EXCEPT ![o] = r]
  PROVE  /\ op' \in [Op -> OpRecord]
         /\ \A q \in Op : op'[q].pc \in Writing => op[q].pc \in Writing
         /\ UNCHANGED data => Types'
  <1>1. op' \in [Op -> OpRecord]
    BY DEF Types
  <1>2. \A q \in Op : op'[q].pc \in Writing => op[q].pc \in Writing
    BY DEF Types
  <1> QED BY <1>1, <1>2, OpStep

\* The handlers of a login.
LEMMA LoginTypes ==
  ASSUME Types, NEW o \in Op,
         \/ \E c \in Client, u \in User : StartLogin(o, c, u)
         \/ CheckPassword(o) \/ Issue(o) \/ Reset(o) \/ Open(o) \/ Fail(o)
         \/ \E c \in Client : StartTOTP(o, c)
         \/ CheckCode(o) \/ Use(o) \/ Promote(o)
  PROVE  Types'
  <1>1. op[o] \in OpRecord
    BY DEF Types
  <1>2. NewOp \in OpRecord /\ NewOp.pc \notin Writing
    BY NewOpType DEF Writing
  <1>3. ASSUME NEW c \in Client, NEW u \in User, StartLogin(o, c, u) PROVE Types'
    <2> DEFINE r == [NewOp EXCEPT !.kind = "login", !.pc = "password", !.client = c, !.user = u]
    <2>1. r \in OpRecord /\ r.pc \notin Writing
      <3>1. "login" \in Kinds /\ "password" \in PCs \ Writing
        BY DEF Kinds, Logins, PCs, Writing
      <3> QED BY <3>1, StartRecord
    <2>2. op' = [op EXCEPT ![o] = r] /\ UNCHANGED data
      BY <1>3 DEF StartLogin, data, world, ghosts
    <2> HIDE DEF r
    <2> QED BY <2>1, <2>2, OneOp
  <1>4. CASE CheckPassword(o)
    <2> DEFINE r(pc) == [op[o] EXCEPT !.pc = pc]
    <2>1. op[o].pc = "password" /\ op[o].client \in Client /\ op[o].user \in User
      BY <1>1, <1>4 DEF CheckPassword, OpRecord
    <2>2. \A pc \in {"issue", "reset", "fail"} : r(pc) \in OpRecord /\ r(pc).pc \notin Writing
      BY <1>1, <2>1 DEF PCs, Writing, OpRecord, OpType
    <2>3. (\E pc \in {"issue", "reset", "fail"} : op' = [op EXCEPT ![o] = r(pc)]) /\ UNCHANGED data
      BY <1>4 DEF CheckPassword, Goto, data, world, ghosts
    <2> HIDE DEF r
    <2> QED BY <2>2, <2>3, OneOp
  <1>5. CASE Issue(o) \/ Open(o) \/ Promote(o)
    <2>1. op[o].client \in Client /\ op[o].user \in User
      BY <1>1, <1>5 DEF Issue, Open, Promote, OpRecord
    <2>2. session' \in [Client -> SessionType \union {None}]
      <3>1. \A b \in BOOLEAN : [user |-> op[o].user, pending |-> b] \in SessionType
        BY <2>1 DEF SessionType
      <3> QED BY <1>5, <2>1, <3>1 DEF Types, Issue, Open, Promote
    <2>3. op' \in [Op -> OpRecord] /\ \A q \in Op : op'[q].pc \in Writing => op[q].pc \in Writing
      <3> DEFINE r == [op[o] EXCEPT !.pc = "reset"]
      <3>1. CASE Issue(o) \/ Open(o)
        BY <1>2, <3>1, OneOp DEF Issue, Open, Done
      <3>2. CASE Promote(o)
        <4>1. r \in OpRecord /\ r.pc \notin Writing /\ op' = [op EXCEPT ![o] = r]
          BY <1>1, <2>1, <3>2 DEF Promote, Goto, PCs, Writing, OpRecord, OpType
        <4> HIDE DEF r
        <4> QED BY <4>1, OneOp
      <3> QED BY <1>5, <3>1, <3>2
    <2>4. UNCHANGED <<conf, file, enroll, replay, limiter, issued, now, proven, wrong>>
      BY <1>5 DEF Issue, Open, Promote, world, ghosts
    <2> QED
      BY <2>2, <2>3, <2>4 DEF Types, TypeOK, SessionType
  <1>10. CASE Reset(o)
    <2> DEFINE r == [op[o] EXCEPT !.pc = "open"]
    <2>1. op[o].client \in Client /\ op[o].user \in User
      BY <1>1, <1>10 DEF Reset, OpRecord
    <2>2. limiter' \in [Client -> LimiterType] /\ wrong' \in [Client -> Int]
      <3>1. [fails |-> 0, blocked |-> FALSE] \in LimiterType
        BY AccountsAssumption DEF LimiterType
      <3> QED BY <1>10, <2>1, <3>1 DEF Types, Reset, Forgiven
    <2>3. r \in OpRecord /\ r.pc \notin Writing /\ op' = [op EXCEPT ![o] = r]
      BY <1>1, <1>10, <2>1 DEF Reset, Goto, PCs, Writing, OpRecord, OpType
    <2>4. op' \in [Op -> OpRecord] /\ \A q \in Op : op'[q].pc \in Writing => op[q].pc \in Writing
      <3> HIDE DEF r
      <3> QED BY <2>3, OneOp
    <2>5. UNCHANGED <<conf, file, enroll, replay, session, issued, now, proven>>
      BY <1>10 DEF Reset, world
    <2> QED BY <2>2, <2>4, <2>5 DEF Types, TypeOK, LimiterType
  <1>6. CASE Fail(o)
    <2>1. op[o].client \in Client
      BY <1>1, <1>6 DEF Fail, OpRecord
    <2>2. limiter' \in [Client -> LimiterType] /\ wrong' \in [Client -> Int]
      BY <1>6, <2>1, AccountsAssumption DEF Types, Fail, Blocked, LimiterType
    <2>3. op' \in [Op -> OpRecord] /\ \A q \in Op : op'[q].pc \in Writing => op[q].pc \in Writing
      BY <1>2, <1>6, OneOp DEF Fail, Done
    <2>4. UNCHANGED <<conf, file, enroll, replay, session, issued, now, proven>>
      BY <1>6 DEF Fail, world
    <2> QED
      BY <2>2, <2>3, <2>4 DEF Types, TypeOK, LimiterType, SessionType
  <1>7. ASSUME NEW c \in Client, StartTOTP(o, c) PROVE Types'
    <2> DEFINE r == [NewOp EXCEPT !.kind = "totp", !.pc = "code", !.client = c, !.user = session[c].user]
    <2>1. session[c].user \in User
      BY <1>7 DEF StartTOTP, Types, SessionType
    <2>2. r \in OpRecord /\ r.pc \notin Writing
      <3>1. "totp" \in Kinds /\ "code" \in PCs \ Writing
        BY DEF Kinds, Logins, PCs, Writing
      <3> QED BY <2>1, <3>1, StartRecord
    <2>3. op' = [op EXCEPT ![o] = r] /\ UNCHANGED data
      BY <1>7 DEF StartTOTP, data, world, ghosts
    <2> HIDE DEF r
    <2> QED BY <2>2, <2>3, OneOp
  <1>8. CASE CheckCode(o)
    <2> DEFINE r(k) == [op[o] EXCEPT !.pc = "use", !.secret = SecretOf(op[o].user), !.step = k]
               f == [op[o] EXCEPT !.pc = "fail"]
    <2>1. op[o].pc = "code" /\ op[o].client \in Client /\ op[o].user \in User
      BY <1>1, <1>8 DEF CheckCode, OpRecord
    <2>2. SecretOf(op[o].user) \in 0..MaxSecrets /\ CodesOf(SecretOf(op[o].user)) \subseteq Period
      BY <2>1, SecretType, WindowType
    <2>3. \A k \in Period : r(k) \in OpRecord /\ r(k).pc \notin Writing
      BY <1>1, <2>1, <2>2 DEF PCs, Writing, OpRecord, OpType
    <2>4. f \in OpRecord /\ f.pc \notin Writing
      BY <1>1, <2>1, <2>2 DEF PCs, Writing, OpRecord, OpType
    <2>5. (\E k \in Period : op' = [op EXCEPT ![o] = r(k)]) \/ op' = [op EXCEPT ![o] = f]
      BY <1>8, <2>2 DEF CheckCode, Goto
    <2>6. UNCHANGED data
      BY <1>8 DEF CheckCode, data, world, ghosts
    <2> HIDE DEF r, f
    <2> QED BY <2>3, <2>4, <2>5, <2>6, OneOp
  <1>9. CASE Use(o)
    <2> DEFINE r == [op[o] EXCEPT !.pc = "promote"]
               f == [op[o] EXCEPT !.pc = "fail"]
    <2>1. op[o].pc = "use" /\ op[o].client \in Client /\ op[o].user \in User
          /\ op[o].step \in Period \union {0}
      BY <1>1, <1>9 DEF Use, OpRecord, OpType
    <2>2. r \in OpRecord /\ r.pc \notin Writing /\ f \in OpRecord /\ f.pc \notin Writing
      BY <1>1, <2>1 DEF PCs, Writing, OpRecord, OpType
    <2>3. op' \in {[op EXCEPT ![o] = r], [op EXCEPT ![o] = f]}
      BY <1>9 DEF Use, Goto
    <2>4. op' \in [Op -> OpRecord] /\ \A q \in Op : op'[q].pc \in Writing => op[q].pc \in Writing
      <3> HIDE DEF r, f
      <3> QED BY <2>2, <2>3, OneOp
    <2>5. replay' \in [User -> Period \union {0}]
      BY <1>9, <2>1 DEF Use, Types, TypeOK
    <2>6. UNCHANGED <<conf, file, enroll, session, limiter, issued, now, proven, wrong>>
      BY <1>9 DEF Use, world
    <2> QED BY <2>4, <2>5, <2>6 DEF Types, TypeOK
  <1> QED BY <1>3, <1>4, <1>5, <1>6, <1>7, <1>8, <1>9, <1>10

\* One request goes on where it may write: nobody else does.
LEMMA WriterOp ==
  ASSUME Types, NEW o \in Op, NEW r \in OpRecord, CfgFree \/ op[o].pc \in Writing,
         op' = [op EXCEPT ![o] = r]
  PROVE  /\ op' \in [Op -> OpRecord]
         /\ \A p, q \in Op : op'[p].pc \in Writing /\ op'[q].pc \in Writing => p = q
  <1>1. op' \in [Op -> OpRecord]
    BY DEF Types
  <1>2. \A p \in Op \ {o} : op'[p].pc \in Writing => op[o].pc \notin Writing
    BY DEF Types, TypeOK
  <1>3. \A p \in Op \ {o} : op'[p].pc \in Writing => ~CfgFree
    BY DEF Types, CfgFree
  <1>4. \A p \in Op \ {o} : op'[p].pc \notin Writing
    BY <1>2, <1>3
  <1> QED BY <1>1, <1>4

\* The handlers of an enrolment.
LEMMA EnrollTypes ==
  ASSUME Types, NEW o \in Op,
         \/ \E u \in User : StartEnroll(o, u) \/ StartConfirm(o, u)
         \/ HandOut(o) \/ Verify(o) \/ Drop(o) \/ Spend(o)
  PROVE  Types'
  <1>1. op[o] \in OpRecord
    BY DEF Types
  <1>2. NewOp \in OpRecord /\ NewOp.pc \notin Writing
    BY NewOpType DEF Writing
  <1>3. ASSUME NEW u \in User, StartEnroll(o, u) PROVE Types'
    <2> DEFINE r == [NewOp EXCEPT !.kind = "enroll", !.pc = "hand", !.user = u]
    <2>1. r \in OpType
      <3>1. "enroll" \in Kinds \union {None} /\ "hand" \in PCs /\ u \in User \union {None}
        BY DEF Kinds, PCs
      <3>2. 0 \in 0..MaxSecrets /\ 0 \in Period \union {0}
        BY AccountsAssumption
      <3> QED BY <3>1, <3>2 DEF NewOp, OpType
    <2>2. r.pc = "hand" /\ r.user = u
      BY DEF NewOp
    <2>3. op' = [op EXCEPT ![o] = r] /\ UNCHANGED data
      BY <1>3 DEF StartEnroll, data, world, ghosts
    <2> HIDE DEF r
    <2>4. r \in OpRecord /\ r.pc \notin Writing
      BY <2>1, <2>2 DEF OpRecord, Writing
    <2> QED BY <2>3, <2>4, OneOp
  <1>4. ASSUME NEW u \in User, StartConfirm(o, u) PROVE Types'
    <2> DEFINE r == [NewOp EXCEPT !.kind = "confirm", !.pc = "verify", !.user = u, !.secret = enroll[u]]
    <2>1. enroll[u] \in 0..MaxSecrets
      BY DEF Types, TypeOK
    <2>2. r \in OpType
      <3>1. "confirm" \in Kinds \union {None} /\ "verify" \in PCs /\ u \in User \union {None}
        BY DEF Kinds, Writes, PCs
      <3>2. 0 \in Period \union {0}
        OBVIOUS
      <3> QED BY <2>1, <3>1, <3>2 DEF NewOp, OpType
    <2>3. r.pc = "verify" /\ r.user = u
      BY DEF NewOp
    <2>4. op' = [op EXCEPT ![o] = r] /\ UNCHANGED data
      BY <1>4 DEF StartConfirm, data, world, ghosts
    <2> HIDE DEF r
    <2>5. r \in OpRecord /\ r.pc \notin Writing
      BY <2>2, <2>3 DEF OpRecord, Writing
    <2> QED BY <2>4, <2>5, OneOp
  <1>8. CASE Verify(o)
    <2> DEFINE r(k) == [op[o] EXCEPT !.pc = "set", !.step = k]
    <2>1. op[o].pc = "verify" /\ op[o].user \in User
      BY <1>1, <1>8 DEF Verify, OpRecord
    <2>2. \A k \in Period : r(k) \in OpRecord /\ r(k).pc \notin Writing
      BY <1>1, <2>1 DEF PCs, Writing, OpRecord, OpType
    <2>3. CodesOf(op[o].secret) \subseteq Period
      BY WindowType
    <2>4. (\E k \in Period : op' = [op EXCEPT ![o] = r(k)]) \/ op' = [op EXCEPT ![o] = NewOp]
      BY <1>8, <2>3 DEF Verify, Done
    <2>5. op' \in [Op -> OpRecord] /\ \A q \in Op : op'[q].pc \in Writing => op[q].pc \in Writing
      <3> HIDE DEF r
      <3> QED BY <1>2, <2>2, <2>4, OneOp
    <2>6. proven' \subseteq Secret
      <3>1. op[o].secret \in 0..MaxSecrets /\ proven \subseteq Secret
        BY <1>1 DEF OpRecord, OpType, Types, TypeOK
      <3>2. proven' = proven \/ (op[o].secret # 0 /\ proven' = proven \union {op[o].secret})
        BY <1>8 DEF Verify, CodesOf
      <3>3. op[o].secret # 0 => op[o].secret \in Secret
        BY <3>1, AccountsAssumption DEF Secret
      <3> QED BY <3>1, <3>2, <3>3
    <2>7. UNCHANGED <<conf, file, memory, issued, now, wrong>>
      BY <1>8 DEF Verify, world
    <2> QED BY <2>5, <2>6, <2>7 DEF Types, TypeOK, memory
  <1>5. CASE HandOut(o)
    <2>1. op' \in [Op -> OpRecord] /\ \A q \in Op : op'[q].pc \in Writing => op[q].pc \in Writing
      BY <1>2, <1>5, OneOp DEF HandOut, Done
    <2>2. issued' \in 0..MaxSecrets /\ issued' = issued + 1
      BY <1>5, AccountsAssumption DEF HandOut, Types
    <2>3. enroll' \in [User -> 0..MaxSecrets]
      BY <1>5, <2>2 DEF HandOut, Types, TypeOK
    <2>4. UNCHANGED <<conf, file, replay, session, limiter, now, proven, wrong>>
      BY <1>5 DEF HandOut, ghosts
    <2> QED BY <2>1, <2>2, <2>3, <2>4 DEF Types, TypeOK
  <1>6. CASE Drop(o)
    <2> DEFINE r == [op[o] EXCEPT !.pc = "spend"]
    <2>1. op[o].pc = "drop" /\ op[o].user \in User
      BY <1>1, <1>6 DEF Drop, OpRecord
    <2>2. r \in OpRecord /\ r.pc \notin Writing
      BY <1>1, <2>1 DEF PCs, Writing, OpRecord, OpType
    <2>3. op' = [op EXCEPT ![o] = r]
      BY <1>6 DEF Drop, Goto
    <2>4. op' \in [Op -> OpRecord] /\ \A q \in Op : op'[q].pc \in Writing => op[q].pc \in Writing
      <3> HIDE DEF r
      <3> QED BY <2>2, <2>3, OneOp
    <2>5. enroll' \in [User -> 0..MaxSecrets]
      BY <1>6, <2>1, AccountsAssumption DEF Drop, Types, TypeOK
    <2>6. UNCHANGED <<conf, file, replay, session, limiter, issued, now, proven, wrong>>
      BY <1>6 DEF Drop, world, ghosts
    <2> QED BY <2>4, <2>5, <2>6 DEF Types, TypeOK
  <1>7. CASE Spend(o)
    <2>1. op[o].pc = "spend" /\ op[o].user \in User /\ op[o].step \in Period \union {0}
      BY <1>1, <1>7 DEF Spend, OpRecord, OpType
    <2>2. op' \in [Op -> OpRecord] /\ \A q \in Op : op'[q].pc \in Writing => op[q].pc \in Writing
      BY <1>2, <1>7, OneOp DEF Spend, Done
    <2>3. replay' \in [User -> Period \union {0}]
      BY <1>7, <2>1 DEF Spend, Types, TypeOK
    <2>4. UNCHANGED <<conf, file, enroll, session, limiter, issued, now, proven, wrong>>
      BY <1>7 DEF Spend, world
    <2> QED BY <2>2, <2>3, <2>4 DEF Types, TypeOK
  <1> QED BY <1>3, <1>4, <1>5, <1>6, <1>7, <1>8

\* A user's account set, or removed.
LEMMA SetAccount ==
  ASSUME Types, NEW u \in User, NEW a \in Account \union {None}
  PROVE  [conf EXCEPT !.users[u] = a] \in Config
  BY DEF Types, TypeOK, Config

LEMMA SecretChanged ==
  ASSUME Types, NEW u \in User, Exists(u), NEW s \in 0..MaxSecrets
  PROVE  [conf EXCEPT !.users[u].secret = s] \in Config
  <1>1. [conf.users[u] EXCEPT !.secret = s] \in Account
    BY SecretType DEF Account
  <1> QED BY <1>1 DEF Types, TypeOK, Config

LEMMA PasswordChanged ==
  ASSUME Types, NEW u \in User, Exists(u), NEW pw \in Password
  PROVE  [conf EXCEPT !.users[u].pw = pw] \in Config
  <1>1. [conf.users[u] EXCEPT !.pw = pw] \in Account
    BY SecretType DEF Account
  <1> QED BY <1>1 DEF Types, TypeOK, Config

\* A handler changes the configuration and goes on to write it.
LEMMA ChangeTypes ==
  ASSUME Types, NEW o \in Op, NEW kind \in Kinds, NEW u \in User \union {None}, NEW new \in Config,
         CfgFree, kind \in {"confirm", "disable"} => u \in User, Change(o, kind, u, new)
  PROVE  Types'
  <1> DEFINE r == [NewOp EXCEPT !.kind = kind, !.pc = "replace", !.user = u]
  <1>1. r \in OpType
    <2>1. kind \in Kinds \union {None} /\ "replace" \in PCs
      BY DEF PCs
    <2>2. 0 \in 0..MaxSecrets /\ 0 \in Period \union {0}
      BY AccountsAssumption
    <2> QED BY <2>1, <2>2 DEF NewOp, OpType
  <1>2. r.pc = "replace" /\ r.user = u /\ r.kind = kind
    BY DEF NewOp
  <1>3. op' = [op EXCEPT ![o] = r] /\ conf' = new
        /\ UNCHANGED <<file, memory, issued, now, proven, wrong>>
    BY DEF Change, world, ghosts
  <1> HIDE DEF r
  <1>4. r \in OpRecord
    BY <1>1, <1>2 DEF OpRecord
  <1>5. /\ op' \in [Op -> OpRecord]
        /\ \A p, q \in Op : op'[p].pc \in Writing /\ op'[q].pc \in Writing => p = q
    BY <1>3, <1>4, WriterOp
  <1> QED BY <1>3, <1>5 DEF Types, TypeOK, memory

LEMMA ConfigTypes ==
  ASSUME Types, NEW o \in Op,
         \/ \E u \in User : Disable(o, u) \/ AddUser(o, u) \/ DeleteUser(o, u) \/ ChangePassword(o, u)
         \/ Patch(o) \/ SetSecret(o)
  PROVE  Types'
  <1>1. op[o] \in OpRecord /\ NewOp \in OpRecord /\ NewOp.pc \notin Writing
    BY NewOpType DEF Types, Writing
  <1>2. ASSUME NEW u \in User, Disable(o, u) PROVE Types'
    <2>1. [conf EXCEPT !.users[u].secret = 0] \in Config
      BY <1>2, SecretChanged, AccountsAssumption DEF Disable
    <2> QED BY <1>2, <2>1, ChangeTypes DEF Disable, Kinds, Writes
  <1>3. ASSUME NEW u \in User, AddUser(o, u) PROVE Types'
    <2>1. PICK pw \in Password : Change(o, "addUser", u, [conf EXCEPT !.users[u] = [pw |-> pw, secret |-> 0]])
      BY <1>3 DEF AddUser
    <2>2. [pw |-> pw, secret |-> 0] \in Account
      BY AccountsAssumption DEF Account
    <2>3. [conf EXCEPT !.users[u] = [pw |-> pw, secret |-> 0]] \in Config
      BY <2>2, SetAccount
    <2> QED BY <1>3, <2>1, <2>3, ChangeTypes DEF AddUser, Kinds, Writes
  <1>4. ASSUME NEW u \in User, DeleteUser(o, u) PROVE Types'
    <2>1. [conf EXCEPT !.users[u] = None] \in Config
      BY SetAccount
    <2> QED BY <1>4, <2>1, ChangeTypes DEF DeleteUser, Kinds, Writes
  <1>5. ASSUME NEW u \in User, ChangePassword(o, u) PROVE Types'
    <2>1. PICK pw \in Password : Change(o, "password", u, [conf EXCEPT !.users[u].pw = pw])
      BY <1>5 DEF ChangePassword
    <2>2. [conf EXCEPT !.users[u].pw = pw] \in Config
      BY <1>5, PasswordChanged DEF ChangePassword
    <2> QED BY <1>5, <2>1, <2>2, ChangeTypes DEF ChangePassword, Kinds, Writes
  <1>6. CASE Patch(o)
    <2>1. \A addr \in 0..1 : [conf EXCEPT !.addr = addr] \in Config
      BY DEF Types, TypeOK, Config
    <2>2. PICK addr \in 0..1 :
            \/ Change(o, "patch", None, [conf EXCEPT !.addr = addr])
            \/ /\ conf' = [conf EXCEPT !.addr = addr]
               /\ UNCHANGED <<file, memory, op, issued, now, proven, wrong>>
      BY <1>6 DEF Patch, world
    <2>3. CASE Change(o, "patch", None, [conf EXCEPT !.addr = addr])
      BY <1>6, <2>1, <2>3, ChangeTypes DEF Patch, Kinds, Writes
    <2>4. CASE /\ conf' = [conf EXCEPT !.addr = addr]
               /\ UNCHANGED <<file, memory, op, issued, now, proven, wrong>>
      BY <2>1, <2>4 DEF Types, TypeOK, memory
    <2> QED BY <2>2, <2>3, <2>4
  <1>7. CASE SetSecret(o)
    <2> DEFINE r == [op[o] EXCEPT !.pc = "replace"]
    <2>1. op[o].pc = "set" /\ op[o].user \in User /\ op[o].secret \in 0..MaxSecrets /\ CfgFree
      BY <1>1, <1>7 DEF SetSecret, OpRecord, OpType
    <2>2. r \in OpRecord
      BY <1>1, <2>1 DEF PCs, Writing, OpRecord, OpType
    <2>3. op' \in {[op EXCEPT ![o] = r], [op EXCEPT ![o] = NewOp]}
      BY <1>7 DEF SetSecret, Goto, Done
    <2>4. /\ op' \in [Op -> OpRecord]
          /\ \A p, q \in Op : op'[p].pc \in Writing /\ op'[q].pc \in Writing => p = q
      <3> HIDE DEF r
      <3> QED BY <1>1, <2>1, <2>2, <2>3, WriterOp
    <2>5. conf' \in Config
      <3>1. CASE Exists(op[o].user)
        BY <1>7, <2>1, <3>1, SecretChanged DEF SetSecret
      <3>2. CASE ~Exists(op[o].user)
        BY <1>7, <3>2 DEF SetSecret, Types, TypeOK
      <3> QED BY <3>1, <3>2
    <2>6. UNCHANGED <<file, memory, issued, now, proven, wrong>>
      BY <1>7 DEF SetSecret, world, ghosts
    <2> QED BY <2>4, <2>5, <2>6 DEF Types, TypeOK, memory
  <1> QED BY <1>2, <1>3, <1>4, <1>5, <1>6, <1>7

LEMMA WriteTypes ==
  ASSUME Types, NEW o \in Op, Replace(o) \/ Fill(o) \/ WriteFails(o)
  PROVE  Types'
  <1> DEFINE f == [op[o] EXCEPT !.pc = "fill"]
             d == [op[o] EXCEPT !.pc = "drop"]
  <1>1. op[o] \in OpRecord /\ NewOp \in OpRecord /\ op[o].pc \in Writing
    BY NewOpType DEF Types, Replace, Fill, WriteFails, Writing
  <1>2. f \in OpRecord /\ (op[o].kind \in {"confirm", "disable"} => d \in OpRecord)
    BY <1>1 DEF PCs, Writing, OpRecord, OpType
  <1>3. \/ op' = [op EXCEPT ![o] = f]
        \/ op[o].kind \in {"confirm", "disable"} /\ op' = [op EXCEPT ![o] = d]
        \/ op' = [op EXCEPT ![o] = NewOp]
    BY DEF Replace, Fill, WriteFails, Written, Goto, Done
  <1>4. file' \in Config \union {Torn}
    BY DEF Replace, Fill, WriteFails, Written, Types, TypeOK
  <1>5. UNCHANGED <<conf, memory, issued, now, proven, wrong>>
    BY DEF Replace, Fill, WriteFails, Written, world, ghosts
  <1> HIDE DEF f, d
  <1>6. /\ op' \in [Op -> OpRecord]
        /\ \A p, q \in Op : op'[p].pc \in Writing /\ op'[q].pc \in Writing => p = q
    BY <1>1, <1>2, <1>3, WriterOp
  <1> QED BY <1>4, <1>5, <1>6 DEF Types, TypeOK, memory

LEMMA EnvironmentTypes ==
  ASSUME Types, Environment
  PROVE  Types'
  <1>1. [fails |-> 0, blocked |-> FALSE] \in LimiterType
    BY AccountsAssumption DEF LimiterType
  <1>2. CASE Crash
    <2>1. op' \in [Op -> OpRecord] /\ \A o \in Op : op'[o].pc \notin Writing
      BY <1>2, NewOpType DEF Crash, Writing
    <2>2. conf' \in Config
      BY <1>2 DEF Crash, Types, TypeOK
    <2>3. /\ enroll' \in [User -> 0..MaxSecrets] /\ replay' \in [User -> Period \union {0}]
          /\ session' \in [Client -> SessionType \union {None}]
          /\ limiter' \in [Client -> LimiterType] /\ wrong' \in [Client -> Int]
      BY <1>1, <1>2, AccountsAssumption DEF Crash
    <2>4. UNCHANGED <<file, issued, now, proven>>
      BY <1>2 DEF Crash
    <2> QED BY <2>1, <2>2, <2>3, <2>4 DEF Types, TypeOK, LimiterType, SessionType
  <1>3. CASE Tick
    <2>1. now' \in 1..MaxTime
      BY <1>3, AccountsAssumption DEF Tick, Types
    <2>2. UNCHANGED <<conf, file, memory, op, issued, proven, wrong>>
      BY <1>3 DEF Tick, ghosts
    <2> QED BY <2>1, <2>2 DEF Types, TypeOK, memory
  <1>4. ASSUME NEW c \in Client, SessionEnds(c) PROVE Types'
    <2>1. session' \in [Client -> SessionType \union {None}]
      BY <1>4 DEF SessionEnds, Types
    <2>2. UNCHANGED <<conf, file, enroll, replay, limiter, op, issued, now, proven, wrong>>
      BY <1>4 DEF SessionEnds, world, ghosts
    <2> QED BY <2>1, <2>2 DEF Types, TypeOK, SessionType
  <1>5. ASSUME NEW c \in Client, LimiterForgets(c) PROVE Types'
    <2>1. limiter' \in [Client -> LimiterType] /\ wrong' \in [Client -> Int]
      <3>1. CASE Blocked(c)
        <4>1. /\ limiter' = [limiter EXCEPT ![c] = [fails |-> 0, blocked |-> FALSE]]
              /\ wrong' = [wrong EXCEPT ![c] = 0]
          BY <1>5, <3>1 DEF LimiterForgets, Forgiven
        <4> QED BY <1>1, <4>1 DEF Types
      <3>2. CASE ~Blocked(c)
        <4>1. limiter[c] \in LimiterType /\ limiter[c].fails > 0 /\ wrong[c] \in Int
          BY <1>5, <3>2 DEF LimiterForgets, Types
        <4>2. [limiter[c] EXCEPT !.fails = limiter[c].fails - 1] \in LimiterType /\ wrong[c] - 1 \in Int
          BY <4>1, AccountsAssumption DEF LimiterType
        <4>3. limiter' = [limiter EXCEPT ![c] = [limiter[c] EXCEPT !.fails = limiter[c].fails - 1]]
          BY <1>5, <3>2 DEF LimiterForgets
        <4>4. wrong' = [wrong EXCEPT ![c] = wrong[c] - 1]
          BY <1>5, <3>2 DEF LimiterForgets
        <4> QED BY <4>2, <4>3, <4>4 DEF Types
      <3> QED BY <3>1, <3>2
    <2>2. UNCHANGED <<conf, file, enroll, replay, session, op, issued, now, proven>>
      BY <1>5 DEF LimiterForgets, world
    <2> QED BY <2>1, <2>2 DEF Types, TypeOK, LimiterType
  <1>6. ASSUME NEW u \in User, EnrollExpires(u) PROVE Types'
    <2>1. enroll' \in [User -> 0..MaxSecrets]
      BY <1>6, AccountsAssumption DEF EnrollExpires, Types, TypeOK
    <2>2. UNCHANGED <<conf, file, replay, session, limiter, op, issued, now, proven, wrong>>
      BY <1>6 DEF EnrollExpires, world, ghosts
    <2> QED BY <2>1, <2>2 DEF Types, TypeOK
  <1> QED BY <1>2, <1>3, <1>4, <1>5, <1>6 DEF Environment

LEMMA InitTypes == Init => Types
  <1> SUFFICES ASSUME Init PROVE Types
    OBVIOUS
  <1>1. [fails |-> 0, blocked |-> FALSE] \in LimiterType
    BY AccountsAssumption DEF LimiterType
  <1>2. [pw : Password, secret : {0, 1}] \subseteq Account
    BY AccountsAssumption DEF Account
  <1>3. conf \in Config /\ file \in Config
    <2>1. conf.users \in [User -> [pw : Password, secret : {0, 1}] \union {None}] /\ conf.addr = 0
      BY DEF Init
    <2>2. conf.users \in [User -> Account \union {None}]
      BY <1>2, <2>1
    <2>3. conf = [users |-> conf.users, addr |-> conf.addr]
      BY DEF Init
    <2> QED BY <2>1, <2>2, <2>3 DEF Init, Config
  <1>4. /\ enroll \in [User -> 0..MaxSecrets] /\ replay \in [User -> Period \union {0}]
        /\ session \in [Client -> SessionType \union {None}]
        /\ limiter \in [Client -> LimiterType] /\ wrong \in [Client -> Int]
    BY <1>1, AccountsAssumption DEF Init
  <1>5. op \in [Op -> OpRecord] /\ \A o \in Op : op[o].pc \notin Writing
    BY NewOpType DEF Init, Writing
  <1>6. now \in 1..MaxTime /\ issued \in 0..MaxSecrets /\ proven \subseteq Secret
    <2>1. issued \in {0, 1} /\ proven = 1..issued /\ now = 1
      BY DEF Init
    <2> QED BY <2>1, AccountsAssumption DEF Secret
  <1> QED
    BY <1>3, <1>4, <1>5, <1>6 DEF Types, TypeOK, LimiterType, SessionType

LEMMA NextTypes == Types /\ [Next]_vars => Types'
  <1> SUFFICES ASSUME Types, [Next]_vars PROVE Types'
    OBVIOUS
  <1>1. CASE UNCHANGED vars
    BY <1>1 DEF vars, memory, world, ghosts, Types, TypeOK
  <1>2. ASSUME NEW o \in Op, Start(o) PROVE Types'
    BY <1>2, LoginTypes, EnrollTypes, ConfigTypes DEF Start
  <1>3. ASSUME NEW o \in Op, Step(o) PROVE Types'
    BY <1>3, LoginTypes, EnrollTypes, ConfigTypes, WriteTypes DEF Step
  <1> QED BY <1>1, <1>2, <1>3, EnvironmentTypes DEF Next

\* The types of users, sessions, the limiter and config.yaml, and cfgMu: no two
\* requests write the configuration at once.
THEOREM Typed == Spec => []TypeOK
  <1>1. Types => TypeOK
    BY DEF Types
  <1> QED BY <1>1, InitTypes, NextTypes, PTL DEF Spec

-----------------------------------------------------------------------------
(* Which steps change what *)

\* Every handler's steps but those named leave these variables alone.
LEMMA LimiterSteps ==
  ASSUME [Next]_vars
  PROVE  \/ UNCHANGED <<limiter, wrong>>
         \/ \E o \in Op : Reset(o) \/ Fail(o)
         \/ \E c \in Client : LimiterForgets(c)
         \/ Crash
  <1>1. CASE UNCHANGED vars
    BY <1>1 DEF vars, memory, ghosts
  <1>2. ASSUME NEW o \in Op, Start(o) PROVE UNCHANGED <<limiter, wrong>>
    BY <1>2 DEF Start, StartTOTP, StartLogin, StartEnroll, StartConfirm, Disable, AddUser, DeleteUser,
       ChangePassword, Change, Patch, memory, ghosts
  <1>3. ASSUME NEW o \in Op, Step(o), ~Reset(o), ~Fail(o) PROVE UNCHANGED <<limiter, wrong>>
    BY <1>3 DEF Step, CheckPassword, Issue, Open, CheckCode, Use, Promote, HandOut, Verify, SetSecret, Drop, Spend, Replace, Fill,
       Written, WriteFails, memory, ghosts
  <1>4. ASSUME Environment, ~Crash, ~\E c \in Client : LimiterForgets(c) PROVE UNCHANGED <<limiter, wrong>>
    BY <1>4 DEF Environment, Tick, SessionEnds, EnrollExpires, memory, ghosts
  <1> QED BY <1>1, <1>2, <1>3, <1>4 DEF Next

LEMMA ReplaySteps ==
  ASSUME [Next]_vars
  PROVE  \/ UNCHANGED <<replay, accepted, overtaken, replayed>>
         \/ \E o \in Op : Use(o) \/ Spend(o)
         \/ Crash
  <1>1. CASE UNCHANGED vars
    BY <1>1 DEF vars, memory, ghosts
  <1>2. ASSUME NEW o \in Op, Start(o) PROVE UNCHANGED <<replay, accepted, overtaken, replayed>>
    BY <1>2 DEF Start, StartTOTP, StartLogin, StartEnroll, StartConfirm, Disable, AddUser, DeleteUser,
       ChangePassword, Change, Patch, memory, ghosts
  <1>3. ASSUME NEW o \in Op, Step(o), ~Use(o), ~Spend(o) PROVE UNCHANGED <<replay, accepted, overtaken, replayed>>
    BY <1>3 DEF Step, CheckPassword, CheckCode, Issue, Reset, Open, Fail, Promote, HandOut, Verify, SetSecret,
       Drop, Replace, Fill,
       Written, WriteFails, memory, ghosts
  <1>4. ASSUME Environment, ~Crash PROVE UNCHANGED <<replay, accepted, overtaken, replayed>>
    BY <1>4 DEF Environment, Tick, SessionEnds, LimiterForgets, EnrollExpires, memory, ghosts
  <1> QED BY <1>1, <1>2, <1>3, <1>4 DEF Next

LEMMA ConfigSteps ==
  ASSUME [Next]_vars
  PROVE  \/ UNCHANGED <<conf, file>>
         \/ \E o \in Op : SetSecret(o) \/ Replace(o) \/ Fill(o) \/ Patch(o)
         \/ \E o \in Op, u \in User :
              Disable(o, u) \/ AddUser(o, u) \/ DeleteUser(o, u) \/ ChangePassword(o, u)
         \/ Crash
  <1>1. CASE UNCHANGED vars
    BY <1>1 DEF vars
  <1>2. ASSUME NEW o \in Op, Start(o), ~Patch(o),
               ~\E u \in User : Disable(o, u) \/ AddUser(o, u) \/ DeleteUser(o, u) \/ ChangePassword(o, u)
        PROVE  UNCHANGED <<conf, file>>
    BY <1>2 DEF Start, StartTOTP, StartLogin, StartEnroll, StartConfirm
  <1>3. ASSUME NEW o \in Op, Step(o), ~SetSecret(o), ~Replace(o), ~Fill(o) PROVE UNCHANGED <<conf, file>>
    BY <1>3 DEF Step, CheckPassword, CheckCode, Use, Issue, Reset, Open, Fail, Promote, HandOut, Verify,
       Drop, Spend, WriteFails
  <1>4. ASSUME Environment, ~Crash PROVE UNCHANGED <<conf, file>>
    BY <1>4 DEF Environment, Tick, SessionEnds, LimiterForgets, EnrollExpires
  <1> QED BY <1>1, <1>2, <1>3, <1>4 DEF Next

-----------------------------------------------------------------------------
(* The limiter *)

LEMMA FailureCounted ==
  ASSUME Types, EveryFailureCounts, [Next]_vars
  PROVE  EveryFailureCounts'
  <1>1. CASE UNCHANGED <<limiter, wrong>>
    BY <1>1 DEF EveryFailureCounts, Blocked
  <1>2. CASE \E o \in Op : Reset(o)
    <2>1. PICK c \in Client :
            limiter' = Forgiven(c) /\ wrong' = [wrong EXCEPT ![c] = 0]
      BY <1>2 DEF Reset, Types, OpRecord
    <2>2. ASSUME NEW d \in Client \ {c}
          PROVE  limiter'[d] = limiter[d] /\ wrong'[d] = wrong[d]
      BY <2>1 DEF Forgiven, Types
    <2>3. limiter'[c].fails = 0 /\ wrong'[c] = 0
      BY <2>1 DEF Forgiven, Types
    <2> QED BY <2>2, <2>3 DEF EveryFailureCounts, Blocked
  <1>3. ASSUME NEW o \in Op, Fail(o) PROVE EveryFailureCounts'
    <2> DEFINE c == op[o].client
               fails == limiter[c].fails + 1
    <2>1. c \in Client /\ limiter[c] \in LimiterType
      BY <1>3 DEF Fail, Types, OpRecord
    <2>2. CASE Blocked(c)
      <3>1. UNCHANGED <<limiter, wrong>>
        BY <1>3, <2>1, <2>2 DEF Fail, Types
      <3> QED BY <1>1, <3>1
    <2>3. CASE ~Blocked(c)
      <3>1. /\ wrong' = [wrong EXCEPT ![c] = wrong[c] + 1]
            /\ limiter' = [limiter EXCEPT ![c] = [fails |-> 0, blocked |-> TRUE]]
               \/ limiter' = [limiter EXCEPT ![c].fails = fails]
        BY <1>3, <2>3 DEF Fail
      <3>2. limiter'[c].blocked \/ limiter'[c].fails = limiter[c].fails + 1
        BY <2>1, <3>1 DEF Types, LimiterType
      <3>3. wrong'[c] = wrong[c] + 1 /\ wrong[c] = limiter[c].fails
        BY <2>1, <2>3, <3>1 DEF Types, EveryFailureCounts
      <3>4. ASSUME NEW d \in Client \ {c}
            PROVE  limiter'[d] = limiter[d] /\ wrong'[d] = wrong[d]
        BY <2>1, <3>1 DEF Types
      <3> QED BY <3>2, <3>3, <3>4 DEF EveryFailureCounts, Blocked
    <2> QED BY <2>2, <2>3
  <1>4. ASSUME NEW c \in Client, LimiterForgets(c) PROVE EveryFailureCounts'
    <2>1. limiter[c] \in LimiterType /\ wrong[c] \in Int
      BY DEF Types
    <2>2. CASE Blocked(c)
      <3>1. limiter' = [limiter EXCEPT ![c] = [fails |-> 0, blocked |-> FALSE]] /\ wrong' = [wrong EXCEPT ![c] = 0]
        BY <1>4, <2>2 DEF LimiterForgets, Forgiven
      <3> QED BY <2>1, <3>1 DEF Types, EveryFailureCounts, Blocked
    <2>3. CASE ~Blocked(c)
      <3>1. limiter' = [limiter EXCEPT ![c].fails = limiter[c].fails - 1] /\ wrong' = [wrong EXCEPT ![c] = wrong[c] - 1]
        BY <1>4, <2>3 DEF LimiterForgets
      <3>2. limiter'[c].fails = limiter[c].fails - 1 /\ limiter'[c].blocked = limiter[c].blocked
        BY <2>1, <3>1 DEF Types, LimiterType
      <3>3. wrong'[c] = wrong[c] - 1
        BY <3>1 DEF Types
      <3>4. ASSUME NEW d \in Client \ {c}
            PROVE  limiter'[d] = limiter[d] /\ wrong'[d] = wrong[d]
        BY <3>1 DEF Types
      <3> QED BY <2>1, <3>2, <3>3, <3>4 DEF EveryFailureCounts, Blocked
    <2> QED BY <2>2, <2>3
  <1>5. CASE Crash
    BY <1>5 DEF Crash, EveryFailureCounts
  <1> QED BY <1>1, <1>2, <1>3, <1>4, <1>5, LimiterSteps

\* handleLogin, handleTOTP and RateLimiter: whatever logins interleave at one
\* address, no wrong answer is forgotten except by a complete login, the
\* window or a block.
THEOREM FailuresCount == Spec => []EveryFailureCounts
  <1>1. Init => EveryFailureCounts
    BY DEF Init, EveryFailureCounts
  <1>2. Types /\ EveryFailureCounts /\ [Next]_vars => EveryFailureCounts'
    BY FailureCounted
  <1> QED BY <1>1, <1>2, InitTypes, NextTypes, PTL DEF Spec

-----------------------------------------------------------------------------
(* The codes *)

\* The replay guard remembers the last period of every code accepted of a user
\* whose codes no overtaken disable has forgotten.
Remembered ==
  /\ ~replayed
  /\ \A code \in accepted :
       /\ code[1] \in User /\ code[3] \in Period \union {0}
       /\ code[1] \notin overtaken => code[3] <= replay[code[1]]

LEMMA CodeRemembered ==
  ASSUME Types, Remembered, [Next]_vars
  PROVE  Remembered'
  <1>0. Period \union {0} \subseteq Int
    BY AccountsAssumption DEF Period
  <1>1. CASE UNCHANGED <<replay, accepted, overtaken, replayed>>
    BY <1>1 DEF Remembered
  <1>2. ASSUME NEW o \in Op, Use(o) PROVE Remembered'
    <2>1. op[o].user \in User /\ op[o].step \in Period \union {0}
      BY <1>2 DEF Use, Types, OpRecord, OpType
    <2>2. CASE ~Fresh(op[o].user, op[o].step)
      BY <1>1, <1>2, <2>2 DEF Use
    <2>3. CASE Fresh(op[o].user, op[o].step)
      <3>1. /\ replay' = [replay EXCEPT ![op[o].user] = op[o].step]
            /\ accepted' = accepted \union {<<op[o].user, op[o].secret, op[o].step>>}
            /\ replayed' = (replayed \/ (<<op[o].user, op[o].secret, op[o].step>> \in accepted
                                        /\ op[o].user \notin overtaken))
            /\ overtaken' = overtaken
        BY <1>2, <2>3 DEF Use, Code
      <3>2. replay[op[o].user] < op[o].step /\ replay[op[o].user] \in Int
        BY <1>0, <2>1, <2>3 DEF Fresh, Types, TypeOK
      <3>3. ~replayed'
        <4> DEFINE code == <<op[o].user, op[o].secret, op[o].step>>
        <4>1. code[1] = op[o].user /\ code[3] = op[o].step
          OBVIOUS
        <4> HIDE DEF code
        <4>2. op[o].step \in Int
          BY <1>0, <2>1
        <4>3. ASSUME code \in accepted, code[1] \notin overtaken PROVE FALSE
          <5>1. code[3] <= replay[code[1]]
            BY <4>3 DEF Remembered
          <5> QED BY <3>2, <4>1, <4>2, <5>1
        <4>4. replayed' = (replayed \/ (code \in accepted /\ op[o].user \notin overtaken))
          BY <3>1 DEF code
        <4> QED BY <4>1, <4>3, <4>4 DEF Remembered
      <3>4. ASSUME NEW code \in accepted' PROVE code[1] \in User /\ code[3] \in Period \union {0}
        BY <2>1, <3>1 DEF Remembered
      <3>5. ASSUME NEW code \in accepted', code[1] \notin overtaken PROVE code[3] <= replay'[code[1]]
        <4>1. CASE code \in accepted
          <5>1. code[3] <= replay[code[1]] /\ code[1] \in User /\ code[3] \in Int
            BY <1>0, <3>5, <4>1 DEF Remembered
          <5>2. CASE code[1] = op[o].user
            BY <1>0, <2>1, <3>1, <3>2, <5>1, <5>2 DEF Types, TypeOK
          <5>3. CASE code[1] # op[o].user
            BY <2>1, <3>1, <5>1, <5>3 DEF Types, TypeOK
          <5> QED BY <5>2, <5>3
        <4>2. CASE code = <<op[o].user, op[o].secret, op[o].step>>
          BY <1>0, <2>1, <3>1, <4>2 DEF Types, TypeOK
        <4> QED BY <3>1, <4>1, <4>2
      <3> QED BY <3>1, <3>3, <3>4, <3>5 DEF Remembered
    <2> QED BY <2>2, <2>3
  <1>3. ASSUME NEW o \in Op, Spend(o) PROVE Remembered'
    <2> DEFINE u == op[o].user
    <2>1. u \in User /\ op[o].step \in Period \union {0} /\ op[o].step \in Int /\ replay[u] \in Int
      BY <1>0, <1>3 DEF Spend, Types, TypeOK, OpRecord, OpType
    <2>2. ~replayed'
      BY <1>3 DEF Spend, Remembered
    <2>3. CASE op[o].kind = "disable"
      <3>1. /\ replay' = [replay EXCEPT ![u] = 0]
            /\ \/ accepted' = {code \in accepted : code[1] # u} /\ overtaken' = overtaken \ {u}
               \/ accepted' = accepted /\ overtaken' = overtaken \union {u}
        BY <1>3, <2>3 DEF Spend, CodesUsed
      <3>2. \A v \in User \ {u} : replay'[v] = replay[v]
        BY <2>1, <3>1 DEF Types, TypeOK
      <3>3. \A code \in accepted' : code[1] \in User /\ code[3] \in Period \union {0}
        BY <3>1 DEF Remembered
      <3>4. ASSUME NEW code \in accepted', code[1] \notin overtaken' PROVE code[3] <= replay'[code[1]]
        BY <3>1, <3>2, <3>3, <3>4 DEF Remembered
      <3> QED BY <2>2, <3>3, <3>4 DEF Remembered
    <2>4. CASE op[o].kind # "disable"
      <3>1. /\ replay' = [replay EXCEPT ![u] = IF replay[u] < op[o].step THEN op[o].step ELSE replay[u]]
            /\ accepted' = accepted \union {<<u, op[o].secret, op[o].step>>}
            /\ overtaken' = overtaken
        BY <1>3, <2>4 DEF Spend, Code, Fresh
      <3>2. replay'[u] >= replay[u] /\ replay'[u] >= op[o].step /\ replay'[u] \in Int
            /\ \A v \in User \ {u} : replay'[v] = replay[v]
        BY <2>1, <3>1 DEF Types, TypeOK
      <3>3. \A code \in accepted' : code[1] \in User /\ code[3] \in Period \union {0}
        BY <2>1, <3>1 DEF Remembered
      <3>4. ASSUME NEW code \in accepted', code[1] \notin overtaken' PROVE code[3] <= replay'[code[1]]
        <4>1. CASE code \in accepted
          <5>1. code[3] <= replay[code[1]] /\ code[1] \in User /\ code[3] \in Int
            BY <1>0, <3>1, <3>4, <4>1 DEF Remembered
          <5> QED BY <2>1, <3>2, <5>1
        <4>2. CASE code = <<u, op[o].secret, op[o].step>>
          BY <3>2, <4>2
        <4> QED BY <3>1, <4>1, <4>2
      <3> QED BY <2>2, <3>3, <3>4 DEF Remembered
    <2> QED BY <2>3, <2>4
  <1>4. CASE Crash
    BY <1>4 DEF Crash, Remembered
  <1> QED BY <1>1, <1>2, <1>3, <1>4, ReplaySteps

\* ReplayGuard: a code opens one session, and the one that confirmed a secret
\* none, for every interleaving of logins, confirmations and disables.
THEOREM CodesOnce == Spec => []CodeOnce
  <1>1. Init => Remembered
    BY DEF Init, Remembered
  <1>2. Types /\ Remembered /\ [Next]_vars => Remembered'
    BY CodeRemembered
  <1>3. Remembered => CodeOnce
    BY DEF Remembered, CodeOnce
  <1> QED BY <1>1, <1>2, <1>3, InitTypes, NextTypes, PTL DEF Spec

-----------------------------------------------------------------------------
(* The configuration *)

\* Replacing a user's account leaves the other users' alone.
LEMMA Replaced ==
  ASSUME Types, NEW u \in User, NEW a, conf' = [conf EXCEPT !.users[u] = a]
  PROVE  conf'.users[u] = a /\ \A v \in User \ {u} : conf'.users[v] = conf.users[v]
  BY DEF Types, TypeOK, Config

\* The account a step may give a user, or None: it has no secret, the one it had,
\* or one a confirmation has verified.
MayHave(u, a) ==
  \/ a = None /\ Cardinality(Users(conf)) > 1
  \/ /\ a \in Account
     /\ \/ a.secret = 0
        \/ Exists(u) /\ a.secret = conf.users[u].secret
        \/ \E o \in Op : op[o].pc = "set" /\ a.secret = op[o].secret

\* What a step does to the users and to config.yaml: it writes them, changes the
\* account of one user, or restarts from the file.
LEMMA ConfigEffect ==
  ASSUME Types, [Next]_vars
  PROVE  \/ conf'.users = conf.users /\ file' \in {file, Torn, conf}
         \/ /\ file' = file
            /\ \E u \in User, a \in Account \union {None} :
                 /\ MayHave(u, a) /\ conf'.users[u] = a
                 /\ \A v \in User \ {u} : conf'.users[v] = conf.users[v]
         \/ file # Torn /\ conf' = file /\ file' = file
  <1>1. ASSUME NEW o \in Op, Replace(o) \/ Fill(o)
        PROVE  conf' = conf /\ file' \in {file, Torn, conf}
    BY <1>1 DEF Replace, Fill, Written
  <1>2. ASSUME NEW o \in Op, SetSecret(o)
        PROVE  /\ file' = file
               /\ \/ conf' = conf
                  \/ \E u \in User, a \in Account : MayHave(u, a) /\ conf' = [conf EXCEPT !.users[u] = a]
    <2> DEFINE u == op[o].user
               a == [conf.users[u] EXCEPT !.secret = op[o].secret]
    <2>1. op[o].pc = "set" /\ u \in User /\ op[o].secret \in 0..MaxSecrets /\ file' = file
      BY <1>2 DEF SetSecret, Types, OpRecord, OpType
    <2>2. CASE Exists(u)
      <3>1. conf.users[u] \in Account
        BY <2>1, <2>2, SecretType
      <3>2. a \in Account /\ a.secret = op[o].secret
        BY <2>1, <3>1 DEF Account
      <3>3. conf' = [conf EXCEPT !.users[u] = a]
        BY <1>2, <2>2 DEF SetSecret
      <3> HIDE DEF u, a
      <3>4. MayHave(u, a)
        BY <2>1, <3>2 DEF MayHave
      <3> QED BY <2>1, <3>2, <3>3, <3>4
    <2>3. CASE ~Exists(u)
      BY <1>2, <2>1, <2>3 DEF SetSecret
    <2> QED BY <2>2, <2>3
  <1>3. ASSUME NEW o \in Op, Patch(o)
        PROVE  file' = file /\ conf'.users = conf.users
    <2>1. PICK addr \in 0..1 : file' = file /\ conf' = [conf EXCEPT !.addr = addr]
      BY <1>3 DEF Patch, Change
    <2> QED BY <2>1 DEF Types, TypeOK, Config
  <1>4. ASSUME NEW o \in Op, NEW u \in User, Disable(o, u)
        PROVE  file' = file /\ \E a \in Account : MayHave(u, a) /\ conf' = [conf EXCEPT !.users[u] = a]
    <2> DEFINE a == [conf.users[u] EXCEPT !.secret = 0]
    <2>1. conf.users[u] \in Account
      BY <1>4, SecretType DEF Disable
    <2>2. a \in Account /\ a.secret = 0
      BY <2>1, AccountsAssumption DEF Account
    <2>3. file' = file /\ conf' = [conf EXCEPT !.users[u] = a]
      BY <1>4 DEF Disable, Change
    <2> HIDE DEF a
    <2> QED BY <2>2, <2>3 DEF MayHave
  <1>5. ASSUME NEW o \in Op, NEW u \in User, AddUser(o, u)
        PROVE  file' = file /\ \E a \in Account : MayHave(u, a) /\ conf' = [conf EXCEPT !.users[u] = a]
    <2>1. PICK pw \in Password : conf' = [conf EXCEPT !.users[u] = [pw |-> pw, secret |-> 0]] /\ file' = file
      BY <1>5 DEF AddUser, Change
    <2>2. [pw |-> pw, secret |-> 0] \in Account
      BY AccountsAssumption DEF Account
    <2>3. MayHave(u, [pw |-> pw, secret |-> 0])
      BY <2>2 DEF MayHave
    <2> QED BY <2>1, <2>2, <2>3
  <1>6. ASSUME NEW o \in Op, NEW u \in User, DeleteUser(o, u)
        PROVE  file' = file /\ MayHave(u, None) /\ conf' = [conf EXCEPT !.users[u] = None]
    BY <1>6 DEF DeleteUser, Change, MayHave
  <1>7. ASSUME NEW o \in Op, NEW u \in User, ChangePassword(o, u)
        PROVE  file' = file /\ \E a \in Account : MayHave(u, a) /\ conf' = [conf EXCEPT !.users[u] = a]
    <2> DEFINE a(pw) == [conf.users[u] EXCEPT !.pw = pw]
    <2>1. PICK pw \in Password : file' = file /\ conf' = [conf EXCEPT !.users[u] = a(pw)]
      BY <1>7 DEF ChangePassword, Change
    <2>2. Exists(u) /\ conf.users[u] \in Account
      BY <1>7, SecretType DEF ChangePassword
    <2>3. a(pw) \in Account /\ a(pw).secret = conf.users[u].secret
      BY <2>2 DEF Account
    <2> HIDE DEF a
    <2>4. MayHave(u, a(pw))
      BY <2>2, <2>3 DEF MayHave
    <2> QED BY <2>1, <2>3, <2>4
  <1>8. CASE Crash
    <2>1. file' = file /\ (conf' = conf \/ (file # Torn /\ conf' = file))
      BY <1>8 DEF Crash
    <2> QED BY <2>1
  <1>9. ASSUME NEW u \in User, NEW a \in Account \union {None},
               MayHave(u, a), conf' = [conf EXCEPT !.users[u] = a], file' = file
        PROVE  /\ file' = file
               /\ \E v \in User, b \in Account \union {None} :
                    /\ MayHave(v, b) /\ conf'.users[v] = b
                    /\ \A w \in User \ {v} : conf'.users[w] = conf.users[w]
    BY <1>9, Replaced
  <1> QED BY <1>1, <1>2, <1>3, <1>4, <1>5, <1>6, <1>7, <1>8, <1>9, ConfigSteps

LEMMA SomeUserKept ==
  ASSUME Types, SomeUser, [Next]_vars
  PROVE  SomeUser'
  <1>1. CASE conf'.users = conf.users /\ file' \in {file, Torn, conf}
    BY <1>1 DEF SomeUser, Users
  <1>2. ASSUME file' = file, NEW u \in User, NEW a \in Account \union {None}, MayHave(u, a),
               conf'.users[u] = a, \A v \in User \ {u} : conf'.users[v] = conf.users[v]
        PROVE  SomeUser'
    <2>1. CASE a \in Account
      <3>1. u \in Users(conf')
        BY <1>2, <2>1, AccountsAssumption DEF Users
      <3> QED BY <1>2, <3>1 DEF SomeUser, Users
    <2>2. CASE a = None
      <3>1. Cardinality(Users(conf)) > 1
        BY <1>2, <2>2, AccountsAssumption DEF MayHave
      <3>2. PICK v \in Users(conf) : v # u
        <4>1. Cardinality({u}) = 1 /\ Cardinality({}) = 0
          BY FS_Singleton, FS_EmptySet
        <4>2. SUFFICES ASSUME \A v \in Users(conf) : v = u PROVE FALSE
          OBVIOUS
        <4>3. Users(conf) \in {{u}, {}}
          BY <4>2
        <4> QED BY <3>1, <4>1, <4>3
      <3>3. v \in Users(conf')
        BY <1>2, <3>2 DEF Users
      <3> QED BY <1>2, <3>3 DEF SomeUser, Users
    <2> QED BY <2>1, <2>2
  <1>3. CASE file # Torn /\ conf' = file /\ file' = file
    BY <1>3 DEF SomeUser, Users
  <1> QED BY <1>1, <1>2, <1>3, ConfigEffect

\* handleDeleteUser counts the users under cfgMu: whatever is deleted at once,
\* fails to be written, or is lost in a crash, one is left.
THEOREM UsersRemain == Spec => []SomeUser
  <1>1. Init => SomeUser
    BY DEF Init, SomeUser
  <1>2. Types /\ SomeUser /\ [Next]_vars => SomeUser'
    BY SomeUserKept
  <1> QED BY <1>1, <1>2, InitTypes, NextTypes, PTL DEF Spec

\* The secret of an account, and of a confirmation that has verified its code.
SetProven ==
  /\ SecretProven
  /\ \A o \in Op : op[o].pc = "set" => op[o].secret \in proven

\* A step of a request leaves the others' alone, and it does not wait for cfgMu
\* with a secret.
Other(o) == op'[o].pc # "set" /\ \A q \in Op \ {o} : op'[q] = op[q]

LEMMA ProvenSteps ==
  ASSUME Types, [Next]_vars
  PROVE  /\ proven \subseteq proven'
         /\ \A o \in Op : op'[o].pc = "set" => op'[o] = op[o] \/ op'[o].secret \in proven'
  <1>1. CASE UNCHANGED vars
    BY <1>1 DEF vars, ghosts
  <1>2. ASSUME NEW o \in Op, Other(o)
        PROVE  \A q \in Op : op'[q].pc = "set" => op'[q] = op[q] \/ op'[q].secret \in proven'
    BY <1>2 DEF Other
  <1>3. ASSUME NEW o \in Op, Done(o) PROVE Other(o)
    BY <1>3, NewOpType DEF Types, Done, Other
  <1>4. ASSUME NEW o \in Op, NEW pc \in PCs \ {"set"}, Goto(o, pc) PROVE Other(o)
    BY <1>4 DEF Types, OpRecord, OpType, Goto, Other
  <1>5. ASSUME NEW o \in Op, Start(o)
        PROVE  proven' = proven /\ (op' = op \/ Other(o))
    <2>1. proven' = proven
      BY <1>5 DEF Start, StartTOTP, StartLogin, StartEnroll, StartConfirm, Disable, AddUser,
         DeleteUser, ChangePassword, Change, Patch, ghosts
    <2>2. ASSUME NEW c \in Client, NEW u \in User, StartLogin(o, c, u) PROVE Other(o)
      BY <2>2 DEF StartLogin, NewOp, Types, Other
    <2>3. ASSUME NEW kind, NEW u, NEW new, Change(o, kind, u, new) PROVE Other(o)
      BY <2>3 DEF Change, NewOp, Types, Other
    <2>4. ASSUME NEW u \in User, Disable(o, u) \/ AddUser(o, u) \/ DeleteUser(o, u) \/ ChangePassword(o, u)
          PROVE  Other(o)
      BY <2>3, <2>4 DEF Disable, AddUser, DeleteUser, ChangePassword
    <2>5. ASSUME Patch(o) PROVE op' = op \/ Other(o)
      BY <2>3, <2>5 DEF Patch
    <2>6. ASSUME NEW u \in User, StartEnroll(o, u) PROVE Other(o)
      BY <2>6 DEF StartEnroll, NewOp, Types, Other
    <2>8. ASSUME NEW u \in User, StartConfirm(o, u) PROVE Other(o)
      BY <2>8 DEF StartConfirm, NewOp, Types, Other
    <2>7. ASSUME NEW c \in Client, StartTOTP(o, c) PROVE Other(o)
      BY <2>7 DEF StartTOTP, NewOp, Types, Other
    <2> QED BY <1>5, <2>1, <2>2, <2>4, <2>5, <2>6, <2>7, <2>8 DEF Start
  <1>6. ASSUME NEW o \in Op, Verify(o)
        PROVE  /\ proven \subseteq proven'
               /\ \A q \in Op : op'[q].pc = "set" => op'[q] = op[q] \/ op'[q].secret \in proven'
    <2>1. CASE Done(o)
      BY <1>2, <1>3, <1>6, <2>1 DEF Verify
    <2>2. ASSUME NEW k, op' = [op EXCEPT ![o].pc = "set", ![o].step = k],
                 proven' = proven \union {op[o].secret}
          PROVE  \A q \in Op : op'[q].pc = "set" => op'[q] = op[q] \/ op'[q].secret \in proven'
      <3>1. op'[o].secret = op[o].secret
        BY <2>2 DEF Types, OpRecord, OpType
      <3>2. \A q \in Op \ {o} : op'[q] = op[q]
        BY <2>2 DEF Types
      <3>3. op'[o].secret \in proven'
        BY <2>2, <3>1
      <3> QED BY <3>2, <3>3
    <2> QED BY <1>6, <2>1, <2>2 DEF Verify
  <1>7. ASSUME NEW o \in Op, Step(o), ~Verify(o) PROVE proven' = proven /\ Other(o)
    <2>1. proven' = proven
      BY <1>7 DEF Step, CheckPassword, CheckCode, Use, Issue, Reset, Open, Fail, Promote, HandOut, SetSecret, Drop,
         Spend, Replace, Fill, Written, WriteFails, ghosts
    <2>2. \A pc \in {"issue", "reset", "open", "fail", "use", "promote", "replace", "drop", "spend", "fill"} : pc \in PCs \ {"set"}
      BY DEF PCs
    <2>4. ASSUME CheckCode(o) PROVE Other(o)
      <3>1. ASSUME NEW k, op' = [op EXCEPT ![o].pc = "use", ![o].secret = SecretOf(op[o].user), ![o].step = k]
            PROVE  Other(o)
        BY <3>1 DEF Types, OpRecord, OpType, Other
      <3> QED BY <1>4, <2>2, <2>4, <3>1 DEF CheckCode
    <2>5. ASSUME ~CheckCode(o)
          PROVE  Done(o) \/ \E pc \in PCs \ {"set"} : Goto(o, pc)
      BY <1>7, <2>2, <2>5 DEF Step, CheckPassword, Use, Issue, Reset, Open, Fail, Promote, HandOut, SetSecret, Drop, Spend,
         Replace, Fill, Written, WriteFails
    <2> QED BY <1>3, <1>4, <2>1, <2>4, <2>5
  <1>8. ASSUME Environment
        PROVE  proven' = proven /\ \A q \in Op : op'[q].pc = "set" => op'[q] = op[q]
    BY <1>8, NewOpType DEF Environment, Crash, Tick, SessionEnds, LimiterForgets, EnrollExpires, ghosts
  <1> QED BY <1>1, <1>2, <1>5, <1>6, <1>7, <1>8 DEF Next

LEMMA SecretIsProven ==
  ASSUME Types, SetProven, [Next]_vars
  PROVE  SetProven'
  <1>1. proven \subseteq proven' /\ \A o \in Op : op'[o].pc = "set" => op'[o].secret \in proven'
    BY ProvenSteps DEF SetProven
  <1>2. ASSUME NEW u \in User, conf.users[u] # None PROVE conf.users[u].secret \in proven \union {0}
    BY <1>2 DEF SetProven, SecretProven, SecretOf, Exists
  <1>3. ASSUME file # Torn, NEW u \in User, file.users[u] # None PROVE file.users[u].secret \in proven \union {0}
    BY <1>3 DEF SetProven, SecretProven
  <1>4. SUFFICES ASSUME NEW u \in User
                 PROVE  /\ conf'.users[u] # None => conf'.users[u].secret \in proven \union {0}
                        /\ file' # Torn /\ file'.users[u] # None => file'.users[u].secret \in proven \union {0}
    BY <1>1, <1>4 DEF SetProven, SecretProven, SecretOf, Exists
  <1>5. CASE conf'.users = conf.users /\ file' \in {file, Torn, conf}
    BY <1>2, <1>3, <1>5
  <1>6. ASSUME file' = file, NEW v \in User, NEW a \in Account \union {None}, MayHave(v, a),
               conf'.users[v] = a, \A w \in User \ {v} : conf'.users[w] = conf.users[w]
        PROVE  conf'.users[u] # None => conf'.users[u].secret \in proven \union {0}
    BY <1>2, <1>6 DEF MayHave, Exists, SetProven
  <1>7. CASE file # Torn /\ conf' = file /\ file' = file
    BY <1>3, <1>7
  <1> QED BY <1>3, <1>5, <1>6, <1>7, ConfigEffect

\* handleTOTPEnrollConfirm: no account, live or in config.yaml, ever has a
\* secret of which no code was verified, however its enrolments overlap.
THEOREM SecretsProven == Spec => []SecretProven
  <1>1. Init => SetProven
    <2> SUFFICES ASSUME Init PROVE SetProven
      OBVIOUS
    <2>1. \A u \in User : conf.users[u] # None => conf.users[u].secret \in {0, 1}
      BY DEF Init
    <2>3. ASSUME NEW u \in User, SecretOf(u) # 0 PROVE 1 \in proven
      BY <2>3 DEF Init
    <2>2. \A o \in Op : op[o].pc # "set"
      BY DEF Init, NewOp
    <2> QED BY <2>1, <2>2, <2>3 DEF Init, SetProven, SecretProven, SecretOf, Exists
  <1>2. Types /\ SetProven /\ [Next]_vars => SetProven'
    BY SecretIsProven
  <1>3. SetProven => SecretProven
    BY DEF SetProven
  <1> QED BY <1>1, <1>2, <1>3, InitTypes, NextTypes, PTL DEF Spec

\* A step that neither changes the configuration nor writes it ends no request's
\* writing, and leaves `ahead` and `up` alone.
LEMMA NotWriting ==
  ASSUME Types, [Next]_vars,
         ~\E o \in Op : SetSecret(o) \/ Patch(o) \/ Replace(o) \/ Fill(o) \/ WriteFails(o),
         ~\E o \in Op, u \in User : Disable(o, u) \/ AddUser(o, u) \/ DeleteUser(o, u) \/ ChangePassword(o, u),
         ~Crash
  PROVE  /\ UNCHANGED <<conf, file, ahead, up>>
         /\ \A o \in Op : op[o].pc \in Writing => op'[o].pc \in Writing
  <1>1. CASE UNCHANGED vars
    BY <1>1 DEF vars, ghosts, world
  <1>2. ASSUME NEW o \in Op, op[o].pc \notin Writing, NEW r, op' = [op EXCEPT ![o] = r]
        PROVE  \A q \in Op : op[q].pc \in Writing => op'[q].pc \in Writing
    BY <1>2 DEF Types
  <1>3. ASSUME NEW o \in Op, Start(o)
        PROVE  /\ UNCHANGED <<conf, file, ahead, up>> /\ op[o].pc \notin Writing
               /\ \E r : op' = [op EXCEPT ![o] = r]
    <2>1. UNCHANGED <<conf, file, ahead, up>>
      BY <1>3 DEF Start, StartTOTP, StartLogin, StartEnroll, StartConfirm, ghosts, world
    <2>2. op[o].pc \notin Writing
      BY <1>3 DEF Start, StartTOTP, StartLogin, StartEnroll, StartConfirm, Accepts, Writing
    <2>3. \E r : op' = [op EXCEPT ![o] = r]
      BY <1>3 DEF Start, StartTOTP, StartLogin, StartEnroll, StartConfirm
    <2> QED BY <2>1, <2>2, <2>3
  <1>4. ASSUME NEW o \in Op, Step(o)
        PROVE  /\ UNCHANGED <<conf, file, ahead, up>> /\ op[o].pc \notin Writing
               /\ \E r : op' = [op EXCEPT ![o] = r]
    <2>1. UNCHANGED <<conf, file, ahead, up>>
      BY <1>4 DEF Step, CheckPassword, CheckCode, Use, Issue, Reset, Open, Fail, Promote, HandOut, Verify,
         Drop, Spend, ghosts, world
    <2>2. op[o].pc \notin Writing
      BY <1>4 DEF Step, CheckPassword, CheckCode, Use, Issue, Reset, Open, Fail, Promote, HandOut, Verify,
         Drop, Spend, Writing
    <2>3. \E r : op' = [op EXCEPT ![o] = r]
      BY <1>4 DEF Step, CheckPassword, CheckCode, Use, Issue, Reset, Open, Fail, Promote, HandOut, Verify,
         Drop, Spend, Goto, Done
    <2> QED BY <2>1, <2>2, <2>3
  <1>5. ASSUME Environment PROVE UNCHANGED <<conf, file, ahead, up, op>>
    BY <1>5 DEF Environment, Tick, SessionEnds, LimiterForgets, EnrollExpires, ghosts, world
  <1> QED BY <1>1, <1>2, <1>3, <1>4, <1>5 DEF Next

LEMMA FileKept ==
  ASSUME Types, FileFollows, [Next]_vars
  PROVE  FileFollows'
  <1>1. CASE /\ UNCHANGED <<conf, file, ahead, up>>
             /\ \A o \in Op : op[o].pc \in Writing => op'[o].pc \in Writing
    BY <1>1 DEF FileFollows, CfgFree
  <1>2. ASSUME NEW o \in Op, op'[o].pc \in Writing PROVE FileFollows'
    BY <1>2 DEF FileFollows, CfgFree
  <1>3. "replace" \in Writing /\ "fill" \in Writing
    BY DEF Writing
  <1>4. ASSUME NEW o \in Op, NEW kind, NEW u, NEW new, Change(o, kind, u, new) PROVE FileFollows'
    <2>1. op'[o].pc = "replace"
      BY <1>4 DEF Change, NewOp, Types
    <2> QED BY <1>2, <1>3, <2>1
  <1>5. ASSUME NEW o \in Op, NEW u \in User,
               Disable(o, u) \/ AddUser(o, u) \/ DeleteUser(o, u) \/ ChangePassword(o, u)
        PROVE  FileFollows'
    BY <1>4, <1>5 DEF Disable, AddUser, DeleteUser, ChangePassword
  <1>6. ASSUME NEW o \in Op, SetSecret(o) PROVE FileFollows'
    <2>1. CASE Goto(o, "replace")
      <3>1. op'[o].pc = "replace"
        BY <2>1 DEF Goto, Types, OpRecord, OpType
      <3> QED BY <1>2, <1>3, <3>1
    <2>2. CASE Done(o) /\ UNCHANGED conf
      <3>1. /\ UNCHANGED <<conf, file, ahead, up>>
            /\ \A q \in Op : op[q].pc \in Writing => op'[q].pc \in Writing
        BY <1>6, <2>2 DEF SetSecret, Done, Types, Writing, ghosts, world
      <3> QED BY <1>1, <3>1
    <2> QED BY <1>6, <2>1, <2>2 DEF SetSecret
  <1>7. ASSUME NEW o \in Op, Patch(o) PROVE FileFollows'
    <2>1. PICK addr \in 0..1 :
            \/ Change(o, "patch", None, [conf EXCEPT !.addr = addr])
            \/ /\ conf' = [conf EXCEPT !.addr = addr] /\ ahead' = (ahead \/ conf' # conf)
               /\ file' = file /\ up' = up /\ op' = op
      BY <1>7 DEF Patch, world
    <2>2. CASE /\ conf' = [conf EXCEPT !.addr = addr] /\ ahead' = (ahead \/ conf' # conf)
               /\ file' = file /\ up' = up /\ op' = op
      BY <2>2 DEF FileFollows, CfgFree
    <2> QED BY <1>4, <2>1, <2>2
  <1>8. ASSUME NEW o \in Op, Written(o) PROVE FileFollows'
    BY <1>8 DEF Written, FileFollows
  <1>9. ASSUME NEW o \in Op, Replace(o) \/ Fill(o) PROVE FileFollows'
    <2>1. CASE Goto(o, "fill")
      <3>1. op'[o].pc = "fill"
        BY <2>1 DEF Goto, Types, OpRecord, OpType
      <3> QED BY <1>2, <1>3, <3>1
    <2> QED BY <1>8, <1>9, <2>1 DEF Replace, Fill
  <1>10. ASSUME NEW o \in Op, WriteFails(o) PROVE FileFollows'
    BY <1>10 DEF WriteFails, FileFollows
  <1>11. CASE Crash
    BY <1>11 DEF Crash, FileFollows
  <1> QED BY <1>1, <1>5, <1>6, <1>7, <1>9, <1>10, <1>11, NotWriting

\* writeConfig and cfgMu: config.yaml is what the server works with, whoever
\* wrote last and however it was replaced, truncated or read back after a crash.
THEOREM FileIsLive == Spec => []FileFollows
  <1>1. Init => FileFollows
    BY DEF Init, FileFollows
  <1>2. Types /\ FileFollows /\ [Next]_vars => FileFollows'
    BY FileKept
  <1> QED BY <1>1, <1>2, InitTypes, NextTypes, PTL DEF Spec
=============================================================================
