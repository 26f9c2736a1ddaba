------------------------------ MODULE Accounts -------------------------------
(***************************************************************************)
(* Users, their second factor and the configuration they live in           *)
(* (internal/server/server.go, internal/auth), with builtin authentication *)
(* and clients outside the LAN subnets.                                    *)
(*                                                                         *)
(* The live configuration is changed and written back to config.yaml under *)
(* cfgMu; sessions, pending enrolments, the replay guard and the limiter   *)
(* are in memory, each under a mutex of its own.  A handler is a sequence  *)
(* of such critical sections, and handlers interleave between them.        *)
(***************************************************************************)
EXTENDS Naturals, FiniteSets

CONSTANTS
  Op,           \* requests in flight
  Client,       \* browsers, each with an address and a cookie of its own
  User,
  Password,
  None,
  Torn,         \* config.yaml truncated
  MaxFails,     \* failures that block an address (5 in the code)
  Requests,     \* the request kinds made
  MaxSecrets,   \* secrets generated (bound)
  MaxTime,      \* TOTP periods (bound)
  MaxRequests,  \* requests made (bound)
  MaxFaults     \* failed writes and crashes (bound)

Logins == {"login", "totp"}
Writes == {"confirm", "disable", "addUser", "deleteUser", "password", "patch"}
Kinds == Logins \union Writes \union {"enroll"}

Secret == 1..MaxSecrets      \* 0: none
Period == 1..MaxTime + 1     \* a device's clock may be one ahead
Account == [pw : Password, secret : 0..MaxSecrets]
Config == [users : [User -> Account \union {None}], addr : 0..1]

ASSUME AccountsAssumption ==
  /\ None \notin User \union Client /\ None \notin Account /\ Torn # None
  /\ Password # {} /\ User # {}
  /\ Requests \subseteq Kinds
  /\ MaxFails \in Nat \ {0} /\ MaxSecrets \in Nat \ {0} /\ MaxTime \in Nat \ {0}
  /\ MaxRequests \in Nat /\ MaxFaults \in Nat

VARIABLES
  conf,      \* s.cfg: the users and, for all other settings, host_attach_addr
  file,      \* config.yaml: a configuration, or Torn
  mounted,   \* config.yaml is bind-mounted into the container
  up,        \* FALSE: the server cannot start
  enroll,    \* s.enroll: User -> secret handed out and not confirmed
  replay,    \* s.totpReplay: User -> last period consumed, or 0
  session,   \* Client -> the session of its cookie, or None
  limiter,   \* Client -> failures counted, whether it is blocked
  op,        \* Op -> control point and locals
  now,       \* the TOTP period
  issued,    \* secrets generated so far
  made,      \* requests made so far
  faults,    \* failed writes and crashes so far
  ahead,     \* history: a change was made whose write failed or never came
  proven,    \* history: secrets of which a code has been verified
  accepted,  \* history: the codes that opened a session or confirmed a secret
  overtaken, \* history: users enrolled anew before a disable forgot their codes
  replayed,  \* history: a code opened another session, of a user not overtaken
  wrong      \* history: Client -> wrong answers since its last complete login
             \* or block, and still in the window

memory == <<enroll, replay, session, limiter>>
ghosts == <<ahead, proven, accepted, overtaken, replayed, wrong>>
world == <<mounted, up, now, faults>>
vars == <<conf, file, memory, op, issued, made, world, ghosts>>

-----------------------------------------------------------------------------
NewOp == [kind |-> None, pc |-> "idle", client |-> None, user |-> None, secret |-> 0, step |-> 0]

Goto(o, pc) == op' = [op EXCEPT ![o].pc = pc]
Done(o) == op' = [op EXCEPT ![o] = NewOp]

Accepts(o, kind) == op[o].pc = "idle" /\ kind \in Requests

\* cfgMu: changed and written back under one lock.
Writing == {"replace", "fill"}
CfgFree == \A o \in Op : op[o].pc \notin Writing

Exists(u) == conf.users[u] # None
Users(c) == {u \in User : c.users[u] # None}

\* TOTPSecretFor
SecretOf(u) == IF Exists(u) THEN conf.users[u].secret ELSE 0

\* VerifyTOTP: the periods whose codes of a secret are accepted now.
Window == {now - 1, now, now + 1} \ {0}
CodesOf(secret) == IF secret = 0 THEN {} ELSE Window

-----------------------------------------------------------------------------
(* handleLogin: the password.  No user has an empty name: a login without one, *)
(* which browsers make to probe for the LAN bypass, fails and is not counted.  *)

Blocked(c) == limiter[c].blocked

StartLogin(o, c, u) ==
  /\ Accepts(o, "login") /\ ~Blocked(c)
  /\ op' = [op EXCEPT ![o] = [NewOp EXCEPT !.kind = "login", !.pc = "password",
                                           !.client = c, !.user = u]]
  /\ UNCHANGED <<conf, file, memory, issued, world, ghosts>>

CheckPassword(o) ==
  LET u == op[o].user IN
  /\ op[o].pc = "password" /\ CfgFree
  /\ \E pw \in Password :
       IF Exists(u) /\ conf.users[u].pw = pw
       THEN Goto(o, IF SecretOf(u) = 0 THEN "reset" ELSE "issue")
       ELSE Goto(o, "fail")
  /\ UNCHANGED <<conf, file, memory, issued, world, ghosts>>

\* RateLimiter.Reset
Forgiven(c) == [limiter EXCEPT ![c] = [fails |-> 0, blocked |-> FALSE]]

\* Mutant: the right password clears the failures before the code is asked for.
IssueResetting(o) ==
  LET r == op[o] IN
  /\ r.pc = "issue"
  /\ session' = [session EXCEPT ![r.client] = [user |-> r.user, pending |-> TRUE]]
  /\ limiter' = Forgiven(r.client)
  /\ Done(o)
  /\ UNCHANGED <<conf, file, enroll, replay, issued, world, ghosts>>

\* A code is owed: a pending session.
Issue(o) ==
  LET r == op[o] IN
  /\ r.pc = "issue"
  /\ session' = [session EXCEPT ![r.client] = [user |-> r.user, pending |-> TRUE]]
  /\ Done(o)
  /\ UNCHANGED <<conf, file, enroll, replay, limiter, issued, world, ghosts>>

\* The login is complete: its address is forgiven, and then it has a session.
Reset(o) ==
  /\ op[o].pc = "reset"
  /\ limiter' = Forgiven(op[o].client)
  /\ wrong' = [wrong EXCEPT ![op[o].client] = 0]
  /\ Goto(o, "open")
  /\ UNCHANGED <<conf, file, enroll, replay, session, issued, world,
                 ahead, proven, accepted, overtaken, replayed>>

Open(o) ==
  LET r == op[o] IN
  /\ r.pc = "open"
  /\ session' = [session EXCEPT ![r.client] = [user |-> r.user, pending |-> FALSE]]
  /\ Done(o)
  /\ UNCHANGED <<conf, file, enroll, replay, limiter, issued, world, ghosts>>

\* RateLimiter.Fail: a failure that arrives during a block is not counted.
Fail(o) ==
  LET c == op[o].client
      fails == limiter[c].fails + 1
  IN
  /\ op[o].pc = "fail"
  /\ limiter' = CASE Blocked(c) -> limiter
                  [] ~Blocked(c) /\ fails >= MaxFails ->
                       [limiter EXCEPT ![c] = [fails |-> 0, blocked |-> TRUE]]
                  [] OTHER -> [limiter EXCEPT ![c].fails = fails]
  /\ wrong' = [wrong EXCEPT ![c] = IF Blocked(c) THEN @ ELSE @ + 1]
  /\ Done(o)
  /\ UNCHANGED <<conf, file, enroll, replay, session, issued, world,
                 ahead, proven, accepted, overtaken, replayed>>

-----------------------------------------------------------------------------
(* handleTOTP: the code *)

StartTOTP(o, c) ==
  /\ Accepts(o, "totp") /\ session[c] # None /\ session[c].pending /\ ~Blocked(c)
  /\ op' = [op EXCEPT ![o] = [NewOp EXCEPT !.kind = "totp", !.pc = "code", !.client = c,
                                           !.user = session[c].user]]
  /\ UNCHANGED <<conf, file, memory, issued, world, ghosts>>

\* A code of the user's secret now, or a wrong one.
CheckCode(o) ==
  LET secret == SecretOf(op[o].user) IN
  /\ op[o].pc = "code" /\ CfgFree
  /\ \/ \E k \in CodesOf(secret) :
          op' = [op EXCEPT ![o].pc = "use", ![o].secret = secret, ![o].step = k]
     \/ Goto(o, "fail")
  /\ UNCHANGED <<conf, file, memory, issued, world, ghosts>>

Code(r) == <<r.user, r.secret, r.step>>
CodesUsed(u) == {code \in accepted : code[1] = u}

\* Mutant: the last period consumed may be used again.
FreshOrLast(u, step) == replay[u] <= step

\* ReplayGuard.Use
Fresh(u, step) == replay[u] < step

Use(o) ==
  LET r == op[o] IN
  /\ r.pc = "use"
  /\ IF Fresh(r.user, r.step)
     THEN /\ replay' = [replay EXCEPT ![r.user] = r.step]
          /\ accepted' = accepted \union {Code(r)}
          /\ replayed' = (replayed \/ (Code(r) \in accepted /\ r.user \notin overtaken))
          /\ Goto(o, "promote")
     ELSE Goto(o, "fail") /\ UNCHANGED <<replay, accepted, replayed>>
  /\ UNCHANGED <<conf, file, enroll, session, limiter, issued, world, ahead, proven, overtaken,
                 wrong>>

\* The pending session is deleted; the cookie may hold another one by now.
Promote(o) ==
  /\ op[o].pc = "promote"
  /\ session' \in {session, [session EXCEPT ![op[o].client] = None]}
  /\ Goto(o, "reset")
  /\ UNCHANGED <<conf, file, enroll, replay, limiter, issued, world, ghosts>>

-----------------------------------------------------------------------------
(* handleTOTPEnrollStart, handleTOTPEnrollConfirm, handleTOTPDisable *)

StartEnroll(o, u) ==
  /\ Accepts(o, "enroll") /\ CfgFree /\ Exists(u)
  /\ op' = [op EXCEPT ![o] = [NewOp EXCEPT !.kind = "enroll", !.pc = "hand", !.user = u]]
  /\ UNCHANGED <<conf, file, memory, issued, world, ghosts>>

\* A new secret replaces one that was never confirmed.  When its scan fails, no code
\* of it is shown.
HandOut(o) ==
  /\ op[o].pc = "hand" /\ issued < MaxSecrets
  /\ issued' = issued + 1
  /\ enroll' = [enroll EXCEPT ![op[o].user] = issued + 1]
  /\ Done(o)
  /\ UNCHANGED <<conf, file, replay, session, limiter, mounted, up, now, faults, ghosts>>

\* The pending secret is read under enrollMu; one that has expired is refused.
StartConfirm(o, u) ==
  /\ Accepts(o, "confirm") /\ enroll[u] # 0
  /\ op' = [op EXCEPT ![o] = [NewOp EXCEPT !.kind = "confirm", !.pc = "verify", !.user = u,
                                           !.secret = enroll[u]]]
  /\ UNCHANGED <<conf, file, memory, issued, world, ghosts>>

\* A code of it, or a wrong one, which no limiter counts.
Verify(o) ==
  LET secret == op[o].secret IN
  /\ op[o].pc = "verify"
  /\ \/ \E k \in CodesOf(secret) :
          /\ op' = [op EXCEPT ![o].pc = "set", ![o].step = k]
          /\ proven' = proven \union {secret}
     \/ Done(o) /\ UNCHANGED proven
  /\ UNCHANGED <<conf, file, memory, issued, world, ahead, accepted, overtaken, replayed, wrong>>

\* Mutant: the pending secret is looked up again.
SetPending(o) ==
  LET r == op[o] IN
  /\ r.pc = "set" /\ CfgFree
  /\ IF Exists(r.user)
     THEN conf' = [conf EXCEPT !.users[r.user].secret = enroll[r.user]] /\ Goto(o, "replace")
     ELSE Done(o) /\ UNCHANGED conf
  /\ UNCHANGED <<file, memory, issued, world, ghosts>>

\* cfgMu is taken only now: the user may be gone.
SetSecret(o) ==
  LET r == op[o] IN
  /\ r.pc = "set" /\ CfgFree
  /\ IF Exists(r.user)
     THEN conf' = [conf EXCEPT !.users[r.user].secret = r.secret] /\ Goto(o, "replace")
     ELSE Done(o) /\ UNCHANGED conf
  /\ UNCHANGED <<file, memory, issued, world, ghosts>>

\* After the write, enrollMu and then the replay guard.
Drop(o) ==
  /\ op[o].pc = "drop"
  /\ enroll' = [enroll EXCEPT ![op[o].user] = 0]
  /\ Goto(o, "spend")
  /\ UNCHANGED <<conf, file, replay, session, limiter, issued, world, ghosts>>

Spend(o) ==
  LET r == op[o] IN
  /\ r.pc = "spend"
  /\ IF r.kind = "disable"
     THEN /\ replay' = [replay EXCEPT ![r.user] = 0]
          /\ IF SecretOf(r.user) = 0
             THEN accepted' = accepted \ CodesUsed(r.user) /\ overtaken' = overtaken \ {r.user}
             ELSE overtaken' = overtaken \union {r.user} /\ UNCHANGED accepted
     ELSE /\ replay' = [replay EXCEPT ![r.user] = IF Fresh(r.user, r.step) THEN r.step ELSE @]
          /\ accepted' = accepted \union {Code(r)}
          /\ UNCHANGED overtaken
  /\ Done(o)
  /\ UNCHANGED <<conf, file, enroll, session, limiter, issued, world, ahead, proven,
                 replayed, wrong>>

-----------------------------------------------------------------------------
(* The other handlers that change the configuration *)

Change(o, kind, u, new) ==
  /\ conf' = new
  /\ op' = [op EXCEPT ![o] = [NewOp EXCEPT !.kind = kind, !.pc = "replace", !.user = u]]
  /\ UNCHANGED <<file, memory, issued, world, ghosts>>

Disable(o, u) ==
  /\ Accepts(o, "disable") /\ CfgFree /\ Exists(u)
  /\ Change(o, "disable", u, [conf EXCEPT !.users[u].secret = 0])

AddUser(o, u) ==
  /\ Accepts(o, "addUser") /\ CfgFree /\ ~Exists(u)
  /\ \E pw \in Password :
       Change(o, "addUser", u, [conf EXCEPT !.users[u] = [pw |-> pw, secret |-> 0]])

\* Mutant: the users are counted as config.yaml has them.
DeleteCountingFile(o, u) ==
  /\ Accepts(o, "deleteUser") /\ CfgFree /\ Exists(u) /\ file # Torn
  /\ Cardinality(Users(file)) > 1
  /\ Change(o, "deleteUser", u, [conf EXCEPT !.users[u] = None])

DeleteUser(o, u) ==
  /\ Accepts(o, "deleteUser") /\ CfgFree /\ Exists(u)
  /\ Cardinality(Users(conf)) > 1
  /\ Change(o, "deleteUser", u, [conf EXCEPT !.users[u] = None])

\* Mutant: never written back.
ChangeLivePassword(o, u) ==
  /\ Accepts(o, "password") /\ CfgFree /\ Exists(u)
  /\ \E pw \in Password : conf' = [conf EXCEPT !.users[u].pw = pw]
  /\ UNCHANGED <<file, memory, op, issued, world, ghosts>>

ChangePassword(o, u) ==
  /\ Accepts(o, "password") /\ CfgFree /\ Exists(u)
  /\ \E pw \in Password :
       Change(o, "password", u, [conf EXCEPT !.users[u].pw = pw])

\* Fields are applied one by one: an invalid one ends the request with a 400
\* after those before it have taken effect.
Patch(o) ==
  /\ Accepts(o, "patch") /\ CfgFree
  /\ \E addr \in 0..1 : LET new == [conf EXCEPT !.addr = addr] IN
       \/ Change(o, "patch", None, new)
       \/ /\ conf' = new /\ ahead' = (ahead \/ new # conf)
          /\ UNCHANGED <<file, memory, op, issued, world, proven, accepted, overtaken, replayed, wrong>>

-----------------------------------------------------------------------------
(* writeConfig *)

\* The handler unlocks cfgMu, and goes on.
Written(o) ==
  /\ file' = conf
  /\ ahead' = FALSE
  /\ IF op[o].kind \in {"confirm", "disable"} THEN Goto(o, "drop") ELSE Done(o)
  /\ UNCHANGED <<conf, memory, issued, world, proven, accepted, overtaken, replayed, wrong>>

\* A temporary file and os.Rename, or EBUSY over a mount: the file is
\* truncated in place.
Replace(o) ==
  /\ op[o].pc = "replace"
  /\ \/ ~mounted /\ Written(o)
     \/ /\ mounted
        /\ file' = Torn /\ Goto(o, "fill")
        /\ UNCHANGED <<conf, memory, issued, world, ghosts>>

Fill(o) == op[o].pc = "fill" /\ Written(o)

\* Any of its system calls fails: a 500, and the change stays live.
WriteFails(o) ==
  /\ op[o].pc \in Writing /\ faults < MaxFaults
  /\ faults' = faults + 1
  /\ ahead' = TRUE
  /\ Done(o)
  /\ UNCHANGED <<conf, file, memory, issued, mounted, up, now,
                 proven, accepted, overtaken, replayed, wrong>>

\* What is in memory is gone; a truncated config.yaml does not validate.
Crash ==
  /\ faults < MaxFaults
  /\ faults' = faults + 1
  /\ op' = [o \in Op |-> NewOp]
  /\ enroll' = [u \in User |-> 0] /\ replay' = [u \in User |-> 0]
  /\ session' = [c \in Client |-> None]
  /\ limiter' = [c \in Client |-> [fails |-> 0, blocked |-> FALSE]]
  /\ IF file = Torn THEN up' = FALSE /\ UNCHANGED conf ELSE conf' = file /\ UNCHANGED up
  /\ ahead' = FALSE /\ accepted' = {} /\ overtaken' = {}
  /\ wrong' = [c \in Client |-> 0]
  /\ UNCHANGED <<file, issued, mounted, now, proven, replayed>>

-----------------------------------------------------------------------------
(* Time, and the browsers *)

Tick ==
  /\ now < MaxTime
  /\ now' = now + 1
  /\ UNCHANGED <<conf, file, memory, op, issued, mounted, up, faults, ghosts>>

\* handleLogout, or the session expires.
SessionEnds(c) ==
  /\ session[c] # None
  /\ session' = [session EXCEPT ![c] = None]
  /\ UNCHANGED <<conf, file, enroll, replay, limiter, op, issued, world, ghosts>>

EnrollExpires(u) ==
  /\ enroll[u] # 0
  /\ enroll' = [enroll EXCEPT ![u] = 0]
  /\ UNCHANGED <<conf, file, replay, session, limiter, op, issued, world, ghosts>>

\* A block ends, or the oldest failure leaves the window.
LimiterForgets(c) ==
  /\ IF Blocked(c) THEN limiter' = Forgiven(c) /\ wrong' = [wrong EXCEPT ![c] = 0]
     ELSE /\ limiter[c].fails > 0
          /\ limiter' = [limiter EXCEPT ![c].fails = @ - 1]
          /\ wrong' = [wrong EXCEPT ![c] = @ - 1]
  /\ UNCHANGED <<conf, file, enroll, replay, session, op, issued, world,
                 ahead, proven, accepted, overtaken, replayed>>

-----------------------------------------------------------------------------
\* At most one user has a second factor, secret 1.  If none has, there is one request
\* less (bound).
Init ==
  /\ conf \in [users : [User -> [pw : Password, secret : {0, 1}] \union {None}], addr : {0}]
  /\ Users(conf) # {}
  /\ \A u, v \in User : SecretOf(u) # 0 /\ SecretOf(v) # 0 => u = v
  /\ file = conf
  /\ mounted \in BOOLEAN /\ up = TRUE
  /\ enroll = [u \in User |-> 0] /\ replay = [u \in User |-> 0]
  /\ session = [c \in Client |-> None]
  /\ limiter = [c \in Client |-> [fails |-> 0, blocked |-> FALSE]]
  /\ op = [o \in Op |-> NewOp]
  /\ issued = IF \E u \in User : SecretOf(u) # 0 THEN 1 ELSE 0
  /\ proven = 1..issued
  /\ now = 1 /\ made = 1 - issued /\ faults = 0
  /\ ahead = FALSE /\ accepted = {} /\ overtaken = {} /\ replayed = FALSE
  /\ wrong = [c \in Client |-> 0]

Start(o) ==
  \/ \E c \in Client : StartTOTP(o, c) \/ \E u \in User : StartLogin(o, c, u)
  \/ \E u \in User :
       \/ StartEnroll(o, u) \/ StartConfirm(o, u) \/ Disable(o, u)
       \/ AddUser(o, u) \/ DeleteUser(o, u) \/ ChangePassword(o, u)
  \/ Patch(o)

Step(o) ==
  \/ CheckPassword(o) \/ Issue(o) \/ Reset(o) \/ Open(o) \/ Fail(o)
  \/ CheckCode(o) \/ Use(o) \/ Promote(o)
  \/ HandOut(o) \/ Verify(o) \/ SetSecret(o) \/ Drop(o) \/ Spend(o)
  \/ Replace(o) \/ Fill(o) \/ WriteFails(o)

Environment ==
  \/ Crash \/ Tick
  \/ \E c \in Client : SessionEnds(c) \/ LimiterForgets(c)
  \/ \E u \in User : EnrollExpires(u)

Next ==
  /\ up
  /\ \/ made < MaxRequests /\ made' = made + 1 /\ \E o \in Op : Start(o)
     \/ UNCHANGED made /\ (Environment \/ \E o \in Op : Step(o))

Spec == Init /\ [][Next]_vars

-----------------------------------------------------------------------------
(* Properties *)

TypeOK ==
  /\ conf \in Config /\ file \in Config \union {Torn}
  /\ enroll \in [User -> 0..MaxSecrets] /\ replay \in [User -> Period \union {0}]
  /\ \A c \in Client :
       /\ session[c] = None \/ session[c] \in [user : User, pending : BOOLEAN]
       /\ limiter[c].fails \in 0..MaxFails - 1
  /\ proven \subseteq Secret
  \* cfgMu
  /\ \A o, q \in Op : op[o].pc \in Writing /\ op[q].pc \in Writing => o = q

\* docs/security.md: "Deleting the last remaining user returns 400, which prevents
\* lockout" - whatever deletions interleave, fail to be written or are lost
\* in a crash.
SomeUser == Users(conf) # {} /\ (file # Torn => Users(file) # {})

\* server.go:1223: a secret "only becomes the user's real secret once they prove
\* they can generate a code from it", however enrolments of one user overlap.
SecretProven ==
  \A u \in User :
    /\ SecretOf(u) \in proven \union {0}
    /\ file # Torn /\ file.users[u] # None => file.users[u].secret \in proven \union {0}

\* totp.go:142: one code opens one session, and the code that confirmed an
\* enrolment opens none once the enrolment has returned, for as long as its
\* secret stays enrolled and the server runs - unless a disable was overtaken:
\* another enrolment was confirmed before it came to forget the user's codes.
CodeOnce == ~replayed

\* config.yaml holds what the server works with whenever no request is writing
\* it, except after a failed write or a rejected patch.
FileFollows == up /\ CfgFree /\ ~ahead => file = conf

\* ratelimit.go:15: password and code failures share one counter, and only a
\* complete login clears it: of an address that is not blocked, every wrong
\* answer counts, those given beside other requests included.
EveryFailureCounts ==
  \A c \in Client : ~Blocked(c) => wrong[c] = limiter[c].fails
=============================================================================
