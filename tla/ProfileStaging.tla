--------------------------- MODULE ProfileStaging ---------------------------
(***************************************************************************)
(* The host executor's use of Claude Code's global settings.json           *)
(* (internal/host/host.go).  Starting, resuming, archiving or re-register- *)
(* ing a session under a profile other than the bootstrap profile stages   *)
(* it: the bootstrap profile is written over settings.json, the tmux/RC    *)
(* step runs, and the profile that was active is written back.  Requests   *)
(* are goroutines of one process; nothing serialises them, and the file    *)
(* write is a truncation followed by a write.                              *)
(*                                                                         *)
(* One action per step of a request between which another goroutine, the   *)
(* Claude process or the user can act.                                     *)
(***************************************************************************)
EXTENDS Naturals

CONSTANTS
  Op,             \* requests the agent can have in flight at once
  Name,           \* tmux session names
  Conv,           \* conversation ids
  Profile,        \* the profile catalog
  Boot,           \* h.rcBootstrap
  BootAvailable,  \* stagingAvailable(): the bootstrap profile's file exists
  Auth,           \* Profile -> the credentials it selects (parseAuthFields)
  OAuth,          \* the account's own login: no alternate credentials
  Size,           \* Profile -> the length of its file
  Edited,         \* a settings.json that matches no catalog profile
  Torn,           \* settings.json truncated by os.WriteFile, not yet written
  Garbled,        \* a write over a longer one: its tail is left behind
  None,           \* "" of the code: no name, no profile, no conversation
  Serial,         \* TRUE: a request is only made when none is in flight
  Requests,       \* the request kinds users make
  Env,            \* what the Claude processes and the user do meanwhile
  Faults,         \* the failures that may happen ...
  MaxFaults       \* ... at most this often (bound)

Content == Profile \union {Edited, Torn, Garbled}
Credential == {Auth[p] : p \in Profile} \union {OAuth}
Kinds == {"new", "newWith", "kill", "resume", "rc", "profile"}

ASSUME ProfileAssumption ==
  /\ Boot \in Profile
  /\ Profile \cap {Edited, Torn, Garbled, None} = {}
  /\ Edited # Torn /\ Edited # Garbled /\ Torn # Garbled
  /\ None \notin {Edited, Torn, Garbled}
  /\ Size \in [Profile -> Nat]
  /\ DOMAIN Auth = Profile
ASSUME NameAssumption == None \notin Name /\ None \notin Conv /\ None \notin Kinds
ASSUME SwitchAssumption ==
  /\ BootAvailable \in BOOLEAN /\ Serial \in BOOLEAN
  /\ Requests \subseteq Kinds
  /\ MaxFaults \in Nat

VARIABLES
  settings,    \* what settings.json holds
  sessions,    \* Name -> the live tmux session of that name, or Dead
  transcripts, \* conversations with a .jsonl on disk
  op,          \* Op -> the request's control point and locals
  faults,      \* failures so far
  hurt,        \* history: a crash or a failed write since the last choice
  author,      \* history: which kind of write settings.json holds
  wanted,      \* history: the profile last chosen by a user
  clashed,     \* history: requests writing now during whose write another one ended
  landed       \* history: what was written last by a write that overlapped none

ghosts == <<hurt, author, wanted, clashed, landed>>
vars == <<settings, sessions, transcripts, op, faults, hurt, author, wanted, clashed, landed>>

-----------------------------------------------------------------------------
(* Records *)

PCs == {"free", "write", "launch", "spawn", "wait", "rcSend", "rcDecide",
        "killRead", "kill", "resCheck", "switched", "relaunch"}
Roles == {"user", "stage", "restore"}
Statuses == {"ok", "fail", "timeout", "dead"}

OpRecord ==
  [kind : Kinds \union {None}, pc : PCs,
   name : Name \union {None},        \* requested or target session
   conv : Conv \union {None},        \* conversation to launch with
   active : Profile \union {None},   \* activo / destino
   write : Profile \union {None},    \* profile applyProfile is writing
   role : Roles,                     \* why it is writing it
   after : PCs,                      \* where it goes then
   owed : Profile \union {None},     \* staged: what settings.json must get back
   old : Credential,                 \* credentials before a profile switch
   todo : SUBSET Name,               \* sessions still to relaunch
   status : Statuses]                \* of waitRCBridgeSettled

Free == [kind |-> None, pc |-> "free", name |-> None, conv |-> None,
         active |-> None, write |-> None, role |-> "user", after |-> "free",
         owed |-> None, old |-> OAuth, todo |-> {}, status |-> "timeout"]

LiveSession ==
  [conv : Conv \union {None}, cred : Credential \union {None},
   bridge : BOOLEAN, tui : {"idle", "working", "dialog"}, spared : BOOLEAN]
Dead == None

ASSUME DeadAssumption == Dead \notin LiveSession

Alive(n) == sessions[n] # Dead
NewSessionRecord(c, tui) ==
  [conv |-> c, cred |-> None, bridge |-> FALSE, tui |-> tui, spared |-> FALSE]

TypeOK ==
  /\ settings \in Content
  /\ sessions \in [Name -> LiveSession \union {Dead}]
  /\ transcripts \subseteq Conv
  /\ op \in [Op -> OpRecord]
  /\ faults \in 0..MaxFaults
  /\ hurt \in BOOLEAN
  /\ author \in Roles
  /\ wanted \in Profile \union {Edited}
  /\ clashed \subseteq Op
  /\ landed \in Profile \union {Edited, None}

-----------------------------------------------------------------------------
(* What the code reads *)

ActiveProfileName == IF settings \in Profile THEN settings ELSE None
RequiresStaging(activo) == activo \notin {None, Boot}
CredOf(content) == IF content \in Profile THEN Auth[content] ELSE OAuth

\* The conversation of a live session: the id in its argv; a session started
\* by hand has none and is matched to some recent transcript, or to nothing.
ConvIds(n) ==
  IF Alive(n) /\ sessions[n].conv # None THEN {sessions[n].conv}
  ELSE transcripts \union {None}

ActiveSessionUsing(c) ==
  \E n \in Name : Alive(n) /\ c \in ConvIds(n) /\ sessions[n].bridge

\* An id newUUID can return: one nothing else carries.
FreshConvs ==
  {c \in Conv : /\ c \notin transcripts
                /\ \A n \in Name : Alive(n) => sessions[n].conv # c
                /\ \A o \in Op : op[o].conv # c}

-----------------------------------------------------------------------------
(* Control helpers *)

Become(o, r) == op' = [op EXCEPT ![o] = r]
At(r, pc) == IF pc = "free" THEN Free ELSE [r EXCEPT !.pc = pc]

\* Mutant: writes over what is there.
ApplyOver(o, r, p, role, after) ==
  /\ UNCHANGED settings
  /\ Become(o, [r EXCEPT !.pc = "write", !.write = p, !.role = role, !.after = after])

\* applyProfile's os.WriteFile, up to its O_TRUNC.
Apply(o, r, p, role, after) ==
  /\ settings' = Torn
  /\ Become(o, [r EXCEPT !.pc = "write", !.write = p, !.role = role, !.after = after])

\* settings.json holds the bootstrap profile on this request's behalf.
Staged(r) == r.owed # None

\* A failed step ends the request; in relaunchLiveSessions it is a `continue`.
OnError(r) == IF r.kind = "profile" THEN "relaunch" ELSE "free"

\* The write that gives settings.json back its profile, if it is staged.
RestoreThen(o, r, after) ==
  IF Staged(r) THEN Apply(o, r, r.owed, "restore", after)
  ELSE Become(o, At(r, after)) /\ UNCHANGED settings

Admit(o, kind) ==
  /\ kind \in Requests
  /\ op[o].pc = "free"
  /\ Serial => \A q \in Op : op[q].pc = "free"

MayFail(f) == f \in Faults /\ faults < MaxFaults

-----------------------------------------------------------------------------
(* applyProfile *)

\* The write lands at offset 0 of what others left there since the truncation.
Landings(p) ==
  CASE settings = Garbled -> {p, Garbled}
    [] settings \in Profile -> IF Size[settings] > Size[p] THEN {Garbled} ELSE {p}
    [] OTHER -> {p}

Written(r, owed) ==
  [r EXCEPT !.owed = owed, !.write = None, !.role = "user", !.after = "free"]

\* The other requests that are between their truncation and their write.
OtherWriters(o) == {q \in Op \ {o} : op[q].pc = "write"}

EndWrite(o) ==
  LET r == op[o] IN
  /\ r.pc = "write"
  /\ settings' \in Landings(r.write)
  /\ author' = r.role
  /\ hurt' = (hurt /\ r.role # "user")
  /\ wanted' = IF r.role = "user" THEN r.write ELSE wanted
  /\ clashed' = (clashed \ {o}) \union OtherWriters(o)
  /\ landed' = IF o \in clashed \/ OtherWriters(o) # {} THEN None ELSE r.write
  /\ Become(o, At(Written(r, IF r.role = "stage" THEN r.active ELSE None), r.after))
  /\ UNCHANGED <<sessions, transcripts, faults>>

\* The write fails after the truncation.  Restores are best effort when
\* archiving; sessionRc and lanzarConStaging return the error.
WriteFails(o) ==
  LET r == op[o] IN
  /\ MayFail("write") /\ r.pc = "write"
  /\ faults' = faults + 1 /\ hurt' = TRUE
  /\ Become(o, At(Written(r, None),
                  IF r.role = "restore" /\ r.after # "rcDecide"
                  THEN r.after ELSE OnError(r)))
  /\ clashed' = (clashed \ {o}) \union OtherWriters(o)
  /\ landed' = None
  /\ UNCHANGED <<settings, sessions, transcripts, author, wanted>>

-----------------------------------------------------------------------------
(* claudeNew, lanzarConStaging *)

\* Without a profile: the active one is read from settings.json.
StartNew(o, n) ==
  /\ Admit(o, "new")
  /\ n \in Name => ~Alive(n)
  /\ \E c \in FreshConvs :
       Become(o, [Free EXCEPT !.kind = "new", !.pc = "launch", !.name = n,
                              !.conv = c, !.active = ActiveProfileName])
  /\ UNCHANGED <<settings, sessions, transcripts, faults, ghosts>>

\* With a profile: it is applied globally first.
StartNewWith(o, n, p) ==
  /\ Admit(o, "newWith")
  /\ n \in Name => ~Alive(n)
  /\ \E c \in FreshConvs :
       Apply(o, [Free EXCEPT !.kind = "newWith", !.name = n, !.conv = c, !.active = p],
             p, "user", "launch")
  /\ UNCHANGED <<sessions, transcripts, faults, ghosts>>

\* Mutant: stages the profile that is already active.
LaunchStagingActive(o) ==
  LET r == op[o] IN
  /\ r.pc = "launch"
  /\ IF RequiresStaging(r.active) /\ BootAvailable
     THEN Apply(o, r, r.active, "stage", "spawn")
     ELSE Become(o, At(r, "spawn")) /\ UNCHANGED settings
  /\ UNCHANGED <<sessions, transcripts, faults, ghosts>>

Launch(o) ==
  LET r == op[o] IN
  /\ r.pc = "launch"
  /\ IF RequiresStaging(r.active) /\ BootAvailable
     THEN Apply(o, r, Boot, "stage", "spawn")
     ELSE Become(o, At(r, "spawn")) /\ UNCHANGED settings
  /\ UNCHANGED <<sessions, transcripts, faults, ghosts>>

AfterLaunch(r) == IF r.kind = "profile" THEN "relaunch" ELSE "free"

\* newSession and checkStartup: tmux takes the requested name or picks one.
Spawn(o) ==
  LET r == op[o] IN
  /\ r.pc = "spawn"
  /\ \E n \in (IF r.name = None THEN Name ELSE {r.name}) :
       /\ ~Alive(n)
       /\ \E tui \in {"idle"} \union (IF "dialog" \in Env THEN {"dialog"} ELSE {}) :
            sessions' = [sessions EXCEPT ![n] = NewSessionRecord(r.conv, tui)]
       /\ Become(o, IF Staged(r) THEN [r EXCEPT !.pc = "wait", !.name = n]
                    ELSE At([r EXCEPT !.name = None, !.conv = None], AfterLaunch(r)))
  /\ UNCHANGED <<settings, transcripts, faults, ghosts>>

\* Mutant: the error is returned before the restore.
SpawnFailsUnrestored(o) ==
  LET r == op[o] IN
  /\ r.pc = "spawn"
  /\ \/ r.name \in Name /\ Alive(r.name) /\ faults' = faults
     \/ MayFail("spawn") /\ faults' = faults + 1
  /\ Become(o, At([r EXCEPT !.owed = None], OnError(r)))
  /\ UNCHANGED <<settings, sessions, transcripts, ghosts>>

\* The name is taken by now, or (a fault) tmux failed, or the session came up
\* on a login or setup screen and was killed.
SpawnFails(o) ==
  LET r == op[o] IN
  /\ r.pc = "spawn"
  /\ \/ r.name \in Name /\ Alive(r.name) /\ faults' = faults
     \/ r.name = None /\ (\A n \in Name : Alive(n)) /\ faults' = faults
     \/ MayFail("spawn") /\ faults' = faults + 1
  /\ RestoreThen(o, r, OnError(r))
  /\ UNCHANGED <<sessions, transcripts, ghosts>>

\* Mutant: restores only once the bridge has settled.
WaitEndsSettled(o) ==
  LET r == op[o]
      settled == Alive(r.name) /\ sessions[r.name].bridge /\ sessions[r.name].tui = "idle"
      after == IF r.kind = "rc" /\ r.conv = None THEN "rcDecide" ELSE AfterLaunch(r) IN
  /\ r.pc = "wait"
  /\ IF settled THEN RestoreThen(o, [r EXCEPT !.status = "ok"], after)
     ELSE Become(o, At([r EXCEPT !.owed = None], after)) /\ UNCHANGED settings
  /\ UNCHANGED <<sessions, transcripts, faults, ghosts>>

\* Mutant: no deadline.
WaitEndsOnlySettled(o) ==
  LET r == op[o] IN
  /\ r.pc = "wait"
  /\ Alive(r.name) => sessions[r.name].bridge /\ sessions[r.name].tui = "idle"
  /\ RestoreThen(o, [r EXCEPT !.status = "ok"],
                 IF r.kind = "rc" /\ r.conv = None THEN "rcDecide" ELSE AfterLaunch(r))
  /\ UNCHANGED <<sessions, transcripts, faults, ghosts>>

\* waitRCBridgeSettled: the bridge settles on an idle session, or the wait ends
\* without it.  A dialog pushes the deadline at each look of the first loop; the
\* wait can still end under one that opened since the last look, or while the
\* bridge was settling, where nothing looks for dialogs.
WaitEnds(o) ==
  LET r == op[o] IN
  /\ r.pc = "wait"
  /\ \E status \in Statuses :
       /\ status = "dead" <=> ~Alive(r.name)
       /\ status = "ok" => sessions[r.name].bridge /\ sessions[r.name].tui # "working"
       /\ IF r.kind = "rc" /\ r.conv = None
          THEN RestoreThen(o, [r EXCEPT !.status = status], "rcDecide")
          ELSE RestoreThen(o, r, AfterLaunch(r))
  /\ UNCHANGED <<sessions, transcripts, faults, ghosts>>

-----------------------------------------------------------------------------
(* tmuxKill *)

StartKill(o, n) ==
  /\ Admit(o, "kill")
  /\ Become(o, [Free EXCEPT !.kind = "kill", !.pc = "killRead", !.name = n])
  /\ UNCHANGED <<settings, sessions, transcripts, faults, ghosts>>

KillRead(o) ==
  LET r == [op[o] EXCEPT !.active = ActiveProfileName] IN
  /\ op[o].pc = "killRead"
  /\ IF RequiresStaging(r.active) /\ BootAvailable
     THEN Apply(o, r, Boot, "stage", "kill")
     ELSE Become(o, At(r, "kill")) /\ UNCHANGED settings
  /\ UNCHANGED <<sessions, transcripts, faults, ghosts>>

\* Mutant: a session that is gone already is an early return.
KillGone(o) ==
  LET r == op[o] IN
  /\ r.pc = "kill"
  /\ IF Alive(r.name)
     THEN RestoreThen(o, r, IF r.kind # "kill" THEN "resCheck" ELSE OnError(r))
     ELSE Become(o, At([r EXCEPT !.owed = None], OnError(r))) /\ UNCHANGED settings
  /\ sessions' = [sessions EXCEPT ![r.name] = Dead]
  /\ UNCHANGED <<transcripts, faults, ghosts>>

\* Mutant: resumes only what it archived under the bootstrap profile.
KillResumingStaged(o) ==
  LET r == op[o] IN
  /\ r.pc = "kill"
  /\ sessions' = [sessions EXCEPT ![r.name] = Dead]
  /\ RestoreThen(o, r, IF Staged(r) /\ Alive(r.name) /\ r.kind # "kill"
                       THEN "resCheck" ELSE OnError(r))
  /\ UNCHANGED <<transcripts, faults, ghosts>>

\* kill-session, then the restore.  The automatic recoveries go on to resume.
Kill(o) ==
  LET r == op[o] IN
  /\ r.pc = "kill"
  /\ sessions' = [sessions EXCEPT ![r.name] = Dead]
  /\ RestoreThen(o, r, IF Alive(r.name) /\ r.kind # "kill" THEN "resCheck" ELSE OnError(r))
  /\ UNCHANGED <<transcripts, faults, ghosts>>

-----------------------------------------------------------------------------
(* claudeResumeAs *)

StartResume(o, c) ==
  /\ Admit(o, "resume")
  /\ Become(o, [Free EXCEPT !.kind = "resume", !.pc = "resCheck", !.conv = c])
  /\ UNCHANGED <<settings, sessions, transcripts, faults, ghosts>>

\* 404 without a transcript, 409 while a bridged session has it open; a name
\* that is taken again is dropped.
ResCheck(o) ==
  LET r == op[o] IN
  /\ r.pc = "resCheck"
  /\ Become(o, IF r.conv \notin transcripts \/ ActiveSessionUsing(r.conv)
               THEN At([r EXCEPT !.name = None, !.conv = None, !.active = None], OnError(r))
               ELSE [r EXCEPT !.pc = "launch", !.active = ActiveProfileName,
                              !.name = IF @ \in Name /\ Alive(@) THEN None ELSE @])
  /\ UNCHANGED <<settings, sessions, transcripts, faults, ghosts>>

-----------------------------------------------------------------------------
(* sessionRc *)

StartRc(o, n) ==
  LET r == [Free EXCEPT !.kind = "rc", !.name = n, !.active = ActiveProfileName] IN
  /\ Admit(o, "rc")
  /\ Alive(n) /\ sessions[n].tui # "working"
  /\ IF RequiresStaging(r.active)
     THEN BootAvailable /\ Apply(o, r, Boot, "stage", "rcSend")
     ELSE Become(o, At(r, "rcSend")) /\ UNCHANGED settings
  /\ UNCHANGED <<sessions, transcripts, faults, ghosts>>

\* /remote-control once, or twice (off, on) over a live bridge: registering
\* again is up to the Claude process.
RcSend(o) ==
  LET r == op[o] IN
  /\ r.pc = "rcSend"
  /\ IF Alive(r.name)
     THEN /\ sessions' = [sessions EXCEPT ![r.name].bridge = FALSE]
          /\ Become(o, At(r, "wait"))
          /\ UNCHANGED settings
     ELSE RestoreThen(o, r, "free") /\ UNCHANGED sessions
  /\ UNCHANGED <<transcripts, faults, ghosts>>

RcDecide(o) ==
  LET r == op[o] IN
  /\ r.pc = "rcDecide"
  /\ \E c \in ConvIds(r.name) :
       Become(o, IF r.status = "ok" \/ c = None THEN Free
                 ELSE [r EXCEPT !.pc = "killRead", !.conv = c])
  /\ UNCHANGED <<settings, sessions, transcripts, faults, ghosts>>

-----------------------------------------------------------------------------
(* claudeProfile, relaunchLiveSessions *)

StartProfile(o, p) ==
  /\ Admit(o, "profile")
  /\ Apply(o, [Free EXCEPT !.kind = "profile", !.active = p, !.old = CredOf(settings)],
           p, "user", "switched")
  /\ UNCHANGED <<sessions, transcripts, faults, ghosts>>

\* Mutant: relaunches only when the account's own login comes back.
SwitchedToOAuth(o) ==
  LET r == op[o] IN
  /\ r.pc = "switched"
  /\ Become(o, IF r.old = OAuth \/ Auth[r.active] # OAuth THEN Free
               ELSE [r EXCEPT !.pc = "relaunch", !.active = None, !.old = OAuth,
                              !.todo = {n \in Name : Alive(n)}])
  /\ UNCHANGED <<settings, sessions, transcripts, faults, ghosts>>

\* Relaunch only if the outgoing credentials were alternate ones the new
\* profile does not select.
Switched(o) ==
  LET r == op[o] IN
  /\ r.pc = "switched"
  /\ Become(o, IF r.old = OAuth \/ r.old = Auth[r.active] THEN Free
               ELSE [r EXCEPT !.pc = "relaunch", !.active = None, !.old = OAuth,
                              !.todo = {n \in Name : Alive(n)}])
  /\ UNCHANGED <<settings, sessions, transcripts, faults, ghosts>>

\* One iteration over the sessions listed: a working session, and one with no
\* conversation, is left alone.
RelaunchNext(o) ==
  LET r == [op[o] EXCEPT !.name = None, !.conv = None, !.active = None] IN
  /\ r.pc = "relaunch"
  /\ \/ /\ r.todo = {}
        /\ Become(o, Free)
        /\ UNCHANGED sessions
     \/ \E n \in r.todo : \E c \in ConvIds(n) :
          LET skip == c = None \/ (Alive(n) /\ sessions[n].tui = "working")
          IN /\ Become(o, IF skip THEN [r EXCEPT !.todo = @ \ {n}]
                          ELSE [r EXCEPT !.pc = "killRead", !.name = n, !.conv = c,
                                         !.todo = @ \ {n}])
             /\ sessions' = IF skip /\ Alive(n)
                            THEN [sessions EXCEPT ![n].spared = TRUE] ELSE sessions
  /\ UNCHANGED <<settings, transcripts, faults, ghosts>>

-----------------------------------------------------------------------------
(* The Claude processes, the user and the host *)

\* The user's message starts a turn; the first one resolves credentials from
\* settings.json and the process keeps them.
Turn(n) ==
  /\ "turn" \in Env /\ Alive(n) /\ sessions[n].tui = "idle"
  /\ sessions' = [sessions EXCEPT ![n].tui = "working",
                                  ![n].cred = IF @ = None THEN CredOf(settings) ELSE @]
  /\ transcripts' = transcripts \union ({sessions[n].conv} \ {None})
  /\ UNCHANGED <<settings, op, faults, ghosts>>

TurnEnds(n) ==
  /\ Alive(n) /\ sessions[n].tui = "working"
  /\ sessions' = [sessions EXCEPT ![n].tui = "idle"]
  /\ UNCHANGED <<settings, transcripts, op, faults, ghosts>>

DialogOpens(n) ==
  /\ "dialog" \in Env /\ Alive(n) /\ sessions[n].tui # "dialog"
  /\ sessions' = [sessions EXCEPT ![n].tui = "dialog"]
  /\ UNCHANGED <<settings, transcripts, op, faults, ghosts>>

DialogAnswered(n) ==
  /\ Alive(n) /\ sessions[n].tui = "dialog"
  /\ \E tui \in {"idle", "working"} :
       sessions' = [sessions EXCEPT ![n].tui = tui]
  /\ UNCHANGED <<settings, transcripts, op, faults, ghosts>>

BridgeChanges(n) ==
  /\ "bridge" \in Env /\ Alive(n)
  /\ sessions' = [sessions EXCEPT ![n].bridge = ~@]
  /\ UNCHANGED <<settings, transcripts, op, faults, ghosts>>

SessionExits(n) ==
  /\ "exit" \in Env /\ Alive(n)
  /\ sessions' = [sessions EXCEPT ![n] = Dead]
  /\ UNCHANGED <<settings, transcripts, op, faults, ghosts>>

StartedByHand(n) ==
  /\ "byHand" \in Env /\ ~Alive(n)
  /\ sessions' = [sessions EXCEPT ![n] = NewSessionRecord(None, "idle")]
  /\ UNCHANGED <<settings, transcripts, op, faults, ghosts>>

\* The agent dies and is restarted: its goroutines are gone, tmux and the
\* file are not.
Crash ==
  /\ MayFail("crash")
  /\ faults' = faults + 1 /\ hurt' = TRUE
  /\ op' = [o \in Op |-> Free]
  /\ clashed' = {}
  /\ landed' = IF \E o \in Op : op[o].pc = "write" THEN None ELSE landed
  /\ UNCHANGED <<settings, sessions, transcripts, author, wanted>>

-----------------------------------------------------------------------------
Init ==
  /\ settings \in Profile \union {Edited}
  /\ sessions = [n \in Name |-> Dead]
  /\ transcripts = {}
  /\ op = [o \in Op |-> Free]
  /\ faults = 0 /\ hurt = FALSE
  /\ author = "user"
  /\ wanted = settings
  /\ clashed = {} /\ landed = settings

Start(o) ==
  \/ \E n \in Name \union {None} :
       StartNew(o, n) \/ \E p \in Profile : StartNewWith(o, n, p)
  \/ \E n \in Name : StartKill(o, n) \/ StartRc(o, n)
  \/ \E c \in Conv : StartResume(o, c)
  \/ \E p \in Profile : StartProfile(o, p)

Step(o) ==
  \/ EndWrite(o) \/ Launch(o) \/ Spawn(o) \/ SpawnFails(o) \/ WaitEnds(o)
  \/ KillRead(o) \/ Kill(o) \/ ResCheck(o)
  \/ RcSend(o) \/ RcDecide(o) \/ Switched(o) \/ RelaunchNext(o)

Environment ==
  \/ Crash
  \/ \E o \in Op : WriteFails(o)
  \/ \E n \in Name :
       \/ Turn(n) \/ TurnEnds(n) \/ DialogOpens(n) \/ DialogAnswered(n)
       \/ BridgeChanges(n) \/ SessionExits(n) \/ StartedByHand(n)

Next == (\E o \in Op : Start(o) \/ Step(o)) \/ Environment

Spec == Init /\ [][Next]_vars

HeldByDialog(o) ==
  op[o].pc = "wait" /\ Alive(op[o].name) /\ sessions[op[o].name].tui = "dialog"

\* Every started request runs on: sleeps and polls end.  A wait need not end while
\* a dialog is open.
FairSpec == Spec /\ \A o \in Op : WF_vars(Step(o) /\ ~HeldByDialog(o))

-----------------------------------------------------------------------------
(* Properties *)

Quiescent == \A o \in Op : op[o].pc = "free"

\* However requests interleave, the bootstrap profile that staging wrote is
\* in settings.json only while some request still owes the restore: no early
\* return or error path of claudeNew, claudeResumeAs, tmuxKill, sessionRc or
\* relaunchLiveSessions forgets it.  A crash or a failed write can.
NoOrphanStaging ==
  author = "stage" /\ settings = Boot /\ ~hurt => \E o \in Op : Staged(op[o])

\* Requests write settings.json with no lock and no rename, so two writes may
\* mix.  Only writes that overlap, or fail, can leave the file empty or mixed, and
\* that lasts no longer than to the next write that overlaps none: when nobody
\* is writing, the file is what such a write, if it came last, put there.
FileWhole ==
  (\A o \in Op : op[o].pc # "write") /\ landed # None => settings = landed

\* host.go:819: "Always restore the target profile (even on failure) so the
\* global settings end in the requested state" - once nothing is in flight,
\* settings.json holds the profile last chosen.
EndsInRequestedState == Quiescent /\ ~hurt => settings = wanted

\* The RC-sensitive step of a staged request (booting with --remote-control,
\* waiting for the bridge, typing /remote-control, killing so that it is
\* reported as an archive) runs under the bootstrap profile.
StagedUnderBoot ==
  \A o \in Op :
    Staged(op[o]) /\ op[o].pc \in {"spawn", "wait", "rcSend", "kill"} => settings = Boot

\* claudeProfile leaves no session on the alternate credentials of an earlier
\* profile, except one it found working or could not match to a conversation.
NoStaleCredentials ==
  Quiescent /\ ~hurt =>
    \A n \in Name :
      Alive(n) /\ sessions[n].cred \notin {None, OAuth, CredOf(settings)}
        => sessions[n].spared

\* A request that has killed a session in order to resume its conversation.
Recovering(o) ==
  LET r == op[o] IN
  /\ r.kind \in {"rc", "profile"} /\ r.conv # None
  /\ \/ r.pc \in {"resCheck", "launch", "spawn"}
     \/ r.pc = "write" /\ r.after \in {"resCheck", "spawn"}

Open(c) == \E n \in Name : Alive(n) /\ sessions[n].conv = c
KillsToRecover(o) ==
  op[o].pc = "kill" /\ op'[o].pc # "kill" /\ op[o].kind # "kill" /\ Alive(op[o].name)
Abandons(o) ==
  (Recovering(o) \/ KillsToRecover(o)) /\ ~Recovering(o)' /\ faults' = faults

\* sessionRc and relaunchLiveSessions kill only what they bring back: unless a
\* step fails, the recovery ends with the conversation open in a session -
\* provided it ever had a message.
RecoveryReopens ==
  [][\A o \in Op, c \in transcripts :
       Abandons(o) /\ op[o].conv = c => Open(c)']_vars

\* Every request returns, if dialogs do not stay open: an open dialog holds
\* waitRCBridgeSettled, and with it the bootstrap profile, without bound.
RequestsReturn ==
  (<>[](\A n \in Name : Alive(n) => sessions[n].tui # "dialog"))
    => \A o \in Op : op[o].pc # "free" ~> op[o].pc = "free"
-----------------------------------------------------------------------------
(* Inductive strengthenings of the properties above *)

\* What a request's control point says about its locals.
ControlOf(r) ==
  /\ r.pc = "write" => r.write \in Profile
  /\ r.pc = "write" /\ r.role = "user" =>
       r.after \in {"launch", "switched"} /\ r.active = r.write
  /\ r.pc = "write" /\ r.role = "stage" =>
       r.after \in {"spawn", "kill", "rcSend"} /\ r.active \in Profile /\ r.write = Boot
  /\ r.pc = "write" /\ r.role = "restore" =>
       r.after \in {"free", "relaunch", "resCheck", "rcDecide"} /\ Staged(r) /\ r.write = r.owed
  /\ Staged(r) =>
       /\ r.owed = r.active
       /\ \/ r.pc \in {"spawn", "wait", "rcSend", "kill"}
          \/ r.pc = "write" /\ r.role = "restore"
  /\ \/ r.pc \in {"wait", "rcSend", "rcDecide", "killRead", "kill"}
     \/ r.pc = "write" /\ r.after \in {"kill", "rcSend", "rcDecide"}
     => r.name \in Name

ControlInv == \A o \in Op : ControlOf(op[o])

\* A write that has overlapped none so far still has its own truncation before it.
WriterAlone ==
  \A o \in Op : op[o].pc = "write" /\ o \notin clashed => settings = Torn

\* One request at a time: a second one is not admitted, so a truncated file is
\* the writer's own, and a staged profile stays in place.
OneRequest ==
  Serial =>
    /\ \A o, q \in Op : op[o].pc # "free" /\ op[q].pc # "free" => o = q
    /\ \A o \in Op : op[o].pc = "write" => settings = Torn
    /\ \A o \in Op : op[o].pc # "write" /\ Staged(op[o]) => settings = Boot

\* ... and what a request carries agrees with what was last chosen.
KeepsChoiceOf(r) ==
  /\ r.pc \notin {"free", "write"} /\ ~Staged(r) => settings = wanted
  /\ Staged(r) \/ (r.pc = "write" /\ r.role # "user") => r.active = wanted
  /\ r.pc = "launch" => r.active \in {None, wanted}

KeepsChoice ==
  Serial /\ ~hurt =>
    /\ Quiescent => settings = wanted
    /\ \A o \in Op : KeepsChoiceOf(op[o])

\* Where a request is, or goes when its write ends.
Point(r) == IF r.pc = "write" THEN r.after ELSE r.pc

\* Who goes there, and with which conversation.
CarriesOf(r) ==
  /\ Point(r) \in {"switched", "relaunch"} => r.kind = "profile"
  /\ Point(r) = "rcDecide" => r.kind = "rc"
  /\ Point(r) \in {"killRead", "kill"} =>
       r.kind \in {"kill", "rc", "profile"} /\ (r.kind = "kill" \/ r.conv \in Conv)
  /\ Point(r) = "resCheck" => r.kind \in {"resume", "rc", "profile"} /\ r.conv \in Conv
  /\ Point(r) \in {"launch", "spawn"} => r.conv \in Conv
  /\ r.pc = "write" /\ r.after = "launch" => r.kind = "newWith"

CarriesInv == \A o \in Op : CarriesOf(op[o])

\* Nobody takes the name of the session that a recovery has killed: there is no
\* other request, and no session is started by hand.
NamesHeld ==
  Serial /\ "byHand" \notin Env =>
    /\ \A n \in Name : Alive(n) => sessions[n].conv \in Conv
    /\ \A o \in Op : Recovering(o) => op[o].name \in Name /\ ~Alive(op[o].name)

\* The sessions a profile switch has still to deal with.
Pending(r) ==
  IF r.kind = "profile"
  THEN r.todo \union (IF Point(r) \in {"killRead", "kill"} THEN {r.name} ELSE {}) ELSE {}

\* A switch knows the credentials that were in force before it.
SwitchOf(r) ==
  /\ Point(r) \in {"switched", "relaunch"} => r.kind = "profile"
  /\ Point(r) \in {"rcSend", "rcDecide"} => r.kind = "rc"
  /\ Point(r) = "free" => r.kind # "profile"
  /\ Point(r) = "switched" => r.todo = {}
  /\ r.pc = "write" /\ r.role = "user" => r.after = "switched" /\ r.old = CredOf(wanted)
  /\ r.pc = "switched" => r.active = wanted /\ r.active \in Profile

\* Every session has credentials that may stay, or a switch will come to it.
Settled(n) ==
  \/ sessions[n].cred \in {None, OAuth, CredOf(wanted)}
  \/ sessions[n].spared
  \/ \E o \in Op : \/ n \in Pending(op[o])
                   \/ op[o].pc = "switched" /\ sessions[n].cred = op[o].old

CredInv ==
  /\ ~hurt
  /\ \A o \in Op : SwitchOf(op[o])
  /\ \A n \in Name : Alive(n) => Settled(n)

-----------------------------------------------------------------------------
(* One request at a time, the file implements ProfileRegister: while a       *)
(* request stages, the profile in force is the one it will restore.          *)

Choosing(o) == op[o].pc = "write" /\ op[o].role = "user"
Staging(o) == Staged(op[o]) \/ (op[o].pc = "write" /\ op[o].role = "stage")

Asked == IF \E o \in Op : Choosing(o)
         THEN op[CHOOSE o \in Op : Choosing(o)].write ELSE None
InForce == CASE \E o \in Op : Choosing(o) -> wanted
             [] \E o \in Op : Staging(o) -> op[CHOOSE o \in Op : Staging(o)].active
             [] OTHER -> settings

Register == INSTANCE ProfileRegister
              WITH profile <- InForce, asked <- Asked, intact <- ~hurt

\* Archiving, resuming, starting and re-registering sessions never change the
\* profile a user of the register observes.
ImplementsRegister == Register!Spec
=============================================================================
