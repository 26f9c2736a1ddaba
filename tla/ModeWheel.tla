----------------------------- MODULE ModeWheel -----------------------------
(***************************************************************************)
(* Changing the permission mode of a live session (internal/host/host.go, *)
(* sessionMode).  The TUI cycles its modes with Shift+Tab; which modes are *)
(* on the wheel depends on the account.  The first request under a profile *)
(* walks the wheel of the session it was made for and caches what it read  *)
(* for every session; from then on a change is so many blind presses.      *)
(*                                                                         *)
(* The mode badge is read off the pane's footer: it may be wrapped out of  *)
(* sight, a dialog hides it, and a dialog's text may look like one.        *)
(***************************************************************************)
EXTENDS Naturals, Sequences, SequencesExt

CONSTANTS
  Op,        \* requests, numbered in the order they are made
  Session,
  Profile,
  None,
  Mode,
  Wheel,     \* the modes the account of a profile has, in Shift+Tab order
  modeWheel, \* the order assumed of an account that could not be walked
  Likeness,  \* the modes a dialog's text is mistaken for
  maxModeCycle,
  Env,       \* what the TUIs, the users and the other requests do meanwhile
  MaxEvents  \* how often (bound)

Cycles(w) == Len(w) >= 2 /\ IsInjective(w)

ASSUME WheelAssumption ==
  /\ Op \subseteq Nat /\ None \notin Profile \union Mode \union Op
  /\ Wheel \in [Profile -> Seq(Mode)] /\ modeWheel \in Seq(Mode)
  /\ \A p \in Profile : Cycles(Wheel[p]) /\ Len(Wheel[p]) <= maxModeCycle
  /\ Cycles(modeWheel) /\ Likeness \subseteq Mode
  /\ maxModeCycle \in Nat /\ MaxEvents \in Nat

VARIABLES
  active,   \* the profile settings.json holds
  tui,      \* Session -> alive, account, mode, and what its pane shows
  lock,     \* Session -> the request holding sessionSendLock, or None
  cache,    \* modeWheelCache: Profile -> the wheel walked, or <<>>
  op,       \* Op -> control point and locals, and (history) whether during the
            \* request somebody else changed the mode (moved), a dialog's text
            \* was taken for a badge (misled), a dialog took a key (covered), and
            \* whose wheel it goes by, if the walk can be trusted (known)
  events,   \* how often the environment has acted
  suspect   \* history: the profiles whose cached wheel was walked on another
            \* account, or by a request that was moved or misled

vars == <<active, tui, lock, cache, op, events, suspect>>

Shows == {"idle", "working", "wrapped", "dialog"}
PCs == {"free", "lock", "wheel", "calibrate", "waiting", "walkStart", "walkPress", "walkLook",
        "restoreLook", "restorePress", "distance", "press", "blindPress", "blindLook", "ok", "error"}

-----------------------------------------------------------------------------
(* Wheels *)

Pos(w, m) == SelectInSeq(w, LAMBDA x : x = m)
On(w, m) == Pos(w, m) # 0

\* distanceIn: presses from one mode of a wheel to another.
Distance(w, from, to) == (Pos(w, to) + Len(w) - Pos(w, from)) % Len(w)

Next1(w, m) == w[(Pos(w, m) % Len(w)) + 1]

\* The same cycle, wherever it starts.
SameWheel(v, w) ==
  /\ ToSet(v) = ToSet(w) /\ Len(v) = Len(w)
  /\ \A m \in ToSet(v) : Next1(v, m) = Next1(w, m)

-----------------------------------------------------------------------------
(* The pane *)

Account(s) == tui[s].account

\* paneMode: the badge in the last lines of the pane, "" here None.
Badges(s) ==
  IF ~tui[s].live \/ tui[s].shows = "wrapped" THEN {None}
  ELSE IF tui[s].shows = "dialog" THEN {None} \union Likeness ELSE {tui[s].mode}

\* rawShiftTab, with what the request goes on with: a dialog takes the key.
RawShiftTab(o, r) ==
  LET s == r.session IN
  IF tui[s].shows = "dialog"
  THEN op' = [op EXCEPT ![o] = [r EXCEPT !.covered = TRUE]] /\ UNCHANGED tui
  ELSE /\ op' = [op EXCEPT ![o] = r]
       /\ tui' = [tui EXCEPT ![s].mode = Next1(Wheel[Account(s)], @)]

\* The request after a look at the pane that took b for the badge.
Misreads(s, b) == tui[s].shows = "dialog" /\ b # None
Looked(o, b) ==
  [op[o] EXCEPT !.misled = @ \/ Misreads(op[o].session, b)]

Become(o, r) == op' = [op EXCEPT ![o] = r]
Goto(o, pc) == Become(o, [op[o] EXCEPT !.pc = pc])

NewOp == [pc |-> "free", session |-> None, target |-> None, profile |-> None, wheel |-> <<>>,
          known |-> None, seen |-> <<>>, left |-> 0,
          moved |-> FALSE, misled |-> FALSE, covered |-> FALSE]

\* Mutant: a request that fails keeps the lock.
ReturnsLocked(o, result) ==
  /\ Become(o, [NewOp EXCEPT !.pc = result])
  /\ lock' = [lock EXCEPT ![op[o].session] = IF result = "ok" THEN None ELSE @]

\* The request returns and unlocks.
Returns(o, result) ==
  /\ Become(o, [NewOp EXCEPT !.pc = result])
  /\ lock' = [lock EXCEPT ![op[o].session] = None]

\* The walk is over, or was not possible: on with the wheel found, or the one assumed.
WithWheel(r, w, p) ==
  [r EXCEPT !.pc = "distance", !.wheel = w, !.known = p, !.seen = <<>>, !.left = 0]
Assumes(o, r) == Become(o, WithWheel(r, modeWheel, None))

-----------------------------------------------------------------------------
(* sessionMode: the lock, and which wheel *)

Request(o, s, m) ==
  /\ op[o].pc = "free" /\ \A q \in Op : q < o => op[q].pc # "free"
  /\ Become(o, [NewOp EXCEPT !.pc = "lock", !.session = s, !.target = m])
  /\ UNCHANGED <<active, tui, lock, cache, events, suspect>>

\* Mutant: calibration and presses of two requests interleave.
LockAlways(o) ==
  LET s == op[o].session IN
  /\ op[o].pc = "lock"
  /\ lock' = [lock EXCEPT ![s] = o]
  /\ Goto(o, IF tui[s].live THEN "wheel" ELSE "error")
  /\ UNCHANGED <<active, tui, cache, events, suspect>>

\* ensurePaneReady gives up silently, so there is nothing to wait for.
Lock(o) ==
  LET s == op[o].session IN
  /\ op[o].pc = "lock" /\ lock[s] = None
  /\ IF tui[s].live THEN Goto(o, "wheel") /\ lock' = [lock EXCEPT ![s] = o]
     ELSE Returns(o, "error")
  /\ UNCHANGED <<active, tui, cache, events, suspect>>

\* wheelFor: the cache is per active profile, whatever the session runs under.
WheelFor(o) ==
  LET r == [op[o] EXCEPT !.profile = active] IN
  /\ r.pc = "wheel"
  /\ Become(o, IF cache[active] # <<>> THEN WithWheel(r, cache[active],
                                   IF active \in suspect THEN None ELSE active)
               ELSE [r EXCEPT !.pc = "calibrate"])
  /\ UNCHANGED <<active, tui, lock, cache, events, suspect>>

\* discoverModeWheel: only of a session that is not working ...
Calibrate(o) ==
  /\ op[o].pc = "calibrate"
  /\ IF tui[op[o].session].shows = "working" THEN Assumes(o, op[o]) ELSE Goto(o, "waiting")
  /\ UNCHANGED <<active, tui, lock, cache, events, suspect>>

\* ... nor, at the next look at the pane, in a dialog ...
CalibrateWaiting(o) ==
  /\ op[o].pc = "waiting"
  /\ IF tui[op[o].session].shows = "dialog" THEN Assumes(o, op[o]) ELSE Goto(o, "walkStart")
  /\ UNCHANGED <<active, tui, lock, cache, events, suspect>>

\* ... and whose badge can be read by then.
WalkStart(o) ==
  /\ op[o].pc = "walkStart"
  /\ \E b \in Badges(op[o].session) :
       LET r == Looked(o, b) IN
       IF b = None THEN Assumes(o, r)
       ELSE Become(o, [r EXCEPT !.pc = "walkPress", !.seen = <<b>>, !.left = maxModeCycle])
  /\ UNCHANGED <<active, tui, lock, cache, events, suspect>>

-----------------------------------------------------------------------------
(* discoverModeWheel: the walk, and the way back when it fails *)

\* A press, and where to go from there; the walk is given up if the pane is gone.
WalkOn(o, pc) ==
  /\ IF tui[op[o].session].live
     THEN RawShiftTab(o, [op[o] EXCEPT !.pc = pc, !.left = @ - 1])
     ELSE Assumes(o, op[o]) /\ UNCHANGED tui
  /\ UNCHANGED <<active, lock, cache, events, suspect>>

WalkPress(o) == op[o].pc = "walkPress" /\ WalkOn(o, "walkLook")

\* Back at the first mode: the wheel is cached, unless it is too short to be one.
Completes(o, r) ==
  LET trusted == Account(r.session) = r.profile /\ ~r.moved /\ ~r.misled IN
  IF Len(r.seen) >= 2
  THEN /\ cache' = [cache EXCEPT ![r.profile] = r.seen]
       /\ suspect' = IF trusted THEN suspect \ {r.profile} ELSE suspect \union {r.profile}
       /\ Become(o, WithWheel(r, r.seen, IF trusted THEN r.profile ELSE None))
  ELSE Assumes(o, r) /\ UNCHANGED <<cache, suspect>>

Restores(o, r) == Become(o, [r EXCEPT !.pc = "restoreLook", !.left = maxModeCycle])
Continues(o, r, b) == Become(o, [r EXCEPT !.pc = "walkPress", !.seen = Append(@, b)])

\* Mutant: a mode seen twice does not stop the walk.
WalkLookOnce(o) ==
  /\ op[o].pc = "walkLook"
  /\ \E b \in Badges(op[o].session) :
       LET r == Looked(o, b) IN
       IF b = Head(r.seen) THEN Completes(o, r)
       ELSE /\ IF b = None \/ r.left = 0 THEN Restores(o, r) ELSE Continues(o, r, b)
            /\ UNCHANGED <<cache, suspect>>
  /\ UNCHANGED <<active, tui, lock, events>>

WalkLook(o) ==
  /\ op[o].pc = "walkLook"
  /\ \E b \in Badges(op[o].session) :
       LET r == Looked(o, b) IN
       IF b = Head(r.seen) THEN Completes(o, r)
       ELSE /\ IF b = None \/ On(r.seen, b) \/ r.left = 0
               THEN Restores(o, r) ELSE Continues(o, r, b)
            /\ UNCHANGED <<cache, suspect>>
  /\ UNCHANGED <<active, tui, lock, events>>

\* restoreMode: on to the mode the walk began in, if it shows before the
\* presses run out.
RestoreLook(o) ==
  /\ op[o].pc = "restoreLook"
  /\ \/ op[o].left = 0 /\ Assumes(o, op[o])
     \/ /\ op[o].left > 0
        /\ \E b \in Badges(op[o].session) :
             LET r == Looked(o, b) IN
             IF b = Head(r.seen) THEN Assumes(o, r)
             ELSE Become(o, [r EXCEPT !.pc = "restorePress"])
  /\ UNCHANGED <<active, tui, lock, cache, events, suspect>>

RestorePress(o) == op[o].pc = "restorePress" /\ WalkOn(o, "restoreLook")

-----------------------------------------------------------------------------
(* sessionMode: the way to the target *)

\* Presses to make when the badge shows b: the distance, or without a badge as
\* many as the wheel has modes, one look after each.
PressesFrom(r, b) ==
  IF On(r.wheel, b)
  THEN [r EXCEPT !.pc = "press", !.left = Distance(r.wheel, b, r.target)]
  ELSE [r EXCEPT !.pc = "blindPress",
                 !.left = IF Len(r.wheel) > maxModeCycle THEN maxModeCycle ELSE Len(r.wheel)]

\* A mode that is not on the wheel is refused.
ReadDistance(o) ==
  /\ op[o].pc = "distance"
  /\ IF On(op[o].wheel, op[o].target)
     THEN /\ \E b \in Badges(op[o].session) : Become(o, PressesFrom(Looked(o, b), b))
          /\ UNCHANGED lock
     ELSE Returns(o, "error")
  /\ UNCHANGED <<active, tui, cache, events, suspect>>

\* After the last press the target is reported without another look.
Press(o) ==
  LET r == op[o] IN
  /\ r.pc = "press"
  /\ CASE r.left = 0 -> Returns(o, "ok") /\ UNCHANGED tui
       [] r.left > 0 /\ tui[r.session].live ->
            RawShiftTab(o, [r EXCEPT !.left = @ - 1]) /\ UNCHANGED lock
       [] OTHER -> Returns(o, "error") /\ UNCHANGED tui
  /\ UNCHANGED <<active, cache, events, suspect>>

BlindPress(o) ==
  LET r == op[o] IN
  /\ r.pc = "blindPress"
  /\ IF tui[r.session].live
     THEN RawShiftTab(o, [r EXCEPT !.pc = "blindLook", !.left = @ - 1]) /\ UNCHANGED lock
     ELSE Returns(o, "error") /\ UNCHANGED tui
  /\ UNCHANGED <<active, cache, events, suspect>>

BlindLook(o) ==
  /\ op[o].pc = "blindLook"
  /\ \E b \in Badges(op[o].session) :
       LET r == Looked(o, b) IN
       CASE b = r.target -> Returns(o, "ok")
         [] b # r.target /\ r.left = 0 -> Returns(o, "error")
         [] OTHER -> Become(o, [r EXCEPT !.pc = "blindPress"]) /\ UNCHANGED lock
  /\ UNCHANGED <<active, tui, cache, events, suspect>>

-----------------------------------------------------------------------------
(* Meanwhile *)

Happens(kind) == kind \in Env /\ events < MaxEvents /\ events' = events + 1

\* Turns begin and end, the footer wraps, dialogs open and close.
Redraws(s, shows) ==
  /\ Happens(shows) /\ tui[s].live /\ shows # tui[s].shows
  /\ tui' = [tui EXCEPT ![s].shows = shows]
  /\ UNCHANGED <<active, lock, cache, op, suspect>>

\* The user presses Shift+Tab, or an answer changes the mode.
Moves(s, m) ==
  /\ Happens("moves") /\ tui[s].live /\ On(Wheel[Account(s)], m) /\ m # tui[s].mode
  /\ tui' = [tui EXCEPT ![s].mode = m]
  /\ op' = [o \in Op |-> IF lock[s] = o THEN [op[o] EXCEPT !.moved = TRUE] ELSE op[o]]
  /\ UNCHANGED <<active, lock, cache, suspect>>

Exits(s) ==
  /\ Happens("exits") /\ tui[s].live
  /\ tui' = [tui EXCEPT ![s].live = FALSE]
  /\ UNCHANGED <<active, lock, cache, op, suspect>>

\* applyProfile, by a request to switch or by one that stages a session.
Switches(p) ==
  /\ Happens("switches") /\ p # active
  /\ active' = p
  /\ UNCHANGED <<tui, lock, cache, op, suspect>>

-----------------------------------------------------------------------------
\* A server that has just started, and sessions that run under any account.
Init ==
  /\ active \in Profile
  /\ tui \in [Session -> [live : {TRUE}, account : Profile, mode : Mode, shows : {"idle"}]]
  /\ \A s \in Session : On(Wheel[Account(s)], tui[s].mode)
  /\ lock = [s \in Session |-> None]
  /\ cache = [p \in Profile |-> <<>>]
  /\ op = [o \in Op |-> NewOp]
  /\ events = 0 /\ suspect = {}

Step(o) ==
  \/ Lock(o) \/ WheelFor(o) \/ Calibrate(o) \/ CalibrateWaiting(o) \/ WalkStart(o)
  \/ WalkPress(o) \/ WalkLook(o) \/ RestoreLook(o) \/ RestorePress(o)
  \/ ReadDistance(o) \/ Press(o) \/ BlindPress(o) \/ BlindLook(o)

Next ==
  \/ \E o \in Op : Step(o) \/ \E s \in Session, m \in Mode : Request(o, s, m)
  \/ \E s \in Session : \/ Exits(s)
                        \/ \E shows \in Shows : Redraws(s, shows)
                        \/ \E m \in Mode : Moves(s, m)
  \/ \E p \in Profile : Switches(p)

Spec == Init /\ [][Next]_vars
FairSpec == Spec /\ \A o \in Op : WF_vars(Step(o))

-----------------------------------------------------------------------------
(* Properties *)

TuiRecord == [live : BOOLEAN, account : Profile, mode : Mode, shows : Shows]
OpRecord ==
  [pc : PCs, session : Session \union {None}, target : Mode \union {None},
   profile : Profile \union {None}, wheel : Seq(Mode), known : Profile \union {None},
   seen : Seq(Mode), left : Nat, moved : BOOLEAN, misled : BOOLEAN, covered : BOOLEAN]

TypeOK ==
  /\ active \in Profile
  /\ tui \in [Session -> TuiRecord]
  /\ \A s \in Session : On(Wheel[Account(s)], tui[s].mode)
  /\ lock \in [Session -> Op \union {None}]
  /\ cache \in [Profile -> Seq(Mode)]
  /\ op \in [Op -> OpRecord]
  /\ events \in 0..MaxEvents /\ suspect \subseteq Profile

\* host.go:3875: "distances derived from it are correct for any account": what is
\* cached for a profile is the whole wheel of its account, though keys may have
\* been lost in dialogs and badges may have wrapped while it was walked.
CachedIsReal ==
  \A p \in Profile \ suspect : cache[p] # <<>> => SameWheel(cache[p], Wheel[p])

\* The wheel a request goes by is that of its session: from a walk that can be
\* trusted and for the session's own account, or rightly assumed.
GoesBy(o) ==
  LET account == Account(op[o].session) IN
  \/ op[o].known = account
  \/ op[o].wheel = modeWheel /\ SameWheel(modeWheel, Wheel[account])

Undisturbed(o) ==
  /\ ~op[o].moved /\ ~op[o].misled /\ ~op[o].covered
  /\ op[o].pc = "blindLook" => tui[op[o].session].shows # "dialog"

\* The mode sessionMode reports is the mode of the session when it returns,
\* though it counts on a wheel that an earlier request walked, unless somebody
\* else changed it, or a dialog came to take its keys or to be read for a badge.
ModeReached ==
  [][\A o \in Op :
       op[o].pc \in {"press", "blindLook"} /\ op'[o].pc = "ok" /\ Undisturbed(o) /\ GoesBy(o)
         => tui[op[o].session].mode = op[o].target]_vars

\* host.go:3825: "the probe/restore loops must always terminate even when the
\* badge never becomes readable again", whatever the TUI shows meanwhile.
RequestEnds == \A o \in Op : op[o].pc = "lock" ~> op[o].pc \in {"ok", "error"}

-----------------------------------------------------------------------------
(* Inductive strengthenings of the properties above *)

Busy == PCs \ {"free", "lock", "ok", "error"}
Walking == {"walkPress", "walkLook", "restoreLook", "restorePress"}
Going == {"distance", "press", "blindPress", "blindLook"}

\* What a request's control point says about its locals.
ControlOf(r) ==
  /\ r.pc \in Busy \union {"lock"} => r.session \in Session /\ r.target \in Mode
  /\ r.pc \in Busy \ {"wheel"} => r.profile \in Profile
  /\ r.pc \in {"walkPress", "restorePress", "blindPress"} => r.left > 0

\* Who is busy has the lock of its session.
Locked(o) == op[o].pc \in Busy => lock[op[o].session] = o

\* Places on a wheel of n modes: the one k after i.
Turn(i, k, n) == IF i + k <= n THEN i + k ELSE i + k - n

\* What was seen is a stretch of the wheel, and no more than one turn of it.
Stretch(seen, w) ==
  /\ Len(seen) <= Len(w)
  /\ \E p \in 1..Len(w) : \A i \in 1..Len(seen) : seen[i] = w[Turn(p, i - 1, Len(w))]

\* So many presses from m to t.
Remains(w, m, t, k) ==
  On(w, m) /\ On(w, t) /\ k < Len(w) /\ Pos(w, t) = Turn(Pos(w, m), k, Len(w))

\* What a request that nobody disturbed knows of a session whose wheel is w and
\* whose mode is m.  A key lost in a dialog leaves it at the end of the stretch seen.
WalkSound(r, w, m) ==
  /\ r.pc \in Walking => Len(r.seen) >= 1 /\ IsInjective(r.seen)
  /\ r.pc \in {"walkPress", "walkLook"} /\ ~r.moved /\ ~r.misled =>
       /\ Stretch(r.seen, w)
       /\ m = Last(r.seen) \/ (r.pc = "walkLook" /\ m = Next1(w, Last(r.seen)))

WaySound(r, w, m) ==
  /\ r.pc \in Going =>
       /\ Cycles(r.wheel)
       /\ r.known # None => SameWheel(r.wheel, Wheel[r.known])
  /\ r.pc = "press" /\ ~r.moved /\ ~r.misled /\ ~r.covered /\ SameWheel(r.wheel, w) =>
       Remains(r.wheel, m, r.target, r.left)

Sound(r, w, m) == WalkSound(r, w, m) /\ WaySound(r, w, m)

CacheSound ==
  \A p \in Profile : cache[p] # <<>> =>
    Cycles(cache[p]) /\ (p \notin suspect => SameWheel(cache[p], Wheel[p]))

WheelInv ==
  /\ TypeOK /\ CacheSound
  /\ \A o \in Op :
       /\ ControlOf(op[o]) /\ Locked(o)
       /\ op[o].pc \in Busy =>
            LET s == op[o].session IN Sound(op[o], Wheel[Account(s)], tui[s].mode)
=============================================================================
