-------------------------- MODULE ModeWheelProofs --------------------------
(***************************************************************************)
(* Proofs about ModeWheel, for any number of sessions and requests and for *)
(* wheels of any length.                                                   *)
(***************************************************************************)
EXTENDS ModeWheel, TLAPS

-----------------------------------------------------------------------------
(* Wheels                                                                    *)

\* The place after i on a wheel of n modes.
Succ(i, n) == IF i < n THEN i + 1 ELSE 1

\* On a wheel that repeats no mode, a mode is where it is found.
LEMMA PosIs ==
  ASSUME NEW w \in Seq(Mode), IsInjective(w), NEW i \in 1..Len(w)
  PROVE  Pos(w, w[i]) = i
  <1> DEFINE I == {j \in 1..Len(w) : w[j] = w[i]}
  <1>1. I = {i}
    BY DEF IsInjective
  <1>2. Min(I) = i
    BY <1>1 DEF Min
  <1> QED BY <1>1, <1>2 DEF Pos, SelectInSeq

\* ... or nowhere.
LEMMA OnIs ==
  ASSUME NEW w \in Seq(Mode), IsInjective(w), NEW m
  PROVE  /\ On(w, m) <=> \E i \in 1..Len(w) : w[i] = m
         /\ On(w, m) => Pos(w, m) \in 1..Len(w) /\ w[Pos(w, m)] = m
  <1>1. ASSUME NEW i \in 1..Len(w), w[i] = m
        PROVE  On(w, m) /\ Pos(w, m) = i
    BY <1>1, PosIs DEF On
  <1>2. ASSUME ~ \E i \in 1..Len(w) : w[i] = m
        PROVE  ~On(w, m)
    <2>1. {j \in 1..Len(w) : w[j] = m} = {}
      BY <1>2
    <2> QED BY <2>1 DEF On, Pos, SelectInSeq
  <1> QED BY <1>1, <1>2

\* Remainders of less than two turns.
LEMMA Remainder ==
  ASSUME NEW n \in Nat, n > 0, NEW k \in 0..(2 * n - 1)
  PROVE  k % n = IF k < n THEN k ELSE k - n
  OBVIOUS

\* A press goes on by one place.
LEMMA NextIs ==
  ASSUME NEW w \in Seq(Mode), Cycles(w), NEW i \in 1..Len(w)
  PROVE  Next1(w, w[i]) = w[Succ(i, Len(w))]
  <1>1. Pos(w, w[i]) = i
    BY PosIs DEF Cycles
  <1>2. i % Len(w) = IF i < Len(w) THEN i ELSE 0
    BY Remainder DEF Cycles
  <1> QED BY <1>1, <1>2 DEF Next1, Succ

-----------------------------------------------------------------------------
(* A walk                                                                    *)

\* The mode read first is a stretch.
LEMMA StretchBegins ==
  ASSUME NEW w \in Seq(Mode), Cycles(w), NEW m, On(w, m)
  PROVE  Stretch(<<m>>, w)
  <1>1. PICK p \in 1..Len(w) : w[p] = m
    BY OnIs DEF Cycles
  <1>2. Len(<<m>>) = 1 /\ <<m>>[1] = m
    OBVIOUS
  <1>3. Turn(p, 0, Len(w)) = p
    BY DEF Turn
  <1> QED BY <1>1, <1>2, <1>3 DEF Stretch, Cycles

\* A press away from its end, a stretch meets a new mode and goes on with it, or
\* meets its beginning and is the whole wheel.
LEMMA StretchGoesOn ==
  ASSUME NEW w \in Seq(Mode), Cycles(w), NEW seen \in Seq(Mode), Len(seen) >= 1,
         Stretch(seen, w)
  PROVE  LET b == Next1(w, Last(seen)) IN
         /\ b # Head(seen) => Stretch(Append(seen, b), w)
         /\ b = Head(seen) => Len(seen) = Len(w)
  <1> DEFINE b == Next1(w, Last(seen))
             k == Len(seen)
             n == Len(w)
  <1>1. PICK p \in 1..n : \A i \in 1..k : seen[i] = w[Turn(p, i - 1, n)]
    BY DEF Stretch
  <1>2. k \in 1..n /\ n \in Nat /\ n >= 2
    BY DEF Stretch, Cycles
  <1>3. Turn(p, k - 1, n) \in 1..n /\ Last(seen) = w[Turn(p, k - 1, n)]
    BY <1>1, <1>2 DEF Turn, Last
  <1>4. b = w[Succ(Turn(p, k - 1, n), n)]
    BY <1>3, NextIs
  <1>5. Succ(Turn(p, k - 1, n), n) = Turn(p, k, n) /\ Turn(p, k, n) \in 1..n
    BY <1>2 DEF Succ, Turn
  <1>6. Head(seen) = w[p]
    <2>1. Turn(p, 0, n) = p
      BY DEF Turn
    <2>2. Head(seen) = seen[1]
      BY <1>2
    <2> QED BY <1>1, <1>2, <2>1, <2>2
  <1>7. b = Head(seen) <=> k = n
    <2>1. b = Head(seen) <=> Turn(p, k, n) = p
      BY <1>4, <1>5, <1>6 DEF Cycles, IsInjective
    <2>2. Turn(p, k, n) = p <=> k = n
      BY <1>2 DEF Turn
    <2> QED BY <2>1, <2>2
  <1>8. ASSUME b # Head(seen)
        PROVE  Stretch(Append(seen, b), w)
    <2>1. Len(Append(seen, b)) = k + 1 /\ k + 1 <= n
      BY <1>2, <1>7, <1>8
    <2>2. ASSUME NEW i \in 1..(k + 1)
          PROVE  Append(seen, b)[i] = w[Turn(p, i - 1, n)]
      BY <1>1, <1>2, <1>4, <1>5, <2>2
    <2> QED BY <2>1, <2>2 DEF Stretch
  <1> QED BY <1>7, <1>8

\* A stretch as long as the wheel is the wheel, wherever it starts.
LEMMA StretchCloses ==
  ASSUME NEW w \in Seq(Mode), Cycles(w), NEW seen \in Seq(Mode), IsInjective(seen),
         Stretch(seen, w), Len(seen) = Len(w)
  PROVE  SameWheel(seen, w)
  <1> DEFINE n == Len(w)
  <1>1. PICK p \in 1..n : \A i \in 1..n : seen[i] = w[Turn(p, i - 1, n)]
    BY DEF Stretch
  <1>2. n \in Nat /\ n >= 2 /\ Cycles(seen)
    BY DEF Cycles
  <1>3. \A i \in 1..n : Turn(p, i - 1, n) \in 1..n
    BY <1>2 DEF Turn
  <1>4. ToSet(seen) = ToSet(w)
    <2>1. ToSet(seen) \subseteq ToSet(w)
      <3>1. \A i \in 1..n : \E j \in 1..n : seen[i] = w[j]
        BY <1>1, <1>3
      <3>2. DOMAIN seen = 1..n /\ DOMAIN w = 1..n
        OBVIOUS
      <3> QED BY <3>1, <3>2, Zenon DEF ToSet
    <2>2. ASSUME NEW j \in 1..n
          PROVE  \E i \in 1..n : seen[i] = w[j]
      <3> DEFINE i == IF j >= p THEN j - p + 1 ELSE j - p + 1 + n
      <3>1. i \in 1..n /\ Turn(p, i - 1, n) = j
        BY <1>2 DEF Turn
      <3> QED BY <1>1, <3>1
    <2>3. ToSet(w) \subseteq ToSet(seen)
      BY <2>2 DEF ToSet
    <2> QED BY <2>1, <2>3
  <1>5. ASSUME NEW i \in 1..n
        PROVE  Next1(seen, seen[i]) = Next1(w, seen[i])
    <2>1. Next1(seen, seen[i]) = seen[Succ(i, n)] /\ Succ(i, n) \in 1..n
      BY <1>2, NextIs DEF Succ
    <2>2. Next1(w, w[Turn(p, i - 1, n)]) = w[Succ(Turn(p, i - 1, n), n)]
      BY <1>3, NextIs
    <2>3. Succ(Turn(p, i - 1, n), n) = Turn(p, Succ(i, n) - 1, n)
      BY <1>2 DEF Succ, Turn
    <2> QED BY <1>1, <2>1, <2>2, <2>3
  <1>6. \A m \in ToSet(seen) : Next1(seen, m) = Next1(w, m)
    BY <1>5 DEF ToSet
  <1> QED BY <1>4, <1>6 DEF SameWheel

\* A mode that is new to it leaves a sequence without repetitions.
LEMMA NewMode ==
  ASSUME NEW seen \in Seq(Mode), IsInjective(seen), NEW b \in Mode, ~On(seen, b)
  PROVE  IsInjective(Append(seen, b))
  <1>1. \A i \in 1..Len(seen) : seen[i] # b
    BY OnIs
  <1>2. /\ DOMAIN Append(seen, b) = 1..(Len(seen) + 1)
        /\ \A i \in 1..Len(seen) : Append(seen, b)[i] = seen[i]
        /\ Append(seen, b)[Len(seen) + 1] = b
    OBVIOUS
  <1>3. \A i \in 1..Len(seen) + 1 : i \in 1..Len(seen) \/ i = Len(seen) + 1
    OBVIOUS
  <1>4. \A i, j \in 1..Len(seen) : seen[i] = seen[j] => i = j
    BY DEF IsInjective
  <1> HIDE DEF IsInjective
  <1> QED BY <1>1, <1>2, <1>3, <1>4 DEF IsInjective

-----------------------------------------------------------------------------
(* The way to the target                                                     *)

\* The distance is what remains.
LEMMA DistanceRemains ==
  ASSUME NEW w \in Seq(Mode), Cycles(w), NEW m, NEW t, On(w, m), On(w, t)
  PROVE  Distance(w, m, t) \in Nat /\ Remains(w, m, t, Distance(w, m, t))
  <1>1. ASSUME NEW n \in Nat, n >= 2, NEW i \in 1..n, NEW j \in 1..n
        PROVE  (j + n - i) % n \in 0..(n - 1) /\ j = Turn(i, (j + n - i) % n, n)
    <2> DEFINE d == j + n - i
    <2>1. d \in 0..(2 * n - 1) /\ n > 0
      BY <1>1
    <2> HIDE DEF d
    <2>2. d % n = IF d < n THEN d ELSE d - n
      BY <2>1, Remainder
    <2>3. d % n \in 0..(n - 1)
      BY <1>1, <2>1, <2>2
    <2>4. j = Turn(i, d % n, n)
      BY <1>1, <2>1, <2>2 DEF d, Turn
    <2> QED BY <2>3, <2>4 DEF d
  <1>2. /\ Pos(w, m) \in 1..Len(w) /\ Pos(w, t) \in 1..Len(w)
        /\ Len(w) \in Nat /\ Len(w) >= 2
    BY OnIs DEF Cycles
  <1>3. /\ Distance(w, m, t) \in 0..(Len(w) - 1)
        /\ Pos(w, t) = Turn(Pos(w, m), Distance(w, m, t), Len(w))
    BY <1>1, <1>2 DEF Distance
  <1> QED BY <1>2, <1>3 DEF Remains

\* One press less remains after a press on the same cycle.
LEMMA PressRemains ==
  ASSUME NEW v \in Seq(Mode), Cycles(v), NEW w \in Seq(Mode), SameWheel(v, w),
         NEW m, NEW t, NEW k \in Nat, k > 0, Remains(v, m, t, k)
  PROVE  Remains(v, Next1(w, m), t, k - 1)
  <1> DEFINE n == Len(v)
             i == Pos(v, m)
  <1>1. i \in 1..n /\ v[i] = m /\ n \in Nat /\ n >= 2
    BY OnIs DEF Cycles, Remains
  <1>2. Next1(w, m) = v[Succ(i, n)]
    BY <1>1, NextIs DEF SameWheel, ToSet
  <1>3. Succ(i, n) \in 1..n
    BY <1>1 DEF Succ
  <1>4. On(v, v[Succ(i, n)]) /\ Pos(v, v[Succ(i, n)]) = Succ(i, n)
    BY <1>3, PosIs DEF On, Cycles
  <1>5. Turn(Succ(i, n), k - 1, n) = Turn(i, k, n)
    BY <1>1 DEF Succ, Turn, Remains
  <1> QED BY <1>1, <1>2, <1>4, <1>5 DEF Remains

\* With none left the target is reached.
LEMMA NoneRemains ==
  ASSUME NEW w \in Seq(Mode), Cycles(w), NEW m, NEW t, Remains(w, m, t, 0)
  PROVE  m = t
  <1>1. /\ Pos(w, m) \in 1..Len(w) /\ w[Pos(w, m)] = m
        /\ Pos(w, t) \in 1..Len(w) /\ w[Pos(w, t)] = t
    BY OnIs DEF Cycles, Remains
  <1>2. Pos(w, t) = Pos(w, m)
    BY <1>1 DEF Remains, Turn
  <1> QED BY <1>1, <1>2

-----------------------------------------------------------------------------
(* The pane, and records                                                     *)

\* A badge is the mode, or there is none, or a dialog's text is taken for one.
LEMMA BadgeIs ==
  ASSUME TypeOK, NEW s \in Session, NEW b \in Badges(s)
  PROVE  /\ b \in Mode \union {None}
         /\ b = None \/ b = tui[s].mode \/ Misreads(s, b)
  <1>1. tui[s].mode \in Mode /\ Likeness \subseteq Mode
    BY WheelAssumption DEF TypeOK, TuiRecord
  <1> QED BY <1>1 DEF Badges, Misreads

\* The wheel of a session's account.
LEMMA OwnWheel ==
  ASSUME TypeOK, NEW s \in Session
  PROVE  /\ Account(s) \in Profile
         /\ Wheel[Account(s)] \in Seq(Mode) /\ Cycles(Wheel[Account(s)])
         /\ On(Wheel[Account(s)], tui[s].mode)
         /\ Next1(Wheel[Account(s)], tui[s].mode) \in Mode
         /\ On(Wheel[Account(s)], Next1(Wheel[Account(s)], tui[s].mode))
  <1> DEFINE w == Wheel[Account(s)]
             m == tui[s].mode
  <1>1. Account(s) \in Profile
    BY DEF TypeOK, TuiRecord, Account
  <1>2. w \in Seq(Mode) /\ Cycles(w) /\ On(w, m)
    BY <1>1, WheelAssumption DEF TypeOK, Account
  <1>3. PICK i \in 1..Len(w) : w[i] = m
    BY <1>2, OnIs DEF Cycles
  <1>4. Next1(w, m) = w[Succ(i, Len(w))] /\ Succ(i, Len(w)) \in 1..Len(w)
    BY <1>2, <1>3, NextIs DEF Succ
  <1>5. On(w, Next1(w, m))
    BY <1>2, <1>4, OnIs DEF Cycles
  <1> HIDE DEF w
  <1>6. Next1(w, m) \in Mode
    BY <1>2, <1>4
  <1> QED BY <1>1, <1>2, <1>5, <1>6 DEF w

\* A look changes nothing in a request but whether it was misled.
LEMMA LookedIs ==
  ASSUME TypeOK, NEW o \in Op, NEW b
  PROVE  LET r == Looked(o, b) IN
         /\ r \in OpRecord
         /\ r.pc = op[o].pc /\ r.session = op[o].session /\ r.target = op[o].target
         /\ r.profile = op[o].profile /\ r.wheel = op[o].wheel /\ r.known = op[o].known
         /\ r.seen = op[o].seen /\ r.left = op[o].left
         /\ r.moved = op[o].moved /\ r.covered = op[o].covered
         /\ r.misled = (op[o].misled \/ Misreads(op[o].session, b))
  <1>1. op[o] \in OpRecord
    BY DEF TypeOK
  <1>2. Misreads(op[o].session, b) \in BOOLEAN
    BY DEF Misreads
  <1> QED BY <1>1, <1>2 DEF Looked, OpRecord

\* What a request goes on with when its wheel is settled.
LEMMA WithWheelIs ==
  ASSUME NEW r \in OpRecord, NEW w \in Seq(Mode), NEW p \in Profile \union {None}
  PROVE  LET v == WithWheel(r, w, p) IN
         /\ v \in OpRecord
         /\ v.pc = "distance" /\ v.wheel = w /\ v.known = p
         /\ v.session = r.session /\ v.target = r.target /\ v.profile = r.profile
  <1>1. <<>> \in Seq(Mode) /\ 0 \in Nat /\ "distance" \in PCs
    BY DEF PCs
  <1> QED BY <1>1 DEF WithWheel, OpRecord

-----------------------------------------------------------------------------
(* What a kind of step leaves alone                                          *)

\* Two that are busy are so in different sessions.
LEMMA Apart ==
  ASSUME WheelInv, NEW o \in Op, NEW q \in Op, q # o, op[o].pc \in Busy, op[q].pc \in Busy
  PROVE  op[o].session # op[q].session
  BY DEF WheelInv, Locked

\* A request goes on as w, in its session if it is still busy.
GoesOn(o, w) ==
  /\ w \in OpRecord /\ Become(o, w) /\ ControlOf(w)
  /\ w.pc \in Busy =>
       /\ w.session = op[o].session
       /\ Sound(w, Wheel[Account(op[o].session)], tui'[op[o].session].mode)

\* Only the session of a busy request sees its key.
TuiKept(o) ==
  /\ tui' \in [Session -> TuiRecord]
  /\ \A s \in Session :
       /\ tui'[s].account = tui[s].account /\ On(Wheel[Account(s)], tui'[s].mode)
       /\ tui'[s] = tui[s] \/ (op[o].pc \in Busy /\ s = op[o].session)

LockKept(o, w) ==
  /\ lock' \in [Session -> Op \union {None}]
  /\ w.pc \in Busy => lock'[w.session] = o
  /\ \A q \in Op : q # o /\ op[q].pc \in Busy => lock'[op[q].session] = q

LEMMA StepKeeps ==
  ASSUME WheelInv, NEW o \in Op, NEW w, GoesOn(o, w), TuiKept(o), LockKept(o, w),
         active' \in Profile, events' \in 0..MaxEvents,
         suspect' \subseteq Profile, cache' \in [Profile -> Seq(Mode)], CacheSound'
  PROVE  WheelInv'
  <1>1. TypeOK /\ op \in [Op -> OpRecord]
    BY DEF WheelInv, TypeOK
  <1>2. \A q \in Op : op'[q] = IF q = o THEN w ELSE op[q]
    BY <1>1 DEF GoesOn, Become
  <1>3. op' \in [Op -> OpRecord]
    BY <1>1 DEF GoesOn, Become
  <1>4. \A s \in Session : On(Wheel[tui'[s].account], tui'[s].mode)
    BY DEF TuiKept, Account
  <1>5. TypeOK'
    BY <1>3, <1>4 DEF TypeOK, TuiKept, LockKept, Account
  <1>6. ASSUME NEW q \in Op
        PROVE  /\ ControlOf(op'[q])
               /\ op'[q].pc \in Busy => lock'[op'[q].session] = q
               /\ op'[q].pc \in Busy =>
                    Sound(op'[q], Wheel[tui'[op'[q].session].account], tui'[op'[q].session].mode)
    <2>1. CASE q = o
      <3>1. op'[q] = w
        BY <1>2, <2>1
      <3>2. w.pc \in Busy => w.session \in Session
        BY DEF GoesOn, ControlOf
      <3> QED BY <2>1, <3>1, <3>2 DEF GoesOn, LockKept, TuiKept, Account
    <2>2. CASE q # o
      <3>1. op'[q] = op[q]
        BY <1>2, <2>2
      <3>2. ControlOf(op[q])
        BY DEF WheelInv
      <3>3. ASSUME op[q].pc \in Busy
            PROVE  /\ op[q].session \in Session /\ tui'[op[q].session] = tui[op[q].session]
                   /\ Sound(op[q], Wheel[tui[op[q].session].account], tui[op[q].session].mode)
        <4>1. op[q].session \in Session
          BY <3>2, <3>3 DEF ControlOf
        <4>2. op[o].pc \in Busy => op[o].session # op[q].session
          BY <2>2, <3>3, Apart
        <4> QED BY <3>3, <4>1, <4>2 DEF TuiKept, WheelInv, Account
      <3> QED BY <2>2, <3>1, <3>2, <3>3 DEF LockKept
    <2> QED BY <2>1, <2>2
  <1> QED BY <1>5, <1>6 DEF WheelInv, Locked, Account

\* A step that touches neither the pane nor the lock.
LEMMA QuietKeeps ==
  ASSUME WheelInv, NEW o \in Op, op[o].pc \in Busy, NEW w, GoesOn(o, w),
         UNCHANGED <<active, tui, lock, events>>,
         \/ UNCHANGED <<cache, suspect>>
         \/ suspect' \subseteq Profile /\ cache' \in [Profile -> Seq(Mode)] /\ CacheSound'
  PROVE  WheelInv'
  <1>1. TuiKept(o)
    BY DEF TuiKept, WheelInv, TypeOK, Account
  <1>2. LockKept(o, w)
    BY DEF LockKept, WheelInv, TypeOK, Locked, GoesOn
  <1>3. suspect' \subseteq Profile /\ cache' \in [Profile -> Seq(Mode)] /\ CacheSound'
    BY DEF WheelInv, TypeOK, CacheSound
  <1>4. active' \in Profile /\ events' \in 0..MaxEvents
    BY DEF WheelInv, TypeOK
  <1> QED BY <1>1, <1>2, <1>3, <1>4, StepKeeps

\* A request that returns.
LEMMA ReturnKeeps ==
  ASSUME WheelInv, NEW o \in Op, NEW result \in {"ok", "error"}, Returns(o, result),
         op[o].session \in Session,
         op[o].pc \in Busy \/ lock[op[o].session] = None,
         UNCHANGED <<active, tui, cache, events, suspect>>
  PROVE  WheelInv'
  <1> DEFINE w == [NewOp EXCEPT !.pc = result]
  <1>0. w.pc = result /\ w \in OpRecord
    <2>1. <<>> \in Seq(Mode) /\ 0 \in Nat /\ result \in PCs
      BY DEF PCs
    <2> QED BY <2>1 DEF NewOp, OpRecord
  <1>1. Become(o, w) /\ lock' = [lock EXCEPT ![op[o].session] = None]
    BY DEF Returns
  <1> HIDE DEF w
  <1>2. GoesOn(o, w)
    BY <1>0, <1>1 DEF GoesOn, ControlOf, Busy
  <1>3. TuiKept(o)
    BY DEF TuiKept, WheelInv, TypeOK, Account
  <1>4. LockKept(o, w)
    <2>1. ASSUME NEW q \in Op, q # o, op[q].pc \in Busy
          PROVE  op[q].session \in Session /\ lock'[op[q].session] = q
      <3>1. lock[op[q].session] = q /\ op[q].session \in Session
        BY <2>1 DEF WheelInv, Locked, ControlOf
      <3>2. op[q].session # op[o].session
        BY <2>1, <3>1, Apart, WheelAssumption
      <3> QED BY <1>1, <3>1, <3>2 DEF WheelInv, TypeOK
    <2>2. w.pc \notin Busy
      BY <1>0 DEF Busy
    <2>3. lock' \in [Session -> Op \union {None}]
      BY <1>1 DEF WheelInv, TypeOK
    <2> QED BY <2>1, <2>2, <2>3 DEF LockKept
  <1>5. /\ active' \in Profile /\ events' \in 0..MaxEvents /\ suspect' \subseteq Profile
        /\ cache' \in [Profile -> Seq(Mode)] /\ CacheSound'
    BY DEF WheelInv, TypeOK, CacheSound
  <1> QED BY <1>2, <1>3, <1>4, <1>5, StepKeeps

\* A key, which turns the wheel of the session unless a dialog takes it.
LEMMA KeyKeeps ==
  ASSUME WheelInv, NEW o \in Op, op[o].pc \in Busy, NEW r \in OpRecord,
         RawShiftTab(o, r), r.session = op[o].session, r.pc \in Busy, ControlOf(r),
         LET s == op[o].session
             w == Wheel[Account(s)]
         IN /\ Sound(r, w, Next1(w, tui[s].mode))
            /\ \A c \in OpRecord :
                 c = [r EXCEPT !.covered = TRUE] => Sound(c, w, tui[s].mode),
         UNCHANGED <<active, lock, cache, events, suspect>>
  PROVE  WheelInv'
  <1> DEFINE s == op[o].session
             w == Wheel[Account(s)]
  <1>1. TypeOK /\ s \in Session
    BY DEF WheelInv, ControlOf
  <1>2. /\ active' \in Profile /\ events' \in 0..MaxEvents /\ suspect' \subseteq Profile
        /\ cache' \in [Profile -> Seq(Mode)] /\ CacheSound'
    BY DEF WheelInv, TypeOK, CacheSound
  <1>3. \A c : c.pc = r.pc /\ c.session = s => LockKept(o, c)
    BY DEF LockKept, WheelInv, TypeOK, Locked
  <1>4. CASE tui[s].shows = "dialog"
    <2> DEFINE c == [r EXCEPT !.covered = TRUE]
    <2>1. Become(o, c) /\ UNCHANGED tui
      BY <1>4 DEF RawShiftTab, Become
    <2>2. c \in OpRecord
      BY DEF OpRecord
    <2>3. Sound(c, w, tui[s].mode)
      BY <2>2
    <2>4. c.pc = r.pc /\ c.session = s /\ c.target = r.target /\ c.profile = r.profile /\ c.left = r.left
      BY DEF OpRecord
    <2> HIDE DEF c
    <2>5. GoesOn(o, c)
      BY <2>1, <2>2, <2>3, <2>4 DEF GoesOn, ControlOf
    <2>6. TuiKept(o)
      BY <2>1 DEF TuiKept, WheelInv, TypeOK, Account
    <2>7. LockKept(o, c)
      BY <1>3, <2>4
    <2> QED BY <1>2, <2>5, <2>6, <2>7, StepKeeps
  <1>5. CASE tui[s].shows # "dialog"
    <2> DEFINE n == Next1(w, tui[s].mode)
    <2>1. Become(o, r) /\ tui' = [tui EXCEPT ![s].mode = n]
      BY <1>5 DEF RawShiftTab, Become
    <2>2. n \in Mode /\ On(w, n)
      BY <1>1, OwnWheel
    <2> HIDE DEF n
    <2>3. tui \in [Session -> TuiRecord]
      BY <1>1 DEF TypeOK
    <2>4. /\ tui' \in [Session -> TuiRecord]
          /\ tui'[s].mode = n /\ tui'[s].account = tui[s].account
          /\ \A t \in Session : t # s => tui'[t] = tui[t]
      BY <1>1, <2>1, <2>2, <2>3 DEF TuiRecord
    <2>5. TuiKept(o)
      BY <1>1, <2>2, <2>4 DEF TuiKept, TypeOK, Account
    <2>6. GoesOn(o, r)
      BY <2>1, <2>4 DEF GoesOn, n
    <2>7. LockKept(o, r)
      BY <1>3
    <2> QED BY <1>2, <2>5, <2>6, <2>7, StepKeeps
  <1> QED BY <1>4, <1>5

-----------------------------------------------------------------------------
(* The steps of a request                                                    *)

\* What is known of who is busy.
LEMMA BusyFacts ==
  ASSUME WheelInv, NEW o \in Op, op[o].pc \in Busy
  PROVE  LET r == op[o]
             s == r.session
         IN /\ TypeOK /\ CacheSound /\ r \in OpRecord /\ ControlOf(r)
            /\ s \in Session /\ r.target \in Mode /\ (r.pc # "wheel" => r.profile \in Profile)
            /\ Sound(r, Wheel[Account(s)], tui[s].mode)
  BY DEF WheelInv, TypeOK, ControlOf

\* A request that goes by the assumed wheel.
LEMMA AssumeKeeps ==
  ASSUME WheelInv, NEW o \in Op, op[o].pc \in Busy \ {"wheel"},
         NEW r \in OpRecord, r.session = op[o].session, r.target = op[o].target,
         r.profile = op[o].profile, Assumes(o, r),
         UNCHANGED <<active, tui, lock, cache, events, suspect>>
  PROVE  WheelInv'
  <1> DEFINE v == WithWheel(r, modeWheel, None)
  <1>1. /\ v \in OpRecord /\ v.pc = "distance" /\ v.wheel = modeWheel /\ v.known = None
        /\ v.session = r.session /\ v.target = r.target /\ v.profile = r.profile
    BY WithWheelIs, WheelAssumption
  <1>2. Become(o, v)
    BY DEF Assumes
  <1> HIDE DEF v
  <1>3. GoesOn(o, v)
    BY <1>1, <1>2, BusyFacts, WheelAssumption
       DEF GoesOn, ControlOf, Sound, WalkSound, WaySound, Walking, Busy
  <1> QED BY <1>2, <1>3, QuietKeeps

\* The walk's press, and the one that undoes it.
LEMMA WalkPressKeeps ==
  ASSUME WheelInv, NEW o \in Op, WalkPress(o) \/ RestorePress(o)
  PROVE  WheelInv'
  <1> DEFINE s == op[o].session
             w == Wheel[Account(s)]
             m == tui[s].mode
  <1>1. PICK pc \in {"walkLook", "restoreLook"} :
          /\ WalkOn(o, pc)
          /\ op[o].pc = (IF pc = "walkLook" THEN "walkPress" ELSE "restorePress")
    BY DEF WalkPress, RestorePress
  <1>2. op[o].pc \in Busy \ {"wheel"}
    BY <1>1 DEF Busy, PCs
  <1>3. /\ op[o] \in OpRecord /\ ControlOf(op[o]) /\ s \in Session
        /\ Sound(op[o], w, m)
    BY <1>2, BusyFacts
  <1>4. CASE ~tui[s].live
    <2>1. Assumes(o, op[o]) /\ UNCHANGED <<active, tui, lock, cache, events, suspect>>
      BY <1>1, <1>4 DEF WalkOn
    <2> QED BY <1>2, <1>3, <2>1, AssumeKeeps
  <1>5. CASE tui[s].live
    <2> DEFINE r == [op[o] EXCEPT !.pc = pc, !.left = @ - 1]
    <2>1. RawShiftTab(o, r) /\ UNCHANGED <<active, lock, cache, events, suspect>>
      BY <1>1, <1>5 DEF WalkOn
    <2>2. op[o].left - 1 \in Nat /\ pc \in PCs
      BY <1>1, <1>3 DEF ControlOf, OpRecord, PCs
    <2>3. /\ r \in OpRecord /\ r.pc = pc /\ r.session = s /\ r.target = op[o].target
          /\ r.profile = op[o].profile /\ r.seen = op[o].seen
          /\ r.moved = op[o].moved /\ r.misled = op[o].misled
      BY <1>3, <2>2 DEF OpRecord
    <2> HIDE DEF r
    <2>4. r.pc \in Busy /\ r.pc \in {"walkLook", "restoreLook"}
      BY <2>3 DEF Busy, PCs
    <2>5. ControlOf(r)
      BY <1>2, <1>3, <2>3, <2>4 DEF ControlOf
    <2>6. /\ Sound(r, w, Next1(w, m))
          /\ \A c \in OpRecord : c = [r EXCEPT !.covered = TRUE] => Sound(c, w, m)
      <3>1. /\ Len(r.seen) >= 1 /\ IsInjective(r.seen)
            /\ r.pc = "walkLook" /\ ~r.moved /\ ~r.misled =>
                 Stretch(r.seen, w) /\ m = Last(r.seen)
        BY <1>1, <1>3, <2>3 DEF Sound, WalkSound, Walking
      <3>2. \A c \in OpRecord : c = [r EXCEPT !.covered = TRUE] =>
              /\ c.pc = r.pc /\ c.seen = r.seen /\ c.moved = r.moved /\ c.misled = r.misled
        BY <2>3 DEF OpRecord
      <3>3. ASSUME NEW c \in OpRecord, NEW n, n \in {m, Next1(w, m)},
                   c.pc = r.pc, c.seen = r.seen, c.moved = r.moved, c.misled = r.misled
            PROVE  Sound(c, w, n)
        BY <2>4, <3>1, <3>3 DEF Sound, WalkSound, WaySound, Walking, Going
      <3> QED BY <2>3, <3>2, <3>3
    <2> QED BY <1>2, <2>1, <2>3, <2>4, <2>5, <2>6, KeyKeeps
  <1> QED BY <1>4, <1>5

\* The first look of a walk.
LEMMA WalkStartKeeps ==
  ASSUME WheelInv, NEW o \in Op, Calibrate(o) \/ CalibrateWaiting(o) \/ WalkStart(o)
  PROVE  WheelInv'
  <1> DEFINE s == op[o].session
             w == Wheel[Account(s)]
             m == tui[s].mode
  <1>1. op[o].pc \in Busy \ {"wheel"} /\ op[o].pc \in {"calibrate", "waiting", "walkStart"}
    BY DEF Calibrate, CalibrateWaiting, WalkStart, Busy, PCs
  <1>2. /\ TypeOK /\ op[o] \in OpRecord /\ ControlOf(op[o]) /\ s \in Session
        /\ op[o].target \in Mode /\ op[o].profile \in Profile
    BY <1>1, BusyFacts
  <1>3. CASE Calibrate(o) \/ CalibrateWaiting(o)
    <2>1. CASE Assumes(o, op[o])
      BY <1>1, <1>2, <1>3, <2>1, AssumeKeeps DEF Calibrate, CalibrateWaiting
    <2>2. ASSUME NEW pc \in {"waiting", "walkStart"}, Goto(o, pc)
          PROVE  WheelInv'
      <3> DEFINE r == [op[o] EXCEPT !.pc = pc]
      <3>1. /\ r \in OpRecord /\ r.pc = pc /\ r.session = s
            /\ r.target = op[o].target /\ r.profile = op[o].profile
        BY <1>2 DEF OpRecord, PCs
      <3>2. Become(o, r)
        BY <2>2 DEF Goto
      <3> HIDE DEF r
      <3>3. GoesOn(o, r)
        BY <1>2, <3>1, <3>2 DEF GoesOn, ControlOf, Sound, WalkSound, WaySound, Walking, Going
      <3> QED BY <1>1, <1>3, <3>3, QuietKeeps DEF Calibrate, CalibrateWaiting
    <2> QED BY <1>3, <2>1, <2>2 DEF Calibrate, CalibrateWaiting
  <1>4. ASSUME WalkStart(o)
        PROVE  WheelInv'
    <2>1. PICK b \in Badges(s) :
            LET r == Looked(o, b) IN
            IF b = None THEN Assumes(o, r)
            ELSE Become(o, [r EXCEPT !.pc = "walkPress", !.seen = <<b>>, !.left = maxModeCycle])
      BY <1>4 DEF WalkStart
    <2> DEFINE r == Looked(o, b)
    <2>2. /\ r \in OpRecord /\ r.session = s /\ r.target = op[o].target
          /\ r.profile = op[o].profile /\ r.misled = (op[o].misled \/ Misreads(s, b))
      BY <1>2, LookedIs
    <2> HIDE DEF r
    <2>3. CASE b = None
      BY <1>1, <1>4, <2>1, <2>2, <2>3, AssumeKeeps DEF WalkStart, r
    <2>4. CASE b # None
      <3> DEFINE v == [r EXCEPT !.pc = "walkPress", !.seen = <<b>>, !.left = maxModeCycle]
      <3>1. b \in Mode /\ (b = m \/ Misreads(s, b))
        BY <1>2, <2>4, BadgeIs
      <3>2. <<b>> \in Seq(Mode) /\ maxModeCycle \in Nat /\ "walkPress" \in PCs
        BY <3>1, WheelAssumption DEF PCs
      <3>3. /\ v \in OpRecord /\ v.pc = "walkPress" /\ v.seen = <<b>> /\ v.left = maxModeCycle
            /\ v.session = s /\ v.target = op[o].target /\ v.profile = op[o].profile
            /\ v.moved = r.moved /\ v.misled = r.misled
        BY <2>2, <3>2 DEF OpRecord
      <3>4. Become(o, v)
        BY <2>1, <2>4 DEF r
      <3> HIDE DEF v
      <3>5. maxModeCycle > 0
        BY <1>2, OwnWheel, WheelAssumption DEF Cycles
      <3>6. Len(v.seen) >= 1 /\ IsInjective(v.seen) /\ Last(v.seen) = b
        <4>1. Len(<<b>>) = 1 /\ <<b>>[1] = b /\ DOMAIN <<b>> = {1}
          OBVIOUS
        <4> QED BY <3>3, <4>1 DEF IsInjective, Last
      <3>7. ~v.misled => b = m /\ Stretch(v.seen, w)
        <4>1. ~v.misled => b = m
          BY <2>2, <3>1, <3>3
        <4>2. Stretch(<<m>>, w)
          BY <1>2, OwnWheel, StretchBegins
        <4> QED BY <3>3, <4>1, <4>2
      <3>8. Sound(v, w, m)
        BY <3>3, <3>6, <3>7 DEF Sound, WalkSound, WaySound, Walking, Going
      <3>9. GoesOn(o, v)
        BY <1>2, <1>4, <3>3, <3>4, <3>5, <3>8 DEF GoesOn, ControlOf, WalkStart
      <3> QED BY <1>1, <1>4, <3>9, QuietKeeps DEF WalkStart
    <2> QED BY <2>3, <2>4
  <1> QED BY <1>3, <1>4

\* A request that starts a walk back.
LEMMA RestoreKeeps ==
  ASSUME WheelInv, NEW o \in Op, op[o].pc = "walkLook", NEW r \in OpRecord,
         r.session = op[o].session, r.target = op[o].target, r.profile = op[o].profile,
         r.seen = op[o].seen, Restores(o, r),
         UNCHANGED <<active, tui, lock, cache, events, suspect>>
  PROVE  WheelInv'
  <1> DEFINE v == [r EXCEPT !.pc = "restoreLook", !.left = maxModeCycle]
  <1>1. /\ v \in OpRecord /\ v.pc = "restoreLook" /\ v.session = r.session
        /\ v.target = r.target /\ v.profile = r.profile /\ v.seen = r.seen
    BY WheelAssumption DEF OpRecord, PCs
  <1>2. Become(o, v)
    BY DEF Restores
  <1> HIDE DEF v
  <1>3. op[o].pc \in Busy \ {"wheel"} /\ op[o].pc \in Walking
    BY DEF Busy, PCs, Walking
  <1>4. Len(op[o].seen) >= 1 /\ IsInjective(op[o].seen)
    BY <1>3, BusyFacts DEF Sound, WalkSound
  <1>5. op[o].session \in Session /\ op[o].target \in Mode /\ op[o].profile \in Profile
    BY <1>3, BusyFacts
  <1>6. GoesOn(o, v)
    BY <1>1, <1>2, <1>4, <1>5 DEF GoesOn, ControlOf, Sound, WalkSound, WaySound, Going
  <1> QED BY <1>3, <1>6, QuietKeeps

\* A walk that is back at its beginning, and one that has met a new mode.
LEMMA WalkLookKeeps ==
  ASSUME WheelInv, NEW o \in Op, WalkLook(o)
  PROVE  WheelInv'
  <1> DEFINE s == op[o].session
             w == Wheel[Account(s)]
             m == tui[s].mode
  <1>1. PICK b \in Badges(s) :
          LET r == Looked(o, b) IN
          IF b = Head(r.seen) THEN Completes(o, r)
          ELSE /\ IF b = None \/ On(r.seen, b) \/ r.left = 0
                  THEN Restores(o, r) ELSE Continues(o, r, b)
               /\ UNCHANGED <<cache, suspect>>
    BY DEF WalkLook
  <1>2. op[o].pc = "walkLook" /\ UNCHANGED <<active, tui, lock, events>>
    BY DEF WalkLook
  <1>3. op[o].pc \in Busy \ {"wheel"} /\ op[o].pc \in Walking
    BY <1>2 DEF Busy, PCs, Walking
  <1>4. /\ TypeOK /\ op[o] \in OpRecord /\ ControlOf(op[o]) /\ s \in Session
        /\ op[o].target \in Mode /\ op[o].profile \in Profile /\ CacheSound
        /\ Sound(op[o], w, m)
    BY <1>3, BusyFacts
  <1> DEFINE r == Looked(o, b)
             seen == op[o].seen
  <1>5. /\ r \in OpRecord /\ r.session = s /\ r.target = op[o].target
        /\ r.profile = op[o].profile /\ r.seen = seen /\ r.left = op[o].left
        /\ r.moved = op[o].moved /\ r.misled = (op[o].misled \/ Misreads(s, b))
    BY <1>4, LookedIs
  <1> HIDE DEF r
  <1>6. /\ seen \in Seq(Mode) /\ Len(seen) >= 1 /\ IsInjective(seen)
        /\ w \in Seq(Mode) /\ Cycles(w)
    BY <1>3, <1>4, OwnWheel DEF Sound, WalkSound, OpRecord
  <1>7. ASSUME b # None, ~r.moved, ~r.misled
        PROVE  /\ b = m /\ Stretch(seen, w)
               /\ b = Last(seen) \/ b = Next1(w, Last(seen))
    <2>1. b = m
      BY <1>4, <1>5, <1>7, BadgeIs
    <2>2. ~op[o].moved /\ ~op[o].misled
      BY <1>5, <1>7
    <2> QED BY <1>2, <1>4, <2>1, <2>2 DEF Sound, WalkSound
  <1>8. b \in Mode \union {None}
    BY <1>4, BadgeIs
  <1>9. CASE b = Head(seen)
    <2>1. Completes(o, r)
      BY <1>1, <1>5, <1>9 DEF r
    <2>2. CASE Len(seen) < 2
      <3>1. Assumes(o, r) /\ UNCHANGED <<cache, suspect>>
        BY <1>5, <1>6, <2>1, <2>2 DEF Completes
      <3> QED BY <1>2, <1>3, <1>5, <3>1, AssumeKeeps
    <2>3. CASE Len(seen) >= 2
      <3> DEFINE trusted == Account(s) = r.profile /\ ~r.moved /\ ~r.misled
                 p == IF trusted THEN r.profile ELSE None
                 v == WithWheel(r, seen, p)
      <3>1. /\ cache' = [cache EXCEPT ![r.profile] = seen]
            /\ suspect' = IF trusted THEN suspect \ {r.profile} ELSE suspect \union {r.profile}
            /\ Become(o, v)
        BY <1>5, <2>1, <2>3 DEF Completes
      <3>2. Cycles(seen)
        BY <1>6, <2>3 DEF Cycles
      <3>3. trusted => SameWheel(seen, Wheel[r.profile])
        <4> SUFFICES ASSUME trusted PROVE SameWheel(seen, Wheel[r.profile])
          OBVIOUS
        <4>1. b # None
          <5>1. seen[1] \in Mode /\ Head(seen) = seen[1]
            BY <1>6
          <5> QED BY <1>9, <5>1, WheelAssumption
        <4>2. b # Last(seen)
          <5>1. seen[1] # seen[Len(seen)]
            BY <1>6, <2>3 DEF IsInjective
          <5> QED BY <1>6, <1>9, <5>1 DEF Last
        <4>3. Stretch(seen, w) /\ b = Next1(w, Last(seen))
          BY <1>7, <4>1, <4>2
        <4>4. Len(seen) = Len(w)
          BY <1>6, <1>9, <4>3, StretchGoesOn
        <4>5. SameWheel(seen, w)
          BY <1>6, <4>3, <4>4, StretchCloses
        <4> QED BY <4>5
      <3> HIDE DEF trusted
      <3>4. p \in Profile \union {None} /\ (p # None => SameWheel(seen, Wheel[p]))
        BY <1>4, <1>5, <3>3
      <3> HIDE DEF p
      <3>5. /\ v \in OpRecord /\ v.pc = "distance" /\ v.wheel = seen /\ v.known = p
            /\ v.session = r.session /\ v.target = r.target /\ v.profile = r.profile
        BY <1>5, <1>6, <3>4, WithWheelIs
      <3> HIDE DEF v
      <3>6. GoesOn(o, v)
        BY <1>4, <1>5, <3>1, <3>2, <3>4, <3>5
           DEF GoesOn, ControlOf, Sound, WalkSound, WaySound, Walking
      <3>7. suspect' \subseteq Profile /\ cache' \in [Profile -> Seq(Mode)]
        BY <1>4, <1>5, <1>6, <3>1 DEF TypeOK
      <3>8. CacheSound'
        <4> SUFFICES ASSUME NEW q \in Profile, cache'[q] # <<>>
                     PROVE  /\ Cycles(cache'[q])
                            /\ q \notin suspect' => SameWheel(cache'[q], Wheel[q])
          BY DEF CacheSound
        <4>1. CASE q = r.profile
          <5>1. cache'[q] = seen /\ (q \notin suspect' => trusted)
            BY <1>4, <3>1, <4>1 DEF TypeOK
          <5> QED BY <3>2, <3>3, <4>1, <5>1
        <4>2. CASE q # r.profile
          <5>1. cache'[q] = cache[q] /\ (q \in suspect' <=> q \in suspect)
            BY <1>4, <3>1, <4>2 DEF TypeOK
          <5> QED BY <1>4, <5>1 DEF CacheSound
        <4> QED BY <4>1, <4>2
      <3> QED BY <1>2, <1>3, <3>6, <3>7, <3>8, QuietKeeps
    <2> QED BY <1>6, <2>2, <2>3
  <1>10. CASE b # Head(seen) /\ (b = None \/ On(seen, b) \/ r.left = 0)
    <2>1. Restores(o, r) /\ UNCHANGED <<cache, suspect>>
      BY <1>1, <1>5, <1>10 DEF r
    <2> QED BY <1>2, <1>5, <2>1, RestoreKeeps
  <1>11. CASE b # Head(seen) /\ ~(b = None \/ On(seen, b) \/ r.left = 0)
    <2> DEFINE v == [r EXCEPT !.pc = "walkPress", !.seen = Append(seen, b)]
    <2>1. Become(o, v) /\ UNCHANGED <<cache, suspect>>
      BY <1>1, <1>5, <1>11 DEF Continues, r
    <2>2. b \in Mode /\ Append(seen, b) \in Seq(Mode)
      BY <1>6, <1>8, <1>11
    <2>3. /\ v \in OpRecord /\ v.pc = "walkPress" /\ v.seen = Append(seen, b)
          /\ v.left = r.left /\ v.session = s /\ v.target = op[o].target
          /\ v.profile = op[o].profile /\ v.moved = r.moved /\ v.misled = r.misled
      BY <1>5, <2>2 DEF OpRecord, PCs
    <2> HIDE DEF v
    <2>4. v.left > 0
      BY <1>4, <1>5, <1>11, <2>3 DEF OpRecord
    <2>5. Len(v.seen) >= 1 /\ IsInjective(v.seen) /\ Last(v.seen) = b
      BY <1>6, <1>11, <2>2, <2>3, NewMode DEF Last
    <2>6. ASSUME ~v.moved, ~v.misled
          PROVE  Stretch(v.seen, w) /\ m = b
      <3>1. /\ b = m /\ Stretch(seen, w)
            /\ b = Last(seen) \/ b = Next1(w, Last(seen))
        BY <1>7, <1>11, <2>3, <2>6
      <3>2. b # Last(seen)
        <4>1. Len(seen) \in 1..Len(seen) /\ Last(seen) = seen[Len(seen)]
          BY <1>6 DEF Last
        <4> QED BY <1>6, <1>11, <4>1, OnIs
      <3>3. Stretch(Append(seen, b), w)
        BY <1>6, <1>11, <3>1, <3>2, StretchGoesOn
      <3> QED BY <2>3, <3>1, <3>3
    <2>7. Sound(v, w, m)
      BY <2>3, <2>5, <2>6 DEF Sound, WalkSound, WaySound, Going
    <2>8. GoesOn(o, v)
      BY <1>2, <1>4, <2>1, <2>3, <2>4, <2>7 DEF GoesOn, ControlOf
    <2> QED BY <1>2, <1>3, <2>1, <2>8, QuietKeeps
  <1> QED BY <1>9, <1>10, <1>11

\* A look on the way back.
LEMMA RestoreLookKeeps ==
  ASSUME WheelInv, NEW o \in Op, RestoreLook(o)
  PROVE  WheelInv'
  <1> DEFINE s == op[o].session
  <1>1. /\ op[o].pc = "restoreLook" /\ op[o].pc \in Busy \ {"wheel"} /\ op[o].pc \in Walking
        /\ UNCHANGED <<active, tui, lock, cache, events, suspect>>
    BY DEF RestoreLook, Busy, PCs, Walking
  <1>2. /\ TypeOK /\ op[o] \in OpRecord /\ s \in Session
        /\ op[o].target \in Mode /\ op[o].profile \in Profile
        /\ Len(op[o].seen) >= 1 /\ IsInjective(op[o].seen)
    BY <1>1, BusyFacts DEF Sound, WalkSound
  <1>3. CASE Assumes(o, op[o])
    BY <1>1, <1>2, <1>3, AssumeKeeps
  <1>4. CASE op[o].left > 0 /\ ~Assumes(o, op[o])
    <2>1. PICK b \in Badges(s) :
            LET r == Looked(o, b) IN
            IF b = Head(r.seen) THEN Assumes(o, r)
            ELSE Become(o, [r EXCEPT !.pc = "restorePress"])
      BY <1>4 DEF RestoreLook
    <2> DEFINE r == Looked(o, b)
    <2>2. /\ r \in OpRecord /\ r.session = s /\ r.target = op[o].target
          /\ r.profile = op[o].profile /\ r.seen = op[o].seen /\ r.left = op[o].left
      BY <1>2, LookedIs
    <2> HIDE DEF r
    <2>3. CASE Assumes(o, r)
      BY <1>1, <2>2, <2>3, AssumeKeeps
    <2>4. CASE ~Assumes(o, r)
      <3> DEFINE v == [r EXCEPT !.pc = "restorePress"]
      <3>1. Become(o, v)
        BY <2>1, <2>4 DEF r
      <3>2. /\ v \in OpRecord /\ v.pc = "restorePress" /\ v.seen = op[o].seen
            /\ v.left = op[o].left /\ v.session = s /\ v.target = op[o].target
            /\ v.profile = op[o].profile
        BY <2>2 DEF OpRecord, PCs
      <3> HIDE DEF v
      <3>3. GoesOn(o, v)
        BY <1>2, <1>4, <3>1, <3>2
           DEF GoesOn, ControlOf, Sound, WalkSound, WaySound, Going
      <3> QED BY <1>1, <3>3, QuietKeeps
    <2> QED BY <2>3, <2>4
  <1> QED BY <1>3, <1>4 DEF RestoreLook

\* A request gets its lock, or finds its session gone.
LEMMA LockKeeps ==
  ASSUME WheelInv, NEW o \in Op, Lock(o)
  PROVE  WheelInv'
  <1> DEFINE s == op[o].session
  <1>1. /\ op[o].pc = "lock" /\ lock[s] = None
        /\ UNCHANGED <<active, tui, cache, events, suspect>>
    BY DEF Lock
  <1>2. /\ TypeOK /\ op[o] \in OpRecord /\ s \in Session /\ op[o].target \in Mode
    BY <1>1 DEF WheelInv, TypeOK, ControlOf
  <1>3. CASE ~tui[s].live
    BY <1>1, <1>2, <1>3, ReturnKeeps DEF Lock
  <1>4. CASE tui[s].live
    <2> DEFINE v == [op[o] EXCEPT !.pc = "wheel"]
    <2>1. Become(o, v) /\ lock' = [lock EXCEPT ![s] = o]
      BY <1>4 DEF Lock, Goto
    <2>2. v \in OpRecord /\ v.pc = "wheel" /\ v.session = s /\ v.target = op[o].target
      BY <1>2 DEF OpRecord, PCs
    <2> HIDE DEF v
    <2>3. GoesOn(o, v)
      BY <1>2, <2>1, <2>2 DEF GoesOn, ControlOf, Sound, WalkSound, WaySound, Walking, Going
    <2>4. TuiKept(o)
      BY <1>1, <1>2 DEF TuiKept, TypeOK, Account
    <2>5. LockKept(o, v)
      <3>1. ASSUME NEW q \in Op, q # o, op[q].pc \in Busy
            PROVE  lock'[op[q].session] = q
        <4>1. lock[op[q].session] = q
          BY <3>1 DEF WheelInv, Locked
        <4>2. op[q].session # s
          BY <1>1, <4>1, WheelAssumption
        <4> QED BY <1>2, <2>1, <4>1, <4>2, BusyFacts, <3>1 DEF TypeOK
      <3>2. lock' \in [Session -> Op \union {None}] /\ lock'[s] = o
        BY <1>2, <2>1 DEF TypeOK
      <3> QED BY <2>2, <3>1, <3>2 DEF LockKept
    <2>6. /\ active' \in Profile /\ events' \in 0..MaxEvents /\ suspect' \subseteq Profile
          /\ cache' \in [Profile -> Seq(Mode)] /\ CacheSound'
      BY <1>1 DEF WheelInv, TypeOK, CacheSound
    <2> QED BY <2>3, <2>4, <2>5, <2>6, StepKeeps
  <1> QED BY <1>3, <1>4

\* The cache.
LEMMA WheelForKeeps ==
  ASSUME WheelInv, NEW o \in Op, WheelFor(o)
  PROVE  WheelInv'
  <1> DEFINE r == [op[o] EXCEPT !.profile = active]
             s == op[o].session
             p == IF active \in suspect THEN None ELSE active
  <1>0. /\ r.pc = "wheel" /\ UNCHANGED <<active, tui, lock, cache, events, suspect>>
        /\ Become(o, IF cache[active] # <<>> THEN WithWheel(r, cache[active], p)
                     ELSE [r EXCEPT !.pc = "calibrate"])
    BY DEF WheelFor
  <1>1. op \in [Op -> OpRecord] /\ active \in Profile /\ cache \in [Profile -> Seq(Mode)]
    BY DEF WheelInv, TypeOK
  <1>2. /\ r \in OpRecord /\ r.pc = op[o].pc /\ r.session = s /\ r.target = op[o].target
        /\ r.profile = active
    BY <1>1 DEF OpRecord
  <1> HIDE DEF r
  <1>3. op[o].pc \in Busy
    BY <1>0, <1>2 DEF Busy, PCs
  <1>4. s \in Session /\ op[o].target \in Mode /\ CacheSound
    BY <1>3, BusyFacts
  <1>5. CASE cache[active] # <<>>
    <2> DEFINE v == WithWheel(r, cache[active], p)
    <2>1. p \in Profile \union {None} /\ (p # None => SameWheel(cache[active], Wheel[p]))
      BY <1>1, <1>4, <1>5 DEF CacheSound
    <2> HIDE DEF p
    <2>2. /\ v \in OpRecord /\ v.pc = "distance" /\ v.wheel = cache[active] /\ v.known = p
          /\ v.session = s /\ v.target = op[o].target /\ v.profile = active
      BY <1>1, <1>2, <2>1, WithWheelIs
    <2>3. Become(o, v)
      BY <1>0, <1>5
    <2> HIDE DEF v
    <2>4. Cycles(cache[active])
      BY <1>1, <1>4, <1>5 DEF CacheSound
    <2>5. GoesOn(o, v)
      BY <1>1, <1>4, <2>1, <2>2, <2>3, <2>4
         DEF GoesOn, ControlOf, Sound, WalkSound, WaySound, Walking
    <2> QED BY <1>0, <1>3, <2>5, QuietKeeps
  <1>6. CASE cache[active] = <<>>
    <2> DEFINE v == [r EXCEPT !.pc = "calibrate"]
    <2>1. /\ v \in OpRecord /\ v.pc = "calibrate" /\ v.session = s
          /\ v.target = op[o].target /\ v.profile = active
      BY <1>2 DEF OpRecord, PCs
    <2>2. Become(o, v)
      BY <1>0, <1>6
    <2> HIDE DEF v
    <2>3. GoesOn(o, v)
      BY <1>1, <1>4, <2>1, <2>2
         DEF GoesOn, ControlOf, Sound, WalkSound, WaySound, Walking, Going
    <2> QED BY <1>0, <1>3, <2>3, QuietKeeps
  <1> QED BY <1>5, <1>6

\* The count begins, if the badge read is on the wheel.
LEMMA DistanceKeeps ==
  ASSUME WheelInv, NEW o \in Op, ReadDistance(o)
  PROVE  WheelInv'
  <1> DEFINE s == op[o].session
             m == tui[s].mode
             v == op[o].wheel
  <1>1. /\ op[o].pc = "distance" /\ op[o].pc \in Busy \ {"wheel"}
        /\ UNCHANGED <<active, tui, cache, events, suspect>>
    BY DEF ReadDistance, Busy, PCs
  <1>2. /\ TypeOK /\ op[o] \in OpRecord /\ s \in Session
        /\ op[o].target \in Mode /\ op[o].profile \in Profile
        /\ v \in Seq(Mode) /\ Cycles(v)
        /\ op[o].known # None => SameWheel(v, Wheel[op[o].known])
    BY <1>1, BusyFacts DEF Sound, WaySound, Going, OpRecord
  <1>3. CASE ~On(v, op[o].target)
    BY <1>1, <1>2, <1>3, ReturnKeeps DEF ReadDistance
  <1>4. CASE On(v, op[o].target)
    <2>1. PICK b \in Badges(s) : Become(o, PressesFrom(Looked(o, b), b)) /\ UNCHANGED lock
      BY <1>4 DEF ReadDistance
    <2> DEFINE r == Looked(o, b)
               c == PressesFrom(r, b)
    <2>2. /\ r \in OpRecord /\ r.session = s /\ r.target = op[o].target
          /\ r.profile = op[o].profile /\ r.wheel = v /\ r.known = op[o].known
          /\ r.moved = op[o].moved /\ r.covered = op[o].covered
          /\ r.misled = (op[o].misled \/ Misreads(s, b))
      BY <1>2, LookedIs
    <2>3. Become(o, c) /\ UNCHANGED lock
      BY <2>1
    <2> HIDE DEF r
    <2>4. b = None \/ b = m \/ Misreads(s, b)
      BY <1>2, BadgeIs
    <2>5. CASE On(v, b)
      <3> DEFINE k == Distance(v, b, op[o].target)
      <3>1. k \in Nat /\ Remains(v, b, op[o].target, k)
        BY <1>2, <1>4, <2>5, DistanceRemains
      <3>2. b # None
        <4>1. PICK i \in 1..Len(v) : v[i] = b
          BY <1>2, <2>5, OnIs DEF Cycles
        <4> QED BY <1>2, <4>1, WheelAssumption
      <3>3. c = [r EXCEPT !.pc = "press", !.left = k]
        BY <2>2, <2>5 DEF PressesFrom
      <3> HIDE DEF k, c
      <3>4. /\ c \in OpRecord /\ c.pc = "press" /\ c.left = k /\ c.session = s
            /\ c.target = op[o].target /\ c.profile = op[o].profile /\ c.wheel = v
            /\ c.known = op[o].known /\ c.misled = r.misled
        BY <2>2, <3>1, <3>3 DEF OpRecord, PCs
      <3>5. ~c.misled => Remains(v, m, op[o].target, k)
        BY <2>2, <2>4, <3>1, <3>2, <3>4
      <3>6. Sound(c, Wheel[Account(s)], m)
        BY <1>2, <3>4, <3>5 DEF Sound, WalkSound, WaySound, Walking
      <3>7. GoesOn(o, c)
        BY <1>1, <1>2, <2>3, <3>4, <3>6 DEF GoesOn, ControlOf
      <3> QED BY <1>1, <2>3, <3>7, QuietKeeps
    <2>6. CASE ~On(v, b)
      <3> DEFINE k == IF Len(v) > maxModeCycle THEN maxModeCycle ELSE Len(v)
      <3>1. k \in Nat /\ k > 0
        BY <1>2, OwnWheel, WheelAssumption DEF Cycles
      <3>2. c = [r EXCEPT !.pc = "blindPress", !.left = k]
        BY <2>2, <2>6 DEF PressesFrom
      <3> HIDE DEF k, c
      <3>3. /\ c \in OpRecord /\ c.pc = "blindPress" /\ c.left = k /\ c.session = s
            /\ c.target = op[o].target /\ c.profile = op[o].profile /\ c.wheel = v
            /\ c.known = op[o].known
        BY <2>2, <3>1, <3>2 DEF OpRecord, PCs
      <3>4. Sound(c, Wheel[Account(s)], m)
        BY <1>2, <3>3 DEF Sound, WalkSound, WaySound, Walking
      <3>5. GoesOn(o, c)
        BY <1>1, <1>2, <2>3, <3>1, <3>3, <3>4 DEF GoesOn, ControlOf
      <3> QED BY <1>1, <2>3, <3>5, QuietKeeps
    <2> QED BY <2>5, <2>6
  <1> QED BY <1>3, <1>4

\* The presses counted, and those made blind.
LEMMA PressKeeps ==
  ASSUME WheelInv, NEW o \in Op, Press(o) \/ BlindPress(o)
  PROVE  WheelInv'
  <1> DEFINE s == op[o].session
             w == Wheel[Account(s)]
             m == tui[s].mode
             v == op[o].wheel
  <1>1. /\ op[o].pc \in {"press", "blindPress"} /\ op[o].pc \in Busy \ {"wheel"}
        /\ UNCHANGED <<active, cache, events, suspect>>
    BY DEF Press, BlindPress, Busy, PCs
  <1>2. /\ TypeOK /\ op[o] \in OpRecord /\ ControlOf(op[o]) /\ s \in Session
        /\ op[o].target \in Mode /\ op[o].profile \in Profile /\ op[o].left \in Nat
        /\ v \in Seq(Mode) /\ w \in Seq(Mode) /\ Sound(op[o], w, m)
    BY <1>1, BusyFacts, OwnWheel DEF OpRecord
  <1>3. ASSUME NEW result \in {"ok", "error"}, Returns(o, result), UNCHANGED tui
        PROVE  WheelInv'
    BY <1>1, <1>2, <1>3, ReturnKeeps
  <1>4. ASSUME NEW pc \in {"press", "blindLook"}, op[o].left > 0, UNCHANGED lock,
               RawShiftTab(o, [op[o] EXCEPT !.pc = pc, !.left = @ - 1]),
               pc = "press" => op[o].pc = "press"
        PROVE  WheelInv'
    <2> DEFINE r == [op[o] EXCEPT !.pc = pc, !.left = @ - 1]
    <2>1. op[o].left - 1 \in Nat /\ pc \in PCs /\ pc \in Busy
      BY <1>2, <1>4 DEF PCs, Busy
    <2>2. /\ r \in OpRecord /\ r.pc = pc /\ r.session = s /\ r.target = op[o].target
          /\ r.profile = op[o].profile /\ r.wheel = v /\ r.known = op[o].known
          /\ r.left = op[o].left - 1 /\ r.moved = op[o].moved
          /\ r.misled = op[o].misled /\ r.covered = op[o].covered
      BY <1>2, <2>1 DEF OpRecord
    <2>3. RawShiftTab(o, r)
      BY <1>4
    <2> HIDE DEF r
    <2>4. ControlOf(r)
      BY <1>2, <2>1, <2>2 DEF ControlOf
    <2>5. Cycles(v) /\ (op[o].known # None => SameWheel(v, Wheel[op[o].known]))
      BY <1>1, <1>2 DEF Sound, WaySound, Going
    <2>6. Sound(r, w, Next1(w, m))
      <3>1. ASSUME pc = "press", ~r.moved, ~r.misled, ~r.covered, SameWheel(v, w)
            PROVE  Remains(v, Next1(w, m), op[o].target, op[o].left - 1)
        <4>1. Remains(v, m, op[o].target, op[o].left)
          BY <1>2, <1>4, <2>2, <3>1 DEF Sound, WaySound
        <4> QED BY <1>2, <1>4, <2>5, <3>1, <4>1, PressRemains
      <3> QED BY <2>2, <2>5, <3>1 DEF Sound, WalkSound, WaySound, Walking
    <2>7. ASSUME NEW c \in OpRecord, c = [r EXCEPT !.covered = TRUE]
          PROVE  Sound(c, w, m)
      <3>1. c.covered /\ c.pc = pc /\ c.wheel = v /\ c.known = op[o].known
        BY <2>2, <2>7 DEF OpRecord
      <3> QED BY <2>5, <3>1 DEF Sound, WalkSound, WaySound, Walking
    <2> QED BY <1>1, <1>4, <2>1, <2>2, <2>3, <2>4, <2>6, <2>7, KeyKeeps
  <1>5. CASE Press(o)
    <2>1. CASE op[o].left = 0
      <3>1. ~(op[o].left > 0)
        BY <2>1
      <3>2. Returns(o, "ok") /\ UNCHANGED tui
        BY <1>5, <2>1, <3>1, Zenon DEF Press
      <3> QED BY <1>3, <3>2
    <2>2. CASE op[o].left > 0 /\ tui[s].live
      <3>1. op[o].left # 0
        BY <2>2
      <3> DEFINE r == [op[o] EXCEPT !.left = @ - 1]
      <3>2. RawShiftTab(o, r) /\ UNCHANGED lock
        BY <1>5, <2>2, <3>1, Zenon DEF Press
      <3>3. r = [op[o] EXCEPT !.pc = "press", !.left = @ - 1]
        BY <1>2, <1>5 DEF Press, OpRecord
      <3> HIDE DEF r
      <3>4. op[o].pc = "press"
        BY <1>5 DEF Press
      <3> QED BY <1>4, <2>2, <3>2, <3>3, <3>4
    <2>3. CASE op[o].left # 0 /\ ~(op[o].left > 0 /\ tui[s].live)
      <3>1. Returns(o, "error") /\ UNCHANGED tui
        BY <1>5, <2>3, Zenon DEF Press
      <3> QED BY <1>3, <3>1
    <2> QED BY <2>1, <2>2, <2>3
  <1>6. CASE BlindPress(o)
    <2>1. op[o].pc = "blindPress" /\ op[o].left > 0
      BY <1>2, <1>6 DEF BlindPress, ControlOf
    <2>2. CASE tui[s].live
      BY <1>4, <1>6, <2>1, <2>2 DEF BlindPress
    <2>3. CASE ~tui[s].live
      BY <1>3, <1>6, <2>3 DEF BlindPress
    <2> QED BY <2>2, <2>3
  <1> QED BY <1>5, <1>6

\* A look after a blind press.
LEMMA BlindLookKeeps ==
  ASSUME WheelInv, NEW o \in Op, BlindLook(o)
  PROVE  WheelInv'
  <1> DEFINE s == op[o].session
  <1>1. /\ op[o].pc = "blindLook" /\ op[o].pc \in Busy \ {"wheel"}
        /\ UNCHANGED <<active, tui, cache, events, suspect>>
    BY DEF BlindLook, Busy, PCs
  <1>2. /\ TypeOK /\ op[o] \in OpRecord /\ s \in Session
        /\ op[o].target \in Mode /\ op[o].profile \in Profile
        /\ Cycles(op[o].wheel)
        /\ op[o].known # None => SameWheel(op[o].wheel, Wheel[op[o].known])
    BY <1>1, BusyFacts DEF Sound, WaySound, Going
  <1>3. PICK b \in Badges(s) :
          LET r == Looked(o, b) IN
          CASE b = r.target -> Returns(o, "ok")
            [] b # r.target /\ r.left = 0 -> Returns(o, "error")
            [] OTHER -> Become(o, [r EXCEPT !.pc = "blindPress"]) /\ UNCHANGED lock
    BY Zenon DEF BlindLook
  <1> DEFINE r == Looked(o, b)
  <1>4. /\ r \in OpRecord /\ r.session = s /\ r.target = op[o].target
        /\ r.profile = op[o].profile /\ r.wheel = op[o].wheel /\ r.known = op[o].known
        /\ r.left \in Nat
    BY <1>2, LookedIs DEF OpRecord
  <1>5. CASE b = r.target
    <2>1. Returns(o, "ok")
      BY <1>3, <1>5, Zenon
    <2> QED BY <1>1, <1>2, <2>1, ReturnKeeps
  <1>6. CASE b # r.target /\ r.left = 0
    <2>1. Returns(o, "error")
      BY <1>3, <1>6, Zenon
    <2> QED BY <1>1, <1>2, <2>1, ReturnKeeps
  <1>7. CASE b # r.target /\ r.left # 0
    <2> DEFINE v == [r EXCEPT !.pc = "blindPress"]
    <2>1. Become(o, v) /\ UNCHANGED lock
      BY <1>3, <1>7, Zenon
    <2> HIDE DEF r
    <2>2. /\ v \in OpRecord /\ v.pc = "blindPress" /\ v.left = r.left /\ v.session = s
          /\ v.target = op[o].target /\ v.profile = op[o].profile
          /\ v.wheel = op[o].wheel /\ v.known = op[o].known
      BY <1>4 DEF OpRecord, PCs
    <2> HIDE DEF v
    <2>3. v.left > 0
      BY <1>4, <1>7, <2>2
    <2>4. GoesOn(o, v)
      BY <1>1, <1>2, <2>1, <2>2, <2>3
         DEF GoesOn, ControlOf, Sound, WalkSound, WaySound, Walking
    <2> QED BY <1>1, <2>1, <2>4, QuietKeeps
  <1> QED BY <1>5, <1>6, <1>7

-----------------------------------------------------------------------------
(* The other steps                                                           *)

\* A request is made.
LEMMA RequestKeeps ==
  ASSUME WheelInv, NEW o \in Op, NEW s \in Session, NEW m \in Mode, Request(o, s, m)
  PROVE  WheelInv'
  <1> DEFINE v == [NewOp EXCEPT !.pc = "lock", !.session = s, !.target = m]
  <1>1. Become(o, v) /\ UNCHANGED <<active, tui, lock, cache, events, suspect>>
    BY DEF Request
  <1>2. v \in OpRecord /\ v.pc = "lock" /\ v.session = s /\ v.target = m
    <2>1. <<>> \in Seq(Mode) /\ 0 \in Nat /\ "lock" \in PCs
      BY DEF PCs
    <2> QED BY <2>1 DEF NewOp, OpRecord
  <1> HIDE DEF v
  <1>3. GoesOn(o, v)
    BY <1>1, <1>2 DEF GoesOn, ControlOf, Busy
  <1>4. TuiKept(o)
    BY <1>1 DEF TuiKept, WheelInv, TypeOK, Account
  <1>5. LockKept(o, v)
    BY <1>1, <1>2 DEF LockKept, WheelInv, TypeOK, Locked, Busy
  <1>6. /\ active' \in Profile /\ events' \in 0..MaxEvents /\ suspect' \subseteq Profile
        /\ cache' \in [Profile -> Seq(Mode)] /\ CacheSound'
    BY <1>1 DEF WheelInv, TypeOK, CacheSound
  <1> QED BY <1>3, <1>4, <1>5, <1>6, StepKeeps

\* What happens to a session without changing its mode, and a switch of profile.
LEMMA SceneKeeps ==
  ASSUME WheelInv, UNCHANGED <<lock, cache, op, suspect>>, active' \in Profile,
         events' \in 0..MaxEvents, tui' \in [Session -> TuiRecord],
         \A s \in Session : tui'[s].mode = tui[s].mode /\ tui'[s].account = tui[s].account
  PROVE  WheelInv'
  <1>1. TypeOK'
    BY DEF WheelInv, TypeOK, Account
  <1>2. CacheSound'
    BY DEF WheelInv, CacheSound
  <1>3. ASSUME NEW o \in Op
        PROVE  /\ ControlOf(op'[o]) /\ (op'[o].pc \in Busy => lock'[op'[o].session] = o)
               /\ op'[o].pc \in Busy =>
                    Sound(op'[o], Wheel[tui'[op'[o].session].account], tui'[op'[o].session].mode)
    BY BusyFacts DEF WheelInv, Locked, Account
  <1> QED BY <1>1, <1>2, <1>3 DEF WheelInv, Locked, Account

LEMMA EnvironmentKeeps ==
  ASSUME WheelInv,
         \/ \E s \in Session : Exits(s) \/ \E shows \in Shows : Redraws(s, shows)
         \/ \E p \in Profile : Switches(p)
  PROVE  WheelInv'
  <1>1. /\ tui \in [Session -> TuiRecord] /\ events \in 0..MaxEvents /\ MaxEvents \in Nat
        /\ active \in Profile
    BY WheelAssumption DEF WheelInv, TypeOK
  <1>2. ASSUME NEW s \in Session, Exits(s) \/ \E shows \in Shows : Redraws(s, shows)
        PROVE  WheelInv'
    <2>1. /\ UNCHANGED <<active, lock, cache, op, suspect>>
          /\ events' \in 0..MaxEvents
      BY <1>1, <1>2 DEF Exits, Redraws, Happens
    <2>2. /\ tui' \in [Session -> TuiRecord]
          /\ \A t \in Session : tui'[t].mode = tui[t].mode /\ tui'[t].account = tui[t].account
      <3>1. CASE Exits(s)
        BY <1>1, <3>1 DEF Exits, TuiRecord
      <3>2. ASSUME NEW shows \in Shows, Redraws(s, shows)
            PROVE  <2>2!1 /\ <2>2!2
        BY <1>1, <3>2 DEF Redraws, TuiRecord
      <3> QED BY <1>2, <3>1, <3>2
    <2> QED BY <1>1, <2>1, <2>2, SceneKeeps
  <1>3. ASSUME NEW p \in Profile, Switches(p)
        PROVE  WheelInv'
    <2>1. UNCHANGED <<tui, lock, cache, op, suspect>> /\ active' = p /\ events' \in 0..MaxEvents
      BY <1>1, <1>3 DEF Switches, Happens
    <2> QED BY <1>1, <2>1, SceneKeeps
  <1> QED BY <1>2, <1>3

\* Somebody else changes the mode: who is busy with the session will know.
LEMMA MovesKeeps ==
  ASSUME WheelInv, NEW s \in Session, NEW m \in Mode, Moves(s, m)
  PROVE  WheelInv'
  <1>1. /\ TypeOK /\ tui \in [Session -> TuiRecord] /\ op \in [Op -> OpRecord]
        /\ MaxEvents \in Nat
    BY WheelAssumption DEF WheelInv, TypeOK
  <1>2. /\ UNCHANGED <<active, lock, cache, suspect>> /\ events' \in 0..MaxEvents
        /\ On(Wheel[Account(s)], m)
    BY <1>1 DEF Moves, Happens, TypeOK
  <1>3. /\ tui' \in [Session -> TuiRecord] /\ tui'[s].mode = m
        /\ \A t \in Session : tui'[t].account = tui[t].account
        /\ \A t \in Session : t # s => tui'[t] = tui[t]
    BY <1>1 DEF Moves, TuiRecord
  <1>4. \A o \in Op :
          op'[o] = IF lock[s] = o THEN [op[o] EXCEPT !.moved = TRUE] ELSE op[o]
    BY DEF Moves
  <1>5. ASSUME NEW o \in Op
        PROVE  /\ op'[o] \in OpRecord
               /\ op'[o].pc = op[o].pc /\ op'[o].session = op[o].session
               /\ op'[o].target = op[o].target /\ op'[o].profile = op[o].profile
               /\ op'[o].wheel = op[o].wheel /\ op'[o].known = op[o].known
               /\ op'[o].seen = op[o].seen /\ op'[o].left = op[o].left
               /\ lock[s] = o => op'[o].moved
               /\ lock[s] # o => op'[o] = op[o]
    <2>1. CASE lock[s] = o
      <3>1. op'[o] = [op[o] EXCEPT !.moved = TRUE] /\ op[o] \in OpRecord
        BY <1>1, <1>4, <2>1
      <3> QED BY <2>1, <3>1 DEF OpRecord
    <2>2. CASE lock[s] # o
      <3>1. op'[o] = op[o] /\ op[o] \in OpRecord
        BY <1>1, <1>4, <2>2
      <3> QED BY <2>2, <3>1
    <2> QED BY <2>1, <2>2
  <1>6. op' \in [Op -> OpRecord]
    <2>1. op' = [o \in Op |-> op'[o]]
      BY DEF Moves
    <2> QED BY <1>5, <2>1
  <1>7. \A t \in Session : On(Wheel[tui'[t].account], tui'[t].mode)
    BY <1>1, <1>2, <1>3 DEF TypeOK, Account
  <1>8. TypeOK'
    BY <1>1, <1>2, <1>3, <1>6, <1>7 DEF TypeOK, Account
  <1>9. CacheSound'
    BY <1>2 DEF WheelInv, CacheSound
  <1>10. ASSUME NEW o \in Op
         PROVE  /\ ControlOf(op'[o]) /\ (op'[o].pc \in Busy => lock'[op'[o].session] = o)
                /\ op'[o].pc \in Busy =>
                     Sound(op'[o], Wheel[tui'[op'[o].session].account], tui'[op'[o].session].mode)
    <2>1. ControlOf(op'[o])
      BY <1>5 DEF WheelInv, ControlOf
    <2>2. op'[o].pc \in Busy => lock'[op'[o].session] = o
      BY <1>2, <1>5 DEF WheelInv, Locked
    <2>3. ASSUME op'[o].pc \in Busy
          PROVE  Sound(op'[o], Wheel[tui'[op'[o].session].account], tui'[op'[o].session].mode)
      <3>1. /\ op[o].session \in Session
            /\ Sound(op[o], Wheel[tui[op[o].session].account], tui[op[o].session].mode)
        BY <1>5, <2>3, BusyFacts DEF Account
      <3>2. CASE lock[s] = o
        <4>1. op'[o].moved
          BY <1>5, <3>2
        <4> QED BY <1>3, <1>5, <3>1, <4>1 DEF Sound, WalkSound, WaySound
      <3>3. CASE lock[s] # o
        <4>1. op[o].session # s
          BY <1>5, <2>3, <3>3 DEF WheelInv, Locked
        <4> QED BY <1>3, <1>5, <3>1, <3>3, <4>1
      <3> QED BY <3>2, <3>3
    <2> QED BY <2>1, <2>2, <2>3
  <1> QED BY <1>8, <1>9, <1>10 DEF WheelInv, Locked, Account

-----------------------------------------------------------------------------
\* WheelInv holds at the start ...
LEMMA WheelStart == Init => WheelInv
  <1> SUFFICES ASSUME Init PROVE WheelInv
    OBVIOUS
  <1>1. NewOp \in OpRecord /\ NewOp.pc = "free"
    <2>1. <<>> \in Seq(Mode) /\ 0 \in Nat /\ "free" \in PCs
      BY DEF PCs
    <2> QED BY <2>1 DEF NewOp, OpRecord
  <1>2. tui \in [Session -> TuiRecord]
    BY DEF Init, TuiRecord, Shows
  <1>3. cache \in [Profile -> Seq(Mode)] /\ CacheSound
    BY DEF Init, CacheSound
  <1>4. TypeOK
    BY <1>1, <1>2, <1>3, WheelAssumption DEF Init, TypeOK
  <1>5. \A o \in Op : op[o] = NewOp
    BY DEF Init
  <1> QED BY <1>1, <1>3, <1>4, <1>5 DEF WheelInv, ControlOf, Locked, Busy

\* ... and every step keeps it.
LEMMA WheelStep == WheelInv /\ [Next]_vars => WheelInv'
  <1> SUFFICES ASSUME WheelInv, [Next]_vars PROVE WheelInv'
    OBVIOUS
  <1>1. ASSUME NEW o \in Op, Step(o)
        PROVE  WheelInv'
    BY <1>1, LockKeeps, WheelForKeeps, WalkStartKeeps, WalkPressKeeps, WalkLookKeeps,
       RestoreLookKeeps, DistanceKeeps, PressKeeps, BlindLookKeeps DEF Step
  <1>2. CASE UNCHANGED vars
    <2>1. UNCHANGED <<active, tui, lock, cache, op, events, suspect>>
      BY <1>2 DEF vars
    <2>2. active' \in Profile /\ events' \in 0..MaxEvents /\ tui' \in [Session -> TuiRecord]
      BY <2>1 DEF WheelInv, TypeOK
    <2> QED BY <2>1, <2>2, SceneKeeps
  <1> QED BY <1>1, <1>2, RequestKeeps, EnvironmentKeeps, MovesKeeps DEF Next

\* A request past its lock knows its session and its target, from the choice of
\* a wheel on its profile too, and holds the session's lock until it returns,
\* so that no two requests walk or cycle one pane at a time: for any number of
\* sessions, requests and accounts.
THEOREM Typed ==
  Spec => [](TypeOK /\ \A o \in Op : ControlOf(op[o]) /\ Locked(o))
  <1>1. WheelInv => TypeOK /\ \A o \in Op : ControlOf(op[o]) /\ Locked(o)
    BY DEF WheelInv
  <1> QED BY WheelStart, WheelStep, <1>1, PTL DEF Spec

\* Whatever keys dialogs take and whatever badges wrap while a wheel is walked,
\* what is cached for a profile is the whole wheel of its account - unless
\* it was walked on another account, or the walk was moved or misled.
THEOREM WheelsCachedWhole == Spec => []CachedIsReal
  <1>1. WheelInv => CachedIsReal
    BY DEF WheelInv, CacheSound, CachedIsReal
  <1> QED BY WheelStart, WheelStep, <1>1, PTL DEF Spec

\* A request that is neither moved nor misled and loses no key, and that goes by
\* a wheel that can be trusted, reports the mode its session is in.
THEOREM ModesReached == Spec => ModeReached
  <1> DEFINE Reports(o) == op[o].pc \in {"press", "blindLook"} /\ op'[o].pc = "ok"
                           /\ Undisturbed(o) /\ GoesBy(o)
  <1>1. WheelInv /\ [Next]_vars =>
          [\A o \in Op : Reports(o) => tui[op[o].session].mode = op[o].target]_vars
    <2> SUFFICES ASSUME WheelInv, Next, NEW o \in Op, Reports(o)
                 PROVE  tui[op[o].session].mode = op[o].target
      BY DEF vars
    <2> DEFINE s == op[o].session
               m == tui[s].mode
               r == op[o]
    <2>1. op[o].pc \in Busy
      BY DEF Busy, PCs
    <2>2. /\ TypeOK /\ r \in OpRecord /\ s \in Session /\ r.target \in Mode
          /\ Sound(r, Wheel[Account(s)], m) /\ op \in [Op -> OpRecord]
      BY <2>1, BusyFacts DEF TypeOK
    <2>3. Press(o) \/ BlindLook(o)
      <3>1. ASSUME NEW q \in Op, Step(q) \/ \E t \in Session, n \in Mode : Request(q, t, n)
            PROVE  q = o
        <4>1. ASSUME q # o PROVE op'[o] = op[o]
          BY <2>2, <3>1, <4>1
             DEF Step, Lock, WheelFor, Calibrate, CalibrateWaiting, WalkStart, WalkPress,
                 WalkLook, RestoreLook, RestorePress, WalkOn, RawShiftTab, Completes, Restores, Continues, Assumes,
                 ReadDistance, Press, BlindPress, BlindLook, Returns, Goto, Become, Request
        <4> QED BY <4>1
      <3>2. ASSUME Step(o)
            PROVE  Press(o) \/ BlindLook(o)
        <4>1. ~WheelFor(o)
          <5> DEFINE v == [op[o] EXCEPT !.profile = active]
          <5>1. v.pc = op[o].pc
            BY <2>2 DEF OpRecord
          <5> QED BY <5>1 DEF WheelFor
        <4> QED BY <3>2, <4>1 DEF Step, Lock, Calibrate, CalibrateWaiting, WalkStart, WalkPress,
                                  WalkLook, RestoreLook, RestorePress, ReadDistance, BlindPress
      <3>3. ~ \E t \in Session, n \in Mode : Request(o, t, n)
        BY DEF Request
      <3>4. ASSUME op' = op PROVE FALSE
        BY <3>4
      <3>5. ~ \E t \in Session, n \in Mode : Moves(t, n)
        <4>1. ASSUME NEW t \in Session, NEW n \in Mode, Moves(t, n) PROVE FALSE
          <5>1. op'[o] = IF lock[t] = o THEN [op[o] EXCEPT !.moved = TRUE] ELSE op[o]
            BY <4>1 DEF Moves
          <5>2. op'[o].pc = op[o].pc
            BY <2>2, <5>1 DEF OpRecord
          <5> QED BY <5>2
        <4> QED BY <4>1
      <3> QED BY <3>1, <3>2, <3>3, <3>4, <3>5 DEF Next, Exits, Redraws, Switches
    <2>4. CASE Press(o)
      <3>1. r.pc = "press" /\ r.left \in Nat
        BY <2>2, <2>4 DEF Press, OpRecord
      <3>2. r.left = 0
        <4>1. CASE r.left > 0 /\ tui[s].live
          <5>1. r.left # 0
            BY <4>1
          <5> DEFINE v == [r EXCEPT !.left = @ - 1]
          <5>2. RawShiftTab(o, v)
            BY <2>4, <4>1, <5>1, Zenon DEF Press
          <5>3. op'[o] = v \/ op'[o] = [v EXCEPT !.covered = TRUE]
            BY <2>2, <5>2 DEF RawShiftTab
          <5>4. v.pc = "press" /\ [v EXCEPT !.covered = TRUE].pc = "press"
            BY <2>2, <3>1 DEF OpRecord
          <5> QED BY <5>3, <5>4
        <4>2. CASE r.left # 0 /\ ~(r.left > 0 /\ tui[s].live)
          <5>1. Returns(o, "error")
            BY <2>4, <4>2, Zenon DEF Press
          <5>2. op'[o] = [NewOp EXCEPT !.pc = "error"]
            BY <2>2, <5>1 DEF Returns, Become
          <5> QED BY <5>2 DEF NewOp
        <4> QED BY <4>1, <4>2
      <3>3. SameWheel(r.wheel, Wheel[Account(s)]) /\ Cycles(r.wheel) /\ r.wheel \in Seq(Mode)
        <4>1. Account(s) # None
          BY <2>2, OwnWheel, WheelAssumption
        <4> QED BY <2>2, <3>1, <4>1 DEF GoesBy, Sound, WaySound, Going, OpRecord
      <3>4. Remains(r.wheel, m, r.target, 0)
        BY <2>2, <3>1, <3>2, <3>3 DEF Sound, WaySound, Undisturbed
      <3> QED BY <3>3, <3>4, NoneRemains
    <2>5. CASE BlindLook(o)
      <3>1. r.pc = "blindLook"
        BY <2>5 DEF BlindLook
      <3>2. PICK b \in Badges(s) :
              LET c == Looked(o, b) IN
              CASE b = c.target -> Returns(o, "ok")
                [] b # c.target /\ c.left = 0 -> Returns(o, "error")
                [] OTHER -> Become(o, [c EXCEPT !.pc = "blindPress"]) /\ UNCHANGED lock
        BY <2>5, Zenon DEF BlindLook
      <3> DEFINE c == Looked(o, b)
      <3>3. c \in OpRecord /\ c.target = r.target
        BY <2>2, LookedIs
      <3>4. CASE b # c.target /\ c.left = 0
        <4>1. Returns(o, "error")
          BY <3>2, <3>4, Zenon
        <4>2. op'[o] = [NewOp EXCEPT !.pc = "error"]
          BY <2>2, <4>1 DEF Returns, Become
        <4> QED BY <4>2 DEF NewOp
      <3>5. CASE b # c.target /\ c.left # 0
        <4> DEFINE v == [c EXCEPT !.pc = "blindPress"]
        <4>1. Become(o, v)
          BY <3>2, <3>5, Zenon
        <4> HIDE DEF c
        <4>2. v.pc = "blindPress"
          BY <3>3 DEF OpRecord
        <4>3. op'[o] = v
          BY <2>2, <4>1 DEF Become
        <4> QED BY <4>2, <4>3
      <3>6. CASE b = c.target
        <4>1. b # None /\ ~Misreads(s, b)
          BY <2>2, <3>1, <3>3, <3>6, WheelAssumption DEF Undisturbed, Misreads
        <4> QED BY <2>2, <3>3, <3>6, <4>1, BadgeIs
      <3> QED BY <3>4, <3>5, <3>6
    <2> QED BY <2>3, <2>4, <2>5
  <1> QED BY WheelStart, WheelStep, <1>1, PTL DEF Spec, ModeReached
=============================================================================
