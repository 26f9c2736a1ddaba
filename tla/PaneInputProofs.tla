--------------------------- MODULE PaneInputProofs ----------------------------
(***************************************************************************)
(* Proofs about PaneInput, for any number of requests, panes, names and    *)
(* dialogs: the four invariants and the action property its run checks.    *)
(***************************************************************************)
EXTENDS PaneInput, TLAPS

PaneType ==
  [name : Name \union {None}, tui : TUI, line : Seq(Op), raw : Seq(Op), dialog : 0..MaxDialogs,
   cursor : Options, outside : BOOLEAN]
OpType ==
  [kind : Kinds \union {None}, pc : PCs, name : Name \union {None}, to : Name \union {None},
   want : Options, left : 0..1, step : {"up", "down"}, dialog : (Pane \X Nat) \union {<<>>}]

Ended == {"ok", "error"}

\* The control points of each kind of request.
Points(kind) ==
  CASE kind \in {"text", "rename"} -> {"lock", "ready", "type", "enter"} \union Ended
    [] kind = "autoRename" -> {"poll", "lock", "recheck", "type", "enter"} \union Ended
    [] kind = "key" -> {"lock", "ready", "enter"} \union Ended
    [] kind = "choice" -> {"lock", "ready", "press", "enter"} \union Ended
    [] kind = "rc" -> {"clear", "busy", "type", "enter"} \union Ended
    [] kind = "startup" -> {"look", "press", "enter"} \union Ended
    [] kind = "move" -> {"moveTo"} \union Ended
    [] OTHER -> {"idle"}
Stage(r) ==
  /\ r.pc \in Points(r.kind)
  /\ r.pc # "idle" => r.name \in Name
  /\ r.kind = "move" => r.to \in Name
OpRecord == {r \in OpType : Stage(r)}

Types ==
  /\ op \in [Op -> OpRecord]
  /\ pane \in [Pane -> PaneType]
  /\ lock \in [Name -> Op \union {None}]
  /\ lines \subseteq Seq(Op) /\ blind \subseteq Op
  /\ picks \subseteq [op : Op, picked : Options, same : BOOLEAN]

-----------------------------------------------------------------------------
(* The requests *)

LEMMA Nones == None \notin Op /\ None \notin Name /\ None \notin Kinds /\ MaxDialogs \in Nat
  BY PaneAssumption

LEMMA NewTyped == NewOp \in OpRecord
  <1>1. NewOp \in OpType
    BY DEF NewOp, OpType, PCs, Options
  <1>2. NewOp.kind = None /\ NewOp.pc = "idle"
    BY DEF NewOp
  <1> QED BY <1>1, <1>2, Nones DEF OpRecord, Stage, Points, Kinds, Locking

\* What a step does to the request it is a step of, whichever it is.
Advances(o) ==
  /\ op' \in [Op -> OpRecord]
  /\ \A q \in Op \ {o} : op'[q] = op[q]
  /\ op[o].pc # "idle" =>
       op'[o].kind = op[o].kind /\ op'[o].name = op[o].name /\ op'[o].to = op[o].to
  /\ op'[o].pc # "idle" /\ op[o].pc \notin Ended

LEMMA AdvancesTo ==
  ASSUME Types, NEW o \in Op, NEW r \in OpRecord, op' = [op EXCEPT ![o] = r],
         op[o].pc # "idle" => r.kind = op[o].kind /\ r.name = op[o].name /\ r.to = op[o].to,
         r.pc # "idle", op[o].pc \notin Ended
  PROVE  Advances(o)
  BY DEF Types, Advances

\* A step that changes the control point, the presses left and where they go.
LEMMA Moves ==
  ASSUME Types, NEW o \in Op, op[o].pc \notin {"idle"} \union Ended,
         NEW pc \in PCs \ {"idle"}, NEW left \in 0..1,
         pc \in Points(op[o].kind),
         op' = [op EXCEPT ![o] = [op[o] EXCEPT !.pc = pc, !.left = left]]
  PROVE  Advances(o) /\ op'[o].pc = pc /\ op'[o].left = left
  <1> DEFINE r == [op[o] EXCEPT !.pc = pc, !.left = left]
  <1>1. op[o] \in OpType /\ op[o].name \in Name /\ (op[o].kind = "move" => op[o].to \in Name)
    BY DEF Types, OpRecord, Stage
  <1>2. r \in OpType /\ r.kind = op[o].kind /\ r.name = op[o].name /\ r.to = op[o].to /\ r.pc = pc /\ r.left = left
    BY <1>1 DEF OpType
  <1>3. op' = [op EXCEPT ![o] = r]
    OBVIOUS
  <1> HIDE DEF r
  <1>4. r \in OpRecord
    BY <1>1, <1>2 DEF OpRecord, Stage
  <1> QED BY <1>2, <1>3, <1>4, AdvancesTo DEF Types

LEMMA Goes ==
  ASSUME Types, NEW o \in Op, op[o].pc \notin {"idle"} \union Ended,
         NEW pc \in PCs \ {"idle"}, Goto(o, pc),
         pc \in Points(op[o].kind)
  PROVE  /\ Advances(o) /\ op'[o].pc = pc
         /\ op'[o].want = op[o].want /\ op'[o].left = op[o].left
         /\ op'[o].step = op[o].step /\ op'[o].dialog = op[o].dialog
  <1> DEFINE r == [op[o] EXCEPT !.pc = pc]
  <1>1. op[o] \in OpType /\ op[o].name \in Name /\ (op[o].kind = "move" => op[o].to \in Name)
    BY DEF Types, OpRecord, Stage
  <1>2. /\ r \in OpType /\ r.kind = op[o].kind /\ r.name = op[o].name /\ r.to = op[o].to /\ r.pc = pc
        /\ r.want = op[o].want /\ r.left = op[o].left /\ r.step = op[o].step /\ r.dialog = op[o].dialog
    BY <1>1 DEF OpType
  <1>3. op' = [op EXCEPT ![o] = r]
    BY DEF Goto
  <1> HIDE DEF r
  <1>4. r \in OpRecord
    BY <1>1, <1>2 DEF OpRecord, Stage
  <1> QED BY <1>2, <1>3, <1>4, AdvancesTo DEF Types

\* Where a request is, and where it may go.
LEMMA At ==
  ASSUME Types, NEW o \in Op
  PROVE  /\ op[o] \in OpType /\ op[o].pc \in Points(op[o].kind)
         /\ op[o].kind \in Kinds \union {None} /\ (op[o].kind = None <=> op[o].pc = "idle")
         /\ (op[o].pc # "idle" => op[o].name \in Name) /\ (op[o].kind = "move" => op[o].to \in Name)
  <1>1. op[o] \in OpType /\ Stage(op[o])
    BY DEF Types, OpRecord
  <1>2. op[o].kind = None <=> op[o].pc = "idle"
    BY <1>1, Nones DEF OpType, Stage, Points, Kinds, Locking, Ended
  <1> QED BY <1>1, <1>2 DEF OpType, Stage

LEMMA Begins ==
  ASSUME Types, NEW o \in Op, NEW n \in Name,
         \/ \E kind \in Kinds : Start(o, kind, n)
         \/ \E p \in Pane : NewSession(o, p, n)
         \/ \E m \in Name : Move(o, n, m)
  PROVE  /\ Advances(o) /\ op[o].pc = "idle" /\ op'[o].pc \in {"lock", "poll", "clear", "look", "moveTo"}
         /\ op'[o].kind \in Kinds /\ op'[o].dialog = op[o].dialog /\ op'[o].want = op[o].want
         /\ op'[o].step = op[o].step
  <1>1. op[o] \in OpType
    BY At
  <1>2. CASE \E kind \in Kinds : Start(o, kind, n)
    <2>1. PICK kind \in Kinds : Start(o, kind, n)
      BY <1>2
    <2> DEFINE pc == CASE kind = "autoRename" -> "poll" [] kind = "rc" -> "clear" [] OTHER -> "lock"
               r == [op[o] EXCEPT !.kind = kind, !.name = n, !.pc = pc]
    <2>2. op' = [op EXCEPT ![o] = r] /\ op[o].pc = "idle" /\ kind \notin {"move", "startup"}
      BY <2>1 DEF Start
    <2>3. pc \in Points(kind) /\ pc \in {"lock", "poll", "clear"}
      BY <2>2 DEF Points, Kinds, Locking
    <2>4. pc \in PCs
      BY <2>3 DEF PCs
    <2> HIDE DEF pc
    <2>5. r \in OpType /\ r.kind = kind /\ r.name = n /\ r.pc = pc /\ r.dialog = op[o].dialog /\ r.want = op[o].want
          /\ r.step = op[o].step
      BY <1>1, <2>4 DEF OpType
    <2> HIDE DEF r
    <2>6. r \in OpRecord
      BY <2>2, <2>3, <2>5 DEF OpRecord, Stage
    <2>7. r.pc # "idle" /\ op[o].pc \notin Ended
      BY <2>2, <2>3, <2>5 DEF Ended
    <2>8. op'[o] = r
      BY <2>2 DEF Types
    <2> QED BY <2>2, <2>3, <2>5, <2>6, <2>7, <2>8, AdvancesTo
  <1>3. CASE \E p \in Pane : NewSession(o, p, n)
    <2> DEFINE r == [op[o] EXCEPT !.kind = "startup", !.name = n, !.pc = "look"]
    <2>1. op' = [op EXCEPT ![o] = r] /\ op[o].pc = "idle"
      BY <1>3 DEF NewSession
    <2>2. r \in OpType /\ r.kind = "startup" /\ r.name = n /\ r.pc = "look" /\ r.dialog = op[o].dialog
          /\ r.want = op[o].want /\ r.step = op[o].step
      BY <1>1 DEF OpType, Kinds, PCs
    <2> HIDE DEF r
    <2>3. r \in OpRecord
      BY <2>2 DEF OpRecord, Stage, Points
    <2>4. op'[o] = r /\ op[o].pc \notin Ended
      BY <2>1 DEF Types, Ended
    <2> QED BY <2>1, <2>2, <2>3, <2>4, AdvancesTo DEF Kinds
  <1>4. CASE \E m \in Name : Move(o, n, m)
    <2>1. PICK m \in Name : Move(o, n, m)
      BY <1>4
    <2> DEFINE r == [op[o] EXCEPT !.kind = "move", !.name = n, !.to = m, !.pc = "moveTo"]
    <2>2. op' = [op EXCEPT ![o] = r] /\ op[o].pc = "idle"
      BY <2>1 DEF Move
    <2>3. r \in OpType /\ r.kind = "move" /\ r.name = n /\ r.to = m /\ r.pc = "moveTo" /\ r.dialog = op[o].dialog
          /\ r.want = op[o].want /\ r.step = op[o].step
      BY <1>1 DEF OpType, Kinds, PCs
    <2> HIDE DEF r
    <2>4. r \in OpRecord
      BY <2>3 DEF OpRecord, Stage, Points
    <2>5. op'[o] = r /\ op[o].pc \notin Ended
      BY <2>2 DEF Types, Ended
    <2> QED BY <2>2, <2>3, <2>4, <2>5, AdvancesTo DEF Kinds
  <1> QED BY <1>2, <1>3, <1>4

\* A dialog is aimed at: by a choice, or by a session that starts.
LEMMA AimsAt ==
  ASSUME Types, NEW o \in Op, op[o].pc \notin {"idle"} \union Ended,
         "press" \in Points(op[o].kind), NEW want \in Options, NEW left \in 0..1,
         NEW step \in {"up", "down"}, NEW p \in Pane,
         op' = [op EXCEPT ![o] = [op[o] EXCEPT !.pc = "press", !.want = want, !.dialog = Dialog(p),
                                               !.left = left, !.step = step]]
  PROVE  /\ Advances(o) /\ op'[o].pc = "press" /\ op'[o].want = want /\ op'[o].left = left
         /\ op'[o].step = step /\ op'[o].dialog = Dialog(p)
  <1> DEFINE r == [op[o] EXCEPT !.pc = "press", !.want = want, !.dialog = Dialog(p),
                                !.left = left, !.step = step]
  <1>1. op[o] \in OpType /\ op[o].name \in Name /\ (op[o].kind = "move" => op[o].to \in Name)
    BY At
  <1>2. Dialog(p) \in Pane \X Nat
    BY Nones DEF Dialog, Types, PaneType
  <1>3. /\ r \in OpType /\ r.kind = op[o].kind /\ r.name = op[o].name /\ r.to = op[o].to /\ r.pc = "press"
        /\ r.want = want /\ r.left = left /\ r.step = step /\ r.dialog = Dialog(p)
    BY <1>1, <1>2 DEF OpType, PCs
  <1>4. op' = [op EXCEPT ![o] = r]
    OBVIOUS
  <1> HIDE DEF r
  <1>5. r \in OpRecord
    BY <1>1, <1>3 DEF OpRecord, Stage
  <1> QED BY <1>3, <1>4, <1>5, AdvancesTo DEF Types

-----------------------------------------------------------------------------
(* The send lock *)

Holding == {"ready", "type", "enter", "press", "recheck"}
Locked(r) == r.kind \in Locking /\ r.pc \in Holding

\* A request holds the lock of its name from Lock to its last keystroke.
LockInv == \A n \in Name, o \in Op : lock[n] = o <=> Locked(op[o]) /\ op[o].name = n

\* What a step does to the lock: it leaves it alone, gives it up or takes it.
LockStep(o) ==
  \/ lock' = lock /\ (Locked(op'[o]) <=> Locked(op[o]))
  \/ Release(o) /\ ~Locked(op'[o])
  \/ /\ lock' = [lock EXCEPT ![op[o].name] = o] /\ ~Held(op[o].name) /\ op[o].name \in Name
     /\ Locked(op'[o]) /\ ~Locked(op[o]) /\ op[o].pc # "idle"

LEMMA Finishes ==
  ASSUME Types, NEW o \in Op, op[o].pc \notin {"idle"} \union Ended,
         NEW pc \in Ended \union {"poll"}, Finish(o, pc), pc \in Points(op[o].kind)
  PROVE  /\ Advances(o) /\ LockStep(o) /\ op'[o].pc = pc
         /\ op'[o].want = op[o].want /\ op'[o].left = op[o].left
         /\ op'[o].step = op[o].step /\ op'[o].dialog = op[o].dialog
  <1>1. pc \in PCs \ {"idle"} /\ pc \notin Holding /\ Goto(o, pc) /\ Release(o)
    BY DEF Ended, PCs, Holding, Finish
  <1> QED BY <1>1, Goes DEF LockStep, Locked

LEMMA GoesOn ==
  ASSUME Types, NEW o \in Op, op[o].pc \in Holding, NEW pc \in Holding, UNCHANGED lock,
         Goto(o, pc), pc \in Points(op[o].kind)
  PROVE  /\ Advances(o) /\ LockStep(o) /\ op'[o].pc = pc
         /\ op'[o].want = op[o].want /\ op'[o].left = op[o].left
         /\ op'[o].step = op[o].step /\ op'[o].dialog = op[o].dialog
  <1>1. pc \in PCs \ {"idle"} /\ op[o].pc \notin {"idle"} \union Ended
    BY DEF Ended, PCs, Holding
  <1>2. Advances(o) /\ op'[o].pc = pc
    BY <1>1, Goes
  <1>3. op'[o].kind = op[o].kind
    BY <1>1, <1>2 DEF Advances
  <1> QED BY <1>1, <1>2, <1>3, Goes DEF LockStep, Locked

\* The kinds that come to a control point, and where they may go from there.
LEMMA Whereabouts ==
  ASSUME Types, NEW o \in Op
  PROVE  /\ op[o].pc = "lock" => op[o].kind \in Locking
         /\ op[o].pc = "ready" => op[o].kind \in {"text", "rename", "key", "choice"}
         /\ op[o].pc = "type" => op[o].kind \in {"text", "rename", "autoRename", "rc"}
         /\ op[o].pc = "enter" => op[o].kind \in Kinds \ {"move"}
         /\ op[o].pc = "press" => op[o].kind \in {"choice", "startup"}
         /\ op[o].pc \in {"poll", "recheck"} => op[o].kind = "autoRename"
         /\ op[o].pc \in {"clear", "busy"} => op[o].kind = "rc"
         /\ op[o].pc = "look" => op[o].kind = "startup"
         /\ op[o].pc = "moveTo" => op[o].kind = "move"
         /\ op[o].pc # "idle" => Ended \subseteq Points(op[o].kind)
  BY At DEF Points, Ended, Locking, Kinds

LEMMA LockMoves ==
  ASSUME Types, NEW o \in Op, Lock(o)
  PROVE  Advances(o) /\ LockStep(o)
  <1>1. op[o].pc = "lock" /\ op[o].kind \in Locking /\ op[o].name \in Name /\ ~Held(op[o].name)
    BY At, Whereabouts DEF Lock
  <1> DEFINE pc == IF op[o].kind = "autoRename" THEN "recheck" ELSE "ready"
  <1>2. pc \in Points(op[o].kind) /\ pc \in Holding /\ pc \in PCs \ {"idle"} /\ op[o].pc \notin {"idle"} \union Ended
    BY <1>1 DEF Points, Holding, PCs, Locking, Ended
  <1>3. Goto(o, pc) /\ lock' = [lock EXCEPT ![op[o].name] = o]
    BY DEF Lock
  <1> HIDE DEF pc
  <1>4. Advances(o) /\ op'[o].pc = pc /\ op'[o].kind = op[o].kind
    BY <1>2, <1>3, Goes DEF Advances
  <1> QED BY <1>1, <1>2, <1>3, <1>4 DEF LockStep, Locked, Holding

LEMMA TypingMoves ==
  ASSUME Types, NEW o \in Op, TextReady(o) \/ Type(o) \/ Enter(o)
  PROVE  Advances(o) /\ LockStep(o)
  <1>1. CASE TextReady(o)
    <2>1. op[o].pc = "ready" /\ op[o].kind \in {"text", "rename"}
      BY <1>1 DEF TextReady
    <2>2. {"error", "type"} \subseteq Points(op[o].kind) /\ op[o].pc \notin {"idle"} \union Ended
          /\ {op[o].pc, "type"} \subseteq Holding /\ "error" \in Ended
      BY <2>1 DEF Points, Ended, Holding
    <2>3. Finish(o, "error") \/ (Goto(o, "type") /\ UNCHANGED lock)
      BY <1>1 DEF TextReady
    <2> QED BY <2>2, <2>3, Finishes, GoesOn
  <1>2. CASE Type(o)
    <2>1. op[o].pc = "type" /\ op[o].kind \in {"text", "rename", "autoRename", "rc"}
      BY <1>2, Whereabouts DEF Type
    <2>2. {"error", "enter"} \subseteq Points(op[o].kind) /\ op[o].pc \notin {"idle"} \union Ended
          /\ {op[o].pc, "enter"} \subseteq Holding /\ "error" \in Ended
      BY <2>1 DEF Points, Ended, Holding
    <2>3. Finish(o, "error") \/ (Goto(o, "enter") /\ UNCHANGED lock)
      BY <1>2 DEF Type
    <2> QED BY <2>2, <2>3, Finishes, GoesOn
  <1>3. CASE Enter(o)
    <2>1. op[o].pc = "enter" /\ op[o].pc \notin {"idle"} \union Ended /\ op[o].pc \in Holding
          /\ Ended \subseteq Points(op[o].kind)
      BY <1>3, Whereabouts DEF Enter, Ended, Holding
    <2>2. CASE Finish(o, "error") \/ Finish(o, "ok")
      BY <2>1, <2>2, Finishes DEF Ended
    <2>3. CASE op[o].kind = "rc" /\ op' = [op EXCEPT ![o].pc = "type", ![o].left = 0] /\ UNCHANGED lock
      <3>1. "type" \in Points(op[o].kind) /\ "type" \in PCs \ {"idle"} /\ 0 \in 0..1 /\ op[o].kind \notin Locking
        BY <2>3 DEF Points, PCs, Locking
      <3>2. op' = [op EXCEPT ![o] = [op[o] EXCEPT !.pc = "type", !.left = 0]]
        BY <2>3
      <3>3. Advances(o)
        BY <2>1, <3>1, <3>2, Moves
      <3> QED BY <2>1, <2>3, <3>1, <3>3 DEF Advances, LockStep, Locked
    <2>4. CASE op[o].kind = "startup" /\ Goto(o, "look") /\ UNCHANGED lock
      <3>1. "look" \in Points(op[o].kind) /\ "look" \in PCs \ {"idle"} /\ op[o].kind \notin Locking
        BY <2>4 DEF Points, PCs, Locking
      <3>2. Advances(o)
        BY <2>1, <2>4, <3>1, Goes
      <3> QED BY <2>1, <2>4, <3>1, <3>2 DEF Advances, LockStep, Locked
    <2> QED BY <1>3, <2>2, <2>3, <2>4 DEF Enter
  <1> QED BY <1>1, <1>2, <1>3

LEMMA KeyMoves ==
  ASSUME Types, NEW o \in Op, SendKey(o) \/ ReadChoice(o) \/ Press(o)
  PROVE  Advances(o) /\ LockStep(o)
  <1>0. op[o].pc \in {"ready", "press"} /\ op[o].pc \notin {"idle"} \union Ended /\ op[o].pc \in Holding
        /\ Ended \subseteq Points(op[o].kind) /\ Ended = {"ok", "error"}
    BY Whereabouts DEF SendKey, ReadChoice, Press, Ended, Holding
  <1>1. CASE SendKey(o)
    <2>1. "enter" \in Points(op[o].kind) /\ "enter" \in Holding
      BY <1>1 DEF SendKey, Points, Holding
    <2>2. Finish(o, "error") \/ Finish(o, "ok") \/ (Goto(o, "enter") /\ UNCHANGED lock)
      BY <1>1 DEF SendKey
    <2> QED BY <1>0, <2>1, <2>2, Finishes, GoesOn
  <1>2. CASE ReadChoice(o)
    <2>1. CASE Finish(o, "error")
      BY <1>0, <2>1, Finishes
    <2>2. CASE /\ UNCHANGED lock
               /\ \E p \in Targets(op[o].name), want \in Options :
                    op' = [op EXCEPT ![o] =
                      [@ EXCEPT !.pc = "press", !.want = want, !.dialog = Dialog(p),
                                !.left = IF want = pane[p].cursor THEN 0 ELSE 1,
                                !.step = IF want < pane[p].cursor THEN "up" ELSE "down"]]
      <3>1. PICK p \in Pane, want \in Options :
              op' = [op EXCEPT ![o] =
                [@ EXCEPT !.pc = "press", !.want = want, !.dialog = Dialog(p),
                          !.left = IF want = pane[p].cursor THEN 0 ELSE 1,
                          !.step = IF want < pane[p].cursor THEN "up" ELSE "down"]]
        BY <2>2 DEF Targets
      <3>2. "press" \in Points(op[o].kind)
        BY <1>2 DEF ReadChoice, Points
      <3>3. Advances(o) /\ op'[o].pc = "press"
        <4>1. (IF want = pane[p].cursor THEN 0 ELSE 1) \in 0..1
              /\ (IF want < pane[p].cursor THEN "up" ELSE "down") \in {"up", "down"}
          OBVIOUS
        <4> QED BY <1>0, <3>1, <3>2, <4>1, AimsAt
      <3> QED BY <1>0, <2>2, <3>3 DEF Advances, LockStep, Locked, Holding
    <2> QED BY <1>2, <2>1, <2>2 DEF ReadChoice
  <1>3. CASE Press(o)
    <2>1. op[o].pc = "press" /\ "enter" \in Points(op[o].kind) /\ "press" \in Points(op[o].kind)
          /\ "enter" \in Holding
      BY <1>3, Whereabouts DEF Press, Points, Holding
    <2>2. CASE Finish(o, "error") \/ (Goto(o, "enter") /\ UNCHANGED lock)
      BY <1>0, <2>1, <2>2, Finishes, GoesOn
    <2>3. CASE op[o].left > 0 /\ op' = [op EXCEPT ![o].left = @ - 1] /\ UNCHANGED lock
      <3>1. op[o].left - 1 \in 0..1 /\ "press" \in PCs \ {"idle"} /\ op[o] \in OpType
        BY <2>3, At DEF OpType, PCs
      <3>2. op' = [op EXCEPT ![o] = [op[o] EXCEPT !.pc = "press", !.left = op[o].left - 1]]
        BY <2>1, <2>3, <3>1 DEF OpType
      <3>3. Advances(o) /\ op'[o].pc = "press"
        BY <1>0, <2>1, <3>1, <3>2, Moves
      <3> QED BY <1>0, <2>1, <2>3, <3>3 DEF Advances, LockStep, Locked
    <2> QED BY <1>3, <2>2, <2>3 DEF Press
  <1> QED BY <1>1, <1>2, <1>3

LEMMA OtherMoves ==
  ASSUME Types, NEW o \in Op,
         Poll(o) \/ Recheck(o) \/ ClearInput(o) \/ NotBusy(o) \/ Look(o) \/ MoveTo(o)
  PROVE  Advances(o) /\ LockStep(o)
  <1>0. op[o].pc \in {"poll", "recheck", "clear", "busy", "look", "moveTo"}
        /\ op[o].pc \notin {"idle"} \union Ended
        /\ Ended \subseteq Points(op[o].kind) /\ Ended = {"ok", "error"} /\ Ended \subseteq PCs \ {"idle"}
    BY Whereabouts DEF Poll, Recheck, ClearInput, NotBusy, Look, MoveTo, Ended, PCs
  <1>1. CASE Poll(o)
    <2>1. {"lock", "error"} \subseteq Points(op[o].kind) /\ {"lock", "error"} \subseteq PCs \ {"idle"}
      BY <1>1, Whereabouts DEF Poll, Points, PCs, Ended
    <2>2. (Goto(o, "lock") \/ Goto(o, "error")) /\ UNCHANGED lock
      BY <1>1 DEF Poll
    <2>3. Advances(o) /\ op'[o].pc \in {"lock", "error"}
      BY <1>0, <2>1, <2>2, Goes
    <2> QED BY <1>1, <2>2, <2>3 DEF LockStep, Locked, Holding, Poll
  <1>2. CASE Recheck(o)
    <2>1. {"type", "poll"} \subseteq Points(op[o].kind) /\ {"type", op[o].pc} \subseteq Holding
      BY <1>2, Whereabouts DEF Recheck, Points, Holding
    <2>2. Finish(o, "poll") \/ (Goto(o, "type") /\ UNCHANGED lock)
      BY <1>2 DEF Recheck
    <2> QED BY <1>0, <2>1, <2>2, Finishes, GoesOn
  <1>3. CASE ClearInput(o) \/ NotBusy(o) \/ Look(o) \/ MoveTo(o)
    <2>1. op[o].kind \in {"rc", "startup", "move"} /\ op[o].kind \notin Locking /\ UNCHANGED lock
      BY <1>3, Whereabouts DEF ClearInput, NotBusy, Look, MoveTo, Locking
    <2>2. Advances(o)
      <3>1. CASE \E pc \in Ended : Goto(o, pc)
        BY <1>0, <3>1, Goes
      <3>2. CASE ClearInput(o)
        <4>1. {"busy", "error"} \subseteq Points(op[o].kind) /\ {"busy", "error"} \subseteq PCs \ {"idle"}
          BY <3>2, Whereabouts DEF ClearInput, Points, PCs, Ended
        <4>2. Goto(o, "busy") \/ Goto(o, "error")
          BY <3>2 DEF ClearInput
        <4> QED BY <1>0, <4>1, <4>2, Goes
      <3>3. CASE NotBusy(o)
        <4>1. "type" \in Points(op[o].kind) /\ "type" \in PCs \ {"idle"}
          BY <3>3, Whereabouts DEF NotBusy, Points, PCs
        <4>2. CASE \E again \in {0, 1} : op' = [op EXCEPT ![o].pc = "type", ![o].left = again]
          <5>1. PICK again \in {0, 1} : op' = [op EXCEPT ![o].pc = "type", ![o].left = again]
            BY <4>2
          <5>2. op' = [op EXCEPT ![o] = [op[o] EXCEPT !.pc = "type", !.left = again]]
            BY <5>1
          <5>3. again \in 0..1
            BY <5>1
          <5> QED BY <1>0, <4>1, <5>2, <5>3, Moves
        <4> QED BY <1>0, <3>1, <3>3, <4>2 DEF NotBusy
      <3>4. CASE Look(o)
        <4>1. "press" \in Points(op[o].kind)
          BY <3>4, Whereabouts DEF Look, Points
        <4>2. CASE \E p \in Targets(op[o].name) :
                     op' = [op EXCEPT ![o] =
                       [@ EXCEPT !.pc = "press", !.want = Trust, !.left = 1, !.dialog = Dialog(p)]]
          <5>1. PICK p \in Pane :
                  op' = [op EXCEPT ![o] =
                    [@ EXCEPT !.pc = "press", !.want = Trust, !.left = 1, !.dialog = Dialog(p)]]
            BY <4>2 DEF Targets
          <5>2. op[o].step \in {"up", "down"} /\ op[o] \in OpType
            BY At DEF OpType
          <5>3. op' = [op EXCEPT ![o] = [op[o] EXCEPT !.pc = "press", !.want = Trust, !.dialog = Dialog(p),
                                                      !.left = 1, !.step = op[o].step]]
            BY <5>1, <5>2 DEF OpType
          <5>4. Trust \in Options /\ 1 \in 0..1
            BY DEF Trust, Options
          <5> QED BY <1>0, <4>1, <5>2, <5>3, <5>4, AimsAt
        <4> QED BY <1>0, <3>1, <3>4, <4>2 DEF Look
      <3>5. CASE MoveTo(o)
        BY <1>0, <3>1, <3>5 DEF MoveTo
      <3> QED BY <1>3, <3>2, <3>3, <3>4, <3>5
    <2> QED BY <1>0, <2>1, <2>2 DEF Advances, LockStep, Locked
  <1> QED BY <1>1, <1>2, <1>3

LEMMA StepMoves ==
  ASSUME Types, NEW o \in Op, Step(o)
  PROVE  Advances(o) /\ LockStep(o)
  BY LockMoves, TypingMoves, KeyMoves, OtherMoves DEF Step

LEMMA BeginMoves ==
  ASSUME Types, NEW o \in Op, NEW n \in Name,
         \/ \E kind \in Kinds : Start(o, kind, n)
         \/ \E p \in Pane : NewSession(o, p, n)
         \/ \E m \in Name : Move(o, n, m)
  PROVE  Advances(o) /\ LockStep(o)
  <1>1. Advances(o) /\ op[o].pc = "idle" /\ op'[o].pc \in {"lock", "poll", "clear", "look", "moveTo"}
    BY Begins
  <1>2. UNCHANGED lock
    BY DEF Start, NewSession, Move
  <1> QED BY <1>1, <1>2 DEF LockStep, Locked, Holding

LEMMA LockKept ==
  ASSUME Types, LockInv, NEW o \in Op, Advances(o), LockStep(o)
  PROVE  LockInv' /\ lock' \in [Name -> Op \union {None}]
  <1>1. \A q \in Op \ {o} : op'[q] = op[q]
    BY DEF Advances
  <1>2. op[o].pc # "idle" => op'[o].kind = op[o].kind /\ op'[o].name = op[o].name
    BY DEF Advances
  <1>3. op[o].pc = "idle" => ~Locked(op[o])
    BY DEF Locked, Holding
  <1>4. CASE lock' = lock /\ (Locked(op'[o]) <=> Locked(op[o]))
    BY <1>1, <1>2, <1>3, <1>4 DEF LockInv, Types
  <1>5. CASE Release(o) /\ ~Locked(op'[o])
    BY <1>1, <1>5, Nones DEF LockInv, Types, Release
  <1>6. CASE /\ lock' = [lock EXCEPT ![op[o].name] = o] /\ ~Held(op[o].name) /\ op[o].name \in Name
             /\ Locked(op'[o]) /\ ~Locked(op[o]) /\ op[o].pc # "idle"
    <2>1. \A n \in Name : lock'[n] = IF n = op[o].name THEN o ELSE lock[n]
      BY <1>6 DEF Types
    <2>2. \A q \in Op : lock[op[o].name] # q
      BY <1>6, Nones DEF Held
    <2> QED BY <1>1, <1>2, <1>6, <2>1, <2>2 DEF LockInv, Types
  <1> QED BY <1>4, <1>5, <1>6 DEF LockStep

-----------------------------------------------------------------------------
(* What a step does to a pane *)

\* Two panes never have one name.
Names ==
  /\ \A p \in Pane : pane[p].tui = "none" <=> pane[p].name = None
  /\ \A p, q \in Pane : pane[p].name = pane[q].name /\ pane[p].name # None => p = q

\* What was typed stays where it is.
Runs(p) ==
  /\ pane'[p].name = pane[p].name /\ pane'[p].line = pane[p].line /\ pane'[p].raw = pane[p].raw
  /\ lines' = lines
  /\ \/ pane'[p].tui = pane[p].tui /\ pane'[p].outside = pane[p].outside
     \/ pane[p].tui = "working" /\ pane'[p].tui = "idle" /\ pane'[p].outside = pane[p].outside
     \/ pane[p].tui = "idle" /\ pane'[p].tui = "working" /\ pane'[p].outside
     \/ pane[p].tui = "boot" /\ pane'[p].tui \in {"trust", "dialog"} /\ pane'[p].outside = pane[p].outside
     \/ /\ pane[p].tui = "working" /\ pane'[p].tui = "dialog" /\ pane'[p].outside = pane[p].outside
        /\ ToSet(pane[p].line) \subseteq blind'

\* A request types, onto a readline or into a TUI that is not reading ...
TakesText(p, o) ==
  /\ op[o].pc = "type" /\ op'[o].pc = "enter" /\ pane[p].name = op[o].name
  /\ pane'[p].name = pane[p].name /\ pane'[p].tui = pane[p].tui /\ pane'[p].outside = pane[p].outside
  /\ lines' = lines
  /\ \/ Reading(p) /\ pane'[p].line = Append(pane[p].line, o) /\ pane'[p].raw = pane[p].raw
     \/ /\ ~Reading(p) /\ pane'[p].line = pane[p].line /\ pane'[p].raw = Append(pane[p].raw, o)
        /\ o \in blind'

\* ... presses Enter on a readline that holds text ...
Submits(p, o) ==
  /\ op[o].pc = "enter" /\ pane[p].name = op[o].name /\ Reading(p) /\ pane[p].line # <<>>
  /\ lines' = lines \union {pane[p].line}
  /\ pane'[p].name = pane[p].name /\ pane'[p].line = <<>> /\ pane'[p].raw = pane[p].raw
  /\ pane'[p].tui = "working" /\ pane'[p].outside = (op[o].kind \notin Locking)

\* ... or clears the readline: C-u, C-c.
Wipes(p, o) ==
  /\ pane[p].name = op[o].name
  /\ op[o].kind = "rc" \/ (op[o].kind = "key" /\ op[o].pc = "ready")
  /\ pane'[p].name = pane[p].name /\ pane'[p].line = <<>> /\ pane'[p].raw = pane[p].raw
  /\ pane'[p].tui = pane[p].tui /\ pane'[p].outside = pane[p].outside /\ lines' = lines

\* A dialog closes, or the TUI comes up.
Resumes(p) ==
  /\ ~Reading(p) /\ pane[p].tui # "none"
  /\ pane'[p].name = pane[p].name /\ pane'[p].line = pane[p].line \o pane[p].raw /\ pane'[p].raw = <<>>
  /\ pane'[p].tui \in {"idle", "working"} /\ (pane'[p].tui = "working" => pane[p].tui = "dialog")
  /\ pane'[p].outside = pane[p].outside /\ lines' = lines

\* The session ends, a new one starts, one is renamed.
Shuts(p) ==
  /\ ~Reading(p) /\ pane'[p].name = None /\ pane'[p].tui = "none"
  /\ pane'[p].line = <<>> /\ pane'[p].raw = <<>> /\ lines' = lines
Opens(p) ==
  /\ pane[p].tui = "none" /\ pane'[p].tui = "boot" /\ pane'[p].outside /\ lines' = lines
  /\ pane'[p].name \in Name /\ \A q \in Pane : pane[q].name # pane'[p].name
  /\ pane'[p].line = pane[p].line /\ pane'[p].raw = pane[p].raw
Renames(p, o) ==
  /\ op[o].kind = "move" /\ op[o].pc = "moveTo" /\ op'[o].pc = "ok"
  /\ pane[p].name = op[o].name /\ pane'[p].name = op[o].to /\ op[o].to \in Name
  /\ \A q \in Pane : pane[q].name # op[o].to
  /\ pane'[p].line = pane[p].line /\ pane'[p].raw = pane[p].raw /\ pane[p].tui # "none"
  /\ pane'[p].tui = pane[p].tui /\ pane'[p].outside = pane[p].outside /\ lines' = lines

\* The cursor of its dialog: an arrow, or a new dialog.
Presses(p, o) ==
  /\ pane[p].name = op[o].name
  /\ \/ op[o].kind = "key" /\ op[o].pc = "ready"
     \/ /\ op[o].pc = "press" /\ op'[o].pc = "press" /\ op[o].left = 1 /\ op'[o].left = 0
        /\ pane'[p].cursor \in Steps(p, op[o].step)
Dialogs(p) ==
  \/ pane'[p].dialog = pane[p].dialog + 1 /\ pane'[p].cursor = 0
  \/ /\ pane'[p].dialog = pane[p].dialog /\ (Blocked(p)' => Blocked(p))
     /\ pane'[p].cursor = pane[p].cursor \/ \E o \in Op : Presses(p, o)

Evolves(p) ==
  /\ pane' \in [Pane -> PaneType] /\ \A q \in Pane \ {p} : pane'[q] = pane[q]
  /\ Dialogs(p)
  /\ \/ Runs(p) \/ Resumes(p) \/ Shuts(p) \/ Opens(p)
     \/ \E o \in Op : TakesText(p, o) \/ Submits(p, o) \/ Wipes(p, o) \/ Renames(p, o)

LEMMA PaneAs ==
  ASSUME Types, NEW p \in Pane, NEW r \in PaneType, pane' = [pane EXCEPT ![p] = r]
  PROVE  pane' \in [Pane -> PaneType] /\ pane'[p] = r /\ \A q \in Pane \ {p} : pane'[q] = pane[q]
  BY DEF Types

\* The dialogs of a pane whose keys change nothing about them.
LEMMA DialogKept ==
  ASSUME NEW p \in Pane, pane'[p].dialog = pane[p].dialog, pane'[p].cursor = pane[p].cursor,
         pane'[p].tui = pane[p].tui \/ pane'[p].tui \notin {"trust", "dialog"}
  PROVE  Dialogs(p)
  BY DEF Dialogs, Blocked

LEMMA EmptySeq == <<>> \in Seq(Op)
  OBVIOUS

LEMMA ResumedEvolves ==
  ASSUME Types, NEW p \in Pane, ~Reading(p), pane[p].tui # "none", UNCHANGED lines,
         NEW tui \in {"idle", "working"}, tui = "working" => pane[p].tui = "dialog",
         pane' = [pane EXCEPT ![p] = Resumed(p, tui)]
  PROVE  Evolves(p)
  <1> DEFINE r == Resumed(p, tui)
  <1>1. pane[p] \in PaneType
    BY DEF Types
  <1>2. pane[p].line \o pane[p].raw \in Seq(Op)
    BY <1>1 DEF PaneType
  <1>3. /\ r.name = pane[p].name /\ r.line = pane[p].line \o pane[p].raw /\ r.raw = <<>>
        /\ r.tui = tui /\ r.outside = pane[p].outside /\ r.dialog = pane[p].dialog /\ r.cursor = pane[p].cursor
    BY <1>1 DEF PaneType, Resumed
  <1>4. r \in PaneType
    BY <1>1, <1>2, EmptySeq DEF PaneType, Resumed, TUI
  <1> HIDE DEF r
  <1>5. pane' \in [Pane -> PaneType] /\ pane'[p] = r /\ \A q \in Pane \ {p} : pane'[q] = pane[q]
    BY <1>4, PaneAs DEF r
  <1>6. Dialogs(p)
    BY <1>3, <1>5, DialogKept
  <1> QED BY <1>3, <1>5, <1>6 DEF Evolves, Resumes

LEMMA ShutEvolves ==
  ASSUME Types, NEW p \in Pane, ~Reading(p), UNCHANGED lines, pane' = [pane EXCEPT ![p] = Closed(p)]
  PROVE  Evolves(p)
  <1> DEFINE r == Closed(p)
  <1>1. pane[p] \in PaneType
    BY DEF Types
  <1>2. /\ r.name = None /\ r.line = <<>> /\ r.raw = <<>> /\ r.tui = "none"
        /\ r.dialog = pane[p].dialog /\ r.cursor = pane[p].cursor
    BY <1>1 DEF PaneType, Closed
  <1>3. r \in PaneType
    BY <1>1, EmptySeq DEF PaneType, Closed, TUI
  <1> HIDE DEF r
  <1>4. pane' \in [Pane -> PaneType] /\ pane'[p] = r /\ \A q \in Pane \ {p} : pane'[q] = pane[q]
    BY <1>3, PaneAs DEF r
  <1>5. Dialogs(p)
    BY <1>2, <1>4, DialogKept
  <1> QED BY <1>2, <1>4, <1>5 DEF Evolves, Shuts

\* Either nothing changes, or one pane does.
Still == pane' = pane /\ lines' = lines
PaneStep == Still \/ \E p \in Pane : Evolves(p)

LEMMA TypeEvolves ==
  ASSUME Types, NEW o \in Op, Type(o)
  PROVE  PaneStep /\ blind \subseteq blind' /\ blind' \subseteq blind \union {o}
  <1>1. CASE SessionAlive(op[o].name)
    <2>1. PICK p \in Pane : p \in Targets(op[o].name) /\ TypeText(p, o) /\ Goto(o, "enter") /\ op[o].pc = "type"
      BY <1>1 DEF Type, Targets
    <2>2. pane[p] \in PaneType /\ pane[p].name = op[o].name /\ op'[o].pc = "enter" /\ UNCHANGED lines
      BY <2>1 DEF Types, Targets, Goto, OpRecord, OpType, Type
    <2>3. CASE Reading(p)
      <3> DEFINE r == [pane[p] EXCEPT !.line = Append(pane[p].line, o)]
      <3>0. r \in PaneType
        <4>1. Append(pane[p].line, o) \in Seq(Op)
          BY <2>2 DEF PaneType
        <4> QED BY <2>2, <4>1 DEF PaneType
      <3>1. /\ r.name = pane[p].name /\ r.line = Append(pane[p].line, o) /\ r.raw = pane[p].raw
            /\ r.tui = pane[p].tui /\ r.outside = pane[p].outside /\ r.dialog = pane[p].dialog
            /\ r.cursor = pane[p].cursor
        BY <2>2 DEF PaneType
      <3>2. pane' = [pane EXCEPT ![p] = r] /\ blind' = blind
        BY <2>1, <2>3 DEF TypeText
      <3> HIDE DEF r
      <3>3. pane' \in [Pane -> PaneType] /\ pane'[p] = r /\ \A q \in Pane \ {p} : pane'[q] = pane[q]
        BY <3>0, <3>2, PaneAs
      <3>4. Dialogs(p)
        BY <3>1, <3>3, DialogKept
      <3>5. TakesText(p, o)
        BY <2>1, <2>2, <2>3, <3>1, <3>3 DEF TakesText
      <3> QED BY <3>2, <3>3, <3>4, <3>5 DEF Evolves, PaneStep
    <2>4. CASE ~Reading(p)
      <3> DEFINE r == [pane[p] EXCEPT !.raw = Append(pane[p].raw, o)]
      <3>0. r \in PaneType
        <4>1. Append(pane[p].raw, o) \in Seq(Op)
          BY <2>2 DEF PaneType
        <4> QED BY <2>2, <4>1 DEF PaneType
      <3>1. /\ r.name = pane[p].name /\ r.raw = Append(pane[p].raw, o) /\ r.line = pane[p].line
            /\ r.tui = pane[p].tui /\ r.outside = pane[p].outside /\ r.dialog = pane[p].dialog
            /\ r.cursor = pane[p].cursor
        BY <2>2 DEF PaneType
      <3>2. pane' = [pane EXCEPT ![p] = r] /\ blind' = blind \union {o}
        BY <2>1, <2>4 DEF TypeText
      <3> HIDE DEF r
      <3>3. pane' \in [Pane -> PaneType] /\ pane'[p] = r /\ \A q \in Pane \ {p} : pane'[q] = pane[q]
        BY <3>0, <3>2, PaneAs
      <3>4. Dialogs(p)
        BY <3>1, <3>3, DialogKept
      <3>5. TakesText(p, o)
        BY <2>1, <2>2, <2>4, <3>1, <3>2, <3>3 DEF TakesText
      <3> QED BY <3>2, <3>3, <3>4, <3>5 DEF Evolves, PaneStep
    <2> QED BY <2>3, <2>4
  <1>2. CASE ~SessionAlive(op[o].name)
    BY <1>2 DEF Type, PaneStep, Still
  <1> QED BY <1>1, <1>2

LEMMA EnterEvolves ==
  ASSUME Types, NEW o \in Op, Enter(o)
  PROVE  PaneStep
  <1>1. CASE SessionAlive(op[o].name)
    <2>1. PICK p \in Pane : p \in Targets(op[o].name) /\ PressEnter(p, o)
      BY <1>1 DEF Enter, Targets
    <2>2. pane[p] \in PaneType /\ pane[p].name = op[o].name /\ op[o].pc = "enter" /\ pane[p].tui # "none"
      BY <2>1 DEF Types, Targets, Enter
    <2>3. CASE /\ Reading(p) /\ pane[p].line # <<>> /\ lines' = lines \union {pane[p].line}
               /\ pane' = [pane EXCEPT ![p].line = <<>>, ![p].tui = "working",
                                       ![p].outside = op[o].kind \notin Locking]
      <3> DEFINE r == [pane[p] EXCEPT !.line = <<>>, !.tui = "working", !.outside = op[o].kind \notin Locking]
      <3>0. (op[o].kind \notin Locking) \in BOOLEAN
        OBVIOUS
      <3>1. r \in PaneType
        BY <2>2, <3>0, EmptySeq DEF PaneType, TUI
      <3>2. /\ r.name = pane[p].name /\ r.line = <<>> /\ r.raw = pane[p].raw
            /\ r.tui = "working" /\ r.outside = (op[o].kind \notin Locking) /\ r.dialog = pane[p].dialog
            /\ r.cursor = pane[p].cursor
        BY <2>2, <3>0 DEF PaneType
      <3>3. pane' = [pane EXCEPT ![p] = r] /\ lines' = lines \union {pane[p].line}
        BY <2>3
      <3> HIDE DEF r
      <3>4. pane' \in [Pane -> PaneType] /\ pane'[p] = r /\ \A q \in Pane \ {p} : pane'[q] = pane[q]
        BY <3>1, <3>3, PaneAs
      <3>5. Dialogs(p)
        BY <3>2, <3>4, DialogKept
      <3>6. Submits(p, o)
        BY <2>2, <2>3, <3>2, <3>3, <3>4 DEF Submits
      <3> QED BY <3>4, <3>5, <3>6 DEF Evolves, PaneStep
    <2>4. CASE /\ Blocked(p) /\ UNCHANGED lines
               /\ pane' = [pane EXCEPT ![p] = AnsweredWith(p, pane[p].cursor)]
      <3>1. ~Reading(p)
        BY <2>4 DEF Blocked, Reading
      <3>2. \/ pane[p].tui = "dialog" /\ AnsweredWith(p, pane[p].cursor) = Resumed(p, "working")
            \/ AnsweredWith(p, pane[p].cursor) = Resumed(p, "idle")
            \/ AnsweredWith(p, pane[p].cursor) = Closed(p)
        BY DEF AnsweredWith
      <3>3. CASE pane[p].tui = "dialog" /\ AnsweredWith(p, pane[p].cursor) = Resumed(p, "working")
        BY <2>2, <2>4, <3>1, <3>3, ResumedEvolves DEF PaneStep
      <3>4. CASE AnsweredWith(p, pane[p].cursor) = Resumed(p, "idle")
        BY <2>2, <2>4, <3>1, <3>4, ResumedEvolves DEF PaneStep
      <3>5. CASE AnsweredWith(p, pane[p].cursor) = Closed(p)
        BY <2>2, <2>4, <3>1, <3>5, ShutEvolves DEF PaneStep
      <3> QED BY <3>2, <3>3, <3>4, <3>5
    <2>5. CASE UNCHANGED <<pane, lines>>
      BY <2>5 DEF PaneStep, Still
    <2> QED BY <2>1, <2>3, <2>4, <2>5 DEF PressEnter
  <1>2. CASE ~SessionAlive(op[o].name)
    BY <1>2 DEF Enter, PaneStep, Still
  <1> QED BY <1>1, <1>2

\* A pane whose text, name and turn stay, with r in its place.
LEMMA RunsEvolves ==
  ASSUME Types, NEW p \in Pane, NEW r \in PaneType, pane' = [pane EXCEPT ![p] = r], UNCHANGED lines,
         r.name = pane[p].name, r.line = pane[p].line, r.raw = pane[p].raw,
         r.outside = pane[p].outside, r.tui = pane[p].tui,
         r.dialog = pane[p].dialog,
         r.cursor = pane[p].cursor \/ \E o \in Op : Presses(p, o)
  PROVE  Evolves(p)
  <1>1. pane' \in [Pane -> PaneType] /\ pane'[p] = r /\ \A q \in Pane \ {p} : pane'[q] = pane[q]
    BY PaneAs
  <1>2. Dialogs(p)
    BY <1>1 DEF Dialogs, Blocked
  <1> QED BY <1>1, <1>2 DEF Evolves, Runs

LEMMA ArrowEvolves ==
  ASSUME Types, NEW o \in Op, NEW step \in {"up", "down"}, Arrow(op[o].name, step), UNCHANGED lines,
         \/ op[o].kind = "key" /\ op[o].pc = "ready"
         \/ op[o].pc = "press" /\ op'[o].pc = "press" /\ op[o].left = 1 /\ op'[o].left = 0 /\ step = op[o].step
  PROVE  PaneStep
  <1>1. PICK p \in Pane : /\ p \in Targets(op[o].name)
                          /\ \E c \in Steps(p, step) : pane' = [pane EXCEPT ![p].cursor = c]
    BY DEF Arrow, Targets
  <1>2. PICK c \in Steps(p, step) : pane' = [pane EXCEPT ![p].cursor = c]
    BY <1>1
  <1>3. pane[p] \in PaneType /\ pane[p].name = op[o].name
    BY <1>1 DEF Types, Targets
  <1>4. c \in Options
    BY <1>3 DEF Steps, PaneType, Options
  <1> DEFINE r == [pane[p] EXCEPT !.cursor = c]
  <1>5. r \in PaneType
    BY <1>3, <1>4 DEF PaneType
  <1>6. /\ r.name = pane[p].name /\ r.line = pane[p].line /\ r.raw = pane[p].raw
        /\ r.outside = pane[p].outside /\ r.tui = pane[p].tui /\ r.dialog = pane[p].dialog
    BY <1>3 DEF PaneType
  <1>7. r.cursor = c
    BY <1>3 DEF PaneType
  <1>8. pane' = [pane EXCEPT ![p] = r]
    BY <1>2
  <1> HIDE DEF r
  <1>9. pane'[p].cursor = c
    BY <1>5, <1>7, <1>8, PaneAs
  <1>10. Presses(p, o)
    BY <1>2, <1>3, <1>9 DEF Presses
  <1> QED BY <1>5, <1>6, <1>8, <1>10, RunsEvolves DEF PaneStep

LEMMA SendKeyEvolves ==
  ASSUME Types, NEW o \in Op, SendKey(o)
  PROVE  PaneStep
  <1>1. op[o].kind = "key" /\ op[o].pc = "ready" /\ UNCHANGED lines
    BY DEF SendKey, history
  <1>2. CASE UNCHANGED pane
    BY <1>1, <1>2 DEF PaneStep, Still
  <1>3. CASE \E step \in {"up", "down"} : Arrow(op[o].name, step)
    BY <1>1, <1>3, ArrowEvolves
  <1>4. CASE \E p \in Targets(op[o].name) : \E after \in Interrupted(p) : pane' = [pane EXCEPT ![p] = after]
    <2>1. PICK p \in Pane : /\ p \in Targets(op[o].name)
                            /\ \E after \in Interrupted(p) : pane' = [pane EXCEPT ![p] = after]
      BY <1>4 DEF Targets
    <2>2. PICK after \in Interrupted(p) : pane' = [pane EXCEPT ![p] = after]
      BY <2>1
    <2>3. pane[p] \in PaneType /\ pane[p].name = op[o].name /\ pane[p].tui # "none"
      BY <2>1 DEF Types, Targets
    <2>4. CASE pane[p].tui = "dialog"
      BY <1>1, <2>2, <2>3, <2>4, ResumedEvolves DEF Interrupted, PaneStep, Reading
    <2>5. CASE pane[p].tui = "trust"
      BY <1>1, <2>2, <2>5, ShutEvolves DEF Interrupted, PaneStep, Reading
    <2>6. CASE pane[p].tui = "working"
      <3> DEFINE r == [pane[p] EXCEPT !.tui = "idle"]
      <3>1. r \in PaneType
        BY <2>3 DEF PaneType, TUI
      <3>2. /\ r.name = pane[p].name /\ r.line = pane[p].line /\ r.raw = pane[p].raw
            /\ r.outside = pane[p].outside /\ r.tui = "idle" /\ r.dialog = pane[p].dialog
            /\ r.cursor = pane[p].cursor
        BY <2>3 DEF PaneType
      <3>3. pane' = [pane EXCEPT ![p] = r]
        BY <2>2, <2>6 DEF Interrupted
      <3> HIDE DEF r
      <3>4. pane' \in [Pane -> PaneType] /\ pane'[p] = r /\ \A q \in Pane \ {p} : pane'[q] = pane[q]
        BY <3>1, <3>3, PaneAs
      <3>5. Dialogs(p)
        BY <3>2, <3>4, DialogKept
      <3>6. Runs(p)
        BY <1>1, <2>6, <3>2, <3>4 DEF Runs
      <3> QED BY <3>4, <3>5, <3>6 DEF Evolves, PaneStep
    <2>7. CASE pane[p].tui \notin {"dialog", "trust", "working"}
      <3>1. CASE after = pane[p]
        <4>1. pane' = pane
          BY <2>2, <3>1 DEF Types
        <4> QED BY <1>1, <4>1 DEF PaneStep, Still
      <3>2. CASE after # pane[p]
        <4> DEFINE r == [pane[p] EXCEPT !.line = <<>>]
        <4>1. r \in PaneType
          BY <2>3, EmptySeq DEF PaneType
        <4>2. /\ r.name = pane[p].name /\ r.line = <<>> /\ r.raw = pane[p].raw
              /\ r.outside = pane[p].outside /\ r.tui = pane[p].tui /\ r.dialog = pane[p].dialog
              /\ r.cursor = pane[p].cursor
          BY <2>3 DEF PaneType
        <4>3. pane' = [pane EXCEPT ![p] = r]
          BY <2>2, <2>7, <3>2 DEF Interrupted
        <4> HIDE DEF r
        <4>4. pane' \in [Pane -> PaneType] /\ pane'[p] = r /\ \A q \in Pane \ {p} : pane'[q] = pane[q]
          BY <4>1, <4>3, PaneAs
        <4>5. Dialogs(p)
          BY <4>2, <4>4, DialogKept
        <4>6. Wipes(p, o)
          BY <1>1, <2>3, <4>2, <4>4 DEF Wipes
        <4> QED BY <4>4, <4>5, <4>6 DEF Evolves, PaneStep
      <3> QED BY <3>1, <3>2
    <2> QED BY <2>4, <2>5, <2>6, <2>7
  <1> QED BY <1>2, <1>3, <1>4 DEF SendKey

LEMMA PressEvolves ==
  ASSUME Types, NEW o \in Op, Press(o)
  PROVE  PaneStep
  <1>1. UNCHANGED lines /\ op[o] \in OpType /\ op[o].pc = "press"
    BY At DEF Press, history
  <1>2. CASE UNCHANGED pane
    BY <1>1, <1>2 DEF PaneStep, Still
  <1>3. CASE op[o].left > 0 /\ Arrow(op[o].name, op[o].step) /\ op' = [op EXCEPT ![o].left = @ - 1]
    <2>1. op[o].left = 1 /\ op[o].step \in {"up", "down"}
      BY <1>1, <1>3 DEF OpType
    <2>2. op'[o].pc = "press" /\ op'[o].left = 0
      BY <1>1, <1>3, <2>1 DEF OpType, Types
    <2> QED BY <1>1, <1>3, <2>1, <2>2, ArrowEvolves
  <1> QED BY <1>2, <1>3 DEF Press

LEMMA ClearInputEvolves ==
  ASSUME Types, NEW o \in Op, ClearInput(o)
  PROVE  PaneStep
  <1>1. UNCHANGED lines /\ op[o].kind = "rc"
    BY Whereabouts DEF ClearInput, history
  <1>2. CASE SessionAlive(op[o].name)
    <2>1. PICK p \in Pane : /\ p \in Targets(op[o].name)
                            /\ pane' = [pane EXCEPT ![p].line = IF Reading(p) THEN <<>> ELSE @]
      BY <1>2 DEF ClearInput, Targets
    <2>2. pane[p] \in PaneType /\ pane[p].name = op[o].name
      BY <2>1 DEF Types, Targets
    <2>3. CASE ~Reading(p)
      <3>1. [pane[p] EXCEPT !.line = pane[p].line] = pane[p]
        BY <2>2 DEF PaneType
      <3>2. pane' = [pane EXCEPT ![p] = [pane[p] EXCEPT !.line = pane[p].line]]
        BY <2>1, <2>3
      <3>3. pane' = pane
        BY <3>1, <3>2 DEF Types
      <3> QED BY <1>1, <3>3 DEF PaneStep, Still
    <2>4. CASE Reading(p)
      <3> DEFINE r == [pane[p] EXCEPT !.line = <<>>]
      <3>1. r \in PaneType
        BY <2>2, EmptySeq DEF PaneType
      <3>2. /\ r.name = pane[p].name /\ r.line = <<>> /\ r.raw = pane[p].raw
            /\ r.outside = pane[p].outside /\ r.tui = pane[p].tui /\ r.dialog = pane[p].dialog
            /\ r.cursor = pane[p].cursor
        BY <2>2 DEF PaneType
      <3>3. pane' = [pane EXCEPT ![p] = r]
        BY <2>1, <2>4
      <3> HIDE DEF r
      <3>4. pane' \in [Pane -> PaneType] /\ pane'[p] = r /\ \A q \in Pane \ {p} : pane'[q] = pane[q]
        BY <3>1, <3>3, PaneAs
      <3>5. Dialogs(p)
        BY <3>2, <3>4, DialogKept
      <3>6. Wipes(p, o)
        BY <1>1, <2>2, <3>2, <3>4 DEF Wipes
      <3> QED BY <3>4, <3>5, <3>6 DEF Evolves, PaneStep
    <2> QED BY <2>3, <2>4
  <1>3. CASE ~SessionAlive(op[o].name)
    BY <1>1, <1>3 DEF ClearInput, PaneStep, Still
  <1> QED BY <1>2, <1>3

LEMMA LookEvolves ==
  ASSUME Types, NEW o \in Op, Look(o)
  PROVE  PaneStep
  <1>1. UNCHANGED lines
    BY DEF Look, history
  <1>2. CASE UNCHANGED pane
    BY <1>1, <1>2 DEF PaneStep, Still
  <1>3. CASE \E p \in Targets(op[o].name) : pane[p].tui = "dialog" /\ pane' = [pane EXCEPT ![p] = Closed(p)]
    <2>1. PICK p \in Pane : pane[p].tui = "dialog" /\ pane' = [pane EXCEPT ![p] = Closed(p)]
      BY <1>3 DEF Targets
    <2> QED BY <1>1, <2>1, ShutEvolves DEF PaneStep, Reading
  <1> QED BY <1>2, <1>3 DEF Look

LEMMA MoveToEvolves ==
  ASSUME Types, Names, NEW o \in Op, MoveTo(o)
  PROVE  PaneStep
  <1>1. UNCHANGED lines /\ op[o].kind = "move" /\ op[o].pc = "moveTo" /\ op[o].to \in Name
    BY Whereabouts, At DEF MoveTo, history
  <1>2. CASE UNCHANGED pane
    BY <1>1, <1>2 DEF PaneStep, Still
  <1>3. CASE SessionAlive(op[o].name) /\ ~SessionAlive(op[o].to)
    <2>1. PICK p \in Pane : p \in Targets(op[o].name) /\ pane' = [pane EXCEPT ![p].name = op[o].to]
      BY <1>3 DEF MoveTo, Targets
    <2>2. pane[p] \in PaneType /\ pane[p].name = op[o].name /\ pane[p].tui # "none" /\ op'[o].pc = "ok"
      BY <1>3, <2>1, At DEF Types, Targets, MoveTo, Goto, OpType
    <2>3. \A q \in Pane : pane[q].name # op[o].to
      BY <1>1, <1>3, Nones DEF SessionAlive, Targets, Names
    <2> DEFINE r == [pane[p] EXCEPT !.name = op[o].to]
    <2>4. r \in PaneType
      BY <1>1, <2>2 DEF PaneType
    <2>5. /\ r.name = op[o].to /\ r.line = pane[p].line /\ r.raw = pane[p].raw
          /\ r.outside = pane[p].outside /\ r.tui = pane[p].tui /\ r.dialog = pane[p].dialog
          /\ r.cursor = pane[p].cursor
      BY <2>2 DEF PaneType
    <2>6. pane' = [pane EXCEPT ![p] = r]
      BY <2>1
    <2> HIDE DEF r
    <2>7. pane' \in [Pane -> PaneType] /\ pane'[p] = r /\ \A q \in Pane \ {p} : pane'[q] = pane[q]
      BY <2>4, <2>6, PaneAs
    <2>8. Dialogs(p)
      BY <2>5, <2>7, DialogKept
    <2>9. Renames(p, o)
      BY <1>1, <2>2, <2>3, <2>5, <2>7 DEF Renames
    <2> QED BY <2>7, <2>8, <2>9 DEF Evolves, PaneStep
  <1> QED BY <1>2, <1>3 DEF MoveTo

LEMMA NewSessionEvolves ==
  ASSUME Types, Names, NEW o \in Op, NEW p \in Pane, NEW n \in Name, NewSession(o, p, n)
  PROVE  Evolves(p)
  <1>1. pane[p].tui = "none" /\ ~SessionAlive(n) /\ UNCHANGED lines /\ pane[p] \in PaneType
        /\ pane' = [pane EXCEPT ![p].name = n, ![p].tui = "boot", ![p].outside = TRUE]
    BY DEF NewSession, history, Types
  <1>2. \A q \in Pane : pane[q].name # n
    BY <1>1, Nones DEF SessionAlive, Targets, Names
  <1> DEFINE r == [pane[p] EXCEPT !.name = n, !.tui = "boot", !.outside = TRUE]
  <1>3. r \in PaneType
    BY <1>1 DEF PaneType, TUI
  <1>4. /\ r.name = n /\ r.line = pane[p].line /\ r.raw = pane[p].raw
        /\ r.outside /\ r.tui = "boot" /\ r.dialog = pane[p].dialog
        /\ r.cursor = pane[p].cursor
    BY <1>1 DEF PaneType
  <1>5. pane' = [pane EXCEPT ![p] = r]
    BY <1>1
  <1> HIDE DEF r
  <1>6. pane' \in [Pane -> PaneType] /\ pane'[p] = r /\ \A q \in Pane \ {p} : pane'[q] = pane[q]
    BY <1>3, <1>5, PaneAs
  <1>7. Dialogs(p)
    BY <1>4, <1>6, DialogKept
  <1>8. Opens(p)
    BY <1>1, <1>2, <1>4, <1>6 DEF Opens
  <1> QED BY <1>6, <1>7, <1>8 DEF Evolves

LEMMA ClaudeEvolves ==
  ASSUME Types, NEW p \in Pane, Claude(p)
  PROVE  Evolves(p) /\ UNCHANGED <<op, lock, picks>> /\ blind' \in {blind, blind \union ToSet(pane[p].line)}
  <1>0. UNCHANGED <<op, lock, picks, lines>> /\ blind' \in {blind, blind \union ToSet(pane[p].line)}
        /\ pane[p] \in PaneType
    BY DEF Claude, Boots, TurnEnds, Asks, Answered, RemoteTurn, history, Types
  <1>1. CASE Boots(p) /\ pane' = [pane EXCEPT ![p] = Resumed(p, "idle")]
    BY <1>0, <1>1, ResumedEvolves DEF Boots, Reading
  <1>2. CASE Answered(p)
    BY <1>0, <1>2, ResumedEvolves DEF Answered, Reading
  <1>3. ASSUME NEW tui \in {"trust", "dialog"}, pane[p].dialog < MaxDialogs,
               pane' = [pane EXCEPT ![p].tui = tui, ![p].dialog = @ + 1, ![p].cursor = 0],
               \/ pane[p].tui = "boot"
               \/ pane[p].tui = "working" /\ tui = "dialog" /\ ToSet(pane[p].line) \subseteq blind'
        PROVE  Evolves(p)
    <2> DEFINE r == [pane[p] EXCEPT !.tui = tui, !.dialog = pane[p].dialog + 1, !.cursor = 0]
    <2>1. pane[p].dialog + 1 \in 0..MaxDialogs
      BY <1>0, <1>3, Nones DEF PaneType
    <2>2. r \in PaneType
      <3>1. tui \in TUI /\ 0 \in Options
        BY DEF TUI, Options
      <3> QED BY <1>0, <2>1, <3>1 DEF PaneType
    <2>3. /\ r.name = pane[p].name /\ r.line = pane[p].line /\ r.raw = pane[p].raw
          /\ r.outside = pane[p].outside /\ r.tui = tui /\ r.dialog = pane[p].dialog + 1 /\ r.cursor = 0
      BY <1>0 DEF PaneType
    <2>4. pane' = [pane EXCEPT ![p] = r]
      BY <1>3
    <2> HIDE DEF r
    <2>5. pane' \in [Pane -> PaneType] /\ pane'[p] = r /\ \A q \in Pane \ {p} : pane'[q] = pane[q]
      BY <2>2, <2>4, PaneAs
    <2>6. Dialogs(p)
      BY <2>3, <2>5 DEF Dialogs
    <2>7. Runs(p)
      BY <1>0, <1>3, <2>3, <2>5 DEF Runs
    <2> QED BY <2>5, <2>6, <2>7 DEF Evolves
  <1>4. CASE Boots(p) \/ Asks(p)
    <2>1. CASE Boots(p)
      BY <1>0, <1>1, <1>3, <2>1 DEF Boots
    <2>2. CASE Asks(p)
      <3>1. ToSet(pane[p].line) \subseteq blind'
        BY <2>2 DEF Asks
      <3> QED BY <1>0, <1>3, <2>2, <3>1 DEF Asks
    <2> QED BY <1>4, <2>1, <2>2
  <1>5. CASE TurnEnds(p)
    <2> DEFINE r == [pane[p] EXCEPT !.tui = "idle"]
    <2>1. r \in PaneType
      BY <1>0 DEF PaneType, TUI
    <2>2. /\ r.name = pane[p].name /\ r.line = pane[p].line /\ r.raw = pane[p].raw
          /\ r.outside = pane[p].outside /\ r.tui = "idle" /\ r.dialog = pane[p].dialog
          /\ r.cursor = pane[p].cursor
      BY <1>0 DEF PaneType
    <2>3. pane' = [pane EXCEPT ![p] = r] /\ pane[p].tui = "working"
      BY <1>5 DEF TurnEnds
    <2> HIDE DEF r
    <2>4. pane' \in [Pane -> PaneType] /\ pane'[p] = r /\ \A q \in Pane \ {p} : pane'[q] = pane[q]
      BY <2>1, <2>3, PaneAs
    <2>5. Dialogs(p)
      BY <2>2, <2>4, DialogKept
    <2>6. Runs(p)
      BY <1>0, <2>2, <2>3, <2>4 DEF Runs
    <2> QED BY <1>0, <2>4, <2>5, <2>6 DEF Evolves
  <1>6. CASE RemoteTurn(p)
    <2> DEFINE r == [pane[p] EXCEPT !.tui = "working", !.outside = TRUE]
    <2>1. r \in PaneType
      BY <1>0 DEF PaneType, TUI
    <2>2. /\ r.name = pane[p].name /\ r.line = pane[p].line /\ r.raw = pane[p].raw
          /\ r.outside /\ r.tui = "working" /\ r.dialog = pane[p].dialog
          /\ r.cursor = pane[p].cursor
      BY <1>0 DEF PaneType
    <2>3. pane' = [pane EXCEPT ![p] = r] /\ pane[p].tui = "idle"
      BY <1>6 DEF RemoteTurn
    <2> HIDE DEF r
    <2>4. pane' \in [Pane -> PaneType] /\ pane'[p] = r /\ \A q \in Pane \ {p} : pane'[q] = pane[q]
      BY <2>1, <2>3, PaneAs
    <2>5. Dialogs(p)
      BY <2>2, <2>4, DialogKept
    <2>6. Runs(p)
      BY <1>0, <2>2, <2>3, <2>4 DEF Runs
    <2> QED BY <1>0, <2>4, <2>5, <2>6 DEF Evolves
  <1> QED BY <1>0, <1>2, <1>4, <1>5, <1>6 DEF Claude

-----------------------------------------------------------------------------
(* A step of the whole system *)

\* One request advances, or none.
Progress == UNCHANGED <<op, lock>> \/ \E o \in Op : Advances(o) /\ LockStep(o)

LEMMA OpsProgress ==
  ASSUME Types, Next
  PROVE  Progress
  <1>1. CASE \E o \in Op : Step(o)
    BY <1>1, StepMoves DEF Progress
  <1>2. CASE \E o \in Op, n \in Name :
               \/ \E kind \in Kinds : Start(o, kind, n)
               \/ \E p \in Pane : NewSession(o, p, n)
               \/ \E m \in Name : Move(o, n, m)
    BY <1>2, BeginMoves DEF Progress
  <1>3. CASE \E p \in Pane : Claude(p)
    BY <1>3, ClaudeEvolves DEF Progress
  <1> QED BY <1>1, <1>2, <1>3 DEF Next

LEMMA PanesEvolve ==
  ASSUME Types, Names, Next
  PROVE  PaneStep
  <1>1. ASSUME NEW o \in Op, Step(o)
        PROVE  PaneStep
    <2>1. CASE Lock(o) \/ TextReady(o) \/ ReadChoice(o) \/ Poll(o) \/ Recheck(o) \/ NotBusy(o)
      BY <2>1 DEF Lock, TextReady, ReadChoice, Poll, Recheck, NotBusy, history, PaneStep, Still
    <2> QED BY <1>1, <2>1, TypeEvolves, EnterEvolves, SendKeyEvolves, PressEvolves,
               ClearInputEvolves, LookEvolves, MoveToEvolves DEF Step
  <1>2. CASE \E o \in Op, n \in Name : \E p \in Pane : NewSession(o, p, n)
    BY <1>2, NewSessionEvolves DEF PaneStep
  <1>3. CASE \E o \in Op, n \in Name : \/ \E kind \in Kinds : Start(o, kind, n)
                                       \/ \E m \in Name : Move(o, n, m)
    BY <1>3 DEF Start, Move, history, PaneStep, Still
  <1>4. CASE \E p \in Pane : Claude(p)
    BY <1>4, ClaudeEvolves DEF PaneStep
  <1> QED BY <1>1, <1>2, <1>3, <1>4 DEF Next

\* What becomes blind: the text just typed, or the text of a line.
LEMMA Blinds ==
  ASSUME Types, Next
  PROVE  /\ blind \subseteq blind'
         /\ \/ \E o \in Op : op[o].pc = "type" /\ blind' \subseteq blind \union {o}
            \/ \E p \in Pane : blind' \subseteq blind \union ToSet(pane[p].line)
            \/ blind' \subseteq blind
  <1>1. ASSUME NEW o \in Op, Step(o)
        PROVE  \/ blind' = blind
               \/ op[o].pc = "type" /\ blind \subseteq blind' /\ blind' \subseteq blind \union {o}
    <2>1. CASE Type(o)
      BY <2>1, TypeEvolves DEF Type
    <2>2. CASE ~Type(o)
      BY <1>1, <2>2 DEF Step, Lock, TextReady, Enter, SendKey, ReadChoice, Press, Poll, Recheck,
                        ClearInput, NotBusy, Look, MoveTo, history
    <2> QED BY <2>1, <2>2
  <1>2. CASE \E o \in Op, n \in Name :
               \/ \E kind \in Kinds : Start(o, kind, n)
               \/ \E p \in Pane : NewSession(o, p, n)
               \/ \E m \in Name : Move(o, n, m)
    BY <1>2 DEF Start, NewSession, Move, history
  <1>3. CASE \E p \in Pane : Claude(p)
    BY <1>3, ClaudeEvolves
  <1> QED BY <1>1, <1>2, <1>3 DEF Next

\* A request that has started is what it was, and one that has ended stays so.
LEMMA Remains ==
  ASSUME Types, Progress, NEW o \in Op, op[o].pc # "idle"
  PROVE  /\ op'[o].kind = op[o].kind /\ op'[o].name = op[o].name /\ op'[o].to = op[o].to
         /\ op'[o].pc # "idle"
         /\ op[o].pc \in Ended => op'[o] = op[o]
  <1>1. CASE UNCHANGED <<op, lock>>
    BY <1>1
  <1>2. ASSUME NEW q \in Op, Advances(q)
        PROVE  /\ op'[o].kind = op[o].kind /\ op'[o].name = op[o].name /\ op'[o].to = op[o].to
               /\ op'[o].pc # "idle"
               /\ op[o].pc \in Ended => op'[o] = op[o]
    <2>1. CASE o = q
      BY <1>2, <2>1 DEF Advances
    <2>2. CASE o # q
      BY <1>2, <2>2 DEF Advances
    <2> QED BY <2>1, <2>2
  <1> QED BY <1>1, <1>2 DEF Progress

\* The names that have changed hands only grow more.
LEMMA NameKept ==
  ASSUME Types, Progress, NEW o \in Op, op[o].pc # "idle", KeepsName(o)'
  PROVE  KeepsName(o)
  <1>1. ASSUME NEW q \in Op, Moved(q)
        PROVE  op[o].name \notin {op[q].name, op[q].to}
    <2>1. op[q].pc = "ok" /\ op[q].kind = "move"
      BY <1>1 DEF Moved
    <2>2. op'[q] = op[q] /\ op'[o].name = op[o].name
      BY <2>1, Remains DEF Ended
    <2>3. Moved(q)'
      BY <2>1, <2>2 DEF Moved
    <2>4. op'[o].name \notin {op'[q].name, op'[q].to}
      BY <2>3 DEF KeepsName
    <2> QED BY <2>2, <2>4
  <1> QED BY <1>1 DEF KeepsName

LEMMA NamesKept ==
  ASSUME Types, Names, PaneStep
  PROVE  Names'
  <1>1. CASE Still
    BY <1>1 DEF Still, Names
  <1>2. ASSUME NEW p \in Pane, Evolves(p)
        PROVE  Names'
    <2>1. (pane'[p].tui = "none" <=> pane'[p].name = None)
          /\ (pane'[p].name \in {pane[p].name, None} \/ \A q \in Pane : pane[q].name # pane'[p].name)
      <3>1. CASE Runs(p)
        BY <3>1 DEF Runs, Names
      <3>2. CASE Resumes(p) \/ Shuts(p)
        BY <3>2 DEF Resumes, Shuts, Names
      <3>3. CASE Opens(p)
        BY <3>3, Nones DEF Opens, Names
      <3>4. CASE \E o \in Op : TakesText(p, o) \/ Submits(p, o) \/ Wipes(p, o) \/ Renames(p, o)
        BY <3>4, Nones DEF TakesText, Submits, Wipes, Renames, Names, Reading
      <3> QED BY <1>2, <3>1, <3>2, <3>3, <3>4 DEF Evolves
    <2> QED BY <1>2, <2>1 DEF Evolves, Names
  <1> QED BY <1>1, <1>2 DEF PaneStep

-----------------------------------------------------------------------------
(* The lines *)

LEMMA SetOfEmpty == ToSet(<<>>) = {}
  BY DEF ToSet

LEMMA SetOfAppend ==
  ASSUME NEW s \in Seq(Op), NEW o \in Op
  PROVE  ToSet(Append(s, o)) = ToSet(s) \union {o}
  <1>1. ToSet(s) \union {o} \subseteq ToSet(Append(s, o))
    <2>1. \A i \in DOMAIN s : i \in DOMAIN Append(s, o) /\ Append(s, o)[i] = s[i]
      OBVIOUS
    <2>2. Len(s) + 1 \in DOMAIN Append(s, o) /\ Append(s, o)[Len(s) + 1] = o
      OBVIOUS
    <2> QED BY <2>1, <2>2 DEF ToSet
  <1>2. ToSet(Append(s, o)) \subseteq ToSet(s) \union {o}
    <2>1. \A i \in DOMAIN Append(s, o) : Append(s, o)[i] = o \/ (i \in DOMAIN s /\ Append(s, o)[i] = s[i])
      OBVIOUS
    <2> QED BY <2>1 DEF ToSet
  <1> QED BY <1>1, <1>2

LEMMA SetOfConcat ==
  ASSUME NEW s \in Seq(Op), NEW t \in Seq(Op)
  PROVE  ToSet(s \o t) \subseteq ToSet(s) \union ToSet(t)
  <1>1. \A i \in DOMAIN (s \o t) :
          \/ i \in DOMAIN s /\ (s \o t)[i] = s[i]
          \/ i - Len(s) \in DOMAIN t /\ (s \o t)[i] = t[i - Len(s)]
    OBVIOUS
  <1> QED BY <1>1 DEF ToSet

LEMMA SetTyped ==
  ASSUME NEW s \in Seq(Op)
  PROVE  ToSet(s) \subseteq Op
  BY DEF ToSet

Started(S) == \A o \in S : op[o].pc # "idle"

\* The requests whose text is nobody else's concern: they took the lock, their
\* sessions have kept their names, and a readline read it.
Plain == {o \in Op : op[o].kind \in Locking /\ KeepsName(o) /\ o \notin blind}

\* What a pane holds that is not submitted: of plain requests at most one, which
\* is about to press Enter, and nothing that is not blind while it does not read.
Line(p) ==
  /\ Started(ToSet(pane[p].line))
  /\ ToSet(pane[p].raw) \subseteq blind
  /\ ~Reading(p) => ToSet(pane[p].line) \subseteq blind
  /\ \A o \in ToSet(pane[p].line) : o \in Plain => op[o].pc = "enter" /\ op[o].name = pane[p].name
  /\ \A i, j \in DOMAIN pane[p].line : pane[p].line[i] \in Plain /\ pane[p].line[j] \in Plain => i = j

\* ... and what has been submitted: of plain requests only, one text each.
Alone(line) == (\A o \in ToSet(line) : o \in Plain) => Len(line) = 1
Submitted == Started(blind) /\ \A line \in lines : Started(ToSet(line)) /\ Alone(line)

LinesInv == (\A p \in Pane : Line(p)) /\ Submitted

LEMMA PlainKept ==
  ASSUME Types, Progress, blind \subseteq blind', NEW o \in Op, op[o].pc # "idle", o \in Plain'
  PROVE  o \in Plain
  BY NameKept, Remains DEF Plain

LEMMA StartedKept ==
  ASSUME Types, Progress, NEW S \in SUBSET Op, Started(S)
  PROVE  \A o \in S : op'[o].pc # "idle"
  BY Remains DEF Started

\* A request that is about to press Enter does so in its next step ...
LEMMA OnlyEnters ==
  ASSUME Types, Next, NEW o \in Op, op[o].pc = "enter", op'[o] # op[o]
  PROVE  Enter(o)
  <1>1. ASSUME NEW q \in Op, Advances(q)
        PROVE  q = o
    BY <1>1 DEF Advances
  <1>2. ASSUME NEW q \in Op, Step(q)
        PROVE  Enter(o)
    <2>1. q = o
      BY <1>1, <1>2, StepMoves
    <2> QED BY <1>2, <2>1 DEF Step, Lock, TextReady, Type, SendKey, ReadChoice, Press, Poll, Recheck,
                              ClearInput, NotBusy, Look, MoveTo
  <1>3. ASSUME NEW q \in Op, NEW n \in Name,
               \/ \E kind \in Kinds : Start(q, kind, n)
               \/ \E p \in Pane : NewSession(q, p, n)
               \/ \E m \in Name : Move(q, n, m)
        PROVE  FALSE
    BY <1>1, <1>3, Begins
  <1>4. ~\E p \in Pane : Claude(p)
    BY ClaudeEvolves
  <1> QED BY <1>2, <1>3, <1>4 DEF Next

\* ... and submits the line its text is in.
LEMMA PlainSubmits ==
  ASSUME Types, Names, NEW p \in Pane, Line(p), NEW o \in ToSet(pane[p].line), o \in Op, o \in Plain, Enter(o)
  PROVE  pane'[p].line = <<>> /\ lines' = lines \union {pane[p].line}
  <1>1. op[o].name = pane[p].name /\ op[o].pc = "enter" /\ Reading(p)
    BY DEF Line, Plain
  <1>2. op[o].name \in Name /\ pane[p].tui # "none" /\ op[o].name # None
    BY <1>1, At, Nones DEF Reading
  <1>3. Targets(op[o].name) = {p}
    BY <1>1, <1>2 DEF Targets, Names
  <1>4. pane[p].line # <<>>
    BY SetOfEmpty
  <1>5. PressEnter(p, o)
    BY <1>3 DEF Enter, SessionAlive
  <1>6. ~Blocked(p)
    BY <1>1 DEF Reading, Blocked
  <1>7. /\ lines' = lines \union {pane[p].line}
        /\ pane' = [pane EXCEPT ![p].line = <<>>, ![p].tui = "working", ![p].outside = op[o].kind \notin Locking]
    BY <1>1, <1>4, <1>5, <1>6 DEF PressEnter
  <1>8. pane[p] \in PaneType /\ p \in DOMAIN pane
    BY DEF Types
  <1> QED BY <1>7, <1>8 DEF PaneType

\* What a pane's readline holds after a step.
LineStep(p) ==
  \/ pane'[p].line = pane[p].line
  \/ pane'[p].line = <<>>
  \/ pane'[p].line = pane[p].line \o pane[p].raw /\ ~Reading(p)
  \/ \E o \in Op : pane'[p].line = Append(pane[p].line, o) /\ TakesText(p, o)

LEMMA LinesEvolve ==
  ASSUME Types, Names, LinesInv, PaneStep, Progress, blind \subseteq blind', NEW p \in Pane
  PROVE  /\ LineStep(p)
         /\ ToSet(pane'[p].raw) \subseteq blind'
         /\ ~Reading(p)' => ToSet(pane'[p].line) \subseteq blind'
         /\ (pane'[p].line = pane[p].line =>
               \/ pane'[p].name = pane[p].name
               \/ ToSet(pane[p].line) \subseteq blind
               \/ \E o \in Op : Renames(p, o))
  <1>0. /\ ToSet(pane[p].raw) \subseteq blind /\ (~Reading(p) => ToSet(pane[p].line) \subseteq blind)
        /\ pane[p] \in PaneType /\ pane[p].line \in Seq(Op) /\ pane[p].raw \in Seq(Op)
    BY DEF LinesInv, Line, Types, PaneType
  <1>1. CASE pane'[p] = pane[p]
    BY <1>0, <1>1 DEF LineStep, Reading
  <1>2. CASE Evolves(p)
    <2>1. CASE Runs(p)
      BY <1>0, <2>1 DEF Runs, LineStep, Reading
    <2>2. CASE Resumes(p)
      BY <1>0, <2>2, SetOfEmpty DEF Resumes, LineStep, Reading
    <2>3. CASE Shuts(p)
      BY <1>0, <2>3, SetOfEmpty DEF Shuts, LineStep, Reading
    <2>4. CASE Opens(p)
      BY <1>0, <2>4 DEF Opens, LineStep, Reading
    <2>5. ASSUME NEW o \in Op, TakesText(p, o)
          PROVE  /\ LineStep(p) /\ ToSet(pane'[p].raw) \subseteq blind'
                 /\ ~Reading(p)' => ToSet(pane'[p].line) \subseteq blind'
                 /\ pane'[p].name = pane[p].name
      <3>1. CASE Reading(p)
        BY <1>0, <2>5, <3>1 DEF TakesText, LineStep, Reading
      <3>2. CASE ~Reading(p)
        BY <1>0, <2>5, <3>2, SetOfAppend DEF TakesText, LineStep, Reading
      <3> QED BY <3>1, <3>2
    <2>6. CASE \E o \in Op : Submits(p, o) \/ Wipes(p, o)
      BY <1>0, <2>6, SetOfEmpty DEF Submits, Wipes, LineStep, Reading
    <2>7. CASE \E o \in Op : Renames(p, o)
      BY <1>0, <2>7 DEF Renames, LineStep, Reading
    <2> QED BY <1>2, <2>1, <2>2, <2>3, <2>4, <2>5, <2>6, <2>7 DEF Evolves
  <1> QED BY <1>1, <1>2 DEF PaneStep, Still, Evolves

\* The plain requests of a line, after a step: those it had, or the one that
\* typed, which finds none there.
LEMMA PlainsKept ==
  ASSUME Types, Names, LockInv, LinesInv, Next, PaneStep, Progress, blind \subseteq blind',
         NEW p \in Pane, NEW o \in Op, o \in ToSet(pane[p].line), o \in Plain', pane'[p].line # <<>>
  PROVE  /\ o \in Plain /\ op'[o] = op[o] /\ op[o].pc = "enter" /\ op[o].name = pane[p].name
  <1>1. op[o].pc # "idle"
    BY DEF LinesInv, Line, Started
  <1>2. o \in Plain /\ Line(p)
    BY <1>1, PlainKept DEF LinesInv
  <1>3. op[o].pc = "enter" /\ op[o].name = pane[p].name
    BY <1>2 DEF Line
  <1>4. op'[o] = op[o]
    BY <1>2, <1>3, OnlyEnters, PlainSubmits
  <1> QED BY <1>2, <1>3, <1>4

LEMMA LineKept ==
  ASSUME Types, Names, LockInv, LinesInv, Next, PaneStep, Progress, blind \subseteq blind',
         NEW p \in Pane
  PROVE  Line(p)'
  <1>0. pane[p] \in PaneType /\ pane[p].line \in Seq(Op) /\ pane[p].raw \in Seq(Op) /\ Line(p)
        /\ ToSet(pane[p].line) \subseteq Op /\ ToSet(pane[p].raw) \subseteq Op
    BY SetTyped DEF LinesInv, Types, PaneType
  <1>1. ToSet(pane'[p].raw) \subseteq blind' /\ (~Reading(p)' => ToSet(pane'[p].line) \subseteq blind')
    BY LinesEvolve
  <1>2. \A o \in ToSet(pane[p].line) \union ToSet(pane[p].raw) : op'[o].pc # "idle"
    BY <1>0, StartedKept DEF LinesInv, Submitted, Line, Started
  <1>3. CASE pane'[p].line = <<>>
    BY <1>1, <1>3, SetOfEmpty DEF Line, Started
  <1>4. CASE pane'[p].line = pane[p].line /\ pane[p].line # <<>>
    <2>1. ASSUME NEW o \in ToSet(pane[p].line), o \in Plain'
          PROVE  o \in Plain /\ op'[o].pc = "enter" /\ op'[o].name = pane'[p].name
      <3>1. o \in Op /\ o \in Plain /\ op'[o] = op[o] /\ op[o].pc = "enter" /\ op[o].name = pane[p].name
        BY <1>0, <1>4, <2>1, PlainsKept
      <3>2. CASE \E q \in Op : Renames(p, q)
        <4>1. PICK q \in Op : Renames(p, q)
          BY <3>2
        <4>2. op'[q].kind = "move" /\ op'[q].name = op[q].name
          BY <4>1, Remains DEF Renames
        <4>3. Moved(q)' /\ op'[o].name = op'[q].name
          BY <3>1, <4>1, <4>2 DEF Moved, Renames
        <4>4. KeepsName(o)'
          BY <2>1 DEF Plain
        <4> QED BY <4>3, <4>4 DEF KeepsName
      <3>3. CASE pane'[p].name = pane[p].name
        BY <3>1, <3>3
      <3>4. ~(ToSet(pane[p].line) \subseteq blind)
        BY <2>1, <3>1 DEF Plain
      <3> QED BY <1>4, <3>2, <3>3, <3>4, LinesEvolve
    <2>2. \A i \in DOMAIN pane[p].line : pane[p].line[i] \in ToSet(pane[p].line)
      BY DEF ToSet
    <2> QED BY <1>0, <1>1, <1>2, <1>4, <2>1, <2>2 DEF Line, Started
  <1>5. CASE pane'[p].line = pane[p].line \o pane[p].raw /\ ~Reading(p)
    <2>1. ToSet(pane'[p].line) \subseteq blind' /\ ToSet(pane'[p].line) \subseteq ToSet(pane[p].line) \union ToSet(pane[p].raw)
      BY <1>0, <1>5, SetOfConcat DEF Line
    <2>2. \A o \in ToSet(pane'[p].line) : o \notin Plain'
      BY <2>1 DEF Plain
    <2>3. \A i \in DOMAIN pane'[p].line : pane'[p].line[i] \notin Plain'
      BY <2>2 DEF ToSet
    <2> QED BY <1>1, <1>2, <2>1, <2>2, <2>3 DEF Line, Started
  <1>6. ASSUME NEW o \in Op, pane'[p].line = Append(pane[p].line, o), TakesText(p, o)
        PROVE  Line(p)'
    <2> DEFINE s == pane[p].line
               t == Append(s, o)
    <2>1. /\ op[o].pc = "type" /\ op'[o].pc = "enter" /\ pane[p].name = op[o].name
          /\ pane'[p].name = pane[p].name /\ op'[o].name = op[o].name /\ op'[o].kind = op[o].kind
          /\ t # <<>> /\ ToSet(t) = ToSet(s) \union {o}
      <3>1. op[o].pc = "type" /\ op'[o].pc = "enter" /\ pane[p].name = op[o].name /\ pane'[p].name = pane[p].name
        BY <1>6 DEF TakesText
      <3>2. op'[o].name = op[o].name /\ op'[o].kind = op[o].kind
        BY <3>1, Remains
      <3>3. ToSet(t) = ToSet(s) \union {o}
        BY <1>0, SetOfAppend
      <3> QED BY <3>1, <3>2, <3>3, SetOfEmpty
    <2>2. ASSUME NEW q \in ToSet(s), q \in Plain'
          PROVE  /\ q \in Op /\ q \in Plain /\ op'[q] = op[q] /\ op[q].pc = "enter" /\ op[q].name = pane[p].name
      BY <1>0, <1>6, <2>1, <2>2, PlainsKept
    <2>3. ASSUME o \in Plain', NEW q \in ToSet(s), q \in Plain'
          PROVE  FALSE
      <3>1. Locked(op[o]) /\ Locked(op[q]) /\ op[q].name = op[o].name /\ op[o].name \in Name
        BY <2>1, <2>2, <2>3, At DEF Locked, Holding, Plain
      <3>2. lock[op[o].name] = o /\ lock[op[o].name] = q
        BY <2>2, <2>3, <3>1 DEF LockInv
      <3> QED BY <2>1, <2>2, <2>3, <3>2
    <2>4. \A i \in DOMAIN t : \/ i \in DOMAIN s /\ t[i] = s[i]
                              \/ i = Len(s) + 1 /\ t[i] = o
      BY <1>0
    <2>5. \A i \in DOMAIN s : s[i] \in ToSet(s)
      BY DEF ToSet
    <2>6. \A i, j \in DOMAIN s : s[i] \in Plain /\ s[j] \in Plain => i = j
      BY <1>0 DEF Line
    <2>7. ASSUME NEW i \in DOMAIN t, NEW j \in DOMAIN t, t[i] \in Plain', t[j] \in Plain'
          PROVE  i = j
      <3>1. CASE i \in DOMAIN s /\ t[i] = s[i] /\ j \in DOMAIN s /\ t[j] = s[j]
        BY <2>2, <2>5, <2>6, <2>7, <3>1
      <3>2. CASE i \in DOMAIN s /\ t[i] = s[i] /\ j = Len(s) + 1 /\ t[j] = o
        BY <2>3, <2>5, <2>7, <3>2
      <3>3. CASE j \in DOMAIN s /\ t[j] = s[j] /\ i = Len(s) + 1 /\ t[i] = o
        BY <2>3, <2>5, <2>7, <3>3
      <3> QED BY <2>4, <3>1, <3>2, <3>3
    <2>8. \A q \in ToSet(t) : q \in Plain' => op'[q].pc = "enter" /\ op'[q].name = pane'[p].name
      BY <2>1, <2>2
    <2>9. \A q \in ToSet(t) : op'[q].pc # "idle"
      BY <1>2, <2>1
    <2>10. pane'[p].line = t
      BY <1>6
    <2> HIDE DEF t, s
    <2> QED BY <1>1, <2>7, <2>8, <2>9, <2>10 DEF Line, Started
  <1> QED BY <1>3, <1>4, <1>5, <1>6, LinesEvolve DEF LineStep

\* A line submitted: the one that a request that pressed Enter found.
LEMMA LinesGrow ==
  ASSUME PaneStep
  PROVE  lines' = lines \/ \E p \in Pane : pane[p].line # <<>> /\ lines' = lines \union {pane[p].line}
  <1>1. CASE Still
    BY <1>1 DEF Still
  <1>2. ASSUME NEW p \in Pane, Evolves(p)
        PROVE  lines' = lines \/ (pane[p].line # <<>> /\ lines' = lines \union {pane[p].line})
    <2>1. CASE \E o \in Op : Submits(p, o)
      BY <2>1 DEF Submits
    <2> QED BY <1>2, <2>1 DEF Evolves, Runs, Resumes, Shuts, Opens, TakesText, Wipes, Renames
  <1> QED BY <1>1, <1>2 DEF PaneStep

LEMMA SubmittedKept ==
  ASSUME Types, Names, LockInv, LinesInv, Next, PaneStep, Progress
  PROVE  Submitted' /\ lines \subseteq lines' /\ lines' \subseteq Seq(Op) /\ blind' \subseteq Op
  <1>0. lines \subseteq Seq(Op) /\ blind \subseteq Op /\ blind \subseteq blind' /\ Submitted
    BY Blinds DEF Types, LinesInv
  <1>1. \A p \in Pane : /\ pane[p].line \in Seq(Op) /\ Line(p) /\ ToSet(pane[p].line) \subseteq Op
                        /\ Started(ToSet(pane[p].line))
    BY SetTyped DEF Types, PaneType, LinesInv, Line
  <1>2. blind' \subseteq Op /\ Started(blind)'
    <2>1. \A o \in blind' : o \in Op /\ op[o].pc # "idle"
      BY <1>0, <1>1, Blinds DEF Submitted, Started
    <2> QED BY <2>1, Remains DEF Started
  <1>3. ASSUME NEW line \in Seq(Op), Started(ToSet(line)), Alone(line)
        PROVE  Started(ToSet(line))' /\ Alone(line)'
    <2>1. ToSet(line) \subseteq Op
      BY SetTyped
    <2>2. \A o \in ToSet(line) : op'[o].pc # "idle"
      BY <1>3, <2>1, StartedKept
    <2>3. \A o \in ToSet(line) : o \in Plain' => o \in Plain
      BY <1>0, <1>3, <2>1, PlainKept DEF Started
    <2> QED BY <1>3, <2>2, <2>3 DEF Started, Alone
  <1>4. ASSUME NEW p \in Pane, pane[p].line # <<>>
        PROVE  Alone(pane[p].line)
    <2> DEFINE line == pane[p].line
    <2>1. line \in Seq(Op) /\ line # <<>> /\ \A i, j \in DOMAIN line : line[i] \in Plain /\ line[j] \in Plain => i = j
      BY <1>1, <1>4 DEF Line
    <2>2. \A i \in DOMAIN line : line[i] \in ToSet(line)
      BY DEF ToSet
    <2> HIDE DEF line
    <2>3. ASSUME \A o \in ToSet(line) : o \in Plain
          PROVE  Len(line) = 1
      <3>1. \A i, j \in 1..Len(line) : i = j
        BY <2>1, <2>2, <2>3
      <3>2. Len(line) \in Nat /\ Len(line) > 0
        BY <2>1
      <3>3. 1 \in 1..Len(line) /\ Len(line) \in 1..Len(line)
        BY <3>2
      <3> QED BY <3>1, <3>3
    <2> QED BY <2>3 DEF Alone, line
  <1>5. \A line \in lines' : line \in Seq(Op) /\ Started(ToSet(line)) /\ Alone(line)
    BY <1>0, <1>1, <1>4, LinesGrow DEF Submitted
  <1>6. \A line \in lines' : Started(ToSet(line))' /\ Alone(line)'
    BY <1>3, <1>5
  <1> QED BY <1>0, <1>2, <1>5, <1>6, LinesGrow DEF Submitted

LEMMA LinesKept ==
  ASSUME Types, Names, LockInv, LinesInv, Next, PaneStep, Progress
  PROVE  LinesInv'
  BY LineKept, SubmittedKept, Blinds DEF LinesInv

\* Two requests that hold the lock of one name are one.
LEMMA OneHolder ==
  ASSUME LockInv, Types, NEW o \in Op, NEW q \in Op, Locked(op[o]), Locked(op[q]), op[o].name = op[q].name
  PROVE  o = q
  <1>1. op[o].name \in Name
    BY At DEF Locked, Holding
  <1> QED BY <1>1 DEF LockInv

\* The session of a request that keeps its name is not renamed, or given away.
LEMMA NotRenamed ==
  ASSUME Types, Progress, NEW p \in Pane, NEW q \in Op, Renames(p, q), NEW o \in Op, op[o].pc # "idle",
         KeepsName(o)'
  PROVE  op[o].name \notin {pane[p].name, pane'[p].name}
  <1>1. op[q].pc # "idle" /\ op[q].kind = "move" /\ op'[q].pc = "ok"
    BY DEF Renames
  <1>2. Moved(q)' /\ op'[q].name = op[q].name /\ op'[q].to = op[q].to /\ op'[o].name = op[o].name
    BY <1>1, Remains DEF Moved
  <1>3. op'[o].name \notin {op'[q].name, op'[q].to}
    BY <1>2 DEF KeepsName
  <1> QED BY <1>2, <1>3 DEF Renames

-----------------------------------------------------------------------------
(* The rename that waits *)

\* Between the look under the lock and the text, no turn starts that is not
\* outside the lock.
Waits(o) ==
  op[o].kind = "autoRename" /\ op[o].pc = "type" /\ KeepsName(o) =>
    \A p \in Targets(op[o].name) : pane[p].tui = "idle" \/ pane[p].outside

LEMMA WaitsOn ==
  ASSUME Types, Names, LockInv, Progress, NEW o \in Op, Waits(o), op'[o] = op[o],
         op[o].kind = "autoRename", op[o].pc = "type", KeepsName(o)',
         NEW p \in Pane, Evolves(p), pane'[p].name = op[o].name
  PROVE  pane'[p].tui = "idle" \/ pane'[p].outside
  <1>1. KeepsName(o) /\ op[o].name \in Name /\ op[o].name # None /\ op[o].pc # "idle"
    BY NameKept, At, Nones
  <1>2. pane[p].name = op[o].name => pane[p].tui = "idle" \/ pane[p].outside
    BY <1>1 DEF Waits, Targets, Names
  <1>3. CASE Runs(p)
    BY <1>2, <1>3 DEF Runs
  <1>4. CASE Resumes(p)
    BY <1>2, <1>4 DEF Resumes, Reading
  <1>5. CASE Shuts(p) \/ Opens(p)
    BY <1>1, <1>5 DEF Shuts, Opens
  <1>6. ASSUME NEW q \in Op, TakesText(p, q) \/ Wipes(p, q)
        PROVE  pane'[p].tui = "idle" \/ pane'[p].outside
    BY <1>2, <1>6 DEF TakesText, Wipes
  <1>7. ASSUME NEW q \in Op, Submits(p, q)
        PROVE  pane'[p].outside
    <2>1. CASE op[q].kind \in Locking
      <3>1. Locked(op[q]) /\ Locked(op[o]) /\ op[q].name = op[o].name /\ op[q].pc # op[o].pc
        BY <1>7, <2>1 DEF Submits, Locked, Locking, Holding
      <3> QED BY <3>1, OneHolder
    <2>2. CASE op[q].kind \notin Locking
      BY <1>7, <2>2 DEF Submits
    <2> QED BY <2>1, <2>2
  <1>8. ~\E q \in Op : Renames(p, q)
    BY <1>1, NotRenamed
  <1> QED BY <1>3, <1>4, <1>5, <1>6, <1>7, <1>8 DEF Evolves

LEMMA Rechecks ==
  ASSUME Types, Next, NEW o \in Op, op'[o] # op[o], op'[o].kind = "autoRename", op'[o].pc = "type"
  PROVE  Recheck(o)
  <1>1. ASSUME NEW q \in Op, Advances(q)
        PROVE  q = o
    BY <1>1 DEF Advances
  <1>2. ASSUME NEW q \in Op, Step(q)
        PROVE  Recheck(o)
    <2>1. q = o /\ op[o].kind = "autoRename" /\ Step(o) /\ op[o] \in OpType /\ o \in DOMAIN op
      <3>1. q = o /\ Step(o)
        BY <1>1, <1>2, StepMoves
      <3>2. op[o].pc # "idle"
        BY <3>1 DEF Step, Lock, TextReady, Type, Enter, SendKey, ReadChoice,
           Press, Poll, Recheck, ClearInput, NotBusy, Look, MoveTo
      <3>3. Progress
        BY OpsProgress
      <3> QED BY <3>1, <3>2, <3>3, Remains, At DEF Types
    <2>2. op[o].pc \in {"poll", "lock", "recheck", "type", "enter"} \union Ended
      BY <2>1, At DEF Points
    <2>3. CASE Lock(o) \/ Poll(o)
      BY <2>1, <2>3 DEF Lock, Poll, Goto, OpType
    <2>4. CASE Type(o) \/ Enter(o)
      BY <2>1, <2>4 DEF Type, Enter, Finish, Goto, OpType
    <2> QED BY <2>1, <2>2, <2>3, <2>4 DEF Ended, Step, TextReady, SendKey, ReadChoice, Press,
               ClearInput, NotBusy, Look, MoveTo
  <1>3. ASSUME NEW q \in Op, NEW n \in Name,
               \/ \E kind \in Kinds : Start(q, kind, n)
               \/ \E p \in Pane : NewSession(q, p, n)
               \/ \E m \in Name : Move(q, n, m)
        PROVE  FALSE
    <2>1. q = o /\ op'[q].pc \in {"lock", "poll", "clear", "look", "moveTo"}
      BY <1>1, <1>3, Begins
    <2> QED BY <2>1
  <1>4. ~\E p \in Pane : Claude(p)
    BY ClaudeEvolves
  <1> QED BY <1>2, <1>3, <1>4 DEF Next

LEMMA WaitsKept ==
  ASSUME Types, Names, LockInv, Next, PaneStep, Progress, NEW o \in Op, Waits(o)
  PROVE  Waits(o)'
  <1> SUFFICES ASSUME op'[o].kind = "autoRename", op'[o].pc = "type", KeepsName(o)',
                      NEW p \in Pane, pane'[p].name = op'[o].name, pane'[p].tui # "none"
               PROVE  pane'[p].tui = "idle" \/ pane'[p].outside
    BY DEF Waits, Targets
  <1>1. CASE op'[o] = op[o]
    <2>1. CASE pane'[p] = pane[p]
      BY <1>1, <2>1, NameKept DEF Waits, Targets
    <2>2. CASE Evolves(p)
      BY <1>1, <2>2, WaitsOn
    <2> QED BY <2>1, <2>2 DEF PaneStep, Still, Evolves
  <1>2. CASE op'[o] # op[o]
    <2>1. Recheck(o) /\ pane' = pane
      BY <1>2, Rechecks DEF Recheck
    <2>2. op'[o].name = op[o].name /\ op[o].name \in Name /\ op[o].name # None
      BY <2>1, Remains, At, Nones DEF Recheck
    <2>3. Idle(op[o].name)
      <3>1. ~Finish(o, "poll")
        <4>1. op[o] \in OpType /\ o \in DOMAIN op
          BY At DEF Types
        <4> QED BY <4>1 DEF Finish, Goto, OpType
      <3> QED BY <2>1, <3>1 DEF Recheck
    <2> QED BY <2>1, <2>2, <2>3 DEF Idle, Targets, Names
  <1> QED BY <1>1, <1>2

-----------------------------------------------------------------------------
(* The text that is sent *)

InLine(o) == \E p \in Pane : o \in ToSet(pane[p].line) /\ pane[p].name = op[o].name
Reached(o) == o \in blind \/ Made("rc") \/ \E line \in lines : o \in ToSet(line)

\* The text that was typed is in the readline until it is submitted, unless it
\* is blind or sessionRc clears readlines.
Sent(o) ==
  op[o].kind = "text" /\ op[o].pc \in {"enter", "ok"} /\ KeepsName(o) =>
    Reached(o) \/ (op[o].pc = "enter" /\ InLine(o))

LEMMA ReachedKept ==
  ASSUME Types, Progress, blind \subseteq blind', lines \subseteq lines', NEW o \in Op, Reached(o)
  PROVE  Reached(o)'
  <1>1. CASE Made("rc")
    <2>1. PICK q \in Op : op[q].kind = "rc"
      BY <1>1 DEF Made
    <2>2. op[q].pc # "idle"
      BY <2>1, At, Nones DEF Kinds
    <2>3. op'[q].kind = "rc"
      BY <2>1, <2>2, Remains
    <2> QED BY <2>3 DEF Made, Reached
  <1> QED BY <1>1 DEF Reached

\* What becomes of the text, whatever the step does to its pane.
LEMMA TextKept ==
  ASSUME Types, Names, LockInv, Progress, LinesInv, blind \subseteq blind', lines \subseteq lines',
         NEW o \in Op, op[o].kind = "text", op[o].pc = "enter", KeepsName(o)', op'[o].name = op[o].name,
         NEW p \in Pane, o \in ToSet(pane[p].line), pane[p].name = op[o].name, Evolves(p)
  PROVE  Reached(o)' \/ (o \in ToSet(pane'[p].line) /\ pane'[p].name = op'[o].name)
  <1>0. /\ ToSet(pane[p].line) \subseteq blind \/ Reading(p)
        /\ pane[p].line \in Seq(Op) /\ pane[p].raw \in Seq(Op) /\ pane[p].line # <<>>
    BY SetOfEmpty DEF LinesInv, Line, Types, PaneType
  <1>1. CASE o \in blind'
    BY <1>1 DEF Reached
  <1>2. CASE Runs(p)
    BY <1>2 DEF Runs
  <1>3. CASE Resumes(p) \/ Shuts(p) \/ Opens(p)
    <2>1. ~Reading(p)
      BY <1>3 DEF Resumes, Shuts, Opens, Reading
    <2> QED BY <1>0, <1>1, <2>1
  <1>4. ASSUME NEW q \in Op, TakesText(p, q)
        PROVE  o \in ToSet(pane'[p].line) /\ pane'[p].name = op'[o].name
    BY <1>0, <1>4, SetOfAppend DEF TakesText
  <1>5. ASSUME NEW q \in Op, Submits(p, q)
        PROVE  Reached(o)'
    BY <1>5 DEF Submits, Reached
  <1>6. ASSUME NEW q \in Op, Wipes(p, q)
        PROVE  Reached(o)'
    <2>1. CASE op[q].kind = "rc"
      <3>1. Reached(o)
        BY <2>1 DEF Reached, Made
      <3> QED BY <3>1, ReachedKept
    <2>2. CASE op[q].kind = "key" /\ op[q].pc = "ready"
      <3>1. Locked(op[q]) /\ Locked(op[o]) /\ op[q].name = op[o].name
        BY <1>6, <2>2 DEF Wipes, Locked, Locking, Holding
      <3> QED BY <2>2, <3>1, OneHolder
    <2> QED BY <1>6, <2>1, <2>2 DEF Wipes
  <1>7. ~\E q \in Op : Renames(p, q)
    BY NotRenamed
  <1> QED BY <1>2, <1>3, <1>4, <1>5, <1>6, <1>7 DEF Evolves

\* A text that comes to its Enter, or to its end.
LEMMA TextSteps ==
  ASSUME Types, Next, NEW o \in Op, op'[o] # op[o], op'[o].kind = "text", op'[o].pc \in {"enter", "ok"}
  PROVE  Type(o) \/ Enter(o)
  <1>1. ASSUME NEW q \in Op, Advances(q)
        PROVE  q = o
    BY <1>1 DEF Advances
  <1>2. ASSUME NEW q \in Op, Step(q)
        PROVE  Type(o) \/ Enter(o)
    <2>1. q = o /\ op[o].kind = "text" /\ Step(o) /\ op[o] \in OpType /\ o \in DOMAIN op
      <3>1. q = o /\ Step(o)
        BY <1>1, <1>2, StepMoves
      <3>2. op[o].pc # "idle"
        BY <3>1 DEF Step, Lock, TextReady, Type, Enter, SendKey, ReadChoice,
           Press, Poll, Recheck, ClearInput, NotBusy, Look, MoveTo
      <3>3. Progress
        BY OpsProgress
      <3> QED BY <3>1, <3>2, <3>3, Remains, At DEF Types
    <2>2. op[o].pc \in {"lock", "ready", "type", "enter"} \union Ended
      BY <2>1, At DEF Points
    <2>3. CASE Lock(o) \/ TextReady(o)
      BY <2>1, <2>3 DEF Lock, TextReady, Finish, Goto, OpType
    <2> QED BY <2>1, <2>2, <2>3 DEF Ended, Step, SendKey, ReadChoice, Press, Poll, Recheck,
               ClearInput, NotBusy, Look, MoveTo
  <1>3. ASSUME NEW q \in Op, NEW n \in Name,
               \/ \E kind \in Kinds : Start(q, kind, n)
               \/ \E p \in Pane : NewSession(q, p, n)
               \/ \E m \in Name : Move(q, n, m)
        PROVE  FALSE
    <2>1. q = o /\ op'[q].pc \in {"lock", "poll", "clear", "look", "moveTo"}
      BY <1>1, <1>3, Begins
    <2> QED BY <2>1
  <1>4. ~\E p \in Pane : Claude(p)
    BY ClaudeEvolves
  <1> QED BY <1>2, <1>3, <1>4 DEF Next

LEMMA SentKept ==
  ASSUME Types, Names, LockInv, LinesInv, Next, PaneStep, Progress, NEW o \in Op, Sent(o)
  PROVE  Sent(o)'
  <1>0. blind \subseteq blind' /\ lines \subseteq lines'
    BY Blinds, SubmittedKept
  <1> SUFFICES ASSUME op'[o].kind = "text", op'[o].pc \in {"enter", "ok"}, KeepsName(o)'
               PROVE  Reached(o)' \/ (op'[o].pc = "enter" /\ InLine(o)')
    BY DEF Sent
  <1>1. CASE Reached(o)
    BY <1>0, <1>1, ReachedKept
  <1>2. CASE op'[o] = op[o] /\ ~Reached(o)
    <2>1. op[o].pc = "enter" /\ InLine(o)
      BY <1>2, NameKept DEF Sent
    <2>2. PICK p \in Pane : o \in ToSet(pane[p].line) /\ pane[p].name = op[o].name
      BY <2>1 DEF InLine
    <2>3. CASE pane'[p] = pane[p]
      BY <1>2, <2>1, <2>2, <2>3 DEF InLine
    <2>4. CASE Evolves(p)
      BY <1>0, <1>2, <2>1, <2>2, <2>4, TextKept DEF InLine
    <2> QED BY <2>3, <2>4 DEF PaneStep, Still, Evolves
  <1>3. CASE op'[o] # op[o] /\ ~Reached(o)
    <2>1. CASE Type(o) /\ op'[o].pc = "enter"
      <3>1. op[o] \in OpType /\ o \in DOMAIN op /\ op'[o].name = op[o].name
        BY <2>1, At, Remains DEF Types, Type
      <3>2. SessionAlive(op[o].name)
        BY <2>1, <3>1 DEF Type, Finish, Goto, OpType
      <3>3. PICK p \in Pane : pane[p].name = op[o].name /\ TypeText(p, o)
        BY <2>1, <3>2 DEF Type, Targets
      <3>4. pane[p] \in PaneType /\ pane[p].line \in Seq(Op) /\ p \in DOMAIN pane
        BY DEF Types, PaneType
      <3>5. CASE Reading(p)
        <4>1. pane'[p].line = Append(pane[p].line, o) /\ pane'[p].name = pane[p].name
          BY <3>3, <3>4, <3>5 DEF TypeText, PaneType
        <4>2. o \in ToSet(pane'[p].line)
          BY <3>4, <4>1, SetOfAppend
        <4> QED BY <2>1, <3>1, <3>3, <4>1, <4>2 DEF InLine
      <3>6. CASE ~Reading(p)
        BY <3>3, <3>6 DEF TypeText, Reached
      <3> QED BY <3>5, <3>6
    <2>2. CASE Enter(o)
      <3>1. op[o].pc = "enter" /\ op'[o].kind = op[o].kind
        BY <2>2, Remains DEF Enter
      <3>2. KeepsName(o) /\ InLine(o)
        BY <1>3, <3>1, NameKept DEF Sent
      <3>3. PICK p \in Pane : o \in ToSet(pane[p].line)
        BY <3>2 DEF InLine
      <3>4. o \in Plain
        BY <1>3, <3>1, <3>2 DEF Plain, Locking, Reached
      <3>5. pane[p].line \in lines'
        BY <2>2, <3>3, <3>4, PlainSubmits DEF LinesInv
      <3> QED BY <3>3, <3>5 DEF Reached
    <2>3. op'[o].pc = "ok" => ~Type(o)
      <3>1. op[o] \in OpType /\ o \in DOMAIN op
        BY At DEF Types
      <3> QED BY <3>1 DEF Type, Finish, Goto, OpType
    <2> QED BY <1>3, <2>1, <2>2, <2>3, TextSteps
  <1> QED BY <1>1, <1>2, <1>3

-----------------------------------------------------------------------------
(* The choice that is confirmed *)

\* No other request sends keys while a session starts.
Undisturbed ==
  ~\E o, q \in Op : o # q /\ op[o].kind = "startup" /\ op[q].kind \in {"choice", "key", "startup"}

\* The cursor is where the presses left to send will bring it to the option.
Aimed(r, cursor) ==
  \/ r.pc = "press" /\ r.left = 1 /\ cursor = 1 /\ r.want = 0 /\ r.step = "up"
  \/ r.pc = "press" /\ r.left = 1 /\ cursor = 0 /\ r.want = 1 /\ r.step = "down"
  \/ ~(r.pc = "press" /\ r.left = 1) /\ cursor = r.want

Aims(o) ==
  /\ op[o].kind # "choice" => op[o].step = "down"
  /\ op[o].kind = "startup" /\ op[o].pc \in {"press", "enter"} => op[o].want = Trust
  /\ op[o].dialog # <<>> => op[o].dialog[2] <= pane[op[o].dialog[1]].dialog
  /\ op[o].kind \in {"choice", "startup"} /\ op[o].pc \in {"press", "enter"} /\ Undisturbed /\ KeepsName(o) =>
       \A p \in Pane : op[o].dialog = Dialog(p) /\ Blocked(p) =>
         pane[p].name = op[o].name /\ Aimed(op[o], pane[p].cursor)

\* A session that starts finds the cursors of its dialogs where they were.
Pressing(q) == op[q].kind \in {"choice", "key"} \/ (op[q].kind = "startup" /\ op[q].want = Trust)
Resting == (\E q \in Op : Pressing(q)) \/ \A p \in Pane : pane[p].cursor = 0

Picked(k) ==
  /\ op[k.op].kind = "choice" => op[k.op].pc \in Ended
  /\ op[k.op].kind = "startup" => op[k.op].want = Trust
  /\ op[k.op].kind \in {"choice", "startup"} /\ k.same /\ KeepsName(k.op) /\ Undisturbed =>
       k.picked = op[k.op].want

AimInv == (\A o \in Op : Aims(o)) /\ Resting /\ \A k \in picks : op[k.op].pc # "idle" /\ Picked(k)

LEMMA KindKept ==
  ASSUME Types, Progress, NEW o \in Op, op[o].kind # None
  PROVE  op'[o].kind = op[o].kind /\ op'[o].name = op[o].name
  BY Remains, At

LEMMA UndisturbedKept ==
  ASSUME Types, Progress, Undisturbed'
  PROVE  Undisturbed
  <1>1. ASSUME NEW o \in Op, NEW q \in Op, op[o].kind = "startup", op[q].kind \in {"choice", "key", "startup"}
        PROVE  op'[o].kind = "startup" /\ op'[q].kind = op[q].kind
    BY <1>1, KindKept, Nones DEF Kinds, Locking
  <1> QED BY <1>1 DEF Undisturbed

\* What a step does to a request's aim: it takes one, sends one of its presses,
\* or leaves it.
TakesAim(o) ==
  /\ ReadChoice(o) \/ (Look(o) /\ op[o].want # Trust)
  /\ op[o].kind \in {"choice", "startup"} /\ op'[o].pc = "press" /\ pane' = pane
  /\ \E p \in Pane :
       /\ op'[o].dialog = Dialog(p) /\ pane[p].name = op[o].name /\ pane[p].tui # "none"
       /\ \/ op[o].kind = "choice" /\ Aimed(op'[o], pane[p].cursor)
          \/ op[o].kind = "startup" /\ op'[o].want = Trust /\ op'[o].left = 1 /\ op'[o].step = op[o].step
KeepsAim(o) ==
  op'[o].want = op[o].want /\ op'[o].step = op[o].step /\ op'[o].dialog = op[o].dialog

LEMMA GotoKeeps ==
  ASSUME Types, NEW o \in Op, NEW pc \in PCs, Goto(o, pc) \/ Finish(o, pc)
  PROVE  KeepsAim(o) /\ op'[o].pc = pc /\ op'[o].kind = op[o].kind /\ op'[o].left = op[o].left
  <1>1. op[o] \in OpType /\ o \in DOMAIN op
    BY At DEF Types
  <1> QED BY <1>1 DEF Goto, Finish, KeepsAim, OpType

LEMMA ChoiceAims ==
  ASSUME Types, NEW o \in Op, ReadChoice(o)
  PROVE  (KeepsAim(o) /\ op'[o].pc = "error") \/ TakesAim(o)
  <1>1. CASE Finish(o, "error")
    BY <1>1, GotoKeeps DEF PCs
  <1>2. CASE \E p \in Targets(op[o].name), want \in Options :
               op' = [op EXCEPT ![o] =
                 [@ EXCEPT !.pc = "press", !.want = want, !.dialog = Dialog(p),
                           !.left = IF want = pane[p].cursor THEN 0 ELSE 1,
                           !.step = IF want < pane[p].cursor THEN "up" ELSE "down"]]
    <2>1. PICK p \in Pane, want \in Options :
             /\ p \in Targets(op[o].name)
             /\ op' = [op EXCEPT ![o] =
                 [@ EXCEPT !.pc = "press", !.want = want, !.dialog = Dialog(p),
                           !.left = IF want = pane[p].cursor THEN 0 ELSE 1,
                           !.step = IF want < pane[p].cursor THEN "up" ELSE "down"]]
      BY <1>2 DEF Targets
    <2> DEFINE left == IF want = pane[p].cursor THEN 0 ELSE 1
               step == IF want < pane[p].cursor THEN "up" ELSE "down"
    <2>2. op[o].kind = "choice" /\ op[o].pc = "ready" /\ pane' = pane
      BY DEF ReadChoice
    <2>3. op' = [op EXCEPT ![o] = [op[o] EXCEPT !.pc = "press", !.want = want, !.dialog = Dialog(p),
                                               !.left = left, !.step = step]]
      BY <2>1
    <2>4. pane[p].cursor \in {0, 1} /\ want \in {0, 1}
      BY DEF Types, PaneType, Options
    <2>5. \/ want = 0 /\ pane[p].cursor = 1 /\ left = 1 /\ step = "up"
          \/ want = 1 /\ pane[p].cursor = 0 /\ left = 1 /\ step = "down"
          \/ want = pane[p].cursor /\ left = 0
      BY <2>4
    <2> HIDE DEF left, step
    <2>6. /\ op'[o].pc = "press" /\ op'[o].want = want /\ op'[o].left = left
          /\ op'[o].step = step /\ op'[o].dialog = Dialog(p)
      <3>1. op[o] \in OpType /\ o \in DOMAIN op
        BY At DEF Types
      <3> QED BY <2>3, <3>1 DEF OpType
    <2>7. Aimed(op'[o], pane[p].cursor)
      BY <2>5, <2>6 DEF Aimed
    <2> QED BY <2>1, <2>2, <2>6, <2>7 DEF TakesAim, Targets
  <1> QED BY <1>1, <1>2 DEF ReadChoice

LEMMA LookAims ==
  ASSUME Types, NEW o \in Op, Look(o)
  PROVE  (KeepsAim(o) /\ op'[o].pc \in Ended) \/ TakesAim(o)
  <1>1. CASE \E pc \in Ended : Goto(o, pc)
    BY <1>1, GotoKeeps DEF PCs, Ended
  <1>2. CASE \E p \in Targets(op[o].name) :
               /\ pane[p].tui = "trust" /\ op[o].want # Trust /\ UNCHANGED pane
               /\ op' = [op EXCEPT ![o] =
                    [@ EXCEPT !.pc = "press", !.want = Trust, !.left = 1, !.dialog = Dialog(p)]]
    <2>1. PICK p \in Pane :
            /\ p \in Targets(op[o].name) /\ op[o].want # Trust /\ UNCHANGED pane
            /\ op' = [op EXCEPT ![o] =
                 [@ EXCEPT !.pc = "press", !.want = Trust, !.left = 1, !.dialog = Dialog(p)]]
      BY <1>2 DEF Targets
    <2>2. op[o].kind = "startup" /\ op[o] \in OpType /\ o \in DOMAIN op
      BY Whereabouts, At DEF Look, Types
    <2>3. /\ op'[o].pc = "press" /\ op'[o].want = Trust /\ op'[o].left = 1
          /\ op'[o].step = op[o].step /\ op'[o].dialog = Dialog(p)
      BY <2>1, <2>2 DEF OpType
    <2> QED BY <2>1, <2>2, <2>3 DEF TakesAim, Targets
  <1> QED BY <1>1, <1>2 DEF Look, Ended

\* One press sent, or none left to send.
PressesOn(o) ==
  /\ op[o].pc = "press"
  /\ \/ op[o].left = 0 /\ op'[o].pc = "enter" /\ pane' = pane
     \/ op[o].left = 1 /\ op'[o].pc = "press" /\ op'[o].left = 0 /\ Arrow(op[o].name, op[o].step)

LEMMA PressAims ==
  ASSUME Types, NEW o \in Op, Press(o)
  PROVE  KeepsAim(o) /\ (op'[o].pc = "error" \/ PressesOn(o))
  <1>0. op[o] \in OpType /\ o \in DOMAIN op /\ op[o].pc = "press"
    BY At DEF Types, Press
  <1>1. CASE Finish(o, "error")
    BY <1>1, GotoKeeps DEF PCs
  <1>2. CASE op[o].left = 0 /\ Goto(o, "enter") /\ UNCHANGED pane
    BY <1>0, <1>2, GotoKeeps DEF PCs, PressesOn
  <1>3. CASE op[o].left > 0 /\ Arrow(op[o].name, op[o].step) /\ op' = [op EXCEPT ![o].left = @ - 1]
    <2>1. op[o].left = 1
      BY <1>0, <1>3 DEF OpType
    <2>2. KeepsAim(o) /\ op'[o].pc = "press" /\ op'[o].left = 0
      BY <1>0, <1>3, <2>1 DEF KeepsAim, OpType
    <2> QED BY <1>0, <1>3, <2>1, <2>2 DEF PressesOn
  <1> QED BY <1>1, <1>2, <1>3 DEF Press

LEMMA AimSteps ==
  ASSUME Types, Next, NEW o \in Op
  PROVE  \/ TakesAim(o)
         \/ /\ KeepsAim(o)
            /\ \/ op'[o] = op[o] \/ PressesOn(o)
               \/ op'[o].pc \notin {"press", "enter"} \/ op'[o].kind \notin {"choice", "startup"}
  <1>0. op[o] \in OpType /\ o \in DOMAIN op
    BY At DEF Types
  <1>1. CASE op'[o] = op[o]
    BY <1>1 DEF KeepsAim
  <1>2. ASSUME op'[o] # op[o], NEW q \in Op, Advances(q)
        PROVE  q = o
    BY <1>2 DEF Advances
  <1>3. ASSUME Step(o)
        PROVE  \/ TakesAim(o)
               \/ /\ KeepsAim(o)
                  /\ \/ PressesOn(o)
                     \/ op'[o].pc \notin {"press", "enter"} \/ op'[o].kind \notin {"choice", "startup"}
    <2>1. CASE Lock(o) \/ TextReady(o) \/ Poll(o) \/ Recheck(o) \/ ClearInput(o) \/ MoveTo(o)
      <3>1. \E pc \in PCs \ {"press", "enter"} : Goto(o, pc) \/ Finish(o, pc)
        BY <2>1 DEF Lock, TextReady, Poll, Recheck, ClearInput, MoveTo, PCs
      <3> QED BY <3>1, GotoKeeps
    <2>2. CASE Type(o) \/ SendKey(o)
      <3>1. op[o].kind \notin {"choice", "startup"}
        BY <2>2, Whereabouts DEF Type, SendKey
      <3>2. \E pc \in PCs : Goto(o, pc) \/ Finish(o, pc)
        BY <2>2 DEF Type, SendKey, PCs
      <3> QED BY <3>1, <3>2, GotoKeeps
    <2>3. CASE NotBusy(o)
      <3>1. op[o].kind = "rc"
        BY <2>3, Whereabouts DEF NotBusy
      <3>2. CASE Goto(o, "error")
        BY <3>2, GotoKeeps DEF PCs
      <3>3. CASE \E again \in {0, 1} : op' = [op EXCEPT ![o].pc = "type", ![o].left = again]
        BY <1>0, <3>1, <3>3 DEF KeepsAim, OpType
      <3> QED BY <2>3, <3>2, <3>3 DEF NotBusy
    <2>4. CASE Enter(o)
      <3>1. CASE \E pc \in PCs \ {"press", "enter"} : Goto(o, pc) \/ Finish(o, pc)
        BY <3>1, GotoKeeps
      <3>2. CASE op' = [op EXCEPT ![o].pc = "type", ![o].left = 0]
        BY <1>0, <3>2 DEF KeepsAim, OpType
      <3> QED BY <2>4, <3>1, <3>2 DEF Enter, PCs
    <2> QED BY <1>3, <2>1, <2>2, <2>3, <2>4, ChoiceAims, LookAims, PressAims DEF Step, Ended
  <1>4. ASSUME NEW q \in Op, NEW n \in Name,
               \/ \E kind \in Kinds : Start(q, kind, n)
               \/ \E p \in Pane : NewSession(q, p, n)
               \/ \E m \in Name : Move(q, n, m),
               op'[o] # op[o]
        PROVE  KeepsAim(o) /\ op'[o].pc \notin {"press", "enter"}
    <2>1. q = o /\ op'[q].pc \in {"lock", "poll", "clear", "look", "moveTo"}
      BY <1>2, <1>4, Begins
    <2> QED BY <1>4, <2>1, Begins DEF KeepsAim
  <1>5. op'[o] # op[o] => ~\E p \in Pane : Claude(p)
    BY ClaudeEvolves
  <1>6. ASSUME NEW q \in Op, Step(q), op'[o] # op[o]
        PROVE  Step(o)
    BY <1>2, <1>6, StepMoves
  <1> QED BY <1>1, <1>3, <1>4, <1>5, <1>6 DEF Next

\* The dialogs of a pane are numbered upwards.
LEMMA DialogsGrow ==
  ASSUME Types, PaneStep, NEW p \in Pane
  PROVE  pane'[p].dialog \in Nat /\ pane[p].dialog \in Nat /\ pane[p].dialog <= pane'[p].dialog
  <1>1. pane[p].dialog \in Nat
    BY Nones DEF Types, PaneType
  <1> QED BY <1>1 DEF PaneStep, Still, Evolves, Dialogs

\* An arrow of the request that aims: the cursor comes to the option.
LEMMA ArrowAims ==
  ASSUME Types, Names, NEW o \in Op, op[o].pc = "press", op[o].left = 1,
         op'[o].pc = "press", op'[o].left = 0, KeepsAim(o),
         Arrow(op[o].name, op[o].step), NEW p \in Pane, Blocked(p),
         pane[p].name = op[o].name, Aimed(op[o], pane[p].cursor)
  PROVE  Aimed(op'[o], pane'[p].cursor) /\ pane'[p].name = pane[p].name
  <1>1. Targets(op[o].name) = {p}
    <2>1. op[o].name # None /\ pane[p].tui # "none"
      BY At, Nones DEF Blocked
    <2> QED BY <2>1 DEF Targets, Names
  <1>2. PICK c \in Steps(p, op[o].step) : pane' = [pane EXCEPT ![p].cursor = c]
    BY <1>1 DEF Arrow
  <1>3. pane[p] \in PaneType /\ p \in DOMAIN pane
    BY DEF Types
  <1>4. pane'[p].cursor = c /\ pane'[p].name = pane[p].name
    BY <1>2, <1>3 DEF PaneType
  <1>5. \/ pane[p].cursor = 1 /\ op[o].want = 0 /\ op[o].step = "up"
        \/ pane[p].cursor = 0 /\ op[o].want = 1 /\ op[o].step = "down"
    BY DEF Aimed
  <1>6. c = op[o].want
    BY <1>2, <1>5 DEF Steps
  <1> QED BY <1>4, <1>6 DEF Aimed, KeepsAim

\* Nobody else's arrow comes between: the lock, or the session's start, is in the way.
LEMMA NobodyPresses ==
  ASSUME Types, LockInv, Undisturbed, NEW o \in Op, op'[o] = op[o],
         op[o].kind \in {"choice", "startup"}, op[o].pc \in {"press", "enter"},
         NEW p \in Pane, pane[p].name = op[o].name, NEW q \in Op, Presses(p, q)
  PROVE  FALSE
  <1>1. op[q].name = op[o].name
    BY DEF Presses
  <1>2. q # o
    BY DEF Presses
  <1>3. op[q].kind \in {"key", "choice", "startup"}
    BY Whereabouts DEF Presses
  <1>4. CASE op[o].kind = "startup" \/ op[q].kind = "startup"
    BY <1>2, <1>3, <1>4 DEF Undisturbed
  <1>5. CASE op[o].kind # "startup" /\ op[q].kind # "startup"
    <2>1. Locked(op[o]) /\ Locked(op[q])
      BY <1>3, <1>5 DEF Locked, Locking, Holding, Presses
    <2> QED BY <1>1, <1>2, <2>1, OneHolder
  <1> QED BY <1>4, <1>5

LEMMA NameStays ==
  ASSUME Types, Progress, NEW p \in Pane, Evolves(p), Blocked(p), Blocked(p)',
         NEW o \in Op, op[o].pc # "idle", pane[p].name = op[o].name, KeepsName(o)'
  PROVE  pane'[p].name = pane[p].name
  <1>1. ~\E q \in Op : Renames(p, q)
    BY NotRenamed
  <1>2. ~Shuts(p) /\ ~Opens(p)
    BY DEF Shuts, Opens, Blocked
  <1> QED BY <1>1, <1>2 DEF Evolves, Runs, Resumes, TakesText, Submits, Wipes

LEMMA AimsOn ==
  ASSUME Types, Names, LockInv, Progress, PaneStep, NEW o \in Op, Aims(o), op'[o] = op[o],
         op[o].kind \in {"choice", "startup"}, op[o].pc \in {"press", "enter"}, Undisturbed, KeepsName(o)',
         NEW p \in Pane, op[o].dialog = <<p, pane'[p].dialog>>, Blocked(p)'
  PROVE  pane'[p].name = op[o].name /\ Aimed(op[o], pane'[p].cursor)
  <1>1. op[o].dialog # <<>> /\ op[o].dialog[1] = p /\ op[o].dialog[2] = pane'[p].dialog
    OBVIOUS
  <1>2. pane'[p].dialog = pane[p].dialog
    <2>1. pane'[p].dialog <= pane[p].dialog
      BY <1>1 DEF Aims
    <2> QED BY <2>1, DialogsGrow
  <1>3. op[o].dialog = Dialog(p)
    BY <1>2 DEF Dialog
  <1>4. CASE pane'[p] = pane[p]
    BY <1>3, <1>4, NameKept DEF Aims, Blocked
  <1>5. CASE Evolves(p)
    <2>1. pane'[p].dialog # pane[p].dialog + 1
      BY <1>2, DialogsGrow
    <2>2. Blocked(p) /\ (pane'[p].cursor = pane[p].cursor \/ \E q \in Op : Presses(p, q))
      BY <1>5, <2>1 DEF Evolves, Dialogs
    <2>3. pane[p].name = op[o].name /\ Aimed(op[o], pane[p].cursor)
      BY <1>3, <2>2, NameKept DEF Aims
    <2>4. pane'[p].cursor = pane[p].cursor
      BY <2>2, <2>3, NobodyPresses
    <2>5. pane'[p].name = pane[p].name
      BY <1>5, <2>2, <2>3, NameStays
    <2> QED BY <2>3, <2>4, <2>5
  <1> QED BY <1>4, <1>5 DEF PaneStep, Still, Evolves

LEMMA RestingKept ==
  ASSUME Types, PaneStep, Progress, Next, Resting, \A o \in Op : Aims(o)
  PROVE  Resting'
  <1>1. ASSUME NEW q \in Op, Pressing(q)
        PROVE  Pressing(q)'
    <2>1. op'[q].kind = op[q].kind /\ op[q].pc # "idle"
      BY <1>1, KindKept, At, Nones DEF Pressing, Kinds, Locking
    <2>2. op[q].kind = "startup" => op'[q].want = Trust
      BY <1>1, <2>1, AimSteps DEF Pressing, TakesAim, KeepsAim
    <2> QED BY <1>1, <2>1, <2>2 DEF Pressing
  <1>2. ASSUME NEW p \in Pane, NEW q \in Op, Presses(p, q)
        PROVE  Pressing(q)
    <2>1. op[q].kind \in {"key", "choice", "startup"}
      BY <1>2, Whereabouts DEF Presses
    <2>2. op[q].kind = "startup" => op[q].pc = "press"
      BY <1>2 DEF Presses
    <2> QED BY <2>1, <2>2 DEF Aims, Pressing
  <1>3. CASE \E q \in Op : Pressing(q)
    BY <1>1, <1>3 DEF Resting
  <1>4. CASE ~\E q \in Op : Pressing(q)
    <2>1. \A p \in Pane : pane[p].cursor = 0
      BY <1>4 DEF Resting
    <2>2. \A p \in Pane : pane'[p].cursor = 0
      BY <1>2, <1>4, <2>1 DEF PaneStep, Still, Evolves, Dialogs
    <2> QED BY <2>2 DEF Resting
  <1> QED BY <1>3, <1>4

LEMMA AimsKept ==
  ASSUME Types, Names, LockInv, PaneStep, Progress, Next, Resting, NEW o \in Op, Aims(o)
  PROVE  Aims(o)'
  <1>0. op[o] \in OpType /\ op'[o] \in OpType
    <2>1. op' \in [Op -> OpRecord]
      BY DEF Progress, Advances, Types
    <2> QED BY <2>1, At DEF OpRecord
  <1>1. op'[o].kind # "choice" => op'[o].step = "down"
    <2>1. CASE KeepsAim(o)
      <3>1. op[o].kind = "choice" => op'[o].kind = "choice"
        BY KindKept, Nones DEF Kinds, Locking
      <3> QED BY <2>1, <3>1 DEF KeepsAim, Aims
    <2>2. CASE TakesAim(o)
      <3>1. op'[o].kind = op[o].kind
        BY <2>2, KindKept, Nones DEF TakesAim, Kinds, Locking
      <3> QED BY <2>2, <3>1 DEF TakesAim, Aims
    <2> QED BY <2>1, <2>2, AimSteps
  <1>2. op'[o].kind = "startup" /\ op'[o].pc \in {"press", "enter"} => op'[o].want = Trust
    <2>1. CASE TakesAim(o)
      <3>1. op'[o].kind = op[o].kind
        BY <2>1, KindKept, Nones DEF TakesAim, Kinds, Locking
      <3> QED BY <2>1, <3>1 DEF TakesAim
    <2>2. CASE KeepsAim(o) /\ PressesOn(o)
      <3>1. op'[o].kind = op[o].kind
        BY <2>2, Remains DEF PressesOn
      <3> QED BY <2>2, <3>1 DEF PressesOn, KeepsAim, Aims
    <2>3. CASE op'[o] = op[o]
      BY <2>3 DEF Aims
    <2> QED BY <2>1, <2>2, <2>3, AimSteps
  <1>3. op'[o].dialog # <<>> => op'[o].dialog[2] <= pane'[op'[o].dialog[1]].dialog
    <2>1. CASE KeepsAim(o) /\ op[o].dialog # <<>>
      <3>1. op[o].dialog[1] \in Pane /\ op[o].dialog[2] \in Nat
        BY <1>0, <2>1 DEF OpType
      <3>2. op[o].dialog[2] <= pane[op[o].dialog[1]].dialog
        BY <2>1 DEF Aims
      <3> QED BY <2>1, <3>1, <3>2, DialogsGrow DEF KeepsAim
    <2>2. CASE TakesAim(o)
      <3>1. PICK p \in Pane : op'[o].dialog = <<p, pane[p].dialog>>
        BY <2>2 DEF TakesAim, Dialog
      <3> QED BY <3>1, DialogsGrow
    <2>3. CASE KeepsAim(o) /\ op[o].dialog = <<>>
      BY <2>3 DEF KeepsAim
    <2> QED BY <2>1, <2>2, <2>3, AimSteps
  <1>4. ASSUME op'[o].kind \in {"choice", "startup"}, op'[o].pc \in {"press", "enter"}, Undisturbed', KeepsName(o)',
               NEW p \in Pane, op'[o].dialog = <<p, pane'[p].dialog>>, Blocked(p)'
        PROVE  pane'[p].name = op'[o].name /\ Aimed(op'[o], pane'[p].cursor)
    <2>1. Undisturbed
      BY <1>4, UndisturbedKept
    <2>2. CASE op'[o] = op[o]
      BY <1>4, <2>1, <2>2, AimsOn
    <2>3. CASE KeepsAim(o) /\ PressesOn(o)
      <3>1. /\ op[o].pc = "press" /\ op'[o].kind = op[o].kind /\ op'[o].name = op[o].name /\ KeepsName(o)
            /\ op[o].dialog = <<p, pane'[p].dialog>>
        BY <1>4, <2>3, Remains, NameKept DEF PressesOn, KeepsAim
      <3>2. CASE op[o].left = 0 /\ op'[o].pc = "enter" /\ pane' = pane
        <4>1. pane[p].name = op[o].name /\ Aimed(op[o], pane[p].cursor)
          BY <1>4, <2>1, <3>1, <3>2 DEF Aims, Dialog, Blocked
        <4>2. pane[p].cursor = op[o].want
          BY <3>2, <4>1 DEF Aimed
        <4> QED BY <2>3, <3>1, <3>2, <4>1, <4>2 DEF Aimed, KeepsAim
      <3>3. CASE op[o].left = 1 /\ op'[o].pc = "press" /\ op'[o].left = 0 /\ Arrow(op[o].name, op[o].step)
        <4>1. PICK t \in Pane, c \in Options : pane' = [pane EXCEPT ![t].cursor = c]
          <5>1. \A t \in Pane : Steps(t, op[o].step) \subseteq Options
            BY DEF Steps, Types, PaneType, Options
          <5> QED BY <3>3, <5>1 DEF Arrow, Targets
        <4>2. pane[p] \in PaneType /\ pane[t] \in PaneType /\ p \in DOMAIN pane
          BY DEF Types
        <4>3. pane'[p].dialog = pane[p].dialog /\ pane'[p].tui = pane[p].tui
          BY <4>1, <4>2 DEF PaneType
        <4>4. op[o].dialog = Dialog(p) /\ Blocked(p)
          BY <1>4, <3>1, <4>3 DEF Dialog, Blocked
        <4>5. pane[p].name = op[o].name /\ Aimed(op[o], pane[p].cursor)
          BY <1>4, <2>1, <3>1, <4>4 DEF Aims
        <4> QED BY <2>3, <3>1, <3>3, <4>4, <4>5, ArrowAims
      <3> QED BY <2>3, <3>2, <3>3 DEF PressesOn
    <2>4. CASE TakesAim(o)
      <3>1. PICK d \in Pane : /\ op'[o].dialog = Dialog(d) /\ pane[d].name = op[o].name /\ pane' = pane
                              /\ \/ op[o].kind = "choice" /\ Aimed(op'[o], pane[d].cursor)
                                 \/ /\ op[o].kind = "startup" /\ op'[o].want = Trust /\ op'[o].left = 1
                                    /\ op'[o].step = op[o].step
        BY <2>4 DEF TakesAim
      <3>2. d = p
        BY <1>4, <3>1 DEF Dialog
      <3>3. op'[o].kind = op[o].kind /\ op'[o].name = op[o].name /\ op'[o].pc = "press"
        BY <2>4, KindKept, Nones DEF TakesAim, Kinds, Locking
      <3>4. CASE op[o].kind = "startup"
        <4>1. op[o].want # Trust
          BY <2>4, <3>4 DEF TakesAim, ReadChoice
        <4>2. ~\E q \in Op : Pressing(q)
          BY <2>1, <3>4, <4>1 DEF Undisturbed, Pressing
        <4>3. pane[p].cursor = 0 /\ op'[o].step = "down"
          BY <3>1, <3>4, <4>2 DEF Resting, Aims
        <4> QED BY <3>1, <3>2, <3>3, <3>4, <4>3 DEF Aimed, Trust
      <3> QED BY <3>1, <3>2, <3>3, <3>4
    <2> QED BY <1>4, <2>2, <2>3, <2>4, AimSteps
  <1> QED BY <1>1, <1>2, <1>3, <1>4 DEF Aims, Dialog

\* An answer given: Enter on a dialog, with the option under its cursor.
Pick(o, p) == [op |-> o, picked |-> pane[p].cursor, same |-> op[o].dialog = Dialog(p)]

LEMMA PicksGrow ==
  ASSUME Types, Next
  PROVE  \/ picks' = picks
         \/ \E o \in Op, p \in Pane : /\ Enter(o) /\ Blocked(p) /\ pane[p].name = op[o].name
                                      /\ picks' = picks \union {Pick(o, p)}
  <1>1. ASSUME NEW o \in Op, Step(o)
        PROVE  \/ picks' = picks
               \/ \E p \in Pane : /\ Enter(o) /\ Blocked(p) /\ pane[p].name = op[o].name
                                  /\ picks' = picks \union {Pick(o, p)}
    <2>1. CASE Enter(o) /\ SessionAlive(op[o].name)
      <3>1. PICK p \in Pane : pane[p].name = op[o].name /\ PressEnter(p, o)
        BY <2>1 DEF Enter, Targets
      <3> QED BY <2>1, <3>1 DEF PressEnter, Pick
    <2>2. CASE Enter(o) /\ ~SessionAlive(op[o].name)
      BY <2>2 DEF Enter
    <2> QED BY <1>1, <2>1, <2>2 DEF Step, Lock, TextReady, Type, SendKey, ReadChoice, Press, Poll,
               Recheck, ClearInput, NotBusy, Look, MoveTo, history
  <1>2. CASE \E o \in Op, n \in Name :
               \/ \E kind \in Kinds : Start(o, kind, n)
               \/ \E p \in Pane : NewSession(o, p, n)
               \/ \E m \in Name : Move(o, n, m)
    BY <1>2 DEF Start, NewSession, Move, history
  <1>3. CASE \E p \in Pane : Claude(p)
    BY <1>3, ClaudeEvolves
  <1> QED BY <1>1, <1>2, <1>3 DEF Next

LEMMA PickTyped ==
  ASSUME Types, NEW o \in Op, NEW p \in Pane
  PROVE  /\ Pick(o, p) \in [op : Op, picked : Options, same : BOOLEAN]
         /\ Pick(o, p).op = o /\ Pick(o, p).picked = pane[p].cursor
         /\ Pick(o, p).same = (op[o].dialog = Dialog(p))
  <1>1. pane[p].cursor \in Options /\ (op[o].dialog = Dialog(p)) \in BOOLEAN
    BY DEF Types, PaneType
  <1> QED BY <1>1 DEF Pick

\* What has been picked stays, whatever its request does then.
LEMMA PickedOn ==
  ASSUME Types, Progress, Next, NEW k \in picks, op[k.op].pc # "idle", Picked(k), k.op \in Op
  PROVE  op'[k.op].pc # "idle" /\ Picked(k)'
  <1> DEFINE o == k.op
  <1>1. op'[o].pc # "idle" /\ op'[o].kind = op[o].kind /\ (op[o].pc \in Ended => op'[o] = op[o])
    BY Remains
  <1>2. op[o].kind \in {"choice", "startup"} => op'[o].want = op[o].want
    <2>1. CASE op[o].kind = "choice"
      BY <1>1, <2>1 DEF Picked
    <2>2. CASE op[o].kind = "startup"
      BY <2>2, AimSteps DEF Picked, KeepsAim, TakesAim
    <2> QED BY <2>1, <2>2
  <1>3. Undisturbed' => Undisturbed
    BY UndisturbedKept
  <1>4. KeepsName(o)' => KeepsName(o)
    BY NameKept
  <1>5. k' = k
    OBVIOUS
  <1> QED BY <1>1, <1>2, <1>3, <1>4 DEF Picked

LEMMA PickedNow ==
  ASSUME Types, Progress, Next, NEW o \in Op, NEW p \in Pane, Enter(o), Blocked(p), pane[p].name = op[o].name,
         Aims(o), NEW k, k = Pick(o, p)
  PROVE  op'[k.op].pc # "idle" /\ Picked(k)'
  <1>1. k.op = o /\ k.picked = pane[p].cursor /\ k.same = (op[o].dialog = Dialog(p))
    BY PickTyped
  <1>2. op[o].pc = "enter" /\ op'[o].pc # "idle" /\ op'[o].kind = op[o].kind
    BY Remains DEF Enter
  <1>3. op[o].kind \in {"choice", "startup"} => op'[o].want = op[o].want
    BY <1>2, AimSteps DEF KeepsAim, TakesAim, ReadChoice, Look
  <1>4. op[o].kind = "choice" => op'[o].pc \in Ended
    <2>1. op[o].kind = "choice" => Finish(o, "ok") \/ Finish(o, "error")
      BY DEF Enter
    <2> QED BY <2>1, GotoKeeps DEF PCs, Ended
  <1>5. op[o].kind = "startup" => op'[o].want = Trust
    BY <1>2, <1>3 DEF Aims
  <1>6. ASSUME op[o].kind \in {"choice", "startup"}, k.same, KeepsName(o)', Undisturbed'
        PROVE  k.picked = op'[o].want
    <2>1. Undisturbed /\ KeepsName(o)
      BY <1>2, <1>6, UndisturbedKept, NameKept
    <2>2. Aimed(op[o], pane[p].cursor)
      BY <1>1, <1>2, <1>6, <2>1 DEF Aims
    <2> QED BY <1>1, <1>2, <1>3, <1>6, <2>2 DEF Aimed
  <1> QED BY <1>1, <1>2, <1>3, <1>4, <1>5, <1>6 DEF Picked

LEMMA AimKept ==
  ASSUME Types, Names, LockInv, PaneStep, Progress, Next, AimInv
  PROVE  AimInv' /\ picks' \subseteq [op : Op, picked : Options, same : BOOLEAN]
  <1>1. picks \subseteq [op : Op, picked : Options, same : BOOLEAN]
    BY DEF Types
  <1>2. (\A o \in Op : Aims(o)') /\ Resting'
    BY AimsKept, RestingKept DEF AimInv
  <1>3. \A k \in picks : op'[k.op].pc # "idle" /\ Picked(k)'
    BY <1>1, PickedOn DEF AimInv
  <1>4. ASSUME NEW o \in Op, NEW p \in Pane, Enter(o), Blocked(p), pane[p].name = op[o].name
        PROVE  /\ op'[Pick(o, p).op].pc # "idle" /\ \A k \in {Pick(o, p)} : op'[k.op].pc # "idle" /\ Picked(k)'
               /\ Pick(o, p) \in [op : Op, picked : Options, same : BOOLEAN]
    <2>1. \A k : k = Pick(o, p) => op'[k.op].pc # "idle" /\ Picked(k)'
      BY <1>4, PickedNow DEF AimInv
    <2> QED BY <2>1, PickTyped
  <1>5. /\ picks' \subseteq [op : Op, picked : Options, same : BOOLEAN]
        /\ \A k \in picks' : op'[k.op].pc # "idle" /\ Picked(k)'
    BY <1>1, <1>3, <1>4, PicksGrow
  <1> QED BY <1>2, <1>5 DEF AimInv

-----------------------------------------------------------------------------
(* The invariant *)

Inv ==
  /\ Types /\ Names /\ LockInv /\ LinesInv /\ AimInv
  /\ \A o \in Op : Waits(o) /\ Sent(o)

LEMMA InitInv == Init => Inv
  <1> SUFFICES ASSUME Init PROVE Inv
    OBVIOUS
  <1>1. op = [o \in Op |-> NewOp] /\ NewOp \in OpRecord /\ \A o \in Op : op[o] = NewOp
    BY NewTyped DEF Init
  <1>2. /\ NewOp.kind = None /\ NewOp.pc = "idle" /\ NewOp.dialog = <<>> /\ NewOp.step = "down"
    BY DEF NewOp
  <1>3. lines = {} /\ blind = {} /\ picks = {} /\ lock = [n \in Name |-> None]
    BY DEF Init
  <1>4. ASSUME NEW p \in Pane
        PROVE  /\ pane[p] \in PaneType
               /\ pane[p].line = <<>> /\ pane[p].raw = <<>> /\ pane[p].cursor = 0
    <2>1. pane[p] \in [name : Name \union {None}, tui : {"none", "boot", "idle", "working"},
                       line : {<<>>}, raw : {<<>>}, dialog : {0}, cursor : {0}, outside : {FALSE}]
      BY DEF Init
    <2>2. {"none", "boot", "idle", "working"} \subseteq TUI /\ {0} \subseteq 0..MaxDialogs /\ {0} \subseteq Options
          /\ {<<>>} \subseteq Seq(Op) /\ {FALSE} \subseteq BOOLEAN
      BY Nones, EmptySeq DEF TUI, Options
    <2> QED BY <2>1, <2>2 DEF PaneType
  <1>5. pane \in [Pane -> PaneType]
    BY <1>4 DEF Init
  <1>6. Types
    BY <1>1, <1>3, <1>5 DEF Types
  <1>7. Names
    BY DEF Init, Names
  <1>8. LockInv
    <2>1. \A o \in Op : ~Locked(op[o])
      BY <1>1, <1>2 DEF Locked, Holding
    <2>2. \A n \in Name, o \in Op : lock[n] # o
      BY <1>3, Nones
    <2> QED BY <2>1, <2>2 DEF LockInv
  <1>9. LinesInv
    BY <1>3, <1>4, SetOfEmpty DEF LinesInv, Line, Submitted, Started
  <1>10. AimInv
    <2>1. \A o \in Op : Aims(o)
      BY <1>1, <1>2, Nones DEF Aims, Kinds, Locking
    <2> QED BY <1>3, <1>4, <2>1 DEF AimInv, Resting
  <1>11. \A o \in Op : Waits(o) /\ Sent(o)
    BY <1>1, <1>2 DEF Waits, Sent
  <1> QED BY <1>6, <1>7, <1>8, <1>9, <1>10, <1>11 DEF Inv

LEMMA NextInv ==
  ASSUME Inv, Next
  PROVE  Inv'
  <1>0. Types /\ Names /\ LockInv /\ LinesInv /\ AimInv /\ \A o \in Op : Waits(o) /\ Sent(o)
    BY DEF Inv
  <1>1. Progress /\ PaneStep
    BY <1>0, OpsProgress, PanesEvolve
  <1>2. LockInv' /\ lock' \in [Name -> Op \union {None}] /\ op' \in [Op -> OpRecord]
    <2>1. CASE UNCHANGED <<op, lock>>
      BY <1>0, <2>1 DEF LockInv, Types
    <2>2. CASE \E o \in Op : Advances(o) /\ LockStep(o)
      BY <1>0, <2>2, LockKept DEF Advances
    <2> QED BY <1>1, <2>1, <2>2 DEF Progress
  <1>3. Names' /\ pane' \in [Pane -> PaneType]
    BY <1>0, <1>1, NamesKept DEF PaneStep, Still, Evolves, Types
  <1>4. LinesInv' /\ lines' \subseteq Seq(Op) /\ blind' \subseteq Op
    BY <1>0, <1>1, LinesKept, SubmittedKept
  <1>5. AimInv' /\ picks' \subseteq [op : Op, picked : Options, same : BOOLEAN]
    BY <1>0, <1>1, AimKept
  <1>6. Types'
    BY <1>2, <1>3, <1>4, <1>5 DEF Types
  <1>7. \A o \in Op : Waits(o)' /\ Sent(o)'
    BY <1>0, <1>1, WaitsKept, SentKept
  <1> QED BY <1>2, <1>3, <1>4, <1>5, <1>6, <1>7 DEF Inv

LEMMA StutterInv ==
  ASSUME Inv, UNCHANGED vars
  PROVE  Inv'
  BY DEF Inv, vars, Types, Names, LockInv, LinesInv, Line, Submitted, Started, Alone, Plain, KeepsName, Moved,
         Reading, AimInv, Aims, Aimed, Undisturbed, Resting, Pressing, Picked, Dialog, Blocked, Waits, Targets,
         Sent, Reached, Made, InLine

LEMMA Always == Spec => []Inv
  <1>1. Inv /\ [Next]_vars => Inv'
    BY NextInv, StutterInv
  <1> QED BY <1>1, InitInv, PTL DEF Spec

-----------------------------------------------------------------------------
(* The theorems *)

\* Every field of every pane and request, the lock and the histories keep
\* their types: a lock is only ever held by a request, a dialog's cursor is on
\* one of its options, and no more dialogs open than the bound.
THEOREM Typed == Spec => []TypeOK
  <1>1. Inv => TypeOK
    <2> SUFFICES ASSUME Inv PROVE TypeOK
      OBVIOUS
    <2>1. Types
      BY DEF Inv
    <2>2. \A p \in Pane : pane[p] \in PaneType
      BY <2>1 DEF Types
    <2>3. \A o \in Op : op[o] \in OpType
      BY <2>1, At
    <2> QED BY <2>1, <2>2, <2>3 DEF Types, TypeOK, PaneType, OpType
  <1> QED BY <1>1, Always, PTL

\* Whoever holds sessionSendLock is still running, and will unlock: every exit
\* of the handlers, and renameWhenIdle's between two polls, gives it back.
THEOREM HoldersRun == Spec => []HolderRuns
  <1>1. Inv => HolderRuns
    <2> SUFFICES ASSUME Inv, NEW n \in Name, Held(n)
                 PROVE  op[lock[n]].pc \notin {"idle", "ok", "error"}
      BY DEF HolderRuns
    <2>1. lock[n] \in Op
      BY DEF Inv, Types, Held
    <2>2. Locked(op[lock[n]])
      BY <2>1 DEF Inv, LockInv
    <2> QED BY <2>2 DEF Locked, Holding
  <1> QED BY <1>1, Always, PTL

\* Two requests that take the lock never end up in one submitted line, whoever
\* types without it: host.go's promise for sessionSendLock, with its conditions.
THEOREM LinesWhole == Spec => []LockedLinesWhole
  <1>1. Inv => LockedLinesWhole
    <2> SUFFICES ASSUME Inv, NEW line \in lines,
                        \A o \in ToSet(line) : op[o].kind \in Locking /\ KeepsName(o),
                        ToSet(line) \intersect blind = {}
                 PROVE  Len(line) = 1
      BY DEF LockedLinesWhole, Whole
    <2>1. ToSet(line) \subseteq Op
      BY SetTyped DEF Inv, Types
    <2>2. \A o \in ToSet(line) : o \in Plain
      BY <2>1 DEF Plain
    <2> QED BY <2>2 DEF Inv, LinesInv, Submitted, Alone
  <1> QED BY <1>1, Always, PTL

\* A message whose sender was told "sent" has been submitted, with the three
\* exceptions the code leaves: blind text, a line that sessionRc cleared, a
\* session that changed its name.
THEOREM SentSubmitted == Spec => []SentMeansSubmitted
  <1>1. Inv => SentMeansSubmitted
    BY DEF Inv, SentMeansSubmitted, Sent, Reached
  <1> QED BY <1>1, Always, PTL

\* What sessionChoice, and checkStartup on a trust dialog, confirm in the dialog
\* they read is the option they want.
THEOREM ChoicesConfirm == Spec => []ChoiceConfirms
  <1>1. Inv => ChoiceConfirms
    BY DEF Inv, AimInv, ChoiceConfirms, Picked, Undisturbed
  <1> QED BY <1>1, Always, PTL

\* renameClaudeAfterReady types its /rename only into a prompt that is idle, or
\* into a turn that nobody holding the lock started.
THEOREM RenameWaits == Spec => RenameWaitsForIdle
  <1> DEFINE A == \A o \in Op :
       op[o].kind = "autoRename" /\ op[o].pc = "type" /\ op'[o].pc = "enter" /\ KeepsName(o)
         => \E p \in Targets(op[o].name) :
              pane[p].tui = "idle" \/ pane[p].outside
  <1>1. Inv /\ [Next]_vars => [A]_vars
    <2> SUFFICES ASSUME Inv, Next, NEW o \in Op, op[o].kind = "autoRename", op[o].pc = "type",
                        op'[o].pc = "enter", KeepsName(o)
                 PROVE  \E p \in Targets(op[o].name) : pane[p].tui = "idle" \/ pane[p].outside
      BY DEF A
    <2>1. Type(o)
      <3>1. ASSUME NEW q \in Op, Advances(q)
            PROVE  q = o
        BY <3>1 DEF Advances
      <3>2. ASSUME NEW q \in Op, Step(q)
            PROVE  Type(o)
        <4>1. q = o
          BY <3>1, <3>2, StepMoves DEF Inv
        <4> QED BY <3>2, <4>1 DEF Step, Lock, TextReady, Enter, SendKey, ReadChoice, Press, Poll, Recheck,
                                  ClearInput, NotBusy, Look, MoveTo
      <3>3. ASSUME NEW q \in Op, NEW n \in Name,
                   \/ \E kind \in Kinds : Start(q, kind, n)
                   \/ \E p \in Pane : NewSession(q, p, n)
                   \/ \E m \in Name : Move(q, n, m)
            PROVE  FALSE
        BY <3>1, <3>3, Begins DEF Inv
      <3>4. ~\E p \in Pane : Claude(p)
        BY ClaudeEvolves DEF Inv
      <3> QED BY <3>2, <3>3, <3>4 DEF Next
    <2>2. SessionAlive(op[o].name)
      <3>1. op[o] \in OpType /\ o \in DOMAIN op
        BY At DEF Inv, Types
      <3> QED BY <2>1, <3>1 DEF Type, Finish, Goto, OpType
    <2>3. PICK p \in Targets(op[o].name) : TRUE
      BY <2>2 DEF SessionAlive
    <2> QED BY <2>3 DEF Inv, Waits
  <1> QED BY <1>1, Always, PTL DEF RenameWaitsForIdle, Spec
=============================================================================
