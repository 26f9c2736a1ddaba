-------------------------- MODULE PromptStoreProofs ---------------------------
(***************************************************************************)
(* Proofs about PromptStore, for any number of requests, versions and      *)
(* faults: the four invariants its run checks.                             *)
(***************************************************************************)
EXTENDS PromptStore, WellFoundedInduction, TLAPS

PCs == {"idle", "read", "scan", "drop", "keep", "act", "list", "unlink"}

\* The record of a request: what it has still to look at is not numbered below
\* the next version of its copy of the list.
OpType ==
  [kind : Kinds \union {None}, pc : PCs, id : Id \union {0}, content : New \union {None},
   m : Meta, todo : SUBSET Id]
OpRecord ==
  {r \in OpType :
     /\ r.pc # "idle" /\ r.kind \in {"saveNew", "saveOver"} => r.content \in New
     /\ r.pc = "scan" => \A n \in r.todo : r.m.next <= n
     /\ r.pc = "list" => r.kind = "saveNew" /\ r.m.next <= MaxId
     /\ r.pc = "unlink" => r.kind = "delete" /\ r.id \in Id}

Types ==
  /\ op \in [Op -> OpRecord]
  /\ meta \in Meta \union {None}
  /\ text \in [Id -> Text \union {None, Broken}]
  /\ saved \in [Id -> Text \union {None, Broken}]
  /\ faults \in Nat /\ hurt \in BOOLEAN

-----------------------------------------------------------------------------
(* Types *)

LEMMA Distinct ==
  /\ None \notin Text /\ Broken \notin Text /\ Original \notin Text /\ New \cap Legacy = {}
  /\ MaxId \in Nat \ {0} /\ Id \subseteq Nat \ {0}
  BY PromptAssumption DEF Id

LEMMA MinOf ==
  ASSUME NEW S \in SUBSET Nat, S # {}
  PROVE  Min(S) \in S /\ \A x \in S : Min(S) <= x
  <1> DEFINE R == OpToRel(<, Nat)
  <1>1. IsWellFoundedOn(R, Nat)
    BY NatLessThanWellFounded
  <1>2. \A x, y \in Nat : <<x, y>> \in R <=> x < y
    BY DEF OpToRel
  <1> HIDE DEF R
  <1>3. PICK m \in S : \A x \in S : ~(<<x, m>> \in R)
    BY <1>1, WFMin
  <1>4. ASSUME NEW x \in S PROVE m <= x
    <2>1. ~(x < m)
      BY <1>2, <1>3
    <2> QED BY <2>1
  <1> QED BY <1>4 DEF Min

LEMMA TypedNew == NewOp \in OpRecord /\ Empty \in Meta
  <1>1. Empty \in Meta
    BY Distinct DEF Empty, Meta
  <1>2. NewOp \in OpType
    BY <1>1 DEF NewOp, OpType, PCs
  <1>3. NewOp.kind = None /\ NewOp.pc = "idle"
    BY DEF NewOp
  <1> QED BY <1>1, <1>2, <1>3 DEF OpRecord

\* A version of known content is added to a copy of the list.
LEMMA TypedListed ==
  ASSUME NEW m \in Meta, m.next \in Id
  PROVE  /\ Listed(m, m.next) \in Meta
         /\ Listed(m, m.next).active = m.active /\ Listed(m, m.next).next = m.next + 1
         /\ Listed(m, m.next).versions = m.versions \union {m.next}
  <1>1. m.next + 1 \in 1..MaxId + 1
    BY Distinct DEF Id
  <1> QED BY <1>1 DEF Listed, Meta

\* The next archive in order.
LEMMA NextArchive ==
  ASSUME NEW r \in OpRecord, r.pc = "scan", r.todo # {}
  PROVE  /\ Min(r.todo) \in r.todo /\ Min(r.todo) \in Id /\ r.m.next <= Min(r.todo) /\ r.m.next \in Id
         /\ \A n \in r.todo \ {Min(r.todo)} : Min(r.todo) < n
  <1>1. r.todo \subseteq Nat /\ r.todo \subseteq Id /\ r.m.next \in 1..MaxId + 1
    BY Distinct DEF OpRecord, OpType, Meta
  <1>2. Min(r.todo) \in r.todo /\ \A x \in r.todo : Min(r.todo) <= x
    BY <1>1, MinOf
  <1>3. r.m.next <= Min(r.todo)
    BY <1>2 DEF OpRecord
  <1> HIDE DEF OpRecord
  <1> QED BY <1>1, <1>2, <1>3, Distinct DEF Id

\* The record a request has after a step of its own.
LEMMA TypedStep ==
  ASSUME Types, NEW o \in Op, Step(o) \/ MigrationFails(o) \/ WriteFails(o)
  PROVE  \E r \in OpRecord : op' = [op EXCEPT ![o] = r]
  <1>1. op[o] \in OpRecord /\ NewOp \in OpRecord /\ Empty \in Meta
    BY TypedNew DEF Types
  <1>2. op[o] \in OpType /\ op[o].m \in Meta
    BY <1>1 DEF OpRecord, OpType
  <1>0. op[o].pc # "idle"
    BY DEF Step, ReadMeta, Scan, CopyOld, DropOld, KeepMeta, Load, SaveNew, List, SaveOver, Rename, SetActive,
       Delete, Unlink, MigrationFails, WriteFails
  <1>3. CASE Done(o)
    BY <1>1, <1>3 DEF Done
  <1>4. CASE Goto(o, "drop") \/ Goto(o, "keep") \/ Goto(o, "act")
    <2>1. \A pc \in {"drop", "keep", "act"} : [op[o] EXCEPT !.pc = pc] \in OpRecord
      BY <1>0, <1>1 DEF OpRecord, OpType, PCs
    <2> QED BY <1>4, <2>1 DEF Goto
  <1>5. CASE ReadMeta(o)
    <2> DEFINE r == [op[o] EXCEPT !.pc = "scan", !.m = Empty, !.todo = {i \in Id : text[i] # None}]
               a == [op[o] EXCEPT !.pc = "act", !.m = meta]
    <2>1. r \in OpType /\ (meta # None => a \in OpType)
      BY <1>1, <1>2 DEF OpType, PCs, Types
    <2>2. /\ r.pc = "scan" /\ r.m = Empty /\ r.kind = op[o].kind /\ r.content = op[o].content /\ r.todo \subseteq Id
          /\ a.pc = "act" /\ a.kind = op[o].kind /\ a.content = op[o].content
      BY <1>2 DEF OpType
    <2>3. op' \in {[op EXCEPT ![o] = r], [op EXCEPT ![o] = a]} /\ (meta = None => op' = [op EXCEPT ![o] = r])
      BY <1>5 DEF ReadMeta
    <2> HIDE DEF r, a
    <2>4. Empty.next = 1
      BY DEF Empty
    <2>5. op[o].pc = "read" /\ \A n \in Id : 1 <= n
      BY <1>5 DEF ReadMeta, Id
    <2>6. r \in OpRecord
      <3>1. \A n \in r.todo : r.m.next <= n
        BY <2>2, <2>4, <2>5
      <3> QED BY <1>1, <2>1, <2>2, <2>5, <3>1 DEF OpRecord
    <2>7. meta # None => a \in OpRecord
      BY <1>1, <2>1, <2>2, <2>5 DEF OpRecord
    <2> QED BY <2>3, <2>6, <2>7
  <1>6. ASSUME op[o].pc = "scan", op[o].todo # {}
        PROVE  LET n == Min(op[o].todo)
                   m == op[o].m
               IN /\ [op[o] EXCEPT !.todo = @ \ {n}] \in OpRecord
                  /\ [op[o] EXCEPT !.todo = @ \ {n}, !.m = Listed(m, m.next)] \in OpRecord
                  /\ m.next # n => [op[o] EXCEPT !.todo = @ \ {n}, !.m.next = @ + 1] \in OpRecord
    <2> DEFINE n == Min(op[o].todo)
               m == op[o].m
               r(k) == [op[o] EXCEPT !.todo = op[o].todo \ {n}, !.m = k]
    <2>1. n \in op[o].todo /\ n \in Id /\ m.next <= n /\ m.next \in Id /\ m \in Meta
          /\ \A k \in op[o].todo \ {n} : n < k
      BY <1>1, <1>2, <1>6, NextArchive
    <2>2. \A k \in Meta : r(k) \in OpType
      BY <1>2 DEF OpType
    <2>3. \A k : r(k).pc = "scan" /\ r(k).kind = op[o].kind /\ r(k).content = op[o].content
                 /\ r(k).todo = op[o].todo \ {n} /\ r(k).m = k
      BY <1>2, <1>6 DEF OpType
    <2>4. op[o].todo \subseteq Id /\ Id \subseteq Nat /\ m.next \in Nat /\ n \in Nat
      BY <1>2, <2>1, Distinct DEF OpType
    <2>5. ASSUME NEW k \in Meta, k.next <= m.next + 1, k.next = m.next + 1 => TRUE
          PROVE  r(k) \in OpRecord
      <3>1. k.next \in Nat
        BY Distinct DEF Meta
      <3>2. ASSUME NEW x \in op[o].todo \ {n} PROVE k.next <= x
        <4>1. n < x /\ x \in Nat /\ m.next <= n
          BY <2>1, <2>4
        <4> HIDE DEF n, m
        <4> QED BY <2>4, <2>5, <3>1, <4>1
      <3> HIDE DEF r, n, m
      <3> QED BY <1>1, <1>6, <2>2, <2>3, <2>5, <3>2 DEF OpRecord
    <2>6. Listed(m, m.next) \in Meta /\ Listed(m, m.next).next = m.next + 1
      BY <2>1, TypedListed
    <2>7. [m EXCEPT !.next = m.next + 1] \in Meta /\ [m EXCEPT !.next = m.next + 1].next = m.next + 1
      BY <2>1, Distinct DEF Meta, Id
    <2>8. r(m) = [op[o] EXCEPT !.todo = @ \ {n}]
      BY <1>2 DEF OpType
    <2>9. r([m EXCEPT !.next = m.next + 1]) = [op[o] EXCEPT !.todo = @ \ {n}, !.m.next = @ + 1]
      BY <1>2 DEF OpType
    <2>10. r(m) \in OpRecord /\ r(Listed(m, m.next)) \in OpRecord /\ r([m EXCEPT !.next = m.next + 1]) \in OpRecord
      <3>1. m.next <= m.next + 1 /\ m.next + 1 <= m.next + 1
        BY <2>4
      <3> HIDE DEF r, m
      <3> QED BY <2>1, <2>5, <2>6, <2>7, <3>1
    <2> QED BY <2>8, <2>9, <2>10
  <1>7. CASE Scan(o)
    BY <1>6, <1>7 DEF Scan
  <1>8. CASE CopyOld(o)
    <2> DEFINE i == op[o].m.next
               r == [op[o] EXCEPT !.pc = "drop", !.m = [Listed(op[o].m, i) EXCEPT !.active = i]]
    <2>1. CASE ~Parses(old)
      BY <1>4, <1>8, <2>1 DEF CopyOld
    <2>2. CASE Parses(old)
      <3>1. i \in Id
        BY <1>2, <1>8, <2>2 DEF CopyOld, Meta, Id
      <3>2. [Listed(op[o].m, i) EXCEPT !.active = i] \in Meta
        BY <1>2, <3>1, TypedListed DEF Meta
      <3>3. r \in OpType /\ r.pc = "drop" /\ r.kind = op[o].kind /\ r.content = op[o].content
        BY <1>2, <3>2 DEF OpType, PCs
      <3>4. op' = [op EXCEPT ![o] = r]
        BY <1>8, <2>2 DEF CopyOld
      <3> HIDE DEF r
      <3>5. r \in OpRecord
        BY <1>0, <1>1, <3>3 DEF OpRecord
      <3> QED BY <3>4, <3>5
    <2> QED BY <2>1, <2>2
  <1>9. CASE DropOld(o) \/ KeepMeta(o)
    BY <1>4, <1>9 DEF DropOld, KeepMeta
  <1>10. CASE Load(o) \/ List(o) \/ SaveOver(o) \/ Rename(o) \/ SetActive(o) \/ Unlink(o) \/ WriteFails(o)
    BY <1>3, <1>10 DEF Load, List, SaveOver, Rename, SetActive, Unlink, WriteFails
  <1>11. CASE SaveNew(o)
    <2> DEFINE r == [op[o] EXCEPT !.pc = "list"]
    <2>1. op[o].kind = "saveNew" /\ op[o].m.next <= MaxId /\ op' = [op EXCEPT ![o] = r]
      BY <1>11 DEF SaveNew, Goto
    <2>2. r \in OpRecord
      BY <1>0, <1>1, <2>1 DEF OpRecord, OpType, PCs
    <2> HIDE DEF r
    <2> QED BY <2>1, <2>2
  <1>12. CASE Delete(o)
    <2> DEFINE r == [op[o] EXCEPT !.pc = "unlink"]
    <2>1. op[o].kind = "delete" /\ (Has(op[o]) => op' = [op EXCEPT ![o] = r]) /\ (~Has(op[o]) => Done(o))
      BY <1>12 DEF Delete, Goto
    <2>2. Has(op[o]) => op[o].id \in Id
      BY <1>2 DEF Has, Meta
    <2>3. op[o].id \in Id => r \in OpRecord
      BY <1>0, <1>1, <2>1 DEF OpRecord, OpType, PCs
    <2> HIDE DEF r
    <2> QED BY <1>3, <2>1, <2>2, <2>3
  <1>13. CASE MigrationFails(o)
    <2>1. CASE Goto(o, "drop") \/ Goto(o, "act")
      BY <1>4, <2>1
    <2>2. CASE /\ op[o].pc = "scan" /\ op[o].todo # {} /\ Min(op[o].todo) # op[o].m.next
               /\ op' = [op EXCEPT ![o].todo = @ \ {Min(op[o].todo)}, ![o].m.next = @ + 1]
      BY <1>6, <2>2
    <2> QED BY <1>13, <2>1, <2>2 DEF MigrationFails
  <1> QED BY <1>5, <1>7, <1>8, <1>9, <1>10, <1>11, <1>12, <1>13 DEF Step

\* The record a request starts with.
Started(kind, id, content) == [NewOp EXCEPT !.kind = kind, !.pc = "read", !.id = id, !.content = content]

LEMMA TypedStart ==
  ASSUME NEW kind \in Kinds, NEW id \in Id \union {0}, NEW content \in New \union {None},
         kind \in {"saveNew", "saveOver"} => content \in New
  PROVE  Started(kind, id, content) \in OpRecord /\ Started(kind, id, content).pc = "read"
  <1> DEFINE r == Started(kind, id, content)
  <1>1. NewOp \in OpType
    BY TypedNew DEF OpRecord
  <1>2. r \in OpType /\ r.pc = "read" /\ r.kind = kind /\ r.content = content
    BY <1>1 DEF Started, OpType, PCs
  <1> HIDE DEF r
  <1>3. r \in OpRecord
    BY <1>2 DEF OpRecord
  <1> QED BY <1>2, <1>3 DEF r

LEMMA BeginStarts ==
  ASSUME NEW o \in Op, Begin(o)
  PROVE  \E kind \in Kinds, id \in Id \union {0}, content \in New \union {None} :
           /\ kind \in {"saveNew", "saveOver"} => content \in New
           /\ Start(o, kind, id, content)
  <1>1. \A kind \in {"load", "saveNew", "saveOver", "rename", "delete", "setActive"} : kind \in Kinds
    BY DEF Kinds
  <1> QED BY <1>1 DEF Begin

\* The files a step writes.
LEMMA TypedFiles ==
  ASSUME Types, NEW o \in Op, Step(o) \/ MigrationFails(o) \/ WriteFails(o)
  PROVE  /\ meta' \in Meta \union {None} /\ text' \in [Id -> Text \union {None, Broken}]
         /\ saved' \in [Id -> Text \union {None, Broken}]
         /\ faults' \in Nat /\ hurt' \in BOOLEAN
  <1>1. op[o] \in OpRecord /\ op[o].m \in Meta
    BY DEF Types, OpRecord, OpType
  <1>2. CASE UNCHANGED <<files, ghosts, faults>>
    BY <1>2 DEF files, ghosts, Types
  <1>3. CASE ReadMeta(o) \/ DropOld(o) \/ Load(o)
    BY <1>3 DEF ReadMeta, DropOld, Load, files, ghosts, Types
  <1>4. CASE MigrationFails(o) \/ WriteFails(o)
    <2>1. UNCHANGED <<meta, text, saved>> /\ hurt' \in {TRUE, hurt} /\ faults' = faults + 1
      BY <1>4 DEF MigrationFails, WriteFails, MayFail, files, ghosts
    <2>2. hurt' \in BOOLEAN
      BY <2>1 DEF Types
    <2> QED BY <2>1, <2>2 DEF Types
  <1>5. CASE Scan(o) \/ CopyOld(o)
    <2>1. text' \in [Id -> Text \union {None, Broken}]
      BY <1>5, Distinct DEF Scan, CopyOld, Parses, Types
    <2>2. UNCHANGED <<meta, saved, faults, hurt>>
      BY <1>5 DEF Scan, CopyOld, ghosts
    <2> QED BY <2>1, <2>2 DEF Types
  <1>6. CASE KeepMeta(o)
    <2>1. \A i \in Id : text[i] \in Text \union {None, Broken}
      BY DEF Types
    <2>2. saved' \in [Id -> Text \union {None, Broken}]
      BY <1>6, <2>1 DEF KeepMeta
    <2> QED BY <1>1, <1>6, <2>2 DEF KeepMeta, Types
  <1>7. CASE SaveNew(o) \/ SaveOver(o)
    <2>1. op[o].content \in Text /\ op[o].pc = "act"
      BY <1>1, <1>7 DEF SaveNew, SaveOver, OpRecord, Text
    <2>2. /\ text' \in [Id -> Text \union {None, Broken}]
          /\ saved' \in [Id -> Text \union {None, Broken}]
      BY <1>7, <2>1 DEF SaveNew, SaveOver, Types, ghosts
    <2>3. UNCHANGED <<meta, faults, hurt>>
      BY <1>7 DEF SaveNew, SaveOver, ghosts
    <2> QED BY <2>2, <2>3 DEF Types
  <1>8. CASE List(o)
    <2>1. op[o].content \in Text /\ op[o].m.next \in Id
      <3>1. op[o].m.next <= MaxId /\ op[o].m.next \in 1..MaxId + 1 /\ op[o].content \in New
        BY <1>1, <1>8 DEF List, OpRecord, Meta
      <3> QED BY <3>1, Distinct DEF Text, Id
    <2>2. meta' \in Meta
      BY <1>1, <1>8, <2>1, TypedListed DEF List
    <2>3. saved' \in [Id -> Text \union {None, Broken}]
      BY <1>8, <2>1 DEF List, Types
    <2> QED BY <1>8, <2>2, <2>3 DEF List, Types
  <1>9. CASE Rename(o) \/ SetActive(o)
    <2>1. op[o].id \in Id \union {0}
      BY <1>1 DEF OpRecord, OpType
    <2>2. \A i \in Id \union {0} : [op[o].m EXCEPT !.active = i] \in Meta
      BY <1>1 DEF Meta
    <2>3. meta' \in Meta \union {None}
      BY <1>1, <1>9, <2>1, <2>2 DEF Rename, SetActive, Types
    <2> QED BY <1>9, <2>3 DEF Rename, SetActive, ghosts, Types
  <1>10. CASE Delete(o)
    <2>1. [op[o].m EXCEPT !.versions = @ \ {op[o].id},
                          !.active = IF @ = op[o].id THEN 0 ELSE @] \in Meta
      BY <1>1 DEF Meta
    <2>2. meta' \in Meta \union {None}
      BY <1>10, <2>1 DEF Delete, Types
    <2>3. saved' \in [Id -> Text \union {None, Broken}]
      BY <1>10 DEF Delete, Types
    <2> QED BY <1>10, <2>2, <2>3 DEF Delete, Types
  <1>11. CASE Unlink(o)
    BY <1>11 DEF Unlink, ghosts, Types
  <1> QED BY <1>3, <1>4, <1>5, <1>6, <1>7, <1>8, <1>9, <1>10, <1>11 DEF Step

LEMMA InitTypes == Init => Types
  <1> SUFFICES ASSUME Init PROVE Types
    OBVIOUS
  <1>1. op \in [Op -> OpRecord] /\ meta \in Meta \union {None}
    BY TypedNew DEF Init
  <1>2. text \in [Id -> Text \union {None, Broken}]
    BY DEF Init
  <1>3. saved \in [Id -> Text \union {None, Broken}] /\ faults \in Nat /\ hurt \in BOOLEAN
    BY DEF Init
  <1> QED BY <1>1, <1>2, <1>3 DEF Types

LEMMA NextTypes == Types /\ [Next]_vars => Types'
  <1> SUFFICES ASSUME Types, [Next]_vars PROVE Types'
    OBVIOUS
  <1>1. CASE UNCHANGED vars
    BY <1>1 DEF vars, files, ghosts, Types
  <1>2. ASSUME NEW o \in Op, Begin(o) PROVE Types'
    <2>1. PICK kind \in Kinds, id \in Id \union {0}, content \in New \union {None} :
            /\ kind \in {"saveNew", "saveOver"} => content \in New
            /\ Start(o, kind, id, content)
      BY <1>2, BeginStarts
    <2> DEFINE r == Started(kind, id, content)
    <2>2. r \in OpRecord
      BY <2>1, TypedStart
    <2>3. op' = [op EXCEPT ![o] = r] /\ UNCHANGED <<meta, text, saved, faults, hurt>>
      BY <2>1 DEF Start, Started, files, ghosts
    <2> HIDE DEF r
    <2> QED BY <2>2, <2>3 DEF Types
  <1>3. ASSUME NEW o \in Op, Step(o) \/ MigrationFails(o) \/ WriteFails(o) PROVE Types'
    <2>1. PICK r \in OpRecord : op' = [op EXCEPT ![o] = r]
      BY <1>3, TypedStep
    <2>2. op' \in [Op -> OpRecord]
      BY <2>1 DEF Types
    <2> QED BY <1>3, <2>2, TypedFiles DEF Types
  <1>4. CASE Crash
    BY <1>4, TypedNew DEF Crash, MayFail, files, Types
  <1> QED BY <1>1, <1>2, <1>3, <1>4 DEF Next

-----------------------------------------------------------------------------
(* One writer *)

\* A list whose versions have their content, and the content it puts in force.
Good(m) ==
  /\ m.active \in m.versions \union {0}
  /\ \A i \in m.versions : i < m.next /\ text[i] \in Text
Shown(m) == IF m.active = 0 THEN Original ELSE text[m.active]

\* The next number, and those after it that are not still to be looked at, are free.
Free(m, todo) == ~hurt => \A j \in Id \ todo : j >= m.next => text[j] \notin Text

\* What a request knows at its control point, when no other writes.
Control(r) ==
  /\ r.pc \in Migrating => meta = None /\ Good(r.m)
  /\ r.pc = "scan" => r.m.active = 0 /\ Free(r.m, r.todo)
  /\ r.pc \in {"drop", "keep"} => Free(r.m, {}) /\ (~hurt => force = Shown(r.m))
  /\ r.pc = "drop" /\ ~hurt /\ old \in Text => r.m.active # 0 /\ text[r.m.active] = old
  /\ r.pc \in {"act", "list"} /\ r.kind # "load" =>
       Good(r.m) /\ IF meta = None THEN hurt ELSE meta = r.m
  /\ r.pc = "list" => text[r.m.next] = r.content
  /\ r.pc = "unlink" => meta # None /\ r.id \notin meta.versions /\ (~hurt => text[r.id] \notin owed)

\* Unless a write of the migration failed: what was saved is there, so is what
\* the old scheme had, and the prompt in force is the one last applied.
Kept ==
  /\ \A i \in Id : saved[i] # None => meta # None /\ i \in meta.versions /\ text[i] = saved[i]
  /\ owed \subseteq Legacy /\ \A t \in owed : t = old \/ \E i \in Id : text[i] = t
  /\ meta = None /\ (\A o \in Op : op[o].pc # "keep") => force = InForce
  /\ meta # None => force = Shown(meta) /\ \A j \in Id : j >= meta.next => text[j] \notin Legacy

OneWriter == \A o, q \in Op : MayWrite(op[o]) /\ MayWrite(op[q]) => o = q

SerialInv ==
  /\ OneWriter /\ \A o \in Op : Control(op[o])
  /\ meta # None => Good(meta)
  /\ ~hurt => Kept

\* A request that does not write knows nothing that another could change.
LEMMA Idler ==
  ASSUME NEW r \in OpRecord, ~MayWrite(r) \/ r.pc \in {"idle", "read"} \/ (r.pc = "act" /\ r.kind = "load")
  PROVE  Control(r) /\ Control(r)'
  BY DEF MayWrite, Control, OpRecord, OpType, PCs, Migrating

\* A step of the writer.
LEMMA WriterSteps ==
  ASSUME Types, SerialInv, NEW o \in Op, NEW r \in OpRecord, op' = [op EXCEPT ![o] = r],
         MayWrite(op[o]), meta' = None => meta = None,
         Control(r)', meta' # None => Good(meta)', ~hurt' => Kept'
  PROVE  SerialInv'
  <1>1. \A q \in Op \ {o} : op'[q] = op[q] /\ ~MayWrite(op[q]) /\ op[q] \in OpRecord
    BY DEF Types, SerialInv, OneWriter
  <1>2. op'[o] = r
    BY DEF Types
  <1>3. ASSUME NEW q \in Op \ {o} PROVE Control(op[q])'
    <2>1. PICK s \in OpRecord : s = op[q] /\ s = op'[q] /\ ~MayWrite(s)
      BY <1>1
    <2>2. Control(s)'
      BY <2>1, Idler
    <2> QED BY <2>1, <2>2
  <1>4. Control(op[o])'
    BY <1>2
  <1>5. OneWriter'
    <2>1. ASSUME NEW q \in Op \ {o} PROVE ~MayWrite(op[q])'
      BY <1>1 DEF MayWrite
    <2> QED BY <2>1 DEF OneWriter
  <1> QED BY <1>3, <1>4, <1>5 DEF SerialInv

\* A step of a request that does not write.
LEMMA ReaderSteps ==
  ASSUME Types, SerialInv, NEW o \in Op, NEW r \in OpRecord, op' = [op EXCEPT ![o] = r],
         op[o].pc # "keep", r.pc \in {"idle", "read", "act"}, Control(r)',
         UNCHANGED <<meta, text, old, saved, owed, force, hurt>>,
         MayWrite(r) => MayWrite(op[o]) \/ \A q \in Op : ~MayWrite(op[q])
  PROVE  SerialInv'
  <1>1. op'[o] = r /\ \A q \in Op \ {o} : op'[q] = op[q]
    BY DEF Types
  <1>2. ASSUME NEW q \in Op \ {o} PROVE Control(op[q])'
    BY <1>1 DEF SerialInv, Control, Good, Free, Shown
  <1>3. OneWriter'
    BY <1>1 DEF SerialInv, OneWriter, MayWrite
  <1>4. meta' # None => Good(meta)'
    BY DEF SerialInv, Good
  <1>5. ~hurt' => Kept'
    <2>1. (\A q \in Op : op'[q].pc # "keep") => \A q \in Op : op[q].pc # "keep"
      BY <1>1
    <2> QED BY <2>1 DEF SerialInv, Kept, InForce, Shown
  <1>6. Control(op[o])'
    BY <1>1
  <1> QED BY <1>2, <1>3, <1>4, <1>5, <1>6 DEF SerialInv

-----------------------------------------------------------------------------
(* Each step *)

LEMMA ReadingSteps ==
  ASSUME Types, Serial, SerialInv, NEW o \in Op,
         Begin(o) \/ ReadMeta(o) \/ Load(o) \/ WriteFails(o)
  PROVE  SerialInv'
  <1>1. CASE Begin(o)
    <2>1. PICK kind \in Kinds, id \in Id \union {0}, content \in New \union {None} :
            /\ kind \in {"saveNew", "saveOver"} => content \in New
            /\ Start(o, kind, id, content)
      BY <1>1, BeginStarts
    <2> DEFINE s == Started(kind, id, content)
    <2>2. s \in OpRecord /\ s.pc = "read"
      BY <2>1, TypedStart
    <2>3. \E r \in OpRecord : r = s /\ r.pc = "read"
      <3> HIDE DEF s
      <3> QED BY <2>2
    <2>4. PICK r \in OpRecord : r = s /\ r.pc = "read"
      BY <2>3
    <2>5. /\ op' = [op EXCEPT ![o] = r] /\ op[o].pc = "idle"
          /\ MayWrite(r) => \A q \in Op : ~MayWrite(op[q])
          /\ UNCHANGED <<meta, text, old, saved, owed, force, hurt>>
      BY <2>1, <2>4 DEF Start, Started, files, ghosts
    <2>6. Control(r)'
      BY <2>4, Idler
    <2> QED BY <2>4, <2>5, <2>6, ReaderSteps
  <1>2. CASE Load(o) \/ WriteFails(o)
    <2>1. PICK r \in OpRecord : r = NewOp
      BY TypedNew
    <2>2. /\ op' = [op EXCEPT ![o] = r] /\ op[o].pc # "keep"
          /\ UNCHANGED <<meta, text, old, saved, owed, force, hurt>>
      BY <1>2, <2>1 DEF Load, WriteFails, Done, files, ghosts
    <2>3. r.pc = "idle" /\ ~MayWrite(r)
      BY <2>1 DEF NewOp, MayWrite
    <2>4. Control(r)'
      BY <2>3, Idler
    <2> QED BY <2>2, <2>3, <2>4, ReaderSteps
  <1>3. CASE ReadMeta(o)
    <2>1. PICK r \in OpRecord : op' = [op EXCEPT ![o] = r]
      BY <1>3, TypedStep DEF Step
    <2>2. op[o].pc = "read" /\ r = op'[o] /\ UNCHANGED <<meta, text, old, saved, owed, force, hurt>>
      BY <1>3, <2>1 DEF ReadMeta, Types, files, ghosts
    <2>3. CASE meta = None
      <3>1. r.pc = "scan" /\ r.m = Empty /\ r.todo = {i \in Id : text[i] # None}
        BY <1>3, <2>2, <2>3 DEF ReadMeta, Types, OpRecord, OpType
      <3>2. Empty.active = 0 /\ Empty.versions = {}
        BY DEF Empty
      <3>3. Control(r)'
        BY <2>2, <2>3, <3>1, <3>2, Distinct DEF Control, Good, Free, Migrating
      <3>4. MayWrite(op[o])
        BY <2>2, <2>3 DEF MayWrite
      <3>5. ~hurt' => Kept'
        <4>1. \A q \in Op : op[q].pc # "keep"
          BY <2>2, <2>3, <3>4 DEF SerialInv, OneWriter, MayWrite, Migrating
        <4> QED BY <2>2, <2>3, <4>1 DEF SerialInv, Kept, InForce
      <3> QED BY <2>1, <2>2, <2>3, <3>3, <3>4, <3>5, WriterSteps
    <2>4. CASE meta # None
      <3>1. r.pc = "act" /\ r.m = meta /\ r.kind = op[o].kind
        BY <1>3, <2>2, <2>4 DEF ReadMeta, Types, OpRecord, OpType
      <3>2. Control(r)'
        BY <2>2, <2>4, <3>1 DEF SerialInv, Control, Good, Migrating
      <3>3. MayWrite(r) => MayWrite(op[o])
        BY <2>2, <2>4, <3>1 DEF MayWrite, Migrating
      <3> QED BY <2>1, <2>2, <3>1, <3>2, <3>3, ReaderSteps
    <2> QED BY <2>3, <2>4
  <1> QED BY <1>1, <1>2, <1>3

\* The writer's own knowledge, and what nobody else is doing.
LEMMA Writer ==
  ASSUME Types, SerialInv, NEW o \in Op, MayWrite(op[o])
  PROVE  /\ Control(op[o]) /\ op[o] \in OpRecord /\ op[o].m \in Meta
         /\ \A q \in Op \ {o} : op[q].pc \notin Migrating
         /\ op[o].pc # "keep" /\ meta = None /\ ~hurt => force = InForce
  <1>1. \A q \in Op \ {o} : op[q].pc \notin Migrating
    BY DEF SerialInv, OneWriter, MayWrite, Migrating
  <1>2. op[o] \in OpRecord /\ op[o].m \in Meta
    BY DEF Types, OpRecord, OpType
  <1> QED BY <1>1, <1>2 DEF SerialInv, Kept, Migrating

LEMMA ScanStep ==
  ASSUME Types, Serial, SerialInv, NEW o \in Op, Scan(o)
  PROVE  SerialInv'
  <1> DEFINE n == Min(op[o].todo)
             m == op[o].m
             i == m.next
  <1>1. PICK r \in OpRecord : op' = [op EXCEPT ![o] = r]
    BY TypedStep DEF Step
  <1>2. op[o].pc = "scan" /\ op[o].todo # {} /\ MayWrite(op[o]) /\ r = op'[o]
    BY <1>1 DEF Scan, MayWrite, Migrating, Types
  <1>3. /\ Control(op[o]) /\ op[o] \in OpRecord /\ m \in Meta
        /\ \A q \in Op \ {o} : op[q].pc \notin Migrating
        /\ ~hurt => force = InForce
    BY <1>2, Writer DEF Control, Migrating
  <1>4. /\ n \in op[o].todo /\ n \in Id /\ i <= n /\ i \in Id /\ n \in Nat /\ i \in Nat /\ op[o].todo \subseteq Id
        /\ \A k \in op[o].todo \ {n} : n < k
    BY <1>2, <1>3, NextArchive, Distinct DEF OpRecord, OpType
  <1>5. UNCHANGED <<meta, old, hurt, saved, owed, force>>
    BY DEF Scan, ghosts
  <1>6. meta = None /\ Good(m) /\ m.active = 0 /\ Free(m, op[o].todo)
    BY <1>2, <1>3 DEF Control, Migrating
  <1>7. r.pc = "scan" /\ r.todo = op[o].todo \ {n}
    BY <1>2 DEF Scan, Types, OpRecord, OpType
  <1>8. InForce' = InForce
    BY <1>5, <1>6 DEF InForce
  <1>9. ~hurt => owed \subseteq Legacy /\ (\A t \in owed : t = old \/ \E j \in Id : text[j] = t)
                 /\ \A j \in Id : saved[j] = None
    BY <1>6 DEF SerialInv, Kept
  <1>10. CASE Parses(text[n])
    <2>1. r.m = Listed(m, i) /\ text' = IF n = i THEN text ELSE [text EXCEPT ![i] = text[n], ![n] = None]
      BY <1>2, <1>10 DEF Scan, Types, OpRecord, OpType
    <2>2. r.m.active = 0 /\ r.m.next = i + 1 /\ r.m.versions = m.versions \union {i}
      BY <1>3, <1>4, <1>6, <2>1, TypedListed
    <2>3. /\ text'[i] = text[n] /\ text[n] \in Text /\ (n # i => text'[n] = None)
          /\ \A j \in Id \ {i, n} : text'[j] = text[j]
      BY <1>4, <1>10, <2>1 DEF Types, Parses
    <2>4. Good(r.m)'
      <3>1. ASSUME NEW v \in m.versions PROVE v < i + 1 /\ text'[v] \in Text
        <4>1. v \in Id /\ v \in Nat /\ v < i /\ text[v] \in Text
          BY <1>3, <1>6, Distinct DEF Good, Meta
        <4>2. v # i /\ v # n
          BY <1>4, <4>1
        <4> QED BY <1>4, <2>3, <4>1, <4>2
      <3>2. i < i + 1
        BY <1>4
      <3> QED BY <2>2, <2>3, <3>1, <3>2 DEF Good
    <2>5. Free(r.m, r.todo)'
      <3> SUFFICES ASSUME ~hurt, NEW j \in Id \ r.todo, j >= i + 1 PROVE text'[j] \notin Text
        BY <1>5, <2>2 DEF Free
      <3>1. CASE j = n
        <4>1. n # i
          BY <1>4, <3>1
        <4> QED BY <2>3, <3>1, <4>1, Distinct
      <3>2. CASE j # n
        <4>1. j \in Id \ op[o].todo /\ j >= i /\ j # i
          <5> HIDE DEF n, i, m
          <5>1. j \in Id /\ j \notin op[o].todo /\ j \in Nat
            BY <1>4, <1>7, <3>2, Distinct
          <5> QED BY <1>4, <5>1
        <4> QED BY <1>6, <2>3, <3>2, <4>1 DEF Free
      <3> QED BY <3>1, <3>2
    <2>6. Control(r)'
      BY <1>5, <1>6, <1>7, <2>2, <2>4, <2>5 DEF Control, Migrating
    <2>7. ~hurt' => Kept'
      <3> SUFFICES ASSUME ~hurt PROVE Kept'
        BY <1>5
      <3>1. ASSUME NEW t \in owed PROVE t = old \/ \E j \in Id : text'[j] = t
        <4>1. CASE t = old
          BY <4>1
        <4>2. CASE t # old
          <5>1. PICK j \in Id : text[j] = t
            BY <1>9, <4>2
          <5>2. t \in Text
            BY <1>9 DEF Text
          <5>3. CASE j = n
            BY <1>4, <2>3, <5>1, <5>3
          <5>4. CASE j = i /\ j # n
            <6>1. i \notin op[o].todo
              BY <1>4, <5>4
            <6>2. text[i] \notin Text
              BY <1>4, <1>6, <6>1 DEF Free
            <6> QED BY <5>1, <5>2, <5>4, <6>2
          <5>5. CASE j # i /\ j # n
            BY <2>3, <5>1, <5>5
          <5> QED BY <5>3, <5>4, <5>5
        <4> QED BY <4>1, <4>2
      <3> QED BY <1>3, <1>5, <1>6, <1>8, <1>9, <3>1 DEF Kept
    <2> QED BY <1>1, <1>2, <1>5, <1>6, <2>6, <2>7, WriterSteps
  <1>11. CASE ~Parses(text[n])
    <2>1. r.m = m /\ text' = text
      BY <1>2, <1>11 DEF Scan, Types, OpRecord, OpType
    <2>2. Good(r.m)'
      BY <1>6, <2>1 DEF Good
    <2>3. Free(r.m, r.todo)'
      BY <1>5, <1>6, <1>7, <1>11, <2>1 DEF Free, Parses
    <2>4. Control(r)'
      BY <1>5, <1>6, <1>7, <2>1, <2>2, <2>3 DEF Control, Migrating
    <2>5. ~hurt' => Kept'
      BY <1>3, <1>5, <1>6, <1>8, <1>9, <2>1 DEF Kept
    <2> QED BY <1>1, <1>2, <1>5, <1>6, <2>4, <2>5, WriterSteps
  <1> QED BY <1>10, <1>11

LEMMA CopyOldStep ==
  ASSUME Types, Serial, SerialInv, NEW o \in Op, CopyOld(o)
  PROVE  SerialInv'
  <1> DEFINE m == op[o].m
             i == m.next
  <1>1. PICK r \in OpRecord : op' = [op EXCEPT ![o] = r]
    BY TypedStep DEF Step
  <1>2. op[o].pc = "scan" /\ op[o].todo = {} /\ MayWrite(op[o]) /\ r = op'[o]
    BY <1>1 DEF CopyOld, MayWrite, Migrating, Types
  <1>3. /\ Control(op[o]) /\ op[o] \in OpRecord /\ m \in Meta
        /\ ~hurt => force = InForce
    BY <1>2, Writer DEF Control, Migrating
  <1>4. UNCHANGED <<meta, old, hurt, saved, owed, force>>
    BY DEF CopyOld, ghosts
  <1>5. meta = None /\ Good(m) /\ m.active = 0 /\ Free(m, {})
    BY <1>2, <1>3 DEF Control, Migrating
  <1>6. InForce' = InForce
    BY <1>4, <1>5 DEF InForce
  <1>7. ~hurt => owed \subseteq Legacy /\ (\A t \in owed : t = old \/ \E j \in Id : text[j] = t)
                 /\ \A j \in Id : saved[j] = None
    BY <1>5 DEF SerialInv, Kept
  <1>8. CASE Parses(old)
    <2>1. i \in Id /\ i \in Nat /\ i # 0
      BY <1>3, <1>8, Distinct DEF CopyOld, Meta, Id
    <2>2. r.pc = "drop" /\ r.m = [Listed(m, i) EXCEPT !.active = i]
      BY <1>2, <1>3, <1>8 DEF CopyOld, OpRecord, OpType, Types
    <2>3. r.m.active = i /\ r.m.next = i + 1 /\ r.m.versions = m.versions \union {i}
      BY <1>3, <2>1, <2>2, TypedListed DEF Meta
    <2>4. text'[i] = old /\ old \in Text /\ \A j \in Id \ {i} : text'[j] = text[j]
      BY <1>8, <2>1 DEF CopyOld, Parses, Types
    <2>5. Good(r.m)'
      <3>1. ASSUME NEW v \in m.versions PROVE v < i + 1 /\ text'[v] \in Text
        <4>1. v \in Id /\ v \in Nat /\ v < i /\ text[v] \in Text
          BY <1>3, <1>5, Distinct DEF Good, Meta
        <4>2. v # i
          BY <2>1, <4>1
        <4> QED BY <2>1, <2>4, <4>1, <4>2
      <3>2. i < i + 1
        BY <2>1
      <3> QED BY <2>3, <2>4, <3>1, <3>2 DEF Good
    <2>6. Free(r.m, {})'
      <3> SUFFICES ASSUME ~hurt, NEW j \in Id, j >= i + 1 PROVE text'[j] \notin Text
        BY <1>4, <2>3 DEF Free
      <3>1. j >= i /\ j # i
        BY <2>1, Distinct
      <3> QED BY <1>5, <2>4, <3>1 DEF Free
    <2>7. ~hurt => force = Shown(r.m)'
      <3>1. ~hurt => force = old
        BY <1>3, <1>5, <1>8 DEF InForce
      <3> QED BY <2>1, <2>3, <2>4, <3>1 DEF Shown
    <2>8. Control(r)'
      BY <1>4, <1>5, <2>1, <2>2, <2>3, <2>4, <2>5, <2>6, <2>7 DEF Control, Migrating
    <2>9. ~hurt' => Kept'
      <3> SUFFICES ASSUME ~hurt PROVE Kept'
        BY <1>4
      <3>1. ASSUME NEW t \in owed PROVE t = old \/ \E j \in Id : text'[j] = t
        <4>1. ASSUME NEW j \in Id, text[j] = t PROVE j # i
          <5>1. t \in Text
            BY <1>7 DEF Text
          <5> QED BY <1>5, <2>1, <4>1, <5>1 DEF Free
        <4> QED BY <1>7, <2>4, <4>1
      <3> QED BY <1>3, <1>4, <1>5, <1>6, <1>7, <3>1 DEF Kept
    <2> QED BY <1>1, <1>2, <1>4, <1>5, <2>8, <2>9, WriterSteps
  <1>9. CASE ~Parses(old)
    <2>1. r.pc = "drop" /\ r.m = m /\ text' = text
      BY <1>2, <1>3, <1>9 DEF CopyOld, Goto, OpRecord, OpType, Types
    <2>2. ~hurt => force = Original
      BY <1>3, <1>5, <1>9 DEF InForce
    <2>3. Control(r)'
      BY <1>4, <1>5, <1>9, <2>1, <2>2 DEF Control, Good, Free, Shown, Parses, Migrating
    <2>4. ~hurt' => Kept'
      BY <1>3, <1>4, <1>5, <1>6, <1>7, <2>1 DEF Kept
    <2> QED BY <1>1, <1>2, <1>4, <1>5, <2>3, <2>4, WriterSteps
  <1> QED BY <1>8, <1>9

LEMMA DropKeepSteps ==
  ASSUME Types, Serial, SerialInv, NEW o \in Op, DropOld(o) \/ KeepMeta(o)
  PROVE  SerialInv'
  <1>0. PICK m \in Meta : m = op[o].m
    BY DEF Types, OpRecord, OpType
  <1>1. PICK r \in OpRecord : op' = [op EXCEPT ![o] = r]
    BY TypedStep DEF Step
  <1>2. op[o].pc \in {"drop", "keep"} /\ MayWrite(op[o]) /\ r = op'[o]
    BY <1>1 DEF DropOld, KeepMeta, MayWrite, Migrating, Types
  <1>3. /\ Control(op[o]) /\ op[o] \in OpRecord /\ m \in Meta
    BY <1>0, <1>2, Writer
  <1>4. meta = None /\ Good(m) /\ Free(m, {}) /\ (~hurt => force = Shown(m))
    BY <1>0, <1>2, <1>3 DEF Control, Migrating
  <1>5. ~hurt => owed \subseteq Legacy /\ (\A t \in owed : t = old \/ \E j \in Id : text[j] = t)
                 /\ \A j \in Id : saved[j] = None
    BY <1>4 DEF SerialInv, Kept
  <1>6. owed \subseteq Legacy => owed \subseteq Text
    BY DEF Text
  <1>7. CASE DropOld(o)
    <2>1. r.pc = "keep" /\ r.m = m /\ old' = None /\ UNCHANGED <<meta, text, hurt, saved, owed, force>>
      BY <1>0, <1>2, <1>3, <1>7 DEF DropOld, Goto, OpRecord, OpType, Types, ghosts
    <2>2. Control(r)'
      BY <1>4, <2>1 DEF Control, Good, Free, Shown, Migrating
    <2>3. ~hurt' => Kept'
      <3> SUFFICES ASSUME ~hurt PROVE Kept'
        BY <2>1
      <3>1. ASSUME NEW t \in owed PROVE \E j \in Id : text[j] = t
        <4>1. CASE t = old
          <5>1. m.active # 0 /\ text[m.active] = old
            BY <1>0, <1>3, <1>5, <1>6, <1>7, <4>1 DEF Control, DropOld
          <5>2. m.active \in Id
            BY <1>3, <5>1 DEF Meta
          <5> QED BY <4>1, <5>1, <5>2
        <4> QED BY <1>5, <4>1
      <3>2. op'[o].pc = "keep"
        BY <1>2, <2>1
      <3> QED BY <1>4, <1>5, <2>1, <3>1, <3>2 DEF Kept
    <2> QED BY <1>1, <1>2, <1>4, <2>1, <2>2, <2>3, WriterSteps
  <1>8. CASE KeepMeta(o)
    <2>1. /\ r.pc = "act" /\ r.m = m /\ meta' = m /\ UNCHANGED <<text, old, hurt, owed, force>>
          /\ saved' = [j \in Id |-> IF j \in m.versions THEN text[j] ELSE None]
      BY <1>0, <1>2, <1>3, <1>8 DEF KeepMeta, Goto, OpRecord, OpType, Types
    <2>2. m # None
      BY <1>3, PromptAssumption
    <2>3. Good(m)'
      BY <1>4, <2>1 DEF Good
    <2>4. Control(r)'
      BY <2>1, <2>2, <2>3 DEF Control, Good, Migrating
    <2>5. ~hurt' => Kept'
      <3> SUFFICES ASSUME ~hurt PROVE Kept'
        BY <2>1
      <3>1. ASSUME NEW j \in Id, saved'[j] # None PROVE j \in m.versions /\ text[j] = saved'[j]
        BY <2>1, <3>1
      <3>2. ASSUME NEW j \in Id, j >= m.next PROVE text[j] \notin Legacy
        BY <1>4, <3>2 DEF Free, Text
      <3> QED BY <1>4, <1>5, <2>1, <2>2, <3>1, <3>2 DEF Kept, Shown
    <2>6. Good(meta)'
      BY <2>1, <2>3 DEF Good
    <2> QED BY <1>1, <1>2, <2>1, <2>2, <2>4, <2>5, <2>6, WriterSteps
  <1> QED BY <1>7, <1>8

\* The writer works on the list there is, or a write of the migration failed.
LEMMA Working ==
  ASSUME Types, SerialInv, NEW o \in Op, op[o].pc \in {"act", "list"}, op[o].kind # "load"
  PROVE  /\ MayWrite(op[o]) /\ op[o] \in OpRecord /\ op[o].m \in Meta /\ op[o].m # None
         /\ Good(op[o].m) /\ (IF meta = None THEN hurt ELSE meta = op[o].m)
         /\ op[o].m.next \in Nat /\ \A i \in op[o].m.versions : i \in Id /\ i \in Nat /\ i < op[o].m.next /\ i # 0
         /\ op[o].m.active \in op[o].m.versions \union {0}
         /\ ~hurt => Kept /\ meta = op[o].m
  <1>1. MayWrite(op[o])
    BY DEF MayWrite
  <1>2. Control(op[o]) /\ op[o] \in OpRecord /\ op[o].m \in Meta
    BY <1>1, Writer
  <1>3. Good(op[o].m) /\ IF meta = None THEN hurt ELSE meta = op[o].m
    BY <1>2 DEF Control
  <1>4. op[o].m # None
    BY <1>2, PromptAssumption
  <1>5. op[o].m.next \in Nat /\ op[o].m.versions \subseteq Id
    BY <1>2, Distinct DEF Meta
  <1> QED BY <1>1, <1>2, <1>3, <1>4, <1>5, Distinct DEF Good, SerialInv

LEMMA SaveNewStep ==
  ASSUME Types, Serial, SerialInv, NEW o \in Op, SaveNew(o)
  PROVE  SerialInv'
  <1>0. PICK m \in Meta : m = op[o].m
    BY DEF Types, OpRecord, OpType
  <1> DEFINE i == m.next
  <1>1. PICK r \in OpRecord : op' = [op EXCEPT ![o] = r]
    BY TypedStep DEF Step
  <1>2. op[o].pc = "act" /\ op[o].kind = "saveNew" /\ i <= MaxId /\ r = op'[o]
        /\ text' = [text EXCEPT ![i] = op[o].content] /\ UNCHANGED <<meta, old, hurt, saved, owed, force>>
    BY <1>0, <1>1 DEF SaveNew, Types, ghosts
  <1>3. /\ MayWrite(op[o]) /\ op[o] \in OpRecord /\ m \in Meta /\ m # None
        /\ Good(m) /\ (IF meta = None THEN hurt ELSE meta = m)
        /\ i \in Nat /\ \A v \in m.versions : v \in Id /\ v \in Nat /\ v < i /\ v # 0
        /\ m.active \in m.versions \union {0}
        /\ ~hurt => Kept /\ meta = m
    BY <1>0, <1>2, Working
  <1>4. r.pc = "list" /\ r.m = m /\ r.kind = "saveNew" /\ r.content = op[o].content
    BY <1>0, <1>2, <1>3 DEF SaveNew, Goto, OpRecord, OpType, Types
  <1>5. i \in Id /\ op[o].content \in New
    BY <1>2, <1>3, Distinct DEF Meta, OpRecord, Id
  <1>6. text'[i] = op[o].content /\ \A j \in Id \ {i} : text'[j] = text[j]
    BY <1>2, <1>5 DEF Types
  <1>7. \A v \in m.versions : text'[v] = text[v] /\ v # i
    BY <1>3, <1>6
  <1>8. Good(m)'
    BY <1>3, <1>7 DEF Good
  <1>9. Control(r)'
    BY <1>2, <1>3, <1>4, <1>6, <1>8 DEF Control, Good, Migrating
  <1>10. meta' # None => Good(meta)'
    BY <1>2, <1>3, <1>8 DEF Good
  <1>11. ~hurt' => Kept'
    <2> SUFFICES ASSUME ~hurt PROVE Kept'
      BY <1>2
    <2>1. /\ Kept /\ meta = m
      BY <1>3
    <2>2. ASSUME NEW t \in owed PROVE t = old \/ \E j \in Id : text'[j] = t
      <3>1. ASSUME NEW j \in Id, text[j] = t PROVE j # i
        BY <1>3, <1>5, <2>1, <3>1 DEF Kept
      <3> QED BY <1>6, <2>1, <3>1 DEF Kept
    <2>3. ASSUME NEW j \in Id, j >= m.next PROVE text'[j] \notin Legacy
      BY <1>5, <1>6, <2>1, <2>3, Distinct, <1>3 DEF Kept
    <2>4. Shown(m)' = Shown(m)
      BY <1>3, <1>7 DEF Shown
    <2> QED BY <1>2, <1>3, <1>7, <2>1, <2>2, <2>3, <2>4 DEF Kept, Shown
  <1> QED BY <1>1, <1>2, <1>3, <1>9, <1>10, <1>11, WriterSteps

\* A request that ends knows nothing.
LEMMA Ended ==
  ASSUME Types, NEW o \in Op, NEW r \in OpRecord, op' = [op EXCEPT ![o] = r], Done(o)
  PROVE  r.pc = "idle" /\ Control(r)'
  <1>1. r = NewOp
    BY DEF Done, Types
  <1>2. r.pc = "idle"
    BY <1>1 DEF NewOp
  <1> QED BY <1>2, Idler

LEMMA ListStep ==
  ASSUME Types, Serial, SerialInv, NEW o \in Op, List(o)
  PROVE  SerialInv'
  <1>0. PICK m \in Meta : m = op[o].m
    BY DEF Types, OpRecord, OpType
  <1>1. PICK r \in OpRecord : op' = [op EXCEPT ![o] = r]
    BY TypedStep DEF Step
  <1> DEFINE i == m.next
  <1>2. op[o].pc = "list" /\ op[o].kind = "saveNew" /\ r = op'[o] /\ op[o].kind # "load"
    BY <1>1 DEF List, Types, OpRecord
  <1>3. /\ MayWrite(op[o]) /\ op[o] \in OpRecord /\ m # None
        /\ Good(m) /\ (IF meta = None THEN hurt ELSE meta = m)
        /\ m.next \in Nat /\ \A v \in m.versions : v \in Id /\ v \in Nat /\ v < m.next /\ v # 0
        /\ m.active \in m.versions \union {0}
        /\ ~hurt => Kept /\ meta = m
    BY <1>0, <1>2, Working
  <1>4. i \in Id /\ op[o].content \in New /\ text[i] = op[o].content
    <2>1. Control(op[o]) /\ i <= MaxId
      BY <1>0, <1>2, <1>3, Writer DEF OpRecord
    <2> QED BY <1>0, <1>2, <1>3, <2>1, Distinct DEF Control, Meta, OpRecord, Id
  <1>5. /\ meta' = Listed(m, i) /\ saved' = [saved EXCEPT ![i] = op[o].content]
        /\ UNCHANGED <<text, old, hurt, owed, force>> /\ Control(r)'
    BY <1>0, <1>1, Ended DEF List
  <1>6. Listed(m, i) \in Meta /\ Listed(m, i).active = m.active /\ Listed(m, i).next = i + 1
        /\ Listed(m, i).versions = m.versions \union {i}
    BY <1>4, TypedListed
  <1>7. meta' # None
    BY <1>5, <1>6, PromptAssumption
  <1>8. Good(meta)'
    BY <1>3, <1>4, <1>5, <1>6 DEF Good, Text
  <1>9. ~hurt' => Kept'
    <2> SUFFICES ASSUME ~hurt PROVE Kept'
      BY <1>5
    <2>1. Kept /\ meta = m
      BY <1>3
    <2>2. ASSUME NEW j \in Id, saved'[j] # None PROVE j \in m.versions \union {i} /\ text[j] = saved'[j]
      BY <1>4, <1>5, <2>1, <2>2 DEF Kept, Types
    <2>3. ASSUME NEW j \in Id, j >= i + 1 PROVE text[j] \notin Legacy
      <3>1. j >= i
        BY <1>3, <2>3, Distinct
      <3> QED BY <1>3, <2>1, <3>1 DEF Kept
    <2>4. Shown(meta)' = Shown(meta)
      BY <1>5, <1>6, <2>1 DEF Shown
    <2> QED BY <1>3, <1>5, <1>6, <1>7, <2>1, <2>2, <2>3, <2>4 DEF Kept
  <1> QED BY <1>1, <1>3, <1>5, <1>7, <1>8, <1>9, WriterSteps

LEMMA SaveOverStep ==
  ASSUME Types, Serial, SerialInv, NEW o \in Op, SaveOver(o)
  PROVE  SerialInv'
  <1>0. PICK m \in Meta : m = op[o].m
    BY DEF Types, OpRecord, OpType
  <1>1. PICK r \in OpRecord : op' = [op EXCEPT ![o] = r]
    BY TypedStep DEF Step
  <1> DEFINE i == op[o].id
  <1>2. op[o].pc = "act" /\ op[o].kind = "saveOver" /\ r = op'[o] /\ op[o].kind # "load"
    BY <1>1 DEF SaveOver, Types
  <1>3. /\ MayWrite(op[o]) /\ op[o] \in OpRecord /\ m # None
        /\ Good(m) /\ (IF meta = None THEN hurt ELSE meta = m)
        /\ m.next \in Nat /\ \A v \in m.versions : v \in Id /\ v \in Nat /\ v < m.next /\ v # 0
        /\ m.active \in m.versions \union {0}
        /\ ~hurt => Kept /\ meta = m
    BY <1>0, <1>2, Working
  <1>4. Control(r)' /\ UNCHANGED <<meta, old, hurt>> /\ r.pc = "idle"
    BY <1>1, Ended DEF SaveOver
  <1>5. CASE Has(op[o])
    <2>1. i \in m.versions /\ i \in Id /\ op[o].content \in New
      BY <1>0, <1>2, <1>3, <1>5 DEF Has, OpRecord
    <2>2. /\ text' = [text EXCEPT ![i] = op[o].content] /\ saved' = [saved EXCEPT ![i] = op[o].content]
          /\ owed' = owed \ {text[i]} /\ force' = IF m.active = i THEN op[o].content ELSE force
      BY <1>0, <1>5 DEF SaveOver
    <2>3. text'[i] = op[o].content /\ \A j \in Id \ {i} : text'[j] = text[j]
      BY <2>1, <2>2 DEF Types
    <2>4. Good(m)'
      BY <1>3, <2>1, <2>3 DEF Good, Text
    <2>5. meta' # None => Good(meta)'
      BY <1>3, <1>4, <2>4 DEF Good
    <2>6. ~hurt' => Kept'
      <3> SUFFICES ASSUME ~hurt PROVE Kept'
        BY <1>4
      <3>1. Kept /\ meta = m /\ meta # None
        BY <1>3
      <3>2. ASSUME NEW j \in Id, saved'[j] # None PROVE j \in m.versions /\ text'[j] = saved'[j]
        BY <2>1, <2>2, <2>3, <3>1, <3>2 DEF Kept, Types
      <3>3. ASSUME NEW t \in owed' PROVE t = old \/ \E j \in Id : text'[j] = t
        BY <2>2, <2>3, <3>1, <3>3 DEF Kept
      <3>4. ASSUME NEW j \in Id, j >= m.next PROVE text'[j] \notin Legacy
        BY <1>3, <2>1, <2>3, <3>1, <3>4, Distinct DEF Kept
      <3>5. force' = Shown(m)'
        BY <1>3, <2>1, <2>2, <2>3, <3>1 DEF Kept, Shown
      <3> QED BY <1>4, <2>2, <3>1, <3>2, <3>3, <3>4, <3>5 DEF Kept, Shown
    <2> QED BY <1>1, <1>3, <1>4, <2>5, <2>6, WriterSteps
  <1>6. CASE ~Has(op[o])
    <2>1. UNCHANGED <<text, saved, owed, force>>
      BY <1>6 DEF SaveOver
    <2>2. ~MayWrite(r) /\ op[o].pc # "keep"
      BY <1>2, <1>4 DEF MayWrite
    <2> QED BY <1>1, <1>4, <2>1, <2>2, ReaderSteps
  <1> QED BY <1>5, <1>6

LEMMA RenameStep ==
  ASSUME Types, Serial, SerialInv, NEW o \in Op, Rename(o)
  PROVE  SerialInv'
  <1>0. PICK m \in Meta : m = op[o].m
    BY DEF Types, OpRecord, OpType
  <1>1. PICK r \in OpRecord : op' = [op EXCEPT ![o] = r]
    BY TypedStep DEF Step
  <1>2. op[o].pc = "act" /\ op[o].kind # "load" /\ r = op'[o]
    BY <1>1 DEF Rename, Types
  <1>3. /\ MayWrite(op[o]) /\ op[o] \in OpRecord /\ m # None
        /\ Good(m) /\ (IF meta = None THEN hurt ELSE meta = m)
        /\ m.next \in Nat /\ \A v \in m.versions : v \in Id /\ v \in Nat /\ v < m.next /\ v # 0
        /\ m.active \in m.versions \union {0}
        /\ ~hurt => Kept /\ meta = m
    BY <1>0, <1>2, Working
  <1>4. Control(r)' /\ meta' \in {m, meta} /\ UNCHANGED <<text, old, hurt, saved, owed, force>> /\ r.pc = "idle"
    BY <1>0, <1>1, Ended DEF Rename, ghosts
  <1>5. meta' # None => Good(meta)'
    BY <1>3, <1>4 DEF Good
  <1>6. ~hurt' => Kept'
    <2> SUFFICES ASSUME ~hurt PROVE Kept'
      BY <1>4
    <2>1. Kept /\ meta = m /\ meta # None /\ meta' = meta
      BY <1>3, <1>4
    <2> QED BY <1>4, <2>1 DEF Kept, Shown
  <1>7. meta' = None => meta = None
    BY <1>3, <1>4
  <1> QED BY <1>1, <1>3, <1>4, <1>5, <1>6, <1>7, WriterSteps

LEMMA SetActiveStep ==
  ASSUME Types, Serial, SerialInv, NEW o \in Op, SetActive(o)
  PROVE  SerialInv'
  <1>0. PICK m \in Meta : m = op[o].m
    BY DEF Types, OpRecord, OpType
  <1>1. PICK r \in OpRecord : op' = [op EXCEPT ![o] = r]
    BY TypedStep DEF Step
  <1> DEFINE i == op[o].id
  <1>2. op[o].pc = "act" /\ op[o].kind # "load" /\ r = op'[o]
    BY <1>1 DEF SetActive, Types
  <1>3. /\ MayWrite(op[o]) /\ op[o] \in OpRecord /\ m # None
        /\ Good(m) /\ (IF meta = None THEN hurt ELSE meta = m)
        /\ m.next \in Nat /\ \A v \in m.versions : v \in Id /\ v \in Nat /\ v < m.next /\ v # 0
        /\ m.active \in m.versions \union {0}
        /\ ~hurt => Kept /\ meta = m
    BY <1>0, <1>2, Working
  <1>4. Control(r)' /\ UNCHANGED <<text, old, hurt, saved, owed>> /\ r.pc = "idle"
    BY <1>1, Ended DEF SetActive
  <1>5. CASE UNCHANGED <<meta, force>>
    <2>1. ~MayWrite(r) /\ op[o].pc # "keep"
      BY <1>2, <1>4 DEF MayWrite
    <2> QED BY <1>1, <1>4, <1>5, <2>1, ReaderSteps
  <1>6. CASE /\ i \in m.versions \union {0} /\ meta' = [m EXCEPT !.active = i]
             /\ force' = IF i = 0 THEN Original ELSE text[i]
    <2>1. meta' \in Meta /\ meta'.active = i /\ meta'.next = m.next /\ meta'.versions = m.versions
      BY <1>3, <1>6 DEF Meta
    <2>2. meta' # None
      BY <2>1, PromptAssumption
    <2>3. Good(meta)'
      BY <1>3, <1>4, <1>6, <2>1 DEF Good
    <2>4. ~hurt' => Kept'
      <3> SUFFICES ASSUME ~hurt PROVE Kept'
        BY <1>4
      <3>1. Kept /\ meta = m /\ meta # None
        BY <1>3
      <3>2. force' = Shown(meta)'
        BY <1>4, <1>6, <2>1 DEF Shown
      <3> QED BY <1>4, <2>1, <2>2, <3>1, <3>2 DEF Kept
    <2> QED BY <1>1, <1>3, <1>4, <2>2, <2>3, <2>4, WriterSteps
  <1>7. i = 0 /\ m.active # 0 => meta' = [m EXCEPT !.active = i] /\ force' = Original
    BY <1>0 DEF SetActive
  <1>8. i # 0 /\ i \in m.versions => meta' = [m EXCEPT !.active = i] /\ force' = text[i]
    BY <1>0 DEF SetActive, Has
  <1>9. (i = 0 /\ m.active = 0) \/ (i # 0 /\ i \notin m.versions) => UNCHANGED <<meta, force>>
    BY <1>0 DEF SetActive, Has
  <1> QED BY <1>5, <1>6, <1>7, <1>8, <1>9

LEMMA DeleteStep ==
  ASSUME Types, Serial, SerialInv, NEW o \in Op, Delete(o)
  PROVE  SerialInv'
  <1>0. PICK m \in Meta : m = op[o].m
    BY DEF Types, OpRecord, OpType
  <1>1. PICK r \in OpRecord : op' = [op EXCEPT ![o] = r]
    BY TypedStep DEF Step
  <1>2. op[o].pc = "act" /\ op[o].kind # "load" /\ r = op'[o]
    BY <1>1 DEF Delete, Types
  <1>3. /\ MayWrite(op[o]) /\ op[o] \in OpRecord /\ m # None
        /\ Good(m) /\ (IF meta = None THEN hurt ELSE meta = m)
        /\ m.next \in Nat /\ \A v \in m.versions : v \in Id /\ v \in Nat /\ v < m.next /\ v # 0
        /\ m.active \in m.versions \union {0}
        /\ ~hurt => Kept /\ meta = m
    BY <1>0, <1>2, Working
  <1>4. UNCHANGED <<text, old, hurt>>
    BY DEF Delete
  <1>5. CASE ~Has(op[o])
    <2>1. Control(r)' /\ r.pc = "idle" /\ UNCHANGED <<meta, saved, owed, force>>
      BY <1>1, <1>5, Ended DEF Delete
    <2>2. ~MayWrite(r) /\ op[o].pc # "keep"
      BY <1>2, <2>1 DEF MayWrite
    <2> QED BY <1>1, <1>4, <2>1, <2>2, ReaderSteps
  <1>6. CASE Has(op[o])
    <2>0. PICK i \in Id : i = op[o].id /\ i \in m.versions /\ i # 0
      BY <1>0, <1>3, <1>6 DEF Has
    <2>1. /\ meta' = [m EXCEPT !.versions = m.versions \ {i}, !.active = IF m.active = i THEN 0 ELSE m.active]
          /\ saved' = [saved EXCEPT ![i] = None] /\ owed' = owed \ {text[i]}
          /\ force' = IF m.active = i THEN Original ELSE force
          /\ r.pc = "unlink" /\ r.id = i
      BY <1>0, <1>2, <1>3, <1>6, <2>0 DEF Delete, Goto, Types, OpRecord, OpType
    <2>2. /\ meta' \in Meta /\ meta'.versions = m.versions \ {i} /\ meta'.next = m.next
          /\ meta'.active = IF m.active = i THEN 0 ELSE m.active
      BY <2>1 DEF Meta
    <2>3. meta' # None
      BY <2>2, PromptAssumption
    <2>4. Good(meta)'
      BY <1>3, <1>4, <2>2 DEF Good
    <2>5. Control(r)'
      BY <1>4, <2>1, <2>2, <2>3 DEF Control, Migrating
    <2>6. ~hurt' => Kept'
      <3> SUFFICES ASSUME ~hurt PROVE Kept'
        BY <1>4
      <3>1. Kept /\ meta = m /\ meta # None
        BY <1>3
      <3>2. ASSUME NEW j \in Id, saved'[j] # None PROVE j \in m.versions \ {i} /\ text[j] = saved'[j]
        BY <2>0, <2>1, <3>1, <3>2 DEF Kept, Types
      <3>3. force' = Shown(meta)'
        BY <1>4, <2>0, <2>1, <2>2, <3>1 DEF Kept, Shown
      <3> QED BY <1>4, <2>1, <2>2, <2>3, <3>1, <3>2, <3>3 DEF Kept
    <2> QED BY <1>1, <1>3, <2>3, <2>4, <2>5, <2>6, WriterSteps
  <1> QED BY <1>5, <1>6

LEMMA UnlinkStep ==
  ASSUME Types, Serial, SerialInv, NEW o \in Op, Unlink(o)
  PROVE  SerialInv'
  <1>1. PICK r \in OpRecord : op' = [op EXCEPT ![o] = r]
    BY TypedStep DEF Step
  <1>2. op[o].pc = "unlink" /\ op[o].kind = "delete" /\ op[o] \in OpRecord /\ MayWrite(op[o])
    BY DEF Unlink, Types, OpRecord, MayWrite
  <1>3. PICK i \in Id : i = op[o].id
    BY <1>2 DEF OpRecord
  <1>4. meta # None /\ i \notin meta.versions /\ (~hurt => text[i] \notin owed)
    BY <1>2, <1>3, Writer DEF Control
  <1>5. /\ Control(r)' /\ UNCHANGED <<meta, old, hurt, saved, owed, force>>
        /\ text'[i] = None /\ \A j \in Id \ {i} : text'[j] = text[j]
    BY <1>1, <1>3, Ended DEF Unlink, Types, ghosts
  <1>6. meta \in Meta /\ Good(meta)
    BY <1>4 DEF Types, SerialInv
  <1>7. \A v \in meta.versions : v \in Id /\ v # i
    BY <1>4, <1>6 DEF Meta
  <1>8. Good(meta)'
    BY <1>5, <1>6, <1>7 DEF Good
  <1>9. ~hurt' => Kept'
    <2> SUFFICES ASSUME ~hurt PROVE Kept'
      BY <1>5
    <2>1. Kept
      BY DEF SerialInv
    <2>2. ASSUME NEW t \in owed PROVE t = old \/ \E j \in Id : text'[j] = t
      BY <1>4, <1>5, <2>1 DEF Kept
    <2>3. Shown(meta)' = Shown(meta)
      BY <1>5, <1>6, <1>7 DEF Good, Shown
    <2>4. None \notin Legacy
      BY Distinct DEF Text
    <2> QED BY <1>4, <1>5, <1>7, <2>1, <2>2, <2>3, <2>4 DEF Kept
  <1> QED BY <1>1, <1>2, <1>5, <1>4, <1>8, <1>9, WriterSteps

\* From here on a write of the migration has failed, and only the lists count.
LEMMA MigrationFailsStep ==
  ASSUME Types, Serial, SerialInv, NEW o \in Op, MigrationFails(o)
  PROVE  SerialInv'
  <1>0. PICK m \in Meta : m = op[o].m
    BY DEF Types, OpRecord, OpType
  <1>1. PICK r \in OpRecord : op' = [op EXCEPT ![o] = r]
    BY TypedStep
  <1>2. op[o].pc \in {"scan", "keep"} /\ MayWrite(op[o]) /\ r = op'[o] /\ op[o] \in OpRecord
    BY <1>1 DEF MigrationFails, MayWrite, Migrating, Types
  <1>3. meta = None /\ Good(m) /\ (op[o].pc = "scan" => m.active = 0)
    BY <1>0, <1>2, Writer DEF Control, Migrating
  <1>4. UNCHANGED <<meta, text, old>> /\ hurt' = TRUE
    BY DEF MigrationFails, files
  <1>5. CASE op[o].pc = "scan" /\ op' = [op EXCEPT ![o].todo = @ \ {Min(op[o].todo)}, ![o].m.next = @ + 1]
    <2>1. r.pc = "scan" /\ r.m = [m EXCEPT !.next = m.next + 1]
      BY <1>0, <1>2, <1>5 DEF Types, OpRecord, OpType
    <2>2. r.m.active = m.active /\ r.m.versions = m.versions /\ r.m.next = m.next + 1 /\ m.next \in Nat
      BY <2>1, Distinct DEF Meta
    <2>3. \A i \in m.versions : i \in Nat
      BY Distinct DEF Meta
    <2>4. Good(r.m)'
      BY <1>3, <1>4, <2>2, <2>3 DEF Good
    <2>5. Control(r)'
      BY <1>3, <1>4, <1>5, <2>1, <2>2, <2>4 DEF Control, Free, Migrating
    <2> QED BY <1>1, <1>2, <1>3, <1>4, <2>5, WriterSteps
  <1>6. CASE Goto(o, "drop") \/ Goto(o, "act")
    <2>1. r.pc \in {"drop", "act"} /\ r.m = m
      BY <1>0, <1>2, <1>6 DEF Goto, Types, OpRecord, OpType
    <2>2. Good(r.m)'
      BY <1>3, <1>4, <2>1 DEF Good
    <2>3. Control(r)'
      BY <1>3, <1>4, <2>1, <2>2 DEF Control, Free, Migrating
    <2> QED BY <1>1, <1>2, <1>3, <1>4, <2>3, WriterSteps
  <1> QED BY <1>5, <1>6 DEF MigrationFails

LEMMA CrashStep ==
  ASSUME Types, Serial, SerialInv, Crash
  PROVE  SerialInv'
  <1>1. PICK r \in OpRecord : r = NewOp
    BY TypedNew
  <1>2. r.pc = "idle" /\ \A o \in Op : op'[o] = r
    BY <1>1 DEF Crash, NewOp
  <1>3. \A o \in Op : Control(op[o])'
    <2>1. Control(r)'
      BY <1>2, Idler
    <2> QED BY <1>2, <2>1
  <1>4. OneWriter'
    BY <1>2 DEF OneWriter, MayWrite
  <1>5. UNCHANGED <<meta, text, old, saved, owed, force>>
    BY DEF Crash, files
  <1>6. meta' # None => Good(meta)'
    BY <1>5 DEF SerialInv, Good
  <1>7. ~hurt' => Kept'
    <2> SUFFICES ASSUME ~hurt' PROVE Kept'
      OBVIOUS
    <2>1. ~hurt /\ \A o \in Op : op[o].pc # "keep"
      BY DEF Crash
    <2> QED BY <1>5, <2>1 DEF SerialInv, Kept, InForce, Shown
  <1> QED BY <1>3, <1>4, <1>6, <1>7 DEF SerialInv

LEMMA InitSerial ==
  ASSUME Init
  PROVE  SerialInv
  <1>1. PICK r \in OpRecord : r = NewOp
    BY TypedNew
  <1>2. r.pc = "idle" /\ \A o \in Op : op[o] = r
    BY <1>1 DEF Init, NewOp
  <1>3. \A o \in Op : Control(op[o])
    BY <1>2, Idler
  <1>4. OneWriter
    BY <1>2 DEF OneWriter, MayWrite
  <1>5. meta # None => Good(meta) /\ Shown(meta) = Original /\ InForce = Original
    BY Distinct DEF Init, Empty, Good, Shown, InForce, Parses
  <1>6. \A i \in Id : saved[i] = None
    BY DEF Init
  <1>7. owed \subseteq Legacy /\ \A t \in owed : t = old \/ \E i \in Id : text[i] = t
    BY DEF Init
  <1>8. meta # None => \A j \in Id : text[j] \notin Legacy
    BY Distinct DEF Init, Text
  <1>9. force = InForce
    BY DEF Init
  <1>10. Kept
    BY <1>5, <1>6, <1>7, <1>8, <1>9 DEF Kept
  <1> QED BY <1>3, <1>4, <1>5, <1>10 DEF SerialInv

LEMMA NextSerial ==
  ASSUME Types, Serial, SerialInv, [Next]_vars
  PROVE  SerialInv'
  <1>1. CASE UNCHANGED vars
    BY <1>1 DEF vars, files, ghosts, SerialInv, OneWriter, MayWrite, Control, Good, Free, Shown, Kept, InForce
  <1>2. CASE Crash
    BY <1>2, CrashStep
  <1>3. ASSUME NEW o \in Op, Begin(o) \/ WriteFails(o) \/ MigrationFails(o)
        PROVE  SerialInv'
    BY <1>3, ReadingSteps, MigrationFailsStep
  <1>4. ASSUME NEW o \in Op, Step(o)
        PROVE  SerialInv'
    BY <1>4, ReadingSteps, ScanStep, CopyOldStep, DropKeepSteps, SaveNewStep, ListStep, SaveOverStep,
       RenameStep, SetActiveStep, DeleteStep, UnlinkStep DEF Step
  <1> QED BY <1>1, <1>2, <1>3, <1>4 DEF Next

-----------------------------------------------------------------------------
(* The theorems *)

\* The records, the list and the files are what they should be.
THEOREM Typed == Spec => []Types
  BY InitTypes, NextTypes, PTL DEF Spec

\* The induction: if the requests that write do not overlap.
THEOREM SerialHolds == Spec => [](Serial => SerialInv)
  <1>1. Init => (Serial => SerialInv)
    BY InitSerial
  <1>2. Types /\ (Serial => SerialInv) /\ [Next]_vars => (Serial => SerialInv)'
    BY NextSerial
  <1> QED BY <1>1, <1>2, Typed, PTL DEF Spec

\* versions.json and the files agree (prompt.go:269, 383, 431): each listed
\* version has its content and a number below the next one, after a crash or a
\* failed write at any point too, for any number of requests and versions.
THEOREM ListedHaveContent == Spec => []ListedHasContent
  <1>1. Types /\ (Serial => SerialInv) => ListedHasContent
    <2> SUFFICES ASSUME Types, SerialInv, meta # None PROVE ListedHasContent
      BY DEF ListedHasContent
    <2> QED BY Distinct DEF SerialInv, Good, ListedHasContent
  <1> QED BY <1>1, Typed, SerialHolds, PTL

\* What a user saved is there until it is deleted or saved over: no other save,
\* no later migration and no number used again touches it.
THEOREM SavesStay == Spec => []SavedStays
  <1>1. (Serial => SerialInv) => SavedStays
    BY DEF SerialInv, Kept, SavedStays
  <1> QED BY <1>1, SerialHolds, PTL

\* No archive or override of the old scheme that parses is lost in a migration
\* (prompt.go:349), wherever the server dies in it.
THEOREM LegacyStays == Spec => []LegacyKept
  <1>1. (Serial => SerialInv) => LegacyKept
    BY DEF SerialInv, Kept, LegacyKept
  <1> QED BY <1>1, SerialHolds, PTL

\* The prompt in force is the one last applied, and the original when there is none.
THEOREM InForceStays == Spec => []InForceKept
  <1>1. (Serial => SerialInv) => InForceKept
    <2> SUFFICES ASSUME Serial, SerialInv, ~hurt, \A o \in Op : op[o].pc \notin Migrating
                 PROVE  InForce = force
      BY DEF InForceKept
    <2>1. Kept /\ \A o \in Op : op[o].pc # "keep"
      BY DEF SerialInv, Migrating
    <2>2. CASE meta = None
      BY <2>1, <2>2 DEF Kept
    <2>3. CASE meta # None
      <3>1. meta.active # 0 => text[meta.active] \in Text
        BY <2>3 DEF SerialInv, Good
      <3>2. force = Shown(meta) /\ None \notin Text
        BY <2>1, <2>3, Distinct DEF Kept
      <3> QED BY <2>3, <3>1, <3>2 DEF Shown, InForce, Parses
    <2> QED BY <2>2, <2>3
  <1> QED BY <1>1, SerialHolds, PTL
=============================================================================
