----------------------------- MODULE PromptStore -----------------------------
(***************************************************************************)
(* The versions of the voice meta-prompt (internal/voice/prompt.go): one   *)
(* file per version, and versions.json with the list, the next id and the  *)
(* active one.  There is no lock: a request reads versions.json, works on  *)
(* its copy and writes it back.  The first request to find no              *)
(* versions.json, even one that only reads, migrates the files of the old  *)
(* scheme: numbered archives rewrite.vN.md, and the override rewrite.md.   *)
(* A write is a temporary file and a rename: it happens or it fails.       *)
(***************************************************************************)
EXTENDS Naturals, FiniteSetsExt

CONSTANTS
  Op,           \* requests in flight
  New,          \* contents a user saves
  None,
  Broken,       \* a content ParsePrompt rejects, edited by hand
  Original,     \* the prompt embedded in the binary: version 0
  Serial,       \* TRUE: requests that may write do not overlap
  Requests,     \* the request kinds made
  MaxLegacy,    \* archives of the old scheme (bound)
  MaxId,        \* version ids (bound)
  MaxRequests,  \* requests made (bound)
  MaxFaults     \* failed writes and crashes (bound)

Kinds == {"load", "saveNew", "saveOver", "rename", "setActive", "delete"}

Id == 1..MaxId
Legacy == 1..MaxLegacy + 1     \* archive n has content n, the override the last
Text == Legacy \union New
Meta == [active : Id \union {0}, next : 1..MaxId + 1, versions : SUBSET Id]

ASSUME PromptAssumption ==
  /\ Requests \subseteq Kinds /\ Serial \in BOOLEAN
  /\ {None, Broken, Original} \cap Text = {} /\ New \cap Legacy = {}
  /\ None \notin Meta
  /\ MaxLegacy \in Nat /\ MaxId \in Nat /\ MaxRequests \in Nat /\ MaxFaults \in Nat
  /\ MaxLegacy < MaxId

VARIABLES
  meta,     \* versions.json: its active, next and versions, or None
  text,     \* Id -> the content of rewrite.v<id>.md, or None
  old,      \* rewrite.md, or None; an empty one, never removed nor read, is none
  op,       \* Op -> control point and locals
  made,     \* requests made so far
  faults,   \* failed writes and crashes so far
  saved,    \* history: Id -> the content a listed version was last given, or None
  owed,     \* history: the old scheme's contents, not deleted or overwritten since
  force,    \* history: the content the user last put in force
  hurt      \* history: a write of the migration failed, or the server died
            \* between its removal of rewrite.md and its versions.json

files == <<meta, text, old>>
ghosts == <<saved, owed, force, hurt>>
vars == <<files, op, made, faults, ghosts>>

-----------------------------------------------------------------------------
Empty == [active |-> 0, next |-> 1, versions |-> {}]
NewOp == [kind |-> None, pc |-> "idle", id |-> 0, content |-> None, m |-> Empty, todo |-> {}]

Migrating == {"scan", "old", "drop", "keep"}
MayWrite(r) == r.pc # "idle" /\ (r.kind # "load" \/ r.pc \in Migrating \/ meta = None)

Goto(o, pc) == op' = [op EXCEPT ![o].pc = pc]
Done(o) == op' = [op EXCEPT ![o] = NewOp]

Parses(content) == content \in Text

\* What Load and Active return: the old scheme's override until it is migrated.
InForce ==
  LET content == IF meta = None THEN old
                 ELSE IF meta.active = 0 THEN None ELSE text[meta.active]
  IN IF Parses(content) THEN content ELSE Original

-----------------------------------------------------------------------------
(* readMeta *)

Start(o, kind, id, content) ==
  /\ op[o].pc = "idle" /\ kind \in Requests
  /\ LET r == [NewOp EXCEPT !.kind = kind, !.pc = "read", !.id = id, !.content = content] IN
     /\ Serial /\ MayWrite(r) => \A q \in Op : ~MayWrite(op[q])
     /\ op' = [op EXCEPT ![o] = r]
  /\ UNCHANGED <<files, faults, ghosts>>

ReadMeta(o) ==
  /\ op[o].pc = "read"
  /\ op' = [op EXCEPT ![o] =
       IF meta = None
       THEN [@ EXCEPT !.pc = "scan", !.m = Empty, !.todo = {i \in Id : text[i] # None}]
       ELSE [@ EXCEPT !.pc = "act", !.m = meta]]
  /\ UNCHANGED <<files, faults, ghosts>>

-----------------------------------------------------------------------------
(* migrateLegacy *)

Listed(m, i) == [m EXCEPT !.next = i + 1, !.versions = @ \union {i}]

\* Mutant: the archives in directory order.
ScanUnsorted(o) ==
  LET r == op[o]
      i == r.m.next
  IN
  /\ r.pc = "scan" /\ r.todo # {}
  /\ \E n \in r.todo :
       IF Parses(text[n])
       THEN /\ op' = [op EXCEPT ![o].todo = @ \ {n}, ![o].m = Listed(@, i)]
            /\ text' = IF n = i THEN text ELSE [text EXCEPT ![i] = text[n], ![n] = None]
       ELSE op' = [op EXCEPT ![o].todo = @ \ {n}] /\ UNCHANGED text
  /\ UNCHANGED <<meta, old, faults, ghosts>>

\* The next archive, in order; one that does not parse is skipped, and its
\* number is free for another.
Scan(o) ==
  LET r == op[o]
      n == Min(r.todo)
      i == r.m.next
  IN
  /\ r.pc = "scan" /\ r.todo # {}
  /\ IF Parses(text[n])
     THEN /\ op' = [op EXCEPT ![o].todo = @ \ {n}, ![o].m = Listed(@, i)]
          /\ text' = IF n = i THEN text ELSE [text EXCEPT ![i] = text[n], ![n] = None]
     ELSE op' = [op EXCEPT ![o].todo = @ \ {n}] /\ UNCHANGED text
  /\ UNCHANGED <<meta, old, faults, ghosts>>

\* The override becomes the newest version and the active one ...
CopyOld(o) ==
  LET i == op[o].m.next IN
  /\ op[o].pc = "scan" /\ op[o].todo = {}
  /\ IF Parses(old)
     THEN /\ i <= MaxId
          /\ text' = [text EXCEPT ![i] = old]
          /\ op' = [op EXCEPT ![o].pc = "drop", ![o].m = [Listed(@, i) EXCEPT !.active = i]]
     ELSE Goto(o, "drop") /\ UNCHANGED text
  /\ UNCHANGED <<meta, old, faults, ghosts>>

\* ... and is removed, copied or not.
DropOld(o) ==
  /\ op[o].pc = "drop"
  /\ old' = None
  /\ Goto(o, "keep")
  /\ UNCHANGED <<meta, text, faults, ghosts>>

KeepMeta(o) ==
  LET m == op[o].m IN
  /\ op[o].pc = "keep"
  /\ meta' = m
  /\ saved' = [i \in Id |-> IF i \in m.versions THEN text[i] ELSE None]
  /\ Goto(o, "act")
  /\ UNCHANGED <<text, old, faults, owed, force, hurt>>

-----------------------------------------------------------------------------
(* The operations, on the copy read *)

Load(o) ==
  /\ op[o].pc = "act" /\ op[o].kind = "load"
  /\ Done(o)
  /\ UNCHANGED <<files, faults, ghosts>>

\* Mutant: lists the version before its content is there.
SaveNewListing(o) ==
  LET r == op[o] IN
  /\ r.pc = "act" /\ r.kind = "saveNew" /\ r.m.next <= MaxId
  /\ meta' = Listed(r.m, r.m.next)
  /\ Goto(o, "list")
  /\ UNCHANGED <<text, old, faults, ghosts>>

SaveNew(o) ==
  LET r == op[o] IN
  /\ r.pc = "act" /\ r.kind = "saveNew" /\ r.m.next <= MaxId
  /\ text' = [text EXCEPT ![r.m.next] = r.content]
  /\ Goto(o, "list")
  /\ UNCHANGED <<meta, old, faults, ghosts>>

\* Mutant: a version that is saved is applied.
ListActivating(o) ==
  LET r == op[o] IN
  /\ r.pc = "list"
  /\ meta' = [Listed(r.m, r.m.next) EXCEPT !.active = r.m.next]
  /\ saved' = [saved EXCEPT ![r.m.next] = r.content]
  /\ Done(o)
  /\ UNCHANGED <<text, old, faults, owed, force, hurt>>

List(o) ==
  LET r == op[o] IN
  /\ r.pc = "list"
  /\ meta' = Listed(r.m, r.m.next)
  /\ saved' = [saved EXCEPT ![r.m.next] = r.content]
  /\ Done(o)
  /\ UNCHANGED <<text, old, faults, owed, force, hurt>>

Has(r) == r.id \in r.m.versions

SaveOver(o) ==
  LET r == op[o] IN
  /\ r.pc = "act" /\ r.kind = "saveOver"
  /\ IF Has(r)
     THEN /\ text' = [text EXCEPT ![r.id] = r.content]
          /\ saved' = [saved EXCEPT ![r.id] = r.content]
          /\ owed' = owed \ {text[r.id]}
          /\ force' = IF r.m.active = r.id THEN r.content ELSE force
     ELSE UNCHANGED <<text, saved, owed, force>>
  /\ Done(o)
  /\ UNCHANGED <<meta, old, faults, hurt>>

\* Only the name changes.
Rename(o) ==
  LET r == op[o] IN
  /\ r.pc = "act" /\ r.kind = "rename"
  /\ meta' = IF Has(r) THEN r.m ELSE meta
  /\ Done(o)
  /\ UNCHANGED <<text, old, faults, ghosts>>

SetActive(o) ==
  LET r == op[o] IN
  /\ r.pc = "act" /\ r.kind = "setActive"
  /\ CASE r.id = 0 /\ r.m.active = 0 -> UNCHANGED <<meta, force>>
       [] r.id = 0 /\ r.m.active # 0 ->
            meta' = [r.m EXCEPT !.active = 0] /\ force' = Original
       [] r.id # 0 /\ Has(r) ->
            meta' = [r.m EXCEPT !.active = r.id] /\ force' = text[r.id]
       [] OTHER -> UNCHANGED <<meta, force>>
  /\ Done(o)
  /\ UNCHANGED <<text, old, faults, saved, owed, hurt>>

\* Mutant: the deleted version's number is given out again.
DeleteReusing(o) ==
  LET r == op[o] IN
  /\ r.pc = "act" /\ r.kind = "delete" /\ Has(r)
  /\ meta' = [r.m EXCEPT !.versions = @ \ {r.id}, !.next = @ - 1,
                         !.active = IF @ = r.id THEN 0 ELSE @]
  /\ saved' = [saved EXCEPT ![r.id] = None]
  /\ owed' = owed \ {text[r.id]}
  /\ force' = IF r.m.active = r.id THEN Original ELSE force
  /\ Goto(o, "unlink")
  /\ UNCHANGED <<text, old, faults, hurt>>

\* Off the list first, and with it out of force.
Delete(o) ==
  LET r == op[o] IN
  /\ r.pc = "act" /\ r.kind = "delete"
  /\ IF Has(r)
     THEN /\ meta' = [r.m EXCEPT !.versions = @ \ {r.id},
                                 !.active = IF @ = r.id THEN 0 ELSE @]
          /\ saved' = [saved EXCEPT ![r.id] = None]
          /\ owed' = owed \ {text[r.id]}
          /\ force' = IF r.m.active = r.id THEN Original ELSE force
          /\ Goto(o, "unlink")
     ELSE Done(o) /\ UNCHANGED <<meta, saved, owed, force>>
  /\ UNCHANGED <<text, old, faults, hurt>>

Unlink(o) ==
  /\ op[o].pc = "unlink"
  /\ text' = [text EXCEPT ![op[o].id] = None]
  /\ Done(o)
  /\ UNCHANGED <<meta, old, faults, ghosts>>

-----------------------------------------------------------------------------
(* Failures *)

MayFail == faults < MaxFaults /\ faults' = faults + 1

\* A write of the migration that fails is passed over: an archive is not
\* listed, though its number is used up; the override is not copied; the
\* list stays in this request's memory.
MigrationFails(o) ==
  LET r == op[o] IN
  /\ MayFail /\ hurt' = TRUE
  /\ \/ /\ r.pc = "scan" /\ r.todo # {} /\ Min(r.todo) # r.m.next
        /\ Parses(text[Min(r.todo)])
        /\ op' = [op EXCEPT ![o].todo = @ \ {Min(r.todo)}, ![o].m.next = @ + 1]
     \/ r.pc = "scan" /\ r.todo = {} /\ Parses(old) /\ Goto(o, "drop")
     \/ r.pc = "keep" /\ Goto(o, "act")
  /\ UNCHANGED <<files, saved, owed, force>>

\* Any other one ends the request with an error; a file that is not unlinked
\* is passed over.
WriteFails(o) ==
  /\ MayFail
  /\ op[o].pc \in {"act", "list", "unlink"} /\ op[o].kind # "load"
  /\ Done(o)
  /\ UNCHANGED <<files, ghosts>>

Crash ==
  /\ MayFail
  /\ op' = [o \in Op |-> NewOp]
  /\ hurt' = (hurt \/ \E o \in Op : op[o].pc = "keep")
  /\ UNCHANGED <<files, saved, owed, force>>

-----------------------------------------------------------------------------
\* A new directory, one of the old scheme, or one already migrated, empty.
Init ==
  /\ meta \in {None, Empty}
  /\ text \in [Id -> Text \union {None, Broken}]
  /\ \A i \in Id : text[i] \in {None} \union IF i <= MaxLegacy THEN {i, Broken} ELSE {}
  /\ old \in {None, Broken, MaxLegacy + 1}
  /\ meta # None => old = None /\ \A i \in Id : text[i] = None
  /\ op = [o \in Op |-> NewOp]
  /\ made = 0 /\ faults = 0
  /\ saved = [i \in Id |-> None]
  /\ owed = {t \in Legacy : t = old \/ \E i \in Id : text[i] = t}
  /\ force = InForce
  /\ hurt = FALSE

Begin(o) ==
  \/ Start(o, "load", 0, None)
  \/ \E content \in New :
       \/ Start(o, "saveNew", 0, content)
       \/ \E i \in Id : Start(o, "saveOver", i, content)
  \/ \E i \in Id : Start(o, "rename", i, None) \/ Start(o, "delete", i, None)
  \/ \E i \in Id \union {0} : Start(o, "setActive", i, None)

Step(o) ==
  \/ ReadMeta(o) \/ Scan(o) \/ CopyOld(o) \/ DropOld(o) \/ KeepMeta(o)
  \/ Load(o) \/ SaveNew(o) \/ List(o) \/ SaveOver(o) \/ Rename(o) \/ SetActive(o)
  \/ Delete(o) \/ Unlink(o)

Next ==
  \/ made < MaxRequests /\ made' = made + 1 /\ \E o \in Op : Begin(o)
  \/ UNCHANGED made /\ (Crash \/ \E o \in Op : Step(o) \/ MigrationFails(o) \/ WriteFails(o))

Spec == Init /\ [][Next]_vars

-----------------------------------------------------------------------------
(* Properties *)

\* versions.json and the files agree: each version listed has its content, and
\* the active one is listed - after a crash or a failed write at any point
\* too, if no two requests write at once.
ListedHasContent ==
  Serial /\ meta # None =>
    /\ meta.active \in meta.versions \union {0}
    /\ \A i \in meta.versions : i < meta.next /\ text[i] # None

\* What a user has saved is there, whole, until it is deleted or saved over:
\* no other save, no later migration and no number used again touches it.
SavedStays ==
  Serial /\ ~hurt => \A i \in Id :
    saved[i] # None => meta # None /\ i \in meta.versions /\ text[i] = saved[i]

\* prompt.go:349: the migration works "without deleting or renumbering anything a
\* previous CCSM wrote": no archive or override that parses is lost, though
\* archives are renamed over each other's numbers and the server may die in
\* between.
LegacyKept ==
  Serial /\ ~hurt => \A t \in owed : t = old \/ \E i \in Id : text[i] = t

\* The prompt in force is the one last applied: the migration keeps the
\* override in force, saving applies nothing, deleting what is in force falls
\* back to the original.
InForceKept ==
  Serial /\ ~hurt /\ (\A o \in Op : op[o].pc \notin Migrating) => InForce = force
=============================================================================
