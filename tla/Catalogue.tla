------------------------------ MODULE Catalogue ------------------------------
(***************************************************************************)
(* The conversation catalogue of the agent (internal/host/host.go and      *)
(* fts.go): the listing with its archive filter and its full-text search,  *)
(* and the sidecar with what the user noted of each conversation.          *)
(*                                                                         *)
(* A listing takes its files, then the running conversations, then works   *)
(* file by file, while Claude Code goes on writing transcripts, sessions   *)
(* come and go, Syncthing brings files in and other requests write         *)
(* sidecars.  What a search read of a transcript is cached under the time  *)
(* and size the listing saw.  A sidecar is written to a temporary name,    *)
(* one per conversation and not per writer, and renamed.                   *)
(*                                                                         *)
(* A transcript's text is whether it has the words searched; of a sidecar  *)
(* only "archived" is kept, two texts of different length.  Filters that   *)
(* are functions of one file (title, tags, origin, project, dates) and the *)
(* cut into pages are left out; no note has the words searched, so that    *)
(* the second look at the notes (host.go:1721) finds nothing.              *)
(***************************************************************************)
EXTENDS Naturals, FiniteSets

CONSTANTS
  Op,          \* requests in flight
  Conv,        \* conversations
  None,
  Empty,       \* a sidecar truncated and not yet written
  Garbled,     \* a sidecar with the end of a longer one after it
  Requests,    \* the requests made: <<kind, filter>>
  Env,         \* what happens meanwhile: see the actions that name a member
  MaxSize,     \* lines of a transcript (bound)
  MaxTime,     \* ticks of the file system's clock (bound)
  MaxEvents    \* requests, failures, and changes around the agent (bound)

Filters == {"hide", "alive", "only"}   \* archived="", the same and alive=1, archived="only"
Time == 0..MaxTime
Transcript == [mod : Time, size : 1..MaxSize, hit : BOOLEAN]

ASSUME CatalogueAssumption ==
  /\ None \notin Conv \union {"search", "list", "set"} \union Transcript
  /\ Cardinality({None, Empty, Garbled}) = 3 /\ {None, Empty, Garbled} \cap BOOLEAN = {}
  /\ Requests \subseteq ({"search", "list"} \X Filters) \union {<<"set", None>>}
  /\ MaxSize \in Nat \ {0} /\ MaxTime \in Nat /\ MaxEvents \in Nat

VARIABLES
  file,     \* Conv -> its transcript: time, size, whether it matches; or None
  session,  \* Conv -> the claude process writing it: "none", "new" or "resumed"
  recent,   \* conversations written within the last minute
  meta,     \* Conv -> the sidecar, or None
  tmp,      \* Conv -> the temporary file of its sidecar, or None
  cache,    \* ftsTextCache.byID: Conv -> key and text, or None
  swapped,  \* history: conversations with a cached text under the key of a version
            \* there has been since, whose own text is another
  op,       \* Op -> control point and locals
  now,      \* the file system's clock: several writes may fall in one tick
  events,   \* how many so far
  given,    \* history: Conv -> the sidecar last renamed into place
  met       \* history: conversations of which two sidecar writes overlapped, and
            \* none has been written alone since

transcripts == <<file, session, recent, now>>
sidecars == <<meta, tmp, given, met>>
index == <<cache, swapped>>
vars == <<transcripts, sidecars, index, op, events>>

-----------------------------------------------------------------------------
Key == [mod : Time, size : 1..MaxSize]
Entry == [key : Key, hit : BOOLEAN]
Sidecar == BOOLEAN \union {None, Empty, Garbled}
KeyOf(f) == [mod |-> f.mod, size |-> f.size]

Existing == {c \in Conv : file[c] # None}
Hits == {c \in Existing : file[c].hit}
Running == {c \in Conv : session[c] # "none"}

\* readConversationMeta: a sidecar that is absent or malformed reads as defaults.
ArchivedIn(m) == m \in BOOLEAN /\ m

\* The conversations a running claude is writing: resumed ones have their id in
\* its arguments, the others are those written within the last minute.
Written == {c \in Running : session[c] = "resumed" \/ c \in recent}

\* A listing that has taken its files, and its histories of those still to be
\* looked at: "had", whose text had the words then and has kept them; "could",
\* whose text has had them since; "live", being written all the while.
NewList(kind, filter) ==
  [kind |-> kind, pc |-> "ps", filter |-> filter,
   listed |-> [c \in Conv |-> IF c \in Existing THEN KeyOf(file[c]) ELSE None],
   seen |-> IF kind = "search" THEN Existing ELSE {},
   alive |-> {}, todo |-> Existing, conv |-> None, archived |-> FALSE,
   had |-> Hits, could |-> Hits, live |-> Written \cap Existing]

\* The write of a sidecar, and whether no other overlaps it.
NewSet(c, v, alone) ==
  [kind |-> "set", pc |-> "open", conv |-> c, value |-> v, fd |-> "none", alone |-> alone]
Idle == [kind |-> None, pc |-> "idle"]

\* The records of requests.
ListOp ==
  [kind : {"search", "list"}, pc : {"ps", "mods", "next", "match", "show"},
   filter : Filters, listed : [Conv -> Key \union {None}], seen : SUBSET Conv,
   alive : SUBSET Conv, todo : SUBSET Conv, conv : Conv \union {None}, archived : BOOLEAN,
   had : SUBSET Conv, could : SUBSET Conv, live : SUBSET Conv]
SetOp ==
  [kind : {"set"}, pc : {"open", "write", "rename"}, conv : Conv, value : BOOLEAN,
   fd : {"none", "tmp", "meta", "gone"}, alone : BOOLEAN]

Listing(o) == op[o].kind \in {"search", "list"}
Setting(o, c) == op[o].kind = "set" /\ op[o].conv = c

Event == events < MaxEvents /\ events' = events + 1
Takes(o, kind, filter) == op[o].pc = "idle" /\ <<kind, filter>> \in Requests /\ Event
Done(o) == op' = [op EXCEPT ![o] = Idle]

-----------------------------------------------------------------------------
(* conversationsList *)

\* convFiles
ListFiles(o, kind, filter) ==
  /\ kind # "set" /\ Takes(o, kind, filter)
  /\ op' = [op EXCEPT ![o] = NewList(kind, filter)]
  /\ UNCHANGED <<transcripts, sidecars, index>>

\* aliveConversations: the arguments of every process; no claude process, no
\* second look.
Ps(o) ==
  /\ op[o].pc = "ps"
  /\ op' = [op EXCEPT ![o].pc = IF Running = {} THEN "next" ELSE "mods",
                      ![o].alive = {c \in Running : session[c] = "resumed"}]
  /\ UNCHANGED <<transcripts, sidecars, index, events>>

\* ps failed: nothing is alive.
PsFails(o) ==
  /\ op[o].pc = "ps" /\ "ps" \in Env /\ Event
  /\ op' = [op EXCEPT ![o].pc = "next", ![o].live = {}]
  /\ UNCHANGED <<transcripts, sidecars, index>>

\* Mutant: only processes that name their conversation count.
ModsNothing(o) ==
  /\ op[o].pc = "mods"
  /\ op' = [op EXCEPT ![o].pc = "next"]
  /\ UNCHANGED <<transcripts, sidecars, index, events>>

\* ... whatever was written within the last minute is alive too.
Mods(o) ==
  /\ op[o].pc = "mods"
  /\ op' = [op EXCEPT ![o].pc = "next", ![o].alive = @ \union (Existing \cap recent)]
  /\ UNCHANGED <<transcripts, sidecars, index, events>>

\* readConversationMeta of the next file.
ReadMeta(o, c) ==
  /\ op[o].pc = "next" /\ c \in op[o].todo
  /\ op' = [op EXCEPT ![o].pc = IF op[o].kind = "search" THEN "match" ELSE "show",
                      ![o].todo = @ \ {c}, ![o].conv = c, ![o].archived = ArchivedIn(meta[c])]
  /\ UNCHANGED <<transcripts, sidecars, index, events>>

EntryOf(r) == [key |-> r.listed[r.conv], hit |-> file[r.conv].hit]

\* On to the next file.
Past(r) ==
  [r EXCEPT !.pc = "next", !.conv = None, !.archived = FALSE, !.listed[r.conv] = None,
            !.alive = @ \ {r.conv}, !.had = @ \ {r.conv}, !.could = @ \ {r.conv}, !.live = @ \ {r.conv}]

\* Mutant: the size is not compared.
CachedByTime(r) == cache[r.conv] # None /\ cache[r.conv].key.mod = r.listed[r.conv].mod

\* ftsTextCache.match: an entry with the key of the listing answers; otherwise
\* the file is read, whatever it holds by now, and kept under that key.
Cached(r) == cache[r.conv] # None /\ cache[r.conv].key = r.listed[r.conv]

Match(o) ==
  LET r == op[o]
      c == r.conv
      entry == IF Cached(r) THEN cache[c] ELSE EntryOf(r)
  IN
  /\ r.pc = "match"
  /\ Cached(r) \/ file[c] # None
  /\ cache' = [cache EXCEPT ![c] = entry]
  /\ swapped' = IF Cached(r) THEN swapped ELSE swapped \ {c}
  /\ op' = [op EXCEPT ![o] = IF entry.hit THEN [r EXCEPT !.pc = "show"] ELSE Past(r)]
  /\ UNCHANGED <<transcripts, sidecars, events>>

\* The file has gone since the listing: the whole search answers 500.
MatchFails(o) ==
  LET r == op[o] IN
  /\ r.pc = "match" /\ ~Cached(r) /\ file[r.conv] = None
  /\ Done(o)
  /\ UNCHANGED <<transcripts, sidecars, index, events>>

\* What the alive and archived filters leave out.
FilteredOut(r) ==
  \/ r.filter = "alive" /\ r.conv \notin r.alive
  \/ r.archived /\ r.conv \notin r.alive /\ r.filter # "only"
  \/ ~r.archived /\ r.filter = "only"

\* The summary is read and the conversation is listed.
Show(o) ==
  /\ op[o].pc = "show" /\ file[op[o].conv] # None /\ ~FilteredOut(op[o])
  /\ op' = [op EXCEPT ![o] = Past(op[o])]
  /\ UNCHANGED <<transcripts, sidecars, index, events>>

\* It is not, or its file has gone since.
Hide(o) ==
  /\ op[o].pc = "show" /\ (file[op[o].conv] = None \/ FilteredOut(op[o]))
  /\ op' = [op EXCEPT ![o] = Past(op[o])]
  /\ UNCHANGED <<transcripts, sidecars, index, events>>

\* ftsTextCache.prune, after a search that went through every file.
EndList(o) ==
  LET r == op[o] IN
  /\ r.pc = "next" /\ r.todo = {}
  /\ cache' = IF r.kind = "search"
              THEN [c \in Conv |-> IF c \in r.seen THEN cache[c] ELSE None]
              ELSE cache
  /\ swapped' = IF r.kind = "search" THEN swapped \cap r.seen ELSE swapped
  /\ Done(o)
  /\ UNCHANGED <<transcripts, sidecars, events>>

-----------------------------------------------------------------------------
(* conversationMetaSet and writeJSONAtomic *)

\* Every field of the sidecar is replaced.
StartSet(o, c, v) ==
  LET others == {q \in Op : Setting(q, c)} IN
  /\ Takes(o, "set", None) /\ c \in Existing
  /\ op' = [q \in Op |-> IF q = o THEN NewSet(c, v, others = {})
                         ELSE IF q \in others THEN [op[q] EXCEPT !.alone = FALSE] ELSE op[q]]
  /\ met' = IF others = {} THEN met ELSE met \union {c}
  /\ UNCHANGED <<transcripts, meta, tmp, given, index>>

\* Mutant: writes the sidecar itself.
OpenInPlace(o) ==
  /\ op[o].pc = "open"
  /\ meta' = [meta EXCEPT ![op[o].conv] = Empty]
  /\ op' = [op EXCEPT ![o].pc = "write", ![o].fd = "meta"]
  /\ UNCHANGED <<transcripts, tmp, given, met, index, events>>

\* The temporary file is created, or truncated if there is one.
OpenTmp(o) ==
  /\ op[o].pc = "open"
  /\ tmp' = [tmp EXCEPT ![op[o].conv] = Empty]
  /\ op' = [op EXCEPT ![o].pc = "write", ![o].fd = "tmp"]
  /\ UNCHANGED <<transcripts, meta, given, met, index, events>>

\* v written at the start of a file that holds old.
Over(old, v) == IF old \in {Empty, v} THEN {v} ELSE {v, Garbled}

\* The descriptor's file, which another writer may have renamed or replaced.
WriteTmp(o) ==
  LET r == op[o]
      c == r.conv
  IN
  /\ r.pc = "write"
  /\ \/ r.fd = "tmp" /\ \E x \in Over(tmp[c], r.value) : tmp' = [tmp EXCEPT ![c] = x]
        /\ UNCHANGED meta
     \/ r.fd = "meta" /\ \E x \in Over(meta[c], r.value) : meta' = [meta EXCEPT ![c] = x]
        /\ UNCHANGED tmp
     \/ r.fd = "gone" /\ UNCHANGED <<meta, tmp>>
  /\ op' = [op EXCEPT ![o].pc = "rename"]
  /\ UNCHANGED <<transcripts, given, met, index, events>>

\* The temporary file cannot be created or written: it stays as it is.
WriteFails(o) ==
  /\ op[o].pc \in {"open", "write"} /\ op[o].kind = "set" /\ "write" \in Env /\ Event
  /\ Done(o)
  /\ UNCHANGED <<transcripts, sidecars, index>>

\* Those who have the renamed file open now have the sidecar open, those who had
\* the sidecar open a file without a name.
Renamed(r, c) ==
  IF r.kind = "set" /\ r.conv = c
  THEN [r EXCEPT !.fd = CASE @ = "tmp" -> "meta" [] @ = "meta" -> "gone" [] OTHER -> @]
  ELSE r

Rename(o) ==
  LET c == op[o].conv IN
  /\ op[o].pc = "rename" /\ tmp[c] # None
  /\ meta' = [meta EXCEPT ![c] = tmp[c]]
  /\ tmp' = [tmp EXCEPT ![c] = None]
  /\ given' = [given EXCEPT ![c] = op[o].value]
  /\ met' = IF op[o].alone THEN met \ {c} ELSE met
  /\ op' = [q \in Op |-> IF q = o THEN Idle ELSE Renamed(op[q], c)]
  /\ UNCHANGED <<transcripts, index, events>>

\* Another writer's rename took it away: 500.
RenameFails(o) ==
  /\ op[o].pc = "rename" /\ tmp[op[o].conv] = None
  /\ Done(o)
  /\ UNCHANGED <<transcripts, sidecars, index, events>>

\* The agent dies and is started again: its requests and its cache are gone.
Crash ==
  /\ "crash" \in Env /\ Event
  /\ op' = [o \in Op |-> Idle]
  /\ cache' = [c \in Conv |-> None] /\ swapped' = {}
  /\ UNCHANGED <<transcripts, sidecars>>
-----------------------------------------------------------------------------
(* Claude Code, the user and Syncthing *)

\* What the listings in progress are owed, after a change of a transcript and
\* after one of who writes it.
Awaits(r, c) == r.kind \in {"search", "list"} /\ c \in r.todo \union {r.conv}

TextChanges(c, hit) ==
  op' = [o \in Op |->
    IF ~Awaits(op[o], c) THEN op[o]
    ELSE IF hit THEN [op[o] EXCEPT !.could = @ \union {c}]
    ELSE [op[o] EXCEPT !.had = @ \ {c}]]

NotWritten(c) ==
  op' = [o \in Op |-> IF Listing(o) THEN [op[o] EXCEPT !.live = @ \ {c}] ELSE op[o]]

\* Another version, perhaps one there has been before.  It may come with the time
\* and size under which another text is cached: those of an earlier version with
\* other words, or its own, when a search that had listed it read what replaced it.
Becomes(c, f) ==
  /\ file' = [file EXCEPT ![c] = f]
  /\ swapped' = IF cache[c] # None /\ cache[c].key = KeyOf(f) /\ cache[c].hit # f.hit
                THEN swapped \union {c} ELSE swapped
  /\ TextChanges(c, f.hit)

SessionStarts(c) ==
  /\ Event
  /\ session[c] = "none"
  /\ session' = [session EXCEPT ![c] = IF file[c] = None THEN "new" ELSE "resumed"]
  /\ UNCHANGED <<file, recent, now, sidecars, index, op>>

SessionEnds(c) ==
  /\ Event
  /\ session[c] # "none"
  /\ session' = [session EXCEPT ![c] = "none"]
  /\ NotWritten(c)
  /\ UNCHANGED <<file, recent, now, sidecars, index>>

\* A line is appended; the first one creates the transcript.
Appends(c, hit) ==
  LET old == IF file[c] = None THEN [size |-> 0, hit |-> FALSE] ELSE file[c] IN
  /\ Event
  /\ session[c] # "none" /\ old.size < MaxSize
  /\ Becomes(c, [mod |-> now, size |-> old.size + 1, hit |-> old.hit \/ hit])
  /\ recent' = recent \union {c}
  /\ UNCHANGED <<session, now, sidecars, cache>>

\* Nothing has been written for a minute.
FallsQuiet(c) ==
  /\ Event
  /\ c \in recent
  /\ recent' = recent \ {c}
  /\ IF session[c] = "resumed" THEN UNCHANGED op ELSE NotWritten(c)
  /\ UNCHANGED <<file, session, now, sidecars, index>>

\* Another machine's version or a backup, with its time.
Synced(c) ==
  /\ Event
  /\ "sync" \in Env /\ session[c] = "none"
  /\ \E f \in Transcript : f.mod <= now /\ Becomes(c, f)
  /\ UNCHANGED <<session, recent, now, sidecars, cache>>

Deleted(c) ==
  /\ Event
  /\ "delete" \in Env /\ session[c] = "none" /\ file[c] # None
  /\ file' = [file EXCEPT ![c] = None]
  /\ recent' = recent \ {c}
  /\ UNCHANGED <<session, now, sidecars, index, op>>

Tick ==
  /\ Event /\ now < MaxTime
  /\ now' = now + 1
  /\ UNCHANGED <<file, session, recent, sidecars, index, op>>

-----------------------------------------------------------------------------
\* Transcripts of one line, some with a sidecar.
Init ==
  /\ file \in [Conv -> {None} \union [mod : {0}, size : {1}, hit : BOOLEAN]]
  /\ meta \in [Conv -> {None} \union BOOLEAN] /\ given = meta
  /\ \A c \in Conv : file[c] = None => meta[c] = None
  /\ session = [c \in Conv |-> "none"] /\ recent = {}
  /\ tmp = [c \in Conv |-> None] /\ cache = [c \in Conv |-> None] /\ swapped = {}
  /\ op = [o \in Op |-> Idle]
  /\ now = 0 /\ events = 0 /\ met = {}

Start(o) ==
  \/ \E kind \in {"search", "list"}, filter \in Filters : ListFiles(o, kind, filter)
  \/ \E c \in Conv, v \in BOOLEAN : StartSet(o, c, v)

Step(o) ==
  \/ Ps(o) \/ PsFails(o) \/ Mods(o) \/ (\E c \in Conv : ReadMeta(o, c))
  \/ Match(o) \/ MatchFails(o) \/ Show(o) \/ Hide(o) \/ EndList(o)
  \/ OpenTmp(o) \/ WriteTmp(o) \/ WriteFails(o) \/ Rename(o) \/ RenameFails(o)

Environment ==
  \/ Crash \/ Tick
  \/ \E c \in Conv :
       \/ SessionStarts(c) \/ SessionEnds(c) \/ FallsQuiet(c) \/ Synced(c) \/ Deleted(c)
       \/ \E hit \in BOOLEAN : Appends(c, hit)

Next == Environment \/ \E o \in Op : Start(o) \/ Step(o)

Spec == Init /\ [][Next]_vars

-----------------------------------------------------------------------------
(* Properties *)

\* Types.
TypeOK ==
  /\ file \in [Conv -> Transcript \union {None}]
  /\ session \in [Conv -> {"none", "new", "resumed"}]
  /\ recent \subseteq Conv
  /\ meta \in [Conv -> Sidecar] /\ tmp \in [Conv -> Sidecar]
  /\ cache \in [Conv -> Entry \union {None}] /\ swapped \subseteq Conv
  /\ op \in [Op -> ListOp \union SetOp \union {Idle}]
  /\ now \in Time /\ events \in 0..MaxEvents
  /\ given \in [Conv -> Sidecar] /\ met \subseteq Conv

\* fts.go:187: match "re-indexes the conversation when its file changed".  A search
\* misses no conversation that had the words when it was listed and has kept them,
\* and finds none that has not had them since the request came in - whatever is
\* appended, replaced, restored, deleted, cached and pruned meanwhile by other
\* searches, except that a conversation put back to a version under whose time and
\* size another text is cached is searched by that text until it is read again.
SearchTrue ==
  [][\A o \in Op :
       LET r == op[o] IN
       r.pc = "match" /\ r.conv \notin swapped
         => /\ op'[o].pc = "show" => r.conv \in r.could
            /\ op'[o].pc = "next" => r.conv \notin r.had]_vars

\* host.go:1748: "A conversation being written by a running claude is never
\* hidden", for one written all the while the listing ran - by a session that
\* carries its id or one that does not, archived before or during the listing.
LiveShown ==
  \A o \in Op :
    op[o].pc = "show" /\ op[o].filter # "only" /\ op[o].conv \in op[o].live
      => ~FilteredOut(op[o])

\* writeJSONAtomic: a sidecar reads at all times as what was last saved, through
\* failed writes and crashes at any step, unless two saves of it overlapped; the
\* next one that runs alone repairs it.
SidecarWhole == \A c \in Conv \ met : meta[c] = given[c]
=============================================================================
