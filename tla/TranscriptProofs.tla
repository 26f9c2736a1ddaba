-------------------------- MODULE TranscriptProofs --------------------------
(***************************************************************************)
(* Proofs about what is made of the transcripts.  Of Catalogue, for any    *)
(* number of requests and conversations: its types; that a cached search   *)
(* is true; that what is alive is listed; that a sidecar is what was last  *)
(* saved.  Of ChatDedup, for any texts and any length of the transcript:   *)
(* that the chat is the conversation, and that its numbers are stable.     *)
(***************************************************************************)
EXTENDS Catalogue, ChatDedup, WellFoundedInduction, SequenceTheorems, TLAPS

-----------------------------------------------------------------------------
(* CATALOGUE *)

\* A listing looks at one file at a time, and knows the time and the size of
\* that one and of those still to be looked at.
Listings ==
  {r \in ListOp :
     /\ r.pc \in {"match", "show"} => r.conv \in Conv /\ r.conv \notin r.todo
     /\ \A c \in Conv : c \in r.todo \/ c = r.conv => r.listed[c] \in Key}
OpRecord == Listings \union SetOp \union {Idle}
Types == TypeOK /\ op \in [Op -> OpRecord]

-----------------------------------------------------------------------------
(* Records of requests *)

\* What the control point or the kind of a request says of its record.
LEMMA Kinds ==
  ASSUME NEW r \in OpRecord
  PROVE  /\ r.kind \in {"search", "list"} => r \in Listings
         /\ r.pc \in {"ps", "mods", "next", "match", "show"} => r \in Listings
         /\ r.pc \in {"open", "write", "rename"} => r \in SetOp
         /\ r.kind = "set" => r \in SetOp
  <1>1. CASE r \in Listings
    BY <1>1 DEF ListOp, Listings
  <1>2. CASE r \in SetOp
    BY <1>2 DEF SetOp
  <1>3. CASE r = Idle
    BY <1>3, CatalogueAssumption DEF Idle
  <1> QED BY <1>1, <1>2, <1>3 DEF OpRecord

\* A listing that goes on to the next file.
LEMMA PastType ==
  ASSUME NEW r \in Listings, r.pc \in {"match", "show"}
  PROVE  /\ Past(r) \in Listings
         /\ Past(r).kind = r.kind /\ Past(r).pc = "next" /\ Past(r).conv = None
         /\ Past(r).todo = r.todo /\ Past(r).filter = r.filter
         /\ Past(r).listed = [r.listed EXCEPT ![r.conv] = None]
         /\ Past(r).alive = r.alive \ {r.conv} /\ Past(r).live = r.live \ {r.conv}
         /\ Past(r).had = r.had \ {r.conv} /\ Past(r).could = r.could \ {r.conv}
  <1>1. r \in ListOp /\ r.conv \in Conv /\ r.conv \notin r.todo
    BY DEF Listings
  <1>2. Past(r) \in ListOp
    BY <1>1 DEF ListOp, Past
  <1>3. /\ Past(r).kind = r.kind /\ Past(r).pc = "next" /\ Past(r).conv = None
        /\ Past(r).todo = r.todo /\ Past(r).filter = r.filter
        /\ Past(r).listed = [r.listed EXCEPT ![r.conv] = None]
        /\ Past(r).alive = r.alive \ {r.conv} /\ Past(r).live = r.live \ {r.conv}
        /\ Past(r).had = r.had \ {r.conv} /\ Past(r).could = r.could \ {r.conv}
    BY <1>1 DEF ListOp, Past
  <1>4. \A c \in Conv : c \in Past(r).todo \/ c = Past(r).conv => Past(r).listed[c] \in Key
    BY <1>1, <1>3, CatalogueAssumption DEF Listings, ListOp
  <1> QED BY <1>2, <1>3, <1>4 DEF Listings

\* A listing that begins.
LEMMA NewListType ==
  ASSUME TypeOK, NEW kind \in {"search", "list"}, NEW filter \in Filters
  PROVE  NewList(kind, filter) \in Listings
  <1> DEFINE K == [c \in Conv |-> IF c \in Existing THEN KeyOf(file[c]) ELSE None]
  <1>1. K \in [Conv -> Key \union {None}] /\ \A c \in Existing : K[c] \in Key
    BY DEF TypeOK, Existing, KeyOf, Key, Transcript
  <1>2. Existing \subseteq Conv /\ Hits \subseteq Conv /\ Written \subseteq Conv
    BY DEF Existing, Hits, Written, Running
  <1>3. NewList(kind, filter) \in ListOp
    BY <1>1, <1>2 DEF NewList, ListOp
  <1>4. /\ NewList(kind, filter).listed = K /\ NewList(kind, filter).todo = Existing
        /\ NewList(kind, filter).conv = None /\ NewList(kind, filter).pc = "ps"
    BY DEF NewList
  <1> HIDE DEF K
  <1> QED BY <1>1, <1>3, <1>4, CatalogueAssumption DEF Listings

\* A listing whose histories change, or what it knows of who writes.
LEMMA OwedType ==
  ASSUME NEW r \in Listings, NEW S \in SUBSET Conv
  PROVE  /\ [r EXCEPT !.could = S] \in Listings
         /\ [r EXCEPT !.had = S] \in Listings
         /\ [r EXCEPT !.live = S] \in Listings
  BY DEF Listings, ListOp

\* A save that begins, and one that is overlapped.
LEMMA SetType ==
  ASSUME NEW c \in Conv, NEW v \in BOOLEAN, NEW b \in BOOLEAN, NEW r \in SetOp
  PROVE  NewSet(c, v, b) \in SetOp /\ [r EXCEPT !.alone = b] \in SetOp /\ Renamed(r, c) \in SetOp
  BY DEF SetOp, NewSet, Renamed

-----------------------------------------------------------------------------
(* Types *)

\* A step that only changes the record of one request, of a listing.
LEMMA TypeOfSteps ==
  ASSUME Types, NEW o \in Op, Ps(o) \/ PsFails(o) \/ Mods(o) \/ \E c \in Conv : ReadMeta(o, c)
  PROVE  op' \in [Op -> OpRecord]
  <1>1. op[o] \in Listings
    BY Kinds DEF Types, Ps, PsFails, Mods, ReadMeta
  <1>2. {c \in Running : session[c] = "resumed"} \subseteq Conv /\ Existing \subseteq Conv
    BY DEF Running, Existing
  <1>3. ASSUME NEW p \in {"next", "mods"}, NEW A \in SUBSET Conv, op[o].pc \in {"ps", "mods"}
        PROVE  [op[o] EXCEPT !.pc = p, !.alive = A] \in Listings
    BY <1>1, <1>3 DEF Listings, ListOp
  <1>4. CASE Ps(o)
    BY <1>2, <1>3, <1>4 DEF Ps, Types, OpRecord
  <1>5. CASE PsFails(o)
    <2>1. [op[o] EXCEPT !.pc = "next", !.live = {}] \in Listings
      BY <1>1, <1>5 DEF PsFails, Listings, ListOp
    <2> QED BY <1>5, <2>1 DEF PsFails, Types, OpRecord
  <1>6. CASE Mods(o)
    <2>1. op[o].alive \union (Existing \cap recent) \in SUBSET Conv
      BY <1>1, <1>2 DEF Listings, ListOp
    <2> QED BY <1>3, <1>6, <2>1 DEF Mods, Types, OpRecord
  <1>7. ASSUME NEW c \in Conv, ReadMeta(o, c) PROVE op' \in [Op -> OpRecord]
    <2>1. ASSUME NEW p \in {"match", "show"}, NEW a \in BOOLEAN
          PROVE  [op[o] EXCEPT !.pc = p, !.todo = @ \ {c}, !.conv = c, !.archived = a] \in Listings
      BY <1>1, <1>7 DEF ReadMeta, Listings, ListOp
    <2> QED BY ZenonT(60), <1>7, <2>1 DEF ReadMeta, ArchivedIn, Types, OpRecord
  <1> QED BY <1>4, <1>5, <1>6, <1>7

\* ... and those that may end or skip to the next file.
LEMMA TypeOfMatch ==
  ASSUME Types, NEW o \in Op, Match(o)
  PROVE  op' \in [Op -> OpRecord] /\ cache' \in [Conv -> Entry \union {None}]
  <1> DEFINE r == op[o]
             entry == IF Cached(r) THEN cache[r.conv] ELSE EntryOf(r)
  <1>1. r \in Listings /\ r.pc = "match"
    BY Kinds DEF Types, Match
  <1>2. r.conv \in Conv /\ r.listed[r.conv] \in Key
    BY <1>1 DEF Listings
  <1>3. entry \in Entry
    <2>1. CASE Cached(r)
      BY <1>2, <2>1 DEF Types, TypeOK, Cached
    <2>2. CASE ~Cached(r)
      BY <1>2, <2>2 DEF Match, Types, TypeOK, EntryOf, Entry, Transcript
    <2> QED BY <2>1, <2>2
  <1>4. [r EXCEPT !.pc = "show"] \in Listings
    BY <1>1 DEF Listings, ListOp
  <1>5. Past(r) \in Listings
    BY <1>1, PastType
  <1>6. /\ cache' = [cache EXCEPT ![r.conv] = entry]
        /\ op' = [op EXCEPT ![o] = IF entry.hit THEN [r EXCEPT !.pc = "show"] ELSE Past(r)]
    BY DEF Match
  <1> HIDE DEF entry
  <1> QED BY <1>2, <1>3, <1>4, <1>5, <1>6 DEF Types, TypeOK, OpRecord

\* Every step keeps the types.
LEMMA TypeStep == Types /\ [Next]_vars => Types'
  <1>0. SUFFICES ASSUME Types, [Next]_vars PROVE Types'
    OBVIOUS
  <1>1. TypeOK /\ op \in [Op -> OpRecord] /\ Idle \in OpRecord
    BY <1>0 DEF Types, OpRecord
  <1>2. Event => events' \in 0..MaxEvents
    BY <1>1, CatalogueAssumption DEF TypeOK, Event
  <1>3. OpRecord \subseteq ListOp \union SetOp \union {Idle}
    BY DEF OpRecord, Listings
  <1>4. ASSUME op' \in [Op -> OpRecord], UNCHANGED <<transcripts, sidecars, index>>,
               events' \in 0..MaxEvents
        PROVE  Types'
    BY <1>1, <1>3, <1>4 DEF Types, TypeOK, transcripts, sidecars, index
  <1>5. UNCHANGED events => events' \in 0..MaxEvents
    BY <1>1 DEF TypeOK
  <1>6. ASSUME NEW o \in Op, NEW kind \in {"search", "list"}, NEW filter \in Filters,
               ListFiles(o, kind, filter)
        PROVE  Types'
    BY <1>1, <1>2, <1>4, <1>6, NewListType DEF ListFiles, Takes, OpRecord
  <1>7. ASSUME NEW o \in Op, NEW c \in Conv, NEW v \in BOOLEAN, StartSet(o, c, v)
        PROVE  Types'
    <2>1. \A b \in BOOLEAN : NewSet(c, v, b) \in OpRecord
      BY DEF NewSet, SetOp, OpRecord
    <2>2. \A q \in Op : Setting(q, c) => [op[q] EXCEPT !.alone = FALSE] \in OpRecord
      BY <1>1, Kinds, SetType DEF Setting, OpRecord
    <2>3. op' \in [Op -> OpRecord]
      BY <1>1, <1>7, <2>1, <2>2 DEF StartSet
    <2>4. met' \subseteq Conv /\ events' \in 0..MaxEvents
      BY <1>1, <1>2, <1>7 DEF StartSet, Takes, TypeOK
    <2> QED
      BY <1>1, <1>3, <1>7, <2>3, <2>4 DEF Types, TypeOK, StartSet, transcripts, index
  <1>8. ASSUME NEW o \in Op, Ps(o) \/ PsFails(o) \/ Mods(o) \/ \E c \in Conv : ReadMeta(o, c)
        PROVE  Types'
    BY <1>0, <1>2, <1>4, <1>5, <1>8, TypeOfSteps DEF Ps, PsFails, Mods, ReadMeta
  <1>9. ASSUME NEW o \in Op, Match(o) PROVE Types'
    <2>1. op' \in [Op -> OpRecord] /\ cache' \in [Conv -> Entry \union {None}]
      BY <1>0, <1>9, TypeOfMatch
    <2>2. swapped' \subseteq Conv
      BY <1>1, <1>9 DEF Match, TypeOK
    <2> QED BY <1>1, <1>3, <1>9, <2>1, <2>2 DEF Types, TypeOK, Match, transcripts, sidecars
  <1>10. ASSUME NEW o \in Op, Show(o) \/ Hide(o) PROVE Types'
    <2>1. Past(op[o]) \in OpRecord
      BY <1>1, <1>10, Kinds, PastType DEF Show, Hide, OpRecord
    <2> QED BY <1>1, <1>4, <1>5, <1>10, <2>1 DEF Show, Hide
  <1>11. ASSUME NEW o \in Op, MatchFails(o) \/ WriteFails(o) \/ RenameFails(o) PROVE Types'
    BY <1>1, <1>2, <1>4, <1>5, <1>11 DEF MatchFails, WriteFails, RenameFails, Done
  <1>12. ASSUME NEW o \in Op, EndList(o) PROVE Types'
    <2>1. op' \in [Op -> OpRecord] /\ cache' \in [Conv -> Entry \union {None}]
      BY <1>1, <1>12 DEF EndList, Done, TypeOK
    <2>2. swapped' \subseteq Conv
      BY <1>1, <1>12 DEF EndList, TypeOK
    <2> QED BY <1>1, <1>3, <1>12, <2>1, <2>2 DEF Types, TypeOK, EndList, transcripts, sidecars
  <1>13. ASSUME NEW o \in Op, OpenTmp(o) \/ WriteTmp(o) PROVE Types'
    <2>1. op[o] \in SetOp
      BY <1>1, <1>13, Kinds DEF OpenTmp, WriteTmp
    <2>2. /\ [op[o] EXCEPT !.pc = "write", !.fd = "tmp"] \in OpRecord
          /\ [op[o] EXCEPT !.pc = "rename"] \in OpRecord
      BY <2>1 DEF SetOp, OpRecord
    <2>3. op' \in [Op -> OpRecord]
      BY <1>1, <1>13, <2>2 DEF OpenTmp, WriteTmp
    <2>4. meta' \in [Conv -> Sidecar] /\ tmp' \in [Conv -> Sidecar]
      <3>1. op[o].value \in Sidecar /\ \A old : Over(old, op[o].value) \subseteq Sidecar
        BY <2>1 DEF SetOp, Sidecar, Over
      <3>2. CASE OpenTmp(o)
        BY <1>1, <3>2 DEF OpenTmp, TypeOK, Sidecar
      <3>3. CASE WriteTmp(o)
        BY <1>1, <3>1, <3>3 DEF WriteTmp, TypeOK
      <3> QED BY <1>13, <3>2, <3>3
    <2> QED
      BY <1>1, <1>3, <1>13, <2>3, <2>4 DEF Types, TypeOK, OpenTmp, WriteTmp, transcripts, index
  <1>14. ASSUME NEW o \in Op, Rename(o) PROVE Types'
    <2>1. op[o] \in SetOp
      BY <1>1, <1>14, Kinds DEF Rename
    <2>2. op[o].conv \in Conv /\ op[o].value \in Sidecar
      BY <2>1 DEF SetOp, Sidecar
    <2>3. \A q \in Op : Renamed(op[q], op[o].conv) \in OpRecord
      BY <1>1, <2>2, Kinds, SetType DEF Renamed, OpRecord
    <2>4. op' \in [Op -> OpRecord]
      BY <1>1, <1>14, <2>3 DEF Rename
    <2>5. meta' \in [Conv -> Sidecar] /\ tmp' \in [Conv -> Sidecar] /\ given' \in [Conv -> Sidecar]
      BY <1>1, <1>14, <2>2 DEF Rename, TypeOK, Sidecar
    <2> QED
      BY <1>1, <1>3, <1>14, <2>4, <2>5 DEF Types, TypeOK, Rename, transcripts, index
  <1>15. CASE Crash
    <2>1. op' \in [Op -> OpRecord] /\ cache' \in [Conv -> Entry \union {None}] /\ events' \in 0..MaxEvents
      BY <1>1, <1>2, <1>15 DEF Crash
    <2> QED BY <1>1, <1>3, <1>15, <2>1 DEF Types, TypeOK, Crash, transcripts, sidecars
  <1>16. CASE Tick
    BY <1>1, <1>2, <1>3, <1>16, CatalogueAssumption DEF Types, TypeOK, Tick, Time, sidecars, index
  <1>17. ASSUME NEW c \in Conv, SessionStarts(c) \/ Deleted(c) PROVE Types'
    BY <1>1, <1>2, <1>3, <1>17 DEF Types, TypeOK, SessionStarts, Deleted, sidecars, index
  <1>18. ASSUME NEW c \in Conv, NotWritten(c) PROVE op' \in [Op -> OpRecord]
    <2>1. \A o \in Op : Listing(o) => [op[o] EXCEPT !.live = @ \ {c}] \in OpRecord
      <3> SUFFICES ASSUME NEW o \in Op, Listing(o) PROVE [op[o] EXCEPT !.live = @ \ {c}] \in OpRecord
        OBVIOUS
      <3>1. op[o] \in Listings
        BY <1>1, Kinds DEF Listing
      <3>2. op[o].live \ {c} \in SUBSET Conv
        BY <3>1 DEF Listings, ListOp
      <3> QED BY <3>1, <3>2, OwedType DEF OpRecord
    <2> QED BY <1>1, <1>18, <2>1 DEF NotWritten
  <1>19. ASSUME NEW c \in Conv, SessionEnds(c) \/ FallsQuiet(c) PROVE Types'
    <2>1. op' \in [Op -> OpRecord]
      BY <1>1, <1>18, <1>19 DEF SessionEnds, FallsQuiet
    <2> QED
      BY <1>1, <1>2, <1>3, <1>19, <2>1 DEF Types, TypeOK, SessionEnds, FallsQuiet, sidecars, index
  <1>20. ASSUME NEW c \in Conv, NEW h \in BOOLEAN, TextChanges(c, h)
         PROVE  op' \in [Op -> OpRecord]
    <2>1. \A o \in Op : Awaits(op[o], c) =>
             [op[o] EXCEPT !.could = @ \union {c}] \in OpRecord /\ [op[o] EXCEPT !.had = @ \ {c}] \in OpRecord
      <3> SUFFICES ASSUME NEW o \in Op, Awaits(op[o], c)
                   PROVE  /\ [op[o] EXCEPT !.could = @ \union {c}] \in OpRecord
                          /\ [op[o] EXCEPT !.had = @ \ {c}] \in OpRecord
        OBVIOUS
      <3>1. op[o] \in Listings
        BY <1>1, Kinds DEF Awaits
      <3>2. op[o].could \union {c} \in SUBSET Conv /\ op[o].had \ {c} \in SUBSET Conv
        BY <3>1 DEF Listings, ListOp
      <3> QED BY <3>1, <3>2, OwedType DEF OpRecord
    <2> QED BY <1>1, <1>20, <2>1 DEF TextChanges
  <1>21. ASSUME NEW c \in Conv, Synced(c) PROVE Types'
    <2>1. PICK f \in Transcript : Becomes(c, f)
      BY <1>21 DEF Synced, Transcript
    <2>2. op' \in [Op -> OpRecord] /\ file' \in [Conv -> Transcript \union {None}] /\ swapped' \subseteq Conv
      BY <1>1, <1>20, <2>1 DEF Becomes, TypeOK, Transcript
    <2> QED BY <1>1, <1>2, <1>3, <1>21, <2>2 DEF Types, TypeOK, Synced, sidecars
  <1>22. ASSUME NEW c \in Conv, NEW h \in BOOLEAN, Appends(c, h) PROVE Types'
    <2>1. PICK f \in Transcript : Becomes(c, f)
      BY <1>1, <1>22, CatalogueAssumption DEF Appends, TypeOK, Transcript, Time
    <2>2. op' \in [Op -> OpRecord] /\ file' \in [Conv -> Transcript \union {None}] /\ swapped' \subseteq Conv
      BY <1>1, <1>20, <2>1 DEF Becomes, TypeOK, Transcript
    <2> QED BY <1>1, <1>2, <1>3, <1>22, <2>2 DEF Types, TypeOK, Appends, sidecars
  <1>23. CASE UNCHANGED vars
    BY <1>1, <1>4, <1>5, <1>23 DEF vars
  <1>24. ASSUME NEW o \in Op, Start(o) PROVE Types'
    BY <1>6, <1>7, <1>24 DEF Start
  <1>25. ASSUME NEW o \in Op, Step(o) PROVE Types'
    BY <1>8, <1>9, <1>10, <1>11, <1>12, <1>13, <1>14, <1>25 DEF Step
  <1>26. CASE Environment
    BY <1>15, <1>16, <1>17, <1>19, <1>21, <1>22, <1>26 DEF Environment
  <1> QED BY <1>0, <1>23, <1>24, <1>25, <1>26 DEF Next

\* ... and they hold at the start.
LEMMA TypeInit == Init => Types
  <1>1. SUFFICES ASSUME Init PROVE Types
    OBVIOUS
  <1>2. file \in [Conv -> Transcript \union {None}]
    <2>1. [mod : {0}, size : {1}, hit : BOOLEAN] \subseteq Transcript
      BY CatalogueAssumption DEF Transcript, Time
    <2> QED BY <1>1, <2>1 DEF Init
  <1>3. meta \in [Conv -> Sidecar] /\ given \in [Conv -> Sidecar] /\ tmp \in [Conv -> Sidecar]
    BY <1>1 DEF Init, Sidecar
  <1>4. op \in [Op -> OpRecord] /\ op \in [Op -> ListOp \union SetOp \union {Idle}]
    BY <1>1 DEF Init, OpRecord
  <1> QED BY <1>1, <1>2, <1>3, <1>4, CatalogueAssumption DEF Init, Types, TypeOK, Time

-----------------------------------------------------------------------------
(* Frames *)

\* What happens around the agent changes neither who asks for what nor where
\* each request stands.
LEMMA AroundFrame ==
  ASSUME Types, NEW c \in Conv, NotWritten(c) \/ (\E h \in BOOLEAN : TextChanges(c, h)),
         NEW o \in Op
  PROVE  /\ op'[o].kind = op[o].kind /\ op'[o].pc = op[o].pc
         /\ ~Listing(o) => op'[o] = op[o]
         /\ Listing(o) => /\ op[o] \in Listings /\ op'[o] \in Listings
                          /\ op'[o].todo = op[o].todo /\ op'[o].conv = op[o].conv
                          /\ op'[o].alive = op[o].alive /\ op'[o].listed = op[o].listed
  <1>1. op[o] \in OpRecord /\ (Listing(o) => op[o] \in Listings)
    BY Kinds DEF Types, Listing
  <1>2. CASE ~Listing(o)
    BY <1>2 DEF NotWritten, TextChanges, Listing, Awaits
  <1>3. CASE Listing(o)
    <2>1. op[o] \in Listings
      BY <1>1, <1>3
    <2>2. op[o].live \ {c} \in SUBSET Conv /\ op[o].could \union {c} \in SUBSET Conv
          /\ op[o].had \ {c} \in SUBSET Conv
      BY <2>1 DEF Listings, ListOp
    <2>3. op'[o] \in {op[o], [op[o] EXCEPT !.live = @ \ {c}],
                      [op[o] EXCEPT !.could = @ \union {c}], [op[o] EXCEPT !.had = @ \ {c}]}
      BY <1>3 DEF NotWritten, TextChanges
    <2>4. op'[o] \in Listings
      BY <2>1, <2>2, <2>3, OwedType
    <2> QED BY <1>3, <2>1, <2>3, <2>4 DEF Listings, ListOp
  <1> QED BY <1>2, <1>3

\* A step of a listing changes its own record only, and of a listing it remains
\* one or is done.
LEMMA ListingFrame ==
  ASSUME Types, NEW o \in Op,
         \/ \E kind \in {"search", "list"}, filter \in Filters : ListFiles(o, kind, filter)
         \/ Ps(o) \/ PsFails(o) \/ Mods(o) \/ (\E c \in Conv : ReadMeta(o, c))
         \/ Match(o) \/ MatchFails(o) \/ Show(o) \/ Hide(o) \/ EndList(o)
  PROVE  /\ \A q \in Op \ {o} : op'[q] = op[q]
         /\ op[o].kind # "set" /\ op'[o].kind # "set"
         /\ UNCHANGED sidecars
  <1>1. op[o] \in Listings \/ op[o].pc = "idle"
    BY Kinds DEF Types, ListFiles, Takes, Ps, PsFails, Mods, ReadMeta, Match, MatchFails, Show,
                 Hide, EndList
  <1>2. op[o].kind # "set"
    BY <1>1, Kinds DEF Types, SetOp, Listings, ListOp
  <1>3. CASE \E kind \in {"search", "list"}, filter \in Filters : ListFiles(o, kind, filter)
    BY <1>2, <1>3 DEF ListFiles, NewList, Types
  <1>4. CASE Ps(o) \/ PsFails(o) \/ Mods(o) \/ (\E c \in Conv : ReadMeta(o, c))
    <2>1. op[o] \in Listings
      BY <1>4, Kinds DEF Types, Ps, PsFails, Mods, ReadMeta
    <2>2. op[o] \in ListOp
      BY <2>1 DEF Listings
    <2>3. ASSUME Ps(o) \/ PsFails(o) \/ Mods(o)
          PROVE  op'[o].kind = op[o].kind /\ \A q \in Op \ {o} : op'[q] = op[q]
      BY <2>2, <2>3 DEF Ps, PsFails, Mods, Types, ListOp
    <2>4. ASSUME NEW c \in Conv, ReadMeta(o, c)
          PROVE  op'[o].kind = op[o].kind /\ \A q \in Op \ {o} : op'[q] = op[q]
      BY <2>2, <2>4 DEF ReadMeta, Types, ListOp
    <2>5. UNCHANGED sidecars
      BY <1>4 DEF Ps, PsFails, Mods, ReadMeta
    <2> QED BY <1>2, <1>4, <2>3, <2>4, <2>5
  <1>5. CASE Match(o)
    <2>1. op[o] \in Listings /\ op[o].pc = "match"
      BY <1>5, Kinds DEF Types, Match
    <2>2. op'[o] \in {[op[o] EXCEPT !.pc = "show"], Past(op[o])}
      BY <1>5 DEF Types, Match
    <2>3. op'[o].kind = op[o].kind
      BY <2>1, <2>2, PastType DEF Listings, ListOp
    <2> QED BY <1>2, <1>5, <2>3 DEF Match, Types
  <1>6. CASE MatchFails(o) \/ EndList(o)
    BY <1>2, <1>6, CatalogueAssumption DEF MatchFails, EndList, Done, Idle, Types
  <1>7. CASE Show(o) \/ Hide(o)
    <2>1. op[o] \in Listings /\ op[o].pc = "show"
      BY <1>7, Kinds DEF Types, Show, Hide
    <2> QED BY <1>2, <1>7, <2>1, PastType DEF Show, Hide, Types
  <1> QED BY <1>2, <1>3, <1>4, <1>5, <1>6, <1>7

\* A step of a save leaves the listings alone.
LEMMA SavingFrame ==
  ASSUME Types, NEW o \in Op,
         \/ \E c \in Conv, v \in BOOLEAN : StartSet(o, c, v)
         \/ OpenTmp(o) \/ WriteTmp(o) \/ WriteFails(o) \/ Rename(o) \/ RenameFails(o)
  PROVE  /\ \A q \in Op : op[q] \in Listings \/ op'[q] \in Listings => op'[q] = op[q]
         /\ UNCHANGED <<transcripts, index>>
  <1>1. \A r \in Listings : r.kind # "set" /\ r # Idle /\ r.pc \notin {"idle", "open", "write", "rename"}
    BY CatalogueAssumption DEF Listings, ListOp, Idle
  <1>2. CASE \E c \in Conv, v \in BOOLEAN : StartSet(o, c, v)
    <2>1. PICK c \in Conv, v \in BOOLEAN : StartSet(o, c, v)
      BY <1>2
    <2>2. \A b \in BOOLEAN : NewSet(c, v, b).kind = "set"
      BY DEF NewSet
    <2>3. \A q \in Op : Setting(q, c) => [op[q] EXCEPT !.alone = FALSE].kind = "set"
      BY Kinds DEF Setting, SetOp, Types
    <2> QED BY <1>1, <2>1, <2>2, <2>3 DEF StartSet, Setting, Takes
  <1>3. CASE OpenTmp(o) \/ WriteTmp(o)
    <2>1. op[o] \in SetOp
      BY <1>3, Kinds DEF Types, OpenTmp, WriteTmp
    <2>2. op'[o].kind = "set"
      BY <1>3, <2>1 DEF OpenTmp, WriteTmp, Types, SetOp
    <2> QED BY <1>1, <1>3, <2>1, <2>2 DEF OpenTmp, WriteTmp, Types, SetOp
  <1>4. CASE WriteFails(o) \/ RenameFails(o)
    BY <1>1, <1>4 DEF WriteFails, RenameFails, Done, Types
  <1>5. CASE Rename(o)
    <2>1. \A q \in Op : Renamed(op[q], op[o].conv) = op[q]
                        \/ (op[q].kind = "set" /\ Renamed(op[q], op[o].conv).kind = "set")
      BY Kinds DEF Renamed, SetOp, Types
    <2> QED BY <1>1, <1>5, <2>1 DEF Rename, Types
  <1> QED BY <1>2, <1>3, <1>4, <1>5
       DEF StartSet, OpenTmp, WriteTmp, WriteFails, Rename, RenameFails

-----------------------------------------------------------------------------
(* What is alive is listed *)

\* A conversation a listing has been owed since it took its files is found when
\* it looks: by ps if a session has its id, by its time otherwise.
LiveRecord(r) ==
  /\ r.pc \in {"ps", "mods"} => r.live \subseteq Written
  /\ r.pc = "mods" => \A c \in r.live : session[c] = "resumed" => c \in r.alive
  /\ r.pc \in {"next", "match", "show"} => r.live \subseteq r.alive
LiveInv ==
  /\ recent \subseteq Existing
  /\ \A o \in Op : op[o] \in Listings => LiveRecord(op[o])

\* It is kept when neither the transcripts nor what a listing knows changes.
LEMMA LiveKept ==
  ASSUME LiveInv, UNCHANGED transcripts,
         \A q \in Op : op'[q] \in Listings => op'[q] = op[q] \/ LiveRecord(op[q])'
  PROVE  LiveInv'
  <1>1. recent' \subseteq Existing' /\ Written' = Written /\ session' = session
    BY DEF LiveInv, transcripts, Existing, Written, Running
  <1>2. ASSUME NEW q \in Op, op'[q] \in Listings PROVE LiveRecord(op[q])'
    <2>1. CASE op'[q] = op[q]
      <3>1. LiveRecord(op[q])
        BY <1>2, <2>1 DEF LiveInv
      <3> QED BY <1>1, <2>1, <3>1 DEF LiveRecord
    <2> QED BY <1>2, <2>1
  <1> QED BY <1>1, <1>2 DEF LiveInv, Listings, ListOp, Filters, Key, Time

LEMMA LiveStep == Types /\ LiveInv /\ [Next]_vars => LiveInv'
  <1>0. SUFFICES ASSUME Types, LiveInv, [Next]_vars PROVE LiveInv'
    OBVIOUS
  <1>1. ASSUME NEW o \in Op, op[o] \in Listings PROVE LiveRecord(op[o])
    BY <1>0, <1>1 DEF LiveInv
  <1>2. ASSUME NEW o \in Op, NEW kind \in {"search", "list"}, NEW filter \in Filters,
               ListFiles(o, kind, filter)
        PROVE  LiveInv'
    <2>1. UNCHANGED transcripts /\ \A q \in Op \ {o} : op'[q] = op[q]
      BY <1>0, <1>2, ListingFrame DEF ListFiles
    <2>2. op'[o].pc = "ps" /\ op'[o].live = Written \cap Existing /\ Written' = Written
      BY <1>0, <1>2, <2>1 DEF ListFiles, NewList, Types, transcripts, Written, Running
    <2>3. LiveRecord(op[o])'
      BY <2>2 DEF LiveRecord
    <2> QED BY <1>0, <2>1, <2>3, LiveKept
  <1>3. ASSUME NEW o \in Op, Ps(o) \/ PsFails(o) \/ Mods(o) \/ \E c \in Conv : ReadMeta(o, c)
        PROVE  LiveInv'
    <2>1. op[o] \in ListOp /\ LiveRecord(op[o])
      BY <1>0, <1>1, <1>3, Kinds DEF Types, Ps, PsFails, Mods, ReadMeta, Listings
    <2>2. UNCHANGED transcripts /\ \A q \in Op \ {o} : op'[q] = op[q]
      BY <1>0, <1>3, ListingFrame DEF Ps, PsFails, Mods, ReadMeta
    <2>3. Written' = Written /\ session' = session
      BY <2>2 DEF transcripts, Written, Running
    <2>4. CASE Ps(o)
      <3>1. /\ op'[o].pc = IF Running = {} THEN "next" ELSE "mods"
            /\ op'[o].alive = {c \in Running : session[c] = "resumed"}
            /\ op'[o].live = op[o].live
        BY <1>0, <2>1, <2>4 DEF Ps, Types, ListOp
      <3>2. op[o].live \subseteq Written
        BY <2>1, <2>4 DEF Ps, LiveRecord
      <3> QED BY <1>0, <2>2, <2>3, <3>1, <3>2, LiveKept DEF LiveRecord, Written
    <2>5. CASE PsFails(o)
      <3>1. op'[o].pc = "next" /\ op'[o].live = {}
        BY <1>0, <2>1, <2>5 DEF PsFails, Types, ListOp
      <3> QED BY <1>0, <2>2, <3>1, LiveKept DEF LiveRecord
    <2>6. CASE Mods(o)
      <3>1. /\ op'[o].pc = "next" /\ op'[o].live = op[o].live
            /\ op'[o].alive = op[o].alive \union (Existing \cap recent)
        BY <1>0, <2>1, <2>6 DEF Mods, Types, ListOp
      <3>2. /\ op[o].live \subseteq Written
            /\ \A c \in op[o].live : session[c] = "resumed" => c \in op[o].alive
        BY <2>1, <2>6 DEF Mods, LiveRecord
      <3>3. op[o].live \subseteq op'[o].alive
        BY <1>0, <3>1, <3>2 DEF Written, LiveInv
      <3> QED BY <1>0, <2>2, <3>1, <3>3, LiveKept DEF LiveRecord
    <2>7. ASSUME NEW c \in Conv, ReadMeta(o, c) PROVE LiveInv'
      <3>1. /\ op'[o].pc \in {"match", "show"} /\ op'[o].live = op[o].live
            /\ op'[o].alive = op[o].alive
        BY <1>0, <2>1, <2>7 DEF ReadMeta, Types, ListOp
      <3>2. op[o].live \subseteq op[o].alive
        BY <2>1, <2>7 DEF ReadMeta, LiveRecord
      <3> QED BY <1>0, <2>2, <3>1, <3>2, LiveKept DEF LiveRecord
    <2> QED BY <1>3, <2>4, <2>5, <2>6, <2>7
  <1>4. ASSUME NEW o \in Op, Match(o) \/ Show(o) \/ Hide(o) PROVE LiveInv'
    <2>1. op[o] \in Listings /\ op[o].pc \in {"match", "show"}
      BY <1>0, <1>4, Kinds DEF Types, Match, Show, Hide
    <2>2. UNCHANGED transcripts /\ \A q \in Op \ {o} : op'[q] = op[q]
      BY <1>0, <1>4, ListingFrame DEF Match, Show, Hide
    <2>3. op'[o] \in {[op[o] EXCEPT !.pc = "show"], Past(op[o])}
      BY <1>0, <1>4 DEF Types, Match, Show, Hide
    <2>4. op[o].live \subseteq op[o].alive
      BY <1>1, <2>1 DEF LiveRecord
    <2>5. op'[o].pc \in {"next", "show"} /\ op'[o].live \subseteq op'[o].alive
      <3>1. CASE op'[o] = [op[o] EXCEPT !.pc = "show"]
        BY <2>1, <2>4, <3>1 DEF Listings, ListOp
      <3>2. CASE op'[o] = Past(op[o])
        BY <2>1, <2>4, <3>2, PastType
      <3> QED BY <2>3, <3>1, <3>2
    <2> QED BY <1>0, <2>2, <2>5, LiveKept DEF LiveRecord
  <1>5. Idle \notin Listings
    BY CatalogueAssumption DEF Idle, Listings, ListOp
  <1>6. ASSUME NEW o \in Op, MatchFails(o) \/ EndList(o) PROVE LiveInv'
    <2>1. UNCHANGED transcripts /\ \A q \in Op \ {o} : op'[q] = op[q]
      BY <1>0, <1>6, ListingFrame DEF MatchFails, EndList
    <2>2. op'[o] = Idle
      BY <1>0, <1>6 DEF Types, MatchFails, EndList, Done
    <2> QED BY <1>0, <1>5, <2>1, <2>2, LiveKept
  <1>7. ASSUME NEW o \in Op,
               \/ \E c \in Conv, v \in BOOLEAN : StartSet(o, c, v)
               \/ OpenTmp(o) \/ WriteTmp(o) \/ WriteFails(o) \/ Rename(o) \/ RenameFails(o)
        PROVE  LiveInv'
    <2>1. UNCHANGED transcripts /\ \A q \in Op : op'[q] \in Listings => op'[q] = op[q]
      BY <1>0, <1>7, SavingFrame
    <2> QED BY <1>0, <2>1, LiveKept
  <1>8. CASE Crash
    <2>1. UNCHANGED transcripts /\ \A q \in Op : op'[q] = Idle
      BY <1>8 DEF Crash
    <2> QED BY <1>0, <1>5, <2>1, LiveKept
  <1>9. CASE UNCHANGED vars
    BY <1>0, <1>9, LiveKept DEF vars
  <1>10. CASE Tick
    BY <1>0, <1>10 DEF Tick, LiveInv, LiveRecord, Existing, Written, Running
  <1>11. ASSUME NEW c \in Conv, SessionStarts(c) PROVE LiveInv'
    <2>1. c \notin Written /\ Written \subseteq Written' /\ \A d \in Written : session'[d] = session[d]
      BY <1>0, <1>11 DEF Types, TypeOK, SessionStarts, Written, Running
    <2>2. op' = op /\ recent' \subseteq Existing'
      BY <1>0, <1>11 DEF SessionStarts, LiveInv, Existing
    <2>3. ASSUME NEW o \in Op, op[o] \in Listings PROVE LiveRecord(op[o])'
      <3>1. LiveRecord(op[o])
        BY <1>1, <2>3
      <3> QED BY <2>1, <2>2, <3>1 DEF LiveRecord
    <2> QED BY <2>2, <2>3 DEF LiveInv
  <1>12. ASSUME NEW c \in Conv, SessionEnds(c) \/ (FallsQuiet(c) /\ session[c] # "resumed")
         PROVE  LiveInv'
    <2>1. NotWritten(c) /\ recent' \subseteq Existing'
      BY <1>0, <1>12 DEF SessionEnds, FallsQuiet, LiveInv, Existing
    <2>2. Written \ {c} \subseteq Written' /\ \A d \in Conv \ {c} : session'[d] = session[d]
      BY <1>0, <1>12 DEF Types, TypeOK, SessionEnds, FallsQuiet, Written, Running
    <2>3. ASSUME NEW o \in Op, op'[o] \in Listings PROVE LiveRecord(op[o])'
      <3>1. Listing(o)
        BY <1>0, <2>1, <2>3, AroundFrame DEF Listing, Listings, ListOp
      <3>2. /\ op[o] \in Listings /\ op'[o].pc = op[o].pc /\ op'[o].alive = op[o].alive
        BY <1>0, <2>1, <3>1, AroundFrame
      <3>3. op'[o].live = op[o].live \ {c}
        BY <1>0, <2>1, <3>1, <3>2 DEF NotWritten, Listings, ListOp, Types
      <3>4. LiveRecord(op[o]) /\ op[o].live \subseteq Conv
        BY <1>1, <3>2 DEF Listings, ListOp
      <3> QED BY <2>2, <3>2, <3>3, <3>4 DEF LiveRecord
    <2> QED BY <2>1, <2>3 DEF LiveInv
  <1>13. ASSUME NEW c \in Conv, FallsQuiet(c), session[c] = "resumed" PROVE LiveInv'
    <2>1. op' = op /\ recent' \subseteq Existing' /\ session' = session
      BY <1>0, <1>13 DEF FallsQuiet, LiveInv, Existing
    <2>2. Written' = Written
      BY <1>13 DEF FallsQuiet, Written, Running
    <2> QED BY <1>0, <2>1, <2>2 DEF LiveInv, LiveRecord
  <1>14. ASSUME NEW c \in Conv, Deleted(c) PROVE LiveInv'
    <2>1. op' = op /\ recent' \subseteq Existing' /\ session' = session
      BY <1>0, <1>14 DEF Deleted, LiveInv, Existing, Types, TypeOK
    <2>2. Written' = Written
      BY <1>14 DEF Deleted, Written, Running
    <2> QED BY <1>0, <2>1, <2>2 DEF LiveInv, LiveRecord
  <1>15. ASSUME NEW c \in Conv, NEW f \in Transcript, Becomes(c, f), session' = session,
                recent' \in {recent, recent \union {c}}
         PROVE  LiveInv'
    <2>1. TextChanges(c, f.hit) /\ f.hit \in BOOLEAN
      BY <1>15 DEF Becomes, Transcript
    <2>2. recent' \subseteq Existing'
      BY <1>0, <1>15, CatalogueAssumption DEF Becomes, LiveInv, Existing, Types, TypeOK
    <2>3. Written \subseteq Written'
      BY <1>15 DEF Written, Running
    <2>4. ASSUME NEW o \in Op, op'[o] \in Listings PROVE LiveRecord(op[o])'
      <3>1. Listing(o)
        BY <1>0, <2>1, <2>4, AroundFrame DEF Listing, Listings, ListOp
      <3>2. op[o] \in Listings /\ op'[o].pc = op[o].pc /\ op'[o].alive = op[o].alive
        BY <1>0, <2>1, <3>1, AroundFrame
      <3>3. op'[o].live = op[o].live
        BY <1>0, <2>1, <3>2 DEF TextChanges, Listings, ListOp, Types
      <3>4. LiveRecord(op[o])
        BY <1>1, <3>2
      <3> QED BY <1>15, <2>3, <3>2, <3>3, <3>4 DEF LiveRecord
    <2> QED BY <2>2, <2>4 DEF LiveInv
  <1>16. ASSUME NEW c \in Conv, Synced(c) PROVE LiveInv'
    BY <1>15, <1>16 DEF Synced
  <1>17. ASSUME NEW c \in Conv, NEW h \in BOOLEAN, Appends(c, h) PROVE LiveInv'
    <2>1. PICK f \in Transcript : Becomes(c, f)
      BY <1>0, <1>17, CatalogueAssumption DEF Appends, Types, TypeOK, Transcript, Time
    <2> QED BY <1>15, <1>17, <2>1 DEF Appends
  <1>18. ASSUME NEW o \in Op, Start(o) PROVE LiveInv'
    BY <1>2, <1>7, <1>18 DEF Start, ListFiles
  <1>19. ASSUME NEW o \in Op, Step(o) PROVE LiveInv'
    BY <1>3, <1>4, <1>6, <1>7, <1>19 DEF Step
  <1>20. CASE Environment
    BY <1>8, <1>10, <1>11, <1>12, <1>13, <1>14, <1>16, <1>17, <1>20 DEF Environment
  <1> QED BY <1>0, <1>9, <1>18, <1>19, <1>20 DEF Next

\* Every reachable state has the types.
THEOREM TypesHold == Spec => []Types
  BY TypeInit, TypeStep, PTL DEF Spec

\* host.go:1748: a conversation written by a running claude all the while a
\* listing runs is not hidden by its filters.
THEOREM AliveListed == Spec => []LiveShown
  <1>1. Init => LiveInv
    BY CatalogueAssumption DEF Init, LiveInv, Existing, Idle, Listings, ListOp
  <1>2. Types /\ LiveInv => LiveShown
    <2>1. SUFFICES ASSUME Types, LiveInv, NEW o \in Op, op[o].pc = "show",
                          op[o].filter # "only", op[o].conv \in op[o].live
                   PROVE  ~FilteredOut(op[o])
      BY DEF LiveShown
    <2>2. op[o] \in Listings
      BY <2>1, Kinds DEF Types
    <2>3. op[o].conv \in op[o].alive
      BY <2>1, <2>2 DEF LiveInv, LiveRecord
    <2> QED BY <2>1, <2>3 DEF FilteredOut
  <1>3. Types /\ LiveInv /\ [Next]_vars => LiveInv'
    BY LiveStep
  <1> QED BY <1>1, <1>2, <1>3, TypesHold, PTL DEF Spec

-----------------------------------------------------------------------------
(* A sidecar is what was last saved *)

\* A save that runs alone is the only one of its conversation and has the
\* temporary file to itself; one that does not has been met.
SaveAlone(o) ==
  /\ \A q \in Op \ {o} : ~Setting(q, op[o].conv)
  /\ op[o].pc = "write" => op[o].fd = "tmp" /\ tmp[op[o].conv] = Empty
  /\ op[o].pc = "rename" => tmp[op[o].conv] = op[o].value
SaveInv ==
  /\ \A o \in Op : op[o].kind = "set" => IF op[o].alone THEN SaveAlone(o) ELSE op[o].conv \in met
  /\ SidecarWhole

\* Nothing but the requests that save changes what is said of them.
LEMMA SaveKept ==
  ASSUME SaveInv, UNCHANGED sidecars,
         \A q \in Op : op[q].kind = "set" \/ op'[q].kind = "set" => op'[q] = op[q]
  PROVE  SaveInv'
  <1>1. SidecarWhole' /\ tmp' = tmp /\ met' = met
    BY DEF SaveInv, SidecarWhole, sidecars
  <1>2. ASSUME NEW q \in Op, op'[q].kind = "set"
        PROVE  IF op'[q].alone THEN SaveAlone(q)' ELSE op'[q].conv \in met'
    <2>1. op'[q] = op[q] /\ \A p \in Op : Setting(p, op[q].conv)' => Setting(p, op[q].conv)
      BY <1>2 DEF Setting
    <2>2. IF op[q].alone THEN SaveAlone(q) ELSE op[q].conv \in met
      BY <1>2, <2>1 DEF SaveInv
    <2> QED BY <1>1, <2>1, <2>2 DEF SaveAlone, Setting
  <1> QED BY <1>1, <1>2 DEF SaveInv

\* ... and one of them that ends without a rename.
LEMMA SaveEnds ==
  ASSUME SaveInv, NEW o \in Op, UNCHANGED sidecars,
         op'[o] = Idle, \A q \in Op \ {o} : op'[q] = op[q]
  PROVE  SaveInv'
  <1>1. SidecarWhole' /\ tmp' = tmp /\ met' = met
    BY DEF SaveInv, SidecarWhole, sidecars
  <1>2. op'[o].kind # "set"
    BY CatalogueAssumption DEF Idle
  <1>3. ASSUME NEW q \in Op, op'[q].kind = "set"
        PROVE  IF op'[q].alone THEN SaveAlone(q)' ELSE op'[q].conv \in met'
    <2>1. op'[q] = op[q] /\ \A p \in Op : Setting(p, op[q].conv)' => Setting(p, op[q].conv)
      BY <1>2, <1>3 DEF Setting
    <2>2. IF op[q].alone THEN SaveAlone(q) ELSE op[q].conv \in met
      BY <1>3, <2>1 DEF SaveInv
    <2> QED BY <1>1, <2>1, <2>2 DEF SaveAlone, Setting
  <1> QED BY <1>1, <1>3 DEF SaveInv

LEMMA SaveStep == Types /\ SaveInv /\ [Next]_vars => SaveInv'
  <1>0. SUFFICES ASSUME Types, SaveInv, [Next]_vars PROVE SaveInv'
    OBVIOUS
  <1>k. ASSUME NEW q \in Op, op[q].kind = "set" PROVE op[q] \in SetOp
    BY <1>0, <1>k, Kinds DEF Types
  <1>1. ASSUME NEW o \in Op,
               \/ \E kind \in {"search", "list"}, filter \in Filters : ListFiles(o, kind, filter)
               \/ Ps(o) \/ PsFails(o) \/ Mods(o) \/ (\E c \in Conv : ReadMeta(o, c))
               \/ Match(o) \/ MatchFails(o) \/ Show(o) \/ Hide(o) \/ EndList(o)
        PROVE  SaveInv'
    <2>1. /\ \A q \in Op \ {o} : op'[q] = op[q]
          /\ op[o].kind # "set" /\ op'[o].kind # "set" /\ UNCHANGED sidecars
      BY <1>0, <1>1, ListingFrame
    <2> QED BY <1>0, <2>1, SaveKept
  <1>2. ASSUME NEW o \in Op, NEW c \in Conv, NEW v \in BOOLEAN, StartSet(o, c, v)
        PROVE  SaveInv'
    <2> DEFINE others == {q \in Op : Setting(q, c)}
    <2>1. /\ op[o].pc = "idle" /\ o \notin others
          /\ op' = [q \in Op |-> IF q = o THEN NewSet(c, v, others = {})
                                 ELSE IF q \in others THEN [op[q] EXCEPT !.alone = FALSE] ELSE op[q]]
          /\ met' = (IF others = {} THEN met ELSE met \union {c})
          /\ UNCHANGED <<meta, tmp, given>>
      BY <1>2, <1>k DEF StartSet, Takes, Setting, SetOp
    <2>2. op'[o] = NewSet(c, v, others = {})
      BY <2>1
    <2>3. op'[o].kind = "set" /\ op'[o].pc = "open" /\ op'[o].conv = c /\ op'[o].alone = (others = {})
      BY <2>2 DEF NewSet
    <2>4. ASSUME NEW q \in others
          PROVE  op'[q].kind = "set" /\ op'[q].conv = c /\ ~op'[q].alone
      BY <2>1, <2>4, <1>k DEF Setting, SetOp
    <2>5. \A q \in Op : q # o /\ q \notin others => op'[q] = op[q] /\ ~Setting(q, c)
      BY <2>1
    <2>6. SidecarWhole' /\ met \subseteq met' /\ (others # {} => c \in met')
      BY <1>0, <2>1 DEF SaveInv, SidecarWhole
    <2>7. ASSUME NEW q \in Op, op'[q].kind = "set"
          PROVE  IF op'[q].alone THEN SaveAlone(q)' ELSE op'[q].conv \in met'
      <3>1. CASE q = o
        BY <2>1, <2>3, <2>5, <2>6, <3>1 DEF SaveAlone, Setting
      <3>2. CASE q \in others
        BY <2>4, <2>6, <3>2
      <3>3. CASE q # o /\ q \notin others
        <4>1. op'[q] = op[q] /\ op[q].kind = "set" /\ op[q].conv # c
          BY <2>5, <2>7, <3>3 DEF Setting
        <4>2. IF op[q].alone THEN SaveAlone(q) ELSE op[q].conv \in met
          BY <1>0, <4>1 DEF SaveInv
        <4>3. \A p \in Op : Setting(p, op[q].conv)' => Setting(p, op[q].conv)
          BY <2>3, <2>4, <2>5, <4>1 DEF Setting
        <4> QED BY <2>1, <2>6, <4>1, <4>2, <4>3 DEF SaveAlone, Setting
      <3> QED BY <3>1, <3>2, <3>3
    <2> QED BY <2>6, <2>7 DEF SaveInv
  <1>3. ASSUME NEW o \in Op, OpenTmp(o) \/ WriteTmp(o) PROVE SaveInv'
    <2> DEFINE c == op[o].conv
    <2>1. op[o] \in SetOp /\ c \in Conv
      BY <1>0, <1>3, Kinds DEF Types, OpenTmp, WriteTmp, SetOp
    <2>2. /\ op'[o].kind = "set" /\ op'[o].conv = c /\ op'[o].alone = op[o].alone
          /\ op'[o].value = op[o].value
          /\ \A q \in Op \ {o} : op'[q] = op[q]
      BY <1>0, <1>3, <2>1 DEF Types, OpenTmp, WriteTmp, SetOp
    <2>3. given' = given /\ met' = met /\ \A d \in Conv \ {c} : meta'[d] = meta[d] /\ tmp'[d] = tmp[d]
      BY <1>0, <1>3, <2>1 DEF OpenTmp, WriteTmp, Types, TypeOK
    <2>4. IF op[o].alone THEN SaveAlone(o) ELSE c \in met
      BY <1>0, <2>1 DEF SaveInv, SetOp
    <2>5. \A p \in Op, d \in Conv : Setting(p, d)' = Setting(p, d)
      BY <2>1, <2>2 DEF Setting, SetOp
    <2>6. c \notin met => meta' = meta
      BY <1>3, <2>4 DEF OpenTmp, WriteTmp, SaveAlone
    <2>7. SidecarWhole'
      BY <1>0, <2>3, <2>6 DEF SaveInv, SidecarWhole
    <2>8. ASSUME op[o].alone PROVE SaveAlone(o)'
      <3>1. SaveAlone(o)
        BY <2>4, <2>8
      <3>2. CASE OpenTmp(o)
        <4>1. op'[o].pc = "write" /\ op'[o].fd = "tmp" /\ tmp'[c] = Empty
          BY <1>0, <2>1, <3>2 DEF OpenTmp, Types, TypeOK, SetOp
        <4> QED BY <2>1, <2>2, <2>5, <3>1, <4>1 DEF SaveAlone
      <3>3. CASE WriteTmp(o)
        <4>1. op'[o].pc = "rename"
          BY <1>0, <2>1, <3>3 DEF WriteTmp, Types, SetOp
        <4>2. op[o].fd = "tmp" /\ tmp[c] = Empty
          BY <3>1, <3>3 DEF WriteTmp, SaveAlone
        <4>3. tmp'[c] = op[o].value
          BY <1>0, <2>1, <3>3, <4>2 DEF WriteTmp, Over, Types, TypeOK
        <4> QED BY <2>1, <2>2, <2>5, <3>1, <4>1, <4>3 DEF SaveAlone
      <3> QED BY <1>3, <3>2, <3>3
    <2>9. ASSUME NEW q \in Op \ {o}, op'[q].kind = "set"
          PROVE  IF op'[q].alone THEN SaveAlone(q)' ELSE op'[q].conv \in met'
      <3>1. op'[q] = op[q] /\ op[q] \in SetOp /\ (IF op[q].alone THEN SaveAlone(q) ELSE op[q].conv \in met)
        BY <1>0, <2>2, <2>9, <1>k DEF SaveInv
      <3>2. CASE op[q].alone
        <4>1. ~Setting(o, op[q].conv)
          BY <3>1, <3>2 DEF SaveAlone
        <4>2. op[q].conv \in Conv /\ op[q].conv # c
          BY <2>1, <3>1, <4>1 DEF Setting, SetOp
        <4> QED BY <2>3, <2>5, <3>1, <3>2, <4>2 DEF SaveAlone
      <3> QED BY <2>3, <3>1, <3>2
    <2> QED BY <2>2, <2>3, <2>4, <2>7, <2>8, <2>9 DEF SaveInv
  <1>4. ASSUME NEW o \in Op, WriteFails(o) \/ RenameFails(o) PROVE SaveInv'
    BY <1>0, <1>4, SaveEnds DEF WriteFails, RenameFails, Done, Types
  <1>5. ASSUME NEW o \in Op, Rename(o) PROVE SaveInv'
    <2> DEFINE c == op[o].conv
    <2>1. op[o] \in SetOp /\ c \in Conv
      BY <1>0, <1>5, Kinds DEF Types, Rename, SetOp
    <2>2. op'[o] = Idle /\ op'[o].kind # "set"
      BY <1>5, CatalogueAssumption DEF Rename, Idle
    <2>3. IF op[o].alone THEN SaveAlone(o) ELSE c \in met
      BY <1>0, <2>1 DEF SaveInv, SetOp
    <2>4. /\ met' = (IF op[o].alone THEN met \ {c} ELSE met)
          /\ \A d \in Conv \ {c} : meta'[d] = meta[d] /\ tmp'[d] = tmp[d] /\ given'[d] = given[d]
          /\ meta'[c] = tmp[c] /\ given'[c] = op[o].value
      BY <1>0, <1>5, <2>1 DEF Rename, Types, TypeOK
    <2>5. SidecarWhole'
      <3>1. op[o].alone => meta'[c] = given'[c]
        BY <1>5, <2>3, <2>4 DEF SaveAlone, Rename
      <3> QED BY <1>0, <2>3, <2>4, <3>1 DEF SaveInv, SidecarWhole
    <2>6. ASSUME NEW q \in Op \ {o}
          PROVE  /\ op'[q].kind = op[q].kind
                 /\ op[q].kind = "set" => /\ op'[q].conv = op[q].conv /\ op'[q].alone = op[q].alone
                                          /\ op[q].conv # c => op'[q] = op[q]
      <3>1. op'[q] = Renamed(op[q], c)
        BY <1>5 DEF Rename
      <3> QED BY <3>1, <1>k DEF Renamed, SetOp
    <2>7. ASSUME NEW q \in Op, op'[q].kind = "set"
          PROVE  IF op'[q].alone THEN SaveAlone(q)' ELSE op'[q].conv \in met'
      <3>1. /\ q # o /\ op[q].kind = "set" /\ op[q] \in SetOp
            /\ op'[q].conv = op[q].conv /\ op'[q].alone = op[q].alone
            /\ op[q].conv # c => op'[q] = op[q]
        BY <2>2, <2>6, <2>7, <1>k
      <3>2. IF op[q].alone THEN SaveAlone(q) ELSE op[q].conv \in met
        BY <1>0, <3>1 DEF SaveInv
      <3>3. CASE op[q].conv = c
        <4>1. ~op[o].alone
          BY <2>3, <3>1, <3>3 DEF SaveAlone, Setting
        <4>2. ~op[q].alone
          BY <2>1, <3>1, <3>2, <3>3 DEF SaveAlone, Setting, SetOp
        <4> QED BY <2>3, <2>4, <3>1, <3>3, <4>1, <4>2
      <3>4. CASE op[q].conv # c
        <4>1. op[q].conv \in Conv
          BY <3>1 DEF SetOp
        <4>2. \A p \in Op : Setting(p, op[q].conv)' => Setting(p, op[q].conv)
          BY <2>2, <2>6, <3>1 DEF Setting
        <4> QED BY <2>4, <3>1, <3>2, <3>4, <4>1, <4>2 DEF SaveAlone, Setting
      <3> QED BY <3>3, <3>4
    <2> QED BY <2>5, <2>7 DEF SaveInv
  <1>6. CASE Crash
    <2>1. \A q \in Op : op'[q].kind # "set"
      BY <1>6, CatalogueAssumption DEF Crash, Idle
    <2> QED BY <1>0, <1>6, <2>1 DEF Crash, SaveInv, SidecarWhole, sidecars
  <1>7. CASE Tick \/ UNCHANGED vars
    BY <1>0, <1>7, SaveKept DEF Tick, vars
  <1>8. ASSUME NEW c \in Conv, SessionStarts(c) \/ Deleted(c) PROVE SaveInv'
    BY <1>0, <1>8, SaveKept DEF SessionStarts, Deleted
  <1>9. ASSUME NEW c \in Conv, UNCHANGED sidecars,
               op' = op \/ NotWritten(c) \/ \E h \in BOOLEAN : TextChanges(c, h)
        PROVE  SaveInv'
    <2>1. ASSUME NEW q \in Op, op[q].kind = "set" \/ op'[q].kind = "set" PROVE op'[q] = op[q]
      BY <1>0, <1>9, <2>1, AroundFrame DEF Listing
    <2> QED BY <1>0, <1>9, <2>1, SaveKept
  <1>10. ASSUME NEW c \in Conv, NEW h \in BOOLEAN,
                SessionEnds(c) \/ FallsQuiet(c) \/ Synced(c) \/ Appends(c, h)
         PROVE  SaveInv'
    <2>1. SessionEnds(c) \/ FallsQuiet(c) => op' = op \/ NotWritten(c)
      BY DEF SessionEnds, FallsQuiet
    <2>2. Synced(c) => \E g \in BOOLEAN : TextChanges(c, g)
      BY DEF Synced, Becomes, Transcript
    <2>3. Appends(c, h) => \E g \in BOOLEAN : TextChanges(c, g)
      <3>1. SUFFICES ASSUME Appends(c, h) PROVE \E g \in BOOLEAN : TextChanges(c, g)
        OBVIOUS
      <3>2. PICK f \in Transcript : Becomes(c, f)
        BY <1>0, <3>1, CatalogueAssumption DEF Appends, Types, TypeOK, Transcript, Time
      <3> QED BY <3>2 DEF Becomes, Transcript
    <2> QED BY <1>9, <1>10, <2>1, <2>2, <2>3 DEF SessionEnds, FallsQuiet, Synced, Appends
  <1>11. ASSUME NEW o \in Op, Start(o) PROVE SaveInv'
    BY <1>1, <1>2, <1>11 DEF Start, ListFiles
  <1>12. ASSUME NEW o \in Op, Step(o) PROVE SaveInv'
    BY <1>1, <1>3, <1>4, <1>5, <1>12 DEF Step
  <1>13. CASE Environment
    BY <1>6, <1>7, <1>8, <1>10, <1>13 DEF Environment
  <1> QED BY <1>0, <1>7, <1>11, <1>12, <1>13 DEF Next

\* writeJSONAtomic: a sidecar reads at all times as what was last saved unless
\* two saves of it overlapped, and the next that runs alone repairs it.
THEOREM SidecarsWhole == Spec => []SidecarWhole
  <1>1. Init => SaveInv
    BY CatalogueAssumption DEF Init, SaveInv, SidecarWhole, Idle
  <1>2. SaveInv => SidecarWhole
    BY DEF SaveInv
  <1>3. Types /\ SaveInv /\ [Next]_vars => SaveInv'
    BY SaveStep
  <1> QED BY <1>1, <1>2, <1>3, TypesHold, PTL DEF Spec

-----------------------------------------------------------------------------
(* A cached search is true *)

\* A text that matches or not, against what a listing is owed of conversation c.
Owed(r, c, hit) == IF hit THEN c \in r.could ELSE c \notin r.had

\* For each file a listing has still to look at, the text there is answers what it
\* is owed, and so does the text cached under the key it was listed with, unless
\* that is the text of a version of the same key.
SearchRecord(r) ==
  \A c \in Conv : c \in r.todo \/ c = r.conv =>
    /\ file[c] # None => Owed(r, c, file[c].hit)
    /\ cache[c] # None /\ cache[c].key = r.listed[c] /\ c \notin swapped
         => Owed(r, c, cache[c].hit)

\* An entry with the key of the file that is there holds its text, or is known not to.
CacheTrue ==
  \A c \in Conv \ swapped :
    file[c] # None /\ cache[c] # None /\ cache[c].key = KeyOf(file[c]) => cache[c].hit = file[c].hit
SearchInv ==
  /\ CacheTrue
  /\ \A o \in Op : op[o] \in Listings => SearchRecord(op[o])

\* It is kept when neither the files nor the cache change.
LEMMA SearchKept ==
  ASSUME SearchInv, UNCHANGED <<file, index>>,
         \A q \in Op : op'[q] \in Listings => op'[q] = op[q] \/ SearchRecord(op[q])'
  PROVE  SearchInv'
  <1>1. CacheTrue'
    BY DEF SearchInv, CacheTrue, index
  <1>2. ASSUME NEW q \in Op, op'[q] \in Listings PROVE SearchRecord(op[q])'
    <2>1. CASE op'[q] = op[q]
      <3>1. SearchRecord(op[q])
        BY <1>2, <2>1 DEF SearchInv
      <3> QED BY <2>1, <3>1 DEF SearchRecord, Owed, index
    <2> QED BY <1>2, <2>1
  <1>3. Listings' = Listings
    OBVIOUS
  <1> QED BY <1>1, <1>2, <1>3 DEF SearchInv

\* ... and when all that changes is what is looked at: no new file.
LEMMA LooksAtLess ==
  ASSUME SearchInv, UNCHANGED <<file, index>>, NEW o \in Op, op[o] \in Listings,
         \A q \in Op \ {o} : op'[q] = op[q],
         \A c \in Conv : c \in op'[o].todo \/ c = op'[o].conv =>
           /\ c \in op[o].todo \/ c = op[o].conv
           /\ op'[o].listed[c] = op[o].listed[c]
           /\ c \in op'[o].could <=> c \in op[o].could
           /\ c \in op'[o].had <=> c \in op[o].had
  PROVE  SearchInv'
  <1>1. SearchRecord(op[o])
    BY DEF SearchInv
  <1>2. SearchRecord(op[o])'
    BY <1>1 DEF SearchRecord, Owed, index
  <1> QED BY <1>2, SearchKept

\* What a search is told of a file is what it is owed of it.
LEMMA MatchTrue ==
  ASSUME Types, SearchInv, NEW o \in Op, Match(o)
  PROVE  /\ op[o] \in Listings /\ op[o].conv \in Conv
         /\ \E entry : /\ cache' = [cache EXCEPT ![op[o].conv] = entry]
                       /\ op' = [op EXCEPT ![o] = IF entry.hit THEN [op[o] EXCEPT !.pc = "show"]
                                                  ELSE Past(op[o])]
                       /\ op[o].conv \notin swapped => Owed(op[o], op[o].conv, entry.hit)
                       /\ Cached(op[o]) => entry = cache[op[o].conv]
                       /\ ~Cached(op[o]) => /\ file[op[o].conv] # None
                                            /\ entry.key = op[o].listed[op[o].conv]
                                            /\ entry.hit = file[op[o].conv].hit
  <1> DEFINE r == op[o]
             entry == IF Cached(r) THEN cache[r.conv] ELSE EntryOf(r)
  <1>1. r \in Listings /\ r.pc = "match"
    BY Kinds DEF Types, Match
  <1>2. r.conv \in Conv /\ SearchRecord(r)
    BY <1>1 DEF Listings, SearchInv
  <1>3. /\ cache' = [cache EXCEPT ![r.conv] = entry]
        /\ op' = [op EXCEPT ![o] = IF entry.hit THEN [r EXCEPT !.pc = "show"] ELSE Past(r)]
        /\ Cached(r) \/ file[r.conv] # None
    BY DEF Match
  <1>4. ~Cached(r) => entry.key = r.listed[r.conv] /\ entry.hit = file[r.conv].hit
    BY DEF EntryOf
  <1>5. Cached(r) => entry = cache[r.conv]
    OBVIOUS
  <1> HIDE DEF entry
  <1>6. r.conv \notin swapped => Owed(r, r.conv, entry.hit)
    BY <1>2, <1>3, <1>4, <1>5 DEF SearchRecord, Cached
  <1> QED BY <1>1, <1>2, <1>3, <1>4, <1>5, <1>6

LEMMA SearchStep == Types /\ SearchInv /\ [Next]_vars => SearchInv'
  <1>0. SUFFICES ASSUME Types, SearchInv, [Next]_vars PROVE SearchInv'
    OBVIOUS
  <1>i. Idle \notin Listings
    BY CatalogueAssumption DEF Idle, Listings, ListOp
  <1>r. ASSUME NEW o \in Op, op[o] \in Listings PROVE SearchRecord(op[o])
    BY <1>0, <1>r DEF SearchInv
  <1>1. ASSUME NEW o \in Op, NEW kind \in {"search", "list"}, NEW filter \in Filters,
               ListFiles(o, kind, filter)
        PROVE  SearchInv'
    <2>1. UNCHANGED <<file, index>> /\ \A q \in Op \ {o} : op'[q] = op[q]
      BY <1>0, <1>1, ListingFrame DEF ListFiles, transcripts
    <2>2. op'[o] = NewList(kind, filter)
      BY <1>0, <1>1 DEF ListFiles, Types
    <2>3. /\ op'[o].todo = Existing /\ op'[o].conv = None
          /\ op'[o].had = Hits /\ op'[o].could = Hits
          /\ \A c \in Existing : op'[o].listed[c] = KeyOf(file[c])
      BY <2>2 DEF NewList, Existing
    <2>4. CacheTrue
      BY <1>0 DEF SearchInv
    <2>5. SearchRecord(op[o])'
      BY <2>1, <2>3, <2>4, CatalogueAssumption DEF SearchRecord, Owed, CacheTrue, Hits, Existing, index
    <2> QED BY <1>0, <2>1, <2>5, SearchKept
  <1>2. ASSUME NEW o \in Op, Ps(o) \/ PsFails(o) \/ Mods(o) \/ \E c \in Conv : ReadMeta(o, c)
        PROVE  SearchInv'
    <2>1. op[o] \in Listings /\ op[o] \in ListOp
      BY <1>0, <1>2, Kinds DEF Types, Ps, PsFails, Mods, ReadMeta, Listings
    <2>2. UNCHANGED <<file, index>> /\ \A q \in Op \ {o} : op'[q] = op[q]
      BY <1>0, <1>2, ListingFrame DEF Ps, PsFails, Mods, ReadMeta, transcripts
    <2>3. ASSUME Ps(o) \/ PsFails(o) \/ Mods(o)
          PROVE  /\ op'[o].todo = op[o].todo /\ op'[o].conv = op[o].conv
                 /\ op'[o].listed = op[o].listed
                 /\ op'[o].could = op[o].could /\ op'[o].had = op[o].had
      BY <1>0, <2>1, <2>3 DEF Ps, PsFails, Mods, Types, ListOp
    <2>4. ASSUME NEW c \in Conv, ReadMeta(o, c)
          PROVE  /\ op'[o].todo = op[o].todo \ {c} /\ op'[o].conv = c /\ c \in op[o].todo
                 /\ op'[o].listed = op[o].listed
                 /\ op'[o].could = op[o].could /\ op'[o].had = op[o].had
      BY <1>0, <2>1, <2>4 DEF ReadMeta, Types, ListOp
    <2> QED BY <1>0, <1>2, <2>1, <2>2, <2>3, <2>4, LooksAtLess
  <1>3. ASSUME NEW o \in Op, Show(o) \/ Hide(o) PROVE SearchInv'
    <2>1. op[o] \in Listings /\ op[o].pc = "show"
      BY <1>0, <1>3, Kinds DEF Types, Show, Hide
    <2>2. UNCHANGED <<file, index>> /\ \A q \in Op \ {o} : op'[q] = op[q]
      BY <1>0, <1>3, ListingFrame DEF Show, Hide, transcripts
    <2>3. op'[o] = Past(op[o])
      BY <1>0, <1>3 DEF Show, Hide, Types
    <2>4. op[o].conv \notin op[o].todo /\ op[o] \in ListOp
      BY <2>1 DEF Listings
    <2>5. /\ op'[o].todo = op[o].todo /\ op'[o].conv = None
          /\ op'[o].listed = [op[o].listed EXCEPT ![op[o].conv] = None]
          /\ op'[o].could = op[o].could \ {op[o].conv} /\ op'[o].had = op[o].had \ {op[o].conv}
      BY <2>1, <2>3, PastType
    <2>6. \A c \in Conv : c \in op'[o].todo \/ c = op'[o].conv =>
            /\ c \in op[o].todo
            /\ op'[o].listed[c] = op[o].listed[c]
            /\ c \in op'[o].could <=> c \in op[o].could
            /\ c \in op'[o].had <=> c \in op[o].had
      BY <2>4, <2>5, CatalogueAssumption DEF ListOp
    <2> QED BY <1>0, <2>1, <2>2, <2>6, LooksAtLess
  <1>4. ASSUME NEW o \in Op, Match(o) PROVE SearchInv'
    <2> DEFINE r == op[o]
               c == op[o].conv
    <2>1. r \in Listings /\ c \in Conv /\ r.pc = "match"
      BY <1>0, <1>4, MatchTrue DEF Match
    <2>2. PICK entry :
            /\ cache' = [cache EXCEPT ![c] = entry]
            /\ op' = [op EXCEPT ![o] = IF entry.hit THEN [r EXCEPT !.pc = "show"] ELSE Past(r)]
            /\ Cached(r) => entry = cache[c]
            /\ ~Cached(r) => /\ file[c] # None /\ entry.key = r.listed[c]
                             /\ entry.hit = file[c].hit
      BY <1>0, <1>4, MatchTrue
    <2>3. /\ file' = file /\ cache'[c] = entry /\ \A d \in Conv \ {c} : cache'[d] = cache[d]
          /\ \A d \in Conv : d \in swapped /\ d \notin swapped' => d = c /\ ~Cached(r)
      BY <1>0, <1>4, <2>1, <2>2 DEF Match, transcripts, Types, TypeOK
    <2>4. CacheTrue'
      BY <1>0, <2>2, <2>3 DEF SearchInv, CacheTrue, Cached
    <2>5. ASSUME NEW q \in Op, op[q] \in Listings, NEW d \in Conv,
                 d \in op[q].todo \/ d = op[q].conv
          PROVE  /\ file'[d] # None => Owed(op[q], d, file'[d].hit)
                 /\ cache'[d] # None /\ cache'[d].key = op[q].listed[d] /\ d \notin swapped'
                      => Owed(op[q], d, cache'[d].hit)
      <3>1. SearchRecord(op[q])
        BY <1>r, <2>5
      <3>2. CASE d # c \/ Cached(r)
        BY <2>2, <2>3, <2>5, <3>1, <3>2 DEF SearchRecord, Cached
      <3>3. CASE d = c /\ ~Cached(r)
        BY <2>2, <2>3, <2>5, <3>1, <3>3 DEF SearchRecord
      <3> QED BY <3>2, <3>3
    <2>6. ASSUME NEW q \in Op \ {o}, op'[q] \in Listings PROVE SearchRecord(op[q])'
      <3>1. op'[q] = op[q]
        BY <2>2
      <3> QED BY <2>5, <2>6, <3>1 DEF SearchRecord, Owed
    <2>7. SearchRecord(op[o])'
      <3>1. CASE op'[o] = [r EXCEPT !.pc = "show"]
        <4>1. /\ op'[o].todo = r.todo /\ op'[o].conv = r.conv /\ op'[o].listed = r.listed
              /\ op'[o].could = r.could /\ op'[o].had = r.had
          BY <2>1, <3>1 DEF Listings, ListOp
        <4> QED BY <2>1, <2>5, <4>1 DEF SearchRecord, Owed
      <3>2. CASE op'[o] = Past(r)
        <4>1. /\ op'[o].todo = r.todo /\ op'[o].conv = None
              /\ op'[o].listed = [r.listed EXCEPT ![c] = None]
              /\ op'[o].could = r.could \ {c} /\ op'[o].had = r.had \ {c}
          BY <2>1, <3>2, PastType
        <4>2. c \notin r.todo /\ r \in ListOp
          BY <2>1 DEF Listings
        <4>3. \A d \in Conv : d \in op'[o].todo \/ d = op'[o].conv =>
                d \in r.todo /\ d # c /\ op'[o].listed[d] = r.listed[d]
          BY <4>1, <4>2, CatalogueAssumption DEF ListOp
        <4> QED BY <2>1, <2>5, <4>1, <4>3 DEF SearchRecord, Owed
      <3> QED BY <1>0, <2>2, <3>1, <3>2 DEF Types
    <2> QED BY <2>4, <2>6, <2>7 DEF SearchInv, Listings, ListOp, Filters, Key, Time
  <1>5. ASSUME NEW o \in Op, MatchFails(o) PROVE SearchInv'
    <2>1. op'[o] = Idle /\ UNCHANGED <<file, index>> /\ \A q \in Op \ {o} : op'[q] = op[q]
      BY <1>0, <1>5 DEF MatchFails, Done, Types, transcripts
    <2> QED BY <1>0, <1>i, <2>1, SearchKept
  <1>6. ASSUME file' = file,
               \A c \in Conv : cache'[c] # None => cache'[c] = cache[c] /\ (c \in swapped => c \in swapped'),
               \A q \in Op : op'[q] \in Listings => op'[q] = op[q]
        PROVE  SearchInv'
    <2>1. CacheTrue'
      BY <1>0, <1>6 DEF SearchInv, CacheTrue
    <2>2. ASSUME NEW q \in Op, op'[q] \in Listings PROVE SearchRecord(op[q])'
      <3>1. SearchRecord(op[q]) /\ op'[q] = op[q]
        BY <1>r, <1>6, <2>2
      <3> QED BY <1>6, <3>1 DEF SearchRecord, Owed
    <2> QED BY <2>1, <2>2 DEF SearchInv, Listings, ListOp, Filters, Key, Time
  <1>7. ASSUME NEW o \in Op, EndList(o) PROVE SearchInv'
    <2>1. op'[o] = Idle /\ file' = file /\ \A q \in Op \ {o} : op'[q] = op[q]
      BY <1>0, <1>7 DEF EndList, Done, Types, transcripts
    <2>2. \A c \in Conv : cache'[c] # None => cache'[c] = cache[c] /\ (c \in swapped => c \in swapped')
      BY <1>7 DEF EndList
    <2> QED BY <1>i, <1>6, <2>1, <2>2
  <1>8. CASE Crash
    BY <1>i, <1>6, <1>8 DEF Crash, transcripts
  <1>9. ASSUME NEW o \in Op,
               \/ \E c \in Conv, v \in BOOLEAN : StartSet(o, c, v)
               \/ OpenTmp(o) \/ WriteTmp(o) \/ WriteFails(o) \/ Rename(o) \/ RenameFails(o)
        PROVE  SearchInv'
    <2>1. /\ \A q \in Op : op'[q] \in Listings => op'[q] = op[q]
          /\ UNCHANGED <<file, index>>
      BY <1>0, <1>9, SavingFrame DEF transcripts
    <2> QED BY <1>6, <2>1 DEF index
  <1>10. ASSUME NEW c \in Conv, Tick \/ SessionStarts(c) \/ UNCHANGED vars PROVE SearchInv'
    BY <1>0, <1>10, SearchKept DEF Tick, SessionStarts, vars, transcripts
  <1>11. ASSUME NEW c \in Conv, SessionEnds(c) \/ FallsQuiet(c) PROVE SearchInv'
    <2>1. UNCHANGED <<file, index>> /\ (op' = op \/ NotWritten(c))
      BY <1>11 DEF SessionEnds, FallsQuiet
    <2>2. ASSUME NotWritten(c), NEW q \in Op, op'[q] \in Listings PROVE SearchRecord(op[q])'
      <3>1. Listing(q)
        BY <1>0, <2>2, AroundFrame DEF Listing, Listings, ListOp
      <3>2. /\ op[q] \in Listings /\ op'[q].todo = op[q].todo /\ op'[q].conv = op[q].conv
            /\ op'[q].listed = op[q].listed
        BY <1>0, <2>2, <3>1, AroundFrame
      <3>3. op'[q].could = op[q].could /\ op'[q].had = op[q].had
        BY <1>0, <2>2, <3>1, <3>2 DEF NotWritten, Types, Listings, ListOp
      <3>4. SearchRecord(op[q])
        BY <1>r, <3>2
      <3> QED BY <2>1, <3>2, <3>3, <3>4 DEF SearchRecord, Owed, index
    <2> QED BY <1>0, <2>1, <2>2, SearchKept
  <1>12. ASSUME NEW c \in Conv, Deleted(c) PROVE SearchInv'
    <2>1. op' = op /\ UNCHANGED <<cache, swapped>> /\ \A d \in Conv : file'[d] \in {file[d], None}
      BY <1>0, <1>12 DEF Deleted, Types, TypeOK, index
    <2>2. CacheTrue'
      BY <1>0, <2>1 DEF SearchInv, CacheTrue
    <2>3. ASSUME NEW q \in Op, op[q] \in Listings PROVE SearchRecord(op[q])'
      <3>1. SearchRecord(op[q])
        BY <1>r, <2>3
      <3> QED BY <2>1, <3>1 DEF SearchRecord, Owed
    <2> QED BY <2>1, <2>2, <2>3 DEF SearchInv
  <1>13. ASSUME NEW c \in Conv, NEW f \in Transcript, Becomes(c, f), cache' = cache
         PROVE  SearchInv'
    <2>1. TextChanges(c, f.hit) /\ f.hit \in BOOLEAN
      BY <1>13 DEF Becomes, Transcript
    <2>2. /\ file'[c] = f /\ \A d \in Conv \ {c} : file'[d] = file[d]
          /\ swapped \subseteq swapped'
      BY <1>0, <1>13 DEF Becomes, Types, TypeOK
    <2>3. CacheTrue'
      <3>1. cache[c] # None /\ cache[c].key = KeyOf(f) /\ c \notin swapped' => cache[c].hit = f.hit
        BY <1>13 DEF Becomes
      <3> QED BY <1>0, <1>13, <2>2, <3>1 DEF SearchInv, CacheTrue
    <2>4. ASSUME NEW q \in Op, op'[q] \in Listings PROVE SearchRecord(op[q])'
      <3>1. Listing(q)
        BY <1>0, <2>1, <2>4, AroundFrame DEF Listing, Listings, ListOp
      <3>2. /\ op[q] \in Listings /\ op'[q].todo = op[q].todo /\ op'[q].conv = op[q].conv
            /\ op'[q].listed = op[q].listed
        BY <1>0, <2>1, <3>1, AroundFrame
      <3>3. SearchRecord(op[q])
        BY <1>r, <3>2
      <3>4. CASE ~Awaits(op[q], c)
        <4>1. op'[q] = op[q]
          BY <2>1, <3>4 DEF TextChanges
        <4>2. \A d \in Conv : d \in op[q].todo \/ d = op[q].conv => d # c
          BY <3>1, <3>4 DEF Awaits, Listing
        <4> QED BY <1>13, <2>2, <3>3, <4>1, <4>2 DEF SearchRecord, Owed
      <3>5. CASE Awaits(op[q], c) /\ f.hit
        <4>1. op'[q].could = op[q].could \union {c} /\ op'[q].had = op[q].had
          BY <2>1, <3>2, <3>5 DEF TextChanges, Listings, ListOp
        <4> QED BY <1>13, <2>2, <3>2, <3>3, <3>5, <4>1 DEF SearchRecord, Owed
      <3>6. CASE Awaits(op[q], c) /\ ~f.hit
        <4>1. op'[q].could = op[q].could /\ op'[q].had = op[q].had \ {c}
          BY <2>1, <3>2, <3>6 DEF TextChanges, Listings, ListOp
        <4> QED BY <1>13, <2>2, <3>2, <3>3, <3>6, <4>1 DEF SearchRecord, Owed
      <3> QED BY <3>4, <3>5, <3>6
    <2> QED BY <2>3, <2>4 DEF SearchInv, Listings, ListOp, Filters, Key, Time
  <1>14. ASSUME NEW c \in Conv, Synced(c) PROVE SearchInv'
    BY <1>13, <1>14 DEF Synced
  <1>15. ASSUME NEW c \in Conv, NEW h \in BOOLEAN, Appends(c, h) PROVE SearchInv'
    <2>1. PICK f \in Transcript : Becomes(c, f)
      BY <1>0, <1>15, CatalogueAssumption DEF Appends, Types, TypeOK, Transcript, Time
    <2> QED BY <1>13, <1>15, <2>1 DEF Appends
  <1>16. CASE Tick \/ UNCHANGED vars
    BY <1>0, <1>16, SearchKept DEF Tick, vars, transcripts
  <1>17. ASSUME NEW o \in Op, Start(o) PROVE SearchInv'
    BY <1>1, <1>9, <1>17 DEF Start, ListFiles
  <1>18. ASSUME NEW o \in Op, Step(o) PROVE SearchInv'
    BY <1>2, <1>3, <1>4, <1>5, <1>7, <1>9, <1>18 DEF Step
  <1>19. CASE Environment
    BY <1>8, <1>10, <1>11, <1>12, <1>14, <1>15, <1>16, <1>19 DEF Environment
  <1> QED BY <1>0, <1>16, <1>17, <1>18, <1>19 DEF Next

\* A request leaves "match" for the listing of the file, or for the next file,
\* by Match alone.
LEMMA OnlyMatch ==
  ASSUME Types, [Next]_vars, NEW o \in Op, op[o].pc = "match", op'[o].pc \in {"show", "next"}
  PROVE  Match(o)
  <1>1. op[o] \in Listings /\ Idle.pc = "idle"
    BY Kinds DEF Types, Idle
  <1>2. op'[o].pc # op[o].pc /\ op'[o] # op[o] /\ op'[o] # Idle
    BY <1>1
  <1>3. ASSUME NEW c \in Conv
        PROVE  ~NotWritten(c) /\ \A h \in BOOLEAN : ~TextChanges(c, h)
    BY <1>2, AroundFrame
  <1>4. ~Environment
    <2>1. ~Crash /\ ~Tick
      BY <1>2 DEF Crash, Tick
    <2>2. ASSUME NEW c \in Conv
          PROVE  ~SessionStarts(c) /\ ~SessionEnds(c) /\ ~FallsQuiet(c) /\ ~Deleted(c)
      BY <1>2, <1>3 DEF SessionStarts, SessionEnds, FallsQuiet, Deleted
    <2>3. ASSUME NEW c \in Conv, NEW f \in Transcript PROVE ~Becomes(c, f)
      BY <1>3 DEF Becomes, Transcript
    <2>4. ASSUME NEW c \in Conv, NEW h \in BOOLEAN PROVE ~Synced(c) /\ ~Appends(c, h)
      <3>1. ~Synced(c)
        BY <2>3 DEF Synced
      <3>2. Appends(c, h) => \E f \in Transcript : Becomes(c, f)
        BY CatalogueAssumption DEF Appends, Types, TypeOK, Transcript, Time
      <3> QED BY <2>3, <3>1, <3>2
    <2> QED BY <2>1, <2>2, <2>4 DEF Environment
  <1>5. PICK q \in Op : Start(q) \/ Step(q)
    BY <1>2, <1>4 DEF Next, vars
  <1>6. ~(\/ \E c \in Conv, v \in BOOLEAN : StartSet(q, c, v)
          \/ OpenTmp(q) \/ WriteTmp(q) \/ WriteFails(q) \/ Rename(q) \/ RenameFails(q))
    BY <1>1, <1>2, SavingFrame
  <1>7. \/ \E kind \in {"search", "list"}, filter \in Filters : ListFiles(q, kind, filter)
        \/ Ps(q) \/ PsFails(q) \/ Mods(q) \/ (\E c \in Conv : ReadMeta(q, c))
        \/ Match(q) \/ MatchFails(q) \/ Show(q) \/ Hide(q) \/ EndList(q)
    BY <1>5, <1>6 DEF Start, Step
  <1>8. q = o
    BY <1>2, <1>7, ListingFrame
  <1>9. ~MatchFails(o)
    BY <1>2 DEF MatchFails, Done, Types
  <1> QED BY <1>7, <1>8, <1>9
       DEF ListFiles, Takes, Ps, PsFails, Mods, ReadMeta, Show, Hide, EndList

\* fts.go:187: a search lists no conversation that has not had the words since
\* the request came in, and misses none that has had them all the while, for any
\* versions that come, of whatever time and size, those there have been among them;
\* but for a conversation under whose time and size another text is cached.
THEOREM SearchesTrue == Spec => SearchTrue
  <1>1. Init => SearchInv
    BY CatalogueAssumption DEF Init, SearchInv, CacheTrue, Idle, Listings, ListOp
  <1>2. Types /\ SearchInv /\ [Next]_vars => SearchInv'
    BY SearchStep
  <1>3. Types /\ SearchInv /\ [Next]_vars =>
          [\A o \in Op :
             LET r == op[o] IN
             r.pc = "match" /\ r.conv \notin swapped
               => /\ op'[o].pc = "show" => r.conv \in r.could
                  /\ op'[o].pc = "next" => r.conv \notin r.had]_vars
    <2>1. SUFFICES ASSUME Types, SearchInv, [Next]_vars, NEW o \in Op, op[o].pc = "match",
                          op[o].conv \notin swapped, op'[o].pc \in {"show", "next"}
                   PROVE  /\ op'[o].pc = "show" => op[o].conv \in op[o].could
                          /\ op'[o].pc = "next" => op[o].conv \notin op[o].had
      OBVIOUS
    <2>2. Match(o)
      BY <2>1, OnlyMatch
    <2>3. op[o] \in Listings /\ op[o].pc = "match"
      BY <2>1, <2>2, MatchTrue
    <2>4. PICK entry :
            /\ op' = [op EXCEPT ![o] = IF entry.hit THEN [op[o] EXCEPT !.pc = "show"] ELSE Past(op[o])]
            /\ Owed(op[o], op[o].conv, entry.hit)
      BY <2>1, <2>2, MatchTrue
    <2>5. CASE entry.hit
      <3>1. op'[o].pc = "show" /\ op[o].conv \in op[o].could
        BY <2>1, <2>3, <2>4, <2>5 DEF Types, Owed, Listings, ListOp
      <3> QED BY <3>1
    <2>6. CASE ~entry.hit
      <3>1. op'[o].pc = "next" /\ op[o].conv \notin op[o].had
        BY <2>1, <2>3, <2>4, <2>6, PastType DEF Types, Owed
      <3> QED BY <3>1
    <2> QED BY <2>5, <2>6
  <1> QED BY <1>1, <1>2, <1>3, TypesHold, PTL DEF Spec, SearchTrue

-----------------------------------------------------------------------------
(* CHATDEDUP *)

(* Induction is over the set of numbers that have a property, from the     *)
(* least number principle, so it needs no operator as a parameter; a fold  *)
(* is followed by a function that has the value after each element (Steps, *)
(* Reads, Hears).                                                          *)

-----------------------------------------------------------------------------
(* Induction over data                                                       *)

\* A set of numbers has a least one.
LEMMA Least ==
  ASSUME NEW T, T \subseteq Nat, T # {}
  PROVE  \E x \in T : \A y \in T : x <= y
<1> DEFINE R == {ss \in Nat \X Nat : ss[1] < ss[2]}
<1>1. IsWellFoundedOn(R, Nat)
  BY NatLessThanWellFounded DEF OpToRel
<1>2. R = {ss \in Nat \X Nat : ss[1] < ss[2]}
  OBVIOUS
<1> HIDE DEF R
<1>3. PICK x \in T : \A y \in T : ~ (<<y, x>> \in R)
  BY <1>1, WFMin
<1>4. ASSUME NEW y \in T PROVE x <= y
  <2>1. <<y, x>> \notin R
    BY <1>3
  <2>2. <<y, x>> \in Nat \X Nat
    BY <1>3
  <2> QED BY <2>1, <2>2, <1>2, <1>3
<1> QED BY <1>3, <1>4

\* And the greatest if none is above a bound.
LEMMA Greatest ==
  ASSUME NEW n \in Nat, NEW T, T \subseteq 0..n, T # {}
  PROVE  \E x \in T : \A y \in T : y <= x
<1> DEFINE D == {d \in 0..n : n - d \in T}
<1>1. D \subseteq Nat /\ D # {}
  <2>1. PICK y \in T : y \in 0..n
    OBVIOUS
  <2>2. n - y \in 0..n /\ n - (n - y) = y
    BY <2>1
  <2>3. n - y \in D
    BY <2>1, <2>2
  <2>4. D \subseteq Nat
    OBVIOUS
  <2> HIDE DEF D
  <2> QED BY <2>3, <2>4
<1>2. PICK m \in D : \A y \in D : m <= y
  <2> HIDE DEF D
  <2> QED BY <1>1, Least
<1>3. m \in 0..n /\ n - m \in T
  BY <1>2
<1>4. ASSUME NEW y \in T PROVE y <= n - m
  <2>1. y \in 0..n /\ n - y \in 0..n /\ n - (n - y) = y
    BY <1>4
  <2>2. n - y \in D
    BY <2>1
  <2>3. m <= n - y
    BY <2>2, <1>2
  <2> QED BY <2>1, <2>3, <1>3
<1> QED BY <1>3, <1>4

\* What has 0 and with each number the next one has them all.
LEMMA Induction ==
  ASSUME NEW S, 0 \in S, \A n \in Nat : n \in S => n + 1 \in S
  PROVE  \A n \in Nat : n \in S
<1> SUFFICES ASSUME NEW m \in Nat, m \notin S PROVE FALSE
  OBVIOUS
<1> DEFINE T == {n \in Nat : n \notin S}
<1>1. PICK x \in T : \A y \in T : x <= y
  BY Least
<1>2. x # 0
  BY <1>1
<1>3. x - 1 \in Nat
  BY <1>1, <1>2
<1>4. x - 1 \in S
  BY <1>1, <1>3
<1> QED BY <1>1, <1>3, <1>4

\* A value and a function of the value before and of the place make one sequence
\* of values.
Steps(f, X, c, n, g) ==
  f \in [0..n -> X] /\ f[0] = c /\ \A i \in 1..n : f[i] = g[i][f[i - 1]]

\* There is such a sequence.
LEMMA FoldExists ==
  ASSUME NEW X, NEW c \in X, NEW n \in Nat, NEW g \in [1..n -> [X -> X]]
  PROVE  \E f : Steps(f, X, c, n, g)
<1> DEFINE Fits(f, k) == f[0] = c /\ \A i \in 1..k : f[i] = g[i][f[i - 1]]
           S == {k \in Nat : k <= n => \E f \in [0..k -> X] : Fits(f, k)}
<1>1. 0 \in S
  <2>1. [i \in 0..0 |-> c] \in [0..0 -> X] /\ Fits([i \in 0..0 |-> c], 0)
    OBVIOUS
  <2> QED BY <2>1
<1>2. ASSUME NEW k \in Nat, k \in S PROVE k + 1 \in S
  <2> SUFFICES ASSUME k + 1 <= n PROVE \E f \in [0..(k + 1) -> X] : Fits(f, k + 1)
    OBVIOUS
  <2>1. PICK f \in [0..k -> X] : Fits(f, k)
    BY <1>2
  <2> DEFINE h == [i \in 0..(k + 1) |-> IF i <= k THEN f[i] ELSE g[k + 1][f[k]]]
  <2>2. f[k] \in X /\ k + 1 \in 1..n
    OBVIOUS
  <2>3. g[k + 1][f[k]] \in X
    BY <2>2
  <2>4. h \in [0..(k + 1) -> X]
    BY <2>3
  <2>5. ASSUME NEW i \in 1..(k + 1) PROVE h[i] = g[i][h[i - 1]]
    <3>1. CASE i <= k
      <4>1. i \in 0..(k + 1) /\ i - 1 \in 0..(k + 1) /\ i - 1 <= k /\ i \in 1..k
        BY <3>1
      <4>2. h[i] = f[i] /\ h[i - 1] = f[i - 1]
        BY <4>1, <3>1
      <4> QED BY <4>1, <4>2, <2>1
    <3>2. CASE i = k + 1
      <4>1. h[i] = g[k + 1][f[k]] /\ h[i - 1] = f[k]
        BY <3>2
      <4> QED BY <4>1, <3>2
    <3> QED BY <3>1, <3>2
  <2>6. h[0] = c
    BY <2>1
  <2> HIDE DEF h
  <2> QED BY <2>4, <2>5, <2>6
<1> HIDE DEF S
<1>3. n \in S
  BY <1>1, <1>2, Induction
<1> QED BY <1>3 DEF S, Steps

-----------------------------------------------------------------------------
(* Lines, turns and what chatDedup holds                                     *)

Words == Text \union Nat

LineSet == [kind : {"user", "assistant", "enqueue", "remove"}, text : Words, id : Nat, ts : Nat]

\* Displayed lines: only an assistant's have an id.
Shown == {l \in LineSet : Displayed(l) /\ (l.kind # "assistant" => l.id = 0)}

TurnSet == [role : {"user", "assistant"}, text : Words, id : Nat]
UserTurn == [role : {"user"}, text : Words, id : {0}]

\* The last turn is an assistant's if last says so.
Dedup ==
  {d \in [pending : Seq(UserTurn), last : Nat, turns : Seq(TurnSet)] :
     d.last # 0 => d.last = Len(d.turns) /\ d.turns[d.last].role = "assistant"}

\* The turns there would be if nothing else came.
Flat(d) == d.turns \o d.pending

\* A displayed line's turn.
LEMMA TurnIs ==
  ASSUME NEW l \in Shown
  PROVE  /\ Turn(l) \in TurnSet
         /\ l.kind # "assistant" => Turn(l) \in UserTurn
         /\ Turn(l).role = "assistant" <=> l.kind = "assistant"
         /\ Turn(l).text = l.text /\ Turn(l).id = l.id
  BY DEF Shown, LineSet, TurnSet, UserTurn, Turn, Role, Displayed

\* chatDedup at the start.
LEMMA NoTurnsIs == NoTurns \in Dedup /\ Flat(NoTurns) = <<>>
  BY DEF NoTurns, Dedup, Flat

\* What a chatDedup consists of.
LEMMA DedupFields ==
  ASSUME NEW d \in Dedup
  PROVE  /\ d = [pending |-> d.pending, last |-> d.last, turns |-> d.turns]
         /\ d.pending \in Seq(UserTurn) /\ d.last \in Nat /\ d.turns \in Seq(TurnSet)
         /\ d.last # 0 => d.last = Len(d.turns) /\ d.turns[d.last].role = "assistant"
  BY DEF Dedup

\* And what makes one.
LEMMA DedupMade ==
  ASSUME NEW p \in Seq(UserTurn), NEW n \in Nat, NEW t \in Seq(TurnSet),
         n # 0 => n = Len(t) /\ t[n].role = "assistant"
  PROVE  [pending |-> p, last |-> n, turns |-> t] \in Dedup
  BY DEF Dedup

\* A user's turn is a turn.
LEMMA UserTurnIsTurn == UserTurn \subseteq TurnSet
  BY DEF UserTurn, TurnSet

\* What waits are turns.
LEMMA PendingTurns ==
  ASSUME NEW d \in Dedup
  PROVE  d.pending \in Seq(TurnSet) /\ d.turns \in Seq(TurnSet) /\ Flat(d) \in Seq(TurnSet)
  BY DedupFields, UserTurnIsTurn, SeqMonotonic, ConcatProperties DEF Flat

\* Concatenation of turns, in any order.
LEMMA TurnsAssociate ==
  ASSUME NEW s \in Seq(TurnSet), NEW t \in Seq(TurnSet), NEW u \in Seq(TurnSet)
  PROVE  (s \o t) \o u = s \o (t \o u)
  BY ConcatAssociative

\* Two sequences of turns, one after the other.
LEMMA TurnsConcat ==
  ASSUME NEW s \in Seq(TurnSet), NEW t \in Seq(TurnSet)
  PROVE  /\ s \o t \in Seq(TurnSet) /\ Len(s) \in Nat /\ Len(t) \in Nat
         /\ Len(s \o t) = Len(s) + Len(t)
         /\ \A i \in 1..Len(s) : (s \o t)[i] = s[i]
         /\ \A i \in 1..Len(t) : (s \o t)[Len(s) + i] = t[i]
  OBVIOUS

\* An enqueue waits.
LEMMA AddEnqueue ==
  ASSUME NEW d \in Dedup, NEW l \in Shown, l.kind = "enqueue"
  PROVE  /\ add(d, l) \in Dedup /\ Flat(add(d, l)) = Append(Flat(d), Turn(l))
         /\ add(d, l).pending = Append(d.pending, Turn(l))
         /\ add(d, l).last = d.last /\ add(d, l).turns = d.turns
  <1> DEFINE T == Turn(l)
             p == Append(d.pending, T)
             e == [pending |-> p, last |-> d.last, turns |-> d.turns]
  <1>1. add(d, l) = [d EXCEPT !.pending = Append(@, T)]
    BY DEF add
  <1>2. add(d, l) = e
    BY <1>1, DedupFields
  <1>3. T \in UserTurn /\ T \in TurnSet
    BY TurnIs
  <1>4. p \in Seq(UserTurn)
    BY <1>3, DedupFields
  <1>5. e \in Dedup
    <2> HIDE DEF p
    <2> QED BY <1>4, DedupFields, DedupMade
  <1>6. d.turns \o p = Append(d.turns \o d.pending, T)
    <2> HIDE DEF T
    <2> DEFINE w == <<T>>
    <2>1. p = d.pending \o w /\ Append(d.turns \o d.pending, T) = (d.turns \o d.pending) \o w
      BY <1>3, PendingTurns, AppendIsConcat DEF Flat
    <2>2. w \in Seq(TurnSet)
      BY <1>3
    <2> HIDE DEF w, p
    <2> QED BY <2>1, <2>2, PendingTurns, TurnsAssociate
  <1> HIDE DEF p, T
  <1>7. Flat(e) = Append(Flat(d), T)
    BY <1>6 DEF Flat
  <1>8. e.pending = p /\ e.last = d.last /\ e.turns = d.turns
    OBVIOUS
  <1> HIDE DEF e
  <1> QED BY <1>2, <1>5, <1>7, <1>8 DEF p, T

\* The first turn that waits with the line's text.
LEMMA AwaitingIs ==
  ASSUME NEW d \in Dedup, NEW x, NEW j, j = Awaiting(d, x)
  PROVE  /\ j \in 0..Len(d.pending)
         /\ j # 0 => d.pending[j].text = x /\ \A i \in 1..(j - 1) : d.pending[i].text # x
         /\ j = 0 => \A i \in 1..Len(d.pending) : d.pending[i].text # x
  <1> DEFINE I == {i \in 1..Len(d.pending) : d.pending[i].text = x}
  <1>0. Len(d.pending) \in Nat
    BY DedupFields
  <1>1. j = IF I # {} THEN Min(I) ELSE 0
    BY DEF Awaiting, SelectInSeq
  <1>2. CASE I = {}
    BY <1>0, <1>1, <1>2
  <1>3. CASE I # {}
    <2>0. I \subseteq Nat
      OBVIOUS
    <2>1. PICK m \in I : \A y \in I : m <= y
      <3> HIDE DEF I
      <3> QED BY <1>3, <2>0, Least
    <2>2. Min(I) \in I /\ \A y \in I : Min(I) <= y
      BY <2>1 DEF Min
    <2>3. j \in I /\ \A y \in I : j <= y
      BY <2>2, <1>1, <1>3
    <2> HIDE DEF I
    <2>4. j \in 1..Len(d.pending) /\ d.pending[j].text = x
      BY <2>3 DEF I
    <2>5. ASSUME NEW i \in 1..(j - 1) PROVE d.pending[i].text # x
      BY <2>3, <2>4, <1>0 DEF I
    <2> QED BY <2>4, <2>5, <1>0
  <1> QED BY <1>2, <1>3

\* The line of a text that waits stands for it.
LEMMA AddDrain ==
  ASSUME NEW d \in Dedup, NEW l \in Shown, l.kind = "user", NEW j, j = Awaiting(d, l.text), j # 0
  PROVE  /\ add(d, l) \in Dedup /\ Flat(add(d, l)) = Flat(d)
         /\ add(d, l).pending = SubSeq(d.pending, j + 1, Len(d.pending))
         /\ add(d, l).last = 0
  <1> DEFINE T == Turn(l)
             P == d.pending
             p == SubSeq(P, j + 1, Len(P))
             q == SubSeq(P, 1, j - 1)
             t == Append(d.turns \o q, T)
             e == [pending |-> p, last |-> 0, turns |-> t]
  <1>1. add(d, l) = Drained(d, j, T)
    BY DEF add
  <1>2. T.role = "user" /\ T \in UserTurn /\ T \in TurnSet /\ T.text = l.text
    BY TurnIs DEF UserTurn
  <1>3. add(d, l) = e
    BY <1>1, <1>2, DedupFields DEF Drained, append
  <1>4. j \in 1..Len(P) /\ P[j].text = l.text
    BY AwaitingIs
  <1>5. P \in Seq(UserTurn) /\ P \in Seq(TurnSet) /\ d.turns \in Seq(TurnSet) /\ Len(P) \in Nat
    BY DedupFields, PendingTurns
  <1>6. P[j] = T
    <2>1. P[j] \in UserTurn
      BY <1>4, <1>5, ElementOfSeq
    <2> HIDE DEF T, P
    <2> QED BY <2>1, <1>2, <1>4 DEF UserTurn
  <1> HIDE DEF T, P, p, q, t
  <1>7. p \in Seq(UserTurn) /\ p \in Seq(TurnSet) /\ q \in Seq(TurnSet)
    BY <1>4, <1>5, UserTurnIsTurn, SeqMonotonic, SubSeqProperties DEF p, q
  <1>8. t = (d.turns \o q) \o <<T>> /\ t \in Seq(TurnSet) /\ d.turns \o q \in Seq(TurnSet)
    BY <1>5, <1>7, <1>2, AppendIsConcat, AppendProperties, ConcatProperties DEF t
  <1>9. e \in Dedup
    BY <1>8, <1>7, DedupMade
  <1>10. P = q \o (<<T>> \o p)
    <2>1. SubSeq(P, 1, j - 1) \o SubSeq(P, j, Len(P)) = SubSeq(P, 1, Len(P))
      <3>1. 1 \in 1..(Len(P) + 1) /\ j - 1 \in 1 - 1..Len(P) /\ Len(P) \in j - 1..Len(P) /\ (j - 1) + 1 = j
        BY <1>4, <1>5
      <3> QED BY <3>1, <1>5, ConcatAdjacentSubSeq
    <2>2. SubSeq(P, j, Len(P)) = <<P[j]>> \o SubSeq(P, j + 1, Len(P))
      <3>1. Len(P) \in j..Len(P)
        BY <1>4, <1>5
      <3> QED BY <3>1, <1>4, <1>5, SubSeqRecursiveFirst
    <2>3. SubSeq(P, 1, Len(P)) = P
      BY <1>5, SubSeqFull
    <2> QED BY <2>1, <2>2, <2>3, <1>6 DEF p, q
  <1>11. t \o p = d.turns \o P
    <2> DEFINE w == <<T>>  wp == w \o p  tq == d.turns \o q
    <2>1. w \in Seq(TurnSet)
      BY <1>2
    <2>2. P = q \o wp /\ t = tq \o w
      BY <1>10, <1>8
    <2> HIDE DEF w
    <2>3. wp \in Seq(TurnSet) /\ tq \in Seq(TurnSet)
      BY <2>1, <1>7, <1>8, ConcatProperties
    <2> HIDE DEF tq
    <2>4. (tq \o w) \o p = tq \o wp
      BY <2>1, <2>3, <1>7, TurnsAssociate
    <2> USE DEF tq
    <2> HIDE DEF wp
    <2>5. tq \o wp = d.turns \o (q \o wp)
      BY ZenonT(60), <2>3, <1>5, <1>7, TurnsAssociate
    <2> QED BY <2>2, <2>4, <2>5
  <1>12. Flat(e) = Flat(d)
    BY <1>11 DEF Flat, P
  <1>13. e.pending = p /\ e.last = 0
    OBVIOUS
  <1> HIDE DEF e
  <1> QED BY <1>3, <1>9, <1>12, <1>13 DEF p, P

\* A line that begins a message: what waits is told before it.
LEMMA AddMessage ==
  ASSUME NEW d \in Dedup, NEW l \in Shown,
         \/ l.kind = "user" /\ Awaiting(d, l.text) = 0
         \/ l.kind = "assistant" /\ ~ (d.last # 0 /\ d.turns[d.last].id = l.id)
  PROVE  /\ add(d, l) \in Dedup /\ Flat(add(d, l)) = Append(Flat(d), Turn(l))
         /\ add(d, l).pending = <<>>
         /\ l.kind = "assistant" => add(d, l).last # 0 /\ add(d, l).turns[add(d, l).last] = Turn(l)
         /\ l.kind = "user" => add(d, l).last = 0
  <1> DEFINE T == Turn(l)
             n == IF l.kind = "assistant" THEN Len(Flat(d)) + 1 ELSE 0
             t == Append(Flat(d), T)
             e == [pending |-> <<>>, last |-> n, turns |-> t]
  <1>0. T \in TurnSet /\ (T.role = "assistant" <=> l.kind = "assistant")
    BY TurnIs
  <1>1. add(d, l) = append(flushPending(d), T)
    BY DEF add
  <1> HIDE DEF T
  <1>2. flushPending(d) = [pending |-> <<>>, last |-> d.last, turns |-> Flat(d)]
    <2> DEFINE dp == d.pending  dl == d.last  dt == d.turns
    <2>1. d = [pending |-> dp, last |-> dl, turns |-> dt]
      BY DedupFields
    <2>2. flushPending(d) = [d EXCEPT !.turns = dt \o dp, !.pending = <<>>]
      BY DEF flushPending
    <2> HIDE DEF dp, dl, dt
    <2>3. flushPending(d) = [pending |-> <<>>, last |-> dl, turns |-> dt \o dp]
      BY <2>1, <2>2
    <2> QED BY <2>3 DEF Flat, dp, dl, dt
  <1>4. Flat(d) \in Seq(TurnSet) /\ Len(Flat(d)) \in Nat
    BY PendingTurns
  <1>3. add(d, l) = e
    <2> DEFINE F == Flat(d)
    <2> HIDE DEF F
    <2>1. add(d, l) = append([pending |-> <<>>, last |-> d.last, turns |-> F], T)
      BY <1>1, <1>2 DEF F
    <2>2. add(d, l) = [pending |-> <<>>, last |-> IF l.kind = "assistant" THEN Len(F) + 1 ELSE 0, turns |-> Append(F, T)]
      BY <2>1, <1>0 DEF append
    <2> QED BY <2>2 DEF F
  <1>5. t \in Seq(TurnSet) /\ Len(t) = Len(Flat(d)) + 1 /\ t[Len(t)] = T /\ Len(t) \in Nat
    BY <1>4, <1>0
  <1> HIDE DEF t
  <1>6. e \in Dedup
    <2>1. n \in Nat /\ (n # 0 => n = Len(t) /\ t[n].role = "assistant")
      BY <1>4, <1>5, <1>0
    <2>2. <<>> \in Seq(UserTurn)
      OBVIOUS
    <2> QED BY <1>5, <2>1, <2>2, DedupMade
  <1>7. t \o <<>> = t
    BY <1>5, ConcatEmptySeq
  <1>8. Flat(e) = t
    BY <1>7 DEF Flat
  <1>9. e.pending = <<>> /\ e.last = n /\ e.turns = t
    OBVIOUS
  <1>10. /\ l.kind = "assistant" => e.last # 0 /\ e.turns[e.last] = T
         /\ l.kind = "user" => e.last = 0
    <2> HIDE DEF e
    <2> QED BY <1>9, <1>4, <1>5
  <1> HIDE DEF e
  <1> QED BY <1>3, <1>6, <1>8, <1>9, <1>10 DEF T, t

\* An element replaced in the first part of a sequence.
LEMMA ExceptConcat ==
  ASSUME NEW S, NEW s \in Seq(S), NEW u \in Seq(S), NEW k \in 1..Len(s), NEW x \in S
  PROVE  /\ k \in 1..Len(s \o u)
         /\ [s EXCEPT ![k] = x] \o u = [s \o u EXCEPT ![k] = x]
  <1> DEFINE v == [s EXCEPT ![k] = x]
             F == s \o u
             G == v \o u
             E == [F EXCEPT ![k] = x]
             n == Len(s)
             m == Len(u)
  <1>1. v \in Seq(S) /\ Len(v) = n /\ \A j \in 1..n : v[j] = IF j = k THEN x ELSE s[j]
    BY ExceptSeq
  <1>2. n \in Nat /\ m \in Nat /\ k \in 1..n
    OBVIOUS
  <1> HIDE DEF v
  <1>3. /\ F \in Seq(S) /\ Len(F) = n + m
        /\ \A j \in 1..(n + m) : F[j] = IF j <= n THEN s[j] ELSE u[j - n]
    BY ConcatProperties
  <1>4. /\ G \in Seq(S) /\ Len(G) = n + m
        /\ \A j \in 1..(n + m) : G[j] = IF j <= n THEN v[j] ELSE u[j - n]
    <2> DEFINE l == Len(v)
    <2>1. /\ G \in Seq(S) /\ Len(G) = l + m
          /\ \A j \in 1..(l + m) : G[j] = IF j <= l THEN v[j] ELSE u[j - l]
      BY <1>1, ConcatProperties
    <2>2. l = n
      BY <1>1
    <2> HIDE DEF l, n, m, G
    <2> QED BY <2>1, <2>2
  <1> HIDE DEF n, m, F, G
  <1>5. k \in 1..(n + m)
    BY <1>2
  <1>6. /\ E \in Seq(S) /\ Len(E) = n + m
        /\ \A j \in 1..(n + m) : E[j] = IF j = k THEN x ELSE F[j]
    BY <1>3, <1>5, ExceptSeq
  <1> HIDE DEF E
  <1>7. ASSUME NEW j \in 1..(n + m) PROVE G[j] = E[j]
    <2>1. CASE j <= n
      <3>1. j \in 1..n
        BY <2>1, <1>2
      <3> QED BY <3>1, <2>1, <1>1, <1>3, <1>4, <1>6
    <2>2. CASE ~ (j <= n)
      <3>1. j # k
        BY <2>2, <1>2
      <3> QED BY <3>1, <2>2, <1>3, <1>4, <1>6
    <2> QED BY <2>1, <2>2
  <1>8. G = E
    BY <1>4, <1>6, <1>7, SeqEqual
  <1> QED BY <1>8, <1>3, <1>5 DEF E, F, G, v

\* A fuller snapshot takes the place of the last turn's text.
LEMMA AddSnapshot ==
  ASSUME NEW d \in Dedup, NEW l \in Shown, l.kind = "assistant",
         d.last # 0, d.turns[d.last].id = l.id
  PROVE  /\ add(d, l) \in Dedup
         /\ d.last \in 1..Len(Flat(d)) /\ Flat(add(d, l)) = [Flat(d) EXCEPT ![d.last] = Turn(l)]
         /\ add(d, l).pending = d.pending /\ add(d, l).last = d.last
         /\ add(d, l).turns[d.last] = Turn(l)
  <1> DEFINE T == Turn(l)
             t == [d.turns EXCEPT ![d.last] = T]
             e == [pending |-> d.pending, last |-> d.last, turns |-> t]
  <1>0. T \in TurnSet /\ T = [role |-> "assistant", text |-> l.text, id |-> l.id]
    BY TurnIs DEF Turn, Role
  <1>1. d.turns \in Seq(TurnSet) /\ d.pending \in Seq(TurnSet) /\ d.last = Len(d.turns)
        /\ d.turns[d.last].role = "assistant" /\ Len(d.turns) \in Nat /\ Len(d.pending) \in Nat
    BY DedupFields, PendingTurns
  <1>11. d.last \in 1..Len(d.turns)
    BY <1>1
  <1>2. [d.turns[d.last] EXCEPT !.text = l.text] = T
    <2>1. d.turns[d.last] \in TurnSet
      BY <1>1, <1>11, ElementOfSeq
    <2> HIDE DEF T
    <2> QED BY <2>1, <1>0, <1>1 DEF TurnSet
  <1>3. add(d, l) = [d EXCEPT !.turns[d.last].text = l.text]
    BY DEF add
  <1>4. add(d, l) = e
    BY <1>3, <1>2, <1>1, DedupFields
  <1> HIDE DEF T
  <1>5. t \in Seq(TurnSet) /\ Len(t) = Len(d.turns) /\ t[d.last] = T
        /\ \A j \in 1..Len(d.turns) : t[j] = IF j = d.last THEN T ELSE d.turns[j]
    BY <1>0, <1>1, <1>11, ExceptSeq
  <1>9. DOMAIN t = 1..Len(t)
    BY <1>5, LenProperties
  <1> HIDE DEF t
  <1>6. e \in Dedup
    <2>1. d.last # 0 => d.last = Len(t) /\ t[d.last].role = "assistant"
      BY <1>5, <1>1, <1>0
    <2> QED BY <1>5, <2>1, DedupFields, DedupMade
  <1>7. d.last \in 1..Len(d.turns \o d.pending) /\ t \o d.pending = [d.turns \o d.pending EXCEPT ![d.last] = T]
    <2> DEFINE u == d.turns  w == d.pending  k == d.last
    <2>1. u \in Seq(TurnSet) /\ w \in Seq(TurnSet) /\ k \in 1..Len(u) /\ T \in TurnSet /\ t = [u EXCEPT ![k] = T]
      BY <1>0, <1>1, <1>11 DEF t
    <2> HIDE DEF u, w, k
    <2> HIDE DEF u, w, k
    <2>2. k \in 1..Len(u \o w) /\ [u EXCEPT ![k] = T] \o w = [u \o w EXCEPT ![k] = T]
      BY SMTT(30), <2>1, ExceptConcat
    <2>3. t \o w = [u \o w EXCEPT ![k] = T]
      BY <2>1, <2>2
    <2> QED BY <2>2, <2>3 DEF u, w, k
  <1>8. Flat(e) = [Flat(d) EXCEPT ![d.last] = T]
    BY <1>7 DEF Flat
  <1>10. d.last \in 1..Len(Flat(d))
    BY <1>7 DEF Flat
  <1> QED BY <1>4, <1>5, <1>6, <1>8, <1>10 DEF T

\* chatDedup keeps its shape.
LEMMA AddType ==
  ASSUME NEW d \in Dedup, NEW l \in Shown
  PROVE  add(d, l) \in Dedup
  <1>1. l.kind \in {"user", "assistant", "enqueue"}
    BY DEF Shown, Displayed
  <1> QED BY <1>1, AddEnqueue, AddDrain, AddMessage, AddSnapshot

-----------------------------------------------------------------------------
(* Reading a sequence of lines, some of them left out                        *)

Reads(h, W, lg) ==
  /\ h \in [0..Len(lg) -> Dedup] /\ h[0] = NoTurns
  /\ \A n \in 1..Len(lg) : h[n] = IF n \in W THEN add(h[n - 1], lg[n]) ELSE h[n - 1]

\* Every log can be read so.
LEMMA ReadsExists ==
  ASSUME NEW W, NEW lg \in Seq(Shown)
  PROVE  \E h : Reads(h, W, lg)
  <1> DEFINE N == Len(lg)
             g == [i \in 1..N |-> [d \in Dedup |-> IF i \in W THEN add(d, lg[i]) ELSE d]]
  <1>1. N \in Nat /\ NoTurns \in Dedup
    BY NoTurnsIs
  <1>2. ASSUME NEW i \in 1..N, NEW d \in Dedup PROVE (IF i \in W THEN add(d, lg[i]) ELSE d) \in Dedup
    <2>1. lg[i] \in Shown
      OBVIOUS
    <2> QED BY <2>1, AddType
  <1>3. g \in [1..N -> [Dedup -> Dedup]]
    BY <1>2
  <1> HIDE DEF N
  <1>4. PICK f : Steps(f, Dedup, NoTurns, N, g)
    <2> HIDE DEF g
    <2> QED BY <1>1, <1>3, FoldExists
  <1>5. ASSUME NEW i \in 1..N PROVE f[i] = IF i \in W THEN add(f[i - 1], lg[i]) ELSE f[i - 1]
    <2>1. i - 1 \in 0..N /\ f[i - 1] \in Dedup
      BY <1>1, <1>4 DEF Steps
    <2> QED BY <2>1, <1>4 DEF Steps
  <1> QED BY <1>4, <1>5 DEF Reads, N, Steps

\* chatDedup's loop over all of them.
LEMMA AddFolded ==
  ASSUME NEW s \in Seq(Shown), NEW h, Reads(h, 1..Len(s), s)
  PROVE  Folded(add, NoTurns, s) = h[Len(s)]
  <1> DEFINE N == Len(s)
             Is(f) == f = [i \in 0..N |-> IF i = 0 THEN NoTurns ELSE add(f[i - 1], s[i])]
             so == CHOOSE f : Is(f)
  <1>1. N \in Nat
    OBVIOUS
  <1>2. Folded(add, NoTurns, s) = so[N]
    BY DEF Folded
  <1>3. h \in [0..N -> Dedup] /\ h[0] = NoTurns /\ \A i \in 1..N : h[i] = add(h[i - 1], s[i])
    BY DEF Reads
  <1>4. Is(h)
    BY <1>3
  <1>5. Is(so)
    <2> HIDE DEF Is
    <2> QED BY <1>4
  <1> HIDE DEF so, N
  <1> DEFINE S == {i \in Nat : i <= N => so[i] = h[i]}
  <1>6. 0 \in S
    BY <1>5, <1>3, <1>1
  <1>7. ASSUME NEW i \in Nat, i \in S PROVE i + 1 \in S
    <2> SUFFICES ASSUME i + 1 <= N PROVE so[i + 1] = h[i + 1]
      OBVIOUS
    <2>1. i + 1 \in 1..N /\ (i + 1) - 1 = i /\ i + 1 # 0 /\ i + 1 \in 0..N
      BY <1>1
    <2>2. so[i + 1] = add(so[i], s[i + 1])
      BY <1>5, <2>1
    <2>3. h[i + 1] = add(h[i], s[i + 1])
      BY <1>3, <2>1
    <2>4. so[i] = h[i]
      BY <1>7, <1>1
    <2> QED BY <2>2, <2>3, <2>4
  <1> HIDE DEF S
  <1>8. N \in S
    BY <1>1, <1>6, <1>7, Induction
  <1>9. so[N] = h[N]
    BY <1>8, <1>1 DEF S
  <1> QED BY <1>9, <1>2 DEF N

\* The lines kept of a log, in its order.
Keeps(s, W, lg) ==
  /\ \A i \in 1..Len(s) : s[i].ts \in 1..Len(lg) /\ s[i].ts \in W /\ s[i] = lg[s[i].ts]
  /\ \A i, j \in 1..Len(s) : i < j => s[i].ts < s[j].ts
  /\ \A n \in 1..Len(lg) : n \in W => \E i \in 1..Len(s) : s[i].ts = n

\* They tell what the log with the others left out tells.
LEMMA ReadsKept ==
  ASSUME NEW lg, Len(lg) \in Nat, NEW W, NEW s, Len(s) \in Nat, NEW h, NEW f,
         Reads(h, W, lg), Reads(f, 1..Len(s), s), Keeps(s, W, lg)
  PROVE  f[Len(s)] = h[Len(lg)]
  <1> DEFINE N == Len(lg)
             M == Len(s)
             t(i) == s[i].ts
             At(n, i) == (i = 0 \/ t(i) <= n) /\ (i = M \/ t(i + 1) > n)
             S == {n \in Nat : n <= N => \A i \in 0..M : At(n, i) => h[n] = f[i]}
  <1>1. N \in Nat /\ M \in Nat /\ \A i \in 1..M : t(i) \in 1..N
    BY DEF Keeps
  <1>2. /\ h[0] = NoTurns
        /\ \A n \in 1..N : h[n] = IF n \in W THEN add(h[n - 1], lg[n]) ELSE h[n - 1]
        /\ f[0] = NoTurns
        /\ \A i \in 1..M : f[i] = add(f[i - 1], s[i])
    BY DEF Reads
  <1>3. /\ \A i \in 1..M : t(i) \in W /\ s[i] = lg[t(i)]
        /\ \A i, j \in 1..M : i < j => t(i) < t(j)
        /\ \A n \in 1..N : n \in W => \E i \in 1..M : t(i) = n
    BY DEF Keeps
  <1> HIDE DEF N, M, t
  <1>4. 0 \in S
    BY <1>1, <1>2
  <1>5. ASSUME NEW n \in Nat, n \in S PROVE n + 1 \in S
    <2> SUFFICES ASSUME n + 1 <= N, NEW i \in 0..M, At(n + 1, i) PROVE h[n + 1] = f[i]
      BY DEF S
    <2>1. n + 1 \in 1..N /\ (n + 1) - 1 = n /\ n <= N
      BY <1>1
    <2>2. CASE n + 1 \in W
      <3>1. PICK j \in 1..M : t(j) = n + 1
        BY <2>1, <2>2, <1>3
      <3>2. i = j
        <4>1. CASE i < j
          <5>1. i # M /\ i + 1 \in 1..M /\ (i + 1 = j \/ i + 1 < j)
            BY <4>1, <1>1
          <5>2. t(i + 1) <= t(j)
            BY <5>1, <1>1, <1>3
          <5> QED BY <5>1, <5>2, <3>1, <1>1
        <4>2. CASE i > j
          <5>1. i \in 1..M /\ i # 0
            BY <4>2, <1>1
          <5>2. t(j) < t(i)
            BY <5>1, <4>2, <1>3
          <5> QED BY <5>1, <5>2, <3>1, <1>1
        <4> QED BY <4>1, <4>2, <1>1
      <3>3. i \in 1..M /\ i - 1 \in 0..M /\ (i - 1) + 1 = i
        BY <3>2, <1>1
      <3>4. At(n, i - 1)
        <4>1. t(i) > n
          BY <3>1, <3>2
        <4>2. i - 1 = 0 \/ t(i - 1) <= n
          <5> SUFFICES ASSUME i - 1 # 0 PROVE t(i - 1) <= n
            OBVIOUS
          <5>1. i - 1 \in 1..M /\ i - 1 < i
            BY <3>3, <1>1
          <5>2. t(i - 1) < t(i) /\ t(i - 1) \in 1..N
            BY <5>1, <3>3, <1>3, <1>1
          <5> QED BY <5>2, <3>1, <3>2
        <4> QED BY <4>1, <4>2, <3>3
      <3>5. h[n] = f[i - 1]
        BY <3>3, <3>4, <1>5, <2>1 DEF S
      <3>6. s[i] = lg[n + 1]
        BY <3>1, <3>2, <1>3
      <3>7. h[n + 1] = add(h[n], lg[n + 1])
        BY <2>1, <2>2, <1>2
      <3>8. f[i] = add(f[i - 1], s[i])
        BY <3>3, <1>2
      <3> QED BY <3>5, <3>6, <3>7, <3>8
    <2>3. CASE n + 1 \notin W
      <3>1. At(n, i)
        <4>1. i = 0 \/ t(i) <= n
          <5> SUFFICES ASSUME i # 0 PROVE t(i) <= n
            OBVIOUS
          <5>1. i \in 1..M /\ t(i) \in 1..N /\ t(i) # n + 1
            BY <1>1, <1>3, <2>3
          <5> QED BY <5>1
        <4>2. i = M \/ t(i + 1) > n
          <5> SUFFICES ASSUME i # M PROVE t(i + 1) > n
            OBVIOUS
          <5>1. i + 1 \in 1..M /\ t(i + 1) \in 1..N /\ t(i + 1) > n + 1
            BY <1>1
          <5> QED BY <5>1
        <4> QED BY <4>1, <4>2
      <3>2. h[n] = f[i]
        BY <3>1, <1>5, <2>1 DEF S
      <3>3. h[n + 1] = h[n]
        BY <2>1, <2>3, <1>2
      <3> QED BY <3>2, <3>3
    <2> QED BY <2>2, <2>3
  <1> HIDE DEF S
  <1>6. N \in S
    BY <1>1, <1>4, <1>5, Induction
  <1>7. At(N, M)
    BY <1>1
  <1>8. M \in 0..M
    BY <1>1
  <1>9. h[N] = f[M]
    BY <1>1, <1>6, <1>7, <1>8 DEF S
  <1> QED BY <1>9 DEF N, M

-----------------------------------------------------------------------------
(* The file's lines, sorted                                                  *)

FileLine == {l \in LineSet : Displayed(l) => l \in Shown}

InOrder(s) == \A i, j \in 1..Len(s) : i < j => s[i].ts < s[j].ts

\* r has l behind the first k of s.
Put(s, l, k, r) ==
  /\ k \in 0..Len(s) /\ r \in Seq(Shown) /\ Len(r) = Len(s) + 1
  /\ k # 0 => s[k].ts <= l.ts
  /\ \A i \in 1..Len(s) : i > k => ~ (s[i].ts <= l.ts)
  /\ \A i \in 1..(Len(s) + 1) : r[i] = IF i <= k THEN s[i] ELSE IF i = k + 1 THEN l ELSE s[i - 1]

\* A line is put between those that are not later and a later one.
LEMMA ByTimeIs ==
  ASSUME NEW s \in Seq(Shown), NEW l \in Shown, NEW r, r = ByTime(s, l)
  PROVE  \E k \in 0..Len(s) : Put(s, l, k, r)
  <1> DEFINE n == Len(s)
             I == {i \in 1..Len(s) : s[i].ts <= l.ts}
             k == IF I # {} THEN Max(I) ELSE 0
  <1>1. n \in Nat
    OBVIOUS
  <1>2. SelectLastInSeq(s, LAMBDA x : x.ts <= l.ts) = k
    BY DEF SelectLastInSeq
  <1>3. k \in 0..n /\ (k # 0 => s[k].ts <= l.ts) /\ \A i \in 1..n : i > k => ~ (s[i].ts <= l.ts)
    <2>1. CASE I = {}
      BY <2>1, <1>1
    <2>2. CASE I # {}
      <3>1. I \subseteq 0..n
        BY <1>1
      <3>2. PICK m \in I : \A y \in I : y <= m
        <4> HIDE DEF I, n
        <4> QED BY <2>2, <3>1, <1>1, Greatest
      <3>3. Max(I) \in I /\ \A y \in I : Max(I) >= y
        <4>1. m \in I /\ \A y \in I : m >= y
          BY <3>2, <3>1
        <4> HIDE DEF I
        <4> QED BY <4>1 DEF Max
      <3>4. k \in I /\ \A y \in I : k >= y
        BY <2>2, <3>3
      <3> HIDE DEF k
      <3>5. k \in 1..n /\ s[k].ts <= l.ts
        BY <3>4
      <3>6. ASSUME NEW i \in 1..n, i > k, s[i].ts <= l.ts PROVE FALSE
        <4>1. i \in I
          BY <3>6
        <4> HIDE DEF I
        <4> QED BY <4>1, <3>4, <3>5, <3>6, <1>1
      <3> QED BY <3>5, <3>6
    <2> QED BY <2>1, <2>2
  <1> HIDE DEF k
  <1> DEFINE p == SubSeq(s, 1, k)
             q == SubSeq(s, k + 1, n)
             w == <<l>>
  <1>4. r = (p \o w) \o q
    <2>1. r = InsertAt(s, k + 1, l)
      BY <1>2 DEF ByTime
    <2>2. (k + 1) - 1 = k
      BY <1>3, <1>1
    <2> QED BY <2>1, <2>2 DEF InsertAt
  <1>5. /\ p \in Seq(Shown) /\ Len(p) = k /\ \A i \in 1..k : p[i] = s[i]
        /\ q \in Seq(Shown) /\ Len(q) = n - k /\ \A i \in 1..(n - k) : q[i] = s[k + i]
    BY <1>1, <1>3
  <1>6. w \in Seq(Shown) /\ Len(w) = 1 /\ w[1] = l
    OBVIOUS
  <1> HIDE DEF p, q, w
  <1> DEFINE pw == p \o w
  <1>7. pw \in Seq(Shown) /\ Len(pw) = k + 1 /\ \A i \in 1..(k + 1) : pw[i] = IF i <= k THEN s[i] ELSE l
    <2>1. /\ pw \in Seq(Shown) /\ Len(pw) = Len(p) + Len(w)
          /\ \A i \in 1..(Len(p) + Len(w)) : pw[i] = IF i <= Len(p) THEN p[i] ELSE w[i - Len(p)]
      BY <1>5, <1>6, ConcatProperties
    <2> HIDE DEF pw
    <2>2. Len(pw) = k + 1 /\ \A i \in 1..(k + 1) : pw[i] = IF i <= k THEN p[i] ELSE w[i - k]
      BY <2>1, <1>5, <1>6
    <2>3. ASSUME NEW i \in 1..(k + 1) PROVE pw[i] = IF i <= k THEN s[i] ELSE l
      <3>1. CASE i <= k
        <4>1. i \in 1..k
          BY <3>1, <1>3
        <4> QED BY <4>1, <3>1, <2>2, <1>5
      <3>2. CASE i = k + 1
        <4>1. i - k = 1 /\ ~ (i <= k)
          BY <3>2, <1>3, <1>1
        <4> QED BY <4>1, <2>2, <1>6
      <3> QED BY <3>1, <3>2, <1>3, <1>1
    <2> QED BY <2>1, <2>2, <2>3
  <1>8. r = pw \o q
    BY <1>4
  <1> HIDE DEF pw
  <1>9. r \in Seq(Shown) /\ Len(r) = n + 1
    BY <1>8, <1>7, <1>5, <1>3, <1>1
  <1>10. ASSUME NEW i \in 1..(n + 1) PROVE r[i] = IF i <= k THEN s[i] ELSE IF i = k + 1 THEN l ELSE s[i - 1]
    <2>1. CASE i <= k + 1
      <3>1. i \in 1..(k + 1)
        BY <2>1, <1>3, <1>1
      <3>2. r[i] = pw[i]
        BY <3>1, <1>8, <1>7, <1>5
      <3> QED BY <3>1, <3>2, <1>7, <1>3, <1>1
    <2>2. CASE i > k + 1
      <3>1. i - (k + 1) \in 1..(n - k) /\ k + (i - (k + 1)) = i - 1
        BY <2>2, <1>3, <1>1
      <3>2. r[i] = q[i - (k + 1)]
        BY SMTT(30), <3>1, <2>2, <1>8, <1>7, <1>5, <1>3, <1>1
      <3>3. q[i - (k + 1)] = s[i - 1]
        BY <3>1, <1>5
      <3> QED BY <3>2, <3>3, <2>2, <1>3, <1>1
    <2> QED BY <2>1, <2>2, <1>3, <1>1
  <1> QED BY <1>3, <1>9, <1>10 DEF n, Put

\* Lines in order stay so, and no line is lost or made up.
Merged(s, l, r) ==
  /\ r \in Seq(Shown) /\ InOrder(r)
  /\ \E i \in 1..Len(r) : r[i] = l
  /\ \A i \in 1..Len(s) : \E j \in 1..Len(r) : r[j] = s[i]
  /\ \A j \in 1..Len(r) : r[j] = l \/ \E i \in 1..Len(s) : r[j] = s[i]

\* Of a line with a timestamp of its own.
LEMMA ByTimeInOrder ==
  ASSUME NEW s \in Seq(Shown), InOrder(s), NEW l \in Shown,
         \A i \in 1..Len(s) : s[i].ts # l.ts, NEW r, r = ByTime(s, l)
  PROVE  Merged(s, l, r)
  <1> DEFINE n == Len(s)
  <1>0. PICK k \in 0..n : Put(s, l, k, r)
    BY ByTimeIs
  <1>1. /\ k \in 0..n
        /\ k # 0 => s[k].ts <= l.ts
        /\ \A i \in 1..n : i > k => ~ (s[i].ts <= l.ts)
        /\ r \in Seq(Shown) /\ Len(r) = n + 1
        /\ \A i \in 1..(n + 1) : r[i] = IF i <= k THEN s[i] ELSE IF i = k + 1 THEN l ELSE s[i - 1]
    BY <1>0 DEF Put
  <1>2. n \in Nat /\ l.ts \in Nat /\ \A i \in 1..n : s[i].ts \in Nat
    <2>1. \A i \in 1..n : s[i] \in Shown
      OBVIOUS
    <2> QED BY <2>1 DEF Shown, LineSet
  <1>3. \A i, j \in 1..n : i < j => s[i].ts < s[j].ts
    BY DEF InOrder
  <1>4. \A i \in 1..n : s[i].ts # l.ts
    OBVIOUS
  <1> HIDE DEF n
  <1>5. \A i \in 1..n : i <= k => s[i].ts < l.ts
    <2> SUFFICES ASSUME NEW i \in 1..n, i <= k PROVE s[i].ts < l.ts
      OBVIOUS
    <2>1. k \in 1..n /\ k # 0 /\ (i = k \/ i < k)
      BY <1>2
    <2>2. s[i].ts <= s[k].ts /\ s[k].ts <= l.ts /\ s[i].ts # l.ts
      BY <2>1, <1>1, <1>2, <1>3, <1>4
    <2> QED BY <2>1, <2>2, <1>2
  <1>6. \A i \in 1..n : i > k => l.ts < s[i].ts
    BY <1>1, <1>2
  <1>7. ASSUME NEW i \in 1..(n + 1), NEW j \in 1..(n + 1), i < j PROVE r[i].ts < r[j].ts
    <2>1. CASE j <= k
      <3>1. i \in 1..n /\ j \in 1..n /\ i <= k
        BY <2>1, <1>2, <1>7
      <3>2. r[i] = s[i] /\ r[j] = s[j]
        BY <3>1, <2>1, <1>1
      <3> QED BY <3>1, <3>2, <1>3, <1>7
    <2>2. CASE j = k + 1
      <3>1. i \in 1..n /\ i <= k /\ ~ (j <= k)
        BY <2>2, <1>2, <1>7
      <3>2. r[i] = s[i] /\ r[j] = l
        BY <3>1, <2>2, <1>1
      <3> QED BY <3>1, <3>2, <1>5
    <2>3. CASE j > k + 1
      <3>1. j - 1 \in 1..n /\ j - 1 > k /\ r[j] = s[j - 1]
        <4>1. j - 1 \in 1..n /\ j - 1 > k /\ ~ (j <= k) /\ j # k + 1
          BY <2>3, <1>2
        <4> QED BY <4>1, <1>1
      <3>2. CASE i <= k
        <4>1. i \in 1..n /\ i < j - 1
          BY <3>1, <3>2, <1>2
        <4>2. r[i] = s[i]
          BY <3>2, <1>1
        <4> QED BY <4>1, <4>2, <3>1, <1>3
      <3>3. CASE i = k + 1
        <4>1. r[i] = l
          <5>1. ~ (i <= k)
            BY <3>3
          <5> QED BY <5>1, <3>3, <1>1
        <4> QED BY <4>1, <3>1, <1>6
      <3>4. CASE i > k + 1
        <4>1. i - 1 \in 1..n /\ i - 1 < j - 1 /\ ~ (i <= k) /\ i # k + 1
          BY <3>4, <1>2, <1>7
        <4>2. r[i] = s[i - 1]
          BY <4>1, <1>1
        <4> QED BY <4>1, <4>2, <3>1, <1>3
      <3> QED BY <3>2, <3>3, <3>4, <1>2
    <2> QED BY <2>1, <2>2, <2>3, <1>2
  <1>8. \E i \in 1..(n + 1) : r[i] = l
    <2>1. k + 1 \in 1..(n + 1) /\ ~ (k + 1 <= k)
      BY <1>2
    <2> QED BY <2>1, <1>1
  <1>9. ASSUME NEW i \in 1..n PROVE \E j \in 1..(n + 1) : r[j] = s[i]
    <2>1. CASE i <= k
      <3>1. i \in 1..(n + 1)
        BY <1>2
      <3> QED BY <3>1, <2>1, <1>1
    <2>2. CASE i > k
      <3>1. i + 1 \in 1..(n + 1) /\ ~ (i + 1 <= k) /\ i + 1 # k + 1 /\ (i + 1) - 1 = i
        BY <2>2, <1>2
      <3>2. r[i + 1] = s[i]
        BY <3>1, <1>1
      <3> QED BY <3>1, <3>2
    <2> QED BY <2>1, <2>2, <1>2
  <1>10. ASSUME NEW j \in 1..(n + 1) PROVE r[j] = l \/ \E i \in 1..n : r[j] = s[i]
    <2>1. CASE j <= k
      <3>1. j \in 1..n
        BY <2>1, <1>2
      <3> QED BY <3>1, <2>1, <1>1
    <2>2. CASE j = k + 1
      <3>1. ~ (j <= k)
        BY <2>2
      <3> QED BY <3>1, <2>2, <1>1
    <2>3. CASE j > k + 1
      <3>1. j - 1 \in 1..n /\ ~ (j <= k) /\ j # k + 1
        BY <2>3, <1>2
      <3>2. r[j] = s[j - 1]
        BY <3>1, <1>1
      <3> QED BY <3>1, <3>2
    <2> QED BY <2>1, <2>2, <2>3, <1>2
  <1>11. InOrder(r)
    BY <1>1, <1>7 DEF InOrder
  <1>12. Len(r) = n + 1 /\ r \in Seq(Shown)
    BY <1>1
  <1> QED BY <1>8, <1>9, <1>10, <1>11, <1>12 DEF n, Merged

\* The displayed lines of a file, in order.
Sorted(s, ls) ==
  /\ s \in Seq(Shown) /\ InOrder(s)
  /\ \A i \in 1..Len(s) : \E j \in 1..Len(ls) : Displayed(ls[j]) /\ s[i] = ls[j]
  /\ \A j \in 1..Len(ls) : Displayed(ls[j]) => \E i \in 1..Len(s) : s[i] = ls[j]

\* If no two have one timestamp.
LEMMA EntriesAre ==
  ASSUME NEW ls \in Seq(FileLine),
         \A i, j \in 1..Len(ls) :
           Displayed(ls[i]) /\ Displayed(ls[j]) /\ ls[i].ts = ls[j].ts => i = j,
         NEW s, s = Folded(Enter, <<>>, ls)
  PROVE  Sorted(s, ls)
  <1> DEFINE N == Len(ls)
             Is(f) == f = [i \in 0..N |-> IF i = 0 THEN <<>> ELSE Enter(f[i - 1], ls[i])]
             so == CHOOSE f : Is(f)
             X == Seq(Shown)
             none == <<>>
             g == [i \in 1..N |-> [u \in X |-> Enter(u, ls[i])]]
  <1>1. /\ N \in Nat /\ \A i \in 1..N : ls[i] \in FileLine
        /\ \A i, j \in 1..N : Displayed(ls[i]) /\ Displayed(ls[j]) /\ ls[i].ts = ls[j].ts => i = j
    OBVIOUS
  <1>2. s = so[N]
    BY DEF Folded
  <1>3. ASSUME NEW i \in 1..N, NEW u \in X PROVE Enter(u, ls[i]) \in X
    <2>1. CASE Displayed(ls[i])
      <3>1. ls[i] \in Shown
        BY <2>1, <1>1 DEF FileLine
      <3>2. ByTime(u, ls[i]) \in X
        <4> DEFINE r == ByTime(u, ls[i])
        <4>1. r = ByTime(u, ls[i])
          OBVIOUS
        <4> HIDE DEF r
        <4>2. PICK k \in 0..Len(u) : Put(u, ls[i], k, r)
          BY <3>1, <4>1, ByTimeIs
        <4> QED BY <4>2 DEF r, Put
      <3> QED BY <3>2, <2>1 DEF Enter
    <2>2. CASE ~ Displayed(ls[i])
      BY <2>2 DEF Enter
    <2> QED BY <2>1, <2>2
  <1>4. g \in [1..N -> [X -> X]] /\ none \in X
    BY <1>3
  <1>5. PICK h : Steps(h, X, none, N, g)
    <2> HIDE DEF g, X, N, none
    <2> QED BY <1>1, <1>4, FoldExists
  <1>6. Is(h)
    <2>1. ASSUME NEW i \in 1..N PROVE h[i] = Enter(h[i - 1], ls[i])
      <3>1. i - 1 \in 0..N
        BY <1>1
      <3>2. h[i - 1] \in X /\ h[i] = g[i][h[i - 1]]
        <4> HIDE DEF X, g, none
        <4> QED BY <3>1, <1>5 DEF Steps
      <3> QED BY <3>2
    <2>2. h = [i \in 0..N |-> h[i]] /\ h[0] = <<>>
      <3> HIDE DEF X, g
      <3> QED BY <1>5 DEF Steps
    <2> DEFINE E(i) == IF i = 0 THEN <<>> ELSE Enter(h[i - 1], ls[i])
    <2>3. ASSUME NEW i \in 0..N PROVE h[i] = E(i)
      <3>1. i = 0 \/ i \in 1..N
        BY <1>1
      <3>2. ASSUME i \in 1..N PROVE i # 0
        BY <3>2, <1>1
      <3> QED BY <3>1, <3>2, <2>1, <2>2
    <2> HIDE DEF E, N
    <2>4. [i \in 0..N |-> h[i]] = [i \in 0..N |-> E(i)]
      BY <2>3
    <2> QED BY <2>2, <2>4 DEF E
  <1>7. Is(so)
    <2> HIDE DEF Is
    <2> QED BY <1>6
  <1> HIDE DEF so, g, N
  <1> DEFINE Good(u, m) ==
               /\ u \in X /\ InOrder(u)
               /\ \A i \in 1..Len(u) : \E j \in 1..m : Displayed(ls[j]) /\ u[i] = ls[j]
               /\ \A j \in 1..m : Displayed(ls[j]) => \E i \in 1..Len(u) : u[i] = ls[j]
             S == {m \in Nat : m <= N => Good(so[m], m)}
  <1>8. 0 \in S
    <2>1. so[0] = <<>>
      BY <1>7, <1>1
    <2>2. Good(<<>>, 0)
      BY DEF InOrder
    <2> HIDE DEF Good
    <2> QED BY <2>1, <2>2
  <1>9. ASSUME NEW m \in Nat, m \in S PROVE m + 1 \in S
    <2> DEFINE u == so[m]
               l == ls[m + 1]
    <2> SUFFICES ASSUME m + 1 <= N PROVE Good(so[m + 1], m + 1)
      BY DEF S
    <2>1. m + 1 \in 1..N /\ (m + 1) - 1 = m /\ m <= N /\ m + 1 # 0 /\ m + 1 \in 0..N /\ \A j \in 1..m : j \in 1..N /\ j # m + 1
      BY <1>1
    <2>2. so[m + 1] = Enter(u, l)
      BY <1>7, <2>1
    <2>3. Good(u, m)
      BY <1>9, <2>1 DEF S
    <2> HIDE DEF u
    <2>4. \A j \in 1..(m + 1) : j = m + 1 \/ j \in 1..m
      OBVIOUS
    <2>5. \A j \in 1..m : j \in 1..(m + 1)
      OBVIOUS
    <2>6. m + 1 \in 1..(m + 1)
      OBVIOUS
    <2>7. CASE ~ Displayed(l)
      <3>1. Enter(u, l) = u
        BY <2>7 DEF Enter
      <3>2. Good(u, m + 1)
        BY <2>3, <2>4, <2>5, <2>7
      <3> QED BY <3>1, <3>2, <2>2
    <2>8. CASE Displayed(l)
      <3> DEFINE r == ByTime(u, l)
      <3>1. Enter(u, l) = r
        BY <2>8 DEF Enter
      <3>2. l \in Shown
        BY <2>8, <2>1, <1>1 DEF FileLine
      <3>3. \A i \in 1..Len(u) : u[i].ts # l.ts
        <4> SUFFICES ASSUME NEW i \in 1..Len(u), u[i].ts = l.ts PROVE FALSE
          OBVIOUS
        <4>1. PICK j \in 1..m : Displayed(ls[j]) /\ u[i] = ls[j]
          BY <2>3
        <4> QED BY <4>1, <2>1, <2>8, <1>1
      <3>4. Merged(u, l, r)
        <4>1. r = ByTime(u, l) /\ u \in Seq(Shown) /\ InOrder(u)
          BY <2>3
        <4> HIDE DEF r, l
        <4> QED BY <4>1, <3>2, <3>3, ByTimeInOrder
      <3> HIDE DEF r
      <3>5. ASSUME NEW i \in 1..Len(r) PROVE \E j \in 1..(m + 1) : Displayed(ls[j]) /\ r[i] = ls[j]
        BY <3>4, <2>3, <2>5, <2>6, <2>8 DEF Merged
      <3>6. ASSUME NEW j \in 1..(m + 1), Displayed(ls[j]) PROVE \E i \in 1..Len(r) : r[i] = ls[j]
        <4>1. CASE j = m + 1
          BY <4>1, <3>4 DEF Merged
        <4>2. CASE j \in 1..m
          <5>1. PICK i \in 1..Len(u) : u[i] = ls[j]
            BY <4>2, <3>6, <2>3
          <5> QED BY <5>1, <3>4 DEF Merged
        <4> QED BY <4>1, <4>2, <2>4
      <3>7. Good(r, m + 1)
        BY <3>4, <3>5, <3>6 DEF Merged
      <3> QED BY <3>1, <3>7, <2>2
    <2> QED BY <2>7, <2>8
  <1> HIDE DEF S
  <1>10. N \in S
    BY <1>1, <1>8, <1>9, Induction
  <1>11. Good(so[N], N)
    <2> HIDE DEF Good
    <2> QED BY <1>10, <1>1 DEF S
  <1> QED BY ZenonT(60), <1>11, <1>2 DEF N, Sorted

-----------------------------------------------------------------------------
(* What is held of a conversation                                            *)

There(m, W) == ToSet(m) \intersect W

HeardOf(W, all, m, lg) ==
  IF There(m, W) = {} THEN all ELSE Append(all, Turn(lg[Max(There(m, W))]))

\* Conversation, for any messages and lines.
Told(sd, lg, W) == Folded(LAMBDA all, m : HeardOf(W, all, m, lg), <<>>, sd)

\* Conversation is this of the messages and lines there are.
LEMMA ConversationIsTold == \A W : Conversation(W) = Told(said, log, W)
  BY DEF Conversation, Told, Hear, HeardOf, There

\* After a step too.
LEMMA ConversationIsToldNext == (\A W : Conversation(W) = Told(said, log, W))'
  BY ConversationIsTold, PTL

Hears(c, sd, lg, W) ==
  /\ c \in [0..Len(sd) -> Seq(TurnSet)] /\ c[0] = <<>>
  /\ \A i \in 1..Len(sd) : c[i] = HeardOf(W, c[i - 1], sd[i], lg)

\* Messages and a log that has their lines.
Recorded(sd, lg) == lg \in Seq(Shown) /\ sd \in Seq(Seq(1..Len(lg)))

\* The latest of a message's lines that are held.
LEMMA LatestIs ==
  ASSUME NEW n \in Nat, NEW m \in Seq(1..n), NEW W, There(m, W) # {}
  PROVE  /\ Max(There(m, W)) \in There(m, W) /\ Max(There(m, W)) \in 1..n
         /\ \A y \in There(m, W) : y <= Max(There(m, W))
  <1> DEFINE T == There(m, W)
  <1>1. T \subseteq 1..n
    BY DEF There, ToSet
  <1> HIDE DEF T
  <1>2. T \subseteq 0..n /\ T # {}
    BY <1>1 DEF T
  <1>3. PICK x \in T : \A y \in T : y <= x
    BY <1>2, Greatest
  <1>4. x \in T /\ \A y \in T : x >= y
    BY <1>3, <1>1
  <1>5. Max(T) \in T /\ \A y \in T : Max(T) >= y
    BY <1>4 DEF Max
  <1>6. Max(T) \in T /\ Max(T) \in 1..n /\ \A y \in T : y <= Max(T)
    BY <1>5, <1>1
  <1> QED BY <1>6 DEF T

\* A message adds at most a turn.
LEMMA HeardOfType ==
  ASSUME NEW lg \in Seq(Shown), NEW m \in Seq(1..Len(lg)), NEW W, NEW all \in Seq(TurnSet)
  PROVE  HeardOf(W, all, m, lg) \in Seq(TurnSet)
  <1>1. CASE There(m, W) = {}
    BY <1>1 DEF HeardOf
  <1>2. CASE There(m, W) # {}
    <2> DEFINE e == Max(There(m, W))
    <2>1. e \in 1..Len(lg)
      BY <1>2, LatestIs
    <2> HIDE DEF e
    <2>2. Turn(lg[e]) \in TurnSet
      <3>1. lg[e] \in Shown
        BY <2>1
      <3> QED BY <3>1, TurnIs
    <2>3. HeardOf(W, all, m, lg) = Append(all, Turn(lg[e]))
      BY <1>2 DEF HeardOf, e
    <2> QED BY <2>2, <2>3, AppendProperties
  <1> QED BY <1>1, <1>2

\* The turns after each message.
LEMMA HearsExists ==
  ASSUME NEW lg, NEW sd, Recorded(sd, lg), NEW W
  PROVE  \E c : Hears(c, sd, lg, W)
  <1> DEFINE N == Len(sd)
             X == Seq(TurnSet)
             none == <<>>
             g == [i \in 1..N |-> [u \in X |-> HeardOf(W, u, sd[i], lg)]]
  <1>1. N \in Nat /\ lg \in Seq(Shown) /\ \A i \in 1..N : sd[i] \in Seq(1..Len(lg))
    BY DEF Recorded
  <1>2. ASSUME NEW i \in 1..N, NEW u \in X PROVE HeardOf(W, u, sd[i], lg) \in X
    <2>1. sd[i] \in Seq(1..Len(lg))
      BY <1>1
    <2> QED BY <2>1, <1>1, HeardOfType
  <1>3. g \in [1..N -> [X -> X]] /\ none \in X
    BY <1>2
  <1>4. PICK c : Steps(c, X, none, N, g)
    <2> HIDE DEF g, X, N, none
    <2> QED BY <1>1, <1>3, FoldExists
  <1>5. c \in [0..N -> X] /\ c[0] = <<>>
    <2> HIDE DEF X, g
    <2> QED BY <1>4 DEF Steps
  <1>6. ASSUME NEW i \in 1..N PROVE c[i] = HeardOf(W, c[i - 1], sd[i], lg)
    <2>1. i - 1 \in 0..N
      BY <1>1
    <2>2. c[i - 1] \in X /\ c[i] = g[i][c[i - 1]]
      <3> HIDE DEF X, g, none
      <3> QED BY <2>1, <1>4 DEF Steps
    <2> QED BY <2>2
  <1> QED BY <1>5, <1>6 DEF Hears

\* What is told is those after the last.
LEMMA ToldIs ==
  ASSUME NEW lg, NEW sd, Recorded(sd, lg), NEW W, NEW c, Hears(c, sd, lg, W)
  PROVE  Told(sd, lg, W) = c[Len(sd)]
  <1> DEFINE N == Len(sd)
             Is(f) == f = [i \in 0..N |-> IF i = 0 THEN <<>> ELSE HeardOf(W, f[i - 1], sd[i], lg)]
             so == CHOOSE f : Is(f)
  <1>1. N \in Nat
    BY DEF Recorded
  <1>2. Told(sd, lg, W) = so[N]
    BY DEF Told, Folded
  <1>3. c = [i \in 0..N |-> c[i]] /\ c[0] = <<>> /\ \A i \in 1..N : c[i] = HeardOf(W, c[i - 1], sd[i], lg)
    BY DEF Hears
  <1>4. Is(c)
    <2> DEFINE E(i) == IF i = 0 THEN <<>> ELSE HeardOf(W, c[i - 1], sd[i], lg)
    <2>1. ASSUME NEW i \in 0..N PROVE c[i] = E(i)
      <3>1. i = 0 \/ i \in 1..N
        BY <1>1
      <3>2. ASSUME i \in 1..N PROVE i # 0
        BY <3>2, <1>1
      <3> QED BY <3>1, <3>2, <1>3
    <2> HIDE DEF E, N
    <2>2. [i \in 0..N |-> c[i]] = [i \in 0..N |-> E(i)]
      BY <2>1
    <2> QED BY <2>2, <1>3 DEF E
  <1>5. Is(so)
    <2> HIDE DEF Is
    <2> QED BY <1>4
  <1> HIDE DEF so, N
  <1> DEFINE S == {i \in Nat : i <= N => so[i] = c[i]}
  <1>6. 0 \in S
    BY <1>5, <1>3, <1>1
  <1>7. ASSUME NEW i \in Nat, i \in S PROVE i + 1 \in S
    <2> SUFFICES ASSUME i + 1 <= N PROVE so[i + 1] = c[i + 1]
      OBVIOUS
    <2>1. i + 1 \in 1..N /\ (i + 1) - 1 = i /\ i + 1 # 0 /\ i + 1 \in 0..N
      BY <1>1
    <2>2. so[i + 1] = HeardOf(W, so[i], sd[i + 1], lg)
      BY <1>5, <2>1
    <2>3. c[i + 1] = HeardOf(W, c[i], sd[i + 1], lg)
      BY <1>3, <2>1
    <2>4. so[i] = c[i]
      BY <1>7, <1>1
    <2> QED BY <2>2, <2>3, <2>4
  <1> HIDE DEF S
  <1>8. N \in S
    BY <1>1, <1>6, <1>7, Induction
  <1>9. so[N] = c[N]
    BY <1>8, <1>1 DEF S
  <1> QED BY <1>9, <1>2 DEF N

\* What is told are turns.
LEMMA ToldType ==
  ASSUME NEW lg, NEW sd, Recorded(sd, lg), NEW W
  PROVE  Told(sd, lg, W) \in Seq(TurnSet)
  <1>1. PICK c : Hears(c, sd, lg, W)
    BY HearsExists
  <1>2. Told(sd, lg, W) = c[Len(sd)]
    BY <1>1, ToldIs
  <1>3. Len(sd) \in 0..Len(sd)
    BY DEF Recorded
  <1> QED BY <1>1, <1>2, <1>3 DEF Hears

SameHeld(sd, lg, W, sd2, lg2, W2) ==
  /\ Len(sd) = Len(sd2)
  /\ \A i \in 1..Len(sd) :
       There(sd[i], W) = There(sd2[i], W2) /\ \A e \in There(sd[i], W) : lg[e] = lg2[e]

\* Messages, lines and a choice of them that agree on what is chosen tell the same.
LEMMA ToldSame ==
  ASSUME NEW lg, NEW sd, Recorded(sd, lg), NEW W,
         NEW lg2, NEW sd2, Recorded(sd2, lg2), NEW W2,
         SameHeld(sd, lg, W, sd2, lg2, W2)
  PROVE  Told(sd, lg, W) = Told(sd2, lg2, W2)
  <1> DEFINE N == Len(sd)
  <1>1. PICK c : Hears(c, sd, lg, W)
    BY HearsExists
  <1>2. PICK d : Hears(d, sd2, lg2, W2)
    BY HearsExists
  <1>3. Told(sd, lg, W) = c[N] /\ Told(sd2, lg2, W2) = d[N]
    <2>1. Told(sd, lg, W) = c[N]
      BY <1>1, ToldIs
    <2>2. Told(sd2, lg2, W2) = d[Len(sd2)]
      BY <1>2, ToldIs
    <2> QED BY <2>1, <2>2 DEF SameHeld
  <1>4. N \in Nat /\ Len(lg) \in Nat /\ \A i \in 1..N : sd[i] \in Seq(1..Len(lg))
    BY DEF Recorded
  <1>5. c[0] = <<>> /\ \A i \in 1..N : c[i] = HeardOf(W, c[i - 1], sd[i], lg)
    BY <1>1 DEF Hears
  <1>6. d[0] = <<>> /\ \A i \in 1..N : d[i] = HeardOf(W2, d[i - 1], sd2[i], lg2)
    BY <1>2 DEF Hears, SameHeld
  <1> HIDE DEF N
  <1>7. ASSUME NEW i \in 1..N, NEW u PROVE HeardOf(W, u, sd[i], lg) = HeardOf(W2, u, sd2[i], lg2)
    <2>1. There(sd[i], W) = There(sd2[i], W2) /\ \A e \in There(sd[i], W) : lg[e] = lg2[e]
      BY DEF N, SameHeld
    <2>2. CASE There(sd[i], W) = {}
      BY <2>1, <2>2 DEF HeardOf
    <2>3. CASE There(sd[i], W) # {}
      <3>1. Max(There(sd[i], W)) \in There(sd[i], W)
        BY <2>3, <1>4, LatestIs
      <3> QED BY <3>1, <2>1, <2>3 DEF HeardOf
    <2> QED BY <2>2, <2>3
  <1> DEFINE S == {i \in Nat : i <= N => c[i] = d[i]}
  <1>8. 0 \in S
    BY <1>5, <1>6
  <1>9. ASSUME NEW i \in Nat, i \in S PROVE i + 1 \in S
    <2> SUFFICES ASSUME i + 1 <= N PROVE c[i + 1] = d[i + 1]
      OBVIOUS
    <2>1. i + 1 \in 1..N /\ (i + 1) - 1 = i /\ i <= N
      BY <1>4
    <2>2. c[i] = d[i]
      BY <1>9, <2>1
    <2>3. c[i + 1] = HeardOf(W, c[i], sd[i + 1], lg) /\ d[i + 1] = HeardOf(W2, d[i], sd2[i + 1], lg2)
      BY <1>5, <1>6, <2>1
    <2> QED BY <2>1, <2>2, <2>3, <1>7
  <1> HIDE DEF S
  <1>10. N \in S
    BY <1>4, <1>8, <1>9, Induction
  <1>11. c[N] = d[N]
    BY <1>10, <1>4 DEF S
  <1> QED BY <1>11, <1>3

\* A further message.
LEMMA ToldAppend ==
  ASSUME NEW lg, NEW sd, Recorded(sd, lg), NEW W, NEW m \in Seq(1..Len(lg))
  PROVE  /\ Recorded(Append(sd, m), lg)
         /\ Told(Append(sd, m), lg, W) = HeardOf(W, Told(sd, lg, W), m, lg)
  <1> DEFINE N == Len(sd)
             s == Append(sd, m)
             T == HeardOf(W, Told(sd, lg, W), m, lg)
  <1>1. PICK c : Hears(c, sd, lg, W)
    BY HearsExists
  <1>2. Told(sd, lg, W) = c[N]
    BY <1>1, ToldIs
  <1>3. N \in Nat /\ lg \in Seq(Shown) /\ sd \in Seq(Seq(1..Len(lg)))
    BY DEF Recorded
  <1>4. /\ s \in Seq(Seq(1..Len(lg))) /\ Len(s) = N + 1 /\ s[N + 1] = m
        /\ \A i \in 1..N : s[i] = sd[i]
    BY <1>3, AppendProperties
  <1>5. Recorded(s, lg)
    BY <1>3, <1>4 DEF Recorded
  <1>6. T \in Seq(TurnSet)
    BY <1>3, ToldType, HeardOfType
  <1> HIDE DEF s, T
  <1> DEFINE d == [i \in 0..(N + 1) |-> IF i <= N THEN c[i] ELSE T]
  <1>7. c \in [0..N -> Seq(TurnSet)] /\ c[0] = <<>>
        /\ \A i \in 1..N : c[i] = HeardOf(W, c[i - 1], sd[i], lg)
    BY <1>1 DEF Hears
  <1> HIDE DEF N
  <1>8. d \in [0..(N + 1) -> Seq(TurnSet)] /\ d[0] = <<>> /\ d[N + 1] = T
    <2>1. ASSUME NEW i \in 0..(N + 1) PROVE (IF i <= N THEN c[i] ELSE T) \in Seq(TurnSet)
      <3>1. i <= N => i \in 0..N
        BY <1>3
      <3> DEFINE Q == Seq(TurnSet)
      <3>2. T \in Q /\ c \in [0..N -> Q]
        BY <1>6, <1>7
      <3> HIDE DEF Q
      <3>3. (IF i <= N THEN c[i] ELSE T) \in Q
        BY <3>1, <3>2
      <3> QED BY <3>3 DEF Q
    <2> DEFINE Q == Seq(TurnSet)
    <2>2. \A i \in 0..(N + 1) : (IF i <= N THEN c[i] ELSE T) \in Q
      BY <2>1
    <2> HIDE DEF Q
    <2>3. d \in [0..(N + 1) -> Q]
      BY <2>2
    <2>4. d[0] = c[0] /\ d[N + 1] = T
      BY <1>3
    <2> QED BY <2>3, <2>4, <1>7 DEF Q
  <1>9. ASSUME NEW i \in 1..(N + 1) PROVE d[i] = HeardOf(W, d[i - 1], s[i], lg)
    <2>1. CASE i <= N
      <3>1. i \in 1..N /\ i \in 0..(N + 1) /\ i - 1 \in 0..(N + 1) /\ i - 1 <= N
        BY <2>1, <1>3
      <3>2. d[i] = c[i] /\ d[i - 1] = c[i - 1]
        BY <3>1, <2>1
      <3> QED BY <3>1, <3>2, <1>4, <1>7 DEF N
    <2>2. CASE i = N + 1
      <3>1. i - 1 = N /\ N \in 0..(N + 1) /\ N <= N
        BY <2>2, <1>3
      <3>2. d[i - 1] = c[N]
        BY <3>1
      <3> QED BY <3>2, <2>2, <1>4, <1>8, <1>2 DEF T, N
    <2> QED BY <2>1, <2>2, <1>3
  <1> HIDE DEF d
  <1>10. Hears(d, s, lg, W)
    BY <1>4, <1>8, <1>9 DEF Hears, N
  <1>11. Told(s, lg, W) = d[N + 1]
    BY <1>10, <1>5, <1>4, ToldIs DEF N
  <1> QED BY <1>5, <1>8, <1>11 DEF s, T

SomeHeld(sd, W) == \A i \in 1..Len(sd) : There(sd[i], W) # {}

AllTold(all, sd, lg, W) ==
  Len(all) = Len(sd) /\ \A i \in 1..Len(sd) : all[i] = Turn(lg[Max(There(sd[i], W))])

\* When something of every message is held.
LEMMA ToldWhole ==
  ASSUME NEW lg, NEW sd, Recorded(sd, lg), NEW W, SomeHeld(sd, W)
  PROVE  AllTold(Told(sd, lg, W), sd, lg, W)
  <1> DEFINE N == Len(sd)
             t(i) == Turn(lg[Max(There(sd[i], W))])
             X == Seq(TurnSet)
  <1>1. PICK c : Hears(c, sd, lg, W)
    BY HearsExists
  <1>2. Told(sd, lg, W) = c[N]
    BY <1>1, ToldIs
  <1>3. N \in Nat /\ \A i \in 1..N : There(sd[i], W) # {}
    BY DEF Recorded, SomeHeld
  <1>4. c \in [0..N -> X] /\ c[0] = <<>> /\ \A i \in 1..N : c[i] = Append(c[i - 1], t(i))
    BY <1>1, <1>3 DEF Hears, HeardOf
  <1> HIDE DEF N, t
  <1> DEFINE Good(u, i) == Len(u) = i /\ \A j \in 1..i : u[j] = t(j)
             S == {i \in Nat : i <= N => Good(c[i], i)}
  <1>5. 0 \in S
    <2>1. Good(<<>>, 0)
      OBVIOUS
    <2> HIDE DEF Good
    <2> QED BY <2>1, <1>4
  <1>6. ASSUME NEW i \in Nat, i \in S PROVE i + 1 \in S
    <2> DEFINE u == c[i]
    <2> SUFFICES ASSUME i + 1 <= N PROVE Good(c[i + 1], i + 1)
      BY DEF S
    <2>1. i + 1 \in 1..N /\ (i + 1) - 1 = i /\ i <= N /\ i \in 0..N
      BY <1>3
    <2>2. c[i + 1] = Append(u, t(i + 1))
      BY <1>4, <2>1
    <2>3. Good(u, i) /\ u \in X
      <3> HIDE DEF Good, X
      <3> QED BY <1>4, <1>6, <2>1 DEF S
    <2> HIDE DEF u
    <2>4. Good(Append(u, t(i + 1)), i + 1)
      <3> DEFINE x == t(i + 1)  v == Append(u, x)
      <3> HIDE DEF x
      <3>1. Len(v) = i + 1 /\ v[i + 1] = x /\ \A j \in 1..i : v[j] = u[j]
        BY <2>3
      <3> HIDE DEF v
      <3>2. ASSUME NEW j \in 1..(i + 1) PROVE v[j] = t(j)
        <4>1. j \in 1..i \/ j = i + 1
          OBVIOUS
        <4> QED BY <4>1, <3>1, <2>3 DEF x
      <3> QED BY <3>1, <3>2 DEF v, x
    <2> QED BY <2>2, <2>4
  <1> HIDE DEF S
  <1>7. N \in S
    BY <1>3, <1>5, <1>6, Induction
  <1>8. Good(c[N], N)
    <2> HIDE DEF Good
    <2> QED BY <1>7, <1>3 DEF S
  <1> QED BY <1>8, <1>2 DEF N, t, AllTold

\* Every turn stands for a line that is held.
LEMMA ToldHeld ==
  ASSUME NEW lg, NEW sd, Recorded(sd, lg), NEW W
  PROVE  \A k \in 1..Len(Told(sd, lg, W)) :
           \E e \in W : e \in 1..Len(lg) /\ Told(sd, lg, W)[k] = Turn(lg[e])
  <1> DEFINE N == Len(sd)
             X == Seq(TurnSet)
             Of(x) == \E e \in W : e \in 1..Len(lg) /\ x = Turn(lg[e])
             Good(u) == \A k \in 1..Len(u) : Of(u[k])
  <1>1. PICK c : Hears(c, sd, lg, W)
    BY HearsExists
  <1>2. Told(sd, lg, W) = c[N]
    BY <1>1, ToldIs
  <1>3. N \in Nat /\ Len(lg) \in Nat /\ \A i \in 1..N : sd[i] \in Seq(1..Len(lg))
    BY DEF Recorded
  <1>4. c \in [0..N -> X] /\ c[0] = <<>> /\ \A i \in 1..N : c[i] = HeardOf(W, c[i - 1], sd[i], lg)
    BY <1>1 DEF Hears
  <1> HIDE DEF N
  <1> DEFINE S == {i \in Nat : i <= N => Good(c[i])}
  <1>5. 0 \in S
    <2>1. Good(<<>>)
      OBVIOUS
    <2> HIDE DEF Good
    <2> QED BY <2>1, <1>4
  <1>6. ASSUME NEW i \in Nat, i \in S PROVE i + 1 \in S
    <2> DEFINE u == c[i]
               m == sd[i + 1]
    <2> SUFFICES ASSUME i + 1 <= N PROVE Good(c[i + 1])
      BY DEF S
    <2>1. i + 1 \in 1..N /\ (i + 1) - 1 = i /\ i <= N /\ i \in 0..N
      BY <1>3
    <2>2. c[i + 1] = HeardOf(W, u, m, lg) /\ m \in Seq(1..Len(lg))
      BY <1>4, <1>3, <2>1
    <2>3. Good(u) /\ u \in X
      <3> HIDE DEF Good, X
      <3> QED BY <1>4, <1>6, <2>1 DEF S
    <2> HIDE DEF u, m
    <2>4. CASE There(m, W) = {}
      <3>1. c[i + 1] = u
        BY <2>2, <2>4 DEF HeardOf
      <3> HIDE DEF Good
      <3> QED BY <3>1, <2>3
    <2>5. CASE There(m, W) # {}
      <3> DEFINE e == Max(There(m, W))
                 x == Turn(lg[e])
                 v == Append(u, x)
      <3>1. e \in W /\ e \in 1..Len(lg)
        <4>1. e \in There(m, W) /\ e \in 1..Len(lg)
          BY <2>2, <2>5, <1>3, LatestIs
        <4> HIDE DEF e
        <4> QED BY <4>1 DEF There
      <3>2. Of(x)
        BY <3>1
      <3>3. c[i + 1] = v
        BY <2>2, <2>5 DEF HeardOf
      <3> HIDE DEF x, Of
      <3>4. Len(u) \in Nat /\ Len(v) = Len(u) + 1 /\ v[Len(u) + 1] = x /\ \A j \in 1..Len(u) : v[j] = u[j]
        BY <2>3
      <3> HIDE DEF v
      <3>5. ASSUME NEW k \in 1..Len(v) PROVE Of(v[k])
        <4>1. k \in 1..Len(u) \/ k = Len(u) + 1
          BY <3>4
        <4> QED BY <4>1, <3>4, <3>2, <2>3
      <3> QED BY <3>3, <3>5
    <2> QED BY <2>4, <2>5
  <1> HIDE DEF S
  <1>7. N \in S
    BY <1>3, <1>5, <1>6, Induction
  <1>8. Good(c[N])
    <2> HIDE DEF Good
    <2> QED BY <1>7, <1>3 DEF S
  <1> QED BY <1>8, <1>2 DEF N

-----------------------------------------------------------------------------
(* A further line                                                            *)

Through(f, h, W, V, lg, l) ==
  /\ Reads(f, W, lg) /\ f[Len(lg)] \in Dedup
  /\ h[Len(lg) + 1] = IF Len(lg) + 1 \in V THEN add(f[Len(lg)], l) ELSE f[Len(lg)]

\* A reading of one more line goes through a reading of those before.
LEMMA ReadsPrefix ==
  ASSUME NEW lg \in Seq(Shown), NEW l \in Shown, NEW W, NEW V,
         \A n \in 1..Len(lg) : n \in W <=> n \in V,
         NEW h, Reads(h, V, Append(lg, l))
  PROVE  \E f : Through(f, h, W, V, lg, l)
  <1> DEFINE N == Len(lg)
             lg2 == Append(lg, l)
             f == [n \in 0..N |-> h[n]]
  <1>1. N \in Nat /\ Len(lg2) = N + 1 /\ lg2[N + 1] = l /\ \A n \in 1..N : lg2[n] = lg[n]
    OBVIOUS
  <1>2. h \in [0..(N + 1) -> Dedup] /\ h[0] = NoTurns
        /\ \A n \in 1..(N + 1) : h[n] = IF n \in V THEN add(h[n - 1], lg2[n]) ELSE h[n - 1]
    BY <1>1 DEF Reads
  <1> HIDE DEF lg2
  <1>3. \A n \in 1..N : n \in W <=> n \in V
    OBVIOUS
  <1>10. N = Len(lg)
    OBVIOUS
  <1> HIDE DEF N
  <1>4. f \in [0..N -> Dedup] /\ f[0] = NoTurns /\ f[N] = h[N]
    BY <1>1, <1>2
  <1>5. ASSUME NEW n \in 1..N PROVE f[n] = IF n \in W THEN add(f[n - 1], lg[n]) ELSE f[n - 1]
    <2>1. n \in 0..N /\ n - 1 \in 0..N /\ n \in 1..(N + 1)
      BY <1>1
    <2>2. f[n] = h[n] /\ f[n - 1] = h[n - 1]
      BY <2>1
    <2> QED BY <2>1, <2>2, <1>1, <1>2, <1>3
  <1>6. h[N + 1] = IF N + 1 \in V THEN add(f[N], l) ELSE f[N]
    <2>1. N + 1 \in 1..(N + 1) /\ (N + 1) - 1 = N
      BY <1>1
    <2> QED BY <2>1, <1>1, <1>2, <1>4
  <1>7. f[N] \in Dedup
    BY <1>1, <1>4
  <1> HIDE DEF f
  <1>8. Reads(f, W, lg)
    BY <1>4, <1>5, <1>10 DEF Reads
  <1> QED BY <1>6, <1>7, <1>8, <1>10 DEF Through

\* The lines before b, and the enqueues.
Kept(b, lg) == (1..(b - 1)) \union {n \in 1..Len(lg) : lg[n].kind = "enqueue"}

\* What chatDedup makes of those is what they hold of the conversation.
Agree(sd, lg, b) ==
  \A h : Reads(h, Kept(b, lg), lg) => Flat(h[Len(lg)]) = Told(sd, lg, Kept(b, lg))

\* A further line is kept if it is an enqueue.
LEMMA KeptIs ==
  ASSUME NEW lg \in Seq(Shown), NEW l \in Shown, NEW b \in 1..(Len(lg) + 1)
  PROVE  /\ Kept(b, lg) \subseteq 1..Len(lg)
         /\ l.kind = "enqueue" => Kept(b, Append(lg, l)) = Kept(b, lg) \union {Len(lg) + 1}
         /\ l.kind # "enqueue" => Kept(b, Append(lg, l)) = Kept(b, lg)
  <1> DEFINE N == Len(lg)
             lg2 == Append(lg, l)
  <1>1. N \in Nat /\ Len(lg2) = N + 1 /\ lg2[N + 1] = l /\ \A n \in 1..N : lg2[n] = lg[n]
    OBVIOUS
  <1>2. b \in 1..(N + 1)
    OBVIOUS
  <1> HIDE DEF lg2
  <1>3. Kept(b, lg) = (1..(b - 1)) \union {n \in 1..N : lg[n].kind = "enqueue"}
    BY DEF Kept
  <1>4. Kept(b, lg2) = (1..(b - 1)) \union {n \in 1..(N + 1) : lg2[n].kind = "enqueue"}
    BY <1>1 DEF Kept
  <1> HIDE DEF N
  <1>5. 1..(N + 1) = (1..N) \union {N + 1}
    BY <1>1
  <1>6. {n \in 1..(N + 1) : lg2[n].kind = "enqueue"} =
          {n \in 1..N : lg[n].kind = "enqueue"} \union {n \in {N + 1} : l.kind = "enqueue"}
    BY <1>1, <1>5
  <1>7. 1..(b - 1) \subseteq 1..N
    BY <1>1, <1>2
  <1> QED BY <1>3, <1>4, <1>6, <1>7 DEF N, lg2

\* Before the next line are all.
LEMMA KeptAll ==
  ASSUME NEW lg \in Seq(Shown)
  PROVE  Kept(Len(lg) + 1, lg) = 1..Len(lg)
  BY DEF Kept

\* The turns told before it stay, and the enqueue is told last.
LEMMA AgreeEnqueue ==
  ASSUME NEW lg \in Seq(Shown), NEW l \in Shown, l.kind = "enqueue", NEW sd, NEW sd2,
         \A b \in 1..(Len(lg) + 1) : Agree(sd, lg, b),
         \A W \in SUBSET (1..Len(lg)) :
           Told(sd2, Append(lg, l), W \union {Len(lg) + 1}) = Append(Told(sd, lg, W), Turn(l))
  PROVE  \A b \in 1..(Len(Append(lg, l)) + 1) : Agree(sd2, Append(lg, l), b)
  <1> DEFINE N == Len(lg)
             lg2 == Append(lg, l)
  <1>1. N \in Nat /\ Len(lg2) = N + 1 /\ lg2 \in Seq(Shown) /\ lg2[N + 1] = l
    OBVIOUS
  <1>2. ASSUME NEW b \in 1..(N + 1) PROVE Agree(sd2, lg2, b)
    <2> DEFINE W == Kept(b, lg)
               V == Kept(b, lg2)
    <2> SUFFICES ASSUME NEW h, Reads(h, V, lg2) PROVE Flat(h[N + 1]) = Told(sd2, lg2, V)
      BY <1>1 DEF Agree
    <2>1. V = W \union {N + 1} /\ W \subseteq 1..N
      BY KeptIs
    <2> HIDE DEF W, V
    <2>2. \A n \in 1..N : n \in W <=> n \in V
      BY <2>1, <1>1
    <2>8. PICK f : Through(f, h, W, V, lg, l)
      BY <2>2, ReadsPrefix
    <2>3. Reads(f, W, lg) /\ f[N] \in Dedup /\ h[N + 1] = IF N + 1 \in V THEN add(f[N], l) ELSE f[N]
      BY <2>8 DEF Through
    <2>4. h[N + 1] = add(f[N], l)
      BY <2>1, <2>3
    <2>5. Flat(h[N + 1]) = Append(Flat(f[N]), Turn(l))
      BY <2>3, <2>4, AddEnqueue
    <2>6. Flat(f[N]) = Told(sd, lg, W)
      BY <2>3 DEF Agree, W
    <2>7. Told(sd2, lg2, V) = Append(Told(sd, lg, W), Turn(l))
      BY <2>1
    <2> QED BY <2>5, <2>6, <2>7
  <1>3. Kept(N + 2, lg2) = Kept(N + 1, lg2)
    <2>1. Kept(N + 2, lg2) = 1..(N + 1)
      <3>1. Kept(Len(lg2) + 1, lg2) = 1..Len(lg2) /\ Len(lg2) = N + 1 /\ N \in Nat
        BY <1>1, KeptAll
      <3>2. Len(lg2) + 1 = N + 2
        BY <3>1
      <3> HIDE DEF lg2, N
      <3> QED BY <3>1, <3>2
    <2>2. Kept(N + 1, lg2) = Kept(N + 1, lg) \union {N + 1}
      BY <1>1, KeptIs
    <2>3. Kept(N + 1, lg) = 1..N
      BY KeptAll
    <2>4. 1..(N + 1) = (1..N) \union {N + 1}
      <3> HIDE DEF N
      <3> QED BY <1>1
    <2> HIDE DEF N, lg2
    <2> QED BY <2>1, <2>2, <2>3, <2>4
  <1>4. Agree(sd2, lg2, N + 2)
    <2>1. Agree(sd2, lg2, N + 1)
      BY <1>1, <1>2
    <2> QED BY <2>1, <1>3 DEF Agree
  <1> HIDE DEF lg2
  <1>5. \A b \in 1..(Len(lg2) + 1) : b \in 1..(N + 1) \/ b = N + 2
    BY <1>1
  <1> QED BY <1>2, <1>4, <1>5 DEF lg2

\* Of any other line, only who has them all has to tell it.
LEMMA AgreeOther ==
  ASSUME NEW lg \in Seq(Shown), NEW l \in Shown, l.kind # "enqueue", NEW sd, NEW sd2,
         \A b \in 1..(Len(lg) + 1) : Agree(sd, lg, b),
         \A W \in SUBSET (1..Len(lg)) : Told(sd2, Append(lg, l), W) = Told(sd, lg, W),
         \A h : Reads(h, 1..Len(lg), lg) =>
           Flat(add(h[Len(lg)], l)) = Told(sd2, Append(lg, l), 1..(Len(lg) + 1))
  PROVE  \A b \in 1..(Len(Append(lg, l)) + 1) : Agree(sd2, Append(lg, l), b)
  <1> DEFINE N == Len(lg)
             lg2 == Append(lg, l)
  <1>1. N \in Nat /\ Len(lg2) = N + 1 /\ lg2 \in Seq(Shown) /\ lg2[N + 1] = l
    OBVIOUS
  <1>2. ASSUME NEW b \in 1..(N + 1) PROVE Agree(sd2, lg2, b)
    <2> DEFINE W == Kept(b, lg)
    <2>0. Kept(b, lg2) = W /\ W \subseteq 1..N
      BY KeptIs
    <2> SUFFICES ASSUME NEW h, Reads(h, W, lg2) PROVE Flat(h[N + 1]) = Told(sd2, lg2, W)
      BY <1>1, <2>0 DEF Agree
    <2> HIDE DEF W
    <2>1. N + 1 \notin W
      BY <2>0, <1>1
    <2>8. PICK f : Through(f, h, W, W, lg, l)
      BY ReadsPrefix
    <2>3. Reads(f, W, lg) /\ f[N] \in Dedup /\ h[N + 1] = IF N + 1 \in W THEN add(f[N], l) ELSE f[N]
      BY <2>8 DEF Through
    <2>6. Flat(f[N]) = Told(sd, lg, W)
      BY <2>3 DEF Agree, W
    <2>7. Told(sd2, lg2, W) = Told(sd, lg, W)
      BY <2>0
    <2> QED BY <2>1, <2>3, <2>6, <2>7
  <1>4. Agree(sd2, lg2, N + 2)
    <2> DEFINE V == 1..(N + 1)
               W == 1..N
    <2>1. Kept(N + 2, lg2) = V
      <3>1. Kept(Len(lg2) + 1, lg2) = 1..Len(lg2) /\ Len(lg2) = N + 1 /\ N \in Nat
        BY <1>1, KeptAll
      <3>2. Len(lg2) + 1 = N + 2
        BY <3>1
      <3> HIDE DEF lg2, N
      <3> QED BY <3>1, <3>2
    <2> SUFFICES ASSUME NEW h, Reads(h, V, lg2) PROVE Flat(h[N + 1]) = Told(sd2, lg2, V)
      BY <1>1, <2>1 DEF Agree
    <2>2. (\A n \in 1..N : n \in W <=> n \in V) /\ N + 1 \in V
      BY <1>1
    <2>8. PICK f : Through(f, h, W, V, lg, l)
      <3> HIDE DEF V, W
      <3> QED BY <2>2, ReadsPrefix
    <2>3. Reads(f, W, lg) /\ f[N] \in Dedup /\ h[N + 1] = IF N + 1 \in V THEN add(f[N], l) ELSE f[N]
      BY <2>8 DEF Through
    <2>4. h[N + 1] = add(f[N], l)
      BY <2>2, <2>3
    <2> QED BY <2>3, <2>4
  <1> HIDE DEF lg2
  <1>5. \A b \in 1..(Len(lg2) + 1) : b \in 1..(N + 1) \/ b = N + 2
    BY <1>1
  <1> QED BY <1>2, <1>4, <1>5 DEF lg2

\* A message's lines are a set of them, the first among these.
LEMMA ToSetIs ==
  ASSUME NEW n \in Nat, NEW m \in Seq(1..n)
  PROVE  /\ ToSet(m) \subseteq 1..n
         /\ \A x : x \in ToSet(m) <=> \E i \in 1..Len(m) : m[i] = x
         /\ Len(m) > 0 => m[1] \in ToSet(m)
  BY DEF ToSet

\* A line that belongs to no message tells nothing.
LEMMA ToldLine ==
  ASSUME NEW lg, NEW sd, Recorded(sd, lg), NEW l \in Shown
  PROVE  /\ Recorded(sd, Append(lg, l))
         /\ \A W \in SUBSET (1..Len(lg)) :
              /\ Told(sd, Append(lg, l), W) = Told(sd, lg, W)
              /\ Told(sd, Append(lg, l), W \union {Len(lg) + 1}) = Told(sd, lg, W)
  <1> DEFINE N == Len(lg)
             lg2 == Append(lg, l)
  <1>1. lg \in Seq(Shown) /\ sd \in Seq(Seq(1..N)) /\ N \in Nat
    BY DEF Recorded
  <1>2. lg2 \in Seq(Shown) /\ Len(lg2) = N + 1 /\ \A n \in 1..N : lg2[n] = lg[n]
    BY <1>1
  <1> HIDE DEF lg2
  <1>3. Recorded(sd, lg2)
    <2>1. 1..N \subseteq 1..(N + 1)
      BY <1>1
    <2> HIDE DEF N
    <2>2. Seq(1..N) \subseteq Seq(1..(N + 1))
      BY <2>1, SeqMonotonic
    <2>3. sd \in Seq(Seq(1..(N + 1)))
      BY <2>2, <1>1, SeqMonotonic
    <2> QED BY <2>3, <1>2 DEF Recorded
  <1>4. ASSUME NEW i \in 1..Len(sd), NEW W \in SUBSET (1..N)
        PROVE  /\ There(sd[i], W) = There(sd[i], W \union {N + 1})
               /\ \A e \in There(sd[i], W) : lg2[e] = lg[e]
    <2>1. sd[i] \in Seq(1..N)
      BY <1>1
    <2> DEFINE A == ToSet(sd[i])
    <2>2. There(sd[i], W) = A \intersect W /\ There(sd[i], W \union {N + 1}) = A \intersect (W \union {N + 1})
      BY DEF There
    <2>3. A \subseteq 1..N
      BY <2>1, <1>1, ToSetIs
    <2>4. N + 1 \notin 1..N
      BY <1>1
    <2> HIDE DEF N, A
    <2>5. A \intersect (W \union {N + 1}) = A \intersect W
      BY <2>3, <2>4
    <2> QED BY <2>2, <2>3, <2>5, <1>2
  <1>5. ASSUME NEW W \in SUBSET (1..N)
        PROVE  Told(sd, lg2, W) = Told(sd, lg, W) /\ Told(sd, lg2, W \union {N + 1}) = Told(sd, lg, W)
    <2>1. Told(sd, lg, W) = Told(sd, lg2, W)
      <3>1. \A i \in 1..Len(sd) : There(sd[i], W) = There(sd[i], W) /\ \A e \in There(sd[i], W) : lg[e] = lg2[e]
        BY <1>4
      <3> QED BY <3>1, <1>3, ToldSame DEF SameHeld
    <2>2. Told(sd, lg, W) = Told(sd, lg2, W \union {N + 1})
      <3> DEFINE V == W \union {N + 1}
      <3>1. \A i \in 1..Len(sd) : There(sd[i], W) = There(sd[i], V) /\ \A e \in There(sd[i], W) : lg[e] = lg2[e]
        BY <1>4
      <3> HIDE DEF V
      <3>2. Told(sd, lg, W) = Told(sd, lg2, V)
        BY <3>1, <1>3, ToldSame DEF SameHeld
      <3> QED BY <3>2 DEF V
    <2> QED BY <2>1, <2>2
  <1> QED BY <1>3, <1>5 DEF lg2

\* The last of sd2 is told last by who has the line l, and only by them.
Begun(sd, lg, l, sd2) ==
  /\ Recorded(sd2, Append(lg, l))
  /\ \A W \in SUBSET (1..Len(lg)) :
       /\ Told(sd2, Append(lg, l), W) = Told(sd, lg, W)
       /\ Told(sd2, Append(lg, l), W \union {Len(lg) + 1}) = Append(Told(sd, lg, W), Turn(l))

\* A message begins.
LEMMA ToldMessage ==
  ASSUME NEW lg, NEW sd, Recorded(sd, lg), NEW l \in Shown, NEW sd2, sd2 = Append(sd, <<Len(lg) + 1>>)
  PROVE  Begun(sd, lg, l, sd2)
  <1> DEFINE N == Len(lg)
             lg2 == Append(lg, l)
             m == <<N + 1>>
  <1>1. N \in Nat /\ Recorded(sd, lg2)
    BY ToldLine DEF Recorded
  <1>2. lg2[N + 1] = l /\ Len(lg2) = N + 1
    BY DEF Recorded
  <1> HIDE DEF lg2
  <1>3. m \in Seq(1..Len(lg2)) /\ Len(m) = 1 /\ m[1] = N + 1
    BY <1>1, <1>2
  <1>4. sd2 = Append(sd, m)
    OBVIOUS
  <1> HIDE DEF m, N
  <1>5. ASSUME NEW V PROVE There(m, V) = {N + 1} \intersect V
    <2>1. N + 1 \in Nat /\ m \in Seq(1..(N + 1))
      BY <1>3, <1>1, <1>2
    <2>2. \A x : x \in ToSet(m) <=> \E i \in 1..Len(m) : m[i] = x
      BY <2>1, ToSetIs
    <2>3. ToSet(m) = {N + 1}
      BY <2>2, <1>3
    <2> QED BY <2>3 DEF There
  <1>6. ASSUME NEW V
        PROVE Recorded(sd2, lg2) /\ Told(sd2, lg2, V) = HeardOf(V, Told(sd, lg2, V), m, lg2)
    BY <1>1, <1>3, <1>4, ToldAppend
  <1>7. ASSUME NEW W \in SUBSET (1..N)
        PROVE  /\ Told(sd2, lg2, W) = Told(sd, lg, W)
               /\ Told(sd2, lg2, W \union {N + 1}) = Append(Told(sd, lg, W), Turn(l))
    <2>1. Told(sd, lg2, W) = Told(sd, lg, W) /\ Told(sd, lg2, W \union {N + 1}) = Told(sd, lg, W)
      BY ToldLine DEF lg2, N
    <2>2. There(m, W) = {}
      BY <1>5, <1>1
    <2>3. Told(sd2, lg2, W) = Told(sd, lg, W)
      BY <2>1, <2>2, <1>6 DEF HeardOf
    <2> DEFINE V == W \union {N + 1}
    <2>4. There(m, V) = {N + 1}
      BY <1>5
    <2>5. Max({N + 1}) = N + 1
      BY <1>1 DEF Max
    <2> HIDE DEF V
    <2>6. Told(sd2, lg2, V) = Append(Told(sd, lg2, V), Turn(l))
      BY <2>4, <2>5, <1>6, <1>2 DEF HeardOf
    <2> QED BY <2>1, <2>3, <2>6 DEF V
  <1>8. Recorded(sd2, lg2)
    BY <1>6
  <1> QED BY <1>7, <1>8 DEF lg2, N, Begun

\* The k-th message of sd2 is told as the line l has it by who has all lines.
WentOn(sd, lg, l, k, sd2) ==
  /\ Recorded(sd2, Append(lg, l))
  /\ \A W \in SUBSET (1..Len(lg)) : Told(sd2, Append(lg, l), W) = Told(sd, lg, W)
  /\ Told(sd2, Append(lg, l), 1..(Len(lg) + 1)) = [Told(sd, lg, 1..Len(lg)) EXCEPT ![k] = Turn(l)]

\* A message goes on.
LEMMA ToldSnapshot ==
  ASSUME NEW lg, NEW sd, Recorded(sd, lg), NEW l \in Shown, NEW k \in 1..Len(sd),
         NEW sd2, sd2 = [sd EXCEPT ![k] = Append(@, Len(lg) + 1)],
         \A i \in 1..Len(sd) : Len(sd[i]) > 0
  PROVE  WentOn(sd, lg, l, k, sd2)
  <1> DEFINE N == Len(lg)
             M == Len(sd)
             lg2 == Append(lg, l)
             W1 == 1..N
             V1 == 1..(N + 1)
             Q == Seq(1..(N + 1))
             m == Append(sd[k], N + 1)
  <1>1. /\ N \in Nat /\ Recorded(sd, lg2) /\ lg \in Seq(Shown) /\ sd \in Seq(Seq(1..N))
        /\ lg2[N + 1] = l /\ Len(lg2) = N + 1 /\ lg2 \in Seq(Shown) /\ \A n \in 1..N : lg2[n] = lg[n]
    BY ToldLine DEF Recorded
  <1> HIDE DEF lg2
  <1>2. sd[k] \in Seq(1..N) /\ sd \in Seq(Q) /\ M \in Nat /\ k \in 1..M /\ sd2 = [sd EXCEPT ![k] = m]
    BY <1>1 DEF Recorded
  <1>3. m \in Q /\ Len(m) = Len(sd[k]) + 1 /\ m[Len(m)] = N + 1 /\ \A i \in 1..Len(sd[k]) : m[i] = sd[k][i]
    <2>1. N + 1 \in 1..(N + 1) /\ sd[k] \in Q
      BY <1>1, <1>2
    <2> QED BY <2>1
  <1>9. N = Len(lg) /\ M = Len(sd)
    OBVIOUS
  <1> HIDE DEF m, Q, N
  <1>4. sd2 \in Seq(Q) /\ Len(sd2) = M /\ \A i \in 1..M : sd2[i] = IF i = k THEN m ELSE sd[i]
    <2> DEFINE r == [sd EXCEPT ![k] = m]
    <2>1. r \in Seq(Q) /\ Len(r) = Len(sd) /\ \A j \in 1..Len(sd) : r[j] = IF j = k THEN m ELSE sd[j]
      BY <1>2, <1>3, ExceptSeq
    <2>2. sd2 = r
      BY <1>2
    <2> HIDE DEF r
    <2> QED BY <2>1, <2>2
  <1>5. Recorded(sd2, lg2)
    BY <1>1, <1>4 DEF Recorded, Q
  <1> HIDE DEF M
  <1>6. \A i \in 1..M : Len(sd[i]) > 0 /\ sd[i] \in Seq(1..N)
    BY <1>1, <1>9
  <1>7. ToSet(sd[k]) \subseteq 1..N /\ ToSet(m) = ToSet(sd[k]) \union {N + 1}
    <2> DEFINE a == Len(sd[k])
    <2>1. a \in Nat /\ Len(m) = a + 1 /\ m[a + 1] = N + 1 /\ \A i \in 1..a : m[i] = sd[k][i]
      BY <1>2, <1>3
    <2>2. ToSet(sd[k]) \subseteq 1..N /\ \A x : x \in ToSet(sd[k]) <=> \E i \in 1..a : sd[k][i] = x
      BY <1>1, <1>2, ToSetIs
    <2>3. \A x : x \in ToSet(m) <=> \E i \in 1..(a + 1) : m[i] = x
      <3>1. N + 1 \in Nat /\ m \in Seq(1..(N + 1))
        BY <1>1, <1>3 DEF Q
      <3> QED BY <3>1, <2>1, ToSetIs
    <2> HIDE DEF a
    <2>4. \A i : i \in 1..(a + 1) <=> i \in 1..a \/ i = a + 1
      BY <2>1
    <2>5. \A x : x \in ToSet(m) <=> x \in ToSet(sd[k]) \/ x = N + 1
      BY SMTT(30), <2>1, <2>2, <2>3, <2>4
    <2> QED BY <2>2, <2>5
  <1>8. \A i \in 1..M : ToSet(sd[i]) \subseteq 1..N /\ ToSet(sd[i]) # {}
    <2> SUFFICES ASSUME NEW i \in 1..M PROVE ToSet(sd[i]) \subseteq 1..N /\ ToSet(sd[i]) # {}
      OBVIOUS
    <2>1. Len(sd[i]) > 0 /\ sd[i] \in Seq(1..N)
      BY <1>6
    <2> QED BY <2>1, <1>1, ToSetIs
  <1>10. ASSUME NEW W \in SUBSET (1..N) PROVE Told(sd2, lg2, W) = Told(sd, lg, W)
    <2>1. ASSUME NEW i \in 1..M
          PROVE  There(sd2[i], W) = There(sd[i], W) /\ \A e \in There(sd2[i], W) : lg2[e] = lg[e]
      <3>1. N + 1 \notin W
        BY <1>1
      <3>2. There(sd2[i], W) = There(sd[i], W)
        <4>1. CASE i = k
          <5>1. sd2[i] = m
            BY <4>1, <1>4
          <5> QED BY <4>1, <5>1, <3>1, <1>7 DEF There
        <4>2. CASE i # k
          BY <4>2, <1>4
        <4> QED BY <4>1, <4>2
      <3>3. There(sd[i], W) \subseteq W
        BY DEF There
      <3> QED BY <3>2, <3>3, <1>1
    <2>2. SameHeld(sd2, lg2, W, sd, lg, W)
      BY <2>1, <1>4, <1>9 DEF SameHeld
    <2> QED BY <2>2, <1>5, ToldSame
  <1>11. \A i \in 1..M : There(sd[i], W1) = ToSet(sd[i]) /\ There(sd[i], W1) # {}
    BY <1>8 DEF There
  <1>12. /\ Len(Told(sd, lg, W1)) = M
         /\ \A i \in 1..M : Told(sd, lg, W1)[i] = Turn(lg[Max(There(sd[i], W1))])
    <2>1. SomeHeld(sd, W1)
      BY <1>11, <1>9 DEF SomeHeld
    <2> HIDE DEF W1
    <2>2. AllTold(Told(sd, lg, W1), sd, lg, W1)
      BY <2>1, ToldWhole
    <2> QED BY <2>2, <1>9 DEF AllTold
  <1>13. ASSUME NEW i \in 1..M, i # k PROVE There(sd2[i], V1) = There(sd[i], W1)
    <2>1. sd2[i] = sd[i]
      BY <1>13, <1>4
    <2>2. W1 \subseteq V1 /\ ToSet(sd[i]) \subseteq W1
      BY <1>1, <1>8
    <2> HIDE DEF W1, V1
    <2> QED BY <2>1, <2>2 DEF There
  <1>14. There(sd2[k], V1) = There(sd[k], W1) \union {N + 1}
    <2>1. sd2[k] = m /\ k \in 1..M
      BY <1>2, <1>4
    <2>2. W1 \subseteq V1 /\ N + 1 \in V1 /\ ToSet(sd[k]) \subseteq W1
      BY <1>1, <1>7
    <2> HIDE DEF W1, V1
    <2> QED BY <2>1, <2>2, <1>7 DEF There
  <1>15. Max(There(sd2[k], V1)) = N + 1
    <2> DEFINE T == There(sd2[k], V1)
    <2>1. T \subseteq 1..(N + 1) /\ N + 1 \in T
      <3>1. There(sd[k], W1) \subseteq W1 /\ W1 \subseteq V1 /\ N + 1 \in V1
        BY <1>1 DEF There
      <3> HIDE DEF W1
      <3> QED BY <3>1, <1>14
    <2> HIDE DEF T
    <2>2. Max(T) \in T /\ \A y \in T : Max(T) >= y
      <3>1. \A y \in T : N + 1 >= y
        BY <2>1, <1>1
      <3> QED BY <2>1, <3>1 DEF Max
    <2>3. Max(T) = N + 1
      <3>1. Max(T) \in 1..(N + 1) /\ Max(T) >= N + 1
        BY <2>1, <2>2
      <3> QED BY <3>1, <1>1
    <2> QED BY <2>3 DEF T
  <1>16. /\ Len(Told(sd2, lg2, V1)) = M
         /\ \A i \in 1..M : Told(sd2, lg2, V1)[i] = Turn(lg2[Max(There(sd2[i], V1))])
    <2>1. \A i \in 1..M : There(sd2[i], V1) # {}
      BY <1>11, <1>13, <1>14
    <2>2. SomeHeld(sd2, V1)
      BY <2>1, <1>4 DEF SomeHeld
    <2> HIDE DEF V1
    <2>3. AllTold(Told(sd2, lg2, V1), sd2, lg2, V1)
      BY <2>2, <1>5, ToldWhole
    <2> QED BY <2>3, <1>4 DEF AllTold
  <1>17. Told(sd2, lg2, V1) = [Told(sd, lg, W1) EXCEPT ![k] = Turn(l)]
    <2> DEFINE A == Told(sd, lg, W1)
               B == Told(sd2, lg2, V1)
               t == Turn(l)
    <2>1. A \in Seq(TurnSet) /\ B \in Seq(TurnSet) /\ t \in TurnSet
      BY <1>5, ToldType, TurnIs
    <2>2. k \in 1..Len(A)
      BY <1>2, <1>12
    <2>3. B[k] = t
      BY <1>2, <1>15, <1>16, <1>1
    <2>4. ASSUME NEW i \in 1..M, i # k PROVE B[i] = A[i]
      <3> DEFINE e == Max(There(sd[i], W1))
      <3>1. e \in 1..N
        <4>1. sd[i] \in Seq(1..N) /\ There(sd[i], W1) # {}
          BY <1>6, <1>11
        <4> HIDE DEF W1
        <4> QED BY <4>1, <1>1, LatestIs
      <3>2. A[i] = Turn(lg[e]) /\ B[i] = Turn(lg2[e])
        BY <2>4, <1>12, <1>13, <1>16
      <3> HIDE DEF e
      <3> QED BY <3>1, <3>2, <1>1
    <2>5. Len(A) = M /\ Len(B) = M
      BY <1>12, <1>16
    <2> HIDE DEF A, B, t
    <2>6. /\ [A EXCEPT ![k] = t] \in Seq(TurnSet) /\ Len([A EXCEPT ![k] = t]) = Len(A)
          /\ \A j \in 1..Len(A) : [A EXCEPT ![k] = t][j] = IF j = k THEN t ELSE A[j]
      BY <2>1, <2>2, ExceptSeq
    <2>7. B = [A EXCEPT ![k] = t]
      <3> DEFINE E == [A EXCEPT ![k] = t]
      <3>1. \A j \in 1..M : E[j] = B[j]
        BY <2>3, <2>4, <2>5, <2>6
      <3>2. E \in Seq(TurnSet) /\ Len(E) = M
        BY <2>5, <2>6
      <3> HIDE DEF E
      <3>3. B = E
        BY <3>1, <3>2, <2>1, <2>5, SeqEqual
      <3> QED BY <3>3 DEF E
    <2> QED BY <2>7 DEF A, B, t
  <1> QED BY <1>5, <1>9, <1>10, <1>12, <1>17 DEF lg2, WentOn

-----------------------------------------------------------------------------
(* What waits and what is queued                                             *)

\* The first k of the queue were passed, the others wait, after o that were
\* attached.
Waits(p, q, ps, at, k, o) ==
  /\ Len(p) = o + (Len(q) - k)
  /\ \A i \in 1..k : q[i] \in ps
  /\ \A i \in 1..(Len(q) - k) : p[o + i].text = q[k + i]
  /\ \A i \in 1..o : p[i].text \in at

Queued(p, q, ps, at) == \E k \in 0..Len(q), o \in 0..Len(p) : Waits(p, q, ps, at, k, o)

\* Said during the turn.
LEMMA QueuedMore ==
  ASSUME NEW p \in Seq(UserTurn), NEW q \in Seq(Text), NEW ps, NEW at, Queued(p, q, ps, at),
         NEW t \in UserTurn, t.text \in Text
  PROVE  Queued(Append(p, t), Append(q, t.text), ps, at)
  <1> DEFINE m == Len(p)
             n == Len(q)
             x == t.text
             p2 == Append(p, t)
             q2 == Append(q, x)
  <1>1. PICK k \in 0..n, o \in 0..m : Waits(p, q, ps, at, k, o)
    BY DEF Queued
  <1>2. /\ m = o + (n - k) /\ \A i \in 1..k : q[i] \in ps
        /\ \A i \in 1..(n - k) : p[o + i].text = q[k + i]
        /\ \A i \in 1..o : p[i].text \in at
    BY <1>1 DEF Waits
  <1>3. /\ m \in Nat /\ n \in Nat
        /\ Len(p2) = m + 1 /\ p2[m + 1] = t /\ \A i \in 1..m : p2[i] = p[i]
        /\ Len(q2) = n + 1 /\ q2[n + 1] = x /\ \A i \in 1..n : q2[i] = q[i]
    OBVIOUS
  <1>4. t.text = x
    OBVIOUS
  <1> HIDE DEF m, n, x, p2, q2
  <1>5. Len(p2) = o + (Len(q2) - k) /\ k \in 0..Len(q2) /\ o \in 0..Len(p2)
    BY <1>2, <1>3
  <1>6. ASSUME NEW i \in 1..k PROVE q2[i] \in ps
    <2>1. i \in 1..n
      BY <1>3
    <2> QED BY <2>1, <1>2, <1>3
  <1>7. ASSUME NEW i \in 1..(Len(q2) - k) PROVE p2[o + i].text = q2[k + i]
    <2>1. CASE i \in 1..(n - k)
      <3>1. o + i \in 1..m /\ k + i \in 1..n
        BY SMTT(30), <2>1, <1>2, <1>3
      <3> QED BY <3>1, <2>1, <1>2, <1>3
    <2>2. CASE i = n - k + 1
      <3>1. o + i = m + 1 /\ k + i = n + 1
        BY <2>2, <1>2, <1>3
      <3> QED BY <3>1, <1>3, <1>4
    <2>3. i \in 1..(n - k) \/ i = n - k + 1
      BY <1>3
    <2> QED BY <2>1, <2>2, <2>3
  <1>8. ASSUME NEW i \in 1..o PROVE p2[i].text \in at
    <2>1. i \in 1..m
      BY <1>3
    <2> QED BY <2>1, <1>2, <1>3
  <1> QED BY <1>5, <1>6, <1>7, <1>8 DEF Queued, Waits, p2, q2, x

\* Taken as an attachment.
LEMMA QueuedAttach ==
  ASSUME NEW p \in Seq(UserTurn), NEW q \in Seq(Text), NEW ps, NEW at, Queued(p, q, ps, at),
         q # <<>>
  PROVE  Queued(p, Tail(q), ps \intersect ToSet(Tail(q)), at \union {Head(q)})
  <1> DEFINE m == Len(p)
             n == Len(q)
             q2 == Tail(q)
             x == Head(q)
             ps2 == ps \intersect ToSet(q2)
             at2 == at \union {x}
  <1>1. PICK k \in 0..n, o \in 0..m : Waits(p, q, ps, at, k, o)
    BY DEF Queued
  <1>2. /\ m = o + (n - k) /\ \A i \in 1..k : q[i] \in ps
        /\ \A i \in 1..(n - k) : p[o + i].text = q[k + i]
        /\ \A i \in 1..o : p[i].text \in at
    BY <1>1 DEF Waits
  <1>3. /\ m \in Nat /\ n \in Nat /\ n > 0 /\ x = q[1]
        /\ Len(q2) = n - 1 /\ \A i \in 1..(n - 1) : q2[i] = q[i + 1] /\ q2[i] \in ToSet(q2)
    <2>1. m \in Nat /\ n \in Nat /\ n > 0 /\ x = q[1]
      OBVIOUS
    <2>2. Len(q2) = n - 1 /\ \A i \in 1..(n - 1) : q2[i] = q[i + 1]
      OBVIOUS
    <2>3. DOMAIN q2 = 1..(n - 1)
      <3>1. q2 \in Seq(Text)
        OBVIOUS
      <3> HIDE DEF q2, n
      <3> QED BY <2>2, <3>1
    <2> HIDE DEF q2
    <2>4. \A i \in 1..(n - 1) : q2[i] \in ToSet(q2)
      BY <2>3 DEF ToSet
    <2> QED BY <2>1, <2>2, <2>4
  <1>4. m = Len(p)
    OBVIOUS
  <1> HIDE DEF m, n, x, q2
  <1>5. CASE k = 0
    <2>1. p[o + 1].text = x /\ o + 1 \in 0..m
      <3>1. 1 \in 1..(n - k) /\ k + 1 = 1 /\ o + 1 \in 0..m
        BY <1>2, <1>3, <1>5
      <3>2. p[o + 1].text = q[k + 1]
        BY <3>1, <1>2
      <3> QED BY <3>1, <3>2, <1>3
    <2>2. m = (o + 1) + (Len(q2) - 0)
      BY <1>2, <1>3, <1>5
    <2>3. ASSUME NEW i \in 1..(Len(q2) - 0) PROVE p[(o + 1) + i].text = q2[0 + i]
      <3>1. i + 1 \in 1..(n - k) /\ i \in 1..(n - 1) /\ (o + 1) + i = o + (i + 1) /\ k + (i + 1) = i + 1 /\ 0 + i = i
        BY <1>3, <1>5
      <3>2. p[o + (i + 1)].text = q[k + (i + 1)]
        BY <3>1, <1>2
      <3> QED BY <3>1, <3>2, <1>3
    <2>4. ASSUME NEW i \in 1..(o + 1) PROVE p[i].text \in at2
      <3>1. i \in 1..o \/ i = o + 1
        BY <1>3
      <3> QED BY <3>1, <2>1, <1>2
    <2>5. Waits(p, q2, ps2, at2, 0, o + 1)
      BY <2>2, <2>3, <2>4, <1>4 DEF Waits
    <2>6. 0 \in 0..Len(q2)
      BY <1>3
    <2> QED BY <2>1, <2>5, <2>6, <1>4 DEF Queued, q2, x
  <1>6. CASE k # 0
    <2>1. k - 1 \in 0..Len(q2) /\ m = o + (Len(q2) - (k - 1))
      BY <1>2, <1>3, <1>6
    <2>2. ASSUME NEW i \in 1..(k - 1) PROVE q2[i] \in ps2
      <3>1. i + 1 \in 1..k /\ i \in 1..(n - 1)
        BY <1>3
      <3> QED BY <3>1, <1>2, <1>3
    <2>3. ASSUME NEW i \in 1..(Len(q2) - (k - 1)) PROVE p[o + i].text = q2[(k - 1) + i]
      <3>1. i \in 1..(n - k) /\ (k - 1) + i \in 1..(n - 1) /\ ((k - 1) + i) + 1 = k + i
        BY <1>3, <1>6
      <3>2. q2[(k - 1) + i] = q[((k - 1) + i) + 1]
        BY <3>1, <1>3
      <3>3. q2[(k - 1) + i] = q[k + i]
        BY <3>1, <3>2
      <3> QED BY <3>1, <3>3, <1>2
    <2>4. Waits(p, q2, ps2, at2, k - 1, o)
      BY <2>1, <2>2, <2>3, <1>2, <1>4 DEF Waits
    <2> QED BY <2>1, <2>4, <1>4 DEF Queued, q2, x
  <1> QED BY <1>5, <1>6

\* Taken as a prompt, and not passed before: it waits, and no longer than what
\* waits is behind it.
LEMMA QueuedDrain ==
  ASSUME NEW d \in Dedup, NEW q \in Seq(Text), NEW ps, NEW at, Queued(d.pending, q, ps, at),
         q # <<>>, Head(q) \notin ps, NEW j, j = Awaiting(d, Head(q)), NEW ps2
  PROVE  /\ j # 0
         /\ Queued(SubSeq(d.pending, j + 1, Len(d.pending)), Tail(q), ps2, at)
  <1> DEFINE p == d.pending
             m == Len(p)
             n == Len(q)
             q2 == Tail(q)
             x == Head(q)
             p2 == SubSeq(p, j + 1, m)
  <1>0. p \in Seq(UserTurn)
    BY DedupFields
  <1>1. PICK k \in 0..n, o \in 0..m : Waits(p, q, ps, at, k, o)
    BY DEF Queued
  <1>2. /\ m = o + (n - k) /\ \A i \in 1..k : q[i] \in ps
        /\ \A i \in 1..(n - k) : p[o + i].text = q[k + i]
        /\ \A i \in 1..o : p[i].text \in at
    BY <1>1 DEF Waits
  <1>3. /\ m \in Nat /\ n \in Nat /\ n > 0 /\ x = q[1] /\ x \notin ps
        /\ Len(q2) = n - 1 /\ \A i \in 1..(n - 1) : q2[i] = q[i + 1]
    BY <1>0
  <1>4. /\ j \in 0..m
        /\ j # 0 => p[j].text = x /\ \A i \in 1..(j - 1) : p[i].text # x
        /\ j = 0 => \A i \in 1..m : p[i].text # x
    BY AwaitingIs
  <1>10. m = Len(p) /\ p2 = SubSeq(p, j + 1, m)
    OBVIOUS
  <1> HIDE DEF p, m, n, x, q2, p2
  <1>5. k = 0
    <2> SUFFICES ASSUME k # 0 PROVE FALSE
      OBVIOUS
    <2>1. 1 \in 1..k
      BY <1>3
    <2> QED BY <2>1, <1>2, <1>3
  <1>6. o + 1 \in 1..m /\ p[o + 1].text = x
    <2>1. 1 \in 1..(n - k) /\ k + 1 = 1 /\ o + 1 \in 1..m
      BY <1>2, <1>3, <1>5
    <2>2. p[o + 1].text = q[k + 1]
      BY <2>1, <1>2
    <2> QED BY <2>1, <2>2, <1>3
  <1>7. j # 0 /\ j \in 1..m
    BY <1>4, <1>6
  <1>8. j <= o + 1
    <2> SUFFICES ASSUME j > o + 1 PROVE FALSE
      BY <1>4, <1>3
    <2>1. o + 1 \in 1..(j - 1)
      BY <1>4, <1>3
    <2> QED BY <2>1, <1>4, <1>6, <1>7
  <1>9. Len(p2) = m - j /\ \A i \in 1..(m - j) : p2[i] = p[j + i]
    <2>1. j + 1 \in 1..(m + 1) /\ m - (j + 1) + 1 = m - j
      BY <1>7, <1>3
    <2>2. Len(p2) = m - (j + 1) + 1 /\ \A i \in 1..(m - (j + 1) + 1) : p2[i] = p[(j + 1) + i - 1]
      BY <2>1, <1>0, <1>10, <1>3, SubSeqProperties
    <2>3. ASSUME NEW i \in 1..(m - j) PROVE p2[i] = p[j + i]
      <3>1. (j + 1) + i - 1 = j + i
        BY <1>7, <1>3
      <3> QED BY <3>1, <2>1, <2>2
    <2> QED BY <2>1, <2>2, <2>3
  <1> DEFINE o2 == (o + 1) - j
  <1>11. o2 \in 0..(m - j) /\ m - j = o2 + (Len(q2) - 0)
    BY <1>8, <1>7, <1>6, <1>3, <1>2, <1>5
  <1>17. o2 \in Nat /\ j + o2 = o + 1 /\ o \in Nat /\ j \in Nat /\ j > 0 /\ m - j = o2 + (n - 1)
    BY <1>11, <1>7, <1>3
  <1> HIDE DEF o2
  <1>18. \A i \in Nat : j + (o2 + i) = o + (i + 1)
    <2>1. o2 \in Nat /\ o \in Nat /\ j \in Nat /\ j + o2 = o + 1
      BY <1>17
    <2> QED BY <2>1
  <1>12. ASSUME NEW i \in 1..(Len(q2) - 0) PROVE p2[o2 + i].text = q2[0 + i]
    <2>1. i + 1 \in 1..(n - k) /\ i \in 1..(n - 1) /\ k + (i + 1) = i + 1 /\ 0 + i = i
      BY <1>3, <1>5
    <2>2. o2 + i \in 1..(m - j) /\ j + (o2 + i) = o + (i + 1)
      <3>1. i \in Nat /\ n \in Nat /\ i >= 1 /\ i <= n - 1
        BY <2>1, <1>3
      <3>2. o2 + i >= 1 /\ o2 + i <= m - j /\ m \in Nat
        BY <3>1, <1>17, <1>3
      <3>3. j + (o2 + i) = o + (i + 1)
        BY <3>1, <1>18
      <3> QED BY <3>1, <3>2, <3>3, <1>17
    <2>3. p2[o2 + i] = p[o + (i + 1)]
      BY <2>2, <1>9
    <2>4. p[o + (i + 1)].text = q[k + (i + 1)]
      BY <2>1, <1>2
    <2> QED BY <2>1, <2>3, <2>4, <1>3
  <1>13. ASSUME NEW i \in 1..o2 PROVE p2[i].text \in at
    <2>1. i \in 1..(m - j) /\ j \in 1..o /\ (j + i \in 1..o \/ j + i = o + 1)
      BY <1>17, <1>3
    <2>2. p2[i] = p[j + i]
      BY <2>1, <1>9
    <2>3. CASE j + i \in 1..o
      BY <2>2, <2>3, <1>2
    <2>4. CASE j + i = o + 1
      <3>1. p[j].text = x /\ p[j].text \in at
        BY <2>1, <1>2, <1>4, <1>7
      <3> QED BY <3>1, <2>2, <2>4, <1>6
    <2> QED BY <2>1, <2>3, <2>4
  <1>14. Waits(p2, q2, ps2, at, 0, o2)
    BY <1>9, <1>11, <1>12, <1>13 DEF Waits
  <1>15. 0 \in 0..Len(q2) /\ o2 \in 0..Len(p2)
    BY <1>3, <1>9, <1>11
  <1>16. Queued(p2, q2, ps2, at)
    BY <1>14, <1>15 DEF Queued
  <1> QED BY <1>7, <1>16 DEF p2, q2, m, p

\* Passed, all of it.
LEMMA QueuedNone ==
  ASSUME NEW q \in Seq(Text), NEW ps, ToSet(q) \subseteq ps, NEW at
  PROVE  Queued(<<>>, q, ps, at)
  <1> DEFINE n == Len(q)
  <1>1. n \in Nat /\ \A i \in 1..n : q[i] \in ps
    BY DEF ToSet
  <1>2. Len(<<>>) = 0
    OBVIOUS
  <1>3. 0 = 0 + (n - n) /\ n - n = 0
    BY <1>1
  <1>4. Waits(<<>>, q, ps, at, n, 0)
    BY <1>1, <1>2, <1>3 DEF Waits
  <1>5. n \in 0..Len(q) /\ 0 \in 0..Len(<<>>)
    BY <1>1, <1>2
  <1> QED BY <1>4, <1>5 DEF Queued

\* When nothing is queued, what waits was attached.
LEMMA QueuedEmpty ==
  ASSUME NEW p \in Seq(UserTurn), NEW ps, NEW at, Queued(p, <<>>, ps, at)
  PROVE  \A i \in 1..Len(p) : p[i].text \in at
  <1>1. PICK k \in 0..Len(<<>>), o \in 0..Len(p) : Waits(p, <<>>, ps, at, k, o)
    BY DEF Queued
  <1>2. k = 0 /\ Len(<<>>) = 0
    OBVIOUS
  <1>3. Len(p) = o + (0 - 0) /\ \A i \in 1..o : p[i].text \in at
    BY <1>1, <1>2 DEF Waits
  <1>4. Len(p) = o
    BY <1>3
  <1> QED BY <1>3, <1>4

-----------------------------------------------------------------------------
(* The file, the buffer and the log                                          *)

Has(ls, n) == \E i \in 1..Len(ls) : Displayed(ls[i]) /\ ls[i].ts = n

\* A line displayed is in the file or in the buffer, once; the enqueues are in
\* the file, the others there are earlier than those that are not.
InFile(ls, bf, lg) ==
  /\ \A i \in 1..Len(ls) : Displayed(ls[i]) => ls[i].ts \in 1..Len(lg) /\ ls[i] = lg[ls[i].ts]
  /\ \A i, j \in 1..Len(ls) : Displayed(ls[i]) /\ Displayed(ls[j]) /\ ls[i].ts = ls[j].ts => i = j
  /\ \A i \in 1..Len(bf) :
       bf[i].ts \in 1..Len(lg) /\ bf[i] = lg[bf[i].ts] /\ bf[i].kind # "enqueue"
  /\ \A i, j \in 1..Len(bf) : i < j => bf[i].ts < bf[j].ts
  /\ \A i \in 1..Len(ls), j \in 1..Len(bf) :
       Displayed(ls[i]) /\ ls[i].kind # "enqueue" => ls[i].ts < bf[j].ts
  /\ \A n \in 1..Len(lg) : Has(ls, n) \/ \E j \in 1..Len(bf) : bf[j].ts = n

\* A line that goes to the buffer.
LEMMA FileBuffers ==
  ASSUME NEW ls \in Seq(FileLine), NEW bf \in Seq(Shown), NEW lg \in Seq(Shown), InFile(ls, bf, lg),
         NEW l \in Shown, l.ts = Len(lg) + 1, l.kind # "enqueue"
  PROVE  InFile(ls, Append(bf, l), Append(lg, l))
  <1> DEFINE N == Len(lg)
             M == Len(bf)
             bf2 == Append(bf, l)
             lg2 == Append(lg, l)
  <1>1. /\ N \in Nat /\ Len(lg2) = N + 1 /\ lg2[N + 1] = l
        /\ \A i \in 1..N : lg2[i] = lg[i] /\ i \in 1..(N + 1) /\ i < N + 1
        /\ \A i \in 1..(N + 1) : i \in 1..N \/ i = N + 1
        /\ N + 1 \in 1..(N + 1)
    OBVIOUS
  <1>2. /\ M \in Nat /\ Len(bf2) = M + 1 /\ bf2[M + 1] = l
        /\ \A i \in 1..M : bf2[i] = bf[i] /\ i \in 1..(M + 1)
        /\ \A i \in 1..(M + 1) : i \in 1..M \/ i = M + 1
        /\ M + 1 \in 1..(M + 1)
    OBVIOUS
  <1>3. l.ts = N + 1
    OBVIOUS
  <1> HIDE DEF bf2, lg2
  <1>4. ASSUME NEW i \in 1..Len(ls), Displayed(ls[i])
        PROVE  ls[i].ts \in 1..N /\ ls[i].ts \in 1..(N + 1) /\ ls[i] = lg2[ls[i].ts]
    BY <1>1, <1>4 DEF InFile
  <1>5. ASSUME NEW i \in 1..(M + 1)
        PROVE  bf2[i].ts \in 1..(N + 1) /\ bf2[i] = lg2[bf2[i].ts] /\ bf2[i].kind # "enqueue"
    <2>1. CASE i \in 1..M
      <3>1. bf[i].ts \in 1..N /\ bf[i] = lg[bf[i].ts] /\ bf[i].kind # "enqueue"
        BY <2>1 DEF InFile
      <3> QED BY <3>1, <2>1, <1>1, <1>2
    <2>2. CASE i = M + 1
      BY <2>2, <1>1, <1>2, <1>3
    <2> QED BY <2>1, <2>2, <1>2
  <1>6. ASSUME NEW i \in 1..(M + 1), NEW j \in 1..(M + 1), i < j PROVE bf2[i].ts < bf2[j].ts
    <2>1. i \in 1..M
      BY <1>2, <1>6
    <2>2. CASE j \in 1..M
      BY <2>1, <2>2, <1>2, <1>6 DEF InFile
    <2>3. CASE j = M + 1
      <3>1. bf[i].ts \in 1..N
        BY <2>1 DEF InFile
      <3> QED BY <3>1, <2>1, <2>3, <1>1, <1>2, <1>3
    <2> QED BY <2>2, <2>3, <1>2
  <1>7. ASSUME NEW i \in 1..Len(ls), NEW j \in 1..(M + 1), Displayed(ls[i]), ls[i].kind # "enqueue"
        PROVE  ls[i].ts < bf2[j].ts
    <2>1. CASE j \in 1..M
      BY <2>1, <1>2, <1>7 DEF InFile
    <2>2. CASE j = M + 1
      <3>1. ls[i].ts \in 1..N
        BY <1>4, <1>7
      <3> QED BY <3>1, <2>2, <1>1, <1>2, <1>3
    <2> QED BY <2>1, <2>2, <1>2
  <1>8. ASSUME NEW n \in 1..(N + 1) PROVE Has(ls, n) \/ \E j \in 1..(M + 1) : bf2[j].ts = n
    <2>1. CASE n \in 1..N
      <3>1. Has(ls, n) \/ \E j \in 1..M : bf[j].ts = n
        BY <2>1 DEF InFile
      <3> QED BY <3>1, <1>2
    <2>2. CASE n = N + 1
      BY <2>2, <1>2, <1>3
    <2> QED BY <2>1, <2>2, <1>1
  <1>9. \A i, j \in 1..Len(ls) : Displayed(ls[i]) /\ Displayed(ls[j]) /\ ls[i].ts = ls[j].ts => i = j
    BY DEF InFile
  <1>10. Len(lg2) = N + 1 /\ Len(bf2) = M + 1
    BY <1>1, <1>2
  <1> HIDE DEF N, M
  <1>11. InFile(ls, bf2, lg2)
    BY <1>4, <1>5, <1>6, <1>7, <1>8, <1>9, <1>10 DEF InFile
  <1> QED BY <1>11 DEF bf2, lg2

\* A line that is in the file at once.
LEMMA FileWrites ==
  ASSUME NEW ls \in Seq(FileLine), NEW bf \in Seq(Shown), NEW lg \in Seq(Shown), InFile(ls, bf, lg),
         NEW l \in Shown, l.ts = Len(lg) + 1, l.kind = "enqueue"
  PROVE  InFile(Append(ls, l), bf, Append(lg, l))
  <1> DEFINE N == Len(lg)
             M == Len(ls)
             ls2 == Append(ls, l)
             lg2 == Append(lg, l)
  <1>1. /\ N \in Nat /\ Len(lg2) = N + 1 /\ lg2[N + 1] = l
        /\ \A i \in 1..N : lg2[i] = lg[i] /\ i \in 1..(N + 1) /\ i < N + 1
        /\ \A i \in 1..(N + 1) : i \in 1..N \/ i = N + 1
        /\ N + 1 \in 1..(N + 1)
    OBVIOUS
  <1>2. /\ M \in Nat /\ Len(ls2) = M + 1 /\ ls2[M + 1] = l
        /\ \A i \in 1..M : ls2[i] = ls[i] /\ i \in 1..(M + 1)
        /\ \A i \in 1..(M + 1) : i \in 1..M \/ i = M + 1
        /\ M + 1 \in 1..(M + 1)
    OBVIOUS
  <1>3. l.ts = N + 1 /\ Displayed(l)
    BY DEF Displayed
  <1> HIDE DEF ls2, lg2
  <1>4. ASSUME NEW i \in 1..M, Displayed(ls[i]) PROVE ls[i].ts \in 1..N /\ ls[i] = lg[ls[i].ts]
    BY <1>4 DEF InFile
  <1>5. ASSUME NEW i \in 1..(M + 1), Displayed(ls2[i]) PROVE ls2[i].ts \in 1..(N + 1) /\ ls2[i] = lg2[ls2[i].ts]
    <2>1. CASE i \in 1..M
      BY <2>1, <1>1, <1>2, <1>4, <1>5
    <2>2. CASE i = M + 1
      BY <2>2, <1>1, <1>2, <1>3
    <2> QED BY <2>1, <2>2, <1>2
  <1>6. ASSUME NEW i \in 1..(M + 1), NEW j \in 1..(M + 1), Displayed(ls2[i]), Displayed(ls2[j]), ls2[i].ts = ls2[j].ts
        PROVE  i = j
    <2>1. CASE i \in 1..M /\ j \in 1..M
      BY <2>1, <1>2, <1>6 DEF InFile
    <2>2. CASE i \in 1..M /\ j = M + 1
      BY <2>2, <1>1, <1>2, <1>3, <1>4, <1>6
    <2>3. CASE i = M + 1 /\ j \in 1..M
      BY <2>3, <1>1, <1>2, <1>3, <1>4, <1>6
    <2> QED BY <2>1, <2>2, <2>3, <1>2
  <1>7. ASSUME NEW i \in 1..Len(bf)
        PROVE  bf[i].ts \in 1..(N + 1) /\ bf[i] = lg2[bf[i].ts] /\ bf[i].kind # "enqueue"
    <2>1. bf[i].ts \in 1..N /\ bf[i] = lg[bf[i].ts] /\ bf[i].kind # "enqueue"
      BY DEF InFile
    <2> QED BY <2>1, <1>1
  <1>8. ASSUME NEW i \in 1..(M + 1), NEW j \in 1..Len(bf), Displayed(ls2[i]), ls2[i].kind # "enqueue"
        PROVE  ls2[i].ts < bf[j].ts
    <2>1. i \in 1..M
      BY <1>2, <1>8
    <2> QED BY <2>1, <1>2, <1>8 DEF InFile
  <1>9. ASSUME NEW n \in 1..(N + 1) PROVE Has(ls2, n) \/ \E j \in 1..Len(bf) : bf[j].ts = n
    <2>1. CASE n \in 1..N
      <3>1. Has(ls, n) \/ \E j \in 1..Len(bf) : bf[j].ts = n
        BY <2>1 DEF InFile
      <3>2. Has(ls, n) => Has(ls2, n)
        BY <1>2 DEF Has
      <3> QED BY <3>1, <3>2
    <2>2. CASE n = N + 1
      BY <2>2, <1>2, <1>3 DEF Has
    <2> QED BY <2>1, <2>2, <1>1
  <1>10. \A i, j \in 1..Len(bf) : i < j => bf[i].ts < bf[j].ts
    BY DEF InFile
  <1>11. Len(lg2) = N + 1 /\ Len(ls2) = M + 1
    BY <1>1, <1>2
  <1> HIDE DEF N, M
  <1>12. InFile(ls2, bf, lg2)
    BY <1>5, <1>6, <1>7, <1>8, <1>9, <1>10, <1>11 DEF InFile
  <1> QED BY <1>12 DEF ls2, lg2

\* A line that is not displayed.
LEMMA FileRemoves ==
  ASSUME NEW ls \in Seq(FileLine), NEW bf \in Seq(Shown), NEW lg \in Seq(Shown), InFile(ls, bf, lg),
         NEW r \in FileLine, ~ Displayed(r)
  PROVE  InFile(Append(ls, r), bf, lg)
  <1> DEFINE M == Len(ls)
             ls2 == Append(ls, r)
  <1>2. /\ M \in Nat /\ Len(ls2) = M + 1 /\ ls2[M + 1] = r
        /\ \A i \in 1..M : ls2[i] = ls[i] /\ i \in 1..(M + 1)
        /\ \A i \in 1..(M + 1) : i \in 1..M \/ i = M + 1
    OBVIOUS
  <1> HIDE DEF ls2
  <1>3. \A i \in 1..(M + 1) : Displayed(ls2[i]) => i \in 1..M /\ ls2[i] = ls[i]
    BY <1>2
  <1>4. \A n : Has(ls, n) => Has(ls2, n)
    BY <1>2 DEF Has
  <1>5. InFile(ls2, bf, lg)
    <2>1. \A i \in 1..(M + 1) : Displayed(ls2[i]) => ls2[i].ts \in 1..Len(lg) /\ ls2[i] = lg[ls2[i].ts]
      BY <1>3 DEF InFile
    <2>2. \A i, j \in 1..(M + 1) : Displayed(ls2[i]) /\ Displayed(ls2[j]) /\ ls2[i].ts = ls2[j].ts => i = j
      BY <1>3 DEF InFile
    <2>3. \A i \in 1..(M + 1), j \in 1..Len(bf) :
            Displayed(ls2[i]) /\ ls2[i].kind # "enqueue" => ls2[i].ts < bf[j].ts
      BY <1>3 DEF InFile
    <2>4. \A n \in 1..Len(lg) : Has(ls2, n) \/ \E j \in 1..Len(bf) : bf[j].ts = n
      BY <1>4 DEF InFile
    <2>5. /\ \A i \in 1..Len(bf) : bf[i].ts \in 1..Len(lg) /\ bf[i] = lg[bf[i].ts] /\ bf[i].kind # "enqueue"
          /\ \A i, j \in 1..Len(bf) : i < j => bf[i].ts < bf[j].ts
      BY DEF InFile
    <2> QED BY <2>1, <2>2, <2>3, <2>4, <2>5, <1>2 DEF InFile
  <1> QED BY <1>5 DEF ls2

\* The line that has waited longest is written.
LEMMA FileFlushes ==
  ASSUME NEW ls \in Seq(FileLine), NEW bf \in Seq(Shown), NEW lg \in Seq(Shown), InFile(ls, bf, lg),
         bf # <<>>
  PROVE  InFile(Append(ls, Head(bf)), Tail(bf), lg)
  <1> DEFINE M == Len(ls)
             K == Len(bf)
             l == bf[1]
             ls2 == Append(ls, l)
             bf2 == Tail(bf)
  <1>1. /\ K \in Nat /\ Len(bf2) = K - 1 /\ Head(bf) = l /\ l \in Shown
        /\ 1 \in 1..K
        /\ \A i \in 1..(K - 1) : bf2[i] = bf[i + 1] /\ i + 1 \in 1..K /\ 1 < i + 1
        /\ \A i \in 1..K : i = 1 \/ (i - 1 \in 1..(K - 1) /\ (i - 1) + 1 = i)
    OBVIOUS
  <1>2. /\ M \in Nat /\ Len(ls2) = M + 1 /\ ls2[M + 1] = l
        /\ \A i \in 1..M : ls2[i] = ls[i] /\ i \in 1..(M + 1)
        /\ \A i \in 1..(M + 1) : i \in 1..M \/ i = M + 1
        /\ M + 1 \in 1..(M + 1)
    <2>1. l \in FileLine
      BY <1>1 DEF FileLine, Shown
    <2> HIDE DEF l
    <2> QED BY <2>1
  <1>3. Displayed(l)
    BY <1>1 DEF Shown
  <1> HIDE DEF ls2, bf2
  <1>4. ASSUME NEW i \in 1..M, Displayed(ls[i])
        PROVE  /\ ls[i].ts \in 1..Len(lg) /\ ls[i] = lg[ls[i].ts]
               /\ ls[i].ts # l.ts
               /\ \A j \in 1..K : ls[i].kind # "enqueue" => ls[i].ts < bf[j].ts
    <2>1. l.ts \in 1..Len(lg) /\ l = lg[l.ts] /\ l.kind # "enqueue"
      BY <1>1 DEF InFile
    <2>2. ls[i].ts \in 1..Len(lg) /\ ls[i] = lg[ls[i].ts]
      BY <1>4 DEF InFile
    <2>3. \A j \in 1..K : ls[i].kind # "enqueue" => ls[i].ts < bf[j].ts
      BY <1>4 DEF InFile
    <2>4. ls[i].kind # "enqueue" => ls[i].ts < l.ts
      BY <2>3, <1>1
    <2>5. ls[i].kind = "enqueue" => ls[i].ts # l.ts
      BY <2>1, <2>2
    <2> QED BY <2>1, <2>2, <2>3, <2>4, <2>5
  <1>5. l.ts \in 1..Len(lg) /\ l = lg[l.ts] /\ l.kind # "enqueue"
    BY <1>1 DEF InFile
  <1>13. \A i, j \in 1..K : i < j => bf[i].ts < bf[j].ts
    BY DEF InFile
  <1>6. \A i \in 1..(K - 1) : l.ts < bf2[i].ts
    BY <1>1, <1>13
  <1>7. \A i \in 1..(M + 1) : Displayed(ls2[i]) => ls2[i].ts \in 1..Len(lg) /\ ls2[i] = lg[ls2[i].ts]
    BY <1>2, <1>4, <1>5
  <1>8. ASSUME NEW i \in 1..(M + 1), NEW j \in 1..(M + 1), Displayed(ls2[i]), Displayed(ls2[j]), ls2[i].ts = ls2[j].ts
        PROVE  i = j
    <2>1. CASE i \in 1..M /\ j \in 1..M
      BY <2>1, <1>2, <1>8 DEF InFile
    <2>2. CASE i \in 1..M /\ j = M + 1
      BY <2>2, <1>2, <1>4, <1>8
    <2>3. CASE i = M + 1 /\ j \in 1..M
      BY <2>3, <1>2, <1>4, <1>8
    <2> QED BY <2>1, <2>2, <2>3, <1>2
  <1>9. \A i \in 1..(K - 1) : bf2[i].ts \in 1..Len(lg) /\ bf2[i] = lg[bf2[i].ts] /\ bf2[i].kind # "enqueue"
    <2>1. \A i \in 1..K : bf[i].ts \in 1..Len(lg) /\ bf[i] = lg[bf[i].ts] /\ bf[i].kind # "enqueue"
      BY DEF InFile
    <2> HIDE DEF K
    <2> QED BY <2>1, <1>1
  <1>10. ASSUME NEW i \in 1..(K - 1), NEW j \in 1..(K - 1), i < j PROVE bf2[i].ts < bf2[j].ts
    <2>1. i + 1 < j + 1
      BY <1>10
    <2> QED BY <2>1, <1>1, <1>13
  <1>11. ASSUME NEW i \in 1..(M + 1), NEW j \in 1..(K - 1), Displayed(ls2[i]), ls2[i].kind # "enqueue"
         PROVE  ls2[i].ts < bf2[j].ts
    <2>1. CASE i \in 1..M
      BY <2>1, <1>1, <1>2, <1>4, <1>11
    <2>2. CASE i = M + 1
      BY <2>2, <1>2, <1>6
    <2> QED BY <2>1, <2>2, <1>2
  <1>12. ASSUME NEW n \in 1..Len(lg) PROVE Has(ls2, n) \/ \E j \in 1..(K - 1) : bf2[j].ts = n
    <2>1. Has(ls, n) => Has(ls2, n)
      BY <1>2 DEF Has
    <2>2. CASE \E j \in 1..K : bf[j].ts = n
      <3>1. PICK j \in 1..K : bf[j].ts = n
        BY <2>2
      <3>2. CASE j = 1
        BY <3>1, <3>2, <1>2, <1>3 DEF Has
      <3>3. CASE j # 1
        <4>1. j - 1 \in 1..(K - 1) /\ bf2[j - 1] = bf[j]
          BY <3>3, <1>1
        <4> QED BY <4>1, <3>1
      <3> QED BY <3>2, <3>3
    <2> QED BY <2>1, <2>2 DEF InFile
  <1>14. Len(ls2) = M + 1 /\ Len(bf2) = K - 1
    BY <1>1, <1>2
  <1> HIDE DEF K, M
  <1>15. InFile(ls2, bf2, lg)
    BY <1>7, <1>8, <1>9, <1>10, <1>11, <1>12, <1>14 DEF InFile
  <1> QED BY <1>15, <1>1 DEF ls2, bf2

-----------------------------------------------------------------------------
(* The messages of a conversation                                            *)

\* Each has lines, in the order written; a user's has one, an assistant's the
\* time it began as its id.
Messages(sd, lg) ==
  /\ \A i \in 1..Len(sd) : Len(sd[i]) > 0 /\ \A k \in 1..Len(sd[i]) : sd[i][1] <= sd[i][k]
  /\ \A i, j \in 1..Len(sd) : i < j => sd[i][1] < sd[j][1]
  /\ \A i \in 1..Len(sd) : \A k \in 1..Len(sd[i]) :
       /\ lg[sd[i][1]].kind # "assistant" => k = 1
       /\ lg[sd[i][1]].kind = "assistant" =>
            lg[sd[i][k]].kind = "assistant" /\ lg[sd[i][k]].id = sd[i][1]

\* What messages and a log consist of.
LEMMA RecordedIs ==
  ASSUME NEW sd, NEW lg, Recorded(sd, lg)
  PROVE  /\ lg \in Seq(Shown) /\ Len(lg) \in Nat /\ Len(sd) \in Nat
         /\ \A i \in 1..Len(sd) : sd[i] \in Seq(1..Len(lg)) /\ Len(sd[i]) \in Nat
         /\ \A i \in 1..Len(sd) : \A k \in 1..Len(sd[i]) : sd[i][k] \in 1..Len(lg)
  <1> DEFINE N == Len(lg)  M == Len(sd)
  <1>1. lg \in Seq(Shown) /\ sd \in Seq(Seq(1..N))
    BY DEF Recorded
  <1>2. N \in Nat /\ M \in Nat
    BY <1>1
  <1>3. ASSUME NEW i \in 1..M PROVE sd[i] \in Seq(1..N)
    BY <1>1
  <1>4. ASSUME NEW i \in 1..M PROVE Len(sd[i]) \in Nat /\ \A k \in 1..Len(sd[i]) : sd[i][k] \in 1..N
    BY <1>3
  <1> QED BY <1>1, <1>2, <1>3, <1>4

\* A line of no message.
LEMMA MessagesLine ==
  ASSUME NEW sd, NEW lg, Recorded(sd, lg), Messages(sd, lg), NEW l \in Shown
  PROVE  Messages(sd, Append(lg, l))
  <1> DEFINE lg2 == Append(lg, l)
  <1>1. ASSUME NEW i \in 1..Len(sd), NEW k \in 1..Len(sd[i]) PROVE lg2[sd[i][k]] = lg[sd[i][k]]
    BY RecordedIs
  <1>2. \A i \in 1..Len(sd) : 1 \in 1..Len(sd[i])
    BY RecordedIs DEF Messages
  <1> HIDE DEF lg2
  <1>3. ASSUME NEW i \in 1..Len(sd), NEW k \in 1..Len(sd[i])
        PROVE  /\ lg2[sd[i][1]].kind # "assistant" => k = 1
               /\ lg2[sd[i][1]].kind = "assistant" =>
                    lg2[sd[i][k]].kind = "assistant" /\ lg2[sd[i][k]].id = sd[i][1]
    <2>1. lg2[sd[i][1]] = lg[sd[i][1]] /\ lg2[sd[i][k]] = lg[sd[i][k]]
      BY <1>1, <1>2
    <2> QED BY <2>1 DEF Messages
  <1>4. Messages(sd, lg2)
    BY <1>3 DEF Messages
  <1> QED BY <1>4 DEF lg2

\* A message begins.
LEMMA MessagesBegin ==
  ASSUME NEW sd, NEW lg, Recorded(sd, lg), Messages(sd, lg), NEW l \in Shown,
         l.kind = "assistant" => l.id = Len(lg) + 1
  PROVE  Messages(Append(sd, <<Len(lg) + 1>>), Append(lg, l))
  <1> DEFINE N == Len(lg)
             M == Len(sd)
             m == <<N + 1>>
             lg2 == Append(lg, l)
             sd2 == Append(sd, m)
  <1>1. Messages(sd, lg2)
    BY MessagesLine
  <1>2. /\ N \in Nat /\ M \in Nat
        /\ \A i \in 1..M : \A k \in 1..Len(sd[i]) : sd[i][k] \in 1..N
    BY RecordedIs
  <1>3. lg2[N + 1] = l
    BY RecordedIs
  <1>4. m[1] = N + 1 /\ Len(m) = 1
    OBVIOUS
  <1>5. /\ Len(sd2) = M + 1 /\ sd2[M + 1] = m /\ \A i \in 1..M : sd2[i] = sd[i]
        /\ \A i \in 1..(M + 1) : i \in 1..M \/ i = M + 1
    <2> HIDE DEF m
    <2>1. sd \in Seq(Seq(1..N))
      BY DEF Recorded
    <2> QED BY <2>1
  <1>6. l.kind = "assistant" => l.id = N + 1
    OBVIOUS
  <1> HIDE DEF N, M, m, lg2, sd2
  <1>7. \A i \in 1..M : 1 \in 1..Len(sd[i]) /\ sd[i][1] \in 1..N
    <2>1. \A i \in 1..M : Len(sd[i]) > 0
      BY <1>1 DEF Messages, M
    <2> QED BY <2>1, <1>2, RecordedIs DEF M
  <1>8. \A i \in 1..(M + 1) : Len(sd2[i]) > 0 /\ \A k \in 1..Len(sd2[i]) : sd2[i][1] <= sd2[i][k]
    <2>1. \A i \in 1..M : Len(sd[i]) > 0 /\ \A k \in 1..Len(sd[i]) : sd[i][1] <= sd[i][k]
      BY <1>1 DEF Messages, M
    <2>2. Len(m) > 0 /\ \A k \in 1..Len(m) : k = 1
      BY <1>4
    <2>3. \A k \in 1..Len(m) : m[1] <= m[k]
      BY <2>2, <1>4, <1>2
    <2> QED BY <2>1, <2>2, <2>3, <1>5
  <1>9. ASSUME NEW i \in 1..(M + 1), NEW j \in 1..(M + 1), i < j PROVE sd2[i][1] < sd2[j][1]
    <2>1. i \in 1..M
      BY <1>2, <1>9
    <2>2. CASE j \in 1..M
      BY <2>1, <2>2, <1>1, <1>5, <1>9 DEF Messages, M
    <2>3. CASE j = M + 1
      <3>1. sd[i][1] < N + 1
        BY <2>1, <1>2, <1>7
      <3> QED BY <3>1, <2>1, <2>3, <1>4, <1>5
    <2> QED BY <2>2, <2>3, <1>5
  <1>10. ASSUME NEW i \in 1..(M + 1), NEW k \in 1..Len(sd2[i])
         PROVE  /\ lg2[sd2[i][1]].kind # "assistant" => k = 1
                /\ lg2[sd2[i][1]].kind = "assistant" =>
                     lg2[sd2[i][k]].kind = "assistant" /\ lg2[sd2[i][k]].id = sd2[i][1]
    <2>1. CASE i \in 1..M
      BY <2>1, <1>1, <1>5 DEF Messages, M
    <2>2. CASE i = M + 1
      <3>1. k \in 1..1 /\ sd2[i] = m
        BY <2>2, <1>4, <1>5
      <3>2. k = 1 /\ sd2[i][k] = N + 1 /\ sd2[i][1] = N + 1
        BY <3>1, <1>4
      <3> QED BY <3>2, <1>3, <1>6
    <2> QED BY <2>1, <2>2, <1>5
  <1>11. Messages(sd2, lg2)
    <2>1. Len(sd2) = M + 1
      BY <1>5
    <2> QED BY <2>1, <1>8, <1>9, <1>10 DEF Messages
  <1> QED BY <1>11 DEF sd2, lg2, m, N

\* An assistant's message goes on.
LEMMA MessagesSnapshot ==
  ASSUME NEW sd, NEW lg, Recorded(sd, lg), Messages(sd, lg), NEW l \in Shown, NEW k \in 1..Len(sd),
         l.kind = "assistant", l.id = sd[k][1], lg[sd[k][1]].kind = "assistant",
         NEW sd2, sd2 = [sd EXCEPT ![k] = Append(@, Len(lg) + 1)]
  PROVE  Messages(sd2, Append(lg, l))
  <1> DEFINE N == Len(lg)
             M == Len(sd)
             n == Len(sd[k])
             m == Append(sd[k], N + 1)
             lg2 == Append(lg, l)
  <1>1. Messages(sd, lg2)
    BY MessagesLine
  <1>2. N \in Nat /\ M \in Nat /\ n \in Nat /\ sd[k] \in Seq(1..N) /\ \A i \in 1..n : sd[k][i] \in 1..N
    BY RecordedIs
  <1>3. lg2[N + 1] = l /\ \A i \in 1..N : lg2[i] = lg[i]
    BY RecordedIs
  <1>4. /\ Len(m) = n + 1 /\ m[n + 1] = N + 1 /\ \A i \in 1..n : m[i] = sd[k][i]
        /\ \A i \in 1..(n + 1) : i \in 1..n \/ i = n + 1
    <2>1. sd[k] \in Seq(Nat) /\ N + 1 \in Nat
      <3> HIDE DEF N
      <3> QED BY <1>2, SeqMonotonic, SMTT(30)
    <2> HIDE DEF N
    <2>2. m \in Seq(Nat) /\ Len(m) = Len(sd[k]) + 1 /\ m[Len(sd[k]) + 1] = N + 1 /\ \A i \in 1..Len(sd[k]) : m[i] = sd[k][i]
      BY <2>1, AppendProperties
    <2> HIDE DEF m
    <2> QED BY <2>2, <1>2
  <1>5. DOMAIN sd2 = 1..M /\ \A i \in 1..M : sd2[i] = IF i = k THEN m ELSE sd[i]
    <2> HIDE DEF m
    <2>1. sd2 = [sd EXCEPT ![k] = m]
      BY DEF m
    <2>2. DOMAIN sd = 1..M
      BY DEF Recorded
    <2> QED BY <2>1, <2>2
  <1>6. Len(sd2) = M
    BY <1>2, <1>5
  <1>7. l.kind = "assistant" /\ l.id = sd[k][1] /\ lg[sd[k][1]].kind = "assistant" /\ k \in 1..M /\ Len(sd) = M
    OBVIOUS
  <1> HIDE DEF N, M, n, m, lg2
  <1>8. \A i \in 1..M : Len(sd[i]) > 0 /\ \A j \in 1..Len(sd[i]) : sd[i][1] <= sd[i][j]
    BY <1>1, <1>7 DEF Messages
  <1>9. n > 0 /\ 1 \in 1..n /\ m[1] = sd[k][1] /\ lg2[m[1]].kind = "assistant"
    <2>1. n > 0
      BY <1>7, <1>8 DEF n
    <2>2. 1 \in 1..n
      BY <2>1, <1>2
    <2> QED BY <2>1, <2>2, <1>2, <1>3, <1>4, <1>7
  <1>10. ASSUME NEW i \in 1..M PROVE Len(sd2[i]) > 0 /\ sd2[i][1] = sd[i][1]
    BY <1>2, <1>4, <1>5, <1>8, <1>9
  <1>11. ASSUME NEW i \in 1..M, NEW j \in 1..Len(sd2[i]) PROVE sd2[i][1] <= sd2[i][j]
    <2>1. CASE i # k
      BY <2>1, <1>5, <1>8
    <2>2. CASE i = k /\ j \in 1..n
      <3>1. sd2[i][j] = sd[k][j] /\ j \in 1..Len(sd[k])
        BY <2>2, <1>4, <1>5 DEF n
      <3> QED BY <3>1, <2>2, <1>8, <1>10
    <2>3. CASE i = k /\ j = n + 1
      <3>1. sd2[i][j] = N + 1 /\ sd[k][1] \in 1..N
        BY <2>3, <1>2, <1>4, <1>5, <1>9
      <3> QED BY <3>1, <2>3, <1>2, <1>10
    <2> QED BY <2>1, <2>2, <2>3, <1>4, <1>5
  <1>12. \A i, j \in 1..M : i < j => sd2[i][1] < sd2[j][1]
    BY <1>1, <1>7, <1>10 DEF Messages
  <1>13. ASSUME NEW i \in 1..M, NEW j \in 1..Len(sd2[i])
         PROVE  /\ lg2[sd2[i][1]].kind # "assistant" => j = 1
                /\ lg2[sd2[i][1]].kind = "assistant" =>
                     lg2[sd2[i][j]].kind = "assistant" /\ lg2[sd2[i][j]].id = sd2[i][1]
    <2>0. \A e \in 1..Len(sd[i]) :
                /\ lg2[sd[i][1]].kind # "assistant" => e = 1
                /\ lg2[sd[i][1]].kind = "assistant" =>
                     lg2[sd[i][e]].kind = "assistant" /\ lg2[sd[i][e]].id = sd[i][1]
      BY <1>1, <1>7 DEF Messages
    <2>1. CASE i # k
      BY <2>0, <2>1, <1>5
    <2>2. CASE i = k /\ j \in 1..n
      <3>1. sd2[i][j] = sd[k][j] /\ j \in 1..Len(sd[k])
        BY <2>2, <1>4, <1>5 DEF n
      <3> QED BY <3>1, <2>0, <2>2, <1>10
    <2>3. CASE i = k /\ j = n + 1
      <3>1. sd2[i][j] = N + 1 /\ sd2[i][1] = sd[k][1] /\ lg2[sd2[i][1]].kind = "assistant"
        BY <2>3, <1>4, <1>5, <1>9
      <3> QED BY <3>1, <1>3, <1>7
    <2> QED BY <2>1, <2>2, <2>3, <1>4, <1>5
  <1>14. Messages(sd2, lg2)
    BY <1>6, <1>10, <1>11, <1>12, <1>13 DEF Messages
  <1> QED BY <1>14 DEF lg2

-----------------------------------------------------------------------------
(* What reading all of the lines leads to                                    *)

Session == [queue |-> queue, speaking |-> speaking, passed |-> passed, attached |-> attached]

\* The assistant message being written is the last turn, and what is queued waits.
Link(d, u) ==
  /\ u.speaking # 0 => d.last # 0 /\ d.turns[d.last].id = u.speaking
  /\ Queued(d.pending, u.queue, u.passed, u.attached)

\* Whatever of the file is held tells what it holds of the conversation, and all
\* of it links to the session.
Read(sd, lg, u) ==
  /\ \A b \in 1..(Len(lg) + 1) : Agree(sd, lg, b)
  /\ \A h : Reads(h, 1..Len(lg), lg) => Link(h[Len(lg)], u)

Right(d, sd, lg, u) ==
  d \in Dedup /\ Flat(d) = Told(sd, lg, 1..Len(lg)) /\ Link(d, u)

\* The chatDedup of who reads all of it.
LEMMA ReadRight ==
  ASSUME NEW lg \in Seq(Shown), NEW sd, NEW u, Read(sd, lg, u), NEW h, Reads(h, 1..Len(lg), lg)
  PROVE  Right(h[Len(lg)], sd, lg, u)
  <1>1. Len(lg) \in Nat
    OBVIOUS
  <1>2. h[Len(lg)] \in Dedup
    BY <1>1 DEF Reads
  <1>3. Len(lg) + 1 \in 1..(Len(lg) + 1)
    BY <1>1
  <1>4. Agree(sd, lg, Len(lg) + 1)
    BY <1>3 DEF Read
  <1>5. Flat(h[Len(lg)]) = Told(sd, lg, 1..Len(lg))
    BY <1>4, KeptAll DEF Agree
  <1> QED BY <1>2, <1>5 DEF Right, Read

\* A line that is added to such a chatDedup and leaves one.
Goes(l, sd, lg, u, sd2, u2) ==
  \A d : Right(d, sd, lg, u) =>
    /\ Flat(add(d, l)) = Told(sd2, Append(lg, l), 1..(Len(lg) + 1))
    /\ Link(add(d, l), u2)

\* And of one line more.
LEMMA LinkMore ==
  ASSUME NEW lg \in Seq(Shown), NEW l \in Shown, NEW sd, NEW u, Read(sd, lg, u), NEW u2,
         \A d : Right(d, sd, lg, u) => Link(add(d, l), u2),
         NEW h, Reads(h, 1..Len(Append(lg, l)), Append(lg, l))
  PROVE  Link(h[Len(Append(lg, l))], u2)
  <1> DEFINE N == Len(lg)  lg2 == Append(lg, l)
  <1>1. N \in Nat /\ Len(lg2) = N + 1
    OBVIOUS
  <1>2. \A n \in 1..N : n \in 1..N <=> n \in 1..(N + 1)
    BY <1>1
  <1>3. Reads(h, 1..(N + 1), lg2)
    BY <1>1
  <1>4. PICK f : Through(f, h, 1..N, 1..(N + 1), lg, l)
    BY <1>2, <1>3, ReadsPrefix
  <1>5. N + 1 \in 1..(N + 1)
    BY <1>1
  <1>6. h[N + 1] = add(f[N], l) /\ Reads(f, 1..N, lg)
    BY <1>4, <1>5 DEF Through
  <1>7. Right(f[N], sd, lg, u)
    BY <1>6, ReadRight
  <1> HIDE DEF N, lg2
  <1> QED BY <1>1, <1>6, <1>7 DEF lg2

\* A line that is not an enqueue.
LEMMA ReadOther ==
  ASSUME NEW lg \in Seq(Shown), NEW l \in Shown, l.kind # "enqueue", NEW sd, NEW u, Read(sd, lg, u),
         NEW sd2, NEW u2, Goes(l, sd, lg, u, sd2, u2),
         \A W \in SUBSET (1..Len(lg)) : Told(sd2, Append(lg, l), W) = Told(sd, lg, W)
  PROVE  Read(sd2, Append(lg, l), u2)
  <1>1. ASSUME NEW h, Reads(h, 1..Len(lg), lg)
        PROVE  Flat(add(h[Len(lg)], l)) = Told(sd2, Append(lg, l), 1..(Len(lg) + 1))
    BY <1>1, ReadRight DEF Goes
  <1>2. \A b \in 1..(Len(lg) + 1) : Agree(sd, lg, b)
    BY DEF Read
  <1>3. \A b \in 1..(Len(Append(lg, l)) + 1) : Agree(sd2, Append(lg, l), b)
    BY <1>1, <1>2, AgreeOther
  <1>4. \A d : Right(d, sd, lg, u) => Link(add(d, l), u2)
    BY DEF Goes
  <1>5. \A h : Reads(h, 1..Len(Append(lg, l)), Append(lg, l)) => Link(h[Len(Append(lg, l))], u2)
    BY <1>4, LinkMore
  <1> QED BY <1>3, <1>5 DEF Read

\* An enqueue.
LEMMA ReadEnqueue ==
  ASSUME NEW lg \in Seq(Shown), NEW l \in Shown, l.kind = "enqueue", NEW sd, NEW u, Read(sd, lg, u),
         NEW sd2, NEW u2, \A d : Right(d, sd, lg, u) => Link(add(d, l), u2),
         \A W \in SUBSET (1..Len(lg)) :
           Told(sd2, Append(lg, l), W \union {Len(lg) + 1}) = Append(Told(sd, lg, W), Turn(l))
  PROVE  Read(sd2, Append(lg, l), u2)
  <1>2. \A b \in 1..(Len(lg) + 1) : Agree(sd, lg, b)
    BY DEF Read
  <1>3. \A b \in 1..(Len(Append(lg, l)) + 1) : Agree(sd2, Append(lg, l), b)
    BY <1>2, AgreeEnqueue
  <1>5. \A h : Reads(h, 1..Len(Append(lg, l)), Append(lg, l)) => Link(h[Len(Append(lg, l))], u2)
    BY LinkMore
  <1> QED BY <1>3, <1>5 DEF Read

\* No line, but the session goes on.
LEMMA ReadSame ==
  ASSUME NEW lg \in Seq(Shown), NEW sd, NEW u, Read(sd, lg, u), NEW u2,
         \A d \in Dedup : Link(d, u) => Link(d, u2)
  PROVE  Read(sd, lg, u2)
  <1>1. ASSUME NEW h, Reads(h, 1..Len(lg), lg) PROVE Link(h[Len(lg)], u2)
    BY <1>1, ReadRight DEF Right
  <1> QED BY <1>1 DEF Read

\* The numbers up to the next one.
LEMMA UpToNext ==
  ASSUME NEW n \in Nat
  PROVE  1..(n + 1) = 1..n \union {n + 1} /\ 1..n \in SUBSET (1..n)
  OBVIOUS

\* Prompt of an idle session, its text not among the attached.
LEMMA ReadSays ==
  ASSUME NEW lg, NEW sd, Recorded(sd, lg), NEW u, Read(sd, lg, u),
         u.queue = <<>>, u.speaking = 0,
         NEW l \in Shown, l.kind = "user", l.text \notin u.attached
  PROVE  Read(Append(sd, <<Len(lg) + 1>>), Append(lg, l), u)
  <1> DEFINE N == Len(lg)  lg2 == Append(lg, l)  sd2 == Append(sd, <<N + 1>>)
  <1>1. lg \in Seq(Shown) /\ N \in Nat
    BY RecordedIs
  <1>2. \A W \in SUBSET (1..N) : /\ Told(sd2, lg2, W) = Told(sd, lg, W)
                                 /\ Told(sd2, lg2, W \union {N + 1}) = Append(Told(sd, lg, W), Turn(l))
    <2> HIDE DEF sd2
    <2>1. Begun(sd, lg, l, sd2)
      BY ToldMessage DEF sd2
    <2> QED BY <2>1 DEF Begun
  <1>3. Told(sd2, lg2, 1..(N + 1)) = Append(Told(sd, lg, 1..N), Turn(l))
    <2> HIDE DEF N
    <2> QED BY <1>1, <1>2, UpToNext
  <1>4. ASSUME NEW d, Right(d, sd, lg, u)
        PROVE  Flat(add(d, l)) = Told(sd2, lg2, 1..(N + 1)) /\ Link(add(d, l), u)
    <2>1. d \in Dedup /\ Flat(d) = Told(sd, lg, 1..N) /\ Queued(d.pending, <<>>, u.passed, u.attached)
      BY <1>4 DEF Right, Link
    <2>2. d.pending \in Seq(UserTurn)
      BY <2>1, DedupFields
    <2>3. \A i \in 1..Len(d.pending) : d.pending[i].text \in u.attached
      BY <2>1, <2>2, QueuedEmpty
    <2>4. Awaiting(d, l.text) = 0
      <3> DEFINE j == Awaiting(d, l.text)
      <3>1. j \in 0..Len(d.pending) /\ (j # 0 => d.pending[j].text = l.text)
        BY <2>1, AwaitingIs
      <3> HIDE DEF j
      <3>2. j = 0
        BY <3>1, <2>3
      <3> QED BY <3>2 DEF j
    <2>5. Flat(add(d, l)) = Append(Flat(d), Turn(l)) /\ add(d, l).pending = <<>>
      BY <2>1, <2>4, AddMessage
    <2>6. Queued(<<>>, <<>>, u.passed, u.attached)
      <3>1. <<>> \in Seq(Text) /\ ToSet(<<>>) \subseteq u.passed
        BY DEF ToSet
      <3> QED BY <3>1, QueuedNone
    <2>7. Link(add(d, l), u)
      BY <2>5, <2>6 DEF Link
    <2> QED BY <2>1, <2>5, <2>7, <1>3
  <1>5. Goes(l, sd, lg, u, sd2, u)
    BY <1>4 DEF Goes
  <1>6. \A W \in SUBSET (1..N) : Told(sd2, lg2, W) = Told(sd, lg, W)
    BY <1>2
  <1> HIDE DEF sd2
  <1>7. Read(sd2, lg2, u)
    BY <1>1, <1>5, <1>6, ReadOther
  <1> QED BY <1>7 DEF sd2

\* Said during a turn.
LEMMA ReadQueues ==
  ASSUME NEW lg, NEW sd, Recorded(sd, lg), NEW u, Read(sd, lg, u), u.queue \in Seq(Text),
         NEW l \in Shown, l.kind = "enqueue", l.text \in Text, NEW u2,
         u2.queue = Append(u.queue, l.text), u2.speaking = u.speaking,
         u2.passed = u.passed, u2.attached = u.attached
  PROVE  Read(Append(sd, <<Len(lg) + 1>>), Append(lg, l), u2)
  <1> DEFINE N == Len(lg)  lg2 == Append(lg, l)  sd2 == Append(sd, <<N + 1>>)
  <1>1. lg \in Seq(Shown)
    BY RecordedIs
  <1>2. \A W \in SUBSET (1..N) : Told(sd2, lg2, W \union {N + 1}) = Append(Told(sd, lg, W), Turn(l))
    <2> HIDE DEF sd2
    <2>1. Begun(sd, lg, l, sd2)
      BY ToldMessage DEF sd2
    <2> QED BY <2>1 DEF Begun
  <1>3. Turn(l) \in UserTurn /\ Turn(l).text = l.text
    BY TurnIs
  <1>4. ASSUME NEW d, Right(d, sd, lg, u) PROVE Link(add(d, l), u2)
    <2>1. d \in Dedup /\ Queued(d.pending, u.queue, u.passed, u.attached)
          /\ (u.speaking # 0 => d.last # 0 /\ d.turns[d.last].id = u.speaking)
      BY <1>4 DEF Right, Link
    <2>2. d.pending \in Seq(UserTurn)
      BY <2>1, DedupFields
    <2>3. /\ add(d, l).pending = Append(d.pending, Turn(l))
          /\ add(d, l).last = d.last /\ add(d, l).turns = d.turns
      BY <2>1, AddEnqueue
    <2>4. Queued(Append(d.pending, Turn(l)), Append(u.queue, Turn(l).text), u.passed, u.attached)
      BY <2>1, <2>2, <1>3, QueuedMore
    <2>5. Queued(add(d, l).pending, u2.queue, u2.passed, u2.attached)
      BY <2>3, <2>4, <1>3
    <2>6. u2.speaking # 0 => add(d, l).last # 0 /\ add(d, l).turns[add(d, l).last].id = u2.speaking
      BY <2>1, <2>3
    <2> QED BY <2>5, <2>6 DEF Link
  <1> HIDE DEF sd2
  <1>7. Read(sd2, lg2, u2)
    BY <1>1, <1>2, <1>4, ReadEnqueue
  <1> QED BY <1>7 DEF sd2

\* Taken from the queue as a prompt, not passed.
LEMMA ReadDrains ==
  ASSUME NEW lg, NEW sd, Recorded(sd, lg), NEW u, Read(sd, lg, u), u.queue \in Seq(Text),
         u.queue # <<>>, Head(u.queue) \notin u.passed,
         NEW l \in Shown, l.kind = "user", l.text = Head(u.queue), NEW u2,
         u2.queue = Tail(u.queue), u2.speaking = 0, u2.attached = u.attached
  PROVE  Read(sd, Append(lg, l), u2)
  <1> DEFINE N == Len(lg)  lg2 == Append(lg, l)
  <1>1. lg \in Seq(Shown) /\ N \in Nat
    BY RecordedIs
  <1>2. \A W \in SUBSET (1..N) : /\ Told(sd, lg2, W) = Told(sd, lg, W)
                                 /\ Told(sd, lg2, W \union {N + 1}) = Told(sd, lg, W)
    BY ToldLine
  <1>3. Told(sd, lg2, 1..(N + 1)) = Told(sd, lg, 1..N)
    <2> HIDE DEF N
    <2> QED BY <1>1, <1>2, UpToNext
  <1>4. ASSUME NEW d, Right(d, sd, lg, u)
        PROVE  Flat(add(d, l)) = Told(sd, lg2, 1..(N + 1)) /\ Link(add(d, l), u2)
    <2>1. d \in Dedup /\ Flat(d) = Told(sd, lg, 1..N) /\ Queued(d.pending, u.queue, u.passed, u.attached)
      BY <1>4 DEF Right, Link
    <2> DEFINE j == Awaiting(d, Head(u.queue))  p == SubSeq(d.pending, j + 1, Len(d.pending))
    <2>2. j # 0 /\ Queued(p, Tail(u.queue), u2.passed, u.attached)
      BY <2>1, QueuedDrain
    <2>3. j = Awaiting(d, l.text)
      OBVIOUS
    <2> HIDE DEF j
    <2>4. Flat(add(d, l)) = Flat(d) /\ add(d, l).pending = p
      BY <2>1, <2>2, <2>3, AddDrain
    <2>5. Queued(add(d, l).pending, u2.queue, u2.passed, u2.attached)
      BY <2>2, <2>4
    <2>6. Link(add(d, l), u2)
      BY <2>5 DEF Link
    <2> QED BY <2>1, <2>4, <2>6, <1>3
  <1>5. Goes(l, sd, lg, u, sd, u2)
    BY <1>4 DEF Goes
  <1>6. \A W \in SUBSET (1..N) : Told(sd, lg2, W) = Told(sd, lg, W)
    BY <1>2
  <1> QED BY <1>1, <1>5, <1>6, ReadOther

\* Taken from the queue as an attachment.
LEMMA ReadAttaches ==
  ASSUME NEW lg \in Seq(Shown), NEW sd, NEW u, Read(sd, lg, u), u.queue \in Seq(Text),
         u.queue # <<>>, NEW u2, u2.queue = Tail(u.queue), u2.speaking = 0,
         u2.passed = u.passed \intersect ToSet(Tail(u.queue)),
         u2.attached = u.attached \union {Head(u.queue)}
  PROVE  Read(sd, lg, u2)
  <1>1. ASSUME NEW d \in Dedup, Link(d, u) PROVE Link(d, u2)
    <2>1. Queued(d.pending, u.queue, u.passed, u.attached)
      BY <1>1 DEF Link
    <2>2. d.pending \in Seq(UserTurn)
      BY DedupFields
    <2>3. Queued(d.pending, u2.queue, u2.passed, u2.attached)
      BY <2>1, <2>2, QueuedAttach
    <2> QED BY <2>3 DEF Link
  <1> QED BY <1>1, ReadSame

\* The lines' timestamps are their places, and no message begins after its lines.
Stamped(lg) == \A n \in 1..Len(lg) : lg[n].ts = n /\ lg[n].id <= n

\* A line with the next timestamp.
LEMMA StampedMore ==
  ASSUME NEW lg \in Seq(Shown), Stamped(lg), NEW l \in Shown, l.ts = Len(lg) + 1, l.id <= Len(lg) + 1
  PROVE  Stamped(Append(lg, l))
  <1> DEFINE lg2 == Append(lg, l)  N == Len(lg)
  <1>1. N \in Nat /\ Len(lg2) = N + 1 /\ lg2[N + 1] = l /\ \A n \in 1..N : lg2[n] = lg[n]
    OBVIOUS
  <1>2. l.ts = N + 1 /\ l.id <= N + 1 /\ \A n \in 1..N : lg[n].ts = n /\ lg[n].id <= n
    BY DEF Stamped
  <1> HIDE DEF lg2, N
  <1>3. \A n \in 1..(N + 1) : lg2[n].ts = n /\ lg2[n].id <= n
    BY <1>1, <1>2
  <1>4. Stamped(lg2)
    BY <1>1, <1>3 DEF Stamped
  <1> QED BY <1>4 DEF lg2

\* No turn has an id that is still to come.
LEMMA TurnsBefore ==
  ASSUME NEW lg, NEW sd, Recorded(sd, lg), Stamped(lg), NEW W
  PROVE  \A k \in 1..Len(Told(sd, lg, W)) : Told(sd, lg, W)[k].id # Len(lg) + 1
  <1> DEFINE all == Told(sd, lg, W)  N == Len(lg)
  <1>1. lg \in Seq(Shown) /\ N \in Nat
    BY RecordedIs
  <1>2. \A k \in 1..Len(all) : \E e \in W : e \in 1..N /\ all[k] = Turn(lg[e])
    BY ToldHeld
  <1> HIDE DEF all
  <1>3. ASSUME NEW k \in 1..Len(all) PROVE all[k].id # N + 1
    <2>1. PICK e \in W : e \in 1..N /\ all[k] = Turn(lg[e])
      BY <1>2
    <2>2. lg[e] \in Shown /\ lg[e].id <= e
      BY <2>1, <1>1 DEF Stamped
    <2>3. all[k].id = lg[e].id /\ lg[e].id \in Nat
      BY <2>1, <2>2, TurnIs DEF Shown, LineSet
    <2> QED BY <2>1, <2>2, <2>3, <1>1
  <1> QED BY <1>3 DEF all

\* The last turn is in all of them.
LEMMA LastIs ==
  ASSUME NEW d \in Dedup, d.last # 0
  PROVE  /\ d.last \in 1..Len(Flat(d)) /\ Flat(d)[d.last] = d.turns[d.last]
         /\ Flat(d)[d.last].role = "assistant"
  <1> DEFINE s == d.turns  t == d.pending  n == d.last
  <1>1. s \in Seq(TurnSet) /\ t \in Seq(TurnSet)
    BY PendingTurns
  <1>2. n \in Nat /\ n = Len(s) /\ s[n].role = "assistant" /\ n # 0
    BY DedupFields
  <1>3. Flat(d) = s \o t
    BY DEF Flat
  <1> HIDE DEF s, t, n
  <1>4. Len(s \o t) = Len(s) + Len(t) /\ Len(t) \in Nat /\ \A i \in 1..Len(s) : (s \o t)[i] = s[i]
    BY <1>1, TurnsConcat
  <1>5. n \in 1..Len(s \o t) /\ (s \o t)[n] = s[n]
    BY <1>2, <1>4
  <1> QED BY <1>2, <1>3, <1>5 DEF s, n

\* An assistant message begins.
LEMMA ReadReplies ==
  ASSUME NEW lg, NEW sd, Recorded(sd, lg), Stamped(lg), NEW u, Read(sd, lg, u),
         u.queue \in Seq(Text), NEW l \in Shown, l.kind = "assistant", l.id = Len(lg) + 1,
         NEW u2, u2.queue = u.queue, u2.speaking = l.id, u2.passed = u.passed \union ToSet(u.queue)
  PROVE  Read(Append(sd, <<Len(lg) + 1>>), Append(lg, l), u2)
  <1> DEFINE N == Len(lg)  lg2 == Append(lg, l)  sd2 == Append(sd, <<N + 1>>)
  <1>1. lg \in Seq(Shown) /\ N \in Nat
    BY RecordedIs
  <1>2. \A W \in SUBSET (1..N) : /\ Told(sd2, lg2, W) = Told(sd, lg, W)
                                 /\ Told(sd2, lg2, W \union {N + 1}) = Append(Told(sd, lg, W), Turn(l))
    <2> HIDE DEF sd2
    <2>1. Begun(sd, lg, l, sd2)
      BY ToldMessage DEF sd2
    <2> QED BY <2>1 DEF Begun
  <1>3. Told(sd2, lg2, 1..(N + 1)) = Append(Told(sd, lg, 1..N), Turn(l))
    <2> HIDE DEF N
    <2> QED BY <1>1, <1>2, UpToNext
  <1>4. ASSUME NEW d, Right(d, sd, lg, u)
        PROVE  Flat(add(d, l)) = Told(sd2, lg2, 1..(N + 1)) /\ Link(add(d, l), u2)
    <2>1. d \in Dedup /\ Flat(d) = Told(sd, lg, 1..N)
      BY <1>4 DEF Right
    <2>2. \A k \in 1..Len(Flat(d)) : Flat(d)[k].id # l.id
      BY <2>1, TurnsBefore
    <2>3. ~ (d.last # 0 /\ d.turns[d.last].id = l.id)
      BY <2>1, <2>2, LastIs
    <2>5. /\ Flat(add(d, l)) = Append(Flat(d), Turn(l)) /\ add(d, l).pending = <<>>
          /\ add(d, l).last # 0 /\ add(d, l).turns[add(d, l).last] = Turn(l)
      BY <2>1, <2>3, AddMessage
    <2>6. Queued(<<>>, u2.queue, u2.passed, u2.attached)
      BY QueuedNone
    <2>7. Turn(l).id = l.id
      BY TurnIs
    <2>8. Link(add(d, l), u2)
      BY <2>5, <2>6, <2>7 DEF Link
    <2> QED BY <2>1, <2>5, <2>8, <1>3
  <1>5. Goes(l, sd, lg, u, sd2, u2)
    BY <1>4 DEF Goes
  <1>6. \A W \in SUBSET (1..N) : Told(sd2, lg2, W) = Told(sd, lg, W)
    BY <1>2
  <1> HIDE DEF sd2
  <1>7. Read(sd2, lg2, u2)
    BY <1>1, <1>5, <1>6, ReadOther
  <1> QED BY <1>7 DEF sd2

\* A message's lines are all there: it has the id of the first.
LEMMA WholeId ==
  ASSUME NEW lg, NEW sd, Recorded(sd, lg), Messages(sd, lg), NEW i \in 1..Len(sd),
         NEW all, all = Told(sd, lg, 1..Len(lg))
  PROVE  /\ Len(all) = Len(sd)
         /\ all[i].role = "assistant" => lg[sd[i][1]].kind = "assistant" /\ all[i].id = sd[i][1]
  <1> DEFINE N == Len(lg)  W == 1..N  T == There(sd[i], W)  e == Max(T)
  <1>1. lg \in Seq(Shown) /\ N \in Nat /\ sd[i] \in Seq(1..N) /\ Len(sd[i]) \in Nat
    BY RecordedIs
  <1>2. ASSUME NEW j \in 1..Len(sd) PROVE There(sd[j], W) # {} /\ There(sd[j], W) = ToSet(sd[j])
    <2>1. sd[j] \in Seq(1..N) /\ Len(sd[j]) > 0
      BY RecordedIs DEF Messages
    <2>2. ToSet(sd[j]) \subseteq W /\ sd[j][1] \in ToSet(sd[j])
      BY <1>1, <2>1, ToSetIs
    <2> HIDE DEF W
    <2> QED BY <2>2 DEF There
  <1>3. SomeHeld(sd, W)
    BY <1>2 DEF SomeHeld
  <1>4. AllTold(all, sd, lg, W)
    <2> HIDE DEF W
    <2>1. AllTold(Told(sd, lg, W), sd, lg, W)
      BY <1>3, ToldWhole
    <2> QED BY <2>1 DEF W
  <1>5. Len(all) = Len(sd) /\ all[i] = Turn(lg[e])
    BY <1>4 DEF AllTold
  <1>6. e \in T /\ e \in 1..N
    <2>1. T # {}
      BY <1>2
    <2> HIDE DEF W
    <2> QED BY <2>1, <1>1, LatestIs
  <1>7. PICK k \in 1..Len(sd[i]) : sd[i][k] = e
    <2>1. e \in ToSet(sd[i])
      BY <1>6, <1>2
    <2> HIDE DEF e
    <2> QED BY <2>1, <1>1, ToSetIs
  <1> HIDE DEF e
  <1>8. all[i].role = "assistant" <=> lg[e].kind = "assistant"
    BY <1>1, <1>5, <1>6, TurnIs
  <1>9. all[i].id = lg[e].id
    BY <1>1, <1>5, <1>6, TurnIs
  <1>10. /\ lg[sd[i][1]].kind # "assistant" => k = 1
         /\ lg[sd[i][1]].kind = "assistant" => lg[e].kind = "assistant" /\ lg[e].id = sd[i][1]
    <2>1. /\ lg[sd[i][1]].kind # "assistant" => k = 1
          /\ lg[sd[i][1]].kind = "assistant" => lg[sd[i][k]].kind = "assistant" /\ lg[sd[i][k]].id = sd[i][1]
      BY DEF Messages
    <2> QED BY <2>1, <1>7
  <1>11. lg[e].kind = "assistant" => lg[sd[i][1]].kind = "assistant"
    BY <1>7, <1>10
  <1> QED BY <1>5, <1>8, <1>9, <1>10, <1>11

\* The assistant message being written goes on.
LEMMA ReadSnapshots ==
  ASSUME NEW lg, NEW sd, Recorded(sd, lg), Messages(sd, lg), NEW u, Read(sd, lg, u),
         NEW k \in 1..Len(sd), sd[k][1] = u.speaking, u.speaking # 0,
         NEW l \in Shown, l.kind = "assistant", l.id = u.speaking,
         NEW sd2, sd2 = [sd EXCEPT ![k] = Append(@, Len(lg) + 1)]
  PROVE  Read(sd2, Append(lg, l), u)
  <1> DEFINE N == Len(lg)  lg2 == Append(lg, l)  all == Told(sd, lg, 1..N)
  <1>1. lg \in Seq(Shown) /\ N \in Nat /\ Len(sd) \in Nat
    BY RecordedIs
  <1>2. /\ Recorded(sd2, lg2) /\ \A W \in SUBSET (1..N) : Told(sd2, lg2, W) = Told(sd, lg, W)
        /\ Told(sd2, lg2, 1..(N + 1)) = [all EXCEPT ![k] = Turn(l)]
    <2>1. \A i \in 1..Len(sd) : Len(sd[i]) > 0
      BY DEF Messages
    <2>2. WentOn(sd, lg, l, k, sd2)
      BY <2>1, ToldSnapshot
    <2> QED BY <2>2 DEF WentOn
  <1>4. ASSUME NEW d, Right(d, sd, lg, u)
        PROVE  Flat(add(d, l)) = Told(sd2, lg2, 1..(N + 1)) /\ Link(add(d, l), u)
    <2> DEFINE i == d.last
    <2>1. d \in Dedup /\ Flat(d) = all /\ i # 0 /\ d.turns[i].id = u.speaking
          /\ Queued(d.pending, u.queue, u.passed, u.attached)
      BY <1>4 DEF Right, Link
    <2>2. i \in 1..Len(all) /\ all[i] = d.turns[i] /\ all[i].role = "assistant"
      BY <2>1, LastIs
    <2>3. Len(all) = Len(sd)
      BY WholeId
    <2>4. all[i].id = sd[i][1]
      <3> HIDE DEF i
      <3>1. i \in 1..Len(sd)
        BY <2>2, <2>3
      <3> QED BY <3>1, <2>2, WholeId
    <2>5. i = k
      <3> HIDE DEF i, all
      <3>1. sd[i][1] = sd[k][1]
        BY <2>1, <2>2, <2>4
      <3>2. i \in 1..Len(sd) /\ sd[i][1] \in Nat
        <4>1. i \in 1..Len(sd)
          BY <2>2, <2>3
        <4>2. Len(sd[i]) > 0
          BY <4>1 DEF Messages
        <4>3. sd[i] \in Seq(1..N)
          BY <4>1, RecordedIs
        <4>4. Len(sd[i]) \in Nat /\ 1 \in 1..Len(sd[i])
          BY <4>2, <4>3
        <4>5. sd[i][1] \in 1..N
          BY <4>3, <4>4, ElementOfSeq
        <4> QED BY <4>1, <4>5
      <3>3. (i < k => sd[i][1] < sd[k][1]) /\ (k < i => sd[k][1] < sd[i][1])
        BY <3>2 DEF Messages
      <3> QED BY <3>1, <3>2, <3>3, <1>1
    <2>6. /\ Flat(add(d, l)) = [Flat(d) EXCEPT ![d.last] = Turn(l)]
          /\ add(d, l).pending = d.pending /\ add(d, l).last = d.last
          /\ add(d, l).turns[d.last] = Turn(l)
      BY <2>1, AddSnapshot
    <2>7. Flat(add(d, l)) = Told(sd2, lg2, 1..(N + 1))
      BY <2>1, <2>5, <2>6, <1>2
    <2>8. Turn(l).id = u.speaking
      BY TurnIs
    <2>9. Link(add(d, l), u)
      BY <2>1, <2>6, <2>8 DEF Link
    <2> QED BY <2>7, <2>9
  <1>5. Goes(l, sd, lg, u, sd2, u)
    BY <1>4 DEF Goes
  <1>6. \A W \in SUBSET (1..N) : Told(sd2, lg2, W) = Told(sd, lg, W)
    BY <1>2
  <1> QED BY <1>1, <1>5, <1>6, ReadOther

-----------------------------------------------------------------------------
(* What Claude Code has written                                              *)

\* The lines Claude Code writes.
LEMMA LinesAre ==
  ASSUME NEW n \in Nat, NEW t \in Text, NEW k \in Nat, NEW m \in Nat
  PROVE  /\ Line("user", t, 0, n) \in Shown /\ Line("enqueue", t, 0, n) \in Shown
         /\ Line("assistant", k, m, n) \in Shown
         /\ Line("remove", t, 0, n) \in FileLine /\ ~ Displayed(Line("remove", t, 0, n))
  BY DEF Line, Shown, FileLine, LineSet, Words, Displayed

\* Their fields.
LEMMA LineIs ==
  ASSUME NEW a, NEW b, NEW c, NEW d
  PROVE  Line(a, b, c, d).kind = a /\ Line(a, b, c, d).text = b
         /\ Line(a, b, c, d).id = c /\ Line(a, b, c, d).ts = d
  BY DEF Line

\* The message being written is an assistant's.
Spoken(sp, lg) == sp \in 0..Len(lg) /\ (sp # 0 => lg[sp].kind = "assistant")

\* It stays one, and there may be none.
LEMMA SpokenMore ==
  ASSUME NEW lg \in Seq(Shown), NEW sp, Spoken(sp, lg), NEW l \in Shown
  PROVE  Spoken(sp, Append(lg, l)) /\ Spoken(0, Append(lg, l)) /\ Spoken(0, lg)
  <1> DEFINE N == Len(lg)  lg2 == Append(lg, l)
  <1>1. N \in Nat /\ Len(lg2) = N + 1 /\ \A n \in 1..N : lg2[n] = lg[n]
    OBVIOUS
  <1>2. sp \in 0..N /\ (sp # 0 => lg[sp].kind = "assistant")
    BY DEF Spoken
  <1> HIDE DEF N, lg2
  <1>3. sp \in 0..(N + 1) /\ (sp # 0 => lg2[sp].kind = "assistant")
    BY <1>1, <1>2
  <1>4. 0 \in 0..(N + 1) /\ 0 \in 0..N
    BY <1>1
  <1>5. Spoken(sp, lg2) /\ Spoken(0, lg2)
    BY <1>1, <1>3, <1>4 DEF Spoken
  <1>6. Spoken(0, lg)
    BY <1>4 DEF Spoken, N
  <1> QED BY <1>5, <1>6 DEF lg2

\* A new assistant's message.
LEMMA SpokenNew ==
  ASSUME NEW lg \in Seq(Shown), NEW l \in Shown, l.kind = "assistant"
  PROVE  Spoken(Len(lg) + 1, Append(lg, l))
  BY DEF Spoken

\* The file, the buffer, the queue, the log and the messages.
WellWritten ==
  /\ lines \in Seq(FileLine) /\ buffer \in Seq(Shown) /\ queue \in Seq(Text)
  /\ Recorded(said, log) /\ Messages(said, log) /\ Stamped(log)
  /\ InFile(lines, buffer, log)
  /\ Spoken(speaking, log) /\ (speaking # 0 => busy)

\* What the log is.
LEMMA WrittenLog == ASSUME WellWritten PROVE log \in Seq(Shown) /\ Len(log) \in Nat /\ Now \in Nat
  BY RecordedIs DEF WellWritten, Now

\* A line that goes through the buffer, with what it is told as.
LEMMA WrittenBuffers ==
  ASSUME WellWritten, NEW l \in Shown, l.kind # "enqueue", l.ts = Now, l.id <= Now, Buffers(l),
         Recorded(said', Append(log, l)), Messages(said', Append(log, l)), UNCHANGED queue,
         Spoken(speaking', Append(log, l)), speaking' # 0 => busy'
  PROVE  WellWritten'
  <1>1. log \in Seq(Shown) /\ Len(log) \in Nat
    BY WrittenLog
  <1>2. log' = Append(log, l) /\ buffer' = Append(buffer, l) /\ lines' = lines
    BY DEF Buffers
  <1>3. buffer' \in Seq(Shown) /\ lines' \in Seq(FileLine) /\ queue' \in Seq(Text)
    BY <1>2 DEF WellWritten
  <1>4. Stamped(log')
    BY <1>1, <1>2, StampedMore DEF WellWritten, Now
  <1>5. InFile(lines', buffer', log')
    BY <1>1, <1>2, FileBuffers DEF WellWritten, Now
  <1>6. Recorded(said', log') /\ Messages(said', log') /\ Spoken(speaking', log')
    BY <1>2
  <1> QED BY <1>3, <1>4, <1>5, <1>6 DEF WellWritten

\* Each action keeps it.
LEMMA WrittenSays ==
  ASSUME WellWritten, NEW t \in Text, Says(t)
  PROVE  WellWritten'
  <1> DEFINE l == Line("user", t, 0, Now)
  <1>1. log \in Seq(Shown) /\ Len(log) \in Nat /\ Now \in Nat /\ Now = Len(log) + 1
    BY WrittenLog DEF Now
  <1>2. l \in Shown /\ l.kind = "user" /\ l.ts = Now /\ l.id = 0
    BY <1>1, LinesAre, LineIs
  <1>3. Buffers(l) /\ said' = Append(said, <<Len(log) + 1>>) /\ UNCHANGED <<queue, speaking>> /\ busy' = TRUE
    BY DEF Says, Message, Now
  <1> HIDE DEF l
  <1>4. Recorded(said', Append(log, l))
    <2>1. Begun(said, log, l, said')
      BY <1>2, <1>3, ToldMessage DEF WellWritten
    <2> QED BY <2>1 DEF Begun
  <1>5. Messages(said', Append(log, l))
    BY <1>2, <1>3, MessagesBegin DEF WellWritten
  <1>6. Spoken(speaking', Append(log, l)) /\ speaking' = speaking /\ queue' = queue
    BY <1>1, <1>2, <1>3, SpokenMore DEF WellWritten
  <1>7. l.id <= Now
    BY <1>1, <1>2
  <1>8. speaking' # 0 => busy'
    BY <1>3
  <1>9. l.kind # "enqueue" /\ UNCHANGED queue
    BY <1>2, <1>3
  <1> QED BY <1>2, <1>3, <1>4, <1>5, <1>6, <1>7, <1>8, <1>9, WrittenBuffers

LEMMA WrittenQueues ==
  ASSUME WellWritten, NEW t \in Text, Queues(t)
  PROVE  WellWritten'
  <1> DEFINE l == Line("enqueue", t, 0, Now)
  <1>1. log \in Seq(Shown) /\ Len(log) \in Nat /\ Now \in Nat /\ Now = Len(log) + 1
    BY WrittenLog DEF Now
  <1>2. l \in Shown /\ l.kind = "enqueue" /\ l.ts = Now /\ l.id = 0
    BY <1>1, LinesAre, LineIs
  <1>3. /\ log' = Append(log, l) /\ lines' = Append(lines, l) /\ buffer' = buffer
        /\ said' = Append(said, <<Len(log) + 1>>) /\ speaking' = speaking /\ busy' = busy
        /\ queue' = Append(queue, t)
    BY DEF Queues, Writes, Message, Now
  <1> HIDE DEF l
  <1>4. Recorded(said', log')
    <2>1. Begun(said, log, l, said')
      BY <1>2, <1>3, ToldMessage DEF WellWritten
    <2> QED BY <2>1, <1>3 DEF Begun
  <1>5. Messages(said', log')
    BY <1>2, <1>3, MessagesBegin DEF WellWritten
  <1>6. Spoken(speaking', log') /\ (speaking' # 0 => busy')
    BY <1>1, <1>2, <1>3, SpokenMore DEF WellWritten
  <1>7. Stamped(log')
    <2>1. l.id <= Len(log) + 1 /\ l.ts = Len(log) + 1
      BY <1>1, <1>2
    <2> QED BY <2>1, <1>1, <1>2, <1>3, StampedMore DEF WellWritten
  <1>8. InFile(lines', buffer', log')
    BY <1>1, <1>2, <1>3, FileWrites DEF WellWritten
  <1>9. buffer' \in Seq(Shown) /\ lines' \in Seq(FileLine) /\ queue' \in Seq(Text)
    <2>1. l \in FileLine
      BY <1>2 DEF FileLine, Shown
    <2> QED BY <2>1, <1>3 DEF WellWritten
  <1> QED BY <1>4, <1>5, <1>6, <1>7, <1>8, <1>9 DEF WellWritten

\* The queue's line when a text is taken.
LEMMA RemovalIs ==
  ASSUME WellWritten, queue # <<>>
  PROVE  /\ Head(queue) \in Text /\ Tail(queue) \in Seq(Text)
         /\ Removal \in FileLine /\ ~ Displayed(Removal)
         /\ Append(lines, Removal) \in Seq(FileLine)
         /\ InFile(Append(lines, Removal), buffer, log)
  <1>1. queue \in Seq(Text) /\ lines \in Seq(FileLine) /\ buffer \in Seq(Shown)
        /\ InFile(lines, buffer, log)
    BY DEF WellWritten
  <1>2. Head(queue) \in Text /\ Tail(queue) \in Seq(Text)
    BY <1>1, HeadTailProperties
  <1>3. Removal \in FileLine /\ ~ Displayed(Removal)
    BY <1>2, WrittenLog, LinesAre DEF Removal
  <1>4. InFile(Append(lines, Removal), buffer, log)
    BY <1>1, <1>3, WrittenLog, FileRemoves
  <1> QED BY <1>1, <1>2, <1>3, <1>4, AppendProperties

LEMMA WrittenDrains ==
  ASSUME WellWritten, Drains
  PROVE  WellWritten'
  <1> DEFINE l == Line("user", Head(queue), 0, Now)
  <1>1. log \in Seq(Shown) /\ Len(log) \in Nat /\ Now \in Nat /\ Now = Len(log) + 1
    BY WrittenLog DEF Now
  <1>2. /\ queue # <<>> /\ log' = Append(log, l) /\ lines' = Append(lines, Removal)
        /\ buffer' = Append(buffer, l) /\ said' = said /\ speaking' = 0 /\ busy' = TRUE
        /\ queue' = Tail(queue)
    BY DEF Drains
  <1>3. /\ Head(queue) \in Text /\ queue' \in Seq(Text) /\ lines' \in Seq(FileLine)
        /\ InFile(lines', buffer, log)
    BY <1>2, RemovalIs
  <1>4. l \in Shown /\ l.kind = "user" /\ l.ts = Now /\ l.id = 0
    BY <1>1, <1>3, LinesAre, LineIs
  <1> HIDE DEF l
  <1>5. Recorded(said', log') /\ Messages(said', log')
    BY <1>2, <1>4, ToldLine, MessagesLine DEF WellWritten
  <1>6. Spoken(speaking', log') /\ (speaking' # 0 => busy')
    BY <1>1, <1>2, <1>4, SpokenMore DEF WellWritten
  <1>7. Stamped(log')
    <2>1. l.id <= Len(log) + 1 /\ l.ts = Len(log) + 1
      BY <1>1, <1>4
    <2> QED BY <2>1, <1>1, <1>2, <1>4, StampedMore DEF WellWritten
  <1>8. buffer \in Seq(Shown)
    BY DEF WellWritten
  <1>9. InFile(lines', buffer', log') /\ buffer' \in Seq(Shown)
    <2>1. l.kind # "enqueue" /\ l.ts = Len(log) + 1
      BY <1>1, <1>4
    <2>2. InFile(lines', Append(buffer, l), Append(log, l))
      BY <2>1, <1>1, <1>3, <1>4, <1>8, FileBuffers
    <2> QED BY <2>2, <1>2, <1>4, <1>8, AppendProperties
  <1> QED BY <1>3, <1>5, <1>6, <1>7, <1>9 DEF WellWritten

LEMMA WrittenAttaches ==
  ASSUME WellWritten, Attaches
  PROVE  WellWritten'
  <1>1. log \in Seq(Shown) /\ Len(log) \in Nat
    BY WrittenLog
  <1>2. /\ queue # <<>> /\ log' = log /\ lines' = Append(lines, Removal)
        /\ buffer' = buffer /\ said' = said /\ speaking' = 0
        /\ queue' = Tail(queue)
    BY DEF Attaches
  <1>3. queue' \in Seq(Text) /\ lines' \in Seq(FileLine) /\ InFile(lines', buffer', log')
    BY <1>2, RemovalIs
  <1>4. Spoken(0, log')
    BY <1>1, <1>2 DEF Spoken
  <1>5. buffer' \in Seq(Shown) /\ Recorded(said', log') /\ Messages(said', log') /\ Stamped(log')
    BY <1>2 DEF WellWritten
  <1> QED BY <1>2, <1>3, <1>4, <1>5 DEF WellWritten

LEMMA WrittenReplies ==
  ASSUME WellWritten, Replies
  PROVE  WellWritten'
  <1> DEFINE l == Line("assistant", 1, Now, Now)
  <1>1. log \in Seq(Shown) /\ Len(log) \in Nat /\ Now \in Nat /\ Now = Len(log) + 1
    BY WrittenLog DEF Now
  <1>2. l \in Shown /\ l.kind = "assistant" /\ l.ts = Now /\ l.id = Now
    <2>1. l \in Shown
      BY <1>1 DEF Line, Shown, LineSet, Words, Displayed
    <2> QED BY <2>1, LineIs
  <1>3. /\ Buffers(l) /\ said' = Append(said, <<Len(log) + 1>>) /\ queue' = queue
        /\ speaking' = Len(log) + 1 /\ busy' = TRUE
    BY DEF Replies, Message, Now, WellWritten, Spoken
  <1> HIDE DEF l
  <1>4. Recorded(said', Append(log, l))
    <2>1. Begun(said, log, l, said')
      BY <1>2, <1>3, ToldMessage DEF WellWritten
    <2> QED BY <2>1 DEF Begun
  <1>5. Messages(said', Append(log, l))
    BY <1>1, <1>2, <1>3, MessagesBegin DEF WellWritten
  <1>6. Spoken(speaking', Append(log, l))
    BY <1>1, <1>2, <1>3, SpokenNew
  <1>7. l.id <= Now /\ l.kind # "enqueue" /\ UNCHANGED queue /\ (speaking' # 0 => busy')
    BY <1>1, <1>2, <1>3
  <1> QED BY <1>2, <1>3, <1>4, <1>5, <1>6, <1>7, WrittenBuffers

\* The message that is being written, and its next line.
Snapshot(i, l) ==
  /\ i \in 1..Len(said) /\ said[i][1] = speaking /\ speaking # 0
  /\ l \in Shown /\ l.kind = "assistant" /\ l.id = speaking /\ l.ts = Now /\ l.id <= Now
  /\ log[said[i][1]].kind = "assistant"
  /\ Buffers(l) /\ said' = [said EXCEPT ![i] = Append(@, Len(log) + 1)]

\* Snapshots is one of those.
LEMMA SnapshotIs ==
  ASSUME WellWritten, Snapshots
  PROVE  \E i, l : Snapshot(i, l)
  <1>1. log \in Seq(Shown) /\ Len(log) \in Nat /\ Now \in Nat /\ Now = Len(log) + 1
    BY WrittenLog DEF Now
  <1>2. speaking # 0
    BY DEF Snapshots
  <1>3. PICK i \in DOMAIN said :
          /\ said[i][1] = speaking /\ Buffers(Line("assistant", Len(said[i]) + 1, speaking, Now))
          /\ said' = [said EXCEPT ![i] = Append(@, Now)]
    BY DEF Snapshots
  <1> DEFINE l == Line("assistant", Len(said[i]) + 1, speaking, Now)
  <1>4. i \in 1..Len(said) /\ Len(said[i]) \in Nat
    <2>1. said \in Seq(Seq(1..Len(log)))
      BY DEF WellWritten, Recorded
    <2> HIDE DEF l
    <2>2. i \in 1..Len(said)
      BY <2>1, <1>3
    <2> QED BY <2>1, <2>2
  <1>5. speaking \in Nat /\ speaking <= Now /\ log[speaking].kind = "assistant"
    BY <1>1, <1>2 DEF WellWritten, Spoken
  <1>6. l \in Shown
    BY <1>1, <1>4, <1>5 DEF Line, Shown, LineSet, Words, Displayed
  <1>7. l.kind = "assistant" /\ l.id = speaking /\ l.ts = Now
    BY LineIs
  <1>8. Buffers(l)
    BY <1>3
  <1> HIDE DEF l
  <1>9. Snapshot(i, l)
    BY <1>1, <1>2, <1>3, <1>4, <1>5, <1>6, <1>7, <1>8 DEF Snapshot
  <1> QED BY <1>9

LEMMA WrittenSnapshots ==
  ASSUME WellWritten, Snapshots
  PROVE  WellWritten'
  <1>1. log \in Seq(Shown) /\ Len(log) \in Nat /\ Now \in Nat /\ Now = Len(log) + 1
    BY WrittenLog DEF Now
  <1>2. PICK i, l : Snapshot(i, l)
    BY SnapshotIs
  <1>3. /\ i \in 1..Len(said) /\ said[i][1] = speaking
        /\ l \in Shown /\ l.kind = "assistant" /\ l.id = said[i][1] /\ l.ts = Now /\ l.id <= Now
        /\ log[said[i][1]].kind = "assistant"
        /\ Buffers(l) /\ said' = [said EXCEPT ![i] = Append(@, Len(log) + 1)]
    BY <1>2 DEF Snapshot
  <1>4. \A j \in 1..Len(said) : Len(said[j]) > 0
    BY DEF WellWritten, Messages
  <1>5. Recorded(said', Append(log, l))
    <2>1. WentOn(said, log, l, i, said')
      BY <1>3, <1>4, ToldSnapshot DEF WellWritten
    <2> QED BY <2>1 DEF WentOn
  <1>6. Messages(said', Append(log, l))
    BY <1>3, MessagesSnapshot DEF WellWritten
  <1>7. UNCHANGED queue /\ speaking' = speaking /\ busy' = busy
    BY DEF Snapshots
  <1>8. Spoken(speaking', Append(log, l)) /\ (speaking' # 0 => busy')
    BY <1>1, <1>3, <1>7, SpokenMore DEF WellWritten
  <1>9. l.kind # "enqueue"
    BY <1>3
  <1> QED BY <1>3, <1>5, <1>6, <1>7, <1>8, <1>9, WrittenBuffers

LEMMA WrittenFlushes ==
  ASSUME WellWritten, Flushes
  PROVE  WellWritten'
  <1>1. log \in Seq(Shown) /\ Len(log) \in Nat
    BY WrittenLog
  <1>2. /\ buffer # <<>> /\ lines' = Append(lines, Head(buffer)) /\ buffer' = Tail(buffer)
        /\ log' = log /\ said' = said /\ speaking' = speaking /\ queue' = queue /\ busy' = busy
    BY DEF Flushes
  <1>3. buffer \in Seq(Shown) /\ lines \in Seq(FileLine) /\ InFile(lines, buffer, log)
    BY DEF WellWritten
  <1>4. Head(buffer) \in Shown /\ Tail(buffer) \in Seq(Shown)
    BY <1>2, <1>3, HeadTailProperties
  <1>5. Head(buffer) \in FileLine
    BY <1>4 DEF FileLine, Shown
  <1>6. lines' \in Seq(FileLine) /\ buffer' \in Seq(Shown)
    BY <1>2, <1>3, <1>4, <1>5
  <1>7. InFile(lines', buffer', log')
    BY <1>1, <1>2, <1>3, FileFlushes
  <1> QED BY <1>2, <1>6, <1>7 DEF WellWritten

LEMMA WrittenOther ==
  ASSUME WellWritten, TurnEnds \/ Looks \/ UNCHANGED chatVars
  PROVE  WellWritten'
  <1>1. /\ lines' = lines /\ buffer' = buffer /\ log' = log /\ said' = said /\ queue' = queue
        /\ (speaking' = 0 \/ (speaking' = speaking /\ busy' = busy))
    BY DEF TurnEnds, Looks, chatVars
  <1>2. Spoken(speaking', log')
    <2>1. Spoken(speaking, log)
      BY DEF WellWritten
    <2>2. speaking \in 0..Len(log) /\ 0 \in 0..Len(log)
      BY <2>1, WrittenLog DEF Spoken
    <2> QED BY <2>1, <2>2, <1>1 DEF Spoken
  <1> QED BY <1>1, <1>2 DEF WellWritten

LEMMA WrittenInit == ChatInit => WellWritten
  <1> SUFFICES ASSUME ChatInit PROVE WellWritten
    OBVIOUS
  <1>1. /\ lines = <<>> /\ buffer = <<>> /\ queue = <<>> /\ said = <<>> /\ log = <<>> /\ speaking = 0
    BY DEF ChatInit
  <1>2. Recorded(said, log)
    BY <1>1 DEF Recorded
  <1>3. Messages(said, log) /\ Stamped(log) /\ InFile(lines, buffer, log) /\ Spoken(speaking, log)
    BY <1>1 DEF Messages, Stamped, InFile, Spoken
  <1> QED BY <1>1, <1>2, <1>3 DEF WellWritten

\* Every step keeps it.
LEMMA WrittenStep == WellWritten /\ [ChatNext]_chatVars => WellWritten'
  BY WrittenSays, WrittenQueues, WrittenDrains, WrittenAttaches, WrittenReplies, WrittenSnapshots,
     WrittenFlushes, WrittenOther DEF ChatNext

-----------------------------------------------------------------------------
(* What is read of it                                                        *)

ReadWell == Clear => Read(said, log, Session)

\* The fields of the session.
LEMMA SessionIs ==
  /\ Session.queue = queue /\ Session.speaking = speaking
  /\ Session.passed = passed /\ Session.attached = attached
  BY DEF Session

\* And after a step.
LEMMA SessionIsNext ==
  /\ Session'.queue = queue' /\ Session'.speaking = speaking'
  /\ Session'.passed = passed' /\ Session'.attached = attached'
  BY DEF Session

\* Each action keeps it.
LEMMA ReadWellSays ==
  ASSUME WellWritten, ReadWell, NEW t \in Text, Says(t)
  PROVE  ReadWell'
  <1> SUFFICES ASSUME Clear' PROVE Read(said', log', Session')
    BY DEF ReadWell
  <1> DEFINE l == Line("user", t, 0, Now)
  <1>1. log \in Seq(Shown) /\ Now \in Nat /\ Recorded(said, log)
    BY WrittenLog DEF WellWritten
  <1>2. l \in Shown /\ l.kind = "user" /\ l.text = t
    BY <1>1, LinesAre, LineIs
  <1>3. /\ said' = Append(said, <<Len(log) + 1>>) /\ log' = Append(log, l) /\ queue = <<>> /\ ~ busy
        /\ UNCHANGED <<queue, speaking, passed, attached, late>> /\ eaten' = (eaten \/ t \in attached)
    BY DEF Says, Buffers, Message, Now
  <1>4. Clear /\ t \notin attached
    BY <1>3 DEF Clear
  <1>5. Session' = Session
    BY <1>3 DEF Session
  <1>6. speaking = 0
    BY <1>3 DEF WellWritten
  <1> HIDE DEF l
  <1>7. Read(Append(said, <<Len(log) + 1>>), Append(log, l), Session)
    BY <1>1, <1>2, <1>3, <1>4, <1>6, SessionIs, ReadSays DEF ReadWell
  <1> QED BY <1>3, <1>5, <1>7

LEMMA ReadWellQueues ==
  ASSUME WellWritten, ReadWell, NEW t \in Text, Queues(t)
  PROVE  ReadWell'
  <1> SUFFICES ASSUME Clear' PROVE Read(said', log', Session')
    BY DEF ReadWell
  <1> DEFINE l == Line("enqueue", t, 0, Now)
  <1>1. log \in Seq(Shown) /\ Now \in Nat /\ Recorded(said, log) /\ queue \in Seq(Text)
    BY WrittenLog DEF WellWritten
  <1>2. l \in Shown /\ l.kind = "enqueue" /\ l.text = t
    BY <1>1, LinesAre, LineIs
  <1>3. /\ said' = Append(said, <<Len(log) + 1>>) /\ log' = Append(log, l) /\ queue' = Append(queue, t)
        /\ UNCHANGED <<speaking, passed, attached, late, eaten>>
    BY DEF Queues, Writes, Message, Now
  <1>4. Read(said, log, Session)
    BY <1>3 DEF Clear, ReadWell
  <1> HIDE DEF l
  <1>5. /\ Session'.queue = Append(Session.queue, l.text) /\ Session'.speaking = Session.speaking
        /\ Session'.passed = Session.passed /\ Session'.attached = Session.attached
        /\ Session.queue \in Seq(Text) /\ l.text \in Text
    BY <1>1, <1>2, <1>3, SessionIs, SessionIsNext
  <1>6. Read(Append(said, <<Len(log) + 1>>), Append(log, l), Session')
    BY <1>1, <1>2, <1>4, <1>5, ReadQueues
  <1> QED BY <1>3, <1>6

LEMMA ReadWellDrains ==
  ASSUME WellWritten, ReadWell, Drains
  PROVE  ReadWell'
  <1> SUFFICES ASSUME Clear' PROVE Read(said', log', Session')
    BY DEF ReadWell
  <1> DEFINE l == Line("user", Head(queue), 0, Now)
  <1>1. log \in Seq(Shown) /\ Now \in Nat /\ Recorded(said, log) /\ queue \in Seq(Text)
    BY WrittenLog DEF WellWritten
  <1>2. /\ queue # <<>> /\ log' = Append(log, l) /\ said' = said /\ speaking' = 0
        /\ queue' = Tail(queue) /\ late' = (late \/ Head(queue) \in passed)
        /\ UNCHANGED <<attached, eaten>>
    BY DEF Drains
  <1>3. Head(queue) \in Text
    BY <1>2, RemovalIs
  <1>4. l \in Shown /\ l.kind = "user" /\ l.text = Head(queue)
    BY <1>1, <1>3, LinesAre, LineIs
  <1>5. Read(said, log, Session) /\ Head(queue) \notin passed
    BY <1>2 DEF Clear, ReadWell
  <1> HIDE DEF l
  <1>6. /\ Session'.queue = Tail(Session.queue) /\ Session'.speaking = 0
        /\ Session'.attached = Session.attached
        /\ Session.queue \in Seq(Text) /\ Session.queue # <<>>
        /\ Head(Session.queue) \notin Session.passed /\ l.text = Head(Session.queue)
    BY <1>1, <1>2, <1>4, <1>5, SessionIs, SessionIsNext
  <1>7. Read(said, Append(log, l), Session')
    BY <1>1, <1>4, <1>5, <1>6, ReadDrains
  <1> QED BY <1>2, <1>7

LEMMA ReadWellAttaches ==
  ASSUME WellWritten, ReadWell, Attaches
  PROVE  ReadWell'
  <1> SUFFICES ASSUME Clear' PROVE Read(said', log', Session')
    BY DEF ReadWell
  <1>1. log \in Seq(Shown) /\ queue \in Seq(Text)
    BY WrittenLog DEF WellWritten
  <1>2. /\ queue # <<>> /\ log' = log /\ said' = said /\ speaking' = 0 /\ queue' = Tail(queue)
        /\ passed' = passed \intersect ToSet(Tail(queue)) /\ attached' = attached \union {Head(queue)}
        /\ UNCHANGED <<late, eaten>>
    BY DEF Attaches
  <1>3. Read(said, log, Session)
    BY <1>2 DEF Clear, ReadWell
  <1>4. /\ Session'.queue = Tail(Session.queue) /\ Session'.speaking = 0
        /\ Session'.passed = Session.passed \intersect ToSet(Tail(Session.queue))
        /\ Session'.attached = Session.attached \union {Head(Session.queue)}
        /\ Session.queue \in Seq(Text) /\ Session.queue # <<>>
    BY <1>1, <1>2, SessionIs, SessionIsNext
  <1>5. Read(said, log, Session')
    BY <1>1, <1>3, <1>4, ReadAttaches
  <1> QED BY <1>2, <1>5

LEMMA ReadWellReplies ==
  ASSUME WellWritten, ReadWell, Replies
  PROVE  ReadWell'
  <1> SUFFICES ASSUME Clear' PROVE Read(said', log', Session')
    BY DEF ReadWell
  <1> DEFINE l == Line("assistant", 1, Now, Now)
  <1>1. /\ log \in Seq(Shown) /\ Now \in Nat /\ Recorded(said, log) /\ queue \in Seq(Text)
        /\ Stamped(log)
    BY WrittenLog DEF WellWritten
  <1>2. l \in Shown /\ l.kind = "assistant" /\ l.id = Len(log) + 1
    <2>1. l \in Shown
      BY <1>1 DEF Line, Shown, LineSet, Words, Displayed
    <2> QED BY <2>1, LineIs DEF Now
  <1>3. /\ said' = Append(said, <<Len(log) + 1>>) /\ log' = Append(log, l) /\ speaking' = Len(log) + 1
        /\ passed' = passed \union ToSet(queue) /\ UNCHANGED <<queue, late, eaten>>
    BY DEF Replies, Buffers, Message, Now
  <1>4. Read(said, log, Session)
    BY <1>3 DEF Clear, ReadWell
  <1> HIDE DEF l
  <1>5. /\ Session'.queue = Session.queue /\ Session'.speaking = l.id
        /\ Session'.passed = Session.passed \union ToSet(Session.queue)
        /\ Session.queue \in Seq(Text)
    BY <1>1, <1>2, <1>3, SessionIs, SessionIsNext
  <1>6. Read(Append(said, <<Len(log) + 1>>), Append(log, l), Session')
    BY <1>1, <1>2, <1>4, <1>5, ReadReplies
  <1> QED BY <1>3, <1>6

LEMMA ReadWellSnapshots ==
  ASSUME WellWritten, ReadWell, Snapshots
  PROVE  ReadWell'
  <1> SUFFICES ASSUME Clear' PROVE Read(said', log', Session')
    BY DEF ReadWell
  <1>1. Recorded(said, log) /\ Messages(said, log)
    BY DEF WellWritten
  <1>2. PICK i, l : Snapshot(i, l)
    BY SnapshotIs
  <1>3. UNCHANGED <<queue, speaking, passed, attached, late, eaten>>
    BY DEF Snapshots
  <1>4. Read(said, log, Session) /\ Session' = Session
    BY <1>3 DEF Clear, ReadWell, Session
  <1>5. /\ i \in 1..Len(said) /\ said[i][1] = Session.speaking /\ Session.speaking # 0
        /\ l \in Shown /\ l.kind = "assistant" /\ l.id = Session.speaking
        /\ log' = Append(log, l) /\ said' = [said EXCEPT ![i] = Append(@, Len(log) + 1)]
    BY <1>2, SessionIs DEF Snapshot, Buffers
  <1>6. Read(said', Append(log, l), Session)
    BY <1>1, <1>4, <1>5, ReadSnapshots
  <1> QED BY <1>4, <1>5, <1>6

LEMMA ReadWellOther ==
  ASSUME WellWritten, ReadWell, TurnEnds \/ Flushes \/ Looks \/ UNCHANGED chatVars
  PROVE  ReadWell'
  <1> SUFFICES ASSUME Clear' PROVE Read(said', log', Session')
    BY DEF ReadWell
  <1>1. log \in Seq(Shown)
    BY WrittenLog
  <1>2. /\ log' = log /\ said' = said /\ UNCHANGED <<queue, passed, attached, late, eaten>>
        /\ speaking' = 0 \/ speaking' = speaking
    BY DEF TurnEnds, Flushes, Looks, chatVars
  <1>3. Read(said, log, Session)
    BY <1>2 DEF Clear, ReadWell
  <1>4. ASSUME NEW d \in Dedup, Link(d, Session) PROVE Link(d, Session')
    BY <1>2, <1>4, SessionIs, SessionIsNext DEF Link
  <1>5. Read(said, log, Session')
    BY <1>1, <1>3, <1>4, ReadSame
  <1> QED BY <1>2, <1>5

LEMMA ReadWellInit == ChatInit => ReadWell
  <1> SUFFICES ASSUME ChatInit PROVE Read(said, log, Session)
    BY DEF ReadWell
  <1>1. said = <<>> /\ log = <<>> /\ queue = <<>> /\ speaking = 0
    BY DEF ChatInit
  <1>2. Recorded(said, log)
    BY <1>1 DEF Recorded
  <1>3. ASSUME NEW W PROVE Told(said, log, W) = <<>>
    <2>1. PICK c : Hears(c, said, log, W)
      BY <1>2, HearsExists
    <2>2. Told(said, log, W) = c[Len(said)]
      BY <1>2, <2>1, ToldIs
    <2> QED BY <1>1, <2>1, <2>2 DEF Hears
  <1>4. ASSUME NEW W, NEW h, Reads(h, W, log) PROVE h[Len(log)] = NoTurns
    BY <1>1, <1>4 DEF Reads
  <1>5. ASSUME NEW b PROVE Agree(said, log, b)
    BY <1>3, <1>4, NoTurnsIs DEF Agree
  <1>6. Link(NoTurns, Session)
    <2>1. Queued(<<>>, <<>>, passed, attached)
      <3>1. <<>> \in Seq(Text) /\ ToSet(<<>>) \subseteq passed
        BY DEF ToSet
      <3> QED BY <3>1, QueuedNone
    <2>2. NoTurns.pending = <<>>
      BY DEF NoTurns
    <2> QED BY <2>1, <2>2, <1>1, SessionIs DEF Link
  <1> QED BY <1>4, <1>5, <1>6 DEF Read

\* Every step keeps it.
LEMMA ReadWellStep == WellWritten /\ ReadWell /\ [ChatNext]_chatVars => ReadWell'
  BY ReadWellSays, ReadWellQueues, ReadWellDrains, ReadWellAttaches, ReadWellReplies, ReadWellSnapshots,
     ReadWellOther DEF ChatNext

-----------------------------------------------------------------------------
(* What a look tells                                                         *)

\* Held, of any file.
HeldIn(ls, n) == {ls[i].ts : i \in {j \in 1..n : Displayed(ls[j])}}

\* What is held of the whole file.
LEMMA HeldHas ==
  ASSUME NEW ls
  PROVE  \A x : x \in HeldIn(ls, Len(ls)) <=> Has(ls, x)
  BY DEF HeldIn, Has

\* The lines from the one that waits for the flush on are those not held, but for
\* the enqueues.
LEMMA HeldIsKept ==
  ASSUME NEW ls \in Seq(FileLine), NEW bf \in Seq(Shown), NEW lg \in Seq(Shown), InFile(ls, bf, lg)
  PROVE  \E b \in 1..(Len(lg) + 1) : HeldIn(ls, Len(ls)) = Kept(b, lg)
  <1> DEFINE N == Len(lg)  K == Len(bf)
             b == IF K = 0 THEN N + 1 ELSE bf[1].ts
             H == HeldIn(ls, Len(ls))
  <1>1. N \in Nat /\ K \in Nat
    OBVIOUS
  <1>2. \A i \in 1..K : bf[i].ts \in 1..N /\ bf[i] = lg[bf[i].ts] /\ bf[i].kind # "enqueue"
    BY DEF InFile
  <1>3. \A i, j \in 1..K : i < j => bf[i].ts < bf[j].ts
    BY DEF InFile
  <1>4. \A n \in 1..N : Has(ls, n) \/ \E j \in 1..K : bf[j].ts = n
    BY DEF InFile
  <1>5. ASSUME NEW x, Has(ls, x)
        PROVE  x \in 1..N /\ (lg[x].kind = "enqueue" \/ \A j \in 1..K : x < bf[j].ts)
    <2>1. PICK i \in 1..Len(ls) : Displayed(ls[i]) /\ ls[i].ts = x
      BY <1>5 DEF Has
    <2>2. x \in 1..N /\ ls[i] = lg[x]
      BY <2>1 DEF InFile
    <2>3. ls[i].kind # "enqueue" => \A j \in 1..K : x < bf[j].ts
      BY <2>1 DEF InFile
    <2> QED BY <2>2, <2>3
  <1>6. \A x : x \in H <=> Has(ls, x)
    BY HeldHas
  <1> HIDE DEF N, K, H
  <1>7. b \in 1..(N + 1) /\ \A j \in 1..K : b <= bf[j].ts
    <2>1. CASE K = 0
      BY <2>1, <1>1
    <2>2. CASE K # 0
      <3>1. 1 \in 1..K /\ b = bf[1].ts
        BY <2>2, <1>1
      <3>2. b \in 1..N
        BY <3>1, <1>2
      <3> HIDE DEF b
      <3>3. ASSUME NEW j \in 1..K PROVE b <= bf[j].ts
        <4>1. CASE j = 1
          BY <4>1, <3>1, <3>2
        <4>2. CASE j # 1
          <5>1. 1 < j
            BY <4>2
          <5>2. bf[1].ts < bf[j].ts /\ bf[j].ts \in 1..N
            BY <5>1, <3>1, <1>2, <1>3
          <5> QED BY <5>2, <3>1, <3>2
        <4> QED BY <4>1, <4>2
      <3> QED BY <3>2, <3>3, <1>1
    <2> QED BY <2>1, <2>2
  <1>8. ASSUME NEW x, Has(ls, x) PROVE x \in 1..(b - 1) \/ (x \in 1..N /\ lg[x].kind = "enqueue")
    <2>1. x \in 1..N /\ (lg[x].kind = "enqueue" \/ \A j \in 1..K : x < bf[j].ts)
      BY <1>8, <1>5
    <2>2. ASSUME \A j \in 1..K : x < bf[j].ts PROVE x < b
      <3>1. CASE K = 0
        BY <3>1, <2>1, <1>1
      <3>2. CASE K # 0
        <4>1. 1 \in 1..K /\ b = bf[1].ts
          BY <3>2, <1>1
        <4> QED BY <4>1, <2>2
      <3> QED BY <3>1, <3>2
    <2> HIDE DEF b
    <2> QED BY <2>1, <2>2, <1>1, <1>7
  <1>9. ASSUME NEW x \in 1..N, x < b \/ lg[x].kind = "enqueue" PROVE Has(ls, x)
    <2> HIDE DEF b
    <2> SUFFICES ASSUME NEW j \in 1..K, bf[j].ts = x PROVE FALSE
      BY <1>4
    <2> QED BY <1>2, <1>7, <1>9, <1>1
  <1> HIDE DEF b
  <1>10. Kept(b, lg) = (1..(b - 1)) \union {n \in 1..N : lg[n].kind = "enqueue"}
    BY DEF Kept, N
  <1>11. ASSUME NEW x PROVE x \in Kept(b, lg) <=> Has(ls, x)
    <2>1. x \in Kept(b, lg) <=> x \in 1..(b - 1) \/ (x \in 1..N /\ lg[x].kind = "enqueue")
      BY <1>10
    <2>2. x \in 1..(b - 1) => x \in 1..N /\ x < b
      BY <1>7, <1>1
    <2> QED BY <2>1, <2>2, <1>8, <1>9
  <1>12. H = Kept(b, lg)
    BY <1>6, <1>11
  <1> QED BY <1>7, <1>12 DEF H, N

\* buildChatTurns of the file's lines is what they hold of the conversation.
LEMMA FileTells ==
  ASSUME NEW ls \in Seq(FileLine), NEW bf \in Seq(Shown), NEW lg \in Seq(Shown), InFile(ls, bf, lg),
         NEW sd, NEW u, Read(sd, lg, u), NEW s, s = Folded(Enter, <<>>, ls)
  PROVE  buildChatTurns(s) = Told(sd, lg, HeldIn(ls, Len(ls)))
  <1> DEFINE H == HeldIn(ls, Len(ls))  N == Len(lg)
  <1>1. \A i, j \in 1..Len(ls) : Displayed(ls[i]) /\ Displayed(ls[j]) /\ ls[i].ts = ls[j].ts => i = j
    BY DEF InFile
  <1>2. /\ s \in Seq(Shown) /\ InOrder(s)
        /\ \A i \in 1..Len(s) : \E j \in 1..Len(ls) : Displayed(ls[j]) /\ s[i] = ls[j]
        /\ \A j \in 1..Len(ls) : Displayed(ls[j]) => \E i \in 1..Len(s) : s[i] = ls[j]
    <2>1. Sorted(s, ls)
      BY <1>1, EntriesAre
    <2> QED BY <2>1 DEF Sorted
  <1>3. \A x : x \in H <=> Has(ls, x)
    BY HeldHas
  <1> HIDE DEF H
  <1>4. \A i \in 1..Len(s) : s[i].ts \in 1..N /\ s[i].ts \in H /\ s[i] = lg[s[i].ts]
    <2> SUFFICES ASSUME NEW i \in 1..Len(s) PROVE s[i].ts \in 1..N /\ s[i].ts \in H /\ s[i] = lg[s[i].ts]
      OBVIOUS
    <2>1. PICK j \in 1..Len(ls) : Displayed(ls[j]) /\ s[i] = ls[j]
      BY <1>2
    <2>2. Has(ls, s[i].ts)
      BY <2>1 DEF Has
    <2>3. ls[j].ts \in 1..N /\ ls[j] = lg[ls[j].ts]
      BY <2>1 DEF InFile
    <2> QED BY <2>1, <2>2, <2>3, <1>3
  <1>5. \A i, j \in 1..Len(s) : i < j => s[i].ts < s[j].ts
    BY <1>2 DEF InOrder
  <1>6. \A n \in 1..N : n \in H => \E i \in 1..Len(s) : s[i].ts = n
    <2> SUFFICES ASSUME NEW n \in 1..N, n \in H PROVE \E i \in 1..Len(s) : s[i].ts = n
      OBVIOUS
    <2>1. PICK j \in 1..Len(ls) : Displayed(ls[j]) /\ ls[j].ts = n
      BY <1>3 DEF Has
    <2>2. PICK i \in 1..Len(s) : s[i] = ls[j]
      BY <2>1, <1>2
    <2> QED BY <2>1, <2>2
  <1>7. PICK h : Reads(h, H, lg)
    BY ReadsExists
  <1>8. PICK f : Reads(f, 1..Len(s), s)
    BY <1>2, ReadsExists
  <1>9. N \in Nat /\ Len(s) \in Nat
    BY <1>2
  <1>10. f[Len(s)] = h[N]
    <2>1. Keeps(s, H, lg)
      BY <1>4, <1>5, <1>6 DEF Keeps
    <2> QED BY <2>1, <1>7, <1>8, <1>9, ReadsKept
  <1>11. Folded(add, NoTurns, s) = h[N]
    BY <1>2, <1>8, <1>10, AddFolded
  <1>12. h[N] \in Dedup
    BY <1>7, <1>9 DEF Reads
  <1>13. PICK b \in 1..(N + 1) : H = Kept(b, lg)
    BY HeldIsKept DEF H
  <1>14. Flat(h[N]) = Told(sd, lg, H)
    <2>1. Agree(sd, lg, b)
      BY DEF Read
    <2> QED BY <2>1, <1>7, <1>13 DEF Agree
  <1>15. flushPending(h[N]).turns = Flat(h[N])
    <2> DEFINE d == h[N]
    <2>1. d = [pending |-> d.pending, last |-> d.last, turns |-> d.turns]
      BY <1>12, DedupFields
    <2> HIDE DEF d
    <2>2. flushPending(d).turns = Flat(d)
      BY <2>1 DEF flushPending, Flat
    <2> QED BY <2>2 DEF d
  <1> QED BY <1>11, <1>14, <1>15 DEF buildChatTurns, H

\* A look at the file.
LEMMA LookTells ==
  ASSUME WellWritten, ReadWell, Clear
  PROVE  buildChatTurns(Entries) = Told(said, log, HeldIn(lines, Len(lines)))
  <1>1. log \in Seq(Shown)
    BY WrittenLog
  <1>2. Entries = Folded(Enter, <<>>, lines)
    BY DEF Entries
  <1> QED BY <1>1, <1>2, FileTells DEF WellWritten, ReadWell

-----------------------------------------------------------------------------
(* What the client was told                                                  *)

ClientTold ==
  /\ client.size \in 0..Len(lines)
  /\ Clear => client.messages = Numbered(Told(said, log, HeldIn(lines, client.size)))

\* What is held is in the log.
LEMMA HeldInLog ==
  ASSUME NEW ls \in Seq(FileLine), NEW bf, NEW lg, InFile(ls, bf, lg), NEW n \in 0..Len(ls)
  PROVE  HeldIn(ls, n) \in SUBSET (1..Len(lg))
  <1>1. \A i \in 1..Len(ls) : Displayed(ls[i]) => ls[i].ts \in 1..Len(lg)
    BY DEF InFile
  <1>2. Len(ls) \in Nat
    OBVIOUS
  <1>3. 1..n \subseteq 1..Len(ls)
    BY <1>2
  <1> QED BY <1>1, <1>3 DEF HeldIn

\* A further line of the file leaves what is held of those before.
LEMMA HeldInPrefix ==
  ASSUME NEW ls \in Seq(FileLine), NEW x, NEW n \in 0..Len(ls)
  PROVE  HeldIn(Append(ls, x), n) = HeldIn(ls, n) /\ n \in 0..Len(Append(ls, x))
  <1> DEFINE M == Len(ls)  ls2 == Append(ls, x)
  <1>1. M \in Nat /\ Len(ls2) = M + 1 /\ \A i \in 1..M : ls2[i] = ls[i]
    OBVIOUS
  <1> HIDE DEF M, ls2
  <1>2. n \in 0..M
    BY DEF M
  <1>3. 1..n \subseteq 1..M /\ n \in 0..(M + 1)
    BY <1>1, <1>2
  <1>4. HeldIn(ls2, n) = HeldIn(ls, n)
    BY <1>1, <1>3 DEF HeldIn
  <1> QED BY <1>1, <1>3, <1>4 DEF ls2

\* A step after which what was held is told as before.
LEMMA ClientKept ==
  ASSUME WellWritten, ClientTold, client' = client,
         lines' = lines \/ \E x : lines' = Append(lines, x),
         Clear' => Clear,
         \A W \in SUBSET (1..Len(log)) : Told(said', log', W) = Told(said, log, W)
  PROVE  ClientTold'
  <1> DEFINE n == client.size
  <1>1. n \in 0..Len(lines) /\ lines \in Seq(FileLine) /\ InFile(lines, buffer, log)
    BY DEF ClientTold, WellWritten
  <1> HIDE DEF n
  <1>2. HeldIn(lines', n) = HeldIn(lines, n) /\ n \in 0..Len(lines')
    BY <1>1, HeldInPrefix
  <1>3. HeldIn(lines, n) \in SUBSET (1..Len(log))
    BY <1>1, HeldInLog
  <1>4. Told(said', log', HeldIn(lines', n)) = Told(said, log, HeldIn(lines, n))
    BY <1>2, <1>3
  <1>5. Clear' => client.messages = Numbered(Told(said', log', HeldIn(lines', n)))
    BY <1>4 DEF ClientTold, n
  <1>6. client'.size = n /\ client'.messages = client.messages
    BY DEF n
  <1> QED BY <1>2, <1>5, <1>6 DEF ClientTold

\* A message that begins or goes on, or a line of none, leaves it so.
LEMMA ToldBefore ==
  ASSUME NEW sd, NEW lg, NEW l, NEW sd2,
         \/ Begun(sd, lg, l, sd2)
         \/ \E k : WentOn(sd, lg, l, k, sd2)
         \/ Recorded(sd, lg) /\ l \in Shown /\ sd2 = sd
  PROVE  \A W \in SUBSET (1..Len(lg)) : Told(sd2, Append(lg, l), W) = Told(sd, lg, W)
  <1>1. CASE Begun(sd, lg, l, sd2)
    BY <1>1 DEF Begun
  <1>2. CASE \E k : WentOn(sd, lg, l, k, sd2)
    BY <1>2 DEF WentOn
  <1>3. CASE Recorded(sd, lg) /\ l \in Shown /\ sd2 = sd
    <2>1. /\ Recorded(sd, Append(lg, l))
          /\ \A W \in SUBSET (1..Len(lg)) :
               /\ Told(sd, Append(lg, l), W) = Told(sd, lg, W)
               /\ Told(sd, Append(lg, l), W \union {Len(lg) + 1}) = Told(sd, lg, W)
      BY <1>3, ToldLine
    <2> QED BY <2>1, <1>3
  <1> QED BY <1>1, <1>2, <1>3

\* Each action keeps it.
LEMMA ClientSays ==
  ASSUME WellWritten, ClientTold, NEW t \in Text, Says(t)
  PROVE  ClientTold'
  <1> DEFINE l == Line("user", t, 0, Now)
  <1>1. l \in Shown /\ Recorded(said, log)
    BY WrittenLog, LinesAre DEF WellWritten
  <1> HIDE DEF l
  <1>2. /\ said' = Append(said, <<Len(log) + 1>>) /\ log' = Append(log, l)
        /\ lines' = lines /\ client' = client /\ late' = late /\ (~ eaten' => ~ eaten)
    BY DEF Says, Buffers, Message, Now, l
  <1>3. Begun(said, log, l, said')
    BY <1>1, <1>2, ToldMessage
  <1>4. \A W \in SUBSET (1..Len(log)) : Told(said', log', W) = Told(said, log, W)
    BY <1>2, <1>3, ToldBefore
  <1> QED BY <1>2, <1>4, ClientKept DEF Clear

LEMMA ClientQueues ==
  ASSUME WellWritten, ClientTold, NEW t \in Text, Queues(t)
  PROVE  ClientTold'
  <1> DEFINE l == Line("enqueue", t, 0, Now)
  <1>1. l \in Shown /\ Recorded(said, log)
    BY WrittenLog, LinesAre DEF WellWritten
  <1> HIDE DEF l
  <1>2. /\ said' = Append(said, <<Len(log) + 1>>) /\ log' = Append(log, l)
        /\ lines' = Append(lines, l) /\ client' = client /\ late' = late /\ eaten' = eaten
    BY DEF Queues, Writes, Message, Now, l
  <1>3. Begun(said, log, l, said')
    BY <1>1, <1>2, ToldMessage
  <1>4. \A W \in SUBSET (1..Len(log)) : Told(said', log', W) = Told(said, log, W)
    BY <1>2, <1>3, ToldBefore
  <1> QED BY <1>2, <1>4, ClientKept DEF Clear

LEMMA ClientDrains ==
  ASSUME WellWritten, ClientTold, Drains
  PROVE  ClientTold'
  <1> DEFINE l == Line("user", Head(queue), 0, Now)
  <1>1. l \in Shown /\ Recorded(said, log)
    BY WrittenLog, LinesAre, RemovalIs DEF WellWritten, Drains
  <1> HIDE DEF l
  <1>2. /\ said' = said /\ log' = Append(log, l)
        /\ lines' = Append(lines, Removal) /\ client' = client /\ (~ late' => ~ late) /\ eaten' = eaten
    BY DEF Drains, l
  <1>3. \A W \in SUBSET (1..Len(log)) : Told(said', log', W) = Told(said, log, W)
    BY <1>1, <1>2, ToldBefore
  <1> QED BY <1>2, <1>3, ClientKept DEF Clear

LEMMA ClientReplies ==
  ASSUME WellWritten, ClientTold, Replies
  PROVE  ClientTold'
  <1> DEFINE l == Line("assistant", 1, Now, Now)
  <1>1. l \in Shown /\ Recorded(said, log)
    BY WrittenLog DEF WellWritten, Line, Shown, LineSet, Words, Displayed
  <1> HIDE DEF l
  <1>2. /\ said' = Append(said, <<Len(log) + 1>>) /\ log' = Append(log, l)
        /\ lines' = lines /\ client' = client /\ late' = late /\ eaten' = eaten
    BY DEF Replies, Buffers, Message, Now, l
  <1>3. Begun(said, log, l, said')
    BY <1>1, <1>2, ToldMessage
  <1>4. \A W \in SUBSET (1..Len(log)) : Told(said', log', W) = Told(said, log, W)
    BY <1>2, <1>3, ToldBefore
  <1> QED BY <1>2, <1>4, ClientKept DEF Clear

LEMMA ClientSnapshots ==
  ASSUME WellWritten, ClientTold, Snapshots
  PROVE  ClientTold'
  <1>1. PICK i, l : Snapshot(i, l)
    BY SnapshotIs
  <1>2. /\ i \in 1..Len(said) /\ l \in Shown
        /\ log' = Append(log, l) /\ lines' = lines /\ said' = [said EXCEPT ![i] = Append(@, Len(log) + 1)]
    BY <1>1 DEF Snapshot, Buffers
  <1>3. client' = client /\ late' = late /\ eaten' = eaten
    BY DEF Snapshots
  <1>4. Recorded(said, log) /\ \A j \in 1..Len(said) : Len(said[j]) > 0
    BY DEF WellWritten, Messages
  <1>5. WentOn(said, log, l, i, said')
    BY <1>2, <1>4, ToldSnapshot
  <1>6. \A W \in SUBSET (1..Len(log)) : Told(said', log', W) = Told(said, log, W)
    BY ZenonT(60), <1>2, <1>5, ToldBefore
  <1> QED BY <1>2, <1>3, <1>6, ClientKept DEF Clear

LEMMA ClientOther ==
  ASSUME WellWritten, ClientTold, Attaches \/ TurnEnds \/ Flushes \/ UNCHANGED chatVars
  PROVE  ClientTold'
  <1>1. /\ said' = said /\ log' = log /\ client' = client /\ late' = late /\ eaten' = eaten
        /\ (lines' = lines \/ \E x : lines' = Append(lines, x))
    BY DEF Attaches, TurnEnds, Flushes, chatVars
  <1>2. \A W \in SUBSET (1..Len(log)) : Told(said', log', W) = Told(said, log, W)
    BY <1>1
  <1> QED BY <1>1, <1>2, ClientKept DEF Clear

LEMMA ClientLooks ==
  ASSUME WellWritten, ReadWell, Looks
  PROVE  ClientTold'
  <1>1. /\ client'.size = Len(lines) /\ client'.messages = sessionChat
        /\ lines' = lines /\ log' = log /\ said' = said /\ late' = late /\ eaten' = eaten
    BY DEF Looks
  <1>2. Len(lines) \in Nat
    BY DEF WellWritten
  <1>3. Clear => sessionChat = Numbered(Told(said, log, HeldIn(lines, Len(lines))))
    BY LookTells DEF sessionChat
  <1>4. Clear' => client'.messages = Numbered(Told(said', log', HeldIn(lines', client'.size)))
    BY <1>1, <1>3 DEF Clear
  <1> QED BY <1>1, <1>2, <1>4 DEF ClientTold

LEMMA ClientInit == ChatInit => ClientTold
  <1> SUFFICES ASSUME ChatInit PROVE ClientTold
    OBVIOUS
  <1>1. /\ client = [size |-> 0, messages |-> <<>>] /\ lines = <<>> /\ said = <<>> /\ log = <<>>
    BY DEF ChatInit
  <1>2. Told(said, log, HeldIn(lines, 0)) = <<>>
    <2>0. Recorded(said, log)
      BY <1>1 DEF Recorded
    <2>1. PICK c : Hears(c, said, log, HeldIn(lines, 0))
      BY <2>0, HearsExists
    <2>2. Told(said, log, HeldIn(lines, 0)) = c[Len(said)]
      BY <2>0, <2>1, ToldIs
    <2> QED BY <1>1, <2>1, <2>2 DEF Hears
  <1>3. Numbered(<<>>) = <<>>
    BY ChatAssumption DEF Numbered, Recent, Numbers
  <1> QED BY <1>1, <1>2, <1>3 DEF ClientTold

\* Every step keeps it.
LEMMA ClientStep == WellWritten /\ ReadWell /\ ClientTold /\ [ChatNext]_chatVars => ClientTold'
  BY ClientSays, ClientQueues, ClientDrains, ClientReplies, ClientSnapshots, ClientOther, ClientLooks
  DEF ChatNext

-----------------------------------------------------------------------------
(* The invariant                                                             *)

ChatInv == WellWritten /\ ReadWell /\ ClientTold

\* In every reachable state the file and the buffer have what was said, reading any
\* part that may be held tells it, and the client has what its last look told.
THEOREM ChatSpecInv == ChatSpec => []ChatInv
  <1>1. ChatInit => ChatInv
    BY WrittenInit, ReadWellInit, ClientInit DEF ChatInv
  <1>2. ChatInv /\ [ChatNext]_chatVars => ChatInv'
    BY WrittenStep, ReadWellStep, ClientStep DEF ChatInv
  <1> QED BY <1>1, <1>2, PTL DEF ChatSpec

-----------------------------------------------------------------------------
(* The views                                                                 *)

Number == [index : Nat, role : {"user", "assistant"}, text : Words]

\* The turns, numbered from 0.
LEMMA NumbersAre ==
  ASSUME NEW s \in Seq(TurnSet), NEW r, r = Numbers(s)
  PROVE  /\ r \in Seq(Number) /\ Len(r) = Len(s)
         /\ \A i \in 1..Len(s) : r[i].index = i - 1 /\ r[i].role = s[i].role /\ r[i].text = s[i].text
  <1> DEFINE n == Len(s)  f(i) == [index |-> i - 1, role |-> s[i].role, text |-> s[i].text]
  <1>1. n \in Nat /\ DOMAIN s = 1..n /\ \A i \in 1..n : s[i] \in TurnSet
    OBVIOUS
  <1>2. r = [i \in 1..n |-> f(i)]
    BY <1>1 DEF Numbers
  <1> HIDE DEF n
  <1>3. \A i \in 1..n : f(i) \in Number
    BY <1>1 DEF TurnSet, Number
  <1>4. \A i \in 1..n : f(i).index = i - 1 /\ f(i).role = s[i].role /\ f(i).text = s[i].text
    OBVIOUS
  <1> HIDE DEF f
  <1>5. r \in [1..n -> Number]
    BY <1>2, <1>3
  <1>6. r \in Seq(Number) /\ Len(r) = n
    BY <1>1, <1>5
  <1>7. \A i \in 1..n : r[i] = f(i)
    BY <1>2
  <1> QED BY <1>4, <1>6, <1>7 DEF n

\* The last n of a sequence.
Lasts(r, s, n) ==
  /\ Len(r) = IF Len(s) > n THEN n ELSE Len(s)
  /\ Len(s) - Len(r) >= 0
  /\ \A i \in 1..Len(r) : Len(s) - Len(r) + i \in 1..Len(s) /\ r[i] = s[Len(s) - Len(r) + i]

\* What Recent cuts.
LEMMA RecentIs ==
  ASSUME NEW S, NEW s \in Seq(S), NEW n \in Nat \ {0}, NEW r, r = Recent(s, n)
  PROVE  r \in Seq(S) /\ Lasts(r, s, n)
  <1> DEFINE m == Len(s)  a == IF m > n THEN m - n + 1 ELSE 1  k == IF m > n THEN n ELSE m
  <1>1. m \in Nat
    OBVIOUS
  <1>2. r = SubSeq(s, a, m)
    BY DEF Recent
  <1>3. a \in 1..(m + 1) /\ m - a + 1 = k /\ a - 1 = m - k /\ k \in Nat /\ m - k >= 0
    <2> HIDE DEF m
    <2> QED BY <1>1
  <1>4. r \in Seq(S) /\ Len(r) = k /\ \A i \in 1..k : r[i] = s[a - 1 + i]
    <2> HIDE DEF m, a
    <2>1. \A i \in a..m : s[i] \in S
      <3>1. a..m \subseteq 1..m
        BY <1>1, <1>3
      <3> QED BY <3>1 DEF m
    <2>2. /\ SubSeq(s, a, m) \in Seq(S)
          /\ Len(SubSeq(s, a, m)) = IF a <= m THEN m - a + 1 ELSE 0
          /\ \A i \in 1..(m - a + 1) : SubSeq(s, a, m)[i] = s[a + i - 1]
      BY <1>1, <1>3, <2>1, SubSeqProperties
    <2>3. Len(r) = k
      BY <1>1, <1>2, <1>3, <2>2
    <2>4. \A i \in 1..k : a + i - 1 = a - 1 + i
      BY <1>3
    <2> QED BY <1>2, <1>3, <2>2, <2>3, <2>4
  <1>5. \A i \in 1..k : m - k + i \in 1..m /\ r[i] = s[m - k + i]
    <2> HIDE DEF m, k, a
    <2> SUFFICES ASSUME NEW i \in 1..k PROVE m - k + i \in 1..m /\ r[i] = s[m - k + i]
      OBVIOUS
    <2>1. m - k + i \in 1..m /\ a - 1 + i = m - k + i
      BY <1>1, <1>3
    <2> QED BY <2>1, <1>4
  <1>6. Len(r) = k /\ Len(s) = m
    BY <1>4
  <1> HIDE DEF a
  <1> QED BY <1>3, <1>4, <1>5, <1>6 DEF Lasts

\* The number of a turn is its place among all.
Numbering(r, s) ==
  /\ r \in Seq(Number)
  /\ \A i \in 1..Len(r) : r[i].index + 1 \in 1..Len(s) /\ r[i].role = s[r[i].index + 1].role
                          /\ r[i].text = s[r[i].index + 1].text

\* What the chat and the history view show.
LEMMA RecentTells ==
  ASSUME NEW s \in Seq(TurnSet), NEW n \in Nat \ {0}, NEW r, r = Recent(Numbers(s), n)
  PROVE  /\ Len(r) = IF Len(s) > n THEN n ELSE Len(s)
         /\ Tells(r, s) /\ Numbering(r, s)
  <1> DEFINE t == Numbers(s)  first == Len(s) - Len(r)
  <1>1. /\ t \in Seq(Number) /\ Len(t) = Len(s)
        /\ \A i \in 1..Len(s) : t[i].index = i - 1 /\ t[i].role = s[i].role /\ t[i].text = s[i].text
    BY NumbersAre
  <1> HIDE DEF t
  <1>2. r = Recent(t, n)
    BY DEF t
  <1>3. /\ r \in Seq(Number) /\ Len(r) = IF Len(t) > n THEN n ELSE Len(t)
        /\ Len(t) - Len(r) >= 0
        /\ \A i \in 1..Len(r) : Len(t) - Len(r) + i \in 1..Len(t) /\ r[i] = t[Len(t) - Len(r) + i]
    <2>1. r \in Seq(Number) /\ Lasts(r, t, n)
      BY <1>1, <1>2, RecentIs
    <2> QED BY <2>1 DEF Lasts
  <1>4. \A i \in 1..Len(r) : first + i \in 1..Len(s) /\ r[i] = t[first + i]
    BY <1>1, <1>3
  <1>5. first >= 0 /\ DOMAIN r = 1..Len(r) /\ first \in Int
    BY <1>1, <1>3
  <1>6. Len(r) = IF Len(s) > n THEN n ELSE Len(s)
    BY <1>1, <1>3
  <1> HIDE DEF first
  <1>7. ASSUME NEW i \in 1..Len(r)
        PROVE  /\ r[i].index = first + i - 1 /\ r[i].role = s[first + i].role /\ r[i].text = s[first + i].text
               /\ r[i].index + 1 = first + i /\ first + i \in 1..Len(s)
    <2>1. /\ r[i].index = first + i - 1 /\ r[i].role = s[first + i].role /\ r[i].text = s[first + i].text
          /\ first + i \in 1..Len(s)
      <3>1. PICK j \in 1..Len(s) : j = first + i
        BY <1>4
      <3>2. r[i] = t[j]
        BY <1>4, <3>1
      <3>3. r[i].index = j - 1 /\ r[i].role = s[j].role /\ r[i].text = s[j].text
        BY <1>1, <3>2
      <3>4. i \in Int /\ j - 1 = first + i - 1
        BY <3>1, <1>5
      <3> QED BY <3>1, <3>3, <3>4
    <2> QED BY <2>1, <1>5
  <1>8. Tells(r, s)
    BY <1>5, <1>7 DEF Tells, first
  <1>9. Numbering(r, s)
    BY <1>3, <1>7 DEF Numbering
  <1> QED BY <1>6, <1>8, <1>9

\* What the download has.
LEMMA ExportTells ==
  ASSUME NEW s \in Seq(TurnSet), NEW r, r = conversationExport(s)
  PROVE  Len(r) = Len(s) /\ Tells(r, s)
  <1> DEFINE n == Len(s)  f(i) == [role |-> s[i].role, text |-> s[i].text]
             S == [role : {"user", "assistant"}, text : Words]
  <1>1. n \in Nat /\ DOMAIN s = 1..n /\ \A i \in 1..n : s[i] \in TurnSet
    OBVIOUS
  <1>2. r = [i \in 1..n |-> f(i)]
    BY <1>1 DEF conversationExport
  <1> HIDE DEF n
  <1>3. \A i \in 1..n : f(i) \in S /\ f(i).role = s[i].role /\ f(i).text = s[i].text
    BY <1>1 DEF TurnSet
  <1> HIDE DEF f, S
  <1>4. r \in [1..n -> S] /\ \A i \in 1..n : r[i] = f(i)
    BY <1>2, <1>3
  <1>5. Len(r) = n /\ DOMAIN r = 1..n
    BY <1>1, <1>4
  <1>6. \A i \in 1..n : 0 + i = i
    BY <1>1
  <1>7. Len(s) - Len(r) = 0
    BY <1>1, <1>5 DEF n
  <1> QED BY <1>3, <1>4, <1>5, <1>6, <1>7 DEF Tells, n

\* Every turn is a line that is held.
LEMMA SearchFinds ==
  ASSUME WellWritten, NEW all, all = Told(said, log, HeldIn(lines, Len(lines)))
  PROVE  \A i \in 1..Len(all) : <<all[i].id, all[i].text>> \in conversationFullTextJoined
  <1> SUFFICES ASSUME NEW i \in 1..Len(all)
               PROVE  <<all[i].id, all[i].text>> \in conversationFullTextJoined
    OBVIOUS
  <1>1. Recorded(said, log) /\ log \in Seq(Shown) /\ InFile(lines, buffer, log) /\ lines \in Seq(FileLine)
    BY WrittenLog DEF WellWritten
  <1>2. PICK e \in HeldIn(lines, Len(lines)) : e \in 1..Len(log) /\ all[i] = Turn(log[e])
    BY <1>1, ToldHeld
  <1>3. PICK j \in 1..Len(lines) : Displayed(lines[j]) /\ lines[j].ts = e
    <2>1. Has(lines, e)
      BY <1>2, HeldHas
    <2> QED BY <2>1 DEF Has
  <1>4. lines[j] = log[e]
    BY <1>1, <1>3 DEF InFile
  <1>5. log[e] \in Shown
    BY <1>1, <1>2
  <1>6. all[i].id = lines[j].id /\ all[i].text = lines[j].text
    BY <1>2, <1>4, <1>5, TurnIs
  <1>7. DOMAIN lines = 1..Len(lines)
    BY <1>1
  <1> QED BY <1>3, <1>6, <1>7 DEF conversationFullTextJoined

\* The invariant implies that the views are the conversation.
LEMMA ChatTells == ChatInv => ChatIsConversation
  <1> SUFFICES ASSUME ChatInv, Clear PROVE ChatIsConversation
    BY DEF ChatIsConversation
  <1> DEFINE all == Told(said, log, HeldIn(lines, Len(lines)))
             turns == buildChatTurns(Entries)
             chat == Numbered(turns)
             export == conversationExport(turns)
  <1>1. WellWritten /\ ReadWell
    BY DEF ChatInv
  <1>2. turns = all
    BY <1>1, LookTells
  <1>3. Conversation(Held(Len(lines))) = all
    BY ConversationIsTold DEF Held, HeldIn
  <1>4. all \in Seq(TurnSet)
    <2>1. Recorded(said, log)
      BY <1>1 DEF WellWritten
    <2> QED BY <2>1, ToldType
  <1>5. \A i \in 1..Len(all) : <<all[i].id, all[i].text>> \in conversationFullTextJoined
    BY <1>1, SearchFinds
  <1> HIDE DEF all, turns
  <1>6. Len(export) = Len(all) /\ Tells(export, all)
    BY <1>2, <1>4, ExportTells
  <1>7. Len(chat) = (IF Len(all) > maxChatMsgs THEN maxChatMsgs ELSE Len(all)) /\ Tells(chat, all)
    BY <1>2, <1>4, RecentTells, ChatAssumption DEF Numbered
  <1>8. Tells(conversationGet(turns, 1), all)
    BY <1>2, <1>4, RecentTells DEF conversationGet
  <1>9. \A i \in DOMAIN turns : <<turns[i].id, turns[i].text>> \in conversationFullTextJoined
    BY <1>2, <1>4, <1>5
  <1> HIDE DEF chat, export
  <1> QED BY <1>3, <1>6, <1>7, <1>8, <1>9 DEF ChatIsConversation, turns, chat, export

\* host.go:2696: on any texts, bound of the view and length of the transcript: the
\* live chat, the history view, the download and the search have the conversation
\* at every look, unless a message is taken from the queue after a later assistant
\* message began, or said again right after it was attached.
THEOREM ChatIsAlwaysConversation == ChatSpec => []ChatIsConversation
  BY ChatSpecInv, ChatTells, PTL

-----------------------------------------------------------------------------
(* Two looks                                                                 *)

\* One message, of which more may have been held the second time.
Alike(t, u) == t.role = u.role /\ (t.role = "user" => t.text = u.text)

Prefix(A, B) == Len(A) <= Len(B) /\ \A k \in 1..Len(A) : Alike(A[k], B[k])

\* Nothing held of a message later means nothing held of any after it before.
Ahead(sd, H, G) ==
  /\ \A i \in 1..Len(sd) : There(sd[i], H) # {} => There(sd[i], G) # {}
  /\ \A i, j \in 1..Len(sd) :
       i < j /\ There(sd[i], G) # {} /\ There(sd[j], H) # {} => There(sd[i], H) # {}

AllAlike(sd, lg) ==
  \A i \in 1..Len(sd) : \A a, b \in ToSet(sd[i]) : Alike(Turn(lg[a]), Turn(lg[b]))

\* A message's lines are all one author's, and a user's has one.
LEMMA MessagesAlike ==
  ASSUME NEW sd, NEW lg, Recorded(sd, lg), Messages(sd, lg)
  PROVE  AllAlike(sd, lg)
  <1> SUFFICES ASSUME NEW i \in 1..Len(sd), NEW a \in ToSet(sd[i]), NEW b \in ToSet(sd[i])
               PROVE  Alike(Turn(lg[a]), Turn(lg[b]))
    BY DEF AllAlike
  <1>1. sd[i] \in Seq(1..Len(lg)) /\ lg \in Seq(Shown) /\ Len(lg) \in Nat
    BY RecordedIs
  <1>2. PICK j \in 1..Len(sd[i]) : sd[i][j] = a
    BY <1>1, ToSetIs
  <1>3. PICK k \in 1..Len(sd[i]) : sd[i][k] = b
    BY <1>1, ToSetIs
  <1>4. a \in 1..Len(lg) /\ b \in 1..Len(lg)
    BY <1>1, ToSetIs
  <1>5. lg[a] \in Shown /\ lg[b] \in Shown
    BY <1>1, <1>4
  <1>6. CASE lg[sd[i][1]].kind = "assistant"
    <2>1. lg[a].kind = "assistant" /\ lg[b].kind = "assistant"
      BY <1>2, <1>3, <1>6 DEF Messages
    <2> QED BY <2>1 DEF Alike, Turn, Role
  <1>7. CASE lg[sd[i][1]].kind # "assistant"
    <2>1. j = 1 /\ k = 1
      BY <1>7 DEF Messages
    <2>2. a = b
      BY <2>1, <1>2, <1>3
    <2> QED BY <2>2 DEF Alike
  <1> QED BY <1>6, <1>7

\* One more message, heard by who held H as t and by who held G as u, or by the
\* second only, or by neither.
LEMMA PrefixAppend ==
  ASSUME NEW A \in Seq(TurnSet), NEW B \in Seq(TurnSet), Prefix(A, B),
         NEW t \in TurnSet, NEW u \in TurnSet
  PROVE  /\ Prefix(A, Append(B, u)) /\ Len(A) # Len(Append(B, u))
         /\ Len(A) = Len(B) /\ Alike(t, u) =>
              Prefix(Append(A, t), Append(B, u)) /\ Len(Append(A, t)) = Len(Append(B, u))
  <1> DEFINE a == Len(A)  b == Len(B)  A2 == Append(A, t)  B2 == Append(B, u)
  <1>1. /\ a \in Nat /\ b \in Nat /\ Len(A2) = a + 1 /\ Len(B2) = b + 1
        /\ A2[a + 1] = t /\ B2[b + 1] = u
        /\ \A k \in 1..a : A2[k] = A[k]
        /\ \A k \in 1..b : B2[k] = B[k]
    OBVIOUS
  <1>2. a <= b /\ \A k \in 1..a : Alike(A[k], B[k])
    BY DEF Prefix
  <1> HIDE DEF a, b, A2, B2
  <1>3. \A k \in 1..a : k \in 1..b /\ B2[k] = B[k]
    BY <1>1, <1>2
  <1>4. Prefix(A, B2) /\ Len(A) # Len(B2)
    <2>1. a <= b + 1 /\ a # b + 1
      BY <1>1, <1>2
    <2> QED BY <2>1, <1>1, <1>2, <1>3 DEF Prefix, a
  <1>5. ASSUME a = b, Alike(t, u) PROVE Prefix(A2, B2) /\ Len(A2) = Len(B2)
    <2>1. Len(A2) <= Len(B2) /\ Len(A2) = Len(B2)
      BY <1>1, <1>5
    <2>2. ASSUME NEW k \in 1..(a + 1) PROVE Alike(A2[k], B2[k])
      <3>1. CASE k \in 1..a
        BY <3>1, <1>1, <1>2, <1>3
      <3>2. CASE k = a + 1
        BY <3>2, <1>1, <1>5
      <3> QED BY <3>1, <3>2, <1>1
    <2> QED BY <2>1, <2>2, <1>1 DEF Prefix
  <1> QED BY <1>4, <1>5 DEF a, b, A2, B2

\* What was told before is a prefix of what is told now.
LEMMA ToldPrefix ==
  ASSUME NEW lg, NEW sd, Recorded(sd, lg), AllAlike(sd, lg), NEW H, NEW G, Ahead(sd, H, G)
  PROVE  Prefix(Told(sd, lg, H), Told(sd, lg, G))
  <1> DEFINE M == Len(sd)
             NoneAfter(i) == \A j \in 1..M : j > i => There(sd[j], H) = {}
  <1>1. M \in Nat /\ lg \in Seq(Shown) /\ Len(lg) \in Nat
    BY RecordedIs
  <1>2. PICK c : Hears(c, sd, lg, H)
    BY HearsExists
  <1>3. PICK e : Hears(e, sd, lg, G)
    BY HearsExists
  <1>4. /\ c \in [0..M -> Seq(TurnSet)] /\ c[0] = <<>>
        /\ \A i \in 1..M : c[i] = HeardOf(H, c[i - 1], sd[i], lg)
    BY <1>2 DEF Hears
  <1>5. /\ e \in [0..M -> Seq(TurnSet)] /\ e[0] = <<>>
        /\ \A i \in 1..M : e[i] = HeardOf(G, e[i - 1], sd[i], lg)
    BY <1>3 DEF Hears
  <1> DEFINE Fits(i) == Prefix(c[i], e[i]) /\ (Len(c[i]) # Len(e[i]) => NoneAfter(i))
             S == {i \in Nat : i <= M => Fits(i)}
  <1>6. Fits(0)
    BY <1>4, <1>5 DEF Prefix
  <1>7. ASSUME NEW i \in 1..M, Fits(i - 1) PROVE Fits(i)
    <2> DEFINE m == sd[i]  A == c[i - 1]  B == e[i - 1]
               t == Turn(lg[Max(There(m, H))])
               u == Turn(lg[Max(There(m, G))])
    <2>1. A \in Seq(TurnSet) /\ B \in Seq(TurnSet) /\ Prefix(A, B) /\ (Len(A) # Len(B) => NoneAfter(i - 1))
      <3>1. i - 1 \in 0..M
        BY <1>1
      <3> QED BY <3>1, <1>4, <1>5, <1>7
    <2>2. /\ c[i] = IF There(m, H) = {} THEN A ELSE Append(A, t)
          /\ e[i] = IF There(m, G) = {} THEN B ELSE Append(B, u)
      BY <1>4, <1>5 DEF HeardOf
    <2>3. \A j \in 1..M : j > i => j > i - 1
      BY <1>1
    <2>4. i > i - 1
      OBVIOUS
    <2>5. m \in Seq(1..Len(lg))
      BY RecordedIs
    <2>6. There(m, H) # {} => t \in TurnSet /\ Max(There(m, H)) \in ToSet(m)
      <3> SUFFICES ASSUME There(m, H) # {} PROVE t \in TurnSet /\ Max(There(m, H)) \in ToSet(m)
        OBVIOUS
      <3> HIDE DEF m
      <3>1. Max(There(m, H)) \in There(m, H) /\ Max(There(m, H)) \in 1..Len(lg)
        BY <1>1, <2>5, LatestIs
      <3>2. lg[Max(There(m, H))] \in Shown
        BY <3>1, <1>1
      <3> QED BY <3>1, <3>2, TurnIs DEF There
    <2>7. There(m, G) # {} => u \in TurnSet /\ Max(There(m, G)) \in ToSet(m)
      <3> SUFFICES ASSUME There(m, G) # {} PROVE u \in TurnSet /\ Max(There(m, G)) \in ToSet(m)
        OBVIOUS
      <3> HIDE DEF m
      <3>1. Max(There(m, G)) \in There(m, G) /\ Max(There(m, G)) \in 1..Len(lg)
        BY <1>1, <2>5, LatestIs
      <3>2. lg[Max(There(m, G))] \in Shown
        BY <3>1, <1>1
      <3> QED BY <3>1, <3>2, TurnIs DEF There
    <2>8. There(m, H) # {} => There(m, G) # {}
      BY DEF Ahead
    <2>9. There(m, H) # {} => Alike(t, u)
      <3> SUFFICES ASSUME There(m, H) # {} PROVE Alike(t, u)
        OBVIOUS
      <3>1. Max(There(m, H)) \in ToSet(sd[i]) /\ Max(There(m, G)) \in ToSet(sd[i])
        BY <2>6, <2>7, <2>8
      <3> QED BY <3>1 DEF AllAlike
    <2> HIDE DEF A, B, t, u
    <2>10. CASE There(m, H) # {}
      <3>1. Len(A) = Len(B)
        BY <2>1, <2>4, <2>10
      <3>2. t \in TurnSet /\ u \in TurnSet /\ Alike(t, u)
        BY <2>6, <2>7, <2>8, <2>9, <2>10
      <3>3. Prefix(Append(A, t), Append(B, u)) /\ Len(Append(A, t)) = Len(Append(B, u))
        BY <3>1, <3>2, <2>1, PrefixAppend
      <3>4. c[i] = Append(A, t) /\ e[i] = Append(B, u)
        BY <2>2, <2>8, <2>10
      <3> QED BY <3>3, <3>4
    <2>11. CASE There(m, H) = {} /\ There(m, G) = {}
      <3>1. c[i] = A /\ e[i] = B
        BY <2>2, <2>11
      <3> QED BY <3>1, <2>1, <2>3
    <2>12. CASE There(m, H) = {} /\ There(m, G) # {}
      <3>1. c[i] = A /\ e[i] = Append(B, u) /\ u \in TurnSet
        BY <2>2, <2>7, <2>12
      <3>2. Prefix(A, Append(B, u))
        BY <3>1, <2>1, PrefixAppend
      <3>3. NoneAfter(i)
        BY <2>12 DEF Ahead
      <3> QED BY <3>1, <3>2, <3>3
    <2> QED BY <2>10, <2>11, <2>12
  <1> HIDE DEF Fits
  <1>8. 0 \in S
    BY <1>6
  <1>9. ASSUME NEW i \in Nat, i \in S PROVE i + 1 \in S
    <2> SUFFICES ASSUME i + 1 <= M PROVE Fits(i + 1)
      BY DEF S
    <2>1. i + 1 \in 1..M /\ (i + 1) - 1 = i /\ i <= M
      BY <1>1
    <2>2. Fits(i)
      BY <2>1, <1>9 DEF S
    <2> QED BY <2>1, <2>2, <1>7
  <1> HIDE DEF S
  <1>10. M \in S
    BY <1>1, <1>8, <1>9, Induction
  <1>11. Prefix(c[M], e[M])
    BY <1>1, <1>10 DEF S, Fits
  <1>12. Told(sd, lg, H) = c[M] /\ Told(sd, lg, G) = e[M]
    BY <1>2, <1>3, ToldIs
  <1> QED BY <1>11, <1>12

\* Of a message of which anything is held, the first line is.
LEMMA FirstHeld ==
  ASSUME NEW lg, NEW sd, Recorded(sd, lg), Messages(sd, lg), NEW b \in 1..(Len(lg) + 1),
         NEW i \in 1..Len(sd), There(sd[i], Kept(b, lg)) # {}
  PROVE  sd[i][1] \in There(sd[i], Kept(b, lg))
  <1> DEFINE N == Len(lg)  m == sd[i]  G == Kept(b, lg)
  <1>1. lg \in Seq(Shown) /\ N \in Nat /\ m \in Seq(1..N)
    BY RecordedIs
  <1>2. Len(m) > 0 /\ \A k \in 1..Len(m) : m[1] <= m[k]
    BY DEF Messages
  <1>3. PICK e : e \in ToSet(m) /\ e \in G
    BY DEF There
  <1>4. PICK k \in 1..Len(m) : m[k] = e
    BY <1>1, <1>3, ToSetIs
  <1>5. m[1] \in ToSet(m) /\ ToSet(m) \subseteq 1..N
    BY <1>1, <1>2, ToSetIs
  <1>6. m[1] <= e /\ m[1] \in 1..N /\ e \in 1..N
    BY <1>2, <1>3, <1>4, <1>5
  <1>7. /\ lg[m[1]].kind # "assistant" => k = 1
        /\ lg[m[1]].kind = "assistant" => lg[e].kind = "assistant"
    <2>1. /\ lg[m[1]].kind # "assistant" => k = 1
          /\ lg[m[1]].kind = "assistant" => lg[m[k]].kind = "assistant" /\ lg[m[k]].id = m[1]
      BY DEF Messages
    <2> QED BY <2>1, <1>4
  <1>8. \A x : x \in G <=> x \in 1..(b - 1) \/ (x \in 1..N /\ lg[x].kind = "enqueue")
    BY DEF Kept
  <1> HIDE DEF m, G
  <1>9. m[1] \in G
    <2>1. CASE e \in 1..(b - 1)
      <3>1. m[1] \in 1..(b - 1)
        BY <2>1, <1>6, <1>1
      <3> QED BY <3>1, <1>8
    <2>2. CASE lg[e].kind = "enqueue"
      BY <2>2, <1>3, <1>4, <1>7
    <2> QED BY <2>1, <2>2, <1>3, <1>8
  <1> QED BY <1>5, <1>9 DEF There, m, G

\* If no line came that was written before one that was there.
LEMMA LooksAhead ==
  ASSUME WellWritten, NEW n \in 0..Len(lines),
         \A i \in 1..n, j \in (n + 1)..Len(lines) : ~ (Displayed(lines[j]) /\ lines[j].ts < lines[i].ts)
  PROVE  Ahead(said, HeldIn(lines, n), HeldIn(lines, Len(lines)))
  <1> DEFINE M == Len(lines)  H == HeldIn(lines, n)  G == HeldIn(lines, M)
  <1>1. /\ Recorded(said, log) /\ Messages(said, log) /\ log \in Seq(Shown)
        /\ lines \in Seq(FileLine) /\ buffer \in Seq(Shown) /\ InFile(lines, buffer, log) /\ M \in Nat
    BY WrittenLog DEF WellWritten
  <1>2. PICK b \in 1..(Len(log) + 1) : G = Kept(b, log)
    BY <1>1, HeldIsKept
  <1>3. \A x : x \in H <=> \E i \in 1..n : Displayed(lines[i]) /\ lines[i].ts = x
    BY DEF HeldIn
  <1>4. \A x : x \in G <=> \E i \in 1..M : Displayed(lines[i]) /\ lines[i].ts = x
    BY DEF HeldIn
  <1> HIDE DEF H, G, M
  <1>5. n \in 0..M /\ 1..n \subseteq 1..M
    BY <1>1 DEF M
  <1>6. H \subseteq G
    BY <1>3, <1>4, <1>5
  <1>7. ASSUME NEW x \in H, NEW y \in G, y \notin H PROVE x < y /\ x \in Nat /\ y \in Nat
    <2>1. PICK i \in 1..n : Displayed(lines[i]) /\ lines[i].ts = x
      BY <1>3
    <2>2. PICK j \in 1..M : Displayed(lines[j]) /\ lines[j].ts = y
      BY <1>4
    <2>3. j \notin 1..n
      BY <2>2, <1>3, <1>7
    <2>4. j \in (n + 1)..M /\ i \in 1..M
      BY <2>3, <1>1, <1>5
    <2>5. ~ (y < x)
      BY <2>1, <2>2, <2>4 DEF M
    <2>6. x \in 1..Len(log) /\ y \in 1..Len(log)
      BY <1>1, <2>1, <2>2, <2>4 DEF InFile, M
    <2>7. x # y
      BY <1>7
    <2> QED BY <2>5, <2>6, <2>7
  <1>8. ASSUME NEW i \in 1..Len(said), There(said[i], H) # {} PROVE There(said[i], G) # {}
    BY <1>6, <1>8 DEF There
  <1>9. ASSUME NEW i \in 1..Len(said), NEW j \in 1..Len(said),
               i < j, There(said[i], G) # {}, There(said[j], H) # {}
        PROVE  There(said[i], H) # {}
    <2> DEFINE f == said[i][1]
    <2>1. f \in ToSet(said[i]) /\ f \in G
      BY <1>1, <1>2, <1>9, FirstHeld DEF There
    <2>2. PICK x : x \in ToSet(said[j]) /\ x \in H
      BY <1>9 DEF There
    <2>3. said[j] \in Seq(1..Len(log)) /\ said[i] \in Seq(1..Len(log)) /\ Len(log) \in Nat
      BY <1>1, RecordedIs
    <2>4. PICK k \in 1..Len(said[j]) : said[j][k] = x
      BY <2>2, <2>3, ToSetIs
    <2>5. f < said[j][1] /\ said[j][1] <= x
      BY <1>1, <1>9, <2>4 DEF Messages
    <2>6. said[j][1] \in 1..Len(log) /\ f \in 1..Len(log) /\ x \in 1..Len(log)
      <3>1. Len(said[j]) > 0
        BY <1>1 DEF Messages
      <3>2. said[j][1] \in ToSet(said[j])
        BY <3>1, <2>3, ToSetIs
      <3> QED BY <3>2, <2>1, <2>2, <2>3, ToSetIs
    <2> HIDE DEF f
    <2>7. f \in H
      <3> SUFFICES ASSUME f \notin H PROVE FALSE
        OBVIOUS
      <3>1. x < f
        BY <2>1, <2>2, <1>7
      <3> QED BY <3>1, <2>5, <2>6
    <2> QED BY <2>1, <2>7 DEF There
  <1>10. Ahead(said, H, G)
    BY <1>8, <1>9 DEF Ahead
  <1> QED BY <1>10 DEF H, G, M

\* A number stands for one message in both looks.
LEMMA SameNumber ==
  ASSUME NEW A \in Seq(TurnSet), NEW B \in Seq(TurnSet), Prefix(A, B),
         NEW v, v = Numbered(A), NEW w, w = Numbered(B),
         NEW i \in DOMAIN v, NEW j \in DOMAIN w, v[i].index = w[j].index
  PROVE  v[i].role = w[j].role /\ (v[i].role = "user" => v[i].text = w[j].text)
  <1>1. maxChatMsgs \in Nat \ {0}
    BY ChatAssumption
  <1>2. /\ v \in Seq(Number)
        /\ \A k \in 1..Len(v) : v[k].index + 1 \in 1..Len(A) /\ v[k].role = A[v[k].index + 1].role
                                /\ v[k].text = A[v[k].index + 1].text
    <2>1. v = Recent(Numbers(A), maxChatMsgs)
      BY DEF Numbered
    <2>2. Numbering(v, A)
      BY <1>1, <2>1, RecentTells
    <2> QED BY <2>2 DEF Numbering
  <1>3. /\ w \in Seq(Number)
        /\ \A k \in 1..Len(w) : w[k].index + 1 \in 1..Len(B) /\ w[k].role = B[w[k].index + 1].role
                                /\ w[k].text = B[w[k].index + 1].text
    <2>1. w = Recent(Numbers(B), maxChatMsgs)
      BY DEF Numbered
    <2>2. Numbering(w, B)
      BY <1>1, <2>1, RecentTells
    <2> QED BY <2>2 DEF Numbering
  <1>4. i \in 1..Len(v) /\ j \in 1..Len(w)
    BY <1>2, <1>3
  <1> DEFINE n == v[i].index + 1
  <1>5. n \in 1..Len(A) /\ v[i].role = A[n].role /\ v[i].text = A[n].text
    BY <1>2, <1>4
  <1>6. w[j].role = B[n].role /\ w[j].text = B[n].text
    BY <1>3, <1>4
  <1>7. Alike(A[n], B[n])
    BY <1>5 DEF Prefix
  <1> QED BY <1>5, <1>6, <1>7 DEF Alike

\* The invariant implies that numbers are stable.
LEMMA ChatStable == ChatInv => IndexStable
  <1> SUFFICES ASSUME ChatInv, Clear, ~ WrittenLate PROVE IndexStable
    BY DEF IndexStable
  <1> DEFINE n == client.size
             A == Told(said, log, HeldIn(lines, n))
             B == Told(said, log, HeldIn(lines, Len(lines)))
             v == client.messages
             w == sessionChat
  <1>1. WellWritten /\ ReadWell /\ ClientTold
    BY DEF ChatInv
  <1>2. n \in 0..Len(lines) /\ v = Numbered(A)
    BY <1>1 DEF ClientTold
  <1>3. w = Numbered(B)
    BY <1>1, LookTells DEF sessionChat
  <1>4. \A i \in 1..n, j \in (n + 1)..Len(lines) : ~ (Displayed(lines[j]) /\ lines[j].ts < lines[i].ts)
    BY DEF WrittenLate
  <1>5. Recorded(said, log) /\ Messages(said, log)
    BY <1>1 DEF WellWritten
  <1> HIDE DEF n, v, w
  <1>6. Ahead(said, HeldIn(lines, n), HeldIn(lines, Len(lines)))
    BY <1>1, <1>2, <1>4, LooksAhead
  <1>7. A \in Seq(TurnSet) /\ B \in Seq(TurnSet) /\ Prefix(A, B)
    BY <1>5, <1>6, ToldType, MessagesAlike, ToldPrefix
  <1> HIDE DEF A, B
  <1>8. ASSUME NEW i \in DOMAIN v, NEW j \in DOMAIN w, v[i].index = w[j].index
        PROVE  v[i].role = w[j].role /\ (v[i].role = "user" => v[i].text = w[j].text)
    BY <1>2, <1>3, <1>7, <1>8, SameNumber
  <1> QED BY <1>8 DEF IndexStable, v, w

\* host.go:2878: the number a browser has for a message stands for that message in
\* the next look too, whatever is drained and cut off in between, unless a line
\* came that was written late.
THEOREM IndexIsAlwaysStable == ChatSpec => []IndexStable
  BY ChatSpecInv, ChatStable, PTL

=============================================================================
