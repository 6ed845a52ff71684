---------------------------- MODULE FileIOProofs ----------------------------
(***************************************************************************)
(* Proofs about FileIO, for every set of writers, readers and evictors,    *)
(* every length of the file and every number of calls.                     *)
(*                                                                         *)
(* Three counters are numbers of threads and events (Counts), which makes  *)
(* the type invariant inductive: none goes below zero.  LockInv says who   *)
(* holds which lock, and that no request is outstanding while a            *)
(* checkpoint is taken.  On it rests IndexInv: last_recno is the length    *)
(* of the log, plus one while an append is under way, and the index is at  *)
(* the last record of each byte but for those of that append.  From there  *)
(* ReopenInv and SizeInv say what the newest checkpoint and the last       *)
(* record hold.                                                            *)
(***************************************************************************)
EXTENDS FileIO, CountingFacts

USE CacheAssumption

LEMMA ThreadFacts ==
  /\ Writers \subseteq Threads /\ Readers \subseteq Threads
  /\ Evictors \subseteq Threads /\ Callback \in Threads
  /\ NoThread \notin Threads
BY FileIOAssumption DEF Threads

\* The end of a write is a file size.
LEMMA EndOfSpan ==
  ASSUME NEW span \in Spans
  PROVE  span \subseteq Bytes /\ EndOf(span) \in 1 .. FileLen
<1>1. span \subseteq Bytes /\ span # {}
  BY DEF Spans, Span
<1>2. span \in SUBSET Nat /\ \A x \in span : x <= FileLen
  BY <1>1 DEF Bytes
<1>3. Max(span) \in span
  BY <1>1, <1>2, MaxOfBounded
<1>4. Max(span) \in 0 .. FileLen - 1
  BY <1>1, <1>3 DEF Bytes
<1> QED
  BY <1>1, <1>4 DEF EndOf

LEMMA LargerSize ==
  ASSUME NEW a \in 0 .. FileLen, NEW b \in 0 .. FileLen
  PROVE  Max({a, b}) \in 0 .. FileLen
<1>1. {a, b} \in SUBSET Nat /\ \A x \in {a, b} : x <= FileLen
  OBVIOUS
<1>2. Max({a, b}) \in {a, b}
  BY <1>1, MaxOfBounded
<1> QED
  BY <1>2

\* What filling the cache leaves in it.
LEMMA FillCacheType ==
  ASSUME NEW c \in [Bytes -> Values \cup {Hole}], NEW span \in SUBSET Bytes,
         NEW data \in [Bytes -> Values]
  PROVE  FillCache(c, span, data) \in [Bytes -> Values \cup {Hole}]
BY DEF FillCache, Values, Zero, Hole

LEMMA NoLocalsType == NoLocals \in Locals
BY DEF NoLocals, Locals, Values, Zero

LEMMA NoIndexType == NoIndex \in [Bytes -> Nat]
BY DEF NoIndex

\* Records keep their type when they are appended.
LEMMA DataRecType ==
  ASSUME NEW span \in SUBSET Bytes, NEW id \in Nat, NEW size \in Nat
  PROVE  DataRec(span, id, size) \in Records
BY NoIndexType DEF DataRec, Records

LEMMA CkptRecType ==
  ASSUME NEW tree \in [Bytes -> Nat], NEW size \in Nat
  PROVE  CkptRec(tree, size) \in Records
BY DEF CkptRec, Records

\* What a read finds in the log is a value.
LEMMA IndexByteType ==
  ASSUME TypeOK, NEW b \in Bytes
  PROVE  IndexByte(b) \in Values
<1>1. ASSUME NEW r \in DOMAIN log PROVE log[r].id \in Nat
  <2>1. log[r] \in Records
    BY <1>1 DEF TypeOK
  <2> QED
    BY <2>1 DEF Records
<1>2. RecordByte(figtree[b], b) \in Values
  BY <1>1 DEF RecordByte, Values, Garbage
<1> QED
  BY <1>2 DEF IndexByte, Values, Zero

\* LastRecord is 0 or the number of a record that holds the byte, and no later
\* record does.
LEMMA LastRecordFacts ==
  ASSUME log \in Seq(Records), NEW b \in Bytes
  PROVE  /\ LastRecord(b) \in 0 .. Len(log)
         /\ LastRecord(b) # 0 => b \in log[LastRecord(b)].span
         /\ \A r \in DOMAIN log : b \in log[r].span => r <= LastRecord(b)
<1> DEFINE S == {0} \cup {r \in DOMAIN log : b \in log[r].span}
<1>1. DOMAIN log = 1 .. Len(log) /\ Len(log) \in Nat
  OBVIOUS
<1>2. S \in SUBSET Nat /\ S # {} /\ \A x \in S : x <= Len(log)
  BY <1>1
<1>3. Max(S) \in S /\ \A x \in S : x <= Max(S)
  <2> HIDE DEF S
  <2> QED BY <1>1, <1>2, MaxOfBounded
<1> QED
  BY <1>1, <1>3 DEF LastRecord

LEMMA CommittedType ==
  ASSUME log \in Seq(Records), NEW b \in Bytes
  PROVE  Committed(b) \in Nat
<1>1. LastRecord(b) \in 0 .. Len(log)
  BY LastRecordFacts
<1>2. LastRecord(b) # 0 => log[LastRecord(b)] \in Records
  BY <1>1
<1> QED
  BY <1>2 DEF Committed, Zero, Records
-----------------------------------------------------------------------------
\* What a checkpoint has collected is an index: it goes into a record.
CollectedIsIndex ==
    \A e \in Evictors : pc[e] = "ckpt" => loc[e].buf \in [Bytes -> Nat]

TypeInv == TypeOK /\ CountsExact /\ CollectedIsIndex

LEMMA TypeInit == Init => TypeOK /\ CollectedIsIndex
<1> SUFFICES ASSUME Init PROVE TypeOK /\ CollectedIsIndex
  OBVIOUS
<1>1. loc \in [Threads -> Locals] /\ pc \in [Threads -> Labels] /\ CollectedIsIndex
  BY NoLocalsType, ThreadFacts DEF Init, CollectedIsIndex, Labels
<1>2. use_cache \in CacheModes /\ new_file \in FileKinds /\ dirty \in BOOLEAN
      /\ misfilled \in BOOLEAN /\ skipped \in BOOLEAN
  BY FileIOAssumption DEF Init
<1>3. log \in Seq(Records)
  <2>1. OldTree \in [Bytes -> Nat]
    BY DEF OldTree
  <2>2. /\ DataRec({}, 0, 0) \in Records /\ DataRec(Bytes, 1, FileLen) \in Records
        /\ CkptRec(OldTree, FileLen) \in Records
    BY <2>1, DataRecType, CkptRecType
  <2> QED
    BY <2>2 DEF Init
<1>4. figtree \in [Bytes -> Nat] /\ last_recno \in Nat
  BY NoIndexType DEF Init, OldTree
<1>5. cache \in [Bytes -> Values \cup {Hole}]
  BY DEF Init, EmptyCache
<1>6. file_size \in 0 .. FileLen
  BY DEF Init
<1>7. writes \in 0 .. MaxWrites /\ reads \in 0 .. MaxReads /\ evicts \in 0 .. MaxEvicts
  BY FileIOAssumption DEF Init
<1>8. flush_waiters \subseteq Evictors /\ unacked \in Seq({"data", "ckpt"})
  BY DEF Init
<1>9. ref_count \in Nat /\ outstanding_reqs \in Nat /\ index_flush_reqs \in Nat
  BY DEF Init
<1>10. /\ cache_lock \in Threads \cup {NoThread}
       /\ figtree_lock \in Threads \cup {NoThread}
       /\ index_flush_lock \in Threads \cup {NoThread}
  BY DEF Init
<1> QED
  BY <1>1, <1>2, <1>3, <1>4, <1>5, <1>6, <1>7, <1>8, <1>9, <1>10 DEF TypeOK

\* Steps of a writer.
LEMMA TypeWriter ==
  ASSUME TypeInv, NEW w \in Writers,
         WriterStep(w) \/ \E span \in Spans : StartWrite(w, span)
  PROVE  TypeOK' /\ CollectedIsIndex'
<1> USE DEF TypeInv, Goto
<1>0. w \in Threads /\ w \notin Evictors /\ w \notin Readers /\ Evictors \subseteq Threads
  BY ThreadFacts, FileIOAssumption
<1>a. /\ "size" \in Labels /\ "ref" \in Labels /\ "count" \in Labels
      /\ "fill" \in Labels /\ "lock" \in Labels /\ "index" \in Labels
      /\ "append" \in Labels /\ "idle" \in Labels
  BY DEF Labels
<1>b. loc[w] \in Locals
  BY <1>0 DEF TypeOK
<1>1. ASSUME NEW span \in Spans, StartWrite(w, span)
      PROVE  TypeOK' /\ CollectedIsIndex'
  <2>1. [NoLocals EXCEPT !.span = span, !.id = writes + 2,
                         !.size = Max({file_size, EndOf(span)})] \in Locals
    <3>1. span \in SUBSET Bytes /\ EndOf(span) \in 0 .. FileLen /\ file_size \in 0 .. FileLen
      BY EndOfSpan DEF TypeOK
    <3>2. Max({file_size, EndOf(span)}) \in 0 .. FileLen
      BY <3>1, LargerSize
    <3>3. writes + 2 \in Nat
      BY DEF TypeOK
    <3> QED
      BY <3>1, <3>2, <3>3, NoLocalsType DEF Locals
  <2>2. ASSUME NEW t \in Threads
        PROVE  [loc[t] EXCEPT !.ok = [b \in Bytes |->
                   IF b \in span THEN @[b] \cup {writes + 2} ELSE @[b]]] \in Locals
    <3>1. loc[t] \in Locals /\ writes + 2 \in Nat
      BY DEF TypeOK
    <3> QED
      BY <3>1 DEF Locals
  <2>3. loc' \in [Threads -> Locals]
    BY <1>1, <2>1, <2>2 DEF StartWrite, TypeOK
  <2>4. writes' \in 0 .. MaxWrites
    <3>1. MaxWrites \in Nat
      BY FileIOAssumption
    <3>2. writes' = writes + 1 /\ writes < MaxWrites /\ writes \in 0 .. MaxWrites
      BY <1>1 DEF StartWrite, TypeOK
    <3> QED
      BY <3>1, <3>2
  <2>5. CollectedIsIndex'
    <3>1. \A e \in Evictors : e \in Threads /\ e # w /\ e \notin Readers
      BY <1>0, FileIOAssumption
    <3>2. \A e \in Evictors : pc'[e] = pc[e] /\ loc'[e] = loc[e]
      BY <1>1, <3>1 DEF StartWrite, TypeOK
    <3> QED
      BY <3>2 DEF CollectedIsIndex
  <2> QED
    BY <1>0, <1>1, <1>a, <2>3, <2>4, <2>5
       DEF StartWrite, TypeOK, index, counts, locks, flags, history
<1>2. CASE StoreSize(w)
  <2>1. loc[w].size \in 0 .. FileLen
    BY <1>b DEF Locals
  <2> QED
    BY <1>0, <1>2, <1>a, <2>1
       DEF StoreSize, TypeOK, CollectedIsIndex, index, counts, locks, calls, flags, history
<1>3. CASE RefFile(w)
  <2>1. [loc[w] EXCEPT !.size = file_size] \in Locals
    BY <1>b DEF Locals, TypeOK
  <2> QED
    BY <1>0, <1>3, <1>a, <2>1
       DEF RefFile, TypeOK, CollectedIsIndex, index, locks, calls, flags, history
<1>4. CASE CountRequest(w)
  BY <1>0, <1>4, <1>a
     DEF CountRequest, TypeOK, CollectedIsIndex, index, locks, calls, flags, history
<1>5. CASE WriteCache(w)
  <2>1. cache' \in [Bytes -> Values \cup {Hole}]
    <3>1. [b \in Bytes |-> loc[w].id] \in [Bytes -> Values] /\ loc[w].span \in SUBSET Bytes
      BY <1>b DEF Locals, Values
    <3> QED
      BY <1>5, <3>1, FillCacheType DEF WriteCache, TypeOK
  <2>2. misfilled' \in BOOLEAN
    BY <1>5, Zenon DEF WriteCache
  <2> QED
    BY <1>0, <1>5, <1>a, <2>1, <2>2
       DEF WriteCache, TypeOK, CollectedIsIndex, index, counts, calls, flags
<1>6. CASE LockIndex(w)
  BY <1>0, <1>6, <1>a
     DEF LockIndex, TypeOK, CollectedIsIndex, index, counts, calls, flags, history
<1>7. CASE IndexWrite(w)
  BY <1>0, <1>7, <1>a
     DEF IndexWrite, FtWrite, TypeOK, CollectedIsIndex, counts, locks, calls, flags, history
<1>8. CASE AppendRecord(w)
  <2>1. DataRec(loc[w].span, loc[w].id, loc[w].size) \in Records
    BY <1>b, DataRecType DEF Locals
  <2>2. log' \in Seq(Records) /\ unacked' \in Seq({"data", "ckpt"})
    BY <1>8, <2>1 DEF AppendRecord, TypeOK
  <2> QED
    BY <1>0, <1>8, <1>a, <2>2, NoLocalsType
       DEF AppendRecord, TypeOK, CollectedIsIndex, index, counts, calls, flags, history
<1> QED
  BY <1>1, <1>2, <1>3, <1>4, <1>5, <1>6, <1>7, <1>8 DEF WriterStep

\* Steps of a reader.
LEMMA TypeReader ==
  ASSUME TypeInv, NEW r \in Readers,
         ReaderStep(r) \/ \E span \in Spans : StartRead(r, span)
  PROVE  TypeOK' /\ CollectedIsIndex'
<1> USE DEF TypeInv, Goto
<1>0. r \in Threads /\ Evictors \subseteq Threads /\ \A e \in Evictors : e # r
  BY ThreadFacts, FileIOAssumption
<1>a. /\ "check" \in Labels /\ "miss" \in Labels /\ "refill" \in Labels
      /\ "idle" \in Labels
  BY DEF Labels
<1>b. loc[r] \in Locals
  BY <1>0 DEF TypeOK
<1>1. ASSUME NEW span \in Spans, StartRead(r, span)
      PROVE  TypeOK' /\ CollectedIsIndex'
  <2> DEFINE seen == [b \in Bytes |-> {Committed(b)} \cup InFlight(b)]
             L == [NoLocals EXCEPT !.span = {b \in span : b < file_size}, !.ok = seen]
  <2>1. \A w \in Writers : loc[w].id \in Nat
    BY ThreadFacts DEF TypeOK, Locals
  <2>2. \A b \in Bytes : InFlight(b) \in SUBSET Nat
    BY <2>1 DEF InFlight
  <2>3. seen \in [Bytes -> SUBSET Nat]
    BY <2>2, CommittedType DEF TypeOK
  <2>4. {b \in span : b < file_size} \in SUBSET Bytes
    BY EndOfSpan
  <2>5. L \in Locals
    <3> HIDE DEF seen
    <3> QED BY <2>3, <2>4, NoLocalsType DEF Locals
  <2>6. loc' = [loc EXCEPT ![r] = L]
    BY <1>1 DEF StartRead
  <2>7. reads' \in 0 .. MaxReads
    <3>1. MaxReads \in Nat
      BY FileIOAssumption
    <3>2. reads' = reads + 1 /\ reads < MaxReads /\ reads \in 0 .. MaxReads
      BY <1>1 DEF StartRead, TypeOK
    <3> QED
      BY <3>1, <3>2
  <2> HIDE DEF L
  <2>8. pc' \in [Threads -> Labels] /\ \A e \in Evictors : pc'[e] = pc[e]
    BY <1>0, <1>1, <1>a DEF StartRead, TypeOK
  <2>9. loc' \in [Threads -> Locals] /\ \A e \in Evictors : loc'[e] = loc[e]
    BY <1>0, <2>5, <2>6 DEF TypeOK
  <2>10. CollectedIsIndex'
    BY <2>8, <2>9 DEF CollectedIsIndex
  <2>11. UNCHANGED <<log, figtree, dirty, last_recno, cache, file_size, counts, locks,
                     unacked, writes, evicts, use_cache, new_file, misfilled, skipped>>
    BY <1>1 DEF StartRead, index, flags, history
  <2> QED
    BY <2>7, <2>8, <2>9, <2>10, <2>11 DEF TypeOK, counts, locks
<1>2. CASE ReadHit(r)
  <2>1. [b \in Bytes |-> CacheByte(cache, b)] \in [Bytes -> Values]
    BY DEF TypeOK, CacheByte, Values, Zero
  <2>2. [loc[r] EXCEPT !.buf = [b \in Bytes |-> CacheByte(cache, b)]] \in Locals
    BY <1>b, <2>1 DEF Locals
  <2> QED
    BY <1>0, <1>2, <1>a, <2>2
       DEF ReadHit, TypeOK, CollectedIsIndex, index, counts, locks, calls, flags, history
<1>3. CASE ReadMiss(r)
  BY <1>0, <1>3, <1>a
     DEF ReadMiss, TypeOK, CollectedIsIndex, index, counts, locks, calls, flags, history
<1>4. CASE ReadLog(r)
  <2>1. [b \in Bytes |-> IndexByte(b)] \in [Bytes -> Values]
    BY IndexByteType
  <2>2. [loc[r] EXCEPT !.buf = [b \in Bytes |-> IndexByte(b)]] \in Locals
    BY <1>b, <2>1 DEF Locals
  <2> QED
    BY <1>0, <1>4, <1>a, <2>2
       DEF ReadLog, TypeOK, CollectedIsIndex, index, counts, locks, calls, flags, history
<1>5. CASE FillFromRead(r)
  <2>1. cache' \in [Bytes -> Values \cup {Hole}]
    <3>1. loc[r].buf \in [Bytes -> Values] /\ loc[r].span \in SUBSET Bytes
      BY <1>b DEF Locals
    <3> QED
      BY <1>5, <3>1, FillCacheType DEF FillFromRead, TypeOK
  <2>2. misfilled' \in BOOLEAN
    BY <1>5, Zenon DEF FillFromRead
  <2> QED
    BY <1>0, <1>5, <1>a, <2>1, <2>2
       DEF FillFromRead, TypeOK, CollectedIsIndex, index, counts, locks, calls, flags
<1> QED
  BY <1>1, <1>2, <1>3, <1>4, <1>5 DEF ReaderStep

\* Steps of an eviction.
LEMMA TypeEvictor ==
  ASSUME TypeInv, NEW e \in Evictors,
         EvictorStep(e) \/ StartEvict(e) \/ SpuriousWakeup(e)
  PROVE  TypeOK' /\ CollectedIsIndex'
<1> USE DEF TypeInv, Goto
<1>0. e \in Threads /\ Evictors \subseteq Threads
  BY ThreadFacts
<1>a. /\ "wait" \in Labels /\ "collect" \in Labels /\ "ckpt" \in Labels
      /\ "idle" \in Labels
  BY DEF Labels
<1>b. loc[e] \in Locals
  BY <1>0 DEF TypeOK
<1>1. CASE StartEvict(e)
  <2>1. evicts' \in 0 .. MaxEvicts
    <3>1. MaxEvicts \in Nat
      BY FileIOAssumption
    <3>2. evicts' = evicts + 1 /\ evicts < MaxEvicts /\ evicts \in 0 .. MaxEvicts
      BY <1>1 DEF StartEvict, TypeOK
    <3> QED
      BY <3>1, <3>2
  <2> QED
    BY <1>0, <1>1, <1>a, <2>1
       DEF StartEvict, TypeOK, CollectedIsIndex, index, counts, locks, flags, history
<1>2. CASE WaitOutstanding(e)
  BY <1>2 DEF WaitOutstanding, TypeOK, CollectedIsIndex, index, counts, calls, flags, history
<1>3. CASE SpuriousWakeup(e)
  BY <1>3 DEF SpuriousWakeup, TypeOK, CollectedIsIndex, index, counts, calls, flags, history
<1>4. CASE BeginCheckpoint(e)
  <2>1. [loc[e] EXCEPT !.size = file_size] \in Locals
    BY <1>b DEF Locals, TypeOK
  <2> QED
    BY <1>0, <1>4, <1>a, <2>1
       DEF BeginCheckpoint, TypeOK, CollectedIsIndex, index, counts, calls, flags, history
<1>5. CASE CollectDirty(e)
  <2>1. figtree \in [Bytes -> Values]
    BY DEF TypeOK, Values
  <2>2. [loc[e] EXCEPT !.buf = figtree] \in Locals
    BY <1>b, <2>1 DEF Locals
  <2>3. loc' = [loc EXCEPT ![e] = [loc[e] EXCEPT !.buf = figtree]]
    BY <1>5 DEF CollectDirty
  <2>4. CollectedIsIndex'
    <3>1. loc'[e].buf = figtree
      BY <1>0, <1>b, <2>3 DEF TypeOK, Locals
    <3> QED
      BY <1>0, <1>5, <2>3, <3>1 DEF CollectDirty, CollectedIsIndex, TypeOK
  <2>5. loc' \in [Threads -> Locals] /\ pc' \in [Threads -> Labels]
    BY <1>0, <1>5, <1>a, <2>2, <2>3 DEF CollectDirty, TypeOK
  <2>6. /\ last_recno' = last_recno + 1
        /\ UNCHANGED <<log, figtree, cache, file_size, counts, locks, unacked, calls,
                       flags, history>>
    BY <1>5 DEF CollectDirty
  <2>7. dirty' \in BOOLEAN
    BY <1>5, Zenon DEF CollectDirty
  <2> QED
    BY <2>4, <2>5, <2>6, <2>7 DEF TypeOK, counts, locks, calls, flags, history
<1>6. CASE CollectNothing(e)
  BY <1>0, <1>6, <1>a
     DEF CollectNothing, TypeOK, CollectedIsIndex, counts, calls, flags
<1>7. CASE AppendCheckpoint(e)
  <2>1. CkptRec(loc[e].buf, loc[e].size) \in Records
    <3>1. loc[e].buf \in [Bytes -> Nat]
      BY <1>7 DEF AppendCheckpoint, CollectedIsIndex
    <3>2. loc[e].size \in Nat
      BY <1>b DEF Locals
    <3> QED
      BY <3>1, <3>2, CkptRecType
  <2>2. log' \in Seq(Records) /\ unacked' \in Seq({"data", "ckpt"})
    BY <1>7, <2>1 DEF AppendCheckpoint, TypeOK
  <2> QED
    BY <1>0, <1>7, <1>a, <2>2, NoLocalsType
       DEF AppendCheckpoint, TypeOK, CollectedIsIndex, index, calls, flags, history
<1> QED
  BY <1>1, <1>2, <1>3, <1>4, <1>5, <1>6, <1>7 DEF EvictorStep

\* The writers at some control points.  A step moves one thread: the number of
\* writers at given points changes by what that thread leaves and reaches.
At(labels) == {w \in Writers : pc[w] \in labels}

LEMMA AtFinite ==
  ASSUME NEW labels
  PROVE  IsFiniteSet(At(labels)) /\ Cardinality(At(labels)) \in Nat
<1>1. IsFiniteSet(Writers)
  BY FileIOAssumption
<1>2. At(labels) \in SUBSET Writers
  BY DEF At
<1>3. IsFiniteSet(At(labels))
  BY <1>1, <1>2, FS_Subset
<1> QED
  BY <1>3, FS_CardinalityType

LEMMA AtWriter ==
  ASSUME pc \in [Threads -> Labels], NEW w \in Writers, NEW label, Goto(w, label),
         NEW labels
  PROVE  Cardinality(At(labels)') =
           Cardinality(At(labels)) + Ind(label \in labels) - Ind(pc[w] \in labels)
<1>0. w \in Threads /\ Writers \subseteq Threads
  BY ThreadFacts
<1>1. At(labels)' = IF label \in labels THEN At(labels) \cup {w} ELSE At(labels) \ {w}
  BY <1>0 DEF At, Goto
<1>2. w \in At(labels) <=> pc[w] \in labels
  BY DEF At
<1>3. IsFiniteSet(At(labels)) /\ Cardinality(At(labels)) \in Nat
  BY AtFinite
<1>4. Cardinality(At(labels) \cup {w}) =
        IF w \in At(labels) THEN Cardinality(At(labels)) ELSE Cardinality(At(labels)) + 1
  BY <1>3, FS_AddElement
<1>5. Cardinality(At(labels) \ {w}) =
        IF w \in At(labels) THEN Cardinality(At(labels)) - 1 ELSE Cardinality(At(labels))
  BY <1>3, FS_RemoveElement
<1> QED
  BY <1>1, <1>2, <1>3, <1>4, <1>5 DEF Ind

LEMMA AtOther ==
  ASSUME pc \in [Threads -> Labels], NEW t \in Threads \ Writers, NEW label,
         Goto(t, label), NEW labels
  PROVE  At(labels)' = At(labels)
BY ThreadFacts DEF At, Goto

Counted == {"fill", "lock", "index", "append"}

Counts ==
    /\ outstanding_reqs = Cardinality(At(Counted)) + Cardinality(Places(unacked, "data"))
    /\ ref_count = 1 + Cardinality(At(Counted \cup {"count"}))
                     + Cardinality(Places(unacked, "data")) + Ind(pc[Callback] = "unref")
    /\ index_flush_reqs = Cardinality(Places(unacked, "ckpt"))

LEMMA CountsAre == CountsExact <=> Counts
BY DEF CountsExact, Counts, Pending, Places, At, Counted, Ind

LEMMA CountsTyped ==
  ASSUME TypeOK
  PROVE  /\ Cardinality(At(Counted)) \in Nat /\ Cardinality(At(Counted \cup {"count"})) \in Nat
         /\ Cardinality(Places(unacked, "data")) \in Nat
         /\ Cardinality(Places(unacked, "ckpt")) \in Nat
BY AtFinite, PlacesFinite DEF TypeOK

\* A step of the callback.  The event it handles was counted, so no counter
\* goes below zero.
LEMMA TypeCallback ==
  ASSUME TypeInv, CallbackStep
  PROVE  TypeOK' /\ CollectedIsIndex'
<1> USE DEF TypeInv, Goto
<1>0. Callback \in Threads /\ \A e \in Evictors : e \in Threads /\ e # Callback
  BY ThreadFacts, FileIOAssumption
<1>a. "unref" \in Labels /\ "idle" \in Labels
  BY DEF Labels
<1>b. Counts
  BY CountsAre
<1>c. unacked \in Seq({"data", "ckpt"})
  BY DEF TypeOK
<1>1. CASE AckWrite
  <2>1. outstanding_reqs' \in Nat
    <3>1. Cardinality(Places(unacked, "data")) >= 1
      BY <1>1, <1>c, PlacesHead DEF AckWrite
    <3>2. outstanding_reqs' = outstanding_reqs - 1
      BY <1>1 DEF AckWrite
    <3> QED
      BY <1>b, <3>1, <3>2, CountsTyped DEF Counts
  <2>2. flush_waiters' \subseteq Evictors
    BY <1>1 DEF AckWrite, AfterSignal, TypeOK
  <2>3. unacked' \in Seq({"data", "ckpt"})
    BY <1>1, <1>c DEF AckWrite
  <2> QED
    BY <1>0, <1>1, <1>a, <2>1, <2>2, <2>3
       DEF AckWrite, TypeOK, CollectedIsIndex, index, calls, flags, history
<1>2. CASE UnrefFile
  <2>1. ref_count' \in Nat
    BY <1>2, <1>b, CountsTyped DEF UnrefFile, Counts, Ind
  <2> QED
    BY <1>0, <1>2, <1>a, <2>1
       DEF UnrefFile, TypeOK, CollectedIsIndex, index, locks, calls, flags, history
<1>3. CASE AckCheckpoint
  <2>1. index_flush_reqs' \in Nat
    <3>1. Cardinality(Places(unacked, "ckpt")) >= 1
      BY <1>3, <1>c, PlacesHead DEF AckCheckpoint
    <3>2. index_flush_reqs' = index_flush_reqs - 1
      BY <1>3 DEF AckCheckpoint
    <3> QED
      BY <1>b, <3>1, <3>2, CountsTyped DEF Counts
  <2>2. unacked' \in Seq({"data", "ckpt"})
    BY <1>3, <1>c DEF AckCheckpoint
  <2> QED
    BY <1>3, <2>1, <2>2
       DEF AckCheckpoint, TypeOK, CollectedIsIndex, index, locks, calls, flags, history
<1> QED
  BY <1>1, <1>2, <1>3 DEF CallbackStep
-----------------------------------------------------------------------------
\* A writer that moves while no event comes or goes.
LEMMA CountsWriterMove ==
  ASSUME TypeOK, Counts, NEW w \in Writers, NEW label, Goto(w, label),
         UNCHANGED <<unacked, index_flush_reqs>>,
         outstanding_reqs' =
           outstanding_reqs + Ind(label \in Counted) - Ind(pc[w] \in Counted),
         ref_count' = ref_count + Ind(label \in Counted \cup {"count"})
                                - Ind(pc[w] \in Counted \cup {"count"})
  PROVE  Counts'
<1>1. pc'[Callback] = pc[Callback]
  BY ThreadFacts, FileIOAssumption DEF Goto, TypeOK
<1>2. /\ Cardinality(At(Counted)') =
           Cardinality(At(Counted)) + Ind(label \in Counted) - Ind(pc[w] \in Counted)
      /\ Cardinality(At(Counted \cup {"count"})') = Cardinality(At(Counted \cup {"count"}))
           + Ind(label \in Counted \cup {"count"}) - Ind(pc[w] \in Counted \cup {"count"})
  BY AtWriter DEF TypeOK
<1>3. /\ Ind(label \in Counted) \in Nat /\ Ind(pc[w] \in Counted) \in Nat
      /\ Ind(label \in Counted \cup {"count"}) \in Nat
      /\ Ind(pc[w] \in Counted \cup {"count"}) \in Nat /\ Ind(pc[Callback] = "unref") \in Nat
  BY DEF Ind
<1> QED
  BY <1>1, <1>2, <1>3, CountsTyped DEF Counts

\* A thread that is no writer moves while no event comes or goes.
LEMMA CountsOtherMove ==
  ASSUME TypeOK, Counts, NEW t \in Readers \cup Evictors, NEW label,
         Goto(t, label) \/ UNCHANGED pc, UNCHANGED <<unacked, counts>>
  PROVE  Counts'
<1>1. t \in Threads \ Writers /\ t # Callback /\ Callback \in Threads
  BY ThreadFacts, FileIOAssumption
<1>2. At(Counted)' = At(Counted) /\ At(Counted \cup {"count"})' = At(Counted \cup {"count"})
  BY <1>1, AtOther DEF TypeOK, At
<1>3. pc'[Callback] = pc[Callback]
  BY <1>1 DEF Goto, TypeOK
<1> QED
  BY <1>2, <1>3 DEF Counts, counts

\* A writer moves between points where its request is counted.
LEMMA CountsInside ==
  ASSUME TypeOK, Counts, NEW w \in Writers, NEW label \in Counted, Goto(w, label),
         pc[w] \in Counted, UNCHANGED <<unacked, counts>>
  PROVE  Counts'
<1>1. /\ Ind(label \in Counted) = 1 /\ Ind(pc[w] \in Counted) = 1
      /\ Ind(label \in Counted \cup {"count"}) = 1
      /\ Ind(pc[w] \in Counted \cup {"count"}) = 1
  BY DEF Ind
<1> QED
  BY <1>1, CountsWriterMove DEF counts, TypeOK

LEMMA CountsStep ==
  ASSUME TypeOK, Counts, Next
  PROVE  Counts'
<1>c. unacked \in Seq({"data", "ckpt"}) /\ "data" # "ckpt"
  BY DEF TypeOK
<1>1. ASSUME NEW w \in Writers, NEW span \in Spans, StartWrite(w, span)
      PROVE  Counts'
  BY <1>1, CountsWriterMove, CountsTyped DEF StartWrite, Ind, Counted, counts, Counts
<1>2. ASSUME NEW w \in Writers, StoreSize(w)
      PROVE  Counts'
  <2>1. Goto(w, "ref") /\ pc[w] = "size" /\ UNCHANGED <<unacked, counts>>
    BY <1>2 DEF StoreSize
  <2>2. /\ Ind("ref" \in Counted) = 0 /\ Ind("size" \in Counted) = 0
        /\ Ind("ref" \in Counted \cup {"count"}) = 0
        /\ Ind("size" \in Counted \cup {"count"}) = 0
    BY DEF Ind, Counted
  <2> QED
    BY <2>1, <2>2, CountsWriterMove DEF counts, TypeOK
<1>3. ASSUME NEW w \in Writers, RefFile(w)
      PROVE  Counts'
  <2>1. /\ Goto(w, "count") /\ pc[w] = "ref" /\ ref_count' = ref_count + 1
        /\ UNCHANGED <<unacked, outstanding_reqs, index_flush_reqs>>
    BY <1>3 DEF RefFile
  <2>2. /\ Ind("count" \in Counted) = 0 /\ Ind("ref" \in Counted) = 0
        /\ Ind("count" \in Counted \cup {"count"}) = 1
        /\ Ind("ref" \in Counted \cup {"count"}) = 0
    BY DEF Ind, Counted
  <2> QED
    BY <2>1, <2>2, CountsWriterMove DEF TypeOK
<1>4. ASSUME NEW w \in Writers, CountRequest(w)
      PROVE  Counts'
  <2>1. /\ Goto(w, "fill") \/ Goto(w, "lock")
        /\ pc[w] = "count" /\ outstanding_reqs' = outstanding_reqs + 1
        /\ UNCHANGED <<unacked, ref_count, index_flush_reqs>>
    BY <1>4 DEF CountRequest
  <2>2. /\ Ind("fill" \in Counted) = 1 /\ Ind("lock" \in Counted) = 1
        /\ Ind("count" \in Counted) = 0
        /\ Ind("fill" \in Counted \cup {"count"}) = 1
        /\ Ind("lock" \in Counted \cup {"count"}) = 1
        /\ Ind("count" \in Counted \cup {"count"}) = 1
    BY DEF Ind, Counted
  <2> QED
    BY <2>1, <2>2, CountsWriterMove DEF TypeOK
<1>5. ASSUME NEW w \in Writers, WriteCache(w)
      PROVE  Counts'
  <2>1. Goto(w, "lock") /\ pc[w] = "fill" /\ UNCHANGED <<unacked, counts>>
    BY <1>5 DEF WriteCache
  <2>2. "fill" \in Counted /\ "lock" \in Counted
    BY DEF Counted
  <2> QED
    BY <2>1, <2>2, CountsInside
<1>6. ASSUME NEW w \in Writers, LockIndex(w)
      PROVE  Counts'
  <2>1. Goto(w, "index") /\ pc[w] = "lock" /\ UNCHANGED <<unacked, counts>>
    BY <1>6 DEF LockIndex
  <2>2. "lock" \in Counted /\ "index" \in Counted
    BY DEF Counted
  <2> QED
    BY <2>1, <2>2, CountsInside
<1>7. ASSUME NEW w \in Writers, IndexWrite(w)
      PROVE  Counts'
  <2>1. Goto(w, "append") /\ pc[w] = "index" /\ UNCHANGED <<unacked, counts>>
    BY <1>7 DEF IndexWrite
  <2>2. "index" \in Counted /\ "append" \in Counted
    BY DEF Counted
  <2> QED
    BY <2>1, <2>2, CountsInside
<1>8. ASSUME NEW w \in Writers, AppendRecord(w)
      PROVE  Counts'
  <2>1. Goto(w, "idle") /\ pc[w] = "append" /\ unacked' = Append(unacked, "data")
        /\ UNCHANGED counts
    BY <1>8 DEF AppendRecord
  <2>2. /\ Cardinality(At(Counted)') = Cardinality(At(Counted)) - 1
        /\ Cardinality(At(Counted \cup {"count"})') = Cardinality(At(Counted \cup {"count"})) - 1
    <3>1. /\ Ind("idle" \in Counted) = 0 /\ Ind("append" \in Counted) = 1
          /\ Ind("idle" \in Counted \cup {"count"}) = 0
          /\ Ind("append" \in Counted \cup {"count"}) = 1
      BY DEF Ind, Counted
    <3>2. pc \in [Threads -> Labels]
      BY DEF TypeOK
    <3>3. /\ Cardinality(At(Counted)') =
               Cardinality(At(Counted)) + Ind("idle" \in Counted) - Ind(pc[w] \in Counted)
          /\ Cardinality(At(Counted \cup {"count"})') = Cardinality(At(Counted \cup {"count"}))
               + Ind("idle" \in Counted \cup {"count"}) - Ind(pc[w] \in Counted \cup {"count"})
      BY <2>1, <3>2, AtWriter
    <3> QED
      BY <2>1, <3>1, <3>3, CountsTyped
  <2>3. /\ Cardinality(Places(unacked', "data")) = Cardinality(Places(unacked, "data")) + 1
        /\ Cardinality(Places(unacked', "ckpt")) = Cardinality(Places(unacked, "ckpt"))
    BY <1>c, <2>1, PlacesAppend, CountsTyped
  <2>4. pc'[Callback] = pc[Callback]
    BY <2>1, ThreadFacts, FileIOAssumption DEF Goto, TypeOK
  <2>5. Ind(pc[Callback] = "unref") \in Nat
    BY DEF Ind
  <2>6. UNCHANGED <<ref_count, outstanding_reqs, index_flush_reqs>>
    BY <2>1 DEF counts
  <2> QED
    BY <2>2, <2>3, <2>4, <2>5, <2>6, CountsTyped DEF Counts
<1>9. ASSUME NEW r \in Readers, ReaderStep(r) \/ \E span \in Spans : StartRead(r, span)
      PROVE  Counts'
  <2>1. \/ Goto(r, "idle") \/ Goto(r, "miss") \/ Goto(r, "refill")
        \/ Goto(r, IF use_cache THEN "check" ELSE "miss")
    BY <1>9 DEF ReaderStep, ReadHit, ReadMiss, ReadLog, FillFromRead, StartRead
  <2>2. UNCHANGED <<unacked, counts>>
    BY <1>9 DEF ReaderStep, ReadHit, ReadMiss, ReadLog, FillFromRead, StartRead
  <2> QED
    BY <2>1, <2>2, CountsOtherMove
<1>10. ASSUME NEW e \in Evictors, SpuriousWakeup(e) \/ WaitOutstanding(e) \/ StartEvict(e)
                \/ BeginCheckpoint(e) \/ CollectDirty(e) \/ CollectNothing(e)
       PROVE  Counts'
  <2>1. (\E label : Goto(e, label)) \/ UNCHANGED pc
    BY <1>10 DEF SpuriousWakeup, WaitOutstanding, StartEvict, BeginCheckpoint,
                 CollectDirty, CollectNothing
  <2>2. UNCHANGED <<unacked, counts>>
    BY <1>10 DEF SpuriousWakeup, WaitOutstanding, StartEvict, BeginCheckpoint,
                 CollectDirty, CollectNothing
  <2> QED
    BY <2>1, <2>2, CountsOtherMove
<1>11. ASSUME NEW e \in Evictors, AppendCheckpoint(e)
       PROVE  Counts'
  <2>1. /\ Goto(e, "idle") /\ unacked' = Append(unacked, "ckpt")
        /\ index_flush_reqs' = index_flush_reqs + 1
        /\ UNCHANGED <<ref_count, outstanding_reqs>>
    BY <1>11 DEF AppendCheckpoint
  <2>2. e \in Threads \ Writers /\ e # Callback /\ Callback \in Threads
    BY ThreadFacts, FileIOAssumption
  <2>3. At(Counted)' = At(Counted) /\ At(Counted \cup {"count"})' = At(Counted \cup {"count"})
    BY <2>1, <2>2, AtOther DEF TypeOK
  <2>4. pc'[Callback] = pc[Callback]
    BY <2>1, <2>2 DEF Goto, TypeOK
  <2>5. /\ Cardinality(Places(unacked', "data")) = Cardinality(Places(unacked, "data"))
        /\ Cardinality(Places(unacked', "ckpt")) = Cardinality(Places(unacked, "ckpt")) + 1
    BY <1>c, <2>1, PlacesAppend, CountsTyped
  <2> QED
    BY <2>1, <2>3, <2>4, <2>5, CountsTyped DEF Counts
<1>12. CASE AckWrite
  <2>1. /\ Goto(Callback, "unref") /\ pc[Callback] = "idle"
        /\ unacked # << >> /\ Head(unacked) = "data" /\ unacked' = Tail(unacked)
        /\ outstanding_reqs' = outstanding_reqs - 1
        /\ UNCHANGED <<ref_count, index_flush_reqs>>
    BY <1>12 DEF AckWrite
  <2>2. Callback \in Threads \ Writers
    BY ThreadFacts, FileIOAssumption
  <2>3. At(Counted)' = At(Counted) /\ At(Counted \cup {"count"})' = At(Counted \cup {"count"})
    BY <2>1, <2>2, AtOther DEF TypeOK
  <2>4. Ind(pc[Callback] = "unref") = 0 /\ Ind(pc'[Callback] = "unref") = 1
    BY <2>1, <2>2 DEF Goto, TypeOK, Ind
  <2>5. /\ Cardinality(Places(unacked', "data")) = Cardinality(Places(unacked, "data")) - 1
        /\ Cardinality(Places(unacked', "ckpt")) = Cardinality(Places(unacked, "ckpt"))
    BY <1>c, <2>1, PlacesTail, CountsTyped
  <2> QED
    BY <2>1, <2>3, <2>4, <2>5, CountsTyped DEF Counts
<1>13. CASE UnrefFile
  <2>1. /\ Goto(Callback, "idle") /\ pc[Callback] = "unref"
        /\ ref_count' = ref_count - 1
        /\ UNCHANGED <<unacked, outstanding_reqs, index_flush_reqs>>
    BY <1>13 DEF UnrefFile
  <2>2. Callback \in Threads \ Writers
    BY ThreadFacts, FileIOAssumption
  <2>3. At(Counted)' = At(Counted) /\ At(Counted \cup {"count"})' = At(Counted \cup {"count"})
    BY <2>1, <2>2, AtOther DEF TypeOK
  <2>4. Ind(pc[Callback] = "unref") = 1 /\ Ind(pc'[Callback] = "unref") = 0
    BY <2>1, <2>2 DEF Goto, TypeOK, Ind
  <2> QED
    BY <2>1, <2>3, <2>4, CountsTyped DEF Counts
<1>14. CASE AckCheckpoint
  <2>1. /\ unacked # << >> /\ Head(unacked) = "ckpt" /\ unacked' = Tail(unacked)
        /\ index_flush_reqs' = index_flush_reqs - 1
        /\ UNCHANGED <<ref_count, outstanding_reqs, pc>>
    BY <1>14 DEF AckCheckpoint
  <2>2. /\ Cardinality(Places(unacked', "data")) = Cardinality(Places(unacked, "data"))
        /\ Cardinality(Places(unacked', "ckpt")) = Cardinality(Places(unacked, "ckpt")) - 1
    BY <1>c, <2>1, PlacesTail, CountsTyped
  <2> QED
    BY <2>1, <2>2, CountsTyped DEF Counts, At
<1>15. CASE Done
  BY <1>15 DEF Done, vars, counts, Counts, At
<1> QED
  BY <1>1, <1>2, <1>3, <1>4, <1>5, <1>6, <1>7, <1>8, <1>9, <1>10, <1>11, <1>12,
     <1>13, <1>14, <1>15 DEF Next, WriterStep, EvictorStep, CallbackStep

LEMMA TypeStep ==
  ASSUME TypeInv, [Next]_vars
  PROVE  TypeInv'
<1>1. CASE Next
  <2>1. Counts'
    BY <1>1, CountsStep, CountsAre DEF TypeInv
  <2>2. CountsExact'
    BY <2>1, CountsAre, PTL
  <2>3. CASE Done
    BY <2>2, <2>3 DEF Done, vars, index, counts, locks, calls, flags, history,
                      TypeInv, TypeOK, CollectedIsIndex
  <2> QED
    BY <1>1, <2>2, <2>3, TypeWriter, TypeReader, TypeEvictor, TypeCallback DEF Next, TypeInv
<1>2. CASE UNCHANGED vars
  BY <1>2 DEF vars, index, counts, locks, calls, flags, history, TypeInv, TypeOK,
              CountsExact, Pending, CollectedIsIndex
<1> QED
  BY <1>1, <1>2

LEMMA CountsInit == Init => CountsExact
<1> SUFFICES ASSUME Init PROVE Counts
  BY CountsAre
<1>1. Places(unacked, "data") = {} /\ Places(unacked, "ckpt") = {}
  BY DEF Init, Places
<1>2. At(Counted) = {} /\ At(Counted \cup {"count"}) = {}
  BY ThreadFacts DEF Init, At, Counted
<1>3. Ind(pc[Callback] = "unref") = 0
  BY ThreadFacts DEF Init, Ind
<1>4. ref_count = 1 /\ outstanding_reqs = 0 /\ index_flush_reqs = 0
  BY DEF Init
<1>5. Cardinality({}) = 0
  BY FS_EmptySet
<1> QED
  BY <1>1, <1>2, <1>3, <1>4, <1>5 DEF Counts

LEMMA TypeInvariant == Spec => []TypeInv
<1>1. Init => TypeInv
  BY TypeInit, CountsInit DEF TypeInv
<1> QED
  BY <1>1, TypeStep, PTL DEF Spec

\* Every variable keeps its type whatever the threads of the file and the
\* callbacks of the GDP do.  In particular no counter of gdpfs_file_t goes below
\* zero: every decrement answers an increment.
THEOREM TypeCorrect == Spec => []TypeOK
BY TypeInvariant, PTL DEF TypeInv

\* outstanding_reqs, ref_count and index_flush_reqs count exactly the appends
\* under way or not acknowledged, for any number of writers.
THEOREM CountsAlwaysExact == Spec => []CountsExact
BY TypeInvariant, PTL DEF TypeInv
-----------------------------------------------------------------------------
\* Who holds which lock, and where: figtree_lock belongs to the writer that has
\* indexed its record or is about to, and stays with it until the record is
\* appended; index_flush_lock belongs to the eviction that takes a checkpoint;
\* cache_lock to the writer that has filled the cache and waits for the index.
IndexLocked ==
    /\ figtree_lock \in Writers \cup {NoThread}
    /\ \A w \in Writers : pc[w] \in {"index", "append"} <=> figtree_lock = w

CacheLocked ==
    /\ cache_lock \in Writers \cup {NoThread}
    /\ \A w \in Writers : pc[w] = "fill" => use_cache
    /\ \A w \in Writers : cache_lock = w <=> use_cache /\ pc[w] = "lock"

\* No append is outstanding while a checkpoint is taken.
FlushLocked ==
    /\ index_flush_lock \in Evictors \cup {NoThread}
    /\ \A e \in Evictors : pc[e] \in {"collect", "ckpt"} <=> index_flush_lock = e
    /\ index_flush_lock # NoThread => outstanding_reqs = 0

LockInv == IndexLocked /\ CacheLocked /\ FlushLocked

LEMMA LockInit == Init => LockInv
BY ThreadFacts, FileIOAssumption DEF Init, LockInv, IndexLocked, CacheLocked, FlushLocked

LEMMA LockStep ==
  ASSUME TypeInv, LockInv, [Next]_vars
  PROVE  LockInv'
<1> USE DEF LockInv, Goto
<1>a. pc \in [Threads -> Labels]
  BY DEF TypeInv, TypeOK
<1>b. /\ \A t \in Writers : t \in Threads /\ t \notin Readers /\ t \notin Evictors
                            /\ t # Callback /\ t # NoThread
      /\ \A t \in Readers : t \in Threads /\ t \notin Writers /\ t \notin Evictors
                            /\ t # Callback /\ t # NoThread
      /\ \A t \in Evictors : t \in Threads /\ t \notin Writers /\ t \notin Readers
                            /\ t # Callback /\ t # NoThread
      /\ Callback \in Threads /\ Callback \notin Writers /\ Callback \notin Evictors
  BY ThreadFacts, FileIOAssumption
<1>1. ASSUME NEW w \in Writers, NEW span \in Spans, StartWrite(w, span)
      PROVE  LockInv'
  BY <1>1, <1>a, <1>b
     DEF StartWrite, IndexLocked, CacheLocked, FlushLocked, counts, locks, flags
<1>2. ASSUME NEW w \in Writers, StoreSize(w)
      PROVE  LockInv'
  BY <1>2, <1>a, <1>b
     DEF StoreSize, IndexLocked, CacheLocked, FlushLocked, counts, locks, flags
<1>3. ASSUME NEW w \in Writers, RefFile(w)
      PROVE  LockInv'
  BY <1>3, <1>a, <1>b
     DEF RefFile, IndexLocked, CacheLocked, FlushLocked, locks, flags
<1>4. ASSUME NEW w \in Writers, CountRequest(w)
      PROVE  LockInv'
  BY <1>4, <1>a, <1>b
     DEF CountRequest, IndexLocked, CacheLocked, FlushLocked, locks, flags
<1>5. ASSUME NEW w \in Writers, WriteCache(w)
      PROVE  LockInv'
  BY <1>5, <1>a, <1>b
     DEF WriteCache, IndexLocked, CacheLocked, FlushLocked, counts, flags
<1>6. ASSUME NEW w \in Writers, LockIndex(w)
      PROVE  LockInv'
  BY <1>6, <1>a, <1>b
     DEF LockIndex, IndexLocked, CacheLocked, FlushLocked, counts, flags
<1>7. ASSUME NEW w \in Writers, IndexWrite(w)
      PROVE  LockInv'
  BY <1>7, <1>a, <1>b
     DEF IndexWrite, IndexLocked, CacheLocked, FlushLocked, counts, locks, flags
<1>8. ASSUME NEW w \in Writers, AppendRecord(w)
      PROVE  LockInv'
  BY <1>8, <1>a, <1>b
     DEF AppendRecord, IndexLocked, CacheLocked, FlushLocked, counts, flags
<1>9. ASSUME NEW r \in Readers, ReaderStep(r) \/ \E span \in Spans : StartRead(r, span)
      PROVE  LockInv'
  <2>1. \/ Goto(r, "idle") \/ Goto(r, "miss") \/ Goto(r, "refill")
        \/ Goto(r, IF use_cache THEN "check" ELSE "miss")
    BY <1>9 DEF ReaderStep, ReadHit, ReadMiss, ReadLog, FillFromRead, StartRead
  <2>2. UNCHANGED <<counts, locks, flags>>
    BY <1>9 DEF ReaderStep, ReadHit, ReadMiss, ReadLog, FillFromRead, StartRead
  <2>3. \A t \in Writers \cup Evictors : pc'[t] = pc[t]
    BY <1>a, <1>b, <2>1
  <2> QED
    BY <2>2, <2>3 DEF IndexLocked, CacheLocked, FlushLocked, counts, locks, flags
<1>10. ASSUME NEW e \in Evictors, SpuriousWakeup(e) \/ WaitOutstanding(e)
       PROVE  LockInv'
  BY <1>10 DEF SpuriousWakeup, WaitOutstanding, IndexLocked, CacheLocked, FlushLocked,
               counts, flags
<1>11. ASSUME NEW e \in Evictors, StartEvict(e)
       PROVE  LockInv'
  BY <1>11, <1>a, <1>b
     DEF StartEvict, IndexLocked, CacheLocked, FlushLocked, counts, locks, flags
<1>12. ASSUME NEW e \in Evictors, BeginCheckpoint(e)
       PROVE  LockInv'
  BY <1>12, <1>a, <1>b
     DEF BeginCheckpoint, IndexLocked, CacheLocked, FlushLocked, counts, flags
<1>13. ASSUME NEW e \in Evictors, CollectDirty(e)
       PROVE  LockInv'
  BY <1>13, <1>a, <1>b
     DEF CollectDirty, IndexLocked, CacheLocked, FlushLocked, counts, locks, flags
<1>14. ASSUME NEW e \in Evictors, CollectNothing(e)
       PROVE  LockInv'
  BY <1>14, <1>a, <1>b
     DEF CollectNothing, IndexLocked, CacheLocked, FlushLocked, counts, flags
<1>15. ASSUME NEW e \in Evictors, AppendCheckpoint(e)
       PROVE  LockInv'
  BY <1>15, <1>a, <1>b
     DEF AppendCheckpoint, IndexLocked, CacheLocked, FlushLocked, flags
<1>16. CASE AckWrite
  BY <1>16, <1>a, <1>b
     DEF AckWrite, IndexLocked, CacheLocked, FlushLocked, flags
<1>17. CASE UnrefFile
  BY <1>17, <1>a, <1>b
     DEF UnrefFile, IndexLocked, CacheLocked, FlushLocked, locks, flags
<1>18. CASE AckCheckpoint
  BY <1>18 DEF AckCheckpoint, IndexLocked, CacheLocked, FlushLocked, locks, flags
<1>19. CASE UNCHANGED vars
  BY <1>19 DEF vars, counts, locks, flags, IndexLocked, CacheLocked, FlushLocked
<1> QED
  BY <1>1, <1>2, <1>3, <1>4, <1>5, <1>6, <1>7, <1>8, <1>9, <1>10, <1>11, <1>12,
     <1>13, <1>14, <1>15, <1>16, <1>17, <1>18, <1>19
     DEF Next, WriterStep, EvictorStep, CallbackStep, Done

\* A writer whose request is counted keeps every eviction from its checkpoint.
LEMMA CountedExcludesFlush ==
  ASSUME TypeInv, LockInv, NEW w \in Writers, pc[w] \in Counted
  PROVE  outstanding_reqs # 0 /\ index_flush_lock = NoThread
<1>1. w \in At(Counted)
  BY DEF At
<1>2. Cardinality(At(Counted)) # 0
  BY <1>1, AtFinite, FS_EmptySet
<1>3. outstanding_reqs # 0
  BY <1>2, CountsTyped, CountsAre DEF TypeInv, Counts
<1> QED
  BY <1>3 DEF LockInv, FlushLocked
-----------------------------------------------------------------------------
\* An append changes what the last record of a byte is only at its own bytes.
LEMMA LastRecordAppend ==
  ASSUME log \in Seq(Records), NEW rec \in Records, log' = Append(log, rec),
         NEW b \in Bytes
  PROVE  LastRecord(b)' = IF b \in rec.span THEN Len(log) + 1 ELSE LastRecord(b)
<1> DEFINE S == {0} \cup {r \in DOMAIN log : b \in log[r].span}
           S1 == {0} \cup {r \in DOMAIN log' : b \in log'[r].span}
<1>1. Len(log) \in Nat /\ DOMAIN log = 1 .. Len(log)
  OBVIOUS
<1>2. /\ DOMAIN log' = 1 .. Len(log) + 1 /\ log'[Len(log) + 1] = rec
      /\ \A r \in 1 .. Len(log) : log'[r] = log[r]
  BY <1>1
<1>3. S1 = IF b \in rec.span THEN S \cup {Len(log) + 1} ELSE S
  BY <1>1, <1>2
<1>4. LastRecord(b)' = Max(S1) /\ LastRecord(b) = Max(S)
  BY DEF LastRecord
<1>5. S \in SUBSET Nat /\ \A r \in S : r <= Len(log)
  BY <1>1
<1>6. CASE b \in rec.span
  <2>1. S1 \in SUBSET Nat /\ Len(log) + 1 \in S1 /\ \A r \in S1 : r <= Len(log) + 1
    BY <1>1, <1>3, <1>5, <1>6
  <2>2. Max(S1) = Len(log) + 1
    <3> HIDE DEF S1
    <3> QED BY <2>1, MaxIsUnique
  <2> QED
    BY <1>4, <1>6, <2>2
<1>7. CASE b \notin rec.span
  BY <1>3, <1>4, <1>7
<1> QED
  BY <1>6, <1>7

\* The index while the code is exact: every byte is indexed at its last record,
\* but for the bytes of a write that is indexed and not yet appended.
Appending(b) == \E w \in Writers : pc[w] = "append" /\ b \in loc[w].span

\* The number the code gives out is the one the log gives next, and it has been
\* given out to at most one append under way.
Ahead == (\E w \in Writers : pc[w] = "append") \/ (\E e \in Evictors : pc[e] = "ckpt")

IndexInv ==
    ~skipped =>
        /\ last_recno = IF Ahead THEN Len(log) + 1 ELSE Len(log)
        /\ \A b \in Bytes : figtree[b] = IF Appending(b) THEN last_recno ELSE LastRecord(b)

LEMMA IndexInit == Init => IndexInv
<1> SUFFICES ASSUME Init PROVE IndexInv
  OBVIOUS
<1>0. \A t \in Threads : pc[t] = "idle"
  BY DEF Init
<1>1. ~Ahead /\ \A b \in Bytes : ~Appending(b)
  BY <1>0, ThreadFacts DEF Ahead, Appending
<1>2. last_recno = Len(log)
  BY DEF Init
<1>3. ASSUME NEW b \in Bytes PROVE figtree[b] = LastRecord(b)
  <2> DEFINE S == {0} \cup {r \in DOMAIN log : b \in log[r].span}
  <2>1. S = IF new_file THEN {0} ELSE {0, 2}
    BY DEF Init, DataRec, CkptRec
  <2>2. figtree[b] = IF new_file THEN 0 ELSE 2
    BY DEF Init, NoIndex, OldTree
  <2>3. S \in SUBSET Nat /\ figtree[b] \in S /\ \A x \in S : x <= figtree[b]
    BY <2>1, <2>2
  <2>4. Max(S) = figtree[b]
    <3> HIDE DEF S
    <3> QED BY <2>3, MaxIsUnique
  <2> QED
    BY <2>4 DEF LastRecord
<1> QED
  BY <1>1, <1>2, <1>3 DEF IndexInv

\* Steps that leave the index, the log and the appends under way as they are.
LEMMA IndexUnmoved ==
  ASSUME IndexInv, UNCHANGED <<log, figtree, last_recno, skipped>>,
         \A w \in Writers : /\ pc'[w] = "append" <=> pc[w] = "append"
                            /\ pc[w] = "append" => loc'[w].span = loc[w].span,
         \A e \in Evictors : pc'[e] = "ckpt" <=> pc[e] = "ckpt"
  PROVE  IndexInv'
<1>1. Ahead' <=> Ahead
  BY DEF Ahead
<1>2. \A b \in Bytes : Appending(b)' <=> Appending(b)
  BY DEF Appending
<1>3. \A b \in Bytes : LastRecord(b)' = LastRecord(b)
  BY DEF LastRecord
<1> QED
  BY <1>1, <1>2, <1>3 DEF IndexInv

LEMMA IndexStep ==
  ASSUME TypeInv, LockInv, IndexInv, [Next]_vars
  PROVE  IndexInv'
<1>a. pc \in [Threads -> Labels] /\ loc \in [Threads -> Locals] /\ log \in Seq(Records)
      /\ last_recno \in Nat
  BY DEF TypeInv, TypeOK
<1>b. /\ \A t \in Writers : t \in Threads /\ t \notin Readers /\ t \notin Evictors
                            /\ t # Callback /\ t # NoThread
      /\ \A t \in Readers : t \in Threads /\ t \notin Writers /\ t \notin Evictors
      /\ \A t \in Evictors : t \in Threads /\ t \notin Writers /\ t \notin Readers
                             /\ t # Callback /\ t # NoThread
      /\ Callback \in Threads
  BY ThreadFacts, FileIOAssumption
<1>1. ASSUME NEW w \in Writers,
             \/ \E span \in Spans : StartWrite(w, span)
             \/ StoreSize(w) \/ RefFile(w) \/ CountRequest(w) \/ WriteCache(w) \/ LockIndex(w)
      PROVE  IndexInv'
  <2>1. UNCHANGED <<log, figtree, last_recno, skipped>>
    BY <1>1 DEF StartWrite, StoreSize, RefFile, CountRequest, WriteCache, LockIndex,
                index, history
  <2>2. /\ pc[w] # "append" /\ pc'[w] # "append"
        /\ \A t \in Threads : t # w => pc'[t] = pc[t]
    BY <1>1, <1>a, <1>b DEF StartWrite, StoreSize, RefFile, CountRequest, WriteCache,
                            LockIndex, Goto
  <2>3. \A v \in Writers : v # w => loc'[v] = loc[v]
    BY <1>1, <1>a, <1>b DEF StartWrite, StoreSize, RefFile, CountRequest, WriteCache,
                            LockIndex
  <2> QED
    BY <1>b, <2>1, <2>2, <2>3, IndexUnmoved
<1>2. ASSUME NEW w \in Writers, IndexWrite(w)
      PROVE  IndexInv'
  <2>1. \A v \in Writers : pc[v] # "append"
    BY <1>2, <1>b DEF IndexWrite, LockInv, IndexLocked
  <2>2. \A e \in Evictors : pc[e] # "ckpt"
    <3>1. index_flush_lock = NoThread
      BY <1>2, CountedExcludesFlush DEF IndexWrite, Counted
    <3> QED
      BY <3>1, <1>b DEF LockInv, FlushLocked
  <2>3. /\ \A v \in Writers : pc'[v] = "append" <=> v = w
        /\ last_recno' = last_recno + 1 /\ figtree' = FtWrite(loc[w].span, last_recno + 1)
        /\ UNCHANGED <<log, loc, skipped>>
    BY <1>2, <1>a, <1>b, <2>1 DEF IndexWrite, Goto, history
  <2>4. ~Ahead /\ Ahead' /\ \A b \in Bytes : ~Appending(b)
    BY <2>1, <2>2, <2>3 DEF Ahead, Appending
  <2>5. \A b \in Bytes : Appending(b)' <=> b \in loc[w].span
    BY <2>3 DEF Appending
  <2>6. \A b \in Bytes : LastRecord(b)' = LastRecord(b)
    BY <2>3 DEF LastRecord
  <2> SUFFICES ASSUME ~skipped
               PROVE  /\ last_recno' = Len(log) + 1
                      /\ \A b \in Bytes : figtree'[b] = IF b \in loc[w].span THEN last_recno'
                                                       ELSE LastRecord(b)
    BY <2>3, <2>4, <2>5, <2>6 DEF IndexInv
  <2>7. last_recno = Len(log) /\ \A b \in Bytes : figtree[b] = LastRecord(b)
    BY <2>4 DEF IndexInv
  <2> QED
    BY <2>3, <2>7 DEF FtWrite
<1>3. ASSUME NEW w \in Writers, AppendRecord(w)
      PROVE  IndexInv'
  <2> DEFINE rec == DataRec(loc[w].span, loc[w].id, loc[w].size)
  <2>1. \A v \in Writers : pc[v] = "append" <=> v = w
    BY <1>3, <1>b DEF AppendRecord, LockInv, IndexLocked
  <2>2. \A e \in Evictors : pc[e] # "ckpt"
    <3>1. index_flush_lock = NoThread
      BY <1>3, CountedExcludesFlush DEF AppendRecord, Counted
    <3> QED
      BY <3>1, <1>b DEF LockInv, FlushLocked
  <2>3. /\ \A v \in Writers : pc'[v] # "append"
        /\ \A e \in Evictors : pc'[e] = pc[e]
        /\ log' = Append(log, rec)
        /\ UNCHANGED <<last_recno, figtree, skipped>>
    BY <1>3, <1>a, <1>b, <2>1 DEF AppendRecord, Goto, history, index
  <2>4. Ahead /\ ~Ahead' /\ \A b \in Bytes : ~Appending(b)'
    BY <2>1, <2>2, <2>3 DEF Ahead, Appending
  <2>5. \A b \in Bytes : Appending(b) <=> b \in loc[w].span
    BY <2>1 DEF Appending
  <2>6. rec \in Records /\ rec.span = loc[w].span
    <3>1. loc[w] \in Locals
      BY <1>a, <1>b
    <3> QED
      BY <3>1, DataRecType DEF Locals, DataRec
  <2>7. \A b \in Bytes :
          LastRecord(b)' = IF b \in loc[w].span THEN Len(log) + 1 ELSE LastRecord(b)
    <3> HIDE DEF rec
    <3> QED BY <1>a, <2>3, <2>6, LastRecordAppend
  <2>8. Len(log') = Len(log) + 1
    <3> HIDE DEF rec
    <3> QED BY <1>a, <2>3, <2>6
  <2> HIDE DEF rec
  <2> SUFFICES ASSUME ~skipped
               PROVE  /\ last_recno = Len(log')
                      /\ \A b \in Bytes : figtree[b] = LastRecord(b)'
    BY <2>3, <2>4 DEF IndexInv
  <2>9. /\ last_recno = Len(log) + 1
        /\ \A b \in Bytes : figtree[b] = IF b \in loc[w].span THEN last_recno ELSE LastRecord(b)
    BY <2>4, <2>5 DEF IndexInv
  <2> QED
    BY <2>7, <2>8, <2>9
<1>4. ASSUME NEW r \in Readers, ReaderStep(r) \/ \E span \in Spans : StartRead(r, span)
      PROVE  IndexInv'
  <2>1. \/ Goto(r, "idle") \/ Goto(r, "miss") \/ Goto(r, "refill")
        \/ Goto(r, IF use_cache THEN "check" ELSE "miss")
    BY <1>4 DEF ReaderStep, ReadHit, ReadMiss, ReadLog, FillFromRead, StartRead
  <2>2. UNCHANGED <<log, figtree, last_recno, skipped>>
    BY <1>4 DEF ReaderStep, ReadHit, ReadMiss, ReadLog, FillFromRead, StartRead,
                index, history
  <2>3. \A t \in Writers : loc'[t] = loc[t]
    BY <1>4, <1>a, <1>b DEF ReaderStep, ReadHit, ReadMiss, ReadLog, FillFromRead, StartRead
  <2>4. \A t \in Writers \cup Evictors : pc'[t] = pc[t]
    BY <1>a, <1>b, <2>1 DEF Goto
  <2> QED
    BY <2>2, <2>3, <2>4, IndexUnmoved
<1>5. ASSUME NEW e \in Evictors,
             SpuriousWakeup(e) \/ WaitOutstanding(e) \/ StartEvict(e) \/ BeginCheckpoint(e)
      PROVE  IndexInv'
  <2>1. UNCHANGED <<log, figtree, last_recno, skipped>>
    BY <1>5 DEF SpuriousWakeup, WaitOutstanding, StartEvict, BeginCheckpoint, index, history
  <2>2. \A t \in Writers : loc'[t] = loc[t]
    BY <1>5, <1>a, <1>b DEF SpuriousWakeup, WaitOutstanding, StartEvict, BeginCheckpoint
  <2>3. /\ \A t \in Writers : pc'[t] = pc[t]
        /\ \A d \in Evictors : pc'[d] = "ckpt" <=> pc[d] = "ckpt"
    BY <1>5, <1>a, <1>b DEF SpuriousWakeup, WaitOutstanding, StartEvict, BeginCheckpoint, Goto
  <2> QED
    BY <2>1, <2>2, <2>3, IndexUnmoved
<1>6. ASSUME NEW e \in Evictors, CollectDirty(e)
      PROVE  IndexInv'
  <2>1. \A v \in Writers : pc[v] # "append"
    BY <1>6, <1>b DEF CollectDirty, LockInv, IndexLocked
  <2>2. \A d \in Evictors : pc[d] # "ckpt"
    BY <1>6 DEF CollectDirty, LockInv, FlushLocked
  <2>3. /\ \A v \in Writers : pc'[v] = pc[v]
        /\ pc'[e] = "ckpt" /\ last_recno' = last_recno + 1
        /\ UNCHANGED <<log, figtree, skipped>>
    BY <1>6, <1>a, <1>b DEF CollectDirty, Goto, history
  <2>4. ~Ahead /\ Ahead' /\ \A b \in Bytes : ~Appending(b) /\ ~Appending(b)'
    BY <2>1, <2>2, <2>3 DEF Ahead, Appending
  <2>5. \A b \in Bytes : LastRecord(b)' = LastRecord(b)
    BY <2>3 DEF LastRecord
  <2> SUFFICES ASSUME ~skipped
               PROVE  /\ last_recno' = Len(log) + 1
                      /\ \A b \in Bytes : figtree[b] = LastRecord(b)
    BY <2>3, <2>4, <2>5 DEF IndexInv
  <2> QED
    BY <2>3, <2>4 DEF IndexInv
<1>7. ASSUME NEW e \in Evictors, CollectNothing(e)
      PROVE  IndexInv'
  BY <1>7 DEF CollectNothing, IndexInv
<1>8. ASSUME NEW e \in Evictors, AppendCheckpoint(e)
      PROVE  IndexInv'
  <2> DEFINE rec == CkptRec(loc[e].buf, loc[e].size)
  <2>1. \A d \in Evictors : pc[d] = "ckpt" => d = e
    BY <1>8 DEF AppendCheckpoint, LockInv, FlushLocked
  <2>2. \A v \in Writers : pc[v] # "append"
    <3>1. index_flush_lock = e /\ e # NoThread
      BY <1>8, <1>b DEF AppendCheckpoint, LockInv, FlushLocked
    <3> QED
      BY <3>1, CountedExcludesFlush DEF Counted
  <2>3. /\ \A v \in Writers : pc'[v] = pc[v]
        /\ \A d \in Evictors : pc'[d] # "ckpt"
        /\ log' = Append(log, rec)
        /\ UNCHANGED <<last_recno, figtree, skipped>>
    BY <1>8, <1>a, <1>b, <2>1 DEF AppendCheckpoint, Goto, history, index
  <2>4. Ahead /\ ~Ahead' /\ \A b \in Bytes : ~Appending(b) /\ ~Appending(b)'
    BY <1>8, <2>2, <2>3 DEF Ahead, Appending, AppendCheckpoint
  <2>5. rec \in Records /\ rec.span = {}
    <3>1. loc[e].buf \in [Bytes -> Nat]
      BY <1>8 DEF AppendCheckpoint, TypeInv, CollectedIsIndex
    <3>2. loc[e].size \in Nat
      BY <1>a, <1>b DEF Locals
    <3> QED
      BY <3>1, <3>2, CkptRecType DEF CkptRec
  <2> HIDE DEF rec
  <2>6. \A b \in Bytes : LastRecord(b)' = LastRecord(b)
    BY <1>a, <2>3, <2>5, LastRecordAppend
  <2>7. Len(log') = Len(log) + 1
    BY <1>a, <2>3, <2>5
  <2> SUFFICES ASSUME ~skipped
               PROVE  /\ last_recno = Len(log')
                      /\ \A b \in Bytes : figtree[b] = LastRecord(b)
    BY <2>3, <2>4, <2>6 DEF IndexInv
  <2> QED
    BY <2>4, <2>7 DEF IndexInv
<1>9. CASE CallbackStep
  <2>1. UNCHANGED <<log, figtree, last_recno, skipped, loc>>
    BY <1>9 DEF CallbackStep, AckWrite, UnrefFile, AckCheckpoint, index, history
  <2>2. \A t \in Writers \cup Evictors : pc'[t] = pc[t]
    BY <1>9, <1>a, <1>b DEF CallbackStep, AckWrite, UnrefFile, AckCheckpoint, Goto
  <2> QED
    BY <2>1, <2>2, IndexUnmoved
<1>10. CASE UNCHANGED vars
  BY <1>10, IndexUnmoved DEF vars, index, history
<1> QED
  BY <1>1, <1>2, <1>3, <1>4, <1>5, <1>6, <1>7, <1>8, <1>9, <1>10
     DEF Next, WriterStep, EvictorStep, Done

LEMMA LockInvariant == Spec => []LockInv
BY LockInit, LockStep, TypeInvariant, PTL DEF Spec

LEMMA IndexInvariant == Spec => []IndexInv
BY IndexInit, IndexStep, LockInvariant, TypeInvariant, PTL DEF Spec

\* Until an eviction finds nothing to append, the unlocked index names for every
\* byte the last record of the log that holds it: the record numbers that the
\* code predicts are the ones the log gives, whatever the number of writers,
\* readers and evictions.
THEOREM IndexStaysExact == Spec => []IndexExactUntilSkip
<1>1. LockInv /\ IndexInv => IndexExactUntilSkip
  <2> SUFFICES ASSUME LockInv, IndexInv, ~skipped, figtree_lock = NoThread, NEW b \in Bytes
               PROVE  figtree[b] = LastRecord(b)
    BY DEF IndexExactUntilSkip, IndexFindsMostRecent
  <2>1. ~Appending(b)
    BY ThreadFacts DEF Appending, LockInv, IndexLocked
  <2> QED
    BY <2>1 DEF IndexInv
<1> QED
  BY <1>1, LockInvariant, IndexInvariant, PTL
-----------------------------------------------------------------------------
\* Reopening.  What open_file rebuilds is the last record of each byte: the tree
\* in the newest checkpoint was the index when the checkpoint was taken, and no
\* record came between the two.
ReopenInv ==
    ~skipped => \A b \in Bytes :
        /\ RebuiltIndex(b) = LastRecord(b)
        /\ \A e \in Evictors : pc[e] = "ckpt" => loc[e].buf[b] = LastRecord(b)

LEMMA NewestCkptFacts ==
  ASSUME log \in Seq(Records)
  PROVE  /\ NewestCkpt \in 0 .. Len(log)
         /\ \A r \in DOMAIN log : log[r].kind = "ckpt" => r <= NewestCkpt
<1> DEFINE S == {0} \cup {r \in DOMAIN log : log[r].kind = "ckpt"}
<1>1. DOMAIN log = 1 .. Len(log) /\ Len(log) \in Nat
  OBVIOUS
<1>2. S \in SUBSET Nat /\ S # {} /\ \A x \in S : x <= Len(log)
  BY <1>1
<1>3. Max(S) \in S /\ \A x \in S : x <= Max(S)
  <2> HIDE DEF S
  <2> QED BY <1>1, <1>2, MaxOfBounded
<1> QED
  BY <1>1, <1>3 DEF NewestCkpt

\* A record of data goes on top of what is rebuilt from the records before it.
LEMMA RebuiltAppendData ==
  ASSUME log \in Seq(Records), NEW rec \in Records, rec.kind # "ckpt",
         log' = Append(log, rec), NEW b \in Bytes
  PROVE  RebuiltIndex(b)' = IF b \in rec.span THEN Len(log) + 1 ELSE RebuiltIndex(b)
<1> DEFINE K == {0} \cup {r \in DOMAIN log : log[r].kind = "ckpt"}
           K1 == {0} \cup {r \in DOMAIN log' : log'[r].kind = "ckpt"}
           later == {r \in DOMAIN log : r > NewestCkpt /\ b \in log[r].span}
           later1 == {r \in DOMAIN log' : r > NewestCkpt' /\ b \in log'[r].span}
<1>1. Len(log) \in Nat /\ DOMAIN log = 1 .. Len(log)
  OBVIOUS
<1>2. /\ DOMAIN log' = 1 .. Len(log) + 1 /\ log'[Len(log) + 1] = rec
      /\ \A r \in 1 .. Len(log) : log'[r] = log[r]
  BY <1>1
<1>3. K1 = K
  BY <1>1, <1>2
<1>4. NewestCkpt' = NewestCkpt /\ NewestCkpt \in 0 .. Len(log)
  BY <1>3, NewestCkptFacts DEF NewestCkpt
<1>5. later1 = IF b \in rec.span THEN later \cup {Len(log) + 1} ELSE later
  BY <1>1, <1>2, <1>4
<1>6. later \in SUBSET Nat /\ \A r \in later : r <= Len(log)
  BY <1>1
<1>7. NewestCkpt # 0 => log'[NewestCkpt] = log[NewestCkpt]
  BY <1>2, <1>4
<1>8. /\ RebuiltIndex(b) = IF later # {} THEN Max(later)
                           ELSE IF NewestCkpt # 0 THEN log[NewestCkpt].tree[b] ELSE 0
      /\ RebuiltIndex(b)' = IF later1 # {} THEN Max(later1)
                            ELSE IF NewestCkpt' # 0 THEN log'[NewestCkpt'].tree[b] ELSE 0
  BY DEF RebuiltIndex
<1>9. CASE b \in rec.span
  <2>1. /\ later1 \in SUBSET Nat /\ Len(log) + 1 \in later1
        /\ \A r \in later1 : r <= Len(log) + 1
    BY <1>1, <1>5, <1>6, <1>9
  <2>2. Max(later1) = Len(log) + 1
    <3> HIDE DEF later1
    <3> QED BY <2>1, MaxIsUnique
  <2> QED
    BY <1>8, <1>9, <2>1, <2>2
<1>10. CASE b \notin rec.span
  <2> HIDE DEF later, later1
  <2> QED BY <1>4, <1>5, <1>7, <1>8, <1>10
<1> QED
  BY <1>9, <1>10

\* After a checkpoint its tree is what is rebuilt.
LEMMA RebuiltAppendCkpt ==
  ASSUME log \in Seq(Records), NEW rec \in Records, rec.kind = "ckpt",
         log' = Append(log, rec), NEW b \in Bytes
  PROVE  RebuiltIndex(b)' = rec.tree[b]
<1> DEFINE K1 == {0} \cup {r \in DOMAIN log' : log'[r].kind = "ckpt"}
<1>1. Len(log) \in Nat /\ DOMAIN log' = 1 .. Len(log) + 1 /\ log'[Len(log) + 1] = rec
  OBVIOUS
<1>2. K1 \in SUBSET Nat /\ Len(log) + 1 \in K1 /\ \A r \in K1 : r <= Len(log) + 1
  BY <1>1
<1>3. NewestCkpt' = Len(log) + 1
  <2>1. Max(K1) = Len(log) + 1
    <3> HIDE DEF K1
    <3> QED BY <1>2, MaxIsUnique
  <2> QED
    BY <2>1 DEF NewestCkpt
<1>4. {r \in DOMAIN log' : r > NewestCkpt' /\ b \in log'[r].span} = {}
  BY <1>1, <1>3
<1> QED
  BY <1>1, <1>3, <1>4 DEF RebuiltIndex

LEMMA ReopenInit == Init => ReopenInv
<1> SUFFICES ASSUME Init, NEW b \in Bytes
             PROVE  RebuiltIndex(b) = LastRecord(b) /\ \A e \in Evictors : pc[e] # "ckpt"
  BY DEF ReopenInv
<1>1. \A e \in Evictors : pc[e] # "ckpt"
  BY ThreadFacts DEF Init
<1>2. figtree[b] = LastRecord(b)
  <2>1. IndexInv /\ ~skipped /\ ~Appending(b)
    BY IndexInit, ThreadFacts DEF Init, Appending
  <2> QED
    BY <2>1 DEF IndexInv
<1>3. RebuiltIndex(b) = figtree[b]
  <2>1. CASE new_file
    <3>1. {r \in DOMAIN log : log[r].kind = "ckpt"} = {}
      BY <2>1 DEF Init, DataRec
    <3>2. {0} \cup {} = {0} /\ Max({0}) = 0
      BY MaxIsUnique
    <3>3. NewestCkpt = 0
      BY <3>1, <3>2 DEF NewestCkpt
    <3>4. {r \in DOMAIN log : r > NewestCkpt /\ b \in log[r].span} = {}
      BY <2>1 DEF Init, DataRec
    <3> QED
      BY <2>1, <3>3, <3>4 DEF RebuiltIndex, Init, NoIndex
  <2>2. CASE ~new_file
    <3>1. {0} \cup {r \in DOMAIN log : log[r].kind = "ckpt"} = {0, 3}
      BY <2>2 DEF Init, DataRec, CkptRec
    <3>2. Max({0, 3}) = 3
      BY MaxIsUnique
    <3>3. NewestCkpt = 3
      BY <3>1, <3>2 DEF NewestCkpt
    <3>4. {r \in DOMAIN log : r > 3 /\ b \in log[r].span} = {}
      BY <2>2 DEF Init, DataRec, CkptRec
    <3> QED
      BY <2>2, <3>3, <3>4 DEF RebuiltIndex, Init, CkptRec
  <2> QED
    BY <2>1, <2>2
<1> QED
  BY <1>1, <1>2, <1>3

LEMMA ReopenUnmoved ==
  ASSUME ReopenInv, UNCHANGED <<log, skipped>>,
         \A e \in Evictors : pc'[e] = "ckpt" => pc[e] = "ckpt" /\ loc'[e].buf = loc[e].buf
  PROVE  ReopenInv'
<1>1. \A b \in Bytes : LastRecord(b)' = LastRecord(b) /\ RebuiltIndex(b)' = RebuiltIndex(b)
  BY DEF LastRecord, RebuiltIndex, NewestCkpt
<1> QED
  BY <1>1 DEF ReopenInv

LEMMA ReopenStep ==
  ASSUME TypeInv, LockInv, IndexInv, ReopenInv, [Next]_vars
  PROVE  ReopenInv'
<1>a. pc \in [Threads -> Labels] /\ loc \in [Threads -> Locals] /\ log \in Seq(Records)
  BY DEF TypeInv, TypeOK
<1>b. /\ \A t \in Writers : t \in Threads /\ t \notin Readers /\ t \notin Evictors
                            /\ t # NoThread
      /\ \A t \in Readers : t \in Threads /\ t \notin Evictors
      /\ \A t \in Evictors : t \in Threads /\ t \notin Writers /\ t \notin Readers
                             /\ t # Callback /\ t # NoThread
      /\ Callback \in Threads
  BY ThreadFacts, FileIOAssumption
<1>1. ASSUME NEW w \in Writers,
             \/ \E span \in Spans : StartWrite(w, span)
             \/ StoreSize(w) \/ RefFile(w) \/ CountRequest(w) \/ WriteCache(w) \/ LockIndex(w)
             \/ IndexWrite(w)
      PROVE  ReopenInv'
  <2>1. UNCHANGED <<log, skipped>>
    BY <1>1 DEF StartWrite, StoreSize, RefFile, CountRequest, WriteCache, LockIndex,
                IndexWrite, history
  <2>2. \A e \in Evictors : pc'[e] = pc[e]
    BY <1>1, <1>a, <1>b DEF StartWrite, StoreSize, RefFile, CountRequest, WriteCache,
                            LockIndex, IndexWrite, Goto
  <2>3. \A e \in Evictors : loc'[e] = loc[e]
    BY <1>1, <1>a, <1>b DEF StartWrite, StoreSize, RefFile, CountRequest, WriteCache,
                            LockIndex, IndexWrite
  <2> QED
    BY <2>1, <2>2, <2>3, ReopenUnmoved
<1>2. ASSUME NEW w \in Writers, AppendRecord(w)
      PROVE  ReopenInv'
  <2> DEFINE rec == DataRec(loc[w].span, loc[w].id, loc[w].size)
  <2>1. \A e \in Evictors : pc'[e] # "ckpt"
    <3>1. index_flush_lock = NoThread
      BY <1>2, CountedExcludesFlush DEF AppendRecord, Counted
    <3>2. \A e \in Evictors : pc[e] # "ckpt"
      BY <3>1, <1>b DEF LockInv, FlushLocked
    <3> QED
      BY <1>2, <1>a, <1>b, <3>2 DEF AppendRecord, Goto
  <2>2. log' = Append(log, rec) /\ UNCHANGED skipped
    BY <1>2 DEF AppendRecord, history
  <2>3. rec \in Records /\ rec.kind # "ckpt"
    <3>1. loc[w] \in Locals
      BY <1>a, <1>b
    <3> QED
      BY <3>1, DataRecType DEF Locals, DataRec
  <2> HIDE DEF rec
  <2>4. \A b \in Bytes :
          /\ RebuiltIndex(b)' = IF b \in rec.span THEN Len(log) + 1 ELSE RebuiltIndex(b)
          /\ LastRecord(b)' = IF b \in rec.span THEN Len(log) + 1 ELSE LastRecord(b)
    BY <1>a, <2>2, <2>3, RebuiltAppendData, LastRecordAppend
  <2> QED
    BY <2>1, <2>2, <2>4 DEF ReopenInv
<1>3. ASSUME NEW r \in Readers, ReaderStep(r) \/ \E span \in Spans : StartRead(r, span)
      PROVE  ReopenInv'
  <2>1. \/ Goto(r, "idle") \/ Goto(r, "miss") \/ Goto(r, "refill")
        \/ Goto(r, IF use_cache THEN "check" ELSE "miss")
    BY <1>3 DEF ReaderStep, ReadHit, ReadMiss, ReadLog, FillFromRead, StartRead
  <2>2. UNCHANGED <<log, skipped>>
    BY <1>3 DEF ReaderStep, ReadHit, ReadMiss, ReadLog, FillFromRead, StartRead, history
  <2>3. \A t \in Evictors : loc'[t] = loc[t]
    BY <1>3, <1>a, <1>b DEF ReaderStep, ReadHit, ReadMiss, ReadLog, FillFromRead, StartRead
  <2>4. \A t \in Evictors : pc'[t] = pc[t]
    BY <1>a, <1>b, <2>1 DEF Goto
  <2> QED
    BY <2>2, <2>3, <2>4, ReopenUnmoved
<1>4. ASSUME NEW e \in Evictors,
             SpuriousWakeup(e) \/ WaitOutstanding(e) \/ StartEvict(e) \/ BeginCheckpoint(e)
      PROVE  ReopenInv'
  <2>1. UNCHANGED <<log, skipped>>
    BY <1>4 DEF SpuriousWakeup, WaitOutstanding, StartEvict, BeginCheckpoint, history
  <2>2. \A d \in Evictors : d # e => loc'[d] = loc[d] /\ pc'[d] = pc[d]
    BY <1>4, <1>a, <1>b DEF SpuriousWakeup, WaitOutstanding, StartEvict, BeginCheckpoint, Goto
  <2>3. pc'[e] = "ckpt" => pc[e] = "ckpt" /\ loc'[e] = loc[e]
    BY <1>4, <1>a, <1>b DEF SpuriousWakeup, WaitOutstanding, StartEvict, BeginCheckpoint, Goto
  <2> QED
    BY <2>1, <2>2, <2>3, ReopenUnmoved
<1>5. ASSUME NEW e \in Evictors, CollectDirty(e)
      PROVE  ReopenInv'
  <2>1. \A v \in Writers : pc[v] # "append"
    BY <1>5, <1>b DEF CollectDirty, LockInv, IndexLocked
  <2>2. \A d \in Evictors : pc'[d] = "ckpt" => d = e
    BY <1>5, <1>a, <1>b DEF CollectDirty, LockInv, FlushLocked, Goto
  <2>3. loc'[e].buf = figtree /\ UNCHANGED <<log, skipped>>
    BY <1>5, <1>a, <1>b DEF CollectDirty, Locals, history
  <2>4. ~skipped => \A b \in Bytes : figtree[b] = LastRecord(b)
    BY <2>1 DEF IndexInv, Appending
  <2>5. \A b \in Bytes : LastRecord(b)' = LastRecord(b) /\ RebuiltIndex(b)' = RebuiltIndex(b)
    BY <2>3 DEF LastRecord, RebuiltIndex, NewestCkpt
  <2> QED
    BY <2>2, <2>3, <2>4, <2>5 DEF ReopenInv
<1>6. ASSUME NEW e \in Evictors, CollectNothing(e)
      PROVE  ReopenInv'
  BY <1>6 DEF CollectNothing, ReopenInv
<1>7. ASSUME NEW e \in Evictors, AppendCheckpoint(e)
      PROVE  ReopenInv'
  <2> DEFINE rec == CkptRec(loc[e].buf, loc[e].size)
  <2>1. \A d \in Evictors : pc'[d] # "ckpt"
    BY <1>7, <1>a, <1>b DEF AppendCheckpoint, LockInv, FlushLocked, Goto
  <2>2. log' = Append(log, rec) /\ UNCHANGED skipped
    BY <1>7 DEF AppendCheckpoint, history
  <2>3. rec \in Records /\ rec.span = {} /\ rec.kind = "ckpt" /\ rec.tree = loc[e].buf
    <3>1. loc[e].buf \in [Bytes -> Nat]
      BY <1>7 DEF AppendCheckpoint, TypeInv, CollectedIsIndex
    <3>2. loc[e].size \in Nat
      BY <1>a, <1>b DEF Locals
    <3> QED
      BY <3>1, <3>2, CkptRecType DEF CkptRec
  <2> HIDE DEF rec
  <2>4. \A b \in Bytes : RebuiltIndex(b)' = loc[e].buf[b] /\ LastRecord(b)' = LastRecord(b)
    BY <1>a, <2>2, <2>3, RebuiltAppendCkpt, LastRecordAppend
  <2>5. ~skipped => \A b \in Bytes : loc[e].buf[b] = LastRecord(b)
    BY <1>7 DEF AppendCheckpoint, ReopenInv
  <2> QED
    BY <2>1, <2>2, <2>4, <2>5 DEF ReopenInv
<1>8. CASE CallbackStep
  <2>1. UNCHANGED <<log, skipped, loc>>
    BY <1>8 DEF CallbackStep, AckWrite, UnrefFile, AckCheckpoint, history
  <2>2. \A t \in Evictors : pc'[t] = pc[t]
    BY <1>8, <1>a, <1>b DEF CallbackStep, AckWrite, UnrefFile, AckCheckpoint, Goto
  <2> QED
    BY <2>1, <2>2, ReopenUnmoved
<1>9. CASE UNCHANGED vars
  BY <1>9, ReopenUnmoved DEF vars, history
<1> QED
  BY <1>1, <1>2, <1>3, <1>4, <1>5, <1>6, <1>7, <1>8, <1>9
     DEF Next, WriterStep, EvictorStep, Done

LEMMA ReopenInvariant == Spec => []ReopenInv
BY ReopenInit, ReopenStep, IndexInvariant, LockInvariant, TypeInvariant, PTL DEF Spec

\* The size, while the kernel runs one write of the file at a time: it is in the
\* last record and in the checkpoint being taken, unless a write has stored a new
\* one and not yet appended its record, which has the new size.
SizeInv ==
    /\ \A v, w \in Writers : pc[v] # "idle" /\ pc[w] # "idle" => v = w
    /\ \A w \in Writers : pc[w] \in Counted \cup {"count"} => loc[w].size = file_size
    /\ (\A w \in Writers : pc[w] \notin Counted \cup {"count", "ref"}) =>
         /\ log[Len(log)].size = file_size
         /\ \A e \in Evictors : pc[e] \in {"collect", "ckpt"} => loc[e].size = file_size

LEMMA SizeInit == Init => SizeInv
<1> SUFFICES ASSUME Init PROVE SizeInv
  OBVIOUS
<1>1. \A t \in Threads : pc[t] = "idle"
  BY DEF Init
<1>2. log[Len(log)].size = file_size
  BY DEF Init, DataRec, CkptRec
<1> QED
  BY <1>1, <1>2, ThreadFacts DEF SizeInv, Counted

\* Steps of which the size takes no notice.
LEMMA SizeUnmoved ==
  ASSUME SizeInv, UNCHANGED <<log, file_size>>,
         \A w \in Writers : pc'[w] = pc[w] /\ loc'[w] = loc[w],
         \A e \in Evictors : pc'[e] \in {"collect", "ckpt"} =>
                               \/ pc[e] \in {"collect", "ckpt"} /\ loc'[e].size = loc[e].size
                               \/ loc'[e].size = file_size
  PROVE  SizeInv'
BY DEF SizeInv

LEMMA SizeStep ==
  ASSUME InodeLock, TypeInv, LockInv, SizeInv, [Next]_vars
  PROVE  SizeInv'
<1>a. pc \in [Threads -> Labels] /\ loc \in [Threads -> Locals] /\ log \in Seq(Records)
  BY DEF TypeInv, TypeOK
<1>b. /\ \A t \in Writers : t \in Threads /\ t \notin Readers /\ t \notin Evictors
                            /\ t # Callback /\ t # NoThread
      /\ \A t \in Readers : t \in Threads /\ t \notin Evictors /\ t \notin Writers
      /\ \A t \in Evictors : t \in Threads /\ t \notin Writers /\ t \notin Readers
                             /\ t # Callback /\ t # NoThread
      /\ Callback \in Threads
  BY ThreadFacts, FileIOAssumption
<1>1. ASSUME NEW w \in Writers, NEW span \in Spans, StartWrite(w, span)
      PROVE  SizeInv'
  <2>1. \A v \in Writers : pc[v] = "idle"
    BY <1>1 DEF StartWrite, Idle
  <2>2. /\ pc'[w] = "size" /\ UNCHANGED <<log, file_size>>
        /\ \A t \in Threads : t # w => pc'[t] = pc[t]
        /\ \A t \in Evictors : loc'[t] = loc[t]
    BY <1>1, <1>a, <1>b DEF StartWrite, Goto
  <2> QED
    BY <1>b, <2>1, <2>2 DEF SizeInv, Counted
<1>2. ASSUME NEW w \in Writers, StoreSize(w)
      PROVE  SizeInv'
  <2>1. /\ pc[w] = "size" /\ pc'[w] = "ref"
        /\ \A t \in Threads : t # w => pc'[t] = pc[t]
    BY <1>2, <1>a, <1>b DEF StoreSize, Goto
  <2>2. \A v \in Writers : v # w => pc[v] = "idle"
    BY <2>1 DEF SizeInv
  <2> QED
    BY <1>b, <2>1, <2>2 DEF SizeInv, Counted
<1>3. ASSUME NEW w \in Writers, RefFile(w)
      PROVE  SizeInv'
  <2>1. /\ pc[w] = "ref" /\ pc'[w] = "count" /\ loc'[w].size = file_size
        /\ \A t \in Threads : t # w => pc'[t] = pc[t]
        /\ UNCHANGED <<log, file_size>>
    BY <1>3, <1>a, <1>b DEF RefFile, Goto, Locals
  <2>2. \A v \in Writers : v # w => pc[v] = "idle"
    BY <2>1 DEF SizeInv
  <2> QED
    BY <1>b, <2>1, <2>2 DEF SizeInv, Counted
<1>4. ASSUME NEW w \in Writers,
             CountRequest(w) \/ WriteCache(w) \/ LockIndex(w) \/ IndexWrite(w)
      PROVE  SizeInv'
  <2>1. /\ pc[w] \in Counted \cup {"count"} /\ pc'[w] \in Counted
        /\ \A t \in Threads : t # w => pc'[t] = pc[t]
    BY <1>4, <1>a, <1>b DEF CountRequest, WriteCache, LockIndex, IndexWrite, Goto, Counted
  <2>2. UNCHANGED <<log, file_size, loc>>
    BY <1>4 DEF CountRequest, WriteCache, LockIndex, IndexWrite
  <2>3. pc[w] # "idle"
    BY <2>1 DEF Counted
  <2>4. \A v \in Writers : v # w => pc[v] = "idle"
    BY <2>3 DEF SizeInv
  <2> QED
    BY <1>b, <2>1, <2>2, <2>4 DEF SizeInv, Counted
<1>5. ASSUME NEW w \in Writers, AppendRecord(w)
      PROVE  SizeInv'
  <2> DEFINE rec == DataRec(loc[w].span, loc[w].id, loc[w].size)
  <2>1. /\ pc[w] = "append" /\ pc'[w] = "idle"
        /\ \A t \in Threads : t # w => pc'[t] = pc[t]
        /\ log' = Append(log, rec) /\ UNCHANGED file_size
    BY <1>5, <1>a, <1>b DEF AppendRecord, Goto
  <2>2. \A v \in Writers : v # w => pc[v] = "idle"
    BY <2>1 DEF SizeInv
  <2>3. index_flush_lock = NoThread
    BY <2>1, CountedExcludesFlush DEF Counted
  <2>4. \A e \in Evictors : pc'[e] \notin {"collect", "ckpt"}
    BY <1>b, <2>1, <2>3 DEF LockInv, FlushLocked
  <2>5. rec.size = file_size
    BY <2>1 DEF SizeInv, Counted, DataRec
  <2>6. rec \in Records
    <3>1. loc[w] \in Locals
      BY <1>a, <1>b
    <3> QED
      BY <3>1, DataRecType DEF Locals
  <2> HIDE DEF rec
  <2>7. log'[Len(log')] = rec
    BY <1>a, <2>1, <2>6
  <2> QED
    BY <1>b, <2>1, <2>2, <2>4, <2>5, <2>7 DEF SizeInv, Counted
<1>6. ASSUME NEW r \in Readers, ReaderStep(r) \/ \E span \in Spans : StartRead(r, span)
      PROVE  SizeInv'
  <2>1. \/ Goto(r, "idle") \/ Goto(r, "miss") \/ Goto(r, "refill")
        \/ Goto(r, IF use_cache THEN "check" ELSE "miss")
    BY <1>6 DEF ReaderStep, ReadHit, ReadMiss, ReadLog, FillFromRead, StartRead
  <2>2. UNCHANGED <<log, file_size>>
    BY <1>6 DEF ReaderStep, ReadHit, ReadMiss, ReadLog, FillFromRead, StartRead
  <2>3. \A t \in Evictors \cup Writers : loc'[t] = loc[t]
    BY <1>6, <1>a, <1>b DEF ReaderStep, ReadHit, ReadMiss, ReadLog, FillFromRead, StartRead
  <2>4. \A t \in Evictors \cup Writers : pc'[t] = pc[t]
    BY <1>a, <1>b, <2>1 DEF Goto
  <2> QED
    BY <2>2, <2>3, <2>4, SizeUnmoved
<1>7. ASSUME NEW e \in Evictors,
             \/ SpuriousWakeup(e) \/ WaitOutstanding(e) \/ StartEvict(e)
             \/ BeginCheckpoint(e) \/ CollectDirty(e) \/ CollectNothing(e)
      PROVE  SizeInv'
  <2>1. UNCHANGED <<log, file_size>>
    BY <1>7 DEF SpuriousWakeup, WaitOutstanding, StartEvict, BeginCheckpoint,
                CollectDirty, CollectNothing
  <2>2. \A d \in Threads : d # e => loc'[d] = loc[d] /\ pc'[d] = pc[d]
    BY <1>7, <1>a, <1>b DEF SpuriousWakeup, WaitOutstanding, StartEvict, BeginCheckpoint,
                            CollectDirty, CollectNothing, Goto
  <2>3. pc'[e] \in {"collect", "ckpt"} =>
          \/ pc[e] \in {"collect", "ckpt"} /\ loc'[e].size = loc[e].size
          \/ loc'[e].size = file_size
    BY <1>7, <1>a, <1>b DEF SpuriousWakeup, WaitOutstanding, StartEvict, BeginCheckpoint,
                            CollectDirty, CollectNothing, Goto, Locals
  <2> QED
    BY <1>b, <2>1, <2>2, <2>3, SizeUnmoved
<1>8. ASSUME NEW e \in Evictors, AppendCheckpoint(e)
      PROVE  SizeInv'
  <2> DEFINE rec == CkptRec(loc[e].buf, loc[e].size)
  <2>1. /\ pc[e] = "ckpt" /\ pc'[e] = "idle"
        /\ \A t \in Threads : t # e => pc'[t] = pc[t] /\ loc'[t] = loc[t]
        /\ log' = Append(log, rec) /\ UNCHANGED file_size
    BY <1>8, <1>a, <1>b DEF AppendCheckpoint, Goto
  <2>2. rec.size = loc[e].size /\ rec \in Records
    <3>1. loc[e].buf \in [Bytes -> Nat]
      BY <1>8 DEF AppendCheckpoint, TypeInv, CollectedIsIndex
    <3>2. loc[e].size \in Nat
      BY <1>a, <1>b DEF Locals
    <3> QED
      BY <3>1, <3>2, CkptRecType DEF CkptRec
  <2> HIDE DEF rec
  <2>3. log'[Len(log')] = rec
    BY <1>a, <2>1, <2>2
  <2> QED
    BY <1>b, <2>1, <2>2, <2>3 DEF SizeInv
<1>9. CASE CallbackStep
  <2>1. UNCHANGED <<log, file_size, loc>>
    BY <1>9 DEF CallbackStep, AckWrite, UnrefFile, AckCheckpoint
  <2>2. \A t \in Evictors \cup Writers : pc'[t] = pc[t]
    BY <1>9, <1>a, <1>b DEF CallbackStep, AckWrite, UnrefFile, AckCheckpoint, Goto
  <2> QED
    BY <2>1, <2>2, SizeUnmoved
<1>10. CASE UNCHANGED vars
  BY <1>10, SizeUnmoved DEF vars
<1> QED
  BY <1>1, <1>2, <1>3, <1>4, <1>5, <1>6, <1>7, <1>8, <1>9, <1>10
     DEF Next, WriterStep, EvictorStep, Done

\* While no call runs, reopening the file from its log gives the size it has in
\* memory and, until a checkpoint found nothing to append, the index: for any
\* number of readers, writers and evictions, where the kernel runs one write of
\* the file at a time.
THEOREM ReopenLosesNothing ==
  ASSUME InodeLock
  PROVE  Spec => []ReopenRestoresFile
<1>1. Spec => []SizeInv
  BY SizeInit, SizeStep, LockInvariant, TypeInvariant, PTL DEF Spec
<1>2. LockInv /\ IndexInv /\ ReopenInv /\ SizeInv => ReopenRestoresFile
  <2> SUFFICES ASSUME LockInv, IndexInv, ReopenInv, SizeInv, Idle(Threads)
               PROVE  /\ ~skipped => \A b \in Bytes : RebuiltIndex(b) = figtree[b]
                      /\ log[Len(log)].size = file_size
    BY DEF ReopenRestoresFile
  <2>1. \A w \in Writers : pc[w] = "idle"
    BY ThreadFacts DEF Idle
  <2>2. \A b \in Bytes : ~Appending(b)
    BY <2>1 DEF Appending
  <2>3. log[Len(log)].size = file_size
    BY <2>1 DEF SizeInv, Counted
  <2> QED
    BY <2>2, <2>3 DEF IndexInv, ReopenInv
<1> QED
  BY <1>1, <1>2, IndexInvariant, LockInvariant, ReopenInvariant, PTL
=============================================================================
