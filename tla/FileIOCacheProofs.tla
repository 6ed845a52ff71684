-------------------------- MODULE FileIOCacheProofs --------------------------
(***************************************************************************)
(* Proofs about the cache and the reads of FileIO: until the cache is      *)
(* misfilled, or a checkpoint found nothing to append, the cache holds     *)
(* what the log does and every read is regular.  They hold for every       *)
(* number of writers, readers and evictions, with the kernel's lock or     *)
(* without it.                                                             *)
(***************************************************************************)
EXTENDS FileIOProofs

LEMMA Roles ==
  /\ \A t \in Writers : t \in Threads /\ t \notin Readers /\ t \notin Evictors
                        /\ t # Callback /\ t # NoThread
  /\ \A t \in Readers : t \in Threads /\ t \notin Evictors /\ t \notin Writers
                        /\ t # Callback /\ t # NoThread
  /\ \A t \in Evictors : t \in Threads /\ t \notin Writers /\ t \notin Readers
                         /\ t # Callback /\ t # NoThread
  /\ Callback \in Threads
BY ThreadFacts, FileIOAssumption

LEMMA TypeFacts ==
  ASSUME TypeInv
  PROVE  TypeOK /\ log \in Seq(Records) /\ writes \in Nat /\ pc \in [Threads -> Labels]
         /\ loc \in [Threads -> Locals]
BY DEF TypeInv, TypeOK

\* What the steps of a call leave alone.  Between its start and its append, a
\* writer keeps its bytes and its number.
MiddleStep(w) ==
    \/ StoreSize(w) \/ RefFile(w) \/ CountRequest(w) \/ WriteCache(w)
    \/ LockIndex(w) \/ IndexWrite(w)

LEMMA MiddleOfWrite ==
  ASSUME TypeOK, NEW w \in Writers, MiddleStep(w)
  PROVE  /\ pc[w] # "idle" /\ pc'[w] # "idle"
         /\ loc'[w].span = loc[w].span /\ loc'[w].id = loc[w].id
         /\ \A t \in Threads : t # w => pc'[t] = pc[t] /\ loc'[t] = loc[t]
         /\ UNCHANGED <<log, calls, flags, skipped>>
<1>a. pc \in [Threads -> Labels] /\ loc \in [Threads -> Locals] /\ w \in Threads
  BY Roles DEF TypeOK
<1>1. /\ pc[w] # "idle" /\ pc'[w] # "idle"
      /\ \A t \in Threads : t # w => pc'[t] = pc[t]
  BY <1>a DEF MiddleStep, StoreSize, RefFile, CountRequest, WriteCache, LockIndex,
              IndexWrite, Goto
<1>2. /\ loc'[w].span = loc[w].span /\ loc'[w].id = loc[w].id
      /\ \A t \in Threads : t # w => loc'[t] = loc[t]
  BY <1>a DEF MiddleStep, StoreSize, RefFile, CountRequest, WriteCache, LockIndex,
              IndexWrite, Locals
<1>3. UNCHANGED <<log, calls, flags, skipped>>
  BY DEF MiddleStep, StoreSize, RefFile, CountRequest, WriteCache, LockIndex,
         IndexWrite, history
<1> QED
  BY <1>1, <1>2, <1>3

LEMMA StartOfWrite ==
  ASSUME TypeOK, NEW w \in Writers, NEW span \in Spans, StartWrite(w, span)
  PROVE  /\ pc[w] = "idle" /\ pc'[w] = "size" /\ writes' = writes + 1
         /\ loc'[w].span = span /\ loc'[w].id = writes + 2
         /\ \A t \in Threads : t # w => pc'[t] = pc[t]
         /\ \A t \in Threads \ Readers : t # w => loc'[t] = loc[t]
         /\ \A t \in Readers : pc[t] = "idle" => loc'[t] = loc[t]
         /\ \A t \in Readers : loc'[t].span = loc[t].span /\ loc'[t].buf = loc[t].buf
         /\ \A t \in Readers : pc[t] # "idle" => \A b \in Bytes :
              /\ b \in span => loc'[t].ok[b] = loc[t].ok[b] \cup {writes + 2}
              /\ b \notin span => loc'[t].ok[b] = loc[t].ok[b]
         /\ UNCHANGED <<log, index, cache, locks, flags, history>>
<1>a. pc \in [Threads -> Labels] /\ loc \in [Threads -> Locals] /\ w \in Threads
  BY Roles DEF TypeOK
<1>1. /\ pc[w] = "idle" /\ pc'[w] = "size" /\ writes' = writes + 1
      /\ \A t \in Threads : t # w => pc'[t] = pc[t]
      /\ UNCHANGED <<log, index, cache, locks, flags, history>>
  BY <1>a DEF StartWrite, Goto
<1>2. loc'[w].span = span /\ loc'[w].id = writes + 2
  BY <1>a DEF StartWrite, NoLocals
<1>3. \A t \in Threads \ Readers : t # w => loc'[t] = loc[t]
  BY <1>a DEF StartWrite
<1>4. \A t \in Readers : t # w /\ t \in Threads
  BY Roles
<1>5. \A t \in Readers :
        loc'[t] = IF pc[t] # "idle"
                  THEN [loc[t] EXCEPT !.ok = [b \in Bytes |->
                          IF b \in span THEN @[b] \cup {writes + 2} ELSE @[b]]]
                  ELSE loc[t]
  BY <1>4 DEF StartWrite
<1>6. \A t \in Readers : loc[t] \in Locals
  BY <1>a, <1>4
<1>7. ASSUME NEW t \in Readers
      PROVE  /\ pc[t] = "idle" => loc'[t] = loc[t]
             /\ loc'[t].span = loc[t].span /\ loc'[t].buf = loc[t].buf
             /\ pc[t] # "idle" => \A b \in Bytes :
                  /\ b \in span => loc'[t].ok[b] = loc[t].ok[b] \cup {writes + 2}
                  /\ b \notin span => loc'[t].ok[b] = loc[t].ok[b]
  <2> DEFINE f == [b \in Bytes |-> IF b \in span THEN loc[t].ok[b] \cup {writes + 2}
                                 ELSE loc[t].ok[b]]
  <2>1. loc[t] \in Locals
    BY <1>6
  <2>2. pc[t] = "idle" => loc'[t] = loc[t]
    BY <1>5
  <2>3. pc[t] # "idle" => loc'[t] = [loc[t] EXCEPT !.ok = f]
    BY <1>5
  <2>4. \A b \in Bytes : f[b] = IF b \in span THEN loc[t].ok[b] \cup {writes + 2}
                              ELSE loc[t].ok[b]
    OBVIOUS
  <2> HIDE DEF f
  <2>5. pc[t] # "idle" => /\ loc'[t].span = loc[t].span /\ loc'[t].buf = loc[t].buf
                          /\ loc'[t].ok = f
    BY <2>1, <2>3 DEF Locals
  <2> QED
    BY <2>2, <2>4, <2>5
<1> QED
  BY <1>1, <1>2, <1>3, <1>7

LEMMA EndOfWrite ==
  ASSUME TypeOK, NEW w \in Writers, AppendRecord(w)
  PROVE  /\ pc[w] = "append" /\ pc'[w] = "idle"
         /\ \A t \in Threads : t # w => pc'[t] = pc[t] /\ loc'[t] = loc[t]
         /\ \E rec \in Records : /\ rec.span = loc[w].span /\ rec.id = loc[w].id
                                 /\ log' = Append(log, rec)
         /\ UNCHANGED <<index, cache, cache_lock, calls, flags, history>>
<1>a. pc \in [Threads -> Labels] /\ loc \in [Threads -> Locals] /\ w \in Threads
  BY Roles DEF TypeOK
<1>1. /\ pc[w] = "append" /\ pc'[w] = "idle"
      /\ \A t \in Threads : t # w => pc'[t] = pc[t] /\ loc'[t] = loc[t]
      /\ UNCHANGED <<index, cache, cache_lock, calls, flags, history>>
  BY <1>a DEF AppendRecord, Goto
<1>2. loc[w] \in Locals
  BY <1>a
<1>3. DataRec(loc[w].span, loc[w].id, loc[w].size) \in Records
  BY <1>2, DataRecType DEF Locals
<1>4. \E rec \in Records : /\ rec.span = loc[w].span /\ rec.id = loc[w].id
                           /\ log' = Append(log, rec)
  BY <1>3 DEF AppendRecord, DataRec
<1> QED
  BY <1>1, <1>4

\* Evictions and callbacks leave the calls of the others alone; the record a
\* checkpoint appends holds no byte of data.
EvictOrCallback ==
    \/ \E e \in Evictors : EvictorStep(e) \/ StartEvict(e) \/ SpuriousWakeup(e)
    \/ CallbackStep

LEMMA OtherThreadsStep ==
  ASSUME TypeInv, EvictOrCallback
  PROVE  /\ \A t \in Writers \cup Readers : pc'[t] = pc[t] /\ loc'[t] = loc[t]
         /\ UNCHANGED <<cache, cache_lock, figtree_lock, writes, reads, flags, misfilled, figtree>>
         /\ skipped => skipped'
         /\ \/ log' = log
            \/ \E rec \in Records : rec.span = {} /\ rec.id = 0 /\ log' = Append(log, rec)
<1>a. pc \in [Threads -> Labels] /\ loc \in [Threads -> Locals]
  BY DEF TypeInv, TypeOK
<1>1. ASSUME NEW e \in Evictors, EvictorStep(e) \/ StartEvict(e) \/ SpuriousWakeup(e)
      PROVE  /\ \A t \in Threads : t # e => pc'[t] = pc[t] /\ loc'[t] = loc[t]
             /\ UNCHANGED <<cache, cache_lock, figtree_lock, writes, reads, flags, misfilled, figtree>>
             /\ skipped => skipped'
             /\ log' = log \/ AppendCheckpoint(e)
  <2>1. e \in Threads
    BY Roles
  <2>2. \A t \in Threads : t # e => pc'[t] = pc[t] /\ loc'[t] = loc[t]
    BY <1>1, <1>a, <2>1
       DEF EvictorStep, StartEvict, SpuriousWakeup, WaitOutstanding, BeginCheckpoint,
           CollectDirty, CollectNothing, AppendCheckpoint, Goto
  <2>3. /\ UNCHANGED <<cache, cache_lock, figtree_lock, writes, reads, flags, misfilled, figtree>>
        /\ log' = log \/ AppendCheckpoint(e)
    BY <1>1 DEF EvictorStep, StartEvict, SpuriousWakeup, WaitOutstanding, BeginCheckpoint,
                CollectDirty, CollectNothing, AppendCheckpoint, calls, history, locks, index
  <2>4. skipped => skipped'
    BY <1>1 DEF EvictorStep, StartEvict, SpuriousWakeup, WaitOutstanding, BeginCheckpoint,
                CollectDirty, CollectNothing, AppendCheckpoint, history
  <2> QED
    BY <2>2, <2>3, <2>4
<1>2. ASSUME NEW e \in Evictors, AppendCheckpoint(e)
      PROVE  \E rec \in Records : rec.span = {} /\ rec.id = 0 /\ log' = Append(log, rec)
  <2>1. loc[e].buf \in [Bytes -> Nat]
    BY <1>2 DEF AppendCheckpoint, TypeInv, CollectedIsIndex
  <2>2. loc[e].size \in Nat
    BY <1>a, Roles DEF Locals
  <2>3. CkptRec(loc[e].buf, loc[e].size) \in Records
    BY <2>1, <2>2, CkptRecType
  <2> QED
    BY <1>2, <2>3 DEF AppendCheckpoint, CkptRec
<1>3. CASE CallbackStep
  <2>1. /\ UNCHANGED <<log, loc, cache, cache_lock, figtree_lock, writes, reads, flags, history,
                       figtree>>
        /\ \A t \in Threads : t # Callback => pc'[t] = pc[t]
    BY <1>3, <1>a, Roles DEF CallbackStep, AckWrite, UnrefFile, AckCheckpoint, Goto, calls,
                             locks, index
  <2> QED
    BY <2>1, Roles DEF history
<1> QED
  BY <1>1, <1>2, <1>3, Roles DEF EvictOrCallback
-----------------------------------------------------------------------------
\* Numbers of writes are not used twice: a write under way has a number that no
\* record and no other write has.
IdsFresh ==
    /\ \A r \in DOMAIN log : log[r].id <= writes + 1
    /\ \A w \in Writers : pc[w] # "idle" =>
         /\ loc[w].id \in 2 .. writes + 1
         /\ \A r \in DOMAIN log : log[r].id # loc[w].id
    /\ \A v, w \in Writers :
         pc[v] # "idle" /\ pc[w] # "idle" /\ v # w => loc[v].id # loc[w].id

LEMMA IdsInit == Init => IdsFresh
<1> SUFFICES ASSUME Init PROVE IdsFresh
  OBVIOUS
<1>1. \A t \in Threads : pc[t] = "idle"
  BY DEF Init
<1>2. \A r \in DOMAIN log : log[r].id <= 1
  BY DEF Init, DataRec, CkptRec
<1>3. writes = 0
  BY DEF Init
<1> QED
  BY <1>1, <1>2, <1>3, Roles DEF IdsFresh

LEMMA AppendFacts ==
  ASSUME log \in Seq(Records), NEW rec \in Records, log' = Append(log, rec)
  PROVE  /\ DOMAIN log = 1 .. Len(log) /\ Len(log) \in Nat
         /\ DOMAIN log' = 1 .. Len(log) + 1 /\ log'[Len(log) + 1] = rec
         /\ \A r \in DOMAIN log : r \in DOMAIN log' /\ log'[r] = log[r]
         /\ \A r \in DOMAIN log' : r \in DOMAIN log \/ log'[r] = rec
<1>1. DOMAIN log = 1 .. Len(log) /\ Len(log) \in Nat
  OBVIOUS
<1>2. DOMAIN log' = 1 .. Len(log) + 1 /\ log'[Len(log) + 1] = rec
  BY <1>1
<1>3. \A r \in 1 .. Len(log) : log'[r] = log[r]
  BY <1>1
<1> QED
  BY <1>1, <1>2, <1>3

\* The record of a byte's last write gives the byte its value.
LEMMA CommittedAppend ==
  ASSUME log \in Seq(Records), NEW rec \in Records, log' = Append(log, rec), NEW b \in Bytes
  PROVE  Committed(b)' = IF b \in rec.span THEN rec.id ELSE Committed(b)
<1>1. LastRecord(b)' = IF b \in rec.span THEN Len(log) + 1 ELSE LastRecord(b)
  BY LastRecordAppend
<1>2. LastRecord(b) \in 0 .. Len(log)
  BY LastRecordFacts
<1>3. LastRecord(b) # 0 => log'[LastRecord(b)] = log[LastRecord(b)]
  BY <1>2, AppendFacts
<1>4. Len(log) + 1 # 0 /\ log'[Len(log) + 1] = rec
  BY AppendFacts
<1> QED
  BY <1>1, <1>2, <1>3, <1>4 DEF Committed

\* No write under way has the number of a committed value.
LEMMA CommittedIsOld ==
  ASSUME log \in Seq(Records), writes \in Nat, IdsFresh, NEW b \in Bytes
  PROVE  /\ Committed(b) \in 0 .. writes + 1
         /\ \A w \in Writers : pc[w] # "idle" => loc[w].id # Committed(b)
<1>1. LastRecord(b) \in 0 .. Len(log)
  BY LastRecordFacts
<1>2. LastRecord(b) # 0 => LastRecord(b) \in DOMAIN log
  BY <1>1
<1>3. Committed(b) \in Nat
  BY CommittedType
<1>4. CASE LastRecord(b) = 0
  BY <1>4 DEF Committed, Zero, IdsFresh
<1>5. CASE LastRecord(b) # 0
  BY <1>2, <1>3, <1>5 DEF Committed, IdsFresh
<1> QED
  BY <1>4, <1>5

\* The steps of the specification, by whose call they belong to.
LEMMA StepCases ==
  ASSUME [Next]_vars
  PROVE  \/ \E w \in Writers : MiddleStep(w) \/ AppendRecord(w)
                               \/ \E span \in Spans : StartWrite(w, span)
         \/ \E r \in Readers : ReaderStep(r) \/ \E span \in Spans : StartRead(r, span)
         \/ EvictOrCallback
         \/ UNCHANGED vars
BY DEF Next, WriterStep, MiddleStep, EvictOrCallback, Done

LEMMA ReaderLeaves ==
  ASSUME TypeOK, NEW r \in Readers, ReaderStep(r) \/ \E span \in Spans : StartRead(r, span)
  PROVE  /\ \A t \in Threads : t # r => pc'[t] = pc[t] /\ loc'[t] = loc[t]
         /\ UNCHANGED <<log, writes, index, flags, locks, skipped>>
<1>a. pc \in [Threads -> Labels] /\ loc \in [Threads -> Locals] /\ r \in Threads
  BY Roles DEF TypeOK
<1>1. \/ Goto(r, "idle") \/ Goto(r, "miss") \/ Goto(r, "refill")
      \/ Goto(r, IF use_cache THEN "check" ELSE "miss")
  BY DEF ReaderStep, ReadHit, ReadMiss, ReadLog, FillFromRead, StartRead
<1>2. \A t \in Threads : t # r => pc'[t] = pc[t]
  BY <1>1, <1>a DEF Goto
<1>3. \A t \in Threads : t # r => loc'[t] = loc[t]
  BY <1>a DEF ReaderStep, ReadHit, ReadMiss, ReadLog, FillFromRead, StartRead
<1>4. UNCHANGED <<log, writes, index, flags, locks, skipped>>
  BY DEF ReaderStep, ReadHit, ReadMiss, ReadLog, FillFromRead, StartRead, calls, history
<1> QED
  BY <1>2, <1>3, <1>4

LEMMA IdsStep ==
  ASSUME TypeInv, IdsFresh, [Next]_vars
  PROVE  IdsFresh'
<1>a. TypeOK /\ log \in Seq(Records) /\ writes \in Nat
  BY DEF TypeInv, TypeOK
<1>1. ASSUME NEW w \in Writers, NEW span \in Spans, StartWrite(w, span)
      PROVE  IdsFresh'
  <2>1. /\ pc[w] = "idle" /\ pc'[w] = "size" /\ writes' = writes + 1
        /\ loc'[w].id = writes + 2 /\ log' = log
        /\ \A v \in Writers : v # w => pc'[v] = pc[v] /\ loc'[v] = loc[v]
    BY <1>1, <1>a, StartOfWrite, Roles
  <2>2. \A r \in DOMAIN log : log[r].id \in Nat
    <3>1. \A r \in DOMAIN log : log[r] \in Records
      BY <1>a
    <3> QED
      BY <3>1 DEF Records
  <2>3. \A r \in DOMAIN log : log[r].id <= writes + 2 /\ log[r].id # writes + 2
    BY <1>a, <2>2 DEF IdsFresh
  <2>4. \A v \in Writers : pc[v] # "idle" =>
          loc[v].id \in 2 .. writes + 2 /\ loc[v].id # writes + 2
    BY <1>a DEF IdsFresh
  <2>5. \A r \in DOMAIN log' : log'[r].id <= writes' + 1
    BY <1>a, <2>1, <2>3
  <2>6. ASSUME NEW v \in Writers, pc'[v] # "idle"
        PROVE  loc'[v].id \in 2 .. writes' + 1 /\ \A r \in DOMAIN log' : log'[r].id # loc'[v].id
    <3>1. CASE v = w
      BY <1>a, <2>1, <2>3, <3>1
    <3>2. CASE v # w
      BY <1>a, <2>1, <2>4, <2>6, <3>2 DEF IdsFresh
    <3> QED
      BY <3>1, <3>2
  <2>7. ASSUME NEW u \in Writers, NEW v \in Writers, pc'[u] # "idle", pc'[v] # "idle", u # v
        PROVE  loc'[u].id # loc'[v].id
    BY <2>1, <2>4, <2>7 DEF IdsFresh
  <2> QED
    BY <2>5, <2>6, <2>7 DEF IdsFresh
<1>2. ASSUME NEW w \in Writers, MiddleStep(w)
      PROVE  IdsFresh'
  <2>1. /\ pc[w] # "idle" /\ pc'[w] # "idle" /\ loc'[w].id = loc[w].id
        /\ \A v \in Writers : v # w => pc'[v] = pc[v] /\ loc'[v] = loc[v]
        /\ UNCHANGED <<log, writes>>
    BY <1>2, <1>a, MiddleOfWrite, Roles DEF calls
  <2> QED
    BY <2>1 DEF IdsFresh
<1>3. ASSUME NEW w \in Writers, AppendRecord(w)
      PROVE  IdsFresh'
  <2>1. /\ pc[w] = "append" /\ pc'[w] = "idle" /\ UNCHANGED writes
        /\ \A v \in Writers : v # w => pc'[v] = pc[v] /\ loc'[v] = loc[v]
    BY <1>3, <1>a, EndOfWrite, Roles DEF calls
  <2>2. PICK rec \in Records : rec.id = loc[w].id /\ log' = Append(log, rec)
    BY <1>3, <1>a, EndOfWrite
  <2>3. loc[w].id <= writes + 1
    BY <2>1, <1>a DEF IdsFresh
  <2>4. \A r \in DOMAIN log' : (r \in DOMAIN log /\ log'[r] = log[r]) \/ log'[r].id = loc[w].id
    BY <1>a, <2>2, AppendFacts
  <2> QED
    BY <2>1, <2>3, <2>4 DEF IdsFresh
<1>4. ASSUME NEW r \in Readers, ReaderStep(r) \/ \E span \in Spans : StartRead(r, span)
      PROVE  IdsFresh'
  BY <1>4, <1>a, ReaderLeaves, Roles DEF IdsFresh
<1>5. CASE EvictOrCallback
  <2>1. /\ \A v \in Writers : pc'[v] = pc[v] /\ loc'[v] = loc[v]
        /\ UNCHANGED writes
    BY <1>5, OtherThreadsStep
  <2>2. CASE log' = log
    BY <2>1, <2>2 DEF IdsFresh
  <2>3. ASSUME NEW rec \in Records, rec.id = 0, log' = Append(log, rec)
        PROVE  IdsFresh'
    <3>1. \A i \in DOMAIN log' : (i \in DOMAIN log /\ log'[i] = log[i]) \/ log'[i].id = 0
      BY <1>a, <2>3, AppendFacts
    <3> QED
      BY <1>a, <2>1, <3>1 DEF IdsFresh
  <2> QED
    BY <1>5, <2>2, <2>3, OtherThreadsStep
<1>6. CASE UNCHANGED vars
  BY <1>6 DEF vars, calls, IdsFresh
<1> QED
  BY <1>1, <1>2, <1>3, <1>4, <1>5, <1>6, StepCases
-----------------------------------------------------------------------------
\* A read under way has collected, for each byte, the committed value and the
\* numbers of the writes under way.
ReadersSee ==
    \A r \in Readers : pc[r] # "idle" => \A b \in Bytes :
        /\ loc[r].ok[b] \subseteq 0 .. writes + 1
        /\ Committed(b) \in loc[r].ok[b]
        /\ \A w \in Writers : pc[w] # "idle" /\ b \in loc[w].span => loc[w].id \in loc[r].ok[b]

LEMMA SeenStep ==
  ASSUME TypeInv, IdsFresh, ReadersSee, [Next]_vars
  PROVE  ReadersSee'
<1>a. TypeOK /\ log \in Seq(Records) /\ writes \in Nat /\ pc \in [Threads -> Labels]
      /\ loc \in [Threads -> Locals]
  BY DEF TypeInv, TypeOK
<1>1. ASSUME NEW w \in Writers, NEW span \in Spans, StartWrite(w, span)
      PROVE  ReadersSee'
  <2>1. /\ pc[w] = "idle" /\ writes' = writes + 1
        /\ loc'[w].id = writes + 2 /\ loc'[w].span = span
        /\ \A v \in Writers : v # w => pc'[v] = pc[v] /\ loc'[v] = loc[v]
        /\ \A r \in Readers : pc'[r] = pc[r]
        /\ \A r \in Readers : pc[r] # "idle" => \A b \in Bytes :
             /\ b \in span => loc'[r].ok[b] = loc[r].ok[b] \cup {writes + 2}
             /\ b \notin span => loc'[r].ok[b] = loc[r].ok[b]
    <3>1. /\ pc[w] = "idle" /\ writes' = writes + 1
          /\ loc'[w].id = writes + 2 /\ loc'[w].span = span
          /\ \A t \in Threads : t # w => pc'[t] = pc[t]
          /\ \A t \in Threads \ Readers : t # w => loc'[t] = loc[t]
      BY <1>1, <1>a, StartOfWrite
    <3>2. \A r \in Readers : pc[r] # "idle" => \A b \in Bytes :
             /\ b \in span => loc'[r].ok[b] = loc[r].ok[b] \cup {writes + 2}
             /\ b \notin span => loc'[r].ok[b] = loc[r].ok[b]
      BY <1>1, <1>a, StartOfWrite
    <3>3. \A v \in Writers : v # w => pc'[v] = pc[v] /\ loc'[v] = loc[v]
      BY <3>1, Roles
    <3>4. \A r \in Readers : pc'[r] = pc[r]
      BY <3>1, Roles
    <3> QED
      BY <3>1, <3>2, <3>3, <3>4
  <2>2. \A b \in Bytes : Committed(b)' = Committed(b)
    BY <1>1 DEF StartWrite, Committed, LastRecord
  <2> SUFFICES ASSUME NEW r \in Readers, pc[r] # "idle", NEW b \in Bytes
               PROVE  /\ loc'[r].ok[b] \subseteq 0 .. writes' + 1
                      /\ Committed(b) \in loc'[r].ok[b]
                      /\ \A v \in Writers : pc'[v] # "idle" /\ b \in loc'[v].span =>
                                              loc'[v].id \in loc'[r].ok[b]
    BY <2>1, <2>2 DEF ReadersSee
  <2>3. /\ loc[r].ok[b] \subseteq 0 .. writes + 1 /\ Committed(b) \in loc[r].ok[b]
        /\ \A v \in Writers : pc[v] # "idle" /\ b \in loc[v].span => loc[v].id \in loc[r].ok[b]
    BY DEF ReadersSee
  <2>4. loc'[r].ok[b] = IF b \in span THEN loc[r].ok[b] \cup {writes + 2} ELSE loc[r].ok[b]
    BY <2>1
  <2>5. loc'[r].ok[b] \subseteq 0 .. writes' + 1
    BY <1>a, <2>1, <2>3, <2>4
  <2>6. ASSUME NEW v \in Writers, pc'[v] # "idle", b \in loc'[v].span
        PROVE  loc'[v].id \in loc'[r].ok[b]
    BY <2>1, <2>3, <2>4, <2>6
  <2> QED
    BY <2>3, <2>4, <2>5, <2>6
<1>2. ASSUME NEW w \in Writers, MiddleStep(w)
      PROVE  ReadersSee'
  <2>1. /\ pc[w] # "idle" /\ loc'[w].id = loc[w].id /\ loc'[w].span = loc[w].span
        /\ \A v \in Writers : v # w => pc'[v] = pc[v] /\ loc'[v] = loc[v]
        /\ \A r \in Readers : pc'[r] = pc[r] /\ loc'[r] = loc[r]
        /\ UNCHANGED <<log, writes>>
    BY <1>2, <1>a, MiddleOfWrite, Roles DEF calls
  <2>2. \A b \in Bytes : Committed(b)' = Committed(b)
    BY <2>1 DEF Committed, LastRecord
  <2> QED
    BY <2>1, <2>2 DEF ReadersSee
<1>3. ASSUME NEW w \in Writers, AppendRecord(w)
      PROVE  ReadersSee'
  <2>1. /\ pc[w] = "append" /\ pc'[w] = "idle" /\ UNCHANGED writes
        /\ \A v \in Writers : v # w => pc'[v] = pc[v] /\ loc'[v] = loc[v]
        /\ \A r \in Readers : pc'[r] = pc[r] /\ loc'[r] = loc[r]
    BY <1>3, <1>a, EndOfWrite, Roles DEF calls
  <2>2. PICK rec \in Records : /\ rec.span = loc[w].span /\ rec.id = loc[w].id
                               /\ log' = Append(log, rec)
    BY <1>3, <1>a, EndOfWrite
  <2>3. \A b \in Bytes : Committed(b)' = IF b \in loc[w].span THEN loc[w].id ELSE Committed(b)
    BY <1>a, <2>2, CommittedAppend
  <2> QED
    BY <2>1, <2>3 DEF ReadersSee
<1>4. ASSUME NEW r \in Readers, ReaderStep(r)
      PROVE  ReadersSee'
  <2>1. /\ \A t \in Threads : t # r => pc'[t] = pc[t] /\ loc'[t] = loc[t]
        /\ UNCHANGED <<log, writes>>
    BY <1>4, <1>a, ReaderLeaves
  <2>2. r \in Threads /\ pc[r] # "idle" /\ loc[r] \in Locals
    BY <1>4, <1>a, Roles DEF ReaderStep, ReadHit, ReadMiss, ReadLog, FillFromRead
  <2>3. loc'[r].ok = loc[r].ok
    BY <1>4, <1>a, <2>2 DEF ReaderStep, ReadHit, ReadMiss, ReadLog, FillFromRead, Locals
  <2>4. \A b \in Bytes : Committed(b)' = Committed(b)
    BY <2>1 DEF Committed, LastRecord
  <2> QED
    BY <2>1, <2>2, <2>3, <2>4, Roles DEF ReadersSee
<1>5. ASSUME NEW r \in Readers, NEW span \in Spans, StartRead(r, span)
      PROVE  ReadersSee'
  <2>1. /\ \A t \in Threads : t # r => pc'[t] = pc[t] /\ loc'[t] = loc[t]
        /\ UNCHANGED <<log, writes>>
    BY <1>5, <1>a, ReaderLeaves
  <2>2. \A b \in Bytes : loc'[r].ok[b] = {Committed(b)} \cup InFlight(b)
    BY <1>5, <1>a, Roles DEF StartRead, NoLocals
  <2>3. \A b \in Bytes : Committed(b)' = Committed(b)
    BY <2>1 DEF Committed, LastRecord
  <2>4. \A b \in Bytes : InFlight(b) \subseteq 0 .. writes + 1
    BY <1>a DEF InFlight, IdsFresh
  <2>5. \A b \in Bytes : Committed(b) \in 0 .. writes + 1
    BY <1>a, CommittedIsOld
  <2>6. \A b \in Bytes : \A w \in Writers :
          pc[w] # "idle" /\ b \in loc[w].span => loc[w].id \in InFlight(b)
    BY DEF InFlight
  <2> QED
    BY <2>1, <2>2, <2>3, <2>4, <2>5, <2>6, Roles DEF ReadersSee
<1>6. CASE EvictOrCallback
  <2>1. /\ \A t \in Writers \cup Readers : pc'[t] = pc[t] /\ loc'[t] = loc[t]
        /\ UNCHANGED writes
    BY <1>6, OtherThreadsStep
  <2>2. \A b \in Bytes : Committed(b)' = Committed(b)
    <3>1. CASE log' = log
      BY <3>1 DEF Committed, LastRecord
    <3>2. ASSUME NEW rec \in Records, rec.span = {}, log' = Append(log, rec)
          PROVE  \A b \in Bytes : Committed(b)' = Committed(b)
      BY <1>a, <3>2, CommittedAppend
    <3> QED
      BY <1>6, <3>1, <3>2, OtherThreadsStep
  <2> QED
    BY <2>1, <2>2 DEF ReadersSee
<1>7. CASE UNCHANGED vars
  BY <1>7 DEF vars, calls, ReadersSee, Committed, LastRecord
<1> QED
  BY <1>1, <1>2, <1>3, <1>4, <1>5, <1>6, <1>7, StepCases

LEMMA SeenInit == Init => ReadersSee
BY Roles DEF Init, ReadersSee
-----------------------------------------------------------------------------
\* An exact index gives the committed value of each byte.
LEMMA IndexByteIsCommitted ==
  ASSUME log \in Seq(Records), LockInv, IndexInv, ~skipped, figtree_lock = NoThread,
         NEW b \in Bytes
  PROVE  IndexByte(b) = Committed(b)
<1>1. ~Appending(b)
  BY Roles DEF Appending, LockInv, IndexLocked
<1>2. figtree[b] = LastRecord(b)
  BY <1>1 DEF IndexInv
<1>3. /\ LastRecord(b) \in 0 .. Len(log)
      /\ LastRecord(b) # 0 => b \in log[LastRecord(b)].span
  BY LastRecordFacts
<1>4. DOMAIN log = 1 .. Len(log) /\ Len(log) \in Nat
  OBVIOUS
<1> QED
  BY <1>2, <1>3, <1>4 DEF IndexByte, RecordByte, Committed

\* What a read took from the log, it was allowed to return.
ReadFromLog ==
    ~skipped => \A r \in Readers : pc[r] = "refill" =>
        \A b \in Bytes : loc[r].buf[b] \in loc[r].ok[b]

LEMMA FromLogInit == Init => ReadFromLog
BY Roles DEF Init, ReadFromLog

LEMMA FromLogStep ==
  ASSUME TypeInv, LockInv, IndexInv, ReadersSee, ReadFromLog, [Next]_vars
  PROVE  ReadFromLog'
<1>a. TypeOK /\ log \in Seq(Records) /\ pc \in [Threads -> Labels] /\ loc \in [Threads -> Locals]
  BY DEF TypeInv, TypeOK
<1>1. ASSUME NEW w \in Writers, NEW span \in Spans, StartWrite(w, span)
      PROVE  ReadFromLog'
  <2>1. /\ skipped' = skipped
        /\ \A t \in Threads : t # w => pc'[t] = pc[t]
        /\ \A r \in Readers : loc'[r].buf = loc[r].buf
    BY <1>1, <1>a, StartOfWrite DEF history
  <2>2. \A r \in Readers : pc[r] # "idle" => \A b \in Bytes :
             /\ b \in span => loc'[r].ok[b] = loc[r].ok[b] \cup {writes + 2}
             /\ b \notin span => loc'[r].ok[b] = loc[r].ok[b]
    BY <1>1, <1>a, StartOfWrite
  <2>3. \A r \in Readers : pc[r] # "idle" => \A b \in Bytes : loc[r].ok[b] \subseteq loc'[r].ok[b]
    BY <2>2
  <2>4. \A r \in Readers : pc'[r] = pc[r]
    BY <2>1, Roles
  <2> QED
    BY <2>1, <2>3, <2>4 DEF ReadFromLog
<1>2. ASSUME NEW w \in Writers, MiddleStep(w) \/ AppendRecord(w)
      PROVE  ReadFromLog'
  <2>1. /\ skipped' = skipped
        /\ \A t \in Threads : t # w => pc'[t] = pc[t] /\ loc'[t] = loc[t]
    BY <1>2, <1>a, MiddleOfWrite, EndOfWrite DEF history
  <2> QED
    BY <2>1, Roles DEF ReadFromLog
<1>3. ASSUME NEW r \in Readers, ReaderStep(r) \/ \E span \in Spans : StartRead(r, span),
             ~skipped, NEW t \in Readers, pc'[t] = "refill", NEW b \in Bytes
      PROVE  loc'[t].buf[b] \in loc'[t].ok[b]
  <2>1. \A u \in Threads : u # r => pc'[u] = pc[u] /\ loc'[u] = loc[u]
    BY <1>3, <1>a, ReaderLeaves
  <2>2. CASE t # r
    BY <1>3, <2>1, <2>2, Roles DEF ReadFromLog
  <2>3. CASE t = r
    <3>1. ReadLog(r)
      BY <1>3, <2>3, <1>a, Roles
         DEF ReaderStep, ReadHit, ReadMiss, ReadLog, FillFromRead, StartRead, Goto
    <3>2. loc[r] \in Locals /\ r \in Threads
      BY <1>a, Roles
    <3>3. loc'[r].buf[b] = IndexByte(b) /\ loc'[r].ok[b] = loc[r].ok[b]
      BY <1>a, <3>1, <3>2 DEF ReadLog, Locals
    <3>4. IndexByte(b) = Committed(b)
      BY <1>a, <1>3, <3>1, IndexByteIsCommitted DEF ReadLog
    <3>5. Committed(b) \in loc[r].ok[b]
      BY <3>1 DEF ReadersSee, ReadLog
    <3> QED
      BY <2>3, <3>3, <3>4, <3>5
  <2> QED
    BY <2>2, <2>3
<1>4. ASSUME NEW r \in Readers, ReaderStep(r) \/ \E span \in Spans : StartRead(r, span)
      PROVE  ReadFromLog'
  BY <1>3, <1>4, <1>a, ReaderLeaves DEF ReadFromLog
<1>5. CASE EvictOrCallback
  BY <1>5, OtherThreadsStep DEF ReadFromLog
<1>6. CASE UNCHANGED vars
  BY <1>6 DEF vars, history, ReadFromLog
<1> QED
  BY <1>1, <1>2, <1>4, <1>5, <1>6, StepCases
-----------------------------------------------------------------------------
\* The cache.  A write is in the cache from its fill on; the write that waits
\* for the index filled it last, the one that holds the index before that, and
\* every other write under way has yet to fill it.
Waiting(w, b) == pc[w] = "lock" /\ b \in loc[w].span
Indexing(w, b) == pc[w] \in {"index", "append"} /\ b \in loc[w].span

\* v is the value of the latest write of b that the cache has seen.
Latest(b, v) ==
    /\ \A w \in Writers : Waiting(w, b) => v = loc[w].id
    /\ \A w \in Writers : Indexing(w, b) /\ (\A u \in Writers : ~Waiting(u, b)) => v = loc[w].id
    /\ (\A w \in Writers : ~Waiting(w, b) /\ ~Indexing(w, b)) => v = Committed(b)

\* A byte of a new file that is not in the cache was never written.
HolesUnwritten ==
    use_cache => \A b \in Bytes : cache[b] = Hole =>
        /\ \A w \in Writers : ~Waiting(w, b) /\ ~Indexing(w, b)
        /\ new_file => Committed(b) = Zero

CacheAgrees ==
    use_cache /\ ~misfilled /\ ~skipped =>
        \A b \in Bytes : cache[b] # Hole => Latest(b, cache[b])

\* With the cache off nothing is ever in it, and no read looks there.
CacheOff ==
    /\ ~use_cache => cache = EmptyCache
    /\ \A r \in Readers : pc[r] = "check" => use_cache

CacheInv == HolesUnwritten /\ CacheAgrees /\ CacheOff

LEMMA FillCacheByte ==
  ASSUME NEW c, NEW span \in SUBSET Bytes, NEW data, NEW b \in Bytes
  PROVE  /\ b \in span => FillCache(c, span, data)[b] = data[b]
         /\ b \notin span /\ c[b] # Hole => FillCache(c, span, data)[b] = c[b]
         /\ b \notin span /\ c[b] = Hole => FillCache(c, span, data)[b] \in {Zero, Hole}
BY DEF FillCache

\* A set of at most one value does not hold two.
LEMMA AtMostOne ==
  ASSUME NEW S, IsFiniteSet(S), ~(Cardinality(S) > 1), NEW x \in S, NEW y \in S
  PROVE  x = y
<1> SUFFICES ASSUME x # y PROVE FALSE
  OBVIOUS
<1>1. IsFiniteSet({x}) /\ Cardinality({x}) = 1
  BY FS_Singleton
<1>2. IsFiniteSet({x} \cup {y}) /\ Cardinality({x} \cup {y}) = 2
  <2> DEFINE T == {x}
  <2>1. IsFiniteSet(T) /\ Cardinality(T) = 1 /\ y \notin T
    BY <1>1
  <2>2. IsFiniteSet(T \cup {y}) /\ Cardinality(T \cup {y}) = Cardinality(T) + 1
    <3> HIDE DEF T
    <3> QED BY <2>1, FS_AddElement
  <2> QED
    BY <2>1, <2>2
<1>3. {x} \cup {y} \subseteq S
  OBVIOUS
<1>4. Cardinality({x} \cup {y}) <= Cardinality(S) /\ Cardinality(S) \in Nat
  BY <1>3, FS_Subset, FS_CardinalityType
<1> QED
  BY <1>2, <1>4

\* A step that leaves the cache and the log's data alone, and moves no writer
\* into or out of the cache, changes nothing here.
LEMMA CacheUnmoved ==
  ASSUME HolesUnwritten, CacheAgrees, UNCHANGED <<cache, flags>>,
         misfilled => misfilled', skipped => skipped',
         \A b \in Bytes : Committed(b)' = Committed(b),
         \A w \in Writers, b \in Bytes :
            /\ Waiting(w, b)' <=> Waiting(w, b)
            /\ Indexing(w, b)' <=> Indexing(w, b)
            /\ Waiting(w, b) \/ Indexing(w, b) => loc'[w].id = loc[w].id
  PROVE  HolesUnwritten' /\ CacheAgrees'
<1>1. HolesUnwritten'
  BY DEF HolesUnwritten, flags
<1>2. ASSUME NEW b \in Bytes, NEW v, Latest(b, v)
      PROVE  Latest(b, v)'
  BY <1>2 DEF Latest
<1>3. CacheAgrees'
  BY <1>2 DEF CacheAgrees, flags
<1> QED
  BY <1>1, <1>3

\* Evictions and callbacks, and the steps of readers other than a fill.
LEMMA CacheEvictOrCallback ==
  ASSUME TypeInv, HolesUnwritten, CacheAgrees, EvictOrCallback
  PROVE  HolesUnwritten' /\ CacheAgrees'
<1>1. /\ \A w \in Writers : pc'[w] = pc[w] /\ loc'[w] = loc[w]
      /\ UNCHANGED <<cache, flags, misfilled>>
      /\ skipped => skipped'
  BY OtherThreadsStep
<1>2. \A b \in Bytes : Committed(b)' = Committed(b)
  <2>1. CASE log' = log
    BY <2>1 DEF Committed, LastRecord
  <2>2. ASSUME NEW rec \in Records, rec.span = {}, log' = Append(log, rec)
        PROVE  \A b \in Bytes : Committed(b)' = Committed(b)
    BY <2>2, TypeFacts, CommittedAppend
  <2> QED
    BY <2>1, <2>2, OtherThreadsStep
<1>3. \A w \in Writers, b \in Bytes :
          /\ Waiting(w, b)' <=> Waiting(w, b)
          /\ Indexing(w, b)' <=> Indexing(w, b)
          /\ loc'[w].id = loc[w].id
  BY <1>1 DEF Waiting, Indexing
<1> QED
  BY <1>1, <1>2, <1>3, CacheUnmoved

LEMMA CacheReads ==
  ASSUME TypeInv, HolesUnwritten, CacheAgrees, NEW r \in Readers,
         ReadHit(r) \/ ReadMiss(r) \/ ReadLog(r) \/ \E span \in Spans : StartRead(r, span)
  PROVE  HolesUnwritten' /\ CacheAgrees'
<1>1. /\ \A w \in Writers : pc'[w] = pc[w] /\ loc'[w] = loc[w]
      /\ UNCHANGED <<log, flags, skipped>>
  BY TypeFacts, ReaderLeaves, Roles DEF ReaderStep
<1>2. UNCHANGED <<cache, misfilled>>
  BY DEF ReadHit, ReadMiss, ReadLog, StartRead, history
<1>3. \A b \in Bytes : Committed(b)' = Committed(b)
  BY <1>1 DEF Committed, LastRecord
<1> QED
  BY <1>1, <1>2, <1>3, CacheUnmoved DEF Waiting, Indexing

LEMMA CacheStutter ==
  ASSUME HolesUnwritten, CacheAgrees, UNCHANGED vars
  PROVE  HolesUnwritten' /\ CacheAgrees'
<1>1. \A b \in Bytes : Committed(b)' = Committed(b)
  BY DEF vars, Committed, LastRecord
<1> QED
  BY <1>1, CacheUnmoved DEF vars, history, Waiting, Indexing

\* A fill beside byte b: it may bring a zero into existence there, which is the
\* value of the byte in a new file, and misfills an old one.
LEMMA FillBeside ==
  ASSUME HolesUnwritten, CacheAgrees, use_cache, NEW span \in SUBSET Bytes, NEW data,
         cache' = FillCache(cache, span, data),
         RoundsUp(span, cache') => misfilled', misfilled => misfilled', skipped => skipped',
         NEW b \in Bytes, b \notin span
  PROVE  /\ cache'[b] = Hole => cache[b] = Hole
         /\ cache'[b] # Hole /\ ~misfilled' /\ ~skipped' => Latest(b, cache'[b])
<1>1. /\ cache[b] # Hole => cache'[b] = cache[b]
      /\ cache[b] = Hole => cache'[b] \in {Zero, Hole}
  BY FillCacheByte
<1>2. cache[b] = Hole /\ cache'[b] # Hole /\ ~misfilled' => new_file
  BY DEF RoundsUp
<1>3. cache[b] = Hole /\ cache'[b] # Hole /\ ~misfilled' => Latest(b, cache'[b])
  <2> SUFFICES ASSUME cache[b] = Hole, cache'[b] # Hole, ~misfilled'
               PROVE  Latest(b, cache'[b])
    OBVIOUS
  <2>1. /\ \A w \in Writers : ~Waiting(w, b) /\ ~Indexing(w, b)
        /\ Committed(b) = Zero
    BY <1>2 DEF HolesUnwritten
  <2>2. cache'[b] = Zero
    BY <1>1
  <2> QED
    BY <2>1, <2>2 DEF Latest
<1>4. cache[b] # Hole /\ ~misfilled' /\ ~skipped' => Latest(b, cache'[b])
  BY <1>1 DEF CacheAgrees
<1> QED
  BY <1>1, <1>3, <1>4

LEMMA CacheWriteCache ==
  ASSUME TypeInv, LockInv, HolesUnwritten, CacheAgrees, NEW w \in Writers, WriteCache(w)
  PROVE  HolesUnwritten' /\ CacheAgrees'
<1>a. TypeOK /\ pc \in [Threads -> Labels] /\ loc \in [Threads -> Locals] /\ w \in Threads
  BY Roles DEF TypeInv, TypeOK
<1>b. loc[w].span \in SUBSET Bytes /\ loc[w].id \in Nat
  BY <1>a DEF Locals
<1>1. /\ pc[w] = "fill" /\ cache_lock = NoThread
      /\ pc' = [pc EXCEPT ![w] = "lock"]
      /\ cache' = FillCache(cache, loc[w].span, [b \in Bytes |-> loc[w].id])
      /\ misfilled' = (misfilled \/ RoundsUp(loc[w].span, cache'))
      /\ UNCHANGED <<log, loc, use_cache, new_file, skipped>>
  BY DEF WriteCache, flags, Goto
<1>2. use_cache
  BY <1>1 DEF LockInv, CacheLocked
<1>3. \A u \in Writers : pc[u] # "lock"
  BY <1>1, <1>2, Roles DEF LockInv, CacheLocked
<1>4. pc'[w] = "lock" /\ \A u \in Writers : u # w => pc'[u] = pc[u]
  BY <1>1, <1>a, Roles
<1>5. \A b \in Bytes : Committed(b)' = Committed(b)
  BY <1>1 DEF Committed, LastRecord
<1>6. (RoundsUp(loc[w].span, cache') => misfilled') /\ (misfilled => misfilled')
  BY <1>1
<1>7. ASSUME NEW b \in Bytes, b \notin loc[w].span
      PROVE  /\ cache'[b] = Hole => cache[b] = Hole
             /\ cache'[b] # Hole /\ ~misfilled' /\ ~skipped' => Latest(b, cache'[b])
  <2> DEFINE data == [c \in Bytes |-> loc[w].id]
  <2>1. cache' = FillCache(cache, loc[w].span, data)
    BY <1>1
  <2>2. skipped => skipped'
    BY <1>1
  <2> HIDE DEF data
  <2> QED
    BY <1>b, <1>2, <1>6, <1>7, <2>1, <2>2, FillBeside
<1>8. \A b \in loc[w].span : cache'[b] = loc[w].id /\ cache'[b] # Hole
  BY <1>1, <1>b, FillCacheByte DEF Hole
<1>9. ASSUME NEW b \in Bytes, b \notin loc[w].span
      PROVE  \A u \in Writers : (Waiting(u, b)' <=> Waiting(u, b)) /\ (Indexing(u, b)' <=> Indexing(u, b))
  BY <1>1, <1>4, <1>9 DEF Waiting, Indexing
<1>10. ASSUME NEW b \in loc[w].span
       PROVE  Latest(b, cache[b])'
  <2>1. Waiting(w, b)'
    BY <1>1, <1>4 DEF Waiting
  <2>2. \A u \in Writers : Waiting(u, b)' => u = w
    BY <1>3, <1>4 DEF Waiting
  <2>3. cache'[b] = loc'[w].id
    BY <1>1, <1>8
  <2> QED
    BY <2>1, <2>2, <2>3 DEF Latest
<1>11. HolesUnwritten'
  <2> SUFFICES ASSUME NEW b \in Bytes, cache'[b] = Hole
               PROVE  /\ \A u \in Writers : ~Waiting(u, b)' /\ ~Indexing(u, b)'
                      /\ new_file' => Committed(b)' = Zero
    BY DEF HolesUnwritten
  <2>1. b \notin loc[w].span
    BY <1>8
  <2>2. cache[b] = Hole
    BY <1>7, <2>1
  <2> QED
    BY <1>1, <1>2, <1>5, <1>9, <2>1, <2>2 DEF HolesUnwritten
<1>12. CacheAgrees'
  <2> SUFFICES ASSUME NEW b \in Bytes, cache'[b] # Hole, ~misfilled', ~skipped'
               PROVE  Latest(b, cache[b])'
    BY DEF CacheAgrees
  <2>1. CASE b \in loc[w].span
    BY <1>10, <2>1
  <2>2. CASE b \notin loc[w].span
    <3>1. Latest(b, cache'[b])
      BY <1>7, <2>2
    <3> QED
      BY <1>1, <1>5, <1>9, <2>2, <3>1 DEF Latest
  <2> QED
    BY <2>1, <2>2
<1> QED
  BY <1>11, <1>12

\* A read that overlapped no write of its bytes fills in what the log has there.
LEMMA CacheFillFromRead ==
  ASSUME TypeInv, IdsFresh, ReadersSee, ReadFromLog, HolesUnwritten, CacheAgrees,
         NEW r \in Readers, FillFromRead(r), use_cache
  PROVE  HolesUnwritten' /\ CacheAgrees'
<1>a. TypeOK /\ log \in Seq(Records) /\ writes \in Nat /\ pc \in [Threads -> Labels]
      /\ loc \in [Threads -> Locals]
  BY TypeFacts
<1>b. loc[r].span \in SUBSET Bytes /\ loc[r].buf \in [Bytes -> Values] /\ r \in Threads
  BY <1>a, Roles DEF Locals
<1>1. /\ pc[r] = "refill" /\ pc' = [pc EXCEPT ![r] = "idle"]
      /\ cache' = FillCache(cache, loc[r].span, loc[r].buf)
      /\ misfilled' = (misfilled \/ RoundsUp(loc[r].span, cache') \/ (use_cache /\ Overlapped(r)))
      /\ UNCHANGED <<log, loc, use_cache, new_file, skipped>>
  BY DEF FillFromRead, flags, Goto
<1>2. \A w \in Writers : pc'[w] = pc[w]
  BY <1>1, <1>a, <1>b, Roles
<1>3. \A w \in Writers, b \in Bytes :
        (Waiting(w, b)' <=> Waiting(w, b)) /\ (Indexing(w, b)' <=> Indexing(w, b))
  BY <1>1, <1>2 DEF Waiting, Indexing
<1>4. \A b \in Bytes : Committed(b)' = Committed(b)
  BY <1>1 DEF Committed, LastRecord
<1>5. /\ RoundsUp(loc[r].span, cache') => misfilled'
      /\ misfilled => misfilled'
      /\ Overlapped(r) => misfilled'
      /\ skipped => skipped'
  BY <1>1
<1>6. ASSUME NEW b \in Bytes, b \notin loc[r].span
      PROVE  /\ cache'[b] = Hole => cache[b] = Hole
             /\ cache'[b] # Hole /\ ~misfilled' /\ ~skipped' => Latest(b, cache'[b])
  BY <1>b, <1>1, <1>5, <1>6, FillBeside
<1>7. \A b \in loc[r].span : cache'[b] = loc[r].buf[b] /\ cache'[b] # Hole
  BY <1>1, <1>b, FillCacheByte DEF Hole, Values, Garbage
<1>8. ASSUME NEW b \in loc[r].span, ~misfilled', ~skipped'
      PROVE  Latest(b, cache'[b])
  <2>1. b \in Bytes
    BY <1>b
  <2>2. ~(Cardinality(loc[r].ok[b]) > 1)
    BY <1>5, <1>8 DEF Overlapped
  <2>3. /\ loc[r].ok[b] \subseteq 0 .. writes + 1 /\ Committed(b) \in loc[r].ok[b]
        /\ \A w \in Writers : pc[w] # "idle" /\ b \in loc[w].span => loc[w].id \in loc[r].ok[b]
    BY <1>1, <2>1 DEF ReadersSee
  <2>4. IsFiniteSet(loc[r].ok[b])
    <3>1. loc[r].ok[b] \in SUBSET Nat /\ writes + 1 \in Nat
          /\ \A x \in loc[r].ok[b] : x <= writes + 1
      BY <1>a, <2>3
    <3> QED
      BY <3>1, FS_BoundedSetOfNaturals
  <2>5. loc[r].buf[b] \in loc[r].ok[b]
    BY <1>1, <1>5, <1>8, <2>1 DEF ReadFromLog
  <2>6. loc[r].buf[b] = Committed(b)
    BY <2>2, <2>3, <2>4, <2>5, AtMostOne
  <2>7. ASSUME NEW w \in Writers, Waiting(w, b) \/ Indexing(w, b)
        PROVE  FALSE
    <3>1. pc[w] # "idle" /\ b \in loc[w].span
      BY <2>7 DEF Waiting, Indexing
    <3>2. loc[w].id \in loc[r].ok[b]
      BY <2>3, <3>1
    <3>3. loc[w].id = Committed(b)
      BY <2>2, <2>3, <2>4, <3>2, AtMostOne
    <3>4. loc[w].id # Committed(b)
      BY <1>a, <2>1, <3>1, CommittedIsOld
    <3> QED
      BY <3>3, <3>4
  <2> QED
    BY <1>7, <2>6, <2>7 DEF Latest
<1>9. HolesUnwritten'
  <2> SUFFICES ASSUME NEW b \in Bytes, cache'[b] = Hole
               PROVE  /\ \A u \in Writers : ~Waiting(u, b)' /\ ~Indexing(u, b)'
                      /\ new_file' => Committed(b)' = Zero
    BY DEF HolesUnwritten
  <2>1. b \notin loc[r].span
    BY <1>7
  <2>2. cache[b] = Hole
    BY <1>6, <2>1
  <2> QED
    BY <1>1, <1>3, <1>4, <2>2 DEF HolesUnwritten
<1>10. CacheAgrees'
  <2> SUFFICES ASSUME NEW b \in Bytes, cache'[b] # Hole, ~misfilled', ~skipped'
               PROVE  Latest(b, cache[b])'
    BY DEF CacheAgrees
  <2>1. Latest(b, cache'[b])
    BY <1>6, <1>8
  <2> QED
    BY <1>1, <1>3, <1>4, <2>1 DEF Latest
<1> QED
  BY <1>9, <1>10

\* A write that takes the index was alone in waiting for it, and no write held it.
LEMMA CacheLockIndex ==
  ASSUME TypeInv, LockInv, HolesUnwritten, CacheAgrees, NEW w \in Writers, LockIndex(w)
  PROVE  HolesUnwritten' /\ CacheAgrees'
<1>a. pc \in [Threads -> Labels] /\ w \in Threads
  BY TypeFacts, Roles
<1>1. /\ pc[w] = "lock" /\ figtree_lock = NoThread
      /\ pc' = [pc EXCEPT ![w] = "index"]
      /\ UNCHANGED <<log, loc, cache, use_cache, new_file, misfilled, skipped>>
  BY DEF LockIndex, flags, history, Goto
<1>2. pc'[w] = "index" /\ \A u \in Writers : u # w => pc'[u] = pc[u]
  BY <1>1, <1>a, Roles
<1>3. \A u \in Writers : pc[u] \notin {"index", "append"}
  BY <1>1, Roles DEF LockInv, IndexLocked
<1>4. use_cache => \A u \in Writers : u # w => pc[u] # "lock"
  BY <1>1 DEF LockInv, CacheLocked
<1>5. \A b \in Bytes : Committed(b)' = Committed(b)
  BY <1>1 DEF Committed, LastRecord
<1>6. \A u \in Writers, b \in Bytes :
        Waiting(u, b)' \/ Indexing(u, b)' <=> Waiting(u, b) \/ Indexing(u, b)
  BY <1>1, <1>2 DEF Waiting, Indexing
<1>7. HolesUnwritten'
  BY <1>1, <1>5, <1>6 DEF HolesUnwritten
<1>8. ASSUME use_cache, NEW b \in Bytes, NEW v, Latest(b, v)
      PROVE  Latest(b, v)'
  <2>1. \A u \in Writers : ~Waiting(u, b)'
    BY <1>2, <1>4, <1>8 DEF Waiting
  <2>2. \A u \in Writers : Indexing(u, b)' => u = w /\ Waiting(w, b)
    BY <1>1, <1>2, <1>3 DEF Waiting, Indexing
  <2>3. \A u \in Writers : ~Indexing(u, b)
    BY <1>3 DEF Indexing
  <2>4. \A u \in Writers : Waiting(u, b) => u = w /\ Indexing(w, b)'
    BY <1>1, <1>2, <1>4, <1>8 DEF Waiting, Indexing
  <2> QED
    BY <1>1, <1>5, <1>8, <2>1, <2>2, <2>3, <2>4 DEF Latest
<1>9. CacheAgrees'
  BY <1>1, <1>8 DEF CacheAgrees
<1> QED
  BY <1>7, <1>9

\* The appended record makes the value of the cache the committed one.
LEMMA CacheAppendRecord ==
  ASSUME TypeInv, LockInv, HolesUnwritten, CacheAgrees, NEW w \in Writers, AppendRecord(w)
  PROVE  HolesUnwritten' /\ CacheAgrees'
<1>a. TypeOK /\ log \in Seq(Records)
  BY TypeFacts
<1>1. /\ pc[w] = "append" /\ pc'[w] = "idle"
      /\ \A u \in Writers : u # w => pc'[u] = pc[u] /\ loc'[u] = loc[u]
      /\ UNCHANGED <<cache, use_cache, new_file, misfilled, skipped>>
  BY <1>a, EndOfWrite, Roles DEF flags, history
<1>2. PICK rec \in Records : /\ rec.span = loc[w].span /\ rec.id = loc[w].id
                             /\ log' = Append(log, rec)
  BY <1>a, EndOfWrite
<1>3. \A b \in Bytes : Committed(b)' = IF b \in loc[w].span THEN loc[w].id ELSE Committed(b)
  BY <1>a, <1>2, CommittedAppend
<1>4. \A u \in Writers : u # w => pc[u] \notin {"index", "append"}
  BY <1>1, Roles DEF LockInv, IndexLocked
<1>5. \A u \in Writers, b \in Bytes :
        /\ Waiting(u, b)' <=> Waiting(u, b)
        /\ ~Indexing(u, b)'
        /\ Waiting(u, b)' => loc'[u].id = loc[u].id
        /\ Indexing(u, b) => u = w
        /\ Indexing(w, b) <=> b \in loc[w].span
  BY <1>1, <1>4 DEF Waiting, Indexing
<1>6. HolesUnwritten'
  <2> SUFFICES ASSUME NEW b \in Bytes, use_cache, cache[b] = Hole
               PROVE  /\ \A u \in Writers : ~Waiting(u, b)' /\ ~Indexing(u, b)'
                      /\ new_file => Committed(b)' = Zero
    BY <1>1 DEF HolesUnwritten
  <2>1. b \notin loc[w].span
    BY <1>5 DEF HolesUnwritten
  <2> QED
    BY <1>3, <1>5, <2>1 DEF HolesUnwritten
<1>7. ASSUME NEW b \in Bytes, NEW v, Latest(b, v)
      PROVE  Latest(b, v)'
  <2>1. \A u \in Writers : Waiting(u, b)' => v = loc'[u].id
    BY <1>5, <1>7 DEF Latest
  <2>2. ASSUME \A u \in Writers : ~Waiting(u, b)'
        PROVE  v = Committed(b)'
    <3>1. CASE b \in loc[w].span
      BY <1>3, <1>5, <1>7, <2>2, <3>1 DEF Latest
    <3>2. CASE b \notin loc[w].span
      BY <1>3, <1>5, <1>7, <2>2, <3>2 DEF Latest
    <3> QED
      BY <3>1, <3>2
  <2> QED
    BY <1>5, <2>1, <2>2 DEF Latest
<1>8. CacheAgrees'
  BY <1>1, <1>7 DEF CacheAgrees
<1> QED
  BY <1>6, <1>8

\* The other steps of a write move it neither into the cache nor out of it.
LEMMA CacheElsewhere ==
  ASSUME TypeInv, HolesUnwritten, CacheAgrees, NEW w \in Writers, use_cache,
         StoreSize(w) \/ RefFile(w) \/ CountRequest(w) \/ IndexWrite(w)
         \/ \E span \in Spans : StartWrite(w, span)
  PROVE  HolesUnwritten' /\ CacheAgrees'
<1>a. TypeOK /\ pc \in [Threads -> Labels] /\ loc \in [Threads -> Locals] /\ w \in Threads
  BY TypeFacts, Roles
<1>1. \A u \in Writers : u # w => pc'[u] = pc[u] /\ loc'[u] = loc[u]
  BY <1>a, MiddleOfWrite, StartOfWrite, Roles DEF MiddleStep
<1>2. UNCHANGED <<log, cache, flags, history>>
  BY DEF StoreSize, RefFile, CountRequest, IndexWrite, StartWrite
<1>3. \/ pc[w] \notin {"lock", "index", "append"} /\ pc'[w] \notin {"lock", "index", "append"}
      \/ pc[w] = "index" /\ pc'[w] = "append" /\ loc' = loc
  BY <1>a DEF StoreSize, RefFile, CountRequest, IndexWrite, StartWrite, Goto
<1>4. \A u \in Writers, b \in Bytes :
        /\ Waiting(u, b)' <=> Waiting(u, b)
        /\ Indexing(u, b)' <=> Indexing(u, b)
        /\ Waiting(u, b) \/ Indexing(u, b) => loc'[u].id = loc[u].id
  BY <1>1, <1>3 DEF Waiting, Indexing
<1>5. \A b \in Bytes : Committed(b)' = Committed(b)
  BY <1>2 DEF Committed, LastRecord
<1> QED
  BY <1>2, <1>4, <1>5, CacheUnmoved DEF history

LEMMA CacheInit == Init => CacheInv
<1> SUFFICES ASSUME Init PROVE CacheInv
  OBVIOUS
<1>1. cache = EmptyCache /\ \A b \in Bytes : cache[b] = Hole
  BY DEF Init, EmptyCache
<1>2. \A t \in Threads : pc[t] = "idle"
  BY DEF Init
<1>3. ASSUME new_file, NEW b \in Bytes
      PROVE  Committed(b) = Zero
  <2>1. log = <<DataRec({}, 0, 0)>>
    BY <1>3 DEF Init
  <2>2. log \in Seq(Records)
    BY TypeInit DEF TypeOK
  <2>3. Len(log) = 1 /\ log[1].span = {}
    BY <2>1 DEF DataRec
  <2>4. LastRecord(b) = 0
    <3>1. /\ LastRecord(b) \in 0 .. Len(log)
          /\ LastRecord(b) # 0 => b \in log[LastRecord(b)].span
      BY <2>2, LastRecordFacts
    <3> QED
      BY <2>3, <3>1
  <2> QED
    BY <2>4 DEF Committed
<1>4. HolesUnwritten
  BY <1>2, <1>3, Roles DEF HolesUnwritten, Waiting, Indexing
<1>5. CacheAgrees
  BY <1>1 DEF CacheAgrees
<1>6. CacheOff
  BY <1>1, <1>2, Roles DEF CacheOff
<1> QED
  BY <1>4, <1>5, <1>6 DEF CacheInv

LEMMA CacheOffStep ==
  ASSUME TypeInv, LockInv, CacheOff, [Next]_vars
  PROVE  CacheOff' /\ use_cache' = use_cache
<1>a. TypeOK /\ pc \in [Threads -> Labels]
  BY TypeFacts
<1>1. ASSUME NEW w \in Writers, MiddleStep(w) \/ AppendRecord(w)
                                \/ \E span \in Spans : StartWrite(w, span)
      PROVE  CacheOff' /\ use_cache' = use_cache
  <2>1. \A t \in Threads : t # w => pc'[t] = pc[t]
    BY <1>1, <1>a, MiddleOfWrite, StartOfWrite, EndOfWrite
  <2>2. use_cache' = use_cache
    BY <1>1, <1>a, MiddleOfWrite, StartOfWrite, EndOfWrite DEF flags
  <2>3. cache' = cache \/ WriteCache(w)
    BY <1>1 DEF MiddleStep, StoreSize, RefFile, CountRequest, LockIndex, IndexWrite,
                AppendRecord, StartWrite
  <2>4. WriteCache(w) => use_cache
    BY DEF WriteCache, LockInv, CacheLocked
  <2>5. \A r \in Readers : pc'[r] = pc[r]
    BY <2>1, Roles
  <2> QED
    BY <2>2, <2>3, <2>4, <2>5 DEF CacheOff
<1>2. ASSUME NEW r \in Readers, ReaderStep(r) \/ \E span \in Spans : StartRead(r, span)
      PROVE  CacheOff' /\ use_cache' = use_cache
  <2>1. \A t \in Threads : t # r => pc'[t] = pc[t]
    BY <1>2, <1>a, ReaderLeaves
  <2>2. use_cache' = use_cache
    BY <1>2, <1>a, ReaderLeaves DEF flags
  <2>3. cache' = IF use_cache THEN cache' ELSE cache
    BY <1>2 DEF ReaderStep, ReadHit, ReadMiss, ReadLog, FillFromRead, StartRead
  <2>4. pc'[r] = "check" => use_cache
    BY <1>2, <1>a, Roles
       DEF ReaderStep, ReadHit, ReadMiss, ReadLog, FillFromRead, StartRead, Goto
  <2>5. \A t \in Readers : t # r => pc'[t] = pc[t]
    BY <2>1, Roles
  <2> QED
    BY <2>2, <2>3, <2>4, <2>5 DEF CacheOff
<1>3. CASE EvictOrCallback
  BY <1>3, OtherThreadsStep DEF CacheOff, flags
<1>4. CASE UNCHANGED vars
  BY <1>4 DEF vars, flags, CacheOff
<1> QED
  BY <1>1, <1>2, <1>3, <1>4, StepCases

LEMMA CacheStep ==
  ASSUME TypeInv, LockInv, IdsFresh, ReadersSee, ReadFromLog, CacheInv, [Next]_vars
  PROVE  CacheInv'
<1>1. CacheOff' /\ use_cache' = use_cache
  BY CacheOffStep DEF CacheInv
<1>2. HolesUnwritten /\ CacheAgrees
  BY DEF CacheInv
<1>3. CASE EvictOrCallback
  BY <1>1, <1>2, <1>3, CacheEvictOrCallback DEF CacheInv
<1>4. CASE UNCHANGED vars
  BY <1>1, <1>2, <1>4, CacheStutter DEF CacheInv
<1>5. CASE ~use_cache
  BY <1>1, <1>5 DEF CacheInv, HolesUnwritten, CacheAgrees
<1>6. ASSUME NEW w \in Writers, use_cache,
             MiddleStep(w) \/ AppendRecord(w) \/ \E span \in Spans : StartWrite(w, span)
      PROVE  HolesUnwritten' /\ CacheAgrees'
  BY <1>2, <1>6, CacheWriteCache, CacheLockIndex, CacheAppendRecord, CacheElsewhere
     DEF MiddleStep
<1>7. ASSUME NEW r \in Readers, use_cache,
             ReaderStep(r) \/ \E span \in Spans : StartRead(r, span)
      PROVE  HolesUnwritten' /\ CacheAgrees'
  BY <1>2, <1>7, CacheFillFromRead, CacheReads DEF ReaderStep
<1> QED
  BY <1>1, <1>3, <1>4, <1>5, <1>6, <1>7, StepCases DEF CacheInv

LEMMA CacheInvariant == Spec => [](IdsFresh /\ ReadersSee /\ ReadFromLog /\ CacheInv)
<1>1. Init => IdsFresh /\ ReadersSee /\ ReadFromLog /\ CacheInv
  BY IdsInit, SeenInit, FromLogInit, CacheInit
<1>2. /\ IdsFresh /\ ReadersSee /\ ReadFromLog /\ CacheInv
      /\ TypeInv /\ LockInv /\ IndexInv /\ [Next]_vars
      => (IdsFresh /\ ReadersSee /\ ReadFromLog /\ CacheInv)'
  BY IdsStep, SeenStep, FromLogStep, CacheStep
<1> QED
  BY <1>1, <1>2, TypeInvariant, LockInvariant, IndexInvariant, PTL DEF Spec

\* While no call runs, every byte the cache holds is the byte the index finds in
\* the log, until a fill from a read that overlapped a write (gdpfs_file_fill_cache
\* at the end of do_read), a fill that allocates more of a block than it writes,
\* or a checkpoint that found nothing to append.  Nothing else can part them: not
\* the number of writers, nor the order they reach the cache and the index in.
THEOREM CacheMirrorsLog == Spec => []CacheExactUntilMisfilled
<1>1. TypeInv /\ LockInv /\ IndexInv /\ CacheInv => CacheExactUntilMisfilled
  <2> SUFFICES ASSUME TypeInv, LockInv, IndexInv, CacheInv, ~misfilled, ~skipped,
                      Idle(Threads), NEW b \in Bytes, cache[b] # Hole
               PROVE  cache[b] = IndexByte(b)
    BY DEF CacheExactUntilMisfilled, CacheMirrorsFile
  <2>1. \A w \in Writers : pc[w] = "idle"
    BY Roles DEF Idle
  <2>2. figtree_lock = NoThread
    BY <2>1 DEF LockInv, IndexLocked
  <2>3. IndexByte(b) = Committed(b)
    BY <2>2, TypeFacts, IndexByteIsCommitted
  <2>4. use_cache
    BY DEF CacheInv, CacheOff, EmptyCache
  <2>5. Latest(b, cache[b])
    BY <2>4 DEF CacheInv, CacheAgrees
  <2> QED
    BY <2>1, <2>3, <2>5 DEF Latest, Waiting, Indexing
<1> QED
  BY <1>1, TypeInvariant, LockInvariant, IndexInvariant, CacheInvariant, PTL
-----------------------------------------------------------------------------
\* A hit returns, at each byte, a value the read may return.
LEMMA HitIsRegular ==
  ASSUME TypeInv, LockInv, ReadersSee, CacheInv, ~misfilled, ~skipped,
         NEW r \in Readers, ReadHit(r), NEW b \in loc[r].span
  PROVE  CacheByte(cache, b) \in loc[r].ok[b]
<1>a. loc[r].span \subseteq Bytes /\ b \in Bytes
  BY TypeFacts, Roles DEF Locals
<1>1. pc[r] = "check" /\ cache_lock = NoThread /\ CacheHit(cache, new_file, loc[r].span)
  BY DEF ReadHit
<1>2. use_cache
  BY <1>1 DEF CacheInv, CacheOff
<1>3. \A w \in Writers : ~Waiting(w, b)
  BY <1>1, <1>2, Roles DEF LockInv, CacheLocked, Waiting
<1>4. /\ Committed(b) \in loc[r].ok[b]
      /\ \A w \in Writers : pc[w] # "idle" /\ b \in loc[w].span => loc[w].id \in loc[r].ok[b]
  BY <1>a, <1>1 DEF ReadersSee
<1>5. CASE cache[b] = Hole
  <2>1. new_file
    BY <1>1, <1>5 DEF CacheHit
  <2>2. Committed(b) = Zero
    BY <1>a, <1>2, <1>5, <2>1 DEF CacheInv, HolesUnwritten
  <2> QED
    BY <1>4, <1>5, <2>2 DEF CacheByte
<1>6. CASE cache[b] # Hole
  <2>1. Latest(b, cache[b])
    BY <1>a, <1>2, <1>6 DEF CacheInv, CacheAgrees
  <2>2. CASE \A w \in Writers : ~Indexing(w, b)
    BY <1>3, <1>4, <1>6, <2>1, <2>2 DEF Latest, CacheByte
  <2>3. ASSUME NEW w \in Writers, Indexing(w, b)
        PROVE  CacheByte(cache, b) \in loc[r].ok[b]
    <3>1. cache[b] = loc[w].id
      BY <1>3, <2>1, <2>3 DEF Latest
    <3> QED
      BY <1>4, <1>6, <2>3, <3>1 DEF Indexing, CacheByte
  <2> QED
    BY <2>2, <2>3
<1> QED
  BY <1>5, <1>6

LEMMA RegularStep ==
  ASSUME TypeInv, LockInv, ReadersSee, ReadFromLog, CacheInv, ReadsRegular, [Next]_vars
  PROVE  ReadsRegular'
<1>a. TypeOK /\ pc \in [Threads -> Labels] /\ loc \in [Threads -> Locals]
  BY TypeFacts
<1>1. ASSUME NEW w \in Writers, NEW span \in Spans, StartWrite(w, span)
      PROVE  ReadsRegular'
  <2>1. /\ \A t \in Threads : t # w => pc'[t] = pc[t]
        /\ \A t \in Readers : pc[t] = "idle" => loc'[t] = loc[t]
        /\ UNCHANGED <<misfilled, skipped>>
    BY <1>1, <1>a, StartOfWrite DEF history
  <2> QED
    BY <2>1, Roles DEF ReadsRegular
<1>2. ASSUME NEW w \in Writers, MiddleStep(w) \/ AppendRecord(w)
      PROVE  ReadsRegular'
  <2>1. /\ \A t \in Threads : t # w => pc'[t] = pc[t] /\ loc'[t] = loc[t]
        /\ skipped' = skipped
    BY <1>2, <1>a, MiddleOfWrite, EndOfWrite DEF history
  <2>2. misfilled => misfilled'
    BY <1>2 DEF MiddleStep, StoreSize, RefFile, CountRequest, WriteCache, LockIndex,
                IndexWrite, AppendRecord, history
  <2> QED
    BY <2>1, <2>2, Roles DEF ReadsRegular
<1>3. ASSUME NEW r \in Readers, ReaderStep(r) \/ \E span \in Spans : StartRead(r, span),
             ~misfilled', ~skipped', NEW t \in Readers, pc'[t] = "idle", NEW b \in loc'[t].span
      PROVE  loc'[t].buf[b] \in loc'[t].ok[b]
  <2>1. /\ \A u \in Threads : u # r => pc'[u] = pc[u] /\ loc'[u] = loc[u]
        /\ skipped' = skipped
    BY <1>3, <1>a, ReaderLeaves
  <2>2. ~misfilled
    BY <1>3 DEF ReaderStep, ReadHit, ReadMiss, ReadLog, FillFromRead, StartRead, history
  <2>3. CASE t # r
    BY <1>3, <2>1, <2>2, <2>3, Roles DEF ReadsRegular
  <2>4. CASE t = r
    <3>1. ReadHit(r) \/ FillFromRead(r)
      BY <1>3, <2>4, <1>a, Roles
         DEF ReaderStep, ReadHit, ReadMiss, ReadLog, FillFromRead, StartRead, Goto
    <3>2. r \in Threads /\ loc[r] \in Locals
      BY <1>a, Roles
    <3>3. CASE ReadHit(r)
      <4>1. /\ loc'[r].span = loc[r].span /\ loc'[r].ok = loc[r].ok
            /\ loc'[r].buf = [c \in Bytes |-> CacheByte(cache, c)]
        BY <1>a, <3>2, <3>3 DEF ReadHit, Locals
      <4>2. b \in loc[r].span /\ b \in Bytes
        BY <1>3, <2>4, <3>2, <4>1 DEF Locals
      <4>3. CacheByte(cache, b) \in loc[r].ok[b]
        BY <1>3, <2>1, <2>2, <3>3, <4>2, HitIsRegular
      <4> QED
        BY <2>4, <4>1, <4>2, <4>3
    <3>4. CASE FillFromRead(r)
      <4>1. loc' = loc /\ pc[r] = "refill"
        BY <3>4 DEF FillFromRead
      <4>2. b \in Bytes
        BY <1>3, <2>4, <3>2, <4>1 DEF Locals
      <4> QED
        BY <1>3, <2>1, <2>4, <4>1, <4>2 DEF ReadFromLog
    <3> QED
      BY <3>1, <3>3, <3>4
  <2> QED
    BY <2>3, <2>4
<1>4. ASSUME NEW r \in Readers, ReaderStep(r) \/ \E span \in Spans : StartRead(r, span)
      PROVE  ReadsRegular'
  BY <1>3, <1>4 DEF ReadsRegular
<1>5. CASE EvictOrCallback
  <2>1. /\ \A t \in Readers : pc'[t] = pc[t] /\ loc'[t] = loc[t]
        /\ misfilled' = misfilled
        /\ skipped => skipped'
    BY <1>5, OtherThreadsStep
  <2> QED
    BY <2>1 DEF ReadsRegular
<1>6. CASE UNCHANGED vars
  BY <1>6 DEF vars, history, ReadsRegular
<1> QED
  BY <1>1, <1>2, <1>4, <1>5, <1>6, StepCases

\* Every finished read returned, at each byte, the last value written before it
\* started or the value of a write it overlapped, whether it was served by the
\* cache or by the log, until the cache is misfilled or a checkpoint found
\* nothing to append: for every number of threads, with and without the kernel's
\* lock on the writers.
THEOREM ReadsAreRegular == Spec => []ReadsRegular
<1>1. Init => ReadsRegular
  BY Roles DEF Init, ReadsRegular, NoLocals
<1> QED
  BY <1>1, RegularStep, TypeInvariant, LockInvariant, CacheInvariant, PTL DEF Spec
=============================================================================
