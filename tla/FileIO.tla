------------------------------- MODULE FileIO -------------------------------
(***************************************************************************)
(* One open file of gdpfs_file.c, used by several threads at once: writes, *)
(* reads, the checkpoint that an eviction takes, and the callbacks of the  *)
(* GDP.  A step is a stretch of code between two points where another      *)
(* thread can see or change what it works on; a lock that the code holds   *)
(* across such points is a variable.                                       *)
(*                                                                         *)
(* The log is the external GDP log: appends take effect in the order they  *)
(* are made and record number r is its r-th record.  Every write carries   *)
(* one value, its own number, at each of its bytes, so that a byte tells   *)
(* which write it comes from.  The index (the fig tree) is abstract here:  *)
(* it maps a byte to a record number.                                      *)
(***************************************************************************)
EXTENDS SparseCache, Sequences, FiniteSetsExt

CONSTANTS
    Writers, Readers, Evictors,   \* threads, by what they do
    Callback,                     \* the thread GDP events are delivered on
    NoThread,                     \* the owner of a free lock
    CacheModes,                   \* values of use_cache to consider
    FileKinds,                    \* values of new_file to consider
    InodeLock,                    \* does the kernel serialise the writers?
    MaxWrites, MaxReads, MaxEvicts  \* bounds: calls of each kind

ASSUME FileIOAssumption ==
    /\ CacheModes \subseteq BOOLEAN /\ FileKinds \subseteq BOOLEAN
    /\ InodeLock \in BOOLEAN
    /\ IsFiniteSet(Writers)
    /\ {MaxWrites, MaxReads, MaxEvicts} \subseteq Nat
    /\ Writers \cap Readers = {} /\ Writers \cap Evictors = {}
    /\ Readers \cap Evictors = {}
    /\ Callback \notin Writers \cup Readers \cup Evictors
    /\ NoThread \notin Writers \cup Readers \cup Evictors \cup {Callback}

VARIABLES
    use_cache,         \* the flag init_gdpfs_file sets
    new_file,          \* was the file created in this session?
    log,               \* the records of the file's log
    figtree,           \* byte -> record number, 0 if the tree has none
    dirty,             \* is there anything get_dirty would collect?
    last_recno,        \* the number the code believes the last record has
    cache,             \* the local sparse file
    file_size,         \* info_cache.file_size
    ref_count,
    outstanding_reqs,
    index_flush_reqs,
    cache_lock, figtree_lock, index_flush_lock,   \* their owners
    flush_waiters,     \* threads asleep on index_flush_cond
    unacked,           \* events the GDP has yet to deliver, in log order
    pc, loc,           \* control point and locals of each thread
    writes, reads, evicts,  \* calls made so far
    misfilled,         \* history: has the cache been filled with bytes that need
                       \* not be the file's (see RoundsUp and Overlapped)?
    skipped            \* history: did a checkpoint find nothing to append?

index == <<figtree, dirty, last_recno>>
locks == <<cache_lock, figtree_lock, index_flush_lock, flush_waiters>>
counts == <<ref_count, outstanding_reqs, index_flush_reqs>>
calls == <<writes, reads, evicts>>
flags == <<use_cache, new_file>>
history == <<misfilled, skipped>>
vars == <<log, index, cache, file_size, counts, locks, unacked, pc, loc, calls,
          flags, history>>

Threads == Writers \cup Readers \cup Evictors \cup {Callback}
-----------------------------------------------------------------------------
\* Log records: data of a write, or a checkpoint with the index it holds.
NoIndex == [b \in Bytes |-> 0]

DataRec(span, id, size) ==
    [kind |-> "data", span |-> span, id |-> id, size |-> size, tree |-> NoIndex]

CkptRec(tree, size) ==
    [kind |-> "ckpt", span |-> {}, id |-> 0, size |-> size, tree |-> tree]

Records == [kind : {"data", "ckpt"}, span : SUBSET Bytes, id : Nat,
            size : Nat, tree : [Bytes -> Nat]]

Garbage == -1
Values == Nat \cup {Garbage}

\* The bytes of record r as do_read takes them, at position b.  A record that
\* is not there or does not hold b is the "Corrupt log entry" case.
RecordByte(r, b) ==
    IF r \in DOMAIN log /\ b \in log[r].span THEN log[r].id ELSE Garbage

\* fti_next gives nothing where the index is empty: memset left a zero there.
IndexByte(b) == IF figtree[b] = 0 THEN Zero ELSE RecordByte(figtree[b], b)

NoLocals == [span |-> {}, id |-> 0, size |-> 0, rc |-> 0,
             buf |-> [b \in Bytes |-> Zero], ok |-> [b \in Bytes |-> {}]]

Locals == [span : SUBSET Bytes, id : Nat, size : 0 .. FileLen, rc : Nat,
           buf : [Bytes -> Values], ok : [Bytes -> SUBSET Nat]]

Labels == {"idle", "size", "ref", "count", "fill", "lock", "index", "append",
           "check", "miss", "refill", "wait", "collect", "ckpt", "unref"}

TypeOK ==
    /\ log \in Seq(Records)
    /\ figtree \in [Bytes -> Nat] /\ dirty \in BOOLEAN /\ last_recno \in Nat
    /\ cache \in [Bytes -> Values \cup {Hole}]
    /\ file_size \in 0 .. FileLen
    /\ ref_count \in Nat /\ outstanding_reqs \in Nat /\ index_flush_reqs \in Nat
    /\ cache_lock \in Threads \cup {NoThread}
    /\ figtree_lock \in Threads \cup {NoThread}
    /\ index_flush_lock \in Threads \cup {NoThread}
    /\ flush_waiters \subseteq Evictors
    /\ unacked \in Seq({"data", "ckpt"})
    /\ pc \in [Threads -> Labels] /\ loc \in [Threads -> Locals]
    /\ writes \in 0 .. MaxWrites /\ reads \in 0 .. MaxReads /\ evicts \in 0 .. MaxEvicts
    /\ use_cache \in CacheModes /\ new_file \in FileKinds
    /\ misfilled \in BOOLEAN /\ skipped \in BOOLEAN

\* A new file has the record open_file wrote for it.  An old one has a record
\* of data and the checkpoint of its last eviction; its cache is cold.
OldTree == [b \in Bytes |-> 2]

Init ==
    /\ use_cache \in CacheModes /\ new_file \in FileKinds
    /\ log = IF new_file THEN <<DataRec({}, 0, 0)>>
             ELSE <<DataRec({}, 0, 0), DataRec(Bytes, 1, FileLen), CkptRec(OldTree, FileLen)>>
    /\ figtree = IF new_file THEN NoIndex ELSE OldTree
    /\ dirty = new_file
    /\ last_recno = IF new_file THEN 1 ELSE 3
    /\ cache = EmptyCache
    /\ file_size = IF new_file THEN 0 ELSE FileLen
    /\ ref_count = 1 /\ outstanding_reqs = 0 /\ index_flush_reqs = 0
    /\ cache_lock = NoThread /\ figtree_lock = NoThread /\ index_flush_lock = NoThread
    /\ flush_waiters = {}
    /\ unacked = << >>
    /\ pc = [t \in Threads |-> "idle"]
    /\ loc = [t \in Threads |-> NoLocals]
    /\ writes = 0 /\ reads = 0 /\ evicts = 0
    /\ misfilled = FALSE /\ skipped = FALSE
-----------------------------------------------------------------------------
Idle(threads) == \A t \in threads : pc[t] = "idle"

Goto(t, label) == pc' = [pc EXCEPT ![t] = label]

\* Does a fill of the cache bring bytes of an old file that nobody fetched into
\* existence, as zeros of a block it allocates?
RoundsUp(span, filled) ==
    ~new_file /\ \E b \in Bytes \ span : cache[b] = Hole /\ filled[b] # Hole

\* Slips in this code, each of which some property below catches: the callback's
\* reference forgotten; cache_lock dropped before the index is locked; the log
\* read without figtree_lock; a checkpoint that does not wait for the appends,
\* or whose record lacks the file size; an acknowledgement counted twice; the
\* waiting eviction not signalled.
RefForgotten(w) ==
    /\ pc[w] = "ref"
    /\ loc' = [loc EXCEPT ![w].size = file_size]
    /\ Goto(w, "count")
    /\ UNCHANGED <<log, index, cache, file_size, counts, locks, unacked, calls,
                   flags, history>>

WriteCacheUnlocks(w) ==
    /\ pc[w] = "fill"
    /\ cache_lock = NoThread
    /\ cache' = FillCache(cache, loc[w].span, [b \in Bytes |-> loc[w].id])
    /\ misfilled' = (misfilled \/ RoundsUp(loc[w].span, cache'))
    /\ Goto(w, "lock")
    /\ UNCHANGED <<log, index, file_size, counts, locks, unacked, loc, calls,
                   flags, skipped>>

ReadLogUnlocked(r) ==
    /\ pc[r] = "miss"
    /\ loc' = [loc EXCEPT ![r].buf = [b \in Bytes |-> IndexByte(b)]]
    /\ Goto(r, "refill")
    /\ UNCHANGED <<log, index, cache, file_size, counts, locks, unacked, calls,
                   flags, history>>

CheckpointWithoutWait(e) ==
    /\ pc[e] = "wait"
    /\ index_flush_lock = NoThread
    /\ index_flush_lock' = e
    /\ loc' = [loc EXCEPT ![e].size = file_size]
    /\ Goto(e, "collect")
    /\ UNCHANGED <<log, index, cache, file_size, counts, cache_lock,
                   figtree_lock, flush_waiters, unacked, calls, flags, history>>

CheckpointOmitsSize(e) ==
    /\ pc[e] = "wait" /\ e \notin flush_waiters
    /\ index_flush_lock = NoThread
    /\ outstanding_reqs = 0
    /\ index_flush_lock' = e
    /\ Goto(e, "collect")
    /\ UNCHANGED <<log, index, cache, file_size, counts, cache_lock,
                   figtree_lock, flush_waiters, unacked, loc, calls, flags,
                   history>>

AckCountedTwice ==
    /\ pc[Callback] = "idle"
    /\ unacked # << >> /\ Head(unacked) = "data"
    /\ index_flush_lock = NoThread
    /\ outstanding_reqs' = outstanding_reqs - 2
    /\ unacked' = Tail(unacked)
    /\ Goto(Callback, "unref")
    /\ UNCHANGED <<log, index, cache, file_size, ref_count, index_flush_reqs,
                   locks, loc, calls, flags, history>>

NoSignal(waiting) == {waiting}

Spans == {Span(off, n) : off \in Bytes, n \in 1 .. FileLen} \ {{}}

EndOf(span) == Max(span) + 1

\* gdpfs_file_write reads info->file_size and computes the new one.  While a
\* read runs, a write that starts is one whose bytes the read may return.
StartWrite(w, span) ==
    /\ pc[w] = "idle"
    /\ writes < MaxWrites
    /\ InodeLock => Idle(Writers)
    /\ writes' = writes + 1
    /\ loc' = [t \in Threads |->
                 IF t = w
                 THEN [NoLocals EXCEPT !.span = span, !.id = writes + 2,
                                       !.size = Max({file_size, EndOf(span)})]
                 ELSE IF t \in Readers /\ pc[t] # "idle"
                 THEN [loc[t] EXCEPT !.ok = [b \in Bytes |->
                           IF b \in span THEN @[b] \cup {writes + 2} ELSE @[b]]]
                 ELSE loc[t]]
    /\ Goto(w, "size")
    /\ UNCHANGED <<log, index, cache, file_size, counts, locks, unacked, reads,
                   evicts, flags, history>>

\* info->file_size = max(...), with no lock held.
StoreSize(w) ==
    /\ pc[w] = "size"
    /\ file_size' = loc[w].size
    /\ Goto(w, "ref")
    /\ UNCHANGED <<log, index, cache, counts, locks, unacked, loc, calls, flags,
                   history>>

\* do_write copies info into the record and takes a reference for the callback.
RefFile(w) ==
    /\ pc[w] = "ref"
    /\ loc' = [loc EXCEPT ![w].size = file_size]
    /\ ref_count' = ref_count + 1
    /\ Goto(w, "count")
    /\ UNCHANGED <<log, index, cache, file_size, outstanding_reqs,
                   index_flush_reqs, locks, unacked, calls, flags, history>>

CountRequest(w) ==
    /\ pc[w] = "count"
    /\ index_flush_lock = NoThread
    /\ outstanding_reqs' = outstanding_reqs + 1
    /\ Goto(w, IF use_cache THEN "fill" ELSE "lock")
    /\ UNCHANGED <<log, index, cache, file_size, ref_count, index_flush_reqs,
                   locks, unacked, loc, calls, flags, history>>

\* The cache is written under cache_lock, which stays held until the index is
\* locked: cache and log see two writes in the same order.
WriteCache(w) ==
    /\ pc[w] = "fill"
    /\ cache_lock = NoThread
    /\ cache_lock' = w
    /\ cache' = FillCache(cache, loc[w].span, [b \in Bytes |-> loc[w].id])
    /\ misfilled' = (misfilled \/ RoundsUp(loc[w].span, cache'))
    /\ Goto(w, "lock")
    /\ UNCHANGED <<log, index, file_size, counts, figtree_lock,
                   index_flush_lock, flush_waiters, unacked, loc, calls, flags,
                   skipped>>

LockIndex(w) ==
    /\ pc[w] = "lock"
    /\ figtree_lock = NoThread
    /\ figtree_lock' = w
    /\ cache_lock' = IF cache_lock = w THEN NoThread ELSE cache_lock
    /\ Goto(w, "index")
    /\ UNCHANGED <<log, index, cache, file_size, counts, index_flush_lock,
                   flush_waiters, unacked, loc, calls, flags, history>>

\* The effect of ft_write on the abstract index.
FtWrite(span, r) == [b \in Bytes |-> IF b \in span THEN r ELSE figtree[b]]

IndexWrite(w) ==
    /\ pc[w] = "index"
    /\ last_recno' = last_recno + 1
    /\ figtree' = FtWrite(loc[w].span, last_recno + 1)
    /\ dirty' = TRUE
    /\ Goto(w, "append")
    /\ UNCHANGED <<log, cache, file_size, counts, locks, unacked, loc, calls,
                   flags, history>>

AppendRecord(w) ==
    /\ pc[w] = "append"
    /\ log' = Append(log, DataRec(loc[w].span, loc[w].id, loc[w].size))
    /\ unacked' = Append(unacked, "data")
    /\ figtree_lock' = NoThread
    /\ loc' = [loc EXCEPT ![w] = NoLocals]
    /\ Goto(w, "idle")
    /\ UNCHANGED <<index, cache, file_size, counts, cache_lock,
                   index_flush_lock, flush_waiters, calls, flags, history>>
-----------------------------------------------------------------------------
\* The value a write finished before now left at b: the last record of b.
LastRecord(b) == Max({0} \cup {r \in DOMAIN log : b \in log[r].span})

Committed(b) == IF LastRecord(b) = 0 THEN Zero ELSE log[LastRecord(b)].id

InFlight(b) == {loc[w].id : w \in {v \in Writers : pc[v] # "idle" /\ b \in loc[v].span}}

\* do_read cuts the range at the file size it sees; a read that starts past it
\* returns nothing.  ok collects the values the read may return at each byte.
StartRead(r, span) ==
    /\ pc[r] = "idle"
    /\ reads < MaxReads
    /\ Min(span) < file_size
    /\ reads' = reads + 1
    /\ loc' = [loc EXCEPT ![r] =
                 [NoLocals EXCEPT !.span = {b \in span : b < file_size},
                                  !.ok = [b \in Bytes |-> {Committed(b)} \cup InFlight(b)]]]
    /\ Goto(r, IF use_cache THEN "check" ELSE "miss")
    /\ UNCHANGED <<log, index, cache, file_size, counts, locks, unacked, writes,
                   evicts, flags, history>>

ReadHit(r) ==
    /\ pc[r] = "check"
    /\ cache_lock = NoThread
    /\ CacheHit(cache, new_file, loc[r].span)
    /\ loc' = [loc EXCEPT ![r].buf = [b \in Bytes |-> CacheByte(cache, b)]]
    /\ Goto(r, "idle")
    /\ UNCHANGED <<log, index, cache, file_size, counts, locks, unacked, calls,
                   flags, history>>

ReadMiss(r) ==
    /\ pc[r] = "check"
    /\ cache_lock = NoThread
    /\ ~CacheHit(cache, new_file, loc[r].span)
    /\ Goto(r, "miss")
    /\ UNCHANGED <<log, index, cache, file_size, counts, locks, unacked, loc,
                   calls, flags, history>>

\* The index is walked and every record read with figtree_lock held.
ReadLog(r) ==
    /\ pc[r] = "miss"
    /\ figtree_lock = NoThread
    /\ loc' = [loc EXCEPT ![r].buf = [b \in Bytes |-> IndexByte(b)]]
    /\ Goto(r, "refill")
    /\ UNCHANGED <<log, index, cache, file_size, counts, locks, unacked, calls,
                   flags, history>>

\* Did a write of one of its bytes run while the read did?
Overlapped(r) == \E b \in loc[r].span : Cardinality(loc[r].ok[b]) > 1

\* What was read goes to the cache, under cache_lock only; with the cache off
\* gdpfs_file_fill_cache refuses and do_read ignores that.
FillFromRead(r) ==
    /\ pc[r] = "refill"
    /\ cache_lock = NoThread
    /\ cache' = IF use_cache THEN FillCache(cache, loc[r].span, loc[r].buf) ELSE cache
    /\ misfilled' = (misfilled \/ RoundsUp(loc[r].span, cache') \/ (use_cache /\ Overlapped(r)))
    /\ Goto(r, "idle")
    /\ UNCHANGED <<log, index, file_size, counts, locks, unacked, loc, calls,
                   flags, skipped>>
-----------------------------------------------------------------------------
\* The file falls off the recently closed list and _file_dealloc begins.  It may
\* have been opened again since: nothing stops reads and writes meanwhile.
StartEvict(e) ==
    /\ pc[e] = "idle"
    /\ evicts < MaxEvicts
    /\ evicts' = evicts + 1
    /\ Goto(e, "wait")
    /\ UNCHANGED <<log, index, cache, file_size, counts, locks, unacked, loc,
                   writes, reads, flags, history>>

\* _file_dealloc sleeps while an append is outstanding.
WaitOutstanding(e) ==
    /\ pc[e] = "wait" /\ e \notin flush_waiters
    /\ index_flush_lock = NoThread
    /\ outstanding_reqs # 0
    /\ flush_waiters' = flush_waiters \cup {e}
    /\ UNCHANGED <<log, index, cache, file_size, counts, cache_lock,
                   figtree_lock, index_flush_lock, unacked, pc, loc, calls, flags,
                   history>>

SpuriousWakeup(e) ==
    /\ e \in flush_waiters
    /\ flush_waiters' = flush_waiters \ {e}
    /\ UNCHANGED <<log, index, cache, file_size, counts, cache_lock,
                   figtree_lock, index_flush_lock, unacked, pc, loc, calls, flags,
                   history>>

\* Once none is, _file_chkpt copies the file size into its record; it keeps
\* index_flush_lock until the record is appended.
BeginCheckpoint(e) ==
    /\ pc[e] = "wait" /\ e \notin flush_waiters
    /\ index_flush_lock = NoThread
    /\ outstanding_reqs = 0
    /\ index_flush_lock' = e
    /\ loc' = [loc EXCEPT ![e].size = file_size]
    /\ Goto(e, "collect")
    /\ UNCHANGED <<log, index, cache, file_size, counts, cache_lock,
                   figtree_lock, flush_waiters, unacked, calls, flags, history>>

\* get_dirty numbers the nodes with ++last_recno; then figtree_lock is free.
\* With nothing dirty no record is appended and _file_chkpt returns.
CollectDirty(e) ==
    /\ pc[e] = "collect"
    /\ figtree_lock = NoThread
    /\ dirty
    /\ last_recno' = last_recno + 1
    /\ dirty' = FALSE
    /\ loc' = [loc EXCEPT ![e].buf = figtree]
    /\ Goto(e, "ckpt")
    /\ UNCHANGED <<log, figtree, cache, file_size, counts, locks, unacked,
                   calls, flags, history>>

CollectNothing(e) ==
    /\ pc[e] = "collect"
    /\ figtree_lock = NoThread
    /\ ~dirty
    /\ last_recno' = last_recno + 1
    /\ index_flush_lock' = NoThread
    /\ skipped' = TRUE
    /\ Goto(e, "idle")
    /\ UNCHANGED <<log, figtree, dirty, cache, file_size, counts, cache_lock,
                   figtree_lock, flush_waiters, unacked, loc, calls, flags, misfilled>>

AppendCheckpoint(e) ==
    /\ pc[e] = "ckpt"
    /\ index_flush_reqs' = index_flush_reqs + 1
    /\ log' = Append(log, CkptRec(loc[e].buf, loc[e].size))
    /\ unacked' = Append(unacked, "ckpt")
    /\ index_flush_lock' = NoThread
    /\ loc' = [loc EXCEPT ![e] = NoLocals]
    /\ Goto(e, "idle")
    /\ UNCHANGED <<index, cache, file_size, ref_count, outstanding_reqs,
                   cache_lock, figtree_lock, flush_waiters, calls, flags, history>>
-----------------------------------------------------------------------------
\* ep_thr_cond_signal: one of the waiting threads, if any, wakes up.
AfterSignal(waiting) ==
    IF waiting = {} THEN {{}} ELSE {waiting \ {t} : t \in waiting}

\* free_fileref, the callback of a data append: the request is over, then the
\* reference goes.  The open handle keeps ref_count above zero.
AckWrite ==
    /\ pc[Callback] = "idle"
    /\ unacked # << >> /\ Head(unacked) = "data"
    /\ index_flush_lock = NoThread
    /\ outstanding_reqs' = outstanding_reqs - 1
    /\ flush_waiters' \in IF outstanding_reqs = 1 THEN AfterSignal(flush_waiters)
                          ELSE {flush_waiters}
    /\ unacked' = Tail(unacked)
    /\ Goto(Callback, "unref")
    /\ UNCHANGED <<log, index, cache, file_size, ref_count, index_flush_reqs,
                   cache_lock, figtree_lock, index_flush_lock, loc, calls, flags,
                   history>>

UnrefFile ==
    /\ pc[Callback] = "unref"
    /\ ref_count' = ref_count - 1
    /\ Goto(Callback, "idle")
    /\ UNCHANGED <<log, index, cache, file_size, outstanding_reqs,
                   index_flush_reqs, locks, unacked, loc, calls, flags, history>>

\* _file_chkpt_finish: the file is referenced, so it is not deallocated.
AckCheckpoint ==
    /\ pc[Callback] = "idle"
    /\ unacked # << >> /\ Head(unacked) = "ckpt"
    /\ index_flush_lock = NoThread
    /\ index_flush_reqs' = index_flush_reqs - 1
    /\ unacked' = Tail(unacked)
    /\ UNCHANGED <<log, index, cache, file_size, ref_count, outstanding_reqs,
                   locks, pc, loc, calls, flags, history>>

\* Every call is over and every event delivered.
Done ==
    /\ Idle(Threads) /\ unacked = << >>
    /\ UNCHANGED vars

WriterStep(w) ==
    \/ StoreSize(w) \/ RefFile(w) \/ CountRequest(w) \/ WriteCache(w)
    \/ LockIndex(w) \/ IndexWrite(w) \/ AppendRecord(w)
ReaderStep(r) == ReadHit(r) \/ ReadMiss(r) \/ ReadLog(r) \/ FillFromRead(r)
EvictorStep(e) ==
    \/ WaitOutstanding(e) \/ BeginCheckpoint(e)
    \/ CollectDirty(e) \/ CollectNothing(e) \/ AppendCheckpoint(e)
CallbackStep == AckWrite \/ UnrefFile \/ AckCheckpoint

Next ==
    \/ \E w \in Writers : WriterStep(w) \/ \E span \in Spans : StartWrite(w, span)
    \/ \E r \in Readers : ReaderStep(r) \/ \E span \in Spans : StartRead(r, span)
    \/ \E e \in Evictors : EvictorStep(e) \/ StartEvict(e) \/ SpuriousWakeup(e)
    \/ CallbackStep
    \/ Done

Spec == Init /\ [][Next]_vars

\* A thread that can run runs, and the GDP answers every append.  With finitely
\* many calls weak fairness is enough: a lock is not contended for ever.
Fairness ==
    /\ \A w \in Writers : WF_vars(WriterStep(w))
    /\ \A r \in Readers : WF_vars(ReaderStep(r))
    /\ \A e \in Evictors : WF_vars(EvictorStep(e))
    /\ WF_vars(CallbackStep)

FairSpec == Spec /\ Fairness
-----------------------------------------------------------------------------
\* Whenever the index is unlocked it names, for every byte, the last record of
\* the log that holds that byte: the record numbers the code predicts when it
\* indexes a write are the ones the log then gives.
IndexFindsMostRecent ==
    figtree_lock = NoThread => \A b \in Bytes : figtree[b] = LastRecord(b)

\* The same until an eviction finds nothing to append (_file_chkpt has then used
\* up a record number that the log never gives out): appends, acknowledgements
\* and checkpoints of any number of threads keep the prediction exact.
IndexExactUntilSkip == ~skipped => IndexFindsMostRecent

\* While no call runs, every byte the cache holds is the byte the index finds
\* in the log: reading from the cache or from the log is the same.
CacheMirrorsFile ==
    Idle(Threads) => \A b \in Bytes : cache[b] # Hole => cache[b] = IndexByte(b)

\* The same until the cache is misfilled: until a read that overlapped a write of
\* one of its bytes fills the cache, or the rest of a block is taken for cached;
\* and until a checkpoint found nothing to append, as the index is wrong then.
\* Two writers, or readers beside writers of other bytes, leave the cache and
\* the log with the same order of writes.
CacheExactUntilMisfilled == ~misfilled /\ ~skipped => CacheMirrorsFile

\* A finished read returned, at each byte, the last value written before it
\* started or the value of a write it overlapped, from the cache or from the log;
\* until the cache is misfilled or a checkpoint found nothing to append.
ReadsRegular ==
    ~misfilled /\ ~skipped => \A r \in Readers : pc[r] = "idle" =>
        \A b \in loc[r].span : loc[r].buf[b] \in loc[r].ok[b]

\* What open_file would rebuild from the log: the newest checkpoint's tree with
\* the later records applied, and the size in the last record.
NewestCkpt == Max({0} \cup {r \in DOMAIN log : log[r].kind = "ckpt"})
RebuiltIndex(b) ==
    LET later == {r \in DOMAIN log : r > NewestCkpt /\ b \in log[r].span}
    IN  IF later # {} THEN Max(later)
        ELSE IF NewestCkpt # 0 THEN log[NewestCkpt].tree[b] ELSE 0

\* While no call runs, reopening the file from its log gives the index and the
\* size it has in memory: an eviction followed by an open loses nothing.  (The
\* index only until a checkpoint found nothing to append.)
ReopenRestoresFile ==
    Idle(Threads) =>
        /\ ~skipped => \A b \in Bytes : RebuiltIndex(b) = figtree[b]
        /\ log[Len(log)].size = file_size

\* outstanding_reqs, ref_count and index_flush_reqs count exactly the appends
\* that are under way or not yet acknowledged, so an eviction that waits for
\* them waits for all of them and for nothing else.
Pending(kind) == Cardinality({i \in DOMAIN unacked : unacked[i] = kind})
CountsExact ==
    LET at(labels) == Cardinality({w \in Writers : pc[w] \in labels})
        unref == IF pc[Callback] = "unref" THEN 1 ELSE 0
        counted == {"fill", "lock", "index", "append"}
    IN  /\ outstanding_reqs = at(counted) + Pending("data")
        /\ ref_count = 1 + at(counted \cup {"count"}) + Pending("data") + unref
        /\ index_flush_reqs = Pending("ckpt")

\* Every call returns and every event is handled.
CallsReturn ==
    /\ \A t \in Threads : pc[t] # "idle" ~> pc[t] = "idle"
    /\ unacked # << >> ~> unacked = << >>
=============================================================================
