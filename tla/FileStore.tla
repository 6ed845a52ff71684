------------------------------ MODULE FileStore ------------------------------
(***************************************************************************)
(* One file of gdpfs_file.c from its creation on, over any number of runs  *)
(* of the program: what is in memory, in the local cache and in the log,   *)
(* and what is left of it when the program stops, dies or cannot append.   *)
(* Calls are atomic here: FileIO and FileTable have the steps inside them. *)
(*                                                                         *)
(* The log is the external GDP log.  It takes the appends in the order     *)
(* they were sent, answers each with an event, and a read sent after an    *)
(* append sees it.  The index is abstract: byte -> record number.          *)
(***************************************************************************)
EXTENDS SparseCache, Sequences, FiniteSetsExt

CONSTANTS
    Data,           \* what can be written to a byte
    Perms,          \* permissions
    Modes,          \* of "RW" and "RO", the modes the program is started in
    CacheModes,     \* of TRUE and FALSE, with and without the cache
    Flaky,          \* can the GDP refuse an append, or fail it later?
    MaxRecords      \* bound: record numbers, of the log and of appends to it

ASSUME FileStoreAssumption ==
    /\ Data \subseteq Nat \ {0} /\ Flaky \in BOOLEAN /\ MaxRecords \in Nat \ {0}
    /\ Modes \subseteq {"RW", "RO"} /\ CacheModes \subseteq BOOLEAN

VARIABLES
    log,            \* the records the GDP has taken
    sent,           \* the appends it has not answered yet
    up,             \* "run", "stop" (in stop_gdpfs_file), or "dead" by an assertion
    fs_mode, use_cache,
    file,           \* the gdpfs_file_t
    place,          \* "absent" from the hash, "held" by references, "listed" as
                    \* recently closed, or "leaving" that list
    handle,         \* does FUSE have it open?
    cache,          \* the local sparse file
    harmed,         \* history: has one of the defects named below shown?
    stuck           \* history: has an append been refused in this run?

memory == <<file, place, handle>>
flags == <<fs_mode, use_cache>>
history == <<harmed, stuck>>
vars == <<log, sent, up, flags, memory, cache, history>>
-----------------------------------------------------------------------------
\* Records carry the size and permissions the file has after them.
NoIndex == [b \in Bytes |-> 0]
DataRec(span, x, f) == [kind |-> "data", span |-> span, x |-> x,
                        size |-> f.size, perm |-> f.perm, tree |-> NoIndex]
CkptRec(f) == [kind |-> "ckpt", span |-> {}, x |-> 0,
               size |-> f.size, perm |-> f.perm, tree |-> f.tree]

NoFile == [size |-> 0, perm |-> {}, tree |-> NoIndex, last_recno |-> 0, dirty |-> FALSE,
           new_file |-> FALSE, outstanding_reqs |-> 0, index_flush_reqs |-> 0]

Garbage == -1

\* A read of the log where `tree` is the index of its records `l`.
LogByte(l, tree, b) ==
    IF tree[b] = 0 THEN Zero
    ELSE IF tree[b] \in DOMAIN l /\ b \in l[tree[b]].span THEN l[tree[b]].x
    ELSE Garbage

\* The index open_file makes: the newest checkpoint's, with the records after it.
Newest(l) == Max({0} \cup {r \in DOMAIN l : l[r].kind = "ckpt"})
LaterThan(l, n) == {r \in DOMAIN l : r > n /\ l[r].span # {}}
Rebuilt(l) ==
    LET n == Newest(l)
        later == LaterThan(l, n)
    IN  [b \in Bytes |->
            LET holders == {r \in later : b \in l[r].span}
            IN  IF holders # {} THEN Max(holders) ELSE IF n = 0 THEN 0 ELSE l[n].tree[b]]

Sent == log \o sent
IndexByte(b) == LogByte(Sent, file.tree, b)

\* do_read of one byte: from the cache, if that has it, or by the index.
ReadByte(b) ==
    IF use_cache /\ CacheHit(cache, file.new_file, {b}) THEN CacheByte(cache, b)
    ELSE IndexByte(b)

Spans == {Span(off, n) : off \in Bytes, n \in 1 .. FileLen} \ {{}}

TypeOK ==
    /\ \A l \in {log, sent} : \A r \in DOMAIN l :
           l[r].span \subseteq Bytes /\ l[r].size \in 0 .. FileLen
    /\ Len(log) + Len(sent) <= MaxRecords
    /\ up \in {"run", "stop", "dead"} /\ fs_mode \in Modes /\ use_cache \in CacheModes
    /\ place \in {"absent", "held", "listed", "leaving"} /\ handle \in BOOLEAN
    /\ file.size \in 0 .. FileLen /\ file.tree \in [Bytes -> Nat]
    /\ {file.last_recno, file.outstanding_reqs, file.index_flush_reqs} \subseteq Nat
    /\ cache \in [Bytes -> Data \cup {Zero, Hole, Garbage}]
    /\ harmed \in BOOLEAN /\ stuck \in BOOLEAN

Init ==
    /\ log = << >> /\ sent = << >>
    /\ up = "run" /\ fs_mode \in Modes /\ use_cache \in CacheModes
    /\ file = NoFile /\ place = "absent" /\ handle = FALSE
    /\ cache = EmptyCache
    /\ harmed = FALSE /\ stuck = FALSE
-----------------------------------------------------------------------------
\* gdpfs_log_append: an append is under way, or refused at once.
Refused == fs_mode = "RO" \/ Flaky

Room == Len(Sent) < MaxRecords /\ file.last_recno < MaxRecords

\* Filling these bytes brings others of their block into the cache, as zeros.
FilledWrong(filled, span, tree) ==
    \E b \in Bytes \ span : cache[b] = Hole /\ filled[b] \notin {Hole, LogByte(Sent, tree, b)}

\* do_write: the cache, the index and the counts are brought up to date, and then
\* the record is appended; the file `f` has its new size and permissions already.
\* What harms the file: the write is indexed under a number the log will not give
\* it; the append is refused and nothing is taken back; a block is filled up wrong.
DoWrite(f, span, x) ==
    LET rc == f.last_recno + 1
        filled == IF use_cache THEN FillCache(cache, span, [b \in Bytes |-> x]) ELSE cache
    IN  /\ Room
        /\ file' = [f EXCEPT !.last_recno = rc,
                             !.tree = [b \in Bytes |-> IF b \in span THEN rc ELSE @[b]],
                             !.dirty = @ \/ span # {},
                             !.outstanding_reqs = @ + 1]
        /\ cache' = filled
        /\ \/ /\ fs_mode = "RW"
              /\ sent' = Append(sent, DataRec(span, x, f))
              /\ harmed' = (\/ harmed
                            \/ span # {} /\ rc # Len(Sent) + 1
                            \/ FilledWrong(filled, span, f.tree)
                            \/ \E b \in Bytes \ span : b >= file.size /\ b < f.size
                                                         /\ ReadByte(b) # Zero)
              /\ UNCHANGED stuck
           \/ /\ Refused
              /\ harmed' = TRUE /\ stuck' = TRUE
              /\ UNCHANGED sent

\* gdpfs_file_create, and gdpfs_file_open_init for the root directory, whose log is
\* made elsewhere: the first record, then an empty index.  Only the first is strict.
Create(perm, strict) ==
    LET f == [NoFile EXCEPT !.perm = perm, !.new_file = strict]
    IN  /\ up = "run" /\ place = "absent" /\ Sent = << >>
        /\ file' = [f EXCEPT !.last_recno = 1, !.dirty = TRUE, !.outstanding_reqs = 1]
        /\ place' = "held" /\ handle' = TRUE
        /\ \/ fs_mode = "RW" /\ sent' = <<DataRec({}, 0, f)>> /\ UNCHANGED <<harmed, stuck>>
           \/ Refused /\ harmed' = TRUE /\ stuck' = TRUE /\ UNCHANGED sent
        /\ UNCHANGED <<log, up, flags, cache>>

\* Bound: a file that is harmed is only closed, and no append to it fails any more.
InUse == up = "run" /\ handle /\ ~harmed

\* gdpfs_file_write
Write(span, x) ==
    /\ InUse
    /\ DoWrite([file EXCEPT !.size = Max({@, Max(span) + 1})], span, x)
    /\ UNCHANGED <<log, up, flags, place, handle>>

\* gdpfs_file_ftruncate: whatever size it is asked for, the size becomes 0.
Truncate ==
    /\ InUse
    /\ DoWrite([file EXCEPT !.size = 0], {}, 0)
    /\ UNCHANGED <<log, up, flags, place, handle>>

\* gdpfs_file_set_perm
SetPerm(perm) ==
    /\ InUse
    /\ DoWrite([file EXCEPT !.perm = perm], {}, 0)
    /\ UNCHANGED <<log, up, flags, place, handle>>

\* do_read: a miss reads the log and fills the cache.
Read(span) ==
    LET want == {b \in span : b < file.size}
        filled == FillCache(cache, want, [b \in Bytes |-> IndexByte(b)])
    IN  /\ InUse /\ use_cache /\ want # {} /\ ~CacheHit(cache, file.new_file, want)
        /\ cache' = filled
        /\ harmed' = (harmed \/ FilledWrong(filled, want, file.tree))
        /\ UNCHANGED <<log, sent, up, flags, memory, stuck>>
-----------------------------------------------------------------------------
\* open_file finds the file in the hash ...
Revive ==
    /\ up = "run" /\ ~handle /\ place # "absent" /\ ~harmed
    /\ place' = "held" /\ handle' = TRUE
    /\ UNCHANGED <<log, sent, up, flags, file, cache, history>>

\* ... or loads it.  The records after the checkpoint go to the index and to the
\* cache; with the cache off that is an assertion that fails.
Load ==
    LET later == LaterThan(log, Newest(log))
        span == UNION {log[r].span : r \in later}
        filled == FillCache(cache, span,
                      [b \in Bytes |-> LogByte(log, Rebuilt(log), b)])
    IN  /\ up = "run" /\ place = "absent" /\ log # << >> /\ ~harmed
        /\ IF ~use_cache /\ later # {}
           THEN up' = "dead" /\ UNCHANGED <<memory, cache, harmed>>
           ELSE /\ file' = [NoFile EXCEPT
                               !.size = log[Len(log)].size, !.perm = log[Len(log)].perm,
                               !.tree = Rebuilt(log), !.last_recno = Len(log),
                               !.dirty = Newest(log) = 0 \/ later # {}]
                /\ place' = "held" /\ handle' = TRUE
                /\ cache' = IF use_cache THEN filled ELSE cache
                /\ harmed' = (harmed \/ (use_cache /\ FilledWrong(filled, span, Rebuilt(log))))
                /\ UNCHANGED up
        /\ UNCHANGED <<log, sent, flags, stuck>>

\* gdpfs_file_close: the last reference puts the file on the list of closed ones.
Close ==
    /\ up = "run" /\ handle
    /\ handle' = FALSE
    /\ place' = IF file.outstanding_reqs = 0 THEN "listed" ELSE "held"
    /\ UNCHANGED <<log, sent, up, flags, file, cache, history>>

\* _file_chkpt: with nothing dirty the number is used up and nothing is appended;
\* when the append is refused an assertion fails.
Chkpt(next) ==
    /\ Room
    /\ IF ~file.dirty
       THEN /\ file' = [file EXCEPT !.last_recno = @ + 1]
            /\ up' = next
            /\ UNCHANGED sent
       ELSE /\ file' = [file EXCEPT !.last_recno = @ + 1, !.dirty = FALSE,
                                    !.index_flush_reqs = @ + 1]
            /\ \/ fs_mode = "RW" /\ sent' = Append(sent, CkptRec(file)) /\ up' = next
               \/ Refused /\ up' = "dead" /\ UNCHANGED sent

\* The file falls off the list: _file_dealloc.
Evict ==
    /\ up = "run" /\ place = "listed"
    /\ Chkpt("run")
    /\ place' = "leaving"
    /\ UNCHANGED <<log, flags, handle, cache, history>>

\* stop_gdpfs_file checkpoints every file in the hash, and waits 10 seconds.
Stop ==
    /\ up = "run"
    /\ IF place = "absent" THEN up' = "stop" /\ UNCHANGED <<file, sent>>
                           ELSE Chkpt("stop")
    /\ UNCHANGED <<log, flags, place, handle, cache, history>>
-----------------------------------------------------------------------------
\* Slips in Answered: every answer is counted as a write's; no file is listed.
AnsweredAsWrite(kind) ==
    IF up # "run" THEN UNCHANGED <<file, place>>
    ELSE file' = [file EXCEPT !.outstanding_reqs = @ - 1] /\ UNCHANGED place
AnsweredNeverLists(kind) ==
    IF up # "run" THEN UNCHANGED <<file, place>>
    ELSE /\ file' = IF kind = "data" THEN [file EXCEPT !.outstanding_reqs = @ - 1]
                                     ELSE [file EXCEPT !.index_flush_reqs = @ - 1]
         /\ UNCHANGED place

\* free_fileref and _file_chkpt_finish, the callbacks of the appends.
Answered(kind) ==
    LET f == IF kind = "data" THEN [file EXCEPT !.outstanding_reqs = @ - 1]
                              ELSE [file EXCEPT !.index_flush_reqs = @ - 1]
    IN  IF up # "run" THEN UNCHANGED <<file, place>>
        ELSE IF kind = "ckpt" /\ f.index_flush_reqs = 0 /\ place = "leaving"
        THEN file' = NoFile /\ place' = "absent"
        ELSE /\ file' = f
             /\ place' = IF kind = "data" /\ f.outstanding_reqs = 0 /\ ~handle
                         THEN "listed" ELSE place

\* The GDP takes an append (external) ...
Deliver ==
    /\ sent # << >>
    /\ log' = Append(log, Head(sent)) /\ sent' = Tail(sent)
    /\ Answered(Head(sent).kind)
    /\ UNCHANGED <<up, flags, handle, cache, history>>

\* ... or reports that it failed.  The later ones are taken all the same.
Fail ==
    /\ Flaky /\ sent # << >> /\ ~harmed
    /\ sent' = Tail(sent)
    /\ Answered(Head(sent).kind)
    /\ harmed' = TRUE
    /\ UNCHANGED <<log, up, flags, handle, cache, stuck>>

\* Slips in Restart: the cache is not emptied.
RestartKeepsCache ==
    /\ up' = "run" /\ fs_mode' \in Modes /\ use_cache' \in CacheModes
    /\ sent' = << >>
    /\ file' = NoFile /\ place' = "absent" /\ handle' = FALSE
    /\ stuck' = FALSE
    /\ UNCHANGED <<log, cache, harmed>>

\* The program is over, at any moment, and is started again: appends on their way
\* may be lost, and init_gdpfs_file empties the cache.
Restart ==
    /\ up' = "run" /\ fs_mode' \in Modes /\ use_cache' \in CacheModes
    /\ sent' = << >>
    /\ file' = NoFile /\ place' = "absent" /\ handle' = FALSE
    /\ cache' = IF use_cache' THEN EmptyCache ELSE cache
    /\ stuck' = FALSE
    /\ UNCHANGED <<log, harmed>>

Next ==
    \/ \E p \in Perms : SetPerm(p) \/ \E strict \in BOOLEAN : Create(p, strict)
    \/ \E span \in Spans : Read(span) \/ \E x \in Data : Write(span, x)
    \/ Truncate \/ Revive \/ Load \/ Close \/ Evict \/ Stop
    \/ Deliver \/ Fail \/ Restart

Spec == Init /\ [][Next]_vars

\* The GDP answers every append as long as the program runs.
FairSpec == Spec /\ WF_vars(Deliver)
-----------------------------------------------------------------------------
\* The versions of the file: what its log leaves of it, and what its user reads now.
InFile(size) == {b \in Bytes : b < size}
LogVersion(l) ==
    IF l = << >> THEN [type |-> "new", size |-> 0, perm |-> {}, bytes |-> [b \in {} |-> 0]]
    ELSE LET tree == Rebuilt(l)
         IN  [type |-> "file", size |-> l[Len(l)].size, perm |-> l[Len(l)].perm,
              bytes |-> [b \in InFile(l[Len(l)].size) |-> LogByte(l, tree, b)]]
MemoryVersion ==
    [type |-> "file", size |-> file.size, perm |-> file.perm,
     bytes |-> [b \in InFile(file.size) |-> ReadByte(b)]]


\* The version its user has now, and those that were current before each append under way.
NowVersion == IF place # "absent" /\ up = "run" THEN MemoryVersion ELSE LogVersion(Sent)
BeforeVersions == [i \in 1 .. Len(sent) |-> LogVersion(SubSeq(Sent, 1, Len(log) + i - 1))]

A == INSTANCE AbstractFile WITH
        unsafe <- Len(sent), now <- NowVersion, before <- BeforeVersions, intact <- ~harmed

\* The file in memory, in the cache and in the log implements the abstract file:
\* reading, closing, eviction, loading, stopping and dying change nothing a user
\* reads but for a suffix of the calls that the GDP had not taken - until a write is
\* indexed under a number the log does not give it, an append is refused or fails, a
\* block of the cache is filled up, or a write goes past bytes truncated before.
ImplementsFile == A!Spec

\* A closed file whose appends are all answered is on the list of closed files, or
\* on its way out: unless an append was refused, whose reference nobody gives back.
ClosedFileListed ==
    (up = "run" /\ place = "held" /\ ~handle) ~>
        (up # "run" \/ handle \/ place # "held" \/ stuck)
=============================================================================
