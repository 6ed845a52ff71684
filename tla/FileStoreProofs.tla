--------------------------- MODULE FileStoreProofs ---------------------------
(***************************************************************************)
(* The file in memory, in the local cache and in its log implements the    *)
(* abstract file, for files of any length and logs of any length.          *)
(*                                                                         *)
(* StoreInv has the types and the counts: a file's counts cover its        *)
(* appends under way, and a file out of memory has none.  That is what     *)
(* lets a load take the log for everything that was ever sent.             *)
(*                                                                         *)
(* FileInv is the heart of it.  While nothing harmed the file, the index   *)
(* in memory is the one open_file would rebuild from the log with all the  *)
(* appends under way (MemoryIsLog), and every byte of the cache is the one *)
(* that index leads to; in a file created in this session that includes    *)
(* the holes, which count as zeros (CacheIsLog).  A checkpoint's index     *)
(* names only earlier records (TreesLookBack), so a crash, which cuts the  *)
(* log, leaves no index that leads past its end.                           *)
(*                                                                         *)
(* With FileInv in both states the current version is LogVersion(Sent)     *)
(* (NowIsLog), and each step is a step of the abstract file: an append is  *)
(* Change, the GDP's taking one is Settle, a restart is Crash, a harmful   *)
(* step is Harm, and everything else is a stutter.                         *)
(***************************************************************************)
EXTENDS FileStore, CountingFacts, SequenceTheorems
-----------------------------------------------------------------------------
\* What the variables hold.
Records ==
    [kind : {"data", "ckpt"}, span : SUBSET Bytes, x : Data \cup {0}, size : 0 .. FileLen,
     perm : Perms \cup {{}}, tree : [Bytes -> Nat]]

FileType ==
    [size : 0 .. FileLen, perm : Perms \cup {{}}, tree : [Bytes -> Nat], last_recno : Nat,
     dirty : BOOLEAN, new_file : BOOLEAN, outstanding_reqs : Nat, index_flush_reqs : Nat]

CacheValues == Data \cup {Zero, Hole, Garbage}

StoreTypes ==
    /\ log \in Seq(Records) /\ sent \in Seq(Records)
    /\ Len(log) + Len(sent) <= MaxRecords
    /\ up \in {"run", "stop", "dead"} /\ fs_mode \in Modes /\ use_cache \in CacheModes
    /\ place \in {"absent", "held", "listed", "leaving"} /\ handle \in BOOLEAN
    /\ file \in FileType
    /\ cache \in [Bytes -> CacheValues]
    /\ harmed \in BOOLEAN /\ stuck \in BOOLEAN

\* The counts of a file in memory cover the appends under way, and a file that is
\* not in memory has none.
Kinds(s) == [i \in DOMAIN s |-> s[i].kind]
UnderWay(kind) == Cardinality(Places(Kinds(sent), kind))

CountsCover ==
    up = "run" =>
        /\ file.outstanding_reqs >= UnderWay("data")
        /\ file.index_flush_reqs >= UnderWay("ckpt")
        /\ place = "absent" => sent = << >> /\ file = NoFile
        /\ place \in {"listed", "leaving"} => file.outstanding_reqs = 0 /\ ~handle
        /\ handle => place = "held"

StoreInv == StoreTypes /\ CountsCover

\* What the records up to some point say of a byte.
SentByte(l, b) == LogByte(l, Rebuilt(l), b)

\* The index in a checkpoint names earlier records.
TreesLookBack(l) ==
    \A r \in DOMAIN l : l[r].kind = "ckpt" => \A b \in Bytes : l[r].tree[b] \in 0 .. r - 1

\* The file in memory is the file in the log, and the cache agrees with both.
InMemory == up = "run" /\ place # "absent"

MemoryIsLog ==
    InMemory =>
        /\ Sent # << >>
        /\ file.size = Sent[Len(Sent)].size /\ file.perm = Sent[Len(Sent)].perm
        /\ file.tree = Rebuilt(Sent)

CacheIsLog ==
    up = "run" /\ use_cache =>
        \A b \in Bytes :
            /\ cache[b] # Hole => cache[b] = SentByte(Sent, b)
            /\ cache[b] = Hole /\ file.new_file => SentByte(Sent, b) = Zero

FileInv == ~harmed => TreesLookBack(Sent) /\ MemoryIsLog /\ CacheIsLog
-----------------------------------------------------------------------------
\* The log with the appends under way, when one is added, taken or lost.
LEMMA SentAppend ==
  ASSUME NEW l \in Seq(Records), NEW s \in Seq(Records), NEW rec \in Records
  PROVE  l \o Append(s, rec) = Append(l \o s, rec)
<1>1. l \o s \in Seq(Records) /\ Append(s, rec) = s \o <<rec>> /\ <<rec>> \in Seq(Records)
  BY AppendIsConcat, ConcatProperties
<1>2. Append(l \o s, rec) = (l \o s) \o <<rec>>
  BY <1>1, AppendIsConcat
<1> QED
  BY <1>1, <1>2, ConcatAssociative

LEMMA SentTaken ==
  ASSUME NEW l \in Seq(Records), NEW s \in Seq(Records), s # << >>
  PROVE  Append(l, Head(s)) \o Tail(s) = l \o s
<1>1. Head(s) \in Records /\ Tail(s) \in Seq(Records) /\ <<Head(s)>> \in Seq(Records)
  BY HeadTailProperties
<1>2. Append(l, Head(s)) = l \o <<Head(s)>>
  BY <1>1, AppendIsConcat
<1>3. <<Head(s)>> \o Tail(s) = s
  <2>1. /\ <<Head(s)>> \o Tail(s) \in Seq(Records)
        /\ Len(<<Head(s)>> \o Tail(s)) = 1 + Len(Tail(s))
        /\ \A i \in 1 .. 1 + Len(Tail(s)) :
             (<<Head(s)>> \o Tail(s))[i] = IF i <= 1 THEN Head(s) ELSE Tail(s)[i - 1]
    <3>1. Len(<<Head(s)>>) = 1 /\ <<Head(s)>>[1] = Head(s)
      OBVIOUS
    <3> QED
      BY <1>1, <3>1, ConcatProperties
  <2>2. /\ Len(Tail(s)) = Len(s) - 1 /\ Len(s) \in Nat /\ Head(s) = s[1]
        /\ \A i \in 1 .. Len(Tail(s)) : Tail(s)[i] = s[i + 1]
    BY HeadTailProperties
  <2>3. \A i \in 1 .. Len(s) : (<<Head(s)>> \o Tail(s))[i] = s[i]
    <3> SUFFICES ASSUME NEW i \in 1 .. Len(s)
                 PROVE  (<<Head(s)>> \o Tail(s))[i] = s[i]
      OBVIOUS
    <3>1. CASE i = 1
      BY <2>1, <2>2, <3>1
    <3>2. CASE i # 1
      <4>1. i - 1 \in 1 .. Len(Tail(s)) /\ i \in 1 .. 1 + Len(Tail(s)) /\ ~(i <= 1)
        BY <2>2, <3>2
      <4>2. Tail(s)[i - 1] = s[i - 1 + 1] /\ i - 1 + 1 = i
        BY <2>2, <4>1
      <4> QED
        BY <2>1, <4>1, <4>2
    <3> QED
      BY <3>1, <3>2
  <2> QED
    BY <2>1, <2>2, <2>3, SeqEqual
<1> QED
  BY <1>1, <1>2, <1>3, ConcatAssociative

LEMMA SentFacts ==
  ASSUME StoreTypes
  PROVE  /\ Sent \in Seq(Records) /\ Len(Sent) = Len(log) + Len(sent)
         /\ Len(log) \in Nat /\ Len(sent) \in Nat
         /\ sent = << >> => Sent = log
         /\ Len(sent) = 0 <=> sent = << >>
BY ConcatProperties, ConcatEmptySeq DEF Sent, StoreTypes

\* A prefix of the log stays what it is when a record is added.
LEMMA PrefixKept ==
  ASSUME NEW l \in Seq(Records), NEW rec \in Records, NEW n \in 0 .. Len(l)
  PROVE  SubSeq(Append(l, rec), 1, n) = SubSeq(l, 1, n)
<1>1. Append(l, rec) \in Seq(Records) /\ \A i \in 1 .. Len(l) : Append(l, rec)[i] = l[i]
  BY AppendProperties
<1>2. \A i \in 1 .. n : l[i] \in Records /\ Append(l, rec)[i] = l[i]
  BY <1>1, ElementOfSeq
<1>3. /\ SubSeq(l, 1, n) \in Seq(Records) /\ SubSeq(Append(l, rec), 1, n) \in Seq(Records)
      /\ Len(SubSeq(l, 1, n)) = n /\ Len(SubSeq(Append(l, rec), 1, n)) = n
      /\ \A i \in 1 .. n : SubSeq(l, 1, n)[i] = l[1 + i - 1]
      /\ \A i \in 1 .. n : SubSeq(Append(l, rec), 1, n)[i] = Append(l, rec)[1 + i - 1]
  BY <1>2, SubSeqProperties, SMTT(30)
<1>4. \A i \in 1 .. n : SubSeq(l, 1, n)[i] = SubSeq(Append(l, rec), 1, n)[i]
  BY <1>2, <1>3
<1> QED
  BY <1>3, <1>4, SeqEqual
-----------------------------------------------------------------------------
\* The kinds of the appends under way.
LEMMA RecordFields ==
  ASSUME NEW l \in Seq(Records), NEW r \in DOMAIN l
  PROVE  /\ l[r] \in Records /\ l[r].kind \in {"data", "ckpt"} /\ l[r].span \subseteq Bytes
         /\ l[r].x \in Data \cup {0} /\ l[r].size \in 0 .. FileLen /\ l[r].perm \in Perms \cup {{}}
         /\ l[r].tree \in [Bytes -> Nat]
<1>1. l[r] \in Records
  OBVIOUS
<1> QED
  BY <1>1 DEF Records

LEMMA KindsFacts ==
  ASSUME NEW s \in Seq(Records)
  PROVE  /\ Kinds(s) \in Seq({"data", "ckpt"}) /\ Len(Kinds(s)) = Len(s)
         /\ \A rec \in Records : Kinds(Append(s, rec)) = Append(Kinds(s), rec.kind)
         /\ s # << >> => /\ Kinds(Tail(s)) = Tail(Kinds(s)) /\ Kinds(s) # << >>
                         /\ Head(Kinds(s)) = Head(s).kind /\ Head(s) \in Records
<1>0. \A r \in Records : r.kind \in {"data", "ckpt"}
  BY DEF Records
<1>1. Kinds(s) \in Seq({"data", "ckpt"}) /\ Len(Kinds(s)) = Len(s)
      /\ \A i \in 1 .. Len(s) : Kinds(s)[i] = s[i].kind
  BY <1>0 DEF Kinds
<1>2. ASSUME NEW rec \in Records
      PROVE  Kinds(Append(s, rec)) = Append(Kinds(s), rec.kind)
  BY <1>0, <1>1 DEF Kinds
<1>3. ASSUME s # << >>
      PROVE  /\ Kinds(Tail(s)) = Tail(Kinds(s)) /\ Kinds(s) # << >>
             /\ Head(Kinds(s)) = Head(s).kind /\ Head(s) \in Records
  BY <1>1, <1>3 DEF Kinds
<1> QED
  BY <1>1, <1>2, <1>3

LEMMA CountType ==
  ASSUME StoreTypes, NEW k
  PROVE  UnderWay(k) \in Nat
BY KindsFacts, PlacesFinite DEF StoreTypes, UnderWay

LEMMA CountAppend ==
  ASSUME StoreTypes, NEW rec \in Records, sent' = Append(sent, rec), NEW k
  PROVE  UnderWay(k)' = UnderWay(k) + (IF rec.kind = k THEN 1 ELSE 0)
<1>1. /\ Kinds(sent) \in Seq({"data", "ckpt"}) /\ rec.kind \in {"data", "ckpt"}
      /\ Kinds(sent') = Append(Kinds(sent), rec.kind)
  BY KindsFacts DEF StoreTypes, Records
<1>2. Cardinality(Places(Append(Kinds(sent), rec.kind), k)) =
        Cardinality(Places(Kinds(sent), k)) + (IF rec.kind = k THEN 1 ELSE 0)
  BY <1>1, PlacesAppend
<1>3. UnderWay(k)' = Cardinality(Places(Kinds(sent'), k))
  BY DEF UnderWay, Kinds
<1> QED
  BY <1>1, <1>2, <1>3 DEF UnderWay

LEMMA CountTail ==
  ASSUME StoreTypes, sent # << >>, sent' = Tail(sent), NEW k
  PROVE  /\ UnderWay(k)' = UnderWay(k) - (IF Head(sent).kind = k THEN 1 ELSE 0)
         /\ Head(sent).kind = k => UnderWay(k) >= 1
<1>1. /\ Kinds(sent) \in Seq({"data", "ckpt"}) /\ Kinds(sent) # << >>
      /\ Kinds(sent') = Tail(Kinds(sent)) /\ Head(Kinds(sent)) = Head(sent).kind
  BY KindsFacts DEF StoreTypes
<1>2. Head(sent).kind = k => UnderWay(k) >= 1
  BY <1>1, PlacesHead DEF UnderWay
<1> QED
  BY <1>1, <1>2, PlacesTail DEF UnderWay, Kinds

\* Nothing is under way when nothing of either kind is.
LEMMA CountNone ==
  ASSUME NEW s \in Seq(Records)
  PROVE  /\ s = << >> => \A k : Cardinality(Places(Kinds(s), k)) = 0
         /\ (\A k \in {"data", "ckpt"} : Cardinality(Places(Kinds(s), k)) = 0) => s = << >>
<1>1. ASSUME s = << >>, NEW k PROVE Cardinality(Places(Kinds(s), k)) = 0
  <2>1. Places(Kinds(s), k) = {}
    BY <1>1 DEF Places, Kinds
  <2> QED
    BY <2>1, FS_EmptySet
<1>2. ASSUME s # << >> PROVE \E k \in {"data", "ckpt"} : Cardinality(Places(Kinds(s), k)) # 0
  <2>1. /\ Kinds(s) \in Seq({"data", "ckpt"}) /\ Kinds(s) # << >>
        /\ Head(Kinds(s)) = Head(s).kind /\ Head(s).kind \in {"data", "ckpt"}
    BY <1>2, KindsFacts DEF Records
  <2>2. Cardinality(Places(Kinds(s), Head(s).kind)) >= 1
    BY <2>1, PlacesHead
  <2> QED
    BY <2>1, <2>2
<1> QED
  BY <1>1, <1>2
-----------------------------------------------------------------------------
LEMMA NoFileType == NoFile \in FileType
BY CacheAssumption DEF NoFile, FileType, NoIndex

LEMMA DataRecType ==
  ASSUME NEW span \in SUBSET Bytes, NEW x \in Data \cup {0}, NEW f \in FileType
  PROVE  /\ DataRec(span, x, f) \in Records /\ DataRec(span, x, f).kind = "data"
         /\ DataRec(span, x, f).span = span /\ DataRec(span, x, f).x = x
         /\ DataRec(span, x, f).size = f.size /\ DataRec(span, x, f).perm = f.perm
BY DEF DataRec, Records, FileType, NoIndex

LEMMA CkptRecType ==
  ASSUME NEW f \in FileType
  PROVE  /\ CkptRec(f) \in Records /\ CkptRec(f).kind = "ckpt" /\ CkptRec(f).tree = f.tree
         /\ CkptRec(f).size = f.size /\ CkptRec(f).perm = f.perm /\ CkptRec(f).span = {}
BY DEF CkptRec, Records, FileType

\* What a read of the log gives, and filling the cache with it.
LEMMA LogByteType ==
  ASSUME NEW l \in Seq(Records), NEW tree, NEW b
  PROVE  LogByte(l, tree, b) \in Data \cup {Zero, Garbage}
<1>1. \A r \in DOMAIN l : l[r].x \in Data \cup {0}
  BY RecordFields
<1> QED
  BY <1>1 DEF LogByte, Zero

LEMMA FillCacheType ==
  ASSUME NEW c \in [Bytes -> CacheValues], NEW span \in SUBSET Bytes,
         NEW data, \A b \in Bytes : data[b] \in CacheValues
  PROVE  FillCache(c, span, data) \in [Bytes -> CacheValues]
BY DEF FillCache, CacheValues

LEMMA RebuiltType ==
  ASSUME NEW l \in Seq(Records)
  PROVE  /\ Newest(l) \in 0 .. Len(l)
         /\ \A r \in DOMAIN l : l[r].kind = "ckpt" => r <= Newest(l)
         /\ Newest(l) # 0 => l[Newest(l)].kind = "ckpt"
         /\ Rebuilt(l) \in [Bytes -> Nat]
<1> DEFINE S == {0} \cup {r \in DOMAIN l : l[r].kind = "ckpt"}
<1>1. DOMAIN l = 1 .. Len(l) /\ Len(l) \in Nat /\ \A r \in DOMAIN l : l[r].tree \in [Bytes -> Nat]
  BY RecordFields
<1>2. S \in SUBSET Nat /\ S # {} /\ \A x \in S : x <= Len(l)
  BY <1>1
<1>3. Max(S) \in S /\ \A x \in S : x <= Max(S)
  <2> HIDE DEF S
  <2> QED BY <1>1, <1>2, MaxOfBounded
<1>4. /\ Newest(l) \in 0 .. Len(l)
      /\ \A r \in DOMAIN l : l[r].kind = "ckpt" => r <= Newest(l)
      /\ Newest(l) # 0 => l[Newest(l)].kind = "ckpt" /\ Newest(l) \in DOMAIN l
  BY <1>1, <1>3 DEF Newest
<1>5. ASSUME NEW b \in Bytes PROVE Rebuilt(l)[b] \in Nat
  <2> DEFINE H == {r \in LaterThan(l, Newest(l)) : b \in l[r].span}
  <2>1. Rebuilt(l)[b] = IF H # {} THEN Max(H) ELSE IF Newest(l) = 0 THEN 0 ELSE l[Newest(l)].tree[b]
    BY DEF Rebuilt
  <2>2. H \in SUBSET Nat /\ \A x \in H : x <= Len(l)
    BY <1>1 DEF LaterThan
  <2>3. H # {} => Max(H) \in Nat
    <3> HIDE DEF H
    <3> QED BY <1>1, <2>2, MaxOfBounded
  <2> QED
    BY <1>1, <1>4, <2>1, <2>3
<1>6. Rebuilt(l) \in [Bytes -> Nat]
  <2>1. Rebuilt(l) = [b \in Bytes |-> Rebuilt(l)[b]]
    BY DEF Rebuilt
  <2> QED
    BY <1>5, <2>1
<1> QED
  BY <1>4, <1>6

LEMMA SpanFacts ==
  ASSUME NEW span \in Spans
  PROVE  span \subseteq Bytes /\ Max(span) \in span /\ Max(span) + 1 \in 1 .. FileLen
<1>1. span \subseteq Bytes /\ span # {}
  BY DEF Spans, Span
<1>2. span \in SUBSET Nat /\ FileLen \in Nat /\ \A x \in span : x <= FileLen
  BY <1>1, CacheAssumption DEF Bytes
<1>3. Max(span) \in span
  BY <1>1, <1>2, MaxOfBounded
<1>4. Max(span) \in 0 .. FileLen - 1
  BY <1>1, <1>3 DEF Bytes
<1> QED
  BY <1>1, <1>2, <1>3, <1>4

LEMMA LargerSize ==
  ASSUME NEW a \in 0 .. FileLen, NEW b \in 0 .. FileLen
  PROVE  Max({a, b}) = IF a <= b THEN b ELSE a
<1>1. {a, b} \in SUBSET Nat
  OBVIOUS
<1> QED
  BY <1>1, MaxIsUnique, CacheAssumption
-----------------------------------------------------------------------------
\* The file after do_write, but for the counts and the index.
LEMMA DoWriteKeeps ==
  ASSUME StoreInv, up = "run", handle, NEW f \in FileType,
         f.outstanding_reqs = file.outstanding_reqs, f.index_flush_reqs = file.index_flush_reqs,
         NEW span \in SUBSET Bytes, NEW x \in Data \cup {0},
         DoWrite(f, span, x), UNCHANGED <<log, up, flags, place, handle>>
  PROVE  StoreInv'
<1> DEFINE rc == f.last_recno + 1
           g == [f EXCEPT !.last_recno = rc,
                          !.tree = [b \in Bytes |-> IF b \in span THEN rc ELSE @[b]],
                          !.dirty = @ \/ span # {},
                          !.outstanding_reqs = @ + 1]
           data == [b \in Bytes |-> x]
<1>1. /\ Len(Sent) < MaxRecords /\ file' = g
      /\ cache' = IF use_cache THEN FillCache(cache, span, data) ELSE cache
      /\ \/ fs_mode = "RW" /\ sent' = Append(sent, DataRec(span, x, f)) /\ stuck' = stuck
         \/ stuck' = TRUE /\ sent' = sent
  BY DEF DoWrite, Room
<1>2. harmed' \in BOOLEAN
  BY DEF DoWrite, StoreInv, StoreTypes
<1>3. /\ g \in FileType /\ g.outstanding_reqs = file.outstanding_reqs + 1
      /\ g.index_flush_reqs = file.index_flush_reqs
  <2> DEFINE tree == [b \in Bytes |-> IF b \in span THEN rc ELSE f.tree[b]]
             dirty == f.dirty \/ span # {}
  <2>1. f.tree \in [Bytes -> Nat] /\ rc \in Nat /\ f.outstanding_reqs + 1 \in Nat
    BY DEF FileType
  <2>2. tree \in [Bytes -> Nat] /\ dirty \in BOOLEAN
    BY <2>1
  <2>3. g = [f EXCEPT !.last_recno = rc, !.tree = tree, !.dirty = dirty,
                      !.outstanding_reqs = @ + 1]
    OBVIOUS
  <2> HIDE DEF rc, tree, dirty, g
  <2> QED
    BY <2>1, <2>2, <2>3 DEF FileType
<1>4. cache' \in [Bytes -> CacheValues]
  <2>1. \A b \in Bytes : data[b] \in CacheValues
    BY DEF CacheValues, Zero
  <2>2. cache \in [Bytes -> CacheValues]
    BY DEF StoreInv, StoreTypes
  <2> HIDE DEF data
  <2> QED
    BY <1>1, <2>1, <2>2, FillCacheType
<1>5. StoreTypes /\ CountsCover
  BY DEF StoreInv
<1>6. /\ Len(Sent) = Len(log) + Len(sent) /\ Len(log) \in Nat /\ Len(sent) \in Nat
      /\ MaxRecords \in Nat /\ sent \in Seq(Records)
      /\ DataRec(span, x, f) \in Records /\ DataRec(span, x, f).kind = "data"
  BY <1>5, SentFacts, DataRecType, FileStoreAssumption DEF StoreTypes
<1>7. sent' \in Seq(Records) /\ Len(log') + Len(sent') <= MaxRecords
  <2>1. CASE sent' = Append(sent, DataRec(span, x, f))
    <3>1. sent' \in Seq(Records) /\ Len(sent') = Len(sent) + 1
      BY <1>6, <2>1, AppendProperties
    <3> QED
      BY <1>1, <1>6, <3>1
  <2>2. CASE sent' = sent
    BY <1>6, <1>5, <2>2 DEF StoreTypes
  <2> QED
    BY <1>1, <2>1, <2>2
<1> HIDE DEF g, data
<1>8. StoreTypes'
  BY <1>1, <1>2, <1>3, <1>4, <1>5, <1>7 DEF StoreTypes, flags
<1>9. /\ file'.outstanding_reqs >= UnderWay("data")'
      /\ file'.index_flush_reqs >= UnderWay("ckpt")'
  <2>1. /\ UnderWay("data") \in Nat /\ UnderWay("ckpt") \in Nat
        /\ file.outstanding_reqs \in Nat /\ file.index_flush_reqs \in Nat
        /\ file.outstanding_reqs >= UnderWay("data") /\ file.index_flush_reqs >= UnderWay("ckpt")
    BY <1>5, CountType DEF CountsCover, StoreTypes, FileType
  <2>2. CASE sent' = Append(sent, DataRec(span, x, f))
    <3>1. UnderWay("data")' = UnderWay("data") + 1 /\ UnderWay("ckpt")' = UnderWay("ckpt")
      BY <1>5, <1>6, <2>1, <2>2, CountAppend
    <3> QED
      BY <1>1, <1>3, <2>1, <3>1
  <2>3. CASE sent' = sent
    <3>1. UnderWay("data")' = UnderWay("data") /\ UnderWay("ckpt")' = UnderWay("ckpt")
      BY <2>3 DEF UnderWay, Kinds
    <3> QED
      BY <1>1, <1>3, <2>1, <3>1
  <2> QED
    BY <1>1, <2>2, <2>3
<1>10. place = "held"
  BY <1>5 DEF CountsCover
<1> QED
  BY <1>8, <1>9, <1>10 DEF StoreInv, CountsCover

\* Steps that change neither the file nor what is under way.
LEMMA QuietKeeps ==
  ASSUME StoreInv, up = "run", up' = "run", StoreTypes', sent' = sent, file' = file,
         place' \in {"listed", "leaving"} => file.outstanding_reqs = 0 /\ ~handle',
         place' # "absent" \/ place' = place, handle' => place' = "held"
  PROVE  StoreInv'
<1>1. UnderWay("data")' = UnderWay("data") /\ UnderWay("ckpt")' = UnderWay("ckpt")
  BY DEF UnderWay, Kinds
<1> QED
  BY <1>1 DEF StoreInv, CountsCover

LEMMA ReadKeeps ==
  ASSUME StoreInv, NEW span \in Spans, Read(span)
  PROVE  StoreInv'
<1> DEFINE want == {b \in span : b < file.size}
           data == [b \in Bytes |-> IndexByte(b)]
<1>1. /\ up = "run" /\ cache' = FillCache(cache, want, data)
      /\ UNCHANGED <<log, sent, up, flags, memory, stuck>>
  BY DEF Read, InUse
<1>2. harmed' \in BOOLEAN
  BY DEF Read, StoreInv, StoreTypes
<1>3. StoreTypes /\ CountsCover
  BY DEF StoreInv
<1>4. \A b \in Bytes : data[b] \in CacheValues
  BY <1>3, SentFacts, LogByteType DEF IndexByte, CacheValues
<1>5. cache' \in [Bytes -> CacheValues]
  <2>1. want \in SUBSET Bytes /\ cache \in [Bytes -> CacheValues]
    BY <1>3, SpanFacts DEF StoreTypes
  <2> HIDE DEF data, want
  <2> QED
    BY <1>1, <1>4, <2>1, FillCacheType
<1> HIDE DEF data, want
<1>6. StoreTypes'
  BY <1>1, <1>2, <1>3, <1>5 DEF StoreTypes, flags, memory
<1> QED
  BY <1>1, <1>3, <1>6, QuietKeeps DEF CountsCover, memory

LEMMA ReviveKeeps ==
  ASSUME StoreInv, Revive
  PROVE  StoreInv'
<1>1. StoreTypes'
  BY DEF StoreInv, StoreTypes, Revive, flags, history
<1> QED
  BY <1>1, QuietKeeps DEF Revive

LEMMA CloseKeeps ==
  ASSUME StoreInv, Close
  PROVE  StoreInv'
<1>1. StoreTypes'
  BY DEF StoreInv, StoreTypes, Close, flags, history
<1> QED
  BY <1>1, QuietKeeps DEF Close

LEMMA CreateKeeps ==
  ASSUME StoreInv, NEW perm \in Perms, NEW strict \in BOOLEAN, Create(perm, strict)
  PROVE  StoreInv'
<1> DEFINE f == [NoFile EXCEPT !.perm = perm, !.new_file = strict]
           g == [f EXCEPT !.last_recno = 1, !.dirty = TRUE, !.outstanding_reqs = 1]
           rec == DataRec({}, 0, f)
<1>1. /\ up = "run" /\ place = "absent" /\ Sent = << >> /\ file' = g
      /\ place' = "held" /\ handle' = TRUE /\ UNCHANGED <<log, up, flags, cache>>
      /\ \/ sent' = <<rec>> /\ UNCHANGED <<harmed, stuck>>
         \/ harmed' = TRUE /\ stuck' = TRUE /\ sent' = sent
  BY DEF Create
<1>2. f \in FileType /\ g \in FileType /\ g.outstanding_reqs = 1 /\ g.index_flush_reqs = 0
  BY NoFileType, CacheAssumption DEF FileType, NoFile, NoIndex
<1>3. rec \in Records /\ rec.kind = "data"
  BY <1>2, DataRecType
<1>4. StoreTypes /\ CountsCover /\ sent = << >> /\ sent \in Seq(Records)
  BY <1>1 DEF StoreInv, CountsCover, StoreTypes
<1>5. Len(log) = 0 /\ Len(sent) = 0
  BY <1>1, <1>4, SentFacts
<1>6. UnderWay("data") = 0 /\ UnderWay("ckpt") = 0
  BY <1>4, CountNone DEF UnderWay
<1> HIDE DEF f, g, rec
<1>7. CASE sent' = <<rec>> /\ UNCHANGED <<harmed, stuck>> /\ MaxRecords >= 1
  <2>1. sent' = Append(sent, rec) /\ sent' \in Seq(Records) /\ Len(sent') = 1
    BY <1>3, <1>4, <1>7
  <2>2. UnderWay("data")' = 1 /\ UnderWay("ckpt")' = 0
    BY <1>3, <1>4, <1>6, <2>1, CountAppend
  <2>3. StoreTypes'
    BY <1>1, <1>2, <1>4, <1>5, <1>7, <2>1 DEF StoreTypes, flags
  <2> QED
    BY <1>1, <1>2, <2>2, <2>3 DEF StoreInv, CountsCover
<1>8. CASE harmed' = TRUE /\ stuck' = TRUE /\ sent' = sent
  <2>1. UnderWay("data")' = 0 /\ UnderWay("ckpt")' = 0
    BY <1>6, <1>8 DEF UnderWay, Kinds
  <2>2. StoreTypes'
    BY <1>1, <1>2, <1>4, <1>8 DEF StoreTypes, flags
  <2> QED
    BY <1>1, <1>2, <2>1, <2>2 DEF StoreInv, CountsCover
<1>9. MaxRecords >= 1
  BY FileStoreAssumption
<1> QED
  BY <1>1, <1>7, <1>8, <1>9

LEMMA WriteKeeps ==
  ASSUME StoreInv, NEW span \in Spans, NEW x \in Data, Write(span, x)
  PROVE  StoreInv'
<1> DEFINE n == Max({file.size, Max(span) + 1})
           f == [file EXCEPT !.size = n]
<1>1. file \in FileType
  BY DEF StoreInv, StoreTypes
<1>2. span \in SUBSET Bytes /\ n \in 0 .. FileLen
  <2>1. span \subseteq Bytes /\ Max(span) + 1 \in 0 .. FileLen
    BY SpanFacts, CacheAssumption
  <2>2. file.size \in 0 .. FileLen
    BY <1>1 DEF FileType
  <2> QED
    BY <2>1, <2>2, LargerSize
<1>3. f \in FileType /\ f.outstanding_reqs = file.outstanding_reqs
      /\ f.index_flush_reqs = file.index_flush_reqs
  <2> HIDE DEF n
  <2> QED
    BY <1>1, <1>2 DEF FileType
<1>4. DoWrite(f, span, x) /\ up = "run" /\ handle /\ UNCHANGED <<log, up, flags, place, handle>>
  BY DEF Write, InUse
<1> HIDE DEF f
<1> QED
  BY <1>2, <1>3, <1>4, DoWriteKeeps

LEMMA TruncateKeeps ==
  ASSUME StoreInv, Truncate
  PROVE  StoreInv'
<1> DEFINE f == [file EXCEPT !.size = 0]
<1>1. file \in FileType
  BY DEF StoreInv, StoreTypes
<1>2. f \in FileType /\ f.outstanding_reqs = file.outstanding_reqs
      /\ f.index_flush_reqs = file.index_flush_reqs
  BY <1>1, CacheAssumption DEF FileType
<1>3. DoWrite(f, {}, 0) /\ up = "run" /\ handle /\ UNCHANGED <<log, up, flags, place, handle>>
  BY DEF Truncate, InUse
<1> HIDE DEF f
<1> QED
  BY <1>2, <1>3, DoWriteKeeps

LEMMA SetPermKeeps ==
  ASSUME StoreInv, NEW perm \in Perms, SetPerm(perm)
  PROVE  StoreInv'
<1> DEFINE f == [file EXCEPT !.perm = perm]
<1>1. file \in FileType
  BY DEF StoreInv, StoreTypes
<1>2. f \in FileType /\ f.outstanding_reqs = file.outstanding_reqs
      /\ f.index_flush_reqs = file.index_flush_reqs
  BY <1>1 DEF FileType
<1>3. DoWrite(f, {}, 0) /\ up = "run" /\ handle /\ UNCHANGED <<log, up, flags, place, handle>>
  BY DEF SetPerm, InUse
<1> HIDE DEF f
<1> QED
  BY <1>2, <1>3, DoWriteKeeps

\* The spans after the newest checkpoint are bytes of the file.
LEMMA LaterSpans ==
  ASSUME NEW l \in Seq(Records), NEW n
  PROVE  UNION {l[r].span : r \in LaterThan(l, n)} \subseteq Bytes
BY RecordFields DEF LaterThan

LEMMA LoadKeeps ==
  ASSUME StoreInv, Load
  PROVE  StoreInv'
<1> DEFINE later == LaterThan(log, Newest(log))
           span == UNION {log[r].span : r \in later}
           data == [b \in Bytes |-> LogByte(log, Rebuilt(log), b)]
           last == log[Len(log)]
           g == [NoFile EXCEPT !.size = last.size, !.perm = last.perm,
                               !.tree = Rebuilt(log), !.last_recno = Len(log),
                               !.dirty = Newest(log) = 0 \/ later # {}]
<1>1. /\ up = "run" /\ place = "absent" /\ log # << >> /\ UNCHANGED <<log, sent, flags, stuck>>
      /\ \/ up' = "dead" /\ UNCHANGED <<memory, cache, harmed>>
         \/ /\ file' = g /\ place' = "held" /\ handle' = TRUE /\ up' = up
            /\ cache' = IF use_cache THEN FillCache(cache, span, data) ELSE cache
  BY DEF Load
<1>2. StoreTypes /\ CountsCover /\ harmed' \in BOOLEAN
  BY DEF StoreInv, Load, StoreTypes
<1>3. CASE up' = "dead" /\ UNCHANGED <<memory, cache, harmed>>
  BY <1>1, <1>2, <1>3 DEF StoreInv, StoreTypes, CountsCover, flags, memory
<1>4. CASE /\ file' = g /\ place' = "held" /\ handle' = TRUE /\ up' = up
           /\ cache' = IF use_cache THEN FillCache(cache, span, data) ELSE cache
  <2>1. /\ log \in Seq(Records) /\ Len(log) \in DOMAIN log /\ Len(log) \in Nat
        /\ Rebuilt(log) \in [Bytes -> Nat]
    BY <1>1, <1>2, RebuiltType DEF StoreTypes
  <2>2. last.size \in 0 .. FileLen /\ last.perm \in Perms \cup {{}}
    BY <2>1, RecordFields
  <2>3. /\ g \in FileType /\ g.outstanding_reqs = 0 /\ g.index_flush_reqs = 0
    <3> DEFINE tree == Rebuilt(log)
               dirty == Newest(log) = 0 \/ later # {}
    <3>1. tree \in [Bytes -> Nat] /\ dirty \in BOOLEAN
      BY <2>1
    <3> HIDE DEF later, last, tree, dirty
    <3>2. g = [NoFile EXCEPT !.size = last.size, !.perm = last.perm, !.tree = tree,
                             !.last_recno = Len(log), !.dirty = dirty]
      BY DEF tree, dirty
    <3>3. g \in FileType
      <4> HIDE DEF g
      <4> QED
        BY <2>1, <2>2, <3>1, <3>2, NoFileType DEF FileType
    <3>4. g.outstanding_reqs = 0 /\ g.index_flush_reqs = 0
      BY DEF NoFile
    <3> QED
      BY <3>3, <3>4
  <2>4. cache' \in [Bytes -> CacheValues]
    <3>1. span \in SUBSET Bytes /\ cache \in [Bytes -> CacheValues]
      BY <1>2, <2>1, LaterSpans DEF StoreTypes
    <3>2. \A b \in Bytes : data[b] \in CacheValues
      BY <2>1, LogByteType DEF CacheValues
    <3> HIDE DEF span, data
    <3> QED
      BY <1>4, <3>1, <3>2, FillCacheType
  <2>5. sent = << >> /\ sent \in Seq(Records)
    BY <1>1, <1>2 DEF CountsCover, StoreTypes
  <2>6. UnderWay("data")' = 0 /\ UnderWay("ckpt")' = 0
    <3>1. UnderWay("data") = 0 /\ UnderWay("ckpt") = 0
      BY <2>5, CountNone DEF UnderWay
    <3> QED
      BY <1>1, <3>1 DEF UnderWay, Kinds
  <2> HIDE DEF g, span, data
  <2>7. StoreTypes'
    BY <1>1, <1>2, <1>4, <2>3, <2>4 DEF StoreTypes, flags
  <2> QED
    BY <1>1, <1>4, <2>3, <2>6, <2>7 DEF StoreInv, CountsCover
<1> QED
  BY <1>1, <1>3, <1>4

LEMMA CountEdits ==
  ASSUME NEW f \in FileType, NEW n \in Nat
  PROVE  /\ [f EXCEPT !.outstanding_reqs = n] \in FileType
         /\ [f EXCEPT !.outstanding_reqs = n].outstanding_reqs = n
         /\ [f EXCEPT !.outstanding_reqs = n].index_flush_reqs = f.index_flush_reqs
         /\ [f EXCEPT !.index_flush_reqs = n] \in FileType
         /\ [f EXCEPT !.index_flush_reqs = n].index_flush_reqs = n
         /\ [f EXCEPT !.index_flush_reqs = n].outstanding_reqs = f.outstanding_reqs
         /\ [f EXCEPT !.last_recno = n] \in FileType
         /\ [f EXCEPT !.last_recno = n].outstanding_reqs = f.outstanding_reqs
         /\ [f EXCEPT !.last_recno = n].index_flush_reqs = f.index_flush_reqs
BY DEF FileType

\* _file_chkpt appends its record, or does not; the count of writes stays.
LEMMA ChkptFacts ==
  ASSUME StoreTypes, NEW next, Chkpt(next)
  PROVE  /\ file' \in FileType /\ file'.outstanding_reqs = file.outstanding_reqs
         /\ sent' \in Seq(Records) /\ Len(log) + Len(sent') <= MaxRecords
         /\ \/ sent' = sent /\ file'.index_flush_reqs = file.index_flush_reqs
            \/ sent' = sent /\ up' = "dead"
            \/ sent' = Append(sent, CkptRec(file))
               /\ file'.index_flush_reqs = file.index_flush_reqs + 1
         /\ up' \in {next, "dead"}
<1>1. file \in FileType /\ sent \in Seq(Records) /\ CkptRec(file) \in Records
      /\ Len(log) + Len(sent) <= MaxRecords
  BY CkptRecType DEF StoreTypes
<1>2. Len(Sent) = Len(log) + Len(sent) /\ Len(log) \in Nat /\ Len(sent) \in Nat
  BY SentFacts
<1>3. /\ Len(Sent) < MaxRecords
      /\ \/ file' = [file EXCEPT !.last_recno = @ + 1] /\ up' = next /\ sent' = sent
         \/ /\ file' = [file EXCEPT !.last_recno = @ + 1, !.dirty = FALSE,
                                    !.index_flush_reqs = @ + 1]
            /\ \/ sent' = Append(sent, CkptRec(file)) /\ up' = next
               \/ up' = "dead" /\ sent' = sent
  BY DEF Chkpt, Room
<1>4. file.last_recno + 1 \in Nat /\ file.index_flush_reqs + 1 \in Nat
  BY <1>1 DEF FileType
<1>5. CASE file' = [file EXCEPT !.last_recno = @ + 1] /\ up' = next /\ sent' = sent
  <2>1. file' = [file EXCEPT !.last_recno = file.last_recno + 1]
    BY <1>5
  <2>2. /\ file' \in FileType /\ file'.outstanding_reqs = file.outstanding_reqs
        /\ file'.index_flush_reqs = file.index_flush_reqs
    BY <1>1, <1>4, <2>1, CountEdits
  <2> QED
    BY <1>1, <1>5, <2>2
<1>6. CASE /\ file' = [file EXCEPT !.last_recno = @ + 1, !.dirty = FALSE,
                                   !.index_flush_reqs = @ + 1]
           /\ \/ sent' = Append(sent, CkptRec(file)) /\ up' = next
              \/ up' = "dead" /\ sent' = sent
  <2>1. file' = [file EXCEPT !.last_recno = file.last_recno + 1, !.dirty = FALSE,
                             !.index_flush_reqs = file.index_flush_reqs + 1]
    BY <1>6
  <2>2. /\ file' \in FileType /\ file'.outstanding_reqs = file.outstanding_reqs
        /\ file'.index_flush_reqs = file.index_flush_reqs + 1
    <3> DEFINE n == file.last_recno + 1
               m == file.index_flush_reqs + 1
    <3>1. file' = [file EXCEPT !.last_recno = n, !.dirty = FALSE, !.index_flush_reqs = m]
          /\ n \in Nat /\ m \in Nat
      BY <1>4, <2>1
    <3> HIDE DEF n
    <3>2. file' \in FileType /\ file'.outstanding_reqs = file.outstanding_reqs
          /\ file'.index_flush_reqs = m
      <4> HIDE DEF m
      <4>1. PICK g : g = file'
        OBVIOUS
      <4>2. g = [file EXCEPT !.last_recno = n, !.dirty = FALSE, !.index_flush_reqs = m]
        BY <3>1, <4>1
      <4>3. g \in FileType /\ g.outstanding_reqs = file.outstanding_reqs /\ g.index_flush_reqs = m
        BY <1>1, <3>1, <4>2 DEF FileType
      <4> QED
        BY <4>1, <4>3
    <3> QED
      BY <3>2
  <2>3. CASE sent' = Append(sent, CkptRec(file)) /\ up' = next
    <3>1. sent' \in Seq(Records) /\ Len(sent') = Len(sent) + 1
      BY <1>1, <2>3, AppendProperties
    <3>2. Len(log) + Len(sent') <= MaxRecords
      BY <1>2, <1>3, <3>1, FileStoreAssumption
    <3> QED
      BY <2>2, <2>3, <3>1, <3>2
  <2>4. CASE up' = "dead" /\ sent' = sent
    BY <1>1, <2>2, <2>4
  <2> QED
    BY <1>6, <2>3, <2>4
<1> QED
  BY <1>3, <1>5, <1>6

LEMMA EvictKeeps ==
  ASSUME StoreInv, Evict
  PROVE  StoreInv'
<1>1. StoreTypes /\ CountsCover
  BY DEF StoreInv
<1>2. /\ up = "run" /\ place = "listed" /\ place' = "leaving" /\ Chkpt("run")
      /\ UNCHANGED <<log, flags, handle, cache, history>>
  BY DEF Evict
<1>3. /\ file' \in FileType /\ file'.outstanding_reqs = file.outstanding_reqs
      /\ sent' \in Seq(Records) /\ Len(log) + Len(sent') <= MaxRecords
      /\ \/ sent' = sent /\ file'.index_flush_reqs = file.index_flush_reqs
         \/ sent' = sent /\ up' = "dead"
         \/ sent' = Append(sent, CkptRec(file))
            /\ file'.index_flush_reqs = file.index_flush_reqs + 1
      /\ up' \in {"run", "dead"}
  BY <1>1, <1>2, ChkptFacts
<1>4. StoreTypes'
  BY <1>1, <1>2, <1>3 DEF StoreTypes, flags, history
<1>5. file.outstanding_reqs = 0 /\ ~handle
  BY <1>1, <1>2 DEF CountsCover
<1>6. CASE up' = "dead"
  BY <1>4, <1>6 DEF StoreInv, CountsCover
<1>7. CASE up' = "run"
  <2>1. /\ UnderWay("data") \in Nat /\ UnderWay("ckpt") \in Nat
        /\ file.outstanding_reqs \in Nat /\ file.index_flush_reqs \in Nat
        /\ file.outstanding_reqs >= UnderWay("data") /\ file.index_flush_reqs >= UnderWay("ckpt")
    BY <1>1, <1>2, CountType DEF CountsCover, StoreTypes, FileType
  <2>2. /\ file'.outstanding_reqs >= UnderWay("data")'
        /\ file'.index_flush_reqs >= UnderWay("ckpt")'
    <3>1. CASE sent' = sent /\ file'.index_flush_reqs = file.index_flush_reqs
      <4>1. UnderWay("data")' = UnderWay("data") /\ UnderWay("ckpt")' = UnderWay("ckpt")
        BY <3>1 DEF UnderWay, Kinds
      <4> QED
        BY <1>3, <2>1, <3>1, <4>1
    <3>2. CASE sent' = Append(sent, CkptRec(file))
               /\ file'.index_flush_reqs = file.index_flush_reqs + 1
      <4>1. CkptRec(file) \in Records /\ CkptRec(file).kind = "ckpt"
        BY <1>1, CkptRecType DEF StoreTypes
      <4>2. UnderWay("data")' = UnderWay("data") /\ UnderWay("ckpt")' = UnderWay("ckpt") + 1
        BY <1>1, <2>1, <3>2, <4>1, CountAppend
      <4> QED
        BY <1>3, <2>1, <3>2, <4>2
    <3> QED
      BY <1>3, <1>7, <3>1, <3>2
  <2> QED
    BY <1>2, <1>3, <1>4, <1>5, <2>2 DEF StoreInv, CountsCover
<1> QED
  BY <1>3, <1>6, <1>7

LEMMA StopKeeps ==
  ASSUME StoreInv, Stop
  PROVE  StoreInv'
<1>1. StoreTypes
  BY DEF StoreInv
<1>2. CASE place = "absent"
  <2>1. up' = "stop" /\ UNCHANGED <<file, sent, log, flags, place, handle, cache, history>>
    BY <1>2 DEF Stop
  <2> QED
    BY <1>1, <2>1 DEF StoreInv, StoreTypes, CountsCover, flags, history
<1>3. CASE place # "absent"
  <2>1. Chkpt("stop") /\ UNCHANGED <<log, flags, place, handle, cache, history>>
    BY <1>3 DEF Stop
  <2>2. /\ file' \in FileType /\ sent' \in Seq(Records) /\ Len(log) + Len(sent') <= MaxRecords
        /\ up' \in {"stop", "dead"}
    BY <1>1, <2>1, ChkptFacts
  <2> QED
    BY <1>1, <2>1, <2>2 DEF StoreInv, StoreTypes, CountsCover, flags, history
<1> QED
  BY <1>2, <1>3

\* The callback of an append: the count it covers goes down with it.
LEMMA AnsweredKeeps ==
  ASSUME StoreInv, sent # << >>, sent' = Tail(sent), Answered(Head(sent).kind), up' = up,
         handle' = handle
  PROVE  /\ CountsCover' /\ file' \in FileType
         /\ place' \in {"absent", "held", "listed", "leaving"}
<1> DEFINE k == Head(sent).kind
           f == IF k = "data" THEN [file EXCEPT !.outstanding_reqs = @ - 1]
                ELSE [file EXCEPT !.index_flush_reqs = @ - 1]
<1>1. StoreTypes /\ CountsCover /\ file \in FileType /\ sent \in Seq(Records)
      /\ place \in {"absent", "held", "listed", "leaving"} /\ handle \in BOOLEAN
  BY DEF StoreInv, StoreTypes
<1>2. CASE up # "run"
  BY <1>1, <1>2 DEF CountsCover, Answered
<1>3. CASE up = "run"
  <2>1. k \in {"data", "ckpt"} /\ sent' \in Seq(Records)
    BY <1>1, KindsFacts, HeadTailProperties DEF Records
  <2>2. /\ UnderWay("data") \in Nat /\ UnderWay("ckpt") \in Nat
        /\ file.outstanding_reqs \in Nat /\ file.index_flush_reqs \in Nat
        /\ file.outstanding_reqs >= UnderWay("data") /\ file.index_flush_reqs >= UnderWay("ckpt")
    BY <1>1, <1>3, CountType DEF CountsCover, FileType
  <2>3. /\ UnderWay("data")' = UnderWay("data") - (IF k = "data" THEN 1 ELSE 0)
        /\ UnderWay("ckpt")' = UnderWay("ckpt") - (IF k = "ckpt" THEN 1 ELSE 0)
        /\ k = "data" => UnderWay("data") >= 1
        /\ k = "ckpt" => UnderWay("ckpt") >= 1
    BY <1>1, CountTail
  <2>4. /\ f \in FileType
        /\ f.outstanding_reqs = file.outstanding_reqs - (IF k = "data" THEN 1 ELSE 0)
        /\ f.index_flush_reqs = file.index_flush_reqs - (IF k = "ckpt" THEN 1 ELSE 0)
    <3> HIDE DEF k
    <3>1. CASE k = "data"
      <4>1. f = [file EXCEPT !.outstanding_reqs = file.outstanding_reqs - 1]
            /\ file.outstanding_reqs - 1 \in Nat
        BY <2>2, <2>3, <3>1
      <4> HIDE DEF f
      <4>2. f \in FileType /\ f.outstanding_reqs = file.outstanding_reqs - 1 /\ f.index_flush_reqs = file.index_flush_reqs
        BY <1>1, <4>1, CountEdits
      <4> QED
        BY <2>2, <3>1, <4>2
    <3>2. CASE k = "ckpt"
      <4>1. f = [file EXCEPT !.index_flush_reqs = file.index_flush_reqs - 1]
            /\ file.index_flush_reqs - 1 \in Nat
        BY <2>2, <2>3, <3>2
      <4> HIDE DEF f
      <4>2. f \in FileType /\ f.index_flush_reqs = file.index_flush_reqs - 1 /\ f.outstanding_reqs = file.outstanding_reqs
        BY <1>1, <4>1, CountEdits
      <4> QED
        BY <2>2, <3>2, <4>2
    <3> QED
      BY <2>1, <3>1, <3>2
  <2>5. IF k = "ckpt" /\ f.index_flush_reqs = 0 /\ place = "leaving"
        THEN file' = NoFile /\ place' = "absent"
        ELSE /\ file' = f
             /\ place' = IF k = "data" /\ f.outstanding_reqs = 0 /\ ~handle THEN "listed" ELSE place
    BY <1>3 DEF Answered
  <2> HIDE DEF k, f
  <2>6. /\ f.outstanding_reqs >= UnderWay("data")' /\ f.index_flush_reqs >= UnderWay("ckpt")'
        /\ UnderWay("data")' \in Nat /\ UnderWay("ckpt")' \in Nat
    BY <2>1, <2>2, <2>3, <2>4
  <2>7. CASE k = "ckpt" /\ f.index_flush_reqs = 0 /\ place = "leaving"
    <3>1. f.outstanding_reqs = 0 /\ ~handle
      BY <1>1, <1>3, <2>2, <2>4, <2>7 DEF CountsCover
    <3>2. UnderWay("data")' = 0 /\ UnderWay("ckpt")' = 0
      BY <2>6, <2>7, <3>1
    <3>3. sent' = << >>
      BY <2>1, <3>2, CountNone DEF UnderWay, Kinds
    <3>4. NoFile \in FileType /\ NoFile.outstanding_reqs = 0 /\ NoFile.index_flush_reqs = 0
      BY NoFileType DEF NoFile
    <3> QED
      BY <2>5, <2>7, <3>1, <3>2, <3>3, <3>4 DEF CountsCover
  <2>8. CASE ~(k = "ckpt" /\ f.index_flush_reqs = 0 /\ place = "leaving")
    <3>1. /\ file' = f
          /\ place' = IF k = "data" /\ f.outstanding_reqs = 0 /\ ~handle THEN "listed" ELSE place
      BY <2>5, <2>8
    <3>2. place # "absent"
      BY <1>1, <1>3 DEF CountsCover
    <3>3. place \in {"listed", "leaving"} => f.outstanding_reqs = 0 /\ ~handle
      BY <1>1, <1>3, <2>2, <2>3, <2>4 DEF CountsCover
    <3>4. handle => place = "held"
      BY <1>1, <1>3 DEF CountsCover
    <3> QED
      BY <1>1, <1>3, <2>4, <2>6, <3>1, <3>2, <3>3, <3>4 DEF CountsCover
  <2> QED
    BY <2>7, <2>8
<1> QED
  BY <1>2, <1>3

LEMMA DeliverKeeps ==
  ASSUME StoreInv, Deliver
  PROVE  StoreInv'
<1>1. /\ sent # << >> /\ log' = Append(log, Head(sent)) /\ sent' = Tail(sent)
      /\ Answered(Head(sent).kind) /\ UNCHANGED <<up, flags, handle, cache, history>>
  BY DEF Deliver
<1>2. StoreTypes
  BY DEF StoreInv
<1>3. /\ CountsCover' /\ file' \in FileType
      /\ place' \in {"absent", "held", "listed", "leaving"}
  BY <1>1, AnsweredKeeps
<1>4. /\ log' \in Seq(Records) /\ sent' \in Seq(Records)
      /\ Len(log') = Len(log) + 1 /\ Len(sent') = Len(sent) - 1
      /\ Len(log) \in Nat /\ Len(sent) \in Nat
  BY <1>1, <1>2, HeadTailProperties, AppendProperties, SentFacts DEF StoreTypes
<1>5. Len(log') + Len(sent') <= MaxRecords
  <2>1. Len(log) + Len(sent) <= MaxRecords
    BY <1>2 DEF StoreTypes
  <2> QED
    BY <1>4, <2>1
<1> QED
  BY <1>1, <1>2, <1>3, <1>4, <1>5 DEF StoreInv, StoreTypes, flags, history

LEMMA FailKeeps ==
  ASSUME StoreInv, Fail
  PROVE  StoreInv'
<1>1. /\ sent # << >> /\ sent' = Tail(sent) /\ harmed' = TRUE
      /\ Answered(Head(sent).kind) /\ UNCHANGED <<log, up, flags, handle, cache, stuck>>
  BY DEF Fail
<1>2. StoreTypes
  BY DEF StoreInv
<1>3. /\ CountsCover' /\ file' \in FileType
      /\ place' \in {"absent", "held", "listed", "leaving"}
  BY <1>1, AnsweredKeeps
<1>4. /\ sent' \in Seq(Records) /\ Len(sent') = Len(sent) - 1
      /\ Len(log) \in Nat /\ Len(sent) \in Nat
  BY <1>1, <1>2, HeadTailProperties, SentFacts DEF StoreTypes
<1>5. Len(log') + Len(sent') <= MaxRecords
  <2>1. Len(log) + Len(sent) <= MaxRecords
    BY <1>2 DEF StoreTypes
  <2> QED
    BY <1>1, <1>4, <2>1, FileStoreAssumption
<1> QED
  BY <1>1, <1>2, <1>3, <1>4, <1>5 DEF StoreInv, StoreTypes, flags

\* A run that has just begun.
LEMMA FreshCounts ==
  /\ Cardinality(Places(Kinds(<< >>), "data")) = 0
  /\ Cardinality(Places(Kinds(<< >>), "ckpt")) = 0
  /\ << >> \in Seq(Records) /\ Len(<< >>) = 0
  /\ NoFile \in FileType /\ NoFile.outstanding_reqs = 0 /\ NoFile.index_flush_reqs = 0
  /\ EmptyCache \in [Bytes -> CacheValues]
<1>1. << >> \in Seq(Records) /\ Len(<< >>) = 0
  BY EmptySeq
<1>2. NoFile.outstanding_reqs = 0 /\ NoFile.index_flush_reqs = 0
  BY DEF NoFile
<1>3. EmptyCache \in [Bytes -> CacheValues]
  BY DEF EmptyCache, CacheValues
<1> QED
  BY <1>1, <1>2, <1>3, CountNone, NoFileType

LEMMA RestartKeeps ==
  ASSUME StoreInv, Restart
  PROVE  StoreInv'
<1>1. /\ up' = "run" /\ fs_mode' \in Modes /\ use_cache' \in CacheModes /\ sent' = << >>
      /\ file' = NoFile /\ place' = "absent" /\ handle' = FALSE /\ stuck' = FALSE
      /\ log' = log /\ harmed' = harmed
      /\ cache' = IF use_cache' THEN EmptyCache ELSE cache
  BY DEF Restart
<1>2. /\ log \in Seq(Records) /\ sent \in Seq(Records) /\ Len(log) + Len(sent) <= MaxRecords
      /\ harmed \in BOOLEAN /\ cache \in [Bytes -> CacheValues]
  BY DEF StoreInv, StoreTypes
<1>3. Len(log') + Len(sent') <= MaxRecords
  <2>1. Len(log) \in Nat /\ Len(sent) \in Nat /\ Len(log') = Len(log) /\ Len(sent') = 0
    BY <1>1, <1>2
  <2> QED
    BY <1>2, <2>1, FileStoreAssumption
<1>4. cache' \in [Bytes -> CacheValues]
  BY <1>1, <1>2, FreshCounts
<1>5. StoreTypes'
  BY <1>1, <1>2, <1>3, <1>4, FreshCounts DEF StoreTypes
<1>6. UnderWay("data")' = 0 /\ UnderWay("ckpt")' = 0
  BY <1>1, FreshCounts DEF UnderWay, Kinds
<1> QED
  BY <1>1, <1>5, <1>6, FreshCounts DEF StoreInv, CountsCover

LEMMA StoreInit == Init => StoreInv
<1> SUFFICES ASSUME Init PROVE StoreInv
  OBVIOUS
<1>1. /\ log = << >> /\ sent = << >> /\ up = "run" /\ fs_mode \in Modes /\ use_cache \in CacheModes
      /\ file = NoFile /\ place = "absent" /\ handle = FALSE /\ cache = EmptyCache
      /\ harmed = FALSE /\ stuck = FALSE
  BY DEF Init
<1>2. StoreTypes
  <2>1. Len(log) + Len(sent) <= MaxRecords
    BY <1>1, FreshCounts, FileStoreAssumption
  <2> QED
    BY <1>1, <2>1, FreshCounts DEF StoreTypes
<1>3. UnderWay("data") = 0 /\ UnderWay("ckpt") = 0
  BY <1>1, FreshCounts DEF UnderWay
<1> QED
  BY <1>1, <1>2, <1>3, FreshCounts DEF StoreInv, CountsCover

LEMMA StoreStep == StoreInv /\ [Next]_vars => StoreInv'
<1> SUFFICES ASSUME StoreInv, [Next]_vars PROVE StoreInv'
  OBVIOUS
<1>1. CASE Next
  BY <1>1, SetPermKeeps, CreateKeeps, ReadKeeps, WriteKeeps, TruncateKeeps, ReviveKeeps, LoadKeeps,
     CloseKeeps, EvictKeeps, StopKeeps, DeliverKeeps, FailKeeps, RestartKeeps DEF Next
<1>2. CASE UNCHANGED vars
  BY <1>2 DEF vars, flags, memory, history, StoreInv, StoreTypes, CountsCover, UnderWay, Kinds
<1> QED
  BY <1>1, <1>2

LEMMA StoreAlways == Spec => []StoreInv
BY StoreInit, StoreStep, PTL DEF Spec

\* The counters of a file never go below zero and its records, index, size and cache
\* keep their types, over any number of runs, crashes, refused and failing appends:
\* a file that is freed or closed has no append of its own under way (free_fileref,
\* _file_chkpt_finish).
THEOREM TypeCorrect == Spec => []TypeOK
<1>1. StoreInv => TypeOK
  <2> SUFFICES ASSUME StoreInv PROVE TypeOK
    OBVIOUS
  <2>1. StoreTypes /\ log \in Seq(Records) /\ sent \in Seq(Records) /\ file \in FileType
    BY DEF StoreInv, StoreTypes
  <2>2. \A l \in {log, sent} : \A r \in DOMAIN l : l[r].span \subseteq Bytes /\ l[r].size \in 0 .. FileLen
    BY <2>1, RecordFields
  <2>3. /\ file.size \in 0 .. FileLen /\ file.tree \in [Bytes -> Nat]
        /\ {file.last_recno, file.outstanding_reqs, file.index_flush_reqs} \subseteq Nat
    BY <2>1 DEF FileType
  <2> QED
    BY <2>1, <2>2, <2>3 DEF TypeOK, StoreTypes, CacheValues
<1> QED
  BY <1>1, StoreAlways, PTL
-----------------------------------------------------------------------------
\* What a record does to the index open_file makes and to the bytes it finds.
LEMMA AppendFacts ==
  ASSUME NEW l \in Seq(Records), NEW rec \in Records
  PROVE  /\ Append(l, rec) \in Seq(Records) /\ Len(l) \in Nat /\ Len(Append(l, rec)) = Len(l) + 1
         /\ DOMAIN l = 1 .. Len(l) /\ DOMAIN Append(l, rec) = 1 .. Len(l) + 1
         /\ Append(l, rec)[Len(l) + 1] = rec
         /\ \A r \in 1 .. Len(l) : Append(l, rec)[r] = l[r]
BY AppendProperties

\* Data goes on top of what is rebuilt from the records before it.
LEMMA RebuiltAppendData ==
  ASSUME NEW l \in Seq(Records), NEW rec \in Records, rec.kind # "ckpt", NEW b \in Bytes
  PROVE  Rebuilt(Append(l, rec))[b] = IF b \in rec.span THEN Len(l) + 1 ELSE Rebuilt(l)[b]
<1> DEFINE m == Append(l, rec)
           K == {0} \cup {r \in DOMAIN l : l[r].kind = "ckpt"}
           K1 == {0} \cup {r \in DOMAIN m : m[r].kind = "ckpt"}
           later == {r \in LaterThan(l, Newest(l)) : b \in l[r].span}
           later1 == {r \in LaterThan(m, Newest(m)) : b \in m[r].span}
<1>1. Len(l) \in Nat /\ DOMAIN l = 1 .. Len(l)
  OBVIOUS
<1>2. /\ DOMAIN m = 1 .. Len(l) + 1 /\ m[Len(l) + 1] = rec
      /\ \A r \in 1 .. Len(l) : m[r] = l[r]
  BY AppendFacts
<1> HIDE DEF m
<1>3. K1 = K
  BY <1>1, <1>2
<1>4. Newest(m) = Newest(l) /\ Newest(l) \in 0 .. Len(l)
  BY <1>3, RebuiltType DEF Newest
<1>5. later1 = IF b \in rec.span THEN later \cup {Len(l) + 1} ELSE later
  BY <1>1, <1>2, <1>4 DEF LaterThan
<1>6. later \in SUBSET Nat /\ \A r \in later : r <= Len(l)
  BY <1>1 DEF LaterThan
<1>7. Newest(l) # 0 => m[Newest(l)] = l[Newest(l)]
  BY <1>2, <1>4
<1>8. /\ Rebuilt(l)[b] = IF later # {} THEN Max(later)
                         ELSE IF Newest(l) = 0 THEN 0 ELSE l[Newest(l)].tree[b]
      /\ Rebuilt(m)[b] = IF later1 # {} THEN Max(later1)
                         ELSE IF Newest(m) = 0 THEN 0 ELSE m[Newest(m)].tree[b]
  BY DEF Rebuilt
<1>9. CASE b \in rec.span
  <2>1. /\ later1 \in SUBSET Nat /\ Len(l) + 1 \in later1
        /\ \A r \in later1 : r <= Len(l) + 1
    BY <1>1, <1>5, <1>6, <1>9
  <2>2. Max(later1) = Len(l) + 1
    <3> HIDE DEF later1
    <3> QED BY <2>1, MaxIsUnique
  <2> QED
    BY <1>8, <1>9, <2>1, <2>2 DEF m
<1>10. CASE b \notin rec.span
  <2> HIDE DEF later, later1
  <2>1. Rebuilt(m)[b] = Rebuilt(l)[b]
    BY <1>4, <1>5, <1>7, <1>8, <1>10
  <2> QED BY <1>10, <2>1 DEF m
<1> QED
  BY <1>9, <1>10

\* After a checkpoint its tree is what is rebuilt.
LEMMA RebuiltAppendCkpt ==
  ASSUME NEW l \in Seq(Records), NEW rec \in Records, rec.kind = "ckpt", NEW b \in Bytes
  PROVE  Rebuilt(Append(l, rec))[b] = rec.tree[b]
<1> DEFINE m == Append(l, rec)
           K1 == {0} \cup {r \in DOMAIN m : m[r].kind = "ckpt"}
<1>1. Len(l) \in Nat /\ DOMAIN m = 1 .. Len(l) + 1 /\ m[Len(l) + 1] = rec
  BY AppendFacts
<1> HIDE DEF m
<1>2. K1 \in SUBSET Nat /\ Len(l) + 1 \in K1 /\ \A r \in K1 : r <= Len(l) + 1
  BY <1>1
<1>3. Newest(m) = Len(l) + 1
  <2>1. Max(K1) = Len(l) + 1
    <3> HIDE DEF K1
    <3> QED BY <1>2, MaxIsUnique
  <2> QED
    BY <2>1 DEF Newest
<1>4. {r \in LaterThan(m, Newest(m)) : b \in m[r].span} = {}
  BY <1>1, <1>3 DEF LaterThan
<1>5. Rebuilt(m)[b] = rec.tree[b]
  BY <1>1, <1>3, <1>4 DEF Rebuilt
<1> QED
  BY <1>5 DEF m

LEMMA RebuiltRange ==
  ASSUME NEW l \in Seq(Records), TreesLookBack(l), NEW b \in Bytes
  PROVE  Rebuilt(l)[b] \in 0 .. Len(l)
<1> DEFINE H == {r \in LaterThan(l, Newest(l)) : b \in l[r].span}
<1>1. Rebuilt(l)[b] = IF H # {} THEN Max(H) ELSE IF Newest(l) = 0 THEN 0 ELSE l[Newest(l)].tree[b]
  BY DEF Rebuilt
<1>2. Len(l) \in Nat /\ DOMAIN l = 1 .. Len(l)
  OBVIOUS
<1>3. H \in SUBSET Nat /\ \A x \in H : x <= Len(l)
  BY <1>2 DEF LaterThan
<1>4. H # {} => Max(H) \in H
  <2> HIDE DEF H
  <2> QED BY <1>2, <1>3, MaxOfBounded
<1>5. Newest(l) # 0 => l[Newest(l)].tree[b] \in 0 .. Newest(l) - 1 /\ Newest(l) \in 1 .. Len(l)
  <2>1. Newest(l) # 0 => Newest(l) \in 1 .. Len(l) /\ l[Newest(l)].kind = "ckpt"
    BY <1>2, RebuiltType
  <2> QED
    BY <1>2, <2>1 DEF TreesLookBack
<1>6. CASE H # {}
  BY <1>1, <1>2, <1>3, <1>4, <1>6
<1>7. CASE H = {}
  <2> HIDE DEF H
  <2> QED
    BY <1>1, <1>2, <1>5, <1>7
<1> QED
  BY <1>6, <1>7

\* An index that names records of l reads the same when others follow.
LEMMA ByteKept ==
  ASSUME NEW l \in Seq(Records), NEW rec \in Records, NEW tree, NEW other, NEW b,
         tree[b] \in 0 .. Len(l), other[b] = tree[b]
  PROVE  LogByte(Append(l, rec), other, b) = LogByte(l, tree, b)
<1>1. /\ DOMAIN l = 1 .. Len(l) /\ DOMAIN Append(l, rec) = 1 .. Len(l) + 1
      /\ \A r \in 1 .. Len(l) : Append(l, rec)[r] = l[r]
      /\ Len(l) \in Nat
  BY AppendFacts
<1>2. tree[b] # 0 => tree[b] \in DOMAIN l /\ tree[b] \in DOMAIN Append(l, rec)
                     /\ Append(l, rec)[tree[b]] = l[tree[b]]
  BY <1>1
<1> QED
  BY <1>2 DEF LogByte

LEMMA ByteAppendData ==
  ASSUME NEW l \in Seq(Records), TreesLookBack(l), NEW rec \in Records, rec.kind # "ckpt",
         NEW b \in Bytes
  PROVE  SentByte(Append(l, rec), b) = IF b \in rec.span THEN rec.x ELSE SentByte(l, b)
<1>1. Rebuilt(Append(l, rec))[b] = IF b \in rec.span THEN Len(l) + 1 ELSE Rebuilt(l)[b]
  BY RebuiltAppendData
<1>2. CASE b \in rec.span
  <2>1. Len(l) + 1 # 0 /\ Len(l) + 1 \in DOMAIN Append(l, rec) /\ Append(l, rec)[Len(l) + 1] = rec
    BY AppendFacts
  <2> QED
    BY <1>1, <1>2, <2>1 DEF SentByte, LogByte
<1>3. CASE b \notin rec.span
  <2>1. Rebuilt(l)[b] \in 0 .. Len(l)
    BY RebuiltRange
  <2> QED
    BY <1>1, <1>3, <2>1, ByteKept DEF SentByte
<1> QED
  BY <1>2, <1>3

LEMMA ByteAppendCkpt ==
  ASSUME NEW l \in Seq(Records), TreesLookBack(l), NEW rec \in Records, rec.kind = "ckpt",
         rec.tree = Rebuilt(l), NEW b \in Bytes
  PROVE  SentByte(Append(l, rec), b) = SentByte(l, b)
<1>1. Rebuilt(Append(l, rec))[b] = Rebuilt(l)[b] /\ Rebuilt(l)[b] \in 0 .. Len(l)
  BY RebuiltAppendCkpt, RebuiltRange
<1> QED
  BY <1>1, ByteKept DEF SentByte

LEMMA LookBackAppend ==
  ASSUME NEW l \in Seq(Records), TreesLookBack(l), NEW rec \in Records,
         rec.kind = "ckpt" => rec.tree = Rebuilt(l)
  PROVE  TreesLookBack(Append(l, rec))
<1>1. /\ Len(l) \in Nat /\ DOMAIN l = 1 .. Len(l) /\ DOMAIN Append(l, rec) = 1 .. Len(l) + 1
      /\ Append(l, rec)[Len(l) + 1] = rec
      /\ \A r \in 1 .. Len(l) : Append(l, rec)[r] = l[r]
  BY AppendFacts
<1>2. \A b \in Bytes : Rebuilt(l)[b] \in 0 .. Len(l)
  BY RebuiltRange
<1>3. ASSUME NEW r \in 1 .. Len(l) + 1, Append(l, rec)[r].kind = "ckpt", NEW b \in Bytes
      PROVE  Append(l, rec)[r].tree[b] \in 0 .. r - 1
  <2>1. CASE r \in 1 .. Len(l)
    BY <1>1, <1>3, <2>1 DEF TreesLookBack
  <2>2. CASE r = Len(l) + 1
    BY <1>1, <1>2, <1>3, <2>2
  <2> QED
    BY <1>1, <2>1, <2>2
<1> QED
  BY <1>1, <1>3 DEF TreesLookBack

\* What is lost with the appends under way takes nothing from the records before.
LEMMA LookBackPrefix ==
  ASSUME StoreTypes, TreesLookBack(Sent)
  PROVE  TreesLookBack(log)
<1>1. /\ DOMAIN log = 1 .. Len(log) /\ DOMAIN Sent = 1 .. Len(log) + Len(sent)
      /\ Len(log) \in Nat /\ Len(sent) \in Nat
      /\ \A i \in 1 .. Len(log) + Len(sent) : Sent[i] = IF i <= Len(log) THEN log[i] ELSE sent[i - Len(log)]
  BY ConcatProperties, SentFacts DEF Sent, StoreTypes
<1>2. \A r \in DOMAIN log : r \in DOMAIN Sent /\ Sent[r] = log[r]
  BY <1>1
<1> QED
  BY <1>2 DEF TreesLookBack
-----------------------------------------------------------------------------
\* What filling the cache leaves at a byte.
LEMMA FillCacheByte ==
  ASSUME NEW c, NEW span, NEW data, NEW b \in Bytes
  PROVE  /\ b \in span => FillCache(c, span, data)[b] = data[b]
         /\ b \notin span /\ c[b] # Hole => FillCache(c, span, data)[b] = c[b]
         /\ b \notin span /\ c[b] = Hole => FillCache(c, span, data)[b] \in {Zero, Hole}
BY DEF FillCache

\* What a user reads of a file in memory is what its records say.
LEMMA ReadsLog ==
  ASSUME InMemory, MemoryIsLog, CacheIsLog, NEW b \in Bytes
  PROVE  ReadByte(b) = SentByte(Sent, b) /\ IndexByte(b) = SentByte(Sent, b)
<1>1. IndexByte(b) = SentByte(Sent, b)
  BY DEF MemoryIsLog, IndexByte, SentByte
<1>2. ASSUME use_cache, CacheHit(cache, file.new_file, {b})
      PROVE  CacheByte(cache, b) = SentByte(Sent, b)
  <2>1. CASE cache[b] # Hole
    BY <1>2, <2>1 DEF CacheIsLog, InMemory, CacheByte
  <2>2. CASE cache[b] = Hole
    <3>1. file.new_file
      BY <1>2, <2>2 DEF CacheHit
    <3> QED
      BY <1>2, <2>2, <3>1 DEF CacheIsLog, InMemory, CacheByte
  <2> QED
    BY <2>1, <2>2
<1> QED
  BY <1>1, <1>2 DEF ReadByte

\* The cache after a fill that brought no wrong byte along.
LEMMA FilledRight ==
  ASSUME NEW span \in SUBSET Bytes, NEW data, NEW tree, NEW filled,
         filled = FillCache(cache, span, data), ~FilledWrong(filled, span, tree),
         NEW b \in Bytes
  PROVE  /\ b \in span => filled[b] = data[b]
         /\ b \notin span => filled[b] \in {cache[b], LogByte(Sent, tree, b)}
         /\ filled[b] = Hole /\ b \notin span => cache[b] = Hole
<1>1. /\ b \in span => filled[b] = data[b]
      /\ b \notin span /\ cache[b] # Hole => filled[b] = cache[b]
  BY FillCacheByte
<1>2. b \notin span /\ cache[b] = Hole => filled[b] \in {Hole, LogByte(Sent, tree, b)}
  BY DEF FilledWrong
<1> QED
  BY <1>1, <1>2

\* The bytes of the records are those of the new records in the next state.
LEMMA NextBytes ==
  /\ Rebuilt(Sent)' = Rebuilt(Sent')
  /\ \A b \in Bytes : SentByte(Sent, b)' = SentByte(Sent', b)
BY DEF SentByte, LogByte, Rebuilt, Newest, LaterThan

LEMMA SentGrows ==
  ASSUME StoreTypes, NEW rec \in Records, log' = log, sent' = Append(sent, rec)
  PROVE  /\ Sent' = Append(Sent, rec) /\ Sent' \in Seq(Records) /\ Sent \in Seq(Records)
         /\ Len(Sent') = Len(Sent) + 1 /\ Len(Sent) \in Nat
         /\ Sent'[Len(Sent')] = rec /\ Sent' # << >>
<1>1. Sent' = Append(Sent, rec)
  BY SentAppend DEF StoreTypes, Sent
<1>2. Sent \in Seq(Records) /\ Len(Sent) \in Nat
  BY SentFacts
<1> QED
  BY <1>1, <1>2, AppendProperties

\* A write that does not harm the file.
LEMMA WriteUnharmed ==
  ASSUME NEW f \in FileType, NEW span, NEW x, DoWrite(f, span, x), ~harmed'
  PROVE  /\ sent' = Append(sent, DataRec(span, x, f))
         /\ span # {} => f.last_recno + 1 = Len(Sent) + 1
         /\ ~FilledWrong(cache', span, f.tree)
         /\ \A b \in Bytes \ span : b >= file.size /\ b < f.size => ReadByte(b) = Zero
         /\ file'.size = f.size /\ file'.perm = f.perm /\ file'.new_file = f.new_file
         /\ file'.tree = [b \in Bytes |-> IF b \in span THEN f.last_recno + 1 ELSE f.tree[b]]
<1> DEFINE rc == f.last_recno + 1
           tree == [b \in Bytes |-> IF b \in span THEN rc ELSE f.tree[b]]
           dirty == f.dirty \/ span # {}
<1>1. /\ sent' = Append(sent, DataRec(span, x, f))
      /\ span # {} => f.last_recno + 1 = Len(Sent) + 1
      /\ ~FilledWrong(cache', span, f.tree)
      /\ \A b \in Bytes \ span : b >= file.size /\ b < f.size => ReadByte(b) = Zero
  BY DEF DoWrite
<1>2. file' = [f EXCEPT !.last_recno = rc, !.tree = tree, !.dirty = dirty,
                        !.outstanding_reqs = @ + 1]
  BY DEF DoWrite
<1>3. /\ file'.size = f.size /\ file'.perm = f.perm /\ file'.new_file = f.new_file
      /\ file'.tree = tree
  <2> HIDE DEF rc, tree, dirty
  <2> QED
    BY <1>2 DEF FileType
<1> QED
  BY <1>1, <1>3

LEMMA WriteKeepsFile ==
  ASSUME StoreInv, FileInv, InUse, NEW f \in FileType, f.tree = file.tree,
         f.new_file = file.new_file, NEW span \in SUBSET Bytes, NEW x \in Data \cup {0},
         DoWrite(f, span, x), UNCHANGED <<log, up, flags, place, handle>>
  PROVE  FileInv'
<1> SUFFICES ASSUME ~harmed' PROVE TreesLookBack(Sent)' /\ MemoryIsLog' /\ CacheIsLog'
  BY DEF FileInv
<1> DEFINE rec == DataRec(span, x, f)
           rc == f.last_recno + 1
           tree == [b \in Bytes |-> IF b \in span THEN rc ELSE f.tree[b]]
           data == [b \in Bytes |-> x]
<1>1. StoreTypes /\ InMemory /\ TreesLookBack(Sent) /\ MemoryIsLog /\ CacheIsLog
  BY DEF StoreInv, CountsCover, FileInv, InUse, InMemory
<1>2. /\ sent' = Append(sent, rec)
      /\ span # {} => rc = Len(Sent) + 1
      /\ ~FilledWrong(cache', span, f.tree)
      /\ cache' = IF use_cache THEN FillCache(cache, span, data) ELSE cache
  <2>1. sent' = Append(sent, rec)
    BY WriteUnharmed
  <2>2. span # {} => rc = Len(Sent) + 1
    BY WriteUnharmed
  <2>3. ~FilledWrong(cache', span, f.tree)
    BY WriteUnharmed
  <2>4. cache' = IF use_cache THEN FillCache(cache, span, data) ELSE cache
    BY DEF DoWrite
  <2> QED
    BY <2>1, <2>2, <2>3, <2>4
<1>3. /\ rec \in Records /\ rec.kind = "data" /\ rec.span = span /\ rec.x = x
      /\ rec.size = f.size /\ rec.perm = f.perm
  BY DataRecType
<1>4. /\ file'.size = f.size /\ file'.perm = f.perm /\ file'.tree = tree
      /\ file'.new_file = file.new_file
  BY WriteUnharmed
<1> HIDE DEF rec
<1>5. /\ Sent' = Append(Sent, rec) /\ Sent \in Seq(Records) /\ Len(Sent) \in Nat
      /\ Sent'[Len(Sent')] = rec /\ Sent' # << >>
  BY <1>1, <1>2, <1>3, SentGrows
<1>6. TreesLookBack(Sent)'
  <2>1. TreesLookBack(Append(Sent, rec))
    BY <1>1, <1>3, <1>5, LookBackAppend
  <2> QED
    BY <1>5, <2>1 DEF TreesLookBack
<1>7. \A b \in Bytes : Rebuilt(Append(Sent, rec))[b] = tree[b]
  <2> SUFFICES ASSUME NEW b \in Bytes PROVE Rebuilt(Append(Sent, rec))[b] = tree[b]
    OBVIOUS
  <2>1. Rebuilt(Append(Sent, rec))[b] = IF b \in span THEN Len(Sent) + 1 ELSE Rebuilt(Sent)[b]
    BY <1>3, <1>5, RebuiltAppendData
  <2>2. Rebuilt(Sent) = f.tree
    BY <1>1 DEF MemoryIsLog
  <2> QED
    BY <1>2, <2>1, <2>2
<1>8. file'.tree = Rebuilt(Sent')
  <2>1. Rebuilt(Append(Sent, rec)) \in [Bytes -> Nat]
    BY <1>3, <1>5, AppendProperties, RebuiltType
  <2>2. tree = [b \in Bytes |-> tree[b]]
    OBVIOUS
  <2> HIDE DEF tree
  <2> QED
    BY <1>4, <1>5, <1>7, <2>1, <2>2
<1>9. MemoryIsLog'
  BY <1>3, <1>4, <1>5, <1>8, NextBytes DEF MemoryIsLog
<1>10. CacheIsLog'
  <2> SUFFICES ASSUME up' = "run", use_cache', NEW b \in Bytes
               PROVE  /\ cache'[b] # Hole => cache'[b] = SentByte(Append(Sent, rec), b)
                      /\ cache'[b] = Hole /\ file'.new_file => SentByte(Append(Sent, rec), b) = Zero
    BY <1>5, NextBytes DEF CacheIsLog
  <2>1. use_cache /\ up = "run"
    BY DEF flags
  <2>2. SentByte(Append(Sent, rec), b) = IF b \in span THEN x ELSE SentByte(Sent, b)
    BY <1>1, <1>3, <1>5, ByteAppendData
  <2>3. cache' = FillCache(cache, span, data)
    BY <1>2, <2>1
  <2>4. /\ b \in span => cache'[b] = data[b]
        /\ b \notin span => cache'[b] \in {cache[b], LogByte(Sent, f.tree, b)}
        /\ cache'[b] = Hole /\ b \notin span => cache[b] = Hole
    <3>1. PICK filled : filled = cache'
      OBVIOUS
    <3>2. filled = FillCache(cache, span, data) /\ ~FilledWrong(filled, span, f.tree)
      BY <1>2, <2>3, <3>1
    <3> HIDE DEF data
    <3> QED
      BY <3>1, <3>2, FilledRight
  <2>5. LogByte(Sent, f.tree, b) = SentByte(Sent, b)
    BY <1>1 DEF MemoryIsLog, SentByte
  <2>6. /\ cache[b] # Hole => cache[b] = SentByte(Sent, b)
        /\ cache[b] = Hole /\ file.new_file => SentByte(Sent, b) = Zero
    BY <1>1, <2>1 DEF CacheIsLog
  <2>7. data[b] = x /\ x # Hole
    BY FileStoreAssumption DEF Hole
  <2> HIDE DEF data
  <2> QED
    BY <1>4, <2>2, <2>4, <2>5, <2>6, <2>7
<1> QED
  BY <1>6, <1>9, <1>10
\* The file do_write is called with.
LEMMA WriteCall ==
  ASSUME StoreInv, NEW span \in Spans, NEW x \in Data, Write(span, x)
  PROVE  \E f \in FileType :
            /\ DoWrite(f, span, x) /\ f.tree = file.tree /\ f.new_file = file.new_file
            /\ f.perm = file.perm /\ f.size = Max({file.size, Max(span) + 1})
<1> DEFINE n == Max({file.size, Max(span) + 1})
           f == [file EXCEPT !.size = n]
<1>1. file \in FileType
  BY DEF StoreInv, StoreTypes
<1>2. n \in 0 .. FileLen
  <2>1. Max(span) + 1 \in 0 .. FileLen
    BY SpanFacts, CacheAssumption
  <2>2. file.size \in 0 .. FileLen
    BY <1>1 DEF FileType
  <2> QED
    BY <2>1, <2>2, LargerSize
<1>3. DoWrite(f, span, x)
  BY DEF Write
<1>4. /\ f \in FileType /\ f.tree = file.tree /\ f.new_file = file.new_file
      /\ f.perm = file.perm /\ f.size = n
  <2> HIDE DEF n
  <2> QED
    BY <1>1, <1>2 DEF FileType
<1> HIDE DEF f
<1> QED
  BY <1>3, <1>4

LEMMA TruncateCall ==
  ASSUME StoreInv, Truncate
  PROVE  \E f \in FileType :
            /\ DoWrite(f, {}, 0) /\ f.tree = file.tree /\ f.new_file = file.new_file
            /\ f.perm = file.perm /\ f.size = 0
<1> DEFINE f == [file EXCEPT !.size = 0]
<1>1. /\ f \in FileType /\ f.tree = file.tree /\ f.new_file = file.new_file
      /\ f.perm = file.perm /\ f.size = 0
  <2>1. file \in FileType /\ 0 \in 0 .. FileLen
    BY CacheAssumption DEF StoreInv, StoreTypes
  <2> QED
    BY <2>1 DEF FileType
<1>2. DoWrite(f, {}, 0)
  BY DEF Truncate
<1> HIDE DEF f
<1> QED
  BY <1>1, <1>2

LEMMA SetPermCall ==
  ASSUME StoreInv, NEW p \in Perms, SetPerm(p)
  PROVE  \E f \in FileType :
            /\ DoWrite(f, {}, 0) /\ f.tree = file.tree /\ f.new_file = file.new_file
            /\ f.perm = p /\ f.size = file.size
<1> DEFINE f == [file EXCEPT !.perm = p]
<1>1. /\ f \in FileType /\ f.tree = file.tree /\ f.new_file = file.new_file
      /\ f.perm = p /\ f.size = file.size
  BY DEF FileType, StoreInv, StoreTypes
<1>2. DoWrite(f, {}, 0)
  BY DEF SetPerm
<1> HIDE DEF f
<1> QED
  BY <1>1, <1>2

LEMMA WritesKeepFile ==
  ASSUME StoreInv, FileInv
  PROVE  /\ \A span \in Spans, x \in Data : Write(span, x) => FileInv'
         /\ Truncate => FileInv'
         /\ \A p \in Perms : SetPerm(p) => FileInv'
<1>1. ASSUME NEW span \in Spans, NEW x \in Data, Write(span, x) PROVE FileInv'
  <2>1. PICK f \in FileType : DoWrite(f, span, x) /\ f.tree = file.tree /\ f.new_file = file.new_file
    BY <1>1, WriteCall
  <2>2. InUse /\ UNCHANGED <<log, up, flags, place, handle>> /\ span \in SUBSET Bytes
    BY <1>1, SpanFacts DEF Write
  <2> QED
    BY <2>1, <2>2, WriteKeepsFile
<1>2. ASSUME Truncate PROVE FileInv'
  <2>1. PICK f \in FileType : DoWrite(f, {}, 0) /\ f.tree = file.tree /\ f.new_file = file.new_file
    BY <1>2, TruncateCall
  <2>2. InUse /\ UNCHANGED <<log, up, flags, place, handle>>
    BY <1>2 DEF Truncate
  <2> QED
    BY <2>1, <2>2, WriteKeepsFile
<1>3. ASSUME NEW p \in Perms, SetPerm(p) PROVE FileInv'
  <2>1. PICK f \in FileType : DoWrite(f, {}, 0) /\ f.tree = file.tree /\ f.new_file = file.new_file
    BY <1>3, SetPermCall
  <2>2. InUse /\ UNCHANGED <<log, up, flags, place, handle>>
    BY <1>3 DEF SetPerm
  <2> QED
    BY <2>1, <2>2, WriteKeepsFile
<1> QED
  BY <1>1, <1>2, <1>3

\* Steps that leave the records and the index alone.
LEMMA SameFile ==
  ASSUME FileInv, UNCHANGED <<log, sent, up, use_cache, file, cache, harmed>>,
         place' # "absent" => place # "absent"
  PROVE  FileInv'
<1>1. Sent' = Sent
  BY DEF Sent
<1>2. TreesLookBack(Sent) => TreesLookBack(Sent)'
  BY <1>1 DEF TreesLookBack
<1>3. MemoryIsLog => MemoryIsLog'
  BY <1>1, NextBytes DEF MemoryIsLog, InMemory
<1>4. CacheIsLog => CacheIsLog'
  BY <1>1, NextBytes DEF CacheIsLog
<1> QED
  BY <1>2, <1>3, <1>4 DEF FileInv

LEMMA ReadKeepsFile ==
  ASSUME StoreInv, FileInv, NEW span \in Spans, Read(span)
  PROVE  FileInv'
<1> SUFFICES ASSUME ~harmed' PROVE TreesLookBack(Sent)' /\ MemoryIsLog' /\ CacheIsLog'
  BY DEF FileInv
<1> DEFINE want == {b \in span : b < file.size}
           data == [b \in Bytes |-> IndexByte(b)]
<1>1. StoreTypes /\ InMemory /\ TreesLookBack(Sent) /\ MemoryIsLog /\ CacheIsLog
  BY DEF StoreInv, CountsCover, FileInv, InUse, InMemory, Read
<1>2. /\ cache' = FillCache(cache, want, data) /\ ~FilledWrong(cache', want, file.tree)
      /\ UNCHANGED <<log, sent, up, flags, memory>> /\ use_cache
  BY DEF Read
<1>3. Sent' = Sent
  BY <1>2 DEF Sent
<1>4. TreesLookBack(Sent)'
  BY <1>1, <1>3 DEF TreesLookBack
<1>5. MemoryIsLog'
  BY <1>1, <1>2, <1>3, NextBytes DEF MemoryIsLog, InMemory, memory
<1>6. CacheIsLog'
  <2> SUFFICES ASSUME NEW b \in Bytes
               PROVE  /\ cache'[b] # Hole => cache'[b] = SentByte(Sent, b)
                      /\ cache'[b] = Hole /\ file'.new_file => SentByte(Sent, b) = Zero
    BY <1>3, NextBytes DEF CacheIsLog
  <2>1. want \in SUBSET Bytes
    BY SpanFacts
  <2>2. /\ b \in want => cache'[b] = data[b]
        /\ b \notin want => cache'[b] \in {cache[b], LogByte(Sent, file.tree, b)}
        /\ cache'[b] = Hole /\ b \notin want => cache[b] = Hole
    <3>1. PICK filled : filled = cache'
      OBVIOUS
    <3> HIDE DEF data, want
    <3>2. filled = FillCache(cache, want, data) /\ ~FilledWrong(filled, want, file.tree)
      BY <1>2, <3>1
    <3> QED
      BY <2>1, <3>1, <3>2, FilledRight
  <2>3. LogByte(Sent, file.tree, b) = SentByte(Sent, b)
    BY <1>1 DEF MemoryIsLog, SentByte
  <2>4. data[b] = SentByte(Sent, b)
    BY <2>3 DEF IndexByte
  <2>5. /\ cache[b] # Hole => cache[b] = SentByte(Sent, b)
        /\ cache[b] = Hole /\ file.new_file => SentByte(Sent, b) = Zero
    BY <1>1, <1>2 DEF CacheIsLog, InMemory
  <2>6. SentByte(Sent, b) # Hole
    BY <1>1, SentFacts, LogByteType, FileStoreAssumption DEF SentByte, Hole, Zero, Garbage
  <2>7. file' = file
    BY <1>2 DEF memory
  <2> HIDE DEF data, want
  <2> QED
    BY <2>2, <2>3, <2>4, <2>5, <2>6, <2>7
<1> QED
  BY <1>4, <1>5, <1>6

\* Without records nothing is indexed.
LEMMA RebuiltEmpty ==
  ASSUME NEW b \in Bytes
  PROVE  /\ Rebuilt(<< >>)[b] = 0 /\ SentByte(<< >>, b) = Zero
<1>1. LaterThan(<< >>, Newest(<< >>)) = {}
  BY DEF LaterThan
<1>2. Newest(<< >>) = 0
  <2>1. << >> \in Seq(Records) /\ Len(<< >>) = 0
    OBVIOUS
  <2>2. Newest(<< >>) \in 0 .. Len(<< >>)
    BY <2>1, RebuiltType
  <2> QED
    BY <2>1, <2>2
<1>3. Rebuilt(<< >>)[b] = 0
  BY <1>1, <1>2 DEF Rebuilt
<1> QED
  BY <1>3 DEF SentByte, LogByte

LEMMA CreateKeepsFile ==
  ASSUME StoreInv, FileInv, NEW perm \in Perms, NEW strict \in BOOLEAN, Create(perm, strict)
  PROVE  FileInv'
<1> SUFFICES ASSUME ~harmed' PROVE TreesLookBack(Sent)' /\ MemoryIsLog' /\ CacheIsLog'
  BY DEF FileInv
<1> DEFINE f == [NoFile EXCEPT !.perm = perm, !.new_file = strict]
           rec == DataRec({}, 0, f)
<1>1. /\ up = "run" /\ place = "absent" /\ Sent = << >> /\ place' = "held"
      /\ UNCHANGED <<log, up, flags, cache, harmed>> /\ sent' = <<rec>>
  BY DEF Create
<1>2. StoreTypes /\ sent = << >> /\ TreesLookBack(Sent) /\ CacheIsLog
  BY <1>1 DEF StoreInv, CountsCover, FileInv
<1>3. file' = [f EXCEPT !.last_recno = 1, !.dirty = TRUE, !.outstanding_reqs = 1]
  BY DEF Create
<1>4. /\ f \in FileType /\ f.size = 0 /\ f.perm = perm /\ file'.size = 0 /\ file'.perm = perm
      /\ file'.tree = NoIndex
  BY <1>3, NoFileType DEF FileType, NoFile, NoIndex
<1> HIDE DEF f
<1>5. /\ rec \in Records /\ rec.kind = "data" /\ rec.span = {} /\ rec.size = 0 /\ rec.perm = perm
  BY <1>4, DataRecType
<1> HIDE DEF rec
<1>6. sent' = Append(sent, rec)
  BY <1>1, <1>2
<1>7. /\ Sent' = Append(Sent, rec) /\ Sent \in Seq(Records)
      /\ Sent'[Len(Sent')] = rec /\ Sent' # << >>
  BY <1>1, <1>2, <1>5, <1>6, SentGrows
<1>8. TreesLookBack(Sent)'
  <2>1. TreesLookBack(Append(Sent, rec))
    BY <1>2, <1>5, <1>7, LookBackAppend
  <2> QED
    BY <1>7, <2>1 DEF TreesLookBack
<1>9. file'.tree = Rebuilt(Sent')
  <2>1. \A b \in Bytes : Rebuilt(Append(Sent, rec))[b] = 0
    <3> SUFFICES ASSUME NEW b \in Bytes PROVE Rebuilt(Append(Sent, rec))[b] = 0
      OBVIOUS
    <3>1. Rebuilt(Append(Sent, rec))[b] = Rebuilt(Sent)[b]
      BY <1>5, <1>7, RebuiltAppendData
    <3> QED
      BY <1>1, <3>1, RebuiltEmpty
  <2>2. Rebuilt(Append(Sent, rec)) \in [Bytes -> Nat]
    BY <1>5, <1>7, AppendProperties, RebuiltType
  <2>3. Rebuilt(Append(Sent, rec)) = NoIndex
    BY <2>1, <2>2 DEF NoIndex
  <2> QED
    BY <1>4, <1>7, <2>3
<1>10. MemoryIsLog'
  BY <1>4, <1>5, <1>7, <1>9, NextBytes DEF MemoryIsLog
<1>11. CacheIsLog'
  <2> SUFFICES ASSUME up' = "run", use_cache', NEW b \in Bytes
               PROVE  /\ cache'[b] # Hole => cache'[b] = SentByte(Append(Sent, rec), b)
                      /\ cache'[b] = Hole /\ file'.new_file => SentByte(Append(Sent, rec), b) = Zero
    BY <1>7, NextBytes DEF CacheIsLog
  <2>1. SentByte(Append(Sent, rec), b) = SentByte(Sent, b) /\ SentByte(Sent, b) = Zero
    BY <1>1, <1>2, <1>5, <1>7, ByteAppendData, RebuiltEmpty
  <2>2. use_cache /\ cache' = cache
    BY <1>1 DEF flags
  <2> QED
    BY <1>1, <1>2, <2>1, <2>2 DEF CacheIsLog
<1> QED
  BY <1>8, <1>10, <1>11

LEMMA LoadKeepsFile ==
  ASSUME StoreInv, FileInv, Load
  PROVE  FileInv'
<1> SUFFICES ASSUME ~harmed' PROVE TreesLookBack(Sent)' /\ MemoryIsLog' /\ CacheIsLog'
  BY DEF FileInv
<1> DEFINE later == LaterThan(log, Newest(log))
           span == UNION {log[r].span : r \in later}
           data == [b \in Bytes |-> LogByte(log, Rebuilt(log), b)]
           last == log[Len(log)]
<1>1. /\ up = "run" /\ place = "absent" /\ log # << >> /\ UNCHANGED <<log, sent, flags>> /\ ~harmed
  BY DEF Load
<1>2. StoreTypes /\ sent = << >> /\ TreesLookBack(Sent) /\ CacheIsLog
  BY <1>1 DEF StoreInv, CountsCover, FileInv
<1>3. Sent = log /\ Sent' = Sent /\ Sent \in Seq(Records)
  <2>1. Sent' = Sent
    BY <1>1 DEF Sent
  <2> QED
    BY <1>2, <2>1, SentFacts
<1>4. TreesLookBack(Sent)'
  BY <1>2, <1>3 DEF TreesLookBack
<1>5. CASE up' = "dead"
  BY <1>4, <1>5 DEF MemoryIsLog, CacheIsLog, InMemory
<1>6. CASE up' # "dead"
  <2>1. /\ file' = [NoFile EXCEPT !.size = last.size, !.perm = last.perm,
                                  !.tree = Rebuilt(log), !.last_recno = Len(log),
                                  !.dirty = Newest(log) = 0 \/ later # {}]
        /\ use_cache => cache' = FillCache(cache, span, data)
        /\ use_cache => ~FilledWrong(cache', span, Rebuilt(log))
    BY <1>6 DEF Load
  <2>2. /\ file'.size = last.size /\ file'.perm = last.perm /\ file'.tree = Rebuilt(log)
        /\ file'.new_file = FALSE
    <3> HIDE DEF last, later
    <3> QED
      BY <2>1 DEF NoFile
  <2>3. MemoryIsLog'
    BY <1>1, <1>3, <2>2, NextBytes DEF MemoryIsLog
  <2>4. CacheIsLog'
    <3> SUFFICES ASSUME use_cache', NEW b \in Bytes
                 PROVE  cache'[b] # Hole => cache'[b] = SentByte(Sent, b)
      BY <1>3, <2>2, NextBytes DEF CacheIsLog
    <3>1. use_cache
      BY <1>1 DEF flags
    <3>2. span \in SUBSET Bytes
      BY <1>3, LaterSpans
    <3>3. /\ b \in span => cache'[b] = data[b]
          /\ b \notin span => cache'[b] \in {cache[b], LogByte(Sent, Rebuilt(log), b)}
          /\ cache'[b] = Hole /\ b \notin span => cache[b] = Hole
      <4>1. PICK filled : filled = cache'
        OBVIOUS
      <4> HIDE DEF data, span
      <4>2. filled = FillCache(cache, span, data) /\ ~FilledWrong(filled, span, Rebuilt(log))
        BY <2>1, <3>1, <4>1
      <4> QED
        BY <3>2, <4>1, <4>2, FilledRight
    <3>4. LogByte(Sent, Rebuilt(log), b) = SentByte(Sent, b) /\ data[b] = SentByte(Sent, b)
      BY <1>3 DEF SentByte
    <3>5. cache[b] # Hole => cache[b] = SentByte(Sent, b)
      BY <1>1, <1>2, <3>1 DEF CacheIsLog
    <3> HIDE DEF data, span
    <3> QED
      BY <3>3, <3>4, <3>5
  <2> QED
    BY <1>4, <2>3, <2>4
<1> QED
  BY <1>5, <1>6

\* _file_chkpt leaves what the user sees of the file; its record holds all of it.
LEMMA ChkptFile ==
  ASSUME StoreTypes, NEW next, Chkpt(next)
  PROVE  /\ file'.size = file.size /\ file'.perm = file.perm /\ file'.tree = file.tree
         /\ file'.new_file = file.new_file
         /\ sent' = sent \/ sent' = Append(sent, CkptRec(file))
<1>1. file \in FileType
  BY DEF StoreTypes
<1>2. PICK g : g = file'
  OBVIOUS
<1>3. \/ g = [file EXCEPT !.last_recno = @ + 1]
      \/ g = [file EXCEPT !.last_recno = @ + 1, !.dirty = FALSE, !.index_flush_reqs = @ + 1]
  BY <1>2 DEF Chkpt
<1>4. sent' = sent \/ sent' = Append(sent, CkptRec(file))
  BY DEF Chkpt
<1>5. g.size = file.size /\ g.perm = file.perm /\ g.tree = file.tree /\ g.new_file = file.new_file
  BY <1>1, <1>3 DEF FileType
<1> QED
  BY <1>2, <1>4, <1>5

\* Adding a checkpoint of the file in memory changes nothing of what the log says.
LEMMA ChkptKeepsFile ==
  ASSUME StoreInv, FileInv, InMemory, NEW next, Chkpt(next), UNCHANGED <<log, flags, cache, harmed>>
  PROVE  FileInv'
<1> SUFFICES ASSUME ~harmed' PROVE TreesLookBack(Sent)' /\ MemoryIsLog' /\ CacheIsLog'
  BY DEF FileInv
<1>1. StoreTypes /\ TreesLookBack(Sent) /\ MemoryIsLog /\ CacheIsLog /\ up = "run"
  BY DEF StoreInv, FileInv, InMemory
<1>2. /\ file'.size = file.size /\ file'.perm = file.perm /\ file'.tree = file.tree
      /\ file'.new_file = file.new_file
      /\ sent' = sent \/ sent' = Append(sent, CkptRec(file))
  BY <1>1, ChkptFile
<1>3. /\ Sent # << >> /\ file.tree = Rebuilt(Sent)
      /\ file.size = Sent[Len(Sent)].size /\ file.perm = Sent[Len(Sent)].perm
  BY <1>1 DEF MemoryIsLog
<1>4. CASE sent' = sent
  <2>1. Sent' = Sent
    BY <1>4 DEF Sent
  <2>2. TreesLookBack(Sent)'
    BY <1>1, <2>1 DEF TreesLookBack
  <2>3. MemoryIsLog'
    BY <1>2, <1>3, <2>1, NextBytes DEF MemoryIsLog
  <2>4. CacheIsLog'
    BY <1>1, <1>2, <2>1, NextBytes DEF CacheIsLog, flags
  <2> QED
    BY <2>2, <2>3, <2>4
<1>5. CASE sent' = Append(sent, CkptRec(file))
  <2> DEFINE rec == CkptRec(file)
  <2>1. /\ rec \in Records /\ rec.kind = "ckpt" /\ rec.tree = Rebuilt(Sent)
        /\ rec.size = file.size /\ rec.perm = file.perm
    BY <1>1, <1>3, CkptRecType DEF StoreTypes
  <2> HIDE DEF rec
  <2>2. /\ Sent' = Append(Sent, rec) /\ Sent \in Seq(Records)
        /\ Sent'[Len(Sent')] = rec /\ Sent' # << >>
    BY <1>1, <1>5, <2>1, SentGrows DEF rec
  <2>3. TreesLookBack(Sent)'
    <3>1. TreesLookBack(Append(Sent, rec))
      BY <1>1, <2>1, <2>2, LookBackAppend
    <3> QED
      BY <2>2, <3>1 DEF TreesLookBack
  <2>4. Rebuilt(Append(Sent, rec)) = Rebuilt(Sent)
    <3>1. \A b \in Bytes : Rebuilt(Append(Sent, rec))[b] = Rebuilt(Sent)[b]
      BY <2>1, <2>2, RebuiltAppendCkpt
    <3>2. Rebuilt(Append(Sent, rec)) \in [Bytes -> Nat] /\ Rebuilt(Sent) \in [Bytes -> Nat]
      BY <2>1, <2>2, AppendProperties, RebuiltType
    <3> QED
      BY <3>1, <3>2
  <2>5. MemoryIsLog'
    BY <1>2, <1>3, <2>1, <2>2, <2>4, NextBytes DEF MemoryIsLog
  <2>6. CacheIsLog'
    <3> SUFFICES ASSUME use_cache', NEW b \in Bytes
                 PROVE  /\ cache'[b] # Hole => cache'[b] = SentByte(Append(Sent, rec), b)
                        /\ cache'[b] = Hole /\ file'.new_file => SentByte(Append(Sent, rec), b) = Zero
      BY <2>2, NextBytes DEF CacheIsLog
    <3>1. SentByte(Append(Sent, rec), b) = SentByte(Sent, b)
      BY <1>1, <2>1, <2>2, ByteAppendCkpt
    <3>2. use_cache /\ cache' = cache
      BY DEF flags
    <3> QED
      BY <1>1, <1>2, <3>1, <3>2 DEF CacheIsLog
  <2> QED
    BY <2>3, <2>5, <2>6
<1> QED
  BY <1>2, <1>4, <1>5

LEMMA EvictKeepsFile ==
  ASSUME StoreInv, FileInv, Evict
  PROVE  FileInv'
BY ChkptKeepsFile DEF Evict, InMemory, history

LEMMA StopKeepsFile ==
  ASSUME StoreInv, FileInv, Stop
  PROVE  FileInv'
<1>1. CASE place = "absent"
  <2>1. up' = "stop" /\ UNCHANGED <<file, sent, log, harmed>>
    BY <1>1 DEF Stop, history
  <2>2. Sent' = Sent
    BY <2>1 DEF Sent
  <2>3. TreesLookBack(Sent) => TreesLookBack(Sent)'
    BY <2>2 DEF TreesLookBack
  <2> QED
    BY <2>1, <2>3 DEF FileInv, MemoryIsLog, CacheIsLog, InMemory
<1>2. CASE place # "absent"
  <2>1. Chkpt("stop") /\ InMemory /\ UNCHANGED <<log, flags, cache, harmed>>
    BY <1>2 DEF Stop, history, InMemory
  <2> QED
    BY <2>1, ChkptKeepsFile
<1> QED
  BY <1>1, <1>2

\* What a callback leaves of the file.
LEMMA AnsweredFile ==
  ASSUME StoreTypes, NEW kind, Answered(kind)
  PROVE  \/ place' = "absent" /\ file' = NoFile
         \/ /\ file'.size = file.size /\ file'.perm = file.perm /\ file'.tree = file.tree
            /\ file'.new_file = file.new_file
<1>1. file \in FileType
  BY DEF StoreTypes
<1>2. PICK g : g = file'
  OBVIOUS
<1>3. \/ place' = "absent" /\ g = NoFile
      \/ g = file
      \/ g = [file EXCEPT !.outstanding_reqs = @ - 1]
      \/ g = [file EXCEPT !.index_flush_reqs = @ - 1]
  BY <1>2 DEF Answered
<1>4. \/ place' = "absent" /\ g = NoFile
      \/ /\ g.size = file.size /\ g.perm = file.perm /\ g.tree = file.tree
         /\ g.new_file = file.new_file
  BY <1>1, <1>3 DEF FileType
<1> QED
  BY <1>2, <1>4

LEMMA DeliverSent ==
  ASSUME StoreTypes, Deliver
  PROVE  Sent' = Sent
BY SentTaken DEF StoreTypes, Deliver, Sent

LEMMA DeliverKeepsFile ==
  ASSUME StoreInv, FileInv, Deliver
  PROVE  FileInv'
<1> SUFFICES ASSUME ~harmed' PROVE TreesLookBack(Sent)' /\ MemoryIsLog' /\ CacheIsLog'
  BY DEF FileInv
<1>1. StoreTypes /\ CountsCover /\ Answered(Head(sent).kind) /\ sent # << >>
      /\ UNCHANGED <<up, use_cache, handle, cache, harmed>>
  BY DEF StoreInv, Deliver, flags, history
<1>2. TreesLookBack(Sent) /\ MemoryIsLog /\ CacheIsLog
  BY <1>1 DEF FileInv
<1>3. Sent' = Sent
  BY <1>1, DeliverSent
<1>4. TreesLookBack(Sent)'
  BY <1>2, <1>3 DEF TreesLookBack
<1>5. up = "run" => place # "absent"
  BY <1>1 DEF CountsCover
<1>6. CASE place' = "absent" /\ file' = NoFile
  <2>1. ~file'.new_file
    BY <1>6 DEF NoFile
  <2>2. MemoryIsLog'
    BY <1>6 DEF MemoryIsLog, InMemory
  <2>3. CacheIsLog'
    BY <1>1, <1>2, <1>3, <2>1, NextBytes DEF CacheIsLog
  <2> QED
    BY <1>4, <2>2, <2>3
<1>7. CASE /\ file'.size = file.size /\ file'.perm = file.perm /\ file'.tree = file.tree
           /\ file'.new_file = file.new_file
  <2>1. MemoryIsLog'
    BY <1>1, <1>2, <1>3, <1>5, <1>7, NextBytes DEF MemoryIsLog, InMemory
  <2>2. CacheIsLog'
    BY <1>1, <1>2, <1>3, <1>7, NextBytes DEF CacheIsLog
  <2> QED
    BY <1>4, <2>1, <2>2
<1> QED
  BY <1>1, <1>6, <1>7, AnsweredFile

LEMMA RestartSent ==
  ASSUME StoreTypes, sent' = << >>, log' = log
  PROVE  Sent' = log
<1>1. log \o << >> = log
  BY ConcatEmptySeq DEF StoreTypes
<1> QED
  BY <1>1 DEF Sent

LEMMA RestartKeepsFile ==
  ASSUME StoreInv, FileInv, Restart
  PROVE  FileInv'
<1> SUFFICES ASSUME ~harmed' PROVE TreesLookBack(Sent)' /\ MemoryIsLog' /\ CacheIsLog'
  BY DEF FileInv
<1>1. StoreTypes /\ TreesLookBack(Sent)
  BY DEF StoreInv, FileInv, Restart
<1>2. /\ Sent' = log /\ place' = "absent" /\ file' = NoFile
      /\ use_cache' => cache' = EmptyCache
  BY <1>1, RestartSent DEF Restart
<1>3. TreesLookBack(Sent)'
  <2>1. TreesLookBack(log)
    BY <1>1, LookBackPrefix
  <2> QED
    BY <1>2, <2>1 DEF TreesLookBack
<1>4. MemoryIsLog'
  BY <1>2 DEF MemoryIsLog, InMemory
<1>5. CacheIsLog'
  <2>1. ~file'.new_file
    BY <1>2 DEF NoFile
  <2>2. use_cache' => \A b \in Bytes : cache'[b] = Hole
    BY <1>2 DEF EmptyCache
  <2> QED
    BY <2>1, <2>2 DEF CacheIsLog
<1> QED
  BY <1>3, <1>4, <1>5

LEMMA FileInit == Init => FileInv
<1> SUFFICES ASSUME Init PROVE FileInv
  OBVIOUS
<1>1. Sent = << >>
  BY ConcatEmptySeq DEF Init, Sent
<1>2. TreesLookBack(Sent)
  BY <1>1 DEF TreesLookBack
<1>3. MemoryIsLog
  BY DEF Init, MemoryIsLog, InMemory
<1>4. CacheIsLog
  <2>1. ~file.new_file /\ \A b \in Bytes : cache[b] = Hole
    BY DEF Init, NoFile, EmptyCache
  <2> QED
    BY <2>1 DEF CacheIsLog
<1> QED
  BY <1>2, <1>3, <1>4 DEF FileInv

LEMMA ReviveKeepsFile ==
  ASSUME FileInv, Revive
  PROVE  FileInv'
BY SameFile DEF Revive, flags, history

LEMMA CloseKeepsFile ==
  ASSUME StoreInv, FileInv, Close
  PROVE  FileInv'
<1>1. place # "absent"
  BY DEF StoreInv, CountsCover, Close
<1> QED
  BY <1>1, SameFile DEF Close, flags, history

LEMMA FileStep == StoreInv /\ FileInv /\ [Next]_vars => FileInv'
<1> SUFFICES ASSUME StoreInv, FileInv, [Next]_vars PROVE FileInv'
  OBVIOUS
<1>1. Fail => FileInv'
  BY DEF Fail, FileInv
<1>2. CASE Next
  BY <1>1, <1>2, WritesKeepFile, CreateKeepsFile, ReadKeepsFile, ReviveKeepsFile, LoadKeepsFile,
     CloseKeepsFile, EvictKeepsFile, StopKeepsFile, DeliverKeepsFile, RestartKeepsFile DEF Next
<1>3. CASE UNCHANGED vars
  BY <1>3, SameFile DEF vars, flags, memory, history
<1> QED
  BY <1>2, <1>3
-----------------------------------------------------------------------------
\* While the file is unharmed its current version is what all its records make.
LEMMA NowIsLog ==
  ASSUME StoreInv, FileInv, ~harmed
  PROVE  NowVersion = LogVersion(Sent)
<1>1. CASE ~InMemory
  BY <1>1 DEF NowVersion, InMemory
<1>2. CASE InMemory
  <2>1. MemoryIsLog /\ CacheIsLog
    BY DEF FileInv
  <2>2. /\ Sent # << >> /\ file.size = Sent[Len(Sent)].size /\ file.perm = Sent[Len(Sent)].perm
    BY <1>2, <2>1 DEF MemoryIsLog
  <2>3. [b \in InFile(file.size) |-> ReadByte(b)] =
          [b \in InFile(file.size) |-> LogByte(Sent, Rebuilt(Sent), b)]
    <3>1. \A b \in InFile(file.size) : ReadByte(b) = LogByte(Sent, Rebuilt(Sent), b)
      BY <1>2, <2>1, ReadsLog DEF InFile, SentByte
    <3> QED
      BY <3>1
  <2>4. MemoryVersion = LogVersion(Sent)
    BY <2>2, <2>3 DEF MemoryVersion, LogVersion
  <2> QED
    BY <1>2, <2>4 DEF NowVersion, InMemory
<1> QED
  BY <1>1, <1>2

LEMMA NowIsLogNext ==
  ASSUME StoreInv', FileInv', ~harmed'
  PROVE  NowVersion' = LogVersion(Sent')
<1>1. (StoreInv /\ FileInv /\ ~harmed => NowVersion = LogVersion(Sent))'
  BY NowIsLog, PTL
<1>2. LogVersion(Sent)' = LogVersion(Sent')
  BY DEF LogVersion, InFile, LogByte, Rebuilt, Newest, LaterThan
<1> QED
  BY <1>1, <1>2

LEMMA InitRefined == Init => A!Init
<1> SUFFICES ASSUME Init PROVE A!Init
  OBVIOUS
<1>1. Sent = << >> /\ Len(sent) = 0 /\ harmed = FALSE
  BY ConcatEmptySeq DEF Init, Sent
<1>2. BeforeVersions = << >>
  BY <1>1 DEF BeforeVersions
<1>3. NowVersion = A!Missing
  BY <1>1 DEF NowVersion, Init, LogVersion, A!Missing
<1> QED
  BY <1>1, <1>2, <1>3 DEF A!Init

\* What the abstract file makes of the records is a state function of them.
LEMMA BeforeNext ==
  BeforeVersions' = [i \in 1 .. Len(sent') |-> LogVersion(SubSeq(Sent', 1, Len(log') + i - 1))]
BY DEF BeforeVersions, LogVersion, InFile, LogByte, Rebuilt, Newest, LaterThan

\* The GDP takes a record: the version before it need not be kept any more.
LEMMA DeliverRefined ==
  ASSUME StoreInv, FileInv, StoreInv', FileInv', ~harmed, ~harmed', Deliver
  PROVE  A!Settle
<1>1. StoreTypes /\ Sent' = Sent
  BY DeliverSent DEF StoreInv
<1>2. NowVersion' = NowVersion
  BY <1>1, NowIsLog, NowIsLogNext
<1>3. sent # << >> /\ sent' = Tail(sent) /\ log' = Append(log, Head(sent)) /\ sent \in Seq(Records)
      /\ log \in Seq(Records)
  BY <1>1 DEF Deliver, StoreTypes
<1>4. /\ Len(sent') = Len(sent) - 1 /\ Len(sent) \in Nat \ {0}
      /\ Len(log') = Len(log) + 1 /\ Len(log) \in Nat
  <2>1. Len(sent) \in Nat \ {0} /\ Len(log) \in Nat
    BY <1>3
  <2>2. Head(sent) \in Records /\ Len(Tail(sent)) = Len(sent) - 1
    BY <1>3, HeadTailProperties
  <2>3. Len(Append(log, Head(sent))) = Len(log) + 1
    BY <1>3, <2>2, AppendProperties
  <2> QED
    BY <1>3, <2>1, <2>2, <2>3
<1>5. BeforeVersions' = Tail(BeforeVersions)
  <2> DEFINE F(i) == LogVersion(SubSeq(Sent, 1, Len(log) + i - 1))
             G(i) == LogVersion(SubSeq(Sent, 1, Len(log) + 1 + i - 1))
  <2>1. BeforeVersions = [i \in 1 .. Len(sent) |-> F(i)]
    BY DEF BeforeVersions
  <2>2. BeforeVersions' = [i \in 1 .. Len(sent) - 1 |-> G(i)]
    BY <1>1, <1>4, BeforeNext
  <2>3. \A i \in 1 .. Len(sent) - 1 : G(i) = F(i + 1)
    <3> SUFFICES ASSUME NEW i \in 1 .. Len(sent) - 1 PROVE G(i) = F(i + 1)
      OBVIOUS
    <3>1. Len(log) + 1 + i - 1 = Len(log) + (i + 1) - 1
      BY <1>4
    <3> QED
      BY <3>1
  <2> HIDE DEF F, G
  <2>4. Tail([i \in 1 .. Len(sent) |-> F(i)]) = [i \in 1 .. Len(sent) - 1 |-> F(i + 1)]
    BY <1>4
  <2>5. [i \in 1 .. Len(sent) - 1 |-> F(i + 1)] = [i \in 1 .. Len(sent) - 1 |-> G(i)]
    BY <2>3
  <2> QED
    BY <2>1, <2>2, <2>4, <2>5
<1> QED
  BY <1>2, <1>4, <1>5 DEF A!Settle

\* Nothing is appended or taken: nothing happens to the abstract file.
LEMMA SameRefined ==
  ASSUME StoreInv, FileInv, StoreInv', FileInv', ~harmed, ~harmed', log' = log, sent' = sent
  PROVE  UNCHANGED A!vars
<1>1. Sent' = Sent
  BY DEF Sent
<1>2. NowVersion' = NowVersion
  BY <1>1, NowIsLog, NowIsLogNext
<1>3. BeforeVersions' = BeforeVersions
  <2>1. BeforeVersions = [i \in 1 .. Len(sent) |-> LogVersion(SubSeq(Sent, 1, Len(log) + i - 1))]
    BY DEF BeforeVersions
  <2> QED
    BY <1>1, <2>1, BeforeNext
<1> QED
  BY <1>2, <1>3 DEF A!vars

\* The program ends: of the file what the GDP has taken is left.
LEMMA RestartRefined ==
  ASSUME StoreInv, FileInv, StoreInv', FileInv', ~harmed, ~harmed', Restart
  PROVE  A!Crash \/ UNCHANGED A!vars
<1>1. StoreTypes /\ log \in Seq(Records) /\ sent \in Seq(Records) /\ sent' = << >> /\ log' = log
  BY DEF StoreInv, StoreTypes, Restart
<1>2. CASE sent = << >>
  BY <1>1, <1>2, SameRefined
<1>3. CASE sent # << >>
  <2>1. Len(sent) \in Nat \ {0} /\ Len(sent') = 0 /\ Len(log) \in Nat
    BY <1>1, <1>3
  <2>2. NowVersion' = LogVersion(log)
    BY <1>1, RestartSent, NowIsLogNext
  <2>3. BeforeVersions' = << >>
    BY <2>1, BeforeNext
  <2>4. SubSeq(Sent, 1, Len(log)) = log
    <3>1. CASE log = << >>
      <4>1. Len(log) = 0
        BY <3>1
      <4> QED
        BY <3>1, <4>1, SubSeqEmpty
    <3>2. CASE log # << >>
      <4>1. 1 \in 1 .. Len(log) /\ Len(log) \in 1 .. Len(log)
        BY <1>1, <3>2
      <4>2. SubSeq(log \o sent, 1, Len(log)) = SubSeq(log, 1, Len(log))
        BY <1>1, <4>1, SubSeqOfConcat1
      <4> QED
        BY <1>1, <4>2, SubSeqFull DEF Sent
    <3> QED
      BY <3>1, <3>2
  <2>5. Head(BeforeVersions) = LogVersion(log)
    <3> DEFINE F(i) == LogVersion(SubSeq(Sent, 1, Len(log) + i - 1))
    <3>1. BeforeVersions = [i \in 1 .. Len(sent) |-> F(i)]
      BY DEF BeforeVersions
    <3>2. F(1) = LogVersion(log)
      <4>1. Len(log) + 1 - 1 = Len(log)
        BY <2>1
      <4> QED
        BY <2>4, <4>1
    <3> HIDE DEF F
    <3>3. Head([i \in 1 .. Len(sent) |-> F(i)]) = F(1)
      BY <2>1
    <3> QED
      BY <3>1, <3>2, <3>3
  <2>6. A!Crash
    BY <2>1, <2>2, <2>3, <2>5 DEF A!Crash
  <2> QED
    BY <2>6
<1> QED
  BY <1>2, <1>3

\* An append makes the next version of what the records before it make.
LEMMA BeforeGrows ==
  ASSUME StoreTypes, NEW rec \in Records, log' = log, sent' = Append(sent, rec)
  PROVE  BeforeVersions' = Append(BeforeVersions, LogVersion(Sent))
<1>1. /\ Sent' = Append(Sent, rec) /\ Sent \in Seq(Records) /\ Len(Sent) = Len(log) + Len(sent)
      /\ Len(log) \in Nat /\ Len(sent) \in Nat
  BY SentGrows, SentFacts
<1>2. Len(sent') = Len(sent) + 1
  BY AppendProperties DEF StoreTypes
<1> DEFINE F(i) == LogVersion(SubSeq(Sent, 1, Len(log) + i - 1))
           G(i) == LogVersion(SubSeq(Append(Sent, rec), 1, Len(log) + i - 1))
<1>3. BeforeVersions = [i \in 1 .. Len(sent) |-> F(i)]
  BY DEF BeforeVersions
<1>4. BeforeVersions' = [i \in 1 .. Len(sent) + 1 |-> G(i)]
  BY <1>1, <1>2, BeforeNext
<1>5. \A i \in 1 .. Len(sent) + 1 : G(i) = F(i)
  <2> SUFFICES ASSUME NEW i \in 1 .. Len(sent) + 1 PROVE G(i) = F(i)
    OBVIOUS
  <2>1. Len(log) + i - 1 \in 0 .. Len(Sent)
    BY <1>1
  <2>2. SubSeq(Append(Sent, rec), 1, Len(log) + i - 1) = SubSeq(Sent, 1, Len(log) + i - 1)
    BY <1>1, <2>1, PrefixKept
  <2> QED
    BY <2>2
<1>6. F(Len(sent) + 1) = LogVersion(Sent)
  <2>1. Len(log) + (Len(sent) + 1) - 1 = Len(Sent)
    BY <1>1
  <2>2. SubSeq(Sent, 1, Len(Sent)) = Sent
    BY <1>1, SubSeqFull
  <2> QED
    BY <2>1, <2>2
<1> DEFINE v == LogVersion(Sent)
<1> HIDE DEF F, G, v
<1>7. Append([i \in 1 .. Len(sent) |-> F(i)], v) =
        [i \in 1 .. Len(sent) + 1 |-> IF i = Len(sent) + 1 THEN v ELSE F(i)]
  BY <1>1
<1>8. [i \in 1 .. Len(sent) + 1 |-> IF i = Len(sent) + 1 THEN v ELSE F(i)] =
        [i \in 1 .. Len(sent) + 1 |-> G(i)]
  BY <1>5, <1>6 DEF v
<1> QED
  BY <1>3, <1>4, <1>7, <1>8 DEF v

\* One version follows another in the way the abstract file allows.
Follows(old, new) ==
    \/ A!Created(old, new)
    \/ /\ old.type = "file" /\ new.type = "file"
       /\ A!Written(old, new) \/ A!Truncated(old, new) \/ A!Permitted(old, new)

LEMMA AppendRefined ==
  ASSUME StoreInv, FileInv, StoreInv', FileInv', ~harmed, ~harmed', NEW rec \in Records,
         log' = log, sent' = Append(sent, rec),
         Follows(LogVersion(Sent), LogVersion(Append(Sent, rec)))
  PROVE  A!Change
<1>1. StoreTypes /\ sent \in Seq(Records)
  BY DEF StoreInv, StoreTypes
<1>2. Sent' = Append(Sent, rec) /\ Len(sent') = Len(sent) + 1
  BY <1>1, SentGrows, AppendProperties
<1>3. NowVersion = LogVersion(Sent) /\ NowVersion' = LogVersion(Append(Sent, rec))
  BY <1>2, NowIsLog, NowIsLogNext
<1>4. BeforeVersions' = Append(BeforeVersions, NowVersion)
  BY <1>1, <1>3, BeforeGrows
<1>5. Follows(NowVersion, NowVersion')
  BY <1>3
<1> QED
  BY <1>2, <1>4, <1>5 DEF A!Change, Follows

\* The parts of a version.
LEMMA VersionParts ==
  ASSUME NEW l, l # << >>
  PROVE  /\ LogVersion(l).type = "file" /\ LogVersion(l).size = l[Len(l)].size
         /\ LogVersion(l).perm = l[Len(l)].perm
         /\ DOMAIN LogVersion(l).bytes = InFile(l[Len(l)].size)
         /\ \A b \in InFile(l[Len(l)].size) : LogVersion(l).bytes[b] = SentByte(l, b)
         /\ LogVersion(l) = [type |-> "file", size |-> l[Len(l)].size, perm |-> l[Len(l)].perm,
                             bytes |-> [b \in InFile(l[Len(l)].size) |-> SentByte(l, b)]]
BY DEF LogVersion, SentByte

\* The version a record of do_write leaves, when it does no harm.
WriteLeaves(rec, f, span, x) ==
    LET old == LogVersion(Sent)
        new == LogVersion(Append(Sent, rec))
    IN  /\ old.type = "file" /\ old.size = file.size /\ old.perm = file.perm
        /\ \A b \in InFile(file.size) : old.bytes[b] = SentByte(Sent, b)
        /\ old = [type |-> "file", size |-> file.size, perm |-> file.perm,
                  bytes |-> [b \in InFile(file.size) |-> SentByte(Sent, b)]]
        /\ new.type = "file" /\ new.size = f.size /\ new.perm = f.perm
        /\ DOMAIN new.bytes = InFile(f.size)
        /\ \A b \in InFile(f.size) :
              /\ b \in span => new.bytes[b] = x
              /\ b \notin span => new.bytes[b] = SentByte(Sent, b)
        /\ \A b \in InFile(f.size) \ span : b >= file.size => SentByte(Sent, b) = Zero
        /\ new = [type |-> "file", size |-> f.size, perm |-> f.perm, bytes |->
                  [b \in InFile(f.size) |-> IF b \in span THEN x ELSE SentByte(Sent, b)]]

LEMMA WriteVersion ==
  ASSUME StoreInv, FileInv, InUse, NEW f \in FileType, NEW span \in SUBSET Bytes,
         NEW x \in Data \cup {0}, DoWrite(f, span, x), ~harmed', log' = log
  PROVE  \E rec \in Records : sent' = Append(sent, rec) /\ WriteLeaves(rec, f, span, x)
<1> DEFINE rec == DataRec(span, x, f)
           m == Append(Sent, rec)
<1>1. StoreTypes /\ InMemory /\ TreesLookBack(Sent) /\ MemoryIsLog /\ CacheIsLog
  BY DEF StoreInv, CountsCover, FileInv, InUse, InMemory
<1>2. /\ sent' = Append(sent, rec)
      /\ \A b \in Bytes \ span : b >= file.size /\ b < f.size => ReadByte(b) = Zero
  BY WriteUnharmed
<1>3. /\ rec \in Records /\ rec.kind = "data" /\ rec.span = span /\ rec.x = x
      /\ rec.size = f.size /\ rec.perm = f.perm
  BY DataRecType
<1> HIDE DEF rec
<1>4. /\ Sent \in Seq(Records) /\ m # << >> /\ m[Len(m)] = rec
  <2>1. Sent \in Seq(Records)
    BY <1>1, SentFacts
  <2> QED
    BY <1>3, <2>1, AppendProperties
<1>5. /\ Sent # << >> /\ file.size = Sent[Len(Sent)].size /\ file.perm = Sent[Len(Sent)].perm
  BY <1>1 DEF MemoryIsLog
<1>6. \A b \in Bytes : SentByte(m, b) = IF b \in span THEN x ELSE SentByte(Sent, b)
  BY <1>1, <1>3, <1>4, ByteAppendData
<1>7. \A b \in InFile(f.size) \ span : b >= file.size => SentByte(Sent, b) = Zero
  BY <1>1, <1>2, ReadsLog DEF InFile
<1>8. /\ LogVersion(Sent).type = "file" /\ LogVersion(Sent).size = file.size
      /\ LogVersion(Sent).perm = file.perm /\ DOMAIN LogVersion(Sent).bytes = InFile(file.size)
      /\ \A b \in InFile(file.size) : LogVersion(Sent).bytes[b] = SentByte(Sent, b)
      /\ LogVersion(Sent) = [type |-> "file", size |-> file.size, perm |-> file.perm,
                             bytes |-> [b \in InFile(file.size) |-> SentByte(Sent, b)]]
  BY <1>5, VersionParts
<1> HIDE DEF m
<1>9. /\ LogVersion(m).type = "file" /\ LogVersion(m).size = f.size
      /\ LogVersion(m).perm = f.perm /\ DOMAIN LogVersion(m).bytes = InFile(f.size)
      /\ \A b \in InFile(f.size) : LogVersion(m).bytes[b] = SentByte(m, b)
      /\ LogVersion(m) = [type |-> "file", size |-> f.size, perm |-> f.perm,
                          bytes |-> [b \in InFile(f.size) |-> SentByte(m, b)]]
  BY <1>3, <1>4, VersionParts
<1>10. \A b \in InFile(f.size) :
         /\ b \in span => LogVersion(m).bytes[b] = x
         /\ b \notin span => LogVersion(m).bytes[b] = SentByte(Sent, b)
  BY <1>6, <1>9 DEF InFile
<1>11. [b \in InFile(f.size) |-> SentByte(m, b)] =
         [b \in InFile(f.size) |-> IF b \in span THEN x ELSE SentByte(Sent, b)]
  BY <1>6 DEF InFile
<1>12. LogVersion(m) = [type |-> "file", size |-> f.size, perm |-> f.perm, bytes |->
                        [b \in InFile(f.size) |-> IF b \in span THEN x ELSE SentByte(Sent, b)]]
  BY <1>9, <1>11
<1>13. WriteLeaves(rec, f, span, x)
  BY <1>7, <1>8, <1>9, <1>10, <1>12 DEF m, WriteLeaves
<1> QED
  BY <1>2, <1>3, <1>13

LEMMA WriteRefined ==
  ASSUME StoreInv, FileInv, StoreInv', FileInv', ~harmed, ~harmed',
         NEW span \in Spans, NEW x \in Data, Write(span, x)
  PROVE  A!Change
<1>1. PICK f \in FileType :
         /\ DoWrite(f, span, x) /\ f.perm = file.perm /\ f.size = Max({file.size, Max(span) + 1})
  BY WriteCall
<1>2. InUse /\ log' = log
  BY DEF Write
<1>3. span \in SUBSET Bytes /\ Max(span) \in span /\ Max(span) + 1 \in 1 .. FileLen
  BY SpanFacts
<1>4. PICK rec \in Records : sent' = Append(sent, rec) /\ WriteLeaves(rec, f, span, x)
  <2>1. x \in Data \cup {0}
    OBVIOUS
  <2> QED
    BY <1>1, <1>2, <1>3, <2>1, WriteVersion
<1> DEFINE old == LogVersion(Sent)
           new == LogVersion(Append(Sent, rec))
<1>5. /\ file.size \in 0 .. FileLen
      /\ f.size = IF file.size <= Max(span) + 1 THEN Max(span) + 1 ELSE file.size
  <2>1. file.size \in 0 .. FileLen
    BY DEF StoreInv, StoreTypes, FileType
  <2>2. Max(span) + 1 \in 0 .. FileLen
    BY <1>3, CacheAssumption
  <2> QED
    BY <1>1, <2>1, <2>2, LargerSize
<1> HIDE DEF old, new, WriteLeaves
<1>6. ASSUME NEW b \in InFile(f.size)
      PROVE  new.bytes[b] \in {x, A!Byte(old, b)}
  <2>1. CASE b \in span
    BY <1>4, <2>1 DEF new, WriteLeaves
  <2>2. CASE b \notin span
    <3>1. new.bytes[b] = SentByte(Sent, b)
      BY <1>4, <2>2 DEF new, WriteLeaves
    <3>2. CASE b < file.size
      <4>1. old.bytes[b] = SentByte(Sent, b) /\ old.size = file.size
        BY <1>4, <3>2 DEF old, InFile, WriteLeaves
      <4> QED
        BY <3>1, <3>2, <4>1 DEF A!Byte
    <3>3. CASE ~(b < file.size)
      <4>1. b >= file.size
        BY <1>5, <3>3 DEF InFile, Bytes
      <4>2. SentByte(Sent, b) = 0 /\ old.size = file.size
        BY <1>4, <2>2, <4>1 DEF Zero, old, WriteLeaves
      <4> QED
        BY <3>1, <3>3, <4>2 DEF A!Byte
    <3> QED
      BY <3>2, <3>3
  <2> QED
    BY <2>1, <2>2
<1>7. ASSUME f.size > file.size PROVE new.bytes[f.size - 1] = x
  <2>1. f.size = Max(span) + 1
    BY <1>3, <1>5, <1>7
  <2>2. PICK k : k = Max(span)
    OBVIOUS
  <2>3. k \in Bytes /\ k \in span /\ f.size = k + 1
    BY <1>3, <2>1, <2>2
  <2>4. f.size - 1 = k /\ k \in InFile(f.size)
    BY <2>3 DEF InFile, Bytes
  <2> QED
    BY <1>4, <2>3, <2>4 DEF new, WriteLeaves
<1>8. A!Written(old, new)
  <2>1. new.size >= old.size /\ new.perm = old.perm /\ new.size = f.size /\ old.size = file.size
        /\ DOMAIN new.bytes = InFile(f.size)
    <3>1. new.perm = old.perm /\ new.size = f.size /\ old.size = file.size
          /\ DOMAIN new.bytes = InFile(f.size)
      BY <1>1, <1>4 DEF old, new, WriteLeaves
    <3> QED
      BY <1>3, <1>5, <3>1
  <2> QED
    BY <1>6, <1>7, <2>1 DEF A!Written
<1>9. Follows(LogVersion(Sent), LogVersion(Append(Sent, rec)))
  BY <1>4, <1>8 DEF Follows, old, new, WriteLeaves
<1> QED
  BY <1>2, <1>4, <1>9, AppendRefined

LEMMA TruncateRefined ==
  ASSUME StoreInv, FileInv, StoreInv', FileInv', ~harmed, ~harmed', Truncate
  PROVE  A!Change
<1>1. PICK f \in FileType : DoWrite(f, {}, 0) /\ f.perm = file.perm /\ f.size = 0
  BY TruncateCall
<1>2. InUse /\ log' = log
  BY DEF Truncate
<1>3. PICK rec \in Records : sent' = Append(sent, rec) /\ WriteLeaves(rec, f, {}, 0)
  BY <1>1, <1>2, WriteVersion
<1>4. InFile(f.size) = {}
  BY <1>1 DEF InFile, Bytes
<1>5. A!Truncated(LogVersion(Sent), LogVersion(Append(Sent, rec)))
  BY <1>1, <1>3, <1>4 DEF A!Truncated, WriteLeaves
<1>6. Follows(LogVersion(Sent), LogVersion(Append(Sent, rec)))
  BY <1>3, <1>5 DEF Follows, WriteLeaves
<1> QED
  BY <1>2, <1>3, <1>6, AppendRefined

LEMMA SetPermRefined ==
  ASSUME StoreInv, FileInv, StoreInv', FileInv', ~harmed, ~harmed', NEW p \in Perms, SetPerm(p)
  PROVE  A!Change
<1>1. PICK f \in FileType : DoWrite(f, {}, 0) /\ f.perm = p /\ f.size = file.size
  BY SetPermCall
<1>2. InUse /\ log' = log
  BY DEF SetPerm
<1>3. PICK rec \in Records : sent' = Append(sent, rec) /\ WriteLeaves(rec, f, {}, 0)
  BY <1>1, <1>2, WriteVersion
<1>4. /\ LogVersion(Sent) = [type |-> "file", size |-> file.size, perm |-> file.perm,
                            bytes |-> [b \in InFile(file.size) |-> SentByte(Sent, b)]]
      /\ LogVersion(Append(Sent, rec)) =
           [type |-> "file", size |-> file.size, perm |-> p,
            bytes |-> [b \in InFile(file.size) |-> SentByte(Sent, b)]]
  BY <1>1, <1>3 DEF WriteLeaves
<1>5. LogVersion(Append(Sent, rec)) = [LogVersion(Sent) EXCEPT !.perm = p]
  BY <1>4
<1>6. A!Permitted(LogVersion(Sent), LogVersion(Append(Sent, rec)))
  BY <1>5 DEF A!Permitted
<1>7. Follows(LogVersion(Sent), LogVersion(Append(Sent, rec)))
  BY <1>3, <1>6 DEF Follows, WriteLeaves
<1> QED
  BY <1>2, <1>3, <1>7, AppendRefined

LEMMA CreateRefined ==
  ASSUME StoreInv, FileInv, StoreInv', FileInv', ~harmed, ~harmed', NEW p \in Perms,
         NEW strict \in BOOLEAN, Create(p, strict)
  PROVE  A!Change
<1> DEFINE f == [NoFile EXCEPT !.perm = p, !.new_file = strict]
           rec == DataRec({}, 0, f)
           m == Append(Sent, rec)
<1>1. up = "run" /\ place = "absent" /\ Sent = << >> /\ log' = log /\ sent' = <<rec>>
  BY DEF Create
<1>2. StoreTypes /\ sent = << >>
  BY <1>1 DEF StoreInv, CountsCover
<1>3. f \in FileType /\ f.size = 0 /\ f.perm = p
  BY NoFileType DEF FileType, NoFile
<1> HIDE DEF f
<1>4. rec \in Records /\ rec.size = 0 /\ rec.perm = p
  BY <1>3, DataRecType
<1> HIDE DEF rec
<1>5. sent' = Append(sent, rec)
  BY <1>1, <1>2
<1>6. m # << >> /\ m[Len(m)] = rec
  <2>1. Sent \in Seq(Records)
    BY <1>2, SentFacts
  <2> QED
    BY <1>4, <2>1, AppendProperties
<1> HIDE DEF m
<1>7. LogVersion(m) = [type |-> "file", size |-> 0, perm |-> p,
                       bytes |-> [b \in InFile(0) |-> SentByte(m, b)]]
  BY <1>4, <1>6, VersionParts
<1>8. [b \in InFile(0) |-> SentByte(m, b)] = [b \in {} |-> 0]
  <2>1. InFile(0) = {}
    BY DEF InFile, Bytes
  <2> QED
    BY <2>1
<1>9. LogVersion(Sent) = A!Missing
  BY <1>1 DEF LogVersion, A!Missing
<1>10. A!Created(LogVersion(Sent), LogVersion(m))
  <2> DEFINE none == [b \in {} |-> 0]
  <2>1. /\ A!Missing = [type |-> "new", size |-> 0, perm |-> {}, bytes |-> none]
        /\ LogVersion(m) = [type |-> "file", size |-> 0, perm |-> p, bytes |-> none]
    BY <1>7, <1>8 DEF A!Missing
  <2> HIDE DEF none
  <2>2. A!Missing.bytes = none /\ A!Missing.type = "new"
    BY <2>1
  <2> QED
    BY <1>9, <2>1, <2>2 DEF A!Created
<1>11. Follows(LogVersion(Sent), LogVersion(Append(Sent, rec)))
  BY <1>10 DEF Follows, m
<1> QED
  BY <1>1, <1>4, <1>5, <1>11, AppendRefined

\* A checkpoint is a version of its own, equal to the one before it.
LEMMA ChkptRefined ==
  ASSUME StoreInv, FileInv, StoreInv', FileInv', ~harmed, ~harmed', InMemory,
         NEW next, Chkpt(next), log' = log
  PROVE  A!Change \/ UNCHANGED A!vars
<1>1. StoreTypes /\ TreesLookBack(Sent) /\ MemoryIsLog
  BY DEF StoreInv, FileInv
<1>2. sent' = sent \/ sent' = Append(sent, CkptRec(file))
  BY <1>1, ChkptFile
<1>3. CASE sent' = sent
  BY <1>3, SameRefined
<1>4. CASE sent' = Append(sent, CkptRec(file))
  <2> DEFINE rec == CkptRec(file)
             m == Append(Sent, rec)
  <2>1. /\ Sent # << >> /\ file.tree = Rebuilt(Sent)
        /\ file.size = Sent[Len(Sent)].size /\ file.perm = Sent[Len(Sent)].perm
    BY <1>1 DEF MemoryIsLog
  <2>2. /\ rec \in Records /\ rec.kind = "ckpt" /\ rec.tree = Rebuilt(Sent)
        /\ rec.size = file.size /\ rec.perm = file.perm
    BY <1>1, <2>1, CkptRecType DEF StoreTypes
  <2> HIDE DEF rec
  <2>3. m # << >> /\ m[Len(m)] = rec /\ Sent \in Seq(Records)
    <3>1. Sent \in Seq(Records)
      BY <1>1, SentFacts
    <3> QED
      BY <2>2, <3>1, AppendProperties
  <2>4. \A b \in Bytes : SentByte(m, b) = SentByte(Sent, b)
    BY <1>1, <2>2, <2>3, ByteAppendCkpt
  <2> HIDE DEF m
  <2>5. /\ LogVersion(Sent).type = "file" /\ LogVersion(Sent).size = file.size
        /\ LogVersion(Sent).perm = file.perm
        /\ \A b \in InFile(file.size) : LogVersion(Sent).bytes[b] = SentByte(Sent, b)
    BY <2>1, VersionParts
  <2>6. /\ LogVersion(m).type = "file" /\ LogVersion(m).perm = file.perm
        /\ DOMAIN LogVersion(m).bytes = InFile(file.size)
        /\ \A b \in InFile(file.size) : LogVersion(m).bytes[b] = SentByte(m, b)
    BY <2>2, <2>3, VersionParts
  <2>7. A!Truncated(LogVersion(Sent), LogVersion(m))
    BY <2>4, <2>5, <2>6 DEF A!Truncated, A!Byte, InFile
  <2>8. Follows(LogVersion(Sent), LogVersion(Append(Sent, rec)))
    BY <2>5, <2>6, <2>7 DEF Follows, m
  <2>9. sent' = Append(sent, rec)
    BY <1>4 DEF rec
  <2> QED
    BY <2>2, <2>8, <2>9, AppendRefined
<1> QED
  BY <1>2, <1>3, <1>4

\* Harm is for ever.
LEMMA HarmStays == ASSUME StoreInv, [Next]_vars, harmed PROVE harmed'
<1>1. ASSUME NEW f, NEW span, NEW x, DoWrite(f, span, x) PROVE harmed'
  BY <1>1 DEF DoWrite
<1>2. ASSUME NEW p \in Perms, NEW strict \in BOOLEAN, Create(p, strict) PROVE harmed'
  BY <1>2 DEF Create
<1>3. ASSUME NEW span \in Spans, Read(span) PROVE harmed'
  BY <1>3 DEF Read
<1>4. Load => harmed'
  BY DEF Load
<1>5. Revive \/ Close \/ Evict \/ Stop \/ Deliver \/ Fail \/ Restart => harmed'
  BY DEF Revive, Close, Evict, Stop, Deliver, Fail, Restart, history
<1>6. ASSUME NEW span \in Spans, NEW x \in Data, Write(span, x) PROVE harmed'
  BY <1>6 DEF Write, InUse
<1>7. Truncate => harmed'
  BY DEF Truncate, InUse
<1>8. ASSUME NEW p \in Perms, SetPerm(p) PROVE harmed'
  BY <1>8 DEF SetPerm, InUse
<1>9. UNCHANGED vars => harmed'
  BY DEF vars, history
<1> QED
  BY <1>2, <1>3, <1>4, <1>5, <1>6, <1>7, <1>8, <1>9 DEF Next

LEMMA StepRefined ==
  ASSUME StoreInv, FileInv, StoreInv', FileInv', [Next]_vars
  PROVE  [A!Next]_(A!vars)
<1>1. CASE harmed'
  BY <1>1 DEF A!Next, A!Harm
<1>2. CASE ~harmed'
  <2>1. ~harmed
    BY <1>2, HarmStays
  <2>2. ASSUME NEW p \in Perms, SetPerm(p) PROVE A!Change
    BY <1>2, <2>1, <2>2, SetPermRefined
  <2>3. ASSUME NEW p \in Perms, NEW strict \in BOOLEAN, Create(p, strict) PROVE A!Change
    BY <1>2, <2>1, <2>3, CreateRefined
  <2>4. ASSUME NEW span \in Spans, Read(span) PROVE UNCHANGED A!vars
    <3>1. log' = log /\ sent' = sent
      BY <2>4 DEF Read
    <3> QED
      BY <1>2, <2>1, <3>1, SameRefined
  <2>5. ASSUME NEW span \in Spans, NEW x \in Data, Write(span, x) PROVE A!Change
    BY <1>2, <2>1, <2>5, WriteRefined
  <2>6. Truncate => A!Change
    BY <1>2, <2>1, TruncateRefined
  <2>7. Revive \/ Load \/ Close \/ UNCHANGED vars => UNCHANGED A!vars
    <3>1. Revive \/ Load \/ Close \/ UNCHANGED vars => log' = log /\ sent' = sent
      BY DEF Revive, Load, Close, vars
    <3> QED
      BY <1>2, <2>1, <3>1, SameRefined
  <2>8. Evict => A!Change \/ UNCHANGED A!vars
    <3>1. Evict => InMemory /\ Chkpt("run") /\ log' = log
      BY DEF Evict, InMemory
    <3> QED
      BY <1>2, <2>1, <3>1, ChkptRefined
  <2>9. Stop => A!Change \/ UNCHANGED A!vars
    <3>1. Stop /\ place # "absent" => InMemory /\ Chkpt("stop") /\ log' = log
      BY DEF Stop, InMemory
    <3>2. Stop /\ place = "absent" => log' = log /\ sent' = sent
      BY DEF Stop
    <3> QED
      BY <1>2, <2>1, <3>1, <3>2, ChkptRefined, SameRefined
  <2>10. Deliver => A!Settle
    BY <1>2, <2>1, DeliverRefined
  <2>11. ~Fail
    BY <1>2 DEF Fail
  <2>12. Restart => A!Crash \/ UNCHANGED A!vars
    BY <1>2, <2>1, RestartRefined
  <2>13. A!Change \/ A!Settle \/ A!Crash \/ UNCHANGED A!vars
    BY <2>2, <2>3, <2>4, <2>5, <2>6, <2>7, <2>8, <2>9, <2>10, <2>11, <2>12 DEF Next
  <2> QED
    BY <2>13 DEF A!Next
<1> QED
  BY <1>1, <1>2

\* The file in memory, in the local cache and in its log implements the abstract
\* file: whatever calls, evictions, reloads, checkpoints and crashes there are and for
\* files of any length, the user reads the version that the appends make, and a crash
\* leaves the last version the GDP has taken or a later one it took - as long as no
\* named defect has shown.
THEOREM StoreImplementsFile == Spec => ImplementsFile
<1>1. Init => StoreInv /\ FileInv /\ A!Init
  BY StoreInit, FileInit, InitRefined
<1>2. StoreInv /\ FileInv /\ [Next]_vars => (StoreInv /\ FileInv)'
  BY StoreStep, FileStep
<1>3. StoreInv /\ FileInv /\ (StoreInv /\ FileInv)' /\ [Next]_vars => [A!Next]_(A!vars)
  BY StepRefined
<1> QED
  BY <1>1, <1>2, <1>3, PTL DEF Spec, ImplementsFile, A!Spec
=============================================================================
