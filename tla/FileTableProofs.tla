--------------------------- MODULE FileTableProofs ---------------------------
(***************************************************************************)
(* Proofs about FileTable, for every set of users, files and handles, and  *)
(* every length of the second-chance list.                                 *)
(*                                                                         *)
(* TableInv is inductive: the types, who works on which structure          *)
(* (ControlInv), and that each counter is the number of handles, threads   *)
(* and events that stand for it (CountersExact).  Neither part is          *)
(* inductive alone: a counter is kept from going below zero only by being  *)
(* exact.  Until a file is evicted ClosedInv holds as well: nothing is     *)
(* freed (NothingFreed), the list has each structure once and its flag     *)
(* says so (ListInv), and an unused structure is listed or has a thread    *)
(* that is about to list it (UnusedInv).                                   *)
(***************************************************************************)
EXTENDS FileTable, CountingFacts, SequenceTheorems

LEMMA RoleFacts ==
  /\ \A u \in Users : u \in Threads /\ u # Callback /\ u # None
  /\ Callback \in Threads /\ Callback # None
BY FileTableAssumption DEF Threads

LEMMA StructEdit ==
  ASSUME structs \in Seq(Structs), NEW s \in DOMAIN structs, NEW r \in Structs,
         NEW t, t = [structs EXCEPT ![s] = r]
  PROVE  /\ t \in Seq(Structs) /\ Len(t) = Len(structs)
         /\ DOMAIN t = DOMAIN structs /\ t[s] = r
         /\ \A x \in DOMAIN structs : x # s => t[x] = structs[x]
OBVIOUS
-----------------------------------------------------------------------------
\* Who works on what.  A thread past the lookup has a structure; an open keeps
\* its handle to itself until it succeeds; a handle that was returned has a
\* structure; only the thread of the GDP frees, and it opens nothing.
Opening == {"lookup", "alloc", "revive", "unlist", "ref", "opened"}
UnderOpenLock == {"alloc", "revive", "unlist", "ref"}
Freeing == {"finish", "delete", "free"}
Unusing == {"unref", "insert", "push", "dealloc"}

ThreadsHaveStructs ==
    /\ \A t \in Threads : pc[t] \notin {"idle", "lookup", "alloc"} => loc[t].s \in DOMAIN structs
    /\ \A u \in Users : pc[u] \notin Freeing
    /\ pc[Callback] \in {"idle"} \cup Unusing \cup Freeing

HandlesPrivate ==
    /\ \A u \in Users : pc[u] \in Opening => loc[u].fh \in fhs \ open /\ loc[u].name \in Names
    /\ \A u, v \in Users :
         u # v /\ pc[u] \in Opening /\ pc[v] \in Opening => loc[u].fh # loc[v].fh
    /\ \A u \in Users : pc[u] = "opened" => files[loc[u].fh] = loc[u].s
    /\ \A h \in open : files[h] # 0

OpenLocked == \A u \in Users : pc[u] \in UnderOpenLock <=> open_lock = u

ControlInv == ThreadsHaveStructs /\ HandlesPrivate /\ OpenLocked

\* Until a file falls off the list nothing is checkpointed and nothing freed, and
\* the hash has the structure of every file.
NothingFreed ==
    ~evicted =>
        /\ \A s \in DOMAIN structs : structs[s].alive /\ file_hash[structs[s].name] = s
        /\ \A i \in DOMAIN events : events[i].kind = "data"
        /\ \A t \in Threads : pc[t] \notin {"dealloc"} \cup Freeing
        /\ \A u \in Users : pc[u] = "alloc" => file_hash[loc[u].name] = 0

\* A file being revived is on the list with its flag cleared.
ListInv ==
    crashed = "no" /\ ~evicted =>
        \A s \in DOMAIN structs :
            /\ structs[s].recently_closed => s \in ToSet(recently_closed)
            /\ s \in ToSet(recently_closed) =>
                 \/ structs[s].recently_closed
                 \/ \E u \in Users : pc[u] = "unlist" /\ loc[u].s = s
            /\ \A u \in Users : pc[u] = "unlist" /\ loc[u].s = s => ~structs[s].recently_closed
                                                    /\ s \in ToSet(recently_closed)

\* A file that nobody references is on the list, or about to be listed or used.
UnusedInv ==
    crashed = "no" /\ ~evicted =>
        \A s \in DOMAIN structs : structs[s].ref_count = 0 =>
            \/ s \in ToSet(recently_closed)
            \/ \E t \in Threads : pc[t] \in {"ref", "insert", "push"} /\ loc[t].s = s
-----------------------------------------------------------------------------
\* The users of a structure, as finite sets.
Referring == {"opened", "count", "append", "unref"}
On(s) == {h \in open : files[h] = s}
Holders(s, labels) == {t \in Threads : pc[t] \in labels /\ loc[t].s = s}
Event(kind, s) == [kind |-> kind, s |-> s]
EventType == [kind : {"data", "ckpt"}, s : DOMAIN structs]

\* CountersExact with its sets named.
CountersAre(s) ==
    /\ structs[s].ref_count = Cardinality(On(s)) + Cardinality(Holders(s, Referring))
                                + Cardinality(Places(events, Event("data", s)))
    /\ structs[s].outstanding_reqs = Cardinality(Holders(s, {"append"}))
                                       + Cardinality(Places(events, Event("data", s)))
    /\ structs[s].index_flush_reqs = Cardinality(Places(events, Event("ckpt", s)))

LEMMA CountersExactMeans == CountersExact <=> \A s \in Alive : CountersAre(s)
BY DEF CountersExact, CountersAre, On, Holding, Holders, Referring, Events, Places, Event

LEMMA FiniteUsers ==
  ASSUME fhs \subseteq Handles, open \subseteq fhs, NEW s, NEW labels
  PROVE  /\ IsFiniteSet(On(s)) /\ Cardinality(On(s)) \in Nat
         /\ IsFiniteSet(Holders(s, labels)) /\ Cardinality(Holders(s, labels)) \in Nat
<1>1. IsFiniteSet(Handles)
  BY FileTableAssumption, FS_Interval DEF Handles
<1>2. On(s) \in SUBSET Handles
  BY DEF On
<1>3. IsFiniteSet(Threads)
  BY FileTableAssumption, FS_AddElement DEF Threads
<1>4. Holders(s, labels) \in SUBSET Threads
  BY DEF Holders
<1> QED
  BY <1>1, <1>2, <1>3, <1>4, FS_Subset, FS_CardinalityType

LEMMA TypeFacts ==
  ASSUME TypeOK
  PROVE  /\ fhs \subseteq Handles /\ open \subseteq fhs
         /\ structs \in Seq(Structs) /\ Len(structs) \in Nat /\ DOMAIN structs = 1 .. Len(structs)
         /\ \A s \in DOMAIN structs : structs[s] \in Structs
         /\ events \in Seq(EventType)
         /\ pc \in [Threads -> Labels]
BY DEF TypeOK, EventType

\* A structure that is referenced, appended to or checkpointed is counted.
LEMMA CountedOnce ==
  ASSUME TypeOK, CountersExact, NEW s \in Alive
  PROVE  /\ \A t \in Threads : pc[t] = "unref" /\ loc[t].s = s => structs[s].ref_count >= 1
         /\ events # << >> /\ Head(events) = Event("data", s) =>
              structs[s].outstanding_reqs >= 1
         /\ events # << >> /\ Head(events) = Event("ckpt", s) =>
              structs[s].index_flush_reqs >= 1
<1>1. CountersAre(s)
  BY CountersExactMeans
<1>2. /\ IsFiniteSet(On(s)) /\ Cardinality(On(s)) \in Nat
      /\ IsFiniteSet(Holders(s, Referring)) /\ Cardinality(Holders(s, Referring)) \in Nat
      /\ IsFiniteSet(Holders(s, {"append"})) /\ Cardinality(Holders(s, {"append"})) \in Nat
  BY TypeFacts, FiniteUsers
<1>3. \A k : Cardinality(Places(events, k)) \in Nat
  BY TypeFacts, PlacesFinite
<1>4. ASSUME NEW t \in Threads, pc[t] = "unref", loc[t].s = s
      PROVE  structs[s].ref_count >= 1
  <2>1. t \in Holders(s, Referring)
    BY <1>4 DEF Holders, Referring
  <2>2. Cardinality(Holders(s, Referring)) # 0
    BY <1>2, <2>1, FS_EmptySet
  <2> QED
    BY <1>1, <1>2, <1>3, <2>2 DEF CountersAre
<1>5. ASSUME events # << >>, NEW k, Head(events) = k
      PROVE  Cardinality(Places(events, k)) >= 1
  BY <1>5, TypeFacts, PlacesHead
<1> QED
  BY <1>1, <1>2, <1>3, <1>4, <1>5 DEF CountersAre
-----------------------------------------------------------------------------
\* What a step does to the structures: it edits one, if any.
Edited(s, r) == /\ s \in DOMAIN structs /\ r \in Structs
                /\ structs' = [structs EXCEPT ![s] = r]

LEMMA FieldEdits ==
  ASSUME NEW r \in Structs, NEW n \in Nat, NEW b \in BOOLEAN
  PROVE  /\ [r EXCEPT !.ref_count = n] \in Structs
         /\ [r EXCEPT !.outstanding_reqs = n] \in Structs
         /\ [r EXCEPT !.index_flush_reqs = n] \in Structs
         /\ [r EXCEPT !.recently_closed = b] \in Structs
         /\ [r EXCEPT !.dirty = b] \in Structs
         /\ [r EXCEPT !.alive = b] \in Structs
         /\ [r EXCEPT !.dirty = b, !.index_flush_reqs = @ + 1] \in Structs
<1>1. /\ [r EXCEPT !.ref_count = n] \in Structs
      /\ [r EXCEPT !.outstanding_reqs = n] \in Structs
      /\ [r EXCEPT !.index_flush_reqs = n] \in Structs
      /\ [r EXCEPT !.recently_closed = b] \in Structs
      /\ [r EXCEPT !.dirty = b] \in Structs
      /\ [r EXCEPT !.alive = b] \in Structs
  BY DEF Structs
<1>2. ASSUME NEW q \in Structs
      PROVE  [q EXCEPT !.index_flush_reqs = @ + 1] \in Structs
  BY <1>2 DEF Structs
<1> QED
  BY <1>1, <1>2

LEMMA UserEdits ==
  ASSUME TypeOK, ControlInv, NEW u \in Users
  PROVE  LET s == loc[u].s
         IN  /\ Revive(u) => (crashed' = "revive" /\ structs' = structs)
                             \/ Edited(s, [structs[s] EXCEPT !.recently_closed = FALSE])
             /\ OpenRef(u) => Edited(s, [structs[s] EXCEPT !.ref_count = structs[s].ref_count + 1])
             /\ WriteCount(u) =>
                  Edited(s, [structs[s] EXCEPT !.outstanding_reqs = structs[s].outstanding_reqs + 1])
             /\ WriteAppend(u) => Edited(s, [structs[s] EXCEPT !.dirty = TRUE])
<1> DEFINE s == loc[u].s
<1>a. pc[u] \notin {"idle", "lookup", "alloc"} => s \in DOMAIN structs
  BY RoleFacts DEF ControlInv, ThreadsHaveStructs
<1>b. \A x \in DOMAIN structs : /\ structs[x] \in Structs /\ structs[x].ref_count + 1 \in Nat
                                /\ structs[x].outstanding_reqs + 1 \in Nat
  BY TypeFacts DEF Structs
<1>1. ASSUME Revive(u)
      PROVE  (crashed' = "revive" /\ structs' = structs)
             \/ Edited(s, [structs[s] EXCEPT !.recently_closed = FALSE])
  <2>1. s \in DOMAIN structs
    BY <1>1, <1>a DEF Revive, At
  <2>2. [structs[s] EXCEPT !.recently_closed = FALSE] \in Structs
    BY <1>b, <2>1, FieldEdits
  <2> QED
    BY <1>1, <2>1, <2>2 DEF Revive, SetMy, My, Edited
<1>2. ASSUME OpenRef(u)
      PROVE  Edited(s, [structs[s] EXCEPT !.ref_count = structs[s].ref_count + 1])
  <2>1. s \in DOMAIN structs
    BY <1>2, <1>a DEF OpenRef, At
  <2>2. [structs[s] EXCEPT !.ref_count = structs[s].ref_count + 1] \in Structs
    BY <1>b, <2>1, FieldEdits
  <2> QED
    BY <1>2, <2>1, <2>2 DEF OpenRef, SetMy, My, Edited
<1>3. ASSUME WriteCount(u)
      PROVE  Edited(s, [structs[s] EXCEPT !.outstanding_reqs = structs[s].outstanding_reqs + 1])
  <2>1. s \in DOMAIN structs
    BY <1>3, <1>a DEF WriteCount, At
  <2>2. [structs[s] EXCEPT !.outstanding_reqs = structs[s].outstanding_reqs + 1] \in Structs
    BY <1>b, <2>1, FieldEdits
  <2> QED
    BY <1>3, <2>1, <2>2 DEF WriteCount, SetMy, My, Edited
<1>4. ASSUME WriteAppend(u)
      PROVE  Edited(s, [structs[s] EXCEPT !.dirty = TRUE])
  <2>1. s \in DOMAIN structs
    BY <1>4, <1>a DEF WriteAppend, At
  <2>2. [structs[s] EXCEPT !.dirty = TRUE] \in Structs
    BY <1>b, <2>1, FieldEdits
  <2> QED
    BY <1>4, <2>1, <2>2 DEF WriteAppend, SetMy, My, Edited
<1> QED
  BY <1>1, <1>2, <1>3, <1>4

LEMMA StartWriteEdits ==
  ASSUME TypeOK, ControlInv, NEW u \in Users, NEW h \in Handles, StartWrite(u, h)
  PROVE  Edited(files[h], [structs[files[h]] EXCEPT !.ref_count = structs[files[h]].ref_count + 1])
<1>1. files[h] \in DOMAIN structs
  BY DEF StartWrite, ControlInv, HandlesPrivate, TypeOK
<1>2. structs[files[h]] \in Structs /\ structs[files[h]].ref_count + 1 \in Nat
  BY <1>1, TypeFacts DEF Structs
<1>3. [structs[files[h]] EXCEPT !.ref_count = structs[files[h]].ref_count + 1] \in Structs
  BY <1>2, FieldEdits
<1> QED
  BY <1>1, <1>3 DEF StartWrite, Edited

\* The counts only allow what is counted to be taken away.
LEMMA UnrefEdits ==
  ASSUME TypeOK, ControlInv, CountersExact, NEW t \in Threads
  PROVE  LET s == loc[t].s
         IN  /\ Unref(t) => /\ Edited(s, [structs[s] EXCEPT !.ref_count = structs[s].ref_count - 1])
                            /\ structs[s].ref_count >= 1
             /\ Push(t) => Edited(s, [structs[s] EXCEPT !.recently_closed = TRUE])
             /\ Dealloc(t) =>
                  structs' = structs \/ Edited(s, [structs[s] EXCEPT
                     !.dirty = FALSE, !.index_flush_reqs = @ + 1])
<1> DEFINE s == loc[t].s
<1>a. pc[t] \notin {"idle", "lookup", "alloc"} => s \in DOMAIN structs
  BY DEF ControlInv, ThreadsHaveStructs
<1>b. \A x \in DOMAIN structs : structs[x] \in Structs
  BY TypeFacts
<1>1. ASSUME Unref(t)
      PROVE  /\ Edited(s, [structs[s] EXCEPT !.ref_count = structs[s].ref_count - 1])
             /\ structs[s].ref_count >= 1
  <2>1. s \in DOMAIN structs /\ s \in Alive
    BY <1>1, <1>a DEF Unref, At, Live, My, Alive
  <2>2. structs[s].ref_count >= 1
    BY <1>1, <2>1, CountedOnce DEF Unref, At
  <2>3. structs[s].ref_count - 1 \in Nat
    BY <1>b, <2>1, <2>2 DEF Structs
  <2>4. [structs[s] EXCEPT !.ref_count = structs[s].ref_count - 1] \in Structs
    BY <1>b, <2>1, <2>3, FieldEdits
  <2> QED
    BY <1>1, <2>1, <2>2, <2>4 DEF Unref, SetMy, My, Edited
<1>2. ASSUME Push(t)
      PROVE  Edited(s, [structs[s] EXCEPT !.recently_closed = TRUE])
  <2>1. s \in DOMAIN structs
    BY <1>2, <1>a DEF Push, At
  <2>2. [structs[s] EXCEPT !.recently_closed = TRUE] \in Structs
    BY <1>b, <2>1, FieldEdits
  <2> QED
    BY <1>2, <2>1, <2>2 DEF Push, SetMy, My, Edited
<1>3. ASSUME Dealloc(t)
      PROVE  structs' = structs \/ Edited(s, [structs[s] EXCEPT
                !.dirty = FALSE, !.index_flush_reqs = @ + 1])
  <2>1. s \in DOMAIN structs
    BY <1>3, <1>a DEF Dealloc, At
  <2>2. [structs[s] EXCEPT !.dirty = FALSE,
                           !.index_flush_reqs = @ + 1] \in Structs
    BY <1>b, <2>1, FieldEdits
  <2> QED
    BY <1>3, <2>1, <2>2 DEF Dealloc, SetMy, My, Edited
<1> QED
  BY <1>1, <1>2, <1>3

LEMMA CallbackEdits ==
  ASSUME TypeOK, ControlInv, CountersExact
  PROVE  LET s == Head(events).s
         IN  /\ AckWrite =>
                  /\ Head(events) = Event("data", s)
                  /\ Edited(s, [structs[s] EXCEPT !.outstanding_reqs = structs[s].outstanding_reqs - 1])
             /\ AckCheckpoint =>
                  /\ Head(events) = Event("ckpt", s)
                  /\ Edited(s, [structs[s] EXCEPT !.index_flush_reqs = structs[s].index_flush_reqs - 1])
             /\ Free => Edited(loc[Callback].s, [structs[loc[Callback].s] EXCEPT !.alive = FALSE])
<1> DEFINE s == Head(events).s
<1>b. \A x \in DOMAIN structs : structs[x] \in Structs
  BY TypeFacts
<1>c. events # << >> => s \in DOMAIN structs /\ Head(events) = Event(Head(events).kind, s)
  <2>1. events # << >> => Head(events) \in EventType
    BY TypeFacts
  <2> QED
    BY <2>1 DEF EventType, Event
<1>1. ASSUME AckWrite
      PROVE  /\ Head(events) = Event("data", s)
             /\ Edited(s, [structs[s] EXCEPT !.outstanding_reqs = structs[s].outstanding_reqs - 1])
  <2>1. s \in DOMAIN structs /\ s \in Alive /\ events # << >> /\ Head(events) = Event("data", s)
    BY <1>1, <1>c DEF AckWrite, NextEvent, Alive
  <2>2. structs[s].outstanding_reqs >= 1
    BY <2>1, CountedOnce
  <2>3. structs[s].outstanding_reqs - 1 \in Nat
    BY <1>b, <2>1, <2>2 DEF Structs
  <2>4. [structs[s] EXCEPT !.outstanding_reqs = structs[s].outstanding_reqs - 1] \in Structs
    BY <1>b, <2>1, <2>3, FieldEdits
  <2> QED
    BY <1>1, <2>1, <2>4 DEF AckWrite, Edited
<1>2. ASSUME AckCheckpoint
      PROVE  /\ Head(events) = Event("ckpt", s)
             /\ Edited(s, [structs[s] EXCEPT !.index_flush_reqs = structs[s].index_flush_reqs - 1])
  <2>1. s \in DOMAIN structs /\ s \in Alive /\ events # << >> /\ Head(events) = Event("ckpt", s)
    BY <1>2, <1>c DEF AckCheckpoint, NextEvent, Alive
  <2>2. structs[s].index_flush_reqs >= 1
    BY <2>1, CountedOnce
  <2>3. structs[s].index_flush_reqs - 1 \in Nat
    BY <1>b, <2>1, <2>2 DEF Structs
  <2>4. [structs[s] EXCEPT !.index_flush_reqs = structs[s].index_flush_reqs - 1] \in Structs
    BY <1>b, <2>1, <2>3, FieldEdits
  <2> QED
    BY <1>2, <2>1, <2>4 DEF AckCheckpoint, Edited
<1>3. ASSUME Free
      PROVE  Edited(loc[Callback].s, [structs[loc[Callback].s] EXCEPT !.alive = FALSE])
  <2>1. loc[Callback].s \in DOMAIN structs
    BY <1>3, RoleFacts DEF Free, At, ControlInv, ThreadsHaveStructs
  <2>2. [structs[loc[Callback].s] EXCEPT !.alive = FALSE] \in Structs
    BY <1>b, <2>1, FieldEdits
  <2> QED
    BY <1>3, <2>1, <2>2 DEF Free, SetMy, My, Edited
<1> QED
  BY <1>1, <1>2, <1>3

\* Two structures with the same name, life and counts.
Alike(q, r) ==
    /\ q.name = r.name /\ q.alive = r.alive /\ q.ref_count = r.ref_count
    /\ q.outstanding_reqs = r.outstanding_reqs /\ q.index_flush_reqs = r.index_flush_reqs

LEMMA FlagEdit ==
  ASSUME NEW r \in Structs, NEW b \in BOOLEAN
  PROVE  Alike([r EXCEPT !.recently_closed = b], r)
BY DEF Structs, Alike

\* Evicting a file edits two structures, or one twice; the last of the list is on it.
LEMMA PushFullEdits ==
  ASSUME TypeOK, ControlInv, NEW t \in Threads, PushFull(t)
  PROVE  LET s == loc[t].s
             last == Last(<<s>> \o recently_closed)
         IN  /\ s \in DOMAIN structs /\ last \in DOMAIN structs
             /\ structs' \in Seq(Structs) /\ Len(structs') = Len(structs)
             /\ \A x \in DOMAIN structs : Alike(structs'[x], structs[x])
<1> DEFINE s == loc[t].s
           pushed == <<s>> \o recently_closed
           last == Last(pushed)
           mid == [structs EXCEPT ![s] = [structs[s] EXCEPT !.recently_closed = TRUE]]
<1>1. s \in DOMAIN structs /\ structs \in Seq(Structs)
      /\ \A x \in DOMAIN structs : structs[x] \in Structs
  BY TypeFacts DEF PushFull, At, ControlInv, ThreadsHaveStructs
<1>2. pushed \in Seq(DOMAIN structs) /\ Len(pushed) \in Nat \ {0}
  BY <1>1 DEF TypeOK
<1>3. last \in DOMAIN structs
  <2> HIDE DEF pushed
  <2> QED BY <1>2 DEF Last
<1>4. [structs[s] EXCEPT !.recently_closed = TRUE] \in Structs
  BY <1>1, FieldEdits
<1>5. /\ mid \in Seq(Structs) /\ Len(mid) = Len(structs) /\ DOMAIN mid = DOMAIN structs
      /\ mid[s] = [structs[s] EXCEPT !.recently_closed = TRUE]
      /\ \A x \in DOMAIN structs : x # s => mid[x] = structs[x]
  BY <1>1, <1>4, StructEdit
<1>6. structs' = [mid EXCEPT ![last] = [mid[last] EXCEPT !.recently_closed = FALSE]]
  BY DEF PushFull
<1>7. \A x \in DOMAIN structs : mid[x] \in Structs /\ Alike(mid[x], structs[x])
  <2>1. Alike(mid[s], structs[s])
    BY <1>1, <1>5, FlagEdit
  <2>2. \A x \in DOMAIN structs : Alike(structs[x], structs[x])
    BY DEF Alike
  <2> HIDE DEF mid
  <2> QED BY <1>1, <1>5, <2>1, <2>2
<1>8. [mid[last] EXCEPT !.recently_closed = FALSE] \in Structs
  <2> HIDE DEF mid
  <2> QED BY <1>3, <1>7, FieldEdits
<1>9. /\ structs' \in Seq(Structs) /\ Len(structs') = Len(structs)
      /\ structs'[last] = [mid[last] EXCEPT !.recently_closed = FALSE]
      /\ \A x \in DOMAIN structs : x # last => structs'[x] = mid[x]
  <2> HIDE DEF mid, last
  <2> QED BY <1>3, <1>5, <1>6, <1>8
<1>10. ASSUME NEW x \in DOMAIN structs
       PROVE  Alike(structs'[x], structs[x])
  <2> HIDE DEF mid, last
  <2>1. CASE x # last
    BY <1>7, <1>9, <2>1
  <2>2. CASE x = last
    <3>1. Alike(structs'[x], mid[x])
      BY <1>7, <1>9, <2>2, FlagEdit
    <3> QED
      BY <1>7, <3>1 DEF Alike
  <2> QED
    BY <2>1, <2>2
<1> HIDE DEF mid
<1> QED
  BY <1>1, <1>3, <1>9, <1>10

\* The structures stay structures, and none disappears.
Grown == structs' \in Seq(Structs) /\ Len(structs') >= Len(structs)

LEMMA GrownByEdit ==
  ASSUME TypeOK, NEW s, NEW r, Edited(s, r)
  PROVE  Grown /\ DOMAIN structs' = DOMAIN structs /\ structs'[s] = r
         /\ \A x \in DOMAIN structs : x # s => structs'[x] = structs[x]
<1>1. structs \in Seq(Structs) /\ Len(structs) \in Nat
  BY TypeFacts
<1> QED
  BY <1>1, StructEdit DEF Grown, Edited

LEMMA AllocEdits ==
  ASSUME TypeOK, ControlInv, NEW u \in Users, NEW dirty \in BOOLEAN, OpenAlloc(u, dirty)
  PROVE  /\ Grown /\ DOMAIN structs' = DOMAIN structs \cup {Len(structs) + 1}
         /\ Len(structs) + 1 \notin DOMAIN structs
         /\ structs'[Len(structs) + 1] = NewStruct(loc[u].name, dirty)
         /\ \A x \in DOMAIN structs : structs'[x] = structs[x]
<1>a. structs \in Seq(Structs) /\ Len(structs) \in Nat /\ DOMAIN structs = 1 .. Len(structs)
  BY TypeFacts
<1>1. loc[u].name \in Names
  BY DEF OpenAlloc, At, ControlInv, HandlesPrivate, Opening
<1>2. NewStruct(loc[u].name, dirty) \in Structs
  BY <1>1 DEF NewStruct, Structs
<1>3. structs' = Append(structs, NewStruct(loc[u].name, dirty))
  BY DEF OpenAlloc
<1> HIDE DEF NewStruct
<1>4. structs' \in Seq(Structs) /\ Len(structs') = Len(structs) + 1
      /\ structs'[Len(structs) + 1] = NewStruct(loc[u].name, dirty)
      /\ \A x \in 1 .. Len(structs) : structs'[x] = structs[x]
  BY <1>a, <1>2, <1>3
<1>5. DOMAIN structs' = 1 .. Len(structs) + 1
  BY <1>4
<1> QED
  BY <1>a, <1>4, <1>5 DEF Grown

LEMMA GrownStep ==
  ASSUME TypeOK, ControlInv, CountersExact, [Next]_vars
  PROVE  Grown
<1>0. structs' = structs => Grown
  BY TypeFacts DEF Grown
<1>1. ASSUME NEW u \in Users, UserStep(u)
      PROVE  Grown
  <2>1. CASE \E dirty \in BOOLEAN : OpenAlloc(u, dirty)
    BY <2>1, AllocEdits
  <2>2. CASE Revive(u) \/ OpenRef(u) \/ WriteCount(u) \/ WriteAppend(u)
    BY <1>0, <2>2, UserEdits, GrownByEdit
  <2>3. CASE OpenLookup(u) \/ OpenAllocFails(u) \/ Unlist(u) \/ OpenSucceeds(u) \/ OpenFails(u)
    BY <1>0, <2>3 DEF OpenLookup, OpenAllocFails, Unlist, OpenSucceeds, OpenFails
  <2> QED
    BY <1>1, <2>1, <2>2, <2>3 DEF UserStep
<1>2. ASSUME NEW u \in Users, NEW h \in Handles, StartWrite(u, h)
      PROVE  Grown
  BY <1>2, StartWriteEdits, GrownByEdit
<1>3. ASSUME NEW u \in Users, \/ \E n \in Names : StartOpen(u, n)
                              \/ OpenWithoutHandle(u)
                              \/ \E h \in Handles : StartClose(u, h)
      PROVE  Grown
  BY <1>0, <1>3 DEF StartOpen, OpenWithoutHandle, StartClose
<1>4. ASSUME NEW t \in Threads, UnrefStep(t)
      PROVE  Grown
  <2>1. CASE Unref(t) \/ Push(t) \/ Dealloc(t)
    BY <1>0, <2>1, UnrefEdits, GrownByEdit
  <2>2. CASE PushFull(t)
    <3>1. structs' \in Seq(Structs) /\ Len(structs') = Len(structs)
      BY <2>2, PushFullEdits
    <3>2. Len(structs) \in Nat
      BY TypeFacts
    <3> QED
      BY <3>1, <3>2 DEF Grown
  <2>3. CASE InsertCheck(t) \/ RuinList(t) \/ UseFreed(t)
    BY <1>0, <2>3 DEF InsertCheck, RuinList, UseFreed
  <2> QED
    BY <1>4, <2>1, <2>2, <2>3 DEF UnrefStep
<1>5. CASE CallbackStep
  <2>1. CASE AckWrite \/ AckCheckpoint \/ Free
    BY <2>1, CallbackEdits, GrownByEdit
  <2>2. CASE Finish \/ HashDelete
    BY <1>0, <2>2 DEF Finish, HashDelete
  <2> QED
    BY <1>5, <2>1, <2>2 DEF CallbackStep
<1>6. CASE UNCHANGED vars
  BY <1>0, <1>6 DEF vars
<1> QED
  BY <1>1, <1>2, <1>3, <1>4, <1>5, <1>6 DEF Next, Stopped

\* The types of the variables other than the structures, which follow them.
LocType == [fh : Handles, s : 0 .. Len(structs), name : Names \cup {None}]

RestOK ==
    /\ fhs \subseteq Handles /\ open \subseteq fhs
    /\ files \in [Handles -> 0 .. Len(structs)]
    /\ file_hash \in [Names -> 0 .. Len(structs)]
    /\ recently_closed \in Seq(DOMAIN structs)
    /\ recently_closed_size \in Int
    /\ open_lock \in Users \cup {None}
    /\ events \in Seq(EventType)
    /\ pc \in [Threads -> Labels]
    /\ loc \in [Threads -> LocType]
    /\ calls \in 0 .. MaxCalls
    /\ crashed \in {"no", "insert", "revive", "list", "freed"}
    /\ evicted \in BOOLEAN

LEMMA TypeIs == TypeOK <=> structs \in Seq(Structs) /\ RestOK
BY DEF TypeOK, RestOK, LocType, EventType

LEMMA NoLocalsType ==
  ASSUME TypeOK
  PROVE  NoLocals \in LocType
BY FileTableAssumption, TypeFacts DEF NoLocals, LocType, Handles

\* What stays below a bound that does not shrink.
LEMMA RangesGrow ==
  ASSUME TypeOK, Grown
  PROVE  /\ DOMAIN structs \subseteq DOMAIN structs'
         /\ 0 .. Len(structs) \subseteq 0 .. Len(structs')
         /\ LocType \subseteq LocType' /\ EventType \subseteq EventType'
         /\ [Handles -> 0 .. Len(structs)] \subseteq [Handles -> 0 .. Len(structs')]
         /\ [Names -> 0 .. Len(structs)] \subseteq [Names -> 0 .. Len(structs')]
         /\ [Threads -> LocType] \subseteq [Threads -> LocType']
         /\ Seq(DOMAIN structs) \subseteq Seq(DOMAIN structs')
         /\ Seq(EventType) \subseteq Seq(EventType')
<1>a. Len(structs) \in Nat /\ DOMAIN structs = 1 .. Len(structs)
  BY TypeFacts
<1>b. Len(structs') \in Nat /\ DOMAIN structs' = 1 .. Len(structs') /\ Len(structs') >= Len(structs)
  BY DEF Grown
<1>1. DOMAIN structs \subseteq DOMAIN structs' /\ 0 .. Len(structs) \subseteq 0 .. Len(structs')
  BY <1>a, <1>b
<1>2. LocType \subseteq LocType' /\ EventType \subseteq EventType'
  BY <1>1 DEF LocType, EventType
<1>3. ASSUME NEW S, NEW T, S \subseteq T
      PROVE  Seq(S) \subseteq Seq(T) /\ \A D : [D -> S] \subseteq [D -> T]
  BY <1>3
<1> QED
  BY <1>1, <1>2, <1>3

\* One step of one thread.
Steps(t) ==
    \/ t \in Users /\ (\E n \in Names : StartOpen(t, n))
    \/ t \in Users /\ OpenWithoutHandle(t)
    \/ t \in Users /\ (\E h \in Handles : StartClose(t, h) \/ StartWrite(t, h))
    \/ t \in Users /\ UserStep(t)
    \/ UnrefStep(t)
    \/ t = Callback /\ CallbackStep

LEMMA StepsOf ==
  ASSUME [Next]_vars
  PROVE  (\E t \in Threads : Steps(t)) \/ UNCHANGED vars
BY RoleFacts DEF Next, Steps, Stopped

\* It moves no other thread.
LEMMA OthersStay ==
  ASSUME TypeOK, NEW t \in Threads, Steps(t)
  PROVE  /\ pc' \in [Threads -> Labels]
         /\ \A v \in Threads : v # t => pc'[v] = pc[v] /\ loc'[v] = loc[v]
<1>a. pc \in [Threads -> Labels] /\ loc \in [Threads -> LocType]
  BY TypeIs DEF RestOK
<1>1. ASSUME t \in Users, (\E n \in Names : StartOpen(t, n)) \/ OpenWithoutHandle(t)
                          \/ (\E h \in Handles : StartClose(t, h) \/ StartWrite(t, h))
      PROVE  /\ pc' \in [Threads -> Labels]
             /\ \A v \in Threads : v # t => pc'[v] = pc[v] /\ loc'[v] = loc[v]
  BY <1>a, <1>1 DEF StartOpen, OpenWithoutHandle, StartClose, StartWrite, Goto, Labels
<1>2. ASSUME t \in Users, UserStep(t)
      PROVE  /\ pc' \in [Threads -> Labels]
             /\ \A v \in Threads : v # t => pc'[v] = pc[v] /\ loc'[v] = loc[v]
  <2>1. CASE OpenLookup(t) \/ OpenAllocFails(t) \/ Revive(t) \/ Unlist(t)
             \/ \E dirty \in BOOLEAN : OpenAlloc(t, dirty)
    BY <1>a, <2>1 DEF OpenLookup, OpenAllocFails, Revive, Unlist, OpenAlloc, Goto, Step, Labels
  <2>2. CASE OpenRef(t) \/ OpenSucceeds(t) \/ OpenFails(t) \/ WriteCount(t) \/ WriteAppend(t)
    BY <1>a, <2>2 DEF OpenRef, OpenSucceeds, OpenFails, WriteCount, WriteAppend, Goto, Step, Labels
  <2> QED
    BY <1>2, <2>1, <2>2 DEF UserStep
<1>3. ASSUME UnrefStep(t)
      PROVE  /\ pc' \in [Threads -> Labels]
             /\ \A v \in Threads : v # t => pc'[v] = pc[v] /\ loc'[v] = loc[v]
  <2>1. CASE Unref(t) \/ InsertCheck(t) \/ Push(t) \/ PushFull(t)
    BY <1>a, <2>1 DEF Unref, InsertCheck, Push, PushFull, Goto, Step, Labels
  <2>2. CASE Dealloc(t) \/ RuinList(t) \/ UseFreed(t)
    BY <1>a, <2>2 DEF Dealloc, RuinList, UseFreed, Goto, Step, Labels
  <2> QED
    BY <1>3, <2>1, <2>2 DEF UnrefStep
<1>4. ASSUME t = Callback, CallbackStep
      PROVE  /\ pc' \in [Threads -> Labels]
             /\ \A v \in Threads : v # t => pc'[v] = pc[v] /\ loc'[v] = loc[v]
  BY <1>a, <1>4 DEF CallbackStep, AckWrite, AckCheckpoint, Finish, HashDelete, Free, Goto, Step,
                    Labels
<1> QED
  BY <1>1, <1>2, <1>3, <1>4 DEF Steps

\* bitmap_reserve gives a handle that is free.
LEMMA FirstFreeIsFree ==
  ASSUME fhs \subseteq Handles, fhs # Handles
  PROVE  FirstFree \in Handles \ fhs
<1>1. MAX_FHS - 1 \in Nat
  BY FileTableAssumption
<1>2. Handles \ fhs \in SUBSET (0 .. MAX_FHS - 1) /\ Handles \ fhs # {}
  BY DEF Handles
<1>3. \E h \in Handles \ fhs : \A g \in Handles \ fhs : h <= g
  BY <1>1, <1>2, LeastOfBounded
<1> QED
  BY <1>3 DEF FirstFree

LEMMA EditKeepsLen ==
  ASSUME TypeOK, NEW s, NEW r, Edited(s, r)
  PROVE  Len(structs') = Len(structs)
<1>1. structs \in Seq(Structs)
  BY TypeFacts
<1> QED
  BY <1>1, StructEdit DEF Edited

LEMMA LocStep ==
  ASSUME TypeOK, ControlInv, Grown, NEW t \in Threads, Steps(t)
  PROVE  loc' \in [Threads -> LocType']
<1>a. loc \in [Threads -> LocType] /\ files \in [Handles -> 0 .. Len(structs)]
      /\ file_hash \in [Names -> 0 .. Len(structs)] /\ NoLocals \in LocType
      /\ Len(structs) \in Nat
  BY TypeIs, NoLocalsType, TypeFacts DEF RestOK
<1>b. LocType \subseteq LocType' /\ 0 .. Len(structs) \subseteq 0 .. Len(structs')
  BY RangesGrow
<1>c. loc[t] \in LocType' /\ loc \in [Threads -> LocType'] /\ NoLocals \in LocType'
  BY <1>a, <1>b
<1>d. loc \in [Threads -> LocType'] /\ [loc EXCEPT ![t] = NoLocals] \in [Threads -> LocType']
  BY <1>c
<1>e. \A s \in 0 .. Len(structs') : [loc EXCEPT ![t].s = s] \in [Threads -> LocType']
  BY <1>c DEF LocType
<1>f. \A f \in Handles, s \in 0 .. Len(structs') :
        [loc EXCEPT ![t].fh = f, ![t].s = s] \in [Threads -> LocType']
  BY <1>c DEF LocType
<1>g. \A f \in Handles, n \in Names :
        [loc EXCEPT ![t].fh = f, ![t].name = n] \in [Threads -> LocType']
  BY <1>c DEF LocType
<1>1. ASSUME t \in Users, NEW n \in Names, StartOpen(t, n)
      PROVE  loc' \in [Threads -> LocType']
  <2>1. FirstFree \in Handles
    BY <1>1, TypeFacts, FirstFreeIsFree DEF StartOpen
  <2> QED
    BY <1>g, <1>1, <2>1 DEF StartOpen
<1>2. ASSUME t \in Users, NEW h \in Handles, StartClose(t, h) \/ StartWrite(t, h)
      PROVE  loc' \in [Threads -> LocType']
  <2>1. files[h] \in 0 .. Len(structs')
    BY <1>a, <1>b
  <2>2. loc' = [loc EXCEPT ![t].fh = h, ![t].s = files[h]]
    BY <1>2 DEF StartClose, StartWrite
  <2> QED
    BY <1>f, <2>1, <2>2
<1>3. ASSUME t \in Users, UserStep(t)
      PROVE  loc' \in [Threads -> LocType']
  <2>1. CASE OpenLookup(t)
    <3>1. loc[t].name \in Names
      BY <1>3, <2>1 DEF OpenLookup, At, ControlInv, HandlesPrivate, Opening
    <3>2. file_hash[loc[t].name] \in 0 .. Len(structs')
      BY <1>a, <1>b, <3>1
    <3> QED
      BY <1>e, <2>1, <3>2 DEF OpenLookup
  <2>2. CASE \E dirty \in BOOLEAN : OpenAlloc(t, dirty)
    <3>1. PICK dirty \in BOOLEAN : OpenAlloc(t, dirty)
      BY <2>2
    <3>2. Len(structs) + 1 \in DOMAIN structs'
      BY <1>3, <3>1, AllocEdits
    <3>3. Len(structs) + 1 \in 0 .. Len(structs')
      BY <1>a, <3>2 DEF Grown
    <3> QED
      BY <1>e, <3>1, <3>3 DEF OpenAlloc
  <2>3. CASE OpenAllocFails(t) \/ Revive(t) \/ Unlist(t)
    BY <1>d, <2>3 DEF OpenAllocFails, Revive, Unlist, Step
  <2>4. CASE OpenRef(t) \/ OpenSucceeds(t) \/ OpenFails(t) \/ WriteCount(t) \/ WriteAppend(t)
    BY <1>d, <2>4 DEF OpenRef, OpenSucceeds, OpenFails, WriteCount, WriteAppend, Step
  <2> QED
    BY <1>3, <2>1, <2>2, <2>3, <2>4 DEF UserStep
<1>4. ASSUME UnrefStep(t)
      PROVE  loc' \in [Threads -> LocType']
  <2>1. CASE PushFull(t)
    <3>1. loc' = [loc EXCEPT ![t].s = Last(<<loc[t].s>> \o recently_closed)]
      BY <2>1 DEF PushFull
    <3>2. Last(<<loc[t].s>> \o recently_closed) \in DOMAIN structs
      BY <2>1, PushFullEdits
    <3>3. Last(<<loc[t].s>> \o recently_closed) \in 0 .. Len(structs')
      BY <1>a, <1>b, <3>2, TypeFacts
    <3> QED
      BY <1>e, <3>1, <3>3
  <2>2. CASE Unref(t) \/ InsertCheck(t) \/ Push(t) \/ Dealloc(t) \/ RuinList(t) \/ UseFreed(t)
    BY <1>d, <2>2 DEF Unref, InsertCheck, Push, Dealloc, RuinList, UseFreed, Step
  <2> QED
    BY <1>4, <2>1, <2>2 DEF UnrefStep
<1>5. ASSUME t = Callback, CallbackStep
      PROVE  loc' \in [Threads -> LocType']
  <2>1. CASE AckWrite \/ AckCheckpoint
    <3>1. Head(events).s \in 0 .. Len(structs')
      <4>1. events # << >>
        BY <2>1 DEF AckWrite, AckCheckpoint, NextEvent
      <4>2. Head(events) \in EventType
        BY <4>1, TypeFacts
      <4> QED
        BY <1>b, <4>2, TypeFacts DEF EventType
    <3> QED
      BY <1>d, <1>e, <1>5, <2>1, <3>1 DEF AckWrite, AckCheckpoint
  <2>2. CASE Finish \/ HashDelete \/ Free
    BY <1>d, <1>5, <2>2 DEF Finish, HashDelete, Free, Step
  <2> QED
    BY <1>5, <2>1, <2>2 DEF CallbackStep
<1>6. ASSUME OpenWithoutHandle(t)
      PROVE  loc' \in [Threads -> LocType']
  BY <1>a, <1>b, <1>6 DEF OpenWithoutHandle
<1> QED
  BY <1>1, <1>2, <1>3, <1>4, <1>5, <1>6 DEF Steps

LEMMA RemoveAtFacts ==
  ASSUME NEW S, NEW q \in Seq(S), NEW i \in DOMAIN q
  PROVE  /\ RemoveAt(q, i) \in Seq(S) /\ Len(RemoveAt(q, i)) = Len(q) - 1
         /\ \A j \in 1 .. Len(q) - 1 : RemoveAt(q, i)[j] = IF j < i THEN q[j] ELSE q[j + 1]
<1>a. Len(q) \in Nat /\ i \in 1 .. Len(q)
  OBVIOUS
<1> DEFINE a == SubSeq(q, 1, i - 1)
           b == SubSeq(q, i + 1, Len(q))
<1>1. a \in Seq(S) /\ Len(a) = i - 1 /\ \A j \in 1 .. i - 1 : a[j] = q[j]
  BY <1>a
<1>2. b \in Seq(S) /\ Len(b) = Len(q) - i /\ \A j \in 1 .. Len(q) - i : b[j] = q[i + j]
  BY <1>a
<1>3. RemoveAt(q, i) = a \o b
  BY DEF RemoveAt
<1> HIDE DEF a, b
<1>4. /\ a \o b \in Seq(S) /\ Len(a \o b) = Len(a) + Len(b)
      /\ \A j \in 1 .. Len(a) + Len(b) : (a \o b)[j] = IF j <= Len(a) THEN a[j] ELSE b[j - Len(a)]
  BY <1>1, <1>2, ConcatProperties
<1>5. ASSUME NEW j \in 1 .. Len(q) - 1
      PROVE  (a \o b)[j] = IF j < i THEN q[j] ELSE q[j + 1]
  <2>1. CASE j < i
    BY <1>a, <1>1, <1>2, <1>4, <2>1
  <2>2. CASE ~(j < i)
    <3>1. j - (i - 1) \in 1 .. Len(q) - i
      BY <1>a, <2>2
    <3>2. b[j - (i - 1)] = q[i + (j - (i - 1))]
      BY <1>2, <3>1
    <3>3. i + (j - (i - 1)) = j + 1
      BY <1>a
    <3>4. j \in 1 .. Len(a) + Len(b) /\ ~(j <= Len(a)) /\ j - Len(a) = j - (i - 1)
      BY <1>a, <1>1, <1>2, <2>2
    <3>5. (a \o b)[j] = b[j - (i - 1)]
      BY <1>4, <3>4
    <3> QED
      BY <2>2, <3>2, <3>3, <3>5
  <2> QED
    BY <2>1, <2>2
<1>6. Len(a) + Len(b) = Len(q) - 1
  BY <1>a, <1>1, <1>2
<1>7. a \o b \in Seq(S) /\ Len(a \o b) = Len(q) - 1
  BY <1>4, <1>6
<1> HIDE DEF a, b
<1> QED
  BY <1>3, <1>5, <1>7

LEMMA FrontFacts ==
  ASSUME NEW S, NEW q \in Seq(S), NEW x \in S
  PROVE  LET p == <<x>> \o q
         IN  /\ p \in Seq(S) /\ Len(p) = Len(q) + 1 /\ p[1] = x
             /\ \A j \in 1 .. Len(q) : p[j + 1] = q[j]
             /\ Front(p) \in Seq(S) /\ Len(Front(p)) = Len(q)
             /\ \A j \in 1 .. Len(q) : Front(p)[j] = p[j]
             /\ Last(p) = p[Len(q) + 1]
<1> DEFINE p == <<x>> \o q
<1>1. p \in Seq(S) /\ Len(p) = Len(q) + 1 /\ p[1] = x /\ Len(q) \in Nat
      /\ \A j \in 1 .. Len(q) : p[j + 1] = q[j]
  OBVIOUS
<1> HIDE DEF p
<1>2. /\ SubSeq(p, 1, Len(p) - 1) \in Seq(S) /\ Len(SubSeq(p, 1, Len(p) - 1)) = Len(q)
      /\ \A j \in 1 .. Len(q) : SubSeq(p, 1, Len(p) - 1)[j] = p[j]
  BY <1>1
<1>3. /\ Front(p) \in Seq(S) /\ Len(Front(p)) = Len(q)
      /\ \A j \in 1 .. Len(q) : Front(p)[j] = p[j]
      /\ Last(p) = p[Len(q) + 1]
  BY <1>1, <1>2 DEF Front, Last
<1> QED
  BY <1>1, <1>3 DEF p

LEMMA PushedFront ==
  ASSUME NEW S, NEW q \in Seq(S), NEW x \in S, NEW f, f = Front(<<x>> \o q)
  PROVE  /\ f \in Seq(S) /\ Len(f) = Len(q)
         /\ \A j \in 1 .. Len(q) : f[j] = IF j = 1 THEN x ELSE q[j - 1]
<1> DEFINE p == <<x>> \o q
<1>1. /\ Len(q) \in Nat /\ p[1] = x /\ \A j \in 1 .. Len(q) : p[j + 1] = q[j]
  OBVIOUS
<1>2. f \in Seq(S) /\ Len(f) = Len(q) /\ \A j \in 1 .. Len(q) : f[j] = p[j]
  BY FrontFacts
<1> HIDE DEF p
<1>3. ASSUME NEW j \in 1 .. Len(q), j # 1
      PROVE  p[j] = q[j - 1]
  <2>1. j - 1 \in 1 .. Len(q) /\ (j - 1) + 1 = j
    BY <1>1, <1>3
  <2> QED
    BY <1>1, <2>1
<1> QED
  BY <1>1, <1>2, <1>3

LEMMA HandleSetsStep ==
  ASSUME TypeOK, ControlInv, NEW t \in Threads, Steps(t)
  PROVE  fhs' \subseteq Handles /\ open' \subseteq fhs'
<1>a. fhs \subseteq Handles /\ open \subseteq fhs
  BY TypeFacts
<1>1. ASSUME t \in Users, NEW n \in Names, StartOpen(t, n)
      PROVE  fhs' \subseteq Handles /\ open' \subseteq fhs'
  BY <1>a, <1>1, FirstFreeIsFree DEF StartOpen
<1>2. ASSUME t \in Users, NEW h \in Handles, StartClose(t, h)
      PROVE  fhs' \subseteq Handles /\ open' \subseteq fhs'
  BY <1>a, <1>2 DEF StartClose
<1>3. ASSUME t \in Users, OpenAllocFails(t) \/ OpenFails(t) \/ OpenSucceeds(t)
      PROVE  fhs' \subseteq Handles /\ open' \subseteq fhs'
  <2>1. loc[t].fh \in fhs \ open
    BY <1>3 DEF OpenAllocFails, OpenFails, OpenSucceeds, At, ControlInv, HandlesPrivate, Opening
  <2> QED
    BY <1>a, <1>3, <2>1 DEF OpenAllocFails, OpenFails, OpenSucceeds
<1>4. CASE UNCHANGED <<fhs, open>>
  BY <1>a, <1>4
<1>5. ASSUME t \in Users,
             \/ OpenWithoutHandle(t) \/ (\E h \in Handles : StartWrite(t, h)) \/ OpenLookup(t)
             \/ Revive(t) \/ Unlist(t) \/ (\E dirty \in BOOLEAN : OpenAlloc(t, dirty))
             \/ OpenRef(t) \/ WriteCount(t) \/ WriteAppend(t)
      PROVE  fhs' \subseteq Handles /\ open' \subseteq fhs'
  BY <1>4, <1>5 DEF OpenWithoutHandle, StartWrite, OpenLookup, Revive, Unlist, OpenAlloc, OpenRef,
                    WriteCount, WriteAppend, handleVars
<1>6. CASE UnrefStep(t) \/ CallbackStep
  BY <1>4, <1>6 DEF UnrefStep, Unref, InsertCheck, Push, PushFull, Dealloc, RuinList, UseFreed,
                    CallbackStep, AckWrite, AckCheckpoint, Finish, HashDelete, Free, handleVars
<1> QED
  BY <1>1, <1>2, <1>3, <1>5, <1>6 DEF Steps, UserStep

LEMMA TablesStep ==
  ASSUME TypeOK, ControlInv, Grown, NEW t \in Threads, Steps(t)
  PROVE  /\ files' \in [Handles -> 0 .. Len(structs')]
         /\ file_hash' \in [Names -> 0 .. Len(structs')]
<1>a. /\ files \in [Handles -> 0 .. Len(structs')] /\ file_hash \in [Names -> 0 .. Len(structs')]
      /\ loc \in [Threads -> LocType] /\ 0 .. Len(structs) \subseteq 0 .. Len(structs')
      /\ Len(structs) \in Nat /\ Len(structs') \in Nat
  BY TypeIs, RangesGrow, TypeFacts DEF RestOK, Grown
<1>1. ASSUME t \in Users, OpenRef(t)
      PROVE  /\ files' \in [Handles -> 0 .. Len(structs')]
             /\ file_hash' \in [Names -> 0 .. Len(structs')]
  <2>1. loc[t].s \in 0 .. Len(structs')
    BY <1>a DEF LocType
  <2> QED
    BY <1>a, <1>1, <2>1 DEF OpenRef
<1>2. ASSUME t \in Users, NEW dirty \in BOOLEAN, OpenAlloc(t, dirty)
      PROVE  /\ files' \in [Handles -> 0 .. Len(structs')]
             /\ file_hash' \in [Names -> 0 .. Len(structs')]
  <2>1. Len(structs) + 1 \in DOMAIN structs'
    BY <1>2, AllocEdits
  <2>2. Len(structs) + 1 \in 0 .. Len(structs')
    BY <1>a, <2>1 DEF Grown
  <2> QED
    BY <1>a, <1>2, <2>2 DEF OpenAlloc, handleVars
<1>3. CASE HashDelete
  <2>1. 0 \in 0 .. Len(structs')
    BY <1>a
  <2>2. files' = files /\ \E n : file_hash' = [file_hash EXCEPT ![n] = 0]
    BY <1>3 DEF HashDelete, handleVars
  <2> QED
    BY <1>a, <2>1, <2>2
<1>4. CASE UNCHANGED <<files, file_hash>>
  BY <1>a, <1>4
<1>5. ASSUME t \in Users,
             \/ OpenWithoutHandle(t) \/ (\E n \in Names : StartOpen(t, n))
             \/ (\E h \in Handles : StartWrite(t, h) \/ StartClose(t, h)) \/ OpenLookup(t)
             \/ Revive(t) \/ Unlist(t) \/ OpenAllocFails(t) \/ OpenFails(t) \/ OpenSucceeds(t)
             \/ WriteCount(t) \/ WriteAppend(t)
      PROVE  UNCHANGED <<files, file_hash>>
  BY <1>5 DEF OpenWithoutHandle, StartOpen, StartWrite, StartClose, OpenLookup, Revive, Unlist,
              OpenAllocFails, OpenFails, OpenSucceeds, WriteCount, WriteAppend, handleVars
<1>6. ASSUME UnrefStep(t) \/ AckWrite \/ AckCheckpoint \/ Finish \/ Free
      PROVE  UNCHANGED <<files, file_hash>>
  BY <1>6 DEF UnrefStep, Unref, InsertCheck, Push, PushFull, Dealloc, RuinList, UseFreed,
                    AckWrite, AckCheckpoint, Finish, Free, handleVars
<1> QED
  BY <1>1, <1>2, <1>3, <1>4, <1>5, <1>6 DEF Steps, UserStep, CallbackStep

LEMMA ListStep ==
  ASSUME TypeOK, ControlInv, Grown, NEW t \in Threads, Steps(t)
  PROVE  /\ recently_closed' \in Seq(DOMAIN structs')
         /\ recently_closed_size' \in Int /\ evicted' \in BOOLEAN
<1>a. /\ recently_closed \in Seq(DOMAIN structs)
      /\ recently_closed_size \in Int /\ evicted \in BOOLEAN
      /\ Seq(DOMAIN structs) \subseteq Seq(DOMAIN structs')
  BY TypeIs, RangesGrow DEF RestOK
<1>b. pc[t] \notin {"idle", "lookup", "alloc"} => loc[t].s \in DOMAIN structs
  BY DEF ControlInv, ThreadsHaveStructs
<1>1. CASE Unlist(t)
  BY <1>a, <1>1, RemoveAtFacts DEF Unlist
<1>2. CASE Push(t)
  <2>1. loc[t].s \in DOMAIN structs
    BY <1>2, <1>b DEF Push, At
  <2>2. <<loc[t].s>> \o recently_closed \in Seq(DOMAIN structs)
    BY <1>a, <2>1, FrontFacts
  <2>3. /\ recently_closed' = <<loc[t].s>> \o recently_closed
        /\ recently_closed_size' = recently_closed_size + 1 /\ evicted' = evicted
    BY <1>2 DEF Push
  <2>4. recently_closed_size' \in Int
    BY <1>a, <2>3
  <2>5. recently_closed' \in Seq(DOMAIN structs')
    BY <1>a, <2>2, <2>3
  <2> QED
    BY <1>a, <2>3, <2>4, <2>5, Zenon
<1>3. CASE PushFull(t)
  <2>1. loc[t].s \in DOMAIN structs
    BY <1>3, <1>b DEF PushFull, At
  <2>2. Front(<<loc[t].s>> \o recently_closed) \in Seq(DOMAIN structs)
    BY <1>a, <2>1, FrontFacts
  <2>3. /\ recently_closed' = Front(<<loc[t].s>> \o recently_closed)
        /\ recently_closed_size' = recently_closed_size /\ evicted' = TRUE
    BY <1>3 DEF PushFull
  <2> QED
    BY <1>a, <2>2, <2>3
<1>4. CASE UNCHANGED rcVars
  BY <1>a, <1>4 DEF rcVars
<1>5. ASSUME t \in Users,
             \/ OpenWithoutHandle(t) \/ (\E n \in Names : StartOpen(t, n))
             \/ (\E h \in Handles : StartWrite(t, h) \/ StartClose(t, h)) \/ OpenLookup(t)
             \/ Revive(t) \/ (\E dirty \in BOOLEAN : OpenAlloc(t, dirty)) \/ OpenAllocFails(t)
             \/ OpenRef(t) \/ OpenFails(t) \/ OpenSucceeds(t) \/ WriteCount(t) \/ WriteAppend(t)
      PROVE  UNCHANGED rcVars
  BY <1>5 DEF OpenWithoutHandle, StartOpen, StartWrite, StartClose, OpenLookup, Revive, OpenAlloc,
              OpenAllocFails, OpenRef, OpenFails, OpenSucceeds, WriteCount, WriteAppend
<1>6. CASE Unref(t) \/ InsertCheck(t) \/ Dealloc(t) \/ RuinList(t) \/ UseFreed(t) \/ CallbackStep
  BY <1>4, <1>6 DEF Unref, InsertCheck, Dealloc, RuinList, UseFreed,
                    CallbackStep, AckWrite, AckCheckpoint, Finish, HashDelete, Free
<1> QED
  BY <1>1, <1>2, <1>3, <1>4, <1>5, <1>6 DEF Steps, UserStep, UnrefStep

LEMMA EventsStep ==
  ASSUME TypeOK, ControlInv, Grown, NEW t \in Threads, Steps(t)
  PROVE  events' \in Seq(EventType')
<1>a. events \in Seq(EventType) /\ Seq(EventType) \subseteq Seq(EventType')
  BY TypeFacts, RangesGrow
<1>b. pc[t] \notin {"idle", "lookup", "alloc"} => loc[t].s \in DOMAIN structs
  BY DEF ControlInv, ThreadsHaveStructs
<1>1. CASE WriteAppend(t)
  <2>1. loc[t].s \in DOMAIN structs
    BY <1>1, <1>b DEF WriteAppend, At
  <2>2. [kind |-> "data", s |-> loc[t].s] \in EventType
    BY <2>1 DEF EventType
  <2>3. events' = Append(events, [kind |-> "data", s |-> loc[t].s])
    BY <1>1 DEF WriteAppend
  <2>4. events' \in Seq(EventType)
    BY <1>a, <2>2, <2>3
  <2> QED
    BY <1>a, <2>4
<1>2. CASE Dealloc(t)
  <2>1. loc[t].s \in DOMAIN structs
    BY <1>2, <1>b DEF Dealloc, At
  <2>2. [kind |-> "ckpt", s |-> loc[t].s] \in EventType
    BY <2>1 DEF EventType
  <2>3. events' = events \/ events' = Append(events, [kind |-> "ckpt", s |-> loc[t].s])
    BY <1>2 DEF Dealloc
  <2>4. events' \in Seq(EventType)
    BY <1>a, <2>2, <2>3
  <2> QED
    BY <1>a, <2>4
<1>3. CASE AckWrite \/ AckCheckpoint
  <2>1. events # << >> /\ events' = Tail(events)
    BY <1>3 DEF AckWrite, AckCheckpoint, NextEvent
  <2>2. Tail(events) \in Seq(EventType)
    BY <1>a, <2>1
  <2> QED
    BY <1>a, <2>1, <2>2
<1>4. CASE events' = events
  BY <1>a, <1>4
<1>5. ASSUME t \in Users,
             \/ OpenWithoutHandle(t) \/ (\E n \in Names : StartOpen(t, n))
             \/ (\E h \in Handles : StartWrite(t, h) \/ StartClose(t, h)) \/ OpenLookup(t)
             \/ Revive(t) \/ (\E dirty \in BOOLEAN : OpenAlloc(t, dirty)) \/ OpenAllocFails(t)
             \/ Unlist(t)
      PROVE  events' = events
  BY <1>5 DEF OpenWithoutHandle, StartOpen, StartWrite, StartClose, OpenLookup, Revive, OpenAlloc,
              OpenAllocFails, Unlist
<1>6. CASE \/ OpenRef(t) \/ OpenFails(t) \/ OpenSucceeds(t) \/ WriteCount(t)
           \/ Unref(t) \/ InsertCheck(t) \/ Push(t) \/ PushFull(t) \/ RuinList(t) \/ UseFreed(t)
           \/ Finish \/ HashDelete \/ Free
  BY <1>4, <1>6 DEF OpenRef, OpenFails, OpenSucceeds, WriteCount, Unref, InsertCheck, Push,
                    PushFull, RuinList, UseFreed, Finish, HashDelete, Free
<1> QED
  BY <1>1, <1>2, <1>3, <1>4, <1>5, <1>6 DEF Steps, UserStep, UnrefStep, CallbackStep

LEMMA ScalarsStep ==
  ASSUME TypeOK, NEW t \in Threads, Steps(t)
  PROVE  /\ open_lock' \in Users \cup {None}
         /\ calls' \in 0 .. MaxCalls
         /\ crashed' \in {"no", "insert", "revive", "list", "freed"}
<1>a. /\ open_lock \in Users \cup {None} /\ calls \in 0 .. MaxCalls
      /\ crashed \in {"no", "insert", "revive", "list", "freed"}
  BY DEF TypeOK
<1>b. calls < MaxCalls => calls + 1 \in 0 .. MaxCalls
  BY <1>a, FileTableAssumption
<1>1. ASSUME t \in Users,
             \/ OpenWithoutHandle(t) \/ (\E n \in Names : StartOpen(t, n))
             \/ (\E h \in Handles : StartWrite(t, h) \/ StartClose(t, h))
      PROVE  calls' \in 0 .. MaxCalls /\ open_lock' = open_lock /\ crashed' = crashed
  <2>1. calls < MaxCalls /\ calls' = calls + 1 /\ open_lock' = open_lock /\ crashed' = crashed
    BY <1>1 DEF OpenWithoutHandle, StartOpen, StartWrite, StartClose, Call
  <2> QED
    BY <1>b, <2>1
<1>2. ASSUME t \in Users, UserStep(t)
      PROVE  calls' = calls /\ open_lock' \in {open_lock, t, None} /\ crashed' \in {crashed, "revive"}
  BY <1>2 DEF UserStep, OpenLookup, OpenAllocFails, Revive, Unlist, OpenAlloc, OpenRef,
              OpenSucceeds, OpenFails, WriteCount, WriteAppend
<1>3. ASSUME UnrefStep(t)
      PROVE  calls' = calls /\ open_lock' = open_lock /\ crashed' \in {crashed, "insert", "list", "freed"}
  BY <1>3 DEF UnrefStep, Unref, InsertCheck, Push, PushFull, Dealloc, RuinList, UseFreed
<1>4. ASSUME CallbackStep
      PROVE  calls' = calls /\ open_lock' = open_lock /\ crashed' = crashed
  BY <1>4 DEF CallbackStep, AckWrite, AckCheckpoint, Finish, HashDelete, Free
<1> QED
  BY <1>a, <1>1, <1>2, <1>3, <1>4 DEF Steps

LEMMA TypeStep ==
  ASSUME TypeOK, ControlInv, CountersExact, [Next]_vars
  PROVE  TypeOK'
<1>1. Grown
  BY GrownStep
<1>2. ASSUME NEW t \in Threads, Steps(t)
      PROVE  TypeOK'
  <2>1. RestOK'
    BY <1>1, <1>2, HandleSetsStep, TablesStep, ListStep, EventsStep, ScalarsStep, OthersStay,
       LocStep DEF RestOK
  <2> QED
    BY <1>1, <2>1 DEF Grown, RestOK, TypeOK, LocType, EventType
<1>3. CASE UNCHANGED vars
  BY <1>3 DEF vars, TypeOK
<1> QED
  BY <1>2, <1>3, StepsOf
-----------------------------------------------------------------------------
\* Where a step takes its thread: from one label to another, to a handle, a
\* structure and a name.
Moved(t, from, to, f, s, n) ==
    /\ crashed = "no" /\ pc[t] = from /\ pc'[t] = to
    /\ loc'[t].fh = f /\ loc'[t].s = s /\ loc'[t].name = n

Stays(t, to) == Moved(t, pc[t], to, loc[t].fh, loc[t].s, loc[t].name)
Ends(t) == Moved(t, pc[t], "idle", 0, 0, None)

LEMMA StartMoves ==
  ASSUME TypeOK, NEW u \in Users
  PROVE  /\ \A n \in Names : StartOpen(u, n) => Moved(u, "idle", "lookup", FirstFree, loc[u].s, n)
         /\ OpenWithoutHandle(u) => pc' = pc /\ loc' = loc
         /\ \A h \in Handles : StartClose(u, h) => Moved(u, "idle", "unref", h, files[h], loc[u].name)
         /\ \A h \in Handles : StartWrite(u, h) => Moved(u, "idle", "count", h, files[h], loc[u].name)
<1>a. u \in Threads /\ pc \in [Threads -> Labels] /\ loc \in [Threads -> LocType]
  BY TypeIs, RoleFacts DEF RestOK
<1> QED
  BY <1>a DEF StartOpen, OpenWithoutHandle, StartClose, StartWrite, Call, At, Goto, Moved, LocType

LEMMA OpenMoves ==
  ASSUME TypeOK, NEW u \in Users
  PROVE  /\ OpenLookup(u) =>
              LET s == file_hash[loc[u].name]
              IN  Moved(u, "lookup", IF s = 0 THEN "alloc"
                          ELSE IF structs[s].recently_closed THEN "revive" ELSE "ref",
                        loc[u].fh, s, loc[u].name)
         /\ \A dirty \in BOOLEAN : OpenAlloc(u, dirty) =>
              Moved(u, "alloc", "ref", loc[u].fh, Len(structs) + 1, loc[u].name)
         /\ OpenAllocFails(u) => pc[u] = "alloc" /\ Ends(u)
         /\ Revive(u) => /\ pc[u] = "revive"
                         /\ (pc' = pc /\ loc' = loc /\ structs' = structs /\ crashed' = "revive")
                            \/ (Stays(u, "unlist") /\ crashed' = crashed)
         /\ Unlist(u) => pc[u] = "unlist" /\ Stays(u, "ref")
<1>a. u \in Threads /\ pc \in [Threads -> Labels] /\ loc \in [Threads -> LocType]
  BY TypeIs, RoleFacts DEF RestOK
<1>1. /\ OpenLookup(u) =>
              LET s == file_hash[loc[u].name]
              IN  Moved(u, "lookup", IF s = 0 THEN "alloc"
                          ELSE IF structs[s].recently_closed THEN "revive" ELSE "ref",
                        loc[u].fh, s, loc[u].name)
      /\ \A dirty \in BOOLEAN : OpenAlloc(u, dirty) =>
              Moved(u, "alloc", "ref", loc[u].fh, Len(structs) + 1, loc[u].name)
  BY <1>a DEF OpenLookup, OpenAlloc, At, Goto, Moved, LocType
<1>2. OpenAllocFails(u) => pc[u] = "alloc" /\ Ends(u)
  BY <1>a DEF OpenAllocFails, At, Goto, Step, Moved, Ends, NoLocals
<1>3. Revive(u) => /\ pc[u] = "revive"
                   /\ (pc' = pc /\ loc' = loc /\ structs' = structs /\ crashed' = "revive")
                      \/ (Stays(u, "unlist") /\ crashed' = crashed)
  BY <1>a DEF Revive, At, Goto, Moved, Stays
<1>4. Unlist(u) => pc[u] = "unlist" /\ Stays(u, "ref")
  BY <1>a DEF Unlist, At, Goto, Step, Moved, Stays
<1> QED
  BY <1>1, <1>2, <1>3, <1>4

LEMMA UseMoves ==
  ASSUME TypeOK, NEW u \in Users
  PROVE  /\ OpenRef(u) => pc[u] = "ref" /\ Stays(u, "opened")
         /\ OpenSucceeds(u) => pc[u] = "opened" /\ Ends(u)
         /\ OpenFails(u) => pc[u] = "opened" /\ Stays(u, "unref")
         /\ WriteCount(u) => pc[u] = "count" /\ Stays(u, "append")
         /\ WriteAppend(u) => pc[u] = "append" /\ Ends(u)
<1>a. u \in Threads /\ pc \in [Threads -> Labels] /\ loc \in [Threads -> LocType]
  BY TypeIs, RoleFacts DEF RestOK
<1> QED
  BY <1>a DEF OpenRef, OpenSucceeds, OpenFails, WriteCount, WriteAppend, At, Goto, Step, Moved,
              Stays, Ends, NoLocals

LEMMA UnrefMoves ==
  ASSUME TypeOK, NEW t \in Threads
  PROVE  /\ Unref(t) => /\ pc[t] = "unref"
                        /\ IF structs[loc[t].s].ref_count = 1 THEN Stays(t, "insert") ELSE Ends(t)
         /\ InsertCheck(t) => /\ pc[t] = "insert" /\ loc' = loc
                              /\ pc' = pc \/ Stays(t, "push")
         /\ Push(t) => pc[t] = "push" /\ Ends(t)
         /\ PushFull(t) => Moved(t, "push", "dealloc", loc[t].fh,
                                 Last(<<loc[t].s>> \o recently_closed), loc[t].name)
         /\ Dealloc(t) => pc[t] = "dealloc" /\ Ends(t)
         /\ RuinList(t) \/ UseFreed(t) => pc' = pc /\ loc' = loc /\ crashed' # "no"
<1>a. pc \in [Threads -> Labels] /\ loc \in [Threads -> LocType]
  BY TypeIs DEF RestOK
<1>1. Unref(t) => /\ pc[t] = "unref"
                  /\ IF structs[loc[t].s].ref_count = 1 THEN Stays(t, "insert") ELSE Ends(t)
  BY <1>a DEF Unref, At, Goto, Step, My, Moved, Stays, Ends, NoLocals
<1>2. InsertCheck(t) => pc[t] = "insert" /\ loc' = loc /\ (pc' = pc \/ Stays(t, "push"))
  BY <1>a DEF InsertCheck, At, Goto, Moved, Stays
<1>3. (Push(t) => pc[t] = "push" /\ Ends(t)) /\ (Dealloc(t) => pc[t] = "dealloc" /\ Ends(t))
  BY <1>a DEF Push, Dealloc, At, Goto, Step, Moved, Ends, NoLocals
<1>4. PushFull(t) => Moved(t, "push", "dealloc", loc[t].fh,
                           Last(<<loc[t].s>> \o recently_closed), loc[t].name)
  BY <1>a DEF PushFull, At, Goto, Moved, LocType
<1>5. RuinList(t) \/ UseFreed(t) => pc' = pc /\ loc' = loc /\ crashed' # "no"
  BY DEF RuinList, UseFreed
<1> QED
  BY <1>1, <1>2, <1>3, <1>4, <1>5

LEMMA CallbackMoves ==
  ASSUME TypeOK
  PROVE  /\ AckWrite => Moved(Callback, "idle", "unref", loc[Callback].fh, Head(events).s,
                              loc[Callback].name)
         /\ AckCheckpoint =>
              \/ pc' = pc /\ loc' = loc
              \/ Moved(Callback, "idle", "finish", loc[Callback].fh, Head(events).s,
                       loc[Callback].name)
         /\ Finish => /\ pc[Callback] = "finish"
                      /\ IF MayFree(loc[Callback].s) THEN Stays(Callback, "delete")
                                                     ELSE Ends(Callback)
         /\ HashDelete => pc[Callback] = "delete" /\ Stays(Callback, "free")
         /\ Free => pc[Callback] = "free" /\ Ends(Callback)
<1>a. pc \in [Threads -> Labels] /\ loc \in [Threads -> LocType] /\ Callback \in Threads
  BY TypeIs, RoleFacts DEF RestOK
<1>1. AckWrite => Moved(Callback, "idle", "unref", loc[Callback].fh, Head(events).s,
                        loc[Callback].name)
  BY <1>a DEF AckWrite, NextEvent, At, Goto, Moved, LocType
<1>2. AckCheckpoint =>
        \/ pc' = pc /\ loc' = loc
        \/ Moved(Callback, "idle", "finish", loc[Callback].fh, Head(events).s, loc[Callback].name)
  BY <1>a DEF AckCheckpoint, NextEvent, At, Goto, Moved, LocType
<1>3. Finish => /\ pc[Callback] = "finish"
                /\ IF MayFree(loc[Callback].s) THEN Stays(Callback, "delete") ELSE Ends(Callback)
  BY <1>a DEF Finish, At, Goto, Step, Moved, Stays, Ends, NoLocals
<1>4. /\ HashDelete => pc[Callback] = "delete" /\ Stays(Callback, "free")
      /\ Free => pc[Callback] = "free" /\ Ends(Callback)
  BY <1>a DEF HashDelete, Free, At, Goto, Step, Moved, Stays, Ends, NoLocals
<1> QED
  BY <1>1, <1>2, <1>3, <1>4

LEMMA StructsStep ==
  ASSUME TypeOK, ControlInv, Grown, NEW t \in Threads, Steps(t)
  PROVE  ThreadsHaveStructs'
<1>a. DOMAIN structs \subseteq DOMAIN structs'
  BY RangesGrow
<1>b. /\ pc[t] \notin {"idle", "lookup", "alloc"} => loc[t].s \in DOMAIN structs'
      /\ t \in Users => pc[t] \notin Freeing
      /\ t = Callback => pc[t] \in {"idle"} \cup Unusing \cup Freeing
  BY <1>a DEF ControlInv, ThreadsHaveStructs
<1>c. \A x \in 0 .. Len(structs) : x # 0 => x \in DOMAIN structs'
  BY <1>a, TypeFacts
<1>d. \A v \in Threads : v # t => pc'[v] = pc[v] /\ loc'[v] = loc[v]
  BY OthersStay
<1> DEFINE Good == /\ pc'[t] \notin {"idle", "lookup", "alloc"} => loc'[t].s \in DOMAIN structs'
                   /\ t \in Users => pc'[t] \notin Freeing
                   /\ t = Callback => pc'[t] \in {"idle"} \cup Unusing \cup Freeing
<1>e. Ends(t) => Good
  BY RoleFacts DEF Ends, Moved, Freeing
<1>f. pc' = pc /\ loc' = loc => Good
  BY <1>b
<1>g. \A to \in Unusing : Stays(t, to) /\ pc[t] \notin {"idle", "lookup", "alloc"} => Good
  BY <1>b, RoleFacts DEF Stays, Moved, Freeing, Unusing
<1>1. ASSUME t \in Users, (\E n \in Names : StartOpen(t, n)) \/ OpenWithoutHandle(t)
      PROVE  Good
  <2>1. pc'[t] = "lookup" \/ (pc' = pc /\ loc' = loc)
    BY <1>1, StartMoves DEF Moved
  <2>2. t # Callback
    BY <1>1, RoleFacts
  <2> QED
    BY <1>f, <2>1, <2>2 DEF Freeing
<1>2. ASSUME t \in Users, NEW h \in Handles, StartClose(t, h) \/ StartWrite(t, h)
      PROVE  Good
  <2>1. files[h] \in 0 .. Len(structs) /\ files[h] # 0
    BY <1>2 DEF StartClose, StartWrite, ControlInv, HandlesPrivate, TypeOK
  <2>2. pc'[t] \in {"unref", "count"} /\ loc'[t].s = files[h]
    BY <1>2, StartMoves DEF Moved
  <2>3. t # Callback
    BY <1>2, RoleFacts
  <2> QED
    BY <1>c, <2>1, <2>2, <2>3 DEF Freeing
<1>3. ASSUME t \in Users, UserStep(t)
      PROVE  Good
  <2>t. t # Callback
    BY <1>3, RoleFacts
  <2>1. CASE OpenLookup(t)
    <3>1. loc[t].name \in Names
      BY <1>3, <2>1 DEF OpenLookup, At, ControlInv, HandlesPrivate, Opening
    <3>2. file_hash[loc[t].name] \in 0 .. Len(structs)
      BY <3>1 DEF TypeOK
    <3>3. /\ loc'[t].s = file_hash[loc[t].name]
          /\ pc'[t] \in {"alloc", "revive", "ref"}
          /\ file_hash[loc[t].name] = 0 => pc'[t] = "alloc"
      BY <1>3, <2>1, OpenMoves DEF Moved
    <3> QED
      BY <1>c, <2>t, <3>2, <3>3 DEF Freeing
  <2>2. CASE \E dirty \in BOOLEAN : OpenAlloc(t, dirty)
    <3>1. PICK dirty \in BOOLEAN : OpenAlloc(t, dirty)
      BY <2>2
    <3>2. Len(structs) + 1 \in DOMAIN structs' /\ pc'[t] = "ref" /\ loc'[t].s = Len(structs) + 1
      BY <1>3, <3>1, AllocEdits, OpenMoves DEF Moved
    <3> QED
      BY <2>t, <3>2 DEF Freeing
  <2>3. CASE Revive(t) \/ Unlist(t) \/ OpenRef(t) \/ OpenFails(t) \/ WriteCount(t)
    <3>1. /\ pc[t] \in {"revive", "unlist", "ref", "opened", "count"}
          /\ \/ pc' = pc /\ loc' = loc
             \/ /\ pc'[t] \in {"unlist", "ref", "opened", "unref", "append"}
                /\ loc'[t].s = loc[t].s
      BY <1>3, <2>3, OpenMoves, UseMoves DEF Moved, Stays
    <3> QED
      BY <1>b, <1>f, <2>t, <3>1 DEF Freeing
  <2>4. CASE OpenAllocFails(t) \/ OpenSucceeds(t) \/ WriteAppend(t)
    BY <1>3, <1>e, <2>4, OpenMoves, UseMoves
  <2> QED
    BY <1>3, <2>1, <2>2, <2>3, <2>4 DEF UserStep
<1>4. ASSUME UnrefStep(t)
      PROVE  Good
  <2>1. CASE PushFull(t)
    <3>1. Last(<<loc[t].s>> \o recently_closed) \in DOMAIN structs
      BY <2>1, PushFullEdits
    <3>2. pc'[t] = "dealloc" /\ loc'[t].s = Last(<<loc[t].s>> \o recently_closed)
      BY <2>1, UnrefMoves DEF Moved
    <3> QED
      BY <1>a, <3>1, <3>2 DEF Freeing, Unusing
  <2>2. CASE Unref(t) \/ InsertCheck(t)
    <3>1. /\ pc[t] \in {"unref", "insert"}
          /\ Ends(t) \/ (pc' = pc /\ loc' = loc) \/ Stays(t, "insert") \/ Stays(t, "push")
      BY <2>2, UnrefMoves
    <3> QED
      BY <1>e, <1>f, <1>g, <3>1 DEF Unusing
  <2>3. CASE Push(t) \/ Dealloc(t) \/ RuinList(t) \/ UseFreed(t)
    BY <1>e, <1>f, <2>3, UnrefMoves
  <2> QED
    BY <1>4, <2>1, <2>2, <2>3 DEF UnrefStep
<1>5. ASSUME t = Callback, CallbackStep
      PROVE  Good
  <2>t. t \notin Users
    BY <1>5, RoleFacts
  <2>1. CASE AckWrite \/ AckCheckpoint
    <3>1. Head(events).s \in DOMAIN structs
      <4>1. events # << >>
        BY <2>1 DEF AckWrite, AckCheckpoint, NextEvent
      <4>2. Head(events) \in EventType
        BY <4>1, TypeFacts
      <4> QED
        BY <4>2 DEF EventType
    <3>2. \/ pc' = pc /\ loc' = loc
          \/ pc'[t] \in {"unref", "finish"} /\ loc'[t].s = Head(events).s
      BY <1>5, <2>1, CallbackMoves DEF Moved
    <3> QED
      BY <1>a, <1>f, <2>t, <3>1, <3>2 DEF Unusing, Freeing
  <2>2. CASE Finish \/ HashDelete \/ Free
    <3>1. /\ pc[t] \in Freeing
          /\ \/ Ends(t)
             \/ pc'[t] \in Freeing /\ loc'[t].s = loc[t].s
      BY <1>5, <2>2, CallbackMoves DEF Moved, Stays, Freeing
    <3> QED
      BY <1>b, <1>e, <2>t, <3>1 DEF Freeing
  <2> QED
    BY <1>5, <2>1, <2>2 DEF CallbackStep
<1>6. Good
  BY <1>1, <1>2, <1>3, <1>4, <1>5 DEF Steps
<1> QED
  BY <1>a, <1>d, <1>6, RoleFacts DEF ThreadsHaveStructs, ControlInv

LEMMA HandlesStep ==
  ASSUME TypeOK, ControlInv, NEW t \in Threads, Steps(t)
  PROVE  HandlesPrivate'
<1>a. /\ \A u \in Users : pc[u] \in Opening => loc[u].fh \in fhs \ open /\ loc[u].name \in Names
      /\ \A u, v \in Users :
           u # v /\ pc[u] \in Opening /\ pc[v] \in Opening => loc[u].fh # loc[v].fh
      /\ \A u \in Users : pc[u] = "opened" => files[loc[u].fh] = loc[u].s
      /\ \A h \in open : files[h] # 0
      /\ \A u \in Users : u \in Threads
      /\ pc[Callback] \notin Opening
  BY RoleFacts DEF ControlInv, HandlesPrivate, ThreadsHaveStructs, Opening, Unusing, Freeing
<1>b. \A v \in Threads : v # t => pc'[v] = pc[v] /\ loc'[v] = loc[v]
  BY OthersStay
<1>c. fhs \subseteq Handles /\ open \subseteq fhs
  BY TypeFacts
<1>o. "opened" \in Opening
  BY DEF Opening
\* A step that leaves the handles alone and brings no new open.
<1>1. ASSUME UNCHANGED handleVars,
             \/ pc'[t] \notin Opening
             \/ /\ pc[t] \in Opening /\ loc'[t].fh = loc[t].fh /\ loc'[t].name = loc[t].name
                /\ pc'[t] # "opened"
             \/ pc'[t] = pc[t] /\ loc'[t] = loc[t]
      PROVE  HandlesPrivate'
  BY <1>a, <1>b, <1>1, <1>o DEF HandlesPrivate, handleVars
<1>2. ASSUME t \in Users, NEW n \in Names, StartOpen(t, n)
      PROVE  HandlesPrivate'
  <2>1. /\ fhs' = fhs \cup {FirstFree} /\ open' = open /\ files' = files
        /\ FirstFree \notin fhs
    BY <1>c, <1>2, FirstFreeIsFree DEF StartOpen
  <2>2. pc'[t] = "lookup" /\ loc'[t].fh = FirstFree /\ loc'[t].name = n
    BY <1>2, StartMoves DEF Moved
  <2>3. ASSUME NEW u \in Users, pc'[u] \in Opening
        PROVE  loc'[u].fh \in fhs' \ open' /\ loc'[u].name \in Names
    BY <1>a, <1>b, <1>c, <2>1, <2>2, <2>3
  <2>4. ASSUME NEW u \in Users, NEW v \in Users, u # v, pc'[u] \in Opening, pc'[v] \in Opening
        PROVE  loc'[u].fh # loc'[v].fh
    BY <1>a, <1>b, <1>c, <2>1, <2>2, <2>4
  <2>5. ASSUME NEW u \in Users, pc'[u] = "opened"
        PROVE  files'[loc'[u].fh] = loc'[u].s
    BY <1>a, <1>b, <2>1, <2>2, <2>5
  <2> QED
    BY <1>a, <2>1, <2>3, <2>4, <2>5 DEF HandlesPrivate
<1>3. ASSUME t \in Users, NEW h \in Handles, StartClose(t, h)
      PROVE  HandlesPrivate'
  <2>1. fhs' = fhs \ {h} /\ open' = open \ {h} /\ files' = files /\ h \in open
    BY <1>3 DEF StartClose
  <2>2. pc'[t] \notin Opening
    BY <1>3, StartMoves DEF Moved, Opening
  <2>3. ASSUME NEW u \in Users, pc'[u] \in Opening
        PROVE  u # t /\ pc'[u] = pc[u] /\ loc'[u] = loc[u] /\ loc'[u].fh \in fhs' \ open'
    BY <1>a, <1>b, <2>1, <2>2, <2>3
  <2> QED
    BY <1>a, <1>o, <2>1, <2>3 DEF HandlesPrivate
<1>4. ASSUME t \in Users, OpenAllocFails(t) \/ OpenFails(t)
      PROVE  HandlesPrivate'
  <2>1. fhs' = fhs \ {loc[t].fh} /\ open' = open /\ files' = files
    BY <1>4 DEF OpenAllocFails, OpenFails
  <2>2. pc'[t] \notin Opening /\ pc[t] \in Opening
    BY <1>4, OpenMoves, UseMoves DEF Moved, Stays, Ends, Opening
  <2>3. ASSUME NEW u \in Users, pc'[u] \in Opening
        PROVE  u # t /\ pc'[u] = pc[u] /\ loc'[u] = loc[u] /\ loc'[u].fh \in fhs' \ open'
    BY <1>4, <1>a, <1>b, <2>1, <2>2, <2>3
  <2> QED
    BY <1>a, <1>o, <2>1, <2>3 DEF HandlesPrivate
<1>5. ASSUME t \in Users, OpenSucceeds(t)
      PROVE  HandlesPrivate'
  <2>1. fhs' = fhs /\ open' = open \cup {loc[t].fh} /\ files' = files
    BY <1>5 DEF OpenSucceeds
  <2>2. pc'[t] \notin Opening /\ pc[t] = "opened" /\ pc[t] \in Opening
    BY <1>5, UseMoves DEF Moved, Ends, Opening
  <2>3. ASSUME NEW u \in Users, pc'[u] \in Opening
        PROVE  u # t /\ pc'[u] = pc[u] /\ loc'[u] = loc[u] /\ loc'[u].fh \in fhs' \ open'
    BY <1>5, <1>a, <1>b, <2>1, <2>2, <2>3
  <2>4. files[loc[t].fh] # 0
    <3>1. loc[t].s \in DOMAIN structs
      BY <2>2 DEF ControlInv, ThreadsHaveStructs
    <3> QED
      BY <1>5, <1>a, <2>2, <3>1, TypeFacts
  <2> QED
    BY <1>a, <1>o, <2>1, <2>3, <2>4 DEF HandlesPrivate
<1>6. ASSUME t \in Users, OpenRef(t)
      PROVE  HandlesPrivate'
  <2>1. fhs' = fhs /\ open' = open /\ files' = [files EXCEPT ![loc[t].fh] = loc[t].s]
    BY <1>6 DEF OpenRef
  <2>2. /\ pc'[t] = "opened" /\ pc[t] \in Opening
        /\ loc'[t].fh = loc[t].fh /\ loc'[t].s = loc[t].s /\ loc'[t].name = loc[t].name
    BY <1>6, UseMoves DEF Moved, Stays, Opening
  <2>3. loc[t].fh \in fhs \ open /\ loc[t].fh \in Handles
    BY <1>6, <1>a, <1>c, <2>2
  <2>f. \A h \in Handles : h # loc[t].fh => files'[h] = files[h]
    BY <2>1 DEF TypeOK
  <2>g. files'[loc[t].fh] = loc[t].s
    BY <2>1, <2>3 DEF TypeOK
  <2>4. ASSUME NEW u \in Users, pc'[u] \in Opening
        PROVE  loc'[u].fh \in fhs' \ open' /\ loc'[u].name \in Names
    BY <1>6, <1>a, <1>b, <2>1, <2>2, <2>4
  <2>5. ASSUME NEW u \in Users, NEW v \in Users, u # v, pc'[u] \in Opening, pc'[v] \in Opening
        PROVE  loc'[u].fh # loc'[v].fh
    BY <1>6, <1>a, <1>b, <2>1, <2>2, <2>5
  <2>6. ASSUME NEW u \in Users, pc'[u] = "opened"
        PROVE  files'[loc'[u].fh] = loc'[u].s
    <3>1. CASE u = t
      BY <2>2, <2>g, <3>1
    <3>2. CASE u # t
      <4>1. pc[u] = "opened" /\ loc'[u] = loc[u]
        BY <1>a, <1>b, <2>6, <3>2
      <4>2. loc[u].fh # loc[t].fh /\ loc[u].fh \in Handles
        BY <1>6, <1>a, <1>c, <1>o, <2>2, <3>2, <4>1
      <4> QED
        BY <1>a, <2>f, <4>1, <4>2
    <3> QED
      BY <3>1, <3>2
  <2>7. ASSUME NEW h \in open'
        PROVE  files'[h] # 0
    <3>1. h # loc[t].fh /\ h \in Handles
      BY <1>c, <2>1, <2>3, <2>7
    <3> QED
      BY <1>a, <2>1, <2>f, <3>1
  <2> QED
    BY <2>4, <2>5, <2>6, <2>7 DEF HandlesPrivate
<1>7. ASSUME t \in Users, OpenWithoutHandle(t) \/ \E h \in Handles : StartWrite(t, h)
      PROVE  HandlesPrivate'
  <2>1. UNCHANGED handleVars
    BY <1>7 DEF OpenWithoutHandle, StartWrite
  <2>2. (pc'[t] = pc[t] /\ loc'[t] = loc[t]) \/ pc'[t] \notin Opening
    BY <1>7, StartMoves DEF Moved, Opening
  <2> QED
    BY <1>1, <2>1, <2>2
<1>8. ASSUME t \in Users, OpenLookup(t) \/ (\E dirty \in BOOLEAN : OpenAlloc(t, dirty))
                          \/ Revive(t) \/ Unlist(t) \/ WriteCount(t) \/ WriteAppend(t)
      PROVE  HandlesPrivate'
  <2>1. UNCHANGED handleVars
    BY <1>8 DEF OpenLookup, OpenAlloc, Revive, Unlist, WriteCount, WriteAppend
  <2>2. CASE OpenLookup(t) \/ (\E dirty \in BOOLEAN : OpenAlloc(t, dirty))
    <3>1. /\ pc[t] \in Opening /\ pc'[t] # "opened"
          /\ loc'[t].fh = loc[t].fh /\ loc'[t].name = loc[t].name
      BY <1>8, <2>2, OpenMoves DEF Moved, Opening
    <3> QED
      BY <1>1, <2>1, <3>1
  <2>3. CASE Revive(t) \/ Unlist(t)
    <3>1. \/ /\ pc[t] \in Opening /\ pc'[t] # "opened"
             /\ loc'[t].fh = loc[t].fh /\ loc'[t].name = loc[t].name
          \/ pc'[t] = pc[t] /\ loc'[t] = loc[t]
      BY <1>8, <2>3, OpenMoves DEF Moved, Stays, Opening
    <3> QED
      BY <1>1, <2>1, <3>1
  <2>4. CASE WriteCount(t) \/ WriteAppend(t)
    <3>1. pc'[t] \notin Opening
      BY <1>8, <2>4, UseMoves DEF Moved, Stays, Ends, Opening
    <3> QED
      BY <1>1, <2>1, <3>1
  <2> QED
    BY <1>8, <2>2, <2>3, <2>4
<1>9. ASSUME UnrefStep(t)
      PROVE  HandlesPrivate'
  <2>1. UNCHANGED handleVars
    BY <1>9 DEF UnrefStep, Unref, InsertCheck, Push, PushFull, Dealloc, RuinList, UseFreed
  <2>2. (pc'[t] = pc[t] /\ loc'[t] = loc[t]) \/ pc'[t] \notin Opening
    BY <1>9, UnrefMoves DEF UnrefStep, Moved, Stays, Ends, Opening
  <2> QED
    BY <1>1, <2>1, <2>2
<1>10. ASSUME t = Callback, CallbackStep
       PROVE  HandlesPrivate'
  <2>1. UNCHANGED handleVars
    BY <1>10 DEF CallbackStep, AckWrite, AckCheckpoint, Finish, HashDelete, Free
  <2>2. (pc'[t] = pc[t] /\ loc'[t] = loc[t]) \/ pc'[t] \notin Opening
    BY <1>10, CallbackMoves DEF CallbackStep, Moved, Stays, Ends, Opening
  <2> QED
    BY <1>1, <2>1, <2>2
<1> QED
  BY <1>2, <1>3, <1>4, <1>5, <1>6, <1>7, <1>8, <1>9, <1>10 DEF Steps, UserStep

LEMMA LockStep ==
  ASSUME TypeOK, ControlInv, NEW t \in Threads, Steps(t)
  PROVE  OpenLocked'
<1>a. /\ \A u \in Users : pc[u] \in UnderOpenLock <=> open_lock = u
      /\ \A u \in Users : u \in Threads /\ u # None
  BY RoleFacts DEF ControlInv, OpenLocked
<1>b. \A v \in Threads : v # t => pc'[v] = pc[v] /\ loc'[v] = loc[v]
  BY OthersStay
<1>1. ASSUME open_lock' = open_lock,
             t \in Users => (pc'[t] \in UnderOpenLock <=> pc[t] \in UnderOpenLock)
      PROVE  OpenLocked'
  BY <1>a, <1>b, <1>1 DEF OpenLocked
<1>2. ASSUME t \in Users, \/ \E n \in Names : StartOpen(t, n)
                          \/ OpenWithoutHandle(t)
                          \/ \E h \in Handles : StartWrite(t, h) \/ StartClose(t, h)
      PROVE  OpenLocked'
  <2>1. open_lock' = open_lock
    BY <1>2 DEF StartOpen, OpenWithoutHandle, StartWrite, StartClose
  <2>2. pc'[t] \in UnderOpenLock <=> pc[t] \in UnderOpenLock
    BY <1>2, StartMoves DEF Moved, UnderOpenLock
  <2> QED
    BY <1>1, <2>1, <2>2
<1>3. ASSUME t \in Users, OpenLookup(t)
      PROVE  OpenLocked'
  <2>1. open_lock = None /\ open_lock' = t
    BY <1>3 DEF OpenLookup
  <2>2. pc'[t] \in UnderOpenLock
    BY <1>3, OpenMoves DEF Moved, UnderOpenLock
  <2> QED
    BY <1>3, <1>a, <1>b, <2>1, <2>2 DEF OpenLocked
<1>4. ASSUME t \in Users, OpenAllocFails(t) \/ OpenRef(t)
      PROVE  OpenLocked'
  <2>1. open_lock' = None
    BY <1>4 DEF OpenAllocFails, OpenRef
  <2>2. pc[t] \in UnderOpenLock /\ pc'[t] \notin UnderOpenLock
    BY <1>4, OpenMoves, UseMoves DEF Moved, Ends, Stays, UnderOpenLock
  <2>3. open_lock = t
    BY <1>4, <1>a, <2>2
  <2> QED
    BY <1>4, <1>a, <1>b, <2>1, <2>2, <2>3 DEF OpenLocked
<1>5. ASSUME t \in Users, \/ \E dirty \in BOOLEAN : OpenAlloc(t, dirty)
                          \/ Revive(t) \/ Unlist(t)
      PROVE  OpenLocked'
  <2>1. open_lock' = open_lock
    BY <1>5 DEF OpenAlloc, Revive, Unlist
  <2>2. pc'[t] \in UnderOpenLock <=> pc[t] \in UnderOpenLock
    BY <1>5, OpenMoves DEF Moved, Stays, UnderOpenLock
  <2> QED
    BY <1>1, <2>1, <2>2
<1>6. ASSUME t \in Users, OpenSucceeds(t) \/ OpenFails(t) \/ WriteCount(t) \/ WriteAppend(t)
      PROVE  OpenLocked'
  <2>1. open_lock' = open_lock
    BY <1>6 DEF OpenSucceeds, OpenFails, WriteCount, WriteAppend
  <2>2. pc'[t] \in UnderOpenLock <=> pc[t] \in UnderOpenLock
    BY <1>6, UseMoves DEF Moved, Stays, Ends, UnderOpenLock
  <2> QED
    BY <1>1, <2>1, <2>2
<1>7. ASSUME UnrefStep(t)
      PROVE  OpenLocked'
  <2>1. open_lock' = open_lock
    BY <1>7 DEF UnrefStep, Unref, InsertCheck, Push, PushFull, Dealloc, RuinList, UseFreed
  <2>2. pc'[t] \in UnderOpenLock <=> pc[t] \in UnderOpenLock
    BY <1>7, UnrefMoves DEF UnrefStep, Moved, Stays, Ends, UnderOpenLock
  <2> QED
    BY <1>1, <2>1, <2>2
<1>8. ASSUME t = Callback, CallbackStep
      PROVE  OpenLocked'
  <2>1. open_lock' = open_lock
    BY <1>8 DEF CallbackStep, AckWrite, AckCheckpoint, Finish, HashDelete, Free
  <2>2. t \notin Users
    BY <1>8, RoleFacts
  <2> QED
    BY <1>1, <2>1, <2>2
<1> QED
  BY <1>2, <1>3, <1>4, <1>5, <1>6, <1>7, <1>8 DEF Steps, UserStep

LEMMA ControlStep ==
  ASSUME TypeOK, ControlInv, CountersExact, [Next]_vars
  PROVE  ControlInv'
<1>1. ASSUME NEW t \in Threads, Steps(t)
      PROVE  ControlInv'
  BY <1>1, GrownStep, StructsStep, HandlesStep, LockStep DEF ControlInv
<1>2. CASE UNCHANGED vars
  BY <1>2 DEF vars, ControlInv, ThreadsHaveStructs, HandlesPrivate, OpenLocked
<1> QED
  BY <1>1, <1>2, StepsOf
-----------------------------------------------------------------------------
\* How the counts move.  A step of a thread moves that thread in or out of the
\* holders of a structure, and at most one handle, one event and one counter.
Holds(t, x, labels) == pc[t] \in labels /\ loc[t].s = x

LEMMA HoldersMove ==
  ASSUME TypeOK, NEW t \in Threads, Steps(t), NEW x, NEW labels
  PROVE  /\ Cardinality(Holders(x, labels)) \in Nat
         /\ Cardinality(Holders(x, labels)') =
              Cardinality(Holders(x, labels)) - Ind(Holds(t, x, labels)) + Ind(Holds(t, x, labels)')
<1>1. IsFiniteSet(Holders(x, labels))
  BY TypeFacts, FiniteUsers
<1>2. \A y : y # t => (y \in Holders(x, labels) <=> y \in Holders(x, labels)')
  BY OthersStay DEF Holders
<1>3. /\ Cardinality(Holders(x, labels)) \in Nat
      /\ Cardinality(Holders(x, labels)') = Cardinality(Holders(x, labels))
           - Ind(t \in Holders(x, labels)) + Ind(t \in Holders(x, labels)')
  BY <1>1, <1>2, MoveOne
<1>4. /\ t \in Holders(x, labels) <=> Holds(t, x, labels)
      /\ t \in Holders(x, labels)' <=> Holds(t, x, labels)'
  BY DEF Holders, Holds
<1> QED
  BY <1>3, <1>4 DEF Ind

LEMMA CountTypes ==
  ASSUME TypeOK, NEW x
  PROVE  /\ Cardinality(On(x)) \in Nat
         /\ \A k : Cardinality(Places(events, k)) \in Nat
BY TypeFacts, FiniteUsers, PlacesFinite

\* The counters of x move with its users.
CountersMove(t, x, on, data, ckpt) ==
    /\ structs'[x].ref_count = structs[x].ref_count + on
         - Ind(Holds(t, x, Referring)) + Ind(Holds(t, x, Referring)') + data
    /\ structs'[x].outstanding_reqs = structs[x].outstanding_reqs
         - Ind(Holds(t, x, {"append"})) + Ind(Holds(t, x, {"append"})') + data
    /\ structs'[x].index_flush_reqs = structs[x].index_flush_reqs + ckpt

LEMMA CountersFollow ==
  ASSUME TypeOK, NEW t \in Threads, Steps(t), NEW x \in DOMAIN structs, CountersAre(x),
         NEW on \in Int, NEW data \in Int, NEW ckpt \in Int, CountersMove(t, x, on, data, ckpt),
         Cardinality(On(x)') = Cardinality(On(x)) + on,
         Cardinality(Places(events', Event("data", x))) =
           Cardinality(Places(events, Event("data", x))) + data,
         Cardinality(Places(events', Event("ckpt", x))) =
           Cardinality(Places(events, Event("ckpt", x))) + ckpt
  PROVE  CountersAre(x)'
<1>1. /\ Cardinality(On(x)) \in Nat
      /\ Cardinality(Places(events, Event("data", x))) \in Nat
      /\ Cardinality(Places(events, Event("ckpt", x))) \in Nat
  BY CountTypes
<1>2. /\ Cardinality(Holders(x, Referring)) \in Nat
      /\ Cardinality(Holders(x, Referring)') = Cardinality(Holders(x, Referring))
           - Ind(Holds(t, x, Referring)) + Ind(Holds(t, x, Referring)')
      /\ Cardinality(Holders(x, {"append"})) \in Nat
      /\ Cardinality(Holders(x, {"append"})') = Cardinality(Holders(x, {"append"}))
           - Ind(Holds(t, x, {"append"})) + Ind(Holds(t, x, {"append"})')
  BY HoldersMove
<1>3. \A p : Ind(p) \in Int
  BY DEF Ind
<1>4. /\ Event("data", x)' = Event("data", x) /\ Event("ckpt", x)' = Event("ckpt", x)
      /\ \A k : Places(events, k)' = Places(events', k)
  BY DEF Event, Places
<1> QED
  BY <1>1, <1>2, <1>3, <1>4 DEF CountersAre, CountersMove

\* Nothing that is counted moves.
LEMMA CountersUnmoved ==
  ASSUME TypeOK, NEW t \in Threads, Steps(t), NEW x \in DOMAIN structs, CountersAre(x),
         Alike(structs'[x], structs[x]), UNCHANGED <<files, open, events>>,
         Holds(t, x, Referring)' <=> Holds(t, x, Referring),
         Holds(t, x, {"append"})' <=> Holds(t, x, {"append"})
  PROVE  CountersAre(x)'
<1>1. On(x)' = On(x)
  BY DEF On
<1>2. structs[x] \in Structs
  BY TypeFacts
<1>3. CountersMove(t, x, 0, 0, 0)
  <2>1. /\ structs[x].ref_count \in Nat /\ structs[x].outstanding_reqs \in Nat
        /\ structs[x].index_flush_reqs \in Nat
    BY <1>2 DEF Structs
  <2> QED
    BY <2>1 DEF CountersMove, Alike, Ind
<1>4. /\ Cardinality(On(x)) \in Nat
      /\ Cardinality(Places(events, Event("data", x))) \in Nat
      /\ Cardinality(Places(events, Event("ckpt", x))) \in Nat
  BY CountTypes
<1>5. /\ Cardinality(On(x)') = Cardinality(On(x)) + 0
      /\ Cardinality(Places(events', Event("data", x))) =
           Cardinality(Places(events, Event("data", x))) + 0
      /\ Cardinality(Places(events', Event("ckpt", x))) =
           Cardinality(Places(events, Event("ckpt", x))) + 0
  BY <1>1, <1>4
<1> QED
  BY <1>3, <1>5, CountersFollow

\* The structures of a step that edits one.
LEMMA EditedAlive ==
  ASSUME TypeOK, NEW s, NEW r, Edited(s, r), r.alive => structs[s].alive, NEW x \in Alive'
  PROVE  /\ x \in Alive /\ x \in DOMAIN structs /\ structs[x] \in Structs
         /\ x = s => structs'[x] = r
         /\ x # s => structs'[x] = structs[x]
<1>1. /\ DOMAIN structs' = DOMAIN structs /\ structs'[s] = r
      /\ \A y \in DOMAIN structs : y # s => structs'[y] = structs[y]
  BY GrownByEdit
<1>2. x \in DOMAIN structs' /\ structs'[x].alive
  BY DEF Alive
<1>3. x \in DOMAIN structs /\ (structs[x].alive)
  BY <1>1, <1>2
<1> QED
  BY <1>1, <1>3, TypeFacts DEF Alive

LEMMA EditedAlike ==
  ASSUME TypeOK, NEW s, NEW r, Edited(s, r), Alike(r, structs[s]), NEW x \in Alive'
  PROVE  x \in Alive /\ x \in DOMAIN structs /\ Alike(structs'[x], structs[x])
<1>1. r.alive => structs[s].alive
  BY DEF Alike
<1>2. Alike(structs[x], structs[x])
  BY DEF Alike
<1> QED
  BY <1>1, <1>2, EditedAlive

LEMMA QuietUserCounts ==
  ASSUME TypeOK, ControlInv, CountersExact, NEW t \in Users, Steps(t),
         \/ (\E n \in Names : StartOpen(t, n)) \/ OpenWithoutHandle(t) \/ OpenLookup(t)
         \/ OpenAllocFails(t) \/ Revive(t) \/ Unlist(t) \/ OpenFails(t),
         NEW x \in Alive'
  PROVE  CountersAre(x)'
<1>a. t \in Threads
  BY RoleFacts
<1>b. UNCHANGED <<files, open, events>>
  BY DEF StartOpen, OpenWithoutHandle, OpenLookup, OpenAllocFails, Revive, Unlist, OpenFails,
         handleVars
<1>c. /\ Holds(t, x, Referring)' <=> Holds(t, x, Referring)
      /\ Holds(t, x, {"append"})' <=> Holds(t, x, {"append"})
  <2>1. CASE (\E n \in Names : StartOpen(t, n)) \/ OpenWithoutHandle(t)
    BY <2>1, StartMoves DEF Moved, Holds, Referring
  <2>2. CASE OpenLookup(t) \/ OpenAllocFails(t) \/ Revive(t) \/ Unlist(t)
    <3>1. (pc' = pc /\ loc' = loc) \/ (pc[t] \notin Referring /\ pc'[t] \notin Referring)
      BY <2>2, OpenMoves DEF Moved, Ends, Stays, Referring
    <3> QED
      BY <3>1 DEF Holds, Referring
  <2>3. CASE OpenFails(t)
    BY <2>3, UseMoves DEF Moved, Stays, Holds, Referring
  <2> QED
    BY <2>1, <2>2, <2>3
<1>1. /\ x \in Alive /\ x \in DOMAIN structs /\ Alike(structs'[x], structs[x])
  <2>1. CASE structs' = structs
    BY <2>1 DEF Alive, Alike
  <2>2. CASE Revive(t)
    <3>1. CASE Edited(loc[t].s, [structs[loc[t].s] EXCEPT !.recently_closed = FALSE])
      <4>1. structs[loc[t].s] \in Structs
        BY <3>1, TypeFacts DEF Edited
      <4>2. PICK r : Edited(loc[t].s, r) /\ Alike(r, structs[loc[t].s])
        BY <3>1, <4>1, FlagEdit
      <4> QED
        BY <4>2, EditedAlike
    <3> QED
      BY <2>1, <2>2, <3>1, UserEdits
  <2> QED
    BY <2>1, <2>2 DEF StartOpen, OpenWithoutHandle, OpenLookup, OpenAllocFails, Unlist, OpenFails
<1>2. CountersAre(x)
  BY <1>1, CountersExactMeans
<1> QED
  BY <1>a, <1>b, <1>c, <1>1, <1>2, CountersUnmoved

LEMMA QuietUnrefCounts ==
  ASSUME TypeOK, ControlInv, CountersExact, NEW t \in Threads, Steps(t),
         InsertCheck(t) \/ Push(t) \/ PushFull(t) \/ RuinList(t) \/ UseFreed(t), NEW x \in Alive'
  PROVE  CountersAre(x)'
<1>b. UNCHANGED <<files, open, events>>
  BY DEF InsertCheck, Push, PushFull, RuinList, UseFreed, handleVars
<1>c. /\ Holds(t, x, Referring)' <=> Holds(t, x, Referring)
      /\ Holds(t, x, {"append"})' <=> Holds(t, x, {"append"})
  <2>1. (pc' = pc /\ loc' = loc) \/ (pc[t] \notin Referring /\ pc'[t] \notin Referring)
    BY UnrefMoves DEF Moved, Ends, Stays, Referring
  <2> QED
    BY <2>1 DEF Holds, Referring
<1>1. /\ x \in Alive /\ x \in DOMAIN structs /\ Alike(structs'[x], structs[x])
  <2>1. CASE structs' = structs
    BY <2>1 DEF Alive, Alike
  <2>2. CASE Push(t)
    <3>1. Edited(loc[t].s, [structs[loc[t].s] EXCEPT !.recently_closed = TRUE])
      BY <2>2, UnrefEdits
    <3>2. structs[loc[t].s] \in Structs
      BY <3>1, TypeFacts DEF Edited
    <3>3. PICK r : Edited(loc[t].s, r) /\ Alike(r, structs[loc[t].s])
      BY <3>1, <3>2, FlagEdit
    <3> QED
      BY <3>3, EditedAlike
  <2>3. CASE PushFull(t)
    <3>1. /\ structs' \in Seq(Structs) /\ Len(structs') = Len(structs)
          /\ \A y \in DOMAIN structs : Alike(structs'[y], structs[y])
      BY <2>3, PushFullEdits
    <3>2. DOMAIN structs' = DOMAIN structs
      BY <3>1, TypeFacts
    <3> QED
      BY <3>1, <3>2 DEF Alive, Alike
  <2> QED
    BY <2>1, <2>2, <2>3 DEF InsertCheck, RuinList, UseFreed
<1>2. CountersAre(x)
  BY <1>1, CountersExactMeans
<1> QED
  BY <1>b, <1>c, <1>1, <1>2, CountersUnmoved

LEMMA QuietCallbackCounts ==
  ASSUME TypeOK, ControlInv, CountersExact, Steps(Callback), Finish \/ HashDelete \/ Free,
         NEW x \in Alive'
  PROVE  CountersAre(x)'
<1>a. Callback \in Threads
  BY RoleFacts
<1>b. UNCHANGED <<files, open, events>>
  BY DEF Finish, HashDelete, Free, handleVars
<1>c. /\ Holds(Callback, x, Referring)' <=> Holds(Callback, x, Referring)
      /\ Holds(Callback, x, {"append"})' <=> Holds(Callback, x, {"append"})
  <2>1. pc[Callback] \notin Referring /\ pc'[Callback] \notin Referring
    BY CallbackMoves DEF Moved, Ends, Stays, Referring
  <2> QED
    BY <2>1 DEF Holds, Referring
<1>1. /\ x \in Alive /\ x \in DOMAIN structs /\ Alike(structs'[x], structs[x])
  <2>1. CASE structs' = structs
    BY <2>1 DEF Alive, Alike
  <2>2. CASE Free
    <3> DEFINE s == loc[Callback].s
    <3>1. Edited(s, [structs[s] EXCEPT !.alive = FALSE])
      BY <2>2, CallbackEdits
    <3>2. structs[s] \in Structs
      BY <3>1, TypeFacts DEF Edited
    <3>3. PICK r : Edited(s, r) /\ r.alive = FALSE
      <4>1. [structs[s] EXCEPT !.alive = FALSE].alive = FALSE
        BY <3>2 DEF Structs
      <4> QED
        BY <3>1, <4>1
    <3>4. x \in Alive /\ x \in DOMAIN structs /\ (x = s => structs'[x] = r)
          /\ (x # s => structs'[x] = structs[x])
      BY <3>3, EditedAlive
    <3>5. structs'[x].alive
      BY DEF Alive
    <3> QED
      BY <3>3, <3>4, <3>5 DEF Alike
  <2> QED
    BY <2>1, <2>2 DEF Finish, HashDelete
<1>2. CountersAre(x)
  BY <1>1, CountersExactMeans
<1> QED
  BY <1>a, <1>b, <1>c, <1>1, <1>2, CountersUnmoved

\* Nobody uses a structure that has just been allocated.
LEMMA AllocCounts ==
  ASSUME TypeOK, ControlInv, CountersExact, NEW t \in Users, Steps(t),
         NEW dirty \in BOOLEAN, OpenAlloc(t, dirty), NEW x \in Alive'
  PROVE  CountersAre(x)'
<1> DEFINE n == Len(structs) + 1
<1>a. t \in Threads /\ UNCHANGED <<files, open, events>>
  BY RoleFacts DEF OpenAlloc, handleVars
<1>b. pc[t] = "alloc" /\ pc'[t] = "ref"
  BY OpenMoves DEF Moved
<1>c. /\ DOMAIN structs' = DOMAIN structs \cup {n} /\ n \notin DOMAIN structs
      /\ structs'[n] = NewStruct(loc[t].name, dirty)
      /\ \A y \in DOMAIN structs : structs'[y] = structs[y]
  BY AllocEdits
<1>d. x \in DOMAIN structs' /\ structs'[x].alive
  BY DEF Alive
<1>1. CASE x \in DOMAIN structs
  <2>1. x \in Alive /\ Alike(structs'[x], structs[x])
    BY <1>c, <1>d, <1>1 DEF Alive, Alike
  <2>2. CountersAre(x)
    BY <2>1, CountersExactMeans
  <2>3. /\ Holds(t, x, Referring)' <=> Holds(t, x, Referring)
        /\ Holds(t, x, {"append"})' <=> Holds(t, x, {"append"})
    BY <1>b DEF Holds, Referring
  <2> QED
    BY <1>a, <1>1, <2>1, <2>2, <2>3, CountersUnmoved
<1>2. CASE x = n
  <2>0. Len(structs) \in Nat /\ DOMAIN structs = 1 .. Len(structs)
    BY TypeFacts
  <2>1. On(x)' = {}
    <3>1. \A h \in open : files[h] \in 0 .. Len(structs)
      BY TypeFacts DEF TypeOK
    <3> QED
      BY <1>a, <1>2, <2>0, <3>1 DEF On
  <2>2. Holders(x, Referring)' = {} /\ Holders(x, {"append"})' = {}
    <3>1. \A v \in Threads : loc[v].s \in 0 .. Len(structs)
      BY DEF TypeOK
    <3>2. \A v \in Threads : v # t => loc'[v].s # n
      <4>1. n \notin 0 .. Len(structs)
        BY <2>0
      <4> QED
        BY <1>a, <3>1, <4>1, OthersStay
    <3>3. ASSUME NEW v \in Threads, loc'[v].s = x
          PROVE  pc'[v] = "ref"
      BY <1>b, <1>2, <3>2, <3>3
    <3>4. "ref" \notin Referring /\ "ref" \notin {"append"}
      BY DEF Referring
    <3>5. ASSUME NEW L, "ref" \notin L
          PROVE  Holders(x, L)' = {}
      BY <3>3, <3>5 DEF Holders
    <3> QED
      BY <3>4, <3>5
  <2>3. \A k : Places(events', Event(k, x)) = {}
    <3>1. \A i \in DOMAIN events : events[i].s \in DOMAIN structs
      <4>1. events \in Seq(EventType)
        BY TypeFacts
      <4>2. \A i \in DOMAIN events : events[i] \in EventType
        BY <4>1
      <4> QED
        BY <4>2 DEF EventType
    <3>2. \A k : Event(k, x).s = n
      BY <1>2 DEF Event
    <3> QED
      BY <1>a, <1>c, <3>1, <3>2 DEF Places
  <2>4. /\ structs'[x].ref_count = 0 /\ structs'[x].outstanding_reqs = 0
        /\ structs'[x].index_flush_reqs = 0
    BY <1>c, <1>2 DEF NewStruct
  <2>5. Cardinality({}) = 0
    BY FS_EmptySet
  <2>6. /\ Event("data", x)' = Event("data", x) /\ Event("ckpt", x)' = Event("ckpt", x)
        /\ \A k : Places(events, k)' = Places(events', k)
    BY DEF Event, Places
  <2> QED
    BY <2>1, <2>2, <2>3, <2>4, <2>5, <2>6 DEF CountersAre
<1> QED
  BY <1>c, <1>d, <1>1, <1>2

\* An edit that adds to the counters of s.
Counts(s, ref, reqs, flush) ==
    /\ s \in DOMAIN structs
    /\ \A x \in Alive' :
         /\ x \in Alive /\ x \in DOMAIN structs /\ CountersAre(x)
         /\ structs[x].ref_count \in Nat /\ structs[x].outstanding_reqs \in Nat
         /\ structs[x].index_flush_reqs \in Nat
         /\ structs'[x].ref_count = structs[x].ref_count + (IF x = s THEN ref ELSE 0)
         /\ structs'[x].outstanding_reqs = structs[x].outstanding_reqs + (IF x = s THEN reqs ELSE 0)
         /\ structs'[x].index_flush_reqs = structs[x].index_flush_reqs + (IF x = s THEN flush ELSE 0)

LEMMA EditCounts ==
  ASSUME TypeOK, CountersExact, NEW s, NEW r, Edited(s, r), r.alive = structs[s].alive,
         NEW ref \in Int, NEW reqs \in Int, NEW flush \in Int,
         r.ref_count = structs[s].ref_count + ref,
         r.outstanding_reqs = structs[s].outstanding_reqs + reqs,
         r.index_flush_reqs = structs[s].index_flush_reqs + flush
  PROVE  Counts(s, ref, reqs, flush)
<1>1. s \in DOMAIN structs
  BY DEF Edited
<1>2. ASSUME NEW x \in Alive'
      PROVE  /\ x \in Alive /\ x \in DOMAIN structs /\ CountersAre(x)
             /\ structs[x].ref_count \in Nat /\ structs[x].outstanding_reqs \in Nat
             /\ structs[x].index_flush_reqs \in Nat
             /\ structs'[x].ref_count = structs[x].ref_count + (IF x = s THEN ref ELSE 0)
             /\ structs'[x].outstanding_reqs =
                  structs[x].outstanding_reqs + (IF x = s THEN reqs ELSE 0)
             /\ structs'[x].index_flush_reqs =
                  structs[x].index_flush_reqs + (IF x = s THEN flush ELSE 0)
  <2>1. /\ x \in Alive /\ x \in DOMAIN structs /\ structs[x] \in Structs
        /\ x = s => structs'[x] = r
        /\ x # s => structs'[x] = structs[x]
    BY EditedAlive
  <2>2. CountersAre(x)
    BY <2>1, CountersExactMeans
  <2>3. /\ structs[x].ref_count \in Nat /\ structs[x].outstanding_reqs \in Nat
        /\ structs[x].index_flush_reqs \in Nat
    BY <2>1 DEF Structs
  <2> QED
    BY <2>1, <2>2, <2>3
<1> QED
  BY <1>1, <1>2 DEF Counts

LEMMA SameCounts ==
  ASSUME TypeOK, CountersExact, structs' = structs, NEW s \in DOMAIN structs
  PROVE  Counts(s, 0, 0, 0)
<1>1. ASSUME NEW x \in Alive'
      PROVE  /\ x \in Alive /\ x \in DOMAIN structs /\ CountersAre(x)
             /\ structs[x].ref_count \in Nat /\ structs[x].outstanding_reqs \in Nat
             /\ structs[x].index_flush_reqs \in Nat
  <2>1. x \in Alive /\ x \in DOMAIN structs /\ structs[x] \in Structs
    BY TypeFacts DEF Alive
  <2> QED
    BY <2>1, CountersExactMeans DEF Structs
<1> QED
  BY <1>1 DEF Counts

\* The users of s change by as much as its counters do, those of others do not.
Here(x, s, n) == IF x = s THEN n ELSE 0

LEMMA CountsFollow ==
  ASSUME TypeOK, NEW t \in Threads, Steps(t), NEW s,
         NEW ref \in Int, NEW reqs \in Int, NEW flush \in Int, Counts(s, ref, reqs, flush),
         NEW x \in Alive', NEW on \in Int, NEW data \in Int, NEW ckpt \in Int,
         NEW r0 \in Int, NEW r1 \in Int, NEW a0 \in Int, NEW a1 \in Int,
         Ind(Holds(t, x, Referring)) = Here(x, s, r0),
         Ind(Holds(t, x, Referring)') = Here(x, s, r1),
         Ind(Holds(t, x, {"append"})) = Here(x, s, a0),
         Ind(Holds(t, x, {"append"})') = Here(x, s, a1),
         Cardinality(On(x)') = Cardinality(On(x)) + Here(x, s, on),
         Cardinality(Places(events', Event("data", x))) =
           Cardinality(Places(events, Event("data", x))) + Here(x, s, data),
         Cardinality(Places(events', Event("ckpt", x))) =
           Cardinality(Places(events, Event("ckpt", x))) + Here(x, s, ckpt),
         ref = on - r0 + r1 + data, reqs = data - a0 + a1, flush = ckpt
  PROVE  CountersAre(x)'
<1>1. /\ x \in DOMAIN structs /\ CountersAre(x)
      /\ structs[x].ref_count \in Nat /\ structs[x].outstanding_reqs \in Nat
      /\ structs[x].index_flush_reqs \in Nat
      /\ structs'[x].ref_count = structs[x].ref_count + Here(x, s, ref)
      /\ structs'[x].outstanding_reqs = structs[x].outstanding_reqs + Here(x, s, reqs)
      /\ structs'[x].index_flush_reqs = structs[x].index_flush_reqs + Here(x, s, flush)
  BY DEF Counts, Here
<1>2. CountersMove(t, x, Here(x, s, on), Here(x, s, data), Here(x, s, ckpt))
  BY <1>1 DEF CountersMove, Here
<1>3. Here(x, s, on) \in Int /\ Here(x, s, data) \in Int /\ Here(x, s, ckpt) \in Int
  BY DEF Here
<1> QED
  BY <1>1, <1>2, <1>3, CountersFollow

LEMMA SameUsers ==
  ASSUME TypeOK, NEW x, NEW s
  PROVE  /\ files' = files /\ open' = open =>
              Cardinality(On(x)') = Cardinality(On(x)) + Here(x, s, 0)
         /\ events' = events => \A k : Cardinality(Places(events', k)) =
              Cardinality(Places(events, k)) + Here(x, s, 0)
<1>1. Cardinality(On(x)) \in Nat /\ \A k : Cardinality(Places(events, k)) \in Nat
  BY CountTypes
<1>2. files' = files /\ open' = open => On(x)' = On(x)
  BY DEF On
<1> QED
  BY <1>1, <1>2 DEF Here

LEMMA OpenRefCounts ==
  ASSUME TypeOK, ControlInv, CountersExact, NEW t \in Users, Steps(t), OpenRef(t),
         NEW x \in Alive'
  PROVE  CountersAre(x)'
<1> DEFINE s == loc[t].s
<1>a. t \in Threads /\ open' = open /\ events' = events
  BY RoleFacts DEF OpenRef
<1>b. pc[t] = "ref" /\ pc'[t] = "opened" /\ loc'[t].s = s
  BY UseMoves DEF Moved, Stays
<1>1. Counts(s, 1, 0, 0)
  <2> DEFINE r == [structs[s] EXCEPT !.ref_count = structs[s].ref_count + 1]
  <2>1. Edited(s, r)
    BY UserEdits
  <2>2. structs[s] \in Structs
    BY <2>1, TypeFacts DEF Edited
  <2>3. /\ r.alive = structs[s].alive /\ r.ref_count = structs[s].ref_count + 1
        /\ r.outstanding_reqs = structs[s].outstanding_reqs + 0
        /\ r.index_flush_reqs = structs[s].index_flush_reqs + 0
    BY <2>2 DEF Structs
  <2> HIDE DEF r
  <2> QED
    BY <2>1, <2>3, EditCounts
<1>2. /\ Ind(Holds(t, x, Referring)) = Here(x, s, 0)
      /\ Ind(Holds(t, x, Referring)') = Here(x, s, 1)
      /\ Ind(Holds(t, x, {"append"})) = Here(x, s, 0)
      /\ Ind(Holds(t, x, {"append"})') = Here(x, s, 0)
  BY <1>b DEF Holds, Ind, Here, Referring
<1>3. Cardinality(On(x)') = Cardinality(On(x)) + Here(x, s, 0)
  <2>1. files' = [files EXCEPT ![loc[t].fh] = s] /\ loc[t].fh \notin open
    BY <1>b DEF OpenRef, ControlInv, HandlesPrivate, Opening
  <2>2. \A h \in open : files'[h] = files[h]
    BY <2>1, TypeFacts DEF TypeOK
  <2>3. On(x)' = On(x)
    BY <1>a, <2>2 DEF On
  <2> QED
    BY <2>3, CountTypes DEF Here
<1>4. \A k : Cardinality(Places(events', k)) = Cardinality(Places(events, k)) + Here(x, s, 0)
  BY <1>a, SameUsers
<1> HIDE DEF s
<1>5. /\ 1 = 0 - 0 + 1 + 0 /\ 0 = 0 - 0 + 0
  OBVIOUS
<1> QED
  BY <1>a, <1>1, <1>2, <1>3, <1>4, <1>5, CountsFollow

LEMMA OpenSucceedsCounts ==
  ASSUME TypeOK, ControlInv, CountersExact, NEW t \in Users, Steps(t), OpenSucceeds(t),
         NEW x \in Alive'
  PROVE  CountersAre(x)'
<1> DEFINE s == loc[t].s
<1>a. /\ t \in Threads /\ files' = files /\ open' = open \cup {loc[t].fh} /\ events' = events
      /\ structs' = structs
  BY RoleFacts DEF OpenSucceeds
<1>b. pc[t] = "opened" /\ pc'[t] = "idle"
  BY UseMoves DEF Moved, Ends
<1>1. Counts(s, 0, 0, 0)
  <2>1. s \in DOMAIN structs
    BY <1>a, <1>b DEF ControlInv, ThreadsHaveStructs
  <2> QED
    BY <1>a, <2>1, SameCounts
<1>2. /\ Ind(Holds(t, x, Referring)) = Here(x, s, 1)
      /\ Ind(Holds(t, x, Referring)') = Here(x, s, 0)
      /\ Ind(Holds(t, x, {"append"})) = Here(x, s, 0)
      /\ Ind(Holds(t, x, {"append"})') = Here(x, s, 0)
  BY <1>b DEF Holds, Ind, Here, Referring
<1>3. Cardinality(On(x)') = Cardinality(On(x)) + Here(x, s, 1)
  <2>1. loc[t].fh \notin open /\ files[loc[t].fh] = s
    BY <1>b DEF ControlInv, HandlesPrivate, Opening
  <2>2. IsFiniteSet(On(x)) /\ Cardinality(On(x)) \in Nat
    BY TypeFacts, FiniteUsers
  <2>3. \A h : h # loc[t].fh => (h \in On(x) <=> h \in On(x)')
    BY <1>a DEF On
  <2>4. loc[t].fh \notin On(x) /\ (loc[t].fh \in On(x)' <=> x = s)
    BY <1>a, <2>1 DEF On
  <2>5. Cardinality(On(x)') = Cardinality(On(x)) - Ind(loc[t].fh \in On(x))
                                + Ind(loc[t].fh \in On(x)')
    BY <2>2, <2>3, MoveOne
  <2> HIDE DEF s
  <2> QED
    BY <2>2, <2>4, <2>5 DEF Ind, Here
<1>4. \A k : Cardinality(Places(events', k)) = Cardinality(Places(events, k)) + Here(x, s, 0)
  BY <1>a, SameUsers
<1>5. 0 = 1 - 1 + 0 + 0 /\ 0 = 0 - 0 + 0
  OBVIOUS
<1> HIDE DEF s
<1> QED
  BY <1>a, <1>1, <1>2, <1>3, <1>4, <1>5, CountsFollow

LEMMA StartCloseCounts ==
  ASSUME TypeOK, ControlInv, CountersExact, NEW t \in Users, Steps(t), NEW h \in Handles, StartClose(t, h),
         NEW x \in Alive'
  PROVE  CountersAre(x)'
<1> DEFINE s == files[h]
<1>a. /\ t \in Threads /\ files' = files /\ open' = open \ {h} /\ events' = events
      /\ structs' = structs /\ h \in open
  BY RoleFacts DEF StartClose
<1>b. pc[t] = "idle" /\ pc'[t] = "unref" /\ loc'[t].s = s
  BY StartMoves DEF Moved
<1>1. Counts(s, 0, 0, 0)
  <2>1. s \in DOMAIN structs
    BY <1>a, TypeFacts DEF ControlInv, HandlesPrivate, TypeOK
  <2> QED
    BY <1>a, <2>1, SameCounts
<1>2. /\ Ind(Holds(t, x, Referring)) = Here(x, s, 0)
      /\ Ind(Holds(t, x, Referring)') = Here(x, s, 1)
      /\ Ind(Holds(t, x, {"append"})) = Here(x, s, 0)
      /\ Ind(Holds(t, x, {"append"})') = Here(x, s, 0)
  BY <1>b DEF Holds, Ind, Here, Referring
<1>3. Cardinality(On(x)') = Cardinality(On(x)) + Here(x, s, -1)
  <2>1. IsFiniteSet(On(x)) /\ Cardinality(On(x)) \in Nat
    BY TypeFacts, FiniteUsers
  <2>2. \A g : g # h => (g \in On(x) <=> g \in On(x)')
    BY <1>a DEF On
  <2>3. h \notin On(x)' /\ (h \in On(x) <=> x = s)
    BY <1>a DEF On
  <2>4. Cardinality(On(x)') = Cardinality(On(x)) - Ind(h \in On(x)) + Ind(h \in On(x)')
    BY <2>1, <2>2, MoveOne
  <2> HIDE DEF s
  <2> QED
    BY <2>1, <2>3, <2>4 DEF Ind, Here
<1>4. \A k : Cardinality(Places(events', k)) = Cardinality(Places(events, k)) + Here(x, s, 0)
  BY <1>a, SameUsers
<1>5. 0 = (-1) - 0 + 1 + 0 /\ 0 = 0 - 0 + 0
  OBVIOUS
<1> HIDE DEF s
<1> QED
  BY <1>a, <1>1, <1>2, <1>3, <1>4, <1>5, CountsFollow

LEMMA StartWriteCounts ==
  ASSUME TypeOK, ControlInv, CountersExact, NEW t \in Users, Steps(t), NEW h \in Handles, StartWrite(t, h),
         NEW x \in Alive'
  PROVE  CountersAre(x)'
<1> DEFINE s == files[h]
<1>a. t \in Threads /\ files' = files /\ open' = open /\ events' = events
  BY RoleFacts DEF StartWrite, handleVars
<1>b. pc[t] = "idle" /\ pc'[t] = "count" /\ loc'[t].s = s
  BY StartMoves DEF Moved
<1>1. Counts(s, 1, 0, 0)
  <2> DEFINE r == [structs[s] EXCEPT !.ref_count = structs[s].ref_count + 1]
  <2>1. Edited(s, r)
    BY StartWriteEdits
  <2>2. structs[s] \in Structs
    BY <2>1, TypeFacts DEF Edited
  <2>3. /\ r.alive = structs[s].alive /\ r.ref_count = structs[s].ref_count + 1
        /\ r.outstanding_reqs = structs[s].outstanding_reqs + 0
        /\ r.index_flush_reqs = structs[s].index_flush_reqs + 0
    BY <2>2 DEF Structs
  <2>4. Counts(s, 1, 0, 0)
    <3> HIDE DEF r
    <3>1. 1 \in Int /\ 0 \in Int /\ 0 \in Int
      OBVIOUS
    <3> QED
      BY <2>1, <2>3, <3>1, EditCounts
  <2> QED
    BY <2>4
<1>2. /\ Ind(Holds(t, x, Referring)) = Here(x, s, 0)
      /\ Ind(Holds(t, x, Referring)') = Here(x, s, 1)
      /\ Ind(Holds(t, x, {"append"})) = Here(x, s, 0)
      /\ Ind(Holds(t, x, {"append"})') = Here(x, s, 0)
  BY <1>b DEF Holds, Ind, Here, Referring
<1>3. Cardinality(On(x)') = Cardinality(On(x)) + Here(x, s, 0)
  BY <1>a, SameUsers
<1>4. \A k : Cardinality(Places(events', k)) = Cardinality(Places(events, k)) + Here(x, s, 0)
  BY <1>a, SameUsers
<1>5. 1 = 0 - 0 + 1 + 0 /\ 0 = 0 - 0 + 0
  OBVIOUS
<1> HIDE DEF s
<1> QED
  BY <1>a, <1>1, <1>2, <1>3, <1>4, <1>5, CountsFollow

LEMMA WriteCountCounts ==
  ASSUME TypeOK, ControlInv, CountersExact, NEW t \in Users, Steps(t), WriteCount(t),
         NEW x \in Alive'
  PROVE  CountersAre(x)'
<1> DEFINE s == loc[t].s
<1>a. t \in Threads /\ files' = files /\ open' = open /\ events' = events
  BY RoleFacts DEF WriteCount, handleVars
<1>b. pc[t] = "count" /\ pc'[t] = "append" /\ loc'[t].s = s
  BY UseMoves DEF Moved, Stays
<1>1. Counts(s, 0, 1, 0)
  <2> DEFINE r == [structs[s] EXCEPT !.outstanding_reqs = structs[s].outstanding_reqs + 1]
  <2>1. Edited(s, r)
    BY UserEdits
  <2>2. structs[s] \in Structs
    BY <2>1, TypeFacts DEF Edited
  <2>3. /\ r.alive = structs[s].alive /\ r.ref_count = structs[s].ref_count + 0
        /\ r.outstanding_reqs = structs[s].outstanding_reqs + 1
        /\ r.index_flush_reqs = structs[s].index_flush_reqs + 0
    BY <2>2 DEF Structs
  <2>4. Counts(s, 0, 1, 0)
    <3> HIDE DEF r
    <3>1. 0 \in Int /\ 1 \in Int /\ 0 \in Int
      OBVIOUS
    <3> QED
      BY <2>1, <2>3, <3>1, EditCounts
  <2> QED
    BY <2>4
<1>2. /\ Ind(Holds(t, x, Referring)) = Here(x, s, 1)
      /\ Ind(Holds(t, x, Referring)') = Here(x, s, 1)
      /\ Ind(Holds(t, x, {"append"})) = Here(x, s, 0)
      /\ Ind(Holds(t, x, {"append"})') = Here(x, s, 1)
  BY <1>b DEF Holds, Ind, Here, Referring
<1>3. Cardinality(On(x)') = Cardinality(On(x)) + Here(x, s, 0)
  BY <1>a, SameUsers
<1>4. \A k : Cardinality(Places(events', k)) = Cardinality(Places(events, k)) + Here(x, s, 0)
  BY <1>a, SameUsers
<1>5. 0 = 0 - 1 + 1 + 0 /\ 1 = 0 - 0 + 1
  OBVIOUS
<1> HIDE DEF s
<1> QED
  BY <1>a, <1>1, <1>2, <1>3, <1>4, <1>5, CountsFollow

LEMMA WriteAppendCounts ==
  ASSUME TypeOK, ControlInv, CountersExact, NEW t \in Users, Steps(t), WriteAppend(t),
         NEW x \in Alive'
  PROVE  CountersAre(x)'
<1> DEFINE s == loc[t].s
<1>a. /\ t \in Threads /\ files' = files /\ open' = open
      /\ events' = Append(events, Event("data", s))
  BY RoleFacts DEF WriteAppend, handleVars, Event
<1>b. pc[t] = "append" /\ pc'[t] = "idle"
  BY UseMoves DEF Moved, Ends
<1>1. Counts(s, 0, 0, 0)
  <2> DEFINE r == [structs[s] EXCEPT !.dirty = TRUE]
  <2>1. Edited(s, r)
    BY UserEdits
  <2>2. structs[s] \in Structs
    BY <2>1, TypeFacts DEF Edited
  <2>3. /\ r.alive = structs[s].alive /\ r.ref_count = structs[s].ref_count + 0
        /\ r.outstanding_reqs = structs[s].outstanding_reqs + 0
        /\ r.index_flush_reqs = structs[s].index_flush_reqs + 0
    BY <2>2 DEF Structs
  <2>4. Counts(s, 0, 0, 0)
    <3> HIDE DEF r
    <3>1. 0 \in Int /\ 0 \in Int /\ 0 \in Int
      OBVIOUS
    <3> QED
      BY <2>1, <2>3, <3>1, EditCounts
  <2> QED
    BY <2>4
<1>2. /\ Ind(Holds(t, x, Referring)) = Here(x, s, 1)
      /\ Ind(Holds(t, x, Referring)') = Here(x, s, 0)
      /\ Ind(Holds(t, x, {"append"})) = Here(x, s, 1)
      /\ Ind(Holds(t, x, {"append"})') = Here(x, s, 0)
  BY <1>b DEF Holds, Ind, Here, Referring
<1>3. Cardinality(On(x)') = Cardinality(On(x)) + Here(x, s, 0)
  BY <1>a, SameUsers
<1>4. /\ Cardinality(Places(events', Event("data", x))) =
           Cardinality(Places(events, Event("data", x))) + Here(x, s, 1)
      /\ Cardinality(Places(events', Event("ckpt", x))) =
           Cardinality(Places(events, Event("ckpt", x))) + Here(x, s, 0)
  <2>1. s \in DOMAIN structs
    BY <1>1 DEF Counts
  <2>2. events \in Seq(EventType) /\ Event("data", s) \in EventType
    BY <2>1, TypeFacts DEF EventType, Event
  <2>3. \A v : Cardinality(Places(events', v)) =
             Cardinality(Places(events, v)) + (IF Event("data", s) = v THEN 1 ELSE 0)
    BY <1>a, <2>2, PlacesAppend
  <2>4. \A k \in {"data", "ckpt"} : Event("data", s) = Event(k, x) <=> k = "data" /\ x = s
    BY DEF Event
  <2> HIDE DEF s
  <2> QED
    BY <2>3, <2>4 DEF Here
<1>5. 0 = 0 - 1 + 0 + 1 /\ 0 = 1 - 1 + 0
  OBVIOUS
<1> HIDE DEF s
<1> QED
  BY <1>a, <1>1, <1>2, <1>3, <1>4, <1>5, CountsFollow

LEMMA UnrefCounts ==
  ASSUME TypeOK, ControlInv, CountersExact, NEW t \in Threads, Steps(t), Unref(t),
         NEW x \in Alive'
  PROVE  CountersAre(x)'
<1> DEFINE s == loc[t].s
<1>a. files' = files /\ open' = open /\ events' = events
  BY DEF Unref, handleVars
<1>b. pc[t] = "unref" /\ pc'[t] \in {"insert", "idle"}
  BY UnrefMoves DEF Moved, Stays, Ends
<1>1. Counts(s, -1, 0, 0)
  <2> DEFINE r == [structs[s] EXCEPT !.ref_count = structs[s].ref_count - 1]
  <2>1. Edited(s, r)
    BY UnrefEdits
  <2>2. structs[s] \in Structs
    BY <2>1, TypeFacts DEF Edited
  <2>3. /\ r.alive = structs[s].alive /\ r.ref_count = structs[s].ref_count + (-1)
        /\ r.outstanding_reqs = structs[s].outstanding_reqs + 0
        /\ r.index_flush_reqs = structs[s].index_flush_reqs + 0
    BY <2>2 DEF Structs
  <2>4. Counts(s, (-1), 0, 0)
    <3> HIDE DEF r
    <3>1. (-1) \in Int /\ 0 \in Int /\ 0 \in Int
      OBVIOUS
    <3> QED
      BY <2>1, <2>3, <3>1, EditCounts
  <2> QED
    BY <2>4
<1>2. /\ Ind(Holds(t, x, Referring)) = Here(x, s, 1)
      /\ Ind(Holds(t, x, Referring)') = Here(x, s, 0)
      /\ Ind(Holds(t, x, {"append"})) = Here(x, s, 0)
      /\ Ind(Holds(t, x, {"append"})') = Here(x, s, 0)
  BY <1>b DEF Holds, Ind, Here, Referring
<1>3. Cardinality(On(x)') = Cardinality(On(x)) + Here(x, s, 0)
  BY <1>a, SameUsers
<1>4. \A k : Cardinality(Places(events', k)) = Cardinality(Places(events, k)) + Here(x, s, 0)
  BY <1>a, SameUsers
<1>5. -1 = 0 - 1 + 0 + 0 /\ 0 = 0 - 0 + 0
  OBVIOUS
<1> HIDE DEF s
<1> QED
  BY <1>a, <1>1, <1>2, <1>3, <1>4, <1>5, CountsFollow

LEMMA DeallocCounts ==
  ASSUME TypeOK, ControlInv, CountersExact, NEW t \in Threads, Steps(t), Dealloc(t), structs' # structs,
         NEW x \in Alive'
  PROVE  CountersAre(x)'
<1> DEFINE s == loc[t].s
<1>a. /\ files' = files /\ open' = open
      /\ events' = Append(events, Event("ckpt", s))
  BY DEF Dealloc, handleVars, Event
<1>b. pc[t] = "dealloc" /\ pc'[t] = "idle"
  BY UnrefMoves DEF Moved, Ends
<1>1. Counts(s, 0, 0, 1)
  <2> DEFINE r == [structs[s] EXCEPT !.dirty = FALSE, !.index_flush_reqs = @ + 1]
  <2>1. Edited(s, r)
    BY UnrefEdits
  <2>2. structs[s] \in Structs
    BY <2>1, TypeFacts DEF Edited
  <2>3. /\ r.alive = structs[s].alive /\ r.ref_count = structs[s].ref_count + 0
        /\ r.outstanding_reqs = structs[s].outstanding_reqs + 0
        /\ r.index_flush_reqs = structs[s].index_flush_reqs + 1
    BY <2>2 DEF Structs
  <2>4. Counts(s, 0, 0, 1)
    <3> HIDE DEF r
    <3>1. 0 \in Int /\ 0 \in Int /\ 1 \in Int
      OBVIOUS
    <3> QED
      BY <2>1, <2>3, <3>1, EditCounts
  <2> QED
    BY <2>4
<1>2. /\ Ind(Holds(t, x, Referring)) = Here(x, s, 0)
      /\ Ind(Holds(t, x, Referring)') = Here(x, s, 0)
      /\ Ind(Holds(t, x, {"append"})) = Here(x, s, 0)
      /\ Ind(Holds(t, x, {"append"})') = Here(x, s, 0)
  BY <1>b DEF Holds, Ind, Here, Referring
<1>3. Cardinality(On(x)') = Cardinality(On(x)) + Here(x, s, 0)
  BY <1>a, SameUsers
<1>4. /\ Cardinality(Places(events', Event("data", x))) =
           Cardinality(Places(events, Event("data", x))) + Here(x, s, 0)
      /\ Cardinality(Places(events', Event("ckpt", x))) =
           Cardinality(Places(events, Event("ckpt", x))) + Here(x, s, 1)
  <2>1. s \in DOMAIN structs
    BY <1>1 DEF Counts
  <2>2. events \in Seq(EventType) /\ Event("ckpt", s) \in EventType
    BY <2>1, TypeFacts DEF EventType, Event
  <2>3. \A v : Cardinality(Places(events', v)) =
             Cardinality(Places(events, v)) + (IF Event("ckpt", s) = v THEN 1 ELSE 0)
    BY <1>a, <2>2, PlacesAppend
  <2>4. \A k \in {"data", "ckpt"} : Event("ckpt", s) = Event(k, x) <=> k = "ckpt" /\ x = s
    BY DEF Event
  <2> HIDE DEF s
  <2> QED
    BY <2>3, <2>4 DEF Here
<1>5. 0 = 0 - 0 + 0 + 0 /\ 0 = 0 - 0 + 0
  OBVIOUS
<1> HIDE DEF s
<1> QED
  BY <1>a, <1>1, <1>2, <1>3, <1>4, <1>5, CountsFollow

LEMMA AckWriteCounts ==
  ASSUME TypeOK, ControlInv, CountersExact, NEW t \in Threads, t = Callback, Steps(t), AckWrite,
         NEW x \in Alive'
  PROVE  CountersAre(x)'
<1> DEFINE s == Head(events).s
<1>a. /\ files' = files /\ open' = open
      /\ events # << >> /\ events' = Tail(events)
  BY DEF AckWrite, NextEvent, handleVars
<1>b. pc[t] = "idle" /\ pc'[t] = "unref" /\ loc'[t].s = s
  BY CallbackMoves DEF Moved
<1>1. Counts(s, 0, -1, 0)
  <2> DEFINE r == [structs[s] EXCEPT !.outstanding_reqs = structs[s].outstanding_reqs - 1]
  <2>1. Edited(s, r)
    BY CallbackEdits
  <2>2. structs[s] \in Structs
    BY <2>1, TypeFacts DEF Edited
  <2>3. /\ r.alive = structs[s].alive /\ r.ref_count = structs[s].ref_count + 0
        /\ r.outstanding_reqs = structs[s].outstanding_reqs + (-1)
        /\ r.index_flush_reqs = structs[s].index_flush_reqs + 0
    BY <2>2 DEF Structs
  <2>4. Counts(s, 0, (-1), 0)
    <3> HIDE DEF r
    <3>1. 0 \in Int /\ (-1) \in Int /\ 0 \in Int
      OBVIOUS
    <3> QED
      BY <2>1, <2>3, <3>1, EditCounts
  <2> QED
    BY <2>4
<1>2. /\ Ind(Holds(t, x, Referring)) = Here(x, s, 0)
      /\ Ind(Holds(t, x, Referring)') = Here(x, s, 1)
      /\ Ind(Holds(t, x, {"append"})) = Here(x, s, 0)
      /\ Ind(Holds(t, x, {"append"})') = Here(x, s, 0)
  BY <1>b DEF Holds, Ind, Here, Referring
<1>3. Cardinality(On(x)') = Cardinality(On(x)) + Here(x, s, 0)
  BY <1>a, SameUsers
<1>4. /\ Cardinality(Places(events', Event("data", x))) =
           Cardinality(Places(events, Event("data", x))) + Here(x, s, -1)
      /\ Cardinality(Places(events', Event("ckpt", x))) =
           Cardinality(Places(events, Event("ckpt", x))) + Here(x, s, 0)
  <2>1. events \in Seq(EventType) /\ \A k : Cardinality(Places(events, k)) \in Nat
    BY TypeFacts, CountTypes
  <2>2. Head(events) = Event("data", s)
    BY CallbackEdits
  <2>3. \A v : Cardinality(Places(events', v)) =
             Cardinality(Places(events, v)) - (IF Event("data", s) = v THEN 1 ELSE 0)
    BY <1>a, <2>1, <2>2, PlacesTail
  <2>4. \A k \in {"data", "ckpt"} : Event("data", s) = Event(k, x) <=> k = "data" /\ x = s
    BY DEF Event
  <2> HIDE DEF s
  <2> QED
    BY <2>1, <2>3, <2>4 DEF Here
<1>5. 0 = 0 - 0 + 1 + (-1) /\ -1 = (-1) - 0 + 0
  OBVIOUS
<1> HIDE DEF s
<1> QED
  BY <1>a, <1>1, <1>2, <1>3, <1>4, <1>5, CountsFollow

LEMMA AckCheckpointCounts ==
  ASSUME TypeOK, ControlInv, CountersExact, NEW t \in Threads, t = Callback, Steps(t), AckCheckpoint,
         NEW x \in Alive'
  PROVE  CountersAre(x)'
<1> DEFINE s == Head(events).s
<1>a. /\ files' = files /\ open' = open
      /\ events # << >> /\ events' = Tail(events)
  BY DEF AckCheckpoint, NextEvent, handleVars
<1>b. pc[t] = "idle" /\ pc'[t] \in {"idle", "finish"}
  BY CallbackMoves DEF AckCheckpoint, NextEvent, At, Moved
<1>1. Counts(s, 0, 0, -1)
  <2> DEFINE r == [structs[s] EXCEPT !.index_flush_reqs = structs[s].index_flush_reqs - 1]
  <2>1. Edited(s, r)
    BY CallbackEdits
  <2>2. structs[s] \in Structs
    BY <2>1, TypeFacts DEF Edited
  <2>3. /\ r.alive = structs[s].alive /\ r.ref_count = structs[s].ref_count + 0
        /\ r.outstanding_reqs = structs[s].outstanding_reqs + 0
        /\ r.index_flush_reqs = structs[s].index_flush_reqs + (-1)
    BY <2>2 DEF Structs
  <2>4. Counts(s, 0, 0, (-1))
    <3> HIDE DEF r
    <3>1. 0 \in Int /\ 0 \in Int /\ (-1) \in Int
      OBVIOUS
    <3> QED
      BY <2>1, <2>3, <3>1, EditCounts
  <2> QED
    BY <2>4
<1>2. /\ Ind(Holds(t, x, Referring)) = Here(x, s, 0)
      /\ Ind(Holds(t, x, Referring)') = Here(x, s, 0)
      /\ Ind(Holds(t, x, {"append"})) = Here(x, s, 0)
      /\ Ind(Holds(t, x, {"append"})') = Here(x, s, 0)
  BY <1>b DEF Holds, Ind, Here, Referring
<1>3. Cardinality(On(x)') = Cardinality(On(x)) + Here(x, s, 0)
  BY <1>a, SameUsers
<1>4. /\ Cardinality(Places(events', Event("data", x))) =
           Cardinality(Places(events, Event("data", x))) + Here(x, s, 0)
      /\ Cardinality(Places(events', Event("ckpt", x))) =
           Cardinality(Places(events, Event("ckpt", x))) + Here(x, s, -1)
  <2>1. events \in Seq(EventType) /\ \A k : Cardinality(Places(events, k)) \in Nat
    BY TypeFacts, CountTypes
  <2>2. Head(events) = Event("ckpt", s)
    BY CallbackEdits
  <2>3. \A v : Cardinality(Places(events', v)) =
             Cardinality(Places(events, v)) - (IF Event("ckpt", s) = v THEN 1 ELSE 0)
    BY <1>a, <2>1, <2>2, PlacesTail
  <2>4. \A k \in {"data", "ckpt"} : Event("ckpt", s) = Event(k, x) <=> k = "ckpt" /\ x = s
    BY DEF Event
  <2> HIDE DEF s
  <2> QED
    BY <2>1, <2>3, <2>4 DEF Here
<1>5. 0 = 0 - 0 + 0 + 0 /\ 0 = 0 - 0 + 0
  OBVIOUS
<1> HIDE DEF s
<1> QED
  BY <1>a, <1>1, <1>2, <1>3, <1>4, <1>5, CountsFollow

LEMMA CountersStep ==
  ASSUME TypeOK, ControlInv, CountersExact, [Next]_vars
  PROVE  CountersExact'
<1>1. ASSUME NEW t \in Threads, Steps(t), NEW x \in Alive'
      PROVE  CountersAre(x)'
  <2>1. ASSUME t \in Users, \/ \E n \in Names : StartOpen(t, n)
                            \/ OpenWithoutHandle(t)
                            \/ \E h \in Handles : StartClose(t, h) \/ StartWrite(t, h)
        PROVE  CountersAre(x)'
    <3>1. CASE (\E n \in Names : StartOpen(t, n)) \/ OpenWithoutHandle(t)
      BY <1>1, <2>1, <3>1, QuietUserCounts
    <3>2. ASSUME NEW h \in Handles, StartClose(t, h)
          PROVE  CountersAre(x)'
      BY <1>1, <2>1, <3>2, StartCloseCounts
    <3>3. ASSUME NEW h \in Handles, StartWrite(t, h)
          PROVE  CountersAre(x)'
      BY <1>1, <2>1, <3>3, StartWriteCounts
    <3> QED
      BY <2>1, <3>1, <3>2, <3>3
  <2>2. ASSUME t \in Users, UserStep(t)
        PROVE  CountersAre(x)'
    <3>1. CASE OpenLookup(t) \/ OpenAllocFails(t) \/ Revive(t) \/ Unlist(t) \/ OpenFails(t)
      BY <1>1, <2>2, <3>1, QuietUserCounts
    <3>2. CASE \E dirty \in BOOLEAN : OpenAlloc(t, dirty)
      BY <1>1, <2>2, <3>2, AllocCounts
    <3>3. CASE OpenRef(t)
      BY <1>1, <2>2, <3>3, OpenRefCounts
    <3>4. CASE OpenSucceeds(t)
      BY <1>1, <2>2, <3>4, OpenSucceedsCounts
    <3>5. CASE WriteCount(t)
      BY <1>1, <2>2, <3>5, WriteCountCounts
    <3>6. CASE WriteAppend(t)
      BY <1>1, <2>2, <3>6, WriteAppendCounts
    <3> QED
      BY <2>2, <3>1, <3>2, <3>3, <3>4, <3>5, <3>6 DEF UserStep
  <2>3. CASE UnrefStep(t)
    <3>1. CASE Unref(t)
      BY <1>1, <3>1, UnrefCounts
    <3>2. CASE Dealloc(t) /\ structs' # structs
      BY <1>1, <3>2, DeallocCounts
    <3>3. CASE Dealloc(t) /\ structs' = structs
      <4>1. UNCHANGED <<files, open, events>>
        <5>1. loc[t].s \in DOMAIN structs /\ structs[loc[t].s] \in Structs
          BY <3>3, TypeFacts DEF Dealloc, At, ControlInv, ThreadsHaveStructs
        <5>2. ~structs[loc[t].s].dirty
          <6>1. SUFFICES ASSUME structs[loc[t].s].dirty
                         PROVE  FALSE
            OBVIOUS
          <6>2. structs' = [structs EXCEPT ![loc[t].s] =
                              [structs[loc[t].s] EXCEPT !.dirty = FALSE, !.index_flush_reqs = @ + 1]]
            BY <3>3, <6>1 DEF Dealloc, SetMy, My
          <6>3. structs'[loc[t].s].dirty = FALSE
            BY <5>1, <6>2 DEF Structs
          <6> QED
            BY <3>3, <6>1, <6>3
        <5> QED
          BY <3>3, <5>2 DEF Dealloc, My, handleVars
      <4>2. pc[t] = "dealloc" /\ pc'[t] = "idle"
        BY <3>3, UnrefMoves DEF Moved, Ends
      <4>3. /\ Holds(t, x, Referring)' <=> Holds(t, x, Referring)
            /\ Holds(t, x, {"append"})' <=> Holds(t, x, {"append"})
        BY <4>2 DEF Holds, Referring
      <4>4. x \in Alive /\ x \in DOMAIN structs /\ Alike(structs'[x], structs[x])
        BY <1>1, <3>3 DEF Alive, Alike
      <4> QED
        BY <1>1, <4>1, <4>3, <4>4, CountersExactMeans, CountersUnmoved
    <3>4. CASE InsertCheck(t) \/ Push(t) \/ PushFull(t) \/ RuinList(t) \/ UseFreed(t)
      BY <1>1, <3>4, QuietUnrefCounts
    <3> QED
      BY <2>3, <3>1, <3>2, <3>3, <3>4 DEF UnrefStep
  <2>4. ASSUME t = Callback, CallbackStep
        PROVE  CountersAre(x)'
    <3>1. CASE AckWrite
      BY <1>1, <2>4, <3>1, AckWriteCounts
    <3>2. CASE AckCheckpoint
      BY <1>1, <2>4, <3>2, AckCheckpointCounts
    <3>3. CASE Finish \/ HashDelete \/ Free
      BY <1>1, <2>4, <3>3, QuietCallbackCounts
    <3> QED
      BY <2>4, <3>1, <3>2, <3>3 DEF CallbackStep
  <2> QED
    BY <1>1, <2>1, <2>2, <2>3, <2>4 DEF Steps
<1>2. CASE UNCHANGED vars
  <2>1. /\ structs' = structs /\ open' = open /\ files' = files /\ events' = events
        /\ pc' = pc /\ loc' = loc
    BY <1>2 DEF vars
  <2>2. /\ Alive' = Alive
        /\ \A x : {h \in open : files[h] = x}' = {h \in open : files[h] = x}
        /\ \A x, l : Holding(x, l)' = Holding(x, l) /\ Events(x, l)' = Events(x, l)
    BY <2>1 DEF Alive, Holding, Events
  <2> QED
    BY <2>1, <2>2 DEF CountersExact
<1>3. (\A x \in Alive' : CountersAre(x)') => CountersExact'
  BY DEF CountersExact, CountersAre, On, Holding, Holders, Referring, Events, Places, Event
<1> QED
  BY <1>1, <1>2, <1>3, StepsOf
-----------------------------------------------------------------------------
TableInv == TypeOK /\ ControlInv /\ CountersExact

LEMMA TableInit ==
  ASSUME Init
  PROVE  TableInv
<1>1. TypeOK
  <2>1. 0 \in Handles /\ Len(<< >>) = 0
    BY FileTableAssumption DEF Handles
  <2>2. /\ fhs \subseteq Handles /\ open \subseteq fhs /\ structs \in Seq(Structs)
        /\ files \in [Handles -> 0 .. Len(structs)] /\ file_hash \in [Names -> 0 .. Len(structs)]
    BY <2>1 DEF Init
  <2>3. /\ recently_closed \in Seq(DOMAIN structs) /\ recently_closed_size \in Int
        /\ open_lock \in Users \cup {None}
        /\ events \in Seq([kind : {"data", "ckpt"}, s : DOMAIN structs])
    BY <2>1 DEF Init
  <2>4. /\ pc \in [Threads -> Labels]
        /\ loc \in [Threads -> [fh : Handles, s : 0 .. Len(structs), name : Names \cup {None}]]
    BY <2>1 DEF Init, Labels, NoLocals
  <2>5. calls \in 0 .. MaxCalls /\ crashed \in {"no", "insert", "revive", "list", "freed"}
    BY FileTableAssumption DEF Init
  <2>6. evicted \in BOOLEAN
    BY Zenon DEF Init
  <2> QED
    BY <2>2, <2>3, <2>4, <2>5, <2>6, Zenon DEF TypeOK
<1>2. ControlInv
  BY RoleFacts DEF Init, ControlInv, ThreadsHaveStructs, HandlesPrivate, OpenLocked, Freeing,
     Opening, UnderOpenLock
<1>3. CountersExact
  BY DEF Init, CountersExact, Alive
<1> QED
  BY <1>1, <1>2, <1>3 DEF TableInv

LEMMA TableStep == TableInv /\ [Next]_vars => TableInv'
BY TypeStep, ControlStep, CountersStep DEF TableInv

\* The file table keeps its types: no counter of a structure becomes negative,
\* and no pointer leaves the structures allocated.
THEOREM TypeCorrect == Spec => []TypeOK
<1>1. Init => TableInv
  BY TableInit
<1>2. TableInv => TypeOK
  BY DEF TableInv
<1> QED
  BY <1>1, <1>2, TableStep, PTL DEF Spec

\* The counters of a structure count exactly its users, for any number of
\* threads, files, handles and calls.
THEOREM CountersStayExact == Spec => []CountersExact
<1>1. Init => TableInv
  BY TableInit
<1>2. TableInv => CountersExact
  BY DEF TableInv
<1> QED
  BY <1>1, <1>2, TableStep, PTL DEF Spec
-----------------------------------------------------------------------------
\* The list of recently closed files.  Steps that leave it alone:
LEMMA ListKept ==
  ASSUME NEW t \in Threads, Steps(t), ~Unlist(t), ~Push(t), ~PushFull(t)
  PROVE  UNCHANGED rcVars
<1>1. ASSUME t \in Users,
             \/ OpenWithoutHandle(t) \/ (\E n \in Names : StartOpen(t, n))
             \/ (\E h \in Handles : StartWrite(t, h) \/ StartClose(t, h)) \/ OpenLookup(t)
             \/ Revive(t) \/ (\E dirty \in BOOLEAN : OpenAlloc(t, dirty)) \/ OpenAllocFails(t)
             \/ OpenRef(t) \/ OpenFails(t) \/ OpenSucceeds(t) \/ WriteCount(t) \/ WriteAppend(t)
      PROVE  UNCHANGED rcVars
  BY <1>1 DEF OpenWithoutHandle, StartOpen, StartWrite, StartClose, OpenLookup, Revive, OpenAlloc,
              OpenAllocFails, OpenRef, OpenFails, OpenSucceeds, WriteCount, WriteAppend
<1>2. CASE Unref(t) \/ InsertCheck(t) \/ Dealloc(t) \/ RuinList(t) \/ UseFreed(t) \/ CallbackStep
  BY <1>2 DEF Unref, InsertCheck, Dealloc, RuinList, UseFreed,
              CallbackStep, AckWrite, AckCheckpoint, Finish, HashDelete, Free
<1> QED
  BY <1>1, <1>2 DEF Steps, UserStep, UnrefStep

\* Only a process that runs takes steps.
LEMMA StepsRun ==
  ASSUME NEW t \in Threads, Steps(t)
  PROVE  crashed = "no"
BY DEF Steps, StartOpen, OpenWithoutHandle, StartWrite, StartClose, Call, At, UserStep, OpenLookup,
       Revive, OpenAlloc, OpenAllocFails, Unlist, OpenRef, OpenFails, OpenSucceeds, WriteCount,
       WriteAppend, UnrefStep, Unref, InsertCheck, Push, PushFull, Dealloc, RuinList, UseFreed,
       CallbackStep, AckWrite, AckCheckpoint, NextEvent, Finish, HashDelete, Free

LEMMA ListSizeStep ==
  ASSUME TypeOK, ControlInv, ListSizeExact, [Next]_vars
  PROVE  ListSizeExact'
<1>a. /\ recently_closed \in Seq(DOMAIN structs) /\ Len(recently_closed) \in Nat
      /\ DOMAIN recently_closed = 1 .. Len(recently_closed) /\ RC_CAP \in Nat
  BY FileTableAssumption DEF TypeOK
<1>1. ASSUME NEW t \in Threads, Steps(t)
      PROVE  ListSizeExact'
  <2>a. /\ recently_closed_size = Len(recently_closed) /\ recently_closed_size <= RC_CAP
        /\ \A i, j \in 1 .. Len(recently_closed) :
             recently_closed[i] = recently_closed[j] => i = j
    BY <1>a, <1>1, StepsRun DEF ListSizeExact, IsInjective
  <2>b. pc[t] \notin {"idle", "lookup", "alloc"} => loc[t].s \in DOMAIN structs
    BY DEF ControlInv, ThreadsHaveStructs
  <2>1. CASE Unlist(t)
    <3>1. PICK i \in DOMAIN recently_closed : recently_closed' = RemoveAt(recently_closed, i)
      BY <2>1 DEF Unlist
    <3>2. /\ recently_closed' \in Seq(DOMAIN structs)
          /\ Len(recently_closed') = Len(recently_closed) - 1
          /\ \A j \in 1 .. Len(recently_closed) - 1 : recently_closed'[j] =
               IF j < i THEN recently_closed[j] ELSE recently_closed[j + 1]
      BY <1>a, <3>1, RemoveAtFacts
    <3>3. recently_closed_size' = recently_closed_size - 1
      BY <2>1 DEF Unlist
    <3>4. ASSUME NEW j \in DOMAIN recently_closed', NEW k \in DOMAIN recently_closed',
                 recently_closed'[j] = recently_closed'[k]
          PROVE  j = k
      <4>1. j \in 1 .. Len(recently_closed) - 1 /\ k \in 1 .. Len(recently_closed) - 1
        BY <3>2
      <4> DEFINE J == IF j < i THEN j ELSE j + 1
                 K == IF k < i THEN k ELSE k + 1
      <4>2. J \in 1 .. Len(recently_closed) /\ K \in 1 .. Len(recently_closed)
        BY <1>a, <4>1
      <4>3. recently_closed'[j] = recently_closed[J] /\ recently_closed'[k] = recently_closed[K]
        BY <3>2, <4>1
      <4>4. J = K
        <5> HIDE DEF J, K
        <5> QED BY <2>a, <3>4, <4>2, <4>3
      <4> QED
        BY <1>a, <4>1, <4>4
    <3>5. recently_closed_size' = Len(recently_closed') /\ recently_closed_size' <= RC_CAP
      BY <1>a, <2>a, <3>2, <3>3
    <3> QED
      BY <3>4, <3>5 DEF ListSizeExact, IsInjective
  <2>2. CASE Push(t)
    <3> DEFINE s == loc[t].s
    <3>1. s \in DOMAIN structs
      BY <2>2, <2>b DEF Push, At
    <3>2. /\ recently_closed' \in Seq(DOMAIN structs)
          /\ Len(recently_closed') = Len(recently_closed) + 1 /\ recently_closed'[1] = s
          /\ \A j \in 1 .. Len(recently_closed) : recently_closed'[j + 1] = recently_closed[j]
      BY <1>a, <2>2, <3>1, FrontFacts DEF Push
    <3>3. /\ recently_closed_size' = recently_closed_size + 1 /\ recently_closed_size # RC_CAP
          /\ \A j \in 1 .. Len(recently_closed) : recently_closed[j] # s
      BY <1>a, <2>2 DEF Push, ToSet
    <3>4. ASSUME NEW j \in DOMAIN recently_closed', NEW k \in DOMAIN recently_closed',
                 recently_closed'[j] = recently_closed'[k]
          PROVE  j = k
      <4>1. j \in 1 .. Len(recently_closed) + 1 /\ k \in 1 .. Len(recently_closed) + 1
        BY <3>2
      <4>2. \A m \in 1 .. Len(recently_closed) + 1 :
              m # 1 => /\ m - 1 \in 1 .. Len(recently_closed)
                       /\ recently_closed'[m] = recently_closed[m - 1]
                       /\ recently_closed'[m] # s
        <5>1. ASSUME NEW m \in 1 .. Len(recently_closed) + 1, m # 1
              PROVE  m - 1 \in 1 .. Len(recently_closed) /\ (m - 1) + 1 = m
          BY <1>a, <5>1
        <5> HIDE DEF s
        <5> QED BY <3>2, <3>3, <5>1
      <4> HIDE DEF s
      <4> QED
        BY <1>a, <2>a, <3>2, <3>4, <4>1, <4>2
    <3>5. recently_closed_size' = Len(recently_closed') /\ recently_closed_size' <= RC_CAP
      <4>1. /\ Len(recently_closed') = Len(recently_closed) + 1
            /\ recently_closed_size' = recently_closed_size + 1 /\ recently_closed_size # RC_CAP
        BY <3>2, <3>3
      <4>2. ASSUME NEW a \in Nat, NEW c \in Nat, a <= c, a # c
            PROVE  a + 1 <= c
        BY <4>2
      <4> QED
        BY <1>a, <2>a, <4>1, <4>2
    <3> QED
      BY <3>4, <3>5 DEF ListSizeExact, IsInjective
  <2>3. CASE PushFull(t)
    <3> DEFINE s == loc[t].s
    <3>1. s \in DOMAIN structs
      BY <2>3, <2>b DEF PushFull, At
    <3>2. /\ recently_closed' \in Seq(DOMAIN structs)
          /\ Len(recently_closed') = Len(recently_closed)
          /\ \A j \in 1 .. Len(recently_closed) :
               recently_closed'[j] = IF j = 1 THEN s ELSE recently_closed[j - 1]
      <4>1. recently_closed' = Front(<<s>> \o recently_closed)
        BY <2>3 DEF PushFull
      <4> QED
        BY <1>a, <3>1, <4>1, PushedFront
    <3>3. /\ recently_closed_size' = recently_closed_size
          /\ \A j \in 1 .. Len(recently_closed) : recently_closed[j] # s
      BY <1>a, <2>3 DEF PushFull, ToSet
    <3>4. ASSUME NEW j \in DOMAIN recently_closed', NEW k \in DOMAIN recently_closed',
                 recently_closed'[j] = recently_closed'[k]
          PROVE  j = k
      <4>1. j \in 1 .. Len(recently_closed) /\ k \in 1 .. Len(recently_closed)
        BY <3>2
      <4>2. \A m \in 1 .. Len(recently_closed) :
              m # 1 => /\ m - 1 \in 1 .. Len(recently_closed)
                       /\ recently_closed'[m] = recently_closed[m - 1]
                       /\ recently_closed'[m] # s
        <5>1. ASSUME NEW m \in 1 .. Len(recently_closed), m # 1
              PROVE  m - 1 \in 1 .. Len(recently_closed) /\ (m - 1) + 1 = m
          BY <1>a, <5>1
        <5> HIDE DEF s
        <5> QED BY <3>2, <3>3, <5>1
      <4>3. recently_closed'[j] = s <=> j = 1
        BY <3>2, <4>1, <4>2
      <4>4. recently_closed'[k] = s <=> k = 1
        BY <3>2, <4>1, <4>2
      <4> HIDE DEF s
      <4> QED
        BY <1>a, <2>a, <3>4, <4>1, <4>2, <4>3, <4>4
    <3>5. recently_closed_size' = Len(recently_closed') /\ recently_closed_size' <= RC_CAP
      BY <1>a, <2>a, <3>2, <3>3
    <3> QED
      BY <3>4, <3>5 DEF ListSizeExact, IsInjective
  <2>4. CASE UNCHANGED rcVars
    BY <1>1, <2>4, StepsRun DEF ListSizeExact, rcVars, IsInjective
  <2> QED
    BY <1>1, <2>1, <2>2, <2>3, <2>4, ListKept
<1>2. CASE UNCHANGED vars
  BY <1>2 DEF vars, ListSizeExact, IsInjective
<1> QED
  BY <1>1, <1>2, StepsOf

\* Until an assertion fails, recently_closed_size is the length of the list,
\* within the capacity, and no file is on the list twice.
THEOREM ListSizeStaysExact == Spec => []ListSizeExact
<1>1. Init => TableInv /\ ListSizeExact
  <2>1. Init => recently_closed = << >> /\ recently_closed_size = 0
    BY DEF Init
  <2>2. /\ Len(<< >>) = 0 /\ 0 <= RC_CAP /\ IsInjective(<< >>)
    BY FileTableAssumption DEF IsInjective
  <2> QED
    BY <2>1, <2>2, TableInit DEF ListSizeExact
<1>2. TableInv /\ ListSizeExact /\ [Next]_vars => TableInv' /\ ListSizeExact'
  BY TableStep, ListSizeStep DEF TableInv
<1> QED
  BY <1>1, <1>2, PTL DEF Spec
-----------------------------------------------------------------------------
\* What most steps keep of a structure: its name, its life, its flag; and they
\* drop no last reference.
Face(q, r) ==
    /\ q.name = r.name /\ q.alive = r.alive /\ q.recently_closed = r.recently_closed
    /\ q.ref_count = 0 => r.ref_count = 0

Faces == /\ DOMAIN structs' = DOMAIN structs
         /\ \A x \in DOMAIN structs : Face(structs'[x], structs[x])

LEMMA FacesEdit ==
  ASSUME TypeOK, NEW s, NEW q, Edited(s, q), Face(q, structs[s])
  PROVE  Faces
<1>1. \A x \in DOMAIN structs : Face(structs[x], structs[x])
  BY DEF Face
<1> QED
  BY <1>1, GrownByEdit DEF Faces

LEMMA FacesSame ==
  ASSUME structs' = structs
  PROVE  Faces
BY DEF Faces, Face

LEMMA FaceFields ==
  ASSUME NEW r \in Structs, NEW q,
         \/ q = [r EXCEPT !.ref_count = r.ref_count + 1]
         \/ q = [r EXCEPT !.outstanding_reqs = r.outstanding_reqs + 1]
         \/ q = [r EXCEPT !.outstanding_reqs = r.outstanding_reqs - 1]
         \/ q = [r EXCEPT !.index_flush_reqs = r.index_flush_reqs - 1]
         \/ q = [r EXCEPT !.dirty = TRUE]
         \/ q = [r EXCEPT !.dirty = FALSE, !.index_flush_reqs = @ + 1]
  PROVE  Face(q, r)
<1>1. CASE q = [r EXCEPT !.ref_count = r.ref_count + 1]
  BY <1>1 DEF Structs, Face
<1>2. CASE q = [r EXCEPT !.outstanding_reqs = r.outstanding_reqs + 1]
  BY <1>2 DEF Structs, Face
<1>3. CASE q = [r EXCEPT !.outstanding_reqs = r.outstanding_reqs - 1]
  BY <1>3 DEF Structs, Face
<1>4. CASE q = [r EXCEPT !.index_flush_reqs = r.index_flush_reqs - 1]
  BY <1>4 DEF Structs, Face
<1>5. CASE q = [r EXCEPT !.dirty = TRUE]
  BY <1>5 DEF Structs, Face
<1>6. CASE q = [r EXCEPT !.dirty = FALSE, !.index_flush_reqs = @ + 1]
  BY <1>6 DEF Structs, Face
<1> QED
  BY <1>1, <1>2, <1>3, <1>4, <1>5, <1>6

LEMMA PlainSteps ==
  ASSUME TypeOK, ControlInv, CountersExact, NEW t \in Threads, Steps(t),
         ~\E dirty \in BOOLEAN : OpenAlloc(t, dirty),
         ~Revive(t), ~Push(t), ~PushFull(t), ~Unref(t), ~(t = Callback /\ Free)
  PROVE  Faces
<1>s. \A s \in DOMAIN structs : structs[s] \in Structs
  BY TypeFacts
<1>e. ASSUME NEW s, NEW q, Edited(s, q),
             \/ q = [structs[s] EXCEPT !.ref_count = structs[s].ref_count + 1]
             \/ q = [structs[s] EXCEPT !.outstanding_reqs = structs[s].outstanding_reqs + 1]
             \/ q = [structs[s] EXCEPT !.outstanding_reqs = structs[s].outstanding_reqs - 1]
             \/ q = [structs[s] EXCEPT !.index_flush_reqs = structs[s].index_flush_reqs - 1]
             \/ q = [structs[s] EXCEPT !.dirty = TRUE]
             \/ q = [structs[s] EXCEPT !.dirty = FALSE, !.index_flush_reqs = @ + 1]
      PROVE  Faces
  <2>1. structs[s] \in Structs
    BY <1>e, <1>s DEF Edited
  <2>2. Face(q, structs[s])
    BY <1>e, <2>1, FaceFields
  <2> QED
    BY <1>e, <2>2, FacesEdit
<1>1. ASSUME t \in Users, \/ (\E n \in Names : StartOpen(t, n)) \/ OpenWithoutHandle(t)
                          \/ (\E h \in Handles : StartClose(t, h))
                          \/ OpenLookup(t) \/ OpenAllocFails(t) \/ Unlist(t) \/ OpenSucceeds(t)
                          \/ OpenFails(t)
      PROVE  Faces
  BY <1>1, FacesSame DEF StartOpen, OpenWithoutHandle, StartClose, OpenLookup, OpenAllocFails,
                         Unlist, OpenSucceeds, OpenFails
<1>2. ASSUME t \in Users, NEW h \in Handles, StartWrite(t, h)
      PROVE  Faces
  BY <1>2, <1>e, StartWriteEdits
<1>3. ASSUME t \in Users, OpenRef(t)
      PROVE  Faces
  BY <1>3, <1>e, UserEdits
<1>4. ASSUME t \in Users, WriteCount(t)
      PROVE  Faces
  BY <1>4, <1>e, UserEdits
<1>5. ASSUME t \in Users, WriteAppend(t)
      PROVE  Faces
  BY <1>5, <1>e, UserEdits
<1>6. CASE Dealloc(t)
  BY <1>6, <1>e, UnrefEdits, FacesSame
<1>7. CASE InsertCheck(t) \/ RuinList(t) \/ UseFreed(t)
  BY <1>7, FacesSame DEF InsertCheck, RuinList, UseFreed
<1>8. CASE AckWrite
  BY <1>8, <1>e, CallbackEdits
<1>9. CASE AckCheckpoint
  BY <1>9, <1>e, CallbackEdits
<1>10. CASE Finish \/ HashDelete
  BY <1>10, FacesSame DEF Finish, HashDelete
<1> QED
  BY <1>1, <1>2, <1>3, <1>4, <1>5, <1>6, <1>7, <1>8, <1>9, <1>10
     DEF Steps, UserStep, UnrefStep, CallbackStep

\* The other steps, but for the eviction.
LEMMA FlagSteps ==
  ASSUME TypeOK, ControlInv, CountersExact, NEW t \in Threads, Steps(t)
  PROVE  LET s == loc[t].s
         IN  /\ t \in Users /\ Revive(t) => crashed' # "no" \/
                  /\ s \in DOMAIN structs /\ DOMAIN structs' = DOMAIN structs
                  /\ structs[s].recently_closed /\ ~structs'[s].recently_closed
                  /\ Alike(structs'[s], structs[s])
                  /\ \A x \in DOMAIN structs : x # s => structs'[x] = structs[x]
             /\ Push(t) =>
                  /\ s \in DOMAIN structs /\ DOMAIN structs' = DOMAIN structs
                  /\ structs'[s].recently_closed /\ Alike(structs'[s], structs[s])
                  /\ \A x \in DOMAIN structs : x # s => structs'[x] = structs[x]
             /\ Unref(t) =>
                  /\ s \in DOMAIN structs /\ DOMAIN structs' = DOMAIN structs
                  /\ structs'[s].name = structs[s].name /\ structs'[s].alive = structs[s].alive
                  /\ structs'[s].recently_closed = structs[s].recently_closed
                  /\ structs'[s].ref_count = 0 => structs[s].ref_count = 1
                  /\ \A x \in DOMAIN structs : x # s => structs'[x] = structs[x]
<1> DEFINE s == loc[t].s
<1>s. \A x \in DOMAIN structs : structs[x] \in Structs
  BY TypeFacts
<1>1. ASSUME t \in Users, Revive(t), crashed' = "no"
      PROVE  /\ s \in DOMAIN structs /\ DOMAIN structs' = DOMAIN structs
             /\ structs[s].recently_closed /\ ~structs'[s].recently_closed
             /\ Alike(structs'[s], structs[s])
             /\ \A x \in DOMAIN structs : x # s => structs'[x] = structs[x]
  <2> DEFINE q == [structs[s] EXCEPT !.recently_closed = FALSE]
  <2>1. Edited(s, q) /\ structs[s].recently_closed
    BY <1>1, UserEdits DEF Revive, My
  <2>2. structs[s] \in Structs
    BY <1>s, <2>1 DEF Edited
  <2>3. ~q.recently_closed /\ Alike(q, structs[s])
    BY <2>2 DEF Structs, Alike
  <2> HIDE DEF q
  <2>4. s \in DOMAIN structs /\ DOMAIN structs' = DOMAIN structs /\ structs'[s] = q
        /\ \A x \in DOMAIN structs : x # s => structs'[x] = structs[x]
    BY <2>1, GrownByEdit DEF Edited
  <2> QED
    BY <2>1, <2>3, <2>4
<1>2. ASSUME Push(t)
      PROVE  /\ s \in DOMAIN structs /\ DOMAIN structs' = DOMAIN structs
             /\ structs'[s].recently_closed /\ Alike(structs'[s], structs[s])
             /\ \A x \in DOMAIN structs : x # s => structs'[x] = structs[x]
  <2> DEFINE q == [structs[s] EXCEPT !.recently_closed = TRUE]
  <2>1. Edited(s, q)
    BY <1>2, UnrefEdits
  <2>2. structs[s] \in Structs
    BY <1>s, <2>1 DEF Edited
  <2>3. q.recently_closed /\ Alike(q, structs[s])
    BY <2>2 DEF Structs, Alike
  <2> HIDE DEF q
  <2>4. s \in DOMAIN structs /\ DOMAIN structs' = DOMAIN structs /\ structs'[s] = q
        /\ \A x \in DOMAIN structs : x # s => structs'[x] = structs[x]
    BY <2>1, GrownByEdit DEF Edited
  <2> QED
    BY <2>3, <2>4
<1>3. ASSUME Unref(t)
      PROVE  /\ s \in DOMAIN structs /\ DOMAIN structs' = DOMAIN structs
             /\ structs'[s].name = structs[s].name /\ structs'[s].alive = structs[s].alive
             /\ structs'[s].recently_closed = structs[s].recently_closed
             /\ structs'[s].ref_count = 0 => structs[s].ref_count = 1
             /\ \A x \in DOMAIN structs : x # s => structs'[x] = structs[x]
  <2> DEFINE q == [structs[s] EXCEPT !.ref_count = structs[s].ref_count - 1]
  <2>1. Edited(s, q)
    BY <1>3, UnrefEdits
  <2>2. structs[s] \in Structs
    BY <1>s, <2>1 DEF Edited
  <2>3. /\ q.name = structs[s].name /\ q.alive = structs[s].alive
        /\ q.recently_closed = structs[s].recently_closed
        /\ q.ref_count = 0 => structs[s].ref_count = 1
    BY <2>2 DEF Structs
  <2> HIDE DEF q
  <2>4. s \in DOMAIN structs /\ DOMAIN structs' = DOMAIN structs /\ structs'[s] = q
        /\ \A x \in DOMAIN structs : x # s => structs'[x] = structs[x]
    BY <2>1, GrownByEdit DEF Edited
  <2> QED
    BY <2>3, <2>4
<1> QED
  BY <1>1, <1>2, <1>3
-----------------------------------------------------------------------------
\* Until the first eviction.
LEMMA NotYetEvicted ==
  ASSUME NEW t \in Threads, Steps(t), ~evicted'
  PROVE  ~evicted /\ ~PushFull(t)
<1>1. PushFull(t) => evicted'
  BY Zenon DEF PushFull
<1>2. Unlist(t) \/ Push(t) => evicted' = evicted
  BY Zenon DEF Unlist, Push
<1>3. UNCHANGED rcVars => evicted' = evicted
  BY DEF rcVars
<1>4. ~Unlist(t) /\ ~Push(t) /\ ~PushFull(t) => UNCHANGED rcVars
  BY ListKept
<1>5. ~PushFull(t)
  BY <1>1, Zenon
<1>6. evicted' = evicted
  BY <1>2, <1>3, <1>4, <1>5, Zenon
<1> QED
  BY <1>5, <1>6, Zenon

LEMMA NothingFreedStep ==
  ASSUME TypeOK, ControlInv, CountersExact, NothingFreed, [Next]_vars
  PROVE  NothingFreed'
<1>1. ASSUME NEW t \in Threads, Steps(t), ~evicted'
      PROVE  /\ \A s \in DOMAIN structs' : structs'[s].alive /\ file_hash'[structs'[s].name] = s
             /\ \A i \in DOMAIN events' : events'[i].kind = "data"
             /\ \A v \in Threads : pc'[v] \notin {"dealloc"} \cup Freeing
             /\ \A u \in Users : pc'[u] = "alloc" => file_hash'[loc'[u].name] = 0
  <2>a. /\ \A s \in DOMAIN structs : structs[s].alive /\ file_hash[structs[s].name] = s
        /\ \A i \in DOMAIN events : events[i].kind = "data"
        /\ \A v \in Threads : pc[v] \notin {"dealloc"} \cup Freeing
        /\ \A u \in Users : pc[u] = "alloc" => file_hash[loc[u].name] = 0
    <3>1. ~evicted
      BY <1>1, NotYetEvicted
    <3> QED
      BY <3>1 DEF NothingFreed
  <2>b. \A v \in Threads : v # t => pc'[v] = pc[v] /\ loc'[v] = loc[v]
    BY <1>1, OthersStay
  <2>c. /\ events \in Seq(EventType) /\ Len(structs) \in Nat /\ DOMAIN structs = 1 .. Len(structs)
        /\ \A u \in Users : u \in Threads
    BY TypeFacts, RoleFacts
  <2>d. ~PushFull(t)
    BY <1>1, NotYetEvicted
  <2>e. ~Dealloc(t) /\ ~Finish /\ ~HashDelete /\ ~Free
    BY <2>a, RoleFacts DEF Dealloc, Finish, HashDelete, Free, At, Freeing
  <2>f. ~AckCheckpoint
    <3>1. ASSUME events # << >>
          PROVE  Head(events).kind = "data"
      <4>1. 1 \in DOMAIN events /\ Head(events) = events[1]
        BY <2>c, <3>1
      <4> QED
        BY <2>a, <4>1
    <3> QED
      BY <3>1 DEF AckCheckpoint, NextEvent
  <2>1. \A s \in DOMAIN structs' : structs'[s].alive /\ file_hash'[structs'[s].name] = s
    <3>1. CASE t \in Users /\ \E dirty \in BOOLEAN : OpenAlloc(t, dirty)
      <4>1. PICK dirty \in BOOLEAN : OpenAlloc(t, dirty)
        BY <3>1
      <4> DEFINE n == Len(structs) + 1
                 m == loc[t].name
      <4>2. /\ DOMAIN structs' = DOMAIN structs \cup {n} /\ n \notin DOMAIN structs
            /\ structs'[n] = NewStruct(m, dirty)
            /\ \A y \in DOMAIN structs : structs'[y] = structs[y]
        BY <3>1, <4>1, AllocEdits
      <4>3. file_hash' = [file_hash EXCEPT ![m] = n] /\ pc[t] = "alloc"
        BY <4>1 DEF OpenAlloc, At
      <4>4. m \in Names /\ file_hash[m] = 0 /\ file_hash \in [Names -> 0 .. Len(structs)]
        BY <2>a, <3>1, <4>3 DEF ControlInv, HandlesPrivate, Opening, TypeOK
      <4>5. structs'[n].alive /\ structs'[n].name = m
        BY <4>2 DEF NewStruct
      <4>6. ASSUME NEW s \in DOMAIN structs
            PROVE  structs'[s].alive /\ file_hash'[structs'[s].name] = s
        <5>1. structs[s].name \in Names /\ structs[s].name # m
          <6>1. structs[s].name \in Names
            BY TypeFacts DEF Structs
          <6>2. file_hash[structs[s].name] # 0
            BY <2>a, <2>c
          <6> HIDE DEF m
          <6> QED
            BY <4>4, <6>1, <6>2
        <5> HIDE DEF n, m
        <5> QED
          BY <2>a, <4>2, <4>3, <4>4, <5>1
      <4> HIDE DEF n, m
      <4> QED
        BY <4>2, <4>3, <4>4, <4>5, <4>6
    <3>2. CASE ~(t \in Users /\ \E dirty \in BOOLEAN : OpenAlloc(t, dirty))
      <4>1. file_hash' = file_hash
        BY <1>1, <2>d, <2>e, <2>f, <3>2 DEF Steps, StartOpen, OpenWithoutHandle, StartClose,
           StartWrite, UserStep, OpenLookup, OpenAllocFails, Revive, Unlist, OpenRef, OpenSucceeds,
           OpenFails, WriteCount, WriteAppend, UnrefStep, Unref, InsertCheck, Push, RuinList,
           UseFreed, CallbackStep, AckWrite
      <4>2. /\ DOMAIN structs' = DOMAIN structs
            /\ \A x \in DOMAIN structs :
                 structs'[x].name = structs[x].name /\ structs'[x].alive = structs[x].alive
        <5>1. CASE Push(t) \/ Unref(t)
          BY <1>1, <5>1, FlagSteps DEF Alike
        <5>2. CASE t \in Users /\ Revive(t)
          <6>1. CASE structs' = structs
            BY <6>1
          <6>2. CASE structs' # structs
            <7>1. crashed' = "no"
              BY <5>2, <6>2 DEF Revive, At
            <7> QED
              BY <1>1, <5>2, <7>1, FlagSteps DEF Alike
          <6> QED
            BY <6>1, <6>2
        <5>3. CASE ~Push(t) /\ ~Unref(t) /\ ~Revive(t) /\ ~\E dirty \in BOOLEAN : OpenAlloc(t, dirty)
          <6>1. Faces
            BY <1>1, <2>d, <2>e, <5>3, PlainSteps
          <6> QED
            BY <6>1 DEF Faces, Face
        <5>4. t \notin Users => ~Revive(t) /\ ~\E dirty \in BOOLEAN : OpenAlloc(t, dirty)
          <6>1. t \notin Users => t = Callback
            BY DEF Threads
          <6> QED
            BY <6>1 DEF Revive, OpenAlloc, At, ControlInv, ThreadsHaveStructs, Unusing, Freeing
        <5> QED
          BY <3>2, <5>1, <5>2, <5>3, <5>4
      <4> QED
        BY <2>a, <4>1, <4>2
    <3> QED
      BY <3>1, <3>2
  <2>2. \A i \in DOMAIN events' : events'[i].kind = "data"
    <3>1. CASE WriteAppend(t)
      <4>1. events' = Append(events, [kind |-> "data", s |-> loc[t].s])
        BY <3>1 DEF WriteAppend
      <4>2. PICK e : e = [kind |-> "data", s |-> loc[t].s]
        OBVIOUS
      <4>3. e.kind = "data" /\ events' = Append(events, e)
        BY <4>1, <4>2
      <4> QED
        BY <2>a, <2>c, <4>3
    <3>2. CASE AckWrite
      <4>1. events # << >> /\ events' = Tail(events)
        BY <3>2 DEF AckWrite, NextEvent
      <4>2. /\ DOMAIN events' = 1 .. Len(events) - 1
            /\ \A i \in 1 .. Len(events) - 1 : events'[i] = events[i + 1] /\ i + 1 \in DOMAIN events
        BY <2>c, <4>1
      <4> QED
        BY <2>a, <4>2
    <3>3. CASE events' = events
      BY <2>a, <3>3
    <3> QED
      BY <1>1, <2>d, <2>e, <2>f, <3>1, <3>2, <3>3 DEF Steps, StartOpen, OpenWithoutHandle,
         StartClose, StartWrite, UserStep, OpenLookup, OpenAlloc, OpenAllocFails, Revive, Unlist,
         OpenRef, OpenSucceeds, OpenFails, WriteCount, UnrefStep, Unref, InsertCheck, Push,
         RuinList, UseFreed, CallbackStep
  <2>3. /\ pc'[t] \notin {"dealloc"} \cup Freeing
        /\ t \in Users /\ pc'[t] = "alloc" =>
             (pc' = pc /\ loc' = loc) \/ OpenLookup(t)
    <3>1. ASSUME t \in Users, \/ (\E n \in Names : StartOpen(t, n)) \/ OpenWithoutHandle(t)
                              \/ (\E h \in Handles : StartClose(t, h) \/ StartWrite(t, h))
          PROVE  (pc' = pc /\ loc' = loc) \/ pc'[t] \in {"lookup", "unref", "count"}
      BY <3>1, StartMoves DEF Moved
    <3>2. ASSUME t \in Users, UserStep(t)
          PROVE  \/ pc' = pc /\ loc' = loc
                 \/ OpenLookup(t) /\ pc'[t] \in {"alloc", "revive", "ref"}
                 \/ pc'[t] \in {"idle", "unlist", "ref", "opened", "unref", "append"}
      BY <3>2, OpenMoves, UseMoves DEF UserStep, Moved, Stays, Ends
    <3>3. ASSUME UnrefStep(t)
          PROVE  (pc' = pc /\ loc' = loc) \/ pc'[t] \in {"idle", "insert", "push"}
      BY <3>3, <2>d, <2>e, UnrefMoves DEF UnrefStep, Moved, Stays, Ends
    <3>4. ASSUME t = Callback, CallbackStep
          PROVE  pc'[t] = "unref"
      BY <3>4, <2>e, <2>f, CallbackMoves DEF CallbackStep, Moved
    <3> QED
      BY <1>1, <2>a, <3>1, <3>2, <3>3, <3>4 DEF Steps, Freeing
  <2>4. ASSUME NEW u \in Users, pc'[u] = "alloc"
        PROVE  file_hash'[loc'[u].name] = 0
    <3>1. CASE u = t /\ OpenLookup(t)
      <4>1. /\ file_hash' = file_hash
            /\ pc'[t] = IF file_hash[loc[t].name] = 0 THEN "alloc"
                        ELSE IF structs[file_hash[loc[t].name]].recently_closed THEN "revive"
                             ELSE "ref"
            /\ loc'[t].name = loc[t].name
        BY <3>1, OpenMoves DEF OpenLookup, Moved
      <4> QED
        BY <2>4, <3>1, <4>1
    <3>2. CASE ~(u = t /\ OpenLookup(t))
      <4>1. pc[u] = "alloc" /\ loc'[u] = loc[u]
        BY <2>b, <2>c, <2>3, <2>4, <3>2
      <4>2. file_hash' = file_hash
        <5>1. ~(t \in Users /\ \E dirty \in BOOLEAN : OpenAlloc(t, dirty))
          <6>1. SUFFICES ASSUME t \in Users, NEW dirty \in BOOLEAN, OpenAlloc(t, dirty)
                         PROVE  FALSE
            OBVIOUS
          <6>2. pc[t] = "alloc" /\ pc'[t] = "ref"
            BY <6>1, OpenMoves DEF Moved
          <6>3. u # t
            BY <2>4, <6>2
          <6> QED
            BY <4>1, <6>1, <6>2, <6>3 DEF ControlInv, OpenLocked, UnderOpenLock
        <5> QED
          BY <1>1, <2>d, <2>e, <2>f, <5>1 DEF Steps, StartOpen, OpenWithoutHandle, StartClose,
             StartWrite, UserStep, OpenLookup, OpenAllocFails, Revive, Unlist, OpenRef,
             OpenSucceeds, OpenFails, WriteCount, WriteAppend, UnrefStep, Unref, InsertCheck, Push,
             RuinList, UseFreed, CallbackStep, AckWrite
      <4> QED
        BY <2>a, <4>1, <4>2
    <3> QED
      BY <3>1, <3>2
  <2> QED
    BY <2>a, <2>b, <2>1, <2>2, <2>3, <2>4
<1>2. CASE UNCHANGED vars
  BY <1>2 DEF vars, NothingFreed
<1>3. CASE \E t \in Threads : Steps(t)
  BY <1>1, <1>3 DEF NothingFreed
<1> QED
  BY <1>2, <1>3, StepsOf

LEMMA NothingFreedInit ==
  ASSUME Init
  PROVE  NothingFreed
<1>1. DOMAIN structs = {} /\ DOMAIN events = {}
  BY DEF Init
<1>2. \A t \in Threads : pc[t] = "idle"
  BY DEF Init
<1>3. \A u \in Users : u \in Threads
  BY RoleFacts
<1> QED
  BY <1>1, <1>2, <1>3 DEF NothingFreed, Freeing

\* Until a file falls off the list, two handles on the same file share one
\* structure: open_lock and the hash let no second one be allocated.
THEOREM HandlesShareStructs == Spec => []OneStructPerFile
<1>1. Init => TableInv /\ NothingFreed
  BY TableInit, NothingFreedInit
<1>2. TableInv /\ NothingFreed /\ [Next]_vars => TableInv' /\ NothingFreed'
  BY TableStep, NothingFreedStep DEF TableInv
<1>3. TableInv /\ NothingFreed => OneStructPerFile
  <2>1. SUFFICES ASSUME TableInv, NothingFreed, ~evicted, NEW g \in open, NEW h \in open,
                        structs[files[g]].name = structs[files[h]].name
                 PROVE  files[g] = files[h]
    BY DEF OneStructPerFile
  <2>2. files[g] \in DOMAIN structs /\ files[h] \in DOMAIN structs
    BY <2>1, TypeFacts DEF TableInv, ControlInv, HandlesPrivate, TypeOK
  <2>3. /\ file_hash[structs[files[g]].name] = files[g]
        /\ file_hash[structs[files[h]].name] = files[h]
    BY <2>1, <2>2 DEF NothingFreed
  <2> QED
    BY <2>1, <2>3
<1> QED
  BY <1>1, <1>2, <1>3, PTL DEF Spec
-----------------------------------------------------------------------------
\* What a step does to the members of the list.
LEMMA MembersStep ==
  ASSUME TypeOK, ControlInv, ListSizeExact, NEW t \in Threads, Steps(t), ~PushFull(t)
  PROVE  LET s == loc[t].s
         IN  /\ Unlist(t) => ToSet(recently_closed') = ToSet(recently_closed) \ {s}
             /\ Push(t) => ToSet(recently_closed') = ToSet(recently_closed) \cup {s}
             /\ ~Unlist(t) /\ ~Push(t) => recently_closed' = recently_closed
<1> DEFINE s == loc[t].s
<1>a. /\ recently_closed \in Seq(DOMAIN structs) /\ Len(recently_closed) \in Nat
      /\ DOMAIN recently_closed = 1 .. Len(recently_closed)
  BY DEF TypeOK
<1>b. pc[t] \notin {"idle", "lookup", "alloc"} => s \in DOMAIN structs
  BY DEF ControlInv, ThreadsHaveStructs
<1>c. \A i, j \in 1 .. Len(recently_closed) : recently_closed[i] = recently_closed[j] => i = j
  BY <1>a, StepsRun DEF ListSizeExact, IsInjective
<1>1. ASSUME Unlist(t)
      PROVE  ToSet(recently_closed') = ToSet(recently_closed) \ {s}
  <2>1. PICK i \in DOMAIN recently_closed :
          recently_closed[i] = s /\ recently_closed' = RemoveAt(recently_closed, i)
    BY <1>1 DEF Unlist
  <2>2. /\ recently_closed' \in Seq(DOMAIN structs)
        /\ Len(recently_closed') = Len(recently_closed) - 1
        /\ \A j \in 1 .. Len(recently_closed) - 1 : recently_closed'[j] =
             IF j < i THEN recently_closed[j] ELSE recently_closed[j + 1]
    BY <1>a, <2>1, RemoveAtFacts
  <2>3. DOMAIN recently_closed' = 1 .. Len(recently_closed) - 1
    BY <1>a, <2>2
  <2> HIDE DEF s
  <2>4. ASSUME NEW x \in ToSet(recently_closed')
        PROVE  x \in ToSet(recently_closed) /\ x # s
    <3>1. PICK j \in 1 .. Len(recently_closed) - 1 : x = recently_closed'[j]
      BY <2>3 DEF ToSet
    <3>2. PICK k \in 1 .. Len(recently_closed) : k # i /\ x = recently_closed[k]
      <4>1. CASE j < i
        <5>1. j \in 1 .. Len(recently_closed) /\ j # i /\ x = recently_closed[j]
          BY <1>a, <2>2, <3>1, <4>1
        <5> QED BY <5>1
      <4>2. CASE ~(j < i)
        <5>1. j + 1 \in 1 .. Len(recently_closed) /\ j + 1 # i /\ x = recently_closed[j + 1]
          BY <1>a, <2>2, <3>1, <4>2
        <5> QED BY <5>1
      <4> QED BY <4>1, <4>2
    <3> QED
      BY <1>a, <1>c, <2>1, <3>2 DEF ToSet
  <2>5. ASSUME NEW x \in ToSet(recently_closed), x # s
        PROVE  x \in ToSet(recently_closed')
    <3>1. PICK k \in 1 .. Len(recently_closed) : x = recently_closed[k]
      BY <1>a DEF ToSet
    <3>2. k # i
      BY <2>1, <2>5, <3>1
    <3>3. CASE k < i
      <4>1. k \in 1 .. Len(recently_closed) - 1 /\ recently_closed'[k] = x
        BY <1>a, <2>2, <3>1, <3>3
      <4> QED
        BY <2>3, <4>1 DEF ToSet
    <3>4. CASE k > i
      <4>1. k - 1 \in 1 .. Len(recently_closed) - 1 /\ (k - 1) + 1 = k /\ ~(k - 1 < i)
        BY <1>a, <3>1, <3>4
      <4>2. recently_closed'[k - 1] = x
        BY <2>2, <3>1, <4>1
      <4> QED
        BY <2>3, <4>1, <4>2 DEF ToSet
    <3> QED
      BY <1>a, <3>2, <3>3, <3>4
  <2> QED
    BY <2>4, <2>5
<1>2. ASSUME Push(t)
      PROVE  ToSet(recently_closed') = ToSet(recently_closed) \cup {s}
  <2>1. s \in DOMAIN structs
    BY <1>2, <1>b DEF Push, At
  <2>2. /\ recently_closed' \in Seq(DOMAIN structs)
        /\ Len(recently_closed') = Len(recently_closed) + 1 /\ recently_closed'[1] = s
        /\ \A j \in 1 .. Len(recently_closed) : recently_closed'[j + 1] = recently_closed[j]
    BY <1>a, <1>2, <2>1, FrontFacts DEF Push
  <2>3. DOMAIN recently_closed' = 1 .. Len(recently_closed) + 1
    BY <1>a, <2>2
  <2> HIDE DEF s
  <2>4. ASSUME NEW x \in ToSet(recently_closed')
        PROVE  x \in ToSet(recently_closed) \cup {s}
    <3>1. PICK j \in 1 .. Len(recently_closed) + 1 : x = recently_closed'[j]
      BY <2>3 DEF ToSet
    <3>2. CASE j = 1
      BY <2>2, <3>1, <3>2
    <3>3. CASE j # 1
      <4>1. j - 1 \in 1 .. Len(recently_closed) /\ (j - 1) + 1 = j
        BY <1>a, <3>1, <3>3
      <4>2. x = recently_closed[j - 1]
        BY <2>2, <3>1, <4>1
      <4> QED
        BY <1>a, <4>1, <4>2 DEF ToSet
    <3> QED
      BY <3>2, <3>3
  <2>5. ASSUME NEW x \in ToSet(recently_closed)
        PROVE  x \in ToSet(recently_closed')
    <3>1. PICK k \in 1 .. Len(recently_closed) : x = recently_closed[k]
      BY <1>a DEF ToSet
    <3>2. k + 1 \in DOMAIN recently_closed' /\ recently_closed'[k + 1] = x
      BY <1>a, <2>2, <2>3, <3>1
    <3> QED
      BY <3>2 DEF ToSet
  <2>6. s \in ToSet(recently_closed')
    <3>1. 1 \in DOMAIN recently_closed'
      BY <1>a, <2>3
    <3> QED
      BY <2>2, <3>1 DEF ToSet
  <2> QED
    BY <2>4, <2>5, <2>6
<1>3. ~Unlist(t) /\ ~Push(t) => recently_closed' = recently_closed
  BY ListKept DEF rcVars
<1> QED
  BY <1>1, <1>2, <1>3

\* Which steps reach and leave the labels on the way into and out of the list.
LEMMA LabelSteps ==
  ASSUME TypeOK, ControlInv, NEW t \in Threads, Steps(t), crashed' = "no"
  PROVE  /\ pc'[t] = "unlist" => t \in Users /\ Revive(t) /\ Stays(t, "unlist")
         /\ pc[t] = "unlist" => t \in Users /\ Unlist(t)
         /\ pc[t] = "ref" => t \in Users /\ OpenRef(t)
         /\ pc[t] = "insert" => InsertCheck(t) /\ Stays(t, "push")
         /\ pc[t] = "push" => Push(t) \/ PushFull(t)
<1>0. ~RuinList(t) /\ ~UseFreed(t)
  BY UnrefMoves
<1>1. ASSUME t \in Users, \/ (\E n \in Names : StartOpen(t, n)) \/ OpenWithoutHandle(t)
                          \/ (\E h \in Handles : StartClose(t, h) \/ StartWrite(t, h))
      PROVE  pc[t] = "idle" /\ pc'[t] # "unlist"
  <2>1. pc[t] = "idle"
    BY <1>1 DEF StartOpen, OpenWithoutHandle, StartClose, StartWrite, Call, At
  <2> QED
    BY <1>1, <2>1, StartMoves DEF Moved
<1>2. ASSUME t \in Users, OpenLookup(t) \/ OpenAllocFails(t) \/ OpenSucceeds(t) \/ OpenFails(t)
                          \/ WriteCount(t) \/ WriteAppend(t)
                          \/ \E dirty \in BOOLEAN : OpenAlloc(t, dirty)
      PROVE  pc[t] \in {"lookup", "alloc", "opened", "count", "append"} /\ pc'[t] # "unlist"
  BY <1>2, OpenMoves, UseMoves DEF Moved, Stays, Ends
<1>3. ASSUME t \in Users, Revive(t)
      PROVE  pc[t] = "revive" /\ Stays(t, "unlist")
  BY <1>3, OpenMoves
<1>4. ASSUME t \in Users, Unlist(t)
      PROVE  pc[t] = "unlist" /\ pc'[t] # "unlist"
  BY <1>4, OpenMoves DEF Moved, Stays
<1>5. ASSUME t \in Users, OpenRef(t)
      PROVE  pc[t] = "ref" /\ pc'[t] # "unlist"
  BY <1>5, UseMoves DEF Moved, Stays
<1>6. ASSUME InsertCheck(t)
      PROVE  pc[t] = "insert" /\ Stays(t, "push") /\ pc'[t] # "unlist"
  <2>1. pc' # pc
    <3>1. ASSUME pc' = pc
          PROVE  FALSE
      <4>1. pc[t] = "insert" /\ Goto(t, "push")
        BY <1>6 DEF InsertCheck, At
      <4>2. pc'[t] = "push"
        BY <4>1, TypeFacts DEF Goto
      <4> QED
        BY <3>1, <4>1, <4>2
    <3> QED
      BY <3>1
  <2> QED
    BY <1>6, <2>1, UnrefMoves DEF Moved, Stays
<1>7. ASSUME Unref(t) \/ Dealloc(t)
      PROVE  pc[t] \in {"unref", "dealloc"} /\ pc'[t] # "unlist"
  BY <1>7, UnrefMoves DEF Moved, Stays, Ends
<1>8. ASSUME Push(t) \/ PushFull(t)
      PROVE  pc[t] = "push" /\ pc'[t] # "unlist"
  BY <1>8, UnrefMoves DEF Moved, Ends
<1>9. ASSUME t = Callback, CallbackStep
      PROVE  pc[t] \in {"idle"} \cup Freeing /\ pc'[t] # "unlist"
  <2>1. pc[t] \in {"idle"} \cup Freeing
    BY <1>9 DEF CallbackStep, AckWrite, AckCheckpoint, NextEvent, Finish, HashDelete, Free, At,
                Freeing
  <2> QED
    BY <1>9, <2>1, CallbackMoves DEF CallbackStep, Moved, Stays, Ends, Freeing
<1> QED
  BY <1>0, <1>1, <1>2, <1>3, <1>4, <1>5, <1>6, <1>7, <1>8, <1>9 DEF Steps, UserStep, UnrefStep,
     Freeing

\* The step changes no flag.
LEMMA FlagsKept ==
  ASSUME TypeOK, ControlInv, CountersExact, NothingFreed, NEW t \in Threads, Steps(t), ~evicted',
         ~(t \in Users /\ \E dirty \in BOOLEAN : OpenAlloc(t, dirty)),
         ~(t \in Users /\ Revive(t)), ~Push(t)
  PROVE  /\ DOMAIN structs' = DOMAIN structs
         /\ \A x \in DOMAIN structs : structs'[x].recently_closed = structs[x].recently_closed
<1>1. ~PushFull(t) /\ ~evicted
  BY NotYetEvicted
<1>2. ~Free
  BY <1>1, RoleFacts DEF NothingFreed, Free, At, Freeing
<1>3. t \notin Users => ~Revive(t) /\ ~\E dirty \in BOOLEAN : OpenAlloc(t, dirty)
  <2>1. t \notin Users => t = Callback
    BY DEF Threads
  <2> QED
    BY <2>1 DEF Revive, OpenAlloc, At, ControlInv, ThreadsHaveStructs, Unusing, Freeing
<1>4. CASE Unref(t)
  BY <1>4, FlagSteps
<1>5. CASE ~Unref(t)
  <2>1. Faces
    BY <1>1, <1>2, <1>3, <1>5, PlainSteps
  <2> QED
    BY <2>1 DEF Faces, Face
<1> QED
  BY <1>4, <1>5

LEMMA ListInvStep ==
  ASSUME TypeOK, ControlInv, CountersExact, ListSizeExact, NothingFreed, ListInv, [Next]_vars
  PROVE  ListInv'
<1>1. ASSUME NEW t \in Threads, Steps(t), crashed' = "no", ~evicted', NEW x \in DOMAIN structs'
      PROVE  /\ structs'[x].recently_closed => x \in ToSet(recently_closed')
             /\ x \in ToSet(recently_closed') =>
                  \/ structs'[x].recently_closed
                  \/ \E u \in Users : pc'[u] = "unlist" /\ loc'[u].s = x
             /\ \A u \in Users : pc'[u] = "unlist" /\ loc'[u].s = x =>
                  ~structs'[x].recently_closed /\ x \in ToSet(recently_closed')
  <2>a. \A y \in DOMAIN structs :
          /\ structs[y].recently_closed => y \in ToSet(recently_closed)
          /\ y \in ToSet(recently_closed) =>
               \/ structs[y].recently_closed
               \/ \E u \in Users : pc[u] = "unlist" /\ loc[u].s = y
          /\ \A u \in Users : pc[u] = "unlist" /\ loc[u].s = y =>
               ~structs[y].recently_closed /\ y \in ToSet(recently_closed)
    <3>1. crashed = "no" /\ ~evicted
      BY <1>1, StepsRun, NotYetEvicted
    <3> QED
      BY <3>1 DEF ListInv
  <2>b. /\ \A v \in Threads : v # t => pc'[v] = pc[v] /\ loc'[v] = loc[v]
        /\ \A u \in Users : u \in Threads
    BY <1>1, OthersStay, RoleFacts
  <2>c. ~PushFull(t)
    BY <1>1, NotYetEvicted
  <2>d. \A y \in ToSet(recently_closed) : y \in DOMAIN structs
    BY DEF TypeOK, ToSet
  <2>1. CASE t \in Users /\ \E dirty \in BOOLEAN : OpenAlloc(t, dirty)
    <3>1. PICK dirty \in BOOLEAN : OpenAlloc(t, dirty)
      BY <2>1
    <3> DEFINE n == Len(structs) + 1
    <3>2. /\ DOMAIN structs' = DOMAIN structs \cup {n} /\ n \notin DOMAIN structs
          /\ structs'[n] = NewStruct(loc[t].name, dirty)
          /\ \A y \in DOMAIN structs : structs'[y] = structs[y]
      BY <2>1, <3>1, AllocEdits
    <3>3. pc[t] = "alloc" /\ pc'[t] = "ref" /\ recently_closed' = recently_closed
      BY <2>1, <3>1, OpenMoves DEF Moved, OpenAlloc, rcVars
    <3>4. ~structs'[n].recently_closed
      BY <3>2 DEF NewStruct
    <3>5. \A u \in Users : pc'[u] = "unlist" => pc[u] = "unlist" /\ loc'[u] = loc[u]
                                                /\ loc[u].s \in DOMAIN structs
      BY <2>b, <3>3 DEF ControlInv, ThreadsHaveStructs
    <3>6. \A u \in Users : pc[u] = "unlist" => pc'[u] = "unlist" /\ loc'[u] = loc[u]
      BY <2>b, <3>3
    <3> HIDE DEF n
    <3>7. CASE x = n
      BY <2>d, <3>2, <3>3, <3>4, <3>5, <3>7
    <3>8. CASE x \in DOMAIN structs
      BY <2>a, <3>2, <3>3, <3>5, <3>6, <3>8
    <3> QED
      BY <1>1, <3>2, <3>7, <3>8
  <2>2. CASE t \in Users /\ Revive(t)
    <3> DEFINE s == loc[t].s
    <3>1. /\ s \in DOMAIN structs /\ DOMAIN structs' = DOMAIN structs
          /\ structs[s].recently_closed /\ ~structs'[s].recently_closed
          /\ \A y \in DOMAIN structs : y # s => structs'[y] = structs[y]
      BY <1>1, <2>2, FlagSteps
    <3>2. pc[t] = "revive" /\ pc'[t] = "unlist" /\ loc'[t].s = s
      BY <1>1, <2>2, OpenMoves DEF Moved, Stays
    <3>3. recently_closed' = recently_closed
      BY <2>2 DEF Revive, rcVars
    <3>4. \A u \in Users : u # t => pc[u] # "unlist" /\ pc'[u] # "unlist"
      BY <2>b, <2>2, <3>2 DEF ControlInv, OpenLocked, UnderOpenLock
    <3> HIDE DEF s
    <3> QED
      BY <1>1, <2>a, <2>2, <3>1, <3>2, <3>3, <3>4
  <2>3. CASE t \in Users /\ Unlist(t)
    <3> DEFINE s == loc[t].s
    <3>1. ToSet(recently_closed') = ToSet(recently_closed) \ {s}
      BY <1>1, <2>c, <2>3, MembersStep
    <3>2. structs' = structs
      BY <2>3 DEF Unlist
    <3>3. pc[t] = "unlist" /\ pc'[t] = "ref"
      BY <2>3, OpenMoves DEF Moved, Stays
    <3>4. \A u \in Users : u # t => pc[u] # "unlist" /\ pc'[u] # "unlist"
      BY <2>b, <2>3, <3>3 DEF ControlInv, OpenLocked, UnderOpenLock
    <3> QED
      BY <1>1, <2>a, <2>3, <3>1, <3>2, <3>3, <3>4
  <2>4. CASE Push(t)
    <3> DEFINE s == loc[t].s
    <3>1. /\ s \in DOMAIN structs /\ DOMAIN structs' = DOMAIN structs
          /\ structs'[s].recently_closed
          /\ \A y \in DOMAIN structs : y # s => structs'[y] = structs[y]
      BY <1>1, <2>4, FlagSteps
    <3>2. pc[t] = "push" /\ pc'[t] = "idle"
      BY <2>4, UnrefMoves DEF Moved, Ends
    <3>3. ToSet(recently_closed') = ToSet(recently_closed) \cup {s}
      BY <1>1, <2>c, <2>4, MembersStep
    <3>4. s \notin ToSet(recently_closed)
      BY <2>4 DEF Push
    <3>5. \A u \in Users : /\ pc'[u] = "unlist" => pc[u] = "unlist" /\ loc'[u] = loc[u]
                           /\ pc[u] = "unlist" => pc'[u] = "unlist" /\ loc'[u] = loc[u]
      BY <2>b, <3>2
    <3> HIDE DEF s
    <3> QED
      BY <1>1, <2>a, <3>1, <3>3, <3>4, <3>5
  <2>5. CASE /\ ~(t \in Users /\ \E dirty \in BOOLEAN : OpenAlloc(t, dirty))
             /\ ~(t \in Users /\ Revive(t)) /\ ~(t \in Users /\ Unlist(t)) /\ ~Push(t)
    <3>1. /\ DOMAIN structs' = DOMAIN structs
          /\ \A y \in DOMAIN structs : structs'[y].recently_closed = structs[y].recently_closed
      BY <1>1, <2>5, FlagsKept
    <3>2. ~Unlist(t)
      <4>1. t \notin Users => t = Callback
        BY DEF Threads
      <4> QED
        BY <2>5, <4>1 DEF Unlist, At, ControlInv, ThreadsHaveStructs, Unusing, Freeing
    <3>3. recently_closed' = recently_closed
      BY <1>1, <2>c, <2>5, <3>2, MembersStep
    <3>4. pc[t] # "unlist" /\ pc'[t] # "unlist"
      BY <1>1, <2>5, LabelSteps
    <3>5. \A u \in Users : /\ pc'[u] = "unlist" => pc[u] = "unlist" /\ loc'[u] = loc[u]
                           /\ pc[u] = "unlist" => pc'[u] = "unlist" /\ loc'[u] = loc[u]
      BY <2>b, <3>4
    <3> QED
      BY <1>1, <2>a, <3>1, <3>3, <3>5
  <2> QED
    BY <2>1, <2>2, <2>3, <2>4, <2>5
<1>2. CASE UNCHANGED vars
  BY <1>2 DEF vars, ListInv, ToSet
<1>3. CASE \E t \in Threads : Steps(t)
  BY <1>1, <1>3 DEF ListInv
<1> QED
  BY <1>2, <1>3, StepsOf

LEMMA UnusedStep ==
  ASSUME TypeOK, ControlInv, CountersExact, ListSizeExact, NothingFreed, UnusedInv, [Next]_vars
  PROVE  UnusedInv'
<1> DEFINE Coming == {"ref", "insert", "push"}
<1>1. ASSUME NEW t \in Threads, Steps(t), crashed' = "no", ~evicted', NEW x \in DOMAIN structs',
             structs'[x].ref_count = 0, x \notin ToSet(recently_closed')
      PROVE  \E v \in Threads : pc'[v] \in Coming /\ loc'[v].s = x
  <2>a. \A y \in DOMAIN structs : structs[y].ref_count = 0 =>
          \/ y \in ToSet(recently_closed)
          \/ \E v \in Threads : pc[v] \in Coming /\ loc[v].s = y
    <3>1. crashed = "no" /\ ~evicted
      BY <1>1, StepsRun, NotYetEvicted
    <3> QED
      BY <3>1 DEF UnusedInv
  <2>b. \A v \in Threads : v # t => pc'[v] = pc[v] /\ loc'[v] = loc[v]
    BY <1>1, OthersStay
  <2>c. ~PushFull(t)
    BY <1>1, NotYetEvicted
  <2>u. t \notin Users => /\ ~Revive(t) /\ ~Unlist(t)
                          /\ ~\E dirty \in BOOLEAN : OpenAlloc(t, dirty)
    <3>1. t \notin Users => t = Callback
      BY DEF Threads
    <3> QED
      BY <3>1 DEF Revive, Unlist, OpenAlloc, At, ControlInv, ThreadsHaveStructs, Unusing, Freeing
  <2>1. CASE t \in Users /\ \E dirty \in BOOLEAN : OpenAlloc(t, dirty)
    <3>1. PICK dirty \in BOOLEAN : OpenAlloc(t, dirty)
      BY <2>1
    <3> DEFINE n == Len(structs) + 1
    <3>2. /\ DOMAIN structs' = DOMAIN structs \cup {n}
          /\ \A y \in DOMAIN structs : structs'[y] = structs[y]
      BY <2>1, <3>1, AllocEdits
    <3>3. pc[t] = "alloc" /\ pc'[t] = "ref" /\ loc'[t].s = n /\ recently_closed' = recently_closed
      BY <2>1, <3>1, OpenMoves DEF Moved, OpenAlloc, rcVars
    <3> HIDE DEF n
    <3> QED
      BY <1>1, <2>a, <2>b, <3>2, <3>3
  <2>2. CASE t \in Users /\ Revive(t)
    <3>1. DOMAIN structs' = DOMAIN structs
          /\ \A y \in DOMAIN structs : structs'[y].ref_count = structs[y].ref_count
      BY <1>1, <2>2, FlagSteps DEF Alike
    <3>2. pc[t] = "revive" /\ recently_closed' = recently_closed
      BY <2>2, OpenMoves DEF Revive, rcVars
    <3> QED
      BY <1>1, <2>a, <2>b, <3>1, <3>2
  <2>3. CASE t \in Users /\ Unlist(t)
    <3>1. ToSet(recently_closed') = ToSet(recently_closed) \ {loc[t].s}
      BY <1>1, <2>c, <2>3, MembersStep
    <3>2. structs' = structs
      BY <2>3 DEF Unlist
    <3>3. pc[t] = "unlist" /\ pc'[t] = "ref" /\ loc'[t].s = loc[t].s
      BY <2>3, OpenMoves DEF Moved, Stays
    <3> QED
      BY <1>1, <2>a, <2>b, <3>1, <3>2, <3>3
  <2>4. CASE Push(t)
    <3>1. /\ loc[t].s \in DOMAIN structs /\ DOMAIN structs' = DOMAIN structs
          /\ \A y \in DOMAIN structs : y # loc[t].s => structs'[y] = structs[y]
      BY <1>1, <2>4, FlagSteps
    <3>2. ToSet(recently_closed') = ToSet(recently_closed) \cup {loc[t].s}
      BY <1>1, <2>c, <2>4, MembersStep
    <3> QED
      BY <1>1, <2>a, <2>b, <3>1, <3>2
  <2>5. CASE Unref(t)
    <3>1. /\ loc[t].s \in DOMAIN structs /\ DOMAIN structs' = DOMAIN structs
          /\ structs'[loc[t].s].ref_count = 0 => structs[loc[t].s].ref_count = 1
          /\ \A y \in DOMAIN structs : y # loc[t].s => structs'[y] = structs[y]
      BY <1>1, <2>5, FlagSteps
    <3>2. /\ pc[t] = "unref"
          /\ structs[loc[t].s].ref_count = 1 => pc'[t] = "insert" /\ loc'[t].s = loc[t].s
      BY <2>5, UnrefMoves DEF Moved, Stays
    <3>3. recently_closed' = recently_closed
      BY <2>5 DEF Unref, rcVars
    <3> QED
      BY <1>1, <2>a, <2>b, <3>1, <3>2, <3>3
  <2>6. CASE /\ ~(\E dirty \in BOOLEAN : OpenAlloc(t, dirty))
             /\ ~Revive(t) /\ ~Unlist(t) /\ ~Push(t) /\ ~Unref(t)
    <3>1. ~Free
      <4>1. ~evicted
        BY <1>1, NotYetEvicted
      <4> QED
        BY <4>1, RoleFacts DEF NothingFreed, Free, At, Freeing
    <3>2. /\ DOMAIN structs' = DOMAIN structs
          /\ \A y \in DOMAIN structs : structs'[y].ref_count = 0 => structs[y].ref_count = 0
      BY <1>1, <2>c, <2>6, <3>1, PlainSteps DEF Faces, Face
    <3>3. recently_closed' = recently_closed
      BY <1>1, <2>c, <2>6, MembersStep
    <3>4. PICK v \in Threads : pc[v] \in Coming /\ loc[v].s = x
      BY <1>1, <2>a, <3>2, <3>3
    <3>5. CASE v # t
      BY <2>b, <3>4, <3>5
    <3>6. CASE v = t
      <4>1. pc[t] # "push"
        BY <1>1, <2>c, <2>6, LabelSteps
      <4>2. CASE pc[t] = "insert"
        <5>1. pc'[t] = "push" /\ loc'[t].s = loc[t].s
          BY <1>1, <4>2, LabelSteps DEF Stays, Moved
        <5> QED
          BY <3>4, <3>6, <5>1
      <4>3. CASE pc[t] = "ref"
        <5> DEFINE s == loc[t].s
                   q == [structs[s] EXCEPT !.ref_count = structs[s].ref_count + 1]
        <5>1. Edited(s, q)
          BY <1>1, <4>3, LabelSteps, UserEdits
        <5>2. structs[s] \in Structs
          BY <5>1, TypeFacts DEF Edited
        <5>3. q.ref_count # 0
          BY <5>2 DEF Structs
        <5> HIDE DEF q, s
        <5>4. structs'[s] = q
          BY <5>1, GrownByEdit
        <5>5. x = s
          BY <3>4, <3>6 DEF s
        <5> QED
          BY <1>1, <5>3, <5>4, <5>5
      <4> QED
        BY <3>4, <3>6, <4>1, <4>2, <4>3
    <3> QED
      BY <3>5, <3>6
  <2> QED
    BY <2>u, <2>1, <2>2, <2>3, <2>4, <2>5, <2>6
<1>2. CASE UNCHANGED vars
  BY <1>2 DEF vars, UnusedInv, ToSet
<1>3. CASE \E t \in Threads : Steps(t)
  BY <1>1, <1>3 DEF UnusedInv
<1> QED
  BY <1>2, <1>3, StepsOf

ClosedInv == TableInv /\ ListSizeExact /\ NothingFreed /\ ListInv /\ UnusedInv

LEMMA ClosedInit == Init => ClosedInv
<1>1. ASSUME Init
      PROVE  ListSizeExact /\ ListInv /\ UnusedInv
  <2>1. recently_closed = << >> /\ recently_closed_size = 0 /\ DOMAIN structs = {}
    BY <1>1 DEF Init
  <2>2. Len(<< >>) = 0 /\ 0 <= RC_CAP /\ IsInjective(<< >>)
    BY FileTableAssumption DEF IsInjective
  <2> QED
    BY <2>1, <2>2 DEF ListSizeExact, ListInv, UnusedInv
<1> QED
  BY <1>1, TableInit, NothingFreedInit DEF ClosedInv

LEMMA ClosedStep == ClosedInv /\ [Next]_vars => ClosedInv'
BY TableStep, ListSizeStep, NothingFreedStep, ListInvStep, UnusedStep DEF ClosedInv, TableInv

\* Until a file falls off the list, the flag of a file tells whether it is on
\* the list, except while _recently_closed_revive takes it off.
THEOREM FlagsFollowList == Spec => []FlagsMatchList
<1>1. ClosedInv => FlagsMatchList
  BY DEF ClosedInv, ListInv, FlagsMatchList, Alive
<1> QED
  BY <1>1, ClosedInit, ClosedStep, PTL DEF Spec

\* Until a file falls off the list, a file that nobody uses once all is quiet
\* is on the list.
THEOREM UnusedStayListed == Spec => []UnusedFilesListed
<1>1. ClosedInv => UnusedFilesListed
  BY DEF ClosedInv, UnusedInv, UnusedFilesListed, Quiet, Alive
<1> QED
  BY <1>1, ClosedInit, ClosedStep, PTL DEF Spec
=============================================================================
