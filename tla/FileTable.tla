------------------------------ MODULE FileTable ------------------------------
(***************************************************************************)
(* The life cycle of file structures in gdpfs_file.c: file handles, the    *)
(* hash of files in memory, reference counts, the list of recently closed  *)
(* files, and the checkpoint whose callback frees a structure.  Threads of *)
(* FUSE open, write and close; one thread runs the callbacks of the GDP.   *)
(*                                                                         *)
(* A structure is a number; structs[s].alive is FALSE once it is freed.    *)
(* crashed records a failed EP_ASSERT or an access to a freed structure,   *)
(* after which nothing happens: what memory then holds is not modelled.    *)
(***************************************************************************)
EXTENDS Integers, Sequences, FiniteSets, SequencesExt

CONSTANTS
    Names,          \* log names of the files
    Users,          \* threads that serve FUSE requests
    Callback,       \* the thread that runs GDP callbacks
    None,           \* the owner of a free lock, no name
    MAX_FHS,        \* file handles are 0 .. MAX_FHS - 1
    RC_CAP,         \* length of the recently closed list
    MaxCalls,       \* bound: calls of open, write and close
    MaxStructs      \* bound: structures allocated

ASSUME FileTableAssumption ==
    /\ MAX_FHS \in Nat /\ MAX_FHS >= 1 /\ RC_CAP \in Nat /\ RC_CAP >= 1
    /\ IsFiniteSet(Users)
    /\ MaxCalls \in Nat /\ MaxStructs \in Nat
    /\ Callback \notin Users /\ None \notin Users \cup {Callback}

VARIABLES
    fhs,              \* the handle bitmap: handles reserved
    open,             \* handles returned by an open and not yet released
    files,            \* handle -> structure
    file_hash,        \* name -> structure, 0 if it has none
    structs,          \* the structures allocated so far
    recently_closed, recently_closed_size,
    open_lock,
    events,           \* callbacks the GDP has yet to make, in order
    pc, loc,          \* control point and locals of each thread
    calls,
    crashed,
    evicted           \* history: has a file fallen off the list?

vars == <<fhs, open, files, file_hash, structs, recently_closed, recently_closed_size,
          open_lock, events, pc, loc, calls, crashed, evicted>>

rcVars == <<recently_closed, recently_closed_size, evicted>>
handleVars == <<fhs, open, files>>

Threads == Users \cup {Callback}
Handles == 0 .. MAX_FHS - 1

Structs == [name : Names, ref_count : Nat, outstanding_reqs : Nat, index_flush_reqs : Nat,
            recently_closed : BOOLEAN, dirty : BOOLEAN, alive : BOOLEAN]

\* dirty: does the index hold anything that no checkpoint of the log holds?
NewStruct(n, dirty) ==
    [name |-> n, ref_count |-> 0, outstanding_reqs |-> 0, index_flush_reqs |-> 0,
     recently_closed |-> FALSE, dirty |-> dirty, alive |-> TRUE]

NoLocals == [fh |-> 0, s |-> 0, name |-> None]

Labels == {"idle", "lookup", "alloc", "revive", "unlist", "ref", "opened", "count", "append",
           "unref", "insert", "push", "dealloc", "finish", "delete", "free"}

TypeOK ==
    /\ fhs \subseteq Handles /\ open \subseteq fhs
    /\ structs \in Seq(Structs)
    /\ files \in [Handles -> 0 .. Len(structs)]
    /\ file_hash \in [Names -> 0 .. Len(structs)]
    /\ recently_closed \in Seq(DOMAIN structs)
    /\ recently_closed_size \in Int
    /\ open_lock \in Users \cup {None}
    /\ events \in Seq([kind : {"data", "ckpt"}, s : DOMAIN structs])
    /\ pc \in [Threads -> Labels]
    /\ loc \in [Threads -> [fh : Handles, s : 0 .. Len(structs), name : Names \cup {None}]]
    /\ calls \in 0 .. MaxCalls
    /\ crashed \in {"no", "insert", "revive", "list", "freed"}
    /\ evicted \in BOOLEAN

Init ==
    /\ fhs = {} /\ open = {} /\ files = [h \in Handles |-> 0]
    /\ file_hash = [n \in Names |-> 0]
    /\ structs = << >>
    /\ recently_closed = << >> /\ recently_closed_size = 0
    /\ open_lock = None
    /\ events = << >>
    /\ pc = [t \in Threads |-> "idle"]
    /\ loc = [t \in Threads |-> NoLocals]
    /\ calls = 0
    /\ crashed = "no"
    /\ evicted = FALSE
-----------------------------------------------------------------------------
At(t, label) == crashed = "no" /\ pc[t] = label
Goto(t, label) == pc' = [pc EXCEPT ![t] = label]
\* A step that leaves the locals alone, or ends the call.
Step(t, label) ==
    /\ Goto(t, label)
    /\ loc' = IF label = "idle" THEN [loc EXCEPT ![t] = NoLocals] ELSE loc
My(t) == structs[loc[t].s]
SetMy(t, struct) == structs' = [structs EXCEPT ![loc[t].s] = struct]
Live(t) == My(t).alive

\* Slips in this code that some property below catches: the hash searched without
\* open_lock; a revival that does not count, or leaves the flag set; an open that
\* gives its handle back; a write that keeps no reference of its own; a
\* callback that drops the last reference and lists nothing.
LookupUnlocked(u) ==
    LET s == file_hash[loc[u].name]
    IN  /\ At(u, "lookup")
        /\ loc' = [loc EXCEPT ![u].s = s]
        /\ Goto(u, IF s = 0 THEN "alloc"
                   ELSE IF structs[s].recently_closed THEN "revive" ELSE "ref")
        /\ UNCHANGED <<handleVars, file_hash, structs, rcVars, open_lock, events, calls, crashed>>

UnlistKeepsSize(u) ==
    /\ At(u, "unlist") /\ Live(u)
    /\ \E i \in DOMAIN recently_closed :
         recently_closed[i] = loc[u].s /\ recently_closed' = RemoveAt(recently_closed, i)
    /\ Step(u, "ref")
    /\ UNCHANGED <<handleVars, file_hash, structs, recently_closed_size, open_lock, events,
                   calls, crashed, evicted>>

ReviveKeepsFlag(u) ==
    /\ At(u, "revive") /\ Live(u)
    /\ My(u).recently_closed
    /\ Goto(u, "unlist")
    /\ UNCHANGED <<handleVars, file_hash, structs, rcVars, open_lock, events, loc, calls, crashed>>

ReleaseWrongHandle(u) ==
    /\ At(u, "opened") /\ Live(u)
    /\ open' = open \cup {loc[u].fh}
    /\ fhs' = fhs \ {loc[u].fh}
    /\ Step(u, "idle")
    /\ UNCHANGED <<files, file_hash, structs, rcVars, open_lock, events, calls, crashed>>

AppendUnreferenced(u) ==
    /\ At(u, "count") /\ Live(u)
    /\ structs' = [structs EXCEPT ![loc[u].s].outstanding_reqs = @ + 1,
                                  ![loc[u].s].ref_count = @ - 1]
    /\ Step(u, "append")
    /\ UNCHANGED <<handleVars, file_hash, rcVars, open_lock, events, calls, crashed>>

UnrefNeverLists(t) ==
    /\ At(t, "unref") /\ Live(t)
    /\ SetMy(t, [My(t) EXCEPT !.ref_count = @ - 1])
    /\ Step(t, IF My(t).ref_count = 1 /\ t # Callback THEN "insert" ELSE "idle")
    /\ UNCHANGED <<handleVars, file_hash, rcVars, open_lock, events, calls, crashed>>

Call(u) == At(u, "idle") /\ calls < MaxCalls /\ calls' = calls + 1

\* bitmap_reserve: the lowest free handle.
FirstFree == CHOOSE h \in Handles \ fhs : \A g \in Handles \ fhs : h <= g

\* open_file reserves a handle; with none left it fails at once.
StartOpen(u, n) ==
    /\ Call(u)
    /\ fhs # Handles
    /\ fhs' = fhs \cup {FirstFree}
    /\ loc' = [loc EXCEPT ![u].fh = FirstFree, ![u].name = n]
    /\ Goto(u, "lookup")
    /\ UNCHANGED <<open, files, file_hash, structs, rcVars, open_lock, events, crashed>>

OpenWithoutHandle(u) ==
    /\ Call(u)
    /\ fhs = Handles
    /\ UNCHANGED <<handleVars, file_hash, structs, rcVars, open_lock, events, pc, loc, crashed>>

\* open_lock is taken and the hash searched.
OpenLookup(u) ==
    LET s == file_hash[loc[u].name]
    IN  /\ At(u, "lookup")
        /\ open_lock = None
        /\ open_lock' = u
        /\ loc' = [loc EXCEPT ![u].s = s]
        /\ Goto(u, IF s = 0 THEN "alloc"
                   ELSE IF structs[s].recently_closed THEN "revive" ELSE "ref")
        /\ UNCHANGED <<handleVars, file_hash, structs, rcVars, events, calls, crashed>>

\* A new structure; it enters the hash last.  The index loaded from the log is
\* clean if the log ends with a checkpoint.
OpenAlloc(u, dirty) ==
    /\ At(u, "alloc")
    /\ Len(structs) < MaxStructs
    /\ structs' = Append(structs, NewStruct(loc[u].name, dirty))
    /\ file_hash' = [file_hash EXCEPT ![loc[u].name] = Len(structs) + 1]
    /\ loc' = [loc EXCEPT ![u].s = Len(structs) + 1]
    /\ Goto(u, "ref")
    /\ UNCHANGED <<handleVars, rcVars, open_lock, events, calls, crashed>>

\* gdpfs_log_open or a local open fails: the handle is released.
OpenAllocFails(u) ==
    /\ At(u, "alloc")
    /\ fhs' = fhs \ {loc[u].fh}
    /\ open_lock' = None
    /\ Step(u, "idle")
    /\ UNCHANGED <<open, files, file_hash, structs, rcVars, events, calls, crashed>>

\* _recently_closed_revive clears the flag before it takes rc_lock ...
Revive(u) ==
    /\ At(u, "revive") /\ Live(u)
    /\ IF My(u).recently_closed
       THEN /\ SetMy(u, [My(u) EXCEPT !.recently_closed = FALSE])
            /\ Goto(u, "unlist")
            /\ UNCHANGED crashed
       ELSE /\ crashed' = "revive"
            /\ UNCHANGED <<structs, pc>>
    /\ UNCHANGED <<handleVars, file_hash, rcVars, open_lock, events, loc, calls>>

\* ... and takes the file off the list under it.
Unlist(u) ==
    /\ At(u, "unlist") /\ Live(u)
    /\ \E i \in DOMAIN recently_closed :
         recently_closed[i] = loc[u].s /\ recently_closed' = RemoveAt(recently_closed, i)
    /\ recently_closed_size' = recently_closed_size - 1
    /\ Step(u, "ref")
    /\ UNCHANGED <<handleVars, file_hash, structs, open_lock, events, calls, crashed, evicted>>

OpenRef(u) ==
    /\ At(u, "ref") /\ Live(u)
    /\ SetMy(u, [My(u) EXCEPT !.ref_count = @ + 1])
    /\ files' = [files EXCEPT ![loc[u].fh] = loc[u].s]
    /\ open_lock' = None
    /\ Step(u, "opened")
    /\ UNCHANGED <<fhs, open, file_hash, rcVars, events, calls, crashed>>

\* The type check and the index load that follow succeed, or the file is
\* closed again (fail2).
OpenSucceeds(u) ==
    /\ At(u, "opened") /\ Live(u)
    /\ open' = open \cup {loc[u].fh}
    /\ Step(u, "idle")
    /\ UNCHANGED <<fhs, files, file_hash, structs, rcVars, open_lock, events, calls, crashed>>

OpenFails(u) ==
    /\ At(u, "opened") /\ Live(u)
    /\ fhs' = fhs \ {loc[u].fh}
    /\ Step(u, "unref")
    /\ UNCHANGED <<open, files, file_hash, structs, rcVars, open_lock, events, calls, crashed>>
-----------------------------------------------------------------------------
\* FUSE neither releases a handle twice nor while a request on it runs.
Busy(h) == \E u \in Users : pc[u] \in {"count", "append"} /\ loc[u].fh = h

\* gdpfs_file_close: the handle is released, then the reference dropped.
StartClose(u, h) ==
    /\ Call(u)
    /\ h \in open /\ ~Busy(h)
    /\ open' = open \ {h}
    /\ fhs' = fhs \ {h}
    /\ loc' = [loc EXCEPT ![u].fh = h, ![u].s = files[h]]
    /\ Goto(u, "unref")
    /\ UNCHANGED <<files, file_hash, structs, rcVars, open_lock, events, crashed>>

\* do_write: a reference for the callback, the request counted, the append.
StartWrite(u, h) ==
    /\ Call(u)
    /\ h \in open
    /\ structs[files[h]].alive
    /\ loc' = [loc EXCEPT ![u].fh = h, ![u].s = files[h]]
    /\ structs' = [structs EXCEPT ![files[h]].ref_count = @ + 1]
    /\ Goto(u, "count")
    /\ UNCHANGED <<handleVars, file_hash, rcVars, open_lock, events, crashed>>

WriteCount(u) ==
    /\ At(u, "count") /\ Live(u)
    /\ SetMy(u, [My(u) EXCEPT !.outstanding_reqs = @ + 1])
    /\ Step(u, "append")
    /\ UNCHANGED <<handleVars, file_hash, rcVars, open_lock, events, calls, crashed>>

WriteAppend(u) ==
    /\ At(u, "append") /\ Live(u)
    /\ SetMy(u, [My(u) EXCEPT !.dirty = TRUE])
    /\ events' = Append(events, [kind |-> "data", s |-> loc[u].s])
    /\ Step(u, "idle")
    /\ UNCHANGED <<handleVars, file_hash, rcVars, open_lock, calls, crashed>>
-----------------------------------------------------------------------------
\* _file_unref, then with no lock held _recently_closed_insert if it was the
\* last reference.
Unref(t) ==
    /\ At(t, "unref") /\ Live(t)
    /\ SetMy(t, [My(t) EXCEPT !.ref_count = @ - 1])
    /\ Step(t, IF My(t).ref_count = 1 THEN "insert" ELSE "idle")
    /\ UNCHANGED <<handleVars, file_hash, rcVars, open_lock, events, calls, crashed>>

\* EP_ASSERT(!file->recently_closed), before rc_lock is taken.
InsertCheck(t) ==
    /\ At(t, "insert") /\ Live(t)
    /\ IF My(t).recently_closed
       THEN crashed' = "insert" /\ UNCHANGED pc
       ELSE Goto(t, "push") /\ UNCHANGED crashed
    /\ UNCHANGED <<handleVars, file_hash, structs, rcVars, open_lock, events, loc, calls>>

\* Under rc_lock the file goes to the front of the list.
Push(t) ==
    /\ At(t, "push") /\ Live(t)
    /\ loc[t].s \notin ToSet(recently_closed)
    /\ recently_closed_size # RC_CAP
    /\ recently_closed' = <<loc[t].s>> \o recently_closed
    /\ recently_closed_size' = recently_closed_size + 1
    /\ SetMy(t, [My(t) EXCEPT !.recently_closed = TRUE])
    /\ Step(t, "idle")
    /\ UNCHANGED <<handleVars, file_hash, open_lock, events, calls, crashed, evicted>>

\* If the list is full the oldest file leaves it, to be deallocated.
PushFull(t) ==
    LET pushed == <<loc[t].s>> \o recently_closed
    IN  /\ At(t, "push") /\ Live(t)
        /\ loc[t].s \notin ToSet(recently_closed)
        /\ recently_closed_size = RC_CAP
        /\ evicted' = TRUE
        /\ recently_closed' = Front(pushed)
        /\ structs' = [structs EXCEPT ![loc[t].s].recently_closed = TRUE,
                                      ![Last(pushed)].recently_closed = FALSE]
        /\ loc' = [loc EXCEPT ![t].s = Last(pushed)]
        /\ Goto(t, "dealloc")
        /\ UNCHANGED <<handleVars, file_hash, recently_closed_size, open_lock, events,
                       calls, crashed>>

\* Pushing an element that is on the list already, or removing one that is not,
\* ruins the links of the list.
RuinList(t) ==
    /\ \/ At(t, "push") /\ Live(t) /\ loc[t].s \in ToSet(recently_closed)
       \/ At(t, "unlist") /\ Live(t) /\ loc[t].s \notin ToSet(recently_closed)
    /\ crashed' = "list"
    /\ UNCHANGED <<handleVars, file_hash, structs, rcVars, open_lock, events, pc, loc, calls>>

\* _file_dealloc waits until no append is outstanding, then checkpoints the
\* index if it has changed; only the callback of that append frees anything.
Dealloc(t) ==
    /\ At(t, "dealloc") /\ Live(t)
    /\ My(t).outstanding_reqs = 0
    /\ IF My(t).dirty
       THEN /\ SetMy(t, [My(t) EXCEPT !.dirty = FALSE, !.index_flush_reqs = @ + 1])
            /\ events' = Append(events, [kind |-> "ckpt", s |-> loc[t].s])
       ELSE UNCHANGED <<structs, events>>
    /\ Step(t, "idle")
    /\ UNCHANGED <<handleVars, file_hash, rcVars, open_lock, calls, crashed>>
-----------------------------------------------------------------------------
NextEvent(kind) == At(Callback, "idle") /\ events # << >> /\ Head(events).kind = kind

\* free_fileref: the request is over, then the reference is dropped.
AckWrite ==
    LET s == Head(events).s
    IN  /\ NextEvent("data")
        /\ structs[s].alive
        /\ structs' = [structs EXCEPT ![s].outstanding_reqs = @ - 1]
        /\ events' = Tail(events)
        /\ loc' = [loc EXCEPT ![Callback].s = s]
        /\ Goto(Callback, "unref")
        /\ UNCHANGED <<handleVars, file_hash, rcVars, open_lock, calls, crashed>>

\* _file_chkpt_finish: the last checkpoint under way may free the file ...
AckCheckpoint ==
    LET s == Head(events).s
    IN  /\ NextEvent("ckpt")
        /\ structs[s].alive
        /\ structs' = [structs EXCEPT ![s].index_flush_reqs = @ - 1]
        /\ events' = Tail(events)
        /\ IF structs[s].index_flush_reqs = 1
           THEN loc' = [loc EXCEPT ![Callback].s = s] /\ Goto(Callback, "finish")
           ELSE UNCHANGED <<loc, pc>>
        /\ UNCHANGED <<handleVars, file_hash, rcVars, open_lock, calls, crashed>>

\* ... if, under all three locks, nobody uses it.
MayFree(s) == structs[s].ref_count = 0 /\ ~structs[s].recently_closed

Finish ==
    /\ At(Callback, "finish") /\ Live(Callback)
    /\ open_lock = None
    /\ Step(Callback, IF MayFree(loc[Callback].s) THEN "delete" ELSE "idle")
    /\ UNCHANGED <<handleVars, file_hash, structs, rcVars, open_lock, events, calls, crashed>>

\* The locks are dropped before the file leaves the hash and is freed.
HashDelete ==
    /\ At(Callback, "delete") /\ Live(Callback)
    /\ file_hash' = [file_hash EXCEPT ![My(Callback).name] = 0]
    /\ Step(Callback, "free")
    /\ UNCHANGED <<handleVars, structs, rcVars, open_lock, events, calls, crashed>>

Free ==
    /\ At(Callback, "free") /\ Live(Callback)
    /\ SetMy(Callback, [My(Callback) EXCEPT !.alive = FALSE])
    /\ Step(Callback, "idle")
    /\ UNCHANGED <<handleVars, file_hash, rcVars, open_lock, events, calls, crashed>>

\* A thread goes on with a pointer to a structure that has been freed.
UseFreed(t) ==
    /\ crashed = "no"
    /\ \/ pc[t] \notin {"idle", "lookup", "alloc"} /\ ~Live(t)
       \/ t \in Users /\ pc[t] = "idle" /\ calls < MaxCalls
          /\ \E h \in open : ~structs[files[h]].alive
       \/ t = Callback /\ pc[t] = "idle" /\ events # << >> /\ ~structs[Head(events).s].alive
    /\ crashed' = "freed"
    /\ UNCHANGED <<handleVars, file_hash, structs, rcVars, open_lock, events, pc, loc, calls>>

\* Nothing left to do, or the process is gone.
Stopped ==
    /\ crashed # "no" \/ (events = << >> /\ \A t \in Threads : pc[t] = "idle")
    /\ UNCHANGED vars

UserStep(u) ==
    \/ OpenLookup(u) \/ OpenAllocFails(u) \/ Revive(u) \/ Unlist(u)
    \/ \E dirty \in BOOLEAN : OpenAlloc(u, dirty)
    \/ OpenRef(u) \/ OpenSucceeds(u) \/ OpenFails(u) \/ WriteCount(u) \/ WriteAppend(u)
UnrefStep(t) ==
    \/ Unref(t) \/ InsertCheck(t) \/ Push(t) \/ PushFull(t) \/ Dealloc(t)
    \/ RuinList(t) \/ UseFreed(t)
CallbackStep == AckWrite \/ AckCheckpoint \/ Finish \/ HashDelete \/ Free

Next ==
    \/ \E u \in Users :
         \/ \E n \in Names : StartOpen(u, n)
         \/ OpenWithoutHandle(u)
         \/ \E h \in Handles : StartClose(u, h) \/ StartWrite(u, h)
         \/ UserStep(u)
    \/ \E t \in Threads : UnrefStep(t)
    \/ CallbackStep
    \/ Stopped

Spec == Init /\ [][Next]_vars

\* A thread that can run runs, and the GDP answers every append.
Fairness ==
    /\ \A u \in Users : WF_vars(UserStep(u) \/ UnrefStep(u))
    /\ WF_vars(CallbackStep \/ UnrefStep(Callback))

FairSpec == Spec /\ Fairness
-----------------------------------------------------------------------------
Alive == {s \in DOMAIN structs : structs[s].alive}
Quiet == crashed = "no" /\ events = << >> /\ \A t \in Threads : pc[t] = "idle"

Holding(s, labels) == Cardinality({t \in Threads : pc[t] \in labels /\ loc[t].s = s})
Events(s, kind) == Cardinality({i \in DOMAIN events : events[i] = [kind |-> kind, s |-> s]})

\* The three counters of a structure count exactly its users: handles and calls
\* that hold a reference, appends not yet acknowledged, checkpoints under way.
CountersExact ==
    \A s \in Alive :
        /\ structs[s].ref_count =
             Cardinality({h \in open : files[h] = s})
               + Holding(s, {"opened", "count", "append", "unref"}) + Events(s, "data")
        /\ structs[s].outstanding_reqs = Holding(s, {"append"}) + Events(s, "data")
        /\ structs[s].index_flush_reqs = Events(s, "ckpt")

\* Until a file falls off the list, two handles on the same file share one
\* structure: a second one would give the file a second index and a second idea
\* of its last record.
OneStructPerFile ==
    ~evicted => \A g, h \in open :
        structs[files[g]].name = structs[files[h]].name => files[g] = files[h]

\* Until an assertion fails or the list is ruined, recently_closed_size is the
\* length of the list, stays within the bounds the code asserts and no file is
\* listed twice, whatever evictions and revivals overlap.
ListSizeExact ==
    crashed = "no" =>
        /\ recently_closed_size = Len(recently_closed)
        /\ recently_closed_size <= RC_CAP
        /\ IsInjective(recently_closed)

\* Until a file falls off the list, the flag of a file tells whether it is on the list,
\* except for the file a revive is just taking off it.
FlagsMatchList ==
    crashed = "no" /\ ~evicted =>
        \A s \in Alive :
            /\ structs[s].recently_closed => s \in ToSet(recently_closed)
            /\ s \in ToSet(recently_closed) =>
                 \/ structs[s].recently_closed
                 \/ \E u \in Users : pc[u] = "unlist" /\ loc[u].s = s

\* When nothing is under way, a file that nobody uses is on the list, so that it
\* will be deallocated when it reaches the end of it; until one does.
UnusedFilesListed ==
    Quiet /\ ~evicted => \A s \in Alive :
        structs[s].ref_count = 0 => s \in ToSet(recently_closed)

\* A structure that somebody references is never freed.
ReferencedNotFreed ==
    \A s \in DOMAIN structs : structs[s].ref_count > 0 => structs[s].alive

\* A file that fell off the list is eventually checkpointed, which is what leads
\* to its being freed: the thread that evicts it does not wait for ever.
EvictionsFinish ==
    \A t \in Threads : pc[t] = "dealloc" ~> (pc[t] # "dealloc" \/ crashed # "no")
=============================================================================
