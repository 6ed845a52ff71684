--------------------------- MODULE DirectoryCrash ---------------------------
(***************************************************************************)
(* Directories whose client may die.  Every write of a file is an append   *)
(* the GDP acknowledges later, and each log has its own: a crash leaves    *)
(* every file as some prefix of its log, whatever the prefixes of others.  *)
(***************************************************************************)
EXTENDS Directory

CONSTANTS
    MaxUnsaved,     \* bound: appends, to all logs, without an acknowledgement
    MaxCalls        \* bound: operations the kernel asks for

ASSUME CrashAssumption ==
    IsFiniteSet(Files) /\ MaxUnsaved \in Nat \ {0} /\ MaxCalls \in Nat

VARIABLES
    saved,      \* file -> what the acknowledged records of its log say it is
    unsaved,    \* file -> what it was after each record not acknowledged yet
    kept,       \* history: files that were reachable in the logs and that have
                \* lost no name since but by a rename that gave them another
    calls,      \* how many operations the kernel has asked for
    split       \* history: has a rename cleared the old name before the new one
                \* was safe?

logs == <<saved, unsaved>>
allVars == <<vars, logs, calls, kept, split>>

InitLogs ==
    /\ Init
    /\ saved = view
    /\ unsaved = [f \in Files |-> << >>]
    /\ calls = 0 /\ kept = {Root} /\ split = FALSE

\* The appends without an acknowledgement, by log and place.
UnsavedIn(pending) == UNION {{f} \X DOMAIN pending[f] : f \in Files}

TypeOKLogs ==
    /\ TypeOK
    /\ DOMAIN saved = Files /\ DOMAIN unsaved = Files
    /\ Cardinality(UnsavedIn(unsaved)) <= MaxUnsaved
    /\ calls \in 0 .. MaxCalls /\ kept \subseteq Files /\ split \in BOOLEAN

\* The files that a directory names, and those that can be reached from the root.
ChildrenIn(slots) == {slots[i].gname : i \in {j \in DOMAIN slots : slots[j].in_use}}
Children(files) == [f \in Files |-> ChildrenIn(files[f].slots)]
Reachable(children) ==
    {f \in Files : \A found \in SUBSET Files :
        Root \in found /\ (\A d \in found : children[d] \subseteq found) => f \in found}

\* The files a directory names whichever prefix of its log a crash leaves.
Lasting(before, after, now) ==
    [f \in Files |-> {g \in ChildrenIn(before[f].slots) \cap ChildrenIn(now[f].slots) :
                         \A i \in DOMAIN after[f] : g \in ChildrenIn(after[f][i].slots)}]
-----------------------------------------------------------------------------
\* The log a step begins a file with: a fresh one, that no log names.
Made == {call'[t].file : t \in {u \in Threads : /\ call[u].pc = "entry" /\ call'[u].pc = "add"
                                               /\ call[u].op \in {"create", "mkdir"}}}
InNoLog(f) ==
    \A d \in Files : /\ f \notin ChildrenIn(saved[d].slots)
                     /\ \A i \in DOMAIN unsaved[d] : f \notin ChildrenIn(unsaved[d][i].slots)

\* do_write appends what it writes, and does not wait (gdp_gcl_append_async).
Appends ==
    /\ \A f \in Made : InNoLog(f)
    /\ saved' = [f \in Files |-> IF f \in Made THEN Blank ELSE saved[f]]
    /\ unsaved' = [f \in Files |-> IF f \in Made THEN <<view'[f]>>
                                   ELSE IF view'[f] = view[f] THEN unsaved[f]
                                   ELSE Append(unsaved[f], view'[f])]
    /\ Cardinality(UnsavedIn(unsaved')) <= MaxUnsaved

ClearsOldName(t) == call[t].op = "rename" /\ call[t].pc = "clear"

\* The new name is not safe while another directory has appends under way, nor when
\* its path leads through the entry that is about to be cleared, or to it: a crash or
\* a rename that failed has left a directory with two names, and the rename is from
\* below one of them to below the other.
NewNameUnsafe(c) ==
    \/ \E d \in Files \ {c.dir} : unsaved[d] # << >>
    \/ \E k \in DOMAIN c.q : /\ Resolve(SubSeq(c.q, 1, k - 1)) = c.dir
                            /\ c.q[k] = Last(c.p)

Operate ==
    \E t \in Threads :
        /\ Step(t)
        /\ Appends
        /\ calls' = calls + (IF call[t].pc = "idle" THEN 1 ELSE 0) /\ calls' <= MaxCalls
        /\ kept' = IF call[t].op = "rename" /\ call[t].pc # "add" THEN kept
                   ELSE kept \ UNION {Children(view)[d] \ Children(view')[d] : d \in Files}
        /\ split' = (split \/ (ClearsOldName(t) /\ NewNameUnsafe(call[t])))

\* The GDP takes the next record of a log (external).
Acknowledge ==
    \E f \in Files :
        /\ unsaved[f] # << >>
        /\ saved' = [saved EXCEPT ![f] = Head(unsaved[f])]
        /\ unsaved' = [unsaved EXCEPT ![f] = Tail(@)]
        /\ kept' = kept \cup Reachable(Lasting(saved', unsaved', view))
        /\ UNCHANGED <<vars, calls, split>>

\* The client dies and is started again: the logs are all there is.
Crash ==
    /\ view' = saved
    /\ unsaved' = [f \in Files |-> << >>]
    /\ call' = [t \in Threads |-> Idle]
    /\ open_fhs' = 0 /\ leaked' = 0 /\ down' = FALSE /\ unseen' = FALSE
    /\ sure' = [t \in Threads |-> FALSE]
    /\ owed' = [t \in Threads |-> {}] /\ listed' = [t \in Threads |-> {}]
    /\ UNCHANGED <<saved, calls, kept, split>>

NextLogs == Operate \/ Acknowledge \/ Crash

SpecLogs == InitLogs /\ [][NextLogs]_allVars
-----------------------------------------------------------------------------
\* A file whose name had reached the logs, and that nobody removed, can still be
\* reached from the root, whenever the client dies (gdpfs_rename writes the new name
\* before it clears the old one) - until a rename clears the old name before the
\* new one is safe: the code waits for no acknowledgement, and does not see that two
\* paths are one entry.
SavedFilesSurvive == split \/ kept \subseteq Reachable(Children(view))

\* Whatever a crash has left of the logs, the operations that follow it go on as
\* the tree of names allows.
OperationsKeepNamespace == [][UNCHANGED N!vars \/ Crash \/ N!Next]_allVars
=============================================================================
