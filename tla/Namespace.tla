------------------------------ MODULE Namespace ------------------------------
(***************************************************************************)
(* What the directories promise: a tree of names.  A file has a type from  *)
(* the moment it is created; a directory maps names to files.  One step    *)
(* changes one name of one directory, so an operation that needs two names *)
(* (rename) takes two steps, and between them the file has both names.     *)
(***************************************************************************)
CONSTANTS
    Files,        \* the names of logs, one log per file
    Root,         \* the log of the root directory
    Names         \* the names in directories

VARIABLES
    type,         \* "new" until the first record of the log is written
    entries       \* the files named in a directory

vars == <<type, entries>>

NoEntries == [n \in {} |-> Root]

Init ==
    /\ type = [f \in Files |-> IF f = Root THEN "dir" ELSE "new"]
    /\ entries = [f \in Files |-> NoEntries]

Named(f) == \E d \in Files : \E n \in DOMAIN entries[d] : entries[d][n] = f

\* May this file lose a name?  Not a directory with files in it, unless it
\* keeps another name.
Disposable(f, d, n) ==
    \/ type[f] # "dir"
    \/ DOMAIN entries[f] = {}
    \/ \E e \in Files : \E m \in DOMAIN entries[e] :
           <<e, m>> # <<d, n>> /\ entries[e][m] = f

\* A log that no directory names becomes a file or an empty directory.
Make(f, t) ==
    /\ f # Root /\ ~Named(f)
    /\ type' = [type EXCEPT ![f] = t]
    /\ entries' = [entries EXCEPT ![f] = NoEntries]

\* A file gets a name that was free, or takes it from a file of its own type.
Link(d, n, f) ==
    /\ type[d] = "dir" /\ type[f] # "new" /\ f # Root
    /\ n \in DOMAIN entries[d] =>
           /\ type[entries[d][n]] = type[f]
           /\ Disposable(entries[d][n], d, n)
    /\ entries' = [entries EXCEPT ![d] =
           [m \in DOMAIN @ \cup {n} |-> IF m = n THEN f ELSE @[m]]]
    /\ UNCHANGED type

\* A name goes.
Drop(d, n) ==
    /\ n \in DOMAIN entries[d]
    /\ Disposable(entries[d][n], d, n)
    /\ entries' = [entries EXCEPT ![d] = [m \in DOMAIN @ \ {n} |-> @[m]]]
    /\ UNCHANGED type

Step ==
    \/ \E f \in Files, t \in {"file", "dir"} : Make(f, t)
    \/ \E d \in Files, n \in Names, f \in Files : Link(d, n, f)
    \/ \E d \in Files, n \in Names : Drop(d, n)

\* Stuttering is left to the specification.
Next == vars' # vars /\ Step

Spec == Init /\ [][Next]_vars
=============================================================================
