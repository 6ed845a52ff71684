---------------------------- MODULE AbstractFile ----------------------------
(***************************************************************************)
(* What a file promises.  Its user sees the current version of it; when    *)
(* the client dies the file falls back to the last version that was safe.  *)
(* Once the file is harmed nothing is promised.                            *)
(***************************************************************************)
EXTENDS Integers, Sequences

CONSTANTS
    Bytes,        \* byte positions
    Data,         \* what can be written to a byte
    Perms         \* permissions

VARIABLES
    unsafe,       \* the number of changes that are not safe yet
    before,       \* the versions that were current before each of them
    now,          \* the current version
    intact        \* has nothing harmed the file?

vars == <<unsafe, before, now, intact>>

Missing == [type |-> "new", size |-> 0, perm |-> {}, bytes |-> [b \in {} |-> 0]]

Init == unsafe = 0 /\ before = << >> /\ now = Missing /\ intact = TRUE

\* What may follow a version: the file is created; bytes of it, or past its end, are
\* written, and a gap that this leaves reads as zeros; it is cut or filled up with
\* zeros; it gets other permissions; a record of its own changes nothing.
Byte(v, b) == IF b < v.size THEN v.bytes[b] ELSE 0

Created(old, new) ==
    /\ old.type = "new"
    /\ \E p \in Perms : new = [type |-> "file", size |-> 0, perm |-> p, bytes |-> Missing.bytes]

Written(old, new) ==
    /\ new.size >= old.size /\ new.perm = old.perm
    /\ \E x \in Data :
           /\ \A b \in DOMAIN new.bytes : new.bytes[b] \in {x, Byte(old, b)}
           /\ new.size > old.size => new.bytes[new.size - 1] = x

Truncated(old, new) ==
    new.perm = old.perm /\ \A b \in DOMAIN new.bytes : new.bytes[b] = Byte(old, b)

Permitted(old, new) == \E p \in Perms : new = [old EXCEPT !.perm = p]

\* The version changes, and what was current is safe no sooner than it was.
Change ==
    LET old == now
        new == now'
    IN  /\ unsafe' = unsafe + 1
        /\ \/ Created(old, new)
           \/ /\ old.type = "file" /\ new.type = "file"
              /\ Written(old, new) \/ Truncated(old, new) \/ Permitted(old, new)
        /\ before' = Append(before, old)
        /\ UNCHANGED intact

\* The next version is safe.
Settle ==
    /\ unsafe > 0 /\ unsafe' = unsafe - 1
    /\ before' = Tail(before)
    /\ UNCHANGED <<now, intact>>

\* The client dies: the changes that are not safe are lost.
Crash ==
    /\ unsafe > 0 /\ unsafe' = 0
    /\ now' = Head(before) /\ before' = << >>
    /\ UNCHANGED intact

Harm == intact' = FALSE

Next == Harm \/ Settle \/ Crash \/ Change

Spec == Init /\ [][Next]_vars
=============================================================================
