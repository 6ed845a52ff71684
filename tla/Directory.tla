------------------------------ MODULE Directory ------------------------------
(***************************************************************************)
(* Directories (gdpfs_dir.c) and the FUSE operations on names (gdpfs.c).   *)
(* A directory is a file of slots, each with a name and the log it stands  *)
(* for; an unused slot is reused.  The code takes no lock: the operations  *)
(* of several FUSE threads meet at every read and write of a slot.  What   *)
(* keeps them apart is the kernel and libfuse, which are external here.    *)
(*                                                                         *)
(* A step is one call of the file layer, with the closes next to it.  A    *)
(* file is what a read of it returns: FileIO and FigTreeStore have how the *)
(* file layer makes it so.                                                 *)
(***************************************************************************)
EXTENDS Naturals, SequencesExt

CONSTANTS
    Files, Root, NoFile,   \* logs, by name; the root directory's; none
    Names, NoName,         \* names in directories; none
    Threads,               \* FUSE's worker threads
    Ops,                   \* thread -> the operations it is asked for
    Perms,                 \* permissions given by create, mkdir and chmod
    MaxDepth,              \* bound: names in a path
    MaxFhs,                \* MAX_FHS, the number of file handles
    Flaky                  \* can the GDP fail to open a log?

ASSUME DirectoryAssumption ==
    /\ Root \in Files /\ NoFile \notin Files /\ NoName \notin Names
    /\ IsFiniteSet(Threads) /\ Perms \subseteq SUBSET {"r", "w"}
    /\ MaxDepth \in Nat \ {0} /\ MaxFhs \in Nat /\ Flaky \in BOOLEAN

VARIABLES
    view,       \* file -> its type, permissions and, for a directory, slots
    call,       \* thread -> the operation it is in, with its locals
    open_fhs,   \* the number of reserved handles
    down,       \* has the program died of a null pointer?
    leaked,     \* history: handles that no operation will close
    unseen,     \* history: has a lookup of the kernel missed a file?
    sure,       \* history: thread -> has the name it scans for been there all along?
    owed,       \* history: thread -> names there since it opened the directory
    listed      \* history: thread -> names its readdir has returned

history == <<leaked, unseen, sure, owed, listed>>
vars == <<view, call, open_fhs, down, history>>
-----------------------------------------------------------------------------
\* Slots.  What an unused slot keeps of its last entry is never looked at.
Slot(n, f) == [in_use |-> TRUE, name |-> n, gname |-> f]
Unused == [in_use |-> FALSE, name |-> NoName, gname |-> NoFile]
Slots == [in_use : BOOLEAN, name : Names \cup {NoName}, gname : Files \cup {NoFile}]

Holds(slots, n) == \E i \in DOMAIN slots : slots[i].in_use /\ slots[i].name = n
NamesIn(slots) == {slots[i].name : i \in {j \in DOMAIN slots : slots[j].in_use}}

\* Slips in isempty: the end of the directory is taken for an empty one.
isemptyMutant(f) == TRUE

\* gdpfs_dir_isempty
isempty(f) == NamesIn(view[f].slots) = {}

Blank == [type |-> "new", perm |-> {}, slots |-> << >>]
File(type, perm) == [type |-> type, perm |-> perm, slots |-> << >>]

Paths == SeqOf(Names, MaxDepth)

\* The kernel's idea of a path: it has looked up (gdpfs_getattr) one name after
\* the other.  gdpfs_getattr also reports a file with no record as missing.
Child(f, n) ==
    IF f # NoFile /\ view[f].type = "dir" /\ Holds(view[f].slots, n)
    THEN LET i == CHOOSE j \in DOMAIN view[f].slots :
                      view[f].slots[j].in_use /\ view[f].slots[j].name = n
         IN  view[f].slots[i].gname
    ELSE NoFile
Resolve(path) ==
    LET walk[n \in 0 .. Len(path)] == IF n = 0 THEN Root ELSE Child(walk[n - 1], path[n])
    IN  walk[Len(path)]
TypeAt(path) == IF Resolve(path) = NoFile THEN "new" ELSE view[Resolve(path)].type
Exists(path) == TypeAt(path) # "new"
-----------------------------------------------------------------------------
\* The locals of an operation.  pc says what it does next:
\*   root    open the root to begin to walk along the path todo
\*   scan    read slot pos of dir, looking for the first name of todo
\*   enter   the name stands for ent: close dir, open ent
\*   opened  the walk is over, with a handle for dir, the file at the path
\*   entry   the walk is over, with a handle for the parent dir: the name is in
\*           slot at and stands for ent, or is missing (NoFile) and can go to at
\*   add     write an entry for file to slot at
\*   clear   write slot at as unused
\*   reopen  open the file that is there instead of creating one
\*   held    FUSE has the handle, until it releases it
\*   list    FUSE has the handle of a directory and reads it, at slot pos
Idle == [op |-> "none", p |-> << >>, q |-> << >>, pc |-> "idle", stage |-> 0,
         dir |-> NoFile, todo |-> << >>, pos |-> 0, free |-> 0, at |-> 0,
         ent |-> NoFile, file |-> NoFile]

Begin(op, p, q) == [Idle EXCEPT !.op = op, !.p = p, !.q = q, !.pc = "root",
                                !.stage = 1, !.todo = p]

Mutators == {"create", "mkdir", "unlink", "rmdir", "rename"}
Openers == {"open", "opendir", "getattr", "chmod", "truncate"}
ASSUME OpsAssumption == Ops \in [Threads -> SUBSET (Mutators \cup Openers)]

Labels == {"idle", "root", "scan", "enter", "opened", "entry", "add", "clear", "reopen",
           "held", "list"}
Calls == [op : Mutators \cup Openers \cup {"none"}, p : Seq(Names), q : Seq(Names),
          pc : Labels, stage : 0 .. 3, dir : Files \cup {NoFile}, todo : Seq(Names),
          pos : Nat, free : Nat, at : Nat, ent : Files \cup {NoFile}, file : Files \cup {NoFile}]

\* Does the walk end at the file (or at its parent)?
ToFile(c) == c.op \in Openers \/ (c.op = "rename" /\ c.stage = 1)

\* The type the code asks for when it opens the last file of a walk.
WantedType(c) ==
    CASE c.op \in {"open", "truncate", "create", "unlink"} -> "file"
      [] c.op \in {"opendir", "mkdir", "rmdir"} -> "dir"
      [] OTHER -> "any"

\* Handles an operation has at its program counter.
HandlesOf(c) ==
    CASE c.pc \in {"idle", "reopen"} -> 0
      [] c.pc = "root" -> IF c.op = "rename" /\ c.stage = 2 THEN 1 ELSE 0
      [] c.pc = "add" -> 2
      [] OTHER -> IF c.op = "rename" /\ c.stage = 2 THEN 2 ELSE 1

TypeOK ==
    /\ view \in [Files -> [type : {"new", "file", "dir"}, perm : SUBSET {"r", "w"},
                           slots : Seq(Slots)]]
    /\ call \in [Threads -> Calls]
    /\ open_fhs \in 0 .. MaxFhs /\ leaked \in 0 .. MaxFhs
    /\ down \in BOOLEAN /\ unseen \in BOOLEAN
    /\ sure \in [Threads -> BOOLEAN]
    /\ owed \in [Threads -> SUBSET Names] /\ listed \in [Threads -> SUBSET Names]

\* init_gdpfs_dir has given the root its type.
Init ==
    /\ view = [f \in Files |-> IF f = Root THEN File("dir", {"r"}) ELSE Blank]
    /\ call = [t \in Threads |-> Idle]
    /\ open_fhs = 0 /\ down = FALSE
    /\ leaked = 0 /\ unseen = FALSE
    /\ sure = [t \in Threads |-> FALSE]
    /\ owed = [t \in Threads |-> {}] /\ listed = [t \in Threads |-> {}]
-----------------------------------------------------------------------------
\* The kernel and libfuse.  The kernel holds the lock of a directory while a name
\* in it is created, removed or renamed, and that of a directory about to go;
\* libfuse lets no operation go through a name that is being removed or renamed.
Kept(c) == c.pc \in {"idle", "held", "list"}
DirLocks(op, p, q) ==
    IF op \notin Mutators THEN {}
    ELSE {Front(p)} \cup (IF op = "rmdir" THEN {p} ELSE {})
                    \cup (IF op = "rename" THEN {Front(q), q} ELSE {})
PathsOf(op, p, q) == IF op = "rename" THEN {p, q} ELSE {p}
PathLocks(op, p, q) == IF op \in {"unlink", "rmdir", "rename"} THEN PathsOf(op, p, q) ELSE {}
Through(locks, paths) == \E w \in locks, p \in paths : IsPrefix(w, p)
KernelAllows(op, p, q) ==
    \A u \in Threads :
        Kept(call[u]) \/
        (/\ DirLocks(op, p, q) \cap DirLocks(call[u].op, call[u].p, call[u].q) = {}
         /\ ~Through(PathLocks(op, p, q), PathsOf(call[u].op, call[u].p, call[u].q))
         /\ ~Through(PathLocks(call[u].op, call[u].p, call[u].q), PathsOf(op, p, q)))

\* A lookup fails when no file is there, and when the program cannot open it.
LookupFails(path) == ~Exists(path) \/ Flaky \/ open_fhs = MaxFhs

\* The kernel asks for an operation only on what it has found (or not found).
KernelSees(op, p, q) ==
    CASE op \in {"create", "mkdir"} -> TypeAt(Front(p)) = "dir" /\ LookupFails(p)
      [] op = "unlink" -> TypeAt(p) = "file"
      [] op = "rmdir" -> TypeAt(p) = "dir"
      [] op = "rename" ->
            /\ Exists(p) /\ TypeAt(Front(q)) = "dir"
            /\ ~IsPrefix(p, q) /\ ~IsPrefix(q, p)
            /\ LookupFails(q) \/ TypeAt(q) = TypeAt(p)
      [] OTHER -> TRUE

Does(t, pc) == ~down /\ call[t].pc = pc

Become(t, c) == call' = [call EXCEPT ![t] = c]

Start(t) ==
    /\ Does(t, "idle")
    /\ \E op \in Ops[t], p \in Paths :
       \E q \in IF op = "rename" THEN Paths \ {<< >>} ELSE {<< >>} :
          /\ p = << >> => op \in {"opendir", "getattr", "chmod"}
          /\ KernelAllows(op, p, q) /\ KernelSees(op, p, q)
          /\ Become(t, Begin(op, p, q))
          /\ unseen' = (unseen \/ (op \in {"create", "mkdir"} /\ Exists(p)))
    /\ UNCHANGED <<view, open_fhs, down, leaked, sure, owed, listed>>
-----------------------------------------------------------------------------
\* The operation returns; `left` of its handles stay open for good.
Return(t, fhs, left) ==
    /\ Become(t, Idle)
    /\ open_fhs' = fhs
    /\ leaked' = leaked + left

\* What open_file can answer to a request for a file of this type.
CanOpen(f, type) == open_fhs < MaxFhs /\ (type = "any" \/ view[f].type = type)
CannotOpen(f, type) == Flaky \/ ~CanOpen(f, type)

\* Begin to read dir for the first name of todo.
ToScan(c, dir, todo) ==
    [c EXCEPT !.pc = IF todo = << >> THEN "opened" ELSE "scan",
              !.dir = dir, !.todo = todo, !.pos = 1, !.free = 0, !.ent = NoFile]
NowScans(t, dir, todo) ==
    sure' = [sure EXCEPT ![t] = todo # << >> /\ Holds(view[dir].slots, Head(todo))]

OpenRoot(t) ==
    /\ Does(t, "root")
    /\ \/ /\ CanOpen(Root, "dir")
          /\ Become(t, ToScan(call[t], Root, call[t].todo))
          /\ NowScans(t, Root, call[t].todo)
          /\ open_fhs' = open_fhs + 1
          /\ UNCHANGED leaked
       \/ /\ CannotOpen(Root, "dir")
          /\ Return(t, open_fhs - HandlesOf(call[t]), 0)
          /\ UNCHANGED sure
    /\ UNCHANGED <<view, down, unseen, owed, listed>>

\* Is the name that is scanned for the one the operation is about?
AtEntry(c) == ~ToFile(c) /\ Len(c.todo) = 1

\* Slips in ScanSlot: the names are not compared.
ScanSlotAnyName(t) ==
    LET c == call[t]
        s == view[c.dir].slots[c.pos]
    IN  /\ Does(t, "scan") /\ c.pos <= Len(view[c.dir].slots)
        /\ Become(t, IF s.in_use
                     THEN [c EXCEPT !.pc = IF AtEntry(c) THEN "entry" ELSE "enter",
                                    !.ent = s.gname, !.at = c.pos]
                     ELSE [c EXCEPT !.pos = @ + 1, !.free = c.pos])
        /\ UNCHANGED <<view, open_fhs, down, history>>

\* _find_insert_offset reads a slot ...
ScanSlot(t) ==
    LET c == call[t]
        slots == view[c.dir].slots
        s == slots[c.pos]
        found == s.in_use /\ s.name = Head(c.todo)
    IN  /\ Does(t, "scan") /\ c.pos <= Len(slots)
        /\ Become(t, IF found
                     THEN [c EXCEPT !.pc = IF AtEntry(c) THEN "entry" ELSE "enter",
                                    !.ent = s.gname, !.at = c.pos]
                     ELSE [c EXCEPT !.pos = @ + 1,
                                    !.free = IF ~s.in_use /\ @ = 0 THEN c.pos ELSE @])
        /\ UNCHANGED <<view, open_fhs, down, history>>

\* Slips in ScanEnds: the directory is closed twice; it is not closed.
ScanEndsCloses(t, fhs) ==
    LET c == call[t]
    IN  /\ Does(t, "scan") /\ c.pos > Len(view[c.dir].slots)
        /\ IF AtEntry(c)
           THEN /\ Become(t, [c EXCEPT !.pc = "entry",
                                       !.at = IF c.free = 0 THEN c.pos ELSE c.free])
                /\ UNCHANGED <<open_fhs, leaked>>
           ELSE Return(t, open_fhs - fhs, 0)
        /\ UNCHANGED <<view, down, unseen, sure, owed, listed>>
ScanEndsClosesTwice(t) == ScanEndsCloses(t, 2)
ScanEndsClosesNone(t) == ScanEndsCloses(t, 0)

\* ... or finds the end of the directory.
ScanEnds(t) ==
    LET c == call[t]
    IN  /\ Does(t, "scan") /\ c.pos > Len(view[c.dir].slots)
        /\ IF AtEntry(c)
           THEN /\ Become(t, [c EXCEPT !.pc = "entry",
                                       !.at = IF c.free = 0 THEN c.pos ELSE c.free])
                /\ UNCHANGED <<open_fhs, leaked>>
           ELSE Return(t, open_fhs - HandlesOf(c), 0)
        /\ UNCHANGED <<view, down, unseen, sure, owed, listed>>

\* The walk closes the directory and opens what the name stands for; another thread
\* may take the last handle in between.
Enter(t) ==
    LET c == call[t]
        todo == Tail(c.todo)
        type == IF todo = << >> THEN WantedType(c) ELSE "dir"
    IN  /\ Does(t, "enter")
        /\ \/ /\ type \in {"any", view[c.ent].type}
              /\ Become(t, ToScan(c, c.ent, todo))
              /\ NowScans(t, c.ent, todo)
              /\ UNCHANGED <<open_fhs, leaked>>
           \/ /\ \/ Flaky \/ type \notin {"any", view[c.ent].type}
                 \/ open_fhs = MaxFhs /\ Threads # {t}
              /\ Return(t, open_fhs - HandlesOf(c), 0)
              /\ UNCHANGED sure
        /\ UNCHANGED <<view, down, unseen, owed, listed>>
-----------------------------------------------------------------------------
\* gdpfs_open, gdpfs_opendir: _check_open_flags wants the permissions asked for.
Opened(t) ==
    LET c == call[t]
    IN  /\ Does(t, "opened") /\ c.op \in {"open", "opendir"}
        /\ \E flags \in IF c.op = "open" THEN {{"r"}, {"w"}, {"r", "w"}} ELSE {{"r"}} :
               IF flags \subseteq view[c.dir].perm
               THEN /\ Become(t, [c EXCEPT !.pc = IF c.op = "open" THEN "held" ELSE "list",
                                           !.pos = 1])
                    /\ owed' = [owed EXCEPT ![t] = IF c.op = "open" THEN {}
                                                   ELSE NamesIn(view[c.dir].slots)]
                    /\ listed' = [listed EXCEPT ![t] = {}]
                    /\ UNCHANGED <<open_fhs, leaked>>
               ELSE Return(t, open_fhs - 1, 0) /\ UNCHANGED <<owed, listed>>
        /\ UNCHANGED <<view, down, unseen, sure>>

\* gdpfs_getattr, gdpfs_access, gdpfs_chmod, gdpfs_truncate: look at the file or
\* append a record to it, and close it.
Visit(t) ==
    LET c == call[t]
    IN  /\ Does(t, "opened") /\ c.op \in {"getattr", "chmod", "truncate"}
        /\ IF c.op = "chmod" THEN \E perm \in Perms : view' = [view EXCEPT ![c.dir].perm = perm]
                             ELSE UNCHANGED view
        /\ Return(t, open_fhs - 1, 0)
        /\ UNCHANGED <<down, unseen, sure, owed, listed>>

\* gdpfs_readdir reads from the offset after the last entry it returned and skips
\* unused slots (gdpfs_dir_read).
ReadDir(t) ==
    LET c == call[t]
        s == view[c.dir].slots[c.pos]
    IN  /\ Does(t, "list") /\ c.pos <= Len(view[c.dir].slots)
        /\ Become(t, [c EXCEPT !.pos = @ + 1])
        /\ listed' = IF s.in_use THEN [listed EXCEPT ![t] = @ \cup {s.name}] ELSE listed
        /\ UNCHANGED <<view, open_fhs, down, leaked, unseen, sure, owed>>

\* gdpfs_release, gdpfs_releasedir
Release(t) ==
    /\ Does(t, "held") \/ Does(t, "list")
    /\ Return(t, open_fhs - 1, 0)
    /\ owed' = [owed EXCEPT ![t] = {}] /\ listed' = [listed EXCEPT ![t] = {}]
    /\ UNCHANGED <<view, down, unseen, sure>>
-----------------------------------------------------------------------------
\* Slips in WriteSlot: a slot that goes is filled with the last entry.
WriteSlotMovesLast(d, i, s) ==
    LET old == view[d].slots
        put == [j \in 1 .. (IF i > Len(old) THEN i ELSE Len(old)) |->
                    IF j = i THEN s ELSE old[j]]
        new == IF s = Unused THEN [put EXCEPT ![i] = Last(old), ![Len(old)] = Unused]
                             ELSE put
    IN  /\ view' = [view EXCEPT ![d].slots = new]
        /\ sure' = [u \in Threads |->
                       /\ sure[u]
                       /\ call[u].pc = "scan" /\ call[u].dir = d
                              => Holds(new, Head(call[u].todo))]
        /\ owed' = [u \in Threads |-> IF call[u].dir = d THEN owed[u] \cap NamesIn(new)
                                      ELSE owed[u]]

\* A write of slot i of directory d, and what the other threads then still see.
WriteSlot(d, i, s) ==
    LET old == view[d].slots
        new == [j \in 1 .. (IF i > Len(old) THEN i ELSE Len(old)) |->
                    IF j = i THEN s ELSE old[j]]
    IN  /\ view' = [view EXCEPT ![d].slots = new]
        /\ sure' = [u \in Threads |->
                       /\ sure[u]
                       /\ call[u].pc = "scan" /\ call[u].dir = d
                              => Holds(new, Head(call[u].todo))]
        /\ owed' = [u \in Threads |-> IF call[u].dir = d THEN owed[u] \cap NamesIn(new)
                                      ELSE owed[u]]

\* gdpfs_dir_create_file_at_path finds the name taken.  It keeps the handle of the
\* directory.  gdpfs_create goes on to open the file that is there; gdpfs_mkdir has
\* given it a null pointer to copy the log's name to.
CreateFindsEntry(t) ==
    LET c == call[t]
    IN  /\ Does(t, "entry") /\ c.op \in {"create", "mkdir"} /\ c.ent # NoFile
        /\ Become(t, [c EXCEPT !.pc = "reopen"])
        /\ down' = (c.op = "mkdir")
        /\ leaked' = leaked + 1
        /\ UNCHANGED <<view, open_fhs, unseen, sure, owed, listed>>

Reopen(t) ==
    LET c == call[t]
    IN  /\ Does(t, "reopen")
        /\ \/ /\ CanOpen(c.ent, "file")
              /\ Become(t, [c EXCEPT !.pc = "held", !.dir = c.ent])
              /\ open_fhs' = open_fhs + 1
              /\ UNCHANGED leaked
           \/ /\ CannotOpen(c.ent, "file")
              /\ Return(t, open_fhs, 0)
        /\ UNCHANGED <<view, down, unseen, sure, owed, listed>>

\* A log that nothing refers to stands for the fresh one gdpfs_file_create gets.
Fresh(f) ==
    /\ f # Root
    /\ \A d \in Files : \A i \in DOMAIN view[d].slots : view[d].slots[i].gname # f
    /\ \A u \in Threads : f \notin {call[u].dir, call[u].ent, call[u].file}

\* The name is free: gdpfs_file_create.  When it fails the directory stays open.
CreateFile(t) ==
    LET c == call[t]
    IN  /\ Does(t, "entry") /\ c.op \in {"create", "mkdir"} /\ c.ent = NoFile
        /\ \/ \E f \in Files, perm \in Perms :
                  /\ Fresh(f) /\ open_fhs < MaxFhs
                  /\ view' = [view EXCEPT ![f] = File(WantedType(c), perm)]
                  /\ Become(t, [c EXCEPT !.pc = "add", !.file = f])
                  /\ open_fhs' = open_fhs + 1
                  /\ UNCHANGED leaked
           \/ /\ Flaky \/ open_fhs = MaxFhs
              /\ Return(t, open_fhs, 1)
              /\ UNCHANGED view
        /\ UNCHANGED <<down, unseen, sure, owed, listed>>

\* _add_at_offset, then the directory is closed.  gdpfs_create gives the handle of
\* the file to FUSE; gdpfs_mkdir forgets it.
CreateAdds(t) ==
    LET c == call[t]
    IN  /\ Does(t, "add") /\ c.op \in {"create", "mkdir"}
        /\ WriteSlot(c.dir, c.at, Slot(Last(c.p), c.file))
        /\ IF c.op = "create"
           THEN /\ Become(t, [c EXCEPT !.pc = "held", !.dir = c.file])
                /\ open_fhs' = open_fhs - 1
                /\ UNCHANGED leaked
           ELSE Return(t, open_fhs - 1, 1)
        /\ UNCHANGED <<down, unseen, listed>>
-----------------------------------------------------------------------------
\* gdpfs_dir_remove: open the file to check its type and that a directory is empty.
\* A missing name is no error.
RemoveChecks(t) ==
    LET c == call[t]
    IN  /\ Does(t, "entry") /\ c.op \in {"unlink", "rmdir"}
        /\ \/ /\ c.ent # NoFile /\ CanOpen(c.ent, WantedType(c))
              /\ c.op = "rmdir" => isempty(c.ent)
              /\ Become(t, [c EXCEPT !.pc = "clear"])
              /\ UNCHANGED <<open_fhs, leaked>>
           \/ /\ c.ent # NoFile => \/ CannotOpen(c.ent, WantedType(c))
                                   \/ c.op = "rmdir" /\ ~isempty(c.ent)
              /\ Return(t, open_fhs - 1, 0)
        /\ UNCHANGED <<view, down, unseen, sure, owed, listed>>

\* The second half of a rename removes the old name without looking at the file.
RenameFindsOld(t) ==
    LET c == call[t]
    IN  /\ Does(t, "entry") /\ c.op = "rename" /\ c.stage = 3
        /\ IF c.ent = NoFile
           THEN Return(t, open_fhs - 1, 0)
           ELSE Become(t, [c EXCEPT !.pc = "clear"]) /\ UNCHANGED <<open_fhs, leaked>>
        /\ UNCHANGED <<view, down, unseen, sure, owed, listed>>

RemoveClears(t) ==
    LET c == call[t]
    IN  /\ Does(t, "clear")
        /\ WriteSlot(c.dir, c.at, Unused)
        /\ Return(t, open_fhs - 1, 0)
        /\ UNCHANGED <<down, unseen, listed>>
-----------------------------------------------------------------------------
\* Slips in RenameOpened: the old name is cleared first.
RenameOpenedClears(t) ==
    LET c == call[t]
        d == Resolve(Front(c.p))
        i == CHOOSE j \in DOMAIN view[d].slots :
                 view[d].slots[j].in_use /\ view[d].slots[j].name = Last(c.p)
    IN  /\ Does(t, "opened") /\ c.op = "rename"
        /\ WriteSlot(d, i, Unused)
        /\ Become(t, [c EXCEPT !.pc = "root", !.stage = 2, !.todo = c.q, !.file = c.dir])
        /\ UNCHANGED <<open_fhs, down, leaked, unseen, listed>>

\* gdpfs_rename has the file open and goes to the parent of the new name.
RenameOpened(t) ==
    LET c == call[t]
    IN  /\ Does(t, "opened") /\ c.op = "rename"
        /\ Become(t, [c EXCEPT !.pc = "root", !.stage = 2, !.todo = c.q, !.file = c.dir])
        /\ UNCHANGED <<view, open_fhs, down, history>>

\* Slips in Replaceable: only the types are compared.
ReplaceableMutant(c) == view[c.ent].type = view[c.file].type

\* gdpfs_dir_replace_file_at_path: what the new name stands for must be of the same
\* type, and empty if a directory.  The parent's handle is never closed.
Replaceable(c) ==
    /\ view[c.ent].type = view[c.file].type
    /\ view[c.ent].type = "dir" => isempty(c.ent)

RenameChecks(t) ==
    LET c == call[t]
    IN  /\ Does(t, "entry") /\ c.op = "rename" /\ c.stage = 2
        /\ \/ /\ c.ent # NoFile => CanOpen(c.ent, "any") /\ Replaceable(c)
              /\ Become(t, [c EXCEPT !.pc = "add"])
              /\ UNCHANGED <<open_fhs, leaked>>
           \/ /\ c.ent # NoFile /\ (CannotOpen(c.ent, "any") \/ ~Replaceable(c))
              /\ Return(t, open_fhs - 1, 1)
        /\ UNCHANGED <<view, down, unseen, sure, owed, listed>>

\* Slips in RenameAdds: the new entry goes to the end of the directory.
RenameAddsAtEnd(t) ==
    LET c == call[t]
    IN  /\ Does(t, "add") /\ c.op = "rename"
        /\ WriteSlot(c.dir, Len(view[c.dir].slots) + 1, Slot(Last(c.q), c.file))
        /\ Become(t, [c EXCEPT !.pc = "root", !.stage = 3, !.todo = c.p])
        /\ open_fhs' = open_fhs - 1
        /\ leaked' = leaked + 1
        /\ UNCHANGED <<down, unseen, listed>>

\* _add_at_offset.
RenameAdds(t) ==
    LET c == call[t]
    IN  /\ Does(t, "add") /\ c.op = "rename"
        /\ WriteSlot(c.dir, c.at, Slot(Last(c.q), c.file))
        /\ Become(t, [c EXCEPT !.pc = "root", !.stage = 3, !.todo = c.p])
        /\ open_fhs' = open_fhs - 1
        /\ leaked' = leaked + 1
        /\ UNCHANGED <<down, unseen, listed>>
-----------------------------------------------------------------------------
Step(t) ==
    \/ Start(t) \/ OpenRoot(t) \/ ScanSlot(t) \/ ScanEnds(t) \/ Enter(t)
    \/ Opened(t) \/ Visit(t) \/ ReadDir(t) \/ Release(t)
    \/ CreateFindsEntry(t) \/ Reopen(t) \/ CreateFile(t) \/ CreateAdds(t)
    \/ RemoveChecks(t) \/ RemoveClears(t)
    \/ RenameOpened(t) \/ RenameChecks(t) \/ RenameAdds(t) \/ RenameFindsOld(t)

Next == \E t \in Threads : Step(t)

Spec == Init /\ [][Next]_vars
-----------------------------------------------------------------------------
\* A directory never has two entries of one name, whatever slots its operations
\* chose before others wrote theirs (_find_insert_offset, _add_at_offset).  The code
\* owes it to whoever keeps two operations from giving names to one directory at a
\* time: one thread that does, or the kernel's lock where a directory has one path.
UniqueNames ==
    \A d \in Files : \A i, j \in DOMAIN view[d].slots :
        /\ view[d].slots[i].in_use /\ view[d].slots[j].in_use
        /\ view[d].slots[i].name = view[d].slots[j].name
        => i = j

\* A name that is in a directory all the time somebody looks for it is found,
\* though slots are written and reused between the reads of _find_insert_offset.
PresentNamesFound ==
    \A t \in Threads :
        call[t].pc = "scan" /\ call[t].pos > Len(view[call[t].dir].slots) => ~sure[t]

\* A readdir returns every name that is in the directory all the time it runs, and
\* none of them twice, while other threads create, remove and rename.
ListingComplete ==
    \A t \in Threads : call[t].pc = "list" =>
        LET slots == view[call[t].dir].slots
            left == {i \in DOMAIN slots : i >= call[t].pos /\ slots[i].in_use}
        IN  /\ owed[t] \ listed[t] \subseteq {slots[i].name : i \in left}
            /\ \A i \in left : slots[i].name \in owed[t] => slots[i].name \notin listed[t]

\* Every reserved handle belongs to an operation under way or to FUSE, except those
\* lost in three places: a create that finds the name taken or gets no log, a mkdir,
\* and a rename that comes to the parent of the new name.
HandlesAccounted ==
    LET holding(n) == {t \in Threads : HandlesOf(call[t]) >= n}
    IN  open_fhs = leaked + Cardinality(holding(1)) + Cardinality(holding(2))

\* gdpfs_mkdir's null pointer is reached only after gdpfs_getattr failed for a file
\* that is there: the kernel does not ask to create what it has seen.
DiesOnlyUnseen == down => unseen

\* The directories implement the tree of names: every write of a slot changes one
\* name, never of a directory that still has files and no other name, although the
\* slot and the emptiness were looked up steps before.
AbstractEntries(f) ==
    [n \in NamesIn(view[f].slots) |-> Child(f, n)]
N == INSTANCE Namespace WITH
        type <- [f \in Files |-> view[f].type],
        entries <- [f \in Files |-> AbstractEntries(f)]
ImplementsNamespace == N!Spec
=============================================================================
