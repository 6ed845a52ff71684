--------------------------- MODULE DirectoryProofs ---------------------------
(***************************************************************************)
(* Proofs about Directory, for any number of threads, files and names, any *)
(* depth of paths and any number of handles.                               *)
(*                                                                         *)
(* DirInv is inductive: where an operation can be at its program counter   *)
(* (WalkInv), that the slots it has read or chosen are still slots of its  *)
(* directory (PlaceInv), and that the handles are counted.  A lemma        *)
(* XMoves for each action X says what X does to its own locals, and        *)
(* MovedKeeps that nobody else's are disturbed: a directory only grows,    *)
(* and a log is made a new file only when nobody refers to it.             *)
(*                                                                         *)
(* The properties of names look between the steps of one thread at what    *)
(* others write.  XShape says of each action what matters of it for that:  *)
(* the thread reads (Lands) and the others see no change (Calm), or it     *)
(* writes the slot it chose before (Writes).  NamesKnown, what a thread    *)
(* has learned of the slots it passed, and SeenInv, where the names are    *)
(* that have been there all along, are then kept by every step, provided   *)
(* no two threads give the same name to the same directory (NoRivals).     *)
(***************************************************************************)
EXTENDS Directory, CountingFacts
-----------------------------------------------------------------------------
\* Where an operation can be.  A walk to the parent of a name never ends at a
\* file; an operation past the opening of the root has a directory; a rename
\* has the file it renames from its second walk on.
WalkInv(c) ==
    /\ c.op \in Mutators => c.p # << >>
    /\ c.op = "rename" => c.q # << >>
    /\ c.pc = "root" => c.todo # << >> \/ ToFile(c)
    /\ c.pc \in {"scan", "enter"} => c.todo # << >>
    /\ c.pc = "enter" => ~AtEntry(c)
    /\ c.pc = "opened" => ToFile(c)
    /\ c.pc \in {"held", "list", "reopen"} => c.op # "rename"
    /\ c.pc = "add" => c.op \in {"create", "mkdir", "rename"}
    /\ c.pc = "clear" => ~(c.op = "rename" /\ c.stage = 2)
    /\ c.pc \in {"scan", "enter", "opened", "entry", "add", "clear", "held", "list"}
         => c.dir \in Files
    /\ c.pc \in {"enter", "reopen"} => c.ent \in Files
    /\ c.pc = "add" \/ (c.op = "rename" /\ c.stage = 2) => c.file \in Files

\* The slots an operation has read or chosen are slots of the directory, or the
\* place after its last one.
PlaceInv(c, slots) ==
    /\ c.pc \in {"scan", "list"} => c.pos \in 1 .. Len(slots) + 1
    /\ c.pc = "scan" => c.free \in 0 .. Len(slots)
    /\ c.pc \in {"entry", "add", "clear"} => c.at \in 1 .. Len(slots) + 1

CallInv(c, v) ==
    WalkInv(c) /\ (c.dir \in Files => PlaceInv(c, v[c.dir].slots))

\* An entry in use has a name and a file.
SlotsInv(slots) ==
    \A i \in DOMAIN slots : slots[i].in_use => slots[i].name \in Names /\ slots[i].gname \in Files

Views == [Files -> [type : {"new", "file", "dir"}, perm : SUBSET {"r", "w"}, slots : Seq(Slots)]]

ViewInv(v) == v \in Views /\ \A d \in Files : SlotsInv(v[d].slots)

HistoryInv ==
    /\ down \in BOOLEAN /\ unseen \in BOOLEAN /\ sure \in [Threads -> BOOLEAN]
    /\ owed \in [Threads -> SUBSET Names] /\ listed \in [Threads -> SUBSET Names]

CountInv == open_fhs \in Int /\ open_fhs <= MaxFhs /\ leaked \in Nat /\ HandlesAccounted

DirInv ==
    /\ ViewInv(view)
    /\ call \in [Threads -> Calls] /\ \A t \in Threads : CallInv(call[t], view)
    /\ HistoryInv /\ CountInv
-----------------------------------------------------------------------------
\* What a step of one operation does: to its own locals, to the directories the
\* others are in, and to the handles.
Grows(v, w) == \A u \in Threads :
    call[u].dir \in Files => Len(v[call[u].dir].slots) <= Len(w[call[u].dir].slots)

Moves(t, c) ==
    /\ c \in Calls /\ call' = [call EXCEPT ![t] = c]
    /\ CallInv(c, view')
    /\ open_fhs' \in Int /\ open_fhs' <= MaxFhs /\ leaked' \in Nat
    /\ open_fhs' - leaked' - HandlesOf(c) = open_fhs - leaked - HandlesOf(call[t])

Moved(t) == \E c : Moves(t, c) /\ ViewInv(view') /\ Grows(view, view') /\ HistoryInv'
-----------------------------------------------------------------------------
LEMMA HandlesRange ==
  ASSUME NEW c
  PROVE  HandlesOf(c) \in 0 .. 2
BY DEF HandlesOf

\* The handles of the threads, when one of them moves.
LEMMA HandlesMove ==
  ASSUME NEW t \in Threads, NEW c, call \in [Threads -> Calls],
         call' = [call EXCEPT ![t] = c],
         open_fhs \in Int, leaked \in Nat, open_fhs' \in Int, leaked' \in Nat,
         HandlesAccounted,
         open_fhs' - leaked' - HandlesOf(c) = open_fhs - leaked - HandlesOf(call[t])
  PROVE  HandlesAccounted'
<1> DEFINE S(n) == {u \in Threads : HandlesOf(call[u]) >= n}
           T(n) == {u \in Threads : HandlesOf(call'[u]) >= n}
<1>1. \A n \in {1, 2} : IsFiniteSet(S(n))
  BY DirectoryAssumption, FS_Subset
<1>2. \A u \in Threads : u # t => call'[u] = call[u]
  OBVIOUS
<1>3. call'[t] = c
  OBVIOUS
<1>4. \A n \in {1, 2} : \A y : y # t => (y \in S(n) <=> y \in T(n))
  BY <1>2
<1>5. \A n \in {1, 2} :
        /\ Cardinality(S(n)) \in Nat /\ Cardinality(T(n)) \in Nat
        /\ Cardinality(T(n)) = Cardinality(S(n)) - Ind(t \in S(n)) + Ind(t \in T(n))
  <2> TAKE n \in {1, 2}
  <2>1. IsFiniteSet(S(n)) /\ \A y : y # t => (y \in S(n) <=> y \in T(n))
    BY <1>1, <1>4
  <2> HIDE DEF S, T
  <2> QED
    BY <2>1, MoveOne
<1>6. \A n \in {1, 2} : (t \in S(n) <=> HandlesOf(call[t]) >= n) /\ (t \in T(n) <=> HandlesOf(c) >= n)
  BY <1>3
<1>7. open_fhs = leaked + Cardinality(S(1)) + Cardinality(S(2))
  BY DEF HandlesAccounted
<1>8. /\ Ind(t \in S(1)) + Ind(t \in S(2)) = HandlesOf(call[t])
      /\ Ind(t \in T(1)) + Ind(t \in T(2)) = HandlesOf(c)
  <2>1. HandlesOf(call[t]) \in 0 .. 2 /\ HandlesOf(c) \in 0 .. 2
    BY HandlesRange
  <2> HIDE DEF S, T
  <2> QED
    BY <2>1, <1>6 DEF Ind
<1>9. open_fhs' = leaked' + Cardinality(T(1)) + Cardinality(T(2))
  <2> HIDE DEF S, T
  <2>1. HandlesOf(call[t]) \in Int /\ HandlesOf(c) \in Int
    BY HandlesRange
  <2>2. \A b : Ind(b) \in Int
    BY DEF Ind
  <2> QED
    <3>1. /\ Cardinality(S(1)) \in Nat /\ Cardinality(T(1)) \in Nat
          /\ Cardinality(T(1)) = Cardinality(S(1)) - Ind(t \in S(1)) + Ind(t \in T(1))
      BY <1>5
    <3>2. /\ Cardinality(S(2)) \in Nat /\ Cardinality(T(2)) \in Nat
          /\ Cardinality(T(2)) = Cardinality(S(2)) - Ind(t \in S(2)) + Ind(t \in T(2))
      BY <1>5
    <3>3. /\ Ind(t \in S(1)) \in Int /\ Ind(t \in S(2)) \in Int
          /\ Ind(t \in T(1)) \in Int /\ Ind(t \in T(2)) \in Int
      BY <2>2
    <3> QED
      BY <3>1, <3>2, <3>3, <1>7, <1>8, <2>1
<1> QED
  BY <1>9 DEF HandlesAccounted

LEMMA PlaceMonotone ==
  ASSUME NEW c, NEW a, NEW b, Len(a) \in Nat, Len(b) \in Nat, Len(a) <= Len(b), PlaceInv(c, a)
  PROVE  PlaceInv(c, b)
<1>1. 1 .. Len(a) + 1 \subseteq 1 .. Len(b) + 1 /\ 0 .. Len(a) \subseteq 0 .. Len(b)
  OBVIOUS
<1> QED
  BY <1>1 DEF PlaceInv

LEMMA MovedKeeps ==
  ASSUME DirInv, NEW t \in Threads, Moved(t)
  PROVE  DirInv'
<1>1. PICK c : Moves(t, c) /\ ViewInv(view') /\ Grows(view, view') /\ HistoryInv'
  BY DEF Moved
<1>2. /\ c \in Calls /\ call' = [call EXCEPT ![t] = c] /\ CallInv(c, view')
      /\ open_fhs' \in Int /\ open_fhs' <= MaxFhs /\ leaked' \in Nat
      /\ open_fhs' - leaked' - HandlesOf(c) = open_fhs - leaked - HandlesOf(call[t])
  BY <1>1 DEF Moves
<1>3. /\ call \in [Threads -> Calls] /\ open_fhs \in Int /\ leaked \in Nat /\ HandlesAccounted
      /\ view \in Views /\ \A u \in Threads : CallInv(call[u], view)
  BY DEF DirInv, CountInv, ViewInv
<1>4. CountInv'
  BY <1>2, <1>3, HandlesMove DEF CountInv
<1>5. call' \in [Threads -> Calls]
  BY <1>2, <1>3
<1>6. ASSUME NEW u \in Threads PROVE CallInv(call'[u], view')
  <2>1. CASE u = t
    BY <2>1, <1>2, <1>3
  <2>2. CASE u # t
    <3>1. call'[u] = call[u] /\ CallInv(call[u], view)
      BY <2>2, <1>2, <1>3
    <3>2. SUFFICES ASSUME call[u].dir \in Files, PlaceInv(call[u], view[call[u].dir].slots)
                   PROVE  PlaceInv(call[u], view'[call[u].dir].slots)
      BY <3>1 DEF CallInv
    <3>3. Len(view[call[u].dir].slots) <= Len(view'[call[u].dir].slots)
      BY <1>1, <3>2 DEF Grows
    <3>4. /\ Len(view[call[u].dir].slots) \in Nat /\ Len(view'[call[u].dir].slots) \in Nat
      BY <1>1, <1>3, <3>2 DEF ViewInv, Views
    <3> QED
      BY <3>2, <3>3, <3>4, PlaceMonotone
  <2> QED
    BY <2>1, <2>2
<1> QED
  BY <1>1, <1>4, <1>5, <1>6 DEF DirInv
-----------------------------------------------------------------------------
LEMMA Facts ==
  ASSUME DirInv, NEW t \in Threads
  PROVE  /\ call[t] \in Calls /\ CallInv(call[t], view) /\ WalkInv(call[t])
         /\ call \in [Threads -> Calls] /\ view \in Views /\ ViewInv(view)
         /\ open_fhs \in Int /\ open_fhs <= MaxFhs /\ leaked \in Nat /\ MaxFhs \in Nat
         /\ HandlesOf(call[t]) \in 0 .. 2
         /\ call[t].dir \in Files => PlaceInv(call[t], view[call[t].dir].slots)
BY HandlesRange, DirectoryAssumption DEF DirInv, CountInv, ViewInv, CallInv

LEMMA SameView ==
  ASSUME DirInv, UNCHANGED view
  PROVE  ViewInv(view') /\ Grows(view, view')
<1>1. ViewInv(view)
  BY DEF DirInv
<1>2. \A d \in Files : Len(view[d].slots) \in Nat
  BY <1>1 DEF ViewInv, Views
<1> QED
  BY <1>1, <1>2 DEF Grows

LEMMA IdleFacts ==
  /\ Idle \in Calls /\ HandlesOf(Idle) = 0 /\ Idle.dir \notin Files /\ WalkInv(Idle)
  /\ Idle.pc = "idle" /\ Idle.dir = NoFile
BY DirectoryAssumption
   DEF Idle, Calls, HandlesOf, WalkInv, ToFile, AtEntry, Labels, Mutators, Openers

LEMMA LabelFacts ==
  /\ "root" \in Labels /\ "scan" \in Labels /\ "enter" \in Labels /\ "opened" \in Labels
  /\ "entry" \in Labels /\ "add" \in Labels /\ "clear" \in Labels /\ "reopen" \in Labels
  /\ "held" \in Labels /\ "list" \in Labels
  /\ 1 \in 0 .. 3 /\ 2 \in 0 .. 3 /\ 3 \in 0 .. 3
BY DEF Labels

LEMMA ReturnMoves ==
  ASSUME DirInv, NEW t \in Threads, NEW fhs \in Int, NEW left \in Nat, Return(t, fhs, left),
         fhs <= MaxFhs, fhs - left = open_fhs - HandlesOf(call[t])
  PROVE  Moves(t, Idle)
<1>1. call' = [call EXCEPT ![t] = Idle] /\ open_fhs' = fhs /\ leaked' = leaked + left
  BY DEF Return, Become
<1>2. CallInv(Idle, view')
  BY IdleFacts DEF CallInv
<1>3. open_fhs' - leaked' - HandlesOf(Idle) = open_fhs - leaked - HandlesOf(call[t])
  BY <1>1, IdleFacts, Facts
<1> QED
  BY <1>1, <1>2, <1>3, IdleFacts, Facts DEF Moves

\* A step that opens and closes nothing.
LEMMA StayMoves ==
  ASSUME DirInv, NEW t \in Threads, NEW c \in Calls, Become(t, c), CallInv(c, view'),
         open_fhs' = open_fhs, leaked' = leaked, HandlesOf(c) = HandlesOf(call[t])
  PROVE  Moves(t, c)
BY Facts DEF Moves, Become

LEMMA PathFacts ==
  ASSUME NEW p \in Paths
  PROVE  p \in Seq(Names)
<1>1. PICK n \in Nat : p \in [1 .. n -> Names]
  BY DirectoryAssumption DEF Paths, SeqOf
<1> QED
  BY <1>1

LEMMA StartMoves ==
  ASSUME DirInv, NEW t \in Threads, Start(t)
  PROVE  Moved(t)
<1>1. PICK op \in Ops[t], p \in Paths :
      \E q \in IF op = "rename" THEN Paths \ {<< >>} ELSE {<< >>} :
        /\ call[t].pc = "idle"
        /\ p = << >> => op \in {"opendir", "getattr", "chmod"}
        /\ call' = [call EXCEPT ![t] = Begin(op, p, q)]
        /\ unseen' = (unseen \/ (op \in {"create", "mkdir"} /\ Exists(p)))
        /\ UNCHANGED <<view, open_fhs, down, leaked, sure, owed, listed>>
  BY DEF Start, Does, Become
<1>2. PICK q \in IF op = "rename" THEN Paths \ {<< >>} ELSE {<< >>} :
        /\ call[t].pc = "idle"
        /\ p = << >> => op \in {"opendir", "getattr", "chmod"}
        /\ call' = [call EXCEPT ![t] = Begin(op, p, q)]
        /\ unseen' = (unseen \/ (op \in {"create", "mkdir"} /\ Exists(p)))
        /\ UNCHANGED <<view, open_fhs, down, leaked, sure, owed, listed>>
  BY <1>1
<1>3. op \in Mutators \cup Openers /\ p \in Seq(Names) /\ q \in Seq(Names)
      /\ (op = "rename" => q # << >>)
  <2>1. op \in Mutators \cup Openers
    BY OpsAssumption
  <2>2. (op = "rename" => q \in Paths /\ q # << >>) /\ (op # "rename" => q = << >>)
    OBVIOUS
  <2>3. << >> \in Seq(Names)
    OBVIOUS
  <2> QED
    BY <2>1, <2>2, <2>3, PathFacts
<1> DEFINE c == Begin(op, p, q)
<1>4. /\ c \in Calls /\ c.op = op /\ c.p = p /\ c.q = q /\ c.pc = "root" /\ c.stage = 1
      /\ c.todo = p /\ c.dir = NoFile
  <2>1. /\ c.op = op /\ c.p = p /\ c.q = q /\ c.pc = "root" /\ c.stage = 1
        /\ c.todo = p /\ c.dir = NoFile
    BY DEF Begin, Idle
  <2>4. c \in Calls
    BY <1>3, IdleFacts, LabelFacts DEF Begin, Calls
  <2> QED
    BY <2>1, <2>4
<1> HIDE DEF c
<1>5. WalkInv(c)
  BY <1>2, <1>3, <1>4 DEF WalkInv, ToFile, Mutators, Openers
<1>6. CallInv(c, view')
  BY <1>4, <1>5, DirectoryAssumption DEF CallInv
<1>7. HandlesOf(c) = 0 /\ HandlesOf(call[t]) = 0
  BY <1>2, <1>4 DEF HandlesOf
<1>8. Moves(t, c)
  BY <1>2, <1>4, <1>6, <1>7, StayMoves DEF Become, c
<1>9. HistoryInv'
  <2>1. HistoryInv
    BY DEF DirInv
  <2> QED
    BY <1>2, <2>1 DEF HistoryInv
<1> QED
  BY <1>2, <1>8, <1>9, SameView DEF Moved

\* A walk goes on in dir, or is over there.
LEMMA ScanBegins ==
  ASSUME DirInv, NEW c \in Calls, WalkInv(c), NEW dir \in Files, NEW todo \in Seq(Names),
         todo # << >> \/ ToFile(c), NEW v, v[dir].slots \in Seq(Slots), NEW d, d = ToScan(c, dir, todo)
  PROVE  /\ d \in Calls /\ CallInv(d, v)
         /\ d.op = c.op /\ d.stage = c.stage /\ d.pc \in {"opened", "scan"}
         /\ d.dir = dir /\ d.todo = todo /\ d.pos = 1 /\ (d.pc = "scan" <=> todo # << >>)
         /\ HandlesOf(d) = IF c.op = "rename" /\ c.stage = 2 THEN 2 ELSE 1
<1>1. (IF todo = << >> THEN "opened" ELSE "scan") \in Labels
  BY LabelFacts
<1>2. d \in Calls
  BY <1>1 DEF ToScan, Calls
<1>3. /\ d.op = c.op /\ d.stage = c.stage /\ d.p = c.p /\ d.q = c.q /\ d.file = c.file
      /\ d.pc = (IF todo = << >> THEN "opened" ELSE "scan")
      /\ d.dir = dir /\ d.todo = todo /\ d.pos = 1 /\ d.free = 0 /\ d.ent = NoFile
  BY DEF ToScan, Calls
<1>4. WalkInv(d)
  BY <1>3 DEF WalkInv, ToFile
<1>5. Len(v[dir].slots) \in Nat
  OBVIOUS
<1>6. PlaceInv(d, v[dir].slots)
  BY <1>3, <1>5 DEF PlaceInv
<1>7. HandlesOf(d) = IF c.op = "rename" /\ c.stage = 2 THEN 2 ELSE 1
  BY <1>3 DEF HandlesOf
<1> QED
  BY <1>2, <1>3, <1>4, <1>6, <1>7 DEF CallInv

LEMMA NowScansType ==
  ASSUME sure \in [Threads -> BOOLEAN], NEW t \in Threads, NEW dir, NEW todo,
         NowScans(t, dir, todo)
  PROVE  sure' \in [Threads -> BOOLEAN]
<1>1. (todo # << >> /\ Holds(view[dir].slots, Head(todo))) \in BOOLEAN
  OBVIOUS
<1> QED
  BY <1>1 DEF NowScans

LEMMA OpenRootMoves ==
  ASSUME DirInv, NEW t \in Threads, OpenRoot(t)
  PROVE  Moved(t)
<1>1. /\ call[t].pc = "root" /\ UNCHANGED <<view, down, unseen, owed, listed>>
  BY DEF OpenRoot, Does
<1>2. HistoryInv
  BY DEF DirInv
<1>3. CASE /\ CanOpen(Root, "dir")
           /\ Become(t, ToScan(call[t], Root, call[t].todo))
           /\ NowScans(t, Root, call[t].todo)
           /\ open_fhs' = open_fhs + 1
           /\ UNCHANGED leaked
  <2>1. PICK d : d = ToScan(call[t], Root, call[t].todo)
    OBVIOUS
  <2>2. /\ call[t] \in Calls /\ WalkInv(call[t]) /\ call[t].todo \in Seq(Names)
        /\ call[t].todo # << >> \/ ToFile(call[t])
    BY <1>1, Facts DEF WalkInv, Calls
  <2>3. Root \in Files /\ view'[Root].slots \in Seq(Slots)
    BY <1>1, Facts, DirectoryAssumption DEF Views
  <2>4. /\ d \in Calls /\ CallInv(d, view')
        /\ HandlesOf(d) = IF call[t].op = "rename" /\ call[t].stage = 2 THEN 2 ELSE 1
    BY <2>1, <2>2, <2>3, ScanBegins
  <2>5. HandlesOf(call[t]) = IF call[t].op = "rename" /\ call[t].stage = 2 THEN 1 ELSE 0
    BY <1>1 DEF HandlesOf
  <2>6. open_fhs < MaxFhs
    BY <1>3 DEF CanOpen
  <2>7. Moves(t, d)
    BY <1>3, <2>1, <2>4, <2>5, <2>6, Facts DEF Moves, Become
  <2>8. HistoryInv'
    BY <1>1, <1>2, <1>3, NowScansType DEF HistoryInv
  <2> QED
    BY <1>1, <2>7, <2>8, SameView DEF Moved
<1>4. CASE /\ Return(t, open_fhs - HandlesOf(call[t]), 0)
           /\ UNCHANGED sure
  <2>1. Moves(t, Idle)
    BY <1>4, ReturnMoves, Facts
  <2>2. HistoryInv'
    BY <1>1, <1>2, <1>4 DEF HistoryInv
  <2> QED
    BY <1>1, <2>1, <2>2, SameView DEF Moved
<1> QED
  BY <1>3, <1>4 DEF OpenRoot

LEMMA EnterMoves ==
  ASSUME DirInv, NEW t \in Threads, Enter(t)
  PROVE  Moved(t)
<1> DEFINE todo == Tail(call[t].todo)
<1>1. /\ call[t].pc = "enter" /\ UNCHANGED <<view, down, unseen, owed, listed>>
  BY DEF Enter, Does
<1>2. HistoryInv
  BY DEF DirInv
<1>3. CASE /\ Become(t, ToScan(call[t], call[t].ent, todo))
           /\ NowScans(t, call[t].ent, todo)
           /\ UNCHANGED <<open_fhs, leaked>>
  <2>1. PICK d : d = ToScan(call[t], call[t].ent, todo)
    OBVIOUS
  <2>2. /\ call[t] \in Calls /\ WalkInv(call[t]) /\ call[t].todo \in Seq(Names)
        /\ call[t].todo # << >> /\ call[t].ent \in Files
        /\ ToFile(call[t]) \/ Len(call[t].todo) # 1
    BY <1>1, Facts DEF WalkInv, Calls, AtEntry
  <2>3. view'[call[t].ent].slots \in Seq(Slots)
    BY <1>1, <2>2, Facts DEF Views
  <2>4. todo \in Seq(Names) /\ (todo # << >> \/ ToFile(call[t]))
    <3>1. todo \in Seq(Names) /\ Len(todo) = Len(call[t].todo) - 1 /\ Len(call[t].todo) \in Nat
      BY <2>2
    <3>2. \A s \in Seq(Names) : Len(s) # 0 => s # << >>
      OBVIOUS
    <3>3. Len(call[t].todo) # 0
      BY <2>2
    <3>4. ToFile(call[t]) \/ Len(todo) # 0
      <4> HIDE DEF todo
      <4> QED BY <3>1, <3>3, <2>2
    <3> HIDE DEF todo
    <3> QED
      BY <3>1, <3>2, <3>4
  <2> HIDE DEF todo
  <2>5. /\ d \in Calls /\ CallInv(d, view')
        /\ HandlesOf(d) = IF call[t].op = "rename" /\ call[t].stage = 2 THEN 2 ELSE 1
    BY <2>1, <2>2, <2>3, <2>4, ScanBegins
  <2>6. HandlesOf(call[t]) = IF call[t].op = "rename" /\ call[t].stage = 2 THEN 2 ELSE 1
    BY <1>1 DEF HandlesOf
  <2>7. Moves(t, d)
    BY <1>3, <2>1, <2>5, <2>6, StayMoves
  <2>8. HistoryInv'
    BY <1>1, <1>2, <1>3, NowScansType DEF HistoryInv
  <2> QED
    BY <1>1, <2>7, <2>8, SameView DEF Moved
<1>4. CASE /\ Return(t, open_fhs - HandlesOf(call[t]), 0)
           /\ UNCHANGED sure
  <2>1. Moves(t, Idle)
    BY <1>4, ReturnMoves, Facts
  <2>2. HistoryInv'
    BY <1>1, <1>2, <1>4 DEF HistoryInv
  <2> QED
    BY <1>1, <2>1, <2>2, SameView DEF Moved
<1> QED
  BY <1>3, <1>4 DEF Enter

LEMMA ScanSlotMoves ==
  ASSUME DirInv, NEW t \in Threads, ScanSlot(t)
  PROVE  Moved(t)
<1> DEFINE c == call[t]
           slots == view[c.dir].slots
           s == slots[c.pos]
           found == s.in_use /\ s.name = Head(c.todo)
<1>1. /\ c.pc = "scan" /\ c.pos <= Len(slots)
      /\ UNCHANGED <<view, open_fhs, down, leaked, unseen, sure, owed, listed>>
  BY DEF ScanSlot, Does, history
<1>2. HistoryInv'
  BY <1>1 DEF DirInv, HistoryInv
<1>3. /\ c \in Calls /\ WalkInv(c) /\ c.dir \in Files /\ c.todo # << >> /\ slots \in Seq(Slots)
      /\ c.pos \in 1 .. Len(slots) + 1 /\ c.free \in 0 .. Len(slots) /\ SlotsInv(slots)
      /\ view' = view
  BY <1>1, Facts DEF WalkInv, PlaceInv, ViewInv, Views
<1>4. c.pos \in DOMAIN slots /\ c.pos \in Nat /\ c.free \in Nat /\ Len(slots) \in Nat
  BY <1>1, <1>3
<1>5. HandlesOf(c) = IF c.op = "rename" /\ c.stage = 2 THEN 2 ELSE 1
  BY <1>1 DEF HandlesOf
<1>6. CASE found
  <2> DEFINE l == IF AtEntry(c) THEN "entry" ELSE "enter"
  <2>1. PICK d : d = [c EXCEPT !.pc = l, !.ent = s.gname, !.at = c.pos]
    OBVIOUS
  <2>2. Become(t, d)
    BY <1>6, <2>1 DEF ScanSlot
  <2>3. s.gname \in Files
    BY <1>3, <1>4, <1>6 DEF SlotsInv
  <2>4. l \in Labels
    BY LabelFacts
  <2>5. d \in Calls
    BY <1>3, <1>4, <2>1, <2>3, <2>4 DEF Calls
  <2>6. /\ d.op = c.op /\ d.stage = c.stage /\ d.p = c.p /\ d.q = c.q /\ d.file = c.file
        /\ d.dir = c.dir /\ d.todo = c.todo /\ d.pc = l /\ d.ent = s.gname /\ d.at = c.pos
    BY <1>3, <2>1 DEF Calls
  <2>7. WalkInv(d)
    BY <1>3, <2>3, <2>6 DEF WalkInv, ToFile, AtEntry
  <2>8. PlaceInv(d, slots)
    BY <1>3, <2>6 DEF PlaceInv
  <2>9. CallInv(d, view')
    BY <1>3, <2>6, <2>7, <2>8 DEF CallInv
  <2>10. HandlesOf(d) = HandlesOf(c)
    BY <1>5, <2>6 DEF HandlesOf
  <2>11. Moves(t, d)
    BY <1>1, <2>2, <2>5, <2>9, <2>10, StayMoves
  <2> QED
    BY <1>1, <1>2, <2>11, SameView DEF Moved
<1>7. CASE ~found
  <2> DEFINE free == IF ~s.in_use /\ c.free = 0 THEN c.pos ELSE c.free
  <2>1. PICK d : d = [c EXCEPT !.pos = c.pos + 1, !.free = free]
    OBVIOUS
  <2>2. Become(t, d)
    BY <1>7, <2>1, <1>3 DEF ScanSlot, Calls
  <2>3. free \in 0 .. Len(slots) /\ free \in Nat
    BY <1>3, <1>4
  <2>4. d \in Calls
    <3>1. c.pos + 1 \in Nat
      BY <1>4
    <3> HIDE DEF free
    <3> QED
      BY <1>3, <2>1, <2>3, <3>1 DEF Calls
  <2>5. /\ d.op = c.op /\ d.stage = c.stage /\ d.p = c.p /\ d.q = c.q /\ d.file = c.file
        /\ d.dir = c.dir /\ d.todo = c.todo /\ d.pc = "scan" /\ d.ent = c.ent /\ d.at = c.at
        /\ d.pos = c.pos + 1 /\ d.free = free
    BY <1>1, <1>3, <2>1 DEF Calls
  <2> HIDE DEF free
  <2>6. WalkInv(d)
    BY <1>1, <1>3, <2>5 DEF WalkInv, ToFile, AtEntry
  <2>7. PlaceInv(d, slots)
    BY <1>1, <1>3, <1>4, <2>3, <2>5 DEF PlaceInv
  <2>8. CallInv(d, view')
    BY <1>3, <2>5, <2>6, <2>7 DEF CallInv
  <2>9. HandlesOf(d) = HandlesOf(c)
    BY <1>5, <2>5 DEF HandlesOf
  <2>10. Moves(t, d)
    BY <1>1, <2>2, <2>4, <2>8, <2>9, StayMoves
  <2> QED
    BY <1>1, <1>2, <2>10, SameView DEF Moved
<1> QED
  BY <1>6, <1>7

LEMMA ScanEndsMoves ==
  ASSUME DirInv, NEW t \in Threads, ScanEnds(t)
  PROVE  Moved(t)
<1> DEFINE c == call[t]
           slots == view[c.dir].slots
<1>1. /\ c.pc = "scan" /\ c.pos > Len(slots)
      /\ UNCHANGED <<view, down, unseen, sure, owed, listed>>
  BY DEF ScanEnds, Does
<1>2. HistoryInv'
  BY <1>1 DEF DirInv, HistoryInv
<1>3. /\ c \in Calls /\ WalkInv(c) /\ c.dir \in Files /\ slots \in Seq(Slots)
      /\ c.pos \in 1 .. Len(slots) + 1 /\ c.free \in 0 .. Len(slots)
      /\ view' = view /\ Len(slots) \in Nat
  BY <1>1, Facts DEF WalkInv, PlaceInv, ViewInv, Views
<1>4. HandlesOf(c) = IF c.op = "rename" /\ c.stage = 2 THEN 2 ELSE 1
  BY <1>1 DEF HandlesOf
<1>5. CASE AtEntry(c)
  <2> DEFINE at == IF c.free = 0 THEN c.pos ELSE c.free
  <2>1. PICK d : d = [c EXCEPT !.pc = "entry", !.at = at]
    OBVIOUS
  <2>2. Become(t, d) /\ UNCHANGED <<open_fhs, leaked>>
    BY <1>5, <2>1 DEF ScanEnds
  <2>3. at \in 1 .. Len(slots) + 1 /\ at \in Nat
    BY <1>3
  <2>4. d \in Calls
    BY <1>3, <2>1, <2>3, LabelFacts DEF Calls
  <2>5. /\ d.op = c.op /\ d.stage = c.stage /\ d.p = c.p /\ d.q = c.q /\ d.file = c.file
        /\ d.dir = c.dir /\ d.pc = "entry" /\ d.at = at
    BY <1>3, <2>1 DEF Calls
  <2> HIDE DEF at
  <2>6. CallInv(d, view')
    BY <1>3, <2>3, <2>5 DEF CallInv, WalkInv, PlaceInv
  <2>7. HandlesOf(d) = HandlesOf(c)
    BY <1>4, <2>5 DEF HandlesOf
  <2>8. Moves(t, d)
    BY <2>2, <2>4, <2>6, <2>7, StayMoves
  <2> QED
    BY <1>1, <1>2, <2>8, SameView DEF Moved
<1>6. CASE ~AtEntry(c)
  <2>1. Return(t, open_fhs - HandlesOf(c), 0)
    BY <1>6 DEF ScanEnds
  <2>2. Moves(t, Idle)
    BY <2>1, ReturnMoves, Facts
  <2> QED
    BY <1>1, <1>2, <2>2, SameView DEF Moved
<1> QED
  BY <1>5, <1>6
-----------------------------------------------------------------------------
LEMMA NamesInNames ==
  ASSUME NEW slots, SlotsInv(slots)
  PROVE  NamesIn(slots) \subseteq Names
BY DEF NamesIn, SlotsInv

LEMMA OpenedMoves ==
  ASSUME DirInv, NEW t \in Threads, Opened(t)
  PROVE  Moved(t)
<1> DEFINE c == call[t]
           slots == view[c.dir].slots
<1>1. /\ c.pc = "opened" /\ c.op \in {"open", "opendir"}
      /\ UNCHANGED <<view, down, unseen, sure>>
  BY DEF Opened, Does
<1>2. /\ c \in Calls /\ WalkInv(c) /\ c.dir \in Files /\ slots \in Seq(Slots)
      /\ SlotsInv(slots) /\ view' = view /\ Len(slots) \in Nat
  BY <1>1, Facts DEF WalkInv, ViewInv, Views
<1>3. HandlesOf(c) = 1
  BY <1>1 DEF HandlesOf
<1>4. CASE /\ Become(t, [c EXCEPT !.pc = IF c.op = "open" THEN "held" ELSE "list", !.pos = 1])
           /\ owed' = [owed EXCEPT ![t] = IF c.op = "open" THEN {} ELSE NamesIn(slots)]
           /\ listed' = [listed EXCEPT ![t] = {}]
           /\ UNCHANGED <<open_fhs, leaked>>
  <2> DEFINE l == IF c.op = "open" THEN "held" ELSE "list"
  <2>1. PICK d : d = [c EXCEPT !.pc = l, !.pos = 1]
    OBVIOUS
  <2>2. l \in Labels
    BY LabelFacts
  <2>3. d \in Calls
    BY <1>2, <2>1, <2>2 DEF Calls
  <2>4. /\ d.op = c.op /\ d.stage = c.stage /\ d.p = c.p /\ d.q = c.q /\ d.file = c.file
        /\ d.dir = c.dir /\ d.pc = l /\ d.pos = 1
    BY <1>2, <2>1 DEF Calls
  <2>5. WalkInv(d)
    BY <1>1, <1>2, <2>4 DEF WalkInv
  <2>6. CallInv(d, view')
    BY <1>2, <2>4, <2>5 DEF CallInv, PlaceInv
  <2>7. HandlesOf(d) = 1
    BY <1>1, <2>4 DEF HandlesOf
  <2>8. Moves(t, d)
    BY <1>3, <1>4, <2>1, <2>3, <2>6, <2>7, StayMoves
  <2>9. HistoryInv'
    <3>1. HistoryInv /\ NamesIn(slots) \subseteq Names
      BY <1>2, NamesInNames DEF DirInv
    <3> QED
      BY <1>1, <1>4, <3>1 DEF HistoryInv
  <2> QED
    BY <1>1, <2>8, <2>9, SameView DEF Moved
<1>5. CASE Return(t, open_fhs - 1, 0) /\ UNCHANGED <<owed, listed>>
  <2>1. Moves(t, Idle)
    BY <1>3, <1>5, ReturnMoves, Facts
  <2>2. HistoryInv'
    BY <1>1, <1>5 DEF DirInv, HistoryInv
  <2> QED
    BY <1>1, <2>1, <2>2, SameView DEF Moved
<1> QED
  BY <1>4, <1>5 DEF Opened

LEMMA VisitMoves ==
  ASSUME DirInv, NEW t \in Threads, Visit(t)
  PROVE  Moved(t)
<1> DEFINE c == call[t]
<1>1. /\ c.pc = "opened" /\ c.op \in {"getattr", "chmod", "truncate"}
      /\ Return(t, open_fhs - 1, 0)
      /\ UNCHANGED <<down, unseen, sure, owed, listed>>
  BY DEF Visit, Does
<1>2. HandlesOf(c) = 1
  BY <1>1 DEF HandlesOf
<1>3. Moves(t, Idle)
  BY <1>1, <1>2, ReturnMoves, Facts
<1>4. HistoryInv'
  BY <1>1 DEF DirInv, HistoryInv
<1>5. ViewInv(view') /\ Grows(view, view')
  <2>1. CASE UNCHANGED view
    BY <2>1, SameView
  <2>2. CASE \E perm \in Perms : view' = [view EXCEPT ![c.dir].perm = perm]
    <3>1. PICK perm \in Perms : view' = [view EXCEPT ![c.dir].perm = perm]
      BY <2>2
    <3>2. perm \in SUBSET {"r", "w"} /\ c.dir \in Files /\ view \in Views
          /\ \A d \in Files : SlotsInv(view[d].slots)
      BY <1>1, Facts, DirectoryAssumption DEF WalkInv, ViewInv
    <3>3. view' \in Views
      BY <3>1, <3>2 DEF Views
    <3>4. \A d \in Files : view'[d].slots = view[d].slots /\ Len(view[d].slots) \in Nat
      BY <3>1, <3>2 DEF Views
    <3> QED
      BY <3>2, <3>3, <3>4 DEF ViewInv, Grows
  <2> QED
    BY <2>1, <2>2 DEF Visit
<1> QED
  BY <1>3, <1>4, <1>5 DEF Moved

LEMMA ReadDirMoves ==
  ASSUME DirInv, NEW t \in Threads, ReadDir(t)
  PROVE  Moved(t)
<1> DEFINE c == call[t]
           slots == view[c.dir].slots
<1>1. /\ c.pc = "list" /\ c.pos <= Len(slots)
      /\ Become(t, [c EXCEPT !.pos = c.pos + 1])
      /\ listed' = IF slots[c.pos].in_use
                   THEN [listed EXCEPT ![t] = listed[t] \cup {slots[c.pos].name}] ELSE listed
      /\ UNCHANGED <<view, open_fhs, down, leaked, unseen, sure, owed>>
  <2>1. call[t] \in Calls /\ HistoryInv
    BY Facts DEF DirInv
  <2> QED
    BY <2>1 DEF ReadDir, Does, Calls, HistoryInv
<1>2. /\ c \in Calls /\ WalkInv(c) /\ c.dir \in Files /\ slots \in Seq(Slots)
      /\ SlotsInv(slots) /\ view' = view /\ Len(slots) \in Nat /\ c.pos \in 1 .. Len(slots) + 1
  BY <1>1, Facts DEF WalkInv, ViewInv, Views, PlaceInv
<1>3. c.pos \in DOMAIN slots /\ c.pos + 1 \in Nat /\ c.pos + 1 \in 1 .. Len(slots) + 1
  BY <1>1, <1>2
<1>4. PICK d : d = [c EXCEPT !.pos = c.pos + 1]
  OBVIOUS
<1>5. d \in Calls
  BY <1>2, <1>3, <1>4 DEF Calls
<1>6. /\ d.op = c.op /\ d.stage = c.stage /\ d.p = c.p /\ d.q = c.q /\ d.file = c.file
      /\ d.dir = c.dir /\ d.pc = "list" /\ d.pos = c.pos + 1
  BY <1>1, <1>2, <1>4 DEF Calls
<1>7. CallInv(d, view')
  BY <1>1, <1>2, <1>3, <1>6 DEF CallInv, PlaceInv, WalkInv
<1>8. HandlesOf(d) = HandlesOf(c)
  BY <1>1, <1>6 DEF HandlesOf
<1>9. Moves(t, d)
  BY <1>1, <1>4, <1>5, <1>7, <1>8, StayMoves
<1>10. HistoryInv'
  <2>1. HistoryInv /\ (slots[c.pos].in_use => slots[c.pos].name \in Names)
    BY <1>2, <1>3 DEF DirInv, SlotsInv
  <2> QED
    BY <1>1, <2>1 DEF HistoryInv
<1> QED
  BY <1>1, <1>9, <1>10, SameView DEF Moved

LEMMA ReleaseMoves ==
  ASSUME DirInv, NEW t \in Threads, Release(t)
  PROVE  Moved(t)
<1>1. /\ call[t].pc \in {"held", "list"} /\ Return(t, open_fhs - 1, 0)
      /\ owed' = [owed EXCEPT ![t] = {}] /\ listed' = [listed EXCEPT ![t] = {}]
      /\ UNCHANGED <<view, down, unseen, sure>>
  BY DEF Release, Does
<1>2. HandlesOf(call[t]) = 1
  BY <1>1, Facts DEF HandlesOf, WalkInv
<1>3. Moves(t, Idle)
  BY <1>1, <1>2, ReturnMoves, Facts
<1>4. HistoryInv'
  BY <1>1 DEF DirInv, HistoryInv
<1> QED
  BY <1>1, <1>3, <1>4, SameView DEF Moved
-----------------------------------------------------------------------------
\* What a write of a slot does to the directories.
Written(d, i, s) ==
    /\ \A e \in Files : e # d => view'[e] = view[e]
    /\ DOMAIN view'[d].slots = DOMAIN view[d].slots \cup {i}
    /\ view'[d].slots[i] = s
    /\ \A j \in DOMAIN view[d].slots : j # i => view'[d].slots[j] = view[d].slots[j]

LEMMA SlotWritten ==
  ASSUME DirInv, NEW d \in Files, NEW i \in 1 .. Len(view[d].slots) + 1, NEW s \in Slots,
         s.in_use => s.name \in Names /\ s.gname \in Files, WriteSlot(d, i, s)
  PROVE  /\ ViewInv(view') /\ Grows(view, view') /\ Written(d, i, s)
         /\ sure' \in [Threads -> BOOLEAN] /\ owed' \in [Threads -> SUBSET Names]
<1> DEFINE old == view[d].slots
           n == IF i > Len(old) THEN i ELSE Len(old)
           new == [j \in 1 .. n |-> IF j = i THEN s ELSE old[j]]
<1>1. /\ view' = [view EXCEPT ![d].slots = new]
      /\ sure' = [u \in Threads |->
                     /\ sure[u]
                     /\ call[u].pc = "scan" /\ call[u].dir = d => Holds(new, Head(call[u].todo))]
      /\ owed' = [u \in Threads |-> IF call[u].dir = d THEN owed[u] \cap NamesIn(new)
                                    ELSE owed[u]]
  BY DEF WriteSlot
<1>2. /\ view \in Views /\ old \in Seq(Slots) /\ Len(old) \in Nat /\ i \in Nat
      /\ \A e \in Files : SlotsInv(view[e].slots)
  BY DEF DirInv, ViewInv, Views
<1>3. n \in Nat /\ Len(old) <= n /\ 1 .. n = (1 .. Len(old)) \cup {i}
  BY <1>2
<1>4. \A j \in 1 .. Len(old) : old[j] \in Slots
  BY <1>2
<1>5. new \in Seq(Slots) /\ Len(new) = n /\ DOMAIN new = 1 .. n
  <2>1. \A j \in 1 .. n : j # i => j \in 1 .. Len(old)
    BY <1>3
  <2>2. \A j \in 1 .. n : (IF j = i THEN s ELSE old[j]) \in Slots
    BY <1>4, <2>1
  <2> HIDE DEF n
  <2>3. new \in [1 .. n -> Slots]
    BY <2>2
  <2> QED
    BY <1>3, <2>3
<1>6. new[i] = s /\ \A j \in 1 .. Len(old) : j # i => new[j] = old[j]
  BY <1>3
<1>7. SlotsInv(new)
  <2>1. \A j \in 1 .. Len(old) : old[j].in_use => old[j].name \in Names /\ old[j].gname \in Files
    BY <1>2 DEF SlotsInv
  <2> HIDE DEF new, n
  <2>2. ASSUME NEW j \in DOMAIN new, new[j].in_use
        PROVE  new[j].name \in Names /\ new[j].gname \in Files
    <3>1. j = i \/ (j # i /\ j \in 1 .. Len(old))
      BY <1>3, <1>5
    <3> QED
      BY <1>6, <2>1, <2>2, <3>1
  <2> QED
    BY <2>2 DEF SlotsInv
<1> HIDE DEF new
<1>8. /\ view' \in Views /\ view'[d].slots = new
      /\ \A e \in Files : e # d => view'[e] = view[e]
  BY <1>1, <1>2, <1>5 DEF Views
<1>9. ViewInv(view')
  BY <1>2, <1>7, <1>8 DEF ViewInv
<1>10. Grows(view, view')
  <2>1. \A e \in Files : Len(view[e].slots) \in Nat /\ Len(view[e].slots) <= Len(view'[e].slots)
    <3> TAKE e \in Files
    <3>1. CASE e = d
      BY <3>1, <1>2, <1>3, <1>5, <1>8
    <3>2. CASE e # d
      BY <3>2, <1>2, <1>8 DEF Views
    <3> QED
      BY <3>1, <3>2
  <2> QED
    BY <2>1 DEF Grows
<1>11. Written(d, i, s)
  <2>1. DOMAIN old = 1 .. Len(old)
    BY <1>2
  <2> QED
    BY <2>1, <1>3, <1>5, <1>6, <1>8 DEF Written
<1>12. sure' \in [Threads -> BOOLEAN]
  <2>1. sure \in [Threads -> BOOLEAN]
    BY DEF DirInv, HistoryInv
  <2> QED
    BY <1>1, <2>1, Zenon
<1>13. owed' \in [Threads -> SUBSET Names]
  <2>1. owed \in [Threads -> SUBSET Names]
    BY DEF DirInv, HistoryInv
  <2> QED
    BY <1>1, <2>1
<1> QED
  BY <1>9, <1>10, <1>11, <1>12, <1>13

LEMMA SlotFacts ==
  /\ Unused \in Slots /\ ~Unused.in_use
  /\ \A n \in Names, f \in Files :
       /\ Slot(n, f) \in Slots /\ Slot(n, f).in_use /\ Slot(n, f).name = n
       /\ Slot(n, f).gname = f
BY DEF Unused, Slots, Slot

LEMMA LastName ==
  ASSUME NEW p \in Seq(Names), p # << >>
  PROVE  Last(p) \in Names
BY DEF Last
-----------------------------------------------------------------------------
LEMMA CreateFindsEntryMoves ==
  ASSUME DirInv, NEW t \in Threads, CreateFindsEntry(t)
  PROVE  Moved(t)
<1> DEFINE c == call[t]
<1>1. /\ c.pc = "entry" /\ c.op \in {"create", "mkdir"} /\ c.ent # NoFile
      /\ Become(t, [c EXCEPT !.pc = "reopen"]) /\ down' = (c.op = "mkdir")
      /\ leaked' = leaked + 1
      /\ UNCHANGED <<view, open_fhs, unseen, sure, owed, listed>>
  BY DEF CreateFindsEntry, Does
<1>2. c \in Calls /\ WalkInv(c) /\ c.ent \in Files
  BY <1>1, Facts DEF Calls
<1>3. PICK d : d = [c EXCEPT !.pc = "reopen"]
  OBVIOUS
<1>4. d \in Calls
  BY <1>2, <1>3, LabelFacts DEF Calls
<1>5. /\ d.op = c.op /\ d.stage = c.stage /\ d.p = c.p /\ d.q = c.q /\ d.file = c.file
      /\ d.dir = c.dir /\ d.pc = "reopen" /\ d.ent = c.ent
  BY <1>2, <1>3 DEF Calls
<1>6. CallInv(d, view')
  BY <1>1, <1>2, <1>5 DEF CallInv, WalkInv, PlaceInv
<1>7. HandlesOf(c) = 1 /\ HandlesOf(d) = 0
  BY <1>1, <1>5 DEF HandlesOf
<1>8. Moves(t, d)
  BY <1>1, <1>3, <1>4, <1>6, <1>7, Facts DEF Moves, Become
<1>9. HistoryInv'
  <2>1. (c.op = "mkdir") \in BOOLEAN
    OBVIOUS
  <2> QED
    BY <1>1, <2>1 DEF DirInv, HistoryInv
<1> QED
  BY <1>1, <1>8, <1>9, SameView DEF Moved

LEMMA ReopenMoves ==
  ASSUME DirInv, NEW t \in Threads, Reopen(t)
  PROVE  Moved(t)
<1> DEFINE c == call[t]
<1>1. /\ c.pc = "reopen" /\ UNCHANGED <<view, down, unseen, sure, owed, listed>>
  BY DEF Reopen, Does
<1>2. c \in Calls /\ WalkInv(c) /\ c.ent \in Files /\ c.op # "rename"
  BY <1>1, Facts DEF WalkInv
<1>3. HistoryInv'
  BY <1>1 DEF DirInv, HistoryInv
<1>4. HandlesOf(c) = 0
  BY <1>1 DEF HandlesOf
<1>5. CASE /\ CanOpen(c.ent, "file") /\ Become(t, [c EXCEPT !.pc = "held", !.dir = c.ent])
           /\ open_fhs' = open_fhs + 1 /\ UNCHANGED leaked
  <2>1. PICK d : d = [c EXCEPT !.pc = "held", !.dir = c.ent]
    OBVIOUS
  <2>2. d \in Calls
    BY <1>2, <2>1, LabelFacts DEF Calls
  <2>3. /\ d.op = c.op /\ d.stage = c.stage /\ d.p = c.p /\ d.q = c.q /\ d.file = c.file
        /\ d.dir = c.ent /\ d.pc = "held"
    BY <1>2, <2>1 DEF Calls
  <2>4. CallInv(d, view')
    BY <1>2, <2>3 DEF CallInv, WalkInv, PlaceInv
  <2>5. HandlesOf(d) = 1
    BY <1>2, <2>3 DEF HandlesOf
  <2>6. open_fhs < MaxFhs
    BY <1>5 DEF CanOpen
  <2>7. Moves(t, d)
    BY <1>4, <1>5, <2>1, <2>2, <2>4, <2>5, <2>6, Facts DEF Moves, Become
  <2> QED
    BY <1>1, <1>3, <2>7, SameView DEF Moved
<1>6. CASE Return(t, open_fhs, 0)
  <2>1. Moves(t, Idle)
    BY <1>4, <1>6, ReturnMoves, Facts
  <2> QED
    BY <1>1, <1>3, <2>1, SameView DEF Moved
<1> QED
  BY <1>5, <1>6 DEF Reopen

LEMMA CreateFileMoves ==
  ASSUME DirInv, NEW t \in Threads, CreateFile(t)
  PROVE  Moved(t)
<1> DEFINE c == call[t]
<1>1. /\ c.pc = "entry" /\ c.op \in {"create", "mkdir"}
      /\ UNCHANGED <<down, unseen, sure, owed, listed>>
  BY DEF CreateFile, Does
<1>2. c \in Calls /\ WalkInv(c) /\ c.dir \in Files /\ c.at \in 1 .. Len(view[c.dir].slots) + 1
  BY <1>1, Facts DEF WalkInv, PlaceInv
<1>3. HistoryInv'
  BY <1>1 DEF DirInv, HistoryInv
<1>4. HandlesOf(c) = 1
  BY <1>1 DEF HandlesOf
<1>5. CASE \E f \in Files, perm \in Perms :
             /\ Fresh(f) /\ open_fhs < MaxFhs
             /\ view' = [view EXCEPT ![f] = File(WantedType(c), perm)]
             /\ Become(t, [c EXCEPT !.pc = "add", !.file = f])
             /\ open_fhs' = open_fhs + 1
             /\ UNCHANGED leaked
  <2>1. PICK f \in Files, perm \in Perms :
             /\ Fresh(f) /\ open_fhs < MaxFhs
             /\ view' = [view EXCEPT ![f] = File(WantedType(c), perm)]
             /\ Become(t, [c EXCEPT !.pc = "add", !.file = f])
             /\ open_fhs' = open_fhs + 1
             /\ UNCHANGED leaked
    BY <1>5
  <2>2. PICK d : d = [c EXCEPT !.pc = "add", !.file = f]
    OBVIOUS
  <2>3. d \in Calls
    BY <1>2, <2>2, LabelFacts DEF Calls
  <2>4. /\ d.op = c.op /\ d.stage = c.stage /\ d.p = c.p /\ d.q = c.q /\ d.file = f
        /\ d.dir = c.dir /\ d.pc = "add" /\ d.at = c.at
    BY <1>2, <2>2 DEF Calls
  <2>5. \A u \in Threads : call[u].dir # f
    BY <2>1 DEF Fresh
  <2>6. view \in Views /\ \A e \in Files : SlotsInv(view[e].slots)
    BY DEF DirInv, ViewInv
  <2>7. /\ File(WantedType(c), perm) \in
             [type : {"new", "file", "dir"}, perm : SUBSET {"r", "w"}, slots : Seq(Slots)]
        /\ File(WantedType(c), perm).slots = << >>
    <3>1. perm \in SUBSET {"r", "w"}
      BY DirectoryAssumption
    <3>2. WantedType(c) \in {"file", "dir"}
      BY <1>1 DEF WantedType
    <3> QED
      BY <3>1, <3>2 DEF File
  <2>8. view' \in Views /\ (\A e \in Files : e # f => view'[e] = view[e]) /\ view'[f].slots = << >>
    BY <2>1, <2>6, <2>7 DEF Views
  <2>9. SlotsInv(<< >>)
    BY DEF SlotsInv
  <2>10. ViewInv(view')
    BY <2>6, <2>8, <2>9 DEF ViewInv
  <2>11. Grows(view, view')
    <3>1. \A u \in Threads : call[u].dir \in Files =>
            view'[call[u].dir] = view[call[u].dir] /\ Len(view[call[u].dir].slots) \in Nat
      BY <2>5, <2>6, <2>8 DEF Views
    <3> QED
      BY <3>1 DEF Grows
  <2>12. view'[c.dir] = view[c.dir]
    BY <1>2, <2>5, <2>8
  <2>13. WalkInv(d)
    BY <1>1, <1>2, <2>4 DEF WalkInv
  <2>14. CallInv(d, view')
    BY <1>2, <2>4, <2>12, <2>13 DEF CallInv, PlaceInv
  <2>15. HandlesOf(d) = 2
    BY <2>4 DEF HandlesOf
  <2>16. Moves(t, d)
    BY <1>4, <2>1, <2>2, <2>3, <2>14, <2>15, Facts DEF Moves, Become
  <2> QED
    BY <1>3, <2>10, <2>11, <2>16 DEF Moved
<1>6. CASE Return(t, open_fhs, 1) /\ UNCHANGED view
  <2>1. Moves(t, Idle)
    BY <1>4, <1>6, ReturnMoves, Facts
  <2> QED
    BY <1>6, <1>3, <2>1, SameView DEF Moved
<1> QED
  BY <1>5, <1>6 DEF CreateFile

LEMMA CreateAddsMoves ==
  ASSUME DirInv, NEW t \in Threads, CreateAdds(t)
  PROVE  Moved(t)
<1> DEFINE c == call[t]
           s == Slot(Last(c.p), c.file)
<1>1. /\ c.pc = "add" /\ c.op \in {"create", "mkdir"} /\ WriteSlot(c.dir, c.at, s)
      /\ UNCHANGED <<down, unseen, listed>>
  BY DEF CreateAdds, Does
<1>2. /\ c \in Calls /\ WalkInv(c) /\ c.dir \in Files /\ c.file \in Files /\ c.p # << >>
      /\ c.at \in 1 .. Len(view[c.dir].slots) + 1 /\ c.p \in Seq(Names)
  BY <1>1, Facts DEF WalkInv, PlaceInv, Mutators, Calls
<1>3. s \in Slots /\ s.name \in Names /\ s.gname \in Files
  BY <1>2, LastName, SlotFacts
<1> HIDE DEF s
<1>4. /\ ViewInv(view') /\ Grows(view, view')
      /\ sure' \in [Threads -> BOOLEAN] /\ owed' \in [Threads -> SUBSET Names]
  BY <1>1, <1>2, <1>3, SlotWritten
<1>5. HistoryInv'
  BY <1>1, <1>4 DEF DirInv, HistoryInv
<1>6. HandlesOf(c) = 2
  BY <1>1 DEF HandlesOf
<1>7. CASE /\ c.op = "create" /\ Become(t, [c EXCEPT !.pc = "held", !.dir = c.file])
           /\ open_fhs' = open_fhs - 1 /\ UNCHANGED leaked
  <2>1. PICK d : d = [c EXCEPT !.pc = "held", !.dir = c.file]
    OBVIOUS
  <2>2. d \in Calls
    BY <1>2, <2>1, LabelFacts DEF Calls
  <2>3. /\ d.op = c.op /\ d.stage = c.stage /\ d.p = c.p /\ d.q = c.q /\ d.file = c.file
        /\ d.dir = c.file /\ d.pc = "held"
    BY <1>2, <2>1 DEF Calls
  <2>4. CallInv(d, view')
    BY <1>1, <1>2, <2>3 DEF CallInv, WalkInv, PlaceInv
  <2>5. HandlesOf(d) = 1
    BY <1>1, <2>3 DEF HandlesOf
  <2>6. Moves(t, d)
    BY <1>6, <1>7, <2>1, <2>2, <2>4, <2>5, Facts DEF Moves, Become
  <2> QED
    BY <1>4, <1>5, <2>6 DEF Moved
<1>8. CASE Return(t, open_fhs - 1, 1)
  <2>1. Moves(t, Idle)
    BY <1>6, <1>8, ReturnMoves, Facts
  <2> QED
    BY <1>4, <1>5, <2>1 DEF Moved
<1> QED
  BY <1>7, <1>8 DEF CreateAdds
-----------------------------------------------------------------------------
\* An operation that has found its slot goes on to write it.
LEMMA ToWriteMoves ==
  ASSUME DirInv, NEW t \in Threads, call[t].pc = "entry", UNCHANGED view, NEW l \in {"add", "clear"},
         Become(t, [call[t] EXCEPT !.pc = l]), open_fhs' = open_fhs, leaked' = leaked,
         IF call[t].op = "rename" /\ call[t].stage = 2 THEN l = "add" ELSE l = "clear"
  PROVE  \E d : Moves(t, d)
<1> DEFINE c == call[t]
<1>1. c \in Calls /\ WalkInv(c) /\ c.dir \in Files /\ PlaceInv(c, view[c.dir].slots)
  BY Facts DEF WalkInv
<1>2. PICK d : d = [c EXCEPT !.pc = l]
  OBVIOUS
<1>3. d \in Calls
  <2>1. l \in Labels
    BY LabelFacts
  <2> QED
    BY <1>1, <1>2, <2>1 DEF Calls
<1>4. /\ d.op = c.op /\ d.stage = c.stage /\ d.p = c.p /\ d.q = c.q /\ d.file = c.file
      /\ d.dir = c.dir /\ d.pc = l /\ d.at = c.at
  BY <1>1, <1>2 DEF Calls
<1>5. WalkInv(d)
  BY <1>1, <1>4 DEF WalkInv
<1>6. CallInv(d, view')
  BY <1>1, <1>4, <1>5 DEF CallInv, PlaceInv
<1>7. HandlesOf(d) = HandlesOf(c)
  BY <1>4 DEF HandlesOf
<1>8. Moves(t, d)
  BY <1>2, <1>3, <1>6, <1>7, StayMoves
<1> QED
  BY <1>8

LEMMA RemoveChecksMoves ==
  ASSUME DirInv, NEW t \in Threads, RemoveChecks(t)
  PROVE  Moved(t)
<1> DEFINE c == call[t]
<1>1. /\ c.pc = "entry" /\ c.op \in {"unlink", "rmdir"}
      /\ UNCHANGED <<view, down, unseen, sure, owed, listed>>
  BY DEF RemoveChecks, Does
<1>2. HistoryInv'
  BY <1>1 DEF DirInv, HistoryInv
<1>3. CASE Become(t, [c EXCEPT !.pc = "clear"]) /\ UNCHANGED <<open_fhs, leaked>>
  BY <1>1, <1>2, <1>3, ToWriteMoves, SameView DEF Moved
<1>4. CASE Return(t, open_fhs - 1, 0)
  <2>1. HandlesOf(c) = 1
    BY <1>1 DEF HandlesOf
  <2>2. Moves(t, Idle)
    BY <1>4, <2>1, ReturnMoves, Facts
  <2> QED
    BY <1>1, <1>2, <2>2, SameView DEF Moved
<1> QED
  BY <1>3, <1>4 DEF RemoveChecks

LEMMA RenameFindsOldMoves ==
  ASSUME DirInv, NEW t \in Threads, RenameFindsOld(t)
  PROVE  Moved(t)
<1> DEFINE c == call[t]
<1>1. /\ c.pc = "entry" /\ c.op = "rename" /\ c.stage = 3
      /\ UNCHANGED <<view, down, unseen, sure, owed, listed>>
  BY DEF RenameFindsOld, Does
<1>2. HistoryInv'
  BY <1>1 DEF DirInv, HistoryInv
<1>3. CASE Become(t, [c EXCEPT !.pc = "clear"]) /\ UNCHANGED <<open_fhs, leaked>>
  <2>1. ~(c.op = "rename" /\ c.stage = 2)
    BY <1>1
  <2>2. \E d : Moves(t, d)
    BY <1>1, <1>3, <2>1, ToWriteMoves
  <2> QED
    BY <1>1, <1>2, <2>2, SameView DEF Moved
<1>4. CASE Return(t, open_fhs - 1, 0)
  <2>1. HandlesOf(c) = 1
    BY <1>1 DEF HandlesOf
  <2>2. Moves(t, Idle)
    BY <1>4, <2>1, ReturnMoves, Facts
  <2> QED
    BY <1>1, <1>2, <2>2, SameView DEF Moved
<1> QED
  BY <1>3, <1>4 DEF RenameFindsOld

LEMMA RenameChecksMoves ==
  ASSUME DirInv, NEW t \in Threads, RenameChecks(t)
  PROVE  Moved(t)
<1> DEFINE c == call[t]
<1>1. /\ c.pc = "entry" /\ c.op = "rename" /\ c.stage = 2
      /\ UNCHANGED <<view, down, unseen, sure, owed, listed>>
  BY DEF RenameChecks, Does
<1>2. HistoryInv'
  BY <1>1 DEF DirInv, HistoryInv
<1>3. CASE Become(t, [c EXCEPT !.pc = "add"]) /\ UNCHANGED <<open_fhs, leaked>>
  BY <1>1, <1>2, <1>3, ToWriteMoves, SameView DEF Moved
<1>4. CASE Return(t, open_fhs - 1, 1)
  <2>1. HandlesOf(c) = 2
    BY <1>1 DEF HandlesOf
  <2>2. Moves(t, Idle)
    BY <1>4, <2>1, ReturnMoves, Facts
  <2> QED
    BY <1>1, <1>2, <2>2, SameView DEF Moved
<1> QED
  BY <1>3, <1>4 DEF RenameChecks

LEMMA RemoveClearsMoves ==
  ASSUME DirInv, NEW t \in Threads, RemoveClears(t)
  PROVE  Moved(t)
<1> DEFINE c == call[t]
<1>1. /\ c.pc = "clear" /\ WriteSlot(c.dir, c.at, Unused) /\ Return(t, open_fhs - 1, 0)
      /\ UNCHANGED <<down, unseen, listed>>
  BY DEF RemoveClears, Does
<1>2. c.dir \in Files /\ c.at \in 1 .. Len(view[c.dir].slots) + 1
      /\ ~(c.op = "rename" /\ c.stage = 2)
  BY <1>1, Facts DEF WalkInv, PlaceInv
<1>3. /\ ViewInv(view') /\ Grows(view, view')
      /\ sure' \in [Threads -> BOOLEAN] /\ owed' \in [Threads -> SUBSET Names]
  BY <1>1, <1>2, SlotFacts, SlotWritten
<1>4. HistoryInv'
  BY <1>1, <1>3 DEF DirInv, HistoryInv
<1>5. HandlesOf(c) = 1
  BY <1>1, <1>2 DEF HandlesOf
<1>6. Moves(t, Idle)
  BY <1>1, <1>5, ReturnMoves, Facts
<1> QED
  BY <1>3, <1>4, <1>6 DEF Moved

LEMMA RenameOpenedMoves ==
  ASSUME DirInv, NEW t \in Threads, RenameOpened(t)
  PROVE  Moved(t)
<1> DEFINE c == call[t]
<1>1. /\ c.pc = "opened" /\ c.op = "rename"
      /\ Become(t, [c EXCEPT !.pc = "root", !.stage = 2, !.todo = c.q, !.file = c.dir])
      /\ UNCHANGED <<view, open_fhs, down, leaked, unseen, sure, owed, listed>>
  BY DEF RenameOpened, Does, history
<1>2. /\ c \in Calls /\ WalkInv(c) /\ c.dir \in Files /\ c.q # << >> /\ c.p # << >>
      /\ c.stage = 1 /\ c.q \in Seq(Names)
  BY <1>1, Facts DEF WalkInv, ToFile, Openers, Mutators, Calls
<1>3. PICK d : d = [c EXCEPT !.pc = "root", !.stage = 2, !.todo = c.q, !.file = c.dir]
  OBVIOUS
<1>4. d \in Calls
  BY <1>2, <1>3, LabelFacts DEF Calls
<1>5. /\ d.op = "rename" /\ d.stage = 2 /\ d.p = c.p /\ d.q = c.q /\ d.file = c.dir
      /\ d.dir = c.dir /\ d.pc = "root" /\ d.todo = c.q
  BY <1>1, <1>2, <1>3 DEF Calls
<1>6. CallInv(d, view')
  BY <1>2, <1>5 DEF CallInv, WalkInv, PlaceInv
<1>7. HandlesOf(c) = 1 /\ HandlesOf(d) = 1
  BY <1>1, <1>2, <1>5 DEF HandlesOf
<1>8. Moves(t, d)
  BY <1>1, <1>3, <1>4, <1>6, <1>7, StayMoves
<1>9. HistoryInv'
  BY <1>1 DEF DirInv, HistoryInv
<1> QED
  BY <1>1, <1>8, <1>9, SameView DEF Moved

LEMMA RenameAddsMoves ==
  ASSUME DirInv, NEW t \in Threads, RenameAdds(t)
  PROVE  Moved(t)
<1> DEFINE c == call[t]
           s == Slot(Last(c.q), c.file)
<1>1. /\ c.pc = "add" /\ c.op = "rename" /\ WriteSlot(c.dir, c.at, s)
      /\ Become(t, [c EXCEPT !.pc = "root", !.stage = 3, !.todo = c.p])
      /\ open_fhs' = open_fhs - 1 /\ leaked' = leaked + 1
      /\ UNCHANGED <<down, unseen, listed>>
  BY DEF RenameAdds, Does
<1>2. /\ c \in Calls /\ WalkInv(c) /\ c.dir \in Files /\ c.file \in Files /\ c.p # << >>
      /\ c.at \in 1 .. Len(view[c.dir].slots) + 1 /\ c.p \in Seq(Names)
      /\ c.q \in Seq(Names) /\ c.q # << >>
  BY <1>1, Facts DEF WalkInv, PlaceInv, Mutators, Calls
<1>3. s \in Slots /\ s.name \in Names /\ s.gname \in Files
  BY <1>2, LastName, SlotFacts
<1> HIDE DEF s
<1>4. /\ ViewInv(view') /\ Grows(view, view')
      /\ sure' \in [Threads -> BOOLEAN] /\ owed' \in [Threads -> SUBSET Names]
  BY <1>1, <1>2, <1>3, SlotWritten
<1>5. HistoryInv'
  BY <1>1, <1>4 DEF DirInv, HistoryInv
<1>6. PICK d : d = [c EXCEPT !.pc = "root", !.stage = 3, !.todo = c.p]
  OBVIOUS
<1>7. d \in Calls
  BY <1>2, <1>6, LabelFacts DEF Calls
<1>8. /\ d.op = "rename" /\ d.stage = 3 /\ d.p = c.p /\ d.q = c.q /\ d.file = c.file
      /\ d.dir = c.dir /\ d.pc = "root" /\ d.todo = c.p
  BY <1>1, <1>2, <1>6 DEF Calls
<1>9. CallInv(d, view')
  BY <1>2, <1>8 DEF CallInv, WalkInv, PlaceInv
<1>10. HandlesOf(c) = 2 /\ HandlesOf(d) = 0
  BY <1>1, <1>8 DEF HandlesOf
<1>11. Moves(t, d)
  BY <1>1, <1>6, <1>7, <1>9, <1>10, Facts DEF Moves, Become
<1> QED
  BY <1>4, <1>5, <1>11 DEF Moved
-----------------------------------------------------------------------------
LEMMA StepMoves ==
  ASSUME DirInv, NEW t \in Threads, Step(t)
  PROVE  Moved(t)
BY StartMoves, OpenRootMoves, ScanSlotMoves, ScanEndsMoves, EnterMoves, OpenedMoves,
   VisitMoves, ReadDirMoves, ReleaseMoves, CreateFindsEntryMoves, ReopenMoves,
   CreateFileMoves, CreateAddsMoves, RemoveChecksMoves, RemoveClearsMoves,
   RenameOpenedMoves, RenameChecksMoves, RenameAddsMoves, RenameFindsOldMoves DEF Step

LEMMA DirInvInit == Init => DirInv
<1> SUFFICES ASSUME Init PROVE DirInv
  OBVIOUS
<1>1. /\ view = [f \in Files |-> IF f = Root THEN File("dir", {"r"}) ELSE Blank]
      /\ call = [t \in Threads |-> Idle] /\ open_fhs = 0 /\ leaked = 0
  BY DEF Init
<1>2. /\ \A f \in Files : view[f].slots = << >>
      /\ view \in Views
  <2>1. << >> \in Seq(Slots)
    OBVIOUS
  <2>2. /\ File("dir", {"r"}) \in
             [type : {"new", "file", "dir"}, perm : SUBSET {"r", "w"}, slots : Seq(Slots)]
        /\ Blank \in [type : {"new", "file", "dir"}, perm : SUBSET {"r", "w"}, slots : Seq(Slots)]
        /\ File("dir", {"r"}).slots = << >> /\ Blank.slots = << >>
    BY <2>1 DEF File, Blank
  <2> QED
    BY <1>1, <2>2 DEF Views
<1>3. ViewInv(view)
  BY <1>2 DEF ViewInv, SlotsInv
<1>4. call \in [Threads -> Calls] /\ \A t \in Threads : CallInv(call[t], view)
  BY <1>1, IdleFacts DEF CallInv
<1>5. HistoryInv
  BY DEF Init, HistoryInv
<1>6. HandlesAccounted
  <2> DEFINE S(n) == {t \in Threads : HandlesOf(call[t]) >= n}
  <2>1. S(1) = {} /\ S(2) = {}
    BY <1>1, IdleFacts
  <2> HIDE DEF S
  <2>2. open_fhs = leaked + Cardinality(S(1)) + Cardinality(S(2))
    BY <1>1, <2>1, FS_EmptySet
  <2> QED
    BY <2>2 DEF HandlesAccounted, S
<1> QED
  BY <1>1, <1>3, <1>4, <1>5, <1>6, DirectoryAssumption DEF DirInv, CountInv

LEMMA DirInvStep == DirInv /\ [Next]_vars => DirInv'
<1> SUFFICES ASSUME DirInv, [Next]_vars PROVE DirInv'
  OBVIOUS
<1>1. CASE Next
  BY <1>1, StepMoves, MovedKeeps DEF Next
<1>2. CASE UNCHANGED vars
  <2>1. /\ view' = view /\ call' = call /\ open_fhs' = open_fhs /\ down' = down /\ leaked' = leaked
        /\ unseen' = unseen /\ sure' = sure /\ owed' = owed /\ listed' = listed
    BY <1>2 DEF vars, history
  <2>2. HandlesAccounted' <=> HandlesAccounted
    BY <2>1 DEF HandlesAccounted
  <2>3. HistoryInv' /\ CountInv'
    BY <2>1, <2>2 DEF DirInv, HistoryInv, CountInv
  <2> QED
    BY <2>1, <2>3 DEF DirInv
<1> QED
  BY <1>1, <1>2

LEMMA DirInvAlways == Spec => []DirInv
BY DirInvInit, DirInvStep, PTL DEF Spec

LEMMA DirInvTypes == DirInv => TypeOK
<1> SUFFICES ASSUME DirInv PROVE TypeOK
  OBVIOUS
<1> DEFINE S(n) == {t \in Threads : HandlesOf(call[t]) >= n}
<1>1. \A n \in {1, 2} : IsFiniteSet(S(n)) 
  BY DirectoryAssumption, FS_Subset
<1>2. open_fhs = leaked + Cardinality(S(1)) + Cardinality(S(2))
  BY DEF DirInv, CountInv, HandlesAccounted
<1>3. Cardinality(S(1)) \in Nat /\ Cardinality(S(2)) \in Nat
  <2> HIDE DEF S
  <2> QED BY <1>1, FS_CardinalityType
<1>4. open_fhs \in Int /\ open_fhs <= MaxFhs /\ leaked \in Nat /\ MaxFhs \in Nat
  BY DirectoryAssumption DEF DirInv, CountInv
<1>5. open_fhs \in 0 .. MaxFhs /\ leaked \in 0 .. MaxFhs
  <2> HIDE DEF S
  <2> QED BY <1>2, <1>3, <1>4
<1> QED
  BY <1>5 DEF DirInv, ViewInv, Views, HistoryInv, TypeOK

\* The directories keep their types: an entry in use has a name and a log, an
\* operation has chosen a slot of its directory or the one after the last, and the
\* number of reserved handles stays between 0 and MAX_FHS.
THEOREM TypeCorrect == Spec => []TypeOK
BY DirInvAlways, DirInvTypes, PTL

\* Every reserved handle belongs to an operation under way or to FUSE, except those
\* lost in the places named: no path through walk, create, remove and rename, whatever
\* fails in it and whatever the other threads do, loses or returns a handle twice.
THEOREM HandlesStayAccounted == Spec => []HandlesAccounted
<1>1. DirInv => HandlesAccounted
  BY DEF DirInv, CountInv
<1> QED
  BY <1>1, DirInvAlways, PTL
-----------------------------------------------------------------------------
\* An operation that gives its directory an entry, and the name it gives it.
AddOp(c) == c.op \in {"create", "mkdir"} \/ (c.op = "rename" /\ c.stage = 2)
Target(c) == IF c.op = "rename" THEN Last(c.q) ELSE Last(c.p)
Adding(c) == AddOp(c) /\ (c.pc \in {"entry", "add"} \/ (c.pc = "scan" /\ Len(c.todo) = 1))

\* Nobody else is giving the same name to the same directory.  This is what the
\* kernel's lock of a directory gives where every directory has one path.
NoRivals ==
    \A t, u \in Threads :
        t # u /\ Adding(call[t]) /\ Adding(call[u]) /\ call[t].dir = call[u].dir
        => Target(call[t]) # Target(call[u])

\* What such an operation knows of the names in its directory: no slot it has
\* passed, and later no slot but the one it has chosen, has the name.
NameInv(c, slots) ==
    /\ c.pc \in {"root", "scan", "enter"} /\ AddOp(c) => Last(c.todo) = Target(c)
    /\ c.pc = "add" => AddOp(c)
    /\ Adding(c) => \A j \in DOMAIN slots :
         /\ slots[j].in_use
         /\ IF c.pc = "scan" THEN j < c.pos ELSE j # c.at
         => slots[j].name # Target(c)

NamesKnown == \A t \in Threads : NameInv(call[t], view[call[t].dir].slots)

\* Where a name that was there all along is: before the thread that looks for it,
\* or that lists the directory and has listed it, or still ahead.
SureInv(c, slots, there) ==
    c.pc = "scan" /\ there => \E i \in DOMAIN slots :
        i >= c.pos /\ slots[i].in_use /\ slots[i].name = Head(c.todo)

ListInv(c, slots, due, seen) ==
    c.pc = "list" => \A n \in due : \E i \in DOMAIN slots :
        /\ slots[i].in_use /\ slots[i].name = n
        /\ IF n \in seen THEN i < c.pos ELSE i >= c.pos

SeenInv ==
    \A t \in Threads :
        LET slots == view[call[t].dir].slots
        IN  SureInv(call[t], slots, sure[t]) /\ ListInv(call[t], slots, owed[t], listed[t])
-----------------------------------------------------------------------------
\* The steps again, by what they have to do with names.  c and d are the locals
\* of the operation before and after the step.
Same(c, d) == /\ d.op = c.op /\ d.stage = c.stage /\ d.p = c.p /\ d.q = c.q
              /\ d.todo = c.todo /\ d.dir = c.dir

Rests(d) == d.pc \in {"idle", "opened", "held", "reopen", "clear"}

Walks(d) == d.pc = "root" /\ d.todo = IF d.op = "rename" /\ d.stage = 2 THEN d.q ELSE d.p

Scans(t, c, d) ==
    /\ c.pc \in {"root", "enter"} /\ d.pc = "scan" /\ d.pos = 1 /\ view' = view
    /\ d.op = c.op /\ d.stage = c.stage /\ d.p = c.p /\ d.q = c.q
    /\ d.todo = IF c.pc = "root" THEN c.todo ELSE Tail(c.todo)
    /\ d.dir \in Files /\ d.todo # << >>
    /\ sure'[t] => Holds(view[d.dir].slots, Head(d.todo))

Enters(c, d) == c.pc = "scan" /\ d.pc = "enter" /\ Same(c, d)

Matches(c, slots) ==
    c.pos \in DOMAIN slots /\ slots[c.pos].in_use /\ slots[c.pos].name = Head(c.todo)

Passes(t, c, d, slots) ==
    /\ c.pc = "scan" /\ d.pc = "scan" /\ Same(c, d) /\ d.pos = c.pos + 1
    /\ ~Matches(c, slots) /\ view' = view /\ sure' = sure

Chooses(c, d, slots) ==
    /\ c.pc = "scan" /\ d.pc = "entry" /\ Same(c, d) /\ AtEntry(c) /\ view' = view
    /\ c.pos > Len(slots) \/ (Matches(c, slots) /\ d.at = c.pos)

Lists(t, d) ==
    /\ d.pc = "list" /\ d.pos = 1 /\ d.dir \in Files /\ view' = view
    /\ owed'[t] = NamesIn(view[d.dir].slots) /\ listed'[t] = {}

ListsOn(t, c, d, slots) ==
    /\ c.pc = "list" /\ d.pc = "list" /\ Same(c, d) /\ d.pos = c.pos + 1
    /\ c.pos \in DOMAIN slots /\ view' = view /\ owed' = owed
    /\ listed'[t] = IF slots[c.pos].in_use THEN listed[t] \cup {slots[c.pos].name} ELSE listed[t]

Commits(c, d) ==
    /\ c.pc = "entry" /\ d.pc = "add" /\ Same(c, d) /\ d.at = c.at /\ AddOp(c)
    /\ view'[c.dir] = view[c.dir]

Lands(t, c, d, slots) ==
    \/ Rests(d) \/ Walks(d) \/ Scans(t, c, d) \/ Enters(c, d) \/ Passes(t, c, d, slots)
    \/ Chooses(c, d, slots) \/ Lists(t, d) \/ ListsOn(t, c, d, slots) \/ Commits(c, d)

\* What the step does to the others: nothing, or the write of a slot.
Calm(t) ==
    /\ \A u \in Threads : u # t => sure'[u] = sure[u] /\ owed'[u] = owed[u] /\ listed'[u] = listed[u]
    /\ \A e \in Files : \/ view'[e].slots = view[e].slots
                        \/ view'[e].slots = << >> /\ \A u \in Threads : call[u].dir # e

Writes(t, c, d) ==
    /\ listed' = listed /\ (Rests(d) \/ Walks(d))
    /\ \/ c.pc = "clear" /\ WriteSlot(c.dir, c.at, Unused)
       \/ c.pc = "add" /\ WriteSlot(c.dir, c.at, Slot(Target(c), c.file))

Shape(t, d) ==
    /\ call' = [call EXCEPT ![t] = d] /\ d.op \in Ops[t] \cup {call[t].op, "none"}
    /\ \/ Lands(t, call[t], d, view[call[t].dir].slots) /\ Calm(t)
       \/ Writes(t, call[t], d)

Shaped(t) == \E d : Shape(t, d)
-----------------------------------------------------------------------------
LEMMA SameCalm ==
  ASSUME NEW t, UNCHANGED view,
         \A u \in Threads : u # t => sure'[u] = sure[u] /\ owed'[u] = owed[u] /\ listed'[u] = listed[u]
  PROVE  Calm(t)
BY DEF Calm

LEMMA ReturnRests ==
  ASSUME NEW t, NEW fhs, NEW left, Return(t, fhs, left), Calm(t)
  PROVE  Shaped(t)
BY IdleFacts DEF Return, Become, Shaped, Shape, Lands, Rests, Idle

LEMMA StartShape ==
  ASSUME DirInv, NEW t \in Threads, Start(t)
  PROVE  Shaped(t)
<1>1. PICK op \in Ops[t], p \in Paths :
      \E q \in IF op = "rename" THEN Paths \ {<< >>} ELSE {<< >>} :
        /\ call' = [call EXCEPT ![t] = Begin(op, p, q)]
        /\ UNCHANGED <<view, sure, owed, listed>>
  BY DEF Start, Does, Become
<1>2. PICK q : /\ call' = [call EXCEPT ![t] = Begin(op, p, q)]
               /\ UNCHANGED <<view, sure, owed, listed>>
  BY <1>1
<1>3. PICK d : d = Begin(op, p, q)
  OBVIOUS
<1>4. d.op = op /\ d.p = p /\ d.pc = "root" /\ d.stage = 1 /\ d.todo = p
  BY <1>3 DEF Begin, Idle
<1>5. Walks(d)
  BY <1>4 DEF Walks
<1>6. Calm(t)
  BY <1>2, SameCalm
<1> QED
  BY <1>2, <1>3, <1>4, <1>5, <1>6 DEF Shaped, Shape, Lands

\* A walk that goes on in dir.
LEMMA ScanShape ==
  ASSUME DirInv, NEW t \in Threads, NEW dir \in Files, NEW todo, NEW c \in Calls, c = call[t],
         c.pc \in {"root", "enter"}, todo = IF c.pc = "root" THEN c.todo ELSE Tail(c.todo),
         NEW d, d = ToScan(c, dir, todo), Become(t, d), NowScans(t, dir, todo),
         UNCHANGED <<view, owed, listed>>
  PROVE  Shaped(t)
<1>1. sure \in [Threads -> BOOLEAN]
  BY DEF DirInv, HistoryInv
<1>2. Calm(t)
  BY <1>1, SameCalm DEF NowScans
<1>3. /\ d.op = c.op /\ d.stage = c.stage /\ d.p = c.p /\ d.q = c.q
      /\ d.pc = (IF todo = << >> THEN "opened" ELSE "scan")
      /\ d.dir = dir /\ d.todo = todo /\ d.pos = 1
  BY DEF ToScan, Calls
<1>4. CASE todo = << >>
  BY <1>2, <1>3, <1>4 DEF Shaped, Shape, Lands, Rests, Become
<1>5. CASE todo # << >>
  <2>1. sure'[t] => Holds(view[dir].slots, Head(todo))
    BY <1>1 DEF NowScans
  <2>2. Scans(t, c, d)
    BY <1>3, <1>5, <2>1 DEF Scans
  <2> QED
    BY <1>2, <1>3, <2>2 DEF Shaped, Shape, Lands, Become
<1> QED
  BY <1>4, <1>5

LEMMA OpenRootShape ==
  ASSUME DirInv, NEW t \in Threads, OpenRoot(t)
  PROVE  Shaped(t)
<1>1. call[t].pc = "root" /\ UNCHANGED <<view, owed, listed>> /\ call[t] \in Calls
  BY Facts DEF OpenRoot, Does
<1>2. CASE /\ Become(t, ToScan(call[t], Root, call[t].todo))
           /\ NowScans(t, Root, call[t].todo)
  <2>1. Root \in Files
    BY DirectoryAssumption
  <2> QED
    BY <1>1, <1>2, <2>1, ScanShape
<1>3. CASE /\ Return(t, open_fhs - HandlesOf(call[t]), 0)
           /\ UNCHANGED sure
  BY <1>1, <1>3, SameCalm, ReturnRests
<1> QED
  BY <1>2, <1>3 DEF OpenRoot

LEMMA EnterShape ==
  ASSUME DirInv, NEW t \in Threads, Enter(t)
  PROVE  Shaped(t)
<1>1. call[t].pc = "enter" /\ UNCHANGED <<view, owed, listed>> /\ call[t] \in Calls
      /\ call[t].ent \in Files
  BY Facts DEF Enter, Does, WalkInv
<1>2. CASE /\ Become(t, ToScan(call[t], call[t].ent, Tail(call[t].todo)))
           /\ NowScans(t, call[t].ent, Tail(call[t].todo))
  BY <1>1, <1>2, ScanShape
<1>3. CASE /\ Return(t, open_fhs - HandlesOf(call[t]), 0)
           /\ UNCHANGED sure
  BY <1>1, <1>3, SameCalm, ReturnRests
<1> QED
  BY <1>2, <1>3 DEF Enter

LEMMA ScanSlotShape ==
  ASSUME DirInv, NEW t \in Threads, ScanSlot(t)
  PROVE  Shaped(t)
<1> DEFINE c == call[t]
           slots == view[c.dir].slots
           s == slots[c.pos]
           found == s.in_use /\ s.name = Head(c.todo)
<1>1. /\ c.pc = "scan" /\ c.pos <= Len(slots)
      /\ UNCHANGED <<view, open_fhs, down, leaked, unseen, sure, owed, listed>>
  BY DEF ScanSlot, Does, history
<1>2. /\ c \in Calls /\ slots \in Seq(Slots) /\ c.pos \in 1 .. Len(slots) + 1
  BY <1>1, Facts DEF WalkInv, PlaceInv, ViewInv, Views
<1>3. c.pos \in DOMAIN slots
  BY <1>1, <1>2
<1>4. Calm(t)
  BY <1>1, SameCalm
<1>5. CASE found
  <2> DEFINE l == IF AtEntry(c) THEN "entry" ELSE "enter"
  <2>1. PICK d : d = [c EXCEPT !.pc = l, !.ent = s.gname, !.at = c.pos]
    OBVIOUS
  <2>2. Become(t, d)
    BY <1>5, <2>1 DEF ScanSlot
  <2>3. Same(c, d) /\ d.pc = l /\ d.at = c.pos /\ d.op = c.op
    BY <1>2, <2>1 DEF Calls, Same
  <2>4. Matches(c, slots)
    BY <1>3, <1>5 DEF Matches
  <2>5. AtEntry(c) => Chooses(c, d, slots)
    BY <1>1, <2>3, <2>4 DEF Chooses
  <2>6. ~AtEntry(c) => Enters(c, d)
    BY <1>1, <2>3 DEF Enters
  <2> QED
    BY <1>4, <2>2, <2>3, <2>5, <2>6 DEF Shaped, Shape, Lands, Become
<1>6. CASE ~found
  <2> DEFINE free == IF ~s.in_use /\ c.free = 0 THEN c.pos ELSE c.free
  <2>1. PICK d : d = [c EXCEPT !.pos = c.pos + 1, !.free = free]
    OBVIOUS
  <2>2. Become(t, d)
    BY <1>6, <2>1, <1>2 DEF ScanSlot, Calls
  <2>3. Same(c, d) /\ d.pc = "scan" /\ d.pos = c.pos + 1 /\ d.op = c.op
    BY <1>1, <1>2, <2>1 DEF Calls, Same
  <2>4. Passes(t, c, d, slots)
    BY <1>1, <1>6, <2>3 DEF Passes, Matches
  <2> QED
    BY <1>4, <2>2, <2>3, <2>4 DEF Shaped, Shape, Lands, Become
<1> QED
  BY <1>5, <1>6

LEMMA ScanEndsShape ==
  ASSUME DirInv, NEW t \in Threads, ScanEnds(t)
  PROVE  Shaped(t)
<1> DEFINE c == call[t]
           slots == view[c.dir].slots
<1>1. /\ c.pc = "scan" /\ c.pos > Len(slots) /\ c \in Calls
      /\ UNCHANGED <<view, down, unseen, sure, owed, listed>>
  BY Facts DEF ScanEnds, Does
<1>2. Calm(t)
  BY <1>1, SameCalm
<1>3. CASE AtEntry(c)
  <2> DEFINE at == IF c.free = 0 THEN c.pos ELSE c.free
  <2>1. PICK d : d = [c EXCEPT !.pc = "entry", !.at = at]
    OBVIOUS
  <2>2. Become(t, d)
    BY <1>3, <2>1 DEF ScanEnds
  <2>3. Same(c, d) /\ d.pc = "entry" /\ d.op = c.op
    BY <1>1, <2>1 DEF Calls, Same
  <2>4. Chooses(c, d, slots)
    BY <1>1, <1>3, <2>3 DEF Chooses
  <2> QED
    BY <1>2, <2>2, <2>3, <2>4 DEF Shaped, Shape, Lands, Become
<1>4. CASE ~AtEntry(c)
  BY <1>2, <1>4, ReturnRests DEF ScanEnds
<1> QED
  BY <1>3, <1>4

LEMMA OpenedShape ==
  ASSUME DirInv, NEW t \in Threads, Opened(t)
  PROVE  Shaped(t)
<1> DEFINE c == call[t]
           slots == view[c.dir].slots
<1>1. /\ c.pc = "opened" /\ c \in Calls /\ c.dir \in Files
      /\ UNCHANGED <<view, down, unseen, sure>>
  BY Facts DEF Opened, Does, WalkInv
<1>2. CASE /\ Become(t, [c EXCEPT !.pc = IF c.op = "open" THEN "held" ELSE "list", !.pos = 1])
           /\ owed' = [owed EXCEPT ![t] = IF c.op = "open" THEN {} ELSE NamesIn(slots)]
           /\ listed' = [listed EXCEPT ![t] = {}]
  <2> DEFINE l == IF c.op = "open" THEN "held" ELSE "list"
  <2>1. PICK d : d = [c EXCEPT !.pc = l, !.pos = 1]
    OBVIOUS
  <2>2. d.op = c.op /\ d.dir = c.dir /\ d.pc = l /\ d.pos = 1
    BY <1>1, <2>1 DEF Calls
  <2>3. owed \in [Threads -> SUBSET Names] /\ listed \in [Threads -> SUBSET Names]
    BY DEF DirInv, HistoryInv
  <2>4. Calm(t)
    BY <1>1, <1>2, <2>3, SameCalm
  <2>5. c.op # "open" => Lists(t, d)
    BY <1>1, <1>2, <2>2, <2>3 DEF Lists
  <2>6. c.op = "open" => Rests(d)
    BY <2>2 DEF Rests
  <2> QED
    BY <1>2, <2>1, <2>2, <2>4, <2>5, <2>6 DEF Shaped, Shape, Lands, Become
<1>3. CASE Return(t, open_fhs - 1, 0) /\ UNCHANGED <<owed, listed>>
  BY <1>1, <1>3, SameCalm, ReturnRests
<1> QED
  BY <1>2, <1>3 DEF Opened

LEMMA VisitShape ==
  ASSUME DirInv, NEW t \in Threads, Visit(t)
  PROVE  Shaped(t)
<1>1. Return(t, open_fhs - 1, 0) /\ UNCHANGED <<sure, owed, listed>>
  BY DEF Visit
<1>2. view \in Views
  BY DEF DirInv, ViewInv
<1>3. \A e \in Files : view'[e].slots = view[e].slots
  <2>1. CASE UNCHANGED view
    BY <2>1
  <2>2. CASE \E perm \in Perms : view' = [view EXCEPT ![call[t].dir].perm = perm]
    BY <1>2, <2>2 DEF Views
  <2> QED
    BY <2>1, <2>2 DEF Visit
<1>4. Calm(t)
  BY <1>1, <1>3 DEF Calm
<1> QED
  BY <1>1, <1>4, ReturnRests

LEMMA ReadDirShape ==
  ASSUME DirInv, NEW t \in Threads, ReadDir(t)
  PROVE  Shaped(t)
<1> DEFINE c == call[t]
           slots == view[c.dir].slots
<1>1. /\ c \in Calls /\ listed \in [Threads -> SUBSET Names]
  BY Facts DEF DirInv, HistoryInv
<1>2. /\ c.pc = "list" /\ c.pos <= Len(slots)
      /\ Become(t, [c EXCEPT !.pos = c.pos + 1])
      /\ listed' = IF slots[c.pos].in_use
                   THEN [listed EXCEPT ![t] = listed[t] \cup {slots[c.pos].name}] ELSE listed
      /\ UNCHANGED <<view, sure, owed>>
  BY <1>1 DEF ReadDir, Does, Calls
<1>3. slots \in Seq(Slots) /\ c.pos \in 1 .. Len(slots) + 1
  BY <1>2, Facts DEF WalkInv, ViewInv, Views, PlaceInv
<1>4. c.pos \in DOMAIN slots
  BY <1>2, <1>3
<1>5. PICK d : d = [c EXCEPT !.pos = c.pos + 1]
  OBVIOUS
<1>6. Same(c, d) /\ d.pc = "list" /\ d.pos = c.pos + 1 /\ d.op = c.op
  BY <1>1, <1>2, <1>5 DEF Calls, Same
<1>7. listed'[t] = IF slots[c.pos].in_use THEN listed[t] \cup {slots[c.pos].name} ELSE listed[t]
  BY <1>1, <1>2
<1>8. ListsOn(t, c, d, slots)
  BY <1>2, <1>4, <1>6, <1>7 DEF ListsOn
<1>9. Calm(t)
  BY <1>1, <1>2, SameCalm
<1> QED
  BY <1>2, <1>5, <1>6, <1>8, <1>9 DEF Shaped, Shape, Lands, Become

LEMMA ReleaseShape ==
  ASSUME DirInv, NEW t \in Threads, Release(t)
  PROVE  Shaped(t)
<1>1. /\ Return(t, open_fhs - 1, 0)
      /\ owed' = [owed EXCEPT ![t] = {}] /\ listed' = [listed EXCEPT ![t] = {}]
      /\ UNCHANGED <<view, sure>>
  BY DEF Release
<1>2. owed \in [Threads -> SUBSET Names] /\ listed \in [Threads -> SUBSET Names]
  BY DEF DirInv, HistoryInv
<1>3. Calm(t)
  BY <1>1, <1>2, SameCalm
<1> QED
  BY <1>1, <1>3, ReturnRests

LEMMA CreateFindsEntryShape ==
  ASSUME DirInv, NEW t \in Threads, CreateFindsEntry(t)
  PROVE  Shaped(t)
<1>1. /\ Become(t, [call[t] EXCEPT !.pc = "reopen"]) /\ UNCHANGED <<view, sure, owed, listed>>
      /\ call[t] \in Calls
  BY Facts DEF CreateFindsEntry
<1>2. PICK d : d = [call[t] EXCEPT !.pc = "reopen"]
  OBVIOUS
<1>3. d.pc = "reopen" /\ d.op = call[t].op
  BY <1>1, <1>2 DEF Calls
<1>4. Rests(d)
  BY <1>3 DEF Rests
<1>5. Calm(t)
  BY <1>1, SameCalm
<1> QED
  BY <1>1, <1>2, <1>3, <1>4, <1>5 DEF Shaped, Shape, Lands, Become

LEMMA ReopenShape ==
  ASSUME DirInv, NEW t \in Threads, Reopen(t)
  PROVE  Shaped(t)
<1>1. UNCHANGED <<view, sure, owed, listed>> /\ call[t] \in Calls
  BY Facts DEF Reopen
<1>2. Calm(t)
  BY <1>1, SameCalm
<1>3. CASE Become(t, [call[t] EXCEPT !.pc = "held", !.dir = call[t].ent])
  <2>1. PICK d : d = [call[t] EXCEPT !.pc = "held", !.dir = call[t].ent]
    OBVIOUS
  <2>2. d.pc = "held" /\ d.op = call[t].op
    BY <1>1, <2>1 DEF Calls
  <2>3. Rests(d)
    BY <2>2 DEF Rests
  <2> QED
    BY <1>2, <1>3, <2>1, <2>2, <2>3 DEF Shaped, Shape, Lands, Become
<1>4. CASE Return(t, open_fhs, 0)
  BY <1>2, <1>4, ReturnRests
<1> QED
  BY <1>3, <1>4 DEF Reopen

LEMMA CreateFileShape ==
  ASSUME DirInv, NEW t \in Threads, CreateFile(t)
  PROVE  Shaped(t)
<1> DEFINE c == call[t]
<1>1. /\ c.pc = "entry" /\ c.op \in {"create", "mkdir"} /\ UNCHANGED <<sure, owed, listed>>
      /\ c \in Calls /\ c.dir \in Files /\ view \in Views
  BY Facts DEF CreateFile, Does, WalkInv
<1>2. CASE \E f \in Files, perm \in Perms :
             /\ Fresh(f)
             /\ view' = [view EXCEPT ![f] = File(WantedType(c), perm)]
             /\ Become(t, [c EXCEPT !.pc = "add", !.file = f])
  <2>1. PICK f \in Files, perm \in Perms :
             /\ Fresh(f)
             /\ view' = [view EXCEPT ![f] = File(WantedType(c), perm)]
             /\ Become(t, [c EXCEPT !.pc = "add", !.file = f])
    BY <1>2
  <2>2. PICK d : d = [c EXCEPT !.pc = "add", !.file = f]
    OBVIOUS
  <2>3. Same(c, d) /\ d.pc = "add" /\ d.at = c.at /\ d.op = c.op
    BY <1>1, <2>2 DEF Calls, Same
  <2>4. \A u \in Threads : call[u].dir # f
    BY <2>1 DEF Fresh
  <2>5. File(WantedType(c), perm).slots = << >>
    BY DEF File
  <2>6. (\A e \in Files : e # f => view'[e] = view[e]) /\ view'[f].slots = << >>
    BY <1>1, <2>1, <2>5 DEF Views
  <2>7. Calm(t)
    BY <1>1, <2>4, <2>6 DEF Calm
  <2>8. Commits(c, d)
    BY <1>1, <2>3, <2>4, <2>6 DEF Commits, AddOp
  <2> QED
    BY <2>1, <2>2, <2>3, <2>7, <2>8 DEF Shaped, Shape, Lands, Become
<1>3. CASE Return(t, open_fhs, 1) /\ UNCHANGED view
  BY <1>1, <1>3, SameCalm, ReturnRests
<1> QED
  BY <1>2, <1>3 DEF CreateFile

LEMMA CreateAddsShape ==
  ASSUME DirInv, NEW t \in Threads, CreateAdds(t)
  PROVE  Shaped(t)
<1> DEFINE c == call[t]
<1>1. /\ c.pc = "add" /\ c.op \in {"create", "mkdir"} /\ listed' = listed
      /\ WriteSlot(c.dir, c.at, Slot(Last(c.p), c.file)) /\ c \in Calls
  BY Facts DEF CreateAdds, Does
<1>2. Target(c) = Last(c.p)
  BY <1>1 DEF Target
<1>3. WriteSlot(c.dir, c.at, Slot(Target(c), c.file))
  BY <1>1, <1>2
<1>4. CASE Become(t, [c EXCEPT !.pc = "held", !.dir = c.file])
  <2>1. PICK d : d = [c EXCEPT !.pc = "held", !.dir = c.file]
    OBVIOUS
  <2>2. d.pc = "held" /\ d.op = c.op
    BY <1>1, <2>1 DEF Calls
  <2>3. Writes(t, c, d)
    BY <1>1, <1>3, <2>2 DEF Writes, Rests
  <2> QED
    BY <1>4, <2>1, <2>2, <2>3 DEF Shaped, Shape, Become
<1>5. CASE Return(t, open_fhs - 1, 1)
  <2>1. Writes(t, c, Idle)
    BY <1>1, <1>3, IdleFacts DEF Writes, Rests
  <2> QED
    BY <1>5, <2>1 DEF Shaped, Shape, Return, Become, Idle
<1> QED
  BY <1>4, <1>5 DEF CreateAdds

LEMMA RemoveChecksShape ==
  ASSUME DirInv, NEW t \in Threads, RemoveChecks(t)
  PROVE  Shaped(t)
<1>1. UNCHANGED <<view, sure, owed, listed>> /\ call[t] \in Calls
  BY Facts DEF RemoveChecks
<1>2. Calm(t)
  BY <1>1, SameCalm
<1>3. CASE Become(t, [call[t] EXCEPT !.pc = "clear"])
  <2>1. PICK d : d = [call[t] EXCEPT !.pc = "clear"]
    OBVIOUS
  <2>2. d.pc = "clear" /\ d.op = call[t].op
    BY <1>1, <2>1 DEF Calls
  <2>3. Rests(d)
    BY <2>2 DEF Rests
  <2> QED
    BY <1>2, <1>3, <2>1, <2>2, <2>3 DEF Shaped, Shape, Lands, Become
<1>4. CASE Return(t, open_fhs - 1, 0)
  BY <1>2, <1>4, ReturnRests
<1> QED
  BY <1>3, <1>4 DEF RemoveChecks

LEMMA RenameFindsOldShape ==
  ASSUME DirInv, NEW t \in Threads, RenameFindsOld(t)
  PROVE  Shaped(t)
<1>1. UNCHANGED <<view, sure, owed, listed>> /\ call[t] \in Calls
  BY Facts DEF RenameFindsOld
<1>2. Calm(t)
  BY <1>1, SameCalm
<1>3. CASE Become(t, [call[t] EXCEPT !.pc = "clear"])
  <2>1. PICK d : d = [call[t] EXCEPT !.pc = "clear"]
    OBVIOUS
  <2>2. d.pc = "clear" /\ d.op = call[t].op
    BY <1>1, <2>1 DEF Calls
  <2>3. Rests(d)
    BY <2>2 DEF Rests
  <2> QED
    BY <1>2, <1>3, <2>1, <2>2, <2>3 DEF Shaped, Shape, Lands, Become
<1>4. CASE Return(t, open_fhs - 1, 0)
  BY <1>2, <1>4, ReturnRests
<1> QED
  BY <1>3, <1>4 DEF RenameFindsOld

LEMMA RenameChecksShape ==
  ASSUME DirInv, NEW t \in Threads, RenameChecks(t)
  PROVE  Shaped(t)
<1> DEFINE c == call[t]
<1>1. /\ c.pc = "entry" /\ c.op = "rename" /\ c.stage = 2 /\ c \in Calls
      /\ UNCHANGED <<view, sure, owed, listed>>
  BY Facts DEF RenameChecks, Does
<1>2. Calm(t)
  BY <1>1, SameCalm
<1>3. CASE Become(t, [c EXCEPT !.pc = "add"])
  <2>1. PICK d : d = [c EXCEPT !.pc = "add"]
    OBVIOUS
  <2>2. Same(c, d) /\ d.pc = "add" /\ d.at = c.at /\ d.op = c.op
    BY <1>1, <2>1 DEF Calls, Same
  <2>3. Commits(c, d)
    BY <1>1, <2>2 DEF Commits, AddOp
  <2> QED
    BY <1>2, <1>3, <2>1, <2>2, <2>3 DEF Shaped, Shape, Lands, Become
<1>4. CASE Return(t, open_fhs - 1, 1)
  BY <1>2, <1>4, ReturnRests
<1> QED
  BY <1>3, <1>4 DEF RenameChecks

LEMMA RemoveClearsShape ==
  ASSUME DirInv, NEW t \in Threads, RemoveClears(t)
  PROVE  Shaped(t)
<1>1. /\ call[t].pc = "clear" /\ WriteSlot(call[t].dir, call[t].at, Unused)
      /\ Return(t, open_fhs - 1, 0) /\ listed' = listed
  BY DEF RemoveClears, Does
<1>2. Writes(t, call[t], Idle)
  BY <1>1, IdleFacts DEF Writes, Rests
<1> QED
  BY <1>1, <1>2 DEF Shaped, Shape, Return, Become, Idle

LEMMA RenameOpenedShape ==
  ASSUME DirInv, NEW t \in Threads, RenameOpened(t)
  PROVE  Shaped(t)
<1> DEFINE c == call[t]
<1>1. /\ c.op = "rename" /\ c \in Calls
      /\ Become(t, [c EXCEPT !.pc = "root", !.stage = 2, !.todo = c.q, !.file = c.dir])
      /\ UNCHANGED <<view, sure, owed, listed>>
  BY Facts DEF RenameOpened, history
<1>2. PICK d : d = [c EXCEPT !.pc = "root", !.stage = 2, !.todo = c.q, !.file = c.dir]
  OBVIOUS
<1>3. d.op = c.op /\ d.stage = 2 /\ d.q = c.q /\ d.pc = "root" /\ d.todo = c.q
  BY <1>1, <1>2 DEF Calls
<1>4. Walks(d)
  BY <1>1, <1>3 DEF Walks
<1>5. Calm(t)
  BY <1>1, SameCalm
<1> QED
  BY <1>1, <1>2, <1>3, <1>4, <1>5 DEF Shaped, Shape, Lands, Become

LEMMA RenameAddsShape ==
  ASSUME DirInv, NEW t \in Threads, RenameAdds(t)
  PROVE  Shaped(t)
<1> DEFINE c == call[t]
<1>1. /\ c.pc = "add" /\ c.op = "rename" /\ c \in Calls /\ listed' = listed
      /\ WriteSlot(c.dir, c.at, Slot(Last(c.q), c.file))
      /\ Become(t, [c EXCEPT !.pc = "root", !.stage = 3, !.todo = c.p])
  BY Facts DEF RenameAdds, Does
<1>2. PICK d : d = [c EXCEPT !.pc = "root", !.stage = 3, !.todo = c.p]
  OBVIOUS
<1>3. d.op = c.op /\ d.stage = 3 /\ d.p = c.p /\ d.pc = "root" /\ d.todo = c.p
  BY <1>1, <1>2 DEF Calls
<1>4. Walks(d)
  BY <1>3 DEF Walks
<1>5. Target(c) = Last(c.q)
  BY <1>1 DEF Target
<1>6. Writes(t, c, d)
  BY <1>1, <1>4, <1>5 DEF Writes
<1> QED
  BY <1>1, <1>2, <1>3, <1>6 DEF Shaped, Shape, Become

LEMMA StepShape ==
  ASSUME DirInv, NEW t \in Threads, Step(t)
  PROVE  Shaped(t)
BY StartShape, OpenRootShape, ScanSlotShape, ScanEndsShape, EnterShape, OpenedShape,
   VisitShape, ReadDirShape, ReleaseShape, CreateFindsEntryShape, ReopenShape,
   CreateFileShape, CreateAddsShape, RemoveChecksShape, RemoveClearsShape,
   RenameOpenedShape, RenameChecksShape, RenameAddsShape, RenameFindsOldShape DEF Step
-----------------------------------------------------------------------------
\* The names of one directory.
Unique(slots) ==
    \A i, j \in DOMAIN slots :
        slots[i].in_use /\ slots[j].in_use /\ slots[i].name = slots[j].name => i = j

LEMMA UniqueByDirectory == UniqueNames <=> \A d \in Files : Unique(view[d].slots)
BY DEF UniqueNames, Unique

\* After the write of a slot a name that is still there is where it was.
LEMMA PlaceKept ==
  ASSUME NEW old, NEW new, NEW i, DOMAIN new = DOMAIN old \cup {i},
         \A j \in DOMAIN old : j # i => new[j] = old[j], Unique(old), NEW n,
         NEW k \in DOMAIN old, old[k].in_use, old[k].name = n, Holds(new, n)
  PROVE  k \in DOMAIN new /\ new[k].in_use /\ new[k].name = n
<1>1. PICK j \in DOMAIN new : new[j].in_use /\ new[j].name = n
  BY DEF Holds
<1>2. CASE k # i
  BY <1>2
<1>3. CASE k = i /\ j = i
  BY <1>1, <1>3
<1>4. CASE k = i /\ j # i
  <2>1. j \in DOMAIN old /\ new[j] = old[j]
    BY <1>4
  <2> QED
    BY <1>1, <1>4, <2>1 DEF Unique
<1> QED
  BY <1>2, <1>3, <1>4

\* A step that writes a slot, in terms of the slots.
LEMMA WriteFacts ==
  ASSUME DirInv, NEW t \in Threads, NEW d, Writes(t, call[t], d)
  PROVE  /\ call[t].dir \in Files /\ call[t].pc \in {"add", "clear"} /\ listed' = listed
         /\ \E s : /\ Written(call[t].dir, call[t].at, s)
                   /\ \/ call[t].pc = "clear" /\ ~s.in_use
                      \/ call[t].pc = "add" /\ s.name = Target(call[t])
         /\ \A u \in Threads :
              /\ sure'[u] => sure[u]
              /\ sure'[u] /\ call[u].pc = "scan" /\ call[u].dir = call[t].dir
                   => Holds(view'[call[t].dir].slots, Head(call[u].todo))
              /\ owed'[u] \subseteq owed[u]
              /\ call[u].dir = call[t].dir => owed'[u] \subseteq NamesIn(view'[call[t].dir].slots)
<1> DEFINE c == call[t]
<1>1. c.pc \in {"add", "clear"} /\ listed' = listed
  BY DEF Writes
<1>2. /\ c \in Calls /\ WalkInv(c) /\ c.dir \in Files /\ c.at \in 1 .. Len(view[c.dir].slots) + 1
  BY <1>1, Facts DEF WalkInv, PlaceInv
<1>3. PICK s : /\ WriteSlot(c.dir, c.at, s)
               /\ \/ c.pc = "clear" /\ s = Unused
                  \/ c.pc = "add" /\ s = Slot(Target(c), c.file)
  BY DEF Writes
<1>4. /\ s \in Slots /\ (s.in_use => s.name \in Names /\ s.gname \in Files)
      /\ c.pc = "clear" => ~s.in_use
      /\ c.pc = "add" => s.name = Target(c)
  <2>1. CASE c.pc = "clear"
    BY <1>3, <2>1, SlotFacts
  <2>2. CASE c.pc = "add"
    <3>1. c.file \in Files /\ c.p \in Seq(Names) /\ c.q \in Seq(Names)
      BY <1>2, <2>2 DEF WalkInv, Calls
    <3>2. Target(c) \in Names
      <4>1. (c.op = "rename" => c.q # << >>) /\ (c.op \in Mutators => c.p # << >>)
        BY <1>2 DEF WalkInv
      <4>2. c.op \in Mutators
        BY <1>2, <2>2 DEF WalkInv, Mutators
      <4> QED
        BY <3>1, <4>1, <4>2, LastName DEF Target
    <3> QED
      BY <1>3, <2>2, <3>1, <3>2, SlotFacts
  <2> QED
    BY <1>1, <2>1, <2>2
<1>5. Written(c.dir, c.at, s)
  BY <1>2, <1>3, <1>4, SlotWritten
<1> DEFINE old == view[c.dir].slots
           new == [j \in 1 .. (IF c.at > Len(old) THEN c.at ELSE Len(old)) |->
                       IF j = c.at THEN s ELSE old[j]]
<1>6. /\ view' = [view EXCEPT ![c.dir].slots = new]
      /\ sure' = [u \in Threads |->
                     /\ sure[u]
                     /\ call[u].pc = "scan" /\ call[u].dir = c.dir => Holds(new, Head(call[u].todo))]
      /\ owed' = [u \in Threads |-> IF call[u].dir = c.dir THEN owed[u] \cap NamesIn(new)
                                    ELSE owed[u]]
  BY <1>3 DEF WriteSlot
<1> HIDE DEF new
<1>7. view'[c.dir].slots = new
  BY <1>2, <1>6, Facts DEF Views
<1>8. sure \in [Threads -> BOOLEAN]
  BY DEF DirInv, HistoryInv
<1>9. \A u \in Threads :
        /\ sure'[u] => sure[u]
        /\ sure'[u] /\ call[u].pc = "scan" /\ call[u].dir = c.dir => Holds(new, Head(call[u].todo))
        /\ owed'[u] \subseteq owed[u]
        /\ call[u].dir = c.dir => owed'[u] \subseteq NamesIn(new)
  BY <1>6, <1>8
<1> QED
  BY <1>1, <1>2, <1>4, <1>5, <1>7, <1>9
-----------------------------------------------------------------------------
\* The directory that a thread is in, when another thread takes a calm step.
LEMMA CalmSlots ==
  ASSUME NEW t, Calm(t), NEW u \in Threads, call[u].dir \in Files
  PROVE  view'[call[u].dir].slots = view[call[u].dir].slots
BY DEF Calm

LEMMA BusyInDirectory ==
  ASSUME NEW c, WalkInv(c), c.pc \in {"scan", "entry", "add", "list"}
  PROVE  c.dir \in Files
BY DEF WalkInv

Seen(c, slots, there, due, seen) == SureInv(c, slots, there) /\ ListInv(c, slots, due, seen)

LEMMA SeenByThread ==
  SeenInv <=> \A t \in Threads : Seen(call[t], view[call[t].dir].slots, sure[t], owed[t], listed[t])
BY DEF SeenInv, Seen

\* What the thread that steps has seen.
LEMMA SeenOwn ==
  ASSUME DirInv, SeenInv, UniqueNames, NEW t \in Threads, NEW d,
         Lands(t, call[t], d, view[call[t].dir].slots)
  PROVE  Seen(d, view'[d.dir].slots, sure'[t], owed'[t], listed'[t])
<1> DEFINE c == call[t]
           slots == view[c.dir].slots
<1>0. /\ c \in Calls /\ WalkInv(c) /\ view \in Views
      /\ Seen(c, slots, sure[t], owed[t], listed[t])
  BY Facts, SeenByThread
<1>1. CASE Rests(d) \/ Walks(d) \/ Enters(c, d) \/ Chooses(c, d, slots) \/ Commits(c, d)
  <2>1. d.pc # "scan" /\ d.pc # "list"
    BY <1>1 DEF Rests, Walks, Enters, Chooses, Commits
  <2> QED
    BY <2>1 DEF Seen, SureInv, ListInv
<1>2. CASE Scans(t, c, d)
  <2>1. /\ d.pc = "scan" /\ d.pos = 1 /\ view' = view /\ d.dir \in Files
        /\ sure'[t] => Holds(view[d.dir].slots, Head(d.todo))
    BY <1>2 DEF Scans
  <2>2. \A i \in DOMAIN view[d.dir].slots : i >= 1
    BY <1>0, <2>1 DEF Views
  <2> QED
    BY <2>1, <2>2 DEF Seen, SureInv, ListInv, Holds
<1>3. CASE Passes(t, c, d, slots)
  <2>1. /\ c.pc = "scan" /\ d.pc = "scan" /\ d.pos = c.pos + 1 /\ ~Matches(c, slots)
        /\ view' = view /\ sure' = sure /\ d.todo = c.todo /\ d.dir = c.dir /\ c.pos \in Nat
    BY <1>0, <1>3 DEF Passes, Same, Calls
  <2>2. c.dir \in Files
    BY <1>0, <2>1, BusyInDirectory
  <2>3. \A i \in DOMAIN slots : i \in Nat
    BY <1>0, <2>2 DEF Views
  <2>4. SureInv(d, slots, sure[t])
    <3> SUFFICES ASSUME sure[t] PROVE \E i \in DOMAIN slots :
                   i >= c.pos + 1 /\ slots[i].in_use /\ slots[i].name = Head(c.todo)
      BY <2>1 DEF SureInv
    <3>1. PICK i \in DOMAIN slots : i >= c.pos /\ slots[i].in_use /\ slots[i].name = Head(c.todo)
      BY <1>0, <2>1 DEF Seen, SureInv
    <3>2. i # c.pos
      BY <2>1, <3>1 DEF Matches
    <3>3. i >= c.pos + 1
      BY <2>1, <2>3, <3>1, <3>2
    <3> QED
      BY <3>1, <3>3
  <2> QED
    BY <2>1, <2>4 DEF Seen, ListInv
<1>4. CASE Lists(t, d)
  <2>1. /\ d.pc = "list" /\ d.pos = 1 /\ d.dir \in Files /\ view' = view
        /\ owed'[t] = NamesIn(view[d.dir].slots) /\ listed'[t] = {}
    BY <1>4 DEF Lists
  <2>2. \A i \in DOMAIN view[d.dir].slots : i >= 1
    BY <1>0, <2>1 DEF Views
  <2> QED
    BY <2>1, <2>2 DEF Seen, SureInv, ListInv, NamesIn
<1>5. CASE ListsOn(t, c, d, slots)
  <2>1. /\ c.pc = "list" /\ d.pc = "list" /\ d.dir = c.dir /\ d.pos = c.pos + 1 /\ c.pos \in Nat
        /\ c.pos \in DOMAIN slots /\ view' = view /\ owed' = owed
        /\ listed'[t] = IF slots[c.pos].in_use THEN listed[t] \cup {slots[c.pos].name} ELSE listed[t]
    BY <1>0, <1>5 DEF ListsOn, Same, Calls
  <2>2. c.dir \in Files
    BY <1>0, <2>1, BusyInDirectory
  <2>3. \A i \in DOMAIN slots : i \in Nat
    BY <1>0, <2>2 DEF Views
  <2>4. Unique(slots)
    BY <2>2, UniqueByDirectory
  <2>5. ASSUME NEW n \in owed[t]
        PROVE  \E i \in DOMAIN slots :
                 /\ slots[i].in_use /\ slots[i].name = n
                 /\ IF n \in listed'[t] THEN i < c.pos + 1 ELSE i >= c.pos + 1
    <3>1. PICK i \in DOMAIN slots :
            /\ slots[i].in_use /\ slots[i].name = n
            /\ IF n \in listed[t] THEN i < c.pos ELSE i >= c.pos
      BY <1>0, <2>1 DEF Seen, ListInv
    <3>2. i \in Nat
      BY <2>3
    <3>3. CASE n \in listed[t]
      <4>1. n \in listed'[t] /\ i < c.pos + 1
        BY <2>1, <3>1, <3>2, <3>3
      <4> QED
        BY <3>1, <4>1
    <3>4. CASE n \notin listed[t] /\ i = c.pos
      <4>1. n \in listed'[t] /\ i < c.pos + 1
        BY <2>1, <3>1, <3>2, <3>4
      <4> QED
        BY <3>1, <4>1
    <3>5. CASE n \notin listed[t] /\ i # c.pos
      <4>1. i >= c.pos + 1
        BY <2>1, <3>1, <3>2, <3>5
      <4>2. n \notin listed'[t]
        BY <2>1, <2>4, <3>1, <3>5 DEF Unique
      <4> QED
        BY <3>1, <4>1, <4>2
    <3> QED
      BY <3>3, <3>4, <3>5
  <2>6. ListInv(d, slots, owed[t], listed'[t])
    <3>1. d.pos = c.pos + 1
      BY <2>1
    <3> HIDE DEF slots
    <3> QED
      BY <2>5, <3>1 DEF ListInv
  <2> QED
    BY <2>1, <2>6 DEF Seen, SureInv
<1> QED
  BY <1>1, <1>2, <1>3, <1>4, <1>5 DEF Lands

\* What another thread has seen, when a slot is written.
LEMMA SeenWrite ==
  ASSUME DirInv, SeenInv, UniqueNames, NEW t \in Threads, NEW d, Writes(t, call[t], d),
         NEW u \in Threads
  PROVE  Seen(call[u], view'[call[u].dir].slots, sure'[u], owed'[u], listed'[u])
<1> DEFINE c == call[u]
           old == view[c.dir].slots
           new == view'[c.dir].slots
<1>0. WalkInv(c) /\ Seen(c, old, sure[u], owed[u], listed[u])
  BY Facts, SeenByThread
<1>1. /\ call[t].dir \in Files /\ listed' = listed
      /\ sure'[u] => sure[u]
      /\ sure'[u] /\ c.pc = "scan" /\ c.dir = call[t].dir => Holds(view'[call[t].dir].slots, Head(c.todo))
      /\ owed'[u] \subseteq owed[u]
      /\ c.dir = call[t].dir => owed'[u] \subseteq NamesIn(view'[call[t].dir].slots)
  BY WriteFacts
<1>2. PICK s : Written(call[t].dir, call[t].at, s)
  BY WriteFacts
<1>3. CASE c.pc \notin {"scan", "list"}
  BY <1>3 DEF Seen, SureInv, ListInv
<1>4. CASE c.pc \in {"scan", "list"} /\ c.dir # call[t].dir
  <2>1. c.dir \in Files
    BY <1>0, <1>4, BusyInDirectory
  <2>2. new = old
    BY <1>2, <1>4, <2>1 DEF Written
  <2>3. SureInv(c, new, sure'[u])
    BY <1>0, <1>1, <2>2 DEF Seen, SureInv
  <2>4. ListInv(c, new, owed'[u], listed'[u])
    BY <1>0, <1>1, <2>2 DEF Seen, ListInv
  <2> QED
    BY <2>3, <2>4 DEF Seen
<1>5. CASE c.pc \in {"scan", "list"} /\ c.dir = call[t].dir
  <2> DEFINE i == call[t].at
  <2>1. DOMAIN new = DOMAIN old \cup {i} /\ \A j \in DOMAIN old : j # i => new[j] = old[j]
    BY <1>2, <1>5 DEF Written
  <2>2. Unique(old)
    BY <1>1, <1>5, UniqueByDirectory
  <2> HIDE DEF i
  <2>3. \A n : \A k \in DOMAIN old : old[k].in_use /\ old[k].name = n /\ Holds(new, n)
               => k \in DOMAIN new /\ new[k].in_use /\ new[k].name = n
    BY <2>1, <2>2, PlaceKept
  <2>4. SureInv(c, new, sure'[u])
    <3> SUFFICES ASSUME c.pc = "scan", sure'[u]
                 PROVE  \E k \in DOMAIN new : k >= c.pos /\ new[k].in_use /\ new[k].name = Head(c.todo)
      BY DEF SureInv
    <3>1. PICK k \in DOMAIN old : k >= c.pos /\ old[k].in_use /\ old[k].name = Head(c.todo)
      BY <1>0, <1>1 DEF Seen, SureInv
    <3>2. Holds(new, Head(c.todo))
      BY <1>1, <1>5
    <3> QED
      BY <2>3, <3>1, <3>2
  <2>5. ListInv(c, new, owed'[u], listed'[u])
    <3> SUFFICES ASSUME c.pc = "list", NEW n \in owed'[u]
                 PROVE  \E k \in DOMAIN new : /\ new[k].in_use /\ new[k].name = n
                                              /\ IF n \in listed'[u] THEN k < c.pos ELSE k >= c.pos
      BY DEF ListInv
    <3>1. PICK k \in DOMAIN old : /\ old[k].in_use /\ old[k].name = n
                                  /\ IF n \in listed[u] THEN k < c.pos ELSE k >= c.pos
      BY <1>0, <1>1 DEF Seen, ListInv
    <3>2. Holds(new, n)
      BY <1>1, <1>5 DEF NamesIn, Holds
    <3>3. k \in DOMAIN new /\ new[k].in_use /\ new[k].name = n
      BY <2>3, <3>1, <3>2
    <3> QED
      BY <1>1, <3>1, <3>3
  <2> QED
    BY <2>4, <2>5 DEF Seen
<1> QED
  BY <1>3, <1>4, <1>5

LEMMA SeenStep ==
  ASSUME DirInv, SeenInv, UniqueNames, NEW t \in Threads, Step(t)
  PROVE  SeenInv'
<1>1. PICK d : Shape(t, d)
  BY StepShape DEF Shaped
<1>2. call' = [call EXCEPT ![t] = d] /\ call \in [Threads -> Calls]
  BY <1>1, Facts DEF Shape
<1>3. ASSUME NEW u \in Threads
      PROVE  Seen(call'[u], view'[call'[u].dir].slots, sure'[u], owed'[u], listed'[u])
  <2>1. CASE Writes(t, call[t], d)
    <3>1. CASE u = t
      <4>1. call'[u] = d /\ d.pc # "scan" /\ d.pc # "list"
        BY <1>2, <2>1, <3>1 DEF Writes, Rests, Walks
      <4> QED
        BY <4>1 DEF Seen, SureInv, ListInv
    <3>2. CASE u # t
      <4>1. call'[u] = call[u]
        BY <1>2, <3>2
      <4> QED
        BY <2>1, <4>1, SeenWrite
    <3> QED
      BY <3>1, <3>2
  <2>2. CASE Lands(t, call[t], d, view[call[t].dir].slots) /\ Calm(t)
    <3>1. CASE u = t
      <4>1. call'[u] = d
        BY <1>2, <3>1
      <4> QED
        BY <2>2, <3>1, <4>1, SeenOwn
    <3>2. CASE u # t
      <4>1. call'[u] = call[u] /\ sure'[u] = sure[u] /\ owed'[u] = owed[u] /\ listed'[u] = listed[u]
        BY <1>2, <2>2, <3>2 DEF Calm
      <4>2. WalkInv(call[u]) /\ Seen(call[u], view[call[u].dir].slots, sure[u], owed[u], listed[u])
        BY Facts, SeenByThread
      <4>3. CASE call[u].pc \in {"scan", "list"}
        <5>1. call[u].dir \in Files
          BY <4>2, <4>3, BusyInDirectory
        <5>2. view'[call[u].dir].slots = view[call[u].dir].slots
          BY <2>2, <5>1, CalmSlots
        <5> QED
          BY <4>1, <4>2, <5>2
      <4>4. CASE call[u].pc \notin {"scan", "list"}
        BY <4>1, <4>4 DEF Seen, SureInv, ListInv
      <4> QED
        BY <4>3, <4>4
    <3> QED
      BY <3>1, <3>2
  <2> QED
    BY <1>1, <2>1, <2>2 DEF Shape
<1> QED
  BY <1>3 DEF SeenInv, Seen

LEMMA SeenInit == Init => SeenInv
<1> SUFFICES ASSUME Init PROVE SeenInv
  OBVIOUS
<1>1. \A t \in Threads : call[t].pc = "idle"
  BY IdleFacts DEF Init
<1> QED
  BY <1>1 DEF SeenInv, SureInv, ListInv

LEMMA SeenNext == DirInv /\ SeenInv /\ UniqueNames /\ [Next]_vars => SeenInv'
<1> SUFFICES ASSUME DirInv, SeenInv, UniqueNames, [Next]_vars PROVE SeenInv'
  OBVIOUS
<1>1. CASE Next
  BY <1>1, SeenStep DEF Next
<1>2. CASE UNCHANGED vars
  BY <1>2 DEF vars, history, SeenInv
<1> QED
  BY <1>1, <1>2

LEMMA SeenAlways == Spec /\ []UniqueNames => []SeenInv
BY DirInvAlways, SeenInit, SeenNext, PTL DEF Spec

\* Where names are unique, a name that is in a directory all the time somebody
\* looks for it is found: however many threads write and reuse slots between the
\* reads of _find_insert_offset, it is always ahead of the scan.
THEOREM NamesFound == Spec /\ []UniqueNames => []PresentNamesFound
<1>1. DirInv /\ SeenInv => PresentNamesFound
  <2> SUFFICES ASSUME DirInv, SeenInv, NEW t \in Threads, call[t].pc = "scan", sure[t]
               PROVE  ~(call[t].pos > Len(view[call[t].dir].slots))
    BY DEF PresentNamesFound
  <2> DEFINE slots == view[call[t].dir].slots
  <2>1. call[t].dir \in Files /\ call[t] \in Calls /\ view \in Views
    BY Facts DEF WalkInv
  <2>2. slots \in Seq(Slots) /\ call[t].pos \in Nat
    BY <2>1 DEF Views, Calls
  <2>3. PICK i \in DOMAIN slots : i >= call[t].pos
    BY DEF SeenInv, SureInv
  <2> HIDE DEF slots
  <2>4. i \in Nat /\ i <= Len(slots) /\ Len(slots) \in Nat
    BY <2>2, <2>3
  <2> QED
    BY <2>2, <2>3, <2>4 DEF slots
<1> QED
  BY <1>1, DirInvAlways, SeenAlways, PTL

\* Where names are unique, a readdir returns every name that is in the directory
\* all the time it runs, and none of them twice, whatever other threads create,
\* remove and rename meanwhile.
THEOREM ListingsComplete == Spec /\ []UniqueNames => []ListingComplete
<1>1. DirInv /\ SeenInv /\ UniqueNames => ListingComplete
  <2> SUFFICES ASSUME DirInv, SeenInv, UniqueNames, NEW t \in Threads, call[t].pc = "list"
               PROVE  LET slots == view[call[t].dir].slots
                          left == {i \in DOMAIN slots : i >= call[t].pos /\ slots[i].in_use}
                      IN  /\ owed[t] \ listed[t] \subseteq {slots[i].name : i \in left}
                          /\ \A i \in left : slots[i].name \in owed[t] => slots[i].name \notin listed[t]
    BY DEF ListingComplete
  <2> DEFINE slots == view[call[t].dir].slots
             left == {i \in DOMAIN slots : i >= call[t].pos /\ slots[i].in_use}
  <2>1. call[t].dir \in Files /\ call[t] \in Calls /\ view \in Views
    BY Facts DEF WalkInv
  <2>2. slots \in Seq(Slots) /\ call[t].pos \in Nat /\ Unique(slots)
    BY <2>1, UniqueByDirectory DEF Views, Calls
  <2>3. ListInv(call[t], slots, owed[t], listed[t])
    BY DEF SeenInv
  <2> HIDE DEF slots
  <2>4. ASSUME NEW n \in owed[t], n \notin listed[t] PROVE n \in {slots[i].name : i \in left}
    BY <2>3, <2>4 DEF ListInv
  <2>5. ASSUME NEW i \in left, slots[i].name \in owed[t], slots[i].name \in listed[t] PROVE FALSE
    <3>1. PICK j \in DOMAIN slots : slots[j].in_use /\ slots[j].name = slots[i].name /\ j < call[t].pos
      BY <2>3, <2>5 DEF ListInv
    <3>2. i = j
      BY <2>2, <3>1 DEF Unique
    <3>3. i \in Nat
      BY <2>2
    <3> QED
      BY <2>2, <3>1, <3>2, <3>3
  <2> QED
    BY <2>4, <2>5 DEF slots
<1> QED
  BY <1>1, DirInvAlways, SeenAlways, PTL
-----------------------------------------------------------------------------
LEMMA LastOfTail ==
  ASSUME NEW s \in Seq(Names), s # << >>, Tail(s) # << >>
  PROVE  Last(Tail(s)) = Last(s)
<1>1. /\ Tail(s) \in Seq(Names) /\ Len(Tail(s)) = Len(s) - 1 /\ Len(s) \in Nat
      /\ \A i \in 1 .. Len(s) - 1 : Tail(s)[i] = s[i + 1]
  OBVIOUS
<1>2. Len(Tail(s)) # 0
  BY <1>1
<1>3. Len(s) - 1 \in 1 .. Len(s) - 1
  BY <1>1, <1>2
<1>4. Tail(s)[Len(s) - 1] = s[Len(s)]
  BY <1>1, <1>3
<1> QED
  BY <1>1, <1>4 DEF Last

LEMMA HeadIsLast ==
  ASSUME NEW s, Len(s) = 1
  PROVE  Head(s) = Last(s)
BY DEF Last

\* What the thread that steps knows of the names.
LEMMA NameOwn ==
  ASSUME DirInv, NamesKnown, UniqueNames, NEW t \in Threads, NEW d,
         Lands(t, call[t], d, view[call[t].dir].slots)
  PROVE  NameInv(d, view'[d.dir].slots)
<1> DEFINE c == call[t]
           slots == view[c.dir].slots
<1>0. c \in Calls /\ WalkInv(c) /\ view \in Views /\ NameInv(c, slots)
  BY Facts DEF NamesKnown
<1>1. CASE Rests(d) \/ Lists(t, d) \/ ListsOn(t, c, d, slots)
  BY <1>1 DEF Rests, Lists, ListsOn, NameInv, Adding
<1>2. CASE Walks(d)
  BY <1>2 DEF Walks, NameInv, Adding, AddOp, Target
<1>3. CASE Scans(t, c, d)
  <2>1. /\ c.pc \in {"root", "enter"} /\ d.pc = "scan" /\ d.pos = 1 /\ view' = view
        /\ d.todo = (IF c.pc = "root" THEN c.todo ELSE Tail(c.todo))
        /\ d.dir \in Files /\ d.todo # << >>
    BY <1>3 DEF Scans
  <2>2. AddOp(d) = AddOp(c) /\ Target(d) = Target(c)
    BY <1>3 DEF Scans, AddOp, Target
  <2>3. AddOp(c) => Last(c.todo) = Target(c)
    BY <1>0, <2>1 DEF NameInv
  <2>4. Last(d.todo) = Last(c.todo)
    <3>1. CASE c.pc = "root"
      BY <2>1, <3>1
    <3>2. CASE c.pc = "enter"
      <4>1. c.todo \in Seq(Names) /\ c.todo # << >> /\ d.todo = Tail(c.todo)
        BY <1>0, <2>1, <3>2 DEF Calls, WalkInv
      <4> QED
        BY <2>1, <4>1, LastOfTail
    <3> QED
      BY <2>1, <3>1, <3>2
  <2>5. \A j \in DOMAIN view[d.dir].slots : ~(j < d.pos)
    BY <1>0, <2>1 DEF Views
  <2> QED
    BY <2>1, <2>2, <2>3, <2>4, <2>5 DEF NameInv
<1>4. CASE Enters(c, d)
  BY <1>0, <1>4 DEF Enters, Same, NameInv, AddOp, Adding, Target
<1>5. CASE Passes(t, c, d, slots)
  <2>1. /\ c.pc = "scan" /\ d.pc = "scan" /\ d.pos = c.pos + 1 /\ c.pos \in Nat /\ ~Matches(c, slots)
        /\ view' = view /\ d.todo = c.todo /\ d.dir = c.dir
    BY <1>0, <1>5 DEF Passes, Same, Calls
  <2>2. AddOp(d) = AddOp(c) /\ Target(d) = Target(c) /\ Adding(d) = Adding(c)
    BY <1>5, <2>1 DEF Passes, Same, AddOp, Target, Adding
  <2>3. c.dir \in Files
    BY <1>0, <2>1, BusyInDirectory
  <2>4. \A i \in DOMAIN slots : i \in Nat
    BY <1>0, <2>3 DEF Views
  <2>5. AddOp(c) => Last(c.todo) = Target(c)
    BY <1>0, <2>1 DEF NameInv
  <2>6. ASSUME Adding(c), NEW j \in DOMAIN slots, slots[j].in_use, j < c.pos + 1
        PROVE  slots[j].name # Target(c)
    <3>1. CASE j < c.pos
      BY <1>0, <2>1, <2>6, <3>1 DEF NameInv
    <3>2. CASE j = c.pos
      <4>1. slots[j].name # Head(c.todo)
        BY <2>1, <2>6, <3>2 DEF Matches
      <4>2. AddOp(c) /\ Len(c.todo) = 1
        BY <2>1, <2>6 DEF Adding
      <4> QED
        BY <2>5, <4>1, <4>2, HeadIsLast
    <3> QED
      BY <2>1, <2>4, <2>6, <3>1, <3>2
  <2> HIDE DEF slots
  <2>7. \A j \in DOMAIN slots :
          slots[j].in_use /\ j < d.pos /\ Adding(d) => slots[j].name # Target(d)
    BY <2>1, <2>2, <2>6
  <2>8. NameInv(d, slots)
    BY <2>1, <2>2, <2>5, <2>7 DEF NameInv
  <2> QED
    BY <2>1, <2>8 DEF slots
<1>6. CASE Chooses(c, d, slots)
  <2>1. /\ c.pc = "scan" /\ d.pc = "entry" /\ AtEntry(c) /\ view' = view /\ d.dir = c.dir
        /\ (c.pos > Len(slots) \/ (Matches(c, slots) /\ d.at = c.pos)) /\ c.pos \in Nat
    BY <1>0, <1>6 DEF Chooses, Same, Calls
  <2>2. AddOp(d) = AddOp(c) /\ Target(d) = Target(c)
    BY <1>6 DEF Chooses, Same, AddOp, Target
  <2>3. c.dir \in Files
    BY <1>0, <2>1, BusyInDirectory
  <2>4. slots \in Seq(Slots) /\ Unique(slots)
    BY <1>0, <2>3, UniqueByDirectory DEF Views
  <2>5. ASSUME AddOp(c), NEW j \in DOMAIN slots, slots[j].in_use, j # d.at
        PROVE  slots[j].name # Target(c)
    <3>1. Adding(c) /\ Head(c.todo) = Target(c)
      BY <1>0, <2>1, <2>5, HeadIsLast DEF AtEntry, Adding, NameInv
    <3>2. j \in Nat /\ j <= Len(slots) /\ Len(slots) \in Nat
      BY <2>4
    <3>3. CASE j < c.pos
      BY <1>0, <2>1, <2>5, <3>1, <3>3 DEF NameInv
    <3>4. CASE Matches(c, slots) /\ d.at = c.pos
      BY <2>4, <2>5, <3>1, <3>4 DEF Matches, Unique
    <3> QED
      BY <1>0, <2>1, <3>2, <3>3, <3>4 DEF Calls
  <2>6. NameInv(d, slots)
    BY <2>1, <2>2, <2>5 DEF NameInv, Adding
  <2> QED
    BY <2>1, <2>6
<1>7. CASE Commits(c, d)
  <2>1. c.pc = "entry" /\ d.pc = "add" /\ d.at = c.at /\ d.dir = c.dir /\ view'[c.dir] = view[c.dir]
    BY <1>7 DEF Commits, Same
  <2>2. AddOp(c) /\ AddOp(d) /\ Target(d) = Target(c) /\ Adding(c)
    BY <1>7, <2>1 DEF Commits, Same, AddOp, Target, Adding
  <2> QED
    BY <1>0, <2>1, <2>2 DEF NameInv
<1> QED
  BY <1>1, <1>2, <1>3, <1>4, <1>5, <1>6, <1>7 DEF Lands

\* What another thread knows of the names, when a slot is written.
LEMMA NameWrite ==
  ASSUME DirInv, NamesKnown, NoRivals, NEW t \in Threads, NEW d, Writes(t, call[t], d),
         NEW u \in Threads, u # t
  PROVE  NameInv(call[u], view'[call[u].dir].slots)
<1> DEFINE c == call[u]
           old == view[c.dir].slots
           new == view'[c.dir].slots
           i == call[t].at
<1>1. WalkInv(c) /\ NameInv(c, old) /\ NameInv(call[t], view[call[t].dir].slots)
  BY Facts DEF NamesKnown
<1>2. PICK s : /\ Written(call[t].dir, i, s)
               /\ \/ call[t].pc = "clear" /\ ~s.in_use
                  \/ call[t].pc = "add" /\ s.name = Target(call[t])
  BY WriteFacts
<1>3. CASE ~Adding(c)
  BY <1>1, <1>3 DEF NameInv
<1>4. CASE Adding(c) /\ c.dir # call[t].dir
  <2>1. c.dir \in Files
    BY <1>1, <1>4, BusyInDirectory DEF Adding
  <2>2. new = old
    BY <1>2, <1>4, <2>1 DEF Written
  <2> QED
    BY <1>1, <2>2
<1>5. CASE Adding(c) /\ c.dir = call[t].dir
  <2>1. /\ DOMAIN new = DOMAIN old \cup {i} /\ new[i] = s
        /\ \A j \in DOMAIN old : j # i => new[j] = old[j]
    BY <1>2, <1>5 DEF Written
  <2>2. s.in_use => s.name # Target(c)
    <3>1. CASE call[t].pc = "add" /\ s.name = Target(call[t])
      <4>1. Adding(call[t])
        BY <1>1, <3>1 DEF NameInv, Adding
      <4> QED
        BY <1>5, <3>1, <4>1 DEF NoRivals
    <3> QED
      BY <1>2, <3>1
  <2> HIDE DEF old, new, i
  <2>3. ASSUME NEW j \in DOMAIN new, new[j].in_use, IF c.pc = "scan" THEN j < c.pos ELSE j # c.at
        PROVE  new[j].name # Target(c)
    <3>1. CASE j = i
      BY <2>1, <2>2, <2>3, <3>1
    <3>2. CASE j # i
      BY <1>1, <1>5, <2>1, <2>3, <3>2 DEF NameInv
    <3> QED
      BY <3>1, <3>2
  <2>4. NameInv(c, new)
    BY <1>1, <2>3 DEF NameInv
  <2> QED
    BY <2>4 DEF new
<1> QED
  BY <1>3, <1>4, <1>5

\* A step adds no second entry of a name.
LEMMA UniqueStep ==
  ASSUME DirInv, NamesKnown, UniqueNames, NEW t \in Threads, NEW d, Shape(t, d)
  PROVE  UniqueNames'
<1>1. \A e \in Files : Unique(view[e].slots)
  BY UniqueByDirectory
<1>2. ASSUME NEW e \in Files PROVE Unique(view'[e].slots)
  <2>1. CASE Calm(t)
    <3>1. CASE view'[e].slots = view[e].slots
      BY <1>1, <3>1
    <3>2. CASE view'[e].slots = << >>
      BY <3>2 DEF Unique
    <3> QED
      BY <2>1, <3>1, <3>2 DEF Calm
  <2>2. CASE Writes(t, call[t], d)
    <3> DEFINE c == call[t]
               old == view[c.dir].slots
               new == view'[c.dir].slots
               i == c.at
    <3>1. NameInv(c, old)
      BY DEF NamesKnown
    <3>2. c.dir \in Files
      BY <2>2, WriteFacts
    <3>3. PICK s : /\ Written(c.dir, i, s)
                   /\ \/ c.pc = "clear" /\ ~s.in_use
                      \/ c.pc = "add" /\ s.name = Target(c)
      BY <2>2, WriteFacts
    <3>4. CASE e # c.dir
      BY <1>1, <3>3, <3>4 DEF Written
    <3>5. CASE e = c.dir
      <4>1. /\ DOMAIN new = DOMAIN old \cup {i} /\ new[i] = s
            /\ \A j \in DOMAIN old : j # i => new[j] = old[j]
        BY <3>3 DEF Written
      <4>2. Unique(old)
        BY <1>1, <3>2
      <4> HIDE DEF old, new
      <4>3. \A j \in DOMAIN old : j # i /\ old[j].in_use /\ s.in_use => old[j].name # s.name
        BY <3>1, <3>3 DEF NameInv, Adding
      <4>4. Unique(new)
        BY <4>1, <4>2, <4>3 DEF Unique
      <4> QED
        BY <3>5, <4>4 DEF new
    <3> QED
      BY <3>4, <3>5
  <2> QED
    BY <2>1, <2>2 DEF Shape
<1> QED
  BY <1>2 DEF UniqueNames, Unique

LEMMA NamesStep ==
  ASSUME DirInv, NamesKnown, UniqueNames, NoRivals, NEW t \in Threads, Step(t)
  PROVE  NamesKnown' /\ UniqueNames'
<1>1. PICK d : Shape(t, d)
  BY StepShape DEF Shaped
<1>2. call' = [call EXCEPT ![t] = d] /\ call \in [Threads -> Calls]
  BY <1>1, Facts DEF Shape
<1>3. ASSUME NEW u \in Threads
      PROVE  NameInv(call'[u], view'[call'[u].dir].slots)
  <2>1. CASE u = t
    <3>1. call'[u] = d
      BY <1>2, <2>1
    <3>2. CASE Writes(t, call[t], d)
      BY <3>1, <3>2 DEF Writes, Rests, Walks, NameInv, Adding, AddOp, Target
    <3>3. CASE Lands(t, call[t], d, view[call[t].dir].slots)
      BY <2>1, <3>1, <3>3, NameOwn
    <3> QED
      BY <1>1, <3>2, <3>3 DEF Shape
  <2>2. CASE u # t
    <3>1. call'[u] = call[u]
      BY <1>2, <2>2
    <3>2. CASE Writes(t, call[t], d)
      BY <2>2, <3>1, <3>2, NameWrite
    <3>3. CASE Calm(t)
      <4>1. WalkInv(call[u]) /\ NameInv(call[u], view[call[u].dir].slots)
        BY Facts DEF NamesKnown
      <4>2. CASE Adding(call[u])
        <5>1. call[u].dir \in Files
          BY <4>1, <4>2, BusyInDirectory DEF Adding
        <5>2. view'[call[u].dir].slots = view[call[u].dir].slots
          BY <3>3, <5>1, CalmSlots
        <5> QED
          BY <3>1, <4>1, <5>2
      <4>3. CASE ~Adding(call[u])
        BY <3>1, <4>1, <4>3 DEF NameInv
      <4> QED
        BY <4>2, <4>3
    <3> QED
      BY <1>1, <3>2, <3>3 DEF Shape
  <2> QED
    BY <2>1, <2>2
<1> QED
  BY <1>1, <1>3, UniqueStep DEF NamesKnown

LEMMA NamesInit == Init => NamesKnown /\ UniqueNames
<1> SUFFICES ASSUME Init PROVE NamesKnown /\ UniqueNames
  OBVIOUS
<1>1. \A t \in Threads : call[t].pc = "idle"
  BY IdleFacts DEF Init
<1>2. \A d \in Files : view[d].slots = << >>
  BY DEF Init, File, Blank
<1> QED
  BY <1>1, <1>2 DEF NamesKnown, NameInv, Adding, UniqueNames

LEMMA NamesNext ==
  DirInv /\ NamesKnown /\ UniqueNames /\ NoRivals /\ [Next]_vars => NamesKnown' /\ UniqueNames'
<1> SUFFICES ASSUME DirInv, NamesKnown, UniqueNames, NoRivals, [Next]_vars
             PROVE  NamesKnown' /\ UniqueNames'
  OBVIOUS
<1>1. CASE Next
  BY <1>1, NamesStep DEF Next
<1>2. CASE UNCHANGED vars
  BY <1>2 DEF vars, history, NamesKnown, UniqueNames
<1> QED
  BY <1>1, <1>2

\* While no two operations give the same name to the same directory, no directory
\* gets two entries of one name, whatever slots others write between the scan of
\* _find_insert_offset and the write of _add_at_offset.
THEOREM NamesStayUnique == Spec /\ []NoRivals => []UniqueNames
BY DirInvAlways, NamesInit, NamesNext, PTL DEF Spec
-----------------------------------------------------------------------------
\* One thread is asked to give names; the others may do all the rest, unlink and
\* rmdir included.
OneGiver ==
    \A t, u \in Threads :
        t # u => \/ Ops[t] \cap {"create", "mkdir", "rename"} = {}
                 \/ Ops[u] \cap {"create", "mkdir", "rename"} = {}

\* A thread is in an operation it was asked for.
OwnOps == \A t \in Threads : call[t].op \in Ops[t] \cup {"none"}

LEMMA OwnOpsAlways == Spec => []OwnOps
<1>1. Init => OwnOps
  BY DEF Init, Idle, OwnOps
<1>2. DirInv /\ OwnOps /\ [Next]_vars => OwnOps'
  <2> SUFFICES ASSUME DirInv, OwnOps, [Next]_vars PROVE OwnOps'
    OBVIOUS
  <2>1. CASE Next
    <3>1. PICK t \in Threads : Step(t)
      BY <2>1 DEF Next
    <3>2. PICK d : Shape(t, d)
      BY <3>1, StepShape DEF Shaped
    <3>3. /\ call' = [call EXCEPT ![t] = d] /\ call \in [Threads -> Calls]
          /\ d.op \in Ops[t] \cup {call[t].op, "none"}
      BY <3>2, Facts DEF Shape
    <3> QED
      BY <3>3 DEF OwnOps
  <2>2. CASE UNCHANGED vars
    BY <2>2 DEF vars, OwnOps
  <2> QED
    BY <2>1, <2>2
<1> QED
  BY <1>1, <1>2, DirInvAlways, PTL DEF Spec

\* Where one thread at a time is asked to create, make or rename, names stay unique,
\* are found and are listed, with nothing assumed of the states: all the others may
\* walk, list and remove at the same time, with any number of directories and paths.
THEOREM OneGiverSuffices ==
  ASSUME OneGiver
  PROVE  Spec => [](UniqueNames /\ PresentNamesFound /\ ListingComplete)
<1>1. OwnOps => NoRivals
  <2> SUFFICES ASSUME OwnOps, NEW t \in Threads, NEW u \in Threads, t # u,
                      Adding(call[t]), Adding(call[u])
               PROVE  FALSE
    BY DEF NoRivals
  <2>1. call[t].op \in {"create", "mkdir", "rename"} /\ call[u].op \in {"create", "mkdir", "rename"}
    BY DEF Adding, AddOp
  <2>2. call[t].op \in Ops[t] /\ call[u].op \in Ops[u]
    BY <2>1 DEF OwnOps
  <2> QED
    BY <2>1, <2>2 DEF OneGiver
<1> QED
  BY <1>1, OwnOpsAlways, NamesStayUnique, NamesFound, ListingsComplete, PTL
=============================================================================
