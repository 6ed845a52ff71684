--------------------------- MODULE NamespaceProofs ---------------------------
(***************************************************************************)
(* Proofs about the tree of names: that Directory implements Namespace and *)
(* what DirectoryCrash keeps of it, for all sets of files and names, every *)
(* depth of paths and any number of threads, while no two of them change   *)
(* names at a time.                                                        *)
(***************************************************************************)
EXTENDS DirectoryCrash, DirectoryProofs, SequenceTheorems
-----------------------------------------------------------------------------
\* A name of a directory, and the walk along the first k names of a path.
Edge(v, d, n, f) ==
    /\ v[d].type = "dir"
    /\ \E i \in DOMAIN v[d].slots :
           v[d].slots[i].in_use /\ v[d].slots[i].name = n /\ v[d].slots[i].gname = f

Way(v, p, k, way) ==
    /\ way \in [0 .. k -> Files] /\ way[0] = Root
    /\ \A i \in 1 .. k : Edge(v, way[i - 1], p[i], way[i])

Leads(v, p, k, f) == \E way : Way(v, p, k, way) /\ way[k] = f

\* Induction up to a bound: a least counterexample has no predecessor.
LEMMA UpTo ==
  ASSUME NEW n \in Nat, NEW T, 0 \in T, \A k \in 0 .. n - 1 : k \in T => k + 1 \in T
  PROVE  \A k \in 0 .. n : k \in T
<1> SUFFICES ASSUME NEW k \in 0 .. n, k \notin T PROVE FALSE
  OBVIOUS
<1> DEFINE S == {j \in 0 .. n : j \notin T}
<1>1. S \in SUBSET (0 .. n) /\ S # {}
  OBVIOUS
<1>2. PICK m \in S : \A x \in S : m <= x
  <2> HIDE DEF S
  <2> QED BY <1>1, LeastOfBounded
<1>3. m \in 0 .. n /\ m \notin T /\ m # 0
  BY <1>2
<1>4. m - 1 \in 0 .. n - 1 /\ m - 1 \in 0 .. n /\ m - 1 < m /\ m - 1 + 1 = m
  BY <1>3
<1>5. m - 1 \in T
  BY <1>2, <1>4
<1> QED
  BY <1>3, <1>4, <1>5

LEMMA LeadsRoot ==
  ASSUME NEW v, NEW p
  PROVE  Leads(v, p, 0, Root)
<1> DEFINE way == [i \in 0 .. 0 |-> Root]
<1>1. Way(v, p, 0, way) /\ way[0] = Root
  BY DirectoryAssumption DEF Way
<1> QED
  BY <1>1 DEF Leads

LEMMA LeadsOn ==
  ASSUME NEW v, NEW p, NEW k \in Nat, NEW d \in Files, NEW f \in Files,
         Leads(v, p, k, d), Edge(v, d, p[k + 1], f)
  PROVE  Leads(v, p, k + 1, f)
<1>1. PICK way : Way(v, p, k, way) /\ way[k] = d
  BY DEF Leads
<1> DEFINE next == [i \in 0 .. k + 1 |-> IF i = k + 1 THEN f ELSE way[i]]
<1>2. /\ way \in [0 .. k -> Files] /\ way[0] = Root
      /\ \A i \in 1 .. k : Edge(v, way[i - 1], p[i], way[i])
  BY <1>1 DEF Way
<1>3. next \in [0 .. k + 1 -> Files] /\ next[0] = Root /\ next[k + 1] = f
  BY <1>2
<1>4. ASSUME NEW i \in 1 .. k + 1 PROVE Edge(v, next[i - 1], p[i], next[i])
  <2>1. CASE i = k + 1
    <3>1. next[i - 1] = d /\ next[i] = f
      BY <1>1, <1>2, <2>1
    <3> QED
      BY <2>1, <3>1
  <2>2. CASE i # k + 1
    <3>1. i \in 1 .. k /\ next[i - 1] = way[i - 1] /\ next[i] = way[i]
      BY <2>2
    <3> QED
      BY <1>2, <3>1
  <2> QED
    BY <2>1, <2>2
<1> HIDE DEF next
<1> QED
  BY <1>3, <1>4 DEF Leads, Way

\* The step before the last.
LEMMA LeadsBack ==
  ASSUME NEW v, NEW p, NEW k \in Nat, NEW f, Leads(v, p, k + 1, f)
  PROVE  \E d \in Files : Leads(v, p, k, d) /\ Edge(v, d, p[k + 1], f) /\ f \in Files
<1>1. PICK way : Way(v, p, k + 1, way) /\ way[k + 1] = f
  BY DEF Leads
<1>2. /\ way \in [0 .. k + 1 -> Files] /\ way[0] = Root
      /\ \A i \in 1 .. k + 1 : Edge(v, way[i - 1], p[i], way[i])
  BY <1>1 DEF Way
<1> DEFINE back == [i \in 0 .. k |-> way[i]]
<1>3. back \in [0 .. k -> Files] /\ back[0] = Root /\ back[k] = way[k] /\ way[k] \in Files
      /\ f \in Files
  BY <1>1, <1>2
<1>4. \A i \in 1 .. k : Edge(v, back[i - 1], p[i], back[i])
  <2> TAKE i \in 1 .. k
  <2>1. i \in 1 .. k + 1 /\ back[i - 1] = way[i - 1] /\ back[i] = way[i]
    OBVIOUS
  <2> QED
    BY <1>2, <2>1
<1>5. Edge(v, way[k], p[k + 1], f)
  <2>1. k + 1 \in 1 .. k + 1 /\ k + 1 - 1 = k
    OBVIOUS
  <2> QED
    BY <1>1, <1>2, <2>1
<1> HIDE DEF back
<1> QED
  BY <1>3, <1>4, <1>5 DEF Leads, Way

\* A walk goes on as before when the names it goes through stand for the same.
LEMMA LeadsKept ==
  ASSUME NEW v, NEW w, NEW p, NEW k \in Nat, NEW f, Leads(v, p, k, f),
         ASSUME NEW j \in 0 .. k - 1, NEW d \in Files, NEW e \in Files,
                Leads(v, p, j, d), Edge(v, d, p[j + 1], e),
                j + 1 < k => \E g : Edge(v, e, p[j + 2], g),
                j + 1 = k => e = f
         PROVE  Edge(w, d, p[j + 1], e)
  PROVE  Leads(w, p, k, f)
<1>1. PICK way : Way(v, p, k, way) /\ way[k] = f
  BY DEF Leads
<1>2. /\ way \in [0 .. k -> Files] /\ way[0] = Root
      /\ \A i \in 1 .. k : Edge(v, way[i - 1], p[i], way[i])
  BY <1>1 DEF Way
<1>3. ASSUME NEW i \in 1 .. k PROVE Edge(w, way[i - 1], p[i], way[i])
  <2>1. i - 1 \in 0 .. k - 1 /\ way[i - 1] \in Files /\ way[i] \in Files /\ i - 1 + 1 = i
    BY <1>2
  <2>2. Edge(v, way[i - 1], p[i], way[i])
    BY <1>2
  <2>3. Leads(v, p, i - 1, way[i - 1])
    <3> DEFINE back == [j \in 0 .. i - 1 |-> way[j]]
    <3>1. back \in [0 .. i - 1 -> Files] /\ back[0] = Root /\ back[i - 1] = way[i - 1]
      BY <1>2
    <3>2. \A j \in 1 .. i - 1 : Edge(v, back[j - 1], p[j], back[j])
      <4> TAKE j \in 1 .. i - 1
      <4>1. j \in 1 .. k /\ back[j - 1] = way[j - 1] /\ back[j] = way[j]
        OBVIOUS
      <4> QED
        BY <1>2, <4>1
    <3> HIDE DEF back
    <3> QED
      BY <3>1, <3>2 DEF Leads, Way
  <2>4. i - 1 + 1 < k => \E g : Edge(v, way[i], p[i - 1 + 2], g)
    <3> SUFFICES ASSUME i - 1 + 1 < k PROVE \E g : Edge(v, way[i], p[i - 1 + 2], g)
      OBVIOUS
    <3>1. i + 1 \in 1 .. k /\ i + 1 - 1 = i /\ i - 1 + 2 = i + 1
      OBVIOUS
    <3> QED
      BY <1>2, <3>1
  <2>5. i - 1 + 1 = k => way[i] = f
    BY <1>1
  <2> QED
    BY <2>1, <2>2, <2>3, <2>4, <2>5
<1> QED
  BY <1>1, <1>2, <1>3 DEF Leads, Way

\* A walk leads to one file.
LEMMA EdgeOne ==
  ASSUME NEW v, NEW d, NEW n, NEW f, NEW g, Unique(v[d].slots), Edge(v, d, n, f), Edge(v, d, n, g)
  PROVE  f = g
BY DEF Edge, Unique

LEMMA LeadsOne ==
  ASSUME NEW v, NEW p, NEW k \in Nat, NEW f, NEW g,
         \A d \in Files : Unique(v[d].slots), Leads(v, p, k, f), Leads(v, p, k, g)
  PROVE  f = g
<1>1. PICK way : Way(v, p, k, way) /\ way[k] = f
  BY DEF Leads
<1>2. PICK path : Way(v, p, k, path) /\ path[k] = g
  BY DEF Leads
<1> DEFINE T == {i \in 0 .. k : way[i] = path[i]}
<1>3. 0 \in T
  BY <1>1, <1>2 DEF Way
<1>4. ASSUME NEW i \in 0 .. k - 1, i \in T PROVE i + 1 \in T
  <2>1. i + 1 \in 1 .. k /\ i + 1 - 1 = i /\ i + 1 \in 0 .. k /\ i \in 0 .. k
    OBVIOUS
  <2>2. Edge(v, way[i], p[i + 1], way[i + 1]) /\ Edge(v, path[i], p[i + 1], path[i + 1])
    BY <1>1, <1>2, <2>1 DEF Way
  <2>3. way[i] = path[i] /\ way[i] \in Files
    BY <1>1, <1>4, <2>1 DEF Way
  <2>4. way[i + 1] = path[i + 1]
    BY <2>2, <2>3, EdgeOne
  <2> QED
    BY <2>1, <2>4
<1>5. k \in T
  <2> HIDE DEF T
  <2>1. \A i \in 0 .. k : i \in T
    BY <1>3, <1>4, UpTo
  <2> QED
    BY <2>1
<1> QED
  BY <1>1, <1>2, <1>5

\* The kernel comes to the same file as a walk.
LEMMA ChildIsEdge ==
  ASSUME NEW d \in Files, NEW n, NEW f, Unique(view[d].slots), Edge(view, d, n, f)
  PROVE  Child(d, n) = f
<1>1. d # NoFile
  BY DirectoryAssumption
<1>2. PICK i \in DOMAIN view[d].slots :
        view[d].slots[i].in_use /\ view[d].slots[i].name = n /\ view[d].slots[i].gname = f
  BY DEF Edge
<1>3. Holds(view[d].slots, n)
  BY <1>2 DEF Holds
<1>4. \A j \in DOMAIN view[d].slots :
        view[d].slots[j].in_use /\ view[d].slots[j].name = n => j = i
  BY <1>2 DEF Unique
<1> DEFINE j == CHOOSE j \in DOMAIN view[d].slots :
                    view[d].slots[j].in_use /\ view[d].slots[j].name = n
<1>5. j = i
  BY <1>2, <1>4
<1>6. Child(d, n) = view[d].slots[j].gname
  BY <1>1, <1>3 DEF Child, Edge
<1> QED
  BY <1>2, <1>5, <1>6

LEMMA ResolveLeads ==
  ASSUME NEW p \in Seq(Names), NEW f, UniqueNames, Leads(view, p, Len(p), f)
  PROVE  Resolve(p) = f
<1>1. PICK way : Way(view, p, Len(p), way) /\ way[Len(p)] = f
  BY DEF Leads
<1>2. /\ way \in [0 .. Len(p) -> Files] /\ way[0] = Root
      /\ \A i \in 1 .. Len(p) : Edge(view, way[i - 1], p[i], way[i])
  BY <1>1 DEF Way
<1>3. \A d \in Files : Unique(view[d].slots)
  BY UniqueByDirectory
<1>4. \A i \in 1 .. Len(p) : Child(way[i - 1], p[i]) = way[i]
  <2> TAKE i \in 1 .. Len(p)
  <2>1. i - 1 \in 0 .. Len(p) /\ way[i - 1] \in Files
    BY <1>2
  <2> QED
    BY <1>2, <1>3, <2>1, ChildIsEdge
<1> DEFINE Def(g) == [n \in 0 .. Len(p) |-> IF n = 0 THEN Root ELSE Child(g[n - 1], p[n])]
           walk == CHOOSE g : g = Def(g)
<1>5. way = Def(way)
  <2>1. \A n \in 0 .. Len(p) : way[n] = IF n = 0 THEN Root ELSE Child(way[n - 1], p[n])
    BY <1>2, <1>4
  <2> QED
    BY <1>2, <2>1
<1>6. walk = Def(walk)
  BY <1>5
<1> DEFINE T == {n \in 0 .. Len(p) : walk[n] = way[n]}
<1>7. \A n \in 0 .. Len(p) : walk[n] = IF n = 0 THEN Root ELSE Child(walk[n - 1], p[n])
  <2> HIDE DEF walk
  <2> QED BY <1>6
<1>8. Len(p) \in Nat
  OBVIOUS
<1>9. 0 \in T
  <2> HIDE DEF walk
  <2> QED BY <1>2, <1>7, <1>8
<1>10. ASSUME NEW n \in 0 .. Len(p) - 1, n \in T PROVE n + 1 \in T
  <2> HIDE DEF walk
  <2>1. n + 1 \in 0 .. Len(p) /\ n + 1 # 0 /\ n + 1 - 1 = n /\ n + 1 \in 1 .. Len(p)
    BY <1>8
  <2>2. walk[n + 1] = Child(walk[n], p[n + 1]) /\ walk[n] = way[n]
    BY <1>7, <1>10, <2>1
  <2>3. Child(way[n], p[n + 1]) = way[n + 1]
    BY <1>4, <2>1
  <2> QED
    BY <2>1, <2>2, <2>3
<1>11. Len(p) \in T
  <2> HIDE DEF T
  <2>1. \A n \in 0 .. Len(p) : n \in T
    BY <1>8, <1>9, <1>10, UpTo
  <2> QED
    BY <1>8, <2>1
<1>12. Resolve(p) = walk[Len(p)]
  BY DEF Resolve
<1> QED
  BY <1>1, <1>11, <1>12
-----------------------------------------------------------------------------
\* What an operation that changes names knows of the tree.  The path it walks, how
\* much of it is behind, and the names that are ahead.
WalkPath(c) == IF c.op = "rename" /\ c.stage = 2 THEN c.q ELSE c.p
Depth(c) == Len(WalkPath(c)) - Len(c.todo)
Ahead(c) ==
    /\ Len(c.todo) <= Len(WalkPath(c))
    /\ \A i \in 1 .. Len(c.todo) : c.todo[i] = WalkPath(c)[Depth(c) + i]

\* The slot an operation has chosen: the one of the name, or one that is not in use.
AtInv(c, slots) ==
    IF c.ent = NoFile THEN c.at \in DOMAIN slots => ~slots[c.at].in_use
    ELSE /\ c.at \in DOMAIN slots /\ slots[c.at].in_use
         /\ slots[c.at].name = Last(WalkPath(c)) /\ slots[c.at].gname = c.ent

Under == {"root", "scan", "enter", "opened", "entry", "add", "clear"}
Chosen == {"entry", "add", "clear"}

WayInv(c, v) ==
    /\ c.pc \in Under => Ahead(c)
    /\ c.pc = "root" => Depth(c) = 0
    /\ c.pc \in Under \ {"root"} => Leads(v, WalkPath(c), Depth(c), c.dir)
    /\ c.pc \in Under \ {"root", "opened"} => v[c.dir].type = "dir"
    /\ c.pc = "opened" => c.todo = << >>
    /\ c.pc = "scan" => c.ent = NoFile /\ (c.free # 0 => ~v[c.dir].slots[c.free].in_use)
    /\ c.pc = "enter" => Edge(v, c.dir, Head(c.todo), c.ent)
    /\ c.pc \in Chosen => Len(c.todo) = 1 /\ ~ToFile(c) /\ AtInv(c, v[c.dir].slots)

\* A file that may lose its name n in d: it is no directory, or an empty one, or it
\* has another name.
Bare(v, f) == v[f].type = "dir" => NamesIn(v[f].slots) = {}
Spare(v, d, n, f) ==
    Bare(v, f) \/ \E e \in Files : \E m : <<e, m>> # <<d, n>> /\ Edge(v, e, m, f)

\* What the operation has made sure of: create and mkdir of the file they made,
\* unlink and rmdir of the file they are about to take the name from, rename of the
\* file it moves, which has the old name until the last step and first gets the new.
TaskInv(c, v) ==
    /\ c.op \in {"create", "mkdir"} /\ c.pc = "add"
         => c.ent = NoFile /\ c.file # Root /\ v[c.file].type \in {"file", "dir"}
    /\ c.pc = "clear" => c.ent # NoFile
    /\ c.op \in {"unlink", "rmdir"} /\ c.pc = "clear" => Bare(v, c.ent)
    /\ c.op = "rename" /\ c.pc \in Under => c.stage # 0
    /\ c.op = "rename" /\ c.pc \in Under /\ c.stage = 1
         => \A f \in Files : Leads(v, c.p, Len(c.p), f) => v[f].type # "new"
    /\ c.op = "rename" /\ c.pc \in Under /\ c.stage = 2
         => c.file # Root /\ v[c.file].type # "new" /\ Leads(v, c.p, Len(c.p), c.file)
    /\ c.op = "rename" /\ c.pc = "add" /\ c.ent # NoFile
         => v[c.ent].type = v[c.file].type /\ Bare(v, c.ent)
    /\ c.op = "rename" /\ c.pc \in Under /\ c.stage = 3
         => /\ Leads(v, c.q, Len(c.q), c.file)
            /\ \E d \in Files : /\ Leads(v, c.p, Len(c.p) - 1, d)
                                /\ Edge(v, d, Last(c.p), c.file)
                                /\ Spare(v, d, Last(c.p), c.file)

\* Every file by itself: the names in it are unique, none is the root's, and only a
\* directory has any.
Sound(r) ==
    /\ Unique(r.slots)
    /\ \A i \in DOMAIN r.slots : r.slots[i].in_use => r.slots[i].gname # Root
    /\ r.type # "dir" => NamesIn(r.slots) = {}

Knows(c, v) ==
    /\ c.op \in Mutators => WayInv(c, v) /\ TaskInv(c, v)
    /\ c.pc = "clear" => c.op \in {"unlink", "rmdir", "rename"}

TreeInv == /\ \A d \in Files : Sound(view[d])
           /\ \A t \in Threads : Knows(call[t], view)
-----------------------------------------------------------------------------
\* A change that touches no name and no type.
Quiet(v, w) == \A f \in Files : w[f].type = v[f].type /\ w[f].slots = v[f].slots

LEMMA QuietLeads ==
  ASSUME NEW v, NEW w, Quiet(v, w)
  PROVE  /\ \A d \in Files : \A n, f : Edge(v, d, n, f) <=> Edge(w, d, n, f)
         /\ \A k \in Nat : \A p, f : Leads(v, p, k, f) <=> Leads(w, p, k, f)
<1>1. \A d \in Files : \A n, f : Edge(v, d, n, f) <=> Edge(w, d, n, f)
  BY DEF Quiet, Edge
<1>2. ASSUME NEW k \in Nat, NEW p, NEW way PROVE Way(v, p, k, way) <=> Way(w, p, k, way)
  <2>1. way \in [0 .. k -> Files] => \A i \in 1 .. k : way[i - 1] \in Files
    OBVIOUS
  <2> QED
    BY <1>1, <2>1 DEF Way
<1> QED
  BY <1>1, <1>2 DEF Leads

LEMMA QuietKeeps ==
  ASSUME NEW v, NEW w, Quiet(v, w), NEW c \in Calls, WalkInv(c), Knows(c, v)
  PROVE  Knows(c, w)
<1> SUFFICES ASSUME c.op \in Mutators PROVE WayInv(c, w) /\ TaskInv(c, w)
  BY DEF Knows
<1>1. WayInv(c, v) /\ TaskInv(c, v)
  BY DEF Knows
<1>2. /\ c.p \in Seq(Names) /\ c.q \in Seq(Names) /\ c.todo \in Seq(Names)
      /\ c.ent # NoFile => c.ent \in Files
      /\ Len(c.p) \in Nat /\ Len(c.q) \in Nat /\ Len(c.todo) \in Nat
      /\ c.p # << >> => Len(c.p) - 1 \in Nat
  BY DEF Calls
<1>3. /\ c.p # << >>
      /\ c.pc \in Under \ {"root"} => c.dir \in Files
      /\ c.pc = "add" \/ (c.op = "rename" /\ c.stage = 2) => c.file \in Files
  BY DEF WalkInv, Under
<1>4. /\ \A d \in Files : w[d].type = v[d].type /\ w[d].slots = v[d].slots
      /\ \A d \in Files : \A n, f : Edge(v, d, n, f) <=> Edge(w, d, n, f)
      /\ \A k \in Nat : \A p, f : Leads(v, p, k, f) <=> Leads(w, p, k, f)
  BY QuietLeads DEF Quiet
<1>5. \A f \in Files : Bare(v, f) <=> Bare(w, f)
  BY <1>4 DEF Bare
<1>6. c.pc \in Under => Depth(c) \in Nat
  <2> SUFFICES ASSUME c.pc \in Under PROVE Depth(c) \in Nat
    OBVIOUS
  <2>1. Len(c.todo) <= Len(WalkPath(c))
    BY <1>1 DEF WayInv, Ahead
  <2> QED
    BY <1>2, <2>1 DEF Depth, WalkPath
<1>7. WayInv(c, w)
  <2>1. c.pc \in Under \ {"root"} => Leads(w, WalkPath(c), Depth(c), c.dir)
    BY <1>1, <1>4, <1>6 DEF WayInv
  <2>2. c.pc = "enter" => Edge(w, c.dir, Head(c.todo), c.ent)
    BY <1>1, <1>3, <1>4 DEF WayInv, Under
  <2>3. c.pc \in Under \ {"root"} => w[c.dir].type = v[c.dir].type /\ w[c.dir].slots = v[c.dir].slots
    BY <1>3, <1>4
  <2>4. c.pc \in Chosen \cup {"scan"} => w[c.dir].slots = v[c.dir].slots
    BY <2>3 DEF Under, Chosen
  <2>5. c.pc \in Under \ {"root", "opened"} => w[c.dir].type = v[c.dir].type
    BY <2>3
  <2> QED
    BY <1>1, <2>1, <2>2, <2>4, <2>5 DEF WayInv
<1>8. TaskInv(c, w)
  <2>1. c.op \in {"create", "mkdir"} /\ c.pc = "add"
          => c.ent = NoFile /\ c.file # Root /\ w[c.file].type \in {"file", "dir"}
    BY <1>1, <1>3, <1>4 DEF TaskInv
  <2>2. c.pc = "clear" => c.ent # NoFile
    BY <1>1 DEF TaskInv
  <2>3. c.op \in {"unlink", "rmdir"} /\ c.pc = "clear" => Bare(w, c.ent)
    BY <1>1, <1>2, <1>5 DEF TaskInv
  <2>4. c.op = "rename" /\ c.pc \in Under => c.stage # 0
    BY <1>1 DEF TaskInv
  <2>5. c.op = "rename" /\ c.pc \in Under /\ c.stage = 1
          => \A f \in Files : Leads(w, c.p, Len(c.p), f) => w[f].type # "new"
    BY <1>1, <1>2, <1>4 DEF TaskInv
  <2>6. c.op = "rename" /\ c.pc \in Under /\ c.stage = 2
          => c.file # Root /\ w[c.file].type # "new" /\ Leads(w, c.p, Len(c.p), c.file)
    BY <1>1, <1>2, <1>3, <1>4 DEF TaskInv
  <2>7. c.op = "rename" /\ c.pc = "add" /\ c.ent # NoFile
          => w[c.ent].type = w[c.file].type /\ Bare(w, c.ent)
    BY <1>1, <1>2, <1>3, <1>4, <1>5 DEF TaskInv
  <2>8. ASSUME c.op = "rename", c.pc \in Under, c.stage = 3
        PROVE  /\ Leads(w, c.q, Len(c.q), c.file)
               /\ \E d \in Files : /\ Leads(w, c.p, Len(c.p) - 1, d)
                                   /\ Edge(w, d, Last(c.p), c.file)
                                   /\ Spare(w, d, Last(c.p), c.file)
    <3>1. Leads(v, c.q, Len(c.q), c.file)
      BY <1>1, <2>8 DEF TaskInv
    <3>2. PICK d \in Files : /\ Leads(v, c.p, Len(c.p) - 1, d)
                             /\ Edge(v, d, Last(c.p), c.file)
                             /\ Spare(v, d, Last(c.p), c.file)
      BY <1>1, <2>8 DEF TaskInv
    <3>3. c.file \in Files
      <4>1. Len(c.q) = Len(c.q) - 1 + 1 /\ Len(c.q) - 1 \in Nat
        BY <1>2, <2>8 DEF WalkInv
      <4> QED
        BY <3>1, <4>1, LeadsBack
    <3>4. Spare(w, d, Last(c.p), c.file)
      BY <1>4, <1>5, <3>2, <3>3 DEF Spare
    <3> QED
      BY <1>2, <1>3, <1>4, <3>1, <3>2, <3>4
  <2> QED
    BY <2>1, <2>2, <2>3, <2>4, <2>5, <2>6, <2>7, <2>8 DEF TaskInv
<1> QED
  BY <1>7, <1>8

\* Before and after a walk an operation need not know anything.
LEMMA RestsKnows ==
  ASSUME NEW c, NEW v, c.pc \notin Under
  PROVE  Knows(c, v)
BY DEF Knows, WayInv, TaskInv, Under, Chosen
-----------------------------------------------------------------------------
\* A step that touches no name, after which the thread knows what it should.
Reads(t) == Quiet(view, view') /\ Knows(call'[t], view')

LEMMA KnowFacts ==
  ASSUME DirInv, TreeInv, NEW t \in Threads
  PROVE  LET c == call[t]
         IN  /\ c \in Calls /\ WalkInv(c) /\ Knows(c, view) /\ call \in [Threads -> Calls]
             /\ c.op \in Mutators => WayInv(c, view) /\ TaskInv(c, view)
             /\ c.p \in Seq(Names) /\ c.q \in Seq(Names) /\ c.todo \in Seq(Names)
             /\ WalkPath(c) \in Seq(Names)
             /\ Len(c.p) \in Nat /\ Len(c.q) \in Nat /\ Len(c.todo) \in Nat
             /\ Len(WalkPath(c)) \in Nat
             /\ c.ent # NoFile => c.ent \in Files
             /\ \A d \in Files : Unique(view[d].slots)
             /\ view \in Views
<1> DEFINE c == call[t]
<1>1. c \in Calls /\ WalkInv(c) /\ call \in [Threads -> Calls] /\ view \in Views
  BY Facts
<1>2. Knows(c, view) /\ \A d \in Files : Unique(view[d].slots)
  BY DEF TreeInv, Sound
<1>3. c.op \in Mutators => WayInv(c, view) /\ TaskInv(c, view)
  BY <1>2 DEF Knows
<1> HIDE DEF c
<1>4. /\ c.p \in Seq(Names) /\ c.q \in Seq(Names) /\ c.todo \in Seq(Names)
      /\ c.ent # NoFile => c.ent \in Files
  BY <1>1 DEF Calls
<1>5. WalkPath(c) \in Seq(Names)
  BY <1>4 DEF WalkPath
<1>6. \A s \in Seq(Names) : Len(s) \in Nat
  OBVIOUS
<1> QED
  BY <1>1, <1>2, <1>3, <1>4, <1>5, <1>6 DEF c

LEMMA SameQuiet ==
  ASSUME view' = view
  PROVE  Quiet(view, view')
BY DEF Quiet

\* The operation returns.
LEMMA IdleReads ==
  ASSUME DirInv, NEW t \in Threads, Become(t, Idle), Quiet(view, view')
  PROVE  Reads(t)
<1>1. call'[t] = Idle
  BY Facts DEF Become
<1>2. call'[t].pc \notin Under
  BY <1>1, IdleFacts DEF Under
<1> QED
  BY <1>2, RestsKnows DEF Reads

LEMMA RestReads ==
  ASSUME DirInv, NEW t \in Threads, NEW d, d.pc \notin Under, Become(t, d), Quiet(view, view')
  PROVE  Reads(t)
<1>1. call'[t] = d
  BY Facts DEF Become
<1> QED
  BY <1>1, RestsKnows DEF Reads

\* What an operation has made sure of it keeps along its walk.
LEMMA TaskGoesOn ==
  ASSUME NEW c, NEW d, NEW v, TaskInv(c, v), c.pc \in Under,
         d.op = c.op, d.stage = c.stage, d.p = c.p, d.q = c.q, d.file = c.file,
         d.pc \in {"scan", "enter", "opened", "entry"}
  PROVE  TaskInv(d, v)
BY DEF TaskInv

LEMMA StartReads ==
  ASSUME DirInv, TreeInv, UniqueNames, NEW t \in Threads, Start(t)
  PROVE  Reads(t)
<1>1. PICK op \in Ops[t], p \in Paths :
      \E q \in IF op = "rename" THEN Paths \ {<< >>} ELSE {<< >>} :
        KernelSees(op, p, q) /\ Become(t, Begin(op, p, q)) /\ UNCHANGED view
  BY DEF Start
<1>2. PICK q \in IF op = "rename" THEN Paths \ {<< >>} ELSE {<< >>} :
        KernelSees(op, p, q) /\ Become(t, Begin(op, p, q)) /\ UNCHANGED view
  BY <1>1
<1>3. PICK d : d = Begin(op, p, q)
  OBVIOUS
<1>4. d.op = op /\ d.p = p /\ d.pc = "root" /\ d.stage = 1 /\ d.todo = p
  BY <1>3 DEF Begin, Idle
<1>5. call'[t] = d
  BY <1>2, <1>3, Facts DEF Become
<1>6. p \in Seq(Names) /\ Len(p) \in Nat
  BY PathFacts
<1>7. WayInv(d, view)
  <2>1. WalkPath(d) = p /\ Depth(d) = 0
    BY <1>4, <1>6 DEF WalkPath, Depth
  <2>2. Ahead(d)
    BY <1>4, <1>6, <2>1 DEF Ahead
  <2> QED
    BY <1>4, <2>1, <2>2 DEF WayInv, Chosen
<1>8. TaskInv(d, view)
  <2>1. ASSUME op = "rename", NEW f \in Files, Leads(view, p, Len(p), f)
        PROVE  view[f].type # "new"
    <3>1. Exists(p)
      BY <1>2, <2>1 DEF KernelSees
    <3>2. Resolve(p) = f
      BY <1>6, <2>1, ResolveLeads
    <3>3. f # NoFile
      BY DirectoryAssumption
    <3> QED
      BY <3>1, <3>2, <3>3 DEF Exists, TypeAt
  <2> QED
    BY <1>4, <2>1 DEF TaskInv
<1> QED
  BY <1>2, <1>4, <1>5, <1>7, <1>8, SameQuiet DEF Reads, Knows

\* A walk that goes on in dir, or is over there.
LEMMA ScanKnows ==
  ASSUME NEW c \in Calls, Knows(c, view), c.pc \in Under, NEW dir, NEW todo,
         LET n == Len(WalkPath(c)) - Len(todo)
         IN  /\ Len(todo) <= Len(WalkPath(c)) /\ Leads(view, WalkPath(c), n, dir)
             /\ \A i \in 1 .. Len(todo) : todo[i] = WalkPath(c)[n + i],
         todo # << >> => view[dir].type = "dir",
         NEW d, d = ToScan(c, dir, todo)
  PROVE  Knows(d, view)
<1>1. /\ d.op = c.op /\ d.stage = c.stage /\ d.p = c.p /\ d.q = c.q /\ d.file = c.file
      /\ d.pc = (IF todo = << >> THEN "opened" ELSE "scan")
      /\ d.dir = dir /\ d.todo = todo /\ d.free = 0 /\ d.ent = NoFile
  BY DEF ToScan, Calls
<1> SUFFICES ASSUME c.op \in Mutators PROVE WayInv(d, view) /\ TaskInv(d, view)
  BY <1>1 DEF Knows
<1>2. TaskInv(d, view)
  <2>1. TaskInv(c, view)
    BY DEF Knows
  <2> QED
    BY <1>1, <2>1, TaskGoesOn
<1>3. WalkPath(d) = WalkPath(c) /\ Depth(d) = Len(WalkPath(c)) - Len(todo)
  BY <1>1 DEF WalkPath, Depth
<1>4. Ahead(d) /\ Leads(view, WalkPath(d), Depth(d), d.dir)
  BY <1>1, <1>3 DEF Ahead
<1>5. WayInv(d, view)
  BY <1>1, <1>4 DEF WayInv, Chosen
<1> QED
  BY <1>2, <1>5

LEMMA OpenRootReads ==
  ASSUME DirInv, TreeInv, NEW t \in Threads, OpenRoot(t)
  PROVE  Reads(t)
<1> DEFINE c == call[t]
<1>1. c.pc = "root" /\ view' = view /\ c \in Calls /\ Knows(c, view)
  BY KnowFacts DEF OpenRoot, Does
<1>2. CASE Become(t, ToScan(c, Root, c.todo)) /\ view[Root].type = "dir"
  <2>1. PICK d : d = ToScan(c, Root, c.todo)
    OBVIOUS
  <2>2. call'[t] = d
    BY <1>2, <2>1, Facts DEF Become
  <2>3. CASE c.op \notin Mutators
    <3>1. d.op = c.op /\ d.pc # "clear"
      BY <1>1, <2>1 DEF ToScan, Calls
    <3> QED
      BY <1>1, <2>2, <2>3, <3>1, SameQuiet DEF Reads, Knows
  <2>4. CASE c.op \in Mutators
    <3>1. Ahead(c) /\ Depth(c) = 0
      BY <1>1, <2>4 DEF Knows, WayInv, Under
    <3>2. /\ Len(c.todo) <= Len(WalkPath(c)) /\ Len(WalkPath(c)) - Len(c.todo) = 0
          /\ \A i \in 1 .. Len(c.todo) : c.todo[i] = WalkPath(c)[0 + i]
      BY <3>1 DEF Ahead, Depth
    <3>3. Leads(view, WalkPath(c), 0, Root)
      BY LeadsRoot
    <3>4. c.pc \in Under
      BY <1>1 DEF Under
    <3>5. Knows(d, view)
      <4> HIDE DEF c
      <4> QED BY <1>1, <1>2, <2>1, <3>2, <3>3, <3>4, ScanKnows
    <3> QED
      BY <1>1, <2>2, <3>5, SameQuiet DEF Reads
  <2> QED
    BY <2>3, <2>4
<1>3. CASE Return(t, open_fhs - HandlesOf(c), 0)
  BY <1>1, <1>3, SameQuiet, IdleReads DEF Return
<1> QED
  BY <1>2, <1>3 DEF OpenRoot, CanOpen

LEMMA EnterReads ==
  ASSUME DirInv, TreeInv, NEW t \in Threads, Enter(t)
  PROVE  Reads(t)
<1> DEFINE c == call[t]
<1>1. c.pc = "enter" /\ view' = view /\ c \in Calls /\ Knows(c, view) /\ WalkInv(c)
      /\ c.ent \in Files /\ c.dir \in Files /\ c.todo # << >> /\ c.todo \in Seq(Names)
      /\ WalkPath(c) \in Seq(Names)
  BY KnowFacts DEF Enter, Does, WalkInv
<1>2. CASE /\ Become(t, ToScan(c, c.ent, Tail(c.todo)))
           /\ Tail(c.todo) # << >> => view[c.ent].type = "dir"
  <2>1. PICK d : d = ToScan(c, c.ent, Tail(c.todo))
    OBVIOUS
  <2>2. call'[t] = d
    BY <1>2, <2>1, Facts DEF Become
  <2>3. CASE c.op \notin Mutators
    <3>1. d.op = c.op /\ d.pc # "clear"
      BY <1>1, <2>1 DEF ToScan, Calls
    <3> QED
      BY <1>1, <2>2, <2>3, <3>1, SameQuiet DEF Reads, Knows
  <2>4. CASE c.op \in Mutators
    <3>1. Ahead(c) /\ Leads(view, WalkPath(c), Depth(c), c.dir)
          /\ Edge(view, c.dir, Head(c.todo), c.ent)
      BY <1>1, <2>4 DEF Knows, WayInv, Under
    <3> DEFINE m == Len(c.todo)
               todo == Tail(c.todo)
               n == Len(WalkPath(c)) - Len(todo)
    <3>2. /\ m \in Nat /\ m >= 1 /\ Len(todo) = m - 1 /\ Head(c.todo) = c.todo[1]
          /\ \A i \in 1 .. m - 1 : todo[i] = c.todo[i + 1]
          /\ Len(WalkPath(c)) \in Nat
      BY <1>1
    <3>3. m <= Len(WalkPath(c)) /\ \A i \in 1 .. m : c.todo[i] = WalkPath(c)[Depth(c) + i]
      BY <3>1 DEF Ahead
    <3>4. Depth(c) \in Nat /\ n = Depth(c) + 1 /\ Len(todo) <= Len(WalkPath(c))
      <4>1. \A i, j \in Nat : j >= 1 /\ j <= i => /\ i - j \in Nat /\ i - (j - 1) = i - j + 1
                                                /\ j - 1 <= i
        OBVIOUS
      <4>2. Depth(c) = Len(WalkPath(c)) - m
        BY DEF Depth
      <4> HIDE DEF c, m
      <4> QED BY <3>2, <3>3, <4>1, <4>2
    <3>5. \A i \in 1 .. Len(todo) : todo[i] = WalkPath(c)[n + i]
      <4> TAKE i \in 1 .. Len(todo)
      <4>1. i + 1 \in 1 .. m /\ i \in 1 .. m - 1 /\ Depth(c) + (i + 1) = n + i
        <5>1. i \in 1 .. m - 1
          BY <3>2
        <5> HIDE DEF m, n, c
        <5> QED BY <3>2, <3>4, <5>1
      <4> QED
        BY <3>2, <3>3, <4>1
    <3>6. Head(c.todo) = WalkPath(c)[Depth(c) + 1]
      BY <3>2, <3>3
    <3>7. Leads(view, WalkPath(c), n, c.ent)
      BY <1>1, <3>1, <3>4, <3>6, LeadsOn
    <3>8. c.pc \in Under
      BY <1>1 DEF Under
    <3>9. Knows(d, view)
      <4> HIDE DEF c
      <4> QED BY <1>1, <1>2, <2>1, <3>4, <3>5, <3>7, <3>8, ScanKnows
    <3> QED
      BY <1>1, <2>2, <3>9, SameQuiet DEF Reads
  <2> QED
    BY <2>3, <2>4
<1>3. CASE Return(t, open_fhs - HandlesOf(c), 0)
  BY <1>1, <1>3, SameQuiet, IdleReads DEF Return
<1> QED
  BY <1>2, <1>3 DEF Enter

\* With one name ahead, it is the last of the path.
LEMMA LastAhead ==
  ASSUME NEW c, Ahead(c), Len(c.todo) = 1, WalkPath(c) \in Seq(Names)
  PROVE  /\ Head(c.todo) = Last(WalkPath(c)) /\ WalkPath(c) # << >>
         /\ Depth(c) = Len(WalkPath(c)) - 1 /\ Depth(c) \in Nat
         /\ Last(WalkPath(c)) = WalkPath(c)[Depth(c) + 1]
<1>1. Len(WalkPath(c)) \in Nat /\ 1 <= Len(WalkPath(c)) /\ 1 \in 1 .. Len(c.todo)
  BY DEF Ahead
<1>2. Depth(c) = Len(WalkPath(c)) - 1 /\ Depth(c) \in Nat /\ Depth(c) + 1 = Len(WalkPath(c))
  BY <1>1 DEF Depth
<1>3. c.todo[1] = WalkPath(c)[Depth(c) + 1]
  BY <1>1 DEF Ahead
<1> QED
  BY <1>1, <1>2, <1>3 DEF Last

LEMMA ScanSlotReads ==
  ASSUME DirInv, TreeInv, NEW t \in Threads, ScanSlot(t)
  PROVE  Reads(t)
<1> DEFINE c == call[t]
           slots == view[c.dir].slots
           s == slots[c.pos]
           found == s.in_use /\ s.name = Head(c.todo)
<1>1. /\ c.pc = "scan" /\ c.pos <= Len(slots) /\ view' = view
  BY DEF ScanSlot, Does
<1>2. /\ c \in Calls /\ WalkInv(c) /\ Knows(c, view) /\ slots \in Seq(Slots) /\ SlotsInv(slots)
      /\ c.pos \in 1 .. Len(slots) + 1 /\ WalkPath(c) \in Seq(Names)
  BY <1>1, Facts, KnowFacts DEF WalkInv, PlaceInv, ViewInv, Views
<1>3. c.pos \in DOMAIN slots
  BY <1>1, <1>2
<1>4. CASE found
  <2> DEFINE l == IF AtEntry(c) THEN "entry" ELSE "enter"
  <2>1. PICK d : d = [c EXCEPT !.pc = l, !.ent = s.gname, !.at = c.pos]
    OBVIOUS
  <2>2. call'[t] = d
    BY <1>4, <2>1, Facts DEF ScanSlot, Become
  <2>3. /\ Same(c, d) /\ d.pc = l /\ d.at = c.pos /\ d.op = c.op /\ d.file = c.file
        /\ d.ent = s.gname
    BY <1>2, <2>1 DEF Calls, Same
  <2>4. s.gname \in Files /\ s.gname # NoFile
    BY <1>2, <1>3, <1>4, DirectoryAssumption DEF SlotsInv
  <2>5. ASSUME c.op \in Mutators PROVE WayInv(d, view) /\ TaskInv(d, view)
    <3>1. /\ Ahead(c) /\ Leads(view, WalkPath(c), Depth(c), c.dir) /\ view[c.dir].type = "dir"
          /\ TaskInv(c, view)
      BY <1>1, <1>2, <2>5 DEF Knows, WayInv, Under
    <3>2. TaskInv(d, view)
      BY <1>1, <2>3, <3>1, TaskGoesOn DEF Same, Under
    <3>3. /\ WalkPath(d) = WalkPath(c) /\ Depth(d) = Depth(c) /\ d.todo = c.todo /\ d.dir = c.dir
          /\ ToFile(d) = ToFile(c)
      BY <2>3 DEF WalkPath, Depth, Same, ToFile
    <3>4. Ahead(d)
      BY <3>1, <3>3 DEF Ahead
    <3>5. CASE AtEntry(c)
      <4>1. Len(c.todo) = 1 /\ ~ToFile(c) /\ d.pc = "entry"
        BY <2>3, <3>5 DEF AtEntry
      <4>2. Head(c.todo) = Last(WalkPath(c))
        BY <1>2, <3>1, <4>1, LastAhead
      <4>3. AtInv(d, slots)
        BY <1>3, <1>4, <2>3, <2>4, <3>3, <4>2 DEF AtInv
      <4> QED
        BY <3>1, <3>2, <3>3, <3>4, <4>1, <4>3 DEF WayInv, Under, Chosen
    <3>6. CASE ~AtEntry(c)
      <4>1. d.pc = "enter"
        BY <2>3, <3>6
      <4>2. Edge(view, c.dir, Head(c.todo), d.ent)
        BY <1>3, <1>4, <2>3, <3>1 DEF Edge
      <4> QED
        BY <3>1, <3>2, <3>3, <3>4, <4>1, <4>2 DEF WayInv, Under, Chosen
    <3> QED
      BY <3>5, <3>6
  <2> QED
    BY <1>1, <2>2, <2>3, <2>5, SameQuiet DEF Reads, Knows
<1>5. CASE ~found
  <2> DEFINE free == IF ~s.in_use /\ c.free = 0 THEN c.pos ELSE c.free
  <2>1. PICK d : d = [c EXCEPT !.pos = c.pos + 1, !.free = free]
    OBVIOUS
  <2>2. call'[t] = d
    BY <1>5, <2>1, <1>2, Facts DEF ScanSlot, Calls, Become
  <2>3. /\ Same(c, d) /\ d.pc = "scan" /\ d.op = c.op /\ d.file = c.file /\ d.ent = c.ent
        /\ d.free = free
    BY <1>1, <1>2, <2>1 DEF Calls, Same
  <2>4. ASSUME c.op \in Mutators PROVE WayInv(d, view) /\ TaskInv(d, view)
    <3>1. /\ Ahead(c) /\ Leads(view, WalkPath(c), Depth(c), c.dir) /\ view[c.dir].type = "dir"
          /\ c.ent = NoFile /\ (c.free # 0 => ~slots[c.free].in_use) /\ TaskInv(c, view)
      BY <1>1, <1>2, <2>4 DEF Knows, WayInv, Under
    <3>2. TaskInv(d, view)
      BY <1>1, <2>3, <3>1, TaskGoesOn DEF Same, Under
    <3>3. /\ WalkPath(d) = WalkPath(c) /\ Depth(d) = Depth(c) /\ d.todo = c.todo /\ d.dir = c.dir
      BY <2>3 DEF WalkPath, Depth, Same
    <3>4. Ahead(d)
      BY <3>1, <3>3 DEF Ahead
    <3>5. d.free # 0 => ~slots[d.free].in_use
      BY <2>3, <3>1
    <3> QED
      BY <2>3, <3>1, <3>2, <3>3, <3>4, <3>5 DEF WayInv, Under, Chosen
  <2> QED
    BY <1>1, <2>2, <2>3, <2>4, SameQuiet DEF Reads, Knows
<1> QED
  BY <1>4, <1>5

LEMMA ScanEndsReads ==
  ASSUME DirInv, TreeInv, NEW t \in Threads, ScanEnds(t)
  PROVE  Reads(t)
<1> DEFINE c == call[t]
           slots == view[c.dir].slots
<1>1. /\ c.pc = "scan" /\ c.pos > Len(slots) /\ view' = view
      /\ c \in Calls /\ WalkInv(c) /\ Knows(c, view) /\ c.dir \in Files
  BY KnowFacts DEF ScanEnds, Does, WalkInv
<1>2. slots \in Seq(Slots)
  BY <1>1, KnowFacts DEF Views
<1>3. CASE AtEntry(c)
  <2> DEFINE at == IF c.free = 0 THEN c.pos ELSE c.free
  <2>1. PICK d : d = [c EXCEPT !.pc = "entry", !.at = at]
    OBVIOUS
  <2>2. call'[t] = d
    BY <1>3, <2>1, Facts DEF ScanEnds, Become
  <2>3. /\ Same(c, d) /\ d.pc = "entry" /\ d.op = c.op /\ d.file = c.file /\ d.ent = c.ent
        /\ d.at = at
    BY <1>1, <2>1 DEF Calls, Same
  <2>4. ASSUME c.op \in Mutators PROVE WayInv(d, view) /\ TaskInv(d, view)
    <3>1. /\ Ahead(c) /\ Leads(view, WalkPath(c), Depth(c), c.dir) /\ view[c.dir].type = "dir"
          /\ c.ent = NoFile /\ (c.free # 0 => ~slots[c.free].in_use) /\ TaskInv(c, view)
      BY <1>1, <2>4 DEF Knows, WayInv, Under
    <3>2. TaskInv(d, view)
      BY <1>1, <2>3, <3>1, TaskGoesOn DEF Same, Under
    <3>3. /\ WalkPath(d) = WalkPath(c) /\ Depth(d) = Depth(c) /\ d.todo = c.todo /\ d.dir = c.dir
          /\ ToFile(d) = ToFile(c)
      BY <2>3 DEF WalkPath, Depth, Same, ToFile
    <3>4. Ahead(d)
      BY <3>1, <3>3 DEF Ahead
    <3>5. c.pos \notin DOMAIN slots
      BY <1>1, <1>2 DEF Calls
    <3>6. AtInv(d, slots)
      BY <2>3, <3>1, <3>5 DEF AtInv
    <3>7. Len(d.todo) = 1 /\ ~ToFile(d)
      BY <1>3, <3>3 DEF AtEntry
    <3> QED
      BY <2>3, <3>1, <3>2, <3>3, <3>4, <3>6, <3>7 DEF WayInv, Under, Chosen
  <2> QED
    BY <1>1, <2>2, <2>3, <2>4, SameQuiet DEF Reads, Knows
<1>4. CASE ~AtEntry(c)
  BY <1>1, <1>4, SameQuiet, IdleReads DEF ScanEnds, Return
<1> QED
  BY <1>3, <1>4

\* Once it has chosen a slot an operation stays where it is.
LEMMA ChosenStays ==
  ASSUME NEW c, NEW d, NEW v, WayInv(c, v), c.pc \in Chosen, d.pc \in Chosen, Same(c, d),
         d.at = c.at, d.ent = c.ent
  PROVE  WayInv(d, v)
<1>1. /\ Ahead(c) /\ Leads(v, WalkPath(c), Depth(c), c.dir) /\ v[c.dir].type = "dir"
      /\ Len(c.todo) = 1 /\ ~ToFile(c) /\ AtInv(c, v[c.dir].slots)
  BY DEF WayInv, Chosen, Under
<1>2. /\ WalkPath(d) = WalkPath(c) /\ Depth(d) = Depth(c) /\ d.todo = c.todo /\ d.dir = c.dir
      /\ ToFile(d) = ToFile(c)
  BY DEF WalkPath, Depth, Same, ToFile
<1>3. Ahead(d) /\ AtInv(d, v[d.dir].slots)
  BY <1>1, <1>2 DEF Ahead, AtInv
<1> QED
  BY <1>1, <1>2, <1>3 DEF WayInv, Under, Chosen

\* The steps that leave a walk, or do not belong to one.
LEMMA HeldRests ==
  ASSUME DirInv, NEW t \in Threads,
         Opened(t) \/ ReadDir(t) \/ Release(t) \/ CreateFindsEntry(t) \/ Reopen(t)
  PROVE  view' = view /\ \E d : Become(t, d) /\ d.pc \notin Under
<1> DEFINE c == call[t]
<1>1. view' = view /\ c \in Calls
  BY Facts DEF Opened, ReadDir, Release, CreateFindsEntry, Reopen
<1> DEFINE Goal == \E d : Become(t, d) /\ d.pc \notin Under
<1>2. ASSUME Become(t, Idle) PROVE Goal
  BY <1>2, IdleFacts DEF Under
<1>3. ASSUME NEW d, Become(t, d), d.pc \in {"held", "list", "reopen"} PROVE Goal
  BY <1>3 DEF Under
<1> HIDE DEF Goal
<1>4. ASSUME Opened(t) PROVE Goal
  <2> DEFINE d == [c EXCEPT !.pc = IF c.op = "open" THEN "held" ELSE "list", !.pos = 1]
  <2>1. Become(t, d) \/ Become(t, Idle)
    BY <1>4 DEF Opened, Return
  <2>2. d.pc \in {"held", "list", "reopen"}
    BY <1>1 DEF Calls
  <2> HIDE DEF d
  <2> QED
    BY <1>2, <1>3, <2>1, <2>2
<1>5. ASSUME ReadDir(t) PROVE Goal
  <2> DEFINE d == [c EXCEPT !.pos = @ + 1]
  <2>1. Become(t, d) /\ c.pc = "list"
    BY <1>5 DEF ReadDir, Does
  <2>2. d.pc \in {"held", "list", "reopen"}
    BY <1>1, <2>1 DEF Calls
  <2> HIDE DEF d
  <2> QED
    BY <1>3, <2>1, <2>2
<1>6. ASSUME Release(t) PROVE Goal
  BY <1>2, <1>6 DEF Release, Return
<1>7. ASSUME CreateFindsEntry(t) PROVE Goal
  <2> DEFINE d == [c EXCEPT !.pc = "reopen"]
  <2>1. Become(t, d)
    BY <1>7 DEF CreateFindsEntry
  <2>2. d.pc \in {"held", "list", "reopen"}
    BY <1>1 DEF Calls
  <2> HIDE DEF d
  <2> QED
    BY <1>3, <2>1, <2>2
<1>8. ASSUME Reopen(t) PROVE Goal
  <2> DEFINE d == [c EXCEPT !.pc = "held", !.dir = c.ent]
  <2>1. Become(t, d) \/ Become(t, Idle)
    BY <1>8 DEF Reopen, Return
  <2>2. d.pc \in {"held", "list", "reopen"}
    BY <1>1 DEF Calls
  <2> HIDE DEF d
  <2> QED
    BY <1>2, <1>3, <2>1, <2>2
<1> QED
  BY <1>1, <1>4, <1>5, <1>6, <1>7, <1>8 DEF Goal

LEMMA HeldReads ==
  ASSUME DirInv, NEW t \in Threads,
         Opened(t) \/ ReadDir(t) \/ Release(t) \/ CreateFindsEntry(t) \/ Reopen(t)
  PROVE  Reads(t)
BY HeldRests, SameQuiet, RestReads

LEMMA VisitReads ==
  ASSUME DirInv, NEW t \in Threads, Visit(t)
  PROVE  Reads(t)
<1>1. Become(t, Idle) /\ view \in Views
  BY Facts DEF Visit, Return
<1>2. view' = view \/ \E perm \in Perms : view' = [view EXCEPT ![call[t].dir].perm = perm]
  BY DEF Visit
<1>3. Quiet(view, view')
  <2>1. CASE view' = view
    BY <2>1, SameQuiet
  <2>2. ASSUME NEW perm \in Perms, view' = [view EXCEPT ![call[t].dir].perm = perm]
        PROVE  Quiet(view, view')
    BY <1>1, <2>2 DEF Quiet, Views
  <2> QED
    BY <1>2, <2>1, <2>2
<1> QED
  BY <1>1, <1>3, IdleReads

LEMMA RemoveChecksReads ==
  ASSUME DirInv, TreeInv, NEW t \in Threads, RemoveChecks(t)
  PROVE  Reads(t)
<1> DEFINE c == call[t]
<1>1. /\ c.pc = "entry" /\ c.op \in {"unlink", "rmdir"} /\ view' = view
      /\ c \in Calls /\ Knows(c, view)
  BY KnowFacts DEF RemoveChecks, Does
<1>2. CASE /\ c.ent # NoFile /\ CanOpen(c.ent, WantedType(c))
           /\ c.op = "rmdir" => isempty(c.ent)
           /\ Become(t, [c EXCEPT !.pc = "clear"])
  <2>1. PICK d : d = [c EXCEPT !.pc = "clear"]
    OBVIOUS
  <2>2. /\ Same(c, d) /\ d.pc = "clear" /\ d.op = c.op /\ d.at = c.at /\ d.ent = c.ent
        /\ call'[t] = d
    BY <1>1, <1>2, <2>1, Facts DEF Calls, Same, Become
  <2>3. c.op \in Mutators
    BY <1>1 DEF Mutators
  <2>4. WayInv(d, view)
    BY <1>1, <2>2, <2>3, ChosenStays DEF Knows, Chosen
  <2>5. Bare(view, c.ent)
    BY <1>1, <1>2 DEF Bare, isempty, CanOpen, WantedType
  <2>6. TaskInv(d, view)
    BY <1>1, <1>2, <2>2, <2>5 DEF TaskInv
  <2> QED
    BY <1>1, <2>2, <2>3, <2>4, <2>6, SameQuiet DEF Reads, Knows
<1>3. CASE Return(t, open_fhs - 1, 0)
  BY <1>1, <1>3, SameQuiet, IdleReads DEF Return
<1> QED
  BY <1>2, <1>3 DEF RemoveChecks

LEMMA RenameFindsOldReads ==
  ASSUME DirInv, TreeInv, NEW t \in Threads, RenameFindsOld(t)
  PROVE  Reads(t)
<1> DEFINE c == call[t]
<1>1. /\ c.pc = "entry" /\ c.op = "rename" /\ c.stage = 3 /\ view' = view
      /\ c \in Calls /\ Knows(c, view)
  BY KnowFacts DEF RenameFindsOld, Does
<1>2. CASE c.ent # NoFile /\ Become(t, [c EXCEPT !.pc = "clear"])
  <2>1. PICK d : d = [c EXCEPT !.pc = "clear"]
    OBVIOUS
  <2>2. /\ Same(c, d) /\ d.pc = "clear" /\ d.op = c.op /\ d.at = c.at /\ d.ent = c.ent
        /\ d.stage = c.stage /\ d.p = c.p /\ d.q = c.q /\ d.file = c.file /\ call'[t] = d
    BY <1>1, <1>2, <2>1, Facts DEF Calls, Same, Become
  <2>3. c.op \in Mutators
    BY <1>1 DEF Mutators
  <2>4. WayInv(d, view)
    BY <1>1, <2>2, <2>3, ChosenStays DEF Knows, Chosen
  <2>5. TaskInv(c, view)
    BY <1>1, <2>3 DEF Knows
  <2>6. TaskInv(d, view)
    BY <1>1, <1>2, <2>2, <2>5 DEF TaskInv, Under
  <2> QED
    BY <1>1, <2>2, <2>3, <2>4, <2>6, SameQuiet DEF Reads, Knows
<1>3. CASE Return(t, open_fhs - 1, 0)
  BY <1>1, <1>3, SameQuiet, IdleReads DEF Return
<1> QED
  BY <1>2, <1>3 DEF RenameFindsOld

LEMMA RenameChecksReads ==
  ASSUME DirInv, TreeInv, NEW t \in Threads, RenameChecks(t)
  PROVE  Reads(t)
<1> DEFINE c == call[t]
<1>1. /\ c.pc = "entry" /\ c.op = "rename" /\ c.stage = 2 /\ view' = view
      /\ c \in Calls /\ Knows(c, view)
  BY KnowFacts DEF RenameChecks, Does
<1>2. CASE /\ c.ent # NoFile => Replaceable(c)
           /\ Become(t, [c EXCEPT !.pc = "add"])
  <2>1. PICK d : d = [c EXCEPT !.pc = "add"]
    OBVIOUS
  <2>2. /\ Same(c, d) /\ d.pc = "add" /\ d.op = c.op /\ d.at = c.at /\ d.ent = c.ent
        /\ d.stage = c.stage /\ d.p = c.p /\ d.q = c.q /\ d.file = c.file /\ call'[t] = d
    BY <1>1, <1>2, <2>1, Facts DEF Calls, Same, Become
  <2>3. c.op \in Mutators
    BY <1>1 DEF Mutators
  <2>4. WayInv(d, view)
    BY <1>1, <2>2, <2>3, ChosenStays DEF Knows, Chosen
  <2>5. TaskInv(c, view)
    BY <1>1, <2>3 DEF Knows
  <2>6. c.ent # NoFile => view[c.ent].type = view[c.file].type /\ Bare(view, c.ent)
    BY <1>2 DEF Replaceable, Bare, isempty
  <2>7. TaskInv(d, view)
    BY <1>1, <2>2, <2>5, <2>6 DEF TaskInv, Under
  <2> QED
    BY <1>1, <2>2, <2>3, <2>4, <2>7, SameQuiet DEF Reads, Knows
<1>3. CASE Return(t, open_fhs - 1, 1)
  BY <1>1, <1>3, SameQuiet, IdleReads DEF Return
<1> QED
  BY <1>2, <1>3 DEF RenameChecks

LEMMA RenameOpenedReads ==
  ASSUME DirInv, TreeInv, NEW t \in Threads, RenameOpened(t)
  PROVE  Reads(t)
<1> DEFINE c == call[t]
<1>1. /\ c.pc = "opened" /\ c.op = "rename" /\ view' = view
      /\ Become(t, [c EXCEPT !.pc = "root", !.stage = 2, !.todo = c.q, !.file = c.dir])
  BY DEF RenameOpened, Does
<1>2. /\ c \in Calls /\ WalkInv(c) /\ Knows(c, view) /\ Len(c.p) \in Nat /\ Len(c.q) \in Nat
      /\ c.p \in Seq(Names) /\ c.q \in Seq(Names)
  BY KnowFacts
<1>3. c.stage = 1 /\ c.dir \in Files /\ c.p # << >>
  BY <1>1, <1>2 DEF WalkInv, ToFile, Openers, Mutators
<1>4. PICK d : d = [c EXCEPT !.pc = "root", !.stage = 2, !.todo = c.q, !.file = c.dir]
  OBVIOUS
<1>5. /\ d.pc = "root" /\ d.op = "rename" /\ d.stage = 2 /\ d.todo = c.q /\ d.file = c.dir
      /\ d.p = c.p /\ d.q = c.q /\ call'[t] = d
  BY <1>1, <1>2, <1>4, Facts DEF Calls, Become
<1>6. c.op \in Mutators
  BY <1>1 DEF Mutators
<1>7. c.todo = << >> /\ Leads(view, WalkPath(c), Depth(c), c.dir) /\ TaskInv(c, view)
  BY <1>1, <1>2, <1>6 DEF Knows, WayInv, Under
<1>8. WalkPath(c) = c.p /\ Depth(c) = Len(c.p)
  <2>1. WalkPath(c) = c.p
    BY <1>3 DEF WalkPath
  <2>2. Len(c.todo) = 0
    BY <1>7
  <2> HIDE DEF c
  <2> QED BY <1>2, <2>1, <2>2 DEF Depth
<1>9. Leads(view, c.p, Len(c.p), c.dir)
  BY <1>7, <1>8
<1>10. view[c.dir].type # "new"
  BY <1>1, <1>3, <1>7, <1>9 DEF TaskInv, Under
<1>11. c.dir # Root
  <2>1. Len(c.p) - 1 \in Nat /\ Len(c.p) - 1 + 1 = Len(c.p)
    BY <1>2, <1>3
  <2>2. PICK e \in Files : Edge(view, e, c.p[Len(c.p)], c.dir)
    BY <1>9, <2>1, LeadsBack
  <2> QED
    BY <2>2 DEF Edge, TreeInv, Sound
<1>12. TaskInv(d, view)
  BY <1>5, <1>9, <1>10, <1>11 DEF TaskInv
<1>13. WayInv(d, view)
  <2>1. WalkPath(d) = c.q /\ Depth(d) = 0
    BY <1>2, <1>5 DEF WalkPath, Depth
  <2>2. Ahead(d)
    BY <1>2, <1>5, <2>1 DEF Ahead
  <2> QED
    BY <1>5, <2>1, <2>2 DEF WayInv, Chosen
<1> QED
  BY <1>1, <1>5, <1>12, <1>13, SameQuiet DEF Reads, Knows
-----------------------------------------------------------------------------
\* The steps that do change the tree: one file gets its first record, or one slot of
\* one directory is written.
Makes(v, w, f) ==
    /\ f # Root /\ \A d \in Files : \A i \in DOMAIN v[d].slots : v[d].slots[i].gname # f
    /\ w[f].type \in {"file", "dir"} /\ w[f].slots = << >>
    /\ \A e \in Files : e # f => w[e] = v[e]

Puts(v, w, d, i, s) ==
    /\ \A e \in Files : e # d => w[e] = v[e]
    /\ w[d].type = v[d].type
    /\ DOMAIN w[d].slots = DOMAIN v[d].slots \cup {i} /\ w[d].slots[i] = s
    /\ \A j \in DOMAIN v[d].slots : j # i => w[d].slots[j] = v[d].slots[j]

\* No walk goes through a file that nothing names.
LEMMA MakeLeads ==
  ASSUME NEW v, NEW w, NEW f \in Files, Makes(v, w, f), NEW p, NEW k \in Nat, NEW g,
         Leads(v, p, k, g)
  PROVE  Leads(w, p, k, g)
<1>1. ASSUME NEW j \in 0 .. k - 1, NEW d \in Files, NEW e \in Files,
             Leads(v, p, j, d), Edge(v, d, p[j + 1], e)
      PROVE  Edge(w, d, p[j + 1], e)
  <2>1. d # f
    <3> SUFFICES ASSUME d = f PROVE FALSE
      OBVIOUS
    <3>1. j # 0
      BY <1>1 DEF Leads, Way, Makes
    <3>2. j - 1 \in Nat /\ j - 1 + 1 = j
      BY <3>1
    <3>3. PICK b \in Files : Edge(v, b, p[j], d)
      BY <1>1, <3>2, LeadsBack
    <3> QED
      BY <3>3 DEF Edge, Makes
  <2> QED
    BY <1>1, <2>1 DEF Edge, Makes
<1> QED
  BY <1>1, LeadsKept

\* What an operation knows when it writes its slot: where the name is if it is anywhere.
SlotKnown(v, d, i, n) ==
    /\ d \in Files /\ v[d].type = "dir" /\ n \in Names
    /\ i \in DOMAIN v[d].slots /\ v[d].slots[i].in_use => v[d].slots[i].name = n
    /\ \A j \in DOMAIN v[d].slots : j # i /\ v[d].slots[j].in_use => v[d].slots[j].name # n

\* The names of a directory before and after the write of a slot: another name is as
\* it was, and no other slot has this one's.
LEMMA PutEdges ==
  ASSUME NEW v, NEW w, NEW d \in Files, NEW i, NEW s, Puts(v, w, d, i, s),
         NEW n, SlotKnown(v, d, i, n), s.in_use => s.name = n
  PROVE  \A e \in Files : \A m, g :
           Edge(w, e, m, g) <=> \/ <<e, m>> # <<d, n>> /\ Edge(v, e, m, g)
                                \/ <<e, m>> = <<d, n>> /\ s.in_use /\ g = s.gname
<1> SUFFICES ASSUME NEW e \in Files, NEW m, NEW g
             PROVE  Edge(w, e, m, g) <=> \/ <<e, m>> # <<d, n>> /\ Edge(v, e, m, g)
                                         \/ <<e, m>> = <<d, n>> /\ s.in_use /\ g = s.gname
  OBVIOUS
<1>1. CASE e # d
  BY <1>1 DEF Edge, Puts
<1>2. CASE e = d
  <2> DEFINE old == v[d].slots
             new == w[d].slots
  <2>1. /\ DOMAIN new = DOMAIN old \cup {i} /\ new[i] = s
        /\ \A j \in DOMAIN old : j # i => new[j] = old[j]
        /\ w[d].type = "dir" /\ v[d].type = "dir"
        /\ i \in DOMAIN old /\ old[i].in_use => old[i].name = n
        /\ \A j \in DOMAIN old : j # i /\ old[j].in_use => old[j].name # n
    BY DEF Puts, SlotKnown
  <2> HIDE DEF old, new
  <2>2. CASE m = n
    <3>1. ASSUME Edge(w, d, n, g) PROVE s.in_use /\ g = s.gname
      <4>1. PICK j \in DOMAIN new : new[j].in_use /\ new[j].name = n /\ new[j].gname = g
        BY <3>1 DEF Edge, new
      <4>2. j = i
        BY <2>1, <4>1
      <4> QED
        BY <2>1, <4>1, <4>2
    <3>2. ASSUME s.in_use, g = s.gname PROVE Edge(w, d, n, g)
      <4>1. i \in DOMAIN new /\ new[i].in_use /\ new[i].name = n /\ new[i].gname = g
        BY <2>1, <3>2
      <4> QED
        BY <2>1, <4>1 DEF Edge, new
    <3> QED
      BY <1>2, <2>2, <3>1, <3>2
  <2>3. CASE m # n
    <3>1. ASSUME Edge(w, d, m, g) PROVE Edge(v, d, m, g)
      <4>1. PICK j \in DOMAIN new : new[j].in_use /\ new[j].name = m /\ new[j].gname = g
        BY <3>1 DEF Edge, new
      <4>2. j # i
        BY <2>1, <2>3, <4>1
      <4> QED
        BY <2>1, <4>1, <4>2 DEF Edge, old
    <3>2. ASSUME Edge(v, d, m, g) PROVE Edge(w, d, m, g)
      <4>1. PICK j \in DOMAIN old : old[j].in_use /\ old[j].name = m /\ old[j].gname = g
        BY <3>2 DEF Edge, old
      <4>2. j # i
        BY <2>1, <2>3, <4>1
      <4>3. j \in DOMAIN new /\ new[j].in_use /\ new[j].name = m /\ new[j].gname = g
        BY <2>1, <4>1, <4>2
      <4> QED
        BY <2>1, <4>3 DEF Edge, new
    <3> QED
      BY <1>2, <2>3, <3>1, <3>2
  <2> QED
    BY <2>2, <2>3
<1> QED
  BY <1>1, <1>2

\* A walk does not go through the file that loses its name, if that file is bare.
LEMMA PutLeads ==
  ASSUME NEW v, NEW w, NEW d \in Files, NEW n,
         \A e \in Files : \A m, g : <<e, m>> # <<d, n>> /\ Edge(v, e, m, g) => Edge(w, e, m, g),
         NEW p, NEW k \in Nat, NEW f, Leads(v, p, k, f),
         \A g \in Files : Edge(v, d, n, g) => Edge(w, d, n, g) \/ (Bare(v, g) /\ g # f)
  PROVE  Leads(w, p, k, f)
<1>1. ASSUME NEW j \in 0 .. k - 1, NEW b \in Files, NEW e \in Files,
             Leads(v, p, j, b), Edge(v, b, p[j + 1], e),
             j + 1 < k => \E g : Edge(v, e, p[j + 2], g),
             j + 1 = k => e = f
      PROVE  Edge(w, b, p[j + 1], e)
  <2>1. CASE <<b, p[j + 1]>> # <<d, n>>
    BY <1>1, <2>1
  <2>2. CASE b = d /\ p[j + 1] = n
    <3>1. j + 1 < k \/ j + 1 = k
      OBVIOUS
    <3>2. ASSUME NEW m, NEW g, Edge(v, e, m, g) PROVE ~Bare(v, e)
      BY <3>2 DEF Edge, Bare, NamesIn
    <3> QED
      BY <1>1, <2>2, <3>1, <3>2
  <2> QED
    BY <2>1, <2>2
<1> QED
  BY <1>1, LeadsKept
-----------------------------------------------------------------------------
\* The name an operation is about.
Subject(c) == Last(WalkPath(c))

\* A step that gives the name n in d to the file f, and a step that takes it away.
Adds(v, w, d, i, n, f) ==
    /\ SlotKnown(v, d, i, n) /\ Puts(v, w, d, i, Slot(n, f))
    /\ f \in Files /\ f # Root /\ v[f].type # "new"
    /\ \A g \in Files : Edge(v, d, n, g) => v[g].type = v[f].type /\ Bare(v, g)

Clears(v, w, d, i, n, f) ==
    /\ SlotKnown(v, d, i, n) /\ Puts(v, w, d, i, Unused)
    /\ f \in Files /\ Edge(v, d, n, f) /\ Spare(v, d, n, f)

LEMMA SlotPuts ==
  ASSUME DirInv, NEW d \in Files, NEW i \in 1 .. Len(view[d].slots) + 1, NEW s \in Slots,
         s.in_use => s.name \in Names /\ s.gname \in Files, WriteSlot(d, i, s)
  PROVE  Puts(view, view', d, i, s)
<1>1. Written(d, i, s)
  BY SlotWritten
<1>2. view \in Views
  BY DEF DirInv, ViewInv
<1>3. view'[d].type = view[d].type
  <2>1. \E new : view' = [view EXCEPT ![d].slots = new]
    BY DEF WriteSlot
  <2> QED
    BY <1>2, <2>1 DEF Views
<1> QED
  BY <1>1, <1>3 DEF Written, Puts

LEMMA AddEdges ==
  ASSUME NEW v, NEW w, NEW d, NEW i, NEW n, NEW f, Adds(v, w, d, i, n, f)
  PROVE  /\ d \in Files /\ f \in Files
         /\ \A e \in Files : \A m, g :
              Edge(w, e, m, g) <=> \/ <<e, m>> # <<d, n>> /\ Edge(v, e, m, g)
                                   \/ <<e, m>> = <<d, n>> /\ g = f
<1>1. PICK s : s = Slot(n, f)
  OBVIOUS
<1>2. s.in_use /\ s.name = n /\ s.gname = f
  BY <1>1 DEF Slot
<1>3. SlotKnown(v, d, i, n) /\ Puts(v, w, d, i, s) /\ f \in Files
  BY <1>1 DEF Adds
<1>4. d \in Files
  BY <1>3 DEF SlotKnown
<1>5. \A e \in Files : \A m, g :
        Edge(w, e, m, g) <=> \/ <<e, m>> # <<d, n>> /\ Edge(v, e, m, g)
                             \/ <<e, m>> = <<d, n>> /\ s.in_use /\ g = s.gname
  BY <1>2, <1>3, <1>4, PutEdges
<1> QED
  BY <1>2, <1>3, <1>4, <1>5

LEMMA ClearEdges ==
  ASSUME NEW v, NEW w, NEW d, NEW i, NEW n, NEW f, Clears(v, w, d, i, n, f)
  PROVE  /\ d \in Files /\ f \in Files /\ Edge(v, d, n, f)
         /\ \A e \in Files : \A m, g :
              Edge(w, e, m, g) <=> <<e, m>> # <<d, n>> /\ Edge(v, e, m, g)
<1>1. PICK s : s = Unused
  OBVIOUS
<1>2. ~s.in_use
  BY <1>1 DEF Unused
<1>3. SlotKnown(v, d, i, n) /\ Puts(v, w, d, i, s) /\ f \in Files /\ Edge(v, d, n, f)
  BY <1>1 DEF Clears
<1>4. d \in Files
  BY <1>3 DEF SlotKnown
<1>5. \A e \in Files : \A m, g :
        Edge(w, e, m, g) <=> \/ <<e, m>> # <<d, n>> /\ Edge(v, e, m, g)
                             \/ <<e, m>> = <<d, n>> /\ s.in_use /\ g = s.gname
  BY <1>2, <1>3, <1>4, PutEdges
<1> QED
  BY <1>2, <1>3, <1>4, <1>5

\* The slot an operation has chosen, in terms of the names of the directory.
LEMMA ChosenFacts ==
  ASSUME DirInv, TreeInv, NEW t \in Threads, call[t].pc \in Chosen, call[t].op \in Mutators
  PROVE  LET c == call[t]
             slots == view[c.dir].slots
         IN  /\ c \in Calls /\ c.dir \in Files /\ view[c.dir].type = "dir"
             /\ c.at \in 1 .. Len(slots) + 1
             /\ Subject(c) \in Names /\ WayInv(c, view) /\ TaskInv(c, view)
             /\ Leads(view, WalkPath(c), Len(WalkPath(c)) - 1, c.dir)
             /\ WalkPath(c) \in Seq(Names) /\ WalkPath(c) # << >>
             /\ ~ToFile(c) /\ AtInv(c, slots)
             /\ c.ent # NoFile => c.ent \in Files /\ Edge(view, c.dir, Subject(c), c.ent)
<1> DEFINE c == call[t]
           slots == view[c.dir].slots
<1>1. /\ c \in Calls /\ WayInv(c, view) /\ TaskInv(c, view) /\ WalkInv(c)
      /\ WalkPath(c) \in Seq(Names) /\ (c.ent # NoFile => c.ent \in Files)
  BY KnowFacts
<1>2. c.dir \in Files /\ c.at \in 1 .. Len(slots) + 1
  BY Facts DEF WalkInv, PlaceInv, Chosen
<1>3. /\ Ahead(c) /\ Leads(view, WalkPath(c), Depth(c), c.dir) /\ view[c.dir].type = "dir"
      /\ Len(c.todo) = 1 /\ ~ToFile(c) /\ AtInv(c, slots)
  BY <1>1 DEF WayInv, Under, Chosen
<1>4. Depth(c) = Len(WalkPath(c)) - 1 /\ WalkPath(c) # << >>
  BY <1>1, <1>3, LastAhead
<1>5. Subject(c) \in Names
  BY <1>1, <1>4, LastName DEF Subject
<1>6. c.ent # NoFile => Edge(view, c.dir, Subject(c), c.ent)
  BY <1>3 DEF AtInv, Edge, Subject
<1> QED
  BY <1>1, <1>2, <1>3, <1>4, <1>5, <1>6

\* A step that writes a new entry.
LEMMA AddFacts ==
  ASSUME DirInv, TreeInv, NamesKnown, NEW t \in Threads, CreateAdds(t) \/ RenameAdds(t)
  PROVE  LET c == call[t]
         IN  /\ c.op \in Mutators /\ Subject(c) = Target(c) /\ WalkInv(c)
             /\ Adds(view, view', c.dir, c.at, Subject(c), c.file)
             /\ c.op = "rename" => c.stage = 2
             /\ \A g \in Files : Edge(view, c.dir, Subject(c), g) => g = c.ent
<1> DEFINE c == call[t]
           n == Subject(c)
           slots == view[c.dir].slots
<1>1. c.pc = "add" /\ c.op \in {"create", "mkdir", "rename"} /\ c.op \in Mutators
  BY DEF CreateAdds, RenameAdds, Does, Mutators
<1>2. /\ c \in Calls /\ c.dir \in Files /\ view[c.dir].type = "dir" /\ TaskInv(c, view)
      /\ c.at \in 1 .. Len(slots) + 1 /\ n \in Names /\ AtInv(c, slots)
      /\ c.ent # NoFile => c.ent \in Files
  BY <1>1, ChosenFacts DEF Chosen
<1>3. WalkInv(c) /\ c.file \in Files
  BY <1>1, KnowFacts DEF WalkInv
<1>4. NameInv(c, slots)
  BY DEF NamesKnown
<1>5. c.op = "rename" => c.stage = 2
  BY <1>1, <1>4 DEF NameInv, AddOp
<1>6. n = Target(c)
  BY <1>1, <1>5 DEF Subject, WalkPath, Target
<1>7. WriteSlot(c.dir, c.at, Slot(n, c.file))
  BY <1>6 DEF CreateAdds, RenameAdds, Target
<1>8. Puts(view, view', c.dir, c.at, Slot(n, c.file))
  <2>1. /\ Slot(n, c.file) \in Slots /\ Slot(n, c.file).in_use /\ Slot(n, c.file).name = n
        /\ Slot(n, c.file).gname = c.file
    BY <1>2, <1>3, SlotFacts
  <2> HIDE DEF n, c
  <2> QED BY <1>2, <1>3, <1>7, <2>1, SlotPuts
<1>9. Adding(c)
  BY <1>1, <1>4 DEF NameInv, Adding
<1>10. \A j \in DOMAIN slots : j # c.at /\ slots[j].in_use => slots[j].name # n
  BY <1>1, <1>4, <1>6, <1>9 DEF NameInv
<1>11. c.at \in DOMAIN slots /\ slots[c.at].in_use => slots[c.at].name = n /\ slots[c.at].gname = c.ent
  BY <1>2 DEF AtInv, Subject
<1>12. \A g \in Files : Edge(view, c.dir, n, g) => g = c.ent
  BY <1>10, <1>11 DEF Edge
<1>13. c.file # Root /\ view[c.file].type # "new"
  BY <1>1, <1>2, <1>5 DEF TaskInv, Under
<1>14. c.ent # NoFile => view[c.ent].type = view[c.file].type /\ Bare(view, c.ent)
  BY <1>1, <1>2 DEF TaskInv
<1>15. NoFile \notin Files
  BY DirectoryAssumption
<1>16. SlotKnown(view, c.dir, c.at, n)
  BY <1>2, <1>10, <1>11 DEF SlotKnown
<1>17. Adds(view, view', c.dir, c.at, n, c.file)
  <2> HIDE DEF n, c
  <2> QED BY <1>3, <1>8, <1>12, <1>13, <1>14, <1>15, <1>16 DEF Adds
<1> QED
  BY <1>1, <1>3, <1>5, <1>6, <1>12, <1>17

\* A step that clears an entry.
LEMMA ClearFacts ==
  ASSUME DirInv, TreeInv, NEW t \in Threads, RemoveClears(t)
  PROVE  LET c == call[t]
         IN  /\ c.op \in Mutators /\ c.pc = "clear" /\ WalkPath(c) = c.p
             /\ Clears(view, view', c.dir, c.at, Last(c.p), c.ent)
             /\ c.op = "rename" => /\ c.stage = 3 /\ c.ent = c.file
                                   /\ Leads(view, c.q, Len(c.q), c.file)
             /\ c.op # "rename" => Bare(view, c.ent)
             /\ call'[t] = Idle
<1> DEFINE c == call[t]
           n == Last(c.p)
           slots == view[c.dir].slots
<1>1. c.pc = "clear" /\ WriteSlot(c.dir, c.at, Unused) /\ call'[t] = Idle
  BY Facts DEF RemoveClears, Does, Return, Become
<1>2. c.op \in Mutators
  BY <1>1, KnowFacts DEF Knows, Mutators
<1>3. /\ c \in Calls /\ c.dir \in Files /\ view[c.dir].type = "dir" /\ TaskInv(c, view)
      /\ c.at \in 1 .. Len(slots) + 1 /\ Subject(c) \in Names /\ AtInv(c, slots) /\ ~ToFile(c)
      /\ Leads(view, WalkPath(c), Len(WalkPath(c)) - 1, c.dir)
      /\ WalkPath(c) \in Seq(Names) /\ WalkPath(c) # << >>
      /\ c.ent # NoFile => c.ent \in Files /\ Edge(view, c.dir, Subject(c), c.ent)
  BY <1>1, <1>2, ChosenFacts DEF Chosen
<1>4. ~(c.op = "rename" /\ c.stage = 2) /\ c.ent # NoFile
  BY <1>1, <1>3, KnowFacts DEF WalkInv, TaskInv
<1>5. WalkPath(c) = c.p /\ Subject(c) = n
  BY <1>4 DEF WalkPath, Subject
<1>6. Puts(view, view', c.dir, c.at, Unused)
  BY <1>1, <1>3, SlotFacts, SlotPuts
<1>7. \A d \in Files : Unique(view[d].slots)
  BY KnowFacts
<1>8. c.at \in DOMAIN slots /\ slots[c.at].in_use /\ slots[c.at].name = n
  BY <1>3, <1>4, <1>5 DEF AtInv, Subject
<1>9. SlotKnown(view, c.dir, c.at, n)
  BY <1>3, <1>5, <1>7, <1>8 DEF SlotKnown, Unique
<1>10. c.ent \in Files /\ Edge(view, c.dir, n, c.ent)
  BY <1>3, <1>4, <1>5
<1>11. c.op # "rename" => Bare(view, c.ent)
  <2>1. c.op # "rename" => c.op \in {"unlink", "rmdir"}
    BY <1>1, KnowFacts DEF Knows
  <2> QED
    BY <1>1, <1>3, <2>1 DEF TaskInv
<1>12. ASSUME c.op = "rename"
       PROVE  /\ c.stage = 3 /\ c.ent = c.file /\ Leads(view, c.q, Len(c.q), c.file)
              /\ Spare(view, c.dir, n, c.ent)
  <2>1. c.stage # 0 /\ c.stage # 1 /\ c.stage # 2 /\ c.stage \in 0 .. 3
    BY <1>1, <1>3, <1>4, <1>12 DEF TaskInv, Under, ToFile, Calls
  <2>2. c.stage = 3
    BY <2>1
  <2>3. Leads(view, c.q, Len(c.q), c.file)
    BY <1>1, <1>3, <1>12, <2>2 DEF TaskInv, Under
  <2>4. PICK d \in Files : /\ Leads(view, c.p, Len(c.p) - 1, d) /\ Edge(view, d, n, c.file)
                           /\ Spare(view, d, n, c.file)
    BY <1>1, <1>3, <1>12, <2>2 DEF TaskInv, Under
  <2>5. Len(c.p) - 1 \in Nat
    BY <1>3, <1>5
  <2>6. d = c.dir
    BY <1>3, <1>5, <1>7, <2>4, <2>5, LeadsOne
  <2>7. c.ent = c.file
    BY <1>3, <1>7, <1>10, <2>4, <2>6, EdgeOne
  <2> QED
    BY <2>2, <2>3, <2>4, <2>6, <2>7
<1>13. Spare(view, c.dir, n, c.ent)
  BY <1>11, <1>12 DEF Spare
<1>14. Clears(view, view', c.dir, c.at, n, c.ent)
  BY <1>6, <1>9, <1>10, <1>13 DEF Clears
<1> QED
  BY <1>1, <1>2, <1>5, <1>11, <1>12, <1>14

\* A step that writes the first record of a fresh file.
MakesFile(t) ==
    /\ call[t].pc = "entry" /\ call[t].op \in {"create", "mkdir"} /\ call'[t].pc = "add"
    /\ call'[t].file \in Files /\ Makes(view, view', call'[t].file)

LEMMA CreateFileKind ==
  ASSUME DirInv, TreeInv, NEW t \in Threads, CreateFile(t)
  PROVE  \/ MakesFile(t) /\ Knows(call'[t], view')
         \/ Become(t, Idle) /\ view' = view
<1> DEFINE c == call[t]
<1>1. /\ c.pc = "entry" /\ c.op \in {"create", "mkdir"} /\ c.op \in Mutators /\ c.ent = NoFile
  BY DEF CreateFile, Does, Mutators
<1>2. /\ c \in Calls /\ WayInv(c, view) /\ view \in Views /\ WalkInv(c)
      /\ WalkPath(c) \in Seq(Names)
  BY <1>1, KnowFacts
<1>3. CASE \E f \in Files, perm \in Perms :
             /\ Fresh(f)
             /\ view' = [view EXCEPT ![f] = File(WantedType(c), perm)]
             /\ Become(t, [c EXCEPT !.pc = "add", !.file = f])
  <2>1. PICK f \in Files, perm \in Perms :
             /\ Fresh(f)
             /\ view' = [view EXCEPT ![f] = File(WantedType(c), perm)]
             /\ Become(t, [c EXCEPT !.pc = "add", !.file = f])
    BY <1>3
  <2>2. PICK d : d = [c EXCEPT !.pc = "add", !.file = f]
    OBVIOUS
  <2>3. /\ Same(c, d) /\ d.pc = "add" /\ d.at = c.at /\ d.op = c.op /\ d.ent = c.ent
        /\ d.file = f /\ call'[t] = d
    BY <1>2, <2>1, <2>2, Facts DEF Calls, Same, Become
  <2>4. /\ WantedType(c) \in {"file", "dir"} /\ File(WantedType(c), perm).slots = << >>
        /\ File(WantedType(c), perm).type = WantedType(c)
    BY <1>1 DEF File, WantedType
  <2>5. /\ view'[f].slots = << >> /\ view'[f].type \in {"file", "dir"}
        /\ \A e \in Files : e # f => view'[e] = view[e]
    BY <1>2, <2>1, <2>4 DEF Views
  <2>6. f # Root /\ c.dir # f /\ Makes(view, view', f)
    BY <2>1, <2>5 DEF Fresh, Makes
  <2>7. WayInv(d, view)
    BY <1>1, <1>2, <2>3, ChosenStays DEF Chosen
  <2>8. WayInv(d, view')
    <3>1. /\ Ahead(d) /\ Leads(view, WalkPath(d), Depth(d), d.dir) /\ view[d.dir].type = "dir"
          /\ Len(d.todo) = 1 /\ ~ToFile(d) /\ AtInv(d, view[d.dir].slots)
      BY <2>3, <2>7 DEF WayInv, Under, Chosen
    <3>2. WalkPath(d) = WalkPath(c)
      BY <2>3 DEF WalkPath, Same
    <3>3. Depth(d) \in Nat
      BY <1>2, <3>1, <3>2, LastAhead
    <3>4. Leads(view', WalkPath(d), Depth(d), d.dir)
      BY <2>6, <3>1, <3>3, MakeLeads
    <3>5. d.dir = c.dir /\ c.dir \in Files
      BY <1>1, <1>2, <2>3 DEF Same, WalkInv
    <3>6. view'[d.dir] = view[d.dir]
      BY <2>5, <2>6, <3>5
    <3> QED
      BY <2>3, <3>1, <3>4, <3>6 DEF WayInv, Under, Chosen
  <2>9. TaskInv(d, view')
    BY <1>1, <2>3, <2>5, <2>6 DEF TaskInv
  <2>10. Knows(d, view')
    BY <2>3, <2>8, <2>9 DEF Knows
  <2> QED
    BY <1>1, <2>3, <2>6, <2>10 DEF MakesFile
<1>4. CASE Return(t, open_fhs, 1) /\ UNCHANGED view
  BY <1>4 DEF Return
<1> QED
  BY <1>3, <1>4 DEF CreateFile

\* Between the two writes of a rename: the file has both names, or the old name was
\* the new one.
LEMMA RenameAddsKnows ==
  ASSUME DirInv, TreeInv, NamesKnown, NEW t \in Threads, RenameAdds(t)
  PROVE  Knows(call'[t], view')
<1> DEFINE c == call[t]
           n == Subject(c)
           o == Last(c.p)
           f == c.file
<1>1. /\ c.pc = "add" /\ c.op = "rename" /\ c.op \in Mutators
      /\ Become(t, [c EXCEPT !.pc = "root", !.stage = 3, !.todo = c.p])
  BY DEF RenameAdds, Does, Mutators
<1>2. /\ Adds(view, view', c.dir, c.at, n, f) /\ c.stage = 2 /\ WalkInv(c)
      /\ \A g \in Files : Edge(view, c.dir, n, g) => g = c.ent
  BY <1>1, AddFacts
<1>3. /\ c \in Calls /\ c.dir \in Files /\ view[c.dir].type = "dir" /\ TaskInv(c, view)
      /\ Leads(view, WalkPath(c), Len(WalkPath(c)) - 1, c.dir)
      /\ WalkPath(c) \in Seq(Names) /\ WalkPath(c) # << >>
  BY <1>1, ChosenFacts DEF Chosen
<1>4. PICK d : d = [c EXCEPT !.pc = "root", !.stage = 3, !.todo = c.p]
  OBVIOUS
<1>5. /\ d.pc = "root" /\ d.op = "rename" /\ d.stage = 3 /\ d.todo = c.p /\ d.file = f
      /\ d.p = c.p /\ d.q = c.q /\ call'[t] = d
  BY <1>1, <1>3, <1>4, Facts DEF Calls, Become
<1>6. /\ c.p \in Seq(Names) /\ c.q \in Seq(Names) /\ Len(c.p) \in Nat /\ Len(c.q) \in Nat
      /\ c.p # << >>
  BY <1>1, <1>2, KnowFacts DEF WalkInv
<1>7. WalkPath(c) = c.q /\ n = Last(c.q)
  BY <1>1, <1>2 DEF WalkPath, Subject
<1>8. Leads(view, c.p, Len(c.p), f) /\ f \in Files /\ f # Root
  BY <1>1, <1>2, <1>3 DEF TaskInv, Under, Adds
<1>9. Len(c.p) - 1 \in Nat /\ Len(c.p) - 1 + 1 = Len(c.p) /\ o = c.p[Len(c.p)]
      /\ Len(c.q) - 1 \in Nat /\ Len(c.q) - 1 + 1 = Len(c.q) /\ n = c.q[Len(c.q)]
  BY <1>3, <1>6, <1>7 DEF Last
<1>10. PICK e \in Files : Leads(view, c.p, Len(c.p) - 1, e) /\ Edge(view, e, o, f)
  BY <1>8, <1>9, LeadsBack
<1> HIDE DEF c, n, o, f
<1>11. /\ SlotKnown(view, c.dir, c.at, n) /\ Puts(view, view', c.dir, c.at, Slot(n, f))
       /\ \A g \in Files : Edge(view, c.dir, n, g) => Bare(view, g)
  BY <1>2 DEF Adds
<1>13. \A b \in Files : \A m, g :
          Edge(view', b, m, g) <=> \/ <<b, m>> # <<c.dir, n>> /\ Edge(view, b, m, g)
                                   \/ <<b, m>> = <<c.dir, n>> /\ g = f
  BY <1>2, AddEdges
<1>14. ASSUME NEW b \in Files, NEW m, NEW g, Edge(view, b, m, g) PROVE ~Bare(view, b)
  BY <1>14 DEF Edge, Bare, NamesIn
<1>15. \A g \in Files : Edge(view, c.dir, n, g) => Bare(view, g) /\ g # c.dir /\ g # e
  <2> TAKE g \in Files
  <2> HAVE Edge(view, c.dir, n, g)
  <2>1. Bare(view, g)
    BY <1>11
  <2>2. ~Bare(view, c.dir) /\ ~Bare(view, e)
    BY <1>3, <1>10, <1>14
  <2> QED
    BY <2>1, <2>2
<1>16. ASSUME NEW p, NEW k \in Nat, NEW g \in {c.dir, e}, Leads(view, p, k, g)
       PROVE  Leads(view', p, k, g)
  <2>1. \A b \in Files : \A m, h : <<b, m>> # <<c.dir, n>> /\ Edge(view, b, m, h)
                                   => Edge(view', b, m, h)
    BY <1>13
  <2>2. \A h \in Files : Edge(view, c.dir, n, h)
          => Edge(view', c.dir, n, h) \/ (Bare(view, h) /\ h # g)
    BY <1>15
  <2> QED
    BY <1>3, <1>16, <2>1, <2>2, PutLeads
<1>17. Edge(view', e, o, f)
  BY <1>10, <1>13
<1>18. Leads(view', c.q, Len(c.q), f)
  <2>1. Leads(view', c.q, Len(c.q) - 1, c.dir)
    BY <1>3, <1>7, <1>9, <1>16
  <2>2. Edge(view', c.dir, c.q[Len(c.q)], f)
    BY <1>3, <1>9, <1>13
  <2> QED
    BY <1>3, <1>8, <1>9, <2>1, <2>2, LeadsOn
<1>19. Spare(view', e, o, f)
  <2>1. CASE <<e, o>> # <<c.dir, n>>
    <3>1. Edge(view', c.dir, n, f)
      BY <1>3, <1>13
    <3> QED
      BY <1>3, <2>1, <3>1 DEF Spare
  <2>2. CASE e = c.dir /\ o = n
    <3>1. Bare(view, f) /\ f # c.dir
      BY <1>8, <1>10, <1>15, <2>2
    <3>2. view'[f] = view[f]
      BY <1>8, <1>11, <3>1 DEF Puts
    <3>3. Bare(view', f)
      BY <3>1, <3>2 DEF Bare
    <3> QED
      BY <3>3 DEF Spare
  <2> QED
    BY <2>1, <2>2
<1>20. TaskInv(d, view')
  <2>1. Leads(view', c.p, Len(c.p) - 1, e)
    BY <1>9, <1>10, <1>16
  <2> QED
    BY <1>5, <2>1, <1>17, <1>18, <1>19 DEF TaskInv, o
<1>21. WayInv(d, view')
  <2>1. WalkPath(d) = c.p
    BY <1>5 DEF WalkPath
  <2>2. Depth(d) = 0
    BY <1>5, <1>6, <2>1 DEF Depth
  <2>3. Ahead(d)
    BY <1>5, <1>6, <2>1, <2>2 DEF Ahead
  <2> QED
    BY <1>5, <2>2, <2>3 DEF WayInv, Chosen
<1> QED
  BY <1>5, <1>20, <1>21 DEF Knows
-----------------------------------------------------------------------------
\* The kinds of steps, by what they do to the tree.
AddsName(t) ==
    /\ CreateAdds(t) \/ RenameAdds(t)
    /\ LET c == call[t] IN Adds(view, view', c.dir, c.at, Subject(c), c.file)

ClearsName(t) ==
    /\ RemoveClears(t)
    /\ LET c == call[t] IN Clears(view, view', c.dir, c.at, Last(c.p), c.ent)

LEMMA StepKinds ==
  ASSUME DirInv, TreeInv, UniqueNames, NamesKnown, NEW t \in Threads, Step(t)
  PROVE  /\ Knows(call'[t], view')
         /\ \/ Quiet(view, view')
            \/ call[t].op \in Mutators /\ (MakesFile(t) \/ AddsName(t) \/ ClearsName(t))
<1>1. CASE Reads(t)
  BY <1>1 DEF Reads
<1>2. CASE CreateFile(t)
  <2>1. CASE MakesFile(t) /\ Knows(call'[t], view')
    BY <2>1 DEF MakesFile, Mutators
  <2>2. CASE Become(t, Idle) /\ view' = view
    BY <1>1, <2>2, SameQuiet, IdleReads
  <2> QED
    BY <1>2, <2>1, <2>2, CreateFileKind
<1>3. CASE CreateAdds(t)
  <2>1. call[t].op \in Mutators /\ AddsName(t)
    BY <1>3, AddFacts DEF AddsName
  <2>2. call'[t].pc \notin Under
    <3> DEFINE c == call[t]
    <3>1. c \in Calls
      BY Facts
    <3>2. CASE Become(t, [c EXCEPT !.pc = "held", !.dir = c.file])
      <4>1. PICK d : d = [c EXCEPT !.pc = "held", !.dir = c.file]
        OBVIOUS
      <4>2. d.pc = "held" /\ call'[t] = d
        BY <3>1, <3>2, <4>1, Facts DEF Calls, Become
      <4> QED
        BY <4>2 DEF Under
    <3>3. CASE Become(t, Idle)
      <4>1. call'[t].pc = "idle"
        BY <3>3, Facts, IdleFacts DEF Become
      <4> QED
        BY <4>1 DEF Under
    <3> QED
      BY <1>3, <3>2, <3>3 DEF CreateAdds, Return
  <2> QED
    BY <2>1, <2>2, RestsKnows
<1>4. CASE RenameAdds(t)
  BY <1>4, AddFacts, RenameAddsKnows DEF AddsName
<1>5. CASE RemoveClears(t)
  <2>1. call[t].op \in Mutators /\ ClearsName(t) /\ call'[t] = Idle
    BY <1>5, ClearFacts DEF ClearsName
  <2>2. call'[t].pc \notin Under
    BY <2>1, IdleFacts DEF Under
  <2> QED
    BY <2>1, <2>2, RestsKnows
<1> QED
  BY <1>1, <1>2, <1>3, <1>4, <1>5, StartReads, OpenRootReads, ScanSlotReads, ScanEndsReads,
     EnterReads, HeldReads, VisitReads, RemoveChecksReads, RenameOpenedReads, RenameChecksReads,
     RenameFindsOldReads DEF Step

\* Every file stays sound.
LEMMA SoundQuiet ==
  ASSUME NEW v, NEW w, Quiet(v, w), \A d \in Files : Sound(v[d])
  PROVE  \A d \in Files : Sound(w[d])
BY DEF Quiet, Sound

LEMMA SoundMakes ==
  ASSUME NEW v, NEW w, NEW f \in Files, Makes(v, w, f), \A d \in Files : Sound(v[d])
  PROVE  \A d \in Files : Sound(w[d])
<1>1. w[f].slots = << >> /\ \A e \in Files : e # f => w[e] = v[e]
  BY DEF Makes
<1>2. Sound(w[f])
  BY <1>1 DEF Sound, Unique, NamesIn
<1> QED
  BY <1>1, <1>2

LEMMA SoundPuts ==
  ASSUME NEW v, NEW w, NEW d \in Files, NEW i, NEW s, NEW n, Puts(v, w, d, i, s),
         SlotKnown(v, d, i, n), s.in_use => s.name = n /\ s.gname # Root,
         \A e \in Files : Sound(v[e])
  PROVE  \A e \in Files : Sound(w[e])
<1> DEFINE old == v[d].slots
           new == w[d].slots
<1>1. /\ \A e \in Files : e # d => w[e] = v[e]
      /\ w[d].type = "dir" /\ DOMAIN new = DOMAIN old \cup {i} /\ new[i] = s
      /\ \A j \in DOMAIN old : j # i => new[j] = old[j]
      /\ \A j \in DOMAIN old : j # i /\ old[j].in_use => old[j].name # n
  BY DEF Puts, SlotKnown
<1>2. Unique(old) /\ \A j \in DOMAIN old : old[j].in_use => old[j].gname # Root
  BY DEF Sound
<1>3. Unique(new) /\ \A j \in DOMAIN new : new[j].in_use => new[j].gname # Root
  <2> HIDE DEF old, new
  <2> QED BY <1>1, <1>2 DEF Unique
<1>4. Sound(w[d])
  BY <1>1, <1>3 DEF Sound
<1> QED
  BY <1>1, <1>4

\* What a step that changes the tree does to its files, whatever it is.
LEMMA SoundStep ==
  ASSUME DirInv, TreeInv, UniqueNames, NamesKnown, NEW t \in Threads, Step(t)
  PROVE  \A d \in Files : Sound(view'[d])
<1>1. \A d \in Files : Sound(view[d])
  BY DEF TreeInv
<1>2. CASE Quiet(view, view')
  BY <1>1, <1>2, SoundQuiet
<1>3. CASE MakesFile(t)
  BY <1>1, <1>3, SoundMakes DEF MakesFile
<1> DEFINE c == call[t]
<1>4. CASE AddsName(t)
  <2>1. PICK s : s = Slot(Subject(c), c.file)
    OBVIOUS
  <2>2. s.name = Subject(c) /\ s.gname = c.file
    BY <2>1 DEF Slot
  <2>3. /\ SlotKnown(view, c.dir, c.at, Subject(c)) /\ Puts(view, view', c.dir, c.at, s)
        /\ c.file # Root
    BY <1>4, <2>1 DEF AddsName, Adds
  <2>4. c.dir \in Files
    BY <2>3 DEF SlotKnown
  <2> QED
    BY <1>1, <2>2, <2>3, <2>4, SoundPuts
<1>5. CASE ClearsName(t)
  <2>1. SlotKnown(view, c.dir, c.at, Last(c.p)) /\ Puts(view, view', c.dir, c.at, Unused)
    BY <1>5 DEF ClearsName, Clears
  <2>2. c.dir \in Files /\ ~Unused.in_use
    BY <2>1, SlotFacts DEF SlotKnown
  <2> QED
    BY <1>1, <2>1, <2>2, SoundPuts
<1> QED
  BY <1>2, <1>3, <1>4, <1>5, StepKinds
-----------------------------------------------------------------------------
\* No two threads are in an operation that changes names at a time; any number of
\* others may open, look, chmod, truncate and list.
Busy(c) == c.op \in Mutators /\ c.pc \in Under
OneAtATime == \A t, u \in Threads : t # u => ~(Busy(call[t]) /\ Busy(call[u]))

\* It is so where one thread is asked for all such operations.
OneMutator ==
    \A t, u \in Threads :
        t # u => Ops[t] \cap Mutators = {} \/ Ops[u] \cap Mutators = {}

LEMMA OneMutatorBusy ==
  ASSUME OneMutator, OwnOps
  PROVE  OneAtATime
<1>1. "none" \notin Mutators
  BY DEF Mutators
<1> QED
  BY <1>1 DEF OneMutator, OwnOps, OneAtATime, Busy

LEMMA OneAtATimeRivals ==
  ASSUME OneAtATime
  PROVE  NoRivals
<1>1. \A c : Adding(c) => Busy(c)
  BY DEF Adding, AddOp, Mutators, Busy, Under
<1> QED
  BY <1>1 DEF NoRivals, OneAtATime

LEMMA BusyChanges ==
  ASSUME DirInv, TreeInv, UniqueNames, NamesKnown, NEW t \in Threads, Step(t)
  PROVE  Quiet(view, view') \/ Busy(call[t])
<1>1. MakesFile(t) => call[t].pc = "entry"
  BY DEF MakesFile
<1>2. AddsName(t) => call[t].pc = "add"
  BY DEF AddsName, CreateAdds, RenameAdds, Does
<1>3. ClearsName(t) => call[t].pc = "clear"
  BY DEF ClearsName, RemoveClears, Does
<1> QED
  BY <1>1, <1>2, <1>3, StepKinds DEF Busy, Under

\* All that the proofs keep of Directory's state.
FullInv == DirInv /\ OwnOps /\ NamesKnown /\ UniqueNames /\ TreeInv

LEMMA OwnOpsStep ==
  ASSUME DirInv, OwnOps, NEW t \in Threads, Step(t)
  PROVE  OwnOps' /\ \A u \in Threads : u # t => call'[u] = call[u]
<1>1. PICK d : Shape(t, d)
  BY StepShape DEF Shaped
<1>2. /\ call' = [call EXCEPT ![t] = d] /\ call \in [Threads -> Calls]
      /\ d.op \in Ops[t] \cup {call[t].op, "none"}
  BY <1>1, Facts DEF Shape
<1> QED
  BY <1>2 DEF OwnOps

LEMMA FullStep ==
  ASSUME OneAtATime, FullInv, NEW t \in Threads, Step(t)
  PROVE  FullInv'
<1>1. DirInv /\ OwnOps /\ NamesKnown /\ UniqueNames /\ TreeInv
  BY DEF FullInv
<1>2. DirInv' /\ OwnOps' /\ NamesKnown' /\ UniqueNames'
  BY <1>1, OneAtATimeRivals, DirInvStep, OwnOpsStep, NamesStep DEF Next
<1>3. \A d \in Files : Sound(view'[d])
  BY <1>1, SoundStep
<1>4. Knows(call'[t], view') /\ (Quiet(view, view') \/ Busy(call[t]))
  BY <1>1, StepKinds, BusyChanges
<1>5. ASSUME NEW u \in Threads, u # t PROVE Knows(call'[u], view')
  <2>1. call'[u] = call[u]
    BY <1>1, <1>5, OwnOpsStep
  <2>2. call[u] \in Calls /\ WalkInv(call[u]) /\ Knows(call[u], view)
    BY <1>1, KnowFacts
  <2>3. CASE Quiet(view, view')
    BY <2>1, <2>2, <2>3, QuietKeeps
  <2>4. CASE Busy(call[t])
    <3>1. ~Busy(call[u])
      BY <1>5, <2>4 DEF OneAtATime
    <3>2. CASE call[u].op \notin Mutators
      BY <2>1, <2>2, <3>2 DEF Knows
    <3>3. CASE call[u].pc \notin Under
      BY <2>1, <3>3, RestsKnows
    <3> QED
      BY <3>1, <3>2, <3>3 DEF Busy
  <2> QED
    BY <1>4, <2>3, <2>4
<1>6. TreeInv'
  BY <1>3, <1>4, <1>5 DEF TreeInv
<1> QED
  BY <1>2, <1>6 DEF FullInv

LEMMA FullInit == Init => FullInv
<1> SUFFICES ASSUME Init PROVE FullInv
  OBVIOUS
<1>1. OwnOps
  BY DEF Init, Idle, OwnOps
<1>2. \A d \in Files : view[d].slots = << >>
  BY DEF Init, File, Blank
<1>3. \A d \in Files : Sound(view[d])
  BY <1>2 DEF Sound, Unique, NamesIn
<1>4. \A t \in Threads : call[t].pc \notin Under
  BY IdleFacts DEF Init, Under
<1>5. TreeInv
  BY <1>3, <1>4, RestsKnows DEF TreeInv
<1> QED
  BY <1>1, <1>5, DirInvInit, NamesInit DEF FullInv

LEMMA FullSame ==
  ASSUME FullInv, UNCHANGED vars
  PROVE  FullInv'
<1>1. UNCHANGED <<view, call, open_fhs, down, leaked, unseen, sure, owed, listed>>
  BY DEF vars, history
<1>2. DirInv'
  BY DirInvStep DEF FullInv
<1>3. OwnOps' /\ NamesKnown' /\ UniqueNames' /\ TreeInv'
  BY <1>1 DEF FullInv, OwnOps, NamesKnown, UniqueNames, TreeInv
<1> QED
  BY <1>2, <1>3 DEF FullInv

LEMMA FullAlways == Spec /\ []OneAtATime => []FullInv
<1>1. FullInv /\ OneAtATime /\ [Next]_vars => FullInv'
  BY FullStep, FullSame DEF Next
<1> QED
  BY <1>1, FullInit, PTL DEF Spec
-----------------------------------------------------------------------------
\* The abstract tree of a view.
ChildIn(f, type, slots, n) ==
    IF f # NoFile /\ type = "dir" /\ Holds(slots, n)
    THEN LET i == CHOOSE j \in DOMAIN slots : slots[j].in_use /\ slots[j].name = n
         IN  slots[i].gname
    ELSE NoFile
ChildOf(v, f, n) == ChildIn(f, v[f].type, v[f].slots, n)
Types(v) == [f \in Files |-> v[f].type]
Entries(v) == [f \in Files |-> [n \in NamesIn(v[f].slots) |-> ChildOf(v, f, n)]]

LEMMA AbstractNow ==
  /\ [f \in Files |-> AbstractEntries(f)] = Entries(view)
  /\ [f \in Files |-> AbstractEntries(f)]' = Entries(view')
  /\ [f \in Files |-> view[f].type] = Types(view)
  /\ [f \in Files |-> view[f].type]' = Types(view')
<1>1. \A f, n : Child(f, n) = ChildOf(view, f, n)
  BY DEF Child, ChildOf, ChildIn
<1>2. \A f, n : Child(f, n)' = ChildOf(view', f, n)
  BY DEF Child, ChildOf, ChildIn
<1>3. \A f : AbstractEntries(f) = [n \in NamesIn(view[f].slots) |-> ChildOf(view, f, n)]
  BY <1>1 DEF AbstractEntries
<1>4. \A f : AbstractEntries(f)' = [n \in NamesIn(view'[f].slots) |-> ChildOf(view', f, n)]
  BY <1>2 DEF AbstractEntries, NamesIn
<1> QED
  BY <1>3, <1>4 DEF Entries, Types

\* Its names are the names of the directories.
Describes(names, v, d) ==
    /\ DOMAIN names = NamesIn(v[d].slots) /\ names = [n \in DOMAIN names |-> names[n]]
    /\ \A n : n \in DOMAIN names <=> \E g : Edge(v, d, n, g)
    /\ \A n, g : Edge(v, d, n, g) => names[n] = g
    /\ \A n \in DOMAIN names : Edge(v, d, n, names[n])

LEMMA EntriesFacts ==
  ASSUME NEW v, \A d \in Files : Sound(v[d]), NEW d \in Files
  PROVE  Describes(Entries(v)[d], v, d)
<1> DEFINE slots == v[d].slots
<1>1. Entries(v)[d] = [n \in NamesIn(slots) |-> ChildOf(v, d, n)]
  BY DEF Entries
<1>2. DOMAIN Entries(v)[d] = NamesIn(slots)
  BY <1>1
<1>3. Unique(slots) /\ (NamesIn(slots) # {} => v[d].type = "dir") /\ d # NoFile
  BY DirectoryAssumption DEF Sound
<1>4. ASSUME NEW n PROVE n \in NamesIn(slots) <=> \E g : Edge(v, d, n, g)
  <2>1. n \in NamesIn(slots) <=> \E i \in DOMAIN slots : slots[i].in_use /\ slots[i].name = n
    BY DEF NamesIn
  <2>2. n \in NamesIn(slots) => v[d].type = "dir"
    BY <1>3
  <2> QED
    BY <2>1, <2>2 DEF Edge
<1>5. ASSUME NEW n, NEW g, Edge(v, d, n, g) PROVE Entries(v)[d][n] = g
  <2>1. PICK i \in DOMAIN slots : slots[i].in_use /\ slots[i].name = n /\ slots[i].gname = g
    BY <1>5 DEF Edge
  <2>2. Holds(slots, n) /\ n \in NamesIn(slots) /\ v[d].type = "dir"
    BY <1>5, <2>1 DEF Holds, NamesIn, Edge
  <2> DEFINE j == CHOOSE j \in DOMAIN slots : slots[j].in_use /\ slots[j].name = n
  <2>3. j = i
    <3>1. \A k \in DOMAIN slots : slots[k].in_use /\ slots[k].name = n => k = i
      BY <1>3, <2>1 DEF Unique
    <3> QED
      BY <2>1, <3>1
  <2>4. ChildOf(v, d, n) = slots[j].gname
    BY <1>3, <2>2 DEF ChildOf, ChildIn
  <2> QED
    BY <1>1, <2>1, <2>2, <2>3, <2>4
<1>6. \A n \in NamesIn(slots) : Edge(v, d, n, Entries(v)[d][n])
  BY <1>4, <1>5
<1> QED
  BY <1>1, <1>2, <1>4, <1>5, <1>6 DEF Describes

\* A file with a spare name is one the abstract tree may take a name from.
LEMMA SpareDisposable ==
  ASSUME \A d \in Files : Sound(view[d]), NEW d \in Files, NEW n, NEW f \in Files,
         Spare(view, d, n, f)
  PROVE  N!Disposable(f, d, n)
<1>1. CASE Bare(view, f)
  <2>1. view[f].type = "dir" => DOMAIN Entries(view)[f] = {}
    BY <1>1, EntriesFacts DEF Bare, Describes
  <2> QED
    BY <2>1, AbstractNow DEF N!Disposable, Types
<1>2. CASE \E e \in Files : \E m : <<e, m>> # <<d, n>> /\ Edge(view, e, m, f)
  <2>1. PICK e \in Files : \E m : <<e, m>> # <<d, n>> /\ Edge(view, e, m, f)
    BY <1>2
  <2>2. PICK m : <<e, m>> # <<d, n>> /\ Edge(view, e, m, f)
    BY <2>1
  <2>3. /\ \A k : k \in DOMAIN Entries(view)[e] <=> \E g : Edge(view, e, k, g)
        /\ \A k, g : Edge(view, e, k, g) => Entries(view)[e][k] = g
    <3>1. Describes(Entries(view)[e], view, e)
      BY EntriesFacts
    <3> QED
      BY <3>1 DEF Describes
  <2>4. m \in DOMAIN Entries(view)[e] /\ Entries(view)[e][m] = f
    BY <2>2, <2>3
  <2> QED
    BY <2>2, <2>4, AbstractNow DEF N!Disposable
<1> QED
  BY <1>1, <1>2 DEF Spare

LEMMA QuietRefined ==
  ASSUME Quiet(view, view')
  PROVE  UNCHANGED N!vars
<1>1. \A f \in Files : view'[f].type = view[f].type /\ view'[f].slots = view[f].slots
  BY DEF Quiet
<1>2. Types(view') = Types(view)
  BY <1>1 DEF Types
<1>3. \A f \in Files : \A n : ChildOf(view', f, n) = ChildOf(view, f, n)
  BY <1>1 DEF ChildOf
<1>4. Entries(view') = Entries(view)
  BY <1>1, <1>3 DEF Entries
<1> QED
  BY <1>2, <1>4, AbstractNow DEF N!vars

LEMMA MakeRefined ==
  ASSUME \A d \in Files : Sound(view[d]), NEW f \in Files, Makes(view, view', f),
         NEW kind, kind = view'[f].type
  PROVE  N!Make(f, kind)
<1>1. f # Root /\ view'[f].slots = << >> /\ \A e \in Files : e # f => view'[e] = view[e]
  BY DEF Makes
<1>2. ~N!Named(f)
  <2> SUFFICES ASSUME NEW d \in Files, NEW n \in DOMAIN Entries(view)[d], Entries(view)[d][n] = f
               PROVE  FALSE
    BY AbstractNow DEF N!Named
  <2>1. \A m \in DOMAIN Entries(view)[d] : Edge(view, d, m, Entries(view)[d][m])
    <3>1. Describes(Entries(view)[d], view, d)
      BY EntriesFacts
    <3> QED
      BY <3>1 DEF Describes
  <2>2. Edge(view, d, n, f)
    BY <2>1
  <2> QED
    BY <2>2 DEF Edge, Makes
<1>3. Types(view') = [Types(view) EXCEPT ![f] = kind]
  BY <1>1 DEF Types
<1>4. Entries(view') = [Entries(view) EXCEPT ![f] = N!NoEntries]
  <2>1. NamesIn(view'[f].slots) = {}
    BY <1>1 DEF NamesIn
  <2>2. Entries(view')[f] = N!NoEntries
    <3>1. Entries(view')[f] = [n \in {} |-> ChildOf(view', f, n)]
      BY <2>1 DEF Entries
    <3> QED
      BY <3>1 DEF N!NoEntries
  <2>3. \A e \in Files : e # f => Entries(view')[e] = Entries(view)[e]
    <3> TAKE e \in Files
    <3> HAVE e # f
    <3>1. \A n : ChildOf(view', e, n) = ChildOf(view, e, n)
      BY <1>1 DEF ChildOf
    <3> QED
      BY <1>1, <3>1 DEF Entries
  <2>4. /\ Entries(view') = [e \in Files |-> Entries(view')[e]]
        /\ Entries(view) = [e \in Files |-> Entries(view)[e]]
    BY DEF Entries
  <2> QED
    BY <2>2, <2>3, <2>4
<1> QED
  BY <1>1, <1>2, <1>3, <1>4, AbstractNow DEF N!Make

\* The write of a slot, as a change of one directory's names.
LEMMA TypesPut ==
  ASSUME NEW v, NEW w, NEW d \in Files, NEW i, NEW s, Puts(v, w, d, i, s)
  PROVE  Types(w) = Types(v)
BY DEF Types, Puts

LEMMA EntriesPut ==
  ASSUME NEW v, NEW w, NEW d \in Files, \A e \in Files : e # d => w[e] = v[e], NEW h,
         Entries(w)[d] = h
  PROVE  Entries(w) = [Entries(v) EXCEPT ![d] = h]
<1>1. \A e \in Files : e # d => Entries(w)[e] = Entries(v)[e]
  <2> TAKE e \in Files
  <2> HAVE e # d
  <2>1. \A n : ChildOf(w, e, n) = ChildOf(v, e, n)
    BY DEF ChildOf
  <2> QED
    BY <2>1 DEF Entries
<1>2. /\ Entries(w) = [e \in Files |-> Entries(w)[e]]
      /\ Entries(v) = [e \in Files |-> Entries(v)[e]]
  BY DEF Entries
<1> QED
  BY <1>1, <1>2

LEMMA EdgeFile ==
  ASSUME NEW v, ViewInv(v), NEW d \in Files, NEW n, NEW g, Edge(v, d, n, g)
  PROVE  n \in Names /\ g \in Files
BY DEF ViewInv, SlotsInv, Edge

LEMMA LinkRefined ==
  ASSUME ViewInv(view), \A d \in Files : Sound(view[d]), \A d \in Files : Sound(view'[d]),
         NEW d, NEW i, NEW n, NEW f, Adds(view, view', d, i, n, f)
  PROVE  N!Link(d, n, f) /\ d \in Files /\ n \in Names /\ f \in Files
<1> DEFINE old == Entries(view)[d]
           new == Entries(view')[d]
<1>1. /\ d \in Files /\ view[d].type = "dir" /\ n \in Names
      /\ f \in Files /\ f # Root /\ view[f].type # "new"
      /\ \A g \in Files : Edge(view, d, n, g) => view[g].type = view[f].type /\ Bare(view, g)
      /\ Puts(view, view', d, i, Slot(n, f))
      /\ \A e \in Files : e # d => view'[e] = view[e]
  BY DEF Adds, SlotKnown, Puts
<1>2. \A m, g : Edge(view', d, m, g) <=> (m # n /\ Edge(view, d, m, g)) \/ (m = n /\ g = f)
  <2>1. \A m : <<d, m>> # <<d, n>> <=> m # n
    OBVIOUS
  <2> QED
    BY <1>1, <2>1, AddEdges
<1>3. /\ \A m : m \in DOMAIN old <=> \E g : Edge(view, d, m, g)
      /\ \A m, g : Edge(view, d, m, g) => old[m] = g
      /\ \A m \in DOMAIN old : Edge(view, d, m, old[m])
  <2>1. Describes(old, view, d)
    BY <1>1, EntriesFacts
  <2> QED
    BY <2>1 DEF Describes
<1>4. /\ \A m : m \in DOMAIN new <=> \E g : Edge(view', d, m, g)
      /\ \A m, g : Edge(view', d, m, g) => new[m] = g
      /\ new = [m \in DOMAIN new |-> new[m]]
  BY <1>1, EntriesFacts DEF Describes
<1> HIDE DEF old, new
<1>5. DOMAIN new = DOMAIN old \cup {n}
  <2>1. \A m : m \in DOMAIN new <=> m \in DOMAIN old \/ m = n
    BY <1>2, <1>3, <1>4
  <2> QED
    BY <2>1
<1>6. \A m \in DOMAIN new : new[m] = IF m = n THEN f ELSE old[m]
  BY <1>2, <1>3, <1>4, <1>5
<1>7. new = [m \in DOMAIN old \cup {n} |-> IF m = n THEN f ELSE old[m]]
  BY <1>4, <1>5, <1>6
<1>8. Entries(view') = [Entries(view) EXCEPT ![d] = new]
  BY <1>1, EntriesPut DEF new
<1>9. Types(view') = Types(view)
  BY <1>1, TypesPut
<1>10. ASSUME n \in DOMAIN old
       PROVE  Types(view)[old[n]] = Types(view)[f] /\ N!Disposable(old[n], d, n)
  <2>1. Edge(view, d, n, old[n])
    BY <1>3, <1>10
  <2>2. old[n] \in Files
    BY <1>1, <2>1, EdgeFile
  <2>3. view[old[n]].type = view[f].type /\ Spare(view, d, n, old[n])
    BY <1>1, <2>1, <2>2 DEF Spare
  <2>4. N!Disposable(old[n], d, n)
    BY <1>1, <2>2, <2>3, SpareDisposable
  <2> QED
    BY <1>1, <2>2, <2>3, <2>4 DEF Types
<1>11. Types(view)[d] = "dir" /\ Types(view)[f] # "new"
  BY <1>1 DEF Types
<1> QED
  BY <1>1, <1>7, <1>8, <1>9, <1>10, <1>11, AbstractNow DEF N!Link, old

LEMMA DropRefined ==
  ASSUME \A d \in Files : Sound(view[d]), \A d \in Files : Sound(view'[d]),
         NEW d, NEW i, NEW n, NEW f, Clears(view, view', d, i, n, f)
  PROVE  N!Drop(d, n) /\ d \in Files /\ n \in Names
<1> DEFINE old == Entries(view)[d]
           new == Entries(view')[d]
<1>1. /\ d \in Files /\ n \in Names /\ f \in Files
      /\ Edge(view, d, n, f) /\ Spare(view, d, n, f)
      /\ Puts(view, view', d, i, Unused) /\ \A e \in Files : e # d => view'[e] = view[e]
  BY DEF Clears, SlotKnown, Puts
<1>2. \A m, g : Edge(view', d, m, g) <=> m # n /\ Edge(view, d, m, g)
  <2>1. \A m : <<d, m>> # <<d, n>> <=> m # n
    OBVIOUS
  <2> QED
    BY <1>1, <2>1, ClearEdges
<1>3. /\ \A m : m \in DOMAIN old <=> \E g : Edge(view, d, m, g)
      /\ \A m, g : Edge(view, d, m, g) => old[m] = g
      /\ \A m \in DOMAIN old : Edge(view, d, m, old[m])
  <2>1. Describes(old, view, d)
    BY <1>1, EntriesFacts
  <2> QED
    BY <2>1 DEF Describes
<1>4. /\ \A m : m \in DOMAIN new <=> \E g : Edge(view', d, m, g)
      /\ \A m, g : Edge(view', d, m, g) => new[m] = g
      /\ new = [m \in DOMAIN new |-> new[m]]
  BY <1>1, EntriesFacts DEF Describes
<1> HIDE DEF old, new
<1>5. DOMAIN new = DOMAIN old \ {n}
  <2>1. \A m : m \in DOMAIN new <=> m \in DOMAIN old /\ m # n
    BY <1>2, <1>3, <1>4
  <2> QED
    BY <2>1
<1>6. \A m \in DOMAIN new : new[m] = old[m]
  BY <1>2, <1>3, <1>4, <1>5
<1>7. new = [m \in DOMAIN old \ {n} |-> old[m]]
  BY <1>4, <1>5, <1>6
<1>8. Entries(view') = [Entries(view) EXCEPT ![d] = new]
  BY <1>1, EntriesPut DEF new
<1>9. Types(view') = Types(view)
  BY <1>1, TypesPut
<1>10. n \in DOMAIN old /\ old[n] = f /\ N!Disposable(f, d, n)
  BY <1>1, <1>3, SpareDisposable
<1> QED
  BY <1>7, <1>8, <1>9, <1>10, <1>1, AbstractNow DEF N!Drop, old

\* Every step of an operation is a step of the tree of names, or none.
LEMMA StepRefined ==
  ASSUME DirInv, TreeInv, UniqueNames, NamesKnown, NEW t \in Threads, Step(t)
  PROVE  UNCHANGED N!vars \/ N!Next
<1> DEFINE c == call[t]
<1>1. (\A d \in Files : Sound(view[d])) /\ ViewInv(view)
  BY DEF TreeInv, DirInv
<1>2. \A d \in Files : Sound(view'[d])
  BY SoundStep
<1>3. N!Step => UNCHANGED N!vars \/ N!Next
  BY DEF N!Next
<1>4. CASE Quiet(view, view')
  BY <1>4, QuietRefined
<1>5. CASE MakesFile(t)
  <2>1. PICK f \in Files : Makes(view, view', f)
    BY <1>5 DEF MakesFile
  <2>2. PICK kind : kind = view'[f].type
    OBVIOUS
  <2>3. kind \in {"file", "dir"}
    BY <2>1, <2>2 DEF Makes
  <2>4. N!Make(f, kind)
    BY <1>1, <2>1, <2>2, MakeRefined
  <2>5. N!Step
    BY <2>3, <2>4 DEF N!Step
  <2> QED
    BY <1>3, <2>5
<1>6. CASE AddsName(t)
  <2>1. Adds(view, view', c.dir, c.at, Subject(c), c.file)
    BY <1>6 DEF AddsName
  <2>2. /\ N!Link(c.dir, Subject(c), c.file)
        /\ c.dir \in Files /\ Subject(c) \in Names /\ c.file \in Files
    BY <1>1, <1>2, <2>1, LinkRefined
  <2>3. N!Step
    BY <2>2 DEF N!Step
  <2> QED
    BY <1>3, <2>3
<1>7. CASE ClearsName(t)
  <2>1. Clears(view, view', c.dir, c.at, Last(c.p), c.ent)
    BY <1>7 DEF ClearsName
  <2>2. N!Drop(c.dir, Last(c.p)) /\ c.dir \in Files /\ Last(c.p) \in Names
    BY <1>1, <1>2, <2>1, DropRefined
  <2>3. N!Step
    BY <2>2 DEF N!Step
  <2> QED
    BY <1>3, <2>3
<1> QED
  BY <1>4, <1>5, <1>6, <1>7, StepKinds

LEMMA InitRefined == Init => N!Init
<1> SUFFICES ASSUME Init PROVE N!Init
  OBVIOUS
<1>1. /\ \A f \in Files : view[f].slots = << >>
      /\ \A f \in Files : view[f].type = IF f = Root THEN "dir" ELSE "new"
  BY DEF Init, File, Blank
<1>2. Types(view) = [f \in Files |-> IF f = Root THEN "dir" ELSE "new"]
  BY <1>1 DEF Types
<1>3. Entries(view) = [f \in Files |-> N!NoEntries]
  <2>1. \A f \in Files : Entries(view)[f] = N!NoEntries
    <3> TAKE f \in Files
    <3>1. NamesIn(view[f].slots) = {}
      BY <1>1 DEF NamesIn
    <3>2. Entries(view)[f] = [n \in {} |-> ChildOf(view, f, n)]
      BY <3>1 DEF Entries
    <3> QED
      BY <3>2 DEF N!NoEntries
  <2>2. Entries(view) = [f \in Files |-> Entries(view)[f]]
    BY DEF Entries
  <2> QED
    BY <2>1, <2>2
<1> QED
  BY <1>2, <1>3, AbstractNow DEF N!Init

\* While no two threads change names at a time, the directories implement the tree of
\* names, for any files, names, depth of paths and number of threads: every write of a
\* slot gives one name to a file, or takes one from a file that has another, is no
\* directory or is empty, although the slot was found and the file looked at steps
\* before, the paths were walked name by name, and the others open, list, chmod and
\* truncate all the while.
THEOREM DirectoriesImplementNamespace == Spec /\ []OneAtATime => ImplementsNamespace
<1>1. FullInv /\ [Next]_vars => [N!Next]_(N!vars)
  <2> SUFFICES ASSUME FullInv, [Next]_vars PROVE [N!Next]_(N!vars)
    OBVIOUS
  <2>1. CASE Next
    <3>1. PICK t \in Threads : Step(t)
      BY <2>1 DEF Next
    <3> QED
      BY <3>1, StepRefined DEF FullInv
  <2>2. CASE UNCHANGED vars
    <3>1. view' = view
      BY <2>2 DEF vars
    <3> QED
      BY <3>1, SameQuiet, QuietRefined
  <2> QED
    BY <2>1, <2>2
<1> QED
  BY <1>1, FullAlways, InitRefined, PTL DEF Spec, ImplementsNamespace, N!Spec
-----------------------------------------------------------------------------
\* A name in a directory is the name of a file with a record.
NamesWritten(v) == \A d \in Files : \A n, g : Edge(v, d, n, g) => v[g].type # "new"

\* The kernel has found nothing at the path of a mkdir, or has missed it.
Walking == {"root", "scan", "enter", "entry"}
MkdirInv ==
    \A t \in Threads : call[t].op = "mkdir" /\ call[t].pc \in Walking /\ ~unseen
        => \A f : ~Leads(view, call[t].p, Len(call[t].p), f)

DiesInv == NamesWritten(view) /\ MkdirInv /\ DiesOnlyUnseen

LEMMA WrittenStep ==
  ASSUME FullInv, NamesWritten(view), NEW t \in Threads, Step(t)
  PROVE  NamesWritten(view')
<1>1. DirInv /\ TreeInv /\ UniqueNames /\ NamesKnown /\ ViewInv(view)
  BY DEF FullInv, DirInv
<1> DEFINE c == call[t]
<1>2. CASE Quiet(view, view')
  <2>1. \A d \in Files : \A n, g : Edge(view', d, n, g) => Edge(view, d, n, g) /\ g \in Files
    BY <1>1, <1>2, QuietLeads, EdgeFile
  <2> QED
    BY <1>2, <2>1 DEF NamesWritten, Quiet
<1>3. CASE MakesFile(t)
  <2>1. PICK f \in Files : Makes(view, view', f)
    BY <1>3 DEF MakesFile
  <2>2. /\ view'[f].type # "new" /\ view'[f].slots = << >>
        /\ \A e \in Files : e # f => view'[e] = view[e]
    BY <2>1 DEF Makes
  <2>3. ASSUME NEW d \in Files, NEW n, NEW g, Edge(view', d, n, g)
        PROVE  view'[g].type # "new"
    <3>1. d # f
      BY <2>2, <2>3 DEF Edge
    <3>2. Edge(view, d, n, g)
      BY <2>2, <2>3, <3>1 DEF Edge
    <3>3. g \in Files /\ view[g].type # "new"
      BY <1>1, <3>2, EdgeFile DEF NamesWritten
    <3> QED
      BY <2>2, <3>3
  <2> QED
    BY <2>3 DEF NamesWritten
<1>4. \A e \in Files : \A n, g : Edge(view, e, n, g) => g \in Files /\ view[g].type # "new"
  BY <1>1, EdgeFile DEF NamesWritten
<1>5. CASE AddsName(t)
  <2>1. Adds(view, view', c.dir, c.at, Subject(c), c.file)
    BY <1>5 DEF AddsName
  <2>2. /\ Puts(view, view', c.dir, c.at, Slot(Subject(c), c.file))
        /\ c.file \in Files /\ view[c.file].type # "new"
    BY <2>1 DEF Adds
  <2>3. /\ c.dir \in Files
        /\ \A e \in Files : \A n, g : Edge(view', e, n, g) => Edge(view, e, n, g) \/ g = c.file
    BY <2>1, AddEdges
  <2>4. \A g \in Files : view'[g].type = view[g].type
    BY <2>2, <2>3 DEF Puts
  <2>5. \A e \in Files : \A n, g : Edge(view', e, n, g) => g \in Files /\ view[g].type # "new"
    BY <1>4, <2>2, <2>3
  <2> QED
    BY <2>4, <2>5 DEF NamesWritten
<1>6. CASE ClearsName(t)
  <2>1. Clears(view, view', c.dir, c.at, Last(c.p), c.ent)
    BY <1>6 DEF ClearsName
  <2>2. Puts(view, view', c.dir, c.at, Unused)
    BY <2>1 DEF Clears
  <2>3. /\ c.dir \in Files
        /\ \A e \in Files : \A n, g : Edge(view', e, n, g) => Edge(view, e, n, g)
    BY <2>1, ClearEdges
  <2>4. \A g \in Files : view'[g].type = view[g].type
    BY <2>2, <2>3 DEF Puts
  <2>5. \A e \in Files : \A n, g : Edge(view', e, n, g) => g \in Files /\ view[g].type # "new"
    BY <1>4, <2>3
  <2> QED
    BY <2>4, <2>5 DEF NamesWritten
<1> QED
  BY <1>1, <1>2, <1>3, <1>5, <1>6, StepKinds

\* A walk of mkdir begins, or goes on.
LEMMA MkdirGoesOn ==
  ASSUME DirInv, NEW t \in Threads, Step(t), ~Start(t),
         call'[t].op = "mkdir", call'[t].pc \in Walking
  PROVE  /\ call[t].op = "mkdir" /\ call[t].pc \in Walking /\ call'[t].p = call[t].p
         /\ view' = view /\ unseen' = unseen
<1> DEFINE c == call[t]
<1>1. c \in Calls /\ call \in [Threads -> Calls]
  BY Facts
<1>2. ASSUME NEW d, Become(t, d) PROVE call'[t] = d
  BY <1>1, <1>2 DEF Become
<1>3. ~Become(t, Idle)
  BY <1>2, IdleFacts DEF Walking
<1>4. ASSUME NEW l, l \notin Walking PROVE ~Become(t, [c EXCEPT !.pc = l])
  <2>1. [c EXCEPT !.pc = l].pc = l
    BY <1>1 DEF Calls
  <2> QED
    BY <1>2, <1>4, <2>1
<1>5. CASE OpenRoot(t)
  <2>1. /\ c.pc = "root" /\ view' = view /\ unseen' = unseen
        /\ Become(t, ToScan(c, Root, c.todo))
    BY <1>3, <1>5 DEF OpenRoot, Does, Return
  <2>2. PICK d : d = ToScan(c, Root, c.todo)
    OBVIOUS
  <2>3. d.op = c.op /\ d.p = c.p /\ call'[t] = d
    BY <1>1, <1>2, <2>1, <2>2 DEF ToScan, Calls
  <2> QED
    BY <2>1, <2>3 DEF Walking
<1>6. CASE Enter(t)
  <2>1. /\ c.pc = "enter" /\ view' = view /\ unseen' = unseen
        /\ Become(t, ToScan(c, c.ent, Tail(c.todo)))
    BY <1>3, <1>6 DEF Enter, Does, Return
  <2>2. PICK d : d = ToScan(c, c.ent, Tail(c.todo))
    OBVIOUS
  <2>3. d.op = c.op /\ d.p = c.p /\ call'[t] = d
    BY <1>1, <1>2, <2>1, <2>2 DEF ToScan, Calls
  <2> QED
    BY <2>1, <2>3 DEF Walking
<1>7. CASE ScanSlot(t) \/ ScanEnds(t)
  <2>1. PICK d : Shape(t, d)
    BY StepShape DEF Shaped
  <2>2. c.pc = "scan" /\ view' = view /\ unseen' = unseen /\ call'[t] = d
    BY <1>1, <1>7, <2>1 DEF ScanSlot, ScanEnds, Does, history, Shape
  <2>3. d.op = c.op /\ d.p = c.p
    <3>1. Lands(t, c, d, view[c.dir].slots)
      BY <2>1, <2>2 DEF Shape, Writes
    <3>2. d.op # "rename" /\ d.pc \in Walking
      BY <2>2
    <3>3. ~Rests(d) /\ ~Scans(t, c, d) /\ ~Lists(t, d) /\ ~ListsOn(t, c, d, view[c.dir].slots)
          /\ ~Commits(c, d)
      BY <2>2, <3>2 DEF Rests, Scans, Lists, ListsOn, Commits, Walking
    <3>4. ~Walks(d)
      <4>1. d.pc # "root"
        BY <1>7, <2>2, <1>1, <1>2, <1>3 DEF ScanSlot, ScanEnds, Return, Calls
      <4> QED
        BY <4>1 DEF Walks
    <3> QED
      BY <3>1, <3>3, <3>4 DEF Lands, Enters, Passes, Chooses, Same
  <2> QED
    BY <2>2, <2>3 DEF Walking
<1>8. CASE Opened(t) \/ ReadDir(t) \/ Release(t) \/ CreateFindsEntry(t) \/ Reopen(t)
  <2>1. PICK d : Become(t, d) /\ d.pc \notin Under
    BY <1>8, HeldRests
  <2> QED
    BY <1>2, <2>1 DEF Under, Walking
<1>9. CASE Visit(t) \/ RemoveClears(t)
  BY <1>3, <1>9 DEF Visit, RemoveClears, Return
<1>10. CASE RemoveChecks(t) \/ RenameFindsOld(t) \/ RenameChecks(t)
  BY <1>3, <1>4, <1>10 DEF RemoveChecks, RenameFindsOld, RenameChecks, Return, Walking
<1>11. ASSUME NEW l, l \notin Walking, NEW f PROVE ~Become(t, [c EXCEPT !.pc = l, !.file = f])
              /\ ~Become(t, [c EXCEPT !.pc = l, !.dir = f])
  <2>1. [c EXCEPT !.pc = l, !.file = f].pc = l /\ [c EXCEPT !.pc = l, !.dir = f].pc = l
    BY <1>1 DEF Calls
  <2> QED
    BY <1>2, <1>11, <2>1
<1>12. CASE CreateFile(t) \/ CreateAdds(t)
  BY <1>3, <1>11, <1>12 DEF CreateFile, CreateAdds, Return, Walking
<1>13. ASSUME c.op = "rename", NEW d, Become(t, d), d.op = c.op PROVE FALSE
  BY <1>2, <1>13
<1>14. CASE RenameOpened(t)
  <2>1. PICK d : d = [c EXCEPT !.pc = "root", !.stage = 2, !.todo = c.q, !.file = c.dir]
    OBVIOUS
  <2>2. d.op = c.op
    BY <1>1, <2>1 DEF Calls
  <2> QED
    BY <1>13, <1>14, <2>1, <2>2 DEF RenameOpened
<1>15. CASE RenameAdds(t)
  <2>1. PICK d : d = [c EXCEPT !.pc = "root", !.stage = 3, !.todo = c.p]
    OBVIOUS
  <2>2. d.op = c.op
    BY <1>1, <2>1 DEF Calls
  <2> QED
    BY <1>13, <1>15, <2>1, <2>2 DEF RenameAdds
<1> QED
  BY <1>5, <1>6, <1>7, <1>8, <1>9, <1>10, <1>12, <1>14, <1>15 DEF Step

LEMMA DiesStep ==
  ASSUME OneAtATime, FullInv, DiesInv, NEW t \in Threads, Step(t)
  PROVE  DiesInv'
<1> DEFINE c == call[t]
<1>1. DirInv /\ OwnOps /\ TreeInv /\ UniqueNames /\ NamesKnown /\ call \in [Threads -> Calls]
  BY Facts DEF FullInv
<1>2. unseen \in BOOLEAN /\ (unseen => unseen')
  <2>1. unseen \in BOOLEAN
    BY <1>1 DEF DirInv, HistoryInv
  <2>2. unseen' = unseen \/ \E op, p : unseen' = (unseen \/ (op \in {"create", "mkdir"} /\ Exists(p)))
    BY DEF Step, Start, OpenRoot, ScanSlot, ScanEnds, Enter, Opened, Visit, ReadDir, Release,
           CreateFindsEntry, Reopen, CreateFile, CreateAdds, RemoveChecks, RemoveClears,
           RenameOpened, RenameChecks, RenameAdds, RenameFindsOld, history
  <2> QED
    BY <2>1, <2>2
<1>3. NamesWritten(view')
  BY WrittenStep DEF DiesInv
<1>4. ASSUME NEW u \in Threads, call'[u].op = "mkdir", call'[u].pc \in Walking, ~unseen', NEW f,
             Leads(view', call'[u].p, Len(call'[u].p), f)
      PROVE  FALSE
  <2>1. ASSUME call[u].op = "mkdir", call[u].pc \in Walking, call'[u].p = call[u].p,
               Quiet(view, view')
        PROVE  FALSE
    <3>1. Len(call[u].p) \in Nat
      BY <1>1, KnowFacts
    <3>2. Leads(view, call[u].p, Len(call[u].p), f)
      BY <1>4, <2>1, <3>1, QuietLeads
    <3> QED
      BY <1>2, <1>4, <2>1, <3>2 DEF DiesInv, MkdirInv
  <2>2. CASE u # t
    <3>1. call'[u] = call[u]
      BY <1>1, <2>2, OwnOpsStep
    <3>2. Busy(call[u])
      BY <1>4, <3>1 DEF Busy, Mutators, Walking, Under
    <3>3. Quiet(view, view')
      BY <1>1, <2>2, <3>2, BusyChanges DEF OneAtATime
    <3> QED
      BY <1>4, <2>1, <3>1, <3>3
  <2>3. CASE u = t /\ ~Start(t)
    BY <1>1, <1>4, <2>1, <2>3, MkdirGoesOn, SameQuiet
  <2>4. CASE u = t /\ Start(t)
    <3>1. PICK op \in Ops[t], p \in Paths :
          \E q \in IF op = "rename" THEN Paths \ {<< >>} ELSE {<< >>} :
            /\ p = << >> => op \in {"opendir", "getattr", "chmod"}
            /\ Become(t, Begin(op, p, q))
            /\ unseen' = (unseen \/ (op \in {"create", "mkdir"} /\ Exists(p)))
            /\ view' = view
      BY <2>4 DEF Start
    <3>2. PICK q : /\ Become(t, Begin(op, p, q))
                   /\ p = << >> => op \in {"opendir", "getattr", "chmod"}
      BY <3>1
    <3>3. PICK d : d = Begin(op, p, q)
      OBVIOUS
    <3>4. d.op = op /\ d.p = p /\ call'[t] = d
      BY <1>1, <3>2, <3>3 DEF Begin, Idle, Become
    <3>5. op = "mkdir" /\ p # << >> /\ ~Exists(p) /\ Leads(view, p, Len(p), f)
      BY <1>4, <2>4, <3>1, <3>2, <3>4
    <3>6. p \in Seq(Names)
      BY PathFacts
    <3>7. Resolve(p) = f
      BY <1>1, <3>5, <3>6, ResolveLeads
    <3>8. Len(p) - 1 \in Nat /\ Len(p) - 1 + 1 = Len(p)
      BY <3>5, <3>6
    <3>9. \E e \in Files : Edge(view, e, p[Len(p)], f) /\ f \in Files
      BY <3>5, <3>8, LeadsBack
    <3>10. view[f].type # "new" /\ f # NoFile
      BY <3>9, DirectoryAssumption DEF DiesInv, NamesWritten
    <3> QED
      BY <3>5, <3>7, <3>10 DEF Exists, TypeAt
  <2> QED
    BY <2>2, <2>3, <2>4
<1>5. DiesOnlyUnseen'
  <2> SUFFICES ASSUME down', ~unseen PROVE FALSE
    BY <1>2 DEF DiesOnlyUnseen
  <2>1. ~down
    BY DEF DiesInv, DiesOnlyUnseen
  <2>2. /\ c.pc = "entry" /\ c.op = "mkdir" /\ c.ent # NoFile
    BY <2>1 DEF Step, Start, OpenRoot, ScanSlot, ScanEnds, Enter, Opened, Visit, ReadDir, Release,
           CreateFindsEntry, Reopen, CreateFile, CreateAdds, RemoveChecks, RemoveClears,
           RenameOpened, RenameChecks, RenameAdds, RenameFindsOld, Does
  <2>3. c.op \in Mutators /\ WalkPath(c) = c.p
    BY <2>2 DEF Mutators, WalkPath
  <2>4. /\ Leads(view, c.p, Len(c.p) - 1, c.dir) /\ c.p \in Seq(Names) /\ c.p # << >>
        /\ c.dir \in Files /\ c.ent \in Files /\ Edge(view, c.dir, Last(c.p), c.ent)
    BY <1>1, <2>2, <2>3, ChosenFacts DEF Chosen, Subject
  <2>5. Len(c.p) - 1 \in Nat /\ Len(c.p) - 1 + 1 = Len(c.p) /\ Last(c.p) = c.p[Len(c.p)]
    BY <2>4 DEF Last
  <2>6. Leads(view, c.p, Len(c.p), c.ent)
    BY <2>4, <2>5, LeadsOn
  <2> QED
    BY <2>2, <2>6 DEF DiesInv, MkdirInv, Walking
<1>6. MkdirInv'
  BY <1>4 DEF MkdirInv
<1> QED
  BY <1>3, <1>5, <1>6 DEF DiesInv

\* gdpfs_mkdir comes to its null pointer only after a lookup has missed a file that is
\* there, while no two threads change names at a time: from the kernel's lookup to the
\* end of the walk of the mkdir the path leads nowhere, whatever the others do.
THEOREM DiesOnlyAfterMiss == Spec /\ []OneAtATime => []DiesOnlyUnseen
<1>1. Init => DiesInv
  <2> SUFFICES ASSUME Init PROVE DiesInv
    OBVIOUS
  <2>1. (\A d \in Files : view[d].slots = << >>) /\ ~down
    BY DEF Init, File, Blank
  <2>2. \A t \in Threads : call[t].pc = "idle"
    BY IdleFacts DEF Init
  <2>3. NamesWritten(view)
    BY <2>1 DEF NamesWritten, Edge
  <2> QED
    BY <2>1, <2>2, <2>3 DEF DiesInv, MkdirInv, DiesOnlyUnseen, Walking
<1>2. OneAtATime /\ FullInv /\ DiesInv /\ [Next]_vars => DiesInv'
  <2> SUFFICES ASSUME OneAtATime, FullInv, DiesInv, [Next]_vars PROVE DiesInv'
    OBVIOUS
  <2>1. CASE Next
    BY <2>1, DiesStep DEF Next
  <2>2. CASE UNCHANGED vars
    BY <2>2 DEF vars, history, DiesInv, MkdirInv, DiesOnlyUnseen
  <2> QED
    BY <2>1, <2>2
<1>3. DiesInv => DiesOnlyUnseen
  BY DEF DiesInv
<1> QED
  BY <1>1, <1>2, <1>3, FullAlways, PTL DEF Spec

\* Both hold outright where one thread is asked for all that changes names, which is the
\* situation of two threads of FUSE that DirectoryThreads checks.
THEOREM OneMutatorSuffices ==
  ASSUME OneMutator
  PROVE  Spec => ImplementsNamespace /\ []DiesOnlyUnseen
<1>1. OwnOps => OneAtATime
  BY OneMutatorBusy
<1> QED
  BY <1>1, OwnOpsAlways, DirectoriesImplementNamespace, DiesOnlyAfterMiss, PTL
-----------------------------------------------------------------------------
\* The logs: what a file was after each of its records.  Typed says so of a set of
\* good records; the last record is what a read returns.
Records == [type : {"new", "file", "dir"}, perm : SUBSET {"r", "w"}, slots : Seq(Slots)]
Good == {r \in Records : SlotsInv(r.slots)}
SoundGood == {r \in Good : Sound(r)}

Typed(s, u, G) == s \in [Files -> G] /\ u \in [Files -> Seq(G)]
Latest(s, u, f) == IF u[f] = << >> THEN s[f] ELSE u[f][Len(u[f])]
UpToDate(s, u, v) == \A f \in Files : v[f] = Latest(s, u, f)

\* A version of a file: what some crash can leave of it.
Has(s, u, f, r) == r = s[f] \/ \E i \in DOMAIN u[f] : r = u[f][i]

LEMMA ViewGood ==
  ASSUME NEW v
  PROVE  ViewInv(v) <=> v \in [Files -> Good]
BY DEF ViewInv, Views, Good, Records

\* A step appends to the logs: some of them are begun, the others get what is new.
Grown(M, v, w, s, u, x, y) ==
    /\ x = [f \in Files |-> IF f \in M THEN Blank ELSE s[f]]
    /\ y = [f \in Files |-> IF f \in M THEN <<w[f]>>
                            ELSE IF w[f] = v[f] THEN u[f] ELSE Append(u[f], w[f])]

LEMMA GrownTyped ==
  ASSUME NEW G, Blank \in G, NEW M, NEW v, NEW w \in [Files -> G], NEW s, NEW u, NEW x, NEW y,
         Typed(s, u, G), UpToDate(s, u, v), Grown(M, v, w, s, u, x, y)
  PROVE  Typed(x, y, G) /\ UpToDate(x, y, w)
<1>1. s \in [Files -> G] /\ u \in [Files -> Seq(G)]
  BY DEF Typed
<1>2. /\ x = [f \in Files |-> IF f \in M THEN Blank ELSE s[f]]
      /\ y = [f \in Files |-> IF f \in M THEN <<w[f]>>
                              ELSE IF w[f] = v[f] THEN u[f] ELSE Append(u[f], w[f])]
  BY DEF Grown
<1>3. x \in [Files -> G]
  BY <1>1, <1>2
<1>4. ASSUME NEW f \in Files PROVE y[f] \in Seq(G) /\ w[f] = Latest(x, y, f)
  <2>1. w[f] \in G /\ u[f] \in Seq(G)
    BY <1>1
  <2>2. CASE f \in M
    <3>1. y[f] = <<w[f]>>
      BY <1>2, <2>2
    <3>2. <<w[f]>> \in Seq(G) /\ <<w[f]>> # << >> /\ Len(<<w[f]>>) = 1 /\ <<w[f]>>[1] = w[f]
      BY <2>1
    <3> QED
      BY <3>1, <3>2 DEF Latest
  <2>3. CASE f \notin M /\ w[f] = v[f]
    <3>1. y[f] = u[f] /\ x[f] = s[f]
      BY <1>2, <2>3
    <3>2. v[f] = Latest(s, u, f)
      BY DEF UpToDate
    <3> QED
      BY <2>1, <2>3, <3>1, <3>2 DEF Latest
  <2>4. CASE f \notin M /\ w[f] # v[f]
    <3>1. y[f] = Append(u[f], w[f])
      BY <1>2, <2>4
    <3>2. /\ y[f] \in Seq(G) /\ y[f] # << >> /\ Len(y[f]) = Len(u[f]) + 1
          /\ y[f][Len(u[f]) + 1] = w[f]
      BY <2>1, <3>1, AppendProperties
    <3> QED
      BY <3>2 DEF Latest
  <2> QED
    BY <2>2, <2>3, <2>4
<1>5. y \in [Files -> Seq(G)]
  BY <1>2, <1>4
<1> QED
  BY <1>3, <1>4, <1>5 DEF Typed, UpToDate

\* The versions after the step: those before it, and what is new.
LEMMA GrownHas ==
  ASSUME NEW G, NEW M, NEW v, NEW w \in [Files -> G], NEW s, NEW u, NEW x, NEW y,
         Typed(s, u, G), Grown(M, v, w, s, u, x, y), NEW f \in Files, NEW r, Has(x, y, f, r)
  PROVE  /\ f \in M => r = Blank \/ r = w[f]
         /\ f \notin M => Has(s, u, f, r) \/ (r = w[f] /\ w[f] # v[f])
<1>1. u[f] \in Seq(G) /\ w[f] \in G
  BY DEF Typed
<1>2. /\ x[f] = IF f \in M THEN Blank ELSE s[f]
      /\ y[f] = IF f \in M THEN <<w[f]>>
                ELSE IF w[f] = v[f] THEN u[f] ELSE Append(u[f], w[f])
  BY DEF Grown
<1>3. r = x[f] \/ \E i \in DOMAIN y[f] : r = y[f][i]
  BY DEF Has
<1>4. CASE f \in M
  <2>1. \A i \in DOMAIN <<w[f]>> : <<w[f]>>[i] = w[f]
    BY <1>1
  <2> QED
    BY <1>2, <1>3, <1>4, <2>1
<1>5. CASE f \notin M /\ w[f] = v[f]
  BY <1>2, <1>3, <1>5 DEF Has
<1>6. CASE f \notin M /\ w[f] # v[f]
  <2>1. y[f] = Append(u[f], w[f]) /\ x[f] = s[f]
    BY <1>2, <1>6
  <2>2. /\ y[f] \in Seq(G) /\ Len(y[f]) = Len(u[f]) + 1
        /\ y[f][Len(u[f]) + 1] = w[f]
        /\ \A i \in 1 .. Len(u[f]) : y[f][i] = u[f][i]
    BY <1>1, <2>1, AppendProperties
  <2>3. DOMAIN y[f] = 1 .. Len(y[f]) /\ DOMAIN u[f] = 1 .. Len(u[f]) /\ Len(u[f]) \in Nat
    BY <1>1, <2>2, LenProperties
  <2>4. \A i \in DOMAIN y[f] : y[f][i] = w[f] \/ (i \in DOMAIN u[f] /\ y[f][i] = u[f][i])
    BY <2>2, <2>3
  <2> QED
    BY <1>3, <1>6, <2>1, <2>4 DEF Has
<1> QED
  BY <1>4, <1>5, <1>6

\* The GDP takes a record: no version comes, and none but the oldest goes.
Taken(f, s, u, x, y) ==
    /\ f \in Files /\ u[f] # << >>
    /\ x = [s EXCEPT ![f] = Head(u[f])] /\ y = [u EXCEPT ![f] = Tail(u[f])]

LEMMA TakenTyped ==
  ASSUME NEW G, NEW v, NEW s, NEW u, NEW x, NEW y, NEW f,
         Typed(s, u, G), UpToDate(s, u, v), Taken(f, s, u, x, y)
  PROVE  /\ Typed(x, y, G) /\ UpToDate(x, y, v)
         /\ \A g \in Files : \A r : Has(x, y, g, r) => Has(s, u, g, r)
         /\ \A g \in Files : DOMAIN y[g] \subseteq DOMAIN u[g]
<1>1. s \in [Files -> G] /\ u \in [Files -> Seq(G)]
  BY DEF Typed
<1>2. /\ f \in Files /\ u[f] # << >>
      /\ x = [s EXCEPT ![f] = Head(u[f])] /\ y = [u EXCEPT ![f] = Tail(u[f])]
  BY DEF Taken
<1>3. PICK a : a = u[f]
  OBVIOUS
<1>4. a \in Seq(G) /\ a # << >>
  BY <1>1, <1>2, <1>3
<1>5. PICK b : b = Tail(a)
  OBVIOUS
<1>6. /\ Head(a) \in G /\ b \in Seq(G) /\ Len(b) = Len(a) - 1
      /\ \A i \in 1 .. Len(b) : b[i] = a[i + 1]
  BY <1>4, <1>5, HeadTailProperties
<1>7. /\ DOMAIN a = 1 .. Len(a) /\ DOMAIN b = 1 .. Len(b) /\ Len(b) \in Nat
      /\ Len(a) \in Nat \ {0} /\ Head(a) = a[1]
  BY <1>4, <1>6, LenProperties, EmptySeq
<1>8. /\ x[f] = Head(a) /\ y[f] = b
      /\ \A g \in Files : g # f => x[g] = s[g] /\ y[g] = u[g]
  BY <1>1, <1>2, <1>3, <1>5
<1>9. Typed(x, y, G)
  BY <1>1, <1>2, <1>3, <1>5, <1>6 DEF Typed
<1>10. Latest(x, y, f) = Latest(s, u, f)
  <2>1. CASE b = << >>
    <3>1. Len(a) = 1
      BY <1>6, <1>7, <2>1
    <3> QED
      BY <1>3, <1>4, <1>7, <1>8, <2>1, <3>1 DEF Latest
  <2>2. CASE b # << >>
    <3>1. Len(b) \in Nat \ {0}
      BY <1>6, <2>2, EmptySeq
    <3>2. b[Len(b)] = a[Len(a)]
      BY <1>6, <1>7, <3>1
    <3> QED
      BY <1>3, <1>4, <1>8, <2>2, <3>2 DEF Latest
  <2> QED
    BY <2>1, <2>2
<1>11. \A i \in 1 .. Len(b) : i \in DOMAIN a /\ i + 1 \in DOMAIN a
  BY <1>6, <1>7
<1>12. \A r : Has(x, y, f, r) => Has(s, u, f, r)
  <2>1. 1 \in DOMAIN a
    BY <1>7
  <2>2. \A r : (\E i \in DOMAIN b : r = b[i]) => \E i \in DOMAIN a : r = a[i]
    BY <1>6, <1>7, <1>11
  <2> QED
    BY <1>3, <1>7, <1>8, <2>1, <2>2 DEF Has
<1>13. ASSUME NEW g \in Files, NEW r, Has(x, y, g, r) PROVE Has(s, u, g, r)
  <2>1. CASE g = f
    BY <1>12, <1>13, <2>1
  <2>2. CASE g # f
    BY <1>8, <1>13, <2>2 DEF Has
  <2> QED
    BY <2>1, <2>2
<1>14. \A g \in Files : DOMAIN y[g] \subseteq DOMAIN u[g]
  BY <1>3, <1>7, <1>8, <1>11
<1>15. UpToDate(x, y, v)
  <2>1. \A g \in Files : Latest(x, y, g) = Latest(s, u, g)
    BY <1>8, <1>10 DEF Latest
  <2> QED
    BY <2>1 DEF UpToDate
<1> QED
  BY <1>9, <1>13, <1>14, <1>15
-----------------------------------------------------------------------------
LEMMA BlankGood == Blank \in Good /\ Blank \in SoundGood
<1>1. << >> \in Seq(Slots)
  OBVIOUS
<1>2. Blank \in Records /\ Blank.slots = << >>
  BY <1>1 DEF Blank, Records
<1>3. SlotsInv(Blank.slots) /\ Sound(Blank)
  BY <1>2 DEF SlotsInv, Sound, Unique, NamesIn
<1> QED
  BY <1>2, <1>3 DEF Good, SoundGood

\* Finitely many appends are without an acknowledgement, and a record that is taken
\* is one less.
LEMMA UnsavedFinite ==
  ASSUME NEW G, NEW u \in [Files -> Seq(G)]
  PROVE  IsFiniteSet(UnsavedIn(u))
<1> DEFINE T == {{f} \X DOMAIN u[f] : f \in Files}
           h == [f \in Files |-> {f} \X DOMAIN u[f]]
<1>1. h \in Surjection(Files, T)
  BY DEF Surjection
<1>2. IsFiniteSet(Files)
  BY CrashAssumption
<1>3. IsFiniteSet(T)
  <2> HIDE DEF T, h
  <2> QED BY <1>1, <1>2, FS_Surjection
<1>4. ASSUME NEW f \in Files PROVE IsFiniteSet({f} \X DOMAIN u[f])
  <2>1. DOMAIN u[f] = 1 .. Len(u[f]) /\ Len(u[f]) \in Int
    BY LenProperties
  <2>2. IsFiniteSet(DOMAIN u[f])
    BY <2>1, FS_Interval
  <2>3. IsFiniteSet({f})
    BY FS_Singleton
  <2> QED
    BY <2>2, <2>3, FS_Product
<1>5. \A A \in T : IsFiniteSet(A)
  BY <1>4
<1>6. IsFiniteSet(UNION T)
  <2> HIDE DEF T
  <2> QED BY <1>3, <1>5, FS_UNION
<1> QED
  BY <1>6 DEF UnsavedIn

LEMMA UnsavedFewer ==
  ASSUME NEW G, NEW u \in [Files -> Seq(G)], NEW y,
         \A f \in Files : DOMAIN y[f] \subseteq DOMAIN u[f]
  PROVE  Cardinality(UnsavedIn(y)) <= Cardinality(UnsavedIn(u))
<1>1. \A f \in Files : {f} \X DOMAIN y[f] \subseteq {f} \X DOMAIN u[f]
  OBVIOUS
<1>2. UnsavedIn(y) \subseteq UnsavedIn(u)
  BY <1>1 DEF UnsavedIn
<1>3. UnsavedIn(y) \in SUBSET UnsavedIn(u)
  BY <1>2
<1> QED
  BY <1>3, UnsavedFinite, FS_Subset

\* What is always so of the logs.
LogInv ==
    /\ DirInv /\ Typed(saved, unsaved, Good) /\ UpToDate(saved, unsaved, view)
    /\ Cardinality(UnsavedIn(unsaved)) <= MaxUnsaved
    /\ calls \in 0 .. MaxCalls /\ kept \subseteq Files /\ split \in BOOLEAN

NoneUnsaved(u) == u = [f \in Files |-> << >>]

LEMMA NoneUnsavedFacts ==
  ASSUME NEW G, NEW u, NEW v \in [Files -> G], NoneUnsaved(u)
  PROVE  /\ Typed(v, u, G) /\ UpToDate(v, u, v) /\ Cardinality(UnsavedIn(u)) <= MaxUnsaved
         /\ \A f \in Files : \A r : Has(v, u, f, r) <=> r = v[f]
<1>1. \A f \in Files : u[f] = << >>
  BY DEF NoneUnsaved
<1>2. << >> \in Seq(G) /\ DOMAIN << >> = {}
  OBVIOUS
<1>3. Typed(v, u, G)
  BY <1>2 DEF Typed, NoneUnsaved
<1>4. UpToDate(v, u, v)
  BY <1>1 DEF UpToDate, Latest
<1>5. UnsavedIn(u) = {}
  <2>1. \A f \in Files : DOMAIN u[f] = {}
    BY <1>1, <1>2
  <2>2. \A f \in Files : {f} \X DOMAIN u[f] = {}
    BY <2>1
  <2> QED
    BY <2>2 DEF UnsavedIn
<1>6. Cardinality(UnsavedIn(u)) <= MaxUnsaved
  BY <1>5, FS_EmptySet, CrashAssumption
<1>7. \A f \in Files : \A r : Has(v, u, f, r) <=> r = v[f]
  BY <1>1, <1>2 DEF Has
<1> QED
  BY <1>3, <1>4, <1>6, <1>7

LEMMA LogInit == InitLogs => LogInv
<1> SUFFICES ASSUME InitLogs PROVE LogInv
  OBVIOUS
<1>1. DirInv /\ saved = view /\ NoneUnsaved(unsaved)
  BY DirInvInit DEF InitLogs, NoneUnsaved
<1>2. view \in [Files -> Good]
  BY <1>1, ViewGood DEF DirInv
<1>3. /\ Typed(saved, unsaved, Good) /\ UpToDate(saved, unsaved, view)
      /\ Cardinality(UnsavedIn(unsaved)) <= MaxUnsaved
  BY <1>1, <1>2, NoneUnsavedFacts
<1>4. calls \in 0 .. MaxCalls
  BY CrashAssumption DEF InitLogs
<1>5. kept \subseteq Files /\ split \in BOOLEAN
  BY DirectoryAssumption DEF InitLogs
<1> QED
  BY <1>1, <1>3, <1>4, <1>5 DEF LogInv

\* An operation goes on.
LEMMA OperateGrown ==
  ASSUME Appends
  PROVE  Grown(Made, view, view', saved, unsaved, saved', unsaved')
BY DEF Appends, Grown

LEMMA OperateLogs ==
  ASSUME LogInv, Operate
  PROVE  LogInv'
<1>1. PICK t \in Threads :
        /\ Step(t) /\ Appends
        /\ calls' = calls + (IF call[t].pc = "idle" THEN 1 ELSE 0) /\ calls' <= MaxCalls
        /\ kept' = IF call[t].op = "rename" /\ call[t].pc # "add" THEN kept
                   ELSE kept \ UNION {Children(view)[d] \ Children(view')[d] : d \in Files}
        /\ split' = (split \/ (ClearsOldName(t) /\ NewNameUnsafe(call[t])))
  BY DEF Operate
<1>2. DirInv'
  BY <1>1, DirInvStep DEF LogInv, Next
<1>3. view' \in [Files -> Good]
  BY <1>2, ViewGood DEF DirInv
<1>4. Grown(Made, view, view', saved, unsaved, saved', unsaved')
  BY <1>1, OperateGrown
<1>5. Typed(saved, unsaved, Good) /\ UpToDate(saved, unsaved, view)
  BY DEF LogInv
<1>6. Typed(saved', unsaved', Good) /\ UpToDate(saved', unsaved', view')
  BY <1>3, <1>4, <1>5, BlankGood, GrownTyped
<1>7. Cardinality(UnsavedIn(unsaved')) <= MaxUnsaved
  BY <1>1 DEF Appends
<1>8. calls' \in 0 .. MaxCalls
  <2>1. calls \in 0 .. MaxCalls /\ MaxCalls \in Nat
    BY CrashAssumption DEF LogInv
  <2> QED
    BY <1>1, <2>1
<1>9. kept' \subseteq Files
  <2>1. kept \subseteq Files
    BY DEF LogInv
  <2>2. kept' \subseteq kept
    BY <1>1
  <2> QED
    BY <2>1, <2>2
<1>10. split' \in BOOLEAN
  BY <1>1
<1> QED
  BY <1>2, <1>6, <1>7, <1>8, <1>9, <1>10 DEF LogInv

\* The GDP takes a record.
LEMMA AcknowledgeTakes ==
  ASSUME Acknowledge
  PROVE  /\ \E f : Taken(f, saved, unsaved, saved', unsaved')
         /\ kept' = kept \cup Reachable(Lasting(saved', unsaved', view))
         /\ UNCHANGED vars /\ calls' = calls /\ split' = split /\ view' = view
BY DEF Acknowledge, Taken, vars

LEMMA AcknowledgeLogs ==
  ASSUME LogInv, Acknowledge
  PROVE  LogInv'
<1>1. PICK f : Taken(f, saved, unsaved, saved', unsaved')
  BY AcknowledgeTakes
<1>2. /\ kept' = kept \cup Reachable(Lasting(saved', unsaved', view))
      /\ UNCHANGED vars /\ calls' = calls /\ split' = split /\ view' = view
  BY AcknowledgeTakes
<1>3. DirInv'
  BY <1>2, DirInvStep DEF LogInv
<1>4. Typed(saved, unsaved, Good) /\ UpToDate(saved, unsaved, view)
  BY DEF LogInv
<1>5. /\ Typed(saved', unsaved', Good) /\ UpToDate(saved', unsaved', view)
      /\ \A g \in Files : DOMAIN unsaved'[g] \subseteq DOMAIN unsaved[g]
  BY <1>1, <1>4, TakenTyped
<1>6. unsaved \in [Files -> Seq(Good)] /\ unsaved' \in [Files -> Seq(Good)]
  BY <1>4, <1>5 DEF Typed
<1>7. Cardinality(UnsavedIn(unsaved')) <= MaxUnsaved
  <2>1. Cardinality(UnsavedIn(unsaved')) <= Cardinality(UnsavedIn(unsaved))
    BY <1>5, <1>6, UnsavedFewer
  <2>2. Cardinality(UnsavedIn(unsaved')) \in Nat /\ Cardinality(UnsavedIn(unsaved)) \in Nat
    BY <1>6, UnsavedFinite, FS_CardinalityType
  <2>3. Cardinality(UnsavedIn(unsaved)) <= MaxUnsaved /\ MaxUnsaved \in Nat
    BY CrashAssumption DEF LogInv
  <2> QED
    BY <2>1, <2>2, <2>3
<1>8. kept' \subseteq Files
  <2>1. Reachable(Lasting(saved', unsaved', view)) \subseteq Files
    BY DEF Reachable
  <2> QED
    BY <1>2, <2>1 DEF LogInv
<1>9. calls' \in 0 .. MaxCalls /\ split' \in BOOLEAN
  BY <1>2 DEF LogInv
<1> QED
  BY <1>2, <1>3, <1>5, <1>7, <1>8, <1>9 DEF LogInv

\* The client dies.
LEMMA CrashLogs ==
  ASSUME LogInv, Crash
  PROVE  LogInv'
<1>1. /\ view' = saved /\ saved' = saved /\ NoneUnsaved(unsaved')
      /\ call' = [t \in Threads |-> Idle] /\ open_fhs' = 0 /\ leaked' = 0
  BY DEF Crash, NoneUnsaved
<1>2. saved \in [Files -> Good]
  BY DEF LogInv, Typed
<1>3. ViewInv(view')
  BY <1>1, <1>2, ViewGood
<1>4. call' \in [Threads -> Calls] /\ \A t \in Threads : CallInv(call'[t], view')
  BY <1>1, IdleFacts DEF CallInv
<1>5. HistoryInv'
  BY DEF Crash, HistoryInv
<1>6. HandlesAccounted'
  <2> DEFINE S(n) == {t \in Threads : HandlesOf(call'[t]) >= n}
  <2>1. S(1) = {} /\ S(2) = {}
    BY <1>1, IdleFacts
  <2> HIDE DEF S
  <2>2. open_fhs' = leaked' + Cardinality(S(1)) + Cardinality(S(2))
    BY <1>1, <2>1, FS_EmptySet
  <2> QED
    BY <2>2 DEF HandlesAccounted, S
<1>7. DirInv'
  BY <1>1, <1>3, <1>4, <1>5, <1>6, DirectoryAssumption DEF DirInv, CountInv
<1>8. /\ Typed(saved', unsaved', Good) /\ UpToDate(saved', unsaved', view')
      /\ Cardinality(UnsavedIn(unsaved')) <= MaxUnsaved
  BY <1>1, <1>2, NoneUnsavedFacts
<1>9. calls' = calls /\ kept' = kept /\ split' = split
  BY DEF Crash
<1> QED
  BY <1>7, <1>8, <1>9 DEF LogInv

LEMMA LogSame ==
  ASSUME LogInv, UNCHANGED allVars
  PROVE  LogInv'
<1>1. UNCHANGED vars /\ UNCHANGED <<saved, unsaved, calls, kept, split>> /\ view' = view
  BY DEF allVars, logs, vars
<1>2. DirInv'
  BY <1>1, DirInvStep DEF LogInv
<1> QED
  BY <1>1, <1>2 DEF LogInv

LEMMA LogAlways == SpecLogs => []LogInv
<1>1. LogInv /\ [NextLogs]_allVars => LogInv'
  BY OperateLogs, AcknowledgeLogs, CrashLogs, LogSame DEF NextLogs
<1> QED
  BY <1>1, LogInit, PTL DEF SpecLogs

\* Through appends without an acknowledgement, acknowledgements in any order of the
\* logs, crashes and restarts, the state keeps its type and its bounds: whatever a
\* crash leaves of the logs is a state the operations can start from.
THEOREM TypeCorrectLogs == SpecLogs => []TypeOKLogs
<1>1. LogInv => TypeOKLogs
  BY DirInvTypes DEF LogInv, TypeOKLogs, Typed
<1> QED
  BY <1>1, LogAlways, PTL
-----------------------------------------------------------------------------
\* While no two threads change names at a time, every record of a log is of a sound
\* file, and so is what a crash leaves.
LogTree == LogInv /\ FullInv /\ Typed(saved, unsaved, SoundGood)

LEMMA ViewSound ==
  ASSUME NEW v, ViewInv(v), \A f \in Files : Sound(v[f])
  PROVE  v \in [Files -> SoundGood]
<1>1. v \in [Files -> Good]
  BY ViewGood
<1> QED
  BY <1>1 DEF SoundGood

LEMMA TreeInit == InitLogs => LogTree
<1> SUFFICES ASSUME InitLogs PROVE LogTree
  OBVIOUS
<1>1. LogInv /\ FullInv
  BY LogInit, FullInit DEF InitLogs
<1>2. view \in [Files -> SoundGood] /\ saved = view /\ NoneUnsaved(unsaved)
  BY <1>1, ViewSound DEF InitLogs, NoneUnsaved, FullInv, DirInv, TreeInv
<1> QED
  BY <1>1, <1>2, NoneUnsavedFacts DEF LogTree

LEMMA CrashTree ==
  ASSUME LogTree, Crash
  PROVE  LogTree'
<1>1. LogInv'
  BY CrashLogs DEF LogTree
<1>2. /\ view' = saved /\ saved' = saved /\ NoneUnsaved(unsaved')
      /\ call' = [t \in Threads |-> Idle]
  BY DEF Crash, NoneUnsaved
<1>3. saved \in [Files -> SoundGood]
  BY DEF LogTree, Typed
<1>4. \A f \in Files : Sound(view'[f])
  BY <1>2, <1>3 DEF SoundGood
<1>5. UniqueNames'
  BY <1>4 DEF Sound, Unique, UniqueNames
<1>6. \A t \in Threads : call'[t] = Idle
  BY <1>2
<1>7. NamesKnown' /\ OwnOps'
  BY <1>6 DEF NamesKnown, NameInv, Adding, OwnOps, Idle
<1>8. TreeInv'
  <2>1. \A t \in Threads : call'[t].pc \notin Under
    BY <1>6, IdleFacts DEF Under
  <2> QED
    BY <1>4, <2>1, RestsKnows DEF TreeInv
<1>9. FullInv'
  BY <1>1, <1>5, <1>7, <1>8 DEF FullInv, LogInv
<1>10. Typed(saved', unsaved', SoundGood)
  BY <1>2, <1>3, NoneUnsavedFacts
<1> QED
  BY <1>1, <1>9, <1>10 DEF LogTree

LEMMA OperateTree ==
  ASSUME OneAtATime, LogTree, NEW t \in Threads, Step(t), Appends, Operate
  PROVE  LogTree'
<1>1. LogInv' /\ FullInv'
  BY OperateLogs, FullStep DEF LogTree
<1>2. view' \in [Files -> SoundGood]
  <2>1. ViewInv(view') /\ \A f \in Files : Sound(view'[f])
    BY <1>1 DEF FullInv, DirInv, TreeInv
  <2> QED
    BY <2>1, ViewSound
<1>3. Grown(Made, view, view', saved, unsaved, saved', unsaved')
  BY OperateGrown
<1>4. Typed(saved, unsaved, SoundGood) /\ UpToDate(saved, unsaved, view)
  BY DEF LogTree, LogInv
<1>5. Typed(saved', unsaved', SoundGood)
  BY <1>2, <1>3, <1>4, BlankGood, GrownTyped
<1> QED
  BY <1>1, <1>5 DEF LogTree

LEMMA AcknowledgeTree ==
  ASSUME LogTree, Acknowledge
  PROVE  LogTree'
<1>1. PICK f : Taken(f, saved, unsaved, saved', unsaved')
  BY AcknowledgeTakes
<1>2. LogInv' /\ FullInv'
  BY AcknowledgeLogs, AcknowledgeTakes, FullSame DEF LogTree
<1>3. Typed(saved, unsaved, SoundGood) /\ UpToDate(saved, unsaved, view)
  BY DEF LogTree, LogInv
<1>4. Typed(saved', unsaved', SoundGood)
  BY <1>1, <1>3, TakenTyped
<1> QED
  BY <1>2, <1>4 DEF LogTree

LEMMA TreeSame ==
  ASSUME LogTree, UNCHANGED allVars
  PROVE  LogTree'
<1>1. UNCHANGED vars /\ saved' = saved /\ unsaved' = unsaved
  BY DEF allVars, logs
<1> QED
  BY <1>1, LogSame, FullSame DEF LogTree

LEMMA LogTreeAlways == SpecLogs /\ []OneAtATime => []LogTree
<1>1. OneAtATime /\ LogTree /\ [NextLogs]_allVars => LogTree'
  <2>1. OneAtATime /\ LogTree /\ Operate => LogTree'
    BY OperateTree DEF Operate
  <2> QED
    BY <2>1, AcknowledgeTree, CrashTree, TreeSame DEF NextLogs
<1> QED
  BY <1>1, TreeInit, PTL DEF SpecLogs

\* Whatever mixture of old and new directories a crash leaves, from any number of
\* crashes, the operations after it do to the tree of names what Namespace allows,
\* while no two threads change names at a time.
THEOREM OperationsKeepTree == SpecLogs /\ []OneAtATime => OperationsKeepNamespace
<1>1. LogTree /\ [NextLogs]_allVars => [UNCHANGED N!vars \/ Crash \/ N!Next]_allVars
  <2> SUFFICES ASSUME LogTree, [NextLogs]_allVars
               PROVE  [UNCHANGED N!vars \/ Crash \/ N!Next]_allVars
    OBVIOUS
  <2>1. CASE Operate
    <3>1. PICK t \in Threads : Step(t)
      BY <2>1 DEF Operate
    <3>2. UNCHANGED N!vars \/ N!Next
      BY <3>1, StepRefined DEF LogTree, FullInv
    <3> QED
      BY <3>2
  <2>2. CASE Acknowledge
    <3>1. view' = view
      BY <2>2, AcknowledgeTakes
    <3> QED
      BY <3>1, SameQuiet, QuietRefined
  <2> QED
    BY <2>1, <2>2 DEF NextLogs
<1> QED
  BY <1>1, LogTreeAlways, PTL DEF SpecLogs, OperationsKeepNamespace
-----------------------------------------------------------------------------
\* A log is begun by a step that makes a file, and by no other.
LEMMA MadeByCreate ==
  ASSUME DirInv, OwnOps, TreeInv, NEW t \in Threads, Step(t)
  PROVE  \/ MakesFile(t) /\ Made = {call'[t].file}
         \/ ~MakesFile(t) /\ Made = {}
<1> DEFINE Makers == {u \in Threads : /\ call[u].pc = "entry" /\ call'[u].pc = "add"
                                      /\ call[u].op \in {"create", "mkdir"}}
<1>1. \A u \in Makers : u = t
  BY OwnOpsStep
<1>2. Made = {call'[u].file : u \in Makers}
  BY DEF Made
<1>3. MakesFile(t) => t \in Makers
  BY DEF MakesFile
<1>4. ASSUME t \in Makers PROVE MakesFile(t)
  <2>1. call[t].pc = "entry" /\ call'[t].pc = "add" /\ call[t].op \in {"create", "mkdir"}
    BY <1>4
  <2>2. call'[t] # Idle
    BY <2>1, IdleFacts
  <2>3. ~(\/ Start(t) \/ OpenRoot(t) \/ ScanSlot(t) \/ ScanEnds(t) \/ Enter(t) \/ Opened(t))
    BY <2>1 DEF Start, OpenRoot, ScanSlot, ScanEnds, Enter, Opened, Does
  <2>4. ~(Visit(t) \/ ReadDir(t) \/ Release(t) \/ Reopen(t) \/ CreateAdds(t) \/ RemoveClears(t))
    BY <2>1 DEF Visit, ReadDir, Release, Reopen, CreateAdds, RemoveClears, Does
  <2>5. ~(\/ RemoveChecks(t) \/ RenameOpened(t) \/ RenameChecks(t) \/ RenameAdds(t)
          \/ RenameFindsOld(t))
    BY <2>1 DEF RemoveChecks, RenameOpened, RenameChecks, RenameAdds, RenameFindsOld, Does
  <2>6. ~CreateFindsEntry(t)
    <3> SUFFICES ASSUME CreateFindsEntry(t) PROVE FALSE
      OBVIOUS
    <3>1. PICK d : d = [call[t] EXCEPT !.pc = "reopen"]
      OBVIOUS
    <3>2. call[t] \in Calls /\ call'[t] = d
      BY <3>1, Facts DEF CreateFindsEntry, Become
    <3>3. d.pc = "reopen"
      BY <3>1, <3>2 DEF Calls
    <3> QED
      BY <2>1, <3>2, <3>3
  <2>7. CreateFile(t)
    BY <2>3, <2>4, <2>5, <2>6 DEF Step
  <2>8. ~Become(t, Idle)
    BY <2>2, Facts DEF Become
  <2> QED
    BY <2>7, <2>8, CreateFileKind
<1>5. CASE t \in Makers
  <2>1. Made = {call'[t].file}
    <3> HIDE DEF Makers
    <3> QED BY <1>1, <1>2, <1>5
  <2> QED
    BY <1>4, <1>5, <2>1
<1>6. CASE t \notin Makers
  <2>1. Made = {}
    <3> HIDE DEF Makers
    <3> QED BY <1>1, <1>2, <1>6
  <2> QED
    BY <1>3, <1>6, <2>1
<1> QED
  BY <1>5, <1>6

\* What a crash can leave: a version of every file, whatever those of the others.
Outcome(s, u, v) == \A f \in Files : Has(s, u, f, v[f])
Closed(v, S) ==
    /\ S \subseteq Files /\ Root \in S
    /\ \A d \in S : ChildrenIn(v[d].slots) \subseteq S

\* The files in k can be reached from the root whatever a crash leaves.
Survive(s, u, k) == \A v, S : Outcome(s, u, v) /\ Closed(v, S) => k \subseteq S

KeptInv == LogTree /\ (split \/ Survive(saved, unsaved, kept))

\* What there is now is one of the outcomes.
LEMMA NowIsOutcome ==
  ASSUME NEW G, NEW s, NEW u, NEW v, Typed(s, u, G), UpToDate(s, u, v)
  PROVE  Outcome(s, u, v)
<1> SUFFICES ASSUME NEW f \in Files PROVE Has(s, u, f, v[f])
  BY DEF Outcome
<1>1. v[f] = Latest(s, u, f)
  BY DEF UpToDate
<1>2. CASE u[f] = << >>
  BY <1>1, <1>2 DEF Latest, Has
<1>3. CASE u[f] # << >>
  <2>1. u[f] \in Seq(G)
    BY DEF Typed
  <2>2. Len(u[f]) \in Nat \ {0} /\ DOMAIN u[f] = 1 .. Len(u[f])
    BY <1>3, <2>1, EmptySeq, LenProperties
  <2>3. Len(u[f]) \in DOMAIN u[f]
    BY <2>2
  <2> QED
    BY <1>1, <1>3, <2>3 DEF Latest, Has
<1> QED
  BY <1>2, <1>3

LEMMA SurviveMeans ==
  ASSUME KeptInv
  PROVE  SavedFilesSurvive
<1> SUFFICES ASSUME ~split PROVE kept \subseteq Reachable(Children(view))
  BY DEF SavedFilesSurvive
<1>1. Survive(saved, unsaved, kept) /\ kept \subseteq Files
  BY DEF KeptInv, LogTree, LogInv
<1>2. Outcome(saved, unsaved, view)
  BY NowIsOutcome DEF KeptInv, LogTree, LogInv
<1> SUFFICES ASSUME NEW f \in kept, NEW S \in SUBSET Files, Root \in S,
                    \A d \in S : Children(view)[d] \subseteq S
             PROVE  f \in S
  BY <1>1 DEF Reachable
<1>3. Closed(view, S)
  BY DEF Closed, Children
<1> QED
  BY <1>1, <1>2, <1>3 DEF Survive

\* Fewer outcomes, and files that every one of them names.
LEMMA FewerOutcomes ==
  ASSUME NEW s, NEW u, NEW k, NEW x, NEW y, Survive(s, u, k),
         \A f \in Files : \A r : Has(x, y, f, r) => Has(s, u, f, r)
  PROVE  Survive(x, y, k)
BY DEF Survive, Outcome

LEMMA LastingSurvives ==
  ASSUME NEW s, NEW u, NEW v
  PROVE  Survive(s, u, Reachable(Lasting(s, u, v)))
<1> SUFFICES ASSUME NEW w, NEW S, Outcome(s, u, w), Closed(w, S),
                    NEW f \in Reachable(Lasting(s, u, v))
             PROVE  f \in S
  BY DEF Survive
<1>1. S \subseteq Files /\ Root \in S /\ \A d \in S : ChildrenIn(w[d].slots) \subseteq S
  BY DEF Closed
<1>2. ASSUME NEW d \in S PROVE Lasting(s, u, v)[d] \subseteq S
  <2>1. w[d] = s[d] \/ \E i \in DOMAIN u[d] : w[d] = u[d][i]
    BY <1>1 DEF Outcome, Has
  <2>2. Lasting(s, u, v)[d] \subseteq ChildrenIn(w[d].slots)
    BY <1>1, <2>1 DEF Lasting
  <2> QED
    BY <1>1, <2>2
<1> QED
  BY <1>1, <1>2 DEF Reachable

LEMMA AcknowledgeKeeps ==
  ASSUME KeptInv, Acknowledge
  PROVE  KeptInv'
<1>1. LogTree'
  BY AcknowledgeTree DEF KeptInv
<1>2. PICK f : Taken(f, saved, unsaved, saved', unsaved')
  BY AcknowledgeTakes
<1>3. /\ kept' = kept \cup Reachable(Lasting(saved', unsaved', view))
      /\ split' = split
  BY AcknowledgeTakes
<1>4. \A g \in Files : \A r : Has(saved', unsaved', g, r) => Has(saved, unsaved, g, r)
  BY <1>2, TakenTyped DEF KeptInv, LogTree, LogInv
<1>5. ASSUME ~split PROVE Survive(saved', unsaved', kept')
  <2>1. Survive(saved', unsaved', kept)
    BY <1>4, <1>5, FewerOutcomes DEF KeptInv
  <2>2. Survive(saved', unsaved', Reachable(Lasting(saved', unsaved', view)))
    BY LastingSurvives
  <2> QED
    BY <1>3, <2>1, <2>2 DEF Survive
<1> QED
  BY <1>1, <1>3, <1>5 DEF KeptInv

LEMMA CrashKeeps ==
  ASSUME KeptInv, Crash
  PROVE  KeptInv'
<1>1. LogTree'
  BY CrashTree DEF KeptInv
<1>2. saved' = saved /\ NoneUnsaved(unsaved') /\ kept' = kept /\ split' = split
  BY DEF Crash, NoneUnsaved
<1>3. saved \in [Files -> Good]
  BY DEF KeptInv, LogTree, LogInv, Typed
<1>4. \A g \in Files : \A r : Has(saved', unsaved', g, r) => Has(saved, unsaved, g, r)
  <2>1. \A g \in Files : \A r : Has(saved', unsaved', g, r) <=> r = saved[g]
    BY <1>2, <1>3, NoneUnsavedFacts
  <2> QED
    BY <2>1 DEF Has
<1>5. ~split => Survive(saved', unsaved', kept')
  BY <1>2, <1>4, FewerOutcomes DEF KeptInv
<1> QED
  BY <1>1, <1>2, <1>5 DEF KeptInv

\* The children of a directory are the files its names stand for; a file that is bare
\* has none.
LEMMA ChildIsNamed ==
  ASSUME NEW v, NEW d, Sound(v[d]), NEW g
  PROVE  /\ g \in ChildrenIn(v[d].slots) <=> \E n : Edge(v, d, n, g)
         /\ Bare(v, d) => ChildrenIn(v[d].slots) = {}
<1>1. v[d].type # "dir" => NamesIn(v[d].slots) = {}
  BY DEF Sound
<1>2. NamesIn(v[d].slots) = {} => ChildrenIn(v[d].slots) = {}
  BY DEF NamesIn, ChildrenIn
<1>3. v[d].type = "dir" => (g \in ChildrenIn(v[d].slots) <=> \E n : Edge(v, d, n, g))
  BY DEF ChildrenIn, Edge
<1>4. v[d].type # "dir" => ~\E n : Edge(v, d, n, g)
  BY DEF Edge
<1> QED
  BY <1>1, <1>2, <1>3, <1>4 DEF Bare

\* The names a step takes from files: what is kept is kept when those files have no
\* names themselves and are not counted.
Lost(v, w) == UNION {ChildrenIn(v[d].slots) \ ChildrenIn(w[d].slots) : d \in Files}

LEMMA LosesBare ==
  ASSUME NEW s, NEW u, NEW k, NEW x, NEW y, NEW m, NEW v, NEW w,
         Survive(s, u, k), Outcome(s, u, v), m \subseteq k,
         \A f \in Files : \A r : Has(x, y, f, r) => Has(s, u, f, r) \/ r = w[f],
         \A e \in Lost(v, w) : e \in Files /\ e \notin m /\ ChildrenIn(v[e].slots) = {}
  PROVE  Survive(x, y, m)
<1> SUFFICES ASSUME NEW z, NEW S, Outcome(x, y, z), Closed(z, S) PROVE m \subseteq S
  BY DEF Survive
<1> DEFINE a == [g \in Files |-> IF g \in Lost(v, w) \/ ~Has(s, u, g, z[g]) THEN v[g] ELSE z[g]]
           T == S \cup Lost(v, w)
<1>1. S \subseteq Files /\ Root \in S /\ \A d \in S : ChildrenIn(z[d].slots) \subseteq S
  BY DEF Closed
<1>2. Outcome(s, u, a)
  BY DEF Outcome
<1>3. ASSUME NEW d \in T PROVE ChildrenIn(a[d].slots) \subseteq T
  <2>1. d \in Files
    BY <1>1
  <2>2. CASE d \in Lost(v, w)
    <3>1. a[d] = v[d]
      BY <2>1, <2>2
    <3> QED
      BY <2>2, <3>1
  <2>3. CASE d \notin Lost(v, w) /\ ~Has(s, u, d, z[d])
    <3>1. a[d] = v[d] /\ z[d] = w[d] /\ d \in S
      BY <2>1, <2>3 DEF Outcome
    <3>2. ChildrenIn(v[d].slots) \ ChildrenIn(w[d].slots) \subseteq Lost(v, w)
      BY <2>1 DEF Lost
    <3>3. ChildrenIn(w[d].slots) \subseteq S
      BY <1>1, <3>1
    <3> QED
      BY <3>1, <3>2, <3>3
  <2>4. CASE d \notin Lost(v, w) /\ Has(s, u, d, z[d])
    <3>1. a[d] = z[d] /\ d \in S
      BY <2>1, <2>4
    <3> QED
      BY <1>1, <3>1
  <2> QED
    BY <2>2, <2>3, <2>4
<1>4. Closed(a, T)
  BY <1>1, <1>3 DEF Closed
<1>5. k \subseteq T
  <2> HIDE DEF a, T
  <2> QED BY <1>2, <1>4 DEF Survive
<1> QED
  BY <1>5

\* A log that no log names is begun: no walk went through it.
LEMMA MakeKeeps ==
  ASSUME NEW s, NEW u, NEW k, NEW x, NEW y, NEW m, NEW f \in Files,
         Survive(s, u, k), m \subseteq k, f # Root,
         \A d \in Files : \A r : Has(s, u, d, r) => f \notin ChildrenIn(r.slots),
         \A d \in Files : d # f => \A r : Has(x, y, d, r) => Has(s, u, d, r)
  PROVE  Survive(x, y, m)
<1> SUFFICES ASSUME NEW z, NEW S, Outcome(x, y, z), Closed(z, S) PROVE m \subseteq S
  BY DEF Survive
<1> DEFINE a == [g \in Files |-> IF g = f THEN s[f] ELSE z[g]]
           T == S \ {f}
<1>1. S \subseteq Files /\ Root \in S /\ \A d \in S : ChildrenIn(z[d].slots) \subseteq S
  BY DEF Closed
<1>2. \A g \in Files : Has(s, u, g, a[g])
  <2>1. Has(s, u, f, s[f])
    BY DEF Has
  <2> QED
    BY <2>1 DEF Outcome
<1>3. Outcome(s, u, a)
  BY <1>2 DEF Outcome
<1>4. ASSUME NEW d \in T PROVE ChildrenIn(a[d].slots) \subseteq T
  <2>1. d \in Files /\ d \in S /\ a[d] = z[d]
    BY <1>1
  <2>2. f \notin ChildrenIn(a[d].slots)
    BY <1>2, <2>1
  <2> QED
    BY <1>1, <2>1, <2>2
<1>5. Closed(a, T)
  BY <1>1, <1>4 DEF Closed
<1>6. k \subseteq T
  <2> HIDE DEF a, T
  <2> QED BY <1>3, <1>5 DEF Survive
<1> QED
  BY <1>6

\* A rename clears the old name: where the new path does not lead through it or to it,
\* the file is still at the end of the new path.
LEMMA NewWayStays ==
  ASSUME DirInv, TreeInv, UniqueNames, NEW t \in Threads, RemoveClears(t), call[t].op = "rename",
         ~NewNameUnsafe(call[t]), \A d \in Files : Sound(view'[d]),
         NEW S, Closed(view', S)
  PROVE  call[t].ent \in S
<1> DEFINE c == call[t]
           q == c.q
           old == Last(c.p)
<1>1. /\ Clears(view, view', c.dir, c.at, old, c.ent)
      /\ c.ent = c.file /\ Leads(view, q, Len(q), c.file)
  BY ClearFacts
<1>2. q \in Seq(Names) /\ Len(q) \in Nat
  BY KnowFacts
<1>3. \A k \in DOMAIN q : ~(Resolve(SubSeq(q, 1, k - 1)) = c.dir /\ q[k] = old)
  BY DEF NewNameUnsafe
<1>4. \A e \in Files : \A m, g :
        Edge(view', e, m, g) <=> <<e, m>> # <<c.dir, old>> /\ Edge(view, e, m, g)
  BY <1>1, ClearEdges
<1>5. S \subseteq Files /\ Root \in S /\ \A d \in S : ChildrenIn(view'[d].slots) \subseteq S
  BY DEF Closed
<1> HIDE DEF c, q, old
<1>6. PICK way : Way(view, q, Len(q), way) /\ way[Len(q)] = c.file
  BY <1>1 DEF Leads
<1>7. /\ way \in [0 .. Len(q) -> Files] /\ way[0] = Root
      /\ \A i \in 1 .. Len(q) : Edge(view, way[i - 1], q[i], way[i])
  BY <1>6 DEF Way
<1>8. ASSUME NEW k \in 0 .. Len(q) - 1, way[k] \in S PROVE way[k + 1] \in S
  <2>1. PICK p : p = SubSeq(q, 1, k)
    OBVIOUS
  <2>2. p \in Seq(Names) /\ Len(p) = k /\ \A i \in 1 .. k : p[i] = q[i]
    <3>1. \A i \in 1 .. k : q[i] \in Names
      BY <1>2
    <3>2. /\ SubSeq(q, 1, k) \in Seq(Names) /\ Len(SubSeq(q, 1, k)) = k
          /\ \A i \in 1 .. k : SubSeq(q, 1, k)[i] = q[i]
      BY <1>2, <3>1, SubSeqProperties
    <3> QED
      BY <2>1, <3>2
  <2>3. PICK part : part = [i \in 0 .. k |-> way[i]]
    OBVIOUS
  <2>4. /\ part \in [0 .. k -> Files] /\ part[0] = Root /\ part[k] = way[k]
        /\ \A i \in 1 .. k : part[i - 1] = way[i - 1] /\ part[i] = way[i]
    <3>1. /\ 0 \in 0 .. k /\ k \in 0 .. k /\ \A i \in 0 .. k : i \in 0 .. Len(q)
          /\ \A i \in 1 .. k : i - 1 \in 0 .. k /\ i \in 0 .. k
      BY <1>2
    <3>2. \A i \in 0 .. k : part[i] = way[i] /\ way[i] \in Files
      BY <1>7, <2>3, <3>1
    <3> QED
      BY <1>7, <2>3, <3>1, <3>2
  <2>5. Way(view, p, k, part)
    <3>1. \A i \in 1 .. k : i \in 1 .. Len(q)
      BY <1>2
    <3>2. \A i \in 1 .. k : Edge(view, part[i - 1], p[i], part[i])
      BY <1>7, <2>2, <2>4, <3>1
    <3> QED
      BY <2>4, <3>2 DEF Way
  <2>6. Resolve(p) = way[k]
    BY <2>2, <2>4, <2>5, ResolveLeads DEF Leads
  <2>7. k + 1 \in DOMAIN q /\ k + 1 \in 1 .. Len(q) /\ k + 1 - 1 = k
    BY <1>2, LenProperties
  <2>8. Edge(view, way[k], q[k + 1], way[k + 1])
    BY <1>7, <2>7
  <2>9. ~(way[k] = c.dir /\ q[k + 1] = old)
    BY <1>3, <2>1, <2>6, <2>7
  <2>10. Edge(view', way[k], q[k + 1], way[k + 1])
    BY <1>4, <1>5, <1>8, <2>8, <2>9
  <2>11. way[k + 1] \in ChildrenIn(view'[way[k]].slots)
    BY <1>5, <1>8, <2>10, ChildIsNamed
  <2> QED
    BY <1>5, <1>8, <2>11
<1> DEFINE T == {k \in 0 .. Len(q) : way[k] \in S}
<1>9. 0 \in T /\ \A k \in 0 .. Len(q) - 1 : k \in T => k + 1 \in T
  BY <1>2, <1>5, <1>7, <1>8
<1>10. \A k \in 0 .. Len(q) : k \in T
  <2> HIDE DEF T
  <2> QED BY <1>2, <1>9, UpTo
<1>11. way[Len(q)] \in S
  BY <1>2, <1>10
<1> QED
  BY <1>1, <1>6, <1>11 DEF c

LEMMA RenameClearKeeps ==
  ASSUME KeptInv, NEW t \in Threads, RemoveClears(t), call[t].op = "rename",
         ~NewNameUnsafe(call[t]), ~split, \A d \in Files : Sound(view'[d]),
         \A f \in Files : \A r :
           Has(saved', unsaved', f, r) => Has(saved, unsaved, f, r) \/ r = view'[f]
  PROVE  Survive(saved', unsaved', kept)
<1> SUFFICES ASSUME NEW z, NEW S, Outcome(saved', unsaved', z), Closed(z, S)
             PROVE  kept \subseteq S
  BY DEF Survive
<1> DEFINE c == call[t]
           old == Last(c.p)
<1>1. DirInv /\ TreeInv /\ UniqueNames /\ (\A d \in Files : Sound(view[d]))
  BY DEF KeptInv, LogTree, FullInv, TreeInv
<1>2. Survive(saved, unsaved, kept) /\ Outcome(saved, unsaved, view)
  BY NowIsOutcome DEF KeptInv, LogTree, LogInv
<1>3. Clears(view, view', c.dir, c.at, old, c.ent)
  BY <1>1, ClearFacts
<1>4. /\ c.dir \in Files /\ c.ent \in Files /\ Edge(view, c.dir, old, c.ent)
      /\ \A e \in Files : \A m, g :
           Edge(view', e, m, g) <=> <<e, m>> # <<c.dir, old>> /\ Edge(view, e, m, g)
  BY <1>3, ClearEdges
<1>5. \A e \in Files : e # c.dir => view'[e] = view[e]
  BY <1>3 DEF Clears, Puts
<1>6. ASSUME NEW g \in Files, g # c.dir PROVE z[g] = view[g]
  <2>1. unsaved[g] = << >>
    BY <1>6 DEF NewNameUnsafe
  <2>2. view[g] = saved[g]
    BY <2>1 DEF KeptInv, LogTree, LogInv, UpToDate, Latest
  <2>3. Has(saved, unsaved, g, z[g]) \/ z[g] = view'[g]
    BY DEF Outcome
  <2>4. Has(saved, unsaved, g, z[g]) => z[g] = saved[g]
    BY <2>1 DEF Has
  <2> QED
    BY <1>5, <1>6, <2>2, <2>3, <2>4
<1>7. CASE Has(saved, unsaved, c.dir, z[c.dir])
  <2>1. Outcome(saved, unsaved, z)
    BY <1>2, <1>6, <1>7 DEF Outcome
  <2> QED
    BY <1>2, <2>1 DEF Survive
<1>8. CASE z[c.dir] = view'[c.dir]
  <2>1. \A g \in Files : z[g] = view'[g]
    BY <1>5, <1>6, <1>8
  <2>2. Closed(view', S)
    BY <2>1 DEF Closed
  <2>3. c.ent \in S
    BY <1>1, <2>2, NewWayStays
  <2>4. S \subseteq Files /\ Root \in S /\ \A d \in S : ChildrenIn(view'[d].slots) \subseteq S
    BY <2>2 DEF Closed
  <2> HIDE DEF c, old
  <2>5. ASSUME NEW d \in S, NEW e \in ChildrenIn(view[d].slots) PROVE e \in S
    <3>1. PICK m : Edge(view, d, m, e)
      BY <1>1, <2>4, ChildIsNamed
    <3>2. CASE <<d, m>> # <<c.dir, old>>
      <4>1. Edge(view', d, m, e)
        BY <1>4, <2>4, <3>1, <3>2
      <4>2. e \in ChildrenIn(view'[d].slots)
        BY <2>4, <4>1, ChildIsNamed
      <4> QED
        BY <2>4, <4>2
    <3>3. CASE d = c.dir /\ m = old
      <4>1. Unique(view[d].slots)
        BY <1>1, <2>4 DEF Sound
      <4>2. e = c.ent
        BY <1>4, <3>1, <3>3, <4>1, EdgeOne
      <4> QED
        BY <2>3, <4>2
    <3> QED
      BY <3>2, <3>3
  <2>6. Closed(view, S)
    BY <2>4, <2>5 DEF Closed
  <2> QED
    BY <1>2, <2>6 DEF Survive
<1> QED
  BY <1>4, <1>7, <1>8 DEF Outcome

\* The files that lose a name to another step than that are bare.
LEMMA LostIsBare ==
  ASSUME DirInv, TreeInv, UniqueNames, NamesKnown, NEW t \in Threads, Step(t),
         \A d \in Files : Sound(view'[d]), ~MakesFile(t),
         ~(RemoveClears(t) /\ call[t].op = "rename"), NEW e \in Lost(view, view')
  PROVE  e \in Files /\ ChildrenIn(view[e].slots) = {} /\ ~Quiet(view, view')
<1> DEFINE c == call[t]
<1>1. \A d \in Files : Sound(view[d]) /\ Unique(view[d].slots)
  BY DEF TreeInv, Sound
<1>2. PICK d \in Files : e \in ChildrenIn(view[d].slots) /\ e \notin ChildrenIn(view'[d].slots)
  BY DEF Lost
<1>3. PICK m : Edge(view, d, m, e)
  BY <1>1, <1>2, ChildIsNamed
<1>4. ~Edge(view', d, m, e)
  BY <1>2, ChildIsNamed
<1>5. e \in Files
  BY <1>3, EdgeFile DEF DirInv
<1>6. ~Quiet(view, view')
  BY <1>2 DEF Quiet
<1>7. AddsName(t) \/ ClearsName(t)
  BY <1>6, StepKinds
<1>8. Bare(view, e)
  <2>1. CASE AddsName(t)
    <3>1. PICK n : n = Subject(c)
      OBVIOUS
    <3>2. Adds(view, view', c.dir, c.at, n, c.file)
      BY <2>1, <3>1 DEF AddsName
    <3>3. \A b \in Files : \A o, g :
            Edge(view', b, o, g) <=> \/ <<b, o>> # <<c.dir, n>> /\ Edge(view, b, o, g)
                                     \/ <<b, o>> = <<c.dir, n>> /\ g = c.file
      BY <3>2, AddEdges
    <3>4. <<d, m>> = <<c.dir, n>>
      BY <1>3, <1>4, <3>3
    <3> QED
      BY <1>3, <1>5, <3>2, <3>4 DEF Adds
  <2>2. CASE ClearsName(t)
    <3>1. RemoveClears(t) /\ c.op # "rename"
      BY <2>2 DEF ClearsName
    <3>2. PICK n : n = Last(c.p)
      OBVIOUS
    <3>3. Clears(view, view', c.dir, c.at, n, c.ent) /\ Bare(view, c.ent)
      BY <3>1, <3>2, ClearFacts
    <3>4. /\ Edge(view, c.dir, n, c.ent)
          /\ \A b \in Files : \A o, g :
               Edge(view', b, o, g) <=> <<b, o>> # <<c.dir, n>> /\ Edge(view, b, o, g)
      BY <3>3, ClearEdges
    <3>5. d = c.dir /\ m = n
      BY <1>3, <1>4, <3>4
    <3>6. e = c.ent
      BY <1>1, <1>3, <3>4, <3>5, EdgeOne
    <3> QED
      BY <3>3, <3>6
  <2> QED
    BY <1>7, <2>1, <2>2
<1> QED
  BY <1>1, <1>5, <1>6, <1>8, ChildIsNamed

LEMMA OperateKeeps ==
  ASSUME OneAtATime, KeptInv, Operate
  PROVE  KeptInv'
<1>1. PICK t \in Threads :
        /\ Step(t) /\ Appends
        /\ kept' = IF call[t].op = "rename" /\ call[t].pc # "add" THEN kept
                   ELSE kept \ UNION {Children(view)[d] \ Children(view')[d] : d \in Files}
        /\ split' = (split \/ (ClearsOldName(t) /\ NewNameUnsafe(call[t])))
  BY DEF Operate
<1>2. LogTree'
  BY <1>1, OperateTree DEF KeptInv
<1> SUFFICES ASSUME ~split' PROVE Survive(saved', unsaved', kept')
  BY <1>2 DEF KeptInv
<1>3. ~split /\ ~(ClearsOldName(t) /\ NewNameUnsafe(call[t]))
  BY <1>1
<1>4. DirInv /\ OwnOps /\ TreeInv /\ UniqueNames /\ NamesKnown
  BY DEF KeptInv, LogTree, FullInv
<1>5. /\ Survive(saved, unsaved, kept) /\ Outcome(saved, unsaved, view)
      /\ Typed(saved, unsaved, Good)
  BY <1>3, NowIsOutcome DEF KeptInv, LogTree, LogInv
<1>6. \A d \in Files : Sound(view'[d])
  BY <1>1, <1>4, SoundStep
<1>7. view' \in [Files -> Good]
  BY <1>2, ViewGood DEF LogTree, LogInv, DirInv
<1>8. kept' = IF call[t].op = "rename" /\ call[t].pc # "add" THEN kept
              ELSE kept \ Lost(view, view')
  BY <1>1 DEF Children, Lost
<1>9. Grown(Made, view, view', saved, unsaved, saved', unsaved')
  BY <1>1, OperateGrown
<1>10. kept' \subseteq kept
  BY <1>8
<1>11. CASE MakesFile(t)
  <2>1. PICK f \in Files : f = call'[t].file /\ Makes(view, view', f)
    BY <1>11 DEF MakesFile
  <2>2. Made = {f}
    BY <1>1, <1>4, <1>11, <2>1, MadeByCreate
  <2>3. f # Root /\ \A d \in Files : d # f => view'[d] = view[d]
    BY <2>1 DEF Makes
  <2>4. InNoLog(f)
    BY <1>1, <2>2 DEF Appends
  <2>5. \A d \in Files : \A r : Has(saved, unsaved, d, r) => f \notin ChildrenIn(r.slots)
    BY <2>4 DEF InNoLog, Has
  <2>6. ASSUME NEW d \in Files, d # f, NEW r, Has(saved', unsaved', d, r)
        PROVE  Has(saved, unsaved, d, r)
    <3>1. d \notin Made
      BY <2>2, <2>6
    <3> QED
      BY <1>5, <1>7, <1>9, <2>3, <2>6, <3>1, GrownHas
  <2> QED
    BY <1>5, <1>10, <2>3, <2>5, <2>6, MakeKeeps
<1>12. CASE ~MakesFile(t)
  <2>1. Made = {}
    BY <1>1, <1>4, <1>12, MadeByCreate
  <2>2. ASSUME NEW f \in Files, NEW r, Has(saved', unsaved', f, r)
        PROVE  Has(saved, unsaved, f, r) \/ r = view'[f]
    BY <1>5, <1>7, <1>9, <2>1, <2>2, GrownHas
  <2>3. CASE RemoveClears(t) /\ call[t].op = "rename"
    <3>1. call[t].pc = "clear"
      BY <2>3 DEF RemoveClears, Does
    <3>2. kept' = kept /\ ~NewNameUnsafe(call[t])
      BY <1>3, <1>8, <2>3, <3>1 DEF ClearsOldName
    <3> QED
      BY <1>3, <1>6, <2>2, <2>3, <3>2, RenameClearKeeps
  <2>4. CASE ~(RemoveClears(t) /\ call[t].op = "rename")
    <3>1. ASSUME NEW e \in Lost(view, view')
          PROVE  e \in Files /\ e \notin kept' /\ ChildrenIn(view[e].slots) = {}
      <4>1. e \in Files /\ ChildrenIn(view[e].slots) = {} /\ ~Quiet(view, view')
        BY <1>1, <1>4, <1>6, <1>12, <2>4, LostIsBare
      <4>2. AddsName(t) \/ ClearsName(t)
        BY <1>1, <1>4, <1>12, <4>1, StepKinds
      <4>3. call[t].op = "rename" => call[t].pc = "add"
        <5>1. AddsName(t) => call[t].pc = "add"
          BY DEF AddsName, CreateAdds, RenameAdds, Does
        <5>2. ClearsName(t) => call[t].op # "rename"
          BY <2>4 DEF ClearsName
        <5> QED
          BY <4>2, <5>1, <5>2
      <4> QED
        BY <1>8, <4>1, <4>3
    <3> QED
      BY <1>5, <1>10, <2>2, <3>1, LosesBare
  <2> QED
    BY <2>3, <2>4
<1> QED
  BY <1>11, <1>12

LEMMA KeptSame ==
  ASSUME KeptInv, UNCHANGED allVars
  PROVE  KeptInv'
<1>1. saved' = saved /\ unsaved' = unsaved /\ kept' = kept /\ split' = split
  BY DEF allVars, logs
<1> QED
  BY <1>1, TreeSame DEF KeptInv

LEMMA KeptInit == InitLogs => KeptInv
<1> SUFFICES ASSUME InitLogs PROVE KeptInv
  OBVIOUS
<1>1. LogTree /\ kept = {Root}
  BY TreeInit DEF InitLogs
<1> QED
  BY <1>1 DEF KeptInv, Survive, Closed

\* A file whose name had reached the logs, and that nobody removed, is reachable from
\* the root after any number of operations, acknowledgements in any order of the logs,
\* crashes and restarts, until a rename clears the old name while another directory
\* has appends under way or along the very path that it gave the file, and while no two
\* threads change names at a time.
THEOREM FilesSurvive == SpecLogs /\ []OneAtATime => []SavedFilesSurvive
<1>1. OneAtATime /\ KeptInv /\ [NextLogs]_allVars => KeptInv'
  BY OperateKeeps, AcknowledgeKeeps, CrashKeeps, KeptSame DEF NextLogs
<1>2. KeptInv => SavedFilesSurvive
  BY SurviveMeans
<1> QED
  BY <1>1, <1>2, KeptInit, PTL DEF SpecLogs

LEMMA OwnOpsLogs == SpecLogs => []OwnOps
<1>1. InitLogs => OwnOps
  BY FullInit DEF InitLogs, FullInv
<1>2. LogInv /\ OwnOps /\ [NextLogs]_allVars => OwnOps'
  <2> SUFFICES ASSUME LogInv, OwnOps, [NextLogs]_allVars PROVE OwnOps'
    OBVIOUS
  <2>1. CASE Operate
    BY <2>1, OwnOpsStep DEF Operate, LogInv
  <2>2. CASE Crash
    BY <2>2 DEF Crash, OwnOps, Idle
  <2>3. CASE Acknowledge \/ UNCHANGED allVars
    <3>1. call' = call
      BY <2>3, AcknowledgeTakes DEF allVars, vars
    <3> QED
      BY <3>1 DEF OwnOps
  <2> QED
    BY <2>1, <2>2, <2>3 DEF NextLogs
<1> QED
  BY <1>1, <1>2, LogAlways, PTL DEF SpecLogs

\* Both hold outright where one thread is asked for all that changes names: what
\* DirectoryCrash checks, with any number of threads that only look.
THEOREM OneMutatorSurvives ==
  ASSUME OneMutator
  PROVE  SpecLogs => OperationsKeepNamespace /\ []SavedFilesSurvive
<1>1. OwnOps => OneAtATime
  BY OneMutatorBusy
<1> QED
  BY <1>1, OwnOpsLogs, OperationsKeepTree, FilesSurvive, PTL
=============================================================================
