---------------------- MODULE DirectoryMutationsProofs ----------------------
(***************************************************************************)
(* Theorems about DirectoryMutations, for all names, inode numbers and     *)
(* programs of renames, captures and mkdirs, whatever other programs do.   *)
(*                                                                         *)
(* The invariant Inv has one part for each of the actors' variables        *)
(* (WorkerInv, RecoveryInv), one for the file system (TreeInv), and two    *)
(* that relate them: no recovery runs beside a worker that still has its   *)
(* lease (LeaseInv), and what is about to be recorded as recovered is      *)
(* undone (UndoneInv).                                                     *)
(***************************************************************************)
EXTENDS DirectoryMutations, FiniteSetTheorems, SequenceTheorems,
        WellFoundedInduction, TLAPS

-----------------------------------------------------------------------------
(* The invariant *)

\* A file system f at time t: nothing is known of a name that is free, and no
\* two entries have one inode number.
IsTree(f, t) ==
    /\ f \in [Paths -> Entries] /\ t \in Nat
    /\ \A p \in Paths :
          IF f[p].kind = "absent" THEN f[p] = Nothing
          ELSE f[p].kind \in {"file", "directory"} /\ f[p].ino \in Inodes /\ f[p].id \in 1..t
    /\ \A p, q \in Paths : f[p].kind # "absent" /\ p # q => f[p].ino # f[q].ino
TreeInv == IsTree(fs, time)

\* Between two steps of its program a worker may be at the end of it.
Between == {"begin", "rollback", "clean", "ended", "done"}
WorkerInv ==
    /\ worker \in Workers
    /\ worker.step \in 1..Len(program) + 1
    /\ worker.pc \notin Between => worker.step \in Steps

\* The actions of a plan are about steps of the program, and a move is undone
\* by one action.
Busy == {"check", "act", "verify"}
PlanOK(plan) ==
    \A k \in 1..Len(plan) :
        /\ plan[k].step \in Steps
        /\ plan[k].do \in {"rename", "capture"} => Moves(plan[k].step)
RecoveryInv(r) ==
    /\ recovery[r] \in Recoveries
    /\ PlanOK(recovery[r].plan)
    /\ recovery[r].pc \in Busy =>
          /\ recovery[r].at \in Steps
          /\ Moves(recovery[r].at) =>
                \/ recovery[r].plan = <<>>
                \/ /\ Len(recovery[r].plan) = 1
                   /\ Current(r).step = recovery[r].at /\ Current(r).do # "remove"
    /\ recovery[r].pc \in {"act", "verify"} => recovery[r].plan # <<>> /\ Current(r).do # "manual"

\* Only a worker that has ended, or has lost its lease, is recovered from.
Recovered == {"recovering", "recovered", "recovery_failed"}
LeaseInv ==
    /\ leased => recovery["workspace"].pc = "idle"
    /\ recovery["rollback"].pc # "idle" => worker.pc = "ended"
    /\ leased /\ worker.pc # "ended" => \A i \in Steps : batch[i].phase \notin Recovered

\* A move that is recovered, or only has to be recorded so, has left its target.
Finishing(i) ==
    \/ batch[i].phase = "recovered"
    \/ \E r \in Actors : recovery[r].pc = "check" /\ recovery[r].at = i /\ recovery[r].plan = <<>>
Unchained(i) == Moves(i) /\ \A j \in Steps : Moves(j) => Path(j) # Target(i)
Undone(i) ==
    moved[i] # 0 /\ moved[i] \notin touched /\ ~late => fs[Target(i)].id # moved[i]
UndoneInv == \A i \in Steps : Unchained(i) /\ Finishing(i) => Undone(i)

BoundsInv ==
    /\ program \in Programs /\ platform \in Platforms
    /\ leased \in BOOLEAN /\ late \in BOOLEAN
    /\ outside \in 0..MaxOutside /\ crashes \in 0..MaxCrashes
HistoryInv ==
    /\ moved \in [Steps -> 0..time] /\ restored \in [Steps -> 0..time]
    /\ removed \subseteq 1..time /\ touched \subseteq 1..time
BatchInv == batch \in [Steps -> Batches]
RecoveriesInv == recovery \in [Actors -> Recoveries] /\ \A r \in Actors : RecoveryInv(r)

Inv ==
    /\ TreeInv /\ WorkerInv /\ BatchInv /\ RecoveriesInv
    /\ BoundsInv /\ HistoryInv
    /\ LeaseInv /\ UndoneInv

-----------------------------------------------------------------------------
(* Finite sets of numbers *)

\* How many members of S are newer than x.
Newer(S, x) == {y \in S : y > x}
Rank(S, x) == Cardinality(Newer(S, x))

LEMMA LeastNumber ==
  ASSUME NEW S \in SUBSET Nat, S # {}
  PROVE  \E x \in S : \A y \in S : x <= y
<1>1. \E x \in S : \A y \in S : ~ (<<y, x>> \in OpToRel(<, Nat))
  BY NatLessThanWellFounded, WFMin
<1>2. PICK x \in S : \A y \in S : <<y, x>> \notin OpToRel(<, Nat)
  BY <1>1
<1>3. ASSUME NEW y \in S PROVE x <= y
  <2>1. x \in Nat /\ y \in Nat
    OBVIOUS
  <2>2. ~(y < x)
    BY <1>2, <2>1 DEF OpToRel
  <2> QED
    BY <2>1, <2>2
<1> QED
  BY <1>3

LEMMA NewerMembers ==
  ASSUME NEW S \in SUBSET Nat, NEW x, NEW y
  PROVE  y \in Newer(S, x) <=> y \in S /\ x < y
BY DEF Newer

LEMMA RankType ==
  ASSUME NEW S \in SUBSET Nat, IsFiniteSet(S), NEW x \in S
  PROVE  IsFiniteSet(Newer(S, x)) /\ Rank(S, x) \in Nat
<1>1. Newer(S, x) \in SUBSET S
  BY DEF Newer
<1> QED
  BY <1>1, FS_Subset, FS_CardinalityType DEF Rank

LEMMA RankFalls ==
  ASSUME NEW S \in SUBSET Nat, IsFiniteSet(S), NEW x \in S, NEW y \in S, x < y
  PROVE  Rank(S, y) < Rank(S, x)
<1>1. /\ IsFiniteSet(Newer(S, x)) /\ Rank(S, x) \in Nat
      /\ IsFiniteSet(Newer(S, y)) /\ Rank(S, y) \in Nat
  BY RankType
<1>2. Newer(S, y) \in SUBSET Newer(S, x) /\ y \in Newer(S, x) /\ y \notin Newer(S, y)
  <2>1. x \in Nat /\ y \in Nat /\ \A z \in S : z \in Nat
    OBVIOUS
  <2>2. ASSUME NEW z \in Newer(S, y) PROVE z \in Newer(S, x)
    <3>1. z \in S /\ y < z
      BY NewerMembers
    <3>2. x < z
      BY <2>1, <3>1
    <3> QED
      BY <3>1, <3>2, NewerMembers
  <2>3. y \in Newer(S, x)
    BY NewerMembers
  <2>4. y \notin Newer(S, y)
    BY <2>1, NewerMembers
  <2> QED
    BY <2>2, <2>3, <2>4
<1>3. Rank(S, y) <= Rank(S, x) /\ Rank(S, y) # Rank(S, x)
  BY <1>1, <1>2, FS_Subset DEF Rank
<1> QED
  BY <1>1, <1>3

\* A finite set of numbers that is not empty has a largest member.
LEMMA MaxOf ==
  ASSUME NEW S \in SUBSET Nat, IsFiniteSet(S), S # {}
  PROVE  Max(S) \in S /\ \A y \in S : y <= Max(S)
<1> DEFINE D == {Rank(S, x) : x \in S}
<1>1. D \in SUBSET Nat /\ D # {}
  <2>1. PICK x \in S : TRUE
    OBVIOUS
  <2>2. Rank(S, x) \in D
    OBVIOUS
  <2> QED
    BY <2>2, RankType
<1>2. PICK n \in D : \A m \in D : n <= m
  BY <1>1, LeastNumber
<1>3. PICK x \in S : n = Rank(S, x)
  BY <1>2
<1>4. ASSUME NEW y \in S PROVE y <= x
  <2>1. x \in Nat /\ y \in Nat /\ Rank(S, x) \in Nat /\ Rank(S, y) \in Nat
    BY RankType
  <2>2. Rank(S, x) <= Rank(S, y)
    BY <1>2, <1>3
  <2>3. ~(x < y)
    BY <2>1, <2>2, RankFalls
  <2> QED
    BY <2>1, <2>3
<1>5. \E z \in S : \A y \in S : z >= y
  <2>1. x \in Nat /\ \A y \in S : y \in Nat
    OBVIOUS
  <2> QED
    BY <1>4, <2>1
<1>6. Max(S) \in S /\ \A y \in S : Max(S) >= y
  BY <1>5 DEF Max
<1>7. Max(S) \in Nat /\ \A y \in S : y \in Nat
  BY <1>6
<1> QED
  BY <1>6, <1>7

\* Every rank below the size of the set is that of some member.
LEMMA RanksAreTaken ==
  ASSUME NEW S \in SUBSET Nat, IsFiniteSet(S), NEW n \in Nat, n < Cardinality(S)
  PROVE  \E x \in S : Rank(S, x) = n
<1>0. Cardinality(S) \in Nat
  BY FS_CardinalityType
<1> DEFINE Free == {m \in Nat : m < Cardinality(S) /\ \A x \in S : Rank(S, x) # m}
<1>1. SUFFICES ASSUME Free # {} PROVE FALSE
  OBVIOUS
<1>2. PICK m \in Free : \A k \in Free : m <= k
  BY <1>1, LeastNumber
<1>3. CASE m = 0
  <2>1. S # {}
    BY <1>2, <1>3, FS_EmptySet
  <2>2. Max(S) \in S /\ \A y \in S : y <= Max(S)
    BY <2>1, MaxOf
  <2>3. Max(S) \in Nat /\ \A y \in S : y \in Nat
    BY <2>2
  <2>4. ASSUME NEW y \in Newer(S, Max(S)) PROVE FALSE
    <3>1. y \in S /\ Max(S) < y
      BY NewerMembers
    <3> QED
      BY <2>2, <2>3, <3>1
  <2>5. Newer(S, Max(S)) = {}
    BY <2>4
  <2> QED
    BY <1>2, <1>3, <2>2, <2>5, FS_EmptySet DEF Rank
<1>4. CASE m # 0
  <2>1. m \in Nat /\ m - 1 \in Nat /\ m - 1 < Cardinality(S) /\ ~(m <= m - 1)
    BY <1>0, <1>2, <1>4
  <2>2. PICK j \in S : Rank(S, j) = m - 1
    BY <1>2, <2>1
  <2> DEFINE T == {l \in S : l < j}
  <2>3. /\ IsFiniteSet(Newer(S, j) \cup {j})
        /\ Cardinality(Newer(S, j) \cup {j}) = m
    <3>1. j \notin Newer(S, j)
      <4>1. j \in Nat
        OBVIOUS
      <4> QED
        BY <4>1 DEF Newer
    <3>2. IsFiniteSet(Newer(S, j)) /\ Cardinality(Newer(S, j)) = m - 1
      BY <2>2, RankType DEF Rank
    <3> QED
      BY <3>1, <3>2, <2>1, FS_AddElement
  <2>4. CASE T = {}
    <3>1. \A l \in S : l \in Nat /\ ~(l < j)
      BY <2>4
    <3>2. j \in Nat
      OBVIOUS
    <3>3. \A l \in S : l \in Newer(S, j) \/ l = j
      BY <3>1, <3>2, NewerMembers
    <3>4. \A l \in Newer(S, j) : l \in S
      BY NewerMembers
    <3>5. S = Newer(S, j) \cup {j}
      BY <3>3, <3>4
    <3> QED
      BY <2>3, <3>5, <1>2, <2>1
  <2>5. CASE T # {}
    <3>1. T \in SUBSET Nat /\ T \in SUBSET S
      OBVIOUS
    <3>2. IsFiniteSet(T)
      BY <3>1, FS_Subset
    <3>3. Max(T) \in T /\ \A l \in T : l <= Max(T)
      BY <3>1, <3>2, <2>5, MaxOf
    <3>4. PICK k \in S : k < j /\ \A l \in S : l < j => l <= k
      BY <3>3
    <3>5. Newer(S, k) = Newer(S, j) \cup {j}
      <4>1. j \in Nat /\ k \in Nat /\ \A l \in S : l \in Nat
        OBVIOUS
      <4>2. \A l \in S : k < l <=> l = j \/ j < l
        BY <3>4, <4>1
      <4>3. \A l : l \in Newer(S, k) <=> l = j \/ l \in Newer(S, j)
        BY <4>2, NewerMembers
      <4> QED
        BY <4>3
    <3> QED
      BY <3>5, <2>3, <1>2 DEF Rank
  <2> QED
    BY <2>4, <2>5
<1> QED
  BY <1>3, <1>4

-----------------------------------------------------------------------------
(* Constants, programs and entries *)

LEMMA InodeTypes ==
  /\ Inodes \subseteq Nat /\ IsFiniteSet(Inodes) /\ Inodes # {} /\ 0 \notin Inodes
  /\ Max(Inodes) \in Nat /\ \A n \in Inodes : n \in 1..Max(Inodes)
<1>1. Inodes \subseteq Nat /\ IsFiniteSet(Inodes) /\ Inodes # {} /\ \A n \in Inodes : n # 0
  BY DirectoryMutationsAssumption
<1>2. Max(Inodes) \in Inodes /\ \A n \in Inodes : n <= Max(Inodes)
  BY <1>1, MaxOf
<1>3. Max(Inodes) \in Nat
  BY <1>1, <1>2
<1>4. ASSUME NEW n \in Inodes PROVE n \in 1..Max(Inodes)
  <2>1. n \in Nat /\ n # 0 /\ n <= Max(Inodes)
    BY <1>1, <1>2
  <2> QED
    BY <1>3, <2>1
<1> QED
  BY <1>1, <1>3, <1>4

LEMMA ProgramTypes ==
  ASSUME program \in Programs
  PROVE  /\ Len(program) \in Nat /\ Steps \in SUBSET Nat /\ IsFiniteSet(Steps)
         /\ \A i \in Steps : program[i].op \in Operations /\ Path(i) \in Paths /\ Target(i) \in Paths
<1>1. program \in Seq([op : Operations, path : Paths, to : Paths])
  BY DirectoryMutationsAssumption
<1>2. Len(program) \in Nat
  BY <1>1
<1>3. IsFiniteSet(Steps)
  BY <1>2, FS_Interval DEF Steps
<1>4. \A i \in Steps : program[i] \in [op : Operations, path : Paths, to : Paths]
  BY <1>1, ElementOfSeq DEF Steps
<1> QED
  BY <1>2, <1>3, <1>4 DEF Steps, Path, Target

\* The steps stay what they are.
LEMMA SameProgram ==
  ASSUME UNCHANGED setting
  PROVE  /\ Steps' = Steps /\ Recoveries' = Recoveries
         /\ \A i : /\ Moves(i)' = Moves(i) /\ Path(i)' = Path(i) /\ Target(i)' = Target(i)
                   /\ Unchained(i)' = Unchained(i)
BY DEF setting, Steps, Recoveries, Moves, Path, Target, Unchained

LEMMA EntryTypes ==
  /\ Nothing \in Entries /\ Unseen \in Entries
  /\ Nothing.kind = "absent" /\ Nothing.id = 0 /\ Nothing.ino = 0 /\ Nothing.filled = FALSE
  /\ NoBatch \in Batches
BY DEF Nothing, Unseen, Entries, NoBatch, Batches, Phases, Cleanups

-----------------------------------------------------------------------------
(* What a step may do to the file system *)

\* An entry that is changed in place keeps its identity.
SameEntry(e, f) ==
    /\ f \in Entries /\ f.id = e.id /\ f.ino = e.ino /\ f.kind = e.kind

LEMMA TreeEntry ==
  ASSUME TreeInv, NEW p \in Paths
  PROVE  /\ fs[p] \in Entries /\ time \in Nat
         /\ fs[p].id \in Nat /\ fs[p].id <= time
         /\ Exists(p) => /\ fs[p].kind \in {"file", "directory"}
                         /\ fs[p].ino \in Inodes /\ fs[p].id \in 1..time
         /\ ~Exists(p) => fs[p] = Nothing /\ fs[p].id = 0 /\ fs[p].ino = 0 /\ ~fs[p].filled
<1>1. fs[p] \in Entries /\ time \in Nat
  BY DEF TreeInv, IsTree
<1>2. Exists(p) => /\ fs[p].kind \in {"file", "directory"} /\ fs[p].ino \in Inodes /\ fs[p].id \in 1..time
  BY DEF TreeInv, IsTree, Exists
<1>3. ~Exists(p) => fs[p] = Nothing
  BY DEF TreeInv, IsTree, Exists
<1> QED
  BY <1>1, <1>2, <1>3, EntryTypes

LEMMA ChangedTree ==
  ASSUME TreeInv, NEW p \in Paths, Exists(p), NEW e, SameEntry(fs[p], e), NEW t \in {time, time + 1}
  PROVE  LET f == [fs EXCEPT ![p] = e]
         IN  IsTree(f, t) /\ f[p] = e /\ \A q \in Paths \ {p} : f[q] = fs[q]
<1> DEFINE f == [fs EXCEPT ![p] = e]
<1>1. f \in [Paths -> Entries] /\ f[p] = e /\ \A q \in Paths \ {p} : f[q] = fs[q]
  BY DEF TreeInv, IsTree, SameEntry
<1>2. \A q \in Paths : f[q].kind = fs[q].kind /\ f[q].id = fs[q].id /\ f[q].ino = fs[q].ino
  BY <1>1 DEF SameEntry
<1>3. \A q \in Paths : ~Exists(q) => f[q] = fs[q]
  BY <1>1
<1>4. t \in Nat /\ time \in Nat /\ time <= t
  BY DEF TreeInv, IsTree
<1> HIDE DEF f
<1>5. ASSUME NEW q \in Paths
      PROVE  IF f[q].kind = "absent" THEN f[q] = Nothing
             ELSE f[q].kind \in {"file", "directory"} /\ f[q].ino \in Inodes /\ f[q].id \in 1..t
  BY <1>2, <1>3, <1>4, TreeEntry DEF Exists
<1>6. \A q, r \in Paths : f[q].kind # "absent" /\ q # r => f[q].ino # f[r].ino
  BY <1>2 DEF TreeInv, IsTree
<1>7. IsTree(f, t)
  BY <1>1, <1>4, <1>5, <1>6 DEF IsTree
<1> QED
  BY <1>1, <1>7 DEF f

LEMMA MovedTree ==
  ASSUME TreeInv, NEW p \in Paths, NEW q \in Paths, CanRename(p, q)
  PROVE  LET f == Renamed(p, q)
         IN  /\ IsTree(f, time + 1) /\ p # q
             /\ SameEntry(fs[p], f[q]) /\ f[q].filled = fs[p].filled
             /\ f[p] = Nothing /\ \A r \in Paths \ {p, q} : f[r] = fs[r]
<1> DEFINE e == IF platform = "posix" THEN [fs[p] EXCEPT !.ctime = time + 1] ELSE fs[p]
           f == [fs EXCEPT ![p] = Nothing, ![q] = e]
<1>1. Exists(p) /\ ~Exists(q) /\ p # q
  BY DEF CanRename
<1>2. time \in Nat /\ fs[p] \in Entries
  BY TreeEntry
<1>3. e \in Entries /\ e.id = fs[p].id /\ e.ino = fs[p].ino /\ e.kind = fs[p].kind /\ e.filled = fs[p].filled
  BY <1>2 DEF Entries
<1> HIDE DEF e
<1>4. /\ f \in [Paths -> Entries] /\ f[p] = Nothing /\ f[q] = e
      /\ \A r \in Paths \ {p, q} : f[r] = fs[r]
  BY <1>1, <1>3, EntryTypes DEF TreeInv, IsTree
<1>5. f = Renamed(p, q)
  BY DEF Renamed, e
<1> HIDE DEF f
<1>6. ASSUME NEW r \in Paths
      PROVE  IF f[r].kind = "absent" THEN f[r] = Nothing
             ELSE f[r].kind \in {"file", "directory"} /\ f[r].ino \in Inodes /\ f[r].id \in 1..(time + 1)
  <2>1. CASE r = p
    BY <2>1, <1>4, EntryTypes
  <2>2. CASE r = q
    BY <2>2, <1>1, <1>2, <1>3, <1>4, TreeEntry DEF Exists
  <2>3. CASE r \notin {p, q}
    BY <2>3, <1>2, <1>4, TreeEntry DEF Exists
  <2> QED
    BY <2>1, <2>2, <2>3
<1>7. ASSUME NEW r \in Paths, NEW s \in Paths, f[r].kind # "absent", r # s
      PROVE  f[r].ino # f[s].ino
  <2>0. \A x, y \in Paths : Exists(x) /\ x # y => fs[x].ino # fs[y].ino
    BY DEF TreeInv, IsTree, Exists
  <2>1. r # p /\ f[r].ino # 0
    BY <1>1, <1>3, <1>4, <1>7, EntryTypes, InodeTypes, TreeEntry DEF Exists
  <2>2. CASE s = p
    BY <2>1, <2>2, <1>4, EntryTypes
  <2>3. CASE s # p /\ r = q
    BY <2>0, <2>1, <2>3, <1>1, <1>3, <1>4, <1>7
  <2>4. CASE s # p /\ r # q /\ s = q
    BY <2>0, <2>1, <2>4, <1>1, <1>3, <1>4, <1>7
  <2>5. CASE s # p /\ r # q /\ s # q
    BY <2>0, <2>1, <2>5, <1>4, <1>7 DEF Exists
  <2> QED
    BY <2>2, <2>3, <2>4, <2>5
<1>8. IsTree(f, time + 1)
  BY <1>2, <1>4, <1>6, <1>7 DEF IsTree
<1> QED
  BY <1>1, <1>3, <1>4, <1>5, <1>8 DEF SameEntry

LEMMA MadeTree ==
  ASSUME TreeInv, NEW p \in Paths, ~Exists(p), NEW ino \in FreeInodes, NEW kind \in {"file", "directory"}
  PROVE  LET f == [fs EXCEPT ![p] = New(kind, ino)]
         IN  IsTree(f, time + 1) /\ f[p].id = time + 1 /\ \A q \in Paths \ {p} : f[q] = fs[q]
<1> DEFINE e == New(kind, ino)
           f == [fs EXCEPT ![p] = e]
<1>1. time \in Nat /\ ino \in Inodes /\ \A q \in Paths : fs[q].ino # ino
  BY TreeEntry DEF FreeInodes
<1>2. e \in Entries /\ e.id = time + 1 /\ e.ino = ino /\ e.kind = kind
  BY <1>1 DEF New, Entries
<1> HIDE DEF e
<1>3. f \in [Paths -> Entries] /\ f[p] = e /\ \A q \in Paths \ {p} : f[q] = fs[q]
  BY <1>2 DEF TreeInv, IsTree
<1> HIDE DEF f
<1>4. ASSUME NEW r \in Paths
      PROVE  IF f[r].kind = "absent" THEN f[r] = Nothing
             ELSE f[r].kind \in {"file", "directory"} /\ f[r].ino \in Inodes /\ f[r].id \in 1..(time + 1)
  <2>1. CASE r = p
    BY <2>1, <1>1, <1>2, <1>3
  <2>2. CASE r # p
    BY <2>2, <1>1, <1>3, TreeEntry DEF Exists
  <2> QED
    BY <2>1, <2>2
<1>5. ASSUME NEW r \in Paths, NEW s \in Paths, f[r].kind # "absent", r # s
      PROVE  f[r].ino # f[s].ino
  <2>1. CASE r = p
    BY <2>1, <1>1, <1>2, <1>3, <1>5
  <2>2. CASE s = p
    BY <2>2, <1>1, <1>2, <1>3, <1>5
  <2>3. CASE r # p /\ s # p
    BY <2>3, <1>3, <1>5 DEF TreeInv, IsTree
  <2> QED
    BY <2>1, <2>2, <2>3
<1>6. IsTree(f, time + 1)
  BY <1>1, <1>3, <1>4, <1>5 DEF IsTree
<1> QED
  BY <1>2, <1>3, <1>6 DEF f, e

LEMMA RemovedTree ==
  ASSUME TreeInv, NEW p \in Paths
  PROVE  LET f == [fs EXCEPT ![p] = Nothing]
         IN  IsTree(f, time + 1) /\ f[p] = Nothing /\ \A q \in Paths \ {p} : f[q] = fs[q]
<1> DEFINE f == [fs EXCEPT ![p] = Nothing]
<1>1. time \in Nat
  BY TreeEntry
<1>2. f \in [Paths -> Entries] /\ f[p] = Nothing /\ \A q \in Paths \ {p} : f[q] = fs[q]
  BY EntryTypes DEF TreeInv, IsTree
<1> HIDE DEF f
<1>3. ASSUME NEW r \in Paths
      PROVE  IF f[r].kind = "absent" THEN f[r] = Nothing
             ELSE f[r].kind \in {"file", "directory"} /\ f[r].ino \in Inodes /\ f[r].id \in 1..(time + 1)
  <2>1. CASE r = p
    BY <2>1, <1>2, EntryTypes
  <2>2. CASE r # p
    BY <2>2, <1>1, <1>2, TreeEntry DEF Exists
  <2> QED
    BY <2>1, <2>2
<1>4. ASSUME NEW r \in Paths, NEW s \in Paths, f[r].kind # "absent", r # s
      PROVE  f[r].ino # f[s].ino
  <2>1. r # p
    BY <1>2, <1>4, EntryTypes
  <2>2. CASE s = p
    BY <2>1, <2>2, <1>2, <1>4, EntryTypes, InodeTypes, TreeEntry DEF Exists
  <2>3. CASE s # p
    BY <2>1, <2>3, <1>2, <1>4 DEF TreeInv, IsTree
  <2> QED
    BY <2>2, <2>3
<1>5. IsTree(f, time + 1)
  BY <1>1, <1>2, <1>3, <1>4 DEF IsTree
<1> QED
  BY <1>2, <1>5 DEF f

\* Entries are tagged, moved, made and removed, the last only when they are empty
\* directories; other programs change them as well.
Tags == \E p \in Paths : /\ IsDirectory(p)
                         /\ fs' = [fs EXCEPT ![p].tagged = TRUE] /\ UNCHANGED time
Relocates == \E p, q \in Paths : CanRename(p, q) /\ Fs(Renamed(p, q))
Makes == \E p \in Paths, ino \in FreeInodes, kind \in {"file", "directory"} :
             ~Exists(p) /\ Fs([fs EXCEPT ![p] = New(kind, ino)])
Removes == \E p \in Paths : IsDirectory(p) /\ IsEmpty(p) /\ Fs([fs EXCEPT ![p] = Nothing])

OwnChange == UNCHANGED <<fs, time>> \/ Tags \/ Relocates \/ Makes \/ Removes

LEMMA OwnChangeTree ==
  ASSUME TreeInv, OwnChange
  PROVE  /\ TreeInv' /\ time' \in {time, time + 1}
         /\ \A p \in Paths : fs[p].kind = "file" \/ fs[p].filled => \E q \in Paths : fs'[q].id = fs[p].id
<1>1. CASE UNCHANGED <<fs, time>>
  BY <1>1 DEF TreeInv, IsTree
<1>2. CASE Tags
  <2>1. PICK p \in Paths : IsDirectory(p) /\ fs' = [fs EXCEPT ![p].tagged = TRUE] /\ UNCHANGED time
    BY <1>2 DEF Tags
  <2> DEFINE e == [fs[p] EXCEPT !.tagged = TRUE]
  <2>2. Exists(p) /\ SameEntry(fs[p], e)
    BY <2>1, TreeEntry DEF IsDirectory, Exists, SameEntry, Entries
  <2>3. fs' = [fs EXCEPT ![p] = e]
    BY <2>1
  <2> HIDE DEF e
  <2> DEFINE f == [fs EXCEPT ![p] = e]
  <2>6. IsTree(f, time) /\ f[p] = e /\ \A q \in Paths \ {p} : f[q] = fs[q]
    BY <2>2, ChangedTree
  <2>4. IsTree(fs', time) /\ fs'[p] = e /\ \A q \in Paths \ {p} : fs'[q] = fs[q]
    BY <2>3, <2>6
  <2>5. \A q \in Paths : fs'[q].id = fs[q].id
    BY <2>2, <2>4 DEF SameEntry
  <2> QED
    BY <2>1, <2>4, <2>5 DEF TreeInv
<1>3. CASE Relocates
  <2>1. PICK p \in Paths, q \in Paths : CanRename(p, q) /\ Fs(Renamed(p, q))
    BY <1>3 DEF Relocates
  <2>2. fs' = Renamed(p, q) /\ time' = time + 1
    BY <2>1 DEF Fs
  <2>3. /\ IsTree(fs', time + 1) /\ p # q
        /\ SameEntry(fs[p], fs'[q]) /\ \A r \in Paths \ {p, q} : fs'[r] = fs[r]
    BY <2>1, <2>2, MovedTree
  <2>4. ~Exists(q) /\ ~(fs[q].kind = "file" \/ fs[q].filled)
    BY <2>1, TreeEntry DEF CanRename, Exists
  <2> QED
    BY <2>2, <2>3, <2>4 DEF TreeInv, SameEntry
<1>4. CASE Makes
  <2>1. PICK p \in Paths, ino \in FreeInodes, kind \in {"file", "directory"} :
             ~Exists(p) /\ Fs([fs EXCEPT ![p] = New(kind, ino)])
    BY <1>4 DEF Makes
  <2>2. fs' = [fs EXCEPT ![p] = New(kind, ino)] /\ time' = time + 1
    BY <2>1 DEF Fs
  <2> DEFINE f == [fs EXCEPT ![p] = New(kind, ino)]
  <2>5. IsTree(f, time + 1) /\ \A q \in Paths \ {p} : f[q] = fs[q]
    BY <2>1, MadeTree
  <2>3. IsTree(fs', time + 1) /\ \A q \in Paths \ {p} : fs'[q] = fs[q]
    BY <2>2, <2>5
  <2>4. ~(fs[p].kind = "file" \/ fs[p].filled)
    BY <2>1, TreeEntry DEF Exists
  <2> QED
    BY <2>2, <2>3, <2>4 DEF TreeInv
<1>5. CASE Removes
  <2>1. PICK p \in Paths : IsDirectory(p) /\ IsEmpty(p) /\ Fs([fs EXCEPT ![p] = Nothing])
    BY <1>5 DEF Removes
  <2>2. fs' = [fs EXCEPT ![p] = Nothing] /\ time' = time + 1
    BY <2>1 DEF Fs
  <2>3. IsTree(fs', time + 1) /\ \A q \in Paths \ {p} : fs'[q] = fs[q]
    BY <2>1, <2>2, RemovedTree
  <2>4. ~(fs[p].kind = "file" \/ fs[p].filled)
    BY <2>1 DEF IsDirectory, IsEmpty
  <2> QED
    BY <2>2, <2>3, <2>4 DEF TreeInv
<1> QED
  BY <1>1, <1>2, <1>3, <1>4, <1>5 DEF OwnChange

-----------------------------------------------------------------------------
(* What a step keeps *)

\* No move of a step of the program ends where step i has taken something to.
Leaves(i) == fs'[Target(i)].id \in {fs[Target(i)].id, 0, time + 1}

\* A step of the worker, or the loss of its lease.
LEMMA WorkerStep ==
  ASSUME Inv, OwnChange, UNCHANGED <<setting, recovery, bounds, restored, touched>>,
         WorkerInv', BatchInv', moved' \in [Steps -> 0..time'], removed' \subseteq 1..time',
         leased' = leased \/ leased' = FALSE, late' = late \/ late' = (late \/ ~leased),
         worker.pc = "ended" => worker'.pc = "ended",
         \A i \in Steps : batch'[i].phase \in Recovered => batch'[i].phase = batch[i].phase,
         \/ \A i \in Steps : Leaves(i) /\ moved'[i] = moved[i]
         \/ late' = (late \/ ~leased) /\ worker.pc # "ended"
  PROVE  Inv'
<1>0. /\ TreeInv /\ WorkerInv /\ BatchInv /\ RecoveriesInv /\ BoundsInv
      /\ HistoryInv /\ LeaseInv /\ UndoneInv
  BY DEF Inv
<1>1. Steps' = Steps /\ Recoveries' = Recoveries
      /\ \A i : /\ Moves(i)' = Moves(i) /\ Target(i)' = Target(i) /\ Unchained(i)' = Unchained(i)
  BY SameProgram
<1>2. TreeInv' /\ time \in Nat /\ time' \in Nat /\ time <= time'
  BY <1>0, OwnChangeTree DEF TreeInv, IsTree
<1>3. RecoveriesInv'
  BY <1>0, <1>1 DEF RecoveriesInv, RecoveryInv, PlanOK, Current
<1>4. BoundsInv' /\ HistoryInv'
  <2>1. leased' \in BOOLEAN /\ late' \in BOOLEAN
    BY <1>0 DEF BoundsInv
  <2>2. BoundsInv'
    BY <1>0, <2>1 DEF BoundsInv, setting, bounds
  <2>3. restored \in [Steps -> 0..time'] /\ touched \subseteq 1..time'
    BY <1>0, <1>2 DEF HistoryInv
  <2>4. HistoryInv'
    BY <1>1, <2>3 DEF HistoryInv
  <2> QED
    BY <2>2, <2>4
<1>7. leased' => leased
  BY <1>0 DEF BoundsInv
<1>5. LeaseInv'
  BY <1>0, <1>1, <1>7 DEF LeaseInv
<1>6. UndoneInv'
  <2> SUFFICES ASSUME NEW i \in Steps, Unchained(i), Finishing(i)' PROVE Undone(i)'
    BY <1>1 DEF UndoneInv
  <2>1. Finishing(i)
    BY DEF Finishing, Recovered
  <2>2. Undone(i)
    BY <1>0, <2>1 DEF UndoneInv
  <2>6. late => late'
    BY Zenon
  <2>3. Target(i)' = Target(i) /\ touched' = touched /\ (late => late')
    BY <1>1, <2>6
  <2>4. CASE Leaves(i) /\ moved'[i] = moved[i]
    <3>1. moved[i] \in Nat /\ moved[i] <= time
      BY <1>0, <1>2 DEF HistoryInv
    <3>2. moved[i] # time + 1
      BY <1>2, <3>1
    <3> QED
      BY <2>2, <2>3, <2>4, <3>2 DEF Undone, Leaves
  <2>5. CASE late' = (late \/ ~leased) /\ worker.pc # "ended"
    <3>1. ~leased
      BY <1>0, <2>1, <2>5 DEF LeaseInv, Finishing, Recovered, Actors
    <3> QED
      BY <2>5, <3>1 DEF Undone
  <2> QED
    BY <2>4, <2>5
<1> QED
  BY <1>2, <1>3, <1>4, <1>5, <1>6 DEF Inv

\* A step of a recovery, which may also begin, crash or end.
LEMMA RecoveryStep ==
  ASSUME Inv, NEW r \in Actors, OwnChange, UNCHANGED <<setting, worker, outside, moved, touched>>,
         recovery' = [recovery EXCEPT ![r] = recovery'[r]], RecoveryInv(r)',
         recovery[r].pc # "idle" \/ (r = "workspace" /\ ~leased),
         recovery'[r].pc = "idle" => r = "workspace",
         BatchInv', restored' \in [Steps -> 0..time'], removed' \subseteq 1..time',
         crashes' \in 0..MaxCrashes,
         leased' = leased \/ leased' = FALSE, late' \in BOOLEAN, late => late',
         \A i \in Steps : batch'[i].phase = "recovered" => Finishing(i),
         \A i \in Steps : Unchained(i) => fs'[Target(i)].id \in {fs[Target(i)].id, 0, time + 1},
         \A i \in Steps : /\ Unchained(i)
                          /\ recovery'[r].pc = "check" /\ recovery'[r].at = i /\ recovery'[r].plan = <<>>
                          => Finishing(i) \/ fs'[Target(i)].id = 0
  PROVE  Inv'
<1>0. /\ TreeInv /\ WorkerInv /\ BatchInv /\ RecoveriesInv /\ BoundsInv
      /\ HistoryInv /\ LeaseInv /\ UndoneInv
  BY DEF Inv
<1>1. Steps' = Steps /\ Recoveries' = Recoveries
      /\ \A i : /\ Moves(i)' = Moves(i) /\ Target(i)' = Target(i) /\ Unchained(i)' = Unchained(i)
  BY SameProgram
<1>2. TreeInv' /\ time \in Nat /\ time' \in Nat /\ time <= time'
  BY <1>0, OwnChangeTree DEF TreeInv, IsTree
<1>3. WorkerInv'
  BY <1>0, <1>1 DEF WorkerInv, setting
<1>4. RecoveriesInv'
  <2>1. \A s \in Actors \ {r} : recovery'[s] = recovery[s]
    BY <1>0 DEF RecoveriesInv
  <2>2. \A s \in Actors \ {r} : RecoveryInv(s)'
    BY <1>0, <1>1, <2>1 DEF RecoveriesInv, RecoveryInv, PlanOK, Current
  <2>3. \A s \in Actors : RecoveryInv(s)'
    BY <2>2
  <2>4. recovery'[r] \in Recoveries
    BY <1>1 DEF RecoveryInv
  <2>5. recovery' \in [Actors -> Recoveries']
    BY <1>0, <1>1, <2>4 DEF RecoveriesInv
  <2> QED
    BY <2>3, <2>5 DEF RecoveriesInv
<1>5. BoundsInv'
  BY <1>0 DEF BoundsInv, setting
<1>6. HistoryInv'
  <2>1. moved \in [Steps -> 0..time'] /\ touched \subseteq 1..time'
    BY <1>0, <1>2 DEF HistoryInv
  <2> QED
    BY <1>1, <2>1 DEF HistoryInv
<1>7. LeaseInv'
  <2>1. leased' => leased
    BY <1>0 DEF BoundsInv
  <2>2. r = "rollback" => recovery'["workspace"] = recovery["workspace"]
    BY <1>0 DEF RecoveriesInv, Actors
  <2>3. r = "workspace" => recovery'["rollback"] = recovery["rollback"]
    BY <1>0 DEF RecoveriesInv, Actors
  <2>4. r = "rollback" => worker.pc = "ended"
    BY <1>0 DEF LeaseInv
  <2>5. r = "workspace" => ~leased
    BY <1>0 DEF LeaseInv
  <2> QED
    BY <1>0, <2>1, <2>2, <2>3, <2>4, <2>5 DEF LeaseInv, Actors
<1>8. UndoneInv'
  <2> SUFFICES ASSUME NEW i \in Steps, Unchained(i), Finishing(i)' PROVE Undone(i)'
    BY <1>1 DEF UndoneInv
  <2>1. \A s \in Actors \ {r} : recovery'[s] = recovery[s]
    BY <1>0 DEF RecoveriesInv
  <2>2. Finishing(i) \/ fs'[Target(i)].id = 0
    BY <2>1 DEF Finishing
  <2>3. Target(i)' = Target(i) /\ moved' = moved /\ touched' = touched
    BY <1>1
  <2>4. CASE Finishing(i)
    <3>1. Undone(i)
      BY <1>0, <2>4 DEF UndoneInv
    <3>2. moved[i] \in Nat /\ moved[i] <= time
      BY <1>0, <1>2 DEF HistoryInv
    <3>3. moved[i] # time + 1
      BY <1>2, <3>2
    <3> QED
      BY <2>3, <3>1, <3>3 DEF Undone
  <2>5. CASE fs'[Target(i)].id = 0
    BY <2>3, <2>5 DEF Undone
  <2> QED
    BY <2>2, <2>4, <2>5
<1> QED
  BY <1>2, <1>0, <1>1, <1>3, <1>4, <1>5, <1>6, <1>7, <1>8 DEF Inv, BatchInv

\* A change by another program.
LEMMA OthersStep ==
  ASSUME Inv, TreeInv', time' = time + 1, NEW id \in 1..time + 1, touched' = touched \cup {id},
         outside' \in 0..MaxOutside,
         UNCHANGED <<setting, journal, worker, recovery, crashes, moved, restored, removed, late>>,
         \A p \in Paths : fs'[p].id \in {fs[p].id, 0, id}
  PROVE  Inv'
<1>0. /\ TreeInv /\ WorkerInv /\ BatchInv /\ RecoveriesInv /\ BoundsInv
      /\ HistoryInv /\ LeaseInv /\ UndoneInv
  BY DEF Inv
<1>1. Steps' = Steps /\ Recoveries' = Recoveries
      /\ \A i : /\ Moves(i)' = Moves(i) /\ Target(i)' = Target(i) /\ Unchained(i)' = Unchained(i)
  BY SameProgram
<1>2. time \in Nat /\ \A i \in Steps : Target(i) \in Paths
  BY <1>0, ProgramTypes DEF TreeInv, IsTree, BoundsInv
<1>3. WorkerInv' /\ BatchInv'
  BY <1>0, <1>1 DEF WorkerInv, BatchInv, setting, journal
<1>4. RecoveriesInv'
  BY <1>0, <1>1 DEF RecoveriesInv, RecoveryInv, PlanOK, Current
<1>5. BoundsInv' /\ LeaseInv'
  BY <1>0, <1>1 DEF BoundsInv, LeaseInv, setting, journal
<1>6. HistoryInv'
  <2>1. /\ moved \in [Steps -> 0..time + 1] /\ restored \in [Steps -> 0..time + 1]
        /\ removed \subseteq 1..time + 1 /\ touched \subseteq 1..time + 1
    BY <1>0, <1>2 DEF HistoryInv
  <2> QED
    BY <1>1, <2>1 DEF HistoryInv
<1>7. UndoneInv'
  <2> SUFFICES ASSUME NEW i \in Steps, Unchained(i), Finishing(i)' PROVE Undone(i)'
    BY <1>1 DEF UndoneInv
  <2>1. Finishing(i)
    BY DEF Finishing, journal
  <2>2. Undone(i)
    BY <1>0, <2>1 DEF UndoneInv
  <2> QED
    BY <1>1, <1>2, <2>2 DEF Undone
<1> QED
  BY <1>3, <1>4, <1>5, <1>6, <1>7 DEF Inv

-----------------------------------------------------------------------------
(* The steps of the worker *)

\* What the steps use of the state's types.
LEMMA Types ==
  ASSUME Inv
  PROVE  /\ TreeInv /\ WorkerInv /\ batch \in [Steps -> Batches] /\ RecoveriesInv /\ BoundsInv
         /\ HistoryInv /\ LeaseInv /\ UndoneInv
         /\ Len(program) \in Nat /\ Steps \in SUBSET Nat /\ IsFiniteSet(Steps)
         /\ \A i \in Steps : program[i].op \in Operations /\ Path(i) \in Paths /\ Target(i) \in Paths
         /\ worker \in Workers /\ leased \in BOOLEAN /\ late \in BOOLEAN
         /\ moved \in [Steps -> 0..time] /\ removed \subseteq 1..time
         /\ time \in Nat /\ time <= time + 1 /\ \A p \in Paths : fs[p] \in Entries
<1>1. /\ TreeInv /\ WorkerInv /\ BatchInv /\ RecoveriesInv /\ BoundsInv
      /\ HistoryInv /\ LeaseInv /\ UndoneInv
  BY DEF Inv
<1>2. time \in Nat /\ time <= time + 1 /\ \A p \in Paths : fs[p] \in Entries
  BY <1>1 DEF TreeInv, IsTree
<1> QED
  BY <1>1, <1>2, ProgramTypes DEF BatchInv, WorkerInv, BoundsInv, HistoryInv

\* A step that leaves the files alone.
LEMMA QuietStep ==
  ASSUME Inv, UNCHANGED <<setting, recovery, bounds, restored, removed, touched, late, fs, time, moved>>,
         leased' = leased \/ leased' = FALSE,
         worker' \in Workers, worker'.step \in 1..Len(program) + 1,
         worker'.pc \notin Between => worker'.step \in Steps,
         worker.pc = "ended" => worker'.pc = "ended",
         batch' \in [Steps -> Batches],
         \A i \in Steps : batch'[i].phase \in Recovered => batch'[i].phase = batch[i].phase
  PROVE  Inv'
<1>1. Steps' = Steps /\ program' = program
  BY SameProgram DEF setting
<1>2. WorkerInv' /\ BatchInv'
  BY <1>1 DEF WorkerInv, BatchInv
<1>3. OwnChange
  BY DEF OwnChange
<1>4. moved' \in [Steps -> 0..time'] /\ removed' \subseteq 1..time'
  BY Types
<1>5. \A i \in Steps : Leaves(i) /\ moved'[i] = moved[i]
  BY DEF Leaves
<1> QED
  BY <1>2, <1>3, <1>4, <1>5, WorkerStep

\* The same when only the place of the worker changes.
LEMMA GoesStep ==
  ASSUME Inv, UNCHANGED <<setting, recovery, bounds, restored, removed, touched, late, fs, time, moved>>,
         leased' = leased \/ leased' = FALSE,
         NEW pc, Goes(pc), [worker EXCEPT !.pc = pc] \in Workers,
         pc \in Between \/ worker.step \in Steps,
         worker.pc = "ended" => pc = "ended",
         batch' \in [Steps -> Batches],
         \A i \in Steps : batch'[i].phase \in Recovered => batch'[i].phase = batch[i].phase
  PROVE  Inv'
<1>1. worker'.pc = pc /\ worker'.step = worker.step /\ worker' \in Workers
  BY Types DEF Goes, Workers
<1>2. worker.step \in 1..Len(program) + 1
  BY Types DEF WorkerInv
<1> QED
  BY <1>1, <1>2, QuietStep

LEMMA BeginInv ==
  ASSUME Inv, Begin PROVE Inv'
<1> DEFINE i == worker.step
<1>1. /\ i \in Steps /\ worker.pc = "begin" /\ worker \in Workers
      /\ batch \in [Steps -> Batches] /\ i + 1 \in 1..Len(program) + 1 /\ i \in 1..Len(program) + 1
  BY Types DEF Begin, Steps
<1>2. UNCHANGED <<setting, recovery, bounds, restored, removed, touched, late, fs, time, moved, leased>>
  BY DEF Begin, fixed
<1>3. Unseen \in Entries
  BY EntryTypes
<1>4. CASE Starts(i) /\ batch' = [batch EXCEPT ![i].phase = "attempting"]
  <2>1. worker' \in Workers /\ worker'.pc = "before" /\ worker'.step = i
    BY <1>1, <1>3, <1>4 DEF Starts, Workers
  <2>2. batch' \in [Steps -> Batches]
    BY <1>1, <1>4 DEF Batches, Phases
  <2>3. \A j \in Steps : batch'[j].phase \in Recovered => batch'[j].phase = batch[j].phase
    BY <1>1, <1>4 DEF Recovered, Batches
  <2> QED
    BY <1>1, <1>2, <2>1, <2>2, <2>3, QuietStep
<1>5. CASE /\ worker' = [worker EXCEPT !.step = i + 1]
           /\ batch' = Planned(i) \/ UNCHANGED batch
  <2>1. worker' \in Workers /\ worker'.pc = "begin" /\ worker'.step = i + 1
    <3>1. i + 1 \in Nat
      BY <1>1
    <3> QED
      BY <1>1, <1>5, <3>1 DEF Workers
  <2>2. batch' \in [Steps -> Batches]
    BY <1>1, <1>5 DEF Planned, Batches, Phases
  <2>3. \A j \in Steps : batch'[j].phase \in Recovered => batch'[j].phase = batch[j].phase
    BY <1>1, <1>5 DEF Planned, Recovered, Batches
  <2> QED
    BY <1>1, <1>2, <2>1, <2>2, <2>3, QuietStep DEF Between
<1> QED
  BY <1>4, <1>5 DEF Begin

LEMMA BodyRaisesInv ==
  ASSUME Inv, BodyRaises PROVE Inv'
<1>1. UNCHANGED <<setting, recovery, bounds, restored, removed, touched, late, fs, time, moved, leased, batch>>
      /\ Goes("rollback") /\ worker.pc = "begin"
  BY DEF BodyRaises, fixed, journal
<1>2. [worker EXCEPT !.pc = "rollback"] \in Workers
  BY Types DEF Workers
<1> QED
  BY <1>1, <1>2, Types, GoesStep DEF Between

\* A directory that is tagged keeps its identity.
LEMMA TagStep ==
  ASSUME Inv, NEW p \in Paths, IsDirectory(p), fs' = [fs EXCEPT ![p].tagged = TRUE], UNCHANGED time
  PROVE  /\ OwnChange
         /\ \A q \in Paths : fs'[q].id = fs[q].id /\ fs'[q] \in Entries
<1>1. OwnChange
  BY DEF OwnChange, Tags
<1>2. \A q \in Paths : fs'[q].id = fs[q].id /\ fs'[q] \in Entries
  BY Types DEF TreeInv, IsTree, Entries
<1> QED
  BY <1>1, <1>2

LEMMA BeforeInv ==
  ASSUME Inv, Before PROVE Inv' /\ OwnChange
<1> DEFINE i == worker.step
           now == IF program[i].op = "capture" /\ IsDirectory(Path(i))
                  THEN [fs EXCEPT ![Path(i)].tagged = TRUE] ELSE fs
<1>1. i \in Steps /\ Path(i) \in Paths /\ worker.pc = "before" /\ i \in 1..Len(program) + 1
  BY Types DEF Before, WorkerInv, Between
<1>2. /\ UNCHANGED <<setting, recovery, bounds, restored, removed, touched, late, time, moved, leased>>
      /\ fs' = now
  BY DEF Before, fixed
<1>3. OwnChange /\ \A q \in Paths : fs'[q].id = fs[q].id /\ fs'[q] \in Entries
  <2>1. CASE now = fs
    BY <2>1, <1>2, Types DEF OwnChange
  <2>2. CASE IsDirectory(Path(i)) /\ now = [fs EXCEPT ![Path(i)].tagged = TRUE]
    BY <2>2, <1>1, <1>2, TagStep
  <2> QED
    BY <2>1, <2>2
<1>4. WorkerInv'
  <2>1. \E pc \in {"check", "rollback", "observe"} : worker' = [worker EXCEPT !.pc = pc]
    BY DEF Before, Goes
  <2> QED
    BY <1>1, <1>2, <2>1, Types, SameProgram DEF WorkerInv, Workers, setting
<1>5. BatchInv' /\ \A j \in Steps : batch'[j].phase = batch[j].phase
  <2>1. CASE batch' = [batch EXCEPT ![i].before = now[Path(i)]]
    <3>1. now[Path(i)] \in Entries
      BY <1>1, <1>2, <1>3
    <3> HIDE DEF now
    <3> QED
      BY <1>1, <1>2, <2>1, <3>1, Types, SameProgram DEF BatchInv, Batches
  <2>2. CASE UNCHANGED batch
    BY <1>2, <2>2, Types, SameProgram DEF BatchInv
  <2> QED
    BY <2>1, <2>2 DEF Before
<1>6. \A j \in Steps : Leaves(j) /\ moved'[j] = moved[j]
  BY <1>2, <1>3, Types DEF Leaves
<1>7. moved' \in [Steps -> 0..time'] /\ removed' \subseteq 1..time'
  BY <1>2, Types
<1> QED
  BY <1>1, <1>2, <1>3, <1>4, <1>5, <1>6, <1>7, WorkerStep

LEMMA CheckInv ==
  ASSUME Inv, Check PROVE Inv' /\ OwnChange
<1> DEFINE i == worker.step
           now == IF program[i].op = "capture" THEN [fs EXCEPT ![Path(i)].tagged = TRUE] ELSE fs
<1>1. i \in Steps /\ Path(i) \in Paths /\ worker.pc = "check" /\ i \in 1..Len(program) + 1
  BY Types DEF Check, WorkerInv, Between
<1>2. UNCHANGED <<setting, recovery, bounds, restored, removed, touched, late, time, moved, leased, batch>>
  BY DEF Check, fixed, journal
<1>3. CASE UNCHANGED fs /\ Goes("observe")
  <2>1. [worker EXCEPT !.pc = "observe"] \in Workers
    BY Types DEF Workers
  <2>2. OwnChange
    BY <1>2, <1>3 DEF OwnChange
  <2> QED
    BY <1>1, <1>2, <1>3, <2>1, <2>2, Types, GoesStep
<1>4. CASE /\ Moves(i) => Movable(i)
           /\ fs' = now
           /\ worker' = [worker EXCEPT !.pc = "mutate", !.found = now[Path(i)]]
  <2>1. OwnChange /\ \A q \in Paths : fs'[q].id = fs[q].id /\ fs'[q] \in Entries
    <3>1. CASE now = fs
      BY <3>1, <1>2, <1>4, Types DEF OwnChange
    <3>2. CASE program[i].op = "capture"
      BY <3>2, <1>1, <1>2, <1>4, TagStep DEF Movable, Moves
    <3> QED
      BY <3>1, <3>2
  <2>2. now[Path(i)] \in Entries
    BY <2>1, <1>1, <1>4
  <2> HIDE DEF now
  <2>3. WorkerInv'
    BY <1>1, <1>2, <1>4, <2>2, Types, SameProgram DEF WorkerInv, Workers, setting
  <2>4. BatchInv'
    BY <1>2, Types, SameProgram DEF BatchInv
  <2>5. \A j \in Steps : Leaves(j) /\ moved'[j] = moved[j]
    BY <1>2, <2>1, Types DEF Leaves
  <2>6. moved' \in [Steps -> 0..time'] /\ removed' \subseteq 1..time'
    BY <1>2, Types
  <2> QED
    BY <1>1, <1>2, <2>1, <2>3, <2>4, <2>5, <2>6, WorkerStep
<1> QED
  BY <1>3, <1>4 DEF Check

LEMMA MutateInv ==
  ASSUME Inv, Mutate PROVE Inv' /\ OwnChange
<1> DEFINE i == worker.step
<1>1. /\ i \in Steps /\ Path(i) \in Paths /\ Target(i) \in Paths
      /\ worker.pc = "mutate" /\ i \in 1..Len(program) + 1
  BY Types DEF Mutate, WorkerInv, Between
<1>2. /\ UNCHANGED <<setting, recovery, bounds, restored, removed, touched, leased, batch>>
      /\ late' = (late \/ ~leased)
  BY DEF Mutate, journal
<1>3. WorkerInv' /\ worker'.pc # "ended"
  <2>1. \E pc \in {"verify", "record", "observe"} : worker' = [worker EXCEPT !.pc = pc]
    BY DEF Mutate, Goes
  <2> QED
    BY <1>1, <1>2, <2>1, Types, SameProgram DEF WorkerInv, Workers, setting
<1>4. BatchInv'
  BY <1>2, Types, SameProgram DEF BatchInv
<1>5. OwnChange /\ (time' = time \/ time' = time + 1) /\ moved' \in [Steps -> 0..time']
  <2>1. CASE CanRename(Path(i), Target(i)) /\ Fs(Renamed(Path(i), Target(i)))
             /\ moved' = [moved EXCEPT ![i] = fs[Path(i)].id]
    <3>1. Relocates
      BY <1>1, <2>1 DEF Relocates
    <3>2. fs[Path(i)].id \in 0..time + 1
      BY <1>1, Types, TreeEntry
    <3>3. moved' \in [Steps -> 0..time + 1]
      BY <1>1, <2>1, <3>2, Types
    <3> QED
      BY <2>1, <3>1, <3>3 DEF OwnChange, Fs
  <2>2. CASE /\ ~Exists(Path(i))
             /\ \E ino \in FreeInodes : Fs([fs EXCEPT ![Path(i)] = New("directory", ino)])
             /\ moved' = [moved EXCEPT ![i] = time + 1]
    <3>1. Makes
      BY <1>1, <2>2 DEF Makes
    <3>2. time' = time + 1
      BY <2>2 DEF Fs
    <3>3. moved' \in [Steps -> 0..time + 1]
      BY <1>1, <2>2, Types
    <3> QED
      BY <3>1, <3>2, <3>3 DEF OwnChange
  <2>3. CASE UNCHANGED <<fs, time, moved>>
    BY <2>3, Types DEF OwnChange
  <2> QED
    BY <2>1, <2>2, <2>3 DEF Mutate
<1>6. removed' \subseteq 1..time'
  BY <1>2, <1>5, Types
<1> QED
  BY <1>1, <1>2, <1>3, <1>4, <1>5, <1>6, WorkerStep

LEMMA VerifyInv ==
  ASSUME Inv, Verify PROVE Inv'
<1>1. worker.step \in Steps /\ worker.pc = "verify"
  BY Types DEF Verify, WorkerInv, Between
<1>2. UNCHANGED <<setting, recovery, bounds, restored, removed, touched, late, fs, time, moved, leased, batch>>
  BY DEF Verify, fixed, journal
<1>3. PICK pc \in {"record", "observe"} : Goes(pc)
  BY DEF Verify
<1>4. [worker EXCEPT !.pc = pc] \in Workers
  BY Types DEF Workers
<1> QED
  BY <1>1, <1>2, <1>3, <1>4, Types, GoesStep

\* A batch whose phase alone is written is a batch of that phase.
LEMMA NewPhase ==
  ASSUME NEW row \in Batches, NEW phase \in Phases
  PROVE  [row EXCEPT !.phase = phase] \in Batches /\ [row EXCEPT !.phase = phase].phase = phase
BY DEF Batches

\* What a step records in the batch of its own step, and the evidence it takes.
LEMMA RowStep ==
  ASSUME Inv, NEW i \in Steps, NEW row \in Batches,
         batch' = [batch EXCEPT ![i] = row] \/ UNCHANGED batch, row.phase \notin Recovered \/ row.phase = batch[i].phase
  PROVE  /\ batch' \in [Steps -> Batches]
         /\ \A j \in Steps : batch'[j].phase \in Recovered => batch'[j].phase = batch[j].phase
BY Types

LEMMA ObserveInv ==
  ASSUME Inv, Observe PROVE Inv'
<1> DEFINE i == worker.step
           row == [batch[i] EXCEPT !.record = fs[Path(i)]]
<1>1. i \in Steps /\ Path(i) \in Paths /\ worker.pc = "observe" /\ i \in 1..Len(program) + 1
  BY Types DEF Observe, WorkerInv, Between
<1>2. UNCHANGED <<setting, recovery, bounds, restored, removed, touched, late, fs, time, moved, leased>>
  BY DEF Observe, fixed
<1>3. batch[i] \in Batches /\ batch[i].before \in Entries /\ fs[Path(i)] \in Entries
  BY <1>1, Types DEF Batches
<1>4. row \in Batches /\ row.phase = batch[i].phase
  BY <1>3 DEF Batches
<1>5. batch' = [batch EXCEPT ![i] = row] \/ UNCHANGED batch
  BY DEF Observe
<1> HIDE DEF row
<1>6. /\ batch' \in [Steps -> Batches]
      /\ \A j \in Steps : batch'[j].phase \in Recovered => batch'[j].phase = batch[j].phase
  BY <1>1, <1>4, <1>5, RowStep
<1>7. PICK mine \in Entries, manual \in BOOLEAN :
        worker' = [worker EXCEPT !.pc = "mark", !.mine = mine, !.manual = manual]
  BY <1>3, EntryTypes DEF Observe
<1>8. worker' \in Workers /\ worker'.pc = "mark" /\ worker'.step = i
  BY <1>7, Types DEF Workers
<1> QED
  BY <1>1, <1>2, <1>6, <1>8, QuietStep

\* A recovery record can be written.
LEMMA DesiredRow ==
  ASSUME Inv, NEW i \in Steps
  PROVE  Desired(i) \in Batches /\ Desired(i).phase = "recovery_desired"
<1>1. batch[i] \in Batches /\ worker.mine \in Entries /\ worker.manual \in BOOLEAN
  BY Types DEF Workers
<1> DEFINE record == IF worker.mine # Unseen THEN worker.mine ELSE batch[i].record
           manual == batch[i].manual \/ worker.manual
           group == batch[i].group \/ ~Moves(i)
<1>2. record \in Entries /\ manual \in BOOLEAN /\ group \in BOOLEAN
  BY <1>1 DEF Batches
<1>3. Desired(i) = [batch[i] EXCEPT !.phase = "recovery_desired", !.record = record, !.manual = manual, !.group = group]
  BY DEF Desired
<1> HIDE DEF record, manual, group
<1> QED
  BY <1>1, <1>2, <1>3 DEF Batches, Phases

LEMMA LeaseLostRow ==
  ASSUME Inv, NEW i \in Steps, LeaseLost(i) \/ batch' = [batch EXCEPT ![i] = Desired(i)]
  PROVE  /\ batch' \in [Steps -> Batches]
         /\ \A j \in Steps : batch'[j].phase \in Recovered => batch'[j].phase = batch[j].phase
<1>1. batch' = [batch EXCEPT ![i] = Desired(i)] \/ UNCHANGED batch
  BY DEF LeaseLost
<1>2. Desired(i).phase \notin Recovered
  BY DesiredRow DEF Recovered
<1> QED
  BY <1>1, <1>2, DesiredRow, RowStep

LEMMA MarkInv ==
  ASSUME Inv, Mark PROVE Inv'
<1> DEFINE i == worker.step
           row == [batch[i] EXCEPT !.phase = "failed"]
<1>1. i \in Steps /\ worker.pc = "mark"
  BY Types DEF Mark, WorkerInv, Between
<1>2. UNCHANGED <<setting, recovery, bounds, restored, removed, touched, late, fs, time, moved, leased>>
  BY DEF Mark, fixed
<1>3. PICK pc \in {"desire", "rollback"} : Goes(pc)
  BY DEF Mark
<1>4. [worker EXCEPT !.pc = pc] \in Workers
  BY Types DEF Workers
<1>5. row \in Batches /\ row.phase \notin Recovered
  <2>1. batch[i] \in Batches
    BY <1>1, Types
  <2> QED
    BY <2>1 DEF Batches, Phases, Recovered
<1>6. batch' = [batch EXCEPT ![i] = row] \/ LeaseLost(i)
  BY DEF Mark
<1> HIDE DEF row
<1>7. /\ batch' \in [Steps -> Batches]
      /\ \A j \in Steps : batch'[j].phase \in Recovered => batch'[j].phase = batch[j].phase
  BY <1>1, <1>5, <1>6, RowStep, LeaseLostRow
<1> QED
  BY <1>1, <1>2, <1>3, <1>4, <1>7, GoesStep

LEMMA DesireInv ==
  ASSUME Inv, Desire PROVE Inv'
<1> DEFINE i == worker.step
<1>1. i \in Steps /\ worker.pc = "desire"
  BY Types DEF Desire, WorkerInv, Between
<1>2. UNCHANGED <<setting, recovery, bounds, restored, removed, touched, late, fs, time, moved, leased>>
      /\ Goes("rollback")
  BY DEF Desire, fixed
<1>3. [worker EXCEPT !.pc = "rollback"] \in Workers
  BY Types DEF Workers
<1>4. /\ batch' \in [Steps -> Batches]
      /\ \A j \in Steps : batch'[j].phase \in Recovered => batch'[j].phase = batch[j].phase
  BY <1>1, LeaseLostRow DEF Desire
<1> QED
  BY <1>1, <1>2, <1>3, <1>4, GoesStep

LEMMA RecordsNothingInv ==
  ASSUME Inv, worker.step \in Steps, worker.pc # "ended", RecordsNothing(worker.step),
         UNCHANGED <<setting, recovery, bounds, restored, removed, touched, late, fs, time, moved, leased>>
  PROVE  Inv'
<1>1. PICK mine \in Entries : worker' = [worker EXCEPT !.pc = "mark", !.mine = mine]
  BY Types, EntryTypes DEF RecordsNothing, Workers
<1>2. worker' \in Workers /\ worker'.pc = "mark" /\ worker'.step = worker.step
  BY <1>1, Types DEF Workers
<1>3. worker.step \in 1..Len(program) + 1
  BY Types DEF WorkerInv
<1>4. batch' = batch
  BY DEF RecordsNothing
<1> QED
  BY <1>2, <1>3, <1>4, Types, QuietStep

LEMMA RecordInv ==
  ASSUME Inv, Record PROVE Inv'
<1> DEFINE i == worker.step
           evidence == IF Moves(i) THEN worker.found ELSE fs[Path(i)]
           cleanup == CASE program[i].op # "capture" -> "none"
                        [] Policy = "automatic" -> "planned"
                        [] OTHER -> "retained"
           row == [batch[i] EXCEPT !.record = evidence, !.cleanup = cleanup]
<1>1. i \in Steps /\ Path(i) \in Paths /\ worker.pc = "record"
  BY Types DEF Record, WorkerInv, Between
<1>2. UNCHANGED <<setting, recovery, bounds, restored, removed, touched, late, fs, time, moved, leased>>
  BY DEF Record, fixed
<1>3. CASE batch' = [batch EXCEPT ![i].record = evidence, ![i].cleanup = cleanup] /\ Goes("succeed")
  <2>1. evidence \in Entries
    BY <1>1, Types DEF Workers
  <2>2. cleanup \in Cleanups
    BY DEF Cleanups
  <2>3. batch[i] \in Batches
    BY <1>1, Types
  <2> HIDE DEF evidence, cleanup
  <2>4. batch' = [batch EXCEPT ![i] = row]
    <3>1. batch \in [Steps -> Batches]
      BY Types
    <3>2. batch' = [batch EXCEPT ![i] = batch'[i]]
      BY <1>1, <1>3, <3>1
    <3>3. batch'[i] = row
      BY <1>1, <1>3, <3>1
    <3> QED
      BY <3>2, <3>3
  <2>5. row \in Batches /\ row.phase = batch[i].phase
    BY <2>1, <2>2, <2>3 DEF Batches
  <2> HIDE DEF row
  <2>6. /\ batch' \in [Steps -> Batches]
        /\ \A j \in Steps : batch'[j].phase \in Recovered => batch'[j].phase = batch[j].phase
    BY <1>1, <2>4, <2>5, RowStep
  <2>7. [worker EXCEPT !.pc = "succeed"] \in Workers
    BY Types DEF Workers
  <2> QED
    BY <1>1, <1>2, <1>3, <2>6, <2>7, GoesStep
<1>4. CASE RecordsNothing(i)
  BY <1>1, <1>2, <1>4, RecordsNothingInv
<1> QED
  BY <1>3, <1>4 DEF Record

LEMMA SucceedInv ==
  ASSUME Inv, Succeed PROVE Inv'
<1> DEFINE i == worker.step
           row == [batch[i] EXCEPT !.phase = "succeeded"]
<1>1. i \in Steps /\ worker.pc = "succeed" /\ i + 1 \in 1..Len(program) + 1 /\ i + 1 \in Nat
  <2>1. worker.pc = "succeed" /\ worker.pc \notin Between
    BY DEF Succeed, Between
  <2>2. i \in 1..Len(program) /\ Len(program) \in Nat
    BY <2>1, Types DEF WorkerInv, Steps
  <2> HIDE DEF i
  <2> QED
    BY <2>1, <2>2 DEF Steps
<1>2. UNCHANGED <<setting, recovery, bounds, restored, removed, touched, late, fs, time, moved, leased>>
  BY DEF Succeed, fixed
<1>3. CASE /\ batch' = [batch EXCEPT ![i].phase = "succeeded"]
           /\ worker' = [worker EXCEPT !.pc = "begin", !.step = i + 1]
  <2>1. row \in Batches /\ row.phase \notin Recovered
    BY <1>1, Types, NewPhase DEF Phases, Recovered
  <2>2. batch' = [batch EXCEPT ![i] = row]
    BY <1>3
  <2> HIDE DEF row
  <2>3. /\ batch' \in [Steps -> Batches]
        /\ \A j \in Steps : batch'[j].phase \in Recovered => batch'[j].phase = batch[j].phase
    BY <1>1, <2>1, <2>2, RowStep
  <2>4. worker' \in Workers /\ worker'.pc = "begin" /\ worker'.step = i + 1
    BY <1>1, <1>3, Types DEF Workers
  <2> QED
    BY <1>1, <1>2, <2>3, <2>4, QuietStep DEF Between
<1>4. CASE RecordsNothing(i)
  BY <1>1, <1>2, <1>4, RecordsNothingInv
<1> QED
  BY <1>3, <1>4 DEF Succeed

LEMMA CommitInv ==
  ASSUME Inv, Commit PROVE Inv'
<1>1. UNCHANGED <<setting, recovery, bounds, restored, removed, touched, late, fs, time, moved, leased, batch>>
      /\ Goes("clean") /\ worker.pc = "begin"
  BY DEF Commit, fixed, journal
<1>2. [worker EXCEPT !.pc = "clean"] \in Workers
  BY Types DEF Workers
<1> QED
  BY <1>1, <1>2, Types, GoesStep DEF Between

LEMMA CleanUpInv ==
  ASSUME Inv, CleanUp PROVE Inv'
<1>1. UNCHANGED <<setting, recovery, bounds, restored, removed, touched, late, fs, time, moved, leased>>
      /\ worker.pc = "clean"
  BY DEF CleanUp, fixed
<1>2. PICK i \in ToClean, status \in {"attempting", "manual", "skipped"} :
        /\ batch' = [batch EXCEPT ![i].cleanup = status]
        /\ worker' = [worker EXCEPT !.pc = "remove", !.step = i] \/ UNCHANGED worker
  BY DEF CleanUp
<1> DEFINE row == [batch[i] EXCEPT !.cleanup = status]
<1>3. i \in Steps
  BY DEF ToClean
<1>4. row \in Batches /\ row.phase = batch[i].phase
  <2>1. batch[i] \in Batches
    BY <1>3, Types
  <2> QED
    BY <2>1 DEF Batches, Cleanups
<1>5. batch' = [batch EXCEPT ![i] = row]
  BY <1>2
<1> HIDE DEF row
<1>6. /\ batch' \in [Steps -> Batches]
      /\ \A j \in Steps : batch'[j].phase \in Recovered => batch'[j].phase = batch[j].phase
  BY <1>3, <1>4, <1>5, RowStep
<1>7. i \in 1..Len(program) + 1 /\ i \in Nat
  BY <1>3, Types DEF Steps
<1>8. CASE worker' = [worker EXCEPT !.pc = "remove", !.step = i]
  <2>1. worker' \in Workers /\ worker'.pc = "remove" /\ worker'.step = i
    BY <1>7, <1>8, Types DEF Workers
  <2> QED
    BY <1>1, <1>3, <1>6, <1>7, <2>1, QuietStep
<1>9. CASE UNCHANGED worker
  <2>1. worker.step \in 1..Len(program) + 1
    BY Types DEF WorkerInv
  <2> QED
    BY <1>1, <1>6, <1>9, <2>1, Types, QuietStep DEF Between
<1> QED
  BY <1>2, <1>8, <1>9

\* An entry that is removed was an empty directory.
LEMMA RemoveStep ==
  ASSUME Inv, NEW p \in Paths, NEW e, Removable(p, e), Fs(Removed(p)), removed' = removed \cup {fs[p].id}
  PROVE  /\ OwnChange /\ removed' \subseteq 1..time' /\ time' = time + 1
         /\ \A q \in Paths : fs'[q].id \in {fs[q].id, 0}
<1>1. IsDirectory(p) /\ IsEmpty(p) /\ fs' = [fs EXCEPT ![p] = Nothing] /\ time' = time + 1
  BY DEF Removable, SameDirectory, IsDirectory, Fs, Removed
<1>2. OwnChange
  BY <1>1 DEF OwnChange, Removes, Fs
<1>3. fs[p].id \in 1..time
  BY <1>1, Types, TreeEntry DEF IsDirectory, Exists
<1>4. removed' \subseteq 1..time'
  BY <1>1, <1>3, Types
<1>5. \A q \in Paths : fs'[q].id \in {fs[q].id, 0}
  BY <1>1, Types, EntryTypes DEF TreeInv, IsTree
<1> QED
  BY <1>1, <1>2, <1>4, <1>5

LEMMA RemoveCapturedInv ==
  ASSUME Inv, RemoveCaptured PROVE Inv' /\ OwnChange
<1> DEFINE i == worker.step
           p == Target(i)
<1>1. i \in Steps /\ p \in Paths /\ worker.pc = "remove" /\ i \in 1..Len(program) + 1
  BY Types DEF RemoveCaptured, WorkerInv, Between
<1>2. UNCHANGED <<setting, recovery, bounds, restored, touched, late, moved, leased>> /\ Goes("clean")
  BY DEF RemoveCaptured
<1>3. /\ OwnChange /\ removed' \subseteq 1..time' /\ (time' = time \/ time' = time + 1)
      /\ \A q \in Paths : fs'[q].id \in {fs[q].id, 0}
  <2>1. CASE Removable(p, batch[i].record)
    BY <1>1, <2>1, RemoveStep DEF RemoveCaptured
  <2>2. CASE UNCHANGED <<fs, time, removed>>
    BY <2>2, Types DEF OwnChange
  <2> QED
    BY <2>1, <2>2 DEF RemoveCaptured
<1>4. BatchInv' /\ \A j \in Steps : batch'[j].phase = batch[j].phase
  <2> DEFINE outcome == CASE Removable(p, batch[i].record) -> "succeeded"
                          [] ~Exists(p) -> "skipped"
                          [] OTHER -> "manual"
             row == [batch[i] EXCEPT !.cleanup = outcome]
  <2>1. batch' = [batch EXCEPT ![i] = row] \/ UNCHANGED batch
    BY DEF RemoveCaptured
  <2>3. batch[i] \in Batches /\ outcome \in Cleanups
    BY <1>1, Types DEF Cleanups
  <2> HIDE DEF outcome
  <2>4. row \in Batches /\ row.phase = batch[i].phase
    BY <2>3 DEF Batches
  <2> HIDE DEF row
  <2>2. batch' \in [Steps -> Batches] /\ \A j \in Steps : batch'[j].phase = batch[j].phase
    BY <1>1, <2>1, <2>4, Types
  <2> QED
    BY <1>2, <2>2, SameProgram DEF BatchInv
<1>5. WorkerInv'
  BY <1>1, <1>2, Types, SameProgram DEF WorkerInv, Workers, Goes, setting, Between
<1>6. \A j \in Steps : Leaves(j) /\ moved'[j] = moved[j]
  BY <1>2, <1>3, Types DEF Leaves
<1>7. moved' \in [Steps -> 0..time']
  BY <1>2, <1>3, Types
<1> QED
  BY <1>1, <1>2, <1>3, <1>4, <1>5, <1>6, <1>7, WorkerStep

LEMMA LeaveInv ==
  ASSUME Inv, Leave PROVE Inv'
<1>1. UNCHANGED <<setting, recovery, bounds, restored, removed, touched, late, fs, time, moved, batch>>
      /\ leased' = FALSE /\ worker.pc = "clean"
  BY DEF Leave, fixed
<1>2. PICK pc \in {"done", "ended"} : Goes(pc)
  BY DEF Leave
<1>3. [worker EXCEPT !.pc = pc] \in Workers
  BY Types DEF Workers
<1> QED
  BY <1>1, <1>2, <1>3, Types, GoesStep DEF Between

LEMMA LoseLeaseInv ==
  ASSUME Inv, LoseLease PROVE Inv'
<1>1. UNCHANGED <<setting, recovery, bounds, restored, removed, touched, late, fs, time, moved, batch, worker>>
      /\ leased' = FALSE
  BY DEF LoseLease, fixed
<1>2. worker.step \in 1..Len(program) + 1 /\ (worker.pc \notin Between => worker.step \in Steps)
  BY Types DEF WorkerInv
<1> QED
  BY <1>1, <1>2, Types, QuietStep

LEMMA RestingTypes ==
  /\ None \in [Steps -> Phases] /\ Resting \in Recoveries
  /\ Resting.pc = "idle" /\ Resting.plan = <<>> /\ PlanOK(<<>>)
BY DEF None, Phases, Resting, Recoveries, PlanOK

\* A recovery that is between two batches.
LEMMA RestingState ==
  ASSUME NEW pc \in {"idle", "next", "ended"}, NEW list \in [Steps -> Phases]
  PROVE  LET state == [Resting EXCEPT !.pc = pc, !.listed = list]
         IN  state \in Recoveries /\ state.pc = pc /\ state.plan = <<>> /\ state.listed = list
BY RestingTypes DEF Recoveries

LEMMA BetweenBatches ==
  ASSUME NEW r \in Actors, NEW state \in Recoveries, state.pc \notin Busy, state.plan = <<>>,
         UNCHANGED setting, recovery \in [Actors -> Recoveries], Recovering(r, state)
  PROVE  /\ RecoveryInv(r)' /\ recovery'[r] = state
         /\ recovery' = [recovery EXCEPT ![r] = recovery'[r]]
<1>1. recovery'[r] = state
  BY DEF Recovering
<1>2. Steps' = Steps /\ Recoveries' = Recoveries
  BY SameProgram
<1>3. Len(<<>>) = 0
  OBVIOUS
<1> QED
  BY <1>1, <1>2, <1>3 DEF RecoveryInv, PlanOK, Busy, Recovering

LEMMA BeginRollbackInv ==
  ASSUME Inv, BeginRollback PROVE Inv'
<1> DEFINE mine == {i \in Steps : batch[i].phase \in {"failed", "recovery_desired", "succeeded"}}
           list == [i \in Steps |-> IF i \in mine THEN "recovery_desired" ELSE "none"]
           state == [Resting EXCEPT !.pc = "next", !.listed = list]
<1>1. UNCHANGED <<setting, fs, time, leased, bounds, moved, restored, removed, touched, late>>
      /\ worker.pc = "rollback" /\ Goes("ended")
  BY DEF BeginRollback, history
<1>2. CASE ~leased /\ UNCHANGED <<batch, recovery>>
  <2>1. [worker EXCEPT !.pc = "ended"] \in Workers
    BY Types DEF Workers
  <2> QED
    BY <1>1, <1>2, <2>1, Types, GoesStep DEF Between
<1>3. CASE /\ leased
           /\ batch' = [i \in Steps |-> IF i \in mine THEN [batch[i] EXCEPT !.phase = "recovery_desired"]
                                                     ELSE batch[i]]
           /\ Recovering("rollback", state)
  <2>1. /\ Steps' = Steps /\ Recoveries' = Recoveries
        /\ \A i : Unchained(i)' = Unchained(i) /\ Moves(i)' = Moves(i)
    BY <1>1, SameProgram
  <2>2. TreeInv' /\ HistoryInv' /\ BoundsInv'
    BY <1>1, <2>1, Types DEF TreeInv, IsTree, HistoryInv, BoundsInv, setting, bounds
  <2>3. WorkerInv' /\ worker'.pc = "ended"
    BY <1>1, <2>1, Types DEF WorkerInv, Workers, Goes, Between, setting
  <2>4. batch' \in [Steps -> Batches]
    <3>1. \A i \in Steps : batch[i] \in Batches /\ [batch[i] EXCEPT !.phase = "recovery_desired"] \in Batches
      BY Types, NewPhase DEF Phases
    <3> HIDE DEF mine
    <3> QED
      BY <1>3, <3>1
  <2>5. RecoveryInv("rollback")' /\ recovery'["rollback"].pc = "next"
        /\ recovery' = [recovery EXCEPT !["rollback"] = recovery'["rollback"]]
    <3>1. list \in [Steps -> Phases]
      BY DEF Phases
    <3> HIDE DEF list
    <3>2. "rollback" \in Actors /\ recovery \in [Actors -> Recoveries]
      BY Types DEF Actors, RecoveriesInv
    <3>3. state \in Recoveries /\ state.pc = "next" /\ state.plan = <<>>
      BY <3>1, RestingState
    <3>4. Recovering("rollback", state) /\ UNCHANGED setting
      BY <1>1, <1>3
    <3> HIDE DEF state
    <3> QED
      BY <3>2, <3>3, <3>4, BetweenBatches DEF Busy
  <2>6. recovery'["workspace"] = recovery["workspace"] /\ recovery["workspace"].pc = "idle"
    BY <1>3, <2>5, Types DEF LeaseInv, RecoveriesInv, Actors
  <2>7. RecoveriesInv'
    <3>1. RecoveryInv("workspace")'
      BY <2>1, <2>6, Types DEF RecoveriesInv, RecoveryInv, Actors, PlanOK, Busy
    <3>2. recovery'["rollback"] \in Recoveries
      BY <2>1, <2>5 DEF RecoveryInv
    <3>3. recovery' \in [Actors -> Recoveries]
      BY <2>5, <3>2, Types DEF RecoveriesInv, Actors
    <3> QED
      BY <2>1, <2>5, <3>1, <3>3 DEF RecoveriesInv, Actors
  <2>8. LeaseInv'
    BY <2>3, <2>6 DEF LeaseInv
  <2>9. UndoneInv'
    <3>1. ASSUME NEW i \in Steps PROVE ~Finishing(i)'
      <4>1. batch[i].phase \notin Recovered
        BY <1>1, <1>3, Types DEF LeaseInv
      <4>2. batch'[i].phase # "recovered"
        BY <1>3, <4>1, Types DEF Recovered, Batches
      <4> QED
        BY <2>5, <2>6, <4>2 DEF Finishing, Actors
    <3> QED
      BY <2>1, <3>1 DEF UndoneInv
  <2> QED
    BY <2>1, <2>2, <2>3, <2>4, <2>7, <2>8, <2>9 DEF Inv, BatchInv
<1> QED
  BY <1>2, <1>3 DEF BeginRollback

-----------------------------------------------------------------------------
(* The plans of a recovery *)

LEMMA ActionTypes ==
  ASSUME Inv, NEW i \in Steps, NEW do \in {"rename", "capture", "remove", "manual"}, NEW want \in Entries
  PROVE  LET a == [do |-> do, step |-> i, want |-> want]
         IN  a \in Actions /\ a.do = do /\ a.step = i
BY Types DEF Actions

LEMMA OneAction ==
  ASSUME NEW a \in Actions, a.step \in Steps, a.do \in {"rename", "capture"} => Moves(a.step)
  PROVE  <<a>> \in Seq(Actions) /\ PlanOK(<<a>>) /\ Len(<<a>>) = 1 /\ Head(<<a>>) = a
<1>1. <<a>> \in Seq(Actions) /\ Len(<<a>>) = 1 /\ Head(<<a>>) = a /\ <<a>>[1] = a
  OBVIOUS
<1>2. \A k \in 1..Len(<<a>>) : <<a>>[k] = a
  BY <1>1
<1> QED
  BY <1>1, <1>2 DEF PlanOK

LEMMA PlansConcat ==
  ASSUME NEW s \in Seq(Actions), NEW t \in Seq(Actions), PlanOK(s), PlanOK(t)
  PROVE  s \o t \in Seq(Actions) /\ PlanOK(s \o t)
<1>1. /\ s \o t \in Seq(Actions) /\ Len(s) \in Nat /\ Len(t) \in Nat
      /\ Len(s \o t) = Len(s) + Len(t)
      /\ \A k \in 1..Len(s) + Len(t) : (s \o t)[k] = IF k <= Len(s) THEN s[k] ELSE t[k - Len(s)]
  BY ConcatProperties
<1>2. ASSUME NEW k \in 1..Len(s \o t)
      PROVE  \/ \E j \in 1..Len(s) : (s \o t)[k] = s[j]
             \/ \E j \in 1..Len(t) : (s \o t)[k] = t[j]
  <2>1. k \in 1..Len(s) + Len(t)
    BY <1>1
  <2>2. CASE k <= Len(s)
    BY <1>1, <2>1, <2>2
  <2>3. CASE ~(k <= Len(s))
    <3>1. k - Len(s) \in 1..Len(t)
      BY <1>1, <2>1, <2>3
    <3> QED
      BY <1>1, <2>1, <2>3, <3>1
  <2> QED
    BY <2>2, <2>3
<1> QED
  BY <1>1, <1>2 DEF PlanOK

\* Every place in the order from the newest has its step.
LEMMA NewestFirstMembers ==
  ASSUME Inv, NEW S \in SUBSET Steps
  PROVE  /\ Cardinality(S) \in Nat /\ DOMAIN NewestFirst(S) = 1..Cardinality(S)
         /\ \A k \in 1..Cardinality(S) : NewestFirst(S)[k] \in S
<1>1. S \in SUBSET Nat /\ IsFiniteSet(S)
  BY Types, FS_Subset
<1>2. Cardinality(S) \in Nat
  BY <1>1, FS_CardinalityType
<1>3. ASSUME NEW k \in 1..Cardinality(S) PROVE NewestFirst(S)[k] \in S
  <2>1. k - 1 \in Nat /\ k - 1 < Cardinality(S)
    BY <1>2
  <2>2. \E j \in S : Rank(S, j) = k - 1
    BY <1>1, <2>1, RanksAreTaken
  <2>3. \E j \in S : Cardinality({l \in S : l > j}) = k - 1
    BY <2>2 DEF Rank, Newer
  <2> QED
    BY <2>3 DEF NewestFirst
<1> QED
  BY <1>2, <1>3 DEF NewestFirst

LEMMA DirectPlanTypes ==
  ASSUME Inv, NEW i \in Steps
  PROVE  DirectPlan(i) \in Seq(Actions) /\ PlanOK(DirectPlan(i))
<1>1. batch[i].record \in Entries
  BY Types DEF Batches
<1>2. Action("remove", i) \in Actions /\ Action("remove", i).step = i /\ Action("remove", i).do = "remove"
  BY <1>1, ActionTypes DEF Action
<1>3. <<Action("remove", i)>> \in Seq(Actions) /\ PlanOK(<<Action("remove", i)>>)
  BY <1>2, OneAction
<1>4. <<>> \in Seq(Actions) /\ PlanOK(<<>>)
  BY RestingTypes
<1> QED
  BY <1>3, <1>4 DEF DirectPlan

LEMMA ManualTypes ==
  ASSUME Inv, NEW i \in Steps
  PROVE  /\ Manual(i) \in Seq(Actions) /\ PlanOK(Manual(i))
         /\ Len(Manual(i)) = 1 /\ Head(Manual(i)).step = i /\ Head(Manual(i)).do # "remove"
<1>1. batch[i].record \in Entries
  BY Types DEF Batches
<1>2. Action("manual", i) \in Actions /\ Action("manual", i).step = i /\ Action("manual", i).do = "manual"
  BY <1>1, ActionTypes DEF Action
<1> QED
  BY <1>2, OneAction DEF Manual

LEMMA MakePlanTypes ==
  ASSUME Inv, NEW i \in Steps
  PROVE  MakePlan(i) \in Seq(Actions) /\ PlanOK(MakePlan(i))
<1> DEFINE S == ProvenPriors(i)
           priors == NewestFirst(S)
           rest == [k \in DOMAIN priors |-> Action("remove", priors[k])]
<1>1. S \in SUBSET Steps
  BY DEF ProvenPriors, Priors, GroupOf
<1>2. /\ Cardinality(S) \in Nat /\ DOMAIN priors = 1..Cardinality(S)
      /\ \A k \in 1..Cardinality(S) : priors[k] \in S
  BY <1>1, NewestFirstMembers
<1> HIDE DEF S, priors
<1>3. ASSUME NEW j \in Steps
      PROVE  Action("remove", j) \in Actions /\ Action("remove", j).step = j /\ Action("remove", j).do = "remove"
  <2>1. batch[j].record \in Entries
    BY Types DEF Batches
  <2> QED
    BY <2>1, ActionTypes DEF Action
<1>4. \A k \in 1..Cardinality(S) :
        /\ rest[k] \in Actions /\ rest[k].step \in Steps /\ rest[k].do = "remove"
  BY <1>1, <1>2, <1>3
<1>5. rest \in Seq(Actions) /\ Len(rest) = Cardinality(S)
  <2>1. rest \in [1..Cardinality(S) -> Actions]
    BY <1>2, <1>4
  <2> QED
    BY <1>2, <2>1
<1>6. PlanOK(rest)
  BY <1>4, <1>5 DEF PlanOK
<1>7. MakePlan(i) \in {DirectPlan(i), Manual(i), DirectPlan(i) \o rest}
  BY DEF MakePlan, S, priors
<1> HIDE DEF rest
<1>8. DirectPlan(i) \in Seq(Actions) /\ PlanOK(DirectPlan(i))
  BY DirectPlanTypes
<1>9. Manual(i) \in Seq(Actions) /\ PlanOK(Manual(i))
  BY ManualTypes
<1>10. DirectPlan(i) \o rest \in Seq(Actions) /\ PlanOK(DirectPlan(i) \o rest)
  BY <1>5, <1>6, <1>8, PlansConcat
<1> QED
  BY <1>7, <1>8, <1>9, <1>10

LEMMA PlanTypes ==
  ASSUME Inv, NEW i \in Steps
  PROVE  /\ PlanOf(i) \in Seq(Actions) /\ PlanOK(PlanOf(i))
         /\ Moves(i) => /\ Len(PlanOf(i)) = 1
                        /\ Head(PlanOf(i)).step = i /\ Head(PlanOf(i)).do # "remove"
<1>0. batch[i].record \in Entries /\ batch[i].before \in Entries /\ program[i].op \in Operations
  BY Types DEF Batches
<1> DEFINE Single(plan) == /\ plan \in Seq(Actions) /\ PlanOK(plan)
                           /\ Len(plan) = 1 /\ Head(plan).step = i /\ Head(plan).do # "remove"
<1>1. ASSUME Moves(i), NEW do \in {"rename", "capture"}, NEW want \in Entries
      PROVE  Single(<<[do |-> do, step |-> i, want |-> want]>>)
  BY <1>1, ActionTypes, OneAction
<1>2. Single(Manual(i))
  BY ManualTypes
<1>3. CASE program[i].op = "rename"
  <2>1. PlanOf(i) = <<Action("rename", i)>> \/ PlanOf(i) = Manual(i)
    BY <1>3 DEF PlanOf, RenamePlan
  <2>2. Single(<<Action("rename", i)>>)
    BY <1>0, <1>1, <1>3 DEF Action, Moves
  <2> QED
    BY <1>2, <2>1, <2>2
<1>4. CASE program[i].op = "capture"
  <2>1. \/ PlanOf(i) = <<Action("capture", i)>>
        \/ PlanOf(i) = <<[Action("capture", i) EXCEPT !.want = batch[i].before]>>
        \/ PlanOf(i) = Manual(i)
    BY <1>4 DEF PlanOf, CapturePlan
  <2>2. Single(<<Action("capture", i)>>)
    BY <1>0, <1>1, <1>4 DEF Action, Moves
  <2>3. [Action("capture", i) EXCEPT !.want = batch[i].before] = [do |-> "capture", step |-> i, want |-> batch[i].before]
    BY DEF Action
  <2>4. Single(<<[Action("capture", i) EXCEPT !.want = batch[i].before]>>)
    BY <1>0, <1>1, <1>4, <2>3 DEF Moves
  <2> QED
    BY <1>2, <2>1, <2>2, <2>4
<1>5. CASE program[i].op = "make"
  <2>1. PlanOf(i) = MakePlan(i) /\ ~Moves(i)
    BY <1>5 DEF PlanOf, Moves
  <2> QED
    BY <2>1, MakePlanTypes
<1> QED
  BY <1>0, <1>3, <1>4, <1>5 DEF Operations

-----------------------------------------------------------------------------
(* The steps of a recovery *)

LEMMA RecoveryTypes ==
  ASSUME Inv, NEW r \in Actors
  PROVE  /\ recovery \in [Actors -> Recoveries] /\ recovery[r] \in Recoveries
         /\ recovery[r].plan \in Seq(Actions) /\ recovery[r].listed \in [Steps -> Phases]
         /\ PlanOK(recovery[r].plan)
         /\ recovery[r].pc \in Busy => recovery[r].at \in Steps
         /\ recovery[r].plan # <<>> =>
               /\ Current(r) \in Actions /\ Current(r).step \in Steps
               /\ Current(r).do \in {"rename", "capture"} => Moves(Current(r).step)
               /\ Tail(recovery[r].plan) \in Seq(Actions) /\ PlanOK(Tail(recovery[r].plan))
         /\ (recovery[r].plan # <<>> /\ recovery[r].pc \in Busy /\ Moves(recovery[r].at)) =>
               /\ Tail(recovery[r].plan) = <<>>
               /\ Current(r).step = recovery[r].at /\ Current(r).do # "remove"
<1>1. recovery \in [Actors -> Recoveries] /\ RecoveryInv(r)
  BY Types DEF RecoveriesInv
<1>2. recovery[r].plan \in Seq(Actions) /\ recovery[r].listed \in [Steps -> Phases]
  BY <1>1 DEF Recoveries
<1> DEFINE plan == recovery[r].plan
<1>3. ASSUME plan # <<>>
      PROVE  /\ Len(plan) \in Nat /\ Head(plan) = plan[1] /\ 1 \in 1..Len(plan) /\ Head(plan) \in Actions
             /\ Tail(plan) \in Seq(Actions) /\ Len(Tail(plan)) = Len(plan) - 1
             /\ \A k \in 1..Len(plan) - 1 : Tail(plan)[k] = plan[k + 1]
  BY <1>2, <1>3
<1>4. PlanOK(plan)
  BY <1>1 DEF RecoveryInv
<1>5. plan # <<>> => PlanOK(Tail(plan))
  <2> SUFFICES ASSUME plan # <<>>, NEW k \in 1..Len(Tail(plan))
               PROVE  \E j \in 1..Len(plan) : Tail(plan)[k] = plan[j]
    BY <1>4 DEF PlanOK
  <2>1. k \in 1..Len(plan) - 1 /\ k + 1 \in 1..Len(plan)
    BY <1>3
  <2> QED
    BY <1>3, <2>1
<1>6. plan # <<>> /\ Len(plan) = 1 => Tail(plan) = <<>>
  <2> SUFFICES ASSUME plan # <<>>, Len(plan) = 1 PROVE Tail(plan) = <<>>
    OBVIOUS
  <2>1. Tail(plan) \in Seq(Actions) /\ Len(Tail(plan)) = 0
    BY <1>3
  <2> QED
    BY <2>1, EmptySeq
<1> HIDE DEF plan
<1>7. plan # <<>> => /\ Head(plan) \in Actions /\ Head(plan).step \in Steps
                     /\ Head(plan).do \in {"rename", "capture"} => Moves(Head(plan).step)
                     /\ Tail(plan) \in Seq(Actions)
  BY <1>3, <1>4 DEF PlanOK
<1> QED
  BY <1>1, <1>2, <1>4, <1>5, <1>6, <1>7 DEF plan, RecoveryInv, Current

\* A recovery whose state is replaced as a whole.
LEMMA NewState ==
  ASSUME Inv, NEW r \in Actors, UNCHANGED setting, recovery' = [recovery EXCEPT ![r] = recovery'[r]],
         recovery'[r] \in Recoveries, PlanOK(recovery'[r].plan),
         recovery'[r].pc \in Busy =>
            /\ recovery'[r].at \in Steps
            /\ Moves(recovery'[r].at) =>
                  \/ recovery'[r].plan = <<>>
                  \/ /\ Len(recovery'[r].plan) = 1
                     /\ Head(recovery'[r].plan).step = recovery'[r].at
                     /\ Head(recovery'[r].plan).do # "remove",
         recovery'[r].pc \in {"act", "verify"} =>
            recovery'[r].plan # <<>> /\ Head(recovery'[r].plan).do # "manual"
  PROVE  RecoveryInv(r)'
<1>1. /\ Steps' = Steps /\ Recoveries' = Recoveries
      /\ \A i : Moves(i)' = Moves(i)
  BY SameProgram
<1> QED
  BY <1>1 DEF RecoveryInv, PlanOK, Current

\* An action is over.
LEMMA DoneState ==
  ASSUME Inv, NEW r \in Actors, recovery[r].pc \in Busy, recovery[r].plan # <<>>, Done(r), UNCHANGED setting
  PROVE  /\ RecoveryInv(r)' /\ recovery' = [recovery EXCEPT ![r] = recovery'[r]]
         /\ recovery'[r].pc = "check" /\ recovery'[r].at = recovery[r].at
         /\ Moves(recovery[r].at) => Current(r).step = recovery[r].at /\ Current(r).do # "remove"
         /\ UNCHANGED batch
<1>1. /\ recovery'[r] = [recovery[r] EXCEPT !.pc = "check", !.plan = Tail(recovery[r].plan)]
      /\ recovery' = [recovery EXCEPT ![r] = recovery'[r]]
  BY RecoveryTypes DEF Done
<1>2. /\ recovery'[r] \in Recoveries /\ recovery'[r].pc = "check" /\ recovery'[r].at = recovery[r].at
      /\ recovery'[r].plan = Tail(recovery[r].plan)
  BY <1>1, RecoveryTypes DEF Recoveries
<1>3. RecoveryInv(r)'
  BY <1>1, <1>2, RecoveryTypes, NewState
<1> QED
  BY <1>1, <1>2, <1>3, RecoveryTypes DEF Done

\* An action goes on.
LEMMA GoesOnState ==
  ASSUME Inv, NEW r \in Actors, recovery[r].pc \in Busy, recovery[r].plan # <<>>, Current(r).do # "manual",
         NEW pc \in {"act", "verify"}, recovery' = [recovery EXCEPT ![r].pc = pc], UNCHANGED setting
  PROVE  /\ RecoveryInv(r)' /\ recovery' = [recovery EXCEPT ![r] = recovery'[r]]
         /\ recovery'[r].pc = pc
<1>1. /\ recovery'[r] = [recovery[r] EXCEPT !.pc = pc]
      /\ recovery' = [recovery EXCEPT ![r] = recovery'[r]]
  BY RecoveryTypes
<1>2. /\ recovery'[r] \in Recoveries /\ recovery'[r].pc = pc /\ recovery'[r].at = recovery[r].at
      /\ recovery'[r].plan = recovery[r].plan
  BY <1>1, RecoveryTypes DEF Recoveries
<1>3. RecoveryInv(r)
  BY Types DEF RecoveriesInv
<1>4. RecoveryInv(r)'
  BY <1>1, <1>2, <1>3, NewState DEF RecoveryInv, Current
<1> QED
  BY <1>1, <1>2, <1>4

\* A recovery leaves its batch, which gets a phase if it has the lease.
LeavesBatch(r, phase) ==
    LET over == [Resting EXCEPT !.pc = "next", !.listed = recovery[r].listed]
    IN  IF HasLease(r)
        THEN batch' = [batch EXCEPT ![recovery[r].at].phase = phase] /\ Recovering(r, over)
        ELSE Recovering(r, [over EXCEPT !.pc = "ended"]) /\ UNCHANGED batch

LEMMA LeavesBatchState ==
  ASSUME Inv, NEW r \in Actors, recovery[r].pc \in Busy, NEW phase \in Phases, LeavesBatch(r, phase),
         UNCHANGED setting
  PROVE  /\ RecoveryInv(r)' /\ recovery' = [recovery EXCEPT ![r] = recovery'[r]]
         /\ recovery'[r].pc \in {"next", "ended"} /\ BatchInv'
         /\ \A i \in Steps : batch'[i].phase = batch[i].phase \/ (i = recovery[r].at /\ batch'[i].phase = phase)
<1> DEFINE list == recovery[r].listed
           over == [Resting EXCEPT !.pc = "next", !.listed = list]
           last == [Resting EXCEPT !.pc = "ended", !.listed = list]
<1>1. list \in [Steps -> Phases] /\ recovery[r].at \in Steps /\ recovery \in [Actors -> Recoveries]
  BY RecoveryTypes
<1>2. /\ over \in Recoveries /\ over.pc = "next" /\ over.plan = <<>>
      /\ last \in Recoveries /\ last.pc = "ended" /\ last.plan = <<>>
  BY <1>1, RestingState
<1>3. Recovering(r, over) \/ Recovering(r, last)
  <2>1. [over EXCEPT !.pc = "ended"] = last
    BY DEF Resting
  <2> QED
    BY <2>1 DEF LeavesBatch
<1> HIDE DEF over, last
<1>4. /\ RecoveryInv(r)' /\ recovery' = [recovery EXCEPT ![r] = recovery'[r]]
      /\ recovery'[r].pc \in {"next", "ended"}
  <2>1. CASE Recovering(r, over)
    BY <1>1, <1>2, <2>1, BetweenBatches DEF Busy
  <2>2. CASE Recovering(r, last)
    BY <1>1, <1>2, <2>2, BetweenBatches DEF Busy
  <2> QED
    BY <1>3, <2>1, <2>2
<1>5. batch' = [batch EXCEPT ![recovery[r].at].phase = phase] \/ UNCHANGED batch
  BY DEF LeavesBatch
<1>6. /\ batch' \in [Steps -> Batches]
      /\ \A i \in Steps : batch'[i].phase = batch[i].phase \/ (i = recovery[r].at /\ batch'[i].phase = phase)
  BY <1>1, <1>5, Types DEF Batches
<1> QED
  BY <1>4, <1>6, SameProgram DEF BatchInv

LEMMA NextBatchStep ==
  ASSUME Inv, NEW r \in Actors, Todo(r) # {}
  PROVE  NextBatch(r) \in Steps
<1>1. Todo(r) \in SUBSET Steps
  BY DEF Todo
<1>2. Todo(r) \in SUBSET Nat /\ IsFiniteSet(Todo(r))
  BY <1>1, Types, FS_Subset
<1> QED
  BY <1>1, <1>2, MaxOf DEF NextBatch

LEMMA StartBatchInv ==
  ASSUME Inv, NEW r \in Actors, StartBatch(r) PROVE Inv'
<1> DEFINE i == NextBatch(r)
           rest == [recovery[r].listed EXCEPT ![i] = "none"]
           started == [pc |-> "check", listed |-> rest, at |-> i, plan |-> PlanOf(i)]
           passed == [Resting EXCEPT !.pc = "next", !.listed = rest]
<1>1. i \in Steps /\ recovery[r].pc = "next"
  BY NextBatchStep DEF StartBatch
<1>2. UNCHANGED <<setting, fs, time, worker, leased, outside, crashes, moved, restored, removed, touched, late>>
  BY DEF StartBatch, bounds, history
<1>3. rest \in [Steps -> Phases] /\ recovery \in [Actors -> Recoveries]
  BY <1>1, RecoveryTypes DEF Phases
<1>4. \/ Recovering(r, started) /\ batch' = [batch EXCEPT ![i].phase = "recovering"]
      \/ Recovering(r, passed) /\ UNCHANGED batch
  BY DEF StartBatch
<1>5. /\ PlanOf(i) \in Seq(Actions) /\ PlanOK(PlanOf(i))
      /\ Moves(i) => /\ Len(PlanOf(i)) = 1
                     /\ Head(PlanOf(i)).step = i /\ Head(PlanOf(i)).do # "remove"
  BY <1>1, PlanTypes
<1>6. passed \in Recoveries /\ passed.pc = "next" /\ passed.plan = <<>>
  BY <1>3, RestingState
<1>7. started \in Recoveries /\ started.pc = "check" /\ started.at = i /\ started.plan = PlanOf(i)
  BY <1>1, <1>3, <1>5, Types DEF Recoveries
<1> HIDE DEF i, rest, started, passed
<1>8. /\ RecoveryInv(r)' /\ recovery' = [recovery EXCEPT ![r] = recovery'[r]]
      /\ recovery'[r].pc # "idle"
      /\ recovery'[r].pc = "check" /\ Moves(recovery'[r].at) => recovery'[r].plan # <<>>
  <2>1. CASE Recovering(r, passed)
    BY <1>2, <1>3, <1>6, <2>1, BetweenBatches DEF Busy
  <2>2. CASE Recovering(r, started)
    <3>1. recovery'[r] = started /\ recovery' = [recovery EXCEPT ![r] = recovery'[r]]
      BY <1>3, <2>2 DEF Recovering
    <3>2. RecoveryInv(r)'
      BY <1>1, <1>2, <1>5, <1>7, <3>1, NewState
    <3>3. Len(<<>>) # 1
      OBVIOUS
    <3> QED
      BY <1>5, <1>7, <3>1, <3>2, <3>3
  <2> QED
    BY <1>4, <2>1, <2>2
<1>9. BatchInv' /\ \A j \in Steps : batch'[j].phase = "recovered" => batch[j].phase = "recovered"
  <2>1. [batch[i] EXCEPT !.phase = "recovering"] \in Batches
        /\ [batch[i] EXCEPT !.phase = "recovering"].phase = "recovering" /\ batch \in [Steps -> Batches]
    BY <1>1, Types, NewPhase DEF Phases
  <2>2. batch' = [batch EXCEPT ![i] = [batch[i] EXCEPT !.phase = "recovering"]] \/ UNCHANGED batch
    BY <1>4
  <2>3. batch' \in [Steps -> Batches] /\ \A j \in Steps : batch'[j].phase \in {batch[j].phase, "recovering"}
    BY <1>1, <2>1, <2>2
  <2> QED
    BY <1>2, <2>3, SameProgram DEF BatchInv
<1>10. restored' \in [Steps -> 0..time'] /\ removed' \subseteq 1..time' /\ late' \in BOOLEAN /\ crashes' \in 0..MaxCrashes
  BY <1>2, Types DEF HistoryInv, BoundsInv
<1>11. OwnChange
  BY <1>2 DEF OwnChange
<1>12. \A j \in Steps : batch'[j].phase = "recovered" => Finishing(j)
  BY <1>9 DEF Finishing
<1>13. \A j \in Steps : ~(/\ Unchained(j)
                          /\ recovery'[r].pc = "check" /\ recovery'[r].at = j /\ recovery'[r].plan = <<>>)
  BY <1>8 DEF Unchained
<1> QED
  BY <1>1, <1>2, <1>8, <1>9, <1>10, <1>11, <1>12, <1>13, RecoveryStep

\* A step of a recovery that leaves the files alone.
LEMMA QuietRecovery ==
  ASSUME Inv, NEW r \in Actors, recovery[r].pc # "idle",
         UNCHANGED <<setting, fs, time, worker, leased, bounds, moved, removed, touched, late>>,
         RecoveryInv(r)', recovery' = [recovery EXCEPT ![r] = recovery'[r]], recovery'[r].pc # "idle",
         BatchInv', restored' \in [Steps -> 0..time],
         \A i \in Steps : batch'[i].phase = "recovered" => Finishing(i),
         \A i \in Steps : /\ Unchained(i)
                          /\ recovery'[r].pc = "check" /\ recovery'[r].at = i /\ recovery'[r].plan = <<>>
                          => Finishing(i) \/ fs'[Target(i)].id = 0
  PROVE  Inv'
<1>1. UNCHANGED <<outside, crashes>>
  BY DEF bounds
<1>2. restored' \in [Steps -> 0..time'] /\ removed' \subseteq 1..time' /\ late' \in BOOLEAN /\ crashes' \in 0..MaxCrashes
  BY <1>1, Types DEF BoundsInv
<1>3. OwnChange
  BY DEF OwnChange
<1> QED
  BY <1>1, <1>2, <1>3, RecoveryStep

\* A batch that is left without having been recovered.
LEMMA FailsInv ==
  ASSUME Inv, NEW r \in Actors, recovery[r].pc \in Busy, FailsBatch(r), UNCHANGED restored,
         UNCHANGED <<setting, fs, time, worker, leased, bounds, moved, removed, touched, late>>
  PROVE  Inv'
<1>1. LeavesBatch(r, "recovery_failed") /\ "recovery_failed" \in Phases
  BY DEF FailsBatch, LeavesBatch, Phases
<1>2. /\ RecoveryInv(r)' /\ recovery' = [recovery EXCEPT ![r] = recovery'[r]]
      /\ recovery'[r].pc \in {"next", "ended"} /\ BatchInv'
      /\ \A i \in Steps : batch'[i].phase = batch[i].phase \/ batch'[i].phase = "recovery_failed"
  BY <1>1, LeavesBatchState
<1>3. \A i \in Steps : batch'[i].phase = "recovered" => Finishing(i)
  BY <1>2 DEF Finishing
<1>4. restored' \in [Steps -> 0..time]
  BY Types DEF HistoryInv
<1> QED
  BY <1>2, <1>3, <1>4, QuietRecovery DEF Busy

\* A move that is over has left its target.
LEMMA DoneInv ==
  ASSUME Inv, NEW r \in Actors, recovery[r].pc \in Busy, recovery[r].plan # <<>>, Done(r),
         UNCHANGED <<setting, fs, time, worker, leased, bounds, moved, removed, touched, late>>,
         restored' \in [Steps -> 0..time],
         Current(r).do = "remove" \/ ~Exists(Target(Current(r).step))
  PROVE  Inv'
<1>1. /\ RecoveryInv(r)' /\ recovery' = [recovery EXCEPT ![r] = recovery'[r]]
      /\ recovery'[r].pc = "check" /\ recovery'[r].at = recovery[r].at
      /\ Moves(recovery[r].at) => Current(r).step = recovery[r].at /\ Current(r).do # "remove"
      /\ UNCHANGED batch
  BY DoneState
<1>2. BatchInv' /\ \A i \in Steps : batch'[i].phase = "recovered" => Finishing(i)
  BY <1>1, Types, SameProgram DEF BatchInv, Finishing
<1>3. ASSUME NEW i \in Steps, Unchained(i), recovery'[r].at = i PROVE fs'[Target(i)].id = 0
  <2>1. ~Exists(Target(i))
    BY <1>1, <1>3 DEF Unchained
  <2> QED
    BY <2>1, Types, TreeEntry
<1> QED
  BY <1>1, <1>2, <1>3, QuietRecovery DEF Busy

LEMMA CheckActionInv ==
  ASSUME Inv, NEW r \in Actors, CheckAction(r) PROVE Inv'
<1> DEFINE a == Current(r)
           found == fs[Path(a.step)].id
<1>1. recovery[r].pc = "check" /\ recovery[r].plan # <<>> /\ recovery[r].pc \in Busy
  BY DEF CheckAction, Busy
<1>2. UNCHANGED <<setting, fs, time, worker, leased, bounds, moved, removed, touched, late>>
  BY DEF CheckAction
<1>3. a \in Actions /\ a.step \in Steps /\ Path(a.step) \in Paths
  BY <1>1, RecoveryTypes, Types
<1>4. restored \in [Steps -> 0..time] /\ [restored EXCEPT ![a.step] = found] \in [Steps -> 0..time]
  <2>1. restored \in [Steps -> 0..time] /\ found \in 0..time
    BY <1>3, Types, TreeEntry DEF HistoryInv
  <2> QED
    BY <1>3, <2>1
<1>5. CASE FailsBatch(r) /\ UNCHANGED restored
  BY <1>1, <1>2, <1>5, FailsInv
<1>6. CASE Done(r) /\ restored' = [restored EXCEPT ![a.step] = found] /\ AlreadyRestored(a)
  BY <1>1, <1>2, <1>4, <1>6, DoneInv DEF AlreadyRestored
<1>7. CASE Done(r) /\ UNCHANGED restored /\ a.do = "remove"
  BY <1>1, <1>2, <1>4, <1>7, DoneInv
<1>8. CASE recovery' = [recovery EXCEPT ![r].pc = "act"] /\ UNCHANGED <<batch, restored>> /\ a.do # "manual"
  <2>1. /\ RecoveryInv(r)' /\ recovery' = [recovery EXCEPT ![r] = recovery'[r]]
        /\ recovery'[r].pc = "act"
    BY <1>1, <1>2, <1>8, GoesOnState
  <2>2. BatchInv' /\ \A i \in Steps : batch'[i].phase = "recovered" => Finishing(i)
    BY <1>2, <1>8, Types, SameProgram DEF BatchInv, Finishing
  <2> QED
    BY <1>1, <1>2, <1>4, <1>8, <2>1, <2>2, QuietRecovery
<1> QED
  BY <1>5, <1>6, <1>7, <1>8 DEF CheckAction

LEMMA VerifyActionInv ==
  ASSUME Inv, NEW r \in Actors, VerifyAction(r) PROVE Inv'
<1> DEFINE a == Current(r)
           found == fs[Path(a.step)].id
<1>1. recovery[r].pc = "verify" /\ recovery[r].plan # <<>> /\ recovery[r].pc \in Busy
  BY Types DEF VerifyAction, Busy, RecoveriesInv, RecoveryInv
<1>2. UNCHANGED <<setting, fs, time, worker, leased, bounds, moved, removed, touched, late>>
  BY DEF VerifyAction
<1>3. a \in Actions /\ a.step \in Steps /\ Path(a.step) \in Paths
  BY <1>1, RecoveryTypes, Types
<1>4. [restored EXCEPT ![a.step] = found] \in [Steps -> 0..time]
  <2>1. restored \in [Steps -> 0..time] /\ found \in 0..time
    BY <1>3, Types, TreeEntry DEF HistoryInv
  <2> QED
    BY <1>3, <2>1
<1>5. CASE FailsBatch(r) /\ UNCHANGED restored
  BY <1>1, <1>2, <1>5, FailsInv
<1>6. CASE Done(r) /\ restored' = [restored EXCEPT ![a.step] = found] /\ Restored(a)
  BY <1>1, <1>2, <1>4, <1>6, DoneInv DEF Restored
<1> QED
  BY <1>5, <1>6 DEF VerifyAction

\* The system call of a recovery empties a path or puts something where a move began.
LEMMA ActInv ==
  ASSUME Inv, NEW r \in Actors, Act(r) PROVE Inv' /\ OwnChange
<1> DEFINE a == Current(r)
           p == Path(a.step)
           q == Target(a.step)
<1>1. recovery[r].pc = "act" /\ recovery[r].plan # <<>> /\ a.do # "manual" /\ recovery[r].pc \in Busy
  BY Types DEF Act, Busy, RecoveriesInv, RecoveryInv
<1>2. UNCHANGED <<setting, worker, leased, outside, crashes, moved, restored, touched>>
  BY DEF Act, bounds
<1>3. /\ a \in Actions /\ a.step \in Steps /\ p \in Paths /\ q \in Paths
      /\ a.do \in {"rename", "capture"} => Moves(a.step)
  BY <1>1, RecoveryTypes, Types
<1>4. late' \in BOOLEAN /\ (late => late')
  <2>1. late' = (late \/ ~HasLease(r))
    BY DEF Act
  <2> QED
    BY <2>1, Zenon
<1>5. crashes' \in 0..MaxCrashes /\ \A i \in Steps : Target(i) \in Paths
  BY <1>2, Types DEF BoundsInv
<1>6. CASE a.do = "remove" /\ Removable(p, a.want) /\ Fs(Removed(p)) /\ removed' = removed \cup {fs[p].id} /\ Done(r)
  <2>1. /\ OwnChange /\ removed' \subseteq 1..time' /\ time' = time + 1
        /\ \A s \in Paths : fs'[s].id \in {fs[s].id, 0}
    BY <1>3, <1>6, RemoveStep
  <2>2. /\ RecoveryInv(r)' /\ recovery' = [recovery EXCEPT ![r] = recovery'[r]]
        /\ recovery'[r].pc = "check" /\ recovery'[r].at = recovery[r].at
        /\ ~Moves(recovery[r].at) /\ UNCHANGED batch
    BY <1>1, <1>2, <1>6, DoneState
  <2>3. BatchInv' /\ \A i \in Steps : batch'[i].phase = "recovered" => Finishing(i)
    BY <1>2, <2>2, Types, SameProgram DEF BatchInv, Finishing
  <2>4. restored' \in [Steps -> 0..time']
    BY <1>2, <2>1, Types DEF HistoryInv
  <2>5. \A i \in Steps : Unchained(i) => recovery'[r].at # i
    BY <2>2 DEF Unchained
  <2> QED
    BY <1>1, <1>2, <1>4, <1>5, <2>1, <2>2, <2>3, <2>4, <2>5, RecoveryStep
<1>7. CASE /\ a.do \in {"rename", "capture"} /\ CanRename(q, p) /\ Fs(Renamed(q, p))
           /\ recovery' = [recovery EXCEPT ![r].pc = "verify"] /\ UNCHANGED <<batch, removed>>
  <2>1. OwnChange /\ fs' = Renamed(q, p) /\ time' = time + 1
    BY <1>3, <1>7 DEF OwnChange, Relocates, Fs
  <2>2. fs'[q].id = 0 /\ \A s \in Paths \ {p, q} : fs'[s] = fs[s]
    BY <1>3, <1>7, <2>1, MovedTree, Types, EntryTypes
  <2>3. \A i \in Steps : Unchained(i) => Target(i) # p
    BY <1>3, <1>7 DEF Unchained
  <2>4. \A i \in Steps : Unchained(i) => fs'[Target(i)].id \in {fs[Target(i)].id, 0, time + 1}
    BY <1>5, <2>2, <2>3
  <2>5. /\ RecoveryInv(r)' /\ recovery' = [recovery EXCEPT ![r] = recovery'[r]]
        /\ recovery'[r].pc = "verify"
    BY <1>1, <1>2, <1>7, GoesOnState
  <2>6. BatchInv' /\ \A i \in Steps : batch'[i].phase = "recovered" => Finishing(i)
    BY <1>2, <1>7, Types, SameProgram DEF BatchInv, Finishing
  <2>7. restored' \in [Steps -> 0..time'] /\ removed' \subseteq 1..time'
    BY <1>2, <1>7, <2>1, Types DEF HistoryInv
  <2> QED
    BY <1>1, <1>2, <1>4, <1>5, <2>1, <2>4, <2>5, <2>6, <2>7, RecoveryStep
<1>8. CASE FailsBatch(r) /\ UNCHANGED <<fs, time, removed>>
  <2>1. LeavesBatch(r, "recovery_failed") /\ "recovery_failed" \in Phases
    BY <1>8 DEF FailsBatch, LeavesBatch, Phases
  <2>2. /\ RecoveryInv(r)' /\ recovery' = [recovery EXCEPT ![r] = recovery'[r]]
        /\ recovery'[r].pc \in {"next", "ended"} /\ BatchInv'
        /\ \A i \in Steps : batch'[i].phase = batch[i].phase \/ batch'[i].phase = "recovery_failed"
    BY <1>1, <1>2, <2>1, LeavesBatchState
  <2>3. \A i \in Steps : batch'[i].phase = "recovered" => Finishing(i)
    BY <2>2 DEF Finishing
  <2>4. restored' \in [Steps -> 0..time'] /\ removed' \subseteq 1..time'
    BY <1>2, <1>8, Types DEF HistoryInv
  <2>5. OwnChange
    BY <1>8 DEF OwnChange
  <2> QED
    BY <1>1, <1>2, <1>4, <1>5, <1>8, <2>2, <2>3, <2>4, <2>5, RecoveryStep
<1>9. a.do \in {"rename", "capture", "remove"}
  BY <1>1, <1>3 DEF Actions
<1> QED
  BY <1>6, <1>7, <1>8, <1>9 DEF Act

LEMMA FinishBatchInv ==
  ASSUME Inv, NEW r \in Actors, FinishBatch(r) PROVE Inv'
<1>1. recovery[r].pc = "check" /\ recovery[r].plan = <<>> /\ recovery[r].pc \in Busy
  BY DEF FinishBatch, Busy
<1>2. UNCHANGED <<setting, fs, time, worker, leased, bounds, moved, restored, removed, touched, late>>
  BY DEF FinishBatch, history
<1>3. LeavesBatch(r, "recovered") /\ "recovered" \in Phases
  BY DEF FinishBatch, LeavesBatch, Phases
<1>4. /\ RecoveryInv(r)' /\ recovery' = [recovery EXCEPT ![r] = recovery'[r]]
      /\ recovery'[r].pc \in {"next", "ended"} /\ BatchInv'
      /\ \A i \in Steps : batch'[i].phase = batch[i].phase \/ i = recovery[r].at
  BY <1>1, <1>2, <1>3, LeavesBatchState
<1>5. \A i \in Steps : batch'[i].phase = "recovered" => Finishing(i)
  BY <1>1, <1>4 DEF Finishing
<1>6. restored' \in [Steps -> 0..time]
  BY <1>2, Types DEF HistoryInv
<1> QED
  BY <1>1, <1>2, <1>4, <1>5, <1>6, QuietRecovery

\* A recovery that begins, ends or crashes is between two batches.
LEMMA RestsInv ==
  ASSUME Inv, NEW r \in Actors, NEW state \in Recoveries,
         state.pc \in {"idle", "next", "ended"}, state.plan = <<>>, Recovering(r, state),
         recovery[r].pc # "idle" \/ (r = "workspace" /\ ~leased), state.pc = "idle" => r = "workspace",
         UNCHANGED <<setting, fs, time, worker, batch, outside, history>>,
         leased' = leased \/ leased' = FALSE, crashes' \in 0..MaxCrashes
  PROVE  Inv'
<1>2. Recovering(r, state) /\ recovery \in [Actors -> Recoveries]
  BY RecoveryTypes
<1>3. /\ RecoveryInv(r)' /\ recovery'[r] = state
      /\ recovery' = [recovery EXCEPT ![r] = recovery'[r]]
  BY <1>2, BetweenBatches DEF Busy
<1>4. UNCHANGED <<moved, restored, removed, touched, late>>
  BY DEF history
<1>5. restored' \in [Steps -> 0..time'] /\ removed' \subseteq 1..time' /\ late' \in BOOLEAN /\ (late => late')
  BY <1>4, Types DEF HistoryInv
<1>6. BatchInv' /\ \A i \in Steps : batch'[i].phase = "recovered" => Finishing(i)
  BY Types, SameProgram DEF BatchInv, Finishing
<1>7. OwnChange
  BY DEF OwnChange
<1> QED
  BY <1>3, <1>4, <1>5, <1>6, <1>7, RecoveryStep

\* The states between two batches.
LEMMA RestingPcs ==
  /\ \A pc \in {"idle", "next", "ended"} :
        LET state == [Resting EXCEPT !.pc = pc] IN state \in Recoveries /\ state.pc = pc /\ state.plan = <<>>
  /\ \A list \in [Steps -> Phases] :
        LET state == [Resting EXCEPT !.pc = "next", !.listed = list]
        IN  state \in Recoveries /\ state.pc = "next" /\ state.plan = <<>>
  /\ Resting \in Recoveries /\ Resting.pc = "idle" /\ Resting.plan = <<>>
BY RestingTypes DEF Resting, Recoveries

LEMMA EndRecoveryInv ==
  ASSUME Inv, NEW r \in Actors, EndRecovery(r) PROVE Inv'
<1>1. /\ recovery[r].pc = "next" /\ leased' = FALSE
      /\ UNCHANGED <<setting, fs, time, worker, batch, outside, crashes, history>>
  BY DEF EndRecovery, bounds
<1>2. PICK pc \in {"idle", "ended"} : Recovering(r, [Resting EXCEPT !.pc = pc]) /\ (pc = "idle" => r = "workspace")
  BY DEF EndRecovery, Actors
<1> DEFINE state == [Resting EXCEPT !.pc = pc]
<1>3. state \in Recoveries /\ state.pc = pc /\ state.plan = <<>>
  BY RestingPcs
<1>4. crashes' \in 0..MaxCrashes
  BY <1>1, Types DEF BoundsInv
<1>5. Recovering(r, state)
  BY <1>2
<1> HIDE DEF state
<1> QED
  BY <1>1, <1>2, <1>3, <1>4, <1>5, RestsInv

LEMMA CrashWorkspaceInv ==
  ASSUME Inv, CrashWorkspace PROVE Inv'
<1>1. /\ recovery["workspace"].pc # "idle" /\ crashes' = crashes + 1 /\ crashes < MaxCrashes
      /\ UNCHANGED <<setting, fs, time, worker, batch, leased, outside, history>>
      /\ Recovering("workspace", Resting)
  BY DEF CrashWorkspace, journal
<1>2. Resting \in Recoveries /\ Resting.pc = "idle" /\ Resting.plan = <<>>
  BY RestingPcs
<1>3. crashes' \in 0..MaxCrashes
  <2>1. crashes \in 0..MaxCrashes /\ MaxCrashes \in Nat
    BY Types, DirectoryMutationsAssumption DEF BoundsInv
  <2> QED
    BY <1>1, <2>1
<1>4. "workspace" \in Actors
  BY DEF Actors
<1> QED
  BY <1>1, <1>2, <1>3, <1>4, RestsInv

LEMMA BeginWorkspaceInv ==
  ASSUME Inv, BeginWorkspace PROVE Inv'
<1> DEFINE list == [i \in Steps |-> IF Pending(i) THEN batch[i].phase ELSE "none"]
           state == [Resting EXCEPT !.pc = "next", !.listed = list]
<1>1. /\ ~leased
      /\ UNCHANGED <<setting, fs, time, worker, batch, leased, outside, crashes, history>>
      /\ Recovering("workspace", state)
  BY DEF BeginWorkspace, journal, bounds
<1>2. list \in [Steps -> Phases]
  <2>1. \A i \in Steps : batch[i].phase \in Phases
    BY Types DEF Batches
  <2> QED
    BY <2>1 DEF Phases
<1>3. crashes' \in 0..MaxCrashes
  BY <1>1, Types DEF BoundsInv
<1>4. "workspace" \in Actors
  BY DEF Actors
<1> HIDE DEF list
<1>5. state \in Recoveries /\ state.pc = "next" /\ state.plan = <<>>
  BY <1>2, RestingPcs
<1> HIDE DEF state
<1> QED
  BY <1>1, <1>3, <1>4, <1>5, RestsInv

-----------------------------------------------------------------------------
(* The steps of other programs *)

LEMMA OutsiderInv ==
  ASSUME Inv, NEW f, NEW id \in 1..time + 1, Outsider(f, id), IsTree(f, time + 1),
         \A p \in Paths : f[p].id \in {fs[p].id, 0, id}
  PROVE  Inv'
<1>1. /\ outside < MaxOutside /\ outside' = outside + 1 /\ fs' = f /\ time' = time + 1
      /\ touched' = touched \cup {id}
      /\ UNCHANGED <<setting, journal, worker, recovery, crashes, moved, restored, removed, late>>
  BY DEF Outsider, Fs
<1>2. outside' \in 0..MaxOutside
  <2>1. outside \in 0..MaxOutside /\ MaxOutside \in Nat
    BY Types, DirectoryMutationsAssumption DEF BoundsInv
  <2> QED
    BY <1>1, <2>1
<1>3. TreeInv'
  BY <1>1 DEF TreeInv
<1>4. \A p \in Paths : fs'[p].id \in {fs[p].id, 0, id}
  BY <1>1
<1> QED
  BY <1>1, <1>2, <1>3, <1>4, OthersStep

LEMMA CreateInv ==
  ASSUME Inv, NEW p \in Paths, Create(p) PROVE Inv'
<1>1. PICK kind \in {"file", "directory"}, ino \in FreeInodes :
           Outsider([fs EXCEPT ![p] = New(kind, ino)], time + 1)
  BY DEF Create
<1>2. ~Exists(p) /\ TreeInv /\ time + 1 \in 1..time + 1
  BY Types DEF Create
<1> DEFINE f == [fs EXCEPT ![p] = New(kind, ino)]
<1>3. IsTree(f, time + 1) /\ f[p].id = time + 1 /\ \A q \in Paths \ {p} : f[q] = fs[q]
  BY <1>2, MadeTree
<1>4. Outsider(f, time + 1)
  BY <1>1
<1> HIDE DEF f
<1>5. \A q \in Paths : f[q].id \in {fs[q].id, 0, time + 1}
  BY <1>3
<1> QED
  BY <1>2, <1>3, <1>4, <1>5, OutsiderInv

LEMMA ChangeInv ==
  ASSUME Inv, NEW p \in Paths, Change(p) PROVE Inv'
<1> DEFINE ctime == IF platform = "posix" THEN time + 1 ELSE fs[p].ctime
           filled == IsDirectory(p) /\ ~fs[p].filled
           e == [fs[p] EXCEPT !.mtime = time + 1, !.ctime = ctime, !.filled = filled]
           f == [fs EXCEPT ![p] = e]
<1>1. Exists(p) /\ TreeInv /\ time \in Nat /\ fs[p].id \in 1..time + 1 /\ fs[p] \in Entries
  <2>1. Exists(p) /\ TreeInv /\ time \in Nat
    BY Types DEF Change
  <2>2. fs[p].id \in 1..time /\ fs[p] \in Entries
    BY <2>1, TreeEntry
  <2> QED
    BY <2>1, <2>2
<1>2. Outsider(f, fs[p].id)
  BY <1>1 DEF Change, TreeInv, IsTree
<1>3. SameEntry(fs[p], e)
  <2>1. filled \in BOOLEAN
    BY Zenon
  <2>2. ctime \in Nat
    BY <1>1 DEF Entries
  <2> HIDE DEF filled, ctime
  <2>3. time + 1 \in Nat
    BY <1>1
  <2>4. e \in Entries
    BY <1>1, <2>1, <2>2, <2>3 DEF Entries
  <2>5. e.id = fs[p].id /\ e.ino = fs[p].ino /\ e.kind = fs[p].kind
    BY <1>1 DEF Entries
  <2> QED
    BY <2>4, <2>5 DEF SameEntry
<1> HIDE DEF e
<1>4. IsTree(f, time + 1) /\ f[p] = e /\ \A q \in Paths \ {p} : f[q] = fs[q]
  BY <1>1, <1>3, ChangedTree
<1> HIDE DEF f
<1>5. \A q \in Paths : f[q].id \in {fs[q].id, 0, fs[p].id}
  BY <1>3, <1>4 DEF SameEntry
<1> QED
  BY <1>1, <1>2, <1>4, <1>5, OutsiderInv

LEMMA DeleteInv ==
  ASSUME Inv, NEW p \in Paths, Delete(p) PROVE Inv'
<1> DEFINE f == [fs EXCEPT ![p] = Nothing]
<1>1. Outsider(f, fs[p].id) /\ TreeInv
  BY Types DEF Delete
<1>2. fs[p].id \in 1..time + 1
  <2>1. fs[p].id \in 1..time /\ time \in Nat
    BY <1>1, TreeEntry DEF Delete
  <2> QED
    BY <2>1
<1>3. IsTree(f, time + 1) /\ f[p] = Nothing /\ \A q \in Paths \ {p} : f[q] = fs[q]
  BY <1>1, RemovedTree
<1> HIDE DEF f
<1>4. \A q \in Paths : f[q].id \in {fs[q].id, 0, fs[p].id}
  BY <1>3, EntryTypes
<1> QED
  BY <1>1, <1>2, <1>3, <1>4, OutsiderInv

LEMMA MoveInv ==
  ASSUME Inv, NEW p \in Paths, NEW q \in Paths, Move(p, q) PROVE Inv'
<1> DEFINE f == Renamed(p, q)
<1>1. Outsider(f, fs[p].id) /\ TreeInv /\ CanRename(p, q)
  BY Types DEF Move
<1>2. fs[p].id \in 1..time + 1
  <2>1. fs[p].id \in 1..time /\ time \in Nat
    BY <1>1, TreeEntry DEF CanRename
  <2> QED
    BY <2>1
<1>3. /\ IsTree(f, time + 1) /\ SameEntry(fs[p], f[q])
      /\ f[p] = Nothing /\ \A r \in Paths \ {p, q} : f[r] = fs[r]
  BY <1>1, MovedTree
<1> HIDE DEF f
<1>4. \A r \in Paths : f[r].id \in {fs[r].id, 0, fs[p].id}
  BY <1>3, EntryTypes DEF SameEntry
<1> QED
  BY <1>1, <1>2, <1>3, <1>4, OutsiderInv

LEMMA OthersInv ==
  ASSUME Inv, Others PROVE Inv'
<1>1. Names \subseteq Paths
  BY Types DEF Names
<1>2. PICK p \in Paths : Create(p) \/ Change(p) \/ Delete(p) \/ \E q \in Paths : Move(p, q)
  BY <1>1 DEF Others
<1> QED
  BY <1>2, CreateInv, ChangeInv, DeleteInv, MoveInv

-----------------------------------------------------------------------------
(* The invariant holds *)

LEMMA InitInv == Init => Inv
<1> SUFFICES ASSUME Init PROVE Inv
  OBVIOUS
<1>1. /\ program \in Programs /\ Len(program) \in Nat /\ Steps \in SUBSET Nat
      /\ platform \in Platforms /\ leased = TRUE /\ late = FALSE /\ outside = 0 /\ crashes = 0
      /\ removed = {} /\ touched = {}
  BY ProgramTypes DEF Init
<1>2. time = Max(Inodes) /\ time \in Nat /\ Inodes \subseteq Nat /\ 0 \notin Inodes
      /\ \A n \in Inodes : n \in 1..time
  BY InodeTypes DEF Init
<1>3. IsTree(fs, time)
  <2>1. \A p \in Paths : \/ Initially[p].kind = "absent" /\ Initially[p].ino = 0
                         \/ Initially[p].kind \in {"file", "directory"} /\ Initially[p].ino \in Inodes
    BY DirectoryMutationsAssumption
  <2>2. \A p \in Paths : fs[p] = [Nothing EXCEPT !.kind = Initially[p].kind, !.ino = Initially[p].ino,
                                                 !.id = Initially[p].ino]
    BY DEF Init
  <2>3. \A p \in Paths : /\ fs[p] \in Entries /\ fs[p].kind = Initially[p].kind
                         /\ fs[p].ino = Initially[p].ino /\ fs[p].id = Initially[p].ino
                         /\ Initially[p].kind = "absent" => fs[p] = Nothing
    <3> SUFFICES ASSUME NEW p \in Paths
                 PROVE  /\ fs[p] \in Entries /\ fs[p].kind = Initially[p].kind
                        /\ fs[p].ino = Initially[p].ino /\ fs[p].id = Initially[p].ino
                        /\ Initially[p].kind = "absent" => fs[p] = Nothing
      OBVIOUS
    <3> DEFINE kind == Initially[p].kind
               ino == Initially[p].ino
    <3>1. fs[p] = [Nothing EXCEPT !.kind = kind, !.ino = ino, !.id = ino]
      BY <2>2
    <3>2. fs[p] = [id |-> ino, ino |-> ino, kind |-> kind, mtime |-> 0, ctime |-> 0,
                   tagged |-> FALSE, filled |-> FALSE]
      BY <3>1 DEF Nothing
    <3>3. \/ kind = "absent" /\ ino = 0
          \/ kind \in {"file", "directory"} /\ ino \in Inodes
      BY <2>1
    <3> HIDE DEF kind, ino
    <3>4. kind \in {"absent", "file", "directory"} /\ ino \in Inodes \cup {0} /\ ino \in Nat
          /\ (kind = "absent" => ino = 0)
      <4>1. CASE kind = "absent" /\ ino = 0
        BY <4>1
      <4>2. CASE kind \in {"file", "directory"} /\ ino \in Inodes
        BY <1>2, <4>2
      <4> QED
        BY <3>3, <4>1, <4>2
    <3>5. fs[p] \in Entries /\ fs[p].kind = kind /\ fs[p].ino = ino /\ fs[p].id = ino
      BY <3>2, <3>4 DEF Entries
    <3>6. kind = "absent" => fs[p] = Nothing
      BY <3>2, <3>4 DEF Nothing
    <3> QED
      BY <3>5, <3>6 DEF kind, ino
  <2>4. fs \in [Paths -> Entries]
    BY <2>3 DEF Init
  <2>5. \A p, q \in Paths : Initially[p].ino = Initially[q].ino /\ p # q => Initially[p].ino = 0
    BY DirectoryMutationsAssumption
  <2>6. \A p, q \in Paths : fs[p].kind # "absent" /\ p # q => fs[p].ino # fs[q].ino
    BY <1>2, <2>1, <2>3, <2>5
  <2>7. \A p \in Paths :
          IF fs[p].kind = "absent" THEN fs[p] = Nothing
          ELSE fs[p].kind \in {"file", "directory"} /\ fs[p].ino \in Inodes /\ fs[p].id \in 1..time
    BY <1>2, <2>1, <2>3
  <2> QED
    BY <1>2, <2>4, <2>6, <2>7 DEF IsTree
<1>4. WorkerInv
  <2>1. worker = [pc |-> "begin", step |-> 1, found |-> Unseen, mine |-> Unseen, manual |-> FALSE]
    BY DEF Init
  <2>2. 1 \in 1..Len(program) + 1
    BY <1>1
  <2> QED
    BY <2>1, <2>2, EntryTypes DEF WorkerInv, Workers, Between
<1>5. BatchInv /\ \A i \in Steps : batch[i].phase = "none"
  BY EntryTypes DEF Init, BatchInv, NoBatch
<1>6. RecoveriesInv /\ \A r \in Actors : recovery[r].pc = "idle"
  <2>1. recovery = [r \in Actors |-> Resting]
    BY DEF Init
  <2> QED
    BY <2>1, RestingTypes DEF RecoveriesInv, RecoveryInv, Busy
<1>7. BoundsInv
  <2>1. 0 \in 0..MaxOutside /\ 0 \in 0..MaxCrashes
    BY DirectoryMutationsAssumption
  <2>2. leased \in BOOLEAN /\ late \in BOOLEAN
    BY <1>1
  <2> QED
    BY <1>1, <2>1, <2>2 DEF BoundsInv
<1>8. HistoryInv
  <2>1. 0 \in 0..time
    BY <1>2
  <2>2. moved = [i \in Steps |-> 0] /\ restored = [i \in Steps |-> 0]
    BY DEF Init
  <2> QED
    BY <1>1, <2>1, <2>2 DEF HistoryInv
<1>9. LeaseInv
  BY <1>5, <1>6 DEF LeaseInv, Recovered, Actors
<1>10. UndoneInv
  BY <1>5, <1>6 DEF UndoneInv, Finishing
<1> QED
  BY <1>3, <1>4, <1>5, <1>6, <1>7, <1>8, <1>9, <1>10 DEF Inv, TreeInv

LEMMA BodyInv ==
  ASSUME Inv, Body PROVE Inv' /\ OwnChange
<1>1. CASE Begin
  BY <1>1, BeginInv DEF Begin, OwnChange
<1>2. CASE BodyRaises
  BY <1>2, BodyRaisesInv DEF BodyRaises, OwnChange
<1>3. CASE Before
  BY <1>3, BeforeInv
<1>4. CASE Check
  BY <1>4, CheckInv
<1>5. CASE Mutate
  BY <1>5, MutateInv
<1>6. CASE Verify
  BY <1>6, VerifyInv DEF Verify, OwnChange
<1>7. CASE Observe
  BY <1>7, ObserveInv DEF Observe, OwnChange
<1>8. CASE Mark
  BY <1>8, MarkInv DEF Mark, OwnChange
<1>9. CASE Desire
  BY <1>9, DesireInv DEF Desire, OwnChange
<1>10. CASE Record
  BY <1>10, RecordInv DEF Record, OwnChange
<1>11. CASE Succeed
  BY <1>11, SucceedInv DEF Succeed, OwnChange
<1> QED
  BY <1>1, <1>2, <1>3, <1>4, <1>5, <1>6, <1>7, <1>8, <1>9, <1>10, <1>11 DEF Body

LEMMA ExitInv ==
  ASSUME Inv, Exit PROVE Inv' /\ OwnChange
<1>1. CASE Commit
  BY <1>1, CommitInv DEF Commit, OwnChange
<1>2. CASE CleanUp
  BY <1>2, CleanUpInv DEF CleanUp, OwnChange
<1>3. CASE RemoveCaptured
  BY <1>3, RemoveCapturedInv
<1>4. CASE Leave
  BY <1>4, LeaveInv DEF Leave, OwnChange
<1>5. CASE BeginRollback
  BY <1>5, BeginRollbackInv DEF BeginRollback, OwnChange
<1> QED
  BY <1>1, <1>2, <1>3, <1>4, <1>5 DEF Exit

LEMMA RecoverInv ==
  ASSUME Inv, NEW r \in Actors, Recover(r) PROVE Inv' /\ OwnChange
<1>1. CASE StartBatch(r)
  BY <1>1, StartBatchInv DEF StartBatch, OwnChange
<1>2. CASE CheckAction(r)
  BY <1>2, CheckActionInv DEF CheckAction, OwnChange
<1>3. CASE Act(r)
  BY <1>3, ActInv
<1>4. CASE VerifyAction(r)
  BY <1>4, VerifyActionInv DEF VerifyAction, OwnChange
<1>5. CASE FinishBatch(r)
  BY <1>5, FinishBatchInv DEF FinishBatch, OwnChange
<1>6. CASE EndRecovery(r)
  BY <1>6, EndRecoveryInv DEF EndRecovery, OwnChange
<1> QED
  BY <1>1, <1>2, <1>3, <1>4, <1>5, <1>6 DEF Recover

\* Every step keeps the invariant; all but those of other programs treat the
\* file system as OwnChange says.
LEMMA NextInv ==
  ASSUME Inv, Next PROVE Inv' /\ (OwnChange \/ Others)
<1>1. CASE Body
  BY <1>1, BodyInv
<1>2. CASE Exit
  BY <1>2, ExitInv
<1>3. CASE LoseLease
  BY <1>3, LoseLeaseInv DEF LoseLease, OwnChange
<1>4. CASE BeginWorkspace
  BY <1>4, BeginWorkspaceInv DEF BeginWorkspace, OwnChange
<1>5. CASE CrashWorkspace
  BY <1>5, CrashWorkspaceInv DEF CrashWorkspace, OwnChange
<1>6. CASE \E r \in Actors : Recover(r)
  BY <1>6, RecoverInv
<1>7. CASE Others
  BY <1>7, OthersInv
<1> QED
  BY <1>1, <1>2, <1>3, <1>4, <1>5, <1>6, <1>7 DEF Next

LEMMA StutterInv ==
  ASSUME Inv, UNCHANGED vars PROVE Inv'
<1>1. /\ Steps' = Steps /\ Recoveries' = Recoveries
      /\ \A i : /\ Moves(i)' = Moves(i) /\ Path(i)' = Path(i) /\ Target(i)' = Target(i)
                /\ Unchained(i)' = Unchained(i)
  BY SameProgram DEF vars, setting
<1>2. TreeInv' /\ WorkerInv' /\ BatchInv' /\ BoundsInv' /\ HistoryInv' /\ LeaseInv'
  BY <1>1 DEF Inv, vars, TreeInv, IsTree, WorkerInv, BatchInv, BoundsInv, HistoryInv, LeaseInv
<1>3. RecoveriesInv'
  BY <1>1 DEF Inv, vars, RecoveriesInv, RecoveryInv, PlanOK, Current
<1>4. UndoneInv'
  BY <1>1 DEF Inv, vars, UndoneInv, Finishing, Undone
<1> QED
  BY <1>2, <1>3, <1>4 DEF Inv

LEMMA SpecInv == Spec => []Inv
<1>1. Init => Inv
  BY InitInv
<1>2. Inv /\ [Next]_vars => Inv'
  BY NextInv, StutterInv
<1> QED
  BY <1>1, <1>2, PTL DEF Spec

-----------------------------------------------------------------------------
(* The theorems *)

\* The state has its type in every reachable state: entries other programs
\* made, the evidence in the journal and the plans of a recovery included.
THEOREM TypeCorrect == Spec => []TypeOK
<1>1. Inv => TypeOK
  <2> SUFFICES ASSUME Inv PROVE TypeOK
    OBVIOUS
  <2>1. \A p \in Paths : fs[p].kind # "unseen" /\ fs[p].id <= time
    BY Types, TreeEntry, EntryTypes DEF Exists
  <2>2. fs \in [Paths -> Entries] /\ \A p, q \in Paths : Exists(p) /\ p # q => fs[p].ino # fs[q].ino
    BY Types DEF TreeInv, IsTree, Exists
  <2>3. /\ recovery \in [Actors -> Recoveries]
        /\ \A r \in Actors : recovery[r].pc \in {"check", "act", "verify"} => recovery[r].at \in Steps
    BY Types DEF RecoveriesInv, RecoveryInv, Busy
  <2> QED
    BY <2>1, <2>2, <2>3, Types DEF TypeOK, BoundsInv, HistoryInv
<1> QED
  BY <1>1, SpecInv, PTL

\* When a recovery records a rename or a capture as recovered (FinishBatch), what
\* the step had moved has left the place it was moved to, whichever of the
\* worker, its rollback and the recoveries of the workspace was interrupted.
THEOREM MovesAreUndone == Spec => []RecoveredMovesAreUndone
<1>1. Inv => RecoveredMovesAreUndone
  BY DEF Inv, UndoneInv, Undone, Unchained, Finishing, RecoveredMovesAreUndone
<1> QED
  BY <1>1, SpecInv, PTL

\* No mutation, cleanup, rollback or recovery makes a file, or a directory with
\* something in it, vanish: renames do not replace (renames.py), and only empty
\* directories are removed.
THEOREM ContentStays == Spec => NoContentVanishes
<1>1. ASSUME Inv, Next, NEW p \in Paths, fs[p].kind = "file" \/ fs[p].filled, outside' = outside
      PROVE  \E q \in Paths : fs'[q].id = fs[p].id
  <2>1. ~Others
    <3>1. outside \in 0..MaxOutside /\ MaxOutside \in Nat
      BY <1>1, Types, DirectoryMutationsAssumption DEF BoundsInv
    <3>2. outside + 1 # outside
      BY <3>1
    <3>3. Others => outside' = outside + 1
      BY DEF Others, Create, Change, Delete, Move, Outsider
    <3> QED
      BY <1>1, <3>2, <3>3
  <2>2. OwnChange /\ TreeInv
    BY <1>1, <2>1, NextInv, Types
  <2> QED
    BY <1>1, <2>2, OwnChangeTree
<1>2. ASSUME Inv, UNCHANGED vars, NEW p \in Paths PROVE \E q \in Paths : fs'[q].id = fs[p].id
  BY <1>2 DEF vars
<1>3. Inv /\ [Next]_vars =>
        [\A p \in Paths : (fs[p].kind = "file" \/ fs[p].filled) /\ outside' = outside =>
            \E q \in Paths : fs'[q].id = fs[p].id]_vars
  BY <1>1, <1>2
<1> QED
  BY <1>3, SpecInv, PTL DEF Spec, NoContentVanishes

=============================================================================
