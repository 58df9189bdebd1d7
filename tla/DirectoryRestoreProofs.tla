------------------------ MODULE DirectoryRestoreProofs ------------------------
(***************************************************************************)
(* What the recovery of a move puts back, or takes for restored: the       *)
(* theorem that it is the entry the journal has evidence of, for all       *)
(* names, inode numbers and programs.                                      *)
(*                                                                         *)
(* The recovery compares snapshots, and inode numbers are used again.  The *)
(* invariant therefore says why a snapshot is as good as the identity of   *)
(* the entry (SnapshotInv), where the evidence of a step comes from        *)
(* (EvidenceInv), and that the plan of a recovery is made of that evidence, *)
(* which nobody rewrites while it is used (PutBackInv).                    *)
(***************************************************************************)
EXTENDS DirectoryMutationsProofs

-----------------------------------------------------------------------------
(* The invariant *)

\* What looks like the entry e is a snapshot of, in the file system f at time
\* t, is that entry.
Faithful(e, f, t) ==
    /\ e.mtime <= t
    /\ \A p \in Paths :
          f[p].kind # "absent" /\ f[p].ino = e.ino /\ f[p].mtime = e.mtime => f[p].id = e.id
SnapshotInv ==
    /\ \A p \in Paths : fs[p].mtime <= time
    /\ Faithful(worker.found, fs, time) /\ Faithful(worker.mine, fs, time)
    /\ \A i \in Steps : Faithful(batch[i].before, fs, time) /\ Faithful(batch[i].record, fs, time)

\* What a step has found is what was there before it, or has been in the hands of
\* another program.
Accounted(id, rows, i, hands) == id \in {0, rows[i].before.id} \cup hands

\* The step the worker is at has its batch; the later ones have no record yet.
InStep == {"before", "check", "mutate", "verify", "record", "succeed", "observe", "mark", "desire"}
Ahead(j) == \/ worker.pc = "begin" /\ worker.step <= j
            \/ worker.pc \in InStep /\ worker.step < j
            \/ worker.pc = "before" /\ worker.step = j
EvidenceInv ==
    /\ \A i \in Steps : Moves(i) => Accounted(batch[i].record.id, batch, i, touched)
    /\ \A j \in Steps : Ahead(j) => batch[j].record.id = 0
    /\ worker.pc = "before" => worker.found.id = 0 /\ worker.mine.id = 0
    /\ worker.pc \in InStep /\ Moves(worker.step) =>
          /\ Accounted(worker.found.id, batch, worker.step, touched)
          /\ Accounted(worker.mine.id, batch, worker.step, touched)
          /\ worker.pc = "check" /\ leased =>
                Accounted(fs[Path(worker.step)].id, batch, worker.step, touched)

\* What a recovery looks for, and has put back, is what the evidence is about.
Evident(rows, i, e) == rows[i].phase \in Recovered /\ e \in {rows[i].before, rows[i].record}
PutBack(rows, i, id) ==
    rows[i].phase \in Recovered /\ id \in {rows[i].before.id, rows[i].record.id}
PutBackInv ==
    /\ \A r \in Actors : \A k \in 1..Len(recovery[r].plan) :
          recovery[r].plan[k].do \in {"rename", "capture"} =>
              Evident(batch, recovery[r].plan[k].step, recovery[r].plan[k].want)
    /\ \A i \in Steps : restored[i] # 0 => Moves(i) /\ PutBack(batch, i, restored[i])

EvidentInv == SnapshotInv /\ EvidenceInv /\ PutBackInv

-----------------------------------------------------------------------------
(* Snapshots *)

\* An entry is new or changed now, or looks as it did before.
Derived(e) ==
    \/ e.kind = "absent" /\ e.mtime = 0
    \/ e.mtime = time + 1
    \/ \E q \in Paths : /\ Exists(q)
                        /\ e.ino = fs[q].ino /\ e.mtime = fs[q].mtime /\ e.id = fs[q].id

LEMMA SameDerived ==
  ASSUME TreeInv, NEW p \in Paths
  PROVE  Derived(fs[p])
<1>1. CASE Exists(p)
  BY <1>1 DEF Derived
<1>2. CASE ~Exists(p)
  BY <1>2, TreeEntry DEF Derived, Nothing
<1> QED
  BY <1>1, <1>2

LEMMA MovedDerived ==
  ASSUME TreeInv, NEW p \in Paths, NEW q \in Paths, CanRename(p, q), NEW r \in Paths
  PROVE  Derived(Renamed(p, q)[r])
<1> DEFINE e == IF platform = "posix" THEN [fs[p] EXCEPT !.ctime = time + 1] ELSE fs[p]
           f == [fs EXCEPT ![p] = Nothing, ![q] = e]
<1>1. f[r] = Nothing \/ f[r] = e \/ f[r] = fs[r]
  BY DEF TreeInv, IsTree
<1>2. Exists(p) /\ fs[p] \in Entries
  BY TreeEntry DEF CanRename
<1>3. e.ino = fs[p].ino /\ e.mtime = fs[p].mtime /\ e.id = fs[p].id
  BY <1>2 DEF Entries
<1>4. f = Renamed(p, q)
  BY DEF Renamed
<1> HIDE DEF e, f
<1>5. Derived(e)
  BY <1>2, <1>3 DEF Derived
<1>6. Derived(Nothing)
  BY DEF Derived, Nothing
<1> QED
  BY <1>1, <1>4, <1>5, <1>6, SameDerived

LEMMA MadeDerived ==
  ASSUME TreeInv, NEW p \in Paths, NEW ino, NEW kind, NEW r \in Paths
  PROVE  Derived([fs EXCEPT ![p] = New(kind, ino)][r])
<1>1. New(kind, ino).mtime = time + 1
  BY DEF New
<1>2. Derived(New(kind, ino))
  BY <1>1 DEF Derived
<1> QED
  BY <1>2, SameDerived DEF TreeInv, IsTree

LEMMA RemovedDerived ==
  ASSUME TreeInv, NEW p \in Paths, NEW r \in Paths
  PROVE  Derived([fs EXCEPT ![p] = Nothing][r])
<1>1. Derived(Nothing)
  BY DEF Derived, Nothing
<1> QED
  BY <1>1, SameDerived DEF TreeInv, IsTree

\* Whatever step is taken, entries look as before or are of now.
Keeps ==
    /\ time' \in {time, time + 1}
    /\ \A r \in Paths : Derived(fs'[r]) /\ (time' = time => fs'[r].mtime <= time)

LEMMA OwnKeeps ==
  ASSUME Inv, OwnChange, \A p \in Paths : fs[p].mtime <= time
  PROVE  Keeps
<1>0. TreeInv /\ time \in Nat
  BY Types
<1>1. CASE UNCHANGED <<fs, time>>
  BY <1>0, <1>1, SameDerived DEF Keeps
<1>2. CASE Tags
  <2>1. PICK p \in Paths : IsDirectory(p) /\ fs' = [fs EXCEPT ![p].tagged = TRUE] /\ UNCHANGED time
    BY <1>2 DEF Tags
  <2> DEFINE e == [fs[p] EXCEPT !.tagged = TRUE]
  <2>2. e.ino = fs[p].ino /\ e.mtime = fs[p].mtime /\ e.id = fs[p].id /\ Exists(p)
    BY <1>0, <2>1, TreeEntry DEF Entries, IsDirectory, Exists
  <2>3. \A r \in Paths : fs'[r] = e \/ fs'[r] = fs[r]
    BY <1>0, <2>1 DEF TreeInv, IsTree
  <2> HIDE DEF e
  <2>4. Derived(e) /\ e.mtime <= time
    BY <2>2 DEF Derived
  <2> QED
    BY <1>0, <2>1, <2>3, <2>4, SameDerived DEF Keeps
<1>3. CASE Relocates
  BY <1>0, <1>3, MovedDerived DEF Relocates, Keeps, Fs
<1>4. CASE Makes
  BY <1>0, <1>4, MadeDerived DEF Makes, Keeps, Fs
<1>5. CASE Removes
  BY <1>0, <1>5, RemovedDerived DEF Removes, Keeps, Fs
<1> QED
  BY <1>1, <1>2, <1>3, <1>4, <1>5 DEF OwnChange

LEMMA OthersKeep ==
  ASSUME Inv, Others
  PROVE  Keeps
<1>0. TreeInv /\ time \in Nat /\ Names \in SUBSET Paths
  BY Types, ProgramTypes DEF Names, BoundsInv
<1>1. PICK p \in Paths : Create(p) \/ Change(p) \/ Delete(p) \/ \E q \in Paths : Move(p, q)
  BY <1>0 DEF Others
<1>2. CASE Create(p)
  BY <1>0, <1>2, MadeDerived DEF Create, Outsider, Fs, Keeps
<1>3. CASE Change(p)
  <2> DEFINE e == fs'[p]
  <2>1. e.mtime = time + 1 /\ time' = time + 1 /\ \A r \in Paths \ {p} : fs'[r] = fs[r]
    BY <1>0, <1>3 DEF Change, Outsider, Fs, TreeInv, IsTree, Entries
  <2>2. Derived(fs'[p])
    BY <2>1 DEF Derived
  <2> QED
    BY <1>0, <2>1, <2>2, SameDerived DEF Keeps
<1>4. CASE Delete(p)
  BY <1>0, <1>4, RemovedDerived DEF Delete, Outsider, Fs, Keeps
<1>5. CASE \E q \in Paths : Move(p, q)
  BY <1>0, <1>5, MovedDerived DEF Move, Outsider, Fs, Keeps
<1> QED
  BY <1>1, <1>2, <1>3, <1>4, <1>5

\* A snapshot stays one: what is changed after it has a later time.
LEMMA FaithfulStays ==
  ASSUME Inv, Keeps, NEW e \in Entries, Faithful(e, fs, time)
  PROVE  Faithful(e, fs', time')
<1>1. time \in Nat /\ e.mtime \in Nat /\ e.mtime <= time /\ e.mtime <= time'
  BY Types DEF Entries, Faithful, Keeps
<1>2. ASSUME NEW p \in Paths, fs'[p].kind # "absent", fs'[p].ino = e.ino, fs'[p].mtime = e.mtime
      PROVE  fs'[p].id = e.id
  <2>1. fs'[p].mtime # time + 1
    BY <1>1, <1>2
  <2>2. PICK q \in Paths : /\ Exists(q) /\ fs'[p].ino = fs[q].ino
                           /\ fs'[p].mtime = fs[q].mtime /\ fs'[p].id = fs[q].id
    BY <1>2, <2>1 DEF Keeps, Derived
  <2> QED
    BY <1>2, <2>2 DEF Faithful, Exists
<1> QED
  BY <1>1, <1>2 DEF Faithful

\* A snapshot that is taken of an entry is one: inode numbers in use differ.
LEMMA FaithfulWhenTaken ==
  ASSUME IsTree(fs', time'), NEW p \in Paths, fs'[p].mtime <= time'
  PROVE  Faithful(fs'[p], fs', time')
BY DEF IsTree, Faithful

LEMMA UnseenFaithful ==
  ASSUME IsTree(fs', time')
  PROVE  Faithful(Unseen, fs', time')
<1>1. Unseen.ino = 0 /\ Unseen.mtime = 0
  BY DEF Unseen, Nothing
<1>2. \A p \in Paths : fs'[p].kind # "absent" => fs'[p].ino # 0
  BY InodeTypes DEF IsTree
<1> QED
  BY <1>1, <1>2 DEF Faithful, IsTree

\* Where the snapshots of the next state come from.
Taken == {fs'[p] : p \in Paths}
WorkerLearns ==
    /\ worker'.found \in {worker.found, Unseen} \cup Taken
    /\ \/ worker'.mine \in {worker.mine, worker.found, Unseen}
       \/ \E i \in Steps : worker'.mine = batch[i].before
RowsLearn ==
    \A i \in Steps : /\ batch'[i].before \in {batch[i].before} \cup Taken
                     /\ batch'[i].record \in {batch[i].record, worker.mine, worker.found} \cup Taken

LEMMA SnapshotTypes ==
  ASSUME Inv
  PROVE  /\ worker.found \in Entries /\ worker.mine \in Entries
         /\ \A i \in Steps : batch[i].before \in Entries /\ batch[i].record \in Entries
BY Types DEF Workers, Batches

LEMMA SnapshotStep ==
  ASSUME Inv, Inv', SnapshotInv, Keeps, UNCHANGED setting, WorkerLearns, RowsLearn
  PROVE  SnapshotInv'
<1>0. IsTree(fs', time') /\ time \in Nat /\ Steps' = Steps
  BY Types, SameProgram DEF Inv, TreeInv
<1>1. \A p \in Paths : fs'[p].mtime <= time'
  <2> SUFFICES ASSUME NEW p \in Paths PROVE fs'[p].mtime <= time'
    OBVIOUS
  <2>1. CASE time' = time
    BY <2>1 DEF Keeps
  <2>2. CASE time' # time
    <3>1. time' = time + 1 /\ \A q \in Paths : fs[q].mtime <= time /\ fs[q].mtime \in Nat
      BY <2>2, Types DEF Keeps, SnapshotInv, Entries
    <3>2. Derived(fs'[p])
      BY DEF Keeps
    <3> QED
      BY <1>0, <3>1, <3>2 DEF Derived
  <2> QED
    BY <2>1, <2>2
<1>2. \A e \in Taken \cup {Unseen} : Faithful(e, fs', time')
  BY <1>0, <1>1, FaithfulWhenTaken, UnseenFaithful DEF Taken
<1>3. Faithful(worker.found, fs', time') /\ Faithful(worker.mine, fs', time')
  BY SnapshotTypes, FaithfulStays DEF SnapshotInv
<1>4. \A i \in Steps : Faithful(batch[i].before, fs', time') /\ Faithful(batch[i].record, fs', time')
  BY SnapshotTypes, FaithfulStays DEF SnapshotInv
<1>5. Faithful(worker'.found, fs', time') /\ Faithful(worker'.mine, fs', time')
  BY <1>2, <1>3, <1>4 DEF WorkerLearns
<1>6. \A i \in Steps : Faithful(batch'[i].before, fs', time') /\ Faithful(batch'[i].record, fs', time')
  BY <1>2, <1>3, <1>4 DEF RowsLearn
<1> QED
  BY <1>0, <1>1, <1>5, <1>6 DEF SnapshotInv

\* The recoveries and other programs write no evidence.
SameEvidence == \A i \in Steps : batch'[i].before = batch[i].before /\ batch'[i].record = batch[i].record

LEMMA SnapshotsStay ==
  ASSUME Inv, Inv', SnapshotInv, Keeps, UNCHANGED <<setting, worker>>, SameEvidence
  PROVE  SnapshotInv'
BY SnapshotStep DEF WorkerLearns, RowsLearn, SameEvidence

-----------------------------------------------------------------------------
(* Evidence *)

LEMMA EvidenceStays ==
  ASSUME EvidenceInv, UNCHANGED <<setting, worker>>, SameEvidence,
         touched \subseteq touched', leased' => leased,
         worker.step \in Steps \/ worker.pc \notin InStep,
         worker.pc = "check" /\ leased' =>
             \A i \in Steps : fs'[Path(i)].id \in {0, fs[Path(i)].id} \cup touched'
  PROVE  EvidenceInv'
<1>0. Steps' = Steps /\ \A i : Moves(i)' = Moves(i) /\ Path(i)' = Path(i)
  BY SameProgram
<1>1. \A i \in Steps : \A id : Accounted(id, batch, i, touched) => Accounted(id, batch', i, touched')
  BY DEF Accounted, SameEvidence
<1>2. \A i \in Steps : Moves(i) => Accounted(batch'[i].record.id, batch', i, touched')
  BY <1>1 DEF EvidenceInv, SameEvidence
<1>3. \A j \in Steps : Ahead(j)' => batch'[j].record.id = 0
  BY DEF EvidenceInv, Ahead, SameEvidence
<1>4. ASSUME worker.pc \in InStep, Moves(worker.step)
      PROVE  /\ Accounted(worker.found.id, batch', worker.step, touched')
             /\ Accounted(worker.mine.id, batch', worker.step, touched')
             /\ worker.pc = "check" /\ leased' =>
                   Accounted(fs'[Path(worker.step)].id, batch', worker.step, touched')
  <2>1. worker.step \in Steps
    BY <1>4
  <2>2. /\ Accounted(worker.found.id, batch, worker.step, touched)
        /\ Accounted(worker.mine.id, batch, worker.step, touched)
    BY <1>4 DEF EvidenceInv
  <2>3. worker.pc = "check" /\ leased' =>
            \/ fs'[Path(worker.step)].id \in {0} \cup touched'
            \/ /\ fs'[Path(worker.step)].id = fs[Path(worker.step)].id
               /\ Accounted(fs[Path(worker.step)].id, batch, worker.step, touched)
    BY <1>4, <2>1 DEF EvidenceInv
  <2>4. worker.pc = "check" /\ leased' => Accounted(fs'[Path(worker.step)].id, batch', worker.step, touched')
    BY <1>1, <2>1, <2>3 DEF Accounted
  <2> QED
    BY <1>1, <2>1, <2>2, <2>4
<1>5. worker.pc = "before" => worker.found.id = 0 /\ worker.mine.id = 0
  BY DEF EvidenceInv
<1>6. worker' = worker
  OBVIOUS
<1> QED
  BY <1>0, <1>2, <1>3, <1>4, <1>5, <1>6 DEF EvidenceInv

\* A step of the worker that is not the first or the last of its operation: what
\* it records of a move is what it has found or has kept for the record.
WritesEvidence ==
    \A j \in Steps :
        /\ batch'[j].before = batch[j].before
        /\ \/ batch'[j].record = batch[j].record
           \/ /\ j = worker.step /\ worker.pc \in InStep \ {"before"}
              /\ Moves(j) => batch'[j].record \in {worker.found, worker.mine}
GoesOn ==
    \/ worker'.pc \notin InStep \cup {"begin"}
    \/ /\ worker.pc \in InStep /\ worker'.pc \in InStep \ {"before", "check"}
       /\ worker'.step = worker.step
       /\ Moves(worker.step) =>
             /\ \/ worker'.found = worker.found
                \/ worker.pc = "check" /\ leased /\ worker'.found.id = fs[Path(worker.step)].id
             /\ worker'.mine.id \in {0, batch[worker.step].before.id, worker.found.id, worker.mine.id}

LEMMA EvidenceStep ==
  ASSUME Inv, EvidenceInv, UNCHANGED <<setting, touched>>, WritesEvidence, GoesOn
  PROVE  EvidenceInv'
<1>0. /\ Steps' = Steps /\ \A i : Moves(i)' = Moves(i) /\ Path(i)' = Path(i)
      /\ worker.pc \in InStep => worker.step \in Steps
  BY SameProgram, Types DEF WorkerInv, InStep, Between
<1>1. \A i \in Steps : \A id : Accounted(id, batch, i, touched) <=> Accounted(id, batch', i, touched')
  BY DEF Accounted, WritesEvidence
<1>2. \A i \in Steps : Moves(i) => Accounted(batch'[i].record.id, batch, i, touched)
  BY DEF EvidenceInv, WritesEvidence
<1>3. \A j \in Steps : Ahead(j)' => Ahead(j) /\ batch'[j].record = batch[j].record
  <2> SUFFICES ASSUME NEW j \in Steps, Ahead(j)' PROVE Ahead(j) /\ batch'[j].record = batch[j].record
    OBVIOUS
  <2>1. /\ worker.pc \in InStep /\ worker'.pc \in InStep \ {"before"} /\ worker'.step = worker.step
        /\ worker.step < j
    BY DEF GoesOn, Ahead, InStep
  <2>2. worker.step \in Nat /\ j \in Nat /\ worker.step # j
    BY <1>0, <2>1, Types
  <2> QED
    BY <2>1, <2>2 DEF Ahead, WritesEvidence
<1>4. ASSUME worker'.pc \in InStep, Moves(worker'.step)
      PROVE  /\ Accounted(worker'.found.id, batch, worker'.step, touched)
             /\ Accounted(worker'.mine.id, batch, worker'.step, touched)
             /\ worker'.pc # "check" /\ worker'.step \in Steps
  <2>1. /\ worker.pc \in InStep /\ worker'.pc # "check" /\ worker'.step = worker.step
        /\ worker.step \in Steps
    BY <1>0, <1>4 DEF GoesOn
  <2>2. Accounted(worker.found.id, batch, worker.step, touched)
        /\ Accounted(worker.mine.id, batch, worker.step, touched)
    BY <1>4, <2>1 DEF EvidenceInv
  <2>3. Accounted(worker'.found.id, batch, worker.step, touched)
    BY <1>4, <2>1, <2>2 DEF GoesOn, EvidenceInv
  <2>4. Accounted(worker'.mine.id, batch, worker.step, touched)
    BY <1>4, <2>1, <2>2 DEF GoesOn, Accounted
  <2> QED
    BY <2>1, <2>3, <2>4
<1>5. worker'.pc # "before"
  BY DEF GoesOn, InStep
<1>6. \A j \in Steps : Ahead(j)' => batch'[j].record.id = 0
  BY <1>3 DEF EvidenceInv
<1> QED
  BY <1>0, <1>1, <1>2, <1>4, <1>5, <1>6 DEF EvidenceInv

-----------------------------------------------------------------------------
(* What is put back *)

\* The evidence a recovery works from is not written any more.
RowsKept ==
    \A i \in Steps : batch[i].phase \in Recovered =>
        /\ batch'[i].phase \in Recovered
        /\ batch'[i].before = batch[i].before /\ batch'[i].record = batch[i].record

\* The actions of a plan: some of those it had, or new ones with their evidence.
PlansFrom ==
    \A r \in Actors : \A k \in 1..Len(recovery'[r].plan) :
        \/ \E l \in 1..Len(recovery[r].plan) : recovery'[r].plan[k] = recovery[r].plan[l]
        \/ recovery'[r].plan[k].do \in {"rename", "capture"} =>
              Evident(batch', recovery'[r].plan[k].step, recovery'[r].plan[k].want)

PlanSteps == \A r \in Actors : \A k \in 1..Len(recovery[r].plan) : recovery[r].plan[k].step \in Steps

LEMMA PlanStepTypes ==
  ASSUME Inv PROVE PlanSteps
BY Types DEF PlanSteps, RecoveriesInv, RecoveryInv, PlanOK

LEMMA PutBackStep ==
  ASSUME Inv, PutBackInv, UNCHANGED setting, RowsKept, PlansFrom,
         \A i \in Steps : \/ restored'[i] \in {0, restored[i]}
                          \/ Moves(i) /\ PutBack(batch, i, restored'[i])
  PROVE  PutBackInv'
<1>0. Steps' = Steps /\ \A i : Moves(i)' = Moves(i)
  BY SameProgram
<1>1. \A i \in Steps : \A e : Evident(batch, i, e) => Evident(batch', i, e)
  BY DEF RowsKept, Evident
<1>2. \A i \in Steps : \A id : PutBack(batch, i, id) => PutBack(batch', i, id)
  BY DEF RowsKept, PutBack
<1>3. ASSUME NEW r \in Actors, NEW k \in 1..Len(recovery'[r].plan),
             recovery'[r].plan[k].do \in {"rename", "capture"}
      PROVE  Evident(batch', recovery'[r].plan[k].step, recovery'[r].plan[k].want)
  <2>1. CASE \E l \in 1..Len(recovery[r].plan) : recovery'[r].plan[k] = recovery[r].plan[l]
    <3>1. PICK l \in 1..Len(recovery[r].plan) : recovery'[r].plan[k] = recovery[r].plan[l]
      BY <2>1
    <3>2. /\ recovery[r].plan[l].step \in Steps
          /\ Evident(batch, recovery[r].plan[l].step, recovery[r].plan[l].want)
      BY <1>3, <3>1, PlanStepTypes DEF PutBackInv, PlanSteps
    <3> QED
      BY <1>1, <3>1, <3>2
  <2> QED
    BY <1>3, <2>1 DEF PlansFrom
<1>4. ASSUME NEW i \in Steps, restored'[i] # 0
      PROVE  Moves(i) /\ PutBack(batch', i, restored'[i])
  BY <1>2, <1>4 DEF PutBackInv
<1> QED
  BY <1>0, <1>3, <1>4 DEF PutBackInv

-----------------------------------------------------------------------------
(* The steps of the worker *)

LEMMA PlansStay ==
  ASSUME \A r \in Actors : recovery'[r].plan \in {recovery[r].plan, <<>>}
  PROVE  PlansFrom
<1>1. Len(<<>>) = 0
  OBVIOUS
<1>2. ASSUME NEW r \in Actors, NEW k \in 1..Len(recovery'[r].plan)
      PROVE  \E l \in 1..Len(recovery[r].plan) : recovery'[r].plan[k] = recovery[r].plan[l]
  <2>1. CASE recovery'[r].plan = recovery[r].plan
    BY <2>1
  <2>2. CASE recovery'[r].plan = <<>>
    BY <1>1, <2>2
  <2> QED
    BY <2>1, <2>2
<1> QED
  BY <1>2 DEF PlansFrom

\* A worker that may write in its batches has none that is being recovered.
LEMMA WorkerRows ==
  ASSUME Inv, worker.pc # "ended",
         leased \/ UNCHANGED batch \/ LeaseLost(worker.step)
  PROVE  RowsKept
<1>1. CASE leased
  BY <1>1, Types DEF LeaseInv, RowsKept
<1>2. CASE UNCHANGED batch
  BY <1>2 DEF RowsKept
<1>3. CASE LeaseLost(worker.step)
  <2>1. CASE batch[worker.step].phase \in {"attempting", "failed"}
    <3>1. batch' = [batch EXCEPT ![worker.step] = Desired(worker.step)]
      BY <1>3, <2>1 DEF LeaseLost
    <3>2. \A j \in Steps : batch[j].phase \in Recovered => j # worker.step
      BY <2>1 DEF Recovered
    <3> QED
      BY <3>1, <3>2, Types DEF RowsKept
  <2>2. CASE batch[worker.step].phase \notin {"attempting", "failed"}
    BY <1>3, <2>2 DEF LeaseLost, RowsKept
  <2> QED
    BY <2>1, <2>2
<1> QED
  BY <1>1, <1>2, <1>3

LEMMA WorkerEvident ==
  ASSUME Inv, Inv', EvidentInv, Keeps, UNCHANGED <<setting, recovery, restored>>,
         WorkerLearns, RowsLearn, EvidenceInv', RowsKept
  PROVE  EvidentInv'
<1>1. SnapshotInv'
  BY SnapshotStep DEF EvidentInv
<1>2. PlansFrom
  BY PlansStay
<1>3. PutBackInv'
  BY <1>2, PutBackStep DEF EvidentInv
<1> QED
  BY <1>1, <1>3 DEF EvidentInv

\* A step within an operation, or after the last one.
LEMMA GoesOnEvident ==
  ASSUME Inv, Inv', EvidentInv, Keeps, UNCHANGED <<setting, recovery, restored, touched>>,
         WorkerLearns, RowsLearn, WritesEvidence, GoesOn, RowsKept
  PROVE  EvidentInv'
<1>1. EvidenceInv'
  BY EvidenceStep DEF EvidentInv
<1> QED
  BY <1>1, WorkerEvident

\* A step that writes no evidence of a move.
LEMMA QuietEvident ==
  ASSUME Inv, Inv', EvidentInv, Keeps, UNCHANGED <<setting, recovery, restored, touched>>,
         WorkerLearns, SameEvidence, GoesOn, RowsKept
  PROVE  EvidentInv'
BY GoesOnEvident DEF RowsLearn, WritesEvidence, SameEvidence

\* The worker only goes to another place.
LEMMA PlaceOnly ==
  ASSUME Inv, NEW pc, Goes(pc)
  PROVE  /\ worker'.pc = pc /\ worker'.step = worker.step
         /\ worker'.found = worker.found /\ worker'.mine = worker.mine
         /\ WorkerLearns
<1>1. worker \in Workers
  BY Types
<1> QED
  BY <1>1 DEF Goes, Workers, WorkerLearns

\* What is written in a row besides the evidence.
LEMMA PhaseOnly ==
  ASSUME Inv, NEW i, NEW phase, batch' = [batch EXCEPT ![i].phase = phase] \/ UNCHANGED batch
  PROVE  SameEvidence
<1>1. CASE UNCHANGED batch
  BY <1>1 DEF SameEvidence
<1>2. CASE batch' = [batch EXCEPT ![i].phase = phase]
  BY <1>2, Types DEF SameEvidence, Batches
<1> QED
  BY <1>1, <1>2

LEMMA CleanupOnly ==
  ASSUME Inv, NEW i, NEW c, batch' = [batch EXCEPT ![i].cleanup = c] \/ UNCHANGED batch
  PROVE  SameEvidence
<1>1. CASE UNCHANGED batch
  BY <1>1 DEF SameEvidence
<1>2. CASE batch' = [batch EXCEPT ![i].cleanup = c]
  BY <1>2, Types DEF SameEvidence, Batches
<1> QED
  BY <1>1, <1>2

LEMMA BeginEvident ==
  ASSUME Inv, Inv', Keeps, EvidentInv, Begin PROVE EvidentInv'
<1> DEFINE i == worker.step
<1>1. i \in Steps /\ i \in Nat /\ worker.pc = "begin" /\ leased
  BY Types DEF Begin
<1>2. UNCHANGED <<setting, recovery, restored, touched>>
  BY DEF Begin, fixed
<1>3. SameEvidence
  <2>1. CASE batch' = Planned(i)
    BY <2>1, Types DEF Planned, SameEvidence, Batches
  <2>2. CASE batch' = [batch EXCEPT ![i].phase = "attempting"] \/ UNCHANGED batch
    BY <2>2, PhaseOnly
  <2> QED
    BY <2>1, <2>2 DEF Begin
<1>4. \/ /\ worker'.pc = "before" /\ worker'.step = i
         /\ worker'.found = Unseen /\ worker'.mine = Unseen
      \/ /\ worker'.pc = "begin" /\ worker'.step = i + 1
         /\ worker'.found = worker.found /\ worker'.mine = worker.mine
  <2>1. worker \in Workers
    BY Types
  <2> QED
    BY <2>1 DEF Begin, Starts, Workers
<1>5. WorkerLearns
  BY <1>4 DEF WorkerLearns
<1>6. Steps' = Steps /\ \A j : Moves(j)' = Moves(j)
  BY <1>2, SameProgram
<1>7. \A j \in Steps : Ahead(j)' => batch'[j].record.id = 0
  <2> SUFFICES ASSUME NEW j \in Steps, Ahead(j)' PROVE batch'[j].record.id = 0
    OBVIOUS
  <2>1. i <= j
    BY <1>1, <1>4, Types DEF Ahead, InStep
  <2>2. Ahead(j)
    BY <1>1, <2>1 DEF Ahead
  <2> QED
    BY <1>3, <2>2 DEF EvidentInv, EvidenceInv, SameEvidence
<1>8. \A j \in Steps : Moves(j) => Accounted(batch'[j].record.id, batch', j, touched')
  BY <1>2, <1>3 DEF EvidentInv, EvidenceInv, SameEvidence, Accounted
<1>9. worker'.pc = "before" => worker'.found.id = 0 /\ worker'.mine.id = 0
  BY <1>4 DEF Unseen, Nothing
<1>10. worker'.pc \in InStep => worker'.pc = "before"
  BY <1>4 DEF InStep
<1>11. EvidenceInv'
  BY <1>6, <1>7, <1>8, <1>9, <1>10 DEF EvidenceInv, Accounted
<1>12. RowsKept
  BY <1>1, WorkerRows
<1>13. RowsLearn
  BY <1>3 DEF RowsLearn, SameEvidence
<1> QED
  BY <1>2, <1>5, <1>11, <1>12, <1>13, WorkerEvident

LEMMA BodyRaisesEvident ==
  ASSUME Inv, Inv', Keeps, EvidentInv, BodyRaises PROVE EvidentInv'
<1>1. Goes("rollback") /\ worker.pc = "begin" /\ UNCHANGED batch
      /\ UNCHANGED <<setting, recovery, restored, touched>>
  BY DEF BodyRaises, fixed, journal
<1>2. WorkerLearns /\ GoesOn
  BY <1>1, PlaceOnly DEF GoesOn, InStep
<1>3. RowsKept /\ SameEvidence
  BY <1>1, WorkerRows DEF SameEvidence
<1> QED
  BY <1>1, <1>2, <1>3, QuietEvident

\* A tag leaves the identity of an entry what it is.
LEMMA Tagged ==
  ASSUME Inv, NEW p \in Paths, fs' = fs \/ fs' = [fs EXCEPT ![p].tagged = TRUE]
  PROVE  fs'[p].id = fs[p].id /\ fs'[p] \in Taken
BY Types DEF TreeInv, IsTree, Entries, Taken

LEMMA BeforeEvident ==
  ASSUME Inv, Inv', Keeps, EvidentInv, Before PROVE EvidentInv'
<1> DEFINE i == worker.step
           p == Path(i)
<1>1. i \in Steps /\ worker.pc = "before" /\ p \in Paths
  BY Types DEF Before, WorkerInv, Between
<1>2. UNCHANGED <<setting, recovery, restored, touched>>
  BY DEF Before, fixed
<1>3. fs'[p] \in Taken
  BY <1>1, Tagged DEF Before
<1>4. CASE /\ leased
           /\ batch' = [batch EXCEPT ![i].before = fs'[p]]
           /\ Goes("check")
  <2>1. WorkerLearns /\ worker'.pc = "check" /\ worker'.step = i
        /\ worker'.found = worker.found /\ worker'.mine = worker.mine
    BY <1>4, PlaceOnly
  <2>2. /\ batch'[i].before = fs'[p] /\ batch'[i].record = batch[i].record
        /\ \A j \in Steps \ {i} : batch'[j] = batch[j]
    BY <1>1, <1>4, Types DEF Batches
  <2>3. RowsLearn
    BY <1>3, <2>2 DEF RowsLearn
  <2>4. batch[i].record.id = 0 /\ worker.found.id = 0 /\ worker.mine.id = 0
    BY <1>1 DEF EvidentInv, EvidenceInv, Ahead
  <2>5. Steps' = Steps /\ \A j : Moves(j)' = Moves(j) /\ Path(j)' = Path(j)
    BY <1>2, SameProgram
  <2>6. \A j \in Steps : Moves(j) => Accounted(batch'[j].record.id, batch', j, touched')
    <3> SUFFICES ASSUME NEW j \in Steps, Moves(j)
                 PROVE  Accounted(batch'[j].record.id, batch', j, touched')
      OBVIOUS
    <3>1. CASE j = i
      BY <2>2, <2>4, <3>1 DEF Accounted
    <3>2. CASE j # i
      BY <1>2, <2>2, <3>2 DEF EvidentInv, EvidenceInv, Accounted
    <3> QED
      BY <3>1, <3>2
  <2>7. \A j \in Steps : Ahead(j)' => batch'[j].record.id = 0
    <3> SUFFICES ASSUME NEW j \in Steps, Ahead(j)' PROVE batch'[j].record.id = 0
      OBVIOUS
    <3>1. i < j
      BY <2>1 DEF Ahead
    <3>2. Ahead(j)
      BY <1>1, <3>1 DEF Ahead, InStep
    <3> QED
      BY <2>2, <3>1, <3>2, Types DEF EvidentInv, EvidenceInv
  <2>8. /\ Accounted(worker'.found.id, batch', i, touched')
        /\ Accounted(worker'.mine.id, batch', i, touched')
        /\ Accounted(fs'[p].id, batch', i, touched')
    BY <2>1, <2>2, <2>4 DEF Accounted
  <2>9. EvidenceInv'
    BY <2>1, <2>5, <2>6, <2>7, <2>8 DEF EvidenceInv
  <2>10. RowsKept
    BY <1>1, <1>4, WorkerRows
  <2> QED
    BY <1>2, <2>1, <2>3, <2>9, <2>10, WorkerEvident
<1>5. CASE /\ Goes(IF Moves(i) THEN "rollback" ELSE "observe")
           /\ UNCHANGED batch
  <2>1. WorkerLearns /\ worker'.step = i
        /\ worker'.pc = (IF Moves(i) THEN "rollback" ELSE "observe")
    BY <1>5, PlaceOnly
  <2>2. GoesOn
    BY <1>1, <2>1 DEF GoesOn, InStep
  <2>3. RowsKept /\ SameEvidence
    BY <1>1, <1>5, WorkerRows DEF SameEvidence
  <2> QED
    BY <1>2, <2>1, <2>2, <2>3, QuietEvident
<1> QED
  BY <1>4, <1>5 DEF Before

LEMMA CheckEvident ==
  ASSUME Inv, Inv', Keeps, EvidentInv, Check PROVE EvidentInv'
<1> DEFINE i == worker.step
           p == Path(i)
<1>1. i \in Steps /\ worker.pc = "check" /\ p \in Paths
  BY Types DEF Check, WorkerInv, Between
<1>2. UNCHANGED <<setting, recovery, restored, touched, batch>>
  BY DEF Check, fixed, journal
<1>3. fs'[p] \in Taken /\ fs'[p].id = fs[p].id
  BY <1>1, Tagged DEF Check
<1>4. SameEvidence /\ RowsKept
  BY <1>1, <1>2, WorkerRows DEF SameEvidence
<1>5. CASE leased /\ worker' = [worker EXCEPT !.pc = "mutate", !.found = fs'[p]]
  <2>1. worker'.pc = "mutate" /\ worker'.step = i
        /\ worker'.found = fs'[p] /\ worker'.mine = worker.mine
    BY <1>5, Types DEF Workers
  <2>2. WorkerLearns /\ GoesOn
    BY <1>1, <1>3, <1>5, <2>1 DEF WorkerLearns, GoesOn, InStep
  <2> QED
    BY <1>2, <1>4, <2>2, QuietEvident
<1>6. CASE Goes("observe")
  <2>1. WorkerLearns /\ GoesOn
    BY <1>1, <1>6, PlaceOnly DEF GoesOn, InStep
  <2> QED
    BY <1>2, <1>4, <2>1, QuietEvident
<1> QED
  BY <1>5, <1>6 DEF Check

LEMMA MutateEvident ==
  ASSUME Inv, Inv', Keeps, EvidentInv, Mutate PROVE EvidentInv'
<1>1. worker.pc = "mutate" /\ UNCHANGED <<setting, recovery, restored, touched, batch>>
  BY DEF Mutate, journal
<1>2. Goes("verify") \/ Goes("record") \/ Goes("observe")
  BY DEF Mutate
<1>3. WorkerLearns /\ GoesOn
  BY <1>1, <1>2, PlaceOnly DEF GoesOn, InStep
<1>4. SameEvidence /\ RowsKept
  BY <1>1, WorkerRows DEF SameEvidence
<1> QED
  BY <1>1, <1>3, <1>4, QuietEvident

LEMMA VerifyEvident ==
  ASSUME Inv, Inv', Keeps, EvidentInv, Verify PROVE EvidentInv'
<1>1. worker.pc = "verify" /\ UNCHANGED <<setting, recovery, restored, touched, batch>>
  BY DEF Verify, fixed, journal
<1>2. Goes("record") \/ Goes("observe")
  BY DEF Verify
<1>3. WorkerLearns /\ GoesOn
  BY <1>1, <1>2, PlaceOnly DEF GoesOn, InStep
<1>4. SameEvidence /\ RowsKept
  BY <1>1, WorkerRows DEF SameEvidence
<1> QED
  BY <1>1, <1>3, <1>4, QuietEvident

LEMMA ObserveEvident ==
  ASSUME Inv, Inv', Keeps, EvidentInv, Observe PROVE EvidentInv'
<1> DEFINE i == worker.step
           p == Path(i)
<1>1. i \in Steps /\ worker.pc = "observe" /\ p \in Paths
  BY Types DEF Observe, WorkerInv, Between
<1>2. UNCHANGED <<setting, recovery, restored, touched, fs>>
  BY DEF Observe, fixed
<1>3. /\ worker'.pc = "mark" /\ worker'.step = i /\ worker'.found = worker.found
      /\ worker'.mine \in {batch[i].before, Unseen}
  BY Types DEF Observe, Workers
<1>4. Unseen.id = 0
  BY DEF Unseen, Nothing
<1>5. WorkerLearns /\ GoesOn
  BY <1>1, <1>3, <1>4 DEF WorkerLearns, GoesOn, InStep
<1>6. \/ UNCHANGED batch
      \/ ~Moves(i) /\ leased /\ batch' = [batch EXCEPT ![i].record = fs[p]]
  BY DEF Observe
<1>7. RowsKept
  BY <1>1, <1>6, WorkerRows
<1>8. \A j \in Steps : /\ batch'[j].before = batch[j].before
                       /\ \/ batch'[j].record = batch[j].record
                          \/ j = i /\ ~Moves(i) /\ batch'[j].record = fs[p]
  <2>1. CASE UNCHANGED batch
    BY <2>1
  <2>2. CASE ~Moves(i) /\ batch' = [batch EXCEPT ![i].record = fs[p]]
    <3>1. /\ batch'[i].before = batch[i].before /\ batch'[i].record = fs[p]
          /\ \A j \in Steps \ {i} : batch'[j] = batch[j]
      BY <1>1, <2>2, Types DEF Batches
    <3> QED
      BY <2>2, <3>1
  <2> QED
    BY <1>6, <2>1, <2>2
<1>9. fs[p] \in Taken
  BY <1>1, <1>2 DEF Taken
<1>10. WritesEvidence /\ RowsLearn
  BY <1>1, <1>8, <1>9 DEF WritesEvidence, RowsLearn, InStep
<1> QED
  BY <1>2, <1>5, <1>7, <1>10, GoesOnEvident

\* The record of a recovery that is asked for.
LEMMA DesiredEvidence ==
  ASSUME Inv, NEW i \in Steps
  PROVE  Desired(i).before = batch[i].before /\ Desired(i).record \in {batch[i].record, worker.mine}
BY Types DEF Desired, Batches

LEMMA AskedFor ==
  ASSUME Inv, worker.step \in Steps, worker.pc \in {"mark", "desire"},
         batch' = [batch EXCEPT ![worker.step] = Desired(worker.step)] \/ LeaseLost(worker.step)
  PROVE  WritesEvidence /\ RowsLearn
<1> DEFINE i == worker.step
           row == Desired(i)
<1>1. row.before = batch[i].before /\ row.record \in {batch[i].record, worker.mine}
  BY DesiredEvidence
<1>2. batch' = [batch EXCEPT ![i] = row] \/ UNCHANGED batch
  BY DEF LeaseLost
<1> HIDE DEF row
<1>3. \A j \in Steps : batch'[j] = batch[j] \/ (j = i /\ batch'[j] = row)
  BY <1>2, Types
<1> QED
  BY <1>1, <1>3 DEF WritesEvidence, RowsLearn, InStep

LEMMA MarkEvident ==
  ASSUME Inv, Inv', Keeps, EvidentInv, Mark PROVE EvidentInv'
<1> DEFINE i == worker.step
<1>1. i \in Steps /\ worker.pc = "mark"
  BY Types DEF Mark, WorkerInv, Between
<1>2. UNCHANGED <<setting, recovery, restored, touched>>
  BY DEF Mark, fixed
<1>3. CASE leased /\ batch' = [batch EXCEPT ![i].phase = "failed"] /\ Goes("desire")
  <2>1. WorkerLearns /\ GoesOn
    BY <1>1, <1>3, PlaceOnly DEF GoesOn, InStep
  <2>2. SameEvidence /\ RowsKept
    BY <1>1, <1>3, PhaseOnly, WorkerRows
  <2> QED
    BY <1>2, <2>1, <2>2, QuietEvident
<1>4. CASE LeaseLost(i) /\ Goes("rollback")
  <2>1. WorkerLearns /\ GoesOn
    BY <1>1, <1>4, PlaceOnly DEF GoesOn, InStep
  <2>2. WritesEvidence /\ RowsLearn /\ RowsKept
    BY <1>1, <1>4, AskedFor, WorkerRows
  <2> QED
    BY <1>2, <2>1, <2>2, GoesOnEvident
<1> QED
  BY <1>3, <1>4 DEF Mark

LEMMA DesireEvident ==
  ASSUME Inv, Inv', Keeps, EvidentInv, Desire PROVE EvidentInv'
<1> DEFINE i == worker.step
<1>1. i \in Steps /\ worker.pc = "desire"
  BY Types DEF Desire, WorkerInv, Between
<1>2. UNCHANGED <<setting, recovery, restored, touched>>
  BY DEF Desire, fixed
<1>3. WorkerLearns /\ GoesOn
  BY PlaceOnly DEF Desire, GoesOn, InStep
<1>4. (leased /\ batch' = [batch EXCEPT ![i] = Desired(i)]) \/ LeaseLost(i)
  BY DEF Desire
<1>5. WritesEvidence /\ RowsLearn /\ RowsKept
  BY <1>1, <1>4, AskedFor, WorkerRows
<1> QED
  BY <1>2, <1>3, <1>5, GoesOnEvident

LEMMA NothingRecorded ==
  ASSUME Inv, Inv', Keeps, EvidentInv, worker.step \in Steps, worker.pc \in {"record", "succeed"},
         RecordsNothing(worker.step), UNCHANGED <<setting, recovery, restored, touched>>
  PROVE  EvidentInv'
<1> DEFINE i == worker.step
<1>1. /\ worker'.pc = "mark" /\ worker'.step = i /\ worker'.found = worker.found
      /\ worker'.mine = (IF Moves(i) THEN worker.found ELSE Unseen)
  BY Types DEF RecordsNothing, Workers
<1>2. WorkerLearns /\ GoesOn
  BY <1>1 DEF WorkerLearns, GoesOn, InStep
<1>3. UNCHANGED batch
  BY DEF RecordsNothing
<1>4. SameEvidence /\ RowsKept
  BY <1>3, WorkerRows DEF SameEvidence
<1> QED
  BY <1>2, <1>4, QuietEvident

LEMMA RecordEvident ==
  ASSUME Inv, Inv', Keeps, EvidentInv, Record PROVE EvidentInv'
<1> DEFINE i == worker.step
           p == Path(i)
           evidence == IF Moves(i) THEN worker.found ELSE fs[p]
<1>1. i \in Steps /\ worker.pc = "record" /\ p \in Paths
  BY Types DEF Record, WorkerInv, Between
<1>2. UNCHANGED <<setting, recovery, restored, touched, fs>>
  BY DEF Record, fixed
<1>3. ASSUME NEW cleanup, leased, Goes("succeed"),
             batch' = [batch EXCEPT ![i].record = evidence, ![i].cleanup = cleanup]
      PROVE  EvidentInv'
  <2>1. WorkerLearns /\ GoesOn
    BY <1>1, <1>3, PlaceOnly DEF GoesOn, InStep
  <2>2. /\ batch'[i].before = batch[i].before /\ batch'[i].record = evidence
        /\ \A j \in Steps \ {i} : batch'[j] = batch[j]
    BY <1>1, <1>3, Types DEF Batches
  <2>3. fs[p] \in Taken
    BY <1>1, <1>2 DEF Taken
  <2>4. WritesEvidence
    BY <1>1, <2>2 DEF WritesEvidence, InStep
  <2>5. RowsLearn
    BY <2>2, <2>3 DEF RowsLearn
  <2>6. RowsKept
    BY <1>1, <1>3, WorkerRows
  <2> QED
    BY <1>2, <2>1, <2>4, <2>5, <2>6, GoesOnEvident
<1>4. CASE RecordsNothing(i)
  BY <1>1, <1>2, <1>4, NothingRecorded
<1> QED
  BY <1>3, <1>4 DEF Record

LEMMA SucceedEvident ==
  ASSUME Inv, Inv', Keeps, EvidentInv, Succeed PROVE EvidentInv'
<1> DEFINE i == worker.step
<1>1. i \in Steps /\ i \in Nat /\ worker.pc = "succeed"
  BY Types DEF Succeed, WorkerInv, Between
<1>2. UNCHANGED <<setting, recovery, restored, touched>>
  BY DEF Succeed, fixed
<1>3. CASE /\ leased
           /\ batch' = [batch EXCEPT ![i].phase = "succeeded"]
           /\ worker' = [worker EXCEPT !.pc = "begin", !.step = i + 1]
  <2>1. /\ worker'.pc = "begin" /\ worker'.step = i + 1
        /\ worker'.found = worker.found /\ worker'.mine = worker.mine
    BY <1>3, Types DEF Workers
  <2>2. WorkerLearns
    BY <2>1 DEF WorkerLearns
  <2>3. SameEvidence /\ RowsKept
    BY <1>1, <1>3, PhaseOnly, WorkerRows
  <2>4. RowsLearn
    BY <2>3 DEF RowsLearn, SameEvidence
  <2>5. Steps' = Steps /\ \A j : Moves(j)' = Moves(j)
    BY <1>2, SameProgram
  <2>6. \A j \in Steps : Moves(j) => Accounted(batch'[j].record.id, batch', j, touched')
    BY <1>2, <2>3 DEF EvidentInv, EvidenceInv, SameEvidence, Accounted
  <2>7. \A j \in Steps : Ahead(j)' => batch'[j].record.id = 0
    <3> SUFFICES ASSUME NEW j \in Steps, Ahead(j)' PROVE batch'[j].record.id = 0
      OBVIOUS
    <3>1. i < j
      BY <1>1, <2>1, Types DEF Ahead, InStep
    <3>2. Ahead(j)
      BY <1>1, <3>1 DEF Ahead, InStep
    <3> QED
      BY <2>3, <3>2 DEF EvidentInv, EvidenceInv, SameEvidence
  <2>8. worker'.pc # "before" /\ worker'.pc \notin InStep
    BY <2>1 DEF InStep
  <2>9. EvidenceInv'
    BY <2>5, <2>6, <2>7, <2>8 DEF EvidenceInv
  <2> QED
    BY <1>2, <2>2, <2>3, <2>4, <2>9, WorkerEvident
<1>4. CASE RecordsNothing(i)
  BY <1>1, <1>2, <1>4, NothingRecorded
<1> QED
  BY <1>3, <1>4 DEF Succeed

LEMMA CommitEvident ==
  ASSUME Inv, Inv', Keeps, EvidentInv, Commit PROVE EvidentInv'
<1>1. Goes("clean") /\ worker.pc = "begin" /\ UNCHANGED batch
      /\ UNCHANGED <<setting, recovery, restored, touched>>
  BY DEF Commit, fixed, journal
<1>2. WorkerLearns /\ GoesOn
  BY <1>1, PlaceOnly DEF GoesOn, InStep
<1>3. RowsKept /\ SameEvidence
  BY <1>1, WorkerRows DEF SameEvidence
<1> QED
  BY <1>1, <1>2, <1>3, QuietEvident

LEMMA CleanUpEvident ==
  ASSUME Inv, Inv', Keeps, EvidentInv, CleanUp PROVE EvidentInv'
<1>1. worker.pc = "clean" /\ leased /\ UNCHANGED <<setting, recovery, restored, touched>>
  BY DEF CleanUp, fixed
<1>2. PICK i \in ToClean :
          \/ /\ batch' = [batch EXCEPT ![i].cleanup = "attempting"]
             /\ worker' = [worker EXCEPT !.pc = "remove", !.step = i]
          \/ /\ batch' = [batch EXCEPT ![i].cleanup = IF Exists(Target(i)) THEN "manual" ELSE "skipped"]
             /\ UNCHANGED worker
  BY DEF CleanUp
<1>3. SameEvidence
  BY <1>2, CleanupOnly
<1>4. worker'.pc \in {"clean", "remove"} /\ worker'.found = worker.found /\ worker'.mine = worker.mine
  BY <1>1, <1>2, Types DEF Workers
<1>5. WorkerLearns /\ GoesOn
  BY <1>4 DEF WorkerLearns, GoesOn, InStep
<1>6. RowsKept
  BY <1>1, WorkerRows
<1> QED
  BY <1>1, <1>3, <1>5, <1>6, QuietEvident

LEMMA RemoveCapturedEvident ==
  ASSUME Inv, Inv', Keeps, EvidentInv, RemoveCaptured PROVE EvidentInv'
<1> DEFINE i == worker.step
           outcome == CASE Removable(Target(i), batch[i].record) -> "succeeded"
                        [] ~Exists(Target(i)) -> "skipped" [] OTHER -> "manual"
<1>1. worker.pc = "remove" /\ Goes("clean") /\ UNCHANGED <<setting, recovery, restored, touched>>
  BY DEF RemoveCaptured
<1>2. batch' = IF leased THEN [batch EXCEPT ![i].cleanup = outcome] ELSE batch
  BY DEF RemoveCaptured
<1> HIDE DEF outcome
<1>3. SameEvidence
  BY <1>2, CleanupOnly
<1>4. WorkerLearns /\ GoesOn
  BY <1>1, PlaceOnly DEF GoesOn, InStep
<1>5. RowsKept
  BY <1>1, <1>2, WorkerRows
<1> QED
  BY <1>1, <1>3, <1>4, <1>5, QuietEvident

LEMMA LeaveEvident ==
  ASSUME Inv, Inv', Keeps, EvidentInv, Leave PROVE EvidentInv'
<1>1. worker.pc = "clean" /\ UNCHANGED batch /\ UNCHANGED <<setting, recovery, restored, touched>>
  BY DEF Leave, fixed
<1>2. Goes("done") \/ Goes("ended")
  BY DEF Leave
<1>3. WorkerLearns /\ GoesOn
  BY <1>2, PlaceOnly DEF GoesOn, InStep
<1>4. RowsKept /\ SameEvidence
  BY <1>1, WorkerRows DEF SameEvidence
<1> QED
  BY <1>1, <1>3, <1>4, QuietEvident

LEMMA LoseLeaseEvident ==
  ASSUME Inv, Inv', Keeps, EvidentInv, LoseLease PROVE EvidentInv'
<1>1. UNCHANGED <<setting, worker, batch, recovery, restored, touched, fs>> /\ leased' = FALSE
  BY DEF LoseLease, fixed
<1>2. SameEvidence /\ RowsKept
  BY <1>1 DEF SameEvidence, RowsKept
<1>3. worker.step \in Steps \/ worker.pc \notin InStep
  BY Types DEF WorkerInv, InStep, Between
<1>4. EvidenceInv'
  BY <1>1, <1>2, <1>3, EvidenceStays DEF EvidentInv
<1>5. WorkerLearns /\ RowsLearn
  BY <1>1 DEF WorkerLearns, RowsLearn
<1> QED
  BY <1>1, <1>2, <1>4, <1>5, WorkerEvident

LEMMA BeginRollbackEvident ==
  ASSUME Inv, Inv', Keeps, EvidentInv, BeginRollback PROVE EvidentInv'
<1> DEFINE mine == {i \in Steps : batch[i].phase \in {"failed", "recovery_desired", "succeeded"}}
           list == [i \in Steps |-> IF i \in mine THEN "recovery_desired" ELSE "none"]
           state == [Resting EXCEPT !.pc = "next", !.listed = list]
<1>1. worker.pc = "rollback" /\ Goes("ended") /\ UNCHANGED <<setting, restored, touched>>
  BY DEF BeginRollback, history
<1>2. \/ /\ leased
         /\ batch' = [i \in Steps |-> IF i \in mine THEN [batch[i] EXCEPT !.phase = "recovery_desired"]
                                                   ELSE batch[i]]
         /\ Recovering("rollback", state)
      \/ UNCHANGED <<batch, recovery>>
  BY DEF BeginRollback
<1>3. state.plan = <<>>
  BY DEF Resting
<1>4. SameEvidence
  BY <1>2, Types DEF SameEvidence, Batches
<1>5. RowsKept
  BY <1>1, <1>2, WorkerRows
<1> HIDE DEF state
<1>6. \A r \in Actors : recovery'[r].plan \in {recovery[r].plan, <<>>}
  BY <1>2, <1>3, Types DEF Recovering, RecoveriesInv
<1>7. WorkerLearns /\ GoesOn
  BY <1>1, PlaceOnly DEF GoesOn, InStep
<1>8. RowsLearn /\ WritesEvidence
  BY <1>4 DEF RowsLearn, WritesEvidence, SameEvidence
<1>9. SnapshotInv'
  BY <1>1, <1>7, <1>8, SnapshotStep DEF EvidentInv
<1>10. EvidenceInv'
  BY <1>1, <1>7, <1>8, EvidenceStep DEF EvidentInv
<1>11. PutBackInv'
  BY <1>1, <1>5, <1>6, PlansStay, PutBackStep DEF EvidentInv
<1> QED
  BY <1>9, <1>10, <1>11 DEF EvidentInv

-----------------------------------------------------------------------------
(* The steps of a recovery *)

\* What a recovery writes in a batch is its phase.
LEMMA RecoveryRows ==
  ASSUME Inv, NEW i, NEW phase \in Recovered,
         batch' = [batch EXCEPT ![i].phase = phase] \/ UNCHANGED batch
  PROVE  RowsKept /\ SameEvidence
<1>1. SameEvidence
  BY PhaseOnly
<1>2. \A j \in Steps : batch'[j].phase \in {batch[j].phase, phase}
  BY Types DEF Batches
<1> QED
  BY <1>1, <1>2 DEF RowsKept, SameEvidence

\* A recovery runs when the worker has ended or has lost its lease.
LEMMA RecoveryEvident ==
  ASSUME Inv, Inv', Keeps, EvidentInv, NEW r \in Actors,
         recovery[r].pc # "idle" \/ ~leased,
         UNCHANGED <<setting, worker, touched>>, leased' = leased \/ leased' = FALSE,
         RowsKept, SameEvidence, PlansFrom,
         \A i \in Steps : \/ restored'[i] \in {0, restored[i]}
                          \/ Moves(i) /\ PutBack(batch, i, restored'[i])
  PROVE  EvidentInv'
<1>1. SnapshotInv'
  BY SnapshotsStay DEF EvidentInv
<1>2. leased \in BOOLEAN /\ LeaseInv /\ WorkerInv
  BY Types
<1>3. leased' => leased
  BY <1>2
<1>4. worker.step \in Steps \/ worker.pc \notin InStep
  BY <1>2 DEF WorkerInv, InStep, Between
<1>5. leased' => worker.pc # "check"
  BY <1>2, <1>3 DEF LeaseInv, Actors
<1>6. EvidenceInv'
  BY <1>3, <1>4, <1>5, EvidenceStays DEF EvidentInv
<1>7. PutBackInv'
  BY PutBackStep DEF EvidentInv
<1> QED
  BY <1>1, <1>6, <1>7 DEF EvidentInv

\* A new state of one recovery whose plan is part of the old one.
LEMMA PlanOfState ==
  ASSUME Inv, NEW r \in Actors, NEW state, Recovering(r, state),
         \A k \in 1..Len(state.plan) : \E l \in 1..Len(recovery[r].plan) : state.plan[k] = recovery[r].plan[l]
  PROVE  PlansFrom
<1>1. recovery'[r] = state /\ \A s \in Actors \ {r} : recovery'[s] = recovery[s]
  BY RecoveryTypes DEF Recovering
<1>2. ASSUME NEW s \in Actors, NEW k \in 1..Len(recovery'[s].plan)
      PROVE  \E l \in 1..Len(recovery[s].plan) : recovery'[s].plan[k] = recovery[s].plan[l]
  <2>1. CASE s = r
    BY <1>1, <2>1
  <2>2. CASE s # r
    BY <1>1, <2>2
  <2> QED
    BY <2>1, <2>2
<1> QED
  BY <1>2 DEF PlansFrom

LEMMA EmptyPlan ==
  ASSUME Inv, NEW r \in Actors, NEW state, Recovering(r, state), state.plan = <<>>
  PROVE  PlansFrom
<1>1. Len(<<>>) = 0
  OBVIOUS
<1>2. \A k \in 1..Len(state.plan) : FALSE
  BY <1>1
<1> QED
  BY <1>2, PlanOfState

\* The plan of a directory that was made removes directories.
LEMMA MakePlanRemoves ==
  ASSUME Inv, NEW i \in Steps
  PROVE  \A k \in 1..Len(MakePlan(i)) : MakePlan(i)[k].do \in {"remove", "manual"}
<1> DEFINE S == ProvenPriors(i)
           priors == NewestFirst(S)
           rest == [k \in DOMAIN priors |-> Action("remove", priors[k])]
           Plain(plan) == \A k \in 1..Len(plan) : plan[k].do \in {"remove", "manual"}
<1>1. S \in SUBSET Steps
  BY DEF ProvenPriors, Priors, GroupOf
<1>2. Cardinality(S) \in Nat /\ DOMAIN priors = 1..Cardinality(S)
      /\ \A k \in 1..Cardinality(S) : priors[k] \in S
  BY <1>1, NewestFirstMembers
<1>3. MakePlan(i) \in {DirectPlan(i), Manual(i), DirectPlan(i) \o rest}
  BY DEF MakePlan
<1> HIDE DEF S, priors
<1>4. \A j \in Steps : Action("remove", j) \in Actions /\ Action("remove", j).do = "remove"
  <2> SUFFICES ASSUME NEW j \in Steps
               PROVE  Action("remove", j) \in Actions /\ Action("remove", j).do = "remove"
    OBVIOUS
  <2>1. batch[j].record \in Entries
    BY Types DEF Batches
  <2> QED
    BY <2>1, ActionTypes DEF Action
<1>5. /\ rest \in Seq(Actions) /\ Len(rest) = Cardinality(S)
      /\ \A k \in 1..Cardinality(S) : rest[k].do = "remove"
  <2>1. \A k \in 1..Cardinality(S) : rest[k] \in Actions /\ rest[k].do = "remove"
    BY <1>1, <1>2, <1>4
  <2>2. rest \in [1..Cardinality(S) -> Actions]
    BY <1>2, <2>1
  <2> QED
    BY <1>2, <2>1, <2>2
<1> HIDE DEF rest
<1>6. Plain(rest)
  BY <1>5
<1>7. Plain(DirectPlan(i)) /\ DirectPlan(i) \in Seq(Actions)
  <2>1. DirectPlan(i) = <<Action("remove", i)>> \/ DirectPlan(i) = <<>>
    BY DEF DirectPlan
  <2>2. Plain(<<Action("remove", i)>>) /\ Plain(<<>>)
    BY <1>4
  <2> QED
    BY <2>1, <2>2, DirectPlanTypes
<1>8. Plain(Manual(i))
  <2>1. Action("manual", i).do = "manual"
    BY DEF Action
  <2> QED
    BY <2>1 DEF Manual
<1>9. Plain(DirectPlan(i) \o rest)
  <2> DEFINE s == DirectPlan(i)
  <2>1. s \in Seq(Actions) /\ rest \in Seq(Actions) /\ Plain(s) /\ Plain(rest)
    BY <1>5, <1>6, <1>7
  <2> HIDE DEF s
  <2>2. /\ Len(s) \in Nat /\ Len(rest) \in Nat /\ Len(s \o rest) = Len(s) + Len(rest)
        /\ \A k \in 1..Len(s) + Len(rest) : (s \o rest)[k] = IF k <= Len(s) THEN s[k] ELSE rest[k - Len(s)]
    BY <2>1, ConcatProperties
  <2>3. ASSUME NEW k \in 1..Len(s \o rest) PROVE (s \o rest)[k].do \in {"remove", "manual"}
    <3>1. k \in 1..Len(s) + Len(rest)
      BY <2>2
    <3>2. CASE k <= Len(s)
      BY <2>1, <2>2, <3>1, <3>2
    <3>3. CASE ~(k <= Len(s))
      <4>1. k - Len(s) \in 1..Len(rest)
        BY <2>2, <3>1, <3>3
      <4> QED
        BY <2>1, <2>2, <3>1, <3>3, <4>1
    <3> QED
      BY <3>2, <3>3
  <2> QED
    BY <2>3 DEF s
<1> QED
  BY <1>3, <1>7, <1>8, <1>9

\* A plan puts back what is in the record or in the before checkpoint.
LEMMA PlanIsEvident ==
  ASSUME Inv, NEW i \in Steps, NEW k \in 1..Len(PlanOf(i)), PlanOf(i)[k].do \in {"rename", "capture"}
  PROVE  PlanOf(i)[k].step = i /\ PlanOf(i)[k].want \in {batch[i].before, batch[i].record}
<1> DEFINE Fits(plan) == \A l \in 1..Len(plan) : plan[l].do \in {"rename", "capture"} =>
                             plan[l].step = i /\ plan[l].want \in {batch[i].before, batch[i].record}
<1>1. \A a : a.step = i /\ a.want \in {batch[i].before, batch[i].record} => Fits(<<a>>)
  OBVIOUS
<1>2. \A do : Action(do, i).step = i /\ Action(do, i).want = batch[i].record
  BY DEF Action
<1>3. \A do : Fits(<<Action(do, i)>>)
  BY <1>1, <1>2
<1>4. CASE program[i].op = "rename"
  <2>1. PlanOf(i) = <<Action("rename", i)>> \/ PlanOf(i) = <<Action("manual", i)>>
    BY <1>4 DEF PlanOf, RenamePlan, Manual
  <2>2. Fits(PlanOf(i))
    BY <1>3, <2>1
  <2> QED
    BY <2>2
<1>5. CASE program[i].op = "capture"
  <2> DEFINE a == [Action("capture", i) EXCEPT !.want = batch[i].before]
  <2>1. \/ PlanOf(i) = <<Action("capture", i)>>
        \/ PlanOf(i) = <<a>>
        \/ PlanOf(i) = <<Action("manual", i)>>
    BY <1>5 DEF PlanOf, CapturePlan, Manual
  <2>2. a.step = i /\ a.want = batch[i].before
    BY DEF Action
  <2> HIDE DEF a
  <2>3. Fits(<<a>>)
    BY <1>1, <2>2
  <2>4. Fits(PlanOf(i))
    BY <1>3, <2>1, <2>3
  <2> QED
    BY <2>4
<1>6. CASE program[i].op = "make"
  <2>1. PlanOf(i) = MakePlan(i)
    BY <1>6 DEF PlanOf
  <2> QED
    BY <2>1, MakePlanRemoves
<1> QED
  BY <1>4, <1>5, <1>6, Types DEF Operations

LEMMA StartBatchEvident ==
  ASSUME Inv, Inv', Keeps, EvidentInv, NEW r \in Actors, StartBatch(r) PROVE EvidentInv'
<1> DEFINE i == NextBatch(r)
           rest == [recovery[r].listed EXCEPT ![i] = "none"]
           started == [pc |-> "check", listed |-> rest, at |-> i, plan |-> PlanOf(i)]
           passed == [Resting EXCEPT !.pc = "next", !.listed = rest]
<1>1. i \in Steps /\ recovery[r].pc = "next"
  BY NextBatchStep DEF StartBatch
<1>2. UNCHANGED <<setting, worker, touched, leased, restored>>
  BY DEF StartBatch, history
<1>3. \/ Recovering(r, started) /\ batch' = [batch EXCEPT ![i].phase = "recovering"]
      \/ Recovering(r, passed) /\ UNCHANGED batch
  BY DEF StartBatch
<1>4. RowsKept /\ SameEvidence
  BY <1>3, RecoveryRows DEF Recovered
<1>5. started.plan = PlanOf(i) /\ passed.plan = <<>>
  BY DEF Resting
<1> HIDE DEF i, started, passed
<1>6. CASE Recovering(r, passed)
  <2>1. PlansFrom
    BY <1>5, <1>6, EmptyPlan
  <2> QED
    BY <1>1, <1>2, <1>4, <2>1, RecoveryEvident
<1>7. CASE Recovering(r, started) /\ batch' = [batch EXCEPT ![i].phase = "recovering"]
  <2>1. recovery'[r].plan = PlanOf(i) /\ \A s \in Actors \ {r} : recovery'[s] = recovery[s]
    BY <1>5, <1>7, RecoveryTypes DEF Recovering
  <2>2. batch'[i].phase = "recovering"
    BY <1>1, <1>7, Types DEF Batches
  <2>3. ASSUME NEW k \in 1..Len(PlanOf(i)), PlanOf(i)[k].do \in {"rename", "capture"}
        PROVE  Evident(batch', PlanOf(i)[k].step, PlanOf(i)[k].want)
    BY <1>1, <1>4, <2>2, <2>3, PlanIsEvident DEF Evident, Recovered, SameEvidence
  <2>4. PlansFrom
    <3> SUFFICES ASSUME NEW s \in Actors, NEW k \in 1..Len(recovery'[s].plan)
                 PROVE  \/ \E l \in 1..Len(recovery[s].plan) : recovery'[s].plan[k] = recovery[s].plan[l]
                        \/ recovery'[s].plan[k].do \in {"rename", "capture"} =>
                              Evident(batch', recovery'[s].plan[k].step, recovery'[s].plan[k].want)
      BY DEF PlansFrom
    <3>1. CASE s = r
      BY <2>1, <2>3, <3>1
    <3>2. CASE s # r
      BY <2>1, <3>2
    <3> QED
      BY <3>1, <3>2
  <2> QED
    BY <1>1, <1>2, <1>4, <2>4, RecoveryEvident
<1> QED
  BY <1>3, <1>6, <1>7

LEMMA CurrentEvident ==
  ASSUME Inv, PutBackInv, NEW r \in Actors, recovery[r].plan # <<>>, Current(r).do \in {"rename", "capture"}
  PROVE  /\ Current(r).step \in Steps /\ Moves(Current(r).step)
         /\ Evident(batch, Current(r).step, Current(r).want)
<1>1. Current(r) = recovery[r].plan[1] /\ 1 \in 1..Len(recovery[r].plan)
  BY RecoveryTypes DEF Current
<1>2. Evident(batch, Current(r).step, Current(r).want)
  BY <1>1 DEF PutBackInv
<1> QED
  BY <1>2, RecoveryTypes

\* What looks like the evidence is what the evidence is of.
LEMMA FoundIsEvident ==
  ASSUME Inv, SnapshotInv, NEW i \in Steps, NEW e, Evident(batch, i, e), NEW p \in Paths,
         SameStat(fs[p], e) \/ SameCapture(fs[p], e)
  PROVE  fs[p].id = 0 \/ PutBack(batch, i, fs[p].id)
<1>1. CASE ~Exists(p)
  BY <1>1, Types, TreeEntry
<1>2. CASE Exists(p)
  <2>1. Faithful(e, fs, time)
    BY DEF Evident, SnapshotInv
  <2>2. fs[p].id = e.id
    BY <1>2, <2>1 DEF Faithful, SameStat, SameCapture, SameToken, Exists
  <2> QED
    BY <2>2 DEF Evident, PutBack
<1> QED
  BY <1>1, <1>2

\* An action of a recovery that leaves its batch.
LEMMA LeavesEvident ==
  ASSUME Inv, Inv', Keeps, EvidentInv, NEW r \in Actors, recovery[r].pc # "idle",
         NEW phase \in Recovered, LeavesBatch(r, phase),
         UNCHANGED <<setting, worker, leased, touched, restored>>
  PROVE  EvidentInv'
<1> DEFINE list == recovery[r].listed
           over == [Resting EXCEPT !.pc = "next", !.listed = list]
           last == [over EXCEPT !.pc = "ended"]
<1>1. over.plan = <<>> /\ last.plan = <<>>
  BY DEF Resting
<1>2. Recovering(r, over) \/ Recovering(r, last)
  BY DEF LeavesBatch
<1>3. batch' = [batch EXCEPT ![recovery[r].at].phase = phase] \/ UNCHANGED batch
  BY DEF LeavesBatch
<1> HIDE DEF over, last
<1>4. PlansFrom
  BY <1>1, <1>2, EmptyPlan
<1>5. RowsKept /\ SameEvidence
  BY <1>3, RecoveryRows
<1> QED
  BY <1>4, <1>5, RecoveryEvident

LEMMA FailsEvident ==
  ASSUME Inv, Inv', Keeps, EvidentInv, NEW r \in Actors, recovery[r].pc # "idle", FailsBatch(r),
         UNCHANGED <<setting, worker, leased, touched, restored>>
  PROVE  EvidentInv'
<1>1. LeavesBatch(r, "recovery_failed") /\ "recovery_failed" \in Recovered
  BY DEF FailsBatch, LeavesBatch, Recovered
<1> QED
  BY <1>1, LeavesEvident

\* An action that is over, with what it has found or put back.
LEMMA DoneEvident ==
  ASSUME Inv, Inv', Keeps, EvidentInv, NEW r \in Actors, recovery[r].pc # "idle",
         recovery[r].plan # <<>>, Done(r),
         UNCHANGED <<setting, worker, leased, touched>>,
         \A i \in Steps : \/ restored'[i] \in {0, restored[i]}
                          \/ Moves(i) /\ PutBack(batch, i, restored'[i])
  PROVE  EvidentInv'
<1> DEFINE plan == recovery[r].plan
           state == [recovery[r] EXCEPT !.pc = "check", !.plan = Tail(plan)]
<1>1. plan \in Seq(Actions) /\ recovery[r] \in Recoveries
  BY RecoveryTypes
<1>2. Recovering(r, state) /\ UNCHANGED batch
  BY RecoveryTypes DEF Done, Recovering
<1>3. state.plan = Tail(plan)
  BY <1>1 DEF Recoveries
<1> HIDE DEF state
<1>4. ASSUME NEW k \in 1..Len(Tail(plan))
      PROVE  \E l \in 1..Len(plan) : Tail(plan)[k] = plan[l]
  <2> HIDE DEF plan
  <2>1. Len(plan) \in Nat /\ Len(Tail(plan)) = Len(plan) - 1
        /\ \A l \in 1..Len(plan) - 1 : Tail(plan)[l] = plan[l + 1]
    BY <1>1 DEF plan
  <2>2. k \in 1..Len(plan) - 1 /\ k + 1 \in 1..Len(plan)
    BY <2>1
  <2> QED
    BY <2>1, <2>2
<1>5. PlansFrom
  BY <1>2, <1>3, <1>4, PlanOfState
<1>6. RowsKept /\ SameEvidence
  BY <1>2 DEF RowsKept, SameEvidence
<1> QED
  BY <1>5, <1>6, RecoveryEvident

\* An action that goes on.
LEMMA OnwardEvident ==
  ASSUME Inv, Inv', Keeps, EvidentInv, NEW r \in Actors, recovery[r].pc # "idle",
         NEW pc, recovery' = [recovery EXCEPT ![r].pc = pc],
         UNCHANGED <<setting, worker, leased, touched, batch, restored>>
  PROVE  EvidentInv'
<1>1. \A s \in Actors : recovery'[s].plan = recovery[s].plan
  BY RecoveryTypes DEF Recoveries
<1>2. PlansFrom
  BY <1>1, PlansStay
<1>3. RowsKept /\ SameEvidence
  BY DEF RowsKept, SameEvidence
<1> QED
  BY <1>2, <1>3, RecoveryEvident

LEMMA PutsBack ==
  ASSUME Inv, EvidentInv, NEW r \in Actors, recovery[r].plan # <<>>, Current(r).do \in {"rename", "capture"},
         SameStat(fs[Path(Current(r).step)], Current(r).want)
            \/ SameCapture(fs[Path(Current(r).step)], Current(r).want),
         restored' = [restored EXCEPT ![Current(r).step] = fs[Path(Current(r).step)].id]
  PROVE  \A i \in Steps : \/ restored'[i] \in {0, restored[i]}
                          \/ Moves(i) /\ PutBack(batch, i, restored'[i])
<1> DEFINE s == Current(r).step
           id == fs[Path(s)].id
<1>1. s \in Steps /\ Moves(s) /\ Evident(batch, s, Current(r).want) /\ Path(s) \in Paths
  BY CurrentEvident, Types DEF EvidentInv
<1>2. id = 0 \/ PutBack(batch, s, id)
  BY <1>1, FoundIsEvident DEF EvidentInv
<1>3. restored \in [Steps -> 0..time] /\ restored' = [restored EXCEPT ![s] = id]
  BY Types DEF HistoryInv
<1> HIDE DEF s, id
<1> QED
  BY <1>1, <1>2, <1>3

LEMMA CheckActionEvident ==
  ASSUME Inv, Inv', Keeps, EvidentInv, NEW r \in Actors, CheckAction(r) PROVE EvidentInv'
<1> DEFINE a == Current(r)
           found == fs[Path(a.step)].id
<1>1. recovery[r].pc # "idle" /\ recovery[r].plan # <<>>
  BY DEF CheckAction
<1>2. UNCHANGED <<setting, worker, leased, touched>>
  BY DEF CheckAction
<1>3. CASE FailsBatch(r) /\ UNCHANGED restored
  BY <1>1, <1>2, <1>3, FailsEvident
<1>4. CASE /\ Done(r) /\ a.do \in {"rename", "capture"} /\ AlreadyRestored(a)
           /\ restored' = [restored EXCEPT ![a.step] = found]
  <2>1. SameStat(fs[Path(a.step)], a.want) \/ SameCapture(fs[Path(a.step)], a.want)
    BY <1>4 DEF AlreadyRestored
  <2>2. \A i \in Steps : \/ restored'[i] \in {0, restored[i]}
                         \/ Moves(i) /\ PutBack(batch, i, restored'[i])
    BY <1>1, <1>4, <2>1, PutsBack
  <2> QED
    BY <1>1, <1>2, <1>4, <2>2, DoneEvident
<1>5. CASE Done(r) /\ UNCHANGED restored
  BY <1>1, <1>2, <1>5, DoneEvident
<1>6. CASE recovery' = [recovery EXCEPT ![r].pc = "act"] /\ UNCHANGED <<batch, restored>>
  BY <1>1, <1>2, <1>6, OnwardEvident
<1> QED
  BY <1>3, <1>4, <1>5, <1>6 DEF CheckAction

\* A restore is verified; only renames and captures are.
UndoingInv == \A r \in Actors : recovery[r].pc = "verify" => Current(r).do # "remove"

LEMMA VerifyActionEvident ==
  ASSUME Inv, Inv', Keeps, EvidentInv, UndoingInv, NEW r \in Actors, VerifyAction(r) PROVE EvidentInv'
<1> DEFINE a == Current(r)
<1>1. recovery[r].pc = "verify" /\ recovery[r].pc # "idle" /\ recovery[r].plan # <<>>
      /\ a.do \in {"rename", "capture"}
  <2>1. recovery[r].pc = "verify"
    BY DEF VerifyAction
  <2>2. recovery[r].plan # <<>> /\ a.do \notin {"manual", "remove"}
    BY <2>1, Types DEF RecoveriesInv, RecoveryInv, UndoingInv
  <2>3. a \in Actions
    BY <2>2, RecoveryTypes
  <2> QED
    BY <2>1, <2>2, <2>3 DEF Actions
<1>2. UNCHANGED <<setting, worker, leased, touched>>
  BY DEF VerifyAction
<1>3. CASE FailsBatch(r) /\ UNCHANGED restored
  BY <1>1, <1>2, <1>3, FailsEvident
<1>4. CASE Done(r) /\ Restored(a) /\ restored' = [restored EXCEPT ![a.step] = fs[Path(a.step)].id]
  <2>1. SameStat(fs[Path(a.step)], a.want) \/ SameCapture(fs[Path(a.step)], a.want)
    BY <1>4 DEF Restored
  <2>2. \A i \in Steps : \/ restored'[i] \in {0, restored[i]}
                         \/ Moves(i) /\ PutBack(batch, i, restored'[i])
    BY <1>1, <1>4, <2>1, PutsBack
  <2> QED
    BY <1>1, <1>2, <1>4, <2>2, DoneEvident
<1> QED
  BY <1>3, <1>4 DEF VerifyAction

LEMMA ActEvident ==
  ASSUME Inv, Inv', Keeps, EvidentInv, NEW r \in Actors, Act(r) PROVE EvidentInv'
<1>1. recovery[r].pc = "act" /\ recovery[r].pc # "idle" /\ recovery[r].plan # <<>>
  BY Types DEF Act, RecoveriesInv, RecoveryInv
<1>2. UNCHANGED <<setting, worker, leased, touched, restored>>
  BY DEF Act
<1>3. \/ FailsBatch(r) \/ Done(r)
      \/ recovery' = [recovery EXCEPT ![r].pc = "verify"] /\ UNCHANGED batch
  BY DEF Act
<1>4. CASE FailsBatch(r)
  BY <1>1, <1>2, <1>4, FailsEvident
<1>5. CASE Done(r)
  BY <1>1, <1>2, <1>5, DoneEvident
<1>6. CASE recovery' = [recovery EXCEPT ![r].pc = "verify"] /\ UNCHANGED batch
  BY <1>1, <1>2, <1>6, OnwardEvident
<1> QED
  BY <1>3, <1>4, <1>5, <1>6

LEMMA FinishBatchEvident ==
  ASSUME Inv, Inv', Keeps, EvidentInv, NEW r \in Actors, FinishBatch(r) PROVE EvidentInv'
<1>1. recovery[r].pc # "idle" /\ UNCHANGED <<setting, worker, leased, touched, restored>>
  BY DEF FinishBatch, history
<1>2. LeavesBatch(r, "recovered") /\ "recovered" \in Recovered
  BY DEF FinishBatch, LeavesBatch, Recovered
<1> QED
  BY <1>1, <1>2, LeavesEvident

\* A recovery that begins, ends or crashes has no plan.
LEMMA RestsEvident ==
  ASSUME Inv, Inv', Keeps, EvidentInv, NEW r \in Actors, recovery[r].pc # "idle" \/ ~leased,
         NEW state, state.plan = <<>>, Recovering(r, state),
         UNCHANGED <<setting, worker, touched, batch, restored>>, leased' = leased \/ leased' = FALSE
  PROVE  EvidentInv'
<1>1. PlansFrom
  BY EmptyPlan
<1>2. RowsKept /\ SameEvidence
  BY DEF RowsKept, SameEvidence
<1> QED
  BY <1>1, <1>2, RecoveryEvident

LEMMA EndRecoveryEvident ==
  ASSUME Inv, Inv', Keeps, EvidentInv, NEW r \in Actors, EndRecovery(r) PROVE EvidentInv'
<1>1. /\ recovery[r].pc # "idle" /\ leased' = FALSE
      /\ UNCHANGED <<setting, worker, touched, batch, restored>>
  BY DEF EndRecovery, history
<1>2. PICK pc \in {"idle", "ended"} : Recovering(r, [Resting EXCEPT !.pc = pc])
  BY DEF EndRecovery
<1> DEFINE state == [Resting EXCEPT !.pc = pc]
<1>3. state.plan = <<>> /\ Recovering(r, state)
  BY <1>2 DEF Resting
<1> HIDE DEF state
<1> QED
  BY <1>1, <1>3, RestsEvident

LEMMA CrashWorkspaceEvident ==
  ASSUME Inv, Inv', Keeps, EvidentInv, CrashWorkspace PROVE EvidentInv'
<1>1. /\ recovery["workspace"].pc # "idle" /\ "workspace" \in Actors
      /\ UNCHANGED <<setting, worker, touched, batch, leased, restored>>
      /\ Recovering("workspace", Resting)
  BY DEF CrashWorkspace, journal, history, Actors
<1>2. Resting.plan = <<>>
  BY DEF Resting
<1> QED
  BY <1>1, <1>2, RestsEvident

LEMMA BeginWorkspaceEvident ==
  ASSUME Inv, Inv', Keeps, EvidentInv, BeginWorkspace PROVE EvidentInv'
<1> DEFINE list == [i \in Steps |-> IF Pending(i) THEN batch[i].phase ELSE "none"]
           state == [Resting EXCEPT !.pc = "next", !.listed = list]
<1>1. /\ ~leased /\ "workspace" \in Actors
      /\ UNCHANGED <<setting, worker, touched, batch, leased, restored>>
      /\ Recovering("workspace", state)
  BY DEF BeginWorkspace, journal, history, Actors
<1>2. state.plan = <<>>
  BY DEF Resting
<1> HIDE DEF state
<1> QED
  BY <1>1, <1>2, RestsEvident

-----------------------------------------------------------------------------
(* The steps of other programs *)

LEMMA OutsiderEvident ==
  ASSUME Inv, Inv', Keeps, EvidentInv,
         UNCHANGED <<setting, batch, leased, worker, recovery, restored>>, touched \subseteq touched',
         \A p \in Paths : fs'[p].id \in {0, fs[p].id} \cup touched'
  PROVE  EvidentInv'
<1>1. SameEvidence /\ RowsKept
  BY DEF SameEvidence, RowsKept
<1>2. SnapshotInv'
  BY <1>1, SnapshotsStay DEF EvidentInv
<1>3. worker.step \in Steps \/ worker.pc \notin InStep
  BY Types DEF WorkerInv, InStep, Between
<1>4. \A i \in Steps : fs'[Path(i)].id \in {0, fs[Path(i)].id} \cup touched'
  BY Types
<1>5. EvidenceInv'
  BY <1>1, <1>3, <1>4, EvidenceStays DEF EvidentInv
<1>6. PutBackInv'
  BY <1>1, PlansStay, PutBackStep DEF EvidentInv
<1> QED
  BY <1>2, <1>5, <1>6 DEF EvidentInv

LEMMA OthersEvident ==
  ASSUME Inv, Inv', Keeps, EvidentInv, Others PROVE EvidentInv'
<1>0. TreeInv /\ fs \in [Paths -> Entries] /\ Names \in SUBSET Paths
  BY Types, ProgramTypes DEF Names, BoundsInv, TreeInv, IsTree
<1>1. PICK p \in Paths : Create(p) \/ Change(p) \/ Delete(p) \/ \E q \in Paths : Move(p, q)
  BY <1>0 DEF Others
<1>2. /\ UNCHANGED <<setting, batch, leased, worker, recovery, restored>>
      /\ touched \subseteq touched'
  BY <1>1 DEF Create, Change, Delete, Move, Outsider, journal
<1>3. \A x \in Paths : fs'[x].id \in {0, fs[x].id} \cup touched'
  <2>1. CASE Create(p)
    <3>1. PICK kind, ino : fs' = [fs EXCEPT ![p] = New(kind, ino)] /\ time + 1 \in touched'
      BY <2>1 DEF Create, Outsider, Fs
    <3>2. New(kind, ino).id = time + 1
      BY DEF New
    <3> QED
      BY <1>0, <3>1, <3>2
  <2>2. CASE Change(p)
    <3>1. fs'[p].id = fs[p].id /\ \A x \in Paths \ {p} : fs'[x] = fs[x]
      BY <1>0, <2>2 DEF Change, Outsider, Fs, Entries
    <3> QED
      BY <3>1
  <2>3. CASE Delete(p)
    BY <1>0, <2>3, EntryTypes DEF Delete, Outsider, Fs
  <2>4. CASE \E q \in Paths : Move(p, q)
    <3>1. PICK q \in Paths : Move(p, q)
      BY <2>4
    <3>2. CanRename(p, q) /\ fs' = Renamed(p, q) /\ fs[p].id \in touched'
      BY <3>1 DEF Move, Outsider, Fs
    <3>3. SameEntry(fs[p], fs'[q]) /\ fs'[p] = Nothing /\ \A x \in Paths \ {p, q} : fs'[x] = fs[x]
      BY <1>0, <3>2, MovedTree
    <3> QED
      BY <3>2, <3>3, EntryTypes DEF SameEntry
  <2> QED
    BY <1>1, <2>1, <2>2, <2>3, <2>4
<1> QED
  BY <1>2, <1>3, OutsiderEvident

-----------------------------------------------------------------------------
(* The invariant holds *)

RestoreInv == Inv /\ EvidentInv /\ UndoingInv

LEMMA InitRestore == Init => RestoreInv
<1> SUFFICES ASSUME Init PROVE RestoreInv
  OBVIOUS
<1>1. Inv
  BY InitInv
<1>2. time \in Nat /\ TreeInv
  BY <1>1, Types
<1>3. /\ \A p \in Paths : fs[p].mtime = 0
      /\ worker = [pc |-> "begin", step |-> 1, found |-> Unseen, mine |-> Unseen, manual |-> FALSE]
      /\ batch = [i \in Steps |-> NoBatch]
      /\ recovery = [r \in Actors |-> Resting] /\ restored = [i \in Steps |-> 0]
  <2>1. ASSUME NEW kind, NEW ino PROVE [Nothing EXCEPT !.kind = kind, !.ino = ino, !.id = ino].mtime = 0
    BY DEF Nothing
  <2> QED
    BY <2>1 DEF Init
<1>4. Faithful(Unseen, fs, time)
  <2>1. Unseen.ino = 0 /\ Unseen.mtime = 0
    BY DEF Unseen, Nothing
  <2>2. \A p \in Paths : Exists(p) => fs[p].ino # 0
    BY <1>2, TreeEntry, InodeTypes
  <2> QED
    BY <1>2, <2>1, <2>2 DEF Faithful, Exists
<1>5. \A i \in Steps : batch[i].before = Unseen /\ batch[i].record = Unseen
  BY <1>3 DEF NoBatch
<1>6. SnapshotInv
  BY <1>2, <1>3, <1>4, <1>5 DEF SnapshotInv
<1>7. Unseen.id = 0
  BY DEF Unseen, Nothing
<1>8. EvidenceInv
  BY <1>3, <1>5, <1>7 DEF EvidenceInv, Accounted, InStep
<1>9. \A r \in Actors : recovery[r].plan = <<>> /\ recovery[r].pc = "idle"
  BY <1>3 DEF Resting
<1>10. PutBackInv
  <2>1. Len(<<>>) = 0
    OBVIOUS
  <2> QED
    BY <1>3, <1>9, <2>1 DEF PutBackInv
<1>11. UndoingInv
  BY <1>9 DEF UndoingInv
<1> QED
  BY <1>1, <1>6, <1>8, <1>10, <1>11 DEF RestoreInv, EvidentInv

LEMMA EvidentStep ==
  ASSUME RestoreInv, Inv', Keeps, Next PROVE EvidentInv'
<1> USE DEF RestoreInv
<1>1. CASE Body
  BY <1>1, BeginEvident, BodyRaisesEvident, BeforeEvident, CheckEvident, MutateEvident, VerifyEvident,
     ObserveEvident, MarkEvident, DesireEvident, RecordEvident, SucceedEvident DEF Body
<1>2. CASE Exit
  BY <1>2, CommitEvident, CleanUpEvident, RemoveCapturedEvident, LeaveEvident, BeginRollbackEvident DEF Exit
<1>3. CASE LoseLease \/ BeginWorkspace \/ CrashWorkspace \/ Others
  BY <1>3, LoseLeaseEvident, BeginWorkspaceEvident, CrashWorkspaceEvident, OthersEvident
<1>4. CASE \E r \in Actors : Recover(r)
  BY <1>4, StartBatchEvident, CheckActionEvident, ActEvident, VerifyActionEvident,
     FinishBatchEvident, EndRecoveryEvident DEF Recover
<1> QED
  BY <1>1, <1>2, <1>3, <1>4 DEF Next

\* A recovery that is not about to verify.
LEMMA NotVerifying ==
  ASSUME Inv, UndoingInv, NEW r \in Actors, recovery' = [recovery EXCEPT ![r] = recovery'[r]],
         recovery'[r].pc # "verify"
  PROVE  UndoingInv'
<1>1. \A s \in Actors \ {r} : recovery'[s] = recovery[s]
  BY RecoveryTypes
<1> QED
  BY <1>1 DEF UndoingInv, Current

LEMMA UndoingStep ==
  ASSUME Inv, UndoingInv, Next PROVE UndoingInv'
<1>1. CASE UNCHANGED recovery
  BY <1>1 DEF UndoingInv, Current
<1>2. ASSUME NEW r \in Actors, NEW state, Recovering(r, state), state.pc # "verify" PROVE UndoingInv'
  <2>1. recovery'[r] = state /\ recovery' = [recovery EXCEPT ![r] = recovery'[r]]
    BY <1>2, RecoveryTypes DEF Recovering
  <2> QED
    BY <1>2, <2>1, NotVerifying
<1>3. /\ Resting.pc = "idle" /\ \A pc : [Resting EXCEPT !.pc = pc].pc = pc
      /\ \A pc, list : [Resting EXCEPT !.pc = pc, !.listed = list].pc = pc
      /\ \A pc, list : [[Resting EXCEPT !.pc = "next", !.listed = list] EXCEPT !.pc = pc].pc = pc
  BY DEF Resting
<1>4. ASSUME NEW r \in Actors, NEW phase, LeavesBatch(r, phase) PROVE UndoingInv'
  <2> DEFINE over == [Resting EXCEPT !.pc = "next", !.listed = recovery[r].listed]
             last == [over EXCEPT !.pc = "ended"]
  <2>1. over.pc = "next" /\ last.pc = "ended"
    BY <1>3
  <2>2. Recovering(r, over) \/ Recovering(r, last)
    BY <1>4 DEF LeavesBatch
  <2> HIDE DEF over, last
  <2> QED
    BY <1>2, <2>1, <2>2
<1>5. ASSUME NEW r \in Actors, FailsBatch(r) PROVE UndoingInv'
  <2>1. LeavesBatch(r, "recovery_failed")
    BY <1>5 DEF FailsBatch, LeavesBatch
  <2> QED
    BY <1>4, <2>1
<1>6. ASSUME NEW r \in Actors, Done(r) PROVE UndoingInv'
  <2>1. recovery'[r].pc = "check" /\ recovery' = [recovery EXCEPT ![r] = recovery'[r]]
    BY <1>6, RecoveryTypes DEF Done, Recoveries
  <2> QED
    BY <2>1, NotVerifying
<1>7. ASSUME NEW r \in Actors, recovery' = [recovery EXCEPT ![r].pc = "act"] PROVE UndoingInv'
  <2>1. recovery'[r].pc = "act" /\ recovery' = [recovery EXCEPT ![r] = recovery'[r]]
    BY <1>7, RecoveryTypes DEF Recoveries
  <2> QED
    BY <2>1, NotVerifying
<1>8. ASSUME NEW r \in Actors, recovery' = [recovery EXCEPT ![r].pc = "verify"], Current(r).do # "remove"
      PROVE  UndoingInv'
  <2>1. recovery'[r].plan = recovery[r].plan /\ \A s \in Actors \ {r} : recovery'[s] = recovery[s]
    BY <1>8, RecoveryTypes DEF Recoveries
  <2> QED
    BY <1>8, <2>1 DEF UndoingInv, Current
<1>9. CASE Body \/ LoseLease \/ Others
  <2>1. UNCHANGED recovery
    BY <1>9 DEF Body, Begin, BodyRaises, Before, Check, Mutate, Verify, Observe, Mark, Desire, Record, Succeed,
                fixed, LoseLease, Others, Create, Change, Delete, Move, Outsider
  <2> QED
    BY <1>1, <2>1
<1>10. CASE Exit
  <2>1. CASE BeginRollback
    <3>1. UNCHANGED recovery \/ \E list : Recovering("rollback", [Resting EXCEPT !.pc = "next", !.listed = list])
      BY <2>1 DEF BeginRollback
    <3>2. ASSUME NEW list, Recovering("rollback", [Resting EXCEPT !.pc = "next", !.listed = list]) PROVE UndoingInv'
      <4> DEFINE state == [Resting EXCEPT !.pc = "next", !.listed = list]
      <4>1. state.pc = "next" /\ Recovering("rollback", state) /\ "rollback" \in Actors
        BY <1>3, <3>2 DEF Actors
      <4> HIDE DEF state
      <4> QED
        BY <1>2, <4>1
    <3> QED
      BY <1>1, <3>1, <3>2
  <2>2. CASE Commit \/ CleanUp \/ RemoveCaptured \/ Leave
    BY <1>1, <2>2 DEF Commit, CleanUp, RemoveCaptured, Leave, fixed
  <2> QED
    BY <1>10, <2>1, <2>2 DEF Exit
<1>11. CASE BeginWorkspace \/ CrashWorkspace
  <2>1. CASE CrashWorkspace
    <3>1. Recovering("workspace", Resting) /\ "workspace" \in Actors
      BY <2>1 DEF CrashWorkspace, Actors
    <3> QED
      BY <1>2, <1>3, <3>1
  <2>2. CASE BeginWorkspace
    <3> DEFINE list == [i \in Steps |-> IF Pending(i) THEN batch[i].phase ELSE "none"]
               state == [Resting EXCEPT !.pc = "next", !.listed = list]
    <3>1. Recovering("workspace", state) /\ "workspace" \in Actors
      BY <2>2 DEF BeginWorkspace, Actors
    <3>2. state.pc = "next"
      BY <1>3
    <3> HIDE DEF state
    <3> QED
      BY <1>2, <3>1, <3>2
  <2> QED
    BY <1>11, <2>1, <2>2
<1>12. ASSUME NEW r \in Actors, Recover(r) PROVE UndoingInv'
  <2>1. CASE StartBatch(r)
    <3>1. \/ \E list, at, plan :
                Recovering(r, [pc |-> "check", listed |-> list, at |-> at, plan |-> plan])
          \/ \E list : Recovering(r, [Resting EXCEPT !.pc = "next", !.listed = list])
      BY <2>1 DEF StartBatch
    <3> QED
      BY <1>2, <1>3, <3>1
  <2>2. CASE CheckAction(r)
    BY <1>5, <1>6, <1>7, <2>2 DEF CheckAction
  <2>3. CASE Act(r)
    BY <1>5, <1>6, <1>8, <2>3 DEF Act
  <2>4. CASE VerifyAction(r)
    BY <1>5, <1>6, <2>4 DEF VerifyAction
  <2>5. CASE FinishBatch(r)
    <3>1. LeavesBatch(r, "recovered")
      BY <2>5 DEF FinishBatch, LeavesBatch
    <3> QED
      BY <1>4, <3>1
  <2>6. CASE EndRecovery(r)
    <3>1. PICK pc \in {"idle", "ended"} : Recovering(r, [Resting EXCEPT !.pc = pc])
      BY <2>6 DEF EndRecovery
    <3> DEFINE state == [Resting EXCEPT !.pc = pc]
    <3>2. state.pc # "verify" /\ Recovering(r, state)
      BY <1>3, <3>1
    <3> HIDE DEF state
    <3> QED
      BY <1>2, <3>2
  <2> QED
    BY <1>12, <2>1, <2>2, <2>3, <2>4, <2>5, <2>6 DEF Recover
<1> QED
  BY <1>9, <1>10, <1>11, <1>12 DEF Next

LEMMA StutterRestore ==
  ASSUME RestoreInv, UNCHANGED vars PROVE RestoreInv'
<1>1. Inv'
  BY StutterInv DEF RestoreInv
<1>2. UNCHANGED <<setting, worker, batch, recovery, restored, touched, leased, fs, time>>
  BY DEF vars, setting
<1>3. OwnChange /\ \A p \in Paths : fs[p].mtime <= time
  BY <1>2 DEF OwnChange, RestoreInv, EvidentInv, SnapshotInv
<1>4. Keeps
  BY <1>3, OwnKeeps DEF RestoreInv
<1>5. \A p \in Paths : fs'[p].id \in {0, fs[p].id} \cup touched'
  BY <1>2
<1>6. EvidentInv'
  BY <1>1, <1>2, <1>4, <1>5, OutsiderEvident DEF RestoreInv
<1>7. UndoingInv'
  BY <1>2 DEF RestoreInv, UndoingInv, Current
<1> QED
  BY <1>1, <1>6, <1>7 DEF RestoreInv

LEMMA SpecRestore == Spec => []RestoreInv
<1>1. RestoreInv /\ Next => RestoreInv'
  <2> SUFFICES ASSUME RestoreInv, Next PROVE RestoreInv'
    OBVIOUS
  <2>1. Inv' /\ (OwnChange \/ Others)
    BY NextInv DEF RestoreInv
  <2>2. Keeps
    BY <2>1, OwnKeeps, OthersKeep DEF RestoreInv, EvidentInv, SnapshotInv
  <2>3. EvidentInv' /\ UndoingInv'
    BY <2>1, <2>2, EvidentStep, UndoingStep DEF RestoreInv
  <2> QED
    BY <2>1, <2>3 DEF RestoreInv
<1>2. RestoreInv /\ [Next]_vars => RestoreInv'
  BY <1>1, StutterRestore
<1> QED
  BY <1>2, InitRestore, PTL DEF Spec

-----------------------------------------------------------------------------
(* The theorem *)

\* A recovery puts back, or takes for restored (_skip_if_already_restored), only
\* the entry that was there before the step, or one that other programs have had
\* their hands on and the journal has recorded; never an entry that only looks
\* like it because inode numbers are used again.
THEOREM RestoresWhatWasMoved == Spec => []RestoredIsWhatWasMoved
<1>1. RestoreInv => RestoredIsWhatWasMoved
  <2> SUFFICES ASSUME RestoreInv, NEW i \in Steps, restored[i] # 0
               PROVE  \/ restored[i] \in {moved[i], batch[i].before.id}
                      \/ restored[i] \in touched /\ restored[i] = batch[i].record.id
    BY DEF RestoredIsWhatWasMoved
  <2>1. Moves(i) /\ restored[i] \in {batch[i].before.id, batch[i].record.id}
    BY DEF RestoreInv, EvidentInv, PutBackInv, PutBack
  <2>2. batch[i].record.id \in {0, batch[i].before.id} \cup touched
    BY <2>1 DEF RestoreInv, EvidentInv, EvidenceInv, Accounted
  <2> QED
    BY <2>1, <2>2
<1> QED
  BY <1>1, SpecRestore, PTL
=============================================================================
