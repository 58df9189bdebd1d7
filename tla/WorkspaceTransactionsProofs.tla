-------------------- MODULE WorkspaceTransactionsProofs --------------------
(***************************************************************************)
(* Theorems about WorkspaceTransactions, for any number of grants, files,  *)
(* batches and edits by other programs.                                    *)
(*                                                                         *)
(* The invariant Inv gives every actor a part of its own, ActorInv(k).     *)
(* Nothing but the current lease separates the actors, and a stalled one   *)
(* goes on without it, so a step is proved in two halves: what it leaves   *)
(* of its own part, and a summary Moves(k) of what it may do to everything *)
(* the other actors rely on.  MovesInv shows once that such a summary      *)
(* keeps the parts of all others and what is said of the shared tables.    *)
(***************************************************************************)
EXTENDS WorkspaceTransactions, FiniteSetTheorems, SequenceTheorems,
        WellFoundedInduction, TLAPS

-----------------------------------------------------------------------------
(* The invariant *)

Rolling == {"rolling", "inspected", "settling"} \cup Restoring

\* Grants are numbered in order, and no journal row knows a later one.
LeaseInv ==
    /\ \A k \in Actors : actor[k].pc # "idle" => k <= fence[Workspace]
    /\ \A b \in Journal : batches[b].tx <= fence[Workspace] /\ batches[b].bound <= fence[Workspace]

\* Only a sweep lists artifacts, and it lists batches there are.
ListInv == \A phase \in CleanedPhases :
    listed[phase] \subseteq Journal /\ (listed[phase] # {} => Sweeps)

\* An actor in the middle of a batch has one, and settles only a recovered one.
TodoInv(k) ==
    /\ actor[k].todo \subseteq Journal
    /\ actor[k].pc \in {"inspected", "settling", "deleting"} \cup Restoring => actor[k].todo # {}
    /\ actor[k].pc = "settling" =>
          batches[NextToRecover(actor[k].todo)].phase = "recovery_succeeded"

\* How far the evidence of a write is when its writer is at pc.
Stages(pc, row) ==
    /\ pc = "planned" => row.phase = "planned" /\ row.proof = "none"
    /\ pc # "planned" => row.phase = "attempting"
    /\ pc = "started" => row.proof = "none"
    /\ pc = "backed_up" => row.proof = "backup"
    /\ pc \in {"prepared", "checked", "mutated", "observed"} => row.proof = "full"

\* A writer that has not been taken over finds its batch where it left it.
WriterInv(k) ==
    /\ actor[k].pc = "entering" => OwnBatches(k) = {}
    /\ actor[k].pc \in Writing =>
          /\ OwnBatches(k) # {}
          /\ batches[Writes(k)].bound = k => Stages(actor[k].pc, batches[Writes(k)])

Commits(k) == actor[k].pc = "committing" \/ (actor[k].pc = "deleting" /\ actor[k].why = "commit")
Sweeping(k) == actor[k].pc = "sweeping" \/ (actor[k].pc = "deleting" /\ actor[k].why # "commit")

\* A clean exit cleans its own batches, which stand until they are taken over; a
\* sweep has a lease that no batch was ever bound to.
CleanerInv(k) ==
    /\ Commits(k) =>
          /\ actor[k].why = "commit"
          /\ k \in committed
          /\ \A b \in actor[k].todo :
                /\ batches[b].tx = k
                /\ batches[b].bound = k => batches[b].phase = "succeeded"
    /\ Sweeping(k) =>
          /\ actor[k].why # "commit"
          /\ Sweeps
          /\ \A b \in Journal : batches[b].bound # k

\* A transaction in its body has its claims as long as it has its lease.
HolderInv(k) == (Current(k) /\ actor[k].pc \in InBody) => \A f \in Files : claims[f] = k

\* No write stands of a transaction that rolls back, or gives its claims up
\* without a commit.
UndoneInv(k) ==
    (/\ k \in Automatic \ committed
     /\ actor[k].pc = "releasing" \/ (actor[k].pc \in Rolling /\ actor[k].why = "rollback"))
    => \A b \in OwnBatches(k) : batches[b].phase # "succeeded"

\* A recovery under the current lease has every batch that needs one on its list.
RecovererInv(k) ==
    (Current(k) /\ actor[k].pc \in Rolling /\ actor[k].why = "recover") =>
        \A b \in Journal :
            /\ batches[b].phase \in Unfinished => b \in actor[k].todo \cup actor[k].failed
            /\ (batches[b].phase = "succeeded" /\ batches[b].tx \in Automatic \ committed)
                  => b \in actor[k].todo

\* A recovery works on an attempt of its own until its lease is taken over: the
\* lease may lapse, but only its holder gives it up.
AttemptInv(k) ==
    (actor[k].pc \in Restoring /\ k = fence[Workspace]) => HoldsAttempt(k, Target(k))

ActorInv(k) ==
    /\ TodoInv(k)
    /\ WriterInv(k)
    /\ CleanerInv(k)
    /\ HolderInv(k)
    /\ UndoneInv(k)
    /\ RecovererInv(k)
    /\ AttemptInv(k)

\* A write that stands without a commit is claimed, so that it can be undone.
ClaimedInv == \A b \in Journal :
    (batches[b].phase = "succeeded" /\ batches[b].tx \in Automatic \ committed) => HasClaim(b)

\* The backup of a write is there until the write is undone or committed.
RowKept(row, done) ==
    (row.proof # "none" /\ row.phase # "recovery_succeeded" /\ row.tx \notin done)
    => row.artifact \/ Missing(row.file, row.before)
KeptInv == Sweeps \/ \A b \in Journal : RowKept(batches[b], committed)

Inv ==
    /\ TypeOK
    /\ LeaseInv
    /\ ListInv
    /\ \A k \in Actors : ActorInv(k)
    /\ ClaimedInv
    /\ KeptInv

-----------------------------------------------------------------------------
(* The ends of a set of numbers *)

\* Every set of numbers that is not empty has an oldest member.
LEMMA OldestIsFirst ==
  ASSUME NEW S \in SUBSET Nat, S # {}
  PROVE  Oldest(S) \in S /\ \A c \in S : Oldest(S) <= c
<1>1. \E x \in S : \A y \in S : ~ (<<y, x>> \in OpToRel(<, Nat))
  BY NatLessThanWellFounded, WFMin
<1>2. PICK x \in S : \A y \in S : <<y, x>> \notin OpToRel(<, Nat)
  BY <1>1
<1>3. ASSUME NEW y \in S PROVE x <= y
  <2>1. x \in Nat /\ y \in Nat
    OBVIOUS
  <2>2. ~(y < x)
    BY <1>2, <2>1 DEF OpToRel
  <2> QED
    BY <2>1, <2>2
<1> QED
  BY <1>3 DEF Oldest

\* A set of numbers with a bound has a newest member as well.
LEMMA NewestIsLast ==
  ASSUME NEW n \in Nat, NEW S \in SUBSET (0..n), S # {}
  PROVE  Newest(S) \in S /\ \A c \in S : c <= Newest(S)
<1> DEFINE T == {n - x : x \in S}
<1>1. T \in SUBSET Nat /\ T # {}
  <2>1. ASSUME NEW x \in S PROVE x \in Nat /\ n - x \in Nat
    <3>1. x \in 0..n
      OBVIOUS
    <3> QED
      BY <3>1
  <2>2. T \subseteq Nat
    BY <2>1
  <2>3. PICK x \in S : TRUE
    OBVIOUS
  <2>4. n - x \in T
    OBVIOUS
  <2> QED
    BY <2>2, <2>4
<1>2. \E x \in T : \A y \in T : x <= y
  BY <1>1, OldestIsFirst
<1>3. PICK x \in S : \A y \in T : n - x <= y
  BY <1>2
<1>4. \A y \in S : n - x <= n - y
  BY <1>3
<1>5. ASSUME NEW y \in S PROVE y <= x
  <2>1. x \in 0..n /\ y \in 0..n
    OBVIOUS
  <2> QED
    BY <1>4, <2>1
<1> QED
  BY <1>5 DEF Newest

\* The files are finite in number, so they have a bound.
LEMMA FilesAreBounded == \E n \in Nat : Files \subseteq 0..n
<1>1. Files \subseteq Nat /\ IsFiniteSet(Files)
  BY WorkspaceTransactionsAssumption
<1>2. PICK s \in Seq(Files) : \A f \in Files : \E i \in 1..Len(s) : s[i] = f
  BY <1>1 DEF IsFiniteSet
<1> DEFINE n == Len(s)
           Bounds(m, B) == \A i \in 1..m : s[i] <= B
           Open == {m \in 0..n : ~\E B \in Nat : Bounds(m, B)}
<1>3. n \in Nat /\ \A i \in 1..n : s[i] \in Nat
  <2>1. n \in Nat /\ \A i \in 1..n : s[i] \in Files
    BY <1>2
  <2> QED
    BY <1>1, <2>1
<1> HIDE DEF n
<1>4. Open = {}
  <2> SUFFICES ASSUME Open # {} PROVE FALSE
    OBVIOUS
  <2> DEFINE m == Oldest(Open)
  <2>1. Open \in SUBSET Nat
    OBVIOUS
  <2>2. m \in Open /\ \A c \in Open : m <= c
    BY <2>1, OldestIsFirst
  <2> HIDE DEF m
  <2>3. m # 0
    <3>1. Bounds(0, 0)
      OBVIOUS
    <3> QED
      BY <3>1, <2>2
  <2>4. m \in 1..n /\ m - 1 \in 0..n /\ m - 1 \notin Open
    <3>1. m \in 0..n
      BY <2>2
    <3>2. m \in 1..n /\ m - 1 \in 0..n /\ ~(m <= m - 1)
      BY <3>1, <2>3, <1>3
    <3> QED
      BY <3>2, <2>2
  <2>5. PICK B \in Nat : Bounds(m - 1, B)
    BY <2>4
  <2>6. PICK C \in Nat : s[m] <= C /\ B <= C
    <3>1. \A x, y \in Nat : x + y \in Nat /\ x <= x + y /\ y <= x + y
      OBVIOUS
    <3>2. s[m] \in Nat
      BY <2>4, <1>3
    <3> QED
      BY <3>1, <3>2
  <2>7. ASSUME NEW i \in 1..m PROVE s[i] <= C
    <3>1. CASE i = m
      BY <3>1, <2>6
    <3>2. CASE i # m
      <4>1. i \in 1..(m - 1) /\ i \in 1..n
        BY <3>2, <2>4, <1>3
      <4>2. s[i] <= B
        BY <4>1, <2>5
      <4>3. s[i] \in Nat
        BY <4>1, <1>3
      <4>4. \A x, y, z \in Nat : x <= y /\ y <= z => x <= z
        OBVIOUS
      <4> QED
        BY <4>2, <4>3, <4>4, <2>6
    <3> QED
      BY <3>1, <3>2
  <2> QED
    BY <2>2, <2>6, <2>7
<1>5. PICK B \in Nat : Bounds(n, B)
  <2>1. n \in 0..n
    BY <1>3
  <2> QED
    BY <1>4, <2>1
<1>6. \A f \in Files : f \in 0..B
  BY <1>1, <1>2, <1>5 DEF n
<1> QED
  BY <1>6

\* The files are numbers with a bound, so every set of them has a newest member.
LEMMA NewestFile ==
  ASSUME NEW S \in SUBSET Files, S # {}
  PROVE  Newest(S) \in S /\ \A c \in S : c <= Newest(S)
<1>1. PICK n \in Nat : Files \subseteq 0..n
  BY FilesAreBounded
<1> QED
  BY <1>1, NewestIsLast

-----------------------------------------------------------------------------
(* What a step of one actor does to the others *)

\* What the step of actor k may do to a batch.
RowStep(k, old, new) ==
    /\ new.tx = old.tx /\ new.file = old.file
    /\ new.bound \in {old.bound, k} /\ (new.bound # old.bound => Current(k))
    /\ old.phase = "recovery_succeeded" => new.phase = "recovery_succeeded"
    /\ (new.phase # old.phase \/ new.proof # old.proof) => new.bound = k
    /\ (new.phase = "succeeded" /\ old.phase # "succeeded") =>
          old.tx = k /\ Current(k) /\ claims[old.file] = k
    /\ (new.phase \in Unfinished /\ old.phase \notin Unfinished) => Current(k)
    /\ Sweeps \/ (RowKept(old, committed) => RowKept(new, committed))

\* New batches are planned, under the current lease.
RowsGrow(k) ==
    /\ Len(batches) <= Len(batches')
    /\ \A b \in 1..Len(batches') :
          b \notin Journal => /\ Current(k)
                              /\ batches'[b].tx = k /\ batches'[b].bound = k
                              /\ batches'[b].phase = "planned" /\ batches'[b].proof = "none"

\* A claim that protects a write which stands goes when nothing needs it.
ClaimsKept == \A b \in Journal :
    (/\ HasClaim(b)
     /\ batches'[b].phase = "succeeded" /\ batches[b].tx \in Automatic \ committed')
    => claims'[batches[b].file] = batches[b].tx

Moves(k) ==
    /\ \A j \in Actors \ {k} : actor'[j] = actor[j]
    /\ \A b \in Journal : RowStep(k, batches[b], batches'[b])
    /\ RowsGrow(k)
    /\ committed \subseteq committed' /\ committed' \subseteq committed \cup {k}
    /\ fence[Workspace] <= fence'[Workspace] /\ k <= fence'[Workspace]
    /\ \A j \in Actors \ {k} : Current(j)' => Current(j)
    /\ \A j \in Actors \ {k} : (Current(j) /\ j = fence'[Workspace]) => Current(j)'
    /\ \A f \in Files : claims'[f] # claims[f] => Current(k) \/ claims[f] = k
    /\ ClaimsKept
    /\ \A phase \in CleanedPhases : listed'[phase] \in {listed[phase], {}}

\* Types in the form the steps use.
LEMMA Types ==
  ASSUME TypeOK
  PROVE  /\ Workspace \in Names /\ Names = {Workspace}
         /\ fence \in [Names -> 0..MaxFence] /\ tenure \in [Names -> Tenures]
         /\ fence[Workspace] \in Nat /\ MaxFence \in Nat /\ MaxBatches \in Nat
         /\ Len(batches) \in Nat /\ Len(batches) <= MaxBatches
         /\ batches \in [Journal -> Batches] /\ Journal \subseteq BatchIds
         /\ BatchIds \subseteq Nat /\ Actors \subseteq Nat
         /\ \A b \in Journal : batches[b] \in Batches
         /\ \A b \in Journal : /\ batches[b].tx \in Actors /\ batches[b].bound \in Actors
                               /\ batches[b].file \in Files /\ disk[batches[b].file] \in Contents
<1>1. MaxFence \in Nat /\ MaxBatches \in Nat /\ Names = {Workspace}
  BY FencedLeaseAssumption, WorkspaceTransactionsAssumption
<1>2. fence \in [Names -> 0..MaxFence] /\ tenure \in [Names -> Tenures]
  BY DEF TypeOK, FencedLeaseTypeOK
<1>3. fence[Workspace] \in Nat
  BY <1>1, <1>2
<1>4. batches \in Seq(Batches) /\ Len(batches) <= MaxBatches
  BY DEF TypeOK
<1>5. Len(batches) \in Nat /\ batches \in [1..Len(batches) -> Batches]
  BY <1>4
<1>6. Journal \subseteq BatchIds /\ BatchIds \subseteq Nat /\ Actors \subseteq Nat
  BY <1>1, <1>4, <1>5 DEF Journal, BatchIds, Actors
<1>7. ASSUME NEW b \in Journal
      PROVE  /\ batches[b] \in Batches /\ batches[b].tx \in Actors
             /\ batches[b].bound \in Actors /\ batches[b].file \in Files
  <2>1. batches[b] \in Batches
    BY <1>5 DEF Journal
  <2> QED
    BY <2>1 DEF Batches
<1>8. disk \in [Files -> Contents]
  BY DEF TypeOK
<1> QED
  BY <1>1, <1>2, <1>3, <1>4, <1>5, <1>6, <1>7, <1>8 DEF Journal

\* A sequence of batches is a function on its domain.
LEMMA AsJournal ==
  ASSUME NEW n \in Nat, NEW s \in [1..n -> Batches]
  PROVE  s \in Seq(Batches) /\ Len(s) = n
<1>1. s \in Seq(Batches)
  BY SeqDef
<1>2. DOMAIN s = 1..n /\ DOMAIN s = 1..Len(s) /\ Len(s) \in Nat
  BY <1>1
<1> QED
  BY <1>1, <1>2

\* One batch changes.
LEMMA OneRow ==
  ASSUME TypeOK, NEW b \in Journal, NEW row \in Batches, SetBatch(b, row)
  PROVE  /\ batches' \in Seq(Batches) /\ Len(batches') = Len(batches)
         /\ batches'[b] = row
         /\ \A c \in Journal : c # b => batches'[c] = batches[c]
<1>1. Len(batches) \in Nat /\ batches \in [1..Len(batches) -> Batches]
  BY Types DEF Journal
<1>2. batches' = [batches EXCEPT ![b] = row]
  BY DEF SetBatch
<1>3. batches' \in [1..Len(batches) -> Batches]
  BY <1>1, <1>2
<1> QED
  BY <1>1, <1>2, <1>3, AsJournal DEF Journal

\* What a transaction has written stays what it has written last.
LEMMA SameWrites ==
  ASSUME TypeOK, NEW k \in Actors, Len(batches') = Len(batches),
         \A b \in Journal : batches'[b].tx = batches[b].tx
  PROVE  OwnBatches(k)' = OwnBatches(k) /\ Writes(k)' = Writes(k) /\ Journal' = Journal
<1>1. Journal' = Journal
  BY DEF Journal
<1>2. OwnBatches(k)' = OwnBatches(k)
  BY <1>1 DEF OwnBatches
<1> QED
  BY <1>1, <1>2 DEF Writes, Newest

\* The batch a transaction writes is the newest of its own.
LEMMA WritesLast ==
  ASSUME TypeOK, NEW k \in Actors, OwnBatches(k) # {}
  PROVE  Writes(k) \in OwnBatches(k) /\ Writes(k) \in Journal /\ batches[Writes(k)].tx = k
<1>1. OwnBatches(k) \subseteq Journal /\ Journal \subseteq 0..Len(batches) /\ Len(batches) \in Nat
  BY Types DEF OwnBatches, Journal
<1>2. OwnBatches(k) \in SUBSET (0..Len(batches))
  BY <1>1
<1>3. Writes(k) \in OwnBatches(k)
  BY <1>1, <1>2, NewestIsLast DEF Writes
<1> QED
  BY <1>3 DEF OwnBatches

\* A list of batches that is not empty has an oldest and a newest one.
LEMMA TodoEnds ==
  ASSUME TypeOK, NEW S \in SUBSET Journal, S # {}
  PROVE  /\ Oldest(S) \in S /\ Oldest(S) \in Journal
         /\ NextToRecover(S) \in S /\ NextToRecover(S) \in Journal
<1>1. S \in SUBSET Nat /\ S \in SUBSET (0..Len(batches)) /\ Len(batches) \in Nat
  BY Types DEF Journal
<1> QED
  BY <1>1, OldestIsFirst, NewestIsLast DEF NextToRecover

\* Only one actor's lease can be current.
LEMMA OnlyOneCurrent ==
  ASSUME NEW j, NEW k, Current(j), Current(k)
  PROVE  j = k
BY DEF Current

\* What another actor is in the middle of stays what it is.
LEMMA OthersTodo ==
  ASSUME Inv, NEW k \in Actors, Moves(k), NEW j \in Actors \ {k}
  PROVE  TodoInv(j)'
<1>1. TodoInv(j) /\ actor'[j] = actor[j] /\ TypeOK
  BY DEF Inv, ActorInv, Moves
<1>2. Journal \subseteq Journal' /\ \A b \in Journal : RowStep(k, batches[b], batches'[b])
  BY <1>1, Types DEF Moves, RowsGrow, Journal
<1>3. ASSUME actor[j].pc = "settling"
      PROVE  batches'[NextToRecover(actor[j].todo)].phase = "recovery_succeeded"
  <2> DEFINE b == NextToRecover(actor[j].todo)
  <2>1. b \in Journal /\ batches[b].phase = "recovery_succeeded"
    BY <1>1, <1>3, TodoEnds DEF TodoInv
  <2> QED
    BY <2>1, <1>2 DEF RowStep
<1>4. NextToRecover(actor[j].todo)' = NextToRecover(actor[j].todo)
  BY <1>1 DEF NextToRecover, Newest
<1> QED
  BY <1>1, <1>2, <1>3, <1>4 DEF TodoInv

\* Another writer's batch stays as it is, unless it is taken over.
LEMMA OthersWriter ==
  ASSUME Inv, NEW k \in Actors, Moves(k), NEW j \in Actors \ {k}
  PROVE  WriterInv(j)'
<1>1. WriterInv(j) /\ actor'[j] = actor[j] /\ TypeOK
  BY DEF Inv, ActorInv, Moves
<1>2. Journal \subseteq Journal' /\ \A b \in Journal : RowStep(k, batches[b], batches'[b])
  BY <1>1, Types DEF Moves, RowsGrow, Journal
<1>3. \A b \in Journal' : b \notin Journal => batches'[b].tx = k
  BY DEF Moves, RowsGrow, Journal
<1>4. OwnBatches(j)' = OwnBatches(j)
  BY <1>2, <1>3 DEF OwnBatches, RowStep
<1>5. Writes(j)' = Writes(j)
  BY <1>4 DEF Writes, Newest
<1>6. ASSUME OwnBatches(j) # {}, batches'[Writes(j)].bound = j, Stages(actor[j].pc, batches[Writes(j)])
               \/ batches[Writes(j)].bound # j
      PROVE  Stages(actor[j].pc, batches'[Writes(j)])
  <2> DEFINE b == Writes(j)
  <2>1. b \in Journal
    BY <1>1, <1>6, WritesLast
  <2>2. RowStep(k, batches[b], batches'[b]) /\ batches'[b].bound # k
    BY <2>1, <1>2, <1>6
  <2>3. batches[b].bound = j /\ batches'[b].phase = batches[b].phase /\ batches'[b].proof = batches[b].proof
    BY <2>2, <1>6 DEF RowStep
  <2> QED
    BY <2>3, <1>6 DEF Stages
<1> QED
  BY <1>1, <1>4, <1>5, <1>6 DEF WriterInv

\* What another actor cleans up stays what it may clean.
LEMMA OthersCleaner ==
  ASSUME Inv, NEW k \in Actors, Moves(k), NEW j \in Actors \ {k}
  PROVE  CleanerInv(j)'
<1>1. CleanerInv(j) /\ TodoInv(j) /\ actor'[j] = actor[j] /\ TypeOK
  BY DEF Inv, ActorInv, Moves
<1>2. \A b \in Journal : RowStep(k, batches[b], batches'[b])
  BY DEF Moves
<1>3. \A b \in Journal' : b \notin Journal => batches'[b].bound = k
  BY DEF Moves, RowsGrow, Journal
<1>4. (Commits(j)' <=> Commits(j)) /\ (Sweeping(j)' <=> Sweeping(j))
  BY <1>1 DEF Commits, Sweeping
<1>5. ASSUME Commits(j), NEW b \in actor[j].todo
      PROVE  batches'[b].tx = j /\ (batches'[b].bound = j => batches'[b].phase = "succeeded")
  <2>1. b \in Journal
    BY <1>1 DEF TodoInv
  <2>2. batches[b].tx = j /\ (batches[b].bound = j => batches[b].phase = "succeeded")
    BY <1>1, <1>5 DEF CleanerInv
  <2> QED
    BY <2>1, <2>2, <1>2 DEF RowStep
<1>6. ASSUME Sweeping(j), NEW b \in Journal' PROVE batches'[b].bound # j
  BY <1>1, <1>2, <1>3, <1>6 DEF CleanerInv, RowStep
<1>7. committed \subseteq committed'
  BY DEF Moves
<1> QED
  BY <1>1, <1>4, <1>5, <1>6, <1>7 DEF CleanerInv

\* Another holder keeps its claims: only the holder takes claims away.
LEMMA OthersHolder ==
  ASSUME Inv, NEW k \in Actors, Moves(k), NEW j \in Actors \ {k}
  PROVE  HolderInv(j)'
<1> SUFFICES ASSUME Current(j)', actor'[j].pc \in InBody, NEW f \in Files PROVE claims'[f] = j
  BY DEF HolderInv
<1>1. Current(j) /\ ~Current(k) /\ actor[j].pc \in InBody
  BY OnlyOneCurrent DEF Moves
<1>2. claims[f] = j
  BY <1>1 DEF Inv, ActorInv, HolderInv
<1> QED
  BY <1>1, <1>2 DEF Moves

\* Nobody else makes a write of a transaction succeed.
LEMMA OthersUndone ==
  ASSUME Inv, NEW k \in Actors, Moves(k), NEW j \in Actors \ {k}
  PROVE  UndoneInv(j)'
<1>1. UndoneInv(j) /\ actor'[j] = actor[j] /\ (j \in committed' <=> j \in committed)
  BY DEF Inv, ActorInv, Moves
<1>2. \A b \in Journal : RowStep(k, batches[b], batches'[b])
  BY DEF Moves
<1>3. \A b \in Journal' : b \notin Journal => batches'[b].tx = k
  BY DEF Moves, RowsGrow, Journal
<1>4. ASSUME NEW b \in OwnBatches(j)', batches'[b].phase = "succeeded"
      PROVE  b \in OwnBatches(j) /\ batches[b].phase = "succeeded"
  <2>1. b \in Journal' /\ batches'[b].tx = j
    BY <1>4 DEF OwnBatches
  <2>2. b \in Journal
    BY <2>1, <1>3
  <2>3. RowStep(k, batches[b], batches'[b])
    BY <2>2, <1>2
  <2> QED
    BY <2>1, <2>2, <2>3, <1>4 DEF RowStep, OwnBatches
<1> QED
  BY <1>1, <1>4 DEF UndoneInv

\* Only one actor has the lease, so none adds work to another's recovery.
LEMMA OthersRecoverer ==
  ASSUME Inv, NEW k \in Actors, Moves(k), NEW j \in Actors \ {k}
  PROVE  RecovererInv(j)'
<1> SUFFICES ASSUME Current(j)', actor'[j].pc \in Rolling, actor'[j].why = "recover", NEW b \in Journal'
             PROVE  /\ batches'[b].phase \in Unfinished => b \in actor'[j].todo \cup actor'[j].failed
                    /\ (batches'[b].phase = "succeeded" /\ batches'[b].tx \in Automatic \ committed')
                          => b \in actor'[j].todo
  BY DEF RecovererInv
<1>1. Current(j) /\ ~Current(k) /\ actor'[j] = actor[j] /\ RecovererInv(j)
  BY OnlyOneCurrent DEF Moves, Inv, ActorInv
<1>2. b \in Journal
  BY <1>1 DEF Moves, RowsGrow, Journal
<1>3. RowStep(k, batches[b], batches'[b]) /\ committed \subseteq committed'
  BY <1>2 DEF Moves
<1>4. /\ batches'[b].phase \in Unfinished => batches[b].phase \in Unfinished
      /\ batches'[b].phase = "succeeded" => batches[b].phase = "succeeded"
      /\ batches'[b].tx = batches[b].tx
  BY <1>1, <1>3 DEF RowStep
<1> QED
  BY <1>1, <1>2, <1>3, <1>4 DEF RecovererInv

\* Nobody else disturbs the attempt of a recovery that still has the latest grant.
LEMMA OthersAttempt ==
  ASSUME Inv, NEW k \in Actors, Moves(k), NEW j \in Actors \ {k}
  PROVE  AttemptInv(j)'
<1> DEFINE b == Target(j)
<1> SUFFICES ASSUME actor'[j].pc \in Restoring, j = fence'[Workspace]
             PROVE  HoldsAttempt(j, b)'
  BY DEF AttemptInv
<1>1. /\ AttemptInv(j) /\ TodoInv(j) /\ actor'[j] = actor[j] /\ TypeOK /\ j \in Nat
      /\ actor[j].pc # "idle" /\ LeaseInv
  BY Types DEF Inv, ActorInv, Moves, Restoring
<1>2. j = fence[Workspace]
  BY <1>1, Types DEF LeaseInv, Moves
<1>3. HoldsAttempt(j, b) /\ b \in Journal
  BY <1>1, <1>2, TodoEnds DEF AttemptInv, TodoInv, Target
<1>4. Target(j)' = Target(j)
  BY <1>1 DEF Target, NextToRecover, Newest
<1>5. Current(j) /\ Current(j)' /\ ~Current(k)
  BY <1>3, OnlyOneCurrent DEF HoldsAttempt, Moves
<1>6. RowStep(k, batches[b], batches'[b])
  BY <1>3 DEF Moves
<1>7. batches'[b].bound = j /\ batches'[b].phase = "recovering"
  BY <1>3, <1>5, <1>6 DEF RowStep, HoldsAttempt
<1> QED
  BY <1>4, <1>5, <1>7 DEF HoldsAttempt

\* A step of one actor keeps the invariant when it keeps its own part.
LEMMA MovesInv ==
  ASSUME Inv, TypeOK', NEW k \in Actors, Moves(k), ActorInv(k)'
  PROVE  Inv'
<1>1. TypeOK /\ LeaseInv /\ ListInv /\ ClaimedInv /\ KeptInv
  BY DEF Inv
<1>2. Journal \subseteq Journal' /\ \A b \in Journal : RowStep(k, batches[b], batches'[b])
  BY <1>1, Types DEF Moves, RowsGrow, Journal
<1>3. \A b \in Journal' : b \notin Journal =>
          batches'[b].tx = k /\ batches'[b].bound = k /\ batches'[b].phase = "planned" /\ batches'[b].proof = "none"
  BY DEF Moves, RowsGrow, Journal
<1>4. \A j \in Actors : ActorInv(j)'
  <2>1. ASSUME NEW j \in Actors \ {k} PROVE ActorInv(j)'
    BY OthersTodo, OthersWriter, OthersCleaner, OthersHolder, OthersUndone, OthersRecoverer,
       OthersAttempt DEF ActorInv
  <2> QED
    BY <2>1
<1>5. fence[Workspace] \in Nat /\ fence'[Workspace] \in Nat /\ fence[Workspace] <= fence'[Workspace]
      /\ k \in Nat /\ k <= fence'[Workspace]
  <2>1. fence'[Workspace] \in Nat
    BY WorkspaceTransactionsAssumption, FencedLeaseAssumption DEF TypeOK, FencedLeaseTypeOK
  <2> QED
    BY <1>1, <2>1, Types DEF Moves
<1>6. LeaseInv'
  <2>1. ASSUME NEW j \in Actors, actor'[j].pc # "idle" PROVE j <= fence'[Workspace]
    <3>1. CASE j = k
      BY <3>1, <1>5
    <3>2. CASE j # k
      <4>1. j <= fence[Workspace] /\ j \in Nat
        BY <3>2, <2>1, <1>1, Types DEF Moves, LeaseInv
      <4> QED
        BY <4>1, <1>5
    <3> QED
      BY <3>1, <3>2
  <2>2. ASSUME NEW b \in Journal' PROVE batches'[b].tx <= fence'[Workspace] /\ batches'[b].bound <= fence'[Workspace]
    <3>1. CASE b \in Journal
      <4>1. /\ batches[b].tx \in Nat /\ batches[b].bound \in Nat
            /\ batches[b].tx <= fence[Workspace] /\ batches[b].bound <= fence[Workspace]
        BY <3>1, <1>1, Types DEF LeaseInv
      <4>2. batches'[b].tx = batches[b].tx /\ batches'[b].bound \in {batches[b].bound, k}
        BY <3>1, <1>2 DEF RowStep
      <4>3. batches[b].tx <= fence'[Workspace] /\ batches[b].bound <= fence'[Workspace]
        BY <4>1, <1>5
      <4> QED
        BY <4>2, <4>3, <1>5
    <3>2. CASE b \notin Journal
      BY <3>2, <1>3, <1>5
    <3> QED
      BY <3>1, <3>2
  <2> QED
    BY <2>1, <2>2 DEF LeaseInv
<1>7. ListInv'
  BY <1>1, <1>2 DEF ListInv, Moves
<1>8. ClaimedInv'
  <2> SUFFICES ASSUME NEW b \in Journal', batches'[b].phase = "succeeded", batches'[b].tx \in Automatic \ committed'
               PROVE  claims'[batches'[b].file] = batches'[b].tx
    BY DEF ClaimedInv, HasClaim
  <2>1. b \in Journal
    BY <1>3
  <2>2. RowStep(k, batches[b], batches'[b])
    BY <2>1, <1>2
  <2>3. batches'[b].tx = batches[b].tx /\ batches'[b].file = batches[b].file /\ batches[b].tx \notin committed
    BY <2>2 DEF RowStep, Moves
  <2>4. HasClaim(b)
    BY <1>1, <2>1, <2>2, <2>3 DEF ClaimedInv, HasClaim, RowStep
  <2> QED
    BY <2>1, <2>3, <2>4 DEF Moves, ClaimsKept
<1>9. KeptInv'
  <2> SUFFICES ASSUME ~Sweeps, NEW b \in Journal' PROVE RowKept(batches'[b], committed')
    BY DEF KeptInv
  <2>1. CASE b \in Journal
    <3>1. RowKept(batches[b], committed)
      BY <1>1, <2>1 DEF KeptInv
    <3>2. RowKept(batches'[b], committed)
      BY <3>1, <2>1, <1>2 DEF RowStep
    <3>3. committed \subseteq committed'
      BY DEF Moves
    <3> QED
      BY <3>2, <3>3 DEF RowKept
  <2>2. CASE b \notin Journal
    BY <2>2, <1>3 DEF RowKept
  <2> QED
    BY <2>1, <2>2
<1> QED
  BY <1>4, <1>6, <1>7, <1>8, <1>9 DEF Inv

-----------------------------------------------------------------------------
(* Steps in general *)

\* What the invariant says of one actor, in the form the steps use.
LEMMA ActorType ==
  ASSUME Inv, NEW k \in Actors
  PROVE  /\ TypeOK /\ ActorInv(k) /\ actor[k] \in ActorStates /\ actor[k].pc \in PCs
         /\ actor[k].why \in {"rollback", "commit", "recover"}
         /\ actor[k].todo \subseteq Journal /\ actor[k].todo \subseteq BatchIds
         /\ actor[k].failed \subseteq BatchIds /\ actor[k].active \subseteq BatchIds
         /\ actor[k].memo \in Snapshots \cup {None}
         /\ k \in Nat /\ fence[Workspace] \in Nat
         /\ actor[k].pc # "idle" => k <= fence[Workspace]
<1>1. TypeOK /\ ActorInv(k) /\ LeaseInv
  BY DEF Inv
<1>2. actor[k] \in ActorStates
  BY <1>1 DEF TypeOK
<1>3. actor[k].todo \subseteq Journal
  BY <1>1 DEF ActorInv, TodoInv
<1> QED
  BY <1>1, <1>2, <1>3, Types DEF ActorStates, LeaseInv

\* One actor changes.
LEMMA Becomes ==
  ASSUME TypeOK, NEW k \in Actors, NEW s \in ActorStates, actor' = [actor EXCEPT ![k] = s]
  PROVE  /\ actor' \in [Actors -> ActorStates] /\ actor'[k] = s
         /\ \A j \in Actors \ {k} : actor'[j] = actor[j]
BY DEF TypeOK

\* One actor goes on.
LEMMA GoesTo ==
  ASSUME TypeOK, NEW k \in Actors, NEW pc \in PCs, Goes(k, pc)
  PROVE  /\ actor' \in [Actors -> ActorStates] /\ actor'[k].pc = pc
         /\ actor'[k].why = actor[k].why /\ actor'[k].todo = actor[k].todo
         /\ actor'[k].failed = actor[k].failed /\ actor'[k].memo = actor[k].memo
         /\ \A j \in Actors \ {k} : actor'[j] = actor[j]
<1>1. actor \in [Actors -> ActorStates] /\ actor[k] \in ActorStates
  BY DEF TypeOK
<1> DEFINE s == [actor[k] EXCEPT !.pc = pc]
<1>2. actor' = [actor EXCEPT ![k] = s]
  BY <1>1 DEF Goes
<1>3. s \in ActorStates /\ s.pc = pc /\ s.why = actor[k].why /\ s.todo = actor[k].todo
      /\ s.failed = actor[k].failed /\ s.memo = actor[k].memo
  BY <1>1 DEF ActorStates
<1> HIDE DEF s
<1> QED
  BY <1>2, <1>3, Becomes

\* A row that stays the same.
LEMMA SameRow ==
  ASSUME NEW k, NEW row
  PROVE  RowStep(k, row, row)
BY DEF RowStep

\* A step that changes the actor only, or the claims it may change.
LEMMA ActorMoves ==
  ASSUME Inv, NEW k \in Actors, k <= fence[Workspace],
         \A j \in Actors \ {k} : actor'[j] = actor[j],
         UNCHANGED <<batches, claims, committed, listed>>, fence' = fence,
         \A j \in Actors \ {k} : Current(j)' = Current(j)
  PROVE  Moves(k)
<1>1. Len(batches) \in Nat /\ fence[Workspace] \in Nat /\ Journal' = Journal
  BY Types DEF Inv, Journal
<1>2. RowsGrow(k)
  BY <1>1 DEF RowsGrow, Journal
<1>3. \A b \in Journal : RowStep(k, batches[b], batches'[b])
  BY SameRow
<1>4. ClaimsKept
  BY DEF ClaimsKept, HasClaim
<1> QED
  BY <1>1, <1>2, <1>3, <1>4 DEF Moves

\* A step that changes one batch and the actor.
LEMMA RowMoves ==
  ASSUME Inv, NEW k \in Actors, k <= fence[Workspace],
         \A j \in Actors \ {k} : actor'[j] = actor[j],
         NEW b \in Journal, NEW row \in Batches, SetBatch(b, row),
         RowStep(k, batches[b], row),
         UNCHANGED <<leaseVars, claims, committed, listed>>
  PROVE  Moves(k)
<1>1. TypeOK /\ Len(batches) \in Nat /\ fence[Workspace] \in Nat
  BY Types DEF Inv
<1>2. /\ Len(batches') = Len(batches) /\ batches'[b] = row
      /\ \A c \in Journal : c # b => batches'[c] = batches[c]
  BY <1>1, OneRow
<1>3. RowsGrow(k)
  BY <1>1, <1>2 DEF RowsGrow, Journal
<1>4. \A c \in Journal : RowStep(k, batches[c], batches'[c])
  BY <1>2, SameRow
<1>5. ClaimsKept
  BY DEF ClaimsKept, HasClaim
<1>6. fence' = fence /\ tenure' = tenure
  BY DEF leaseVars
<1>7. \A j \in Actors : Current(j)' = Current(j)
  BY <1>6 DEF Current
<1> QED
  BY <1>1, <1>3, <1>4, <1>5, <1>6, <1>7 DEF Moves

\* The first state has no grants, no claims and no batches.
LEMMA InitHolds == Init => Inv
<1> SUFFICES ASSUME Init PROVE Inv
  OBVIOUS
<1>1. MaxFence \in Nat /\ MaxBatches \in Nat /\ MaxEdits \in Nat
  BY FencedLeaseAssumption, WorkspaceTransactionsAssumption
<1>2. FencedLeaseTypeOK
  BY <1>1 DEF Init, FencedLeaseInit, FencedLeaseTypeOK, Tenures
<1>3. Idle \in ActorStates /\ Idle.pc = "idle" /\ Idle.todo = {}
  BY DEF Idle, ActorStates, PCs
<1>4. batches = <<>> /\ batches \in Seq(Batches) /\ Len(batches) = 0 /\ Journal = {}
  BY DEF Init, Journal
<1>5. TypeOK
  BY <1>1, <1>2, <1>3, <1>4 DEF Init, TypeOK, Contents
<1>6. \A k \in Actors : actor[k] = Idle
  BY DEF Init
<1>7. LeaseInv /\ ListInv /\ ClaimedInv /\ KeptInv
  BY <1>3, <1>4, <1>6 DEF Init, LeaseInv, ListInv, ClaimedInv, KeptInv, CleanedPhases
<1>8. ASSUME NEW k \in Actors PROVE ActorInv(k)
  BY <1>3, <1>4, <1>6 DEF ActorInv, TodoInv, WriterInv, CleanerInv, HolderInv, UndoneInv,
     RecovererInv, AttemptInv, Commits, Sweeping, Writing, InBody, Rolling, Restoring
<1> QED
  BY <1>5, <1>7, <1>8 DEF Inv

-----------------------------------------------------------------------------
(* The journaled write *)

\* A step within the body that leaves the batches alone.
LEMMA BodyStep ==
  ASSUME Inv, NEW k \in Actors, NEW next \in InBody, Goes(k, next), actor[k].pc \in InBody,
         next # "open" => actor[k].pc \in Writing /\ \A row : Stages(actor[k].pc, row) => Stages(next, row),
         UNCHANGED <<leaseVars, batches, claims, committed, listed>>, TypeOK'
  PROVE  Inv' /\ Moves(k)
<1>1. TypeOK /\ ActorInv(k) /\ k <= fence[Workspace] /\ actor[k].todo \subseteq Journal
  BY ActorType DEF InBody, Writing
<1>2. next \in PCs
  BY DEF InBody, PCs
<1>3. /\ actor'[k].pc = next /\ actor'[k].todo = actor[k].todo
      /\ \A j \in Actors \ {k} : actor'[j] = actor[j]
  BY <1>1, <1>2, GoesTo
<1>4. \A j \in Actors : Current(j)' = Current(j)
  BY DEF Current, leaseVars
<1>5. Moves(k)
  BY <1>1, <1>3, <1>4, ActorMoves DEF leaseVars
<1>6. OwnBatches(k)' = OwnBatches(k) /\ Writes(k)' = Writes(k) /\ Journal' = Journal
  BY <1>1, SameWrites
<1>7. TodoInv(k)' /\ CleanerInv(k)' /\ UndoneInv(k)' /\ RecovererInv(k)' /\ AttemptInv(k)'
  BY <1>1, <1>3, <1>6 DEF TodoInv, CleanerInv, UndoneInv, RecovererInv, AttemptInv, Commits, Sweeping, Rolling, Restoring,
     InBody, Writing
<1>8. HolderInv(k)'
  BY <1>1, <1>4 DEF ActorInv, HolderInv
<1>9. WriterInv(k)'
  BY <1>1, <1>3, <1>6 DEF ActorInv, WriterInv, InBody, Writing
<1> QED
  BY <1>5, <1>7, <1>8, <1>9, MovesInv DEF ActorInv

\* A step within the body that journals.
LEMMA RowTypeOK ==
  ASSUME Inv, NEW b \in Journal, NEW row \in Batches, SetBatch(b, row),
         actor' \in [Actors -> ActorStates],
         UNCHANGED <<leaseVars, claims, disk, edits, listed, committed, late>>
  PROVE  TypeOK'
<1>1. TypeOK
  BY DEF Inv
<1>2. batches' \in Seq(Batches) /\ Len(batches') = Len(batches)
  BY <1>1, OneRow
<1>3. FencedLeaseTypeOK'
  BY <1>1 DEF TypeOK, FencedLeaseTypeOK, leaseVars
<1> QED
  BY <1>1, <1>2, <1>3 DEF TypeOK

LEMMA WriteStep ==
  ASSUME Inv, NEW k \in Actors, NEW next \in InBody, NEW row \in Batches,
         actor[k].pc \in Writing, Goes(k, next), SetBatch(Writes(k), row),
         RowStep(k, batches[Writes(k)], row),
         next # "open" => Stages(next, row),
         UNCHANGED <<leaseVars, claims, disk, edits, listed, committed, late>>
  PROVE  Inv' /\ Moves(k)
<1>1. TypeOK /\ ActorInv(k) /\ k <= fence[Workspace] /\ actor[k].todo \subseteq Journal
  BY ActorType DEF Writing
<1>2. next \in PCs
  BY DEF InBody, PCs
<1>3. /\ actor'[k].pc = next /\ actor'[k].todo = actor[k].todo
      /\ \A j \in Actors \ {k} : actor'[j] = actor[j]
      /\ actor' \in [Actors -> ActorStates]
  BY <1>1, <1>2, GoesTo
<1>4. \A j \in Actors : Current(j)' = Current(j)
  BY DEF Current, leaseVars
<1>5. OwnBatches(k) # {} /\ Writes(k) \in Journal
  BY <1>1, WritesLast DEF ActorInv, WriterInv
<1>6. Moves(k) /\ TypeOK'
  BY <1>1, <1>3, <1>5, RowMoves, RowTypeOK
<1>7. /\ Len(batches') = Len(batches) /\ batches'[Writes(k)] = row
      /\ \A b \in Journal : batches'[b].tx = batches[b].tx
  BY <1>1, <1>5, OneRow DEF RowStep
<1>8. OwnBatches(k)' = OwnBatches(k) /\ Writes(k)' = Writes(k) /\ Journal' = Journal
  BY <1>1, <1>7, SameWrites
<1>9. TodoInv(k)' /\ CleanerInv(k)' /\ UndoneInv(k)' /\ RecovererInv(k)' /\ AttemptInv(k)'
  BY <1>1, <1>3, <1>8 DEF TodoInv, CleanerInv, UndoneInv, RecovererInv, AttemptInv, Commits, Sweeping, Rolling, Restoring,
     InBody, Writing
<1>10. HolderInv(k)'
  BY <1>1, <1>4 DEF ActorInv, HolderInv, InBody
<1>11. WriterInv(k)'
  <2>1. next \in Writing => Stages(next, row)
    BY DEF Writing
  <2> QED
    BY <1>3, <1>5, <1>7, <1>8, <2>1 DEF WriterInv, InBody, Writing
<1> QED
  BY <1>6, <1>9, <1>10, <1>11, MovesInv DEF ActorInv

\* What a writer that still has its batch knows of it.
LEMMA WriterRow ==
  ASSUME Inv, NEW k \in Actors, actor[k].pc \in Writing
  PROVE  /\ Writes(k) \in Journal /\ Writes(k) \in BatchIds
         /\ batches[Writes(k)] \in Batches /\ batches[Writes(k)].tx = k
         /\ batches[Writes(k)].file \in Files /\ disk[batches[Writes(k)].file] \in Contents
         /\ batches[Writes(k)].bound = k => Stages(actor[k].pc, batches[Writes(k)])
<1>1. TypeOK /\ WriterInv(k)
  BY DEF Inv, ActorInv
<1>2. Writes(k) \in Journal /\ batches[Writes(k)].tx = k
  BY <1>1, WritesLast DEF WriterInv
<1> QED
  BY <1>1, <1>2, Types DEF WriterInv

LEMMA EnterFailsStep ==
  ASSUME Inv, NEW k \in Actors, EnterFails(k)
  PROVE  Inv' /\ Moves(k)
<1>1. /\ TypeOK /\ ActorInv(k) /\ k <= fence[Workspace] /\ actor[k].todo \subseteq Journal
      /\ actor[k].pc = "entering"
  BY ActorType DEF EnterFails
<1>2. /\ actor'[k].pc = "releasing" /\ actor'[k].todo = actor[k].todo
      /\ actor' \in [Actors -> ActorStates]
      /\ \A j \in Actors \ {k} : actor'[j] = actor[j]
  BY <1>1, GoesTo DEF EnterFails, PCs
<1>3. TypeOK'
  BY <1>1, <1>2 DEF EnterFails, TypeOK, leaseVars, FencedLeaseTypeOK
<1>4. \A j \in Actors : Current(j)' = Current(j)
  BY DEF Current, leaseVars, EnterFails
<1>5. Moves(k)
  BY <1>1, <1>2, <1>4, ActorMoves DEF EnterFails, leaseVars
<1>6. OwnBatches(k)' = OwnBatches(k) /\ Journal' = Journal
  BY <1>1, SameWrites DEF EnterFails
<1>7. OwnBatches(k) = {}
  BY <1>1 DEF ActorInv, WriterInv
<1>8. ActorInv(k)'
  BY <1>1, <1>2, <1>6, <1>7 DEF ActorInv, TodoInv, WriterInv, CleanerInv, HolderInv, UndoneInv,
     RecovererInv, AttemptInv, Commits, Sweeping, Rolling, Restoring, InBody, Writing
<1> QED
  BY <1>3, <1>5, <1>8, MovesInv

LEMMA StartStep ==
  ASSUME Inv, NEW k \in Actors, Start(k)
  PROVE  Inv' /\ Moves(k)
<1> DEFINE b == batches[Writes(k)]
           row == [b EXCEPT !.phase = "attempting", !.before = disk[b.file]]
<1>1. /\ Journals(k, "planned", "started", row)
      /\ actor[k].pc = "planned" /\ Current(k) /\ b.bound = k
  BY DEF Start, Journals
<1>2. b \in Batches /\ disk[b.file] \in Contents /\ Stages("planned", b)
  BY <1>1, WriterRow DEF Writing
<1>3. row \in Batches /\ row.phase = "attempting" /\ row.proof = "none" /\ row.tx = b.tx
      /\ row.bound = k /\ row.file = b.file
  BY <1>1, <1>2 DEF Batches, Phases, Stages
<1>4. RowStep(k, b, row)
  BY <1>1, <1>2, <1>3 DEF RowStep, Stages, RowKept
<1>5. Stages("started", row)
  BY <1>3 DEF Stages
<1> HIDE DEF b, row
<1> QED
  BY <1>1, <1>3, <1>4, <1>5, WriteStep DEF Journals, Writing, InBody, b

LEMMA BackUpStep ==
  ASSUME Inv, NEW k \in Actors, BackUp(k)
  PROVE  Inv' /\ Moves(k)
<1> DEFINE b == batches[Writes(k)]
           row == [b EXCEPT !.proof = "backup", !.artifact = ~Missing(b.file, b.before)]
<1>1. /\ Journals(k, "started", "backed_up", row)
      /\ actor[k].pc = "started" /\ Current(k) /\ b.bound = k
  BY DEF BackUp, Journals
<1>2. b \in Batches /\ Stages("started", b)
  BY <1>1, WriterRow DEF Writing
<1>3. row \in Batches /\ row.phase = "attempting" /\ row.proof = "backup" /\ row.tx = b.tx
      /\ row.bound = k /\ row.file = b.file /\ row.before = b.before
      /\ row.artifact = ~Missing(row.file, row.before)
  BY <1>1, <1>2 DEF Batches, Stages, Missing
<1>4. RowStep(k, b, row)
  BY <1>1, <1>2, <1>3 DEF RowStep, Stages, RowKept
<1>5. Stages("backed_up", row)
  BY <1>3 DEF Stages
<1> HIDE DEF b, row
<1> QED
  BY <1>1, <1>3, <1>4, <1>5, WriteStep DEF Journals, Writing, InBody, b

LEMMA ExpectStep ==
  ASSUME Inv, NEW k \in Actors, Expect(k)
  PROVE  Inv' /\ Moves(k)
<1> DEFINE b == batches[Writes(k)]
           row == [b EXCEPT !.proof = "full"]
<1>1. /\ Journals(k, "backed_up", "prepared", row)
      /\ actor[k].pc = "backed_up" /\ Current(k) /\ b.bound = k
  BY DEF Expect, Journals
<1>2. b \in Batches /\ Stages("backed_up", b)
  BY <1>1, WriterRow DEF Writing
<1>3. row \in Batches /\ row.phase = "attempting" /\ row.proof = "full" /\ row.tx = b.tx
      /\ row.bound = k /\ row.file = b.file /\ row.before = b.before /\ row.artifact = b.artifact
  BY <1>1, <1>2 DEF Batches, Stages
<1>4. RowStep(k, b, row)
  BY <1>1, <1>2, <1>3 DEF RowStep, Stages, RowKept
<1>5. Stages("prepared", row)
  BY <1>3 DEF Stages
<1> HIDE DEF b, row
<1> QED
  BY <1>1, <1>3, <1>4, <1>5, WriteStep DEF Journals, Writing, InBody, b

LEMMA CheckAuthorityStep ==
  ASSUME Inv, NEW k \in Actors, CheckAuthority(k)
  PROVE  Inv' /\ Moves(k)
<1>1. TypeOK /\ actor[k].pc = "prepared"
  BY DEF Inv, CheckAuthority
<1>2. TypeOK'
  BY <1>1, GoesTo DEF CheckAuthority, TypeOK, leaseVars, FencedLeaseTypeOK, PCs, Writing
<1>3. \A row : Stages("prepared", row) => Stages("checked", row)
  BY DEF Stages
<1> QED
  BY <1>1, <1>2, <1>3, BodyStep DEF CheckAuthority, InBody, Writing

LEMMA MutateStep ==
  ASSUME Inv, NEW k \in Actors, Mutate(k)
  PROVE  Inv' /\ Moves(k)
<1>1. TypeOK /\ actor[k].pc = "checked" /\ Writes(k) \in BatchIds
  BY WriterRow DEF Inv, Mutate, Writing
<1>2. actor' \in [Actors -> ActorStates]
  BY <1>1, GoesTo DEF Mutate, PCs, Writing
<1>3. disk' \in [Files -> Contents] /\ late' \subseteq BatchIds
  BY <1>1 DEF Mutate, LateBy, TypeOK, Contents
<1>4. TypeOK'
  BY <1>1, <1>2, <1>3 DEF Mutate, TypeOK, leaseVars, FencedLeaseTypeOK
<1>5. \A row : Stages("checked", row) => Stages("mutated", row)
  BY DEF Stages
<1> QED
  BY <1>1, <1>4, <1>5, BodyStep DEF Mutate, InBody, Writing

LEMMA ObserveStep ==
  ASSUME Inv, NEW k \in Actors, Observe(k)
  PROVE  Inv' /\ Moves(k)
<1> DEFINE b == batches[Writes(k)]
           row == [b EXCEPT !.after = disk[b.file]]
<1>1. /\ Journals(k, "mutated", "observed", row)
      /\ actor[k].pc = "mutated" /\ Current(k) /\ b.bound = k
  BY DEF Observe, Journals
<1>2. b \in Batches /\ disk[b.file] \in Contents /\ Stages("mutated", b)
  BY <1>1, WriterRow DEF Writing
<1>3. row \in Batches /\ row.phase = b.phase /\ row.proof = b.proof /\ row.tx = b.tx
      /\ row.bound = k /\ row.file = b.file /\ row.before = b.before /\ row.artifact = b.artifact
  BY <1>1, <1>2 DEF Batches, Stages
<1>4. RowStep(k, b, row)
  BY <1>1, <1>2, <1>3 DEF RowStep, Stages, RowKept
<1>5. Stages("observed", row)
  BY <1>2, <1>3 DEF Stages
<1> HIDE DEF b, row
<1> QED
  BY <1>1, <1>3, <1>4, <1>5, WriteStep DEF Journals, Writing, InBody, b

LEMMA SucceedStep ==
  ASSUME Inv, NEW k \in Actors, Succeed(k)
  PROVE  Inv' /\ Moves(k)
<1> DEFINE b == batches[Writes(k)]
           row == [b EXCEPT !.phase = "succeeded"]
<1>1. /\ Journals(k, "observed", "open", row)
      /\ actor[k].pc = "observed" /\ Current(k) /\ b.bound = k
  BY DEF Succeed, Journals
<1>2. b \in Batches /\ Stages("observed", b) /\ b.tx = k /\ b.file \in Files
  BY <1>1, WriterRow DEF Writing
<1>3. row \in Batches /\ row.phase = "succeeded" /\ row.proof = b.proof /\ row.tx = b.tx
      /\ row.bound = k /\ row.file = b.file /\ row.before = b.before /\ row.artifact = b.artifact
  BY <1>1, <1>2 DEF Batches, Stages, Phases
<1>4. claims[b.file] = k
  BY <1>1, <1>2 DEF Inv, ActorInv, HolderInv, InBody, Writing
<1>5. RowStep(k, b, row)
  BY <1>1, <1>2, <1>3, <1>4 DEF RowStep, Stages, RowKept, Unfinished
<1> HIDE DEF b, row
<1> QED
  BY <1>1, <1>3, <1>5, WriteStep DEF Journals, Writing, InBody, b

\* What a snapshot can show.
LEMMA SnapshotType ==
  ASSUME TypeOK, NEW b \in Journal
  PROVE  Snapshot(batches[b]) \in Snapshots
BY Types DEF Snapshot, Snapshots

LEMMA FailStep ==
  ASSUME Inv, NEW k \in Actors, Fail(k)
  PROVE  Inv' /\ Moves(k)
<1> DEFINE b == batches[Writes(k)]
<1>1. /\ actor[k].pc \in Writing /\ Goes(k, "open") /\ "open" \in InBody /\ "open" \in PCs
      /\ actor[k].pc \in InBody
      /\ UNCHANGED <<leaseVars, claims, disk, edits, listed, committed, late>>
  BY DEF Fail, InBody, PCs
<1>2. b \in Batches /\ disk[b.file] \in Contents /\ Snapshot(b) \in Snapshots
  BY <1>1, WriterRow, SnapshotType DEF Inv
<1>3. CASE b.bound = k /\ b.phase = "attempting"
  <2>1. PICK checkpointed \in BOOLEAN :
           SetBatch(Writes(k),
             [b EXCEPT !.phase = "recovery_desired",
                       !.failure = Snapshot(b),
                       !.preparing = actor[k].pc \in {"started", "backed_up"},
                       !.seen = IF checkpointed THEN disk[b.file] ELSE @])
    BY <1>3 DEF Fail
  <2> DEFINE found == Snapshot(b)
             early == actor[k].pc \in {"started", "backed_up"}
             seen == IF checkpointed THEN disk[b.file] ELSE b.seen
             row == [b EXCEPT !.phase = "recovery_desired", !.failure = found,
                              !.preparing = early, !.seen = seen]
  <2>4. SetBatch(Writes(k), row)
    BY <2>1
  <2>5. found \in Snapshots /\ early \in BOOLEAN /\ seen \in Contents \cup {None}
    BY <1>2 DEF Batches
  <2> HIDE DEF found, early, seen, b
  <2>2. row \in Batches /\ row.phase = "recovery_desired" /\ row.proof = b.proof /\ row.tx = b.tx
        /\ row.bound = k /\ row.file = b.file /\ row.before = b.before /\ row.artifact = b.artifact
    BY <1>2, <1>3, <2>5 DEF Batches, Phases
  <2>3. RowStep(k, b, row)
    BY <1>3, <2>2 DEF RowStep, RowKept, Unfinished
  <2> HIDE DEF row
  <2> QED
    BY <1>1, <2>2, <2>3, <2>4, WriteStep DEF b
<1>4. CASE ~(b.bound = k /\ b.phase = "attempting")
  <2>1. UNCHANGED batches
    BY <1>4 DEF Fail
  <2>2. TypeOK /\ actor' \in [Actors -> ActorStates]
    BY <1>1, GoesTo DEF Inv
  <2>3. TypeOK'
    BY <1>1, <2>1, <2>2 DEF TypeOK, leaseVars, FencedLeaseTypeOK
  <2> QED
    BY <1>1, <2>1, <2>3, BodyStep
<1> QED
  BY <1>3, <1>4

-----------------------------------------------------------------------------
(* Leases and claims *)

\* The lease is granted to a new actor, whom no batch knows.
LEMMA AcquireMoves ==
  ASSUME Inv, NEW k \in Actors, Acquires(k),
         \A j \in Actors \ {k} : actor'[j] = actor[j],
         UNCHANGED <<batches, claims, committed>>,
         \A phase \in CleanedPhases : listed'[phase] \in {listed[phase], {}}
  PROVE  /\ Moves(k) /\ FencedLeaseTypeOK'
         /\ \A b \in Journal : batches[b].tx # k /\ batches[b].bound # k
<1>1. TypeOK /\ LeaseInv
  BY DEF Inv
<1>2. /\ fence \in [Names -> 0..MaxFence] /\ Workspace \in Names
      /\ Len(batches) \in Nat /\ MaxFence \in Nat /\ fence[Workspace] \in Nat
      /\ tenure \in [Names -> Tenures]
  BY <1>1, Types
<1>3. /\ fence[Workspace] < MaxFence /\ fence' = [fence EXCEPT ![Workspace] = @ + 1]
      /\ k = fence'[Workspace] /\ lastWrite' = lastWrite
  BY DEF Acquires, Grant
<1>4. k = fence[Workspace] + 1 /\ fence' \in [Names -> 0..MaxFence]
  BY <1>2, <1>3
<1>5. FencedLeaseTypeOK'
  <2>1. PICK t \in {"held", "lapsed"} : tenure' = [tenure EXCEPT ![Workspace] = t]
    BY DEF Acquires, Grant
  <2>2. tenure' \in [Names -> Tenures]
    BY <1>2, <2>1 DEF Tenures
  <2> QED
    BY <1>1, <1>3, <1>4, <2>2 DEF FencedLeaseTypeOK, TypeOK
<1>6. \A b \in Journal : batches[b].tx # k /\ batches[b].bound # k
  BY <1>1, <1>2, <1>4, Types DEF LeaseInv
<1>7. RowsGrow(k)
  BY <1>2 DEF RowsGrow, Journal
<1>8. \A b \in Journal : RowStep(k, batches[b], batches'[b])
  BY SameRow
<1>9. ClaimsKept
  BY DEF ClaimsKept, HasClaim
<1>10. \A j \in Actors \ {k} : ~Current(j)'
  BY <1>3 DEF Current
<1>11. fence[Workspace] <= fence'[Workspace] /\ k <= fence'[Workspace]
  BY <1>2, <1>3, <1>4
<1> QED
  BY <1>3, <1>5, <1>6, <1>7, <1>8, <1>9, <1>10, <1>11 DEF Moves

\* The holder gives up the lease.
LEMMA RevokeLease ==
  ASSUME Inv, Revoke(Workspace)
  PROVE  /\ FencedLeaseTypeOK' /\ fence' = fence /\ lastWrite' = lastWrite
         /\ \A j \in Actors : ~Current(j)'
<1>1. FencedLeaseTypeOK /\ tenure' = [tenure EXCEPT ![Workspace] = "free"]
      /\ Workspace \in Names /\ tenure \in [Names -> Tenures]
  BY Types DEF Inv, TypeOK, Revoke
<1>2. tenure' \in [Names -> Tenures] /\ tenure'[Workspace] = "free"
  BY <1>1 DEF Tenures
<1> QED
  BY <1>1, <1>2 DEF FencedLeaseTypeOK, Revoke, Current

\* A step that only changes where the actor is, and may end its lease.
LEMMA QuietStep ==
  ASSUME Inv, NEW k \in Actors, NEW pc \in PCs, Goes(k, pc), actor[k].pc # "idle",
         leaseVars' = leaseVars \/ (Current(k) /\ Revoke(Workspace)),
         UNCHANGED <<claims, batches, disk, edits, listed, committed, late>>,
         ActorInv(k)'
  PROVE  Inv' /\ Moves(k)
<1>1. TypeOK /\ k <= fence[Workspace]
  BY ActorType
<1>2. actor' \in [Actors -> ActorStates] /\ \A j \in Actors \ {k} : actor'[j] = actor[j]
  BY <1>1, GoesTo
<1>3. FencedLeaseTypeOK' /\ fence' = fence /\ \A j \in Actors \ {k} : Current(j)' = Current(j)
  <2>1. CASE leaseVars' = leaseVars
    <3>1. fence' = fence /\ tenure' = tenure /\ lastWrite' = lastWrite
      BY <2>1 DEF leaseVars
    <3> QED
      BY <1>1, <3>1 DEF Current, FencedLeaseTypeOK, TypeOK
  <2>2. CASE Current(k) /\ Revoke(Workspace)
    <3>1. \A j \in Actors \ {k} : ~Current(j)
      BY <2>2, OnlyOneCurrent
    <3> QED
      BY <2>2, <3>1, RevokeLease DEF Current
  <2> QED
    BY <2>1, <2>2
<1>4. TypeOK'
  BY <1>1, <1>2, <1>3 DEF TypeOK
<1>5. Moves(k)
  BY <1>1, <1>2, <1>3, ActorMoves
<1> QED
  BY <1>4, <1>5, MovesInv

\* The part of an actor that only waits or is gone.
LEMMA WaitingPart ==
  ASSUME Inv, NEW k \in Actors,
         actor'[k].pc \in Gone \cup {"releasing", "listing"},
         actor'[k].todo \subseteq Journal', Journal' = Journal,
         actor'[k].pc = "releasing" => UndoneInv(k)'
  PROVE  ActorInv(k)'
<1>1. TodoInv(k)' /\ WriterInv(k)' /\ CleanerInv(k)'
  BY DEF TodoInv, WriterInv, CleanerInv, Commits, Sweeping, Writing, Restoring, Gone
<1>2. HolderInv(k)' /\ RecovererInv(k)' /\ AttemptInv(k)'
  BY DEF HolderInv, RecovererInv, AttemptInv, InBody, Writing, Rolling, Restoring, Gone
<1>3. UndoneInv(k)'
  BY DEF UndoneInv, Rolling, Restoring, Gone
<1> QED
  BY <1>1, <1>2, <1>3 DEF ActorInv

LEMMA EnterStep ==
  ASSUME Inv, NEW k \in Actors, Enter(k)
  PROVE  Inv' /\ Moves(k)
<1>1. TypeOK /\ actor[k].todo \subseteq Journal
  BY ActorType
<1>2. /\ actor' \in [Actors -> ActorStates] /\ actor'[k].pc = "entering"
      /\ actor'[k].todo = actor[k].todo /\ \A j \in Actors \ {k} : actor'[j] = actor[j]
  BY <1>1, GoesTo DEF Enter, PCs
<1>3. /\ Moves(k) /\ FencedLeaseTypeOK'
      /\ \A b \in Journal : batches[b].tx # k /\ batches[b].bound # k
  BY <1>2, AcquireMoves DEF Enter
<1>4. TypeOK' /\ Journal' = Journal
  BY <1>1, <1>2, <1>3 DEF TypeOK, Enter, Journal
<1>5. OwnBatches(k)' = {}
  BY <1>3, <1>4 DEF OwnBatches, Enter
<1>6. ActorInv(k)'
  BY <1>1, <1>2, <1>4, <1>5 DEF ActorInv, TodoInv, WriterInv, CleanerInv, HolderInv, UndoneInv,
     RecovererInv, AttemptInv, Commits, Sweeping, Rolling, Restoring, InBody, Writing
<1> QED
  BY <1>3, <1>4, <1>6, MovesInv

LEMMA AcquireClaimStep ==
  ASSUME Inv, NEW k \in Actors, AcquireClaim(k)
  PROVE  Inv' /\ Moves(k)
<1> DEFINE free == {f \in Files : claims[f] # k}
           next == Oldest(free)
<1>1. /\ TypeOK /\ ActorInv(k) /\ k <= fence[Workspace] /\ actor[k].todo \subseteq Journal
      /\ actor[k].pc = "entering" /\ Current(k) /\ k \in Nat
  BY ActorType DEF AcquireClaim
<1>2. Journal' = Journal /\ OwnBatches(k)' = {}
  <2>1. Len(batches') = Len(batches) /\ batches' = batches /\ OwnBatches(k) = {}
    BY <1>1 DEF AcquireClaim, ActorInv, WriterInv
  <2> QED
    BY <1>1, <2>1, SameWrites
<1>3. CASE /\ claims[next] = None
           /\ claims' = [claims EXCEPT ![next] = k]
           /\ Goes(k, IF free = {next} THEN "open" ELSE "entering")
  <2> DEFINE pc == IF free = {next} THEN "open" ELSE "entering"
  <2>1. pc \in PCs
    BY DEF PCs
  <2>2. /\ actor' \in [Actors -> ActorStates] /\ actor'[k].pc = pc
        /\ actor'[k].todo = actor[k].todo /\ \A j \in Actors \ {k} : actor'[j] = actor[j]
    BY <1>1, <1>3, <2>1, GoesTo
  <2>3. claims' \in [Files -> Actors \cup {None}]
        /\ \A f \in Files : claims'[f] = IF f = next THEN k ELSE claims[f]
    BY <1>1, <1>3 DEF TypeOK
  <2>4. TypeOK'
    BY <1>1, <2>2, <2>3 DEF AcquireClaim, TypeOK, leaseVars, FencedLeaseTypeOK
  <2>5. ClaimsKept
    <3> SUFFICES ASSUME NEW b \in Journal, HasClaim(b)
                 PROVE  claims'[batches[b].file] = batches[b].tx
      BY DEF ClaimsKept
    <3>1. batches[b].tx \in Nat /\ batches[b].file \in Files /\ None \notin Nat
      BY <1>1, Types, WorkspaceTransactionsAssumption
    <3> QED
      BY <1>3, <2>3, <3>1 DEF HasClaim
  <2>6. \A j \in Actors : Current(j)' = Current(j)
    BY DEF Current, leaseVars, AcquireClaim
  <2>7. RowsGrow(k) /\ \A b \in Journal : RowStep(k, batches[b], batches'[b])
    BY <1>1, Types, SameRow DEF RowsGrow, Journal, AcquireClaim
  <2>8. fence[Workspace] <= fence'[Workspace] /\ k <= fence'[Workspace]
    BY <1>1, Types DEF AcquireClaim, leaseVars
  <2>9. Moves(k)
    BY <1>1, <2>2, <2>5, <2>6, <2>7, <2>8 DEF Moves, AcquireClaim
  <2>10. HolderInv(k)'
    <3> SUFFICES ASSUME free = {next}, NEW f \in Files PROVE claims'[f] = k
      BY <2>2 DEF HolderInv, InBody, Writing
    <3>1. f = next \/ claims[f] = k
      OBVIOUS
    <3> QED
      BY <2>3, <3>1
  <2>11. ActorInv(k)'
    BY <1>1, <1>2, <2>2, <2>10 DEF ActorInv, TodoInv, WriterInv, CleanerInv, UndoneInv,
       RecovererInv, AttemptInv, Commits, Sweeping, Rolling, Restoring, Writing
  <2> QED
    BY <2>4, <2>9, <2>11, MovesInv
<1>4. CASE claims[next] # None /\ Goes(k, "releasing") /\ UNCHANGED claims
  <2>1. "releasing" \in PCs /\ UNCHANGED <<leaseVars, claims, batches, disk, edits, listed, committed, late>>
    BY <1>4 DEF PCs, AcquireClaim
  <2>2. actor'[k].pc = "releasing" /\ actor'[k].todo = actor[k].todo
    BY <1>1, <1>4, <2>1, GoesTo
  <2>3. ActorInv(k)'
    BY <1>1, <1>2, <2>2, WaitingPart DEF UndoneInv
  <2> QED
    BY <1>1, <1>4, <2>1, <2>3, QuietStep
<1> QED
  BY <1>3, <1>4 DEF AcquireClaim

LEMMA PlanStep ==
  ASSUME Inv, NEW k \in Actors, NEW f \in Files, Plan(k, f)
  PROVE  Inv' /\ Moves(k)
<1> DEFINE n == Len(batches)
           row == [tx |-> k, file |-> f, phase |-> "planned", bound |-> k, before |-> 0,
                   proof |-> "none", artifact |-> FALSE, after |-> None,
                   failure |-> None, preparing |-> FALSE, seen |-> None,
                   renewed |-> FALSE, rewritten |-> FALSE, cleaning |-> FALSE]
<1>1. /\ TypeOK /\ ActorInv(k) /\ k <= fence[Workspace] /\ actor[k].todo \subseteq Journal
      /\ actor[k].pc = "open" /\ Current(k) /\ n < MaxBatches /\ batches' = Append(batches, row)
      /\ n \in Nat /\ batches \in Seq(Batches) /\ MaxBatches \in Nat
  BY ActorType, Types DEF Plan, HasAuthority, TypeOK
<1>2. row \in Batches
  BY DEF Batches, Phases, Contents
<1>3. /\ actor' \in [Actors -> ActorStates] /\ actor'[k].pc = "planned"
      /\ actor'[k].todo = actor[k].todo /\ \A j \in Actors \ {k} : actor'[j] = actor[j]
  BY <1>1, GoesTo DEF Plan, PCs, Writing
<1> HIDE DEF row, n
<1>4. /\ batches' \in Seq(Batches) /\ Len(batches') = n + 1 /\ batches'[n + 1] = row
      /\ \A b \in 1..n : batches'[b] = batches[b]
  BY <1>1, <1>2 DEF n
<1>5. TypeOK'
  BY <1>1, <1>3, <1>4 DEF Plan, TypeOK, leaseVars, FencedLeaseTypeOK
<1>6. Journal = 1..n /\ Journal' = 1..(n + 1) /\ Journal \subseteq Journal'
  BY <1>1, <1>4 DEF Journal, n
<1>7. /\ row.tx = k /\ row.bound = k /\ row.phase = "planned" /\ row.proof = "none"
  BY DEF row
<1>8. RowsGrow(k)
  <2>1. \A b \in 1..(n + 1) : b \notin 1..n => b = n + 1
    BY <1>1
  <2>2. n <= n + 1
    BY <1>1
  <2> QED
    BY <1>1, <1>4, <1>6, <1>7, <2>1, <2>2 DEF RowsGrow, n
<1>9. \A b \in Journal : RowStep(k, batches[b], batches'[b])
  BY <1>4, <1>6, SameRow
<1>10. ClaimsKept
  BY DEF ClaimsKept, HasClaim, Plan
<1>11. \A j \in Actors : Current(j)' = Current(j)
  BY DEF Current, leaseVars, Plan
<1>12. fence[Workspace] <= fence'[Workspace] /\ k <= fence'[Workspace]
  BY <1>1, Types DEF Plan, leaseVars
<1>13. Moves(k)
  BY <1>3, <1>8, <1>9, <1>10, <1>11, <1>12 DEF Moves, Plan
<1>14. Writes(k)' = n + 1 /\ OwnBatches(k)' # {}
  <2>1. n + 1 \in OwnBatches(k)' /\ OwnBatches(k)' \subseteq 1..(n + 1)
    BY <1>1, <1>4, <1>6, <1>7 DEF OwnBatches
  <2>2. OwnBatches(k)' \in SUBSET (0..(n + 1)) /\ n + 1 \in Nat
    BY <1>1, <2>1
  <2>3. Newest(OwnBatches(k)') \in OwnBatches(k)' /\ n + 1 <= Newest(OwnBatches(k)')
    BY <2>1, <2>2, NewestIsLast
  <2>4. Newest(OwnBatches(k)') \in 1..(n + 1)
    BY <2>1, <2>3
  <2>5. Newest(OwnBatches(k)') = n + 1
    BY <1>1, <2>3, <2>4
  <2> QED
    BY <2>1, <2>5 DEF Writes, Newest
<1>15. WriterInv(k)'
  BY <1>3, <1>4, <1>7, <1>14 DEF WriterInv, Stages
<1>16. HolderInv(k)'
  BY <1>1, <1>11 DEF ActorInv, HolderInv, InBody, Plan
<1>17. ActorInv(k)'
  BY <1>1, <1>3, <1>6, <1>15, <1>16 DEF ActorInv, TodoInv, CleanerInv, UndoneInv,
     RecovererInv, AttemptInv, Commits, Sweeping, Rolling, Restoring
<1> QED
  BY <1>5, <1>13, <1>17, MovesInv

-----------------------------------------------------------------------------
(* Leaving the body *)

\* Own batches that wait for their recovery do not become anything else.
LEMMA DesiredMoves ==
  ASSUME Inv, NEW k \in Actors, k <= fence[Workspace],
         \A j \in Actors \ {k} : actor'[j] = actor[j], actor' \in [Actors -> ActorStates],
         NEW S, S \subseteq Eligible(k), Desired(S), S # {} => Current(k),
         \A b \in S : batches[b].bound = k,
         UNCHANGED <<leaseVars, claims, disk, edits, listed, committed, late>>
  PROVE  /\ Moves(k) /\ TypeOK' /\ Journal' = Journal /\ OwnBatches(k)' = OwnBatches(k)
         /\ \A b \in Journal : batches'[b].phase =
               IF b \in S THEN "recovery_desired" ELSE batches[b].phase
<1>1. /\ TypeOK /\ Len(batches) \in Nat /\ fence[Workspace] \in Nat
      /\ S \subseteq Journal
  BY Types DEF Inv, Eligible, OwnBatches
<1>2. /\ batches' = [b \in Journal |->
            IF b \in S THEN [batches[b] EXCEPT !.phase = "recovery_desired"] ELSE batches[b]]
      /\ \A b \in Journal : batches[b] \in Batches
  BY <1>1, Types DEF Desired
<1>3. ASSUME NEW b \in Journal
      PROVE  /\ batches'[b] \in Batches
             /\ b \in S => batches'[b] = [batches[b] EXCEPT !.phase = "recovery_desired"]
             /\ b \notin S => batches'[b] = batches[b]
  BY <1>2 DEF Batches, Phases
<1>4. batches' \in [1..Len(batches) -> Batches]
  BY <1>2, <1>3 DEF Journal
<1>5. batches' \in Seq(Batches) /\ Len(batches') = Len(batches)
  BY <1>1, <1>4, AsJournal
<1>6. ASSUME NEW b \in Journal, b \in S
      PROVE  /\ batches'[b].phase = "recovery_desired"
             /\ batches'[b].tx = batches[b].tx /\ batches'[b].file = batches[b].file
             /\ batches'[b].bound = batches[b].bound /\ batches'[b].proof = batches[b].proof
             /\ batches'[b].artifact = batches[b].artifact /\ batches'[b].before = batches[b].before
  BY <1>2, <1>3, <1>6 DEF Batches
<1>7. ASSUME NEW b \in Journal PROVE RowStep(k, batches[b], batches'[b])
  <2>1. CASE b \in S
    <3>1. /\ batches[b].bound = k /\ Current(k)
          /\ batches[b].phase \in {"recovery_desired", "recovery_failed", "attempting", "succeeded"}
      BY <2>1 DEF Eligible
    <3> QED
      BY <1>6, <2>1, <3>1 DEF RowStep, RowKept
  <2>2. CASE b \notin S
    BY <1>3, <2>2, SameRow
  <2> QED
    BY <2>1, <2>2
<1>8. RowsGrow(k)
  BY <1>1, <1>5 DEF RowsGrow, Journal
<1>9. ClaimsKept
  BY DEF ClaimsKept, HasClaim
<1>10. fence' = fence /\ \A j \in Actors : Current(j)' = Current(j)
  BY DEF leaseVars, Current
<1>11. Moves(k)
  BY <1>1, <1>7, <1>8, <1>9, <1>10 DEF Moves
<1>12. FencedLeaseTypeOK'
  BY <1>1 DEF TypeOK, FencedLeaseTypeOK, leaseVars
<1>13. TypeOK'
  BY <1>1, <1>5, <1>12 DEF TypeOK
<1>14. Journal' = Journal /\ OwnBatches(k)' = OwnBatches(k)
  BY <1>1, <1>5, <1>7, SameWrites DEF RowStep
<1> QED
  BY <1>3, <1>6, <1>11, <1>13, <1>14

LEMMA RaiseInRecordOnlyStep ==
  ASSUME Inv, NEW k \in Actors, RaiseInRecordOnly(k)
  PROVE  Inv' /\ Moves(k)
<1>1. /\ TypeOK /\ actor[k].pc # "idle" /\ actor[k].todo \subseteq Journal /\ "releasing" \in PCs
      /\ k \notin Automatic /\ UNCHANGED <<leaseVars, claims, batches, disk, edits, listed, committed, late>>
  BY ActorType DEF RaiseInRecordOnly, InBody, Writing, PCs
<1>2. actor'[k].pc = "releasing" /\ actor'[k].todo = actor[k].todo
  BY <1>1, GoesTo DEF RaiseInRecordOnly
<1>3. ActorInv(k)'
  BY <1>1, <1>2, WaitingPart DEF UndoneInv, Journal
<1> QED
  BY <1>1, <1>3, QuietStep DEF RaiseInRecordOnly

LEMMA RaiseAndRollBackStep ==
  ASSUME Inv, NEW k \in Actors, RaiseAndRollBack(k)
  PROVE  Inv' /\ Moves(k)
<1> DEFINE s == Works("rolling", "rollback", Eligible(k))
<1>1. /\ TypeOK /\ k <= fence[Workspace] /\ Eligible(k) \subseteq Journal /\ Journal \subseteq BatchIds
      /\ Eligible(k) # {} => Current(k) /\ \A b \in Eligible(k) : batches[b].bound = k
      /\ actor' = [actor EXCEPT ![k] = s] /\ Desired(Eligible(k))
      /\ UNCHANGED <<leaseVars, claims, disk, edits, listed, committed, late>>
  BY ActorType, Types DEF RaiseAndRollBack, InBody, Writing, Eligible, OwnBatches
<1>2. s \in ActorStates /\ s.pc = "rolling" /\ s.why = "rollback" /\ s.todo = Eligible(k)
  BY <1>1 DEF Works, Idle, ActorStates, PCs
<1> HIDE DEF s
<1>3. /\ actor' \in [Actors -> ActorStates] /\ actor'[k] = s
      /\ \A j \in Actors \ {k} : actor'[j] = actor[j]
  BY <1>1, <1>2, Becomes
<1>4. /\ Moves(k) /\ TypeOK' /\ Journal' = Journal /\ OwnBatches(k)' = OwnBatches(k)
      /\ \A b \in Journal : batches'[b].phase =
            IF b \in Eligible(k) THEN "recovery_desired" ELSE batches[b].phase
  BY <1>1, <1>3, DesiredMoves
<1>5. \A b \in OwnBatches(k)' : batches'[b].phase # "succeeded"
  BY <1>4 DEF Eligible, OwnBatches
<1>6. ActorInv(k)'
  BY <1>1, <1>2, <1>3, <1>4, <1>5 DEF ActorInv, TodoInv, WriterInv, CleanerInv, HolderInv, UndoneInv,
     RecovererInv, AttemptInv, Commits, Sweeping, Rolling, Restoring, InBody, Writing
<1> QED
  BY <1>4, <1>6, MovesInv

LEMMA RaiseAndAbandonStep ==
  ASSUME Inv, NEW k \in Actors, RaiseAndAbandon(k)
  PROVE  Inv' /\ Moves(k)
<1>1. PICK b \in Eligible(k) :
         LET earlier == {c \in Eligible(k) : c < b}
         IN  /\ earlier # {} => Current(k)
             /\ \A c \in earlier : batches[c].bound = k
             /\ Desired(earlier)
  BY DEF RaiseAndAbandon
<1> DEFINE S == {c \in Eligible(k) : c < b}
<1>2. /\ S \subseteq Eligible(k)
      /\ S # {} => Current(k)
      /\ \A c \in S : batches[c].bound = k
      /\ Desired(S)
  BY <1>1
<1>3. /\ TypeOK /\ k <= fence[Workspace] /\ actor[k].todo \subseteq Journal
      /\ UNCHANGED <<leaseVars, claims, disk, edits, listed, committed, late>>
  BY ActorType DEF RaiseAndAbandon, InBody, Writing
<1>4. /\ actor'[k].pc = "abandoned" /\ actor'[k].todo = actor[k].todo
      /\ actor' \in [Actors -> ActorStates] /\ \A j \in Actors \ {k} : actor'[j] = actor[j]
  BY <1>3, GoesTo DEF RaiseAndAbandon, PCs
<1> HIDE DEF S
<1>5. Moves(k) /\ TypeOK' /\ Journal' = Journal
  BY <1>2, <1>3, <1>4, DesiredMoves
<1>6. ActorInv(k)'
  BY <1>3, <1>4, <1>5, WaitingPart DEF Gone
<1> QED
  BY <1>5, <1>6, MovesInv

LEMMA ExitCleanlyStep ==
  ASSUME Inv, NEW k \in Actors, ExitCleanly(k)
  PROVE  Inv' /\ Moves(k)
<1> DEFINE pending == IF k \in Automatic THEN PendingOwn(k) ELSE {}
           s == Works("rolling", "commit", pending)
<1>1. /\ TypeOK /\ k <= fence[Workspace] /\ actor[k].todo \subseteq Journal /\ actor[k].pc = "open"
      /\ Journal \subseteq BatchIds
      /\ UNCHANGED <<leaseVars, claims, disk, edits, listed, committed, late>>
  BY ActorType, Types DEF ExitCleanly
<1>2. pending \subseteq Eligible(k) /\ pending \subseteq Journal
  BY DEF PendingOwn, Eligible, OwnBatches
<1>3. CASE /\ pending # {} => Current(k) /\ \A b \in pending : batches[b].bound = k
           /\ Desired(pending)
           /\ actor' = [actor EXCEPT ![k] = s]
  <2>1. s \in ActorStates
    BY <1>1, <1>2 DEF Works, Idle, ActorStates, PCs
  <2>2. /\ actor' \in [Actors -> ActorStates] /\ actor'[k] = s
        /\ \A j \in Actors \ {k} : actor'[j] = actor[j]
    BY <1>1, <1>3, <2>1, Becomes
  <2>3. s.pc = "rolling" /\ s.why = "commit" /\ s.todo = pending
    BY DEF Works, Idle
  <2> HIDE DEF pending, s
  <2>4. Moves(k) /\ TypeOK' /\ Journal' = Journal
    BY <1>1, <1>2, <1>3, <2>2, DesiredMoves
  <2>5. ActorInv(k)'
    BY <1>1, <1>2, <2>2, <2>3, <2>4 DEF ActorInv, TodoInv, WriterInv, CleanerInv, HolderInv,
       UndoneInv, RecovererInv, AttemptInv, Commits, Sweeping, Rolling, Restoring, InBody, Writing
  <2> QED
    BY <2>4, <2>5, MovesInv
<1>4. CASE Goes(k, "abandoned") /\ UNCHANGED batches
  <2>1. actor'[k].pc = "abandoned" /\ actor'[k].todo = actor[k].todo /\ "abandoned" \in PCs
    BY <1>1, <1>4, GoesTo DEF PCs
  <2>2. ActorInv(k)'
    BY <1>1, <1>4, <2>1, WaitingPart DEF Gone, Journal
  <2> QED
    BY <1>1, <1>4, <2>1, <2>2, QuietStep
<1> QED
  BY <1>3, <1>4 DEF ExitCleanly

LEMMA RolledBackStep ==
  ASSUME Inv, NEW k \in Actors, RolledBack(k)
  PROVE  Inv' /\ Moves(k)
<1>1. /\ TypeOK /\ ActorInv(k) /\ k <= fence[Workspace] /\ actor[k].todo \subseteq Journal
      /\ actor[k].pc = "rolling" /\ actor[k].todo = {} /\ actor[k].why # "recover"
      /\ UNCHANGED <<leaseVars, claims, batches, disk, edits, listed, late>>
      /\ Journal \subseteq BatchIds
  BY ActorType, Types DEF RolledBack
<1>2. Journal' = Journal /\ OwnBatches(k)' = OwnBatches(k)
  BY <1>1, SameWrites
<1>3. CASE Goes(k, "abandoned") /\ UNCHANGED committed
  <2>1. actor'[k].pc = "abandoned" /\ actor'[k].todo = actor[k].todo /\ "abandoned" \in PCs
    BY <1>1, <1>3, GoesTo DEF PCs
  <2>2. ActorInv(k)'
    BY <1>1, <1>2, <2>1, WaitingPart DEF Gone
  <2> QED
    BY <1>1, <1>3, <2>1, <2>2, QuietStep
<1>4. CASE actor[k].why = "rollback" /\ Goes(k, "releasing") /\ UNCHANGED committed
  <2>1. actor'[k].pc = "releasing" /\ actor'[k].todo = actor[k].todo /\ "releasing" \in PCs
    BY <1>1, <1>4, GoesTo DEF PCs
  <2>2. UndoneInv(k)'
    BY <1>1, <1>2, <1>4, <2>1 DEF ActorInv, UndoneInv, Rolling, Restoring
  <2>3. ActorInv(k)'
    BY <1>1, <1>2, <2>1, <2>2, WaitingPart
  <2> QED
    BY <1>1, <1>4, <2>1, <2>3, QuietStep
<1>5. CASE /\ actor[k].why = "commit"
           /\ actor' = [actor EXCEPT ![k].pc = "committing",
                          ![k].todo = {b \in OwnBatches(k) : batches[b].phase = "succeeded"}]
           /\ committed' = committed \cup {k}
  <2> DEFINE T == {b \in OwnBatches(k) : batches[b].phase = "succeeded"}
  <2>1. T \subseteq Journal /\ T \in SUBSET BatchIds /\ "committing" \in PCs
        /\ \A b \in T : batches[b].tx = k /\ batches[b].phase = "succeeded"
    BY <1>1 DEF OwnBatches, PCs
  <2>2. actor' = [actor EXCEPT ![k].pc = "committing", ![k].todo = T]
    BY <1>5
  <2>3. TypeOK /\ T \in SUBSET BatchIds /\ "committing" \in PCs
    BY <1>1, <2>1
  <2> HIDE DEF T
  <2>4. /\ actor' \in [Actors -> ActorStates] /\ actor'[k].pc = "committing"
        /\ actor'[k].why = actor[k].why /\ actor'[k].todo = T
        /\ \A j \in Actors \ {k} : actor'[j] = actor[j]
    <3> DEFINE s == [actor[k] EXCEPT !.pc = "committing", !.todo = T]
    <3>1. actor' = [actor EXCEPT ![k] = s] /\ actor[k] \in ActorStates
      BY <2>2, <2>3 DEF TypeOK
    <3>2. s \in ActorStates /\ s.pc = "committing" /\ s.why = actor[k].why /\ s.todo = T
      BY <2>3, <3>1 DEF ActorStates
    <3> HIDE DEF s
    <3> QED
      BY <2>3, <3>1, <3>2, Becomes
  <2>5. TypeOK'
    BY <1>1, <1>5, <2>4 DEF TypeOK, leaseVars, FencedLeaseTypeOK
  <2>6. \A j \in Actors : Current(j)' = Current(j)
    BY <1>1 DEF Current, leaseVars
  <2>7. RowsGrow(k) /\ \A b \in Journal : RowStep(k, batches[b], batches'[b])
    BY <1>1, Types, SameRow DEF RowsGrow, Journal
  <2>8. ClaimsKept
    BY <1>1 DEF ClaimsKept, HasClaim
  <2>9. fence[Workspace] <= fence'[Workspace] /\ k <= fence'[Workspace]
    BY <1>1, Types DEF leaseVars
  <2>10. Moves(k)
    BY <1>1, <1>5, <2>4, <2>6, <2>7, <2>8, <2>9 DEF Moves
  <2>11. CleanerInv(k)'
    BY <1>1, <1>5, <2>1, <2>4 DEF CleanerInv, Commits, Sweeping
  <2>12. ActorInv(k)'
    BY <1>1, <1>2, <2>1, <2>4, <2>11 DEF ActorInv, TodoInv, WriterInv, HolderInv, UndoneInv,
       RecovererInv, AttemptInv, Rolling, Restoring, InBody, Writing
  <2> QED
    BY <2>5, <2>10, <2>12, MovesInv
<1> QED
  BY <1>3, <1>4, <1>5 DEF RolledBack

-----------------------------------------------------------------------------
(* The cleanup of artifacts, and the end of a transaction *)

\* A cleanup changes the artifact of a batch, and what is known of its cleanup.
Cleans(old, new) ==
    /\ new \in Batches
    /\ new.tx = old.tx /\ new.file = old.file /\ new.bound = old.bound
    /\ new.phase = old.phase /\ new.proof = old.proof /\ new.before = old.before

\* A cleanup may take the backup of a batch that is done with, or when sweeps run.
LEMMA CleansRow ==
  ASSUME NEW k, NEW old, NEW new, Cleans(old, new),
         (new.artifact = old.artifact) \/ Sweeps \/ (old.tx \in committed)
           \/ old.phase = "recovery_succeeded"
  PROVE  RowStep(k, old, new)
BY DEF Cleans, RowStep, RowKept

\* The part of a cleaner that goes on.
LEMMA CleanerPart ==
  ASSUME Inv, NEW k \in Actors, Commits(k) \/ Sweeping(k),
         actor'[k].pc \in {"committing", "sweeping", "deleting"},
         actor'[k].pc = "deleting" => actor'[k].todo # {},
         actor'[k].why = actor[k].why, actor'[k].todo \subseteq actor[k].todo,
         Commits(k) => Commits(k)', Sweeping(k) => Sweeping(k)',
         Journal' = Journal, committed' = committed,
         \A b \in Journal : /\ batches'[b].tx = batches[b].tx
                            /\ batches'[b].bound = batches[b].bound
                            /\ batches'[b].phase = batches[b].phase
  PROVE  ActorInv(k)'
<1>1. /\ CleanerInv(k) /\ TodoInv(k) /\ actor[k].todo \subseteq Journal
  BY ActorType DEF ActorInv
<1>2. TodoInv(k)' /\ WriterInv(k)' /\ HolderInv(k)' /\ UndoneInv(k)' /\ RecovererInv(k)' /\ AttemptInv(k)'
  BY <1>1 DEF TodoInv, WriterInv, HolderInv, UndoneInv, RecovererInv, AttemptInv, Rolling, Restoring, InBody, Writing
<1>3. (Commits(k) => actor[k].why = "commit") /\ (Sweeping(k) => actor[k].why # "commit")
  BY <1>1 DEF CleanerInv
<1>4. (Commits(k)' => Commits(k)) /\ (Sweeping(k)' => Sweeping(k))
  <2>1. Commits(k)' => Commits(k)
    BY <1>3 DEF Commits, Sweeping
  <2>2. Sweeping(k)' => Sweeping(k)
    BY <1>3 DEF Commits, Sweeping
  <2> QED
    BY <2>1, <2>2
<1>5. ASSUME Commits(k), NEW b \in actor'[k].todo
      PROVE  batches'[b].tx = k /\ (batches'[b].bound = k => batches'[b].phase = "succeeded")
  <2>1. b \in Journal /\ b \in actor[k].todo
    BY <1>1
  <2>2. batches[b].tx = k /\ (batches[b].bound = k => batches[b].phase = "succeeded")
    BY <1>1, <1>5, <2>1 DEF CleanerInv
  <2> QED
    BY <2>1, <2>2
<1>6. CleanerInv(k)'
  BY <1>1, <1>3, <1>4, <1>5 DEF CleanerInv
<1> QED
  BY <1>2, <1>6 DEF ActorInv

LEMMA CleanStep ==
  ASSUME Inv, NEW k \in Actors, Commits(k) \/ Sweeping(k), actor[k].todo # {},
         NEW row \in Batches, SetBatch(Oldest(actor[k].todo), row),
         Cleans(batches[Oldest(actor[k].todo)], row),
         \A j \in Actors \ {k} : actor'[j] = actor[j], actor' \in [Actors -> ActorStates],
         UNCHANGED <<leaseVars, claims, disk, edits, listed, committed, late>>
  PROVE  /\ Moves(k) /\ TypeOK' /\ Journal' = Journal
         /\ \A b \in Journal : /\ batches'[b].tx = batches[b].tx
                               /\ batches'[b].bound = batches[b].bound
                               /\ batches'[b].phase = batches[b].phase
<1> DEFINE b == Oldest(actor[k].todo)
<1>1. /\ TypeOK /\ ActorInv(k) /\ k <= fence[Workspace] /\ actor[k].todo \subseteq Journal
  BY ActorType DEF Commits, Sweeping
<1>2. b \in actor[k].todo /\ b \in Journal
  BY <1>1, TodoEnds
<1>3. Sweeps \/ batches[b].tx \in committed
  BY <1>1, <1>2 DEF ActorInv, CleanerInv
<1>4. RowStep(k, batches[b], row)
  BY <1>3, CleansRow
<1> HIDE DEF b
<1>5. Moves(k) /\ TypeOK'
  BY <1>1, <1>2, <1>4, RowMoves, RowTypeOK DEF b
<1>6. /\ Len(batches') = Len(batches) /\ batches'[b] = row
      /\ \A c \in Journal : c # b => batches'[c] = batches[c]
  BY <1>1, <1>2, OneRow DEF b
<1> QED
  BY <1>2, <1>5, <1>6 DEF Cleans, Journal, b

LEMMA MarkDeletionStep ==
  ASSUME Inv, NEW k \in Actors, MarkDeletion(k)
  PROVE  Inv' /\ Moves(k)
<1> DEFINE b == Oldest(actor[k].todo)
<1>1. /\ TypeOK /\ ActorInv(k) /\ k <= fence[Workspace] /\ actor[k].todo \subseteq Journal
      /\ actor[k].pc \in {"committing", "sweeping"} /\ actor[k].todo # {}
      /\ UNCHANGED <<leaseVars, claims, disk, edits, listed, committed, late>>
      /\ actor[k].todo \subseteq BatchIds
  BY ActorType DEF MarkDeletion
<1>2. b \in Journal /\ batches[b] \in Batches
  BY <1>1, TodoEnds, Types
<1>3. Commits(k) \/ Sweeping(k)
  BY <1>1 DEF Commits, Sweeping
<1>4. CASE SetBatch(b, [batches[b] EXCEPT !.cleaning = TRUE]) /\ Goes(k, "deleting")
  <2> DEFINE row == [batches[b] EXCEPT !.cleaning = TRUE]
  <2>1. row \in Batches /\ Cleans(batches[b], row) /\ SetBatch(b, row)
    BY <1>2, <1>4 DEF Batches, Cleans
  <2>2. /\ actor' \in [Actors -> ActorStates] /\ actor'[k].pc = "deleting"
        /\ actor'[k].todo = actor[k].todo /\ actor'[k].why = actor[k].why
        /\ \A j \in Actors \ {k} : actor'[j] = actor[j]
    BY <1>1, <1>4, GoesTo DEF PCs
  <2> HIDE DEF row
  <2>3. /\ Moves(k) /\ TypeOK' /\ Journal' = Journal
        /\ \A c \in Journal : /\ batches'[c].tx = batches[c].tx
                              /\ batches'[c].bound = batches[c].bound
                              /\ batches'[c].phase = batches[c].phase
    BY <1>1, <1>3, <2>1, <2>2, CleanStep
  <2>4. (Commits(k) => Commits(k)') /\ (Sweeping(k) => Sweeping(k)')
    BY <1>1, <2>2 DEF Commits, Sweeping, ActorInv, CleanerInv
  <2>5. ActorInv(k)'
    BY <1>1, <1>3, <2>2, <2>3, <2>4, CleanerPart
  <2> QED
    BY <2>3, <2>5, MovesInv
<1>5. CASE actor' = [actor EXCEPT ![k].todo = @ \ {b}] /\ UNCHANGED batches
  <2> DEFINE pc == actor[k].pc
             T == actor[k].todo \ {b}
             s == [actor[k] EXCEPT !.todo = T]
  <2>1. pc \in PCs /\ T \in SUBSET BatchIds /\ T \subseteq actor[k].todo /\ T \subseteq Journal
    BY <1>1, ActorType
  <2>2. actor' = [actor EXCEPT ![k] = s] /\ actor[k] \in ActorStates
    BY <1>1, <1>5 DEF TypeOK
  <2> HIDE DEF T
  <2>8. s \in ActorStates /\ s.pc = pc /\ s.why = actor[k].why /\ s.todo = T
    BY <2>1, <2>2 DEF ActorStates
  <2> HIDE DEF s
  <2>3. /\ actor' \in [Actors -> ActorStates] /\ actor'[k].pc = pc
        /\ actor'[k].why = actor[k].why /\ actor'[k].todo = T
        /\ \A j \in Actors \ {k} : actor'[j] = actor[j]
    BY <1>1, <2>2, <2>8, Becomes
  <2>4. TypeOK'
    BY <1>1, <1>5, <2>3 DEF TypeOK, leaseVars, FencedLeaseTypeOK
  <2>5. Moves(k)
    BY <1>1, <1>5, <2>3, ActorMoves, Types DEF leaseVars, Current
  <2>6. (Commits(k) => Commits(k)') /\ (Sweeping(k) => Sweeping(k)')
    BY <1>1, <2>3 DEF Commits, Sweeping, pc
  <2>7. ActorInv(k)'
    BY <1>1, <1>3, <1>5, <2>1, <2>3, <2>6, CleanerPart DEF Journal, pc
  <2> QED
    BY <2>4, <2>5, <2>7, MovesInv
<1> QED
  BY <1>4, <1>5 DEF MarkDeletion

LEMMA DeleteArtifactStep ==
  ASSUME Inv, NEW k \in Actors, DeleteArtifact(k)
  PROVE  Inv' /\ Moves(k)
<1> DEFINE b == Oldest(actor[k].todo)
<1>1. /\ TypeOK /\ ActorInv(k) /\ k <= fence[Workspace] /\ actor[k].todo \subseteq Journal
      /\ actor[k].pc = "deleting" /\ actor[k].todo # {}
      /\ UNCHANGED <<leaseVars, claims, disk, edits, listed, committed, late>>
      /\ actor[k].todo \subseteq BatchIds
  BY ActorType DEF DeleteArtifact, ActorInv, TodoInv
<1>2. b \in Journal /\ batches[b] \in Batches
  BY <1>1, TodoEnds, Types
<1>3. Commits(k) \/ Sweeping(k)
  BY <1>1 DEF Commits, Sweeping
<1>4. PICK deleted \in BOOLEAN, recorded \in BOOLEAN :
         /\ SetBatch(b, [batches[b] EXCEPT !.artifact = @ /\ ~deleted, !.cleaning = @ /\ ~recorded])
         /\ actor' = [actor EXCEPT
               ![k].pc = IF ~recorded THEN "crashed"
                         ELSE IF actor[k].why = "commit" THEN "committing" ELSE "sweeping",
               ![k].todo = @ \ {b}]
  BY DEF DeleteArtifact
<1> DEFINE artifact == batches[b].artifact /\ ~deleted
           cleaning == batches[b].cleaning /\ ~recorded
           row == [batches[b] EXCEPT !.artifact = artifact, !.cleaning = cleaning]
           pc == IF ~recorded THEN "crashed"
                 ELSE IF actor[k].why = "commit" THEN "committing" ELSE "sweeping"
           T == actor[k].todo \ {b}
<1>5. SetBatch(b, row) /\ actor' = [actor EXCEPT ![k].pc = pc, ![k].todo = T]
  BY <1>1, <1>2, <1>4 DEF TypeOK, ActorStates, Batches
<1>6. artifact \in BOOLEAN /\ cleaning \in BOOLEAN
  BY <1>2 DEF Batches
<1>7. pc \in PCs /\ T \in SUBSET BatchIds /\ T \subseteq actor[k].todo /\ T \subseteq Journal
      /\ pc \in {"crashed", "committing", "sweeping"}
      /\ (pc = "committing" => actor[k].why = "commit") /\ (pc = "sweeping" => actor[k].why # "commit")
  BY <1>1 DEF PCs
<1> HIDE DEF artifact, cleaning, pc, T
<1>8. row \in Batches /\ Cleans(batches[b], row)
  BY <1>2, <1>6 DEF Batches, Cleans
<1>9. /\ actor' \in [Actors -> ActorStates] /\ actor'[k].pc = pc
      /\ actor'[k].why = actor[k].why /\ actor'[k].todo = T
      /\ \A j \in Actors \ {k} : actor'[j] = actor[j]
  <2>1. TypeOK /\ pc \in PCs /\ T \in SUBSET BatchIds
    BY <1>1, <1>7
  <2>2. actor' = [actor EXCEPT ![k].pc = pc, ![k].todo = T]
    BY <1>5
  <2> DEFINE s == [actor[k] EXCEPT !.pc = pc, !.todo = T]
  <2>3. actor[k] \in ActorStates
    BY <1>1 DEF TypeOK
  <2>4. actor' = [actor EXCEPT ![k] = s]
    BY <1>1, <2>2 DEF TypeOK
  <2>5. s \in ActorStates /\ s.pc = pc /\ s.why = actor[k].why /\ s.todo = T
    BY <2>1, <2>3 DEF ActorStates
  <2> HIDE DEF s
  <2> QED
    BY <2>1, <2>4, <2>5, Becomes
<1> HIDE DEF row
<1>10. /\ Moves(k) /\ TypeOK' /\ Journal' = Journal
       /\ \A c \in Journal : /\ batches'[c].tx = batches[c].tx
                             /\ batches'[c].bound = batches[c].bound
                             /\ batches'[c].phase = batches[c].phase
  BY <1>1, <1>3, <1>5, <1>8, <1>9, CleanStep
<1>11. ActorInv(k)'
  <2>1. CASE pc = "crashed"
    BY <1>7, <1>9, <1>10, <2>1, WaitingPart DEF Gone
  <2>2. CASE pc # "crashed"
    <3>1. (Commits(k) => Commits(k)') /\ (Sweeping(k) => Sweeping(k)')
      BY <1>1, <1>7, <1>9, <2>2 DEF Commits, Sweeping
    <3> QED
      BY <1>1, <1>3, <1>7, <1>9, <1>10, <2>2, <3>1, CleanerPart
  <2> QED
    BY <2>1, <2>2
<1> QED
  BY <1>10, <1>11, MovesInv

LEMMA CommitCleanupStep ==
  ASSUME Inv, NEW k \in Actors, CommitCleanupUnderNewLease(k)
  PROVE  Inv' /\ Moves(k)
<1>1. /\ TypeOK /\ ActorInv(k) /\ k <= fence[Workspace] /\ actor[k].todo \subseteq Journal
      /\ actor[k].pc = "committing" /\ k \in Nat /\ fence[Workspace] \in Nat
      /\ Commits(k)
      /\ UNCHANGED <<lastWrite, claims, disk, edits, listed, committed, late>>
  BY ActorType DEF CommitCleanupUnderNewLease, Commits
<1>2. PICK D \in SUBSET {b \in actor[k].todo : MayClean(b, fence'[Workspace])} :
         batches' = [b \in Journal |->
            IF b \in D THEN [batches[b] EXCEPT !.artifact = FALSE] ELSE batches[b]]
  BY DEF CommitCleanupUnderNewLease
<1>3. D \subseteq Journal /\ D \subseteq actor[k].todo /\ Len(batches) \in Nat
      /\ \A b \in Journal : batches[b] \in Batches
  BY <1>1, <1>2, Types
<1>4. \A b \in D : batches[b].tx \in committed
  BY <1>1, <1>3 DEF ActorInv, CleanerInv
<1>5. ASSUME NEW b \in Journal
      PROVE  /\ batches'[b] \in Batches
             /\ b \in D => Cleans(batches[b], batches'[b])
             /\ b \notin D => batches'[b] = batches[b]
  <2>1. CASE b \in D
    <3>1. batches'[b] = [batches[b] EXCEPT !.artifact = FALSE] /\ batches[b] \in Batches
      BY <1>2, <1>3, <2>1
    <3> QED
      BY <2>1, <3>1 DEF Batches, Cleans
  <2>2. CASE b \notin D
    BY <1>2, <1>3, <2>2
  <2> QED
    BY <2>1, <2>2
<1>6. batches' \in [1..Len(batches) -> Batches]
  BY <1>2, <1>5 DEF Journal
<1>7. batches' \in Seq(Batches) /\ Len(batches') = Len(batches) /\ Journal' = Journal
  <2>1. batches' \in Seq(Batches) /\ Len(batches') = Len(batches)
    BY <1>3, <1>6, AsJournal
  <2> QED
    BY <2>1 DEF Journal
<1>8. \A b \in Journal : RowStep(k, batches[b], batches'[b])
  BY <1>4, <1>5, CleansRow, SameRow
<1>9. /\ \A b \in Journal : /\ batches'[b].tx = batches[b].tx
                            /\ batches'[b].bound = batches[b].bound
                            /\ batches'[b].phase = batches[b].phase
  BY <1>5 DEF Cleans
<1>10. /\ actor' \in [Actors -> ActorStates] /\ actor'[k].pc = "committing"
       /\ actor'[k].why = actor[k].why /\ actor'[k].todo = {}
       /\ \A j \in Actors \ {k} : actor'[j] = actor[j]
  <2> DEFINE s == [actor[k] EXCEPT !.todo = {}]
  <2>1. actor[k] \in ActorStates /\ actor' = [actor EXCEPT ![k] = s]
    BY <1>1 DEF TypeOK, CommitCleanupUnderNewLease
  <2>2. s \in ActorStates /\ s.pc = "committing" /\ s.why = actor[k].why /\ s.todo = {}
    BY <1>1, <2>1 DEF ActorStates
  <2> HIDE DEF s
  <2> QED
    BY <1>1, <2>1, <2>2, Becomes
<1>11. /\ FencedLeaseTypeOK' /\ fence[Workspace] <= fence'[Workspace]
       /\ \A j \in Actors : ~(Current(j) /\ j = fence'[Workspace])
       /\ k <= fence'[Workspace] /\ \A j \in Actors : ~Current(j)'
  <2>1. /\ fence \in [Names -> 0..MaxFence] /\ tenure \in [Names -> Tenures]
        /\ Workspace \in Names /\ MaxFence \in Nat
    BY <1>1, Types
  <2>2. /\ fence[Workspace] < MaxFence /\ fence' = [fence EXCEPT ![Workspace] = @ + 1]
        /\ tenure' = [tenure EXCEPT ![Workspace] = "free"]
    BY DEF CommitCleanupUnderNewLease
  <2>3. fence' \in [Names -> 0..MaxFence] /\ fence'[Workspace] = fence[Workspace] + 1
    BY <1>1, <2>1, <2>2
  <2>4. tenure' \in [Names -> Tenures] /\ tenure'[Workspace] = "free"
    BY <2>1, <2>2 DEF Tenures
  <2> QED
    BY <1>1, <2>3, <2>4 DEF FencedLeaseTypeOK, TypeOK, Current
<1>12. TypeOK'
  BY <1>1, <1>7, <1>10, <1>11 DEF TypeOK
<1>13. RowsGrow(k) /\ ClaimsKept
  BY <1>1, <1>3, <1>7 DEF RowsGrow, ClaimsKept, HasClaim, Journal
<1>14. Moves(k)
  BY <1>1, <1>8, <1>10, <1>11, <1>13 DEF Moves
<1>15. ActorInv(k)'
  <2>1. Commits(k)' /\ ~Sweeping(k)
    BY <1>1, <1>10 DEF Commits, Sweeping
  <2> QED
    BY <1>1, <1>7, <1>9, <1>10, <2>1, CleanerPart
<1> QED
  BY <1>12, <1>14, <1>15, MovesInv

LEMMA CommitCleanedStep ==
  ASSUME Inv, NEW k \in Actors, CommitCleaned(k)
  PROVE  Inv' /\ Moves(k)
<1>1. /\ TypeOK /\ ActorInv(k) /\ actor[k].todo \subseteq Journal
      /\ actor[k].pc = "committing" /\ "releasing" \in PCs
      /\ UNCHANGED <<leaseVars, claims, batches, disk, edits, listed, committed, late>>
  BY ActorType DEF CommitCleaned, PCs
<1>2. actor'[k].pc = "releasing" /\ actor'[k].todo = actor[k].todo
  BY <1>1, GoesTo DEF CommitCleaned
<1>3. k \in committed'
  BY <1>1 DEF ActorInv, CleanerInv, Commits
<1>4. ActorInv(k)'
  BY <1>1, <1>2, <1>3, WaitingPart DEF UndoneInv, Journal
<1> QED
  BY <1>1, <1>4, QuietStep DEF CommitCleaned

LEMMA ReleaseClaimStep ==
  ASSUME Inv, NEW k \in Actors, ReleaseClaim(k)
  PROVE  Inv' /\ Moves(k)
<1> DEFINE own == {f \in Files : claims[f] = k}
           n == Newest(own)
<1>1. /\ TypeOK /\ ActorInv(k) /\ actor[k].todo \subseteq Journal /\ k <= fence[Workspace]
      /\ actor[k].pc = "releasing" /\ own # {} /\ claims' = [claims EXCEPT ![n] = None]
      /\ UNCHANGED <<leaseVars, batches, disk, edits, actor, listed, committed, late>>
  BY ActorType DEF ReleaseClaim
<1>2. n \in Files /\ claims[n] = k
  BY <1>1, NewestFile
<1> HIDE DEF n, own
<1>3. /\ claims' \in [Files -> Actors \cup {None}]
      /\ \A f \in Files : claims'[f] = IF f = n THEN None ELSE claims[f]
  BY <1>1, <1>2 DEF TypeOK
<1>4. TypeOK'
  BY <1>1, <1>3 DEF TypeOK, leaseVars, FencedLeaseTypeOK
<1>5. ClaimsKept
  <2> SUFFICES ASSUME NEW b \in Journal, HasClaim(b),
                      batches[b].phase = "succeeded", batches[b].tx \in Automatic \ committed
               PROVE  claims'[batches[b].file] = batches[b].tx
    BY <1>1 DEF ClaimsKept
  <2>1. batches[b].tx # k
    BY <1>1 DEF ActorInv, UndoneInv, OwnBatches
  <2>2. batches[b].file \in Files
    BY <1>1, Types
  <2> QED
    BY <1>2, <1>3, <2>1, <2>2 DEF HasClaim
<1>6. RowsGrow(k) /\ \A b \in Journal : RowStep(k, batches[b], batches'[b])
  BY <1>1, Types, SameRow DEF RowsGrow, Journal
<1>7. /\ \A j \in Actors : Current(j)' = Current(j)
      /\ fence[Workspace] <= fence'[Workspace] /\ k <= fence'[Workspace]
  BY <1>1, Types DEF Current, leaseVars
<1>8. Moves(k)
  BY <1>1, <1>2, <1>3, <1>5, <1>6, <1>7 DEF Moves
<1>9. Journal' = Journal /\ OwnBatches(k)' = OwnBatches(k)
  BY <1>1, SameWrites
<1>10. UndoneInv(k)'
  BY <1>1, <1>9 DEF ActorInv, UndoneInv
<1>11. ActorInv(k)'
  BY <1>1, <1>9, <1>10, WaitingPart
<1> QED
  BY <1>4, <1>8, <1>11, MovesInv

LEMMA ReleaseLeaseStep ==
  ASSUME Inv, NEW k \in Actors, ReleaseLease(k)
  PROVE  Inv' /\ Moves(k)
<1>1. /\ TypeOK /\ ActorInv(k) /\ actor[k].todo \subseteq Journal
      /\ actor[k].pc = "releasing" /\ "ended" \in PCs
      /\ leaseVars' = leaseVars \/ (Current(k) /\ Revoke(Workspace))
      /\ UNCHANGED <<claims, batches, disk, edits, listed, committed, late>>
  BY ActorType DEF ReleaseLease, PCs
<1>2. actor'[k].pc = "ended" /\ actor'[k].todo = actor[k].todo
  BY <1>1, GoesTo DEF ReleaseLease
<1>3. ActorInv(k)'
  BY <1>1, <1>2, WaitingPart DEF Gone, Journal
<1> QED
  BY <1>1, <1>3, QuietStep DEF ReleaseLease

-----------------------------------------------------------------------------
(* Sweeps and the environment *)

LEMMA BeginSweepStep ==
  ASSUME Inv, NEW k \in Actors, BeginSweep(k)
  PROVE  Inv' /\ Moves(k)
<1>1. PICK phase \in CleanedPhases :
        /\ listed[phase] # {}
        /\ Acquires(k)
        /\ actor' = [actor EXCEPT ![k] = Works("sweeping", "recover", listed[phase])]
        /\ listed' = [listed EXCEPT ![phase] = {}]
        /\ UNCHANGED <<claims, batches, disk, edits, committed, late>>
  BY DEF BeginSweep
<1> DEFINE s == Works("sweeping", "recover", listed[phase])
<1>2. /\ TypeOK /\ listed[phase] \subseteq Journal /\ Sweeps /\ Journal \subseteq BatchIds
      /\ listed \in [CleanedPhases -> SUBSET BatchIds]
  BY <1>1, Types DEF Inv, ListInv, TypeOK
<1>3. s \in ActorStates
  BY <1>2 DEF Works, Idle, ActorStates, PCs
<1>4. s.pc = "sweeping" /\ s.why = "recover" /\ s.todo = listed[phase]
  BY DEF Works, Idle
<1>5. /\ actor' \in [Actors -> ActorStates] /\ actor'[k] = s
      /\ \A j \in Actors \ {k} : actor'[j] = actor[j]
  BY <1>1, <1>2, <1>3, Becomes
<1> HIDE DEF s
<1>6. /\ listed' \in [CleanedPhases -> SUBSET BatchIds]
      /\ \A p \in CleanedPhases : listed'[p] \in {listed[p], {}}
  BY <1>1, <1>2
<1>7. /\ Moves(k) /\ FencedLeaseTypeOK'
      /\ \A b \in Journal : batches[b].tx # k /\ batches[b].bound # k
  BY <1>1, <1>5, <1>6, AcquireMoves
<1>8. TypeOK' /\ Journal' = Journal
  BY <1>1, <1>2, <1>5, <1>6, <1>7 DEF TypeOK, Journal
<1>9. ActorInv(k)'
  BY <1>1, <1>2, <1>4, <1>5, <1>7, <1>8 DEF ActorInv, TodoInv, WriterInv, CleanerInv, HolderInv,
     UndoneInv, RecovererInv, AttemptInv, Commits, Sweeping, Rolling, Restoring, InBody, Writing
<1> QED
  BY <1>7, <1>8, <1>9, MovesInv

LEMMA EndSweepStep ==
  ASSUME Inv, NEW k \in Actors, EndSweep(k)
  PROVE  Inv' /\ Moves(k)
<1>1. /\ TypeOK /\ ActorInv(k) /\ actor[k].todo \subseteq Journal
      /\ actor[k].pc = "sweeping" /\ "ended" \in PCs
      /\ leaseVars' = leaseVars \/ (Current(k) /\ Revoke(Workspace))
      /\ UNCHANGED <<claims, batches, disk, edits, listed, committed, late>>
  BY ActorType DEF EndSweep, PCs
<1>2. actor'[k].pc = "ended" /\ actor'[k].todo = actor[k].todo
  BY <1>1, GoesTo DEF EndSweep
<1>3. ActorInv(k)'
  BY <1>1, <1>2, WaitingPart DEF Gone, Journal
<1> QED
  BY <1>1, <1>3, QuietStep DEF EndSweep

LEMMA CrashStep ==
  ASSUME Inv, NEW k \in Actors, Crash(k)
  PROVE  Inv' /\ Moves(k)
<1> DEFINE s == [Idle EXCEPT !.pc = "crashed"]
<1>1. /\ TypeOK /\ k <= fence[Workspace] /\ actor' = [actor EXCEPT ![k] = s]
      /\ UNCHANGED <<leaseVars, claims, batches, disk, edits, listed, committed, late>>
  BY ActorType DEF Crash, Gone
<1>2. s \in ActorStates /\ s.pc = "crashed" /\ s.todo = {}
  BY DEF Idle, ActorStates, PCs
<1> HIDE DEF s
<1>3. /\ actor' \in [Actors -> ActorStates] /\ actor'[k] = s
      /\ \A j \in Actors \ {k} : actor'[j] = actor[j]
  BY <1>1, <1>2, Becomes
<1>4. TypeOK'
  BY <1>1, <1>3 DEF TypeOK, leaseVars, FencedLeaseTypeOK
<1>5. Moves(k)
  BY <1>1, <1>3, ActorMoves, Types DEF leaseVars, Current
<1>6. ActorInv(k)'
  BY <1>1, <1>2, <1>3, WaitingPart DEF Gone, Journal
<1> QED
  BY <1>4, <1>5, <1>6, MovesInv

\* What no actor sees.
LEMMA UnseenStep ==
  ASSUME Inv, TypeOK', UNCHANGED <<batches, claims, actor, committed>>, fence' = fence,
         \A k \in Actors : Current(k)' = Current(k), ListInv'
  PROVE  Inv'
<1>1. Journal' = Journal
  BY DEF Journal
<1>2. LeaseInv' /\ ClaimedInv' /\ KeptInv'
  BY <1>1 DEF Inv, LeaseInv, ClaimedInv, KeptInv, HasClaim
<1>3. ASSUME NEW k \in Actors PROVE ActorInv(k)'
  <2>1. ActorInv(k) /\ TypeOK
    BY DEF Inv
  <2>2. OwnBatches(k)' = OwnBatches(k) /\ Writes(k)' = Writes(k)
    BY <2>1, SameWrites
  <2>3. NextToRecover(actor[k].todo)' = NextToRecover(actor[k].todo)
    BY DEF NextToRecover, Newest
  <2>4. TodoInv(k)' /\ WriterInv(k)'
    BY <1>1, <2>1, <2>2, <2>3 DEF ActorInv, TodoInv, WriterInv
  <2>5. CleanerInv(k)'
    BY <1>1, <2>1 DEF ActorInv, CleanerInv, Commits, Sweeping
  <2>6. HolderInv(k)' /\ UndoneInv(k)' /\ RecovererInv(k)' /\ AttemptInv(k)'
    BY <1>1, <2>1, <2>2, <2>3 DEF ActorInv, HolderInv, UndoneInv, RecovererInv, AttemptInv, HoldsAttempt, Target
  <2> QED
    BY <2>4, <2>5, <2>6 DEF ActorInv
<1> QED
  BY <1>2, <1>3 DEF Inv

LEMMA ListArtifactsStep ==
  ASSUME Inv, ListArtifacts
  PROVE  Inv'
<1>1. /\ TypeOK /\ Journal \subseteq BatchIds /\ Sweeps
      /\ listed' = [phase \in CleanedPhases |->
            {b \in Journal : batches[b].phase = phase /\ (batches[b].artifact \/ batches[b].cleaning)}]
      /\ UNCHANGED <<leaseVars, claims, batches, disk, edits, actor, committed, late>>
  BY Types DEF Inv, ListArtifacts
<1>2. \A phase \in CleanedPhases : listed'[phase] \subseteq Journal
  BY <1>1
<1>3. listed' \in [CleanedPhases -> SUBSET BatchIds]
  BY <1>1
<1>4. TypeOK' /\ ListInv'
  BY <1>1, <1>2, <1>3 DEF TypeOK, leaseVars, FencedLeaseTypeOK, ListInv, Journal
<1> QED
  BY <1>1, <1>4, UnseenStep DEF leaseVars, Current

LEMMA EnvironmentStep ==
  ASSUME Inv, (LeaseLapses \/ \E k \in Actors : Heartbeat(k)) \/ \E f \in Files : Edit(f)
  PROVE  Inv'
<1>1. /\ TypeOK /\ ListInv /\ Workspace \in Names /\ Names = {Workspace}
      /\ fence \in [Names -> 0..MaxFence] /\ tenure \in [Names -> Tenures]
  BY Types DEF Inv
<1>2. CASE LeaseLapses \/ \E k \in Actors : Heartbeat(k)
  <2>1. UNCHANGED <<fence, lastWrite, claims, batches, disk, edits, actor, listed, committed, late>>
    BY <1>2 DEF LeaseLapses, Heartbeat, Lapse, Renew
  <2>2. tenure' \in [Names -> Tenures] /\ tenure[Workspace] # "free" /\ tenure'[Workspace] # "free"
    BY <1>1, <1>2 DEF LeaseLapses, Heartbeat, Lapse, Renew, Tenures
  <2>3. TypeOK' /\ ListInv'
    BY <1>1, <2>1, <2>2 DEF TypeOK, FencedLeaseTypeOK, ListInv, Journal
  <2>4. \A k \in Actors : Current(k)' = Current(k)
    BY <2>1, <2>2 DEF Current
  <2> QED
    BY <2>1, <2>3, <2>4, UnseenStep
<1>3. CASE \E f \in Files : Edit(f)
  <2>1. /\ UNCHANGED <<leaseVars, claims, batches, actor, listed, committed, late>>
        /\ disk' \in [Files -> Contents] /\ edits' = edits + 1 /\ edits < MaxEdits
    BY <1>1, <1>3 DEF Edit, TypeOK, Contents
  <2>2. edits' \in 0..MaxEdits
    BY <1>1, <2>1, WorkspaceTransactionsAssumption DEF TypeOK
  <2>3. TypeOK' /\ ListInv'
    BY <1>1, <2>1, <2>2 DEF TypeOK, leaseVars, FencedLeaseTypeOK, ListInv, Journal
  <2> QED
    BY <2>1, <2>3, UnseenStep DEF leaseVars, Current
<1> QED
  BY <1>2, <1>3

-----------------------------------------------------------------------------
(* Recovery *)

\* The part of an actor that goes on with its recoveries: what leaves its list
\* is done or has failed.
LEMMA RollerPart ==
  ASSUME Inv, NEW k \in Actors, actor[k].pc \in Rolling, actor'[k].pc \in Rolling,
         actor'[k].why = actor[k].why, actor'[k].todo \subseteq actor[k].todo,
         actor[k].failed \subseteq actor'[k].failed,
         actor'[k].pc # "rolling" => actor'[k].todo # {},
         actor'[k].pc = "settling" =>
            batches'[NextToRecover(actor[k].todo)].phase = "recovery_succeeded"
              /\ actor'[k].todo = actor[k].todo,
         AttemptInv(k)',
         Len(batches') = Len(batches), committed' = committed, Current(k)' => Current(k),
         \A b \in Journal :
            /\ batches'[b].tx = batches[b].tx
            /\ batches'[b].phase = "succeeded" => batches[b].phase = "succeeded"
            /\ batches'[b].phase \in Unfinished =>
                  batches[b].phase \in Unfinished \/ b \in actor'[k].todo,
         \A b \in actor[k].todo \ actor'[k].todo : actor[k].why = "recover" =>
            /\ batches'[b].phase # "succeeded"
            /\ batches'[b].phase \in Unfinished => b \in actor'[k].failed
  PROVE  ActorInv(k)'
<1>1. TypeOK /\ ActorInv(k) /\ actor[k].todo \subseteq Journal
  BY ActorType
<1>2. OwnBatches(k)' = OwnBatches(k) /\ Journal' = Journal
  BY <1>1, SameWrites
<1>3. NextToRecover(actor[k].todo)' = NextToRecover(actor'[k].todo)
  BY DEF NextToRecover, Newest
<1>4. TodoInv(k)'
  BY <1>1, <1>2, <1>3 DEF TodoInv, Rolling, Restoring
<1>5. WriterInv(k)' /\ CleanerInv(k)' /\ HolderInv(k)'
  BY DEF WriterInv, CleanerInv, HolderInv, Commits, Sweeping, Rolling, Restoring, InBody, Writing
<1>6. UndoneInv(k)'
  BY <1>1, <1>2 DEF ActorInv, UndoneInv, OwnBatches, Rolling, Restoring
<1>7. RecovererInv(k)'
  <2> SUFFICES ASSUME Current(k), actor[k].why = "recover", NEW b \in Journal
               PROVE  /\ batches'[b].phase \in Unfinished => b \in actor'[k].todo \cup actor'[k].failed
                      /\ (batches'[b].phase = "succeeded" /\ batches'[b].tx \in Automatic \ committed')
                            => b \in actor'[k].todo
    BY <1>2 DEF RecovererInv
  <2>1. /\ batches[b].phase \in Unfinished => b \in actor[k].todo \cup actor[k].failed
        /\ (batches[b].phase = "succeeded" /\ batches[b].tx \in Automatic \ committed)
              => b \in actor[k].todo
    BY <1>1 DEF ActorInv, RecovererInv
  <2> QED
    BY <2>1
<1> QED
  BY <1>4, <1>5, <1>6, <1>7 DEF ActorInv

LEMMA RecoverStep ==
  ASSUME Inv, NEW k \in Actors, Recover(k)
  PROVE  Inv' /\ Moves(k)
<1>1. TypeOK /\ actor[k].todo \subseteq Journal
  BY ActorType
<1>2. /\ actor' \in [Actors -> ActorStates] /\ actor'[k].pc = "listing"
      /\ actor'[k].todo = actor[k].todo /\ \A j \in Actors \ {k} : actor'[j] = actor[j]
  BY <1>1, GoesTo DEF Recover, PCs
<1>3. Moves(k) /\ FencedLeaseTypeOK'
  BY <1>2, AcquireMoves DEF Recover
<1>4. TypeOK' /\ Journal' = Journal
  BY <1>1, <1>2, <1>3 DEF TypeOK, Recover, Journal
<1>5. ActorInv(k)'
  BY <1>1, <1>2, <1>4, WaitingPart
<1> QED
  BY <1>3, <1>4, <1>5, MovesInv

\* The list of a recovery holds all that may need it.
LEMMA ListPendingStep ==
  ASSUME Inv, NEW k \in Actors, ListPending(k)
  PROVE  Inv' /\ Moves(k)
<1> DEFINE T == {b \in Journal : IsPending(b)}
           A == {b \in Journal : batches[b].phase = "attempting"}
           s == [Works("rolling", "recover", T) EXCEPT !.active = A]
<1>1. /\ TypeOK /\ ClaimedInv /\ k <= fence[Workspace] /\ Journal \subseteq BatchIds
      /\ actor' = [actor EXCEPT ![k] = s]
      /\ UNCHANGED <<leaseVars, claims, batches, disk, edits, listed, committed, late>>
  BY ActorType, Types DEF ListPending, Inv
<1>2. T \subseteq Journal /\ A \subseteq Journal
  OBVIOUS
<1>4. \A b \in Journal :
         /\ batches[b].phase \in Unfinished => b \in T
         /\ (batches[b].phase = "succeeded" /\ batches[b].tx \in Automatic \ committed) => b \in T
  BY <1>1 DEF ClaimedInv, IsPending
<1> HIDE DEF T, A
<1>3. s \in ActorStates /\ s.pc = "rolling" /\ s.why = "recover" /\ s.todo = T
  BY <1>1, <1>2 DEF ActorStates, PCs, Works, Idle
<1> HIDE DEF s
<1>5. /\ actor' \in [Actors -> ActorStates] /\ actor'[k] = s
      /\ \A j \in Actors \ {k} : actor'[j] = actor[j]
  BY <1>1, <1>3, Becomes
<1>6. TypeOK'
  BY <1>1, <1>5 DEF TypeOK, leaseVars, FencedLeaseTypeOK
<1>7. Moves(k)
  BY <1>1, <1>5, ActorMoves, Types DEF leaseVars, Current
<1>8. RecovererInv(k)'
  BY <1>1, <1>3, <1>4, <1>5 DEF RecovererInv, Journal
<1>9. ActorInv(k)'
  BY <1>1, <1>2, <1>3, <1>5, <1>8 DEF ActorInv, TodoInv, WriterInv, CleanerInv, HolderInv, UndoneInv,
     AttemptInv, Commits, Sweeping, Rolling, Restoring, InBody, Writing, Journal
<1> QED
  BY <1>6, <1>7, <1>9, MovesInv

\* The batch a recovery is at.
LEMMA TargetOf ==
  ASSUME Inv, NEW k \in Actors,
         actor[k].todo # {} \/ actor[k].pc \in {"inspected", "settling"} \cup Restoring
  PROVE  /\ actor[k].todo # {} /\ Target(k) \in actor[k].todo
         /\ Target(k) \in Journal /\ Target(k) \in BatchIds
         /\ batches[Target(k)] \in Batches /\ batches[Target(k)].file \in Files
         /\ disk[batches[Target(k)].file] \in Contents
<1>1. TypeOK /\ actor[k].todo \subseteq Journal /\ actor[k].todo # {} /\ actor[k].todo \subseteq BatchIds
  BY ActorType DEF ActorInv, TodoInv
<1> QED
  BY <1>1, TodoEnds, Types DEF Target

\* It stays the same as long as the list does.
LEMMA SameTarget ==
  ASSUME NEW k, actor'[k].todo = actor[k].todo
  PROVE  Target(k)' = Target(k)
BY DEF Target, NextToRecover, Newest

\* One actor goes on and notes something.
LEMMA NotesTo ==
  ASSUME TypeOK, NEW k \in Actors, NEW pc \in PCs, NEW value \in Snapshots \cup {None},
         Notes(k, pc, value)
  PROVE  /\ actor' \in [Actors -> ActorStates] /\ actor'[k].pc = pc /\ actor'[k].memo = value
         /\ actor'[k].why = actor[k].why /\ actor'[k].todo = actor[k].todo
         /\ actor'[k].failed = actor[k].failed
         /\ \A j \in Actors \ {k} : actor'[j] = actor[j]
<1>1. actor \in [Actors -> ActorStates] /\ actor[k] \in ActorStates
  BY DEF TypeOK
<1> DEFINE s == [actor[k] EXCEPT !.pc = pc, !.memo = value]
<1>2. actor' = [actor EXCEPT ![k] = s]
  BY <1>1 DEF Notes
<1>3. s \in ActorStates /\ s.pc = pc /\ s.why = actor[k].why /\ s.todo = actor[k].todo
      /\ s.failed = actor[k].failed /\ s.memo = value
  BY <1>1 DEF ActorStates
<1> HIDE DEF s
<1> QED
  BY <1>2, <1>3, Becomes

\* A batch is done with and has failed.
LEMMA GivesUpTo ==
  ASSUME Inv, NEW k \in Actors, actor[k].todo # {}, GivesUp(k)
  PROVE  /\ actor' \in [Actors -> ActorStates] /\ actor'[k].pc = "rolling"
         /\ actor'[k].why = actor[k].why /\ actor'[k].todo = actor[k].todo \ {Target(k)}
         /\ actor'[k].failed = actor[k].failed \cup {Target(k)} /\ actor'[k].memo = None
         /\ \A j \in Actors \ {k} : actor'[j] = actor[j]
<1> DEFINE T == actor[k].todo \ {Target(k)}
           A == actor[k].active \ {Target(k)}
           F == actor[k].failed \cup {Target(k)}
           s == [actor[k] EXCEPT !.pc = "rolling", !.todo = T, !.active = A, !.failed = F, !.memo = None]
<1>1. TypeOK /\ actor[k] \in ActorStates /\ actor' = [actor EXCEPT ![k] = s]
  BY ActorType DEF GivesUp, TypeOK
<1>2. T \in SUBSET BatchIds /\ A \in SUBSET BatchIds /\ F \in SUBSET BatchIds
  BY ActorType, TargetOf
<1> HIDE DEF T, A, F
<1>3. s \in ActorStates /\ s.pc = "rolling" /\ s.why = actor[k].why /\ s.todo = T /\ s.failed = F
      /\ s.memo = None
  BY <1>1, <1>2 DEF ActorStates, PCs
<1> HIDE DEF s
<1> QED
  BY <1>1, <1>3, Becomes DEF T, F

\* A step of a recovery that leaves its batch and its list alone.
LEMMA RollerStays ==
  ASSUME Inv, NEW k \in Actors, actor[k].pc \in Rolling, actor[k].todo # {},
         actor' \in [Actors -> ActorStates], actor'[k].pc \in Rolling,
         actor'[k].why = actor[k].why, actor'[k].todo = actor[k].todo,
         actor'[k].failed = actor[k].failed,
         \A j \in Actors \ {k} : actor'[j] = actor[j],
         UNCHANGED <<leaseVars, claims, batches, disk, edits, listed, committed, late>>,
         actor'[k].pc = "settling" => batches[Target(k)].phase = "recovery_succeeded",
         actor'[k].pc \in Restoring => actor[k].pc \in Restoring
  PROVE  Inv' /\ Moves(k)
<1>1. TypeOK /\ ActorInv(k) /\ k <= fence[Workspace]
  BY ActorType DEF Rolling, Restoring
<1>2. fence' = fence /\ \A j \in Actors : Current(j)' = Current(j)
  BY DEF Current, leaseVars
<1>3. TypeOK'
  BY <1>1 DEF TypeOK, leaseVars, FencedLeaseTypeOK
<1>4. Moves(k)
  BY <1>1, <1>2, ActorMoves
<1>5. AttemptInv(k)'
  BY <1>1, <1>2, SameTarget DEF ActorInv, AttemptInv, HoldsAttempt
<1>6. ActorInv(k)'
  BY <1>2, <1>5, RollerPart DEF Target
<1> QED
  BY <1>3, <1>4, <1>6, MovesInv

\* A batch fails without a record of it.
LEMMA RollerGivesUp ==
  ASSUME Inv, NEW k \in Actors, actor[k].pc \in Rolling, actor[k].todo # {}, GivesUp(k),
         actor[k].why = "recover" => batches[Target(k)].phase # "succeeded",
         UNCHANGED <<leaseVars, claims, batches, disk, edits, listed, committed, late>>
  PROVE  Inv' /\ Moves(k)
<1>1. TypeOK /\ k <= fence[Workspace]
  BY ActorType DEF Rolling, Restoring
<1>2. fence' = fence /\ \A j \in Actors : Current(j)' = Current(j)
  BY DEF Current, leaseVars
<1>3. /\ actor' \in [Actors -> ActorStates] /\ actor'[k].pc = "rolling"
      /\ actor'[k].why = actor[k].why /\ actor'[k].todo = actor[k].todo \ {Target(k)}
      /\ actor'[k].failed = actor[k].failed \cup {Target(k)}
      /\ \A j \in Actors \ {k} : actor'[j] = actor[j]
  BY GivesUpTo
<1>4. TypeOK'
  BY <1>1, <1>3 DEF TypeOK, leaseVars, FencedLeaseTypeOK
<1>5. Moves(k)
  BY <1>1, <1>2, <1>3, ActorMoves
<1>6. "rolling" \in Rolling /\ "rolling" \notin Restoring
  BY DEF Rolling, Restoring
<1>7. AttemptInv(k)'
  BY <1>3, <1>6 DEF AttemptInv
<1>8. /\ \A b \in actor[k].todo \ actor'[k].todo : b = Target(k) /\ b \in actor'[k].failed
      /\ actor'[k].todo \subseteq actor[k].todo /\ actor[k].failed \subseteq actor'[k].failed
  BY <1>3
<1>9. ActorInv(k)'
  BY <1>2, <1>3, <1>6, <1>7, <1>8, RollerPart
<1> QED
  BY <1>4, <1>5, <1>9, MovesInv

\* A step of a recovery that writes its batch.
LEMMA RecoveryWrite ==
  ASSUME Inv, NEW k \in Actors, actor[k].pc \in Rolling, actor[k].todo # {},
         NEW b, b = Target(k), NEW row \in Batches, SetBatch(b, row),
         RowStep(k, batches[b], row),
         UNCHANGED <<leaseVars, claims, disk, edits, listed, committed, late>>,
         actor' \in [Actors -> ActorStates], \A j \in Actors \ {k} : actor'[j] = actor[j],
         actor'[k].pc \in Rolling, actor'[k].why = actor[k].why,
         \/ actor'[k].todo = actor[k].todo /\ actor'[k].failed = actor[k].failed
         \/ /\ actor'[k].pc = "rolling"
            /\ actor'[k].todo = actor[k].todo \ {b}
            /\ actor'[k].failed = actor[k].failed \cup {b},
         row.phase # "succeeded",
         actor'[k].pc = "settling" => row.phase = "recovery_succeeded" /\ actor'[k].todo = actor[k].todo,
         actor'[k].pc \in Restoring => Current(k) /\ row.bound = k /\ row.phase = "recovering",
         row.phase \in Unfinished => batches[b].phase \in Unfinished \/ b \in actor'[k].todo
  PROVE  Inv' /\ Moves(k)
<1>1. TypeOK /\ k <= fence[Workspace] /\ actor[k].todo \subseteq Journal
  BY ActorType DEF Rolling, Restoring
<1>2. b \in Journal /\ b \in actor[k].todo
  BY <1>1, TargetOf
<1>3. Moves(k) /\ TypeOK'
  BY <1>1, <1>2, RowMoves, RowTypeOK
<1>4. /\ Len(batches') = Len(batches) /\ batches'[b] = row
      /\ \A c \in Journal : c # b => batches'[c] = batches[c]
  BY <1>1, <1>2, OneRow
<1>5. Current(k)' = Current(k) /\ committed' = committed
  BY DEF Current, leaseVars
<1>6. \A c \in Journal :
         /\ batches'[c].tx = batches[c].tx
         /\ batches'[c].phase = "succeeded" => batches[c].phase = "succeeded"
         /\ batches'[c].phase \in Unfinished =>
               batches[c].phase \in Unfinished \/ c \in actor'[k].todo
  BY <1>2, <1>4 DEF RowStep
<1>7. /\ actor'[k].todo \subseteq actor[k].todo /\ actor[k].failed \subseteq actor'[k].failed
      /\ actor'[k].pc # "rolling" => actor'[k].todo # {}
  OBVIOUS
<1>8. \A c \in actor[k].todo \ actor'[k].todo :
         /\ batches'[c].phase # "succeeded"
         /\ batches'[c].phase \in Unfinished => c \in actor'[k].failed
  BY <1>4
<1>9. AttemptInv(k)'
  <2>1. CASE actor'[k].pc \in Restoring
    <3>1. actor'[k].todo = actor[k].todo
      BY <2>1 DEF Restoring
    <3>2. Target(k)' = b
      BY <3>1, SameTarget
    <3> QED
      BY <1>4, <1>5, <2>1, <3>2 DEF AttemptInv, HoldsAttempt
  <2> QED
    BY <2>1 DEF AttemptInv
<1>10. actor'[k].pc = "settling" =>
          batches'[NextToRecover(actor[k].todo)].phase = "recovery_succeeded"
            /\ actor'[k].todo = actor[k].todo
  BY <1>4 DEF Target
<1>11. ActorInv(k)'
  BY <1>1, <1>4, <1>5, <1>6, <1>7, <1>8, <1>9, <1>10, RollerPart
<1> QED
  BY <1>3, <1>11, MovesInv

LEMMA SkipRecoveredStep ==
  ASSUME Inv, NEW k \in Actors, SkipRecovered(k)
  PROVE  Inv' /\ Moves(k)
<1>1. /\ TypeOK /\ actor[k].pc = "rolling" /\ actor[k].todo # {} /\ Goes(k, "settling")
      /\ batches[Target(k)].phase = "recovery_succeeded"
      /\ UNCHANGED <<leaseVars, claims, batches, disk, edits, listed, committed, late>>
  BY DEF SkipRecovered, AtBatch, Inv
<1>2. "settling" \in PCs /\ "settling" \in Rolling /\ "settling" \notin Restoring /\ "rolling" \in Rolling
  BY DEF PCs, Rolling, Restoring
<1> QED
  BY <1>1, <1>2, GoesTo, RollerStays

LEMMA InspectStep ==
  ASSUME Inv, NEW k \in Actors, Inspect(k)
  PROVE  Inv' /\ Moves(k)
<1>1. /\ TypeOK /\ actor[k].pc = "rolling" /\ actor[k].todo # {}
      /\ Notes(k, "inspected", Snapshot(batches[Target(k)]))
      /\ UNCHANGED <<leaseVars, claims, batches, disk, edits, listed, committed, late>>
  BY DEF Inspect, AtBatch, Inv
<1>2. "inspected" \in PCs /\ "inspected" \in Rolling /\ "inspected" \notin Restoring /\ "rolling" \in Rolling
  BY DEF PCs, Rolling, Restoring
<1>3. Snapshot(batches[Target(k)]) \in Snapshots
  BY <1>1, TargetOf, SnapshotType
<1> QED
  BY <1>1, <1>2, <1>3, NotesTo, RollerStays

LEMMA TakeOverStep ==
  ASSUME Inv, NEW k \in Actors, TakeOver(k)
  PROVE  Inv' /\ Moves(k)
<1> DEFINE b == Target(k)
           row == batches[b]
           new == [row EXCEPT !.phase = "recovery_desired", !.bound = k,
                              !.failure = actor[k].memo, !.preparing = FALSE]
           A == actor[k].active \ {b}
           s == [actor[k] EXCEPT !.pc = "rolling", !.active = A, !.memo = None]
<1>1. /\ TypeOK /\ actor[k].pc = "inspected" /\ Current(k) /\ row.phase \in {"attempting", "recovering"}
      /\ actor[k] \in ActorStates /\ actor[k].memo \in Snapshots \cup {None} /\ A \in SUBSET BatchIds
      /\ SetBatch(b, new) /\ actor' = [actor EXCEPT ![k] = s]
      /\ UNCHANGED <<leaseVars, claims, disk, edits, listed, committed, late>>
  BY ActorType DEF TakeOver, TypeOK
<1>2. row \in Batches /\ b \in actor[k].todo /\ actor[k].todo # {}
  BY <1>1, TargetOf
<1>3. /\ new \in Batches /\ new.phase = "recovery_desired" /\ new.bound = k /\ new.tx = row.tx
      /\ new.file = row.file /\ new.proof = row.proof /\ new.artifact = row.artifact
      /\ new.before = row.before
  BY <1>1, <1>2 DEF Batches, Phases
<1>4. RowStep(k, row, new)
  BY <1>1, <1>3 DEF RowStep, RowKept, Unfinished
<1> HIDE DEF A
<1>5. s \in ActorStates /\ s.pc = "rolling" /\ s.why = actor[k].why /\ s.todo = actor[k].todo
      /\ s.failed = actor[k].failed
  BY <1>1 DEF ActorStates, PCs
<1> HIDE DEF s, new, b
<1>6. /\ actor' \in [Actors -> ActorStates] /\ actor'[k] = s
      /\ \A j \in Actors \ {k} : actor'[j] = actor[j]
  BY <1>1, <1>5, Becomes
<1>7. "rolling" \in Rolling /\ "inspected" \in Rolling /\ "rolling" \notin Restoring
  BY DEF Rolling, Restoring
<1> QED
  BY <1>1, <1>2, <1>3, <1>4, <1>5, <1>6, <1>7, RecoveryWrite DEF b

LEMMA PassOverStep ==
  ASSUME Inv, NEW k \in Actors, PassOver(k)
  PROVE  Inv' /\ Moves(k)
<1>1. actor[k].pc \in Rolling
  BY DEF PassOver, Rolling
<1> QED
  BY <1>1, RollerGivesUp DEF PassOver

LEMMA AskAgainStep ==
  ASSUME Inv, NEW k \in Actors, AskAgain(k)
  PROVE  Inv' /\ Moves(k)
<1> DEFINE b == Target(k)
           row == batches[b]
           new == [row EXCEPT !.phase = "recovery_desired", !.bound = k]
<1>1. /\ TypeOK /\ actor[k].pc = "rolling" /\ Current(k) /\ row.phase \in {"recovery_failed", "succeeded"}
      /\ actor[k].todo # {} /\ SetBatch(b, new)
      /\ UNCHANGED <<leaseVars, claims, disk, edits, actor, listed, committed, late>>
  BY DEF AskAgain, AtBatch, Inv
<1>2. row \in Batches /\ b \in actor[k].todo
  BY <1>1, TargetOf
<1>3. /\ new \in Batches /\ new.phase = "recovery_desired" /\ new.bound = k /\ new.tx = row.tx
      /\ new.file = row.file /\ new.proof = row.proof /\ new.artifact = row.artifact
      /\ new.before = row.before
  BY <1>1, <1>2 DEF Batches, Phases
<1>4. RowStep(k, row, new)
  BY <1>1, <1>3 DEF RowStep, RowKept, Unfinished
<1> HIDE DEF new, b
<1>5. "rolling" \in Rolling /\ "rolling" \notin Restoring /\ actor' \in [Actors -> ActorStates]
  BY <1>1 DEF Rolling, Restoring, TypeOK
<1> QED
  BY <1>1, <1>2, <1>3, <1>4, <1>5, RecoveryWrite DEF b

LEMMA StartRecoveryStep ==
  ASSUME Inv, NEW k \in Actors, StartRecovery(k)
  PROVE  Inv' /\ Moves(k)
<1> DEFINE b == Target(k)
           row == batches[b]
           new == [row EXCEPT !.phase = "recovering", !.bound = k]
<1>1. /\ TypeOK /\ actor[k].pc = "rolling" /\ Current(k) /\ row.phase = "recovery_desired"
      /\ actor[k].todo # {} /\ SetBatch(b, new) /\ Goes(k, "restoring")
      /\ UNCHANGED <<leaseVars, claims, disk, edits, listed, committed, late>>
  BY DEF StartRecovery, AtBatch, Inv
<1>2. row \in Batches /\ b \in actor[k].todo
  BY <1>1, TargetOf
<1>3. /\ new \in Batches /\ new.phase = "recovering" /\ new.bound = k /\ new.tx = row.tx
      /\ new.file = row.file /\ new.proof = row.proof /\ new.artifact = row.artifact
      /\ new.before = row.before
  BY <1>1, <1>2 DEF Batches, Phases
<1>4. RowStep(k, row, new)
  BY <1>1, <1>3 DEF RowStep, RowKept, Unfinished
<1> HIDE DEF new, b
<1>5. "rolling" \in Rolling /\ "restoring" \in Rolling /\ "restoring" \in PCs
  BY DEF Rolling, Restoring, PCs
<1>6. /\ actor' \in [Actors -> ActorStates] /\ actor'[k].pc = "restoring"
      /\ actor'[k].why = actor[k].why /\ actor'[k].todo = actor[k].todo
      /\ actor'[k].failed = actor[k].failed
      /\ \A j \in Actors \ {k} : actor'[j] = actor[j]
  BY <1>1, <1>5, GoesTo
<1> QED
  BY <1>1, <1>2, <1>3, <1>4, <1>5, <1>6, RecoveryWrite DEF b

LEMMA SkipUnprovenStep ==
  ASSUME Inv, NEW k \in Actors, SkipUnproven(k)
  PROVE  Inv' /\ Moves(k)
<1>1. actor[k].pc \in Rolling
  BY DEF SkipUnproven, AtBatch, Rolling
<1> QED
  BY <1>1, RollerGivesUp DEF SkipUnproven, AtBatch

\* What the evidence expects is something that can be in a file.
LEMMA ExpectedType ==
  ASSUME NEW row \in Batches, NEW b \in BatchIds
  PROVE  ExpectedCurrent(row, b) \in Snapshots \cup {None}
BY DEF ExpectedCurrent, Batches, Snapshots, Contents

LEMMA CheckAttemptStep ==
  ASSUME Inv, NEW k \in Actors, CheckAttempt(k)
  PROVE  Inv' /\ Moves(k)
<1> DEFINE b == Target(k)
           row == batches[b]
<1>1. /\ TypeOK /\ actor[k].pc = "restoring"
      /\ UNCHANGED <<leaseVars, claims, batches, disk, edits, listed, committed, late>>
  BY DEF CheckAttempt, Inv
<1>2. \A pc \in {"restoring", "authorized", "restored", "refused"} :
         pc \in PCs /\ pc \in Rolling /\ pc \in Restoring /\ pc # "settling"
  BY DEF PCs, Rolling, Restoring
<1>3. row \in Batches /\ b \in BatchIds /\ actor[k].todo # {}
  BY <1>1, <1>2, TargetOf
<1>4. CASE Notes(k, "authorized", ExpectedCurrent(row, b))
  BY <1>1, <1>2, <1>3, <1>4, ExpectedType, NotesTo, RollerStays
<1>5. CASE Goes(k, IF HasNoop(row) THEN "restored" ELSE "refused")
  BY <1>1, <1>2, <1>3, <1>5, GoesTo, RollerStays
<1> QED
  BY <1>4, <1>5 DEF CheckAttempt

LEMMA CompareStep ==
  ASSUME Inv, NEW k \in Actors, Compare(k)
  PROVE  Inv' /\ Moves(k)
<1>1. /\ TypeOK /\ actor[k].pc = "authorized"
      /\ UNCHANGED <<leaseVars, claims, batches, disk, edits, listed, committed, late>>
  BY DEF Compare, Inv
<1>2. \A pc \in {"authorized", "writing", "restored", "refused"} :
         pc \in PCs /\ pc \in Rolling /\ pc \in Restoring /\ pc # "settling"
  BY DEF PCs, Rolling, Restoring
<1>3. actor[k].todo # {} /\ disk[batches[Target(k)].file] \in Snapshots
  BY <1>1, <1>2, TargetOf DEF Snapshots
<1>4. ASSUME NEW pc \in {"writing", "restored", "refused"}, NEW value \in Snapshots \cup {None},
             Notes(k, pc, value)
      PROVE  Inv' /\ Moves(k)
  BY <1>1, <1>2, <1>3, <1>4, NotesTo, RollerStays
<1> QED
  BY <1>3, <1>4 DEF Compare

LEMMA VerifyStep ==
  ASSUME Inv, NEW k \in Actors, Verify(k)
  PROVE  Inv' /\ Moves(k)
<1>1. /\ TypeOK /\ actor[k].pc = "written"
      /\ UNCHANGED <<leaseVars, claims, batches, disk, edits, listed, committed, late>>
  BY DEF Verify, Inv
<1>2. \A pc \in {"written", "restored", "refused"} :
         pc \in PCs /\ pc \in Rolling /\ pc \in Restoring /\ pc # "settling"
  BY DEF PCs, Rolling, Restoring
<1>3. actor[k].todo # {}
  BY <1>1, <1>2, TargetOf
<1>4. PICK pc \in {"restored", "refused"} : Goes(k, pc)
  BY DEF Verify
<1> QED
  BY <1>1, <1>2, <1>3, <1>4, GoesTo, RollerStays

\* What a restore writes down in the rows of its file.
LEMMA RenewedRows ==
  ASSUME TypeOK, NEW c, Renews(c)
  PROVE  /\ batches' \in Seq(Batches) /\ Len(batches') = Len(batches) /\ Journal' = Journal
         /\ \A b \in Journal :
              LET old == batches[b]
                  new == batches'[b]
              IN  /\ new \in Batches /\ new.tx = old.tx /\ new.file = old.file /\ new.phase = old.phase
                  /\ new.bound = old.bound /\ new.before = old.before /\ new.proof = old.proof
                  /\ new.artifact = old.artifact /\ new.after = old.after /\ new.failure = old.failure
                  /\ new.preparing = old.preparing /\ new.seen = old.seen
                  /\ new.cleaning = old.cleaning
                  /\ new.rewritten = (old.rewritten
                       \/ (b = c /\ old.phase # "planned"))
                  /\ new.renewed = (old.renewed
                       \/ (old.file = batches[c].file /\ old.phase # "planned"))
<1>1. Len(batches) \in Nat /\ \A b \in Journal : batches[b] \in Batches
  BY Types
<1>2. ASSUME NEW b \in Journal
      PROVE  LET old == batches[b]
                 new == batches'[b]
             IN  /\ new \in Batches /\ new.tx = old.tx /\ new.file = old.file /\ new.phase = old.phase
                 /\ new.bound = old.bound /\ new.before = old.before /\ new.proof = old.proof
                 /\ new.artifact = old.artifact /\ new.after = old.after /\ new.failure = old.failure
                 /\ new.preparing = old.preparing /\ new.seen = old.seen
                 /\ new.cleaning = old.cleaning
                 /\ new.rewritten = (old.rewritten
                      \/ (b = c /\ old.phase # "planned"))
                 /\ new.renewed = (old.renewed
                      \/ (old.file = batches[c].file /\ old.phase # "planned"))
  <2> DEFINE old == batches[b]
             r == old.rewritten \/ b = c
  <2>1. old \in Batches /\ r \in BOOLEAN /\ old.rewritten \in BOOLEAN /\ old.renewed \in BOOLEAN
    BY <1>1 DEF Batches
  <2>2. CASE old.file = batches[c].file /\ old.phase # "planned"
    <3>1. batches'[b] = [old EXCEPT !.renewed = TRUE, !.rewritten = r]
      BY <2>2 DEF Renews
    <3> HIDE DEF r
    <3>2. /\ batches'[b] \in Batches /\ batches'[b].renewed = TRUE /\ batches'[b].rewritten = r
          /\ \A x \in {"tx", "file", "phase", "bound", "before", "proof", "artifact", "after", "failure",
                       "preparing", "seen", "cleaning"} : batches'[b][x] = old[x]
      BY <2>1, <3>1 DEF Batches
    <3> QED
      BY <2>1, <2>2, <3>2 DEF r
  <2>3. CASE ~(old.file = batches[c].file /\ old.phase # "planned")
    <3>1. batches'[b] = old
      BY <2>3 DEF Renews
    <3>2. ~(b = c /\ old.phase # "planned")
      BY <2>3
    <3> QED
      BY <2>1, <2>3, <3>1, <3>2
  <2> QED
    BY <2>2, <2>3
<1>3. batches' \in [1..Len(batches) -> Batches]
  <2>1. DOMAIN batches' = 1..Len(batches) /\ batches' = [b \in 1..Len(batches) |-> batches'[b]]
    BY DEF Renews, Journal
  <2> QED
    BY <1>2, <2>1 DEF Journal
<1>4. batches' \in Seq(Batches) /\ Len(batches') = Len(batches)
  BY <1>1, <1>3, AsJournal
<1> QED
  BY <1>2, <1>4 DEF Journal

LEMMA WriteBackStep ==
  ASSUME Inv, NEW k \in Actors, WriteBack(k)
  PROVE  Inv' /\ Moves(k)
<1> DEFINE b == Target(k)
           row == batches[b]
<1>1. /\ TypeOK /\ ActorInv(k) /\ k <= fence[Workspace] /\ actor[k].pc = "writing" /\ fence[Workspace] \in Nat
      /\ disk' = [disk EXCEPT ![row.file] = row.before] /\ Renews(b)
      /\ late' = LateBy(k, b) /\ Notes(k, "written", None)
      /\ UNCHANGED <<leaseVars, claims, edits, listed, committed>>
  BY ActorType DEF WriteBack, WriteBackOf
<1>2. "written" \in PCs /\ "written" \in Rolling /\ "written" \in Restoring /\ "writing" \in Rolling
      /\ "writing" \in Restoring /\ "written" # "settling"
  BY DEF PCs, Rolling, Restoring
<1>3. b \in Journal /\ b \in BatchIds /\ row \in Batches /\ actor[k].todo # {}
  BY <1>1, <1>2, TargetOf
<1>4. /\ actor' \in [Actors -> ActorStates] /\ actor'[k].pc = "written"
      /\ actor'[k].why = actor[k].why /\ actor'[k].todo = actor[k].todo
      /\ actor'[k].failed = actor[k].failed
      /\ \A j \in Actors \ {k} : actor'[j] = actor[j]
  BY <1>1, <1>2, NotesTo
<1>5. /\ batches' \in Seq(Batches) /\ Len(batches') = Len(batches) /\ Journal' = Journal
      /\ \A c \in Journal : LET old == batches[c] new == batches'[c]
            IN /\ new.tx = old.tx /\ new.file = old.file /\ new.phase = old.phase
               /\ new.bound = old.bound /\ new.before = old.before /\ new.proof = old.proof
               /\ new.artifact = old.artifact
  BY <1>1, RenewedRows
<1>6. disk' \in [Files -> Contents] /\ late' \subseteq BatchIds
  <2>1. disk \in [Files -> Contents] /\ late \subseteq BatchIds /\ row.before \in Contents
    BY <1>1, <1>3 DEF TypeOK, Batches
  <2> QED
    BY <1>1, <1>3, <2>1 DEF LateBy
<1> HIDE DEF b
<1>7. TypeOK'
  BY <1>1, <1>4, <1>5, <1>6 DEF TypeOK, leaseVars, FencedLeaseTypeOK
<1>8. fence' = fence /\ \A j \in Actors : Current(j)' = Current(j)
  BY <1>1 DEF Current, leaseVars
<1>9. \A c \in Journal : RowStep(k, batches[c], batches'[c])
  BY <1>5 DEF RowStep, RowKept
<1>10. RowsGrow(k) /\ ClaimsKept
  BY <1>1, <1>5, Types DEF RowsGrow, ClaimsKept, HasClaim, Journal
<1>11. Moves(k)
  BY <1>1, <1>4, <1>8, <1>9, <1>10 DEF Moves
<1>12. AttemptInv(k)'
  BY <1>1, <1>2, <1>3, <1>4, <1>5, <1>8, SameTarget DEF ActorInv, AttemptInv, HoldsAttempt, b
<1>13. ActorInv(k)'
  BY <1>1, <1>2, <1>3, <1>4, <1>5, <1>8, <1>12, RollerPart
<1> QED
  BY <1>7, <1>11, <1>13, MovesInv

LEMMA RecoveryFailsStep ==
  ASSUME Inv, NEW k \in Actors, RecoveryFails(k)
  PROVE  Inv' /\ Moves(k)
<1> DEFINE b == Target(k)
           row == batches[b]
           new == [row EXCEPT !.phase = "recovery_failed"]
<1>1. /\ TypeOK /\ actor[k].pc = "refused" /\ Current(k) /\ row.bound = k /\ row.phase = "recovering"
      /\ SetBatch(b, new) /\ GivesUp(k)
      /\ UNCHANGED <<leaseVars, claims, disk, edits, listed, committed, late>>
  BY DEF RecoveryFails, HoldsAttempt, Inv
<1>2. "rolling" \in Rolling /\ "refused" \in Rolling /\ "refused" \in Restoring /\ "rolling" \notin Restoring
  BY DEF Rolling, Restoring
<1>3. row \in Batches /\ b \in actor[k].todo /\ actor[k].todo # {}
  BY <1>1, <1>2, TargetOf
<1>4. /\ new \in Batches /\ new.phase = "recovery_failed" /\ new.bound = k /\ new.tx = row.tx
      /\ new.file = row.file /\ new.proof = row.proof /\ new.artifact = row.artifact
      /\ new.before = row.before
  BY <1>1, <1>3 DEF Batches, Phases
<1>5. RowStep(k, row, new)
  BY <1>1, <1>4 DEF RowStep, RowKept, Unfinished
<1>6. /\ actor' \in [Actors -> ActorStates] /\ actor'[k].pc = "rolling"
      /\ actor'[k].why = actor[k].why /\ actor'[k].todo = actor[k].todo \ {b}
      /\ actor'[k].failed = actor[k].failed \cup {b}
      /\ \A j \in Actors \ {k} : actor'[j] = actor[j]
  BY <1>1, <1>3, GivesUpTo
<1>7. row.phase \in Unfinished
  BY <1>1 DEF Unfinished
<1> HIDE DEF new, b
<1> QED
  BY <1>1, <1>2, <1>3, <1>4, <1>5, <1>6, <1>7, RecoveryWrite DEF b

LEMMA FinishRecoveryStep ==
  ASSUME Inv, NEW k \in Actors, FinishRecovery(k)
  PROVE  Inv' /\ Moves(k)
<1> DEFINE b == Target(k)
           row == batches[b]
           new == [row EXCEPT !.phase = "recovery_succeeded"]
<1>1. /\ TypeOK /\ actor[k].pc = "restored" /\ Current(k) /\ row.bound = k /\ row.phase = "recovering"
      /\ SetBatch(b, new) /\ Goes(k, "settling")
      /\ UNCHANGED <<leaseVars, claims, disk, edits, listed, committed, late>>
  BY DEF FinishRecovery, HoldsAttempt, Inv
<1>2. "settling" \in Rolling /\ "settling" \in PCs /\ "restored" \in Rolling /\ "restored" \in Restoring
      /\ "settling" \notin Restoring
  BY DEF Rolling, Restoring, PCs
<1>3. row \in Batches /\ b \in actor[k].todo /\ actor[k].todo # {}
  BY <1>1, <1>2, TargetOf
<1>4. /\ new \in Batches /\ new.phase = "recovery_succeeded" /\ new.bound = k /\ new.tx = row.tx
      /\ new.file = row.file
  BY <1>1, <1>3 DEF Batches, Phases
<1>5. RowStep(k, row, new)
  BY <1>1, <1>4 DEF RowStep, RowKept, Unfinished
<1>6. /\ actor' \in [Actors -> ActorStates] /\ actor'[k].pc = "settling"
      /\ actor'[k].why = actor[k].why /\ actor'[k].todo = actor[k].todo
      /\ actor'[k].failed = actor[k].failed
      /\ \A j \in Actors \ {k} : actor'[j] = actor[j]
  BY <1>1, <1>2, GoesTo
<1>7. new.phase \notin Unfinished
  BY <1>4 DEF Unfinished
<1> HIDE DEF new, b
<1> QED
  BY <1>1, <1>2, <1>3, <1>4, <1>5, <1>6, <1>7, RecoveryWrite DEF b

\* What a recovery releases protects no write that stands.
LEMMA SiblingsKeepClaims ==
  ASSUME NEW b \in Journal, NEW unresolved, NEW c \in unresolved, c # b,
         HasClaim(c), batches[c].file \in Files
  PROVE  batches[c].file \notin ReleasedClaims(b, unresolved)
BY DEF ReleasedClaims, HasClaim

LEMMA SettleStep ==
  ASSUME Inv, NEW k \in Actors, Settle(k)
  PROVE  Inv' /\ Moves(k)
<1> DEFINE b == Target(k)
           row == batches[b]
           released == ReleasedClaims(b, actor[k].todo \cup actor[k].failed)
           recovers == actor[k].why = "recover"
<1>1. /\ TypeOK /\ ActorInv(k) /\ k <= fence[Workspace] /\ actor[k].todo \subseteq Journal
      /\ actor[k].pc = "settling" /\ actor[k].pc \in Rolling /\ Current(k)
      /\ actor[k].todo \subseteq BatchIds /\ actor[k].failed \subseteq BatchIds
      /\ claims' = [f \in Files |-> IF recovers /\ f \in released THEN None ELSE claims[f]]
      /\ UNCHANGED <<leaseVars, disk, edits, listed, committed, late>>
  BY ActorType DEF Settle, Rolling, Restoring
<1>2. actor[k].todo # {} /\ row.phase = "recovery_succeeded"
  BY <1>1 DEF ActorInv, TodoInv, Target
<1>3. b \in Journal /\ b \in actor[k].todo /\ row \in Batches /\ b \in BatchIds
  BY <1>1, <1>2, TodoEnds, Types DEF Target
<1>4. PICK deleted \in BOOLEAN :
         /\ SetBatch(b, [row EXCEPT !.artifact = @ /\ ~deleted])
         /\ actor' = [actor EXCEPT ![k].pc = "rolling", ![k].todo = @ \ {b},
               ![k].failed = IF actor[k].why = "commit" /\ batches'[b].artifact
                             THEN @ \cup {b} ELSE @]
  BY DEF Settle
<1> DEFINE artifact == row.artifact /\ ~deleted
           new == [row EXCEPT !.artifact = artifact]
           T == actor[k].todo \ {b}
           F == IF actor[k].why = "commit" /\ batches'[b].artifact
                THEN actor[k].failed \cup {b} ELSE actor[k].failed
           s == [actor[k] EXCEPT !.pc = "rolling", !.todo = T, !.failed = F]
<1>5. SetBatch(b, new) /\ artifact \in BOOLEAN
  BY <1>3, <1>4 DEF Batches
<1>6. actor' = [actor EXCEPT ![k] = s] /\ actor[k] \in ActorStates
  BY <1>1, <1>4 DEF TypeOK
<1>7. T \in SUBSET BatchIds /\ F \in SUBSET BatchIds /\ actor[k].failed \subseteq F
      /\ T = actor[k].todo \ {b}
  BY <1>1, <1>3
<1> HIDE DEF artifact, T, F
<1>8. /\ new \in Batches /\ new.phase = "recovery_succeeded" /\ new.bound = row.bound
      /\ new.tx = row.tx /\ new.file = row.file /\ new.proof = row.proof
  BY <1>2, <1>3, <1>5 DEF Batches
<1>9. s \in ActorStates /\ s.pc = "rolling" /\ s.why = actor[k].why /\ s.todo = T /\ s.failed = F
  BY <1>6, <1>7 DEF ActorStates, PCs
<1> HIDE DEF s, new, b
<1>10. /\ actor' \in [Actors -> ActorStates] /\ actor'[k] = s
       /\ \A j \in Actors \ {k} : actor'[j] = actor[j]
  BY <1>1, <1>6, <1>9, Becomes
<1>11. /\ batches' \in Seq(Batches) /\ Len(batches') = Len(batches) /\ batches'[b] = new
       /\ \A c \in Journal : c # b => batches'[c] = batches[c]
  BY <1>1, <1>3, <1>5, <1>8, OneRow
<1>12. claims' \in [Files -> Actors \cup {None}]
       /\ \A f \in Files : claims'[f] = IF recovers /\ f \in released THEN None ELSE claims[f]
  BY <1>1 DEF TypeOK
<1>13. TypeOK'
  BY <1>1, <1>10, <1>11, <1>12 DEF TypeOK, leaseVars, FencedLeaseTypeOK
<1>14. \A c \in Journal : RowStep(k, batches[c], batches'[c])
  <2>1. RowStep(k, row, new)
    BY <1>2, <1>8 DEF RowStep, RowKept, Unfinished
  <2> QED
    BY <1>3, <1>11, <2>1, SameRow
<1>15. ClaimsKept
  <2> SUFFICES ASSUME NEW c \in Journal, HasClaim(c),
                      batches'[c].phase = "succeeded", batches[c].tx \in Automatic \ committed
               PROVE  claims'[batches[c].file] = batches[c].tx
    BY <1>1 DEF ClaimsKept
  <2>1. c # b /\ batches[c].phase = "succeeded" /\ batches[c].file \in Files
    BY <1>1, <1>8, <1>11, Types
  <2>2. CASE recovers
    <3>1. c \in actor[k].todo
      BY <1>1, <2>1, <2>2 DEF ActorInv, RecovererInv
    <3>2. batches[c].file \notin released
      BY <1>3, <2>1, <3>1, SiblingsKeepClaims
    <3> QED
      BY <1>12, <2>1, <3>2 DEF HasClaim
  <2>3. CASE ~recovers
    BY <1>12, <2>1, <2>3 DEF HasClaim
  <2> QED
    BY <2>2, <2>3
<1>16. RowsGrow(k) /\ \A j \in Actors : Current(j)' = Current(j)
  BY <1>1, <1>11, Types DEF RowsGrow, Journal, Current, leaseVars
<1>17. fence[Workspace] <= fence'[Workspace] /\ k <= fence'[Workspace]
  BY <1>1, Types DEF leaseVars
<1>18. Moves(k)
  BY <1>1, <1>10, <1>14, <1>15, <1>16, <1>17 DEF Moves
<1>19. /\ actor'[k].pc = "rolling" /\ "rolling" \in Rolling
       /\ \A c \in Journal : /\ batches'[c].tx = batches[c].tx
                             /\ batches'[c].phase = batches[c].phase
  BY <1>2, <1>8, <1>9, <1>10, <1>11 DEF Rolling, Restoring
<1>20. ActorInv(k)'
  <2>1. actor'[k].todo \subseteq actor[k].todo /\ actor[k].failed \subseteq actor'[k].failed
        /\ actor'[k].why = actor[k].why
    BY <1>7, <1>9, <1>10
  <2>2. \A c \in actor[k].todo \ actor'[k].todo :
           batches'[c].phase # "succeeded" /\ batches'[c].phase \notin Unfinished
    BY <1>7, <1>8, <1>9, <1>10, <1>11 DEF Unfinished
  <2>3. actor'[k].pc \in Rolling /\ ~(actor'[k].pc = "settling")
    BY <1>19
  <2>4. AttemptInv(k)'
    BY <1>19 DEF AttemptInv, Restoring
  <2> QED
    BY <1>1, <1>11, <1>16, <1>19, <2>1, <2>2, <2>3, <2>4, RollerPart
<1> QED
  BY <1>13, <1>18, <1>20, MovesInv

LEMMA EndRecoveryStep ==
  ASSUME Inv, NEW k \in Actors, EndRecovery(k)
  PROVE  Inv' /\ Moves(k)
<1>1. /\ TypeOK /\ ActorInv(k) /\ actor[k].todo \subseteq Journal /\ k <= fence[Workspace]
      /\ actor[k].pc = "rolling" /\ "ended" \in PCs /\ Current(k) /\ Revoke(Workspace)
      /\ claims' = [f \in Files |-> IF f \in Orphaned(k) THEN None ELSE claims[f]]
      /\ Goes(k, "ended")
      /\ UNCHANGED <<batches, disk, edits, listed, committed, late>>
  BY ActorType DEF EndRecovery, PCs
<1>2. /\ actor' \in [Actors -> ActorStates] /\ actor'[k].pc = "ended"
      /\ actor'[k].todo = actor[k].todo /\ \A j \in Actors \ {k} : actor'[j] = actor[j]
  BY <1>1, GoesTo
<1>3. /\ FencedLeaseTypeOK' /\ fence' = fence /\ \A j \in Actors : Current(j)' => Current(j)
  BY <1>1, RevokeLease
<1>4. claims' \in [Files -> Actors \cup {None}]
      /\ \A f \in Files : claims'[f] = IF f \in Orphaned(k) THEN None ELSE claims[f]
  BY <1>1 DEF TypeOK
<1>5. TypeOK' /\ Journal' = Journal
  BY <1>1, <1>2, <1>3, <1>4 DEF TypeOK, Journal
<1>6. ClaimsKept
  <2> SUFFICES ASSUME NEW b \in Journal, HasClaim(b)
               PROVE  claims'[batches[b].file] = batches[b].tx
    BY DEF ClaimsKept
  <2>1. batches[b].file \in Files /\ b \in OwnBatches(claims[batches[b].file])
    BY <1>1, Types DEF HasClaim, OwnBatches
  <2>2. batches[b].file \notin Orphaned(k)
    BY <2>1 DEF Orphaned
  <2> QED
    BY <1>4, <2>1, <2>2 DEF HasClaim
<1>7. RowsGrow(k) /\ \A b \in Journal : RowStep(k, batches[b], batches'[b])
  BY <1>1, Types, SameRow DEF RowsGrow, Journal
<1>8. fence[Workspace] <= fence'[Workspace] /\ k <= fence'[Workspace]
  BY <1>1, <1>3, Types
<1>9. Moves(k)
  <2>1. \A j \in Actors \ {k} : ~Current(j)
    BY <1>1, OnlyOneCurrent
  <2> QED
    BY <1>1, <1>2, <1>3, <1>6, <1>7, <1>8, <2>1 DEF Moves
<1>10. ActorInv(k)'
  BY <1>1, <1>2, <1>5, WaitingPart DEF Gone
<1> QED
  BY <1>5, <1>9, <1>10, MovesInv

-----------------------------------------------------------------------------
(* The invariant *)

\* Every step keeps the invariant.

\* Every step of an actor.
LEMMA ActorStep ==
  ASSUME Inv, NEW k \in Actors,
         TransactionStep(k) \/ RecoveryStep(k) \/ SweepStep(k) \/ Crash(k)
  PROVE  Inv' /\ Moves(k)
<1>1. CASE TransactionStep(k)
  <2>1. CASE Enter(k) \/ AcquireClaim(k) \/ EnterFails(k) \/ \E f \in Files : Plan(k, f)
    BY <2>1, EnterStep, AcquireClaimStep, EnterFailsStep, PlanStep
  <2>2. CASE Start(k) \/ BackUp(k) \/ Expect(k) \/ CheckAuthority(k) \/ Mutate(k)
    BY <2>2, StartStep, BackUpStep, ExpectStep, CheckAuthorityStep, MutateStep
  <2>3. CASE Observe(k) \/ Succeed(k) \/ Fail(k)
    BY <2>3, ObserveStep, SucceedStep, FailStep
  <2>4. CASE RaiseInRecordOnly(k) \/ RaiseAndRollBack(k) \/ RaiseAndAbandon(k) \/ ExitCleanly(k)
    BY <2>4, RaiseInRecordOnlyStep, RaiseAndRollBackStep, RaiseAndAbandonStep, ExitCleanlyStep
  <2>5. CASE RolledBack(k) \/ MarkDeletion(k) \/ DeleteArtifact(k)
    BY <2>5, RolledBackStep, MarkDeletionStep, DeleteArtifactStep
  <2>6. CASE CommitCleanupUnderNewLease(k) \/ CommitCleaned(k) \/ ReleaseClaim(k) \/ ReleaseLease(k)
    BY <2>6, CommitCleanupStep, CommitCleanedStep, ReleaseClaimStep, ReleaseLeaseStep
  <2> QED
    BY <1>1, <2>1, <2>2, <2>3, <2>4, <2>5, <2>6 DEF TransactionStep
<1>2. CASE RecoveryStep(k)
  <2>1. CASE Recover(k) \/ ListPending(k) \/ SkipRecovered(k) \/ Inspect(k) \/ TakeOver(k) \/ PassOver(k)
    BY <2>1, RecoverStep, ListPendingStep, SkipRecoveredStep, InspectStep, TakeOverStep, PassOverStep
  <2>2. CASE AskAgain(k) \/ StartRecovery(k) \/ SkipUnproven(k) \/ CheckAttempt(k) \/ Compare(k)
    BY <2>2, AskAgainStep, StartRecoveryStep, SkipUnprovenStep, CheckAttemptStep, CompareStep
  <2>3. CASE WriteBack(k) \/ Verify(k) \/ RecoveryFails(k) \/ FinishRecovery(k) \/ Settle(k) \/ EndRecovery(k)
    BY <2>3, WriteBackStep, VerifyStep, RecoveryFailsStep, FinishRecoveryStep, SettleStep, EndRecoveryStep
  <2> QED
    BY <1>2, <2>1, <2>2, <2>3 DEF RecoveryStep
<1>3. CASE SweepStep(k) \/ Crash(k)
  BY <1>3, BeginSweepStep, EndSweepStep, CrashStep DEF SweepStep
<1> QED
  BY <1>1, <1>2, <1>3

LEMMA NextInv == Inv /\ [Next]_wsVars => Inv'
<1> SUFFICES ASSUME Inv, [Next]_wsVars PROVE Inv'
  OBVIOUS
<1>1. CASE UNCHANGED wsVars
  <2>1. TypeOK' /\ ListInv' /\ \A k \in Actors : Current(k)' = Current(k)
    BY <1>1 DEF Inv, TypeOK, ListInv, Journal, FencedLeaseTypeOK, wsVars, leaseVars, Current
  <2> QED
    BY <1>1, <2>1, UnseenStep DEF wsVars, leaseVars
<1>2. ASSUME NEW k \in Actors,
             TransactionStep(k) \/ RecoveryStep(k) \/ SweepStep(k) \/ Crash(k) PROVE Inv'
  BY <1>2, ActorStep
<1>3. CASE ListArtifacts \/ LeaseLapses \/ (\E k \in Actors : Heartbeat(k)) \/ \E f \in Files : Edit(f)
  BY <1>3, ListArtifactsStep, EnvironmentStep
<1> QED
  BY <1>1, <1>2, <1>3 DEF Next

\* The invariant holds in every reachable state.
LEMMA SpecInv == Spec => []Inv
<1>1. Init => Inv
  BY InitHolds
<1>2. Inv /\ [Next]_wsVars => Inv'
  BY NextInv
<1> QED
  BY <1>1, <1>2, PTL DEF Spec

-----------------------------------------------------------------------------
(* The theorems *)

\* The claim table, the journal, the files and what every actor remembers keep
\* their types, however leases lapse and actors crash, stall and resume.
THEOREM TypeCorrect == Spec => []TypeOK
<1>1. Inv => TypeOK
  BY DEF Inv
<1> QED
  BY <1>1, SpecInv, PTL

\* An automatic transaction that did not reach its commit is never left half
\* undone by recover_pending_workspace_batches: a write of it that still stands
\* keeps its claim, which keeps the batch pending for the next recovery.
THEOREM TransactionsAreNotTorn == Spec => []UncommittedIsNotTorn
<1>1. Inv => UncommittedIsNotTorn
  BY DEF Inv, ClaimedInv, UncommittedIsNotTorn, IsPending, OwnBatches
<1> QED
  BY <1>1, SpecInv, PTL

\* Without cleanup_outstanding_artifacts, a backup is deleted only after the
\* recovery of its batch or the commit of its transaction, whoever stalls.
THEOREM BackupsAreKept == ~Sweeps => (Spec => []BackupsOutliveTheirNeed)
<1> SUFFICES ASSUME ~Sweeps PROVE Spec => []BackupsOutliveTheirNeed
  OBVIOUS
<1>1. Inv => BackupsOutliveTheirNeed
  <2> SUFFICES ASSUME Inv, NEW b \in Journal, batches[b].proof # "none",
                      batches[b].tx \notin committed,
                      batches[b].phase \in Unfinished \cup {"succeeded"}
               PROVE  batches[b].artifact \/ Missing(batches[b].file, batches[b].before)
    BY DEF BackupsOutliveTheirNeed
  <2>1. RowKept(batches[b], committed)
    BY DEF Inv, KeptInv
  <2>2. batches[b].phase # "recovery_succeeded"
    BY DEF Unfinished
  <2> QED
    BY <2>1, <2>2 DEF RowKept
<1> QED
  BY <1>1, SpecInv, PTL

-----------------------------------------------------------------------------
(* Which claims are taken away *)

\* The release after one recovery finds every unfinished batch on its list.
LEMMA SettleKeepsNeeded ==
  ASSUME Inv, NEW k \in Actors, Settle(k), NEW f \in Files, claims'[f] # claims[f],
         NEW c \in Journal, batches[c].tx = claims[f], batches[c].file = f
  PROVE  batches'[c].phase \notin Unfinished
<1> DEFINE b == Target(k)
           released == ReleasedClaims(b, actor[k].todo \cup actor[k].failed)
<1>1. /\ TypeOK /\ ActorInv(k) /\ actor[k].todo \subseteq Journal
      /\ actor[k].pc = "settling" /\ actor[k].pc \in Rolling /\ Current(k)
      /\ claims' = [g \in Files |-> IF actor[k].why = "recover" /\ g \in released
                                    THEN None ELSE claims[g]]
  BY ActorType DEF Settle, Rolling, Restoring
<1>2. actor[k].todo # {} /\ batches[b].phase = "recovery_succeeded"
  BY <1>1 DEF ActorInv, TodoInv, Target
<1>3. b \in Journal /\ batches[b] \in Batches
  BY <1>1, <1>2, TodoEnds, Types DEF Target
<1> HIDE DEF b
<1>4. PICK deleted \in BOOLEAN : SetBatch(b, [batches[b] EXCEPT !.artifact = @ /\ ~deleted])
  BY DEF Settle, b
<1>5. batches'[c].phase = batches[c].phase
  <2>1. batches' = [batches EXCEPT ![b] = [batches[b] EXCEPT !.artifact = @ /\ ~deleted]]
        /\ batches \in [Journal -> Batches]
    BY <1>1, <1>4, Types DEF SetBatch
  <2> QED
    BY <1>3, <2>1 DEF Batches
<1>6. actor[k].why = "recover" /\ f \in released
  BY <1>1
<1>7. ASSUME batches[c].phase \in Unfinished PROVE FALSE
  <2>1. c \in actor[k].todo \cup actor[k].failed
    BY <1>1, <1>6, <1>7 DEF ActorInv, RecovererInv
  <2>2. c # b
    BY <1>2, <1>7 DEF Unfinished
  <2> QED
    BY <1>3, <1>6, <2>1, <2>2, SiblingsKeepClaims DEF HasClaim
<1> QED
  BY <1>5, <1>7

\* The steps that take a claim away.
LEMMA ClaimSteps ==
  ASSUME Inv, Next, NEW f \in Files, claims[f] # None, claims'[f] # claims[f]
  PROVE  \E k \in Actors : ReleaseClaim(k) \/ Settle(k) \/ EndRecovery(k)
<1>1. ASSUME NEW k \in Actors, AcquireClaim(k) PROVE FALSE
  <2>1. claims \in [Files -> Actors \cup {None}]
    BY DEF Inv, TypeOK
  <2> QED
    BY <1>1, <2>1 DEF AcquireClaim
<1>2. ASSUME NEW k \in Actors, Enter(k) \/ EnterFails(k) \/ \E g \in Files : Plan(k, g)
      PROVE  FALSE
  BY <1>2 DEF Enter, EnterFails, Plan
<1>3. ASSUME NEW k \in Actors, Start(k) \/ BackUp(k) \/ Expect(k) \/ CheckAuthority(k) \/ Mutate(k)
                               \/ Observe(k) \/ Succeed(k) \/ Fail(k)
      PROVE  FALSE
  BY <1>3 DEF Start, BackUp, Expect, CheckAuthority, Mutate, Observe, Succeed, Fail, Journals
<1>4. ASSUME NEW k \in Actors, RaiseInRecordOnly(k) \/ RaiseAndRollBack(k) \/ RaiseAndAbandon(k)
                               \/ ExitCleanly(k) \/ RolledBack(k)
      PROVE  FALSE
  BY <1>4 DEF RaiseInRecordOnly, RaiseAndRollBack, RaiseAndAbandon, ExitCleanly, RolledBack
<1>5. ASSUME NEW k \in Actors, MarkDeletion(k) \/ DeleteArtifact(k) \/ CommitCleanupUnderNewLease(k)
                               \/ CommitCleaned(k) \/ ReleaseLease(k)
      PROVE  FALSE
  BY <1>5 DEF MarkDeletion, DeleteArtifact, CommitCleanupUnderNewLease, CommitCleaned, ReleaseLease
<1>6. ASSUME NEW k \in Actors, RecoveryStep(k), ~Settle(k), ~EndRecovery(k)
      PROVE  FALSE
  BY <1>6 DEF RecoveryStep, Recover, ListPending, SkipRecovered, Inspect, TakeOver, PassOver, AskAgain,
     StartRecovery, SkipUnproven, CheckAttempt, Compare, WriteBack, WriteBackOf, Verify, RecoveryFails,
     FinishRecovery
<1>7. ASSUME NEW k \in Actors, SweepStep(k) \/ Crash(k) \/ Heartbeat(k)
      PROVE  FALSE
  BY <1>7 DEF SweepStep, BeginSweep, EndSweep, Crash, Heartbeat
<1>8. ~ListArtifacts /\ ~LeaseLapses /\ ~\E g \in Files : Edit(g)
  BY DEF ListArtifacts, LeaseLapses, Edit
<1> QED
  BY <1>1, <1>2, <1>3, <1>4, <1>5, <1>6, <1>7, <1>8 DEF Next, TransactionStep

\* A claim goes when its transaction releases it, or when nothing needs it.
KeptOrReleased(f) ==
    (claims[f] # None /\ claims'[f] # claims[f]) =>
        \/ actor[claims[f]].pc = "releasing"
        \/ \A b \in Journal :
              (batches[b].tx = claims[f] /\ batches[b].file = f) =>
                  batches'[b].phase \notin Unfinished

LEMMA ClaimsTaken ==
  ASSUME Inv, Next, NEW f \in Files
  PROVE  KeptOrReleased(f)
<1> SUFFICES ASSUME claims[f] # None, claims'[f] # claims[f], actor[claims[f]].pc # "releasing",
                    NEW b \in Journal, batches[b].tx = claims[f], batches[b].file = f
             PROVE  batches'[b].phase \notin Unfinished
  BY DEF KeptOrReleased
<1>1. PICK k \in Actors : ReleaseClaim(k) \/ Settle(k) \/ EndRecovery(k)
  BY ClaimSteps
<1>2. CASE ReleaseClaim(k)
  <2> DEFINE own == {g \in Files : claims[g] = k}
  <2>1. Newest(own) \in own
    BY <1>2, NewestFile DEF ReleaseClaim
  <2>2. claims \in [Files -> Actors \cup {None}] /\ claims' = [claims EXCEPT ![Newest(own)] = None]
    BY <1>2 DEF Inv, TypeOK, ReleaseClaim
  <2>3. claims[f] = k /\ actor[k].pc = "releasing"
    BY <1>2, <2>1, <2>2 DEF ReleaseClaim
  <2> QED
    BY <2>3
<1>3. CASE Settle(k)
  BY <1>3, SettleKeepsNeeded
<1>4. CASE EndRecovery(k)
  BY <1>4 DEF EndRecovery, Orphaned, OwnBatches
<1> QED
  BY <1>1, <1>2, <1>3, <1>4

\* _release_recovered_batch_claims and the release of orphaned claims: when
\* recovery takes a claim away from a transaction, no batch of it on that file
\* is unfinished.
THEOREM NeededClaimsAreKept == Spec => RecoveryKeepsNeededClaims
<1>1. ASSUME Inv, Next PROVE \A f \in Files : KeptOrReleased(f)
  BY <1>1, ClaimsTaken
<1>2. Inv /\ [Next]_wsVars => [\A f \in Files : KeptOrReleased(f)]_wsVars
  BY <1>1
<1> QED
  BY <1>2, SpecInv, PTL DEF Spec, RecoveryKeepsNeededClaims, KeptOrReleased

-----------------------------------------------------------------------------
(* When the cleanup of an artifact begins *)

\* The cleanup of no batch begins.
NoCleanupBegins == \A b \in Journal : batches'[b].cleaning => batches[b].cleaning

\* A write to one batch that does not set its cleanup record begins no cleanup.
LEMMA RowBeginsNoCleanup ==
  ASSUME Inv, NEW b, NEW row, SetBatch(b, row), b \in Journal => (row.cleaning => batches[b].cleaning)
  PROVE  NoCleanupBegins
<1>1. batches \in [Journal -> Batches] /\ batches' = [batches EXCEPT ![b] = row]
  BY Types DEF Inv, SetBatch
<1> QED
  BY <1>1 DEF NoCleanupBegins

\* The steps of a running write begin no cleanup.
LEMMA WritersBeginNoCleanup ==
  ASSUME Inv, NEW k \in Actors,
         \/ \E f \in Files : Plan(k, f)
         \/ Start(k) \/ BackUp(k) \/ Expect(k) \/ Observe(k) \/ Succeed(k) \/ Fail(k)
  PROVE  NoCleanupBegins
<1>1. batches \in Seq(Batches) /\ batches \in [Journal -> Batches] /\ Len(batches) \in Nat
  BY Types DEF Inv, TypeOK
<1>2. CASE \E f \in Files : Plan(k, f)
  BY <1>1, <1>2 DEF Plan, NoCleanupBegins, Journal
<1> DEFINE b == Writes(k)
           row == batches[b]
<1>3. CASE Start(k) \/ BackUp(k) \/ Expect(k)
  <2>1. \/ SetBatch(b, [row EXCEPT !.phase = "attempting", !.before = disk[row.file]])
        \/ SetBatch(b, [row EXCEPT !.proof = "backup", !.artifact = ~Missing(row.file, row.before)])
        \/ SetBatch(b, [row EXCEPT !.proof = "full"])
    BY <1>3 DEF Start, BackUp, Expect, Journals
  <2> QED
    BY <1>1, <2>1, RowBeginsNoCleanup DEF Batches
<1>4. CASE Observe(k) \/ Succeed(k)
  <2>1. \/ SetBatch(b, [row EXCEPT !.after = disk[row.file]])
        \/ SetBatch(b, [row EXCEPT !.phase = "succeeded"])
    BY <1>4 DEF Observe, Succeed, Journals
  <2> QED
    BY <1>1, <2>1, RowBeginsNoCleanup DEF Batches
<1>5. CASE Fail(k)
  <2>1. CASE UNCHANGED batches
    BY <2>1 DEF NoCleanupBegins
  <2>2. CASE \E p, q :
          SetBatch(b, [row EXCEPT !.phase = "recovery_desired", !.failure = Snapshot(row),
                                  !.preparing = p, !.seen = q])
    BY <1>1, <2>2, RowBeginsNoCleanup DEF Batches
  <2>3. UNCHANGED batches \/ \E p, q :
          SetBatch(b, [row EXCEPT !.phase = "recovery_desired", !.failure = Snapshot(row),
                                  !.preparing = p, !.seen = q])
    BY <1>5 DEF Fail
  <2> QED
    BY <2>1, <2>2, <2>3
<1> QED
  BY <1>2, <1>3, <1>4, <1>5

\* Nor do the steps at the end of a transaction, ends of cleanups included.
LEMMA ExitsBeginNoCleanup ==
  ASSUME Inv, NEW k \in Actors,
         RaiseAndRollBack(k) \/ RaiseAndAbandon(k) \/ ExitCleanly(k) \/ DeleteArtifact(k)
           \/ CommitCleanupUnderNewLease(k)
  PROVE  NoCleanupBegins
<1>1. batches \in [Journal -> Batches]
  BY Types DEF Inv
<1>2. ASSUME NEW S, Desired(S) PROVE NoCleanupBegins
  BY <1>1, <1>2 DEF Desired, Batches, NoCleanupBegins
<1>3. CASE RaiseAndRollBack(k) \/ RaiseAndAbandon(k) \/ ExitCleanly(k)
  BY <1>2, <1>3 DEF RaiseAndRollBack, RaiseAndAbandon, ExitCleanly, NoCleanupBegins
<1>4. CASE DeleteArtifact(k)
  <2> DEFINE b == Oldest(actor[k].todo)
             row == batches[b]
  <2>1. PICK deleted, recorded \in BOOLEAN :
          SetBatch(b, [row EXCEPT !.artifact = @ /\ ~deleted, !.cleaning = @ /\ ~recorded])
    BY <1>4 DEF DeleteArtifact
  <2> HIDE DEF b
  <2> QED
    BY <1>1, <2>1, RowBeginsNoCleanup DEF Batches
<1>5. CASE CommitCleanupUnderNewLease(k)
  BY <1>1, <1>5 DEF CommitCleanupUnderNewLease, Batches, NoCleanupBegins
<1> QED
  BY <1>3, <1>4, <1>5

\* Nor does a recovery.
LEMMA RecoveryBeginsNoCleanup ==
  ASSUME Inv, NEW k \in Actors, RecoveryStep(k)
  PROVE  NoCleanupBegins
<1>1. batches \in [Journal -> Batches]
  BY Types DEF Inv
<1>2. CASE TakeOver(k) \/ AskAgain(k) \/ StartRecovery(k) \/ RecoveryFails(k) \/ FinishRecovery(k)
  <2>1. CASE TakeOver(k)
    BY <1>1, <2>1, RowBeginsNoCleanup DEF TakeOver, Batches
  <2>2. CASE AskAgain(k)
    BY <1>1, <2>2, RowBeginsNoCleanup DEF AskAgain, Batches
  <2>3. CASE StartRecovery(k)
    BY <1>1, <2>3, RowBeginsNoCleanup DEF StartRecovery, Batches
  <2>4. CASE RecoveryFails(k)
    BY <1>1, <2>4, RowBeginsNoCleanup DEF RecoveryFails, Batches
  <2>5. CASE FinishRecovery(k)
    BY <1>1, <2>5, RowBeginsNoCleanup DEF FinishRecovery, Batches
  <2> QED
    BY <1>2, <2>1, <2>2, <2>3, <2>4, <2>5
<1>3. CASE WriteBack(k)
  BY <1>1, <1>3, RenewedRows DEF WriteBack, WriteBackOf, NoCleanupBegins, Inv
<1>4. CASE Settle(k)
  BY <1>1, <1>4 DEF Settle, SetBatch, Batches, NoCleanupBegins
<1>5. CASE UNCHANGED batches
  BY <1>5 DEF NoCleanupBegins
<1> QED
  BY <1>2, <1>3, <1>4, <1>5 DEF RecoveryStep, Recover, ListPending, SkipRecovered, Inspect, PassOver,
     SkipUnproven, CheckAttempt, Compare, Verify, EndRecovery

\* MarkDeletion asks MayClean, which lets an actor clean what is bound to it:
\* a clean exit has only batches that stand, a sweep has none at all.
LEMMA CleanupStep ==
  ASSUME Inv, NEW k \in Actors, MarkDeletion(k),
         NEW b \in Journal, ~batches[b].cleaning, batches'[b].cleaning
  PROVE  batches[b].phase \notin Unfinished
<1> DEFINE c == Oldest(actor[k].todo)
<1>1. /\ TypeOK /\ ActorInv(k) /\ actor[k].todo \subseteq Journal /\ actor[k].todo # {}
      /\ actor[k].pc \in {"committing", "sweeping"} /\ batches \in [Journal -> Batches]
  BY ActorType, Types DEF MarkDeletion
<1>2. c \in actor[k].todo
  BY <1>1, TodoEnds
<1>3. b = c /\ MayClean(b, k)
  BY <1>1 DEF MarkDeletion, SetBatch
<1>4. CASE batches[b].bound = k
  BY <1>1, <1>2, <1>3, <1>4 DEF ActorInv, CleanerInv, Commits, Sweeping, Unfinished
<1>5. CASE batches[b].bound # k
  BY <1>3, <1>5 DEF MayClean, Unfinished
<1> QED
  BY <1>4, <1>5

\* _require_batch_for_artifact_cleanup_write: whoever begins to delete a backup,
\* from whatever list, finds its batch neither running nor to be recovered.
THEOREM CleanupWaits == Spec => CleanupBeginsWhenDone
<1> DEFINE Waits(b) ==
         (~batches[b].cleaning /\ batches'[b].cleaning) => batches[b].phase \notin Unfinished
<1>1. ASSUME Inv, Next, NEW b \in Journal PROVE Waits(b)
  <2> SUFFICES ASSUME ~batches[b].cleaning, batches'[b].cleaning
               PROVE  batches[b].phase \notin Unfinished
    OBVIOUS
  <2>1. batches' # batches /\ ~NoCleanupBegins
    BY DEF NoCleanupBegins
  <2>2. PICK k \in Actors : TransactionStep(k) \/ RecoveryStep(k)
    BY <1>1, <2>1 DEF Next, SweepStep, BeginSweep, EndSweep, Crash, Heartbeat, ListArtifacts,
       LeaseLapses, Edit
  <2>3. MarkDeletion(k)
    BY <1>1, <2>1, <2>2, WritersBeginNoCleanup, ExitsBeginNoCleanup, RecoveryBeginsNoCleanup
    DEF TransactionStep, Enter, AcquireClaim, EnterFails, CheckAuthority, Mutate, RaiseInRecordOnly,
        RolledBack, CommitCleaned, ReleaseClaim, ReleaseLease
  <2> QED
    BY <1>1, <2>3, CleanupStep
<1>2. Inv /\ [Next]_wsVars => [\A b \in Journal : Waits(b)]_wsVars
  BY <1>1
<1> QED
  BY <1>2, SpecInv, PTL DEF Spec, CleanupBeginsWhenDone

-----------------------------------------------------------------------------
(* Edits by other programs *)

\* A recovery that goes on to overwrite the edit of another program has found the
\* evidence that takes it for the write of its batch, and the batch stays in
\* recovery.  A recovery that takes over from it may record another failure.
EditInv(k) ==
    LET row == batches[Target(k)]
    IN  (actor[k].pc \in {"authorized", "writing"} /\ actor[k].memo = Foreign) =>
            /\ row.phase \notin {"planned", "attempting"}
            /\ TakesEdit(row) \/ (k # fence[Workspace] /\ row.after = None)

\* What is recorded of the write of a batch is not changed any more.
EvidenceKept(b) ==
    LET old == batches[b]
        new == batches'[b]
    IN  /\ new.phase \notin {"planned", "attempting"}
        /\ new.after = old.after /\ new.failure = old.failure /\ new.preparing = old.preparing

LEMMA RowKeepsEvidence ==
  ASSUME Inv, NEW b \in Journal, batches[b].phase \notin {"planned", "attempting"},
         NEW c, NEW row, SetBatch(c, row),
         b = c => /\ row.phase \notin {"planned", "attempting"} /\ row.after = batches[b].after
                  /\ row.failure = batches[b].failure /\ row.preparing = batches[b].preparing
  PROVE  EvidenceKept(b)
<1>1. batches \in [Journal -> Batches] /\ batches' = [batches EXCEPT ![c] = row]
  BY Types DEF Inv, SetBatch
<1> QED
  BY <1>1 DEF EvidenceKept

\* A writer journals to the batch it is writing, which is not to be recovered.
LEMMA WritersKeepEvidence ==
  ASSUME Inv, NEW b \in Journal, batches[b].phase \notin {"planned", "attempting"},
         NEW k \in Actors,
         Start(k) \/ BackUp(k) \/ Expect(k) \/ Observe(k) \/ Succeed(k) \/ Fail(k)
  PROVE  EvidenceKept(b)
<1> DEFINE c == Writes(k)
<1>1. CASE Fail(k) /\ UNCHANGED batches
  BY <1>1 DEF EvidenceKept
<1>2. CASE ~(Fail(k) /\ UNCHANGED batches)
  <2>1. /\ actor[k].pc \in Writing /\ batches[c].bound = k
        /\ Fail(k) => batches[c].phase = "attempting"
        /\ ~Fail(k) => actor[k].pc # "checked"
    BY <1>2 DEF Start, BackUp, Expect, Observe, Succeed, Fail, Journals, Writing
  <2>2. batches[c].phase \in {"planned", "attempting"}
    <3>1. WriterInv(k)
      BY DEF Inv, ActorInv
    <3> QED
      BY <2>1, <3>1 DEF WriterInv, Stages
  <2>3. c # b
    BY <2>2
  <2>4. \E row : SetBatch(c, row)
    BY <1>2 DEF Start, BackUp, Expect, Observe, Succeed, Fail, Journals
  <2> QED
    BY <2>3, <2>4, RowKeepsEvidence
<1> QED
  BY <1>1, <1>2

LEMMA ExitsKeepEvidence ==
  ASSUME Inv, NEW b \in Journal, batches[b].phase \notin {"planned", "attempting"},
         NEW k \in Actors,
         \/ \E f \in Files : Plan(k, f)
         \/ RaiseAndRollBack(k) \/ RaiseAndAbandon(k) \/ ExitCleanly(k)
         \/ MarkDeletion(k) \/ DeleteArtifact(k) \/ CommitCleanupUnderNewLease(k)
  PROVE  EvidenceKept(b)
<1>1. /\ batches \in Seq(Batches) /\ batches \in [Journal -> Batches] /\ batches[b] \in Batches
      /\ actor[k] \in ActorStates
  BY Types DEF Inv, TypeOK
<1>2. CASE UNCHANGED batches
  BY <1>2 DEF EvidenceKept
<1>3. CASE \E f \in Files : Plan(k, f)
  <2>1. batches'[b] = batches[b]
    BY <1>1, <1>3 DEF Plan, Journal
  <2> QED
    BY <2>1 DEF EvidenceKept
<1>4. CASE (RaiseAndRollBack(k) \/ RaiseAndAbandon(k) \/ ExitCleanly(k)) /\ batches' # batches
  <2>1. PICK S : Desired(S)
    BY <1>4 DEF RaiseAndRollBack, RaiseAndAbandon, ExitCleanly
  <2>2. batches'[b] = IF b \in S THEN [batches[b] EXCEPT !.phase = "recovery_desired"] ELSE batches[b]
    BY <2>1 DEF Desired
  <2> QED
    BY <1>1, <2>2 DEF EvidenceKept, Batches
<1>5. CASE (MarkDeletion(k) \/ DeleteArtifact(k)) /\ batches' # batches
  <2>1. PICK c, artifact, cleaning :
           \/ SetBatch(c, [batches[c] EXCEPT !.cleaning = cleaning])
           \/ SetBatch(c, [batches[c] EXCEPT !.artifact = artifact, !.cleaning = cleaning])
    <3>1. CASE MarkDeletion(k)
      BY <1>5, <3>1 DEF MarkDeletion
    <3>2. CASE DeleteArtifact(k)
      <4> DEFINE c == Oldest(actor[k].todo)
      <4>1. PICK deleted, recorded \in BOOLEAN :
              SetBatch(c, [batches[c] EXCEPT !.artifact = @ /\ ~deleted, !.cleaning = @ /\ ~recorded])
        BY <3>2 DEF DeleteArtifact
      <4> HIDE DEF c
      <4> QED
        BY <4>1
    <3> QED
      BY <1>5, <3>1, <3>2
  <2>2. CASE SetBatch(c, [batches[c] EXCEPT !.cleaning = cleaning])
    BY <1>1, <2>2, RowKeepsEvidence DEF Batches
  <2>3. CASE SetBatch(c, [batches[c] EXCEPT !.artifact = artifact, !.cleaning = cleaning])
    BY <1>1, <2>3, RowKeepsEvidence DEF Batches
  <2> QED
    BY <2>1, <2>2, <2>3
<1>6. CASE CommitCleanupUnderNewLease(k)
  <2>1. batches'[b] \in {batches[b], [batches[b] EXCEPT !.artifact = FALSE]}
    BY <1>6 DEF CommitCleanupUnderNewLease
  <2> QED
    BY <1>1, <2>1 DEF EvidenceKept, Batches
<1> QED
  BY <1>2, <1>3, <1>4, <1>5, <1>6

\* A recovery that takes over records what it found, under the current lease.
LEMMA RecoveryKeepsEvidence ==
  ASSUME Inv, NEW b \in Journal, batches[b].phase \notin {"planned", "attempting"},
         NEW k \in Actors, RecoveryStep(k)
  PROVE  \/ EvidenceKept(b)
         \/ /\ Current(k) /\ fence' = fence
            /\ batches'[b].phase \notin {"planned", "attempting"} /\ batches'[b].after = batches[b].after
<1>1. batches \in [Journal -> Batches] /\ batches[b] \in Batches
  BY Types DEF Inv
<1>2. CASE TakeOver(k)
  <2>1. /\ Current(k) /\ fence' = fence
        /\ SetBatch(Target(k), [batches[Target(k)] EXCEPT !.phase = "recovery_desired", !.bound = k,
                                          !.failure = actor[k].memo, !.preparing = FALSE])
    BY <1>2 DEF TakeOver, leaseVars
  <2>2. CASE b # Target(k)
    BY <2>1, <2>2, RowKeepsEvidence
  <2>3. CASE b = Target(k)
    BY <1>1, <2>1, <2>3 DEF SetBatch, Batches
  <2> QED
    BY <2>2, <2>3
<1>3. CASE AskAgain(k)
  BY <1>1, <1>3, RowKeepsEvidence DEF AskAgain, Batches
<1>4. CASE StartRecovery(k)
  BY <1>1, <1>4, RowKeepsEvidence DEF StartRecovery, Batches
<1>5. CASE RecoveryFails(k)
  BY <1>1, <1>5, RowKeepsEvidence DEF RecoveryFails, Batches
<1>6. CASE FinishRecovery(k)
  BY <1>1, <1>6, RowKeepsEvidence DEF FinishRecovery, Batches
<1>7. CASE Settle(k)
  <2>1. PICK deleted \in BOOLEAN :
          SetBatch(Target(k), [batches[Target(k)] EXCEPT !.artifact = @ /\ ~deleted])
    BY <1>7 DEF Settle
  <2> QED
    BY <1>1, <2>1, RowKeepsEvidence DEF Batches
<1>8. CASE WriteBack(k)
  BY <1>8, RenewedRows DEF Inv, WriteBack, WriteBackOf, EvidenceKept
<1>9. CASE UNCHANGED batches
  BY <1>9 DEF EvidenceKept
<1> QED
  BY <1>2, <1>3, <1>4, <1>5, <1>6, <1>7, <1>8, <1>9
  DEF RecoveryStep, Recover, ListPending, SkipRecovered, Inspect, PassOver, SkipUnproven,
      CheckAttempt, Compare, Verify, EndRecovery

\* What a step of one actor does to the evidence that another goes by.
LEMMA OthersEdit ==
  ASSUME Inv, NEW k \in Actors, NEW j \in Actors \ {k}, EditInv(j),
         TransactionStep(k) \/ RecoveryStep(k) \/ SweepStep(k) \/ Crash(k)
  PROVE  EditInv(j)'
<1> DEFINE b == Target(j)
<1>0. Inv' /\ Moves(k) /\ actor'[j] = actor[j]
  BY ActorStep DEF Moves
<1> SUFFICES ASSUME actor[j].pc \in {"authorized", "writing"}, actor[j].memo = Foreign
             PROVE  EditInv(j)'
  BY <1>0 DEF EditInv
<1>1. /\ b \in Journal /\ batches[b].phase \notin {"planned", "attempting"}
      /\ TakesEdit(batches[b]) \/ (j # fence[Workspace] /\ batches[b].after = None)
      /\ j <= fence[Workspace] /\ Target(j)' = b
  <2>1. TypeOK /\ TodoInv(j) /\ j <= fence[Workspace]
    BY DEF Inv, ActorInv, LeaseInv
  <2>2. actor[j].pc \in Restoring
    BY DEF Restoring
  <2> QED
    BY <1>0, <2>1, <2>2, TodoEnds DEF TodoInv, Target, EditInv, NextToRecover, Newest
<1> HIDE DEF b
<1>2. j # fence[Workspace] => j # fence'[Workspace]
  <2>1. fence[Workspace] \in Nat /\ fence'[Workspace] \in Nat /\ fence[Workspace] <= fence'[Workspace]
    <3>1. TypeOK /\ TypeOK'
      BY <1>0 DEF Inv
    <3>2. fence'[Workspace] \in Nat
      <4>1. MaxFence \in Nat /\ Names = {Workspace} /\ fence' \in [Names -> 0..MaxFence]
        BY <3>1, FencedLeaseAssumption, WorkspaceTransactionsAssumption DEF TypeOK, FencedLeaseTypeOK
      <4> QED
        BY <4>1
    <3> QED
      BY <1>0, <3>1, <3>2, Types DEF Moves
  <2>2. j \in Nat
    BY Types DEF Inv
  <2> QED
    BY <1>1, <2>1, <2>2
<1>3. CASE EvidenceKept(b)
  BY <1>0, <1>1, <1>2, <1>3 DEF EditInv, EvidenceKept, TakesEdit
<1>4. CASE /\ Current(k) /\ fence' = fence
           /\ batches'[b].phase \notin {"planned", "attempting"}
           /\ batches'[b].after = batches[b].after
  <2>1. j # fence'[Workspace]
    BY <1>4 DEF Current
  <2> QED
    BY <1>0, <1>1, <1>4, <2>1 DEF EditInv, TakesEdit
<1>5. CASE UNCHANGED batches
  BY <1>1, <1>3, <1>5 DEF EvidenceKept
<1>6. CASE TransactionStep(k) /\ batches' # batches
  BY <1>1, <1>3, <1>6, WritersKeepEvidence, ExitsKeepEvidence
  DEF TransactionStep, Enter, AcquireClaim, EnterFails, CheckAuthority, Mutate, RaiseInRecordOnly,
      RolledBack, CommitCleaned, ReleaseClaim, ReleaseLease
<1>7. CASE RecoveryStep(k)
  BY <1>1, <1>3, <1>4, <1>7, RecoveryKeepsEvidence
<1>8. CASE SweepStep(k) \/ Crash(k)
  BY <1>5, <1>8 DEF SweepStep, BeginSweep, EndSweep, Crash
<1> QED
  BY <1>5, <1>6, <1>7, <1>8

\* Nobody else comes to restore a file on the way.
LEMMA OtherPlaces ==
  ASSUME Inv, NEW k \in Actors,
         TransactionStep(k) \/ RecoveryStep(k) \/ SweepStep(k) \/ Crash(k),
         ~CheckAttempt(k), ~Compare(k)
  PROVE  actor'[k].pc \notin {"authorized", "writing"}
<1>1. TypeOK /\ actor \in [Actors -> ActorStates] /\ actor[k] \in ActorStates
  BY DEF Inv, TypeOK
<1>2. ASSUME NEW pc \in PCs \ {"authorized", "writing"}, Goes(k, pc)
      PROVE  actor'[k].pc \notin {"authorized", "writing"}
  BY <1>1, <1>2, GoesTo
<1>3. CASE TransactionStep(k)
  <2>1. CASE Enter(k) \/ AcquireClaim(k) \/ EnterFails(k) \/ \E f \in Files : Plan(k, f)
    <3>1. Goes(k, "entering") \/ Goes(k, "open") \/ Goes(k, "releasing") \/ Goes(k, "planned")
      <4>1. CASE AcquireClaim(k)
        <5> DEFINE free == {f \in Files : claims[f] # k}
                   last == free = {Oldest(free)}
        <5>1. Goes(k, IF last THEN "open" ELSE "entering") \/ Goes(k, "releasing")
          BY <4>1 DEF AcquireClaim
        <5> HIDE DEF last
        <5> QED
          BY <5>1
      <4> QED
        BY <2>1, <4>1 DEF Enter, EnterFails, Plan
    <3> QED
      BY <1>2, <3>1 DEF PCs, Writing
  <2>2. CASE Start(k) \/ BackUp(k) \/ Expect(k) \/ CheckAuthority(k) \/ Mutate(k)
    <3>1. \E pc \in {"started", "backed_up", "prepared", "checked", "mutated"} : Goes(k, pc)
      BY <2>2 DEF Start, BackUp, Expect, CheckAuthority, Mutate, Journals
    <3> QED
      BY <1>2, <3>1 DEF PCs, Writing
  <2>3. CASE Observe(k) \/ Succeed(k) \/ Fail(k)
    <3>1. \E pc \in {"observed", "open"} : Goes(k, pc)
      BY <2>3 DEF Observe, Succeed, Fail, Journals
    <3> QED
      BY <1>2, <3>1 DEF PCs, Writing
  <2>4. CASE RaiseInRecordOnly(k) \/ RaiseAndAbandon(k) \/ CommitCleaned(k) \/ ReleaseLease(k)
    <3>1. \E pc \in {"releasing", "abandoned", "ended"} : Goes(k, pc)
      BY <2>4 DEF RaiseInRecordOnly, RaiseAndAbandon, CommitCleaned, ReleaseLease
    <3> QED
      BY <1>2, <3>1 DEF PCs, Writing
  <2>5. CASE RaiseAndRollBack(k)
    BY <1>1, <2>5 DEF RaiseAndRollBack, Works, Idle
  <2>6. CASE ExitCleanly(k)
    <3>1. Goes(k, "abandoned") \/ \E S : actor' = [actor EXCEPT ![k] = Works("rolling", "commit", S)]
      BY <2>6 DEF ExitCleanly
    <3> QED
      BY <1>1, <1>2, <3>1 DEF Works, Idle, PCs
  <2>7. CASE RolledBack(k)
    <3>1. \/ \E pc \in {"abandoned", "releasing"} : Goes(k, pc)
          \/ \E S : actor' = [actor EXCEPT ![k].pc = "committing", ![k].todo = S]
      BY <2>7 DEF RolledBack
    <3> QED
      BY <1>1, <1>2, <3>1 DEF PCs, ActorStates
  <2>8. CASE MarkDeletion(k)
    <3>1. Goes(k, "deleting") \/ (actor[k].pc \in {"committing", "sweeping"}
             /\ \E S : actor' = [actor EXCEPT ![k].todo = S])
      BY <2>8 DEF MarkDeletion
    <3> QED
      BY <1>1, <1>2, <3>1 DEF PCs, ActorStates
  <2>9. CASE DeleteArtifact(k)
    <3>1. \E S : \E pc \in {"crashed", "committing", "sweeping"} :
             actor' = [actor EXCEPT ![k].pc = pc, ![k].todo = S]
      BY <2>9 DEF DeleteArtifact
    <3> QED
      BY <1>1, <3>1 DEF ActorStates
  <2>10. CASE CommitCleanupUnderNewLease(k)
    BY <1>1, <2>10 DEF CommitCleanupUnderNewLease, ActorStates
  <2>11. CASE ReleaseClaim(k)
    BY <2>11 DEF ReleaseClaim
  <2> QED
    BY <1>3, <2>1, <2>2, <2>3, <2>4, <2>5, <2>6, <2>7, <2>8, <2>9, <2>10, <2>11 DEF TransactionStep
<1>4. CASE RecoveryStep(k)
  <2>1. CASE Recover(k) \/ SkipRecovered(k) \/ StartRecovery(k) \/ FinishRecovery(k) \/ EndRecovery(k)
    <3>1. \E pc \in {"listing", "settling", "restoring", "ended"} : Goes(k, pc)
      BY <2>1 DEF Recover, SkipRecovered, StartRecovery, FinishRecovery, EndRecovery
    <3> QED
      BY <1>2, <3>1 DEF PCs, Restoring
  <2>2. CASE ListPending(k)
    <3>1. \E S, A : actor' = [actor EXCEPT ![k] = [Works("rolling", "recover", S) EXCEPT !.active = A]]
      BY <2>2 DEF ListPending
    <3> QED
      BY <1>1, <3>1 DEF Works, Idle
  <2>3. CASE Inspect(k)
    BY <1>1, <2>3 DEF Inspect, Notes, ActorStates
  <2>4. CASE PassOver(k) \/ SkipUnproven(k) \/ RecoveryFails(k)
    BY <1>1, <2>4 DEF PassOver, SkipUnproven, RecoveryFails, GivesUp, ActorStates
  <2>9. CASE TakeOver(k)
    BY <1>1, <2>9 DEF TakeOver, ActorStates
  <2>5. CASE AskAgain(k)
    BY <2>5 DEF AskAgain, AtBatch
  <2>6. CASE WriteBack(k)
    BY <1>1, <2>6 DEF WriteBack, WriteBackOf, Notes, ActorStates
  <2>7. CASE Verify(k)
    <3>1. \E pc \in {"restored", "refused"} : Goes(k, pc)
      BY <2>7 DEF Verify
    <3> QED
      BY <1>2, <3>1 DEF PCs, Restoring
  <2>8. CASE Settle(k)
    <3> DEFINE S == actor[k].todo \ {Target(k)}
               F == IF actor[k].why = "commit" /\ batches'[Target(k)].artifact
                    THEN actor[k].failed \cup {Target(k)} ELSE actor[k].failed
    <3>1. actor' = [actor EXCEPT ![k].pc = "rolling", ![k].todo = S, ![k].failed = F]
      BY <2>8 DEF Settle
    <3> HIDE DEF S, F
    <3> QED
      BY <1>1, <3>1 DEF ActorStates
  <2> QED
    BY <1>4, <2>1, <2>2, <2>3, <2>4, <2>5, <2>6, <2>7, <2>8, <2>9 DEF RecoveryStep
<1>5. CASE SweepStep(k) \/ Crash(k)
  <2>1. \/ Goes(k, "ended")
        \/ \E S : actor' = [actor EXCEPT ![k] = Works("sweeping", "recover", S)]
        \/ actor' = [actor EXCEPT ![k] = [Idle EXCEPT !.pc = "crashed"]]
    BY <1>5 DEF SweepStep, BeginSweep, EndSweep, Crash
  <2> QED
    BY <1>1, <1>2, <2>1 DEF Works, Idle, PCs
<1> QED
  BY <1>3, <1>4, <1>5

\* What an actor finds out itself.
LEMMA OwnEdit ==
  ASSUME Inv, NEW k \in Actors, EditInv(k),
         TransactionStep(k) \/ RecoveryStep(k) \/ SweepStep(k) \/ Crash(k)
  PROVE  EditInv(k)'
<1> DEFINE b == Target(k)
           row == batches[b]
<1>1. CASE CheckAttempt(k)
  <2> SUFFICES ASSUME actor'[k].pc \in {"authorized", "writing"}, actor'[k].memo = Foreign
               PROVE  EditInv(k)'
    BY DEF EditInv
  <2>1. /\ TypeOK /\ actor[k].pc \in Restoring /\ HoldsAttempt(k, b)
        /\ UNCHANGED <<leaseVars, claims, batches, disk, edits, listed, committed, late>>
    BY <1>1 DEF CheckAttempt, Restoring, Inv
  <2>2. row \in Batches /\ b \in BatchIds /\ b \in Nat
    BY <2>1, TargetOf, Types
  <2>3. HasRestore(row, b) /\ Notes(k, "authorized", ExpectedCurrent(row, b))
    <3>1. ASSUME NEW pc \in {"restored", "refused"}, Goes(k, pc) PROVE FALSE
      <4>1. pc \in PCs
        BY DEF PCs, Restoring
      <4> QED
        BY <2>1, <3>1, <4>1, GoesTo
    <3> QED
      BY <1>1, <3>1 DEF CheckAttempt
  <2>4. ExpectedCurrent(row, b) = Foreign /\ Target(k)' = b
    <3>1. ExpectedCurrent(row, b) \in Snapshots \cup {None} /\ "authorized" \in PCs
      BY <2>2, ExpectedType DEF PCs, Restoring
    <3>2. actor'[k].memo = ExpectedCurrent(row, b) /\ actor'[k].todo = actor[k].todo
      BY <2>1, <2>3, <3>1, NotesTo
    <3> QED
      BY <3>2, SameTarget
  <2>5. b # Foreign /\ Foreign # None
    BY <2>2, WorkspaceTransactionsAssumption
  <2>6. TakesEdit(row)
    BY <2>2, <2>3, <2>4, <2>5 DEF HasRestore, ExpectedCurrent, TakesEdit, Batches
  <2> QED
    BY <2>1, <2>4, <2>6 DEF EditInv, HoldsAttempt
<1>2. CASE Compare(k)
  <2> SUFFICES ASSUME actor'[k].pc \in {"authorized", "writing"}, actor'[k].memo = Foreign
               PROVE  EditInv(k)'
    BY DEF EditInv
  <2>1. /\ TypeOK /\ actor[k].pc \in Restoring /\ actor[k].pc = "authorized"
        /\ UNCHANGED <<leaseVars, claims, batches, disk, edits, listed, committed, late>>
    BY <1>2 DEF Compare, Restoring, Inv
  <2>2. row \in Batches /\ disk[row.file] \in Snapshots
    BY <2>1, TargetOf DEF Snapshots
  <2>3. CanRestore(k) /\ ~IsRestored(row) /\ Notes(k, "writing", disk[row.file])
    <3>1. ASSUME NEW pc \in {"restored", "refused"}, Notes(k, pc, None) PROVE FALSE
      <4>1. pc \in PCs
        BY DEF PCs, Restoring
      <4> QED
        BY <2>1, <3>1, <4>1, NotesTo
    <3> QED
      BY <1>2, <3>1 DEF Compare
  <2>4. disk[row.file] = Foreign /\ Target(k)' = b
    <3>1. "writing" \in PCs
      BY DEF PCs, Restoring
    <3>2. actor'[k].memo = disk[row.file] /\ actor'[k].todo = actor[k].todo
      BY <2>1, <2>2, <2>3, <3>1, NotesTo
    <3> QED
      BY <3>2, SameTarget
  <2>5. actor[k].memo = Foreign
    BY <2>3, <2>4 DEF CanRestore, IsRestored
  <2> QED
    BY <2>1, <2>4, <2>5 DEF EditInv, leaseVars
<1>3. CASE ~CheckAttempt(k) /\ ~Compare(k)
  BY <1>3, OtherPlaces DEF EditInv
<1> QED
  BY <1>1, <1>2, <1>3

\* The evidence that a recovery goes by stays what it was.
LEMMA EditsInv == Spec => [](Inv /\ \A k \in Actors : EditInv(k))
<1> DEFINE All == \A k \in Actors : EditInv(k)
<1>1. Init => All
  BY DEF Init, Idle, EditInv
<1>2. Inv /\ All /\ [Next]_wsVars => All'
  <2> SUFFICES ASSUME Inv, All, [Next]_wsVars, NEW j \in Actors PROVE EditInv(j)'
    OBVIOUS
  <2>1. CASE UNCHANGED wsVars
    <3>1. UNCHANGED <<actor, batches, leaseVars>>
      BY <2>1 DEF wsVars
    <3> QED
      BY <3>1 DEF EditInv, Target, NextToRecover, Newest, leaseVars
  <2>2. CASE Next
    <3>1. ASSUME NEW k \in Actors,
                 TransactionStep(k) \/ RecoveryStep(k) \/ SweepStep(k) \/ Crash(k)
          PROVE  EditInv(j)'
      BY <3>1, OwnEdit, OthersEdit
    <3>2. CASE ~\E k \in Actors : TransactionStep(k) \/ RecoveryStep(k) \/ SweepStep(k) \/ Crash(k)
      <4>1. UNCHANGED <<actor, batches, fence>>
        BY <2>2, <3>2 DEF Next, Heartbeat, Renew, ListArtifacts, LeaseLapses, Lapse, Edit, leaseVars
      <4> QED
        BY <4>1 DEF EditInv, Target, NextToRecover, Newest
    <3> QED
      BY <3>1, <3>2
  <2> QED
    BY <2>1, <2>2
<1> QED
  BY <1>1, <1>2, SpecInv, PTL DEF Spec

\* restore_backup and its evidence: a recovery that has found the edit of another
\* program in a file overwrites it only where the evidence of its batch takes that
\* edit for the write of the batch.  Where a recovery that superseded it has since
\* recorded another failure, at least no after checkpoint says otherwise.
THEOREM EditsAreRespected == Spec => RestoreRespectsEdits
<1> DEFINE Respected(f) ==
         (disk[f] = Foreign /\ disk'[f] # Foreign) =>
           \E k \in Actors :
             \/ actor[k].pc = "checked" /\ actor'[k].pc = "mutated"
             \/ /\ actor[k].pc = "writing" /\ actor'[k].pc = "written"
                /\ \/ actor[k].memo # Foreign
                   \/ TakesEdit(batches[Target(k)])
                   \/ k # fence[Workspace] /\ batches[Target(k)].after = None
<1>1. ASSUME Inv, \A k \in Actors : EditInv(k), Next,
             NEW f \in Files, disk[f] = Foreign, disk'[f] # Foreign
      PROVE  Respected(f)
  <2>1. disk' # disk /\ disk \in [Files -> Contents] /\ TypeOK
    BY <1>1 DEF Inv, TypeOK
  <2>2. ~\E g \in Files : Edit(g)
    BY <1>1, <2>1 DEF Edit
  <2>3. PICK k \in Actors : TransactionStep(k) \/ RecoveryStep(k)
    BY <1>1, <2>1, <2>2 DEF Next, SweepStep, BeginSweep, EndSweep, Crash, Heartbeat, ListArtifacts,
       LeaseLapses
  <2>4. CASE TransactionStep(k)
    <3>1. Mutate(k)
      BY <2>1, <2>4 DEF TransactionStep, Enter, AcquireClaim, EnterFails, Plan, Start, BackUp, Expect,
         CheckAuthority, Observe, Succeed, Fail, Journals, RaiseInRecordOnly, RaiseAndRollBack,
         RaiseAndAbandon, ExitCleanly, RolledBack, MarkDeletion, DeleteArtifact,
         CommitCleanupUnderNewLease, CommitCleaned, ReleaseClaim, ReleaseLease
    <3>2. actor'[k].pc = "mutated"
      BY <1>1, <3>1, ActorType, GoesTo DEF Mutate, PCs, Writing
    <3> QED
      BY <3>1, <3>2 DEF Mutate
  <2>5. CASE RecoveryStep(k)
    <3>1. WriteBack(k)
      BY <2>1, <2>5 DEF RecoveryStep, Recover, ListPending, SkipRecovered, Inspect, TakeOver, PassOver,
         AskAgain, StartRecovery, SkipUnproven, CheckAttempt, Compare, Verify, RecoveryFails,
         FinishRecovery, Settle, EndRecovery
    <3>2. actor[k].pc = "writing" /\ actor'[k].pc = "written"
      <4>1. Notes(k, "written", None) /\ "written" \in PCs /\ actor[k].pc = "writing"
        BY <3>1 DEF WriteBack, WriteBackOf, PCs, Restoring
      <4> QED
        BY <2>1, <4>1, NotesTo
    <3> QED
      BY <1>1, <3>2 DEF EditInv
  <2> QED
    BY <2>3, <2>4, <2>5
<1>2. Inv /\ (\A k \in Actors : EditInv(k)) /\ [Next]_wsVars => [\A f \in Files : Respected(f)]_wsVars
  BY <1>1
<1> QED
  BY <1>2, EditsInv, PTL DEF Spec, RestoreRespectsEdits

=============================================================================
