----------------------- MODULE WorkspaceRestoreProofs -----------------------
(***************************************************************************)
(* What recovery restores: the theorem about the contents of files in      *)
(* WorkspaceTransactions, for any number of grants, files and batches.     *)
(*                                                                         *)
(* The writes to a file form a stack.  Each batch has taken a snapshot of  *)
(* the file before its write, so the content of the file and the snapshots *)
(* chain the writes that still stand, from the newest to the oldest.  A    *)
(* write is pushed by its mutation and popped by its restore.  The stack   *)
(* is a stack for three reasons:                                           *)
(*   - a writer that has not been taken over has the claim on its file,    *)
(*     so that nobody else plans a write or restores the file,             *)
(*   - a recovery that takes over has all that is left on its list and     *)
(*     restores the newest batch first,                                    *)
(*   - a restore wants the file to hold what the batch wrote.              *)
(* An actor that was superseded and writes the file after all (its batch   *)
(* is then in late) and another program that edits the file break it.      *)
(***************************************************************************)
EXTENDS WorkspaceTransactionsProofs

-----------------------------------------------------------------------------
(* The invariant *)

On(f) == {b \in Journal : batches[b].file = f}

\* Only actors that had not been superseded have written the file.
Undisturbed(f) == edits = 0 /\ \A b \in On(f) : b \notin late

\* The file, or a snapshot of it, holds what batch c wrote; a restore of c may
\* leave a snapshot behind, but then c no longer stands.
Written(c) == \/ disk[batches[c].file] = c
              \/ \E x \in On(batches[c].file) : batches[x].before = c
Standing(c) == Written(c) /\ ~batches[c].rewritten

Prepared == {"planned", "attempting", "succeeded"}

\* Nothing has happened yet to a batch that no failure and no recovery has seen.
FreshRow(row) ==
    /\ row.phase \in Prepared =>
          ~row.rewritten /\ ~row.preparing /\ row.failure = None /\ row.bound = row.tx
    /\ row.phase = "planned" => row.before = 0 /\ ~row.renewed
FreshInv == \A b \in Journal : FreshRow(batches[b])

\* A batch is bound to its writer or to a later grant.
BoundInv == \A b \in Journal : batches[b].tx <= batches[b].bound

\* The snapshot of batch x is of an older write, and of none older than a write
\* that stands.
Link(f, x) ==
    LET p == batches[x].before
    IN  /\ p # 0 => p \in On(f) /\ p < x
        /\ Standing(x) => x <= disk[f] /\ (p # 0 => ~batches[p].rewritten)
        /\ batches[x].phase # "planned" => \A c \in On(f) : (c < x /\ Standing(c)) => c <= p

Chain(f) ==
    /\ disk[f] # 0 => disk[f] \in On(f) /\ ~batches[disk[f]].rewritten
    /\ \A x \in On(f) : Link(f, x)

\* The evidence of a batch agrees with what became of its write.
Evidence(c) ==
    LET row == batches[c]
    IN  /\ Standing(c) => /\ row.phase \notin {"planned", "recovery_succeeded"}
                          /\ row.failure # row.before
        /\ row.phase = "succeeded" => Standing(c)
        /\ row.after \in {None, c}
        /\ row.preparing => row.failure = row.before

\* A writer that was not taken over is alone with its file.
WriterFile(k) ==
    LET b == Writes(k)
        f == batches[b].file
    IN  /\ (actor[k].pc = "planned" /\ Current(k)) => \A c \in On(f) : c <= b
        /\ (actor[k].pc \in Writing \ {"planned"} /\ batches[b].bound = k) =>
              /\ claims[f] = k
              /\ \A c \in On(f) : c <= b
              /\ Undisturbed(f) =>
                    /\ ~batches[b].renewed
                    /\ disk[f] = IF actor[k].pc \in {"mutated", "observed"} THEN b
                                 ELSE batches[b].before

\* So is a transaction that rolls back,
OwnClaims(k) ==
    (Current(k) /\ actor[k].pc \in Rolling /\ actor[k].why # "recover") =>
        \A f \in Files : claims[f] = k

\* and a recovery has still to come to every write it interrupted.
Lists(k) ==
    (Current(k) /\ actor[k].pc \in Rolling /\ actor[k].why = "recover") =>
        \A b \in Journal : batches[b].phase = "attempting" => b \in actor[k].todo

\* A batch that is restored is past its commit,
PastInv(k) == actor[k].pc \in Restoring => batches[Target(k)].phase \notin Prepared

\* and what has just been restored no longer stands.
RestoredInv(k) ==
    LET b == Target(k)
    IN  (/\ actor[k].pc = "restored" /\ batches[b].phase = "recovering" /\ batches[b].bound = k
         /\ Undisturbed(batches[b].file))
        => ~Standing(b)

\* What a recovery has read stays true until it has been superseded.
MemoInv(k) ==
    LET b == Target(k)
        row == batches[b]
    IN  (actor[k].pc \in {"inspected"} \cup Restoring /\ k = fence[Workspace] /\ Undisturbed(row.file)) =>
         /\ actor[k].pc = "inspected" => actor[k].memo = Snapshot(row) /\ row.phase # "planned"
         /\ actor[k].pc = "authorized" => actor[k].memo \in {b, row.before}
         /\ actor[k].pc = "writing" => disk[row.file] = b
         /\ actor[k].pc = "written" => disk[row.file] = row.before

FilePart(k) ==
    /\ WriterFile(k)
    /\ OwnClaims(k)
    /\ Lists(k)
    /\ PastInv(k)
    /\ RestoredInv(k)
    /\ MemoInv(k)

StackInv ==
    /\ FreshInv
    /\ BoundInv
    /\ \A f \in Files : Undisturbed(f) => Chain(f) /\ \A c \in On(f) : Evidence(c)
    /\ \A k \in Actors : FilePart(k)

-----------------------------------------------------------------------------
(* What the invariant says *)

\* What is written to a file in order, and the numbers involved.
LEMMA ChainOf ==
  ASSUME TypeOK, NEW f \in Files, Chain(f)
  PROVE  /\ On(f) \subseteq Journal /\ \A x \in On(f) : x \in Nat /\ x # 0 /\ 0 < x
         /\ disk[f] \in Nat
         /\ disk[f] # 0 => disk[f] \in On(f) /\ ~batches[disk[f]].rewritten
         /\ \A x \in On(f) : /\ batches[x].file = f /\ batches[x].before \in Nat
                             /\ batches[x].before < x
                             /\ batches[x].before # 0 => batches[x].before \in On(f)
                             /\ Link(f, x)
<1>1. On(f) \subseteq Journal /\ \A x \in On(f) : x \in Nat /\ x # 0 /\ 0 < x
  BY Types DEF On, Journal
<1>2. disk[f] # 0 => disk[f] \in On(f) /\ ~batches[disk[f]].rewritten
  BY DEF Chain
<1>3. disk[f] \in Nat
  <2>1. CASE disk[f] = 0
    BY <2>1
  <2>2. CASE disk[f] # 0
    BY <1>1, <1>2, <2>2
  <2> QED
    BY <2>1, <2>2
<1>4. ASSUME NEW x \in On(f)
      PROVE  /\ batches[x].file = f /\ batches[x].before \in Nat /\ batches[x].before < x
             /\ batches[x].before # 0 => batches[x].before \in On(f)
             /\ Link(f, x)
  <2>1. Link(f, x) /\ batches[x].file = f
    BY DEF Chain, On
  <2>2. batches[x].before # 0 => batches[x].before \in On(f) /\ batches[x].before < x
    BY <2>1 DEF Link
  <2>3. CASE batches[x].before = 0
    BY <1>1, <2>1, <2>3
  <2>4. CASE batches[x].before # 0
    BY <1>1, <2>1, <2>2, <2>4
  <2> QED
    BY <2>3, <2>4
<1> QED
  BY <1>1, <1>2, <1>3, <1>4

\* A write that stands is not below the snapshot of its batch.
LEMMA StandingIsSeen ==
  ASSUME TypeOK, NEW c \in Journal, Chain(batches[c].file), Standing(c)
  PROVE  c <= disk[batches[c].file] /\ disk[batches[c].file] # batches[c].before
<1> DEFINE f == batches[c].file
<1>1. f \in Files /\ c \in On(f)
  BY Types DEF On
<1>2. /\ disk[f] \in Nat /\ c \in Nat /\ batches[c].before \in Nat /\ batches[c].before < c
      /\ Link(f, c)
  BY <1>1, ChainOf
<1>3. c <= disk[f]
  BY <1>2 DEF Link
<1> QED
  BY <1>2, <1>3

\* When all writes from b on are undone, those before b stand in the order of
\* the stack and its top is what the file held before b.
LEMMA RestoredFiles ==
  ASSUME Inv, StackInv
  PROVE  RolledBackMeansRestored
<1> SUFFICES ASSUME NEW b \in Journal, edits = 0,
                    \A c \in Journal : batches[c].file = batches[b].file =>
                       /\ c \notin late
                       /\ IF c < b THEN batches[c].phase \in {"planned", "succeeded"}
                                   ELSE batches[c].phase = "recovery_succeeded"
             PROVE  disk[batches[b].file] = batches[b].before
  BY DEF RolledBackMeansRestored
<1> DEFINE f == batches[b].file
           p == batches[b].before
           d == disk[f]
<1>1. TypeOK /\ f \in Files /\ b \in On(f)
  BY Types DEF Inv, On
<1>2. Undisturbed(f)
  BY DEF Undisturbed, On
<1>3. Chain(f) /\ \A c \in On(f) : Evidence(c)
  BY <1>1, <1>2 DEF StackInv, On
<1>4. /\ On(f) \subseteq Journal /\ (\A x \in On(f) : x \in Nat) /\ d \in Nat /\ p \in Nat /\ p < b
      /\ d # 0 => d \in On(f) /\ ~batches[d].rewritten
      /\ p # 0 => p \in On(f)
      /\ \A x \in On(f) : batches[x].file = f /\ Link(f, x)
  BY <1>1, <1>3, ChainOf
<1>5. \A c \in On(f) : ~(c < b) => ~Standing(c)
  <2> SUFFICES ASSUME NEW c \in On(f), ~(c < b) PROVE ~Standing(c)
    OBVIOUS
  <2>1. c \in Journal /\ batches[c].phase = "recovery_succeeded"
    BY <1>4
  <2> QED
    BY <2>1, <1>3 DEF Evidence
<1>6. d # 0 => Standing(d)
  BY <1>4 DEF Standing, Written
<1>7. d <= p
  <2>1. CASE d = 0
    BY <2>1, <1>4
  <2>2. CASE d # 0
    <3>1. d \in On(f) /\ d < b /\ Standing(d)
      BY <2>2, <1>4, <1>5, <1>6
    <3>2. batches[b].phase = "recovery_succeeded"
      <4>1. b \in Nat /\ ~(b < b)
        BY <1>1, <1>4
      <4> QED
        BY <4>1
    <3> QED
      BY <3>1, <3>2, <1>1, <1>4 DEF Link
  <2> QED
    BY <2>1, <2>2
<1>8. p <= d
  <2>1. CASE p = 0
    BY <2>1, <1>4
  <2>2. CASE p # 0
    <3>1. p \in On(f) /\ p \in Journal /\ batches[p].phase \in {"planned", "succeeded"}
      BY <2>2, <1>4
    <3>2. Written(p) /\ ~batches[p].rewritten
      BY <3>1, <1>1, <1>4 DEF Written, StackInv, FreshInv, FreshRow, Prepared
    <3>3. Standing(p)
      BY <3>2 DEF Standing
    <3> QED
      BY <3>1, <3>3, <1>4 DEF Link
  <2> QED
    BY <2>1, <2>2
<1> QED
  BY <1>4, <1>7, <1>8

\* Nothing is written in the first state.
LEMMA InitStack == Init => StackInv
<1> SUFFICES ASSUME Init PROVE StackInv
  OBVIOUS
<1>1. Journal = {} /\ \A f \in Files : disk[f] = 0
  BY DEF Init, Journal
<1>2. \A k \in Actors : actor[k].pc = "idle"
  BY DEF Init, Idle
<1>3. \A f \in Files : Chain(f)
  BY <1>1 DEF Chain, On
<1>4. \A k \in Actors : FilePart(k)
  BY <1>2 DEF FilePart, WriterFile, OwnClaims, Lists, PastInv, RestoredInv, MemoInv, Writing, Rolling,
     Restoring
<1> QED
  BY <1>1, <1>3, <1>4 DEF StackInv, FreshInv, BoundInv, On

-----------------------------------------------------------------------------
(* What a step may do to the rows, and to the files of other actors *)

\* What any step does to a batch: it never goes back to the phases it has left.
Ages(old, new) ==
    /\ new.file = old.file /\ new.tx = old.tx
    /\ new.phase \in Prepared =>
          /\ old.phase \in Prepared /\ new.rewritten = old.rewritten
          /\ new.preparing = old.preparing /\ new.failure = old.failure /\ new.bound = old.bound
    /\ old.rewritten => new.rewritten
    /\ new.phase = "planned" => old.phase = "planned" /\ new.renewed = old.renewed
    /\ new.before # old.before => old.phase = "planned" /\ new.phase # "planned"
    /\ new.phase = "attempting" => old.phase \in {"planned", "attempting"}

\* An actor that has not been superseded writes to a file whose claim it has, or
\* restores one for which no write is left running.
MayTouch(k, f) ==
    /\ k = fence[Workspace]
    /\ \/ claims[f] = k
       \/ \E x \in On(f) : /\ batches[x].phase # "attempting"
                           /\ \A y \in On(f) : batches[y].phase = "attempting" => y <= x

Effects(k) ==
    /\ edits <= edits' /\ late \subseteq late'
    /\ \A b \in Journal : Ages(batches[b], batches'[b])
    /\ \A b \in Journal' \ Journal : FreshRow(batches'[b]) /\ claims[batches'[b].file] = k
    /\ \A f \in Files : (disk'[f] # disk[f] /\ Undisturbed(f)') => MayTouch(k, f)
    /\ \A f \in Files : \A c \in On(f) :
          (batches'[c].renewed # batches[c].renewed /\ Undisturbed(f)') => MayTouch(k, f)
    /\ \A f \in Files : \A c \in On(f) : (Written(c)' /\ ~Written(c) /\ Undisturbed(f)') =>
          batches[c].phase \in Prepared

\* A restore takes the top of the stack away.
Pops(k, c) ==
    /\ k = fence[Workspace] /\ actor[k].pc = "writing"
    /\ c = Target(k) /\ disk[batches[c].file] = c

\* What a step does to the writes that stand: a mutation adds one, a restore
\* takes one away and remembers it.
StackStep(k) ==
    /\ Effects(k)
    /\ \A f \in Files : Undisturbed(f)' => \A c \in On(f) :
          /\ Written(c) \/ batches[c].rewritten => (Written(c) \/ batches[c].rewritten)'
          /\ (Standing(c) /\ ~Standing(c)') => Pops(k, c)
          /\ (Standing(c)' /\ ~Standing(c)) =>
                batches' = batches /\ batches[c].phase = "attempting" /\ batches[c].proof = "full"

\* A batch stays on its file, and what was disturbed stays disturbed.
LEMMA SameFiles ==
  ASSUME Inv, NEW k \in Actors, Moves(k), Effects(k)
  PROVE  /\ Journal \subseteq Journal'
         /\ \A f \in Files : On(f) \subseteq On(f)'
         /\ \A f \in Files : Undisturbed(f)' => Undisturbed(f)
<1>1. Journal \subseteq Journal' /\ \A b \in Journal : batches'[b].file = batches[b].file
  BY Types DEF Inv, Moves, RowsGrow, Effects, Ages, Journal
<1>2. \A f \in Files : On(f) \subseteq On(f)'
  BY <1>1 DEF On
<1>3. edits \in Nat /\ edits <= edits'
  BY WorkspaceTransactionsAssumption DEF Inv, TypeOK, Effects
<1>4. edits' = 0 => edits = 0
  BY <1>3
<1>5. \A f \in Files : Undisturbed(f)' => Undisturbed(f)
  BY <1>2, <1>4 DEF Undisturbed, Effects
<1> QED
  BY <1>1, <1>2, <1>5

\* A batch that was fresh and has not left those phases still is.
LEMMA FreshAges ==
  ASSUME Inv, StackInv, NEW k \in Actors, Moves(k), Effects(k)
  PROVE  FreshInv' /\ BoundInv'
<1>1. ASSUME NEW b \in Journal' PROVE FreshRow(batches'[b])
  <2>1. CASE b \in Journal
    <3>1. FreshRow(batches[b]) /\ Ages(batches[b], batches'[b])
      BY <2>1 DEF StackInv, FreshInv, Effects
    <3> QED
      BY <3>1 DEF FreshRow, Ages
  <2>2. CASE b \notin Journal
    BY <2>2 DEF Effects
  <2> QED
    BY <2>1, <2>2
<1>2. ASSUME NEW b \in Journal' PROVE batches'[b].tx <= batches'[b].bound
  <2>1. TypeOK
    BY DEF Inv
  <2>2. CASE b \in Journal
    <3>1. /\ RowStep(k, batches[b], batches'[b]) /\ batches[b].tx <= batches[b].bound
          /\ batches[b].tx <= fence[Workspace] /\ batches[b].tx \in Nat
      BY <2>1, <2>2, Types DEF StackInv, BoundInv, Moves, Inv, LeaseInv
    <3> QED
      BY <3>1 DEF RowStep, Current
  <2>3. CASE b \notin Journal
    <3>1. batches'[b].tx = k /\ batches'[b].bound = k /\ k \in Nat
      BY <2>1, <2>3, Types DEF Moves, RowsGrow, Journal
    <3> QED
      BY <3>1
  <2> QED
    BY <2>2, <2>3
<1> QED
  BY <1>1, <1>2 DEF FreshInv, BoundInv

\* A writer that was not taken over keeps its claim and finds its file as it is.
LEMMA OthersFile ==
  ASSUME Inv, Inv', StackInv, Next, NEW k \in Actors, Moves(k), Effects(k), NEW j \in Actors \ {k}
  PROVE  WriterFile(j)'
<1>0. PICK b, f : b = Writes(j) /\ f = batches[b].file
  OBVIOUS
<1>1. TypeOK /\ actor'[j] = actor[j] /\ WriterFile(j) /\ (Current(j)' => Current(j) /\ ~Current(k))
  BY OnlyOneCurrent DEF Inv, StackInv, FilePart, Moves
<1> SUFFICES ASSUME actor[j].pc \in Writing PROVE WriterFile(j)'
  BY <1>1 DEF WriterFile, Writing
<1>2. /\ b \in Journal /\ f \in Files /\ batches[b].tx = j
      /\ OwnBatches(j) # {}
  BY <1>0, WriterRow DEF Inv, ActorInv, WriterInv
<1>3. Writes(j)' = b
  <2>1. OwnBatches(j)' = OwnBatches(j)
    BY <1>1, SameFiles DEF OwnBatches, Moves, RowsGrow, Effects, Ages, Journal
  <2> QED
    BY <1>0, <2>1 DEF Writes, Newest
<1>4. /\ batches'[b].file = f /\ batches'[b].bound \in {batches[b].bound, k}
      /\ RowStep(k, batches[b], batches'[b])
  BY <1>0, <1>2 DEF Moves, RowStep
<1>5. ASSUME claims[f] # k \/ ~Current(k), NEW c \in On(f)' PROVE c \in On(f)
  <2>1. c \in Journal' /\ batches'[c].file = f
    BY <1>5 DEF On
  <2>2. c \in Journal
    BY <1>5, <2>1 DEF Effects, Moves, RowsGrow, Journal
  <2> QED
    BY <2>1, <2>2 DEF On, Effects, Ages
<1>6. ASSUME actor[j].pc = "planned", Current(j)'
      PROVE  \A c \in On(f)' : c <= b
  BY <1>0, <1>1, <1>5, <1>6 DEF WriterFile
<1>7. ASSUME actor[j].pc # "planned", batches'[b].bound = j
      PROVE  /\ claims'[f] = j
             /\ \A c \in On(f)' : c <= b
             /\ Undisturbed(f)' =>
                   /\ ~batches'[b].renewed
                   /\ disk'[f] = IF actor[j].pc \in {"mutated", "observed"} THEN b
                                 ELSE batches'[b].before
  <2>1. batches[b].bound = j
    BY <1>4, <1>7
  <2>2. /\ claims[f] = j /\ \A c \in On(f) : c <= b
        /\ Undisturbed(f) => /\ ~batches[b].renewed
                             /\ disk[f] = IF actor[j].pc \in {"mutated", "observed"} THEN b
                                          ELSE batches[b].before
    BY <2>1, <1>0, <1>1, <1>7 DEF WriterFile
  <2>3. batches'[b].phase = "attempting" /\ batches[b].phase = "attempting"
    <3>1. Stages(actor[j].pc, batches[b]) /\ Stages(actor[j].pc, batches'[b])
      BY <1>0, <1>1, <1>3, <1>7, <2>1 DEF Inv, ActorInv, WriterInv
    <3> QED
      BY <3>1, <1>7 DEF Stages
  <2>4. claims'[f] = j
    <3>1. KeptOrReleased(f) /\ j # None /\ "attempting" \in Unfinished
      BY <1>2, ClaimsTaken, Types, WorkspaceTransactionsAssumption DEF Inv, Unfinished
    <3> QED
      BY <3>1, <1>0, <1>2, <2>2, <2>3 DEF KeptOrReleased, Writing
  <2>5. ASSUME Undisturbed(f)' PROVE disk'[f] = disk[f] /\ batches'[b].renewed = batches[b].renewed
    <3> SUFFICES ASSUME MayTouch(k, f) PROVE FALSE
      BY <1>0, <1>2, <2>5 DEF Effects, On
    <3>1. PICK x \in On(f) : /\ batches[x].phase # "attempting"
                             /\ \A y \in On(f) : batches[y].phase = "attempting" => y <= x
      BY <2>2 DEF MayTouch
    <3>2. b \in On(f) /\ b <= x /\ x <= b /\ b \in Nat /\ x \in Nat
      BY <1>0, <1>1, <1>2, <2>2, <2>3, <3>1, Types DEF On
    <3>3. x = b
      BY <3>2
    <3> QED
      BY <3>1, <3>3, <2>3
  <2>6. batches'[b].before = batches[b].before
    BY <1>2, <2>3 DEF Effects, Ages
  <2> QED
    BY <2>2, <2>4, <2>5, <2>6, <1>2, <1>5, SameFiles
<1> QED
  BY <1>0, <1>1, <1>3, <1>4, <1>6, <1>7 DEF WriterFile

\* A transaction that rolls back keeps its claims.
LEMMA OthersClaims ==
  ASSUME StackInv, NEW k \in Actors, Moves(k), NEW j \in Actors \ {k}
  PROVE  OwnClaims(j)'
<1> SUFFICES ASSUME Current(j)', actor'[j].pc \in Rolling, actor'[j].why # "recover", NEW f \in Files
             PROVE  claims'[f] = j
  BY DEF OwnClaims
<1>1. Current(j) /\ ~Current(k) /\ actor'[j] = actor[j]
  BY OnlyOneCurrent DEF Moves
<1>2. claims[f] = j
  BY <1>1 DEF StackInv, FilePart, OwnClaims
<1> QED
  BY <1>1, <1>2 DEF Moves

\* Nobody starts a write while another has the lease.
LEMMA OthersLists ==
  ASSUME StackInv, NEW k \in Actors, Moves(k), Effects(k), NEW j \in Actors \ {k}
  PROVE  Lists(j)'
<1> SUFFICES ASSUME Current(j)', actor'[j].pc \in Rolling, actor'[j].why = "recover",
                    NEW b \in Journal', batches'[b].phase = "attempting"
             PROVE  b \in actor'[j].todo
  BY DEF Lists
<1>1. Current(j) /\ ~Current(k) /\ actor'[j] = actor[j]
  BY OnlyOneCurrent DEF Moves
<1>2. b \in Journal
  BY <1>1 DEF Moves, RowsGrow, Journal
<1>3. batches[b].phase \in {"planned", "attempting"} /\ RowStep(k, batches[b], batches'[b])
  BY <1>2 DEF Effects, Ages, Moves
<1>4. batches[b].phase = "attempting"
  BY <1>1, <1>3 DEF RowStep, Unfinished
<1> QED
  BY <1>1, <1>2, <1>4 DEF StackInv, FilePart, Lists

\* The batch another recovery is at stays where it is in its list.
LEMMA OthersTarget ==
  ASSUME Inv, StackInv, NEW k \in Actors, Moves(k), Effects(k), NEW j \in Actors \ {k},
         actor[j].pc \in {"inspected"} \cup Restoring
  PROVE  /\ actor'[j] = actor[j] /\ Target(j)' = Target(j) /\ Target(j) \in Journal
         /\ batches[Target(j)].file \in Files /\ Target(j) \in On(batches[Target(j)].file)
         /\ batches'[Target(j)].file = batches[Target(j)].file
         /\ RowStep(k, batches[Target(j)], batches'[Target(j)])
         /\ Ages(batches[Target(j)], batches'[Target(j)])
<1>1. actor'[j] = actor[j] /\ Target(j)' = Target(j)
  BY SameTarget DEF Moves
<1>2. Target(j) \in Journal /\ batches[Target(j)].file \in Files
  BY TargetOf
<1>3. RowStep(k, batches[Target(j)], batches'[Target(j)]) /\ Ages(batches[Target(j)], batches'[Target(j)])
  BY <1>2 DEF Moves, Effects
<1> QED
  BY <1>1, <1>2, <1>3 DEF On, Ages

\* What another actor has restored is not written again under its recovery.
LEMMA OthersRestored ==
  ASSUME Inv, StackInv, NEW k \in Actors, Moves(k), Effects(k), NEW j \in Actors \ {k}
  PROVE  RestoredInv(j)' /\ PastInv(j)'
<1>0. actor'[j] = actor[j] /\ RestoredInv(j) /\ PastInv(j)
  BY DEF StackInv, FilePart, Moves
<1> SUFFICES ASSUME actor[j].pc \in Restoring PROVE RestoredInv(j)' /\ PastInv(j)'
  BY <1>0 DEF RestoredInv, PastInv, Restoring
<1>1. PICK b : b = Target(j)
  OBVIOUS
<1>2. /\ Target(j)' = b /\ b \in Journal /\ batches[b].file \in Files /\ b \in On(batches[b].file)
      /\ batches'[b].file = batches[b].file
      /\ RowStep(k, batches[b], batches'[b]) /\ Ages(batches[b], batches'[b])
  BY <1>1, OthersTarget
<1>3. PastInv(j)'
  BY <1>0, <1>1, <1>2 DEF PastInv, Ages
<1>4. ASSUME actor[j].pc = "restored", batches'[b].phase = "recovering", batches'[b].bound = j,
             Undisturbed(batches[b].file)', Standing(b)'
      PROVE  FALSE
  <2>1. batches[b].phase = "recovering" /\ batches[b].bound = j
    BY <1>2, <1>4 DEF RowStep
  <2>2. ~Standing(b)
    BY <1>0, <1>1, <1>2, <1>4, <2>1, SameFiles DEF RestoredInv
  <2>3. ~Written(b) /\ Written(b)'
    BY <1>2, <1>4, <2>2 DEF Standing, Ages
  <2>4. batches[b].phase \in Prepared
    BY <1>2, <1>4, <2>3 DEF Effects
  <2> QED
    BY <2>1, <2>4 DEF Prepared
<1> QED
  BY <1>0, <1>2, <1>3, <1>4 DEF RestoredInv

\* A superseded actor does not change what a recovery has read.
LEMMA OthersMemo ==
  ASSUME Inv, StackInv, NEW k \in Actors, Moves(k), Effects(k), NEW j \in Actors \ {k}
  PROVE  MemoInv(j)'
<1>0. actor'[j] = actor[j] /\ MemoInv(j)
  BY DEF StackInv, FilePart, Moves
<1> SUFFICES ASSUME actor[j].pc \in {"inspected"} \cup Restoring PROVE MemoInv(j)'
  BY <1>0 DEF MemoInv
<1>1. PICK b, f : b = Target(j) /\ f = batches[b].file
  OBVIOUS
<1>2. /\ Target(j)' = b /\ b \in Journal /\ f \in Files /\ b \in On(f)
      /\ batches'[b].file = f
      /\ RowStep(k, batches[b], batches'[b]) /\ Ages(batches[b], batches'[b])
  BY <1>1, OthersTarget
<1> SUFFICES ASSUME j = fence'[Workspace], Undisturbed(f)' PROVE MemoInv(j)'
  BY <1>2 DEF MemoInv
<1>3. j = fence[Workspace]
  <2>1. j <= fence[Workspace] /\ fence[Workspace] <= fence'[Workspace] /\ fence[Workspace] \in Nat
        /\ j \in Nat
    BY Types DEF Inv, LeaseInv, Restoring, Moves
  <2> QED
    BY <2>1
<1>4. ~MayTouch(k, f) /\ Undisturbed(f)
  BY <1>2, <1>3, SameFiles DEF MayTouch
<1>5. disk'[f] = disk[f] /\ batches'[b].renewed = batches[b].renewed
  BY <1>2, <1>4 DEF Effects
<1>6. /\ actor[j].pc = "inspected" => actor[j].memo = Snapshot(batches[b]) /\ batches[b].phase # "planned"
      /\ actor[j].pc = "authorized" => actor[j].memo \in {b, batches[b].before}
      /\ actor[j].pc = "writing" => disk[f] = b
      /\ actor[j].pc = "written" => disk[f] = batches[b].before
  BY <1>0, <1>1, <1>3, <1>4 DEF MemoInv
<1>7. batches[b].phase # "planned"
  BY <1>1, <1>6 DEF StackInv, FilePart, PastInv, Prepared
<1>8. batches'[b].before = batches[b].before /\ batches'[b].phase # "planned"
  BY <1>2, <1>7 DEF Ages
<1>9. Snapshot(batches[b])' = Snapshot(batches[b])
  BY <1>1, <1>2, <1>5, <1>8 DEF Snapshot, Missing
<1> QED
  BY <1>0, <1>2, <1>5, <1>6, <1>8, <1>9 DEF MemoInv

\* A step of one actor keeps the invariant when it keeps the stacks and its own part.
LEMMA StackKept ==
  ASSUME Inv, Inv', StackInv, Next, NEW k \in Actors, Moves(k), Effects(k),
         \A f \in Files : Undisturbed(f)' => Chain(f)',
         \A f \in Files : Undisturbed(f)' => \A c \in On(f)' : Evidence(c)',
         FilePart(k)'
  PROVE  StackInv'
<1>1. FreshInv' /\ BoundInv'
  BY FreshAges
<1>2. ASSUME NEW j \in Actors PROVE FilePart(j)'
  <2>1. CASE j = k
    BY <2>1
  <2>2. CASE j # k
    BY <2>2, OthersFile, OthersClaims, OthersLists, OthersRestored, OthersMemo DEF FilePart
  <2> QED
    BY <2>1, <2>2
<1> QED
  BY <1>1, <1>2 DEF StackInv

\* Where the same writes stand, nothing is added or taken away.
LEMMA SameStanding ==
  ASSUME NEW k \in Actors, Effects(k),
         \A c \in Journal : (Written(c)' <=> Written(c)) /\ (Standing(c)' <=> Standing(c))
  PROVE  StackStep(k)
<1>1. ASSUME NEW f \in Files, NEW c \in On(f)
      PROVE  /\ Written(c) \/ batches[c].rewritten => (Written(c) \/ batches[c].rewritten)'
             /\ Standing(c)' <=> Standing(c)
  <2>1. c \in Journal
    BY DEF On
  <2> QED
    BY <2>1 DEF Effects, Ages
<1> QED
  BY <1>1 DEF StackStep

-----------------------------------------------------------------------------
(* Steps that leave the stacks alone *)

\* A row keeps its place in the stack.
Steady(old, new) ==
    /\ Ages(old, new)
    /\ new.before = old.before /\ new.rewritten = old.rewritten /\ new.renewed = old.renewed
    /\ old.phase = "planned" => new.phase = "planned"

SteadyRows ==
    /\ UNCHANGED <<disk, edits, late>>
    /\ Len(batches') = Len(batches)
    /\ \A b \in Journal : Steady(batches[b], batches'[b])

\* Its evidence is what it was, or a failure is added that does not deny a write
\* which stands.
Calm(c) ==
    /\ batches'[c].after = batches[c].after
    /\ \/ batches'[c].phase = batches[c].phase
       \/ /\ batches[c].phase # "planned"
          /\ batches'[c].phase \in {"recovery_desired", "recovering", "recovery_failed"}
    /\ batches'[c].failure # batches[c].failure => (Standing(c) => batches'[c].failure # batches[c].before)
    /\ batches'[c].preparing => batches[c].preparing /\ batches'[c].failure = batches[c].failure

\* The same writes stand.
LEMMA SteadyStack ==
  ASSUME Inv, StackInv, NEW k \in Actors, SteadyRows
  PROVE  /\ Journal' = Journal /\ Effects(k)
         /\ \A f \in Files : /\ On(f)' = On(f) /\ (Undisturbed(f)' <=> Undisturbed(f))
                             /\ Undisturbed(f)' => Chain(f)'
         /\ \A c \in Journal : (Standing(c)' <=> Standing(c)) /\ (Written(c)' <=> Written(c))
<1>1. Journal' = Journal /\ \A b \in Journal : Steady(batches[b], batches'[b])
  BY DEF SteadyRows, Journal
<1>2. \A b \in Journal : /\ batches'[b].file = batches[b].file /\ batches'[b].before = batches[b].before
                         /\ batches'[b].rewritten = batches[b].rewritten
                         /\ batches'[b].phase = "planned" <=> batches[b].phase = "planned"
  BY <1>1 DEF Steady, Ages
<1>3. \A f : On(f)' = On(f)
  BY <1>1, <1>2 DEF On
<1>4. \A f : Undisturbed(f)' <=> Undisturbed(f)
  BY <1>3 DEF Undisturbed, SteadyRows
<1>5. ASSUME NEW c \in Journal
      PROVE  (Standing(c)' <=> Standing(c)) /\ (Written(c)' <=> Written(c))
  <2>1. batches'[c].file = batches[c].file /\ \A x \in On(batches[c].file) : batches'[x].before = batches[x].before
    BY <1>2 DEF On
  <2>2. Written(c)' <=> Written(c)
    BY <1>3, <2>1 DEF Written, SteadyRows
  <2> QED
    BY <1>2, <2>2 DEF Standing
<1>6. ASSUME NEW f \in Files, Undisturbed(f)' PROVE Chain(f)'
  <2>1. Chain(f) /\ TypeOK
    BY <1>4, <1>6 DEF StackInv, Inv
  <2>2. On(f) \subseteq Journal /\ disk' = disk
    BY DEF On, SteadyRows
  <2>3. disk[f] # 0 => disk'[f] \in On(f)' /\ ~batches'[disk[f]].rewritten
    BY <1>2, <1>3, <2>1, <2>2 DEF Chain
  <2>4. ASSUME NEW x \in On(f) PROVE Link(f, x)'
    <3>1. Link(f, x) /\ x \in Journal
      BY <2>1, <2>2 DEF Chain
    <3>2. batches[x].before # 0 => batches[x].before \in Journal
      BY <2>2, <3>1 DEF Link
    <3> QED
      BY <1>2, <1>3, <1>5, <2>2, <3>1, <3>2 DEF Link
  <2> QED
    BY <1>3, <2>2, <2>3, <2>4 DEF Chain
<1>7. Effects(k)
  <2>1. edits \in Nat
    BY WorkspaceTransactionsAssumption DEF Inv, TypeOK
  <2>2. edits' = edits /\ edits <= edits'
    BY <2>1 DEF SteadyRows
  <2>3. \A f \in Files : \A c \in On(f) : c \in Journal
    BY DEF On
  <2> QED
    BY <1>1, <1>5, <2>2, <2>3 DEF Effects, SteadyRows, Steady
<1> QED
  BY <1>1, <1>3, <1>4, <1>5, <1>6, <1>7

\* So does the evidence, when nothing but a failure is added.
LEMMA CalmEvidence ==
  ASSUME Inv, StackInv, NEW k \in Actors, SteadyRows,
         NEW f \in Files, Undisturbed(f), NEW c \in On(f), Calm(c)
  PROVE  Evidence(c)'
<1>1. /\ TypeOK /\ c \in Journal /\ batches[c].file = f /\ Chain(f) /\ Evidence(c)
  BY DEF Inv, On, StackInv
<1>2. (Standing(c)' <=> Standing(c)) /\ Steady(batches[c], batches'[c])
  BY <1>1, SteadyStack DEF SteadyRows
<1>3. batches'[c].before = batches[c].before
  BY <1>2 DEF Steady
<1> QED
  BY <1>1, <1>2, <1>3 DEF Evidence, Calm

\* A step that leaves the stacks alone keeps the invariant when it keeps its own
\* part and the evidence.
LEMMA SteadyKept ==
  ASSUME Inv, Inv', StackInv, Next, NEW k \in Actors, Moves(k), SteadyRows,
         \A f \in Files : Undisturbed(f) => \A c \in On(f) : Calm(c) \/ Evidence(c)',
         FilePart(k)'
  PROVE  StackInv' /\ StackStep(k)
<1>1. Effects(k) /\ \A f \in Files : Undisturbed(f)' => Chain(f)'
  BY SteadyStack
<1>2. ASSUME NEW f \in Files, Undisturbed(f)', NEW c \in On(f)' PROVE Evidence(c)'
  <2>1. Undisturbed(f) /\ c \in On(f)
    BY <1>2, SteadyStack
  <2> QED
    BY <2>1, CalmEvidence
<1>3. StackStep(k)
  BY SteadyStack, SameStanding
<1> QED
  BY <1>1, <1>2, <1>3, StackKept

\* Nothing of a row changes but its proof, its artifact and the cleanup.
Alike(old, new) ==
    /\ new.tx = old.tx /\ new.file = old.file /\ new.phase = old.phase /\ new.bound = old.bound
    /\ new.before = old.before /\ new.after = old.after /\ new.failure = old.failure
    /\ new.preparing = old.preparing /\ new.seen = old.seen /\ new.rewritten = old.rewritten
    /\ new.renewed = old.renewed

AlikeRows ==
    /\ UNCHANGED <<disk, edits, late>>
    /\ Len(batches') = Len(batches)
    /\ \A b \in Journal : Alike(batches[b], batches'[b])

LEMMA AlikeKept ==
  ASSUME Inv, Inv', StackInv, Next, NEW k \in Actors, Moves(k), AlikeRows, FilePart(k)'
  PROVE  StackInv' /\ StackStep(k)
<1>1. \A b \in Journal : Steady(batches[b], batches'[b])
  BY DEF AlikeRows, Alike, Steady, Ages
<1>2. SteadyRows
  BY <1>1 DEF AlikeRows, SteadyRows
<1>3. \A b \in Journal : Calm(b)
  BY DEF AlikeRows, Alike, Calm
<1> QED
  BY <1>2, <1>3, SteadyKept DEF On

\* The part of an actor that neither writes nor recovers.
LEMMA RestingPart ==
  ASSUME NEW k \in Actors, actor'[k].pc \notin Writing \cup Rolling
  PROVE  FilePart(k)'
BY DEF FilePart, WriterFile, OwnClaims, Lists, PastInv, RestoredInv, MemoInv, Writing, Rolling,
   Restoring

-----------------------------------------------------------------------------
(* Steps of actors that do not come near a file *)

\* Entering, leaving and everything done with leases and claims alone.
LEMMA RestingSteps ==
  ASSUME Inv, Inv', StackInv, Next, NEW k \in Actors, Moves(k),
         NEW pc \in PCs \ (Writing \cup Rolling), Goes(k, pc),
         UNCHANGED <<batches, disk, edits, late>>
  PROVE  StackInv' /\ StackStep(k)
<1>1. actor'[k].pc = pc
  BY GoesTo DEF Inv
<1>2. FilePart(k)'
  BY <1>1, RestingPart
<1>3. AlikeRows
  BY DEF AlikeRows, Alike
<1> QED
  BY <1>2, <1>3, AlikeKept

LEMMA LeasesAndClaims ==
  ASSUME Inv, Inv', StackInv, Next, NEW k \in Actors, Moves(k),
         \/ Enter(k) \/ AcquireClaim(k) \/ EnterFails(k) \/ RaiseInRecordOnly(k)
         \/ CommitCleaned(k) \/ ReleaseLease(k) \/ Recover(k) \/ EndRecovery(k) \/ EndSweep(k)
  PROVE  StackInv' /\ StackStep(k)
<1>1. UNCHANGED <<batches, disk, edits, late>>
  BY DEF Enter, AcquireClaim, EnterFails, RaiseInRecordOnly, CommitCleaned, ReleaseLease, Recover,
     EndRecovery, EndSweep
<1>2. \E pc \in {"entering", "open", "releasing", "ended", "listing"} : Goes(k, pc)
  <2>1. CASE AcquireClaim(k)
    <3> DEFINE pc == IF {f \in Files : claims[f] # k} = {Oldest({f \in Files : claims[f] # k})}
                     THEN "open" ELSE "entering"
    <3>1. Goes(k, pc) \/ Goes(k, "releasing")
      BY <2>1 DEF AcquireClaim
    <3> QED
      BY <3>1
  <2> QED
    BY <2>1 DEF Enter, EnterFails, RaiseInRecordOnly, CommitCleaned, ReleaseLease, Recover,
       EndRecovery, EndSweep
<1>3. {"entering", "open", "releasing", "ended", "listing"} \subseteq PCs \ (Writing \cup Rolling)
  BY DEF PCs, Writing, Rolling, Restoring
<1> QED
  BY <1>1, <1>2, <1>3, RestingSteps

LEMMA OneClaimReleased ==
  ASSUME Inv, Inv', StackInv, Next, NEW k \in Actors, Moves(k), ReleaseClaim(k)
  PROVE  StackInv' /\ StackStep(k)
<1>1. UNCHANGED <<batches, disk, edits, late, actor>> /\ actor[k].pc = "releasing"
  BY DEF ReleaseClaim
<1>2. FilePart(k)'
  BY <1>1, RestingPart DEF Writing, Rolling, Restoring
<1> QED
  BY <1>1, <1>2, AlikeKept DEF AlikeRows, Alike

LEMMA StopsAndCleanups ==
  ASSUME Inv, Inv', StackInv, Next, NEW k \in Actors, Moves(k),
         RolledBack(k) \/ BeginSweep(k) \/ Crash(k)
  PROVE  StackInv' /\ StackStep(k)
<1>1. UNCHANGED <<batches, disk, edits, late>>
  BY DEF RolledBack, BeginSweep, Crash
<1>2. actor \in [Actors -> ActorStates]
  BY DEF Inv, TypeOK
<1>3. actor'[k].pc \in {"abandoned", "releasing", "committing", "sweeping", "crashed"}
  <2>1. CASE RolledBack(k)
    BY <1>2, <2>1 DEF RolledBack, Goes, ActorStates
  <2>2. CASE BeginSweep(k)
    BY <1>2, <2>2 DEF BeginSweep, Works, Idle
  <2>3. CASE Crash(k)
    BY <1>2, <2>3 DEF Crash, Idle
  <2> QED
    BY <2>1, <2>2, <2>3
<1>4. FilePart(k)'
  BY <1>3, RestingPart DEF Writing, Rolling, Restoring
<1> QED
  BY <1>1, <1>4, AlikeKept DEF AlikeRows, Alike

\* The cleanup of artifacts leaves the files and the evidence alone.
OnlyCleans(k) ==
    /\ AlikeRows
    /\ \A c \in Journal : /\ batches'[c].proof = batches[c].proof
                          /\ batches'[c].artifact => batches[c].artifact
    /\ actor'[k].pc \in {"committing", "sweeping", "deleting", "crashed"}

LEMMA DeletionSteps ==
  ASSUME Inv, Inv', StackInv, Next, NEW k \in Actors, Moves(k),
         MarkDeletion(k) \/ DeleteArtifact(k)
  PROVE  StackInv' /\ StackStep(k) /\ OnlyCleans(k)
<1> DEFINE b == Oldest(actor[k].todo)
<1>1. /\ TypeOK /\ actor \in [Actors -> ActorStates] /\ b \in Journal /\ batches[b] \in Batches
      /\ UNCHANGED <<disk, edits, late>>
  BY TodoEnds, ActorType, Types DEF MarkDeletion, DeleteArtifact, ActorInv, TodoInv, TypeOK
<1>2. \/ UNCHANGED batches
      \/ \E artifact, cleaning \in BOOLEAN :
            /\ artifact => batches[b].artifact
            /\ SetBatch(b, [batches[b] EXCEPT !.artifact = artifact, !.cleaning = cleaning])
  <2>1. CASE MarkDeletion(k)
    <3>1. CASE SetBatch(b, [batches[b] EXCEPT !.cleaning = TRUE])
      <4>1. [batches[b] EXCEPT !.cleaning = TRUE]
              = [batches[b] EXCEPT !.artifact = batches[b].artifact, !.cleaning = TRUE]
        BY <1>1 DEF Batches
      <4>2. batches[b].artifact \in BOOLEAN
        BY <1>1 DEF Batches
      <4> QED
        BY <3>1, <4>1, <4>2
    <3> QED
      BY <2>1, <3>1 DEF MarkDeletion
  <2>2. CASE DeleteArtifact(k)
    <3>1. PICK deleted \in BOOLEAN, recorded \in BOOLEAN :
            SetBatch(b, [batches[b] EXCEPT !.artifact = @ /\ ~deleted, !.cleaning = @ /\ ~recorded])
      BY <2>2 DEF DeleteArtifact
    <3> DEFINE artifact == batches[b].artifact /\ ~deleted
               cleaning == batches[b].cleaning /\ ~recorded
    <3>2. SetBatch(b, [batches[b] EXCEPT !.artifact = artifact, !.cleaning = cleaning])
      BY <1>1, <3>1 DEF Batches
    <3>3. artifact \in BOOLEAN /\ cleaning \in BOOLEAN /\ (artifact => batches[b].artifact)
      BY <1>1 DEF Batches
    <3> QED
      BY <3>2, <3>3
  <2> QED
    BY <2>1, <2>2
<1>3. ASSUME NEW artifact \in BOOLEAN, NEW cleaning \in BOOLEAN, artifact => batches[b].artifact,
             SetBatch(b, [batches[b] EXCEPT !.artifact = artifact, !.cleaning = cleaning])
      PROVE  /\ AlikeRows
             /\ \A c \in Journal : /\ batches'[c].proof = batches[c].proof
                                   /\ batches'[c].artifact => batches[c].artifact
  <2> DEFINE row == [batches[b] EXCEPT !.artifact = artifact, !.cleaning = cleaning]
  <2>1. /\ row \in Batches /\ Alike(batches[b], row) /\ row.proof = batches[b].proof
        /\ row.artifact = artifact
    BY <1>1 DEF Batches, Alike
  <2> HIDE DEF row
  <2>2. /\ Len(batches') = Len(batches) /\ batches'[b] = row
        /\ \A c \in Journal : c # b => batches'[c] = batches[c]
    BY <1>1, <1>3, <2>1, OneRow DEF row
  <2>3. \A c \in Journal : Alike(batches[c], batches'[c])
    BY <2>1, <2>2 DEF Alike
  <2>4. ASSUME NEW c \in Journal
        PROVE  batches'[c].proof = batches[c].proof /\ (batches'[c].artifact => batches[c].artifact)
    <3>1. CASE c = b
      BY <1>3, <2>1, <2>2, <3>1
    <3>2. CASE c # b
      BY <2>2, <3>2
    <3> QED
      BY <3>1, <3>2
  <2> QED
    BY <1>1, <2>2, <2>3, <2>4 DEF AlikeRows
<1>4. /\ AlikeRows
      /\ \A c \in Journal : /\ batches'[c].proof = batches[c].proof
                            /\ batches'[c].artifact => batches[c].artifact
  BY <1>1, <1>2, <1>3 DEF AlikeRows, Alike
<1>5. actor'[k].pc \in {"committing", "sweeping", "deleting", "crashed"}
  <2>1. CASE MarkDeletion(k)
    BY <1>1, <2>1 DEF MarkDeletion, Goes, ActorStates
  <2>2. CASE DeleteArtifact(k)
    <3>1. PICK recorded \in BOOLEAN :
            actor' = [actor EXCEPT
               ![k].pc = IF ~recorded THEN "crashed"
                         ELSE IF actor[k].why = "commit" THEN "committing" ELSE "sweeping",
               ![k].todo = @ \ {b}]
      BY <2>2 DEF DeleteArtifact
    <3> DEFINE pc == IF ~recorded THEN "crashed"
                     ELSE IF actor[k].why = "commit" THEN "committing" ELSE "sweeping"
               T == actor[k].todo \ {b}
    <3>2. actor' = [actor EXCEPT ![k].pc = pc, ![k].todo = T]
      BY <1>1, <3>1 DEF ActorStates
    <3>3. pc \in {"committing", "sweeping", "crashed"}
      OBVIOUS
    <3> HIDE DEF pc, T
    <3>4. actor'[k].pc = pc
      BY <1>1, <3>2 DEF ActorStates
    <3> QED
      BY <3>3, <3>4
  <2> QED
    BY <2>1, <2>2
<1>6. FilePart(k)'
  BY <1>5, RestingPart DEF Writing, Rolling, Restoring
<1> QED
  BY <1>4, <1>5, <1>6, AlikeKept DEF OnlyCleans

LEMMA NewLeaseCleanup ==
  ASSUME Inv, Inv', StackInv, Next, NEW k \in Actors, Moves(k), CommitCleanupUnderNewLease(k)
  PROVE  StackInv' /\ StackStep(k) /\ OnlyCleans(k)
<1>1. /\ TypeOK /\ actor \in [Actors -> ActorStates] /\ Len(batches) \in Nat
      /\ \A b \in Journal : batches[b] \in Batches
      /\ UNCHANGED <<disk, edits, late>>
  BY Types DEF CommitCleanupUnderNewLease, Inv, TypeOK
<1>2. PICK D : batches' = [b \in Journal |->
            IF b \in D THEN [batches[b] EXCEPT !.artifact = FALSE] ELSE batches[b]]
  BY DEF CommitCleanupUnderNewLease
<1>3. ASSUME NEW b \in Journal
      PROVE  /\ batches'[b] \in Batches /\ Alike(batches[b], batches'[b])
             /\ batches'[b].proof = batches[b].proof /\ (batches'[b].artifact => batches[b].artifact)
  <2>1. CASE b \in D
    <3>1. batches'[b] = [batches[b] EXCEPT !.artifact = FALSE] /\ batches[b] \in Batches
      BY <1>1, <1>2, <2>1
    <3> QED
      BY <3>1 DEF Batches, Alike
  <2>2. CASE b \notin D
    BY <1>1, <1>2, <2>2 DEF Alike
  <2> QED
    BY <2>1, <2>2
<1>4. batches' \in [1..Len(batches) -> Batches]
  BY <1>2, <1>3 DEF Journal
<1>5. AlikeRows
  BY <1>1, <1>3, <1>4, AsJournal DEF AlikeRows
<1>6. actor'[k].pc = "committing"
  BY <1>1 DEF CommitCleanupUnderNewLease, ActorStates
<1>7. FilePart(k)'
  BY <1>6, RestingPart DEF Writing, Rolling, Restoring
<1> QED
  BY <1>3, <1>5, <1>6, <1>7, AlikeKept DEF OnlyCleans

-----------------------------------------------------------------------------
(* The journaled write *)

\* One row changes and keeps its place.
LEMMA OneSteadyRow ==
  ASSUME TypeOK, NEW b \in Journal, NEW row \in Batches, SetBatch(b, row), Steady(batches[b], row),
         UNCHANGED <<disk, edits, late>>
  PROVE  /\ SteadyRows /\ batches'[b] = row
         /\ \A c \in Journal : c # b => Calm(c)
<1>1. /\ Len(batches') = Len(batches) /\ batches'[b] = row
      /\ \A c \in Journal : c # b => batches'[c] = batches[c]
  BY OneRow
<1>2. \A c \in Journal : Steady(batches[c], batches'[c])
  BY <1>1 DEF Steady, Ages
<1>3. \A c \in Journal : c # b => Calm(c)
  BY <1>1 DEF Calm
<1> QED
  BY <1>1, <1>2, <1>3 DEF SteadyRows

\* A writer that was not taken over has its claim, and its batch is the newest
\* of its file.
LEMMA WriterAlone ==
  ASSUME Inv, StackInv, NEW k \in Actors, actor[k].pc \in Writing,
         NEW b, b = Writes(k), NEW f, f = batches[b].file,
         batches[b].bound = k, actor[k].pc = "planned" => Current(k)
  PROVE  /\ b \in Journal /\ b \in On(f) /\ f \in Files /\ batches[b] \in Batches /\ batches[b].tx = k
         /\ b \in Nat /\ claims[f] = k /\ \A c \in On(f) : c <= b
         /\ FreshRow(batches[b]) /\ batches[b].phase \in {"planned", "attempting"}
         /\ batches[b].phase = "planned" <=> actor[k].pc = "planned"
         /\ (Undisturbed(f) /\ actor[k].pc # "planned") =>
               /\ ~batches[b].renewed
               /\ disk[f] = IF actor[k].pc \in {"mutated", "observed"} THEN b ELSE batches[b].before
<1>1. /\ b \in Journal /\ f \in Files /\ batches[b] \in Batches /\ batches[b].tx = k
      /\ Stages(actor[k].pc, batches[b])
  BY WriterRow
<1>2. b \in On(f) /\ b \in Nat /\ FreshRow(batches[b])
  BY <1>1, Types DEF On, Inv, StackInv, FreshInv
<1>3. WriterFile(k) /\ HolderInv(k)
  BY DEF StackInv, FilePart, Inv, ActorInv
<1>4. claims[f] = k /\ \A c \in On(f) : c <= b
  <2>1. CASE actor[k].pc = "planned"
    BY <1>1, <1>3, <2>1 DEF WriterFile, HolderInv, InBody
  <2>2. CASE actor[k].pc # "planned"
    BY <1>3, <2>2 DEF WriterFile
  <2> QED
    BY <2>1, <2>2
<1>5. (Undisturbed(f) /\ actor[k].pc # "planned") =>
          /\ ~batches[b].renewed
          /\ disk[f] = IF actor[k].pc \in {"mutated", "observed"} THEN b ELSE batches[b].before
  BY <1>3 DEF WriterFile
<1>6. batches[b].phase \in {"planned", "attempting"}
      /\ (batches[b].phase = "planned" <=> actor[k].pc = "planned")
  BY <1>1 DEF Stages
<1> QED
  BY <1>1, <1>2, <1>4, <1>5, <1>6

\* A writer that goes on is still alone when its file is as it expects.
LEMMA WriterPart ==
  ASSUME Inv, StackInv, NEW k \in Actors, actor[k].pc \in Writing,
         actor'[k].pc \in Writing \ {"planned"},
         NEW b, b = Writes(k), NEW f, f = batches[b].file,
         batches'[b].bound = k => batches[b].bound = k, actor[k].pc = "planned" => Current(k),
         Len(batches') = Len(batches), claims' = claims,
         \A x \in Journal : batches'[x].tx = batches[x].tx /\ batches'[x].file = batches[x].file,
         (batches[b].bound = k /\ Undisturbed(f)') =>
            /\ ~batches'[b].renewed
            /\ disk'[f] = IF actor'[k].pc \in {"mutated", "observed"} THEN b ELSE batches'[b].before
  PROVE  FilePart(k)'
<1>1. OwnClaims(k)' /\ Lists(k)' /\ PastInv(k)' /\ RestoredInv(k)' /\ MemoInv(k)'
  BY DEF OwnClaims, Lists, PastInv, RestoredInv, MemoInv, Writing, Rolling, Restoring
<1>2. /\ Writes(k)' = b /\ b \in Journal /\ Journal' = Journal
      /\ batches'[b].file = f
  BY SameWrites, WriterRow DEF Inv
<1>3. On(f)' = On(f)
  BY <1>2 DEF On
<1>4. batches'[b].bound = k => claims'[f] = k /\ \A c \in On(f)' : c <= b
  BY <1>3, WriterAlone
<1>5. WriterFile(k)'
  BY <1>2, <1>4 DEF WriterFile
<1> QED
  BY <1>1, <1>5 DEF FilePart

\* The backup and the expectation are recorded, the authority is checked.
LEMMA PreparingSteps ==
  ASSUME Inv, Inv', StackInv, Next, NEW k \in Actors, Moves(k),
         BackUp(k) \/ Expect(k) \/ CheckAuthority(k)
  PROVE  StackInv' /\ StackStep(k)
<1>0. PICK b, f : b = Writes(k) /\ f = batches[b].file
  OBVIOUS
<1>1. /\ actor[k].pc \in {"started", "backed_up", "prepared"}
      /\ UNCHANGED <<claims, disk, edits, late>>
      /\ TypeOK /\ b \in Journal /\ f \in Files /\ batches[b] \in Batches
  BY <1>0, WriterRow DEF BackUp, Expect, CheckAuthority, Journals, Writing, Inv
<1>2. actor'[k].pc \in {"backed_up", "prepared", "checked"}
  BY <1>1, GoesTo DEF BackUp, Expect, CheckAuthority, Journals, PCs, Writing
<1>3. AlikeRows /\ \A x \in Journal : Alike(batches[x], batches'[x])
  <2>1. CASE UNCHANGED batches
    BY <1>1, <2>1 DEF AlikeRows, Alike
  <2>2. ASSUME NEW row \in Batches, SetBatch(b, row), Alike(batches[b], row)
        PROVE  AlikeRows
    <3>1. /\ Len(batches') = Len(batches) /\ batches'[b] = row
          /\ \A c \in Journal : c # b => batches'[c] = batches[c]
      BY <1>1, <2>2, OneRow
    <3> QED
      BY <1>1, <2>2, <3>1 DEF AlikeRows, Alike
  <2>3. CASE BackUp(k)
    <3> DEFINE row == [batches[b] EXCEPT !.proof = "backup",
                                         !.artifact = ~Missing(batches[b].file, batches[b].before)]
    <3>1. SetBatch(b, row)
      BY <1>0, <2>3 DEF BackUp, Journals
    <3>2. row \in Batches /\ Alike(batches[b], row)
      BY <1>1 DEF Batches, Alike, Missing
    <3> QED
      BY <2>2, <3>1, <3>2 DEF AlikeRows
  <2>4. CASE Expect(k)
    <3> DEFINE row == [batches[b] EXCEPT !.proof = "full"]
    <3>1. SetBatch(b, row)
      BY <1>0, <2>4 DEF Expect, Journals
    <3>2. row \in Batches /\ Alike(batches[b], row)
      BY <1>1 DEF Batches, Alike
    <3> QED
      BY <2>2, <3>1, <3>2 DEF AlikeRows
  <2> QED
    BY <2>1, <2>3, <2>4 DEF CheckAuthority, AlikeRows
<1>4. /\ batches'[b].bound = batches[b].bound /\ batches'[b].before = batches[b].before
      /\ Len(batches') = Len(batches)
      /\ \A x \in Journal : batches'[x].tx = batches[x].tx /\ batches'[x].file = batches[x].file
  BY <1>1, <1>3 DEF Alike, AlikeRows
<1>5. Journal' = Journal /\ On(f)' = On(f)
  BY <1>4 DEF Journal, On
<1>6. ASSUME batches[b].bound = k, Undisturbed(f)'
      PROVE  disk'[f] = batches'[b].before /\ ~batches'[b].renewed
  <2>1. Undisturbed(f)
    BY <1>1, <1>5, <1>6 DEF Undisturbed
  <2>2. batches'[b].renewed = batches[b].renewed
    BY <1>1, <1>3 DEF Alike
  <2> QED
    BY <1>0, <1>1, <1>4, <1>6, <2>1, <2>2, WriterAlone DEF Writing
<1>7. FilePart(k)'
  BY <1>0, <1>1, <1>2, <1>4, <1>6, WriterPart DEF Writing
<1> QED
  BY <1>3, <1>7, AlikeKept

\* The after snapshot finds the write.
LEMMA ObservedFile ==
  ASSUME Inv, Inv', StackInv, Next, NEW k \in Actors, Moves(k), Observe(k)
  PROVE  StackInv' /\ StackStep(k)
<1>0. PICK b, f : b = Writes(k) /\ f = batches[b].file
  OBVIOUS
<1> DEFINE row == [batches[b] EXCEPT !.after = disk[f]]
<1>1. /\ actor[k].pc = "mutated" /\ SetBatch(b, row) /\ batches[b].bound = k
      /\ UNCHANGED <<claims, disk, edits, late>> /\ Goes(k, "observed")
  BY <1>0 DEF Observe, Journals
<1>2. /\ TypeOK /\ b \in Journal /\ b \in On(f) /\ f \in Files /\ batches[b] \in Batches
      /\ Undisturbed(f) => disk[f] = b /\ ~batches[b].renewed
  BY <1>0, <1>1, WriterAlone DEF Writing, Inv
<1>3. row \in Batches /\ Steady(batches[b], row) /\ row.after = disk[f]
      /\ row.phase = batches[b].phase /\ row.failure = batches[b].failure
      /\ row.preparing = batches[b].preparing /\ row.before = batches[b].before
      /\ row.bound = k /\ row.renewed = batches[b].renewed
  <2>1. disk[f] \in Contents
    BY <1>2 DEF TypeOK
  <2> QED
    BY <1>1, <1>2, <2>1 DEF Batches, Steady, Ages
<1> HIDE DEF row
<1>4. SteadyRows /\ batches'[b] = row /\ \A c \in Journal : c # b => Calm(c)
  BY <1>1, <1>2, <1>3, OneSteadyRow
<1>5. ASSUME NEW g \in Files, Undisturbed(g), NEW c \in On(g) PROVE Calm(c) \/ Evidence(c)'
  <2>1. CASE c # b
    BY <1>4, <2>1 DEF On
  <2>2. CASE c = b
    <3>1. g = f /\ Evidence(b)
      BY <1>0, <1>5, <2>2 DEF On, StackInv
    <3>2. Standing(b)' <=> Standing(b)
      BY <1>2, <1>4, SteadyStack
    <3> QED
      BY <1>2, <1>3, <1>4, <1>5, <2>2, <3>1, <3>2 DEF Evidence
  <2> QED
    BY <2>1, <2>2
<1>6. actor'[k].pc = "observed" /\ Len(batches') = Len(batches)
      /\ \A x \in Journal : batches'[x].tx = batches[x].tx /\ batches'[x].file = batches[x].file
  BY <1>1, <1>2, <1>4, GoesTo DEF PCs, Writing, SteadyRows, Steady, Ages
<1>7. Undisturbed(f)' => disk'[f] = b /\ ~batches'[b].renewed
  BY <1>1, <1>2, <1>3, <1>4, SteadyStack
<1>8. FilePart(k)'
  BY <1>0, <1>1, <1>3, <1>4, <1>6, <1>7, WriterPart DEF Writing
<1> QED
  BY <1>4, <1>5, <1>8, SteadyKept

\* A write that succeeded stands.
LEMMA SucceededFile ==
  ASSUME Inv, Inv', StackInv, Next, NEW k \in Actors, Moves(k), Succeed(k)
  PROVE  StackInv' /\ StackStep(k)
<1>0. PICK b, f : b = Writes(k) /\ f = batches[b].file
  OBVIOUS
<1> DEFINE row == [batches[b] EXCEPT !.phase = "succeeded"]
<1>1. /\ actor[k].pc = "observed" /\ SetBatch(b, row) /\ batches[b].bound = k
      /\ UNCHANGED <<claims, disk, edits, late>> /\ Goes(k, "open")
      /\ batches[b].phase = "attempting"
  BY <1>0 DEF Succeed, Journals
<1>2. /\ TypeOK /\ b \in Journal /\ b \in On(f) /\ f \in Files /\ batches[b] \in Batches
      /\ Undisturbed(f) => disk[f] = b
      /\ ~batches[b].rewritten
  BY <1>0, <1>1, WriterAlone DEF Writing, Inv, FreshRow, Prepared
<1>3. row \in Batches /\ Steady(batches[b], row) /\ row.after = batches[b].after
      /\ row.phase = "succeeded" /\ row.failure = batches[b].failure
      /\ row.preparing = batches[b].preparing /\ row.before = batches[b].before
  BY <1>1, <1>2 DEF Batches, Phases, Steady, Ages, Prepared
<1> HIDE DEF row
<1>4. SteadyRows /\ batches'[b] = row /\ \A c \in Journal : c # b => Calm(c)
  BY <1>1, <1>2, <1>3, OneSteadyRow
<1>5. ASSUME NEW g \in Files, Undisturbed(g), NEW c \in On(g) PROVE Calm(c) \/ Evidence(c)'
  <2>1. CASE c # b
    BY <1>4, <2>1 DEF On
  <2>2. CASE c = b
    <3>1. g = f /\ Evidence(b)
      BY <1>0, <1>5, <2>2 DEF On, StackInv
    <3>2. Standing(b)' <=> Standing(b)
      BY <1>2, <1>4, SteadyStack
    <3>3. Standing(b)
      BY <1>0, <1>2, <1>5, <3>1 DEF Standing, Written
    <3> QED
      BY <1>3, <1>4, <2>2, <3>1, <3>2, <3>3 DEF Evidence
  <2> QED
    BY <2>1, <2>2
<1>6. actor'[k].pc = "open"
  BY <1>1, <1>2, GoesTo DEF PCs
<1>7. FilePart(k)'
  BY <1>6, RestingPart DEF Writing, Rolling, Restoring
<1> QED
  BY <1>4, <1>5, <1>7, SteadyKept

\* A snapshot of the file is not the old content of a batch whose write stands.
LEMMA SnapshotDiffers ==
  ASSUME TypeOK, NEW c \in Journal, Chain(batches[c].file), Standing(c)
  PROVE  Snapshot(batches[c]) # batches[c].before
<1>1. disk[batches[c].file] # batches[c].before
  BY StandingIsSeen
<1>2. batches[c].before # Renewed
  BY Types, WorkspaceTransactionsAssumption DEF Batches, Contents
<1> QED
  BY <1>1, <1>2 DEF Snapshot

\* The snapshot in a failure is not the old content when the write stands, and
\* is the old content when the write was still being prepared.
LEMMA FailedFile ==
  ASSUME Inv, Inv', StackInv, Next, NEW k \in Actors, Moves(k), Fail(k)
  PROVE  StackInv' /\ StackStep(k)
<1>0. PICK b, f : b = Writes(k) /\ f = batches[b].file
  OBVIOUS
<1>1. /\ actor[k].pc \in Writing /\ Goes(k, "open") /\ UNCHANGED <<claims, disk, edits, late>>
      /\ TypeOK /\ b \in Journal /\ b \in On(f) /\ f \in Files /\ batches[b] \in Batches
  BY <1>0, WriterRow DEF Fail, Inv, On
<1>2. actor'[k].pc = "open"
  BY <1>1, GoesTo DEF PCs
<1>3. FilePart(k)'
  BY <1>2, RestingPart DEF Writing, Rolling, Restoring
<1>4. CASE UNCHANGED batches
  BY <1>1, <1>3, <1>4, AlikeKept DEF AlikeRows, Alike
<1>5. CASE batches[b].bound = k /\ batches[b].phase = "attempting"
  <2>1. PICK checkpointed \in BOOLEAN :
           SetBatch(b, [batches[b] EXCEPT !.phase = "recovery_desired",
                          !.failure = Snapshot(batches[b]),
                          !.preparing = actor[k].pc \in {"started", "backed_up"},
                          !.seen = IF checkpointed THEN disk[f] ELSE @])
    BY <1>0, <1>5 DEF Fail
  <2> DEFINE early == actor[k].pc \in {"started", "backed_up"}
             snapshot == Snapshot(batches[b])
             seen == IF checkpointed THEN disk[f] ELSE batches[b].seen
             row == [batches[b] EXCEPT !.phase = "recovery_desired", !.failure = snapshot,
                                       !.preparing = early, !.seen = seen]
  <2>2. SetBatch(b, row)
    BY <2>1
  <2>3. snapshot \in Snapshots /\ early \in BOOLEAN /\ seen \in Contents \cup {None}
    BY <1>0, <1>1 DEF TypeOK, Batches, Snapshot, Snapshots
  <2> HIDE DEF seen, snapshot
  <2>4. row \in Batches /\ row.phase = "recovery_desired" /\ row.failure = snapshot
        /\ row.preparing = early /\ row.before = batches[b].before /\ row.after = batches[b].after
        /\ Steady(batches[b], row)
    <3> HIDE DEF early
    <3> QED
      BY <1>1, <1>5, <2>3 DEF Batches, Phases, Steady, Ages, Prepared
  <2> HIDE DEF row
  <2>5. SteadyRows /\ batches'[b] = row /\ \A c \in Journal : c # b => Calm(c)
    BY <1>1, <2>2, <2>4, OneSteadyRow
  <2>6. ASSUME NEW g \in Files, Undisturbed(g), NEW c \in On(g) PROVE Calm(c) \/ Evidence(c)'
    <3>1. CASE c # b
      BY <2>5, <3>1 DEF On
    <3>2. CASE c = b
      <4>1. g = f /\ Evidence(b) /\ Chain(f)
        BY <1>0, <2>6, <3>2 DEF On, StackInv
      <4>2. Standing(b)' <=> Standing(b)
        BY <1>1, <2>5, SteadyStack
      <4>3. Standing(b) => snapshot # batches[b].before
        BY <1>0, <1>1, <4>1, SnapshotDiffers DEF snapshot
      <4>4. early => snapshot = batches[b].before
        <5> SUFFICES ASSUME early PROVE snapshot = batches[b].before
          OBVIOUS
        <5>1. disk[f] = batches[b].before /\ ~batches[b].renewed
          BY <1>0, <1>1, <1>5, <2>6, <4>1, WriterAlone
        <5> QED
          BY <1>0, <5>1 DEF snapshot, Snapshot
      <4> HIDE DEF early, snapshot
      <4> QED
        BY <2>4, <2>5, <3>2, <4>1, <4>2, <4>3, <4>4 DEF Evidence
    <3> QED
      BY <3>1, <3>2
  <2> QED
    BY <1>3, <2>5, <2>6, SteadyKept
<1> QED
  BY <1>0, <1>4, <1>5 DEF Fail

-----------------------------------------------------------------------------
(* Steps that push a write *)

\* The stack of a file that a step does not touch.
LEMMA SameStack ==
  ASSUME TypeOK, StackInv, NEW g \in Files, On(g)' = On(g), disk'[g] = disk[g],
         \A x \in On(g) : batches'[x] = batches[x], edits' = edits, late \subseteq late'
  PROVE  /\ \A c \in On(g) : (Standing(c)' <=> Standing(c)) /\ (Written(c)' <=> Written(c))
         /\ Undisturbed(g)' => Chain(g)' /\ \A c \in On(g)' : Evidence(c)'
<1>1. \A c \in On(g) : batches[c].file = g /\ batches'[c].file = g /\ batches'[c] = batches[c]
  BY DEF On
<1>2. \A c \in On(g) : Written(c)' <=> Written(c)
  BY <1>1 DEF Written
<1>3. \A c \in On(g) : Standing(c)' <=> Standing(c)
  BY <1>1, <1>2 DEF Standing
<1>4. ASSUME Undisturbed(g)' PROVE Chain(g)' /\ \A c \in On(g)' : Evidence(c)'
  <2>1. Chain(g) /\ \A c \in On(g) : Evidence(c)
    BY <1>4 DEF StackInv, Undisturbed
  <2>2. disk'[g] # 0 => disk'[g] \in On(g)' /\ ~batches'[disk'[g]].rewritten
    BY <1>1, <2>1 DEF Chain
  <2>3. ASSUME NEW x \in On(g) PROVE Link(g, x)'
    <3>1. Link(g, x) /\ batches'[x] = batches[x]
      BY <2>1 DEF Chain
    <3>2. batches[x].before # 0 => batches[x].before \in On(g)
      BY <3>1 DEF Link
    <3> QED
      BY <1>1, <1>3, <3>1, <3>2 DEF Link
  <2>4. \A c \in On(g) : Evidence(c)'
    BY <1>1, <1>3, <2>1 DEF Evidence
  <2> QED
    BY <2>2, <2>3, <2>4 DEF Chain
<1> QED
  BY <1>2, <1>3, <1>4

\* A new batch is not in the stack yet.
LEMMA PlannedFile ==
  ASSUME Inv, Inv', StackInv, Next, NEW k \in Actors, Moves(k), NEW f \in Files, Plan(k, f)
  PROVE  StackInv' /\ StackStep(k)
<1> DEFINE row == [tx |-> k, file |-> f, phase |-> "planned", bound |-> k, before |-> 0,
                   proof |-> "none", artifact |-> FALSE, after |-> None,
                   failure |-> None, preparing |-> FALSE, seen |-> None,
                   renewed |-> FALSE, rewritten |-> FALSE, cleaning |-> FALSE]
<1>0. PICK n : n = Len(batches) + 1
  OBVIOUS
<1>1. /\ TypeOK /\ batches' = Append(batches, row) /\ batches \in Seq(Batches)
      /\ UNCHANGED <<claims, disk, edits, late>> /\ claims[f] = k /\ Goes(k, "planned")
      /\ Len(batches) \in Nat /\ n \in Nat /\ n # 0 /\ row \in Batches
  <2>1. row \in Batches
    BY DEF Batches, Phases, Contents, Snapshots
  <2>2. Len(batches) \in Nat /\ TypeOK
    BY Types DEF Inv
  <2> QED
    BY <1>0, <2>1, <2>2 DEF Plan, HasAuthority, TypeOK
<1>2. /\ row.file = f /\ row.tx = k /\ row.phase = "planned" /\ row.before = 0 /\ row.after = None
      /\ row.bound = k /\ ~row.rewritten /\ ~row.renewed /\ ~row.preparing /\ row.failure = None
  OBVIOUS
<1> HIDE DEF row
<1>3. /\ Len(batches') = n /\ batches'[n] = row
      /\ \A b \in 1..Len(batches) : batches'[b] = batches[b]
  BY <1>0, <1>1
<1>4. /\ Journal' = Journal \cup {n} /\ Journal' = 1..n /\ n \notin Journal
      /\ \A b \in Journal : batches'[b] = batches[b] /\ b \in Nat /\ b # 0 /\ b < n
  BY <1>0, <1>1, <1>3 DEF Journal
<1>5. /\ On(f)' = On(f) \cup {n}
      /\ \A g : g # f => On(g)' = On(g)
      /\ \A g : On(g) \subseteq Journal
  BY <1>2, <1>3, <1>4 DEF On
<1>6. ASSUME NEW c \in Journal
      PROVE  (Written(c)' <=> Written(c)) /\ (Standing(c)' <=> Standing(c))
  <2>1. batches'[c] = batches[c] /\ c # 0 /\ disk' = disk
    BY <1>1, <1>4
  <2>2. Written(c)' <=> Written(c)
    <3>1. \A x \in On(batches[c].file)' : (batches'[x].before = c) =>
               x \in On(batches[c].file) /\ batches[x].before = c
      BY <1>2, <1>3, <1>4, <1>5, <2>1
    <3>2. \A x \in On(batches[c].file) : x \in On(batches[c].file)' /\ batches'[x] = batches[x]
      BY <1>4, <1>5
    <3> QED
      BY <2>1, <3>1, <3>2 DEF Written
  <2> QED
    BY <2>1, <2>2 DEF Standing
<1>7. ASSUME Undisturbed(f)' PROVE Chain(f)' /\ \A c \in On(f)' : Evidence(c)'
  <2>1. Undisturbed(f)
    BY <1>1, <1>5, <1>7 DEF Undisturbed
  <2>2. Chain(f) /\ \A c \in On(f) : Evidence(c)
    BY <2>1 DEF StackInv
  <2>3. ~Standing(n)'
    <3>1. disk'[f] # n
      BY <1>1, <1>4, <1>5, <2>2 DEF Chain
    <3>2. ASSUME NEW x \in On(f)' PROVE batches'[x].before # n
      <4>1. CASE x = n
        BY <1>1, <1>2, <1>3, <4>1
      <4>2. CASE x \in On(f)
        <5>1. batches[x].before = 0 \/ batches[x].before \in Journal
          BY <1>5, <2>2, <4>2 DEF Chain, Link
        <5> QED
          BY <1>1, <1>4, <1>5, <4>2, <5>1
      <4> QED
        BY <1>5, <4>1, <4>2
    <3>3. batches'[n].file = f
      BY <1>2, <1>3
    <3> QED
      BY <3>1, <3>2, <3>3 DEF Standing, Written
  <2>4. disk'[f] # 0 => disk'[f] \in On(f)' /\ ~batches'[disk'[f]].rewritten
    BY <1>1, <1>4, <1>5, <2>2 DEF Chain
  <2>5. ASSUME NEW x \in On(f)' PROVE Link(f, x)'
    <3>1. CASE x = n
      BY <1>2, <1>3, <2>3, <3>1 DEF Link
    <3>2. CASE x # n
      <4>1. x \in On(f) /\ x \in Journal /\ Link(f, x) /\ batches'[x] = batches[x] /\ disk' = disk
        BY <1>1, <1>4, <1>5, <2>2, <3>2 DEF Chain
      <4>2. batches[x].before # 0 => batches[x].before \in On(f) /\ batches[x].before \in Journal
        BY <1>5, <4>1 DEF Link
      <4>3. ~(n < x)
        BY <1>1, <1>4, <4>1
      <4>4. batches[x].before # 0 =>
              /\ batches[x].before \in On(f)' /\ batches[x].before < x
              /\ batches'[batches[x].before] = batches[batches[x].before]
        BY <1>4, <1>5, <4>1, <4>2 DEF Link
      <4>5. batches[x].phase # "planned" =>
              \A c \in On(f)' : (c < x /\ Standing(c)') => c <= batches[x].before
        BY <1>5, <1>6, <4>1, <4>3 DEF Link
      <4> QED
        BY <1>6, <4>1, <4>4, <4>5 DEF Link
    <3> QED
      BY <3>1, <3>2
  <2>6. ASSUME NEW c \in On(f)' PROVE Evidence(c)'
    <3>1. CASE c = n
      BY <1>2, <1>3, <2>3, <3>1 DEF Evidence
    <3>2. CASE c # n
      BY <1>4, <1>5, <1>6, <2>2, <3>2 DEF Evidence
    <3> QED
      BY <3>1, <3>2
  <2> QED
    BY <2>4, <2>5, <2>6 DEF Chain
<1>8. ASSUME NEW g \in Files, g # f, Undisturbed(g)'
      PROVE  Chain(g)' /\ \A c \in On(g)' : Evidence(c)'
  BY <1>1, <1>4, <1>5, <1>8, SameStack
<1>9. Effects(k)
  <2>1. edits <= edits'
    BY <1>1, WorkspaceTransactionsAssumption DEF TypeOK
  <2>2. \A b \in Journal : Ages(batches[b], batches'[b]) /\ batches'[b].renewed = batches[b].renewed
    BY <1>4 DEF Ages
  <2>3. \A b \in Journal' \ Journal : FreshRow(batches'[b]) /\ claims[batches'[b].file] = k
    BY <1>1, <1>2, <1>3, <1>4 DEF FreshRow
  <2> QED
    BY <1>1, <1>5, <1>6, <2>1, <2>2, <2>3 DEF Effects
<1>10. FilePart(k)'
  <2>1. actor'[k].pc = "planned"
    BY <1>1, GoesTo DEF PCs, Writing
  <2>2. n \in OwnBatches(k)' /\ OwnBatches(k)' \in SUBSET (0..n)
    BY <1>1, <1>2, <1>3, <1>4 DEF OwnBatches
  <2>3. Newest(OwnBatches(k)') \in OwnBatches(k)' /\ n <= Newest(OwnBatches(k)')
    BY <1>1, <2>2, NewestIsLast
  <2>4. Writes(k)' = n
    <3>1. Newest(OwnBatches(k)') \in 1..n
      BY <1>4, <2>3 DEF OwnBatches
    <3>2. Newest(OwnBatches(k)') = n
      BY <1>1, <2>3, <3>1
    <3> QED
      BY <3>2 DEF Writes, Newest
  <2>5. \A c \in On(f)' : c <= n
    BY <1>1, <1>4, <1>5
  <2>6. batches'[n].file = f
    BY <1>2, <1>3
  <2> QED
    BY <2>1, <2>4, <2>5, <2>6 DEF FilePart, WriterFile, OwnClaims, Lists, PastInv, RestoredInv, MemoInv,
       Rolling, Restoring
<1>11. StackStep(k)
  BY <1>6, <1>9, SameStanding
<1> QED
  BY <1>7, <1>8, <1>9, <1>10, <1>11, StackKept

\* The snapshot before the write is the top of the stack.
LEMMA StartedFile ==
  ASSUME Inv, Inv', StackInv, Next, NEW k \in Actors, Moves(k), Start(k)
  PROVE  StackInv' /\ StackStep(k)
<1>0. PICK b, f : b = Writes(k) /\ f = batches[b].file
  OBVIOUS
<1> DEFINE row == [batches[b] EXCEPT !.phase = "attempting", !.before = disk[f]]
<1>1. /\ actor[k].pc = "planned" /\ Current(k) /\ SetBatch(b, row) /\ batches[b].bound = k
      /\ UNCHANGED <<claims, disk, edits, late>> /\ Goes(k, "started")
  BY <1>0 DEF Start, Journals
<1>2. /\ TypeOK /\ b \in Journal /\ b \in On(f) /\ f \in Files /\ batches[b] \in Batches /\ b \in Nat
      /\ \A c \in On(f) : c <= b
      /\ batches[b].phase = "planned" /\ batches[b].before = 0
      /\ ~batches[b].rewritten /\ ~batches[b].preparing /\ ~batches[b].renewed
  BY <1>0, <1>1, WriterAlone DEF Writing, Inv, FreshRow, Prepared
<1>3. row \in Batches /\ row.phase = "attempting" /\ row.before = disk[f] /\ row.tx = batches[b].tx
      /\ row.file = f /\ row.bound = k /\ row.after = batches[b].after
      /\ row.failure = batches[b].failure /\ row.preparing = batches[b].preparing
      /\ row.rewritten = batches[b].rewritten /\ row.renewed = batches[b].renewed
  <2>1. disk[f] \in Contents
    BY <1>2 DEF TypeOK
  <2> QED
    BY <1>0, <1>1, <1>2, <2>1 DEF Batches, Phases
<1> HIDE DEF row
<1>4. /\ Len(batches') = Len(batches) /\ batches'[b] = row
      /\ \A c \in Journal : c # b => batches'[c] = batches[c]
  BY <1>1, <1>2, <1>3, OneRow
<1>5. /\ Journal' = Journal
      /\ \A x \in Journal : batches'[x].tx = batches[x].tx /\ batches'[x].file = batches[x].file
                            /\ batches'[x].rewritten = batches[x].rewritten
                            /\ batches'[x].renewed = batches[x].renewed
  BY <1>0, <1>3, <1>4 DEF Journal
<1>6. \A g : On(g)' = On(g)
  BY <1>5 DEF On
<1>7. ASSUME NEW c \in Journal
      PROVE  (Written(c)' <=> Written(c)) /\ (Standing(c)' <=> Standing(c))
  <2>1. c # 0 /\ disk' = disk /\ batches'[c].file = batches[c].file /\ On(batches[c].file) \subseteq Journal
    BY <1>1, <1>5 DEF Journal, On
  <2>2. b \in On(batches[c].file) => batches[c].file = f
    BY <1>0 DEF On
  <2>3. \A x \in On(batches[c].file) : (batches'[x].before = c) =>
            batches[x].before = c \/ disk[batches[c].file] = c
    BY <1>3, <1>4, <2>1, <2>2
  <2>4. \A x \in On(batches[c].file) : (batches[x].before = c) => batches'[x].before = c
    BY <1>2, <1>4, <2>1
  <2>5. Written(c)' <=> Written(c)
    BY <1>6, <2>1, <2>3, <2>4 DEF Written
  <2> QED
    BY <1>5, <2>5 DEF Standing
<1>8. ASSUME Undisturbed(f)' PROVE Chain(f)' /\ \A c \in On(f)' : Evidence(c)'
  <2>1. Undisturbed(f)
    BY <1>1, <1>6, <1>8 DEF Undisturbed
  <2>2. Chain(f) /\ (\A c \in On(f) : Evidence(c)) /\ On(f) \subseteq Journal
    BY <1>2, <2>1 DEF StackInv, On
  <2>3. ~Standing(b) /\ disk[f] # b
    BY <1>0, <1>2, <2>2 DEF Evidence, Standing, Written
  <2>4. /\ disk'[f] # 0 => disk'[f] \in On(f)' /\ ~batches'[disk'[f]].rewritten
        /\ disk[f] # 0 => disk[f] \in On(f) /\ disk[f] < b
    <3>1. disk[f] # 0 => disk[f] \in On(f) /\ ~batches[disk[f]].rewritten
      BY <2>2 DEF Chain
    <3>2. disk[f] \in Nat
      BY <1>2, <2>2, ChainOf
    <3> QED
      BY <1>1, <1>2, <1>5, <1>6, <2>2, <2>3, <3>1, <3>2
  <2>5. ASSUME NEW x \in On(f) PROVE Link(f, x)'
    <3>1. Link(f, x) /\ x \in Journal /\ disk' = disk
      BY <1>1, <2>2 DEF Chain
    <3>2. CASE x = b
      <4>1. batches'[x].before = disk[f] /\ ~Standing(x)'
        BY <1>3, <1>4, <1>7, <2>3, <3>1, <3>2
      <4>2. \A c \in On(f) : (c < b /\ Standing(c)) => c <= disk[f]
        BY <2>2 DEF Chain, Link
      <4>3. \A c \in On(f)' : (c < x /\ Standing(c)') => c <= disk[f]
        BY <1>6, <1>7, <2>2, <3>2, <4>2
      <4> QED
        BY <1>6, <2>4, <3>2, <4>1, <4>3 DEF Link
    <3>3. CASE x # b
      <4>1. batches'[x] = batches[x]
        BY <1>4, <3>1, <3>3
      <4>2. batches[x].before # 0 => batches[x].before \in Journal
        BY <2>2, <3>1 DEF Link
      <4> QED
        BY <1>5, <1>6, <1>7, <2>2, <3>1, <4>1, <4>2 DEF Link
    <3> QED
      BY <3>2, <3>3
  <2>6. ASSUME NEW c \in On(f) PROVE Evidence(c)'
    <3>1. Evidence(c) /\ c \in Journal
      BY <2>2
    <3>2. CASE c = b
      <4>1. ~Standing(b)'
        BY <1>2, <1>7, <2>3
      <4> QED
        BY <1>2, <1>3, <1>4, <3>1, <3>2, <4>1 DEF Evidence
    <3>3. CASE c # b
      BY <1>4, <1>7, <3>1, <3>3 DEF Evidence
    <3> QED
      BY <3>2, <3>3
  <2> QED
    BY <1>6, <2>4, <2>5, <2>6 DEF Chain
<1>9. ASSUME NEW g \in Files, g # f, Undisturbed(g)'
      PROVE  Chain(g)' /\ \A c \in On(g)' : Evidence(c)'
  <2>1. b \notin On(g) /\ On(g) \subseteq Journal
    BY <1>0, <1>9 DEF On
  <2> QED
    BY <1>1, <1>2, <1>4, <1>6, <1>9, <2>1, SameStack
<1>10. Effects(k)
  <2>1. edits <= edits'
    BY <1>1, <1>2, WorkspaceTransactionsAssumption DEF TypeOK
  <2>2. \A c \in Journal : Ages(batches[c], batches'[c])
    BY <1>0, <1>1, <1>2, <1>3, <1>4 DEF Ages, Prepared
  <2>3. \A g : On(g) \subseteq Journal
    BY DEF On
  <2> QED
    BY <1>1, <1>5, <1>7, <2>1, <2>2, <2>3 DEF Effects
<1>11. FilePart(k)'
  <2>1. actor'[k].pc = "started"
    BY <1>1, <1>2, GoesTo DEF PCs, Writing
  <2> QED
    BY <1>0, <1>1, <1>2, <1>3, <1>4, <1>5, <2>1, WriterPart DEF Writing
<1>12. StackStep(k)
  BY <1>7, <1>10, SameStanding
<1> QED
  BY <1>8, <1>9, <1>10, <1>11, <1>12, StackKept

\* The mutation pushes its batch, unless it comes late.
LEMMA MutatedFile ==
  ASSUME Inv, Inv', StackInv, Next, NEW k \in Actors, Moves(k), Mutate(k)
  PROVE  StackInv' /\ StackStep(k)
<1>0. PICK b, f : b = Writes(k) /\ f = batches[b].file
  OBVIOUS
<1>1. /\ actor[k].pc = "checked" /\ disk' = [disk EXCEPT ![f] = b]
      /\ late' = IF k = fence[Workspace] THEN late ELSE late \cup {b}
      /\ UNCHANGED <<claims, batches, edits>> /\ Goes(k, "mutated")
  BY <1>0 DEF Mutate, LateBy
<1>2. /\ TypeOK /\ b \in Journal /\ f \in Files /\ batches[b] \in Batches /\ b \in On(f)
      /\ FreshRow(batches[b]) /\ batches[b].tx = k /\ disk \in [Files -> Contents]
      /\ b \in Nat /\ b # 0
  <2>1. b \in Journal /\ f \in Files /\ batches[b] \in Batches /\ batches[b].tx = k
    BY <1>0, <1>1, WriterRow DEF Writing
  <2> QED
    BY <1>0, <2>1, Types DEF Inv, TypeOK, On, StackInv, FreshInv, Journal
<1>3. Journal' = Journal /\ \A g : On(g)' = On(g)
  BY <1>1 DEF Journal, On
<1>4. disk'[f] = b /\ \A g \in Files : g # f => disk'[g] = disk[g]
  BY <1>1, <1>2
<1>5. ASSUME NEW c \in Journal, Written(c)', ~Written(c) PROVE c = b
  <2>1. batches[c].file \in Files
    BY <1>2, Types
  <2>2. disk'[batches[c].file] = c /\ disk[batches[c].file] # c
    BY <1>1, <1>3, <1>5 DEF Written
  <2> QED
    BY <1>4, <2>1, <2>2
<1>6. ASSUME Undisturbed(f)'
      PROVE  /\ batches[b].bound = k /\ Undisturbed(f) /\ batches[b].phase = "attempting"
             /\ claims[f] = k /\ disk[f] = batches[b].before /\ \A c \in On(f) : c <= b
             /\ k = fence[Workspace] /\ ~batches[b].renewed
  <2>0. k = fence[Workspace]
    BY <1>1, <1>2, <1>3, <1>6 DEF Undisturbed
  <2>1. batches[b].bound = k
    <3>1. /\ batches[b].tx <= batches[b].bound /\ batches[b].bound <= fence[Workspace]
          /\ batches[b].tx = k /\ batches[b].bound \in Nat /\ k \in Nat
      BY <1>2, Types DEF StackInv, BoundInv, Inv, LeaseInv
    <3> QED
      BY <2>0, <3>1
  <2>2. Undisturbed(f)
    BY <1>1, <1>3, <1>6, <2>0 DEF Undisturbed
  <2> QED
    BY <1>0, <1>1, <2>0, <2>1, <2>2, WriterAlone DEF Writing
<1>7. ASSUME Undisturbed(f)'
      PROVE  /\ Chain(f)' /\ \A c \in On(f)' : Evidence(c)'
             /\ Written(b)' /\ Standing(b)'
             /\ \A c \in On(f) : c # b => (Written(c)' <=> Written(c)) /\ (Standing(c)' <=> Standing(c))
  <2>1. Chain(f) /\ (\A c \in On(f) : Evidence(c)) /\ On(f) \subseteq Journal
    BY <1>2, <1>6, <1>7 DEF StackInv, On
  <2>2. ~batches[b].rewritten /\ batches[b].failure = None
    BY <1>2, <1>6, <1>7 DEF FreshRow, Prepared
  <2>3. ASSUME NEW c \in On(f), c # b
        PROVE  (Written(c)' <=> Written(c)) /\ (Standing(c)' <=> Standing(c))
    <3>1. batches[c].file = f /\ c \in Journal
      BY <2>1 DEF On
    <3>2. disk[f] = c => \E x \in On(f) : batches[x].before = c
      BY <1>2, <1>6, <1>7
    <3>3. Written(c)' <=> Written(c)
      BY <1>1, <1>3, <1>4, <2>3, <3>1, <3>2 DEF Written
    <3> QED
      BY <1>1, <3>3 DEF Standing
  <2>4. disk'[f] # 0 => disk'[f] \in On(f)' /\ ~batches'[disk'[f]].rewritten
    BY <1>1, <1>2, <1>3, <1>4, <2>2
  <2>5. ASSUME NEW x \in On(f) PROVE Link(f, x)'
    <3>1. Link(f, x) /\ x <= b /\ x \in Nat
      BY <1>6, <1>7, <1>2, <2>1, ChainOf DEF Chain
    <3>2. Standing(x)' => (batches[x].before # 0 => ~batches[batches[x].before].rewritten)
      <4>1. CASE x = b
        BY <1>6, <1>7, <2>1, <4>1 DEF Chain
      <4>2. CASE x # b
        BY <2>3, <3>1, <4>2 DEF Link
      <4> QED
        BY <4>1, <4>2
    <3>3. \A c \in On(f) : (c < x /\ Standing(c)') => Standing(c)
      <4>1. ~(b < x)
        BY <1>2, <3>1
      <4> QED
        BY <2>3, <4>1
    <3> QED
      BY <1>1, <1>3, <1>4, <3>1, <3>2, <3>3 DEF Link
  <2>6. ASSUME NEW c \in On(f) PROVE Evidence(c)'
    <3>1. Evidence(c)
      BY <2>1
    <3>2. CASE c = b
      <4>1. batches[b].before # None
        BY <1>2, WorkspaceTransactionsAssumption DEF Batches, Contents, BatchIds
      <4> QED
        BY <1>1, <1>6, <1>7, <2>2, <3>1, <3>2, <4>1 DEF Evidence
    <3>3. CASE c # b
      BY <1>1, <2>3, <3>1, <3>3 DEF Evidence
    <3> QED
      BY <3>2, <3>3
  <2>7. Written(b)' /\ Standing(b)'
    BY <1>0, <1>1, <1>4, <2>2 DEF Written, Standing
  <2> QED
    BY <1>3, <2>3, <2>4, <2>5, <2>6, <2>7 DEF Chain
<1>8. ASSUME NEW g \in Files, g # f, Undisturbed(g)'
      PROVE  /\ Chain(g)' /\ \A c \in On(g)' : Evidence(c)'
             /\ \A c \in On(g) : (Written(c)' <=> Written(c)) /\ (Standing(c)' <=> Standing(c))
  BY <1>1, <1>2, <1>3, <1>4, <1>8, SameStack
<1>9. Effects(k)
  <2>1. edits <= edits' /\ late \subseteq late'
    BY <1>1, <1>2, WorkspaceTransactionsAssumption DEF TypeOK
  <2>2. \A g : On(g) \subseteq Journal
    BY DEF On
  <2>3. \A c \in Journal : Ages(batches[c], batches'[c])
    BY <1>1 DEF Ages
  <2>4. \A g \in Files : (disk'[g] # disk[g] /\ Undisturbed(g)') => MayTouch(k, g)
    BY <1>4, <1>6 DEF MayTouch
  <2>5. ASSUME NEW g \in Files, NEW c \in On(g), Written(c)', ~Written(c), Undisturbed(g)'
        PROVE  batches[c].phase \in Prepared
    <3>1. c = b /\ g = f
      BY <1>0, <1>5, <2>5 DEF On
    <3> QED
      BY <1>6, <2>5, <3>1 DEF Prepared
  <2> QED
    BY <1>1, <1>3, <2>1, <2>2, <2>3, <2>4, <2>5 DEF Effects
<1>10. FilePart(k)'
  <2>1. actor'[k].pc = "mutated"
    BY <1>1, <1>2, GoesTo DEF PCs, Writing
  <2> QED
    BY <1>0, <1>1, <1>4, <1>6, <2>1, WriterPart DEF Writing
<1>11. batches[b].bound = k => batches[b].phase = "attempting" /\ batches[b].proof = "full"
  BY <1>0, <1>1, WriterRow DEF Writing, Stages
<1>12. ASSUME NEW g \in Files, Undisturbed(g)', NEW c \in On(g)
       PROVE  /\ Written(c) \/ batches[c].rewritten => (Written(c) \/ batches[c].rewritten)'
              /\ Standing(c) => Standing(c)'
              /\ (Standing(c)' /\ ~Standing(c)) => c = b /\ g = f
  <2>1. CASE g = f
    BY <1>1, <1>7, <1>12, <2>1
  <2>2. CASE g # f
    BY <1>1, <1>8, <1>12, <2>2
  <2> QED
    BY <2>1, <2>2
<1>13. StackStep(k)
  BY <1>1, <1>6, <1>9, <1>11, <1>12 DEF StackStep
<1> QED
  BY <1>7, <1>8, <1>9, <1>10, <1>13, StackKept

-----------------------------------------------------------------------------
(* Leaving the body, and the list of a recovery *)

\* Marking batches for recovery changes no evidence.
LEMMA DesiredSteady ==
  ASSUME TypeOK, NEW k \in Actors, NEW S, S \subseteq Eligible(k), Desired(S),
         UNCHANGED <<disk, edits, late>>
  PROVE  SteadyRows /\ \A c \in Journal : Calm(c)
<1>1. Len(batches) \in Nat /\ \A b \in Journal : batches[b] \in Batches
  BY Types
<1>2. batches' = [b \in Journal |->
            IF b \in S THEN [batches[b] EXCEPT !.phase = "recovery_desired"] ELSE batches[b]]
  BY DEF Desired
<1>3. ASSUME NEW b \in Journal
      PROVE  batches'[b] \in Batches /\ Steady(batches[b], batches'[b]) /\ Calm(b)
  <2>1. CASE b \in S
    <3>1. batches'[b] = [batches[b] EXCEPT !.phase = "recovery_desired"] /\ batches[b] \in Batches
          /\ batches[b].phase # "planned"
      BY <1>1, <1>2, <2>1 DEF Eligible
    <3> QED
      BY <3>1 DEF Batches, Phases, Steady, Ages, Calm, Prepared
  <2>2. CASE b \notin S
    BY <1>1, <1>2, <2>2 DEF Steady, Ages, Calm
  <2> QED
    BY <2>1, <2>2
<1>4. batches' \in [1..Len(batches) -> Batches]
  BY <1>2, <1>3 DEF Journal
<1> QED
  BY <1>1, <1>3, <1>4, AsJournal DEF SteadyRows

\* A rollback begins with all claims, if it has its lease.
LEMMA RollbackBegins ==
  ASSUME Inv, Inv', StackInv, Next, NEW k \in Actors, Moves(k),
         RaiseAndRollBack(k) \/ RaiseAndAbandon(k) \/ ExitCleanly(k)
  PROVE  StackInv' /\ StackStep(k)
<1>1. /\ TypeOK /\ actor[k].pc \in InBody /\ UNCHANGED <<leaseVars, claims, disk, edits, late>>
      /\ actor \in [Actors -> ActorStates]
  BY DEF RaiseAndRollBack, RaiseAndAbandon, ExitCleanly, InBody, Inv, TypeOK
<1>2. PICK S : S \subseteq Eligible(k) /\ (Desired(S) \/ UNCHANGED batches)
  <2>1. CASE RaiseAndRollBack(k)
    BY <2>1 DEF RaiseAndRollBack
  <2>2. CASE RaiseAndAbandon(k)
    <3>1. PICK b \in Eligible(k) : Desired({c \in Eligible(k) : c < b})
      BY <2>2 DEF RaiseAndAbandon
    <3>2. {c \in Eligible(k) : c < b} \subseteq Eligible(k)
      OBVIOUS
    <3> QED
      BY <3>1, <3>2
  <2>3. CASE ExitCleanly(k)
    <3>1. Desired(IF k \in Automatic THEN PendingOwn(k) ELSE {}) \/ UNCHANGED batches
      BY <2>3 DEF ExitCleanly
    <3>2. (IF k \in Automatic THEN PendingOwn(k) ELSE {}) \subseteq Eligible(k)
      BY DEF PendingOwn, Eligible
    <3> QED
      BY <3>1, <3>2
  <2> QED
    BY <2>1, <2>2, <2>3
<1>3. SteadyRows /\ \A c \in Journal : Calm(c)
  <2>1. CASE Desired(S)
    BY <1>1, <1>2, <2>1, DesiredSteady
  <2>2. CASE UNCHANGED batches
    BY <1>1, <2>2 DEF SteadyRows, Steady, Ages, Calm
  <2> QED
    BY <1>2, <2>1, <2>2
<1>4. \/ actor'[k].pc = "abandoned"
      \/ actor'[k].pc = "rolling" /\ actor'[k].why # "recover"
  <2>1. \/ Goes(k, "abandoned")
        \/ \E why \in {"rollback", "commit"} : \E T :
              actor' = [actor EXCEPT ![k] = Works("rolling", why, T)]
    BY DEF RaiseAndRollBack, RaiseAndAbandon, ExitCleanly
  <2>2. CASE Goes(k, "abandoned")
    BY <1>1, <2>2, GoesTo DEF PCs
  <2>3. ASSUME NEW why \in {"rollback", "commit"}, NEW T,
               actor' = [actor EXCEPT ![k] = Works("rolling", why, T)]
        PROVE  actor'[k].pc = "rolling" /\ actor'[k].why # "recover"
    <3>1. actor'[k] = Works("rolling", why, T)
      BY <1>1, <2>3
    <3> QED
      BY <3>1 DEF Works, Idle
  <2> QED
    BY <2>1, <2>2, <2>3
<1>5. FilePart(k)'
  <2>1. CASE actor'[k].pc = "abandoned"
    BY <2>1, RestingPart DEF Writing, Rolling, Restoring
  <2>2. CASE actor'[k].pc = "rolling" /\ actor'[k].why # "recover"
    <3>1. Current(k)' => \A f \in Files : claims'[f] = k
      BY <1>1 DEF Inv, ActorInv, HolderInv, Current, leaseVars
    <3> QED
      BY <2>2, <3>1 DEF FilePart, WriterFile, OwnClaims, Lists, PastInv, RestoredInv, MemoInv, Writing,
         Restoring
  <2> QED
    BY <1>4, <2>1, <2>2
<1> QED
  BY <1>3, <1>5, SteadyKept DEF On

\* A recovery lists every write it interrupted.
LEMMA PendingListed ==
  ASSUME Inv, Inv', StackInv, Next, NEW k \in Actors, Moves(k), ListPending(k)
  PROVE  StackInv' /\ StackStep(k)
<1>1. UNCHANGED <<leaseVars, claims, batches, disk, edits, late>> /\ actor \in [Actors -> ActorStates]
  BY DEF ListPending, Inv, TypeOK
<1>2. /\ actor'[k].pc = "rolling" /\ actor'[k].why = "recover"
      /\ actor'[k].todo = {b \in Journal : IsPending(b)}
  BY <1>1 DEF ListPending, Works, Idle
<1>3. \A b \in Journal' : batches'[b].phase = "attempting" => b \in actor'[k].todo
  BY <1>1, <1>2 DEF IsPending, Unfinished, Journal
<1>4. FilePart(k)'
  BY <1>2, <1>3 DEF FilePart, WriterFile, OwnClaims, Lists, PastInv, RestoredInv, MemoInv, Writing,
     Restoring
<1> QED
  BY <1>1, <1>4, AlikeKept DEF AlikeRows, Alike

-----------------------------------------------------------------------------
(* Rolling back and recovering *)

\* The part of an actor that goes on with its list.
LEMMA RollingPart ==
  ASSUME StackInv, NEW k \in Actors, actor[k].pc \in Rolling, actor'[k].pc \in Rolling,
         actor'[k].why = actor[k].why, leaseVars' = leaseVars, Journal' = Journal,
         claims' = claims \/ actor[k].why = "recover",
         \A b \in Journal : batches'[b].phase = "attempting" =>
            batches[b].phase = "attempting" /\ (b \in actor[k].todo => b \in actor'[k].todo),
         PastInv(k)' /\ RestoredInv(k)' /\ MemoInv(k)'
  PROVE  FilePart(k)'
<1>1. Current(k)' <=> Current(k)
  BY DEF Current, leaseVars
<1>2. OwnClaims(k) /\ Lists(k)
  BY DEF StackInv, FilePart
<1>3. OwnClaims(k)'
  BY <1>1, <1>2 DEF OwnClaims
<1>4. Lists(k)'
  BY <1>1, <1>2 DEF Lists
<1>5. WriterFile(k)'
  BY DEF WriterFile, Writing, Rolling, Restoring
<1> QED
  BY <1>3, <1>4, <1>5 DEF FilePart

\* A recovery that is between two batches, or done with one, has read nothing.
LEMMA ReadsNothing ==
  ASSUME NEW k \in Actors, actor'[k].pc \in {"rolling", "settling"}
  PROVE  PastInv(k)' /\ RestoredInv(k)' /\ MemoInv(k)'
BY DEF PastInv, RestoredInv, MemoInv, Restoring

\* What a recovery is at.
LEMMA TargetIsNewest ==
  ASSUME Inv, NEW k \in Actors, actor[k].todo # {} \/ actor[k].pc \in {"inspected", "settling"} \cup Restoring,
         NEW x, x = Target(k)
  PROVE  /\ TypeOK /\ actor[k].todo # {} /\ x \in actor[k].todo /\ x \in Journal /\ batches[x] \in Batches
         /\ batches[x].file \in Files /\ disk[batches[x].file] \in Contents /\ x \in On(batches[x].file)
         /\ \A y \in actor[k].todo : y <= x
<1>1. TypeOK /\ actor[k].todo \subseteq Journal
  BY ActorType DEF Inv
<1>2. /\ actor[k].todo # {} /\ x \in actor[k].todo /\ x \in Journal /\ batches[x] \in Batches
      /\ batches[x].file \in Files /\ disk[batches[x].file] \in Contents
  BY TargetOf
<1>3. actor[k].todo \in SUBSET (0..Len(batches)) /\ Len(batches) \in Nat
  BY <1>1, Types DEF Journal
<1>4. \A y \in actor[k].todo : y <= x
  BY <1>2, <1>3, NewestIsLast DEF Target, NextToRecover
<1> QED
  BY <1>1, <1>2, <1>4 DEF On

\* A recovery reads, or is done with a batch that it leaves alone.
LEMMA ReadingPart ==
  ASSUME Inv, Inv', StackInv, Next, NEW k \in Actors, Moves(k),
         UNCHANGED <<leaseVars, claims, batches, disk, edits, late>>,
         actor[k].pc \in Rolling, actor'[k].pc \in Rolling, actor'[k].why = actor[k].why,
         \/ actor'[k].todo = actor[k].todo
         \/ /\ actor'[k].todo = actor[k].todo \ {Target(k)}
            /\ actor[k].why = "recover" => batches[Target(k)].phase # "attempting",
         PastInv(k)', RestoredInv(k)', MemoInv(k)'
  PROVE  StackInv' /\ StackStep(k)
<1>1. AlikeRows /\ Journal' = Journal
  BY DEF AlikeRows, Alike, Journal
<1>2. OwnClaims(k) /\ Lists(k) /\ (Current(k)' <=> Current(k))
  BY DEF StackInv, FilePart, Current, leaseVars
<1>3. OwnClaims(k)' /\ Lists(k)'
  BY <1>1, <1>2 DEF OwnClaims, Lists
<1>4. WriterFile(k)'
  BY DEF WriterFile, Writing, Rolling, Restoring
<1> QED
  BY <1>1, <1>3, <1>4, AlikeKept DEF FilePart

\* A recovery marks the batch it is at.
LEMMA MarkedPart ==
  ASSUME Inv, Inv', StackInv, Next, NEW k \in Actors, Moves(k),
         UNCHANGED <<leaseVars, claims, disk, edits, late>>,
         actor[k].pc \in Rolling, actor'[k].pc \in Rolling, actor'[k].why = actor[k].why,
         NEW x \in Journal, x = Target(k), NEW row \in Batches, SetBatch(x, row),
         row.tx = batches[x].tx, row.file = batches[x].file, row.before = batches[x].before,
         row.rewritten = batches[x].rewritten, row.renewed = batches[x].renewed,
         row.after = batches[x].after, batches[x].phase # "planned",
         row.phase \in {"recovery_desired", "recovering", "recovery_failed"},
         row.preparing => batches[x].preparing /\ row.failure = batches[x].failure,
         \/ row.failure = batches[x].failure
         \/ Undisturbed(batches[x].file) /\ Standing(x) => row.failure # batches[x].before,
         actor'[k].todo \in {actor[k].todo, actor[k].todo \ {x}},
         PastInv(k)', RestoredInv(k)', MemoInv(k)'
  PROVE  StackInv' /\ StackStep(k) /\ batches'[x] = row
<1>1. TypeOK /\ Steady(batches[x], row)
  BY DEF Inv, Steady, Ages, Prepared
<1>2. SteadyRows /\ batches'[x] = row /\ \A c \in Journal : c # x => Calm(c)
  BY <1>1, OneSteadyRow
<1>3. ASSUME NEW f \in Files, Undisturbed(f), NEW c \in On(f) PROVE Calm(c)
  <2>1. CASE c # x
    BY <1>2, <2>1 DEF On
  <2>2. CASE c = x
    <3>1. Undisturbed(batches[x].file)
      BY <1>3, <2>2 DEF On
    <3> QED
      BY <1>2, <2>2, <3>1 DEF Calm
  <2> QED
    BY <2>1, <2>2
<1>4. Journal' = Journal /\ \A c \in Journal : c # x => batches'[c] = batches[c]
  BY <1>1, OneRow DEF Journal
<1>5. \A b \in Journal : batches'[b].phase = "attempting" =>
         batches[b].phase = "attempting" /\ (b \in actor[k].todo => b \in actor'[k].todo)
  BY <1>2, <1>4
<1>6. FilePart(k)'
  BY <1>4, <1>5, RollingPart
<1> QED
  BY <1>2, <1>3, <1>6, SteadyKept

\* A recovery of a batch takes its snapshot, or passes it over.
LEMMA InspectedFile ==
  ASSUME Inv, Inv', StackInv, Next, NEW k \in Actors, Moves(k),
         SkipRecovered(k) \/ Inspect(k) \/ PassOver(k) \/ SkipUnproven(k)
  PROVE  StackInv' /\ StackStep(k)
<1>1. /\ actor[k].pc \in {"rolling", "inspected"} /\ actor[k].pc \in Rolling /\ actor[k].todo # {}
      /\ UNCHANGED <<leaseVars, claims, batches, disk, edits, late>> /\ TypeOK
  BY DEF SkipRecovered, Inspect, PassOver, SkipUnproven, AtBatch, Rolling, Inv
<1>2. CASE SkipRecovered(k)
  <2>1. actor'[k].pc = "settling" /\ actor'[k].why = actor[k].why /\ actor'[k].todo = actor[k].todo
    BY <1>1, <1>2, GoesTo DEF SkipRecovered, PCs
  <2> QED
    BY <1>1, <2>1, ReadsNothing, ReadingPart DEF Rolling
<1>3. CASE Inspect(k)
  <2> DEFINE row == batches[Target(k)]
             memo == Snapshot(row)
  <2>1. memo \in Snapshots /\ row.phase # "planned" /\ Notes(k, "inspected", memo)
    BY <1>1, <1>3, TargetOf, SnapshotType DEF Inspect
  <2> HIDE DEF memo
  <2>2. /\ actor'[k].pc = "inspected" /\ actor'[k].memo = memo /\ actor'[k].why = actor[k].why
        /\ actor'[k].todo = actor[k].todo
    BY <1>1, <2>1, NotesTo DEF PCs
  <2>3. Target(k)' = Target(k)
    BY <2>2, SameTarget
  <2>4. PastInv(k)' /\ RestoredInv(k)'
    BY <2>2 DEF PastInv, RestoredInv, Restoring
  <2>5. Snapshot(row)' = memo
    BY <1>1, <2>3 DEF memo, Snapshot, Missing
  <2>6. MemoInv(k)'
    BY <1>1, <2>1, <2>2, <2>3, <2>5 DEF MemoInv
  <2> QED
    BY <1>1, <2>2, <2>4, <2>6, ReadingPart DEF Rolling
<1>4. CASE PassOver(k) \/ SkipUnproven(k)
  <2>1. GivesUp(k) /\ (actor[k].why = "recover" => batches[Target(k)].phase # "attempting")
    BY <1>4 DEF PassOver, SkipUnproven
  <2>2. /\ actor'[k].pc = "rolling" /\ actor'[k].why = actor[k].why
        /\ actor'[k].todo = actor[k].todo \ {Target(k)}
    BY <1>1, <2>1, GivesUpTo
  <2> QED
    BY <1>1, <2>1, <2>2, ReadsNothing, ReadingPart DEF Rolling
<1> QED
  BY <1>2, <1>3, <1>4

\* A batch is taken over with the snapshot of its file that was read before.
LEMMA TakenOverFile ==
  ASSUME Inv, Inv', StackInv, Next, NEW k \in Actors, Moves(k), TakeOver(k)
  PROVE  StackInv' /\ StackStep(k)
<1>0. PICK x, memo : x = Target(k) /\ memo = actor[k].memo
  OBVIOUS
<1> DEFINE row == [batches[x] EXCEPT !.phase = "recovery_desired", !.bound = k,
                                     !.failure = memo, !.preparing = FALSE]
           A == actor[k].active \ {x}
           s == [actor[k] EXCEPT !.pc = "rolling", !.active = A, !.memo = None]
<1>1. /\ actor[k].pc = "inspected" /\ actor[k].pc \in Rolling /\ Current(k)
      /\ batches[x].phase \in {"attempting", "recovering"} /\ SetBatch(x, row)
      /\ actor' = [actor EXCEPT ![k].pc = "rolling", ![k].active = A, ![k].memo = None]
      /\ UNCHANGED <<leaseVars, claims, disk, edits, late>>
  BY <1>0 DEF TakeOver, Rolling
<1>2. /\ x \in Journal /\ batches[x] \in Batches /\ TypeOK /\ batches[x].file \in Files /\ x \in On(batches[x].file)
      /\ actor \in [Actors -> ActorStates] /\ actor[k] \in ActorStates
  BY <1>0, <1>1, TargetIsNewest DEF TypeOK
<1>3. actor' = [actor EXCEPT ![k] = s]
  BY <1>1, <1>2 DEF ActorStates
<1>4. s \in ActorStates /\ s.pc = "rolling" /\ s.why = actor[k].why /\ s.todo = actor[k].todo
  BY <1>2 DEF ActorStates, PCs
<1> HIDE DEF s
<1>5. actor'[k].pc = "rolling" /\ actor'[k].why = actor[k].why /\ actor'[k].todo = actor[k].todo
  BY <1>2, <1>3, <1>4, Becomes
<1>6. memo \in Snapshots \cup {None}
  BY <1>0, <1>2 DEF ActorStates
<1>7. /\ row \in Batches /\ row.phase = "recovery_desired" /\ row.failure = memo /\ ~row.preparing
      /\ row.tx = batches[x].tx /\ row.file = batches[x].file /\ row.before = batches[x].before
      /\ row.rewritten = batches[x].rewritten /\ row.renewed = batches[x].renewed
      /\ row.after = batches[x].after
  BY <1>2, <1>6 DEF Batches, Phases
<1>8. (Undisturbed(batches[x].file) /\ Standing(x)) => memo # batches[x].before
  <2> SUFFICES ASSUME Undisturbed(batches[x].file), Standing(x) PROVE memo # batches[x].before
    OBVIOUS
  <2>1. memo = Snapshot(batches[x])
    BY <1>0, <1>1 DEF StackInv, FilePart, MemoInv, Current
  <2>2. Chain(batches[x].file)
    BY <1>2 DEF StackInv
  <2> QED
    BY <1>2, <2>1, <2>2, SnapshotDiffers
<1> HIDE DEF row
<1>9. PastInv(k)' /\ RestoredInv(k)' /\ MemoInv(k)'
  BY <1>5, ReadsNothing
<1> QED
  BY <1>0, <1>1, <1>2, <1>5, <1>7, <1>8, <1>9, MarkedPart DEF Rolling

\* A recovery is asked for again, is started and fails without a change of evidence.
LEMMA StartedRecoveryFile ==
  ASSUME Inv, Inv', StackInv, Next, NEW k \in Actors, Moves(k),
         AskAgain(k) \/ StartRecovery(k) \/ RecoveryFails(k)
  PROVE  StackInv' /\ StackStep(k)
<1>0. PICK x : x = Target(k)
  OBVIOUS
<1>1. /\ actor[k].pc \in Rolling /\ actor[k].todo # {} /\ TypeOK
      /\ UNCHANGED <<leaseVars, claims, disk, edits, late>>
  BY DEF AskAgain, StartRecovery, RecoveryFails, AtBatch, Rolling, Restoring, Inv, ActorInv, TodoInv
<1>2. /\ x \in Journal /\ batches[x] \in Batches
  BY <1>0, <1>1, TargetIsNewest
<1>3. ASSUME NEW phase \in {"recovery_desired", "recovering", "recovery_failed"},
             NEW bound \in Actors, batches[x].phase # "planned",
             SetBatch(x, [batches[x] EXCEPT !.phase = phase, !.bound = bound]),
             actor'[k].pc \in {"rolling", "restoring"}, actor'[k].why = actor[k].why,
             actor'[k].todo \in {actor[k].todo, actor[k].todo \ {x}},
             actor'[k].pc = "restoring" => phase = "recovering" /\ actor'[k].todo = actor[k].todo
      PROVE  StackInv' /\ StackStep(k)
  <2> DEFINE row == [batches[x] EXCEPT !.phase = phase, !.bound = bound]
  <2>1. /\ row \in Batches /\ row.phase = phase /\ row.failure = batches[x].failure
        /\ row.preparing = batches[x].preparing
        /\ row.tx = batches[x].tx /\ row.file = batches[x].file /\ row.before = batches[x].before
        /\ row.rewritten = batches[x].rewritten /\ row.renewed = batches[x].renewed
        /\ row.after = batches[x].after
    BY <1>2, <1>3 DEF Batches, Phases
  <2>2. SetBatch(x, row)
    BY <1>3
  <2> HIDE DEF row
  <2>3. batches'[x] = row
    BY <1>1, <1>2, <2>1, <2>2, OneRow
  <2>4. PastInv(k)' /\ RestoredInv(k)' /\ MemoInv(k)'
    <3>1. CASE actor'[k].pc = "rolling"
      BY <3>1, ReadsNothing
    <3>2. CASE actor'[k].pc = "restoring"
      <4>1. Target(k)' = x
        BY <1>0, <1>3, <3>2, SameTarget
      <4> QED
        BY <1>3, <2>1, <2>3, <3>2, <4>1 DEF PastInv, RestoredInv, MemoInv, Prepared
    <3> QED
      BY <1>3, <3>1, <3>2
  <2> QED
    BY <1>0, <1>1, <1>2, <1>3, <2>1, <2>2, <2>4, MarkedPart DEF Rolling, Restoring
<1>4. k \in Actors /\ batches[x].bound \in Actors
  BY <1>2 DEF Batches
<1>5. CASE AskAgain(k)
  BY <1>0, <1>3, <1>4, <1>5 DEF AskAgain, AtBatch
<1>6. CASE StartRecovery(k)
  <2>1. /\ actor'[k].pc = "restoring" /\ actor'[k].why = actor[k].why /\ actor'[k].todo = actor[k].todo
    BY <1>1, <1>6, GoesTo DEF StartRecovery, PCs, Restoring
  <2> QED
    BY <1>0, <1>3, <1>4, <1>6, <2>1 DEF StartRecovery
<1>7. CASE RecoveryFails(k)
  <2>1. /\ actor'[k].pc = "rolling" /\ actor'[k].why = actor[k].why
        /\ actor'[k].todo = actor[k].todo \ {x}
    BY <1>0, <1>1, <1>7, GivesUpTo DEF RecoveryFails
  <2>2. batches[x].phase # "planned"
    BY <1>0, <1>7 DEF RecoveryFails, HoldsAttempt
  <2>3. SetBatch(x, [batches[x] EXCEPT !.phase = "recovery_failed", !.bound = batches[x].bound])
    BY <1>0, <1>2, <1>7 DEF RecoveryFails, Batches
  <2> QED
    BY <1>3, <1>4, <2>1, <2>2, <2>3
<1> QED
  BY <1>5, <1>6, <1>7

\* A recovery that succeeded leaves nothing of its write.
LEMMA RecoveredFile ==
  ASSUME Inv, Inv', StackInv, Next, NEW k \in Actors, Moves(k), FinishRecovery(k)
  PROVE  StackInv' /\ StackStep(k)
<1>0. PICK x, f : x = Target(k) /\ f = batches[x].file
  OBVIOUS
<1> DEFINE row == [batches[x] EXCEPT !.phase = "recovery_succeeded"]
<1>1. /\ actor[k].pc = "restored" /\ actor[k].pc \in Rolling
      /\ UNCHANGED <<leaseVars, claims, disk, edits, late>>
      /\ batches[x].phase = "recovering" /\ batches[x].bound = k /\ SetBatch(x, row)
      /\ Goes(k, "settling")
  BY <1>0 DEF FinishRecovery, HoldsAttempt, Rolling, Restoring
<1>2. TypeOK /\ x \in Journal /\ batches[x] \in Batches
  BY <1>0, <1>1, TargetIsNewest DEF Restoring
<1>3. /\ actor'[k].pc = "settling" /\ actor'[k].why = actor[k].why
      /\ actor'[k].todo = actor[k].todo
  BY <1>1, <1>2, GoesTo DEF PCs
<1>4. /\ row \in Batches /\ row.phase = "recovery_succeeded" /\ row.failure = batches[x].failure
      /\ row.preparing = batches[x].preparing /\ row.after = batches[x].after
      /\ row.before = batches[x].before
      /\ Steady(batches[x], row)
  BY <1>1, <1>2 DEF Batches, Phases, Steady, Ages, Prepared
<1> HIDE DEF row
<1>5. SteadyRows /\ batches'[x] = row /\ \A c \in Journal : c # x => Calm(c)
  BY <1>1, <1>2, <1>4, OneSteadyRow
<1>6. ASSUME NEW g \in Files, Undisturbed(g), NEW c \in On(g) PROVE Calm(c) \/ Evidence(c)'
  <2>1. CASE c # x
    BY <1>5, <2>1 DEF On
  <2>2. CASE c = x
    <3>1. g = f /\ Evidence(x)
      BY <1>0, <1>6, <2>2 DEF On, StackInv
    <3>2. ~Standing(x)
      BY <1>0, <1>1, <1>6, <3>1 DEF StackInv, FilePart, RestoredInv
    <3>3. ~Standing(x)'
      BY <1>2, <1>5, <3>2, SteadyStack
    <3> QED
      BY <1>4, <1>5, <2>2, <3>1, <3>3 DEF Evidence
  <2> QED
    BY <2>1, <2>2
<1>7. Journal' = Journal /\ \A c \in Journal : c # x => batches'[c] = batches[c]
  BY <1>1, <1>2, <1>4, OneRow DEF Journal
<1>8. FilePart(k)'
  BY <1>1, <1>3, <1>4, <1>5, <1>7, ReadsNothing, RollingPart DEF Rolling
<1> QED
  BY <1>5, <1>6, <1>8, SteadyKept

\* Its claims and its artifact go.
LEMMA SettledFile ==
  ASSUME Inv, Inv', StackInv, Next, NEW k \in Actors, Moves(k), Settle(k)
  PROVE  StackInv' /\ StackStep(k)
<1>0. PICK x : x = Target(k)
  OBVIOUS
<1> DEFINE T == actor[k].todo \ {x}
<1>1. /\ actor[k].pc = "settling" /\ actor[k].pc \in Rolling
      /\ UNCHANGED <<leaseVars, disk, edits, late>>
  BY DEF Settle, Rolling
<1>2. /\ x \in actor[k].todo /\ x \in Journal /\ batches[x] \in Batches /\ TypeOK
      /\ actor \in [Actors -> ActorStates] /\ batches[x].phase = "recovery_succeeded"
  BY <1>0, <1>1, TargetIsNewest DEF TypeOK, Inv, ActorInv, TodoInv, Target
<1>3. PICK deleted \in BOOLEAN :
         /\ SetBatch(x, [batches[x] EXCEPT !.artifact = @ /\ ~deleted])
         /\ actor' = [actor EXCEPT ![k].pc = "rolling", ![k].todo = @ \ {x},
               ![k].failed = IF actor[k].why = "commit" /\ batches'[x].artifact
                             THEN @ \cup {x} ELSE @]
  BY <1>0 DEF Settle
<1> DEFINE artifact == batches[x].artifact /\ ~deleted
           row == [batches[x] EXCEPT !.artifact = artifact]
           F == IF actor[k].why = "commit" /\ batches'[x].artifact
                THEN actor[k].failed \cup {x} ELSE actor[k].failed
<1>4. SetBatch(x, row) /\ artifact \in BOOLEAN
  BY <1>2, <1>3 DEF Batches
<1>5. actor' = [actor EXCEPT ![k].pc = "rolling", ![k].todo = T, ![k].failed = F]
  BY <1>2, <1>3 DEF ActorStates
<1> HIDE DEF artifact, T, F
<1>6. row \in Batches /\ Alike(batches[x], row)
  BY <1>2, <1>4 DEF Batches, Alike
<1> HIDE DEF row
<1>7. actor'[k].pc = "rolling" /\ actor'[k].why = actor[k].why /\ actor'[k].todo = T
  BY <1>2, <1>5 DEF ActorStates
<1>8. /\ Len(batches') = Len(batches) /\ batches'[x] = row /\ Journal' = Journal
      /\ \A c \in Journal : c # x => batches'[c] = batches[c]
  BY <1>2, <1>4, <1>6, OneRow DEF Journal
<1>9. AlikeRows
  BY <1>1, <1>6, <1>8 DEF AlikeRows, Alike
<1>10. claims' = claims \/ actor[k].why = "recover"
  BY <1>2 DEF Settle, TypeOK
<1>11. \A c \in Journal : batches'[c].phase = batches[c].phase
  BY <1>9 DEF AlikeRows, Alike
<1>12. \A c \in Journal : batches'[c].phase = "attempting" =>
          batches[c].phase = "attempting" /\ (c \in actor[k].todo => c \in actor'[k].todo)
  BY <1>2, <1>7, <1>11 DEF T
<1>13. FilePart(k)'
  BY <1>1, <1>7, <1>8, <1>10, <1>12, ReadsNothing, RollingPart DEF Rolling
<1> QED
  BY <1>9, <1>13, AlikeKept

-----------------------------------------------------------------------------
(* The restore *)

\* The evidence is of the write of its batch, or of what it restores.
LEMMA ExpectsOwn ==
  ASSUME TypeOK, NEW x \in Journal, Evidence(x), HasRestore(batches[x], x)
  PROVE  ExpectedCurrent(batches[x], x) \in {x, batches[x].before}
<1> DEFINE row == batches[x]
<1>1. row.after \in {None, x} /\ (row.preparing => row.failure = row.before)
  BY DEF Evidence
<1>2. CASE row.after # None
  BY <1>1, <1>2 DEF ExpectedCurrent
<1>3. CASE row.after = None /\ x = row.seen
  BY <1>1, <1>3 DEF ExpectedCurrent
<1>4. CASE row.after = None /\ x # row.seen
  <2>1. row.failure \in {x, row.before}
    BY <1>1, <1>4 DEF HasRestore
  <2> QED
    BY <1>1, <1>4, <2>1 DEF ExpectedCurrent
<1> QED
  BY <1>2, <1>3, <1>4

\* The attempt is checked and the file compared with the evidence, before and after
\* it is written.
LEMMA ComparedFile ==
  ASSUME Inv, Inv', StackInv, Next, NEW k \in Actors, Moves(k),
         CheckAttempt(k) \/ Compare(k) \/ Verify(k)
  PROVE  StackInv' /\ StackStep(k)
<1>0. PICK x, f : x = Target(k) /\ f = batches[x].file
  OBVIOUS
<1>1. /\ actor[k].pc \in Restoring /\ actor[k].pc \in Rolling
      /\ UNCHANGED <<leaseVars, claims, batches, disk, edits, late>>
  BY DEF CheckAttempt, Compare, Verify, Restoring, Rolling
<1>2. /\ TypeOK /\ x \in Journal /\ f \in Files /\ x \in On(f) /\ batches[x] \in Batches
      /\ disk[f] \in Contents /\ Journal' = Journal
  BY <1>0, <1>1, TargetIsNewest DEF Journal
<1>3. \E pc \in {"authorized", "restored", "refused", "writing"} :
         Goes(k, pc) \/ \E memo \in Snapshots \cup {None} : Notes(k, pc, memo)
  <2>1. CASE CheckAttempt(k)
    <3> DEFINE memo == ExpectedCurrent(batches[x], x)
    <3>1. memo \in Snapshots \cup {None}
      BY <1>0, <1>1, TargetOf, ExpectedType DEF Restoring
    <3> HIDE DEF memo
    <3>2. Notes(k, "authorized", memo) \/ Goes(k, "restored") \/ Goes(k, "refused")
      BY <1>0, <2>1 DEF CheckAttempt, memo
    <3> QED
      BY <3>1, <3>2
  <2>2. CASE Compare(k)
    <3>1. disk[f] \in Snapshots \cup {None} /\ None \in Snapshots \cup {None}
      BY <1>2 DEF Snapshots
    <3> QED
      BY <1>0, <2>2, <3>1 DEF Compare
  <2>3. CASE Verify(k)
    BY <2>3 DEF Verify
  <2> QED
    BY <2>1, <2>2, <2>3
<1>4. /\ actor'[k].pc \in {"authorized", "restored", "refused", "writing"}
      /\ actor'[k].why = actor[k].why /\ actor'[k].todo = actor[k].todo
      /\ \A pc \in PCs : Goes(k, pc) => actor'[k].pc = pc
      /\ \A pc \in PCs, memo \in Snapshots \cup {None} :
            Notes(k, pc, memo) => actor'[k].pc = pc /\ actor'[k].memo = memo
  <2>1. {"authorized", "restored", "refused", "writing"} \subseteq PCs
    BY DEF PCs, Restoring
  <2> QED
    BY <1>2, <1>3, <2>1, GoesTo, NotesTo
<1>5. Target(k)' = x
  BY <1>0, <1>4, SameTarget
<1>6. PastInv(k)'
  BY <1>0, <1>1, <1>2, <1>5 DEF StackInv, FilePart, PastInv
<1>7. ASSUME Undisturbed(f)
      PROVE  Chain(f) /\ Evidence(x) /\ (disk[f] = batches[x].before => ~Standing(x))
  <2>1. Chain(f) /\ Evidence(x)
    BY <1>2, <1>7 DEF StackInv
  <2> QED
    BY <1>0, <1>2, <2>1, StandingIsSeen
<1>8. ASSUME Undisturbed(f)
      PROVE  /\ actor'[k].pc = "restored" => ~Standing(x)
             /\ actor'[k].pc = "authorized" => actor'[k].memo \in {x, batches[x].before}
             /\ (actor'[k].pc = "writing" /\ k = fence[Workspace]) => disk[f] = x
  <2>1. CASE CheckAttempt(k)
    <3> DEFINE memo == ExpectedCurrent(batches[x], x)
    <3>1. memo \in Snapshots \cup {None}
      BY <1>0, <1>1, TargetOf, ExpectedType DEF Restoring
    <3>2. HasRestore(batches[x], x) => memo \in {x, batches[x].before}
      BY <1>2, <1>7, <1>8, ExpectsOwn
    <3> HIDE DEF memo
    <3>3. \/ HasRestore(batches[x], x) /\ Notes(k, "authorized", memo)
          \/ ~HasRestore(batches[x], x) /\ HasNoop(batches[x]) /\ Goes(k, "restored")
          \/ Goes(k, "refused")
      BY <1>0, <2>1 DEF CheckAttempt, memo
    <3>4. HasNoop(batches[x]) => ~Standing(x)
      BY <1>7, <1>8 DEF HasNoop, Evidence
    <3>5. {"authorized", "restored", "refused"} \subseteq PCs
      BY DEF PCs, Restoring
    <3> QED
      BY <1>4, <3>1, <3>2, <3>3, <3>4, <3>5
  <2>2. CASE Compare(k)
    <3>1. /\ actor[k].pc = "authorized" /\ disk[f] \in Snapshots \cup {None}
          /\ {"refused", "restored", "writing"} \subseteq PCs
      BY <1>2, <2>2 DEF Compare, Snapshots, PCs, Restoring
    <3>2. k = fence[Workspace] => actor[k].memo \in {x, batches[x].before}
      BY <1>0, <1>8, <3>1 DEF StackInv, FilePart, MemoInv, Restoring
    <3>3. \/ Notes(k, "refused", None)
          \/ disk[f] = batches[x].before /\ Notes(k, "restored", None)
          \/ /\ disk[f] \in {batches[x].before, actor[k].memo} /\ disk[f] # batches[x].before
             /\ Notes(k, "writing", disk[f])
      BY <1>0, <2>2 DEF Compare, CanRestore, IsRestored
    <3> QED
      BY <1>4, <1>7, <1>8, <3>1, <3>2, <3>3
  <2>3. CASE Verify(k)
    <3>1. \/ disk[f] = batches[x].before /\ Goes(k, "restored")
          \/ Goes(k, "refused")
      BY <1>0, <2>3 DEF Verify, IsRestored
    <3>2. {"refused", "restored"} \subseteq PCs
      BY DEF PCs, Restoring
    <3> QED
      BY <1>4, <1>7, <1>8, <3>1, <3>2
  <2> QED
    BY <2>1, <2>2, <2>3
<1>9. /\ Undisturbed(f)' <=> Undisturbed(f)
      /\ Standing(x)' <=> Standing(x)
      /\ k = fence'[Workspace] <=> k = fence[Workspace]
  <2>1. \A g : On(g)' = On(g)
    BY <1>1, <1>2 DEF On
  <2> QED
    BY <1>1, <2>1 DEF Undisturbed, Standing, Written, leaseVars
<1>10. RestoredInv(k)'
  BY <1>0, <1>1, <1>5, <1>8, <1>9 DEF RestoredInv
<1>11. MemoInv(k)'
  BY <1>0, <1>1, <1>4, <1>5, <1>8, <1>9 DEF MemoInv
<1> QED
  BY <1>1, <1>4, <1>6, <1>10, <1>11, ReadingPart DEF Rolling, Restoring

\* The file is written: unless it comes late, this pops the top of the stack.
LEMMA WrittenBackFile ==
  ASSUME Inv, Inv', StackInv, Next, NEW k \in Actors, Moves(k), WriteBack(k)
  PROVE  StackInv' /\ StackStep(k)
<1>0. PICK x, f, p : x = Target(k) /\ f = batches[x].file /\ p = batches[x].before
  OBVIOUS
<1>1. /\ actor[k].pc = "writing" /\ actor[k].pc \in Rolling /\ actor[k].pc \in Restoring
      /\ disk' = [disk EXCEPT ![f] = p] /\ Renews(x) /\ late' = LateBy(k, x)
      /\ Notes(k, "written", None) /\ UNCHANGED <<leaseVars, claims, edits>>
  BY <1>0 DEF WriteBack, WriteBackOf, Rolling, Restoring
<1>2. /\ TypeOK /\ x \in actor[k].todo /\ x \in Journal /\ batches[x] \in Batches /\ f \in Files
      /\ x \in On(f) /\ (\A y \in actor[k].todo : y <= x) /\ disk \in [Files -> Contents]
  BY <1>0, <1>1, TargetIsNewest DEF TypeOK
<1>3. /\ actor'[k].pc = "written" /\ actor'[k].why = actor[k].why
      /\ actor'[k].todo = actor[k].todo /\ Target(k)' = x
  BY <1>0, <1>1, <1>2, NotesTo, SameTarget DEF PCs, Restoring
<1>4. batches[x].phase \notin Prepared /\ batches[x].phase # "planned" /\ batches[x].phase # "attempting"
  BY <1>0, <1>1 DEF StackInv, FilePart, PastInv, Prepared
<1>5. /\ Journal' = Journal
      /\ \A c \in Journal :
            /\ batches'[c].tx = batches[c].tx /\ batches'[c].file = batches[c].file
            /\ batches'[c].phase = batches[c].phase /\ batches'[c].before = batches[c].before
            /\ batches'[c].after = batches[c].after /\ batches'[c].failure = batches[c].failure
            /\ batches'[c].preparing = batches[c].preparing /\ batches'[c].bound = batches[c].bound
            /\ c # x => batches'[c].rewritten = batches[c].rewritten
            /\ batches[c].phase = "planned" \/ batches[c].file # f => batches'[c].renewed = batches[c].renewed
      /\ batches'[x].rewritten
  <2>1. \A c \in Journal : batches[c].rewritten \in BOOLEAN /\ batches[c].renewed \in BOOLEAN
    BY <1>2, Types DEF Batches
  <2>2. Journal' = Journal
    BY <1>1, <1>2, RenewedRows
  <2>3. ASSUME NEW c \in Journal
        PROVE  /\ batches'[c].tx = batches[c].tx /\ batches'[c].file = batches[c].file
               /\ batches'[c].phase = batches[c].phase /\ batches'[c].before = batches[c].before
               /\ batches'[c].after = batches[c].after /\ batches'[c].failure = batches[c].failure
               /\ batches'[c].preparing = batches[c].preparing /\ batches'[c].bound = batches[c].bound
    BY <1>1, <1>2, RenewedRows
  <2>4. ASSUME NEW c \in Journal
        PROVE  /\ batches'[c].rewritten = (batches[c].rewritten \/ (c = x /\ batches[c].phase # "planned"))
               /\ batches'[c].renewed = (batches[c].renewed
                     \/ (batches[c].file = batches[x].file /\ batches[c].phase # "planned"))
    BY <1>1, <1>2, RenewedRows
  <2>5. ASSUME NEW c \in Journal
        PROVE  /\ c # x => batches'[c].rewritten = batches[c].rewritten
               /\ batches[c].phase = "planned" \/ batches[c].file # f =>
                     batches'[c].renewed = batches[c].renewed
    <3>1. ASSUME c # x PROVE batches'[c].rewritten = batches[c].rewritten
      <4>1. batches'[c].rewritten = (batches[c].rewritten \/ FALSE)
        BY <2>4, <3>1
      <4> QED
        BY <2>1, <4>1
    <3>2. ASSUME batches[c].phase = "planned" \/ batches[c].file # f
          PROVE  batches'[c].renewed = batches[c].renewed
      <4>1. batches'[c].renewed = (batches[c].renewed \/ FALSE)
        BY <1>0, <2>4, <3>2, Zenon
      <4> QED
        BY <2>1, <4>1
    <3> QED
      BY <3>1, <3>2
  <2>6. batches'[x].rewritten
    BY <1>2, <1>4, <2>4
  <2> QED
    BY <2>2, <2>3, <2>5, <2>6
<1>6. \A g : On(g)' = On(g) /\ On(g) \subseteq Journal
  BY <1>5 DEF On
<1>7. disk'[f] = p /\ \A g \in Files : g # f => disk'[g] = disk[g]
  BY <1>1, <1>2
<1>8. ASSUME NEW c \in Journal, Written(c)' PROVE Written(c)
  <2>1. batches[c].file \in Files
    BY <1>2, Types
  <2>2. CASE disk'[batches[c].file] = c
    <3>1. CASE batches[c].file = f
      BY <1>0, <1>2, <1>7, <2>2, <3>1 DEF Written
    <3>2. CASE batches[c].file # f
      BY <1>7, <2>1, <2>2, <3>2 DEF Written
    <3> QED
      BY <3>1, <3>2
  <2>3. CASE disk'[batches[c].file] # c
    BY <1>5, <1>6, <1>8, <2>3 DEF Written
  <2> QED
    BY <2>2, <2>3
<1>9. ~Standing(x)' /\ \A c \in Journal : Standing(c)' => Standing(c)
  <2>1. \A c \in Journal : ~batches'[c].rewritten => ~batches[c].rewritten
    BY <1>5
  <2> QED
    BY <1>5, <1>8, <2>1 DEF Standing
\* A write that comes late disturbs the file.
<1>10. ASSUME Undisturbed(f)'
       PROVE  /\ k = fence[Workspace] /\ Undisturbed(f) /\ disk[f] = x /\ Pops(k, x) /\ MayTouch(k, f)
  <2>1. k = fence[Workspace]
    BY <1>1, <1>2, <1>6, <1>10 DEF Undisturbed, LateBy
  <2>2. Undisturbed(f)
    BY <1>1, <1>6, <1>10, <2>1 DEF Undisturbed, LateBy
  <2>3. disk[f] = x /\ Current(k)
    BY <1>0, <1>1, <2>1, <2>2 DEF StackInv, FilePart, MemoInv, Inv, ActorInv, AttemptInv, HoldsAttempt
  <2>4. MayTouch(k, f)
    <3>1. CASE actor[k].why = "recover"
      <4>1. \A y \in On(f) : batches[y].phase = "attempting" => y <= x
        BY <1>1, <1>2, <1>6, <2>3, <3>1 DEF StackInv, FilePart, Lists
      <4> QED
        BY <1>2, <1>4, <2>1, <4>1 DEF MayTouch
    <3>2. CASE actor[k].why # "recover"
      BY <1>1, <1>2, <2>1, <2>3, <3>2 DEF StackInv, FilePart, OwnClaims, MayTouch
    <3> QED
      BY <3>1, <3>2
  <2> QED
    BY <1>0, <1>1, <2>1, <2>2, <2>3, <2>4 DEF Pops
<1>11. ASSUME Undisturbed(f)'
       PROVE  /\ Chain(f)' /\ \A c \in On(f)' : Evidence(c)'
              /\ \A c \in On(f) : (c # x /\ Written(c)) => Written(c)'
  <2>1. Chain(f) /\ (\A c \in On(f) : Evidence(c)) /\ disk[f] = x
    BY <1>2, <1>10, <1>11 DEF StackInv
  <2>2. Standing(x)
    BY <1>0, <1>2, <2>1, ChainOf DEF Standing, Written
  <2>3. /\ p \in Nat /\ p < x /\ x \in Nat /\ (p # 0 => p \in On(f) /\ ~batches[p].rewritten)
        /\ \A c \in On(f) : (c < x /\ Standing(c)) => c <= p
        /\ \A c \in On(f) : c \in Nat /\ batches[c].file = f /\ Link(f, c)
                            /\ batches[c].before \in Nat /\ batches[c].before < c
    <3>1. Link(f, x) /\ batches[x].before \in Nat /\ batches[x].before < x /\ x \in Nat
      BY <1>2, <2>1, ChainOf
    <3> QED
      BY <1>0, <1>2, <1>4, <2>1, <2>2, <3>1, ChainOf DEF Link
  <2>4. p # x
    BY <2>3
  <2>5. disk'[f] # 0 => disk'[f] \in On(f)' /\ ~batches'[disk'[f]].rewritten
    BY <1>5, <1>6, <1>7, <2>3, <2>4
  <2>6. ASSUME NEW c \in On(f), c # x, Written(c) PROVE Written(c)'
    BY <1>5, <1>6, <2>1, <2>3, <2>6 DEF Written
  <2>7. ASSUME NEW y \in On(f) PROVE Link(f, y)'
    <3>1. Link(f, y) /\ y \in Nat /\ batches'[y].before = batches[y].before
          /\ batches[y].before \in Nat /\ batches[y].before < y
          /\ batches'[y].phase = batches[y].phase
      BY <1>5, <1>6, <2>3
    <3>2. ASSUME Standing(y)'
          PROVE  y <= disk'[f] /\ (batches[y].before # 0 => ~batches'[batches[y].before].rewritten)
      <4>1. Standing(y) /\ y # x /\ y <= x
        BY <1>6, <1>9, <2>1, <3>1, <3>2 DEF Link
      <4>2. y < x
        BY <2>3, <3>1, <4>1
      <4>3. y <= disk'[f]
        BY <1>7, <2>3, <4>1, <4>2
      <4>4. batches[y].before # x
        BY <2>3, <3>1, <4>2
      <4>5. batches[y].before # 0 => batches[y].before \in Journal /\ ~batches[batches[y].before].rewritten
        BY <1>6, <3>1, <4>1 DEF Link
      <4> QED
        BY <1>5, <4>3, <4>4, <4>5
    <3>3. \A c \in On(f) : Standing(c)' => Standing(c)
      BY <1>6, <1>9
    <3> QED
      BY <1>6, <3>1, <3>2, <3>3 DEF Link
  <2>8. ASSUME NEW c \in On(f) PROVE Evidence(c)'
    <3>1. Evidence(c) /\ c \in Journal
      BY <1>6, <2>1
    <3>2. CASE c = x
      BY <1>4, <1>5, <1>9, <3>1, <3>2 DEF Evidence, Prepared
    <3>3. CASE c # x
      <4>1. Standing(c)' <=> Standing(c)
        BY <1>5, <1>9, <2>6, <3>1, <3>3 DEF Standing
      <4> QED
        BY <1>5, <3>1, <4>1 DEF Evidence
    <3> QED
      BY <3>2, <3>3
  <2> QED
    BY <1>6, <2>5, <2>6, <2>7, <2>8 DEF Chain
<1>12. ASSUME NEW g \in Files, g # f, Undisturbed(g)'
       PROVE  /\ Chain(g)' /\ \A c \in On(g)' : Evidence(c)'
              /\ \A c \in On(g) : (Written(c)' <=> Written(c)) /\ (Standing(c)' <=> Standing(c))
  <2>1. \A c \in On(g) : batches'[c] = batches[c]
    BY <1>0, <1>1, <1>12 DEF Renews, On
  <2>2. late \subseteq late'
    BY <1>1 DEF LateBy
  <2> QED
    BY <1>1, <1>2, <1>6, <1>7, <1>12, <2>1, <2>2, SameStack
<1>13. Effects(k)
  <2>1. edits <= edits' /\ late \subseteq late'
    BY <1>1, <1>2, WorkspaceTransactionsAssumption DEF TypeOK, LateBy
  <2>2. ASSUME NEW c \in Journal PROVE Ages(batches[c], batches'[c])
    <3>1. batches[c].phase \in Prepared => batches'[c].rewritten = batches[c].rewritten
      BY <1>4, <1>5
    <3>2. batches[c].rewritten => batches'[c].rewritten
      BY <1>5
    <3> QED
      BY <1>5, <3>1, <3>2 DEF Ages, Prepared
  <2>3. \A g \in Files : (disk'[g] # disk[g] /\ Undisturbed(g)') => MayTouch(k, g)
    BY <1>7, <1>10
  <2>4. \A g \in Files : \A c \in On(g) :
           (batches'[c].renewed # batches[c].renewed /\ Undisturbed(g)') => MayTouch(k, g)
    BY <1>5, <1>10 DEF On
  <2> QED
    BY <1>1, <1>5, <1>6, <1>8, <2>1, <2>2, <2>3, <2>4 DEF Effects
<1>14. FilePart(k)'
  <2>1. PastInv(k)' /\ RestoredInv(k)' /\ MemoInv(k)'
    BY <1>0, <1>2, <1>3, <1>4, <1>5, <1>7 DEF PastInv, RestoredInv, MemoInv
  <2> QED
    BY <1>1, <1>3, <1>5, <2>1, RollingPart DEF Rolling, Restoring
<1>15. ASSUME NEW g \in Files, Undisturbed(g)', NEW c \in On(g)
       PROVE  /\ Written(c) \/ batches[c].rewritten => (Written(c) \/ batches[c].rewritten)'
              /\ (Standing(c) /\ ~Standing(c)') => Pops(k, c)
              /\ ~(Standing(c)' /\ ~Standing(c))
  <2>1. c \in Journal
    BY <1>6
  <2>2. CASE c = x
    <3>1. g = f
      BY <1>0, <1>15, <2>2 DEF On
    <3> QED
      BY <1>5, <1>9, <1>10, <1>15, <2>2, <3>1
  <2>3. CASE c # x
    <3>1. Written(c) => Written(c)'
      BY <1>11, <1>12, <1>15, <2>3
    <3> QED
      BY <1>5, <1>9, <2>1, <2>3, <3>1 DEF Standing
  <2> QED
    BY <2>2, <2>3
<1>16. StackStep(k)
  BY <1>13, <1>15 DEF StackStep
<1> QED
  BY <1>11, <1>12, <1>13, <1>14, <1>16, StackKept

-----------------------------------------------------------------------------
(* The environment *)

\* Leases that lapse take nothing from a file, and an edit ends the stacks.
LEMMA UnseenStack ==
  ASSUME StackInv, UNCHANGED <<batches, claims, actor, late, fence>>,
         \A k \in Actors : Current(k)' => Current(k),
         UNCHANGED <<disk, edits>> \/ edits' # 0
  PROVE  StackInv'
<1>1. FreshInv' /\ BoundInv'
  BY DEF StackInv, FreshInv, BoundInv, Journal
<1>2. Journal' = Journal /\ \A g : On(g)' = On(g)
  BY DEF On, Journal
<1>3. \A f \in Files : Undisturbed(f)' => Undisturbed(f) /\ disk' = disk
  BY <1>2 DEF Undisturbed
<1>4. ASSUME disk' = disk
      PROVE  \A c : Standing(c)' <=> Standing(c)
  BY <1>2, <1>4 DEF Standing, Written
<1>5. ASSUME NEW f \in Files, Undisturbed(f)' PROVE Chain(f)' /\ \A c \in On(f)' : Evidence(c)'
  <2>1. Chain(f) /\ (\A c \in On(f) : Evidence(c)) /\ disk' = disk
    BY <1>3, <1>5 DEF StackInv
  <2>2. \A x \in On(f) : Link(f, x)'
    BY <1>2, <1>4, <2>1 DEF Chain, Link
  <2>3. \A c \in On(f) : Evidence(c)'
    BY <1>4, <2>1 DEF Evidence
  <2> QED
    BY <1>2, <2>1, <2>2, <2>3 DEF Chain
<1>6. ASSUME NEW k \in Actors PROVE FilePart(k)'
  <2>1. FilePart(k) /\ (Current(k)' => Current(k))
    BY DEF StackInv
  <2>2. PICK b, f, x, g : /\ b = Writes(k) /\ f = batches[b].file
                          /\ x = Target(k) /\ g = batches[x].file
    OBVIOUS
  <2>3. Writes(k)' = b /\ Target(k)' = x
    BY <1>2, <2>2, SameTarget DEF Writes, OwnBatches
  <2>4. \A h : Undisturbed(h)' => Undisturbed(h) /\ disk' = disk
    BY <1>2 DEF Undisturbed
  <2>5. WriterFile(k)'
    BY <1>2, <2>1, <2>2, <2>3, <2>4 DEF FilePart, WriterFile
  <2>6. OwnClaims(k)' /\ Lists(k)'
    BY <1>2, <2>1 DEF FilePart, OwnClaims, Lists
  <2>7. PastInv(k)' /\ RestoredInv(k)'
    BY <1>4, <2>1, <2>2, <2>3, <2>4 DEF FilePart, PastInv, RestoredInv
  <2>8. MemoInv(k)'
    BY <2>1, <2>2, <2>3, <2>4 DEF FilePart, MemoInv, Snapshot, Missing
  <2> QED
    BY <2>5, <2>6, <2>7, <2>8 DEF FilePart
<1> QED
  BY <1>1, <1>5, <1>6 DEF StackInv

\* No lease begins without its actor, and an edit is counted.
LEMMA UnseenLeases ==
  ASSUME Inv,
         \/ UNCHANGED wsVars \/ ListArtifacts \/ LeaseLapses
         \/ (\E k \in Actors : Heartbeat(k)) \/ \E f \in Files : Edit(f)
  PROVE  /\ UNCHANGED <<batches, claims, actor, late, fence, committed>>
         /\ \A k \in Actors : Current(k)' => Current(k)
         /\ UNCHANGED <<disk, edits>> \/ edits' # 0
<1>1. UNCHANGED <<batches, claims, actor, late, fence, committed>>
  BY DEF wsVars, leaseVars, ListArtifacts, LeaseLapses, Lapse, Heartbeat, Renew, Edit
<1>2. \A k \in Actors : Current(k)' => Current(k)
  <2>1. CASE UNCHANGED wsVars \/ ListArtifacts \/ \E f \in Files : Edit(f)
    BY <2>1 DEF wsVars, leaseVars, ListArtifacts, Edit, Current
  <2>2. CASE LeaseLapses \/ \E k \in Actors : Heartbeat(k)
    <3>1. Workspace \in Names /\ Names = {Workspace}
      BY Types DEF Inv
    <3>2. tenure[Workspace] # "free"
      BY <2>2, <3>1 DEF LeaseLapses, Heartbeat, Lapse, Renew
    <3> QED
      BY <1>1, <3>2 DEF Current
  <2> QED
    BY <2>1, <2>2
<1>3. UNCHANGED <<disk, edits>> \/ edits' # 0
  <2>1. CASE \E f \in Files : Edit(f)
    <3>1. edits \in Nat /\ edits' = edits + 1
      BY <2>1, WorkspaceTransactionsAssumption DEF Edit, Inv, TypeOK
    <3> QED
      BY <3>1
  <2>2. CASE ~\E f \in Files : Edit(f)
    BY <2>2 DEF wsVars, ListArtifacts, LeaseLapses, Heartbeat
  <2> QED
    BY <2>1, <2>2
<1> QED
  BY <1>1, <1>2, <1>3

LEMMA EnvironmentStack ==
  ASSUME Inv, StackInv,
         \/ UNCHANGED wsVars \/ ListArtifacts \/ LeaseLapses
         \/ (\E k \in Actors : Heartbeat(k)) \/ \E f \in Files : Edit(f)
  PROVE  StackInv'
BY UnseenLeases, UnseenStack

-----------------------------------------------------------------------------
(* Every step *)

LEMMA TransactionStack ==
  ASSUME Inv, Inv', StackInv, Next, NEW k \in Actors, Moves(k), TransactionStep(k)
  PROVE  StackInv' /\ StackStep(k)
<1>1. CASE Enter(k) \/ AcquireClaim(k) \/ EnterFails(k) \/ RaiseInRecordOnly(k) \/ CommitCleaned(k)
        \/ ReleaseLease(k)
  BY <1>1, LeasesAndClaims
<1>2. CASE \E f \in Files : Plan(k, f)
  BY <1>2, PlannedFile
<1>3. CASE Start(k) \/ BackUp(k) \/ Expect(k) \/ CheckAuthority(k) \/ Mutate(k)
  BY <1>3, StartedFile, PreparingSteps, MutatedFile
<1>4. CASE Observe(k) \/ Succeed(k) \/ Fail(k)
  BY <1>4, ObservedFile, SucceededFile, FailedFile
<1>5. CASE RaiseAndRollBack(k) \/ RaiseAndAbandon(k) \/ ExitCleanly(k)
  BY <1>5, RollbackBegins
<1>6. CASE RolledBack(k) \/ ReleaseClaim(k)
  BY <1>6, StopsAndCleanups, OneClaimReleased
<1>7. CASE MarkDeletion(k) \/ DeleteArtifact(k) \/ CommitCleanupUnderNewLease(k)
  BY <1>7, DeletionSteps, NewLeaseCleanup
<1> QED
  BY <1>1, <1>2, <1>3, <1>4, <1>5, <1>6, <1>7 DEF TransactionStep

LEMMA RecoveryStack ==
  ASSUME Inv, Inv', StackInv, Next, NEW k \in Actors, Moves(k),
         RecoveryStep(k) \/ SweepStep(k) \/ Crash(k)
  PROVE  StackInv' /\ StackStep(k)
<1>1. CASE Recover(k) \/ EndRecovery(k) \/ EndSweep(k)
  BY <1>1, LeasesAndClaims
<1>2. CASE ListPending(k)
  BY <1>2, PendingListed
<1>3. CASE SkipRecovered(k) \/ Inspect(k) \/ TakeOver(k) \/ PassOver(k) \/ SkipUnproven(k)
  BY <1>3, InspectedFile, TakenOverFile
<1>4. CASE AskAgain(k) \/ StartRecovery(k) \/ RecoveryFails(k)
  BY <1>4, StartedRecoveryFile
<1>5. CASE CheckAttempt(k) \/ Compare(k) \/ WriteBack(k) \/ Verify(k)
  BY <1>5, ComparedFile, WrittenBackFile
<1>6. CASE FinishRecovery(k) \/ Settle(k)
  BY <1>6, RecoveredFile, SettledFile
<1>7. CASE BeginSweep(k) \/ Crash(k)
  BY <1>7, StopsAndCleanups
<1> QED
  BY <1>1, <1>2, <1>3, <1>4, <1>5, <1>6, <1>7 DEF RecoveryStep, SweepStep

LEMMA NextStack == Inv /\ StackInv /\ [Next]_wsVars => StackInv'
<1> SUFFICES ASSUME Inv, StackInv, [Next]_wsVars PROVE StackInv'
  OBVIOUS
<1>1. Inv'
  BY NextInv
<1>2. CASE UNCHANGED wsVars
  BY <1>2, EnvironmentStack
<1>3. CASE Next
  BY <1>1, <1>3, ActorStep, TransactionStack, RecoveryStack, EnvironmentStack DEF Next
<1> QED
  BY <1>2, <1>3

\* The invariant holds in every reachable state.
LEMMA SpecStack == Spec => [](Inv /\ StackInv)
<1>1. Init => Inv /\ StackInv
  BY InitHolds, InitStack
<1>2. (Inv /\ StackInv) /\ [Next]_wsVars => (Inv /\ StackInv)'
  BY NextInv, NextStack
<1> QED
  BY <1>1, <1>2, PTL DEF Spec

-----------------------------------------------------------------------------
(* The theorem *)

\* A rolled back file is what it was: when the writes to a file from one batch
\* on are all recovered and those before it stand, restore_backup has left what
\* the file held before that batch, however transactions crash and are taken over,
\* and however often recover_pending_workspace_batches starts again.  Two things are
\* excluded: edits by other programs, and writes to the file by an actor that had
\* been superseded when it made them, which nothing in the code fences.
THEOREM RolledBackFilesAreRestored == Spec => []RolledBackMeansRestored
<1>1. Inv /\ StackInv => RolledBackMeansRestored
  BY RestoredFiles
<1> QED
  BY <1>1, SpecStack, PTL
=============================================================================
