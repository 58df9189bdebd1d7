------------------------- MODULE TreeBackupsProofs -------------------------
(***************************************************************************)
(* Theorems about TreeBackups, for all contents, backups and restores,     *)
(* whatever other programs do to the files and the objects.                *)
(*                                                                         *)
(* Nothing in the store is locked.  What holds it together is that a batch *)
(* which is cleaned up was recovered, and that a recovered batch is not    *)
(* written by its worker again, because the lease is gone (PhaseInv): a    *)
(* partial backup that has been cleaned up is never completed (CleanInv).  *)
(***************************************************************************)
EXTENDS TreeBackups, FiniteSetTheorems, SequenceTheorems, TLAPS

\* Where a worker is tells how much of its backup is captured.
Busy == {"inspect", "digest", "lookup", "copy", "install", "installed"}
WorkInv(b) ==
  /\ worker[b].pc = "idle" => batch[b].entries = <<>>
  /\ worker[b].pc \in Busy => Len(batch[b].entries) < Len(Entries[b])
  /\ worker[b].pc \in {"checkpoint", "succeed"} \/ batch[b].complete =>
       Len(batch[b].entries) = Len(Entries[b])
  /\ worker[b].pc \in {"lookup", "copy", "install", "installed"} =>
       worker[b].source.content \in Contents
  /\ batch[b].complete => worker[b].pc \in {"succeed", "ended"}

\* A batch that has failed or is recovered is not written by its worker again.
PhaseInv(b) ==
  /\ batch[b].phase = "failed" => worker[b].pc = "ended"
  /\ batch[b].phase = "recovered" => ~batch[b].leased \/ worker[b].pc = "ended"

\* Only partial backups are cleaned up, after their recovery, and nothing is
\* unlinked before the mark.
CleanInv(b) ==
  \A d \in Contents :
    /\ cleanup[b][d] # "none" =>
         batch[b].phase = "recovered" /\ ~batch[b].complete /\ d \in batch[b].partial
    /\ cleaner[b][d] # "none" => cleanup[b][d] # "none"

\* What a backup has captured is in the store, unless it was damaged or cleaned up.
Kept(d) == Stored(d) \/ d \in tampered \/ \E o \in Backups : cleanup[o][d] # "none"
KeptInv(b) == \A i \in 1..Len(batch[b].entries) : Kept(batch[b].entries[i].content)

\* Only a complete backup is restored.
RestoreInv(r) ==
  restore[r].pc # "idle" => restore[r].from \in Backups /\ batch[restore[r].from].complete

\* A file is as the restore has left it while no other program has written it.
WriterInv(p) ==
  \A b \in Backups : writer[p] = b =>
    /\ batch[b].complete
    /\ \E i \in Indices(b) : Entries[b][i] = p /\ Matches(batch[b].entries[i], file[p])

Inv ==
  /\ TypeOK /\ IsFiniteSet(tampered) /\ ObjectsAreWhole
  /\ \A b \in Backups : WorkInv(b) /\ PhaseInv(b) /\ CleanInv(b) /\ KeptInv(b)
  /\ \A r \in Restores : RestoreInv(r)
  /\ \A p \in Paths : WriterInv(p)

-----------------------------------------------------------------------------
LEMMA Constants ==
  /\ None \notin Contents /\ None \notin Backups /\ "other" \notin Backups
  /\ MaxOutside \in Nat /\ 0 \in 0..MaxOutside
  /\ \A b \in Backups : /\ Entries[b] \in Seq(STRING) /\ Len(Entries[b]) \in Nat \ {0}
                        /\ DOMAIN Entries[b] = Indices(b) /\ Indices(b) = 1..Len(Entries[b])
                        /\ \A i \in Indices(b) : Entries[b][i] \in Paths
  <1>1. \A b \in Backups : Entries[b] \in Seq(STRING) /\ Entries[b] # <<>>
    BY TreeBackupsAssumption
  <1>2. \A b \in Backups : /\ Len(Entries[b]) \in Nat \ {0} /\ DOMAIN Entries[b] = 1..Len(Entries[b])
    BY <1>1, EmptySeq, LenProperties
  <1>3. \A b \in Backups : \A i \in Indices(b) : Entries[b][i] \in Paths
    BY DEF Paths
  <1> QED
    BY <1>1, <1>2, <1>3, TreeBackupsAssumption DEF Indices

LEMMA Rows ==
  ASSUME TypeOK, NEW b \in Backups
  PROVE  /\ batch[b] \in Batches /\ worker[b] \in Workers
         /\ batch[b].entries \in Seq(Snapshots) /\ Len(batch[b].entries) \in Nat
         /\ Len(batch[b].entries) <= Len(Entries[b])
         /\ batch[b].leased \in BOOLEAN /\ batch[b].complete \in BOOLEAN
         /\ worker[b].snapshot \in Files /\ worker[b].source \in Files
         /\ worker[b].temp \in Contents \cup {None} /\ worker[b].pc \in Steps
  <1>1. batch[b] \in Batches /\ worker[b] \in Workers /\ Len(batch[b].entries) <= Len(Entries[b])
    BY DEF TypeOK
  <1>2. batch[b].entries \in Seq(Snapshots) /\ batch[b].leased \in BOOLEAN /\ batch[b].complete \in BOOLEAN
    BY <1>1 DEF Batches
  <1>3. Len(batch[b].entries) \in Nat
    BY <1>2, LenProperties
  <1> QED
    BY <1>1, <1>2, <1>3 DEF Workers

LEMMA IdleWorker ==
  /\ Absent \in Files /\ Idle \in Workers
  /\ \A pc \in Steps : LET w == [Idle EXCEPT !.pc = pc] IN w \in Workers /\ w.pc = pc
  <1>1. Absent \in Files
    BY Constants DEF Absent, Files
  <1>2. Idle \in Workers
    BY <1>1 DEF Idle, Workers, Steps
  <1> QED
    BY <1>1, <1>2 DEF Workers

LEMMA InitInv == Init => Inv
  <1> SUFFICES ASSUME Init PROVE Inv
    OBVIOUS
  <1>1. ASSUME NEW b \in Backups
        PROVE  /\ batch[b] \in Batches /\ batch[b].entries = <<>> /\ Len(batch[b].entries) = 0
               /\ ~batch[b].complete /\ batch[b].phase = "planned" /\ worker[b].pc = "idle"
               /\ Len(Entries[b]) \in Nat
    <2>1. <<>> \in Seq(Snapshots) /\ Len(<<>>) = 0
      OBVIOUS
    <2>2. {} \in SUBSET Contents
      OBVIOUS
    <2> QED
      BY <2>1, <2>2, Constants DEF Init, Batches, Idle
  <1>2. file \in [Paths -> Files]
    BY Constants DEF Init, Files
  <1>3. Resting \in RestoreStates /\ Resting.pc = "idle" /\ Resting.from = None
    BY DEF Resting, RestoreStates, RestoreSteps
  <1>4. TypeOK
    <2>1. batch \in [Backups -> Batches]
      BY <1>1 DEF Init
    <2>2. restore \in [Restores -> RestoreStates] /\ \A r \in Restores : restore[r].from = None
      BY <1>3 DEF Init
    <2>3. /\ cleanup \in [Backups -> [Contents -> CleanupStatuses]]
          /\ cleaner \in [Backups -> [Contents -> Cleaners]]
      BY DEF Init, CleanupStatuses, Cleaners
    <2>4. worker \in [Backups -> Workers] /\ object \in [Contents -> Contents \cup {None}]
      BY IdleWorker DEF Init
    <2>5. edits \in 0..MaxOutside /\ tampered \subseteq Contents /\ writer \in [Paths -> Backups \cup {"other"}]
      BY Constants DEF Init
    <2> QED
      BY <1>1, <1>2, <2>1, <2>2, <2>3, <2>4, <2>5 DEF TypeOK
  <1>5. IsFiniteSet(tampered)
    BY FS_EmptySet DEF Init
  <1>6. ObjectsAreWhole
    BY DEF Init, ObjectsAreWhole, Stored
  <1>7. ASSUME NEW b \in Backups PROVE WorkInv(b) /\ PhaseInv(b) /\ CleanInv(b) /\ KeptInv(b)
    BY <1>1 DEF Init, WorkInv, Busy, PhaseInv, CleanInv, KeptInv
  <1>8. \A r \in Restores : RestoreInv(r)
    BY <1>3 DEF Init, RestoreInv
  <1>9. \A p \in Paths : WriterInv(p)
    BY Constants DEF Init, WriterInv
  <1> QED
    BY <1>4, <1>5, <1>6, <1>7, <1>8, <1>9 DEF Inv

-----------------------------------------------------------------------------
(* A step that makes a backup: it writes the row of its batch and perhaps   *)
(* one object, under the name it has.                                       *)

Captures(b) ==
  \/ batch'[b].entries = batch[b].entries
  \/ /\ ~batch[b].complete
     /\ \E s \in Snapshots : Stored(s.content) /\ batch'[b].entries = Append(batch[b].entries, s)

RowKeeps(b) ==
  /\ batch[b].complete => batch'[b].complete
  /\ batch[b].phase = "recovered" => batch'[b].phase = "recovered" /\ batch'[b].complete = batch[b].complete
  /\ batch[b].partial \subseteq batch'[b].partial

Stores == \/ object' = object
          \/ \E d \in Contents : ~Stored(d) /\ object' = [object EXCEPT ![d] = d]

Works(b) ==
  /\ UNCHANGED others
  /\ batch' = [batch EXCEPT ![b] = batch'[b]] /\ batch'[b] \in Batches
  /\ worker' = [worker EXCEPT ![b] = worker'[b]] /\ worker'[b] \in Workers
  /\ Len(batch'[b].entries) <= Len(Entries[b])
  /\ Stores /\ Captures(b) /\ RowKeeps(b)
  /\ WorkInv(b)' /\ PhaseInv(b)'

\* The contents of a captured entry stay what they are.
LEMMA CapturesLen ==
  ASSUME Inv, NEW b \in Backups, Captures(b)
  PROVE  /\ Len(batch'[b].entries) \in Nat /\ Len(batch[b].entries) <= Len(batch'[b].entries)
         /\ \A i \in 1..Len(batch[b].entries) : batch'[b].entries[i] = batch[b].entries[i]
         /\ \A i \in 1..Len(batch'[b].entries) :
              i \in 1..Len(batch[b].entries) \/ Stored(batch'[b].entries[i].content)
  <1>1. batch[b].entries \in Seq(Snapshots) /\ Len(batch[b].entries) \in Nat
    BY Rows DEF Inv
  <1>2. ASSUME NEW s \in Snapshots
        PROVE  /\ Len(Append(batch[b].entries, s)) = Len(batch[b].entries) + 1
               /\ \A i \in 1..Len(batch[b].entries) : Append(batch[b].entries, s)[i] = batch[b].entries[i]
               /\ Append(batch[b].entries, s)[Len(batch[b].entries) + 1] = s
    BY <1>1, AppendProperties
  <1>3. CASE batch'[b].entries = batch[b].entries
    BY <1>1, <1>3
  <1>4. ASSUME NEW s \in Snapshots, Stored(s.content), batch'[b].entries = Append(batch[b].entries, s)
        PROVE  /\ Len(batch'[b].entries) \in Nat /\ Len(batch[b].entries) <= Len(batch'[b].entries)
               /\ \A i \in 1..Len(batch[b].entries) : batch'[b].entries[i] = batch[b].entries[i]
               /\ \A i \in 1..Len(batch'[b].entries) :
                    i \in 1..Len(batch[b].entries) \/ Stored(batch'[b].entries[i].content)
    <2> DEFINE m == Len(batch[b].entries)
    <2>1. /\ m \in Nat /\ Len(batch'[b].entries) = m + 1 /\ batch'[b].entries[m + 1] = s
          /\ \A i \in 1..m : batch'[b].entries[i] = batch[b].entries[i]
      BY <1>1, <1>2, <1>4
    <2> HIDE DEF m
    <2>2. \A i \in 1..(m + 1) : i \in 1..m \/ i = m + 1
      BY <2>1
    <2>3. /\ Len(batch'[b].entries) \in Nat /\ m <= Len(batch'[b].entries)
          /\ \A i \in 1..Len(batch'[b].entries) : i \in 1..m \/ Stored(batch'[b].entries[i].content)
      BY <1>4, <2>1, <2>2
    <2> QED
      BY <2>1, <2>3 DEF m
  <1> QED
    BY <1>3, <1>4 DEF Captures

LEMMA StoresKeeps ==
  ASSUME Inv, Stores
  PROVE  /\ object' \in [Contents -> Contents \cup {None}]
         /\ \A d : Stored(d) => Stored(d)'
         /\ tampered' = tampered => ObjectsAreWhole'
  <1>1. CASE object' = object
    BY <1>1 DEF Inv, TypeOK, ObjectsAreWhole, Stored, Whole
  <1>2. ASSUME NEW e \in Contents, ~Stored(e), object' = [object EXCEPT ![e] = e]
        PROVE  /\ object' \in [Contents -> Contents \cup {None}]
               /\ \A d : Stored(d) => Stored(d)'
               /\ tampered' = tampered => ObjectsAreWhole'
    <2>1. object \in [Contents -> Contents \cup {None}]
      BY DEF Inv, TypeOK
    <2>2. object' \in [Contents -> Contents \cup {None}] /\ object'[e] = e
          /\ \A d : d # e => object'[d] = object[d]
      BY <1>2, <2>1
    <2> QED
      BY <1>2, <2>2, Constants DEF Inv, ObjectsAreWhole, Stored, Whole
  <1> QED
    BY <1>1, <1>2 DEF Stores

LEMMA WorksInv ==
  ASSUME Inv, NEW b \in Backups, Works(b)
  PROVE  Inv'
  <1> USE DEF others
  <1>1. /\ UNCHANGED <<file, cleanup, cleaner, restore, edits, tampered, writer>>
        /\ \A c \in Backups \ {b} : batch'[c] = batch[c] /\ worker'[c] = worker[c]
    BY DEF Works, Inv, TypeOK
  <1>2. TypeOK'
    <2>1. batch' \in [Backups -> Batches] /\ worker' \in [Backups -> Workers]
      BY DEF Works, Inv, TypeOK
    <2>2. \A c \in Backups : Len(batch'[c].entries) <= Len(Entries[c])
      BY <1>1 DEF Works, Inv, TypeOK
    <2>3. object' \in [Contents -> Contents \cup {None}]
      BY StoresKeeps DEF Works
    <2> QED
      BY <1>1, <2>1, <2>2, <2>3 DEF Inv, TypeOK, Target
  <1>3. IsFiniteSet(tampered') /\ ObjectsAreWhole'
    BY <1>1, StoresKeeps DEF Works, Inv
  <1>4. ASSUME NEW c \in Backups
        PROVE  WorkInv(c)' /\ PhaseInv(c)'
    <2>1. CASE c = b
      BY <2>1 DEF Works
    <2>2. CASE c # b
      BY <1>1, <2>2 DEF Inv, WorkInv, PhaseInv
    <2> QED
      BY <2>1, <2>2
  <1>5. ASSUME NEW c \in Backups
        PROVE  CleanInv(c)'
    BY <1>1 DEF Inv, CleanInv, Works, RowKeeps
  <1>6. \A d : Kept(d) => Kept(d)'
    BY <1>1, StoresKeeps DEF Kept, Works
  <1>7. ASSUME NEW c \in Backups
        PROVE  KeptInv(c)'
    <2> SUFFICES ASSUME NEW i \in 1..Len(batch'[c].entries), NEW d, d = batch'[c].entries[i].content
                 PROVE  Kept(d)'
      BY DEF KeptInv, Kept, Stored
    <2>1. CASE c # b
      BY <1>1, <1>6, <2>1 DEF Inv, KeptInv
    <2>2. CASE c = b
      <3>1. /\ \A k \in 1..Len(batch[b].entries) : batch'[b].entries[k] = batch[b].entries[k]
            /\ \A k \in 1..Len(batch'[b].entries) :
                 k \in 1..Len(batch[b].entries) \/ Stored(batch'[b].entries[k].content)
        BY CapturesLen DEF Works
      <3>2. CASE i \in 1..Len(batch[b].entries)
        <4>1. Kept(d)
          BY <2>2, <3>1, <3>2 DEF Inv, KeptInv
        <4> QED
          BY <1>6, <4>1
      <3>3. CASE Stored(d)
        BY <1>6, <3>3 DEF Kept
      <3> QED
        BY <2>2, <3>1, <3>2, <3>3
    <2> QED
      BY <2>1, <2>2
  <1>8. \A c \in Backups : batch[c].complete =>
          batch'[c].complete /\ batch'[c].entries = batch[c].entries
    BY <1>1 DEF Works, Captures, RowKeeps
  <1>9. \A r \in Restores : RestoreInv(r)'
    BY <1>1, <1>8 DEF Inv, RestoreInv
  <1>10. ASSUME NEW p \in Paths PROVE WriterInv(p)'
    BY <1>1, <1>8 DEF Inv, WriterInv, Matches
  <1> QED
    BY <1>2, <1>3, <1>4, <1>5, <1>7, <1>9, <1>10 DEF Inv

\* A step in which only the place of the worker changes.
LEMMA FailsWorks ==
  ASSUME Inv, NEW b \in Backups, worker[b].pc \in Busy \cup {"checkpoint"}, Fails(b), UNCHANGED others
  PROVE  Works(b)
  <1>1. batch[b] \in Batches /\ batch \in [Backups -> Batches] /\ worker \in [Backups -> Workers]
        /\ Len(batch[b].entries) <= Len(Entries[b])
    BY Rows DEF Inv, TypeOK
  <1>2. UNCHANGED <<object, batch>> /\ worker'[b] \in Workers /\ worker'[b].pc = "failing"
        /\ worker' = [worker EXCEPT ![b] = worker'[b]]
    <2>1. "failing" \in Steps
      BY DEF Steps
    <2> QED
      BY <1>1, <2>1, IdleWorker DEF Fails
  <1>3. ~batch[b].complete /\ batch[b].phase # "failed" /\ (batch[b].phase = "recovered" => ~batch[b].leased)
    BY DEF Inv, WorkInv, PhaseInv, Busy
  <1>4. WorkInv(b)' /\ PhaseInv(b)'
    BY <1>2, <1>3 DEF WorkInv, PhaseInv, Busy
  <1> QED
    BY <1>1, <1>2, <1>4 DEF Works, Stores, Captures, RowKeeps

\* A step that goes on with the same entry.
LEMMA GoesOnWorks ==
  ASSUME Inv, NEW b \in Backups, NEW w \in Workers,
         worker[b].pc \in Busy, w.pc \in Busy,
         w.pc \in {"lookup", "copy", "install", "installed"} => w.source.content \in Contents,
         worker' = [worker EXCEPT ![b] = w], UNCHANGED batch, UNCHANGED others, Stores
  PROVE  Works(b)
  <1>1. batch[b] \in Batches /\ batch \in [Backups -> Batches] /\ worker \in [Backups -> Workers]
        /\ Len(batch[b].entries) <= Len(Entries[b])
    BY Rows DEF Inv, TypeOK
  <1>2. worker'[b] = w
    BY <1>1
  <1>3. /\ ~batch[b].complete /\ batch[b].phase # "failed" /\ (batch[b].phase = "recovered" => ~batch[b].leased)
        /\ Len(batch[b].entries) < Len(Entries[b])
    BY DEF Inv, WorkInv, PhaseInv, Busy
  <1>4. WorkInv(b)' /\ PhaseInv(b)'
    BY <1>2, <1>3 DEF WorkInv, PhaseInv, Busy
  <1> QED
    BY <1>1, <1>2, <1>4 DEF Works, Captures, RowKeeps

\* An entry is compared with its snapshot, and captured.
LEMMA ComparedWorks ==
  ASSUME Inv, NEW b \in Backups, NEW record \in Batches,
         worker[b].pc \in {"lookup", "install", "installed"}, Whole(worker[b].source.content),
         record.entries = batch[b].entries, record.phase = batch[b].phase,
         record.complete = batch[b].complete, record.leased = batch[b].leased,
         batch[b].partial \subseteq record.partial,
         Compared(b, record), UNCHANGED object, UNCHANGED others
  PROVE  Works(b)
  <1> DEFINE w == worker[b]
             captured == Append(batch[b].entries, w.snapshot)
             next == IF Len(captured) = Len(Entries[b]) THEN "checkpoint" ELSE "inspect"
  <1>1. batch[b] \in Batches /\ batch \in [Backups -> Batches] /\ worker \in [Backups -> Workers]
        /\ batch[b].entries \in Seq(Snapshots) /\ Len(batch[b].entries) \in Nat
        /\ Len(batch[b].entries) <= Len(Entries[b]) /\ w.snapshot \in Files /\ Len(Entries[b]) \in Nat
    BY Rows, Constants DEF Inv, TypeOK
  <1>2. /\ ~batch[b].complete /\ batch[b].phase # "failed" /\ (batch[b].phase = "recovered" => ~batch[b].leased)
        /\ Len(batch[b].entries) < Len(Entries[b]) /\ w.source.content \in Contents
    BY DEF Inv, WorkInv, PhaseInv, Busy
  <1>3. {"checkpoint", "inspect", "failing"} \subseteq Steps
    BY DEF Steps
  <1>4. CASE Unchanged(b)
    <2>1. w.snapshot \in Snapshots /\ Stored(w.snapshot.content)
      BY <1>1, <1>2, <1>4, Constants DEF Unchanged, Files, Snapshots, Whole, Stored
    <2>2. captured \in Seq(Snapshots) /\ Len(captured) = Len(batch[b].entries) + 1
      BY <1>1, <2>1, AppendProperties
    <2> DEFINE row == [record EXCEPT !.entries = captured]
    <2>3. /\ batch' = [batch EXCEPT ![b] = row]
          /\ worker' = [worker EXCEPT ![b] = [Idle EXCEPT !.pc = next]]
      BY <1>4 DEF Compared
    <2>4. /\ row \in Batches /\ row.entries = captured /\ row.complete = batch[b].complete /\ row.partial = record.partial
          /\ row.phase = batch[b].phase /\ row.leased = batch[b].leased
      <3>1. record \in Batches /\ captured \in Seq(Snapshots)
        BY <2>2
      <3> HIDE DEF captured
      <3> QED
        BY <3>1 DEF Batches
    <2> HIDE DEF row
    <2>5. batch'[b] = row /\ batch' = [batch EXCEPT ![b] = batch'[b]]
      BY <1>1, <2>3
    <2>6. /\ worker'[b].pc = next /\ worker'[b] \in Workers
          /\ worker' = [worker EXCEPT ![b] = worker'[b]]
      BY <1>1, <1>3, <2>3, IdleWorker
    <2>7. Captures(b)
      BY <1>2, <2>1, <2>4, <2>5 DEF Captures
    <2>8. Len(batch'[b].entries) = Len(batch[b].entries) + 1
      BY <2>2, <2>4, <2>5
    <2> HIDE DEF captured
    <2>9. next = IF Len(batch'[b].entries) = Len(Entries[b]) THEN "checkpoint" ELSE "inspect"
      BY <2>4, <2>5
    <2> HIDE DEF next
    <2>10. WorkInv(b)' /\ PhaseInv(b)'
      BY <1>1, <1>2, <2>4, <2>5, <2>6, <2>8, <2>9 DEF WorkInv, PhaseInv, Busy
    <2>11. Len(batch'[b].entries) <= Len(Entries[b])
      BY <1>1, <1>2, <2>8
    <2> QED
      BY <1>2, <2>4, <2>5, <2>6, <2>7, <2>10, <2>11 DEF Works, Stores, RowKeeps
  <1>5. CASE ~Unchanged(b)
    <2>1. /\ batch' = [batch EXCEPT ![b] = record]
          /\ worker' = [worker EXCEPT ![b] = [Idle EXCEPT !.pc = "failing"]]
      BY <1>5 DEF Compared
    <2>2. batch'[b] = record /\ worker'[b].pc = "failing" /\ worker'[b] \in Workers
          /\ worker' = [worker EXCEPT ![b] = worker'[b]] /\ batch' = [batch EXCEPT ![b] = batch'[b]]
      BY <1>1, <1>3, <2>1, IdleWorker
    <2>3. WorkInv(b)' /\ PhaseInv(b)'
      BY <1>2, <2>2 DEF WorkInv, PhaseInv, Busy
    <2> QED
      BY <1>1, <2>2, <2>3 DEF Works, Stores, RowKeeps, Captures
  <1> QED
    BY <1>4, <1>5

LEMMA BeginWorks ==
  ASSUME Inv, NEW b \in Backups, Begin(b)
  PROVE  Works(b)
  <1>1. batch[b] \in Batches /\ batch \in [Backups -> Batches] /\ worker \in [Backups -> Workers]
        /\ worker[b] \in Workers /\ Len(batch[b].entries) <= Len(Entries[b])
    BY Rows DEF Inv, TypeOK
  <1> DEFINE row == [batch[b] EXCEPT !.phase = "attempting"]
             w == [worker[b] EXCEPT !.pc = "inspect"]
  <1>2. /\ row \in Batches /\ row.phase = "attempting" /\ row.entries = batch[b].entries
        /\ row.complete = batch[b].complete /\ row.partial = batch[b].partial
    BY <1>1 DEF Batches
  <1>3. w \in Workers /\ w.pc = "inspect"
    BY <1>1 DEF Workers, Steps
  <1>4. batch' = [batch EXCEPT ![b] = row] /\ worker' = [worker EXCEPT ![b] = w] /\ UNCHANGED others
        /\ UNCHANGED object
    BY DEF Begin, Goes
  <1> HIDE DEF row, w
  <1>5. batch'[b] = row /\ worker'[b] = w
    BY <1>1, <1>4
  <1>6. worker[b].pc = "idle" /\ batch[b].phase = "planned"
    BY DEF Begin
  <1>7. Len(batch[b].entries) < Len(Entries[b]) /\ ~batch[b].complete
    BY <1>6, Constants, EmptySeq DEF Inv, WorkInv
  <1>8. WorkInv(b)' /\ PhaseInv(b)'
    BY <1>2, <1>3, <1>5, <1>7 DEF WorkInv, PhaseInv, Busy
  <1> QED
    BY <1>1, <1>2, <1>3, <1>4, <1>5, <1>6, <1>8 DEF Works, Stores, Captures, RowKeeps

\* The snapshot, the hash and the copy: each looks at the file anew.
LEMMA LookWorks ==
  ASSUME Inv, NEW b \in Backups, Inspect(b) \/ Digest(b) \/ Copy(b)
  PROVE  Works(b)
  <1> DEFINE f == file[Path(b)]
  <1>1. worker[b] \in Workers /\ worker[b].pc \in {"inspect", "digest", "copy"} /\ UNCHANGED others
    BY Rows DEF Inv, Inspect, Digest, Copy
  <1>2. f \in Files
    <2>1. Len(batch[b].entries) + 1 \in Indices(b)
      BY <1>1, Rows, Constants DEF Inv, WorkInv, Busy, Indices
    <2>2. Path(b) \in Paths
      BY <2>1, Constants DEF Path
    <2> QED
      BY <2>2 DEF Inv, TypeOK
  <1> HIDE DEF f
  <1>3. CASE Fails(b)
    BY <1>1, <1>3, FailsWorks DEF Busy
  <1>4. CASE /\ worker[b].pc = "inspect" /\ UNCHANGED <<object, batch>>
             /\ worker' = [worker EXCEPT ![b].pc = "digest", ![b].snapshot = f]
    <2> DEFINE w == [worker[b] EXCEPT !.pc = "digest", !.snapshot = f]
    <2>1. w \in Workers /\ w.pc = "digest"
      BY <1>1, <1>2 DEF Workers, Steps
    <2>2. worker' = [worker EXCEPT ![b] = w]
      BY <1>4
    <2> HIDE DEF w
    <2> QED
      BY <1>1, <1>4, <2>1, <2>2, GoesOnWorks DEF Busy, Stores
  <1>5. CASE /\ worker[b].pc = "digest" /\ UNCHANGED <<object, batch>> /\ f.content # None
             /\ worker' = [worker EXCEPT ![b].pc = "lookup", ![b].source = f]
    <2> DEFINE w == [worker[b] EXCEPT !.pc = "lookup", !.source = f]
    <2>1. w \in Workers /\ w.pc = "lookup" /\ w.source = f
      BY <1>1, <1>2 DEF Workers, Steps
    <2>2. worker' = [worker EXCEPT ![b] = w]
      BY <1>5
    <2>3. f.content \in Contents
      BY <1>2, <1>5 DEF Files
    <2> HIDE DEF w
    <2> QED
      BY <1>1, <1>5, <2>1, <2>2, <2>3, GoesOnWorks DEF Busy, Stores
  <1>6. CASE /\ worker[b].pc = "copy" /\ UNCHANGED <<object, batch>> /\ f.content # None
             /\ worker' = [worker EXCEPT ![b].pc = "install", ![b].temp = f.content]
    <2> DEFINE w == [worker[b] EXCEPT !.pc = "install", !.temp = f.content]
    <2>1. f.content \in Contents
      BY <1>2, <1>6 DEF Files
    <2>2. w \in Workers /\ w.pc = "install" /\ w.source = worker[b].source
      BY <1>1, <2>1 DEF Workers, Steps
    <2>3. worker' = [worker EXCEPT ![b] = w]
      BY <1>6
    <2>4. worker[b].source.content \in Contents
      BY <1>6 DEF Inv, WorkInv
    <2> HIDE DEF w
    <2> QED
      BY <1>1, <1>6, <2>2, <2>3, <2>4, GoesOnWorks DEF Busy, Stores
  <1> QED
    BY <1>3, <1>4, <1>5, <1>6 DEF Inspect, Digest, Copy, f

LEMMA StoreWorks ==
  ASSUME Inv, NEW b \in Backups, Lookup(b) \/ Install(b)
  PROVE  Works(b)
  <1> DEFINE d == worker[b].source.content
  <1>1. /\ worker[b] \in Workers /\ worker[b].pc \in {"lookup", "install"} /\ UNCHANGED others
        /\ batch[b] \in Batches /\ d \in Contents
    BY Rows DEF Inv, Lookup, Install, WorkInv
  <1>2. CASE Fails(b)
    BY <1>1, <1>2, FailsWorks DEF Busy
  <1>3. CASE Whole(d) /\ Compared(b, batch[b]) /\ UNCHANGED object
    BY <1>1, <1>3, ComparedWorks
  <1>4. ASSUME NEW pc \in {"copy", "installed"}, Goes(b, pc), Stores, UNCHANGED batch
        PROVE  Works(b)
    <2> DEFINE w == [worker[b] EXCEPT !.pc = pc]
    <2>1. w \in Workers /\ w.pc = pc /\ w.source = worker[b].source
      BY <1>1 DEF Workers, Steps
    <2>2. worker' = [worker EXCEPT ![b] = w]
      BY <1>4 DEF Goes
    <2> HIDE DEF w
    <2> QED
      BY <1>1, <1>4, <2>1, <2>2, GoesOnWorks DEF Busy
  <1>5. CASE TempVerified(b) /\ ~Stored(d) /\ object' = [object EXCEPT ![d] = worker[b].temp]
    <2>1. Stores
      BY <1>1, <1>5 DEF Stores, TempVerified
    <2> QED
      BY <1>2, <1>3, <1>4, <1>5, <2>1 DEF Lookup, Install
  <1>6. CASE UNCHANGED object
    <2>1. Stores
      BY <1>6 DEF Stores
    <2> QED
      BY <1>2, <1>3, <1>4, <2>1 DEF Lookup, Install
  <1> QED
    BY <1>2, <1>3, <1>5, <1>6 DEF Lookup, Install

LEMMA RecordCreatedWorks ==
  ASSUME Inv, NEW b \in Backups, RecordCreated(b)
  PROVE  Works(b)
  <1> DEFINE d == worker[b].source.content
             record == [batch[b] EXCEPT !.partial = @ \cup {d}]
  <1>1. batch[b] \in Batches /\ worker[b].pc = "installed" /\ d \in Contents /\ UNCHANGED others
    BY Rows DEF Inv, RecordCreated, WorkInv
  <1>2. CASE Fails(b)
    BY <1>1, <1>2, FailsWorks DEF Busy
  <1>3. CASE Whole(d) /\ Compared(b, record) /\ UNCHANGED object
    <2>1. /\ record \in Batches /\ record.entries = batch[b].entries /\ record.phase = batch[b].phase
          /\ record.complete = batch[b].complete /\ record.leased = batch[b].leased
          /\ batch[b].partial \subseteq record.partial
      <3>1. batch[b].partial \cup {d} \in SUBSET Contents
        BY <1>1 DEF Batches
      <3> QED
        BY <1>1, <3>1 DEF Batches
    <2> HIDE DEF record
    <2> QED
      BY <1>1, <1>3, <2>1, ComparedWorks
  <1> QED
    BY <1>2, <1>3 DEF RecordCreated

\* The checkpoint needs the lease, which a recovered batch has lost.
LEMMA RecordBackupWorks ==
  ASSUME Inv, NEW b \in Backups, RecordBackup(b)
  PROVE  Works(b)
  <1>1. batch[b] \in Batches /\ worker[b].pc = "checkpoint" /\ worker[b] \in Workers
        /\ UNCHANGED others /\ batch \in [Backups -> Batches] /\ worker \in [Backups -> Workers]
        /\ Len(batch[b].entries) <= Len(Entries[b])
    BY Rows DEF Inv, TypeOK, RecordBackup
  <1>2. CASE Fails(b)
    BY <1>1, <1>2, FailsWorks
  <1>3. CASE batch[b].leased /\ ~Fails(b)
    <2> DEFINE row == [batch[b] EXCEPT !.complete = TRUE]
               w == [worker[b] EXCEPT !.pc = "succeed"]
    <2>1. /\ row \in Batches /\ row.complete /\ row.entries = batch[b].entries
          /\ row.phase = batch[b].phase /\ row.partial = batch[b].partial
      BY <1>1 DEF Batches
    <2>2. w \in Workers /\ w.pc = "succeed"
      BY <1>1 DEF Workers, Steps
    <2>3. /\ batch' = [batch EXCEPT ![b] = row] /\ worker' = [worker EXCEPT ![b] = w]
          /\ UNCHANGED object
      BY <1>3 DEF RecordBackup, Goes
    <2> HIDE DEF row, w
    <2>4. batch'[b] = row /\ worker'[b] = w
      BY <1>1, <2>3
    <2>5. /\ batch[b].phase \notin {"recovered", "failed"}
          /\ Len(batch[b].entries) = Len(Entries[b])
      BY <1>1, <1>3 DEF Inv, WorkInv, PhaseInv
    <2>6. WorkInv(b)' /\ PhaseInv(b)'
      BY <2>1, <2>2, <2>4, <2>5 DEF WorkInv, PhaseInv, Busy
    <2> QED
      BY <1>1, <2>1, <2>2, <2>3, <2>4, <2>5, <2>6 DEF Works, Stores, Captures, RowKeeps
  <1> QED
    BY <1>2, <1>3 DEF RecordBackup

\* The steps that write the phase or the lease of a batch only.
LEMMA PhaseWorks ==
  ASSUME Inv, NEW b \in Backups, NEW row \in Batches, NEW w \in Workers,
         batch' = [batch EXCEPT ![b] = row], worker' = [worker EXCEPT ![b] = w],
         UNCHANGED object, UNCHANGED others,
         row.entries = batch[b].entries, row.complete = batch[b].complete,
         batch[b].partial \subseteq row.partial,
         batch[b].phase = "recovered" => row.phase = "recovered",
         (w.pc = worker[b].pc /\ w.source = worker[b].source)
            \/ (w.pc = "ended" /\ worker[b].pc # "idle"),
         row.phase = "failed" => w.pc = "ended",
         row.phase = "recovered" => ~row.leased \/ w.pc = "ended"
  PROVE  Works(b)
  <1>1. batch \in [Backups -> Batches] /\ worker \in [Backups -> Workers]
        /\ Len(batch[b].entries) <= Len(Entries[b])
    BY DEF Inv, TypeOK
  <1>2. batch'[b] = row /\ worker'[b] = w
    BY <1>1
  <1>3. WorkInv(b)' /\ PhaseInv(b)'
    BY <1>2 DEF Inv, WorkInv, PhaseInv, Busy
  <1> QED
    BY <1>1, <1>2, <1>3 DEF Works, Stores, Captures, RowKeeps

LEMMA EndWorks ==
  ASSUME Inv, NEW b \in Backups, Succeed(b) \/ RecordFailure(b)
  PROVE  Works(b)
  <1>1. /\ batch[b] \in Batches /\ worker[b] \in Workers /\ worker[b].pc \in {"succeed", "failing"}
        /\ UNCHANGED object /\ UNCHANGED others
    BY Rows DEF Inv, Succeed, RecordFailure
  <1> DEFINE w == [worker[b] EXCEPT !.pc = "ended"]
  <1>2. w \in Workers /\ w.pc = "ended" /\ worker' = [worker EXCEPT ![b] = w]
    BY <1>1 DEF Workers, Steps, Succeed, RecordFailure, Goes
  <1> HIDE DEF w
  <1>3. PICK phase : /\ batch' = [batch EXCEPT ![b].phase = phase]
                     /\ phase \in {batch[b].phase, "succeeded", "failed", "recovery_desired"}
                     /\ batch[b].phase = "recovered" => batch[b].leased \/ phase = "recovered"
    BY DEF Succeed, RecordFailure
  <1>4. batch[b].phase = "recovered" => phase = "recovered"
    BY <1>1, <1>3 DEF Inv, PhaseInv
  <1> DEFINE row == [batch[b] EXCEPT !.phase = phase]
  <1>5. /\ row \in Batches /\ row.entries = batch[b].entries /\ row.complete = batch[b].complete
        /\ row.phase = phase /\ row.partial = batch[b].partial /\ batch' = [batch EXCEPT ![b] = row]
    BY <1>1, <1>3 DEF Batches
  <1> HIDE DEF row
  <1> QED
    BY <1>1, <1>2, <1>4, <1>5, PhaseWorks

LEMMA LoseLeaseWorks ==
  ASSUME Inv, NEW b \in Backups, LoseLease(b)
  PROVE  Works(b)
  <1>1. batch[b] \in Batches /\ worker[b] \in Workers /\ worker \in [Backups -> Workers]
    BY Rows DEF Inv, TypeOK
  <1> DEFINE row == [batch[b] EXCEPT !.leased = FALSE]
  <1>2. /\ row \in Batches /\ row.entries = batch[b].entries /\ row.complete = batch[b].complete
        /\ row.phase = batch[b].phase /\ row.partial = batch[b].partial /\ ~row.leased /\ batch' = [batch EXCEPT ![b] = row]
    BY <1>1 DEF Batches, LoseLease
  <1>3. worker' = [worker EXCEPT ![b] = worker[b]] /\ UNCHANGED object /\ UNCHANGED others
    BY <1>1 DEF LoseLease
  <1>4. batch[b].phase = "failed" => worker[b].pc = "ended"
    BY DEF Inv, PhaseInv
  <1> HIDE DEF row
  <1> QED
    BY <1>1, <1>2, <1>3, <1>4, PhaseWorks

LEMMA RecoverWorks ==
  ASSUME Inv, NEW b \in Backups, Recover(b)
  PROVE  Works(b)
  <1>1. batch[b] \in Batches /\ worker[b] \in Workers /\ worker \in [Backups -> Workers]
    BY Rows DEF Inv, TypeOK
  <1> DEFINE row == [batch[b] EXCEPT !.phase = "recovered"]
  <1>2. /\ row \in Batches /\ row.entries = batch[b].entries /\ row.complete = batch[b].complete
        /\ row.phase = "recovered" /\ row.partial = batch[b].partial /\ row.leased = batch[b].leased /\ batch' = [batch EXCEPT ![b] = row]
    BY <1>1 DEF Batches, Recover
  <1>3. worker' = [worker EXCEPT ![b] = worker[b]] /\ UNCHANGED object /\ UNCHANGED others
    BY <1>1 DEF Recover, others
  <1>4. ~batch[b].leased \/ worker[b].pc = "ended"
    BY DEF Inv, PhaseInv, Recover
  <1> HIDE DEF row
  <1> QED
    BY <1>1, <1>2, <1>3, <1>4, PhaseWorks

BackupStep(b) ==
  \/ Begin(b) \/ Inspect(b) \/ Digest(b) \/ Lookup(b) \/ Copy(b) \/ Install(b)
  \/ RecordCreated(b) \/ RecordBackup(b) \/ Succeed(b) \/ RecordFailure(b)
  \/ LoseLease(b) \/ Recover(b)

LEMMA BackupStepInv ==
  ASSUME Inv, NEW b \in Backups, BackupStep(b)
  PROVE  Works(b) /\ Inv'
  BY BeginWorks, LookWorks, StoreWorks, RecordCreatedWorks, RecordBackupWorks, EndWorks,
     LoseLeaseWorks, RecoverWorks, WorksInv DEF BackupStep

-----------------------------------------------------------------------------
(* The cleanup of partial backups.                                         *)

CleanupStep(b, d) ==
  AttemptCleanup(b, d) \/ VerifyObject(b, d) \/ DeleteObject(b, d) \/ RecordDeletion(b, d)

\* What a cleanup changes: statuses of recovered batches and the place of the
\* process, and an object it deletes.
LEMMA CleanupChanges ==
  ASSUME Inv, NEW b \in Backups, NEW d \in Contents, CleanupStep(b, d)
  PROVE  /\ \E s \in CleanupStatuses : cleanup' = [cleanup EXCEPT ![b][d] = s] /\ s # "none"
         /\ \E q \in Cleaners : cleaner' = [cleaner EXCEPT ![b][d] = q]
         /\ object' = object \/ object' = [object EXCEPT ![d] = None]
         /\ batch[b].phase = "recovered" /\ ~batch[b].complete /\ d \in batch[b].partial
         /\ object' = object \/ cleanup[b][d] # "none"
  <1>1. cleanup \in [Backups -> [Contents -> CleanupStatuses]]
        /\ cleaner \in [Backups -> [Contents -> Cleaners]]
    BY DEF Inv, TypeOK
  <1>2. /\ cleanup = [cleanup EXCEPT ![b][d] = cleanup[b][d]] /\ cleanup[b][d] \in CleanupStatuses
        /\ cleaner = [cleaner EXCEPT ![b][d] = cleaner[b][d]] /\ cleaner[b][d] \in Cleaners
    BY <1>1
  <1>3. CASE AttemptCleanup(b, d)
    <2>1. d \in batch[b].partial /\ ~batch[b].complete
      BY <1>3 DEF AttemptCleanup, Candidates
    <2> QED
      BY <1>2, <1>3, <2>1 DEF AttemptCleanup, Verdict, CleanupStatuses
  <1>4. CASE VerifyObject(b, d)
    <2>1. cleanup[b][d] # "none" /\ object' = object
      BY <1>4 DEF VerifyObject
    <2>2. (cleanup' = cleanup /\ cleaner' = [cleaner EXCEPT ![b][d] = "verified"])
          \/ (cleaner' = cleaner /\ cleanup' = [cleanup EXCEPT ![b][d] = Verdict(d)])
      BY <1>4 DEF VerifyObject
    <2>3. "verified" \in Cleaners /\ Verdict(d) \in CleanupStatuses /\ Verdict(d) # "none"
      BY DEF Cleaners, CleanupStatuses, Verdict
    <2> QED
      BY <1>2, <2>1, <2>2, <2>3 DEF Inv, CleanInv
  <1>5. ASSUME NEW result \in {"succeeded", "failed", "skipped"}, Settles(b, d, result), cleanup[b][d] # "none"
        PROVE  /\ \E s \in CleanupStatuses : cleanup' = [cleanup EXCEPT ![b][d] = s] /\ s # "none"
               /\ \E q \in Cleaners : cleaner' = [cleaner EXCEPT ![b][d] = q]
    BY <1>2, <1>5 DEF Settles, Cleaners, CleanupStatuses
  <1>6. CASE DeleteObject(b, d)
    <2>1. cleanup[b][d] # "none"
      BY <1>6 DEF DeleteObject, Inv, CleanInv
    <2>2. CASE Settles(b, d, IF Stored(d) THEN "failed" ELSE "skipped") /\ UNCHANGED object
      BY <1>5, <2>1, <2>2 DEF Inv, CleanInv
    <2>3. CASE /\ cleanup' = cleanup /\ object' = [object EXCEPT ![d] = None]
               /\ cleaner' = [cleaner EXCEPT ![b][d] = "unlinked"]
      <3>1. "unlinked" \in Cleaners
        BY DEF Cleaners
      <3> QED
        BY <1>2, <2>1, <2>3, <3>1 DEF Inv, CleanInv
    <2> QED
      BY <1>6, <2>2, <2>3 DEF DeleteObject
  <1>7. CASE RecordDeletion(b, d)
    <2>1. cleanup[b][d] # "none" /\ object' = object
      BY <1>7 DEF RecordDeletion, Inv, CleanInv
    <2> QED
      BY <1>5, <1>7, <2>1 DEF RecordDeletion, Inv, CleanInv
  <1> QED
    BY <1>3, <1>4, <1>6, <1>7 DEF CleanupStep

LEMMA CleanupInv ==
  ASSUME Inv, NEW b \in Backups, NEW d \in Contents, CleanupStep(b, d)
  PROVE  Inv'
  <1>1. UNCHANGED <<file, batch, worker, restore, edits, tampered, writer>>
    BY DEF CleanupStep, AttemptCleanup, VerifyObject, DeleteObject, RecordDeletion
  <1>2. PICK s \in CleanupStatuses : cleanup' = [cleanup EXCEPT ![b][d] = s] /\ s # "none"
    BY CleanupChanges
  <1>3. PICK q \in Cleaners : cleaner' = [cleaner EXCEPT ![b][d] = q]
    BY CleanupChanges
  <1>4. /\ cleanup \in [Backups -> [Contents -> CleanupStatuses]]
        /\ cleaner \in [Backups -> [Contents -> Cleaners]]
        /\ object \in [Contents -> Contents \cup {None}]
    BY DEF Inv, TypeOK
  <1>5. /\ cleanup' \in [Backups -> [Contents -> CleanupStatuses]]
        /\ cleanup'[b][d] # "none"
        /\ \A c \in Backups, e \in Contents : c # b \/ e # d => cleanup'[c][e] = cleanup[c][e]
    BY ZenonT(60), <1>2, <1>4
  <1>6. /\ cleaner' \in [Backups -> [Contents -> Cleaners]]
        /\ \A c \in Backups, e \in Contents : c # b \/ e # d => cleaner'[c][e] = cleaner[c][e]
    BY ZenonT(60), <1>3, <1>4
  <1>7. /\ object' \in [Contents -> Contents \cup {None}]
        /\ \A e \in Contents : object'[e] = object[e] \/ (e = d /\ object'[e] = None)
    <2>1. object' = object \/ object' = [object EXCEPT ![d] = None]
      BY CleanupChanges
    <2> QED
      BY <1>4, <2>1
  <1>8. batch[b].phase = "recovered" /\ ~batch[b].complete /\ d \in batch[b].partial
    BY CleanupChanges
  <1>9. TypeOK'
    BY <1>1, <1>5, <1>6, <1>7 DEF Inv, TypeOK, Target
  <1>10. ObjectsAreWhole' /\ IsFiniteSet(tampered')
    BY <1>1, <1>7 DEF Inv, ObjectsAreWhole, Stored, Whole
  <1>11. ASSUME NEW c \in Backups PROVE WorkInv(c)' /\ PhaseInv(c)' /\ CleanInv(c)'
    <2>1. WorkInv(c)' /\ PhaseInv(c)'
      BY <1>1 DEF Inv, WorkInv, PhaseInv
    <2>2. CleanInv(c)'
      BY <1>1, <1>5, <1>6, <1>8 DEF Inv, CleanInv
    <2> QED
      BY <2>1, <2>2
  <1>12. ASSUME NEW e \in Contents, Kept(e) PROVE Kept(e)'
    <2>1. CASE Stored(e)
      BY <1>5, <1>7, <2>1 DEF Kept, Stored
    <2>2. CASE e \in tampered
      BY <1>1, <2>2 DEF Kept
    <2>3. ASSUME NEW o \in Backups, cleanup[o][e] # "none" PROVE Kept(e)'
      BY <1>5, <2>3 DEF Kept
    <2> QED
      BY <1>12, <2>1, <2>2, <2>3 DEF Kept
  <1>13. ASSUME NEW c \in Backups PROVE KeptInv(c)'
    <2> SUFFICES ASSUME NEW i \in 1..Len(batch[c].entries), NEW e, e = batch[c].entries[i].content
                 PROVE  Kept(e)'
      BY <1>1 DEF KeptInv, Kept, Stored
    <2>1. e \in Contents
      <3>1. batch[c].entries[i] \in Snapshots
        BY Rows, ElementOfSeq DEF Inv
      <3> QED
        BY <3>1 DEF Snapshots
    <2>2. Kept(e)
      BY DEF Inv, KeptInv
    <2> QED
      BY <1>12, <2>1, <2>2
  <1>14. \A r \in Restores : RestoreInv(r)'
    BY <1>1 DEF Inv, RestoreInv
  <1>15. ASSUME NEW p \in Paths PROVE WriterInv(p)'
    BY <1>1 DEF Inv, WriterInv, Matches
  <1> QED
    BY <1>9, <1>10, <1>11, <1>13, <1>14, <1>15 DEF Inv

-----------------------------------------------------------------------------
(* Restores, and the world outside: they leave the backups alone.           *)

\* Nothing the invariants of the backups speak of has changed.
LEMMA ElsewhereInv ==
  ASSUME Inv, UNCHANGED <<batch, worker, cleanup, cleaner>>,
         object' \in [Contents -> Contents \cup {None}], \A d \in Contents : Stored(d) => Stored(d)',
         tampered \subseteq tampered'
  PROVE  \A b \in Backups : WorkInv(b)' /\ PhaseInv(b)' /\ CleanInv(b)' /\ KeptInv(b)'
  <1>1. ASSUME NEW b \in Backups PROVE WorkInv(b)' /\ PhaseInv(b)' /\ CleanInv(b)'
    BY DEF Inv, WorkInv, PhaseInv, CleanInv
  <1>2. ASSUME NEW b \in Backups PROVE KeptInv(b)'
    <2> SUFFICES ASSUME NEW i \in 1..Len(batch[b].entries), NEW e, e = batch[b].entries[i].content
                 PROVE  Kept(e)'
      BY DEF KeptInv, Kept, Stored
    <2>1. e \in Contents
      <3>1. batch[b].entries[i] \in Snapshots
        BY Rows, ElementOfSeq DEF Inv
      <3> QED
        BY <3>1 DEF Snapshots
    <2>2. Kept(e)
      BY DEF Inv, KeptInv
    <2> QED
      BY <2>1, <2>2 DEF Kept
  <1> QED
    BY <1>1, <1>2

\* The entry a restore is at.
LEMMA EntryType ==
  ASSUME Inv, NEW r \in Restores, restore[r].pc # "idle"
  PROVE  /\ restore[r].from \in Backups /\ batch[restore[r].from].complete
         /\ restore[r].next \in Indices(restore[r].from)
         /\ Target(r) \in Paths /\ Entry(r) \in Snapshots
         /\ restore[r].next \in Nat \ {0} /\ restore[r] \in RestoreStates
         /\ Len(Entries[restore[r].from]) \in Nat
  <1> DEFINE b == restore[r].from
  <1>1. restore[r] \in RestoreStates /\ b \in Backups /\ batch[b].complete
    BY DEF Inv, TypeOK, RestoreInv
  <1>2. restore[r].next \in Indices(b) /\ restore[r].next \in Nat \ {0}
    BY <1>1, Constants DEF Inv, TypeOK, RestoreStates
  <1>3. Target(r) \in Paths
    BY <1>1, <1>2, Constants DEF Target
  <1>4. Entry(r) \in Snapshots
    <2>1. Len(batch[b].entries) = Len(Entries[b]) /\ batch[b].entries \in Seq(Snapshots)
      BY <1>1, Rows DEF Inv, WorkInv
    <2> QED
      BY <1>2, <2>1, ElementOfSeq DEF Indices, Entry
  <1> QED
    BY <1>1, <1>2, <1>3, <1>4, Constants

\* A restore has its type after a step, and is of a complete backup.
RestoreMoves(r) ==
  \E s \in RestoreStates :
    /\ restore' = [restore EXCEPT ![r] = s]
    /\ s.pc # "idle" => s.from \in Backups /\ batch[s.from].complete
    /\ s.from # None => s.next \in Indices(s.from)

LEMMA MovesType ==
  ASSUME Inv, NEW r \in Restores, RestoreMoves(r), UNCHANGED batch
  PROVE  /\ restore' \in [Restores -> RestoreStates]
         /\ \A q \in Restores : restore'[q].from # None => restore'[q].next \in Indices(restore'[q].from)
         /\ \A q \in Restores : RestoreInv(q)'
  <1>1. PICK s \in RestoreStates :
          /\ restore' = [restore EXCEPT ![r] = s]
          /\ s.pc # "idle" => s.from \in Backups /\ batch[s.from].complete
          /\ s.from # None => s.next \in Indices(s.from)
    BY DEF RestoreMoves
  <1>2. /\ restore' \in [Restores -> RestoreStates] /\ restore'[r] = s
        /\ \A q \in Restores \ {r} : restore'[q] = restore[q]
    BY <1>1 DEF Inv, TypeOK
  <1>3. \A q \in Restores : restore'[q].from # None => restore'[q].next \in Indices(restore'[q].from)
    BY <1>1, <1>2 DEF Inv, TypeOK
  <1>4. ASSUME NEW q \in Restores PROVE RestoreInv(q)'
    BY <1>1, <1>2 DEF Inv, RestoreInv
  <1> QED
    BY <1>2, <1>3, <1>4

LEMMA RestingType == Resting \in RestoreStates /\ Resting.pc = "idle" /\ Resting.from = None
  BY DEF Resting, RestoreStates, RestoreSteps

LEMMA EndsMoves ==
  ASSUME NEW r \in Restores, Ends(r)
  PROVE  RestoreMoves(r)
  BY RestingType DEF Ends, RestoreMoves

LEMMA PlaceMoves ==
  ASSUME Inv, NEW r \in Restores, restore[r].pc # "idle", NEW s \in RestoreStates,
         restore' = [restore EXCEPT ![r] = s], s.from = restore[r].from,
         s.next \in Indices(restore[r].from)
  PROVE  RestoreMoves(r)
  BY EntryType DEF RestoreMoves

LEMMA AdvanceMoves ==
  ASSUME Inv, NEW r \in Restores, restore[r].pc # "idle", Advance(r)
  PROVE  RestoreMoves(r)
  <1>1. CASE restore[r].next = Len(Entries[restore[r].from])
    BY <1>1, EndsMoves DEF Advance
  <1>2. CASE restore[r].next # Len(Entries[restore[r].from])
    <2> DEFINE s == [restore[r] EXCEPT !.next = restore[r].next + 1, !.pc = "entry"]
    <2>1. restore[r] \in RestoreStates /\ restore[r].next \in Nat \ {0}
          /\ restore[r].next + 1 \in Indices(restore[r].from) /\ restore[r].next + 1 \in Nat \ {0}
      BY <1>2, EntryType DEF Indices
    <2>2. s \in RestoreStates /\ s.from = restore[r].from /\ s.next = restore[r].next + 1
      BY <2>1 DEF RestoreStates, RestoreSteps
    <2>3. restore' = [restore EXCEPT ![r] = s]
      BY <1>2 DEF Advance
    <2> HIDE DEF s
    <2> QED
      BY <2>1, <2>2, <2>3, PlaceMoves
  <1> QED
    BY <1>1, <1>2

\* A step that leaves the store and the backups alone.
LEMMA FilesInv ==
  ASSUME Inv, UNCHANGED <<object, batch, worker, cleanup, cleaner, tampered>>,
         file' \in [Paths -> Files], edits' \in 0..MaxOutside,
         writer' \in [Paths -> Backups \cup {"other"}],
         UNCHANGED restore \/ \E r \in Restores : RestoreMoves(r),
         \A p \in Paths : WriterInv(p)'
  PROVE  Inv'
  <1>1. /\ restore' \in [Restores -> RestoreStates]
        /\ \A q \in Restores : restore'[q].from # None => restore'[q].next \in Indices(restore'[q].from)
        /\ \A q \in Restores : RestoreInv(q)'
    <2>1. CASE UNCHANGED restore
      BY <2>1 DEF Inv, TypeOK, RestoreInv
    <2>2. CASE \E r \in Restores : RestoreMoves(r)
      BY <2>2, MovesType
    <2> QED
      BY <2>1, <2>2
  <1>2. TypeOK'
    BY <1>1 DEF Inv, TypeOK
  <1>3. ObjectsAreWhole' /\ IsFiniteSet(tampered')
    BY DEF Inv, ObjectsAreWhole, Stored, Whole
  <1>4. \A b \in Backups : WorkInv(b)' /\ PhaseInv(b)' /\ CleanInv(b)' /\ KeptInv(b)'
    <2>1. object' \in [Contents -> Contents \cup {None}] /\ \A d \in Contents : Stored(d) => Stored(d)'
      BY DEF Inv, TypeOK, Stored
    <2> QED
      BY <2>1, ElsewhereInv
  <1> QED
    BY <1>1, <1>2, <1>3, <1>4 DEF Inv

LEMMA RestoreStepInv ==
  ASSUME Inv, UNCHANGED <<object, file, batch, worker, cleanup, cleaner, edits, tampered, writer>>,
         NEW r \in Restores, RestoreMoves(r)
  PROVE  Inv'
  <1>1. \A p \in Paths : WriterInv(p)'
    BY DEF Inv, WriterInv, Matches
  <1>2. file' \in [Paths -> Files] /\ edits' \in 0..MaxOutside /\ writer' \in [Paths -> Backups \cup {"other"}]
    BY DEF Inv, TypeOK
  <1> QED
    BY <1>1, <1>2, FilesInv

LEMMA BeginRestoreInv ==
  ASSUME Inv, NEW r \in Restores, NEW b \in Backups, NEW policy \in Policies, BeginRestore(r, b, policy)
  PROVE  Inv'
  <1> DEFINE pc == IF \A i \in Indices(b) : EntryRestorable(b, i, policy) THEN "entry" ELSE "refused"
             s == [Resting EXCEPT !.from = b, !.policy = policy, !.pc = pc]
  <1>1. pc \in RestoreSteps /\ 1 \in Indices(b)
    BY Constants DEF RestoreSteps, Indices
  <1> HIDE DEF pc
  <1>2. s \in RestoreStates /\ s.from = b /\ s.next = 1 /\ b # None
    <2>1. Resting \in RestoreStates /\ Resting.next = 1
      BY RestingType DEF Resting
    <2>2. /\ b \in Backups \cup {None} /\ policy \in Policies \cup {"no_replace"} /\ 1 \in Nat \ {0}
          /\ FALSE \in BOOLEAN /\ b # None
      BY Constants
    <2> QED
      BY <1>1, <2>1, <2>2 DEF RestoreStates
  <1>3. restore' = [restore EXCEPT ![r] = s] /\ batch[b].complete
    BY DEF BeginRestore, pc
  <1>4. RestoreMoves(r)
    BY <1>1, <1>2, <1>3 DEF RestoreMoves
  <1> QED
    BY <1>4, RestoreStepInv DEF BeginRestore

LEMMA GoMoves ==
  ASSUME Inv, NEW r \in Restores, restore[r].pc # "idle", NEW pc \in RestoreSteps, NEW fresh \in BOOLEAN,
         \/ restore' = [restore EXCEPT ![r].pc = pc]
         \/ restore' = [restore EXCEPT ![r].pc = pc, ![r].fresh = fresh]
  PROVE  RestoreMoves(r)
  <1>1. restore[r] \in RestoreStates /\ restore[r].next \in Indices(restore[r].from)
    BY EntryType
  <1>2. CASE restore' = [restore EXCEPT ![r].pc = pc]
    <2> DEFINE s == [restore[r] EXCEPT !.pc = pc]
    <2>1. s \in RestoreStates /\ s.from = restore[r].from /\ s.next = restore[r].next
      BY <1>1 DEF RestoreStates
    <2>2. restore' = [restore EXCEPT ![r] = s]
      BY <1>2
    <2> HIDE DEF s
    <2> QED
      BY <1>1, <2>1, <2>2, PlaceMoves
  <1>3. CASE restore' = [restore EXCEPT ![r].pc = pc, ![r].fresh = fresh]
    <2> DEFINE s == [restore[r] EXCEPT !.pc = pc, !.fresh = fresh]
    <2>1. s \in RestoreStates /\ s.from = restore[r].from /\ s.next = restore[r].next
      BY <1>1 DEF RestoreStates
    <2>2. restore' = [restore EXCEPT ![r] = s]
      BY <1>3
    <2> HIDE DEF s
    <2> QED
      BY <1>1, <2>1, <2>2, PlaceMoves
  <1> QED
    BY <1>2, <1>3

LEMMA LookInv ==
  ASSUME Inv, NEW r \in Restores, LookAtEntry(r) \/ CheckEntry(r) \/ StopRestore(r)
  PROVE  Inv'
  <1>1. restore[r].pc # "idle" /\ UNCHANGED <<object, file, batch, worker, cleanup, cleaner, edits, tampered, writer>>
    BY DEF LookAtEntry, CheckEntry, StopRestore
  <1>2. CASE Advance(r)
    BY <1>1, <1>2, AdvanceMoves, RestoreStepInv
  <1>3. CASE Ends(r)
    BY <1>1, <1>3, EndsMoves, RestoreStepInv
  <1>4. CASE restore' = [restore EXCEPT ![r].pc = "copy", ![r].fresh = file[Target(r)].content = None]
    <2>1. "copy" \in RestoreSteps /\ (file[Target(r)].content = None) \in BOOLEAN
      BY DEF RestoreSteps
    <2> QED
      BY <1>1, <1>4, <2>1, GoMoves, RestoreStepInv
  <1> QED
    BY <1>2, <1>3, <1>4 DEF LookAtEntry, CheckEntry, StopRestore

LEMMA CopyEntryInv ==
  ASSUME Inv, NEW r \in Restores, CopyEntry(r)
  PROVE  Inv'
  <1> DEFINE p == Target(r)
             d == Entry(r).content
             b == restore[r].from
  <1>1. restore[r].pc = "copy" /\ UNCHANGED <<object, batch, worker, cleanup, cleaner, edits, tampered>>
    BY DEF CopyEntry
  <1>2. CASE Ends(r) /\ UNCHANGED <<file, writer>>
    BY <1>1, <1>2, EndsMoves, RestoreStepInv
  <1>3. CASE /\ Copyable(d) /\ file' = [file EXCEPT ![p] = CopiedFile(r)]
             /\ writer' = [writer EXCEPT ![p] = b] /\ Moves(r, "check")
    <2>1. RestoreMoves(r)
      <3>1. "check" \in RestoreSteps /\ TRUE \in BOOLEAN
        BY DEF RestoreSteps
      <3> QED
        BY <1>1, <1>3, <3>1, GoMoves DEF Moves
    <2>2. /\ b \in Backups /\ batch[b].complete /\ restore[r].next \in Indices(b)
          /\ p \in Paths /\ Entry(r) \in Snapshots
      BY <1>1, EntryType
    <2>3. CopiedFile(r) \in Files /\ Matches(Entry(r), CopiedFile(r))
      BY <1>3, <2>2 DEF CopiedFile, Copyable, Whole, Matches, Snapshots, Files
    <2>4. /\ file' \in [Paths -> Files] /\ writer' \in [Paths -> Backups \cup {"other"}]
          /\ file'[p] = CopiedFile(r) /\ writer'[p] = b
          /\ \A q \in Paths \ {p} : file'[q] = file[q] /\ writer'[q] = writer[q]
      BY <1>3, <2>2, <2>3 DEF Inv, TypeOK
    <2>5. ASSUME NEW q \in Paths PROVE WriterInv(q)'
      <3>1. CASE q = p
        <4>1. /\ Entries[b][restore[r].next] = p
              /\ Matches(batch[b].entries[restore[r].next], CopiedFile(r))
          BY <2>3 DEF Target, Entry
        <4> QED
          BY <1>1, <2>2, <2>4, <3>1, <4>1 DEF WriterInv, Matches
      <3>2. CASE q # p
        BY <1>1, <2>4, <3>2 DEF Inv, WriterInv, Matches
      <3> QED
        BY <3>1, <3>2
    <2>6. edits' \in 0..MaxOutside
      BY <1>1 DEF Inv, TypeOK
    <2> QED
      BY <1>1, <2>1, <2>4, <2>5, <2>6, FilesInv
  <1> QED
    BY <1>2, <1>3 DEF CopyEntry

LEMMA OutsideInv ==
  ASSUME Inv, NEW p \in Paths, Edit(p) \/ Remove(p)
  PROVE  Inv'
  <1>1. UNCHANGED <<object, batch, worker, cleanup, cleaner, restore, tampered>>
        /\ writer' = [writer EXCEPT ![p] = "other"]
    BY DEF Edit, Remove
  <1>2. file[p] \in Files /\ edits \in 0..MaxOutside /\ MaxOutside \in Nat
    BY Constants DEF Inv, TypeOK
  <1>3. edits' \in 0..MaxOutside /\ \E f \in Files : file' = [file EXCEPT ![p] = f]
    <2>1. CASE Edit(p)
      <3>1. Cardinality(tampered) \in Nat
        BY FS_CardinalityType DEF Inv
      <3>2. edits + 1 \in 0..MaxOutside /\ edits' = edits + 1
        BY <1>2, <2>1, <3>1 DEF Edit
      <3>3. ASSUME NEW c \in Contents, NEW m \in {file[p].mtime, edits + 1}
            PROVE  [content |-> c, mtime |-> m] \in Files
        BY <1>2, <3>2 DEF Files
      <3> QED
        BY <2>1, <3>2, <3>3 DEF Edit
    <2>2. CASE Remove(p)
      BY <1>2, <2>2, IdleWorker DEF Remove
    <2> QED
      BY <2>1, <2>2
  <1>4. /\ file' \in [Paths -> Files] /\ writer' \in [Paths -> Backups \cup {"other"}]
        /\ writer'[p] = "other"
        /\ \A q \in Paths \ {p} : file'[q] = file[q] /\ writer'[q] = writer[q]
    BY <1>1, <1>3 DEF Inv, TypeOK
  <1>5. ASSUME NEW q \in Paths PROVE WriterInv(q)'
    <2>1. CASE q = p
      BY <1>4, <2>1, Constants DEF WriterInv
    <2>2. CASE q # p
      BY <1>1, <1>4, <2>2 DEF Inv, WriterInv, Matches
    <2> QED
      BY <2>1, <2>2
  <1> QED
    BY <1>1, <1>3, <1>4, <1>5, FilesInv

LEMMA TamperInv ==
  ASSUME Inv, NEW d \in Contents, Tamper(d)
  PROVE  Inv'
  <1>1. UNCHANGED <<file, batch, worker, cleanup, cleaner, restore, edits, writer>> /\ tampered' = tampered \cup {d}
    BY DEF Tamper
  <1>2. /\ object' \in [Contents -> Contents \cup {None}] /\ object'[d] \in Contents
        /\ \A e \in Contents \ {d} : object'[e] = object[e]
    BY DEF Tamper, Inv, TypeOK
  <1>3. \A e \in Contents : Stored(e) => Stored(e)'
    BY <1>2, Constants DEF Stored
  <1>4. IsFiniteSet(tampered')
    BY <1>1, FS_AddElement DEF Inv
  <1>5. ObjectsAreWhole'
    BY <1>1, <1>2 DEF Inv, ObjectsAreWhole, Stored, Whole
  <1>6. TypeOK'
    BY <1>1, <1>2 DEF Inv, TypeOK
  <1>7. \A b \in Backups : WorkInv(b)' /\ PhaseInv(b)' /\ CleanInv(b)' /\ KeptInv(b)'
    BY <1>1, <1>2, <1>3, ElsewhereInv
  <1>8. (\A r \in Restores : RestoreInv(r)') /\ \A p \in Paths : WriterInv(p)'
    BY <1>1 DEF Inv, RestoreInv, WriterInv, Matches
  <1> QED
    BY <1>4, <1>5, <1>6, <1>7, <1>8 DEF Inv

LEMMA NextInv == Inv /\ [Next]_vars => Inv'
  <1> SUFFICES ASSUME Inv, [Next]_vars PROVE Inv'
    OBVIOUS
  <1>1. ASSUME NEW b \in Backups, BackupStep(b) PROVE Inv'
    BY <1>1, BackupStepInv
  <1>2. ASSUME NEW b \in Backups, NEW d \in Contents, CleanupStep(b, d) PROVE Inv'
    BY <1>2, CleanupInv
  <1>3. ASSUME NEW b \in Backups, NEW r \in Restores, NEW policy \in Policies, BeginRestore(r, b, policy)
        PROVE  Inv'
    BY <1>3, BeginRestoreInv
  <1>4. ASSUME NEW r \in Restores, LookAtEntry(r) \/ CopyEntry(r) \/ CheckEntry(r) \/ StopRestore(r)
        PROVE  Inv'
    BY <1>4, LookInv, CopyEntryInv
  <1>5. CASE UNCHANGED vars
    <2>1. /\ object' = object /\ file' = file /\ batch' = batch /\ worker' = worker
          /\ cleanup' = cleanup /\ cleaner' = cleaner
          /\ restore' = restore /\ edits' = edits /\ tampered' = tampered /\ writer' = writer
      BY <1>5 DEF vars
    <2>2. (\A p \in Paths : WriterInv(p)') /\ \A b \in Backups : TRUE
      BY <2>1 DEF Inv, WriterInv, Matches
    <2>3. file' \in [Paths -> Files] /\ edits' \in 0..MaxOutside /\ writer' \in [Paths -> Backups \cup {"other"}]
      BY <2>1 DEF Inv, TypeOK
    <2> QED
      BY <2>1, <2>2, <2>3, FilesInv
  <1> QED
    BY <1>1, <1>2, <1>3, <1>4, <1>5, OutsideInv, TamperInv DEF Next, BackupStep, CleanupStep

LEMMA SpecInv == Spec => []Inv
  BY InitInv, NextInv, PTL DEF Spec

-----------------------------------------------------------------------------
\* The store, the batches, the workers and the restores have their types
\* (content_addressed.py, tree_backups.py).
THEOREM TypeCorrect == Spec => []TypeOK
  BY SpecInv, PTL DEF Inv

\* An object the program has stored holds the content its name promises: it is
\* hashed before it is installed, and a name is taken only once (put_file and
\* _install_new_object in content_addressed.py).
THEOREM ObjectsStayWhole == Spec => []ObjectsAreWhole
  BY SpecInv, PTL DEF Inv

\* A completed backup loses an object only to damage from outside or to the cleanup
\* of another backup that was not completed, wherever that cleanup was interrupted
\* (plan_tree_backup_artifact_cleanup_candidates in tree_backup_recovery.py).
THEOREM LossesHaveAnOwner == Spec => []LostObjectsHaveAnOwner
  <1>1. Inv => LostObjectsHaveAnOwner
    <2> SUFFICES ASSUME Inv, NEW b \in Backups, batch[b].complete, NEW i \in Indices(b),
                        NEW d, d = batch[b].entries[i].content
                 PROVE  \/ Stored(d) \/ d \in tampered
                        \/ \E o \in Backups \ {b} :
                             d \in batch[o].partial /\ ~batch[o].complete /\ cleanup[o][d] # "none"
      BY DEF LostObjectsHaveAnOwner
    <2>1. Len(batch[b].entries) = Len(Entries[b]) /\ i \in 1..Len(batch[b].entries)
      BY DEF Inv, WorkInv, Indices
    <2>2. d \in Contents
      <3>1. batch[b].entries[i] \in Snapshots
        BY <2>1, Rows, ElementOfSeq DEF Inv
      <3> QED
        BY <3>1 DEF Snapshots
    <2>3. Kept(d)
      BY <2>1 DEF Inv, KeptInv
    <2>4. \A o \in Backups : cleanup[o][d] # "none" =>
            o # b /\ ~batch[o].complete /\ d \in batch[o].partial
      BY <2>2 DEF Inv, CleanInv
    <2> QED
      BY <2>3, <2>4 DEF Kept
  <1> QED
    BY <1>1, SpecInv, PTL

\* A file last written by a restore is the file of the backup, also when an object was
\* damaged before or during the restore (copy_to in content_addressed.py).
THEOREM RestoresAreExact == Spec => []RestoreWritesOnlyTheBackup
  <1>1. Inv => RestoreWritesOnlyTheBackup
    BY DEF Inv, WriterInv, RestoreWritesOnlyTheBackup
  <1> QED
    BY <1>1, SpecInv, PTL

\* A restore that was interrupted is not refused for what it has put back itself
\* (_preflight_restore_entry and _matching_restored_snapshot in tree_backups.py).
THEOREM RestoresAreResumable == Spec => ResumedRestoreIsNotRefused
  <1> DEFINE Excused(r, b) ==
        restore[r].pc = "idle" /\ restore'[r].pc = "refused" /\ restore'[r].from = b
        => \E i \in Indices(b) :
             \/ ~Whole(batch[b].entries[i].content)
             \/ file[Entries[b][i]].content # None /\ writer[Entries[b][i]] # b
  <1>1. ASSUME Inv, [Next]_vars, NEW r \in Restores, NEW b \in Backups
        PROVE  Excused(r, b)
    <2> SUFFICES ASSUME restore[r].pc = "idle", restore'[r].pc = "refused", restore'[r].from = b
                 PROVE  \E i \in Indices(b) :
                          \/ ~Whole(batch[b].entries[i].content)
                          \/ file[Entries[b][i]].content # None /\ writer[Entries[b][i]] # b
      OBVIOUS
    <2>1. restore \in [Restores -> RestoreStates] /\ restore' # restore
      BY <1>1 DEF Inv, TypeOK
    <2>2. ASSUME NEW c \in Backups, NEW policy \in Policies, BeginRestore(r, c, policy)
          PROVE  \E i \in Indices(b) : ~EntryRestorable(b, i, policy)
      <3> DEFINE pc == IF \A i \in Indices(c) : EntryRestorable(c, i, policy) THEN "entry" ELSE "refused"
      <3>1. restore' = [restore EXCEPT ![r] = [Resting EXCEPT !.from = c, !.policy = policy, !.pc = pc]]
        BY <2>2 DEF BeginRestore
      <3> HIDE DEF pc
      <3>2. restore'[r].from = c /\ restore'[r].pc = pc
        BY <2>1, <3>1 DEF Resting
      <3> QED
        BY <3>2 DEF pc
    <2>3. ASSUME NEW policy \in Policies, NEW i \in Indices(b), ~EntryRestorable(b, i, policy)
          PROVE  \/ ~Whole(batch[b].entries[i].content)
                 \/ file[Entries[b][i]].content # None /\ writer[Entries[b][i]] # b
      <3> SUFFICES ASSUME writer[Entries[b][i]] = b
                   PROVE  Matches(batch[b].entries[i], file[Entries[b][i]])
                            \/ ~Whole(batch[b].entries[i].content)
        BY <2>3 DEF EntryRestorable
      <3>1. Entries[b][i] \in Paths
        BY Constants
      <3>2. PICK j \in Indices(b) : /\ Entries[b][j] = Entries[b][i]
                                    /\ Matches(batch[b].entries[j], file[Entries[b][i]])
        BY <1>1, <3>1 DEF Inv, WriterInv
      <3>3. j = i
        BY <3>2, Constants, TreeBackupsAssumption
      <3> QED
        BY <3>2, <3>3
    <2>4. \E c \in Backups, policy \in Policies : BeginRestore(r, c, policy)
      <3>1. ASSUME NEW q \in Restores, LookAtEntry(q) \/ CopyEntry(q) \/ CheckEntry(q) \/ StopRestore(q)
            PROVE  FALSE
        <4>1. (restore[q].pc # "idle" /\ q # r) \/ restore[q].pc # "idle"
          BY <3>1 DEF LookAtEntry, CopyEntry, CheckEntry, StopRestore
        <4>2. q # r
          BY <4>1
        <4> QED
          BY <2>1, <3>1, <4>2 DEF LookAtEntry, CopyEntry, CheckEntry, StopRestore, Advance,
             Ends, Moves
      <3>2. ASSUME NEW q \in Restores, NEW c \in Backups, NEW policy \in Policies, BeginRestore(q, c, policy)
            PROVE  q = r
        BY <2>1, <3>2 DEF BeginRestore
      <3>3. ASSUME NEW c \in Backups, BackupStep(c) PROVE FALSE
        BY <1>1, <2>1, <3>3, BackupStepInv DEF Works, others
      <3>4. ASSUME NEW c \in Backups, NEW d \in Contents, CleanupStep(c, d) PROVE FALSE
        BY <2>1, <3>4 DEF CleanupStep, AttemptCleanup, VerifyObject, DeleteObject, RecordDeletion
      <3>5. (\A p \in Paths : ~Edit(p) /\ ~Remove(p)) /\ \A d \in Contents : ~Tamper(d)
        BY <2>1 DEF Edit, Remove, Tamper
      <3> QED
        BY <1>1, <2>1, <3>1, <3>2, <3>3, <3>4, <3>5 DEF Next, BackupStep, CleanupStep, vars
    <2> QED
      BY <2>2, <2>3, <2>4
  <1>2. Inv /\ [Next]_vars => [\A r \in Restores, b \in Backups : Excused(r, b)]_vars
    BY <1>1
  <1> QED
    BY <1>2, SpecInv, PTL DEF Spec, ResumedRestoreIsNotRefused

=============================================================================
