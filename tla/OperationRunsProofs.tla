------------------------ MODULE OperationRunsProofs ------------------------
(***************************************************************************)
(* Theorems about OperationRuns, for every number of grants, whatever each *)
(* is used for, and every bound.                                           *)
(*                                                                         *)
(* Nearly every step is the own step of one worker: it changes what the    *)
(* worker has in memory and, only while its grant is current, its own      *)
(* rows.  Grants are made in order, so that whoever is current knows that  *)
(* no earlier worker writes any more: what a recovery has read of an       *)
(* earlier run is still so when it acts on it (DiagnosisInv).              *)
(***************************************************************************)
EXTENDS OperationRuns, SequenceTheorems, TLAPS

\* Grants are made in order, and no later one while one is current.
LeaseInv ==
  \A g, h \in Grants : g < h => /\ At(g, "out") => At(h, "out")
                                /\ lease = g => At(h, "out")

\* A worker that has not begun has left no trace, one in a batch has journaled it,
\* and one that recovers has no run of its own and goes through its own stages.
Blank(g) == runs[g] = "none" /\ phases[g] = << >> /\ batches[g] = << >>
BeginInv(g) ==
  /\ At(g, "out") => worker[g] = Idle /\ Blank(g)
  /\ At(g, "create_run") => runs[g] = "none"
  /\ At(g, "in_batch") => batches[g] # << >>
  /\ worker[g].kind = "recovery" =>
       /\ Blank(g) /\ ~worker[g].implicit
       /\ worker[g].stage \in {"open", "diagnose_phase", "diagnose_run", "free"}
  /\ worker[g].automatic => worker[g].kind = "transaction"

\* What a worker knows of its phases is on record.
PhaseInv(g) ==
  /\ worker[g].active \in 0..Len(phases[g])
  /\ worker[g].touched \subseteq 1..Len(phases[g])

\* What the exit still has to mark was touched.
TodoInv(g) == worker[g].todo \subseteq worker[g].touched

\* The exit with an error marks no success, and a run is marked succeeded by the
\* last step of its worker.
Marking == {"operation_run", "phases", "rollback", "runs"}
ExitInv(g) ==
  /\ worker[g].stage \in Marking => worker[g].to \in {"failed", "finalization_failed"}
  /\ runs[g] = "succeeded" => At(g, "closed")

\* A clean exit goes on while its lease is current only if no failed write is left.
CleanInv(g) ==
  worker[g].stage \in {"artifacts", "finalize"} /\ worker[g].automatic /\ lease = g
  => InState(g, {"failed"}) = {}

\* The operation whose finalization fails records after it has given up its lease,
\* and has nothing left to clean up; only a transaction rolls back pending writes.
RecordsLate(g) == worker[g].kind = "operation" /\ worker[g].to = "finalization_failed"

LateInv(g) ==
  /\ RecordsLate(g) => worker[g].after = "closed"
  /\ At(g, "pending") => worker[g].kind = "transaction"

\* A worker that runs has its lease, unless it has lapsed.
HeldInv(g) ==
  Running(g) /\ ~worker[g].lapsed =>
    lease = g \/ (RecordsLate(g) /\ worker[g].stage \in {"phases", "rollback", "runs"})

\* A transaction with phases has a run, and one that has made its run and a phase
\* itself has touched it; an exit began with no more faults than there are now.
LinksInv(g) ==
  /\ worker[g].kind = "transaction" /\ phases[g] # << >> => runs[g] # "none"
  /\ worker[g].implicit => runs[g] # "none"
  /\ worker[g].implicit /\ phases[g] # << >> => worker[g].touched # {}
SinceInv(g) == worker[g].since <= faults

\* An exit with an error that passes over the run of a transaction whose implicit
\* phase could not be made.
PassesOver(g) == worker[g].implicit /\ worker[g].to = "failed" /\ phases[g] = << >>

\* Nothing but the cleanup is left: the run has been marked.
RecordedInv(g) ==
  /\ worker[g].stage \in {"release_claims", "release_lease"}
  /\ ~worker[g].lapsed /\ faults = worker[g].since /\ HasLinks(g) /\ ~RecordsLate(g)
  /\ ~PassesOver(g)
  => runs[g] # "active"

\* The write a recovery is at is one of an earlier grant and recovered, and the run
\* it is linked to is no longer on record as active or succeeded when claims are
\* released.
DiagnosisInv(g) ==
  worker[g].stage \in {"diagnose_phase", "diagnose_run", "free"} =>
    LET h == worker[g].target[1]
        k == worker[g].target[2]
    IN  /\ h < g
        /\ k \in 1..Len(batches[h])
        /\ batches[h][k].state = "recovered"
        /\ At(g, "free") /\ batches[h][k].phase # 0 => runs[h] \notin Reopened

WorkerInv(g) ==
  /\ BeginInv(g) /\ PhaseInv(g) /\ TodoInv(g) /\ ExitInv(g) /\ CleanInv(g)
  /\ LateInv(g) /\ HeldInv(g) /\ LinksInv(g) /\ SinceInv(g) /\ RecordedInv(g) /\ DiagnosisInv(g)

Inv == TypeOK /\ LeaseInv /\ \A g \in Grants : WorkerInv(g)

-----------------------------------------------------------------------------
(* The shape of a worker's own step.                                       *)

\* g changes its own rows, while its grant is current, and its memory.
RunRow(g) == \E s \in Statuses \cup {"none"} : runs' = [runs EXCEPT ![g] = s]
PhaseRows(g) ==
  \E ps \in Seq(Statuses) : Len(ps) <= MaxPhases /\ phases' = [phases EXCEPT ![g] = ps]
BatchRows(g) ==
  \E bs \in Seq(Batches) : Len(bs) <= MaxBatches /\ batches' = [batches EXCEPT ![g] = bs]
OwnRows(g) ==
  /\ RunRow(g) /\ PhaseRows(g) /\ BatchRows(g)
  /\ lease # g => UNCHANGED <<runs, phases, batches>>

Moves(g) ==
  /\ worker' = [worker EXCEPT ![g] = worker'[g]]
  /\ worker'[g] \in Workers /\ worker'[g].stage # "out"
OwnWorker(g) ==
  /\ Moves(g) /\ ~At(g, "out")
  /\ lease' = lease \/ (lease = g /\ lease' = 0)

CountersGo ==
  /\ lapses' \in 0..MaxLapses /\ faults' \in 0..MaxFaults /\ crashes' \in 0..MaxCrashes
  /\ faults <= faults'

OwnStep(g) == OwnRows(g) /\ OwnWorker(g) /\ claims' \subseteq Grants /\ CountersGo

LEMMA BoundTypes ==
  /\ MaxGrants \in Nat \ {0} /\ MaxPhases \in Nat \ {0} /\ MaxBatches \in Nat \ {0}
  /\ MaxRecords \in Nat \ {0} /\ MaxLapses \in Nat /\ MaxFaults \in Nat /\ MaxCrashes \in Nat
  BY BoundsAssumption

LEMMA IdleWorker ==
  Idle \in Workers /\ \A stage \in Stages : [Idle EXCEPT !.stage = stage] \in Workers
  <1>1. <<1, 1>> \in Grants \X (1..MaxBatches) /\ 0 \in 0..MaxPhases /\ 0 \in 0..MaxFaults
    BY BoundTypes DEF Grants
  <1>2. {} \in SUBSET (1..MaxPhases) /\ {} \in SUBSET (Grants \X (1..MaxBatches)) /\ {} \in SUBSET Grants
    OBVIOUS
  <1>3. "out" \in Stages /\ "operation" \in Kinds /\ "closed" \in Afters
    BY DEF Stages, Kinds, Afters
  <1>4. Idle \in Workers
    BY <1>1, <1>2, <1>3 DEF Idle, Workers
  <1> QED
    BY <1>4 DEF Workers

LEMMA InitInv == Init => Inv
  <1> SUFFICES ASSUME Init PROVE Inv
    OBVIOUS
  <1>1. Idle \in Workers
    BY IdleWorker
  <1>2. << >> \in Seq(Statuses) /\ << >> \in Seq(Batches) /\ Len(<< >>) = 0
    OBVIOUS
  <1>3. TypeOK
    BY <1>1, <1>2, BoundsAssumption DEF Init, TypeOK, Grants, Statuses
  <1>4. LeaseInv
    BY DEF Init, LeaseInv, At, Idle, Grants
  <1>5. ASSUME NEW g \in Grants PROVE WorkerInv(g)
    BY <1>2 DEF Init, WorkerInv, BeginInv, Blank, PhaseInv, TodoInv, ExitInv, CleanInv,
       LateInv, RecordsLate, HeldInv, LinksInv, SinceInv, RecordedInv,
       DiagnosisInv, At, Idle, Marking, Running
  <1> QED
    BY <1>3, <1>4, <1>5 DEF Inv

LEMMA OwnStepType ==
  ASSUME Inv, NEW g \in Grants, OwnStep(g)
  PROVE  TypeOK' /\ LeaseInv'
  <1> USE DEF Inv, OwnStep
  <1>0. /\ worker' = [worker EXCEPT ![g] = worker'[g]]
        /\ worker'[g] \in Workers /\ worker'[g].stage # "out" /\ ~At(g, "out")
        /\ lease' = lease \/ (lease = g /\ lease' = 0)
    BY DEF OwnWorker, Moves
  <1>1. lease' \in 0..MaxGrants /\ worker' \in [Grants -> Workers]
    <2> DEFINE w == worker'[g]
    <2>1. worker' = [worker EXCEPT ![g] = w] /\ w \in Workers /\ worker \in [Grants -> Workers]
      BY <1>0 DEF TypeOK
    <2> HIDE DEF w
    <2>2. worker' \in [Grants -> Workers]
      BY <2>1
    <2> QED
      BY <1>0, <2>2, BoundTypes DEF TypeOK, Grants
  <1>2. /\ runs' \in [Grants -> Statuses \cup {"none"}]
        /\ phases' \in [Grants -> Seq(Statuses)] /\ \A h \in Grants : Len(phases'[h]) <= MaxPhases
        /\ batches' \in [Grants -> Seq(Batches)] /\ \A h \in Grants : Len(batches'[h]) <= MaxBatches
    BY DEF TypeOK, OwnRows, RunRow, PhaseRows, BatchRows
  <1>3. TypeOK'
    BY <1>1, <1>2 DEF TypeOK, CountersGo
  <1>4. LeaseInv'
    <2>1. \A h \in Grants : h # g => worker'[h] = worker[h]
      BY <1>0 DEF TypeOK
    <2>2. \A h \in Grants : At(h, "out")' <=> At(h, "out")
      BY <1>0, <2>1 DEF At
    <2> QED
      BY <1>0, <2>2, BoundTypes DEF LeaseInv, Grants
  <1> QED
    BY <1>3, <1>4

LEMMA FaultTypes ==
  ASSUME Inv, NEW g \in Grants
  PROVE  faults \in Nat /\ worker[g].since \in Nat
  BY BoundTypes DEF Inv, TypeOK, Workers

\* The others have no part in a step of g: no earlier worker is current, and a
\* recovery that looks at the rows of g came after g.
LEMMA OwnStepOthers ==
  ASSUME Inv, NEW g \in Grants, OwnStep(g), NEW h \in Grants, h # g
  PROVE  WorkerInv(h)'
  <1>1. /\ worker'[h] = worker[h] /\ runs'[h] = runs[h] /\ phases'[h] = phases[h]
        /\ batches'[h] = batches[h]
    BY DEF Inv, TypeOK, OwnStep, OwnRows, RunRow, PhaseRows, BatchRows, OwnWorker, Moves
  <1>2. WorkerInv(h)
    BY DEF Inv
  <1>3. BeginInv(h)' /\ PhaseInv(h)' /\ TodoInv(h)' /\ ExitInv(h)' /\ LateInv(h)'
    BY <1>1, <1>2 DEF WorkerInv, BeginInv, Blank, PhaseInv, TodoInv, ExitInv, LateInv,
       RecordsLate, At, Marking
  <1>4. CleanInv(h)' /\ HeldInv(h)'
    BY <1>1, <1>2 DEF WorkerInv, CleanInv, InState, HeldInv, RecordsLate, Running, OwnStep,
       OwnWorker, Grants
  <1>5. LinksInv(h)' /\ SinceInv(h)' /\ RecordedInv(h)'
    <2>1. SinceInv(h)' /\ (faults' = worker[h].since => faults = worker[h].since)
      BY <1>1, <1>2, FaultTypes DEF OwnStep, CountersGo, WorkerInv, SinceInv
    <2> QED
      BY <1>1, <1>2, <2>1 DEF WorkerInv, LinksInv, RecordedInv, PassesOver, HasLinks, HasTouched, RecordsLate
  <1>6. DiagnosisInv(h)'
    <2> SUFFICES ASSUME worker[h].stage \in {"diagnose_phase", "diagnose_run", "free"}
                 PROVE  DiagnosisInv(h)'
      BY <1>1 DEF DiagnosisInv
    <2> DEFINE t == worker[h].target[1]
    <2>1. DiagnosisInv(h) /\ t \in Grants
      BY <1>2 DEF WorkerInv, Inv, TypeOK, Workers
    <2>2. t = g => lease # g
      BY <2>1 DEF Inv, LeaseInv, DiagnosisInv, At
    <2>3. runs'[t] = runs[t] /\ batches'[t] = batches[t]
      BY <2>1, <2>2 DEF Inv, TypeOK, OwnStep, OwnRows, RunRow, PhaseRows, BatchRows
    <2> QED
      BY <1>1, <2>1, <2>3 DEF DiagnosisInv, At
  <1> QED
    BY <1>3, <1>4, <1>5, <1>6 DEF WorkerInv

LEMMA OwnStepInv ==
  ASSUME Inv, NEW g \in Grants, OwnStep(g), WorkerInv(g)'
  PROVE  Inv'
  BY OwnStepType, OwnStepOthers DEF Inv

-----------------------------------------------------------------------------
(* What the calls of a worker do to its rows.                              *)

LEMMA SetElement ==
  ASSUME NEW S, NEW s \in Seq(S), NEW i, NEW x \in S
  PROVE  [s EXCEPT ![i] = x] \in Seq(S) /\ Len([s EXCEPT ![i] = x]) = Len(s)
  <1> DEFINE t == [s EXCEPT ![i] = x]
  <1>0. s \in [1..Len(s) -> S] /\ Len(s) \in Nat
    OBVIOUS
  <1>1. t \in [1..Len(s) -> S] /\ Len(s) \in Nat
    BY <1>0
  <1>2. t \in Seq(S)
    BY <1>1
  <1>3. DOMAIN t = 1..Len(s)
    BY <1>1
  <1>4. Len(t) = Len(s)
    BY <1>1, <1>2, <1>3
  <1> QED
    BY <1>2, <1>4

\* Rows that are left alone are a change of g's rows, to themselves.
LEMMA KeptRows ==
  ASSUME TypeOK, NEW g \in Grants
  PROVE  /\ UNCHANGED runs => RunRow(g)
         /\ UNCHANGED phases => PhaseRows(g)
         /\ UNCHANGED batches => BatchRows(g)
  <1>1. UNCHANGED runs => RunRow(g)
    BY Zenon DEF TypeOK, RunRow
  <1>2. UNCHANGED phases => PhaseRows(g)
    BY DEF TypeOK, PhaseRows
  <1>3. UNCHANGED batches => BatchRows(g)
    BY DEF TypeOK, BatchRows
  <1> QED
    BY <1>1, <1>2, <1>3

LEMMA SetRunRow ==
  ASSUME TypeOK, NEW g \in Grants, NEW s \in Statuses \cup {"none"}, SetRun(g, s)
  PROVE  RunRow(g) /\ runs'[g] = s
  BY DEF TypeOK, SetRun, RunRow

LEMMA SetPhaseRow ==
  ASSUME TypeOK, NEW g \in Grants, NEW i, NEW s \in Statuses, SetPhase(g, i, s)
  PROVE  /\ PhaseRows(g) /\ Len(phases'[g]) = Len(phases[g]) /\ DOMAIN phases'[g] = DOMAIN phases[g]
         /\ \A j \in DOMAIN phases[g] : phases'[g][j] = IF j = i THEN s ELSE phases[g][j]
  <1> DEFINE ps == [phases[g] EXCEPT ![i] = s]
  <1>1. phases[g] \in Seq(Statuses) /\ Len(phases[g]) <= MaxPhases
    BY DEF TypeOK
  <1>2. ps \in Seq(Statuses) /\ Len(ps) = Len(phases[g]) /\ DOMAIN ps = DOMAIN phases[g]
    BY <1>1, SetElement
  <1>3. phases' = [phases EXCEPT ![g] = ps] /\ phases'[g] = ps
    BY DEF TypeOK, SetPhase
  <1>4. \A j \in DOMAIN phases[g] : ps[j] = IF j = i THEN s ELSE phases[g][j]
    BY <1>1
  <1> HIDE DEF ps
  <1>5. PhaseRows(g)
    BY <1>1, <1>2, <1>3 DEF PhaseRows
  <1> QED
    BY <1>2, <1>3, <1>4, <1>5

LEMMA AddPhaseRow ==
  ASSUME TypeOK, NEW g \in Grants, Adds(g), NextOrder(g) <= MaxPhases
  PROVE  PhaseRows(g) /\ Len(phases'[g]) = Len(phases[g]) + 1
  <1> DEFINE ps == Append(phases[g], "active")
  <1>1. phases[g] \in Seq(Statuses) /\ "active" \in Statuses
    BY DEF TypeOK, Statuses
  <1>2. ps \in Seq(Statuses) /\ Len(ps) = Len(phases[g]) + 1
    BY <1>1
  <1>3. phases' = [phases EXCEPT ![g] = ps] /\ phases'[g] = ps
    BY DEF TypeOK, Adds
  <1> HIDE DEF ps
  <1> QED
    BY <1>2, <1>3 DEF PhaseRows, NextOrder

LEMMA AddBatchRow ==
  ASSUME TypeOK, NEW g \in Grants, NEW b \in Batches, Len(batches[g]) < MaxBatches,
         batches' = [batches EXCEPT ![g] = Append(@, b)]
  PROVE  BatchRows(g) /\ batches'[g] # << >>
  <1> DEFINE bs == Append(batches[g], b)
  <1>1. bs \in Seq(Batches) /\ Len(bs) = Len(batches[g]) + 1 /\ Len(batches[g]) \in Nat
    BY DEF TypeOK
  <1>2. batches' = [batches EXCEPT ![g] = bs] /\ Len(bs) <= MaxBatches
    BY <1>1, BoundsAssumption
  <1>3. bs # << >>
    BY <1>1
  <1> HIDE DEF bs
  <1>4. batches'[g] = bs
    BY <1>2 DEF TypeOK
  <1> QED
    BY <1>1, <1>2, <1>3, <1>4 DEF BatchRows

\* A batch of any grant moves to another state.
LEMMA SetBatchRow ==
  ASSUME TypeOK, NEW g \in Grants, NEW i \in DOMAIN batches[g], NEW s \in BatchPhases,
         batches' = [batches EXCEPT ![g][i].state = s]
  PROVE  /\ BatchRows(g) /\ Len(batches'[g]) = Len(batches[g])
         /\ batches'[g][i] = [batches[g][i] EXCEPT !.state = s]
         /\ \A j \in DOMAIN batches[g] : j # i => batches'[g][j] = batches[g][j]
  <1> DEFINE b == [batches[g][i] EXCEPT !.state = s]
             bs == [batches[g] EXCEPT ![i] = b]
  <1>1. batches[g] \in Seq(Batches) /\ Len(batches[g]) <= MaxBatches
    BY DEF TypeOK
  <1>2. b \in Batches
    <2>1. batches[g][i] \in Batches
      BY <1>1
    <2> QED
      BY <2>1 DEF Batches
  <1>3. bs \in Seq(Batches) /\ Len(bs) = Len(batches[g])
    <2> HIDE DEF b
    <2> QED
      BY <1>1, <1>2, SetElement
  <1>4. batches' = [batches EXCEPT ![g] = bs] /\ batches'[g] = bs
    BY DEF TypeOK
  <1>5. bs[i] = b /\ \A j \in DOMAIN batches[g] : j # i => bs[j] = batches[g][j]
    BY <1>1
  <1> HIDE DEF b, bs
  <1>6. BatchRows(g)
    BY <1>1, <1>3, <1>4 DEF BatchRows
  <1> QED
    BY <1>3, <1>4, <1>5, <1>6 DEF b

LEMMA RecoversRow ==
  ASSUME TypeOK, NEW g \in Grants, NEW chosen, NEW rest, Recovers(g, chosen, rest)
  PROVE  /\ BatchRows(g) /\ Len(batches'[g]) = Len(batches[g])
         /\ \A i \in DOMAIN batches[g] :
              batches'[g][i].state = IF i \in chosen THEN "recovered"
                                     ELSE IF i \in rest THEN "failed" ELSE batches[g][i].state
  <1> DEFINE state(i) == IF i \in chosen THEN "recovered"
                         ELSE IF i \in rest THEN "failed" ELSE batches[g][i].state
             bs == [i \in DOMAIN batches[g] |-> [batches[g][i] EXCEPT !.state = state(i)]]
  <1>1. batches[g] \in Seq(Batches) /\ Len(batches[g]) <= MaxBatches
    BY DEF TypeOK
  <1>2. ASSUME NEW i \in DOMAIN batches[g]
        PROVE  bs[i] \in Batches /\ bs[i].state = state(i)
    <2>1. batches[g][i] \in Batches
      BY <1>1
    <2> QED
      BY <2>1 DEF Batches, BatchPhases
  <1>3. bs \in [1..Len(batches[g]) -> Batches] /\ Len(batches[g]) \in Nat
    <2>1. DOMAIN batches[g] = 1..Len(batches[g]) /\ Len(batches[g]) \in Nat
      BY <1>1
    <2> QED
      BY <1>2, <2>1, Zenon
  <1>4. bs \in Seq(Batches) /\ Len(bs) = Len(batches[g])
    <2> HIDE DEF bs
    <2>1. bs \in Seq(Batches)
      BY <1>3
    <2> QED
      BY <1>3, <2>1
  <1>5. batches' = [batches EXCEPT ![g] = bs]
    BY DEF Recovers
  <1> HIDE DEF bs
  <1>50. batches'[g] = bs
    BY <1>5 DEF TypeOK
  <1>6. BatchRows(g)
    BY <1>1, <1>4, <1>5 DEF BatchRows
  <1> QED
    BY <1>2, <1>4, <1>50, <1>6

\* A call adds at most one fault, and moves no other counter.
LEMMA CallBounds ==
  ASSUME TypeOK, NEW g \in Grants
  PROVE  UNCHANGED bounds \/ Accepted(g) \/ LeaseLost(g) \/ Raises(g) \/ Fault => CountersGo
  BY BoundsAssumption DEF TypeOK, bounds, Accepted, LeaseLost, Raises, Fault, CountersGo

\* What marking a status leaves on record: nothing new without the lease, no
\* success that was not there, and no "active" unless a storage error came first.
LEMMA MarkedStatus ==
  ASSUME faults \in Nat, NEW g \in Grants, NEW status \in Statuses, NEW to \in Ended, NEW new,
         (MarksCleanly(g, status, to) /\ new = to) \/ MarksBadly(g, status, to, new)
  PROVE  /\ new \in Statuses
         /\ lease # g => new = status
         /\ new = "succeeded" => status = "succeeded" \/ to = "succeeded"
         /\ lease = g /\ UNCHANGED faults => new # "active"
         /\ status \in Ended /\ new # status => status = "succeeded" /\ new = "finalization_failed"
         /\ UNCHANGED bounds \/ Fault
  <1>1. \/ lease = g /\ new = to /\ MayUpdate(status, to)
        \/ new = Diagnosed(status, to) /\ lease = g
        \/ new = status /\ (lease = g => ~UNCHANGED faults)
    BY DEF MarksCleanly, MarksBadly, Accepted, LeaseLost, Fault
  <1>2. UNCHANGED bounds \/ Fault
    BY DEF MarksCleanly, MarksBadly, Accepted, LeaseLost
  <1> QED
    BY <1>1, <1>2 DEF Diagnosed, MayDiagnose, Diagnostic, MayUpdate, Statuses, Ended

-----------------------------------------------------------------------------
(* Where a worker goes.                                                    *)

LEMMA GotoMoves ==
  ASSUME TypeOK, NEW g \in Grants, NEW stage \in Stages \ {"out"}, Goto(g, stage)
  PROVE  Moves(g) /\ worker'[g] = [worker[g] EXCEPT !.stage = stage]
  <1>1. worker[g] \in Workers
    BY DEF TypeOK
  <1>2. [worker[g] EXCEPT !.stage = stage] \in Workers
    BY <1>1 DEF Workers
  <1>3. worker'[g] = [worker[g] EXCEPT !.stage = stage]
    BY DEF TypeOK, Goto
  <1>4. worker'[g].stage = stage
    BY <1>1, <1>3 DEF Workers
  <1> QED
    BY <1>2, <1>3, <1>4 DEF TypeOK, Moves, Goto

LEMMA CloseMoves ==
  ASSUME TypeOK, NEW g \in Grants, Close(g)
  PROVE  Moves(g) /\ worker'[g] = [Idle EXCEPT !.stage = "closed"]
  <1>1. [Idle EXCEPT !.stage = "closed"] \in Workers
    BY IdleWorker DEF Stages
  <1>2. worker'[g] = [Idle EXCEPT !.stage = "closed"]
    BY DEF TypeOK, Close
  <1> QED
    BY <1>1, <1>2 DEF TypeOK, Moves, Close, Idle

LEMMA LeaveMoves ==
  ASSUME TypeOK, NEW g \in Grants, worker' = Leave(g), faults' \in 0..MaxFaults
  PROVE  /\ Moves(g)
         /\ worker'[g] = [worker[g] EXCEPT !.active = 0, !.since = faults',
                            !.stage = IF worker[g].kind = "operation" THEN "operation_run" ELSE "phases",
                            !.todo = worker[g].touched, !.to = "failed", !.after = "release_claims"]
  <1> DEFINE w == [worker[g] EXCEPT !.active = 0, !.since = faults',
                     !.stage = IF worker[g].kind = "operation" THEN "operation_run" ELSE "phases",
                     !.todo = worker[g].touched, !.to = "failed", !.after = "release_claims"]
  <1>1. worker[g] \in Workers
    BY DEF TypeOK
  <1>2. w \in Workers /\ w.stage # "out"
    <2>1. 0 \in 0..MaxPhases /\ faults' \in 0..MaxFaults
      BY BoundTypes
    <2>2. {"operation_run", "phases"} \subseteq Stages \ {"out"} /\ "release_claims" \in Afters
      BY DEF Stages, Afters
    <2> QED
      BY <1>1, <2>1, <2>2 DEF Workers
  <1>3. worker' = [worker EXCEPT ![g] = w] /\ worker'[g] = w
    BY DEF TypeOK, Leave
  <1> HIDE DEF w
  <1>4. Moves(g)
    BY <1>2, <1>3 DEF TypeOK, Moves
  <1> QED
    BY <1>3, <1>4 DEF w

\* A worker that stays where it is.
LEMMA StaysMoves ==
  ASSUME TypeOK, NEW g \in Grants, UNCHANGED worker, ~At(g, "out")
  PROVE  Moves(g)
  BY DEF TypeOK, Moves, At

-----------------------------------------------------------------------------
(* What a worker keeps on its way.                                         *)

\* From one stage of the body, of the exit with an error or of the start of a clean
\* exit to another: the worker keeps its lease, and its run is not succeeded.
Working == {"open", "in_batch", "pending"} \cup Marking
KeepsWorking(g) ==
  /\ ~At(g, "out") /\ Running(g) /\ UNCHANGED lease
  /\ worker'[g].kind = worker[g].kind /\ worker'[g].automatic = worker[g].automatic
  /\ worker'[g].lapsed = worker[g].lapsed
  /\ worker'[g].kind # "recovery" /\ worker'[g].stage \in Working
  /\ worker'[g].stage \in Marking => worker'[g].to \in {"failed", "finalization_failed"}
  /\ worker[g].stage \in {"phases", "rollback", "runs"} =>
       worker'[g].stage \in {"phases", "rollback", "runs"} /\ worker'[g].to = worker[g].to
  /\ runs'[g] = "succeeded" => runs[g] = "succeeded"
  /\ worker'[g].stage = "in_batch" => batches'[g] # << >>
  /\ worker'[g].todo \subseteq worker'[g].touched
  /\ worker'[g].since \in {worker[g].since, faults'}
  /\ LateInv(g)' /\ LinksInv(g)'

LEMMA KeepsWorkingInv ==
  ASSUME Inv, NEW g \in Grants, KeepsWorking(g), PhaseInv(g)', CountersGo
  PROVE  WorkerInv(g)'
  <1>1. WorkerInv(g)
    BY DEF Inv
  <1>2. BeginInv(g)'
    BY <1>1 DEF WorkerInv, BeginInv, KeepsWorking, Working, Marking, At
  <1>3. ExitInv(g)'
    BY <1>1 DEF WorkerInv, ExitInv, KeepsWorking, Working, Marking, At, Running
  <1>4. HeldInv(g)'
    BY <1>1 DEF WorkerInv, HeldInv, RecordsLate, Running, KeepsWorking
  <1>5. TodoInv(g)' /\ LateInv(g)' /\ CleanInv(g)' /\ RecordedInv(g)' /\ DiagnosisInv(g)'
    BY DEF TodoInv, CleanInv, RecordedInv, DiagnosisInv, KeepsWorking, Working, Marking
  <1>6. LinksInv(g)' /\ SinceInv(g)'
    <2>1. faults' \in Nat
      BY BoundTypes DEF CountersGo
    <2> QED
      BY <1>1, <2>1, FaultTypes DEF KeepsWorking, CountersGo, WorkerInv, SinceInv
  <1> QED
    BY <1>1, <1>2, <1>3, <1>4, <1>5, <1>6 DEF WorkerInv

\* A worker that closes or is gone.
LEMMA StopsInv ==
  ASSUME Inv, NEW g \in Grants, Running(g), NEW stage \in {"closed", "gone"},
         phases'[g] \in Seq(Statuses), CountersGo,
         worker'[g] = [Idle EXCEPT !.stage = stage],
         runs'[g] = "succeeded" => runs[g] = "succeeded" \/ stage = "closed"
  PROVE  WorkerInv(g)'
  <1>1. WorkerInv(g)
    BY DEF Inv
  <1>2. /\ worker'[g].stage = stage /\ worker'[g].kind = "operation" /\ worker'[g].automatic = FALSE
        /\ worker'[g].active = 0 /\ worker'[g].touched = {} /\ worker'[g].todo = {}
        /\ worker'[g].to = "succeeded" /\ worker'[g].implicit = FALSE /\ worker'[g].since = 0
    BY DEF Idle
  <1>3. PhaseInv(g)'
    BY <1>2 DEF PhaseInv
  <1>4. SinceInv(g)'
    BY <1>2, BoundTypes DEF SinceInv, CountersGo
  <1> QED
    BY <1>1, <1>2, <1>3, <1>4 DEF WorkerInv, LinksInv, BeginInv, TodoInv, LateInv, RecordsLate, ExitInv,
       CleanInv, HeldInv, RecordedInv, DiagnosisInv,
       At, Marking, Running

-----------------------------------------------------------------------------
(* The body.                                                               *)

LEMMA WorkerType == ASSUME Inv, NEW g \in Grants PROVE worker[g] \in Workers /\ WorkerInv(g)
  BY DEF Inv, TypeOK

\* A step of the body: what it does to the rows and to the worker is enough.
LEMMA BodyStep ==
  ASSUME Inv, NEW g \in Grants, OwnRows(g), Moves(g), CountersGo, KeepsWorking(g), PhaseInv(g)',
         UNCHANGED claims
  PROVE  Inv'
  <1>1. OwnStep(g)
    BY DEF OwnStep, OwnWorker, KeepsWorking, Inv, TypeOK
  <1> QED
    BY <1>1, KeepsWorkingInv, OwnStepInv

\* The body catches an error, as far as its phase is concerned, or leaves with it.
LEMMA LeaveStep ==
  ASSUME Inv, NEW g \in Grants, At(g, "open"), worker[g].kind # "recovery",
         worker' \in {worker, [worker EXCEPT ![g].active = 0], Leave(g)}, CountersGo,
         UNCHANGED lease, runs'[g] = runs[g], Len(phases'[g]) = Len(phases[g]),
         phases'[g] = << >> <=> phases[g] = << >>
  PROVE  Moves(g) /\ KeepsWorking(g) /\ PhaseInv(g)'
  <1>1. worker[g] \in Workers /\ WorkerInv(g) /\ TypeOK
    BY WorkerType DEF Inv
  <1>2. CASE worker' = worker
    <2>1. Moves(g)
      BY <1>1, <1>2, StaysMoves DEF At
    <2> QED
      BY <1>1, <1>2, <2>1 DEF KeepsWorking, LateInv, LinksInv, RecordsLate, TodoInv, WorkerInv, Working,
         Marking, At, Running, PhaseInv
  <1>3. CASE worker' = Leave(g)
    <2>1. Moves(g) /\ worker'[g] = [worker[g] EXCEPT !.active = 0, !.since = faults',
             !.stage = IF worker[g].kind = "operation" THEN "operation_run" ELSE "phases",
             !.todo = worker[g].touched, !.to = "failed", !.after = "release_claims"]
      BY <1>1, <1>3, LeaveMoves DEF CountersGo
    <2>2. KeepsWorking(g)
      BY <1>1, <2>1 DEF KeepsWorking, LateInv, LinksInv, RecordsLate, TodoInv, WorkerInv, Working,
         Marking, At, Running, Workers
    <2>3. worker'[g].active = 0 /\ worker'[g].touched = worker[g].touched
      BY <1>1, <2>1 DEF Workers
    <2>4. PhaseInv(g)'
      BY <1>1, <2>3 DEF WorkerInv, PhaseInv
    <2> QED
      BY <2>1, <2>2, <2>4
  <1>4. CASE worker' = [worker EXCEPT ![g].active = 0]
    <2>1. worker'[g] = [worker[g] EXCEPT !.active = 0] /\ 0 \in 0..MaxPhases
      BY <1>1, <1>4, BoundTypes DEF TypeOK
    <2>2. worker'[g] \in Workers /\ worker'[g].stage # "out"
      BY <1>1, <2>1 DEF Workers, At
    <2>3. Moves(g)
      BY <1>1, <1>4, <2>2 DEF Moves, TypeOK
    <2>4. KeepsWorking(g)
      BY <1>1, <2>1 DEF KeepsWorking, LateInv, LinksInv, RecordsLate, TodoInv, WorkerInv, Working,
         Marking, At, Running, Workers
    <2>5. worker'[g].active = 0 /\ worker'[g].touched = worker[g].touched
      BY <1>1, <2>1 DEF Workers
    <2>6. PhaseInv(g)'
      BY <1>1, <2>5 DEF WorkerInv, PhaseInv
    <2> QED
      BY <2>3, <2>4, <2>6
  <1> QED
    BY <1>2, <1>3, <1>4

LEMMA EnterPhaseStep ==
  ASSUME Inv, NEW g \in Grants, EnterPhase(g)
  PROVE  Inv'
  <1> DEFINE n == NextOrder(g)
  <1>1. worker[g] \in Workers /\ WorkerInv(g) /\ TypeOK
    BY WorkerType DEF Inv
  <1>2. /\ At(g, "open") /\ worker[g].kind = "operation" /\ worker[g].active = 0
        /\ n <= MaxPhases /\ UNCHANGED <<lease, runs, batches, claims>>
    BY DEF EnterPhase, Body
  <1>3. RunRow(g) /\ BatchRows(g)
    BY <1>1, <1>2, KeptRows
  <1>4. CASE /\ Accepted(g) /\ Adds(g)
             /\ worker' = [worker EXCEPT ![g].active = n, ![g].touched = @ \cup {n}]
    <2>1. PhaseRows(g) /\ Len(phases'[g]) = Len(phases[g]) + 1
      BY <1>1, <1>2, <1>4, AddPhaseRow
    <2>2. Len(phases[g]) \in Nat /\ n = Len(phases[g]) + 1
      BY <1>1 DEF TypeOK, NextOrder
    <2>3. n \in 1..MaxPhases
      BY <1>2, <2>2, BoundTypes
    <2> HIDE DEF n
    <2>4. worker'[g] = [worker[g] EXCEPT !.active = n, !.touched = @ \cup {n}]
      BY <1>1, <1>4 DEF TypeOK
    <2>50. n \in 0..MaxPhases /\ worker[g].touched \cup {n} \in SUBSET (1..MaxPhases)
      BY <1>1, <2>3 DEF Workers
    <2>5. worker'[g] \in Workers /\ worker'[g].stage # "out"
      BY <1>1, <1>2, <2>50, <2>4 DEF Workers, At
    <2>6. Moves(g)
      BY <1>1, <1>4, <2>5 DEF Moves, TypeOK
    <2>7. KeepsWorking(g)
      BY <1>1, <1>2, <2>4 DEF KeepsWorking, LateInv, LinksInv, RecordsLate, TodoInv, WorkerInv, Working,
         Marking, At, Running, Workers
    <2>8. worker'[g].active = n /\ worker'[g].touched = worker[g].touched \cup {n}
      BY <1>1, <2>4 DEF Workers
    <2>9. PhaseInv(g)'
      BY <1>1, <2>1, <2>2, <2>8 DEF WorkerInv, PhaseInv
    <2>10. OwnRows(g) /\ CountersGo
      BY <1>1, <1>3, <1>4, <2>1, CallBounds DEF OwnRows, Accepted
    <2> QED
      BY <1>2, <2>6, <2>7, <2>9, <2>10, BodyStep
  <1>5. CASE Raises(g) /\ Throws(g) /\ UNCHANGED phases
    <2>2. PhaseRows(g) /\ CountersGo
      BY <1>1, <1>5, KeptRows, CallBounds
    <2>1. Moves(g) /\ KeepsWorking(g) /\ PhaseInv(g)'
      BY <1>2, <1>5, <2>2, LeaveStep DEF Throws
    <2>3. OwnRows(g)
      BY <1>2, <1>3, <1>5, <2>2 DEF OwnRows
    <2> QED
      BY <1>2, <2>1, <2>2, <2>3, BodyStep
  <1> QED
    BY <1>4, <1>5 DEF EnterPhase

\* A phase is marked, cleanly or not.
Marked(g, i, to) ==
  \/ MarksCleanly(g, phases[g][i], to) /\ SetPhase(g, i, to)
  \/ \E new \in Statuses : MarksBadly(g, phases[g][i], to, new) /\ SetPhase(g, i, new)

LEMMA MarkedPhase ==
  ASSUME TypeOK, NEW g \in Grants, NEW i \in DOMAIN phases[g], NEW to \in Ended, Marked(g, i, to)
  PROVE  /\ PhaseRows(g) /\ Len(phases'[g]) = Len(phases[g])
         /\ lease # g => UNCHANGED phases
         /\ CountersGo
  <1>1. PICK new \in Statuses : /\ SetPhase(g, i, new)
                                /\ \/ MarksCleanly(g, phases[g][i], to) /\ new = to
                                   \/ MarksBadly(g, phases[g][i], to, new)
    BY DEF Marked, Statuses
  <1>2. phases[g] \in Seq(Statuses) /\ phases[g][i] \in Statuses /\ faults \in Nat
    BY DEF TypeOK
  <1>3. (lease # g => new = phases[g][i]) /\ (UNCHANGED bounds \/ Fault)
    BY <1>1, <1>2, MarkedStatus
  <1>4. new = phases[g][i] => UNCHANGED phases
    BY <1>1, <1>2 DEF SetPhase, TypeOK
  <1> QED
    BY <1>1, <1>3, <1>4, SetPhaseRow, CallBounds

LEMMA ActivePhase ==
  ASSUME Inv, NEW g \in Grants, worker[g].active # 0
  PROVE  worker[g].active \in DOMAIN phases[g]
  BY WorkerType DEF WorkerInv, PhaseInv, Inv, TypeOK

LEMMA MarkActiveStep ==
  ASSUME Inv, NEW g \in Grants, Body(g, "operation"), worker[g].active # 0,
         NEW to \in Ended, Marked(g, worker[g].active, to),
         worker' \in {[worker EXCEPT ![g].active = 0], Leave(g)},
         UNCHANGED <<lease, runs, batches, claims>>
  PROVE  Inv'
  <1>1. TypeOK /\ worker[g].active \in DOMAIN phases[g] /\ At(g, "open") /\ worker[g].kind # "recovery"
    BY ActivePhase DEF Inv, Body
  <1>2. /\ PhaseRows(g) /\ Len(phases'[g]) = Len(phases[g])
        /\ (lease # g => UNCHANGED phases) /\ CountersGo
    BY <1>1, MarkedPhase
  <1>3. OwnRows(g)
    BY <1>1, <1>2, KeptRows DEF OwnRows
  <1>4. Moves(g) /\ KeepsWorking(g) /\ PhaseInv(g)'
    BY <1>1, <1>2, LeaveStep
  <1> QED
    BY <1>2, <1>3, <1>4, BodyStep

LEMMA ExitPhaseStep == ASSUME Inv, NEW g \in Grants, ExitPhase(g) PROVE Inv'
  <1>1. /\ Body(g, "operation") /\ worker[g].active # 0 /\ UNCHANGED <<lease, runs, batches, claims>>
        /\ \E to \in {"succeeded", "failed"} :
             /\ Marked(g, worker[g].active, to)
             /\ worker' \in {[worker EXCEPT ![g].active = 0], Leave(g)}
    BY DEF ExitPhase, Marked
  <1> QED
    BY <1>1, MarkActiveStep DEF Ended

LEMMA ReconcileActivePhaseStep == ASSUME Inv, NEW g \in Grants, ReconcileActivePhase(g) PROVE Inv'
  <1>1. /\ Body(g, "operation") /\ worker[g].active # 0 /\ UNCHANGED <<lease, runs, batches, claims>>
        /\ Marked(g, worker[g].active, "failed") /\ worker' = Leave(g)
    BY DEF ReconcileActivePhase, Marked
  <1> QED
    BY <1>1, MarkActiveStep DEF Ended

LEMMA EnsureImplicitRunStep == ASSUME Inv, NEW g \in Grants, EnsureImplicitRun(g) PROVE Inv'
  <1>1. worker[g] \in Workers /\ WorkerInv(g) /\ TypeOK
    BY WorkerType DEF Inv
  <1>2. /\ At(g, "open") /\ worker[g].kind = "transaction" /\ UNCHANGED <<lease, phases, batches, claims>>
    BY DEF EnsureImplicitRun, Body
  <1>3. CountersGo /\ PhaseRows(g) /\ BatchRows(g)
    BY <1>1, <1>2, KeptRows, CallBounds DEF EnsureImplicitRun
  <1>4. CASE /\ Accepted(g) /\ runs' = [runs EXCEPT ![g] = "active"]
             /\ worker' = [worker EXCEPT ![g].implicit = TRUE]
    <2>1. RunRow(g) /\ runs'[g] = "active"
      BY <1>1, <1>4, SetRunRow DEF SetRun, Statuses
    <2>2. worker'[g] = [worker[g] EXCEPT !.implicit = TRUE]
      BY <1>1, <1>4 DEF TypeOK
    <2>3. worker'[g] \in Workers /\ worker'[g].stage # "out"
      BY <1>1, <1>2, <2>2 DEF Workers, At
    <2>4. Moves(g)
      BY <1>1, <1>4, <2>3 DEF Moves, TypeOK
    <2>50. phases[g] = << >>
      BY <1>1, <1>2 DEF WorkerInv, LinksInv, EnsureImplicitRun
    <2>5. KeepsWorking(g) /\ PhaseInv(g)'
      BY <1>1, <1>2, <2>1, <2>2, <2>50 DEF KeepsWorking, LateInv, LinksInv, RecordsLate, TodoInv, WorkerInv,
         Working, Marking, At, Running, Workers, PhaseInv
    <2> QED
      BY <1>2, <1>3, <1>4, <2>1, <2>4, <2>5, BodyStep DEF OwnRows, Accepted
  <1>5. CASE Raises(g) /\ Throws(g) /\ UNCHANGED runs
    <2>1. Moves(g) /\ KeepsWorking(g) /\ PhaseInv(g)'
      BY <1>2, <1>3, <1>5, LeaveStep DEF Throws
    <2> QED
      BY <1>1, <1>2, <1>3, <1>5, <2>1, KeptRows, BodyStep DEF OwnRows
  <1> QED
    BY <1>4, <1>5 DEF EnsureImplicitRun

LEMMA EnsureImplicitPhaseStep == ASSUME Inv, NEW g \in Grants, EnsureImplicitPhase(g) PROVE Inv'
  <1>1. worker[g] \in Workers /\ WorkerInv(g) /\ TypeOK
    BY WorkerType DEF Inv
  <1>2. /\ At(g, "open") /\ worker[g].kind = "transaction" /\ phases[g] = << >>
        /\ UNCHANGED <<lease, runs, batches, claims>>
    BY DEF EnsureImplicitPhase, Body
  <1>3. CountersGo /\ RunRow(g) /\ BatchRows(g)
    BY <1>1, <1>2, KeptRows, CallBounds DEF EnsureImplicitPhase
  <1>4. CASE Accepted(g) /\ Adds(g) /\ worker' = [worker EXCEPT ![g].touched = {1}]
    <2>0. Len(phases[g]) = 0 /\ NextOrder(g) <= MaxPhases
      BY <1>2, BoundTypes DEF NextOrder
    <2>9. PhaseRows(g) /\ Len(phases'[g]) = Len(phases[g]) + 1
      BY <1>1, <1>4, <2>0, AddPhaseRow
    <2>1. PhaseRows(g) /\ Len(phases'[g]) = 1
      BY <2>0, <2>9
    <2>2. worker'[g] = [worker[g] EXCEPT !.touched = {1}] /\ {1} \in SUBSET (1..MaxPhases)
      BY <1>1, <1>4, BoundTypes DEF TypeOK
    <2>3. worker'[g] \in Workers /\ worker'[g].stage # "out"
      BY <1>1, <1>2, <2>2 DEF Workers, At
    <2>4. Moves(g)
      BY <1>1, <1>4, <2>3 DEF Moves, TypeOK
    <2>50. worker[g].todo = {}
      <3>1. worker[g].touched \subseteq 1..0
        BY <1>1, <1>2 DEF WorkerInv, PhaseInv
      <3> QED
        BY <1>1, <3>1 DEF WorkerInv, TodoInv
    <2>51. runs'[g] # "none"
      BY <1>1, <1>2 DEF WorkerInv, LinksInv, EnsureImplicitPhase
    <2>5. KeepsWorking(g)
      BY <1>1, <1>2, <2>2, <2>50, <2>51 DEF KeepsWorking, LateInv, LinksInv, RecordsLate, TodoInv, WorkerInv,
         Working, Marking, At, Running, Workers
    <2>6. worker'[g].active = worker[g].active /\ worker'[g].touched = {1} /\ worker[g].active \in 0..0
      BY <1>1, <1>2, <2>2 DEF Workers, WorkerInv, PhaseInv
    <2>7. PhaseInv(g)'
      BY <2>1, <2>6 DEF PhaseInv
    <2> QED
      BY <1>2, <1>3, <1>4, <2>1, <2>4, <2>5, <2>7, BodyStep DEF OwnRows, Accepted
  <1>5. CASE Raises(g) /\ Throws(g) /\ UNCHANGED phases
    <2>1. Moves(g) /\ KeepsWorking(g) /\ PhaseInv(g)'
      BY <1>2, <1>3, <1>5, LeaveStep DEF Throws
    <2> QED
      BY <1>1, <1>2, <1>3, <1>5, <2>1, KeptRows, BodyStep DEF OwnRows
  <1> QED
    BY <1>4, <1>5 DEF EnsureImplicitPhase

LEMMA CreateExplicitRunStep == ASSUME Inv, NEW g \in Grants, CreateExplicitRun(g) PROVE Inv'
  <1>1. worker[g] \in Workers /\ WorkerInv(g) /\ TypeOK
    BY WorkerType DEF Inv
  <1>2. /\ At(g, "open") /\ worker[g].kind = "transaction" /\ Accepted(g)
        /\ UNCHANGED <<lease, worker, phases, batches, claims>> /\ runs' = [runs EXCEPT ![g] = "active"]
    BY DEF CreateExplicitRun, Body
  <1>3. RunRow(g) /\ runs'[g] = "active"
    BY <1>1, <1>2, SetRunRow DEF SetRun, Statuses
  <1>4. OwnRows(g) /\ CountersGo
    BY <1>1, <1>2, <1>3, KeptRows, CallBounds DEF OwnRows, Accepted
  <1>5. Moves(g) /\ KeepsWorking(g) /\ PhaseInv(g)'
    BY <1>1, <1>2, <1>3, StaysMoves DEF KeepsWorking, LateInv, LinksInv, RecordsLate, TodoInv,
       WorkerInv, Working, Marking, At, Running, PhaseInv
  <1> QED
    BY <1>2, <1>4, <1>5, BodyStep

\* A step that only changes the phases, and leaves as many or more.
LEMMA PhasesStep ==
  ASSUME Inv, NEW g \in Grants, At(g, "open"), worker[g].kind = "transaction", Accepted(g),
         runs[g] # "none", worker[g].implicit => phases[g] # << >>, PhaseRows(g), Len(phases'[g]) >= Len(phases[g]),
         UNCHANGED <<lease, worker, runs, batches, claims>>
  PROVE  Inv'
  <1>1. worker[g] \in Workers /\ WorkerInv(g) /\ TypeOK
    BY WorkerType DEF Inv
  <1>2. OwnRows(g) /\ CountersGo
    BY <1>1, KeptRows, CallBounds DEF OwnRows, Accepted
  <1>3. Moves(g) /\ KeepsWorking(g)
    BY <1>1, StaysMoves DEF KeepsWorking, LateInv, LinksInv, RecordsLate, TodoInv, WorkerInv, Working,
       Marking, At, Running
  <1>4. PhaseInv(g)'
    <2>1. Len(phases[g]) \in Nat /\ Len(phases'[g]) \in Nat
      BY <1>1 DEF TypeOK, PhaseRows
    <2> QED
      BY <1>1, <2>1 DEF WorkerInv, PhaseInv
  <1> QED
    BY <1>2, <1>3, <1>4, BodyStep

LEMMA CreateExplicitPhaseStep == ASSUME Inv, NEW g \in Grants, CreateExplicitPhase(g) PROVE Inv'
  <1>1. /\ At(g, "open") /\ worker[g].kind = "transaction" /\ Accepted(g) /\ Adds(g)
        /\ NextOrder(g) <= MaxPhases /\ UNCHANGED <<lease, worker, runs, batches, claims>> /\ TypeOK
        /\ runs[g] # "none" /\ (worker[g].implicit => phases[g] # << >>)
    BY DEF CreateExplicitPhase, Body, Inv
  <1>2. PhaseRows(g) /\ Len(phases'[g]) = Len(phases[g]) + 1 /\ Len(phases[g]) \in Nat
    BY <1>1, AddPhaseRow DEF TypeOK
  <1> QED
    BY <1>1, <1>2, PhasesStep

LEMMA CloseExplicitPhaseStep == ASSUME Inv, NEW g \in Grants, CloseExplicitPhase(g) PROVE Inv'
  <1>1. /\ At(g, "open") /\ worker[g].kind = "transaction" /\ Accepted(g)
        /\ UNCHANGED <<lease, worker, runs, batches, claims>> /\ TypeOK
    BY DEF CloseExplicitPhase, Body, Inv
  <1>2. PICK i \in DOMAIN phases[g], to \in {"succeeded", "failed"} : SetPhase(g, i, to)
    BY DEF CloseExplicitPhase
  <1>3. PhaseRows(g) /\ Len(phases'[g]) = Len(phases[g]) /\ Len(phases[g]) \in Nat
    BY <1>1, <1>2, SetPhaseRow DEF TypeOK, Statuses, Ended
  <1>4. phases[g] # << >> /\ runs[g] # "none"
    BY <1>1, <1>2, WorkerType DEF WorkerInv, LinksInv
  <1> QED
    BY <1>1, <1>3, <1>4, PhasesStep

-----------------------------------------------------------------------------
(* Writes.                                                                 *)

\* A step between a write and the body around it: nothing but the batches, the
\* stage and the phases that were touched changes.
LEMMA WriteStep ==
  ASSUME Inv, NEW g \in Grants, worker[g].stage \in {"open", "in_batch"}, worker[g].kind # "recovery",
         NEW stage \in {"open", "in_batch"}, NEW touched \in SUBSET DOMAIN phases[g], worker[g].touched \subseteq touched,
         worker' = [worker EXCEPT ![g].stage = stage, ![g].touched = touched],
         BatchRows(g), stage = "in_batch" => batches'[g] # << >>,
         lease # g => UNCHANGED batches, CountersGo,
         UNCHANGED <<lease, runs, phases, claims>>
  PROVE  Inv'
  <1>1. worker[g] \in Workers /\ WorkerInv(g) /\ TypeOK
    BY WorkerType DEF Inv
  <1>2. OwnRows(g)
    BY <1>1, KeptRows DEF OwnRows
  <1>3. worker'[g] = [worker[g] EXCEPT !.stage = stage, !.touched = touched]
    BY <1>1 DEF TypeOK
  <1>4. touched \in SUBSET (1..Len(phases[g])) /\ Len(phases[g]) <= MaxPhases /\ Len(phases[g]) \in Nat
    BY <1>1 DEF TypeOK
  <1>5. touched \in SUBSET (1..MaxPhases) /\ stage \in Stages /\ stage # "out"
    BY <1>4, BoundTypes DEF Stages
  <1>6. /\ worker'[g] \in Workers
         /\ worker'[g].stage = stage /\ worker'[g].touched = touched
         /\ worker'[g].active = worker[g].active /\ worker'[g].kind = worker[g].kind
         /\ worker'[g].automatic = worker[g].automatic /\ worker'[g].lapsed = worker[g].lapsed
         /\ worker'[g].todo = worker[g].todo /\ worker'[g].to = worker[g].to
         /\ worker'[g].after = worker[g].after
         /\ worker'[g].implicit = worker[g].implicit /\ worker'[g].since = worker[g].since
    <2> DEFINE w == [worker[g] EXCEPT !.stage = stage]
    <2>1. /\ w \in Workers /\ w.stage = stage /\ w.active = worker[g].active /\ w.kind = worker[g].kind
          /\ w.automatic = worker[g].automatic /\ w.lapsed = worker[g].lapsed /\ w.todo = worker[g].todo
          /\ w.to = worker[g].to /\ w.after = worker[g].after
          /\ w.implicit = worker[g].implicit /\ w.since = worker[g].since
      BY <1>1, <1>5 DEF Workers
    <2>2. worker'[g] = [w EXCEPT !.touched = touched]
      BY <1>1, <1>3 DEF Workers
    <2> HIDE DEF w
    <2>3. [w EXCEPT !.touched = touched] \in Workers
      BY <1>5, <2>1 DEF Workers
    <2>4. /\ worker'[g].stage = w.stage /\ worker'[g].touched = touched
          /\ worker'[g].active = w.active /\ worker'[g].kind = w.kind
          /\ worker'[g].automatic = w.automatic /\ worker'[g].lapsed = w.lapsed /\ worker'[g].todo = w.todo
          /\ worker'[g].to = w.to /\ worker'[g].after = w.after
          /\ worker'[g].implicit = w.implicit /\ worker'[g].since = w.since
      BY <2>1, <2>2 DEF Workers
    <2> QED
      BY <2>1, <2>2, <2>3, <2>4
  <1>7. Moves(g)
    BY <1>1, <1>5, <1>6 DEF Moves, TypeOK
  <1>8. KeepsWorking(g)
    BY <1>1, <1>6 DEF KeepsWorking, LateInv, LinksInv, RecordsLate, TodoInv, WorkerInv, Working,
       Marking, At, Running
  <1>9. PhaseInv(g)'
    BY <1>1, <1>4, <1>6 DEF WorkerInv, PhaseInv
  <1> QED
    BY <1>2, <1>7, <1>8, <1>9, BodyStep

\* The worker is in the body of an operation or a transaction, with a write or not.
LEMMA CreateBatchStep == ASSUME Inv, NEW g \in Grants, CreateBatch(g) PROVE Inv'
  <1>1. worker[g] \in Workers /\ WorkerInv(g) /\ TypeOK
    BY WorkerType DEF Inv
  <1>2. /\ At(g, "open") /\ Len(batches[g]) < MaxBatches /\ worker[g].kind # "recovery"
        /\ UNCHANGED <<lease, runs, phases, claims>>
    BY DEF CreateBatch
  <1>3. PICK i \in Links(g) :
          LET touching == [worker EXCEPT ![g].touched = @ \cup ({i} \ {0})] IN
          \/ /\ Accepted(g)
             /\ batches' = [batches EXCEPT ![g] = Append(@, [phase |-> i, state |-> "planned"])]
             /\ worker' = [touching EXCEPT ![g].stage = "in_batch"]
          \/ Raises(g) /\ worker' = touching /\ UNCHANGED batches
    BY DEF CreateBatch
  <1>4. i \in DOMAIN phases[g] \cup {0}
    <2>1. worker[g].kind = "operation" => i \in DOMAIN phases[g]
      BY <1>3, ActivePhase DEF Links
    <2> QED
      BY <1>3, <2>1 DEF Links
  <1> DEFINE touched == worker[g].touched \cup ({i} \ {0})
  <1>5. touched \in SUBSET DOMAIN phases[g] /\ worker[g].touched \subseteq touched
    BY <1>1, <1>4 DEF WorkerInv, PhaseInv, TypeOK
  <1>6. CountersGo
    BY <1>1, <1>3, CallBounds
  <1>7. CASE /\ Accepted(g)
             /\ batches' = [batches EXCEPT ![g] = Append(@, [phase |-> i, state |-> "planned"])]
             /\ worker' = [[worker EXCEPT ![g].touched = @ \cup ({i} \ {0})] EXCEPT ![g].stage = "in_batch"]
    <2>1. i \in 0..MaxPhases
      BY <1>1, <1>4, BoundTypes DEF TypeOK
    <2>2. [phase |-> i, state |-> "planned"] \in Batches
      BY <2>1 DEF Batches, BatchPhases
    <2>3. BatchRows(g) /\ batches'[g] # << >>
      BY <1>1, <1>2, <1>7, <2>2, AddBatchRow
    <2>4. worker' = [worker EXCEPT ![g].stage = "in_batch", ![g].touched = touched]
      BY <1>1, <1>7 DEF TypeOK, Workers
    <2> HIDE DEF touched
    <2> QED
      BY <1>2, <1>4, <1>5, <1>6, <1>7, <2>3, <2>4, WriteStep DEF At, Accepted
  <1>8. CASE Raises(g) /\ worker' = [worker EXCEPT ![g].touched = @ \cup ({i} \ {0})] /\ UNCHANGED batches
    <2>1. worker' = [worker EXCEPT ![g].stage = "open", ![g].touched = touched]
      BY <1>1, <1>2, <1>8 DEF TypeOK, Workers, At
    <2> HIDE DEF touched
    <2> QED
      BY <1>1, <1>2, <1>4, <1>5, <1>6, <1>8, <2>1, WriteStep, KeptRows DEF At
  <1> QED
    BY <1>3, <1>7, <1>8

LEMMA LastBatch ==
  ASSUME Inv, NEW g \in Grants, At(g, "in_batch")
  PROVE  /\ Len(batches[g]) \in DOMAIN batches[g] /\ worker[g].kind # "recovery"
         /\ worker[g].touched \in SUBSET DOMAIN phases[g]
         /\ worker = [worker EXCEPT ![g].stage = "in_batch", ![g].touched = worker[g].touched]
         /\ Goto(g, "open") =>
              worker' = [worker EXCEPT ![g].stage = "open", ![g].touched = worker[g].touched]
  <1>1. worker[g] \in Workers /\ WorkerInv(g) /\ TypeOK
    BY WorkerType DEF Inv
  <1>2. batches[g] \in Seq(Batches) /\ batches[g] # << >> /\ worker[g].kind # "recovery"
    BY <1>1 DEF TypeOK, WorkerInv, BeginInv, At
  <1>3. Len(batches[g]) \in DOMAIN batches[g]
    BY <1>2
  <1>4. worker[g].touched \in SUBSET DOMAIN phases[g]
    BY <1>1 DEF WorkerInv, PhaseInv, TypeOK
  <1>5. /\ worker = [worker EXCEPT ![g].stage = "in_batch", ![g].touched = worker[g].touched]
        /\ Goto(g, "open") =>
              worker' = [worker EXCEPT ![g].stage = "open", ![g].touched = worker[g].touched]
    BY <1>1 DEF TypeOK, Workers, At, Goto
  <1> QED
    BY <1>2, <1>3, <1>4, <1>5

LEMMA SetLastRow ==
  ASSUME Inv, NEW g \in Grants, At(g, "in_batch"), NEW state \in BatchPhases, SetLast(g, state)
  PROVE  BatchRows(g) /\ batches'[g] # << >>
  <1>1. TypeOK /\ Len(batches[g]) \in DOMAIN batches[g]
    BY LastBatch DEF Inv
  <1>2. BatchRows(g) /\ Len(batches'[g]) = Len(batches[g])
    BY <1>1, SetBatchRow DEF SetLast
  <1>3. batches[g] \in Seq(Batches)
    BY <1>1 DEF TypeOK
  <1> QED
    BY <1>1, <1>2, <1>3

LEMMA StartBatchStep == ASSUME Inv, NEW g \in Grants, StartBatch(g) PROVE Inv'
  <1>1. /\ At(g, "in_batch") /\ UNCHANGED <<lease, runs, phases, claims>> /\ TypeOK
    BY DEF StartBatch, Inv
  <1>2. CASE Accepted(g) /\ SetLast(g, "attempting") /\ UNCHANGED worker
    <2>1. BatchRows(g) /\ batches'[g] # << >>
      BY <1>1, <1>2, SetLastRow DEF BatchPhases
    <2>2. CountersGo
      BY <1>1, <1>2, CallBounds
    <2> QED
      BY <1>1, <1>2, <2>1, <2>2, LastBatch, WriteStep DEF Accepted, At
  <1>3. CASE Raises(g) /\ Goto(g, "open") /\ UNCHANGED batches
    <2>1. BatchRows(g) /\ CountersGo
      BY <1>1, <1>3, CallBounds, KeptRows
    <2> QED
      BY <1>1, <1>3, <2>1, LastBatch, WriteStep DEF At
  <1> QED
    BY <1>2, <1>3 DEF StartBatch

LEMMA EndBatchStep == ASSUME Inv, NEW g \in Grants, EndBatch(g) PROVE Inv'
  <1>1. /\ At(g, "in_batch") /\ Goto(g, "open") /\ UNCHANGED <<lease, runs, phases, claims>> /\ TypeOK
    BY DEF EndBatch, Inv
  <1>2. BatchRows(g) /\ (lease # g => UNCHANGED batches) /\ CountersGo
    <2>1. CASE Accepted(g) /\ \E state \in {"succeeded", "failed"} : SetLast(g, state)
      BY <1>1, <2>1, SetLastRow, CallBounds DEF BatchPhases, Accepted
    <2>2. CASE Raises(g) /\ UNCHANGED batches
      BY <1>1, <2>2, KeptRows, CallBounds
    <2> QED
      BY <2>1, <2>2 DEF EndBatch
  <1> QED
    BY <1>1, <1>2, LastBatch, WriteStep DEF At

-----------------------------------------------------------------------------
(* Beginning, and leaving.                                                 *)

LEMMA CreateRunStep == ASSUME Inv, NEW g \in Grants, CreateRun(g) PROVE Inv'
  <1>1. worker[g] \in Workers /\ WorkerInv(g) /\ TypeOK
    BY WorkerType DEF Inv
  <1>2. /\ At(g, "create_run") /\ UNCHANGED <<lease, phases, batches, claims>>
        /\ runs[g] = "none" /\ worker[g].kind # "recovery"
    BY <1>1 DEF CreateRun, WorkerInv, BeginInv, At
  <1>3. PICK stage \in {"open", "release_claims"} :
          /\ Goto(g, stage)
          /\ \/ stage = "open" /\ Accepted(g) /\ runs' = [runs EXCEPT ![g] = "active"]
             \/ stage = "release_claims" /\ Raises(g) /\ UNCHANGED runs
    BY DEF CreateRun
  <1>4. Moves(g) /\ worker'[g] = [worker[g] EXCEPT !.stage = stage]
    BY <1>1, <1>3, GotoMoves DEF Stages
  <1>5. CountersGo
    BY <1>1, <1>3, CallBounds
  <1>6. OwnRows(g)
    BY <1>1, <1>2, <1>3, KeptRows, SetRunRow DEF OwnRows, SetRun, Statuses, Accepted
  <1>7. PhaseInv(g)'
    BY <1>1, <1>2, <1>4 DEF WorkerInv, PhaseInv, Workers
  <1>8. CASE stage = "open"
    <2>1. runs'[g] = "active"
      BY <1>1, <1>3, <1>8 DEF TypeOK
    <2>2. KeepsWorking(g)
      BY <1>1, <1>2, <1>4, <1>8, <2>1 DEF KeepsWorking, LateInv, LinksInv, RecordsLate, TodoInv,
         WorkerInv, Working, Marking, At, Running, Workers
    <2> QED
      BY <1>2, <1>4, <1>5, <1>6, <1>7, <2>2, BodyStep
  <1>9. CASE stage = "release_claims"
    <2>1. OwnStep(g)
      BY <1>1, <1>2, <1>4, <1>5, <1>6 DEF OwnStep, OwnWorker, At, TypeOK
    <2>2. runs'[g] = "none"
      BY <1>2, <1>3, <1>9
    <2>9. worker[g].since <= faults'
      BY <1>1, <1>5, FaultTypes DEF WorkerInv, SinceInv, CountersGo
    <2>3. WorkerInv(g)'
      BY <1>1, <1>2, <1>4, <1>7, <1>9, <2>2, <2>9 DEF WorkerInv, BeginInv, TodoInv, LateInv,
         RecordsLate, ExitInv, CleanInv, HeldInv, LinksInv, SinceInv,
         RecordedInv, DiagnosisInv, At, Marking, Running, Workers
    <2> QED
      BY <2>1, <2>3, OwnStepInv
  <1> QED
    BY <1>3, <1>8, <1>9

LEMMA ExitWithErrorStep == ASSUME Inv, NEW g \in Grants, ExitWithError(g) PROVE Inv'
  <1>1. /\ At(g, "open") /\ worker[g].kind # "recovery" /\ worker' = Leave(g)
        /\ UNCHANGED <<lease, runs, phases, batches, claims, bounds>> /\ TypeOK
    BY DEF ExitWithError, durable, Inv
  <1>3. OwnRows(g) /\ CountersGo
    BY <1>1, KeptRows, CallBounds DEF OwnRows
  <1>2. Moves(g) /\ KeepsWorking(g) /\ PhaseInv(g)'
    BY <1>1, <1>3, LeaveStep
  <1> QED
    BY <1>1, <1>2, <1>3, BodyStep

LEMMA ExitCleanlyStep == ASSUME Inv, NEW g \in Grants, ExitCleanly(g) PROVE Inv'
  <1>1. worker[g] \in Workers /\ WorkerInv(g) /\ TypeOK
    BY WorkerType DEF Inv
  <1>2. PICK stage \in {"artifacts", "pending"} :
          /\ worker' = [worker EXCEPT ![g].since = faults, ![g].stage = stage]
          /\ stage = "artifacts" <=> worker[g].kind = "operation"
    BY DEF ExitCleanly
  <1>3. /\ At(g, "open") /\ worker[g].kind # "recovery"
        /\ UNCHANGED <<lease, runs, phases, batches, claims, bounds>>
    BY DEF ExitCleanly, durable
  <1>4. Moves(g) /\ worker'[g] = [worker[g] EXCEPT !.since = faults, !.stage = stage]
    <2> DEFINE w == [worker[g] EXCEPT !.since = faults, !.stage = stage]
    <2>1. worker' = [worker EXCEPT ![g] = w] /\ worker'[g] = w
      BY <1>1, <1>2 DEF TypeOK
    <2>2. w \in Workers /\ w.stage # "out"
      BY <1>1 DEF Workers, Stages, TypeOK
    <2> HIDE DEF w
    <2>3. Moves(g)
      BY <2>1, <2>2 DEF Moves
    <2> QED
      BY <2>1, <2>3 DEF w
  <1>5. OwnRows(g) /\ CountersGo
    BY <1>1, <1>3, KeptRows, CallBounds DEF OwnRows
  <1>6. PhaseInv(g)'
    BY <1>1, <1>3, <1>4 DEF WorkerInv, PhaseInv, Workers
  <1>60. faults' = faults /\ faults \in Nat
    BY <1>3, FaultTypes DEF bounds
  <1>7. CASE stage = "pending"
    <2>0. worker[g].kind = "transaction"
      BY <1>1, <1>2, <1>3, <1>7 DEF Workers, Kinds
    <2>1. KeepsWorking(g)
      BY <1>1, <1>3, <1>4, <1>60, <1>7, <2>0 DEF KeepsWorking, LateInv, LinksInv, RecordsLate, TodoInv,
         WorkerInv, Working, Marking, At, Running, Workers
    <2> QED
      BY <1>3, <1>4, <1>5, <1>6, <2>1, BodyStep
  <1>8. CASE stage = "artifacts"
    <2>1. OwnStep(g)
      BY <1>1, <1>3, <1>4, <1>5 DEF OwnStep, OwnWorker, At, TypeOK
    <2>3. /\ worker'[g].stage = "artifacts" /\ worker'[g].kind = worker[g].kind
          /\ worker'[g].automatic = worker[g].automatic /\ worker'[g].lapsed = worker[g].lapsed
          /\ worker'[g].touched = worker[g].touched /\ worker'[g].todo = worker[g].todo
          /\ worker'[g].to = worker[g].to /\ worker'[g].implicit = worker[g].implicit
          /\ worker'[g].after = worker[g].after /\ worker'[g].since = faults
      BY <1>1, <1>4, <1>8 DEF Workers, TypeOK
    <2>4. worker[g].kind = "operation"
      BY <1>2, <1>8
    <2>2. WorkerInv(g)'
      BY <1>1, <1>3, <1>6, <1>60, <2>3, <2>4 DEF WorkerInv, BeginInv, TodoInv, LateInv,
         RecordsLate, ExitInv, CleanInv, HeldInv, LinksInv, SinceInv,
         RecordedInv, DiagnosisInv, At, Marking, Running
    <2> QED
      BY <2>1, <2>2, OwnStepInv
  <1> QED
    BY <1>7, <1>8

\* A finalization that fails: the phases are marked next, or the cleanup comes first.
LEMMA FailsFinalizationStep ==
  ASSUME Inv, NEW g \in Grants, worker[g].stage \in {"pending", "artifacts", "finalize"},
         worker[g].kind # "operation", NEW after \in Afters, worker' = FailsFinalization(g, after),
         BatchRows(g), lease # g => UNCHANGED batches, CountersGo,
         UNCHANGED <<lease, runs, phases, claims>>
  PROVE  Inv'
  <1>1. worker[g] \in Workers /\ WorkerInv(g) /\ TypeOK
    BY WorkerType DEF Inv
  <1>2. worker[g].kind # "recovery"
    BY <1>1 DEF WorkerInv, BeginInv
  <1> DEFINE w == [worker[g] EXCEPT !.todo = worker[g].touched, !.to = "finalization_failed",
                                    !.after = after, !.stage = "phases"]
  <1>3. worker' = [worker EXCEPT ![g] = w] /\ worker'[g] = w
    BY <1>1 DEF TypeOK, FailsFinalization
  <1>4. w \in Workers
    BY <1>1 DEF Workers, Stages
  <1>5. /\ w.stage = "phases" /\ w.to = "finalization_failed" /\ w.kind = worker[g].kind
        /\ w.automatic = worker[g].automatic /\ w.lapsed = worker[g].lapsed
        /\ w.active = worker[g].active /\ w.touched = worker[g].touched /\ w.todo = worker[g].touched
        /\ w.after = after /\ w.implicit = worker[g].implicit /\ w.since = worker[g].since
    BY <1>1 DEF Workers
  <1> HIDE DEF w
  <1>6. Moves(g)
    BY <1>3, <1>4, <1>5 DEF Moves
  <1>7. KeepsWorking(g)
    BY <1>1, <1>2, <1>3, <1>5 DEF KeepsWorking, LateInv, LinksInv, RecordsLate, TodoInv, WorkerInv,
       Working, Marking, At, Running
  <1>8. PhaseInv(g)'
    BY <1>1, <1>3, <1>5 DEF WorkerInv, PhaseInv
  <1>9. OwnRows(g)
    BY <1>1, KeptRows DEF OwnRows
  <1> QED
    BY <1>6, <1>7, <1>8, <1>9, BodyStep

LEMMA FailsOperationStep ==
  ASSUME Inv, NEW g \in Grants, worker[g].stage \in {"artifacts", "finalize"},
         worker[g].kind = "operation", worker' = FailsOperation(g), CountersGo,
         UNCHANGED <<lease, runs, phases, batches, claims>>
  PROVE  Inv'
  <1>1. worker[g] \in Workers /\ WorkerInv(g) /\ TypeOK
    BY WorkerType DEF Inv
  <1> DEFINE w == [worker[g] EXCEPT !.todo = worker[g].touched, !.to = "finalization_failed",
                                    !.after = "closed", !.stage = "release_claims"]
  <1>3. worker' = [worker EXCEPT ![g] = w] /\ worker'[g] = w
    BY <1>1 DEF TypeOK, FailsOperation
  <1>4. w \in Workers
    BY <1>1 DEF Workers, Stages, Afters
  <1>5. /\ w.stage = "release_claims" /\ w.to = "finalization_failed" /\ w.kind = worker[g].kind
        /\ w.automatic = worker[g].automatic /\ w.lapsed = worker[g].lapsed
        /\ w.active = worker[g].active /\ w.touched = worker[g].touched /\ w.todo = worker[g].touched
        /\ w.after = "closed" /\ w.implicit = worker[g].implicit /\ w.since = worker[g].since
    BY <1>1 DEF Workers
  <1> HIDE DEF w
  <1>6. OwnStep(g)
    BY <1>1, <1>3, <1>4, <1>5, KeptRows DEF OwnStep, OwnRows, OwnWorker, Moves, At, TypeOK
  <1>60. worker[g].since <= faults'
    BY <1>1, FaultTypes DEF WorkerInv, SinceInv, CountersGo
  <1>7. WorkerInv(g)'
    BY <1>1, <1>3, <1>5, <1>60 DEF WorkerInv, BeginInv, PhaseInv, TodoInv, LateInv, RecordsLate,
       ExitInv, CleanInv, HeldInv, LinksInv, SinceInv, RecordedInv, DiagnosisInv, At, Marking, Running
  <1> QED
    BY <1>6, <1>7, OwnStepInv

LEMMA FailsExitStep ==
  ASSUME Inv, NEW g \in Grants, worker[g].stage \in {"artifacts", "finalize"},
         worker' = FailsExit(g), CountersGo, UNCHANGED <<lease, runs, phases, batches, claims>>
  PROVE  Inv'
  BY FailsOperationStep, FailsFinalizationStep, KeptRows DEF FailsExit, Afters, Inv

\* From the clean exit to its next step.
LEMMA CleanStep ==
  ASSUME Inv, NEW g \in Grants, worker[g].stage \in {"pending", "artifacts"},
         NEW stage \in {"artifacts", "finalize", "release_claims"}, Goto(g, stage),
         CleanInv(g)', stage = "release_claims" => ~HasLinks(g),
         BatchRows(g), lease # g => UNCHANGED batches, CountersGo,
         UNCHANGED <<lease, runs, phases, claims>>
  PROVE  Inv'
  <1>1. worker[g] \in Workers /\ WorkerInv(g) /\ TypeOK
    BY WorkerType DEF Inv
  <1>2. Moves(g) /\ worker'[g] = [worker[g] EXCEPT !.stage = stage]
    BY <1>1, GotoMoves DEF Stages
  <1>3. /\ worker'[g].stage = stage /\ worker'[g].kind = worker[g].kind
        /\ worker'[g].automatic = worker[g].automatic /\ worker'[g].lapsed = worker[g].lapsed
        /\ worker'[g].active = worker[g].active /\ worker'[g].touched = worker[g].touched
        /\ worker'[g].todo = worker[g].todo /\ worker'[g].to = worker[g].to
        /\ worker'[g].after = worker[g].after
        /\ worker'[g].implicit = worker[g].implicit /\ worker'[g].since = worker[g].since
    BY <1>1, <1>2 DEF Workers
  <1>4. OwnStep(g)
    BY <1>1, <1>2, KeptRows DEF OwnStep, OwnRows, OwnWorker, At, TypeOK
  <1>50. worker[g].since <= faults'
    BY <1>1, FaultTypes DEF WorkerInv, SinceInv, CountersGo
  <1>5. WorkerInv(g)'
    BY <1>1, <1>3, <1>50 DEF WorkerInv, BeginInv, PhaseInv, TodoInv, LateInv, RecordsLate, ExitInv,
       HeldInv, LinksInv, SinceInv, RecordedInv, PassesOver, HasLinks, HasTouched, DiagnosisInv, At, Marking, Running
  <1> QED
    BY <1>4, <1>5, OwnStepInv

LEMMA RollBackPendingStep == ASSUME Inv, NEW g \in Grants, RollBackPending(g) PROVE Inv'
  <1> DEFINE pending == IF worker[g].automatic THEN InState(g, {"failed"}) ELSE {}
  <1>1. worker[g] \in Workers /\ WorkerInv(g) /\ TypeOK
    BY WorkerType DEF Inv
  <1>2. At(g, "pending") /\ UNCHANGED <<lease, runs, phases, claims>>
    BY DEF RollBackPending
  <1>3. CASE pending = {} /\ UNCHANGED <<batches, bounds>> /\ Goto(g, "artifacts")
    <2>1. CleanInv(g)'
      BY <1>1, <1>2, <1>3 DEF CleanInv, InState, Goto, TypeOK, Workers
    <2> QED
      BY <1>1, <1>2, <1>3, <2>1, CleanStep, KeptRows, CallBounds DEF At
  <1>4. CASE Accepted(g) /\ Recovers(g, pending, {}) /\ Goto(g, "artifacts")
    <2>1. /\ BatchRows(g) /\ Len(batches'[g]) = Len(batches[g])
          /\ \A i \in DOMAIN batches[g] :
               batches'[g][i].state = IF i \in pending THEN "recovered" ELSE batches[g][i].state
      <3> HIDE DEF pending
      <3> QED
        BY <1>1, <1>4, RecoversRow
    <2>2. DOMAIN batches'[g] = DOMAIN batches[g]
      BY <1>1, <2>1 DEF TypeOK, BatchRows
    <2>3. worker'[g].automatic = worker[g].automatic
      BY <1>1, <1>4 DEF Goto, TypeOK, Workers
    <2>4. CleanInv(g)'
      BY <2>1, <2>2, <2>3 DEF CleanInv, InState
    <2>5. CountersGo
      BY <1>1, <1>4, CallBounds
    <2> QED
      BY <1>2, <1>4, <2>1, <2>4, <2>5, CleanStep DEF Accepted, At
  <1>5. CASE /\ worker' = FailsFinalization(g, "abandon")
             /\ \/ Accepted(g) /\ \E done \in SUBSET pending : done # pending /\ Recovers(g, done, {})
                \/ Raises(g) /\ UNCHANGED batches
    <2>1. BatchRows(g) /\ (lease # g => UNCHANGED batches) /\ CountersGo
      BY <1>1, <1>5, RecoversRow, KeptRows, CallBounds DEF Accepted
    <2>2. worker[g].kind # "operation"
      BY <1>1, <1>2 DEF WorkerInv, LateInv
    <2> QED
      BY <1>2, <1>5, <2>1, <2>2, FailsFinalizationStep DEF Afters, At
  <1> QED
    BY <1>3, <1>4, <1>5 DEF RollBackPending

LEMMA CleanArtifactsStep == ASSUME Inv, NEW g \in Grants, CleanArtifacts(g) PROVE Inv'
  <1>1. worker[g] \in Workers /\ WorkerInv(g) /\ TypeOK
    BY WorkerType DEF Inv
  <1>2. At(g, "artifacts") /\ UNCHANGED <<lease, runs, phases, batches, claims, bounds>>
    BY DEF CleanArtifacts, durable
  <1>3. BatchRows(g) /\ CountersGo
    BY <1>1, <1>2, KeptRows, CallBounds
  <1>4. CASE worker' = FailsExit(g)
    BY <1>2, <1>3, <1>4, FailsExitStep DEF At
  <1>5. CASE Goto(g, IF HasLinks(g) THEN "finalize" ELSE "release_claims")
    <2>1. CleanInv(g)'
      BY <1>1, <1>2, <1>5 DEF WorkerInv, CleanInv, InState, Goto, TypeOK, Workers, At
    <2>2. CASE HasLinks(g)
      BY <1>2, <1>3, <1>5, <2>1, <2>2, CleanStep DEF At
    <2>3. CASE ~HasLinks(g)
      BY <1>2, <1>3, <1>5, <2>1, <2>3, CleanStep DEF At
    <2> QED
      BY <2>2, <2>3
  <1> QED
    BY <1>4, <1>5 DEF CleanArtifacts

LEMMA FinalizeStep == ASSUME Inv, NEW g \in Grants, Finalize(g) PROVE Inv'
  <1>1. worker[g] \in Workers /\ WorkerInv(g) /\ TypeOK
    BY WorkerType DEF Inv
  <1>2. At(g, "finalize") /\ UNCHANGED batches
    BY DEF Finalize
  <1>3. CASE /\ MayFinalize(g)
             /\ phases' = [phases EXCEPT ![g] =
                  [i \in DOMAIN @ |-> IF i \in Finalizes(g) THEN "succeeded" ELSE @[i]]]
             /\ claims' = claims \ {g}
             /\ runs' = [runs EXCEPT ![g] = "succeeded"]
             /\ lease' = 0
             /\ Close(g) /\ UNCHANGED bounds
    <2> DEFINE ps == [i \in DOMAIN phases[g] |-> IF i \in Finalizes(g) THEN "succeeded" ELSE phases[g][i]]
    <2>1. phases[g] \in Seq(Statuses) /\ Len(phases[g]) <= MaxPhases /\ Len(phases[g]) \in Nat
      BY <1>1 DEF TypeOK
    <2>2. ps \in [1..Len(phases[g]) -> Statuses]
      BY <2>1 DEF Statuses, Ended
    <2>3. ps \in Seq(Statuses) /\ Len(ps) = Len(phases[g])
      <3> HIDE DEF ps
      <3>1. ps \in Seq(Statuses)
        BY <2>1, <2>2
      <3> QED
        BY <2>1, <2>2, <3>1
    <2>4. phases' = [phases EXCEPT ![g] = ps]
      BY <1>3
    <2>5. phases'[g] = ps
      BY <1>1, <2>4 DEF TypeOK
    <2> HIDE DEF ps
    <2>6. PhaseRows(g) /\ phases'[g] \in Seq(Statuses)
      BY <2>1, <2>3, <2>4, <2>5 DEF PhaseRows
    <2>7. Moves(g) /\ worker'[g] = [Idle EXCEPT !.stage = "closed"]
      BY <1>1, <1>3, CloseMoves
    <2>8. RunRow(g)
      BY <1>1, <1>3, SetRunRow DEF SetRun, Statuses, Ended
    <2>9. OwnRows(g) /\ CountersGo
      BY <1>1, <1>2, <1>3, <2>6, <2>8, KeptRows, CallBounds DEF OwnRows, MayFinalize
    <2>10. OwnStep(g)
      BY <1>1, <1>2, <1>3, <2>7, <2>9 DEF OwnStep, OwnWorker, At, TypeOK, MayFinalize
    <2>11. WorkerInv(g)'
      BY <1>2, <2>6, <2>7, <2>9, StopsInv DEF Running, At
    <2> QED
      BY <2>10, <2>11, OwnStepInv
  <1>4. CASE /\ UNCHANGED bounds \/ Fault
             /\ worker' = FailsExit(g)
             /\ UNCHANGED <<lease, runs, phases, claims>>
    <2>1. CountersGo
      BY <1>1, <1>4, CallBounds
    <2> QED
      BY <1>2, <1>4, <2>1, FailsExitStep DEF At
  <1> QED
    BY <1>3, <1>4 DEF Finalize

-----------------------------------------------------------------------------
(* Marking what a failed exit has touched.                                 *)

\* A run is marked, cleanly or not.
MarkedRun(g, to) ==
  \/ MarksCleanly(g, runs[g], to) /\ SetRun(g, to)
  \/ \E new \in Statuses : MarksBadly(g, runs[g], to, new) /\ SetRun(g, new)

LEMMA MarkedRunRow ==
  ASSUME TypeOK, NEW g \in Grants, NEW to \in Ended, MarkedRun(g, to)
  PROVE  /\ RunRow(g) /\ CountersGo /\ runs[g] # "none" /\ runs'[g] # "none"
         /\ lease # g => UNCHANGED runs
         /\ runs'[g] = "succeeded" => runs[g] = "succeeded" \/ to = "succeeded"
         /\ lease = g /\ UNCHANGED faults => runs'[g] # "active"
  <1>1. PICK new \in Statuses : /\ SetRun(g, new)
                                /\ \/ MarksCleanly(g, runs[g], to) /\ new = to
                                   \/ MarksBadly(g, runs[g], to, new)
    BY DEF MarkedRun, Statuses
  <1>2. runs[g] \in Statuses /\ faults \in Nat
    <2>1. runs[g] # "none"
      BY <1>1 DEF MarksCleanly, MarksBadly, MayUpdate, Diagnosed, MayDiagnose, Diagnostic,
         Statuses, Ended
    <2> QED
      BY <2>1 DEF TypeOK
  <1>3. /\ lease # g => new = runs[g]
        /\ new = "succeeded" => runs[g] = "succeeded" \/ to = "succeeded"
        /\ lease = g /\ UNCHANGED faults => new # "active"
        /\ UNCHANGED bounds \/ Fault
    BY <1>1, <1>2, MarkedStatus
  <1>4. RunRow(g) /\ runs'[g] = new
    BY <1>1, SetRunRow
  <1>5. new = runs[g] => UNCHANGED runs
    BY <1>1 DEF SetRun, TypeOK
  <1> QED
    BY <1>1, <1>2, <1>3, <1>4, <1>5, CallBounds DEF Statuses, Ended

LEMMA FailOperationRunStep == ASSUME Inv, NEW g \in Grants, FailOperationRun(g) PROVE Inv'
  <1>1. worker[g] \in Workers /\ WorkerInv(g) /\ TypeOK
    BY WorkerType DEF Inv
  <1>2. /\ At(g, "operation_run") /\ Goto(g, "phases") /\ UNCHANGED <<lease, phases, batches, claims>>
        /\ MarkedRun(g, "failed")
    BY DEF FailOperationRun, MarkedRun
  <1>3. worker[g].kind # "recovery" /\ worker[g].to \in {"failed", "finalization_failed"}
    BY <1>1, <1>2 DEF WorkerInv, BeginInv, TodoInv, LateInv, RecordsLate, ExitInv, Marking, At
  <1>4. RunRow(g) /\ CountersGo /\ (lease # g => UNCHANGED runs)
        /\ (runs'[g] = "succeeded" => runs[g] = "succeeded") /\ runs'[g] # "none"
    BY <1>1, <1>2, MarkedRunRow DEF Ended
  <1>5. Moves(g) /\ worker'[g] = [worker[g] EXCEPT !.stage = "phases"]
    BY <1>1, <1>2, GotoMoves DEF Stages
  <1>6. KeepsWorking(g)
    BY <1>1, <1>2, <1>3, <1>4, <1>5 DEF KeepsWorking, LateInv, LinksInv, RecordsLate, TodoInv,
       WorkerInv, Working, Marking, At, Running, Workers
  <1>7. PhaseInv(g)'
    BY <1>1, <1>2, <1>5 DEF WorkerInv, PhaseInv, Workers
  <1>8. OwnRows(g)
    BY <1>1, <1>2, <1>4, KeptRows DEF OwnRows
  <1> QED
    BY <1>2, <1>4, <1>5, <1>6, <1>7, <1>8, BodyStep

LEMMA MarkPhaseStep == ASSUME Inv, NEW g \in Grants, MarkPhase(g) PROVE Inv'
  <1>1. worker[g] \in Workers /\ WorkerInv(g) /\ TypeOK
    BY WorkerType DEF Inv
  <1>2. At(g, "phases") /\ UNCHANGED <<lease, runs, batches, claims>>
    BY DEF MarkPhase
  <1>3. PICK i \in NextPhases(g), todo \in SUBSET worker[g].todo :
          Marked(g, i, worker[g].to) /\ worker' = [worker EXCEPT ![g].todo = todo]
    <2>1. PICK i \in NextPhases(g) :
            \/ /\ MarksCleanly(g, phases[g][i], worker[g].to) /\ SetPhase(g, i, worker[g].to)
               /\ worker' = [worker EXCEPT ![g].todo = @ \ {i}]
            \/ \E new \in Statuses :
                 /\ MarksBadly(g, phases[g][i], worker[g].to, new) /\ SetPhase(g, i, new)
                 /\ worker' = [worker EXCEPT ![g].todo = {}]
      BY DEF MarkPhase
    <2>2. PICK todo \in SUBSET worker[g].todo : worker' = [worker EXCEPT ![g].todo = todo]
      <3>1. CASE worker' = [worker EXCEPT ![g].todo = @ \ {i}]
        <4>1. worker' = [worker EXCEPT ![g].todo = worker[g].todo \ {i}]
          BY <3>1
        <4> QED
          BY <4>1, Zenon
      <3>2. CASE worker' = [worker EXCEPT ![g].todo = {}]
        BY <3>2, Zenon
      <3> QED
        BY <2>1, <3>1, <3>2
    <2> QED
      BY <2>1, <2>2 DEF Marked
  <1>4. worker[g].kind # "recovery" /\ worker[g].to \in {"failed", "finalization_failed"}
    BY <1>1, <1>2 DEF WorkerInv, BeginInv, TodoInv, LateInv, RecordsLate, ExitInv, Marking, At
  <1>5. i \in DOMAIN phases[g]
    <2>1. i \in worker[g].todo
      BY <1>3 DEF NextPhases
    <2>2. i \in 1..Len(phases[g])
      BY <1>1, <2>1 DEF WorkerInv, TodoInv, PhaseInv
    <2>3. phases[g] \in Seq(Statuses)
      BY <1>1 DEF TypeOK
    <2> QED
      BY <2>2, <2>3
  <1>6. PhaseRows(g) /\ Len(phases'[g]) = Len(phases[g]) /\ (lease # g => UNCHANGED phases) /\ CountersGo
    BY <1>1, <1>3, <1>4, <1>5, MarkedPhase DEF Ended
  <1>7. worker'[g] = [worker[g] EXCEPT !.todo = todo] /\ todo \in SUBSET (1..MaxPhases)
    BY <1>1, <1>3 DEF TypeOK, Workers
  <1>8. worker'[g] \in Workers
    BY <1>1, <1>7 DEF Workers
  <1>9. /\ worker'[g].stage = "phases" /\ worker'[g].kind = worker[g].kind
        /\ worker'[g].automatic = worker[g].automatic /\ worker'[g].lapsed = worker[g].lapsed
        /\ worker'[g].to = worker[g].to /\ worker'[g].active = worker[g].active
        /\ worker'[g].touched = worker[g].touched /\ worker'[g].todo = todo
        /\ worker'[g].after = worker[g].after
        /\ worker'[g].implicit = worker[g].implicit /\ worker'[g].since = worker[g].since
    BY <1>1, <1>2, <1>7 DEF Workers, At
  <1>10. Moves(g)
    BY <1>1, <1>3, <1>8, <1>9 DEF Moves, TypeOK
  <1>60. phases[g] # << >>
    BY <1>5
  <1>11. KeepsWorking(g)
    BY <1>1, <1>2, <1>4, <1>9, <1>60 DEF KeepsWorking, LateInv, LinksInv, RecordsLate, TodoInv, WorkerInv,
       Working, Marking, At, Running
  <1>12. PhaseInv(g)'
    BY <1>1, <1>2, <1>6, <1>9 DEF WorkerInv, PhaseInv, At
  <1>13. OwnRows(g)
    BY <1>1, <1>2, <1>6, KeptRows DEF OwnRows
  <1> QED
    BY <1>2, <1>6, <1>10, <1>11, <1>12, <1>13, BodyStep

LEMMA PhasesMarkedStep == ASSUME Inv, NEW g \in Grants, PhasesMarked(g) PROVE Inv'
  <1>1. worker[g] \in Workers /\ WorkerInv(g) /\ TypeOK
    BY WorkerType DEF Inv
  <1>2. PICK stage \in {"rollback", "runs"} : Goto(g, stage)
    BY DEF PhasesMarked, AfterPhases
  <1>3. At(g, "phases") /\ UNCHANGED <<lease, runs, phases, batches, claims, bounds>>
    BY DEF PhasesMarked, durable
  <1>4. worker[g].kind # "recovery" /\ worker[g].to \in {"failed", "finalization_failed"}
    BY <1>1, <1>3 DEF WorkerInv, BeginInv, TodoInv, LateInv, RecordsLate, ExitInv, Marking, At
  <1>5. Moves(g) /\ worker'[g] = [worker[g] EXCEPT !.stage = stage]
    BY <1>1, <1>2, GotoMoves DEF Stages
  <1>6. KeepsWorking(g)
    BY <1>1, <1>3, <1>4, <1>5 DEF KeepsWorking, LateInv, LinksInv, RecordsLate, TodoInv, WorkerInv,
       Working, Marking, At, Running, Workers
  <1>7. PhaseInv(g)'
    BY <1>1, <1>3, <1>5 DEF WorkerInv, PhaseInv, Workers
  <1>8. OwnRows(g) /\ CountersGo
    BY <1>1, <1>3, KeptRows, CallBounds DEF OwnRows
  <1> QED
    BY <1>3, <1>5, <1>6, <1>7, <1>8, BodyStep

LEMMA RollBackStep == ASSUME Inv, NEW g \in Grants, RollBack(g) PROVE Inv'
  <1> DEFINE open == InState(g, {"attempting", "succeeded", "failed"})
             abandoned == [worker EXCEPT ![g].after = "abandon", ![g].stage = "runs"]
  <1>1. worker[g] \in Workers /\ WorkerInv(g) /\ TypeOK
    BY WorkerType DEF Inv
  <1>2. At(g, "rollback") /\ UNCHANGED <<lease, runs, phases, claims>>
    BY DEF RollBack
  <1>3. Goto(g, "runs") \/ (worker' = abandoned /\ worker[g].kind = "transaction")
    BY <1>1 DEF RollBack, WorkerInv, BeginInv
  <1>4. \/ UNCHANGED batches
        \/ Accepted(g) /\ \E chosen, rest : Recovers(g, chosen, rest)
    BY DEF RollBack
  <1>5. UNCHANGED bounds \/ Accepted(g) \/ Raises(g)
    BY DEF RollBack
  <1> HIDE DEF open
  <1>6. BatchRows(g) /\ (lease # g => UNCHANGED batches)
    BY <1>1, <1>4, RecoversRow, KeptRows DEF Accepted
  <1>7. worker[g].kind # "recovery" /\ worker[g].to \in {"failed", "finalization_failed"}
    BY <1>1, <1>2 DEF WorkerInv, BeginInv, TodoInv, LateInv, RecordsLate, ExitInv, Marking, At
  <1>8. /\ Moves(g) /\ worker'[g].stage = "runs" /\ worker'[g].kind = worker[g].kind
        /\ worker'[g].automatic = worker[g].automatic /\ worker'[g].lapsed = worker[g].lapsed
        /\ worker'[g].to = worker[g].to /\ worker'[g].active = worker[g].active
        /\ worker'[g].touched = worker[g].touched /\ worker'[g].todo = worker[g].todo
        /\ worker'[g].implicit = worker[g].implicit /\ worker'[g].since = worker[g].since
        /\ RecordsLate(g)' => worker'[g].after = worker[g].after
    <2>1. CASE Goto(g, "runs")
      <3>1. Moves(g) /\ worker'[g] = [worker[g] EXCEPT !.stage = "runs"]
        BY <1>1, <2>1, GotoMoves DEF Stages
      <3> QED
        BY <1>1, <3>1 DEF Workers
    <2>2. CASE worker' = abandoned /\ worker[g].kind = "transaction"
      <3> DEFINE w == [worker[g] EXCEPT !.after = "abandon", !.stage = "runs"]
      <3>1. worker' = [worker EXCEPT ![g] = w] /\ worker'[g] = w
        BY <1>1, <2>2 DEF TypeOK
      <3>2. w \in Workers
        BY <1>1 DEF Workers, Stages, Afters
      <3>3. /\ w.stage = "runs" /\ w.kind = worker[g].kind
            /\ w.automatic = worker[g].automatic /\ w.lapsed = worker[g].lapsed
            /\ w.to = worker[g].to /\ w.active = worker[g].active /\ w.touched = worker[g].touched
            /\ w.todo = worker[g].todo /\ w.after = "abandon"
            /\ w.implicit = worker[g].implicit /\ w.since = worker[g].since
        BY <1>1 DEF Workers
      <3> HIDE DEF w
      <3> QED
        BY <2>2, <3>1, <3>2, <3>3 DEF Moves, RecordsLate
    <2> QED
      BY <1>3, <2>1, <2>2
  <1> HIDE DEF abandoned
  <1>9. KeepsWorking(g)
    BY <1>1, <1>2, <1>7, <1>8 DEF KeepsWorking, LateInv, LinksInv, RecordsLate, TodoInv, WorkerInv,
       Working, Marking, At, Running
  <1>10. PhaseInv(g)'
    BY <1>1, <1>2, <1>8 DEF WorkerInv, PhaseInv
  <1>11. OwnRows(g) /\ CountersGo
    BY <1>1, <1>2, <1>5, <1>6, KeptRows, CallBounds DEF OwnRows
  <1> QED
    BY <1>2, <1>8, <1>9, <1>10, <1>11, BodyStep

\* The run that an exit does not mark is not there, unless the exit passes over it.
LEMMA UnmarkedRun ==
  ASSUME NEW g \in Grants, LinksInv(g), worker[g].to \in {"failed", "finalization_failed"},
         ~MarksRun(g), HasLinks(g), ~PassesOver(g)
  PROVE  runs[g] = "none"
  BY DEF LinksInv, MarksRun, HasLinks, HasTouched, PassesOver

\* The run is marked before the worker cleans up, unless a storage error comes first.
LEMMA MarkRunStep == ASSUME Inv, NEW g \in Grants, MarkRun(g) PROVE Inv'
  <1>1. worker[g] \in Workers /\ WorkerInv(g) /\ LinksInv(g) /\ TypeOK
    BY WorkerType DEF Inv, WorkerInv
  <1>2. At(g, "runs") /\ AfterRuns(g) /\ UNCHANGED <<lease, phases, batches, claims>>
    BY DEF MarkRun
  <1>3. worker[g].kind # "recovery" /\ worker[g].to \in {"failed", "finalization_failed"}
    BY <1>1, <1>2 DEF WorkerInv, BeginInv, ExitInv, Marking, At
  <1>4. /\ RunRow(g) /\ CountersGo /\ (lease # g => UNCHANGED runs)
        /\ runs'[g] = "succeeded" => runs[g] = "succeeded"
        /\ runs'[g] = "none" => runs[g] = "none"
        /\ lease = g /\ UNCHANGED faults /\ HasLinks(g) /\ ~PassesOver(g) => runs'[g] # "active"
    <2>1. CASE MarkedRun(g, worker[g].to)
      BY <1>1, <1>3, <2>1, MarkedRunRow DEF Ended
    <2>2. CASE UNCHANGED <<runs, bounds>> /\ ~MarksRun(g)
      BY <1>1, <1>3, <2>2, KeptRows, CallBounds, UnmarkedRun
    <2> QED
      BY <2>1, <2>2 DEF MarkRun, MarkedRun
  <1>5. OwnRows(g)
    BY <1>1, <1>2, <1>4, KeptRows DEF OwnRows
  <1>6. CASE Close(g)
    <2>1. Moves(g) /\ worker'[g] = [Idle EXCEPT !.stage = "closed"]
      BY <1>1, <1>6, CloseMoves
    <2>2. OwnStep(g)
      BY <1>1, <1>2, <1>4, <1>5, <2>1 DEF OwnStep, OwnWorker, At, TypeOK
    <2>3. WorkerInv(g)'
      BY <1>1, <1>2, <1>4, <2>1, StopsInv DEF Running, At, TypeOK
    <2> QED
      BY <2>2, <2>3, OwnStepInv
  <1>7. CASE worker[g].after = "release_claims" /\ Goto(g, "release_claims")
    <2>1. Moves(g) /\ worker'[g] = [worker[g] EXCEPT !.stage = "release_claims"]
      BY <1>1, <1>7, GotoMoves DEF Stages
    <2>2. /\ worker'[g].stage = "release_claims" /\ worker'[g].kind = worker[g].kind
          /\ worker'[g].automatic = worker[g].automatic /\ worker'[g].lapsed = worker[g].lapsed
          /\ worker'[g].active = worker[g].active /\ worker'[g].touched = worker[g].touched
          /\ worker'[g].todo = worker[g].todo /\ worker'[g].to = worker[g].to
          /\ worker'[g].implicit = worker[g].implicit /\ worker'[g].after = worker[g].after
          /\ worker'[g].since = worker[g].since
      BY <1>1, <2>1 DEF Workers
    <2>3. OwnStep(g)
      BY <1>1, <1>2, <1>4, <1>5, <2>1 DEF OwnStep, OwnWorker, At, TypeOK
    <2>4. HeldInv(g)' \/ RecordsLate(g)
      BY <1>1, <1>2, <2>2 DEF WorkerInv, HeldInv, RecordsLate, At, Running
    <2>5. RecordedInv(g)' /\ SinceInv(g)'
      <3>1. ~worker[g].lapsed /\ ~RecordsLate(g) => lease = g
        BY <1>1, <1>2 DEF WorkerInv, HeldInv, At, Running
      <3>2. SinceInv(g)' /\ (faults' = worker[g].since => UNCHANGED faults)
        BY <1>1, <1>4, <2>2, FaultTypes DEF WorkerInv, SinceInv, CountersGo
      <3>3. /\ HasLinks(g)' <=> HasLinks(g)
            /\ RecordsLate(g)' <=> RecordsLate(g)
            /\ PassesOver(g)' <=> PassesOver(g)
        BY <1>2, <2>2 DEF HasLinks, HasTouched, RecordsLate, PassesOver
      <3> QED
        BY <1>4, <2>2, <3>1, <3>2, <3>3 DEF RecordedInv
    <2>6. /\ BeginInv(g)' /\ PhaseInv(g)' /\ TodoInv(g)' /\ ExitInv(g)' /\ CleanInv(g)' /\ DiagnosisInv(g)'
          /\ LateInv(g)' /\ LinksInv(g)'
      BY <1>1, <1>2, <1>3, <1>4, <2>2 DEF WorkerInv, LinksInv, BeginInv, PhaseInv, TodoInv, LateInv,
         RecordsLate, ExitInv, CleanInv,
         DiagnosisInv, At, Marking
    <2>7. ~RecordsLate(g)
      BY <1>1, <1>2, <1>7 DEF WorkerInv, LateInv
    <2> QED
      BY <2>3, <2>4, <2>5, <2>6, <2>7, OwnStepInv DEF WorkerInv
  <1> QED
    BY <1>2, <1>6, <1>7 DEF AfterRuns

-----------------------------------------------------------------------------
(* Cleanup, and the end.                                                   *)

LEMMA CloseStep ==
  ASSUME Inv, NEW g \in Grants, Running(g), Close(g), CountersGo, claims' \subseteq Grants,
         lease' = lease \/ (lease = g /\ lease' = 0), UNCHANGED <<runs, phases, batches>>
  PROVE  Inv'
  <1>1. TypeOK
    BY DEF Inv
  <1>2. Moves(g) /\ worker'[g] = [Idle EXCEPT !.stage = "closed"]
    BY <1>1, CloseMoves
  <1>3. OwnStep(g)
    BY <1>1, <1>2, KeptRows DEF OwnStep, OwnRows, OwnWorker, Running, At
  <1>4. WorkerInv(g)'
    BY <1>1, <1>2, StopsInv DEF TypeOK
  <1> QED
    BY <1>3, <1>4, OwnStepInv

\* From one call of the cleanup to the next, or on to the records of an operation
\* whose finalization has failed.
LEMMA CleanupStep ==
  ASSUME Inv, NEW g \in Grants, worker[g].stage \in {"release_claims", "release_lease"},
         NEW stage \in {"release_lease", "phases"}, Goto(g, stage),
         stage = "phases" => RecordsLate(g), CountersGo, claims' \subseteq Grants,
         lease' = lease \/ (lease = g /\ lease' = 0 /\ stage = "phases"),
         UNCHANGED <<runs, phases, batches>>
  PROVE  Inv'
  <1>1. worker[g] \in Workers /\ WorkerInv(g) /\ TypeOK
    BY WorkerType DEF Inv
  <1>2. Moves(g) /\ worker'[g] = [worker[g] EXCEPT !.stage = stage]
    BY <1>1, GotoMoves DEF Stages
  <1>3. /\ worker'[g].stage = stage /\ worker'[g].kind = worker[g].kind
        /\ worker'[g].automatic = worker[g].automatic /\ worker'[g].lapsed = worker[g].lapsed
        /\ worker'[g].active = worker[g].active /\ worker'[g].touched = worker[g].touched
        /\ worker'[g].todo = worker[g].todo /\ worker'[g].to = worker[g].to
        /\ worker'[g].implicit = worker[g].implicit /\ worker'[g].after = worker[g].after
        /\ worker'[g].since = worker[g].since
    BY <1>1, <1>2 DEF Workers
  <1>4. OwnStep(g)
    BY <1>1, <1>2, KeptRows DEF OwnStep, OwnRows, OwnWorker, At
  <1>5. BeginInv(g)' /\ PhaseInv(g)' /\ TodoInv(g)' /\ ExitInv(g)' /\ CleanInv(g)' /\ DiagnosisInv(g)'
    BY <1>1, <1>3 DEF WorkerInv, BeginInv, PhaseInv, TodoInv, ExitInv, CleanInv, DiagnosisInv,
       RecordsLate, At, Marking
  <1>6. HeldInv(g)' /\ LateInv(g)'
    BY <1>1, <1>3 DEF WorkerInv, HeldInv, LateInv, RecordsLate, At, Running
  <1>7. LinksInv(g)' /\ SinceInv(g)' /\ RecordedInv(g)'
    <2>1. SinceInv(g)' /\ (faults' = worker[g].since => faults = worker[g].since)
      BY <1>1, <1>3, FaultTypes DEF WorkerInv, SinceInv, CountersGo
    <2> QED
      BY <1>1, <1>3, <2>1 DEF WorkerInv, LinksInv, RecordedInv, PassesOver, HasLinks, HasTouched, RecordsLate
  <1> QED
    BY <1>4, <1>5, <1>6, <1>7, OwnStepInv DEF WorkerInv

LEMMA AfterCleanupStep ==
  ASSUME Inv, NEW g \in Grants, worker[g].stage \in {"release_claims", "release_lease"},
         AfterCleanup(g), CountersGo, UNCHANGED claims,
         lease' = lease \/ (lease = g /\ lease' = 0), UNCHANGED <<runs, phases, batches>>
  PROVE  Inv'
  <1>1. claims' \subseteq Grants /\ Running(g)
    BY DEF Inv, TypeOK, Running
  <1>2. CASE RecordsLate(g) /\ Goto(g, "phases")
    BY <1>1, <1>2, CleanupStep
  <1>3. CASE Close(g)
    BY <1>1, <1>3, CloseStep
  <1> QED
    BY <1>2, <1>3 DEF AfterCleanup, RecordsLate

LEMMA ReleaseClaimsStep == ASSUME Inv, NEW g \in Grants, ReleaseClaims(g) PROVE Inv'
  <1>1. /\ At(g, "release_claims") /\ UNCHANGED <<lease, runs, phases, batches>> /\ TypeOK
        /\ Running(g) /\ claims \subseteq Grants
    BY DEF ReleaseClaims, Inv, Running, At, TypeOK
  <1>2. CASE claims' = claims \ {g} /\ Goto(g, "release_lease") /\ UNCHANGED bounds
    <2>1. CountersGo
      BY <1>1, <1>2, CallBounds
    <2> QED
      BY <1>1, <1>2, <2>1, CleanupStep DEF At
  <1>3. CASE LeaseLost(g) /\ AfterCleanup(g) /\ UNCHANGED claims
    <2>1. CountersGo
      BY <1>1, <1>3, CallBounds
    <2> QED
      BY <1>1, <1>3, <2>1, AfterCleanupStep DEF At
  <1>4. CASE Fault /\ Close(g) /\ UNCHANGED claims
    <2>1. CountersGo
      BY <1>1, <1>4, CallBounds
    <2> QED
      BY <1>1, <1>4, <2>1, CloseStep
  <1> QED
    BY <1>2, <1>3, <1>4 DEF ReleaseClaims

LEMMA ReleaseLeaseStep == ASSUME Inv, NEW g \in Grants, ReleaseLease(g) PROVE Inv'
  <1>1. /\ At(g, "release_lease") /\ UNCHANGED <<runs, phases, batches, claims>> /\ TypeOK
        /\ Running(g) /\ claims \subseteq Grants
    BY DEF ReleaseLease, durable, Inv, Running, At, TypeOK
  <1>2. CASE lease' = (IF lease = g THEN 0 ELSE lease) /\ AfterCleanup(g) /\ UNCHANGED bounds
    <2>1. CountersGo
      BY <1>1, <1>2, CallBounds
    <2> QED
      BY <1>1, <1>2, <2>1, AfterCleanupStep DEF At
  <1>3. CASE Fault /\ Close(g) /\ UNCHANGED lease
    <2>1. CountersGo
      BY <1>1, <1>3, CallBounds
    <2> QED
      BY <1>1, <1>3, <2>1, CloseStep
  <1> QED
    BY <1>2, <1>3 DEF ReleaseLease

LEMMA CrashStep == ASSUME Inv, NEW g \in Grants, Crash(g) PROVE Inv'
  <1>1. /\ Running(g) /\ UNCHANGED <<lease, runs, phases, batches, claims>> /\ TypeOK
        /\ worker' = [worker EXCEPT ![g] = [Idle EXCEPT !.stage = "gone"]]
    BY DEF Crash, durable, Inv
  <1>2. CountersGo
    BY <1>1, BoundTypes DEF Crash, CountersGo, TypeOK
  <1> DEFINE w == [Idle EXCEPT !.stage = "gone"]
  <1>3. w \in Workers /\ w.stage = "gone"
    BY IdleWorker DEF Stages, Idle
  <1>4. worker'[g] = w /\ worker' = [worker EXCEPT ![g] = w]
    BY <1>1 DEF TypeOK
  <1>5. WorkerInv(g)'
    BY <1>1, <1>2, <1>4, StopsInv DEF TypeOK
  <1> HIDE DEF w
  <1>6. OwnStep(g)
    BY <1>1, <1>2, <1>3, <1>4, KeptRows DEF OwnStep, OwnRows, OwnWorker, Moves, Running, At,
       TypeOK
  <1> QED
    BY <1>5, <1>6, OwnStepInv

-----------------------------------------------------------------------------
(* A recovery's own steps.                                                 *)

LEMMA FreeClaimsStep == ASSUME Inv, NEW g \in Grants, FreeClaims(g) PROVE Inv'
  <1> DEFINE done == worker[g].done \cup {worker[g].target}
             w == [worker[g] EXCEPT !.stage = "open", !.done = done, !.target = Idle.target]
  <1>1. worker[g] \in Workers /\ WorkerInv(g) /\ TypeOK
    BY WorkerType DEF Inv
  <1>2. /\ At(g, "free") /\ UNCHANGED <<lease, runs, phases, batches>>
        /\ worker' = [worker EXCEPT ![g] = w]
    BY <1>1 DEF FreeClaims, TypeOK
  <1>3. claims' \subseteq Grants /\ CountersGo
    BY <1>1, CallBounds DEF FreeClaims, TypeOK
  <1>4. worker'[g] = w
    BY <1>1, <1>2 DEF TypeOK
  <1>5. w \in Workers
    <2>1. Idle.target \in Grants \X (1..MaxBatches)
      BY IdleWorker DEF Workers
    <2>2. done \in SUBSET (Grants \X (1..MaxBatches))
      BY <1>1 DEF Workers
    <2> HIDE DEF done
    <2> QED
      BY <1>1, <2>1, <2>2 DEF Workers, Stages
  <1>6. /\ w.stage = "open" /\ w.kind = worker[g].kind
        /\ w.automatic = worker[g].automatic /\ w.lapsed = worker[g].lapsed
        /\ w.active = worker[g].active /\ w.touched = worker[g].touched
        /\ w.todo = worker[g].todo /\ w.to = worker[g].to
        /\ w.implicit = worker[g].implicit /\ w.after = worker[g].after /\ w.since = worker[g].since
    BY <1>1 DEF Workers
  <1> HIDE DEF w
  <1>60. worker[g].since <= faults'
    BY <1>1, <1>3, FaultTypes DEF WorkerInv, SinceInv, CountersGo
  <1>7. OwnStep(g)
    BY <1>1, <1>2, <1>3, <1>4, <1>5, <1>6, KeptRows DEF OwnStep, OwnRows, OwnWorker, Moves, At
  <1>8. WorkerInv(g)'
    BY <1>1, <1>2, <1>4, <1>6, <1>60 DEF WorkerInv, BeginInv, Blank, PhaseInv, TodoInv, ExitInv,
       CleanInv, LateInv, RecordsLate, HeldInv, LinksInv, SinceInv, RecordedInv, DiagnosisInv, At, Marking, Running
  <1> QED
    BY <1>7, <1>8, OwnStepInv

LEMMA EndRecoveryStep == ASSUME Inv, NEW g \in Grants, EndRecovery(g) PROVE Inv'
  <1>1. /\ At(g, "open") /\ Close(g) /\ UNCHANGED <<runs, phases, batches>> /\ TypeOK
    BY DEF EndRecovery, Body, Inv
  <1>2. /\ claims' \subseteq Grants /\ (lease' = lease \/ (lease = g /\ lease' = 0)) /\ CountersGo
    BY <1>1, CallBounds DEF EndRecovery, Accepted, TypeOK
  <1> QED
    BY <1>1, <1>2, CloseStep DEF Running, At

-----------------------------------------------------------------------------
(* What a recovery does to the rows of an earlier grant.                   *)

\* The recovery r, whose lease is current, changes rows of h: no write that was
\* recovered ceases to be, and no run becomes active or succeeded again.
OnBehalf(r, h) ==
  /\ h < r /\ lease = r /\ ~At(r, "out") /\ UNCHANGED <<lease, claims>> /\ CountersGo /\ Moves(r)
  /\ batches[h] # << >>
  /\ RunRow(h) /\ PhaseRows(h) /\ BatchRows(h)
  /\ Len(phases'[h]) = Len(phases[h]) /\ Len(batches'[h]) = Len(batches[h])
  /\ \A k \in DOMAIN batches[h] :
       /\ batches'[h][k].phase = batches[h][k].phase
       /\ batches[h][k].state = "recovered" => batches'[h][k].state = "recovered"
  /\ runs'[h] = runs[h] \/ (runs[h] \in Reopened /\ runs'[h] = "finalization_failed")

LEMMA OnBehalfType ==
  ASSUME Inv, NEW r \in Grants, NEW h \in Grants, OnBehalf(r, h)
  PROVE  TypeOK' /\ LeaseInv'
  <1> USE DEF Inv, OnBehalf
  <1>1. worker' \in [Grants -> Workers] /\ \A g \in Grants : g # r => worker'[g] = worker[g]
    <2> DEFINE w == worker'[r]
    <2>1. worker' = [worker EXCEPT ![r] = w] /\ w \in Workers /\ worker \in [Grants -> Workers]
      BY DEF TypeOK, Moves
    <2> HIDE DEF w
    <2> QED
      BY <2>1
  <1>2. /\ runs' \in [Grants -> Statuses \cup {"none"}]
        /\ phases' \in [Grants -> Seq(Statuses)] /\ \A g \in Grants : Len(phases'[g]) <= MaxPhases
        /\ batches' \in [Grants -> Seq(Batches)] /\ \A g \in Grants : Len(batches'[g]) <= MaxBatches
    BY DEF TypeOK, RunRow, PhaseRows, BatchRows
  <1>3. TypeOK'
    BY <1>1, <1>2 DEF TypeOK, CountersGo
  <1>4. \A g \in Grants : At(g, "out")' <=> At(g, "out")
    BY <1>1 DEF At, Moves
  <1> QED
    BY <1>3, <1>4 DEF LeaseInv

LEMMA OnBehalfOthers ==
  ASSUME Inv, NEW r \in Grants, NEW h \in Grants, OnBehalf(r, h), NEW g \in Grants, g # r
  PROVE  WorkerInv(g)'
  <1>1. WorkerInv(g) /\ TypeOK /\ worker[g] \in Workers /\ g \in Nat /\ h \in Nat /\ r \in Nat
    BY WorkerType DEF Inv, Grants
  <1>2. worker'[g] = worker[g]
    BY <1>1 DEF OnBehalf, Moves, TypeOK
  <1>3. g # h => runs'[g] = runs[g] /\ phases'[g] = phases[g] /\ batches'[g] = batches[g]
    BY <1>1 DEF OnBehalf, RunRow, PhaseRows, BatchRows, TypeOK
  <1>4. h # r /\ lease # h /\ lease' = lease
    BY <1>1 DEF OnBehalf
  <1>5. /\ Len(phases'[g]) = Len(phases[g])
        /\ runs'[g] = runs[g] \/ (runs[g] \in Reopened /\ runs'[g] = "finalization_failed")
    BY <1>3 DEF OnBehalf
  <1>6. batches'[g] # << >> <=> batches[g] # << >>
    <2>1. CASE g = h
      <3>1. batches[h] \in Seq(Batches) /\ batches'[h] \in Seq(Batches)
        BY OnBehalfType DEF TypeOK, Inv
      <3> QED
        BY <2>1, <3>1 DEF OnBehalf
    <2> QED
      BY <1>3, <2>1
  <1>7. g = h => ~At(g, "out") /\ worker[g].kind # "recovery"
    BY <1>1 DEF WorkerInv, BeginInv, Blank, OnBehalf
  <1>70. (phases'[g] # << >> <=> phases[g] # << >>) /\ (runs'[g] = "none" => runs[g] = "none")
    <2>1. phases[g] \in Seq(Statuses) /\ phases'[g] \in Seq(Statuses)
      BY OnBehalfType DEF TypeOK, Inv
    <2> QED
      BY <1>5, <2>1
  <1>8. BeginInv(g)' /\ PhaseInv(g)' /\ TodoInv(g)' /\ LateInv(g)' /\ LinksInv(g)'
    BY <1>1, <1>2, <1>3, <1>5, <1>6, <1>7, <1>70 DEF WorkerInv, BeginInv, Blank, PhaseInv, TodoInv,
       LateInv, LinksInv, RecordsLate, At, Reopened
  <1>9. ExitInv(g)' /\ HeldInv(g)'
    BY <1>1, <1>2, <1>4, <1>5 DEF WorkerInv, ExitInv, HeldInv, RecordsLate, At, Running
  <1>10. CleanInv(g)'
    BY <1>1, <1>2, <1>3, <1>4 DEF WorkerInv, CleanInv, InState
  <1>11. RecordedInv(g)' /\ SinceInv(g)'
    <2>1. SinceInv(g)' /\ (faults' = worker[g].since => faults = worker[g].since)
      BY <1>1, <1>2, FaultTypes DEF OnBehalf, CountersGo, WorkerInv, SinceInv
    <2> QED
      BY <1>1, <1>2, <1>5, <1>70, <2>1 DEF WorkerInv, RecordedInv, PassesOver, HasLinks, HasTouched, RecordsLate
  <1>12. DiagnosisInv(g)'
    <2> SUFFICES ASSUME worker[g].stage \in {"diagnose_phase", "diagnose_run", "free"}
                 PROVE  DiagnosisInv(g)'
      BY <1>2 DEF DiagnosisInv
    <2> DEFINE t == worker[g].target[1]
               k == worker[g].target[2]
    <2>1. /\ t \in Grants /\ t < g /\ k \in 1..Len(batches[t]) /\ batches[t][k].state = "recovered"
          /\ At(g, "free") /\ batches[t][k].phase # 0 => runs[t] \notin Reopened
      BY <1>1 DEF WorkerInv, DiagnosisInv, Workers
    <2>2. t # h => runs'[t] = runs[t] /\ batches'[t] = batches[t]
      BY <1>1, <2>1 DEF OnBehalf, RunRow, BatchRows, TypeOK
    <2>3. t = h => /\ Len(batches'[t]) = Len(batches[t]) /\ batches'[t][k].state = "recovered"
                   /\ batches'[t][k].phase = batches[t][k].phase
                   /\ runs[t] \notin Reopened => runs'[t] = runs[t]
      <3>1. t = h => k \in DOMAIN batches[h]
        BY <1>1, <2>1 DEF TypeOK
      <3> QED
        BY <2>1, <3>1 DEF OnBehalf
    <2> QED
      BY <1>2, <2>1, <2>2, <2>3 DEF DiagnosisInv, At
  <1> QED
    BY <1>8, <1>9, <1>10, <1>11, <1>12 DEF WorkerInv

LEMMA OnBehalfInv ==
  ASSUME Inv, NEW r \in Grants, NEW h \in Grants, OnBehalf(r, h), WorkerInv(r)'
  PROVE  Inv'
  BY OnBehalfType, OnBehalfOthers DEF Inv

\* What no recovery changes in its worker.
Keeps(r) ==
  /\ worker'[r].kind = worker[r].kind /\ worker'[r].automatic = worker[r].automatic
  /\ worker'[r].lapsed = worker[r].lapsed /\ worker'[r].active = worker[r].active
  /\ worker'[r].touched = worker[r].touched /\ worker'[r].todo = worker[r].todo
  /\ worker'[r].to = worker[r].to /\ worker'[r].implicit = worker[r].implicit
  /\ worker'[r].after = worker[r].after /\ worker'[r].since = worker[r].since

\* A recovery that goes to another stage: its own rows are blank and stay so.
LEMMA RecoveryInv ==
  ASSUME Inv, NEW r \in Grants, UNCHANGED lease, Keeps(r), CountersGo,
         worker[r].stage \in {"open", "diagnose_phase", "diagnose_run"},
         worker'[r].stage \in {"open", "diagnose_phase", "diagnose_run", "free"},
         runs'[r] = runs[r], phases'[r] = phases[r], batches'[r] = batches[r],
         DiagnosisInv(r)'
  PROVE  WorkerInv(r)'
  <1>1. WorkerInv(r) /\ worker[r].since <= faults'
    BY FaultTypes DEF Inv, WorkerInv, SinceInv, CountersGo
  <1> QED
    BY <1>1 DEF Keeps, WorkerInv, BeginInv, Blank, PhaseInv, TodoInv, ExitInv, CleanInv,
       LateInv, RecordsLate, HeldInv, LinksInv, SinceInv, RecordedInv, At, Marking, Running

\* The worker of a recovery turns to a write, or back to its loop.
Turn(r, stage, target, done, missed) ==
  worker' = [worker EXCEPT
    ![r] = [@ EXCEPT !.stage = stage, !.target = target, !.done = done, !.missed = missed]]

LEMMA TurnMoves ==
  ASSUME TypeOK, NEW r \in Grants, NEW stage \in Stages \ {"out"},
         NEW target \in Grants \X (1..MaxBatches), NEW done \in SUBSET (Grants \X (1..MaxBatches)),
         NEW missed \in SUBSET Grants, Turn(r, stage, target, done, missed)
  PROVE  /\ Moves(r) /\ Keeps(r) /\ worker'[r].stage = stage /\ worker'[r].target = target
         /\ worker'[r].done = done /\ worker'[r].missed = missed
  <1> DEFINE w == [worker[r] EXCEPT !.stage = stage, !.target = target, !.done = done, !.missed = missed]
  <1>1. worker[r] \in Workers
    BY DEF TypeOK
  <1>2. worker' = [worker EXCEPT ![r] = w] /\ worker'[r] = w
    BY DEF TypeOK, Turn
  <1>3. w \in Workers
    BY <1>1 DEF Workers
  <1>4. /\ w.stage = stage /\ w.target = target /\ w.kind = worker[r].kind
        /\ w.automatic = worker[r].automatic /\ w.lapsed = worker[r].lapsed
        /\ w.active = worker[r].active /\ w.touched = worker[r].touched
        /\ w.todo = worker[r].todo /\ w.to = worker[r].to
        /\ w.implicit = worker[r].implicit /\ w.after = worker[r].after /\ w.since = worker[r].since
        /\ w.done = done /\ w.missed = missed
    BY <1>1 DEF Workers
  <1> HIDE DEF w
  <1>5. worker' = [worker EXCEPT ![r] = worker'[r]]
    BY <1>2
  <1>6. Moves(r)
    BY <1>2, <1>3, <1>4, <1>5 DEF Moves
  <1> QED
    BY <1>2, <1>4, <1>6 DEF Keeps

\* A step of a recovery that changes no row.
LEMMA RecoveryStep ==
  ASSUME Inv, NEW r \in Grants, Moves(r), Keeps(r), CountersGo,
         worker[r].stage \in {"open", "diagnose_phase", "diagnose_run"},
         worker'[r].stage \in {"open", "diagnose_phase", "diagnose_run", "free"},
         DiagnosisInv(r)', UNCHANGED <<lease, runs, phases, batches, claims>>
  PROVE  Inv'
  <1>1. TypeOK
    BY DEF Inv
  <1>2. OwnStep(r)
    BY <1>1, KeptRows DEF OwnStep, OwnRows, OwnWorker, At, TypeOK
  <1>3. WorkerInv(r)'
    BY RecoveryInv
  <1> QED
    BY <1>2, <1>3, OwnStepInv

\* A step of a recovery that changes rows of h.
LEMMA OnBehalfStep ==
  ASSUME Inv, NEW r \in Grants, NEW h \in Grants, OnBehalf(r, h), Keeps(r),
         worker[r].stage \in {"open", "diagnose_phase", "diagnose_run"},
         worker'[r].stage \in {"open", "diagnose_phase", "diagnose_run", "free"},
         DiagnosisInv(r)'
  PROVE  Inv'
  <1>1. runs'[r] = runs[r] /\ phases'[r] = phases[r] /\ batches'[r] = batches[r]
    BY DEF OnBehalf, Inv, TypeOK, RunRow, PhaseRows, BatchRows, Grants
  <1>2. WorkerInv(r)'
    BY <1>1, RecoveryInv DEF OnBehalf
  <1> QED
    BY <1>2, OnBehalfInv

LEMMA RecoverBatchStep == ASSUME Inv, NEW r \in Grants, RecoverBatch(r) PROVE Inv'
  <1>1. worker[r] \in Workers /\ WorkerInv(r) /\ TypeOK /\ LeaseInv
    BY WorkerType DEF Inv
  <1>2. /\ At(r, "open") /\ worker[r].kind = "recovery" /\ Accepted(r)
        /\ UNCHANGED <<lease, runs, phases, claims>>
    BY DEF RecoverBatch, Body
  <1>3. PICK b \in Pending \ worker[r].done :
          LET state == batches[b[1]][b[2]].state
              chosen == [worker EXCEPT ![r].stage = "diagnose_phase", ![r].target = b]
              undone == [chosen EXCEPT ![r].done = @ \cup {b}]
              set(new) == batches' = [batches EXCEPT ![b[1]][b[2]].state = new]
          IN  \/ state = "recovered" /\ worker' = chosen /\ UNCHANGED batches
              \/ state # "recovered" /\ worker' = undone /\ set("recovered")
              \/ state # "recovered" /\ UNCHANGED worker /\ set("failed")
    BY DEF RecoverBatch
  <1> DEFINE h == b[1]
             k == b[2]
  <1>4. h \in Grants /\ k \in DOMAIN batches[h] /\ b \in Grants \X (1..MaxBatches)
    BY <1>3 DEF Pending
  <1>5. batches[h] \in Seq(Batches) /\ batches[h] # << >> /\ k \in 1..Len(batches[h])
    BY <1>1, <1>4 DEF TypeOK
  <1>6. h < r /\ lease = r
    <2>1. ~At(h, "out") /\ h # r
      BY <1>1, <1>2, <1>4, <1>5, WorkerType DEF WorkerInv, BeginInv, Blank
    <2> QED
      BY <1>2, <1>4, <2>1, <1>1 DEF LeaseInv, Accepted, Grants
  <1>7. CountersGo
    BY <1>1, <1>2, CallBounds
  <1>8. RunRow(h) /\ PhaseRows(h)
    BY <1>1, <1>2, <1>4, KeptRows
  <1>9. CASE /\ batches[h][k].state = "recovered" /\ UNCHANGED batches
             /\ worker' = [worker EXCEPT ![r].stage = "diagnose_phase", ![r].target = b]
    <2>1. Turn(r, "diagnose_phase", b, worker[r].done, worker[r].missed)
      BY <1>1, <1>9 DEF Turn, TypeOK, Workers
    <2>2. worker[r].done \in SUBSET (Grants \X (1..MaxBatches)) /\ worker[r].missed \in SUBSET Grants
      BY <1>1 DEF Workers
    <2>3. /\ Moves(r) /\ Keeps(r) /\ worker'[r].stage = "diagnose_phase" /\ worker'[r].target = b
      BY <1>1, <1>4, <2>1, <2>2, TurnMoves DEF Stages
    <2>4. DiagnosisInv(r)'
      BY <1>5, <1>6, <1>9, <2>3 DEF DiagnosisInv, At
    <2> QED
      BY <1>2, <1>7, <1>9, <2>3, <2>4, RecoveryStep DEF At
  <1>10. CASE /\ batches[h][k].state # "recovered"
              /\ batches' = [batches EXCEPT ![h][k].state = "recovered"]
              /\ worker' = [[worker EXCEPT ![r].stage = "diagnose_phase", ![r].target = b]
                              EXCEPT ![r].done = @ \cup {b}]
    <2>1. Turn(r, "diagnose_phase", b, worker[r].done \cup {b}, worker[r].missed)
      BY <1>1, <1>10 DEF Turn, TypeOK, Workers
    <2>2. /\ worker[r].done \cup {b} \in SUBSET (Grants \X (1..MaxBatches))
          /\ worker[r].missed \in SUBSET Grants
      BY <1>1, <1>4 DEF Workers
    <2>3. /\ Moves(r) /\ Keeps(r) /\ worker'[r].stage = "diagnose_phase" /\ worker'[r].target = b
      BY <1>1, <1>4, <2>1, <2>2, TurnMoves DEF Stages
    <2>4. /\ BatchRows(h) /\ Len(batches'[h]) = Len(batches[h])
          /\ batches'[h][k] = [batches[h][k] EXCEPT !.state = "recovered"]
          /\ \A j \in DOMAIN batches[h] : j # k => batches'[h][j] = batches[h][j]
      BY <1>1, <1>4, <1>10, SetBatchRow DEF BatchPhases
    <2>5. batches[h][k] \in Batches
      BY <1>4, <1>5
    <2>6. batches'[h][k].state = "recovered" /\ batches'[h][k].phase = batches[h][k].phase
      BY <2>4, <2>5 DEF Batches
    <2>7. OnBehalf(r, h)
      BY <1>2, <1>5, <1>6, <1>7, <1>8, <2>3, <2>4, <2>6 DEF OnBehalf, At
    <2>8. DiagnosisInv(r)'
      BY <1>5, <1>6, <2>3, <2>4, <2>6 DEF DiagnosisInv, At
    <2> QED
      BY <1>2, <1>4, <2>3, <2>7, <2>8, OnBehalfStep DEF At
  <1>11. CASE /\ batches[h][k].state # "recovered" /\ UNCHANGED worker
              /\ batches' = [batches EXCEPT ![h][k].state = "failed"]
    <2>1. /\ BatchRows(h) /\ Len(batches'[h]) = Len(batches[h])
          /\ batches'[h][k] = [batches[h][k] EXCEPT !.state = "failed"]
          /\ \A j \in DOMAIN batches[h] : j # k => batches'[h][j] = batches[h][j]
      BY <1>1, <1>4, <1>11, SetBatchRow DEF BatchPhases
    <2>10. batches[h][k] \in Batches
      BY <1>4, <1>5
    <2>11. batches'[h][k].phase = batches[h][k].phase
      BY <2>1, <2>10 DEF Batches
    <2>2. Moves(r) /\ Keeps(r)
      BY <1>1, <1>2, <1>11, StaysMoves DEF Keeps, At
    <2>3. OnBehalf(r, h)
      BY <1>2, <1>5, <1>6, <1>7, <1>8, <1>11, <2>1, <2>2, <2>11 DEF OnBehalf, At
    <2>4. DiagnosisInv(r)'
      BY <1>2, <1>11 DEF DiagnosisInv, At
    <2> QED
      BY <1>2, <1>4, <1>11, <2>2, <2>3, <2>4, OnBehalfStep DEF At
  <1> QED
    BY <1>3, <1>9, <1>10, <1>11

LEMMA ResumeMoves ==
  ASSUME TypeOK, NEW r \in Grants, Resume(r)
  PROVE  /\ Moves(r) /\ Keeps(r) /\ worker'[r].stage = "open" /\ worker'[r].done = worker[r].done
         /\ worker'[r].missed = worker[r].missed \cup {worker[r].target[1]}
  <1> DEFINE missed == worker[r].missed \cup {worker[r].target[1]}
  <1>1. worker[r] \in Workers /\ Idle.target \in Grants \X (1..MaxBatches)
    BY IdleWorker DEF TypeOK, Workers
  <1>2. Turn(r, "open", Idle.target, worker[r].done, missed)
    BY <1>1 DEF Resume, Turn, TypeOK, Workers
  <1>3. worker[r].done \in SUBSET (Grants \X (1..MaxBatches)) /\ missed \in SUBSET Grants
    BY <1>1 DEF Workers
  <1> HIDE DEF missed
  <1>4. /\ Moves(r) /\ Keeps(r) /\ worker'[r].stage = "open" /\ worker'[r].done = worker[r].done
        /\ worker'[r].missed = missed
    BY <1>1, <1>2, <1>3, TurnMoves DEF Stages
  <1> QED
    BY <1>4 DEF missed

\* What a recovery knows of the write it is at.
LEMMA Target ==
  ASSUME Inv, NEW r \in Grants, worker[r].stage \in {"diagnose_phase", "diagnose_run"}
  PROVE  /\ worker[r].target[1] \in Grants /\ worker[r].target[1] < r
         /\ batches[worker[r].target[1]] # << >>
         /\ \A stage \in {"diagnose_run", "free"} :
              Goto(r, stage) => /\ Moves(r) /\ Keeps(r) /\ worker'[r].stage = stage
                                /\ worker'[r].target = worker[r].target
                                /\ worker'[r].done = worker[r].done
                                /\ worker'[r].missed = worker[r].missed
  <1>1. worker[r] \in Workers /\ WorkerInv(r) /\ TypeOK
    BY WorkerType DEF Inv
  <1>2. /\ worker[r].target[1] \in Grants /\ worker[r].target[1] < r
        /\ worker[r].target[2] \in 1..Len(batches[worker[r].target[1]])
    BY <1>1 DEF WorkerInv, DiagnosisInv, Workers
  <1>3. batches[worker[r].target[1]] # << >>
    BY <1>1, <1>2 DEF TypeOK
  <1>4. ASSUME NEW stage \in {"diagnose_run", "free"}, Goto(r, stage)
        PROVE  /\ Moves(r) /\ Keeps(r) /\ worker'[r].stage = stage
               /\ worker'[r].target = worker[r].target
               /\ worker'[r].done = worker[r].done
               /\ worker'[r].missed = worker[r].missed
    <2>1. Moves(r) /\ worker'[r] = [worker[r] EXCEPT !.stage = stage]
      BY <1>1, <1>4, GotoMoves DEF Stages
    <2> QED
      BY <1>1, <2>1 DEF Keeps, Workers
  <1> QED
    BY <1>2, <1>3, <1>4

LEMMA DiagnosePhaseStep == ASSUME Inv, NEW r \in Grants, DiagnosePhase(r) PROVE Inv'
  <1> DEFINE h == worker[r].target[1]
             i == TargetPhase(r)
  <1>1. worker[r] \in Workers /\ WorkerInv(r) /\ TypeOK
    BY WorkerType DEF Inv
  <1>2. At(r, "diagnose_phase") /\ UNCHANGED <<lease, runs, batches, claims>>
    BY DEF DiagnosePhase
  <1>3. /\ h \in Grants /\ h < r /\ batches[h] # << >>
        /\ \A stage \in {"diagnose_run", "free"} :
              Goto(r, stage) => /\ Moves(r) /\ Keeps(r) /\ worker'[r].stage = stage
                                /\ worker'[r].target = worker[r].target
    BY <1>2, Target DEF At
  <1>4. ASSUME Goto(r, "diagnose_run") PROVE DiagnosisInv(r)'
    BY <1>1, <1>2, <1>3, <1>4 DEF WorkerInv, DiagnosisInv, At
  <1>5. CASE Goto(r, "diagnose_run") /\ UNCHANGED <<phases, bounds>>
    <2>1. CountersGo
      BY <1>1, <1>5, CallBounds
    <2> QED
      BY <1>2, <1>3, <1>4, <1>5, <2>1, RecoveryStep DEF At
  <1>6. CASE Accepted(r) /\ SetPhase(h, i, "finalization_failed") /\ Goto(r, "diagnose_run")
    <2>1. CountersGo /\ lease = r
      BY <1>1, <1>6, CallBounds DEF Accepted
    <2>2. PhaseRows(h) /\ Len(phases'[h]) = Len(phases[h])
      <3> HIDE DEF i
      <3> QED
        BY <1>1, <1>3, <1>6, SetPhaseRow DEF Statuses, Ended
    <2>3. OnBehalf(r, h)
      BY <1>1, <1>2, <1>3, <1>6, <2>1, <2>2, KeptRows DEF OnBehalf, At
    <2> QED
      BY <1>2, <1>3, <1>4, <1>6, <2>3, OnBehalfStep DEF At
  <1>7. CASE Raises(r) /\ Resume(r) /\ UNCHANGED phases
    <2>1. CountersGo /\ Moves(r) /\ Keeps(r) /\ worker'[r].stage = "open"
      BY <1>1, <1>7, CallBounds, ResumeMoves
    <2>2. DiagnosisInv(r)'
      BY <2>1 DEF DiagnosisInv
    <2> QED
      BY <1>2, <1>7, <2>1, <2>2, RecoveryStep DEF At
  <1> QED
    BY <1>5, <1>6, <1>7 DEF DiagnosePhase

LEMMA DiagnoseRunStep == ASSUME Inv, NEW r \in Grants, DiagnoseRun(r) PROVE Inv'
  <1> DEFINE h == worker[r].target[1]
  <1>1. worker[r] \in Workers /\ WorkerInv(r) /\ TypeOK
    BY WorkerType DEF Inv
  <1>2. At(r, "diagnose_run") /\ UNCHANGED <<lease, phases, batches, claims>>
    BY DEF DiagnoseRun
  <1>3. /\ h \in Grants /\ h < r /\ batches[h] # << >>
        /\ \A stage \in {"diagnose_run", "free"} :
              Goto(r, stage) => /\ Moves(r) /\ Keeps(r) /\ worker'[r].stage = stage
                                /\ worker'[r].target = worker[r].target
    BY <1>2, Target DEF At
  <1>4. ASSUME Goto(r, "free"), TargetPhase(r) # 0 => runs'[h] \notin Reopened PROVE DiagnosisInv(r)'
    BY <1>1, <1>2, <1>3, <1>4 DEF WorkerInv, DiagnosisInv, At, TargetPhase
  <1>5. CASE ~RunIsOpen(h, TargetPhase(r)) /\ Goto(r, "free") /\ UNCHANGED <<runs, bounds>>
    <2>1. CountersGo
      BY <1>1, <1>5, CallBounds
    <2> QED
      BY <1>2, <1>3, <1>4, <1>5, <2>1, RecoveryStep DEF At, RunIsOpen
  <1>6. CASE /\ runs[h] \in Reopened /\ Accepted(r) /\ SetRun(h, "finalization_failed")
             /\ Goto(r, "free")
    <2>1. CountersGo /\ lease = r
      BY <1>1, <1>6, CallBounds DEF Accepted
    <2>2. RunRow(h) /\ runs'[h] = "finalization_failed"
      BY <1>1, <1>3, <1>6, SetRunRow DEF Statuses, Ended
    <2>3. OnBehalf(r, h)
      BY <1>1, <1>2, <1>3, <1>6, <2>1, <2>2, KeptRows DEF OnBehalf, At
    <2>4. DiagnosisInv(r)'
      BY <1>4, <1>6, <2>2 DEF Reopened
    <2> QED
      BY <1>2, <1>3, <1>6, <2>3, <2>4, OnBehalfStep DEF At
  <1>7. CASE Raises(r) /\ Resume(r) /\ UNCHANGED runs
    <2>1. CountersGo /\ Moves(r) /\ Keeps(r) /\ worker'[r].stage = "open"
      BY <1>1, <1>7, CallBounds, ResumeMoves
    <2>2. DiagnosisInv(r)'
      BY <2>1 DEF DiagnosisInv
    <2> QED
      BY <1>2, <1>7, <2>1, <2>2, RecoveryStep DEF At
  <1> QED
    BY <1>5, <1>6, <1>7 DEF DiagnoseRun, RunIsOpen

-----------------------------------------------------------------------------
(* The lease changes hands.                                                *)

\* A grant is made in order, while no other is current.
LEMMA EnterStep == ASSUME Inv, NEW g \in Grants, Enter(g) PROVE Inv'
  <1>1. worker[g] \in Workers /\ WorkerInv(g) /\ TypeOK /\ LeaseInv /\ worker[g] = Idle /\ Blank(g)
    BY WorkerType DEF Inv, Enter, WorkerInv, BeginInv
  <1>2. /\ At(g, "out") /\ lease = 0 /\ lease' = g /\ UNCHANGED <<runs, phases, batches, bounds>>
        /\ \A h \in Grants : h < g => ~At(h, "out")
    BY DEF Enter
  <1>3. PICK kind \in Contexts[g], automatic \in BOOLEAN :
          /\ automatic => kind = "transaction"
          /\ worker' = [worker EXCEPT ![g].kind = kind, ![g].automatic = automatic,
                          ![g].stage = IF kind = "operation" THEN "create_run" ELSE "open"]
          /\ claims' = IF kind = "recovery" THEN claims ELSE claims \cup {g}
    BY DEF Enter
  <1> DEFINE stage == IF kind = "operation" THEN "create_run" ELSE "open"
             w == [Idle EXCEPT !.kind = kind, !.automatic = automatic, !.stage = stage]
  <1>4. kind \in Kinds
    BY <1>3, ContextsAssumption
  <1>5. worker' = [worker EXCEPT ![g] = w]
    BY <1>1, <1>3
  <1>6. worker'[g] = w /\ \A h \in Grants : h # g => worker'[h] = worker[h]
    BY <1>1, <1>5 DEF TypeOK
  <1>7. w \in Workers
    <2>1. Idle \in Workers /\ stage \in Stages /\ automatic \in BOOLEAN
      BY IdleWorker DEF Stages
    <2> HIDE DEF stage
    <2> QED
      BY <1>4, <2>1 DEF Workers
  <1>8. /\ w.kind = kind /\ w.automatic = automatic /\ w.stage = stage /\ w.implicit = FALSE
        /\ w.active = 0 /\ w.touched = {} /\ w.todo = {} /\ w.to = "succeeded" /\ w.lapsed = FALSE
        /\ w.since = 0
    BY DEF Idle
  <1> HIDE DEF w
  <1>9. TypeOK'
    <2>1. worker' \in [Grants -> Workers]
      BY <1>1, <1>5, <1>7 DEF TypeOK
    <2>2. lease' \in 0..MaxGrants /\ claims' \subseteq Grants
      BY <1>1, <1>2, <1>3, BoundTypes DEF TypeOK, Grants
    <2> QED
      BY <1>1, <1>2, <2>1, <2>2 DEF TypeOK, bounds
  <1>10. LeaseInv'
    <2>1. \A h \in Grants : At(h, "out")' <=> h # g /\ At(h, "out")
      BY <1>6, <1>8 DEF At
    <2> QED
      BY <1>1, <1>2, <2>1, BoundTypes DEF LeaseInv, Grants
  <1>11. WorkerInv(g)'
    <2>1. BeginInv(g)'
      <3>1. Blank(g)' /\ worker'[g].stage \in {"create_run", "open"}
        BY <1>1, <1>2, <1>6, <1>8 DEF Blank
      <3>2. worker'[g].automatic => worker'[g].kind = "transaction"
        BY <1>3, <1>6, <1>8
      <3>3. (worker'[g].kind = "recovery" => worker'[g].stage = "open") /\ worker'[g].implicit = FALSE
        BY <1>6, <1>8
      <3> QED
        BY <3>1, <3>2, <3>3 DEF BeginInv, Blank, At
    <2>2. PhaseInv(g)'
      BY <1>1, <1>2, <1>6, <1>8 DEF Blank, PhaseInv
    <2>3. runs'[g] = "none" /\ phases'[g] = << >> /\ w.stage \in {"create_run", "open"}
      BY <1>1, <1>2, <1>8 DEF Blank
    <2>4. 0 <= faults'
      BY <1>9, BoundTypes DEF TypeOK
    <2> QED
      BY <1>2, <1>6, <1>8, <2>1, <2>2, <2>3, <2>4 DEF WorkerInv, TodoInv, ExitInv, CleanInv, LateInv,
         RecordsLate, HeldInv, LinksInv, SinceInv, RecordedInv, DiagnosisInv, At, Marking, Running
  <1>12. ASSUME NEW h \in Grants, h # g PROVE WorkerInv(h)'
    <2>1. WorkerInv(h) /\ worker'[h] = worker[h] /\ lease # h /\ lease' # h /\ UNCHANGED faults
      BY <1>2, <1>6, <1>12, WorkerType, BoundTypes DEF bounds, Grants
    <2>2. BeginInv(h)' /\ PhaseInv(h)' /\ TodoInv(h)' /\ ExitInv(h)' /\ LateInv(h)' /\ CleanInv(h)'
      BY <1>2, <2>1 DEF WorkerInv, BeginInv, Blank, PhaseInv, TodoInv, ExitInv, LateInv,
         RecordsLate,
         CleanInv, At, Marking
    <2>3. HeldInv(h)' /\ RecordedInv(h)' /\ DiagnosisInv(h)' /\ LinksInv(h)' /\ SinceInv(h)'
      BY <1>2, <2>1 DEF WorkerInv, HeldInv, RecordsLate, LinksInv, SinceInv, RecordedInv, PassesOver,
         HasLinks, HasTouched, DiagnosisInv, At, Running
    <2> QED
      BY <2>2, <2>3 DEF WorkerInv
  <1> QED
    BY <1>9, <1>10, <1>11, <1>12 DEF Inv

\* A lease that expires leaves its worker running: it is marked as lapsed.
LEMMA LapseStep == ASSUME Inv, Lapse PROVE Inv'
  <1>1. TypeOK /\ LeaseInv /\ lease \in Grants
    BY BoundTypes DEF Inv, TypeOK, Lapse, Grants
  <1>2. lease' = 0 /\ UNCHANGED <<runs, phases, batches, claims, faults, crashes>>
    BY DEF Lapse, durable
  <1>3. worker[lease] \in Workers
    BY <1>1 DEF TypeOK
  <1>4. /\ worker' \in [Grants -> Workers] /\ lapses' \in 0..MaxLapses
        /\ \A g \in Grants : g # lease => worker'[g] = worker[g]
        /\ \/ ~Running(lease) /\ worker'[lease] = worker[lease]
           \/ Running(lease) /\ worker'[lease] = [worker[lease] EXCEPT !.lapsed = TRUE]
    <2>1. CASE ~Running(lease) /\ UNCHANGED <<worker, lapses>>
      BY <1>1, <2>1 DEF TypeOK
    <2>2. CASE /\ Running(lease) /\ lapses < MaxLapses /\ lapses' = lapses + 1
               /\ worker' = [worker EXCEPT ![lease].lapsed = TRUE]
      <3> DEFINE w == [worker[lease] EXCEPT !.lapsed = TRUE]
      <3>1. w \in Workers
        BY <1>3 DEF Workers
      <3>2. worker' = [worker EXCEPT ![lease] = w]
        BY <2>2
      <3>3. lapses' \in 0..MaxLapses
        BY <1>1, <2>2, BoundTypes DEF TypeOK
      <3> HIDE DEF w
      <3>4. worker' \in [Grants -> Workers] /\ worker'[lease] = w
        BY <1>1, <3>1, <3>2 DEF TypeOK
      <3>5. \A g \in Grants : g # lease => worker'[g] = worker[g]
        BY <1>1, <3>2 DEF TypeOK
      <3> QED
        BY <2>2, <3>3, <3>4, <3>5 DEF w
    <2> QED
      BY <2>1, <2>2 DEF Lapse
  <1>5. ASSUME NEW g \in Grants
        PROVE  /\ worker'[g].kind = worker[g].kind /\ worker'[g].automatic = worker[g].automatic
               /\ worker'[g].active = worker[g].active /\ worker'[g].touched = worker[g].touched
               /\ worker'[g].todo = worker[g].todo /\ worker'[g].to = worker[g].to
               /\ worker'[g].implicit = worker[g].implicit /\ worker'[g].after = worker[g].after
               /\ worker'[g].stage = worker[g].stage /\ worker'[g].target = worker[g].target
               /\ worker'[g].since = worker[g].since
               /\ worker'[g].done = worker[g].done /\ worker'[g].missed = worker[g].missed
               /\ (worker'[g] = worker[g] \/ worker'[g].lapsed)
               /\ (At(g, "out") => worker'[g] = worker[g])
    BY <1>3, <1>4 DEF Workers, Running, At
  <1>6. TypeOK'
    BY <1>1, <1>2, <1>4, BoundTypes DEF TypeOK
  <1>7. LeaseInv'
    <2>1. \A g \in Grants : At(g, "out")' <=> At(g, "out")
      BY <1>5 DEF At
    <2> QED
      BY <1>1, <1>2, <2>1, BoundTypes DEF LeaseInv, Grants
  <1>8. ASSUME NEW g \in Grants PROVE WorkerInv(g)'
    <2>1. WorkerInv(g)
      BY DEF Inv
    <2>2. lease' # g
      BY <1>2, BoundTypes DEF Grants
    <2>3. /\ BeginInv(g)' /\ PhaseInv(g)' /\ TodoInv(g)' /\ ExitInv(g)' /\ LateInv(g)' /\ CleanInv(g)'
          /\ LinksInv(g)' /\ SinceInv(g)'
      BY <1>2, <1>5, <2>1, <2>2 DEF WorkerInv, BeginInv, Blank, PhaseInv, TodoInv, ExitInv,
         LateInv, LinksInv, SinceInv, RecordsLate, CleanInv, At, Marking
    <2>4. DiagnosisInv(g)'
      BY <1>2, <1>5, <2>1 DEF WorkerInv, DiagnosisInv, At
    <2>5. HeldInv(g)' /\ RecordedInv(g)'
      <3>1. CASE worker'[g].lapsed
        BY <3>1 DEF HeldInv, RecordedInv, Running
      <3>2. CASE worker'[g] = worker[g] /\ ~worker[g].lapsed
        <4>1. g = lease => ~Running(g)
          BY <1>1, <1>4, <3>2 DEF Workers, TypeOK
        <4> QED
          BY <1>2, <2>1, <3>2, <4>1 DEF WorkerInv, HeldInv, RecordedInv, HasLinks,
             RecordsLate, Running
      <3> QED
        BY <1>5, <3>1, <3>2
    <2> QED
      BY <2>3, <2>4, <2>5 DEF WorkerInv
  <1> QED
    BY <1>6, <1>7, <1>8 DEF Inv

-----------------------------------------------------------------------------
(* The invariant, and what follows from it.                                *)

LEMMA ExitStep == ASSUME Inv, NEW g \in Grants, Exit(g) PROVE Inv'
  BY ExitWithErrorStep, ExitCleanlyStep, RollBackPendingStep, CleanArtifactsStep, FinalizeStep,
     FailOperationRunStep, MarkPhaseStep, PhasesMarkedStep, RollBackStep, MarkRunStep,
     ReleaseClaimsStep, ReleaseLeaseStep DEF Exit

LEMMA NextInv == Inv /\ [Next]_vars => Inv'
  <1> SUFFICES ASSUME Inv, [Next]_vars PROVE Inv'
    OBVIOUS
  <1>1. CASE UNCHANGED vars
    BY <1>1 DEF vars, Inv, TypeOK, LeaseInv, WorkerInv, BeginInv, Blank, PhaseInv, TodoInv,
       ExitInv,
       LateInv, RecordsLate, CleanInv, InState, HeldInv, LinksInv, SinceInv, RecordedInv, PassesOver, HasLinks, HasTouched, DiagnosisInv, At,
       Marking, Running
  <1>2. CASE Lapse
    BY <1>2, LapseStep
  <1>3. ASSUME NEW g \in Grants,
               \/ Enter(g) \/ CreateRun(g) \/ EnterPhase(g) \/ ExitPhase(g) \/ ReconcileActivePhase(g)
               \/ EnsureImplicitRun(g) \/ EnsureImplicitPhase(g) \/ CreateExplicitRun(g)
               \/ CreateExplicitPhase(g) \/ CloseExplicitPhase(g)
               \/ CreateBatch(g) \/ StartBatch(g) \/ EndBatch(g) \/ Exit(g)
               \/ RecoverBatch(g) \/ DiagnosePhase(g) \/ DiagnoseRun(g) \/ FreeClaims(g)
               \/ EndRecovery(g) \/ Crash(g)
        PROVE  Inv'
    BY <1>3, EnterStep, CreateRunStep, EnterPhaseStep, ExitPhaseStep, ReconcileActivePhaseStep,
       EnsureImplicitRunStep, EnsureImplicitPhaseStep, CreateExplicitRunStep, CreateExplicitPhaseStep,
       CloseExplicitPhaseStep, CreateBatchStep, StartBatchStep, EndBatchStep, ExitStep,
       RecoverBatchStep, DiagnosePhaseStep, DiagnoseRunStep, FreeClaimsStep, EndRecoveryStep, CrashStep
  <1> QED
    BY <1>1, <1>2, <1>3 DEF Next

LEMMA SpecInv == Spec => []Inv
  BY InitInv, NextInv, PTL DEF Spec

\* A worker steps, or the lease lapses.
LEMMA Steps ==
  ASSUME [Next]_vars
  PROVE  \/ UNCHANGED vars
         \/ Lapse
         \/ \E g \in Grants :
              \/ Enter(g) \/ CreateRun(g) \/ EnterPhase(g) \/ ExitPhase(g) \/ ReconcileActivePhase(g)
              \/ EnsureImplicitRun(g) \/ EnsureImplicitPhase(g) \/ CreateExplicitRun(g)
              \/ CreateExplicitPhase(g) \/ CloseExplicitPhase(g)
              \/ CreateBatch(g) \/ StartBatch(g) \/ EndBatch(g)
              \/ ExitWithError(g) \/ ExitCleanly(g) \/ RollBackPending(g) \/ CleanArtifacts(g)
              \/ Finalize(g) \/ FailOperationRun(g) \/ MarkPhase(g) \/ PhasesMarked(g) \/ RollBack(g)
              \/ MarkRun(g) \/ ReleaseClaims(g) \/ ReleaseLease(g)
              \/ RecoverBatch(g) \/ DiagnosePhase(g) \/ DiagnoseRun(g) \/ FreeClaims(g)
              \/ EndRecovery(g) \/ Crash(g)
  BY DEF Next, Exit

\* The steps that change runs.
LEMMA RunSteps ==
  ASSUME [Next]_vars, runs' # runs
  PROVE  \E g \in Grants : \/ CreateRun(g) \/ EnsureImplicitRun(g) \/ CreateExplicitRun(g)
                           \/ Finalize(g) \/ FailOperationRun(g) \/ MarkRun(g) \/ DiagnoseRun(g)
  BY ZenonT(60), Steps DEF vars, durable, Lapse, Enter, EnterPhase, ExitPhase, ReconcileActivePhase,
     EnsureImplicitPhase, CreateExplicitPhase, CloseExplicitPhase, CreateBatch, StartBatch, EndBatch,
     ExitWithError, ExitCleanly, RollBackPending, CleanArtifacts, MarkPhase, PhasesMarked, RollBack,
     ReleaseClaims, ReleaseLease, RecoverBatch, DiagnosePhase, FreeClaims, EndRecovery, Crash

\* The steps that change phases.
LEMMA PhaseSteps ==
  ASSUME [Next]_vars, phases' # phases
  PROVE  \E g \in Grants : \/ EnterPhase(g) \/ ExitPhase(g) \/ ReconcileActivePhase(g)
                           \/ EnsureImplicitPhase(g) \/ CreateExplicitPhase(g) \/ CloseExplicitPhase(g)
                           \/ Finalize(g) \/ MarkPhase(g) \/ DiagnosePhase(g)
  BY ZenonT(60), Steps DEF vars, durable, Lapse, Enter, CreateRun, EnsureImplicitRun, CreateExplicitRun,
     CreateBatch, StartBatch, EndBatch, ExitWithError, ExitCleanly, RollBackPending, CleanArtifacts,
     FailOperationRun, PhasesMarked, RollBack, MarkRun, ReleaseClaims, ReleaseLease, RecoverBatch,
     DiagnoseRun, FreeClaims, EndRecovery, Crash

\* What a step does to a run: how it is made, ends, and is taken back.
RunStep(g) ==
  \/ runs'[g] = runs[g]
  \/ lease = g /\ runs[g] = "none" /\ runs'[g] = "active"
  \/ lease = g /\ runs[g] = "active" /\ runs'[g] \in {"failed", "finalization_failed"}
  \/ Finalize(g) /\ lease = g /\ runs[g] = "active" /\ runs'[g] = "succeeded" /\ lease' = 0
  \/ /\ lease \in g+1..MaxGrants /\ InState(g, {"recovered"}) # {}
     /\ runs[g] \in Reopened /\ runs'[g] = "finalization_failed"

LEMMA RunStepHolds ==
  ASSUME Inv, [Next]_vars, NEW g \in Grants
  PROVE  RunStep(g)
  <1>1. TypeOK /\ WorkerInv(g)
    BY WorkerType DEF Inv
  <1>2. CASE runs' = runs
    BY <1>2 DEF RunStep
  <1>3. ASSUME NEW h \in Grants, h # g,
               \/ CreateRun(h) \/ EnsureImplicitRun(h) \/ CreateExplicitRun(h)
               \/ Finalize(h) \/ FailOperationRun(h) \/ MarkRun(h)
        PROVE  runs'[g] = runs[g]
    BY <1>1, <1>3 DEF TypeOK, CreateRun, EnsureImplicitRun, CreateExplicitRun, Finalize,
       FailOperationRun, MarkRun, SetRun
  <1>4. CASE CreateRun(g) \/ EnsureImplicitRun(g) \/ CreateExplicitRun(g)
    <2>1. runs[g] = "none"
      BY <1>1, <1>4 DEF CreateRun, EnsureImplicitRun, CreateExplicitRun, WorkerInv, BeginInv
    <2>2. UNCHANGED runs \/ (lease = g /\ runs' = [runs EXCEPT ![g] = "active"])
      BY <1>4 DEF CreateRun, EnsureImplicitRun, CreateExplicitRun, Accepted
    <2> QED
      BY <1>1, <2>1, <2>2 DEF RunStep, TypeOK
  <1>5. ASSUME NEW to \in {"failed", "finalization_failed"}, MarkedRun(g, to), ~At(g, "closed")
        PROVE  RunStep(g)
    <2>1. PICK new \in Statuses : /\ SetRun(g, new)
                                  /\ \/ MarksCleanly(g, runs[g], to) /\ new = to
                                     \/ MarksBadly(g, runs[g], to, new)
      BY <1>5 DEF MarkedRun, Statuses, Ended
    <2>2. runs[g] # "none" /\ runs[g] # "succeeded"
      BY <1>1, <1>5, MarkedRunRow DEF WorkerInv, ExitInv, Ended
    <2>3. /\ lease # g => new = runs[g]
          /\ new # "succeeded" /\ (runs[g] \in Ended => new = runs[g])
      BY <1>1, <2>1, <2>2, MarkedStatus DEF TypeOK, Ended
    <2>4. runs'[g] = new
      BY <1>1, <2>1 DEF SetRun, TypeOK
    <2> QED
      BY <1>1, <2>2, <2>3, <2>4 DEF RunStep, TypeOK, Statuses, Ended
  <1>6. CASE FailOperationRun(g)
    <2>1. MarkedRun(g, "failed") /\ ~At(g, "closed")
      BY <1>6 DEF FailOperationRun, MarkedRun, At
    <2> QED
      BY <1>5, <2>1
  <1>7. CASE MarkRun(g)
    <2>1. At(g, "runs") /\ worker[g].to \in {"failed", "finalization_failed"}
      BY <1>1, <1>7 DEF MarkRun, WorkerInv, ExitInv, Marking, At
    <2>2. UNCHANGED runs \/ MarkedRun(g, worker[g].to)
      BY <1>7 DEF MarkRun, MarkedRun
    <2> QED
      BY <1>2, <1>5, <2>1, <2>2 DEF At
  <1>8. CASE Finalize(g)
    <2>1. UNCHANGED runs \/ (MayFinalize(g) /\ lease' = 0 /\ runs' = [runs EXCEPT ![g] = "succeeded"])
      BY <1>8 DEF Finalize
    <2>2. runs[g] # "succeeded"
      BY <1>1, <1>8 DEF WorkerInv, ExitInv, Finalize, At
    <2> QED
      BY <1>1, <1>8, <2>1, <2>2 DEF RunStep, MayFinalize, MayUpdate, TypeOK
  <1>9. ASSUME NEW r \in Grants, DiagnoseRun(r)
        PROVE  RunStep(g)
    <2> DEFINE h == worker[r].target[1]
    <2>1. \/ UNCHANGED runs
          \/ runs[h] \in Reopened /\ lease = r /\ SetRun(h, "finalization_failed")
      BY <1>9 DEF DiagnoseRun, RunIsOpen, Accepted
    <2>2. At(r, "diagnose_run") /\ WorkerInv(r) /\ h \in Grants
      BY <1>9, WorkerType DEF DiagnoseRun, Workers
    <2>3. /\ h < r /\ worker[r].target[2] \in 1..Len(batches[h])
          /\ batches[h][worker[r].target[2]].state = "recovered"
      BY <2>2 DEF WorkerInv, DiagnosisInv, At
    <2>4. InState(h, {"recovered"}) # {}
      BY SMTT(30), <1>1, <2>2, <2>3 DEF InState, TypeOK
    <2>5. r \in h+1..MaxGrants
      BY <2>2, <2>3 DEF Grants
    <2> HIDE DEF h
    <2> QED
      BY <1>1, <2>1, <2>2, <2>4, <2>5 DEF RunStep, SetRun, TypeOK
  <1> QED
    BY <1>2, <1>3, <1>4, <1>6, <1>7, <1>8, <1>9, RunSteps DEF RunStep

\* What a step does to the phases of a run: one that has ended is only ever taken
\* back from succeeded, and nothing is recorded without a late enough grant.
PhaseStep(g) ==
  phases'[g] # phases[g] =>
    /\ lease \in g..MaxGrants
    /\ \A i \in DOMAIN phases[g] :
         phases[g][i] \in Ended /\ phases'[g][i] # phases[g][i] =>
           phases[g][i] = "succeeded" /\ phases'[g][i] = "finalization_failed"

LEMMA MarkedPhaseStep ==
  ASSUME Inv, NEW g \in Grants, NEW i \in DOMAIN phases[g], NEW to \in Ended, Marked(g, i, to)
  PROVE  PhaseStep(g)
  <1>1. TypeOK /\ faults \in Nat /\ phases[g] \in Seq(Statuses) /\ phases[g][i] \in Statuses
    BY DEF Inv, TypeOK
  <1>2. PICK new \in Statuses : /\ SetPhase(g, i, new)
                                /\ \/ MarksCleanly(g, phases[g][i], to) /\ new = to
                                   \/ MarksBadly(g, phases[g][i], to, new)
    BY DEF Marked, Statuses
  <1>3. /\ lease # g => new = phases[g][i]
        /\ phases[g][i] \in Ended /\ new # phases[g][i] =>
             phases[g][i] = "succeeded" /\ new = "finalization_failed"
    BY <1>1, <1>2, MarkedStatus
  <1>4. \A j \in DOMAIN phases[g] : phases'[g][j] = IF j = i THEN new ELSE phases[g][j]
    BY <1>1, <1>2, SetPhaseRow
  <1>5. lease # g => phases'[g] = phases[g]
    BY <1>1, MarkedPhase
  <1>6. g \in g..MaxGrants
    BY DEF Grants
  <1> QED
    BY <1>3, <1>4, <1>5, <1>6 DEF PhaseStep

LEMMA PhaseStepHolds ==
  ASSUME Inv, [Next]_vars, NEW g \in Grants
  PROVE  PhaseStep(g)
  <1>1. TypeOK /\ WorkerInv(g) /\ phases[g] \in Seq(Statuses) /\ g \in g..MaxGrants
    <2>1. TypeOK /\ WorkerInv(g)
      BY DEF Inv
    <2>2. phases[g] \in Seq(Statuses)
      BY <2>1 DEF TypeOK
    <2>3. g \in g..MaxGrants
      BY DEF Grants
    <2> QED
      BY <2>1, <2>2, <2>3
  <1>2. CASE phases' = phases
    BY <1>2 DEF PhaseStep
  <1>3. ASSUME NEW h \in Grants, h # g,
               \/ EnterPhase(h) \/ ExitPhase(h) \/ ReconcileActivePhase(h)
               \/ EnsureImplicitPhase(h) \/ CreateExplicitPhase(h) \/ CloseExplicitPhase(h)
               \/ Finalize(h) \/ MarkPhase(h)
        PROVE  phases'[g] = phases[g]
    BY <1>1, <1>3 DEF TypeOK, EnterPhase, ExitPhase, ReconcileActivePhase, EnsureImplicitPhase,
       CreateExplicitPhase, CloseExplicitPhase, Finalize, MarkPhase, Adds, SetPhase
  <1>4. CASE EnterPhase(g) \/ EnsureImplicitPhase(g) \/ CreateExplicitPhase(g)
    <2>1. UNCHANGED phases \/ (lease = g /\ Adds(g))
      BY <1>4 DEF EnterPhase, EnsureImplicitPhase, CreateExplicitPhase, Accepted
    <2>2. Adds(g) => \A i \in DOMAIN phases[g] : phases'[g][i] = phases[g][i]
      BY <1>1 DEF Adds, TypeOK
    <2> QED
      BY <1>1, <1>2, <2>1, <2>2 DEF PhaseStep
  <1>5. CASE ExitPhase(g) \/ ReconcileActivePhase(g)
    <2>1. worker[g].active # 0 /\ \E to \in Ended : Marked(g, worker[g].active, to)
      BY <1>5 DEF ExitPhase, ReconcileActivePhase, Marked, Ended
    <2> QED
      BY <2>1, ActivePhase, MarkedPhaseStep
  <1>6. CASE CloseExplicitPhase(g)
    <2>1. PICK i \in DOMAIN phases[g], to \in {"succeeded", "failed"} :
            phases[g][i] = "active" /\ SetPhase(g, i, to)
      BY <1>6 DEF CloseExplicitPhase
    <2>2. \A j \in DOMAIN phases[g] : phases'[g][j] = IF j = i THEN to ELSE phases[g][j]
      BY <1>1, <2>1, SetPhaseRow DEF Statuses, Ended
    <2>3. lease = g
      BY <1>6 DEF CloseExplicitPhase, Accepted
    <2> QED
      BY <1>1, <2>1, <2>2, <2>3 DEF PhaseStep, Ended
  <1>7. CASE MarkPhase(g)
    <2>1. PICK i \in NextPhases(g) : Marked(g, i, worker[g].to)
      BY <1>7 DEF MarkPhase, Marked
    <2>2. worker[g].to \in Ended
      BY WorkerType DEF Workers, Ended
    <2>3. i \in 1..Len(phases[g])
      BY <1>1, <2>1 DEF NextPhases, WorkerInv, TodoInv, PhaseInv
    <2>4. i \in DOMAIN phases[g]
      BY <1>1, <2>3
    <2> QED
      BY <2>1, <2>2, <2>4, MarkedPhaseStep
  <1>8. CASE Finalize(g)
    <2>1. \/ UNCHANGED phases
          \/ /\ MayFinalize(g)
             /\ phases' = [phases EXCEPT ![g] =
                  [i \in DOMAIN @ |-> IF i \in Finalizes(g) THEN "succeeded" ELSE @[i]]]
      BY <1>8 DEF Finalize
    <2>2. CASE /\ MayFinalize(g)
               /\ phases' = [phases EXCEPT ![g] =
                    [i \in DOMAIN @ |-> IF i \in Finalizes(g) THEN "succeeded" ELSE @[i]]]
      <3>1. phases'[g] = [i \in DOMAIN phases[g] |-> IF i \in Finalizes(g) THEN "succeeded" ELSE phases[g][i]]
        BY <1>1, <2>2 DEF TypeOK
      <3>2. lease = g /\ \A i \in Finalizes(g) : phases[g][i] \in {"active", "succeeded"}
        BY <2>2 DEF MayFinalize, MayUpdate
      <3> QED
        BY <1>1, <3>1, <3>2 DEF PhaseStep, Ended
    <2> QED
      BY <1>2, <2>1, <2>2
  <1>9. ASSUME NEW r \in Grants, DiagnosePhase(r)
        PROVE  PhaseStep(g)
    <2> DEFINE h == worker[r].target[1]
               i == TargetPhase(r)
    <2>1. \/ UNCHANGED phases
          \/ phases[h][i] \in Reopened /\ lease = r /\ SetPhase(h, i, "finalization_failed")
      BY <1>9 DEF DiagnosePhase, PhaseIsOpen, Accepted
    <2>2. h \in Grants /\ h < r
      BY <1>9, Target DEF DiagnosePhase, At
    <2>3. r \in h..MaxGrants
      BY <2>2 DEF Grants
    <2> HIDE DEF h, i
    <2>4. CASE h # g
      BY <1>1, <2>1, <2>4 DEF PhaseStep, SetPhase, TypeOK
    <2>5. CASE h = g /\ phases[h][i] \in Reopened /\ lease = r /\ SetPhase(h, i, "finalization_failed")
      <3>1. \A j \in DOMAIN phases[g] :
              phases'[g][j] = IF j = i THEN "finalization_failed" ELSE phases[g][j]
        BY <1>1, <2>5, SetPhaseRow DEF Statuses, Ended
      <3> QED
        BY <2>3, <2>5, <3>1 DEF PhaseStep, Reopened, Ended
    <2> QED
      BY <1>2, <2>1, <2>4, <2>5
  <1> QED
    BY <1>2, <1>3, <1>4, <1>5, <1>6, <1>7, <1>8, <1>9, PhaseSteps DEF PhaseStep

\* A worker is changed by its own steps and by the lapse of its lease.
LEMMA Others ==
  ASSUME Inv, [Next]_vars, NEW g \in Grants, worker'[g] # worker[g]
  PROVE  \/ Lapse
         \/ Enter(g) \/ CreateRun(g) \/ EnterPhase(g) \/ ExitPhase(g) \/ ReconcileActivePhase(g)
         \/ EnsureImplicitRun(g) \/ EnsureImplicitPhase(g) \/ CreateExplicitRun(g)
         \/ CreateExplicitPhase(g) \/ CloseExplicitPhase(g)
         \/ CreateBatch(g) \/ StartBatch(g) \/ EndBatch(g)
         \/ ExitWithError(g) \/ ExitCleanly(g) \/ RollBackPending(g) \/ CleanArtifacts(g)
         \/ Finalize(g) \/ FailOperationRun(g) \/ MarkPhase(g) \/ PhasesMarked(g) \/ RollBack(g)
         \/ MarkRun(g) \/ ReleaseClaims(g) \/ ReleaseLease(g)
         \/ RecoverBatch(g) \/ DiagnosePhase(g) \/ DiagnoseRun(g) \/ FreeClaims(g)
         \/ EndRecovery(g) \/ Crash(g)
  <1>1. TypeOK /\ worker \in [Grants -> Workers]
    BY DEF Inv, TypeOK
  <1>2. ~UNCHANGED vars
    BY DEF vars
  <1>4. \A h \in Grants : h # g /\ (Throws(h) \/ worker' = Leave(h) \/ Close(h)
          \/ (\E stage : Goto(h, stage))
          \/ worker' = FailsFinalization(h, "abandon") \/ worker' = FailsExit(h) \/ Resume(h)
          \/ AfterRuns(h) \/ AfterCleanup(h))
          => worker'[g] = worker[g]
    BY <1>1 DEF Throws, Leave, Close, Goto, FailsFinalization, FailsExit, FailsOperation,
       Resume,
       AfterRuns, AfterCleanup
  <1>5. ASSUME NEW h \in Grants, h # g,
               \/ Enter(h) \/ CreateRun(h) \/ EnterPhase(h) \/ ExitPhase(h) \/ ReconcileActivePhase(h)
               \/ EnsureImplicitRun(h) \/ EnsureImplicitPhase(h) \/ CreateExplicitRun(h)
               \/ CreateExplicitPhase(h) \/ CloseExplicitPhase(h)
               \/ CreateBatch(h) \/ StartBatch(h) \/ EndBatch(h)
        PROVE  worker'[g] = worker[g]
    BY <1>1, <1>4, <1>5 DEF Enter, CreateRun, EnterPhase, ExitPhase, ReconcileActivePhase,
       EnsureImplicitRun, EnsureImplicitPhase, CreateExplicitRun, CreateExplicitPhase,
       CloseExplicitPhase, CreateBatch, StartBatch, EndBatch
  <1>6. ASSUME NEW h \in Grants, h # g,
               \/ ExitWithError(h) \/ ExitCleanly(h) \/ RollBackPending(h) \/ CleanArtifacts(h)
               \/ Finalize(h) \/ FailOperationRun(h) \/ MarkPhase(h) \/ PhasesMarked(h) \/ RollBack(h)
               \/ MarkRun(h) \/ ReleaseClaims(h) \/ ReleaseLease(h)
        PROVE  worker'[g] = worker[g]
    BY <1>1, <1>4, <1>6 DEF ExitWithError, ExitCleanly, RollBackPending, CleanArtifacts,
       Finalize,
       FailOperationRun, MarkPhase, PhasesMarked, RollBack, MarkRun, ReleaseClaims, ReleaseLease
  <1>7. ASSUME NEW h \in Grants, h # g,
               \/ RecoverBatch(h) \/ DiagnosePhase(h) \/ DiagnoseRun(h) \/ FreeClaims(h)
               \/ EndRecovery(h) \/ Crash(h)
        PROVE  worker'[g] = worker[g]
    BY <1>1, <1>4, <1>7 DEF RecoverBatch, DiagnosePhase, DiagnoseRun, FreeClaims, EndRecovery,
       Crash
  <1> QED
    BY <1>2, <1>5, <1>6, <1>7, Steps

-----------------------------------------------------------------------------
(* What a recovery has done.                                               *)

\* A write this recovery is done with has been undone by it or was before; the run
\* it is linked to is no longer on record as active or succeeded, unless recording
\* it raised or is what the recovery does next.
Diagnosing == {"diagnose_phase", "diagnose_run"}
DoneInv(r) ==
  \A b \in worker[r].done :
    LET h == b[1]
        k == b[2]
    IN  /\ h < r
        /\ k \in 1..Len(batches[h])
        /\ batches[h][k].phase # 0 =>
             \/ runs[h] \notin Reopened
             \/ h \in worker[r].missed
             \/ worker[r].stage \in Diagnosing /\ worker[r].target = b

\* The steps that change batches.
LEMMA BatchSteps ==
  ASSUME [Next]_vars, batches' # batches
  PROVE  \E g \in Grants : \/ CreateBatch(g) \/ StartBatch(g) \/ EndBatch(g)
                           \/ RollBackPending(g) \/ RollBack(g) \/ RecoverBatch(g)
  BY ZenonT(60), Steps DEF vars, durable, Lapse, Enter, CreateRun, EnterPhase, ExitPhase,
     ReconcileActivePhase, EnsureImplicitRun, EnsureImplicitPhase, CreateExplicitRun, CreateExplicitPhase,
     CloseExplicitPhase, ExitWithError, ExitCleanly, CleanArtifacts, Finalize, FailOperationRun, MarkPhase,
     PhasesMarked, MarkRun, ReleaseClaims, ReleaseLease, DiagnosePhase, DiagnoseRun, FreeClaims,
     EndRecovery, Crash

\* A write keeps its place and the phase it is linked to.
SameLinks(h) ==
  /\ Len(batches[h]) <= Len(batches'[h])
  /\ \A k \in 1..Len(batches[h]) : batches'[h][k].phase = batches[h][k].phase

LEMMA SetBatchLinks ==
  ASSUME TypeOK, NEW g \in Grants, NEW i \in DOMAIN batches[g], NEW s \in BatchPhases,
         batches' = [batches EXCEPT ![g][i].state = s], NEW h \in Grants
  PROVE  SameLinks(h)
  <1>1. CASE h = g
    <2>1. /\ Len(batches'[g]) = Len(batches[g])
          /\ batches'[g][i] = [batches[g][i] EXCEPT !.state = s]
          /\ \A j \in DOMAIN batches[g] : j # i => batches'[g][j] = batches[g][j]
      BY SetBatchRow
    <2>2. batches[g] \in Seq(Batches) /\ batches[g][i] \in Batches
      BY DEF TypeOK
    <2>3. batches'[g][i].phase = batches[g][i].phase
      BY <2>1, <2>2 DEF Batches
    <2> QED
      BY <1>1, <2>1, <2>2, <2>3 DEF SameLinks
  <1>2. CASE h # g
    BY <1>2 DEF TypeOK, SameLinks
  <1> QED
    BY <1>1, <1>2

LEMMA RecoversLinks ==
  ASSUME TypeOK, NEW g \in Grants, NEW chosen, NEW rest, Recovers(g, chosen, rest), NEW h \in Grants
  PROVE  SameLinks(h)
  <1>1. CASE h = g
    <2> DEFINE state(i) == IF i \in chosen THEN "recovered"
                           ELSE IF i \in rest THEN "failed" ELSE batches[g][i].state
    <2>1. batches'[g] = [i \in DOMAIN batches[g] |-> [batches[g][i] EXCEPT !.state = state(i)]]
      BY DEF Recovers, TypeOK
    <2>2. batches[g] \in Seq(Batches)
      BY DEF TypeOK
    <2>3. Len(batches'[g]) = Len(batches[g])
      BY RecoversRow
    <2>4. ASSUME NEW k \in 1..Len(batches[g]) PROVE batches'[g][k].phase = batches[g][k].phase
      <3>1. batches[g][k] \in Batches /\ k \in DOMAIN batches[g]
        BY <2>2
      <3> HIDE DEF state
      <3> QED
        BY <2>1, <3>1 DEF Batches
    <2> QED
      BY <1>1, <2>2, <2>3, <2>4 DEF SameLinks
  <1>2. CASE h # g
    BY <1>2 DEF TypeOK, SameLinks, Recovers
  <1> QED
    BY <1>1, <1>2

LEMMA LinksStay ==
  ASSUME Inv, [Next]_vars, NEW h \in Grants
  PROVE  SameLinks(h)
  <1>1. TypeOK /\ batches[h] \in Seq(Batches)
    BY DEF Inv, TypeOK
  <1>2. CASE batches' = batches
    BY <1>1, <1>2 DEF SameLinks
  <1>3. ASSUME NEW g \in Grants, CreateBatch(g) PROVE SameLinks(h)
    <2>1. UNCHANGED batches \/ \E b : batches' = [batches EXCEPT ![g] = Append(@, b)]
      BY <1>3, Zenon DEF CreateBatch
    <2>2. ASSUME NEW b, batches' = [batches EXCEPT ![g] = Append(@, b)] PROVE SameLinks(h)
      <3>1. CASE h = g
        <4>1. batches'[h] = Append(batches[h], b)
          BY <1>1, <2>2, <3>1 DEF TypeOK
        <4>2. batches[h] \in Seq(Batches \cup {b})
          BY <1>1
        <4>3. /\ Len(batches'[h]) = Len(batches[h]) + 1
              /\ \A k \in 1..Len(batches[h]) : batches'[h][k] = batches[h][k]
          BY <4>1, <4>2, AppendProperties
        <4>4. Len(batches[h]) \in Nat
          BY <1>1
        <4> QED
          BY <4>3, <4>4 DEF SameLinks
      <3>2. CASE h # g
        BY <1>1, <2>2, <3>2 DEF TypeOK, SameLinks
      <3> QED
        BY <3>1, <3>2
    <2> QED
      BY <1>2, <2>1, <2>2
  <1>4. ASSUME NEW g \in Grants, StartBatch(g) \/ EndBatch(g) PROVE SameLinks(h)
    <2>1. At(g, "in_batch") /\ (UNCHANGED batches \/ \E state \in BatchPhases : SetLast(g, state))
      BY <1>4 DEF StartBatch, EndBatch, BatchPhases
    <2>2. ASSUME NEW state \in BatchPhases, SetLast(g, state) PROVE SameLinks(h)
      <3>1. Len(batches[g]) \in DOMAIN batches[g]
        BY <1>4, <2>1, LastBatch
      <3>2. batches' = [batches EXCEPT ![g][Len(batches[g])].state = state]
        BY <2>2 DEF SetLast
      <3> QED
        BY <1>1, <2>2, <3>1, <3>2, SetBatchLinks
    <2> QED
      BY <1>2, <2>1, <2>2
  <1>5. ASSUME NEW g \in Grants, RollBackPending(g) \/ RollBack(g) PROVE SameLinks(h)
    <2>1. UNCHANGED batches \/ \E chosen, rest : Recovers(g, chosen, rest)
      BY <1>5 DEF RollBackPending, RollBack
    <2> QED
      BY <1>1, <1>2, <2>1, RecoversLinks
  <1>6. ASSUME NEW g \in Grants, RecoverBatch(g) PROVE SameLinks(h)
    <2>1. PICK b \in Pending : \/ UNCHANGED batches
                              \/ \E new \in BatchPhases : batches' = [batches EXCEPT ![b[1]][b[2]].state = new]
      BY <1>6 DEF RecoverBatch, BatchPhases
    <2>2. b[1] \in Grants /\ b[2] \in DOMAIN batches[b[1]]
      BY DEF Pending
    <2> QED
      BY <1>1, <1>2, <2>1, <2>2, SetBatchLinks
  <1> QED
    BY <1>2, <1>3, <1>4, <1>5, <1>6, BatchSteps

\* A run of an earlier grant that has ended is not on record as active or succeeded
\* again, nor is one that does not exist made.
LEMMA EndedRunStays ==
  ASSUME Inv, [Next]_vars, NEW r \in Grants, ~At(r, "out"), NEW h \in Grants, h < r, runs[h] \notin Reopened
  PROVE  runs'[h] \notin Reopened
  <1>1. RunStep(h) /\ lease # h
    BY RunStepHolds DEF Inv, LeaseInv
  <1> QED
    BY <1>1 DEF RunStep, Reopened

LEMMA DoneInit == Init => \A r \in Grants : DoneInv(r)
  BY DEF Init, Idle, DoneInv

\* What a worker that is not at a write of a recovery remembers of writes, it keeps,
\* or it forgets everything.
Remembers(r) ==
  worker'[r].done = {} \/ (worker'[r].done = worker[r].done /\ worker'[r].missed = worker[r].missed)

LEMMA OtherSteps ==
  ASSUME Inv, [Next]_vars, NEW r \in Grants
  PROVE  \/ worker'[r] = worker[r]
         \/ worker[r].stage \notin Diagnosing /\ Remembers(r)
         \/ /\ worker'[r].done = worker[r].done /\ worker'[r].missed = worker[r].missed
            /\ worker'[r].stage = worker[r].stage /\ worker'[r].target = worker[r].target
         \/ worker'[r].done = {}
         \/ RecoverBatch(r) \/ DiagnosePhase(r) \/ DiagnoseRun(r) \/ FreeClaims(r)
  <1>1. TypeOK /\ worker \in [Grants -> Workers] /\ worker[r] \in Workers
    BY DEF Inv, TypeOK
  <1>2. /\ \A stage : Goto(r, stage) => Remembers(r)
        /\ worker' = Leave(r) => Remembers(r)
        /\ Close(r) => Remembers(r)
        /\ \A after : worker' = FailsFinalization(r, after) => Remembers(r)
        /\ worker' = FailsOperation(r) => Remembers(r)
        /\ UNCHANGED worker => Remembers(r)
    <2>1. \A stage : Goto(r, stage) => Remembers(r)
      BY <1>1 DEF Goto, Remembers, Workers
    <2>2. worker' = Leave(r) => Remembers(r)
      BY <1>1 DEF Leave, Remembers, Workers
    <2>3. Close(r) => Remembers(r)
      BY <1>1 DEF Close, Remembers, Idle
    <2>4. \A after : worker' = FailsFinalization(r, after) => Remembers(r)
      BY <1>1 DEF FailsFinalization, Remembers, Workers
    <2>5. worker' = FailsOperation(r) => Remembers(r)
      BY <1>1 DEF FailsOperation, Remembers, Workers
    <2> QED
      BY <2>1, <2>2, <2>3, <2>4, <2>5 DEF Remembers
  <1>3. CASE Lapse
    BY <1>1, <1>3 DEF Lapse, Workers
  <1>4. CASE Enter(r)
    <2>1. worker[r] = Idle
      BY <1>4 DEF Enter, Inv, WorkerInv, BeginInv
    <2>2. worker'[r].done = {}
      BY <1>1, <1>4, <2>1 DEF Enter, Idle
    <2> QED
      BY <2>2
  <1>5. CASE CreateRun(r) \/ EnterPhase(r) \/ ExitPhase(r) \/ ReconcileActivePhase(r)
    <2>1. worker[r].stage \notin Diagnosing
      BY <1>5 DEF CreateRun, EnterPhase, ExitPhase, ReconcileActivePhase, Body, At, Diagnosing
    <2>2. Remembers(r)
      <3>1. CASE CreateRun(r)
        BY <1>2, <3>1 DEF CreateRun
      <3>2. CASE EnterPhase(r)
        <4>1. ASSUME NEW n, worker' = [worker EXCEPT ![r].active = n, ![r].touched = @ \cup {n}]
              PROVE  Remembers(r)
          BY <1>1, <4>1 DEF Remembers, Workers
        <4> QED
          BY <1>2, <3>2, <4>1 DEF EnterPhase, Throws
      <3>3. CASE ExitPhase(r) \/ ReconcileActivePhase(r)
        <4>1. worker' = [worker EXCEPT ![r].active = 0] => Remembers(r)
          BY <1>1 DEF Remembers, Workers
        <4> QED
          BY <1>2, <3>3, <4>1 DEF ExitPhase, ReconcileActivePhase
      <3> QED
        BY <1>5, <3>1, <3>2, <3>3
    <2> QED
      BY <2>1, <2>2
  <1>6. CASE EnsureImplicitRun(r) \/ EnsureImplicitPhase(r) \/ CreateExplicitRun(r)
             \/ CreateExplicitPhase(r) \/ CloseExplicitPhase(r)
    <2>1. worker[r].stage \notin Diagnosing
      BY <1>6 DEF EnsureImplicitRun, EnsureImplicitPhase, CreateExplicitRun, CreateExplicitPhase,
         CloseExplicitPhase, Body, At, Diagnosing
    <2>2. /\ worker' = [worker EXCEPT ![r].implicit = TRUE] => Remembers(r)
          /\ worker' = [worker EXCEPT ![r].touched = {1}] => Remembers(r)
      BY <1>1 DEF Remembers, Workers
    <2>3. Remembers(r)
      BY <1>2, <1>6, <2>2 DEF EnsureImplicitRun, EnsureImplicitPhase, CreateExplicitRun,
         CreateExplicitPhase, CloseExplicitPhase, Throws
    <2> QED
      BY <2>1, <2>3
  <1>7. CASE CreateBatch(r) \/ StartBatch(r) \/ EndBatch(r)
    <2>1. worker[r].stage \notin Diagnosing
      BY <1>7 DEF CreateBatch, StartBatch, EndBatch, At, Diagnosing
    <2>2. ASSUME NEW i
          PROVE  /\ worker' = [[worker EXCEPT ![r].touched = @ \cup ({i} \ {0})] EXCEPT ![r].stage = "in_batch"]
                      => Remembers(r)
                 /\ worker' = [worker EXCEPT ![r].touched = @ \cup ({i} \ {0})] => Remembers(r)
      BY <1>1 DEF Remembers, Workers
    <2>3. Remembers(r)
      BY <1>2, <1>7, <2>2 DEF CreateBatch, StartBatch, EndBatch
    <2> QED
      BY <2>1, <2>3
  <1>8. CASE ExitWithError(r) \/ ExitCleanly(r) \/ RollBackPending(r) \/ CleanArtifacts(r) \/ Finalize(r)
    <2>1. worker[r].stage \notin Diagnosing
      BY <1>8 DEF ExitWithError, ExitCleanly, RollBackPending, CleanArtifacts, Finalize, At, Diagnosing
    <2>2. ExitCleanly(r) => Remembers(r)
      BY <1>1 DEF ExitCleanly, Remembers, Workers
    <2>3. Remembers(r)
      BY <1>2, <1>8, <2>2 DEF ExitWithError, RollBackPending, CleanArtifacts, Finalize, FailsExit
    <2> QED
      BY <2>1, <2>3
  <1>9. CASE FailOperationRun(r) \/ MarkPhase(r) \/ PhasesMarked(r) \/ RollBack(r) \/ MarkRun(r)
             \/ ReleaseClaims(r) \/ ReleaseLease(r)
    <2>1. worker[r].stage \notin Diagnosing
      BY <1>9 DEF FailOperationRun, MarkPhase, PhasesMarked, RollBack, MarkRun, ReleaseClaims,
         ReleaseLease, At, Diagnosing
    <2>2. MarkPhase(r) => Remembers(r)
      BY <1>1 DEF MarkPhase, Remembers, Workers
    <2>3. RollBack(r) => Remembers(r)
      <3>1. worker' = [worker EXCEPT ![r].after = "abandon", ![r].stage = "runs"] => Remembers(r)
        BY <1>1 DEF Remembers, Workers
      <3> QED
        BY <1>2, <3>1 DEF RollBack
    <2>4. Remembers(r)
      BY <1>2, <1>9, <2>2, <2>3 DEF FailOperationRun, PhasesMarked, MarkRun, AfterRuns, ReleaseClaims,
         ReleaseLease, AfterCleanup
    <2> QED
      BY <2>1, <2>4
  <1>10. CASE EndRecovery(r) \/ Crash(r)
    <2>1. EndRecovery(r) => worker'[r].done = {}
      BY <1>1 DEF EndRecovery, Close, Idle
    <2>2. Crash(r) => worker'[r].done = {}
      BY <1>1 DEF Crash, Idle
    <2> QED
      BY <1>10, <2>1, <2>2
  <1> QED
    BY <1>3, <1>4, <1>5, <1>6, <1>7, <1>8, <1>9, <1>10, Others

\* What DoneInv says of one write, and of it after a step.
Known(r, b, missed, cited) ==
  /\ b[1] < r
  /\ b[2] \in 1..Len(batches[b[1]])
  /\ batches[b[1]][b[2]].phase # 0 => runs[b[1]] \notin Reopened \/ b[1] \in missed \/ cited
KnownNext(r, b, missed, cited) ==
  /\ b[1] < r
  /\ b[2] \in 1..Len(batches'[b[1]])
  /\ batches'[b[1]][b[2]].phase # 0 => runs'[b[1]] \notin Reopened \/ b[1] \in missed \/ cited

LEMMA KnownStays ==
  ASSUME Inv, [Next]_vars, NEW r \in Grants, ~At(r, "out"), NEW b \in Grants \X (1..MaxBatches),
         NEW missed, NEW cited \in BOOLEAN, Known(r, b, missed, cited)
  PROVE  KnownNext(r, b, missed, cited)
  <1>1. b[1] \in Grants /\ b[1] < r /\ b[2] \in 1..Len(batches[b[1]])
    BY DEF Known
  <1>2. SameLinks(b[1]) /\ (runs[b[1]] \notin Reopened => runs'[b[1]] \notin Reopened)
    BY <1>1, LinksStay, EndedRunStays
  <1>3. Len(batches[b[1]]) \in Nat /\ Len(batches'[b[1]]) \in Nat
    BY <1>1, NextInv DEF Inv, TypeOK
  <1>4. b[2] \in 1..Len(batches'[b[1]]) /\ batches'[b[1]][b[2]].phase = batches[b[1]][b[2]].phase
    BY <1>1, <1>2, <1>3 DEF SameLinks
  <1> QED
    BY <1>1, <1>2, <1>4 DEF Known, KnownNext

LEMMA DoneStep ==
  ASSUME Inv, [Next]_vars, NEW r \in Grants, DoneInv(r)
  PROVE  DoneInv(r)'
  <1> DEFINE Cited(b) == worker[r].stage \in Diagnosing /\ worker[r].target = b
             CitedNext(b) == worker'[r].stage \in Diagnosing /\ worker'[r].target = b
  <1>1. /\ TypeOK /\ worker[r] \in Workers /\ WorkerInv(r)
        /\ worker[r].done \subseteq Grants \X (1..MaxBatches)
        /\ worker[r].target \in Grants \X (1..MaxBatches)
    BY WorkerType DEF Inv, Workers
  <1>2. DiagnosisInv(r)'
    BY NextInv DEF Inv, WorkerInv
  <1>3. worker[r].done # {} => ~At(r, "out")
    BY <1>1 DEF WorkerInv, BeginInv, Idle
  <1>4. ASSUME NEW b \in worker[r].done
        PROVE  KnownNext(r, b, worker[r].missed, Cited(b))
    <2>1. Known(r, b, worker[r].missed, Cited(b))
      BY <1>4 DEF DoneInv, Known
    <2> HIDE DEF Cited
    <2>2. CASE Cited(b) \in BOOLEAN
      BY <1>1, <1>3, <1>4, <2>1, <2>2, KnownStays
    <2> QED
      BY <2>2 DEF Cited
  <1>5. SUFFICES ASSUME NEW b \in worker'[r].done
                 PROVE  KnownNext(r, b, worker'[r].missed, CitedNext(b))
    BY DEF DoneInv, KnownNext
  <1>6. ASSUME b \in worker[r].done, worker[r].missed \subseteq worker'[r].missed,
               Cited(b) => CitedNext(b) \/ b[1] \in worker'[r].missed
        PROVE  KnownNext(r, b, worker'[r].missed, CitedNext(b))
    BY <1>4, <1>6 DEF KnownNext
  <1>7. CASE worker'[r] = worker[r]
    BY <1>6, <1>7
  <1>8. CASE worker[r].stage \notin Diagnosing /\ Remembers(r)
    BY <1>5, <1>6, <1>8 DEF Remembers
  <1>9. CASE /\ worker'[r].done = worker[r].done /\ worker'[r].missed = worker[r].missed
             /\ worker'[r].stage = worker[r].stage /\ worker'[r].target = worker[r].target
    BY <1>5, <1>6, <1>9
  <1>10. CASE RecoverBatch(r)
    <2>1. worker[r].stage = "open"
      BY <1>10 DEF RecoverBatch, Body, At
    <2>2. PICK a : \/ worker'[r] = worker[r]
                   \/ worker' = [worker EXCEPT ![r].stage = "diagnose_phase", ![r].target = a]
                   \/ worker' = [[worker EXCEPT ![r].stage = "diagnose_phase", ![r].target = a]
                                  EXCEPT ![r].done = @ \cup {a}]
      BY <1>10 DEF RecoverBatch
    <2>3. \/ worker'[r] = worker[r]
          \/ /\ worker'[r].stage = "diagnose_phase" /\ worker'[r].target = a
             /\ worker'[r].missed = worker[r].missed
             /\ worker'[r].done \subseteq worker[r].done \cup {a}
      <3>1. CASE worker' = [worker EXCEPT ![r].stage = "diagnose_phase", ![r].target = a]
        BY <1>1, <3>1 DEF TypeOK, Workers
      <3>2. CASE worker' = [[worker EXCEPT ![r].stage = "diagnose_phase", ![r].target = a]
                            EXCEPT ![r].done = @ \cup {a}]
        <4>1. worker'[r] = [[worker[r] EXCEPT !.stage = "diagnose_phase", !.target = a]
                            EXCEPT !.done = @ \cup {a}]
          BY <1>1, <3>2 DEF TypeOK
        <4> QED
          BY <1>1, <4>1 DEF Workers
      <3> QED
        BY <2>2, <3>1, <3>2
    <2>4. CASE b \in worker[r].done
      BY <1>6, <2>1, <2>3, <2>4 DEF Diagnosing
    <2>5. CASE b \notin worker[r].done
      <3>1. worker'[r].stage = "diagnose_phase" /\ worker'[r].target = b
        BY <1>5, <2>3, <2>5
      <3> QED
        BY <1>2, <3>1 DEF DiagnosisInv, KnownNext, Diagnosing
    <2> QED
      BY <2>4, <2>5
  <1>11. CASE DiagnosePhase(r)
    <2>1. worker[r].stage = "diagnose_phase"
      BY <1>11 DEF DiagnosePhase, At
    <2>2. CASE Goto(r, "diagnose_run")
      BY <1>5, <1>6, <2>1, <2>2, Target DEF Diagnosing
    <2>3. CASE Resume(r)
      BY <1>1, <1>5, <1>6, <2>3, ResumeMoves
    <2> QED
      BY <1>11, <2>2, <2>3 DEF DiagnosePhase
  <1>12. CASE DiagnoseRun(r)
    <2>1. worker[r].stage = "diagnose_run"
      BY <1>12 DEF DiagnoseRun, At
    <2>2. CASE Goto(r, "free")
      <3>1. /\ worker'[r].stage = "free" /\ worker'[r].target = worker[r].target
            /\ worker'[r].done = worker[r].done /\ worker'[r].missed = worker[r].missed
        BY <2>1, <2>2, Target
      <3>2. CASE b = worker[r].target
        BY <1>2, <3>1, <3>2 DEF DiagnosisInv, KnownNext, At
      <3>3. CASE b # worker[r].target
        BY <1>5, <1>6, <3>1, <3>3
      <3> QED
        BY <3>2, <3>3
    <2>3. CASE Resume(r)
      BY <1>1, <1>5, <1>6, <2>3, ResumeMoves
    <2> QED
      BY <1>12, <2>2, <2>3 DEF DiagnoseRun
  <1>13. CASE FreeClaims(r)
    <2>1. worker[r].stage = "free" /\ UNCHANGED <<runs, batches>>
      BY <1>13 DEF FreeClaims, At
    <2>2. /\ worker'[r].done = worker[r].done \cup {worker[r].target}
          /\ worker'[r].missed = worker[r].missed
      BY <1>1, <1>13 DEF FreeClaims, TypeOK, Workers
    <2>3. CASE b \in worker[r].done
      BY <1>6, <2>1, <2>2, <2>3 DEF Diagnosing
    <2>4. CASE b = worker[r].target
      BY <1>1, <2>1, <2>4 DEF WorkerInv, DiagnosisInv, KnownNext, At
    <2> QED
      BY <1>5, <2>2, <2>3, <2>4
  <1> QED
    BY <1>5, <1>7, <1>8, <1>9, <1>10, <1>11, <1>12, <1>13, OtherSteps

LEMMA SpecDone == Spec => [](\A r \in Grants : DoneInv(r))
  <1>1. Inv /\ (\A r \in Grants : DoneInv(r)) /\ [Next]_vars => (\A r \in Grants : DoneInv(r))'
    BY DoneStep
  <1> QED
    BY <1>1, DoneInit, SpecInv, PTL DEF Spec

-----------------------------------------------------------------------------
(* The theorems.                                                           *)

\* The tables hold what the schema lets them hold, and a worker knows only phases
\* and writes that the bounds allow.
\* (workspace_operation_runs, workspace_operation_phases, SafeTransaction)
THEOREM TypeCorrect == Spec => []TypeOK
  BY SpecInv, PTL DEF Inv

\* A run becomes succeeded only in the step that gives up its claims and its lease,
\* with no failed write of an automatic transaction left to undo and every phase
\* that the success covers succeeded with it.
\* (finalize_operation_success, finalize_touched_operation_success)
THEOREM SuccessMeansComplete == Spec => SuccessIsComplete
  <1> DEFINE Complete(g) == runs'[g] = "succeeded" /\ runs[g] # "succeeded" =>
       /\ g \notin claims' /\ lease' # g
       /\ worker[g].automatic => InState(g, {"failed"}) = {}
       /\ \A i \in Finalizes(g) : phases'[g][i] = "succeeded"
  <1>1. ASSUME Inv, [Next]_vars, NEW g \in Grants
        PROVE  Complete(g)
    <2> SUFFICES ASSUME runs'[g] = "succeeded", runs[g] # "succeeded"
                 PROVE  /\ g \notin claims' /\ lease' # g
                        /\ worker[g].automatic => InState(g, {"failed"}) = {}
                        /\ \A i \in Finalizes(g) : phases'[g][i] = "succeeded"
      OBVIOUS
    <2>1. TypeOK /\ WorkerInv(g) /\ phases[g] \in Seq(Statuses)
      BY <1>1, WorkerType DEF Inv, TypeOK
    <2>2. Finalize(g) /\ lease = g /\ lease' = 0
      BY <1>1, RunStepHolds DEF RunStep
    <2>3. /\ At(g, "finalize") /\ MayFinalize(g) /\ claims' = claims \ {g}
          /\ phases' = [phases EXCEPT ![g] =
               [i \in DOMAIN @ |-> IF i \in Finalizes(g) THEN "succeeded" ELSE @[i]]]
      BY <2>1, <2>2 DEF Finalize
    <2>4. worker[g].automatic => InState(g, {"failed"}) = {}
      BY <2>1, <2>2, <2>3 DEF WorkerInv, CleanInv, At
    <2>5. Finalizes(g) \subseteq DOMAIN phases[g]
      BY <2>1 DEF Finalizes, WorkerInv, PhaseInv
    <2>6. phases'[g] = [i \in DOMAIN phases[g] |-> IF i \in Finalizes(g) THEN "succeeded" ELSE phases[g][i]]
      BY <2>1, <2>3 DEF TypeOK
    <2>7. \A i \in Finalizes(g) : phases'[g][i] = "succeeded"
      BY <2>5, <2>6
    <2> QED
      BY <2>2, <2>3, <2>4, <2>7, BoundTypes DEF Grants
  <1>2. Inv /\ [Next]_vars => [\A g \in Grants : Complete(g)]_vars
    BY <1>1
  <1> QED
    BY <1>2, SpecInv, PTL DEF Spec, SuccessIsComplete

\* A failed end is final; a success is only ever taken back to finalization_failed,
\* for a run only by a later grant that has undone one of its writes; and nothing is
\* recorded without a grant at least as late as the run's.
\* (_require_operation_terminal_diagnostic_transition and the lease checks)
THEOREM OutcomesStayFinal == Spec => OutcomesAreFinal
  <1> DEFINE Final(g) ==
       /\ runs'[g] # runs[g] \/ phases'[g] # phases[g] => lease \in g..MaxGrants
       /\ runs[g] \in Ended /\ runs'[g] # runs[g] =>
            /\ runs[g] = "succeeded" /\ runs'[g] = "finalization_failed" /\ lease # g
            /\ InState(g, {"recovered"}) # {}
       /\ \A i \in DOMAIN phases[g] :
            phases[g][i] \in Ended /\ phases'[g][i] # phases[g][i] =>
              phases[g][i] = "succeeded" /\ phases'[g][i] = "finalization_failed"
  <1>1. ASSUME Inv, [Next]_vars, NEW g \in Grants
        PROVE  Final(g)
    <2>1. RunStep(g) /\ PhaseStep(g)
      BY <1>1, RunStepHolds, PhaseStepHolds
    <2>2. runs'[g] # runs[g] => lease \in g..MaxGrants
      BY <1>1, <2>1 DEF RunStep, Grants
    <2>3. runs[g] \in Ended /\ runs'[g] # runs[g] =>
            /\ runs[g] = "succeeded" /\ runs'[g] = "finalization_failed" /\ lease # g
            /\ InState(g, {"recovered"}) # {}
      BY <1>1, <2>1 DEF RunStep, Ended, Reopened, Grants
    <2>4. \A i \in DOMAIN phases[g] :
            phases[g][i] \in Ended /\ phases'[g][i] # phases[g][i] =>
              phases[g][i] = "succeeded" /\ phases'[g][i] = "finalization_failed"
      BY <2>1 DEF PhaseStep
    <2> QED
      BY <2>1, <2>2, <2>3, <2>4 DEF PhaseStep
  <1>2. Inv /\ [Next]_vars => [\A g \in Grants : Final(g)]_vars
    BY <1>1
  <1> QED
    BY <1>2, SpecInv, PTL DEF Spec, OutcomesAreFinal

\* The steps that take claims away.
LEMMA ClaimSteps ==
  ASSUME [Next]_vars, NEW g \in claims \ claims'
  PROVE  \E h \in Grants : \/ Finalize(h) /\ g = h
                           \/ ReleaseClaims(h) /\ g = h
                           \/ FreeClaims(h) /\ g = worker[h].target[1]
                           \/ EndRecovery(h) /\ batches[g] = << >>
  <1>1. ASSUME NEW h \in Grants, Finalize(h) PROVE g = h
    BY <1>1 DEF Finalize
  <1>2. ASSUME NEW h \in Grants, ReleaseClaims(h) PROVE g = h
    BY <1>2 DEF ReleaseClaims
  <1>3. ASSUME NEW h \in Grants, FreeClaims(h) PROVE g = worker[h].target[1]
    BY <1>3 DEF FreeClaims
  <1>4. ASSUME NEW h \in Grants, EndRecovery(h) PROVE batches[g] = << >>
    BY <1>4 DEF EndRecovery
  <1>5. ~ \E h \in Grants : Enter(h)
    BY DEF Enter
  <1> QED
    BY ZenonT(60), <1>1, <1>2, <1>3, <1>4, <1>5, Steps DEF vars, durable, Lapse, CreateRun, EnterPhase,
       ExitPhase,
       ReconcileActivePhase, EnsureImplicitRun, EnsureImplicitPhase, CreateExplicitRun,
       CreateExplicitPhase, CloseExplicitPhase, CreateBatch, StartBatch, EndBatch, ExitWithError,
       ExitCleanly, RollBackPending, CleanArtifacts, FailOperationRun, MarkPhase, PhasesMarked,
       RollBack, MarkRun, ReleaseLease, RecoverBatch, DiagnosePhase, DiagnoseRun, Crash

\* Recovery does not release the claims of a transaction, one of whose linked writes
\* it or an earlier recovery has undone, while the run is still on record as active or
\* succeeded.  The exception: the diagnostics of this recovery have raised, and a write
\* without links, which asks for none, was undone along with the linked one.
\* (_record_recovered_batch_operation_terminal_diagnostics before
\* _release_recovered_batch_claims, across crashes of both workers)
THEOREM ReportsFollowTheRun == Spec => RecoveryReportsTheRun
  <1> DEFINE Reported(g) ==
       /\ g \in claims \ claims' /\ worker'[g] = worker[g]
       /\ \E i \in InState(g, {"recovered"}) : batches[g][i].phase # 0
       => \/ runs[g] \notin Reopened
          \/ /\ g \in worker[lease].missed
             /\ \E i \in InState(g, {"recovered"}) : batches[g][i].phase = 0
  <1>1. ASSUME Inv, \A r \in Grants : DoneInv(r), [Next]_vars, NEW g \in Grants
        PROVE  Reported(g)
    <2> SUFFICES ASSUME g \in claims \ claims', worker'[g] = worker[g],
                        NEW i \in InState(g, {"recovered"}), batches[g][i].phase # 0,
                        runs[g] \in Reopened
                 PROVE  /\ g \in worker[lease].missed
                        /\ \E k \in InState(g, {"recovered"}) : batches[g][k].phase = 0
      OBVIOUS
    <2>1. TypeOK /\ worker[g] \in Workers
      BY <1>1, WorkerType DEF Inv
    <2>2. ~Finalize(g) \/ claims' = claims
      <3>1. ~Close(g) \/ ~At(g, "finalize")
        BY <2>1 DEF Close, At, TypeOK, Idle
      <3> QED
        BY <3>1 DEF Finalize
    <2>3. ~ReleaseClaims(g) \/ claims' = claims
      <3>1. ~Goto(g, "release_lease") \/ ~At(g, "release_claims")
        BY <2>1 DEF Goto, At, TypeOK, Workers
      <3> QED
        BY <3>1 DEF ReleaseClaims
    <2>4. i \in DOMAIN batches[g] /\ batches[g][i].state = "recovered" /\ batches[g] # << >>
      BY DEF InState
    <2>5. PICK h \in Grants : FreeClaims(h) /\ g = worker[h].target[1]
      BY <1>1, <2>2, <2>3, <2>4, ClaimSteps
    <2> DEFINE t == worker[h].target
               k == t[2]
    <2>6. At(h, "free") /\ DiagnosisInv(h) /\ DoneInv(h) /\ t \in Grants \X (1..MaxBatches)
      BY <1>1, <2>5, WorkerType DEF FreeClaims, WorkerInv, Workers
    <2>7. k \in InState(g, {"recovered"}) /\ batches[g][k].phase = 0
      <3>1. k \in 1..Len(batches[g]) /\ batches[g][k].state = "recovered" /\ batches[g] \in Seq(Batches)
        BY <2>1, <2>5, <2>6 DEF DiagnosisInv, At, TypeOK
      <3>2. batches[g][k].phase = 0
        BY <2>5, <2>6 DEF DiagnosisInv, At
      <3> QED
        BY <3>1, <3>2 DEF InState
    <2>8. lease = h /\ Resolved(g, worker[h].done \cup {t})
      BY <2>5 DEF FreeClaims, Accepted
    <2>9. <<g, i>> \in Pending
      <3>1. i \in 1..MaxBatches
        BY <2>1, <2>4, BoundTypes DEF TypeOK
      <3> QED
        BY <2>4, <3>1 DEF Pending, IsPending
    <2>10. <<g, i>> \in worker[h].done
      BY <2>7, <2>8, <2>9 DEF Resolved
    <2>11. g \in worker[h].missed
      BY <2>6, <2>10 DEF DoneInv, Diagnosing, At
    <2> QED
      BY <2>7, <2>8, <2>11
  <1>2. Inv /\ (\A r \in Grants : DoneInv(r)) /\ [Next]_vars => [\A g \in Grants : Reported(g)]_vars
    BY <1>1
  <1> QED
    BY <1>2, SpecInv, SpecDone, PTL DEF Spec, RecoveryReportsTheRun

\* The steps in which a context manager is left for good.
LEMMA ClosingSteps ==
  ASSUME Inv, [Next]_vars, NEW g \in Grants, ~At(g, "closed"), worker'[g].stage = "closed"
  PROVE  Finalize(g) \/ MarkRun(g) \/ ReleaseClaims(g) \/ ReleaseLease(g) \/ EndRecovery(g)
  <1>1. worker \in [Grants -> Workers] /\ worker[g] \in Workers /\ TypeOK
    BY DEF Inv, TypeOK
  <1>2. /\ \A stage \in Stages : Goto(g, stage) => stage = "closed"
        /\ worker' # Leave(g) /\ ~Throws(g) /\ ~Resume(g)
        /\ \A after \in Afters : worker' # FailsFinalization(g, after)
        /\ worker' # FailsOperation(g) /\ ~UNCHANGED worker
    <2>1. ~UNCHANGED worker
      BY DEF At
    <2>2. \A stage \in Stages : Goto(g, stage) => stage = "closed"
      BY <1>1 DEF Goto, Workers
    <2>3. worker' # Leave(g)
      <3>1. faults' \in 0..MaxFaults
        BY NextInv DEF Inv, TypeOK
      <3> QED
        BY ZenonT(60), <1>1, <3>1, LeaveMoves DEF Workers
    <2>4. ~Resume(g)
      BY <1>1, ResumeMoves
    <2>5. \A after \in Afters : worker' # FailsFinalization(g, after)
      BY <1>1 DEF FailsFinalization, Workers
    <2>6. worker' # FailsOperation(g)
      BY <1>1 DEF FailsOperation, Workers
    <2> QED
      BY <2>1, <2>2, <2>3, <2>4, <2>5, <2>6 DEF Throws
  <1>9. ~Lapse /\ worker'[g] # worker[g]
    BY <1>1 DEF Lapse, Workers, At
  <1>3. ~Enter(g) /\ ~CreateRun(g) /\ ~EnterPhase(g) /\ ~ExitPhase(g) /\ ~ReconcileActivePhase(g)
    <2>1. ~Enter(g)
      <3>1. ASSUME NEW kind, NEW automatic, NEW stage,
                   worker' = [worker EXCEPT ![g].kind = kind, ![g].automatic = automatic, ![g].stage = stage]
            PROVE  worker'[g].stage = stage
        BY <1>1, <3>1 DEF Workers
      <3>2. ASSUME NEW kind, NEW automatic
            PROVE  worker' # [worker EXCEPT ![g].kind = kind, ![g].automatic = automatic,
                                ![g].stage = IF kind = "operation" THEN "create_run" ELSE "open"]
        <4> DEFINE stage == IF kind = "operation" THEN "create_run" ELSE "open"
        <4>1. stage # "closed"
          OBVIOUS
        <4> HIDE DEF stage
        <4>2. worker' # [worker EXCEPT ![g].kind = kind, ![g].automatic = automatic, ![g].stage = stage]
          BY <3>1, <4>1
        <4> QED
          BY <4>2 DEF stage
      <3> QED
        BY <3>2 DEF Enter
    <2>2. ~CreateRun(g)
      BY <1>2 DEF CreateRun, Stages
    <2>3. ~EnterPhase(g)
      BY <1>1, <1>2 DEF EnterPhase, Body, At, Workers
    <2>4. ~ExitPhase(g) /\ ~ReconcileActivePhase(g)
      BY <1>1, <1>2 DEF ExitPhase, ReconcileActivePhase, Body, At, Workers
    <2> QED
      BY <2>1, <2>2, <2>3, <2>4
  <1>4. /\ ~EnsureImplicitRun(g) /\ ~EnsureImplicitPhase(g) /\ ~CreateExplicitRun(g)
        /\ ~CreateExplicitPhase(g) /\ ~CloseExplicitPhase(g)
    BY <1>1, <1>2 DEF EnsureImplicitRun, EnsureImplicitPhase, CreateExplicitRun,
       CreateExplicitPhase,
       CloseExplicitPhase, Body, At, Workers
  <1>5. ~CreateBatch(g) /\ ~StartBatch(g) /\ ~EndBatch(g)
    <2>1. ~CreateBatch(g)
      <3>1. ASSUME NEW i
            PROVE  /\ worker' # [[worker EXCEPT ![g].touched = @ \cup ({i} \ {0})] EXCEPT ![g].stage = "in_batch"]
                   /\ worker' # [worker EXCEPT ![g].touched = @ \cup ({i} \ {0})]
        BY <1>1 DEF At, Workers
      <3> QED
        BY <3>1 DEF CreateBatch
    <2>2. ~StartBatch(g) /\ ~EndBatch(g)
      BY <1>2 DEF StartBatch, EndBatch, Stages
    <2> QED
      BY <2>1, <2>2
  <1>6. ~ExitWithError(g) /\ ~ExitCleanly(g) /\ ~RollBackPending(g) /\ ~CleanArtifacts(g)
    <2>1. ~ExitWithError(g) /\ ~RollBackPending(g) /\ ~CleanArtifacts(g)
      BY <1>2 DEF ExitWithError, RollBackPending, CleanArtifacts, FailsExit, Stages, Afters
    <2>2. ~ExitCleanly(g)
      BY <1>1 DEF ExitCleanly, Workers
    <2> QED
      BY <2>1, <2>2
  <1>7. ~FailOperationRun(g) /\ ~MarkPhase(g) /\ ~PhasesMarked(g) /\ ~RollBack(g)
    <2>1. ~FailOperationRun(g) /\ ~PhasesMarked(g)
      BY <1>2 DEF FailOperationRun, PhasesMarked, AfterPhases, Stages
    <2>2. ~MarkPhase(g)
      BY <1>1 DEF MarkPhase, At, Workers
    <2>3. worker' # [worker EXCEPT ![g].after = "abandon", ![g].stage = "runs"]
      BY <1>1 DEF Workers
    <2>4. ~RollBack(g)
      BY <1>2, <2>3 DEF RollBack, Stages
    <2> QED
      BY <2>1, <2>2, <2>4
  <1>8. ~RecoverBatch(g) /\ ~DiagnosePhase(g) /\ ~DiagnoseRun(g) /\ ~FreeClaims(g) /\ ~Crash(g)
    <2>1. ~RecoverBatch(g)
      <3>1. ASSUME NEW b
            PROVE  /\ worker' # [worker EXCEPT ![g].stage = "diagnose_phase", ![g].target = b]
                   /\ worker' # [[worker EXCEPT ![g].stage = "diagnose_phase", ![g].target = b]
                                   EXCEPT ![g].done = @ \cup {b}]
        BY <1>1 DEF Workers
      <3> QED
        BY <1>2, <3>1 DEF RecoverBatch
    <2>2. ~DiagnosePhase(g) /\ ~DiagnoseRun(g)
      BY <1>2 DEF DiagnosePhase, DiagnoseRun, Stages
    <2>3. ~FreeClaims(g)
      BY <1>1 DEF FreeClaims, Workers
    <2>4. ~Crash(g)
      BY <1>1 DEF Crash, Idle
    <2> QED
      BY <2>1, <2>2, <2>3, <2>4
  <1> QED
    BY <1>3, <1>4, <1>5, <1>6, <1>7, <1>8, <1>9, Others DEF At

\* An exit that keeps its lease and meets no storage error, whatever the body went
\* through before it, leaves no run it knows of active.  Excepted are an operation
\* whose finalization fails, and an exit with an error that passes over the run of a
\* transaction whose implicit phase could not be made.
\* (exit_with_implicit_operation, SafeTransaction.__exit__, SafeOperation.__exit__)
THEOREM EndsGetRecorded == Spec => EndsAreRecorded
  <1> DEFINE Recorded(g) ==
       /\ ~At(g, "closed") /\ worker'[g].stage = "closed"
       /\ ~worker[g].lapsed /\ faults' = worker[g].since /\ HasLinks(g)
       /\ worker[g].kind = "operation" => worker[g].to # "finalization_failed"
       /\ worker[g].implicit /\ worker[g].to = "failed" => phases[g] # << >>
       => runs'[g] # "active"
  <1>1. ASSUME Inv, [Next]_vars, NEW g \in Grants
        PROVE  Recorded(g)
    <2> SUFFICES ASSUME ~At(g, "closed"), worker'[g].stage = "closed", ~worker[g].lapsed,
                        faults' = worker[g].since, HasLinks(g), ~RecordsLate(g), ~PassesOver(g)
                 PROVE  runs'[g] # "active"
      BY DEF RecordsLate, PassesOver
    <2>1. TypeOK /\ WorkerInv(g) /\ LinksInv(g) /\ worker[g] \in Workers /\ faults \in Nat
      BY <1>1, WorkerType DEF Inv, TypeOK, WorkerInv
    <2>2. ~Fault /\ (UNCHANGED bounds => faults = worker[g].since)
      BY <1>1, <2>1, FaultTypes DEF Fault, WorkerInv, SinceInv, bounds
    <2>3. CASE Finalize(g)
      <3>1. runs'[g] = "succeeded" \/ worker' = FailsExit(g)
        BY <2>1, <2>3 DEF Finalize, TypeOK
      <3>2. worker' # FailsExit(g)
        BY <2>1 DEF FailsExit, FailsOperation, FailsFinalization, TypeOK, Workers
      <3> QED
        BY <3>1, <3>2
    <2>4. CASE MarkRun(g)
      <3>1. At(g, "runs") /\ worker[g].to \in {"failed", "finalization_failed"}
        BY <2>1, <2>4 DEF MarkRun, WorkerInv, ExitInv, Marking, At
      <3>2. lease = g
        BY <2>1, <3>1 DEF WorkerInv, HeldInv, Running, At
      <3>3. MarkedRun(g, worker[g].to) \/ (UNCHANGED runs /\ runs[g] = "none")
        BY <2>1, <2>4, <3>1, UnmarkedRun DEF MarkRun, MarkedRun
      <3>4. MarkedRun(g, worker[g].to) => UNCHANGED faults
        BY <2>2 DEF MarkedRun, MarksCleanly, MarksBadly, Accepted, LeaseLost, bounds
      <3> QED
        BY <2>1, <3>1, <3>2, <3>3, <3>4, MarkedRunRow DEF Ended
    <2>5. CASE ReleaseClaims(g) \/ ReleaseLease(g)
      <3>1. /\ worker[g].stage \in {"release_claims", "release_lease"} /\ UNCHANGED runs
            /\ faults = worker[g].since
        BY <2>1, <2>2, <2>5 DEF ReleaseClaims, ReleaseLease, durable, At, LeaseLost
      <3> QED
        BY <2>1, <3>1 DEF WorkerInv, RecordedInv
    <2>6. CASE EndRecovery(g)
      BY <2>1, <2>6 DEF EndRecovery, Body, WorkerInv, BeginInv, Blank
    <2> QED
      BY <1>1, <2>3, <2>4, <2>5, <2>6, ClosingSteps
  <1>2. Inv /\ [Next]_vars => [\A g \in Grants : Recorded(g)]_vars
    BY <1>1
  <1> QED
    BY <1>2, SpecInv, PTL DEF Spec, EndsAreRecorded

=============================================================================
