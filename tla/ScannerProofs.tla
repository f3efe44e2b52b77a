--------------------------- MODULE ScannerProofs ---------------------------
(***************************************************************************)
(* Theorems about the scan engine, for every set of addresses and requests *)
(* and any bound on workers and runs.                                      *)
(***************************************************************************)
EXTENDS Scanner, FiniteSetTheorems, TLAPS

-----------------------------------------------------------------------------
\* The values the actions build, one fact per kind of update.

LEMMA StatusNew ==
    ASSUME NEW id \in 0 .. MaxRuns, NEW n \in Int
    PROVE  [NoStatus EXCEPT !.running = TRUE, !.runId = id, !.total = n] \in Status
  BY DEF Status, NoStatus

LEMMA StatusFound ==
    ASSUME NEW s \in Status
    PROVE  [s EXCEPT !.found = @ + 1] \in Status
  BY DEF Status

LEMMA StatusSet ==
    ASSUME NEW s \in Status, NEW n \in Nat, NEW f \in Nat
    PROVE  [s EXCEPT !.scanned = n, !.found = f] \in Status
  BY DEF Status

LEMMA StatusCounted ==
    ASSUME NEW s \in Status, NEW alive \in BOOLEAN
    PROVE  [s EXCEPT !.scanned = @ + 1,
                     !.found = IF alive THEN @ + 1 ELSE @] \in Status
<1>1. s.scanned + 1 \in Nat /\ (IF alive THEN s.found + 1 ELSE s.found) \in Nat
  BY DEF Status
<1>2. [s EXCEPT !.scanned = s.scanned + 1,
                !.found = IF alive THEN s.found + 1 ELSE s.found] \in Status
  BY <1>1, StatusSet
<1> QED BY <1>2

LEMMA StatusRetired ==
    ASSUME NEW s \in Status, NEW e \in BOOLEAN
    PROVE  [s EXCEPT !.running = FALSE, !.error = e] \in Status
  BY DEF Status

LEMMA RowClosed ==
    ASSUME NEW r \in Row, NEW st \in Status
    PROVE  [r EXCEPT !.state = Verdict(st), !.scanned = st.scanned,
                     !.found = st.found] \in Row
  BY DEF Row, RowState, Status, Verdict

LEMMA BusyWorker ==
    ASSUME NEW s \in WorkerState, s.at \in {"probe", "store", "count"}
    PROVE  s.addr \in Addr /\ s.alive \in BOOLEAN
  BY DEF WorkerState

LEMMA WorkerMoves ==
    ASSUME NEW s \in WorkerState, s.at \in {"probe", "store", "count"}
    PROVE  /\ [s EXCEPT !.at = "store", !.alive = TRUE] \in WorkerState
           /\ [s EXCEPT !.at = "count"] \in WorkerState
  BY DEF WorkerState

LEMMA WorkerFresh ==
    /\ WorkerAt("idle") \in WorkerState
    /\ WorkerAt("off") \in WorkerState
    /\ \A a \in Addr :
          [at |-> "probe", addr |-> a, alive |-> FALSE] \in WorkerState
  BY DEF WorkerAt, WorkerState

-----------------------------------------------------------------------------
\* Type correctness.

\* The actions that run before the workers start.
LEMMA TypeStart ==
    ASSUME TypeOK, NEW r \in Requests, Start(r)
    PROVE  TypeOK'
<1> USE ScannerAssumption DEF TypeOK
<1>1. lastId + 1 \in RunId
  BY DEF Start, RunId
<1>2. r \in Request /\ r.total \in Int
  BY DEF Request
<1>3. status' \in Status
  <2>1. lastId + 1 \in 0 .. MaxRuns
    BY <1>1 DEF RunId
  <2>2. status' = [NoStatus EXCEPT !.running = TRUE, !.runId = lastId + 1,
                                   !.total = r.total]
    BY DEF Start
  <2> QED BY <1>2, <2>1, <2>2, StatusNew
<1>4. rows' \in [RunId -> Row]
  BY <1>1, <1>2 DEF Start, Row, RowState
<1>5. request' \in [RunId -> Request]
  BY <1>1, <1>2 DEF Start
<1>6. pc' \in [RunId -> Phase]
  BY <1>1 DEF Start, Phase, Owning, Leaving
<1> QED BY <1>1, <1>3, <1>4, <1>5, <1>6 DEF Start, RunId

LEMMA TypeRunStep ==
    ASSUME TypeOK, NEW id \in RunId, RunStep(id) \/ Expire(id)
    PROVE  TypeOK'
<1> USE ScannerAssumption DEF TypeOK
<1>1. CASE Begin(id)
  <2>1. pool' \in [RunId -> [Worker -> WorkerState]]
    BY <1>1, WorkerFresh DEF Begin
  <2>2. queue' \in [RunId -> SUBSET Addr]
    BY <1>1 DEF Begin, Request
  <2>3. pc' \in [RunId -> Phase]
    BY <1>1 DEF Begin, Phase, Owning
  <2> QED BY <1>1, <2>1, <2>2, <2>3 DEF Begin
<1>2. CASE StopFeeding(id)
  BY <1>2 DEF StopFeeding, runVars, Phase, Owning
<1>3. CASE Join(id)
  BY <1>3 DEF Join, runVars, Phase, Owning
<1>4. CASE ArpFind(id)
  <2>1. PICK a \in request[id].span \ seen[id], ok \in Outcome :
           /\ seen'   = [seen EXCEPT ![id] = @ \cup {a}]
           /\ known'  = IF ok THEN known \cup {a} ELSE known
           /\ status' = IF ok THEN [status EXCEPT !.found = @ + 1] ELSE status
    BY <1>4 DEF ArpFind
  <2>2. a \in Addr
    BY DEF Request
  <2>3. seen' \in [RunId -> SUBSET Addr] /\ known' \in SUBSET Addr
    BY <2>1, <2>2
  <2>4. status' \in Status
    BY <2>1, StatusFound
  <2> QED BY <1>4, <2>3, <2>4 DEF ArpFind
<1>5. CASE ArpDone(id)
  BY <1>5 DEF ArpDone, runVars, Phase, Owning
<1>6. CASE MarkMisses(id)
  <2>1. missed' \in [RunId -> SUBSET Addr]
    BY <1>6 DEF MarkMisses, Unseen
  <2> QED BY <1>6, <2>1 DEF MarkMisses, runVars, Phase, Owning
<1>7. CASE EnsureCore(id)
  <2>1. known' \in SUBSET Addr
    BY <1>7 DEF EnsureCore
  <2> QED BY <1>7, <2>1 DEF EnsureCore, runVars, Phase, Owning
<1>8. CASE Retire(id)
  <2>1. status' \in Status
    BY <1>8, StatusRetired DEF Retire
  <2>2. snapshot' \in [RunId -> Status] /\ pc' \in [RunId -> Phase]
    BY <1>8, <2>1 DEF Retire, Phase, Leaving
  <2> QED BY <1>8, <2>1, <2>2 DEF Retire
<1>9. CASE Record(id)
  <2>1. rows' \in [RunId -> Row]
    <3> DEFINE st == snapshot[id]
               closed(x) == [rows[x] EXCEPT !.state = Verdict(st),
                               !.scanned = st.scanned, !.found = st.found]
    <3>1. st \in Status
      OBVIOUS
    <3>2. \A x \in RunId : closed(x) \in Row
      BY <3>1, RowClosed
    <3>3. \/ rows' = rows
          \/ rows' = [rows EXCEPT ![st.runId] = closed(st.runId)]
      BY <1>9 DEF Record, Recorded
    <3>4. rows \in [RunId -> Row]
      OBVIOUS
    <3> HIDE DEF closed, st, TypeOK
    <3> QED BY <3>2, <3>3, <3>4
  <2>2. pc' \in [RunId -> Phase]
    BY <1>9 DEF Record, Phase, Leaving
  <2> QED BY <1>9, <2>1, <2>2 DEF Record, runVars
<1>10. CASE Announce(id)
  BY <1>10 DEF Announce, Forget, Phase, NoStatus, Status
<1>11. CASE Expire(id)
  BY <1>11 DEF Expire
<1> QED BY <1>1, <1>2, <1>3, <1>4, <1>5, <1>6, <1>7, <1>8, <1>9, <1>10, <1>11
        DEF RunStep

LEMMA TypeWorkerStep ==
    ASSUME TypeOK, NEW id \in RunId, NEW w \in Worker, WorkerStep(id, w)
    PROVE  TypeOK'
<1> USE ScannerAssumption DEF TypeOK
<1> DEFINE Pools == [RunId -> [Worker -> WorkerState]]
<1>0. pool[id][w] \in WorkerState
  OBVIOUS
<1>1. CASE Feed(id, w)
  <2>1. PICK a \in queue[id] :
           /\ queue' = [queue EXCEPT ![id] = Left(id, a)]
           /\ pool'  = [pool EXCEPT ![id][w] =
                           [at |-> "probe", addr |-> a, alive |-> FALSE]]
    BY <1>1 DEF Feed
  <2>2. pool' \in Pools /\ queue' \in [RunId -> SUBSET Addr]
    BY <2>1, WorkerFresh DEF Left
  <2> QED BY <1>1, <2>2 DEF Feed
<1>2. CASE Probe(id, w)
  <2>1. pool[id][w].addr \in Addr
    BY <1>0, <1>2, BusyWorker DEF Probe
  <2>2. \E next \in WorkerState : pool' = [pool EXCEPT ![id][w] = next]
    <3>1. \/ pool' = [pool EXCEPT ![id][w] =
                         [@ EXCEPT !.at = "store", !.alive = TRUE]]
          \/ pool' = [pool EXCEPT ![id][w].at = "count"]
      BY <1>2 DEF Probe
    <3>2. \/ pool' = [pool EXCEPT ![id][w] =
                         [pool[id][w] EXCEPT !.at = "store", !.alive = TRUE]]
          \/ pool' = [pool EXCEPT ![id][w] = [pool[id][w] EXCEPT !.at = "count"]]
      BY <3>1
    <3> QED BY <1>0, <1>2, <3>2, WorkerMoves DEF Probe
  <2>3. pool' \in Pools
    BY <2>2
  <2>4. \/ seen' = seen
        \/ seen' = [seen EXCEPT ![id] = @ \cup {pool[id][w].addr}]
    BY <1>2 DEF Probe
  <2>5. seen' \in [RunId -> SUBSET Addr]
    BY <2>1, <2>4
  <2> QED BY <1>2, <2>3, <2>5 DEF Probe
<1>3. CASE Upsert(id, w)
  <2>1. pool[id][w].addr \in Addr
    BY <1>0, <1>3, BusyWorker DEF Upsert
  <2>2. pool' \in Pools /\ known' \in SUBSET Addr
    BY <1>0, <1>3, <2>1, WorkerMoves DEF Upsert
  <2> QED BY <1>3, <2>2 DEF Upsert
<1>4. CASE Count(id, w)
  <2>1. pool[id][w].addr \in Addr /\ pool[id][w].alive \in BOOLEAN
    BY <1>0, <1>4, BusyWorker DEF Count
  <2>2. status' \in Status
    BY <1>4, <2>1, StatusCounted DEF Count
  <2>3. pool' \in Pools /\ checked' \in [RunId -> SUBSET Addr]
    BY <1>4, <2>1, WorkerFresh DEF Count
  <2> QED BY <1>4, <2>2, <2>3 DEF Count
<1>5. CASE Exit(id, w)
  BY <1>5, WorkerFresh DEF Exit
<1> QED BY <1>1, <1>2, <1>3, <1>4, <1>5 DEF WorkerStep

LEMMA TypeRestart ==
    ASSUME TypeOK, Restart
    PROVE  TypeOK'
<1> USE ScannerAssumption DEF TypeOK
<1>2. status' \in Status /\ snapshot' \in [RunId -> Status]
  BY DEF Restart, Forget, NoStatus, Status
<1>3. pc' \in [RunId -> Phase]
  BY DEF Restart, Phase
<1>4. pool' \in [RunId -> [Worker -> WorkerState]]
  BY WorkerFresh DEF Restart
<1> QED BY <1>2, <1>3, <1>4 DEF Restart, Forget

LEMMA TypeNext == TypeOK /\ [Next]_vars => TypeOK'
<1> SUFFICES ASSUME TypeOK, [Next]_vars PROVE TypeOK'
  OBVIOUS
<1>1. CASE \E r \in Requests : Start(r)
  BY <1>1, TypeStart
<1>2. CASE \E id \in RunId : RunStep(id) \/ Expire(id)
  BY <1>2, TypeRunStep
<1>3. CASE \E id \in RunId, w \in Worker : WorkerStep(id, w)
  BY <1>3, TypeWorkerStep
<1>4. CASE Restart
  BY <1>4, TypeRestart
<1>5. CASE UNCHANGED vars
  BY <1>5 DEF vars, TypeOK
<1> QED BY <1>1, <1>2, <1>3, <1>4, <1>5 DEF Next

\* Every value the scan engine ever holds is of its kind.
THEOREM TypeCorrect == Spec => []TypeOK
<1>1. Init => TypeOK
  BY ScannerAssumption
  DEF Init, TypeOK, NoStatus, Status, NoRow, Row, RowState, Phase, NoRequest,
      Request, WorkerAt, WorkerState
<1>2. TypeOK /\ [Next]_vars => TypeOK'
  BY TypeNext
<1> QED BY <1>1, <1>2, PTL DEF Spec

-----------------------------------------------------------------------------
\* One active run.

\* A step either leaves pc, running and runId alone (workers and the
\* deadline) or moves one goroutine.
LEMMA OwnerNext ==
    ASSUME TypeOK, OneActiveRun, [Next]_vars
    PROVE  OneActiveRun'
<1> USE DEF TypeOK, OneActiveRun, Owning, Leaving
<1>1. ASSUME NEW r \in Requests, Start(r) PROVE OneActiveRun'
  <2>1. lastId + 1 \in RunId
    BY <1>1, ScannerAssumption DEF Start, RunId
  <2>2. \A id \in RunId : pc[id] \notin Owning
    BY <1>1 DEF Start, MayStart
  <2>3. status'.running /\ status'.runId = lastId + 1
    BY <1>1 DEF Start, NoStatus
  <2>4. pc' = [pc EXCEPT ![lastId + 1] = "spawned"]
    BY <1>1 DEF Start
  <2> QED BY <2>1, <2>2, <2>3, <2>4
<1>2. ASSUME NEW id \in RunId,
             Begin(id) \/ StopFeeding(id) \/ Join(id) \/ ArpDone(id)
               \/ MarkMisses(id) \/ EnsureCore(id)
      PROVE  OneActiveRun'
  <2>1. \E p \in Owning : pc' = [pc EXCEPT ![id] = p]
    BY <1>2 DEF Begin, StopFeeding, Join, ArpDone, MarkMisses, EnsureCore
  <2>2. pc[id] \in Owning /\ status' = status
    BY <1>2 DEF Begin, StopFeeding, Join, ArpDone, MarkMisses, EnsureCore
  <2> QED BY <2>1, <2>2
<1>3. ASSUME NEW id \in RunId, ArpFind(id) PROVE OneActiveRun'
  <2>1. status'.running = status.running /\ status'.runId = status.runId
    BY <1>3 DEF ArpFind, Status
  <2> QED BY <1>3, <2>1 DEF ArpFind
<1>4. ASSUME NEW id \in RunId, Retire(id) PROVE OneActiveRun'
  <2>1. \A j \in RunId : pc[j] \in Owning => j = id
    BY <1>4 DEF Retire
  <2>2. ~status'.running
    BY <1>4 DEF Retire, Status
  <2>3. \A j \in RunId : pc'[j] \notin Owning
    BY <1>4, <2>1 DEF Retire
  <2> QED BY <2>2, <2>3
<1>5. ASSUME NEW id \in RunId, Record(id) \/ Announce(id) PROVE OneActiveRun'
  <2>1. pc[id] \notin Owning /\ status' = status
    BY <1>5 DEF Record, Announce
  <2>2. \E p \in {"announce", "done"} : pc' = [pc EXCEPT ![id] = p]
    BY <1>5 DEF Record, Announce
  <2> QED BY <2>1, <2>2
<1>6. ASSUME NEW id \in RunId, NEW w \in Worker, WorkerStep(id, w)
      PROVE  OneActiveRun'
  <2>1. pc' = pc
    BY <1>6 DEF WorkerStep, Feed, Probe, Upsert, Count, Exit
  <2>2. status'.running = status.running /\ status'.runId = status.runId
    BY <1>6 DEF WorkerStep, Feed, Probe, Upsert, Count, Exit, Status
  <2> QED BY <2>1, <2>2
<1>7. ASSUME NEW id \in RunId, Expire(id) PROVE OneActiveRun'
  BY <1>7 DEF Expire
<1>8. CASE Restart
  <2>1. ~status'.running
    BY <1>8 DEF Restart, NoStatus
  <2>2. \A id \in RunId : pc'[id] \notin Owning
    BY <1>8 DEF Restart
  <2> QED BY <2>1, <2>2
<1>9. CASE UNCHANGED vars
  BY <1>9 DEF vars
<1> QED BY <1>1, <1>2, <1>3, <1>4, <1>5, <1>6, <1>7, <1>8, <1>9
        DEF Next, RunStep

\* One scan at a time, for any number of requests, restarts and workers: the
\* status the API reads belongs to the only goroutine that writes it.
THEOREM OneRunAtATime == Spec => []OneActiveRun
<1>1. Init => OneActiveRun
  BY DEF Init, OneActiveRun, NoStatus, Owning
<1>2. TypeOK /\ OneActiveRun /\ [Next]_vars => OneActiveRun'
  BY OwnerNext
<1> QED BY <1>1, <1>2, TypeCorrect, PTL DEF Spec

-----------------------------------------------------------------------------
\* The figures of a run.

Sweeping == {"sweep", "drain"}
Swept    == {"arp", "misses", "core", "retire"}
Closed   == {"completed", "failed"}

\* A run that has not been started has left nothing behind, and its history
\* entry stays open for as long as it can still close it.
Numbered(id) ==
    /\ (id > lastId) <=> (pc[id] = "none")
    /\ pc[id] = "none" => rows[id].state = "none"
    /\ pc[id] # "none" => /\ request[id] \in Requests
                          /\ rows[id].state # "none"
                          /\ rows[id].total = request[id].total
    /\ pc[id] \in Owning \cup {"record"} => rows[id].state = "running"

\* Before the workers start nothing has been looked at; before and after the
\* sweep there are no workers.
Untouched(id) ==
    /\ pc[id] \in {"none", "spawned"} => checked[id] = {} /\ seen[id] = {}
    /\ pc[id] = "spawned" => status.scanned = 0 /\ status.found = 0
    /\ pc[id] \notin Sweeping => AllOut(id)

\* During the sweep every host is in one place: still to be handed out, in
\* the hands of one worker, or counted.
Divided(id) == pc[id] \in Sweeping =>
    /\ request[id].hosts = queue[id] \cup InHand(id) \cup checked[id]
    /\ queue[id] \cap checked[id] = {}
    /\ InHand(id) \cap (queue[id] \cup checked[id]) = {}
    /\ \A v, w \in Busy(id) : pool[id][v].addr = pool[id][w].addr => v = w

\* Scanned is the number of hosts that are counted.
Exact(id) == pc[id] \in Sweeping =>
    /\ status.scanned = Cardinality(checked[id])
    /\ status.scanned + Cardinality(Busy(id)) + Cardinality(queue[id])
           = Cardinality(request[id].hosts)

\* What has answered is in hand or counted, and Found is the number of those
\* that are counted.
Answered(id) == pc[id] \in Sweeping =>
    /\ seen[id] \subseteq InHand(id) \cup checked[id]
    /\ \A w \in Busy(id) : pool[id][w].alive <=> (pool[id][w].addr \in seen[id])
    /\ status.found = Cardinality(seen[id] \cap checked[id])

\* From the end of the feeder to the copy the row is written from: either the
\* deadline has passed or every host has been counted.
Finished(id) ==
    /\ pc[id] = "drain" => expired[id] \/ queue[id] = {}
    /\ pc[id] \in Swept => /\ status.scanned = Cardinality(checked[id])
                           /\ expired[id] \/ checked[id] = request[id].hosts
    /\ pc[id] = "record" =>
          /\ snapshot[id].runId = id
          /\ snapshot[id].scanned = Cardinality(checked[id])
          /\ snapshot[id].error \/ checked[id] = request[id].hosts

\* A closed entry tells what its run has counted.
Told(id) == rows[id].state \in Closed =>
    /\ pc[id] \in {"announce", "done", "killed"}
    /\ rows[id].scanned = Cardinality(checked[id])
    /\ rows[id].state = "completed" => checked[id] = request[id].hosts

\* Misses are counted once, after the last answer.
Excluded(id) ==
    /\ missed[id] \cap seen[id] = {}
    /\ pc[id] \in {"none", "spawned", "sweep", "drain", "arp", "misses"}
          => missed[id] = {}

Account(id) == /\ Numbered(id) /\ Untouched(id) /\ Divided(id) /\ Exact(id)
               /\ Answered(id) /\ Finished(id) /\ Told(id) /\ Excluded(id)

\* Inductive.
Accounted == OneActiveRun /\ \A id \in RunId : Account(id)

-----------------------------------------------------------------------------
\* What the figures are made of.

LEMMA Finite ==
    ASSUME TypeOK, NEW id \in RunId
    PROVE  /\ IsFiniteSet(Busy(id)) /\ IsFiniteSet(queue[id])
           /\ IsFiniteSet(seen[id]) /\ IsFiniteSet(checked[id])
           /\ IsFiniteSet(seen[id] \cap checked[id])
           /\ IsFiniteSet(request[id].hosts)
<1>1. \A S \in SUBSET Addr : IsFiniteSet(S)
  BY ScannerAssumption, FS_Subset
<1>2. /\ queue[id] \in SUBSET Addr /\ seen[id] \in SUBSET Addr
      /\ checked[id] \in SUBSET Addr /\ seen[id] \cap checked[id] \in SUBSET Addr
      /\ request[id].hosts \in SUBSET Addr
  BY DEF TypeOK, Request
<1>3. IsFiniteSet(Worker)
  <2>1. 1 \in Int /\ MaxConcurrency \in Int
    BY ScannerAssumption
  <2> QED BY <2>1, FS_Interval DEF Worker
<1>4. Busy(id) \in SUBSET Worker
  BY DEF Busy
<1>5. IsFiniteSet(Busy(id))
  BY <1>3, <1>4, FS_Subset
<1> QED BY <1>1, <1>2, <1>5

\* One worker moves.
LEMMA Move ==
    ASSUME NEW id \in RunId, NEW w \in Worker,
           \A v \in Worker \ {w} : pool'[id][v] = pool[id][v]
    PROVE  Busy(id)' = IF pool'[id][w].at \in {"probe", "store", "count"}
                       THEN Busy(id) \cup {w} ELSE Busy(id) \ {w}
  BY DEF Busy

\* The run j has not taken part in the step.
Kept(j) ==
    /\ (j > lastId') <=> (j > lastId)
    /\ rows'[j] = rows[j] /\ pc'[j] = pc[j] /\ request'[j] = request[j]
    /\ queue'[j] = queue[j] /\ pool'[j] = pool[j] /\ expired'[j] = expired[j]
    /\ seen'[j] = seen[j] /\ checked'[j] = checked[j]
    /\ snapshot'[j] = snapshot[j] /\ missed'[j] = missed[j]

LEMMA Elsewhere ==
    ASSUME NEW j \in RunId, Account(j), Kept(j),
           status' = status \/ pc[j] \notin Owning
    PROVE  Account(j)'
<1>1. Busy(j)' = Busy(j)
  BY DEF Kept, Busy
<1>2. InHand(j)' = InHand(j)
  BY <1>1 DEF Kept, InHand
<1>3. AllOut(j)' <=> AllOut(j)
  BY DEF Kept, AllOut
<1>4. Numbered(j)' /\ Untouched(j)' /\ Told(j)' /\ Excluded(j)'
  BY <1>3 DEF Account, Kept, Numbered, Untouched, Told, Excluded, Owning
<1>5. Divided(j)'
  BY <1>1, <1>2 DEF Account, Kept, Divided
<1>6. Exact(j)' /\ Answered(j)' /\ Finished(j)'
  BY <1>1, <1>2 DEF Account, Kept, Exact, Answered, Finished, Owning, Sweeping, Swept
<1> QED BY <1>4, <1>5, <1>6 DEF Account

\* It is enough to look at the run whose goroutine moves.
LEMMA OneMoves ==
    ASSUME Accounted, NEW id \in RunId, OneActiveRun',
           status' = status \/ pc[id] \in Owning,
           \A j \in RunId \ {id} : Kept(j),
           Account(id)'
    PROVE  Accounted'
<1>1. ASSUME NEW j \in RunId, j # id PROVE Account(j)'
  <2>1. status' = status \/ pc[j] \notin Owning
    BY <1>1 DEF Accounted, OneActiveRun
  <2> QED BY <1>1, <2>1, Elsewhere DEF Accounted
<1> QED BY <1>1 DEF Accounted

-----------------------------------------------------------------------------
\* Before the sweep.

LEMMA AccountStart ==
    ASSUME TypeOK, Accounted, NEW r \in Requests, Start(r), OneActiveRun'
    PROVE  Accounted'
<1>00. lastId + 1 \in RunId /\ lastId \in Nat
  BY ScannerAssumption DEF Start, RunId, TypeOK
<1>01. PICK id \in RunId : id = lastId + 1
  BY <1>00
<1>0. pc[id] = "none" /\ id > lastId
  BY <1>00, <1>01 DEF Accounted, Account, Numbered
<1>1. \A j \in RunId : pc[j] \notin Owning
  BY DEF Start, MayStart, Accounted, OneActiveRun
<1>2. \A j \in RunId \ {id} : Kept(j)
  <2>1. \A j \in RunId \ {id} : (j > id) <=> (j > lastId)
    BY <1>00, <1>01 DEF RunId
  <2>2. lastId' = id
    BY <1>01 DEF Start
  <2> QED BY <1>01, <2>1, <2>2 DEF Start, Kept, TypeOK
<1>3. Account(id)
  BY DEF Accounted
<1>4. /\ pc'[id] = "spawned" /\ request'[id] = r /\ lastId' = id
      /\ rows'[id].state = "running" /\ rows'[id].total = r.total
      /\ status'.scanned = 0 /\ status'.found = 0
      /\ UNCHANGED <<queue, pool, expired, seen, checked, snapshot, missed>>
  BY <1>01 DEF Start, TypeOK, NoStatus
<1>5. Account(id)'
  <2>1. checked'[id] = {} /\ seen'[id] = {} /\ missed'[id] = {}
    BY <1>0, <1>3, <1>4 DEF Account, Untouched, Excluded
  <2>2. AllOut(id)'
    BY <1>0, <1>3, <1>4 DEF Account, Untouched, Sweeping, AllOut
  <2>3. ~(id > lastId')
    BY <1>4 DEF RunId
  <2>4. Numbered(id)' /\ Untouched(id)' /\ Told(id)' /\ Excluded(id)'
    BY <1>4, <2>1, <2>2, <2>3 DEF Numbered, Untouched, Told, Closed, Excluded
  <2>5. Divided(id)' /\ Exact(id)' /\ Answered(id)' /\ Finished(id)'
    BY <1>4 DEF Divided, Exact, Answered, Finished, Sweeping, Swept
  <2> QED BY <2>4, <2>5 DEF Account
<1>6. \A j \in RunId \ {id} : Account(j)'
  BY <1>1, <1>2, Elsewhere DEF Accounted
<1> QED BY <1>5, <1>6 DEF Accounted

LEMMA AccountBegin ==
    ASSUME TypeOK, Accounted, NEW id \in RunId, Begin(id), OneActiveRun'
    PROVE  Accounted'
<1>1. /\ pc[id] = "spawned" /\ pc'[id] = "sweep" /\ queue'[id] = request[id].hosts
      /\ \A w \in Worker : pool'[id][w].at \in {"idle", "off"}
      /\ UNCHANGED <<status, lastId, rows, request, expired, seen, checked,
                     snapshot, missed>>
  BY DEF Begin, TypeOK, WorkerAt
<1>2. \A j \in RunId \ {id} : Kept(j)
  BY DEF Begin, Kept, TypeOK
<1>3. Account(id)
  BY DEF Accounted
<1>4. checked[id] = {} /\ seen[id] = {} /\ missed[id] = {} /\ status.scanned = 0
      /\ status.found = 0
  BY <1>1, <1>3 DEF Account, Untouched, Excluded
<1>5. Busy(id)' = {} /\ InHand(id)' = {}
  BY <1>1 DEF Busy, InHand
<1>6. Cardinality(request[id].hosts) \in Nat /\ Cardinality({}) = 0
  BY Finite, FS_CardinalityType, FS_EmptySet
<1>7. Numbered(id)' /\ Untouched(id)' /\ Told(id)' /\ Excluded(id)'
  BY <1>1, <1>3, <1>4 DEF Account, Numbered, Untouched, Told, Closed, Excluded, Owning, Sweeping
<1>8. Divided(id)' /\ Answered(id)' /\ Finished(id)'
  BY <1>1, <1>4, <1>5, <1>6 DEF Divided, Answered, Finished, Swept
<1>9. Exact(id)'
  BY <1>1, <1>4, <1>5, <1>6 DEF Exact
<1> QED BY <1>1, <1>2, <1>7, <1>8, <1>9, OneMoves DEF Account

LEMMA AccountExpire ==
    ASSUME TypeOK, Accounted, NEW id \in RunId, Expire(id), OneActiveRun'
    PROVE  Accounted'
<1>1. /\ pc' = pc /\ expired'[id] /\ pc[id] # "record"
      /\ UNCHANGED <<status, lastId, rows, request, queue, pool, seen, checked,
                     snapshot, missed>>
  BY DEF Expire, TypeOK, Owning
<1>2. \A j \in RunId \ {id} : Kept(j)
  BY DEF Expire, Kept, TypeOK
<1>3. Account(id)
  BY DEF Accounted
<1>4. Busy(id)' = Busy(id) /\ InHand(id)' = InHand(id) /\ (AllOut(id)' <=> AllOut(id))
  BY <1>1 DEF Busy, InHand, AllOut
<1>5. Numbered(id)' /\ Untouched(id)' /\ Told(id)' /\ Excluded(id)'
  BY <1>1, <1>3, <1>4 DEF Account, Numbered, Untouched, Told, Excluded
<1>6. Divided(id)' /\ Exact(id)'
  BY <1>1, <1>3, <1>4 DEF Account, Divided, Exact
<1>7. Answered(id)' /\ Finished(id)'
  BY <1>1, <1>3, <1>4 DEF Account, Answered, Finished
<1> QED BY <1>1, <1>2, <1>5, <1>6, <1>7, OneMoves DEF Account

-----------------------------------------------------------------------------
\* The sweep.

LEMMA AccountFeed ==
    ASSUME TypeOK, Accounted, NEW id \in RunId, NEW w \in Worker, Feed(id, w),
           OneActiveRun'
    PROVE  Accounted'
<1>1. PICK a \in queue[id] :
         /\ queue' = [queue EXCEPT ![id] = Left(id, a)]
         /\ pool'  = [pool EXCEPT ![id][w] =
                         [at |-> "probe", addr |-> a, alive |-> FALSE]]
  BY DEF Feed
<1>2. /\ pc[id] = "sweep" /\ pool[id][w].at = "idle" /\ queue'[id] = queue[id] \ {a}
      /\ UNCHANGED <<status, lastId, rows, pc, request, expired, seen, checked,
                     snapshot, missed>>
  BY <1>1 DEF Feed, Left, TypeOK
<1>3. \A j \in RunId \ {id} : Kept(j)
  BY <1>1, <1>2 DEF Kept, TypeOK
<1>4. Account(id)
  BY DEF Accounted
<1>5. /\ \A v \in Worker \ {w} : pool'[id][v] = pool[id][v]
      /\ pool'[id][w] = [at |-> "probe", addr |-> a, alive |-> FALSE]
  BY <1>1 DEF TypeOK
<1>50. Busy(id)' = Busy(id) \cup {w}
  BY <1>5, Move
<1>6. w \notin Busy(id)
  BY <1>2 DEF Busy
<1>7. InHand(id)' = InHand(id) \cup {a}
  BY <1>5, <1>50, <1>6 DEF InHand, Busy
<1>8. a \notin InHand(id) /\ a \notin checked[id] /\ a \notin seen[id]
  BY <1>2, <1>4 DEF Account, Divided, Answered, Sweeping
<1>9. Numbered(id)' /\ Untouched(id)' /\ Told(id)' /\ Excluded(id)'
  BY <1>2, <1>4 DEF Account, Numbered, Untouched, Told, Excluded, Sweeping
<1>10. Divided(id)'
  <2>1. \A v \in Busy(id) : pool[id][v].addr \in InHand(id) /\ pool'[id][v] = pool[id][v]
    BY <1>5, <1>6 DEF InHand, Busy
  <2>2. \A u, v \in Busy(id)' : pool'[id][u].addr = pool'[id][v].addr => u = v
    BY <1>2, <1>4, <1>5, <1>50, <1>8, <2>1 DEF Account, Divided, Sweeping
  <2> QED BY <1>2, <1>4, <1>7, <1>8, <2>2 DEF Account, Divided, Sweeping
<1>11. Exact(id)'
  <2>1. /\ Cardinality(Busy(id)') = Cardinality(Busy(id)) + 1
        /\ Cardinality(queue'[id]) = Cardinality(queue[id]) - 1
    <3>1. /\ Cardinality(Busy(id) \cup {w}) = Cardinality(Busy(id)) + 1
          /\ Cardinality(queue[id] \ {a}) = Cardinality(queue[id]) - 1
      <4>1. IsFiniteSet(Busy(id)) /\ IsFiniteSet(queue[id])
        BY Finite
      <4> QED BY <1>6, <4>1, FS_AddElement, FS_RemoveElement
    <3> QED BY <1>2, <1>50, <3>1
  <2>2. Cardinality(Busy(id)) \in Nat /\ Cardinality(queue[id]) \in Nat /\ status.scanned \in Nat
    BY Finite, FS_CardinalityType DEF TypeOK, Status
  <2> QED BY <1>2, <1>4, <2>1, <2>2 DEF Account, Exact, Sweeping
<1>12. Answered(id)' /\ Finished(id)'
  <2>1. \A v \in Busy(id) : pool'[id][v] = pool[id][v]
    BY <1>5, <1>6 DEF Busy
  <2> QED BY <1>2, <1>4, <1>5, <1>50, <1>7, <1>8, <2>1 DEF Account, Answered, Finished, Sweeping, Swept
<1> QED BY <1>2, <1>3, <1>9, <1>10, <1>11, <1>12, OneMoves DEF Account

\* A worker that stays busy with its address.
LEMMA AccountWorks ==
    ASSUME TypeOK, Accounted, NEW id \in RunId, NEW w \in Worker,
           Probe(id, w) \/ Upsert(id, w), OneActiveRun'
    PROVE  Accounted'
<1> DEFINE s == pool[id][w]
           a == s.addr
<1>1. /\ w \in Busy(id) /\ a \in InHand(id)
      /\ UNCHANGED <<status, lastId, rows, pc, request, queue, expired, checked,
                     snapshot, missed>>
  BY DEF Probe, Upsert, Busy, InHand
<1>2. Account(id) /\ pc[id] \in Sweeping
  BY <1>1 DEF Accounted, Account, Untouched, AllOut, Busy
<1>3. s \in WorkerState
  BY DEF TypeOK
<1>4. a \in Addr /\ s.alive \in BOOLEAN
  BY <1>1, <1>3, BusyWorker DEF Busy
<1>5. \E t : /\ pool' = [pool EXCEPT ![id][w] = t]
             /\ t.at \in {"store", "count"} /\ t.addr = a
             /\ \/ t.alive = s.alive /\ seen' = seen
                \/ t.alive = TRUE /\ seen' = [seen EXCEPT ![id] = @ \cup {a}]
  <2> DEFINE t1 == [s EXCEPT !.at = "store", !.alive = TRUE]
             t2 == [s EXCEPT !.at = "count"]
  <2>1. /\ t1.at = "store" /\ t1.addr = a /\ t1.alive = TRUE
        /\ t2.at = "count" /\ t2.addr = a /\ t2.alive = s.alive
    BY <1>3 DEF WorkerState
  <2>2. \/ pool' = [pool EXCEPT ![id][w] = t1] /\ seen' = [seen EXCEPT ![id] = @ \cup {a}]
        \/ pool' = [pool EXCEPT ![id][w] = t2] /\ seen' = seen
    BY DEF Probe, Upsert
  <2> HIDE DEF t1, t2, s, a
  <2> QED BY <2>1, <2>2
<1>6. PICK t : /\ pool' = [pool EXCEPT ![id][w] = t]
               /\ t.at \in {"store", "count"} /\ t.addr = a
               /\ \/ t.alive = s.alive /\ seen' = seen
                  \/ t.alive = TRUE /\ seen' = [seen EXCEPT ![id] = @ \cup {a}]
  BY <1>5
<1>7. /\ \A v \in Worker \ {w} : pool'[id][v] = pool[id][v]
      /\ pool'[id][w] = t
  BY <1>6 DEF TypeOK
<1>70. Busy(id)' = Busy(id)
  <2>1. Busy(id)' = Busy(id) \cup {w}
    BY <1>6, <1>7, Move
  <2> QED BY <1>1, <2>1
<1>8. \A v \in Worker : pool'[id][v].addr = pool[id][v].addr
  BY <1>6, <1>7
<1>9. InHand(id)' = InHand(id)
  BY <1>70, <1>8 DEF InHand, Busy
<1>10. a \notin checked[id] /\ \A v \in Busy(id) : pool[id][v].addr = a => v = w
  BY <1>1, <1>2 DEF Account, Divided
<1>11. \A j \in RunId \ {id} : Kept(j)
  BY <1>1, <1>6 DEF Kept, TypeOK
<1>12. seen'[id] = seen[id] \/ seen'[id] = seen[id] \cup {a}
  BY <1>6 DEF TypeOK
<1>13. Numbered(id)' /\ Untouched(id)' /\ Told(id)' /\ Excluded(id)'
  BY <1>1, <1>2, <1>12 DEF Account, Numbered, Untouched, Told, Excluded, Sweeping
<1>14. Divided(id)'
  BY <1>1, <1>2, <1>70, <1>8, <1>9 DEF Account, Divided, Busy
<1>15. Exact(id)' /\ Finished(id)'
  BY <1>1, <1>2, <1>70 DEF Account, Exact, Finished, Sweeping, Swept
<1>16. Answered(id)'
  <2>1. \A v \in Busy(id) \ {w} : pool'[id][v] = pool[id][v]
    BY <1>7 DEF Busy
  <2>2. seen'[id] \cap checked'[id] = seen[id] \cap checked[id]
    BY <1>1, <1>10, <1>12
  <2>3. \A v \in Busy(id) : pool'[id][v].alive <=> (pool'[id][v].addr \in seen'[id])
    <3>1. \A v \in Busy(id) \ {w} : (pool[id][v].addr \in seen'[id]) <=> (pool[id][v].addr \in seen[id])
      BY <1>10, <1>12
    <3>2. t.alive <=> (a \in seen'[id])
      BY <1>1, <1>2, <1>4, <1>6 DEF Account, Answered, TypeOK
    <3> QED BY <1>2, <1>6, <1>7, <2>1, <3>1, <3>2 DEF Account, Answered
  <2>4. seen'[id] \subseteq InHand(id) \cup checked[id]
    BY <1>1, <1>2, <1>12 DEF Account, Answered
  <2> QED BY <1>1, <1>2, <1>70, <1>9, <2>2, <2>3, <2>4 DEF Account, Answered
<1> QED BY <1>1, <1>11, <1>13, <1>14, <1>15, <1>16, OneMoves DEF Account

LEMMA AccountCount ==
    ASSUME TypeOK, Accounted, NEW id \in RunId, NEW w \in Worker, Count(id, w),
           OneActiveRun'
    PROVE  Accounted'
<1> DEFINE s == pool[id][w]
           a == s.addr
<1>1. /\ w \in Busy(id) /\ a \in InHand(id)
      /\ UNCHANGED <<lastId, rows, pc, request, queue, expired, seen, snapshot, missed>>
      /\ checked'[id] = checked[id] \cup {a}
  BY DEF Count, Busy, InHand, TypeOK
<1>2. Account(id) /\ pc[id] \in Sweeping
  BY <1>1 DEF Accounted, Account, Untouched, AllOut, Busy
<1>3. s.alive \in BOOLEAN
  BY <1>1, BusyWorker DEF Busy, TypeOK
<1>4. /\ status'.scanned = status.scanned + 1
      /\ status'.found = IF s.alive THEN status.found + 1 ELSE status.found
      /\ status.scanned \in Nat /\ status.found \in Nat
  BY DEF Count, TypeOK, Status
<1>5. \A j \in RunId \ {id} : Kept(j)
  BY DEF Count, Kept, TypeOK
<1>60. /\ \A v \in Worker \ {w} : pool'[id][v] = pool[id][v]
       /\ pool'[id][w].at = "idle"
  BY DEF Count, WorkerAt, TypeOK
<1>6. Busy(id)' = Busy(id) \ {w}
  BY <1>60, Move
<1>7. a \notin checked[id] /\ \A v \in Busy(id) : pool[id][v].addr = a => v = w
  BY <1>1, <1>2 DEF Account, Divided
<1>8. \A v \in Busy(id)' : v \in Busy(id) /\ pool'[id][v] = pool[id][v] /\ pool[id][v].addr # a
  BY <1>60, <1>6, <1>7 DEF Busy
<1>9. InHand(id)' = InHand(id) \ {a}
  BY <1>6, <1>8 DEF InHand
<1>10. Numbered(id)' /\ Untouched(id)' /\ Told(id)' /\ Excluded(id)'
  BY <1>1, <1>2 DEF Account, Numbered, Untouched, Told, Excluded, Sweeping, Owning, Closed
<1>11. Divided(id)'
  <2>1. \A u, v \in Busy(id)' : pool'[id][u].addr = pool'[id][v].addr => u = v
    BY <1>2, <1>8 DEF Account, Divided
  <2> QED BY <1>1, <1>2, <1>9, <2>1 DEF Account, Divided
<1>12. Exact(id)'
  <2>1. /\ Cardinality(Busy(id)') = Cardinality(Busy(id)) - 1
        /\ Cardinality(checked'[id]) = Cardinality(checked[id]) + 1
    <3>1. /\ Cardinality(Busy(id) \ {w}) = Cardinality(Busy(id)) - 1
          /\ Cardinality(checked[id] \cup {a}) = Cardinality(checked[id]) + 1
      <4>1. IsFiniteSet(Busy(id)) /\ IsFiniteSet(checked[id])
        BY Finite
      <4> QED BY <1>1, <1>7, <4>1, FS_AddElement, FS_RemoveElement
    <3> QED BY <1>1, <1>6, <3>1
  <2>2. /\ Cardinality(Busy(id)) \in Nat /\ Cardinality(queue[id]) \in Nat
        /\ Cardinality(checked[id]) \in Nat
    BY Finite, FS_CardinalityType
  <2> QED BY <1>1, <1>2, <1>4, <2>1, <2>2 DEF Account, Exact
<1>13. Answered(id)'
  <2>1. s.alive <=> (a \in seen[id])
    BY <1>1, <1>2 DEF Account, Answered
  <2>2. seen[id] \cap checked'[id] = IF s.alive THEN (seen[id] \cap checked[id]) \cup {a}
                                     ELSE seen[id] \cap checked[id]
    BY <1>1, <2>1
  <2>3. Cardinality(seen[id] \cap checked'[id])
          = IF s.alive THEN Cardinality(seen[id] \cap checked[id]) + 1
            ELSE Cardinality(seen[id] \cap checked[id])
    BY <1>7, <2>2, Finite, FS_AddElement
  <2>4. \A v \in Busy(id)' : pool'[id][v].alive <=> (pool'[id][v].addr \in seen[id])
    BY <1>2, <1>8 DEF Account, Answered
  <2> QED BY <1>1, <1>2, <1>4, <1>9, <2>3, <2>4 DEF Account, Answered
<1>14. Finished(id)'
  BY <1>1, <1>2 DEF Account, Finished, Sweeping, Swept
<1>15. pc[id] \in Owning
  BY <1>2 DEF Sweeping, Owning
<1> QED BY <1>5, <1>10, <1>11, <1>12, <1>13, <1>14, <1>15, OneMoves DEF Account

LEMMA AccountExit ==
    ASSUME TypeOK, Accounted, NEW id \in RunId, NEW w \in Worker, Exit(id, w),
           OneActiveRun'
    PROVE  Accounted'
<1>1. /\ pc[id] = "drain" /\ w \notin Busy(id)
      /\ UNCHANGED <<status, lastId, rows, pc, request, queue, expired, seen, checked,
                     snapshot, missed>>
  BY DEF Exit, Busy
<1>2. Account(id)
  BY DEF Accounted
<1>3. \A j \in RunId \ {id} : Kept(j)
  BY DEF Exit, Kept, TypeOK
<1>4. /\ \A v \in Worker \ {w} : pool'[id][v] = pool[id][v]
      /\ pool'[id][w].at = "off"
  BY DEF Exit, WorkerAt, TypeOK
<1>40. Busy(id)' = Busy(id)
  <2>1. Busy(id)' = Busy(id) \ {w}
    BY <1>4, Move
  <2> QED BY <1>1, <2>1
<1>5. \A v \in Busy(id) : pool'[id][v] = pool[id][v]
  BY <1>1, <1>4 DEF Busy
<1>6. InHand(id)' = InHand(id)
  BY <1>40, <1>5 DEF InHand
<1>7. Numbered(id)' /\ Untouched(id)' /\ Told(id)' /\ Excluded(id)'
  BY <1>1, <1>2 DEF Account, Numbered, Untouched, Told, Excluded, Sweeping
<1>8. Divided(id)'
  BY <1>1, <1>2, <1>40, <1>5, <1>6 DEF Account, Divided
<1>9. Exact(id)' /\ Answered(id)' /\ Finished(id)'
  BY <1>1, <1>2, <1>40, <1>5, <1>6 DEF Account, Exact, Answered, Finished
<1> QED BY <1>1, <1>3, <1>7, <1>8, <1>9, OneMoves DEF Account

LEMMA AccountStop ==
    ASSUME TypeOK, Accounted, NEW id \in RunId, StopFeeding(id) \/ Join(id), OneActiveRun'
    PROVE  Accounted'
<1>1. /\ UNCHANGED <<status, lastId, rows, runVars, missed>>
      /\ pc[id] \in Sweeping /\ pc'[id] \in {"drain", "arp"}
      /\ pc'[id] = "drain" => expired[id] \/ queue[id] = {}
      /\ pc'[id] = "arp" => pc[id] = "drain" /\ AllOut(id)
  BY DEF StopFeeding, Join, Fed, TypeOK, Sweeping
<1>2. Account(id)
  BY DEF Accounted
<1>3. \A j \in RunId \ {id} : Kept(j)
  BY DEF StopFeeding, Join, Kept, runVars, TypeOK
<1>4. Busy(id)' = Busy(id) /\ InHand(id)' = InHand(id) /\ (AllOut(id)' <=> AllOut(id))
  BY <1>1 DEF Busy, InHand, AllOut, runVars
<1>5. Numbered(id)' /\ Untouched(id)' /\ Told(id)' /\ Excluded(id)'
  BY <1>1, <1>2, <1>4 DEF Account, Numbered, Untouched, Told, Closed, Excluded, Sweeping, Owning, runVars
<1>6. Divided(id)' /\ Exact(id)' /\ Answered(id)'
  BY <1>1, <1>2, <1>4 DEF Account, Divided, Exact, Answered, Sweeping, runVars
<1>7. Finished(id)'
  <2>1. AllOut(id) => InHand(id) = {}
    BY DEF AllOut, InHand, Busy
  <2> QED BY <1>1, <1>2, <2>1 DEF Account, Divided, Exact, Finished, Sweeping, Swept, runVars
<1> QED BY <1>1, <1>3, <1>5, <1>6, <1>7, OneMoves DEF Account

-----------------------------------------------------------------------------
\* After the sweep.

LEMMA AccountArp ==
    ASSUME TypeOK, Accounted, NEW id \in RunId, ArpFind(id) \/ ArpDone(id), OneActiveRun'
    PROVE  Accounted'
<1>1. /\ UNCHANGED <<lastId, rows, request, queue, pool, expired, checked, snapshot, missed>>
      /\ pc[id] = "arp" /\ pc'[id] \in {"arp", "misses"}
      /\ status'.scanned = status.scanned
  BY DEF ArpFind, ArpDone, runVars, TypeOK, Status
<1>2. Account(id)
  BY DEF Accounted
<1>3. \A j \in RunId \ {id} : Kept(j)
  BY DEF ArpFind, ArpDone, Kept, runVars, TypeOK
<1>4. AllOut(id)' <=> AllOut(id)
  BY <1>1 DEF AllOut
<1>5. missed[id] = {}
  BY <1>1, <1>2 DEF Account, Excluded
<1>6. Numbered(id)' /\ Untouched(id)' /\ Told(id)' /\ Excluded(id)'
  BY <1>1, <1>2, <1>4, <1>5
  DEF Account, Numbered, Untouched, Told, Closed, Excluded, Sweeping, Owning
<1>7. Divided(id)' /\ Exact(id)' /\ Answered(id)' /\ Finished(id)'
  BY <1>1, <1>2 DEF Account, Divided, Exact, Answered, Finished, Sweeping, Swept
<1>8. pc[id] \in Owning
  BY <1>1 DEF Owning
<1> QED BY <1>3, <1>6, <1>7, <1>8, OneMoves DEF Account

LEMMA AccountMisses ==
    ASSUME TypeOK, Accounted, NEW id \in RunId, MarkMisses(id) \/ EnsureCore(id),
           OneActiveRun'
    PROVE  Accounted'
<1>1. /\ UNCHANGED <<status, lastId, rows, runVars>>
      /\ pc[id] \in {"misses", "core"} /\ pc'[id] \in {"core", "retire"}
  BY DEF MarkMisses, EnsureCore, TypeOK
<1>2. Account(id)
  BY DEF Accounted
<1>3. missed'[id] \cap seen[id] = {}
  BY <1>2 DEF MarkMisses, EnsureCore, Unseen, Account, Excluded, TypeOK
<1>4. \A j \in RunId \ {id} : Kept(j)
  BY DEF MarkMisses, EnsureCore, Kept, runVars, TypeOK
<1>5. AllOut(id)' <=> AllOut(id)
  BY <1>1 DEF AllOut, runVars
<1>6. Numbered(id)' /\ Untouched(id)' /\ Told(id)' /\ Excluded(id)'
  BY <1>1, <1>2, <1>3, <1>5
  DEF Account, Numbered, Untouched, Told, Closed, Excluded, Sweeping, Owning, runVars
<1>7. Divided(id)' /\ Exact(id)' /\ Answered(id)' /\ Finished(id)'
  BY <1>1, <1>2 DEF Account, Divided, Exact, Answered, Finished, Sweeping, Swept, runVars
<1> QED BY <1>1, <1>4, <1>6, <1>7, OneMoves DEF Account

LEMMA AccountRetire ==
    ASSUME TypeOK, Accounted, NEW id \in RunId, Retire(id), OneActiveRun'
    PROVE  Accounted'
<1>1. /\ UNCHANGED <<lastId, rows, request, queue, pool, expired, seen, checked, missed>>
      /\ pc[id] = "retire" /\ pc'[id] = "record"
      /\ snapshot'[id].runId = status.runId /\ snapshot'[id].scanned = status.scanned
      /\ snapshot'[id].error = expired[id]
  BY DEF Retire, TypeOK, Status
<1>2. Account(id) /\ status.runId = id
  BY <1>1 DEF Accounted, OneActiveRun, Owning
<1>3. \A j \in RunId \ {id} : Kept(j)
  BY DEF Retire, Kept, TypeOK
<1>4. AllOut(id)' <=> AllOut(id)
  BY <1>1 DEF AllOut
<1>5. Numbered(id)' /\ Untouched(id)' /\ Told(id)' /\ Excluded(id)'
  BY <1>1, <1>2, <1>4
  DEF Account, Numbered, Untouched, Told, Closed, Excluded, Sweeping, Owning
<1>6. Divided(id)' /\ Exact(id)' /\ Answered(id)' /\ Finished(id)'
  BY <1>1, <1>2 DEF Account, Divided, Exact, Answered, Finished, Sweeping, Swept
<1>7. pc[id] \in Owning
  BY <1>1 DEF Owning
<1> QED BY <1>3, <1>5, <1>6, <1>7, OneMoves DEF Account

\* What is written comes from the copy the run has kept, under the run's id.
LEMMA RecordOwn ==
    ASSUME TypeOK, Accounted, NEW id \in RunId, Record(id)
    PROVE  /\ \A j \in RunId \ {id} : rows'[j] = rows[j]
           /\ \/ rows'[id] = rows[id]
              \/ /\ rows'[id].state \in Closed /\ rows'[id].total = rows[id].total
                 /\ rows'[id].scanned = snapshot[id].scanned
                 /\ rows'[id].state = "completed" => ~snapshot[id].error
<1> DEFINE st == snapshot[id]
<1>1. st.runId = id
  BY DEF Accounted, Account, Finished, Record
<1>2. \/ rows' = rows
      \/ rows' = [rows EXCEPT ![id] = [rows[id] EXCEPT !.state = Verdict(st),
                     !.scanned = st.scanned, !.found = st.found]]
  BY <1>1 DEF Record, Recorded
<1>3. Verdict(st) \in Closed /\ (Verdict(st) = "completed" => ~st.error)
  BY DEF Verdict, Closed
<1>4. rows[id] \in Row /\ rows \in [RunId -> Row]
  BY DEF TypeOK
<1> HIDE DEF st
<1> QED BY <1>2, <1>3, <1>4 DEF Row, st

LEMMA AccountRecord ==
    ASSUME TypeOK, Accounted, NEW id \in RunId, Record(id), OneActiveRun'
    PROVE  Accounted'
<1>1. /\ UNCHANGED <<status, lastId, runVars, missed>>
      /\ pc[id] = "record" /\ pc'[id] = "announce"
  BY DEF Record, TypeOK
<1>2. Account(id)
  BY DEF Accounted
<1>3. \A j \in RunId \ {id} : Kept(j)
  BY RecordOwn DEF Record, Kept, runVars, TypeOK
<1>4. AllOut(id)' <=> AllOut(id)
  BY <1>1 DEF AllOut, runVars
<1>5. Numbered(id)' /\ Told(id)'
  BY <1>1, <1>2, RecordOwn DEF Account, Numbered, Told, Finished, Closed, Owning, runVars
<1>6. Untouched(id)' /\ Excluded(id)'
  BY <1>1, <1>2, <1>4 DEF Account, Untouched, Excluded, Sweeping, runVars
<1>7. Divided(id)' /\ Exact(id)' /\ Answered(id)' /\ Finished(id)'
  BY <1>1 DEF Divided, Exact, Answered, Finished, Sweeping, Swept
<1> QED BY <1>1, <1>3, <1>5, <1>6, <1>7, OneMoves DEF Account

LEMMA AccountAnnounce ==
    ASSUME TypeOK, Accounted, NEW id \in RunId, Announce(id), OneActiveRun'
    PROVE  Accounted'
<1>1. /\ UNCHANGED <<status, lastId, rows, request, pool, checked, missed>>
      /\ pc[id] = "announce" /\ pc'[id] = "done" /\ seen'[id] = {}
  BY DEF Announce, Forget, TypeOK
<1>2. Account(id)
  BY DEF Accounted
<1>3. \A j \in RunId \ {id} : Kept(j)
  BY DEF Announce, Forget, Kept, TypeOK
<1>4. AllOut(id)' <=> AllOut(id)
  BY <1>1 DEF AllOut
<1>5. Numbered(id)' /\ Untouched(id)' /\ Told(id)' /\ Excluded(id)'
  BY <1>1, <1>2, <1>4 DEF Account, Numbered, Untouched, Told, Excluded, Sweeping, Owning
<1>6. Divided(id)' /\ Exact(id)' /\ Answered(id)' /\ Finished(id)'
  BY <1>1 DEF Divided, Exact, Answered, Finished, Sweeping, Swept
<1> QED BY <1>1, <1>3, <1>5, <1>6, OneMoves DEF Account

LEMMA AccountRestart ==
    ASSUME TypeOK, Accounted, Restart, OneActiveRun'
    PROVE  Accounted'
<1>1. ASSUME NEW id \in RunId PROVE Account(id)'
  <2>1. /\ UNCHANGED <<lastId, rows, request, checked, missed>>
        /\ seen'[id] \subseteq seen[id]
        /\ IF pc[id] \in Owning \cup Leaving THEN pc'[id] = "killed" ELSE pc'[id] = pc[id]
        /\ \A w \in Worker : pool'[id][w].at = "off"
    BY DEF Restart, Forget, WorkerAt, TypeOK
  <2>2. Account(id) /\ pc[id] \in Phase
    BY DEF Accounted, TypeOK
  <2>3. pc'[id] \in {"none", "done", "killed"} /\ (pc'[id] = "none" <=> pc[id] = "none")
    BY <2>1, <2>2 DEF Phase, Owning, Leaving
  <2>4. AllOut(id)'
    BY <2>1 DEF AllOut
  <2>5. pc'[id] = pc[id] \/ pc'[id] = "killed"
    BY <2>1
  <2>6. Numbered(id)' /\ Untouched(id)' /\ Told(id)'
    BY <2>1, <2>2, <2>3, <2>4, <2>5 DEF Account, Numbered, Untouched, Told, Owning
  <2>7. Excluded(id)'
    BY <2>1, <2>2, <2>3 DEF Account, Excluded
  <2>8. Divided(id)' /\ Exact(id)' /\ Answered(id)' /\ Finished(id)'
    BY <2>3 DEF Divided, Exact, Answered, Finished, Sweeping, Swept
  <2> QED BY <2>6, <2>7, <2>8 DEF Account
<1> QED BY <1>1 DEF Accounted

LEMMA AccountNext == TypeOK /\ Accounted /\ [Next]_vars => Accounted'
<1> SUFFICES ASSUME TypeOK, Accounted, [Next]_vars PROVE Accounted'
  OBVIOUS
<1>1. OneActiveRun'
  BY OwnerNext DEF Accounted
<1>2. CASE \E r \in Requests : Start(r)
  BY <1>1, <1>2, AccountStart
<1>3. CASE \E id \in RunId : RunStep(id) \/ Expire(id)
  BY <1>1, <1>3, AccountBegin, AccountExpire, AccountStop, AccountArp, AccountMisses,
     AccountRetire, AccountRecord, AccountAnnounce DEF RunStep
<1>4. CASE \E id \in RunId, w \in Worker : WorkerStep(id, w)
  BY <1>1, <1>4, AccountFeed, AccountWorks, AccountCount, AccountExit DEF WorkerStep
<1>5. CASE Restart
  BY <1>1, <1>5, AccountRestart
<1>6. CASE UNCHANGED vars
  <2>1. \A id \in RunId : Kept(id) /\ status' = status
    BY <1>6 DEF vars, Kept
  <2> QED BY <1>1, <2>1, Elsewhere DEF Accounted
<1> QED BY <1>2, <1>3, <1>4, <1>5, <1>6 DEF Next

LEMMA AlwaysAccounted == Spec => []Accounted
<1>1. Init => Accounted
  <2> SUFFICES ASSUME Init PROVE Accounted
    OBVIOUS
  <2>1. OneActiveRun
    BY DEF Init, OneActiveRun, NoStatus, Owning
  <2>2. ASSUME NEW id \in RunId PROVE Account(id)
    <3>1. /\ pc[id] = "none" /\ rows[id].state = "none" /\ lastId = 0 /\ id > 0
          /\ checked[id] = {} /\ seen[id] = {} /\ missed[id] = {} /\ AllOut(id)
      BY DEF Init, NoRow, RunId, AllOut, WorkerAt
    <3>2. Numbered(id) /\ Untouched(id) /\ Told(id) /\ Excluded(id)
      BY <3>1 DEF Numbered, Untouched, Told, Closed, Excluded, Owning
    <3>3. Divided(id) /\ Exact(id) /\ Answered(id) /\ Finished(id)
      BY <3>1 DEF Divided, Exact, Answered, Finished, Sweeping, Swept
    <3> QED BY <3>2, <3>3 DEF Account
  <2> QED BY <2>1, <2>2 DEF Accounted
<1> QED BY <1>1, AccountNext, TypeCorrect, PTL DEF Spec

\* While a run sweeps, Scanned is exactly the number of distinct addresses
\* counted, and none is lost or handed out twice (the worker pool of run).
THEOREM CountsExact == Spec => []ProgressExact
<1>1. TypeOK /\ Accounted => ProgressExact
  <2> SUFFICES ASSUME TypeOK, Accounted, NEW id \in RunId, pc[id] \in Sweeping
               PROVE  /\ status.scanned = Cardinality(checked[id])
                      /\ status.scanned + Cardinality(Busy(id)) + Cardinality(queue[id])
                             = Cardinality(request[id].hosts)
                      /\ status.found <= Cardinality(seen[id])
    BY DEF ProgressExact, Sweeping
  <2>1. IsFiniteSet(seen[id]) /\ seen[id] \cap checked[id] \in SUBSET seen[id]
    BY Finite
  <2>2. Cardinality(seen[id] \cap checked[id]) <= Cardinality(seen[id])
    BY <2>1, FS_Subset
  <2> QED BY <2>2 DEF Accounted, Account, Exact, Answered
<1> QED BY <1>1, AlwaysAccounted, TypeCorrect, PTL

\* A device that answered a run is not counted as missed by it, however late
\* the worker that asked is (wg.Wait before markMisses).
THEOREM NoAnswerMissed == Spec => []AnsweredNotMissed
<1>1. Accounted => AnsweredNotMissed
  BY DEF Accounted, Account, Excluded, AnsweredNotMissed
<1> QED BY <1>1, AlwaysAccounted, PTL

\* The history entry of a run carries its own figures, whatever run has begun
\* meanwhile (st := s.status, the UPDATE of scan_runs).
THEOREM HistoryIsTrue == Spec => []RowTellsOwnRun
<1>1. TypeOK /\ Accounted => RowTellsOwnRun
  BY DEF Accounted, Account, Told, Closed, Numbered, RowTellsOwnRun
<1> QED BY <1>1, AlwaysAccounted, TypeCorrect, PTL

\* A run listed as completed has checked every host it was to iterate.
THEOREM CompletedIsSwept == Spec => []CompletedMeansSwept
<1>1. Accounted => CompletedMeansSwept
  BY DEF Accounted, Account, Told, Closed, CompletedMeansSwept
<1> QED BY <1>1, AlwaysAccounted, PTL

-----------------------------------------------------------------------------
\* Scanner implements ScanService.

Verdicts == [id \in RunId |-> rows[id].state]
Wanted == [id \in RunId |-> request[id].hosts]

\* Nothing the service shows has changed.
Quiet == /\ rows' = rows /\ request' = request /\ checked' = checked
         /\ status'.running = status.running /\ status'.runId = status.runId

LEMMA QuietStutters == ASSUME Quiet PROVE UNCHANGED Service!vars
  BY DEF Quiet, Service!vars

LEMMA ServiceStart ==
    ASSUME TypeOK, Accounted, NEW r \in Requests, Start(r)
    PROVE  Service!Next
<1>1. lastId + 1 \in RunId /\ lastId \in Nat
  BY ScannerAssumption DEF Start, RunId, TypeOK
<1>2. PICK id \in RunId : id = lastId + 1
  BY <1>1
<1>3. rows[id].state = "none"
  BY <1>1, <1>2 DEF Accounted, Account, Numbered
<1>4. r.hosts \in SUBSET Addr
  BY ScannerAssumption DEF Request
<1>5. /\ ~status.running /\ status'.running /\ status'.runId = id /\ checked' = checked
      /\ rows' = [rows EXCEPT ![id] = [state |-> "running", total |-> r.total,
                                       scanned |-> 0, found |-> 0]]
      /\ request' = [request EXCEPT ![id] = r]
  BY <1>2 DEF Start, MayStart, NoStatus
<1>6. Verdicts' = [Verdicts EXCEPT ![id] = "running"]
  BY <1>5 DEF Verdicts, TypeOK
<1>7. Wanted' = [Wanted EXCEPT ![id] = r.hosts]
  BY <1>5 DEF Wanted, TypeOK
<1>8. Service!Open(id, r.hosts)
  BY <1>3, <1>5, <1>6, <1>7 DEF Service!Open, Service!NoRun, Verdicts, Wanted
<1> QED BY <1>4, <1>8 DEF Service!Next, Service!RunId, RunId

LEMMA ServiceCount ==
    ASSUME TypeOK, Accounted, NEW id \in RunId, NEW w \in Worker, Count(id, w)
    PROVE  Service!Next
<1> DEFINE a == pool[id][w].addr
<1>1. w \in Busy(id) /\ a \in InHand(id) /\ Account(id)
  BY DEF Count, Busy, InHand, Accounted
<1>2. pc[id] \in Sweeping
  BY <1>1 DEF Account, Untouched, AllOut, Busy
<1>3. status.running /\ status.runId = id
  BY <1>2 DEF Accounted, OneActiveRun, Sweeping, Owning
<1>4. a \in request[id].hosts /\ a \notin checked[id] /\ a \in Addr
  BY <1>1, <1>2 DEF Account, Divided, TypeOK, Request
<1>5. /\ status'.running = status.running /\ status'.runId = status.runId
      /\ rows' = rows /\ request' = request
      /\ checked' = [checked EXCEPT ![id] = @ \cup {a}]
  BY DEF Count, TypeOK, Status
<1>6. id # 0
  BY DEF RunId
<1>7. Service!Cover(a)
  BY <1>3, <1>4, <1>5, <1>6 DEF Service!Cover, Service!NoRun
<1> QED BY <1>4, <1>7 DEF Service!Next

LEMMA ServiceStop ==
    ASSUME TypeOK, Accounted, rows' = rows, request' = request, checked' = checked,
           ~status'.running
    PROVE  Service!Next \/ UNCHANGED Service!vars
<1>1. CASE status.running
  <2>1. status.runId # 0
    BY <1>1 DEF Accounted, OneActiveRun, RunId
  <2> QED BY <1>1, <2>1 DEF Service!Next, Service!Stop, Service!NoRun
<1>2. CASE ~status.running
  BY <1>2 DEF Service!vars
<1> QED BY <1>1, <1>2

LEMMA ServiceClose ==
    ASSUME TypeOK, Accounted, NEW id \in RunId, Record(id)
    PROVE  Service!Next \/ UNCHANGED Service!vars
<1>1. /\ UNCHANGED <<status, request, checked>> /\ pc[id] = "record"
  BY DEF Record, runVars
<1>2. CASE rows'[id] = rows[id]
  <2>1. rows' \in [RunId -> Row] /\ rows \in [RunId -> Row]
    BY TypeRunStep DEF RunStep, TypeOK
  <2>2. rows' = rows
    BY <1>2, <2>1, RecordOwn
  <2> QED BY <1>1, <2>2 DEF Service!vars
<1>3. CASE /\ rows'[id].state \in Closed
           /\ rows'[id].state = "completed" => ~snapshot[id].error
  <2>1. /\ rows[id].state = "running"
        /\ snapshot[id].error \/ checked[id] = request[id].hosts
    BY <1>1 DEF Accounted, Account, Numbered, Finished
  <2>2. status.running => status.runId # id
    BY <1>1 DEF Accounted, OneActiveRun, Owning
  <2>3. Verdicts' = [Verdicts EXCEPT ![id] = rows'[id].state]
    BY RecordOwn DEF Verdicts
  <2>4. /\ rows'[id].state \in {"completed", "failed"}
        /\ rows'[id].state = "completed" => checked[id] = Wanted[id]
    BY <1>3, <2>1 DEF Closed, Wanted
  <2>5. id # 0
    BY DEF RunId
  <2>6. Service!Close(id)
    BY <1>1, <2>1, <2>2, <2>3, <2>4, <2>5 DEF Service!Close, Verdicts, Wanted
  <2> QED BY <2>6 DEF Service!Next, Service!RunId, RunId
<1> QED BY <1>2, <1>3, RecordOwn

LEMMA ServiceNext ==
    TypeOK /\ Accounted /\ [Next]_vars => [Service!Next]_(Service!vars)
<1> SUFFICES ASSUME TypeOK, Accounted, [Next]_vars
             PROVE  Service!Next \/ UNCHANGED Service!vars
  OBVIOUS
<1>1. CASE \E r \in Requests : Start(r)
  BY <1>1, ServiceStart
<1>2. ASSUME NEW id \in RunId, RunStep(id) \/ Expire(id)
      PROVE  Service!Next \/ UNCHANGED Service!vars
  <2>1. CASE Record(id)
    BY <2>1, ServiceClose
  <2>2. CASE Retire(id)
    <3>1. ~status'.running /\ UNCHANGED <<rows, request, checked>>
      BY <2>2 DEF Retire, TypeOK, Status
    <3> QED BY <3>1, ServiceStop
  <2>3. CASE ~Record(id) /\ ~Retire(id)
    <3>1. Quiet
      BY <1>2, <2>3
      DEF RunStep, Begin, StopFeeding, Join, ArpFind, ArpDone, MarkMisses, EnsureCore,
          Announce, Expire, Quiet, runVars, TypeOK, Status
    <3> QED BY <3>1, QuietStutters
  <2> QED BY <2>1, <2>2, <2>3
<1>3. ASSUME NEW id \in RunId, NEW w \in Worker, WorkerStep(id, w)
      PROVE  Service!Next \/ UNCHANGED Service!vars
  <2>1. CASE Count(id, w)
    BY <2>1, ServiceCount
  <2>2. CASE ~Count(id, w)
    <3>1. Quiet
      BY <1>3, <2>2 DEF WorkerStep, Feed, Probe, Upsert, Exit, Quiet
    <3> QED BY <3>1, QuietStutters
  <2> QED BY <2>1, <2>2
<1>4. CASE Restart
  <2>1. ~status'.running /\ UNCHANGED <<rows, request, checked>>
    BY <1>4 DEF Restart, NoStatus
  <2> QED BY <2>1, ServiceStop
<1>5. CASE UNCHANGED vars
  <2>1. Quiet
    BY <1>5 DEF vars, Quiet
  <2> QED BY <2>1, QuietStutters
<1> QED BY <1>1, <1>2, <1>3, <1>4, <1>5 DEF Next

\* Every behaviour of the scan engine is one of the service it promises: one
\* run at a time, each closed once, "completed" only if all was covered.
THEOREM EngineImplementsService == Spec => ImplementsService
<1>1. Init => Service!Init
  <2> SUFFICES ASSUME Init PROVE Service!Init
    OBVIOUS
  <2>1. /\ ~status.running /\ \A id \in RunId : rows[id].state = "none"
        /\ \A id \in RunId : request[id].hosts = {} /\ checked[id] = {}
        /\ checked = [id \in RunId |-> {}]
    BY DEF Init, NoStatus, NoRow, NoRequest
  <2> QED BY <2>1 DEF Service!Init, Service!NoRun, Service!RunId, RunId
<1> QED BY <1>1, ServiceNext, AlwaysAccounted, TypeCorrect, PTL
        DEF Spec, ImplementsService, Service!Spec
=============================================================================
