------------------------------ MODULE Scanner ------------------------------
(***************************************************************************)
(* The scan engine (internal/app/scanner.go): Start, the goroutine it      *)
(* spawns for the run, the feeder loop and the worker pool behind an       *)
(* unbuffered channel, the deadline of the run's context, the ARP pass,    *)
(* markMisses, ensureCore, and the way the run leaves the scene: Running   *)
(* is cleared first, the scan_runs row is updated afterwards.              *)
(*                                                                         *)
(* Addresses are abstract.  A request is a list of CIDRs that Start has    *)
(* accepted: the addresses the feeder iterates (hosts), the addresses the  *)
(* networks contain (span), and the total that validateCIDR counted.       *)
(* NetworkRange.tla derives these three from the arithmetic.  The total    *)
(* may be less than the hosts, zero or negative: see there.                *)
(*                                                                         *)
(* An operator whose name starts with Bug is not part of the model: it is  *)
(* the faulty form of the definition below it, kept to show that the       *)
(* properties notice the fault.                                            *)
(***************************************************************************)
EXTENDS Integers, FiniteSets

CONSTANTS
    Addr,            \* IPv4 addresses a device may have
    NoAddr,          \* "no address in hand"
    Requests,        \* accepted scan requests
    Gateways,        \* values the gateway_ip setting may have
    MaxConcurrency,  \* bound on cfg.Concurrency
    MaxRuns,         \* bound on the number of scans started
    Faults           \* may the database refuse a statement?

Request == [hosts : SUBSET Addr, span : SUBSET Addr, total : Int]

ASSUME ScannerAssumption ==
    /\ IsFiniteSet(Addr)
    /\ NoAddr \notin Addr
    /\ \A r \in Requests : /\ r \in Request
                           /\ r.hosts \subseteq r.span
    /\ Gateways \subseteq Addr
    /\ MaxConcurrency \in Nat \ {0}
    /\ MaxRuns \in Nat
    /\ Faults \in BOOLEAN

RunId  == 1 .. MaxRuns
Worker == 1 .. MaxConcurrency

VARIABLES
    status,    \* Scanner.status, guarded by Scanner.mu
    lastId,    \* highest id of the scan_runs table
    rows,      \* the scan_runs table
    pc,        \* where the goroutine of each run stands
    request,   \* what each run was asked to scan (nets)
    queue,     \* addresses the feeder has still to hand out
    pool,      \* the workers of each run
    expired,   \* has the run's context passed its deadline?
    seen,      \* the run's seen map
    checked,   \* history: addresses whose probe the run has counted
    snapshot,  \* st, the copy of status taken when the run retires
    known,     \* addresses of stored devices that markMisses may touch
    missed     \* addresses against which the run counted a miss

vars == <<status, lastId, rows, pc, request, queue, pool, expired, seen,
          checked, snapshot, known, missed>>

\* Everything but the shared status: the local state of run goroutines.
runVars == <<request, queue, pool, expired, seen, checked, snapshot>>

-----------------------------------------------------------------------------
\* Types.

Status == [running : BOOLEAN, runId : 0 .. MaxRuns, total : Int,
           scanned : Nat, found : Nat, error : BOOLEAN]

NoStatus == [running |-> FALSE, runId |-> 0, total |-> 0,
             scanned |-> 0, found |-> 0, error |-> FALSE]

RowState == {"none", "running", "completed", "failed"}
Row == [state : RowState, total : Int, scanned : Nat, found : Nat]
NoRow == [state |-> "none", total |-> 0, scanned |-> 0, found |-> 0]

\* The phases of run(), in program order.
Owning == {"spawned", "sweep", "drain", "arp", "misses", "core", "retire"}
Leaving == {"record", "announce"}
Phase == {"none", "done", "killed"} \cup Owning \cup Leaving

WorkerState ==
    [at : {"off", "idle"}, addr : {NoAddr}, alive : {FALSE}]
    \cup [at : {"probe", "store", "count"}, addr : Addr, alive : BOOLEAN]

WorkerAt(at) == [at |-> at, addr |-> NoAddr, alive |-> FALSE]

NoRequest == [hosts |-> {}, span |-> {}, total |-> 0]

\* The outcomes of a database statement whose error the code ignores.
Outcome == IF Faults THEN BOOLEAN ELSE {TRUE}

Busy(id) == {w \in Worker : pool[id][w].at \in {"probe", "store", "count"}}
InHand(id) == {pool[id][w].addr : w \in Busy(id)}

-----------------------------------------------------------------------------

Init ==
    /\ status   = NoStatus
    /\ lastId   = 0
    /\ rows     = [id \in RunId |-> NoRow]
    /\ pc       = [id \in RunId |-> "none"]
    /\ request  = [id \in RunId |-> NoRequest]
    /\ queue    = [id \in RunId |-> {}]
    /\ pool     = [id \in RunId |-> [w \in Worker |-> WorkerAt("off")]]
    /\ expired  = [id \in RunId |-> FALSE]
    /\ seen     = [id \in RunId |-> {}]
    /\ checked  = [id \in RunId |-> {}]
    /\ snapshot = [id \in RunId |-> NoStatus]
    /\ known \in SUBSET Addr      \* what earlier sessions have stored
    /\ missed   = [id \in RunId |-> {}]

\* The guard of Start.
BugMayStart == TRUE
MayStart == ~status.running

\* Start: under mu, refuse a second run, insert the row, spawn the goroutine.
\* The goroutine cannot read anything before mu is released.
Start(r) ==
    LET id == lastId + 1 IN
    /\ MayStart
    /\ lastId < MaxRuns
    /\ lastId'  = id
    /\ rows'    = [rows EXCEPT ![id] = [state |-> "running", total |-> r.total,
                                        scanned |-> 0, found |-> 0]]
    /\ status'  = [NoStatus EXCEPT !.running = TRUE, !.runId = id,
                                   !.total = r.total]
    /\ request' = [request EXCEPT ![id] = r]
    /\ pc'      = [pc EXCEPT ![id] = "spawned"]
    /\ UNCHANGED <<queue, pool, expired, seen, checked, snapshot, known, missed>>

\* run reads cfg and the total, arms the deadline and starts
\* min(cfg.Concurrency, total) workers, none if that is not positive.
Begin(id) ==
    /\ pc[id] = "spawned"
    /\ \E n \in Worker :
          pool' = [pool EXCEPT ![id] =
             [w \in Worker |-> WorkerAt(IF w <= n /\ w <= status.total
                                        THEN "idle" ELSE "off")]]
    /\ queue' = [queue EXCEPT ![id] = request[id].hosts]
    /\ pc'    = [pc EXCEPT ![id] = "sweep"]
    /\ UNCHANGED <<status, lastId, rows, request, expired, seen, checked,
                   snapshot, known, missed>>

\* The deadline passes while the run still holds its context.
Expire(id) ==
    /\ pc[id] \in Owning \ {"spawned"}
    /\ ~expired[id]
    /\ expired' = [expired EXCEPT ![id] = TRUE]
    /\ UNCHANGED <<status, lastId, rows, pc, request, queue, pool, seen,
                   checked, snapshot, known, missed>>

\* What is left to hand out once an address has been sent.
BugLeft(id, a) == IF a \in seen[id] THEN queue[id] \ {a} ELSE queue[id]
Left(id, a) == queue[id] \ {a}

\* jobs <- address: the unbuffered send meets an idle worker.
Feed(id, w) ==
    /\ pc[id] = "sweep"
    /\ pool[id][w].at = "idle"
    /\ \E a \in queue[id] :
          /\ queue' = [queue EXCEPT ![id] = Left(id, a)]
          /\ pool'  = [pool EXCEPT ![id][w] =
                          [at |-> "probe", addr |-> a, alive |-> FALSE]]
    /\ UNCHANGED <<status, lastId, rows, pc, request, expired, seen, checked,
                   snapshot, known, missed>>

\* The feeder loop is over.
BugFed(id) == expired[id]
Fed(id) == queue[id] = {} \/ expired[id]

\* The feeder has sent everything, or takes the ctx.Done branch; close(jobs).
StopFeeding(id) ==
    /\ pc[id] = "sweep"
    /\ Fed(id)
    /\ pc' = [pc EXCEPT ![id] = "drain"]
    /\ UNCHANGED <<status, lastId, rows, runVars, known, missed>>

\* probeTarget and arpMAC return; an answer is put into seen first.
Probe(id, w) ==
    /\ pool[id][w].at = "probe"
    /\ \/ /\ pool' = [pool EXCEPT ![id][w] =
                          [@ EXCEPT !.at = "store", !.alive = TRUE]]
          /\ seen' = [seen EXCEPT ![id] = @ \cup {pool[id][w].addr}]
       \/ /\ pool' = [pool EXCEPT ![id][w].at = "count"]
          /\ UNCHANGED seen
    /\ UNCHANGED <<status, lastId, rows, pc, request, queue, expired, checked,
                   snapshot, known, missed>>

\* upsertSeen; its error is dropped.
Upsert(id, w) ==
    /\ pool[id][w].at = "store"
    /\ \E ok \in Outcome :
          known' = IF ok THEN known \cup {pool[id][w].addr} ELSE known
    /\ pool' = [pool EXCEPT ![id][w].at = "count"]
    /\ UNCHANGED <<status, lastId, rows, pc, request, queue, expired, seen,
                   checked, snapshot, missed>>

\* Scanned++ and Found++ of whatever status is there, under mu.
Count(id, w) ==
    LET s == pool[id][w] IN
    /\ s.at = "count"
    /\ status'  = [status EXCEPT !.scanned = @ + 1,
                                 !.found = IF s.alive THEN @ + 1 ELSE @]
    /\ checked' = [checked EXCEPT ![id] = @ \cup {s.addr}]
    /\ pool'    = [pool EXCEPT ![id][w] = WorkerAt("idle")]
    /\ UNCHANGED <<lastId, rows, pc, request, queue, expired, seen, snapshot,
                   known, missed>>

\* range over the closed channel ends; wg.Done.
Exit(id, w) ==
    /\ pc[id] = "drain"
    /\ pool[id][w].at = "idle"
    /\ pool' = [pool EXCEPT ![id][w] = WorkerAt("off")]
    /\ UNCHANGED <<status, lastId, rows, pc, request, queue, expired, seen,
                   checked, snapshot, known, missed>>

\* Every worker has called wg.Done.
BugAllOut(id) == queue[id] = {}
AllOut(id) == \A w \in Worker : pool[id][w].at = "off"

\* wg.Wait returns.
Join(id) ==
    /\ pc[id] = "drain"
    /\ AllOut(id)
    /\ pc' = [pc EXCEPT ![id] = "arp"]
    /\ UNCHANGED <<status, lastId, rows, runVars, known, missed>>

\* One neighbour of the kernel's ARP table that lies in the scanned networks
\* and did not answer a probe.
ArpFind(id) ==
    /\ pc[id] = "arp"
    /\ \E a \in request[id].span \ seen[id], ok \in Outcome :
          /\ seen'   = [seen EXCEPT ![id] = @ \cup {a}]
          /\ known'  = IF ok THEN known \cup {a} ELSE known
          /\ status' = IF ok THEN [status EXCEPT !.found = @ + 1] ELSE status
    /\ UNCHANGED <<lastId, rows, pc, request, queue, pool, expired, checked,
                   snapshot, missed>>

ArpDone(id) ==
    /\ pc[id] = "arp"
    /\ pc' = [pc EXCEPT ![id] = "misses"]
    /\ UNCHANGED <<status, lastId, rows, runVars, known, missed>>

\* The devices markMisses counts a miss against.
Unseen(id) == known \ seen[id]

\* markMisses goes through every stored device whose address is not in seen;
\* an error ends it early.  Presence.tla opens this step up.
MarkMisses(id) ==
    /\ pc[id] = "misses"
    /\ \E m \in IF Faults THEN SUBSET Unseen(id) ELSE {Unseen(id)} :
          missed' = [missed EXCEPT ![id] = m]
    /\ pc' = [pc EXCEPT ![id] = "core"]
    /\ UNCHANGED <<status, lastId, rows, runVars, known>>

\* ensureCore, if a gateway is configured: the gateway becomes a stored device.
EnsureCore(id) ==
    /\ pc[id] = "core"
    /\ \E g \in {{}} \cup {{a} : a \in Gateways} : known' = known \cup g
    /\ pc' = [pc EXCEPT ![id] = "retire"]
    /\ UNCHANGED <<status, lastId, rows, runVars, missed>>

\* Running = false, Error from the context, st := s.status, all under mu.
Retire(id) ==
    /\ pc[id] = "retire"
    /\ status'   = [status EXCEPT !.running = FALSE, !.error = expired[id]]
    /\ snapshot' = [snapshot EXCEPT ![id] = status']
    /\ pc'       = [pc EXCEPT ![id] = "record"]
    /\ UNCHANGED <<lastId, rows, request, queue, pool, expired, seen, checked,
                   known, missed>>

\* The status the row is written from: the copy st, not s.status.
BugRecorded(id) == status
Recorded(id) == snapshot[id]

BugVerdict(st) == IF st.found = 0 THEN "failed" ELSE "completed"
\* The word the history entry is closed with.
Verdict(st) == IF st.error THEN "failed" ELSE "completed"

\* UPDATE scan_runs ... WHERE id=st.RunID, error dropped.
Record(id) ==
    LET st == Recorded(id) IN
    /\ pc[id] = "record"
    /\ \E ok \in Outcome :
          rows' = IF ok
                  THEN [rows EXCEPT ![st.runId] =
                         [@ EXCEPT !.state = Verdict(st),
                                   !.scanned = st.scanned, !.found = st.found]]
                  ELSE rows
    /\ pc' = [pc EXCEPT ![id] = "announce"]
    /\ UNCHANGED <<status, lastId, runVars, known, missed>>

\* The locals of ended goroutines are gone.
Forget(ids) ==
    /\ queue'    = [id \in RunId |-> IF id \in ids THEN {} ELSE queue[id]]
    /\ expired'  = [id \in RunId |-> id \notin ids /\ expired[id]]
    /\ seen'     = [id \in RunId |-> IF id \in ids THEN {} ELSE seen[id]]
    /\ snapshot' = [id \in RunId |-> IF id \in ids THEN NoStatus ELSE snapshot[id]]

\* Emit scan_completed, start NotifyScan and the SNMP poll; the goroutine ends.
Announce(id) ==
    /\ pc[id] = "announce"
    /\ pc' = [pc EXCEPT ![id] = "done"]
    /\ Forget({id})
    /\ UNCHANGED <<status, lastId, rows, request, pool, checked, known, missed>>

\* The process dies and starts again: memory is gone, the database stays.
\* Nothing at start-up looks at scan_runs.
Restart ==
    LET live == {id \in RunId : pc[id] \in Owning \cup Leaving} IN
    /\ live # {}
    /\ status' = NoStatus
    /\ pc'    = [id \in RunId |-> IF id \in live THEN "killed" ELSE pc[id]]
    /\ pool'  = [id \in RunId |-> [w \in Worker |-> WorkerAt("off")]]
    /\ Forget(live)
    /\ UNCHANGED <<lastId, rows, request, checked, known, missed>>

WorkerStep(id, w) == \/ Feed(id, w) \/ Probe(id, w) \/ Upsert(id, w)
                     \/ Count(id, w) \/ Exit(id, w)

RunStep(id) == \/ Begin(id) \/ StopFeeding(id) \/ Join(id) \/ ArpFind(id)
               \/ ArpDone(id) \/ MarkMisses(id) \/ EnsureCore(id)
               \/ Retire(id) \/ Record(id) \/ Announce(id)

Next == \/ \E r \in Requests : Start(r)
        \/ \E id \in RunId : RunStep(id) \/ Expire(id)
        \/ \E id \in RunId, w \in Worker : WorkerStep(id, w)
        \/ Restart

Spec == Init /\ [][Next]_vars

\* Goroutines are scheduled, and every probe, lookup and statement has a
\* time-out of its own.  Nothing forces a request, a deadline or a crash.
Fairness ==
    \A id \in RunId : /\ WF_vars(RunStep(id))
                      /\ \A w \in Worker : WF_vars(WorkerStep(id, w))

FairSpec == Spec /\ Fairness

-----------------------------------------------------------------------------
\* Safety.

\* Every variable holds a value of its kind.
TypeOK ==
    /\ status   \in Status
    /\ lastId   \in 0 .. MaxRuns
    /\ rows     \in [RunId -> Row]
    /\ pc       \in [RunId -> Phase]
    /\ request  \in [RunId -> Request]
    /\ queue    \in [RunId -> SUBSET Addr]
    /\ pool     \in [RunId -> [Worker -> WorkerState]]
    /\ expired  \in [RunId -> BOOLEAN]
    /\ seen     \in [RunId -> SUBSET Addr]
    /\ checked  \in [RunId -> SUBSET Addr]
    /\ snapshot \in [RunId -> Status]
    /\ known    \in SUBSET Addr
    /\ missed   \in [RunId -> SUBSET Addr]

\* Only one scan task runs at a time, and the status the API shows is the
\* status of that task: a goroutine that may still write to Scanner.status
\* (spawned up to and including retire) is the run the status names.
OneActiveRun ==
    /\ \A id \in RunId : pc[id] \in Owning => status.running /\ status.runId = id
    /\ status.running => \E id \in RunId : pc[id] \in Owning

\* While a run sweeps, Scanned is exactly the number of distinct addresses
\* whose probe has been counted: no address is handed out twice, none is
\* counted for another run, none is lost between the feeder and a worker.
ProgressExact ==
    \A id \in RunId : pc[id] \in {"sweep", "drain"} =>
        /\ status.scanned = Cardinality(checked[id])
        /\ status.scanned + Cardinality(Busy(id)) + Cardinality(queue[id])
               = Cardinality(request[id].hosts)
        /\ status.found <= Cardinality(seen[id])

\* A device that answered the run, by a probe or through the ARP table, is
\* not counted as missed by the same run: markMisses reads seen only after
\* the last worker is out.
AnsweredNotMissed ==
    \A id \in RunId : missed[id] \cap seen[id] = {}

\* The row a run leaves in the history carries that run's own figures, even
\* when the next run has started between Running = false and the UPDATE.
RowTellsOwnRun ==
    \A id \in RunId : rows[id].state \in {"completed", "failed"} =>
        /\ pc[id] \in {"announce", "done", "killed"}
        /\ rows[id].scanned = Cardinality(checked[id])
        /\ rows[id].total = request[id].total

\* A scan listed as completed has checked every address it set out to
\* iterate: a sweep cut short by the deadline is listed as failed.
CompletedMeansSwept ==
    \A id \in RunId : rows[id].state = "completed" =>
        checked[id] = request[id].hosts

-----------------------------------------------------------------------------
\* Liveness, under FairSpec.

\* A started scan leaves the running state, whatever the deadline does.
RunEnds == \A id \in RunId :
    pc[id] = "spawned" ~> pc[id] \in {"done", "killed"}

\* If the database takes every statement, the entry of a run that was not
\* killed by a restart ends up closed.
RowSettles == \A id \in RunId :
    rows[id].state = "running" ~> \/ rows[id].state \in {"completed", "failed"}
                                  \/ pc[id] = "killed"

-----------------------------------------------------------------------------
\* Refinement.

\* The one-run-at-a-time service is implemented: a run is current while
\* Scanner.status says so, its verdict is its row in scan_runs.
Service == INSTANCE ScanService WITH
    current <- IF status.running THEN status.runId ELSE 0,
    verdict <- [id \in RunId |-> rows[id].state],
    wanted  <- [id \in RunId |-> request[id].hosts],
    covered <- checked

\* Every behaviour of the scan engine is one the service allows.
ImplementsService == Service!Spec

-----------------------------------------------------------------------------
\* What the documentation says and the code does not do.

\* README.md:235, "连续失败达到设置阈值后才判定离线": a failure is a failed
\* contact, so a run counts a miss only against an address it has scanned.
MissesInRange ==
    \A id \in RunId : missed[id] \subseteq request[id].span
=============================================================================
