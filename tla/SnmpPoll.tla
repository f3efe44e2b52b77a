------------------------------ MODULE SnmpPoll ------------------------------
(***************************************************************************)
(* Polling of managed network devices (internal/app/snmp.go: Poll;         *)
(* snmp_store.go; server_snmp.go).                                         *)
(*                                                                         *)
(* A poll is started by the end of a scan and by the user.  It reads the   *)
(* targets once, under the mutex that also guards the summary, and works   *)
(* on them without it, while requests create, change, test and delete      *)
(* targets.  What a poll does to devices and connections is in Presence    *)
(* and Topology; here it counts as failed, partial (no LLDP) or ok.        *)
(*                                                                         *)
(* A restore opens another database and makes another SNMPDiscovery: a     *)
(* poll or a request of an earlier generation works on a closed database.  *)
(* Bug... operators are faulty forms of the definition below them.         *)
(***************************************************************************)
EXTENDS Naturals, FiniteSets

CONSTANTS
    Poller,   \* goroutines and requests that call Poll
    Handler,  \* requests about targets that are served at a time
    Limit,    \* how many targets may be configured (32)
    MaxId,    \* bound: targets ever created
    MaxGen    \* bound: restores

ASSUME SnmpAssumption ==
    /\ Limit \in Nat \ {0} /\ MaxId \in Nat /\ MaxGen \in Nat
    /\ IsFiniteSet(Handler)

VARIABLES
    targets,  \* the snmp_targets table: id -> row
    lastId,   \* the table's AUTOINCREMENT counter
    gen,      \* which SNMPDiscovery and database the server uses
    status,   \* SNMPDiscovery.status, per generation
    poll,     \* per poller: its locals
    req,      \* per handler: where it stands, and its locals
    touched   \* history: since the last poll began something else wrote to
              \* the table, or a status was lost

vars == <<targets, lastId, gen, status, poll, req, touched>>

Id == 1 .. MaxId
Outcome == {"failed", "partial", "ok"}
Row == [enabled : BOOLEAN, last : Outcome \cup {""}]
NoStatus == [running |-> FALSE, targets |-> 0, successful |-> 0]
Idle == [at |-> "idle"]

Targets == DOMAIN targets
Enabled == {i \in Targets : targets[i].enabled}
Put(f, k, v) == [x \in DOMAIN f \cup {k} |-> IF x = k THEN v ELSE f[x]]
Goto(h, r) == req' = [req EXCEPT ![h] = r]

Init == /\ targets = <<>> /\ lastId = 0
        /\ gen = 0 /\ status = [g \in 0 .. MaxGen |-> NoStatus]
        /\ poll = [p \in Poller |-> Idle]
        /\ req = [h \in Handler |-> Idle]
        /\ touched = FALSE

-----------------------------------------------------------------------------
\* Poll.

BugMayPoll == TRUE
MayPoll == ~status[gen].running

\* Under the mutex: the check, the read of the targets, the new summary.
Begin(p) ==
    /\ poll[p] = Idle
    /\ MayPoll
    /\ poll' = [poll EXCEPT ![p] =
                  [at |-> "polling", gen |-> gen, rest |-> Enabled,
                   targets |-> Cardinality(Enabled), successful |-> 0]]
    /\ status' = [status EXCEPT ![gen] =
                    [running |-> TRUE, targets |-> Cardinality(Enabled), successful |-> 0]]
    /\ touched' = FALSE
    /\ UNCHANGED <<targets, lastId, gen, req>>

BugCounted(outcome) == IF outcome = "ok" THEN 1 ELSE 0
Counted(outcome) == IF outcome = "failed" THEN 0 ELSE 1

\* updateSNMPTargetStatus: no row, or a closed database, is no error here.
Stored(i, g, outcome) ==
    IF i \in Targets /\ g = gen
    THEN [targets EXCEPT ![i].last = outcome] ELSE targets

\* pollTarget and the status of the target, the error of which is ignored.
\* (The order of the targets, by address, is left open.)
PollTarget(p) ==
    /\ poll[p].at = "polling"
    /\ \E i \in poll[p].rest, outcome \in Outcome :
          /\ poll' = [poll EXCEPT ![p].rest = @ \ {i},
                                  ![p].successful = @ + Counted(outcome)]
          /\ \/ targets' = Stored(i, poll[p].gen, outcome) /\ UNCHANGED touched
             \/ touched' = TRUE /\ UNCHANGED targets
    /\ UNCHANGED <<lastId, gen, status, req>>

\* Under the mutex again: the summary is replaced by the local one.
Finish(p) ==
    LET q == poll[p] IN
    /\ q.at = "polling" /\ q.rest = {}
    /\ status' = [status EXCEPT ![q.gen] =
                    [running |-> FALSE, targets |-> q.targets,
                     successful |-> q.successful]]
    /\ poll' = [poll EXCEPT ![p] = Idle]
    /\ UNCHANGED <<targets, lastId, gen, req, touched>>

-----------------------------------------------------------------------------
\* saveSNMPTarget, deleteSNMPTarget, testSNMPTarget.

BugRoom == TRUE
\* SELECT COUNT(*); count >= 32 is refused.
Room == Cardinality(Targets) < Limit

CountTargets(h) ==
    /\ req[h] = Idle
    /\ Room
    /\ Goto(h, [at |-> "insert", gen |-> gen])
    /\ UNCHANGED <<targets, lastId, gen, status, poll, touched>>

\* The INSERT may also be refused: the address is UNIQUE, the database closed.
Insert(h) ==
    /\ req[h].at = "insert"
    /\ \/ /\ req[h].gen = gen /\ lastId < MaxId
          /\ lastId' = lastId + 1
          /\ \E e \in BOOLEAN :
                targets' = Put(targets, lastId', [enabled |-> e, last |-> ""])
          /\ touched' = TRUE
       \/ UNCHANGED <<targets, lastId, touched>>
    /\ Goto(h, Idle)
    /\ UNCHANGED <<gen, status, poll>>

\* The row is read first, for the secrets that are left blank or for the
\* connection that is tested.
ReadTarget(h) ==
    /\ req[h] = Idle
    /\ \E i \in Targets, then \in {"update", "test"} :
          Goto(h, [at |-> then, gen |-> gen, id |-> i])
    /\ UNCHANGED <<targets, lastId, gen, status, poll, touched>>

\* The UPDATE leaves last_status alone.
Update(h) ==
    LET i == req[h].id IN
    /\ req[h].at = "update"
    /\ IF i \in Targets /\ req[h].gen = gen
       THEN \E e \in BOOLEAN : targets' = [targets EXCEPT ![i].enabled = e]
       ELSE UNCHANGED targets
    /\ touched' = TRUE
    /\ Goto(h, Idle)
    /\ UNCHANGED <<lastId, gen, status, poll>>

Test(h) ==
    /\ req[h].at = "test"
    /\ \E outcome \in {"failed", "ok"} :
          targets' = Stored(req[h].id, req[h].gen, outcome)
    /\ touched' = TRUE
    /\ Goto(h, Idle)
    /\ UNCHANGED <<lastId, gen, status, poll>>

Delete == /\ \E i \in Targets : targets' = [j \in Targets \ {i} |-> targets[j]]
          /\ touched' = TRUE
          /\ UNCHANGED <<lastId, gen, status, poll, req>>

-----------------------------------------------------------------------------
\* restore: another database, and a new SNMPDiscovery beside the old one.
\* The backup holds some of the targets there are.
Restore == /\ gen < MaxGen
           /\ gen' = gen + 1
           /\ \E S \in SUBSET Targets : targets' = [i \in S |-> targets[i]]
           /\ touched' = TRUE
           /\ UNCHANGED <<lastId, status, poll, req>>

Serve(h) == \/ CountTargets(h) \/ Insert(h)
            \/ ReadTarget(h) \/ Update(h) \/ Test(h)

Next == \/ \E p \in Poller : Begin(p) \/ PollTarget(p) \/ Finish(p)
        \/ \E h \in Handler : Serve(h)
        \/ Delete \/ Restore

Spec == Init /\ [][Next]_vars

-----------------------------------------------------------------------------

\* Every variable holds a value of its kind.
TypeOK ==
    /\ Targets \subseteq 1 .. lastId /\ targets \in [Targets -> Row]
    /\ lastId \in 0 .. MaxId /\ gen \in 0 .. MaxGen
    /\ status \in [0 .. MaxGen -> [running : BOOLEAN, targets : Nat, successful : Nat]]
    /\ poll \in [Poller -> {Idle} \cup [at : {"polling"}, gen : 0 .. gen,
                                        rest : SUBSET Id, targets : Nat,
                                        successful : Nat]]
    /\ req \in [Handler -> {Idle} \cup [at : {"insert"}, gen : 0 .. gen]
                           \cup [at : {"update", "test"}, gen : 0 .. gen, id : Id]]
    /\ touched \in BOOLEAN

Polling(p) == poll[p].at = "polling"

\* The flag in the summary is the lock: there is one poll at a time in each
\* SNMPDiscovery, whatever a restore leaves running beside it, and the flag is
\* set exactly while there is one.
OnePoll ==
    /\ \A p, q \in Poller : Polling(p) /\ Polling(q) /\ poll[p].gen = poll[q].gen
                               => p = q
    /\ \A g \in 0 .. MaxGen :
          status[g].running <=> \E p \in Poller : Polling(p) /\ poll[p].gen = g

\* The settings page shows the summary above the list of targets.  After a
\* poll the two agree, unless something else wrote to the list or a status
\* could not be stored.
SummaryMatchesTargets ==
    LET s == status[gen]
        With(S) == Cardinality({i \in Enabled : targets[i].last \in S}) IN
    ~s.running /\ ~touched /\ s # NoStatus
       => With({"ok", "partial"}) = s.successful /\ With(Outcome) = s.targets

\* The count and the insertion of a new target are two statements, so the
\* limit can be passed; but only by as many as were let in together.
OvershootBounded == Cardinality(Targets) <= Limit + Cardinality(Handler) - 1

-----------------------------------------------------------------------------
\* What the program's words say and the code does not do.

\* snmp_store.go:57: at most 32 managed devices can be configured.
LimitKept == Cardinality(Targets) <= Limit
=============================================================================
