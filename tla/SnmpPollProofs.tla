--------------------------- MODULE SnmpPollProofs ---------------------------
(***************************************************************************)
(* Theorems about the polling of managed devices, for any number of        *)
(* pollers, requests, targets and restores.                                *)
(***************************************************************************)
EXTENDS SnmpPoll, FiniteSetTheorems, TLAPS

-----------------------------------------------------------------------------
\* Facts about the values the actions build.

\* The kinds of locals, as TypeOK has them.
Polls == [at : {"polling"}, gen : 0 .. gen, rest : SUBSET Id, targets : Nat,
          successful : Nat]
Inserts == [at : {"insert"}, gen : 0 .. gen]
Edits == [at : {"update", "test"}, gen : 0 .. gen, id : Id]
Requests == {Idle} \cup Inserts \cup Edits

\* What the locals hold in each stage.
LEMMA PollStages ==
    ASSUME TypeOK, NEW p \in Poller, Polling(p)
    PROVE  poll[p] \in Polls
  BY DEF TypeOK, Polling, Polls, Idle

LEMMA RequestStages ==
    ASSUME TypeOK, NEW h \in Handler
    PROVE  /\ req[h] \in Requests
           /\ req[h].at = "insert" => req[h] \in Inserts
           /\ req[h].at \in {"update", "test"} => req[h] \in Edits
  BY DEF TypeOK, Requests, Idle, Inserts, Edits

\* There are finitely many targets.
LEMMA TargetsFinite ==
    ASSUME TypeOK
    PROVE  IsFiniteSet(Targets) /\ IsFiniteSet(Enabled)
<1>1. IsFiniteSet(1 .. lastId)
  BY FS_Interval, SnmpAssumption DEF TypeOK
<1>2. IsFiniteSet(Targets)
  BY <1>1, FS_Subset DEF TypeOK
<1> QED BY <1>2, FS_Subset DEF Enabled

\* The row of one target changes, or none.
LEMMA StoredTyped ==
    ASSUME TypeOK, NEW i, NEW g, NEW o \in Outcome
    PROVE  Stored(i, g, o) \in [Targets -> Row]
<1>1. CASE i \in Targets /\ g = gen
  <2>1. targets[i] \in Row
    BY <1>1 DEF TypeOK
  <2>2. [targets[i] EXCEPT !.last = o] \in Row
    BY <2>1 DEF Row
  <2> QED BY <1>1, <2>2 DEF Stored, TypeOK
<1>2. CASE ~(i \in Targets /\ g = gen)
  BY <1>2 DEF Stored, TypeOK
<1> QED BY <1>1, <1>2

-----------------------------------------------------------------------------
\* Type correctness.

\* A request that moves on beside tables that are of their type.
LEMMA RequestMoves ==
    ASSUME TypeOK, NEW h \in Handler, NEW r \in Requests, Goto(h, r)
    PROVE  /\ req' \in [Handler -> Requests]
           /\ req'[h] = r /\ \A g \in Handler \ {h} : req'[g] = req[g]
  BY DEF Goto, TypeOK, Requests, Idle, Inserts, Edits

\* A step that leaves the generation alone.
LEMMA TypeKept ==
    ASSUME TypeOK, UNCHANGED gen, lastId' \in 0 .. MaxId,
           Targets' \subseteq 1 .. lastId', targets' \in [Targets' -> Row],
           status' \in [0 .. MaxGen -> [running : BOOLEAN, targets : Nat, successful : Nat]],
           poll' \in [Poller -> {Idle} \cup Polls], req' \in [Handler -> Requests],
           touched' \in BOOLEAN
    PROVE  TypeOK'
  BY DEF TypeOK, Polls, Requests, Inserts, Edits

\* A step of a poll.
LEMMA TypePolls ==
    ASSUME TypeOK, NEW p \in Poller, Begin(p) \/ PollTarget(p) \/ Finish(p)
    PROVE  TypeOK'
<1> USE DEF Targets
<1>1. CASE Begin(p)
  <2>1. Cardinality(Enabled) \in Nat
    BY TargetsFinite, FS_CardinalityType
  <2>2. Enabled \in SUBSET Id
    BY SnmpAssumption DEF TypeOK, Enabled, Id
  <2>3. [at |-> "polling", gen |-> gen, rest |-> Enabled,
         targets |-> Cardinality(Enabled), successful |-> 0] \in Polls
    BY <2>1, <2>2 DEF Polls, TypeOK
  <2>4. poll' \in [Poller -> {Idle} \cup Polls]
    BY <1>1, <2>3 DEF Begin, TypeOK, Polls
  <2>5. status' \in [0 .. MaxGen -> [running : BOOLEAN, targets : Nat, successful : Nat]]
    BY <1>1, <2>1 DEF Begin, TypeOK
  <2> QED BY <1>1, <2>4, <2>5, TypeKept DEF Begin, TypeOK, Requests, Inserts, Edits
<1>2. CASE PollTarget(p)
  <2>1. PICK i \in poll[p].rest, outcome \in Outcome :
          /\ poll' = [poll EXCEPT ![p].rest = @ \ {i},
                                  ![p].successful = @ + Counted(outcome)]
          /\ \/ targets' = Stored(i, poll[p].gen, outcome) /\ UNCHANGED touched
             \/ touched' = TRUE /\ UNCHANGED targets
    BY <1>2 DEF PollTarget
  <2>2. poll[p] \in Polls /\ Counted(outcome) \in {0, 1}
    BY <1>2, PollStages DEF PollTarget, Polling, Counted
  <2>3. /\ poll[p].rest \ {i} \in SUBSET Id
        /\ poll[p].successful + Counted(outcome) \in Nat
    BY <2>2 DEF Polls
  <2>4. poll' \in [Poller -> {Idle} \cup Polls]
    <3>1. [poll[p] EXCEPT !.rest = @ \ {i}, !.successful = @ + Counted(outcome)] \in Polls
      BY <2>2, <2>3 DEF Polls
    <3> QED BY <2>1, <3>1 DEF TypeOK, Polls
  <2>5. targets' \in [Targets -> Row]
    BY <2>1, StoredTyped DEF TypeOK
  <2> QED BY <1>2, <2>1, <2>4, <2>5, TypeKept DEF PollTarget, TypeOK, Requests, Inserts, Edits
<1>3. CASE Finish(p)
  <2>1. poll[p] \in Polls
    BY <1>3, PollStages DEF Finish, Polling
  <2>2. poll' \in [Poller -> {Idle} \cup Polls]
    BY <1>3 DEF Finish, TypeOK, Polls
  <2>3. status' \in [0 .. MaxGen -> [running : BOOLEAN, targets : Nat, successful : Nat]]
    BY <1>3, <2>1 DEF Finish, TypeOK, Polls
  <2> QED BY <1>3, <2>2, <2>3, TypeKept DEF Finish, TypeOK, Requests, Inserts, Edits
<1> QED BY <1>1, <1>2, <1>3

\* A step of a request.
LEMMA TypeServe ==
    ASSUME TypeOK, NEW h \in Handler, Serve(h)
    PROVE  TypeOK'
<1> USE DEF Targets
<1>0. Idle \in Requests /\ poll \in [Poller -> {Idle} \cup Polls]
  BY DEF Requests, TypeOK, Polls
<1>1. CASE CountTargets(h)
  <2>1. [at |-> "insert", gen |-> gen] \in Requests
    BY DEF Requests, Inserts, TypeOK
  <2> QED BY <1>0, <1>1, <2>1, RequestMoves, TypeKept DEF CountTargets, TypeOK
<1>2. CASE Insert(h)
  <2>1. lastId' \in 0 .. MaxId /\ Targets' \subseteq 1 .. lastId'
        /\ targets' \in [Targets' -> Row] /\ touched' \in BOOLEAN
    <3>1. CASE UNCHANGED <<targets, lastId, touched>>
      BY <3>1 DEF TypeOK
    <3>2. CASE /\ lastId < MaxId /\ lastId' = lastId + 1 /\ touched' = TRUE
               /\ \E e \in BOOLEAN :
                     targets' = Put(targets, lastId', [enabled |-> e, last |-> ""])
      <4>1. PICK e \in BOOLEAN :
               targets' = Put(targets, lastId', [enabled |-> e, last |-> ""])
        BY <3>2
      <4>2. [enabled |-> e, last |-> ""] \in Row
        BY DEF Row
      <4>3. Targets' = Targets \cup {lastId'} /\ targets' \in [Targets' -> Row]
        BY <4>1, <4>2 DEF Put, TypeOK
      <4>4. lastId < MaxId /\ lastId' = lastId + 1 /\ touched' = TRUE
        BY <3>2
      <4>5. lastId \in 0 .. MaxId /\ Targets \subseteq 1 .. lastId
        BY DEF TypeOK
      <4>6. lastId' \in 0 .. MaxId
        BY <4>4, <4>5, SnmpAssumption
      <4>7. 1 .. lastId \subseteq 1 .. lastId' /\ lastId' \in 1 .. lastId'
        BY <4>4, <4>5, SnmpAssumption
      <4> QED BY <4>3, <4>4, <4>5, <4>6, <4>7
    <3> QED BY <1>2, <3>1, <3>2 DEF Insert
  <2> QED BY <1>0, <1>2, <2>1, RequestMoves, TypeKept DEF Insert, TypeOK
<1>3. CASE ReadTarget(h)
  <2>1. PICK i \in Targets, then \in {"update", "test"} :
          Goto(h, [at |-> then, gen |-> gen, id |-> i])
    BY <1>3 DEF ReadTarget
  <2>2. [at |-> then, gen |-> gen, id |-> i] \in Requests
    BY SnmpAssumption DEF Requests, Edits, TypeOK, Id
  <2> QED BY <1>0, <1>3, <2>1, <2>2, RequestMoves, TypeKept DEF ReadTarget, TypeOK
<1>4. CASE Update(h)
  <2>1. targets' \in [Targets -> Row]
    <3>1. CASE UNCHANGED targets
      BY <3>1 DEF TypeOK
    <3>2. CASE /\ req[h].id \in Targets
               /\ \E e \in BOOLEAN : targets' = [targets EXCEPT ![req[h].id].enabled = e]
      <4>1. PICK e \in BOOLEAN : targets' = [targets EXCEPT ![req[h].id].enabled = e]
        BY <3>2
      <4>2. targets[req[h].id] \in Row
        BY <3>2 DEF TypeOK
      <4>3. [targets[req[h].id] EXCEPT !.enabled = e] \in Row
        BY <4>2 DEF Row
      <4> QED BY <4>1, <4>3 DEF TypeOK
    <3> QED BY <1>4, <3>1, <3>2 DEF Update
  <2> QED BY <1>0, <1>4, <2>1, RequestMoves, TypeKept DEF Update, TypeOK
<1>5. CASE Test(h)
  <2>1. targets' \in [Targets -> Row]
    BY <1>5, StoredTyped DEF Test, Outcome
  <2> QED BY <1>0, <1>5, <2>1, RequestMoves, TypeKept DEF Test, TypeOK
<1> QED BY <1>1, <1>2, <1>3, <1>4, <1>5 DEF Serve

LEMMA TypeInit == Init => TypeOK
<1> SUFFICES ASSUME Init PROVE TypeOK
  OBVIOUS
<1>1. Targets = {} /\ targets \in [Targets -> Row]
  BY DEF Init, Targets
<1>2. NoStatus \in [running : BOOLEAN, targets : Nat, successful : Nat]
  BY DEF NoStatus
<1>3. status \in [0 .. MaxGen -> [running : BOOLEAN, targets : Nat, successful : Nat]]
  BY <1>2 DEF Init
<1>4. /\ lastId = 0 /\ gen = 0 /\ touched = FALSE
      /\ poll \in [Poller -> {Idle}] /\ req \in [Handler -> {Idle}]
  BY DEF Init
<1>5. lastId \in 0 .. MaxId /\ gen \in 0 .. MaxGen
  BY <1>4, SnmpAssumption
<1> QED BY <1>1, <1>3, <1>4, <1>5 DEF TypeOK

LEMMA TypeNext == TypeOK /\ [Next]_vars => TypeOK'
<1> SUFFICES ASSUME TypeOK, [Next]_vars PROVE TypeOK'
  OBVIOUS
<1>1. CASE Delete
  BY <1>1 DEF Delete, TypeOK, Targets
<1>2. CASE Restore
  <2>1. gen' \in 0 .. MaxGen /\ 0 .. gen \subseteq 0 .. gen'
    BY <1>2, SnmpAssumption DEF Restore, TypeOK
  <2>2. Targets' \subseteq Targets /\ targets' \in [Targets' -> Row]
    BY <1>2 DEF Restore, TypeOK, Targets
  <2>3. /\ Polls \subseteq Polls' /\ Inserts \subseteq Inserts' /\ Edits \subseteq Edits'
    BY <2>1 DEF Polls, Inserts, Edits
  <2>4. /\ poll \in [Poller -> {Idle} \cup Polls']
        /\ req \in [Handler -> {Idle} \cup Inserts' \cup Edits']
    BY <2>3 DEF TypeOK, Polls, Inserts, Edits
  <2> QED BY <1>2, <2>1, <2>2, <2>4 DEF Restore, TypeOK, Polls, Inserts, Edits
<1>3. CASE UNCHANGED vars
  BY <1>3 DEF vars, TypeOK, Targets
<1> QED BY <1>1, <1>2, <1>3, TypePolls, TypeServe DEF Next

\* Every variable holds a value of its kind, for any number of targets,
\* requests and restores.
THEOREM TypeCorrect == Spec => []TypeOK
  BY TypeInit, TypeNext, PTL DEF Spec

-----------------------------------------------------------------------------
\* The flag that is the lock.

LEMMA OnePollNext ==
    ASSUME TypeOK, OnePoll, [Next]_vars
    PROVE  OnePoll'
<1>1. CASE \E p \in Poller : Begin(p)
  <2>1. PICK p \in Poller : Begin(p)
    BY <1>1
  <2>2. /\ poll' = [poll EXCEPT ![p] =
                      [at |-> "polling", gen |-> gen, rest |-> Enabled,
                       targets |-> Cardinality(Enabled), successful |-> 0]]
        /\ status' = [status EXCEPT ![gen] =
                        [running |-> TRUE, targets |-> Cardinality(Enabled), successful |-> 0]]
        /\ ~status[gen].running /\ poll[p] = Idle
    BY <2>1 DEF Begin, MayPoll
  <2>3. /\ poll'[p].at = "polling" /\ poll'[p].gen = gen
        /\ \A q \in Poller \ {p} : poll'[q] = poll[q]
        /\ status'[gen].running
        /\ \A g \in 0 .. MaxGen \ {gen} : status'[g] = status[g]
        /\ gen \in 0 .. MaxGen /\ ~Polling(p)
    BY <2>2 DEF TypeOK, Polling, Idle
  <2>4. \A q \in Poller : Polling(q) => poll[q].gen # gen
    BY <2>2, <2>3 DEF OnePoll
  <2> QED BY <2>3, <2>4 DEF OnePoll, Polling
<1>2. CASE \E p \in Poller : PollTarget(p)
  <2>1. PICK p \in Poller : PollTarget(p)
    BY <1>2
  <2>2. poll[p] \in Polls
    BY <2>1, PollStages DEF PollTarget, Polling
  <2>3. /\ poll'[p].at = poll[p].at /\ poll'[p].gen = poll[p].gen
        /\ \A q \in Poller \ {p} : poll'[q] = poll[q]
        /\ UNCHANGED status
    BY <2>1, <2>2 DEF PollTarget, TypeOK, Polls
  <2> QED BY <2>3 DEF OnePoll, Polling
<1>3. CASE \E p \in Poller : Finish(p)
  <2>1. PICK p \in Poller : Finish(p)
    BY <1>3
  <2>2. poll[p] \in Polls /\ Polling(p)
    BY <2>1, PollStages DEF Finish, Polling
  <2>3. /\ poll'[p] = Idle /\ \A q \in Poller \ {p} : poll'[q] = poll[q]
        /\ poll[p].gen \in 0 .. MaxGen /\ ~status'[poll[p].gen].running
        /\ \A g \in 0 .. MaxGen \ {poll[p].gen} : status'[g] = status[g]
    BY <2>1, <2>2, SnmpAssumption DEF Finish, TypeOK, Polls
  <2>4. \A q \in Poller \ {p} : Polling(q) => poll[q].gen # poll[p].gen
    BY <2>2 DEF OnePoll
  <2> QED BY <2>2, <2>3, <2>4 DEF OnePoll, Polling, Idle
<1>4. CASE UNCHANGED <<poll, status>>
  BY <1>4 DEF OnePoll, Polling
<1>5. (\E h \in Handler : Serve(h)) \/ Delete \/ Restore \/ UNCHANGED vars
        => UNCHANGED <<poll, status>>
  BY DEF Serve, CountTargets, Insert, ReadTarget, Update, Test, Delete, Restore, vars
<1> QED BY <1>1, <1>2, <1>3, <1>4, <1>5 DEF Next

\* However many polls are asked for, by scans, by the user and beside those a
\* restore leaves running, each SNMPDiscovery runs one, and its flag tells so.
THEOREM OnePollEach == Spec => []OnePoll
<1>1. Init => OnePoll
  BY DEF Init, OnePoll, Polling, Idle, NoStatus
<1> QED BY <1>1, OnePollNext, TypeCorrect, PTL DEF Spec

-----------------------------------------------------------------------------
\* The limit.

Inserting == {h \in Handler : req[h].at = "insert"}

\* Inductive: a request that was let in, and has not inserted its target yet,
\* counts as well.  It came in when there was room.
Admitted == Cardinality(Targets) + Cardinality(Inserting)
               <= Limit + Cardinality(Handler) - 1

LEMMA Counts ==
    ASSUME TypeOK
    PROVE  /\ IsFiniteSet(Inserting) /\ Cardinality(Inserting) \in Nat
           /\ IsFiniteSet(Targets) /\ Cardinality(Targets) \in Nat
           /\ Cardinality(Handler) \in Nat
           /\ Cardinality(Inserting) <= Cardinality(Handler)
<1>1. /\ IsFiniteSet(Inserting)
      /\ Cardinality(Inserting) <= Cardinality(Handler)
  BY FS_Subset, SnmpAssumption DEF Inserting
<1> QED BY <1>1, TargetsFinite, FS_CardinalityType, SnmpAssumption

LEMMA AdmittedNext ==
    ASSUME TypeOK, TypeOK', Admitted, [Next]_vars
    PROVE  Admitted'
<1>1. CASE \E h \in Handler : CountTargets(h)
  <2>1. UNCHANGED Targets /\ Cardinality(Targets) < Limit
    BY <1>1 DEF CountTargets, Room, Targets
  <2>2. Cardinality(Inserting') <= Cardinality(Handler) /\ Cardinality(Inserting') \in Nat
    <3>1. IsFiniteSet(Inserting') /\ Cardinality(Inserting') <= Cardinality(Handler)
      BY FS_Subset, SnmpAssumption DEF Inserting
    <3> QED BY <3>1, FS_CardinalityType
  <2> QED BY <2>1, <2>2, Counts, SnmpAssumption DEF Admitted
<1>2. CASE \E h \in Handler : Insert(h)
  <2>1. PICK h \in Handler : Insert(h)
    BY <1>2
  <2>2. Inserting' = Inserting \ {h} /\ h \in Inserting
    BY <2>1 DEF Insert, Goto, Inserting, Idle, TypeOK
  <2>3. Targets' = Targets \cup {lastId'} \/ Targets' = Targets
    BY <2>1 DEF Insert, Put, Targets
  <2>4. Cardinality(Inserting') = Cardinality(Inserting) - 1
    BY <2>2, Counts, FS_RemoveElement
  <2>5. Cardinality(Targets') <= Cardinality(Targets) + 1 /\ Cardinality(Targets') \in Nat
    <3>1. CASE Targets' = Targets
      BY <3>1, Counts
    <3>2. CASE Targets' = Targets \cup {lastId'}
      <4>1. Cardinality(Targets \cup {lastId'}) \in
              {Cardinality(Targets), Cardinality(Targets) + 1}
        BY Counts, FS_AddElement
      <4> QED BY <3>2, <4>1, Counts
    <3> QED BY <2>3, <3>1, <3>2
  <2> QED BY <2>4, <2>5, Counts, SnmpAssumption DEF Admitted
<1>3. ASSUME Inserting' \subseteq Inserting, Targets' \subseteq Targets
      PROVE  Admitted'
  <2>1. /\ Cardinality(Inserting') <= Cardinality(Inserting)
        /\ Cardinality(Targets') <= Cardinality(Targets)
        /\ IsFiniteSet(Inserting') /\ IsFiniteSet(Targets')
    BY <1>3, Counts, FS_Subset
  <2>2. Cardinality(Inserting') \in Nat /\ Cardinality(Targets') \in Nat
    BY <2>1, FS_CardinalityType
  <2> QED BY <2>1, <2>2, Counts, SnmpAssumption DEF Admitted
<1>4. CASE \E h \in Handler : ReadTarget(h) \/ Update(h) \/ Test(h)
  <2>1. PICK h \in Handler : ReadTarget(h) \/ Update(h) \/ Test(h)
    BY <1>4
  <2>2. Inserting' \subseteq Inserting
    <3>1. CASE ReadTarget(h)
      <4>1. PICK i \in Targets, then \in {"update", "test"} :
              Goto(h, [at |-> then, gen |-> gen, id |-> i])
        BY <3>1 DEF ReadTarget
      <4>2. req'[h].at # "insert" /\ \A g \in Handler \ {h} : req'[g] = req[g]
        BY <4>1 DEF Goto, TypeOK
      <4> QED BY <4>2 DEF Inserting
    <3>2. CASE Update(h) \/ Test(h)
      <4>1. req'[h] = Idle /\ \A g \in Handler \ {h} : req'[g] = req[g]
        BY <3>2 DEF Update, Test, Goto, TypeOK
      <4> QED BY <4>1 DEF Inserting, Idle
    <3> QED BY <2>1, <3>1, <3>2
  <2>3. Targets' \subseteq Targets
    BY <2>1 DEF ReadTarget, Update, Test, Stored, Targets
  <2> QED BY <1>3, <2>2, <2>3
<1>5. CASE \/ \E p \in Poller : Begin(p) \/ PollTarget(p) \/ Finish(p)
           \/ Delete \/ Restore \/ UNCHANGED vars
  <2>1. Inserting' = Inserting
    BY <1>5 DEF Begin, PollTarget, Finish, Delete, Restore, vars, Inserting
  <2>2. Targets' \subseteq Targets
    BY <1>5 DEF Begin, PollTarget, Finish, Stored, Delete, Restore, vars, Targets
  <2> QED BY <1>3, <2>1, <2>2
<1> QED BY <1>1, <1>2, <1>4, <1>5 DEF Next, Serve

\* The limit on targets, checked and used in two statements, is passed by no
\* more than the requests that were let in together.
THEOREM LimitNearlyKept == Spec => []OvershootBounded
<1>1. Init => Admitted
  <2> SUFFICES ASSUME Init PROVE Admitted
    OBVIOUS
  <2>1. Targets = {} /\ Inserting = {}
    BY DEF Init, Targets, Inserting, Idle
  <2>2. Cardinality(Handler) \in Nat
    BY SnmpAssumption, FS_CardinalityType
  <2> QED BY <2>1, <2>2, FS_EmptySet, SnmpAssumption DEF Admitted
<1>2. TypeOK /\ Admitted => OvershootBounded
  BY Counts, SnmpAssumption DEF Admitted, OvershootBounded
<1> QED BY <1>1, <1>2, AdmittedNext, TypeCorrect, PTL DEF Spec

-----------------------------------------------------------------------------
\* The summary and the list.

Good == {"ok", "partial"}
Found(S) == {i \in Enabled : targets[i].last \in S}
Polled(p) == {i \in Enabled \ poll[p].rest : targets[i].last \in Good}

\* A poll under way has counted what the list holds of the targets it is
\* through with.
Tally(p) ==
    /\ poll[p].rest \subseteq Enabled
    /\ poll[p].targets = Cardinality(Enabled)
    /\ poll[p].successful = Cardinality(Polled(p))
    /\ \A i \in Enabled \ poll[p].rest : targets[i].last \in Outcome

\* Inductive, with OnePoll: another poll of the same generation would store
\* outcomes that this one has not counted.
Tallied ==
    ~touched =>
       /\ \A p \in Poller : Polling(p) /\ poll[p].gen = gen => Tally(p)
       /\ ~status[gen].running /\ status[gen] # NoStatus =>
             /\ status[gen].successful = Cardinality(Found(Good))
             /\ status[gen].targets = Cardinality(Found(Outcome))

LEMMA TallyBegins ==
    ASSUME TypeOK, OnePoll, NEW p \in Poller, Begin(p)
    PROVE  Tallied'
<1>1. /\ poll'[p] = [at |-> "polling", gen |-> gen, rest |-> Enabled,
                     targets |-> Cardinality(Enabled), successful |-> 0]
      /\ \A q \in Poller \ {p} : poll'[q] = poll[q]
      /\ status'[gen].running /\ UNCHANGED <<targets, gen>> /\ ~status[gen].running
  BY DEF Begin, MayPoll, TypeOK
<1>2. UNCHANGED Enabled
  BY <1>1 DEF Enabled, Targets
<1>3. \A q \in Poller : Polling(q)' /\ poll'[q].gen = gen => q = p
  BY <1>1 DEF OnePoll, Polling, TypeOK
<1>4. Polled(p)' = {}
  BY <1>1, <1>2 DEF Polled
<1>5. Tally(p)'
  BY <1>1, <1>2, <1>4, FS_EmptySet DEF Tally
<1> QED BY <1>1, <1>3, <1>5 DEF Tallied

\* A target is polled and its outcome stored.
LEMMA TallyGrows ==
    ASSUME TypeOK, NEW p \in Poller, Polling(p), poll[p].gen = gen, Tally(p),
           NEW i \in poll[p].rest, NEW outcome \in Outcome, UNCHANGED gen,
           targets' = [targets EXCEPT ![i].last = outcome],
           poll' = [poll EXCEPT ![p].rest = @ \ {i},
                                ![p].successful = @ + Counted(outcome)]
    PROVE  Tally(p)'
<1>1. /\ poll[p] \in Polls /\ i \in Enabled /\ i \in Targets /\ targets[i] \in Row
  BY PollStages DEF Tally, Enabled, TypeOK
<1>2. /\ poll'[p].rest = poll[p].rest \ {i} /\ poll'[p].targets = poll[p].targets
      /\ poll'[p].successful = poll[p].successful + Counted(outcome)
  BY <1>1 DEF TypeOK, Polls
<1>3. /\ DOMAIN targets' = Targets
      /\ targets'[i].last = outcome /\ targets'[i].enabled = targets[i].enabled
      /\ \A j \in Targets \ {i} : targets'[j] = targets[j]
  BY <1>1 DEF TypeOK, Row, Targets
<1>4. Enabled' = Enabled
  BY <1>3 DEF Enabled, Targets
<1>5. /\ \A j \in Enabled \ poll'[p].rest : j = i \/ j \in Enabled \ poll[p].rest
      /\ i \notin Polled(p) /\ Polled(p) \subseteq Enabled
      /\ \A j \in Enabled \ {i} : targets'[j].last = targets[j].last
  BY <1>1, <1>2, <1>3 DEF Polled, Enabled
<1>6. IsFiniteSet(Polled(p)) /\ Cardinality(Polled(p)) \in Nat
  BY <1>5, TargetsFinite, FS_Subset, FS_CardinalityType
<1>7. Cardinality(Polled(p)') = Cardinality(Polled(p)) + Counted(outcome)
  <2>1. CASE outcome = "failed"
    <3>1. Polled(p)' = Polled(p)
      BY <1>1, <1>2, <1>3, <1>4, <1>5, <2>1 DEF Polled, Good
    <3> QED BY <1>6, <2>1, <3>1 DEF Counted
  <2>2. CASE outcome # "failed"
    <3>1. Polled(p)' = Polled(p) \cup {i}
      BY <1>1, <1>2, <1>3, <1>4, <1>5, <2>2 DEF Polled, Good, Outcome
    <3> QED BY <1>5, <1>6, <2>2, <3>1, FS_AddElement DEF Counted
  <2> QED BY <2>1, <2>2
<1> QED BY <1>1, <1>2, <1>3, <1>4, <1>5, <1>7 DEF Tally

LEMMA TallyPolls ==
    ASSUME TypeOK, OnePoll, Tallied, NEW p \in Poller, PollTarget(p)
    PROVE  Tallied'
<1>1. PICK i \in poll[p].rest, outcome \in Outcome :
        /\ poll' = [poll EXCEPT ![p].rest = @ \ {i},
                                ![p].successful = @ + Counted(outcome)]
        /\ \/ targets' = Stored(i, poll[p].gen, outcome) /\ UNCHANGED touched
           \/ touched' = TRUE /\ UNCHANGED targets
  BY DEF PollTarget
<1>2. UNCHANGED <<gen, status>> /\ Polling(p) /\ poll[p] \in Polls
  BY PollStages DEF PollTarget, Polling
<1>3. /\ poll'[p].gen = poll[p].gen /\ \A q \in Poller \ {p} : poll'[q] = poll[q]
  BY <1>1, <1>2 DEF TypeOK, Polls
<1> SUFFICES ASSUME ~touched'
             PROVE  Tallied'
  BY DEF Tallied
<1>4. ~touched /\ targets' = Stored(i, poll[p].gen, outcome)
  BY <1>1
<1>5. CASE poll[p].gen = gen
  <2>1. status[gen].running /\ Tally(p)
    BY <1>2, <1>4, <1>5 DEF OnePoll, Tallied, TypeOK
  <2>2. i \in Targets
    BY <2>1 DEF Tally, Enabled
  <2>3. Tally(p)'
    BY <1>1, <1>2, <1>4, <1>5, <2>1, <2>2, TallyGrows DEF Stored
  <2>4. \A q \in Poller : Polling(q)' /\ poll'[q].gen = gen => q = p
    BY <1>2, <1>3, <1>5 DEF OnePoll, Polling
  <2> QED BY <1>2, <2>1, <2>3, <2>4 DEF Tallied
<1>6. CASE poll[p].gen # gen
  <2>1. UNCHANGED targets
    BY <1>4, <1>6 DEF Stored
  <2>2. Enabled' = Enabled /\ \A S : Found(S)' = Found(S)
    BY <2>1 DEF Enabled, Targets, Found
  <2>3. \A q \in Poller : Polling(q)' /\ poll'[q].gen = gen =>
           Polling(q) /\ poll'[q] = poll[q] /\ poll[q].gen = gen
    BY <1>3, <1>6 DEF Polling
  <2>4. ASSUME NEW q \in Poller, poll'[q] = poll[q], Tally(q)
        PROVE  Tally(q)'
    BY <2>1, <2>2, <2>4 DEF Tally, Polled
  <2> QED BY <1>2, <1>4, <2>2, <2>3, <2>4 DEF Tallied
<1> QED BY <1>5, <1>6

\* The poll that ends hands its counts to the summary.
LEMMA TallyEnds ==
    ASSUME TypeOK, OnePoll, Tallied, NEW p \in Poller, Finish(p)
    PROVE  Tallied'
<1>1. /\ Polling(p) /\ poll[p] \in Polls /\ poll[p].rest = {}
      /\ UNCHANGED <<targets, gen, touched>>
  BY PollStages DEF Finish, Polling
<1>2. /\ poll'[p] = Idle /\ \A q \in Poller \ {p} : poll'[q] = poll[q]
      /\ status'[poll[p].gen] = [running |-> FALSE, targets |-> poll[p].targets,
                                 successful |-> poll[p].successful]
      /\ \A g \in 0 .. MaxGen \ {poll[p].gen} : status'[g] = status[g]
  BY <1>1, SnmpAssumption DEF Finish, TypeOK, Polls
<1> SUFFICES ASSUME ~touched
             PROVE  Tallied'
  BY <1>1 DEF Tallied
<1>3. Enabled' = Enabled /\ \A S : Found(S)' = Found(S)
  BY <1>1 DEF Enabled, Targets, Found
<1>4. ASSUME NEW q \in Poller, Polling(q)', poll'[q].gen = gen
      PROVE  Tally(q)'
  <2>1. poll'[q] = poll[q] /\ Polling(q)
    BY <1>2, <1>4 DEF Polling, Idle
  <2>2. Tally(q)
    BY <1>4, <2>1 DEF Tallied
  <2> QED BY <1>1, <1>3, <2>1, <2>2 DEF Tally, Polled
<1>5. CASE poll[p].gen = gen
  <2>1. Tally(p)
    BY <1>1, <1>5 DEF Tallied
  <2>2. Polled(p) = Found(Good) /\ Found(Outcome) = Enabled
    BY <1>1, <2>1 DEF Polled, Found, Tally
  <2> QED BY <1>1, <1>2, <1>3, <1>4, <1>5, <2>1, <2>2 DEF Tally, Tallied
<1>6. CASE poll[p].gen # gen
  <2>1. status'[gen] = status[gen]
    BY <1>2, <1>6 DEF TypeOK
  <2> QED BY <1>1, <1>3, <1>4, <2>1 DEF Tallied
<1> QED BY <1>5, <1>6

LEMMA TalliedNext ==
    ASSUME TypeOK, OnePoll, Tallied, [Next]_vars
    PROVE  Tallied'
<1>1. CASE \E h \in Handler : CountTargets(h) \/ ReadTarget(h) \/ Insert(h)
  <2>1. UNCHANGED <<targets, gen, status, poll, touched>> \/ touched'
    BY <1>1 DEF CountTargets, ReadTarget, Insert
  <2>2. CASE UNCHANGED <<targets, gen, status, poll, touched>>
    BY <2>2 DEF Tallied, Tally, Polled, Found, Enabled, Targets, Polling
  <2> QED BY <2>1, <2>2 DEF Tallied
<1>2. CASE (\E h \in Handler : Update(h) \/ Test(h)) \/ Delete \/ Restore
  BY <1>2 DEF Update, Test, Delete, Restore, Tallied
<1>3. CASE UNCHANGED vars
  BY <1>3 DEF vars, Tallied, Tally, Polled, Found, Enabled, Targets, Polling
<1> QED BY <1>1, <1>2, <1>3, TallyBegins, TallyPolls, TallyEnds DEF Next, Serve

\* After a poll the summary tells what the list of targets tells, unless
\* something else wrote to the list since it began or a status was not stored:
\* for any number of targets, and beside polls that a restore left running.
THEOREM SummaryIsOfTheList == Spec => []SummaryMatchesTargets
<1>1. Init => Tallied
  BY SnmpAssumption DEF Init, Tallied, Polling, Idle
<1>2. TypeOK /\ Tallied => SummaryMatchesTargets
  BY DEF Tallied, SummaryMatchesTargets, Found, Good
<1> QED BY <1>1, <1>2, TalliedNext, OnePollEach, TypeCorrect, PTL DEF Spec
=============================================================================
