--------------------------- MODULE SettingsProofs ---------------------------
(***************************************************************************)
(* Theorems about how settings come into force, for any keys, values and   *)
(* requests.                                                               *)
(***************************************************************************)
EXTENDS Settings, FiniteSetTheorems, TLAPS

-----------------------------------------------------------------------------
\* The types: an interval that is in force, on its way or armed is a length of
\* time.

Duration == Nat \ {0}

\* Only checked values of scan_interval are lengths of time.
Timed(s) == Interval \in DOMAIN s /\ s[Interval] \in Valid => s[Interval] \in Duration

Configures(c) == DOMAIN c = Key /\ c[Interval] \in Duration

TypedRequest(r) ==
    /\ r = Idle \/ r.at \in Stages
    /\ r.at = "merge" => DOMAIN r.current \subseteq Key /\ Timed(r.current)
    /\ r.at \in {"merge", "save"} => DOMAIN r.values \subseteq Key /\ Timed(r.values)
    /\ r.at \in {"save", "compare", "update"} => Configures(r.next)
    /\ r.at \in {"offer", "drain", "send"} => r.interval \in Duration

\* What schedule and the channel hold.
Clock == /\ updates = <<>> \/ \E d \in Duration : updates = <<d>>
         /\ armed \in Duration
         /\ timer = {} \/ \E t \in 0 .. armed : timer = {t}

\* Inductive.
Typed == /\ DOMAIN stored \subseteq Key /\ Timed(stored)
         /\ \A p \in saved : p[1] = Interval /\ p[2] \in Valid => p[2] \in Duration
         /\ Configures(running)
         /\ Clock
         /\ DOMAIN req = Handler /\ \A h \in Handler : TypedRequest(req[h])
         /\ calm \in BOOLEAN

\* Laying values over a table keeps it a table.
LEMMA OverTyped ==
    ASSUME NEW v, NEW s, DOMAIN v \subseteq Key, Timed(v), DOMAIN s \subseteq Key, Timed(s)
    PROVE  DOMAIN Over(v, s) \subseteq Key /\ Timed(Over(v, s))
  BY DEF Over, Timed

\* What applyStoredSettings makes of a configuration and a table it accepts.
LEMMA AppliedTyped ==
    ASSUME NEW c, NEW s, Configures(c), Timed(s), ~Refused(s)
    PROVE  Configures(Applied(c, s))
<1>1. Interval \in Key
  BY SettingsAssumption
<1>2. Interval \in DOMAIN s /\ s[Interval] # Blank => s[Interval] \in Duration
  BY DEF Refused, Timed
<1> QED BY <1>1, <1>2 DEF Applied, Configures

LEMMA EnvTyped == Configures(Env)
  BY SettingsAssumption DEF Configures, Duration

LEMMA IdleTyped == TypedRequest(Idle)
  BY DEF TypedRequest, Idle

\* A step of one request that leaves the schedule alone.
LEMMA TypedMoves ==
    ASSUME Typed, UNCHANGED <<armed, timer>>, updates' = updates \/ updates' = <<>>
                     \/ \E d \in Duration : updates' = <<d>>,
           DOMAIN stored' \subseteq Key, Timed(stored'), Configures(running'), calm' \in BOOLEAN,
           \A p \in saved' : p[1] = Interval /\ p[2] \in Valid => p[2] \in Duration,
           NEW h \in Handler, NEW r, req' = [req EXCEPT ![h] = r], TypedRequest(r)
    PROVE  Typed'
<1>1. DOMAIN req' = Handler /\ \A g \in Handler : TypedRequest(req'[g])
  <2>1. DOMAIN req' = Handler /\ req'[h] = r /\ \A g \in Handler \ {h} : req'[g] = req[g]
    BY DEF Typed
  <2> QED BY <2>1 DEF Typed
<1>2. Clock'
  BY DEF Typed, Clock
<1> QED BY <1>1, <1>2 DEF Typed, Timed, Configures, TypedRequest

LEMMA TypedPatch ==
    ASSUME Typed, NEW h \in Handler, Read(h) \/ PatchStep(h) \/ Send(h)
    PROVE  Typed'
<1> DEFINE r == req[h]
<1>1. /\ TypedRequest(r)
      /\ DOMAIN stored \subseteq Key /\ Timed(stored) /\ Configures(running) /\ calm \in BOOLEAN
      /\ \A p \in saved : p[1] = Interval /\ p[2] \in Valid => p[2] \in Duration
  BY DEF Typed
<1>2. CASE Read(h)
  <2>1. PICK v \in Requests : /\ req' = [req EXCEPT ![h] = Merging(v, Over(v, stored))]
                              /\ calm' = (calm /\ Busy = {} /\ ~Unsets(v))
    BY <1>2 DEF Read
  <2>2. UNCHANGED <<stored, running, updates, armed, timer, saved>>
    BY <1>2 DEF Read
  <2>3. DOMAIN v \subseteq Key /\ Timed(v)
    BY SettingsAssumption DEF Timed, Duration
  <2>4. TypedRequest(Merging(v, Over(v, stored)))
    <3> DEFINE o == Over(v, stored)
    <3>1. DOMAIN o \subseteq Key /\ Timed(o)
      BY <1>1, <2>3, OverTyped
    <3> DEFINE m == Merging(v, o)
    <3>2. m.at = "merge" /\ m.values = v /\ m.current = o
      BY DEF Merging
    <3> HIDE DEF o, m
    <3>3. TypedRequest(m)
      BY <2>3, <3>1, <3>2 DEF TypedRequest, Stages
    <3> QED BY <3>3 DEF m, o
  <2>5. calm' \in BOOLEAN
    BY <2>1
  <2> QED BY <1>1, <2>1, <2>2, <2>4, <2>5, TypedMoves
<1>3. CASE Merge(h)
  <2> DEFINE n == IF Refused(r.current) THEN Idle
                  ELSE Saving(r.values, Applied(running, r.current))
  <2>1. r.at = "merge" /\ req' = [req EXCEPT ![h] = n]
        /\ UNCHANGED <<stored, running, updates, armed, timer, saved, calm>>
    BY <1>3 DEF Merge
  <2>2. TypedRequest(n)
    <3> DEFINE c == Applied(running, r.current)
    <3>1. /\ DOMAIN r.values \subseteq Key /\ Timed(r.values)
          /\ ~Refused(r.current) => Configures(c)
      BY <1>1, <2>1, AppliedTyped DEF TypedRequest
    <3> HIDE DEF c, r
    <3>2. ~Refused(r.current) => TypedRequest(Saving(r.values, c))
      BY <3>1 DEF TypedRequest, Saving, Stages
    <3> QED BY <3>2, IdleTyped DEF c
  <2> HIDE DEF n
  <2> QED BY <1>1, <2>1, <2>2, TypedMoves
<1>4. CASE Save(h)
  <2>1. /\ DOMAIN r.values \subseteq Key /\ Timed(r.values) /\ Configures(r.next)
        /\ UNCHANGED <<running, updates, armed, timer, calm>>
    BY <1>1, <1>4 DEF Save, TypedRequest
  <2>2. CASE /\ stored' = Over(r.values, stored)
             /\ saved'  = saved \cup Pairs(r.values)
             /\ req'    = [req EXCEPT ![h] = Comparing(r.next)]
    <3>1. DOMAIN stored' \subseteq Key /\ Timed(stored')
      BY <1>1, <2>1, <2>2, OverTyped
    <3>2. \A p \in saved' : p[1] = Interval /\ p[2] \in Valid => p[2] \in Duration
      <4>1. \A p \in Pairs(r.values) : p[1] = Interval /\ p[2] \in Valid => p[2] \in Duration
        BY <2>1 DEF Pairs, Timed
      <4> QED BY <1>1, <2>2, <4>1
    <3> HIDE DEF r
    <3>3. TypedRequest(Comparing(r.next))
      BY <2>1 DEF TypedRequest, Comparing, Stages
    <3> QED BY <1>1, <2>1, <2>2, <3>1, <3>2, <3>3, TypedMoves
  <2>3. CASE req' = [req EXCEPT ![h] = Idle] /\ UNCHANGED <<stored, saved>>
    BY <1>1, <2>1, <2>3, IdleTyped, TypedMoves
  <2> QED BY <1>4, <2>2, <2>3 DEF Save
<1>5. CASE Compare(h)
  <2>1. Configures(r.next) /\ req' = [req EXCEPT ![h] = Updating(r.next, running[Interval])]
        /\ UNCHANGED <<stored, running, updates, armed, timer, saved, calm>>
    BY <1>1, <1>5 DEF Compare, TypedRequest
  <2> HIDE DEF r
  <2>2. TypedRequest(Updating(r.next, running[Interval]))
    BY <2>1 DEF TypedRequest, Updating, Stages
  <2> QED BY <1>1, <2>1, <2>2, TypedMoves
<1>6. CASE Update(h)
  <2> DEFINE n == IF Changed(r) THEN Sending("offer", r.next[Interval]) ELSE Idle
  <2>1. /\ Configures(r.next) /\ running' = r.next /\ req' = [req EXCEPT ![h] = n]
        /\ UNCHANGED <<stored, updates, armed, timer, saved, calm>>
    BY <1>1, <1>6 DEF Update, TypedRequest
  <2>2. TypedRequest(Sending("offer", r.next[Interval]))
    <3> HIDE DEF r
    <3> QED BY <2>1 DEF TypedRequest, Sending, Stages, Configures
  <2>3. TypedRequest(n)
    BY <2>2, IdleTyped
  <2> HIDE DEF n
  <2> QED BY <1>1, <2>1, <2>3, TypedMoves
<1>7. ASSUME Sent(h), r.at \in {"offer", "send"},
             UNCHANGED <<stored, running, armed, timer, saved, calm>>
      PROVE  Typed'
  <2>1. /\ r.interval \in Duration /\ updates' = <<r.interval>>
        /\ req' = [req EXCEPT ![h] = Idle]
    BY <1>1, <1>7 DEF Sent, TypedRequest
  <2> QED BY <1>1, <1>7, <2>1, IdleTyped, TypedMoves
<1>8. CASE Offer(h) /\ updates # <<>>
  <2> DEFINE n == [r EXCEPT !.at = "drain"]
  <2>1. r.at = "offer" /\ req' = [req EXCEPT ![h] = n]
        /\ UNCHANGED <<stored, running, updates, armed, timer, saved, calm>>
    BY <1>8 DEF Offer
  <2>2. TypedRequest(n)
    <3> HIDE DEF r
    <3> QED BY <1>1, <2>1 DEF TypedRequest, Stages
  <2> HIDE DEF n
  <2> QED BY <1>1, <2>1, <2>2, TypedMoves
<1>9. CASE Drain(h)
  <2> DEFINE n == [r EXCEPT !.at = "send"]
  <2>1. r.at = "drain" /\ req' = [req EXCEPT ![h] = n] /\ updates' = <<>>
        /\ UNCHANGED <<stored, running, armed, timer, saved, calm>>
    BY <1>9 DEF Drain
  <2>2. TypedRequest(n)
    <3> HIDE DEF r
    <3> QED BY <1>1, <2>1 DEF TypedRequest, Stages
  <2> HIDE DEF n
  <2> QED BY <1>1, <2>1, <2>2, TypedMoves
<1> QED BY <1>2, <1>3, <1>4, <1>5, <1>6, <1>7, <1>8, <1>9 DEF PatchStep, Offer, Send

\* Requests that are cut off.
LEMMA ResetTyped ==
    ASSUME req' = [h \in Handler |-> Idle]
    PROVE  DOMAIN req' = Handler /\ \A h \in Handler : TypedRequest(req'[h])
  BY IdleTyped

LEMMA TypedNext ==
    ASSUME Typed, [Next]_vars
    PROVE  Typed'
<1>1. CASE \E h \in Handler : Read(h) \/ PatchStep(h) \/ Send(h)
  BY <1>1, TypedPatch
<1>2. CASE UNCHANGED vars
  BY <1>2 DEF vars, Typed, Clock, Timed, Configures, TypedRequest
<1>3. ASSUME Clock', UNCHANGED <<stored, running, req, saved, calm>>
      PROVE  Typed'
  BY <1>3 DEF Typed, Timed, Configures, TypedRequest
<1>4. CASE Tick \/ Fire
  <2>1. armed \in Nat /\ armed' = armed /\ updates' = updates
        /\ UNCHANGED <<stored, running, req, saved, calm>>
    BY <1>4 DEF Typed, Clock, Duration, Tick, Fire
  <2>2. CASE Tick
    <3>1. PICK t \in timer : t > 0 /\ timer' = {t - 1}
      BY <2>2 DEF Tick
    <3>2. t \in 0 .. armed
      BY <3>1 DEF Typed, Clock
    <3>3. t - 1 \in 0 .. armed'
      BY <2>1, <3>1, <3>2
    <3> QED BY <1>3, <2>1, <3>1, <3>3 DEF Typed, Clock
  <2>3. CASE Fire
    <3>1. timer' = {armed} /\ armed \in 0 .. armed
      BY <2>1, <2>3 DEF Fire
    <3> QED BY <1>3, <2>1, <3>1 DEF Typed, Clock
  <2> QED BY <1>4, <2>2, <2>3
<1>5. CASE Receive
  <2>1. PICK d \in Duration : updates = <<d>>
    BY <1>5 DEF Receive, Typed, Clock
  <2>2. /\ armed' = d /\ timer' = {d} /\ updates' = <<>> /\ d \in 0 .. d
        /\ UNCHANGED <<stored, running, req, saved, calm>>
    BY <1>5, <2>1 DEF Receive, Rearmed, Duration
  <2> QED BY <1>3, <2>2 DEF Clock
<1>6. CASE Restart
  <2>1. /\ running' = Applied(Env, stored) /\ armed' = running'[Interval] /\ timer' = {armed'}
        /\ updates' = <<>> /\ calm' = TRUE /\ UNCHANGED <<stored, saved>> /\ ~Refused(stored)
        /\ req' = [h \in Handler |-> Idle]
    BY <1>6 DEF Restart, Booted
  <2>2. Configures(running')
    BY <2>1, EnvTyped, AppliedTyped DEF Typed
  <2>3. armed' \in Duration /\ armed' \in 0 .. armed'
    BY <2>1, <2>2 DEF Configures, Duration
  <2>4. Clock'
    BY <2>1, <2>3 DEF Clock
  <2> QED BY <2>1, <2>2, <2>4, ResetTyped DEF Typed, Timed, Configures, TypedRequest
<1>7. CASE Restore
  <2>1. /\ stored' \in Partial(Valid \cup {Blank}) /\ Pairs(stored') \subseteq saved
        /\ calm' = FALSE /\ UNCHANGED <<running, updates, armed, timer, req, saved>>
    BY <1>7 DEF Restore
  <2>2. DOMAIN stored' \subseteq Key
    BY <2>1 DEF Partial
  <2>3. Timed(stored')
    <3>1. \A k \in DOMAIN stored' : <<k, stored'[k]>> \in saved
      BY <2>1 DEF Pairs
    <3> QED BY <3>1 DEF Typed, Timed
  <2>4. Clock'
    BY <2>1 DEF Typed, Clock
  <2> QED BY <2>1, <2>2, <2>3, <2>4 DEF Typed, Timed, Configures, TypedRequest
<1> QED BY <1>1, <1>2, <1>4, <1>5, <1>6, <1>7 DEF Next

LEMMA TypedIsEnough ==
    ASSUME Typed
    PROVE  TypeOK
<1>1. updates \in Seq(Nat \ {0}) /\ Len(updates) <= 1 /\ armed \in Nat \ {0}
  <2>1. armed \in Nat \ {0}
    BY DEF Typed, Clock, Duration
  <2>2. CASE updates = <<>>
    BY <2>1, <2>2
  <2>3. CASE \E d \in Duration : updates = <<d>>
    <3>1. PICK d \in Duration : updates = <<d>>
      BY <2>3
    <3>2. d \in Nat \ {0}
      BY DEF Duration
    <3> QED BY <2>1, <3>1, <3>2
  <2> QED BY <2>2, <2>3 DEF Typed, Clock
<1>2. timer \subseteq 0 .. armed /\ Cardinality(timer) <= 1
  <2>1. CASE timer = {}
    BY <2>1, FS_EmptySet
  <2>2. CASE \E t \in 0 .. armed : timer = {t}
    <3>1. PICK t \in 0 .. armed : timer = {t}
      BY <2>2
    <3>2. Cardinality(timer) = 1
      BY <3>1, FS_Singleton
    <3> QED BY <3>1, <3>2
  <2> QED BY <2>1, <2>2 DEF Typed, Clock
<1>3. \A h \in Busy : req[h].at \in Stages
  <2> SUFFICES ASSUME NEW h \in Busy PROVE req[h].at \in Stages
    OBVIOUS
  <2>1. h \in Handler /\ req[h] # Idle
    BY DEF Busy
  <2> QED BY <2>1 DEF Typed, TypedRequest
<1> QED BY <1>1, <1>2, <1>3 DEF TypeOK, Typed, Configures

\* Every variable keeps its type; in particular there is never more than one
\* interval in the channel, nor a timer set beyond the interval that is armed
\* (schedule, replaceScanInterval).
THEOREM TypeCorrect == Spec => []TypeOK
<1>1. Init => Typed
  <2> SUFFICES ASSUME Init PROVE Typed
    OBVIOUS
  <2>1. Env[Interval] \in Duration /\ Env[Interval] \in 0 .. Env[Interval]
    BY EnvTyped DEF Configures, Duration
  <2>2. Clock
    BY <2>1 DEF Init, Clock
  <2>3. DOMAIN req = Handler /\ \A h \in Handler : TypedRequest(req[h])
    BY IdleTyped DEF Init
  <2> QED BY <2>2, <2>3, EnvTyped DEF Init, Typed, Timed
<1> QED BY <1>1, TypedNext, TypedIsEnough, PTL DEF Spec

-----------------------------------------------------------------------------
\* Nothing is in force that was never saved.

Known(k, v, S) == v = Env[k] \/ <<k, v>> \in S

\* What a request works on comes from the table, the configuration or its own
\* body; and from its body only until it has saved it.
TracedRequest(r, S) ==
    /\ r.at \in Stages \cup {"idle"}
    /\ r.at = "merge" =>
          \A k \in DOMAIN r.current : \/ k \in DOMAIN r.values /\ r.current[k] = r.values[k]
                                      \/ <<k, r.current[k]>> \in S
    /\ r.at = "save" =>
          \A k \in Key : \/ k \in DOMAIN r.values /\ r.next[k] = r.values[k]
                         \/ Known(k, r.next[k], S)
    /\ r.at \in {"compare", "update"} => \A k \in Key : Known(k, r.next[k], S)
    /\ r.at \in {"offer", "drain", "send"} => Known(Interval, r.interval, S)

\* Inductive.
Traced ==
    /\ \A k \in Key : Known(k, running[k], saved)
    /\ Known(Interval, armed, saved)
    /\ updates = <<>> \/ \E v : updates = <<v>> /\ Known(Interval, v, saved)
    /\ \A k \in DOMAIN stored : <<k, stored[k]>> \in saved
    /\ DOMAIN req = Handler
    /\ \A h \in Handler : TracedRequest(req[h], saved)

\* Applying what is known to what is known.
LEMMA AppliedKnown ==
    ASSUME NEW c, NEW s, \A k \in Key : Known(k, c[k], saved),
           \A k \in DOMAIN s : <<k, s[k]>> \in saved
    PROVE  \A k \in Key : Known(k, Applied(c, s)[k], saved)
  BY DEF Applied, Known

\* What is saved stays saved.
LEMMA KnownGrows ==
    ASSUME saved \subseteq saved', NEW r, TracedRequest(r, saved)
    PROVE  TracedRequest(r, saved')
  BY DEF TracedRequest, Known

\* A step of a request that has still nothing in force changed.
LEMMA TracedMoves ==
    ASSUME Traced, UNCHANGED <<running, updates, armed>>, saved \subseteq saved',
           \A k \in DOMAIN stored' : <<k, stored'[k]>> \in saved',
           NEW h \in Handler, NEW r, req' = [req EXCEPT ![h] = r], TracedRequest(r, saved')
    PROVE  Traced'
<1>1. DOMAIN req' = Handler /\ req'[h] = r /\ \A g \in Handler \ {h} : req'[g] = req[g]
  BY DEF Traced
<1>2. \A g \in Handler : TracedRequest(req'[g], saved')
  BY <1>1, KnownGrows DEF Traced
<1>3. /\ \A k \in Key : Known(k, running'[k], saved')
      /\ Known(Interval, armed', saved')
      /\ updates' = <<>> \/ \E v : updates' = <<v>> /\ Known(Interval, v, saved')
  BY DEF Traced, Known
<1> QED BY <1>1, <1>2, <1>3 DEF Traced, Known, TracedRequest

LEMMA TracedPatch ==
    ASSUME Traced, NEW h \in Handler, Read(h) \/ PatchStep(h) \/ Send(h)
    PROVE  Traced'
<1> USE DEF Traced
<1>1. CASE Read(h)
  <2>1. PICK v \in Requests : req' = [req EXCEPT ![h] = Merging(v, Over(v, stored))]
    BY <1>1 DEF Read
  <2>2. UNCHANGED <<running, updates, armed, stored, saved>>
    BY <1>1 DEF Read
  <2>3. TracedRequest(Merging(v, Over(v, stored)), saved')
    BY <2>2 DEF TracedRequest, Merging, Stages, Over
  <2> QED BY <2>1, <2>2, <2>3, TracedMoves
<1>2. CASE Merge(h)
  <2> DEFINE r == req[h]
             n == IF Refused(r.current) THEN Idle
                  ELSE Saving(r.values, Applied(running, r.current))
  <2>1. UNCHANGED <<running, updates, armed, stored, saved>> /\ req' = [req EXCEPT ![h] = n]
        /\ r.at = "merge" /\ TracedRequest(r, saved)
    BY <1>2 DEF Merge
  <2>2. TracedRequest(Idle, saved')
    BY DEF TracedRequest, Idle
  <2>3. TracedRequest(Saving(r.values, Applied(running, r.current)), saved')
    <3>1. \A k \in Key : \/ k \in DOMAIN r.values /\ Applied(running, r.current)[k] = r.values[k]
                         \/ Known(k, Applied(running, r.current)[k], saved)
      BY <2>1 DEF Applied, TracedRequest, Known
    <3> HIDE DEF r
    <3> QED BY <2>1, <3>1 DEF TracedRequest, Saving, Stages, Known
  <2>4. TracedRequest(n, saved')
    BY <2>2, <2>3
  <2> HIDE DEF n
  <2> QED BY <2>1, <2>4, TracedMoves
<1>3. CASE Save(h)
  <2> DEFINE r == req[h]
  <2>1. CASE /\ stored' = Over(r.values, stored)
             /\ saved'  = saved \cup Pairs(r.values)
             /\ req'    = [req EXCEPT ![h] = Comparing(r.next)]
    <3>1. r.at = "save" /\ TracedRequest(r, saved)
      BY <1>3 DEF Save
    <3>2. \A k \in DOMAIN r.values : <<k, r.values[k]>> \in saved'
      BY <2>1 DEF Pairs
    <3>3. \A k \in DOMAIN stored' : <<k, stored'[k]>> \in saved'
      BY <2>1, <3>2 DEF Over
    <3>4. \A k \in Key : Known(k, r.next[k], saved')
      BY <2>1, <3>1, <3>2 DEF TracedRequest, Known
    <3>5. TracedRequest(Comparing(r.next), saved')
      BY <3>4 DEF TracedRequest, Comparing, Stages, Known
    <3>6. UNCHANGED <<running, updates, armed>> /\ saved \subseteq saved'
      BY <1>3, <2>1 DEF Save
    <3> QED BY <2>1, <3>3, <3>5, <3>6, TracedMoves
  <2>2. CASE req' = [req EXCEPT ![h] = Idle] /\ UNCHANGED <<stored, saved>>
    <3>1. TracedRequest(Idle, saved')
      BY DEF TracedRequest, Idle
    <3> QED BY <1>3, <2>2, <3>1, TracedMoves DEF Save
  <2> QED BY <1>3, <2>1, <2>2 DEF Save
<1>4. CASE Compare(h)
  <2>1. TracedRequest(Updating(req[h].next, running[Interval]), saved')
    BY <1>4 DEF Compare, TracedRequest, Updating, Stages, Known
  <2> QED BY <1>4, <2>1, TracedMoves DEF Compare
<1>5. CASE Update(h)
  <2> DEFINE r == req[h]
             n == IF Changed(r) THEN Sending("offer", r.next[Interval]) ELSE Idle
  <2>1. \A k \in Key : Known(k, r.next[k], saved)
    BY <1>5 DEF Update, TracedRequest
  <2>2. UNCHANGED <<stored, updates, armed, saved>> /\ running' = r.next
        /\ req' = [req EXCEPT ![h] = n]
    BY <1>5 DEF Update
  <2>3. TracedRequest(Idle, saved')
    BY DEF TracedRequest, Idle
  <2>4. TracedRequest(Sending("offer", r.next[Interval]), saved')
    BY <2>1, <2>2, SettingsAssumption DEF TracedRequest, Sending, Stages, Known
  <2>5. TracedRequest(n, saved')
    BY <2>3, <2>4
  <2>6. \A g \in Handler : TracedRequest(req'[g], saved')
    <3> HIDE DEF n
    <3>1. req'[h] = n /\ \A g \in Handler \ {h} : req'[g] = req[g]
      BY <2>2
    <3> QED BY <2>2, <2>5, <3>1, KnownGrows
  <2>7. \A k \in Key : Known(k, running'[k], saved')
    BY <2>1, <2>2 DEF Known
  <2>8. DOMAIN req' = Handler
    BY <2>2
  <2> QED BY <2>2, <2>6, <2>7, <2>8 DEF Known
<1>6. ASSUME UNCHANGED <<running, armed, stored, saved>>, NEW n,
             req' = [req EXCEPT ![h] = n], TracedRequest(n, saved'),
             \/ UNCHANGED updates
             \/ updates' = <<>>
             \/ updates' = <<req[h].interval>> /\ Known(Interval, req[h].interval, saved)
      PROVE  Traced'
  <2>1. req'[h] = n /\ \A g \in Handler \ {h} : req'[g] = req[g]
    BY <1>6
  <2>2. \A g \in Handler : TracedRequest(req'[g], saved')
    BY <1>6, <2>1, KnownGrows
  <2> QED BY <1>6, <2>2 DEF Known
<1>7. TracedRequest(Idle, saved')
  BY DEF TracedRequest, Idle
<1>8. CASE Offer(h) \/ Drain(h) \/ Send(h)
  <2>1. Known(Interval, req[h].interval, saved) /\ UNCHANGED <<running, armed, stored, saved>>
    BY <1>8 DEF Offer, Drain, Send, TracedRequest
  <2>2. ASSUME NEW x \in {"drain", "send"}, req' = [req EXCEPT ![h].at = x],
               UNCHANGED updates \/ updates' = <<>>
        PROVE  Traced'
    <3>1. req' = [req EXCEPT ![h] = [req[h] EXCEPT !.at = x]]
      BY <2>2
    <3>2. TracedRequest([req[h] EXCEPT !.at = x], saved')
      BY <2>1 DEF TracedRequest, Stages, Known
    <3> QED BY <1>6, <2>1, <2>2, <3>1, <3>2
  <2>3. CASE Sent(h)
    BY <1>6, <1>7, <2>1, <2>3 DEF Sent
  <2> QED BY <1>8, <2>2, <2>3 DEF Offer, Drain, Send
<1> QED BY <1>1, <1>2, <1>3, <1>4, <1>5, <1>8 DEF PatchStep

LEMMA TracedNext ==
    ASSUME Traced, [Next]_vars
    PROVE  Traced'
<1>1. CASE \E h \in Handler : Read(h) \/ PatchStep(h) \/ Send(h)
  BY <1>1, TracedPatch
<1>2. CASE Tick \/ Fire \/ UNCHANGED vars
  <2>1. UNCHANGED <<stored, running, updates, armed, req, saved>>
    BY <1>2 DEF Tick, Fire, vars
  <2> QED BY <2>1 DEF Traced, TracedRequest, Known
<1>3. CASE Receive
  <2>1. PICK v : updates = <<v>> /\ Known(Interval, v, saved)
    BY <1>3 DEF Receive, Traced
  <2>2. /\ armed' = v /\ updates' = <<>>
        /\ UNCHANGED <<stored, running, req, saved>>
    BY <1>3, <2>1 DEF Receive
  <2> QED BY <2>1, <2>2 DEF Traced, TracedRequest, Known
<1>4. CASE Restart
  <2>1. /\ running' = Applied(Env, stored) /\ armed' = running'[Interval]
        /\ updates' = <<>> /\ req' = [h \in Handler |-> Idle]
        /\ UNCHANGED <<stored, saved>>
    BY <1>4 DEF Restart, Booted
  <2>2. \A k \in Key : Known(k, Applied(Env, stored)[k], saved)
    <3>1. \A k \in Key : Known(k, Env[k], saved)
      BY DEF Known
    <3> QED BY <3>1, AppliedKnown DEF Traced
  <2>3. TracedRequest(Idle, saved')
    BY DEF TracedRequest, Idle
  <2> QED BY <2>1, <2>2, <2>3, SettingsAssumption DEF Traced, Known
<1>5. CASE Restore
  <2>1. Pairs(stored') \subseteq saved /\ UNCHANGED <<running, updates, armed, req, saved>>
    BY <1>5 DEF Restore
  <2>2. \A k \in DOMAIN stored' : <<k, stored'[k]>> \in saved
    BY <2>1 DEF Pairs
  <2> QED BY <2>1, <2>2 DEF Traced, TracedRequest, Known
<1> QED BY <1>1, <1>2, <1>3, <1>4, <1>5 DEF Next

\* What is in force, on its way to the schedule or armed there was saved at
\* some time or comes from the environment.
THEOREM SavedBeforeForce == Spec => []OnlySavedInForce
<1>1. Init => Traced
  BY SettingsAssumption DEF Init, Traced, TracedRequest, Idle, Known
<1>2. Traced => OnlySavedInForce
  <2> SUFFICES ASSUME Traced PROVE OnlySavedInForce
    OBVIOUS
  <2>1. \A i \in DOMAIN updates : Known(Interval, updates[i], saved)
    BY DEF Traced
  <2> QED BY <2>1 DEF Traced, OnlySavedInForce, Known
<1> QED BY <1>1, <1>2, TracedNext, PTL DEF Spec

-----------------------------------------------------------------------------
\* Requests one after the other take effect.

ScheduleHas == /\ updates = <<>> => armed = running[Interval]
               /\ updates # <<>> => updates[1] = running[Interval]

Delivering == {"offer", "drain", "send"}

\* Where the one request that is being served stands, and how far the settings
\* have come.
Consistent(r) ==
    /\ r = Idle \/ r.at \in Stages
    /\ r.at \in {"idle", "merge", "save"} \cup Delivering => running = Applied(Env, stored)
    /\ r.at = "merge" => r.current = Over(r.values, stored) /\ ~Unsets(r.values)
    /\ r.at = "save" => r.next = Applied(Env, Over(r.values, stored))
    /\ r.at \in {"compare", "update"} => r.next = Applied(Env, stored)
    /\ r.at = "update" => r.old = running[Interval]
    /\ r.at \in Delivering => r.interval = running[Interval]
    /\ r.at \notin Delivering => ScheduleHas

\* Inductive.
InOrder ==
    /\ DOMAIN req = Handler
    /\ updates = <<>> \/ \E v : updates = <<v>>
    /\ calm => /\ \A g, h \in Busy : g = h
               /\ \A h \in Busy : Consistent(req[h])
               /\ Busy = {} => Consistent(Idle)

\* Before the table has changed, what is merged is what a restart would bring
\* after the change.
LEMMA MergedIsApplied ==
    ASSUME running = Applied(Env, stored), NEW v, ~Unsets(v)
    PROVE  Applied(running, Over(v, stored)) = Applied(Env, Over(v, stored))
<1>1. ASSUME NEW k \in Key
      PROVE  Applied(running, Over(v, stored))[k] = Applied(Env, Over(v, stored))[k]
  <2>1. CASE k \in DOMAIN v
    <3>1. v[k] = Blank => running[k] = Env[k]
      BY <2>1 DEF Unsets
    <3> QED BY <2>1, <3>1 DEF Applied, Over
  <2>2. CASE k \notin DOMAIN v
    BY <2>2 DEF Applied, Over
  <2> QED BY <2>1, <2>2
<1> QED BY <1>1 DEF Applied

\* A step of the one request that is being served.
LEMMA InOrderMoves ==
    ASSUME InOrder, NEW h \in Handler, DOMAIN req' = Handler,
           \A g \in Handler \ {h} : req'[g] = req[g],
           updates' = <<>> \/ \E v : updates' = <<v>>,
           calm' => calm /\ Busy \subseteq {h},
           calm' => Consistent(req[h])'
    PROVE  InOrder'
<1> SUFFICES ASSUME calm'
             PROVE  /\ \A g, i \in Busy' : g = i
                    /\ \A g \in Busy' : Consistent(req[g])'
                    /\ Busy' = {} => Consistent(Idle)'
  BY DEF InOrder
<1>1. Busy' \subseteq {h}
  BY DEF Busy
<1>2. \A g \in Busy' : Consistent(req[g])'
  BY <1>1
<1>3. Busy' = {} => Consistent(Idle)'
  <2>1. Busy' = {} => req'[h] = Idle
    BY DEF Busy, Idle
  <2> QED BY <2>1 DEF Consistent, Idle
<1> QED BY <1>1, <1>2, <1>3

\* The request that takes the step is the only one.
LEMMA Alone ==
    ASSUME InOrder, calm, NEW h \in Handler, req[h].at # "idle"
    PROVE  Busy \subseteq {h} /\ Consistent(req[h])
<1>1. h \in Busy
  BY DEF Busy, Idle
<1> QED BY <1>1 DEF InOrder

LEMMA InOrderPatch ==
    ASSUME InOrder, NEW h \in Handler, Read(h) \/ PatchStep(h) \/ Send(h)
    PROVE  InOrder'
<1>0. DOMAIN req = Handler /\ (updates = <<>> \/ \E v : updates = <<v>>)
  BY DEF InOrder
<1>1. CASE Read(h)
  <2>1. PICK v \in Requests : /\ req' = [req EXCEPT ![h] = Merging(v, Over(v, stored))]
                              /\ calm' = (calm /\ Busy = {} /\ ~Unsets(v))
                              /\ UNCHANGED <<stored, running, updates, armed>>
    BY <1>1 DEF Read
  <2>2. calm' => Consistent(Idle)
    BY <2>1 DEF InOrder
  <2>3. req'[h] = Merging(v, Over(v, stored))
    BY <1>0, <2>1
  <2>4. Unsets(v)' <=> Unsets(v)
    BY <2>1 DEF Unsets
  <2>5. calm' => Consistent(req[h])'
    <3>1. calm' => running = Applied(Env, stored) /\ ScheduleHas
      BY <2>2 DEF Consistent, Idle, Delivering
    <3>2. /\ req'[h].at = "merge" /\ req'[h].values = v
          /\ req'[h].current = Over(v, stored)
      BY <2>3 DEF Merging
    <3> QED BY <2>1, <2>4, <3>1, <3>2
            DEF Consistent, Delivering, Stages, ScheduleHas, Unsets
  <2> QED BY <1>0, <2>1, <2>5, InOrderMoves
<1>2. CASE Merge(h)
  <2> DEFINE r == req[h]
             n == IF Refused(r.current) THEN Idle
                  ELSE Saving(r.values, Applied(running, r.current))
  <2>1. /\ r.at = "merge" /\ req' = [req EXCEPT ![h] = n]
        /\ UNCHANGED <<stored, running, updates, armed, calm>>
    BY <1>2 DEF Merge
  <2>2. calm => Consistent(r) /\ Busy \subseteq {h}
    BY <2>1, Alone
  <2>3. calm => /\ running = Applied(Env, stored) /\ ScheduleHas
                /\ Applied(running, r.current) = Applied(Env, Over(r.values, stored))
    BY <2>1, <2>2, MergedIsApplied DEF Consistent, Delivering
  <2>4. req'[h] = n
    BY <1>0, <2>1
  <2>5. calm' => Consistent(req[h])'
    <3>1. CASE Refused(r.current)
      BY <2>1, <2>3, <2>4, <3>1 DEF Consistent, Idle, Delivering, ScheduleHas
    <3>2. CASE ~Refused(r.current)
      <4>1. /\ req'[h].at = "save" /\ req'[h].values = r.values
            /\ req'[h].next = Applied(running, r.current)
        BY <2>4, <3>2 DEF Saving
      <4> QED BY <2>1, <2>3, <4>1 DEF Consistent, Stages, Delivering, ScheduleHas
    <3> QED BY <3>1, <3>2
  <2> QED BY <1>0, <2>1, <2>2, <2>5, InOrderMoves
<1>3. CASE Save(h)
  <2> DEFINE r == req[h]
  <2>1. r.at = "save" /\ UNCHANGED <<running, updates, armed, calm>>
    BY <1>3 DEF Save
  <2>2. calm => Consistent(r) /\ Busy \subseteq {h}
    BY <2>1, Alone
  <2>3. calm => /\ running = Applied(Env, stored) /\ ScheduleHas
                /\ r.next = Applied(Env, Over(r.values, stored))
    BY <2>1, <2>2 DEF Consistent, Delivering
  <2>4. CASE stored' = Over(r.values, stored) /\ req' = [req EXCEPT ![h] = Comparing(r.next)]
    <3>1. req'[h].at = "compare" /\ req'[h].next = r.next
      BY <1>0, <2>4 DEF Comparing
    <3>2. calm' => Consistent(req[h])'
      BY <2>1, <2>3, <2>4, <3>1 DEF Consistent, Stages, Delivering, ScheduleHas
    <3> QED BY <1>0, <2>1, <2>2, <2>4, <3>2, InOrderMoves
  <2>5. CASE req' = [req EXCEPT ![h] = Idle] /\ UNCHANGED stored
    <3>1. req'[h] = Idle
      BY <1>0, <2>5
    <3>2. calm' => Consistent(req[h])'
      BY <2>1, <2>3, <2>5, <3>1 DEF Consistent, Idle, Delivering, ScheduleHas
    <3> QED BY <1>0, <2>1, <2>2, <2>5, <3>2, InOrderMoves
  <2> QED BY <1>3, <2>4, <2>5 DEF Save
<1>4. CASE Compare(h)
  <2> DEFINE r == req[h]
  <2>1. /\ r.at = "compare" /\ UNCHANGED <<stored, running, updates, armed, calm>>
        /\ req' = [req EXCEPT ![h] = Updating(r.next, running[Interval])]
    BY <1>4 DEF Compare
  <2>2. calm => Consistent(r) /\ Busy \subseteq {h}
    BY <2>1, Alone
  <2>3. calm => ScheduleHas /\ r.next = Applied(Env, stored)
    BY <2>1, <2>2 DEF Consistent, Delivering
  <2>4. /\ req'[h].at = "update" /\ req'[h].next = r.next
        /\ req'[h].old = running[Interval]
    BY <1>0, <2>1 DEF Updating
  <2>5. calm' => Consistent(req[h])'
    BY <2>1, <2>3, <2>4 DEF Consistent, Stages, Delivering, ScheduleHas
  <2> QED BY <1>0, <2>1, <2>2, <2>5, InOrderMoves
<1>5. CASE Update(h)
  <2> DEFINE r == req[h]
             n == IF Changed(r) THEN Sending("offer", r.next[Interval]) ELSE Idle
  <2>1. /\ r.at = "update" /\ UNCHANGED <<stored, updates, armed, calm>>
        /\ running' = r.next /\ req' = [req EXCEPT ![h] = n]
    BY <1>5 DEF Update
  <2>2. calm => Consistent(r) /\ Busy \subseteq {h}
    BY <2>1, Alone
  <2>3. calm => ScheduleHas /\ r.next = Applied(Env, stored) /\ r.old = running[Interval]
    BY <2>1, <2>2 DEF Consistent, Delivering
  <2>4. req'[h] = n
    BY <1>0, <2>1
  <2>5. calm' => Consistent(req[h])'
    <3>1. CASE Changed(r)
      <4>1. req'[h].at = "offer" /\ req'[h].interval = running'[Interval]
        BY <2>1, <2>4, <3>1 DEF Sending
      <4> QED BY <2>1, <2>3, <4>1 DEF Consistent, Stages, Delivering
    <3>2. CASE ~Changed(r)
      BY <2>1, <2>3, <2>4, <3>2 DEF Changed, Consistent, Idle, Delivering, ScheduleHas
    <3> QED BY <3>1, <3>2
  <2> QED BY <1>0, <2>1, <2>2, <2>5, InOrderMoves
<1>6. CASE Offer(h) \/ Drain(h) \/ Send(h)
  <2> DEFINE r == req[h]
  <2>1. r.at \in Delivering /\ UNCHANGED <<stored, running, armed, calm>>
    BY <1>6 DEF Offer, Drain, Send, Delivering
  <2>2. calm => Consistent(r) /\ Busy \subseteq {h}
    BY <2>1, Alone DEF Delivering
  <2>3. calm => running = Applied(Env, stored) /\ r.interval = running[Interval]
    BY <2>1, <2>2 DEF Consistent
  <2>4. CASE Sent(h)
    <3>1. req'[h] = Idle /\ updates' = <<r.interval>>
      BY <1>0, <2>4 DEF Sent
    <3>2. calm' => Consistent(req[h])'
      BY <2>1, <2>3, <3>1 DEF Consistent, Idle, Delivering, ScheduleHas
    <3> QED BY <1>0, <2>1, <2>2, <2>4, <3>1, <3>2, InOrderMoves DEF Sent
  <2>5. ASSUME NEW x \in {"drain", "send"}, req' = [req EXCEPT ![h].at = x],
               UNCHANGED updates \/ updates' = <<>>
        PROVE  InOrder'
    <3>1. req'[h] = [r EXCEPT !.at = x]
      BY <1>0, <2>5
    <3>2. calm => req'[h].at = x /\ req'[h].interval = r.interval
      BY <2>2, <3>1
    <3>3. calm' => Consistent(req[h])'
      BY <2>1, <2>3, <3>2 DEF Consistent, Stages, Delivering
    <3> QED BY <1>0, <2>1, <2>2, <2>5, <3>3, InOrderMoves
  <2> QED BY <1>6, <2>4, <2>5 DEF Offer, Drain, Send
<1> QED BY <1>1, <1>2, <1>3, <1>4, <1>5, <1>6 DEF PatchStep

LEMMA InOrderNext ==
    ASSUME InOrder, [Next]_vars
    PROVE  InOrder'
<1>1. CASE \E h \in Handler : Read(h) \/ PatchStep(h) \/ Send(h)
  BY <1>1, InOrderPatch
<1>2. CASE Tick \/ Fire \/ UNCHANGED vars
  BY <1>2 DEF Tick, Fire, vars, InOrder, Busy, Consistent, ScheduleHas, Unsets
<1>3. CASE Receive
  <2>1. PICK v : updates = <<v>>
    BY <1>3 DEF Receive, InOrder
  <2>2. /\ armed' = v /\ updates' = <<>>
        /\ UNCHANGED <<stored, running, req, calm>>
    BY <1>3, <2>1 DEF Receive
  <2>3. ScheduleHas => ScheduleHas'
    BY <2>1, <2>2 DEF ScheduleHas
  <2>4. Busy' = Busy /\ \A h \in Busy : req'[h] = req[h]
    BY <2>2 DEF Busy
  <2>5. \A h \in Busy : Consistent(req[h]) => Consistent(req[h])'
    BY <2>2, <2>3 DEF Consistent, Unsets
  <2>6. Consistent(Idle) => Consistent(Idle)'
    BY <2>2, <2>3 DEF Consistent, Unsets
  <2> QED BY <2>2, <2>4, <2>5, <2>6 DEF InOrder
<1>4. CASE Restart
  <2>1. /\ running' = Applied(Env, stored) /\ armed' = running'[Interval]
        /\ updates' = <<>> /\ req' = [h \in Handler |-> Idle] /\ UNCHANGED stored
    BY <1>4 DEF Restart, Booted
  <2>2. Busy' = {} /\ DOMAIN req' = Handler
    BY <2>1 DEF Busy
  <2>3. Consistent(Idle)'
    BY <2>1 DEF Consistent, Idle, Delivering, ScheduleHas
  <2> QED BY <2>1, <2>2, <2>3 DEF InOrder
<1>5. CASE Restore
  BY <1>5 DEF Restore, InOrder
<1> QED BY <1>1, <1>2, <1>3, <1>4, <1>5 DEF Next

\* As long as requests come one after the other, none blanks a setting that
\* overrides the environment's and no backup is restored, a request that has
\* been answered is in force, in the configuration and in the schedule.
THEOREM AnsweredIsInForce == Spec => []CalmMeansInForce
<1>1. Init => InOrder
  <2> SUFFICES ASSUME Init PROVE InOrder
    OBVIOUS
  <2>1. Busy = {} /\ DOMAIN req = Handler /\ updates = <<>>
    BY DEF Init, Busy
  <2>2. running = Applied(Env, stored)
    BY SettingsAssumption DEF Init, Applied
  <2>3. Consistent(Idle)
    BY <2>2 DEF Init, Consistent, Idle, Delivering, ScheduleHas
  <2> QED BY <2>1, <2>3 DEF InOrder
<1>2. InOrder => CalmMeansInForce
  BY DEF InOrder, CalmMeansInForce, InForce, Consistent, Idle, Delivering, ScheduleHas
<1> QED BY <1>1, <1>2, InOrderNext, PTL DEF Spec
=============================================================================
