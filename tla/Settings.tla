------------------------------ MODULE Settings ------------------------------
(***************************************************************************)
(* How a saved setting comes into force (internal/app/server_settings.go:  *)
(* patchSettings, replaceScanInterval; config.go: applyStoredSettings;     *)
(* server.go: Run, schedule; server_backup.go: restore).                   *)
(*                                                                         *)
(* A setting lives in up to four places: the settings table, the running   *)
(* configuration of the scanner, the one-place channel intervalUpdates,    *)
(* and the timer of the schedule loop.  patchSettings reads the table and  *)
(* the configuration, saves its own values, then replaces the whole        *)
(* configuration; each of these takes a lock or a statement of its own, so *)
(* requests interleave between them.                                       *)
(*                                                                         *)
(* Bug... operators are faulty forms of the definition below them.         *)
(***************************************************************************)
EXTENDS Naturals, Sequences, FiniteSets

CONSTANTS
    Handler,   \* PATCH /api/settings requests that may be served at once
    Key,       \* settings that applyStoredSettings looks at
    Interval,  \* the key scan_interval
    Valid,     \* values applyStoredSettings accepts
    Blank,     \* the empty string: accepted, and overrides nothing (scan_interface,
               \* which is set to it, is not among the keys)
    Env,       \* the configuration loadConfig makes of the environment
    Requests,  \* bodies of requests: values for some of the keys
    Restores   \* may a backup be restored?

Partial(S) == UNION {[ks -> S] : ks \in SUBSET Key}

ASSUME SettingsAssumption ==
    /\ Interval \in Key
    /\ Blank \notin Valid
    /\ Env \in [Key -> Valid]
    /\ \A r \in Requests : DOMAIN r \subseteq Key
    \* Values of scan_interval are lengths of time.
    /\ Env[Interval] \in Nat \ {0}
    /\ \A r \in Requests : (Interval \in DOMAIN r /\ r[Interval] \in Valid)
                              => r[Interval] \in Nat \ {0}
    /\ Restores \in BOOLEAN

VARIABLES
    stored,   \* the settings table
    running,  \* Scanner.cfg, guarded by Scanner.mu
    updates,  \* the channel intervalUpdates, of capacity 1
    armed,    \* the local variable interval of schedule
    timer,    \* the time until schedule's timer fires; empty when it is stopped
    req,      \* per handler: where it stands, and its locals
    saved,    \* history: the values that have been committed
    calm      \* history: since the start nothing happened that the code's
              \* order of reads and writes does not cater for

vars == <<stored, running, updates, armed, timer, req, saved, calm>>

Idle == [at |-> "idle"]

\* The locals of patchSettings that are still needed: values and current,
\* then nextConfig and oldInterval, then the interval to send.
Merging(v, cur)   == [at |-> "merge", values |-> v, current |-> cur]
Saving(v, next)   == [at |-> "save", values |-> v, next |-> next]
Comparing(next)   == [at |-> "compare", next |-> next]
Updating(next, d) == [at |-> "update", next |-> next, old |-> d]
Sending(at, d)    == [at |-> at, interval |-> d]

Busy == {h \in Handler : req[h] # Idle}

\* applyStoredSettings: the table overrides what it is given.
Applied(c, s) ==
    [k \in Key |-> IF k \in DOMAIN s /\ s[k] # Blank THEN s[k] ELSE c[k]]

\* It returns an error if a value is out of bounds.
Refused(s) == \E k \in DOMAIN s : s[k] \notin Valid \cup {Blank}

Pairs(s) == {<<k, s[k]>> : k \in DOMAIN s}

\* Run: the stored settings are laid over the environment.
Booted(s) == /\ running' = Applied(Env, s)
             /\ armed'   = running'[Interval]
             /\ timer'   = {armed'}
             /\ updates' = <<>>
             /\ req'     = [h \in Handler |-> Idle]
             /\ calm'    = TRUE

Init == /\ stored = <<>>
        /\ running = Env
        /\ armed = Env[Interval] /\ timer = {armed}
        /\ updates = <<>>
        /\ req = [h \in Handler |-> Idle]
        /\ saved = {}
        /\ calm = TRUE

-----------------------------------------------------------------------------
\* patchSettings.

\* The body blanks a setting that overrides the environment's.
Unsets(v) == \E k \in DOMAIN v : v[k] = Blank /\ Applied(Env, stored)[k] # Env[k]

\* The table s with the values v laid over it.
Over(v, s) ==
    [k \in DOMAIN v \cup DOMAIN s |-> IF k \in DOMAIN v THEN v[k] ELSE s[k]]

\* current, _ := s.store.settings(), and values laid over it.
Read(h) ==
    /\ req[h] = Idle
    /\ \E v \in Requests :
          /\ req' = [req EXCEPT ![h] = Merging(v, Over(v, stored))]
          /\ calm' = (calm /\ Busy = {} /\ ~Unsets(v))
    /\ UNCHANGED <<stored, running, updates, armed, timer, saved>>

\* nextConfig := applyStoredSettings(s.scanner.config(), current); an error
\* answers 400.
Merge(h) ==
    LET r == req[h] IN
    /\ r.at = "merge"
    /\ req' = [req EXCEPT ![h] =
                 IF Refused(r.current) THEN Idle
                 ELSE Saving(r.values, Applied(running, r.current))]
    /\ UNCHANGED <<stored, running, updates, armed, timer, saved, calm>>

BugSave(h) ==
    LET r == req[h] IN
    /\ r.at = "save"
    /\ req' = [req EXCEPT ![h] = Comparing(r.next)]
    /\ \/ stored' = Over(r.values, stored) /\ saved' = saved \cup Pairs(r.values)
       \/ UNCHANGED <<stored, saved>>
    /\ UNCHANGED <<running, updates, armed, timer, calm>>
\* saveSettings, one transaction; if it fails the request is answered 500.
Save(h) ==
    LET r == req[h] IN
    /\ r.at = "save"
    /\ \/ /\ stored' = Over(r.values, stored)
          /\ saved'  = saved \cup Pairs(r.values)
          /\ req'    = [req EXCEPT ![h] = Comparing(r.next)]
       \/ /\ req' = [req EXCEPT ![h] = Idle]
          /\ UNCHANGED <<stored, saved>>
    /\ UNCHANGED <<running, updates, armed, timer, calm>>

\* oldInterval := s.scanner.config().ScanInterval
Compare(h) ==
    /\ req[h].at = "compare"
    /\ req' = [req EXCEPT ![h] = Updating(@.next, running[Interval])]
    /\ UNCHANGED <<stored, running, updates, armed, timer, saved, calm>>

BugChanged(r) == FALSE
\* nextConfig.ScanInterval != oldInterval
Changed(r) == r.next[Interval] # r.old

\* s.scanner.UpdateConfig(nextConfig)
Update(h) ==
    LET r == req[h] IN
    /\ r.at = "update"
    /\ running' = r.next
    /\ req' = [req EXCEPT ![h] =
                 IF Changed(r) THEN Sending("offer", r.next[Interval]) ELSE Idle]
    /\ UNCHANGED <<stored, updates, armed, timer, saved, calm>>

-----------------------------------------------------------------------------
\* replaceScanInterval: offer the new interval; if the channel is full, take
\* the old one out and send.

Sent(h) == /\ updates' = <<req[h].interval>>
           /\ req' = [req EXCEPT ![h] = Idle]

Offer(h) ==
    /\ req[h].at = "offer"
    /\ IF updates = <<>> THEN Sent(h)
       ELSE req' = [req EXCEPT ![h].at = "drain"] /\ UNCHANGED updates
    /\ UNCHANGED <<stored, running, armed, timer, saved, calm>>

BugDrain(h) ==
    /\ req[h].at = "drain" /\ updates # <<>>
    /\ updates' = <<>>
    /\ req' = [req EXCEPT ![h].at = "send"]
    /\ UNCHANGED <<stored, running, armed, timer, saved, calm>>
Drain(h) ==
    /\ req[h].at = "drain"
    /\ updates' = <<>>
    /\ req' = [req EXCEPT ![h].at = "send"]
    /\ UNCHANGED <<stored, running, armed, timer, saved, calm>>

\* A send on the channel waits until the channel is empty.
Send(h) ==
    /\ req[h].at = "send" /\ updates = <<>>
    /\ Sent(h)
    /\ UNCHANGED <<stored, running, armed, timer, saved, calm>>

-----------------------------------------------------------------------------
\* schedule.

Tick == /\ \E t \in timer : t > 0 /\ timer' = {t - 1}
        /\ UNCHANGED <<stored, running, updates, armed, req, saved, calm>>

\* case <-t.C: Start is called (Scanner.tla), and the timer set again.
Fire == /\ 0 \in timer
        /\ timer' = {armed}
        /\ UNCHANGED <<stored, running, updates, armed, req, saved, calm>>

BugStopped(interval) == {}
\* t.Reset(interval)
Rearmed(interval) == {interval}

\* case interval = <-s.intervalUpdates: the timer is stopped, a tick that is
\* due is discarded, and the timer set again.
Receive == /\ updates # <<>>
           /\ armed'   = Head(updates)
           /\ timer'   = Rearmed(Head(updates))
           /\ updates' = <<>>
           /\ UNCHANGED <<stored, running, req, saved, calm>>

-----------------------------------------------------------------------------
\* The process and the database file.

\* Run returns an error if it finds a stored value that is out of bounds.
Restart == /\ ~Refused(stored)
           /\ Booted(stored)
           /\ UNCHANGED <<stored, saved>>

\* restore puts another database in place: its settings have been committed
\* at some time.  The new store is handed to the scanner, the configuration
\* is left as it is.
Restore == /\ Restores
           /\ stored' \in {b \in Partial(Valid \cup {Blank}) : Pairs(b) \subseteq saved}
           /\ calm' = FALSE
           /\ UNCHANGED <<running, updates, armed, timer, req, saved>>

PatchStep(h) == \/ Merge(h) \/ Save(h) \/ Compare(h) \/ Update(h)
                \/ Offer(h) \/ Drain(h)

Next == \/ \E h \in Handler : Read(h) \/ PatchStep(h) \/ Send(h)
        \/ Tick \/ Fire \/ Receive
        \/ Restart \/ Restore

Spec == Init /\ [][Next]_vars

\* Handlers and the schedule loop run; time passes.  Senders that wait on a
\* channel are served first come, first served, whence the strong fairness.
Fairness == /\ \A h \in Handler : WF_vars(PatchStep(h)) /\ SF_vars(Send(h))
            /\ WF_vars(Tick) /\ WF_vars(Fire) /\ WF_vars(Receive)

FairSpec == Spec /\ Fairness

-----------------------------------------------------------------------------

Stages == {"merge", "save", "compare", "update", "offer", "drain", "send"}

\* Every variable holds a value of its kind.
TypeOK ==
    /\ DOMAIN stored \subseteq Key
    /\ DOMAIN running = Key
    /\ updates \in Seq(Nat \ {0}) /\ Len(updates) <= 1
    /\ armed \in Nat \ {0}
    /\ timer \subseteq 0 .. armed /\ Cardinality(timer) <= 1
    /\ \A h \in Busy : /\ req[h].at \in Stages
    /\ calm \in BOOLEAN

\* What is in force, on its way to the schedule or armed there has been
\* committed to the table at some time, or comes from the environment: a
\* request that was answered with an error leaves no trace.
OnlySavedInForce ==
    LET Known(k, v) == v = Env[k] \/ <<k, v>> \in saved IN
    /\ \A k \in Key : Known(k, running[k])
    /\ Known(Interval, armed)
    /\ \A i \in DOMAIN updates : Known(Interval, updates[i])

\* The settings that are in force are those a restart would bring, and the
\* schedule has them too.
InForce == /\ running = Applied(Env, stored)
           /\ updates = <<>> => armed = running[Interval]
           /\ updates # <<>> => updates[1] = running[Interval]

\* As long as requests come one after the other, none of them blanks a
\* setting that overrides the environment and no backup is restored, a request
\* that has been answered is in force, through any number of saves, refusals,
\* failures and restarts.
CalmMeansInForce == calm /\ Busy = {} => InForce

\* Every PATCH is answered: the send into the one-place channel cannot block
\* for ever, however many requests race for it.
PatchAnswered == \A h \in Handler : req[h] # Idle ~> req[h] = Idle

\* Scheduled scans keep coming, unless changes of the interval or restarts
\* keep setting the timer again.
ScansKeepComing == <>[][Tick \/ Fire]_timer => []<><<Fire>>_timer

-----------------------------------------------------------------------------
\* What the program's words say and the code does not do.

\* web/scan-settings-core.js:222, "设置已保存并生效" (saved and in force),
\* is shown when the request has been answered.
SavedInForce == Busy = {} => InForce
=============================================================================
