------------------------------ MODULE Presence ------------------------------
(***************************************************************************)
(* How a device becomes online, suspected and offline                      *)
(* (internal/app/store_discovery.go: upsertSeen, markMisses).              *)
(*                                                                         *)
(* upsertSeen is one transaction.  markMisses is not: it reads every       *)
(* device, then writes absolute values device by device, the UPDATE and    *)
(* the status event being separate statements.  Between its read and its   *)
(* writes an SNMP poll may record that a device was seen (pollTarget calls *)
(* upsertSeen), the user may patch a device, the process may die.  The     *)
(* error of upsertSeen is dropped by the scan, that of every INSERT of an  *)
(* event by its transaction.                                               *)
(*                                                                         *)
(* What goes wrong in these ways is kept, by its cause, in history         *)
(* variables which no action reads: unstored, late, overwritten, torn.     *)
(*                                                                         *)
(* Bug... operators are faulty forms of the definition below them.         *)
(***************************************************************************)
EXTENDS Integers, Sequences, FiniteSets

CONSTANTS
    Device,            \* stored, automatically discovered devices
    Thresholds,        \* values the offline_threshold setting takes
    OccasionalFactor,  \* 4 in the code
    OccasionalMin,     \* 12 in the code
    Cap,               \* counters stop here: above every threshold
    EventLimit         \* events kept by trimStatusEvents, 5000 in the code

ASSUME PresenceAssumption ==
    /\ Thresholds \subseteq Nat \ {0} /\ Thresholds # {}
    /\ OccasionalFactor \in Nat \ {0}
    /\ OccasionalMin \in Nat
    /\ Cap \in Nat
    /\ \A th \in Thresholds : th <= Cap /\ OccasionalFactor * th <= Cap
    /\ OccasionalMin <= Cap
    /\ EventLimit \in Nat \ {0}

VARIABLES
    dev,      \* the devices table
    events,   \* the status_events table, oldest first
    pass,     \* the scan in progress: its phase, threshold and seen set
    stale,    \* rows markMisses read at its start and has still to write
    pending,  \* an event markMisses has still to insert after its UPDATE
    streak,       \* history: misses written since the device was last seen
    unstored,     \* history: devices whose last sighting was not stored
    late,         \* history: devices seen since markMisses read the row it
                  \* has still to write
    overwritten,  \* history: devices whose last stored sighting such a
                  \* write has wiped out
    torn          \* history: devices with a change of status that no event,
                  \* or one out of order, tells of

history == <<streak, unstored, late, overwritten, torn>>
vars == <<dev, events, pass, stale, pending, history>>

StatusName == {"unknown", "online", "suspected_offline", "offline"}
Mode == {"normal", "occasional"}
Record == [status : StatusName, failures : 0 .. Cap, mode : Mode,
           ignored : BOOLEAN]
\* loose is history: the event does not continue the device's one before.
Event == [device : Device, old : StatusName, new : StatusName, loose : BOOLEAN]
NoRows == [d \in {} |-> 0]
NoPass == [phase |-> "idle", threshold |-> 0, seen |-> {}]

\* A device as ensureCore or upsertSeen first stores it.
Fresh == {[status |-> "unknown", failures |-> 0, mode |-> "normal", ignored |-> FALSE],
          [status |-> "online", failures |-> 0, mode |-> "normal", ignored |-> FALSE]}

Init == /\ dev \in [Device -> Fresh]
        /\ events = <<>>
        /\ pass = NoPass
        /\ stale = NoRows
        /\ pending = {}
        /\ streak = [d \in Device |-> 0]
        /\ unstored = {} /\ late = {} /\ overwritten = {} /\ torn = {}

-----------------------------------------------------------------------------

Bump(n) == IF n < Cap THEN n + 1 ELSE Cap

BugDeviceThreshold(r, th) ==
    IF r.mode = "occasional" THEN th * OccasionalFactor ELSE th - 1
\* deviceThreshold in markMisses.
DeviceThreshold(r, th) ==
    IF r.mode = "occasional"
    THEN IF th * OccasionalFactor < OccasionalMin THEN OccasionalMin
                                                  ELSE th * OccasionalFactor
    ELSE th

BugMissStatus(r, th) ==
    IF r.status # "online" THEN r.status
    ELSE IF Bump(r.failures) >= DeviceThreshold(r, th) THEN "offline"
    ELSE "suspected_offline"
\* The status a missed device gets, from the record that was read.
MissStatus(r, th) ==
    LET f == Bump(r.failures) IN
    IF r.status = "unknown" /\ f = 1 THEN "unknown"
    ELSE IF f >= DeviceThreshold(r, th) THEN "offline"
    ELSE "suspected_offline"

BugSighted(r) == [r EXCEPT !.status = "online"]
\* The columns upsertSeen sets on a stored device.
Sighted(r) == [r EXCEPT !.status = "online", !.failures = 0]

\* A poll is recorded between markMisses' UPDATE of the row and its INSERT.
Crossed(d) == \E e \in pending : e.device = d

\* upsertSeen on a stored device: row and event in one transaction.  The
\* INSERT of the event may fail unnoticed and the rest be committed.
Stored(d) ==
    /\ dev'         = [dev EXCEPT ![d] = Sighted(@)]
    /\ streak'      = [streak EXCEPT ![d] = 0]
    /\ unstored'    = unstored \ {d}
    /\ overwritten' = overwritten \ {d}
    /\ late'        = IF d \in DOMAIN stale THEN late \cup {d} ELSE late
    /\ \/ /\ dev[d].status = "online"
          /\ UNCHANGED <<events, torn>>
       \/ /\ dev[d].status # "online"
          /\ events' = Append(events, [device |-> d, old |-> dev[d].status,
                          new |-> "online", loose |-> d \in torn \/ Crossed(d)])
          /\ torn' = IF Crossed(d) THEN torn \cup {d} ELSE torn \ {d}
       \/ /\ dev[d].status # "online"
          /\ torn' = torn \cup {d}
          /\ UNCHANGED events

\* upsertSeen fails (the database is busy or full, or the process is about to
\* die): nothing is stored and nobody is told.
NotStored(d) ==
    /\ streak'   = [streak EXCEPT ![d] = 0]
    /\ unstored' = unstored \cup {d}
    /\ UNCHANGED <<dev, events, late, overwritten, torn>>

Seen(d) == Stored(d) \/ NotStored(d)

\* A scan starts with the threshold configured at that moment.
StartPass ==
    /\ pass.phase = "idle"
    /\ \E th \in Thresholds :
          pass' = [phase |-> "probing", threshold |-> th, seen |-> {}]
    /\ UNCHANGED <<dev, events, stale, pending, history>>

\* The device answers the scan (or is found in the ARP table): its address is
\* marked as seen, then upsertSeen is called and its error dropped.  Nobody
\* reads the mark before every worker is through.
Answer(d) ==
    /\ pass.phase = "probing"
    /\ d \notin pass.seen
    /\ pass' = [pass EXCEPT !.seen = @ \cup {d}]
    /\ Seen(d)
    /\ UNCHANGED <<stale, pending>>

\* The device answers the SNMP poll a former scan (or the user) started, at
\* any moment.
Poll(d) ==
    /\ Seen(d)
    /\ UNCHANGED <<pass, stale, pending>>

Missable(d) == ~dev[d].ignored /\ d \notin pass.seen

\* markMisses reads every device.
ReadDevices ==
    /\ pass.phase = "probing"
    /\ pass'  = [pass EXCEPT !.phase = "marking"]
    /\ stale' = [d \in {x \in Device : Missable(x)} |-> dev[d]]
    /\ late' = {}
    /\ UNCHANGED <<dev, events, pending, streak, unstored, overwritten, torn>>

\* The old_status of a miss event: the one that was read.
Previous(d) == stale[d].status

\* UPDATE devices SET consecutive_failures=?,status=?: values computed from
\* what was read, whatever the row holds now.
WriteMiss(d) ==
    LET status == MissStatus(stale[d], pass.threshold) IN
    /\ pass.phase = "marking" /\ pending = {}
    /\ d \in DOMAIN stale
    /\ dev' = [dev EXCEPT ![d].status = status,
                          ![d].failures = Bump(stale[d].failures)]
    /\ stale' = [x \in DOMAIN stale \ {d} |-> stale[x]]
    /\ pending' = IF status = stale[d].status THEN {}
                  ELSE {[device |-> d, old |-> Previous(d), new |-> status,
                         loose |-> FALSE]}
    /\ streak' = [streak EXCEPT ![d] = Bump(@)]
    /\ late' = late \ {d}
    /\ overwritten' = overwritten \cup (late \cap {d})
    /\ torn' = torn \cup (late \cap {d})
    /\ UNCHANGED <<events, pass, unstored>>

\* INSERT INTO status_events, the statement after the UPDATE; its error is
\* dropped.
WriteEvent ==
    /\ \E e \in pending :
          \/ /\ events' = Append(events, [e EXCEPT !.loose = e.device \in torn])
             /\ UNCHANGED torn
          \/ /\ torn' = torn \cup {e.device}
             /\ UNCHANGED events
    /\ pending' = {}
    /\ UNCHANGED <<dev, pass, stale, streak, unstored, late, overwritten>>

BugTrim(log) ==
    IF Len(log) > EventLimit THEN SubSeq(log, 1, EventLimit) ELSE log
\* DELETE ... NOT IN (the EventLimit newest).
Trim(log) ==
    IF Len(log) > EventLimit THEN SubSeq(log, Len(log) - EventLimit + 1, Len(log))
                             ELSE log

\* markMisses is through: trimStatusEvents, and the scan ends.
EndPass ==
    /\ pass.phase = "marking" /\ DOMAIN stale = {} /\ pending = {}
    /\ events' = Trim(events)
    /\ pass' = NoPass
    /\ UNCHANGED <<dev, stale, pending, history>>

\* PATCH /api/devices/{id}: ignore or not, presence mode.
Patch(d) ==
    /\ \E i \in BOOLEAN, m \in Mode :
          /\ <<i, m>> # <<dev[d].ignored, dev[d].mode>>
          /\ dev' = [dev EXCEPT ![d].ignored = i, ![d].mode = m]
    /\ UNCHANGED <<events, pass, stale, pending, history>>

\* The process dies during a scan, or a statement of markMisses fails and it
\* returns early: what is written stays written.  (The bound on the log is
\* the model's: only EndPass trims it.)
Crash ==
    /\ Len(events) <= EventLimit
    /\ pass.phase # "idle"
    /\ pass' = NoPass /\ stale' = NoRows /\ pending' = {}
    /\ late' = {}
    /\ torn' = torn \cup {e.device : e \in pending}
    /\ UNCHANGED <<dev, events, streak, unstored, overwritten>>

\* runMaintenance, at any moment: what is older than history_retention_days
\* is deleted.
Retain ==
    /\ \E n \in DOMAIN events : events' = SubSeq(events, n + 1, Len(events))
    /\ UNCHANGED <<dev, pass, stale, pending, history>>

Next == \/ StartPass \/ ReadDevices \/ WriteEvent \/ EndPass \/ Crash \/ Retain
        \/ \E d \in Device : \/ Answer(d) \/ Poll(d) \/ WriteMiss(d)
                             \/ Patch(d)

Spec == Init /\ [][Next]_vars

\* The schedule keeps starting scans and a scan, once started, goes through.
FairSpec == /\ Spec
            /\ WF_vars(StartPass) /\ WF_vars(ReadDevices)
            /\ WF_vars(WriteEvent) /\ WF_vars(EndPass)
            /\ \A d \in Device : WF_vars(WriteMiss(d))

-----------------------------------------------------------------------------

\* Every variable holds a value of its kind.
TypeOK ==
    /\ dev \in [Device -> Record]
    /\ events \in Seq(Event)
    /\ pass \in [phase : {"idle", "probing", "marking"},
                 threshold : Thresholds \cup {0}, seen : SUBSET Device]
    /\ DOMAIN stale \subseteq Device
    /\ \A d \in DOMAIN stale : stale[d] \in Record
    /\ pending \subseteq Event
    /\ streak \in [Device -> 0 .. Cap]
    /\ unstored \subseteq Device /\ late \subseteq DOMAIN stale
    /\ overwritten \subseteq Device /\ torn \subseteq Device

\* consecutive_failures counts exactly the misses since the device was last
\* seen, although markMisses writes it from an earlier read and polls, edits
\* and crashes come in between; except for a device whose last sighting was
\* not stored, or was wiped out by a miss read before it: until it is seen
\* again.
FailuresExact ==
    \A d \in Device \ (unstored \cup overwritten) : dev[d].failures = streak[d]

TurnsOffline(d) == dev[d].status # "offline" /\ dev'[d].status = "offline"
Earned(d) == streak'[d] >= DeviceThreshold(stale[d], pass.threshold)

\* README.md:235 and :239: a device turns offline only after as many misses
\* in a row, with no sighting in between, as its presence mode asks for;
\* polls, scans, edits and crashes in any order.  The sightings that do not
\* stop it are those that were not stored, and those recorded between a
\* pass's read of the row and its write.
OfflineEarned ==
    [][\A d \in Device \ (unstored' \cup overwritten') :
          TurnsOffline(d) => Earned(d)]_vars

\* What the README says without the second exception: every sighting that was
\* stored stops the count.
EverySightingCounts ==
    [][\A d \in Device \ unstored' : TurnsOffline(d) => Earned(d)]_vars

\* With a threshold of two or more a device does not drop from online to
\* offline, it is suspected first; unless it came online after the pass had
\* read it.
SuspectedFirst ==
    [][\A d \in Device \ late :
          dev[d].status = "online" /\ TurnsOffline(d) => pass.threshold = 1]_vars

EventsOf(d) == {i \in DOMAIN events : events[i].device = d}
Follows(d, i, j) == i < j /\ \A k \in EventsOf(d) : k <= i \/ j <= k
Latest(d, i) == \A k \in EventsOf(d) : k <= i

\* The event list tells one story per device: each event starts where the
\* one before it ended, and the last one ended at the present status (or at
\* the status the pending event starts from).  A gap has a cause: an INSERT
\* that failed, a death between UPDATE and INSERT, a poll recorded between
\* them or between markMisses' read and its UPDATE; and it ends with the next
\* event of a sighting.
EventsChain ==
    \A d \in Device : \A i \in EventsOf(d) :
        /\ \A j \in EventsOf(d) :
              Follows(d, i, j) => events[j].loose \/ events[i].new = events[j].old
        /\ Latest(d, i) =>
             \/ d \in torn
             \/ events[i].new = dev[d].status
             \/ \E e \in pending : e.device = d /\ events[i].new = e.old

\* A device that no scan and no poll ever sees again is, as long as the
\* process stays up, offline again and again, or found ignored.  (A crash
\* with nothing left to write is no different from the end of the pass.
\* markMisses goes by address: here no device takes the address of another.)
SilentGoesOffline == \A d \in Device :
    <>[][~Answer(d) /\ ~Poll(d) /\ (Crash => EndPass)]_vars
        => []<>(dev[d].status = "offline" \/ dev[d].ignored)
=============================================================================
