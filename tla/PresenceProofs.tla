--------------------------- MODULE PresenceProofs ---------------------------
(***************************************************************************)
(* Theorems about the presence of devices, for any number of devices, any  *)
(* thresholds and any limit on the events.                                 *)
(***************************************************************************)
EXTENDS Presence, SequenceTheorems, TLAPS

-----------------------------------------------------------------------------
\* Facts about the values the actions build.

LEMMA BumpTyped == \A n \in 0 .. Cap : Bump(n) \in 0 .. Cap
  BY PresenceAssumption DEF Bump

LEMMA MissTyped ==
    ASSUME NEW r, NEW th
    PROVE  MissStatus(r, th) \in StatusName \ {"online"}
  BY DEF MissStatus, StatusName

LEMMA TrimTyped ==
    ASSUME NEW log \in Seq(Event)
    PROVE  Trim(log) \in Seq(Event)
<1>1. Len(log) \in Nat /\ \A i \in 1 .. Len(log) : log[i] \in Event
  OBVIOUS
<1>2. CASE Len(log) > EventLimit
  <2>1. Len(log) - EventLimit + 1 \in 1 .. Len(log)
    BY <1>1, <1>2, PresenceAssumption
  <2>2. \A i \in Len(log) - EventLimit + 1 .. Len(log) : log[i] \in Event
    BY <1>1, <2>1
  <2>3. SubSeq(log, Len(log) - EventLimit + 1, Len(log)) \in Seq(Event)
    BY <1>1, <2>1, <2>2, SubSeqProperties
  <2> QED BY <1>2, <2>3 DEF Trim
<1>3. CASE ~(Len(log) > EventLimit)
  BY <1>3 DEF Trim
<1> QED BY <1>2, <1>3

-----------------------------------------------------------------------------
\* Type correctness.

LEMMA TypeSeen ==
    ASSUME TypeOK, NEW d \in Device, Seen(d), UNCHANGED stale
    PROVE  /\ dev' \in [Device -> Record] /\ events' \in Seq(Event)
           /\ streak' \in [Device -> 0 .. Cap]
           /\ unstored' \subseteq Device /\ late' \subseteq DOMAIN stale'
           /\ overwritten' \subseteq Device /\ torn' \subseteq Device
<1>1. dev[d] \in Record /\ 0 \in 0 .. Cap
  BY PresenceAssumption DEF TypeOK
<1>2. CASE NotStored(d)
  BY <1>1, <1>2 DEF NotStored, TypeOK
<1>3. CASE Stored(d)
  <2>1. Sighted(dev[d]) \in Record
    <3>1. "online" \in StatusName
      BY DEF StatusName
    <3> QED BY <1>1, <3>1 DEF Sighted, Record
  <2>2. \A l \in BOOLEAN :
           [device |-> d, old |-> dev[d].status, new |-> "online", loose |-> l] \in Event
    BY <1>1 DEF Event, Record, StatusName
  <2>3. (d \in torn \/ Crossed(d)) \in BOOLEAN
    BY DEF Crossed
  <2>4. events' \in Seq(Event)
    <3> DEFINE x == [device |-> d, old |-> dev[d].status, new |-> "online",
                     loose |-> d \in torn \/ Crossed(d)]
    <3>1. x \in Event
      BY <2>2, <2>3
    <3>2. events' = Append(events, x) \/ UNCHANGED events
      BY <1>3 DEF Stored
    <3> HIDE DEF x
    <3>3. events \in Seq(Event)
      BY DEF TypeOK
    <3>4. Append(events, x) \in Seq(Event)
      BY <3>1, <3>3
    <3> QED BY <3>2, <3>3, <3>4
  <2> QED BY <1>1, <1>3, <2>1, <2>4 DEF Stored, TypeOK
<1> QED BY <1>2, <1>3 DEF Seen

LEMMA TypeMiss ==
    ASSUME TypeOK, NEW d \in Device, WriteMiss(d)
    PROVE  TypeOK'
<1> DEFINE status == MissStatus(stale[d], pass.threshold)
<1>1. stale[d] \in Record /\ dev[d] \in Record /\ streak[d] \in 0 .. Cap
  BY DEF WriteMiss, TypeOK
<1>2. status \in StatusName /\ Bump(stale[d].failures) \in 0 .. Cap
      /\ Bump(streak[d]) \in 0 .. Cap
  BY <1>1, MissTyped, BumpTyped DEF Record
<1>3. dev' \in [Device -> Record]
  <2>1. [dev[d] EXCEPT !.status = status, !.failures = Bump(stale[d].failures)] \in Record
    BY <1>1, <1>2 DEF Record
  <2> QED BY <2>1 DEF WriteMiss, TypeOK
<1>4. pending' \subseteq Event
  <2>1. [device |-> d, old |-> Previous(d), new |-> status, loose |-> FALSE] \in Event
    BY <1>1, <1>2 DEF Event, Previous, Record
  <2> QED BY <2>1 DEF WriteMiss
<1>5. streak' \in [Device -> 0 .. Cap]
  BY <1>2 DEF WriteMiss, TypeOK
<1>6. DOMAIN stale' \subseteq Device /\ \A x \in DOMAIN stale' : stale'[x] \in Record
  BY DEF WriteMiss, TypeOK
<1>7. late' \subseteq DOMAIN stale' /\ overwritten' \subseteq Device /\ torn' \subseteq Device
  BY DEF WriteMiss, TypeOK
<1> QED BY <1>3, <1>4, <1>5, <1>6, <1>7 DEF WriteMiss, TypeOK

LEMMA TypeEvent ==
    ASSUME TypeOK, WriteEvent
    PROVE  TypeOK'
<1>1. PICK e \in pending :
         \/ /\ events' = Append(events, [e EXCEPT !.loose = e.device \in torn])
            /\ UNCHANGED torn
         \/ torn' = torn \cup {e.device} /\ UNCHANGED events
  BY DEF WriteEvent
<1>2. e \in Event /\ e.device \in Device /\ [e EXCEPT !.loose = e.device \in torn] \in Event
  <2>1. (e.device \in torn) \in BOOLEAN
    OBVIOUS
  <2>2. e \in Event
    BY DEF TypeOK
  <2>3. \A l \in BOOLEAN : [e EXCEPT !.loose = l] \in Event
    BY <2>2 DEF Event
  <2> QED BY <2>1, <2>2, <2>3 DEF Event
<1>3. events' \in Seq(Event) /\ torn' \subseteq Device
  <2> DEFINE x == [e EXCEPT !.loose = e.device \in torn]
  <2>1. CASE events' = Append(events, x) /\ UNCHANGED torn
    <3>1. x \in Event
      BY <1>2
    <3> HIDE DEF x
    <3> QED BY <2>1, <3>1 DEF TypeOK
  <2>2. CASE torn' = torn \cup {e.device} /\ UNCHANGED events
    BY <1>2, <2>2 DEF TypeOK
  <2> QED BY <1>1, <2>1, <2>2
<1> QED BY <1>3 DEF WriteEvent, TypeOK

LEMMA TypePatch ==
    ASSUME TypeOK, NEW d \in Device, Patch(d)
    PROVE  TypeOK'
<1>1. PICK i \in BOOLEAN, m \in Mode :
         dev' = [dev EXCEPT ![d].ignored = i, ![d].mode = m]
  BY DEF Patch
<1>2. dev[d] \in Record
  BY DEF TypeOK
<1>3. [dev[d] EXCEPT !.ignored = i, !.mode = m] \in Record
  BY <1>2 DEF Record
<1>4. dev' \in [Device -> Record]
  BY <1>1, <1>3 DEF TypeOK
<1> QED BY <1>4 DEF Patch, history, TypeOK

LEMMA TypeRetain ==
    ASSUME TypeOK, Retain
    PROVE  TypeOK'
<1>1. PICK n \in DOMAIN events : events' = SubSeq(events, n + 1, Len(events))
  BY DEF Retain
<1>2. /\ events \in Seq(Event) /\ Len(events) \in Nat /\ n \in 1 .. Len(events)
      /\ \A i \in 1 .. Len(events) : events[i] \in Event
  BY DEF TypeOK
<1>3. \A i \in n + 1 .. Len(events) : events[i] \in Event
  BY <1>2
<1>4. events' \in Seq(Event)
  BY <1>1, <1>2, <1>3, SubSeqProperties
<1> QED BY <1>4 DEF Retain, history, TypeOK

LEMMA TypeInit == Init => TypeOK
<1> SUFFICES ASSUME Init PROVE TypeOK
  OBVIOUS
<1>1. Fresh \subseteq Record
  BY PresenceAssumption DEF Fresh, Record, StatusName, Mode
<1>2. dev \in [Device -> Record]
  BY <1>1 DEF Init
<1>3. streak \in [Device -> 0 .. Cap]
  BY PresenceAssumption DEF Init
<1>4. DOMAIN stale = {}
  BY DEF Init, NoRows
<1>5. events \in Seq(Event) /\ pending = {} /\ pass = NoPass
  BY DEF Init
<1>6. unstored = {} /\ late = {} /\ overwritten = {} /\ torn = {}
  BY DEF Init
<1> QED BY <1>2, <1>3, <1>4, <1>5, <1>6 DEF TypeOK, NoPass

LEMMA TypeNext == TypeOK /\ [Next]_vars => TypeOK'
<1> SUFFICES ASSUME TypeOK, [Next]_vars PROVE TypeOK'
  OBVIOUS
<1>1. CASE StartPass
  <2>1. PICK th \in Thresholds : pass' = [phase |-> "probing", threshold |-> th, seen |-> {}]
    BY <1>1 DEF StartPass
  <2> QED BY <1>1, <2>1 DEF StartPass, history, TypeOK
<1>2. CASE \E d \in Device : Answer(d)
  <2>1. PICK d \in Device : Answer(d)
    BY <1>2
  <2>2. pass' = [pass EXCEPT !.seen = @ \cup {d}] /\ pass.seen \cup {d} \in SUBSET Device
    BY <2>1 DEF Answer, TypeOK
  <2>3. pass' \in [phase : {"idle", "probing", "marking"},
                   threshold : Thresholds \cup {0}, seen : SUBSET Device]
    BY <2>2 DEF TypeOK
  <2> QED BY <2>1, <2>3, TypeSeen DEF Answer, TypeOK
<1>3. CASE \E d \in Device : Poll(d)
  BY <1>3, TypeSeen DEF Poll, TypeOK
<1>4. CASE ReadDevices
  <2>1. pass' \in [phase : {"idle", "probing", "marking"},
                   threshold : Thresholds \cup {0}, seen : SUBSET Device]
    BY <1>4 DEF ReadDevices, TypeOK
  <2>2. DOMAIN stale' \subseteq Device /\ \A d \in DOMAIN stale' : stale'[d] \in Record
    BY <1>4 DEF ReadDevices, TypeOK
  <2> QED BY <1>4, <2>1, <2>2 DEF ReadDevices, TypeOK
<1>5. CASE \E d \in Device : WriteMiss(d)
  BY <1>5, TypeMiss
<1>6. CASE WriteEvent
  BY <1>6, TypeEvent
<1>7. CASE EndPass
  BY <1>7, TrimTyped DEF EndPass, TypeOK, NoPass, history
<1>8. CASE \E d \in Device : Patch(d)
  BY <1>8, TypePatch
<1>9. CASE Crash
  <2>1. torn' \subseteq Device
    BY <1>9 DEF Crash, TypeOK, Event
  <2> QED BY <1>9, <2>1 DEF Crash, TypeOK, NoPass, NoRows
<1>10. CASE Retain
  BY <1>10, TypeRetain
<1>11. CASE UNCHANGED vars
  BY <1>11 DEF vars, history, TypeOK
<1> QED BY <1>1, <1>2, <1>3, <1>4, <1>5, <1>6, <1>7, <1>8, <1>9, <1>10, <1>11 DEF Next

\* Every variable holds a value of its kind, for any number of devices.
THEOREM TypeCorrect == Spec => []TypeOK
  BY TypeInit, TypeNext, PTL DEF Spec

-----------------------------------------------------------------------------
\* What markMisses has read and has still to write is what is stored, unless
\* the device was seen since.

\* Inductive.
Current ==
    /\ FailuresExact
    /\ \A d \in Device : dev[d].status = "online" => dev[d].failures = 0
    /\ \A d \in DOMAIN stale \ late : /\ stale[d].failures = dev[d].failures
                                       /\ stale[d].status = dev[d].status
    /\ DOMAIN stale # {} => pass.phase = "marking"
    /\ pass.phase # "idle" => pass.threshold \in Thresholds

LEMMA CurrentSeen ==
    ASSUME TypeOK, Current, NEW d \in Device, Seen(d), UNCHANGED stale,
           UNCHANGED <<pass.phase, pass.threshold>>
    PROVE  Current'
<1>1. CASE NotStored(d)
  <2>1. /\ UNCHANGED <<dev, late, overwritten>> /\ d \in unstored'
        /\ unstored \subseteq unstored'
        /\ \A e \in Device \ {d} : streak'[e] = streak[e]
    BY <1>1 DEF NotStored, TypeOK
  <2> QED BY <2>1 DEF Current, FailuresExact
<1>2. CASE Stored(d)
  <2>1. /\ dev'[d] = [dev[d] EXCEPT !.status = "online", !.failures = 0]
        /\ streak'[d] = 0
        /\ \A e \in Device \ {d} : dev'[e] = dev[e] /\ streak'[e] = streak[e]
    BY <1>2 DEF Stored, Sighted, TypeOK
  <2>2. dev'[d].failures = 0
    BY <2>1 DEF TypeOK, Record
  <2>3. /\ \A e \in Device \ {d} : /\ e \in unstored' <=> e \in unstored
                                   /\ e \in overwritten' <=> e \in overwritten
        /\ late \subseteq late' /\ (d \in DOMAIN stale => d \in late')
    BY <1>2 DEF Stored
  <2>4. FailuresExact' /\ \A e \in Device : dev'[e].status = "online" => dev'[e].failures = 0
    BY <2>1, <2>2, <2>3 DEF Current, FailuresExact
  <2>5. \A e \in DOMAIN stale' \ late' : /\ stale'[e].failures = dev'[e].failures
                                          /\ stale'[e].status = dev'[e].status
    BY <2>1, <2>3 DEF Current, TypeOK
  <2> QED BY <2>4, <2>5 DEF Current
<1> QED BY <1>1, <1>2 DEF Seen

LEMMA CurrentMiss ==
    ASSUME TypeOK, Current, NEW d \in Device, WriteMiss(d)
    PROVE  Current'
<1> DEFINE status == MissStatus(stale[d], pass.threshold)
<1>1. /\ d \in DOMAIN stale /\ pass.phase = "marking" /\ UNCHANGED <<pass, unstored>>
      /\ dev' = [dev EXCEPT ![d].status = status, ![d].failures = Bump(stale[d].failures)]
      /\ stale' = [x \in DOMAIN stale \ {d} |-> stale[x]]
      /\ streak' = [streak EXCEPT ![d] = Bump(@)]
      /\ late' = late \ {d} /\ overwritten' = overwritten \cup (late \cap {d})
  BY DEF WriteMiss
<1>2. dev[d] \in Record
  BY DEF TypeOK
<1>3. dev'[d].status = status /\ dev'[d].failures = Bump(stale[d].failures)
      /\ streak'[d] = Bump(streak[d])
  BY <1>1, <1>2 DEF TypeOK, Record
<1>4. \A e \in Device \ {d} : dev'[e] = dev[e] /\ streak'[e] = streak[e]
  BY <1>1 DEF TypeOK
<1>5. status # "online"
  BY MissTyped
<1>6. \A x \in DOMAIN stale' : x \in DOMAIN stale /\ x \in Device \ {d} /\ stale'[x] = stale[x]
  BY <1>1 DEF TypeOK
<1>7. FailuresExact'
  <2> SUFFICES ASSUME NEW e \in Device, e \notin unstored', e \notin overwritten'
               PROVE  dev'[e].failures = streak'[e]
    BY DEF FailuresExact
  <2>1. CASE e # d
    BY <1>1, <1>4, <2>1 DEF Current, FailuresExact
  <2>2. CASE e = d
    <3>1. d \notin late /\ d \notin unstored /\ d \notin overwritten
      BY <1>1, <2>2
    <3>2. stale[d].failures = dev[d].failures /\ dev[d].failures = streak[d]
      BY <1>1, <3>1 DEF Current, FailuresExact
    <3> QED BY <1>3, <2>2, <3>2
  <2> QED BY <2>1, <2>2
<1>8. \A e \in Device : dev'[e].status = "online" => dev'[e].failures = 0
  BY <1>3, <1>4, <1>5 DEF Current
<1>9. \A e \in DOMAIN stale' \ late' : /\ stale'[e].failures = dev'[e].failures
                                        /\ stale'[e].status = dev'[e].status
  BY <1>1, <1>4, <1>6 DEF Current
<1> QED BY <1>1, <1>6, <1>7, <1>8, <1>9 DEF Current

LEMMA CurrentNext == TypeOK /\ Current /\ [Next]_vars => Current'
<1> SUFFICES ASSUME TypeOK, Current, [Next]_vars PROVE Current'
  OBVIOUS
<1>1. CASE StartPass
  BY <1>1 DEF StartPass, history, Current, FailuresExact
<1>2. CASE \E d \in Device : Answer(d) \/ Poll(d)
  <2>1. PICK d \in Device : Answer(d) \/ Poll(d)
    BY <1>2
  <2>2. Seen(d) /\ UNCHANGED stale
    BY <2>1 DEF Answer, Poll
  <2>3. UNCHANGED <<pass.phase, pass.threshold>>
    BY <2>1 DEF Answer, Poll, TypeOK
  <2> QED BY <2>2, <2>3, CurrentSeen
<1>3. CASE ReadDevices
  <2>1. /\ \A d \in DOMAIN stale' : d \in Device /\ stale'[d] = dev[d]
        /\ UNCHANGED <<dev, streak, unstored, overwritten>> /\ pass.phase = "probing"
    BY <1>3 DEF ReadDevices
  <2>2. pass'.phase = "marking" /\ pass'.threshold = pass.threshold
    BY <1>3 DEF ReadDevices, TypeOK
  <2> QED BY <2>1, <2>2 DEF Current, FailuresExact
<1>4. CASE \E d \in Device : WriteMiss(d)
  BY <1>4, CurrentMiss
<1>5. CASE WriteEvent \/ Retain \/ UNCHANGED vars
  BY <1>5 DEF WriteEvent, Retain, vars, history, Current, FailuresExact
<1>6. CASE EndPass
  BY <1>6 DEF EndPass, NoPass, history, Current, FailuresExact
<1>7. CASE \E d \in Device : Patch(d)
  <2>1. PICK d \in Device, i \in BOOLEAN, m \in Mode :
           /\ dev' = [dev EXCEPT ![d].ignored = i, ![d].mode = m]
           /\ UNCHANGED <<pass, stale, history>>
    BY <1>7 DEF Patch
  <2>2. \A e \in Device : dev'[e].status = dev[e].status /\ dev'[e].failures = dev[e].failures
    BY <2>1 DEF TypeOK, Record
  <2>3. DOMAIN stale \subseteq Device
    BY DEF TypeOK
  <2> QED BY <2>1, <2>2, <2>3 DEF history, Current, FailuresExact
<1>8. CASE Crash
  BY <1>8 DEF Crash, NoPass, NoRows, Current, FailuresExact
<1> QED BY <1>1, <1>2, <1>3, <1>4, <1>5, <1>6, <1>7, <1>8 DEF Next

LEMMA CurrentInit == Init => Current
<1> SUFFICES ASSUME Init PROVE Current
  OBVIOUS
<1>1. \A d \in Device : dev[d].failures = 0 /\ streak[d] = 0
  BY DEF Init, Fresh
<1>2. DOMAIN stale = {} /\ pass.phase = "idle"
  BY DEF Init, NoRows, NoPass
<1> QED BY <1>1, <1>2 DEF Current, FailuresExact

\* Whatever polls, edits, crashes and failing statements come between the
\* steps of markMisses: consecutive_failures counts exactly the misses since
\* the device was last seen, but for a device whose last sighting was not
\* stored or was wiped out by a miss read before it.
THEOREM FailuresCounted == Spec => []FailuresExact
<1>1. Current => FailuresExact
  BY DEF Current
<1> QED BY <1>1, CurrentNext, CurrentInit, TypeCorrect, PTL DEF Spec

-----------------------------------------------------------------------------
\* What a step to offline takes.

\* Only a miss makes a device offline.
LEMMA OnlyMisses ==
    ASSUME TypeOK, [Next]_vars, NEW d \in Device,
           dev[d].status # "offline", dev'[d].status = "offline"
    PROVE  WriteMiss(d)
<1>1. CASE \E e \in Device : Answer(e) \/ Poll(e)
  <2>1. PICK e \in Device : Seen(e)
    BY <1>1 DEF Answer, Poll
  <2>0. ~NotStored(e)
    BY DEF NotStored
  <2>2. dev[e] \in Record /\ dev'[e] = Sighted(dev[e]) /\ \A x \in Device \ {e} : dev'[x] = dev[x]
    BY <2>1, <2>0 DEF Seen, Stored, TypeOK
  <2>3. dev'[e].status = "online"
    BY <2>2 DEF Sighted, Record
  <2> QED BY <2>2, <2>3
<1>2. CASE \E e \in Device : WriteMiss(e)
  <2>1. PICK e \in Device : WriteMiss(e)
    BY <1>2
  <2>2. \A x \in Device \ {e} : dev'[x] = dev[x]
    BY <2>1 DEF WriteMiss, TypeOK
  <2> QED BY <2>1, <2>2
<1>3. CASE \E e \in Device : Patch(e)
  <2>1. PICK e \in Device, i \in BOOLEAN, m \in Mode :
           dev' = [dev EXCEPT ![e].ignored = i, ![e].mode = m]
    BY <1>3 DEF Patch
  <2>2. \A x \in Device : dev'[x].status = dev[x].status
    BY <2>1 DEF TypeOK, Record
  <2> QED BY <2>2
<1>4. CASE \/ StartPass \/ ReadDevices \/ WriteEvent \/ EndPass \/ Crash \/ Retain
           \/ UNCHANGED vars
  BY <1>4 DEF StartPass, ReadDevices, WriteEvent, EndPass, Crash, Retain, vars
<1> QED BY <1>1, <1>2, <1>3, <1>4 DEF Next

\* What that miss was computed from, where the device was not seen since.
LEMMA WhatItTook ==
    ASSUME TypeOK, Current, [Next]_vars, NEW d \in Device,
           dev[d].status # "offline", dev'[d].status = "offline"
    PROVE  /\ Bump(stale[d].failures) >= DeviceThreshold(stale[d], pass.threshold)
           /\ d \notin late => stale[d].failures = dev[d].failures
           /\ streak'[d] = Bump(streak[d])
           /\ pass.threshold \in Thresholds
           /\ unstored' = unstored /\ overwritten' = overwritten \cup (late \cap {d})
<1>1. WriteMiss(d)
  BY OnlyMisses
<1>2. dev'[d].status = MissStatus(stale[d], pass.threshold) /\ streak'[d] = Bump(streak[d])
  <2>1. dev[d] \in Record
    BY DEF TypeOK
  <2> QED BY <1>1, <2>1 DEF WriteMiss, TypeOK, Record
<1>3. /\ d \notin late => stale[d].failures = dev[d].failures
      /\ pass.threshold \in Thresholds
  BY <1>1 DEF WriteMiss, Current
<1>4. Bump(stale[d].failures) >= DeviceThreshold(stale[d], pass.threshold)
  BY <1>2 DEF MissStatus
<1>5. unstored' = unstored /\ overwritten' = overwritten \cup (late \cap {d})
  BY <1>1 DEF WriteMiss
<1> QED BY <1>2, <1>3, <1>4, <1>5

\* Whatever runs beside the scan: a device turns offline only after as many
\* misses in a row as its presence mode asks for, unless its last sighting was
\* not stored or came between the pass's read of the row and its write.
THEOREM OfflineIsEarned == Spec => OfflineEarned
<1>1. TypeOK /\ Current /\ [Next]_vars =>
        [\A d \in Device \ (unstored' \cup overwritten') :
            TurnsOffline(d) => Earned(d)]_vars
  <2> SUFFICES ASSUME TypeOK, Current, [Next]_vars, NEW d \in Device,
                      d \notin unstored', d \notin overwritten', TurnsOffline(d)
               PROVE  Earned(d)
    OBVIOUS
  <2>1. /\ Bump(stale[d].failures) >= DeviceThreshold(stale[d], pass.threshold)
        /\ d \notin late => stale[d].failures = dev[d].failures
        /\ streak'[d] = Bump(streak[d])
        /\ unstored' = unstored /\ overwritten' = overwritten \cup (late \cap {d})
    BY WhatItTook DEF TurnsOffline
  <2>2. stale[d].failures = streak[d]
    BY <2>1 DEF Current, FailuresExact
  <2> QED BY <2>1, <2>2 DEF Earned
<1> QED BY <1>1, CurrentNext, CurrentInit, TypeCorrect, PTL DEF Spec, OfflineEarned

\* The first miss of a device without failures is one of one.
LEMMA FirstMiss ==
    ASSUME NEW r, NEW th \in Thresholds, Bump(0) >= DeviceThreshold(r, th)
    PROVE  th = 1
<1>1. /\ th \in Nat \ {0} /\ OccasionalFactor \in Nat \ {0}
      /\ OccasionalMin \in Nat /\ Cap \in Nat /\ th <= Cap
  BY PresenceAssumption
<1>2. Bump(0) = 1
  BY <1>1 DEF Bump
<1>3. th * OccasionalFactor \in Nat /\ th * OccasionalFactor >= th
  BY <1>1
<1>4. DeviceThreshold(r, th) \in Nat /\ DeviceThreshold(r, th) >= th
  BY <1>1, <1>3 DEF DeviceThreshold
<1> QED BY <1>1, <1>2, <1>4

\* With a threshold of two or more no device drops from online to offline,
\* unless a poll put it online after the pass had read it.
THEOREM SuspectedComesFirst == Spec => SuspectedFirst
<1>1. TypeOK /\ Current /\ [Next]_vars =>
        [\A d \in Device \ late :
            dev[d].status = "online" /\ TurnsOffline(d) => pass.threshold = 1]_vars
  <2> SUFFICES ASSUME TypeOK, Current, [Next]_vars, NEW d \in Device, d \notin late,
                      dev[d].status = "online", TurnsOffline(d)
               PROVE  pass.threshold = 1
    OBVIOUS
  <2>1. /\ Bump(stale[d].failures) >= DeviceThreshold(stale[d], pass.threshold)
        /\ stale[d].failures = dev[d].failures /\ pass.threshold \in Thresholds
    BY WhatItTook DEF TurnsOffline
  <2>2. dev[d].failures = 0
    BY DEF Current
  <2> QED BY <2>1, <2>2, FirstMiss
<1> QED BY <1>1, CurrentNext, CurrentInit, TypeCorrect, PTL DEF Spec, SuspectedFirst

-----------------------------------------------------------------------------
\* The event list.

\* Inductive.  Between an UPDATE and its INSERT the row is one event ahead of
\* the list; a poll recorded there, like any other gap, leaves the device torn.
Adjacent ==
    \A d \in Device : \A i, j \in EventsOf(d) :
        Follows(d, i, j) => events[j].loose \/ events[i].new = events[j].old

Ahead ==
    \A d \in Device \ torn : \A i \in EventsOf(d) : Latest(d, i) =>
        /\ \A e \in pending : e.device = d => events[i].new = e.old
        /\ (\A e \in pending : e.device # d) => events[i].new = dev[d].status

OnePending ==
    /\ \A e, f \in pending : e = f
    /\ \A e \in pending : e.device \in torn \/ e.new = dev[e.device].status
    /\ pending # {} => pass.phase = "marking"

Chained == Adjacent /\ Ahead /\ OnePending

\* A list without its oldest events.
LEMMA SuffixChained ==
    ASSUME TypeOK, Chained, NEW m \in 1 .. Len(events) + 1,
           events' = SubSeq(events, m, Len(events)), UNCHANGED <<dev, pending, torn>>
    PROVE  Adjacent' /\ Ahead'
<1>1. events \in Seq(Event) /\ Len(events) \in Nat
  BY DEF TypeOK
<1>2. /\ Len(events') = Len(events) + 1 - m
      /\ DOMAIN events' = 1 .. Len(events) + 1 - m
      /\ \A i \in DOMAIN events' : events'[i] = events[i + m - 1]
  <2>1. \A i \in m .. Len(events) : events[i] \in Event
    BY <1>1
  <2> QED BY <1>1, <2>1, SubSeqProperties
<1>3. \A d \in Device : \A i \in EventsOf(d)' :
         i \in Int /\ i + m - 1 \in EventsOf(d) /\ events'[i] = events[i + m - 1]
  BY <1>1, <1>2 DEF EventsOf
<1>4. \A d \in Device : \A k \in EventsOf(d) : k >= m => k - m + 1 \in EventsOf(d)'
  BY <1>1, <1>2 DEF EventsOf
<1>5. \A d \in Device : \A k \in EventsOf(d) : k \in Int
  BY <1>1 DEF EventsOf
<1>6. ASSUME NEW d \in Device, NEW i \in EventsOf(d)', NEW j \in EventsOf(d)',
             Follows(d, i, j)'
      PROVE  events'[j].loose \/ events'[i].new = events'[j].old
  <2>1. \A k \in EventsOf(d) : k <= i + m - 1 \/ j + m - 1 <= k
    <3> SUFFICES ASSUME NEW k \in EventsOf(d), k >= m
                 PROVE  k <= i + m - 1 \/ j + m - 1 <= k
      BY <1>2, <1>3, <1>5 DEF EventsOf
    <3>1. k - m + 1 <= i \/ j <= k - m + 1
      BY <1>4, <1>6 DEF Follows
    <3> QED BY <1>3, <1>5, <3>1
  <2>2. Follows(d, i + m - 1, j + m - 1)
    BY <1>3, <1>6, <2>1 DEF Follows
  <2> QED BY <1>3, <2>2 DEF Chained, Adjacent
<1>7. ASSUME NEW d \in Device, NEW i \in EventsOf(d)', Latest(d, i)'
      PROVE  Latest(d, i + m - 1)
  <2> SUFFICES ASSUME NEW k \in EventsOf(d), k >= m
               PROVE  k <= i + m - 1
    BY <1>2, <1>3, <1>5 DEF Latest, EventsOf
  <2>1. k - m + 1 <= i
    BY <1>4, <1>7 DEF Latest
  <2> QED BY <1>3, <1>5, <2>1
<1>8. ASSUME NEW d \in Device \ torn, NEW i \in EventsOf(d)', Latest(d, i)'
      PROVE  /\ \A e \in pending' : e.device = d => events'[i].new = e.old
             /\ (\A e \in pending' : e.device # d) => events'[i].new = dev'[d].status
  <2>1. /\ i + m - 1 \in EventsOf(d) /\ events'[i] = events[i + m - 1]
        /\ Latest(d, i + m - 1)
    BY <1>3, <1>7, <1>8
  <2> QED BY <2>1 DEF Chained, Ahead
<1> QED BY <1>6, <1>8 DEF Adjacent, Ahead

\* One event more, which starts where the device's last one ended unless it
\* says that it does not; afterwards nothing is pending for the device, or it
\* is torn.
LEMMA AppendChained ==
    ASSUME TypeOK, Chained, NEW x \in Event, events' = Append(events, x),
           x.loose \/ \A i \in EventsOf(x.device) :
                         Latest(x.device, i) => events[i].new = x.old,
           pending' \subseteq pending, pending' # {} => pass'.phase = "marking",
           \A e \in pending \ pending' : e.device = x.device,
           x.device \in torn' \/ (/\ x.new = dev'[x.device].status
                                 /\ \A e \in pending' : e.device # x.device),
           \A d \in Device \ {x.device} : /\ dev'[d].status = dev[d].status
                                          /\ d \in torn' <=> d \in torn
    PROVE  Chained'
<1> DEFINE n == Len(events) + 1
<1>1. /\ n \in Nat /\ n \notin DOMAIN events /\ DOMAIN events = 1 .. n - 1
      /\ DOMAIN events' = 1 .. n /\ events'[n] = x
      /\ \A i \in DOMAIN events : events'[i] = events[i]
  BY DEF TypeOK
<1>2. x.device \in Device
  BY DEF Event
<1> HIDE DEF n
<1>3. \A d \in Device :
         /\ EventsOf(d) \subseteq EventsOf(d)'
         /\ \A i \in EventsOf(d)' : i \in Int /\ i <= n /\ (i < n => i \in EventsOf(d))
         /\ d # x.device => EventsOf(d)' = EventsOf(d)
  <2> SUFFICES ASSUME NEW d \in Device
               PROVE  /\ EventsOf(d) \subseteq EventsOf(d)'
                      /\ \A i \in EventsOf(d)' :
                            i \in Int /\ i <= n /\ (i < n => i \in EventsOf(d))
                      /\ d # x.device => EventsOf(d)' = EventsOf(d)
    OBVIOUS
  <2>1. \A i : i \in EventsOf(d)' <=> i \in 1 .. n /\ events'[i].device = d
    BY <1>1 DEF EventsOf
  <2>2. \A i : i \in EventsOf(d) <=> i \in 1 .. n - 1 /\ events[i].device = d
    BY <1>1 DEF EventsOf
  <2>3. \A i \in 1 .. n - 1 : i \in 1 .. n /\ events'[i] = events[i]
    BY <1>1
  <2>4. \A i \in 1 .. n : i = n \/ i \in 1 .. n - 1
    BY <1>1
  <2>5. EventsOf(d) \subseteq EventsOf(d)'
    BY <2>1, <2>2, <2>3
  <2>6. \A i \in EventsOf(d)' : i = n \/ i \in EventsOf(d)
    BY <2>1, <2>2, <2>3, <2>4
  <2>7. \A i \in EventsOf(d)' : i \in Int /\ i <= n /\ (i < n => i \in EventsOf(d))
    BY <1>1, <2>1, <2>6
  <2>8. d # x.device => EventsOf(d)' = EventsOf(d)
    <3> SUFFICES ASSUME d # x.device PROVE EventsOf(d)' \subseteq EventsOf(d)
      BY <2>5
    <3>1. n \notin EventsOf(d)'
      BY <1>1, <2>1
    <3> QED BY <2>6, <3>1
  <2> QED BY <2>5, <2>7, <2>8
<1>4. ASSUME NEW d \in Device, NEW i \in EventsOf(d)', NEW j \in EventsOf(d)',
             Follows(d, i, j)'
      PROVE  events'[j].loose \/ events'[i].new = events'[j].old
  <2>1. i < j /\ i \in EventsOf(d) /\ events'[i] = events[i]
    BY <1>1, <1>3, <1>4 DEF Follows, EventsOf
  <2>2. CASE j = n
    <3>1. d = x.device
      BY <1>1, <2>2 DEF EventsOf
    <3>2. Latest(d, i)
      BY <1>1, <1>3, <1>4, <2>2 DEF Follows, Latest, EventsOf
    <3> QED BY <1>1, <2>1, <2>2, <3>1, <3>2
  <2>3. CASE j # n
    <3>1. j \in EventsOf(d) /\ events'[j] = events[j] /\ Follows(d, i, j)
      BY <1>1, <1>3, <1>4, <2>3 DEF Follows, EventsOf
    <3> QED BY <2>1, <3>1 DEF Chained, Adjacent
  <2> QED BY <2>2, <2>3
<1>5. ASSUME NEW d \in Device \ torn', NEW i \in EventsOf(d)', Latest(d, i)'
      PROVE  /\ \A e \in pending' : e.device = d => events'[i].new = e.old
             /\ (\A e \in pending' : e.device # d) => events'[i].new = dev'[d].status
  <2>1. CASE d = x.device
    <3>1. n \in EventsOf(d)'
      BY <1>1, <2>1 DEF EventsOf
    <3>2. n <= i
      BY <1>5, <3>1 DEF Latest
    <3>3. i \in Int /\ i <= n
      BY <1>3
    <3>4. i = n
      BY <1>1, <3>2, <3>3
    <3> QED BY <1>1, <2>1, <3>4
  <2>2. CASE d # x.device
    <3>1. i \in EventsOf(d) /\ Latest(d, i) /\ events'[i] = events[i]
      BY <1>1, <1>3, <1>5, <2>2 DEF Latest, EventsOf
    <3>2. /\ d \notin torn /\ dev'[d].status = dev[d].status
          /\ \A e \in pending : e.device = d => e \in pending'
      BY <2>2
    <3>3. /\ \A e \in pending : e.device = d => events[i].new = e.old
          /\ (\A e \in pending : e.device # d) => events[i].new = dev[d].status
      BY <3>1, <3>2 DEF Chained, Ahead
    <3> QED BY <3>1, <3>2, <3>3
  <2> QED BY <2>1, <2>2
<1>6. Ahead'
  BY <1>5 DEF Ahead
<1>7. OnePending'
  <2>1. \A e \in pending' : e.device \in torn' \/ e.new = dev'[e.device].status
    <3> SUFFICES ASSUME NEW e \in pending', e.device \notin torn'
                 PROVE  e.new = dev'[e.device].status
      OBVIOUS
    <3>1. e \in pending /\ e.device \in Device
      BY DEF TypeOK, Event
    <3> QED BY <3>1 DEF Chained, OnePending
  <2> QED BY <2>1 DEF Chained, OnePending
<1> QED BY <1>4, <1>6, <1>7 DEF Chained, Adjacent

\* Nothing is recorded, and only torn devices change their status.
LEMMA QuietChained ==
    ASSUME TypeOK, Chained, UNCHANGED events, UNCHANGED pending,
           \A d \in Device \ torn' : d \notin torn /\ dev'[d].status = dev[d].status,
           pending # {} => pass'.phase = "marking"
    PROVE  Chained'
<1>1. \A e \in pending : e.device \in Device
  BY DEF TypeOK, Event
<1>2. \A d : EventsOf(d)' = EventsOf(d)
  BY DEF EventsOf
<1>3. \A d, i, j : (Follows(d, i, j)' <=> Follows(d, i, j)) /\ (Latest(d, i)' <=> Latest(d, i))
  BY <1>2 DEF Follows, Latest
<1> QED BY <1>1, <1>2, <1>3 DEF Chained, Adjacent, Ahead, OnePending

LEMMA ChainedSeen ==
    ASSUME TypeOK, Chained, NEW d \in Device, Seen(d), UNCHANGED pending,
           UNCHANGED pass.phase
    PROVE  Chained'
<1>0. pending # {} => pass'.phase = "marking"
  BY DEF Chained, OnePending
<1>1. CASE NotStored(d)
  BY <1>0, <1>1, QuietChained DEF NotStored
<1>2. CASE Stored(d)
  <2>1. /\ dev[d] \in Record /\ dev'[d] = Sighted(dev[d])
        /\ \A e \in Device \ {d} : dev'[e] = dev[e]
    BY <1>2 DEF Stored, TypeOK
  <2>2. dev'[d].status = "online"
    BY <2>1 DEF Sighted, Record
  <2>3. CASE dev[d].status = "online" /\ UNCHANGED <<events, torn>>
    BY <1>0, <2>1, <2>2, <2>3, QuietChained
  <2>4. CASE torn' = torn \cup {d} /\ UNCHANGED events
    BY <1>0, <2>1, <2>4, QuietChained
  <2> DEFINE x == [device |-> d, old |-> dev[d].status, new |-> "online",
                   loose |-> d \in torn \/ Crossed(d)]
  <2>5. CASE /\ events' = Append(events, x)
             /\ torn' = IF Crossed(d) THEN torn \cup {d} ELSE torn \ {d}
    <3>1. /\ x.device = d /\ x.old = dev[d].status /\ x.new = "online"
          /\ x.loose = (d \in torn \/ Crossed(d))
      OBVIOUS
    <3>2. x \in Event
      <4>1. \A l \in BOOLEAN :
               [device |-> d, old |-> dev[d].status, new |-> "online", loose |-> l] \in Event
        BY <2>1 DEF Event, Record, StatusName
      <4>2. (d \in torn \/ Crossed(d)) \in BOOLEAN
        BY DEF Crossed
      <4> QED BY <4>1, <4>2
    <3> HIDE DEF x
    <3>3. x.loose \/ \A i \in EventsOf(d) : Latest(d, i) => events[i].new = x.old
      BY <3>1 DEF Crossed, Chained, Ahead
    <3>4. d \in torn' \/ \A e \in pending' : e.device # d
      BY <2>5 DEF Crossed
    <3>5. \A e \in Device \ {d} : dev'[e].status = dev[e].status /\ (e \in torn' <=> e \in torn)
      BY <2>1, <2>5
    <3> QED BY <1>0, <2>2, <2>5, <3>1, <3>2, <3>3, <3>4, <3>5, AppendChained
  <2> HIDE DEF x
  <2> QED BY <1>2, <2>3, <2>4, <2>5 DEF Stored, x
<1> QED BY <1>1, <1>2 DEF Seen

\* The UPDATE puts the row one event ahead.
LEMMA ChainedMiss ==
    ASSUME TypeOK, Current, Chained, NEW d \in Device, WriteMiss(d)
    PROVE  Chained'
<1> DEFINE status == MissStatus(stale[d], pass.threshold)
           x == [device |-> d, old |-> Previous(d), new |-> status, loose |-> FALSE]
<1>1. /\ pending = {} /\ d \in DOMAIN stale /\ UNCHANGED <<events, pass>>
      /\ pass.phase = "marking"
      /\ pending' = IF status = stale[d].status THEN {} ELSE {x}
      /\ torn' = torn \cup (late \cap {d})
  BY DEF WriteMiss
<1>2. d \notin torn' => d \notin torn /\ stale[d].status = dev[d].status
  BY <1>1 DEF Current
<1>3. /\ dev'[d].status = status /\ \A e \in Device \ {d} : dev'[e] = dev[e]
  <2>1. dev[d] \in Record
    BY DEF TypeOK
  <2> QED BY <2>1 DEF WriteMiss, TypeOK, Record
<1>4. x.device = d /\ x.old = stale[d].status /\ x.new = status
  BY DEF Previous
<1>5. \A e \in Device \ {d} : e \in torn' <=> e \in torn
  BY <1>1
<1> HIDE DEF status, x
<1>6. \A e : EventsOf(e)' = EventsOf(e)
  BY <1>1 DEF EventsOf
<1>7. \A e, i, j : (Follows(e, i, j)' <=> Follows(e, i, j)) /\ (Latest(e, i)' <=> Latest(e, i))
  BY <1>6 DEF Follows, Latest
<1>8. \A e \in Device \ torn : \A i \in EventsOf(e) :
         Latest(e, i) => events[i].new = dev[e].status
  BY <1>1 DEF Chained, Ahead
<1>9. ASSUME NEW e \in Device \ torn', NEW i \in EventsOf(e)', Latest(e, i)'
      PROVE  /\ \A f \in pending' : f.device = e => events'[i].new = f.old
             /\ (\A f \in pending' : f.device # e) => events'[i].new = dev'[e].status
  <2>1. e \notin torn /\ i \in EventsOf(e) /\ Latest(e, i) /\ events'[i] = events[i]
    BY <1>1, <1>2, <1>5, <1>6, <1>7, <1>9
  <2>2. events'[i].new = dev[e].status
    BY <1>8, <2>1
  <2>3. CASE e = d
    BY <1>1, <1>2, <1>3, <1>4, <2>2, <2>3
  <2>4. CASE e # d
    BY <1>1, <1>3, <1>4, <2>2, <2>4
  <2> QED BY <2>3, <2>4
<1>10. OnePending'
  BY <1>1, <1>3, <1>4 DEF OnePending
<1>11. Adjacent'
  BY <1>1, <1>6, <1>7 DEF Chained, Adjacent
<1> QED BY <1>9, <1>10, <1>11 DEF Chained, Ahead

LEMMA ChainedEvent ==
    ASSUME TypeOK, Chained, WriteEvent
    PROVE  Chained'
<1>1. PICK e \in pending :
         \/ /\ events' = Append(events, [e EXCEPT !.loose = e.device \in torn])
            /\ UNCHANGED torn
         \/ torn' = torn \cup {e.device} /\ UNCHANGED events
  BY DEF WriteEvent
<1>2. pending' = {} /\ UNCHANGED dev /\ e \in Event /\ e.device \in Device
      /\ \A f \in pending : f = e
  BY <1>1 DEF WriteEvent, TypeOK, Event, Chained, OnePending
<1> DEFINE x == [e EXCEPT !.loose = e.device \in torn]
<1>3. /\ x.device = e.device /\ x.old = e.old /\ x.new = e.new
      /\ x.loose = (e.device \in torn)
  BY <1>2 DEF Event
<1>4. x \in Event
  <2>1. \A l \in BOOLEAN : [e EXCEPT !.loose = l] \in Event
    BY <1>2 DEF Event
  <2>2. (e.device \in torn) \in BOOLEAN
    OBVIOUS
  <2> QED BY <2>1, <2>2
<1> HIDE DEF x
<1>5. CASE events' = Append(events, x) /\ UNCHANGED torn
  <2>1. x.loose \/ \A i \in EventsOf(x.device) : Latest(x.device, i) => events[i].new = x.old
    BY <1>1, <1>2, <1>3 DEF Chained, Ahead
  <2>2. x.device \in torn' \/ x.new = dev'[x.device].status
    BY <1>1, <1>2, <1>3, <1>5 DEF Chained, OnePending
  <2> QED BY <1>2, <1>3, <1>4, <1>5, <2>1, <2>2, AppendChained
<1>6. CASE torn' = torn \cup {e.device} /\ UNCHANGED events
  <2>1. \A d : EventsOf(d)' = EventsOf(d)
    BY <1>6 DEF EventsOf
  <2>2. \A d, i, j : (Follows(d, i, j)' <=> Follows(d, i, j)) /\ (Latest(d, i)' <=> Latest(d, i))
    BY <2>1 DEF Follows, Latest
  <2>3. \A d \in Device \ torn' : d \notin torn /\ \A f \in pending : f.device # d
    BY <1>2, <1>6
  <2>4. Adjacent'
    BY <1>6, <2>1, <2>2 DEF Chained, Adjacent
  <2>5. Ahead'
    BY <1>2, <1>6, <2>1, <2>2, <2>3 DEF Chained, Ahead
  <2>6. OnePending'
    BY <1>2 DEF OnePending
  <2> QED BY <2>4, <2>5, <2>6 DEF Chained
<1> QED BY <1>1, <1>5, <1>6 DEF x

LEMMA ChainedNext == TypeOK /\ Current /\ Chained /\ [Next]_vars => Chained'
<1> SUFFICES ASSUME TypeOK, Current, Chained, [Next]_vars PROVE Chained'
  OBVIOUS
<1>1. CASE StartPass \/ ReadDevices \/ UNCHANGED vars
  <2>1. /\ UNCHANGED <<dev, events, pending, torn>>
        /\ pending # {} => pass'.phase = "marking"
    BY <1>1 DEF StartPass, ReadDevices, vars, history, Chained, OnePending
  <2> QED BY <2>1, QuietChained
<1>2. CASE \E d \in Device : Answer(d) \/ Poll(d)
  <2>1. PICK d \in Device : Answer(d) \/ Poll(d)
    BY <1>2
  <2>2. Seen(d) /\ UNCHANGED pending /\ UNCHANGED pass.phase
    BY <2>1 DEF Answer, Poll, TypeOK
  <2> QED BY <2>2, ChainedSeen
<1>3. CASE \E d \in Device : WriteMiss(d)
  BY <1>3, ChainedMiss
<1>4. CASE WriteEvent
  BY <1>4, ChainedEvent
<1>5. CASE EndPass
  <2>1. pending = {} /\ UNCHANGED <<dev, pending, torn>> /\ events' = Trim(events)
    BY <1>5 DEF EndPass, history
  <2>2. Adjacent' /\ Ahead'
    <3>1. CASE Len(events) > EventLimit
      <4>1. Len(events) - EventLimit + 1 \in 1 .. Len(events) + 1
        BY <3>1, PresenceAssumption DEF TypeOK
      <4> QED BY <2>1, <3>1, <4>1, SuffixChained DEF Trim
    <3>2. CASE ~(Len(events) > EventLimit)
      <4>1. UNCHANGED events
        BY <2>1, <3>2 DEF Trim
      <4> QED BY <2>1, <4>1, QuietChained DEF Chained
    <3> QED BY <3>1, <3>2
  <2> QED BY <2>1, <2>2 DEF Chained, OnePending
<1>6. CASE \E d \in Device : Patch(d)
  <2>1. PICK d \in Device, i \in BOOLEAN, m \in Mode :
           /\ dev' = [dev EXCEPT ![d].ignored = i, ![d].mode = m]
           /\ UNCHANGED <<events, pass, pending, torn>>
    BY <1>6 DEF Patch, history
  <2>2. \A e \in Device : dev'[e].status = dev[e].status
    BY <2>1 DEF TypeOK, Record
  <2>3. pending # {} => pass'.phase = "marking"
    BY <2>1 DEF Chained, OnePending
  <2> QED BY <2>1, <2>2, <2>3, QuietChained
<1>7. CASE Crash
  <2>1. /\ UNCHANGED <<dev, events>> /\ pending' = {}
        /\ torn' = torn \cup {e.device : e \in pending}
    BY <1>7 DEF Crash
  <2>2. \A d : EventsOf(d)' = EventsOf(d)
    BY <2>1 DEF EventsOf
  <2>3. \A d, i, j : (Follows(d, i, j)' <=> Follows(d, i, j)) /\ (Latest(d, i)' <=> Latest(d, i))
    BY <2>2 DEF Follows, Latest
  <2>4. \A d \in Device \ torn' : d \notin torn /\ \A e \in pending : e.device # d
    BY <2>1
  <2>5. Adjacent'
    BY <2>1, <2>2, <2>3 DEF Chained, Adjacent
  <2>6. Ahead'
    BY <2>1, <2>2, <2>3, <2>4 DEF Chained, Ahead
  <2> QED BY <2>1, <2>5, <2>6 DEF Chained, OnePending
<1>8. CASE Retain
  <2>1. PICK n \in DOMAIN events : events' = SubSeq(events, n + 1, Len(events))
    BY <1>8 DEF Retain
  <2>2. n + 1 \in 1 .. Len(events) + 1 /\ UNCHANGED <<dev, pass, pending, torn>>
    BY <1>8 DEF Retain, TypeOK, history
  <2>3. Adjacent' /\ Ahead'
    BY <2>1, <2>2, SuffixChained
  <2> QED BY <2>2, <2>3 DEF Chained, OnePending
<1> QED BY <1>1, <1>2, <1>3, <1>4, <1>5, <1>6, <1>7, <1>8 DEF Next

\* The events of a device tell one story, from the first that is kept to the
\* present status; where there is a gap a statement failed, the process died,
\* or a poll was recorded in the middle of markMisses.
THEOREM EventsTellOneStory == Spec => []EventsChain
<1>1. Init => Chained
  BY DEF Init, Chained, Adjacent, Ahead, OnePending, EventsOf
<1>2. Chained => EventsChain
  BY DEF Chained, Adjacent, Ahead, EventsChain
<1> QED BY <1>1, <1>2, ChainedNext, CurrentNext, CurrentInit, TypeCorrect, PTL DEF Spec
=============================================================================
