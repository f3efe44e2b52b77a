------------------------------ MODULE Notifier ------------------------------
(***************************************************************************)
(* External notifications about a finished scan                            *)
(* (internal/app/notification.go: NotifyScan).                             *)
(*                                                                         *)
(* Each run's NotifyScan is a goroutine of its own.  It selects what was   *)
(* recorded since its run started and is not cooling down, sends one       *)
(* message on each channel in turn, and starts the cool-down of what the   *)
(* message told, unless a channel failed.                                  *)
(*                                                                         *)
(* The log stands for status_events and, as changes to "new", for the rows *)
(* of devices in the order they were first seen.  Time is what it decides: *)
(* which entries are older than an hour, which notes are cooling down.     *)
(* The settings keep their values.  A message that only tells the error of *)
(* the scan carries no note and is left out.                               *)
(* Bug... operators are faulty forms of the definition below them.         *)
(***************************************************************************)
EXTENDS Naturals, Sequences, FiniteSets

CONSTANTS
    Device,     \* devices
    Important,  \* those marked as always online
    Senders,    \* channels that are enabled; they send in turn
    Wanted,     \* the events that are enabled: "new", "online", "offline"
    MaxRuns,    \* bound: scans
    MaxLog      \* bound: entries of the log

NotifierAssumption ==
    /\ Important \subseteq Device /\ Senders \in Nat
    /\ MaxRuns \in Nat /\ MaxLog \in Nat
    /\ Wanted \subseteq {"new", "online", "offline"}

VARIABLES
    log,       \* what was recorded: <<device, new status>>, oldest first
    aged,      \* so many of its entries are older than an hour
    run,       \* the latest run
    call,      \* per run: the run while it scans, then its NotifyScan
    cooling,   \* the notes in notification_state within their cool-down
    fresh,     \* history, per channel: notes delivered within their cool-down
    twice,     \* history: notes delivered while they were fresh
    excused,   \* history: two calls overlapped, or a message that was
               \* delivered somewhere was not recorded
    long       \* history: an hour passed during a run

logVars == <<log, aged, run>>
vars == <<logVars, call, cooling, fresh, twice, excused, long>>

Run == 1 .. MaxRuns
Channels == 1 .. Senders
Resting == [at |-> "resting"]

Init == /\ log = <<>> /\ aged = 0 /\ run = 0
        /\ call = [n \in Run |-> Resting]
        /\ cooling = {} /\ fresh = [c \in Channels |-> {}]
        /\ twice = {} /\ excused = FALSE /\ long = FALSE

-----------------------------------------------------------------------------
\* What is recorded meanwhile.

Of(d) == {i \in DOMAIN log : log[i][1] = d}

\* A scan or an SNMP poll records a device it has not known, or a change of
\* status.  A device is new once, before anything else is recorded of it.  The
\* log need not alternate: markMisses writes the status it has computed over a
\* sighting made since it read, with no event when the status it had read was
\* that one too; the UPDATE of a row and the INSERT of its event are two
\* statements; and the INSERT of an event may fail unnoticed.  So an event
\* may tell the status that the one before it told.
Record == /\ Len(log) < MaxLog
          /\ \E d \in Device, s \in {"new", "online", "suspected", "offline"} :
                /\ s = "new" => Of(d) = {}
                /\ log' = Append(log, <<d, s>>)
          /\ UNCHANGED <<aged, run, call, cooling, fresh, twice, excused, long>>

\* Times are whole seconds: what was recorded in the second the scan starts
\* in counts as recorded since.
Start == /\ \A n \in Run : call[n].at # "scan"
         /\ run < MaxRuns /\ run' = run + 1
         /\ \E k \in {Len(log), Len(log) - 1} \cap aged .. Len(log) :
               call' = [call EXCEPT ![run'] = [at |-> "scan", from |-> k]]
         /\ UNCHANGED <<log, aged, cooling, fresh, twice, excused, long>>

\* The end of the run: go s.notifier.NotifyScan(...)
End == /\ \E n \in Run : /\ call[n].at = "scan"
                        /\ call' = [call EXCEPT ![n].at = "read"]
       /\ UNCHANGED <<logVars, cooling, fresh, twice, excused, long>>

\* An hour passes since the oldest of the others was recorded.  Few runs last
\* that long, but the deadline of a run over many addresses allows it.
Age == /\ aged < Len(log)
       /\ aged' = aged + 1
       /\ long' = (long \/ \E n \in Run : /\ call[n].at \in {"scan", "read"}
                                           /\ call[n].from <= aged)
       /\ UNCHANGED <<log, run, call, cooling, fresh, twice, excused>>

Cool == /\ \E note \in cooling \cup UNION {fresh[c] : c \in Channels} :
              /\ cooling' = cooling \ {note}
              /\ fresh' = [c \in Channels |-> fresh[c] \ {note}]
        /\ UNCHANGED <<logVars, call, twice, excused, long>>

-----------------------------------------------------------------------------
\* NotifyScan.

\* The changes of status of the device within the last hour.
Changes(d) == {i \in Of(d) : i > aged /\ log[i][2] # "new"}

BugSteady(d) == Cardinality(Changes(d)) <= 3
\* changes >= 3 { continue }
Steady(d) == Cardinality(Changes(d)) < 3

BugAllowed(note) == TRUE
\* allowNotification
Allowed(note) == note \notin cooling

\* Entries of the log that are worth a line.
Told(n) == {i \in DOMAIN log : /\ i > call[n].from
                               /\ log[i][2] \in Wanted
                               /\ log[i][2] # "new" => log[i][1] \in Important /\ Steady(log[i][1])
                               /\ Allowed(log[i])}

Busy(n) == call[n].at \in {"send", "record"}
Notes(n) == {log[i] : i \in call[n].lines}

\* The queries.  Between them only another call could change what they see,
\* and such an overlap counts as one.
Read(n) ==
    /\ call[n].at = "read"
    /\ call' = [call EXCEPT ![n] =
                  IF Told(n) = {} THEN Resting
                  ELSE [at |-> "send", lines |-> Told(n), next |-> 1,
                        failed |-> FALSE, told |-> FALSE]]
    /\ excused' = (excused \/ \E m \in Run : Busy(m))
    /\ UNCHANGED <<logVars, cooling, fresh, twice, long>>

\* sendTelegram, sendWebhook.  An answer that does not come in time may have
\* been delivered all the same.
Send(n) ==
    LET c == call[n].next IN
    /\ call[n].at = "send" /\ c \in Channels
    /\ \E delivered, fails \in BOOLEAN :
          /\ delivered \/ fails
          /\ call' = [call EXCEPT ![n] = [call[n] EXCEPT !.next = c + 1, !.failed = @ \/ fails,
                                                 !.told = @ \/ delivered]]
          /\ fresh' = [fresh EXCEPT ![c] = IF delivered THEN @ \cup Notes(n) ELSE @]
          /\ twice' = IF delivered THEN twice \cup (fresh[c] \cap Notes(n)) ELSE twice
    /\ UNCHANGED <<logVars, cooling, excused, long>>

\* if err := n.send(...); err == nil { for _, item := range pending { ... } }
Recorded(n) == IF call[n].failed THEN {} ELSE Notes(n)

Sent(n) ==
    /\ call[n].at = "send" /\ call[n].next \notin Channels
    /\ call' = [call EXCEPT ![n] =
                  IF Recorded(n) = {} THEN Resting
                  ELSE [at |-> "record", rest |-> Recorded(n)]]
    /\ excused' = (excused \/ (call[n].failed /\ call[n].told))
    /\ UNCHANGED <<logVars, cooling, fresh, twice, long>>

\* One INSERT per note, its error ignored.
Mark(n) ==
    /\ call[n].at = "record"
    /\ \E note \in call[n].rest :
          /\ call' = [call EXCEPT ![n] = IF call[n].rest = {note} THEN Resting
                                         ELSE [call[n] EXCEPT !.rest = @ \ {note}]]
          /\ \/ cooling' = cooling \cup {note} /\ UNCHANGED excused
             \/ excused' = TRUE /\ UNCHANGED cooling
    /\ UNCHANGED <<logVars, fresh, twice, long>>

\* The process ends; the calls and the run are gone, the tables stay.
Crash == /\ call' = [n \in Run |-> Resting]
         /\ excused' = (excused \/ \E n \in Run : Busy(n))
         /\ UNCHANGED <<logVars, cooling, fresh, twice, long>>

Next == \/ Record \/ Start \/ End \/ Age \/ Cool \/ Crash
        \/ \E n \in Run : Read(n) \/ Send(n) \/ Sent(n) \/ Mark(n)

Spec == Init /\ [][Next]_vars

-----------------------------------------------------------------------------

Note == Device \X {"new", "online", "suspected", "offline"}

\* Every variable holds a value of its kind.
TypeOK ==
    /\ log \in Seq(Note) /\ Len(log) <= MaxLog /\ aged \in 0 .. Len(log)
    /\ run \in 0 .. MaxRuns
    /\ call \in [Run -> {Resting} \cup [at : {"scan", "read"}, from : 0 .. Len(log)]
                        \cup [at : {"send"}, lines : SUBSET DOMAIN log,
                              next : 1 .. Senders + 1, failed : BOOLEAN,
                              told : BOOLEAN]
                        \cup [at : {"record"}, rest : SUBSET Note]]
    /\ cooling \subseteq Note /\ fresh \in [Channels -> SUBSET Note]
    /\ twice \subseteq Note
    /\ excused \in BOOLEAN /\ long \in BOOLEAN

\* No two messages tell the same thing about a device within the cool-down,
\* although the windows of two runs overlap, unless two calls overlapped, a
\* channel reported an error (then what the other one delivered is not
\* recorded either), or a record was lost.
RepeatedForCause == ~excused => twice = {}

\* A message tells the same thing about a device twice only if the log itself
\* does, with nothing of the device between.  Nothing in NotifyScan compares its
\* lines: it is the limit on changes within the hour that keeps the second line
\* of a device that went and came out, as long as no run lasts longer than that.
TwiceAsLogged ==
    ~long => \A n \in Run : call[n].at = "send" =>
       \A i, j \in call[n].lines : i < j /\ log[i] = log[j] =>
          \A k \in Of(log[j][1]) : ~(i < k /\ k < j)
=============================================================================
