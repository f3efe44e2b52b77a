# A formal model of meowtopo

meowtopo is a home-network scanner in Go: it probes private address ranges on a
schedule or on demand, remembers the devices that answer, decides which of them
are offline, identifies them, and draws them as a graph the user can edit. This
directory holds TLA+ models of the parts of it where several goroutines, handlers,
database statements or files have to agree, TLC configurations that check them on
small instances, and TLAPS proofs of the properties that matter most. Sources are
quoted relative to the repository, `scanner.go` standing for
`src/internal/app/scanner.go`.

## 1. The system

| component | state it keeps | operations | talks to |
|---|---|---|---|
| scan engine (`scanner.go`) | `Scanner.status` under a mutex, the goroutine of the run (workers, feeder, `seen`), table `scan_runs` | `Start`, `Status`, `run` | schedule and API call `Start`; `run` calls the store, emits events, starts the notifier and the SNMP poll |
| address ranges (`network.go`, `scanner.go`) | none: pure | `validateCIDR`, overlap test, `firstIP/nextIP/lastIP`, feeder loop | called by `Start` and `run` |
| device presence (`store_discovery.go`) | columns `status`, `consecutive_failures`, `presence_mode`, `is_ignored` of `devices`; table `status_events` | `upsertSeen`, `markMisses`, `trimStatusEvents`, retention, PATCH of a device | workers, SNMP poll, maintenance, API |
| device identity (`store_discovery.go`) | `stable_key`, `mac_address`, `current_ip` of `devices` | the row `upsertSeen` takes, the rows `ensureCore` makes and merges | workers, SNMP poll, end of a scan |
| connection graph (`server_topology.go`, `server_devices.go`, `store_discovery.go`, `snmp_store.go`) | table `connections` | PATCH connection, POST/DELETE connections, batch `set_parent`, delete device, `ensureCore`, `mergeDeviceRecords`, `upsertDiscoveredConnection` | API, end of a scan, SNMP poll |
| schedule and settings (`server.go`, `server_settings.go`, `store_settings.go`, `config.go`) | running configuration, stored settings, the one-place channel `intervalUpdates` | `schedule`, `patchSettings`, `replaceScanInterval` | API, scan engine |
| event hub and browser (`events.go`, `server_http.go`, `web/scan-settings-core.js`) | a 16-place channel per browser; the browser's progress display | `Emit`, `subscribe`, `unsubscribe`; the page's load, scan button and reconnection | everything emits |
| SNMP polling (`snmp.go`, `snmp_store.go`, `server_snmp.go`) | `SNMPDiscovery.status`, table `snmp_targets` | `Poll`, save, test and delete a target | end of a scan, API |
| accounts (`auth.go`, `auth_store.go`) | tables `users`, `sessions`, `login_attempts` | set-up, login, logout, create and update accounts | API |
| notifications (`notification.go`) | table `notification_state` | `NotifyScan` and two senders | end of a scan |
| backup and maintenance (`server_backup.go`, `maintenance.go`) | the database file, backups beside it | restore, automatic backup, trimming, retention | API, timer |
| identification (`identification*.go`, `store_identification.go`) | type columns of `devices`, table of corrections | combine evidence, replace, correct, learn | workers, SNMP poll, API |
| mDNS (`mdns.go`), service discovery, MAC vendor database | none; vendor table | parse answers, look vendors up | start of a scan |
| HTTP plumbing, front end | none of their own | routing, rendering | — |

The database is SQLite in WAL mode. A single statement is atomic. A transaction
that reads first and writes later fails if another writer committed in between,
so a handler that is one transaction is one action here. A function that issues
several statements without a transaction is several actions: `markMisses`,
`upsertDiscoveredConnection`, `updateAccount`, `login`, `saveSNMPTarget` and
`patchSettings` are the important ones.

**Hard behaviour.** Workers, feeder and deadline of one run race; a run leaves in
two steps (`Running = false`, then the history row) and the next run may start in
between; the process may die anywhere and nothing repairs `scan_runs` at start-up;
`markMisses` writes values computed from an earlier read while SNMP polls and
user patches go on; the graph is edited by five handlers and three discovery
steps, only two of which look for cycles; checks and the writes they guard are
statements of their own (the last administrator, the limit on targets, sessions to
be revoked); events are dropped when a channel is full and overtake each other;
a restore renames the database under everything else. `PROJECT.json` lists each
hazard at its line with the properties that cover it.

**What makes each component correct.**

* Scan engine: one run at a time; counters exact; a device that answered is not
  missed; a history row tells its own run; completed means swept; every run ends.
* Ranges: every host of the accepted networks is handed out once, however it was written.
* Presence: a device is offline only after as many misses in a row as its mode asks
  for; it is suspected first; a silent device is noticed; the event log is a chain, and
  where it is not, for a reason that can be named.
* Identity: no sighting is lost to a collision of keys; devices that stay where they
  are do not overwrite each other's rows in turn.
* Graph: no dangling or self relation; no addition closes a cycle; discovery keeps
  what the user confirmed; a scan leaves nothing unattached.
* Settings: nothing that was not saved is in force; what was saved and answered is;
  every PATCH is answered; the timer keeps firing.
* Event hub: a progress display that is wrong is so for a reason that can be named.
* SNMP: one poll at a time; its summary is that of the list; a bounded overshoot.
* Accounts: one set-up; an administrator remains; credentials that no longer stand
  open no session.
* Notifications: nothing is told twice without a cause.
* Backup: only a complete database comes into service; what was in service is not
  lost; the newest backup stays.
* Identification: the type shown is that of the surest sighting; one device teaches
  nothing by itself. mDNS: every message is read to an end, and none beyond it.

## 2. Modules

| module | models | proofs | instance |
|---|---|---|---|
| `ScanService` | abstract: at most one current scan, its coverage, its verdict | | |
| `Scanner` | the scan engine, every phase of `run`, the pool and process restarts | `ScannerProofs` | `MCScanner` |
| `Presence` | `upsertSeen`, `markMisses` statement by statement, polls, patches, retention | `PresenceProofs` | `MCPresence` |
| `Topology` | every writer of `connections` | `TablesProofs` | `MCTables` |
| `DeviceIdentity` | the row a sighting takes, the gateway's row | `TablesProofs` | `MCTables` |
| `Settings` | `patchSettings`, `replaceScanInterval`, `schedule`, start and restore | `SettingsProofs` | `MCSettings` |
| `Accounts` | set-up, login, logout, accounts and sessions | `AccountsProofs` | `MCAccounts` |
| `SnmpPoll` | `Poll`, the target table and its requests, restore | `SnmpPollProofs` | `MCSnmpPoll` |
| `Backup` | restore and automatic backups as operations on files | `BackgroundProofs` | `MCBackground` |
| `Notifier` | `NotifyScan`, its window, cool-down and channels | `BackgroundProofs` | `MCBackground` |
| `Identification` | evidence, the replacement rule, corrections, learned rules | `TablesProofs` | `MCTables` |
| `NetworkRange` | `validateCIDR`'s count, the overlap test, the feeder's iteration | `EdgesProofs` | `MCEdges` |
| `DnsName` | the reading of PTR records, compression pointers included | `EdgesProofs` | `MCEdges` |
| `EventHub` | the hub, the stream and the page's progress display | `EdgesProofs` | `MCEdges` |

How they fit together. `NetworkRange` derives what `Scanner` takes for a request,
totals that are less than the hosts, zero or negative included.
`Scanner` takes `markMisses` and `ensureCore` as single steps as far as addresses are
concerned; `Presence` opens the first up, `Topology` and `DeviceIdentity` the second.
`Scanner` implements `ScanService` through the mapping given in its `Service` instance.
`EventHub` and `Notifier` take from `Scanner` that runs come one at a time and end in
two steps. `Settings`, `SnmpPoll` and `Backup` each model the same `restore`: what it
does to the configuration, to a poll under way and to files.

`Tables` (with the instance `MCTables`), `MCEdges` and `MCBackground` each host components
that share nothing, so that one run checks them and one module proves about them: a
variable `part`, chosen at the start and never changed, says whose behaviour it is, and
the others' variables stay as they are. The configurations of `MCTables` choose by
`Parts` which of its components take turns: `MCTables.cfg` the relations and the rows,
`MCTypes.cfg` and `MCTypesWithdrawn.cfg` the types.

An operator whose name begins with `Bug` is not part of a model. It is a plausible
faulty form of the definition that follows it (a dropped guard, the newest instead
of the oldest, a swapped end) and documents which fault each property notices:
with the faulty form in place of the right one, TLC reports the property violated.
The pairs are listed under `mutants` in `PROJECT.json`.

### Scanner

State: `status` is `Scanner.status`; `rows` and `lastId` are `scan_runs`; for each
run `pc` is the line its goroutine stands at, `queue` what the feeder loop has
left, `pool` the workers with the address in hand, `expired` the context, `seen`
the map, `snapshot` the copy `st`. `known` is the set of addresses of stored
devices that `markMisses` may touch, `missed` what it touched. `checked` is a
history variable: the addresses a run has counted.

One action per step another goroutine can observe: `Start` (under the mutex),
`Begin`, `Feed` (the unbuffered send meets a receiver), `Probe` (answer put in
`seen`), `Upsert`, `Count` (under the mutex), `StopFeeding`, `Exit`, `Join`,
`ArpFind`/`ArpDone`, `MarkMisses`, `EnsureCore`, `Retire` (under the mutex),
`Record`, `Announce`, plus `Expire` (the deadline) and `Restart`. With
`Faults = TRUE` each database statement whose error the code drops may fail.

Abstractions: an answer is alive or not; a request is (hosts, span, total); names,
vendors, ports and the contents of events are left out. `Begin` starts as many workers
as the settings and the total allow, none if the total is not positive; such a run
waits for its deadline. The field `Scanner.store`, which a restore replaces while the
run's goroutine reads it without a lock, is left out. The pointer-valued map of
the ARP table is any subset of the networks. After its end the locals of a run are
reset, which loses nothing: they are garbage.

### Presence

`dev` has the four columns presence depends on. `pass` is the scan in progress;
`stale` is the part of the slice `ds` still to be written; `pending` is the event
between an UPDATE and its INSERT. SNMP polls come at any moment, beside a scan too:
nothing in the code keeps them apart. A sighting (`Seen`) is stored (`Stored`) or its
transaction fails (`NotStored`), which the scan does not notice: the address is in
`seen`, the row stays as it is. An INSERT of an event may fail in either place, and
`Crash` ends a pass anywhere.

What these do to a device is kept, by its cause, in history variables that no action
reads: `streak` counts the misses written since the device was last seen, independently
of `consecutive_failures`; `unstored` holds the devices whose last sighting was not
stored, `late` those seen since the pass read the row it has still to write,
`overwritten` those whose last stored sighting such a write has wiped out, and `torn`
those with a change of status that no event tells of. An event that does not continue
the device's one before is marked `loose`. A property names the causes it excuses, and
nothing else excuses it: that `unstored`, `overwritten` and `torn` lose a device again at
its next stored sighting is part of what the properties say.

Manual rows are outside `Device`: `markMisses` skips them. Each device has an address of
its own throughout (section 6 tells what happens otherwise). The counters stop at `Cap`,
above every threshold of the run, where the behaviour no longer depends on the exact
value. `Retain` is the hourly deletion of events older than the retention; the guard on
the log's length in `Crash` keeps it finite.

### Topology

`edge` gives for each ordered pair the kind of its row (`none`, `inferred`, `lldp`,
`manual`; `user_confirmed` is 1 exactly for `manual`). `present` are the rows of
`devices`, `gateway` the rows `ensureCore` takes for the gateway, `lldp` the call
of `upsertDiscoveredConnection` between its statements (one at a time: polls
refuse to overlap). `Descendants` is the recursive query read as what `UNION`
computes, the least set closed under children; being a definition without
recursion it can be reasoned about. `SetParent` adds its relations at once, the
code one by one with a check before each; that the two agree is a lemma
(`ChecksCommute` in `TablesProofs`). Bound: at most two rows share the gateway's
address, so `ensureCore` merges at most one duplicate. Positions, port labels and
connection types are left out.

### DeviceIdentity

`row` is the table `devices` reduced to `stable_key`, `mac_address` and `current_ip`;
`at` is the network, where each device has an address or none. `Sight` is the
transaction of `upsertSeen` with the MAC address known or not (an SNMP poll never
knows it): `Chosen` is the SELECT with its ORDER BY, `Updated` the UPDATE, and a key
that another row has rolls the transaction back, which the worker does not notice.
`EnsureCore` makes the gateway's row or merges any number of them into one. `latest`
and `earlier` are history variables: for whom each row was written since the network
last changed. Ids are re-used here once their rows are gone, with empty histories.

### NetworkRange

Addresses are `0 .. Block - 1` of one private block (the private blocks end
below 255.255.255.255, so `nextIP`'s carry never wraps). The sizes of networks are a
parameter, `Sizes`: all that is used of a power of two is that it divides the block, and
that a network begins at a multiple of its size. `Part` is one round of
the loop of `Start`, `Launch` its end, `Iterate` and `NextNet` the feeder.

A network is of one of three kinds. `v4` is written as usual. `mapped` is the same network
written in the IPv6 form (`::ffff:a.b.c.d/120`), which `validateCIDR` accepts: its mask has
sixteen bytes, of which `lastIP` takes the first four, so that the last address comes out
as the base and the loop goes on to the broadcast address. `wide` is the IPv6 form with a
prefix of 65 bits or fewer: it holds no IPv4 address, and its count, a shift by 63 or more,
is the least `int` (`LeastInt`) or zero and passes the limit. `int` has 64 bits.

### Settings

A setting lives in `stored` (the table), `running` (`Scanner.cfg`), `updates` (the
channel) and `armed` (the local `interval` of `schedule`). A PATCH is `Read`, `Merge`,
`Save` (may fail), `Compare`, `Update` and, if the interval changed, `Offer`, `Drain`,
`Send`; its locals are in `req`. `timer` holds the time that is left, or nothing if the
timer is stopped; a `Fire` calls `Start`, which is `Scanner`'s. `Restart` is `Run`:
the table over the environment, with an empty channel and no requests; it needs a
table without refused values. `Restore` puts back any settings that were committed
at some time. `saved` and `calm` are history variables: what has been committed, and
whether something has happened that the code does not cater for (requests that
overlap, a blank over an override, a restore).

Abstractions: a value is valid, blank or refused; the bounds themselves, the
checks of the body before line 85 and the settings other components read (theme,
notifications, backups) are left out, and so is `scan_interface`, the one key that a
blank does set. Reads of the table are taken to succeed: `patchSettings` and `Run`
drop their errors.

### Accounts

`users`, `sessions` and `attempts` are the three tables, `req` the handlers between
two statements. `Bootstrap` is the one INSERT that only succeeds while there is no
account; PATCH is `ReadTarget`, `CountAdmins`, `Write`, `Revoke`; login is `Enter`,
`Forget`, `Verify`, `RecordFailure` or `ClearFailures`, `CreateSession`. `founders` and
`mishaps` are history variables, and so is the mark `fresh` of a session: whether the
credentials it rests on still stand. `mishaps` names what a property excuses: updates
that overlapped, a login under way at the UPDATE, a deletion that was lost. A password
matches or not; the seven days of a session and the block after failed logins end at
any time.

### SnmpPoll

`status` is the summary of each `SNMPDiscovery`, one per generation: a restore makes a
new one beside the old, whose polls and requests go on against a closed database
(`gen`). `Begin` (under the mutex) takes the flag and reads the targets, `PollTarget`
polls any of those left and stores its outcome, `Finish` puts the local summary in
place. `CountTargets`/`Insert` and `ReadTarget`/`Update` are the two halves of saving a
target. What a poll writes about devices and relations is in `Presence`,
`DeviceIdentity` and `Topology`.

### Backup and Notifier

`Backup`: `file` maps names to contents, `store` is `Server.store`, `restore` and `req`
are the requests between two operations on files; every write, rename and open may
fail, and the process may end between any two. `served`, `named` and `clash` are
history variables: what was in service, and whether two databases were moved aside
under the same second's name. `Notifier`: `log` is what was recorded (new devices and
changes of status), `call` each run's `NotifyScan`, `cooling` the table
`notification_state`. The log may hold any succession of statuses of a device, also the
same one twice: `markMisses` writes over a sighting without an event, and INSERTs of events
are lost (`Presence` shows how). `fresh`, `twice`, `excused` and `long` are history variables
about what each channel delivered and what excuses a repetition. Time is reduced to
what it decides: which entries are older than an hour, which notes are cooling down.

### EventHub

The scanner reduced to what it emits and when, the hub's channels, and for each page
its stream, its question about the status (answered with what was true when it was
served, shown when it arrives) and what it shows. The page asks when it is loaded,
before its stream is connected, and after the scan button; a stream that reconnects
asks for nothing. `missed` and `heard` are history variables: the latest end that could
not reach the page, and the latest one it has been told of.

### Identification and DnsName

`Identification`: all devices are of one vendor, since rules of different vendors do
not meet. `Conclusions` is `combineIdentificationEvidence` as the set of what it may
return: equal totals are decided by the order of a Go map. `Replaces` is the CASE of
`upsertSeen`, `Lessons`, `Votes` and `Learned` are the query of `learnedVendorRules`;
PATCH is `ReadPrevious`, `Write`, `Reread`, `Record`. `SafeType` turns whatever is not one
of the program's types, the empty type of a user who takes a correction back included, into
"unknown", which is stored, recorded and learned from like any other; only a device that was
never given a type has no user type. Two clues that agree in type and weight are one.

`DnsName` reads any sequence of the bytes its instance has. The header is taken off and
offsets count from its end, so no pointer leads into the header; a message has fewer than
256 bytes, so a pointer is its second byte, and the bytes 193 to 255, which lead beyond such
a message, are left out. `dnsName`'s recursion at a pointer is a jump, as its caller only
passes the result on. A question's end is shortened to one byte, and a record's fixed part to
one byte of type and one of length.

## 3. Runs

| run | instance | question and answer |
|---|---|---|
| `scan_safety` | 2 addresses, 2 workers, 2 runs, totals below the hosts and below zero too, faults, restarts | `OneActiveRun`, `ProgressExact`, `AnsweredNotMissed`, `RowTellsOwnRun` hold; `Scanner` implements `ScanService` |
| `scan_liveness` | the same with requests of positive total, database healthy | every started run ends (`RunEnds`) and its row is closed (`RowSettles`) |
| `presence` | 1 device, factor 4, minimum 12, thresholds 1, 2 and 4; polls at any moment, sightings and events that are not stored, edits, retention, crashes | `FailuresExact`, `EventsChain`, `OfflineEarned`, `SuspectedFirst`, `SilentGoesOffline` hold |
| `presence_overlap` | 1 device, threshold 2 | **violated**: `EverySightingCounts`, section 6 |
| `topology` | Internet row and 2 devices; 3 devices, 3 addresses, 4 rows | `Sound`, `ConfirmedKept`, `AddingKeepsAcyclic`, `ScanRootsAll`; `NoSightingRefused`, `NoBackAndForth` hold |
| `settings` | 2 requests at a time, 2 keys, 3 bodies (one left blank in part, one refused), failures, restarts, restores | `OnlySavedInForce`, `CalmMeansInForce`, `PatchAnswered`, `ScansKeepComing` hold |
| `accounts` | 2 accounts, 2 sessions, 2 requests at a time, 1 failure before a block, crashes | `OneFirstAdmin`, `AdminRemains`, `RevokedWhenAnswered` hold |
| `snmp` | 2 pollers, 2 requests, limit 1, 3 targets ever, 1 restore | `OnePoll`, `SummaryMatchesTargets`, `OvershootBounded` hold |
| `identification` | 2 devices of one vendor, 2 requests at a time, 2 corrections, a type and "unknown" | `RuleRestsOnDevices`, `TypeOfBestSighting` hold |
| `types_withdrawn` | the same | **violated**: `WithdrawnTeachesNothing`, section 6 |
| `edges` | blocks of 8 addresses, up to 3 networks of every kind; messages of up to 6 bytes, depth 2, 2 items; 1 page, a channel of 2 places, 3 runs | `FedOnce`, `FeederEnds`; `ReadsInside`, `ReadingEnds`; `ShownForCause` hold |
| `background` | 1 device, 2 runs, 2 channels, 3 log entries; 2 requests for a backup, 1 upload, 1 backup kept, 2 seconds | `RepeatedForCause`, `TwiceAsLogged`; `ServedComplete`, `NothingLost`, `NewestKept` hold |

**Why these bounds.**

* Two runs are what it takes for a run that is leaving to meet its successor, and a
  third would only meet the second. Two workers and two addresses let one worker hold
  an address while the other, or the feeder, finishes; the second request is a network
  of one address, which `validateCIDR` counts and the feeder never sends, so that the
  pool may be larger than the work; two more have a total below the hosts and below zero,
  so that the pool may be smaller than the work or empty.
* One device is enough for presence: the rows `markMisses` goes through do not meet, and
  what the others add is that its steps come apart further, which polls and edits between
  any two of them do as well (the theorems are for any number). The code's own numbers are
  used because the off-by-ones sit there: of 12 and four times the threshold the first is
  larger for thresholds of 1 and 2, the second for 4. A pass trims the log to one event and may add several, so that there are
  neighbours in it. `presence_overlap` needs a factor and a threshold of two only.
* With an Internet row and two devices there are cycles through the gateway, duplicates
  to merge and a third party whose relations are rewritten. Three devices on three
  addresses can exchange addresses in a ring, and four rows hold one for each and a
  stale one.
* Two requests fill the one-place channel and race for it; a third would wait where the
  second does. Intervals of 1 and 2 let a timer that is shortened be ahead of its new
  length.
* Two requests about accounts are all that a check and its write need to be torn apart;
  two accounts, for one to change the other and itself. With a limit of one target, two
  requests that are let in together pass it; three targets ever leave one to be created
  after a deletion; the restore may come during a poll.
* Two corrections are what a rule needs. With a single type beside "unknown" a device can be
  corrected, taken back and corrected again, a rule can be learned for either, and the clue
  of a rule comes close to what the scan finds; an SNMP answer concludes either with the same
  confidence.
* A block of eight addresses contains networks of 1, 2, 4 and 8, one size more
  than the limit of the run, and nested, equal and adjacent pairs; the limits themselves
  (1024, 8, 65536) and the largest `int` are parameters. Six bytes hold a question, a record and a pointer to
  itself, to an earlier pointer or past the end; 192 marks a pointer, and the bytes 0 to
  3 are lengths, counts and offsets. A channel of two places is full after two events,
  and three runs let an end be overtaken by two beginnings.
* Two overlapping windows, two channels that fail one by one, and three changes of one
  device reach the limit within the hour. Two seconds give backups of the same and of
  different age, and keeping one means that there is always one to delete.

**Symmetry** is used in `topology`, `accounts`, `snmp`, `identification`,
`types_withdrawn` and `background`, on sets whose members no definition tells apart
(devices, ids, users, tokens, handlers, pollers), and with safety properties only.

**Fairness.** `Scanner`: weak fairness of each step of a run and of each worker:
goroutines are scheduled, and every probe, name lookup and database statement has
a time-out of its own. Nothing forces a request, a deadline or a restart;
a run without workers ends by its deadline only, so `scan_liveness` has none.
`Presence`: the schedule keeps starting scans (`schedule` in `server.go` loops on a
timer), and a scan once started goes through. The process may die, and `SilentGoesOffline` speaks of behaviours in which it stays up from some
point on. `NetworkRange`, `DnsName`: the loops run on (`edges` states both as one
condition, since a behaviour has one of them). `Settings`: handlers and the schedule
loop run and time passes; a send on a full channel is strongly fair, because Go serves
the senders that wait first come, first served. `ScansKeepComing` has a hypothesis:
every change of the interval sets the timer again, so changes that never stop can keep
it from firing. The other modules state safety only.

**Deadlock** is checked for presence, settings, accounts, SNMP, identification and the
background jobs. It is not in `scan_safety` and `scan_liveness`, which stop when their
runs are over, in `edges`, where a request that is served and a message that is read
stop, and in `topology`, whose tables may be left alone.

## 4. Proofs

All theorems hold for every value of the constants that satisfies the module's
assumption: any number of addresses, devices, requests, workers, seconds. Every safety
invariant of the runs that pass is a theorem, and so are the action properties and the
refinement; what is left to TLC is named at the end. An invariant is seldom inductive as
it stands; what has to be added is named below. Each inductive invariant was first
checked by TLC on the instance of its run.

`ScannerProofs` (`ScannerAssumption`: finitely many addresses; the hosts of a request lie in
its networks, its total may be any integer):

* `TypeCorrect` and `OneRunAtATime` (`OneActiveRun`): ids above `lastId` have not been
  used, so the run `Start` creates is no goroutine that still exists; a run that is
  leaving no longer writes the shared status.
* `CountsExact`, `NoAnswerMissed`, `HistoryIsTrue`, `CompletedIsSwept` all follow from
  one invariant, `Accounted`. For each run it divides the hosts among the feeder's
  queue, the workers' hands and the counted ones (`Divided`), says what the counters are
  at each stage (`Exact`, `Finished`, `Told`), which answers are in `seen` (`Answered`),
  and what the copy taken under the mutex holds once the next run may have replaced the
  status. Without the division the counter may be right today and a host be counted
  twice tomorrow.
* `EngineImplementsService`: every step of `Scanner` is a step of `ScanService` or a
  stutter under the refinement mapping. `CompletedMeansSwept` is what lets `Record` be
  the abstract `Close`.

`PresenceProofs` (`PresenceAssumption`: the counters can reach every threshold; nothing
about what runs beside what):

* `TypeCorrect`, `FailuresCounted` (`FailuresExact`), `OfflineIsEarned`,
  `SuspectedComesFirst`. The invariant `Current` says that what `markMisses` still holds
  of a device is what the row holds, unless the device was seen since (`late`), and that a
  device online has no failures. A write over a late row puts the device among the
  `overwritten`, and every other write adds one to a count that was exact, or to that of a
  device whose last sighting was not stored.
* `EventsTellOneStory` (`EventsChain`): the invariant `Chained` splits the chain into its
  neighbours (`Adjacent`), its end, which for a device that is not torn is the device's
  status or the start of the event still to be written (`Ahead`), and that there is one such
  event at a time and only during a pass (`OnePending`). Deleting old events takes a prefix
  of the list away and so cannot open a gap (`SuffixChained`). A new event starts where the
  last one ended or says that it does not (`AppendChained`), and only a torn device changes
  its status without one (`QuietChained`).

`TablesProofs`, the relations (`TopologyAssumption`; `Device` may be infinite but for
`ScanReachesAll`):

* `TypeCorrect`, `ConnectionsSound`: the inductive invariant is
  `TypeOK /\ Sound /\ CallSound`: a discovery call that has passed its reads joins two
  different stored rows, because deleting or merging a row makes the call fail on its
  foreign key. Without `CallSound` the write would not keep `Sound`.
* `AddingNeverCycles`: from the least-set reading of `Descendants` follow that it is
  closed, transitive and monotone in the graph. If no child of a set leads to the parent,
  adding the relations from the parent to all of them keeps the graph acyclic
  (`FanAcyclic`): the old descendants of a node outside, together with the parent's new
  ones, are closed.
* `DiscoveryKeepsConfirmed`: for `ensureCore` with a merge and for the three statements
  of a discovery call with anything between them.
* `ScanReachesAll` (`ScanRootsAll`), for finitely many devices: a device that the Internet
  row does not reach after `ensureCore` has a parent that it does not reach either. In a
  graph without cycles a parent has more descendants than its child (`ParentHasMore`), so
  among such devices one with the most descendants could have no parent among them
  (`ParentsEnd`).

`TablesProofs`, the rows (`IdentityAssumption`: the gateway is an address):

* `RowsTypeCorrect`, `SightingsAccepted`, `RowsSettle`. The invariant `Settled` has three
  parts: keys are unique; a row has the key of a MAC address as soon as it knows one, and
  else that of the address it shows; a row that was written for two devices since the
  network last changed has the key of the later one (`Recent`), for the row then showed
  the address of the earlier, so the later found it by its key, and the earlier finds it
  neither by key nor by address.

`TablesProofs`, the types (`IdentificationAssumption`: a scan finds finitely many clues,
weighted from 0 to 100):

* `TypesTypeCorrect`: no request stores the empty type, and the confidence `combineIdentificationEvidence` arrives at lies
  between 0 and 98 whatever the clues are, the ones a learned rule adds included.
* `BestIsShown` (`TypeOfBestSighting`) is inductive together with the types: a sighting
  replaces what is stored exactly when it is at least as certain.
* `RulesRestOnDevices` (`RuleRestsOnDevices`), for finitely many devices, corrections to
  "unknown" counted as the code counts them: it follows from
  the types alone by counting (`VotesCount`). A lesson is the latest correction of its
  device and agrees with what the user has set, so no device has two, and the votes for a
  type, and the lessons against it, are no more than the devices they come from.

`SettingsProofs` (`SettingsAssumption`): `TypeCorrect`, for which every place an interval
passes through has to hold a length of time (`Typed`); `SavedBeforeForce` by following every value back
to the table or the environment (`Traced`); `AnsweredIsInForce` by saying for each stage
of the one request under way what table, configuration, channel and timer hold
(`InOrder`).

`AccountsProofs` (`AccountsAssumption`): `TypeCorrect` (with the foreign keys);
`SetUpOnce` (`Founded`: the first account exists before any other);
`AdministratorStays` (`Undisturbed`: while no updates overlapped, what the update under
way has read of its account and of the other administrators still holds);
`SessionsRevoked` (`Covered`: each session that no longer stands is about to be deleted by
a request, belongs to it, or is excused).

`SnmpPollProofs` (`SnmpAssumption`): `TypeCorrect`; `OnePollEach`; `LimitNearlyKept` by
the invariant `Admitted`, which counts the requests that were let in with the targets:
the bound alone would not survive the next INSERT; `SummaryIsOfTheList`
(`SummaryMatchesTargets`) by `Tallied`: a poll under way has counted what the list holds
of the targets it is through with, which rests on `OnePoll`, since a second poll would
store outcomes the first has not counted.

`BackgroundProofs`, the files (`BackupAssumption`: at least one backup is kept, uploads are told from
everything else): `TypeCorrect` (with `Present`: the file a step moves is there),
`CompleteInService` (`Whole`: what a restore has checked is still what it checked),
`RestoreCanBeUndone` (`Stored`: between its two renames a restore has the database under
the name it remembers), `NewestStays` (`Trimmed`: every backup in a list of surplus ones,
however old the list, is older than a published one).

`BackgroundProofs`, the notifications (`NotifierAssumption`; any number of channels):

* `NotesTypeCorrect` and `LinesAsLogged` (`TwiceAsLogged`). If two equal entries of the log
  have another one of the same device between them, none of the three says that the device is new (`NewFirst`: it is
  before anything else is recorded of it), so a window that holds the two holds
  three changes, which is one more than a device may have within the hour before `NotifyScan`
  takes it for restless. That the three lie within the hour needs `InWindow`.
* `ToldOnce` (`RepeatedForCause`): as long as nothing happened that excuses a repetition,
  one call at a time is between its reads and its records (`OneBusy`), what a channel was
  told lately is recorded or owed by the call that told it (`Settled`), and what a call is
  telling is not recorded (`StillNews`).

`EdgesProofs` (`RangeAssumption`: the size of a network divides the block, whatever the
largest `int` is;
`DnsAssumption`: bytes are bytes; `HubAssumption`: a channel has room for an event):

* `EachAddressOnce` (`FedOnce`). Accepted networks lie apart (`Apart`), which is where
  comparing base addresses has to be shown to be enough: a network is the interval from
  its base (`ContainsInterval`). The loop goes on to the `Top` of a network (`InsideTop`): the
  last address but one, or the last in the IPv6 form, where the base the loop waits for never
  comes. `Progressed` says what has been sent when the loop stands at an address of its
  network, and `Counted` that the total, with one more for each network in the IPv6 form, is
  the number of addresses to be sent; equal numbers of both come from the sent sequence being a
  bijection.
* `ReadingStaysInside` (`ReadsInside`): `Announced` says that a stage with nothing left to
  read has been left, and that there are no more results than records.
* `FeederWindsDown` and `ReadingWindsDown`: every step leaves less to do. For the feeder
  these are networks and then addresses; for a message items, then pointers that may still
  be followed, then bytes of the name. Each is bounded by the constants, so both come to
  an end after a bounded number of steps; that they are let run on is the fairness that
  `FeederEnds` and `ReadingEnds` add.
* `RunningShownForCause` (`ShownForCause`). For each page the runs are `Due` whose end is
  still to come to it or is known to be missed. What may make the page show a scan, an
  event in its channel (`Awaited`), an answer on its way (`Answered`) or the display itself
  (`Displayed`), is about a run that is due, unless an answer is old enough to have been
  overtaken; and events of a run stand before the end of it (`Ordered`). When nothing is
  on its way, a run that is due is running or missed.
* `TypeCorrect`.

Only model-checked are the liveness properties (`RunEnds`, `RowSettles`,
`SilentGoesOffline`, `PatchAnswered`, `ScansKeepComing`, `FeederEnds`, `ReadingEnds`):
fairness is out of the prover's reach. So is induction over data with the library's
induction theorems; where a finite set or a length had to be followed to its end, the
proofs take a least natural number instead (`LeastNatural`).

## 5. Not modelled

Listed with reasons in `PROJECT.json`:

* input and output without state of their own: packet contents, SNMP walks and the
  matching of neighbours, name lookups, SSDP headers, password hashing, cookies, the
  contents of messages, routing, rendering and layout;
* the MAC vendor database: a download, and a lookup by the longest prefix;
* of a merge, what is kept of names, notes, marks and positions, and the event rows it
  moves;
* of restore, two that overlap: both use the file `.restore`, so one may check what the
  other is writing; of backups, two in one second, which share a temporary file, and a copy
  that a checkpoint tears while it is made;
* the `Scanner`'s pointer to the database, which a restore swaps without a lock: a run that
  goes on across a restore fails its statements or writes to the other database;
* builds in which `int` has 32 bits;
* when an automatic backup is due, and what settings change between the steps of a
  notification.

## 6. Where the code and its words differ

Found as a run's counterexample:

* **A sighting overwritten** (`presence_overlap`, `EverySightingCounts`). A poll that sees a
  device between the read and the write of `markMisses` is undone; the device can turn offline
  at once. README.md:235 promises it only after consecutive failures. The same happens after
  a sighting that `upsertSeen` failed to store (scanner.go:137 drops its error).
* **A correction withdrawn** (`types_withdrawn`, `WithdrawnTeachesNothing`). A user who takes a
  type back leaves the device with the type "unknown", which is recorded as a correction and
  counted as a lesson (server_devices.go:179, identification_learning.go:31); README.md:227
  says that a correction that was cancelled no longer counts.

The following are stated in the modules, under "What the program's words say and the code
does not do", and TLC refutes each when it is added to the configuration of the module's
run:

* **Misses outside the scanned networks** (`MissesInRange`, `Scanner`). `markMisses` goes
  through every stored device, so a manual scan of one network brings the devices of all
  others closer to offline. The same call also counts addresses that a sweep cut short by
  its deadline never reached.
* **A broadcast address probed** (`HostsOnly`, `NetworkRange`). For a network in the IPv6 form
  the feeder goes on to the broadcast address, one address more than was counted;
  network.go:150 says that it is never a target.
* **A confirmed relation lost in a merge** (`ConfirmedSurvivesMerge`, `Topology`).
  `INSERT OR IGNORE` keeps the LLDP row the kept record already has and drops the user's.
* **PATCH closes a cycle** (`PatchKeepsAcyclic`, `Topology`) that POST refuses.
* **A saved setting that is not in force** (`SavedInForce`, `Settings`). Of two PATCHes
  served together the one that replaces the configuration last undoes the other, although
  both are saved and the page says so (web/scan-settings-core.js:222). A restart repairs
  it.
* **No administrator left** (`AdminAlways`, `Accounts`). Two requests that demote the last
  two administrators each count the other one (auth.go:307).
* **More than 32 targets** (`LimitKept`, `SnmpPoll`). The count and the INSERT are two
  statements (snmp_store.go:50, :58).

Behaviour a reader should know of, which the models contain:

* A scan may close a cycle too, since a modem the user put above the gateway has no
  parent and `ensureCore` hangs it below the gateway (store_discovery.go:158).
  `addConnection` also deletes LLDP relations although its comment speaks of
  low-confidence inferred ones (server_topology.go:86, :123).
* A device that takes the address of another and has no row of its own is written to the
  other's row, which keeps the other's key and name until that one comes back; two rows may
  then show one MAC address. A row keeps the last address of a device that left, so when
  another device gets that address, `markMisses`, which goes by address
  (store_discovery.go:71), misses neither: the one that left stays online. A row that shows
  the gateway's address is merged into the gateway's, whichever device it was
  (store_discovery.go:121).
* A network of one or two addresses is counted in the total although none of its addresses
  is probed (network.go:149). A prefix of 65 bits or fewer in the IPv6 form passes every limit
  with a count of zero or a negative one (network.go:145); beside other networks it makes the
  total, from which the number of workers is taken, too small. A run whose total is not
  positive has no workers: unless it has nothing to send, its feeder waits for the deadline.
* Two equal events of a device may follow each other in `status_events`: a write of `markMisses`
  over a sighting leaves no event if the status it had read was the same, and an INSERT that
  fails is dropped (store_discovery.go:54, :89-94).
* A page keeps showing a scan that is over when the end of it found the channel full, came
  between its question about the status and its stream, or fell into a break of the stream:
  nothing is asked again after a reconnection. A page may also show as running what an
  older answer says.
* What one channel delivered while the other failed is not recorded, and told again when a
  later window shows it. Changes between the queries of one `NotifyScan` and the start of
  the next run are never told. One message may hold the same line twice if the log does, or in
  a run longer than an hour.
* A restore that fails after it closed the database leaves the server without one until it
  is restarted (server_backup.go:85). A restore leaves the running configuration as it was
  (server_backup.go:98), and polls under way go on against the closed database. A blank
  value is saved, but the running value stays until a restart brings the environment's back
  (config.go:67).
* Types whose evidence ties are decided by the order of a map, so the type of a device may
  change from scan to scan. A rule is no longer learned from a correction once the scan
  agrees with it, so a rule can undo itself.

## 7. Plan

Done, in the order of importance: the scan engine with its abstract service, its full
invariant and the refinement; presence; the graph; ranges; settings; accounts; SNMP
polling; device identity; backups; notifications; the hub and the display;
identification; mDNS names; and the proofs of section 4, which reach every safety property
of the runs.

What is left, in the order of its worth:

1. A measure that the steps of a run lower, as there is one for the feeder and for the
   reading of a message.
2. `Presence` over `DeviceIdentity`: misses that go by address, with rows that share one.
3. What a merge keeps of the user's fields; overlapping restores.
4. `Scanner` with `EventHub` in place of the reduced scan, and `Settings` with the guard of
   `Start`.
