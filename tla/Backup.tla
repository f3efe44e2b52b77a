------------------------------- MODULE Backup -------------------------------
(***************************************************************************)
(* Restore and automatic backups at the level of files                     *)
(* (internal/app/server_backup.go, maintenance.go).                        *)
(*                                                                         *)
(* A restore writes the upload to one fixed name, checks it, closes the    *)
(* database, moves it aside under the second's name, moves the upload into *)
(* its place and opens it.  An automatic backup fills a temporary file,    *)
(* gives it its final name and deletes what is more than to be kept.       *)
(* Requests and the hourly maintenance do this side by side; only the copy *)
(* and the exchange are under backupMu.  Restores come one at a time here: *)
(* of two that overlap one may check what the other one writes.  Nor are   *)
(* two backups named in one second: they would share their files.          *)
(*                                                                         *)
(* What a backup is of does not matter, nor whether a commit moved pages   *)
(* into the database while it was copied.  A download (GET /api/backup) is *)
(* the copy alone and leaves no file.                                      *)
(* Bug... operators are faulty forms of the definition below them.         *)
(***************************************************************************)
EXTENDS Naturals, FiniteSets

CONSTANTS
    Handler,  \* requests for a backup, and the maintenance loop
    Upload,   \* the databases that are uploaded
    Keep,     \* automatic_backup_keep
    MaxSec    \* bound: seconds

ASSUME BackupAssumption ==
    /\ Keep \in Nat \ {0} /\ MaxSec \in Nat
    /\ Upload \cap {"first", "empty", "broken", "partial", "copy"} = {}

VARIABLES
    file,     \* the files: name -> what it holds, and when it was written
    store,    \* "open" or "closed": Server.store
    sec,      \* the time, in seconds
    restore,  \* the restore in progress: where it stands, and its locals
    req,      \* per handler: where it stands, and its locals
    served,   \* history: databases that were in service
    named,    \* history: what was named after this second so far
    clash     \* history: two databases were moved aside in one second

vars == <<file, store, sec, restore, req, served, named, clash>>

Database == {"first", "empty"} \cup Upload
Content == Database \cup {"broken", "partial", "copy"}
Idle == [at |-> "idle"]

Db == <<"db", 0>>
Temporary == <<"restore", 0>>
Zip(s) == <<"zip", s>>
Names == DOMAIN file
Listed == {p \in Names : p[1] = "zip"}

Goto(h, r) == req' = [req EXCEPT ![h] = r]
At(h, stage) == req[h].at = stage

\* The files after a write, a removal and a rename.  Only the time of a
\* backup matters.
With(p, f) == [q \in Names \cup {p} |-> IF q = p THEN f ELSE file[q]]
Written(p, c) == With(p, [what |-> c, time |-> 0])
Removed(p) == [q \in Names \ {p} |-> file[q]]
Renamed(p, q) == [n \in (Names \ {p}) \cup {q} |-> IF n = q THEN file[p] ELSE file[n]]

\* backupMu
Locked == \/ restore.at \in {"place", "open"}
          \/ \E h \in Handler : At(h, "copy")

Init == /\ file = [p \in {Db} |-> [what |-> "first", time |-> 0]]
        /\ store = "open" /\ sec = 0
        /\ restore = Idle /\ req = [h \in Handler |-> Idle]
        /\ served = {"first"} /\ named = {} /\ clash = FALSE

-----------------------------------------------------------------------------
\* restore.

\* os.WriteFile; on a full disk it leaves what it could write.
Receive ==
    /\ restore = Idle
    /\ \E u \in Upload \cup {"broken", "partial"} :
          /\ file' = Written(Temporary, u)
          /\ restore' = IF u = "partial" THEN Idle ELSE [at |-> "check"]
    /\ UNCHANGED <<store, sec, req, served, named, clash>>

BugSound(c) == TRUE
\* sqlOpenCheck: PRAGMA integrity_check
Sound(c) == c \in Database

Check ==
    /\ restore.at = "check"
    /\ IF Sound(file[Temporary].what)
       THEN restore' = [at |-> "aside"] /\ UNCHANGED file
       ELSE restore' = Idle /\ file' = Removed(Temporary)
    /\ UNCHANGED <<store, sec, req, served, named, clash>>

BugPrevious(s) == <<"previous", 0>>
\* path + ".pre-restore-" + the second
Previous(s) == <<"previous", s>>

\* s.backupMu.Lock(); s.store.db.Close(); os.Rename(path, previous).  A
\* failure ends the request, the database closed.
Aside ==
    /\ restore.at = "aside" /\ ~Locked
    /\ store' = "closed"
    /\ \/ /\ Db \in Names
          /\ file' = Renamed(Db, Previous(sec))
          /\ restore' = [at |-> "place", previous |-> Previous(sec)]
          /\ named' = named \cup {"previous"}
          /\ clash' = (clash \/ "previous" \in named)
       \/ restore' = Idle /\ UNCHANGED <<file, named, clash>>
    /\ UNCHANGED <<sec, req, served>>

\* os.Rename(temporary, path); after a failure the old one is moved back,
\* which may fail as well.
Place ==
    /\ restore.at = "place"
    /\ \/ file' = Renamed(Temporary, Db) /\ restore' = [at |-> "open"]
       \/ file' = Renamed(restore.previous, Db) /\ restore' = Idle
       \/ restore' = Idle /\ UNCHANGED file
    /\ UNCHANGED <<store, sec, req, served, named, clash>>

\* openStore, which may fail; the server and its parts use the new store.
Reopen ==
    /\ restore.at = "open"
    /\ \/ store' = "open" /\ served' = served \cup {file[Db].what}
       \/ UNCHANGED <<store, served>>
    /\ restore' = Idle
    /\ UNCHANGED <<file, sec, req, named, clash>>

-----------------------------------------------------------------------------
\* makeAutomaticBackup, and the trimming after it.

\* name + ".tmp"
Tmp(s) == <<"tmp", s>>

\* Created or emptied, before the lock is taken.
OpenTmp(h) ==
    /\ At(h, "idle") /\ "backup" \notin named
    /\ file' = Written(Tmp(sec), "partial")
    /\ Goto(h, [at |-> "begin", sec |-> sec])
    /\ named' = named \cup {"backup"}
    /\ UNCHANGED <<store, sec, restore, served, clash>>

\* Any error of writeBackup, of the file or the rename: the file is removed.
GiveUp(h) == Goto(h, Idle) /\ file' = Removed(Tmp(req[h].sec))

\* writeBackup up to os.Open: the checkpoint needs an open database.
BeginCopy(h) ==
    /\ At(h, "begin") /\ ~Locked
    /\ \/ /\ store = "open"
          /\ Goto(h, [req[h] EXCEPT !.at = "copy"])
          /\ UNCHANGED file
       \/ GiveUp(h)
    /\ UNCHANGED <<store, sec, restore, served, named, clash>>

\* The rest of writeBackup, and the file is closed.
EndCopy(h) ==
    /\ At(h, "copy")
    /\ \/ /\ file' = With(Tmp(req[h].sec), [what |-> "copy", time |-> sec])
          /\ Goto(h, [req[h] EXCEPT !.at = "publish"])
       \/ GiveUp(h)
    /\ UNCHANGED <<store, sec, restore, served, named, clash>>

\* os.Rename(temporary, path)
Publish(h) ==
    /\ At(h, "publish")
    /\ \/ /\ file' = Renamed(Tmp(req[h].sec), Zip(req[h].sec))
          /\ Goto(h, [at |-> "list"])
       \/ GiveUp(h)
    /\ UNCHANGED <<store, sec, restore, served, named, clash>>

\* sort.Slice by time; up to a dozen files of the same second stay in the
\* order of their names.
Newer(p, q) == \/ file[p].time > file[q].time
               \/ file[p].time = file[q].time /\ p[2] < q[2]

BugSurplus(ps) == {p \in ps : Cardinality({q \in ps : Newer(p, q)}) >= Keep}
\* backups[keep:]
Surplus(ps) == {p \in ps : Cardinality({q \in ps : Newer(q, p)}) >= Keep}

\* automaticBackups.  Maintenance comes here without a backup when none is due.
List(h) ==
    /\ At(h, "list") \/ At(h, "idle")
    /\ Goto(h, IF Surplus(Listed) = {} THEN Idle
               ELSE [at |-> "trim", rest |-> Surplus(Listed)])
    /\ UNCHANGED <<file, store, sec, restore, served, named, clash>>

\* os.Remove of one after the other, the error of which is ignored.
Trim(h) ==
    /\ At(h, "trim")
    /\ \E p \in req[h].rest :
          /\ file' = Removed(p) \/ UNCHANGED file
          /\ Goto(h, IF req[h].rest = {p} THEN Idle
                     ELSE [at |-> "trim", rest |-> req[h].rest \ {p}])
    /\ UNCHANGED <<store, sec, restore, served, named, clash>>

-----------------------------------------------------------------------------

Second == /\ sec < MaxSec /\ sec' = sec + 1
          /\ named' = {}
          /\ UNCHANGED <<file, store, restore, req, served, clash>>

\* The process ends at any point and comes up again; openStore makes a
\* database where there is none.
Crash ==
    /\ restore' = Idle /\ req' = [h \in Handler |-> Idle]
    /\ file' = IF Db \in Names THEN file ELSE Written(Db, "empty")
    /\ served' = served \cup {file'[Db].what}
    /\ store' = "open"
    /\ UNCHANGED <<sec, named, clash>>

Restore == Receive \/ Check \/ Aside \/ Place \/ Reopen

Save(h) == \/ OpenTmp(h) \/ BeginCopy(h) \/ EndCopy(h)
           \/ Publish(h) \/ List(h) \/ Trim(h)

Next == Restore \/ (\E h \in Handler : Save(h)) \/ Second \/ Crash

Spec == Init /\ [][Next]_vars

-----------------------------------------------------------------------------

Name == {"db", "restore", "previous", "tmp", "zip"} \X (0 .. MaxSec)

\* Every variable holds a value of its kind.
TypeOK ==
    /\ Names \subseteq Name
    /\ file \in [Names -> [what : Content, time : 0 .. MaxSec]]
    /\ store \in {"open", "closed"} /\ sec \in 0 .. MaxSec
    /\ restore \in {Idle} \cup [at : {"check", "aside", "open"}]
                   \cup [at : {"place"}, previous : Name]
    /\ req \in [Handler -> {Idle} \cup [at : {"list"}]
                           \cup [at : {"begin", "copy", "publish"}, sec : 0 .. MaxSec]
                           \cup [at : {"trim"}, rest : SUBSET Name]]
    /\ served \subseteq Content
    /\ named \subseteq {"previous", "backup"} /\ clash \in BOOLEAN

\* Whatever fails and wherever the process ends, nothing but a complete
\* database ever comes into service.
ServedComplete == served \subseteq Database

\* A restore can be undone: what was in service is still somewhere, under the
\* database's name or beside it, unless two databases were moved aside in one
\* second.
NothingLost ==
    ~clash => \A c \in served : \E p \in Names : /\ p[1] \in {"db", "previous"}
                                                 /\ file[p].what = c

\* Trimming from a list that is no longer the present one, beside another
\* that does the same, never takes the newest backup there is.
NewestKept ==
    [][\A p \in Listed :
          (\A q \in Listed \ {p} : Newer(p, q)) => p \in DOMAIN file']_vars
=============================================================================
