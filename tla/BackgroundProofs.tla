-------------------------- MODULE BackgroundProofs --------------------------
(***************************************************************************)
(* Theorems about the jobs beside the scans: restores and automatic        *)
(* backups, for any number of requests, uploads and backups to keep; and   *)
(* the notifications about finished scans, for any number of devices, runs *)
(* and channels and any length of the log.                                 *)
(***************************************************************************)
EXTENDS MCBackground, FiniteSetTheorems, SequenceTheorems, TLAPS

-----------------------------------------------------------------------------
\* Facts about the values the actions build.

Entry == [what : Content, time : 0 .. MaxSec]
Writing == [at : {"begin", "copy", "publish"}, sec : 0 .. MaxSec]
Trimming == [at : {"trim"}, rest : SUBSET Name]
Requests == {Idle} \cup [at : {"list"}] \cup Writing \cup Trimming

LEMMA NamesTyped ==
    ASSUME NEW s \in 0 .. MaxSec
    PROVE  {Db, Temporary, Previous(s), Tmp(s), Zip(s)} \subseteq Name
  BY BackupAssumption DEF Db, Temporary, Previous, Tmp, Zip, Name

LEMMA ContentTyped ==
    /\ {"broken", "partial", "copy"} \subseteq Content
    /\ Database \subseteq Content /\ Upload \subseteq Database
    /\ {"first", "empty"} \subseteq Database
  BY DEF Content, Database

\* The files after a write, a removal and a rename.
LEMMA FilesTyped ==
    ASSUME TypeOK,
           \/ \E p \in Name, f \in Entry : file' = With(p, f)
           \/ \E p \in Name : file' = Removed(p)
           \/ \E p \in Names, q \in Name : file' = Renamed(p, q)
           \/ UNCHANGED file
    PROVE  Names' \subseteq Name /\ file' \in [Names' -> Entry]
<1>1. Names = DOMAIN file /\ Names' = DOMAIN file' /\ Names \subseteq Name
      /\ \A p \in Names : file[p] \in Entry
  BY DEF TypeOK, Names, Entry
<1>2. CASE \E p \in Name, f \in Entry : file' = With(p, f)
  BY <1>1, <1>2 DEF With
<1>3. CASE \E p \in Name : file' = Removed(p)
  BY <1>1, <1>3 DEF Removed
<1>4. CASE \E p \in Names, q \in Name : file' = Renamed(p, q)
  BY <1>1, <1>4 DEF Renamed
<1>5. CASE UNCHANGED file
  BY <1>1, <1>5 DEF TypeOK, Entry
<1> QED BY <1>2, <1>3, <1>4, <1>5

\* A request that moves on.
LEMMA RequestMoves ==
    ASSUME TypeOK, NEW h \in Handler, NEW r, Goto(h, r)
    PROVE  /\ req'[h] = r /\ \A g \in Handler \ {h} : req'[g] = req[g]
           /\ DOMAIN req' = Handler
           /\ r \in Requests => req' \in [Handler -> Requests]
  BY DEF Goto, TypeOK, Requests, Writing, Trimming

LEMMA Stages ==
    ASSUME TypeOK, NEW h \in Handler
    PROVE  /\ req[h] \in Requests
           /\ req[h].at \in {"begin", "copy", "publish"} => req[h] \in Writing
           /\ req[h].at = "trim" => req[h] \in Trimming
  BY DEF TypeOK, Requests, Writing, Trimming, Idle

-----------------------------------------------------------------------------
\* Type correctness.

Making(h) == req[h].at \in {"begin", "copy", "publish"}

\* What is read or moved is there, and each backup being made has a second of
\* its own.
Present ==
    /\ restore.at \in {"check", "aside", "place"} => Temporary \in Names
    /\ restore.at = "place" => /\ restore.previous \in Names
                               /\ restore.previous[1] = "previous"
    /\ restore.at = "open" => Db \in Names
    /\ \A h \in Handler :
          /\ Making(h) => /\ req[h].sec <= sec
                          /\ req[h].sec = sec => "backup" \in named
                          /\ \A g \in Handler \ {h} : Making(g) => req[g].sec # req[h].sec
          /\ At(h, "publish") => Tmp(req[h].sec) \in Names
          /\ At(h, "trim") => \A p \in req[h].rest : p[1] = "zip"

\* What the steps of requests do to the files.
LEMMA SaveFile ==
    ASSUME TypeOK, Present, NEW h \in Handler, Save(h)
    PROVE  \/ UNCHANGED file
           \/ \E s \in 0 .. MaxSec, f \in Entry : file' = With(Tmp(s), f)
           \/ \E p \in Name : p[1] \in {"tmp", "zip"} /\ file' = Removed(p)
           \/ \E s \in 0 .. MaxSec : Tmp(s) \in Names /\ file' = Renamed(Tmp(s), Zip(s))
<1>1. sec \in 0 .. MaxSec /\ 0 \in 0 .. MaxSec
  BY BackupAssumption DEF TypeOK
<1>2. CASE OpenTmp(h)
  <2>1. [what |-> "partial", time |-> 0] \in Entry
    BY <1>1, ContentTyped DEF Entry
  <2>2. file' = With(Tmp(sec), [what |-> "partial", time |-> 0])
    BY <1>2 DEF OpenTmp, Written
  <2> QED BY <1>1, <2>1, <2>2
<1>3. ASSUME Making(h), file' = Removed(Tmp(req[h].sec))
      PROVE  \E p \in Name : p[1] \in {"tmp", "zip"} /\ file' = Removed(p)
  <2>1. req[h].sec \in 0 .. MaxSec
    BY <1>3, Stages DEF Making, Writing
  <2>2. Tmp(req[h].sec) \in Name /\ Tmp(req[h].sec)[1] = "tmp"
    BY <2>1, NamesTyped DEF Tmp
  <2> QED BY <1>3, <2>2
<1>4. CASE BeginCopy(h)
  BY <1>3, <1>4 DEF BeginCopy, GiveUp, At, Making
<1>5. CASE EndCopy(h)
  <2>1. req[h].sec \in 0 .. MaxSec
    BY <1>5, Stages DEF EndCopy, At, Writing
  <2>2. [what |-> "copy", time |-> sec] \in Entry
    BY <1>1, ContentTyped DEF Entry
  <2> QED BY <1>3, <1>5, <2>1, <2>2 DEF EndCopy, GiveUp, At, Making
<1>6. CASE Publish(h)
  <2>1. req[h].sec \in 0 .. MaxSec
    BY <1>6, Stages DEF Publish, At, Writing
  <2>2. Tmp(req[h].sec) \in Names
    BY <1>6 DEF Publish, Present
  <2> QED BY <1>3, <1>6, <2>1, <2>2 DEF Publish, GiveUp, At, Making
<1>7. CASE List(h)
  BY <1>7 DEF List
<1>8. CASE Trim(h)
  <2>1. PICK p \in req[h].rest : file' = Removed(p) \/ UNCHANGED file
    BY <1>8 DEF Trim
  <2>2. p \in Name /\ p[1] = "zip"
    BY <1>8, Stages DEF Trim, At, Trimming, Present
  <2> QED BY <2>1, <2>2
<1> QED BY <1>2, <1>4, <1>5, <1>6, <1>7, <1>8 DEF Save

\* The files a restore works on are none of theirs.
LEMMA SaveElsewhere ==
    ASSUME TypeOK, Present, NEW h \in Handler, Save(h)
    PROVE  /\ Names' \subseteq Name /\ file' \in [Names' -> Entry]
           /\ \A p \in Name : p[1] \in {"db", "restore", "previous"} =>
                 (p \in Names' <=> p \in Names) /\ (p \in Names => file'[p] = file[p])
<1>1. CASE UNCHANGED file
  BY <1>1, FilesTyped DEF Names
<1>2. CASE \E s \in 0 .. MaxSec, f \in Entry : file' = With(Tmp(s), f)
  <2>1. PICK s \in 0 .. MaxSec, f \in Entry : file' = With(Tmp(s), f)
    BY <1>2
  <2>2. Tmp(s) \in Name /\ Tmp(s)[1] = "tmp"
    BY NamesTyped DEF Tmp
  <2>3. Names' \subseteq Name /\ file' \in [Names' -> Entry]
    BY <2>1, <2>2, FilesTyped
  <2> QED BY <2>1, <2>2, <2>3 DEF Names, With
<1>3. CASE \E p \in Name : p[1] \in {"tmp", "zip"} /\ file' = Removed(p)
  <2>1. PICK p \in Name : p[1] \in {"tmp", "zip"} /\ file' = Removed(p)
    BY <1>3
  <2>2. Names' \subseteq Name /\ file' \in [Names' -> Entry]
    BY <2>1, FilesTyped
  <2> QED BY <2>1, <2>2 DEF Names, Removed
<1>4. CASE \E s \in 0 .. MaxSec : Tmp(s) \in Names /\ file' = Renamed(Tmp(s), Zip(s))
  <2>1. PICK s \in 0 .. MaxSec : Tmp(s) \in Names /\ file' = Renamed(Tmp(s), Zip(s))
    BY <1>4
  <2>2. Zip(s) \in Name /\ Tmp(s)[1] = "tmp" /\ Zip(s)[1] = "zip"
    BY NamesTyped DEF Tmp, Zip
  <2>3. Names' \subseteq Name /\ file' \in [Names' -> Entry]
    BY <2>1, <2>2, FilesTyped
  <2> QED BY <2>1, <2>2, <2>3 DEF Names, Renamed
<1> QED BY <1>1, <1>2, <1>3, <1>4, SaveFile

\* The requests after a step of one of them.
LEMMA SaveRequests ==
    ASSUME TypeOK, Present, NEW h \in Handler, Save(h)
    PROVE  req' \in [Handler -> Requests]
<1>1. Idle \in Requests /\ sec \in 0 .. MaxSec
  BY DEF Requests, TypeOK
<1>2. CASE OpenTmp(h)
  <2>1. [at |-> "begin", sec |-> sec] \in Requests
    BY <1>1 DEF Requests, Writing
  <2> QED BY <1>2, <2>1, RequestMoves DEF OpenTmp
<1>3. ASSUME NEW x \in {"copy", "publish"}, Making(h),
             Goto(h, [req[h] EXCEPT !.at = x])
      PROVE  req' \in [Handler -> Requests]
  <2>1. req[h] \in Writing
    BY <1>3, Stages DEF Making
  <2>2. [req[h] EXCEPT !.at = x] \in Requests
    BY <2>1 DEF Requests, Writing
  <2> QED BY <1>3, <2>2, RequestMoves
<1>4. ASSUME GiveUp(h) PROVE req' \in [Handler -> Requests]
  BY <1>1, <1>4, RequestMoves DEF GiveUp
<1>5. CASE BeginCopy(h)
  BY <1>3, <1>4, <1>5 DEF BeginCopy, At, Making
<1>6. CASE EndCopy(h)
  BY <1>3, <1>4, <1>6 DEF EndCopy, At, Making
<1>7. CASE Publish(h)
  <2>1. [at |-> "list"] \in Requests
    BY DEF Requests
  <2> QED BY <1>4, <1>7, <2>1, RequestMoves DEF Publish
<1>8. CASE List(h)
  <2>1. Surplus(Listed) \subseteq Name
    BY DEF Surplus, Listed, TypeOK
  <2>2. [at |-> "trim", rest |-> Surplus(Listed)] \in Requests
    BY <2>1 DEF Requests, Trimming
  <2> QED BY <1>1, <1>8, <2>2, RequestMoves DEF List
<1>9. CASE Trim(h)
  <2>1. PICK p \in req[h].rest :
           Goto(h, IF req[h].rest = {p} THEN Idle
                   ELSE [at |-> "trim", rest |-> req[h].rest \ {p}])
    BY <1>9 DEF Trim
  <2>2. req[h].rest \subseteq Name
    BY <1>9, Stages DEF Trim, At, Trimming
  <2>3. [at |-> "trim", rest |-> req[h].rest \ {p}] \in Requests
    BY <2>2 DEF Requests, Trimming
  <2> QED BY <1>1, <2>1, <2>3, RequestMoves
<1> QED BY <1>2, <1>5, <1>6, <1>7, <1>8, <1>9 DEF Save

LEMMA TypeSave ==
    ASSUME TypeOK, Present, NEW h \in Handler, Save(h)
    PROVE  TypeOK'
<1>1. UNCHANGED <<store, sec, restore, served, clash>> /\ named' \subseteq named \cup {"backup"}
  BY DEF Save, OpenTmp, BeginCopy, EndCopy, Publish, List, Trim
<1>2. Names' \subseteq Name /\ file' \in [Names' -> Entry]
  BY SaveElsewhere
<1>3. req' \in [Handler -> Requests]
  BY SaveRequests
<1> QED BY <1>1, <1>2, <1>3 DEF TypeOK, Entry, Requests, Writing, Trimming

LEMMA TypeRestore ==
    ASSUME TypeOK, Present, Restore
    PROVE  TypeOK'
<1>1. sec \in 0 .. MaxSec /\ 0 \in 0 .. MaxSec
  BY BackupAssumption DEF TypeOK
<1>2. {Db, Temporary, Previous(sec)} \subseteq Name
  BY <1>1, NamesTyped
<1>3. ASSUME Names' \subseteq Name, file' \in [Names' -> Entry],
             store' \in {"open", "closed"}, UNCHANGED <<sec, req>>,
             restore' \in {Idle} \cup [at : {"check", "aside", "open"}]
                          \cup [at : {"place"}, previous : Name],
             served' \subseteq Content, named' \subseteq {"previous", "backup"},
             clash' \in BOOLEAN
      PROVE  TypeOK'
  BY <1>3 DEF TypeOK, Entry
<1>4. CASE Receive
  <2>1. PICK u \in Upload \cup {"broken", "partial"} :
          /\ file' = Written(Temporary, u)
          /\ restore' = IF u = "partial" THEN Idle ELSE [at |-> "check"]
    BY <1>4 DEF Receive
  <2>2. [what |-> u, time |-> 0] \in Entry
    BY <1>1, ContentTyped DEF Entry
  <2>3. Names' \subseteq Name /\ file' \in [Names' -> Entry]
    BY <1>2, <2>1, <2>2, FilesTyped DEF Written
  <2> QED BY <1>3, <1>4, <2>1, <2>3 DEF Receive, TypeOK
<1>5. CASE Check
  <2>1. Names' \subseteq Name /\ file' \in [Names' -> Entry]
    BY <1>2, <1>5, FilesTyped DEF Check
  <2> QED BY <1>3, <1>5, <2>1 DEF Check, TypeOK
<1>6. CASE Aside
  <2>1. Names' \subseteq Name /\ file' \in [Names' -> Entry]
    BY <1>2, <1>6, FilesTyped DEF Aside
  <2>2. restore' \in {Idle} \cup [at : {"check", "aside", "open"}]
                    \cup [at : {"place"}, previous : Name]
    BY <1>2, <1>6 DEF Aside
  <2>3. /\ named' \subseteq {"previous", "backup"} /\ clash' \in BOOLEAN
        /\ served' \subseteq Content /\ UNCHANGED <<sec, req>> /\ store' = "closed"
    BY <1>6 DEF Aside, TypeOK
  <2> QED BY <1>3, <2>1, <2>2, <2>3
<1>7. CASE Place
  <2>1. Names' \subseteq Name /\ file' \in [Names' -> Entry]
    BY <1>2, <1>7, FilesTyped DEF Place, Present
  <2> QED BY <1>3, <1>7, <2>1 DEF Place, TypeOK
<1>8. CASE Reopen
  <2>1. Names' \subseteq Name /\ file' \in [Names' -> Entry]
    BY <1>8, FilesTyped DEF Reopen
  <2>2. file[Db].what \in Content
    BY <1>8 DEF Reopen, Present, TypeOK
  <2> QED BY <1>3, <1>8, <2>1, <2>2 DEF Reopen, TypeOK
<1> QED BY <1>4, <1>5, <1>6, <1>7, <1>8 DEF Restore

LEMMA TypeCrash ==
    ASSUME TypeOK, Crash
    PROVE  TypeOK' /\ Db \in Names'
<1>1. Names' \subseteq Name /\ file' \in [Names' -> Entry] /\ Db \in Names'
  <2>1. CASE Db \in Names
    BY <2>1, FilesTyped DEF Crash, Names
  <2>2. CASE Db \notin Names
    <3>1. 0 \in 0 .. MaxSec
      BY BackupAssumption
    <3>2. [what |-> "empty", time |-> 0] \in Entry /\ Db \in Name
      BY <3>1, ContentTyped, NamesTyped DEF Entry
    <3>3. file' = With(Db, [what |-> "empty", time |-> 0])
      BY <2>2 DEF Crash, Written
    <3>4. Db \in Names'
      BY <3>3 DEF With, Names
    <3> QED BY <3>2, <3>3, <3>4, FilesTyped
  <2> QED BY <2>1, <2>2
<1>2. file'[Db].what \in Content
  BY <1>1 DEF Entry
<1>3. req' \in [Handler -> {Idle}]
  BY DEF Crash
<1> QED BY <1>1, <1>2, <1>3 DEF Crash, TypeOK, Entry

\* Whether the requests a step touches are still in order.
LEMMA PresentSave ==
    ASSUME TypeOK, Present, NEW h \in Handler, Save(h)
    PROVE  Present'
<1>0. /\ UNCHANGED <<sec, restore>> /\ named \subseteq named'
      /\ \A g \in Handler \ {h} : req'[g] = req[g]
  BY RequestMoves DEF Save, OpenTmp, BeginCopy, EndCopy, Publish, List, Trim, GiveUp
<1>1. /\ restore'.at \in {"check", "aside", "place"} => Temporary \in Names'
      /\ restore'.at = "place" => /\ restore'.previous \in Names'
                                  /\ restore'.previous[1] = "previous"
      /\ restore'.at = "open" => Db \in Names'
  <2>1. Temporary \in Name /\ Temporary[1] = "restore" /\ Db \in Name /\ Db[1] = "db"
    BY BackupAssumption DEF Temporary, Db, Name
  <2>2. Names \subseteq Name
    BY DEF TypeOK
  <2> QED BY <1>0, <2>1, <2>2, SaveElsewhere DEF Present
<1>2. ASSUME \* the request makes a backup afterwards, and which
             Making(h)' => /\ req'[h].sec <= sec'
                           /\ req'[h].sec = sec' => "backup" \in named'
                           /\ \/ Making(h) /\ req'[h].sec = req[h].sec
                              \/ req'[h].sec = sec /\ "backup" \notin named,
             At(h, "publish")' => Tmp(req'[h].sec) \in Names',
             At(h, "trim")' => \A p \in req'[h].rest : p[1] = "zip",
             \* the file of another request's backup stays
             \A g \in Handler \ {h} : At(g, "publish") => Tmp(req[g].sec) \in Names'
      PROVE  Present'
  <2>1. ASSUME NEW g \in Handler
        PROVE  /\ Making(g)' => /\ req'[g].sec <= sec'
                                /\ req'[g].sec = sec' => "backup" \in named'
                                /\ \A i \in Handler \ {g} : Making(i)' => req'[i].sec # req'[g].sec
               /\ At(g, "publish")' => Tmp(req'[g].sec) \in Names'
               /\ At(g, "trim")' => \A p \in req'[g].rest : p[1] = "zip"
    <3>1. \A i \in Handler \ {h} :
             /\ Making(i)' <=> Making(i)
             /\ At(i, "publish")' <=> At(i, "publish")
             /\ At(i, "trim")' <=> At(i, "trim")
      BY <1>0 DEF Making, At
    <3>2. \A i \in Handler \ {h} : Making(h)' /\ Making(i) => req[i].sec # req'[h].sec
      BY <1>2 DEF Present
    <3>3. CASE g = h
      BY <1>0, <1>2, <3>1, <3>2, <3>3
    <3>4. CASE g # h
      BY <1>0, <1>2, <3>1, <3>2, <3>4 DEF Present, Making, At
    <3> QED BY <3>3, <3>4
  <2> QED BY <1>1, <2>1 DEF Present
<1>3. \* a rename or removal of the file of one second spares the others
      ASSUME Making(h), \A p \in Names : p # Tmp(req[h].sec) => p \in Names'
      PROVE  \A g \in Handler \ {h} : At(g, "publish") => Tmp(req[g].sec) \in Names'
  <2>1. \A g \in Handler \ {h} : At(g, "publish") => req[g].sec # req[h].sec
    BY <1>3 DEF Present, At, Making
  <2>2. \A g \in Handler \ {h} : At(g, "publish") => Tmp(req[g].sec) # Tmp(req[h].sec)
    BY <2>1 DEF Tmp
  <2> QED BY <1>3, <2>2 DEF Present
<1>4. CASE OpenTmp(h)
  <2>1. /\ req'[h] = [at |-> "begin", sec |-> sec] /\ "backup" \notin named
        /\ "backup" \in named' /\ Names \subseteq Names'
    BY <1>4, RequestMoves DEF OpenTmp, Written, With, Names
  <2>2. sec \in Nat
    BY BackupAssumption DEF TypeOK
  <2> QED BY <1>0, <1>2, <2>1, <2>2 DEF At, Making, Present
<1>5. ASSUME Making(h), GiveUp(h) PROVE Present'
  <2>1. req'[h] = Idle /\ \A p \in Names : p # Tmp(req[h].sec) => p \in Names'
    BY <1>5, RequestMoves DEF GiveUp, Removed, Names
  <2> QED BY <1>2, <1>3, <1>5, <2>1 DEF At, Making, Idle
<1>6. ASSUME Making(h), NEW x \in {"copy", "publish"}, Goto(h, [req[h] EXCEPT !.at = x]),
             Names \subseteq Names', x = "publish" => Tmp(req[h].sec) \in Names'
      PROVE  Present'
  <2>1. req'[h] = [req[h] EXCEPT !.at = x]
    BY <1>6, RequestMoves
  <2>2. req[h] \in Writing
    BY <1>6, Stages DEF Making
  <2>3. req'[h].at = x /\ req'[h].sec = req[h].sec
    BY <2>1, <2>2 DEF Writing
  <2> QED BY <1>0, <1>2, <1>6, <2>3 DEF At, Making, Present
<1>7. CASE BeginCopy(h)
  BY <1>5, <1>6, <1>7 DEF BeginCopy, At, Making, Names
<1>8. CASE EndCopy(h)
  <2>1. Making(h)
    BY <1>8 DEF EndCopy, At, Making
  <2>2. ASSUME file' = With(Tmp(req[h].sec), [what |-> "copy", time |-> sec])
        PROVE  Names \subseteq Names' /\ Tmp(req[h].sec) \in Names'
    BY <2>2 DEF With, Names
  <2> QED BY <1>5, <1>6, <1>8, <2>1, <2>2 DEF EndCopy
<1>9. CASE Publish(h)
  <2>1. Making(h)
    BY <1>9 DEF Publish, At, Making
  <2>2. CASE /\ file' = Renamed(Tmp(req[h].sec), Zip(req[h].sec))
             /\ Goto(h, [at |-> "list"])
    <3>1. req'[h] = [at |-> "list"] /\ \A p \in Names : p # Tmp(req[h].sec) => p \in Names'
      BY <2>2, RequestMoves DEF Renamed, Names
    <3> QED BY <1>2, <1>3, <2>1, <3>1 DEF At, Making
  <2> QED BY <1>5, <1>9, <2>1, <2>2 DEF Publish
<1>10. CASE List(h)
  <2>1. UNCHANGED Names
    BY <1>10 DEF List, Names
  <2>2. \A p \in Surplus(Listed) : p[1] = "zip"
    BY DEF Surplus, Listed
  <2>3. req'[h] = Idle \/ req'[h] = [at |-> "trim", rest |-> Surplus(Listed)]
    BY <1>10, RequestMoves DEF List
  <2> QED BY <1>2, <2>1, <2>2, <2>3 DEF At, Making, Idle, Present
<1>11. CASE Trim(h)
  <2>1. PICK p \in req[h].rest :
           /\ file' = Removed(p) \/ UNCHANGED file
           /\ Goto(h, IF req[h].rest = {p} THEN Idle
                      ELSE [at |-> "trim", rest |-> req[h].rest \ {p}])
    BY <1>11 DEF Trim
  <2>2. \A q \in req[h].rest : q[1] = "zip"
    BY <1>11 DEF Trim, Present
  <2>3. \A q \in Names : q[1] = "tmp" => q \in Names'
    BY <2>1, <2>2 DEF Removed, Names
  <2>4. \A g \in Handler \ {h} : At(g, "publish") => Tmp(req[g].sec) \in Names'
    BY <2>3 DEF Present, Tmp
  <2>5. req'[h] = Idle \/ req'[h] = [at |-> "trim", rest |-> req[h].rest \ {p}]
    BY <2>1, RequestMoves
  <2> QED BY <1>2, <2>2, <2>4, <2>5 DEF At, Making, Idle
<1> QED BY <1>4, <1>7, <1>8, <1>9, <1>10, <1>11 DEF Save

\* What a restore does to the files of the requests: nothing.
LEMMA PresentRestore ==
    ASSUME TypeOK, Present, Restore
    PROVE  Present'
<1>1. UNCHANGED <<sec, req>> /\ named \subseteq named'
  BY DEF Restore, Receive, Check, Aside, Place, Reopen
<1>2. \A p \in Names : p[1] = "tmp" => p \in Names'
  <2>1. Temporary[1] = "restore" /\ Db[1] = "db"
    BY DEF Temporary, Db
  <2> QED BY <2>1 DEF Restore, Receive, Check, Aside, Place, Reopen, Written, With, Removed,
                      Renamed, Names, Present
<1>3. /\ restore'.at \in {"check", "aside", "place"} => Temporary \in Names'
      /\ restore'.at = "place" => /\ restore'.previous \in Names'
                                  /\ restore'.previous[1] = "previous"
      /\ restore'.at = "open" => Db \in Names'
  <2>1. CASE Receive
    BY <2>1 DEF Receive, Written, With, Names, Idle
  <2>2. CASE Check
    BY <2>2 DEF Check, Names, Idle, Present
  <2>3. CASE Aside
    <3>1. Temporary \in Names /\ Temporary # Db
      BY <2>3 DEF Aside, Present, Temporary, Db
    <3> QED BY <2>3, <3>1 DEF Aside, Renamed, Names, Idle, Previous
  <2>4. CASE Place
    BY <2>4 DEF Place, Renamed, Names, Idle
  <2>5. CASE Reopen
    BY <2>5 DEF Reopen, Idle
  <2> QED BY <2>1, <2>2, <2>3, <2>4, <2>5 DEF Restore
<1>4. \A h \in Handler :
         /\ Making(h) => /\ req[h].sec <= sec
                         /\ req[h].sec = sec => "backup" \in named'
                         /\ \A g \in Handler \ {h} : Making(g) => req[g].sec # req[h].sec
         /\ At(h, "publish") => Tmp(req[h].sec) \in Names'
         /\ At(h, "trim") => \A p \in req[h].rest : p[1] = "zip"
  <2>1. \A h \in Handler : Tmp(req[h].sec)[1] = "tmp"
    BY DEF Tmp
  <2> QED BY <1>1, <1>2, <2>1 DEF Present
<1> QED BY <1>1, <1>3, <1>4 DEF Present, Making, At

LEMMA TypeInit == ASSUME Init PROVE TypeOK /\ Present
<1>1. /\ Names = {Db} /\ file \in [Names -> [what : Content, time : 0 .. MaxSec]]
      /\ sec \in 0 .. MaxSec
  BY BackupAssumption, ContentTyped DEF Init, Names
<1>2. Db \in Name
  BY BackupAssumption, NamesTyped DEF Init
<1>3. req \in [Handler -> {Idle}] /\ restore = Idle
  BY DEF Init
<1>4. served \subseteq Content /\ named = {} /\ clash = FALSE /\ store = "open"
  BY ContentTyped DEF Init
<1>5. Present
  BY <1>3 DEF Present, Making, At, Idle
<1> QED BY <1>1, <1>2, <1>3, <1>4, <1>5 DEF TypeOK

LEMMA TypeNext ==
    ASSUME TypeOK, Present, [Next]_vars
    PROVE  TypeOK' /\ Present'
<1>1. CASE Restore
  BY <1>1, TypeRestore, PresentRestore
<1>2. CASE \E h \in Handler : Save(h)
  BY <1>2, TypeSave, PresentSave
<1>3. CASE Second
  <2>1. sec' \in 0 .. MaxSec /\ sec \in Nat /\ sec' = sec + 1
        /\ UNCHANGED <<file, store, restore, req, served, clash>> /\ named' = {}
    BY BackupAssumption, <1>3 DEF Second, TypeOK
  <2>2. \A h \in Handler : Making(h) => req[h].sec \in Nat
    BY BackupAssumption, Stages DEF Making, Writing
  <2>3. Present'
    BY <2>1, <2>2 DEF Present, Making, At, Names
  <2> QED BY <2>1, <2>3 DEF TypeOK, Names
<1>4. CASE Crash
  <2>1. Present'
    BY <1>4 DEF Crash, Present, Making, At, Idle
  <2> QED BY <1>4, <2>1, TypeCrash
<1>5. CASE UNCHANGED vars
  BY <1>5 DEF vars, TypeOK, Present, Making, At, Names
<1> QED BY <1>1, <1>2, <1>3, <1>4, <1>5 DEF Next

\* Every variable holds a value of its kind, and no step reads or moves a file
\* that is not there.
THEOREM TypeCorrect == Spec => [](TypeOK /\ Present)
<1>1. Init => TypeOK /\ Present
  BY TypeInit
<1>2. (TypeOK /\ Present) /\ [Next]_vars => (TypeOK /\ Present)'
  BY TypeNext
<1> QED BY <1>1, <1>2, PTL DEF Spec

-----------------------------------------------------------------------------
\* What comes into service.

Complete(p) == file[p].what \in Database

\* Inductive: what stands under the database's name, or is on its way there,
\* has been checked.
Whole ==
    /\ served \subseteq Database
    /\ Db \in Names => Complete(Db)
    /\ restore.at \in {"aside", "place"} => Complete(Temporary)
    /\ restore.at = "place" => Complete(restore.previous)

LEMMA WholeNext ==
    ASSUME TypeOK, Present, Whole, [Next]_vars
    PROVE  Whole'
<1>0. Temporary # Db /\ \A s : Previous(s) # Temporary /\ Previous(s) # Db
  BY DEF Temporary, Db, Previous
<1>1. CASE \E h \in Handler : Save(h)
  <2>1. PICK h \in Handler : Save(h)
    BY <1>1
  <2>2. UNCHANGED <<restore, served>>
    BY <2>1 DEF Save, OpenTmp, BeginCopy, EndCopy, Publish, List, Trim
  <2>3. Temporary \in Name /\ Temporary[1] = "restore" /\ Db \in Name /\ Db[1] = "db"
    BY BackupAssumption DEF Temporary, Db, Name
  <2>4. Names \subseteq Name
    BY DEF TypeOK
  <2> QED BY <2>1, <2>2, <2>3, <2>4, SaveElsewhere DEF Whole, Complete, Present
<1>2. CASE Receive
  <2>1. \A p \in Names \ {Temporary} : p \in Names' /\ file'[p] = file[p]
    BY <1>2 DEF Receive, Written, With, Names
  <2>2. Db \in Names' => Db \in Names
    BY <1>0, <1>2 DEF Receive, Written, With, Names
  <2> QED BY <1>0, <1>2, <2>1, <2>2 DEF Receive, Whole, Complete, Idle
<1>3. CASE Check
  <2>1. \A p \in Names' : p \in Names /\ file'[p] = file[p]
    BY <1>3 DEF Check, Removed, Names
  <2>2. restore'.at = "aside" => Complete(Temporary)'
    BY <1>3 DEF Check, Sound, Complete, Idle
  <2> QED BY <1>3, <2>1, <2>2 DEF Check, Whole, Complete, Idle
<1>4. CASE Aside
  <2>1. CASE file' = Renamed(Db, Previous(sec)) /\ Db \in Names
             /\ restore' = [at |-> "place", previous |-> Previous(sec)]
    <3>1. /\ Db \notin Names' /\ file'[Previous(sec)] = file[Db]
          /\ file'[Temporary] = file[Temporary]
      BY <1>0, <1>4, <2>1 DEF Aside, Renamed, Names, Present
    <3> QED BY <1>4, <2>1, <3>1 DEF Aside, Whole, Complete
  <2>2. CASE restore' = Idle /\ UNCHANGED file
    BY <1>4, <2>2 DEF Aside, Whole, Complete, Idle, Names
  <2> QED BY <1>4, <2>1, <2>2 DEF Aside
<1>5. CASE Place
  <2>1. CASE file' = Renamed(Temporary, Db) /\ restore' = [at |-> "open"]
    <3>1. file'[Db] = file[Temporary]
      BY <2>1 DEF Renamed
    <3> QED BY <1>5, <2>1, <3>1 DEF Place, Whole, Complete
  <2>2. CASE file' = Renamed(restore.previous, Db) /\ restore' = Idle
    <3>1. file'[Db] = file[restore.previous]
      BY <2>2 DEF Renamed
    <3> QED BY <1>5, <2>2, <3>1 DEF Place, Whole, Complete, Idle
  <2>3. CASE restore' = Idle /\ UNCHANGED file
    BY <1>5, <2>3 DEF Place, Whole, Complete, Idle, Names
  <2> QED BY <1>5, <2>1, <2>2, <2>3 DEF Place
<1>6. CASE Reopen
  BY <1>6 DEF Reopen, Whole, Complete, Idle, Names, Present
<1>7. CASE Second \/ UNCHANGED vars
  BY <1>7 DEF Second, vars, Whole, Complete, Names
<1>8. CASE Crash
  <2>1. CASE Db \in Names
    BY <1>8, <2>1 DEF Crash, Whole, Complete, Idle, Names
  <2>2. CASE Db \notin Names
    <3>1. file'[Db].what = "empty"
      BY <1>8, <2>2 DEF Crash, Written, With
    <3> QED BY <1>8, <3>1, ContentTyped DEF Crash, Whole, Complete, Idle
  <2> QED BY <2>1, <2>2
<1> QED BY <1>1, <1>2, <1>3, <1>4, <1>5, <1>6, <1>7, <1>8 DEF Next, Restore

\* Whatever fails and wherever the process ends, nothing but a complete
\* database ever comes into service (restore, openStore).
THEOREM CompleteInService == Spec => []ServedComplete
<1>1. Init => Whole
  BY ContentTyped DEF Init, Whole, Complete, Names, Idle
<1>2. TypeOK /\ Present /\ Whole /\ [Next]_vars => Whole'
  BY WholeNext
<1>3. Whole => ServedComplete
  BY DEF Whole, ServedComplete
<1> QED BY <1>1, <1>2, <1>3, TypeCorrect, PTL DEF Spec

-----------------------------------------------------------------------------
\* What was in service is kept.

Keeper(p) == p[1] \in {"db", "previous"}
KeptBy(c, p) == p \in Names /\ Keeper(p) /\ file[p].what = c

\* Inductive: the names that databases are moved aside to are of the past, or
\* of this second if one was moved in it; and nothing stands in the way of the
\* upload.
Stored ==
    /\ NothingLost
    /\ \A p \in Names : p[1] = "previous" =>
          /\ p[2] <= sec
          /\ p[2] = sec => "previous" \in named
    /\ restore.at = "place" => Db \notin Names

LEMMA StoredNext ==
    ASSUME TypeOK, TypeOK', Present, Present', Stored, [Next]_vars
    PROVE  Stored'
<1>0. /\ Temporary[1] = "restore" /\ Db[1] = "db" /\ \A s : Previous(s)[1] = "previous"
      /\ \A s : Previous(s)[2] = s
  BY DEF Temporary, Db, Previous
<1>01. sec \in Nat /\ \A p \in Names : p \in Name /\ (p[1] = "previous" => p = Previous(p[2]) /\ p[2] \in Nat)
  BY BackupAssumption DEF TypeOK, Name, Previous
<1>02. NothingLost <=> (~clash => \A c \in served : \E p : KeptBy(c, p))
  BY DEF NothingLost, KeptBy, Keeper
<1>03. NothingLost' <=> (~clash' => \A c \in served' : \E p : KeptBy(c, p)')
  BY DEF NothingLost, KeptBy, Keeper
<1>1. ASSUME \* keepers stay what they are, none is added
             UNCHANGED <<sec, served, named, clash>>,
             \A p \in Name : Keeper(p) => /\ p \in Names' <=> p \in Names
                                          /\ p \in Names => file'[p] = file[p],
             restore'.at = "place" => restore.at = "place"
      PROVE  Stored'
  <2>1. \A p \in Names' : p \in Name
    BY DEF TypeOK
  <2>2. Db \in Name
    BY BackupAssumption DEF Db, Name
  <2>3. \A c, p : KeptBy(c, p) => KeptBy(c, p)'
    BY <1>1, <1>01 DEF KeptBy
  <2>4. NothingLost'
    BY <1>1, <1>02, <1>03, <2>3 DEF Stored
  <2> QED BY <1>0, <1>1, <2>1, <2>2, <2>4 DEF Stored, Keeper
<1>2. CASE \E h \in Handler : Save(h)
  <2>1. PICK h \in Handler : Save(h)
    BY <1>2
  <2>2. UNCHANGED <<sec, restore, served, clash>>
        /\ ("previous" \in named' <=> "previous" \in named)
    BY <2>1 DEF Save, OpenTmp, BeginCopy, EndCopy, Publish, List, Trim
  <2>3. \A p \in Name : Keeper(p) => /\ p \in Names' <=> p \in Names
                                     /\ p \in Names => file'[p] = file[p]
    BY <2>1, SaveElsewhere DEF Keeper
  <2>4. \A c, p : KeptBy(c, p) => KeptBy(c, p)'
    BY <2>3, <1>01 DEF KeptBy
  <2>5. NothingLost'
    BY <2>2, <1>02, <1>03, <2>4 DEF Stored
  <2>6. Db \in Name /\ \A p \in Names' : p \in Name
    BY BackupAssumption DEF Db, Name, TypeOK
  <2> QED BY <1>0, <2>2, <2>3, <2>5, <2>6 DEF Stored, Keeper
<1>3. CASE Receive
  BY <1>0, <1>1, <1>3 DEF Receive, Written, With, Names, Keeper, Idle
<1>4. CASE Check
  BY <1>0, <1>1, <1>4 DEF Check, Removed, Names, Keeper, Idle
<1>5. CASE Aside
  <2>1. CASE /\ file' = Renamed(Db, Previous(sec)) /\ Db \in Names
             /\ restore' = [at |-> "place", previous |-> Previous(sec)]
             /\ named' = named \cup {"previous"}
             /\ clash' = (clash \/ "previous" \in named)
    <3>1. /\ Names' = (Names \ {Db}) \cup {Previous(sec)}
          /\ file'[Previous(sec)] = file[Db]
          /\ \A p \in Names \ {Db, Previous(sec)} : file'[p] = file[p]
      BY <2>1 DEF Renamed, Names
    <3>2. UNCHANGED <<sec, served>>
      BY <1>5 DEF Aside
    <3>3. ASSUME ~clash'
          PROVE  \A c \in served' : \E p : KeptBy(c, p)'
      <4>1. Previous(sec) \notin Names
        BY <1>0, <2>1, <3>3 DEF Stored
      <4>2. \A c \in served : \E p : KeptBy(c, p)
        BY <1>02, <2>1, <3>3 DEF Stored
      <4>3. \A c : KeptBy(c, Db) => KeptBy(c, Previous(sec))'
        BY <1>0, <3>1, <3>2 DEF KeptBy, Keeper, Previous
      <4>4. \A c, p : p # Db /\ KeptBy(c, p) => KeptBy(c, p)'
        BY <3>1, <4>1 DEF KeptBy, Keeper
      <4> QED BY <3>2, <4>2, <4>3, <4>4
    <3>4. NothingLost'
      BY <1>03, <3>3
    <3>5. Db \notin Names'
      BY <1>0, <3>1
    <3> QED BY <1>0, <1>01, <2>1, <3>1, <3>2, <3>4, <3>5 DEF Stored
  <2>2. CASE restore' = Idle /\ UNCHANGED <<file, named, clash>>
    BY <1>1, <1>5, <2>2 DEF Aside, Names, Idle
  <2> QED BY <1>5, <2>1, <2>2 DEF Aside
<1>6. CASE Place
  <2>1. UNCHANGED <<sec, served, named, clash>> /\ Db \notin Names
    BY <1>6 DEF Place, Stored
  <2>2. CASE file' = Renamed(Temporary, Db) /\ restore' = [at |-> "open"]
    <3>1. Temporary \in Names
      BY <1>6 DEF Place, Present
    <3>2. /\ Names' = (Names \ {Temporary}) \cup {Db}
          /\ \A p \in Names \ {Temporary, Db} : file'[p] = file[p]
      BY <2>2 DEF Renamed, Names
    <3>3. \A c, p : KeptBy(c, p) => KeptBy(c, p)'
      BY <1>0, <2>1, <3>2 DEF KeptBy, Keeper
    <3>4. NothingLost'
      BY <1>02, <1>03, <2>1, <3>3 DEF Stored
    <3> QED BY <1>0, <2>1, <2>2, <3>2, <3>4 DEF Stored
  <2>3. CASE file' = Renamed(restore.previous, Db) /\ restore' = Idle
    <3>1. restore.previous \in Names
      BY <1>6 DEF Place, Present
    <3>2. /\ Names' = (Names \ {restore.previous}) \cup {Db}
          /\ file'[Db] = file[restore.previous]
          /\ \A p \in Names \ {restore.previous, Db} : file'[p] = file[p]
      BY <2>3 DEF Renamed, Names
    <3>3. \A c, p : p # restore.previous /\ KeptBy(c, p) => KeptBy(c, p)'
      BY <2>1, <3>2 DEF KeptBy, Keeper
    <3>4. \A c : KeptBy(c, restore.previous) => KeptBy(c, Db)'
      BY <1>0, <3>2 DEF KeptBy, Keeper, Db
    <3>5. NothingLost'
      BY <1>02, <1>03, <2>1, <3>3, <3>4 DEF Stored
    <3> QED BY <1>0, <2>1, <2>3, <3>2, <3>5 DEF Stored, Idle
  <2>4. CASE restore' = Idle /\ UNCHANGED file
    BY <1>1, <2>1, <2>4 DEF Names, Idle
  <2> QED BY <1>6, <2>2, <2>3, <2>4 DEF Place
<1>7. CASE Reopen
  <2>1. UNCHANGED <<file, sec, named, clash>> /\ restore' = Idle /\ Db \in Names
        /\ served' \subseteq served \cup {file[Db].what}
    BY <1>7 DEF Reopen, Present
  <2>2. \A c : c = file[Db].what => KeptBy(c, Db)'
    BY <1>0, <2>1 DEF KeptBy, Keeper, Names
  <2>3. \A c, p : KeptBy(c, p) => KeptBy(c, p)'
    BY <2>1 DEF KeptBy, Names
  <2>4. NothingLost'
    BY <1>02, <1>03, <2>1, <2>2, <2>3 DEF Stored
  <2> QED BY <2>1, <2>4 DEF Stored, Names, Idle
<1>8. CASE Second
  <2>1. UNCHANGED <<file, served, restore, clash>> /\ sec' = sec + 1
    BY <1>8 DEF Second
  <2>2. \A p \in Names' : p[1] = "previous" => p[2] < sec'
    BY <1>01, <2>1 DEF Stored, Names
  <2>3. NothingLost'
    BY <2>1 DEF Stored, NothingLost, Names
  <2>4. \A p \in Names : p[1] = "previous" => p[2] \in Nat
    BY <1>01
  <2> QED BY <1>01, <2>1, <2>2, <2>3, <2>4 DEF Stored, Names
<1>9. CASE Crash
  <2>1. /\ served' = served \cup {file'[Db].what} /\ restore' = Idle
        /\ UNCHANGED <<sec, named, clash>>
        /\ Names' = Names \cup {Db} /\ \A p \in Names : file'[p] = file[p]
    BY <1>9 DEF Crash, Written, With, Names
  <2>2. \A c : c = file'[Db].what => KeptBy(c, Db)'
    BY <1>0, <2>1 DEF KeptBy, Keeper
  <2>3. \A c, p : KeptBy(c, p) => KeptBy(c, p)'
    BY <2>1 DEF KeptBy
  <2>4. NothingLost'
    BY <1>02, <1>03, <2>1, <2>2, <2>3 DEF Stored
  <2> QED BY <1>0, <2>1, <2>4 DEF Stored, Idle
<1>10. CASE UNCHANGED vars
  BY <1>10 DEF vars, Stored, NothingLost, Names
<1> QED BY <1>2, <1>3, <1>4, <1>5, <1>6, <1>7, <1>8, <1>9, <1>10 DEF Next, Restore

\* Unless two databases were moved aside in one second, what was in service is
\* still there, under the database's name or beside it.
THEOREM RestoreCanBeUndone == Spec => []NothingLost
<1>1. Init => Stored
  BY DEF Init, Stored, NothingLost, Names, Db, Idle
<1>2. TypeOK /\ Present /\ (TypeOK /\ Present)' /\ Stored /\ [Next]_vars => Stored'
  BY StoredNext
<1>3. Stored => NothingLost
  BY DEF Stored
<1> QED BY <1>1, <1>2, <1>3, TypeCorrect, PTL DEF Spec

-----------------------------------------------------------------------------
\* What trimming leaves.

Past(p) == p[2] <= sec /\ (p[2] = sec => "backup" \in named)
Outdone(p) == \E q \in Listed : Newer(q, p)

\* Inductive: whoever trims, and from whatever list, each backup he has still
\* to delete is outdone by one that is there.
Trimmed ==
    /\ \A p \in Listed : Past(p)
    /\ \A h \in Handler :
          Making(h) => /\ Zip(req[h].sec) \notin Names
                       /\ \A g \in Handler : At(g, "trim") => Zip(req[h].sec) \notin req[g].rest
    /\ \A h \in Handler : At(h, "trim") =>
          \A p \in req[h].rest : Past(p) /\ (p \in Names => Outdone(p))

\* Newer is a strict order.
LEMMA NewerOrder ==
    ASSUME TypeOK
    PROVE  /\ \A p \in Names : ~Newer(p, p)
           /\ \A p, q, r \in Names : Newer(p, q) /\ Newer(q, r) => Newer(p, r)
<1>1. \A p \in Names : file[p].time \in Nat /\ p[2] \in Nat
  BY BackupAssumption DEF TypeOK, Name
<1> QED BY <1>1 DEF Newer

\* A surplus backup is outdone.
LEMMA SurplusOutdone ==
    ASSUME NEW p \in Surplus(Listed)
    PROVE  p \in Listed /\ Outdone(p)
<1>1. p \in Listed /\ Cardinality({q \in Listed : Newer(q, p)}) >= Keep
  BY DEF Surplus
<1>2. {q \in Listed : Newer(q, p)} # {}
  BY BackupAssumption, <1>1, FS_EmptySet
<1> QED BY <1>1, <1>2 DEF Outdone

\* A step that leaves the backups and the trimming alone.
LEMMA TrimmedKept ==
    ASSUME TypeOK, Trimmed, Listed' = Listed, \A p \in Listed : file'[p] = file[p],
           \A p : Past(p) => Past(p)',
           \A h \in Handler :
              /\ Making(h)' => Making(h) /\ req'[h].sec = req[h].sec
              /\ At(h, "trim")' => At(h, "trim") /\ req'[h].rest = req[h].rest
              /\ At(h, "trim") => \A p \in req[h].rest : p[1] = "zip"
    PROVE  Trimmed'
<1>1. \A p : p[1] = "zip" => (p \in Names' <=> p \in Names)
  BY DEF Listed
<1>2. \A s : Zip(s)[1] = "zip"
  BY DEF Zip
<1>3. \A p \in Listed : Outdone(p) => Outdone(p)'
  BY DEF Outdone, Newer
<1>4. \A p \in Listed' : Past(p)'
  BY DEF Trimmed
<1>5. \A h \in Handler :
         Making(h)' => /\ Zip(req'[h].sec) \notin Names'
                       /\ \A g \in Handler : At(g, "trim")' => Zip(req'[h].sec) \notin req'[g].rest
  BY <1>1, <1>2 DEF Trimmed
<1>6. \A h \in Handler : At(h, "trim")' =>
         \A p \in req'[h].rest : Past(p)' /\ (p \in Names' => Outdone(p)')
  BY <1>1, <1>3 DEF Trimmed, Listed
<1> QED BY <1>4, <1>5, <1>6 DEF Trimmed

LEMMA TrimmedSave ==
    ASSUME TypeOK, Present, Trimmed, NEW h \in Handler, Save(h)
    PROVE  Trimmed'
<1>0. /\ UNCHANGED sec /\ named \subseteq named'
      /\ \A g \in Handler \ {h} : req'[g] = req[g]
  BY RequestMoves DEF Save, OpenTmp, BeginCopy, EndCopy, Publish, List, Trim, GiveUp
<1>1. /\ \A p : Past(p) => Past(p)'
      /\ \A g \in Handler : At(g, "trim") => \A p \in req[g].rest : p[1] = "zip"
      /\ \A g \in Handler \ {h} : /\ Making(g)' => Making(g) /\ req'[g].sec = req[g].sec
                                  /\ At(g, "trim")' => At(g, "trim") /\ req'[g].rest = req[g].rest
  BY <1>0 DEF Past, Present, Making, At
<1>2. \A s : Tmp(s)[1] = "tmp" /\ Zip(s)[1] = "zip" /\ Zip(s)[2] = s
  BY DEF Tmp, Zip
<1>3. ASSUME \/ \E s, f : file' = With(Tmp(s), f)
             \/ \E s : file' = Removed(Tmp(s))
             \/ UNCHANGED file
      PROVE  Listed' = Listed /\ \A p \in Listed : file'[p] = file[p]
  BY <1>2, <1>3 DEF Listed, Names, With, Removed
<1>4. CASE OpenTmp(h)
  <2>1. /\ req'[h] = [at |-> "begin", sec |-> sec] /\ "backup" \notin named
        /\ "backup" \in named'
    BY <1>4, RequestMoves DEF OpenTmp
  <2>2. Listed' = Listed /\ \A p \in Listed : file'[p] = file[p]
    BY <1>3, <1>4 DEF OpenTmp, Written
  <2>3. Zip(sec) \notin Names
    BY <1>2, <2>1 DEF Trimmed, Listed, Past
  <2>4. \A g \in Handler : At(g, "trim") => Zip(sec) \notin req[g].rest
    BY <1>2, <2>1 DEF Trimmed, Past
  <2>5. \A p : p[1] = "zip" => (p \in Names' <=> p \in Names)
    BY <2>2 DEF Listed
  <2>6. \A p \in Listed : Outdone(p) => Outdone(p)'
    BY <2>2 DEF Outdone, Newer
  <2>7. /\ ~At(h, "trim")' /\ req'[h].sec = sec
        /\ \A g \in Handler \ {h} : At(g, "trim")' <=> At(g, "trim")
    BY <1>0, <2>1 DEF At
  <2>8. \A p \in Listed' : Past(p)'
    BY <1>1, <2>2 DEF Trimmed
  <2>9. \A g \in Handler :
           Making(g)' => /\ Zip(req'[g].sec) \notin Names'
                         /\ \A i \in Handler : At(i, "trim")' => Zip(req'[g].sec) \notin req'[i].rest
    BY <1>0, <1>1, <1>2, <2>3, <2>4, <2>5, <2>7 DEF Trimmed
  <2>10. \A g \in Handler : At(g, "trim")' =>
            \A p \in req'[g].rest : Past(p)' /\ (p \in Names' => Outdone(p)')
    BY <1>0, <1>1, <2>5, <2>6, <2>7 DEF Trimmed, Listed
  <2> QED BY <2>8, <2>9, <2>10 DEF Trimmed
<1>5. ASSUME GiveUp(h) PROVE Trimmed'
  <2>1. req'[h] = Idle /\ file' = Removed(Tmp(req[h].sec))
    BY <1>5, RequestMoves DEF GiveUp
  <2>2. ~Making(h)' /\ ~At(h, "trim")'
    BY <2>1 DEF Making, At, Idle
  <2> QED BY <1>1, <1>3, <2>1, <2>2, TrimmedKept
<1>6. ASSUME Making(h), NEW x \in {"copy", "publish"}, Goto(h, [req[h] EXCEPT !.at = x]),
             UNCHANGED file \/ \E s, f : file' = With(Tmp(s), f)
      PROVE  Trimmed'
  <2>1. req'[h] = [req[h] EXCEPT !.at = x]
    BY <1>6, RequestMoves
  <2>2. req[h] \in Writing
    BY <1>6, Stages DEF Making
  <2>3. req'[h].at = x /\ req'[h].sec = req[h].sec
    BY <2>1, <2>2 DEF Writing
  <2>4. ~At(h, "trim")'
    BY <2>3 DEF At
  <2> QED BY <1>1, <1>3, <1>6, <2>3, <2>4, TrimmedKept
<1>7. CASE BeginCopy(h)
  BY <1>5, <1>6, <1>7 DEF BeginCopy, At, Making
<1>8. CASE EndCopy(h)
  BY <1>5, <1>6, <1>8 DEF EndCopy, At, Making
<1>9. CASE Publish(h)
  <2> DEFINE s == req[h].sec
  <2>1. Making(h) /\ Zip(s) \notin Names /\ Past(Zip(s))
    <3>1. Making(h)
      BY <1>9 DEF Publish, At, Making
    <3> QED BY <1>2, <3>1 DEF Trimmed, Past, Present
  <2>2. CASE file' = Renamed(Tmp(s), Zip(s)) /\ Goto(h, [at |-> "list"])
    <3>1. /\ req'[h] = [at |-> "list"] /\ ~Making(h)' /\ ~At(h, "trim")'
      BY <2>2, RequestMoves DEF Making, At
    <3>2. /\ Listed' = Listed \cup {Zip(s)}
          /\ \A p \in Listed : file'[p] = file[p]
      BY <1>2, <2>1, <2>2 DEF Renamed, Listed, Names
    <3>3. \A p : p[1] = "zip" => (p \in Names' <=> p \in Names \/ p = Zip(s))
      BY <3>2, <1>2 DEF Listed
    <3>4. \A p \in Listed : Outdone(p) => Outdone(p)'
      BY <3>2 DEF Outdone, Newer
    <3>5. \A g \in Handler \ {h} : Making(g) => Zip(req[g].sec) # Zip(s)
      <4>1. \A g \in Handler \ {h} : Making(g) => req[g].sec # s
        BY <2>1 DEF Present
      <4> QED BY <1>2, <4>1
    <3>6. \A g \in Handler : At(g, "trim") => Zip(s) \notin req[g].rest
      BY <2>1 DEF Trimmed
    <3>7. \A p \in Listed' : Past(p)'
      BY <1>1, <2>1, <3>2 DEF Trimmed
    <3>8. \A g \in Handler :
             Making(g)' => /\ Zip(req'[g].sec) \notin Names'
                           /\ \A i \in Handler : At(i, "trim")' => Zip(req'[g].sec) \notin req'[i].rest
      BY <1>1, <1>2, <3>1, <3>3, <3>5 DEF Trimmed
    <3>9. \A g \in Handler : At(g, "trim")' =>
             \A p \in req'[g].rest : Past(p)' /\ (p \in Names' => Outdone(p)')
      BY <1>1, <3>1, <3>3, <3>4, <3>6 DEF Trimmed, Listed
    <3> QED BY <3>7, <3>8, <3>9 DEF Trimmed
  <2> QED BY <1>5, <1>9, <2>2 DEF Publish
<1>10. CASE List(h)
  <2>1. UNCHANGED <<file, sec, named>>
    BY <1>10 DEF List
  <2>2. req'[h] = Idle \/ req'[h] = [at |-> "trim", rest |-> Surplus(Listed)]
    BY <1>10, RequestMoves DEF List
  <2>3. ~Making(h)' /\ (At(h, "trim")' => req'[h].rest = Surplus(Listed))
    BY <2>2 DEF Making, At, Idle
  <2>4. \A p \in Surplus(Listed) : p \in Names /\ Past(p) /\ Outdone(p)
    BY SurplusOutdone DEF Trimmed, Listed
  <2>5. Names' = Names /\ Listed' = Listed /\ \A p : Outdone(p) => Outdone(p)'
    BY <2>1 DEF Names, Listed, Outdone, Newer
  <2>6. \A p \in Listed' : Past(p)'
    BY <1>1, <2>5 DEF Trimmed
  <2>7. \A g \in Handler :
           Making(g)' => /\ Zip(req'[g].sec) \notin Names'
                         /\ \A i \in Handler : At(i, "trim")' => Zip(req'[g].sec) \notin req'[i].rest
    BY <1>1, <2>3, <2>4, <2>5 DEF Trimmed
  <2>8. \A g \in Handler : At(g, "trim")' =>
           \A p \in req'[g].rest : Past(p)' /\ (p \in Names' => Outdone(p)')
    BY <1>1, <2>3, <2>4, <2>5 DEF Trimmed
  <2> QED BY <2>6, <2>7, <2>8 DEF Trimmed
<1>11. CASE Trim(h)
  <2>1. PICK p \in req[h].rest :
           /\ file' = Removed(p) \/ UNCHANGED file
           /\ Goto(h, IF req[h].rest = {p} THEN Idle
                      ELSE [at |-> "trim", rest |-> req[h].rest \ {p}])
    BY <1>11 DEF Trim
  <2>2. req'[h] = Idle \/ req'[h] = [at |-> "trim", rest |-> req[h].rest \ {p}]
    BY <2>1, RequestMoves
  <2>3. /\ ~Making(h)' /\ At(h, "trim")
        /\ At(h, "trim")' => req'[h].rest \subseteq req[h].rest
    BY <1>11, <2>2 DEF Making, At, Idle, Trim
  <2>4. /\ Listed' = Listed \/ Listed' = Listed \ {p}
        /\ \A q \in Listed' : q \in Listed /\ file'[q] = file[q]
        /\ \A q \in Names' : q \in Names
    BY <2>1 DEF Removed, Listed, Names
  <2>5. \A q \in Listed' : Outdone(q) => Outdone(q)'
    <3>1. ASSUME NEW q \in Listed', NEW r \in Listed, Newer(r, q)
          PROVE  \E t \in Listed' : Newer(t, q)
      <4>1. CASE r \in Listed'
        BY <3>1, <4>1
      <4>2. CASE r \notin Listed'
        <5>1. r = p /\ r \in Names
          BY <2>4, <3>1, <4>2 DEF Listed
        <5>2. PICK t \in Listed : Newer(t, r)
          BY <2>3, <5>1 DEF Trimmed, Outdone
        <5>3. t # p /\ Newer(t, q)
          BY <2>4, <3>1, <5>1, <5>2, NewerOrder DEF Listed
        <5> QED BY <2>4, <5>3
      <4> QED BY <4>1, <4>2
    <3>2. \A q, t \in Listed' : Newer(t, q) => Newer(t, q)'
      BY <2>4 DEF Newer
    <3> QED BY <3>1, <3>2 DEF Outdone
  <2>6. \A q \in Listed' : Past(q)'
    BY <1>1, <2>4 DEF Trimmed
  <2>7. \A g \in Handler :
           Making(g)' => /\ Zip(req'[g].sec) \notin Names'
                         /\ \A i \in Handler : At(i, "trim")' => Zip(req'[g].sec) \notin req'[i].rest
    BY <1>1, <2>3, <2>4 DEF Trimmed
  <2>8. \A g \in Handler : At(g, "trim")' =>
           \A q \in req'[g].rest : Past(q)' /\ (q \in Names' => Outdone(q)')
    <3>1. \A g \in Handler : At(g, "trim")' => At(g, "trim") /\ req'[g].rest \subseteq req[g].rest
      BY <1>1, <2>3
    <3>2. \A q : q[1] = "zip" /\ q \in Names' => q \in Listed'
      BY DEF Listed
    <3> QED BY <1>1, <2>4, <2>5, <3>1, <3>2 DEF Trimmed
  <2> QED BY <2>6, <2>7, <2>8 DEF Trimmed
<1> QED BY <1>4, <1>7, <1>8, <1>9, <1>10, <1>11 DEF Save

LEMMA TrimmedNext ==
    ASSUME TypeOK, Present, Trimmed, [Next]_vars
    PROVE  Trimmed'
<1>0. \A g \in Handler : At(g, "trim") => \A p \in req[g].rest : p[1] = "zip"
  BY DEF Present
<1>1. CASE Restore
  <2>1. /\ Temporary[1] = "restore" /\ Db[1] = "db" /\ \A s : Previous(s)[1] = "previous"
        /\ restore.at = "place" => restore.previous[1] = "previous"
    BY DEF Temporary, Db, Previous, Present
  <2>2. UNCHANGED <<sec, req>> /\ named \subseteq named'
    BY <1>1 DEF Restore, Receive, Check, Aside, Place, Reopen
  <2>3. Listed' = Listed /\ \A p \in Listed : file'[p] = file[p]
    BY <1>1, <2>1 DEF Restore, Receive, Check, Aside, Place, Reopen, Written, With, Removed,
                      Renamed, Names, Listed
  <2> QED BY <1>0, <2>2, <2>3, TrimmedKept DEF Past, Making, At
<1>2. CASE \E h \in Handler : Save(h)
  BY <1>2, TrimmedSave
<1>3. CASE Second
  <2>1. UNCHANGED <<file, req>> /\ sec' = sec + 1 /\ sec \in Nat
    BY BackupAssumption, <1>3 DEF Second, TypeOK
  <2>2. Names' = Names /\ Listed' = Listed /\ \A p : Outdone(p) => Outdone(p)'
    BY <2>1 DEF Names, Listed, Outdone, Newer
  <2>3. \A p \in Name : Past(p) => Past(p)'
    BY <2>1 DEF Past, Name
  <2>4. \A p \in Listed : p \in Name
    BY DEF Listed, TypeOK
  <2>5. \A h \in Handler : At(h, "trim") => req[h].rest \subseteq Name
    BY Stages DEF At, Trimming
  <2> QED BY <2>1, <2>2, <2>3, <2>4, <2>5 DEF Trimmed, Making, At
<1>4. CASE Crash
  <2>1. Listed' = Listed /\ \A p \in Listed : file'[p] = file[p]
    BY <1>4 DEF Crash, Written, With, Names, Listed, Db
  <2>2. \A h \in Handler : ~Making(h)' /\ ~At(h, "trim")'
    BY <1>4 DEF Crash, Making, At, Idle
  <2> QED BY <1>0, <1>4, <2>1, <2>2, TrimmedKept DEF Crash, Past
<1>5. CASE UNCHANGED vars
  BY <1>0, <1>5, TrimmedKept DEF vars, Names, Listed, Past, Making, At
<1> QED BY <1>1, <1>2, <1>3, <1>4, <1>5 DEF Next

\* Only trimming takes a backup away, and what it takes is outdone.
LEMMA OnlyOutdone ==
    ASSUME TypeOK, Present, Trimmed, [Next]_vars,
           NEW p \in Listed, p \notin Names'
    PROVE  Outdone(p)
<1>0. p \in Names /\ p[1] = "zip"
  BY DEF Listed
<1>1. CASE \E h \in Handler : Trim(h)
  <2>1. PICK h \in Handler : Trim(h)
    BY <1>1
  <2>2. PICK q \in req[h].rest : file' = Removed(q) \/ UNCHANGED file
    BY <2>1 DEF Trim
  <2>3. q = p /\ At(h, "trim")
    BY <1>0, <2>1, <2>2 DEF Removed, Names, Trim
  <2> QED BY <1>0, <2>2, <2>3 DEF Trimmed
<1>2. CASE \E h \in Handler : OpenTmp(h) \/ BeginCopy(h) \/ EndCopy(h) \/ Publish(h) \/ List(h)
  <2>1. \A s : Tmp(s)[1] = "tmp"
    BY DEF Tmp
  <2> QED BY <1>0, <1>2, <2>1 DEF OpenTmp, BeginCopy, EndCopy, Publish, List, GiveUp, Written,
                              With, Removed, Renamed, Names
<1>3. CASE Restore \/ Second \/ Crash \/ UNCHANGED vars
  <2>1. /\ Temporary[1] = "restore" /\ Db[1] = "db"
        /\ restore.at = "place" => restore.previous[1] = "previous"
    BY DEF Temporary, Db, Present
  <2> QED BY <1>0, <1>3, <2>1 DEF Restore, Receive, Check, Aside, Place, Reopen, Second, Crash,
                              vars, Written, With, Removed, Renamed, Names
<1> QED BY <1>1, <1>2, <1>3 DEF Next, Save

\* However many requests trim side by side, from lists that are no longer the
\* present ones, the newest backup stays.
THEOREM NewestStays == Spec => NewestKept
<1>1. Init => Trimmed
  BY DEF Init, Trimmed, Listed, Names, Db, Making, At, Idle
<1>2. TypeOK /\ Present /\ Trimmed /\ [Next]_vars => Trimmed'
  BY TrimmedNext
<1>3. TypeOK /\ Present /\ Trimmed /\ [Next]_vars =>
        [\A p \in Listed :
            (\A q \in Listed \ {p} : Newer(p, q)) => p \in DOMAIN file']_vars
  <2> SUFFICES ASSUME TypeOK, Present, Trimmed, [Next]_vars, NEW p \in Listed,
                      \A q \in Listed \ {p} : Newer(p, q), p \notin Names'
               PROVE  FALSE
    BY DEF Names
  <2>1. PICK q \in Listed : Newer(q, p)
    BY OnlyOutdone DEF Outdone
  <2> QED BY <2>1, NewerOrder DEF Listed
<1> QED BY <1>1, <1>2, <1>3, TypeCorrect, PTL DEF Spec, NewestKept

-----------------------------------------------------------------------------
\* Notifications: type correctness.

\* The kinds of locals, as TypeOK has them.
Scans == [at : {"scan", "read"}, from : 0 .. Len(log)]
Sends == [at : {"send"}, lines : SUBSET DOMAIN log, next : 1 .. Senders + 1,
          failed : BOOLEAN, told : BOOLEAN]
Marks == [at : {"record"}, rest : SUBSET Notes!Note]
Calls == {Notes!Resting} \cup Scans \cup Sends \cup Marks

LEMMA CallStages ==
    ASSUME Notes!TypeOK, NEW n \in Notes!Run
    PROVE  /\ call[n] \in Calls
           /\ call[n].at \in {"scan", "read"} => call[n] \in Scans
           /\ call[n].at = "send" => call[n] \in Sends
           /\ call[n].at = "record" => call[n] \in Marks
  BY DEF Notes!TypeOK, Notes!Resting, Calls, Scans, Sends, Marks

\* One call moves on.
LEMMA CallMoves ==
    ASSUME Notes!TypeOK, NEW n \in Notes!Run, NEW c, call' = [call EXCEPT ![n] = c]
    PROVE  /\ call'[n] = c /\ \A m \in Notes!Run \ {n} : call'[m] = call[m]
           /\ c \in Calls => call' \in [Notes!Run -> Calls]
  BY DEF Notes!TypeOK, Calls, Scans, Sends, Marks

LEMMA NotesOf ==
    ASSUME Notes!TypeOK, NEW n \in Notes!Run, call[n].at = "send"
    PROVE  Notes!Notes(n) \subseteq Notes!Note
  BY CallStages DEF Notes!Notes, Sends, Notes!TypeOK

\* A step that leaves the log alone.
LEMMA NotesTyped ==
    ASSUME Notes!TypeOK, UNCHANGED log, aged' \in 0 .. Len(log), run' \in 0 .. MaxRuns,
           call' \in [Notes!Run -> Calls], cooling' \subseteq Notes!Note,
           fresh' \in [Notes!Channels -> SUBSET Notes!Note], twice' \subseteq Notes!Note,
           excused' \in BOOLEAN, long' \in BOOLEAN
    PROVE  Notes!TypeOK'
  BY DEF Notes!TypeOK, Calls, Scans, Sends, Marks

LEMMA NotesTypeRecord ==
    ASSUME Notes!TypeOK, Notes!Record
    PROVE  /\ Notes!TypeOK'
           /\ \E x \in Notes!Note : log' = Append(log, x)
<1>1. PICK x \in Notes!Note : log' = Append(log, x)
  BY DEF Notes!Record, Notes!Note
<1>2. /\ log \in Seq(Notes!Note) /\ Len(log) \in Nat /\ Len(log) < MaxLog
      /\ UNCHANGED <<aged, run, call, cooling, fresh, twice, excused, long>>
  BY DEF Notes!Record, Notes!TypeOK
<1>3. /\ log' \in Seq(Notes!Note) /\ Len(log') = Len(log) + 1
      /\ DOMAIN log \subseteq DOMAIN log' /\ 0 .. Len(log) \subseteq 0 .. Len(log')
  BY <1>1, <1>2
<1>4. MaxLog \in Nat
  BY NotesOK DEF Notes!NotifierAssumption
<1>5. Len(log') <= MaxLog
  BY <1>2, <1>3, <1>4
<1>6. aged' \in 0 .. Len(log')
  BY <1>2, <1>3 DEF Notes!TypeOK
<1>7. Scans \subseteq Scans' /\ Sends \subseteq Sends'
  BY <1>3 DEF Scans, Sends
<1>8. call \in [Notes!Run -> {Notes!Resting} \cup Scans \cup Sends \cup Marks]
  BY DEF Notes!TypeOK, Scans, Sends, Marks
<1>9. call' \in [Notes!Run -> {Notes!Resting} \cup Scans' \cup Sends' \cup Marks]
  BY <1>2, <1>7, <1>8
<1> QED BY <1>1, <1>2, <1>3, <1>5, <1>6, <1>9 DEF Notes!TypeOK, Scans, Sends, Marks

LEMMA NotesTypeCall ==
    ASSUME Notes!TypeOK, NEW n \in Notes!Run,
           Notes!Read(n) \/ Notes!Send(n) \/ Notes!Sent(n) \/ Notes!Mark(n)
    PROVE  Notes!TypeOK'
<1>0. /\ Senders \in Nat /\ Notes!Resting \in Calls
      /\ aged \in 0 .. Len(log) /\ run \in 0 .. MaxRuns /\ cooling \subseteq Notes!Note
      /\ fresh \in [Notes!Channels -> SUBSET Notes!Note] /\ twice \subseteq Notes!Note
      /\ excused \in BOOLEAN /\ long \in BOOLEAN
  BY NotesOK DEF Notes!NotifierAssumption, Calls, Notes!TypeOK
<1>1. CASE Notes!Read(n)
  <2> DEFINE c == [at |-> "send", lines |-> Notes!Told(n), next |-> 1,
                   failed |-> FALSE, told |-> FALSE]
  <2>1. c \in Sends
    <3>1. Notes!Told(n) \in SUBSET DOMAIN log
      BY DEF Notes!Told
    <3> QED BY <1>0, <3>1 DEF Sends
  <2>2. (IF Notes!Told(n) = {} THEN Notes!Resting ELSE c) \in Calls
    BY <1>0, <2>1 DEF Calls
  <2>3. /\ call' = [call EXCEPT ![n] = IF Notes!Told(n) = {} THEN Notes!Resting ELSE c]
        /\ UNCHANGED <<log, aged, run, cooling, fresh, twice, long>>
        /\ excused' \in BOOLEAN
    BY <1>0, <1>1 DEF Notes!Read, Notes!logVars
  <2> HIDE DEF c
  <2> QED BY <1>0, <2>2, <2>3, CallMoves, NotesTyped
<1>2. CASE Notes!Send(n)
  <2> DEFINE k == call[n].next
  <2>1. call[n] \in Sends /\ k \in 1 .. Senders /\ k \in Notes!Channels
    BY <1>2, CallStages DEF Notes!Send, Notes!Channels
  <2>2. PICK delivered \in BOOLEAN, fails \in BOOLEAN :
           /\ call' = [call EXCEPT ![n] = [call[n] EXCEPT !.next = k + 1, !.failed = @ \/ fails,
                                                 !.told = @ \/ delivered]]
           /\ fresh' = [fresh EXCEPT ![k] = IF delivered THEN @ \cup Notes!Notes(n) ELSE @]
           /\ twice' = IF delivered THEN twice \cup (fresh[k] \cap Notes!Notes(n)) ELSE twice
    BY <1>2 DEF Notes!Send
  <2> DEFINE c == [call[n] EXCEPT !.next = k + 1, !.failed = @ \/ fails, !.told = @ \/ delivered]
  <2>3. c \in Sends
    <3>1. k + 1 \in 1 .. Senders + 1
      BY <1>0, <2>1
    <3>2. (call[n].failed \/ fails) \in BOOLEAN /\ (call[n].told \/ delivered) \in BOOLEAN
      OBVIOUS
    <3> QED BY <2>1, <3>1, <3>2 DEF Sends
  <2>4. call' = [call EXCEPT ![n] = c]
    BY <2>2
  <2>5. call' \in [Notes!Run -> Calls]
    <3> HIDE DEF c
    <3> QED BY <2>3, <2>4, CallMoves DEF Calls
  <2>6. Notes!Notes(n) \subseteq Notes!Note
    BY <1>2, NotesOf DEF Notes!Send
  <2>7. fresh' \in [Notes!Channels -> SUBSET Notes!Note] /\ twice' \subseteq Notes!Note
    BY <1>0, <2>1, <2>2, <2>6
  <2>8. UNCHANGED <<log, aged, run, cooling, excused, long>>
    BY <1>2 DEF Notes!Send, Notes!logVars
  <2> QED BY <1>0, <2>5, <2>7, <2>8, NotesTyped
<1>3. CASE Notes!Sent(n)
  <2> DEFINE c == IF Notes!Recorded(n) = {} THEN Notes!Resting
                  ELSE [at |-> "record", rest |-> Notes!Recorded(n)]
  <2>1. Notes!Recorded(n) \in SUBSET Notes!Note
    BY <1>3, NotesOf DEF Notes!Recorded, Notes!Sent
  <2>2. c \in Calls
    BY <1>0, <2>1 DEF Calls, Marks
  <2>3. call' = [call EXCEPT ![n] = c]
    BY <1>3 DEF Notes!Sent
  <2>4. excused' \in BOOLEAN
    BY <1>0, <1>3 DEF Notes!Sent
  <2>5. UNCHANGED <<log, aged, run, cooling, fresh, twice, long>>
    BY <1>3 DEF Notes!Sent, Notes!logVars
  <2> HIDE DEF c
  <2> QED BY <1>0, <2>2, <2>3, <2>4, <2>5, CallMoves, NotesTyped
<1>4. CASE Notes!Mark(n)
  <2>1. call[n] \in Marks
    BY <1>4, CallStages DEF Notes!Mark
  <2>2. PICK note \in call[n].rest :
          /\ call' = [call EXCEPT ![n] = IF call[n].rest = {note} THEN Notes!Resting
                                         ELSE [call[n] EXCEPT !.rest = @ \ {note}]]
          /\ \/ cooling' = cooling \cup {note} /\ UNCHANGED excused
             \/ excused' = TRUE /\ UNCHANGED cooling
    BY <1>4 DEF Notes!Mark
  <2> DEFINE c == IF call[n].rest = {note} THEN Notes!Resting
                  ELSE [call[n] EXCEPT !.rest = @ \ {note}]
  <2>3. c \in Calls
    BY <1>0, <2>1 DEF Calls, Marks
  <2>4. call' = [call EXCEPT ![n] = c]
    BY <2>2
  <2>5. note \in Notes!Note
    BY <2>1 DEF Marks
  <2>6. UNCHANGED <<log, aged, run, fresh, twice, long>>
    BY <1>4 DEF Notes!Mark, Notes!logVars
  <2> HIDE DEF c
  <2> QED BY <1>0, <2>2, <2>3, <2>4, <2>5, <2>6, CallMoves, NotesTyped
<1> QED BY <1>1, <1>2, <1>3, <1>4

LEMMA NotesTypeNext ==
    ASSUME Notes!TypeOK, [Notes!Next]_notesVars
    PROVE  Notes!TypeOK'
<1>0. /\ Senders \in Nat /\ MaxRuns \in Nat /\ Notes!Resting \in Calls
      /\ log \in Seq(Notes!Note) /\ Len(log) \in Nat
      /\ aged \in 0 .. Len(log) /\ run \in 0 .. MaxRuns /\ cooling \subseteq Notes!Note
      /\ fresh \in [Notes!Channels -> SUBSET Notes!Note] /\ twice \subseteq Notes!Note
      /\ excused \in BOOLEAN /\ long \in BOOLEAN
      /\ call \in [Notes!Run -> Calls]
  BY NotesOK DEF Notes!NotifierAssumption, Calls, Notes!TypeOK, Scans, Sends, Marks
<1>1. CASE Notes!Record
  BY <1>1, NotesTypeRecord
<1>2. CASE Notes!Start
  <2>1. PICK k \in {Len(log), Len(log) - 1} \cap aged .. Len(log) :
           call' = [call EXCEPT ![run'] = [at |-> "scan", from |-> k]]
    BY <1>2 DEF Notes!Start
  <2>2. run' \in 0 .. MaxRuns /\ run' \in Notes!Run
    BY <1>0, <1>2 DEF Notes!Start, Notes!Run
  <2>3. [at |-> "scan", from |-> k] \in Calls
    BY <1>0 DEF Calls, Scans
  <2>4. UNCHANGED <<log, aged, cooling, fresh, twice, excused, long>>
    BY <1>2 DEF Notes!Start
  <2> QED BY <1>0, <2>1, <2>2, <2>3, <2>4, CallMoves, NotesTyped
<1>3. CASE Notes!End
  <2>1. PICK n \in Notes!Run : /\ call[n].at = "scan"
                               /\ call' = [call EXCEPT ![n].at = "read"]
    BY <1>3 DEF Notes!End
  <2>2. [call[n] EXCEPT !.at = "read"] \in Calls
    BY <2>1, CallStages DEF Calls, Scans
  <2>3. UNCHANGED <<log, aged, run, cooling, fresh, twice, excused, long>>
    BY <1>3 DEF Notes!End, Notes!logVars
  <2> QED BY <1>0, <2>1, <2>2, <2>3, CallMoves, NotesTyped
<1>4. CASE Notes!Age
  BY <1>0, <1>4, NotesTyped DEF Notes!Age
<1>5. CASE Notes!Cool
  BY <1>0, <1>5, NotesTyped DEF Notes!Cool, Notes!logVars
<1>6. CASE Notes!Crash
  BY <1>0, <1>6, NotesTyped DEF Notes!Crash, Notes!logVars
<1>7. CASE UNCHANGED notesVars
  BY <1>0, <1>7, NotesTyped DEF notesVars
<1> QED BY <1>1, <1>2, <1>3, <1>4, <1>5, <1>6, <1>7, NotesTypeCall DEF Notes!Next

LEMMA NotesTypeInit ==
    ASSUME Notes!Init
    PROVE  Notes!TypeOK
<1>1. Senders \in Nat /\ MaxRuns \in Nat /\ MaxLog \in Nat
  BY NotesOK DEF Notes!NotifierAssumption
<1>2. log \in Seq(Notes!Note) /\ Len(log) = 0 /\ 0 \in 0 .. MaxRuns /\ 0 \in 0 .. Len(log)
  BY <1>1 DEF Notes!Init
<1>3. call \in [Notes!Run -> Calls] /\ fresh \in [Notes!Channels -> SUBSET Notes!Note]
  BY DEF Notes!Init, Calls
<1>4. Len(log) <= MaxLog
  BY <1>1, <1>2
<1> QED BY <1>2, <1>3, <1>4 DEF Notes!Init, Notes!TypeOK, Calls, Scans, Sends, Marks

-----------------------------------------------------------------------------
\* A message holds the same line twice only if the log does.

\* A device is new before anything else is recorded of it.
NewFirst == \A i, j \in DOMAIN log : i < j /\ log[i][1] = log[j][1] => log[j][2] # "new"
\* What a message will tell is not an hour old.
InWindow == ~long => \A n \in Notes!Run :
               call[n].at \in {"scan", "read"} => call[n].from >= aged

Lines == NewFirst /\ InWindow /\ Notes!TwiceAsLogged

LEMMA Appended ==
    ASSUME Notes!TypeOK, NEW x, log' = Append(log, x), x \in Notes!Note
    PROVE  /\ DOMAIN log' = DOMAIN log \cup {Len(log) + 1} /\ Len(log) + 1 \notin DOMAIN log
           /\ Len(log) \in Nat /\ DOMAIN log = 1 .. Len(log)
           /\ log'[Len(log) + 1] = x /\ \A i \in DOMAIN log : log'[i] = log[i]
<1>1. log \in Seq(Notes!Note)
  BY DEF Notes!TypeOK
<1> QED BY <1>1

LEMMA LinesRecord ==
    ASSUME Notes!TypeOK, NewFirst, Notes!Record
    PROVE  NewFirst'
<1>1. PICK d \in Device, s \in {"new", "online", "suspected", "offline"} :
        log' = Append(log, <<d, s>>) /\ (s = "new" => Notes!Of(d) = {})
  BY DEF Notes!Record
<1> DEFINE m == Len(log) + 1
<1>2. /\ DOMAIN log' = DOMAIN log \cup {m} /\ Len(log) \in Nat /\ DOMAIN log = 1 .. Len(log)
      /\ log'[m] = <<d, s>> /\ \A i \in DOMAIN log : log'[i] = log[i]
  BY <1>1, Appended DEF Notes!Note
<1> SUFFICES ASSUME NEW i \in DOMAIN log', NEW j \in DOMAIN log', i < j,
                    log'[i][1] = log'[j][1]
             PROVE  log'[j][2] # "new"
  BY DEF NewFirst
<1>3. i \in DOMAIN log
  BY <1>2 DEF m
<1> HIDE DEF m
<1>4. CASE j \in DOMAIN log
  BY <1>2, <1>3, <1>4 DEF NewFirst
<1>5. CASE j = m
  <2>1. i \in Notes!Of(d)
    BY <1>2, <1>3, <1>5 DEF Notes!Of
  <2> QED BY <1>1, <1>2, <1>5, <2>1
<1> QED BY <1>2, <1>4, <1>5

LEMMA SameCardinality ==
    ASSUME NEW S
    PROVE  Notes!Cardinality(S) = Cardinality(S)
  BY DEF Notes!Cardinality, Cardinality

\* Three changes within the hour are too many for a line.
LEMMA NotSteady ==
    ASSUME Notes!TypeOK, NEW d, NEW i \in Notes!Changes(d), NEW k \in Notes!Changes(d),
           NEW j \in Notes!Changes(d), i < k, k < j
    PROVE  ~Notes!Steady(d)
<1>1. Notes!Changes(d) \subseteq 1 .. Len(log) /\ Len(log) \in Nat
  BY DEF Notes!Changes, Notes!Of, Notes!TypeOK
<1>2. IsFiniteSet(Notes!Changes(d))
  <2>1. IsFiniteSet(1 .. Len(log))
    BY <1>1, FS_Interval
  <2> QED BY <1>1, <2>1, FS_Subset
<1>3. Cardinality({i, k, j}) = 3
  <2>1. i \in Nat /\ j \in Nat /\ k \in Nat
    BY <1>1
  <2>2. Cardinality({i}) = 1 /\ IsFiniteSet({i})
    BY FS_Singleton
  <2>3. {i, k} = {i} \cup {k} /\ k \notin {i}
    BY <2>1
  <2>4. Cardinality({i, k}) = 2 /\ IsFiniteSet({i, k})
    BY <2>2, <2>3, FS_AddElement
  <2>5. {i, k, j} = {i, k} \cup {j} /\ j \notin {i, k}
    BY <2>1
  <2> QED BY <2>4, <2>5, FS_AddElement
<1>4. Cardinality(Notes!Changes(d)) \in Nat /\ 3 <= Cardinality(Notes!Changes(d))
  <2>1. {i, k, j} \subseteq Notes!Changes(d)
    OBVIOUS
  <2> QED BY <1>2, <1>3, <2>1, FS_Subset, FS_CardinalityType
<1> QED BY <1>4, SameCardinality DEF Notes!Steady

\* What a message is made of.
LEMMA LinesRead ==
    ASSUME Notes!TypeOK, NewFirst, InWindow, ~long, NEW n \in Notes!Run,
           call[n].at = "read", NEW i \in Notes!Told(n), NEW j \in Notes!Told(n),
           i < j, log[i] = log[j], NEW k \in Notes!Of(log[j][1]), i < k, k < j
    PROVE  FALSE
<1>1. /\ call[n].from >= aged /\ call[n].from \in Nat /\ aged \in Nat
      /\ log \in Seq(Notes!Note) /\ DOMAIN log \subseteq Nat
  BY CallStages DEF InWindow, Scans, Notes!TypeOK
<1>2. /\ i \in DOMAIN log /\ j \in DOMAIN log /\ i > call[n].from
      /\ k \in DOMAIN log /\ log[k][1] = log[j][1]
  BY DEF Notes!Told, Notes!Of
<1>3. log[k][2] # "new" /\ log[j][2] # "new" /\ log[i][2] # "new"
  BY <1>2 DEF NewFirst
<1>4. Notes!Steady(log[j][1])
  BY <1>3 DEF Notes!Told
<1>5. {i, k, j} \subseteq Notes!Changes(log[j][1])
  BY <1>1, <1>2, <1>3 DEF Notes!Changes, Notes!Of
<1> QED BY <1>4, <1>5, NotSteady

\* The calls after a step: one of them moved on, or all are gone.
Turn(n) ==
    \/ call'[n] = call[n]
    \/ call'[n] = Notes!Resting
    \/ /\ Notes!Start /\ n = run + 1
       /\ \E k \in aged .. Len(log) : call'[n] = [at |-> "scan", from |-> k]
    \/ Notes!End /\ call[n].at = "scan" /\ call'[n] = [call[n] EXCEPT !.at = "read"]
    \/ Notes!Read(n) /\ call'[n].at = "send" /\ call'[n].lines = Notes!Told(n)
    \/ /\ Notes!Send(n) /\ call'[n].at = "send"
       /\ call'[n].lines = call[n].lines /\ call'[n].next = call[n].next + 1
       /\ call[n].told => call'[n].told
    \/ /\ Notes!Sent(n) /\ Notes!Recorded(n) # {}
       /\ call'[n] = [at |-> "record", rest |-> Notes!Recorded(n)]
    \/ Notes!Mark(n) /\ call'[n].at = "record" /\ call'[n].rest \subseteq call[n].rest

LEMMA CallSteps ==
    ASSUME Notes!TypeOK, [Notes!Next]_notesVars, NEW n \in Notes!Run
    PROVE  Turn(n)
<1>0. \A m \in Notes!Run : \A c : call' = [call EXCEPT ![m] = c] =>
         IF m = n THEN call'[n] = c ELSE call'[n] = call[n]
  BY CallMoves
<1>1. CASE UNCHANGED call
  BY <1>1 DEF Turn
<1>2. CASE Notes!Start
  <2>1. PICK k \in aged .. Len(log) :
           call' = [call EXCEPT ![run'] = [at |-> "scan", from |-> k]]
    BY <1>2 DEF Notes!Start
  <2>2. run' \in Notes!Run /\ run' = run + 1
    BY <1>2, NotesOK DEF Notes!Start, Notes!Run, Notes!TypeOK, Notes!NotifierAssumption
  <2> QED BY <1>0, <1>2, <2>1, <2>2 DEF Turn
<1>3. CASE Notes!End
  <2>1. PICK m \in Notes!Run : /\ call[m].at = "scan"
                               /\ call' = [call EXCEPT ![m] = [call[m] EXCEPT !.at = "read"]]
    BY <1>3 DEF Notes!End
  <2> QED BY <1>0, <1>3, <2>1 DEF Turn
<1>4. CASE Notes!Crash
  BY <1>4 DEF Notes!Crash, Turn
<1>5. ASSUME NEW m \in Notes!Run,
             Notes!Read(m) \/ Notes!Send(m) \/ Notes!Sent(m) \/ Notes!Mark(m)
      PROVE  Turn(n)
  <2>1. CASE m # n
    <3>1. \E c : call' = [call EXCEPT ![m] = c]
      BY <1>5 DEF Notes!Read, Notes!Send, Notes!Sent, Notes!Mark
    <3> QED BY <1>0, <2>1, <3>1 DEF Turn
  <2>2. CASE m = n /\ Notes!Read(n)
    <3>1. call' = [call EXCEPT ![n] = IF Notes!Told(n) = {} THEN Notes!Resting
                     ELSE [at |-> "send", lines |-> Notes!Told(n), next |-> 1,
                           failed |-> FALSE, told |-> FALSE]]
      BY <2>2 DEF Notes!Read
    <3>2. call'[n] = IF Notes!Told(n) = {} THEN Notes!Resting
                     ELSE [at |-> "send", lines |-> Notes!Told(n), next |-> 1,
                           failed |-> FALSE, told |-> FALSE]
      BY <1>0, <3>1
    <3> QED BY <2>2, <3>2 DEF Turn
  <2>3. CASE m = n /\ Notes!Send(n)
    <3>1. PICK delivered \in BOOLEAN, fails \in BOOLEAN :
             call' = [call EXCEPT ![n] =
                        [call[n] EXCEPT !.next = call[n].next + 1, !.failed = @ \/ fails,
                                        !.told = @ \/ delivered]]
      BY <2>3 DEF Notes!Send
    <3>2. call'[n] = [call[n] EXCEPT !.next = call[n].next + 1, !.failed = @ \/ fails,
                                     !.told = @ \/ delivered]
      BY <1>0, <3>1
    <3>3. call[n] \in Sends
      BY <2>3, CallStages DEF Notes!Send
    <3>4. call'[n].at = "send" /\ call'[n].lines = call[n].lines
      BY <3>2, <3>3 DEF Sends
    <3>5. call'[n].next = call[n].next + 1 /\ (call[n].told => call'[n].told)
      BY <3>2, <3>3 DEF Sends
    <3> QED BY <2>3, <3>4, <3>5 DEF Turn
  <2>4. CASE m = n /\ Notes!Sent(n)
    <3>1. call' = [call EXCEPT ![n] =
                     IF Notes!Recorded(n) = {} THEN Notes!Resting
                     ELSE [at |-> "record", rest |-> Notes!Recorded(n)]]
      BY <2>4 DEF Notes!Sent
    <3>2. call'[n] = IF Notes!Recorded(n) = {} THEN Notes!Resting
                     ELSE [at |-> "record", rest |-> Notes!Recorded(n)]
      BY <1>0, <3>1
    <3> QED BY <2>4, <3>2 DEF Turn
  <2>5. CASE m = n /\ Notes!Mark(n)
    <3>1. PICK note \in call[n].rest :
             call' = [call EXCEPT ![n] = IF call[n].rest = {note} THEN Notes!Resting
                                         ELSE [call[n] EXCEPT !.rest = @ \ {note}]]
      BY <2>5 DEF Notes!Mark
    <3>2. call'[n] = IF call[n].rest = {note} THEN Notes!Resting
                     ELSE [call[n] EXCEPT !.rest = @ \ {note}]
      BY <1>0, <3>1
    <3>3. call[n] \in Marks /\ call[n].at = "record"
      BY <2>5, CallStages DEF Notes!Mark
    <3>4. [call[n] EXCEPT !.rest = @ \ {note}].at = "record"
          /\ [call[n] EXCEPT !.rest = @ \ {note}].rest = call[n].rest \ {note}
      BY <3>3 DEF Marks
    <3> QED BY <2>5, <3>2, <3>4 DEF Turn
  <2> QED BY <1>5, <2>1, <2>2, <2>3, <2>4, <2>5
<1> QED BY <1>1, <1>2, <1>3, <1>4, <1>5
     DEF Notes!Next, Notes!Record, Notes!Age, Notes!Cool, Notes!logVars, notesVars

\* Where a call is afterwards tells how it came there.
LEMMA Stage ==
    ASSUME Notes!TypeOK, NEW n \in Notes!Run, Turn(n), call'[n] # call[n]
    PROVE  /\ call'[n].at \in {"scan", "read"} =>
                \/ /\ Notes!Start /\ n = run + 1
                   /\ \E k \in aged .. Len(log) : call'[n] = [at |-> "scan", from |-> k]
                \/ call[n].at = "scan" /\ call'[n].from = call[n].from
           /\ call'[n].at = "send" =>
                \/ Notes!Read(n) /\ call'[n].lines = Notes!Told(n)
                \/ /\ Notes!Send(n) /\ call'[n].lines = call[n].lines
                   /\ call'[n].next = call[n].next + 1 /\ (call[n].told => call'[n].told)
           /\ call'[n].at = "record" =>
                \/ /\ Notes!Sent(n) /\ Notes!Recorded(n) # {}
                   /\ call'[n].rest = Notes!Recorded(n)
                \/ Notes!Mark(n) /\ call'[n].rest \subseteq call[n].rest
<1>1. CASE call'[n] = Notes!Resting
  BY <1>1 DEF Notes!Resting
<1>2. CASE /\ Notes!Start /\ n = run + 1
           /\ \E k \in aged .. Len(log) : call'[n] = [at |-> "scan", from |-> k]
  <2>1. call'[n].at = "scan"
    BY <1>2
  <2> QED BY <1>2, <2>1
<1>3. CASE call[n].at = "scan" /\ call'[n] = [call[n] EXCEPT !.at = "read"]
  <2>1. call'[n].at = "read" /\ call'[n].from = call[n].from
    BY <1>3, CallStages DEF Scans
  <2> QED BY <1>3, <2>1
<1>4. CASE Notes!Read(n) /\ call'[n].at = "send" /\ call'[n].lines = Notes!Told(n)
  BY <1>4
<1>5. CASE /\ Notes!Send(n) /\ call'[n].at = "send"
           /\ call'[n].lines = call[n].lines /\ call'[n].next = call[n].next + 1
           /\ call[n].told => call'[n].told
  BY <1>5
<1>6. CASE /\ Notes!Sent(n) /\ Notes!Recorded(n) # {}
           /\ call'[n] = [at |-> "record", rest |-> Notes!Recorded(n)]
  <2>1. call'[n].at = "record" /\ call'[n].rest = Notes!Recorded(n)
    BY <1>6
  <2> QED BY <1>6, <2>1
<1>7. CASE Notes!Mark(n) /\ call'[n].at = "record" /\ call'[n].rest \subseteq call[n].rest
  BY <1>7
<1> QED BY <1>1, <1>2, <1>3, <1>4, <1>5, <1>6, <1>7 DEF Turn

LEMMA LinesNext ==
    ASSUME Notes!TypeOK, Lines, [Notes!Next]_notesVars
    PROVE  Lines'
<1>0. /\ log \in Seq(Notes!Note) /\ Len(log) \in Nat /\ aged \in Nat
      /\ long \in BOOLEAN /\ (long => long')
  <2>1. log \in Seq(Notes!Note) /\ Len(log) \in Nat /\ aged \in Nat /\ long \in BOOLEAN
    BY DEF Notes!TypeOK
  <2>2. Notes!Age => (long => long')
    BY DEF Notes!Age
  <2>3. ~Notes!Age => long' = long
    BY DEF Notes!Next, Notes!Record, Notes!Start, Notes!End, Notes!Cool, Notes!Crash,
           Notes!Read, Notes!Send, Notes!Sent, Notes!Mark, Notes!logVars, notesVars
  <2> QED BY <2>1, <2>2, <2>3
<1>1. /\ \A i \in DOMAIN log : i \in DOMAIN log' /\ log'[i] = log[i]
      /\ Notes!Record \/ log' = log
  <2>1. Notes!Record \/ log' = log
    BY DEF Notes!Next, Notes!Start, Notes!End, Notes!Age, Notes!Cool, Notes!Crash,
           Notes!Read, Notes!Send, Notes!Sent, Notes!Mark, Notes!logVars, notesVars
  <2>2. CASE Notes!Record
    <3>1. PICK x \in Notes!Note : log' = Append(log, x)
      BY <2>2, NotesTypeRecord
    <3> QED BY <2>2, <3>1, Appended
  <2> QED BY <2>1, <2>2
<1>2. NewFirst'
  <2>1. CASE Notes!Record
    BY <2>1, LinesRecord DEF Lines
  <2>2. CASE log' = log
    BY <2>2 DEF Lines, NewFirst
  <2> QED BY <1>1, <2>1, <2>2
<1>3. InWindow'
  <2> SUFFICES ASSUME ~long', NEW n \in Notes!Run, call'[n].at \in {"scan", "read"}
               PROVE  call'[n].from >= aged'
    BY DEF InWindow
  <2>1. CASE Notes!Age
    <3>1. call' = call /\ aged' = aged + 1 /\ call[n].from > aged
      <4>1. call' = call /\ aged' = aged + 1 /\ ~(call[n].from <= aged)
        BY <2>1 DEF Notes!Age
      <4>2. call[n].from \in Nat
        BY <4>1, CallStages, <1>0 DEF Scans
      <4> QED BY <1>0, <4>1, <4>2
    <3>2. call[n].from \in Nat
      BY <3>1, CallStages, <1>0 DEF Scans
    <3> QED BY <1>0, <3>1, <3>2
  <2>2. CASE ~Notes!Age
    <3>1. aged' = aged
      BY <2>2 DEF Notes!Next, Notes!Record, Notes!Start, Notes!End, Notes!Cool, Notes!Crash,
           Notes!Read, Notes!Send, Notes!Sent, Notes!Mark, Notes!logVars, notesVars
    <3>2. CASE call'[n] = call[n]
      BY <1>0, <3>1, <3>2 DEF Lines, InWindow
    <3>3. CASE \E k \in aged .. Len(log) : call'[n] = [at |-> "scan", from |-> k]
      BY <1>0, <3>1, <3>3
    <3>4. CASE call[n].at = "scan" /\ call'[n].from = call[n].from
      BY <1>0, <3>1, <3>4 DEF Lines, InWindow
    <3> QED BY <3>2, <3>3, <3>4, CallSteps, Stage
  <2> QED BY <2>1, <2>2
<1>5. log' \in Seq(Notes!Note)
  BY NotesTypeNext DEF Notes!TypeOK
<1>4. Notes!TwiceAsLogged'
  <2> SUFFICES ASSUME ~long', NEW n \in Notes!Run, call'[n].at = "send",
                      NEW i \in call'[n].lines, NEW j \in call'[n].lines,
                      i < j, log'[i] = log'[j],
                      NEW k \in Notes!Of(log[j][1])', i < k, k < j
               PROVE  FALSE
    BY DEF Notes!TwiceAsLogged
  <2>0. ASSUME i \in DOMAIN log, j \in DOMAIN log
        PROVE  log[i] = log[j] /\ k \in Notes!Of(log[j][1])
    <3>1. DOMAIN log = 1 .. Len(log) /\ DOMAIN log' = 1 .. Len(log') /\ log'[j] = log[j]
      BY <1>0, <1>1, <1>5, <2>0
    <3>2. k \in DOMAIN log' /\ log'[k][1] = log[j][1]
      BY <3>1 DEF Notes!Of
    <3>3. k \in DOMAIN log
      BY <1>0, <2>0, <3>1, <3>2
    <3> QED BY <1>1, <2>0, <3>2, <3>3 DEF Notes!Of
  <2>1. CASE call[n].at = "send" /\ call'[n].lines = call[n].lines
    <3>1. i \in DOMAIN log /\ j \in DOMAIN log
      BY <2>1, CallStages DEF Sends
    <3> QED BY <1>0, <2>0, <2>1, <3>1 DEF Lines, Notes!TwiceAsLogged
  <2>2. CASE Notes!Read(n) /\ call'[n].lines = Notes!Told(n)
    <3>1. i \in DOMAIN log /\ j \in DOMAIN log
      BY <2>2 DEF Notes!Told
    <3> QED BY <1>0, <2>0, <2>2, <3>1, LinesRead DEF Lines, Notes!Read
  <2> QED BY <2>1, <2>2, CallSteps, Stage DEF Notes!Send
<1> QED BY <1>2, <1>3, <1>4 DEF Lines

LEMMA LinesInit ==
    ASSUME Notes!Init
    PROVE  Lines
<1>1. DOMAIN log = {}
  BY DEF Notes!Init
<1>2. \A n \in Notes!Run : call[n].at = "resting"
  BY DEF Notes!Init, Notes!Resting
<1> QED BY <1>1, <1>2 DEF Lines, NewFirst, InWindow, Notes!TwiceAsLogged

\* The other part leaves the notifications alone.
LEMMA NotesStep ==
    ASSUME [NotesNext \/ FilesNext]_<<part, notesVars, vars>>
    PROVE  [Notes!Next]_notesVars
  BY DEF NotesNext, FilesNext, notesVars

\* Notifications: every variable holds a value of its kind.
THEOREM NotesTypeCorrect == SpecEither => []Notes!TypeOK
<1>1. InitEither => Notes!TypeOK
  BY NotesTypeInit DEF InitEither
<1>2. Notes!TypeOK /\ [NotesNext \/ FilesNext]_<<part, notesVars, vars>> => Notes!TypeOK'
  BY NotesStep, NotesTypeNext
<1> QED BY <1>1, <1>2, PTL DEF SpecEither

\* A message tells the same thing about a device twice only if the log does so
\* with nothing of the device between (NotifyScan): a third change within the
\* hour silences the device.
THEOREM LinesAsLogged == SpecEither => []TwiceAsLogged
<1>1. InitEither => Lines
  BY LinesInit DEF InitEither
<1>2. Notes!TypeOK /\ Lines /\ [NotesNext \/ FilesNext]_<<part, notesVars, vars>> => Lines'
  BY NotesStep, LinesNext
<1>3. Lines => TwiceAsLogged
  BY DEF Lines, TwiceAsLogged
<1> QED BY <1>1, <1>2, <1>3, NotesTypeCorrect, PTL DEF SpecEither

-----------------------------------------------------------------------------
\* No two messages tell the same without a cause.

\* A call that has still to record that it told channel c the note.
Owes(n, note, c) ==
    \/ /\ call[n].at = "send" /\ call[n].told /\ call[n].next > c
       /\ note \in Notes!Notes(n)
    \/ call[n].at = "record" /\ note \in call[n].rest

\* One call at a time has sent something; what was told lately is recorded or
\* will be; and what a call is telling is not recorded.
OneBusy == \A m, n \in Notes!Run : Notes!Busy(m) /\ Notes!Busy(n) => m = n
Settled == \A c \in Notes!Channels : \A note \in fresh[c] :
              note \in cooling \/ \E n \in Notes!Run : Owes(n, note, c)
StillNews == \A n \in Notes!Run : call[n].at = "send" => Notes!Notes(n) \cap cooling = {}
Later == \A n \in Notes!Run : n > run => call[n] = Notes!Resting

Heard == Later /\ (~excused => OneBusy /\ Settled /\ StillNews /\ twice = {})

LEMMA LogGrows ==
    ASSUME Notes!TypeOK, [Notes!Next]_notesVars, NEW n \in Notes!Run,
           call[n].at = "send", call'[n].lines = call[n].lines
    PROVE  Notes!Notes(n)' = Notes!Notes(n)
<1>1. call[n].lines \subseteq DOMAIN log
  BY CallStages DEF Sends
<1>2. \A i \in DOMAIN log : log'[i] = log[i]
  <2>1. CASE Notes!Record
    BY <2>1, NotesTypeRecord, Appended
  <2>2. CASE ~Notes!Record
    BY <2>2 DEF Notes!Next, Notes!Start, Notes!End, Notes!Age, Notes!Cool, Notes!Crash,
           Notes!Read, Notes!Send, Notes!Sent, Notes!Mark, Notes!logVars, notesVars
  <2> QED BY <2>1, <2>2
<1> QED BY <1>1, <1>2 DEF Notes!Notes

LEMMA OwesKept ==
    ASSUME Notes!TypeOK, [Notes!Next]_notesVars, NEW n \in Notes!Run, NEW note, NEW c,
           Owes(n, note, c), call'[n] = call[n]
    PROVE  Owes(n, note, c)'
  BY LogGrows DEF Owes

LEMMA LaterNext ==
    ASSUME Notes!TypeOK, Later, [Notes!Next]_notesVars
    PROVE  Later'
<1>1. run \in Nat /\ run' \in Nat /\ (Notes!Start => run' = run + 1) /\ run' >= run
  <2>1. run \in Nat /\ (Notes!Start => run' = run + 1)
    BY DEF Notes!TypeOK, Notes!Start
  <2>2. ~Notes!Start => run' = run
    BY DEF Notes!Next, Notes!Record, Notes!End, Notes!Age, Notes!Cool, Notes!Crash,
           Notes!Read, Notes!Send, Notes!Sent, Notes!Mark, Notes!logVars, notesVars
  <2> QED BY <2>1, <2>2
<1> SUFFICES ASSUME NEW n \in Notes!Run, n > run' PROVE call'[n] = Notes!Resting
  BY DEF Later
<1>2. n \in Nat /\ call[n] = Notes!Resting
  BY <1>1 DEF Later, Notes!Run
<1>3. call[n].at = "resting"
  BY <1>2 DEF Notes!Resting
<1>4. ~(Notes!Start /\ n = run + 1)
  BY <1>1, <1>2
<1>5. ~Notes!Read(n) /\ ~Notes!Send(n) /\ ~Notes!Sent(n) /\ ~Notes!Mark(n)
  BY <1>3 DEF Notes!Read, Notes!Send, Notes!Sent, Notes!Mark
<1> QED BY <1>2, <1>3, <1>4, <1>5, CallSteps DEF Turn

\* A call that has sent something stays as it is unless it takes the step.
LEMMA BusyStays ==
    ASSUME Notes!TypeOK, Later, [Notes!Next]_notesVars, NEW n \in Notes!Run, Notes!Busy(n),
           ~Notes!Crash
    PROVE  \/ call'[n] = call[n]
           \/ Notes!Send(n) \/ Notes!Sent(n) \/ Notes!Mark(n)
<1>1. ASSUME NEW m \in Notes!Run, NEW x, m # n, call' = [call EXCEPT ![m] = x]
      PROVE  call'[n] = call[n]
  BY <1>1, CallMoves
<1>2. CASE Notes!Start
  <2>1. \E x : call' = [call EXCEPT ![run'] = x]
    BY <1>2 DEF Notes!Start
  <2>2. run' \in Notes!Run /\ run' > run
    BY <1>2, NotesOK DEF Notes!Start, Notes!Run, Notes!TypeOK, Notes!NotifierAssumption
  <2>3. call[run'].at = "resting"
    BY <2>2 DEF Later, Notes!Resting
  <2> QED BY <1>1, <2>1, <2>2, <2>3 DEF Notes!Busy
<1>3. CASE Notes!End
  <2>1. PICK m \in Notes!Run : call[m].at = "scan" /\ \E x : call' = [call EXCEPT ![m] = x]
    BY <1>3 DEF Notes!End
  <2> QED BY <1>1, <2>1 DEF Notes!Busy
<1>4. ASSUME NEW m \in Notes!Run,
             Notes!Read(m) \/ Notes!Send(m) \/ Notes!Sent(m) \/ Notes!Mark(m)
      PROVE  call'[n] = call[n] \/ Notes!Send(n) \/ Notes!Sent(n) \/ Notes!Mark(n)
  <2>1. \E x : call' = [call EXCEPT ![m] = x]
    BY <1>4 DEF Notes!Read, Notes!Send, Notes!Sent, Notes!Mark
  <2>2. Notes!Read(m) => m # n
    BY DEF Notes!Read, Notes!Busy
  <2> QED BY <1>1, <1>4, <2>1, <2>2
<1> QED BY <1>2, <1>3, <1>4
     DEF Notes!Next, Notes!Record, Notes!Age, Notes!Cool, Notes!logVars, notesVars

LEMMA OneBusyNext ==
    ASSUME Notes!TypeOK, [Notes!Next]_notesVars, OneBusy, ~excused'
    PROVE  OneBusy'
<1>1. ASSUME NEW n \in Notes!Run, Notes!Busy(n)'
      PROVE  Notes!Busy(n) \/ Notes!Read(n)
  <2>1. call'[n] = call[n] => Notes!Busy(n)
    BY <1>1 DEF Notes!Busy
  <2> QED BY <1>1, <2>1, CallSteps, Stage DEF Notes!Busy, Notes!Send, Notes!Sent, Notes!Mark
<1>2. ASSUME NEW m \in Notes!Run, NEW n \in Notes!Run, Notes!Read(m), m # n, Notes!Busy(n)'
      PROVE  FALSE
  <2>1. call'[n] = call[n]
    <3>1. \E x : call' = [call EXCEPT ![m] = x]
      BY <1>2 DEF Notes!Read
    <3> QED BY <1>2, <3>1, CallMoves
  <2>2. Notes!Busy(n)
    BY <1>2, <2>1 DEF Notes!Busy
  <2> QED BY <1>2, <2>2 DEF Notes!Read
<1> QED BY <1>1, <1>2 DEF OneBusy

LEMMA StillNewsNext ==
    ASSUME Notes!TypeOK, [Notes!Next]_notesVars, Later, OneBusy, StillNews
    PROVE  StillNews'
<1> SUFFICES ASSUME NEW n \in Notes!Run, call'[n].at = "send"
             PROVE  Notes!Notes(n)' \cap cooling' = {}
  BY DEF StillNews
<1>1. cooling' \subseteq cooling \/ \E m \in Notes!Run : Notes!Mark(m)
  BY DEF Notes!Next, Notes!Record, Notes!Start, Notes!End, Notes!Age, Notes!Cool, Notes!Crash,
         Notes!Read, Notes!Send, Notes!Sent, Notes!logVars, notesVars
<1>2. CASE Notes!Read(n) /\ call'[n].lines = Notes!Told(n)
  <2>1. UNCHANGED <<log, cooling>>
    BY <1>2 DEF Notes!Read, Notes!logVars
  <2> QED BY <1>2, <2>1 DEF Notes!Notes, Notes!Told, Notes!Allowed
<1>3. CASE call[n].at = "send" /\ call'[n].lines = call[n].lines
  <2>1. Notes!Notes(n)' = Notes!Notes(n)
    BY <1>3, LogGrows
  <2>2. ASSUME NEW m \in Notes!Run, Notes!Mark(m)
        PROVE  FALSE
    BY <1>3, <2>2 DEF OneBusy, Notes!Busy, Notes!Mark
  <2> QED BY <1>1, <1>3, <2>1, <2>2 DEF StillNews
<1> QED BY <1>2, <1>3, CallSteps, Stage DEF Notes!Send

\* What a send delivers nobody was told lately.
LEMMA SendsNews ==
    ASSUME Notes!TypeOK, OneBusy, Settled, StillNews, NEW n \in Notes!Run, Notes!Send(n)
    PROVE  fresh[call[n].next] \cap Notes!Notes(n) = {}
<1> DEFINE c == call[n].next
<1>1. c \in Notes!Channels /\ call[n].at = "send" /\ call[n] \in Sends
  BY CallStages DEF Notes!Send
<1> SUFFICES ASSUME NEW note \in fresh[c], note \in Notes!Notes(n)
             PROVE  FALSE
  OBVIOUS
<1>2. note \notin cooling
  BY <1>1 DEF StillNews
<1>3. PICK m \in Notes!Run : Owes(m, note, c)
  BY <1>1, <1>2 DEF Settled
<1>4. m = n
  BY <1>1, <1>3 DEF OneBusy, Owes, Notes!Busy
<1>5. call[n].next > call[n].next
  BY <1>1, <1>3, <1>4 DEF Owes
<1>6. call[n].next \in Nat
  BY <1>1 DEF Sends
<1> QED BY <1>5, <1>6

LEMMA TwiceNext ==
    ASSUME Notes!TypeOK, [Notes!Next]_notesVars, OneBusy, Settled, StillNews, twice = {}
    PROVE  twice' = {}
<1>1. CASE \E n \in Notes!Run : Notes!Send(n)
  <2>1. PICK n \in Notes!Run : Notes!Send(n)
    BY <1>1
  <2>2. fresh[call[n].next] \cap Notes!Notes(n) = {}
    BY <2>1, SendsNews
  <2> QED BY <2>1, <2>2 DEF Notes!Send
<1>2. CASE ~ \E n \in Notes!Run : Notes!Send(n)
  BY <1>2 DEF Notes!Next, Notes!Record, Notes!Start, Notes!End, Notes!Age, Notes!Cool,
         Notes!Crash, Notes!Read, Notes!Sent, Notes!Mark, Notes!logVars, notesVars
<1> QED BY <1>1, <1>2

LEMMA SettledNext ==
    ASSUME Notes!TypeOK, [Notes!Next]_notesVars, Later, OneBusy, Settled, StillNews,
           ~excused, ~excused'
    PROVE  Settled'
<1> SUFFICES ASSUME NEW c \in Notes!Channels, NEW note \in fresh'[c]
             PROVE  note \in cooling' \/ \E n \in Notes!Run : Owes(n, note, c)'
  BY DEF Settled
<1>1. \A n \in Notes!Run : Owes(n, note, c) => Notes!Busy(n)
  BY DEF Owes, Notes!Busy
<1>2. ASSUME NEW n \in Notes!Run, Notes!Send(n)
      PROVE  note \in cooling' \/ \E m \in Notes!Run : Owes(m, note, c)'
  <2>1. call[n] \in Sends /\ call[n].at = "send" /\ call[n].next \in Notes!Channels
    BY <1>2, CallStages DEF Notes!Send
  <2>2. PICK delivered \in BOOLEAN, fails \in BOOLEAN :
           /\ call' = [call EXCEPT ![n] =
                         [call[n] EXCEPT !.next = call[n].next + 1, !.failed = @ \/ fails,
                                         !.told = @ \/ delivered]]
           /\ fresh' = [fresh EXCEPT ![call[n].next] =
                          IF delivered THEN @ \cup Notes!Notes(n) ELSE @]
           /\ cooling' = cooling
    BY <1>2 DEF Notes!Send
  <2>3. call'[n] = [call[n] EXCEPT !.next = call[n].next + 1, !.failed = @ \/ fails,
                                   !.told = @ \/ delivered]
    BY <2>2, CallMoves
  <2>4. /\ call'[n].at = "send" /\ call'[n].next = call[n].next + 1
        /\ call'[n].told = (call[n].told \/ delivered) /\ call'[n].lines = call[n].lines
    BY <2>1, <2>3 DEF Sends
  <2>5. Notes!Notes(n)' = Notes!Notes(n)
    BY <2>1, <2>4, LogGrows
  <2>6. CASE note \in fresh[c]
    <3>1. \A m \in Notes!Run : Owes(m, note, c) => m = n
      BY <1>1, <2>1 DEF OneBusy, Notes!Busy
    <3>2. Owes(n, note, c) => Owes(n, note, c)'
      <4>1. call[n].next \in Nat /\ c \in Nat
        BY <2>1 DEF Notes!Channels, Sends
      <4>2. call[n].next > c => call'[n].next > c
        BY <2>4, <4>1
      <4>3. call[n].told => call'[n].told
        BY <2>4
      <4>4. Owes(n, note, c) => call[n].told /\ call[n].next > c /\ note \in Notes!Notes(n)
        BY <2>1 DEF Owes
      <4> QED BY <2>4, <2>5, <4>2, <4>3, <4>4 DEF Owes
    <3> QED BY <2>2, <2>6, <3>1, <3>2 DEF Settled
  <2>7. CASE note \notin fresh[c]
    <3>1. c = call[n].next /\ delivered /\ note \in Notes!Notes(n)
      BY <2>1, <2>2, <2>7 DEF Notes!TypeOK
    <3>2. call[n].next + 1 > c
      BY <3>1 DEF Notes!Channels
    <3> QED BY <2>4, <2>5, <3>1, <3>2 DEF Owes
  <2> QED BY <2>6, <2>7
<1>3. ASSUME NEW n \in Notes!Run, Notes!Sent(n)
      PROVE  note \in cooling' \/ \E m \in Notes!Run : Owes(m, note, c)'
  <2>1. call[n].at = "send" /\ UNCHANGED <<fresh, cooling>>
    BY <1>3 DEF Notes!Sent
  <2>2. \A m \in Notes!Run : Owes(m, note, c) => m = n
    BY <1>1, <2>1 DEF OneBusy, Notes!Busy
  <2>3. Owes(n, note, c) => Owes(n, note, c)'
    <3> SUFFICES ASSUME Owes(n, note, c) PROVE Owes(n, note, c)'
      OBVIOUS
    <3>1. call[n].told /\ note \in Notes!Notes(n) /\ ~call[n].failed
      BY <1>3, <2>1 DEF Owes, Notes!Sent
    <3>2. note \in Notes!Recorded(n)
      BY <3>1 DEF Notes!Recorded
    <3>3. call' = [call EXCEPT ![n] = [at |-> "record", rest |-> Notes!Recorded(n)]]
      BY <1>3, <3>2 DEF Notes!Sent
    <3>4. call'[n] = [at |-> "record", rest |-> Notes!Recorded(n)]
      BY <3>3, CallMoves
    <3> QED BY <3>2, <3>4 DEF Owes
  <2> QED BY <2>1, <2>2, <2>3 DEF Settled
<1>4. ASSUME NEW n \in Notes!Run, Notes!Mark(n)
      PROVE  note \in cooling' \/ \E m \in Notes!Run : Owes(m, note, c)'
  <2>1. call[n].at = "record" /\ call[n] \in Marks /\ fresh' = fresh
    BY <1>4, CallStages DEF Notes!Mark
  <2>2. PICK x \in call[n].rest :
          /\ call' = [call EXCEPT ![n] = IF call[n].rest = {x} THEN Notes!Resting
                                         ELSE [call[n] EXCEPT !.rest = @ \ {x}]]
          /\ cooling' = cooling \cup {x}
    BY <1>4 DEF Notes!Mark
  <2>3. \A m \in Notes!Run : Owes(m, note, c) => m = n
    BY <1>1, <2>1 DEF OneBusy, Notes!Busy
  <2>4. Owes(n, note, c) /\ note # x => Owes(n, note, c)'
    <3> SUFFICES ASSUME note \in call[n].rest, note # x PROVE Owes(n, note, c)'
      BY <2>1 DEF Owes
    <3>1. call'[n] = [call[n] EXCEPT !.rest = call[n].rest \ {x}]
      <4> DEFINE r == [call[n] EXCEPT !.rest = call[n].rest \ {x}]
      <4>1. call' = [call EXCEPT ![n] = r]
        BY <2>2
      <4> HIDE DEF r
      <4>2. call'[n] = r
        BY <4>1, CallMoves
      <4> QED BY <4>2 DEF r
    <3>2. call'[n].at = "record" /\ call'[n].rest = call[n].rest \ {x}
      BY <2>1, <3>1 DEF Marks
    <3> QED BY <3>2 DEF Owes
  <2> QED BY <2>1, <2>2, <2>3, <2>4 DEF Settled
<1>5. CASE Notes!Crash
  <2>1. UNCHANGED <<fresh, cooling>> /\ \A n \in Notes!Run : ~Notes!Busy(n)
    BY <1>5 DEF Notes!Crash
  <2> QED BY <1>1, <2>1 DEF Settled
<1>6. CASE /\ ~Notes!Crash
           /\ \A n \in Notes!Run : ~Notes!Send(n) /\ ~Notes!Sent(n) /\ ~Notes!Mark(n)
  <2>1. \A n \in Notes!Run : Owes(n, note, c) => Owes(n, note, c)'
    BY <1>1, <1>6, BusyStays, OwesKept
  <2>2. CASE Notes!Cool
    BY <2>1, <2>2 DEF Notes!Cool, Settled
  <2>3. CASE ~Notes!Cool
    <3>1. UNCHANGED <<fresh, cooling>>
      BY <1>6, <2>3 DEF Notes!Next, Notes!Record, Notes!Start, Notes!End, Notes!Age,
         Notes!Read, notesVars
    <3> QED BY <2>1, <3>1 DEF Settled
  <2> QED BY <2>2, <2>3
<1> QED BY <1>2, <1>3, <1>4, <1>5, <1>6

LEMMA HeardNext ==
    ASSUME Notes!TypeOK, Heard, [Notes!Next]_notesVars
    PROVE  Heard'
<1>1. excused => excused'
  BY DEF Notes!Next, Notes!Record, Notes!Start, Notes!End, Notes!Age, Notes!Cool,
         Notes!Crash, Notes!Read, Notes!Send, Notes!Sent, Notes!Mark, Notes!logVars, notesVars
<1> QED BY <1>1, LaterNext, OneBusyNext, SettledNext, StillNewsNext, TwiceNext DEF Heard

LEMMA HeardInit ==
    ASSUME Notes!Init
    PROVE  Heard
<1>1. \A n \in Notes!Run : call[n] = Notes!Resting /\ call[n].at = "resting"
  BY DEF Notes!Init, Notes!Resting
<1>2. \A c \in Notes!Channels : fresh[c] = {}
  BY DEF Notes!Init
<1> QED BY <1>1, <1>2 DEF Notes!Init, Heard, Later, OneBusy, Settled, StillNews, Notes!Busy

\* Nobody is told the same thing about a device twice within the cool-down
\* without a cause (NotifyScan, send): while the calls follow each other, what
\* was told lately is recorded or belongs to the one call under way.
THEOREM ToldOnce == SpecEither => []RepeatedForCause
<1>1. InitEither => Heard
  BY HeardInit DEF InitEither
<1>2. Notes!TypeOK /\ Heard /\ [NotesNext \/ FilesNext]_<<part, notesVars, vars>> => Heard'
  BY NotesStep, HeardNext
<1>3. Heard => RepeatedForCause
  BY DEF Heard, RepeatedForCause, Notes!RepeatedForCause
<1> QED BY <1>1, <1>2, <1>3, NotesTypeCorrect, PTL DEF SpecEither
=============================================================================
