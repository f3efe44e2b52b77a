---------------------------- MODULE MCBackground ----------------------------
(***************************************************************************)
(* Two jobs beside the scans that share nothing: the notifications about   *)
(* finished scans, and backups with restores.  A behaviour is one of the   *)
(* first or of the second.                                                 *)
(***************************************************************************)
EXTENDS Backup, Sequences, TLC

CONSTANTS h1, h2  \* requests for a backup

CONSTANTS Device, Important, Senders, Wanted, MaxRuns, MaxLog

VARIABLES part, log, aged, run, call, cooling, fresh, twice, excused, long

Notes == INSTANCE Notifier

ASSUME NotesOK == Notes!NotifierAssumption

notesVars == <<log, aged, run, call, cooling, fresh, twice, excused, long>>

InitEither == part \in {"notes", "files"} /\ Notes!Init /\ Init

NotesNext == part = "notes" /\ Notes!Next /\ UNCHANGED <<part, vars>>
FilesNext == part = "files" /\ Next /\ UNCHANGED <<part, notesVars>>

SpecEither ==
    InitEither /\ [][NotesNext \/ FilesNext]_<<part, notesVars, vars>>

Symmetry == Permutations(Handler)

\* No two messages tell the same thing within the cool-down without a cause
\* (NotifyScan, send).
RepeatedForCause == Notes!RepeatedForCause
\* A message holds the same line twice only if the log does (NotifyScan).
TwiceAsLogged == Notes!TwiceAsLogged
=============================================================================
