---------------------------- MODULE ScanService ----------------------------
(***************************************************************************)
(* What the scanner promises to the rest of the server, with no goroutine, *)
(* channel or lock in sight: scans run one at a time, each one is opened   *)
(* for a fixed set of addresses, covers some of them, stops, and is then   *)
(* closed in the history with a verdict that is "completed" only if every  *)
(* address was covered.  Scanner.tla implements this module.               *)
(***************************************************************************)
EXTENDS Integers

CONSTANTS Addr, MaxRuns

RunId == 1 .. MaxRuns
NoRun == 0

VARIABLES
    current,    \* the run the server reports as running, or NoRun
    verdict,    \* the history entry of each run
    wanted,     \* the addresses each run was opened for
    covered     \* the addresses each run has checked

vars == <<current, verdict, wanted, covered>>

Init == /\ current = NoRun
        /\ verdict = [id \in RunId |-> "none"]
        /\ wanted  = [id \in RunId |-> {}]
        /\ covered = [id \in RunId |-> {}]

Open(id, hosts) ==
    /\ current = NoRun
    /\ verdict[id] = "none"
    /\ current' = id
    /\ verdict' = [verdict EXCEPT ![id] = "running"]
    /\ wanted'  = [wanted EXCEPT ![id] = hosts]
    /\ UNCHANGED covered

Cover(a) ==
    /\ current # NoRun
    /\ a \in wanted[current] \ covered[current]
    /\ covered' = [covered EXCEPT ![current] = @ \cup {a}]
    /\ UNCHANGED <<current, verdict, wanted>>

\* The run stops being current before its history entry is closed: another
\* run may be opened in between.  A crash stops it the same way.
Stop ==
    /\ current # NoRun
    /\ current' = NoRun
    /\ UNCHANGED <<verdict, wanted, covered>>

Close(id) ==
    /\ id # current
    /\ verdict[id] = "running"
    /\ \/ /\ covered[id] = wanted[id]
          /\ verdict' = [verdict EXCEPT ![id] = "completed"]
       \/ verdict' = [verdict EXCEPT ![id] = "failed"]
    /\ UNCHANGED <<current, wanted, covered>>

Next == \/ \E id \in RunId, hosts \in SUBSET Addr : Open(id, hosts)
        \/ \E a \in Addr : Cover(a)
        \/ Stop
        \/ \E id \in RunId : Close(id)

Spec == Init /\ [][Next]_vars
=============================================================================
