------------------------------ MODULE EventHub ------------------------------
(***************************************************************************)
(* Scan events on their way to a browser's progress display                *)
(* (internal/app/events.go; server_http.go: sse; scanner.go: the Emit      *)
(* calls; web/scan-settings-core.js; web/app-bootstrap.js).                *)
(*                                                                         *)
(* The display follows two sources: answers to GET /api/scan/status, asked *)
(* for when the page is loaded and after the scan button, and events.  A   *)
(* browser has a place in the hub only while its stream is connected, and  *)
(* the hub drops what finds no room there.                                 *)
(*                                                                         *)
(* The scan is Scanner.tla's, reduced to what it emits and when.  Events   *)
(* about devices only take up room in the channel; repeated progress       *)
(* events stand for them.                                                  *)
(* Bug... operators are faulty forms of the definition below them.         *)
(***************************************************************************)
EXTENDS Naturals, Sequences

CONSTANTS
    Browser,  \* pages that are open
    Room,     \* capacity of a client's channel (16)
    MaxRuns   \* bound: scans ever started

HubAssumption == Room \in Nat \ {0} /\ MaxRuns \in Nat

VARIABLES
    run,      \* the run in ScanStatus, 0 before the first
    phase,    \* "rest", "sweep" (its workers emit), "close"
    closing,  \* runs whose scan_completed has not been emitted yet
    stream,   \* per browser: "none" since it was loaded, "on", or "broken"
    queue,    \* per browser: its channel in the hub
    ask,      \* per browser: the request for the status, or its answer
    shown,    \* per browser: does it show a running scan?
    missed,   \* history, per browser: the latest run it will not see the end of
    heard     \* history, per browser: the latest run it has seen the end of

scanVars == <<run, phase, closing>>
pageVars == <<stream, ask, shown, heard>>
vars == <<scanVars, pageVars, queue, missed>>

Running == phase # "rest"
Quiet == [at |-> "quiet"]
Asking == [at |-> "asking"]
Answer(n, running) == [at |-> "answer", run |-> n, running |-> running]
Larger(a, b) == IF a < b THEN b ELSE a

Init == /\ run = 0 /\ phase = "rest" /\ closing = {}
        /\ stream = [b \in Browser |-> "none"]
        /\ queue = [b \in Browser |-> <<>>]
        /\ ask = [b \in Browser |-> Asking]
        /\ shown = [b \in Browser |-> FALSE]
        /\ missed = [b \in Browser |-> 0]
        /\ heard = [b \in Browser |-> 0]

-----------------------------------------------------------------------------
\* The scanner.

Fits(b) == stream[b] = "on" /\ Len(queue[b]) < Room

\* The runs whose end is in the channel.
Ends(b) == {queue[b][i].run : i \in {j \in DOMAIN queue[b] : queue[b][j].kind = "completed"}}

\* EventHub.Emit, under the hub's mutex.
Emit(e) == queue' = [b \in Browser |-> IF Fits(b) THEN Append(queue[b], e) ELSE queue[b]]

\* Start: scan_started is emitted before the mutex is released.
Start == /\ phase = "rest" /\ run < MaxRuns
         /\ run' = run + 1 /\ phase' = "sweep"
         /\ Emit([kind |-> "started", run |-> run'])
         /\ UNCHANGED <<closing, pageVars, missed>>

BugEmitting(n) == n = run /\ run > 0
\* Workers emit until the run has waited for them.
Emitting(n) == n = run /\ phase = "sweep"

Progress == /\ \E n \in 1 .. run : /\ Emitting(n)
                                   /\ Emit([kind |-> "progress", run |-> n])
            /\ UNCHANGED <<scanVars, pageVars, missed>>

Join == /\ phase = "sweep" /\ phase' = "close"
        /\ UNCHANGED <<run, closing, pageVars, queue, missed>>

\* s.status.Running = false, and the mutex is released.
Retire == /\ phase = "close" /\ phase' = "rest"
          /\ closing' = closing \cup {run}
          /\ UNCHANGED <<run, pageVars, queue, missed>>

\* The browser's view of the run is from before its end.
Behind(b) == \/ stream[b] # "on" /\ ask[b] # Asking
             \/ stream[b] = "on" /\ ~Fits(b)

Completed(n) == [kind |-> "completed", run |-> n]

\* s.events.Emit("scan_completed", st), after the row was written; the next
\* run may have started.
Complete == /\ \E n \in closing :
                  /\ closing' = closing \ {n}
                  /\ Emit(Completed(n))
                  /\ missed' = [b \in Browser |->
                                  IF Behind(b) THEN Larger(missed[b], n) ELSE missed[b]]
            /\ UNCHANGED <<run, phase, pageVars>>

\* The process ends and comes up again: hub and scan are gone, the browsers'
\* streams break.
Crash == /\ phase' = "rest" /\ closing' = {}
         /\ stream' = [b \in Browser |-> IF stream[b] = "on" THEN "broken" ELSE stream[b]]
         /\ queue' = [b \in Browser |-> <<>>]
         /\ missed' = [b \in Browser |->
                         IF Running \/ closing # {} \/ Ends(b) # {} THEN run ELSE missed[b]]
         /\ UNCHANGED <<run, ask, shown, heard>>

-----------------------------------------------------------------------------
\* The page.

\* app-bootstrap.js: the status is asked for, and shown before the stream is
\* connected.
Load(b) == /\ stream' = [stream EXCEPT ![b] = "none"]
           /\ queue' = [queue EXCEPT ![b] = <<>>]
           /\ ask' = [ask EXCEPT ![b] = Asking]
           /\ shown' = [shown EXCEPT ![b] = FALSE]
           /\ missed' = [missed EXCEPT ![b] = 0]
           /\ heard' = [heard EXCEPT ![b] = 0]
           /\ UNCHANGED scanVars

\* startScan: POST /api/scan has been answered, the status is asked for.
Button(b) == /\ ask[b] = Quiet /\ run > 0
             /\ ask' = [ask EXCEPT ![b] = Asking]
             /\ UNCHANGED <<scanVars, stream, queue, shown, missed, heard>>

\* GET /api/scan/status is served.
Serve(b) == /\ ask[b] = Asking
            /\ ask' = [ask EXCEPT ![b] = Answer(run, Running)]
            /\ UNCHANGED <<scanVars, stream, queue, shown, missed, heard>>

\* showProgress of the answer.  It may come after events that are newer.
Show(b) == /\ ask[b].at = "answer"
           /\ shown' = [shown EXCEPT ![b] = ask[b].running]
           /\ missed' = IF ask[b].running /\ heard[b] >= ask[b].run
                        THEN [missed EXCEPT ![b] = Larger(@, ask[b].run)] ELSE missed
           /\ ask' = [ask EXCEPT ![b] = Quiet]
           /\ UNCHANGED <<scanVars, stream, queue, heard>>

\* connectEvents, or EventSource connecting again on its own; nothing else is
\* done then.
Connect(b) == /\ \/ stream[b] = "none" /\ ask[b] = Quiet
                 \/ stream[b] = "broken"
              /\ stream' = [stream EXCEPT ![b] = "on"]
              /\ UNCHANGED <<scanVars, queue, ask, shown, missed, heard>>

\* The stream breaks; what is in the channel is lost.
Disconnect(b) ==
    /\ stream[b] = "on"
    /\ stream' = [stream EXCEPT ![b] = "broken"]
    /\ queue' = [queue EXCEPT ![b] = <<>>]
    /\ \E n \in Ends(b) \cup {0} :
          /\ \A k \in Ends(b) : k <= n
          /\ missed' = [missed EXCEPT ![b] = Larger(@, n)]
    /\ UNCHANGED <<scanVars, ask, shown, heard>>

\* onmessage: started and progress show a running scan, completed hides it.
Receive(b) ==
    /\ queue[b] # <<>>
    /\ LET e == Head(queue[b])  end == e.kind = "completed" IN
          /\ shown' = [shown EXCEPT ![b] = ~end]
          /\ heard' = [heard EXCEPT ![b] = IF end THEN Larger(@, e.run) ELSE @]
          /\ missed' = [missed EXCEPT ![b] = IF end /\ e.run >= @ THEN 0 ELSE @]
    /\ queue' = [queue EXCEPT ![b] = Tail(@)]
    /\ UNCHANGED <<scanVars, stream, ask>>

ScanStep == Start \/ Progress \/ Join \/ Retire \/ Complete \/ Crash
PageStep(b) == \/ Load(b) \/ Button(b) \/ Serve(b) \/ Show(b)
               \/ Connect(b) \/ Disconnect(b) \/ Receive(b)

Next == ScanStep \/ \E b \in Browser : PageStep(b)

Spec == Init /\ [][Next]_vars

-----------------------------------------------------------------------------

\* Every variable holds a value of its kind.
TypeOK ==
    /\ run \in 0 .. MaxRuns /\ phase \in {"rest", "sweep", "close"}
    /\ closing \subseteq 1 .. run
    /\ stream \in [Browser -> {"none", "on", "broken"}]
    /\ \A b \in Browser : Len(queue[b]) <= Room /\ (stream[b] # "on" => queue[b] = <<>>)
    /\ shown \in [Browser -> BOOLEAN]
    /\ missed \in [Browser -> 0 .. run] /\ heard \in [Browser -> 0 .. run]

\* Everything that is on its way to the browser has arrived.
Settled(b) == closing = {} /\ queue[b] = <<>> /\ ask[b] = Quiet

\* A page that shows a running scan when nothing is under way any more is
\* right, or it could not see the end of a run: the end found its channel
\* full, fell between its status and its stream or between two streams, was
\* overtaken by an older answer, or never came because the process ended.
\* Whatever else overtakes what, scans that follow each other included, the
\* display comes to rest.
ShownForCause == \A b \in Browser : Settled(b) /\ shown[b] => Running \/ missed[b] # 0
=============================================================================
