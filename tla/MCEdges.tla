------------------------------ MODULE MCEdges -------------------------------
(***************************************************************************)
(* Three parts on the edge of the program that share nothing: the          *)
(* addresses of a scan request, an mDNS answer, and events on their way to *)
(* a browser.  A behaviour is one of the first, the second or the third.   *)
(***************************************************************************)
EXTENDS Naturals, Sequences

CONSTANTS Block, Sizes, MaxCount, MaxNets, MaxTotal, MostInt,
          Byte, MaxLen, MaxItems, MaxDepth, Pointer, Ptr,
          Browser, Room, MaxRuns

VARIABLES part,
          nets, total, verdict, turn, ip, sent,
          message, questions, records, stage, name, resume, found, reach,
          run, phase, closing, stream, queue, ask, shown, missed, heard

Ranges == INSTANCE NetworkRange
Dns    == INSTANCE DnsName
Hub    == INSTANCE EventHub

ASSUME RangeOK == Ranges!RangeAssumption
ASSUME DnsOK == Dns!DnsAssumption
ASSUME HubOK == Hub!HubAssumption

rangeVars == <<nets, total, verdict, turn, ip, sent>>
dnsVars == <<message, questions, records, stage, name, resume, found, reach>>
hubVars == <<run, phase, closing, stream, queue, ask, shown, missed, heard>>
vars == <<part, rangeVars, dnsVars, hubVars>>

Init == /\ part \in {"range", "dns", "hub"}
        /\ Ranges!Init /\ Dns!Init /\ Hub!Init
        /\ part # "dns" => message = <<>> /\ questions = 0 /\ records = 0

RangeNext == part = "range" /\ Ranges!Next /\ UNCHANGED <<part, dnsVars, hubVars>>
DnsNext == part = "dns" /\ Dns!Next /\ UNCHANGED <<part, rangeVars, hubVars>>
HubNext == part = "hub" /\ Hub!Next /\ UNCHANGED <<part, rangeVars, dnsVars>>

Next == RangeNext \/ DnsNext \/ HubNext

\* The feeder and the reading of a message are fair, as in the modules' own
\* FairSpec; the part is settled at the start, so one condition states both.
Feed == /\ part = "range" /\ (Ranges!Iterate \/ Ranges!NextNet)
        /\ UNCHANGED <<part, dnsVars, hubVars>>

FairSpec == Init /\ [][Next]_vars /\ WF_vars(Feed \/ DnsNext)

\* The workers get every host address exactly once (the feeder of run).
FedOnce == Ranges!FedOnce
\* Refuted: no network or broadcast address is a probe target (validateCIDR).
HostsOnly == Ranges!HostsOnly
\* The feeder comes to an end.
FeederEnds == Ranges!FeederEnds
\* No byte beyond the end of a message is asked for (dnsName).
ReadsInside == Dns!ReadsInside
\* Every message is read to an end (dnsName, parseMDNSPTRRecords).
ReadingEnds == Dns!ReadingEnds
\* A page shows a scan that is not there only if its end could not reach it
\* (EventHub, showProgress).
ShownForCause == Hub!ShownForCause
=============================================================================
