---------------------------- MODULE NetworkRange ----------------------------
(***************************************************************************)
(* From the CIDRs of a scan request to the addresses the workers get       *)
(* (internal/app/network.go: validateCIDR; internal/app/scanner.go: the    *)
(* loop of Start over the parts, the feeder loop of run, firstIP, nextIP,  *)
(* lastIP).                                                                *)
(*                                                                         *)
(* Addresses are the numbers of one private block.  The private blocks end *)
(* below 255.255.255.255, so the byte carry of nextIP never wraps and is   *)
(* the addition of one.                                                    *)
(*                                                                         *)
(* ParseCIDR accepts IPv4 addresses written in the IPv6 form, and To4 of   *)
(* such an address is not nil, so validateCIDR accepts them too.  With a   *)
(* prefix of 96 bits or more they name an IPv4 network, under a mask of 16 *)
(* bytes.  With one of 65 bits or fewer they name the network "::", which  *)
(* holds no IPv4 address, and whose count overflows an int of 64 bits: it  *)
(* is the least int or zero, and under every limit.  (The prefixes between *)
(* count more than the limit, as an IPv4 network can.)                     *)
(*                                                                         *)
(* Bug... operators are faulty forms of the definition below them.         *)
(***************************************************************************)
EXTENDS Integers, Sequences, FiniteSets

CONSTANTS
    Block,     \* addresses of the private block
    Sizes,     \* addresses of a network, 1 << (32 - ones) in the code
    MaxCount,  \* addresses a CIDR may hold, 1024 in the code
    MaxNets,   \* parts of a request, 8 in the code
    MaxTotal,  \* addresses of a request, 65536 in the code
    MostInt    \* the largest int, 1<<63 - 1 in the code

\* Powers of two divide the block.
RangeAssumption == /\ Block \in Nat \ {0}
                   /\ \A s \in Sizes : s \in Nat \ {0} /\ Block % s = 0
                   /\ MaxNets \in Nat \ {0}
                   /\ MostInt \in Nat

VARIABLES
    nets,     \* networks accepted so far, in order
    total,    \* addresses validateCIDR has counted
    verdict,  \* of Start: still parsing, rejected, or scanning
    turn,     \* index of the network the feeder iterates
    ip,       \* its loop variable
    sent      \* addresses handed to the workers, in order

vars == <<nets, total, verdict, turn, ip, sent>>

Addr == 0 .. Block - 1

\* What 1 << 63 is as an int.
LeastInt == -MostInt - 1

\* A network: how it was written, its lowest address and how many it holds.
Net == {n \in [kind : {"v4", "mapped"}, base : Addr, size : Sizes] :
          n.base % n.size = 0}
       \cup [kind : {"wide"}, base : {0}, size : {0, LeastInt}]

\* IPNet.Contains: the masked address is the network's.
Contains(n, a) == n.kind # "wide" /\ a - (a % n.size) = n.base

Span(n) == {a \in Addr : Contains(n, a)}

\* The count validateCIDR returns.
Count(n) == IF n.size >= 4 THEN n.size - 2 ELSE n.size

FirstIP(n) == n.base + 1
\* The base is filled up by the first four bytes of the mask, which are all
\* ones in a mask of 16 bytes: then the last address is the base.
LastIP(n) == IF n.kind = "v4" THEN n.base + n.size - 1 ELSE n.base

BugOverlaps(n, m) == n.kind # "wide" /\ Contains(m, n.base)
\* existing.Contains(n.IP) || n.Contains(existing.IP).  The wide networks all
\* have the base "::" and lie in each other.
Overlaps(n, m) ==
    IF n.kind = "wide" THEN m.kind = "wide"
    ELSE m.kind # "wide" /\ (Contains(m, n.base) \/ Contains(n, m.base))

Init == /\ nets = <<>> /\ total = 0
        /\ verdict = "parsing"
        /\ turn = 1 /\ ip = 0
        /\ sent = <<>>

\* One part of the request: the network is taken, or Start returns an error.
Part(n) ==
    /\ verdict = "parsing"
    /\ Len(nets) < MaxNets
    /\ IF \/ n.size > MaxCount
          \/ \E i \in DOMAIN nets : Overlaps(n, nets[i])
       THEN verdict' = "rejected" /\ UNCHANGED <<nets, total>>
       ELSE /\ nets'  = Append(nets, n)
            /\ total' = total + Count(n)
            /\ UNCHANGED verdict
    /\ UNCHANGED <<turn, ip, sent>>

\* All parts are read: Start spawns run, whose feeder begins.
Launch ==
    /\ verdict = "parsing"
    /\ IF nets = <<>> \/ total > MaxTotal
       THEN verdict' = "rejected" /\ UNCHANGED ip
       ELSE verdict' = "scanning" /\ ip' = FirstIP(nets[1])
    /\ UNCHANGED <<nets, total, turn, sent>>

Feeding == verdict = "scanning" /\ turn <= Len(nets)

BugInside(n, a) == a # LastIP(n)
\* The condition of the inner loop.
Inside(n, a) == Contains(n, a) /\ a # LastIP(n)

Queued(a) == \E i \in DOMAIN sent : sent[i] = a

\* An iteration: the address is sent unless it was queued before.  (The
\* bound Block + 2 is the model's; no iteration gets there.)
Iterate ==
    /\ Feeding /\ Inside(nets[turn], ip) /\ ip < Block + 2
    /\ sent' = IF Queued(ip) THEN sent ELSE Append(sent, ip)
    /\ ip'   = ip + 1
    /\ UNCHANGED <<nets, total, verdict, turn>>

\* The inner loop ends; the next network begins.
NextNet ==
    /\ Feeding /\ ~Inside(nets[turn], ip)
    /\ turn' = turn + 1
    /\ ip' = IF turn < Len(nets) THEN FirstIP(nets[turn + 1]) ELSE 0
    /\ UNCHANGED <<nets, total, verdict, sent>>

Next == (\E n \in Net : Part(n)) \/ Launch \/ Iterate \/ NextNet

Spec == Init /\ [][Next]_vars

FairSpec == Spec /\ WF_vars(Iterate \/ NextNet)

-----------------------------------------------------------------------------

Done == verdict = "scanning" /\ turn > Len(nets)

\* The addresses a request stands for, and those its feeder should send.
Spans == UNION {Span(nets[i]) : i \in DOMAIN nets}
EndsOf(n) == CASE n.kind = "v4"     -> {n.base, n.base + n.size - 1}
               [] n.kind = "mapped" -> {n.base}
               [] n.kind = "wide"   -> {}
Ends == UNION {EndsOf(nets[i]) : i \in DOMAIN nets}

Mapped == {i \in DOMAIN nets : nets[i].kind = "mapped"}

\* Every variable holds a value of its kind.
TypeOK == /\ nets \in Seq(Net) /\ Len(nets) <= MaxNets
          /\ total \in Int
          /\ verdict \in {"parsing", "rejected", "scanning"}
          /\ turn \in 1 .. MaxNets + 1
          /\ ip \in 0 .. Block + 1
          /\ sent \in Seq(Addr)

\* When the feeder is through it has sent every address of the request but
\* the network and broadcast addresses, each exactly once (comparing base
\* addresses is enough to keep overlapping networks out); of a network in the
\* IPv6 form the broadcast address is sent as well.  For networks of four
\* addresses or more that is the total the user's progress ends at, and one
\* more for every network in the IPv6 form.
FedOnce == Done =>
    /\ {sent[i] : i \in DOMAIN sent} = Spans \ Ends
    /\ Len(sent) = Cardinality(Spans \ Ends)
    /\ (\A i \in DOMAIN nets : nets[i].size >= 4)
       => Len(sent) = total + Cardinality(Mapped)

\* The feeder comes to an end, for networks of one or two addresses too.
FeederEnds == verdict = "scanning" ~> Done

-----------------------------------------------------------------------------
\* What the code's own words say and the code does not do.

\* The comment beside validateCIDR's count: "network and broadcast addresses
\* are never probe targets".
HostsOnly == \A i \in DOMAIN sent, j \in DOMAIN nets :
    nets[j].size >= 4
    => sent[i] \notin {nets[j].base, nets[j].base + nets[j].size - 1}
=============================================================================
