---------------------------- MODULE EdgesProofs -----------------------------
(***************************************************************************)
(* Theorems about the parts on the edge of the program: which addresses    *)
(* the workers get, which bytes of a message are read, and what a page     *)
(* shows.  For any block and sizes that divide it, any number of networks, *)
(* messages of any length over any set of bytes that DnsAssumption allows, *)
(* any number of pages and any room in a channel.                          *)
(***************************************************************************)
EXTENDS MCEdges, Integers, FiniteSetTheorems, TLAPS

-----------------------------------------------------------------------------
\* Division.

LEMMA Multiples ==
    ASSUME NEW p \in Int, NEW q \in Int, NEW s \in Nat \ {0}, p < q
    PROVE  s * q >= s * p + s
<1>1. q - p >= 1 /\ q - p \in Int
  OBVIOUS
<1>2. s * (q - p) >= s
  BY <1>1
<1>3. s * (q - p) = s * q - s * p
  OBVIOUS
<1> QED BY <1>2, <1>3

LEMMA DivMod ==
    ASSUME NEW a \in Int, NEW s \in Nat \ {0}
    PROVE  /\ a \div s \in Int /\ a % s \in 0 .. s - 1
           /\ a = s * (a \div s) + (a % s)
OBVIOUS

\* Masking an address yields the base of the network it lies in.
LEMMA Masked ==
    ASSUME NEW a \in Int, NEW s \in Nat \ {0}, NEW b \in Int, b % s = 0
    PROVE  a - (a % s) = b <=> a \in b .. b + s - 1
<1> DEFINE p == a \div s
           q == b \div s
<1>1. /\ p \in Int /\ a = s * p + (a % s) /\ a % s \in 0 .. s - 1
      /\ q \in Int /\ b = s * q
  BY DivMod
<1> HIDE DEF p, q
<1>2. p < q => s * q >= s * p + s
  BY <1>1, Multiples
<1>3. q < p => s * p >= s * q + s
  BY <1>1, Multiples
<1>4. s * p \in Int /\ s * q \in Int
  BY <1>1
<1>5. CASE p = q
  BY <1>1, <1>5
<1>6. CASE p < q
  BY <1>1, <1>2, <1>4, <1>6
<1>7. CASE q < p
  BY <1>1, <1>3, <1>4, <1>7
<1> QED BY <1>1, <1>5, <1>6, <1>7

\* A multiple below another is below it by as much as they are multiples of.
LEMMA MultipleFits ==
    ASSUME NEW b \in Int, NEW c \in Int, NEW s \in Nat \ {0},
           b % s = 0, c % s = 0, b < c
    PROVE  b + s <= c
<1> DEFINE p == b \div s
           q == c \div s
<1>1. p \in Int /\ b = s * p /\ q \in Int /\ c = s * q
  BY DivMod
<1> HIDE DEF p, q
<1>2. s * p \in Int /\ s * q \in Int
  BY <1>1
<1>3. q < p => s * p >= s * q + s
  BY <1>1, Multiples
<1>4. p # q
  BY <1>1
<1>5. p < q
  BY <1>1, <1>2, <1>3, <1>4
<1> QED BY <1>1, <1>5, Multiples

-----------------------------------------------------------------------------
\* The addresses of a request.

LEMMA SameSets ==
    ASSUME NEW S
    PROVE  Ranges!Cardinality(S) = Cardinality(S)
BY DEF Ranges!IsFiniteSet, IsFiniteSet, Ranges!Cardinality, Cardinality

\* The last address of a network that the workers get, its base if there is none.
Top(n) == CASE n.kind = "v4"     -> IF n.size >= 2 THEN n.base + n.size - 2 ELSE n.base
            [] n.kind = "mapped" -> n.base + n.size - 1
            [] n.kind = "wide"   -> n.base

\* A network lies in the block.
LEMMA NetInBlock ==
    ASSUME NEW n \in Ranges!Net
    PROVE  /\ n.kind \in {"v4", "mapped", "wide"} /\ n.base \in Nat /\ n.base < Block
           /\ n.size \in Int /\ Block \in Nat
           /\ n.kind # "wide" => /\ n.size \in Nat \ {0} /\ n.base % n.size = 0
                                 /\ n.base + n.size <= Block
           /\ n.kind = "wide" => n.size <= 0
<1>1. CASE n.kind # "wide"
  <2>1. /\ n.base \in 0 .. Block - 1 /\ n.size \in Sizes /\ n.base % n.size = 0
        /\ n.kind \in {"v4", "mapped"}
    BY <1>1 DEF Ranges!Net, Ranges!Addr
  <2>2. Block \in Nat \ {0} /\ n.size \in Nat \ {0} /\ Block % n.size = 0
    BY <2>1, RangeOK DEF Ranges!RangeAssumption
  <2>3. n.base \in Int /\ n.base < Block
    BY <2>1, <2>2
  <2> QED BY <1>1, <2>1, <2>2, <2>3, MultipleFits
<1>2. CASE n.kind = "wide"
  <2>1. n.base = 0 /\ n.size \in {0, Ranges!LeastInt}
    BY <1>2 DEF Ranges!Net
  <2> QED BY <1>2, <2>1, RangeOK DEF Ranges!RangeAssumption, Ranges!LeastInt
<1> QED BY <1>1, <1>2

\* IPNet.Contains is membership in an interval.
LEMMA ContainsInterval ==
    ASSUME NEW n \in Ranges!Net, n.kind # "wide", NEW a \in Int
    PROVE  Ranges!Contains(n, a) <=> a \in n.base .. n.base + n.size - 1
<1>1. n.base \in Int /\ n.size \in Nat \ {0} /\ n.base % n.size = 0
  BY NetInBlock
<1> QED BY <1>1, Masked DEF Ranges!Contains

\* Where the top of a network lies.
LEMMA TopFacts ==
    ASSUME NEW n \in Ranges!Net
    PROVE  /\ n.base \in Nat /\ Top(n) \in Nat /\ n.base <= Top(n)
           /\ Block \in Nat /\ Top(n) < Block
           /\ n.kind # "wide" => Top(n) <= n.base + n.size - 1
BY NetInBlock DEF Top

\* The inner loop goes on up to the top.
LEMMA InsideTop ==
    ASSUME NEW n \in Ranges!Net, NEW a \in Int, a > n.base
    PROVE  Ranges!Inside(n, a) <=> a <= Top(n)
<1>1. CASE n.kind = "wide"
  BY <1>1, NetInBlock DEF Ranges!Inside, Ranges!Contains, Top
<1>2. CASE n.kind # "wide"
  <2>1. /\ n.base \in Nat /\ n.size \in Nat \ {0} /\ n.kind \in {"v4", "mapped"}
    BY <1>2, NetInBlock
  <2>2. Ranges!Contains(n, a) <=> a \in n.base .. n.base + n.size - 1
    BY <1>2, ContainsInterval
  <2> QED BY <2>1, <2>2 DEF Ranges!Inside, Ranges!LastIP, Top
<1> QED BY <1>1, <1>2

\* The addresses of a network that the workers get, and those of the first k.
Inner(n) == n.base + 1 .. Top(n)
InnersTo(k) == UNION {Inner(nets[i]) : i \in 1 .. k}

\* No two networks of the request overlap.
Apart == \A i, j \in DOMAIN nets :
           i # j /\ nets[i].kind # "wide" /\ nets[j].kind # "wide"
           => \/ nets[i].base + nets[i].size <= nets[j].base
              \/ nets[j].base + nets[j].size <= nets[i].base

\* The total counts them, if the networks have a network and a broadcast address,
\* but for the one that is sent of a network in the IPv6 form.
Counted == (\A i \in DOMAIN nets : nets[i].size >= 4)
           => total + Cardinality(Ranges!Mapped) = Cardinality(InnersTo(Len(nets)))

Sent == {sent[i] : i \in DOMAIN sent}

\* What has been sent are the inner addresses of the networks before the turn,
\* and of the one whose turn it is those below the loop variable.
Progressed ==
    /\ verdict # "scanning" => sent = <<>> /\ turn = 1
    /\ verdict = "scanning" => turn \in 1 .. Len(nets) + 1
    /\ \A i, j \in DOMAIN sent : sent[i] = sent[j] => i = j
    /\ Ranges!Feeding =>
         LET n == nets[turn]
         IN  /\ ip > n.base /\ ip <= Top(n) + 1
             /\ Sent = InnersTo(turn - 1) \cup (n.base + 1 .. ip - 1)
    /\ Ranges!Done => Sent = InnersTo(Len(nets))

Fed == Ranges!TypeOK /\ Apart /\ Counted /\ Progressed

LEMMA InnersFinite ==
    ASSUME nets \in Seq(Ranges!Net), NEW k \in 0 .. Len(nets)
    PROVE  IsFiniteSet(InnersTo(k)) /\ InnersTo(k) \subseteq Ranges!Addr
<1>1. ASSUME NEW i \in 1 .. k PROVE Inner(nets[i]) \subseteq Ranges!Addr
  <2> DEFINE n == nets[i]
  <2>1. n \in Ranges!Net
    OBVIOUS
  <2>2. n.base \in Nat /\ Top(n) \in Nat /\ Top(n) < Block /\ Block \in Nat
    BY <2>1, TopFacts
  <2> HIDE DEF n
  <2>3. n.base + 1 .. Top(n) \subseteq 0 .. Block - 1
    BY <2>2
  <2> QED BY <2>3 DEF n, Inner, Ranges!Addr
<1>2. InnersTo(k) \subseteq Ranges!Addr
  BY <1>1 DEF InnersTo
<1>3. IsFiniteSet(Ranges!Addr)
  <2>1. Block - 1 \in Int
    BY RangeOK DEF Ranges!RangeAssumption
  <2> QED BY <2>1, FS_Interval DEF Ranges!Addr
<1> QED BY <1>2, <1>3, FS_Subset

\* The networks in the IPv6 form, counted.
LEMMA MappedTyped ==
    ASSUME nets \in Seq(Ranges!Net)
    PROVE  IsFiniteSet(Ranges!Mapped) /\ Cardinality(Ranges!Mapped) \in Nat
<1>1. DOMAIN nets = 1 .. Len(nets) /\ Len(nets) \in Nat
  OBVIOUS
<1>2. IsFiniteSet(1 .. Len(nets))
  BY <1>1, FS_Interval
<1>3. Ranges!Mapped \subseteq 1 .. Len(nets)
  BY <1>1 DEF Ranges!Mapped
<1> QED BY <1>2, <1>3, FS_Subset, FS_CardinalityType

\* A part of the request is taken or refused.
LEMMA PartKeeps ==
    ASSUME Fed, NEW n \in Ranges!Net, Ranges!Part(n)
    PROVE  Fed'
<1>1. /\ nets \in Seq(Ranges!Net) /\ Len(nets) < MaxNets /\ Len(nets) \in Nat /\ total \in Int
      /\ verdict = "parsing" /\ UNCHANGED <<turn, ip, sent>>
      /\ turn = 1 /\ sent = <<>>
  BY DEF Fed, Ranges!TypeOK, Ranges!Part, Progressed
<1>2. CASE verdict' = "rejected" /\ UNCHANGED <<nets, total>>
  BY <1>1, <1>2 DEF Fed, Ranges!TypeOK, Apart, Counted, InnersTo, Progressed,
                    Ranges!Mapped, Ranges!Feeding, Ranges!Done
<1>3. CASE /\ \A i \in DOMAIN nets : ~Ranges!Overlaps(n, nets[i])
           /\ nets' = Append(nets, n) /\ total' = total + Ranges!Count(n) /\ UNCHANGED verdict
  <2> DEFINE m == Len(nets) + 1
  <2>1. /\ nets' \in Seq(Ranges!Net) /\ Len(nets') = m /\ nets'[m] = n
        /\ DOMAIN nets = 1 .. Len(nets) /\ DOMAIN nets' = 1 .. m
        /\ \A i \in DOMAIN nets : nets'[i] = nets[i] /\ nets[i] \in Ranges!Net
    BY <1>1, <1>3
  <2>3. ASSUME NEW i \in DOMAIN nets, nets[i].kind # "wide", n.kind # "wide"
        PROVE  \/ nets[i].base + nets[i].size <= n.base
               \/ n.base + n.size <= nets[i].base
    <3> DEFINE o == nets[i]
    <3>1. o \in Ranges!Net /\ o.kind # "wide"
      BY <2>1, <2>3
    <3>2. ~Ranges!Contains(o, n.base) /\ ~Ranges!Contains(n, o.base)
      BY <1>3, <2>3 DEF Ranges!Overlaps
    <3> HIDE DEF o
    <3>3. /\ n.base \in Nat /\ n.size \in Nat \ {0}
          /\ o.base \in Nat /\ o.size \in Nat \ {0}
      BY <2>3, <3>1, NetInBlock
    <3>4. ~(n.base \in o.base .. o.base + o.size - 1) /\ ~(o.base \in n.base .. n.base + n.size - 1)
      BY <2>3, <3>1, <3>2, <3>3, ContainsInterval
    <3>5. \/ o.base + o.size <= n.base
          \/ n.base + n.size <= o.base
      BY <3>3, <3>4
    <3> QED BY <3>5 DEF o
  <2>m. m \in Nat /\ m = Len(nets) + 1
    BY <1>1
  <2> HIDE DEF m
  <2>4. Apart'
    <3> SUFFICES ASSUME NEW i \in 1 .. m, NEW j \in 1 .. m, i # j,
                        nets'[i].kind # "wide", nets'[j].kind # "wide"
                 PROVE  \/ nets'[i].base + nets'[i].size <= nets'[j].base
                        \/ nets'[j].base + nets'[j].size <= nets'[i].base
      BY <2>1 DEF Apart
    <3>1. /\ (i \in DOMAIN nets /\ nets'[i] = nets[i]) \/ (i = m /\ nets'[i] = n)
          /\ (j \in DOMAIN nets /\ nets'[j] = nets[j]) \/ (j = m /\ nets'[j] = n)
      BY <1>1, <2>1, <2>m
    <3> QED BY <2>3, <3>1 DEF Fed, Apart
  <2> DEFINE T == UNION {Inner(nets'[i]) : i \in 1 .. m}
  <2>5. T = InnersTo(Len(nets)) \cup Inner(n)
    <3>1. 1 .. m = 1 .. Len(nets) \cup {m}
      BY <1>1, <2>m
    <3>2. T = UNION {Inner(nets'[i]) : i \in 1 .. Len(nets) \cup {m}}
      BY <3>1
    <3>3. {Inner(nets'[i]) : i \in 1 .. Len(nets) \cup {m}}
          = {Inner(nets[i]) : i \in 1 .. Len(nets)} \cup {Inner(n)}
      BY <2>1
    <3> QED BY <3>2, <3>3 DEF InnersTo
  <2>6. Counted'
    <3> DEFINE more == IF n.kind = "mapped" THEN 1 ELSE 0
               M == {i \in 1 .. m : nets'[i].kind = "mapped"}
    <3> SUFFICES ASSUME \A i \in 1 .. m : nets'[i].size >= 4
                 PROVE  total' + Cardinality(M) = Cardinality(T)
      BY <2>1 DEF Counted, InnersTo, Inner, Ranges!Mapped
    <3> HIDE DEF T
    <3>1. n.size >= 4 /\ \A i \in DOMAIN nets : nets[i].size >= 4
      BY <1>1, <2>1, <2>m
    <3>2. total + Cardinality(Ranges!Mapped) = Cardinality(InnersTo(Len(nets)))
      BY <3>1 DEF Fed, Counted
    <3>3. IsFiniteSet(InnersTo(Len(nets)))
      BY <1>1, InnersFinite
    <3>4. /\ n.kind \in {"v4", "mapped"} /\ n.base \in Nat /\ n.size \in Nat
          /\ Top(n) = n.base + n.size - 2 + more /\ more \in {0, 1}
      BY <3>1, NetInBlock DEF Top
    <3>4a. Cardinality(M) = Cardinality(Ranges!Mapped) + more
      <4>1. IsFiniteSet(Ranges!Mapped) /\ Cardinality(Ranges!Mapped) \in Nat
        BY <1>1, MappedTyped
      <4>2. m \notin Ranges!Mapped
        BY <1>1, <2>1, <2>m DEF Ranges!Mapped
      <4>3. CASE n.kind = "mapped"
        <5>1. M = Ranges!Mapped \cup {m}
          BY <1>1, <2>1, <2>m, <4>3 DEF Ranges!Mapped
        <5>2. Cardinality(M) = Cardinality(Ranges!Mapped) + 1
          BY <4>1, <4>2, <5>1, FS_AddElement
        <5> QED BY <4>3, <5>2
      <4>4. CASE n.kind # "mapped"
        <5>1. M = Ranges!Mapped
          BY <1>1, <2>1, <2>m, <4>4 DEF Ranges!Mapped
        <5> QED BY <4>1, <4>4, <5>1
      <4> QED BY <4>3, <4>4
    <3> HIDE DEF more, M
    <3>5. IsFiniteSet(Inner(n)) /\ Cardinality(Inner(n)) = n.size - 2 + more
      <4>1. /\ Top(n) - (n.base + 1) + 1 = n.size - 2 + more
            /\ ~(n.base + 1 > Top(n)) /\ n.base + 1 \in Int /\ Top(n) \in Int
        BY <3>1, <3>4
      <4> QED BY <4>1, FS_Interval DEF Inner
    <3>6. InnersTo(Len(nets)) \cap Inner(n) = {}
      <4> SUFFICES ASSUME NEW i \in 1 .. Len(nets), NEW a \in Inner(nets[i]), a \in Inner(n)
                   PROVE  FALSE
        BY DEF InnersTo
      <4>1. i \in DOMAIN nets
        BY <2>1
      <4> DEFINE o == nets[i]
      <4>2. o \in Ranges!Net /\ o.size >= 4
        BY <2>1, <3>1, <4>1
      <4>3. /\ o.kind # "wide" /\ o.base \in Nat /\ o.size \in Nat
            /\ Top(o) \in Nat /\ Top(o) <= o.base + o.size - 1
        BY <4>2, NetInBlock, TopFacts
      <4>4. o.base + o.size <= n.base \/ n.base + n.size <= o.base
        BY <2>3, <3>4, <4>1, <4>3
      <4>5. a \in o.base + 1 .. Top(o) /\ a \in n.base + 1 .. Top(n)
        BY DEF Inner
      <4> HIDE DEF o
      <4>6. /\ a \in Int /\ o.base + 1 <= a /\ a <= o.base + o.size - 1
            /\ n.base + 1 <= a /\ a <= n.base + n.size - 1
        <5>1. n.base \in Nat /\ n.size \in Nat /\ Top(n) \in Nat /\ Top(n) <= n.base + n.size - 1
          BY <3>4, TopFacts
        <5>2. /\ a \in Int /\ o.base + 1 <= a /\ a <= Top(o)
              /\ n.base + 1 <= a /\ a <= Top(n)
          BY <4>3, <4>5, <5>1
        <5> QED BY <4>3, <5>1, <5>2
      <4>7. n.base \in Int /\ n.size \in Int /\ o.base \in Int /\ o.size \in Int
        BY <3>4, <4>3
      <4>8. CASE o.base + o.size <= n.base
        BY <4>6, <4>7, <4>8
      <4>9. CASE n.base + n.size <= o.base
        BY <4>6, <4>7, <4>9
      <4> QED BY <4>4, <4>8, <4>9
    <3>7. Cardinality({}) = 0
      BY FS_EmptySet
    <3>8. Cardinality(T) = Cardinality(InnersTo(Len(nets))) + (n.size - 2 + more)
      <4>1. Cardinality(InnersTo(Len(nets)) \cup Inner(n))
            = Cardinality(InnersTo(Len(nets))) + (n.size - 2 + more) - 0
        BY <3>3, <3>5, <3>6, <3>7, FS_Union
      <4>2. Cardinality(InnersTo(Len(nets))) \in Nat
        BY <3>3, FS_CardinalityType
      <4> QED BY <2>5, <3>4, <4>1, <4>2
    <3>9. total' = total + (n.size - 2)
      BY <1>3, <3>1, <3>4 DEF Ranges!Count
    <3>10. Cardinality(Ranges!Mapped) \in Nat
      BY <1>1, MappedTyped
    <3> QED BY <1>1, <3>2, <3>4, <3>8, <3>4a, <3>9, <3>10
  <2>7. Ranges!TypeOK'
    <3>1. Ranges!Count(n) \in Int
      BY NetInBlock DEF Ranges!Count
    <3>2. Len(nets') <= MaxNets
      BY <1>1, <2>1, <2>m, RangeOK DEF Ranges!RangeAssumption
    <3> QED BY <1>1, <1>3, <2>1, <3>1, <3>2 DEF Fed, Ranges!TypeOK
  <2> QED BY <1>1, <1>3, <2>4, <2>6, <2>7 DEF Fed, Progressed, Ranges!Feeding, Ranges!Done
<1> QED BY <1>2, <1>3 DEF Ranges!Part

\* The parts are read: the request is refused, or its feeder begins.
LEMMA LaunchKeeps ==
    ASSUME Fed, Ranges!Launch
    PROVE  Fed'
<1>1. /\ nets \in Seq(Ranges!Net) /\ Len(nets) \in Nat /\ Len(nets) <= MaxNets
      /\ UNCHANGED <<nets, total, turn, sent>> /\ turn = 1 /\ sent = <<>>
  BY DEF Fed, Ranges!TypeOK, Ranges!Launch, Progressed
<1>2. Apart' /\ Counted'
  BY <1>1 DEF Fed, Apart, Counted, InnersTo, Inner, Ranges!Mapped
<1>3. CASE verdict' = "rejected" /\ UNCHANGED ip
  BY <1>1, <1>2, <1>3 DEF Fed, Ranges!TypeOK, Progressed, Ranges!Feeding, Ranges!Done
<1>4. CASE nets # <<>> /\ verdict' = "scanning" /\ ip' = Ranges!FirstIP(nets[1])
  <2> DEFINE n == nets[1]
  <2>1. Len(nets) >= 1 /\ n \in Ranges!Net
    BY <1>1, <1>4
  <2>2. /\ n.base \in Nat /\ Top(n) \in Nat /\ n.base <= Top(n)
        /\ Top(n) < Block /\ Block \in Nat
    BY <2>1, TopFacts
  <2>3. ip' = n.base + 1
    BY <1>4 DEF Ranges!FirstIP
  <2>4. Sent' = {} /\ InnersTo(turn - 1)' = {}
    <3>1. DOMAIN sent = {}
      BY <1>1
    <3>2. turn' - 1 = 0
      BY <1>1
    <3> QED BY <1>1, <3>1, <3>2 DEF Sent, InnersTo
  <2> HIDE DEF n
  <2>5. n.base + 1 .. ip' - 1 = {}
    BY <2>2, <2>3
  <2>6. ip' > n.base /\ ip' <= Top(n) + 1 /\ ip' \in 0 .. Block + 1
    BY <2>2, <2>3
  <2>7. Ranges!TypeOK'
    BY <1>1, <1>4, <2>6 DEF Fed, Ranges!TypeOK
  <2>8. Progressed'
    <3>1. ~Ranges!Done'
      BY <1>1, <2>1 DEF Ranges!Done
    <3>2. nets'[turn'] = n
      BY <1>1 DEF n
    <3>3. turn' \in 1 .. Len(nets') + 1
      BY <1>1
    <3>4. \A i, j \in DOMAIN sent' : sent'[i] = sent'[j] => i = j
      BY <1>1
    <3>5. Sent' = InnersTo(turn - 1)' \cup (n.base + 1 .. ip' - 1)
      BY <2>4, <2>5
    <3> QED BY <1>4, <2>6, <3>1, <3>2, <3>3, <3>4, <3>5 DEF Progressed
  <2> QED BY <1>2, <2>7, <2>8 DEF Fed
<1> QED BY <1>3, <1>4 DEF Ranges!Launch

\* An address is sent.
LEMMA IterateKeeps ==
    ASSUME Fed, Ranges!Iterate
    PROVE  Fed'
<1> DEFINE n == nets[turn]
<1>1. /\ nets \in Seq(Ranges!Net) /\ Len(nets) \in Nat /\ sent \in Seq(Ranges!Addr)
      /\ UNCHANGED <<nets, total, verdict, turn>>
      /\ turn \in 1 .. Len(nets) + 1 /\ turn <= Len(nets) /\ verdict = "scanning"
      /\ ip \in Int /\ ip' = ip + 1 /\ Ranges!Feeding
      /\ sent' = IF Ranges!Queued(ip) THEN sent ELSE Append(sent, ip)
  BY RangeOK DEF Fed, Ranges!TypeOK, Ranges!RangeAssumption, Ranges!Iterate, Ranges!Feeding, Progressed
<1>2. n \in Ranges!Net
  BY <1>1
<1>3. n.base \in Nat /\ Top(n) \in Nat /\ Top(n) < Block /\ Block \in Nat
  BY <1>2, TopFacts
<1>4. /\ ip > n.base
      /\ Sent = InnersTo(turn - 1) \cup (n.base + 1 .. ip - 1)
  BY <1>1 DEF Fed, Progressed
<1>5. ip <= Top(n)
  BY <1>1, <1>2, <1>4, InsideTop DEF Ranges!Iterate
<1>6. Apart' /\ Counted'
  BY <1>1 DEF Fed, Apart, Counted, InnersTo, Inner, Ranges!Mapped
<1> HIDE DEF n
<1>7. ip \in Ranges!Addr /\ ip' \in 0 .. Block + 1
  BY <1>1, <1>3, <1>5, <1>4 DEF Ranges!Addr
<1>8. /\ sent' \in Seq(Ranges!Addr)
      /\ Sent' = Sent \cup {ip}
      /\ \A i, j \in DOMAIN sent' : sent'[i] = sent'[j] => i = j
  <2>1. \A i, j \in DOMAIN sent : sent[i] = sent[j] => i = j
    BY DEF Fed, Progressed
  <2>2. CASE Ranges!Queued(ip)
    BY <1>1, <2>1, <2>2 DEF Ranges!Queued, Sent
  <2>3. CASE ~Ranges!Queued(ip)
    <3>1. sent' = Append(sent, ip) /\ \A i \in DOMAIN sent : sent[i] # ip
      BY <1>1, <2>3 DEF Ranges!Queued
    <3>2. /\ sent' \in Seq(Ranges!Addr) /\ Len(sent) \in Nat
          /\ DOMAIN sent = 1 .. Len(sent) /\ DOMAIN sent' = 1 .. Len(sent) + 1
          /\ sent'[Len(sent) + 1] = ip /\ \A i \in DOMAIN sent : sent'[i] = sent[i]
      BY <1>1, <1>7, <3>1
    <3>3. DOMAIN sent' = DOMAIN sent \cup {Len(sent) + 1}
      BY <3>2
    <3>4. Sent' = Sent \cup {ip}
      BY <3>2, <3>3 DEF Sent
    <3>5. \A i, j \in DOMAIN sent' : sent'[i] = sent'[j] => i = j
      BY <2>1, <3>1, <3>2, <3>3
    <3> QED BY <3>2, <3>4, <3>5
  <2> QED BY <2>2, <2>3
<1>9. Ranges!TypeOK'
  BY <1>1, <1>7, <1>8 DEF Fed, Ranges!TypeOK
<1>10. Progressed'
  <2>1. n.base + 1 .. ip' - 1 = (n.base + 1 .. ip - 1) \cup {ip}
    BY <1>1, <1>3, <1>4
  <2>2. Sent' = InnersTo(turn - 1) \cup (n.base + 1 .. ip' - 1)
    BY <1>4, <1>8, <2>1
  <2>3. InnersTo(turn - 1)' = InnersTo(turn - 1)
    BY <1>1 DEF InnersTo, Inner
  <2>4. ip' > n.base /\ ip' <= Top(n) + 1
    BY <1>1, <1>3, <1>5, <1>4
  <2>5. nets'[turn'] = n
    BY <1>1 DEF n
  <2>6. ~Ranges!Done'
    BY <1>1 DEF Ranges!Done
  <2> QED BY <1>1, <1>8, <2>2, <2>3, <2>4, <2>5, <2>6 DEF Progressed
<1> QED BY <1>6, <1>9, <1>10 DEF Fed

\* The inner loop ends: every inner address of the network has been sent.
LEMMA NextNetKeeps ==
    ASSUME Fed, Ranges!NextNet
    PROVE  Fed'
<1> DEFINE n == nets[turn]
<1>1. /\ nets \in Seq(Ranges!Net) /\ Len(nets) \in Nat /\ sent \in Seq(Ranges!Addr)
      /\ Len(nets) <= MaxNets /\ UNCHANGED <<nets, total, verdict, sent>>
      /\ turn \in 1 .. Len(nets) /\ turn' = turn + 1 /\ verdict = "scanning"
      /\ ip \in Int /\ Ranges!Feeding
      /\ ip' = IF turn < Len(nets) THEN Ranges!FirstIP(nets[turn + 1]) ELSE 0
  BY RangeOK DEF Fed, Ranges!TypeOK, Ranges!RangeAssumption, Ranges!NextNet, Ranges!Feeding, Progressed
<1>2. n \in Ranges!Net
  BY <1>1
<1>3. n.base \in Nat /\ Top(n) \in Nat
  BY <1>2, TopFacts
<1>4. /\ ip > n.base /\ ip <= Top(n) + 1
      /\ Sent = InnersTo(turn - 1) \cup (n.base + 1 .. ip - 1)
  BY <1>1 DEF Fed, Progressed
<1>5. ~(ip <= Top(n))
  BY <1>1, <1>2, <1>4, InsideTop DEF Ranges!NextNet
<1>6. Apart' /\ Counted'
  BY <1>1 DEF Fed, Apart, Counted, InnersTo, Inner, Ranges!Mapped
<1> HIDE DEF n
<1>7. n.base + 1 .. ip - 1 = Inner(n)
  <2>1. ip - 1 = Top(n)
    BY <1>1, <1>3, <1>5, <1>4
  <2> QED BY <2>1 DEF Inner
<1>8. Sent = InnersTo(turn)
  <2>1. 1 .. turn = (1 .. turn - 1) \cup {turn}
    BY <1>1
  <2> QED BY <1>4, <1>7, <2>1 DEF InnersTo, n
<1>9. Sent' = Sent /\ InnersTo(turn - 1)' = InnersTo(turn) /\ InnersTo(Len(nets))' = InnersTo(Len(nets))
  <2>1. turn' - 1 = turn
    BY <1>1
  <2> QED BY <1>1, <2>1 DEF Sent, InnersTo, Inner
<1>10. CASE turn < Len(nets)
  <2> DEFINE m == nets[turn + 1]
  <2>1. m \in Ranges!Net /\ ip' = m.base + 1 /\ nets'[turn'] = m
    BY <1>1, <1>10 DEF Ranges!FirstIP
  <2>2. /\ m.base \in Nat /\ Top(m) \in Nat /\ m.base <= Top(m)
        /\ Top(m) < Block /\ Block \in Nat
    BY <2>1, TopFacts
  <2> HIDE DEF m
  <2>3. ip' > m.base /\ ip' <= Top(m) + 1
        /\ ip' \in 0 .. Block + 1 /\ m.base + 1 .. ip' - 1 = {}
    BY <2>1, <2>2
  <2>4. Ranges!TypeOK'
    <3>1. turn' \in 1 .. MaxNets + 1
      BY <1>1, <1>10, RangeOK DEF Ranges!RangeAssumption
    <3> QED BY <1>1, <2>3, <3>1 DEF Fed, Ranges!TypeOK
  <2>5. ~Ranges!Done' /\ turn' \in 1 .. Len(nets') + 1
    BY <1>1, <1>10 DEF Ranges!Done
  <2>6. Sent' = InnersTo(turn - 1)' \cup (m.base + 1 .. ip' - 1)
    BY <1>8, <1>9, <2>3
  <2>7. \A i, j \in DOMAIN sent' : sent'[i] = sent'[j] => i = j
    BY <1>1 DEF Fed, Progressed
  <2>8. Progressed'
    BY <1>1, <2>1, <2>3, <2>5, <2>6, <2>7 DEF Progressed
  <2> QED BY <1>6, <2>4, <2>8 DEF Fed
<1>11. CASE ~(turn < Len(nets))
  <2>1. turn = Len(nets) /\ ip' = 0 /\ turn' \in 1 .. Len(nets') + 1 /\ turn' \in 1 .. MaxNets + 1
    BY <1>1, <1>11, RangeOK DEF Ranges!RangeAssumption
  <2>2. Ranges!TypeOK'
    BY <1>1, <2>1, RangeOK DEF Fed, Ranges!TypeOK, Ranges!RangeAssumption
  <2>3. ~Ranges!Feeding'
    BY <1>1, <2>1 DEF Ranges!Feeding
  <2>4. \A i, j \in DOMAIN sent' : sent'[i] = sent'[j] => i = j
    BY <1>1 DEF Fed, Progressed
  <2>5. Progressed'
    BY <1>1, <1>8, <1>9, <2>1, <2>3, <2>4 DEF Progressed
  <2> QED BY <1>6, <2>2, <2>5 DEF Fed
<1> QED BY <1>10, <1>11

LEMMA RangeInit ==
    ASSUME Ranges!Init
    PROVE  Fed
<1>1. /\ nets = <<>> /\ total = 0 /\ verdict = "parsing" /\ turn = 1 /\ ip = 0 /\ sent = <<>>
  BY DEF Ranges!Init
<1>2. Len(nets) = 0 /\ DOMAIN nets = {} /\ DOMAIN sent = {}
  BY <1>1
<1>3. Ranges!TypeOK
  <2>1. /\ MaxNets \in Nat \ {0} /\ Block \in Nat
    BY RangeOK DEF Ranges!RangeAssumption
  <2>2. nets \in Seq(Ranges!Net) /\ sent \in Seq(Ranges!Addr)
    BY <1>1
  <2> QED BY <1>1, <1>2, <2>1, <2>2 DEF Ranges!TypeOK
<1>4. Counted
  <2>1. InnersTo(Len(nets)) = {} /\ Ranges!Mapped = {}
    BY <1>2 DEF InnersTo, Ranges!Mapped
  <2> QED BY <1>1, <2>1, FS_EmptySet DEF Counted
<1> QED BY <1>1, <1>2, <1>3, <1>4 DEF Fed, Apart, Progressed, Ranges!Feeding, Ranges!Done

LEMMA RangeStep ==
    ASSUME Fed, [Next]_vars
    PROVE  Fed'
<1>1. CASE Ranges!Next
  BY <1>1, PartKeeps, LaunchKeeps, IterateKeeps, NextNetKeeps DEF Ranges!Next
<1>2. CASE UNCHANGED rangeVars
  <2>1. UNCHANGED <<nets, total, verdict, turn, ip, sent>>
    BY <1>2 DEF rangeVars
  <2>2. Ranges!TypeOK'
    BY <2>1 DEF Fed, Ranges!TypeOK
  <2>3. Apart' /\ Counted'
    BY <2>1 DEF Fed, Apart, Counted, InnersTo, Inner, Ranges!Mapped
  <2>4. /\ Ranges!Feeding' = Ranges!Feeding /\ Ranges!Done' = Ranges!Done /\ Sent' = Sent
        /\ InnersTo(turn - 1)' = InnersTo(turn - 1) /\ InnersTo(Len(nets))' = InnersTo(Len(nets))
    BY <2>1 DEF Ranges!Feeding, Ranges!Done, Sent, InnersTo, Inner
  <2>5. Progressed'
    BY <2>1, <2>4 DEF Fed, Progressed
  <2> QED BY <2>2, <2>3, <2>5 DEF Fed
<1>3. Ranges!Next \/ UNCHANGED rangeVars
  BY DEF Next, RangeNext, DnsNext, HubNext, vars
<1> QED BY <1>1, <1>2, <1>3

\* When the feeder is through, what it has sent are the inner addresses, which
\* are the addresses of the request but the ends of its networks.
LEMMA FedIsEnough ==
    ASSUME Fed
    PROVE  FedOnce
<1> SUFFICES ASSUME Ranges!Done
             PROVE  /\ Sent = Ranges!Spans \ Ranges!Ends
                    /\ Len(sent) = Ranges!Cardinality(Ranges!Spans \ Ranges!Ends)
                    /\ (\A i \in DOMAIN nets : nets[i].size >= 4)
                       => Len(sent) = total + Ranges!Cardinality(Ranges!Mapped)
  BY DEF FedOnce, Ranges!FedOnce, Sent
<1>1. /\ Sent = InnersTo(Len(nets)) /\ \A i, j \in DOMAIN sent : sent[i] = sent[j] => i = j
      /\ nets \in Seq(Ranges!Net) /\ sent \in Seq(Ranges!Addr) /\ Apart /\ Counted
  BY DEF Fed, Progressed, Ranges!TypeOK
<1>2. /\ DOMAIN nets = 1 .. Len(nets) /\ \A i \in DOMAIN nets : nets[i] \in Ranges!Net
      /\ DOMAIN sent = 1 .. Len(sent) /\ Len(sent) \in Nat
  BY <1>1
<1>3. ASSUME NEW a \in Ranges!Spans \ Ranges!Ends PROVE a \in InnersTo(Len(nets))
  <2>1. PICK i \in DOMAIN nets : a \in Ranges!Span(nets[i])
    BY DEF Ranges!Spans
  <2> DEFINE n == nets[i]
  <2>2. n \in Ranges!Net /\ a \in Ranges!Addr /\ Ranges!Contains(n, a)
    BY <1>2, <2>1 DEF Ranges!Span
  <2>3. a \notin Ranges!EndsOf(n) /\ n.kind # "wide"
    BY <2>2 DEF Ranges!Ends, Ranges!Contains
  <2>4. /\ n.base \in Nat /\ n.size \in Nat \ {0} /\ a \in Int /\ n.kind \in {"v4", "mapped"}
    BY <2>2, <2>3, NetInBlock DEF Ranges!Addr
  <2> HIDE DEF n
  <2>5. a \in n.base .. n.base + n.size - 1
    BY <2>2, <2>3, <2>4, ContainsInterval
  <2>6. a \in Inner(n)
    BY <2>3, <2>4, <2>5 DEF Inner, Top, Ranges!EndsOf
  <2> QED BY <1>2, <2>6 DEF n, InnersTo
<1>4. ASSUME NEW a \in InnersTo(Len(nets)) PROVE a \in Ranges!Spans \ Ranges!Ends
  <2>1. PICK i \in DOMAIN nets : a \in Inner(nets[i])
    BY <1>2 DEF InnersTo
  <2> DEFINE n == nets[i]
  <2>2. n \in Ranges!Net
    BY <1>2
  <2>3. /\ n.base \in Nat /\ Top(n) \in Nat /\ Top(n) < Block /\ Block \in Nat
        /\ n.kind # "wide" => Top(n) <= n.base + n.size - 1
    BY <2>2, TopFacts
  <2>4. a \in n.base + 1 .. Top(n)
    BY <2>1 DEF Inner
  <2>4a. n.kind \in {"v4", "mapped"} /\ n.size \in Nat \ {0} /\ n.base + n.size <= Block
    <3>1. n.kind # "wide"
      BY <2>3, <2>4 DEF Top
    <3> QED BY <2>2, <3>1, NetInBlock
  <2> HIDE DEF n
  <2>5. a \in Int /\ a \in Ranges!Addr /\ a \in n.base .. n.base + n.size - 1 /\ a > n.base
    BY <2>3, <2>4, <2>4a DEF Ranges!Addr
  <2>6. Ranges!Contains(n, a)
    BY <2>2, <2>5, <2>4a, ContainsInterval
  <2>7. a \in Ranges!Spans
    BY <2>5, <2>6 DEF n, Ranges!Spans, Ranges!Span
  <2>8. ASSUME NEW j \in DOMAIN nets PROVE a \notin Ranges!EndsOf(nets[j])
    <3> DEFINE o == nets[j]
    <3>1. o \in Ranges!Net
      BY <1>2
    <3>2. CASE o.kind = "wide"
      BY <3>2 DEF Ranges!EndsOf
    <3>3. CASE j = i
      <4>1. a \notin Ranges!EndsOf(n)
        <5>1. CASE n.kind = "mapped"
          BY <2>5, <5>1 DEF Ranges!EndsOf
        <5>2. CASE n.kind = "v4"
          <6>1. a > n.base /\ a <= Top(n) /\ Top(n) \in Int /\ a \in Int /\ n.base \in Int
            BY <2>3, <2>4, <2>5
          <6>2. Top(n) = IF n.size >= 2 THEN n.base + n.size - 2 ELSE n.base
            BY <5>2 DEF Top
          <6>3. a # n.base /\ a # n.base + n.size - 1
            BY <2>4a, <6>1, <6>2
          <6> QED BY <5>2, <6>3 DEF Ranges!EndsOf
        <5> QED BY <2>4a, <5>1, <5>2
      <4> QED BY <3>3, <4>1 DEF n
    <3>4. CASE j # i /\ o.kind # "wide"
      <4>1. o.base + o.size <= n.base \/ n.base + n.size <= o.base
        BY <1>1, <2>4a, <3>4 DEF Apart, n
      <4>2. o.kind \in {"v4", "mapped"} /\ o.base \in Nat /\ o.size \in Nat \ {0}
        BY <3>1, <3>4, NetInBlock
      <4> HIDE DEF o
      <4>3. a # o.base /\ a # o.base + o.size - 1
        <5>1. /\ n.base \in Int /\ n.size \in Int /\ a \in Int /\ o.base \in Int
              /\ o.size \in Int /\ o.size >= 1 /\ n.base < a /\ a < n.base + n.size
          BY <2>3, <2>5, <2>4a, <4>2
        <5>2. CASE o.base + o.size <= n.base
          BY <5>1, <5>2
        <5>3. CASE n.base + n.size <= o.base
          BY <5>1, <5>3
        <5> QED BY <4>1, <5>2, <5>3
      <4>4. a \notin Ranges!EndsOf(o)
        BY <4>2, <4>3 DEF Ranges!EndsOf
      <4> QED BY <4>4 DEF o
    <3> QED BY <3>2, <3>3, <3>4
  <2>9. a \notin Ranges!Ends
    BY <2>8 DEF Ranges!Ends
  <2> QED BY <2>7, <2>9
<1>5. Ranges!Spans \ Ranges!Ends = InnersTo(Len(nets))
  BY <1>3, <1>4
<1>6. Cardinality(Sent) = Len(sent)
  <2>1. sent \in [1 .. Len(sent) -> Sent]
    BY <1>1, <1>2 DEF Sent
  <2>2. \A a \in Sent : \E i \in 1 .. Len(sent) : sent[i] = a
    BY <1>2 DEF Sent
  <2>3. sent \in Bijection(1 .. Len(sent), Sent)
    BY <1>1, <1>2, <2>1, <2>2 DEF Bijection, Injection, Surjection, IsInjective
  <2> QED BY <1>2, <2>3, FS_CountingElements DEF ExistsBijection
<1>7. (\A i \in DOMAIN nets : nets[i].size >= 4)
      => Len(sent) = total + Cardinality(Ranges!Mapped)
  BY <1>1, <1>6 DEF Counted
<1> QED BY <1>1, <1>5, <1>6, <1>7, SameSets

\* The workers get every address of the request but the ends of its networks,
\* each exactly once, and as many as the total says; of a network in the IPv6 form
\* only the lower end is left out, and they get one more (the feeder of run,
\* lastIP, validateCIDR).
THEOREM EachAddressOnce == FairSpec => []FedOnce
<1>1. Init => Fed
  BY RangeInit DEF Init
<1>2. Fed /\ [Next]_vars => Fed'
  BY RangeStep
<1>3. Fed => FedOnce
  BY FedIsEnough
<1> QED BY <1>1, <1>2, <1>3, PTL DEF FairSpec

\* What the feeder has to do: the networks from the turn on, and of the one whose
\* turn it is the addresses up to the end of it.
TurnsLeft == Len(nets) + 1 - turn
AddressesLeft == Top(nets[turn]) + 1 - ip

\* Less is left to the feeder with every step, be its network one of a single
\* address, whose loop begins beyond its last one (run, lastIP).
FeederAdvances ==
    Feed => /\ TurnsLeft \in Nat /\ TurnsLeft' \in Nat
            /\ \/ TurnsLeft' < TurnsLeft
               \/ /\ UNCHANGED <<nets, turn>>
                  /\ AddressesLeft \in Nat /\ AddressesLeft' \in Nat
                  /\ AddressesLeft' < AddressesLeft

\* However the networks lie, the feeder has no step to take without end
\* (feeder of run): with FeederAdvances a request is served in as many steps as it
\* has addresses and networks, or fewer.
THEOREM FeederWindsDown == FairSpec => [][FeederAdvances]_vars
<1>1. Init => Fed
  BY RangeInit DEF Init
<1>2. Fed /\ [Next]_vars => Fed'
  BY RangeStep
<1>3. Fed /\ Fed' => FeederAdvances
  <2> SUFFICES ASSUME Fed, Fed', Feed
               PROVE  /\ TurnsLeft \in Nat /\ TurnsLeft' \in Nat
                      /\ \/ TurnsLeft' < TurnsLeft
                         \/ /\ UNCHANGED <<nets, turn>>
                            /\ AddressesLeft \in Nat /\ AddressesLeft' \in Nat
                            /\ AddressesLeft' < AddressesLeft
    BY DEF FeederAdvances
  <2>1. /\ Ranges!Feeding /\ UNCHANGED <<nets, verdict>> /\ verdict = "scanning"
        /\ Ranges!Iterate \/ Ranges!NextNet
    BY DEF Feed, Ranges!Iterate, Ranges!NextNet, Ranges!Feeding
  <2>2. /\ nets \in Seq(Ranges!Net) /\ Len(nets) \in Nat
        /\ turn \in 1 .. Len(nets) + 1 /\ turn' \in 1 .. Len(nets) + 1 /\ turn <= Len(nets)
    BY <2>1 DEF Fed, Progressed, Ranges!TypeOK, Ranges!Feeding
  <2>3. TurnsLeft \in Nat /\ TurnsLeft' \in Nat
    BY <2>1, <2>2 DEF TurnsLeft
  <2>4. CASE Ranges!NextNet
    BY <2>1, <2>2, <2>4 DEF TurnsLeft, Ranges!NextNet
  <2>5. CASE Ranges!Iterate
    <3> DEFINE n == nets[turn]
    <3>1. ip' = ip + 1 /\ turn' = turn /\ Ranges!Feeding'
      BY <2>1, <2>5 DEF Ranges!Iterate, Ranges!Feeding
    <3>2. n \in Ranges!Net /\ Top(n) \in Nat /\ ip \in Nat
      <4>1. n \in Ranges!Net
        BY <2>2
      <4>2. ip \in Nat /\ Block \in Nat
        BY RangeOK DEF Fed, Ranges!TypeOK, Ranges!RangeAssumption
      <4> QED BY <4>1, <4>2, TopFacts
    <3>3. ip' <= Top(n) + 1
      BY <2>1, <3>1 DEF Fed, Progressed
    <3>4. AddressesLeft = Top(n) + 1 - ip /\ AddressesLeft' = Top(n) + 1 - ip'
      BY <2>1, <3>1 DEF AddressesLeft
    <3> HIDE DEF n
    <3> QED BY <2>1, <2>3, <3>1, <3>2, <3>3, <3>4
  <2> QED BY <2>1, <2>3, <2>4, <2>5
<1> QED BY <1>1, <1>2, <1>3, PTL DEF FairSpec

-----------------------------------------------------------------------------
\* The reading of a message.

\* A stage has something to read, and there are no more results than records.
Announced ==
    /\ stage = "question" => questions > 0
    /\ stage = "owner" => records > 0
    /\ found + records + (IF stage = "target" THEN 1 ELSE 0) <= MaxItems

Reading == Dns!TypeOK /\ Announced /\ ReadsInside

\* The locals of dnsName.
Names == [offset : Nat, next : Nat, depth : 0 .. MaxDepth + 1]

LEMMA ReadingFacts ==
    ASSUME Dns!TypeOK
    PROVE  /\ message \in Seq(Byte) /\ Dns!Size \in Nat /\ Dns!Size = Len(message)
           /\ name \in Names /\ name.offset \in Nat /\ name.next \in Nat
           /\ name.depth \in 0 .. MaxDepth + 1 /\ MaxDepth \in Nat
           /\ MaxItems \in Nat /\ questions \in 0 .. MaxItems /\ records \in 0 .. MaxItems
           /\ found \in 0 .. MaxItems /\ resume \in Nat /\ reach \in Nat
BY DnsOK DEF Dns!DnsAssumption, Dns!TypeOK, Dns!Size, Names

\* A byte is a number, and what lies beyond the end counts as none.
LEMMA AtTyped ==
    ASSUME Dns!TypeOK, NEW o \in Nat
    PROVE  Dns!At(o) \in Nat
<1>1. CASE o < Dns!Size
  <2>1. o + 1 \in DOMAIN message
    BY <1>1, ReadingFacts
  <2>2. message[o + 1] \in Byte
    BY <2>1, ReadingFacts
  <2>3. Byte \subseteq Nat
    BY DnsOK DEF Dns!DnsAssumption
  <2>4. Dns!At(o) = message[o + 1]
    BY <1>1 DEF Dns!At
  <2> QED BY <2>2, <2>3, <2>4
<1>2. CASE ~(o < Dns!Size)
  BY <1>2 DEF Dns!At
<1> QED BY <1>1, <1>2

LEMMA MovedTyped ==
    ASSUME Dns!TypeOK, NEW o \in Nat, NEW after \in Nat
    PROVE  /\ Dns!Moved(o, after) \in Names /\ Dns!Moved(o, after).next \in Nat
           /\ Dns!Deeper(Dns!Moved(o, after)) \in Names
<1> DEFINE n == Dns!Moved(o, after)
<1>1. n \in Names /\ n.next \in Nat
  BY ReadingFacts DEF Dns!Moved, Names
<1> HIDE DEF n
<1>2. n.depth \in 0 .. MaxDepth + 1 /\ MaxDepth \in Nat
  BY <1>1, ReadingFacts DEF Names
<1>3. Dns!Deeper(n) = [n EXCEPT !.depth = IF n.depth > MaxDepth THEN n.depth ELSE n.depth + 1]
  BY <1>1 DEF Dns!Deeper, Names
<1>4. (IF n.depth > MaxDepth THEN n.depth ELSE n.depth + 1) \in 0 .. MaxDepth + 1
  BY <1>2
<1>5. Dns!Deeper(n) \in Names
  BY <1>1, <1>3, <1>4 DEF Names
<1> QED BY <1>1, <1>5 DEF n

\* The next question or record begins with a name of its own.
LEMMA ContinueTyped ==
    ASSUME Dns!TypeOK, NEW q \in 0 .. MaxItems, NEW r \in 0 .. MaxItems, NEW o \in Nat,
           Dns!Continue(q, r, o)
    PROVE  /\ questions' = q /\ records' = r /\ name' \in Names
           /\ stage' \in {"question", "owner", "done"}
           /\ stage' = "question" => questions' > 0
           /\ stage' = "owner" => records' > 0
<1>1. questions' = q /\ records' = r /\ stage' = Dns!First(q, r) /\ name' = Dns!Call(o)
  BY DEF Dns!Continue
<1>2. name' \in Names
  BY <1>1, ReadingFacts DEF Dns!Call, Names
<1> QED BY <1>1, <1>2 DEF Dns!First

LEMMA TouchInside ==
    ASSUME Reading, NEW o \in Nat, o < Dns!Size, Dns!Touch(o), UNCHANGED message
    PROVE  reach' \in Nat /\ ReadsInside'
<1>1. reach <= Dns!Size /\ reach \in Nat /\ Dns!Size \in Nat
  BY ReadingFacts DEF Reading, ReadsInside, Dns!ReadsInside
<1>2. reach' = IF o < reach THEN reach ELSE o + 1
  BY DEF Dns!Touch
<1>3. reach' \in Nat /\ reach' <= Dns!Size
  BY <1>1, <1>2
<1>4. Dns!Size' = Dns!Size
  BY DEF Dns!Size
<1> QED BY <1>3, <1>4 DEF ReadsInside, Dns!ReadsInside

\* The steps within a name.
LEMMA NameKeeps ==
    ASSUME Reading, Dns!Label \/ Dns!Jump
    PROVE  Reading'
<1>1. /\ Dns!TypeOK /\ Announced /\ ~Dns!TooFar /\ name.offset \in Nat /\ Dns!Size \in Nat
      /\ UNCHANGED <<message, questions, records, stage, resume, found>>
  BY ReadingFacts DEF Reading, Dns!Label, Dns!Jump
<1>2. name.offset < Dns!Size
  BY <1>1 DEF Dns!TooFar
<1>3. Dns!Here \in Nat
  BY <1>1, AtTyped DEF Dns!Here
<1>4. CASE Dns!Label
  <2>1. name.offset + 1 + Dns!Here <= Dns!Size /\ Dns!Touch(name.offset + Dns!Here)
        /\ name' = Dns!Moved(name.offset + 1 + Dns!Here, name.offset + 1 + Dns!Here)
    BY <1>4 DEF Dns!Label, Dns!LabelFits
  <2>2. /\ name.offset + 1 + Dns!Here \in Nat /\ name.offset + Dns!Here \in Nat
        /\ name.offset + Dns!Here < Dns!Size
    BY <1>1, <1>3, <2>1
  <2>3. name' \in Names
    BY <1>1, <2>1, <2>2, MovedTyped
  <2>4. reach' \in Nat /\ ReadsInside'
    BY <1>1, <2>1, <2>2, TouchInside
  <2> QED BY <1>1, <2>3, <2>4 DEF Reading, Announced, Dns!TypeOK, Dns!Size, Names
<1>5. CASE Dns!Jump
  <2>1. name.offset + 1 < Dns!Size /\ Dns!Touch(name.offset + 1)
        /\ name' = Dns!Deeper(Dns!Moved(Dns!At(name.offset + 1), name.offset + 2))
    BY <1>1, <1>5 DEF Dns!Jump, Dns!Cut
  <2>2. name.offset + 1 \in Nat /\ name.offset + 2 \in Nat /\ Dns!At(name.offset + 1) \in Nat
    BY <1>1, AtTyped
  <2>3. name' \in Names
    BY <1>1, <2>1, <2>2, MovedTyped
  <2>4. reach' \in Nat /\ ReadsInside'
    BY <1>1, <2>1, <2>2, TouchInside
  <2> QED BY <1>1, <2>3, <2>4 DEF Reading, Announced, Dns!TypeOK, Dns!Size, Names
<1> QED BY <1>4, <1>5

LEMMA FailKeeps ==
    ASSUME Reading, Dns!Fail
    PROVE  Reading'
<1>1. /\ Dns!TypeOK /\ Announced /\ UNCHANGED <<message, resume, found, reach>>
      /\ questions \in 0 .. MaxItems /\ records \in 0 .. MaxItems /\ resume \in Nat
      /\ found \in 0 .. MaxItems /\ MaxItems \in Nat
  BY ReadingFacts DEF Reading, Dns!Fail
<1>2. ReadsInside'
  BY <1>1 DEF Reading, ReadsInside, Dns!ReadsInside, Dns!Size
<1>3. CASE stage = "target" /\ Dns!Continue(questions, records, resume)
  <2>1. /\ questions' = questions /\ records' = records /\ name' \in Names
        /\ stage' \in {"question", "owner", "done"}
        /\ stage' = "question" => questions' > 0
        /\ stage' = "owner" => records' > 0
    BY <1>1, <1>3, ContinueTyped
  <2>2. found' + records' + (IF stage' = "target" THEN 1 ELSE 0) <= MaxItems
    BY <1>1, <1>3, <2>1 DEF Announced
  <2> QED BY <1>1, <1>2, <2>1, <2>2 DEF Reading, Announced, Dns!TypeOK, Dns!Size, Names
<1>4. CASE stage # "target" /\ Dns!Stop
  <2>1. stage' = "done" /\ UNCHANGED <<questions, records, name>>
    BY <1>4 DEF Dns!Stop
  <2>2. found' + records' + (IF stage' = "target" THEN 1 ELSE 0) <= MaxItems
    BY <1>1, <1>4, <2>1 DEF Announced
  <2> QED BY <1>1, <1>2, <2>1, <2>2 DEF Reading, Announced, Dns!TypeOK, Dns!Size
<1> QED BY <1>3, <1>4 DEF Dns!Fail

\* The end of a name: what follows it begins at a number.
LEMMA NameEnds ==
    ASSUME Reading, Dns!EndOfName
    PROVE  /\ Dns!TypeOK /\ Announced /\ name.offset \in Nat /\ name.offset < Dns!Size
           /\ Dns!Next0 \in Nat /\ Dns!Size \in Nat
           /\ questions \in 0 .. MaxItems /\ records \in 0 .. MaxItems
           /\ found \in 0 .. MaxItems /\ resume \in Nat /\ MaxItems \in Nat
<1>1. Dns!TypeOK /\ Announced /\ name.offset \in Nat /\ Dns!Size \in Nat
  BY ReadingFacts DEF Reading
<1>2. name.offset < Dns!Size
  BY <1>1 DEF Dns!EndOfName, Dns!TooFar
<1>3. Dns!Next0 \in Nat
  BY <1>1, MovedTyped DEF Dns!Next0
<1> QED BY <1>1, <1>2, <1>3, ReadingFacts

LEMMA QuestionKeeps ==
    ASSUME Reading, Dns!Question
    PROVE  Reading'
<1>1. /\ Dns!EndOfName /\ stage = "question" /\ Dns!Touch(name.offset)
      /\ UNCHANGED <<message, resume, found>>
  BY DEF Dns!Question
<1>2. reach' \in Nat /\ ReadsInside'
  BY <1>1, NameEnds, TouchInside
<1>3. CASE Dns!Stop
  <2>1. stage' = "done" /\ UNCHANGED <<questions, records, name>>
    BY <1>3 DEF Dns!Stop
  <2>2. found' + records' + (IF stage' = "target" THEN 1 ELSE 0) <= MaxItems
    BY <1>1, <2>1, NameEnds DEF Announced
  <2> QED BY <1>1, <1>2, <2>1, <2>2, NameEnds DEF Reading, Announced, Dns!TypeOK, Dns!Size
<1>4. CASE Dns!Continue(questions - 1, records, Dns!Next0 + Dns!QuestionTail)
  <2>1. /\ questions - 1 \in 0 .. MaxItems /\ records \in 0 .. MaxItems
        /\ Dns!Next0 + Dns!QuestionTail \in Nat
    BY <1>1, NameEnds DEF Announced, Dns!QuestionTail
  <2>2. /\ questions' = questions - 1 /\ records' = records /\ name' \in Names
        /\ stage' \in {"question", "owner", "done"}
        /\ stage' = "question" => questions' > 0
        /\ stage' = "owner" => records' > 0
    BY <1>1, <1>4, <2>1, NameEnds, ContinueTyped
  <2>3. found' + records' + (IF stage' = "target" THEN 1 ELSE 0) <= MaxItems
    BY <1>1, <2>2, NameEnds DEF Announced
  <2> QED BY <1>1, <1>2, <2>1, <2>2, <2>3, NameEnds
          DEF Reading, Announced, Dns!TypeOK, Dns!Size, Names
<1> QED BY <1>3, <1>4 DEF Dns!Question

LEMMA OwnerKeeps ==
    ASSUME Reading, Dns!Owner
    PROVE  Reading'
<1> DEFINE data == Dns!Next0 + Dns!RecordHead
           end == data + Dns!At(data - 1)
<1>1. /\ Dns!EndOfName /\ stage = "owner" /\ UNCHANGED <<message, found>> /\ records > 0
  BY DEF Dns!Owner, Reading, Announced
<1>2. /\ data \in Nat /\ data - 1 \in Nat /\ end \in Nat
      /\ Dns!HeadFits(Dns!Next0) => data - 1 < Dns!Size
  <2>1. data \in Nat /\ data - 1 \in Nat
    BY <1>1, NameEnds DEF Dns!RecordHead
  <2>2. Dns!At(data - 1) \in Nat
    BY <1>1, <2>1, NameEnds, AtTyped
  <2>3. Dns!HeadFits(Dns!Next0) => data <= Dns!Size
    BY DEF Dns!HeadFits
  <2>4. Dns!Size \in Nat
    BY <1>1, NameEnds
  <2> HIDE DEF data
  <2> QED BY <2>1, <2>2, <2>3, <2>4
<1>3. CASE /\ Dns!Stop /\ UNCHANGED resume
           /\ Dns!Touch(IF Dns!HeadFits(Dns!Next0) THEN data - 1 ELSE name.offset)
  <2> DEFINE o == IF Dns!HeadFits(Dns!Next0) THEN data - 1 ELSE name.offset
  <2>1. o \in Nat /\ o < Dns!Size
    BY <1>1, <1>2, NameEnds
  <2>2. Dns!Touch(o)
    BY <1>3
  <2> HIDE DEF o, data
  <2>3. reach' \in Nat /\ ReadsInside'
    BY <1>1, <2>1, <2>2, TouchInside
  <2>4. stage' = "done" /\ UNCHANGED <<questions, records, name>>
    BY <1>3 DEF Dns!Stop
  <2>5. found' + records' + (IF stage' = "target" THEN 1 ELSE 0) <= MaxItems
    BY <1>1, <2>4, NameEnds DEF Announced
  <2> QED BY <1>1, <1>3, <2>3, <2>4, <2>5, NameEnds DEF Reading, Announced, Dns!TypeOK, Dns!Size
<1>4. CASE /\ stage' = "target" /\ name' = Dns!Call(data) /\ resume' = end
           /\ records' = records - 1 /\ UNCHANGED questions
           /\ Dns!HeadFits(Dns!Next0) /\ Dns!Touch(data - 1)
  <2> HIDE DEF data, end
  <2>1. reach' \in Nat /\ ReadsInside'
    BY <1>1, <1>2, <1>4, TouchInside
  <2>2. name' \in Names
    BY <1>1, <1>2, <1>4, NameEnds, ReadingFacts DEF Dns!Call, Names
  <2>3. found' + records' + (IF stage' = "target" THEN 1 ELSE 0) <= MaxItems
        /\ records' \in 0 .. MaxItems
    BY <1>1, <1>4, NameEnds DEF Announced
  <2> QED BY <1>1, <1>2, <1>4, <2>1, <2>2, <2>3, NameEnds
          DEF Reading, Announced, Dns!TypeOK, Dns!Size, Names
<1>5. CASE /\ Dns!Continue(questions, records - 1, end) /\ UNCHANGED resume
           /\ Dns!HeadFits(Dns!Next0) /\ Dns!Touch(data - 1)
  <2> HIDE DEF data, end
  <2>1. reach' \in Nat /\ ReadsInside'
    BY <1>1, <1>2, <1>5, TouchInside
  <2>2. records - 1 \in 0 .. MaxItems /\ questions \in 0 .. MaxItems
    BY <1>1, NameEnds
  <2>3. /\ questions' = questions /\ records' = records - 1 /\ name' \in Names
        /\ stage' \in {"question", "owner", "done"}
        /\ stage' = "question" => questions' > 0
        /\ stage' = "owner" => records' > 0
    BY <1>1, <1>2, <1>5, <2>2, NameEnds, ContinueTyped
  <2>4. found' + records' + (IF stage' = "target" THEN 1 ELSE 0) <= MaxItems
    BY <1>1, <2>3, NameEnds DEF Announced
  <2> QED BY <1>1, <1>5, <2>1, <2>2, <2>3, <2>4, NameEnds
          DEF Reading, Announced, Dns!TypeOK, Dns!Size, Names
<1> QED BY <1>3, <1>4, <1>5 DEF Dns!Owner

LEMMA TargetKeeps ==
    ASSUME Reading, Dns!Target
    PROVE  Reading'
<1>1. /\ Dns!EndOfName /\ stage = "target" /\ Dns!Touch(name.offset)
      /\ UNCHANGED <<message, resume>> /\ found' = found + 1
      /\ Dns!Continue(questions, records, resume)
  BY DEF Dns!Target
<1>2. reach' \in Nat /\ ReadsInside'
  BY <1>1, NameEnds, TouchInside
<1>3. /\ questions' = questions /\ records' = records /\ name' \in Names
      /\ stage' \in {"question", "owner", "done"}
      /\ stage' = "question" => questions' > 0
      /\ stage' = "owner" => records' > 0
  BY <1>1, NameEnds, ContinueTyped
<1>4. found' + records' + (IF stage' = "target" THEN 1 ELSE 0) <= MaxItems
      /\ found' \in 0 .. MaxItems
  BY <1>1, <1>3, NameEnds DEF Announced
<1> QED BY <1>1, <1>2, <1>3, <1>4, NameEnds DEF Reading, Announced, Dns!TypeOK, Dns!Size, Names

LEMMA ReadingInit ==
    ASSUME Dns!Init
    PROVE  Reading
<1>1. message \in Seq(Byte) /\ Len(message) <= MaxLen /\ Len(message) \in Nat
  <2>1. PICK m \in 0 .. MaxLen : message \in [1 .. m -> Byte]
    BY DEF Dns!Init, Dns!BoundedSeq, Dns!SeqOf
  <2>2. MaxLen \in Nat /\ m \in Nat /\ m <= MaxLen
    BY DnsOK DEF Dns!DnsAssumption
  <2>3. message \in Seq(Byte) /\ Len(message) = m
    BY <2>1, <2>2
  <2> QED BY <2>2, <2>3
<1>2. /\ MaxDepth \in Nat /\ MaxItems \in Nat
  BY DnsOK DEF Dns!DnsAssumption
<1>3. /\ questions \in 0 .. MaxItems /\ records \in 0 .. MaxItems
      /\ stage = Dns!First(questions, records) /\ name = Dns!Call(0)
      /\ resume = 0 /\ found = 0 /\ reach = 0
  BY DEF Dns!Init
<1>4. name \in Names
  BY <1>2, <1>3 DEF Dns!Call, Names
<1>5. Announced /\ stage \in {"question", "owner", "target", "done"}
  BY <1>2, <1>3 DEF Announced, Dns!First
<1>6. Dns!TypeOK
  BY <1>1, <1>2, <1>3, <1>4, <1>5 DEF Dns!TypeOK, Dns!Size, Names
<1> QED BY <1>1, <1>3, <1>5, <1>6 DEF Reading, ReadsInside, Dns!ReadsInside, Dns!Size

LEMMA ReadingStep ==
    ASSUME Reading, [Next]_vars
    PROVE  Reading'
<1>1. CASE Dns!Next
  BY <1>1, NameKeeps, FailKeeps, QuestionKeeps, OwnerKeeps, TargetKeeps DEF Dns!Next
<1>2. CASE UNCHANGED dnsVars
  BY <1>2 DEF dnsVars, Reading, Announced, ReadsInside, Dns!ReadsInside, Dns!TypeOK, Dns!Size
<1>3. Dns!Next \/ UNCHANGED dnsVars
  BY DEF Next, RangeNext, DnsNext, HubNext, vars
<1> QED BY <1>1, <1>2, <1>3

\* No byte beyond the end of a message is asked for, whatever it says about
\* lengths, pointers and counts (dnsName, parseMDNSPTRRecords).
THEOREM ReadingStaysInside == FairSpec => []ReadsInside
<1>1. Init => Reading
  BY ReadingInit DEF Init
<1>2. Reading /\ [Next]_vars => Reading'
  BY ReadingStep
<1>3. Reading => ReadsInside
  BY DEF Reading
<1> QED BY <1>1, <1>2, <1>3, PTL DEF FairSpec

\* What is left to read: items (an owner whose target is to be read counts for
\* one half), pointers that may still be followed, and bytes of the name.
ItemsLeft == IF stage = "done" THEN 0
             ELSE 2 * (questions + records) + (IF stage = "target" THEN 1 ELSE 0)
PointersLeft == MaxDepth + 1 - name.depth
BytesLeft == IF name.offset < Dns!Size THEN Dns!Size - name.offset ELSE 0

Measured == ItemsLeft \in Nat /\ PointersLeft \in Nat /\ BytesLeft \in 0 .. MaxLen

\* Each step of the reading leaves fewer items; or as many and fewer pointers; or
\* as many of both and fewer bytes.
ReadingAdvances ==
    Dns!Next => /\ Measured /\ Measured'
                /\ \/ ItemsLeft' < ItemsLeft
                   \/ ItemsLeft' = ItemsLeft /\ PointersLeft' < PointersLeft
                   \/ /\ ItemsLeft' = ItemsLeft /\ PointersLeft' = PointersLeft
                      /\ BytesLeft' < BytesLeft

LEMMA MeasureTyped ==
    ASSUME Reading
    PROVE  Measured
<1>1. Dns!TypeOK /\ Dns!Size \in Nat /\ Dns!Size <= MaxLen /\ MaxLen \in Nat
  BY ReadingFacts, DnsOK DEF Reading, Dns!TypeOK, Dns!DnsAssumption
<1>2. /\ name.offset \in Nat /\ name.depth \in 0 .. MaxDepth + 1 /\ MaxDepth \in Nat
      /\ questions \in Nat /\ records \in Nat
  BY <1>1, ReadingFacts
<1>3. ItemsLeft \in Nat
  BY <1>2 DEF ItemsLeft
<1>4. PointersLeft \in Nat
  BY <1>2 DEF PointersLeft
<1>5. BytesLeft \in 0 .. MaxLen
  BY <1>1, <1>2 DEF BytesLeft
<1> QED BY <1>3, <1>4, <1>5 DEF Measured

LEMMA ReadingGoesOn ==
    ASSUME Reading, Measured', Dns!Next
    PROVE  \/ ItemsLeft' < ItemsLeft
           \/ ItemsLeft' = ItemsLeft /\ PointersLeft' < PointersLeft
           \/ /\ ItemsLeft' = ItemsLeft /\ PointersLeft' = PointersLeft
              /\ BytesLeft' < BytesLeft
<1>1. /\ Dns!TypeOK /\ Announced /\ Dns!Size \in Nat /\ name \in Names
      /\ name.offset \in Nat /\ name.depth \in 0 .. MaxDepth + 1 /\ MaxDepth \in Nat
      /\ questions \in Nat /\ records \in Nat
      /\ stage \in {"question", "owner", "target", "done"}
  BY ReadingFacts DEF Reading, Dns!TypeOK
<1>2. CASE Dns!Label
  <2>1. /\ name.offset < Dns!Size /\ Dns!Here # 0
        /\ name.offset + 1 + Dns!Here <= Dns!Size
        /\ name' = Dns!Moved(name.offset + 1 + Dns!Here, name.offset + 1 + Dns!Here)
        /\ UNCHANGED <<message, questions, records, stage>>
    BY <1>1, <1>2 DEF Dns!Label, Dns!LabelFits, Dns!TooFar
  <2>2. Dns!Here \in Nat
    BY <1>1, AtTyped DEF Dns!Here
  <2>3. name'.offset = name.offset + 1 + Dns!Here /\ name'.depth = name.depth
    BY <2>1 DEF Dns!Moved
  <2>4. ItemsLeft' = ItemsLeft /\ PointersLeft' = PointersLeft
    BY <2>1, <2>3 DEF ItemsLeft, PointersLeft
  <2>5. Dns!Size' = Dns!Size
    BY <2>1 DEF Dns!Size
  <2>6. BytesLeft' < BytesLeft
    BY <1>1, <2>1, <2>2, <2>3, <2>5 DEF BytesLeft
  <2> QED BY <2>4, <2>6
<1>3. CASE Dns!Jump
  <2> DEFINE o == Dns!At(name.offset + 1)
  <2>1. /\ ~(name.depth > MaxDepth)
        /\ name' = Dns!Deeper(Dns!Moved(o, name.offset + 2))
        /\ UNCHANGED <<message, questions, records, stage>>
    BY <1>3 DEF Dns!Jump, Dns!TooFar
  <2> HIDE DEF o
  <2>2. name'.depth = name.depth + 1
    BY <2>1 DEF Dns!Deeper, Dns!Moved
  <2>3. PointersLeft' < PointersLeft
    BY <1>1, <2>2 DEF PointersLeft
  <2>4. ItemsLeft' = ItemsLeft
    BY <2>1 DEF ItemsLeft
  <2> QED BY <2>3, <2>4
<1>4. CASE Dns!Stop /\ stage \in {"question", "owner"}
  <2>1. ItemsLeft' = 0
    BY <1>4 DEF Dns!Stop, ItemsLeft
  <2>2. ItemsLeft > 0
    BY <1>1, <1>4 DEF Announced, ItemsLeft
  <2> QED BY <2>1, <2>2
<1>5. ASSUME NEW q \in Nat, NEW r \in Nat, NEW o, Dns!Continue(q, r, o), stage # "done",
             2 * (q + r) < 2 * (questions + records) + (IF stage = "target" THEN 1 ELSE 0)
      PROVE  ItemsLeft' < ItemsLeft
  <2>1. questions' = q /\ records' = r /\ stage' \in {"question", "owner", "done"}
    BY <1>5 DEF Dns!Continue, Dns!First
  <2>2. ItemsLeft' <= 2 * (q + r)
    BY <1>5, <2>1 DEF ItemsLeft
  <2>3. ItemsLeft = 2 * (questions + records) + (IF stage = "target" THEN 1 ELSE 0)
    BY <1>5 DEF ItemsLeft
  <2>4. ItemsLeft \in Nat /\ ItemsLeft' \in Nat
    BY MeasureTyped DEF Measured
  <2> QED BY <1>1, <1>5, <2>2, <2>3, <2>4
<1>6. CASE Dns!Fail
  <2>1. CASE stage = "target" /\ Dns!Continue(questions, records, resume)
    BY <1>1, <1>5, <2>1
  <2>2. CASE stage # "target" /\ Dns!Stop
    BY <1>1, <1>4, <1>6, <2>2 DEF Dns!Fail
  <2> QED BY <1>6, <2>1, <2>2 DEF Dns!Fail
<1>7. CASE Dns!Question
  <2>1. stage = "question" /\ questions > 0
    BY <1>7 DEF Dns!Question, Reading, Announced
  <2>2. CASE Dns!Continue(questions - 1, records, Dns!Next0 + Dns!QuestionTail)
    BY <1>1, <1>5, <2>1, <2>2
  <2> QED BY <1>4, <1>7, <2>1, <2>2 DEF Dns!Question
<1>8. CASE Dns!Owner
  <2>1. stage = "owner" /\ records > 0
    BY <1>8 DEF Dns!Owner, Reading, Announced
  <2>2. CASE \E o : Dns!Continue(questions, records - 1, o)
    BY <1>1, <1>5, <2>1, <2>2
  <2>3. CASE stage' = "target" /\ records' = records - 1 /\ UNCHANGED questions
    BY <1>1, <2>1, <2>3 DEF ItemsLeft
  <2> QED BY <1>4, <1>8, <2>1, <2>2, <2>3 DEF Dns!Owner
<1>9. CASE Dns!Target
  <2>1. stage = "target" /\ Dns!Continue(questions, records, resume)
    BY <1>9 DEF Dns!Target
  <2> QED BY <1>1, <1>5, <2>1
<1> QED BY <1>2, <1>3, <1>6, <1>7, <1>8, <1>9 DEF Dns!Next

\* Wherever the pointers of a message lead, its reading cannot go in a circle: with
\* ReadingAdvances it takes a bounded number of steps (dnsName's depth,
\* parseMDNSPTRRecords).
THEOREM ReadingWindsDown == FairSpec => [][ReadingAdvances]_vars
<1>1. Init => Reading
  BY ReadingInit DEF Init
<1>2. Reading /\ [Next]_vars => Reading'
  BY ReadingStep
<1>3. Reading => Measured
  BY MeasureTyped
<1>4. Reading /\ Measured /\ Measured' => ReadingAdvances
  BY ReadingGoesOn DEF ReadingAdvances
<1> QED BY <1>1, <1>2, <1>3, <1>4, PTL DEF FairSpec

-----------------------------------------------------------------------------
\* The events and the pages.

Event == [kind : {"started", "progress", "completed"}, run : Nat]
Asks == {Hub!Quiet, Hub!Asking} \cup [at : {"answer"}, run : Nat, running : BOOLEAN]

\* The runs whose end a channel holds.
EndsIn(q) == {q[i].run : i \in {j \in DOMAIN q : q[j].kind = "completed"}}

\* The runs whose end each channel holds.
Ends == [b \in Browser |-> Hub!Ends(b)]

LEMMA EndsAreIn ==
    /\ \A b \in Browser : Ends[b] = EndsIn(queue[b])
    /\ Ends' = [b \in Browser |-> EndsIn(queue'[b])]
BY DEF Ends, Hub!Ends, EndsIn

\* The runs whose end is still to come to the page, or is known to be missed.
Due(b) == {n \in 1 .. run : \/ n = run /\ Hub!Running
                            \/ n \in closing
                            \/ n \in Ends[b]
                            \/ n <= missed[b]}

\* An end that is emitted is of a run that is over.
Over == {n \in 1 .. run : n = run => ~Hub!Running}
Ended == /\ Hub!Running => run > 0
         /\ closing \subseteq Over
         /\ \A b \in Browser : Ends[b] \subseteq Over

Channels == queue \in [Browser -> Seq(Event)] /\ ask \in [Browser -> Asks]

\* An event of a scan under way does not come after the end of that scan or of
\* a later one.
Ordered(b) == \A i, j \in DOMAIN queue[b] :
                 i < j /\ queue[b][i].kind = "completed" /\ queue[b][j].kind # "completed"
                 => queue[b][i].run < queue[b][j].run

\* What will show a running scan has its end before it: an event,
Awaited(b) == \A i \in DOMAIN queue[b] :
                 queue[b][i].kind # "completed" => queue[b][i].run \in Due(b)
\* an answer, unless the end has overtaken it,
Answered(b) == ask[b].at = "answer" /\ ask[b].running
               => ask[b].run \in Due(b) \cup 1 .. heard[b]
\* and what is shown, unless an answer will replace it.
Displayed(b) == shown[b] /\ ask[b] = Hub!Quiet => Due(b) # {}

Followed(b) == Ordered(b) /\ Awaited(b) /\ Answered(b) /\ Displayed(b)
Sane == Hub!TypeOK /\ Channels /\ Ended
Following == Sane /\ \A b \in Browser : Followed(b)

\* The ends in a channel that something was put into.
LEMMA EndsOfAppend ==
    ASSUME NEW q \in Seq(Event), NEW e \in Event
    PROVE  /\ Append(q, e) \in Seq(Event) /\ DOMAIN Append(q, e) = 1 .. Len(q) + 1
           /\ Len(Append(q, e)) = Len(q) + 1 /\ Len(q) \in Nat /\ DOMAIN q = 1 .. Len(q)
           /\ \A i \in DOMAIN q : Append(q, e)[i] = q[i]
           /\ Append(q, e)[Len(q) + 1] = e
           /\ EndsIn(Append(q, e)) = EndsIn(q) \cup (IF e.kind = "completed" THEN {e.run} ELSE {})
<1> DEFINE p == Append(q, e)
<1>1. /\ p \in Seq(Event) /\ DOMAIN p = 1 .. Len(q) + 1 /\ Len(p) = Len(q) + 1
      /\ Len(q) \in Nat /\ DOMAIN q = 1 .. Len(q)
      /\ \A i \in DOMAIN q : p[i] = q[i]
      /\ p[Len(q) + 1] = e
  <2> HIDE DEF Event
  <2> QED OBVIOUS
<1> HIDE DEF p
<1>2. DOMAIN p = DOMAIN q \cup {Len(q) + 1}
  BY <1>1
<1>3. EndsIn(p) = EndsIn(q) \cup (IF e.kind = "completed" THEN {e.run} ELSE {})
  BY <1>1, <1>2 DEF EndsIn
<1> QED BY <1>1, <1>3 DEF p

\* And of one that its first event was taken from.
LEMMA EndsOfTail ==
    ASSUME NEW q \in Seq(Event), q # <<>>, NEW p, p = Tail(q)
    PROVE  /\ p \in Seq(Event) /\ Head(q) \in Event /\ Len(p) < Len(q)
           /\ Len(q) \in Nat /\ Len(p) \in Nat /\ Head(q) = q[1] /\ 1 \in DOMAIN q
           /\ \A i \in DOMAIN p : i \in Nat \ {0} /\ i + 1 \in DOMAIN q /\ p[i] = q[i + 1]
           /\ EndsIn(p) \subseteq EndsIn(q)
           /\ \A n \in EndsIn(q) : n \in EndsIn(p) \/ (Head(q).kind = "completed" /\ n = Head(q).run)
<1>1. /\ p \in Seq(Event) /\ Head(q) \in Event /\ Len(p) = Len(q) - 1 /\ Len(q) \in Nat
      /\ Len(p) \in Nat /\ Head(q) = q[1] /\ 1 \in DOMAIN q /\ DOMAIN p = 1 .. Len(q) - 1
      /\ DOMAIN q = 1 .. Len(q)
      /\ \A i \in DOMAIN p : p[i] = q[i + 1]
  <2> HIDE DEF Event
  <2> QED OBVIOUS
<1>2. \A i \in DOMAIN p : i \in Nat \ {0} /\ i + 1 \in DOMAIN q
  BY <1>1
<1>3. \A i \in DOMAIN q : i = 1 \/ (i - 1 \in DOMAIN p /\ p[i - 1] = q[i])
  BY <1>1
<1>4. EndsIn(p) \subseteq EndsIn(q)
  BY <1>1, <1>2 DEF EndsIn
<1>5. \A n \in EndsIn(q) : n \in EndsIn(p) \/ (Head(q).kind = "completed" /\ n = Head(q).run)
  BY <1>1, <1>3 DEF EndsIn
<1>6. Len(p) < Len(q)
  BY <1>1
<1> QED BY <1>1, <1>2, <1>4, <1>5, <1>6

\* A page that nothing happens to, while no end gets lost.
LEMMA PageStays ==
    ASSUME NEW b \in Browser, Followed(b),
           queue'[b] = queue[b], ask'[b] = ask[b], shown'[b] = shown[b], heard'[b] = heard[b],
           Due(b) \subseteq Due(b)'
    PROVE  Followed(b)'
<1>1. Ordered(b)' /\ Awaited(b)'
  BY DEF Followed, Ordered, Awaited
<1>2. Answered(b)' /\ Displayed(b)'
  BY DEF Followed, Answered, Displayed
<1> QED BY <1>1, <1>2 DEF Followed

\* An event finds room at the page.
LEMMA PageGets ==
    ASSUME NEW b \in Browser, Followed(b), queue[b] \in Seq(Event), NEW e \in Event,
           queue'[b] = Append(queue[b], e),
           ask'[b] = ask[b], shown'[b] = shown[b], heard'[b] = heard[b],
           Due(b) \subseteq Due(b)',
           e.kind # "completed" => /\ e.run \in Due(b)'
                                   /\ \A k \in Ends[b] : k < e.run
    PROVE  Followed(b)'
<1> DEFINE q == queue[b]
           l == Len(q) + 1
<1>1. /\ queue'[b] = Append(q, e) /\ DOMAIN Append(q, e) = 1 .. l
      /\ Len(q) \in Nat /\ DOMAIN q = 1 .. Len(q)
      /\ \A i \in DOMAIN q : Append(q, e)[i] = q[i]
      /\ Append(q, e)[l] = e
  BY EndsOfAppend
<1>2. \A i \in DOMAIN queue'[b] : \/ (i \in DOMAIN q /\ queue'[b][i] = q[i] /\ i < l)
                                 \/ (i = l /\ queue'[b][i] = e)
  BY <1>1
<1>4. l \in Nat /\ \A i \in DOMAIN q : i \in Nat
  BY <1>1
<1>5. \A i \in DOMAIN q : q[i].kind = "completed" => q[i].run \in Ends[b]
  BY EndsAreIn DEF EndsIn
<1> HIDE DEF q, l
<1>6. Ordered(b)'
  <2> SUFFICES ASSUME NEW i \in DOMAIN queue'[b], NEW j \in DOMAIN queue'[b], i < j,
                      queue'[b][i].kind = "completed", queue'[b][j].kind # "completed"
               PROVE  queue'[b][i].run < queue'[b][j].run
    BY DEF Ordered
  <2>1. i \in DOMAIN q /\ queue'[b][i] = q[i]
    BY <1>2, <1>4
  <2>2. CASE j \in DOMAIN q /\ queue'[b][j] = q[j]
    BY <2>1, <2>2 DEF q, Followed, Ordered
  <2>3. CASE j = l /\ queue'[b][j] = e
    BY <1>5, <2>1, <2>3 DEF q
  <2> QED BY <1>2, <2>2, <2>3
<1>7. Awaited(b)'
  <2> SUFFICES ASSUME NEW i \in DOMAIN queue'[b], queue'[b][i].kind # "completed"
               PROVE  queue'[b][i].run \in Due(b)'
    BY DEF Awaited
  <2>1. CASE i \in DOMAIN q /\ queue'[b][i] = q[i]
    BY <2>1 DEF q, Followed, Awaited
  <2>2. CASE queue'[b][i] = e
    BY <2>2
  <2> QED BY <1>2, <2>1, <2>2
<1>8. Answered(b)' /\ Displayed(b)'
  BY DEF Followed, Answered, Displayed
<1> QED BY <1>6, <1>7, <1>8 DEF Followed


LEMMA HubFacts ==
    ASSUME Sane
    PROVE  /\ run \in Nat /\ run <= MaxRuns /\ MaxRuns \in Nat /\ Room \in Nat
           /\ phase \in {"rest", "sweep", "close"} /\ closing \subseteq 1 .. run
           /\ \A b \in Browser :
                 /\ queue[b] \in Seq(Event) /\ ask[b] \in Asks
                 /\ stream[b] \in {"none", "on", "broken"} /\ shown[b] \in BOOLEAN
                 /\ Len(queue[b]) <= Room /\ (stream[b] # "on" => queue[b] = <<>>)
                 /\ missed[b] \in 0 .. run /\ heard[b] \in 0 .. run
                 /\ Ends[b] \subseteq 1 .. run
           /\ queue \in [Browser -> Seq(Event)] /\ ask \in [Browser -> Asks]
           /\ stream \in [Browser -> {"none", "on", "broken"}] /\ shown \in [Browser -> BOOLEAN]
           /\ missed \in [Browser -> 0 .. run] /\ heard \in [Browser -> 0 .. run]
<1>1. /\ run \in 0 .. MaxRuns /\ MaxRuns \in Nat /\ Room \in Nat
  BY HubOK DEF Sane, Hub!TypeOK, Hub!HubAssumption
<1>2. \A b \in Browser : Ends[b] \subseteq 1 .. run
  BY DEF Sane, Ended, Over
<1>3. run \in Nat /\ run <= MaxRuns
  BY <1>1
<1> QED BY <1>1, <1>2, <1>3 DEF Sane, Hub!TypeOK, Channels

\* The channels after an event was emitted.
LEMMA Emitted ==
    ASSUME Sane, NEW e \in Event, Hub!Emit(e)
    PROVE  /\ queue' \in [Browser -> Seq(Event)]
           /\ \A b \in Browser :
                 /\ Len(queue'[b]) <= Room /\ (stream[b] # "on" => queue'[b] = <<>>)
                 /\ IF Hub!Fits(b) THEN queue'[b] = Append(queue[b], e) ELSE queue'[b] = queue[b]
                 /\ Ends'[b] = Ends[b] \cup
                       (IF Hub!Fits(b) /\ e.kind = "completed" THEN {e.run} ELSE {})
<1>1. ASSUME NEW b \in Browser
      PROVE  /\ queue'[b] \in Seq(Event) /\ Len(queue'[b]) <= Room
             /\ (stream[b] # "on" => queue'[b] = <<>>)
             /\ IF Hub!Fits(b) THEN queue'[b] = Append(queue[b], e) ELSE queue'[b] = queue[b]
             /\ Ends'[b] = Ends[b] \cup
                   (IF Hub!Fits(b) /\ e.kind = "completed" THEN {e.run} ELSE {})
  <2>1. /\ queue[b] \in Seq(Event) /\ Len(queue[b]) <= Room /\ Room \in Nat
        /\ (stream[b] # "on" => queue[b] = <<>>)
    BY HubFacts
  <2>2. CASE Hub!Fits(b)
    <3>1. queue'[b] = Append(queue[b], e) /\ stream[b] = "on" /\ Len(queue[b]) < Room
      BY <2>2 DEF Hub!Emit, Hub!Fits
    <3>2. /\ Append(queue[b], e) \in Seq(Event) /\ Len(Append(queue[b], e)) = Len(queue[b]) + 1
          /\ Len(queue[b]) \in Nat
          /\ EndsIn(Append(queue[b], e)) = Ends[b] \cup
                (IF e.kind = "completed" THEN {e.run} ELSE {})
      BY <2>1, EndsOfAppend, EndsAreIn
    <3>3. Len(queue'[b]) <= Room
      BY <2>1, <3>1, <3>2
    <3>4. Ends'[b] = EndsIn(Append(queue[b], e))
      BY <3>1, EndsAreIn
    <3> QED BY <2>1, <2>2, <3>1, <3>2, <3>3, <3>4
  <2>3. CASE ~Hub!Fits(b)
    <3>1. queue'[b] = queue[b]
      BY <2>3 DEF Hub!Emit
    <3> QED BY <2>1, <2>3, <3>1, EndsAreIn
  <2> QED BY <2>2, <2>3
<1>2. DOMAIN queue' = Browser /\ queue' = [b \in Browser |-> queue'[b]]
  BY DEF Hub!Emit
<1> QED BY <1>1, <1>2

\* A run begins, or one of its workers emits.
LEMMA StartKeeps ==
    ASSUME Following, Hub!Start
    PROVE  Following'
<1> DEFINE e == [kind |-> "started", run |-> run + 1]
<1>1. /\ Sane /\ phase = "rest" /\ run < MaxRuns /\ run' = run + 1 /\ phase' = "sweep"
      /\ Hub!Emit(e) /\ UNCHANGED <<closing, stream, ask, shown, heard, missed>>
  BY DEF Following, Hub!Start, Hub!pageVars
<1>2. run \in Nat /\ e \in Event /\ ~Hub!Running /\ Hub!Running' /\ MaxRuns \in Nat
  BY <1>1, HubFacts DEF Event, Hub!Running
<1>3. Over \subseteq Over' /\ \A n \in Over : n < run'
  BY <1>1, <1>2 DEF Over
<1> HIDE DEF e
<1>4. \A b \in Browser : /\ Len(queue'[b]) <= Room /\ (stream[b] # "on" => queue'[b] = <<>>)
                         /\ IF Hub!Fits(b) THEN queue'[b] = Append(queue[b], e) ELSE queue'[b] = queue[b]
                         /\ Ends'[b] = Ends[b]
  BY <1>1, <1>2, Emitted DEF e
<1>5. 0 .. run \subseteq 0 .. run' /\ 1 .. run \subseteq 1 .. run' /\ run' \in 0 .. MaxRuns
  BY <1>1, <1>2
<1>6. Sane'
  <2>1. Ended'
    BY <1>1, <1>2, <1>3, <1>4 DEF Sane, Ended
  <2>2. Channels'
    BY <1>1, <1>2, Emitted DEF Sane, Channels
  <2>3. closing' \subseteq 1 .. run' /\ missed' \in [Browser -> 0 .. run'] /\ heard' \in [Browser -> 0 .. run']
    BY <1>1, <1>5, HubFacts
  <2>4. Hub!TypeOK'
    BY <1>1, <1>4, <1>5, <2>3 DEF Sane, Hub!TypeOK
  <2> QED BY <2>1, <2>2, <2>4 DEF Sane
<1>7. ASSUME NEW b \in Browser PROVE Followed(b)'
  <2>1. Due(b) \subseteq Due(b)'
    BY <1>1, <1>2, <1>4, <1>5 DEF Due
  <2>2. run' \in Due(b)'
    BY <1>1, <1>2 DEF Due
  <2>3. \A k \in Ends[b] : k < run'
    BY <1>1, <1>3 DEF Sane, Ended
  <2>4. e.run = run' /\ queue[b] \in Seq(Event)
    BY <1>1, HubFacts DEF e
  <2> QED BY <1>1, <1>2, <1>4, <2>1, <2>2, <2>3, <2>4, PageStays, PageGets DEF Following
<1> QED BY <1>6, <1>7 DEF Following

LEMMA ProgressKeeps ==
    ASSUME Following, Hub!Progress
    PROVE  Following'
<1> DEFINE e == [kind |-> "progress", run |-> run]
<1>1. /\ Sane /\ phase = "sweep" /\ run > 0
      /\ Hub!Emit(e) /\ UNCHANGED <<run, phase, closing, stream, ask, shown, heard, missed>>
  BY DEF Following, Sane, Ended, Hub!Running, Hub!Progress, Hub!Emitting, Hub!pageVars, Hub!scanVars
<1>2. run \in Nat /\ e \in Event /\ Hub!Running /\ Hub!Running'
  BY <1>1, HubFacts DEF Event, Hub!Running
<1>3. Over \subseteq Over' /\ \A n \in Over : n < run
  BY <1>1, <1>2 DEF Over
<1> HIDE DEF e
<1>4. \A b \in Browser : /\ Len(queue'[b]) <= Room /\ (stream[b] # "on" => queue'[b] = <<>>)
                         /\ IF Hub!Fits(b) THEN queue'[b] = Append(queue[b], e) ELSE queue'[b] = queue[b]
                         /\ Ends'[b] = Ends[b]
  BY <1>1, <1>2, Emitted DEF e
<1>5. Sane'
  <2>1. Ended'
    BY <1>1, <1>2, <1>3, <1>4 DEF Sane, Ended
  <2>2. Channels'
    BY <1>1, <1>2, Emitted DEF Sane, Channels
  <2>3. Hub!TypeOK'
    BY <1>1, <1>4 DEF Sane, Hub!TypeOK
  <2> QED BY <2>1, <2>2, <2>3 DEF Sane
<1>6. ASSUME NEW b \in Browser PROVE Followed(b)'
  <2>1. Due(b) \subseteq Due(b)'
    BY <1>1, <1>2, <1>4 DEF Due
  <2>2. run \in Due(b)'
    BY <1>1, <1>2 DEF Due
  <2>3. \A k \in Ends[b] : k < run
    BY <1>1, <1>3 DEF Sane, Ended
  <2>4. e.run = run /\ queue[b] \in Seq(Event)
    BY <1>1, HubFacts DEF e
  <2> QED BY <1>1, <1>2, <1>4, <2>1, <2>2, <2>3, <2>4, PageStays, PageGets DEF Following
<1> QED BY <1>5, <1>6 DEF Following

\* The workers have ended; the run is retired.
LEMMA CloseKeeps ==
    ASSUME Following, Hub!Join \/ Hub!Retire
    PROVE  Following'
<1>1. /\ Sane /\ UNCHANGED <<run, stream, queue, ask, shown, heard, missed>>
      /\ Hub!Running /\ run > 0 /\ run \in Nat
  BY HubFacts DEF Following, Sane, Ended, Hub!Running, Hub!Join, Hub!Retire, Hub!pageVars
<1>2. /\ closing \subseteq closing' /\ closing' \subseteq closing \cup {run}
      /\ phase' \in {"rest", "sweep", "close"}
      /\ Hub!Running' \/ run \in closing'
      /\ run \in closing' /\ run \notin closing => ~Hub!Running'
  BY <1>1 DEF Hub!Running, Hub!Join, Hub!Retire
<1>3. run \notin closing
  BY <1>1 DEF Sane, Ended, Over
<1>e. Ends' = Ends
  BY <1>1 DEF Ends, Hub!Ends
<1>4. Sane'
  <2>1. Ended'
    BY <1>1, <1>2, <1>3, <1>e DEF Sane, Ended, Over
  <2>2. Hub!TypeOK' /\ Channels'
    BY <1>1, <1>2 DEF Sane, Hub!TypeOK, Channels
  <2> QED BY <2>1, <2>2 DEF Sane
<1>5. ASSUME NEW b \in Browser PROVE Followed(b)'
  <2>1. Due(b) \subseteq Due(b)'
    BY <1>1, <1>2, <1>e DEF Due
  <2> QED BY <1>1, <2>1, PageStays DEF Following
<1> QED BY <1>4, <1>5 DEF Following

LEMMA LargerTyped ==
    ASSUME NEW m \in Nat, NEW n \in Nat
    PROVE  /\ Hub!Larger(m, n) \in Nat /\ m <= Hub!Larger(m, n) /\ n <= Hub!Larger(m, n)
           /\ Hub!Larger(m, n) \in {m, n}
BY DEF Hub!Larger

\* The end of a run is emitted.  A page that neither gets it nor is behind has
\* asked for the status, and what it shows now will be replaced.
LEMMA CompleteKeeps ==
    ASSUME Following, Hub!Complete
    PROVE  Following'
<1>1. PICK n \in closing :
         /\ closing' = closing \ {n} /\ Hub!Emit(Hub!Completed(n))
         /\ missed' = [b \in Browser |->
                         IF Hub!Behind(b) THEN Hub!Larger(missed[b], n) ELSE missed[b]]
  BY DEF Hub!Complete
<1>2. /\ Sane /\ UNCHANGED <<run, phase, stream, ask, shown, heard>> /\ n \in Over /\ n \in 1 .. run
      /\ n \in Nat /\ run \in Nat /\ Hub!Running' = Hub!Running
  BY HubFacts DEF Following, Sane, Ended, Over, Hub!Complete, Hub!pageVars, Hub!Running
<1> DEFINE e == Hub!Completed(n)
<1>3. e \in Event /\ e.kind = "completed" /\ e.run = n
  BY <1>2 DEF Hub!Completed, Event
<1> HIDE DEF e
<1>4. /\ queue' \in [Browser -> Seq(Event)]
      /\ \A b \in Browser :
            /\ Len(queue'[b]) <= Room /\ (stream[b] # "on" => queue'[b] = <<>>)
            /\ IF Hub!Fits(b) THEN queue'[b] = Append(queue[b], e) ELSE queue'[b] = queue[b]
            /\ Ends'[b] = Ends[b] \cup (IF Hub!Fits(b) THEN {n} ELSE {})
  BY <1>1, <1>2, <1>3, Emitted DEF e
<1>5. Over' = Over
  BY <1>2 DEF Over
<1>6. ASSUME NEW b \in Browser
      PROVE  /\ missed'[b] \in 0 .. run /\ missed[b] <= missed'[b]
             /\ Hub!Behind(b) => n <= missed'[b]
  <2>1. missed'[b] = IF Hub!Behind(b) THEN Hub!Larger(missed[b], n) ELSE missed[b]
    BY <1>1
  <2>2. missed[b] \in 0 .. run /\ missed[b] \in Nat
    BY <1>2, HubFacts
  <2> DEFINE l == Hub!Larger(missed[b], n)
  <2>3. l \in Nat /\ missed[b] <= l /\ n <= l /\ l \in {missed[b], n}
    BY <1>2, <2>2, LargerTyped
  <2> HIDE DEF l
  <2>4. l \in 0 .. run
    BY <1>2, <2>2, <2>3
  <2>5. missed'[b] = IF Hub!Behind(b) THEN l ELSE missed[b]
    BY <2>1 DEF l
  <2> QED BY <2>2, <2>3, <2>4, <2>5
<1>7. Sane'
  <2>1. Ended'
    BY <1>1, <1>2, <1>4, <1>5 DEF Sane, Ended
  <2>2. missed' \in [Browser -> 0 .. run']
    BY <1>1, <1>2, <1>6
  <2>3. Hub!TypeOK' /\ Channels'
    BY <1>1, <1>2, <1>4, <2>2 DEF Sane, Hub!TypeOK, Channels
  <2> QED BY <2>1, <2>3 DEF Sane
<1>8. ASSUME NEW b \in Browser PROVE Followed(b)'
  <2>1. queue[b] \in Seq(Event) /\ missed[b] \in Nat /\ missed'[b] \in Nat /\ Followed(b)
    BY <1>2, <1>6, HubFacts DEF Following
  <2>2. CASE Hub!Fits(b)
    <3>1. Due(b) \subseteq Due(b)'
      BY <1>1, <1>2, <1>4, <1>6, <2>1, <2>2 DEF Due
    <3> QED BY <1>2, <1>3, <1>4, <2>1, <2>2, <3>1, PageGets
  <2>3. CASE ~Hub!Fits(b) /\ Hub!Behind(b)
    <3>1. Due(b) \subseteq Due(b)'
      BY <1>1, <1>2, <1>4, <1>6, <2>1, <2>3 DEF Due
    <3> QED BY <1>2, <1>4, <2>1, <2>3, <3>1, PageStays
  <2>4. CASE ~Hub!Fits(b) /\ ~Hub!Behind(b)
    <3>1. stream[b] # "on" /\ ask[b] = Hub!Asking
      BY <2>4 DEF Hub!Behind
    <3>2. DOMAIN queue'[b] = {} /\ ask'[b] = Hub!Asking
      BY <1>2, <1>4, <3>1
    <3>3. Hub!Asking.at # "answer" /\ Hub!Asking # Hub!Quiet
      BY DEF Hub!Asking, Hub!Quiet
    <3> QED BY <3>2, <3>3 DEF Followed, Ordered, Awaited, Answered, Displayed
  <2> QED BY <2>2, <2>3, <2>4
<1> QED BY <1>7, <1>8 DEF Following

\* The process ends: no end is to come any more, and the pages have missed those
\* that were.
LEMMA HubCrashKeeps ==
    ASSUME Following, Hub!Crash
    PROVE  Following'
<1>1. /\ Sane /\ UNCHANGED <<run, ask, shown, heard>> /\ phase' = "rest" /\ closing' = {}
      /\ stream' = [b \in Browser |-> IF stream[b] = "on" THEN "broken" ELSE stream[b]]
      /\ queue' = [b \in Browser |-> <<>>]
      /\ run \in Nat /\ Room \in Nat /\ ~Hub!Running'
  BY HubFacts DEF Following, Hub!Crash, Hub!Running
<1>2. missed' = [b \in Browser |-> IF Hub!Running \/ closing # {} \/ Ends[b] # {}
                                   THEN run ELSE missed[b]]
  BY DEF Hub!Crash, Ends
<1>3. \A b \in Browser : Ends'[b] = {}
  BY <1>1, EndsAreIn DEF EndsIn
<1>4. Sane'
  <2>1. Ended'
    BY <1>1, <1>3 DEF Ended
  <2>2. stream' \in [Browser -> {"none", "on", "broken"}] /\ missed' \in [Browser -> 0 .. run']
    BY <1>1, <1>2, HubFacts
  <2>3. Hub!TypeOK' /\ Channels'
    BY <1>1, <2>2 DEF Sane, Hub!TypeOK, Channels
  <2> QED BY <2>1, <2>3 DEF Sane
<1>5. ASSUME NEW b \in Browser PROVE Followed(b)'
  <2>1. missed[b] \in 0 .. run
    BY <1>1, HubFacts
  <2>2. Due(b) \subseteq Due(b)'
    BY <1>1, <1>2, <1>3, <2>1 DEF Due
  <2>3. DOMAIN queue'[b] = {}
    BY <1>1
  <2> QED BY <1>1, <2>2, <2>3 DEF Following, Followed, Ordered, Awaited, Answered, Displayed
<1> QED BY <1>4, <1>5 DEF Following

\* What a page does is about that page only.
LEMMA PageKeeps ==
    ASSUME Following, NEW b \in Browser, UNCHANGED <<run, phase, closing>>,
           NEW q \in Seq(Event), Len(q) <= Room, EndsIn(q) \subseteq EndsIn(queue[b]),
           NEW s \in {"none", "on", "broken"}, s # "on" => q = <<>>,
           NEW a \in Asks, NEW w \in BOOLEAN, NEW m \in 0 .. run, NEW h \in 0 .. run,
           queue' = [queue EXCEPT ![b] = q], stream' = [stream EXCEPT ![b] = s],
           ask' = [ask EXCEPT ![b] = a], shown' = [shown EXCEPT ![b] = w],
           missed' = [missed EXCEPT ![b] = m], heard' = [heard EXCEPT ![b] = h],
           Followed(b)'
    PROVE  Following'
<1>1. Sane
  BY DEF Following
<1>2. \A c \in Browser : Ends'[c] \subseteq Ends[c] /\ (c # b => Ends'[c] = Ends[c])
  BY <1>1, HubFacts, EndsAreIn
<1>3. Over' = Over /\ Hub!Running' = Hub!Running
  BY DEF Over, Hub!Running
<1>4. Sane'
  <2>1. Ended'
    BY <1>1, <1>2, <1>3 DEF Sane, Ended
  <2>2. /\ queue' \in [Browser -> Seq(Event)] /\ ask' \in [Browser -> Asks]
        /\ stream' \in [Browser -> {"none", "on", "broken"}] /\ shown' \in [Browser -> BOOLEAN]
        /\ missed' \in [Browser -> 0 .. run'] /\ heard' \in [Browser -> 0 .. run']
    BY <1>1, HubFacts
  <2>3. \A c \in Browser : Len(queue'[c]) <= Room /\ (stream'[c] # "on" => queue'[c] = <<>>)
    BY <1>1, HubFacts
  <2>4. Hub!TypeOK' /\ Channels'
    BY <1>1, <2>2, <2>3 DEF Sane, Hub!TypeOK, Channels
  <2> QED BY <2>1, <2>4 DEF Sane
<1>5. ASSUME NEW c \in Browser, c # b PROVE Followed(c)'
  <2>1. /\ queue'[c] = queue[c] /\ ask'[c] = ask[c] /\ shown'[c] = shown[c]
        /\ heard'[c] = heard[c] /\ missed'[c] = missed[c]
    BY <1>1, <1>5, HubFacts
  <2>2. Due(c) \subseteq Due(c)'
    BY <1>2, <1>3, <1>5, <2>1 DEF Due
  <2> QED BY <2>1, <2>2, PageStays DEF Following
<1> QED BY <1>4, <1>5 DEF Following

\* The page is loaded anew.
LEMMA LoadKeeps ==
    ASSUME Following, NEW b \in Browser, Hub!Load(b)
    PROVE  Following'
<1>1. /\ Sane /\ UNCHANGED <<run, phase, closing>> /\ run \in Nat /\ Room \in Nat
      /\ queue' = [queue EXCEPT ![b] = <<>>] /\ stream' = [stream EXCEPT ![b] = "none"]
      /\ ask' = [ask EXCEPT ![b] = Hub!Asking] /\ shown' = [shown EXCEPT ![b] = FALSE]
      /\ missed' = [missed EXCEPT ![b] = 0] /\ heard' = [heard EXCEPT ![b] = 0]
  BY HubFacts DEF Following, Hub!Load, Hub!scanVars
<1>2. Followed(b)'
  <2>1. DOMAIN queue'[b] = {} /\ ask'[b] = Hub!Asking /\ shown'[b] = FALSE
    BY <1>1, HubFacts
  <2>2. Hub!Asking.at # "answer"
    BY DEF Hub!Asking
  <2> QED BY <2>1, <2>2 DEF Followed, Ordered, Awaited, Answered, Displayed
<1>3. /\ <<>> \in Seq(Event) /\ Len(<<>>) <= Room /\ EndsIn(<<>>) = {}
      /\ Hub!Asking \in Asks /\ FALSE \in BOOLEAN /\ 0 \in 0 .. run
  BY <1>1 DEF Asks, EndsIn
<1> QED BY <1>1, <1>2, <1>3, PageKeeps

\* The status is asked for, or the stream is connected.
LEMMA AskKeeps ==
    ASSUME Following, NEW b \in Browser, Hub!Button(b) \/ Hub!Serve(b) \/ Hub!Connect(b)
    PROVE  Following'
<1>1. /\ Sane /\ UNCHANGED <<run, phase, closing, queue, shown, missed, heard>>
      /\ run \in Nat /\ Followed(b)
  BY HubFacts DEF Following, Hub!Button, Hub!Serve, Hub!Connect, Hub!scanVars
<1>2. /\ queue[b] \in Seq(Event) /\ Len(queue[b]) <= Room
      /\ shown[b] \in BOOLEAN /\ missed[b] \in 0 .. run /\ heard[b] \in 0 .. run
      /\ queue' = [queue EXCEPT ![b] = queue[b]] /\ shown' = [shown EXCEPT ![b] = shown[b]]
      /\ missed' = [missed EXCEPT ![b] = missed[b]] /\ heard' = [heard EXCEPT ![b] = heard[b]]
  BY <1>1, HubFacts
<1>3. PICK s \in {"none", "on", "broken"}, a \in Asks :
         /\ s # "on" => queue[b] = <<>>
         /\ stream' = [stream EXCEPT ![b] = s] /\ ask' = [ask EXCEPT ![b] = a]
         /\ \/ a = Hub!Asking \/ a = ask[b]
            \/ a = Hub!Answer(run, Hub!Running)
  <2>1. CASE Hub!Button(b)
    <3>1. /\ stream' = [stream EXCEPT ![b] = stream[b]]
          /\ stream[b] \in {"none", "on", "broken"} /\ (stream[b] # "on" => queue[b] = <<>>)
          /\ ask' = [ask EXCEPT ![b] = Hub!Asking] /\ Hub!Asking \in Asks
      BY <1>1, <2>1, HubFacts DEF Hub!Button, Asks
    <3> QED BY <3>1
  <2>2. CASE Hub!Serve(b)
    <3>1. Hub!Answer(run, Hub!Running) \in Asks
      BY <1>1 DEF Hub!Answer, Asks, Hub!Running
    <3> QED BY <1>1, <2>2, <3>1, HubFacts DEF Hub!Serve
  <2>3. CASE Hub!Connect(b)
    BY <1>1, <2>3, HubFacts DEF Hub!Connect
  <2> QED BY <2>1, <2>2, <2>3
<1>4. Due(b)' = Due(b)
  <2>1. Ends' = Ends /\ Hub!Running' = Hub!Running
    BY <1>1 DEF Ends, Hub!Ends, Hub!Running
  <2> QED BY <1>1, <2>1 DEF Due
<1>5. ask'[b] = a
  BY <1>1, <1>3, HubFacts
<1>6. Ordered(b)' /\ Awaited(b)'
  BY <1>1, <1>4 DEF Followed, Ordered, Awaited
<1>7. Answered(b)' /\ Displayed(b)'
  <2>1. CASE a = ask[b]
    BY <1>1, <1>4, <1>5, <2>1 DEF Followed, Answered, Displayed
  <2>2. CASE a = Hub!Asking
    <3>1. a.at # "answer" /\ a # Hub!Quiet
      BY <2>2 DEF Hub!Asking, Hub!Quiet
    <3> QED BY <1>5, <3>1 DEF Answered, Displayed
  <2>3. CASE a = Hub!Answer(run, Hub!Running)
    <3>1. a.at = "answer" /\ a.run = run /\ a.running = Hub!Running
      BY <2>3 DEF Hub!Answer
    <3>2. a # Hub!Quiet
      BY <3>1 DEF Hub!Quiet
    <3>3. Hub!Running => run \in Due(b)
      BY <1>1 DEF Due, Sane, Ended
    <3> QED BY <1>4, <1>5, <3>1, <3>2, <3>3 DEF Answered, Displayed
  <2> QED BY <1>3, <2>1, <2>2, <2>3
<1> QED BY <1>1, <1>2, <1>3, <1>6, <1>7, PageKeeps DEF Followed

\* An answer is shown; the end of its run is due, or was heard and is counted
\* as missed now.
LEMMA ShowKeeps ==
    ASSUME Following, NEW b \in Browser, Hub!Show(b)
    PROVE  Following'
<1> DEFINE n == ask[b].run
           yes == ask[b].running
           m == IF yes /\ heard[b] >= n THEN Hub!Larger(missed[b], n) ELSE missed[b]
<1>1. /\ Sane /\ UNCHANGED <<run, phase, closing, queue, stream, heard>>
      /\ run \in Nat /\ Followed(b) /\ ask[b].at = "answer"
  BY HubFacts DEF Following, Hub!Show, Hub!scanVars
<1>2. /\ queue[b] \in Seq(Event) /\ Len(queue[b]) <= Room
      /\ missed[b] \in 0 .. run /\ heard[b] \in 0 .. run
      /\ stream[b] \in {"none", "on", "broken"} /\ (stream[b] # "on" => queue[b] = <<>>)
      /\ queue' = [queue EXCEPT ![b] = queue[b]] /\ stream' = [stream EXCEPT ![b] = stream[b]]
      /\ heard' = [heard EXCEPT ![b] = heard[b]]
  BY <1>1, HubFacts
<1>3. n \in Nat /\ yes \in BOOLEAN
  <2>1. ask[b] \in Asks
    BY <1>1, HubFacts
  <2>2. ask[b] \in [at : {"answer"}, run : Nat, running : BOOLEAN]
    BY <1>1, <2>1 DEF Asks, Hub!Quiet, Hub!Asking
  <2> QED BY <2>2
<1>4. /\ ask' = [ask EXCEPT ![b] = Hub!Quiet] /\ shown' = [shown EXCEPT ![b] = yes]
      /\ missed' = [missed EXCEPT ![b] = m] /\ Hub!Quiet \in Asks
  BY <1>1, HubFacts DEF Hub!Show, Asks
<1>5. m \in 0 .. run /\ missed[b] <= m /\ (yes /\ heard[b] >= n => n <= m)
  <2> DEFINE l == Hub!Larger(missed[b], n)
  <2>1. /\ l \in Nat /\ missed[b] <= l /\ n <= l /\ l \in {missed[b], n}
        /\ missed[b] \in Nat /\ heard[b] \in Nat
    BY <1>2, <1>3, LargerTyped
  <2> HIDE DEF l, n, yes
  <2>2. m = IF yes /\ heard[b] >= n THEN l ELSE missed[b]
    BY DEF l, n, yes
  <2> HIDE DEF m
  <2> QED BY <1>1, <1>2, <1>3, <2>1, <2>2
<1> HIDE DEF m
<1>6. Answered(b)
  BY <1>1 DEF Followed
<1> HIDE DEF n, yes
<1>7. yes => n \in Due(b) \cup 1 .. heard[b]
  BY <1>1, <1>6 DEF n, yes, Answered
<1>8. missed'[b] = m /\ ask'[b] = Hub!Quiet /\ shown'[b] = yes
  BY <1>1, <1>4, HubFacts
<1>9. Ends' = Ends /\ Hub!Running' = Hub!Running
  BY <1>1 DEF Ends, Hub!Ends, Hub!Running
<1>10. Due(b) \subseteq Due(b)'
  BY <1>1, <1>2, <1>5, <1>8, <1>9 DEF Due
<1>11. yes => n \in Due(b)'
  <2>1. CASE n \in Due(b)
    BY <1>10, <2>1
  <2>2. CASE yes /\ n \in 1 .. heard[b]
    <3>1. n <= m /\ n \in 1 .. run
      BY <1>1, <1>2, <1>3, <1>5, <2>2
    <3> QED BY <1>1, <1>8, <3>1 DEF Due
  <2> QED BY <1>7, <2>1, <2>2
<1>12. Followed(b)'
  <2>1. Ordered(b)' /\ Awaited(b)'
    BY <1>1, <1>10 DEF Followed, Ordered, Awaited
  <2>2. Hub!Quiet.at # "answer"
    BY DEF Hub!Quiet
  <2>3. Answered(b)' /\ Displayed(b)'
    BY <1>8, <1>11, <2>2 DEF Answered, Displayed
  <2> QED BY <2>1, <2>3 DEF Followed
<1> QED BY <1>1, <1>2, <1>3, <1>4, <1>5, <1>12, PageKeeps

\* The stream breaks; the ends in the channel are missed.
LEMMA DisconnectKeeps ==
    ASSUME Following, NEW b \in Browser, Hub!Disconnect(b)
    PROVE  Following'
<1>1. /\ Sane /\ UNCHANGED <<run, phase, closing, ask, shown, heard>>
      /\ run \in Nat /\ Room \in Nat /\ Followed(b)
      /\ queue' = [queue EXCEPT ![b] = <<>>] /\ stream' = [stream EXCEPT ![b] = "broken"]
  BY HubFacts DEF Following, Hub!Disconnect, Hub!scanVars
<1>2. PICK n \in Ends[b] \cup {0} :
         /\ \A k \in Ends[b] : k <= n
         /\ missed' = [missed EXCEPT ![b] = Hub!Larger(missed[b], n)]
  BY <1>1, HubFacts DEF Hub!Disconnect, Ends
<1>3. /\ ask[b] \in Asks /\ shown[b] \in BOOLEAN /\ missed[b] \in 0 .. run /\ heard[b] \in 0 .. run
      /\ ask' = [ask EXCEPT ![b] = ask[b]] /\ shown' = [shown EXCEPT ![b] = shown[b]]
      /\ heard' = [heard EXCEPT ![b] = heard[b]] /\ Ends[b] \subseteq 1 .. run
  BY <1>1, HubFacts
<1> DEFINE m == Hub!Larger(missed[b], n)
<1>4. m \in 0 .. run /\ missed[b] <= m /\ n <= m /\ n \in Nat
  <2>1. missed[b] \in Nat /\ n \in Nat /\ n <= run
    BY <1>1, <1>3
  <2>2. m \in Nat /\ missed[b] <= m /\ n <= m /\ m \in {missed[b], n}
    BY <2>1, LargerTyped
  <2> HIDE DEF m
  <2> QED BY <1>1, <1>3, <2>1, <2>2
<1>5. missed' = [missed EXCEPT ![b] = m]
  BY <1>2
<1> HIDE DEF m
<1>6. missed'[b] = m /\ queue'[b] = <<>>
  BY <1>1, <1>5, HubFacts
<1>7. Due(b) \subseteq Due(b)'
  <2>1. Hub!Running' = Hub!Running
    BY <1>1 DEF Hub!Running
  <2> QED BY <1>1, <1>2, <1>3, <1>4, <1>6, <2>1 DEF Due
<1>8. Followed(b)'
  <2>1. DOMAIN queue'[b] = {}
    BY <1>6
  <2> QED BY <1>1, <1>7, <2>1 DEF Followed, Ordered, Awaited, Answered, Displayed
<1>9. <<>> \in Seq(Event) /\ Len(<<>>) <= Room /\ EndsIn(<<>>) = {}
  BY <1>1 DEF EndsIn
<1> QED BY <1>1, <1>3, <1>4, <1>5, <1>8, <1>9, PageKeeps

\* An event arrives.
LEMMA ReceiveKeeps ==
    ASSUME Following, NEW b \in Browser, Hub!Receive(b)
    PROVE  Following'
<1> DEFINE q == queue[b]
           e == Head(q)
           p == Tail(q)
           end == e.kind = "completed"
           h == IF end THEN Hub!Larger(heard[b], e.run) ELSE heard[b]
           m == IF end /\ e.run >= missed[b] THEN 0 ELSE missed[b]
<1>1. /\ Sane /\ UNCHANGED <<run, phase, closing, stream, ask>>
      /\ run \in Nat /\ Followed(b) /\ q # <<>>
      /\ queue' = [queue EXCEPT ![b] = p] /\ shown' = [shown EXCEPT ![b] = ~end]
      /\ heard' = [heard EXCEPT ![b] = h] /\ missed' = [missed EXCEPT ![b] = m]
  BY HubFacts DEF Following, Hub!Receive, Hub!scanVars
<1>2. /\ q \in Seq(Event) /\ Len(q) <= Room /\ Room \in Nat /\ Ends[b] = EndsIn(q) /\ EndsIn(q) \subseteq 1 .. run
      /\ ask[b] \in Asks /\ stream[b] \in {"none", "on", "broken"} /\ stream[b] = "on"
      /\ missed[b] \in 0 .. run /\ heard[b] \in 0 .. run
      /\ stream' = [stream EXCEPT ![b] = stream[b]] /\ ask' = [ask EXCEPT ![b] = ask[b]]
  BY <1>1, HubFacts, EndsAreIn
<1> DEFINE k == e.run
<1>3. /\ p \in Seq(Event) /\ e \in Event /\ Len(p) < Len(q) /\ Len(q) \in Nat /\ Len(p) \in Nat
      /\ e = q[1] /\ 1 \in DOMAIN q
      /\ \A i \in DOMAIN p : i \in Nat \ {0} /\ i + 1 \in DOMAIN q /\ p[i] = q[i + 1]
      /\ EndsIn(p) \subseteq EndsIn(q)
      /\ \A n \in EndsIn(q) : n \in EndsIn(p) \/ (end /\ n = k)
  <2>1. p = Tail(q) /\ e = Head(q) /\ (end <=> e.kind = "completed") /\ k = e.run
        /\ q \in Seq(Event) /\ q # <<>>
    BY <1>1, <1>2
  <2> HIDE DEF q, p, e, end, k, h, m
  <2>2. /\ p \in Seq(Event) /\ Head(q) \in Event /\ Len(p) < Len(q)
        /\ Len(q) \in Nat /\ Len(p) \in Nat /\ Head(q) = q[1] /\ 1 \in DOMAIN q
        /\ \A i \in DOMAIN p : i \in Nat \ {0} /\ i + 1 \in DOMAIN q /\ p[i] = q[i + 1]
        /\ EndsIn(p) \subseteq EndsIn(q)
        /\ \A n \in EndsIn(q) : n \in EndsIn(p) \/ (Head(q).kind = "completed" /\ n = Head(q).run)
    BY <2>1, EndsOfTail
  <2> QED BY <2>1, <2>2
<1>4. k \in Nat /\ end \in BOOLEAN /\ (end => k \in EndsIn(q) /\ k \in 1 .. run)
  <2>1. e.run \in Nat
    BY <1>3 DEF Event
  <2>2. end => q[1].run \in EndsIn(q)
    BY <1>3 DEF EndsIn
  <2> QED BY <1>2, <1>3, <2>1, <2>2
<1>5. /\ queue'[b] = p /\ ask'[b] = ask[b] /\ shown'[b] = ~end /\ heard'[b] = h /\ missed'[b] = m
  BY <1>1, HubFacts
<1>6. /\ m = IF end /\ k >= missed[b] THEN 0 ELSE missed[b]
      /\ h = IF end THEN Hub!Larger(heard[b], k) ELSE heard[b]
  OBVIOUS
<1>7. Ends'[b] = EndsIn(p)
  BY <1>5, EndsAreIn
<1>8. Ordered(b) /\ Awaited(b) /\ Answered(b)
  BY <1>1 DEF Followed
<1> HIDE DEF p, e, end, k, m, h
<1>9. m \in 0 .. run /\ h \in 0 .. run /\ heard[b] <= h /\ (end => k <= h)
  <2> DEFINE l == Hub!Larger(heard[b], k)
  <2>1. heard[b] \in Nat /\ l \in Nat /\ heard[b] <= l /\ k <= l /\ l \in {heard[b], k}
    BY <1>2, <1>4, LargerTyped
  <2> HIDE DEF l
  <2>2. h = IF end THEN l ELSE heard[b]
    BY <1>6 DEF l
  <2> QED BY <1>1, <1>2, <1>4, <1>6, <2>1, <2>2
<1>10. Ordered(b)'
  <2> SUFFICES ASSUME NEW i \in DOMAIN p, NEW j \in DOMAIN p, i < j,
                      p[i].kind = "completed", p[j].kind # "completed"
               PROVE  p[i].run < p[j].run
    BY <1>5 DEF Ordered
  <2>1. i + 1 < j + 1
    BY <1>3
  <2> QED BY <1>3, <1>8, <2>1 DEF Ordered
<1>11. \A n \in Due(b) : \/ n \in Due(b)'
                         \/ end /\ n \in 1 .. k
  <2> SUFFICES ASSUME NEW n \in Due(b), ~(end /\ n \in 1 .. k)
               PROVE  n \in Due(b)'
    OBVIOUS
  <2>1. /\ n \in 1 .. run
        /\ \/ n = run /\ Hub!Running
           \/ n \in closing
           \/ n \in EndsIn(q)
           \/ n <= missed[b]
    BY <1>2 DEF Due
  <2>2. n \in EndsIn(q) => n \in EndsIn(p)
    BY <1>3, <1>4, <2>1
  <2>3. n <= missed[b] => n <= m
    BY <1>1, <1>2, <1>4, <1>6, <2>1
  <2>4. Hub!Running' = Hub!Running
    BY <1>1 DEF Hub!Running
  <2> QED BY <1>1, <1>5, <1>7, <2>1, <2>2, <2>3, <2>4 DEF Due
<1>12. Awaited(b)'
  <2> SUFFICES ASSUME NEW i \in DOMAIN p, p[i].kind # "completed"
               PROVE  p[i].run \in Due(b)'
    BY <1>5 DEF Awaited
  <2>1. i + 1 \in DOMAIN q /\ p[i] = q[i + 1] /\ 1 < i + 1
    BY <1>3
  <2>2. p[i].run \in Due(b)
    BY <1>8, <2>1 DEF Awaited
  <2>3. end => k < p[i].run
    BY <1>3, <1>8, <2>1 DEF Ordered, end, k
  <2>4. ~(end /\ p[i].run \in 1 .. k)
    <3>1. p[i].run \in 1 .. run
      BY <2>2 DEF Due
    <3> QED BY <1>1, <1>4, <2>3, <3>1
  <2> QED BY <1>11, <2>2, <2>4
<1>13. Answered(b)'
  <2> SUFFICES ASSUME ask[b].at = "answer", ask[b].running
               PROVE  ask[b].run \in Due(b)' \cup 1 .. h
    BY <1>5 DEF Answered
  <2>1. ask[b].run \in Due(b) \cup 1 .. heard[b]
    BY <1>8 DEF Answered
  <2>2. CASE ask[b].run \in 1 .. heard[b]
    BY <1>2, <1>9, <2>2
  <2>3. CASE ask[b].run \in Due(b)
    <3>1. end => 1 .. k \subseteq 1 .. h
      BY <1>4, <1>9
    <3> QED BY <1>11, <2>3, <3>1
  <2> QED BY <2>1, <2>2, <2>3
<1>14. Displayed(b)'
  <2>1. CASE end
    BY <1>5, <2>1 DEF Displayed
  <2>2. CASE ~end
    <3>1. k \in Due(b)
      BY <1>3, <1>8, <2>2 DEF Awaited, end, k
    <3>2. k \in Due(b)'
      BY <1>11, <2>2, <3>1
    <3> QED BY <3>2 DEF Displayed
  <2> QED BY <2>1, <2>2
<1>15. Followed(b)'
  BY <1>10, <1>12, <1>13, <1>14 DEF Followed
<1>16. Len(p) <= Room
  BY <1>2, <1>3
<1>17. (~end) \in BOOLEAN
  OBVIOUS
<1> QED BY <1>1, <1>2, <1>3, <1>9, <1>15, <1>16, <1>17, PageKeeps

LEMMA HubInit ==
    ASSUME Hub!Init
    PROVE  Following
<1>1. /\ run = 0 /\ phase = "rest" /\ closing = {}
      /\ stream = [b \in Browser |-> "none"] /\ queue = [b \in Browser |-> <<>>]
      /\ ask = [b \in Browser |-> Hub!Asking] /\ shown = [b \in Browser |-> FALSE]
      /\ missed = [b \in Browser |-> 0] /\ heard = [b \in Browser |-> 0]
      /\ MaxRuns \in Nat /\ Room \in Nat
  BY HubOK DEF Hub!Init, Hub!HubAssumption
<1>2. \A b \in Browser : Ends[b] = {}
  BY <1>1, EndsAreIn DEF EndsIn
<1>3. Ended
  BY <1>1, <1>2 DEF Ended, Hub!Running
<1>4. <<>> \in Seq(Event) /\ Len(<<>>) <= Room /\ Hub!Asking \in Asks /\ DOMAIN <<>> = {}
  BY <1>1 DEF Asks
<1>5. Channels
  BY <1>1, <1>4 DEF Channels
<1>6. Hub!TypeOK
  BY <1>1, <1>4 DEF Hub!TypeOK
<1>7. ASSUME NEW b \in Browser PROVE Followed(b)
  <2>1. Hub!Asking.at # "answer"
    BY DEF Hub!Asking
  <2> QED BY <1>1, <1>4, <2>1 DEF Followed, Ordered, Awaited, Answered, Displayed
<1> QED BY <1>3, <1>5, <1>6, <1>7 DEF Following, Sane

LEMMA HubStep ==
    ASSUME Following, [Next]_vars
    PROVE  Following'
<1>1. CASE Hub!Next
  <2>1. CASE Hub!ScanStep
    BY <2>1, StartKeeps, ProgressKeeps, CloseKeeps, CompleteKeeps, HubCrashKeeps DEF Hub!ScanStep
  <2>2. ASSUME NEW b \in Browser, Hub!PageStep(b) PROVE Following'
    BY <2>2, LoadKeeps, AskKeeps, ShowKeeps, DisconnectKeeps, ReceiveKeeps DEF Hub!PageStep
  <2> QED BY <1>1, <2>1, <2>2 DEF Hub!Next
<1>2. CASE UNCHANGED hubVars
  <2>1. UNCHANGED <<run, phase, closing, stream, queue, ask, shown, missed, heard>>
    BY <1>2 DEF hubVars
  <2>2. Ends' = Ends /\ Over' = Over /\ Hub!Running' = Hub!Running
    BY <2>1 DEF Ends, Hub!Ends, Over, Hub!Running
  <2>3. Sane'
    BY <2>1, <2>2 DEF Following, Sane, Hub!TypeOK, Channels, Ended
  <2>4. ASSUME NEW b \in Browser PROVE Followed(b)'
    <3>1. Due(b) \subseteq Due(b)'
      BY <2>1, <2>2 DEF Due
    <3> QED BY <2>1, <3>1, PageStays DEF Following
  <2> QED BY <2>3, <2>4 DEF Following
<1>3. Hub!Next \/ UNCHANGED hubVars
  BY DEF Next, RangeNext, DnsNext, HubNext, vars
<1> QED BY <1>1, <1>2, <1>3

\* When everything has arrived, the end of the run a page shows is due for no
\* other reason than that the run goes on or that the page could not see it.
LEMMA ShownIsDue ==
    ASSUME Following
    PROVE  ShownForCause
<1> SUFFICES ASSUME NEW b \in Browser, Hub!Settled(b), shown[b]
             PROVE  Hub!Running \/ missed[b] # 0
  BY DEF ShownForCause, Hub!ShownForCause
<1>1. closing = {} /\ queue[b] = <<>> /\ ask[b] = Hub!Quiet
  BY DEF Hub!Settled
<1>2. PICK n \in Due(b) : TRUE
  BY <1>1 DEF Following, Followed, Displayed
<1>3. Ends[b] = {}
  BY <1>1, EndsAreIn DEF EndsIn
<1>4. n \in 1 .. run /\ (Hub!Running \/ n <= missed[b])
  BY <1>1, <1>3 DEF Due
<1>5. run \in Nat /\ missed[b] \in 0 .. run
  BY HubFacts DEF Following
<1> QED BY <1>4, <1>5

\* A page that shows a running scan when there is none, and nothing is on its way
\* to it, could not see the end of a run (EventHub, showProgress).
THEOREM RunningShownForCause == FairSpec => []ShownForCause
<1>1. Init => Following
  BY HubInit DEF Init
<1>2. Following /\ [Next]_vars => Following'
  BY HubStep
<1>3. Following => ShownForCause
  BY ShownIsDue
<1> QED BY <1>1, <1>2, <1>3, PTL DEF FairSpec

\* The variables of the addresses, of a message and of the pages keep their
\* types.
THEOREM TypeCorrect == FairSpec => [](Ranges!TypeOK /\ Dns!TypeOK /\ Hub!TypeOK)
<1>1. Init => Fed /\ Reading /\ Following
  BY RangeInit, ReadingInit, HubInit DEF Init
<1>2. Fed /\ Reading /\ Following /\ [Next]_vars => (Fed /\ Reading /\ Following)'
  BY RangeStep, ReadingStep, HubStep
<1>3. Fed /\ Reading /\ Following => Ranges!TypeOK /\ Dns!TypeOK /\ Hub!TypeOK
  BY DEF Fed, Reading, Following, Sane
<1> QED BY <1>1, <1>2, <1>3, PTL DEF FairSpec
=============================================================================
