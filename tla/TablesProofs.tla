---------------------------- MODULE TablesProofs ----------------------------
(***************************************************************************)
(* Theorems about what is written about devices: the relations between     *)
(* rows, with the least-set reading of the recursive query and the cycle   *)
(* check; the rows that sightings are written to; and the types that       *)
(* devices are given.  For any sets of rows, devices, addresses and ids.   *)
(***************************************************************************)
EXTENDS Tables, Integers, Sequences, FiniteSetTheorems, WellFoundedInduction, TLAPS


-----------------------------------------------------------------------------
\* Descendants(e, d) holds the children of d and is closed.
LEMMA DescendantsClosed ==
    ASSUME NEW e, NEW d \in Device
    PROVE  /\ Descendants(e, d) \subseteq Device
           /\ Children(e, d) \subseteq Descendants(e, d)
           /\ Closed(e, Descendants(e, d))
BY DEF Descendants, Closed, Children

\* It lies in every closed set that holds the children of d.
LEMMA DescendantsLeast ==
    ASSUME NEW e, NEW d \in Device, NEW S \in SUBSET Device,
           Closed(e, S), Children(e, d) \subseteq S
    PROVE  Descendants(e, d) \subseteq S
BY DEF Descendants

\* A descendant's descendants are descendants.
LEMMA DescendantsTransitive ==
    ASSUME NEW e, NEW c \in Device, NEW d \in Descendants(e, c)
    PROVE  Descendants(e, d) \subseteq Descendants(e, c)
<1>1. /\ d \in Device
      /\ Descendants(e, c) \in SUBSET Device
      /\ Closed(e, Descendants(e, c))
    BY DescendantsClosed
<1>2. Children(e, d) \subseteq Descendants(e, c)
    BY <1>1 DEF Closed
<1> QED  BY <1>1, <1>2, DescendantsLeast

\* With fewer relations there are fewer descendants.
LEMMA DescendantsMonotone ==
    ASSUME NEW e, NEW f, NEW d \in Device,
           \A x, y \in Device : Exists(f, <<x, y>>) => Exists(e, <<x, y>>)
    PROVE  Descendants(f, d) \subseteq Descendants(e, d)
<1>1. \A x \in Device : Children(f, x) \subseteq Children(e, x)
    BY DEF Children
<1>2. /\ Descendants(e, d) \in SUBSET Device
      /\ Closed(e, Descendants(e, d))
      /\ Children(e, d) \subseteq Descendants(e, d)
    BY DescendantsClosed
<1>3. Closed(f, Descendants(e, d))
    BY <1>1, <1>2 DEF Closed
<1>4. Children(f, d) \subseteq Descendants(e, d)
    BY <1>1, <1>2
<1> QED  BY <1>2, <1>3, <1>4, DescendantsLeast

-----------------------------------------------------------------------------
\* The cycle check is enough: relations from one parent to a set of children,
\* none of which leads to the parent, close no cycle.
LEMMA FanAcyclic ==
    ASSUME NEW e, NEW f, NEW parent \in Device, NEW C \in SUBSET Device,
           Acyclic(e),
           parent \notin C,
           \A c \in C : ~WouldCycle(e, parent, c),
           \A x, y \in Device : Exists(f, <<x, y>>) =>
               Exists(e, <<x, y>>) \/ (x = parent /\ y \in C)
    PROVE  Acyclic(f)
<1> SUFFICES ASSUME NEW d \in Device, d \in Descendants(f, d)
             PROVE  FALSE
    BY DEF Acyclic
<1> DEFINE D == Descendants(e, d)
<1>1. /\ D \in SUBSET Device
      /\ Children(e, d) \subseteq D
      /\ Closed(e, D)
      /\ d \notin D
    BY DescendantsClosed DEF Acyclic
<1>2. \A x \in Device : Children(f, x) \subseteq
            Children(e, x) \cup (IF x = parent THEN C ELSE {})
    BY DEF Children
<1>3. CASE d # parent /\ parent \notin D
  <2>1. Closed(f, D)
      BY <1>1, <1>2, <1>3 DEF Closed
  <2>2. Children(f, d) \subseteq D
      BY <1>1, <1>2, <1>3
  <2> QED  BY <1>1, <2>1, <2>2, DescendantsLeast
<1>4. CASE d = parent \/ parent \in D
  <2> DEFINE B == {x \in Device : \E c \in C : x \in Descendants(e, c)}
             S == D \cup C \cup B
  <2>1. \A c \in C : /\ Children(e, c) \subseteq B
                     /\ \A x \in Descendants(e, c) : Children(e, x) \subseteq B
    <3> SUFFICES ASSUME NEW c \in C
                 PROVE  /\ Children(e, c) \subseteq B
                        /\ \A x \in Descendants(e, c) : Children(e, x) \subseteq B
        OBVIOUS
    <3>1. /\ Descendants(e, c) \subseteq Device
          /\ Children(e, c) \subseteq Descendants(e, c)
          /\ Closed(e, Descendants(e, c))
        BY DescendantsClosed
    <3> QED  BY <3>1 DEF Closed
  <2>2. \A x \in S : Children(e, x) \subseteq S
      BY <1>1, <2>1 DEF Closed
  <2>3. S \in SUBSET Device
      BY <1>1
  <2>4. Closed(f, S)
      BY <1>2, <2>2, <2>3 DEF Closed
  <2>5. Children(f, d) \subseteq S
      BY <1>1, <1>2
  <2>6. d \in S
      BY <2>3, <2>4, <2>5, DescendantsLeast
  <2>7. d \notin C
      BY <1>4 DEF WouldCycle
  <2>8. d \notin B
    <3> SUFFICES ASSUME NEW c \in C, d \in Descendants(e, c)
                 PROVE  FALSE
        OBVIOUS
    <3>1. D \subseteq Descendants(e, c)
        BY DescendantsTransitive
    <3> QED  BY <1>4, <3>1 DEF WouldCycle
  <2> QED  BY <1>1, <2>6, <2>7, <2>8
<1> QED  BY <1>3, <1>4

\* The checks of set_parent do not depend on the relations it has already
\* added: a child that did not lead to the parent before does not lead to it
\* with more children below the parent.  This is why SetParent may check all
\* children first.
LEMMA ChecksCommute ==
    ASSUME NEW e, NEW f, NEW parent \in Device, NEW child \in Device \ {parent},
           NEW C \in SUBSET Device,
           ~WouldCycle(e, parent, child),
           \A x, y \in Device : Exists(f, <<x, y>>) =>
               Exists(e, <<x, y>>) \/ (x = parent /\ y \in C)
    PROVE  ~WouldCycle(f, parent, child)
<1> DEFINE D == Descendants(e, child)
<1>1. /\ D \in SUBSET Device
      /\ Children(e, child) \subseteq D
      /\ Closed(e, D)
      /\ parent \notin D
    BY DescendantsClosed DEF WouldCycle
<1>2. \A x \in Device \ {parent} : Children(f, x) \subseteq Children(e, x)
    BY DEF Children
<1>3. Closed(f, D) /\ Children(f, child) \subseteq D
    BY <1>1, <1>2 DEF Closed
<1> QED  BY <1>1, <1>3, DescendantsLeast DEF WouldCycle

-----------------------------------------------------------------------------
\* What the tables keep to.

\* The call in progress names two different stored rows.
CallSound == lldp.at # "idle" => /\ lldp.pair[1] # lldp.pair[2]
                                 /\ lldp.pair[1] \in present
                                 /\ lldp.pair[2] \in present

IInv == TypeOK /\ Sound /\ CallSound

\* A graph over some rows: typed, without self-loops or dangling ends.
Graph(e, rows) ==
    /\ e \in [Pair -> Kind]
    /\ \A p \in Pair : Exists(e, p) => p[1] # p[2] /\ p[1] \in rows /\ p[2] \in rows

LEMMA NoCallOK == NoCall \in Call /\ NoCall.at = "idle"
BY TopologyAssumption DEF NoCall, Call, Pair

\* Merging a duplicate leaves a graph over the other rows.
LEMMA MergedGraph ==
    ASSUME NEW e, NEW rows \in SUBSET Device, NEW keep \in rows, NEW dup \in rows,
           keep # dup, Graph(e, rows)
    PROVE  Graph(Merged(e, keep, dup), rows \ {dup})
<1> DEFINE f == Merged(e, keep, dup)
<1>1. \A p \in Pair : Origin(p, keep, dup) \in Pair
    BY DEF Origin, Pair
<1>2. \A p \in Pair : f[p] = IF dup \in {p[1], p[2]} \/ p = <<keep, keep>> THEN "none"
                              ELSE IF Exists(e, p) THEN e[p]
                              ELSE e[Origin(p, keep, dup)]
    BY DEF Merged
<1>3. f \in [Pair -> Kind]
  <2>1. \A p \in Pair : f[p] \in Kind
      BY <1>1, <1>2 DEF Graph, Kind
  <2> QED  BY <2>1 DEF Merged
<1>4. ASSUME NEW p \in Pair, Exists(f, p)
      PROVE  p[1] # p[2] /\ p[1] \in rows \ {dup} /\ p[2] \in rows \ {dup}
  <2>1. dup \notin {p[1], p[2]} /\ p # <<keep, keep>>
      BY <1>2, <1>4 DEF Exists
  <2>2. CASE Exists(e, p)
      BY <2>1, <2>2 DEF Graph
  <2>3. CASE ~Exists(e, p)
    <3> DEFINE q == Origin(p, keep, dup)
    <3>1. q \in Pair /\ Exists(e, q)
        BY <1>1, <1>2, <1>4, <2>1, <2>3 DEF Exists
    <3>2. q[1] # q[2] /\ q[1] \in rows /\ q[2] \in rows
        BY <3>1 DEF Graph
    <3>3. p = <<p[1], p[2]>>
        BY DEF Pair
    <3> QED  BY <2>1, <3>2, <3>3 DEF Origin
  <2> QED  BY <2>2, <2>3
<1> QED  BY <1>3, <1>4 DEF Graph

\* Rooting a graph at the Internet row leaves a graph.
LEMMA RootedGraph ==
    ASSUME NEW e, NEW rows \in SUBSET Device, NEW g \in rows, g # Internet,
           Internet \in rows, Graph(e, rows)
    PROVE  Graph(Rooted(e, rows, g), rows)
<1> DEFINE top == IF Exists(e, <<Internet, g>>) THEN e
                  ELSE [e EXCEPT ![<<Internet, g>>] = "manual"]
<1>1. <<Internet, g>> \in Pair
    BY DEF Pair
<1>2. Graph(top, rows)
    BY <1>1 DEF Graph, Kind, Exists
<1>3. Orphans(top, rows, g) \subseteq rows \ {g}
    BY DEF Orphans
<1>4. Rooted(e, rows, g) =
         [p \in Pair |-> IF p[1] = g /\ p[2] \in Orphans(top, rows, g)
                         THEN "inferred" ELSE top[p]]
    BY DEF Rooted
<1> HIDE DEF top
<1> QED  BY <1>2, <1>3, <1>4 DEF Graph, Kind, Exists

-----------------------------------------------------------------------------
\* One lemma per action that writes the connections table.

LEMMA SoundCreate ==
    ASSUME IInv, NEW d \in Device, Create(d)
    PROVE  IInv'
BY DEF IInv, TypeOK, Sound, CallSound, Create, Exists

LEMMA SoundReaddress ==
    ASSUME IInv, Readdress
    PROVE  IInv'
BY DEF IInv, TypeOK, Sound, CallSound, Readdress, Exists

LEMMA SoundDelete ==
    ASSUME IInv, NEW d \in Device, DeleteDevice(d)
    PROVE  IInv'
<1> USE DEF IInv, DeleteDevice
<1>1. edge' \in [Pair -> Kind]
    BY DEF TypeOK, Without, Kind
<1>2. Sound'
    BY <1>1 DEF Sound, Exists, Without, TypeOK
<1>3. lldp' \in Call /\ CallSound'
    BY NoCallOK DEF Voided, CallSound, TypeOK
<1> QED  BY <1>1, <1>2, <1>3 DEF TypeOK

LEMMA SoundPatch ==
    ASSUME IInv, NEW d \in Device, PatchConnection(d)
    PROVE  IInv'
<1> USE DEF IInv, PatchConnection
<1>1. PICK new \in {{}} \cup {{<<p, d>>} : p \in present \ {d}} :
         edge' = [p \in Pair |-> IF p[2] # d THEN edge[p]
                                 ELSE IF p \in new THEN "manual" ELSE "none"]
    OBVIOUS
<1>2. \A p \in new : p[1] \in present /\ p[1] # p[2] /\ p[2] = d
    OBVIOUS
<1>3. edge' \in [Pair -> Kind]
    BY <1>1 DEF TypeOK, Kind
<1>4. Sound'
    BY <1>1, <1>2 DEF Sound, Exists, TypeOK
<1> QED  BY <1>3, <1>4 DEF TypeOK, CallSound

LEMMA SoundAdd ==
    ASSUME IInv, NEW d \in Device, AddConnection(d)
    PROVE  IInv'
<1> USE DEF IInv, AddConnection
<1>1. PICK parent \in present \ {d} :
         edge' = [Detached(edge, d) EXCEPT ![<<parent, d>>] = "manual"]
    OBVIOUS
<1>2. Detached(edge, d) \in [Pair -> Kind]
    BY DEF TypeOK, Detached, Kind
<1>3. edge' \in [Pair -> Kind]
    BY <1>1, <1>2 DEF Kind
<1>4. \A p \in Pair : Exists(edge', p) => Exists(edge, p) \/ p = <<parent, d>>
    BY <1>1, <1>2 DEF Exists, Detached
<1>5. Sound'
    BY <1>4 DEF Sound
<1> QED  BY <1>3, <1>5 DEF TypeOK, CallSound

LEMMA SoundDeleteConnection ==
    ASSUME IInv, NEW p \in Pair, DeleteConnection(p)
    PROVE  IInv'
<1> USE DEF IInv, DeleteConnection
<1>1. edge' \in [Pair -> Kind]
    BY DEF TypeOK, Kind
<1>2. Sound'
    BY DEF Sound, Exists, TypeOK
<1> QED  BY <1>1, <1>2 DEF TypeOK, CallSound

LEMMA SoundSetParent ==
    ASSUME IInv, NEW C \in SUBSET present, SetParent(C)
    PROVE  IInv'
<1> USE DEF IInv
<1>1. PICK parent \in present \ C :
         \A p \in Pair : edge'[p] =
            IF p[1] = parent /\ p[2] \in C THEN "manual"
            ELSE IF p[2] \in C /\ ~Confirmed(edge, p) THEN "none" ELSE edge[p]
    BY DEF SetParent
<1>2. edge' \in [Pair -> Kind]
  <2>1. \A p \in Pair : edge'[p] \in Kind
      BY <1>1 DEF TypeOK, Kind
  <2> QED  BY <2>1 DEF SetParent
<1>3. Sound'
    BY <1>1 DEF Sound, Exists, TypeOK, SetParent
<1>4. UNCHANGED <<present, gateway, lldp>>
    BY DEF SetParent
<1> QED  BY <1>2, <1>3, <1>4 DEF TypeOK, CallSound

LEMMA SoundEnsureCore ==
    ASSUME IInv, NEW keep \in Device, EnsureCore(keep)
    PROVE  IInv'
<1> USE DEF IInv
<1> DEFINE dups == Duplicates(keep)
           rows == (present \ dups) \cup {Internet, keep}
<1>1. /\ keep \notin Manual /\ keep # Internet
      /\ Internet \in Device
      /\ dups = {} \/ \E d \in gateway \ {keep} : dups = {d}
      /\ present \subseteq Device /\ gateway \subseteq present \ Manual
      /\ (dups # {}) => keep \in present
      /\ Internet \notin dups /\ keep \notin dups
    BY TopologyAssumption DEF EnsureCore, Duplicates, TypeOK
<1>2. /\ rows \in SUBSET Device
      /\ keep \in rows /\ Internet \in rows
    BY <1>1
<1>3. Graph(edge, present)
    BY DEF TypeOK, Sound, Graph
<1>4. Graph(Unified(keep), rows)
  <2>1. CASE dups = {}
    <3>1. Unified(keep) = edge
        BY <2>1 DEF Unified
    <3> QED  BY <1>3, <2>1, <3>1 DEF Graph
  <2>2. ASSUME NEW d \in gateway \ {keep}, dups = {d}
        PROVE  Graph(Unified(keep), rows)
    <3>1. Unified(keep) = Merged(edge, keep, d)
        BY <2>2 DEF Unified
    <3>2. d \in present /\ keep \in present /\ keep # d
        BY <1>1, <2>2
    <3>3. Graph(Merged(edge, keep, d), present \ {d})
        BY <1>1, <1>3, <3>2, MergedGraph
    <3> QED  BY <2>2, <3>1, <3>3 DEF Graph
  <2> QED  BY <1>1, <2>1, <2>2
<1>5. present' = rows /\ gateway' = {keep} /\ lldp' = Voided(lldp, dups)
    BY DEF EnsureCore
<1>6. Graph(edge', rows)
    BY <1>1, <1>2, <1>4, <1>5, RootedGraph DEF EnsureCore
<1>7. lldp' \in Call /\ CallSound'
    BY <1>5, NoCallOK DEF Voided, CallSound, TypeOK
<1> HIDE DEF rows, dups
<1> QED  BY <1>1, <1>2, <1>5, <1>6, <1>7 DEF TypeOK, Sound, Graph

LEMMA SoundLldp ==
    ASSUME IInv, (\E p \in Pair : LldpRead(p)) \/ LldpReverse \/ LldpWrite
    PROVE  IInv'
<1> USE DEF IInv
<1>1. CASE \E p \in Pair : LldpRead(p)
    BY <1>1 DEF TypeOK, Sound, CallSound, LldpRead, Call, Exists
<1>2. CASE LldpReverse
    BY <1>2, NoCallOK DEF TypeOK, Sound, CallSound, LldpReverse, Call, Exists
<1>3. CASE LldpWrite
  <2>1. lldp.pair \in Pair
      BY DEF TypeOK, Call
  <2>2. edge' \in [Pair -> Kind]
      BY <1>3, <2>1 DEF LldpWrite, Upserted, TypeOK, Kind
  <2>3. Sound'
      BY <1>3, <2>1 DEF LldpWrite, Upserted, TypeOK, Sound, CallSound, Exists
  <2> QED  BY <1>3, <2>2, <2>3, NoCallOK DEF LldpWrite, TypeOK, CallSound
<1> QED  BY <1>1, <1>2, <1>3

LEMMA InvInit == Init => IInv
BY NoCallOK DEF Init, IInv, TypeOK, Sound, CallSound, NoEdges, Exists, Kind

LEMMA InvNext == IInv /\ [Next]_vars => IInv'
<1> SUFFICES ASSUME IInv, [Next]_vars PROVE IInv'
    OBVIOUS
<1>1. CASE UNCHANGED vars
    BY <1>1 DEF vars, IInv, TypeOK, Sound, CallSound, Exists
<1>2. ASSUME NEW d \in Device, Create(d) PROVE IInv'
    BY <1>2, SoundCreate
<1>3. CASE Readdress
    BY <1>3, SoundReaddress
<1>4. CASE UserStep
    BY <1>4, SoundDelete, SoundPatch, SoundAdd, SoundDeleteConnection,
       SoundSetParent DEF UserStep
<1>5. CASE DiscoveryStep
    BY <1>5, SoundEnsureCore, SoundLldp DEF DiscoveryStep
<1> QED  BY <1>1, <1>2, <1>3, <1>4, <1>5 DEF Next

\* Every variable holds a value of its kind, for any number of devices.
THEOREM TypeCorrect == Spec => []TypeOK
<1>1. IInv => TypeOK
    BY DEF IInv
<1> QED  BY <1>1, InvInit, InvNext, PTL DEF Spec

\* No relation dangles and none joins a device with itself, whatever is
\* deleted, merged, added or discovered, in any order.
THEOREM ConnectionsSound == Spec => []Sound
<1>1. IInv => Sound
    BY DEF IInv
<1> QED  BY <1>1, InvInit, InvNext, PTL DEF Spec

-----------------------------------------------------------------------------
\* What steps do not do.

LEMMA AddStepAcyclic ==
    ASSUME TypeOK, Acyclic(edge), NEW d \in Device, AddConnection(d)
    PROVE  Acyclic(edge')
<1>1. PICK parent \in present \ {d} :
         /\ ~WouldCycle(edge, parent, d)
         /\ edge' = [Detached(edge, d) EXCEPT ![<<parent, d>>] = "manual"]
    BY DEF AddConnection
<1>2. parent \in Device /\ parent \notin {d}
    BY DEF TypeOK
<1>3. \A x, y \in Device : Exists(edge', <<x, y>>) =>
          Exists(edge, <<x, y>>) \/ (x = parent /\ y \in {d})
  <2>1. \A p \in Pair : Exists(edge', p) => Exists(edge, p) \/ p = <<parent, d>>
      BY <1>1 DEF Detached, Exists
  <2> QED  BY <2>1 DEF Pair
<1>4. {d} \in SUBSET Device /\ \A c \in {d} : ~WouldCycle(edge, parent, c)
    BY <1>1
<1>5. Acyclic(edge)
    OBVIOUS
<1> QED  BY <1>2, <1>3, <1>4, <1>5, FanAcyclic

LEMMA SetParentAcyclic ==
    ASSUME TypeOK, Acyclic(edge), NEW C \in SUBSET present, SetParent(C)
    PROVE  Acyclic(edge')
<1> DEFINE e == [p \in Pair |-> IF p[2] \in C /\ ~Confirmed(edge, p)
                                THEN "none" ELSE edge[p]]
<1>1. PICK parent \in present \ C :
         /\ \A c \in C : ~WouldCycle(e, parent, c)
         /\ edge' = [p \in Pair |-> IF p[1] = parent /\ p[2] \in C
                                    THEN "manual" ELSE e[p]]
    BY DEF SetParent
<1>2. \A x, y \in Device : Exists(e, <<x, y>>) => Exists(edge, <<x, y>>)
    BY DEF Exists, Pair
<1>3. \A x, y \in Device : Exists(edge', <<x, y>>) =>
          Exists(e, <<x, y>>) \/ (x = parent /\ y \in C)
    BY <1>1 DEF Exists, Pair
<1>4. parent \in Device /\ parent \notin C /\ C \in SUBSET Device
    BY DEF TypeOK
<1> HIDE DEF e
<1>5. Acyclic(e)
    BY <1>2, DescendantsMonotone DEF Acyclic
<1> QED  BY <1>1, <1>3, <1>4, <1>5, FanAcyclic

\* Adding a relation, to one device or to many at once, never closes a
\* cycle, in a graph of any size and shape.
THEOREM AddingNeverCycles == Spec => AddingKeepsAcyclic
<1>1. TypeOK /\ [Next]_vars => [Acyclic(edge) /\ UserAdds => Acyclic(edge')]_vars
  <2> SUFFICES ASSUME TypeOK, Acyclic(edge), UserAdds
               PROVE  Acyclic(edge')
      OBVIOUS
  <2>1. CASE \E d \in Device : AddConnection(d)
      BY <2>1, AddStepAcyclic
  <2>2. CASE \E C \in SUBSET present \ {{}} : SetParent(C)
      BY <2>2, SetParentAcyclic
  <2> QED  BY <2>1, <2>2 DEF UserAdds
<1> QED  BY <1>1, TypeCorrect, PTL DEF Spec, AddingKeepsAcyclic

LEMMA EnsureCoreKeepsConfirmed ==
    ASSUME IInv, NEW keep \in Device, EnsureCore(keep), NEW p \in Pair,
           Confirmed(edge, p), p[1] \in present', p[2] \in present'
    PROVE  Confirmed(edge', p)
<1> DEFINE e == Unified(keep)
           top == IF Exists(e, <<Internet, keep>>) THEN e
                  ELSE [e EXCEPT ![<<Internet, keep>>] = "manual"]
<1>1. /\ Exists(edge, p) /\ p[1] # p[2]
      /\ p[1] \in Device /\ p[2] \in Device /\ p = <<p[1], p[2]>>
    BY DEF Confirmed, Exists, IInv, Sound, Pair
<1>2. /\ p[1] \notin Duplicates(keep) /\ p[2] \notin Duplicates(keep)
      /\ edge' = Rooted(e, present', keep)
    BY TopologyAssumption DEF EnsureCore, Duplicates, IInv, TypeOK
<1>3. e[p] = "manual"
  <2>1. CASE Duplicates(keep) = {}
      BY <2>1 DEF Unified, Confirmed
  <2>2. ASSUME NEW d, Duplicates(keep) = {d}
        PROVE  e[p] = "manual"
    <3>1. e = Merged(edge, keep, d)
        BY <2>2 DEF Unified
    <3>2. d \notin {p[1], p[2]} /\ p # <<keep, keep>>
        BY <1>1, <1>2, <2>2
    <3> QED  BY <1>1, <3>1, <3>2 DEF Merged, Confirmed
  <2> QED  BY <2>1, <2>2 DEF Duplicates
<1>4. top[p] = "manual" /\ Exists(top, <<p[1], p[2]>>)
    BY <1>1, <1>3 DEF Exists
<1>5. p[2] \notin Orphans(top, present', keep)
    BY <1>1, <1>4 DEF Orphans, Parents
<1>6. edge' = [q \in Pair |-> IF q[1] = keep /\ q[2] \in Orphans(top, present', keep)
                              THEN "inferred" ELSE top[q]]
    BY <1>2 DEF Rooted
<1> HIDE DEF top
<1> QED  BY <1>4, <1>5, <1>6 DEF Confirmed

\* Discovery never removes or weakens a relation the user has confirmed
\* between two rows that stay, whatever races with the LLDP call.
THEOREM DiscoveryKeepsConfirmed == Spec => ConfirmedKept
<1>1. IInv /\ [Next]_vars =>
        [DiscoveryStep => \A p \in Pair :
            Confirmed(edge, p) /\ p[1] \in present' /\ p[2] \in present'
               => Confirmed(edge', p)]_vars
  <2> SUFFICES ASSUME IInv, DiscoveryStep, NEW p \in Pair, Confirmed(edge, p),
                      p[1] \in present', p[2] \in present'
               PROVE  Confirmed(edge', p)
      OBVIOUS
  <2>1. CASE \E d \in Device : EnsureCore(d)
      BY <2>1, EnsureCoreKeepsConfirmed
  <2>2. CASE (\E q \in Pair : LldpRead(q)) \/ LldpReverse
      BY <2>2 DEF LldpRead, LldpReverse, Confirmed
  <2>3. CASE LldpWrite
      BY <2>3 DEF LldpWrite, Upserted, Confirmed, IInv, TypeOK, Call
  <2> QED  BY <2>1, <2>2, <2>3 DEF DiscoveryStep
<1> QED  BY <1>1, InvInit, InvNext, PTL DEF Spec, ConfirmedKept

-----------------------------------------------------------------------------
\* A scan roots all.

\* A set of naturals has a least element.
LEMMA LeastNatural ==
    ASSUME NEW S \in SUBSET Nat, S # {}
    PROVE  \E x \in S : \A y \in S : x <= y
<1> DEFINE R == OpToRel(<, Nat)
<1>1. \A x, y \in Nat : <<x, y>> \in R <=> x < y
    BY DEF OpToRel
<1>2. IsWellFoundedOn(R, Nat)
    BY NatLessThanWellFounded
<1> HIDE DEF R
<1>3. PICK x \in S : \A y \in S : <<y, x>> \notin R
    BY <1>2, WFMin
<1>4. ASSUME NEW y \in S PROVE x <= y
  <2>1. ~(y < x) /\ x \in Nat /\ y \in Nat
      BY <1>1, <1>3
  <2> QED  BY <2>1
<1> QED  BY <1>4

\* What has descendants has more of them than each of these.
LEMMA ParentHasMore ==
    ASSUME NEW e, Acyclic(e), IsFiniteSet(Device), NEW p \in Device, NEW d \in Device,
           Exists(e, <<p, d>>)
    PROVE  /\ Cardinality(Descendants(e, d)) \in Nat /\ Cardinality(Descendants(e, p)) \in Nat
           /\ Cardinality(Descendants(e, d)) < Cardinality(Descendants(e, p))
<1>1. d \in Descendants(e, p)
    BY DescendantsClosed DEF Children
<1>2. d \notin Descendants(e, d) /\ Descendants(e, d) \cup {d} \subseteq Descendants(e, p)
    BY <1>1, DescendantsTransitive DEF Acyclic
<1>3. /\ IsFiniteSet(Descendants(e, d)) /\ IsFiniteSet(Descendants(e, p))
      /\ Cardinality(Descendants(e, d)) \in Nat /\ Cardinality(Descendants(e, p)) \in Nat
    BY DescendantsClosed, FS_Subset, FS_CardinalityType
<1>4. Cardinality(Descendants(e, d) \cup {d}) = Cardinality(Descendants(e, d)) + 1
    BY <1>2, <1>3, FS_AddElement
<1>5. Cardinality(Descendants(e, d) \cup {d}) <= Cardinality(Descendants(e, p))
    BY <1>2, <1>3, FS_Subset
<1> QED  BY <1>3, <1>4, <1>5

\* Where every device has a parent there is a cycle.
LEMMA ParentsEnd ==
    ASSUME NEW e, Acyclic(e), IsFiniteSet(Device), NEW U \in SUBSET Device,
           \A d \in U : \E p \in U : Exists(e, <<p, d>>)
    PROVE  U = {}
<1> SUFFICES ASSUME U # {} PROVE FALSE
    OBVIOUS
<1> DEFINE size(d) == Cardinality(Descendants(e, d))
           N == Cardinality(Device)
<1>1. N \in Nat /\ \A d \in Device : size(d) \in Nat /\ size(d) <= N
    BY DescendantsClosed, FS_Subset, FS_CardinalityType
<1>2. \A d, p \in Device : Exists(e, <<p, d>>) => size(d) < size(p)
    BY ParentHasMore
<1> HIDE DEF size, N
<1>3. {N - size(d) : d \in U} \in SUBSET Nat /\ {N - size(d) : d \in U} # {}
    BY <1>1
<1>4. PICK x \in {N - size(d) : d \in U} : \A y \in {N - size(d) : d \in U} : x <= y
    BY <1>3, LeastNatural
<1>5. PICK d \in U : \A p \in U : N - size(d) <= N - size(p)
    BY <1>4
<1>6. PICK p \in U : size(d) < size(p)
    BY <1>2
<1> QED  BY <1>1, <1>5, <1>6

LEMMA EnsureCoreRoots ==
    ASSUME IInv, IInv', NEW keep \in Device, EnsureCore(keep), Acyclic(edge'),
           IsFiniteSet(Device)
    PROVE  present' \ {Internet} \subseteq Descendants(edge', Internet)
<1> DEFINE S == Descendants(edge', Internet)
           U == (present' \ {Internet}) \ S
           e == Unified(keep)
           top == IF Exists(e, <<Internet, keep>>) THEN e
                  ELSE [e EXCEPT ![<<Internet, keep>>] = "manual"]
<1>1. /\ Internet \in Device /\ Internet # keep /\ present' \subseteq Device
      /\ edge' \in [Pair -> Kind]
    BY TopologyAssumption DEF EnsureCore, IInv, TypeOK
<1>2. edge' = [p \in Pair |-> IF p[1] = keep /\ p[2] \in Orphans(top, present', keep)
                              THEN "inferred" ELSE top[p]]
    BY DEF EnsureCore, Rooted
<1>3. Children(edge', Internet) \subseteq S /\ Closed(edge', S) /\ S \subseteq Device
    BY <1>1, DescendantsClosed
<1>4. keep \in S
  <2>1. Exists(edge', <<Internet, keep>>)
    <3>1. <<Internet, keep>> \in Pair
        BY <1>1 DEF Pair
    <3>2. edge'[<<Internet, keep>>] = top[<<Internet, keep>>]
        BY <1>1, <1>2, <3>1
    <3>3. CASE Exists(e, <<Internet, keep>>)
        BY <3>2, <3>3 DEF Exists
    <3>4. CASE ~Exists(e, <<Internet, keep>>)
      <4>1. DOMAIN e = Pair
          BY DEF Unified, Merged, IInv, TypeOK
      <4>2. top[<<Internet, keep>>] = "manual"
          BY <3>1, <3>4, <4>1
      <4> QED  BY <3>2, <4>2 DEF Exists
    <3> QED  BY <3>3, <3>4
  <2> QED  BY <1>1, <1>3, <2>1 DEF Children
<1>5. ASSUME NEW d \in U PROVE \E p \in U : Exists(edge', <<p, d>>)
  <2>1. d \in present' /\ d \notin {Internet, keep} /\ d \notin S
      BY <1>4
  <2>2. d \notin Orphans(top, present', keep)
    <3>1. ASSUME d \in Orphans(top, present', keep) PROVE FALSE
      <4>1. <<keep, d>> \in Pair
          BY <1>1, <2>1 DEF Pair
      <4>2. Exists(edge', <<keep, d>>)
          BY <1>2, <3>1, <4>1 DEF Exists
      <4>3. d \in Children(edge', keep)
          BY <1>1, <2>1, <4>2 DEF Children
      <4> QED  BY <1>3, <1>4, <2>1, <4>3 DEF Closed
    <3> QED  BY <3>1
  <2>3. PICK p \in Device : Exists(top, <<p, d>>)
      BY <2>1, <2>2 DEF Orphans, Parents
  <2>4. Exists(edge', <<p, d>>) /\ <<p, d>> \in Pair
    <3>1. <<p, d>> \in Pair
        BY <1>1, <2>1 DEF Pair
    <3>2. edge'[<<p, d>>] = top[<<p, d>>]
        BY <1>2, <2>2, <3>1
    <3> QED  BY <2>3, <3>1, <3>2 DEF Exists
  <2>5. p \in present'
      BY <2>4 DEF IInv, Sound
  <2>6. d \in Children(edge', p)
      BY <1>1, <2>1, <2>4 DEF Children
  <2>7. p # Internet /\ p \notin S
      BY <1>3, <2>1, <2>6 DEF Closed
  <2> QED  BY <2>4, <2>5, <2>7
<1>6. U = {}
  <2>1. U \in SUBSET Device
      BY <1>1
  <2> HIDE DEF U
  <2> QED  BY <1>5, <2>1, ParentsEnd
<1> QED  BY <1>6

\* After a scan every device hangs below the Internet node, unless the graph
\* has a cycle (ensureCore): a device that none of the roots reaches has a
\* parent of its kind, and a finite table cannot go on like that.
THEOREM ScanReachesAll == ASSUME IsFiniteSet(Device)
                          PROVE  Spec => ScanRootsAll
<1>1. IInv /\ IInv' /\ [Next]_vars =>
        [(\E d \in gateway' : EnsureCore(d)) /\ Acyclic(edge') =>
            present' \ {Internet} \subseteq Descendants(edge', Internet)]_vars
  <2>1. IInv' => gateway' \subseteq Device
      BY DEF IInv, TypeOK
  <2> QED  BY <2>1, EnsureCoreRoots
<1> QED  BY <1>1, InvInit, InvNext, PTL DEF Spec, ScanRootsAll

-----------------------------------------------------------------------------
\* The rows that sightings are written to.


-----------------------------------------------------------------------------
\* The inductive invariant.

\* The constraint on stable_key.
Unique == \A i, j \in Identity!Rows : row[i].key = row[j].key => i = j

\* A row has the key of a MAC address as soon as it knows one; the key of an
\* IP address is that of the address it shows.
Named == \A i \in Identity!Rows :
            \/ row[i].mac # {} /\ \E d \in Mac : row[i].key = Identity!ByMac(d)
            \/ row[i].mac = {} /\ row[i].key = Identity!ByIP(row[i].ip)

\* A row shows where the device is that it was last written for.  If it was
\* written for another one before, it has the key of the last one: that one
\* found it by its key, for the row showed the address of the other.
Recent(i) ==
    /\ i \notin Identity!Rows => latest[i] = {}
    /\ latest[i] = {} => earlier[i] = {}
    /\ latest[i] \cap earlier[i] = {}
    /\ \A d \in latest[i] : /\ d \in DOMAIN at /\ row[i].ip = at[d]
                            /\ earlier[i] # {} => row[i].key = Identity!ByMac(d)

Settled == /\ Unique /\ Named /\ ~refused
           /\ \A i \in Id : Recent(i)

-----------------------------------------------------------------------------
\* A key tells what it was made of.
LEMMA KeysDiffer ==
    /\ \A d, e : Identity!ByMac(d) = Identity!ByMac(e) => d = e
    /\ \A a, b : Identity!ByIP(a) = Identity!ByIP(b) => a = b
    /\ \A d, a : Identity!ByMac(d) # Identity!ByIP(a)
  BY DEF Identity!ByMac, Identity!ByIP

\* The key a sighting has.
LEMMA KeyOf ==
    /\ \A a : Identity!Key({}, a) = Identity!ByIP(a)
    /\ \A d, a : Identity!Key({d}, a) = Identity!ByMac(d)
<1>1. \A a : Identity!Key({}, a) = Identity!ByIP(a)
  BY DEF Identity!Key, Identity!ByIP
<1>2. ASSUME NEW d, NEW a PROVE Identity!Key({d}, a) = Identity!ByMac(d)
  <2>1. {d} # {}
    OBVIOUS
  <2>2. (CHOOSE e \in {d} : TRUE) = d
    OBVIOUS
  <2> QED BY <2>1, <2>2 DEF Identity!Key, Identity!ByMac
<1> QED BY <1>1, <1>2

\* What the network gives a device.
LEMMA Placed ==
    ASSUME Identity!TypeOK
    PROVE  /\ \A d \in DOMAIN at : d \in Mac /\ at[d] \in Address
           /\ \A d, e \in DOMAIN at : at[d] = at[e] => d = e
  BY DEF Identity!TypeOK, Identity!Places

-----------------------------------------------------------------------------
\* A sighting.  In what follows r is what the chosen row, or the new one,
\* holds afterwards.

\* The row that is chosen: the one with the key, if there is one.
LEMMA ChosenRow ==
    ASSUME NEW k, NEW ip, NEW i \in Identity!Chosen(k, ip)
    PROVE  /\ i \in Identity!Rows
           /\ \/ row[i].key = k
              \/ row[i].ip = ip /\ \A j \in Identity!Rows : row[j].key # k
  BY DEF Identity!Chosen, Identity!Keyed, Identity!Showing

\* Its new key is that of no other row: nothing is refused.
LEMMA KeyIsFree ==
    ASSUME Unique, NEW mac, NEW ip, NEW i \in Identity!Chosen(Identity!Key(mac, ip), ip)
    PROVE  Identity!Keyed(Identity!Updated(row[i], mac, ip).key) \subseteq {i}
<1>1. Identity!Updated(row[i], mac, ip).key \in {row[i].key, Identity!Key(mac, ip)}
  BY DEF Identity!Updated
<1> QED BY <1>1, ChosenRow DEF Identity!Keyed, Unique

\* The type of the row.
LEMMA RowTyped ==
    ASSUME Identity!TypeOK, NEW d \in DOMAIN at, NEW mac \in {{}, {d}}
    PROVE  /\ [key |-> Identity!Key(mac, at[d]), mac |-> mac, ip |-> at[d]] \in Identity!RowType
           /\ \A i \in Identity!Rows : Identity!Updated(row[i], mac, at[d]) \in Identity!RowType
<1>1. d \in Mac /\ at[d] \in Address
  BY Placed
<1>2. Identity!Key(mac, at[d]) \in {Identity!ByMac(e) : e \in Mac} \cup {Identity!ByIP(a) : a \in Address}
  BY <1>1, KeyOf
<1>3. \A i \in Identity!Rows : row[i] \in Identity!RowType
  BY DEF Identity!TypeOK
<1> QED BY <1>1, <1>2, <1>3 DEF Identity!RowType, Identity!Updated

\* Writing a row keeps the types.
LEMMA PutTyped ==
    ASSUME Identity!TypeOK, NEW i \in Id, NEW r \in Identity!RowType, NEW d \in Mac,
           Identity!Put(i, r), Identity!Written(i, d), UNCHANGED <<at, refused>>
    PROVE  Identity!TypeOK'
<1>1. row' \in [Identity!Rows' -> Identity!RowType] /\ Identity!Rows' = Identity!Rows \cup {i}
  BY DEF Identity!TypeOK, Identity!Put, Identity!Rows
<1>2. /\ latest' \in [Id -> {{}} \cup {{e} : e \in Mac}]
      /\ earlier' \in [Id -> SUBSET Mac]
  BY DEF Identity!TypeOK, Identity!Written
<1> QED BY <1>1, <1>2 DEF Identity!TypeOK

\* Writing a row for the device at its address keeps the rest, if the key is
\* free, fits the columns, and is the device's own where another one was
\* recorded since the network changed.
LEMMA PutSettled ==
    ASSUME Identity!TypeOK, Settled, NEW d \in DOMAIN at, NEW i \in Id, NEW r \in Identity!RowType,
           Identity!Put(i, r), Identity!Written(i, d), UNCHANGED <<at, refused>>,
           r.ip = at[d],
           \A j \in Identity!Rows \ {i} : row[j].key # r.key,
           \/ r.mac # {} /\ \E e \in Mac : r.key = Identity!ByMac(e)
           \/ r.mac = {} /\ r.key = Identity!ByIP(r.ip),
           latest[i] \cup earlier[i] \subseteq {d} \/ r.key = Identity!ByMac(d),
           d \notin earlier[i]
    PROVE  Settled'
<1>1. Identity!Rows' = Identity!Rows \cup {i} /\ row'[i] = r /\ \A j \in Identity!Rows \ {i} : row'[j] = row[j]
  BY DEF Identity!Put, Identity!Rows
<1>2. Unique'
  BY <1>1 DEF Unique, Settled
<1>3. Named'
  BY <1>1 DEF Named, Settled
<1>4. /\ latest' \in [Id -> SUBSET Mac] /\ latest'[i] = {d}
      /\ earlier'[i] = earlier[i] \cup (latest[i] \ {d})
      /\ \A j \in Id \ {i} : latest'[j] = latest[j] /\ earlier'[j] = earlier[j]
  BY Placed DEF Identity!TypeOK, Identity!Written
<1>5. Recent(i)'
  BY <1>1, <1>4 DEF Recent
<1>6. ASSUME NEW j \in Id \ {i} PROVE Recent(j)'
  BY <1>1, <1>4 DEF Settled, Recent
<1> QED BY <1>2, <1>3, <1>5, <1>6 DEF Settled

\* A row that has been written for another device since is found by its key
\* only, and has not been written for this one.
LEMMA FoundByKey ==
    ASSUME Identity!TypeOK, Settled, NEW d \in DOMAIN at, NEW mac \in {{}, {d}},
           NEW i \in Identity!Chosen(Identity!Key(mac, at[d]), at[d])
    PROVE  /\ d \notin earlier[i]
           /\ \/ latest[i] \cup earlier[i] \subseteq {d}
              \/ row[i].key = Identity!ByMac(d) /\ row[i].mac # {}
<1>1. i \in Identity!Rows /\ i \in Id
  BY ChosenRow DEF Identity!TypeOK
<1>2. Recent(i) /\ latest[i] \in {{}} \cup {{e} : e \in Mac}
  BY <1>1 DEF Settled, Identity!TypeOK
<1>3. row[i].mac # {} \/ row[i].key = Identity!ByIP(row[i].ip)
  BY <1>1 DEF Settled, Named
<1>4. CASE latest[i] = {}
  BY <1>2, <1>4 DEF Recent
<1>5. CASE latest[i] = {d}
  BY <1>2, <1>3, <1>5, KeysDiffer DEF Recent
<1>6. ASSUME NEW e \in Mac, latest[i] = {e}, e # d
      PROVE  row[i].key = Identity!ByMac(d) /\ row[i].mac # {} /\ d \notin earlier[i]
  <2>1. e \in DOMAIN at /\ row[i].ip = at[e] /\ at[e] # at[d]
    BY <1>2, <1>6, Placed DEF Recent
  <2>2. row[i].key = Identity!Key(mac, at[d])
    BY <2>1, ChosenRow
  <2>3. row[i].key # Identity!ByIP(at[d])
    BY <1>1, <2>1, KeysDiffer DEF Settled, Named
  <2>4. row[i].key = Identity!ByMac(d)
    BY <2>2, <2>3, KeyOf
  <2>5. earlier[i] = {}
    BY <1>2, <1>6, <2>4, KeysDiffer DEF Recent
  <2> QED BY <1>3, <2>4, <2>5, KeysDiffer
<1> QED BY <1>2, <1>4, <1>5, <1>6

\* A sighting that makes a row.
LEMMA InsertKeeps ==
    ASSUME Identity!TypeOK, Settled, NEW d \in DOMAIN at, NEW mac \in {{}, {d}},
           Identity!Insert(d, mac, at[d]), UNCHANGED at
    PROVE  (Identity!TypeOK /\ Settled)'
<1> DEFINE r == [key |-> Identity!Key(mac, at[d]), mac |-> mac, ip |-> at[d]]
<1>1. PICK i \in Identity!Free : Identity!Put(i, r) /\ Identity!Written(i, d)
  BY DEF Identity!Insert
<1>2. i \in Id /\ i \notin Identity!Rows
  BY DEF Identity!Free
<1>3. r \in Identity!RowType /\ d \in Mac
  BY RowTyped, Placed
<1>4. UNCHANGED <<at, refused>>
  BY DEF Identity!Insert
<1>5. \A j \in Identity!Rows : row[j].key # r.key
  BY DEF Identity!Insert, Identity!Chosen, Identity!Keyed
<1>6. \/ r.mac # {} /\ \E e \in Mac : r.key = Identity!ByMac(e)
      \/ r.mac = {} /\ r.key = Identity!ByIP(r.ip)
  BY <1>3, KeyOf
<1>7. latest[i] = {} /\ earlier[i] = {}
  BY <1>2 DEF Settled, Recent
<1>8. Identity!TypeOK'
  BY <1>1, <1>2, <1>3, <1>4, PutTyped
<1>9. Settled'
  <2> HIDE DEF r
  <2>1. r.ip = at[d]
    BY DEF r
  <2> QED BY <2>1, <1>1, <1>2, <1>3, <1>4, <1>5, <1>6, <1>7, PutSettled
<1> QED BY <1>8, <1>9

\* A sighting that is written to a row.
LEMMA UpdateKeeps ==
    ASSUME Identity!TypeOK, Settled, NEW d \in DOMAIN at, NEW mac \in {{}, {d}},
           Identity!Update(d, mac, at[d]), UNCHANGED at
    PROVE  (Identity!TypeOK /\ Settled)'
<1>1. PICK i \in Identity!Chosen(Identity!Key(mac, at[d]), at[d]) :
        LET r == Identity!Updated(row[i], mac, at[d]) IN
        IF Identity!Keyed(r.key) \subseteq {i}
        THEN Identity!Put(i, r) /\ Identity!Written(i, d) /\ UNCHANGED refused
        ELSE refused' = TRUE /\ UNCHANGED <<row, Identity!history>>
  BY DEF Identity!Update
<1> DEFINE r == Identity!Updated(row[i], mac, at[d])
<1>2. Identity!Put(i, r) /\ Identity!Written(i, d) /\ UNCHANGED <<at, refused>>
  BY <1>1, KeyIsFree DEF Settled
<1>3. i \in Identity!Rows /\ i \in Id /\ r \in Identity!RowType /\ d \in Mac
  BY ChosenRow, RowTyped, Placed DEF Identity!TypeOK
<1>4. \A j \in Identity!Rows \ {i} : row[j].key # r.key
  BY KeyIsFree DEF Settled, Identity!Keyed
<1>5. \/ row[i].mac # {} /\ \E e \in Mac : row[i].key = Identity!ByMac(e)
      \/ row[i].mac = {} /\ row[i].key = Identity!ByIP(row[i].ip)
  BY <1>3 DEF Settled, Named
<1>6. r = [key |-> IF row[i].mac = {} /\ mac # {} THEN Identity!Key(mac, at[d]) ELSE row[i].key,
           mac |-> IF mac # {} THEN mac ELSE row[i].mac, ip |-> at[d]]
  BY DEF Identity!Updated
<1>7. \/ r.mac # {} /\ \E e \in Mac : r.key = Identity!ByMac(e)
      \/ r.mac = {} /\ r.key = Identity!ByIP(r.ip)
  <2>1. CASE row[i].mac # {}
    BY <1>5, <1>6, <2>1
  <2>2. CASE row[i].mac = {} /\ mac = {d}
    BY <1>3, <1>6, <2>2, KeyOf
  <2>3. CASE row[i].mac = {} /\ mac = {}
    <3>1. Identity!Key(mac, at[d]) = Identity!ByIP(at[d])
      BY <2>3, KeyOf
    <3>2. row[i].ip = at[d]
      BY <1>5, <2>3, <3>1, ChosenRow, KeysDiffer
    <3> QED BY <1>5, <1>6, <2>3, <3>2
  <2> QED BY <2>1, <2>2, <2>3
<1>8. /\ d \notin earlier[i]
      /\ latest[i] \cup earlier[i] \subseteq {d} \/ r.key = Identity!ByMac(d)
  <2>1. /\ d \notin earlier[i]
        /\ latest[i] \cup earlier[i] \subseteq {d} \/ (row[i].key = Identity!ByMac(d) /\ row[i].mac # {})
    BY FoundByKey
  <2>2. row[i].mac # {} => r.key = row[i].key
    BY <1>6
  <2> QED BY <2>1, <2>2
<1>9. Identity!TypeOK'
  BY <1>2, <1>3, PutTyped
<1>10. Settled'
  <2>1. r.ip = at[d]
    BY <1>6
  <2> HIDE DEF r
  <2> QED BY <2>1, <1>2, <1>3, <1>4, <1>7, <1>8, PutSettled
<1> QED BY <1>9, <1>10

-----------------------------------------------------------------------------
\* A move empties the histories, so all that is said about them holds again.
LEMMA MoveKeeps ==
    ASSUME Identity!TypeOK, Settled, Identity!Move
    PROVE  (Identity!TypeOK /\ Settled)'
<1>1. at' \in Identity!Places /\ UNCHANGED Identity!tables
  BY DEF Identity!Move
<1>2. /\ latest' = [i \in Id |-> {}] /\ earlier' = [i \in Id |-> {}]
  BY DEF Identity!Move
<1>3. Identity!Rows' = Identity!Rows /\ row' = row /\ refused' = refused
  BY <1>1 DEF Identity!tables, Identity!Rows
<1>4. Identity!TypeOK'
  BY <1>1, <1>2, <1>3 DEF Identity!TypeOK
<1>5. Settled'
  BY <1>2, <1>3 DEF Settled, Unique, Named, Recent
<1> QED BY <1>4, <1>5

\* A gateway that has no row gets one.
LEMMA AddGateway ==
    ASSUME Identity!TypeOK, Settled, Identity!IdentityAssumption, Identity!Gateways = {}, NEW i \in Identity!Free,
           Identity!Put(i, [key |-> Identity!ByIP(Gateway), mac |-> {}, ip |-> Gateway]),
           UNCHANGED <<at, refused, Identity!history>>
    PROVE  (Identity!TypeOK /\ Settled)'
<1> DEFINE r == [key |-> Identity!ByIP(Gateway), mac |-> {}, ip |-> Gateway]
<1>1. r \in Identity!RowType /\ i \in Id /\ i \notin Identity!Rows
  BY DEF Identity!RowType, Identity!Free, Identity!IdentityAssumption
<1>2. Identity!Rows' = Identity!Rows \cup {i} /\ row'[i] = r /\ \A j \in Identity!Rows : row'[j] = row[j]
  BY <1>1 DEF Identity!Put, Identity!Rows
<1>3. latest' = latest /\ earlier' = earlier
  BY DEF Identity!history
<1>4. Identity!TypeOK'
  <2>1. row' \in [Identity!Rows' -> Identity!RowType]
    BY <1>1 DEF Identity!Put, Identity!TypeOK, Identity!Rows
  <2> QED BY <1>1, <1>2, <1>3, <2>1 DEF Identity!TypeOK
<1>5. \A j \in Identity!Rows : row[j].key # r.key
  BY DEF Identity!Gateways, Identity!Keyed
<1>6. Unique'
  BY <1>2, <1>5 DEF Settled, Unique
<1>7. Named'
  BY <1>2 DEF Settled, Named
<1>8. ASSUME NEW j \in Id PROVE Recent(j)'
  BY <1>1, <1>2, <1>3 DEF Settled, Recent
<1> QED BY <1>4, <1>6, <1>7, <1>8 DEF Settled

\* The rows of the gateway are merged.  The one that stays shows the
\* gateway's address already: a row with the key of an address shows it.
LEMMA MergeGateways ==
    ASSUME Identity!TypeOK, Settled, NEW keep \in Identity!Gateways,
           row' = [i \in Identity!Rows \ (Identity!Gateways \ {keep}) |->
                     IF i = keep THEN [row[i] EXCEPT !.ip = Gateway] ELSE row[i]],
           latest' = [i \in Id |-> IF i \in Identity!Gateways \ {keep} THEN {} ELSE latest[i]],
           earlier' = [i \in Id |-> IF i \in Identity!Gateways \ {keep} THEN {} ELSE earlier[i]],
           UNCHANGED <<at, refused>>
    PROVE  (Identity!TypeOK /\ Settled)'
<1>1. keep \in Identity!Rows /\ row[keep] \in Identity!RowType /\ Identity!Rows \subseteq Id
  BY DEF Identity!Gateways, Identity!Showing, Identity!Keyed, Identity!TypeOK
<1>2. row[keep].ip = Gateway
  BY <1>1, KeysDiffer DEF Identity!Gateways, Identity!Showing, Identity!Keyed, Settled, Named
<1>3. [row[keep] EXCEPT !.ip = Gateway] = row[keep]
  BY <1>1, <1>2 DEF Identity!RowType
<1>4. /\ Identity!Rows' = Identity!Rows \ (Identity!Gateways \ {keep})
      /\ \A i \in Identity!Rows' : i \in Identity!Rows /\ row'[i] = row[i]
  BY <1>3 DEF Identity!Rows
<1>5. Identity!TypeOK'
  <2>1. row' \in [Identity!Rows' -> Identity!RowType]
    BY <1>1, <1>3, <1>4 DEF Identity!TypeOK
  <2> QED BY <1>1, <1>4, <2>1 DEF Identity!TypeOK
<1>6. Unique' /\ Named'
  <2>1. Unique'
    BY <1>4 DEF Settled, Unique
  <2>2. Named'
    <3>1. ASSUME NEW i \in Identity!Rows'
          PROVE  \/ row'[i].mac # {} /\ \E d \in Mac : row'[i].key = Identity!ByMac(d)
                 \/ row'[i].mac = {} /\ row'[i].key = Identity!ByIP(row'[i].ip)
      <4>1. i \in Identity!Rows /\ row'[i] = row[i]
        BY <1>4
      <4>2. \/ row[i].mac # {} /\ \E d \in Mac : row[i].key = Identity!ByMac(d)
            \/ row[i].mac = {} /\ row[i].key = Identity!ByIP(row[i].ip)
        BY <4>1 DEF Settled, Named
      <4> QED BY <4>1, <4>2
    <3> QED BY <3>1 DEF Named, Identity!ByIP
  <2> QED BY <2>1, <2>2
<1>7. ASSUME NEW i \in Id PROVE Recent(i)'
  <2>1. CASE i \in Identity!Gateways \ {keep}
    <3>1. latest'[i] = {} /\ earlier'[i] = {}
      BY <2>1
    <3> QED BY <3>1 DEF Recent
  <2>2. CASE i \notin Identity!Gateways \ {keep}
    <3>1. latest'[i] = latest[i] /\ earlier'[i] = earlier[i]
      BY <2>2
    <3>2. Recent(i) /\ at' = at
      BY DEF Settled
    <3>3. i \in Identity!Rows' <=> i \in Identity!Rows
      BY <1>4, <2>2
    <3> QED BY <1>4, <3>1, <3>2, <3>3 DEF Recent
  <2> QED BY <2>1, <2>2
<1> QED BY <1>5, <1>6, <1>7 DEF Settled

-----------------------------------------------------------------------------
\* The steps together.

LEMMA IdentityInit ==
    ASSUME Identity!Init
    PROVE  Identity!TypeOK /\ Settled
<1>1. Identity!Rows = {} /\ DOMAIN at = {}
  BY DEF Identity!Init, Identity!Rows
<1>2. at \in [{} -> Address] /\ row \in [{} -> Identity!RowType]
  BY DEF Identity!Init
<1>3. at \in Identity!Places
  BY <1>1, <1>2 DEF Identity!Places
<1>4. Identity!TypeOK
  BY <1>1, <1>2, <1>3 DEF Identity!Init, Identity!TypeOK
<1> QED BY <1>1, <1>4 DEF Identity!Init, Settled, Unique, Named, Recent

\* Every step keeps the types and the inductive invariant; the other parts
\* leave the rows alone.
LEMMA IdentityNext ==
    ASSUME Identity!TypeOK, Settled, [NextAny]_<<part, vars, identityVars, typesVars>>
    PROVE  (Identity!TypeOK /\ Settled)'
<1>1. CASE Identity!Move
  BY <1>1, MoveKeeps
<1>2. ASSUME NEW d \in Mac, Identity!Sight(d) PROVE (Identity!TypeOK /\ Settled)'
  BY <1>2, InsertKeeps, UpdateKeeps DEF Identity!Sight
<1>3. CASE Identity!EnsureCore
  <2>1. CASE Identity!Gateways = {}
    BY <1>3, <2>1, AddGateway, IdentityOK DEF Identity!EnsureCore, Identity!Preferred
  <2>2. CASE Identity!Gateways # {}
    BY <1>3, <2>2, MergeGateways DEF Identity!EnsureCore, Identity!Preferred
  <2> QED BY <2>1, <2>2
<1>4. CASE UNCHANGED identityVars
  <2>1. UNCHANGED <<at, row, latest, earlier, refused>>
    BY <1>4 DEF identityVars
  <2> QED BY <2>1 DEF Identity!TypeOK, Settled, Unique, Named, Recent, Identity!Rows
<1>5. Identity!Next \/ UNCHANGED identityVars
  BY DEF NextAny, RelationsNext, RowsNext, TypesNext
<1> QED BY <1>1, <1>2, <1>3, <1>4, <1>5 DEF Identity!Next

LEMMA Invariance == SpecAny => [](Identity!TypeOK /\ Settled)
<1>1. InitAny => Identity!TypeOK /\ Settled
  BY IdentityInit DEF InitAny
<1>2. /\ Identity!TypeOK /\ Settled /\ [NextAny]_<<part, vars, identityVars, typesVars>>
      => (Identity!TypeOK /\ Settled)'
  BY IdentityNext
<1> QED BY <1>1, <1>2, PTL DEF SpecAny

\* Every variable keeps its type, and the devices on the network keep
\* addresses of their own (upsertSeen, ensureCore).
THEOREM RowsTypeCorrect == SpecAny => []Identity!TypeOK
BY Invariance, PTL

\* No sighting is lost to the UNIQUE of stable_key, whatever devices come, go,
\* change addresses or hide their MAC addresses (upsertSeen).
THEOREM SightingsAccepted == SpecAny => []NoSightingRefused
<1>1. Settled => NoSightingRefused
  BY DEF Settled, NoSightingRefused, Identity!NoSightingRefused
<1> QED BY <1>1, Invariance, PTL

\* While the devices stay where they are, no row goes back and forth between
\* two of them (upsertSeen).
THEOREM RowsSettle == SpecAny => []NoBackAndForth
<1>1. Settled => NoBackAndForth
  BY DEF Settled, Recent, NoBackAndForth, Identity!NoBackAndForth
<1> QED BY <1>1, Invariance, PTL

-----------------------------------------------------------------------------
\* The types that devices are given.

\* The instance has operators of its own for what the standard modules define.
LEMMA SameSets ==
    ASSUME NEW S
    PROVE  /\ Types!IsFiniteSet(S) <=> IsFiniteSet(S)
           /\ Types!Cardinality(S) = Cardinality(S)
BY DEF Types!IsFiniteSet, IsFiniteSet, Types!Cardinality, Cardinality

LEMMA LargestIn ==
    ASSUME NEW S, NEW x \in S, x \in Int, \A y \in S : y \in Int /\ y <= x
    PROVE  Types!Max(S) = x
<1>1. \A y \in S : x >= y
  OBVIOUS
<1> DEFINE m == CHOOSE z \in S : \A y \in S : z >= y
<1>2. m \in S /\ \A y \in S : m >= y
  BY <1>1
<1>3. m = x
  <2> HIDE DEF m
  <2>1. m \in Int
    BY <1>2
  <2> QED BY <1>1, <1>2, <2>1
<1> QED BY <1>3 DEF Types!Max

LEMMA SmallestIn ==
    ASSUME NEW S, NEW x \in S, x \in Int, \A y \in S : y \in Int /\ x <= y
    PROVE  Types!Min(S) = x
<1>1. \A y \in S : x =< y
  OBVIOUS
<1> DEFINE m == CHOOSE z \in S : \A y \in S : z =< y
<1>2. m \in S /\ \A y \in S : m =< y
  BY <1>1
<1>3. m = x
  <2> HIDE DEF m
  <2>1. m \in Int
    BY <1>2
  <2> QED BY <1>1, <1>2, <2>1
<1> QED BY <1>3 DEF Types!Min

\* Of two numbers.
LEMMA LargerOf ==
    ASSUME NEW x \in Int, NEW y \in Int
    PROVE  Types!Max({x, y}) = IF x < y THEN y ELSE x
<1>1. CASE x < y
  BY <1>1, LargestIn
<1>2. CASE ~(x < y)
  BY <1>2, LargestIn
<1> QED BY <1>1, <1>2

LEMMA SmallerOf ==
    ASSUME NEW x \in Int, NEW y \in Int
    PROVE  Types!Min({x, y}) = IF x < y THEN x ELSE y
<1>1. CASE x < y
  BY <1>1, SmallestIn
<1>2. CASE ~(x < y)
  BY <1>2, SmallestIn
<1> QED BY <1>1, <1>2

\* What a scan finds is finite, and so is what the rule adds to it.
Clue == [type : Types!AnyType, weight : 0 .. 100]

LEMMA EvidenceTyped ==
    ASSUME NEW E \in Finds
    PROVE  Types!Evidence(E) \subseteq Clue /\ IsFiniteSet(Types!Evidence(E))
<1>1. E \subseteq Clue /\ IsFiniteSet(E)
  BY TypesOK, SameSets DEF Types!IdentificationAssumption, Types!AnyType, Clue
<1>2. CASE rule \in Types!AnyType
  <2>1. Types!Evidence(E) = E \cup {[type |-> rule, weight |-> 66]}
    BY <1>2 DEF Types!Evidence
  <2>2. [type |-> rule, weight |-> 66] \in Clue
    BY <1>2 DEF Clue
  <2> QED BY <1>1, <2>1, <2>2, FS_AddElement
<1>3. CASE rule \notin Types!AnyType
  <2>1. Types!Evidence(E) = E
    BY <1>3 DEF Types!Evidence
  <2> QED BY <1>1, <2>1
<1> QED BY <1>2, <1>3

\* The strongest clue for a type that has one.
LEMMA StrongestTyped ==
    ASSUME NEW E, E \subseteq Clue, NEW t, Types!For(E, t) # {}
    PROVE  Types!Strongest(E, t) \in 0 .. 100
<1> DEFINE W == {c.weight : c \in Types!For(E, t)}
<1>1. W \subseteq 0 .. 100 /\ W # {}
  BY DEF Types!For, Clue
<1> HIDE DEF W
<1>2. {100 - w : w \in W} \in SUBSET Nat /\ {100 - w : w \in W} # {}
  <2>1. \A w \in W : 100 - w \in Nat
    BY <1>1
  <2> QED BY <1>1, <2>1
<1>3. PICK x \in {100 - w : w \in W} : \A y \in {100 - w : w \in W} : x <= y
  BY <1>2, LeastNatural
<1>4. PICK w \in W : \A v \in W : 100 - w <= 100 - v
  BY <1>3
<1>5. w \in Int /\ \A v \in W : v \in Int /\ v <= w
  BY <1>1, <1>4
<1>6. Types!Max(W) = w
  BY <1>5, LargestIn
<1> QED BY <1>1, <1>6 DEF Types!Strongest, W

LEMMA ConclusionTyped ==
    ASSUME NEW E, E \subseteq Clue, IsFiniteSet(E), NEW r \in Types!Conclusions(E)
    PROVE  r[1] \in Types!AnyType /\ r[2] \in 0 .. 98
<1>1. CASE E = {}
  BY <1>1 DEF Types!Conclusions, Types!AnyType
<1>2. CASE E # {}
  <2>1. PICK t \in Types!Winners(E) : r = <<t, Types!Confidence(E, t)>>
    BY <1>2 DEF Types!Conclusions
  <2>2. t \in Types!AnyType /\ Types!For(E, t) # {}
    BY <2>1 DEF Types!Winners, Types!Types, Types!For, Clue
  <2> DEFINE raw == Types!Strongest(E, t) + 6 * (Types!Cardinality(Types!For(E, t)) - 1)
                    - (IF Types!Close(E, t) THEN 15 ELSE 0)
  <2>3. raw \in Int
    <3>1. Types!Strongest(E, t) \in Int
      BY <2>2, StrongestTyped
    <3>2. Types!Cardinality(Types!For(E, t)) \in Nat
      <4>1. Types!For(E, t) \subseteq E
        BY DEF Types!For
      <4>2. IsFiniteSet(Types!For(E, t))
        BY <4>1, FS_Subset
      <4> QED BY <4>2, FS_CardinalityType, SameSets
    <3>3. (IF Types!Close(E, t) THEN 15 ELSE 0) \in Int
      OBVIOUS
    <3> QED BY <3>1, <3>2, <3>3
  <2>4. Types!Confidence(E, t) = Types!Max({0, Types!Min({98, raw})})
    BY DEF Types!Confidence
  <2> HIDE DEF raw
  <2>5. Types!Min({98, raw}) \in Int /\ Types!Min({98, raw}) <= 98
    BY <2>3, SmallerOf
  <2>6. Types!Confidence(E, t) \in 0 .. 98
    <3>1. Types!Confidence(E, t) = IF 0 < Types!Min({98, raw}) THEN Types!Min({98, raw}) ELSE 0
      BY <2>4, <2>5, LargerOf
    <3> QED BY <2>5, <3>1
  <2> QED BY <2>1, <2>2, <2>6 DEF Types!AnyType
<1> QED BY <1>1, <1>2

\* A conclusion about a device keeps the types, and what is shown is of the
\* most certain sighting.
LEMMA ConcludeKeeps ==
    ASSUME Types!TypeOK, TypeOfBestSighting, NEW d \in Host, NEW t \in Types!AnyType,
           NEW level \in 0 .. 98, Types!Conclude(d, t, level)
    PROVE  (Types!TypeOK /\ TypeOfBestSighting)'
<1> DEFINE old == confidence[d]
<1>1. /\ auto \in [Host -> Types!AnyType] /\ confidence \in [Host -> 0 .. 98]
      /\ best \in [Host -> [level : 0 .. 98, types : SUBSET Types!AnyType]]
      /\ old \in 0 .. 98 /\ old = best[d].level /\ auto[d] \in best[d].types
  BY DEF Types!TypeOK, TypeOfBestSighting, Types!TypeOfBestSighting
<1>2. Types!Max({old, level}) = IF old < level THEN level ELSE old
  <2>1. old \in Int /\ level \in Int
    BY <1>1
  <2> HIDE DEF old
  <2> QED BY <2>1, LargerOf
<1>3. auto' = [auto EXCEPT ![d] = IF level >= old THEN t ELSE auto[d]]
  BY DEF Types!Conclude, Types!Replaces
<1>4. confidence' = [confidence EXCEPT ![d] = IF old < level THEN level ELSE old]
  BY <1>2 DEF Types!Conclude
<1> DEFINE b == IF level > old THEN [level |-> level, types |-> {t}]
                ELSE IF level = old THEN [best[d] EXCEPT !.types = @ \cup {t}] ELSE best[d]
<1>5. best' = [best EXCEPT ![d] = b]
  BY <1>1 DEF Types!Conclude
<1>6. b \in [level : 0 .. 98, types : SUBSET Types!AnyType]
  BY <1>1
<1>7. /\ b.level = IF old < level THEN level ELSE old
      /\ (IF level >= old THEN t ELSE auto[d]) \in b.types
  <2>1. CASE level > old
    BY <1>1, <2>1
  <2>2. CASE level = old
    <3>1. b = [best[d] EXCEPT !.types = best[d].types \cup {t}]
      BY <2>2
    <3>2. b.level = best[d].level /\ b.types = best[d].types \cup {t}
      BY <1>1, <3>1
    <3> HIDE DEF b
    <3> QED BY <1>1, <2>2, <3>2
  <2>3. CASE level < old
    <3>1. b = best[d]
      BY <1>1, <2>3
    <3> HIDE DEF b
    <3> QED BY <1>1, <2>3, <3>1
  <2> QED BY <1>1, <2>1, <2>2, <2>3
<1> HIDE DEF b
<1>8. UNCHANGED <<user, corrections, rule, patch>>
  BY DEF Types!Conclude
<1>9. /\ auto' \in [Host -> Types!AnyType] /\ confidence' \in [Host -> 0 .. 98]
      /\ best' \in [Host -> [level : 0 .. 98, types : SUBSET Types!AnyType]]
  BY <1>1, <1>3, <1>4, <1>5, <1>6
<1>10. Types!TypeOK'
  BY <1>8, <1>9 DEF Types!TypeOK
<1>11. TypeOfBestSighting'
  <2> SUFFICES ASSUME NEW e \in Host
               PROVE  confidence'[e] = best'[e].level /\ auto'[e] \in best'[e].types
    BY DEF TypeOfBestSighting, Types!TypeOfBestSighting
  <2>1. CASE e = d
    BY <1>1, <1>3, <1>4, <1>5, <1>7, <2>1
  <2>2. CASE e # d
    BY <1>1, <1>3, <1>4, <1>5, <2>2 DEF TypeOfBestSighting, Types!TypeOfBestSighting
  <2> QED BY <2>1, <2>2
<1> QED BY <1>10, <1>11

\* The locals of a request, as TypeOK has them.
Patches == {Types!Idle}
           \cup [at : {"write"}, device : Host, type : Types!AnyType,
                 previous : {""} \cup Types!AnyType]
           \cup [at : {"reread"}, device : Host, previous : {""} \cup Types!AnyType]
           \cup [at : {"record"}, device : Host, type : Types!AnyType]

LEMMA PatchStages ==
    ASSUME NEW p \in Patches
    PROVE  /\ p.at = "write" => /\ p.device \in Host /\ p.type \in Types!AnyType
                                /\ p.previous \in {""} \cup Types!AnyType
           /\ p.at = "reread" => p.device \in Host /\ p.previous \in {""} \cup Types!AnyType
           /\ p.at = "record" => p.device \in Host /\ p.type \in Types!AnyType
<1>1. CASE p = Types!Idle
  <2>1. p.at = "idle"
    BY <1>1 DEF Types!Idle
  <2> QED BY <2>1
<1>2. CASE p \in [at : {"write"}, device : Host, type : Types!AnyType,
                  previous : {""} \cup Types!AnyType]
  BY <1>2
<1>3. CASE p \in [at : {"reread"}, device : Host, previous : {""} \cup Types!AnyType]
  BY <1>3
<1>4. CASE p \in [at : {"record"}, device : Host, type : Types!AnyType]
  BY <1>4
<1> QED BY <1>1, <1>2, <1>3, <1>4 DEF Patches

LEMMA PatchKeeps ==
    ASSUME Types!TypeOK, NEW h \in Handler, Types!PatchStep(h)
    PROVE  Types!TypeOK'
<1>1. /\ patch \in [Handler -> Patches] /\ patch[h] \in Patches
      /\ user \in [Host -> {""} \cup Types!AnyType]
      /\ corrections \in Seq([device : Host, type : Types!AnyType]) /\ Len(corrections) <= MaxCorrections
  BY DEF Types!TypeOK, Patches
<1>2. ASSUME NEW p \in Patches, patch' = [patch EXCEPT ![h] = p],
             user' \in [Host -> {""} \cup Types!AnyType],
             corrections' \in Seq([device : Host, type : Types!AnyType]),
             Len(corrections') <= MaxCorrections,
             UNCHANGED <<auto, confidence, rule, best>>
      PROVE  Types!TypeOK'
  <2>1. patch' \in [Handler -> Patches]
    BY <1>1, <1>2
  <2> QED BY <1>2, <2>1 DEF Types!TypeOK, Patches
<1>3. CASE Types!ReadPrevious(h)
  <2>1. PICK d \in Host, t \in Types!AnyType :
          patch' = [patch EXCEPT ![h] = [at |-> "write", device |-> d, type |-> t,
                                         previous |-> user[d]]]
    BY <1>3 DEF Types!ReadPrevious, Types!SafeType, Types!AnyType
  <2>2. [at |-> "write", device |-> d, type |-> t, previous |-> user[d]] \in Patches
    BY <1>1 DEF Patches
  <2>3. UNCHANGED <<auto, confidence, user, corrections, rule, best>>
    BY <1>3 DEF Types!ReadPrevious
  <2> QED BY <1>1, <1>2, <2>1, <2>2, <2>3
<1>4. CASE Types!Write(h)
  <2>1. /\ patch[h].device \in Host /\ patch[h].type \in Types!AnyType
        /\ patch[h].previous \in {""} \cup Types!AnyType
    BY <1>1, <1>4, PatchStages DEF Types!Write
  <2>2. /\ user' = [user EXCEPT ![patch[h].device] = patch[h].type]
        /\ patch' = [patch EXCEPT ![h] = [at |-> "reread", device |-> patch[h].device,
                                          previous |-> patch[h].previous]]
        /\ UNCHANGED <<auto, confidence, corrections, rule, best>>
    BY <1>4 DEF Types!Write
  <2>3. [at |-> "reread", device |-> patch[h].device, previous |-> patch[h].previous] \in Patches
    BY <2>1 DEF Patches
  <2>4. user' \in [Host -> {""} \cup Types!AnyType]
    BY <1>1, <2>1, <2>2
  <2> QED BY <1>1, <1>2, <2>2, <2>3, <2>4
<1>5. CASE Types!Reread(h)
  <2> DEFINE d == patch[h].device
             p == IF user[d] # patch[h].previous /\ Types!Corrects(d)
                  THEN [at |-> "record", device |-> d, type |-> user[d]] ELSE Types!Idle
  <2>1. d \in Host
    BY <1>1, <1>5, PatchStages DEF Types!Reread
  <2>2. patch' = [patch EXCEPT ![h] = p] /\ UNCHANGED <<auto, confidence, user, corrections, rule, best>>
    BY <1>5 DEF Types!Reread
  <2>3. p \in Patches
    BY <1>1, <2>1 DEF Types!Corrects, Patches
  <2> HIDE DEF p
  <2> QED BY <1>1, <1>2, <2>2, <2>3
<1>6. CASE Types!Record(h)
  <2>1. patch[h].device \in Host /\ patch[h].type \in Types!AnyType
    BY <1>1, <1>6, PatchStages DEF Types!Record
  <2>2. patch' = [patch EXCEPT ![h] = Types!Idle] /\ UNCHANGED <<auto, confidence, user, rule, best>>
    BY <1>6 DEF Types!Record
  <2>3. /\ corrections' \in Seq([device : Host, type : Types!AnyType])
        /\ Len(corrections') <= MaxCorrections
    <3>1. CASE UNCHANGED corrections
      BY <1>1, <3>1
    <3>2. CASE /\ Len(corrections) < MaxCorrections
               /\ corrections' = Append(corrections, [device |-> patch[h].device,
                                                      type |-> patch[h].type])
      <4>1. [device |-> patch[h].device, type |-> patch[h].type] \in [device : Host, type : Types!AnyType]
        BY <2>1
      <4>2. MaxCorrections \in Nat
        BY TypesOK DEF Types!IdentificationAssumption
      <4> DEFINE R == [device : Host, type : Types!AnyType]
      <4> HIDE DEF R
      <4>3. \A q \in Seq(R), r \in R : Append(q, r) \in Seq(R) /\ Len(Append(q, r)) = Len(q) + 1
                                        /\ Len(q) \in Nat
        OBVIOUS
      <4>4. corrections' \in Seq(R) /\ Len(corrections') = Len(corrections) + 1
            /\ Len(corrections) \in Nat
        BY <1>1, <3>2, <4>1, <4>3 DEF R
      <4> QED BY <3>2, <4>2, <4>4 DEF R
    <3> QED BY <1>6, <3>1, <3>2 DEF Types!Record
  <2>4. Types!Idle \in Patches
    BY DEF Patches
  <2> QED BY <1>1, <1>2, <2>2, <2>3, <2>4
<1> QED BY <1>3, <1>4, <1>5, <1>6 DEF Types!PatchStep

LEMMA TypesInit ==
    ASSUME Types!Init
    PROVE  Types!TypeOK /\ TypeOfBestSighting
<1>1. /\ auto \in [Host -> Types!AnyType] /\ confidence \in [Host -> 0 .. 98]
      /\ best \in [Host -> [level : 0 .. 98, types : SUBSET Types!AnyType]]
      /\ user \in [Host -> {""} \cup Types!AnyType]
  <2>1. auto \in [Host -> Types!AnyType] /\ user \in [Host -> {""} \cup Types!AnyType]
    BY DEF Types!Init, Types!AnyType
  <2>2. confidence \in [Host -> 0 .. 98]
    <3>1. 0 \in 0 .. 98
      OBVIOUS
    <3>2. confidence = [d \in Host |-> 0]
      BY DEF Types!Init
    <3> QED BY <3>1, <3>2
  <2>3. [level |-> 0, types |-> {"unknown"}] \in [level : 0 .. 98, types : SUBSET Types!AnyType]
    <3>1. {"unknown"} \in SUBSET Types!AnyType /\ 0 \in 0 .. 98
      BY DEF Types!AnyType
    <3> QED BY <3>1
  <2> QED BY <2>1, <2>2, <2>3 DEF Types!Init
<1>2. corrections \in Seq([device : Host, type : Types!AnyType]) /\ Len(corrections) <= MaxCorrections
  <2>1. corrections = <<>> /\ MaxCorrections \in Nat
    BY TypesOK DEF Types!Init, Types!IdentificationAssumption
  <2> QED BY <2>1
<1>3. patch \in [Handler -> Patches] /\ rule = ""
  BY DEF Types!Init, Patches
<1>4. Types!TypeOK
  BY <1>1, <1>2, <1>3 DEF Types!TypeOK, Patches
<1> QED BY <1>4 DEF Types!Init, TypeOfBestSighting, Types!TypeOfBestSighting

LEMMA TypesStep ==
    ASSUME Types!TypeOK, TypeOfBestSighting,
           [NextAny]_<<part, vars, identityVars, typesVars>>
    PROVE  (Types!TypeOK /\ TypeOfBestSighting)'
<1>1. ASSUME NEW d \in Host, Types!Sight(d) PROVE (Types!TypeOK /\ TypeOfBestSighting)'
  <2>1. PICK E \in Finds : \E r \in Types!Conclusions(Types!Evidence(E)) :
                              Types!Conclude(d, r[1], r[2])
    BY <1>1 DEF Types!Sight
  <2>2. PICK r \in Types!Conclusions(Types!Evidence(E)) : Types!Conclude(d, r[1], r[2])
    BY <2>1
  <2>3. r[1] \in Types!AnyType /\ r[2] \in 0 .. 98
    BY EvidenceTyped, ConclusionTyped
  <2> QED BY <2>2, <2>3, ConcludeKeeps
<1>2. ASSUME NEW d \in Host, Types!Poll(d) PROVE (Types!TypeOK /\ TypeOfBestSighting)'
  <2>1. PICK t \in SnmpType : Types!Conclude(d, t, 90)
    BY <1>2 DEF Types!Poll
  <2>2. t \in Types!AnyType
    BY TypesOK DEF Types!IdentificationAssumption, Types!AnyType
  <2> QED BY <2>1, <2>2, ConcludeKeeps
<1>3. ASSUME UNCHANGED <<auto, confidence, best>>, Types!TypeOK'
      PROVE  (Types!TypeOK /\ TypeOfBestSighting)'
  BY <1>3 DEF TypeOfBestSighting, Types!TypeOfBestSighting
<1>4. ASSUME NEW h \in Handler, Types!PatchStep(h) PROVE (Types!TypeOK /\ TypeOfBestSighting)'
  <2>1. UNCHANGED <<auto, confidence, best>>
    BY <1>4 DEF Types!PatchStep, Types!ReadPrevious, Types!Write, Types!Reread, Types!Record
  <2> QED BY <1>3, <1>4, <2>1, PatchKeeps
<1>5. CASE Types!StartRun \/ Types!EndRun \/ Types!Crash
  <2>1. UNCHANGED <<auto, confidence, user, corrections, best>> /\ rule' \in {"", "none"} \cup Types!AnyType
    BY <1>5 DEF Types!StartRun, Types!EndRun, Types!Crash, Types!Learned
  <2>2. patch' = patch \/ patch' = [h \in Handler |-> Types!Idle]
    BY <1>5 DEF Types!StartRun, Types!EndRun, Types!Crash
  <2>3. Types!TypeOK'
    BY <2>1, <2>2 DEF Types!TypeOK
  <2> QED BY <1>3, <2>1, <2>3
<1>6. CASE UNCHANGED typesVars
  BY <1>3, <1>6 DEF typesVars, Types!TypeOK
<1>7. Types!Next \/ UNCHANGED typesVars
  BY DEF NextAny, RelationsNext, RowsNext, TypesNext
<1> QED BY <1>1, <1>2, <1>4, <1>5, <1>6, <1>7 DEF Types!Next

LEMMA TypesInvariance == SpecAny => [](Types!TypeOK /\ TypeOfBestSighting)
<1>1. InitAny => Types!TypeOK /\ TypeOfBestSighting
  BY TypesInit DEF InitAny
<1>2. /\ Types!TypeOK /\ TypeOfBestSighting /\ [NextAny]_<<part, vars, identityVars, typesVars>>
      => (Types!TypeOK /\ TypeOfBestSighting)'
  BY TypesStep
<1> QED BY <1>1, <1>2, PTL DEF SpecAny

\* Every variable of the identification holds a value of its kind: confidences
\* lie between 0 and 98 whatever clues there are (combineIdentificationEvidence).
THEOREM TypesTypeCorrect == SpecAny => []Types!TypeOK
BY TypesInvariance, PTL

\* The type and the confidence a device is shown with are of one sighting, and
\* none was more certain (upsertSeen).
THEOREM BestIsShown == SpecAny => []TypeOfBestSighting
BY TypesInvariance, PTL

\* A lesson is the latest correction of its device, and its type is the user's;
\* so the votes for a type are of as many devices that the user gives it to, and
\* the devices that speak against it have a lesson each that is no vote for it.
LEMMA VotesCount ==
    ASSUME Types!TypeOK, IsFiniteSet(Host), NEW t \in Types!AnyType
    PROVE  LET agree == {d \in Host : user[d] = t /\ auto[d] # t}
               differ == {d \in Host : user[d] # t /\ \E i \in Types!Lessons : corrections[i].device = d}
               against == Types!Lessons \ Types!Votes(t)
           IN  /\ IsFiniteSet(Types!Votes(t)) /\ IsFiniteSet(against)
               /\ IsFiniteSet(agree) /\ IsFiniteSet(differ)
               /\ Cardinality(Types!Votes(t)) <= Cardinality(agree)
               /\ Cardinality(differ) <= Cardinality(against)
               /\ Cardinality(Types!Lessons) = Cardinality(Types!Votes(t)) + Cardinality(against)
<1> DEFINE L == Types!Lessons
           V == Types!Votes(t)
           against == L \ V
           agree == {d \in Host : user[d] = t /\ auto[d] # t}
           differ == {d \in Host : user[d] # t /\ \E i \in L : corrections[i].device = d}
<1>1. /\ \A i \in L : /\ i \in DOMAIN corrections /\ Types!Latest(i)
                       /\ corrections[i].device \in Host
                       /\ user[corrections[i].device] # auto[corrections[i].device]
                       /\ corrections[i].type = user[corrections[i].device]
      /\ V \subseteq L /\ \A i \in L : i \in V <=> corrections[i].type = t
      /\ L \subseteq 1 .. Len(corrections) /\ Len(corrections) \in Nat
  <2>1. corrections \in Seq([device : Host, type : Types!AnyType])
    BY DEF Types!TypeOK
  <2>2. /\ Len(corrections) \in Nat /\ DOMAIN corrections = 1 .. Len(corrections)
        /\ \A i \in DOMAIN corrections : corrections[i] \in [device : Host, type : Types!AnyType]
    <3> DEFINE R == [device : Host, type : Types!AnyType]
    <3> HIDE DEF R
    <3>1. \A s \in Seq(R) : /\ Len(s) \in Nat /\ DOMAIN s = 1 .. Len(s)
                            /\ \A i \in DOMAIN s : s[i] \in R
      OBVIOUS
    <3> QED BY <2>1, <3>1 DEF R
  <2> QED BY <2>2 DEF Types!Lessons, Types!Votes
<1>2. \A i, j \in L : corrections[i].device = corrections[j].device => i = j
  <2> SUFFICES ASSUME NEW i \in L, NEW j \in L, corrections[i].device = corrections[j].device
               PROVE  i = j
    OBVIOUS
  <2>1. i <= j /\ j <= i /\ i \in Int /\ j \in Int
    <3> HIDE DEF L
    <3> QED BY <1>1 DEF Types!Latest
  <2> HIDE DEF L
  <2> QED BY <2>1
<1> HIDE DEF L, V
<1>3. IsFiniteSet(L) /\ IsFiniteSet(V) /\ IsFiniteSet(against)
  <2>1. IsFiniteSet(1 .. Len(corrections))
    BY <1>1, FS_Interval
  <2>2. IsFiniteSet(L)
    BY <1>1, <2>1, FS_Subset
  <2> QED BY <1>1, <2>2, FS_Subset
<1>4. IsFiniteSet(agree) /\ IsFiniteSet(differ)
  BY FS_Subset
<1>5. Cardinality(V) <= Cardinality(agree)
  <2> DEFINE f == [i \in V |-> corrections[i].device]
  <2>1. f \in [V -> agree]
    BY <1>1
  <2>2. f \in Injection(V, agree)
    BY <1>1, <1>2, <2>1 DEF Injection, IsInjective
  <2> HIDE DEF f, agree
  <2> QED BY <1>4, <2>2, FS_Injection
<1>6. Cardinality(differ) <= Cardinality(against)
  <2> DEFINE f == [i \in against |-> corrections[i].device]
  <2>1. f \in [against -> differ]
    BY <1>1
  <2>2. f \in Surjection(against, differ)
    <3>1. \A d \in differ : \E i \in against : f[i] = d
      BY <1>1
    <3> HIDE DEF f, against, differ
    <3> QED BY <2>1, <3>1 DEF Surjection
  <2> HIDE DEF f, against, differ
  <2> QED BY <1>3, <2>2, FS_Surjection
<1>7. Cardinality(L) = Cardinality(V) + Cardinality(against)
  <2>1. V \cup against = L /\ V \cap against = {}
    BY <1>1
  <2>2. Cardinality({}) = 0
    BY FS_EmptySet
  <2>3. Cardinality(V) \in Nat /\ Cardinality(against) \in Nat
    BY <1>3, FS_CardinalityType
  <2> HIDE DEF against
  <2> QED BY <1>3, <2>1, <2>2, <2>3, FS_Union
<1> QED BY <1>3, <1>4, <1>5, <1>6, <1>7 DEF L, V

\* With two lessons and three votes in four there are two devices for the rule,
\* and three for each one against it.
LEMMA RuleRests ==
    ASSUME Types!TypeOK, IsFiniteSet(Host)
    PROVE  RuleRestsOnDevices
<1> SUFFICES ASSUME NEW t \in Types!Learned
             PROVE  LET agree == {d \in Host : user[d] = t /\ auto[d] # t}
                        differ == {d \in Host : /\ user[d] # t
                                                /\ \E i \in Types!Lessons : corrections[i].device = d}
                    IN /\ Types!Cardinality(agree) >= 2
                       /\ Types!Cardinality(agree) >= 3 * Types!Cardinality(differ)
  BY DEF RuleRestsOnDevices, Types!RuleRestsOnDevices
<1> DEFINE agree == {d \in Host : user[d] = t /\ auto[d] # t}
           differ == {d \in Host : /\ user[d] # t
                                   /\ \E i \in Types!Lessons : corrections[i].device = d}
           against == Types!Lessons \ Types!Votes(t)
           votes == Types!Votes(t)
<1>1. /\ t \in Types!AnyType /\ Types!Cardinality(Types!Lessons) >= 2
      /\ 4 * Types!Cardinality(votes) >= 3 * Types!Cardinality(Types!Lessons)
  BY DEF Types!Learned, Types!Enough
<1>2. /\ Cardinality(Types!Lessons) >= 2
      /\ 4 * Cardinality(votes) >= 3 * Cardinality(Types!Lessons)
  BY <1>1, SameSets
<1>3. /\ IsFiniteSet(votes) /\ IsFiniteSet(against)
      /\ IsFiniteSet(agree) /\ IsFiniteSet(differ)
      /\ Cardinality(votes) <= Cardinality(agree)
      /\ Cardinality(differ) <= Cardinality(against)
      /\ Cardinality(Types!Lessons) = Cardinality(votes) + Cardinality(against)
  BY <1>1, VotesCount
<1> HIDE DEF agree, differ, against, votes
<1>4. /\ Cardinality(votes) \in Nat /\ Cardinality(against) \in Nat
      /\ Cardinality(agree) \in Nat /\ Cardinality(differ) \in Nat
  BY <1>3, FS_CardinalityType
<1>5. Cardinality(agree) >= 2 /\ Cardinality(agree) >= 3 * Cardinality(differ)
  BY <1>2, <1>3, <1>4
<1>6. Types!Cardinality(agree) >= 2 /\ Types!Cardinality(agree) >= 3 * Types!Cardinality(differ)
  BY <1>5, SameSets
<1> QED BY <1>6 DEF agree, differ

\* A rule rests on two devices that the user and the scan disagree about, three
\* for each one that the user takes for something else (learnedVendorRules).
THEOREM RulesRestOnDevices ==
    ASSUME IsFiniteSet(Host)
    PROVE  SpecAny => []RuleRestsOnDevices
<1>1. Types!TypeOK => RuleRestsOnDevices
  BY RuleRests
<1> QED BY <1>1, TypesTypeCorrect, PTL
=============================================================================
