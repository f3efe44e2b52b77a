------------------------------ MODULE Topology ------------------------------
(***************************************************************************)
(* The connection graph: who is drawn below whom.                          *)
(*                                                                         *)
(* The user edits it (server_topology.go: connection, addConnection,       *)
(* deleteConnection; server_devices.go: set_parent of batchDevices,        *)
(* deleteDevice).  Discovery edits it too: every scan ends with ensureCore *)
(* (store_discovery.go), which roots the graph at an Internet node, merges *)
(* duplicate records of the gateway and hangs every orphan below it, and   *)
(* every SNMP poll reports LLDP neighbours (snmp_store.go).                *)
(*                                                                         *)
(* Handlers that write are one transaction: SQLite refuses the write of a  *)
(* transaction whose reads are out of date.  upsertDiscoveredConnection is *)
(* not: its two reads and its write are statements of their own.           *)
(*                                                                         *)
(* Bug... operators are faulty forms of the definition below them.         *)
(***************************************************************************)
EXTENDS Naturals, FiniteSets

CONSTANTS
    Device,    \* rows the devices table may hold
    Internet,  \* the row with stable_key 'virtual:internet'
    Manual     \* rows created by hand; the Internet row counts as one

ASSUME TopologyAssumption == /\ Internet \in Manual
                             /\ Manual \subseteq Device

VARIABLES
    present,  \* the rows of the devices table
    gateway,  \* rows ensureCore takes for the gateway: current_ip or stable_key
    edge,     \* the connections table: UNIQUE(source, target)
    lldp      \* the call of upsertDiscoveredConnection in progress

vars == <<present, gateway, edge, lldp>>

Pair == Device \X Device
Kind == {"none", "inferred", "lldp", "manual"}

\* user_confirmed is 1 exactly for the rows with source_type 'manual'.
Confirmed(e, p) == e[p] = "manual"
Exists(e, p) == e[p] # "none"

NoCall == [at |-> "idle", pair |-> <<Internet, Internet>>]
Call == [at : {"idle", "reverse", "write"}, pair : Pair]

NoEdges == [p \in Pair |-> "none"]

Init == /\ present = {}
        /\ gateway = {}
        /\ edge = NoEdges
        /\ lldp = NoCall

-----------------------------------------------------------------------------
\* Graph helpers.

Children(e, d) == {c \in Device : Exists(e, <<d, c>>)}
Parents(e, d)  == {p \in Device : Exists(e, <<p, d>>)}

Closed(e, S) == \A d \in S : Children(e, d) \subseteq S

\* What the recursive query descendants computes: the least set that holds
\* the children of d and the children of its members.
Descendants(e, d) ==
    {x \in Device : \A S \in SUBSET Device :
                        Children(e, d) \subseteq S /\ Closed(e, S) => x \in S}

BugWouldCycle(e, parent, child) == Exists(e, <<child, parent>>)
\* connectionWouldCycle.
WouldCycle(e, parent, child) == parent \in Descendants(e, child)

Acyclic(e) == \A d \in Device : d \notin Descendants(e, d)

\* ON DELETE CASCADE of both foreign keys.
Without(e, d) == [p \in Pair |-> IF d \in {p[1], p[2]} THEN "none" ELSE e[p]]

\* A call in progress that names a row which is gone will fail on its
\* foreign key: ids are never used twice.
Voided(call, gone) ==
    IF {call.pair[1], call.pair[2]} \cap gone # {} THEN NoCall ELSE call

\* DELETE FROM connections WHERE target_device_id=? AND user_confirmed=0.
Detached(e, child) ==
    [p \in Pair |-> IF p[2] = child /\ ~Confirmed(e, p) THEN "none" ELSE e[p]]

-----------------------------------------------------------------------------
\* Devices come, go and change their address.

\* createManual, or upsertSeen of an unknown device.
Create(d) ==
    /\ d \notin present \cup {Internet}
    /\ present' = present \cup {d}
    /\ UNCHANGED <<gateway, edge, lldp>>

\* upsertSeen gives a discovered row a new current_ip, or the user changes
\* the gateway_ip setting.  At most two rows share the gateway's address:
\* the bound of this model on the records ensureCore merges at once.
Readdress ==
    /\ \E g \in SUBSET (present \ Manual) :
          /\ g # gateway /\ Cardinality(g) <= 2
          /\ gateway' = g
    /\ UNCHANGED <<present, edge, lldp>>

\* DELETE /api/devices/{id}: rows created by hand only.
DeleteDevice(d) ==
    /\ d \in present \cap Manual
    /\ present' = present \ {d}
    /\ edge'    = Without(edge, d)
    /\ lldp'    = Voided(lldp, {d})
    /\ UNCHANGED gateway

-----------------------------------------------------------------------------
\* What the user does.

\* PATCH /api/devices/{id}/connection: every relation of the child is
\* replaced by at most one.
PatchConnection(child) ==
    /\ child \in present
    /\ \E new \in {{}} \cup {{<<p, child>>} : p \in present \ {child}} :
          edge' = [p \in Pair |-> IF p[2] # child THEN edge[p]
                                  ELSE IF p \in new THEN "manual" ELSE "none"]
    /\ UNCHANGED <<present, gateway, lldp>>

\* POST /api/devices/{id}/connections.
AddConnection(child) ==
    /\ child \in present
    /\ \E parent \in present \ {child} :
          /\ ~WouldCycle(edge, parent, child)
          /\ edge' = [Detached(edge, child) EXCEPT ![<<parent, child>>] = "manual"]
    /\ UNCHANGED <<present, gateway, lldp>>

\* DELETE /api/devices/{id}/connections/{connection}.
DeleteConnection(p) ==
    /\ Exists(edge, p)
    /\ edge' = [edge EXCEPT ![p] = "none"]
    /\ UNCHANGED <<present, gateway, lldp>>

\* set_parent: detach all children, then add them one by one, each checked
\* against the graph the former ones have left; one cycle undoes everything.
\* The relations added all leave one parent, so a check that passes before
\* the first of them passes after the others too: none of them leads to a
\* child on the way down from another child unless that child leads to the
\* parent already.
SetParent(children) ==
    LET detached == [p \in Pair |-> IF p[2] \in children /\ ~Confirmed(edge, p)
                                    THEN "none" ELSE edge[p]]
    IN
    /\ \E parent \in present \ children :
          /\ \A c \in children : ~WouldCycle(detached, parent, c)
          /\ edge' = [p \in Pair |-> IF p[1] = parent /\ p[2] \in children
                                     THEN "manual" ELSE detached[p]]
    /\ UNCHANGED <<present, gateway, lldp>>

-----------------------------------------------------------------------------
\* What discovery does.

\* mergeDeviceRecords rewrites the relations of the duplicate to the record
\* kept: the relation <<keep, x>> may come from <<dup, x>>, and so on.
Origin(p, keep, dup) == IF p[1] = keep THEN <<dup, p[2]>>
                        ELSE IF p[2] = keep THEN <<p[1], dup>> ELSE p

BugMerged(e, keep, dup) ==
    [p \in Pair |-> IF dup \in {p[1], p[2]} THEN "none"
                    ELSE IF Exists(e, p) THEN e[p]
                    ELSE IF p = <<keep, keep>> /\ Exists(e, <<keep, dup>>)
                    THEN e[<<keep, dup>>] ELSE e[Origin(p, keep, dup)]]
\* INSERT OR IGNORE: what the kept record already has stays; a relation
\* between the two records is dropped.
Merged(e, keep, dup) ==
    [p \in Pair |-> IF dup \in {p[1], p[2]} \/ p = <<keep, keep>> THEN "none"
                    ELSE IF Exists(e, p) THEN e[p]
                    ELSE e[Origin(p, keep, dup)]]

\* The other row with the gateway's address, if there is one.
Duplicates(keep) ==
    IF gateway \ {keep} = {} THEN {} ELSE {CHOOSE d \in gateway \ {keep} : TRUE}

\* The connections table once the duplicate is merged away.
Unified(keep) ==
    IF Duplicates(keep) = {} THEN edge
    ELSE Merged(edge, keep, CHOOSE d \in Duplicates(keep) : TRUE)

BugOrphans(e, rows, g) == {d \in rows : d # g /\ Children(e, d) = {}}
\* Rows ensureCore hangs below the gateway.
Orphans(e, rows, g) ==
    {d \in rows : d \notin {Internet, g} /\ Parents(e, d) = {}}

\* The relations ensureCore adds once the gateway's record is settled.
Rooted(e, rows, g) ==
    LET top == IF Exists(e, <<Internet, g>>) THEN e
               ELSE [e EXCEPT ![<<Internet, g>>] = "manual"]
        orphans == Orphans(top, rows, g)
    IN [p \in Pair |-> IF p[1] = g /\ p[2] \in orphans
                       THEN "inferred" ELSE top[p]]

\* ensureCore, at the end of a scan or when the gateway setting is saved.
\* keep is the row it finds or creates; a second row with the gateway's
\* address is merged into it.
EnsureCore(keep) ==
    /\ keep \notin Manual
    /\ IF gateway = {} THEN keep \notin present ELSE keep \in gateway
    /\ gateway' = {keep}
    /\ present' = (present \ Duplicates(keep)) \cup {Internet, keep}
    /\ edge' = Rooted(Unified(keep), present', keep)
    /\ lldp' = Voided(lldp, Duplicates(keep))

\* upsertDiscoveredConnection, first read: is the relation confirmed?
LldpRead(p) ==
    /\ lldp.at = "idle"
    /\ p[1] # p[2] /\ p[1] \in present \ Manual /\ p[2] \in present
    /\ ~Confirmed(edge, p)
    /\ lldp' = [at |-> "reverse", pair |-> p]
    /\ UNCHANGED <<present, gateway, edge>>

\* Second read: is there a relation the other way round?
LldpReverse ==
    LET p == lldp.pair IN
    /\ lldp.at = "reverse"
    /\ lldp' = IF Exists(edge, <<p[2], p[1]>>) THEN NoCall
               ELSE [lldp EXCEPT !.at = "write"]
    /\ UNCHANGED <<present, gateway, edge>>

BugUpserted(e, p) == [e EXCEPT ![p] = "lldp"]
\* INSERT ... ON CONFLICT DO UPDATE ... WHERE user_confirmed=0.
Upserted(e, p) == IF Confirmed(e, p) THEN e ELSE [e EXCEPT ![p] = "lldp"]

LldpWrite ==
    /\ lldp.at = "write"
    /\ edge' = Upserted(edge, lldp.pair)
    /\ lldp' = NoCall
    /\ UNCHANGED <<present, gateway>>

UserStep == \/ \E d \in Device : \/ DeleteDevice(d) \/ PatchConnection(d)
                                 \/ AddConnection(d)
            \/ \E p \in Pair : DeleteConnection(p)
            \/ \E children \in SUBSET present \ {{}} : SetParent(children)

DiscoveryStep == \/ \E d \in Device : EnsureCore(d)
                 \/ \E p \in Pair : LldpRead(p)
                 \/ LldpReverse \/ LldpWrite

Next == \/ \E d \in Device : Create(d)
        \/ Readdress \/ UserStep \/ DiscoveryStep

Spec == Init /\ [][Next]_vars

-----------------------------------------------------------------------------

\* Every variable holds a value of its kind.
TypeOK == /\ present \subseteq Device
          /\ gateway \subseteq present \ Manual
          /\ edge \in [Pair -> Kind]
          /\ lldp \in Call

\* A relation joins two stored devices, and never a device with itself,
\* whatever was deleted or merged in the meantime.
Sound == \A p \in Pair : Exists(edge, p) =>
            p[1] # p[2] /\ p[1] \in present /\ p[2] \in present

\* README.md:223 and :255: discovery does not touch a relation the user has
\* confirmed, as long as both its devices stay stored.
ConfirmedKept ==
    [][DiscoveryStep => \A p \in Pair :
          Confirmed(edge, p) /\ p[1] \in present' /\ p[2] \in present'
             => Confirmed(edge', p)]_vars

Edited == edge' # edge /\ UNCHANGED <<present, gateway, lldp>>
UserAdds == /\ Edited
            /\ \/ \E d \in Device : AddConnection(d)
               \/ \E children \in SUBSET present \ {{}} : SetParent(children)

\* Adding a relation, to one device or to many at once, never closes a cycle.
AddingKeepsAcyclic ==
    [][Acyclic(edge) /\ UserAdds => Acyclic(edge')]_vars

\* After a scan every device can be reached from the Internet node, unless
\* the graph has a cycle: nothing drops out of the drawing.
ScanRootsAll ==
    [][(\E d \in gateway' : EnsureCore(d)) /\ Acyclic(edge') =>
          present' \ {Internet} \subseteq Descendants(edge', Internet)]_vars

-----------------------------------------------------------------------------
\* What the code's own words say and the code does not do.

\* README.md:255, "自动发现不会覆盖用户确认的连接": after a scan that merged
\* two records of the gateway, the relations the user had confirmed for
\* either are confirmed relations of the record that stays.
ConfirmedSurvivesMerge ==
    [][\A keep, dup \in gateway :
          (keep # dup /\ gateway' = {keep} /\ dup \notin present') =>
             \A d \in present' \ {keep} :
                /\ Confirmed(edge, <<dup, d>>) => Confirmed(edge', <<keep, d>>)
                /\ Confirmed(edge, <<d, dup>>) => Confirmed(edge', <<d, keep>>)]_vars

\* server_topology.go:119: a relation that would close a cycle is refused.
\* The other handler for the same relation refuses nothing.
PatchKeepsAcyclic ==
    [][Acyclic(edge) /\ Edited /\ (\E d \in Device : PatchConnection(d))
          => Acyclic(edge')]_vars
=============================================================================
