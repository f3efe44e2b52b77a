--------------------------- MODULE DeviceIdentity ---------------------------
(***************************************************************************)
(* Which row of devices a sighting is written to                           *)
(* (internal/app/store_discovery.go: upsertSeen, ensureCore).              *)
(*                                                                         *)
(* Devices are named by their MAC addresses.  A row has a key that is      *)
(* UNIQUE, made of the MAC address if it was known and of the IP address   *)
(* if not.  A sighting goes to the row with its key, or else to one that   *)
(* shows its IP address, or else makes a row.  Devices change addresses    *)
(* and come and go meanwhile, and rows keep the address they last had.     *)
(*                                                                         *)
(* An empty column is the empty set.  Each action is one transaction.  A   *)
(* discovered row is deleted by a merge only, and rows made by hand have   *)
(* no address: they take no part.  The ARP table is that of the present    *)
(* addresses, and no two devices share one.  The gateway setting is fixed. *)
(* Bug... operators are faulty forms of the definition below them.         *)
(***************************************************************************)
EXTENDS Naturals, FiniteSets

CONSTANTS
    Mac,      \* devices
    Address,  \* IP addresses
    Gateway,  \* the setting gateway_ip
    Id        \* bound: rows at a time; an id that is free again is a new one

IdentityAssumption == Gateway \in Address

VARIABLES
    at,       \* the network: the address of each device that is there
    row,      \* the table devices: id -> stable_key, mac_address, current_ip
    latest,   \* history: the device each row was last written for, if it was
              \* since a device came, went or changed its address
    earlier,  \* history: the other devices it was written for since then
    refused   \* history: a transaction met the UNIQUE of stable_key

tables == <<row, refused>>
history == <<latest, earlier>>
vars == <<at, tables, history>>

Rows == DOMAIN row
Free == Id \ Rows
ByMac(d) == <<"mac", d>>
ByIP(a) == <<"ip", a>>

Init == /\ at = [d \in {} |-> Gateway]
        /\ row = [i \in {} |-> {}]
        /\ latest = [i \in Id |-> {}] /\ earlier = [i \in Id |-> {}]
        /\ refused = FALSE

-----------------------------------------------------------------------------
\* The network.

Places == {f \in UNION {[D -> Address] : D \in SUBSET Mac} :
              \A d, e \in DOMAIN f : f[d] = f[e] => d = e}

\* A device comes, goes or gets another address.
Move == /\ \E d \in Mac : \E f \in Places :
              /\ f # at /\ at' = f
              /\ \A e \in Mac \ {d} : /\ e \in DOMAIN f <=> e \in DOMAIN at
                                      /\ e \in DOMAIN f => f[e] = at[e]
        /\ latest' = [i \in Id |-> {}] /\ earlier' = [i \in Id |-> {}]
        /\ UNCHANGED tables

-----------------------------------------------------------------------------
\* upsertSeen.

\* key := "ip:" + v.IP, or "mac:" + v.MAC
Key(mac, ip) == IF mac = {} THEN ByIP(ip) ELSE <<"mac", CHOOSE d \in mac : TRUE>>

Keyed(k) == {i \in Rows : row[i].key = k}
Showing(ip) == {i \in Rows : row[i].ip = ip}

BugChosen(k, ip) == Keyed(k) \cup Showing(ip)
\* SELECT id ... ORDER BY stable_key=? DESC LIMIT 1
Chosen(k, ip) == IF Keyed(k) # {} THEN Keyed(k) ELSE Showing(ip)

BugUpdated(r, mac, ip) ==
    [key |-> IF r.mac = {} /\ mac # {} THEN Key(mac, ip) ELSE r.key,
     mac |-> IF mac # {} THEN mac ELSE r.mac,
     ip  |-> r.ip]
\* UPDATE devices SET stable_key=..., mac_address=..., current_ip=?
Updated(r, mac, ip) ==
    [key |-> IF r.mac = {} /\ mac # {} THEN Key(mac, ip) ELSE r.key,
     mac |-> IF mac # {} THEN mac ELSE r.mac,
     ip  |-> ip]

Put(i, r) == row' = [j \in Rows \cup {i} |-> IF j = i THEN r ELSE row[j]]

Written(i, d) ==
    /\ latest' = [latest EXCEPT ![i] = {d}]
    /\ earlier' = [earlier EXCEPT ![i] = @ \cup (latest[i] \ {d})]

Insert(d, mac, ip) ==
    /\ Chosen(Key(mac, ip), ip) = {}
    /\ \E i \in Free : /\ Put(i, [key |-> Key(mac, ip), mac |-> mac, ip |-> ip])
                       /\ Written(i, d)
    /\ UNCHANGED refused

\* A refused UPDATE is rolled back, and its error dropped by the worker.
Update(d, mac, ip) ==
    \E i \in Chosen(Key(mac, ip), ip) :
       LET r == Updated(row[i], mac, ip) IN
       IF Keyed(r.key) \subseteq {i}
       THEN Put(i, r) /\ Written(i, d) /\ UNCHANGED refused
       ELSE refused' = TRUE /\ UNCHANGED <<row, history>>

\* A worker, the ARP pass, or an SNMP poll, which does not know the MAC
\* address; a worker may not find it in the ARP table.
Sight(d) ==
    /\ d \in DOMAIN at
    /\ \E mac \in {{}, {d}} : Insert(d, mac, at[d]) \/ Update(d, mac, at[d])
    /\ UNCHANGED at

-----------------------------------------------------------------------------
\* ensureCore.

\* current_ip=? OR stable_key=?
Gateways == Showing(Gateway) \cup Keyed(ByIP(Gateway))

\* ORDER BY (mac_address<>'') DESC; what decides between others is left open.
Preferred == LET known == {i \in Gateways : row[i].mac # {}}
             IN IF known # {} THEN known ELSE Gateways

\* No row is the gateway's: INSERT.  Otherwise the others are merged into the
\* first and deleted.
EnsureCore ==
    /\ \/ /\ Gateways = {}
          /\ \E i \in Free : /\ Put(i, [key |-> ByIP(Gateway), mac |-> {}, ip |-> Gateway])
                             /\ UNCHANGED history
       \/ \E keep \in Preferred :
             LET gone == Gateways \ {keep} IN
             /\ row' = [i \in Rows \ gone |->
                          IF i = keep THEN [row[i] EXCEPT !.ip = Gateway] ELSE row[i]]
             /\ latest' = [i \in Id |-> IF i \in gone THEN {} ELSE latest[i]]
             /\ earlier' = [i \in Id |-> IF i \in gone THEN {} ELSE earlier[i]]
    /\ UNCHANGED <<at, refused>>

Next == Move \/ (\E d \in Mac : Sight(d)) \/ EnsureCore

Spec == Init /\ [][Next]_vars

-----------------------------------------------------------------------------

RowType == [key : {ByMac(d) : d \in Mac} \cup {ByIP(a) : a \in Address},
            mac : {{}} \cup {{d} : d \in Mac}, ip : Address]

\* Every variable holds a value of its kind.
TypeOK ==
    /\ at \in Places
    /\ Rows \subseteq Id /\ row \in [Rows -> RowType]
    /\ latest \in [Id -> {{}} \cup {{d} : d \in Mac}]
    /\ earlier \in [Id -> SUBSET Mac]
    /\ refused \in BOOLEAN

\* No sighting is lost because the key it gives to its row is that of another
\* row: the SELECT takes the row with the key first.
NoSightingRefused == ~refused

\* While the devices stay where they are, no row goes back and forth between
\* two of them: one that was taken over through its address is left for good.
NoBackAndForth == \A i \in Id : latest[i] \cap earlier[i] = {}
=============================================================================
