--------------------------- MODULE Identification ---------------------------
(***************************************************************************)
(* What type a device is taken for, and what corrections teach             *)
(* (internal/app/identification.go, identification_learning.go,            *)
(* store_identification.go; the type columns in store_discovery.go:        *)
(* upsertSeen; server_devices.go: patchDevice).                            *)
(*                                                                         *)
(* The devices are all of one vendor: rules of different vendors do not    *)
(* meet.  A clue is what a host name, the open ports, a service or the     *)
(* vendor say, already with its type and its weight in hundredths; a scan  *)
(* may find any of the sets in Finds.  Two clues that agree in both are    *)
(* one here.  The wording kept with a conclusion is left out.  A user's    *)
(* type that is none of the program's is kept as "unknown", the empty one  *)
(* included: what a user has once set can be changed but never be taken    *)
(* back to none (see WithdrawnTeachesNothing).                             *)
(* Bug... operators are faulty forms of the definition below them.         *)
(***************************************************************************)
EXTENDS Integers, Sequences, FiniteSets, FiniteSetsExt

CONSTANTS
    Device,         \* devices of the vendor
    Type,           \* device types but "unknown"
    Finds,          \* the sets of clues a scan may find about a device
    SnmpType,       \* what managedDeviceType makes of an SNMP description
    Handler,        \* PATCH requests
    MaxCorrections  \* bound: corrections ever recorded

IdentificationAssumption ==
    /\ \A E \in Finds : IsFiniteSet(E) /\ E \subseteq [type : Type, weight : 0 .. 100]
    /\ SnmpType \subseteq Type \cup {"unknown"}
    /\ MaxCorrections \in Nat
    /\ Type \cap {"", "unknown", "none"} = {}

VARIABLES
    auto,         \* per device: auto_device_type
    confidence,   \* per device: identification_confidence
    user,         \* per device: user_device_type, "" before any is set
    corrections,  \* identification_corrections in the order of their ids
    rule,         \* learnedRules of the run in progress: a type or "none";
                  \* "" between runs
    patch,        \* per handler: where it stands, and its locals
    best          \* history, per device: the highest confidence it was ever
                  \* seen with, and the types concluded with it

vars == <<auto, confidence, user, corrections, rule, patch, best>>

AnyType == Type \cup {"unknown"}
Idle == [at |-> "idle"]

\* Nothing has been found out about the devices yet.
Init == /\ auto = [d \in Device |-> "unknown"]
        /\ confidence = [d \in Device |-> 0]
        /\ user = [d \in Device |-> ""]
        /\ corrections = <<>> /\ rule = ""
        /\ patch = [h \in Handler |-> Idle]
        /\ best = [d \in Device |-> [level |-> 0, types |-> {"unknown"}]]

-----------------------------------------------------------------------------
\* combineIdentificationEvidence.

For(E, t) == {c \in E : c.type = t}
Total(E, t) == MapThenSumSet(LAMBDA c : c.weight, For(E, t))
Strongest(E, t) == Max({c.weight : c \in For(E, t)})
Types(E) == {c.type : c \in E}

\* sort.Slice: by total, then by the strongest clue.
Before(E, t, u) == \/ Total(E, t) > Total(E, u)
                   \/ Total(E, t) = Total(E, u) /\ Strongest(E, t) > Strongest(E, u)

\* types[0]; of equals it is any, as the types come from a map.
Winners(E) == {t \in Types(E) : \A u \in Types(E) : ~Before(E, u, t)}

\* scores[types[1]].total >= winning.total*.8
Close(E, t) == \E u \in Types(E) \ {t} : 10 * Total(E, u) >= 8 * Total(E, t)

Confidence(E, t) ==
    LET raw == Strongest(E, t) + 6 * (Cardinality(For(E, t)) - 1)
               - (IF Close(E, t) THEN 15 ELSE 0)
    IN Max({0, Min({98, raw})})

\* What a sighting may conclude.
Conclusions(E) == IF E = {} THEN {<<"unknown", 0>>}
                  ELSE {<<t, Confidence(E, t)>> : t \in Winners(E)}

\* identificationEvidenceFor: the rule is a clue of its own.
Evidence(E) == E \cup (IF rule \in AnyType THEN {[type |-> rule, weight |-> 66]} ELSE {})

-----------------------------------------------------------------------------
\* learnedVendorRules.

BugLatest(i) == TRUE
\* c.id = (SELECT MAX(latest.id) ...)
Latest(i) == \A j \in DOMAIN corrections :
                corrections[j].device = corrections[i].device => j <= i

\* The corrections that count.
Lessons == {i \in DOMAIN corrections :
              LET d == corrections[i].device IN
                 /\ Latest(i)
                 /\ user[d] \notin {"", auto[d]}
                 /\ corrections[i].type = user[d]}

Votes(t) == {i \in Lessons : corrections[i].type = t}

\* group.total >= 2 && count*4 >= group.total*3
Enough(t) == 4 * Cardinality(Votes(t)) >= 3 * Cardinality(Lessons)

\* The type with most corrections, if there are enough; of equals any.
Learned == {t \in AnyType : /\ Cardinality(Lessons) >= 2 /\ Enough(t)
                            /\ \A u \in AnyType : Cardinality(Votes(u)) <= Cardinality(Votes(t))}

\* The run reads the rules once; it goes on without them after an error.
StartRun == /\ rule = ""
            /\ rule' \in {"none"} \cup Learned
            /\ UNCHANGED <<auto, confidence, user, corrections, patch, best>>

EndRun == /\ rule # "" /\ rule' = ""
          /\ UNCHANGED <<auto, confidence, user, corrections, patch, best>>

-----------------------------------------------------------------------------
\* upsertSeen.

BugReplaces(new, old) == TRUE
\* CASE WHEN ? >= identification_confidence
Replaces(new, old) == new >= old

Conclude(d, t, level) ==
    /\ auto' = [auto EXCEPT ![d] = IF Replaces(level, confidence[d]) THEN t ELSE @]
    /\ confidence' = [confidence EXCEPT ![d] = Max({@, level})]
    /\ LET top == best[d] IN
       best' = [best EXCEPT ![d] =
                  IF level > top.level THEN [level |-> level, types |-> {t}]
                  ELSE IF level = top.level THEN [top EXCEPT !.types = @ \cup {t}] ELSE top]
    /\ UNCHANGED <<user, corrections, rule, patch>>

\* A worker, or the pass over the ARP table, has seen the device.
Sight(d) == /\ rule # ""
            /\ \E E \in Finds : \E r \in Conclusions(Evidence(E)) : Conclude(d, r[1], r[2])

\* pollTarget: an SNMP answer needs no scan.
Poll(d) == \E t \in SnmpType : Conclude(d, t, 90)

-----------------------------------------------------------------------------
\* patchDevice with a user_device_type.

\* What is not one of the program's types, "" included, is "unknown".
SafeType(v) == IF v \in Type THEN v ELSE "unknown"

ReadPrevious(h) ==
    /\ patch[h] = Idle
    /\ \E d \in Device, v \in {""} \cup AnyType :
          patch' = [patch EXCEPT ![h] = [at |-> "write", device |-> d,
                                         type |-> SafeType(v), previous |-> user[d]]]
    /\ UNCHANGED <<auto, confidence, user, corrections, rule, best>>

Write(h) ==
    /\ patch[h].at = "write"
    /\ user' = [user EXCEPT ![patch[h].device] = patch[h].type]
    /\ patch' = [patch EXCEPT ![h] = [at |-> "reread", device |-> patch[h].device,
                                      previous |-> patch[h].previous]]
    /\ UNCHANGED <<auto, confidence, corrections, rule, best>>

\* recordIdentificationCorrection: if correctedType == "" ||
\* correctedType == automaticType { return nil }
Corrects(d) == user[d] \notin {"", auto[d]}

Reread(h) ==
    LET d == patch[h].device IN
    /\ patch[h].at = "reread"
    /\ patch' = [patch EXCEPT ![h] =
                   IF user[d] # patch[h].previous /\ Corrects(d)
                   THEN [at |-> "record", device |-> d, type |-> user[d]] ELSE Idle]
    /\ UNCHANGED <<auto, confidence, user, corrections, rule, best>>

\* The INSERT, or its failure.
Record(h) ==
    /\ patch[h].at = "record"
    /\ patch' = [patch EXCEPT ![h] = Idle]
    /\ \/ /\ Len(corrections) < MaxCorrections
          /\ corrections' = Append(corrections, [device |-> patch[h].device,
                                                 type |-> patch[h].type])
       \/ UNCHANGED corrections
    /\ UNCHANGED <<auto, confidence, user, rule, best>>

\* The process ends: runs and requests are gone.
Crash == /\ rule' = "" /\ patch' = [h \in Handler |-> Idle]
         /\ UNCHANGED <<auto, confidence, user, corrections, best>>

PatchStep(h) == ReadPrevious(h) \/ Write(h) \/ Reread(h) \/ Record(h)

Next == \/ StartRun \/ EndRun \/ Crash
        \/ \E d \in Device : Sight(d) \/ Poll(d)
        \/ \E h \in Handler : PatchStep(h)

Spec == Init /\ [][Next]_vars

-----------------------------------------------------------------------------

\* Every variable holds a value of its kind.
TypeOK ==
    /\ auto \in [Device -> AnyType] /\ confidence \in [Device -> 0 .. 98]
    /\ user \in [Device -> {""} \cup AnyType]
    /\ corrections \in Seq([device : Device, type : AnyType])
    /\ Len(corrections) <= MaxCorrections
    /\ rule \in {"", "none"} \cup AnyType
    /\ patch \in [Handler -> {Idle}
                  \cup [at : {"write"}, device : Device, type : AnyType,
                        previous : {""} \cup AnyType]
                  \cup [at : {"reread"}, device : Device, previous : {""} \cup AnyType]
                  \cup [at : {"record"}, device : Device, type : AnyType]]
    /\ best \in [Device -> [level : 0 .. 98, types : SUBSET AnyType]]

\* Whatever was corrected in whatever order, by requests that overlap too, a
\* rule rests on two devices about which the user still disagrees with the
\* scan, three for each one that the user takes for something else, and never
\* on one device edited repeatedly.
RuleRestsOnDevices ==
    \A t \in Learned :
       LET agree == {d \in Device : user[d] = t /\ auto[d] # t}
           differ == {d \in Device : user[d] # t /\ \E i \in Lessons : corrections[i].device = d}
       IN /\ Cardinality(agree) >= 2
          /\ Cardinality(agree) >= 3 * Cardinality(differ)

\* README.md:227: a correction that the user has withdrawn takes no further
\* part in learning.  (The code keeps a type withdrawn as "unknown", which is
\* a correction like any other.)
Withdrawn(d) == /\ user[d] \in {"", "unknown"}
                /\ \E i \in DOMAIN corrections : /\ corrections[i].device = d
                                                 /\ corrections[i].type \in Type
WithdrawnTeachesNothing ==
    \A i \in Lessons : ~Withdrawn(corrections[i].device)

\* The type a device is shown with and the confidence shown beside it are of
\* one and the same sighting, and no sighting was more certain.
TypeOfBestSighting ==
    \A d \in Device : /\ confidence[d] = best[d].level
                      /\ auto[d] \in best[d].types
=============================================================================
