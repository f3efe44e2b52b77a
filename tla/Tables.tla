------------------------------- MODULE Tables -------------------------------
(***************************************************************************)
(* What discovery and the user write about devices: the relations between  *)
(* rows (Topology), the row a sighting is written to (DeviceIdentity), and *)
(* the type it is given (Identification).  The first takes from the second *)
(* only that rows come and are merged, which it lets happen at any time,   *)
(* and the third is about rows that stay; a behaviour here is one of those *)
(* in Parts.                                                               *)
(***************************************************************************)
EXTENDS Topology

CONSTANT Parts  \* some of "relations", "rows", "types"
CONSTANTS Mac, Address, Gateway, Id                            \* DeviceIdentity
CONSTANTS Host, Type, Finds, SnmpType, Handler, MaxCorrections \* Identification

VARIABLES part,
          at, row, latest, earlier, refused,
          auto, confidence, user, corrections, rule, patch, best

Identity == INSTANCE DeviceIdentity
Types    == INSTANCE Identification WITH Device <- Host

ASSUME IdentityOK == Identity!IdentityAssumption
ASSUME TypesOK == Types!IdentificationAssumption

identityVars == <<at, row, latest, earlier, refused>>
typesVars == <<auto, confidence, user, corrections, rule, patch, best>>

InitAny == /\ part \in Parts
           /\ Init /\ Identity!Init /\ Types!Init

RelationsNext == part = "relations" /\ Next /\ UNCHANGED <<part, identityVars, typesVars>>
RowsNext == part = "rows" /\ Identity!Next /\ UNCHANGED <<part, vars, typesVars>>
TypesNext == part = "types" /\ Types!Next /\ UNCHANGED <<part, vars, identityVars>>

NextAny == RelationsNext \/ RowsNext \/ TypesNext

SpecAny == InitAny /\ [][NextAny]_<<part, vars, identityVars, typesVars>>

\* No sighting is lost to the UNIQUE of stable_key (upsertSeen).
NoSightingRefused == Identity!NoSightingRefused
\* No row goes back and forth between devices that stay (upsertSeen).
NoBackAndForth == Identity!NoBackAndForth
\* A rule rests on corrections of several devices (learnedVendorRules).
RuleRestsOnDevices == Types!RuleRestsOnDevices
\* The type and the confidence shown are of one sighting (upsertSeen).
TypeOfBestSighting == Types!TypeOfBestSighting
\* README.md:227, which the code does not keep: a correction withdrawn takes
\* no further part in learning.
WithdrawnTeachesNothing == Types!WithdrawnTeachesNothing
=============================================================================
