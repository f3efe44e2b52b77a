------------------------------ MODULE DnsName -------------------------------
(***************************************************************************)
(* Reading the PTR records of an mDNS answer                               *)
(* (internal/app/mdns.go: parseMDNSPTRRecords, dnsName).                   *)
(*                                                                         *)
(* A message is any sequence of the bytes in Byte: the sender is any host  *)
(* of the network.  dnsName's recursion at a compression pointer is a jump *)
(* here, as its caller only passes the result on.                          *)
(*                                                                         *)
(* The header is taken off and offsets count from its end, so that no      *)
(* pointer leads into it.  A message is shorter than 256 bytes, so the     *)
(* second byte of a pointer is the whole of it; bytes above Pointer, which *)
(* would only add to it, are left out.  A question ends in one byte        *)
(* instead of four, a record has one byte of type and one of length        *)
(* instead of ten in all.                                                  *)
(* Bug... operators are faulty forms of the definition below them.         *)
(***************************************************************************)
EXTENDS Naturals, Sequences, SequencesExt

CONSTANTS
    Byte,        \* bytes a message is made of
    MaxLen,      \* bound: bytes of a message
    MaxItems,    \* bound: questions, and records, that a header announces
    MaxDepth,    \* pointers followed in one name, 12 in the code
    Pointer,     \* 192: the byte a pointer begins with
    Ptr          \* the type of PTR records

DnsAssumption == /\ Byte \subseteq 0 .. 255 /\ MaxDepth \in Nat
                 /\ MaxLen \in 0 .. 255 /\ MaxItems \in Nat
                 /\ Pointer = 192 /\ \A b \in Byte : b <= Pointer

VARIABLES
    message,    \* the bytes
    questions,  \* still to be read
    records,    \* still to be read
    stage,      \* the name that is read: "question", "owner" or "target";
                \* or "done"
    name,       \* the locals of dnsName
    resume,     \* where the record after this one begins
    found,      \* records in the result
    reach       \* history: how many bytes the furthest access needs

vars == <<message, questions, records, stage, name, resume, found, reach>>

QuestionTail == 1
RecordHead == 2

Size == Len(message)
At(o) == IF o < Size THEN message[o + 1] ELSE 0
Touch(o) == reach' = IF o < reach THEN reach ELSE o + 1

\* dnsName(message, offset, 0)
Call(o) == [offset |-> o, next |-> o, depth |-> 0]

\* The loops over questions and records.
First(q, r) == IF q > 0 THEN "question" ELSE IF r > 0 THEN "owner" ELSE "done"

Init == /\ message \in BoundedSeq(Byte, MaxLen)
        /\ questions \in 0 .. MaxItems /\ records \in 0 .. MaxItems
        /\ stage = First(questions, records)
        /\ name = Call(0) /\ resume = 0 /\ found = 0 /\ reach = 0

-----------------------------------------------------------------------------

\* A step within a name: the byte at its offset.
Here == At(name.offset)

BugTooFar == name.offset >= Size
\* depth > 12 || offset >= len(message)
TooFar == name.depth > MaxDepth \/ name.offset >= Size

BugCut == FALSE
\* offset+1 >= len(message)
Cut == name.offset + 1 >= Size

\* length <= 63 && offset+length <= len(message)
LabelFits == Here <= 63 /\ name.offset + 1 + Here <= Size

\* next follows the offset until the first pointer.
Moved(o, after) == [offset |-> o, next |-> IF name.depth = 0 THEN after ELSE name.next,
                    depth |-> name.depth]

\* Only whether the depth is too large matters.
Deeper(n) == [n EXCEPT !.depth = IF @ > MaxDepth THEN @ ELSE @ + 1]

\* The next question or record, of those that are left.
Continue(q, r, o) == /\ questions' = q /\ records' = r
                     /\ stage' = First(q, r) /\ name' = Call(o)

Stop == stage' = "done" /\ UNCHANGED <<questions, records, name>>

\* labels = append(labels, message[offset:offset+length])
Label == /\ stage # "done" /\ ~TooFar /\ Here \notin {0, Pointer} /\ LabelFits
         /\ name' = Moved(name.offset + 1 + Here, name.offset + 1 + Here)
         /\ Touch(name.offset + Here)
         /\ UNCHANGED <<message, questions, records, stage, resume, found>>

\* dnsName(message, pointer, depth+1)
Jump == /\ stage # "done" /\ ~TooFar /\ Here = Pointer /\ ~Cut
        /\ name' = Deeper(Moved(At(name.offset + 1), name.offset + 2))
        /\ Touch(name.offset + 1)
        /\ UNCHANGED <<message, questions, records, stage, resume, found>>

\* The name cannot be read: a question or an owner ends the parse, a target
\* is left out.
Fail == /\ stage # "done"
        /\ \/ TooFar
           \/ Here = Pointer /\ Cut
           \/ Here \notin {0, Pointer} /\ ~LabelFits
        /\ IF stage = "target" THEN Continue(questions, records, resume) ELSE Stop
        /\ UNCHANGED <<message, resume, found, reach>>

EndOfName == ~TooFar /\ Here = 0
Next0 == Moved(name.offset + 1, name.offset + 1).next

Question ==
    /\ stage = "question" /\ EndOfName
    /\ IF Next0 + QuestionTail > Size THEN Stop
       ELSE Continue(questions - 1, records, Next0 + QuestionTail)
    /\ Touch(name.offset)
    /\ UNCHANGED <<message, resume, found>>

\* next+10 <= len(message)
HeadFits(o) == o + RecordHead <= Size

\* data+length <= len(message)
DataFits(data) == data + At(data - 1) <= Size

\* The owner is read: a PTR record has its target read, another is skipped.
Owner ==
    /\ stage = "owner" /\ EndOfName
    /\ LET data == Next0 + RecordHead
           end == data + At(data - 1)
       IN IF ~HeadFits(Next0) \/ ~DataFits(data)
          THEN /\ Stop /\ UNCHANGED resume
               /\ Touch(IF HeadFits(Next0) THEN data - 1 ELSE name.offset)
          ELSE /\ IF At(Next0) = Ptr
                  THEN /\ stage' = "target" /\ name' = Call(data) /\ resume' = end
                       /\ records' = records - 1 /\ UNCHANGED questions
                  ELSE Continue(questions, records - 1, end) /\ UNCHANGED resume
               /\ Touch(data - 1)
    /\ UNCHANGED <<message, found>>

Target == /\ stage = "target" /\ EndOfName
          /\ found' = found + 1
          /\ Continue(questions, records, resume)
          /\ Touch(name.offset)
          /\ UNCHANGED <<message, resume>>

Next == Label \/ Jump \/ Fail \/ Question \/ Owner \/ Target

Spec == Init /\ [][Next]_vars

FairSpec == Spec /\ WF_vars(Next)

-----------------------------------------------------------------------------

\* Every variable holds a value of its kind.
TypeOK ==
    /\ message \in Seq(Byte) /\ Size <= MaxLen
    /\ questions \in 0 .. MaxItems /\ records \in 0 .. MaxItems
    /\ stage \in {"question", "owner", "target", "done"}
    /\ name \in [offset : Nat, next : Nat, depth : 0 .. MaxDepth + 1]
    /\ resume \in Nat /\ found \in 0 .. MaxItems /\ reach \in Nat

\* Whatever a message says about lengths, pointers and counts, no byte beyond
\* its end is asked for: that would end the whole process.
ReadsInside == reach <= Size

\* Whatever pointers lead where, the message is read to an end.
ReadingEnds == (stage # "done") ~> (stage = "done")
=============================================================================
