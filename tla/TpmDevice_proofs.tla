--------------------------- MODULE TpmDevice_proofs ---------------------------
(***************************************************************************)
(* An Ok answer of Tpm::transmit belongs to the caller's own command, and  *)
(* the exchange implements the atomic command of TpmCommand, for any       *)
(* number of threads and calls, whatever writes and reads fail half way.   *)
(***************************************************************************)
EXTENDS TpmDevice, TLAPS

Exchanging == {"send", "header", "rest"}

Unread(c) == kept = NoResponse \/ kept.of = id[c]

\* Commands are numbered by the calls made so far.
Numbered ==
  /\ \A c \in Clients : id[c] \in 0 .. calls
  /\ \A k \in 1 .. Len(executed) : executed[k] \in 0 .. calls

\* A thread between write and return holds the Mutex: no other exchanges.
Exclusive == \A c \in Clients : pc[c] \in Exchanging => owner = c

\* A command is executed by the write (or the submission) only.
RanWhen ==
  \A c \in Clients :
    /\ pc[c] \in {"lock", "send"} => ~ran[c]
    /\ pc[c] \in {"header", "rest", "ok"} => ran[c]

\* What the thread may read is the response to its own command.
KeptIsOwn ==
  \A c \in Clients :
    /\ pc[c] \in {"header", "rest"} => Unread(c)
    /\ pc[c] = "rest" => part[c].of = id[c]

Answered == \A c \in Clients : pc[c] = "ok" => answer[c] = id[c]

IInv == TypeOK /\ Numbered /\ Exclusive /\ RanWhen /\ KeptIsOwn /\ Answered

-----------------------------------------------------------------------------

LEMMA InitInv == Init => IInv
<1>1. SUFFICES ASSUME Init PROVE IInv
  OBVIOUS
<1>2. TypeOK
  BY <1>1 DEF Init, TypeOK, Responses, NoResponse, Lengths, Working, Done
<1>3. Numbered /\ Exclusive /\ RanWhen /\ KeptIsOwn /\ Answered
  BY <1>1 DEF Init, Numbered, Exclusive, RanWhen, KeptIsOwn, Answered, Exchanging
<1>4. QED  BY <1>2, <1>3 DEF IInv

\* The threads other than c are where they were.
Others(c) ==
  \A d \in Clients \ {c} :
    /\ pc'[d] = pc[d] /\ id'[d] = id[d] /\ ran'[d] = ran[d]
    /\ part'[d] = part[d] /\ answer'[d] = answer[d]

LEMMA TransmitInv ==
  ASSUME IInv, NEW c \in Clients, Transmit(c)  PROVE IInv'
<1> USE DEF IInv, TypeOK, Transmit, Goto
<1>1. \A d \in Clients : id'[d] \in 0 .. calls'
  BY DEF Numbered
<1>2. Numbered'
  BY <1>1 DEF Numbered
<1>3. Exclusive'
  BY DEF Exclusive, Exchanging
<1>4. RanWhen'
  BY DEF RanWhen
<1>5. KeptIsOwn'
  BY DEF KeptIsOwn, Unread, Done
<1>6. Answered'
  BY DEF Answered
<1>7. TypeOK'
  <2>1. id' \in [Clients -> Nat] /\ answer' \in [Clients -> Nat] /\ calls' \in Nat
    OBVIOUS
  <2>2. pc' \in [Clients -> Working \cup Done]
    BY DEF Working, Done
  <2>3. ran' \in [Clients -> BOOLEAN]
    OBVIOUS
  <2>4. owner' \in {d \in Clients : pc'[d] \in {"send", "header", "rest"}} \cup {Nobody}
    BY DEF Done
  <2>5. QED  BY <2>1, <2>2, <2>3, <2>4
<1>8. QED  BY <1>2, <1>3, <1>4, <1>5, <1>6, <1>7

LEMMA LockInv ==
  ASSUME IInv, NEW c \in Clients, Lock(c)  PROVE IInv'
<1> USE DEF IInv, TypeOK, Lock, Goto
<1>1. Numbered'
  BY DEF Numbered
<1>2. Exclusive'
  BY DeviceAssumption DEF Exclusive, Exchanging
<1>3. RanWhen'
  BY DEF RanWhen
<1>4. KeptIsOwn'
  BY DEF KeptIsOwn, Unread
<1>5. Answered'
  BY DEF Answered
<1>6. TypeOK'
  <2>1. pc' \in [Clients -> Working \cup Done]
    BY DEF Working
  <2>2. owner' \in {d \in Clients : pc'[d] \in {"send", "header", "rest"}} \cup {Nobody}
    OBVIOUS
  <2>3. QED  BY <2>1, <2>2
<1>7. QED  BY <1>1, <1>2, <1>3, <1>4, <1>5, <1>6

\* Who exchanges holds the Mutex, so nobody else is reading.
LEMMA Alone ==
  ASSUME IInv, NEW c \in Clients, pc[c] \in Exchanging
  PROVE  /\ owner = c
         /\ \A d \in Clients \ {c} : pc[d] \notin Exchanging
BY DEF IInv, Exclusive

\* A return leaves no thread between write and return.
LEMMA ReturnExcludes ==
  ASSUME IInv, NEW c \in Clients, pc[c] \in Exchanging,
         NEW l \in {"ok", "err"}, Return(c, l)
  PROVE  /\ Exclusive'
         /\ owner' \in {d \in Clients : pc'[d] \in {"send", "header", "rest"}} \cup {Nobody}
         /\ pc' \in [Clients -> Working \cup Done]
         /\ pc'[c] = l /\ \A d \in Clients \ {c} : pc'[d] = pc[d]
BY Alone DEF IInv, TypeOK, Return, Goto, Exclusive, Exchanging, Done

LEMMA GoOnExcludes ==
  ASSUME IInv, NEW c \in Clients, pc[c] \in Exchanging,
         NEW l \in {"header", "rest"}, Goto(c, l), UNCHANGED owner
  PROVE  /\ Exclusive'
         /\ owner' \in {d \in Clients : pc'[d] \in {"send", "header", "rest"}} \cup {Nobody}
         /\ pc' \in [Clients -> Working \cup Done]
         /\ pc'[c] = l /\ \A d \in Clients \ {c} : pc'[d] = pc[d]
BY Alone DEF IInv, TypeOK, Goto, Exclusive, Exchanging, Working

LEMMA ExecutesInv ==
  ASSUME IInv, NEW c \in Clients, Executes(c), UNCHANGED <<id, calls>>
  PROVE  /\ Numbered' /\ ran' \in [Clients -> BOOLEAN] /\ executed' \in Seq(Nat)
         /\ ran'[c] /\ \A d \in Clients \ {c} : ran'[d] = ran[d]
<1> USE DEF IInv, TypeOK, Executes
<1>1. id[c] \in Nat
  OBVIOUS
<1>2. /\ executed' \in Seq(Nat)
      /\ Len(executed') = Len(executed) + 1
      /\ \A k \in 1 .. Len(executed) : executed'[k] = executed[k]
      /\ executed'[Len(executed) + 1] = id[c]
  BY <1>1
<1>3. Numbered'
  BY <1>2 DEF Numbered
<1>4. QED  BY <1>2, <1>3

LEMMA WriteInv ==
  ASSUME IInv, NEW c \in Clients, Write(c)  PROVE IInv'
<1> USE DEF IInv
<1>0. pc[c] = "send" /\ pc[c] \in Exchanging /\ ~ran[c]
  BY DEF Write, Exchanging, RanWhen
<1>1. CASE /\ Executes(c) /\ Goto(c, "header") /\ UNCHANGED owner
           /\ \E n \in Lengths : kept' = [of |-> id[c], length |-> n, begun |-> FALSE]
  <2>1. /\ Exclusive' /\ pc' \in [Clients -> Working \cup Done]
        /\ owner' \in {d \in Clients : pc'[d] \in {"send", "header", "rest"}} \cup {Nobody}
        /\ pc'[c] = "header" /\ \A d \in Clients \ {c} : pc'[d] = pc[d]
    BY <1>0, <1>1, GoOnExcludes
  <2>2. UNCHANGED <<os, id, part, answer, calls>>
    BY DEF Write
  <2>3. /\ Numbered' /\ ran' \in [Clients -> BOOLEAN] /\ executed' \in Seq(Nat)
        /\ ran'[c] /\ \A d \in Clients \ {c} : ran'[d] = ran[d]
    BY <1>1, <2>2, ExecutesInv
  <2>4. kept' \in Responses /\ kept'.of = id[c]
    BY <1>1 DEF TypeOK, Responses
  <2>5. RanWhen'
    BY <2>1, <2>3 DEF RanWhen
  <2>6. KeptIsOwn'
    BY <1>0, <2>1, <2>2, <2>4, Alone DEF KeptIsOwn, Unread, Exchanging
  <2>7. Answered'
    BY <2>1, <2>2 DEF Answered
  <2>8. TypeOK'
    BY <2>1, <2>2, <2>3, <2>4 DEF TypeOK
  <2>9. QED  BY <2>1, <2>3, <2>5, <2>6, <2>7, <2>8
<1>2. CASE Executes(c) /\ kept' = NoResponse /\ Return(c, "err")
  <2>1. /\ Exclusive' /\ pc' \in [Clients -> Working \cup Done]
        /\ owner' \in {d \in Clients : pc'[d] \in {"send", "header", "rest"}} \cup {Nobody}
        /\ pc'[c] = "err" /\ \A d \in Clients \ {c} : pc'[d] = pc[d]
    BY <1>0, <1>2, ReturnExcludes
  <2>2. UNCHANGED <<os, id, part, answer, calls>>
    BY DEF Write
  <2>3. /\ Numbered' /\ ran' \in [Clients -> BOOLEAN] /\ executed' \in Seq(Nat)
        /\ ran'[c] /\ \A d \in Clients \ {c} : ran'[d] = ran[d]
    BY <1>2, <2>2, ExecutesInv
  <2>4. kept' \in Responses
    BY <1>2 DEF NoResponse, Responses, Lengths
  <2>5. RanWhen'
    BY <2>1, <2>3 DEF RanWhen
  <2>6. KeptIsOwn'
    BY <1>0, <2>1, Alone DEF KeptIsOwn, Exchanging
  <2>7. Answered'
    BY <2>1, <2>2 DEF Answered
  <2>8. TypeOK'
    BY <2>1, <2>2, <2>3, <2>4 DEF TypeOK
  <2>9. QED  BY <2>1, <2>3, <2>5, <2>6, <2>7, <2>8
<1>3. CASE Return(c, "err") /\ UNCHANGED <<kept, ran, executed>>
  <2>1. /\ Exclusive' /\ pc' \in [Clients -> Working \cup Done]
        /\ owner' \in {d \in Clients : pc'[d] \in {"send", "header", "rest"}} \cup {Nobody}
        /\ pc'[c] = "err" /\ \A d \in Clients \ {c} : pc'[d] = pc[d]
    BY <1>0, <1>3, ReturnExcludes
  <2>2. UNCHANGED <<os, id, part, answer, calls>>
    BY DEF Write
  <2>3. Numbered' /\ RanWhen' /\ KeptIsOwn' /\ Answered'
    BY <1>3, <2>1, <2>2 DEF Numbered, RanWhen, KeptIsOwn, Unread, Answered
  <2>4. TypeOK'
    BY <1>3, <2>1, <2>2 DEF TypeOK
  <2>5. QED  BY <2>1, <2>3, <2>4
<1>4. QED  BY <1>1, <1>2, <1>3 DEF Write

\* What a read may leave with the driver: nothing, or the rest of what it held.
LEMMA ReadLeaves ==
  ASSUME IInv, NEW c \in Clients, ReadHeader(c), Kept, part' = [part EXCEPT ![c] = kept],
         kept' = IF kept.length = "bare" THEN NoResponse ELSE [kept EXCEPT !.begun = TRUE]
  PROVE  /\ kept' \in Responses /\ kept.of = id[c]
         /\ kept' = NoResponse \/ kept'.of = id[c]
         /\ part' \in [Clients -> Responses] /\ part'[c].of = id[c]
         /\ \A d \in Clients \ {c} : part'[d] = part[d]
<1>1. kept \in Responses /\ part \in [Clients -> Responses]
  BY DEF IInv, TypeOK
<1>2. kept.of = id[c]
  BY DEF IInv, KeptIsOwn, Unread, ReadHeader, Kept
<1>3. NoResponse \in Responses
  BY DEF NoResponse, Responses, Lengths
<1>4. [kept EXCEPT !.begun = TRUE] \in Responses /\ [kept EXCEPT !.begun = TRUE].of = kept.of
  BY <1>1 DEF Responses
<1>5. QED  BY <1>1, <1>2, <1>3, <1>4

LEMMA ReadHeaderInv ==
  ASSUME IInv, NEW c \in Clients, ReadHeader(c)  PROVE IInv'
<1> USE DEF IInv
<1>0. pc[c] = "header" /\ pc[c] \in Exchanging /\ ran[c]
  BY DEF ReadHeader, Exchanging, RanWhen
<1>1. UNCHANGED <<os, id, ran, executed, calls>> /\ Numbered'
  BY DEF ReadHeader, Numbered
<1>2. CASE /\ Kept /\ part' = [part EXCEPT ![c] = kept]
           /\ kept' = IF kept.length = "bare" THEN NoResponse ELSE [kept EXCEPT !.begun = TRUE]
           /\ kept.length = "long" /\ Goto(c, "rest") /\ UNCHANGED <<owner, answer>>
  <2>1. /\ kept' \in Responses
        /\ kept' = NoResponse \/ kept'.of = id[c]
        /\ part' \in [Clients -> Responses] /\ part'[c].of = id[c]
    BY <1>2, ReadLeaves
  <2>2. /\ Exclusive' /\ pc' \in [Clients -> Working \cup Done]
        /\ owner' \in {d \in Clients : pc'[d] \in {"send", "header", "rest"}} \cup {Nobody}
        /\ pc'[c] = "rest" /\ \A d \in Clients \ {c} : pc'[d] = pc[d]
    BY <1>0, <1>2, GoOnExcludes
  <2>3. KeptIsOwn'
    BY <1>0, <1>1, <2>1, <2>2, Alone DEF KeptIsOwn, Unread, Exchanging
  <2>4. RanWhen' /\ Answered'
    BY <1>0, <1>1, <1>2, <2>2 DEF RanWhen, Answered
  <2>5. UNCHANGED answer
    BY <1>2
  <2>6. TypeOK'
    BY <1>1, <2>1, <2>2, <2>5 DEF TypeOK
  <2>7. QED  BY <1>1, <2>2, <2>3, <2>4, <2>6
<1>3. CASE /\ Kept /\ part' = [part EXCEPT ![c] = kept]
           /\ kept' = IF kept.length = "bare" THEN NoResponse ELSE [kept EXCEPT !.begun = TRUE]
           /\ answer' = [answer EXCEPT ![c] = kept.of] /\ Return(c, "ok")
  <2>1. kept' \in Responses /\ kept.of = id[c] /\ part' \in [Clients -> Responses]
    BY <1>3, ReadLeaves
  <2>2. /\ Exclusive' /\ pc' \in [Clients -> Working \cup Done]
        /\ owner' \in {d \in Clients : pc'[d] \in {"send", "header", "rest"}} \cup {Nobody}
        /\ pc'[c] = "ok" /\ \A d \in Clients \ {c} : pc'[d] = pc[d]
    BY <1>0, <1>3, ReturnExcludes
  <2>3. answer' \in [Clients -> Nat] /\ Answered'
    BY <1>1, <1>3, <2>1, <2>2 DEF TypeOK, Answered
  <2>4. KeptIsOwn'
    BY <1>0, <2>2, Alone DEF KeptIsOwn, Exchanging
  <2>5. RanWhen'
    BY <1>0, <1>1, <2>2 DEF RanWhen
  <2>6. TypeOK'
    BY <1>1, <2>1, <2>2, <2>3 DEF TypeOK
  <2>7. QED  BY <1>1, <2>2, <2>3, <2>4, <2>5, <2>6
<1>4. CASE /\ Return(c, "err") /\ UNCHANGED answer
           /\ kept' \in Responses /\ part' \in [Clients -> Responses]
  <2>1. /\ Exclusive' /\ pc' \in [Clients -> Working \cup Done]
        /\ owner' \in {d \in Clients : pc'[d] \in {"send", "header", "rest"}} \cup {Nobody}
        /\ pc'[c] = "err" /\ \A d \in Clients \ {c} : pc'[d] = pc[d]
    BY <1>0, <1>4, ReturnExcludes
  <2>2. KeptIsOwn'
    BY <1>0, <2>1, Alone DEF KeptIsOwn, Exchanging
  <2>3. RanWhen' /\ Answered'
    BY <1>1, <1>4, <2>1 DEF RanWhen, Answered
  <2>4. TypeOK'
    BY <1>1, <1>4, <2>1 DEF TypeOK
  <2>5. QED  BY <1>1, <2>1, <2>2, <2>3, <2>4
<1>5. CASE /\ Kept /\ part' = [part EXCEPT ![c] = kept]
           /\ kept' = IF kept.length = "bare" THEN NoResponse ELSE [kept EXCEPT !.begun = TRUE]
           /\ Return(c, "err") /\ UNCHANGED answer
  BY <1>4, <1>5, ReadLeaves
<1>6. CASE Return(c, "err") /\ UNCHANGED <<kept, part, answer>>
  BY <1>4, <1>6 DEF TypeOK
<1>7. QED  BY <1>2, <1>3, <1>5, <1>6 DEF ReadHeader

LEMMA ReadRestInv ==
  ASSUME IInv, NEW c \in Clients, ReadRest(c)  PROVE IInv'
<1> USE DEF IInv
<1>0. pc[c] = "rest" /\ pc[c] \in Exchanging /\ ran[c] /\ part[c].of = id[c] /\ Unread(c)
  BY DEF ReadRest, Exchanging, RanWhen, KeptIsOwn
<1>1. UNCHANGED <<os, id, ran, part, executed, calls>> /\ Numbered'
  BY DEF ReadRest, Numbered
<1>2. CASE /\ Kept /\ kept' = NoResponse /\ Return(c, "ok")
           /\ answer' = [answer EXCEPT ![c] = IF part[c].of = kept.of THEN kept.of ELSE 0]
  <2>1. answer' = [answer EXCEPT ![c] = id[c]]
    BY <1>0, <1>2 DEF Unread, Kept
  <2>2. /\ Exclusive' /\ pc' \in [Clients -> Working \cup Done]
        /\ owner' \in {d \in Clients : pc'[d] \in {"send", "header", "rest"}} \cup {Nobody}
        /\ pc'[c] = "ok" /\ \A d \in Clients \ {c} : pc'[d] = pc[d]
    BY <1>0, <1>2, ReturnExcludes
  <2>3. answer' \in [Clients -> Nat] /\ Answered'
    BY <1>1, <2>1, <2>2 DEF TypeOK, Answered
  <2>4. KeptIsOwn'
    BY <1>0, <2>2, Alone DEF KeptIsOwn, Exchanging
  <2>5. RanWhen'
    BY <1>0, <1>1, <2>2 DEF RanWhen
  <2>6. kept' \in Responses
    BY <1>2 DEF NoResponse, Responses, Lengths
  <2>7. TypeOK'
    BY <1>1, <2>2, <2>3, <2>6 DEF TypeOK
  <2>8. QED  BY <1>1, <2>2, <2>3, <2>4, <2>5, <2>7
<1>3. CASE Return(c, "err") /\ UNCHANGED <<kept, answer>>
  <2>1. /\ Exclusive' /\ pc' \in [Clients -> Working \cup Done]
        /\ owner' \in {d \in Clients : pc'[d] \in {"send", "header", "rest"}} \cup {Nobody}
        /\ pc'[c] = "err" /\ \A d \in Clients \ {c} : pc'[d] = pc[d]
    BY <1>0, <1>3, ReturnExcludes
  <2>2. KeptIsOwn' /\ RanWhen' /\ Answered'
    BY <1>1, <1>3, <2>1 DEF KeptIsOwn, Unread, RanWhen, Answered
  <2>3. TypeOK'
    BY <1>1, <1>3, <2>1 DEF TypeOK
  <2>4. QED  BY <1>1, <2>1, <2>2, <2>3
<1>4. QED  BY <1>2, <1>3 DEF ReadRest

LEMMA SubmitInv ==
  ASSUME IInv, NEW c \in Clients, Submit(c)  PROVE IInv'
<1> USE DEF IInv
<1>0. pc[c] = "send" /\ pc[c] \in Exchanging /\ ~ran[c]
  BY DEF Submit, Exchanging, RanWhen
<1>1. UNCHANGED <<os, kept, id, part, calls>>
  BY DEF Submit
<1>2. CASE Executes(c) /\ answer' = [answer EXCEPT ![c] = id[c]] /\ Return(c, "ok")
  <2>1. /\ Exclusive' /\ pc' \in [Clients -> Working \cup Done]
        /\ owner' \in {d \in Clients : pc'[d] \in {"send", "header", "rest"}} \cup {Nobody}
        /\ pc'[c] = "ok" /\ \A d \in Clients \ {c} : pc'[d] = pc[d]
    BY <1>0, <1>2, ReturnExcludes
  <2>2. /\ Numbered' /\ ran' \in [Clients -> BOOLEAN] /\ executed' \in Seq(Nat)
        /\ ran'[c] /\ \A d \in Clients \ {c} : ran'[d] = ran[d]
    BY <1>1, <1>2, ExecutesInv
  <2>3. answer' \in [Clients -> Nat] /\ Answered'
    BY <1>1, <1>2, <2>1 DEF TypeOK, Answered
  <2>4. RanWhen'
    BY <2>1, <2>2 DEF RanWhen
  <2>5. KeptIsOwn'
    BY <1>1, <2>1 DEF KeptIsOwn, Unread
  <2>6. TypeOK'
    BY <1>1, <2>1, <2>2, <2>3 DEF TypeOK
  <2>7. QED  BY <2>1, <2>2, <2>3, <2>4, <2>5, <2>6
<1>3. CASE Executes(c) /\ Return(c, "err") /\ UNCHANGED answer
  <2>1. /\ Exclusive' /\ pc' \in [Clients -> Working \cup Done]
        /\ owner' \in {d \in Clients : pc'[d] \in {"send", "header", "rest"}} \cup {Nobody}
        /\ pc'[c] = "err" /\ \A d \in Clients \ {c} : pc'[d] = pc[d]
    BY <1>0, <1>3, ReturnExcludes
  <2>2. /\ Numbered' /\ ran' \in [Clients -> BOOLEAN] /\ executed' \in Seq(Nat)
        /\ ran'[c] /\ \A d \in Clients \ {c} : ran'[d] = ran[d]
    BY <1>1, <1>3, ExecutesInv
  <2>3. KeptIsOwn' /\ RanWhen' /\ Answered'
    BY <1>1, <1>3, <2>1, <2>2 DEF KeptIsOwn, Unread, RanWhen, Answered
  <2>4. TypeOK'
    BY <1>1, <1>3, <2>1, <2>2 DEF TypeOK
  <2>5. QED  BY <2>1, <2>2, <2>3, <2>4
<1>4. CASE Return(c, "err") /\ UNCHANGED <<ran, executed, answer>>
  <2>1. /\ Exclusive' /\ pc' \in [Clients -> Working \cup Done]
        /\ owner' \in {d \in Clients : pc'[d] \in {"send", "header", "rest"}} \cup {Nobody}
        /\ pc'[c] = "err" /\ \A d \in Clients \ {c} : pc'[d] = pc[d]
    BY <1>0, <1>4, ReturnExcludes
  <2>2. Numbered' /\ KeptIsOwn' /\ RanWhen' /\ Answered'
    BY <1>1, <1>4, <2>1 DEF Numbered, KeptIsOwn, Unread, RanWhen, Answered
  <2>3. TypeOK'
    BY <1>1, <1>4, <2>1 DEF TypeOK
  <2>4. QED  BY <2>1, <2>2, <2>3
<1>5. QED  BY <1>2, <1>3, <1>4 DEF Submit

LEMMA DropInv == IInv /\ Drop => IInv'
<1>1. SUFFICES ASSUME IInv, Drop PROVE IInv'
  OBVIOUS
<1>2. KeptIsOwn'
  BY <1>1 DEF IInv, Drop, KeptIsOwn, Unread
<1>3. Numbered' /\ Exclusive' /\ RanWhen' /\ Answered'
  BY <1>1 DEF IInv, Drop, Numbered, Exclusive, RanWhen, Answered
<1>4. TypeOK'
  BY <1>1 DEF IInv, Drop, TypeOK, NoResponse, Responses, Lengths
<1>5. QED  BY <1>2, <1>3, <1>4 DEF IInv

LEMMA NextInv == IInv /\ [Next]_vars => IInv'
<1>1. SUFFICES ASSUME IInv, [Next]_vars PROVE IInv'
  OBVIOUS
<1>2. ASSUME NEW c \in Clients, Transmit(c) \/ Step(c) PROVE IInv'
  BY <1>1, <1>2, TransmitInv, LockInv, WriteInv, ReadHeaderInv, ReadRestInv, SubmitInv DEF Step
<1>3. CASE Drop
  BY <1>1, <1>3, DropInv
<1>4. CASE UNCHANGED vars
  BY <1>1, <1>4
  DEF vars, IInv, TypeOK, Numbered, Exclusive, RanWhen, KeptIsOwn, Unread, Answered
<1>5. QED  BY <1>1, <1>2, <1>3, <1>4 DEF Next

THEOREM Invariance == Spec => []IInv
<1>1. QED  BY InitInv, NextInv, PTL DEF Spec

(***************************************************************************)
(* The type invariant, with it: only a thread between write and return     *)
(* holds the Mutex (Tpm::transmit).                                        *)
(***************************************************************************)
THEOREM TypeCorrect == Spec => []TypeOK
<1>1. IInv => TypeOK
  BY DEF IInv
<1>2. QED  BY <1>1, Invariance, PTL

(***************************************************************************)
(* An Ok answer of transmit is the response to the caller's own command,   *)
(* for any number of threads, whatever failed half way before.             *)
(***************************************************************************)
THEOREM OwnAnswer == Spec => []AnswersOwnCommand
<1>1. IInv => AnswersOwnCommand
  BY DEF IInv, RanWhen, Answered, AnswersOwnCommand
<1>2. QED  BY <1>1, Invariance, PTL

-----------------------------------------------------------------------------
(***************************************************************************)
(* The refinement: a call is "open" from its start to its return.          *)
(***************************************************************************)
Status == [c \in Clients |-> IF pc[c] \in Working THEN "open" ELSE pc[c]]

avars == <<Status, id, ran, answer, executed>>

\* The step of c that ends in l is, seen from above, one of status s.
LEMMA StatusStep ==
  ASSUME IInv, NEW c \in Clients, NEW l \in Working \cup Done, Goto(c, l)
  PROVE  /\ Status \in [Clients -> {"open"} \cup Done]
         /\ Status' = [Status EXCEPT ![c] = IF l \in Working THEN "open" ELSE l]
<1>1. pc \in [Clients -> Working \cup Done]
  BY DEF IInv, TypeOK
<1>2. pc' = [pc EXCEPT ![c] = l]
  BY DEF Goto
<1>3. QED  BY <1>1, <1>2 DEF Status

LEMMA TransmitRefines ==
  ASSUME IInv, NEW c \in Clients, Transmit(c)  PROVE Atomic!Begin(c)
<1>1. PICK l \in {"lock", "err"} : Goto(c, l)
  BY DEF Transmit
<1>2. /\ Status' = [Status EXCEPT ![c] = IF l \in Working THEN "open" ELSE l]
      /\ Status[c] # "open"
  BY <1>1, StatusStep DEF Transmit, Status, Working, Done
<1>3. \E s \in {"open", "err"} : Status' = [Status EXCEPT ![c] = s]
  BY <1>2 DEF Working
<1>4. /\ id'[c] = calls + 1 /\ id' = [id EXCEPT ![c] = id'[c]]
      /\ ran' = [ran EXCEPT ![c] = FALSE] /\ answer' = [answer EXCEPT ![c] = 0]
      /\ UNCHANGED executed
  BY DEF Transmit, IInv, TypeOK
<1>5. calls + 1 \in Nat \ ({id[k] : k \in Clients} \cup {executed[k] : k \in 1 .. Len(executed)})
  BY DEF IInv, TypeOK, Numbered
<1>6. QED  BY <1>2, <1>3, <1>4, <1>5 DEF Atomic!Begin, Status

LEMMA LockRefines ==
  ASSUME IInv, NEW c \in Clients, Lock(c)  PROVE UNCHANGED avars
<1>1. Status' = [Status EXCEPT ![c] = "open"] /\ Status[c] = "open"
  BY StatusStep DEF Lock, Status, Working
<1>2. Status' = Status
  BY <1>1 DEF Status
<1>3. QED  BY <1>2 DEF Lock, avars

\* A thread at work is seen as an open call; its return sets its status.
LEMMA Returns ==
  ASSUME IInv, NEW c \in Clients, pc[c] \in Exchanging, NEW l \in {"ok", "err"}, Return(c, l)
  PROVE  Status[c] = "open" /\ Status' = [Status EXCEPT ![c] = l]
BY StatusStep DEF Return, Status, Working, Done, Exchanging

LEMMA GoesOn ==
  ASSUME IInv, NEW c \in Clients, pc[c] \in Exchanging, NEW l \in {"header", "rest"}, Goto(c, l)
  PROVE  Status[c] = "open" /\ Status' = [Status EXCEPT ![c] = "open"] /\ Status' = Status
<1>1. Status[c] = "open" /\ Status' = [Status EXCEPT ![c] = "open"]
  BY StatusStep DEF Status, Working, Exchanging
<1>2. Status' = Status
  BY <1>1 DEF Status
<1>3. QED  BY <1>1, <1>2

LEMMA WriteRefines ==
  ASSUME IInv, NEW c \in Clients, Write(c)
  PROVE  Atomic!Execute(c) \/ Atomic!Fail(c)
<1>0. pc[c] \in Exchanging /\ ~ran[c] /\ UNCHANGED <<id, answer>>
  BY DEF Write, Exchanging, IInv, RanWhen
<1>1. CASE Executes(c) /\ Goto(c, "header")
  BY <1>0, <1>1, GoesOn DEF Executes, Atomic!Execute, Status
<1>2. CASE Executes(c) /\ Return(c, "err")
  BY <1>0, <1>2, Returns DEF Executes, Atomic!Execute, Status
<1>3. CASE Return(c, "err") /\ UNCHANGED <<ran, executed>>
  BY <1>0, <1>3, Returns DEF Atomic!Fail, Status
<1>4. QED  BY <1>1, <1>2, <1>3 DEF Write

LEMMA ReadHeaderRefines ==
  ASSUME IInv, NEW c \in Clients, ReadHeader(c)
  PROVE  Atomic!Answer(c) \/ Atomic!Fail(c) \/ UNCHANGED avars
<1>0. /\ pc[c] \in Exchanging /\ ran[c] /\ Unread(c)
      /\ UNCHANGED <<id, ran, executed>>
  BY DEF ReadHeader, Exchanging, IInv, RanWhen, KeptIsOwn
<1>1. CASE Goto(c, "rest") /\ UNCHANGED answer
  BY <1>0, <1>1, GoesOn DEF avars
<1>2. CASE Kept /\ answer' = [answer EXCEPT ![c] = kept.of] /\ Return(c, "ok")
  <2>1. answer' = [answer EXCEPT ![c] = id[c]]
    BY <1>0, <1>2 DEF Unread, Kept
  <2>2. QED  BY <1>0, <1>2, <2>1, Returns DEF Atomic!Answer, Status
<1>3. CASE Return(c, "err") /\ UNCHANGED answer
  BY <1>0, <1>3, Returns DEF Atomic!Fail, Status
<1>4. QED  BY <1>1, <1>2, <1>3 DEF ReadHeader

LEMMA ReadRestRefines ==
  ASSUME IInv, NEW c \in Clients, ReadRest(c)
  PROVE  Atomic!Answer(c) \/ Atomic!Fail(c)
<1>0. /\ pc[c] \in Exchanging /\ ran[c] /\ Unread(c) /\ part[c].of = id[c]
      /\ UNCHANGED <<id, ran, executed>>
  BY DEF ReadRest, Exchanging, IInv, RanWhen, KeptIsOwn
<1>1. CASE /\ Kept /\ Return(c, "ok")
           /\ answer' = [answer EXCEPT ![c] = IF part[c].of = kept.of THEN kept.of ELSE 0]
  <2>1. answer' = [answer EXCEPT ![c] = id[c]]
    BY <1>0, <1>1 DEF Unread, Kept
  <2>2. QED  BY <1>0, <1>1, <2>1, Returns DEF Atomic!Answer, Status
<1>2. CASE Return(c, "err") /\ UNCHANGED answer
  BY <1>0, <1>2, Returns DEF Atomic!Fail, Status
<1>3. QED  BY <1>1, <1>2 DEF ReadRest

LEMMA SubmitRefines ==
  ASSUME IInv, NEW c \in Clients, Submit(c)
  PROVE  Atomic!ExecuteAndAnswer(c) \/ Atomic!Execute(c) \/ Atomic!Fail(c)
<1>0. pc[c] \in Exchanging /\ ~ran[c] /\ UNCHANGED id
  BY DEF Submit, Exchanging, IInv, RanWhen
<1>1. CASE Executes(c) /\ answer' = [answer EXCEPT ![c] = id[c]] /\ Return(c, "ok")
  BY <1>0, <1>1, Returns DEF Executes, Atomic!ExecuteAndAnswer, Status
<1>2. CASE Executes(c) /\ Return(c, "err") /\ UNCHANGED answer
  BY <1>0, <1>2, Returns DEF Executes, Atomic!Execute, Status
<1>3. CASE Return(c, "err") /\ UNCHANGED <<ran, executed, answer>>
  BY <1>0, <1>3, Returns DEF Atomic!Fail, Status
<1>4. QED  BY <1>1, <1>2, <1>3 DEF Submit

LEMMA NextRefines == IInv /\ [Next]_vars => [Atomic!Next]_avars
<1>1. SUFFICES ASSUME IInv, [Next]_vars PROVE [Atomic!Next]_avars
  OBVIOUS
<1>2. ASSUME NEW c \in Clients, Transmit(c) PROVE Atomic!Next
  BY <1>1, <1>2, TransmitRefines DEF Atomic!Next
<1>3. ASSUME NEW c \in Clients, Step(c) PROVE Atomic!Next \/ UNCHANGED avars
  BY <1>1, <1>3, LockRefines, WriteRefines, ReadHeaderRefines, ReadRestRefines, SubmitRefines
  DEF Step, Atomic!Next
<1>4. CASE Drop \/ UNCHANGED vars
  BY <1>4 DEF Drop, vars, avars, Status
<1>5. QED  BY <1>1, <1>2, <1>3, <1>4 DEF Next

(***************************************************************************)
(* The exchange of Tpm::transmit implements the atomic command the other   *)
(* modules take it for: executed at most once, within the call, and an Ok  *)
(* answer is its own.                                                      *)
(***************************************************************************)
THEOREM Implements == Spec => ImplementsTpmCommand
<1>1. Init => Atomic!Init
  BY DEF Init, Atomic!Init, Working
<1>2. QED
  BY <1>1, NextRefines, Invariance, PTL
  DEF Spec, ImplementsTpmCommand, Atomic!Spec, Atomic!tvars, avars, Status
=============================================================================
