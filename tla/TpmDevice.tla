------------------------------ MODULE TpmDevice ------------------------------
(***************************************************************************)
(* Tpm::transmit: threads that share one Tpm value exchange commands and   *)
(* responses with the device under its Mutex.  On Linux one exchange is a  *)
(* write of the command, a read of the ten-byte header and a read of the   *)
(* rest, any of which may fail and leave the response, or half of it, with *)
(* the driver; on Windows it is one call of TBS.                           *)
(*                                                                         *)
(* External, the driver as the code uses it: a write executes a command    *)
(* and keeps its response; it is refused while a response is kept that     *)
(* nobody began to read, and replaces one that was read in part.  A kept   *)
(* response may be dropped by the driver's timer.                          *)
(***************************************************************************)
EXTENDS Naturals, Sequences

CONSTANTS
  Clients,   \* the threads that share the device
  Nobody,    \* no thread
  MaxCalls   \* bound on the calls of a behaviour

ASSUME DeviceAssumption == Nobody \notin Clients /\ MaxCalls \in Nat

VARIABLES
  os,        \* "unix" or "windows" (never changes)
  owner,     \* the thread that holds the Mutex
  kept,      \* the response the driver keeps
  pc,        \* each client's next step
  id,        \* its command, numbered by the call
  ran,       \* the command was executed (history)
  part,      \* the header read: whose it is, and the length it declares
  answer,    \* the command whose response the call returned
  executed,  \* the commands executed, in order (history)
  calls      \* calls started

vars == <<os, owner, kept, pc, id, ran, part, answer, executed, calls>>

\* Lengths a response header may declare: under ten bytes, ten, more, more
\* than MAX_TPM_RESPONSE_SIZE (or, for TBS, than the buffer).
Lengths == {"short", "bare", "long", "huge"}
NoResponse == [of |-> 0, length |-> "bare", begun |-> TRUE]
Kept == kept # NoResponse

Working == {"lock", "send", "header", "rest"}
Done == {"idle", "ok", "err"}

Goto(c, l) == pc' = [pc EXCEPT ![c] = l]

Init ==
  /\ os \in {"unix", "windows"}
  /\ owner = Nobody /\ kept = NoResponse
  /\ pc = [c \in Clients |-> "idle"]
  /\ id = [c \in Clients |-> 0]
  /\ ran = [c \in Clients |-> FALSE]
  /\ part = [c \in Clients |-> NoResponse]
  /\ answer = [c \in Clients |-> 0]
  /\ executed = <<>> /\ calls = 0

(***************************************************************************)
(* Tpm::transmit: a buffer shorter than a header, longer than the maximum  *)
(* or with another declared length is refused before the lock.             *)
(***************************************************************************)
Transmit(c) ==
  /\ pc[c] \in Done /\ calls < MaxCalls
  /\ calls' = calls + 1
  /\ id' = [id EXCEPT ![c] = calls + 1]
  /\ ran' = [ran EXCEPT ![c] = FALSE]
  /\ answer' = [answer EXCEPT ![c] = 0]
  /\ \E l \in {"lock", "err"} : Goto(c, l)
  /\ UNCHANGED <<os, owner, kept, part, executed>>

\* Faulty variant: the Mutex is not taken.
Lock_NotTaken(c) ==
  /\ pc[c] = "lock"
  /\ Goto(c, "send")
  /\ UNCHANGED <<os, owner, kept, id, ran, part, answer, executed, calls>>

Lock(c) ==
  /\ pc[c] = "lock" /\ owner = Nobody
  /\ owner' = c
  /\ Goto(c, "send")
  /\ UNCHANGED <<os, kept, id, ran, part, answer, executed, calls>>

\* Faulty variant: an early return that keeps the Mutex.
Return_KeepsLock(c, l) == Goto(c, l) /\ owner' = IF l = "ok" THEN Nobody ELSE owner

\* The return of transmit drops the guard of the Mutex.
Return(c, l) == Goto(c, l) /\ owner' = Nobody

Executes(c) ==
  /\ ran' = [ran EXCEPT ![c] = TRUE]
  /\ executed' = Append(executed, id[c])

\* Faulty variant: a refused write goes on to read what there is.
Write_BusyIgnored(c) ==
  /\ os = "unix" /\ pc[c] = "send"
  /\ \/ /\ kept.begun
        /\ Executes(c)
        /\ \E n \in Lengths : kept' = [of |-> id[c], length |-> n, begun |-> FALSE]
        /\ Goto(c, "header") /\ UNCHANGED owner
     \/ ~kept.begun /\ Goto(c, "header") /\ UNCHANGED <<owner, kept, ran, executed>>
  /\ UNCHANGED <<os, id, part, answer, calls>>

\* f.write_all: the driver executes the command, or refuses it; a failing
\* write may have reached the TPM.
Write(c) ==
  /\ os = "unix" /\ pc[c] = "send"
  /\ \/ /\ kept.begun
        /\ Executes(c)
        /\ \/ /\ \E n \in Lengths : kept' = [of |-> id[c], length |-> n, begun |-> FALSE]
              /\ Goto(c, "header") /\ UNCHANGED owner
           \/ kept' = NoResponse /\ Return(c, "err")
     \/ Return(c, "err") /\ UNCHANGED <<kept, ran, executed>>
  /\ UNCHANGED <<os, id, part, answer, calls>>

\* read_exact of the header; the declared length must be sensible.
ReadHeader(c) ==
  /\ os = "unix" /\ pc[c] = "header"
  /\ \/ /\ Kept
        /\ part' = [part EXCEPT ![c] = kept]
        /\ kept' = IF kept.length = "bare" THEN NoResponse ELSE [kept EXCEPT !.begun = TRUE]
        /\ \/ kept.length = "long" /\ Goto(c, "rest") /\ UNCHANGED <<owner, answer>>
           \/ /\ kept.length = "bare"
              /\ answer' = [answer EXCEPT ![c] = kept.of]
              /\ Return(c, "ok")
           \/ kept.length \in {"short", "huge"} /\ Return(c, "err") /\ UNCHANGED answer
     \/ Return(c, "err") /\ UNCHANGED <<kept, part, answer>>
  /\ UNCHANGED <<os, id, ran, executed, calls>>

\* read_exact of the rest: what is left of the response the driver keeps.
ReadRest(c) ==
  /\ os = "unix" /\ pc[c] = "rest"
  /\ \/ /\ Kept
        /\ answer' = [answer EXCEPT ![c] = IF part[c].of = kept.of THEN kept.of ELSE 0]
        /\ kept' = NoResponse
        /\ Return(c, "ok")
     \/ Return(c, "err") /\ UNCHANGED <<kept, answer>>
  /\ UNCHANGED <<os, id, ran, part, executed, calls>>

\* Tbsip_Submit_Command: the response must fill what it declares.
Submit(c) ==
  /\ os = "windows" /\ pc[c] = "send"
  /\ \/ /\ Executes(c)
        /\ \/ answer' = [answer EXCEPT ![c] = id[c]] /\ Return(c, "ok")
           \/ Return(c, "err") /\ UNCHANGED answer   \* short, too long, mismatch, lost
     \/ Return(c, "err") /\ UNCHANGED <<ran, executed, answer>>
  /\ UNCHANGED <<os, kept, id, part, calls>>

\* External: the driver's timer drops a response nobody collected.
Drop ==
  /\ os = "unix" /\ Kept
  /\ kept' = NoResponse
  /\ UNCHANGED <<os, owner, pc, id, ran, part, answer, executed, calls>>

Step(c) == Lock(c) \/ Write(c) \/ ReadHeader(c) \/ ReadRest(c) \/ Submit(c)

\* The program ends when its last call has: a stutter, not a deadlock.
Finished == calls = MaxCalls /\ \A c \in Clients : pc[c] \in Done

Next ==
  \/ \E c \in Clients : Transmit(c) \/ Step(c)
  \/ Drop
  \/ Finished /\ UNCHANGED vars

Spec == Init /\ [][Next]_vars

\* A thread runs; the driver's calls return (they have timeouts of their own).
FairSpec == Spec /\ \A c \in Clients : WF_vars(Step(c))

-----------------------------------------------------------------------------

Responses == [of : Nat, length : Lengths, begun : BOOLEAN]

TypeOK ==
  /\ os \in {"unix", "windows"}
  /\ owner \in {c \in Clients : pc[c] \in {"send", "header", "rest"}} \cup {Nobody}
  /\ kept \in Responses /\ part \in [Clients -> Responses]
  /\ pc \in [Clients -> Working \cup Done]
  /\ id \in [Clients -> Nat] /\ answer \in [Clients -> Nat]
  /\ ran \in [Clients -> BOOLEAN]
  /\ executed \in Seq(Nat) /\ calls \in Nat

(***************************************************************************)
(* An Ok answer is the whole response to the caller's own command, whoever *)
(* else used the device and whatever was left unread by calls that failed  *)
(* half way (device.rs: "All transmit calls are serialized").              *)
(***************************************************************************)
AnswersOwnCommand == \A c \in Clients : pc[c] = "ok" => ran[c] /\ answer[c] = id[c]

(***************************************************************************)
(* The exchange implements the atomic command of TpmCommand.               *)
(***************************************************************************)
Atomic == INSTANCE TpmCommand
            WITH st <- [c \in Clients |-> IF pc[c] \in Working THEN "open" ELSE pc[c]]

ImplementsTpmCommand == Atomic!Spec

(***************************************************************************)
(* Every call returns: a failed exchange releases the Mutex, and an unread *)
(* response makes a later call fail, not wait.                             *)
(***************************************************************************)
EveryCallReturns == \A c \in Clients : pc[c] \in Working ~> pc[c] \in Done
=============================================================================
