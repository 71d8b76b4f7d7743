------------------------------ MODULE CvmReport ------------------------------
(***************************************************************************)
(* get_cvm_report_raw and the NV commands under it: a caller's user data   *)
(* is staged into the user-data NV index, then the CVM report index is     *)
(* read chunk by chunk.  Every TPM command is one step: Tpm::transmit      *)
(* holds the device for one command and nothing holds it between two, so   *)
(* the commands of several clients interleave freely.                      *)
(*                                                                         *)
(* External: the platform derives the report from the user-data index (a   *)
(* read of the report's first chunk returns a report of the current value; *)
(* later chunks may or may not be regenerated).                            *)
(***************************************************************************)
EXTENDS Naturals, Sequences

CONSTANTS
  Clients,   \* threads or processes, each with a TPM connection of its own
  Data,      \* the padded 64-byte values
  NoData,    \* the caller passed None
  Oversized, \* the caller passed more than 64 bytes
  Chunks,    \* NV_Read commands that one report takes (1024 bytes each)
  MaxCalls   \* bound on the number of calls of a behaviour

ASSUME CvmAssumption ==
  /\ Chunks \in Nat \ {0}
  /\ MaxCalls \in Nat
  /\ NoData \notin Data /\ Oversized \notin Data /\ NoData # Oversized

VARIABLES
  index,     \* the user-data NV index: "absent", "short" (under 64 bytes) or "full"
  log,       \* every value NV_Write put there, in order: [by, data]
  image,     \* the position of the log the platform's report was derived from
  pc,        \* the command each client sends next
  req,       \* the user data of each client's call
  base,      \* log position of the call's own write; before it, at its start
  got,       \* what each chunk read so far was derived from
  calls      \* calls started (bounded by MaxCalls)

vars == <<index, log, image, pc, req, base, got, calls>>

Working == {"find", "define", "wpub", "write", "rpub", "read"}
Done == {"idle", "ok", "err"}
Inputs == Data \cup {NoData, Oversized}

Goto(c, l) == pc' = [pc EXCEPT ![c] = l]

Init ==
  /\ index \in {"absent", "short", "full"}
  /\ log = <<>> /\ image = 0
  /\ pc = [c \in Clients |-> "idle"]
  /\ req = [c \in Clients |-> NoData]
  /\ base = [c \in Clients |-> 0]
  /\ got = [c \in Clients |-> <<>>]
  /\ calls = 0

(***************************************************************************)
(* get_cvm_report_raw: the length check comes before any command.          *)
(***************************************************************************)
Begin(c, d) ==
  /\ pc[c] \in Done /\ calls < MaxCalls
  /\ calls' = calls + 1
  /\ req' = [req EXCEPT ![c] = d]
  /\ base' = [base EXCEPT ![c] = Len(log)]
  /\ got' = [got EXCEPT ![c] = <<>>]
  /\ Goto(c, IF d = Oversized THEN "err" ELSE IF d = NoData THEN "rpub" ELSE "find")
  /\ UNCHANGED <<index, log, image>>

(***************************************************************************)
(* find_nv_index.  Absence and any failed command both lead to the define. *)
(***************************************************************************)
Find(c) ==
  /\ pc[c] = "find"
  /\ \/ index # "absent" /\ Goto(c, "wpub")
     \/ Goto(c, "define")
  /\ UNCHANGED <<index, log, image, req, base, got, calls>>

(***************************************************************************)
(* define_user_data_index.  NV_DefineSpace fails on a defined index; a     *)
(* lost response fails the call although the index now exists.             *)
(***************************************************************************)
Define(c) ==
  /\ pc[c] = "define"
  /\ \/ index = "absent" /\ index' = "full" /\ Goto(c, "wpub")
     \/ index = "absent" /\ index' = "full" /\ Goto(c, "err")
     \/ UNCHANGED index /\ Goto(c, "err")
  /\ UNCHANGED <<log, image, req, base, got, calls>>

\* write_nv_index reads the public area first: an index shorter than the 64
\* bytes, an undefined one and a failed command are errors.
WritePublic(c) ==
  /\ pc[c] = "wpub"
  /\ \/ index = "full" /\ Goto(c, "write")
     \/ Goto(c, "err")
  /\ UNCHANGED <<index, log, image, req, base, got, calls>>

\* Faulty variant: a failed write is logged and the report read all the same.
Write_FailureIgnored(c) ==
  LET written == Append(log, [by |-> c, data |-> req[c]])
  IN /\ pc[c] = "write"
     /\ \/ log' = written /\ base' = [base EXCEPT ![c] = Len(written)]
        \/ UNCHANGED <<log, base>>
     /\ Goto(c, "rpub")
     /\ UNCHANGED <<index, image, req, got, calls>>

\* nv_write_chunk: 64 bytes are one NV_Write.
Write(c) ==
  LET written == Append(log, [by |-> c, data |-> req[c]])
  IN /\ pc[c] = "write"
     /\ \/ /\ log' = written
           /\ base' = [base EXCEPT ![c] = Len(written)]
           /\ Goto(c, "rpub")
        \/ log' = written /\ Goto(c, "err") /\ UNCHANGED base   \* response lost
        \/ Goto(c, "err") /\ UNCHANGED <<log, base>>
     /\ UNCHANGED <<index, image, req, got, calls>>

\* read_nv_index reads the public area of the report index: absent on a
\* TrustedLaunch VM, an error like any failed command.
ReadPublic(c) ==
  /\ pc[c] = "rpub"
  /\ \/ Goto(c, "read")
     \/ Goto(c, "err")
  /\ UNCHANGED <<index, log, image, req, base, got, calls>>

\* External: what the platform answers to the read of the next chunk.
Derived(c) == IF got[c] = <<>> THEN {Len(log)} ELSE {image, Len(log)}

\* Faulty variant: a failed chunk ends the loop with what has been read.
ReadChunk_PartialOnError(c) ==
  /\ pc[c] = "read"
  /\ \/ \E v \in Derived(c) :
          /\ image' = v
          /\ got' = [got EXCEPT ![c] = Append(@, v)]
          /\ Goto(c, IF Len(got[c]) + 1 = Chunks THEN "ok" ELSE "read")
     \/ Goto(c, "ok") /\ UNCHANGED <<image, got>>
  /\ UNCHANGED <<index, log, req, base, calls>>

\* nv_read_chunk: the loop of read_nv_index ends when every chunk is in.
ReadChunk(c) ==
  /\ pc[c] = "read"
  /\ \/ \E v \in Derived(c) :
          /\ image' = v
          /\ got' = [got EXCEPT ![c] = Append(@, v)]
          /\ Goto(c, IF Len(got[c]) + 1 = Chunks THEN "ok" ELSE "read")
     \/ Goto(c, "err") /\ UNCHANGED <<image, got>>
  /\ UNCHANGED <<index, log, req, base, calls>>

Step(c) ==
  Find(c) \/ Define(c) \/ WritePublic(c) \/ Write(c) \/ ReadPublic(c) \/ ReadChunk(c)

\* The program ends when its last call has: a stutter, not a deadlock.
Finished == calls = MaxCalls /\ \A c \in Clients : pc[c] \in Done

Next ==
  \/ \E c \in Clients : Step(c) \/ \E d \in Inputs : Begin(c, d)
  \/ Finished /\ UNCHANGED vars

Spec == Init /\ [][Next]_vars

-----------------------------------------------------------------------------

TypeOK ==
  /\ index \in {"absent", "short", "full"}
  /\ log \in Seq([by : Clients, data : Data])
  /\ image \in Nat
  /\ pc \in [Clients -> Working \cup Done]
  /\ req \in [Clients -> Inputs]
  /\ base \in [Clients -> Nat]
  /\ got \in [Clients -> Seq(Nat)]
  /\ calls \in Nat

Answered(c) == pc[c] = "ok" /\ req[c] \in Data

(***************************************************************************)
(* A call that asked for user data and returned Ok did stage it, and no    *)
(* chunk of its report was derived from an older value: a failed staging   *)
(* is fatal (attestation.rs get_cvm_report_raw, "claims carry stale (or    *)
(* no) user data").                                                        *)
(***************************************************************************)
NoStaleUserData ==
  \A c \in Clients : Answered(c) =>
    /\ base[c] \in 1 .. Len(log)
    /\ log[base[c]] = [by |-> c, data |-> req[c]]
    /\ \A k \in 1 .. Len(got[c]) : got[c][k] \in base[c] .. Len(log)

(***************************************************************************)
(* The claim of AttestOptions::user_data (client.rs): the report returned  *)
(* carries the caller's own value.  A caller that overlaps another may     *)
(* get the other's.                                                        *)
(***************************************************************************)
CarriesOwnUserData ==
  \A c \in Clients : Answered(c) =>
    \A k \in 1 .. Len(got[c]) : got[c][k] > 0 /\ log[got[c][k]].data = req[c]

(***************************************************************************)
(* The commands implement the regular register StagedReport describes.     *)
(***************************************************************************)
StatusOf(c) == IF pc[c] \in Working THEN "open" ELSE pc[c]
Carried(c) == IF pc[c] = "ok" THEN {got[c][k] : k \in 1 .. Len(got[c])} ELSE {}

Abstract == INSTANCE StagedReport
              WITH data <- req,
                   st   <- [c \in Clients |-> StatusOf(c)],
                   seen <- [c \in Clients |-> Carried(c)]

ImplementsStagedReport == Abstract!Spec
=============================================================================
