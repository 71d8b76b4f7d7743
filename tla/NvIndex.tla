-------------------------------- MODULE NvIndex --------------------------------
(***************************************************************************)
(* One NV index under read_nv_index, write_nv_index, nv_define_space,      *)
(* nv_undefine_space and get_ak_cert, called by several clients of one     *)
(* TPM.  A transfer reads the index's public area once, then moves the     *)
(* data in chunks with a u16 offset; between two commands anyone may       *)
(* write, undefine or redefine the index.                                  *)
(*                                                                         *)
(* External, from how the code uses the TPM: a chunk is moved whole or not *)
(* at all; an index reads only once it was written; what was not written   *)
(* of it holds a fill value; an undefined index is answered with a TPM     *)
(* response code, which parse_tpm_rc_with_cmd wraps as ErrorKind::Other.   *)
(***************************************************************************)
EXTENDS Naturals, Sequences

CONSTANTS
  Clients,
  Sizes,     \* the sizes an index may be defined with
  Chunk,     \* bytes moved by one command (1024)
  U16,       \* the largest offset (65535)
  MaxCalls   \* bound on the calls of a behaviour

ASSUME NvAssumption ==
  /\ Sizes \subseteq 0 .. U16
  /\ Chunk \in Nat \ {0} /\ U16 \in Nat /\ MaxCalls \in Nat

VARIABLES
  defined,  \* the index exists
  size,     \* its size
  content,  \* per position, [by: the call that wrote it, at: the byte of its data]
  written,  \* it has been written since it was defined
  pc, op,   \* each client's next command and operation
  total,    \* bytes to move
  offset,   \* the next byte to move
  data,     \* what a read has collected
  kind,     \* how the call failed: "rc" (a response code) or "other"
  id,       \* the number of each client's call, which names its data
  calls,    \* calls started
  faults    \* any command of this behaviour may fail (never changes)

space == <<defined, size, content, written>>
local == <<pc, op, total, offset, data, kind, id>>
bound == <<calls, faults>>
vars == <<space, local, bound>>

Fill == [by |-> 0, at |-> 0]
Blank(n) == [k \in 1 .. n |-> Fill]
Done == {"idle", "ok", "err"}
Working == {"cert", "public", "read", "write", "define", "undefine"}
Least(a, b) == IF a <= b THEN a ELSE b

Goto(c, l) == pc' = [pc EXCEPT ![c] = l]
Fail(c, k) == Goto(c, "err") /\ kind' = [kind EXCEPT ![c] = k]

Init ==
  /\ defined \in BOOLEAN /\ size \in Sizes
  /\ content = Blank(size) /\ written = FALSE
  /\ pc = [c \in Clients |-> "idle"]
  /\ op = [c \in Clients |-> "read"]
  /\ total = [c \in Clients |-> 0]
  /\ offset = [c \in Clients |-> 0]
  /\ data = [c \in Clients |-> <<>>]
  /\ kind = [c \in Clients |-> "none"]
  /\ id = [c \in Clients |-> 0]
  /\ calls = 0 /\ faults \in BOOLEAN

\* A call; n is the length of the data to write or the size to define.
Call(c, o, n) ==
  /\ pc[c] \in Done /\ calls < MaxCalls
  /\ calls' = calls + 1 /\ id' = [id EXCEPT ![c] = calls + 1]
  /\ op' = [op EXCEPT ![c] = o]
  /\ total' = [total EXCEPT ![c] = n]
  /\ offset' = [offset EXCEPT ![c] = 0]
  /\ data' = [data EXCEPT ![c] = <<>>]
  /\ kind' = [kind EXCEPT ![c] = "none"]
  /\ Goto(c, IF o = "cert" THEN "cert" ELSE IF o \in {"define", "undefine"} THEN o ELSE "public")
  /\ UNCHANGED <<space, faults>>

(***************************************************************************)
(* get_ak_cert: the public area once, for the empty cases; a call of       *)
(* read_nv_index otherwise.  Absence is recognized by ErrorKind::NotFound, *)
(* which no response code is given.                                        *)
(***************************************************************************)
CertPublic(c) ==
  /\ pc[c] = "cert"
  /\ \/ defined /\ Goto(c, IF size = 0 THEN "ok" ELSE "public") /\ UNCHANGED kind
     \/ ~defined /\ Fail(c, "rc")
     \/ faults /\ Fail(c, "other")
  /\ UNCHANGED <<space, op, total, offset, data, id, bound>>

(***************************************************************************)
(* nv_read_public at the head of read_nv_index and write_nv_index: the     *)
(* bytes to read, or the check that the data fits.                         *)
(***************************************************************************)
Public(c) ==
  /\ pc[c] = "public"
  /\ \/ /\ defined
        /\ IF op[c] = "write"
           THEN /\ UNCHANGED total
                /\ IF total[c] > size THEN Fail(c, "other")
                   ELSE Goto(c, IF total[c] = 0 THEN "ok" ELSE "write") /\ UNCHANGED kind
           ELSE /\ total' = [total EXCEPT ![c] = size]
                /\ Goto(c, IF size = 0 THEN "ok" ELSE "read") /\ UNCHANGED kind
     \/ ~defined /\ Fail(c, "rc") /\ UNCHANGED total
     \/ faults /\ Fail(c, "other") /\ UNCHANGED total
  /\ UNCHANGED <<space, op, offset, data, id, bound>>

Length(c) == Least(total[c] - offset[c], Chunk)

\* offset.checked_add(chunk), and the test at the head of the loop.
Advance(c, l) ==
  IF offset[c] + Length(c) > U16
  THEN Fail(c, "other") /\ UNCHANGED offset
  ELSE /\ offset' = [offset EXCEPT ![c] = @ + Length(c)] /\ UNCHANGED kind
       /\ Goto(c, IF offset[c] + Length(c) >= total[c] THEN "ok" ELSE l)

\* Faulty variants of ReadChunk: every chunk from the start of the index; a
\* failed chunk ends the read with what there is.
ReadChunk_NoOffset(c) ==
  /\ pc[c] = "read"
  /\ \/ /\ defined /\ written /\ offset[c] + Length(c) <= size
        /\ data' = [data EXCEPT ![c] = @ \o SubSeq(content, 1, Length(c))]
        /\ Advance(c, "read")
     \/ ~defined /\ Fail(c, "rc") /\ UNCHANGED <<offset, data>>
  /\ UNCHANGED <<space, op, total, id, bound>>

ReadChunk_PartialOnError(c) ==
  /\ pc[c] = "read"
  /\ \/ /\ defined /\ written /\ offset[c] + Length(c) <= size
        /\ data' = [data EXCEPT ![c] = @ \o SubSeq(content, offset[c] + 1, offset[c] + Length(c))]
        /\ Advance(c, "read")
     \/ /\ ~(defined /\ written /\ offset[c] + Length(c) <= size) \/ faults
        /\ Goto(c, "ok") /\ UNCHANGED <<offset, data, kind>>
  /\ UNCHANGED <<space, op, total, id, bound>>

\* nv_read_chunk and the loop around it.
ReadChunk(c) ==
  /\ pc[c] = "read"
  /\ \/ /\ defined /\ written /\ offset[c] + Length(c) <= size
        /\ data' = [data EXCEPT ![c] = @ \o SubSeq(content, offset[c] + 1, offset[c] + Length(c))]
        /\ Advance(c, "read")
     \/ /\ ~(defined /\ written /\ offset[c] + Length(c) <= size)
        /\ Fail(c, "rc") /\ UNCHANGED <<offset, data>>
     \/ faults /\ Fail(c, "other") /\ UNCHANGED <<offset, data>>
  /\ UNCHANGED <<space, op, total, id, bound>>

\* What the index holds once the call's next chunk is written.
Overwritten(c) ==
  [k \in 1 .. size |->
     IF k > offset[c] /\ k <= offset[c] + Length(c) THEN [by |-> id[c], at |-> k] ELSE content[k]]

\* Faulty variants of WriteChunk: the last, partial chunk is left out; a
\* refused chunk is sent again.
WriteChunk_WholeOnly(c) ==
  /\ pc[c] = "write"
  /\ \/ /\ defined /\ offset[c] + Length(c) <= size
        /\ content' = (IF Length(c) = Chunk THEN Overwritten(c) ELSE content)
        /\ written' = TRUE
        /\ Advance(c, "write")
     \/ /\ ~(defined /\ offset[c] + Length(c) <= size)
        /\ Fail(c, "rc") /\ UNCHANGED <<content, written, offset>>
  /\ UNCHANGED <<defined, size, op, total, data, id, bound>>

WriteChunk_Resends(c) ==
  /\ pc[c] = "write"
  /\ \/ /\ defined /\ offset[c] + Length(c) <= size
        /\ content' = Overwritten(c) /\ written' = TRUE
        /\ Advance(c, "write")
     \/ UNCHANGED <<content, written, offset, pc, kind>>
  /\ UNCHANGED <<defined, size, op, total, data, id, bound>>

\* nv_write_chunk and the loop around it; a fault may lose the response only.
WriteChunk(c) ==
  /\ pc[c] = "write"
  /\ \/ /\ defined /\ offset[c] + Length(c) <= size
        /\ content' = Overwritten(c) /\ written' = TRUE
        /\ \/ Advance(c, "write")
           \/ faults /\ Fail(c, "other") /\ UNCHANGED offset
     \/ /\ ~(defined /\ offset[c] + Length(c) <= size)
        /\ Fail(c, "rc") /\ UNCHANGED <<content, written, offset>>
     \/ faults /\ Fail(c, "other") /\ UNCHANGED <<content, written, offset>>
  /\ UNCHANGED <<defined, size, op, total, data, id, bound>>

\* nv_define_space: refused when the index exists; a fault may lose the response only.
Define(c) ==
  /\ pc[c] = "define"
  /\ \/ /\ ~defined
        /\ defined' = TRUE /\ size' = total[c]
        /\ content' = Blank(total[c]) /\ written' = FALSE
        /\ \/ Goto(c, "ok") /\ UNCHANGED kind
           \/ faults /\ Fail(c, "other")
     \/ defined /\ Fail(c, "rc") /\ UNCHANGED space
     \/ faults /\ Fail(c, "other") /\ UNCHANGED space
  /\ UNCHANGED <<op, total, offset, data, id, bound>>

\* nv_undefine_space.
Undefine(c) ==
  /\ pc[c] = "undefine"
  /\ \/ /\ defined /\ defined' = FALSE
        /\ \/ Goto(c, "ok") /\ UNCHANGED kind
           \/ faults /\ Fail(c, "other")
     \/ ~defined /\ Fail(c, "rc") /\ UNCHANGED defined
     \/ faults /\ Fail(c, "other") /\ UNCHANGED defined
  /\ UNCHANGED <<size, content, written, op, total, offset, data, id, bound>>

Step(c) ==
  \/ CertPublic(c) \/ Public(c) \/ ReadChunk(c) \/ WriteChunk(c)
  \/ Define(c) \/ Undefine(c)

\* The program ends when its last call has: a stutter, not a deadlock.
Finished == calls = MaxCalls /\ \A c \in Clients : pc[c] \in Done

Start(c) ==
  \/ \E o \in {"read", "cert", "undefine"} : Call(c, o, 0)
  \/ \E o \in {"write", "define"}, n \in Sizes : Call(c, o, n)

Next ==
  \/ \E c \in Clients : Step(c) \/ Start(c)
  \/ Finished /\ UNCHANGED vars

Spec == Init /\ [][Next]_vars

\* A client's thread runs until its call returns; no fault is promised away.
FairSpec == Spec /\ \A c \in Clients : WF_vars(Step(c))

-----------------------------------------------------------------------------

TypeOK ==
  /\ size \in Sizes /\ DOMAIN content = 1 .. size
  /\ pc \in [Clients -> Working \cup Done]
  /\ \A c \in Clients :
       total[c] \in 0 .. U16 /\ offset[c] \in 0 .. total[c] /\ Len(data[c]) <= total[c]
  /\ kind \in [Clients -> {"none", "rc", "other"}]

\* No fault, and one client only: its calls are not disturbed.
Alone == ~faults /\ \E c \in Clients : \A o \in Clients \ {c} : pc[o] = "idle"

Reads(c) == op[c] \in {"read", "cert"}

(***************************************************************************)
(* A read that returned Ok returned as many bytes as the index had when    *)
(* the read began, each from its own position, even when the index was     *)
(* rewritten, undefined or redefined between two chunks.  (Of WHICH write  *)
(* each byte is may differ from chunk to chunk.)                           *)
(***************************************************************************)
ReadsWholeIndex ==
  \A c \in Clients : pc[c] = "ok" /\ Reads(c) =>
    /\ Len(data[c]) = total[c]
    /\ \A k \in 1 .. Len(data[c]) : data[c][k] = Fill \/ data[c][k].at = k

(***************************************************************************)
(* A write that returned Ok is in the index, whole, and a read returns     *)
(* what is there, when nobody else uses the index and nothing fails.  Then *)
(* the only error of a transfer is that of data larger than the index: the *)
(* u16 offset overflows for no size up to 65535.                           *)
(***************************************************************************)
TransferLands ==
  Alone => \A c \in Clients :
    /\ pc[c] = "ok" /\ op[c] = "write" =>
         \A k \in 1 .. total[c] : content[k] = [by |-> id[c], at |-> k]
    /\ pc[c] = "ok" /\ Reads(c) => data[c] = content
    /\ kind[c] = "other" => op[c] = "write" /\ total[c] > size

(* Every call returns: no index size or content makes a loop spin. *)
EveryCallReturns == \A c \in Clients : pc[c] \in Working ~> pc[c] \in Done
=============================================================================
