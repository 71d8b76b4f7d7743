---------------------------- MODULE NvIndex_proofs ----------------------------
(***************************************************************************)
(* An Ok read of an NV index returns as many bytes as the index had when   *)
(* the read began, each from its place, for any number of clients, sizes   *)
(* and chunk size, whoever writes, undefines or redefines the index        *)
(* between two chunks.                                                     *)
(***************************************************************************)
EXTENDS NvIndex, SequenceTheorems, TLAPS

Bytes == [by : Nat, at : Nat]
Ops == {"read", "cert", "undefine", "write", "define"}

\* The bytes of a sequence are at their places.
Placed(s) == \A k \in 1 .. Len(s) : s[k] = Fill \/ s[k].at = k

SpaceOK ==
  /\ size \in Sizes
  /\ content \in Seq(Bytes) /\ Len(content) = size
  /\ Placed(content)

LocalOK ==
  /\ pc \in [Clients -> Working \cup Done] /\ op \in [Clients -> Ops]
  /\ total \in [Clients -> 0 .. U16] /\ offset \in [Clients -> Nat]
  /\ data \in [Clients -> Seq(Bytes)]
  /\ kind \in [Clients -> {"none", "rc", "other"}]
  /\ id \in [Clients -> Nat] /\ calls \in Nat

\* What a call has moved, by the command it sends next.
Moved(c) ==
  /\ offset[c] <= total[c] /\ Len(data[c]) <= total[c] /\ Placed(data[c])
  /\ pc[c] = "cert" => op[c] = "cert" /\ total[c] = 0
  /\ pc[c] \in {"cert", "public"} => offset[c] = 0 /\ data[c] = <<>>
  /\ pc[c] = "public" => op[c] \in {"read", "cert", "write"}
  /\ pc[c] = "read" => Reads(c) /\ Len(data[c]) = offset[c]
  /\ pc[c] \in {"write", "define", "undefine"} => ~Reads(c)
  /\ pc[c] = "define" => total[c] \in Sizes
  /\ pc[c] = "ok" /\ Reads(c) => Len(data[c]) = total[c]

IInv == SpaceOK /\ LocalOK /\ \A c \in Clients : Moved(c)

-----------------------------------------------------------------------------

LEMMA BlankIsPlaced ==
  ASSUME NEW n \in Nat
  PROVE  Blank(n) \in Seq(Bytes) /\ Len(Blank(n)) = n /\ Placed(Blank(n))
<1>1. Fill \in Bytes
  BY DEF Fill, Bytes
<1>2. Blank(n) \in [1 .. n -> Bytes]
  BY <1>1 DEF Blank
<1>3. Blank(n) \in Seq(Bytes) /\ Len(Blank(n)) = n
  BY <1>2
<1>4. \A k \in 1 .. n : Blank(n)[k] = Fill
  BY DEF Blank
<1>5. QED  BY <1>3, <1>4 DEF Placed

LEMMA SizesAreNat == \A n \in Sizes : n \in Nat /\ n \in 0 .. U16
BY NvAssumption

\* A chunk read after what was read lands at its place.
LEMMA ChunkIsPlaced ==
  ASSUME NEW s \in Seq(Bytes), Placed(s), NEW n \in Nat,
         NEW d \in Seq(Bytes), Placed(d), Len(d) + n <= Len(s)
  PROVE  LET e == d \o SubSeq(s, Len(d) + 1, Len(d) + n)
         IN  e \in Seq(Bytes) /\ Len(e) = Len(d) + n /\ Placed(e)
<1> DEFINE t == SubSeq(s, Len(d) + 1, Len(d) + n)
           e == d \o t
<1>0. Len(d) \in Nat /\ Len(s) \in Nat
  OBVIOUS
<1>1. /\ t \in Seq(Bytes) /\ Len(t) = n
      /\ \A k \in 1 .. n : t[k] = s[Len(d) + k]
  <2>1. t \in Seq(Bytes)
    BY <1>0, SubSeqProperties
  <2>2. Len(t) = n
    BY <1>0, SubSeqProperties
  <2>3. \A k \in 1 .. n : t[k] = s[Len(d) + k]
    BY <1>0, <2>2, SubSeqProperties
  <2>4. QED  BY <2>1, <2>2, <2>3
<1>2. /\ e \in Seq(Bytes) /\ Len(e) = Len(d) + n
      /\ \A k \in 1 .. Len(e) : e[k] = IF k <= Len(d) THEN d[k] ELSE t[k - Len(d)]
  BY <1>0, <1>1, ConcatProperties
<1>3. ASSUME NEW k \in 1 .. Len(e) PROVE e[k] = Fill \/ e[k].at = k
  <2>1. CASE k <= Len(d)
    BY <1>0, <1>2, <2>1 DEF Placed
  <2>2. CASE k > Len(d)
    <3>1. e[k] = s[k] /\ k \in 1 .. Len(s)
      BY <1>0, <1>1, <1>2, <2>2
    <3>2. QED  BY <3>1 DEF Placed
  <2>3. QED  BY <1>0, <1>2, <2>1, <2>2
<1>4. QED  BY <1>2, <1>3 DEF Placed

\* A chunk written lands at its place.
LEMMA OverwrittenIsPlaced ==
  ASSUME IInv, NEW c \in Clients
  PROVE  Overwritten(c) \in Seq(Bytes) /\ Len(Overwritten(c)) = size /\ Placed(Overwritten(c))
<1>0. size \in Nat /\ content \in Seq(Bytes) /\ Len(content) = size /\ Placed(content)
  BY SizesAreNat DEF IInv, SpaceOK
<1>1. id[c] \in Nat
  BY DEF IInv, LocalOK
<1>2. ASSUME NEW k \in 1 .. size PROVE [by |-> id[c], at |-> k] \in Bytes /\ content[k] \in Bytes
  <2>1. [by |-> id[c], at |-> k] \in Bytes
    BY <1>0, <1>1 DEF Bytes
  <2>2. content[k] \in Bytes
    BY <1>0, ElementOfSeq
  <2>3. QED  BY <2>1, <2>2
<1>3. Overwritten(c) \in [1 .. size -> Bytes]
  BY <1>2 DEF Overwritten
<1>4. Overwritten(c) \in Seq(Bytes) /\ Len(Overwritten(c)) = size
  BY <1>0, <1>3
<1>5. ASSUME NEW k \in 1 .. size PROVE Overwritten(c)[k] = Fill \/ Overwritten(c)[k].at = k
  <2>1. Overwritten(c)[k] = [by |-> id[c], at |-> k] \/ Overwritten(c)[k] = content[k]
    BY DEF Overwritten
  <2>2. QED  BY <1>0, <2>1 DEF Placed
<1>6. QED  BY <1>4, <1>5 DEF Placed

LEMMA LengthFits ==
  ASSUME IInv, NEW c \in Clients
  PROVE  /\ Length(c) \in Nat /\ offset[c] + Length(c) <= total[c]
         /\ total[c] \in Nat /\ offset[c] \in Nat /\ total[c] <= U16 /\ U16 \in Nat
<1>1. /\ total[c] \in 0 .. U16 /\ offset[c] \in Nat /\ offset[c] <= total[c]
      /\ Chunk \in Nat /\ U16 \in Nat
  BY NvAssumption DEF IInv, LocalOK, Moved
<1>2. QED  BY <1>1 DEF Length, Least

\* The other clients' calls are not touched by c's step.
Others(c) ==
  \A d \in Clients \ {c} :
    /\ pc'[d] = pc[d] /\ op'[d] = op[d] /\ total'[d] = total[d]
    /\ offset'[d] = offset[d] /\ data'[d] = data[d]

LEMMA OthersMoved ==
  ASSUME IInv, NEW c \in Clients, Others(c), Moved(c)'
  PROVE  \A d \in Clients : Moved(d)'
BY DEF IInv, Others, Moved, Reads

-----------------------------------------------------------------------------

LEMMA InitInv == Init => IInv
<1>1. SUFFICES ASSUME Init PROVE IInv
  OBVIOUS
<1>2. SpaceOK
  BY <1>1, SizesAreNat, BlankIsPlaced DEF Init, SpaceOK
<1>3. LocalOK
  BY <1>1, NvAssumption DEF Init, LocalOK, Working, Done, Ops
<1>4. ASSUME NEW c \in Clients PROVE Moved(c)
  <2>1. pc[c] = "idle" /\ total[c] = 0 /\ offset[c] = 0 /\ data[c] = <<>>
    BY <1>1 DEF Init
  <2>2. QED  BY <2>1 DEF Moved, Placed
<1>5. QED  BY <1>2, <1>3, <1>4 DEF IInv

LEMMA CallInv ==
  ASSUME IInv, NEW c \in Clients, NEW o \in Ops, NEW n \in Sizes \cup {0}, Call(c, o, n),
         o \in {"read", "cert", "undefine"} => n = 0,
         o = "define" => n \in Sizes
  PROVE  IInv'
<1>1. SpaceOK'
  BY DEF IInv, SpaceOK, Call, space, Placed
<1>2. n \in 0 .. U16
  BY NvAssumption
<1>3. PICK l \in {"cert", "define", "undefine", "public"} :
        /\ Goto(c, l)
        /\ l = "cert" => o = "cert" /\ n = 0
        /\ l = "define" => o = "define"
        /\ l = "undefine" => o = "undefine"
        /\ l = "public" => o \in {"read", "write"}
  BY DEF Call, Ops
<1>4. LocalOK'
  <2>1. pc' \in [Clients -> Working \cup Done]
    BY <1>3 DEF IInv, LocalOK, Goto, Working
  <2>2. op' \in [Clients -> Ops] /\ kind' \in [Clients -> {"none", "rc", "other"}]
    BY DEF IInv, LocalOK, Call
  <2>3. total' \in [Clients -> 0 .. U16] /\ offset' \in [Clients -> Nat]
    BY <1>2 DEF IInv, LocalOK, Call
  <2>4. id' \in [Clients -> Nat] /\ calls' \in Nat
    BY DEF IInv, LocalOK, Call
  <2>5. data' \in [Clients -> Seq(Bytes)]
    BY DEF IInv, LocalOK, Call
  <2>6. QED  BY <2>1, <2>2, <2>3, <2>4, <2>5 DEF LocalOK
<1>5. /\ pc'[c] \in {"cert", "define", "undefine", "public"} /\ op'[c] = o /\ total'[c] = n
      /\ pc'[c] = "cert" => o = "cert" /\ n = 0
      /\ pc'[c] = "define" => o = "define"
      /\ pc'[c] = "undefine" => o = "undefine"
      /\ pc'[c] = "public" => o \in {"read", "write"}
      /\ offset'[c] = 0 /\ data'[c] = <<>> /\ n \in Nat
  BY <1>2, <1>3 DEF IInv, LocalOK, Call, Goto
<1>6. Moved(c)'
  BY <1>5 DEF Moved, Placed, Reads
<1>7. Others(c)
  BY <1>3 DEF IInv, LocalOK, Call, Goto, Others
<1>8. QED  BY <1>1, <1>4, <1>6, <1>7, OthersMoved DEF IInv

\* A failing step moves nothing more.
LEMMA FailInv ==
  ASSUME IInv, NEW c \in Clients, NEW k \in {"rc", "other"}, Fail(c, k), SpaceOK',
         UNCHANGED <<op, total, offset, data, id, calls>>
  PROVE  IInv'
<1>1. LocalOK'
  BY DEF IInv, LocalOK, Fail, Goto, Done
<1>2. pc'[c] = "err" /\ Others(c)
  BY DEF IInv, LocalOK, Fail, Goto, Others
<1>3. Moved(c)'
  BY <1>2 DEF IInv, Moved, Reads, Placed
<1>4. QED  BY <1>1, <1>2, <1>3, OthersMoved DEF IInv

LEMMA PublicInv ==
  ASSUME IInv, NEW c \in Clients, CertPublic(c) \/ Public(c)  PROVE IInv'
<1>0. SpaceOK' /\ UNCHANGED <<op, offset, data, id, calls>>
  BY DEF CertPublic, Public, IInv, SpaceOK, space, bound
<1>1. CASE \E k \in {"rc", "other"} : Fail(c, k) /\ UNCHANGED total
  BY <1>0, <1>1, FailInv
<1>2. CASE /\ pc[c] = "cert" /\ UNCHANGED <<total, kind>>
           /\ Goto(c, IF size = 0 THEN "ok" ELSE "public")
  <2>1. LocalOK' /\ Others(c) /\ pc'[c] \in {"ok", "public"}
    BY <1>0, <1>2 DEF IInv, LocalOK, Goto, Others, Working, Done
  <2>2. op[c] = "cert" /\ total[c] = 0 /\ offset[c] = 0 /\ data[c] = <<>>
    BY <1>2 DEF IInv, Moved
  <2>3. Moved(c)'
    BY <1>0, <1>2, <2>1, <2>2 DEF Moved, Reads, Placed
  <2>4. QED  BY <1>0, <2>1, <2>3, OthersMoved DEF IInv
<1>3. CASE /\ pc[c] = "public" /\ op[c] = "write" /\ UNCHANGED <<total, kind>>
           /\ Goto(c, IF total[c] = 0 THEN "ok" ELSE "write")
  <2>1. LocalOK' /\ Others(c) /\ pc'[c] \in {"ok", "write"}
    BY <1>0, <1>3 DEF IInv, LocalOK, Goto, Others, Working, Done
  <2>2. Moved(c)'
    BY <1>0, <1>3, <2>1 DEF IInv, Moved, Reads, Placed
  <2>3. QED  BY <1>0, <2>1, <2>2, OthersMoved DEF IInv
<1>4. CASE /\ pc[c] = "public" /\ op[c] # "write" /\ UNCHANGED kind
           /\ total' = [total EXCEPT ![c] = size]
           /\ Goto(c, IF size = 0 THEN "ok" ELSE "read")
  <2>0. size \in 0 .. U16 /\ size \in Nat
    BY SizesAreNat DEF IInv, SpaceOK
  <2>1. total' \in [Clients -> 0 .. U16] /\ total'[c] = size
    BY <1>4, <2>0 DEF IInv, LocalOK
  <2>2. LocalOK' /\ pc'[c] \in {"ok", "read"} /\ (pc'[c] = "ok" => size = 0)
    BY <1>0, <1>4, <2>1 DEF IInv, LocalOK, Goto, Working, Done
  <2>3. Others(c)
    BY <1>0, <1>4 DEF IInv, LocalOK, Goto, Others
  <2>4. offset[c] = 0 /\ data[c] = <<>>
    BY <1>4 DEF IInv, Moved
  <2>5. op[c] \in {"read", "cert"}
    BY <1>4 DEF IInv, Moved
  <2>6. Moved(c)'
    BY <1>0, <1>4, <2>0, <2>1, <2>2, <2>4, <2>5 DEF Moved, Reads, Placed
  <2>7. QED  BY <1>0, <2>2, <2>3, <2>6, OthersMoved DEF IInv
<1>5. QED  BY <1>1, <1>2, <1>3, <1>4 DEF CertPublic, Public

\* Advance after a chunk: the call ends with all it had to move.
LEMMA AdvanceInv ==
  ASSUME IInv, NEW c \in Clients, NEW l \in {"read", "write"}, pc[c] = l, Advance(c, l),
         SpaceOK', UNCHANGED <<op, total, id, calls>>,
         data' \in [Clients -> Seq(Bytes)],
         \A d \in Clients \ {c} : data'[d] = data[d],
         Placed(data'[c]),
         l = "read" => Len(data'[c]) = offset[c] + Length(c),
         l = "write" => data'[c] = data[c]
  PROVE  IInv'
<1>0. /\ Length(c) \in Nat /\ offset[c] + Length(c) <= total[c]
      /\ total[c] \in Nat /\ offset[c] \in Nat /\ total[c] <= U16 /\ U16 \in Nat
  BY LengthFits
<1>1. /\ offset' = [offset EXCEPT ![c] = @ + Length(c)] /\ UNCHANGED kind
      /\ Goto(c, IF offset[c] + Length(c) >= total[c] THEN "ok" ELSE l)
  BY <1>0 DEF Advance
<1>2. offset' \in [Clients -> Nat] /\ offset'[c] = offset[c] + Length(c)
  BY <1>0, <1>1 DEF IInv, LocalOK
<1>3. pc' \in [Clients -> Working \cup Done]
  BY <1>1 DEF IInv, LocalOK, Goto, Working, Done
<1>4. LocalOK'
  BY <1>1, <1>2, <1>3 DEF IInv, LocalOK
<1>5. Others(c)
  BY <1>1 DEF IInv, LocalOK, Goto, Others
<1>6. pc'[c] = IF offset'[c] >= total[c] THEN "ok" ELSE l
  BY <1>1, <1>2 DEF IInv, LocalOK, Goto
<1>7. /\ l = "read" => Reads(c)
      /\ l = "write" => ~Reads(c) /\ Len(data[c]) <= total[c]
  BY DEF IInv, Moved
<1>8. Moved(c)'
  <2>1. CASE l = "read"
    BY <1>0, <1>2, <1>6, <1>7, <2>1 DEF Moved, Reads
  <2>2. CASE l = "write"
    BY <1>0, <1>2, <1>6, <1>7, <2>2 DEF Moved, Reads
  <2>3. QED  BY <2>1, <2>2
<1>9. QED  BY <1>4, <1>5, <1>8, OthersMoved DEF IInv

LEMMA ReadChunkInv ==
  ASSUME IInv, NEW c \in Clients, ReadChunk(c)  PROVE IInv'
<1>0. /\ pc[c] = "read" /\ SpaceOK' /\ UNCHANGED <<op, total, id, calls>>
      /\ Len(data[c]) = offset[c] /\ Placed(data[c]) /\ data[c] \in Seq(Bytes)
      /\ content \in Seq(Bytes) /\ Len(content) = size /\ Placed(content)
  BY DEF ReadChunk, IInv, SpaceOK, LocalOK, Moved, space, bound
<1>1. CASE \E k \in {"rc", "other"} : Fail(c, k) /\ UNCHANGED <<offset, data>>
  BY <1>0, <1>1, FailInv
<1>2. CASE /\ offset[c] + Length(c) <= size /\ Advance(c, "read")
           /\ data' = [data EXCEPT ![c] = @ \o SubSeq(content, offset[c] + 1, offset[c] + Length(c))]
  <2>1. Length(c) \in Nat
    BY LengthFits
  <2> DEFINE d == data[c]
             e == d \o SubSeq(content, Len(d) + 1, Len(d) + Length(c))
  <2>2. Len(d) + Length(c) <= Len(content)
    BY <1>0, <1>2
  <2>3. e \in Seq(Bytes) /\ Len(e) = Len(d) + Length(c) /\ Placed(e)
    <3>1. d \in Seq(Bytes) /\ Placed(d) /\ content \in Seq(Bytes) /\ Placed(content)
      BY <1>0
    <3>2. QED
      <4> HIDE DEF d
      <4>1. QED  BY <2>1, <2>2, <3>1, ChunkIsPlaced
  <2>4. data' = [data EXCEPT ![c] = e]
    BY <1>0, <1>2
  <2>5. /\ data' \in [Clients -> Seq(Bytes)] /\ Len(data'[c]) = offset[c] + Length(c)
        /\ Placed(data'[c]) /\ \A o \in Clients \ {c} : data'[o] = data[o]
    <3> HIDE DEF e
    <3>1. data \in [Clients -> Seq(Bytes)]
      BY DEF IInv, LocalOK
    <3>2. data'[c] = e
      BY <2>4, <3>1
    <3>3. QED  BY <1>0, <2>3, <2>4, <3>1, <3>2
  <2>6. QED  BY <1>0, <1>2, <2>5, AdvanceInv
<1>3. QED  BY <1>1, <1>2 DEF ReadChunk

LEMMA WriteChunkInv ==
  ASSUME IInv, NEW c \in Clients, WriteChunk(c)  PROVE IInv'
<1>0. pc[c] = "write" /\ UNCHANGED <<defined, size, op, total, data, id, calls>>
  BY DEF WriteChunk, bound
<1>1. SpaceOK'
  <2>1. content' = Overwritten(c) \/ content' = content
    BY DEF WriteChunk
  <2>2. QED  BY <1>0, <2>1, OverwrittenIsPlaced DEF IInv, SpaceOK
<1>2. CASE \E k \in {"rc", "other"} : Fail(c, k) /\ UNCHANGED offset
  BY <1>0, <1>1, <1>2, FailInv
<1>3. CASE Advance(c, "write")
  <2>1. data \in [Clients -> Seq(Bytes)] /\ Placed(data[c])
    BY DEF IInv, LocalOK, Moved
  <2>2. QED  BY <1>0, <1>1, <1>3, <2>1, AdvanceInv
<1>4. QED  BY <1>2, <1>3 DEF WriteChunk

LEMMA DefineInv ==
  ASSUME IInv, NEW c \in Clients, Define(c) \/ Undefine(c)  PROVE IInv'
<1>0. /\ pc[c] \in {"define", "undefine"}
      /\ UNCHANGED <<op, total, offset, data, id, calls>>
  BY DEF Define, Undefine, bound
<1>1. SpaceOK'
  <2>1. CASE UNCHANGED <<size, content>>
    BY <2>1 DEF IInv, SpaceOK
  <2>2. CASE pc[c] = "define" /\ size' = total[c] /\ content' = Blank(total[c])
    <3>1. total[c] \in Sizes /\ total[c] \in Nat
      BY <2>2, SizesAreNat DEF IInv, Moved
    <3>2. QED  BY <2>2, <3>1, BlankIsPlaced DEF SpaceOK
  <2>3. QED  BY <2>1, <2>2 DEF Define, Undefine, space
<1>2. CASE \E k \in {"rc", "other"} : Fail(c, k)
  BY <1>0, <1>1, <1>2, FailInv
<1>3. CASE Goto(c, "ok") /\ UNCHANGED kind
  <2>1. LocalOK' /\ Others(c) /\ pc'[c] = "ok"
    BY <1>0, <1>3 DEF IInv, LocalOK, Goto, Others, Done
  <2>2. Moved(c)'
    BY <1>0, <2>1 DEF IInv, Moved, Reads, Placed
  <2>3. QED  BY <1>1, <2>1, <2>2, OthersMoved DEF IInv
<1>4. QED  BY <1>2, <1>3 DEF Define, Undefine

LEMMA NextInv == IInv /\ [Next]_vars => IInv'
<1>1. SUFFICES ASSUME IInv, [Next]_vars PROVE IInv'
  OBVIOUS
<1>2. ASSUME NEW c \in Clients, Step(c) PROVE IInv'
  BY <1>1, <1>2, PublicInv, ReadChunkInv, WriteChunkInv, DefineInv DEF Step
<1>3. ASSUME NEW c \in Clients, Start(c) PROVE IInv'
  <2>1. CASE \E o \in {"read", "cert", "undefine"} : Call(c, o, 0)
    <3>1. PICK o \in {"read", "cert", "undefine"} : Call(c, o, 0)
      BY <2>1
    <3>2. QED  BY <1>1, <3>1, CallInv DEF Ops
  <2>2. CASE \E o \in {"write", "define"}, n \in Sizes : Call(c, o, n)
    <3>1. PICK o \in {"write", "define"}, n \in Sizes : Call(c, o, n)
      BY <2>2
    <3>2. QED  BY <1>1, <3>1, CallInv DEF Ops
  <2>3. QED  BY <1>3, <2>1, <2>2 DEF Start
<1>4. CASE UNCHANGED vars
  <2>1. SpaceOK' /\ LocalOK'
    BY <1>1, <1>4 DEF vars, space, local, bound, IInv, SpaceOK, LocalOK
  <2>2. \A c \in Clients : Moved(c)'
    BY <1>1, <1>4 DEF vars, space, local, bound, IInv, Moved, Reads
  <2>3. QED  BY <2>1, <2>2 DEF IInv
<1>5. QED  BY <1>1, <1>2, <1>3, <1>4 DEF Next

THEOREM Invariance == Spec => []IInv
<1>1. QED  BY InitInv, NextInv, PTL DEF Spec

(***************************************************************************)
(* The type invariant: offsets stay within the bytes to move, and these    *)
(* within the u16 the code computes them in.                               *)
(***************************************************************************)
THEOREM TypeCorrect == Spec => []TypeOK
<1>1. ASSUME IInv PROVE TypeOK
  <2>1. size \in Sizes /\ DOMAIN content = 1 .. size
    BY <1>1, LenProperties DEF IInv, SpaceOK
  <2>2. ASSUME NEW c \in Clients
        PROVE  total[c] \in 0 .. U16 /\ offset[c] \in 0 .. total[c] /\ Len(data[c]) <= total[c]
    <3>1. total[c] \in 0 .. U16 /\ offset[c] \in Nat
      BY <1>1 DEF IInv, LocalOK
    <3>2. offset[c] <= total[c] /\ Len(data[c]) <= total[c]
      BY <1>1 DEF IInv, Moved
    <3>3. QED  BY <3>1, <3>2, NvAssumption
  <2>3. QED  BY <1>1, <2>1, <2>2 DEF IInv, LocalOK, TypeOK
<1>2. QED  BY <1>1, Invariance, PTL

(***************************************************************************)
(* An Ok read has every byte of the size the index had when it began, each *)
(* from its place (read_nv_index, get_ak_cert).                            *)
(***************************************************************************)
THEOREM ReadsAreWhole == Spec => []ReadsWholeIndex
<1>1. IInv => ReadsWholeIndex
  BY DEF IInv, Moved, Placed, ReadsWholeIndex
<1>2. QED  BY <1>1, Invariance, PTL

-----------------------------------------------------------------------------

\* Client c is undisturbed: no fault, and no other client has called yet.
Solo(c) == ~faults /\ \A o \in Clients \ {c} : pc[o] = "idle"

\* The bytes 1 .. n of the index are those of c's data.
Landed(c, n) == \A k \in 1 .. n : content[k] = [by |-> id[c], at |-> k]

\* A call's operation is the one its command belongs to, and a failure is one of its own.
Named(c) ==
  /\ pc[c] = "define" => op[c] = "define"
  /\ pc[c] = "undefine" => op[c] = "undefine"
  /\ kind[c] # "none" => pc[c] = "err"

(***************************************************************************)
(* What an undisturbed transfer has done: the index is still the one whose *)
(* public area it read, and the bytes moved agree with it.                 *)
(***************************************************************************)
Undisturbed(c) ==
  /\ kind[c] = "other" => op[c] = "write" /\ total[c] > size
  /\ pc[c] \in {"read", "write"} => defined
  /\ pc[c] = "write" => total[c] <= size /\ Landed(c, offset[c])
  /\ pc[c] = "ok" /\ op[c] = "write" => total[c] <= size /\ Landed(c, total[c])
  /\ pc[c] = "read" => total[c] = size
  /\ pc[c] = "ok" /\ Reads(c) => total[c] = size
  /\ pc[c] = "read" \/ (pc[c] = "ok" /\ Reads(c)) =>
       \A k \in 1 .. Len(data[c]) : data[c][k] = content[k]

SoloInv ==
  /\ \A c \in Clients : Named(c)
  /\ \A c \in Clients : Solo(c) => Undisturbed(c)

\* A step of c leaves the other clients where they were, and c never goes idle again.
StepOf(c) ==
  /\ \A d \in Clients \ {c} : pc'[d] = pc[d] /\ op'[d] = op[d] /\ kind'[d] = kind[d]
  /\ pc'[c] # "idle" /\ faults' = faults
  /\ Named(c)'

\* A failing step records how it failed.
LEMMA FailStep ==
  ASSUME IInv, NEW c \in Clients, NEW k \in {"rc", "other"}, Fail(c, k), UNCHANGED <<op, faults>>
  PROVE  StepOf(c) /\ pc'[c] = "err" /\ kind'[c] = k
BY DEF IInv, LocalOK, Fail, Goto, StepOf, Named

\* A step that does not fail leaves no failure behind.
LEMMA GotoStep ==
  ASSUME IInv, NEW c \in Clients, Named(c), pc[c] # "err",
         NEW l \in {"ok", "public", "read", "write"}, Goto(c, l), UNCHANGED <<op, kind, faults>>
  PROVE  StepOf(c) /\ pc'[c] = l /\ kind'[c] = "none"
BY DEF IInv, LocalOK, Goto, StepOf, Named

LEMMA CallSolo ==
  ASSUME IInv, NEW c \in Clients, Start(c)
  PROVE  StepOf(c) /\ Undisturbed(c)'
<1>1. PICK o \in Ops, n \in Sizes \cup {0} : Call(c, o, n)
  BY DEF Start, Ops
<1>2. PICK l \in {"cert", "define", "undefine", "public"} :
        /\ Goto(c, l)
        /\ l = "define" => o = "define"
        /\ l = "undefine" => o = "undefine"
  BY <1>1 DEF Call, Ops
<1>3. op' = [op EXCEPT ![c] = o] /\ kind' = [kind EXCEPT ![c] = "none"] /\ faults' = faults
  BY <1>1 DEF Call
<1>4. pc'[c] = l /\ op'[c] = o /\ kind'[c] = "none"
  BY <1>2, <1>3 DEF IInv, LocalOK, Goto
<1>5. StepOf(c)
  BY <1>2, <1>3, <1>4 DEF IInv, LocalOK, Goto, StepOf, Named
<1>6. Undisturbed(c)'
  BY <1>4 DEF Undisturbed
<1>7. QED  BY <1>5, <1>6

\* CertPublic and Public: an empty index is read whole, a write that fits is begun.
LEMMA PublicSolo ==
  ASSUME IInv, NEW c \in Clients, Named(c), CertPublic(c) \/ Public(c)
  PROVE  StepOf(c) /\ (~faults => Undisturbed(c)')
<1>0. /\ pc[c] \in {"cert", "public"} /\ UNCHANGED <<defined, size, content, op, offset, data, id, faults>>
      /\ offset[c] = 0 /\ data[c] = <<>> /\ kind[c] = "none"
  BY DEF CertPublic, Public, IInv, Moved, space, bound, Named
<1>1. CASE \E k \in {"rc", "other"} : Fail(c, k) /\ (~faults => k = "rc" \/ (op[c] = "write" /\ total'[c] > size))
  <2>1. PICK k \in {"rc", "other"} : Fail(c, k) /\ (~faults => k = "rc" \/ (op[c] = "write" /\ total'[c] > size))
    BY <1>1
  <2>2. StepOf(c) /\ pc'[c] = "err" /\ kind'[c] = k
    BY <1>0, <2>1, FailStep
  <2>3. QED  BY <1>0, <2>1, <2>2 DEF Undisturbed
<1>2. CASE /\ pc[c] = "cert" /\ defined /\ Goto(c, IF size = 0 THEN "ok" ELSE "public")
           /\ UNCHANGED <<total, kind>>
  <2>1. StepOf(c) /\ pc'[c] \in {"ok", "public"} /\ kind'[c] = "none" /\ (pc'[c] = "ok" => size = 0)
    BY <1>0, <1>2, GotoStep
  <2>2. op[c] = "cert" /\ total[c] = 0
    BY <1>2 DEF IInv, Moved
  <2>3. QED  BY <1>0, <1>2, <2>1, <2>2 DEF Undisturbed, Reads
<1>3. CASE /\ pc[c] = "public" /\ defined /\ op[c] = "write" /\ ~(total[c] > size)
           /\ Goto(c, IF total[c] = 0 THEN "ok" ELSE "write") /\ UNCHANGED <<total, kind>>
  <2>1. StepOf(c) /\ pc'[c] \in {"ok", "write"} /\ kind'[c] = "none" /\ (pc'[c] = "ok" => total[c] = 0)
    BY <1>0, <1>3, GotoStep
  <2>2. total[c] <= size
    BY <1>3, SizesAreNat DEF IInv, SpaceOK, LocalOK
  <2>3. Landed(c, 0)'
    BY DEF Landed
  <2>4. QED  BY <1>0, <1>3, <2>1, <2>2, <2>3 DEF Undisturbed, Reads
<1>4. CASE /\ pc[c] = "public" /\ defined /\ op[c] # "write"
           /\ total' = [total EXCEPT ![c] = size]
           /\ Goto(c, IF size = 0 THEN "ok" ELSE "read") /\ UNCHANGED kind
  <2>1. StepOf(c) /\ pc'[c] \in {"ok", "read"} /\ kind'[c] = "none"
    BY <1>0, <1>4, GotoStep
  <2>2. total'[c] = size
    BY <1>4 DEF IInv, LocalOK
  <2>3. QED  BY <1>0, <1>4, <2>1, <2>2 DEF Undisturbed, Reads
<1>5. QED  BY <1>1, <1>2, <1>3, <1>4 DEF CertPublic, Public

\* What Advance does: all was moved, or there is more to move; the offset never overflows.
LEMMA AdvanceSolo ==
  ASSUME IInv, NEW c \in Clients, Named(c), NEW l \in {"read", "write"}, pc[c] = l,
         Advance(c, l), UNCHANGED <<op, faults>>
  PROVE  /\ StepOf(c) /\ kind'[c] = "none"
         /\ offset'[c] = offset[c] + Length(c) /\ offset'[c] \in 0 .. total[c]
         /\ pc'[c] = l \/ (pc'[c] = "ok" /\ offset'[c] = total[c])
<1>0. /\ Length(c) \in Nat /\ offset[c] + Length(c) <= total[c]
      /\ total[c] \in Nat /\ offset[c] \in Nat /\ total[c] <= U16 /\ U16 \in Nat
  BY LengthFits
<1>1. /\ offset' = [offset EXCEPT ![c] = @ + Length(c)] /\ UNCHANGED kind
      /\ Goto(c, IF offset[c] + Length(c) >= total[c] THEN "ok" ELSE l)
  BY <1>0 DEF Advance
<1>2. offset'[c] = offset[c] + Length(c)
  BY <1>1 DEF IInv, LocalOK
<1>3. CASE offset[c] + Length(c) >= total[c]
  <2>1. Goto(c, "ok")
    BY <1>1, <1>3
  <2>2. StepOf(c) /\ pc'[c] = "ok" /\ kind'[c] = "none"
    BY <1>1, <2>1, GotoStep
  <2>3. QED  BY <1>0, <1>2, <1>3, <2>2
<1>4. CASE ~(offset[c] + Length(c) >= total[c])
  <2>1. Goto(c, l)
    BY <1>1, <1>4
  <2>2. StepOf(c) /\ pc'[c] = l /\ kind'[c] = "none"
    BY <1>1, <2>1, GotoStep
  <2>3. QED  BY <1>0, <1>2, <2>2
<1>5. QED  BY <1>3, <1>4

\* A chunk read after what agrees with the index agrees with it.
LEMMA ChunkAgrees ==
  ASSUME NEW s \in Seq(Bytes), NEW n \in Nat, NEW d \in Seq(Bytes), Len(d) + n <= Len(s),
         \A k \in 1 .. Len(d) : d[k] = s[k]
  PROVE  LET e == d \o SubSeq(s, Len(d) + 1, Len(d) + n)
         IN  \A k \in 1 .. Len(e) : e[k] = s[k]
<1> DEFINE t == SubSeq(s, Len(d) + 1, Len(d) + n)
           e == d \o t
<1>0. Len(d) \in Nat /\ Len(s) \in Nat
  OBVIOUS
<1>1. t \in Seq(Bytes) /\ Len(t) = n
  BY <1>0, SubSeqProperties
<1>2. \A k \in 1 .. n : t[k] = s[Len(d) + k]
  BY <1>0, <1>1, SubSeqProperties
<1>3. /\ Len(e) = Len(d) + n
      /\ \A k \in 1 .. Len(e) : e[k] = IF k <= Len(d) THEN d[k] ELSE t[k - Len(d)]
  BY <1>0, <1>1, ConcatProperties
<1>4. ASSUME NEW k \in 1 .. Len(e) PROVE e[k] = s[k]
  <2>1. CASE k <= Len(d)
    BY <1>0, <1>3, <2>1
  <2>2. CASE k > Len(d)
    BY <1>0, <1>2, <1>3, <2>2
  <2>3. QED  BY <1>0, <1>3, <2>1, <2>2
<1>5. QED  BY <1>4

\* ReadChunk: the chunk collected is the one the index holds.
LEMMA ReadChunkSolo ==
  ASSUME IInv, NEW c \in Clients, Named(c), ReadChunk(c)
  PROVE  StepOf(c) /\ (~faults /\ Undisturbed(c) => Undisturbed(c)')
<1>0. /\ pc[c] = "read" /\ UNCHANGED <<defined, size, content, op, total, id, faults>>
      /\ Len(data[c]) = offset[c] /\ data[c] \in Seq(Bytes) /\ offset[c] \in Nat
      /\ content \in Seq(Bytes) /\ Len(content) = size /\ Reads(c)
  BY DEF ReadChunk, IInv, SpaceOK, LocalOK, Moved, space, bound
<1>1. CASE \E k \in {"rc", "other"} : Fail(c, k) /\ (~faults => k = "rc")
  <2>1. PICK k \in {"rc", "other"} : Fail(c, k) /\ (~faults => k = "rc")
    BY <1>1
  <2>2. StepOf(c) /\ pc'[c] = "err" /\ kind'[c] = k
    BY <1>0, <2>1, FailStep
  <2>3. QED  BY <2>1, <2>2 DEF Undisturbed
<1>2. CASE /\ defined /\ offset[c] + Length(c) <= size /\ Advance(c, "read")
           /\ data' = [data EXCEPT ![c] = @ \o SubSeq(content, offset[c] + 1, offset[c] + Length(c))]
  <2> DEFINE n == Length(c)
  <2>1. n \in Nat
    BY LengthFits
  <2>2. /\ StepOf(c) /\ kind'[c] = "none" /\ pc'[c] \in {"read", "ok"}
    BY <1>0, <1>2, AdvanceSolo
  <2>3. data'[c] = data[c] \o SubSeq(content, Len(data[c]) + 1, Len(data[c]) + n)
    BY <1>0, <1>2 DEF IInv, LocalOK
  <2>6. ASSUME Undisturbed(c) PROVE \A k \in 1 .. Len(data'[c]) : data'[c][k] = content[k]
    <3>1. \A j \in 1 .. Len(data[c]) : data[c][j] = content[j]
      BY <1>0, <2>6 DEF Undisturbed
    <3> DEFINE d == data[c]
    <3>2. d \in Seq(Bytes) /\ Len(d) + n <= Len(content) /\ \A j \in 1 .. Len(d) : d[j] = content[j]
      BY <1>0, <1>2, <3>1
    <3>3. data'[c] = d \o SubSeq(content, Len(d) + 1, Len(d) + n)
      BY <2>3
    <3> HIDE DEF d, n
    <3>4. QED  BY <1>0, <2>1, <3>2, <3>3, ChunkAgrees
  <2>7. ASSUME Undisturbed(c) PROVE Undisturbed(c)'
    <3>1. total[c] = size
      BY <1>0, <2>7 DEF Undisturbed
    <3>2. QED  BY <1>0, <1>2, <2>2, <2>6, <2>7, <3>1 DEF Undisturbed, Reads
  <2>8. QED  BY <2>2, <2>7
<1>3. QED  BY <1>1, <1>2 DEF ReadChunk

\* WriteChunk: the chunk written extends what landed.
LEMMA WriteChunkSolo ==
  ASSUME IInv, NEW c \in Clients, Named(c), WriteChunk(c)
  PROVE  StepOf(c) /\ (~faults /\ Undisturbed(c) => Undisturbed(c)')
<1>0. /\ pc[c] = "write" /\ UNCHANGED <<defined, size, op, total, data, id, faults>>
      /\ ~Reads(c) /\ size \in Nat
  BY SizesAreNat DEF WriteChunk, IInv, SpaceOK, Moved, bound
<1>1. CASE \E k \in {"rc", "other"} : Fail(c, k) /\ (~faults => k = "rc")
  <2>1. PICK k \in {"rc", "other"} : Fail(c, k) /\ (~faults => k = "rc")
    BY <1>1
  <2>2. StepOf(c) /\ pc'[c] = "err" /\ kind'[c] = k
    BY <1>0, <2>1, FailStep
  <2>3. QED  BY <2>1, <2>2 DEF Undisturbed
<1>2. CASE defined /\ content' = Overwritten(c) /\ Advance(c, "write")
  <2>1. /\ StepOf(c) /\ kind'[c] = "none"
        /\ offset'[c] = offset[c] + Length(c) /\ offset'[c] \in 0 .. total[c]
        /\ pc'[c] = "write" \/ (pc'[c] = "ok" /\ offset'[c] = total[c])
    BY <1>0, <1>2, AdvanceSolo
  <2>2. ASSUME Undisturbed(c) PROVE Undisturbed(c)'
    <3>1. total[c] <= size /\ Landed(c, offset[c]) /\ total[c] \in Nat /\ offset[c] \in Nat
      BY <1>0, <2>2, LengthFits DEF Undisturbed
    <3>2. Landed(c, offset[c])' 
      <4>1. ASSUME NEW k \in 1 .. offset'[c] PROVE content'[k] = [by |-> id[c], at |-> k]
        <5>1. k \in 1 .. size
          BY <1>0, <2>1, <3>1
        <5>2. content'[k] = IF k > offset[c] /\ k <= offset[c] + Length(c)
                            THEN [by |-> id[c], at |-> k] ELSE content[k]
          BY <1>2, <5>1 DEF Overwritten
        <5>3. QED  BY <2>1, <3>1, <5>2 DEF Landed
      <4>2. QED  BY <1>0, <4>1 DEF Landed
    <3>3. QED  BY <1>0, <1>2, <2>1, <3>1, <3>2 DEF Undisturbed, Reads, Landed
  <2>3. QED  BY <2>1, <2>2
<1>3. QED  BY <1>1, <1>2 DEF WriteChunk

LEMMA DefineSolo ==
  ASSUME IInv, NEW c \in Clients, Named(c), Define(c) \/ Undefine(c)
  PROVE  StepOf(c) /\ (~faults => Undisturbed(c)')
<1>0. /\ pc[c] \in {"define", "undefine"} /\ op[c] \in {"define", "undefine"}
      /\ UNCHANGED <<op, faults>>
  BY DEF Define, Undefine, Named, bound
<1>1. CASE \E k \in {"rc", "other"} : Fail(c, k) /\ (~faults => k = "rc")
  <2>1. PICK k \in {"rc", "other"} : Fail(c, k) /\ (~faults => k = "rc")
    BY <1>1
  <2>2. StepOf(c) /\ pc'[c] = "err" /\ kind'[c] = k
    BY <1>0, <2>1, FailStep
  <2>3. QED  BY <2>1, <2>2 DEF Undisturbed
<1>2. CASE Goto(c, "ok") /\ UNCHANGED kind
  <2>1. StepOf(c) /\ pc'[c] = "ok" /\ kind'[c] = "none"
    BY <1>0, <1>2, GotoStep
  <2>2. QED  BY <1>0, <2>1 DEF Undisturbed, Reads
<1>3. QED  BY <1>1, <1>2 DEF Define, Undefine

LEMMA InitSolo == Init => SoloInv
BY DEF Init, SoloInv, Named, Undisturbed

LEMMA NextSolo == IInv /\ SoloInv /\ [Next]_vars => SoloInv'
<1>1. SUFFICES ASSUME IInv, SoloInv, [Next]_vars PROVE SoloInv'
  OBVIOUS
<1>2. ASSUME NEW c \in Clients, Step(c) \/ Start(c)
      PROVE  StepOf(c) /\ (~faults /\ Undisturbed(c) => Undisturbed(c)')
  <2>1. Named(c)
    BY <1>1 DEF SoloInv
  <2>2. CASE Start(c)
    BY <1>1, <2>2, CallSolo
  <2>3. CASE Step(c)
    BY <1>1, <2>1, <2>3, PublicSolo, ReadChunkSolo, WriteChunkSolo, DefineSolo DEF Step
  <2>4. QED  BY <1>2, <2>2, <2>3
<1>3. ASSUME NEW c \in Clients, Step(c) \/ Start(c) PROVE SoloInv'
  <2>1. StepOf(c) /\ (~faults /\ Undisturbed(c) => Undisturbed(c)')
    BY <1>2, <1>3
  <2>2. ASSUME NEW d \in Clients PROVE Named(d)'
    <3>1. CASE d = c
      BY <2>1, <3>1 DEF StepOf
    <3>2. CASE d # c
      BY <1>1, <2>1, <3>2 DEF SoloInv, StepOf, Named
    <3>3. QED  BY <3>1, <3>2
  <2>3. ASSUME NEW d \in Clients, Solo(d)' PROVE Undisturbed(d)'
    <3>1. d = c
      BY <2>1, <2>3 DEF StepOf, Solo
    <3>2. Solo(c)
      BY <2>1, <2>3, <3>1 DEF StepOf, Solo
    <3>3. QED  BY <1>1, <2>1, <3>1, <3>2 DEF SoloInv, Solo
  <2>4. QED  BY <2>2, <2>3 DEF SoloInv
<1>4. CASE UNCHANGED vars
  BY <1>1, <1>4 DEF vars, space, local, bound, SoloInv, Named, Solo, Undisturbed, Landed, Reads
<1>5. QED  BY <1>1, <1>3, <1>4 DEF Next

(***************************************************************************)
(* Undisturbed transfers land (write_nv_index, read_nv_index, get_ak_cert):*)
(* an Ok write is in the index whole, an Ok read returns what is there,    *)
(* and nothing but data larger than the index is refused by the code       *)
(* itself: for every index size and every chunk size.                      *)
(***************************************************************************)
THEOREM TransfersLand == Spec => []TransferLands
<1>1. IInv /\ SoloInv => TransferLands
  <2>1. SUFFICES ASSUME IInv, SoloInv, NEW a \in Clients, Solo(a), NEW c \in Clients
                 PROVE  /\ pc[c] = "ok" /\ op[c] = "write" =>
                             \A k \in 1 .. total[c] : content[k] = [by |-> id[c], at |-> k]
                        /\ pc[c] = "ok" /\ Reads(c) => data[c] = content
                        /\ kind[c] = "other" => op[c] = "write" /\ total[c] > size
    BY DEF TransferLands, Alone, Solo
  <2>2. CASE c # a
    BY <2>1, <2>2 DEF Solo, SoloInv, Named
  <2>3. CASE c = a
    <3>1. Undisturbed(c)
      BY <2>1, <2>3 DEF SoloInv
    <3>2. ASSUME pc[c] = "ok", Reads(c) PROVE data[c] = content
      <4>1. /\ data[c] \in Seq(Bytes) /\ content \in Seq(Bytes) /\ Len(content) = size
            /\ Len(data[c]) = total[c]
        BY <2>1, <3>2 DEF IInv, LocalOK, SpaceOK, Moved
      <4>2. Len(data[c]) = Len(content) /\ \A k \in 1 .. Len(data[c]) : data[c][k] = content[k]
        BY <3>1, <3>2, <4>1 DEF Undisturbed
      <4>3. QED  BY <4>1, <4>2, SeqEqual
    <3>3. QED  BY <3>1, <3>2 DEF Undisturbed, Landed
  <2>4. QED  BY <2>2, <2>3
<1>2. Spec => []SoloInv
  BY Invariance, InitSolo, NextSolo, PTL DEF Spec
<1>3. QED  BY <1>1, <1>2, Invariance, PTL
=============================================================================
