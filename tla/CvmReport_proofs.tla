-------------------------- MODULE CvmReport_proofs --------------------------
(***************************************************************************)
(* Proofs about CvmReport for any number of clients, values, chunks and    *)
(* calls: type correctness, NoStaleUserData, and the refinement of the     *)
(* regular register StagedReport.                                          *)
(***************************************************************************)
EXTENDS CvmReport, TLAPS

Positions == 0 .. Len(log)

(***************************************************************************)
(* What holds of one call between any two commands.  The report read so    *)
(* far, and the image the next chunk may come from, are no older than the  *)
(* call's base; the base is the call's own write once the write is past.   *)
(***************************************************************************)
StagingHasData(c) ==
  pc[c] \in {"find", "define", "wpub", "write"} => req[c] \in Data
NothingReadYet(c) ==
  pc[c] \in {"find", "define", "wpub", "write", "rpub"} => got[c] = <<>>
OwnWriteIsBase(c) ==
  pc[c] \in {"rpub", "read", "ok"} /\ req[c] \in Data =>
    base[c] > 0 /\ log[base[c]] = [by |-> c, data |-> req[c]]
ReadIsFresh(c) ==
  /\ \A k \in 1 .. Len(got[c]) : got[c][k] \in base[c] .. Len(log)
  /\ pc[c] = "read" /\ got[c] # <<>> => image >= base[c]
AnswerNotEmpty(c) == pc[c] = "ok" => got[c] # <<>>

CallInv(c) ==
  /\ base[c] \in Positions
  /\ StagingHasData(c) /\ NothingReadYet(c)
  /\ OwnWriteIsBase(c) /\ ReadIsFresh(c) /\ AnswerNotEmpty(c)

IInv ==
  /\ TypeOK
  /\ image \in Positions
  /\ \A c \in Clients : CallInv(c)
Entry == [by : Clients, data : Data]

(***************************************************************************)
(* A write keeps every position of the log and adds one.                   *)
(***************************************************************************)
LEMMA WriteExtendsLog ==
  ASSUME log \in Seq(Entry), NEW e \in Entry
  PROVE  /\ Append(log, e) \in Seq(Entry)
         /\ Len(Append(log, e)) = Len(log) + 1
         /\ \A i \in 1 .. Len(log) : Append(log, e)[i] = log[i]
         /\ Append(log, e)[Len(log) + 1] = e
  OBVIOUS

LEMMA InitInv == Init => IInv
<1>1. SUFFICES ASSUME Init PROVE IInv
  OBVIOUS
<1>2. TypeOK
  BY <1>1, CvmAssumption DEF Init, TypeOK, Done, Inputs
<1>3. image \in Positions
  BY <1>1 DEF Init, Positions
<1>4. ASSUME NEW c \in Clients PROVE CallInv(c)
  BY <1>1, <1>4 DEF Init, CallInv, Positions, StagingHasData, NothingReadYet, OwnWriteIsBase,
     ReadIsFresh, AnswerNotEmpty
<1>5. QED  BY <1>2, <1>3, <1>4 DEF IInv

(***************************************************************************)
(* A new call starts from nothing: base at the end of the log, nothing     *)
(* read.  The other calls see no change.                                   *)
(***************************************************************************)
LEMMA BeginInv ==
  ASSUME IInv, NEW c \in Clients, NEW d \in Inputs, Begin(c, d)
  PROVE  IInv'
<1>1. TypeOK' /\ (image \in Positions)'
  BY CvmAssumption DEF Begin, Goto, IInv, TypeOK, Positions, Working, Done
<1>2. CallInv(c)'
  BY CvmAssumption DEF Begin, Goto, IInv, TypeOK, CallInv, Positions, StagingHasData,
     NothingReadYet, OwnWriteIsBase, ReadIsFresh, AnswerNotEmpty, Inputs
<1>3. ASSUME NEW o \in Clients, o # c PROVE CallInv(o)'
  BY <1>3 DEF Begin, Goto, IInv, TypeOK, CallInv, Positions, StagingHasData,
     NothingReadYet, OwnWriteIsBase, ReadIsFresh, AnswerNotEmpty
<1>4. QED  BY <1>1, <1>2, <1>3 DEF IInv

(***************************************************************************)
(* Commands that change neither the log nor what the call has read: the    *)
(* lookup, the define and the two reads of a public area.                  *)
(***************************************************************************)
LEMMA LookupInv ==
  ASSUME IInv, NEW c \in Clients, Find(c) \/ Define(c) \/ WritePublic(c) \/ ReadPublic(c)
  PROVE  IInv'
<1>1. CASE Find(c)
  BY <1>1 DEF Find, Goto, IInv, TypeOK, CallInv, Positions, StagingHasData, NothingReadYet,
     OwnWriteIsBase, ReadIsFresh, AnswerNotEmpty, Working, Done
<1>2. CASE Define(c)
  BY <1>2 DEF Define, Goto, IInv, TypeOK, CallInv, Positions, StagingHasData, NothingReadYet,
     OwnWriteIsBase, ReadIsFresh, AnswerNotEmpty, Working, Done
<1>3. CASE WritePublic(c)
  BY <1>3 DEF WritePublic, Goto, IInv, TypeOK, CallInv, Positions, StagingHasData,
     NothingReadYet, OwnWriteIsBase, ReadIsFresh, AnswerNotEmpty, Working, Done
<1>4. CASE ReadPublic(c)
  <2>1. TypeOK' /\ (image \in Positions)'
    BY <1>4 DEF ReadPublic, Goto, IInv, TypeOK, Positions, Working, Done
  <2>2. ASSUME NEW o \in Clients PROVE CallInv(o)'
    BY <1>4, <2>2 DEF ReadPublic, Goto, IInv, TypeOK, CallInv, Positions, StagingHasData,
       NothingReadYet, OwnWriteIsBase, ReadIsFresh, AnswerNotEmpty
  <2>3. QED  BY <2>1, <2>2 DEF IInv
<1>5. QED  BY <1>1, <1>2, <1>3, <1>4

(***************************************************************************)
(* NV_Write.  The log gains at most the caller's entry, so what other      *)
(* calls know of older positions stands; the caller's base moves to its    *)
(* entry only when the call goes on.                                       *)
(***************************************************************************)
LEMMA WriteInv ==
  ASSUME IInv, NEW c \in Clients, Write(c)
  PROVE  IInv'
<1> DEFINE e == [by |-> c, data |-> req[c]]
<1>1. e \in Entry
  BY DEF Write, IInv, CallInv, StagingHasData, Entry
<1>2. /\ log \in Seq(Entry)
      /\ Len(log) \in Nat
  BY DEF IInv, TypeOK, Entry
<1>3. /\ Append(log, e) \in Seq(Entry)
      /\ Len(Append(log, e)) = Len(log) + 1
      /\ \A i \in 1 .. Len(log) : Append(log, e)[i] = log[i]
      /\ Append(log, e)[Len(log) + 1] = e
  BY <1>1, <1>2, WriteExtendsLog
<1>4. log' = log \/ log' = Append(log, e)
  BY DEF Write
<1>5. /\ log' \in Seq(Entry)
      /\ Len(log') \in Nat /\ Len(log') >= Len(log)
      /\ \A i \in 1 .. Len(log) : log'[i] = log[i]
  <2> HIDE DEF e
  <2> QED  BY <1>2, <1>3, <1>4
<1>6. /\ pc[c] = "write"
      /\ UNCHANGED <<index, image, req, got, calls>>
      /\ \/ /\ log' = Append(log, e)
            /\ base' = [base EXCEPT ![c] = Len(Append(log, e))]
            /\ pc' = [pc EXCEPT ![c] = "rpub"]
         \/ base' = base /\ pc' = [pc EXCEPT ![c] = "err"]
  BY DEF Write, Goto
<1>7. TypeOK'
  <2> HIDE DEF e
  <2>1. Len(Append(log, e)) \in Nat
    BY <1>2, <1>3
  <2>2. base' \in [Clients -> Nat] /\ pc' \in [Clients -> Working \cup Done]
    BY <1>6, <2>1 DEF IInv, TypeOK, Working, Done
  <2>3. log' \in Seq([by : Clients, data : Data])
    BY <1>5 DEF Entry
  <2>4. QED  BY <1>6, <2>2, <2>3 DEF IInv, TypeOK
<1>8. (image \in Positions)'
  BY <1>2, <1>5, <1>6 DEF IInv, Positions
<1>9. CallInv(c)'
  <2>1. got'[c] = <<>> /\ req'[c] = req[c] /\ req[c] \in Data
    BY <1>6 DEF IInv, CallInv, NothingReadYet, StagingHasData
  <2>2. CASE pc'[c] = "err"
    <3>1. base'[c] = base[c] /\ base[c] \in 0 .. Len(log)
      BY <1>6, <2>2 DEF IInv, TypeOK, CallInv, Positions
    <3>2. QED
      BY <2>1, <2>2, <3>1, <1>2, <1>5 DEF CallInv, Positions, StagingHasData, NothingReadYet,
         OwnWriteIsBase, ReadIsFresh, AnswerNotEmpty
  <2>3. CASE pc'[c] # "err"
    <3>1. /\ log' = Append(log, e)
          /\ base'[c] = Len(log) + 1
          /\ pc'[c] = "rpub"
      <4> HIDE DEF e
      <4> QED  BY <1>6, <2>3, <1>3 DEF IInv, TypeOK
    <3>2. base'[c] > 0 /\ base'[c] \in 0 .. Len(log') /\ log'[base'[c]] = e
      <4> HIDE DEF e
      <4> QED  BY <3>1, <1>2, <1>3
    <3>3. QED
      BY <2>1, <3>1, <3>2 DEF CallInv, Positions, StagingHasData, NothingReadYet,
         OwnWriteIsBase, ReadIsFresh, AnswerNotEmpty
  <2>4. QED  BY <2>2, <2>3
<1>10. ASSUME NEW o \in Clients, o # c PROVE CallInv(o)'
  <2>1. /\ pc'[o] = pc[o] /\ req'[o] = req[o] /\ base'[o] = base[o] /\ got'[o] = got[o]
        /\ image' = image
    BY <1>6, <1>10 DEF IInv, TypeOK
  <2>2. CallInv(o) /\ base[o] \in Nat /\ got[o] \in Seq(Nat)
    BY <1>10 DEF IInv, TypeOK
  <2>3. /\ base'[o] \in 0 .. Len(log')
        /\ base[o] > 0 => log'[base[o]] = log[base[o]]
    BY <1>2, <1>5, <2>1, <2>2 DEF CallInv, Positions
  <2>4. ReadIsFresh(o)'
    BY <1>2, <1>5, <2>1, <2>2 DEF CallInv, ReadIsFresh
  <2>5. OwnWriteIsBase(o)'
    BY <2>1, <2>2, <2>3 DEF CallInv, OwnWriteIsBase
  <2>6. QED
    BY <2>1, <2>2, <2>3, <2>4, <2>5 DEF CallInv, Positions, StagingHasData, NothingReadYet,
       AnswerNotEmpty
<1>11. QED  BY <1>7, <1>8, <1>9, <1>10 DEF IInv

(***************************************************************************)
(* NV_Read of a chunk.  The first chunk is derived from the last write, so *)
(* it is no older than the call's base; a later one from that or from the  *)
(* image, which never goes back (another caller's first chunk moves it to  *)
(* the end of the log).                                                    *)
(***************************************************************************)
LEMMA ReadChunkInv ==
  ASSUME IInv, NEW c \in Clients, ReadChunk(c)
  PROVE  IInv'
<1>1. TypeOK' /\ (image \in Positions)'
  <2>1. Derived(c) \subseteq Positions /\ Positions \subseteq Nat
    BY DEF Derived, IInv, TypeOK, Positions
  <2>2. got' \in [Clients -> Seq(Nat)] /\ image' \in Positions
    <3>1. CASE UNCHANGED <<image, got>>
      BY <3>1 DEF IInv, TypeOK
    <3>2. ASSUME NEW v \in Derived(c), image' = v, got' = [got EXCEPT ![c] = Append(@, v)]
          PROVE  got' \in [Clients -> Seq(Nat)] /\ image' \in Positions
      <4>1. v \in Nat /\ got[c] \in Seq(Nat)
        BY <2>1 DEF IInv, TypeOK
      <4>2. Append(got[c], v) \in Seq(Nat)
        BY <4>1
      <4>3. QED  BY <2>1, <3>2, <4>2 DEF IInv, TypeOK
    <3>3. QED  BY <3>1, <3>2 DEF ReadChunk
  <2>3. pc' \in [Clients -> Working \cup Done]
    BY DEF ReadChunk, Goto, IInv, TypeOK, Working, Done
  <2>4. QED  BY <2>1, <2>2, <2>3 DEF ReadChunk, IInv, TypeOK, Positions
<1>2. image' >= image /\ image' \in 0 .. Len(log) /\ log' = log
  BY DEF ReadChunk, Derived, Goto, IInv, TypeOK, Positions
<1>3. CallInv(c)'
  <2>1. CASE pc'[c] = "err"
    BY <2>1 DEF ReadChunk, Goto, IInv, TypeOK, CallInv, Positions, StagingHasData,
       NothingReadYet, OwnWriteIsBase, ReadIsFresh, AnswerNotEmpty
  <2>2. CASE pc'[c] # "err"
    <3>1. PICK v \in Derived(c) :
            /\ image' = v
            /\ got' = [got EXCEPT ![c] = Append(@, v)]
            /\ pc' = [pc EXCEPT ![c] = IF Len(got[c]) + 1 = Chunks THEN "ok" ELSE "read"]
      BY <2>2 DEF ReadChunk, Goto, IInv, TypeOK
    <3>2. /\ got[c] \in Seq(Nat) /\ got'[c] = Append(got[c], v)
          /\ pc[c] = "read" /\ pc'[c] \in {"ok", "read"}
          /\ base' = base /\ req' = req /\ log' = log
      BY <3>1 DEF ReadChunk, IInv, TypeOK
    <3>3. v \in base[c] .. Len(log) /\ v \in Nat
      BY <3>2 DEF Derived, IInv, TypeOK, CallInv, ReadIsFresh, Positions
    <3>4. \A k \in 1 .. Len(got'[c]) : got'[c][k] \in base[c] .. Len(log)
      BY <3>2, <3>3 DEF IInv, CallInv, ReadIsFresh
    <3>5. got'[c] # <<>>
      <4>1. got'[c] \in Seq(Nat) /\ Len(got'[c]) = Len(got[c]) + 1 /\ Len(got[c]) \in Nat
        BY <3>2, <3>3
      <4>2. QED  BY <4>1
    <3>6. (base[c] \in Positions)' /\ StagingHasData(c)' /\ NothingReadYet(c)'
      BY <3>2 DEF IInv, CallInv, Positions, StagingHasData, NothingReadYet
    <3>7. OwnWriteIsBase(c)'
      BY <3>2 DEF IInv, CallInv, OwnWriteIsBase
    <3>8. ReadIsFresh(c)'
      BY <3>1, <3>2, <3>3, <3>4 DEF ReadIsFresh
    <3>9. QED
      BY <3>5, <3>6, <3>7, <3>8 DEF CallInv, AnswerNotEmpty
  <2>3. QED  BY <2>1, <2>2
<1>4. ASSUME NEW o \in Clients, o # c PROVE CallInv(o)'
  <2>1. /\ pc'[o] = pc[o] /\ req'[o] = req[o] /\ base'[o] = base[o] /\ got'[o] = got[o]
    BY <1>4 DEF ReadChunk, Goto, IInv, TypeOK
  <2>2. CallInv(o) /\ base[o] \in Nat /\ image \in Nat
    BY <1>4 DEF IInv, TypeOK
  <2>3. QED
    BY <1>2, <2>1, <2>2 DEF CallInv, Positions, StagingHasData, NothingReadYet,
       OwnWriteIsBase, ReadIsFresh, AnswerNotEmpty
<1>5. QED  BY <1>1, <1>3, <1>4 DEF IInv

LEMMA NextInv == IInv /\ [Next]_vars => IInv'
<1>1. SUFFICES ASSUME IInv, [Next]_vars PROVE IInv'
  OBVIOUS
<1>2. ASSUME NEW c \in Clients, Step(c) PROVE IInv'
  BY <1>1, <1>2, LookupInv, WriteInv, ReadChunkInv DEF Step
<1>3. ASSUME NEW c \in Clients, NEW d \in Inputs, Begin(c, d) PROVE IInv'
  BY <1>1, <1>3, BeginInv
<1>4. CASE UNCHANGED vars
  BY <1>1, <1>4 DEF vars, IInv, TypeOK, CallInv, Positions, StagingHasData, NothingReadYet,
     OwnWriteIsBase, ReadIsFresh, AnswerNotEmpty
<1>5. QED  BY <1>1, <1>2, <1>3, <1>4 DEF Next

THEOREM Invariance == Spec => []IInv
  BY InitInv, NextInv, PTL DEF Spec

(***************************************************************************)
(* The variables keep their types: the log holds only entries of clients   *)
(* with values that passed the length check.                               *)
(***************************************************************************)
THEOREM TypeCorrect == Spec => []TypeOK
<1>1. IInv => TypeOK
  BY DEF IInv
<1>2. QED  BY <1>1, Invariance, PTL

(***************************************************************************)
(* For any number of clients and chunks: an Ok answer to a call with user  *)
(* data was staged by that call, and no chunk of it is older.              *)
(***************************************************************************)
THEOREM NeverStale == Spec => []NoStaleUserData
<1>1. IInv => NoStaleUserData
  BY DEF IInv, TypeOK, CallInv, Positions, OwnWriteIsBase, ReadIsFresh, NoStaleUserData,
     Answered
<1>2. QED  BY <1>1, Invariance, PTL

-----------------------------------------------------------------------------
(***************************************************************************)
(* The refinement.  status and carried are what the abstract variables st  *)
(* and seen are mapped to.  A step of client c changes them for c alone,   *)
(* and commands that neither write nor end the call are stutters.          *)
(***************************************************************************)
status == [c \in Clients |-> StatusOf(c)]
carried == [c \in Clients |-> Carried(c)]

\* Nothing is carried before a call's answer, so only the status may change.
LEMMA BeforeAnswer ==
  ASSUME IInv, NEW c \in Clients, NEW l \in Working \cup {"err"},
         pc[c] # "ok", pc' = [pc EXCEPT ![c] = l],
         \A o \in Clients \ {c} : got'[o] = got[o]
  PROVE  /\ carried' = carried
         /\ status' = [status EXCEPT ![c] = IF l \in Working THEN "open" ELSE l]
<1>1. ASSUME NEW o \in Clients PROVE Carried(o)' = Carried(o)
  BY <1>1 DEF Carried, IInv, TypeOK, Working
<1>2. ASSUME NEW o \in Clients \ {c} PROVE StatusOf(o)' = StatusOf(o)
  BY <1>2 DEF StatusOf, IInv, TypeOK
<1>3. StatusOf(c)' = IF l \in Working THEN "open" ELSE l
  BY DEF StatusOf, IInv, TypeOK
<1>4. QED  BY <1>1, <1>2, <1>3 DEF carried, status

LEMMA BeginRefines ==
  ASSUME IInv, NEW c \in Clients, NEW d \in Inputs, Begin(c, d)
  PROVE  Abstract!Begin(c, d)
<1>1. /\ pc[c] \notin Working
      /\ pc' = [pc EXCEPT ![c] = IF d = Oversized THEN "err"
                                 ELSE IF d = NoData THEN "rpub" ELSE "find"]
      /\ got' = [got EXCEPT ![c] = <<>>]
  BY DEF Begin, Goto, Done, Working
<1>2. status' = [status EXCEPT ![c] = IF d = Oversized THEN "err" ELSE "open"]
  <2>1. ASSUME NEW o \in Clients \ {c} PROVE StatusOf(o)' = StatusOf(o)
    BY <1>1, <2>1 DEF StatusOf, IInv, TypeOK
  <2>2. StatusOf(c)' = IF d = Oversized THEN "err" ELSE "open"
    BY <1>1 DEF StatusOf, IInv, TypeOK, Working
  <2>3. QED  BY <2>1, <2>2 DEF status
<1>3. carried' = [carried EXCEPT ![c] = {}]
  <2>1. ASSUME NEW o \in Clients \ {c} PROVE Carried(o)' = Carried(o)
    BY <1>1, <2>1 DEF Carried, IInv, TypeOK
  <2>2. Carried(c)' = {}
    BY <1>1 DEF Carried, IInv, TypeOK
  <2>3. QED  BY <2>1, <2>2 DEF carried
<1>4. status[c] # "open"
  BY <1>1 DEF status, StatusOf, IInv, TypeOK, Working, Done
<1>5. QED  BY <1>2, <1>3, <1>4 DEF Abstract!Begin, Begin, status, carried

LEMMA LookupRefines ==
  ASSUME IInv, NEW c \in Clients, Find(c) \/ Define(c) \/ WritePublic(c) \/ ReadPublic(c)
  PROVE  Abstract!Fail(c) \/ UNCHANGED <<log, status, req, base, carried>>
<1>1. /\ pc[c] \in Working
      /\ UNCHANGED <<log, req, base, got>>
  BY DEF Find, Define, WritePublic, ReadPublic, Working
<1>2. PICK l \in Working \cup {"err"} : pc' = [pc EXCEPT ![c] = l]
  BY DEF Find, Define, WritePublic, ReadPublic, Goto, Working
<1>3. /\ carried' = carried
      /\ status' = [status EXCEPT ![c] = IF l \in Working THEN "open" ELSE l]
  BY <1>1, <1>2, BeforeAnswer DEF Working
<1>4. status[c] = "open" /\ status = [status EXCEPT ![c] = "open"]
  BY <1>1 DEF status, StatusOf
<1>5. QED  BY <1>1, <1>3, <1>4 DEF Abstract!Fail, status, carried, Working

LEMMA WriteRefines ==
  ASSUME IInv, NEW c \in Clients, Write(c)
  PROVE  Abstract!Stage(c) \/ Abstract!StageAndFail(c) \/ Abstract!Fail(c)
<1> DEFINE e == [by |-> c, data |-> req[c]]
<1>1. e \in Entry /\ req[c] \in Data /\ pc[c] \in Working /\ pc[c] # "ok"
  BY DEF Write, IInv, CallInv, StagingHasData, Entry, Working
<1>2. Len(Append(log, e)) = Len(log) + 1
  BY <1>1, WriteExtendsLog DEF IInv, TypeOK, Entry
<1>3. PICK l \in {"rpub", "err"} : pc' = [pc EXCEPT ![c] = l]
  BY DEF Write, Goto
<1>4. /\ carried' = carried
      /\ status' = [status EXCEPT ![c] = IF l \in Working THEN "open" ELSE l]
      /\ status[c] = "open"
  <2>1. l \in Working \cup {"err"} /\ got' = got
    BY <1>3 DEF Write, Working
  <2>2. QED  BY <1>1, <1>3, <2>1, BeforeAnswer DEF status, StatusOf
<1>5. CASE /\ log' = Append(log, e) /\ base' = [base EXCEPT ![c] = Len(Append(log, e))]
           /\ pc' = [pc EXCEPT ![c] = "rpub"]
  <2>1. status' = status
    BY <1>3, <1>4, <1>5 DEF status, StatusOf, Working, IInv, TypeOK
  <2>2. QED
    BY <1>1, <1>2, <1>4, <1>5, <2>1 DEF Write, Abstract!Stage, Abstract!Entry, status, carried
<1>6. CASE pc' = [pc EXCEPT ![c] = "err"] /\ base' = base /\ (log' = log \/ log' = Append(log, e))
  <2>1. status' = [status EXCEPT ![c] = "err"]
    BY <1>3, <1>4, <1>6 DEF Working, IInv, TypeOK
  <2>2. QED
    BY <1>1, <1>4, <1>6, <2>1 DEF Write, Abstract!StageAndFail, Abstract!Fail, Abstract!Entry,
       status, carried
<1>7. QED  BY <1>5, <1>6 DEF Write, Goto

LEMMA NonEmptySubset ==
  ASSUME NEW S, NEW T, S # {}, S \subseteq T
  PROVE  S \in (SUBSET T) \ {{}}
<1>1. S \in SUBSET T /\ S \notin {{}}
  BY Zenon
<1>2. QED  BY <1>1, Zenon

(***************************************************************************)
(* The last chunk is the abstract answer: what was read since the base.    *)
(***************************************************************************)
LEMMA ReadChunkRefines ==
  ASSUME IInv, IInv', NEW c \in Clients, ReadChunk(c)
  PROVE  Abstract!Answer(c) \/ Abstract!Fail(c) \/ UNCHANGED <<log, status, req, base, carried>>
<1>1. /\ pc[c] = "read" /\ log' = log /\ req' = req /\ base' = base
      /\ \A o \in Clients \ {c} : got'[o] = got[o]
      /\ status[c] = "open"
  BY DEF ReadChunk, IInv, TypeOK, status, StatusOf, Working
<1>2. PICK l \in {"ok", "read", "err"} : pc' = [pc EXCEPT ![c] = l]
  BY DEF ReadChunk, Goto
<1>3. CASE l = "ok"
  <2>1. status' = [status EXCEPT ![c] = "ok"]
    <3>1. ASSUME NEW o \in Clients \ {c} PROVE StatusOf(o)' = StatusOf(o)
      BY <1>2, <3>1 DEF StatusOf, IInv, TypeOK
    <3>2. StatusOf(c)' = "ok"
      BY <1>2, <1>3 DEF StatusOf, IInv, TypeOK, Working
    <3>3. QED  BY <3>1, <3>2 DEF status
  <2>2. carried' = [carried EXCEPT ![c] = Carried(c)']
    <3>1. ASSUME NEW o \in Clients \ {c} PROVE Carried(o)' = Carried(o)
      BY <1>1, <1>2, <3>1 DEF Carried, IInv, TypeOK
    <3>2. QED  BY <3>1 DEF carried
  <2>3. Carried(c)' \in (SUBSET (base[c] .. Len(log))) \ {{}}
    <3>1. /\ \A k \in 1 .. Len(got'[c]) : got'[c][k] \in base[c] .. Len(log)
          /\ got'[c] # <<>> /\ got'[c] \in Seq(Nat)
      BY <1>1, <1>2, <1>3 DEF IInv, TypeOK, CallInv, ReadIsFresh, AnswerNotEmpty
    <3>2. Carried(c)' = {got'[c][k] : k \in 1 .. Len(got'[c])}
      BY <1>2, <1>3 DEF Carried, IInv, TypeOK
    <3>3. 1 \in 1 .. Len(got'[c])
      BY <3>1
    <3>4. Carried(c)' # {}
      BY <3>2, <3>3
    <3>5. Carried(c)' \subseteq base[c] .. Len(log)
      BY <3>1, <3>2
    <3>6. QED  BY <3>4, <3>5, NonEmptySubset
  <2>4. req[c] \in Data => base[c] > 0 /\ log[base[c]] = [by |-> c, data |-> req[c]]
    BY <1>1 DEF IInv, CallInv, OwnWriteIsBase
  <2>5. QED
    BY <1>1, <2>1, <2>2, <2>3, <2>4 DEF Abstract!Answer, Abstract!Entry, status, carried
<1>4. CASE l # "ok"
  <2>1. /\ carried' = carried
        /\ status' = [status EXCEPT ![c] = IF l \in Working THEN "open" ELSE l]
    BY <1>1, <1>2, <1>4, BeforeAnswer DEF Working
  <2>2. CASE l = "read"
    BY <1>1, <2>1, <2>2 DEF status, StatusOf, Working
  <2>3. CASE l = "err"
    BY <1>1, <2>1, <2>3 DEF Abstract!Fail, status, carried, Working
  <2>4. QED  BY <1>4, <2>2, <2>3
<1>5. QED  BY <1>3, <1>4

LEMMA StepRefines ==
  IInv /\ IInv' /\ [Next]_vars => [Abstract!Next]_<<log, status, req, base, carried>>
<1> DEFINE mapped == <<log, status, req, base, carried>>
<1>1. SUFFICES ASSUME IInv, IInv', [Next]_vars PROVE [Abstract!Next]_mapped
  OBVIOUS
<1>2. ASSUME NEW c \in Clients, Step(c) PROVE [Abstract!Next]_mapped
  BY <1>1, <1>2, LookupRefines, WriteRefines, ReadChunkRefines DEF Step, Abstract!Next
<1>3. ASSUME NEW c \in Clients, NEW d \in Inputs, Begin(c, d) PROVE [Abstract!Next]_mapped
  BY <1>1, <1>3, BeginRefines DEF Abstract!Next, Inputs
<1>4. CASE UNCHANGED vars
  BY <1>4 DEF vars, status, carried, StatusOf, Carried
<1>5. QED  BY <1>1, <1>2, <1>3, <1>4 DEF Next

(***************************************************************************)
(* The NV commands implement the regular register, whatever the number of  *)
(* clients and the interleaving of their commands.                         *)
(***************************************************************************)
THEOREM Implements == Spec => ImplementsStagedReport
<1>1. Init => Abstract!Init
  BY DEF Init, Abstract!Init, StatusOf, Carried, Working
<1>2. QED
  BY <1>1, StepRefines, Invariance, PTL
  DEF Spec, ImplementsStagedReport, Abstract!Spec, Abstract!avars, status, carried
=============================================================================
