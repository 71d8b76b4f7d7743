------------------------- MODULE PersistentKey_proofs -------------------------
(***************************************************************************)
(* For any number of clients racing to create the persistent keys, with    *)
(* any failures, lost responses and reboots: a call that returned Ok left  *)
(* its key persistent, and every transient object is accounted for.        *)
(***************************************************************************)
EXTENDS PersistentKey, FiniteSetTheorems, TLAPS

Holders == {c \in Clients : pc[c] \in Holding}

\* A call past EvictControl has made its key persistent, and so has an Ok one.
Persisted == \A c \in Clients : pc[c] \in {"flush", "ok"} => Key(c) \in persistent

IInv == TypeOK /\ Persisted /\ HandlesAccounted

-----------------------------------------------------------------------------

LEMMA Counted == IsFiniteSet(Holders) /\ Cardinality(Holders) \in Nat
BY KeyAssumption, FS_Subset, FS_CardinalityType DEF Holders

\* A step of c that takes up, keeps, or gives up a transient object.
LEMMA TakesUp ==
  ASSUME TypeOK, NEW c \in Clients, pc[c] \notin Holding,
         NEW l \in Holding, Goto(c, l)
  PROVE  Cardinality(Holders') = Cardinality(Holders) + 1
<1>1. Holders' = Holders \cup {c} /\ c \notin Holders
  BY DEF TypeOK, Goto, Holders, Holding
<1>2. QED  BY <1>1, Counted, FS_AddElement

LEMMA GivesUp ==
  ASSUME TypeOK, NEW c \in Clients, pc[c] \in Holding,
         NEW l \in (Working \cup Done) \ Holding, Goto(c, l)
  PROVE  Cardinality(Holders') = Cardinality(Holders) - 1
<1>1. Holders' = Holders \ {c} /\ c \in Holders
  BY DEF TypeOK, Goto, Holders, Holding
<1>2. QED  BY <1>1, Counted, FS_RemoveElement

LEMMA Keeps ==
  ASSUME TypeOK, NEW c \in Clients, NEW l \in Working \cup Done, Goto(c, l),
         pc[c] \in Holding <=> l \in Holding
  PROVE  Holders' = Holders
BY DEF TypeOK, Goto, Holders, Holding

\* Who holds an object is counted, so the TPM has one loaded.
LEMMA HasOne ==
  ASSUME IInv, NEW c \in Clients, pc[c] \in Holding
  PROVE  objects > leaked
<1>1. c \in Holders
  BY DEF Holders
<1>2. Cardinality(Holders) > 0
  BY <1>1, Counted, FS_EmptySet
<1>3. objects = leaked + Cardinality(Holders) /\ leaked \in Nat
  BY DEF IInv, TypeOK, HandlesAccounted, Holders
<1>4. QED  BY <1>2, <1>3, Counted

-----------------------------------------------------------------------------

LEMMA InitInv == Init => IInv
<1>1. SUFFICES ASSUME Init PROVE IInv
  OBVIOUS
<1>2. TypeOK
  BY <1>1, KeyAssumption DEF Init, TypeOK, Working, Done, Ops
<1>3. Persisted
  BY <1>1 DEF Init, Persisted
<1>4. {c \in Clients : pc[c] \in Holding} = {}
  BY <1>1 DEF Init, Holding
<1>5. HandlesAccounted
  BY <1>1, <1>4, FS_EmptySet DEF Init, HandlesAccounted
<1>6. QED  BY <1>2, <1>3, <1>5 DEF IInv

LEMMA CallInv ==
  ASSUME IInv, NEW c \in Clients, NEW o \in Ops, Call(c, o)  PROVE IInv'
<1>1. TypeOK'
  BY DEF IInv, TypeOK, Call, Goto, Working
<1>2. Persisted'
  BY DEF IInv, TypeOK, Persisted, Call, Goto, Key
<1>3. Holders' = Holders
  BY Keeps DEF IInv, Call, Holding, Done, Working
<1>4. HandlesAccounted'
  BY <1>3 DEF IInv, HandlesAccounted, Call, Holders
<1>5. QED  BY <1>1, <1>2, <1>4 DEF IInv

\* The steps that neither take up nor give up an object.
LEMMA LookInv ==
  ASSUME IInv, NEW c \in Clients, Probe(c) \/ ReadBack(c) \/ Sign(c)  PROVE IInv'
<1>1. UNCHANGED <<persistent, objects, leaked, op, calls>>
  BY DEF Probe, ReadBack, Sign, bound
<1>2. PICK l \in {"sign", "ok", "err", "create"} :
         Goto(c, l) /\ (l = "ok" => Key(c) \in persistent)
  BY DEF Probe, ReadBack, Sign
<1>3. pc[c] \notin Holding /\ l \notin Holding /\ l \in Working \cup Done
  BY DEF Probe, ReadBack, Sign, Holding, Working, Done
<1>4. TypeOK'
  BY <1>1, <1>2, <1>3 DEF IInv, TypeOK, Goto
<1>5. Persisted'
  BY <1>1, <1>2 DEF IInv, TypeOK, Persisted, Goto, Key
<1>6. Holders' = Holders
  BY <1>2, <1>3, Keeps DEF IInv
<1>7. HandlesAccounted'
  BY <1>1, <1>6 DEF IInv, HandlesAccounted, Holders
<1>8. QED  BY <1>4, <1>5, <1>7 DEF IInv

LEMMA CreateInv ==
  ASSUME IInv, NEW c \in Clients, Create(c)  PROVE IInv'
<1>0. /\ pc[c] \notin Holding /\ UNCHANGED <<persistent, op, calls>>
      /\ TypeOK /\ Persisted /\ objects = leaked + Cardinality(Holders)
  BY DEF Create, Holding, bound, IInv, HandlesAccounted, Holders
<1>1. CASE objects < MaxObjects /\ objects' = objects + 1 /\ Goto(c, "evict") /\ UNCHANGED leaked
  <2>1. TypeOK'
    BY <1>0, <1>1, KeyAssumption DEF TypeOK, Goto, Working
  <2>2. Persisted'
    BY <1>0, <1>1 DEF TypeOK, Persisted, Goto, Key
  <2>3. Cardinality(Holders') = Cardinality(Holders) + 1
    BY <1>0, <1>1, TakesUp DEF Holding
  <2>4. objects' = leaked' + Cardinality(Holders')
    BY <1>0, <1>1, <2>3, Counted DEF TypeOK
  <2>5. QED  BY <2>1, <2>2, <2>4 DEF IInv, HandlesAccounted, Holders
<1>2. CASE Goto(c, "err") /\ \/ UNCHANGED <<objects, leaked>>
                             \/ /\ objects < MaxObjects
                                /\ objects' = objects + 1 /\ leaked' = leaked + 1
  <2>1. TypeOK'
    BY <1>0, <1>2, KeyAssumption DEF TypeOK, Goto, Done
  <2>2. Persisted'
    BY <1>0, <1>2 DEF TypeOK, Persisted, Goto, Key
  <2>3. Holders' = Holders
    BY <1>0, <1>2, Keeps DEF Holding, Done
  <2>4. objects' = leaked' + Cardinality(Holders')
    BY <1>0, <1>2, <2>3, Counted DEF TypeOK
  <2>5. QED  BY <2>1, <2>2, <2>4 DEF IInv, HandlesAccounted, Holders
<1>3. QED  BY <1>1, <1>2 DEF Create

LEMMA EvictInv ==
  ASSUME IInv, NEW c \in Clients, Evict(c)  PROVE IInv'
<1>0. /\ pc[c] \in Holding /\ UNCHANGED <<objects, op, calls>>
      /\ TypeOK /\ Persisted /\ objects = leaked + Cardinality(Holders)
  BY DEF Evict, Holding, bound, IInv, HandlesAccounted, Holders
<1>1. /\ persistent \subseteq persistent' /\ persistent' \subseteq persistent \cup {Key(c)}
      /\ Key(c) \in {"ak", "ecc"}
  BY DEF Evict, Key
<1>2. CASE persistent' = persistent \cup {Key(c)} /\ Goto(c, "flush") /\ UNCHANGED leaked
  <2>1. TypeOK'
    BY <1>0, <1>1, <1>2 DEF TypeOK, Goto, Working
  <2>2. Persisted'
    BY <1>0, <1>2 DEF TypeOK, Persisted, Goto, Key
  <2>3. Holders' = Holders
    BY <1>0, <1>2, Keeps DEF Holding, Working
  <2>4. QED  BY <1>0, <1>2, <2>1, <2>2, <2>3 DEF IInv, HandlesAccounted, Holders
<1>3. CASE Goto(c, "err") /\ leaked' = leaked + 1
  <2>1. TypeOK'
    BY <1>0, <1>1, <1>3 DEF TypeOK, Goto, Done
  <2>2. Persisted'
    BY <1>0, <1>1, <1>3 DEF TypeOK, Persisted, Goto, Key
  <2>3. Cardinality(Holders') = Cardinality(Holders) - 1
    BY <1>0, <1>3, GivesUp DEF Holding, Done
  <2>4. objects' = leaked' + Cardinality(Holders')
    BY <1>0, <1>3, <2>3, Counted DEF TypeOK
  <2>5. QED  BY <2>1, <2>2, <2>4 DEF IInv, HandlesAccounted, Holders
<1>4. QED  BY <1>2, <1>3 DEF Evict

LEMMA FlushInv ==
  ASSUME IInv, NEW c \in Clients, Flush(c)  PROVE IInv'
<1>0. /\ pc[c] = "flush" /\ pc[c] \in Holding /\ UNCHANGED <<persistent, op, calls>>
      /\ TypeOK /\ Persisted /\ objects = leaked + Cardinality(Holders)
  BY DEF Flush, Holding, bound, IInv, HandlesAccounted, Holders
<1>1. PICK l \in {"ok", "readback"} : Goto(c, l)
  BY DEF Flush
<1>2. objects > leaked
  BY <1>0, HasOne
<1>3. \/ objects' = objects - 1 /\ UNCHANGED leaked
      \/ leaked' = leaked + 1 /\ UNCHANGED objects
  BY DEF Flush
<1>4. objects' \in 0 .. MaxObjects /\ leaked' \in Nat
  BY <1>0, <1>2, <1>3, KeyAssumption DEF TypeOK
<1>5. TypeOK'
  BY <1>0, <1>1, <1>4 DEF TypeOK, Goto, Working, Done
<1>6. Persisted'
  BY <1>0, <1>1 DEF TypeOK, Persisted, Goto, Key
<1>7. Cardinality(Holders') = Cardinality(Holders) - 1
  BY <1>0, <1>1, GivesUp DEF Holding, Working, Done
<1>8. objects' = leaked' + Cardinality(Holders')
  BY <1>0, <1>3, <1>7, Counted DEF TypeOK
<1>9. QED  BY <1>5, <1>6, <1>8 DEF IInv, HandlesAccounted, Holders

LEMMA RebootInv == IInv /\ Reboot => IInv'
<1>1. SUFFICES ASSUME IInv, Reboot PROVE IInv'
  OBVIOUS
<1>2. TypeOK'
  BY <1>1, KeyAssumption DEF IInv, TypeOK, Reboot, Done, bound
<1>3. Persisted'
  BY <1>1 DEF Reboot, Persisted
<1>4. {c \in Clients : pc'[c] \in Holding} = {}
  BY <1>1 DEF Reboot, Holding
<1>5. HandlesAccounted'
  BY <1>1, <1>4, FS_EmptySet DEF Reboot, HandlesAccounted
<1>6. QED  BY <1>2, <1>3, <1>5 DEF IInv

LEMMA NextInv == IInv /\ [Next]_vars => IInv'
<1>1. SUFFICES ASSUME IInv, [Next]_vars PROVE IInv'
  OBVIOUS
<1>2. ASSUME NEW c \in Clients, Step(c) PROVE IInv'
  BY <1>1, <1>2, LookInv, CreateInv, EvictInv, FlushInv DEF Step
<1>3. ASSUME NEW c \in Clients, NEW o \in Ops, Call(c, o) PROVE IInv'
  BY <1>1, <1>3, CallInv
<1>4. CASE Reboot
  BY <1>1, <1>4, RebootInv
<1>5. CASE UNCHANGED vars
  BY <1>1, <1>5 DEF vars, bound, IInv, TypeOK, Persisted, HandlesAccounted, Key
<1>6. QED  BY <1>1, <1>2, <1>3, <1>4, <1>5 DEF Next

THEOREM Invariance == Spec => []IInv
<1>1. QED  BY InitInv, NextInv, PTL DEF Spec

(***************************************************************************)
(* An Ok answer means that the key is at its persistent handle, whatever   *)
(* the interleaving, the failures and the reboots (ensure_persistent_ak,   *)
(* create_and_persist_ecc_signing_key, sign_with_ecc_key).                 *)
(***************************************************************************)
THEOREM OkIsPersisted == Spec => []OkMeansPersisted
<1>1. IInv => OkMeansPersisted
  BY DEF IInv, Persisted, OkMeansPersisted
<1>2. QED  BY <1>1, Invariance, PTL

(***************************************************************************)
(* Every transient object belongs to a call between CreatePrimary and      *)
(* FlushContext or was left by a command that failed or lost its response. *)
(***************************************************************************)
THEOREM ObjectsAccounted == Spec => []HandlesAccounted
<1>1. IInv => HandlesAccounted
  BY DEF IInv
<1>2. QED  BY <1>1, Invariance, PTL

-----------------------------------------------------------------------------

Active == {c \in Clients : pc[c] # "idle"}

(***************************************************************************)
(* What the call of a client alone has found and done: it creates a key    *)
(* only when there is none, and fails only for having no key to sign with. *)
(***************************************************************************)
Clean(c) ==
  /\ pc[c] \in {"create", "evict"} => Key(c) \notin persistent
  /\ pc[c] = "readback" => Key(c) \in persistent
  /\ pc[c] \in {"create", "evict", "flush", "readback"} => op[c] # "sign"
  /\ pc[c] \in {"sign", "err"} => op[c] = "sign"

AloneInv == Alone => leaked = 0 /\ \A c \in Clients : Clean(c)

\* Of the clients of a TPM used by one, only the one that moved is not idle.
LEMMA OnlyOneMoves ==
  ASSUME TypeOK, NEW c \in Clients, NEW l \in (Working \cup Done) \ {"idle"}, Goto(c, l),
         faults' = faults, Alone'
  PROVE  /\ Alone /\ pc'[c] = l
         /\ \A d \in Clients \ {c} : pc[d] = "idle" /\ pc'[d] = "idle"
<1>1. IsFiniteSet(Active) /\ IsFiniteSet(Active')
  BY KeyAssumption, FS_Subset DEF Active
<1>2. pc'[c] = l /\ c \in Active' /\ Cardinality(Active') <= 1
  BY DEF TypeOK, Goto, Active, Alone
<1>3. {c} \subseteq Active' /\ Cardinality({c}) = 1 /\ IsFiniteSet({c})
  BY <1>2, FS_Singleton
<1>4. Cardinality(Active') = 1
  BY <1>1, <1>2, <1>3, FS_Subset, FS_CardinalityType
<1>5. Active' = {c}
  BY <1>1, <1>3, <1>4, FS_Subset
<1>6. \A d \in Clients \ {c} : pc'[d] = "idle" /\ pc[d] = "idle"
  BY <1>5 DEF TypeOK, Goto, Active
<1>7. Active \subseteq {c}
  BY <1>6 DEF Active
<1>8. Cardinality(Active) <= 1
  BY <1>3, <1>7, FS_Subset
<1>9. QED  BY <1>2, <1>6, <1>8 DEF Alone, Active

\* Only the client that moved has anything to answer for.
LEMMA OthersClean ==
  ASSUME NEW c \in Clients, \A d \in Clients \ {c} : pc'[d] = "idle", Clean(c)'
  PROVE  \A d \in Clients : Clean(d)'
BY DEF Clean

LEMMA InitAlone == Init => AloneInv
BY DEF Init, AloneInv, Clean

LEMMA CallAlone ==
  ASSUME IInv, AloneInv, NEW c \in Clients, NEW o \in Ops, Call(c, o)
  PROVE  AloneInv'
<1>1. SUFFICES ASSUME Alone' PROVE leaked' = 0 /\ \A d \in Clients : Clean(d)'
  BY DEF AloneInv
<1>2. Goto(c, "probe") /\ faults' = faults /\ leaked' = leaked /\ TypeOK
  BY DEF Call, IInv
<1>3. Alone /\ pc'[c] = "probe" /\ \A d \in Clients \ {c} : pc'[d] = "idle"
  BY <1>1, <1>2, OnlyOneMoves DEF Working, Done
<1>4. Clean(c)'
  BY <1>3 DEF Clean
<1>5. QED  BY <1>2, <1>3, <1>4, OthersClean DEF AloneInv

\* Probe, ReadBack and Sign: without faults the probe tells whether there is a key.
LEMMA LookAlone ==
  ASSUME IInv, AloneInv, NEW c \in Clients, Probe(c) \/ ReadBack(c) \/ Sign(c)
  PROVE  AloneInv'
<1>1. SUFFICES ASSUME Alone' PROVE leaked' = 0 /\ \A d \in Clients : Clean(d)'
  BY DEF AloneInv
<1>2. UNCHANGED <<persistent, leaked, op, faults>> /\ TypeOK /\ pc[c] \in {"probe", "readback", "sign"}
  BY DEF Probe, ReadBack, Sign, bound, IInv
<1>3. PICK l \in {"sign", "ok", "err", "create"} : Goto(c, l)
  BY DEF Probe, ReadBack, Sign
<1>4. Alone /\ pc'[c] = l /\ \A d \in Clients \ {c} : pc'[d] = "idle"
  BY <1>1, <1>2, <1>3, OnlyOneMoves DEF Working, Done
<1>5. ~faults /\ Clean(c) /\ leaked = 0
  BY <1>4 DEF Alone, AloneInv
<1>6. /\ l = "create" => Key(c) \notin persistent /\ op[c] # "sign"
      /\ l \in {"sign", "err"} => op[c] = "sign"
  <2>1. CASE Probe(c)
    BY <1>3, <1>4, <1>5, <2>1 DEF Probe, Goto, IInv, TypeOK
  <2>2. CASE ReadBack(c)
    BY <1>3, <1>4, <1>5, <2>2 DEF ReadBack, Goto, IInv, TypeOK, Clean
  <2>3. CASE Sign(c)
    BY <1>3, <1>4, <1>5, <2>3 DEF Sign, Goto, IInv, TypeOK, Clean
  <2>4. QED  BY <2>1, <2>2, <2>3
<1>7. Clean(c)'
  BY <1>2, <1>4, <1>6 DEF Clean, Key
<1>8. QED  BY <1>2, <1>4, <1>5, <1>7, OthersClean

\* Create: a client alone finds no transient object loaded, so it has a slot.
LEMMA CreateAlone ==
  ASSUME IInv, AloneInv, MaxObjects > 0, NEW c \in Clients, Create(c)
  PROVE  AloneInv'
<1>1. SUFFICES ASSUME Alone' PROVE leaked' = 0 /\ \A d \in Clients : Clean(d)'
  BY DEF AloneInv
<1>2. UNCHANGED <<persistent, op, faults>> /\ TypeOK /\ pc[c] = "create"
  BY DEF Create, bound, IInv
<1>3. PICK l \in {"evict", "err"} : Goto(c, l)
  BY DEF Create
<1>4. Alone /\ pc'[c] = l /\ \A d \in Clients \ {c} : pc[d] = "idle" /\ pc'[d] = "idle"
  BY <1>1, <1>2, <1>3, OnlyOneMoves DEF Working, Done
<1>5. ~faults /\ Clean(c) /\ leaked = 0
  BY <1>4 DEF Alone, AloneInv
<1>6. objects = 0
  <2>1. {d \in Clients : pc[d] \in Holding} = {}
    BY <1>2, <1>4 DEF Holding
  <2>2. QED  BY <1>5, <2>1, FS_EmptySet DEF IInv, HandlesAccounted
<1>7. l = "evict" /\ leaked' = leaked
  BY <1>2, <1>3, <1>4, <1>5, <1>6 DEF Create, Goto, IInv, TypeOK
<1>8. Clean(c)'
  BY <1>2, <1>4, <1>5, <1>7 DEF Clean, Key
<1>9. QED  BY <1>4, <1>5, <1>7, <1>8, OthersClean

\* Evict and Flush: the handle the probe found free is free, and the flush succeeds.
LEMMA PersistAlone ==
  ASSUME IInv, AloneInv, NEW c \in Clients, Evict(c) \/ Flush(c)
  PROVE  AloneInv'
<1>1. SUFFICES ASSUME Alone' PROVE leaked' = 0 /\ \A d \in Clients : Clean(d)'
  BY DEF AloneInv
<1>2. UNCHANGED <<op, faults>> /\ TypeOK /\ pc[c] \in {"evict", "flush"}
  BY DEF Evict, Flush, bound, IInv
<1>3. PICK l \in {"flush", "err", "ok", "readback"} : Goto(c, l)
  BY DEF Evict, Flush
<1>4. Alone /\ pc'[c] = l /\ \A d \in Clients \ {c} : pc[d] = "idle" /\ pc'[d] = "idle"
  BY <1>1, <1>2, <1>3, OnlyOneMoves DEF Working, Done
<1>5. ~faults /\ Clean(c) /\ leaked = 0
  BY <1>4 DEF Alone, AloneInv
<1>6. CASE Evict(c)
  <2>1. l = "flush" /\ leaked' = leaked
    BY <1>2, <1>3, <1>4, <1>5, <1>6 DEF Evict, Goto, TypeOK, Clean
  <2>2. Clean(c)'
    BY <1>2, <1>4, <1>5, <1>6, <2>1 DEF Clean, Evict
  <2>3. QED  BY <1>4, <1>5, <2>1, <2>2, OthersClean
<1>7. CASE Flush(c)
  <2>1. l \in {"ok", "readback"} /\ leaked' = leaked /\ UNCHANGED persistent
    BY <1>3, <1>4, <1>5, <1>7 DEF Flush, Goto, IInv, TypeOK
  <2>2. Key(c) \in persistent
    BY <1>7 DEF Flush, IInv, Persisted
  <2>3. Clean(c)'
    BY <1>2, <1>4, <1>5, <1>7, <2>1, <2>2 DEF Clean, Key, Flush
  <2>4. QED  BY <1>4, <1>5, <2>1, <2>3, OthersClean
<1>8. QED  BY <1>6, <1>7

LEMMA NextAlone == MaxObjects > 0 /\ IInv /\ AloneInv /\ [Next]_vars => AloneInv'
<1>1. SUFFICES ASSUME MaxObjects > 0, IInv, AloneInv, [Next]_vars PROVE AloneInv'
  OBVIOUS
<1>2. ASSUME NEW c \in Clients, Step(c) PROVE AloneInv'
  BY <1>1, <1>2, LookAlone, CreateAlone, PersistAlone DEF Step
<1>3. ASSUME NEW c \in Clients, NEW o \in Ops, Call(c, o) PROVE AloneInv'
  BY <1>1, <1>3, CallAlone
<1>4. CASE Reboot
  BY <1>4 DEF Reboot, AloneInv, Clean
<1>5. CASE UNCHANGED vars
  BY <1>1, <1>5 DEF vars, bound, AloneInv, Alone, Clean, Key
<1>6. QED  BY <1>1, <1>2, <1>3, <1>4, <1>5 DEF Next

(***************************************************************************)
(* A caller alone on a TPM that has a transient slot gets its key and      *)
(* leaves no transient object behind, whatever reboots fall between its    *)
(* commands (CreatedPrimary is flushed or made persistent).                *)
(***************************************************************************)
THEOREM AloneIsClean ==
  ASSUME MaxObjects > 0
  PROVE  Spec => []AloneLeavesNothing
<1>1. IInv /\ AloneInv => AloneLeavesNothing
  <2>1. SUFFICES ASSUME IInv, AloneInv, Alone
                 PROVE  /\ (\A c \in Clients : pc[c] \in Done) => objects = 0
                        /\ \A c \in Clients : pc[c] = "err" => op[c] = "sign"
    BY DEF AloneLeavesNothing
  <2>2. leaked = 0 /\ \A c \in Clients : Clean(c)
    BY <2>1 DEF AloneInv
  <2>3. ASSUME \A c \in Clients : pc[c] \in Done PROVE objects = 0
    <3>1. {c \in Clients : pc[c] \in Holding} = {}
      BY <2>3 DEF Done, Holding
    <3>2. QED  BY <2>1, <2>2, <3>1, FS_EmptySet DEF IInv, HandlesAccounted
  <2>4. QED  BY <2>2, <2>3 DEF Clean
<1>2. IInv /\ AloneInv /\ [Next]_vars => AloneInv'
  BY NextAlone
<1>3. QED  BY <1>1, <1>2, Invariance, InitAlone, PTL DEF Spec
=============================================================================
