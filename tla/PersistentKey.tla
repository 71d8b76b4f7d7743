----------------------------- MODULE PersistentKey -----------------------------
(***************************************************************************)
(* The persistent keys: ensure_persistent_ak ("ak"), create_and_persist_   *)
(* ecc_signing_key ("ecc") and sign_with_ecc_key ("sign"), called by       *)
(* several clients of one TPM.  A call probes the persistent handle; when  *)
(* the probe fails, for whatever reason, it creates a transient primary,   *)
(* makes it persistent with EvictControl and flushes the transient handle. *)
(* Every command is one step and nothing is locked between two.            *)
(*                                                                         *)
(* External, from how the code uses the TPM: a primary is a function of    *)
(* its template, so both racers create the same key; EvictControl fails on *)
(* a handle that is taken; a reboot unloads transient objects only.        *)
(***************************************************************************)
EXTENDS Naturals, FiniteSets

CONSTANTS
  Clients,     \* threads or processes, each with a TPM connection of its own
  MaxObjects,  \* transient object slots of the TPM
  MaxCalls     \* bound on the calls of a behaviour

ASSUME KeyAssumption ==
  /\ MaxObjects \in Nat /\ MaxCalls \in Nat
  /\ IsFiniteSet(Clients)

VARIABLES
  persistent,  \* the keys made persistent
  objects,     \* transient objects loaded
  leaked,      \* those no running call will flush (history)
  pc,          \* the command each client sends next
  op,          \* the operation each client called
  calls,       \* calls started
  faults       \* commands of this behaviour may fail, or lose their response

bound == <<calls, faults>>
vars == <<persistent, objects, leaked, pc, op, bound>>

Ops == {"ak", "ecc", "sign"}
Working == {"probe", "create", "evict", "flush", "readback", "sign"}
Done == {"idle", "ok", "err"}
Holding == {"evict", "flush"}       \* the call has a transient handle

Key(c) == IF op[c] = "ak" THEN "ak" ELSE "ecc"
Goto(c, l) == pc' = [pc EXCEPT ![c] = l]

Init ==
  /\ persistent \in SUBSET {"ak", "ecc"}
  /\ objects = 0 /\ leaked = 0
  /\ pc = [c \in Clients |-> "idle"]
  /\ op = [c \in Clients |-> "ak"]
  /\ calls = 0 /\ faults \in BOOLEAN

Call(c, o) ==
  /\ pc[c] \in Done /\ calls < MaxCalls
  /\ calls' = calls + 1
  /\ op' = [op EXCEPT ![c] = o]
  /\ Goto(c, "probe")
  /\ UNCHANGED <<persistent, objects, leaked, faults>>

\* Faulty variant: the key is created without looking for it.
Probe_Skipped(c) ==
  /\ pc[c] = "probe"
  /\ Goto(c, IF op[c] = "sign" THEN "sign" ELSE "create")
  /\ UNCHANGED <<persistent, objects, leaked, op, bound>>

(***************************************************************************)
(* read_public of the persistent handle.  Any error, not only "no such     *)
(* handle", is taken for absence.                                          *)
(***************************************************************************)
Probe(c) ==
  /\ pc[c] = "probe"
  /\ \/ Key(c) \in persistent /\ Goto(c, IF op[c] = "sign" THEN "sign" ELSE "ok")
     \/ /\ Key(c) \notin persistent \/ faults
        /\ Goto(c, IF op[c] = "sign" THEN "err" ELSE "create")
  /\ UNCHANGED <<persistent, objects, leaked, op, bound>>

\* create_primary / create_primary_ecc.
Create(c) ==
  /\ pc[c] = "create"
  /\ \/ objects < MaxObjects /\ objects' = objects + 1 /\ Goto(c, "evict") /\ UNCHANGED leaked
     \/ (objects = MaxObjects \/ faults) /\ Goto(c, "err") /\ UNCHANGED <<objects, leaked>>
     \/ /\ faults /\ objects < MaxObjects        \* the response is lost
        /\ objects' = objects + 1 /\ leaked' = leaked + 1 /\ Goto(c, "err")
  /\ UNCHANGED <<persistent, op, bound>>

\* Faulty variant: a failed EvictControl is ignored.
Evict_FailureIgnored(c) ==
  /\ pc[c] = "evict"
  /\ \/ Key(c) \notin persistent /\ persistent' = persistent \cup {Key(c)}
     \/ (Key(c) \in persistent \/ faults) /\ UNCHANGED persistent
  /\ Goto(c, "flush")
  /\ UNCHANGED <<objects, leaked, op, bound>>

\* evict_control: an error returns at once and drops the transient handle.
Evict(c) ==
  /\ pc[c] = "evict"
  /\ \/ /\ Key(c) \notin persistent
        /\ persistent' = persistent \cup {Key(c)}
        /\ Goto(c, "flush") /\ UNCHANGED leaked
     \/ /\ Key(c) \in persistent \/ faults
        /\ Goto(c, "err") /\ leaked' = leaked + 1 /\ UNCHANGED persistent
     \/ /\ faults /\ Key(c) \notin persistent    \* the response is lost
        /\ persistent' = persistent \cup {Key(c)}
        /\ Goto(c, "err") /\ leaked' = leaked + 1
  /\ UNCHANGED <<objects, op, bound>>

\* Faulty variant: no flush.
Flush_Skipped(c) ==
  /\ pc[c] = "flush"
  /\ Goto(c, IF op[c] = "ak" THEN "ok" ELSE "readback")
  /\ UNCHANGED <<persistent, objects, leaked, op, bound>>

\* flush_context of the transient handle: a failure is only logged.
Flush(c) ==
  /\ pc[c] = "flush"
  /\ \/ objects' = objects - 1 /\ UNCHANGED leaked
     \/ faults /\ leaked' = leaked + 1 /\ UNCHANGED objects
  /\ Goto(c, IF op[c] = "ak" THEN "ok" ELSE "readback")
  /\ UNCHANGED <<persistent, op, bound>>

\* create_and_persist_ecc_signing_key returns what the persistent handle holds.
ReadBack(c) ==
  /\ pc[c] = "readback"
  /\ \/ Key(c) \in persistent /\ Goto(c, "ok")
     \/ (Key(c) \notin persistent \/ faults) /\ Goto(c, "err")
  /\ UNCHANGED <<persistent, objects, leaked, op, bound>>

\* TPM2_Sign after the probe.
Sign(c) ==
  /\ pc[c] = "sign"
  /\ \/ Key(c) \in persistent /\ Goto(c, "ok")
     \/ (Key(c) \notin persistent \/ faults) /\ Goto(c, "err")
  /\ UNCHANGED <<persistent, objects, leaked, op, bound>>

\* External: the machine restarts between any two commands.
Reboot ==
  /\ \E c \in Clients : pc[c] # "idle"
  /\ objects' = 0 /\ leaked' = 0
  /\ pc' = [c \in Clients |-> "idle"]
  /\ UNCHANGED <<persistent, op, bound>>

Step(c) ==
  Probe(c) \/ Create(c) \/ Evict(c) \/ Flush(c) \/ ReadBack(c) \/ Sign(c)

\* The program ends when its last call has: a stutter, not a deadlock.
Finished == calls = MaxCalls /\ \A c \in Clients : pc[c] \in Done

Next ==
  \/ \E c \in Clients : Step(c) \/ \E o \in Ops : Call(c, o)
  \/ Reboot
  \/ Finished /\ UNCHANGED vars

Spec == Init /\ [][Next]_vars

-----------------------------------------------------------------------------

TypeOK ==
  /\ persistent \subseteq {"ak", "ecc"}
  /\ objects \in 0 .. MaxObjects /\ leaked \in Nat
  /\ pc \in [Clients -> Working \cup Done]
  /\ op \in [Clients -> Ops]
  /\ calls \in Nat

(***************************************************************************)
(* A call that returned Ok leaves its key usable at the persistent handle, *)
(* across the races, the lost responses and the reboots: get_pcr_quote and *)
(* certify_with_key rely on it without looking again.                      *)
(***************************************************************************)
OkMeansPersisted == \A c \in Clients : pc[c] = "ok" => Key(c) \in persistent

(***************************************************************************)
(* The transient objects loaded are those of the calls between CreatePrimary*)
(* and FlushContext and those a failed command left behind: a call that    *)
(* returns Ok leaves one only when its FlushContext failed.                *)
(***************************************************************************)
HandlesAccounted ==
  objects = leaked + Cardinality({c \in Clients : pc[c] \in Holding})

(***************************************************************************)
(* A caller alone, whose commands do not fail, gets its key and leaves no  *)
(* transient object behind (CreatedPrimary: "should be flushed ... or made *)
(* persistent"), also when reboots fell between the commands of its calls. *)
(* Of two callers racing to create a key the loser gets an error and its   *)
(* object stays: see the README.                                           *)
(***************************************************************************)
Alone == ~faults /\ Cardinality({c \in Clients : pc[c] # "idle"}) <= 1

AloneLeavesNothing ==
  Alone =>
    /\ (\A c \in Clients : pc[c] \in Done) => objects = 0
    /\ \A c \in Clients : pc[c] = "err" => op[c] = "sign"
=============================================================================
