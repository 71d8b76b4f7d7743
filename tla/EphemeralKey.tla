----------------------------- MODULE EphemeralKey -----------------------------
(***************************************************************************)
(* The ephemeral key: get_tpm_evidence hands the service a PCR quote, the  *)
(* PCR values and a certified RSA key bound to a PCR policy, flushes the   *)
(* key, and decrypt_token recreates it from the same selection to open     *)
(* the token envelope the service encrypted to it.  Every TPM command is   *)
(* one step; PCRs may be extended between any two of them; any command may *)
(* fail when faults holds, executed (its response is lost, or refused by   *)
(* the parser) or not executed.                                            *)
(*                                                                         *)
(* External, from how the code uses the TPM: a primary key is a function   *)
(* of its template, so of its policy; a trial session takes the digest the *)
(* caller computed, a policy session compares it with the PCRs taken in    *)
(* ascending order, and is void once any PCR has been extended.            *)
(***************************************************************************)
EXTENDS Naturals, Sequences, FiniteSets

CONSTANTS
  Pcrs, Foreign, Selections, PerRead, MaxExtends,   \* as in PcrRead
  MaxSessions,   \* session slots of the TPM
  MaxObjects,    \* transient object slots of the TPM
  MaxCalls       \* bound on the decrypt_token calls of a behaviour

ASSUME KeyAssumption ==
  /\ Pcrs \subseteq Nat /\ Foreign \notin Pcrs
  /\ Selections \subseteq Seq(Pcrs \cup {Foreign})
  /\ PerRead \in Nat \ {0}
  /\ {MaxSessions, MaxObjects, MaxCalls, MaxExtends} \subseteq Nat

VARIABLES
  pcr, clock, held, sel, rem, col, rd,   \* the PCRs and the read in progress
  pc,          \* the command sent next, or how the last call ended
  phase,       \* "attest" or "decrypt": who called get_ephemeral_key
  faults,      \* any command of this behaviour may fail (never changes)
  sessions,    \* sessions loaded in the TPM
  objects,     \* transient objects loaded in the TPM
  session,     \* policy digest of the session in use
  at,          \* the clock when PolicyPCR checked that session
  policy,      \* what PolicyGetDigest returned; then the key's authPolicy
  bad,         \* a command failed while a session was open
  result,      \* how a decrypt call will end once its handles are flushed
  attested,    \* the policy of the key the evidence certifies
  quote,       \* the PCR digest of the evidence's quote
  values,      \* the PCR values of the evidence
  since,       \* the clock when the evidence was started
  token,       \* what decrypt_token was given
  calls,       \* decrypt_token calls so far
  lostSessions, lostKeys, orphans,  \* flushes that failed; keys nobody flushes
  unseenSessions, unseenKeys        \* loaded, but no handle reached the caller

pcrs == <<pcr, clock, held>>
reader == <<sel, rem, col, rd>>
unseen == <<unseenSessions, unseenKeys>>
slots == <<sessions, objects, lostSessions, lostKeys, orphans, unseen>>
evidence == <<attested, quote, values, since>>
call == <<token, calls, result>>
crypto == <<session, at, policy, bad>>
mode == <<phase, faults>>
vars == <<pcrs, reader, pc, mode, slots, crypto, evidence, call>>

R == INSTANCE PcrRead

Indices(s) == R!Indices(s)

\* External: the digest of a policy, nothing for one without PolicyPCR.
NoPolicy == [set |-> {}, digest |-> <<>>]
PcrPolicy(s, d) == [set |-> Indices(s), digest |-> d]

\* External: the TPM concatenates the selected PCRs in ascending order.
Ascending(S) ==
  CHOOSE q \in [1 .. Cardinality(S) -> S] :
    \A j, k \in 1 .. Cardinality(S) : j < k => q[j] < q[k]
TpmDigest(S) ==
  LET q == Ascending(S) IN [k \in 1 .. Cardinality(S) |-> pcr[q[k]]]

\* A selection without repetitions, whose caller order is the TPM's.
Canonical(s) ==
  s # <<>> /\ Len(s) = Cardinality(Indices(s)) /\ s = Ascending(Indices(s))

Rest == {"idle", "failed", "attested", "ok", "none", "err"}
WithSession == {"tread", "digest", "tflush", "pread", "decrypt", "pflush"}
WithKey == {"certify", "drop", "parse", "psess", "pread", "decrypt", "pflush", "kflush"}
Busy == {"values", "trial", "create"} \cup WithSession \cup WithKey

\* decrypt without a session: the selection is empty, a password is used.
SessionHeld == pc \in WithSession /\ (pc = "decrypt" => sel # <<>>)
KeyHeld == pc \in WithKey

ErrorExit == IF phase = "attest" THEN "failed" ELSE "err"

Init ==
  /\ R!BankInit /\ \E s \in Selections : R!ReaderInit(s)
  /\ pc = "idle" /\ phase = "attest" /\ faults \in BOOLEAN
  /\ sessions = 0 /\ objects = 0
  /\ lostSessions = 0 /\ lostKeys = 0 /\ orphans = 0
  /\ unseenSessions = 0 /\ unseenKeys = 0
  /\ session = NoPolicy /\ at = 0 /\ policy = NoPolicy /\ bad = FALSE
  /\ attested = NoPolicy /\ quote = <<>> /\ values = <<>> /\ since = 0
  /\ token = "none" /\ calls = 0 /\ result = "none"

\* External: anyone extends a PCR.
Extend(i) ==
  /\ R!Extend(i)
  /\ UNCHANGED <<reader, pc, mode, slots, crypto, evidence, call>>

\* Faulty variant: the quote covers a selection of its own.
Quote_FixedSelection(s) ==
  /\ pc = "idle"
  /\ since' = clock
  /\ \/ /\ Foreign \notin Indices(s)
        /\ R!StartRead(s)
        /\ quote' = TpmDigest({0})
        /\ pc' = "values"
     \/ /\ Foreign \in Indices(s) \/ faults
        /\ pc' = "failed"
        /\ UNCHANGED <<reader, held, quote>>
  /\ UNCHANGED <<pcr, clock, mode, slots, crypto, attested, values, call>>

(***************************************************************************)
(* get_tpm_evidence up to the key: TPM2_Quote, then the PCR values.        *)
(***************************************************************************)
Quote(s) ==
  /\ pc = "idle"
  /\ since' = clock
  /\ \/ /\ Foreign \notin Indices(s)
        /\ R!StartRead(s)
        /\ quote' = TpmDigest(Indices(s))
        /\ pc' = "values"
     \/ /\ Foreign \in Indices(s) \/ faults
        /\ pc' = "failed"
        /\ UNCHANGED <<reader, held, quote>>
  /\ UNCHANGED <<pcr, clock, mode, slots, crypto, attested, values, call>>

ReadValues ==
  /\ pc = "values" /\ rd # "reading"
  /\ IF rd = "ok" THEN values' = R!Values /\ pc' = "trial"
                  ELSE UNCHANGED values /\ pc' = "failed"
  /\ UNCHANGED <<pcrs, reader, mode, slots, crypto, attested, quote, since, call>>

\* One PCR_Read of whichever read is in progress; it fails only as a fault.
PcrReadStep ==
  /\ pc \in {"values", "tread", "pread"}
  /\ R!ReadSome
  /\ rd' = "err" => faults
  /\ UNCHANGED <<pcrs, pc, mode, slots, crypto, evidence, call>>

\* StartAuthSession was executed and its response lost.
SessionUnseen ==
  /\ faults /\ sessions < MaxSessions
  /\ sessions' = sessions + 1 /\ unseenSessions' = unseenSessions + 1

(***************************************************************************)
(* compute_pcr_policy_digest: a trial session, PolicyPCR with the digest   *)
(* of the values in the caller's order, PolicyGetDigest, and the flush of  *)
(* the session whatever happened.  Of a StartAuthSession whose response is *)
(* lost the caller has no handle: the session stays, unseen.               *)
(***************************************************************************)
OpenTrial ==
  /\ pc = "trial"
  /\ \/ /\ sessions < MaxSessions
        /\ sessions' = sessions + 1 /\ session' = NoPolicy /\ bad' = FALSE
        /\ IF sel = <<>> THEN pc' = "digest" /\ UNCHANGED <<reader, held>>
                         ELSE pc' = "tread" /\ R!StartRead(sel)
        /\ UNCHANGED unseenSessions
     \/ /\ sessions = MaxSessions \/ faults
        /\ pc' = ErrorExit
        /\ UNCHANGED <<reader, held, sessions, unseenSessions, session, bad>>
     \/ SessionUnseen /\ pc' = ErrorExit /\ UNCHANGED <<reader, held, session, bad>>
  /\ UNCHANGED <<pcr, clock, mode, objects, lostSessions, lostKeys, orphans, unseenKeys,
                 at, policy, evidence, call>>

\* Faulty variant: an error of policy_pcr returns before the flush.
TrialPcr_ReturnsEarly ==
  /\ pc = "tread" /\ rd # "reading"
  /\ \/ rd = "ok" /\ session' = PcrPolicy(sel, R!Values) /\ pc' = "digest"
     \/ (rd = "err" \/ faults) /\ pc' = ErrorExit /\ UNCHANGED session
  /\ UNCHANGED <<pcrs, reader, mode, slots, at, policy, bad, evidence, call>>

TrialPcr ==
  /\ pc = "tread" /\ rd # "reading"
  /\ \/ /\ rd = "ok"
        /\ session' = PcrPolicy(sel, R!Values)
        /\ pc' = "digest" /\ UNCHANGED bad
     \/ /\ rd = "err" \/ faults
        /\ pc' = "tflush" /\ bad' = TRUE /\ UNCHANGED session
  /\ UNCHANGED <<pcrs, reader, mode, slots, at, policy, evidence, call>>

GetDigest ==
  /\ pc = "digest"
  /\ \/ policy' = session /\ bad' = FALSE
     \/ faults /\ bad' = TRUE /\ UNCHANGED policy
  /\ pc' = "tflush"
  /\ UNCHANGED <<pcrs, reader, mode, slots, session, at, evidence, call>>

\* flush_context of a session: the result is ignored.
FlushSession ==
  \/ sessions' = sessions - 1 /\ UNCHANGED lostSessions
  \/ faults /\ lostSessions' = lostSessions + 1 /\ UNCHANGED sessions

FlushTrial ==
  /\ pc = "tflush"
  /\ FlushSession
  /\ pc' = IF bad THEN ErrorExit ELSE "create"
  /\ UNCHANGED <<pcrs, reader, mode, objects, lostKeys, orphans, unseen, crypto, evidence, call>>

(***************************************************************************)
(* get_ephemeral_key: CreatePrimary, then Certify with the AK.  When the   *)
(* Certify fails the handle is dropped with the error: nobody flushes it.  *)
(* Of a CreatePrimary whose response is lost there is no handle to flush.  *)
(***************************************************************************)
CreateKey ==
  /\ pc = "create"
  /\ \/ /\ objects < MaxObjects /\ objects' = objects + 1
        /\ pc' = "certify" /\ UNCHANGED unseenKeys
     \/ /\ objects = MaxObjects \/ faults
        /\ pc' = ErrorExit /\ UNCHANGED <<objects, unseenKeys>>
     \/ /\ faults /\ objects < MaxObjects        \* the response is lost
        /\ objects' = objects + 1 /\ unseenKeys' = unseenKeys + 1 /\ pc' = ErrorExit
  /\ UNCHANGED <<pcrs, reader, mode, sessions, lostSessions, lostKeys, orphans,
                 unseenSessions, crypto, evidence, call>>

Certify ==
  /\ pc = "certify"
  /\ \/ pc' = (IF phase = "attest" THEN "drop" ELSE "parse") /\ UNCHANGED orphans
     \/ faults /\ pc' = ErrorExit /\ orphans' = orphans + 1
  /\ UNCHANGED <<pcrs, reader, mode, sessions, objects, lostSessions, lostKeys, unseen,
                 crypto, evidence, call>>

\* flush_context of the key: the result is ignored.
FlushObject ==
  \/ objects' = objects - 1 /\ UNCHANGED lostKeys
  \/ faults /\ lostKeys' = lostKeys + 1 /\ UNCHANGED objects

\* Faulty variant: the evidence keeps the key loaded.
DropKey_Kept ==
  /\ pc = "drop"
  /\ attested' = policy
  /\ pc' = "attested"
  /\ UNCHANGED <<pcrs, reader, mode, slots, crypto, quote, values, since, call>>

\* get_tpm_evidence flushes the key at once: decrypt_token recreates it.
DropKey ==
  /\ pc = "drop"
  /\ FlushObject
  /\ attested' = policy
  /\ pc' = "attested"
  /\ UNCHANGED <<pcrs, reader, mode, sessions, lostSessions, orphans, unseen, crypto,
                 quote, values, since, call>>

\* Faulty variant: the key is recreated from a selection of its own.
DecryptToken_FixedSelection(t) ==
  /\ pc \in Rest \ {"idle", "failed"} /\ calls < MaxCalls
  /\ calls' = calls + 1 /\ token' = t /\ phase' = "decrypt"
  /\ pc' = "trial" /\ sel' = <<0>>
  /\ UNCHANGED <<pcrs, rem, col, rd, faults, slots, crypto, evidence, result>>

(***************************************************************************)
(* decrypt_token, with the selection of the evidence: recreate the key,    *)
(* parse_token, flush the key.                                             *)
(***************************************************************************)
DecryptToken(t) ==
  /\ pc \in Rest \ {"idle", "failed"} /\ calls < MaxCalls
  /\ calls' = calls + 1 /\ token' = t /\ phase' = "decrypt"
  /\ pc' = "trial"
  /\ UNCHANGED <<pcrs, reader, faults, slots, crypto, evidence, result>>

\* parse_token: what is not an envelope is Ok(None); a broken one an error.
ParseToken ==
  /\ pc = "parse"
  /\ \/ /\ token = "envelope"
        /\ pc' = (IF sel = <<>> THEN "decrypt" ELSE "psess")
        /\ UNCHANGED result
     \/ token = "other" /\ pc' = "kflush" /\ result' = "none"
     \/ token = "broken" /\ pc' = "kflush" /\ result' = "err"
  /\ UNCHANGED <<pcrs, reader, mode, slots, crypto, evidence, token, calls>>

OpenPolicy ==
  /\ pc = "psess"
  /\ \/ /\ sessions < MaxSessions
        /\ sessions' = sessions + 1 /\ session' = NoPolicy
        /\ R!StartRead(sel)
        /\ pc' = "pread" /\ UNCHANGED <<result, unseenSessions>>
     \/ /\ sessions = MaxSessions \/ faults
        /\ pc' = "kflush" /\ result' = "err"
        /\ UNCHANGED <<reader, held, sessions, unseenSessions, session>>
     \/ /\ SessionUnseen
        /\ pc' = "kflush" /\ result' = "err"
        /\ UNCHANGED <<reader, held, session>>
  /\ UNCHANGED <<pcr, clock, mode, objects, lostSessions, lostKeys, orphans, unseenKeys,
                 at, policy, bad, evidence, token, calls>>

\* External: a policy session refuses a digest that is not the PCRs' now.
PcrsMatch == IF rd = "ok" THEN R!Values = TpmDigest(Indices(sel)) ELSE FALSE

\* Faulty variant: a refused PolicyPCR reads the PCRs and tries again.
PolicyPcr_Retries ==
  /\ pc = "pread" /\ rd # "reading"
  /\ \/ /\ PcrsMatch
        /\ session' = PcrPolicy(sel, R!Values) /\ at' = clock
        /\ pc' = "decrypt"
        /\ UNCHANGED <<reader, held>>
     \/ /\ ~PcrsMatch \/ faults
        /\ R!StartRead(sel)
        /\ UNCHANGED <<pc, session, at>>
  /\ UNCHANGED <<pcr, clock, mode, slots, policy, bad, evidence, call>>

PolicyPcr ==
  /\ pc = "pread" /\ rd # "reading"
  /\ \/ /\ PcrsMatch
        /\ session' = PcrPolicy(sel, R!Values) /\ at' = clock
        /\ pc' = "decrypt" /\ UNCHANGED result
     \/ /\ ~PcrsMatch \/ faults
        /\ pc' = "pflush" /\ result' = "err" /\ UNCHANGED <<session, at>>
  /\ UNCHANGED <<pcrs, reader, mode, slots, policy, bad, evidence, token, calls>>

\* External: the key's policy is met by the session, and no PCR was extended
\* since.  The key has no userWithAuth, so a password never authorizes it.
Authorized == sel # <<>> /\ session = policy /\ at = clock

\* Faulty variant: the key's authPolicy is left empty.
RsaDecrypt_NoPolicy ==
  /\ pc = "decrypt"
  /\ \/ policy = attested /\ result' = "ok"
     \/ (policy # attested \/ faults) /\ result' = "err"
  /\ pc' = IF sel = <<>> THEN "kflush" ELSE "pflush"
  /\ UNCHANGED <<pcrs, reader, mode, slots, crypto, evidence, token, calls>>

\* RSA_Decrypt and the AES-GCM step: only the attested key opens the envelope.
RsaDecrypt ==
  /\ pc = "decrypt"
  /\ \/ Authorized /\ policy = attested /\ result' = "ok"
     \/ (~Authorized \/ policy # attested \/ faults) /\ result' = "err"
  /\ pc' = IF sel = <<>> THEN "kflush" ELSE "pflush"
  /\ UNCHANGED <<pcrs, reader, mode, slots, crypto, evidence, token, calls>>

FlushPolicy ==
  /\ pc = "pflush"
  /\ FlushSession
  /\ pc' = "kflush"
  /\ UNCHANGED <<pcrs, reader, mode, objects, lostKeys, orphans, unseen, crypto, evidence, call>>

FlushKey ==
  /\ pc = "kflush"
  /\ FlushObject
  /\ pc' = result
  /\ UNCHANGED <<pcrs, reader, mode, sessions, lostSessions, orphans, unseen, crypto,
                 evidence, call>>

Command ==
  \/ ReadValues \/ PcrReadStep
  \/ OpenTrial \/ TrialPcr \/ GetDigest \/ FlushTrial \/ CreateKey \/ Certify \/ DropKey
  \/ ParseToken \/ OpenPolicy \/ PolicyPcr \/ RsaDecrypt \/ FlushPolicy \/ FlushKey

Finished == pc \in Rest \ {"idle"} /\ (pc = "failed" \/ calls = MaxCalls)

Next ==
  \/ Command
  \/ \E s \in Selections : Quote(s)
  \/ \E t \in {"envelope", "other", "broken"} : DecryptToken(t)
  \/ \E i \in Pcrs : Extend(i)
  \/ Finished /\ UNCHANGED vars

Spec == Init /\ [][Next]_vars
FairSpec == Spec /\ WF_vars(Command)   \* the calling thread runs

-----------------------------------------------------------------------------

TypeOK ==
  /\ R!PcrTypeOK
  /\ pc \in Rest \cup Busy /\ phase \in {"attest", "decrypt"}
  /\ sessions \in 0 .. MaxSessions /\ objects \in 0 .. MaxObjects
  /\ {lostSessions, lostKeys, orphans, unseenSessions, unseenKeys, at, since, calls} \subseteq Nat
  /\ bad \in BOOLEAN
  /\ result \in {"ok", "none", "err"}
  /\ token \in {"none", "envelope", "other", "broken"}

(***************************************************************************)
(* Every session whose handle reached compute_pcr_policy_digest or         *)
(* rsa_decrypt is flushed on every path: beside the one in use, the        *)
(* sessions loaded are those whose FlushContext itself failed and those    *)
(* whose StartAuthSession was executed and its response lost, which nobody *)
(* can flush.                                                              *)
(***************************************************************************)
SessionsBalanced ==
  sessions = lostSessions + unseenSessions + IF SessionHeld THEN 1 ELSE 0

(***************************************************************************)
(* Beside the key in use, the client leaves a key loaded only for a        *)
(* FlushContext or a Certify that failed, or a CreatePrimary whose         *)
(* response was lost: every other path flushes it.                         *)
(***************************************************************************)
KeysBalanced ==
  objects = lostKeys + orphans + unseenKeys + IF KeyHeld THEN 1 ELSE 0

(***************************************************************************)
(* The token's plaintext is released only while the PCRs are the ones the  *)
(* attested key's policy was computed over.                                *)
(***************************************************************************)
OpenedUnderAttestedPcrs ==
  [][pc = "decrypt" /\ result' = "ok" /\ pc' # pc =>
       /\ attested.set = Indices(sel)
       /\ attested.digest = TpmDigest(attested.set)]_vars

(***************************************************************************)
(* "Recreated from the same PCRs each time" (client.rs decrypt_token):     *)
(* with no fault, no extend since the evidence was started and an          *)
(* ascending selection, every envelope encrypted to the attested key is    *)
(* opened.  Another selection makes a key that nothing opens: the README   *)
(* says why.                                                               *)
(***************************************************************************)
RoundTrip ==
  pc = "err" /\ token = "envelope" /\ clock = since /\ ~faults => ~Canonical(sel)

(***************************************************************************)
(* Evidence collected while no PCR moved is coherent: the quote, the       *)
(* listed values and the key's policy speak of the same PCR values.        *)
(***************************************************************************)
EvidenceCoherent ==
  pc = "attested" /\ clock = since /\ Canonical(sel) =>
    quote = values /\ attested = PcrPolicy(sel, values)

(* Every call ends, with its handles flushed or their flush tried. *)
CallsReturn == pc \in Busy ~> pc \in Rest
=============================================================================
