-------------------------- MODULE EphemeralKey_proofs --------------------------
(***************************************************************************)
(* Proofs about EphemeralKey for every TPM size, selection and number of   *)
(* extends: the sessions and keys are accounted for, and the plaintext is  *)
(* released only under the attested PCRs.  The argument of the last: a     *)
(* policy session that still authorizes (no extend since PolicyPCR) speaks *)
(* of the PCRs' present values, since an extend advances the clock.        *)
(* Then, as long as no PCR was extended since get_tpm_evidence began: its  *)
(* evidence is of one moment, and the token made for it can be opened.     *)
(***************************************************************************)
EXTENDS EphemeralKey, TLAPS

Counters ==
  /\ lostSessions \in Nat /\ lostKeys \in Nat /\ orphans \in Nat
  /\ unseenSessions \in Nat /\ unseenKeys \in Nat
  /\ clock \in Nat /\ at \in Nat /\ at <= clock

Controls ==
  /\ result \in {"ok", "none", "err"}
  /\ phase \in {"attest", "decrypt"}

\* A policy session no extend has voided was checked against today's PCRs.
SessionFresh ==
  pc = "decrypt" /\ sel # <<>> /\ at = clock =>
    /\ session.set = Indices(sel)
    /\ session.digest = TpmDigest(Indices(sel))

\* A policy session is opened only for a selection.
PolicyNeedsPcrs == pc \in {"psess", "pread"} => sel # <<>>

\* The inductive invariant.
IInv ==
  /\ Counters /\ Controls
  /\ PolicyNeedsPcrs /\ SessionsBalanced /\ KeysBalanced /\ SessionFresh

LEMMA InitInv == Init => IInv
  BY DEF Init, IInv, Counters, Controls, SessionsBalanced, KeysBalanced, SessionFresh,
         PolicyNeedsPcrs, R!BankInit, SessionHeld, KeyHeld, WithSession, WithKey

\* A step that moves no PCR and none of the session's variables keeps it fresh.
LEMMA DigestStable ==
  ASSUME pcr' = pcr, NEW S
  PROVE  TpmDigest(S)' = TpmDigest(S)
  BY DEF TpmDigest

USE DEF IInv, Counters, Controls

LEMMA CountersStep == IInv /\ [Next]_vars => Counters' /\ Controls'
<1> SUFFICES ASSUME IInv, [Next]_vars PROVE Counters' /\ Controls'
  OBVIOUS
<1>1. CASE Command
  BY <1>1 DEF Command, ReadValues, PcrReadStep, OpenTrial, TrialPcr, GetDigest, FlushTrial,
     CreateKey, Certify, DropKey, ParseToken, OpenPolicy, PolicyPcr, RsaDecrypt, FlushPolicy,
     FlushKey, FlushSession, FlushObject, SessionUnseen, pcrs, slots, unseen, mode, crypto, call
<1>2. CASE \E s \in Selections : Quote(s)
  BY <1>2 DEF Quote, slots, unseen, mode, crypto, call
<1>3. CASE \E t \in {"envelope", "other", "broken"} : DecryptToken(t)
  BY <1>3 DEF DecryptToken, pcrs, slots, unseen, mode, crypto
<1>4. CASE \E i \in Pcrs : Extend(i)
  BY <1>4 DEF Extend, R!Extend, slots, unseen, mode, crypto, call
<1>5. CASE UNCHANGED vars
  BY <1>5 DEF vars, pcrs, slots, unseen, mode, crypto, call
<1> QED
  BY <1>1, <1>2, <1>3, <1>4, <1>5 DEF Next

LEMMA PolicyStep == IInv /\ [Next]_vars => PolicyNeedsPcrs'
<1> SUFFICES ASSUME IInv, [Next]_vars, pc' \in {"psess", "pread"} PROVE sel' # <<>>
  BY DEF PolicyNeedsPcrs
<1> USE DEF PolicyNeedsPcrs
<1>1. CASE ParseToken \/ PcrReadStep
  BY <1>1 DEF ParseToken, PcrReadStep, R!ReadSome, reader
<1>2. CASE OpenPolicy
  BY <1>2 DEF OpenPolicy, R!StartRead
<1>3. CASE UNCHANGED vars \/ \E i \in Pcrs : Extend(i)
  BY <1>3 DEF Extend, vars, reader
<1>4. CASE \/ ReadValues \/ OpenTrial \/ TrialPcr \/ GetDigest \/ FlushTrial
           \/ CreateKey \/ Certify \/ DropKey \/ PolicyPcr \/ RsaDecrypt
           \/ FlushPolicy \/ FlushKey
  BY <1>4 DEF ReadValues, OpenTrial, TrialPcr, GetDigest, FlushTrial, CreateKey, Certify,
     DropKey, PolicyPcr, RsaDecrypt, FlushPolicy, FlushKey, ErrorExit
<1>5. CASE \/ \E s \in Selections : Quote(s)
           \/ \E t \in {"envelope", "other", "broken"} : DecryptToken(t)
  BY <1>5 DEF Quote, DecryptToken
<1> QED
  BY <1>1, <1>2, <1>3, <1>4, <1>5 DEF Next, Command

LEMMA SessionsStep == IInv /\ [Next]_vars => SessionsBalanced'
<1> SUFFICES ASSUME IInv, [Next]_vars PROVE SessionsBalanced'
  OBVIOUS
<1> USE DEF SessionsBalanced, SessionHeld, WithSession, PolicyNeedsPcrs, unseen
<1>1. CASE Command
  <2>1. CASE ReadValues \/ PcrReadStep
    BY <2>1 DEF ReadValues, PcrReadStep, R!ReadSome, slots, reader
  <2>2. CASE OpenTrial \/ OpenPolicy
    BY <2>2 DEF OpenTrial, OpenPolicy, SessionUnseen, ErrorExit, R!StartRead, reader
  <2>3. CASE TrialPcr \/ GetDigest \/ PolicyPcr
    BY <2>3 DEF TrialPcr, GetDigest, PolicyPcr, slots, reader
  <2>4. CASE FlushTrial \/ FlushPolicy
    BY <2>4 DEF FlushTrial, FlushPolicy, FlushSession, ErrorExit
  <2>5. CASE CreateKey \/ Certify \/ DropKey
    BY <2>5 DEF CreateKey, Certify, DropKey, FlushObject, ErrorExit
  <2>6. CASE ParseToken
    BY <2>6 DEF ParseToken, slots, reader
  <2>7. CASE RsaDecrypt
    BY <2>7 DEF RsaDecrypt, slots, reader
  <2>8. CASE FlushKey
    BY <2>8 DEF FlushKey, FlushObject
  <2> QED
    BY <1>1, <2>1, <2>2, <2>3, <2>4, <2>5, <2>6, <2>7, <2>8 DEF Command
<1>2. CASE \E s \in Selections : Quote(s)
  BY <1>2 DEF Quote, slots
<1>3. CASE \E t \in {"envelope", "other", "broken"} : DecryptToken(t)
  BY <1>3 DEF DecryptToken, slots, Rest
<1>4. CASE \E i \in Pcrs : Extend(i)
  BY <1>4 DEF Extend, slots, reader
<1>5. CASE UNCHANGED vars
  BY <1>5 DEF vars, slots, reader
<1> QED
  BY <1>1, <1>2, <1>3, <1>4, <1>5 DEF Next

LEMMA KeysStep == IInv /\ [Next]_vars => KeysBalanced'
<1> SUFFICES ASSUME IInv, [Next]_vars PROVE KeysBalanced'
  OBVIOUS
<1> USE DEF KeysBalanced, KeyHeld, WithKey, unseen
<1>1. CASE Command
  <2>1. CASE ReadValues \/ PcrReadStep
    BY <2>1 DEF ReadValues, PcrReadStep, slots
  <2>2. CASE OpenTrial \/ OpenPolicy
    BY <2>2 DEF OpenTrial, OpenPolicy, SessionUnseen, ErrorExit
  <2>3. CASE TrialPcr \/ GetDigest \/ PolicyPcr
    BY <2>3 DEF TrialPcr, GetDigest, PolicyPcr, slots
  <2>4. CASE FlushTrial \/ FlushPolicy
    BY <2>4 DEF FlushTrial, FlushPolicy, FlushSession, ErrorExit
  <2>5. CASE CreateKey
    BY <2>5 DEF CreateKey, ErrorExit
  <2>6. CASE Certify
    BY <2>6 DEF Certify, ErrorExit
  <2>7. CASE DropKey \/ FlushKey
    BY <2>7 DEF DropKey, FlushKey, FlushObject
  <2>8. CASE ParseToken \/ RsaDecrypt
    BY <2>8 DEF ParseToken, RsaDecrypt, slots
  <2> QED
    BY <1>1, <2>1, <2>2, <2>3, <2>4, <2>5, <2>6, <2>7, <2>8 DEF Command
<1>2. CASE \E s \in Selections : Quote(s)
  BY <1>2 DEF Quote, slots
<1>3. CASE \E t \in {"envelope", "other", "broken"} : DecryptToken(t)
  BY <1>3 DEF DecryptToken, slots, Rest
<1>4. CASE \E i \in Pcrs : Extend(i)
  BY <1>4 DEF Extend, slots
<1>5. CASE UNCHANGED vars
  BY <1>5 DEF vars, slots
<1> QED
  BY <1>1, <1>2, <1>3, <1>4, <1>5 DEF Next

LEMMA FreshStep == IInv /\ [Next]_vars => SessionFresh'
<1> SUFFICES ASSUME IInv, [Next]_vars,
                    pc' = "decrypt", sel' # <<>>, at' = clock'
             PROVE  /\ session'.set = Indices(sel')
                    /\ session'.digest = TpmDigest(Indices(sel))'
  BY DEF SessionFresh, Indices, R!Indices
<1>1. CASE PolicyPcr
  <2>1. session' = PcrPolicy(sel, R!Values) /\ R!Values = TpmDigest(Indices(sel))
    BY <1>1 DEF PolicyPcr, PcrsMatch
  <2>2. sel' = sel /\ pcr' = pcr
    BY <1>1 DEF PolicyPcr, pcrs, reader
  <2>3. Indices(sel') = Indices(sel)
    BY <2>2
  <2>4. TpmDigest(Indices(sel))' = TpmDigest(Indices(sel))
    BY <2>2, DigestStable DEF TpmDigest, Indices, R!Indices
  <2> QED
    BY <2>1, <2>3, <2>4 DEF PcrPolicy
<1>2. CASE UNCHANGED vars
  <2>1. UNCHANGED <<pc, sel, at, clock, pcr, session>>
    BY <1>2 DEF vars, pcrs, reader, crypto
  <2>2. TpmDigest(Indices(sel))' = TpmDigest(Indices(sel))
    BY <2>1 DEF TpmDigest, Indices, R!Indices
  <2> QED
    BY <2>1, <2>2 DEF SessionFresh
<1>3. CASE PcrReadStep
  BY <1>3 DEF PcrReadStep
<1>4. CASE \E i \in Pcrs : Extend(i)
  BY <1>4 DEF Extend, R!Extend, crypto
<1>5. CASE ParseToken
  BY <1>5 DEF ParseToken, reader
<1>6. CASE \/ ReadValues \/ OpenTrial \/ TrialPcr \/ GetDigest \/ FlushTrial
           \/ CreateKey \/ Certify \/ DropKey \/ OpenPolicy \/ RsaDecrypt
           \/ FlushPolicy \/ FlushKey
  BY <1>6 DEF ReadValues, OpenTrial, TrialPcr, GetDigest, FlushTrial, CreateKey, Certify,
     DropKey, OpenPolicy, RsaDecrypt, FlushPolicy, FlushKey, ErrorExit
<1>7. CASE \/ \E s \in Selections : Quote(s)
           \/ \E t \in {"envelope", "other", "broken"} : DecryptToken(t)
  BY <1>7 DEF Quote, DecryptToken
<1> QED
  BY <1>1, <1>2, <1>3, <1>4, <1>5, <1>6, <1>7 DEF Next, Command

LEMMA InvStep == IInv /\ [Next]_vars => IInv'
  BY CountersStep, PolicyStep, SessionsStep, KeysStep, FreshStep

(***************************************************************************)
(* The invariant holds in every reachable state.                           *)
(***************************************************************************)
THEOREM Invariance == Spec => []IInv
  BY InitInv, InvStep, PTL DEF Spec

(***************************************************************************)
(* Every session whose handle reached compute_pcr_policy_digest or         *)
(* rsa_decrypt is flushed on every path, whichever command fails, executed *)
(* or not.                                                                 *)
(***************************************************************************)
THEOREM SessionsAccounted == Spec => []SessionsBalanced
<1>1. IInv => SessionsBalanced
  OBVIOUS
<1> QED
  BY <1>1, Invariance, PTL

(***************************************************************************)
(* A key stays loaded only for a FlushContext or a Certify that failed, or *)
(* a CreatePrimary whose response was lost.                                *)
(***************************************************************************)
THEOREM KeysAccounted == Spec => []KeysBalanced
<1>1. IInv => KeysBalanced
  OBVIOUS
<1> QED
  BY <1>1, Invariance, PTL

(***************************************************************************)
(* decrypt_token releases plaintext only while the PCRs have the values    *)
(* the attested key's policy was computed over.                            *)
(***************************************************************************)
THEOREM OpensOnlyUnderAttestedPcrs == Spec => OpenedUnderAttestedPcrs
<1> DEFINE Opened ==
      pc = "decrypt" /\ result' = "ok" /\ pc' # pc =>
        attested.set = Indices(sel) /\ attested.digest = TpmDigest(attested.set)
<1>1. IInv /\ [Next]_vars => [Opened]_vars
  <2> SUFFICES ASSUME IInv, Next, pc = "decrypt", result' = "ok", pc' # pc
               PROVE  attested.set = Indices(sel) /\ attested.digest = TpmDigest(attested.set)
    OBVIOUS
  <2>1. RsaDecrypt
    BY DEF Next, Command, ReadValues, PcrReadStep, OpenTrial, TrialPcr, GetDigest, FlushTrial,
       CreateKey, Certify, DropKey, ParseToken, OpenPolicy, PolicyPcr, FlushPolicy, FlushKey,
       Quote, DecryptToken, Extend, Finished, Rest, vars
  <2>2. Authorized /\ policy = attested
    BY <2>1 DEF RsaDecrypt
  <2> QED
    BY <2>2 DEF Authorized, SessionFresh
<1> QED
  BY <1>1, Invariance, PTL DEF Spec, OpenedUnderAttestedPcrs

-----------------------------------------------------------------------------
(***************************************************************************)
(* Evidence and round trip.  While no PCR was extended since the evidence  *)
(* was started (clock = since) everything read, quoted and put in a policy *)
(* speaks of the PCRs' present values.                                     *)
(***************************************************************************)
HIDE DEF IInv, Counters, Controls

\* The PCRs' present values, in the order of the selection.
Now(s) == [k \in 1 .. Len(s) |-> pcr[s[k]]]
PolicyNow == PcrPolicy(sel, Now(sel))

Attesting == {"idle", "values", "drop", "attested", "failed"}
Decrypting == {"parse", "psess", "pread", "decrypt", "pflush", "kflush", "ok", "none", "err"}

\* Who called get_ephemeral_key is known from the command; a call that got
\* past a command that takes a slot shows that the TPM has one.
Background ==
  /\ since \in Nat /\ since <= clock
  /\ pc \in Attesting => phase = "attest"
  /\ pc \in Decrypting => phase = "decrypt"
  /\ pc = "idle" => rd = "idle"
  /\ pc \notin {"idle", "failed"} => Foreign \notin Indices(sel)
  /\ MaxSessions \in Nat /\ MaxObjects \in Nat
  /\ pc \in {"tread", "digest", "tflush", "create", "certify", "drop", "attested"}
       \/ phase = "decrypt" => MaxSessions > 0
  /\ pc \in {"certify", "drop", "attested"} \/ phase = "decrypt" => MaxObjects > 0
  /\ ~faults => /\ lostSessions = 0 /\ lostKeys = 0 /\ orphans = 0
                /\ unseenSessions = 0 /\ unseenKeys = 0

\* What a read has collected is what the PCRs hold.
ReaderFresh ==
  clock = since /\ rd \in {"reading", "ok"} =>
    /\ \A i \in Indices(sel) : i \in rem \/ (i \in DOMAIN col /\ col[i] = pcr[i])
    /\ rd = "ok" => rem = {}

\* Quote, values, sessions and keys are of the PCRs' present values.
EvidenceFresh ==
  clock = since =>
    /\ pc \notin {"idle", "failed"} => quote = TpmDigest(Indices(sel))
    /\ pc \notin {"idle", "failed", "values"} => values = Now(sel)
    /\ sel # <<>> =>
         /\ pc = "digest" => session = PolicyNow
         /\ (pc = "tflush" /\ ~bad)
              \/ pc \in {"create", "certify", "drop", "parse", "psess", "pread", "decrypt"} =>
            policy = PolicyNow
         /\ pc = "attested" \/ phase = "decrypt" => attested = PolicyNow
         /\ pc = "decrypt" => session = PolicyNow /\ at = clock

\* A call that nothing disturbs takes no error path.
Undisturbed == ~faults /\ clock = since /\ Canonical(sel)

SmoothCall ==
  Undisturbed =>
    /\ pc \in {"tread", "pread"} => rd \in {"reading", "ok"}
    /\ pc = "tflush" => ~bad
    /\ pc \in {"pflush", "kflush"} /\ token = "envelope" => result = "ok"
    /\ pc = "err" => token # "envelope"

RoundInv == Background /\ ReaderFresh /\ EvidenceFresh /\ SmoothCall

Tokens == {"envelope", "other", "broken"}
CallStep == Command \/ \E t \in Tokens : DecryptToken(t)

\* The code's own steps move no PCR and keep the selection, the quote and the mode.
LEMMA CallKeeps ==
  ASSUME CallStep
  PROVE  UNCHANGED <<pcr, clock, since, sel, faults, quote>>
<1>1. CASE ReadValues \/ PcrReadStep
  BY <1>1 DEF ReadValues, PcrReadStep, R!ReadSome, pcrs, reader, mode, evidence
<1>2. CASE OpenTrial \/ OpenPolicy
  BY <1>2 DEF OpenTrial, OpenPolicy, R!StartRead, reader, mode, evidence
<1>3. CASE TrialPcr \/ GetDigest \/ FlushTrial \/ CreateKey \/ Certify
  BY <1>3 DEF TrialPcr, GetDigest, FlushTrial, CreateKey, Certify, pcrs, reader, mode, evidence
<1>4. CASE DropKey \/ ParseToken \/ PolicyPcr \/ RsaDecrypt \/ FlushPolicy \/ FlushKey
  BY <1>4 DEF DropKey, ParseToken, PolicyPcr, RsaDecrypt, FlushPolicy, FlushKey,
              pcrs, reader, mode, evidence
<1>5. CASE \E t \in Tokens : DecryptToken(t)
  BY <1>5 DEF DecryptToken, pcrs, reader, evidence
<1> QED  BY <1>1, <1>2, <1>3, <1>4, <1>5 DEF CallStep, Command

\* Same PCRs and selection: same digests.
LEMMA SameDigests ==
  ASSUME pcr' = pcr, sel' = sel
  PROVE  /\ Indices(sel)' = Indices(sel) /\ Now(sel)' = Now(sel)
         /\ TpmDigest(Indices(sel))' = TpmDigest(Indices(sel))
         /\ PolicyNow' = PolicyNow /\ Canonical(sel)' = Canonical(sel)
<1>1. Indices(sel)' = Indices(sel)
  BY DEF Indices, R!Indices
<1>2. Now(sel)' = Now(sel)
  BY DEF Now
<1>3. TpmDigest(Indices(sel))' = TpmDigest(Indices(sel))
  BY <1>1 DEF TpmDigest
<1>4. PolicyNow' = PolicyNow
  BY <1>1, <1>2 DEF PolicyNow, PcrPolicy
<1>5. Canonical(sel)' = Canonical(sel)
  BY <1>1 DEF Canonical
<1> QED  BY <1>1, <1>2, <1>3, <1>4, <1>5

\* A finished read of PCRs nobody extended returns their present values.
LEMMA ValuesAreNow ==
  ASSUME ReaderFresh, clock = since, rd = "ok"
  PROVE  R!Values = Now(sel)
<1>1. \A k \in 1 .. Len(sel) : sel[k] \in Indices(sel)
  BY DEF Indices, R!Indices
<1>2. \A i \in Indices(sel) : col[i] = pcr[i]
  BY DEF ReaderFresh
<1> QED  BY <1>1, <1>2 DEF R!Values, Now

\* In the TPM's order, what the TPM digests is what the client lists.
LEMMA CanonicalDigest ==
  ASSUME Canonical(sel)
  PROVE  TpmDigest(Indices(sel)) = Now(sel)
BY DEF Canonical, TpmDigest, Now

LEMMA StartIsFresh ==
  ASSUME NEW s, R!StartRead(s)
  PROVE  sel' = s /\ ReaderFresh' /\ (Foreign \notin Indices(s) => rd' \in {"reading", "ok"})
<1>1. Indices(sel)' = Indices(s) /\ sel' = s
  BY DEF R!StartRead, Indices, R!Indices
<1>2. CASE Foreign \in Indices(s)
  BY <1>1, <1>2 DEF R!StartRead, Indices, ReaderFresh
<1>3. CASE Foreign \notin Indices(s)
  <2>1. rem' = Indices(s) /\ rd' = IF s = <<>> THEN "ok" ELSE "reading"
    BY <1>3 DEF R!StartRead, Indices
  <2>2. s = <<>> => Indices(s) = {}
    BY DEF Indices, R!Indices
  <2> QED  BY <1>1, <2>1, <2>2 DEF ReaderFresh
<1> QED  BY <1>1, <1>2, <1>3

\* An extend ends the time of the evidence.
LEMMA ExtendEnds ==
  ASSUME IInv, Background, NEW i \in Pcrs, Extend(i)
  PROVE  clock' # since' /\ since' \in Nat /\ since' <= clock'
BY DEF IInv, Counters, Background, Extend, R!Extend, evidence

-----------------------------------------------------------------------------

LEMMA InitRound == Init => RoundInv
<1> SUFFICES ASSUME Init PROVE RoundInv
  OBVIOUS
<1>1. /\ since = 0 /\ clock = 1 /\ rd = "idle" /\ pc = "idle" /\ phase = "attest"
      /\ lostSessions = 0 /\ lostKeys = 0 /\ orphans = 0
      /\ unseenSessions = 0 /\ unseenKeys = 0
  BY DEF Init, R!BankInit, R!ReaderInit
<1>2. Background
  BY <1>1, KeyAssumption DEF Background, Attesting, Decrypting
<1> QED
  BY <1>1, <1>2 DEF RoundInv, ReaderFresh, EvidenceFresh, SmoothCall, Undisturbed

LEMMA BackgroundStep == IInv /\ Background /\ [Next]_vars => Background'
<1> SUFFICES ASSUME IInv, Background, [Next]_vars PROVE Background'
  OBVIOUS
<1> USE DEF Background, Attesting, Decrypting, unseen
<1>0. /\ phase \in {"attest", "decrypt"} /\ result \in {"ok", "none", "err"}
      /\ clock \in Nat
      /\ sessions = lostSessions + unseenSessions + IF SessionHeld THEN 1 ELSE 0
      /\ objects = lostKeys + orphans + unseenKeys + IF KeyHeld THEN 1 ELSE 0
      /\ lostSessions \in Nat /\ lostKeys \in Nat /\ orphans \in Nat
      /\ unseenSessions \in Nat /\ unseenKeys \in Nat
  BY DEF IInv, Counters, Controls, SessionsBalanced, KeysBalanced
<1>1. CASE CallStep
  <2>0. UNCHANGED <<pcr, clock, since, sel, faults, quote>> /\ Indices(sel)' = Indices(sel)
    BY <1>1, CallKeeps, SameDigests
  <2>1. CASE ReadValues
    BY <2>0, <2>1 DEF ReadValues, mode, slots
  <2>2. CASE PcrReadStep
    BY <2>0, <2>2 DEF PcrReadStep, mode, slots
  <2>3. CASE OpenTrial
    BY <1>0, <2>0, <2>3 DEF OpenTrial, SessionUnseen, mode, ErrorExit, SessionHeld, WithSession
  <2>4. CASE TrialPcr \/ GetDigest
    BY <2>0, <2>4 DEF TrialPcr, GetDigest, mode, slots
  <2>5. CASE FlushTrial
    BY <1>0, <2>0, <2>5 DEF FlushTrial, FlushSession, mode, ErrorExit
  <2>6. CASE CreateKey
    BY <1>0, <2>0, <2>6 DEF CreateKey, mode, ErrorExit, KeyHeld, WithKey
  <2>7. CASE Certify
    BY <1>0, <2>0, <2>7 DEF Certify, mode, ErrorExit
  <2>8. CASE DropKey
    BY <2>0, <2>8 DEF DropKey, FlushObject, mode
  <2>9. CASE ParseToken \/ PolicyPcr \/ RsaDecrypt
    BY <2>0, <2>9 DEF ParseToken, PolicyPcr, RsaDecrypt, mode, slots
  <2>10. CASE OpenPolicy
    BY <2>0, <2>10 DEF OpenPolicy, SessionUnseen, mode
  <2>11. CASE FlushPolicy
    BY <2>0, <2>11 DEF FlushPolicy, FlushSession, mode
  <2>12. CASE FlushKey
    BY <1>0, <2>0, <2>12 DEF FlushKey, FlushObject, mode
  <2>13. CASE \E t \in Tokens : DecryptToken(t)
    BY <2>0, <2>13 DEF DecryptToken, slots, Rest
  <2> QED  BY <1>1, <2>1, <2>2, <2>3, <2>4, <2>5, <2>6, <2>7, <2>8, <2>9, <2>10, <2>11,
              <2>12, <2>13 DEF CallStep, Command
<1>2. CASE \E s \in Selections : Quote(s)
  <2>1. PICK s \in Selections : Quote(s)
    BY <1>2
  <2>2. sel' = s => Indices(sel)' = Indices(s)
    BY DEF Indices, R!Indices
  <2> QED  BY <1>0, <2>1, <2>2 DEF Quote, R!StartRead, mode, slots
<1>3. CASE \E i \in Pcrs : Extend(i)
  <2>1. PICK i \in Pcrs : Extend(i)
    BY <1>3
  <2>2. UNCHANGED <<sel, rd, pc, phase, faults, lostSessions, lostKeys, orphans, unseen>>
    BY <2>1 DEF Extend, reader, mode, slots
  <2>3. Indices(sel)' = Indices(sel)
    BY <2>2 DEF Indices, R!Indices
  <2>4. since' \in Nat /\ since' <= clock'
    BY <2>1, ExtendEnds
  <2> QED  BY <2>2, <2>3, <2>4
<1>4. CASE UNCHANGED vars
  BY <1>4, SameDigests DEF vars, pcrs, reader, mode, slots, evidence
<1> QED  BY <1>1, <1>2, <1>3, <1>4 DEF Next, CallStep, Tokens

LEMMA ReaderStep == IInv /\ Background /\ ReaderFresh /\ [Next]_vars => ReaderFresh'
<1> SUFFICES ASSUME IInv, Background, ReaderFresh, [Next]_vars PROVE ReaderFresh'
  OBVIOUS
<1>1. CASE CallStep
  <2>0. UNCHANGED <<pcr, clock, since, sel>> /\ Indices(sel)' = Indices(sel)
    BY <1>1, CallKeeps, SameDigests
  <2>1. CASE UNCHANGED reader
    BY <2>0, <2>1 DEF ReaderFresh, reader
  <2>2. CASE R!StartRead(sel)
    BY <2>2, StartIsFresh
  <2>3. CASE R!ReadSome
    <3>1. CASE rd' = "err"
      BY <3>1 DEF ReaderFresh
    <3>2. ASSUME NEW S \in SUBSET rem, clock = since, rd = "reading",
                 col' = [i \in DOMAIN col \cup S |-> IF i \in S THEN pcr[i] ELSE col[i]],
                 rem' = rem \ S, rd' = IF rem' = {} THEN "ok" ELSE "reading"
          PROVE  ReaderFresh'
      <4>1. \A i \in Indices(sel) : i \in rem' \/ (i \in DOMAIN col' /\ col'[i] = pcr[i])
        BY <3>2 DEF ReaderFresh
      <4> QED  BY <2>0, <3>2, <4>1 DEF ReaderFresh
    <3>3. CASE clock # since
      BY <2>0, <3>3 DEF ReaderFresh
    <3> QED  BY <2>3, <3>1, <3>2, <3>3 DEF R!ReadSome
  <2> QED  BY <1>1, <2>1, <2>2, <2>3 DEF CallStep, Command, ReadValues, PcrReadStep, OpenTrial,
              TrialPcr, GetDigest, FlushTrial, CreateKey, Certify, DropKey, ParseToken, OpenPolicy,
              PolicyPcr, RsaDecrypt, FlushPolicy, FlushKey, DecryptToken, reader
<1>2. CASE \E s \in Selections : Quote(s)
  <2>1. PICK s \in Selections : Quote(s)
    BY <1>2
  <2>2. CASE R!StartRead(s)
    BY <2>2, StartIsFresh
  <2>3. CASE UNCHANGED reader
    BY <2>1, <2>3 DEF Quote, reader, Background, ReaderFresh
  <2> QED  BY <2>1, <2>2, <2>3 DEF Quote
<1>3. CASE \E i \in Pcrs : Extend(i)
  BY <1>3, ExtendEnds DEF ReaderFresh
<1>4. CASE UNCHANGED vars
  BY <1>4, SameDigests DEF vars, pcrs, reader, evidence, ReaderFresh
<1> QED  BY <1>1, <1>2, <1>3, <1>4 DEF Next, CallStep, Tokens

LEMMA EvidenceStep == IInv /\ RoundInv /\ [Next]_vars => EvidenceFresh'
<1> SUFFICES ASSUME IInv, RoundInv, [Next]_vars, clock' = since' PROVE EvidenceFresh'
  BY DEF EvidenceFresh
<1> USE DEF EvidenceFresh
<1>1. CASE CallStep
  <2>0. /\ UNCHANGED <<pcr, clock, since, sel, faults, quote>> /\ clock = since
        /\ Background /\ ReaderFresh /\ EvidenceFresh
        /\ Indices(sel)' = Indices(sel) /\ Now(sel)' = Now(sel)
        /\ TpmDigest(Indices(sel))' = TpmDigest(Indices(sel)) /\ PolicyNow' = PolicyNow
        /\ phase \in {"attest", "decrypt"}
    BY <1>1, CallKeeps, SameDigests DEF RoundInv, IInv, Controls
  <2>1. CASE ReadValues
    <3>1. rd = "ok" => R!Values = Now(sel)
      BY <2>0, ValuesAreNow
    <3> QED  BY <2>0, <2>1, <3>1 DEF ReadValues, mode, crypto, evidence, Background, Attesting
  <2>2. CASE PcrReadStep
    BY <2>0, <2>2 DEF PcrReadStep, mode, crypto, evidence
  <2>3. CASE OpenTrial
    BY <2>0, <2>3 DEF OpenTrial, mode, evidence, ErrorExit
  <2>4. CASE TrialPcr
    <3>1. rd = "ok" => PcrPolicy(sel, R!Values) = PolicyNow
      BY <2>0, ValuesAreNow DEF PolicyNow
    <3> QED  BY <2>0, <2>4, <3>1 DEF TrialPcr, mode, evidence
  <2>5. CASE GetDigest
    BY <2>0, <2>5 DEF GetDigest, mode, evidence
  <2>6. CASE FlushTrial
    BY <2>0, <2>6 DEF FlushTrial, mode, crypto, evidence, ErrorExit
  <2>7. CASE CreateKey \/ Certify
    BY <2>0, <2>7 DEF CreateKey, Certify, mode, crypto, evidence, ErrorExit
  <2>8. CASE DropKey
    BY <2>0, <2>8 DEF DropKey, mode, crypto, Background, Attesting
  <2>9. CASE ParseToken
    BY <2>0, <2>9 DEF ParseToken, mode, crypto, evidence
  <2>10. CASE OpenPolicy
    BY <2>0, <2>10 DEF OpenPolicy, mode, evidence
  <2>11. CASE PolicyPcr
    <3>1. rd = "ok" => PcrPolicy(sel, R!Values) = PolicyNow
      BY <2>0, ValuesAreNow DEF PolicyNow
    <3> QED  BY <2>0, <2>11, <3>1 DEF PolicyPcr, PcrsMatch, mode, evidence
  <2>12. CASE RsaDecrypt
    BY <2>0, <2>12 DEF RsaDecrypt, mode, crypto, evidence
  <2>13. CASE FlushPolicy
    BY <2>0, <2>13 DEF FlushPolicy, mode, crypto, evidence
  <2>14. CASE FlushKey
    <3>1. pc' \in {"ok", "none", "err"}
      BY <2>14 DEF FlushKey, IInv, Controls
    <3> QED  BY <2>0, <2>14, <3>1 DEF FlushKey, mode, crypto, evidence
  <2>15. CASE \E t \in Tokens : DecryptToken(t)
    <3>1. pc = "attested" \/ phase = "decrypt"
      BY <2>0, <2>15 DEF DecryptToken, Rest, Background, Decrypting
    <3>2. pc \notin {"idle", "failed", "values"}
      BY <2>15 DEF DecryptToken, Rest
    <3> QED  BY <2>0, <2>15, <3>1, <3>2 DEF DecryptToken, crypto, evidence
  <2> QED  BY <1>1, <2>1, <2>2, <2>3, <2>4, <2>5, <2>6, <2>7, <2>8, <2>9, <2>10, <2>11,
              <2>12, <2>13, <2>14, <2>15 DEF CallStep, Command
<1>2. CASE \E s \in Selections : Quote(s)
  <2>1. PICK s \in Selections : Quote(s)
    BY <1>2
  <2>2. pcr' = pcr /\ phase' = "attest" /\ pc' \in {"values", "failed"}
    BY <2>1 DEF Quote, mode, RoundInv, Background, Attesting
  <2>3. CASE pc' = "values"
    <3>1. sel' = s /\ quote' = TpmDigest(Indices(s))
      BY <2>1, <2>3 DEF Quote, R!StartRead
    <3>2. TpmDigest(Indices(sel))' = TpmDigest(Indices(s))
      BY <2>2, <3>1 DEF TpmDigest, Indices, R!Indices
    <3> QED  BY <2>2, <2>3, <3>1, <3>2
  <2> QED  BY <2>2, <2>3
<1>3. CASE \E i \in Pcrs : Extend(i)
  BY <1>3, ExtendEnds DEF RoundInv
<1>4. CASE UNCHANGED vars
  <2>1. /\ UNCHANGED <<pcr, clock, since, sel, quote, values, pc, phase, bad, session, policy, at, attested>>
        /\ EvidenceFresh
    BY <1>4 DEF vars, pcrs, reader, mode, crypto, evidence, RoundInv
  <2> QED  BY <2>1, SameDigests
<1> QED  BY <1>1, <1>2, <1>3, <1>4 DEF Next, CallStep, Tokens

LEMMA SmoothStep == IInv /\ RoundInv /\ [Next]_vars => SmoothCall'
<1> SUFFICES ASSUME IInv, RoundInv, [Next]_vars, Undisturbed' PROVE SmoothCall'
  BY DEF SmoothCall
<1> USE DEF SmoothCall
<1>1. CASE CallStep
  <2>0. /\ UNCHANGED <<pcr, clock, since, sel, faults, quote>>
        /\ ~faults /\ clock = since /\ Canonical(sel) /\ sel # <<>>
        /\ Background /\ ReaderFresh /\ EvidenceFresh /\ SmoothCall /\ Undisturbed
    BY <1>1, CallKeeps, SameDigests DEF RoundInv, Undisturbed, Canonical
  <2>a. sessions = (IF SessionHeld THEN 1 ELSE 0) /\ objects = (IF KeyHeld THEN 1 ELSE 0)
    BY <2>0 DEF IInv, SessionsBalanced, KeysBalanced, Background
  <2>1. CASE ReadValues
    BY <2>0, <2>1 DEF ReadValues
  <2>2. CASE PcrReadStep
    BY <2>0, <2>2 DEF PcrReadStep, R!ReadSome
  <2>3. CASE OpenTrial
    <3>1. sessions = 0
      BY <2>a, <2>3 DEF OpenTrial, SessionHeld, WithSession
    <3>2. CASE phase = "decrypt"
      <4>1. sessions # MaxSessions
        BY <2>0, <3>1, <3>2 DEF Background
      <4>2. R!StartRead(sel) /\ pc' = "tread"
        BY <2>0, <2>3, <4>1 DEF OpenTrial, SessionUnseen
      <4>3. rd' \in {"reading", "ok"}
        BY <2>0, <2>3, <4>2, StartIsFresh DEF OpenTrial, Background
      <4> QED  BY <4>2, <4>3
    <3>3. CASE phase # "decrypt"
      <4>1. phase = "attest"
        BY <3>3 DEF IInv, Controls
      <4>2. pc' = "tread" => R!StartRead(sel)
        BY <2>0, <2>3, <4>1 DEF OpenTrial, SessionUnseen, ErrorExit
      <4>3. pc' = "tread" => rd' \in {"reading", "ok"}
        BY <2>0, <2>3, <4>2, StartIsFresh DEF OpenTrial, Background
      <4>4. pc' \in {"tread", "failed"}
        BY <2>0, <2>3, <4>1 DEF OpenTrial, SessionUnseen, ErrorExit
      <4> QED  BY <4>3, <4>4
    <3> QED  BY <3>2, <3>3
  <2>4. CASE TrialPcr
    BY <2>0, <2>4 DEF TrialPcr
  <2>5. CASE GetDigest
    BY <2>0, <2>5 DEF GetDigest
  <2>6. CASE FlushTrial
    BY <2>0, <2>6 DEF FlushTrial
  <2>7. CASE CreateKey
    <3>1. objects = 0
      BY <2>a, <2>7 DEF CreateKey, KeyHeld, WithKey
    <3>2. phase = "decrypt" => objects # MaxObjects
      BY <2>0, <3>1 DEF Background
    <3>3. pc' \in {"certify", "failed"}
      BY <2>0, <2>7, <3>2 DEF CreateKey, ErrorExit, IInv, Controls
    <3> QED  BY <3>3
  <2>8. CASE Certify
    BY <2>0, <2>8 DEF Certify
  <2>9. CASE DropKey
    BY <2>9 DEF DropKey
  <2>10. CASE ParseToken
    BY <2>0, <2>10 DEF ParseToken
  <2>11. CASE OpenPolicy
    <3>1. sessions = 0
      BY <2>a, <2>11 DEF OpenPolicy, SessionHeld, WithSession
    <3>2. sessions # MaxSessions
      BY <2>0, <2>11, <3>1 DEF OpenPolicy, Background, Decrypting
    <3>3. R!StartRead(sel) /\ pc' = "pread"
      BY <2>0, <2>11, <3>2 DEF OpenPolicy, SessionUnseen
    <3>4. rd' \in {"reading", "ok"}
      BY <2>0, <2>11, <3>3, StartIsFresh DEF OpenPolicy, Background
    <3> QED  BY <3>3, <3>4
  <2>12. CASE PolicyPcr
    <3>2. rd = "ok"
      BY <2>0, <2>12 DEF PolicyPcr
    <3>3. R!Values = TpmDigest(Indices(sel))
      BY <2>0, <3>2, ValuesAreNow, CanonicalDigest
    <3> QED  BY <2>0, <2>12, <3>2, <3>3 DEF PolicyPcr, PcrsMatch
  <2>13. CASE RsaDecrypt
    <3>1. Authorized /\ policy = attested
      BY <2>0, <2>13 DEF RsaDecrypt, Authorized, EvidenceFresh, Background, Decrypting
    <3> QED  BY <2>0, <2>13, <3>1 DEF RsaDecrypt
  <2>14. CASE FlushPolicy
    BY <2>0, <2>14 DEF FlushPolicy, call
  <2>15. CASE FlushKey
    <3>1. result \in {"ok", "none", "err"}
      BY DEF IInv, Controls
    <3> QED  BY <2>0, <2>15, <3>1 DEF FlushKey, call
  <2>16. CASE \E t \in Tokens : DecryptToken(t)
    BY <2>16 DEF DecryptToken
  <2> QED  BY <1>1, <2>1, <2>2, <2>3, <2>4, <2>5, <2>6, <2>7, <2>8, <2>9, <2>10, <2>11,
              <2>12, <2>13, <2>14, <2>15, <2>16 DEF CallStep, Command
<1>2. CASE \E s \in Selections : Quote(s)
  BY <1>2 DEF Quote
<1>3. CASE \E i \in Pcrs : Extend(i)
  BY <1>3, ExtendEnds DEF RoundInv, Undisturbed
<1>4. CASE UNCHANGED vars
  <2>1. UNCHANGED <<pcr, clock, since, sel, rd, faults, pc, bad, token, result>> /\ SmoothCall
    BY <1>4 DEF vars, pcrs, reader, mode, crypto, evidence, call, RoundInv
  <2> QED  BY <2>1, SameDigests DEF Undisturbed
<1> QED  BY <1>1, <1>2, <1>3, <1>4 DEF Next, CallStep, Tokens

LEMMA RoundStep == IInv /\ RoundInv /\ [Next]_vars => RoundInv'
BY BackgroundStep, ReaderStep, EvidenceStep, SmoothStep DEF RoundInv

LEMMA RoundInvariance == Spec => []RoundInv
<1> QED  BY Invariance, InitRound, RoundStep, PTL DEF Spec

(***************************************************************************)
(* Evidence collected while no PCR moved is coherent (get_tpm_evidence):   *)
(* the quote, the listed values and the certified key's policy are of the  *)
(* same PCR values, for every selection in the TPM's order.                *)
(***************************************************************************)
THEOREM EvidenceIsCoherent == Spec => []EvidenceCoherent
<1>1. RoundInv => EvidenceCoherent
  <2> SUFFICES ASSUME RoundInv, pc = "attested", clock = since, Canonical(sel)
               PROVE  quote = values /\ attested = PcrPolicy(sel, values)
    BY DEF EvidenceCoherent
  <2>1. quote = TpmDigest(Indices(sel)) /\ values = Now(sel) /\ attested = PolicyNow
    BY DEF RoundInv, EvidenceFresh, Canonical
  <2> QED  BY <2>1, CanonicalDigest DEF PolicyNow
<1> QED  BY <1>1, RoundInvariance, PTL

(***************************************************************************)
(* Every envelope encrypted to the attested key is opened by decrypt_token *)
(* when nothing fails and no PCR was extended since the evidence: for      *)
(* every selection in the TPM's order and every TPM whose slots the        *)
(* evidence itself could be collected with.                                *)
(***************************************************************************)
THEOREM RoundTrips == Spec => []RoundTrip
<1>1. RoundInv => RoundTrip
  BY DEF RoundInv, SmoothCall, Undisturbed, RoundTrip
<1> QED  BY <1>1, RoundInvariance, PTL
=============================================================================
