-------------------------- MODULE Attestation_proofs --------------------------
(***************************************************************************)
(* The two ends of attestation.  What a call of attest_guest or            *)
(* attest_platform sends and what it gets back, for any number of calls    *)
(* and every failure on the way: no evidence is older than the user data   *)
(* asked for, the isolation type is the machine's, a token answers the     *)
(* submission waited for.  And what azure-guest-local-verify accepts, for  *)
(* every set of hosts and any damage to the files: the evidence of a host  *)
(* below a pinned root, and only what that host measured; and all of it,   *)
(* if nothing was damaged and the files are of one host.                   *)
(***************************************************************************)
EXTENDS Attestation, Evidence, FiniteSetTheorems, SequenceTheorems, TLAPS

\* The stages after the evidence.
Later == {"report", "quote", "quote2", "submit", "await", "backoff", "decrypt", "ok"}

\* Evidence is the machine's own, or absent, which only a guest call without
\* user data outlives.
EvidenceIsOwn ==
  /\ ev = "none" \/ (ev = vm /\ vm \in Types)
  /\ pc \in {"stage", "cvm", "device"} \cup Later => ud # "oversized"
  /\ pc \in {"stage", "cvm"} => ev = "none" /\ sent = "none"
  /\ pc = "device" => op = "guest"
  /\ pc \in {"device"} \cup Later /\ ev = "none" => ud = "none" /\ op = "guest"

\* The evidence of a call with user data was derived from what the index held
\* once the data was staged.
DataIsBound ==
  /\ pc = "stage" => ud = "data"
  /\ pc = "cvm" /\ ud = "data" => slot # "before"
  /\ ev # "none" /\ ud = "data" => carried = "own" \/ (carried = "after" /\ slot = "after")

\* A report, once built, matches the evidence.
ReportFits ==
  sent # "none" =>
    /\ ud # "oversized"
    /\ \/ ev = "none" /\ sent = "TrustedLaunch" /\ ud = "none" /\ op = "guest"
       \/ ev \in {"snp", "tdx"} /\ sent = Isolation[ev]

\* The answer is that of the submission the call waits for.
AnswerIsOwn ==
  /\ pc = "decrypt" =>
       /\ op = "guest" /\ reply \in {"envelope", "other"}
       /\ provider = "maa" => fails + 1 \in served
  /\ pc = "ok" /\ provider = "maa" =>
       /\ fails + 1 \in served
       /\ reply \in {"envelope", "other"}
       /\ op = "guest" => token = IF reply = "envelope" THEN "jwt" ELSE "other"
       /\ op = "platform" => token \in {reply, "empty"}

\* No attempt is made once all have failed.
TriesLeft ==
  /\ pc \in {"stage", "cvm", "device", "report", "quote", "quote2"} => fails = 0
  /\ pc \in {"submit", "await", "backoff"} => fails < MaxAttempts

InputOK == ud \in {"none", "data", "oversized"} /\ op \in {"guest", "platform"}

IInv ==
  TypeOK /\ TriesLeft /\ InputOK /\ EvidenceIsOwn /\ DataIsBound /\ ReportFits /\ AnswerIsOwn

-----------------------------------------------------------------------------

LEMMA InitInv == Init => IInv
<1>1. SUFFICES ASSUME Init PROVE IInv
  OBVIOUS
<1>2. TypeOK /\ TriesLeft
  <2>1. vm \in Types \cup {"absent"} /\ pc \in Working \cup Done /\ ev \in Types \cup {"none"}
    BY <1>1 DEF Init, Done
  <2>2. fails \in 0 .. MaxAttempts /\ served \subseteq posted /\ posted \subseteq 1 .. MaxAttempts
    BY <1>1 DEF Init, MaxAttempts
  <2>3. /\ quoted \in BOOLEAN /\ sent = "none" /\ pc = "idle"
        /\ reply = "none" /\ token = "none" /\ slot = "before" /\ carried = "none"
    BY <1>1 DEF Init
  <2>4. QED  BY <2>1, <2>2, <2>3 DEF TypeOK, TriesLeft
<1>3. InputOK /\ EvidenceIsOwn /\ DataIsBound /\ ReportFits /\ AnswerIsOwn
  BY <1>1 DEF Init, InputOK, EvidenceIsOwn, DataIsBound, ReportFits, AnswerIsOwn, Later
<1>4. QED  BY <1>2, <1>3 DEF IInv

LEMMA BeginInv ==
  ASSUME IInv, NEW o \in {"guest", "platform"}, NEW p \in {"maa", "loopback"},
         NEW d \in {"none", "data", "oversized"}, Begin(o, p, d)
  PROVE  IInv'
<1>1. TypeOK' /\ TriesLeft'
  <2>1. pc' \in {"err", "cvm", "stage"} /\ fails' = 0
    BY DEF Begin
  <2>2. vm' \in Types \cup {"absent"} /\ pc' \in Working \cup Done /\ ev' \in Types \cup {"none"}
    BY <2>1 DEF IInv, TypeOK, Begin, Done, Working
  <2>3. fails' \in 0 .. MaxAttempts /\ served' \subseteq posted' /\ posted' \subseteq 1 .. MaxAttempts
    BY DEF Begin, MaxAttempts
  <2>4. /\ quoted' \in BOOLEAN /\ sent' = "none"
        /\ reply' = "none" /\ token' = "none" /\ slot' = "before" /\ carried' = "none"
    BY DEF Begin
  <2>5. QED  BY <2>1, <2>2, <2>3, <2>4 DEF TypeOK, TriesLeft, MaxAttempts
<1>2. InputOK' /\ EvidenceIsOwn' /\ DataIsBound' /\ ReportFits' /\ AnswerIsOwn'
  BY DEF Begin, InputOK, EvidenceIsOwn, DataIsBound, ReportFits, AnswerIsOwn, Later
<1>3. QED  BY <1>1, <1>2 DEF IInv

LEMMA StageInv == IInv /\ Stage => IInv'
<1>1. SUFFICES ASSUME IInv, Stage PROVE IInv'
  OBVIOUS
<1>2. UNCHANGED <<vm, op, provider, ud, carried, ev, quoted, sent, fails, posted, served, reply, token>>
  BY <1>1 DEF Stage, input, evidence, wire
<1>3. pc = "stage" /\ ((pc' = "cvm" /\ slot' = "own") \/ pc' = "err")
  BY <1>1 DEF Stage
<1>4. TypeOK' /\ TriesLeft' /\ InputOK'
  <2>1. slot' \in {"before", "own", "after"}
    BY <1>1 DEF Stage, IInv, TypeOK
  <2>2. QED  BY <1>1, <1>2, <1>3, <2>1 DEF IInv, TypeOK, TriesLeft, InputOK, Working, Done
<1>5. EvidenceIsOwn' /\ DataIsBound' /\ ReportFits' /\ AnswerIsOwn'
  BY <1>1, <1>2, <1>3 DEF IInv, EvidenceIsOwn, DataIsBound, ReportFits, AnswerIsOwn, Later
<1>6. QED  BY <1>4, <1>5 DEF IInv

\* Another caller's staging turns the own value into a later one, never an older.
LEMMA OvertakeInv == IInv /\ Overtake => IInv'
<1>1. SUFFICES ASSUME IInv, Overtake PROVE IInv'
  OBVIOUS
<1>2. UNCHANGED <<vm, pc, op, provider, ud, carried, ev, quoted, sent, fails, posted, served, reply, token>>
  BY <1>1 DEF Overtake, input, evidence, wire
<1>3. slot = "own" /\ slot' = "after"
  BY <1>1 DEF Overtake
<1>4. TypeOK' /\ TriesLeft' /\ InputOK' /\ EvidenceIsOwn' /\ ReportFits' /\ AnswerIsOwn'
  BY <1>1, <1>2, <1>3 DEF IInv, TypeOK, TriesLeft, InputOK, EvidenceIsOwn, ReportFits, AnswerIsOwn
<1>5. DataIsBound'
  BY <1>1, <1>2, <1>3 DEF IInv, DataIsBound
<1>6. QED  BY <1>4, <1>5 DEF IInv

LEMMA EvidenceInv == IInv /\ (CvmEvidence \/ DeviceEvidence) => IInv'
<1>1. SUFFICES ASSUME IInv, CvmEvidence \/ DeviceEvidence PROVE IInv'
  OBVIOUS
<1>2. UNCHANGED <<vm, op, provider, ud, slot, quoted, sent, fails, posted, served, reply, token>>
  BY <1>1 DEF CvmEvidence, DeviceEvidence, input, staging, evidence, wire
<1>3. CASE CvmEvidence
  <2>1. TypeOK' /\ InputOK' /\ TriesLeft'
    <3>1. pc = "cvm" /\ pc' \in {"device", "quote", "report", "err"} /\ quoted' = quoted
      BY <1>3 DEF CvmEvidence
    <3>2. ev' \in Types \cup {"none"}
      BY <1>1, <1>3 DEF IInv, TypeOK, CvmEvidence
    <3>3. carried' \in {"none", "before", "own", "after"}
      BY <1>1, <1>3 DEF IInv, TypeOK, CvmEvidence
    <3>4. QED  BY <1>1, <1>2, <3>1, <3>2, <3>3 DEF IInv, TypeOK, TriesLeft, InputOK, Working, Done
  <2>2. EvidenceIsOwn'
    BY <1>1, <1>2, <1>3 DEF IInv, TypeOK, EvidenceIsOwn, CvmEvidence, Later, Types
  <2>3. ReportFits' /\ AnswerIsOwn'
    BY <1>1, <1>2, <1>3 DEF IInv, EvidenceIsOwn, ReportFits, AnswerIsOwn, CvmEvidence
  <2>4. DataIsBound'
    BY <1>1, <1>2, <1>3 DEF IInv, TypeOK, EvidenceIsOwn, DataIsBound, CvmEvidence
  <2>5. QED  BY <2>1, <2>2, <2>3, <2>4 DEF IInv
<1>4. CASE DeviceEvidence
  <2>1. UNCHANGED <<ev, carried>>
    BY <1>4 DEF DeviceEvidence, evidence, staging
  <2>2. TypeOK' /\ InputOK' /\ TriesLeft'
    BY <1>1, <1>2, <1>4, <2>1
    DEF IInv, TypeOK, TriesLeft, InputOK, DeviceEvidence, Working, Done
  <2>3. EvidenceIsOwn'
    BY <1>1, <1>2, <1>4, <2>1 DEF IInv, EvidenceIsOwn, DeviceEvidence, Later
  <2>4. DataIsBound' /\ ReportFits' /\ AnswerIsOwn'
    BY <1>1, <1>2, <1>4, <2>1 DEF IInv, DataIsBound, ReportFits, AnswerIsOwn, DeviceEvidence
  <2>5. QED  BY <2>2, <2>3, <2>4 DEF IInv
<1>5. QED  BY <1>1, <1>3, <1>4

LEMMA ReportInv == IInv /\ (BuildReport \/ TdQuote) => IInv'
<1>1. SUFFICES ASSUME IInv, BuildReport \/ TdQuote PROVE IInv'
  OBVIOUS
<1>2. UNCHANGED <<vm, op, provider, ud, slot, carried, ev, fails, posted, served, reply, token>>
  BY <1>1 DEF BuildReport, TdQuote, input, staging, wire
<1>3. pc \in {"report", "quote", "quote2"} /\ pc' \in {"submit", "quote", "quote2", "report", "err"}
  BY <1>1 DEF BuildReport, TdQuote
<1>4. TypeOK' /\ InputOK' /\ TriesLeft'
  <2>1. quoted' \in BOOLEAN /\ sent' \in {"none", "TrustedLaunch", "SevSnp", "Tdx"}
    BY <1>1 DEF BuildReport, TdQuote, IInv, TypeOK
  <2>2. QED  BY <1>1, <1>2, <1>3, <2>1
             DEF IInv, TypeOK, TriesLeft, InputOK, Working, Done, MaxAttempts
<1>5. EvidenceIsOwn' /\ DataIsBound'
  BY <1>1, <1>2, <1>3 DEF IInv, EvidenceIsOwn, DataIsBound, Later
<1>6. AnswerIsOwn'
  BY <1>3 DEF AnswerIsOwn
<1>7. ReportFits'
  <2>1. CASE UNCHANGED sent
    BY <1>1, <1>2, <2>1 DEF IInv, ReportFits
  <2>2. CASE ev = "none" /\ sent' = "TrustedLaunch"
    BY <1>1, <1>2, <1>3, <2>2 DEF IInv, EvidenceIsOwn, ReportFits, Later
  <2>3. CASE \/ ev = "snp" /\ sent' = "SevSnp"
             \/ ev = "tdx" /\ sent' = "Tdx"
    BY <1>1, <1>2, <1>3, <2>3 DEF IInv, EvidenceIsOwn, ReportFits, Later, Isolation
  <2>4. QED  BY <1>1, <2>1, <2>2, <2>3 DEF BuildReport, TdQuote
<1>8. QED  BY <1>4, <1>5, <1>6, <1>7 DEF IInv

\* The stages of the submission leave evidence and report alone.
LEMMA SubmissionKeeps ==
  ASSUME IInv, UNCHANGED <<vm, op, provider, ud, slot, carried, ev, quoted, sent>>,
         pc \in {"submit", "await", "backoff", "decrypt"},
         pc' \in {"await", "backoff", "submit", "decrypt", "ok", "err"}
  PROVE  InputOK' /\ EvidenceIsOwn' /\ DataIsBound' /\ ReportFits'
BY DEF IInv, InputOK, EvidenceIsOwn, DataIsBound, ReportFits, Later

LEMMA SubmitInv == IInv /\ Submit => IInv'
<1>1. SUFFICES ASSUME IInv, Submit PROVE IInv'
  OBVIOUS
<1>2. InputOK' /\ EvidenceIsOwn' /\ DataIsBound' /\ ReportFits'
  BY <1>1, SubmissionKeeps DEF Submit, input, staging, evidence
<1>3. TypeOK' /\ TriesLeft'
  <2>1. fails \in 0 .. MaxAttempts /\ fails < MaxAttempts /\ fails' = fails
    BY <1>1 DEF Submit, IInv, TypeOK, TriesLeft
  <2>2. pc' \in {"await", "decrypt", "ok"} /\ reply' \in {"none", "envelope", "other"}
    BY <1>1 DEF Submit, IInv, TypeOK
  <2>3. posted \subseteq posted' /\ posted' \subseteq posted \cup {fails + 1}
    BY <1>1 DEF Submit
  <2>4. posted' \subseteq 1 .. MaxAttempts
    BY <1>1, <2>1, <2>3 DEF IInv, TypeOK, MaxAttempts
  <2>5. served' \subseteq posted'
    BY <1>1, <2>3 DEF Submit, IInv, TypeOK
  <2>6. UNCHANGED <<vm, slot, carried, ev, quoted, sent, token>>
    BY <1>1 DEF Submit, staging, evidence
  <2>7. QED  BY <1>1, <2>1, <2>2, <2>4, <2>5, <2>6 DEF IInv, TypeOK, TriesLeft, Working, Done
<1>4. AnswerIsOwn'
  BY <1>1 DEF Submit, AnswerIsOwn, input
<1>5. QED  BY <1>2, <1>3, <1>4 DEF IInv

LEMMA AnswerInv == IInv /\ (Answer \/ NoAnswer \/ Backoff \/ Decrypt) => IInv'
<1>1. SUFFICES ASSUME IInv, Answer \/ NoAnswer \/ Backoff \/ Decrypt PROVE IInv'
  OBVIOUS
<1>2. InputOK' /\ EvidenceIsOwn' /\ DataIsBound' /\ ReportFits'
  BY <1>1, SubmissionKeeps DEF Answer, NoAnswer, Backoff, Decrypt, input, staging, evidence
<1>3. UNCHANGED <<op, provider, posted, served>>
  BY <1>1 DEF Answer, NoAnswer, Backoff, Decrypt, input, wire
<1>4. TypeOK' /\ TriesLeft'
  <2>1. pc' \in {"decrypt", "ok", "err", "backoff", "submit"}
    BY <1>1 DEF Answer, NoAnswer, Backoff, Decrypt
  <2>2. fails' \in 0 .. MaxAttempts /\ (pc' \in {"submit", "backoff"} => fails' < MaxAttempts)
    <3>1. CASE NoAnswer
      BY <1>1, <3>1 DEF NoAnswer, IInv, TypeOK, TriesLeft, MaxAttempts
    <3>2. CASE Answer \/ Backoff \/ Decrypt
      BY <1>1, <3>2 DEF Answer, Backoff, Decrypt, IInv, TypeOK, TriesLeft, wire
    <3>3. QED  BY <1>1, <3>1, <3>2
  <2>3. reply' \in {"none", "envelope", "other"} /\ token' \in {"none", "jwt", "envelope", "other", "empty"}
    BY <1>1 DEF Answer, NoAnswer, Backoff, Decrypt, IInv, TypeOK
  <2>4. UNCHANGED <<vm, slot, carried, ev, quoted, sent>>
    BY <1>1 DEF Answer, NoAnswer, Backoff, Decrypt, staging, evidence
  <2>5. QED  BY <1>1, <1>3, <2>1, <2>2, <2>3, <2>4 DEF IInv, TypeOK, TriesLeft, Working, Done
<1>5. AnswerIsOwn'
  <2>1. CASE Answer
    <3>1. UNCHANGED fails /\ fails + 1 \in served /\ reply' \in {"envelope", "other"}
      BY <2>1 DEF Answer, wire
    <3>2. \/ op = "guest" /\ pc' = "decrypt"
          \/ op # "guest" /\ pc' = "ok" /\ token' \in {reply', "empty"}
      BY <2>1 DEF Answer
    <3>3. QED  BY <1>3, <3>1, <3>2 DEF AnswerIsOwn
  <2>2. CASE NoAnswer \/ Backoff
    <3>1. pc' \in {"err", "backoff", "submit"}
      BY <2>2 DEF NoAnswer, Backoff
    <3>2. QED  BY <3>1 DEF AnswerIsOwn
  <2>3. CASE Decrypt
    BY <1>1, <1>3, <2>3 DEF Decrypt, IInv, AnswerIsOwn, wire
  <2>4. QED  BY <1>1, <2>1, <2>2, <2>3
<1>6. QED  BY <1>2, <1>4, <1>5 DEF IInv

LEMMA ServeInv == ASSUME IInv, NEW k \in 1 .. MaxAttempts, Serve(k)  PROVE IInv'
<1>1. TypeOK' /\ TriesLeft' /\ InputOK' /\ EvidenceIsOwn' /\ DataIsBound' /\ ReportFits'
  BY DEF Serve, IInv, TypeOK, TriesLeft, InputOK, EvidenceIsOwn, DataIsBound, ReportFits,
     input, staging, evidence
<1>2. AnswerIsOwn'
  BY DEF Serve, IInv, AnswerIsOwn, input
<1>3. QED  BY <1>1, <1>2 DEF IInv

LEMMA NextInv == IInv /\ [Next]_vars => IInv'
<1>1. SUFFICES ASSUME IInv, [Next]_vars PROVE IInv'
  OBVIOUS
<1>2. CASE Step
  BY <1>1, <1>2, StageInv, EvidenceInv, ReportInv, SubmitInv, AnswerInv DEF Step
<1>3. CASE UNCHANGED vars
  BY <1>1, <1>3 DEF vars, input, staging, evidence, wire, IInv, TypeOK, TriesLeft, InputOK,
     EvidenceIsOwn, DataIsBound, ReportFits, AnswerIsOwn
<1>4. QED  BY <1>1, <1>2, <1>3, BeginInv, ServeInv, OvertakeInv DEF Next

THEOREM Invariance == Spec => []IInv
<1>1. QED  BY InitInv, NextInv, PTL DEF Spec

(***************************************************************************)
(* Explicit user data never falls back: whatever fails, a request that     *)
(* goes out for it carries TEE evidence, derived from the caller's own     *)
(* value or from one another caller staged over it, never from an older    *)
(* one (client.rs attest_guest, attest_platform, tee_only.rs).             *)
(***************************************************************************)
THEOREM UserDataKept == Spec => []UserDataNeverDropped
<1>1. IInv => UserDataNeverDropped
  BY DEF IInv, InputOK, DataIsBound, ReportFits, UserDataNeverDropped
<1>2. QED  BY <1>1, Invariance, PTL

(***************************************************************************)
(* A request's isolation type is that of the machine, or TrustedLaunch in  *)
(* the guest flow (build_isolation_info).                                  *)
(***************************************************************************)
THEOREM IsolationIsOwn == Spec => []IsolationIsTheMachines
<1>1. IInv => IsolationIsTheMachines
  BY DEF IInv, EvidenceIsOwn, ReportFits, IsolationIsTheMachines, Types
<1>2. QED  BY <1>1, Invariance, PTL

(***************************************************************************)
(* A token comes from the submission the call waited for, never from one   *)
(* it had given up (submit_to_provider), and only the platform flow's may  *)
(* be empty, for an answer whose body could not be read (submit_tee_only). *)
(***************************************************************************)
THEOREM TokenIsOwn == Spec => []TokenAnswersRequest
<1>1. IInv => TokenAnswersRequest
  BY DEF IInv, AnswerIsOwn, TokenAnswersRequest
<1>2. QED  BY <1>1, Invariance, PTL

-----------------------------------------------------------------------------
(* Sequences, and what FlattenSeq makes of them.                           *)

\* Induction, for a set: a least number outside of it does not exist.
LEMMA Induct ==
  ASSUME NEW S, 0 \in S, \A n \in Nat : n \in S => n + 1 \in S
  PROVE  Nat \subseteq S
<1> DEFINE T == Nat \ S
<1> DEFINE F == {0 .. n : n \in T}
<1> SUFFICES ASSUME T # {} PROVE FALSE
  OBVIOUS
<1>1. IsWellFoundedOn(StrictSubsetOrdering(Nat), FiniteSubsetsOf(Nat))
  BY FS_StrictSubsetOrderingWellFounded
<1>2. F \subseteq FiniteSubsetsOf(Nat) /\ F # {}
  <2>1. \A n \in Nat : IsFiniteSet(0 .. n)
    <3> TAKE n \in Nat
    <3>1. 0 \in Int /\ n \in Int
      OBVIOUS
    <3> QED  BY <3>1, FS_Interval
  <2>2. \A n \in Nat : 0 .. n \in FiniteSubsetsOf(Nat)
    BY <2>1 DEF FiniteSubsetsOf
  <2> QED  BY <2>2
<1>3. \E x \in F : \A y \in F : ~ (<<y, x>> \in StrictSubsetOrdering(Nat))
  <2> HIDE DEF F
  <2> QED  BY <1>1, <1>2, WFMin
<1>4. PICK n \in T : \A y \in F : ~ (<<y, 0 .. n>> \in StrictSubsetOrdering(Nat))
  BY <1>3
<1>5. n # 0 /\ n - 1 \in T
  BY <1>4
<1>6. 0 .. (n - 1) \in SUBSET Nat /\ 0 .. n \in SUBSET Nat /\ 0 .. (n - 1) \subseteq 0 .. n
  BY <1>4, <1>5
<1>7. n \in 0 .. n /\ n \notin 0 .. (n - 1)
  BY <1>4, <1>5
<1>8. <<0 .. (n - 1), 0 .. n>> \in StrictSubsetOrdering(Nat)
  BY <1>6, <1>7 DEF StrictSubsetOrdering
<1> QED  BY <1>4, <1>5, <1>8

\* The function FlattenSeq computes with: f[k] is the concatenation of the
\* first k sequences of ss.
Link(f, ss, i) == IF i = 1 THEN ss[i] ELSE f[i - 1] \o ss[i]
Concats(f, ss, k) == f = [i \in 1 .. k |-> Link(f, ss, i)]

\* Such a function exists, whatever is concatenated.
LEMMA ChainExists ==
  ASSUME NEW ss
  PROVE  \A k \in Nat : \E f : Concats(f, ss, k)
<1> DEFINE S == {k \in Nat : \E f : Concats(f, ss, k)}
<1>1. 0 \in S
  <2> DEFINE f == [i \in 1 .. 0 |-> <<>>]
  <2>1. \A i \in 1 .. 0 : FALSE
    OBVIOUS
  <2>2. f = [i \in 1 .. 0 |-> Link(f, ss, i)]
    BY <2>1
  <2> QED  BY <2>2 DEF Concats
<1>2. ASSUME NEW k \in Nat, k \in S PROVE k + 1 \in S
  <2>1. PICK f : Concats(f, ss, k)
    BY <1>2
  <2> DEFINE w == [i \in 1 .. k + 1 |-> IF i <= k THEN f[i] ELSE Link(f, ss, i)]
  <2>2. \A i \in 1 .. k + 1 : w[i] = Link(w, ss, i)
    <3> TAKE i \in 1 .. k + 1
    <3>1. w[i] = Link(f, ss, i)
      BY <2>1 DEF Concats
    <3>2. i # 1 => w[i - 1] = f[i - 1]
      OBVIOUS
    <3> QED  BY <3>1, <3>2 DEF Link
  <2>3. w = [i \in 1 .. k + 1 |-> w[i]]
    OBVIOUS
  <2>4. Concats(w, ss, k + 1)
    <3> HIDE DEF w
    <3> QED  BY <2>2, <2>3 DEF Concats
  <2> QED  BY <2>4
<1> HIDE DEF S
<1>3. Nat \subseteq S
  BY <1>1, <1>2, Induct
<1> QED  BY <1>3 DEF S

\* FlattenSeq is the last value of such a function.
LEMMA FlattenIsChain ==
  ASSUME NEW S, NEW ss \in Seq(S), Len(ss) # 0
  PROVE  \E f : Concats(f, ss, Len(ss)) /\ FlattenSeq(ss) = f[Len(ss)]
<1>1. \E f : Concats(f, ss, Len(ss))
  <2>1. Len(ss) \in Nat
    OBVIOUS
  <2>2. \A k \in Nat : \E f : Concats(f, ss, k)
    BY ChainExists
  <2> HIDE DEF Concats
  <2> QED  BY <2>1, <2>2, Zenon
<1> DEFINE f == CHOOSE f : Concats(f, ss, Len(ss))
<1>2. Concats(f, ss, Len(ss))
  BY <1>1
<1>3. FlattenSeq(ss) = f[Len(ss)]
  BY DEF FlattenSeq, Concats, Link
<1> QED  BY <1>2, <1>3

\* Two such functions agree on sequences that agree.
LEMMA ChainsAgree ==
  ASSUME NEW s, NEW t, NEW f, NEW g, NEW k \in Nat, NEW l \in Nat, k <= l,
         Concats(f, s, k), Concats(g, t, l), \A i \in 1 .. k : s[i] = t[i]
  PROVE  \A i \in 1 .. k : f[i] = g[i]
<1> DEFINE S == {i \in Nat : i \in 1 .. k => f[i] = g[i]}
<1>1. 0 \in S
  OBVIOUS
<1>2. ASSUME NEW i \in Nat, i \in S PROVE i + 1 \in S
  <2> SUFFICES ASSUME i + 1 \in 1 .. k PROVE f[i + 1] = g[i + 1]
    OBVIOUS
  <2>0. i + 1 \in 1 .. k /\ i + 1 \in 1 .. l
    OBVIOUS
  <2>1. f[i + 1] = Link(f, s, i + 1) /\ g[i + 1] = Link(g, t, i + 1)
    BY <2>0, Zenon DEF Concats
  <2>2. i # 0 => f[i] = g[i]
    BY <1>2
  <2>3. s[i + 1] = t[i + 1] /\ (i + 1) - 1 = i
    OBVIOUS
  <2> QED  BY <2>1, <2>2, <2>3 DEF Link
<1> HIDE DEF S
<1>3. Nat \subseteq S
  BY <1>1, <1>2, Induct
<1> QED  BY <1>3 DEF S

\* The first n of the sequences, one after the other.
Upto(ss, n) == FlattenSeq(SubSeq(ss, 1, n))

\* Nothing, of no sequence.
LEMMA UptoNone == ASSUME NEW ss PROVE Upto(ss, 0) = <<>>
<1>1. SubSeq(ss, 1, 0) = <<>>
  BY SubSeqEmpty
<1> QED  BY <1>1 DEF Upto, FlattenSeq

\* All of them.
LEMMA UptoAll ==
  ASSUME NEW S, NEW ss \in Seq(S)
  PROVE  Upto(ss, Len(ss)) = FlattenSeq(ss)
BY SubSeqFull DEF Upto

\* The beginning of a sequence.
LEMMA Firsts ==
  ASSUME NEW T, NEW ss \in Seq(T), NEW n \in 0 .. Len(ss)
  PROVE  /\ SubSeq(ss, 1, n) \in Seq(T) /\ Len(SubSeq(ss, 1, n)) = n
         /\ \A i \in 1 .. n : SubSeq(ss, 1, n)[i] = ss[i]
<1>1. Len(ss) \in Nat /\ \A i \in 1 .. n : ss[i] \in T
  OBVIOUS
<1>2. /\ SubSeq(ss, 1, n) \in Seq(T) /\ Len(SubSeq(ss, 1, n)) = IF 1 <= n THEN n - 1 + 1 ELSE 0
      /\ \A i \in 1 .. n - 1 + 1 : SubSeq(ss, 1, n)[i] = ss[1 + i - 1]
  BY <1>1, SubSeqProperties
<1>3. n - 1 + 1 = n /\ \A i \in 1 .. n : 1 + i - 1 = i
  BY <1>1
<1> QED  BY <1>2, <1>3

\* One sequence more is appended to those before.
LEMMA UptoNext ==
  ASSUME NEW S, NEW ss \in Seq(Seq(S)), NEW n \in Nat, n < Len(ss)
  PROVE  Upto(ss, n + 1) = Upto(ss, n) \o ss[n + 1]
<1>0. PICK T : T = Seq(S)
  OBVIOUS
<1>1. ss \in Seq(T) /\ Len(ss) \in Nat /\ n \in 0 .. Len(ss) /\ n + 1 \in 0 .. Len(ss)
  BY <1>0
<1>2. PICK s : s = SubSeq(ss, 1, n)
  OBVIOUS
<1>3. PICK t : t = SubSeq(ss, 1, n + 1)
  OBVIOUS
<1>4. s \in Seq(T) /\ Len(s) = n /\ \A i \in 1 .. n : s[i] = ss[i]
  BY <1>1, <1>2, Firsts
<1>5. t \in Seq(T) /\ Len(t) = n + 1 /\ \A i \in 1 .. n + 1 : t[i] = ss[i]
  BY <1>1, <1>3, Firsts
<1>6. PICK g : Concats(g, t, n + 1) /\ FlattenSeq(t) = g[n + 1]
  <2>1. n + 1 # 0
    OBVIOUS
  <2>2. Len(t) # 0
    BY <1>5, <2>1
  <2>3. \E g : Concats(g, t, Len(t)) /\ FlattenSeq(t) = g[Len(t)]
    BY <1>5, <2>2, FlattenIsChain
  <2> QED  BY <1>5, <2>3, Zenon
<1>7. g[n + 1] = IF n = 0 THEN ss[n + 1] ELSE g[n] \o ss[n + 1]
  <2>1. n + 1 \in 1 .. n + 1 /\ (n + 1) - 1 = n /\ (n + 1 = 1 <=> n = 0)
    OBVIOUS
  <2>2. g[n + 1] = Link(g, t, n + 1)
    BY <1>6, <2>1 DEF Concats
  <2>3. t[n + 1] = ss[n + 1]
    BY <1>5, <2>1
  <2> QED  BY <2>1, <2>2, <2>3 DEF Link
<1>8. Upto(ss, n) = FlattenSeq(s) /\ Upto(ss, n + 1) = FlattenSeq(t)
  BY <1>2, <1>3 DEF Upto
<1>9. CASE n = 0
  <2>1. FlattenSeq(s) = <<>>
    BY <1>8, <1>9, UptoNone
  <2>2. <<>> \o ss[n + 1] = ss[n + 1]
    <3>1. ss[n + 1] \in Seq(S)
      OBVIOUS
    <3> QED  BY <3>1, ConcatEmptySeq
  <2> QED  BY <1>6, <1>7, <1>8, <1>9, <2>1, <2>2
<1>10. CASE n # 0
  <2>1. PICK f : Concats(f, s, n) /\ FlattenSeq(s) = f[n]
    BY <1>4, <1>10, FlattenIsChain
  <2>2. \A i \in 1 .. n : s[i] = t[i]
    BY <1>4, <1>5
  <2>3. \A i \in 1 .. n : f[i] = g[i]
    <3>1. n <= n + 1 /\ n + 1 \in Nat
      OBVIOUS
    <3>2. Concats(f, s, n) /\ Concats(g, t, n + 1)
      BY <1>6, <2>1
    <3> QED  BY <2>2, <3>1, <3>2, ChainsAgree, SMT
  <2>4. f[n] = g[n]
    BY <1>10, <2>3
  <2> QED  BY <1>6, <1>7, <1>8, <1>10, <2>1, <2>4
<1> QED  BY <1>9, <1>10

\* Concatenations of sequences over a set are sequences over it.
LEMMA UptoGrows ==
  ASSUME NEW S, NEW ss \in Seq(Seq(S))
  PROVE  \A n \in 0 .. Len(ss) : Upto(ss, n) \in Seq(S)
<1> DEFINE P == {n \in Nat : n <= Len(ss) => Upto(ss, n) \in Seq(S)}
<1>0. <<>> \in Seq(S) /\ Upto(ss, 0) = <<>>
  BY UptoNone
<1>1. 0 \in P
  BY <1>0
<1>2. ASSUME NEW n \in Nat, n \in P PROVE n + 1 \in P
  <2> SUFFICES ASSUME n + 1 <= Len(ss) PROVE Upto(ss, n + 1) \in Seq(S)
    OBVIOUS
  <2>1. n < Len(ss) /\ Upto(ss, n) \in Seq(S)
    BY <1>2
  <2>2. ss[n + 1] \in Seq(S)
    OBVIOUS
  <2>3. Upto(ss, n + 1) = Upto(ss, n) \o ss[n + 1]
    BY <2>1, UptoNext
  <2> HIDE DEF P
  <2> QED  BY <2>1, <2>2, <2>3, ConcatProperties
<1> HIDE DEF P
<1>3. Nat \subseteq P
  BY <1>1, <1>2, Induct
<1> QED  BY <1>3 DEF P

\* The same with what is known of types and lengths.
LEMMA UptoSteps ==
  ASSUME NEW S, NEW ss \in Seq(Seq(S)), NEW n \in Nat, n < Len(ss)
  PROVE  /\ Upto(ss, n) \in Seq(S) /\ ss[n + 1] \in Seq(S) /\ Upto(ss, n + 1) \in Seq(S)
         /\ Upto(ss, n + 1) = Upto(ss, n) \o ss[n + 1]
         /\ Len(Upto(ss, n + 1)) = Len(Upto(ss, n)) + Len(ss[n + 1])
         /\ Len(Upto(ss, n)) \in Nat /\ Len(ss[n + 1]) \in Nat
<1>1. n \in 0 .. Len(ss) /\ n + 1 \in 0 .. Len(ss) /\ n + 1 \in 1 .. Len(ss)
  OBVIOUS
<1>2. Upto(ss, n) \in Seq(S) /\ Upto(ss, n + 1) \in Seq(S)
  BY <1>1, UptoGrows
<1>3. ss[n + 1] \in Seq(S)
  BY <1>1
<1>4. Upto(ss, n + 1) = Upto(ss, n) \o ss[n + 1]
  BY UptoNext
<1>5. Len(Upto(ss, n + 1)) = Len(Upto(ss, n)) + Len(ss[n + 1])
  BY <1>2, <1>3, <1>4, ConcatProperties
<1>6. Len(Upto(ss, n)) \in Nat /\ Len(ss[n + 1]) \in Nat
  BY <1>2, <1>3, LenProperties
<1> QED  BY <1>2, <1>3, <1>4, <1>5, <1>6

\* Longer beginnings are longer.
LEMMA UptoLonger ==
  ASSUME NEW S, NEW ss \in Seq(Seq(S)), NEW n \in 0 .. Len(ss)
  PROVE  \A m \in n .. Len(ss) :
           /\ Len(Upto(ss, n)) <= Len(Upto(ss, m))
           /\ n < m /\ (\A i \in 1 .. Len(ss) : Len(ss[i]) > 0) =>
                Len(Upto(ss, n)) < Len(Upto(ss, m))
<1> DEFINE L(m) == Len(Upto(ss, m))
           Filled == \A i \in 1 .. Len(ss) : Len(ss[i]) > 0
           P == {d \in Nat : n + d <= Len(ss) =>
                   /\ L(n) <= L(n + d)
                   /\ d # 0 /\ Filled => L(n) < L(n + d)}
<1>0. n \in Nat /\ Len(ss) \in Nat
  OBVIOUS
<1>1. \A m \in 0 .. Len(ss) : L(m) \in Nat
  BY UptoGrows, LenProperties
<1>2. 0 \in P
  BY <1>0, <1>1
<1>3. ASSUME NEW d \in Nat, d \in P PROVE d + 1 \in P
  <2> SUFFICES ASSUME n + (d + 1) <= Len(ss)
               PROVE  L(n) <= L(n + (d + 1)) /\ (Filled => L(n) < L(n + (d + 1)))
    BY <1>0
  <2>1. /\ n + d \in Nat /\ n + d < Len(ss) /\ n + d <= Len(ss) /\ (n + d) + 1 = n + (d + 1)
        /\ n + (d + 1) \in 1 .. Len(ss)
    BY <1>0
  <2>2. L(n) <= L(n + d)
    BY <1>3, <2>1
  <2>3. L((n + d) + 1) = L(n + d) + Len(ss[(n + d) + 1]) /\ Len(ss[(n + d) + 1]) \in Nat
    BY <2>1, UptoSteps
  <2>4. L(n) \in Nat /\ L(n + d) \in Nat
    BY <1>0, <1>1, <2>1
  <2>5. Filled => Len(ss[n + (d + 1)]) > 0
    BY <2>1
  <2> HIDE DEF L, Filled
  <2> QED  BY <2>1, <2>2, <2>3, <2>4, <2>5
<1> HIDE DEF P, L, Filled
<1>4. Nat \subseteq P
  BY <1>2, <1>3, Induct
<1>5. ASSUME NEW m \in n .. Len(ss) PROVE L(n) <= L(m) /\ (n < m /\ Filled => L(n) < L(m))
  <2>1. m - n \in Nat /\ n + (m - n) = m /\ m <= Len(ss) /\ (n < m => m - n # 0)
    BY <1>0
  <2>2. m - n \in P
    BY <1>4, <2>1
  <2> QED  BY <2>1, <2>2 DEF P
<1> QED  BY <1>5 DEF L, Filled

-----------------------------------------------------------------------------
(***************************************************************************)
(* What a file holds from a place on, as far as it goes.                   *)
(***************************************************************************)
Ahead(l, a, s) == \A k \in 1 .. Len(s) : a + k <= Len(l) => l[a + k] = s[k]

\* What lies ahead of a place, cut in two.
LEMMA AheadConcat ==
  ASSUME NEW S, NEW s \in Seq(S), NEW t \in Seq(S), NEW l \in Seq(S), NEW a \in Nat,
         Ahead(l, a, s \o t)
  PROVE  Ahead(l, a, s) /\ Ahead(l, a + Len(s), t)
<1>1. Len(s) \in Nat /\ Len(t) \in Nat /\ Len(l) \in Nat
  OBVIOUS
<1>2. Len(s \o t) = Len(s) + Len(t)
  BY ConcatProperties
<1>3. \A i \in 1 .. Len(s) + Len(t) :
         (s \o t)[i] = IF i <= Len(s) THEN s[i] ELSE t[i - Len(s)]
  BY ConcatProperties
<1>4. ASSUME NEW k \in 1 .. Len(s), a + k <= Len(l) PROVE l[a + k] = s[k]
  <2>1. k \in 1 .. Len(s) + Len(t) /\ k <= Len(s)
    BY <1>1
  <2>2. (s \o t)[k] = s[k]
    BY <1>3, <2>1
  <2> QED  BY <1>2, <1>4, <2>1, <2>2 DEF Ahead
<1>5. ASSUME NEW k \in 1 .. Len(t), (a + Len(s)) + k <= Len(l) PROVE l[(a + Len(s)) + k] = t[k]
  <2>1. /\ Len(s) + k \in 1 .. Len(s) + Len(t) /\ ~ (Len(s) + k <= Len(s))
        /\ (Len(s) + k) - Len(s) = k /\ a + (Len(s) + k) = (a + Len(s)) + k
    BY <1>1
  <2>2. (s \o t)[Len(s) + k] = t[k]
    BY <1>3, <2>1
  <2> QED  BY <1>2, <1>5, <2>1, <2>2 DEF Ahead
<1> QED  BY <1>4, <1>5 DEF Ahead

\* What lies ahead, sequence by sequence.
LEMMA AheadUpto ==
  ASSUME NEW S, NEW ss \in Seq(Seq(S)), NEW l \in Seq(S), NEW a \in Nat,
         Ahead(l, a, FlattenSeq(ss))
  PROVE  \A n \in 0 .. Len(ss) :
           /\ Ahead(l, a, Upto(ss, n))
           /\ n < Len(ss) => Ahead(l, a + Len(Upto(ss, n)), ss[n + 1])
<1> DEFINE P == {d \in Nat : d <= Len(ss) => Ahead(l, a, Upto(ss, Len(ss) - d))}
<1>0. Len(ss) \in Nat
  OBVIOUS
<1>1. 0 \in P
  <2>1. Len(ss) - 0 = Len(ss)
    BY <1>0
  <2> QED  BY <2>1, UptoAll
<1>2. ASSUME NEW n \in Nat, n < Len(ss), Ahead(l, a, Upto(ss, n + 1))
      PROVE  Ahead(l, a, Upto(ss, n)) /\ Ahead(l, a + Len(Upto(ss, n)), ss[n + 1])
  <2>1. /\ Upto(ss, n) \in Seq(S) /\ ss[n + 1] \in Seq(S)
        /\ Upto(ss, n + 1) = Upto(ss, n) \o ss[n + 1]
    BY <1>2, UptoSteps
  <2> QED  BY <1>2, <2>1, AheadConcat
<1>3. ASSUME NEW d \in Nat, d \in P PROVE d + 1 \in P
  <2> SUFFICES ASSUME d + 1 <= Len(ss) PROVE Ahead(l, a, Upto(ss, Len(ss) - (d + 1)))
    OBVIOUS
  <2>1. /\ Len(ss) - (d + 1) \in Nat /\ Len(ss) - (d + 1) < Len(ss) /\ d <= Len(ss)
        /\ (Len(ss) - (d + 1)) + 1 = Len(ss) - d
    BY <1>0
  <2>2. Ahead(l, a, Upto(ss, (Len(ss) - (d + 1)) + 1))
    BY <1>3, <2>1
  <2> QED  BY <1>2, <2>1, <2>2
<1> HIDE DEF P
<1>4. Nat \subseteq P
  BY <1>1, <1>3, Induct
<1>5. \A n \in 0 .. Len(ss) : Ahead(l, a, Upto(ss, n))
  <2> TAKE n \in 0 .. Len(ss)
  <2>1. Len(ss) - n \in Nat /\ Len(ss) - n <= Len(ss) /\ Len(ss) - (Len(ss) - n) = n
    BY <1>0
  <2>2. Len(ss) - n \in P
    BY <1>4, <2>1
  <2> QED  BY <2>1, <2>2 DEF P
<1>6. ASSUME NEW n \in 0 .. Len(ss), n < Len(ss)
      PROVE  Ahead(l, a + Len(Upto(ss, n)), ss[n + 1])
  <2>1. n \in Nat /\ n + 1 \in 0 .. Len(ss)
    BY <1>0, <1>6
  <2> QED  BY <1>2, <1>5, <1>6, <2>1
<1> QED  BY <1>5, <1>6

\* A flattened message is a sequence of what its cells hold.
LEMMA FlatIsSeq ==
  ASSUME NEW S, NEW m \in Seq(Seq(S))
  PROVE  FlattenSeq(m) \in Seq(S) /\ Upto(m, Len(m)) = FlattenSeq(m)
<1>1. Len(m) \in 0 .. Len(m)
  OBVIOUS
<1> QED  BY <1>1, UptoGrows, UptoAll

\* Each sequence is found where those before it end.
LEMMA FlatPlaces ==
  ASSUME NEW S, NEW m \in Seq(Seq(S)), NEW n \in Nat, n < Len(m)
  PROVE  /\ Len(Upto(m, n)) \in Nat /\ Len(m[n + 1]) \in Nat
         /\ Len(Upto(m, n + 1)) = Len(Upto(m, n)) + Len(m[n + 1])
         /\ Len(Upto(m, n + 1)) <= Len(FlattenSeq(m))
         /\ \A k \in 1 .. Len(m[n + 1]) : FlattenSeq(m)[Len(Upto(m, n)) + k] = m[n + 1][k]
<1> DEFINE F == FlattenSeq(m)
           u == Len(Upto(m, n))
           l == Len(m[n + 1])
<1>1. u \in Nat /\ l \in Nat /\ Len(Upto(m, n + 1)) = u + l
  BY UptoSteps
<1>2. Len(m) \in Nat /\ n + 1 \in 0 .. Len(m) /\ Len(m) \in (n + 1) .. Len(m) /\ n \in 0 .. Len(m)
  OBVIOUS
<1>3. F \in Seq(S) /\ Upto(m, Len(m)) = F
  BY FlatIsSeq
<1>4. Len(Upto(m, n + 1)) <= Len(F)
  BY <1>2, <1>3, UptoLonger
<1>5. Ahead(F, 0, F)
  <2>1. \A k \in 1 .. Len(F) : 0 + k = k
    BY <1>3
  <2> QED  BY <2>1 DEF Ahead
<1>6. Ahead(F, 0 + u, m[n + 1])
  BY <1>2, <1>3, <1>5, AheadUpto
<1>7. ASSUME NEW k \in 1 .. l PROVE F[u + k] = m[n + 1][k]
  <2> HIDE DEF F, u
  <2>1. (0 + u) + k = u + k /\ u + k <= u + l
    BY <1>1
  <2>2. Len(F) \in Nat
    BY <1>3
  <2>3. u + k <= Len(F)
    BY <1>1, <1>4, <2>1, <2>2
  <2>4. (0 + u) + k <= Len(F) => F[(0 + u) + k] = m[n + 1][k]
    BY <1>6, <1>7 DEF Ahead, l
  <2> QED  BY <2>1, <2>3, <2>4
<1> QED  BY <1>1, <1>4, <1>7

\* Every sequence that is not empty adds to the length.
LEMMA FlatLonger ==
  ASSUME NEW S, NEW m \in Seq(Seq(S)), \A i \in 1 .. Len(m) : Len(m[i]) > 0
  PROVE  \A n \in 0 .. Len(m) : n <= Len(Upto(m, n))
<1> DEFINE P == {n \in Nat : n <= Len(m) => n <= Len(Upto(m, n))}
<1>1. 0 \in P
  <2>1. Len(Upto(m, 0)) = 0
    BY UptoNone
  <2> QED  BY <2>1
<1>2. ASSUME NEW n \in Nat, n \in P PROVE n + 1 \in P
  <2> SUFFICES ASSUME n + 1 <= Len(m) PROVE n + 1 <= Len(Upto(m, n + 1))
    OBVIOUS
  <2>1. n < Len(m) /\ n <= Len(m) /\ n + 1 \in 1 .. Len(m)
    OBVIOUS
  <2>2. /\ Len(Upto(m, n)) \in Nat /\ Len(m[n + 1]) \in Nat
        /\ Len(Upto(m, n + 1)) = Len(Upto(m, n)) + Len(m[n + 1])
    BY <2>1, FlatPlaces
  <2>3. n <= Len(Upto(m, n)) /\ Len(m[n + 1]) > 0
    BY <1>2, <2>1
  <2> QED  BY <2>2, <2>3
<1> HIDE DEF P
<1>3. Nat \subseteq P
  BY <1>1, <1>2, Induct
<1> QED  BY <1>3 DEF P

\* A message all of whose cells are numbers: those of the sequence.
LEMMA FlatNumbers ==
  ASSUME NEW S, NEW m \in Seq(Seq(S)), \A i \in 1 .. Len(m) : Len(m[i]) = 1
  PROVE  /\ Len(FlattenSeq(m)) = Len(m)
         /\ \A i \in 1 .. Len(m) : FlattenSeq(m)[i] = m[i][1]
<1> DEFINE P == {n \in Nat : n <= Len(m) => Len(Upto(m, n)) = n}
<1>1. 0 \in P
  <2>1. Len(Upto(m, 0)) = 0
    BY UptoNone
  <2> QED  BY <2>1
<1>2. ASSUME NEW n \in Nat, n \in P PROVE n + 1 \in P
  <2> SUFFICES ASSUME n + 1 <= Len(m) PROVE Len(Upto(m, n + 1)) = n + 1
    OBVIOUS
  <2>1. n < Len(m) /\ n <= Len(m) /\ n + 1 \in 1 .. Len(m)
    OBVIOUS
  <2>2. Len(Upto(m, n + 1)) = Len(Upto(m, n)) + Len(m[n + 1])
    BY <2>1, FlatPlaces
  <2>3. Len(Upto(m, n)) = n /\ Len(m[n + 1]) = 1
    BY <1>2, <2>1
  <2> QED  BY <2>2, <2>3
<1> HIDE DEF P
<1>3. \A n \in 0 .. Len(m) : Len(Upto(m, n)) = n
  <2>1. Nat \subseteq P
    BY <1>1, <1>2, Induct
  <2> QED  BY <2>1 DEF P
<1>4. Len(FlattenSeq(m)) = Len(m)
  <2>1. Len(m) \in 0 .. Len(m)
    OBVIOUS
  <2> QED  BY <1>3, <2>1, FlatIsSeq
<1>5. ASSUME NEW i \in 1 .. Len(m) PROVE FlattenSeq(m)[i] = m[i][1]
  <2>1. i - 1 \in Nat /\ i - 1 < Len(m) /\ (i - 1) + 1 = i /\ i - 1 \in 0 .. Len(m)
    OBVIOUS
  <2>2. Len(Upto(m, i - 1)) = i - 1 /\ Len(m[i]) = 1
    BY <1>3, <2>1
  <2>3. \A k \in 1 .. Len(m[(i - 1) + 1]) :
           FlattenSeq(m)[Len(Upto(m, i - 1)) + k] = m[(i - 1) + 1][k]
    BY <2>1, FlatPlaces
  <2>4. 1 \in 1 .. Len(m[i])
    BY <2>2
  <2>5. FlattenSeq(m)[(i - 1) + 1] = m[i][1]
    BY <2>1, <2>2, <2>3, <2>4, Zenon
  <2> QED  BY <2>1, <2>5
<1> QED  BY <1>4, <1>5

\* Cells that are numbers or begin with a mark, and a message without marks:
\* they are all numbers.
LEMMA NoMarks ==
  ASSUME NEW S, NEW m \in Seq(Seq(S)), NEW M,
         \A i \in 1 .. Len(m) : Len(m[i]) = 1 \/ (Len(m[i]) > 0 /\ m[i][1] \in M),
         \A i \in 1 .. Len(FlattenSeq(m)) : FlattenSeq(m)[i] \notin M
  PROVE  \A i \in 1 .. Len(m) : Len(m[i]) = 1
<1> DEFINE P == {n \in Nat : n <= Len(m) =>
                   Len(Upto(m, n)) = n /\ \A i \in 1 .. n : Len(m[i]) = 1}
<1>1. 0 \in P
  <2>1. Len(Upto(m, 0)) = 0
    BY UptoNone
  <2> QED  BY <2>1
<1>2. ASSUME NEW n \in Nat, n \in P PROVE n + 1 \in P
  <2> SUFFICES ASSUME n + 1 <= Len(m)
               PROVE  Len(Upto(m, n + 1)) = n + 1 /\ \A i \in 1 .. n + 1 : Len(m[i]) = 1
    OBVIOUS
  <2>1. n < Len(m) /\ n <= Len(m) /\ n + 1 \in 1 .. Len(m)
    OBVIOUS
  <2>2. /\ Len(m[n + 1]) \in Nat
        /\ Len(Upto(m, n + 1)) = Len(Upto(m, n)) + Len(m[n + 1])
        /\ Len(Upto(m, n + 1)) <= Len(FlattenSeq(m))
        /\ \A k \in 1 .. Len(m[n + 1]) : FlattenSeq(m)[Len(Upto(m, n)) + k] = m[n + 1][k]
    BY <2>1, FlatPlaces
  <2>3. Len(Upto(m, n)) = n /\ \A i \in 1 .. n : Len(m[i]) = 1
    BY <1>2, <2>1
  <2>4. Len(m[n + 1]) > 0
    <3>1. Len(m[n + 1]) = 1 \/ Len(m[n + 1]) > 0
      BY <2>1, Zenon
    <3>2. 1 > 0
      OBVIOUS
    <3> QED  BY <3>1, <3>2, Zenon
  <2>5. 1 \in 1 .. Len(m[n + 1]) /\ n + 1 <= Len(FlattenSeq(m))
    <3>1. Len(FlattenSeq(m)) \in Nat
      BY FlatIsSeq
    <3> QED  BY <2>2, <2>3, <2>4, <3>1
  <2>6. FlattenSeq(m)[n + 1] = m[n + 1][1]
    BY <2>2, <2>3, <2>5, Zenon
  <2>7. n + 1 \in 1 .. Len(FlattenSeq(m))
    <3>1. Len(FlattenSeq(m)) \in Nat
      BY FlatIsSeq
    <3> QED  BY <2>5, <3>1
  <2>8. Len(m[n + 1]) = 1
    BY <2>1, <2>6, <2>7
  <2>9. \A i \in 1 .. n + 1 : i \in 1 .. n \/ i = n + 1
    OBVIOUS
  <2> QED  BY <2>2, <2>3, <2>8, <2>9
<1> HIDE DEF P
<1>3. Nat \subseteq P
  BY <1>1, <1>2, Induct
<1>4. Len(m) \in Nat /\ Len(m) <= Len(m)
  OBVIOUS
<1> QED  BY <1>3, <1>4 DEF P

\* A sequence of two elements.
LEMMA Pair ==
  ASSUME NEW S, NEW s \in Seq(S), Len(s) = 2
  PROVE  s[1] \in S /\ s[2] \in S /\ s = <<s[1], s[2]>>
OBVIOUS

\* Two cells, flattened.
LEMMA FlatTwo ==
  ASSUME NEW S, NEW a \in Seq(S), NEW b \in Seq(S)
  PROVE  FlattenSeq(<<a, b>>) = a \o b
<1> DEFINE m == <<a, b>>
<1>1. m \in Seq(Seq(S)) /\ Len(m) = 2 /\ m[0 + 1] = a /\ m[1 + 1] = b
  OBVIOUS
<1> HIDE DEF m
<1>4. 0 + 1 = 1 /\ 1 + 1 = 2 /\ 0 \in Nat /\ 1 \in Nat /\ 0 < Len(m) /\ 1 < Len(m)
  BY <1>1
<1>2. Upto(m, 0 + 1) = Upto(m, 0) \o m[0 + 1]
  BY <1>1, <1>4, UptoSteps
<1>3. Upto(m, 1 + 1) = Upto(m, 1) \o m[1 + 1]
  BY <1>1, <1>4, UptoSteps
<1>5. <<>> \o a = a
  BY ConcatEmptySeq
<1>6. FlattenSeq(m) = Upto(m, 2)
  BY <1>1, FlatIsSeq
<1>7. Upto(m, 2) = a \o b
  BY <1>1, <1>2, <1>3, <1>4, <1>5, UptoNone
<1> QED  BY <1>6, <1>7 DEF m

-----------------------------------------------------------------------------
(* The cells of a quote: what hosts write into one.                        *)

\* What a cell of a quote can be: an integer field,
IsNumber(c) == \E n \in Nat : c = N(n)
\* the signature of a TD's quote by its attestation key,
IsQuoteSignature(c) ==
  \E td \in TdHosts, f \in WrittenForms : c = Sign(td.platform.ak, Body(td, f))
\* the signature of a quoting enclave's report by its PCK,
IsQeSignature(c) ==
  \E td \in TdHosts, f \in WrittenForms :
     c = Sign(td.platform.pck, QeReport(td.platform, Auth(f)))
\* the hash of an attestation key in that report,
IsQeHash(c) ==
  \E td \in TdHosts, f \in WrittenForms : c = Sha256(<<N(td.platform.ak)>> \o Auth(f))
\* a certificate of a platform, of its CA or of its root.
IsCertificate(c) ==
  \E td \in TdHosts, der \in Seq(Nat) :
     LET p == td.platform
     IN  \/ c = Certificate(p.pck, p.ca, FALSE, p.certs.leaf, der)
         \/ c = Certificate(p.ca, p.root, p.certs.authority, p.certs.ca, der)
         \/ c = Certificate(p.root, p.root, TRUE, p.certs.ca, der)
QuoteCells ==
  {c \in Seq(Nat) :
     IsNumber(c) \/ IsQuoteSignature(c) \/ IsQeSignature(c) \/ IsQeHash(c) \/ IsCertificate(c)}

\* Two sequences over a set, joined.
LEMMA Joined ==
  ASSUME NEW S, NEW s \in Seq(S), NEW t \in Seq(S)
  PROVE  s \o t \in Seq(S) /\ Len(s \o t) = Len(s) + Len(t)
BY ConcatProperties

\* DER that is written is a sequence of numbers.
LEMMA TlvIs ==
  ASSUME NEW tag \in Nat, NEW content \in Seq(Nat)
  PROVE  Tlv(tag, content) \in Seq(Nat)
<1>1. DerLen(Len(content)) \in Seq(Nat)
  <2>1. PICK n \in Nat : n = Len(content)
    OBVIOUS
  <2>2. n < 128 \/ n \in 128 .. 255 \/ n > 255
    OBVIOUS
  <2>3. n \div 256 \in Nat /\ n % 256 \in Nat
    OBVIOUS
  <2>4. <<n>> \in Seq(Nat) /\ <<129, n>> \in Seq(Nat) /\ <<130, n \div 256, n % 256>> \in Seq(Nat)
    BY <2>3
  <2> QED  BY <2>1, <2>2, <2>4, Zenon DEF DerLen
<1>2. <<tag>> \in Seq(Nat)
  OBVIOUS
<1> QED  BY <1>1, <1>2, Joined DEF Tlv

\* And so is the PCK certificate of every platform, whatever its extensions.
LEMMA PckDerIs ==
  ASSUME NEW p, p.fmspc \in Seq(Nat), NEW critical \in BOOLEAN, NEW filler \in Nat
  PROVE  PckDer(p, critical, filler) \in Seq(Nat)
<1> DEFINE entries == SgxEntry(<<3>>, Tlv(OCTET_STRING, <<9>>))
                      \o SgxEntry(OID_INTEL_SGX_FMSPC, Tlv(OCTET_STRING, p.fmspc))
           flag == IF critical THEN Tlv(BOOLEAN_TAG, <<255>>) ELSE <<>>
           zeros == [i \in 1 .. filler |-> 0]
           exts == Extension(<<4>>, flag, zeros)
                   \o Extension(OID_INTEL_SGX_EXTENSION, flag, Tlv(SEQUENCE, entries))
<1>1. /\ {SEQUENCE, OID, OCTET_STRING, BOOLEAN_TAG, CONTEXT_3, 2, 3} \subseteq Nat
      /\ OID_INTEL_SGX_FMSPC \in Seq(Nat) /\ OID_INTEL_SGX_EXTENSION \in Seq(Nat)
  BY DEF SEQUENCE, OID, OCTET_STRING, BOOLEAN_TAG, CONTEXT_3, OID_INTEL_SGX_FMSPC,
         OID_INTEL_SGX_EXTENSION
<1>2. <<>> \in Seq(Nat) /\ \A n \in {0, 1, 3, 4, 9, 255} : <<n>> \in Seq(Nat)
  OBVIOUS
<1>3. \A oid, value \in Seq(Nat) : SgxEntry(oid, value) \in Seq(Nat)
  BY <1>1, TlvIs, Joined DEF SgxEntry
<1>4. \A oid, f, content \in Seq(Nat) : Extension(oid, f, content) \in Seq(Nat)
  <2> TAKE oid, f, content \in Seq(Nat)
  <2>1. Tlv(OID, oid) \in Seq(Nat) /\ Tlv(OCTET_STRING, content) \in Seq(Nat)
    BY <1>1, TlvIs
  <2>2. Tlv(OID, oid) \o f \o Tlv(OCTET_STRING, content) \in Seq(Nat)
    BY <2>1, Joined
  <2> QED  BY <1>1, <2>2, TlvIs DEF Extension
<1>5. zeros \in Seq(Nat)
  OBVIOUS
<1>6. entries \in Seq(Nat)
  <2>1. \A v \in Seq(Nat) : Tlv(OCTET_STRING, v) \in Seq(Nat)
    BY <1>1, TlvIs
  <2>2. SgxEntry(<<3>>, Tlv(OCTET_STRING, <<9>>)) \in Seq(Nat)
    BY <1>2, <1>3, <2>1
  <2>3. SgxEntry(OID_INTEL_SGX_FMSPC, Tlv(OCTET_STRING, p.fmspc)) \in Seq(Nat)
    BY <1>1, <1>3, <2>1
  <2> QED  BY <2>2, <2>3, Joined
<1>7. flag \in Seq(Nat)
  BY <1>1, <1>2, TlvIs
<1>8. exts \in Seq(Nat)
  <2> HIDE DEF entries, flag, zeros
  <2>1. Tlv(SEQUENCE, entries) \in Seq(Nat)
    BY <1>1, <1>6, TlvIs
  <2>2. Extension(<<4>>, flag, zeros) \in Seq(Nat)
    BY <1>2, <1>4, <1>5, <1>7
  <2>3. Extension(OID_INTEL_SGX_EXTENSION, flag, Tlv(SEQUENCE, entries)) \in Seq(Nat)
    BY <1>1, <1>4, <1>7, <2>1
  <2> QED  BY <2>2, <2>3, Joined
<1> DEFINE tbs == Tlv(2, <<1>>) \o Tlv(CONTEXT_3, Tlv(SEQUENCE, exts))
<1>9. tbs \in Seq(Nat)
  <2> HIDE DEF exts
  <2>1. Tlv(2, <<1>>) \in Seq(Nat)
    BY <1>1, <1>2, TlvIs
  <2>2. Tlv(SEQUENCE, exts) \in Seq(Nat)
    BY <1>1, <1>8, TlvIs
  <2>3. Tlv(CONTEXT_3, Tlv(SEQUENCE, exts)) \in Seq(Nat)
    BY <1>1, <2>2, TlvIs
  <2> QED  BY <2>1, <2>3, Joined
<1>10. Tlv(SEQUENCE, Tlv(SEQUENCE, tbs) \o Tlv(3, <<0>>)) \in Seq(Nat)
  <2> HIDE DEF tbs
  <2>1. Tlv(3, <<0>>) \in Seq(Nat)
    BY <1>1, <1>2, TlvIs
  <2>2. Tlv(SEQUENCE, tbs) \in Seq(Nat)
    BY <1>1, <1>9, TlvIs
  <2>3. Tlv(SEQUENCE, tbs) \o Tlv(3, <<0>>) \in Seq(Nat)
    BY <2>1, <2>2, Joined
  <2> QED  BY <1>1, <2>3, TlvIs
<1> QED  BY <1>10 DEF PckDer

\* The bodies the code knows and their sizes.
LEMMA BodySizeIs ==
  /\ DOMAIN BodySize = {2, 3, 4}
  /\ BodySize[2] = 2 /\ BodySize[3] = 3 /\ BodySize[4] = 5
BY DEF BodySize, Tdx10, TD_QUOTE_BODY_V1_0_SIZE, TD_QUOTE_BODY_V1_5_SIZE,
       TD_QUOTE_BODY_V1_5_EX_SIZE

\* The layouts a quote is written in.
LEMMA FormIs ==
  ASSUME NEW f \in WrittenForms
  PROVE  /\ f.layout \in {"v4", "v5", "behind"} /\ f.type \in {2, 3, 4} /\ f.envelope \in 0 .. 2
         /\ f.chain \in {"bare", "length", "identity"} /\ f.auth \in 0 .. 1
         /\ f.layout = "v4" => f.type = 2
         /\ f.layout = "behind" => f.type \in {2, 3}
BY BodySizeIs DEF WrittenForms, TdForms, Tdx10

\* The cells that hold an integer field.
NumberCells == {N(n) : n \in Numbers}

\* A cell that holds an integer field.
LEMMA Field ==
  ASSUME NEW n \in Nat
  PROVE  N(n) \in QuoteCells /\ N(n) \in Seq(Nat) /\ Len(N(n)) = 1 /\ Num(N(n)) = n
<1>1. N(n) \in Seq(Nat)
  BY DEF N
<1>2. IsNumber(N(n))
  BY DEF IsNumber
<1> QED  BY <1>1, <1>2 DEF QuoteCells, N, Num

\* A small number is no mark.
LEMMA Small ==
  ASSUME NEW n \in 0 .. 699
  PROVE  n \in Numbers /\ N(n) \in NumberCells
<1>1. n \in Nat /\ n # 700 /\ n # 800 /\ n # 900
  OBVIOUS
<1> QED  BY <1>1 DEF Numbers, Marks, Pem, HashMark, SignatureMark, NumberCells

\* An integer field is a cell of a quote.
LEMMA NumberCellsAreCells == NumberCells \subseteq QuoteCells
BY Field DEF NumberCells, Numbers

\* What PlatformAssumption says of the types of a TD.
LEMMA HostIs ==
  ASSUME NEW td \in TdHosts
  PROVE  /\ td.mr \in Numbers /\ td.data \in Numbers
         /\ td.platform.qe \in Numbers /\ td.platform.ak \in Numbers
         /\ td.platform.pck \in Numbers /\ td.platform.ca \in Numbers
         /\ td.platform.root \in Numbers
         /\ td.platform.fmspc \in Seq(Nat)
         /\ td.platform.certs.leaf \in Nat \X Nat /\ td.platform.certs.ca \in Nat \X Nat
         /\ td.platform.certs.authority \in BOOLEAN
<1>1. /\ {td.mr, td.data, td.platform.qe, td.platform.ak, td.platform.pck, td.platform.ca,
          td.platform.root} \subseteq Numbers
      /\ td.platform.fmspc \in Seq(Nat) /\ td.platform.certs \in Certified
  BY Zenon, PlatformAssumption DEF PlatformAssumption
<1> QED  BY <1>1 DEF Certified

\* The header holds integer fields only.
LEMMA HeadIs ==
  ASSUME NEW f \in WrittenForms
  PROVE  QuoteHead(f) \in Seq(NumberCells)
<1> DEFINE size == N(BodySize[f.type])
<1>1. BodySize[f.type] \in 0 .. 699 /\ f.type \in 0 .. 699
  BY FormIs, BodySizeIs
<1>2. \A n \in {0, 4, 5, 129, 600} : N(n) \in NumberCells
  <2>1. \A n \in {0, 4, 5, 129, 600} : n \in 0 .. 699
    OBVIOUS
  <2> QED  BY <2>1, Small
<1>3. size \in NumberCells /\ N(f.type) \in NumberCells /\ N(TDX) \in NumberCells
  BY <1>1, <1>2, Small, SMTT(30) DEF TDX
<1> HIDE DEF size
<1>4. CASE f.layout = "v4"
  <2>1. <<N(4), N(TDX), N(0)>> \in Seq(NumberCells)
    BY <1>2, <1>3
  <2> QED  BY <1>4, <2>1 DEF QuoteHead
<1>5. CASE f.layout = "v5"
  <2>1. <<N(5), N(TDX), N(0), N(f.type), size>> \in Seq(NumberCells)
    BY <1>2, <1>3
  <2> QED  BY <1>5, <2>1 DEF QuoteHead, size
<1>6. CASE f.layout = "behind"
  <2>1. <<N(5), N(TDX), N(0), N(0), N(0), N(f.type), size, N(600)>> \in Seq(NumberCells)
    BY <1>2, <1>3
  <2> QED  BY <1>6, <2>1 DEF QuoteHead, size
<1> QED  BY <1>4, <1>5, <1>6, FormIs

\* And so does the signed part of a quote.
LEMMA BodyIs ==
  ASSUME NEW td \in TdHosts, NEW f \in WrittenForms
  PROVE  Body(td, f) \in Seq(NumberCells)
<1> DEFINE rest == [i \in 1 .. (BodySize[f.type] - 2) |-> N(30 + i)]
           own == <<N(td.mr), N(td.data)>>
<1>1. BodySize[f.type] - 2 \in 0 .. 3
  BY FormIs, BodySizeIs
<1>2. rest \in Seq(NumberCells)
  <2>1. PICK k \in 0 .. 3 : k = BodySize[f.type] - 2
    BY <1>1
  <2>2. \A i \in 1 .. k : 30 + i \in 0 .. 699
    BY <2>1
  <2>3. \A i \in 1 .. k : N(30 + i) \in NumberCells
    BY <2>2, Small
  <2>4. [i \in 1 .. k |-> N(30 + i)] \in Seq(NumberCells)
    BY <2>3
  <2> QED  BY <2>1, <2>4
<1>3. own \in Seq(NumberCells)
  <2>1. N(td.mr) \in NumberCells /\ N(td.data) \in NumberCells
    BY HostIs DEF NumberCells
  <2> QED  BY <2>1
<1> HIDE DEF rest, own
<1>4. QuoteHead(f) \o own \in Seq(NumberCells)
  BY <1>3, HeadIs, Joined
<1>5. (QuoteHead(f) \o own) \o rest \in Seq(NumberCells)
  BY <1>2, <1>4, Joined
<1> QED  BY <1>5 DEF Body, own, rest

\* A sequence over a set is one over any larger set.
LEMMA Wider ==
  ASSUME NEW S, NEW T, S \subseteq T, NEW s \in Seq(S)
  PROVE  s \in Seq(T)
OBVIOUS

\* Signatures and hashes are cells.
LEMMA SignIs ==
  ASSUME NEW key \in Nat, NEW message \in Seq(Seq(Nat))
  PROVE  /\ Sign(key, message) \in Seq(Nat) /\ Sha256(message) \in Seq(Nat)
<1>1. FlattenSeq(message) \in Seq(Nat)
  BY FlatIsSeq
<1>2. <<SignatureMark, key>> \in Seq(Nat) /\ <<HashMark>> \in Seq(Nat)
  BY DEF SignatureMark, HashMark
<1> QED  BY <1>1, <1>2, Joined DEF Sign, Sha256

\* The authentication data of the quoting enclave: none, or one number.
LEMMA AuthIs ==
  ASSUME NEW f \in WrittenForms
  PROVE  Auth(f) \in Seq(NumberCells) /\ Auth(f) = (IF f.auth = 0 THEN <<>> ELSE <<N(40)>>)
<1>1. N(40) \in NumberCells
  BY Small
<1>2. PICK k \in 0 .. 1 : k = f.auth
  BY FormIs
<1>3. k = 0 \/ k = 1
  OBVIOUS
<1>4. k = 0 => [i \in 1 .. k |-> N(40)] = <<>>
  OBVIOUS
<1>5. k = 1 => [i \in 1 .. k |-> N(40)] = <<N(40)>>
  OBVIOUS
<1>6. Auth(f) = (IF f.auth = 0 THEN <<>> ELSE <<N(40)>>)
  BY <1>2, <1>3, <1>4, <1>5 DEF Auth
<1> QED  BY <1>1, <1>6

\* The quoting enclave's report is made of cells of a quote.
LEMMA QeIs ==
  ASSUME NEW td \in TdHosts, NEW f \in WrittenForms
  PROVE  /\ QeReport(td.platform, Auth(f)) \in Seq(QuoteCells)
         /\ <<N(td.platform.ak)>> \o Auth(f) \in Seq(Seq(Nat))
<1>1. td.platform.qe \in Nat /\ td.platform.ak \in Nat
  BY HostIs DEF Numbers
<1>2. N(td.platform.qe) \in QuoteCells /\ N(td.platform.ak) \in Seq(Nat)
  BY <1>1, Field
<1>3. Auth(f) \in Seq(Seq(Nat))
  <2>1. NumberCells \subseteq Seq(Nat)
    BY NumberCellsAreCells DEF QuoteCells
  <2> QED  BY <2>1, AuthIs, Wider
<1>4. <<N(td.platform.ak)>> \o Auth(f) \in Seq(Seq(Nat))
  <2>1. <<N(td.platform.ak)>> \in Seq(Seq(Nat))
    BY <1>2
  <2> QED  BY <1>3, <2>1, Joined
<1>5. Sha256(<<N(td.platform.ak)>> \o Auth(f)) \in QuoteCells
  <2>1. Sha256(<<N(td.platform.ak)>> \o Auth(f)) \in Seq(Nat)
    BY <1>1, <1>4, SignIs
  <2> QED  BY <2>1 DEF QuoteCells, IsQeHash
<1> QED  BY <1>2, <1>4, <1>5 DEF QeReport

\* A cell is a sequence of numbers, a quote a sequence of those.
LEMMA CellsAreSeqs == QuoteCells \subseteq Seq(Nat) /\ Seq(QuoteCells) \subseteq Seq(Seq(Nat))
<1>1. QuoteCells \subseteq Seq(Nat)
  BY DEF QuoteCells
<1> QED  BY <1>1, Wider

\* The certificates of a platform, in every layout, are cells of a quote.
LEMMA ChainDataIs ==
  ASSUME NEW td \in TdHosts, NEW f \in WrittenForms
  PROVE  ChainData(td.platform, f) \in Seq(QuoteCells)
<1> DEFINE p == td.platform
           der == PckDer(p, f.auth = 1, 130 * f.envelope)
           certs == Chain(p, der)
<1>1. der \in Seq(Nat)
  <2>1. p.fmspc \in Seq(Nat)
    BY HostIs
  <2>2. 130 * f.envelope \in Nat
    <3>1. PICK k \in 0 .. 2 : k = f.envelope
      BY FormIs
    <3>2. 130 * k \in Nat
      OBVIOUS
    <3> QED  BY <3>1, <3>2
  <2> QED  BY <2>1, <2>2, PckDerIs
<1> HIDE DEF der
<1>2. \A k, i \in Nat, ca \in BOOLEAN, when \in Nat \X Nat, d \in Seq(Nat) :
         Certificate(k, i, ca, when, d) \in Seq(Nat)
  <2> TAKE k, i \in Nat, ca \in BOOLEAN, when \in Nat \X Nat, d \in Seq(Nat)
  <2>1. PICK n \in Nat : n = IF ca THEN 1 ELSE 0
    OBVIOUS
  <2>2. when[1] \in Nat /\ when[2] \in Nat
    OBVIOUS
  <2>3. <<Pem, k, i, n, when[1], when[2]>> \in Seq(Nat)
    BY <2>2 DEF Pem
  <2> QED  BY <2>1, <2>3, Joined DEF Certificate
<1>3. PICK a, b, c :
         /\ a = Certificate(p.pck, p.ca, FALSE, p.certs.leaf, der)
         /\ b = Certificate(p.ca, p.root, p.certs.authority, p.certs.ca, <<>>)
         /\ c = Certificate(p.root, p.root, TRUE, p.certs.ca, <<>>)
         /\ a \in QuoteCells /\ b \in QuoteCells /\ c \in QuoteCells
  <2>1. /\ p.pck \in Nat /\ p.ca \in Nat /\ p.root \in Nat /\ <<>> \in Seq(Nat)
        /\ p.certs.leaf \in Nat \X Nat /\ p.certs.ca \in Nat \X Nat
        /\ p.certs.authority \in BOOLEAN /\ TRUE \in BOOLEAN /\ FALSE \in BOOLEAN
    BY HostIs DEF Numbers
  <2>2. PICK a, b, c :
           /\ a = Certificate(p.pck, p.ca, FALSE, p.certs.leaf, der)
           /\ b = Certificate(p.ca, p.root, p.certs.authority, p.certs.ca, <<>>)
           /\ c = Certificate(p.root, p.root, TRUE, p.certs.ca, <<>>)
    OBVIOUS
  <2>3. IsCertificate(a) /\ IsCertificate(b) /\ IsCertificate(c)
    BY <1>1, <2>1, <2>2, Zenon DEF IsCertificate
  <2>4. a \in Seq(Nat) /\ b \in Seq(Nat) /\ c \in Seq(Nat)
    BY <1>1, <1>2, <2>1, <2>2, Zenon
  <2> QED  BY <2>2, <2>3, <2>4, Zenon DEF QuoteCells
<1>4. certs \in Seq(QuoteCells)
  <2>1. certs = <<a, b, c>>
    BY <1>3, Zenon DEF Chain
  <2>2. \A x, y, z \in QuoteCells : <<x, y, z>> \in Seq(QuoteCells)
    OBVIOUS
  <2> QED  BY <1>3, <2>1, <2>2, Zenon
<1> HIDE DEF certs
<1>5. \A n \in Nat : <<N(n)>> \in Seq(QuoteCells)
  BY Field
<1>6. <<N(Len(certs))>> \in Seq(QuoteCells) /\ <<N(1), N(77)>> \in Seq(QuoteCells)
  <2>1. Len(certs) \in Nat
    BY <1>4
  <2>2. N(1) \in QuoteCells /\ N(77) \in QuoteCells
    BY Field
  <2> QED  BY <1>5, <2>1, <2>2
<1>7. <<N(Len(certs))>> \o certs \in Seq(QuoteCells)
  BY <1>4, <1>6, Joined
<1>8. (<<N(Len(certs))>> \o certs) \o <<N(1), N(77)>> \in Seq(QuoteCells)
  BY <1>6, <1>7, Joined
<1>9. LaidOut(certs, f.chain) \in Seq(QuoteCells)
  <2>1. f.chain = "bare" \/ f.chain = "length" \/ f.chain = "identity"
    BY FormIs
  <2> QED  BY <1>4, <1>7, <1>8, <2>1 DEF LaidOut
<1> QED  BY <1>9 DEF ChainData, certs, der

\* And so they are with a length before them.
LEMMA SizedIs ==
  ASSUME NEW cells \in Seq(QuoteCells)
  PROVE  Sized(cells) \in Seq(QuoteCells)
<1>1. Len(cells) \in Nat
  OBVIOUS
<1>2. <<N(Len(cells))>> \in Seq(QuoteCells)
  BY <1>1, Field
<1> QED  BY <1>2, Joined DEF Sized

\* What the quote generation service writes.
LEMMA QuoteIs ==
  ASSUME NEW td \in TdHosts, NEW f \in WrittenForms
  PROVE  Quote(td, f) \in Seq(QuoteCells)
<1> DEFINE p == td.platform
           auth == Auth(f)
           qe == QeReport(p, auth)
           chain == ChainData(p, f)
           message == Body(td, f)
           aux == SigAux(p, qe, auth, chain)
           data == SignatureData(p, message, aux)
           q == SignedQuote(p, f, message)
<1>1. /\ auth \in Seq(QuoteCells) /\ qe \in Seq(QuoteCells) /\ chain \in Seq(QuoteCells)
      /\ message \in Seq(QuoteCells)
  BY AuthIs, QeIs, ChainDataIs, BodyIs, NumberCellsAreCells, Wider
<1>2. Sign(p.pck, qe) \in QuoteCells /\ Sign(p.ak, message) \in QuoteCells
  <2>1. p.pck \in Nat /\ p.ak \in Nat
    BY HostIs DEF Numbers
  <2>2. Sign(p.pck, qe) \in Seq(Nat) /\ Sign(p.ak, message) \in Seq(Nat)
    BY <1>1, <2>1, CellsAreSeqs, SignIs
  <2>3. IsQeSignature(Sign(p.pck, qe))
    BY DEF IsQeSignature
  <2>4. IsQuoteSignature(Sign(p.ak, message))
    BY DEF IsQuoteSignature
  <2> QED  BY <2>2, <2>3, <2>4 DEF QuoteCells
<1>3. /\ N(p.ak) \in QuoteCells /\ N(PCK_CERT_CHAIN) \in QuoteCells
      /\ N(ECDSA_SIG_AUX_DATA) \in QuoteCells
  <2>1. p.ak \in Nat /\ PCK_CERT_CHAIN \in Nat /\ ECDSA_SIG_AUX_DATA \in Nat
    BY HostIs DEF Numbers, PCK_CERT_CHAIN, ECDSA_SIG_AUX_DATA
  <2> QED  BY <2>1, Field
<1> HIDE DEF auth, qe, chain, message
<1>4. aux \in Seq(QuoteCells)
  <2>1. <<Sign(p.pck, qe)>> \in Seq(QuoteCells) /\ <<N(PCK_CERT_CHAIN)>> \in Seq(QuoteCells)
    BY <1>2, <1>3
  <2>2. qe \o <<Sign(p.pck, qe)>> \in Seq(QuoteCells)
    BY <1>1, <2>1, Joined
  <2>3. (qe \o <<Sign(p.pck, qe)>>) \o Sized(auth) \in Seq(QuoteCells)
    BY <1>1, <2>2, SizedIs, Joined
  <2>4. ((qe \o <<Sign(p.pck, qe)>>) \o Sized(auth)) \o <<N(PCK_CERT_CHAIN)>> \in Seq(QuoteCells)
    BY <2>1, <2>3, Joined
  <2>5. Sized(chain) \in Seq(QuoteCells)
    BY <1>1, SizedIs
  <2>6. (((qe \o <<Sign(p.pck, qe)>>) \o Sized(auth)) \o <<N(PCK_CERT_CHAIN)>>) \o Sized(chain)
           \in Seq(QuoteCells)
    BY <2>4, <2>5, Joined
  <2> QED  BY <2>6 DEF SigAux
<1> HIDE DEF aux
<1>5. data \in Seq(QuoteCells)
  <2>1. <<Sign(p.ak, message), N(p.ak), N(ECDSA_SIG_AUX_DATA)>> \in Seq(QuoteCells)
    BY <1>2, <1>3
  <2> QED  BY <1>4, <2>1, SizedIs, Joined DEF SignatureData
<1> HIDE DEF data
<1>6. q \in Seq(QuoteCells)
  <2>1. message \o Sized(data) \in Seq(QuoteCells)
    BY <1>1, <1>5, SizedIs, Joined
  <2> QED  BY <2>1 DEF SignedQuote, data, aux, chain, qe, auth
<1> HIDE DEF q
<1>7. \A id \in Seq(QuoteCells) : Enclosed(q, id) \in Seq(QuoteCells)
  <2> TAKE id \in Seq(QuoteCells)
  <2>1. /\ GET_QUOTE_RESP \in Nat /\ QGS_GET_QUOTE_RESP_PREFIX_SIZE + Len(id) + Len(q) \in Nat
        /\ Len(id) \in Nat /\ Len(q) \in Nat /\ 0 \in Nat /\ 1 \in Nat
    BY <1>6 DEF GET_QUOTE_RESP, QGS_GET_QUOTE_RESP_PREFIX_SIZE
  <2>2. <<N(1), N(GET_QUOTE_RESP), N(QGS_GET_QUOTE_RESP_PREFIX_SIZE + Len(id) + Len(q)),
          N(0), N(Len(id)), N(Len(q))>> \in Seq(QuoteCells)
    BY <2>1, Field
  <2>3. <<N(1), N(GET_QUOTE_RESP), N(QGS_GET_QUOTE_RESP_PREFIX_SIZE + Len(id) + Len(q)),
          N(0), N(Len(id)), N(Len(q))>> \o id \in Seq(QuoteCells)
    BY <2>2, Joined
  <2> QED  BY <1>6, <2>3, Joined DEF Enclosed
<1>8. Wrapped(q, f) \in Seq(QuoteCells)
  <2>1. f.envelope # 0 => [i \in 1 .. (f.envelope - 1) |-> N(50)] \in Seq(QuoteCells)
    <3>1. N(50) \in QuoteCells
      BY Field
    <3>2. f.envelope # 0 => f.envelope - 1 \in Nat
      BY FormIs
    <3> QED  BY <3>1, <3>2
  <2> QED  BY <1>6, <1>7, <2>1 DEF Wrapped
<1> QED  BY <1>8 DEF Quote, q, message

-----------------------------------------------------------------------------
(* Damage: files hold pieces of what hosts write.                          *)

\* A sequence that is cut short.
LEMMA CutIs ==
  ASSUME NEW S, NEW s \in Seq(S), NEW i \in Nat, i <= Len(s)
  PROVE  SubSeq(s, 1, i) \in Seq(S) /\ Len(SubSeq(s, 1, i)) = i
<1>1. i \in 0 .. Len(s)
  OBVIOUS
<1> QED  BY <1>1, Firsts

\* What is left of a sequence behind a place.
LEMMA RestIs ==
  ASSUME NEW S, NEW s \in Seq(S), NEW i \in Nat, i <= Len(s)
  PROVE  From(s, i + 1) \in Seq(S) /\ Len(From(s, i + 1)) = Len(s) - i
<1>1. Len(s) \in Nat /\ i + 1 \in Int /\ \A k \in (i + 1) .. Len(s) : s[k] \in S
  OBVIOUS
<1>2. /\ SubSeq(s, i + 1, Len(s)) \in Seq(S)
      /\ Len(SubSeq(s, i + 1, Len(s))) = IF i + 1 <= Len(s) THEN Len(s) - (i + 1) + 1 ELSE 0
  BY <1>1, SubSeqProperties
<1>3. (IF i + 1 <= Len(s) THEN Len(s) - (i + 1) + 1 ELSE 0) = Len(s) - i
  BY <1>1
<1> QED  BY <1>2, <1>3 DEF From

\* A sequence with one element replaced.
LEMMA ChangedIs ==
  ASSUME NEW S, NEW s \in Seq(S), NEW i, NEW x \in S
  PROVE  [s EXCEPT ![i] = x] \in Seq(S) /\ Len([s EXCEPT ![i] = x]) = Len(s)
<1> DEFINE t == [k \in 1 .. Len(s) |-> IF k = i THEN x ELSE s[k]]
<1>1. [s EXCEPT ![i] = x] = t
  OBVIOUS
<1>2. Len(s) \in Nat /\ \A k \in 1 .. Len(s) : t[k] \in S
  OBVIOUS
<1>3. t \in Seq(S) /\ Len(t) = Len(s)
  BY <1>2
<1> QED  BY <1>1, <1>3

\* A sequence torn between two: made of elements of both, as long as the old.
LEMMA TornIs ==
  ASSUME NEW S, NEW old \in Seq(S), NEW new \in Seq(S), Len(old) <= Len(new),
         NEW d \in Torn(old, new)
  PROVE  d \in Seq(S) /\ Len(d) = Len(old)
<1>1. ASSUME NEW i \in 1 .. (Len(old) - 1), d = SubSeq(new, 1, i) \o From(old, i + 1)
      PROVE  d \in Seq(S) /\ Len(d) = Len(old)
  <2>1. i \in Nat /\ i <= Len(old) /\ i <= Len(new) /\ Len(old) \in Nat
    OBVIOUS
  <2>2. SubSeq(new, 1, i) \in Seq(S) /\ Len(SubSeq(new, 1, i)) = i
    BY <2>1, CutIs
  <2>3. From(old, i + 1) \in Seq(S) /\ Len(From(old, i + 1)) = Len(old) - i
    BY <2>1, RestIs
  <2>4. i + (Len(old) - i) = Len(old)
    BY <2>1
  <2> QED  BY <1>1, <2>2, <2>3, <2>4, Joined
<1>2. ASSUME NEW i \in DOMAIN old, d = [old EXCEPT ![i] = new[i]]
      PROVE  d \in Seq(S) /\ Len(d) = Len(old)
  <2>1. new[i] \in S
    OBVIOUS
  <2> QED  BY <1>2, <2>1, ChangedIs
<1> QED  BY <1>1, <1>2 DEF Torn

\* However a quote is damaged, its cells are ones somebody wrote (Damaged).
LEMMA DamagedQuote ==
  ASSUME NEW old \in Seq(QuoteCells), NEW new \in Seq(QuoteCells),
         NEW d \in Damaged("quote", old, new)
  PROVE  d \in Seq(QuoteCells)
<1>0. N(0) \in QuoteCells /\ N(6) \in QuoteCells /\ N(Pem) \in QuoteCells
  BY Field DEF Pem
<1>1. CASE \E i \in 0 .. (Len(old) - 1) : d = SubSeq(old, 1, i)
  BY <1>1, CutIs
<1>2. CASE \E i \in DOMAIN old : \/ d = [old EXCEPT ![i] = N(0)] \/ d = [old EXCEPT ![i] = N(6)]
                                 \/ d = [old EXCEPT ![i] = N(Pem)]
  BY <1>0, <1>2, ChangedIs
<1>3. CASE Len(new) = Len(old) /\ d \in Torn(old, new)
  <2>1. Len(old) <= Len(new)
    BY <1>3
  <2> QED  BY <1>3, <2>1, TornIs
<1>4. \/ \E i \in 0 .. (Len(old) - 1) : d = SubSeq(old, 1, i)
      \/ \E i \in DOMAIN old : \/ d = [old EXCEPT ![i] = N(0)] \/ d = [old EXCEPT ![i] = N(6)]
                               \/ d = [old EXCEPT ![i] = N(Pem)]
      \/ Len(new) = Len(old) /\ d \in Torn(old, new)
  BY ZenonT(60) DEF Damaged
<1> QED  BY <1>1, <1>2, <1>3, <1>4

-----------------------------------------------------------------------------
\* The fields of a report.
ReportFields ==
  {"size", "version", "signature_algo", "vmpl", "flags", "policy", "cpuid", "mitigation",
   "reserved", "padding", "measurement", "report_data", "reported_tcb", "chip_id", "signature"}

\* A report is signed as a whole, but for what the signature leaves out.
LEMMA ReportIs ==
  ASSUME NEW h, NEW f
  PROVE  /\ DOMAIN Report(h, f) = ReportFields
         /\ Report(h, f).signature.key = Vcek(h)
         /\ Report(h, f).signature.of.measurement = 60 + h.chip
         /\ Report(h, f).signature.of.report_data = 70 + h.chip
         /\ Report(h, f).signature.of.reported_tcb = Tcb(h)
         /\ Report(h, f).signature.of.chip_id = ChipId(h)
BY DEF Report, ReportFields, R!SnpSign, R!Signed

\* A report that is signed by one host, its other fields being of any.
ReportSignatures ==
  {Report(h, f).signature : h \in SnpHosts, f \in SnpForms}
IsReport(r) == DOMAIN r = ReportFields /\ r.signature \in ReportSignatures

\* However a report is damaged, its signature is one a host was given.
LEMMA DamagedReport ==
  ASSUME NEW old, NEW new, IsReport(old), IsReport(new), NEW d \in Damaged("report", old, new)
  PROVE  IsReport(d)
<1>1. \/ \E field \in DOMAIN old : d = [old EXCEPT ![field] = new[field]]
      \/ d = [old EXCEPT !.size = 1183] \/ d = [old EXCEPT !.padding = 1]
      \/ d = [old EXCEPT !.reserved = 1]
  BY ZenonT(60) DEF Damaged
<1>2. DOMAIN d = ReportFields
  BY <1>1 DEF IsReport
<1>3. d.signature = old.signature \/ d.signature = new.signature
  <2>1. "signature" \in DOMAIN old
    BY DEF IsReport, ReportFields
  <2> QED  BY <1>1, <2>1
<1> QED  BY <1>2, <1>3 DEF IsReport

\* The certificates of all SEV-SNP hosts, as they are or spoilt.
Spoilt(c, w) == [c EXCEPT !.whole = w]
Certificates ==
  {Spoilt(VcekChain(h, f)[i], w) :
     h \in SnpHosts, f \in SnpForms, i \in 1 .. 3, w \in BOOLEAN}
IsChain(c) == c \in Seq(Certificates) /\ Len(c) <= 3

\* A certificate, as it is made, is whole.
IsMade(c) == \E keys, names, ca, usage, period, ext : c = Amd(keys, names, ca, usage, period, ext)
LEMMA MadeWhole ==
  ASSUME NEW c, IsMade(c)
  PROVE  c.whole /\ Spoilt(c, TRUE) = c
<1>1. PICK keys, names, ca, usage, period, ext : c = Amd(keys, names, ca, usage, period, ext)
  BY Zenon DEF IsMade
<1>2. PICK t, w, k, g, x, y : /\ t = FALSE /\ w = TRUE /\ k = keys[1] /\ g = keys[2]
                             /\ x = <<names[1]>> /\ y = <<names[2]>>
  BY Zenon
<1>3. c = [key |-> k, signer |-> g, subject |-> x, issuer |-> y, ca |-> ca,
           usage |-> usage, period |-> period, ext |-> ext,
           curve |-> "secp384r1", trailing |-> t, whole |-> w]
  BY <1>1, <1>2, Zenon DEF Amd
<1>4. c.whole = w /\ [c EXCEPT !.whole = w] = c
  BY <1>3
<1> QED  BY <1>2, <1>4, Zenon DEF Spoilt

\* The certificates of a host: what they certify, who signed them, and when they
\* are in their periods.
LEMMA ChainIs ==
  ASSUME NEW h \in SnpHosts, NEW f \in SnpForms
  PROVE  LET c == VcekChain(h, f)
         IN  /\ c \in Seq(Certificates) /\ Len(c) = 3
             /\ c[1].key = Vcek(h) /\ c[1].signer = Ask(h) /\ c[1].period = h.certs.leaf
             /\ c[2].key = Ask(h) /\ c[2].signer = Ark(h.root) /\ c[2].period = h.certs.ca
             /\ c[2].ca = h.certs.authority
             /\ c[3].key = Ark(h.root) /\ c[3].signer = Ark(h.root)
             /\ \A i \in 1 .. 3 : c[i].whole
<1>0. PICK a, b, c :
         /\ a = Amd(<<Vcek(h), Ask(h)>>, <<"SEV-VCEK", h.generation>>, FALSE, h.usage,
                    h.certs.leaf, VcekExtensions(h, f))
         /\ b = Amd(<<Ask(h), Ark(h.root)>>, <<h.generation, "ARK">>, h.certs.authority,
                    "certify", h.certs.ca, <<>>)
         /\ c = Amd(<<Ark(h.root), Ark(h.root)>>, <<"ARK", "ARK">>, TRUE, "certify",
                    h.certs.ca, <<>>)
  OBVIOUS
<1>1. /\ a.key = Vcek(h) /\ a.signer = Ask(h) /\ a.period = h.certs.leaf
      /\ b.key = Ask(h) /\ b.signer = Ark(h.root) /\ b.period = h.certs.ca
      /\ b.ca = h.certs.authority
      /\ c.key = Ark(h.root) /\ c.signer = Ark(h.root)
  BY <1>0 DEF Amd
<1>2. IsMade(a) /\ IsMade(b) /\ IsMade(c)
  BY <1>0, Zenon DEF IsMade
<1>3. /\ a.whole /\ Spoilt(a, TRUE) = a
      /\ b.whole /\ Spoilt(b, TRUE) = b
      /\ c.whole /\ Spoilt(c, TRUE) = c
  BY <1>2, MadeWhole, Zenon
<1>4. PICK s : s = VcekChain(h, f)
  OBVIOUS
<1>5. s = <<a, b, c>>
  BY <1>0, <1>4, Zenon DEF VcekChain
<1>6. Len(s) = 3 /\ s[1] = a /\ s[2] = b /\ s[3] = c
  BY <1>5
<1>7. a \in Certificates /\ b \in Certificates /\ c \in Certificates
  <2>1. 1 \in 1 .. 3 /\ 2 \in 1 .. 3 /\ 3 \in 1 .. 3 /\ TRUE \in BOOLEAN
    OBVIOUS
  <2>2. ASSUME NEW i \in 1 .. 3 PROVE Spoilt(s[i], TRUE) \in Certificates
    <3>1. PICK w \in BOOLEAN : w = TRUE
      BY <2>1
    <3>2. Spoilt(VcekChain(h, f)[i], w) \in Certificates
      BY DEF Certificates
    <3> QED  BY <1>4, <3>1, <3>2, Zenon
  <2>3. /\ Spoilt(s[1], TRUE) \in Certificates
        /\ Spoilt(s[2], TRUE) \in Certificates
        /\ Spoilt(s[3], TRUE) \in Certificates
    BY <2>1, <2>2, Zenon
  <2> QED  BY <1>1, <1>2, <1>3, <1>6, <2>3, Zenon
<1>8. s \in Seq(Certificates)
  <2>1. <<a, b, c>> \in Seq(Certificates)
    BY <1>7
  <2> QED  BY <1>5, <2>1, Zenon
<1>9. \A i \in 1 .. 3 : s[i].whole
  <2>1. \A i \in 1 .. 3 : i = 1 \/ i = 2 \/ i = 3
    OBVIOUS
  <2> QED  BY <1>1, <1>2, <1>3, <1>6, <2>1, Zenon
<1> QED  BY <1>1, <1>2, <1>3, <1>4, <1>6, <1>8, <1>9, Zenon

\* However a chain is damaged, its certificates are ones a host was given.
LEMMA DamagedChain ==
  ASSUME NEW old, NEW new, IsChain(old), IsChain(new), Len(new) = 3,
         NEW d \in Damaged("chain", old, new)
  PROVE  IsChain(d)
<1>1. \/ \E i \in 0 .. (Len(old) - 1) : d = SubSeq(old, 1, i)
      \/ d \in Torn(old, new)
      \/ \E i \in DOMAIN old : d = [old EXCEPT ![i].whole = FALSE]
  BY ZenonT(60) DEF Damaged
<1>2. old \in Seq(Certificates) /\ new \in Seq(Certificates) /\ Len(old) <= Len(new) /\ Len(old) \in Nat
  BY DEF IsChain
<1>3. ASSUME NEW i \in 0 .. (Len(old) - 1), d = SubSeq(old, 1, i)
      PROVE  IsChain(d)
  <2>1. i \in Nat /\ i <= Len(old) /\ i <= 3
    BY <1>2
  <2> QED  BY <1>2, <1>3, <2>1, CutIs DEF IsChain
<1>4. ASSUME d \in Torn(old, new) PROVE IsChain(d)
  BY <1>2, <1>4, TornIs DEF IsChain
<1>5. ASSUME NEW i \in DOMAIN old, d = [old EXCEPT ![i].whole = FALSE]
      PROVE  IsChain(d)
  <2>1. PICK h \in SnpHosts, f \in SnpForms, k \in 1 .. 3, w \in BOOLEAN :
           old[i] = Spoilt(VcekChain(h, f)[k], w)
    BY <1>2 DEF Certificates
  <2>2. PICK no \in BOOLEAN : no = FALSE
    OBVIOUS
  <2>3. PICK c : c = Spoilt(VcekChain(h, f)[k], no)
    OBVIOUS
  <2>4. c \in Certificates
    BY <2>3 DEF Certificates
  <2>5. d = [old EXCEPT ![i] = c]
    <3>1. \A x, v, y : Spoilt(Spoilt(x, v), y) = Spoilt(x, y)
      BY DEF Spoilt
    <3>2. c = Spoilt(old[i], no)
      BY <2>1, <2>3, <3>1
    <3>3. d = [old EXCEPT ![i] = Spoilt(old[i], no)]
      BY <1>5, <2>2 DEF Spoilt
    <3> QED  BY <3>2, <3>3, Zenon
  <2>6. d \in Seq(Certificates) /\ Len(d) = Len(old)
    BY <1>2, <2>4, <2>5
  <2> QED  BY <2>6 DEF IsChain
<1> QED  BY <1>1, <1>3, <1>4, <1>5

-----------------------------------------------------------------------------
(* Ideal cryptography: what a signature or a certificate that was found was  *)
(* made for.                                                               *)

\* What a sequence begins with, and what follows.
LEMMA Behind2 ==
  ASSUME NEW S, NEW a \in S, NEW b \in S, NEW s \in Seq(S)
  PROVE  LET c == <<a, b>> \o s
         IN  /\ c \in Seq(S) /\ Len(c) = Len(s) + 2 /\ c[1] = a /\ c[2] = b
             /\ \A i \in 1 .. Len(s) : c[i + 2] = s[i]
<1>1. <<a, b>> \in Seq(S) /\ Len(<<a, b>>) = 2 /\ <<a, b>>[1] = a /\ <<a, b>>[2] = b
  OBVIOUS
<1>2. PICK h : h = <<a, b>>
  OBVIOUS
<1>3. h \in Seq(S) /\ Len(h) = 2 /\ h[1] = a /\ h[2] = b /\ Len(s) \in Nat
  BY <1>1, <1>2
<1>4. /\ Len(h \o s) = 2 + Len(s) /\ h \o s \in Seq(S)
      /\ \A i \in 1 .. 2 + Len(s) : (h \o s)[i] = IF i <= 2 THEN h[i] ELSE s[i - 2]
  <2>1. h \in Seq(S) /\ s \in Seq(S)
    BY <1>3
  <2>2. /\ Len(h \o s) = Len(h) + Len(s) /\ h \o s \in Seq(S)
        /\ \A i \in 1 .. Len(h) + Len(s) :
              (h \o s)[i] = IF i <= Len(h) THEN h[i] ELSE s[i - Len(h)]
    BY <2>1, ConcatProperties, Zenon
  <2>3. Len(h) = 2
    BY <1>3
  <2> QED  BY <2>2, <2>3, Zenon
<1>5. 1 \in 1 .. 2 + Len(s) /\ 2 \in 1 .. 2 + Len(s) /\ 1 <= 2 /\ 2 <= 2 /\ 2 + Len(s) = Len(s) + 2
  BY <1>3
<1>6. \A i \in 1 .. Len(s) : i + 2 \in 1 .. 2 + Len(s) /\ ~ (i + 2 <= 2) /\ (i + 2) - 2 = i
  BY <1>3
<1>7. (h \o s)[1] = a /\ (h \o s)[2] = b
  BY <1>3, <1>4, <1>5, Zenon
<1>8. \A i \in 1 .. Len(s) : (h \o s)[i + 2] = s[i]
  BY <1>4, <1>6
<1> QED  BY <1>2, <1>4, <1>5, <1>7, <1>8

\* One element before a sequence.
LEMMA Behind1 ==
  ASSUME NEW S, NEW a \in S, NEW s \in Seq(S)
  PROVE  LET c == <<a>> \o s
         IN  /\ c \in Seq(S) /\ Len(c) = Len(s) + 1 /\ c[1] = a
             /\ \A i \in 1 .. Len(s) : c[i + 1] = s[i]
<1>1. <<a>> \in Seq(S) /\ Len(<<a>>) = 1 /\ <<a>>[1] = a
  OBVIOUS
<1>2. PICK h : h = <<a>>
  OBVIOUS
<1>3. h \in Seq(S) /\ Len(h) = 1 /\ h[1] = a /\ Len(s) \in Nat
  BY <1>1, <1>2
<1>4. /\ Len(h \o s) = 1 + Len(s) /\ h \o s \in Seq(S)
      /\ \A i \in 1 .. 1 + Len(s) : (h \o s)[i] = IF i <= 1 THEN h[i] ELSE s[i - 1]
  <2>1. h \in Seq(S) /\ s \in Seq(S)
    BY <1>3
  <2>2. /\ Len(h \o s) = Len(h) + Len(s) /\ h \o s \in Seq(S)
        /\ \A i \in 1 .. Len(h) + Len(s) :
              (h \o s)[i] = IF i <= Len(h) THEN h[i] ELSE s[i - Len(h)]
    BY <2>1, ConcatProperties, Zenon
  <2>3. Len(h) = 1
    BY <1>3
  <2> QED  BY <2>2, <2>3, Zenon
<1>5. 1 \in 1 .. 1 + Len(s) /\ 1 <= 1 /\ 1 + Len(s) = Len(s) + 1
  BY <1>3
<1>6. \A i \in 1 .. Len(s) : i + 1 \in 1 .. 1 + Len(s) /\ ~ (i + 1 <= 1) /\ (i + 1) - 1 = i
  BY <1>3
<1>7. (h \o s)[1] = a
  BY <1>3, <1>4, <1>5, Zenon
<1>8. \A i \in 1 .. Len(s) : (h \o s)[i + 1] = s[i]
  BY <1>4, <1>6
<1> QED  BY <1>2, <1>4, <1>5, <1>7, <1>8

\* A signature, number by number: its mark, its key, the message.
LEMMA SignParts ==
  ASSUME NEW key \in Nat, NEW message \in Seq(Seq(Nat))
  PROVE  LET c == Sign(key, message)
         IN  /\ c \in Seq(Nat) /\ Len(c) = Len(FlattenSeq(message)) + 2
             /\ c[1] = SignatureMark /\ c[2] = key
             /\ \A i \in 1 .. Len(FlattenSeq(message)) : c[i + 2] = FlattenSeq(message)[i]
             /\ FlattenSeq(message) \in Seq(Nat)
<1>1. FlattenSeq(message) \in Seq(Nat)
  BY FlatIsSeq
<1>2. SignatureMark \in Nat
  BY DEF SignatureMark
<1> QED  BY <1>1, <1>2, Behind2 DEF Sign

\* A hash, number by number: its mark, the message.
LEMMA HashParts ==
  ASSUME NEW message \in Seq(Seq(Nat))
  PROVE  LET c == Sha256(message)
         IN  /\ c \in Seq(Nat) /\ Len(c) = Len(FlattenSeq(message)) + 1
             /\ c[1] = HashMark
             /\ \A i \in 1 .. Len(FlattenSeq(message)) : c[i + 1] = FlattenSeq(message)[i]
             /\ FlattenSeq(message) \in Seq(Nat)
<1>1. FlattenSeq(message) \in Seq(Nat)
  BY FlatIsSeq
<1>2. HashMark \in Nat
  BY DEF HashMark
<1> QED  BY <1>1, <1>2, Behind1 DEF Sha256

\* A certificate, number by number.
LEMMA CertificateParts ==
  ASSUME NEW key \in Nat, NEW issuer \in Nat, NEW ca \in BOOLEAN, NEW period \in Nat \X Nat,
         NEW der \in Seq(Nat), NEW c, c = Certificate(key, issuer, ca, period, der)
  PROVE  /\ c \in Seq(Nat) /\ Len(c) >= 6 /\ c[1] = Pem
         /\ CertKey(c) = key /\ CertIssuer(c) = issuer
         /\ CertCa(c) <=> ca
         /\ CertPeriod(c) = period
<1>1. PICK n \in Nat, x \in Nat, y \in Nat :
         n = (IF ca THEN 1 ELSE 0) /\ x = period[1] /\ y = period[2] /\ period = <<x, y>>
  <2>1. (IF ca THEN 1 ELSE 0) \in Nat
    OBVIOUS
  <2>2. period[1] \in Nat /\ period[2] \in Nat /\ period = <<period[1], period[2]>>
    OBVIOUS
  <2> QED  BY <2>1, <2>2, Zenon
<1>2. PICK h : h = <<Pem, key, issuer, n, x, y>>
  OBVIOUS
<1>3. /\ h \in Seq(Nat) /\ Len(h) = 6 /\ h[1] = Pem /\ h[2] = key /\ h[3] = issuer
      /\ h[4] = n /\ h[5] = x /\ h[6] = y /\ Len(der) \in Nat
  BY <1>2 DEF Pem
<1>4. /\ Len(h \o der) = 6 + Len(der) /\ h \o der \in Seq(Nat)
      /\ \A i \in 1 .. 6 + Len(der) : (h \o der)[i] = IF i <= 6 THEN h[i] ELSE der[i - 6]
  <2>1. h \in Seq(Nat) /\ der \in Seq(Nat)
    BY <1>3
  <2>2. /\ Len(h \o der) = Len(h) + Len(der) /\ h \o der \in Seq(Nat)
        /\ \A i \in 1 .. Len(h) + Len(der) :
              (h \o der)[i] = IF i <= Len(h) THEN h[i] ELSE der[i - Len(h)]
    BY <2>1, ConcatProperties, Zenon
  <2>3. Len(h) = 6
    BY <1>3
  <2> QED  BY <2>2, <2>3, Zenon
<1>5. \A i \in {1, 2, 3, 4, 5, 6} : i \in 1 .. 6 + Len(der) /\ i <= 6
  BY <1>3
<1>6. /\ (h \o der)[1] = h[1] /\ (h \o der)[2] = h[2] /\ (h \o der)[3] = h[3]
      /\ (h \o der)[4] = h[4] /\ (h \o der)[5] = h[5] /\ (h \o der)[6] = h[6]
      /\ 6 + Len(der) >= 6
  BY <1>3, <1>4, <1>5
<1>7. c = h \o der
  BY <1>1, <1>2, Zenon DEF Certificate
<1>9. /\ c \in Seq(Nat) /\ Len(c) >= 6 /\ c[1] = Pem
      /\ c[2] = key /\ c[3] = issuer /\ c[4] = n /\ c[5] = x /\ c[6] = y
  BY <1>3, <1>4, <1>6, <1>7
<1>10. CertCa(c) <=> ca
  <2>1. CASE ca
    BY <1>1, <1>9, <2>1, Zenon DEF CertCa
  <2>2. CASE ~ ca
    <3>1. n = 0
      BY <1>1, <2>2, Zenon
    <3>2. c[4] # 1
      BY <1>9, <3>1
    <3> QED  BY <2>2, <3>2, Zenon DEF CertCa
  <2> QED  BY <2>1, <2>2
<1>11. CertPeriod(c) = period /\ CertKey(c) = key /\ CertIssuer(c) = issuer
  BY <1>1, <1>9, Zenon DEF CertPeriod, CertKey, CertIssuer
<1> QED  BY <1>9, <1>10, <1>11, Zenon

\* A cell that is a certificate is one of a key, an issuer and a period.
LEMMA CertificateMade ==
  ASSUME NEW c, IsCertificate(c)
  PROVE  \E k \in Nat, i \in Nat, ca \in BOOLEAN, when \in Nat \X Nat, der \in Seq(Nat) :
            c = Certificate(k, i, ca, when, der)
<1>1. PICK td \in TdHosts, der \in Seq(Nat) :
         LET p == td.platform
         IN  \/ c = Certificate(p.pck, p.ca, FALSE, p.certs.leaf, der)
             \/ c = Certificate(p.ca, p.root, p.certs.authority, p.certs.ca, der)
             \/ c = Certificate(p.root, p.root, TRUE, p.certs.ca, der)
  BY DEF IsCertificate
<1>2. /\ td.platform.pck \in Nat /\ td.platform.ca \in Nat /\ td.platform.root \in Nat
      /\ td.platform.certs.leaf \in Nat \X Nat /\ td.platform.certs.ca \in Nat \X Nat
      /\ td.platform.certs.authority \in BOOLEAN /\ TRUE \in BOOLEAN /\ FALSE \in BOOLEAN
  BY HostIs DEF Numbers
<1> QED  BY <1>1, <1>2, Zenon

\* The marks are told apart.
LEMMA MarksDiffer ==
  /\ Pem # HashMark /\ Pem # SignatureMark /\ HashMark # SignatureMark
  /\ Pem \in Marks /\ HashMark \in Marks /\ SignatureMark \in Marks
BY DEF Pem, HashMark, SignatureMark, Marks

\* A cell is a number, or it is longer and begins with its mark.
LEMMA CellIs ==
  ASSUME NEW c \in QuoteCells
  PROVE  /\ c \in Seq(Nat) /\ Len(c) \in Nat /\ Len(c) > 0 /\ c[1] \in Nat
         /\ \/ Len(c) = 1 /\ IsNumber(c) /\ c = N(c[1])
            \/ Len(c) >= 2 /\ c[1] = SignatureMark /\ (IsQuoteSignature(c) \/ IsQeSignature(c))
            \/ c[1] = HashMark /\ IsQeHash(c)
            \/ Len(c) >= 6 /\ c[1] = Pem /\ IsCertificate(c)
<1>1. c \in Seq(Nat) /\ Len(c) \in Nat
  BY DEF QuoteCells
<1>2. CASE IsNumber(c)
  <2>1. PICK n \in Nat : c = N(n)
    BY <1>2 DEF IsNumber
  <2>2. Len(c) = 1 /\ c[1] = n /\ 1 > 0
    BY <2>1, Field DEF Num
  <2> QED  BY <1>1, <1>2, <2>1, <2>2, Zenon
<1>3. CASE IsQuoteSignature(c) \/ IsQeSignature(c)
  <2>1. PICK key \in Nat, m \in Seq(Seq(Nat)) : c = Sign(key, m)
    <3>1. CASE IsQuoteSignature(c)
      <4>1. PICK td \in TdHosts, f \in WrittenForms : c = Sign(td.platform.ak, Body(td, f))
        BY <3>1 DEF IsQuoteSignature
      <4>2. td.platform.ak \in Nat
        BY HostIs DEF Numbers
      <4>3. Body(td, f) \in Seq(Seq(Nat))
        <5>1. NumberCells \subseteq Seq(Nat)
          BY NumberCellsAreCells, CellsAreSeqs
        <5> QED  BY <5>1, BodyIs, Wider
      <4> QED  BY <4>1, <4>2, <4>3
    <3>2. CASE IsQeSignature(c)
      <4>1. PICK td \in TdHosts, f \in WrittenForms :
               c = Sign(td.platform.pck, QeReport(td.platform, Auth(f)))
        BY <3>2 DEF IsQeSignature
      <4>2. td.platform.pck \in Nat
        BY HostIs DEF Numbers
      <4>3. QeReport(td.platform, Auth(f)) \in Seq(Seq(Nat))
        BY QeIs, CellsAreSeqs
      <4> QED  BY <4>1, <4>2, <4>3
    <3> QED  BY <1>3, <3>1, <3>2
  <2>2. c[1] = SignatureMark /\ Len(c) = Len(FlattenSeq(m)) + 2 /\ Len(FlattenSeq(m)) \in Nat
    <3>1. /\ c[1] = SignatureMark /\ Len(c) = Len(FlattenSeq(m)) + 2
          /\ FlattenSeq(m) \in Seq(Nat)
      BY <2>1, SignParts, Zenon
    <3> QED  BY <3>1
  <2>3. Len(c) >= 2 /\ Len(c) > 0
    BY <2>2
  <2> QED  BY <1>1, <1>3, <2>2, <2>3 DEF SignatureMark
<1>4. CASE IsQeHash(c)
  <2>1. PICK td \in TdHosts, f \in WrittenForms : c = Sha256(<<N(td.platform.ak)>> \o Auth(f))
    BY <1>4 DEF IsQeHash
  <2>2. PICK m \in Seq(Seq(Nat)) : c = Sha256(m)
    BY <2>1, QeIs
  <2>3. c[1] = HashMark /\ Len(c) = Len(FlattenSeq(m)) + 1 /\ Len(FlattenSeq(m)) \in Nat
    BY <2>2, HashParts
  <2>4. Len(c) > 0
    BY <2>3
  <2> QED  BY <1>1, <1>4, <2>3, <2>4 DEF HashMark
<1>5. CASE IsCertificate(c)
  <2>1. PICK k \in Nat, i \in Nat, ca \in BOOLEAN, when \in Nat \X Nat, der \in Seq(Nat) :
           c = Certificate(k, i, ca, when, der)
    BY <1>5, CertificateMade
  <2>2. Len(c) >= 6 /\ c[1] = Pem
    BY <2>1, CertificateParts
  <2>3. Len(c) > 0
    BY <1>1, <2>2
  <2> QED  BY <1>1, <1>5, <2>2, <2>3 DEF Pem
<1> QED  BY <1>2, <1>3, <1>4, <1>5 DEF QuoteCells

\* Sequences of one length with the same elements are equal.
LEMMA SequencesEqual ==
  ASSUME NEW S, NEW s \in Seq(S), NEW t \in Seq(S), Len(s) = Len(t),
         \A i \in 1 .. Len(s) : s[i] = t[i]
  PROVE  s = t
OBVIOUS

\* A signature is of one key and one message.
LEMMA SameSignature ==
  ASSUME NEW key \in Nat, NEW other \in Nat,
         NEW m \in Seq(Seq(Nat)), NEW n \in Seq(Seq(Nat)), Sign(key, m) = Sign(other, n)
  PROVE  key = other /\ FlattenSeq(m) = FlattenSeq(n)
<1> DEFINE s == FlattenSeq(m)
           t == FlattenSeq(n)
           c == Sign(key, m)
<1>1. /\ Len(c) = Len(s) + 2 /\ c[2] = key
      /\ \A i \in 1 .. Len(s) : c[i + 2] = s[i]
      /\ s \in Seq(Nat)
  BY SignParts
<1>2. /\ Len(c) = Len(t) + 2 /\ c[2] = other
      /\ \A i \in 1 .. Len(t) : c[i + 2] = t[i]
      /\ t \in Seq(Nat)
  <2>1. /\ Len(Sign(other, n)) = Len(t) + 2 /\ Sign(other, n)[2] = other
        /\ \A i \in 1 .. Len(t) : Sign(other, n)[i + 2] = t[i]
        /\ t \in Seq(Nat)
    BY SignParts
  <2>2. Sign(other, n) = c
    OBVIOUS
  <2> HIDE DEF c, t
  <2> QED  BY <2>1, <2>2, Zenon
<1> HIDE DEF s, t, c
<1>3. Len(s) = Len(t)
  <2>1. Len(s) \in Nat /\ Len(t) \in Nat
    BY <1>1, <1>2
  <2> QED  BY <1>1, <1>2, <2>1
<1>4. \A i \in 1 .. Len(s) : s[i] = t[i]
  BY <1>1, <1>2, <1>3
<1>5. s = t
  BY <1>1, <1>2, <1>3, <1>4, SequencesEqual
<1> QED  BY <1>1, <1>2, <1>5 DEF s, t

\* Whose signature a cell is.
LEMMA SignedBy ==
  ASSUME NEW key \in Nat, NEW m \in Seq(QuoteCells), Sign(key, m) \in QuoteCells
  PROVE  \E td \in TdHosts, f \in WrittenForms :
           \/ key = td.platform.ak /\ FlattenSeq(m) = FlattenSeq(Body(td, f))
           \/ /\ key = td.platform.pck
              /\ FlattenSeq(m) = FlattenSeq(QeReport(td.platform, Auth(f)))
<1> DEFINE c == Sign(key, m)
<1>1. m \in Seq(Seq(Nat))
  BY CellsAreSeqs
<1>2. c[1] = SignatureMark /\ Len(c) >= 2
  <2>1. c[1] = SignatureMark /\ Len(c) = Len(FlattenSeq(m)) + 2 /\ FlattenSeq(m) \in Seq(Nat)
    BY <1>1, SignParts
  <2> HIDE DEF c
  <2>2. Len(FlattenSeq(m)) \in Nat
    BY <2>1
  <2> QED  BY <2>1, <2>2
<1>3. IsQuoteSignature(c) \/ IsQeSignature(c)
  <2> HIDE DEF c
  <2>1. c \in QuoteCells
    BY DEF c
  <2>2. ~ (Len(c) >= 2 /\ Len(c) = 1)
    <3>1. \A n \in {1} : ~ (n >= 2)
      OBVIOUS
    <3> QED  BY <3>1, Zenon
  <2> QED  BY <1>2, <2>1, <2>2, CellIs, MarksDiffer, Zenon
<1>4. CASE IsQuoteSignature(c)
  <2>1. PICK td \in TdHosts, f \in WrittenForms : c = Sign(td.platform.ak, Body(td, f))
    BY <1>4 DEF IsQuoteSignature
  <2>2. td.platform.ak \in Nat
    BY HostIs DEF Numbers
  <2>3. Body(td, f) \in Seq(Seq(Nat))
    <3>1. NumberCells \subseteq Seq(Nat)
      BY NumberCellsAreCells, CellsAreSeqs
    <3> QED  BY <3>1, BodyIs, Wider
  <2> QED  BY <1>1, <2>1, <2>2, <2>3, SameSignature
<1>5. CASE IsQeSignature(c)
  <2>1. PICK td \in TdHosts, f \in WrittenForms :
           c = Sign(td.platform.pck, QeReport(td.platform, Auth(f)))
    BY <1>5 DEF IsQeSignature
  <2>2. td.platform.pck \in Nat
    BY HostIs DEF Numbers
  <2>3. QeReport(td.platform, Auth(f)) \in Seq(Seq(Nat))
    BY QeIs, CellsAreSeqs
  <2> QED  BY <1>1, <2>1, <2>2, <2>3, SameSignature
<1> QED  BY <1>3, <1>4, <1>5

\* A sequence behind its first element.
LEMMA Prefixed ==
  ASSUME NEW S, NEW a \in S, NEW s \in Seq(S), NEW t \in Seq(S), Len(t) = Len(s) + 1,
         t[1] = a, \A i \in 1 .. Len(s) : t[i + 1] = s[i]
  PROVE  <<a>> \o s = t
<1>1. PICK u : u = <<a>> \o s
  OBVIOUS
<1>2. u \in Seq(S) /\ Len(u) = Len(s) + 1 /\ u[1] = a /\ \A i \in 1 .. Len(s) : u[i + 1] = s[i]
  BY <1>1, Behind1
<1>3. ASSUME NEW k \in 1 .. Len(u) PROVE u[k] = t[k]
  <2>1. CASE k = 1
    BY <1>2, <2>1
  <2>2. CASE k # 1
    <3>1. k - 1 \in 1 .. Len(s) /\ (k - 1) + 1 = k
      BY <1>2, <2>2
    <3>2. u[(k - 1) + 1] = s[k - 1] /\ t[(k - 1) + 1] = s[k - 1]
      BY <1>2, <3>1
    <3> QED  BY <3>1, <3>2
  <2> QED  BY <2>1, <2>2
<1>4. u = t
  BY <1>2, <1>3, SequencesEqual
<1> QED  BY <1>1, <1>4

\* Short sequences, joined.
LEMMA Strings ==
  ASSUME NEW S, NEW a \in S, NEW b \in S, NEW c \in S
  PROVE  /\ <<a>> \o <<b>> = <<a, b>>
         /\ <<a>> \o <<b, c>> = <<a, b, c>>
<1>1. <<a>> \o <<b>> = <<a, b>>
  <2>1. PICK s, t : s = <<b>> /\ t = <<a, b>>
    OBVIOUS
  <2>2. s \in Seq(S) /\ t \in Seq(S) /\ Len(s) = 1 /\ Len(t) = 2 /\ t[1] = a
    BY <2>1
  <2>3. \A i \in 1 .. 1 : t[i + 1] = s[i]
    BY <2>1
  <2>4. Len(t) = Len(s) + 1 /\ \A i \in 1 .. Len(s) : t[i + 1] = s[i]
    BY <2>2, <2>3
  <2>5. <<a>> \o s = t
    BY <2>2, <2>4, Prefixed
  <2> QED  BY <2>1, <2>5, Zenon
<1>2. <<a>> \o <<b, c>> = <<a, b, c>>
  <2>1. PICK s, t : s = <<b, c>> /\ t = <<a, b, c>>
    OBVIOUS
  <2>2. s \in Seq(S) /\ t \in Seq(S) /\ Len(s) = 2 /\ Len(t) = 3 /\ t[1] = a
    BY <2>1
  <2>3. \A i \in 1 .. 2 : t[i + 1] = s[i]
    BY <2>1
  <2>4. Len(t) = Len(s) + 1 /\ \A i \in 1 .. Len(s) : t[i + 1] = s[i]
    BY <2>2, <2>3
  <2>5. <<a>> \o s = t
    BY <2>2, <2>4, Prefixed
  <2> QED  BY <2>1, <2>5, Zenon
<1> QED  BY <1>1, <1>2

\* The same for four elements.
LEMMA String4 ==
  ASSUME NEW S, NEW a \in S, NEW b \in S, NEW c \in S, NEW d \in S
  PROVE  <<a>> \o <<b, c, d>> = <<a, b, c, d>>
<1>1. PICK s, t : s = <<b, c, d>> /\ t = <<a, b, c, d>>
  OBVIOUS
<1>2. s \in Seq(S) /\ t \in Seq(S) /\ Len(s) = 3 /\ Len(t) = 4 /\ t[1] = a
  BY <1>1
<1>3. \A i \in 1 .. 3 : t[i + 1] = s[i]
  BY <1>1
<1>4. Len(t) = Len(s) + 1 /\ \A i \in 1 .. Len(s) : t[i + 1] = s[i]
  BY <1>2, <1>3
<1>5. <<a>> \o s = t
  BY <1>2, <1>4, Prefixed
<1> QED  BY <1>1, <1>5, Zenon

\* One cell, flattened.
LEMMA FlatOne ==
  ASSUME NEW S, NEW a \in Seq(S)
  PROVE  FlattenSeq(<<a>>) = a
<1> DEFINE m == <<a>>
<1>1. m \in Seq(Seq(S)) /\ Len(m) = 1 /\ m[0 + 1] = a
  OBVIOUS
<1> HIDE DEF m
<1>2. 0 + 1 = 1 /\ 0 \in Nat /\ 0 < Len(m)
  BY <1>1
<1>3. Upto(m, 0 + 1) = Upto(m, 0) \o m[0 + 1]
  BY <1>1, <1>2, UptoSteps
<1>4. <<>> \o a = a
  BY ConcatEmptySeq
<1>5. FlattenSeq(m) = Upto(m, 1)
  BY <1>1, FlatIsSeq
<1>6. Upto(m, 1) = a
  BY <1>1, <1>2, <1>3, <1>4, UptoNone, Zenon
<1> QED  BY <1>5, <1>6 DEF m

\* What a report of a quoting enclave is flattened to.
LEMMA QeFlat ==
  ASSUME NEW td \in TdHosts, NEW f \in WrittenForms
  PROVE  LET q == FlattenSeq(QeReport(td.platform, Auth(f)))
         IN  \/ q = <<td.platform.qe, HashMark, td.platform.ak>>
             \/ q = <<td.platform.qe, HashMark, td.platform.ak, 40>>
<1> DEFINE p == td.platform
<1>1. PICK a \in Nat, e \in Nat, x \in Nat, y \in Nat :
         a = p.ak /\ e = p.qe /\ x = HashMark /\ y = 40
  BY HostIs DEF Numbers, HashMark
<1>2. PICK m : m = <<N(a)>> \o Auth(f)
  OBVIOUS
<1>3. N(a) = <<a>> /\ N(e) = <<e>> /\ N(y) = <<y>> /\ \A n \in Nat : <<n>> \in Seq(Nat)
  BY DEF N
<1>4. m = <<<<a>>>> \/ m = <<<<a>>, <<y>>>>
  <2>1. Auth(f) = <<>> \/ Auth(f) = <<N(y)>>
    BY <1>1, AuthIs
  <2>2. <<a>> \in Seq(Nat) /\ <<y>> \in Seq(Nat)
    BY <1>3
  <2>3. <<<<a>>>> \o <<>> = <<<<a>>>>
    <3>1. <<<<a>>>> \in Seq(Seq(Nat))
      BY <2>2
    <3> QED  BY <3>1, ConcatEmptySeq
  <2>4. <<<<a>>>> \o <<<<y>>>> = <<<<a>>, <<y>>>>
    BY <2>2, Strings
  <2> QED  BY <1>2, <1>3, <2>1, <2>3, <2>4, Zenon
<1>5. FlattenSeq(m) = <<a>> \/ FlattenSeq(m) = <<a, y>>
  <2>1. FlattenSeq(<<<<a>>>>) = <<a>>
    BY <1>3, FlatOne
  <2>2. FlattenSeq(<<<<a>>, <<y>>>>) = <<a>> \o <<y>>
    BY <1>3, FlatTwo
  <2>3. <<a>> \o <<y>> = <<a, y>>
    BY Strings
  <2> QED  BY <1>4, <2>1, <2>2, <2>3, Zenon
<1>6. Sha256(m) = <<x>> \o FlattenSeq(m)
  BY <1>1 DEF Sha256
<1>7. Sha256(m) = <<x, a>> \/ Sha256(m) = <<x, a, y>>
  <2>1. <<x>> \o <<a>> = <<x, a>> /\ <<x>> \o <<a, y>> = <<x, a, y>>
    BY Strings
  <2> QED  BY <1>5, <1>6, <2>1, Zenon
<1>8. Sha256(m) \in Seq(Nat)
  <2>1. <<x, a>> \in Seq(Nat) /\ <<x, a, y>> \in Seq(Nat)
    OBVIOUS
  <2> QED  BY <1>7, <2>1, Zenon
<1>9. FlattenSeq(<<N(e), Sha256(m)>>) = <<e>> \o Sha256(m)
  BY <1>3, <1>8, FlatTwo, Zenon
<1>10. <<e>> \o Sha256(m) = <<e, x, a>> \/ <<e>> \o Sha256(m) = <<e, x, a, y>>
  <2>1. <<e>> \o <<x, a>> = <<e, x, a>>
    BY Strings
  <2>2. <<e>> \o <<x, a, y>> = <<e, x, a, y>>
    BY String4, ZenonT(60)
  <2> QED  BY <1>7, <2>1, <2>2, Zenon
<1>11. QeReport(p, Auth(f)) = <<N(e), Sha256(m)>>
  BY <1>1, <1>2 DEF QeReport
<1>12. \/ FlattenSeq(QeReport(p, Auth(f))) = <<e, x, a>>
       \/ FlattenSeq(QeReport(p, Auth(f))) = <<e, x, a, y>>
  BY <1>9, <1>10, <1>11, Zenon
<1>13. a = p.ak /\ e = p.qe /\ x = HashMark /\ y = 40
  BY <1>1
<1> QED  BY <1>12, <1>13, Zenon

\* What an attestation key signed is the quoted part of a quote, in full.
LEMMA BodySigned ==
  ASSUME NEW key \in Nat, NEW m \in Seq(QuoteCells), Len(m) >= 5, Sign(key, m) \in QuoteCells
  PROVE  \E td \in TdHosts, f \in WrittenForms : key = td.platform.ak /\ m = Body(td, f)
<1>0. m \in Seq(Seq(Nat)) /\ Len(m) \in Nat /\ FlattenSeq(m) \in Seq(Nat)
  BY CellsAreSeqs, FlatIsSeq
<1>1. \A i \in 1 .. Len(m) : m[i] \in QuoteCells
  OBVIOUS
<1>2. Len(m) <= Len(FlattenSeq(m))
  <2>1. \A i \in 1 .. Len(m) : Len(m[i]) > 0
    BY <1>1, CellIs
  <2>2. Len(m) \in 0 .. Len(m) /\ Upto(m, Len(m)) = FlattenSeq(m)
    BY <1>0, FlatIsSeq
  <2> QED  BY <1>0, <2>1, <2>2, FlatLonger
<1>3. PICK td \in TdHosts, f \in WrittenForms :
         \/ key = td.platform.ak /\ FlattenSeq(m) = FlattenSeq(Body(td, f))
         \/ FlattenSeq(m) = FlattenSeq(QeReport(td.platform, Auth(f)))
  BY SignedBy
<1>4. FlattenSeq(m) # FlattenSeq(QeReport(td.platform, Auth(f)))
  <2>1. PICK q : q = FlattenSeq(QeReport(td.platform, Auth(f)))
    OBVIOUS
  <2>2. Len(q) = 3 \/ Len(q) = 4
    <3>1. \A e, h, o : Len(<<e, h, o>>) = 3 /\ Len(<<e, h, o, 40>>) = 4
      OBVIOUS
    <3> QED  BY <2>1, <3>1, QeFlat, Zenon
  <2>3. Len(FlattenSeq(m)) \in Nat
    BY <1>0
  <2>4. ~ (Len(FlattenSeq(m)) = 3 \/ Len(FlattenSeq(m)) = 4)
    <3>1. \A x, y \in Nat : x >= 5 /\ x <= y => ~ (y = 3 \/ y = 4)
      OBVIOUS
    <3> QED  BY <1>0, <1>2, <2>3, <3>1, Zenon
  <2> QED  BY <2>1, <2>2, <2>4, Zenon
<1> DEFINE b == Body(td, f)
<1>5. b \in Seq(NumberCells)
  BY BodyIs
<1>6. key = td.platform.ak /\ FlattenSeq(m) = FlattenSeq(b)
  BY <1>3, <1>4
<1> HIDE DEF b
<1>7. /\ b \in Seq(Seq(Nat))
      /\ \A i \in 1 .. Len(b) : b[i] = N(b[i][1]) /\ Len(b[i]) = 1 /\ b[i][1] \in Numbers
  <2>1. \A c \in NumberCells : c = N(c[1]) /\ Len(c) = 1 /\ c[1] \in Numbers
    <3>1. \A n \in Numbers : N(n)[1] = n /\ Len(N(n)) = 1
      BY Field DEF Numbers, Num
    <3> QED  BY <3>1 DEF NumberCells
  <2>2. NumberCells \subseteq Seq(Nat)
    BY NumberCellsAreCells, CellsAreSeqs
  <2> QED  BY <1>5, <2>1, <2>2, Wider
<1>8. Len(FlattenSeq(b)) = Len(b) /\ \A i \in 1 .. Len(b) : FlattenSeq(b)[i] = b[i][1]
  BY <1>7, FlatNumbers
<1>9. \A i \in 1 .. Len(FlattenSeq(m)) : FlattenSeq(m)[i] \notin Marks
  BY <1>6, <1>7, <1>8 DEF Numbers
<1>10. \A i \in 1 .. Len(m) : Len(m[i]) = 1 \/ (Len(m[i]) > 0 /\ m[i][1] \in Marks)
  BY <1>1, CellIs, MarksDiffer
<1>11. \A i \in 1 .. Len(m) : Len(m[i]) = 1
  BY <1>0, <1>9, <1>10, NoMarks
<1>12. Len(FlattenSeq(m)) = Len(m) /\ \A i \in 1 .. Len(m) : FlattenSeq(m)[i] = m[i][1]
  BY <1>0, <1>11, FlatNumbers
<1>13. Len(m) = Len(b)
  BY <1>6, <1>8, <1>12
<1>14. ASSUME NEW i \in 1 .. Len(m) PROVE m[i] = b[i]
  <2>1. m[i][1] = b[i][1] /\ b[i] = N(b[i][1])
    BY <1>6, <1>7, <1>8, <1>12, <1>13
  <2>2. m[i] = N(m[i][1])
    <3>1. m[i] \in QuoteCells /\ Len(m[i]) = 1
      BY <1>1, <1>11
    <3>2. \A n \in {1} : ~ (n >= 2) /\ ~ (n >= 6)
      OBVIOUS
    <3>3. m[i] = N(m[i][1]) \/ IsQeHash(m[i])
      BY <3>1, <3>2, CellIs, Zenon
    <3>4. ~ (m[i][1] \in Marks)
      BY <1>9, <1>12
    <3>5. m[i] = N(m[i][1]) \/ m[i][1] \in Marks
      BY <3>1, <3>2, CellIs, MarksDiffer, Zenon
    <3> QED  BY <3>4, <3>5
  <2> QED  BY <2>1, <2>2
<1>15. m = b
  BY <1>0, <1>7, <1>13, <1>14, SequencesEqual
<1> QED  BY <1>6, <1>15 DEF b

\* The keys of certificates, and who issued them.
LEMMA CertificateOf ==
  ASSUME NEW c \in QuoteCells, Len(c) >= 6, Num(c) = Pem
  PROVE  \E td \in TdHosts :
           \/ /\ CertKey(c) = td.platform.pck /\ CertIssuer(c) = td.platform.ca
              /\ CertPeriod(c) = td.platform.certs.leaf
           \/ CertKey(c) = td.platform.ca /\ CertIssuer(c) = td.platform.root
           \/ CertKey(c) = td.platform.root /\ CertIssuer(c) = td.platform.root
<1>1. IsCertificate(c)
  <2>1. ~ (Len(c) = 1)
    <3>1. \A n \in {1} : ~ (n >= 6)
      OBVIOUS
    <3> QED  BY <3>1, Zenon
  <2>2. c[1] = Pem
    BY DEF Num
  <2> QED  BY <2>1, <2>2, CellIs, MarksDiffer, Zenon
<1>2. PICK td \in TdHosts, der \in Seq(Nat) :
         LET p == td.platform
         IN  \/ c = Certificate(p.pck, p.ca, FALSE, p.certs.leaf, der)
             \/ c = Certificate(p.ca, p.root, p.certs.authority, p.certs.ca, der)
             \/ c = Certificate(p.root, p.root, TRUE, p.certs.ca, der)
  BY <1>1 DEF IsCertificate
<1>3. /\ td.platform.pck \in Nat /\ td.platform.ca \in Nat /\ td.platform.root \in Nat
      /\ td.platform.certs.leaf \in Nat \X Nat /\ td.platform.certs.ca \in Nat \X Nat
      /\ td.platform.certs.authority \in BOOLEAN /\ TRUE \in BOOLEAN /\ FALSE \in BOOLEAN
  BY HostIs DEF Numbers
<1>4. \A k, i \in Nat, ca \in BOOLEAN, when \in Nat \X Nat :
         c = Certificate(k, i, ca, when, der) =>
            CertKey(c) = k /\ CertIssuer(c) = i /\ CertPeriod(c) = when
  BY CertificateParts
<1>5. CASE c = Certificate(td.platform.pck, td.platform.ca, FALSE, td.platform.certs.leaf, der)
  BY <1>3, <1>4, <1>5, ZenonT(30)
<1>6. CASE c = Certificate(td.platform.ca, td.platform.root, td.platform.certs.authority,
                           td.platform.certs.ca, der)
  BY <1>3, <1>4, <1>6, ZenonT(30)
<1>7. CASE c = Certificate(td.platform.root, td.platform.root, TRUE, td.platform.certs.ca, der)
  BY <1>3, <1>4, <1>7, ZenonT(30)
<1> QED  BY <1>2, <1>5, <1>6, <1>7, Zenon

\* A report of a quoting enclave that vouches for an attestation key.
BindsKey(m, a, rest) ==
  /\ m \in Seq(QuoteCells) /\ Len(m) = 2
  /\ rest \in Seq(Seq(Nat)) /\ m[2] = Sha256(<<N(a)>> \o rest)

\* Which platform a quoting enclave's report is of: the hash of an attestation
\* key can only be where it was signed.
LEMMA QeSigned ==
  ASSUME NEW key \in Nat, NEW a \in Numbers, NEW m, NEW rest, BindsKey(m, a, rest),
         Sign(key, m) \in QuoteCells
  PROVE  \E td \in TdHosts : key = td.platform.ak \/ (key = td.platform.pck /\ a = td.platform.ak)
<1> SUFFICES ASSUME \A td \in TdHosts : key # td.platform.ak
             PROVE  \E td \in TdHosts : key = td.platform.pck /\ a = td.platform.ak
  OBVIOUS
<1>0. m \in Seq(QuoteCells) /\ Len(m) = 2 /\ rest \in Seq(Seq(Nat)) /\ m[2] = Sha256(<<N(a)>> \o rest)
  BY Zenon DEF BindsKey
<1> USE <1>0
<1> DEFINE q == FlattenSeq(m)
<1>1. PICK c \in QuoteCells, h \in QuoteCells :
         m = <<c, h>> /\ h = Sha256(<<N(a)>> \o rest)
  <2>1. m[1] \in QuoteCells /\ m[2] \in QuoteCells /\ m = <<m[1], m[2]>>
    BY Pair
  <2> QED  BY <2>1
<1>2. PICK td \in TdHosts, f \in WrittenForms :
         key = td.platform.pck /\ q = FlattenSeq(QeReport(td.platform, Auth(f)))
  BY <1>1, SignedBy
<1>3. PICK e \in Numbers, o \in Numbers :
         /\ e = td.platform.qe /\ o = td.platform.ak
         /\ q = <<e, HashMark, o>> \/ q = <<e, HashMark, o, 40>>
  BY <1>2, QeFlat, HostIs
<1>4. h \in Seq(Nat) /\ h[1] = HashMark /\ h[2] = a /\ Len(h) >= 2
  <2>1. a \in Nat /\ N(a) \in Seq(Nat) /\ Len(N(a)) = 1 /\ N(a)[1] = a
    BY Field DEF Numbers, Num
  <2>2. PICK n : n = <<N(a)>> \o rest
    OBVIOUS
  <2>3. n \in Seq(Seq(Nat)) /\ Len(n) = Len(rest) + 1 /\ n[1] = N(a)
    BY <2>1, <2>2, Behind1
  <2>4. 0 \in Nat /\ 0 < Len(n) /\ 0 + 1 = 1 /\ 1 \in 1 .. 1
    BY <2>3
  <2>5. /\ Len(Upto(n, 0 + 1)) = Len(Upto(n, 0)) + Len(n[0 + 1])
        /\ Len(Upto(n, 0 + 1)) <= Len(FlattenSeq(n))
        /\ \A k \in 1 .. Len(n[0 + 1]) : FlattenSeq(n)[Len(Upto(n, 0)) + k] = n[0 + 1][k]
    BY <2>3, <2>4, FlatPlaces
  <2>6. Len(Upto(n, 0)) = 0
    BY UptoNone
  <2>7. FlattenSeq(n)[1] = a
    BY <2>1, <2>3, <2>4, <2>5, <2>6, Zenon
  <2>8. 1 <= Len(FlattenSeq(n)) /\ FlattenSeq(n) \in Seq(Nat)
    <3>1. Len(n[0 + 1]) = 1
      BY <2>1, <2>3, <2>4
    <3>2. 0 + 1 <= Len(FlattenSeq(n))
      BY <2>5, <2>6, <3>1, Zenon
    <3> QED  BY <2>3, <2>4, <3>2, FlatIsSeq
  <2>9. /\ Sha256(n) \in Seq(Nat) /\ Len(Sha256(n)) = Len(FlattenSeq(n)) + 1
        /\ Sha256(n)[1] = HashMark
        /\ \A i \in 1 .. Len(FlattenSeq(n)) : Sha256(n)[i + 1] = FlattenSeq(n)[i]
    BY <2>3, HashParts
  <2>10. h = Sha256(n)
    BY <1>1, <2>2
  <2>11. Sha256(n)[2] = a /\ Len(Sha256(n)) >= 2
    <3>1. Len(FlattenSeq(n)) \in Nat
      BY <2>8
    <3>2. 1 \in 1 .. Len(FlattenSeq(n)) /\ 1 + 1 = 2
      BY <2>8, <3>1
    <3>3. Sha256(n)[2] = a
      BY <2>7, <2>9, <3>2, Zenon
    <3> QED  BY <2>8, <2>9, <3>1, <3>3
  <2> QED  BY <2>9, <2>10, <2>11, Zenon
<1>5. c \in Seq(Nat) /\ Len(c) \in Nat /\ Len(c) > 0
  BY CellIs
<1>6. q = c \o h
  <2>1. FlattenSeq(<<c, h>>) = c \o h
    BY <1>4, <1>5, FlatTwo
  <2> QED  BY <1>1, <2>1
<1> HIDE DEF q
<1>7. /\ Len(q) = Len(c) + Len(h)
      /\ \A i \in 1 .. Len(c) + Len(h) : q[i] = IF i <= Len(c) THEN c[i] ELSE h[i - Len(c)]
  BY <1>4, <1>5, <1>6, ConcatProperties
<1>8. q[Len(c) + 1] = HashMark /\ q[Len(c) + 2] = a /\ Len(c) + 2 <= Len(q)
  <2>1. Len(h) \in Nat
    BY <1>4
  <2>2. /\ Len(c) + 1 \in 1 .. Len(c) + Len(h) /\ ~ (Len(c) + 1 <= Len(c)) /\ (Len(c) + 1) - Len(c) = 1
        /\ Len(c) + 2 \in 1 .. Len(c) + Len(h) /\ ~ (Len(c) + 2 <= Len(c)) /\ (Len(c) + 2) - Len(c) = 2
        /\ Len(c) + 2 <= Len(c) + Len(h)
    BY <1>4, <1>5, <2>1
  <2> QED  BY <1>4, <1>7, <2>2, Zenon
<1>9. Len(c) = 1
  <2>1. e # HashMark /\ o # HashMark /\ 40 # HashMark
    BY DEF Numbers, Marks, HashMark
  <2>2. Len(q) \in {3, 4} /\ q[3] = o /\ (Len(q) = 4 => q[4] = 40)
    <3>1. q = <<e, HashMark, o>> => Len(q) = 3 /\ q[3] = o
      OBVIOUS
    <3>2. q = <<e, HashMark, o, 40>> => Len(q) = 4 /\ q[3] = o /\ q[4] = 40
      OBVIOUS
    <3>3. \A n \in {3} : ~ (n = 4)
      OBVIOUS
    <3> QED  BY <1>3, <3>1, <3>2, <3>3, Zenon
  <2>3. Len(c) + 1 \in {2, 3}
    <3>1. \A x \in Nat, y \in {3, 4} : x > 0 /\ x + 2 <= y => x + 1 \in {2, 3}
      OBVIOUS
    <3> QED  BY <1>5, <1>8, <2>2, <3>1, Zenon
  <2>4. Len(c) + 1 # 3
    BY <1>8, <2>1, <2>2
  <2> QED  BY <1>5, <2>3, <2>4
<1>10. a = o
  <2>1. q[3] = o
    BY <1>3
  <2>2. Len(c) + 2 = 3
    BY <1>9
  <2> QED  BY <1>8, <2>1, <2>2
<1> QED  BY <1>2, <1>3, <1>10

-----------------------------------------------------------------------------
(* What the parser reads from a quote made of such cells.                  *)

\* A part of a sequence.
LEMMA SliceIs ==
  ASSUME NEW S, NEW s \in Seq(S), NEW a \in Nat, NEW e \in Nat, 1 <= a, e <= Len(s)
  PROVE  /\ SubSeq(s, a, e) \in Seq(S)
         /\ a <= e + 1 => Len(SubSeq(s, a, e)) = e + 1 - a
         /\ \A i \in 1 .. (e + 1 - a) : SubSeq(s, a, e)[i] = s[a + i - 1]
<1>1. Len(s) \in Nat /\ \A k \in a .. e : s[k] \in S
  OBVIOUS
<1>2. /\ SubSeq(s, a, e) \in Seq(S) /\ Len(SubSeq(s, a, e)) = IF a <= e THEN e - a + 1 ELSE 0
      /\ \A i \in 1 .. e - a + 1 : SubSeq(s, a, e)[i] = s[a + i - 1]
  BY <1>1, SubSeqProperties
<1>3. e - a + 1 = e + 1 - a /\ (a <= e + 1 /\ ~ (a <= e) => e + 1 - a = 0)
  OBVIOUS
<1> QED  BY <1>2, <1>3

\* A field of a quote reads as a number.
LEMMA NumIs ==
  ASSUME NEW b \in Seq(QuoteCells), NEW i \in 1 .. Len(b)
  PROVE  b[i] \in QuoteCells /\ Num(b[i]) \in Nat
<1>1. b[i] \in QuoteCells
  OBVIOUS
<1> QED  BY <1>1, CellIs DEF Num

\* What is inside an envelope, whoever wrote it, is made of cells of a quote.
LEMMA InnerIs ==
  ASSUME NEW b \in Seq(QuoteCells), Enveloped(b)
  PROVE  Inner(b) \in Seq(QuoteCells)
<1>1. Len(b) \in Nat /\ Len(b) >= 6 /\ 6 + Num(b[5]) + Num(b[6]) <= Len(b)
  BY DEF Enveloped, QGS_GET_QUOTE_RESP_PREFIX_SIZE
<1>2. Num(b[5]) \in Nat /\ Num(b[6]) \in Nat
  <2>1. 5 \in 1 .. Len(b) /\ 6 \in 1 .. Len(b)
    BY <1>1
  <2> QED  BY <2>1, NumIs
<1>3. PICK x \in Nat, y \in Nat : x = Num(b[5]) /\ y = Num(b[6]) /\ 6 + x + y <= Len(b)
  BY <1>1, <1>2
<1>4. (6 + x) + 1 \in Nat /\ (6 + x) + y \in Nat /\ 1 <= (6 + x) + 1 /\ (6 + x) + y <= Len(b)
  BY <1>1, <1>3
<1>5. SubSeq(b, (6 + x) + 1, (6 + x) + y) \in Seq(QuoteCells)
  BY <1>4, SliceIs
<1> QED  BY <1>3, <1>5 DEF Inner, QGS_GET_QUOTE_RESP_PREFIX_SIZE

\* And so is a quote behind either way to take an envelope off.
LEMMA UnwrapIs ==
  ASSUME NEW b \in Seq(QuoteCells)
  PROVE  /\ strip_qgs_envelope(b) \in Seq(QuoteCells)
         /\ unwrap_qgs_get_quote_response(b) \in Seq(QuoteCells)
BY InnerIs DEF strip_qgs_envelope, unwrap_qgs_get_quote_response

\* A descriptor that fits is made of numbers.
LEMMA DescriptorIs ==
  ASSUME NEW b \in Seq(QuoteCells), HeaderFits(b)
  PROVE  /\ Descriptor(b).at \in Nat /\ Descriptor(b).size \in Nat
         /\ Descriptor(b).reserved \in Nat
<1>1. Len(b) \in Nat /\ Len(b) >= 3 /\ (Num(b[1]) >= 5 => Len(b) >= 5 /\ (Behind(b) => Len(b) >= 8))
  BY DEF HeaderFits, TD_QUOTE_HEADER_V4_SIZE, TD_QUOTE_HEADER_V5_SIZE, DESCRIPTOR_SIZE
<1>2. Num(b[1]) \in Nat
  BY <1>1, NumIs
<1>3. CASE Num(b[1]) <= 4
  <2>1. Descriptor(b) = [at |-> 3, type |-> Tdx10, reserved |-> 0, size |-> 2]
    BY <1>3 DEF Descriptor, TD_QUOTE_HEADER_V4_SIZE, TD_QUOTE_BODY_V1_0_SIZE
  <2> QED  BY <2>1
<1>4. CASE ~ (Num(b[1]) <= 4) /\ Behind(b)
  <2>1. Num(b[7]) \in Nat /\ Num(b[8]) \in Nat
    <3>1. Len(b) >= 8
      BY <1>1, <1>2, <1>4
    <3>2. 7 \in 1 .. Len(b) /\ 8 \in 1 .. Len(b)
      BY <1>1, <3>1
    <3> QED  BY <3>2, NumIs
  <2>2. Descriptor(b) = [at |-> 8, type |-> Num(b[6]), reserved |-> Num(b[7]), size |-> Num(b[8])]
    BY <1>4 DEF Descriptor, TD_QUOTE_HEADER_V5_SIZE, DESCRIPTOR_SIZE
  <2> QED  BY <2>1, <2>2
<1>5. CASE ~ (Num(b[1]) <= 4) /\ ~ Behind(b)
  <2>1. Num(b[5]) \in Nat
    <3>1. Len(b) >= 5
      BY <1>1, <1>2, <1>5
    <3>2. 5 \in 1 .. Len(b)
      BY <1>1, <3>1
    <3> QED  BY <3>2, NumIs
  <2>2. Descriptor(b) = [at |-> 5, type |-> Num(b[4]), reserved |-> 0, size |-> Num(b[5])]
    BY <1>5 DEF Descriptor, TD_QUOTE_HEADER_V5_SIZE
  <2> QED  BY <2>1, <2>2
<1> QED  BY <1>3, <1>4, <1>5

\* The length of a body is the announced one or the recovered one.
LEMMA BodyLengthIs ==
  ASSUME NEW b, NEW d, d.size \in Nat, d.reserved \in Nat
  PROVE  /\ BodyLength(b, d) \in Nat
         /\ BodyLength(b, d) = d.size \/ BodyLength(b, d) = d.reserved
         /\ d.reserved = 0 => BodyLength(b, d) = d.size
<1>1. {TD_QUOTE_BODY_V1_0_SIZE, TD_QUOTE_BODY_V1_5_SIZE} = {2, 3}
  BY DEF TD_QUOTE_BODY_V1_0_SIZE, TD_QUOTE_BODY_V1_5_SIZE
<1>2. 0 \notin {2, 3}
  OBVIOUS
<1> QED  BY <1>1, <1>2, Zenon DEF BodyLength

\* Signature data that is whole is a part of the quote.
LEMMA SignatureRead ==
  ASSUME NEW b \in Seq(QuoteCells), NEW at \in Nat, read_signature(b, at, TRUE).ok
  PROVE  read_signature(b, at, TRUE).data \in Seq(QuoteCells)
<1> DEFINE length == Num(b[at + 1])
<1>1. Len(b) > at /\ at + 1 + length <= Len(b)
  BY DEF read_signature
<1>2. read_signature(b, at, TRUE).data = SubSeq(b, at + 2, at + 1 + length)
  <2>1. read_signature(b, at, TRUE) = [ok |-> TRUE, data |-> SubSeq(b, at + 2, at + 1 + length)]
    BY <1>1 DEF read_signature
  <2>2. \A x : [ok |-> TRUE, data |-> x].data = x
    OBVIOUS
  <2> QED  BY <2>1, <2>2, Zenon
<1>3. length \in Nat
  <2>1. at + 1 \in 1 .. Len(b)
    BY <1>1
  <2> QED  BY <2>1, NumIs
<1> HIDE DEF length
<1>4. at + 2 \in Nat /\ at + 1 + length \in Nat /\ 1 <= at + 2
  BY <1>3
<1> QED  BY <1>1, <1>2, <1>4, SliceIs

\* What a quote that is read consists of.
LEMMA QuoteRead ==
  ASSUME NEW b \in Seq(QuoteCells), UnwrappedQuote(b, TRUE).ok
  PROVE  LET q == UnwrappedQuote(b, TRUE)
             d == Descriptor(b)
         IN  /\ HeaderFits(b)
             /\ q.version = Num(b[1]) /\ q.type = d.type /\ q.size = BodyLength(b, d)
             /\ q.type \in DOMAIN BodySize => q.size = BodySize[q.type]
             /\ Len(b) >= d.at + q.size
             /\ q.body = SubSeq(b, d.at + 1, d.at + q.size)
             /\ \E data \in Seq(QuoteCells) : q.signature = parse_quote_signature(data)
<1> DEFINE d == Descriptor(b)
           size == BodyLength(b, d)
           sig == read_signature(b, d.at + size, TRUE)
           q == UnwrappedQuote(b, TRUE)
<1>1. HeaderFits(b)
  BY Zenon DEF UnwrappedQuote, NoQuote
<1>2. q = QuoteOf(b, d, size, sig)
  BY <1>1 DEF UnwrappedQuote, DescribedQuote, QuoteWithBody
<1>3. d.at \in Nat /\ size \in Nat
  BY <1>1, DescriptorIs, BodyLengthIs
<1> HIDE DEF d, size, sig, q
<1>4. q.ok
  BY DEF q
<1>5. /\ ~ (Len(b) < d.at + size) /\ ~ (d.type \in DOMAIN BodySize /\ size # BodySize[d.type])
      /\ sig.ok
  BY <1>2, <1>4 DEF QuoteOf, NoQuote
<1>6. q = [ok |-> TRUE, version |-> Num(b[1]), type |-> d.type, size |-> size,
           body |-> SubSeq(b, d.at + 1, d.at + size),
           signature |-> parse_quote_signature(sig.data)]
  BY <1>2, <1>5, Zenon DEF QuoteOf
<1>7. sig.data \in Seq(QuoteCells)
  <2>1. d.at + size \in Nat
    BY <1>3
  <2> QED  BY <1>5, <2>1, SignatureRead DEF sig
<1>8. /\ q.version = Num(b[1]) /\ q.type = d.type /\ q.size = size
      /\ q.body = SubSeq(b, d.at + 1, d.at + size)
      /\ q.signature = parse_quote_signature(sig.data)
  BY <1>6
<1>9. Len(b) >= d.at + size
  <2>1. Len(b) \in Nat
    OBVIOUS
  <2> QED  BY <1>3, <1>5, <2>1
<1>10. q.type \in DOMAIN BodySize => q.size = BodySize[q.type]
  BY <1>5, <1>8
<1> QED  BY <1>1, <1>7, <1>8, <1>9, <1>10, Zenon DEF d, size, q

\* The rest of a quote from a place on.
LEMMA FromIs ==
  ASSUME NEW S, NEW s \in Seq(S), NEW i \in Nat, i >= 1
  PROVE  From(s, i) \in Seq(S)
<1>1. Len(s) \in Nat
  OBVIOUS
<1> QED  BY <1>1, SliceIs DEF From

\* The payload of certification data that fits.
LEMMA PayloadIs ==
  ASSUME NEW b \in Seq(QuoteCells), Fits(b)
  PROVE  Payload(b) \in Seq(QuoteCells)
<1>1. Len(b) \in Nat /\ Len(b) >= 2 /\ 2 + Num(b[2]) <= Len(b)
  BY DEF Fits
<1>2. Num(b[2]) \in Nat
  <2>1. 2 \in 1 .. Len(b)
    BY <1>1
  <2> QED  BY <2>1, NumIs
<1>3. 2 + Num(b[2]) \in Nat /\ 3 \in Nat /\ 1 <= 3
  BY <1>2
<1> QED  BY <1>1, <1>3, SliceIs DEF Payload

\* A certificate chain that is read is a part of the quote.
LEMMA PckChainIs ==
  ASSUME NEW p \in Seq(QuoteCells)
  PROVE  parse_pck_cert_chain(p).ok => parse_pck_cert_chain(p).chain \in Seq(QuoteCells)
<1> DEFINE declared == Num(p[1])
           rest == From(p, declared + 2)
           r == parse_pck_cert_chain(p)
<1>1. CASE Len(p) = 0 \/ declared = 0 \/ declared > Len(p) - 1
  <2>1. r = [ok |-> TRUE, chain |-> p]
    BY <1>1 DEF parse_pck_cert_chain
  <2>2. \A x, y : [ok |-> x, chain |-> y].chain = y
    OBVIOUS
  <2> HIDE DEF r
  <2>3. r.chain = p
    BY <2>1, <2>2, Zenon
  <2> QED  BY <2>3 DEF r
<1>2. CASE ~ (Len(p) = 0 \/ declared = 0 \/ declared > Len(p) - 1)
  <2>1. Len(p) \in Nat /\ 1 \in 1 .. Len(p)
    BY <1>2
  <2>2. declared \in Nat
    BY <2>1, NumIs
  <2>3. SubSeq(p, 2, declared + 1) \in Seq(QuoteCells)
    <3>1. PICK n \in Nat : n = declared
      BY <2>2
    <3>2. n + 1 \in Nat /\ n + 1 <= Len(p) /\ 2 \in Nat /\ 1 <= 2
      BY <1>2, <2>1, <3>1
    <3>3. SubSeq(p, 2, n + 1) \in Seq(QuoteCells)
      BY <3>2, SliceIs
    <3> QED  BY <3>1, <3>3
  <2>4. \/ r = [ok |-> FALSE, chain |-> <<>>]
        \/ r = [ok |-> TRUE, chain |-> SubSeq(p, 2, declared + 1)]
    BY <1>2, Zenon DEF parse_pck_cert_chain
  <2>5. \A x, y : [ok |-> x, chain |-> y].ok = x /\ [ok |-> x, chain |-> y].chain = y
    OBVIOUS
  <2>6. PICK part : part = SubSeq(p, 2, declared + 1)
    OBVIOUS
  <2>7. part \in Seq(QuoteCells)
    BY <2>3, <2>6
  <2>8. r = [ok |-> FALSE, chain |-> <<>>] \/ r = [ok |-> TRUE, chain |-> part]
    BY <2>4, <2>6
  <2> HIDE DEF r
  <2>9. r.ok => r.chain = part
    BY <2>8
  <2> QED  BY <2>7, <2>9 DEF r
<1> QED  BY <1>1, <1>2

\* What certification data is made of, where it is present.
CertifiedBy(c) ==
  c.aux => /\ c.qe \in Seq(QuoteCells) /\ Len(c.qe) = 2
           /\ c.qesig \in QuoteCells /\ c.auth \in Seq(QuoteCells)
           /\ c.pck => c.chain \in Seq(QuoteCells)

\* What carries no certification.
LEMMA NoAux == ~ NoCertification.aux /\ ~ Malformed.aux /\ ~ Malformed.ok
BY DEF NoCertification, Malformed

\* Certification data, as parse_ecdsa_sig_aux reads it.
LEMMA AuxRead ==
  ASSUME NEW p \in Seq(QuoteCells)
  PROVE  CertifiedBy(parse_ecdsa_sig_aux(p))
<1> DEFINE r == parse_ecdsa_sig_aux(p)
           qe == SubSeq(p, 1, SGX_REPORT_BODY_SIZE)
           qesig == p[SGX_REPORT_BODY_SIZE + 1]
           size == Num(p[SGX_REPORT_BODY_SIZE + 2])
           auth == SubSeq(p, SGX_REPORT_BODY_SIZE + 3, SGX_REPORT_BODY_SIZE + 2 + size)
           nested == From(p, SGX_REPORT_BODY_SIZE + 3 + size)
           pck == parse_pck_cert_chain(Payload(nested))
           aux(isPck, chain) == [ok |-> TRUE, aux |-> TRUE, qe |-> qe, qesig |-> qesig,
                                 auth |-> auth, pck |-> isPck, chain |-> chain]
           bad == \/ Len(p) < SGX_REPORT_BODY_SIZE + 2
                  \/ Len(p) < SGX_REPORT_BODY_SIZE + 2 + size
                  \/ nested # <<>> /\ ~ Fits(nested)
           good == nested # <<>> /\ Num(nested[1]) = PCK_CERT_CHAIN /\ pck.ok
<1>1. r = IF bad THEN Malformed ELSE IF good THEN aux(TRUE, pck.chain) ELSE aux(FALSE, <<>>)
  BY DEF parse_ecdsa_sig_aux
<1>2. CASE bad
  <2> HIDE DEF r, bad
  <2>1. r = Malformed
    BY <1>1, <1>2
  <2> QED  BY <2>1, NoAux DEF CertifiedBy, r
<1>3. CASE ~ bad
  <2>0. SGX_REPORT_BODY_SIZE = 2 /\ SGX_REPORT_BODY_SIZE + 1 = 3 /\ SGX_REPORT_BODY_SIZE + 2 = 4
        /\ SGX_REPORT_BODY_SIZE + 3 = 5
    BY DEF SGX_REPORT_BODY_SIZE
  <2>1. Len(p) \in Nat /\ ~ (Len(p) < 4)
    <3>1. ~ (Len(p) < SGX_REPORT_BODY_SIZE + 2)
      BY <1>3
    <3>2. Len(p) \in Nat
      OBVIOUS
    <3> QED  BY <2>0, <3>1, <3>2, Zenon
  <2>2. 4 \in 1 .. Len(p) /\ 3 \in 1 .. Len(p) /\ 2 \in 0 .. Len(p)
    BY <2>1
  <2>3. size \in Nat
    BY <2>0, <2>2, NumIs
  <2>4. PICK n \in Nat : n = size
    BY <2>3
  <2>5. ~ (Len(p) < 4 + n)
    BY <1>3, <2>0, <2>4
  <2>6. qe \in Seq(QuoteCells) /\ Len(qe) = 2 /\ qesig \in QuoteCells
    BY <2>0, <2>2, NumIs, Firsts
  <2>7. auth \in Seq(QuoteCells)
    <3>1. 5 \in Nat /\ 4 + n \in Nat /\ 1 <= 5 /\ 4 + n <= Len(p)
      BY <2>1, <2>5
    <3>2. SubSeq(p, 5, 4 + n) \in Seq(QuoteCells)
      BY <3>1, SliceIs
    <3> QED  BY <2>0, <2>4, <3>2
  <2>8. nested \in Seq(QuoteCells)
    <3>1. 5 + n \in Nat /\ 5 + n >= 1
      OBVIOUS
    <3>2. From(p, 5 + n) \in Seq(QuoteCells)
      BY <3>1, FromIs
    <3> QED  BY <2>0, <2>4, <3>2
  <2>9. good => pck.chain \in Seq(QuoteCells)
    <3>1. nested # <<>> => Fits(nested)
      BY <1>3
    <3> HIDE DEF nested
    <3>2. good => Payload(nested) \in Seq(QuoteCells)
      BY <2>8, <3>1, PayloadIs
    <3> QED  BY <3>2, PckChainIs
  <2> HIDE DEF r, bad, good, pck, qe, qesig, auth
  <2>10. (r = aux(TRUE, pck.chain) /\ good) \/ r = aux(FALSE, <<>>)
    BY <1>1, <1>3
  <2>11. \A x, y : /\ aux(x, y).qe = qe /\ aux(x, y).qesig = qesig /\ aux(x, y).auth = auth
                   /\ aux(x, y).pck = x /\ aux(x, y).chain = y
    OBVIOUS
  <2>12. r.pck => good /\ r.chain = pck.chain
    <3>1. aux(TRUE, pck.chain).chain = pck.chain /\ aux(FALSE, <<>>).pck = FALSE
      BY <2>11
    <3> HIDE DEF aux
    <3> QED  BY <2>10, <3>1
  <2>13. r.qe = qe /\ r.qesig = qesig /\ r.auth = auth
    <3>1. /\ aux(TRUE, pck.chain).qe = qe /\ aux(TRUE, pck.chain).qesig = qesig
          /\ aux(TRUE, pck.chain).auth = auth
      BY <2>11
    <3>2. /\ aux(FALSE, <<>>).qe = qe /\ aux(FALSE, <<>>).qesig = qesig
          /\ aux(FALSE, <<>>).auth = auth
      BY <2>11
    <3> HIDE DEF aux
    <3> QED  BY <2>10, <3>1, <3>2
  <2> QED  BY <2>6, <2>7, <2>9, <2>12, <2>13, Zenon DEF CertifiedBy, r
<1> QED  BY <1>2, <1>3

\* The same behind its type and size (parse_certification).
LEMMA CertificationRead ==
  ASSUME NEW b \in Seq(QuoteCells)
  PROVE  CertifiedBy(parse_certification(b))
<1>1. CertifiedBy(Malformed) /\ CertifiedBy(NoCertification)
  BY NoAux DEF CertifiedBy
<1>2. CASE Fits(b)
  BY <1>1, <1>2, PayloadIs, AuxRead DEF parse_certification
<1>3. CASE ~ Fits(b)
  BY <1>1, <1>3 DEF parse_certification
<1> QED  BY <1>2, <1>3

\* A signature that is present has a key and certification data read from the quote.
LEMMA SignaturePresent ==
  ASSUME NEW data \in Seq(QuoteCells), parse_quote_signature(data).present
  PROVE  LET s == parse_quote_signature(data)
         IN  /\ s.signature \in QuoteCells /\ s.key \in QuoteCells
             /\ CertifiedBy(s.certification)
<1> DEFINE s == parse_quote_signature(data)
           certification == IF Len(data) = 2 THEN NoCertification
                                             ELSE parse_certification(From(data, 3))
<1>1. s = IF Len(data) < 2 \/ ~ certification.ok THEN [present |-> FALSE]
          ELSE [present |-> TRUE, signature |-> data[1], key |-> data[2],
                certification |-> certification]
  BY DEF parse_quote_signature
<1>2. CertifiedBy(certification)
  <2>1. CertifiedBy(NoCertification)
    BY NoAux DEF CertifiedBy
  <2>2. From(data, 3) \in Seq(QuoteCells)
    BY FromIs
  <2> QED  BY <2>1, <2>2, CertificationRead
<1> HIDE DEF s, certification
<1>3. s.present
  BY DEF s
<1>4. /\ ~ (Len(data) < 2)
      /\ s = [present |-> TRUE, signature |-> data[1], key |-> data[2],
              certification |-> certification]
  BY <1>1, <1>3
<1>5. s.signature = data[1] /\ s.key = data[2] /\ s.certification = certification
  BY <1>4
<1>6. data[1] \in QuoteCells /\ data[2] \in QuoteCells
  BY <1>4
<1> QED  BY <1>2, <1>5, <1>6, Zenon DEF s

-----------------------------------------------------------------------------
(* The measurement and the report data are where the signature covers them. *)

\* A sequence laid out as a head, two elements and a rest.
LEMMA Laid ==
  ASSUME NEW S, NEW head \in Seq(S), NEW a \in S, NEW b \in S, NEW rest \in Seq(S),
         NEW c, c = head \o <<a, b>> \o rest
  PROVE  /\ Len(c) = Len(head) + 2 + Len(rest)
         /\ \A i \in 1 .. Len(head) : c[i] = head[i]
         /\ c[Len(head) + 1] = a /\ c[Len(head) + 2] = b
<1> DEFINE two == <<a, b>>
           left == head \o two
<1>0. c = left \o rest
  OBVIOUS
<1>1. two \in Seq(S) /\ Len(two) = 2 /\ two[1] = a /\ two[2] = b
  OBVIOUS
<1> HIDE DEF two
<1>2. /\ left \in Seq(S) /\ Len(left) = Len(head) + Len(two)
      /\ \A i \in 1 .. Len(head) + Len(two) :
            left[i] = IF i <= Len(head) THEN head[i] ELSE two[i - Len(head)]
  BY <1>1, ConcatProperties
<1> HIDE DEF left
<1>3. /\ Len(c) = Len(left) + Len(rest)
      /\ \A i \in 1 .. Len(left) + Len(rest) :
            c[i] = IF i <= Len(left) THEN left[i] ELSE rest[i - Len(left)]
  <2>1. PICK l \in Seq(S) : l = left
    BY <1>2
  <2>2. /\ Len(l \o rest) = Len(l) + Len(rest)
        /\ \A i \in 1 .. Len(l) + Len(rest) :
              (l \o rest)[i] = IF i <= Len(l) THEN l[i] ELSE rest[i - Len(l)]
    BY ConcatProperties
  <2> QED  BY <1>0, <2>1, <2>2
<1>4. PICK h \in Nat, r \in Nat : h = Len(head) /\ r = Len(rest)
  OBVIOUS
<1>5. Len(left) = h + 2 /\ Len(c) = h + 2 + r
  BY <1>1, <1>2, <1>3, <1>4
<1>6. \A i \in 1 .. h + 2 : c[i] = left[i]
  <2>1. \A i \in 1 .. h + 2 : i <= h + 2 /\ i \in 1 .. (h + 2) + r
    BY <1>4
  <2> QED  BY <1>3, <1>4, <1>5, <2>1
<1>7. \A i \in 1 .. h + 2 : left[i] = IF i <= h THEN head[i] ELSE two[i - h]
  BY <1>1, <1>2, <1>4
<1>8. \A i \in 1 .. h : c[i] = head[i]
  <2>1. \A i \in 1 .. h : i <= h /\ i \in 1 .. h + 2
    OBVIOUS
  <2> QED  BY <1>6, <1>7, <2>1
<1>9. c[h + 1] = a /\ c[h + 2] = b
  <2>1. /\ h + 1 \in 1 .. h + 2 /\ ~ (h + 1 <= h) /\ (h + 1) - h = 1
        /\ h + 2 \in 1 .. h + 2 /\ ~ (h + 2 <= h) /\ (h + 2) - h = 2
    OBVIOUS
  <2> QED  BY <1>1, <1>6, <1>7, <2>1, Zenon
<1> QED  BY <1>4, <1>5, <1>8, <1>9

\* Where the quoted part of a quote has its fields, in each layout.
LEMMA BodyShape ==
  ASSUME NEW td \in TdHosts, NEW f \in WrittenForms
  PROVE  LET b == Body(td, f)
         IN  /\ Len(b) >= 5 /\ Num(b[2]) = 129
             /\ f.layout = "v4" =>
                  /\ Len(b) = 5 /\ Num(b[1]) = 4
                  /\ b[4] = N(td.mr) /\ b[5] = N(td.data)
             /\ f.layout = "v5" =>
                  /\ Len(b) = 5 + BodySize[f.type] /\ Num(b[1]) = 5 /\ Num(b[4]) = f.type
                  /\ Num(b[5]) = BodySize[f.type]
                  /\ b[6] = N(td.mr) /\ b[7] = N(td.data)
             /\ f.layout = "behind" =>
                  /\ Len(b) = 8 + BodySize[f.type] /\ Num(b[1]) = 5
                  /\ Num(b[4]) = 0 /\ Num(b[5]) = 0 /\ Num(b[6]) = f.type
<1> DEFINE b == Body(td, f)
           head == QuoteHead(f)
<1>1. PICK z \in Nat : z = BodySize[f.type] /\ z >= 2
  <2>1. BodySize[f.type] \in {2, 3, 5}
    BY FormIs, BodySizeIs
  <2> QED  BY <2>1
<1>2. PICK rest \in Seq(NumberCells) :
         Len(rest) = z - 2 /\ b = head \o <<N(td.mr), N(td.data)>> \o rest
  <2> DEFINE rest == [i \in 1 .. (BodySize[f.type] - 2) |-> N(30 + i)]
  <2>1. z - 2 \in 0 .. 3
    <3>1. BodySize[f.type] \in {2, 3, 5}
      BY FormIs, BodySizeIs
    <3> QED  BY <1>1, <3>1
  <2>2. \A i \in 1 .. z - 2 : 30 + i \in 0 .. 699
    BY <1>1, <2>1
  <2>3. \A i \in 1 .. z - 2 : N(30 + i) \in NumberCells
    BY <2>2, Small
  <2>4. /\ [i \in 1 .. z - 2 |-> N(30 + i)] \in Seq(NumberCells)
        /\ Len([i \in 1 .. z - 2 |-> N(30 + i)]) = z - 2
    <3>1. PICK k \in Nat : k = z - 2
      BY <2>1
    <3>2. [i \in 1 .. k |-> N(30 + i)] \in Seq(NumberCells) /\ Len([i \in 1 .. k |-> N(30 + i)]) = k
      BY <2>3, <3>1
    <3> QED  BY <3>1, <3>2
  <2>5. rest \in Seq(NumberCells) /\ Len(rest) = z - 2
    BY <1>1, <2>4
  <2>6. b = head \o <<N(td.mr), N(td.data)>> \o rest
    BY DEF Body
  <2> HIDE DEF rest, b
  <2> QED  BY <2>5, <2>6
<1>3. N(td.mr) \in NumberCells /\ N(td.data) \in NumberCells /\ head \in Seq(NumberCells)
  BY HostIs, HeadIs DEF NumberCells
<1> HIDE DEF b, head
<1>4. /\ Len(b) = Len(head) + 2 + (z - 2)
      /\ \A i \in 1 .. Len(head) : b[i] = head[i]
      /\ b[Len(head) + 1] = N(td.mr) /\ b[Len(head) + 2] = N(td.data)
  <2>1. PICK x \in NumberCells, y \in NumberCells : x = N(td.mr) /\ y = N(td.data)
    BY <1>3
  <2>2. b = head \o <<x, y>> \o rest
    BY <1>2, <2>1
  <2>3. /\ Len(b) = Len(head) + 2 + Len(rest)
        /\ \A i \in 1 .. Len(head) : b[i] = head[i]
        /\ b[Len(head) + 1] = x /\ b[Len(head) + 2] = y
    <3>1. PICK hd, c : hd \in Seq(NumberCells) /\ hd = head /\ c = b
      BY <1>3
    <3>2. c = hd \o <<x, y>> \o rest
      BY <2>2, <3>1
    <3>3. /\ Len(c) = Len(hd) + 2 + Len(rest)
          /\ \A i \in 1 .. Len(hd) : c[i] = hd[i]
          /\ c[Len(hd) + 1] = x /\ c[Len(hd) + 2] = y
      BY <3>2, Laid
    <3> QED  BY <3>1, <3>3
  <2> QED  BY <1>2, <2>1, <2>3
<1>5. \A n : Num(N(n)) = n
  BY DEF Num, N
<1>6. CASE f.layout = "v4"
  <2>1. head = <<N(4), N(TDX), N(0)>>
    BY <1>6 DEF head, QuoteHead
  <2>2. Len(head) = 3 /\ head[1] = N(4) /\ head[2] = N(TDX)
    BY <2>1
  <2>3. z = 2
    BY <1>1, <1>6, FormIs, BodySizeIs
  <2>4. 1 \in 1 .. 3 /\ 2 \in 1 .. 3 /\ 3 + 1 = 4 /\ 3 + 2 = 5 /\ 3 + 2 + (2 - 2) = 5 /\ 5 >= 5
    OBVIOUS
  <2>5. /\ Len(b) = 5 /\ b[1] = N(4) /\ b[2] = N(TDX)
        /\ b[4] = N(td.mr) /\ b[5] = N(td.data)
    BY <1>4, <2>2, <2>3, <2>4
  <2>6. f.layout # "v5" /\ f.layout # "behind" /\ TDX = 129
    BY <1>6 DEF TDX
  <2>7. Num(b[1]) = 4 /\ Num(b[2]) = 129
    BY <1>5, <2>5, <2>6, ZenonT(60)
  <2>8. Len(b) >= 5
    BY <2>4, <2>5, Zenon
  <2> QED  BY <2>5, <2>6, <2>7, <2>8, Zenon DEF b
<1>7. CASE f.layout = "v5"
  <2>1. head = <<N(5), N(TDX), N(0), N(f.type), N(BodySize[f.type])>>
    BY <1>7 DEF head, QuoteHead
  <2>2. /\ Len(head) = 5 /\ head[1] = N(5) /\ head[2] = N(TDX) /\ head[4] = N(f.type)
        /\ head[5] = N(BodySize[f.type])
    BY <2>1
  <2>3. /\ 1 \in 1 .. 5 /\ 2 \in 1 .. 5 /\ 4 \in 1 .. 5 /\ 5 \in 1 .. 5 /\ 5 + 1 = 6 /\ 5 + 2 = 7
        /\ 5 + 2 + (z - 2) = 5 + z /\ 5 + z >= 5
    BY <1>1
  <2>5. /\ Len(b) = 5 + z /\ b[1] = N(5) /\ b[2] = N(TDX) /\ b[4] = N(f.type)
        /\ b[5] = N(BodySize[f.type]) /\ b[6] = N(td.mr) /\ b[7] = N(td.data)
    BY <1>4, <2>2, <2>3
  <2>6. f.layout # "v4" /\ f.layout # "behind" /\ TDX = 129
    BY <1>7 DEF TDX
  <2>7. /\ Num(b[1]) = 5 /\ Num(b[2]) = 129 /\ Num(b[4]) = f.type
        /\ Num(b[5]) = BodySize[f.type]
    BY <1>5, <2>5, <2>6, ZenonT(60)
  <2>8. Len(b) >= 5 /\ Len(b) = 5 + BodySize[f.type]
    BY <1>1, <2>3, <2>5, Zenon
  <2> QED  BY <2>5, <2>6, <2>7, <2>8, Zenon DEF b
<1>8. CASE f.layout = "behind"
  <2>1. head = <<N(5), N(TDX), N(0), N(0), N(0), N(f.type), N(BodySize[f.type]), N(600)>>
    BY <1>8 DEF head, QuoteHead
  <2>2. /\ Len(head) = 8 /\ head[1] = N(5) /\ head[2] = N(TDX) /\ head[4] = N(0) /\ head[5] = N(0)
        /\ head[6] = N(f.type)
    BY <2>1
  <2>3. /\ 1 \in 1 .. 8 /\ 2 \in 1 .. 8 /\ 4 \in 1 .. 8 /\ 5 \in 1 .. 8 /\ 6 \in 1 .. 8
        /\ 8 + 2 + (z - 2) = 8 + z /\ 8 + z >= 5
    BY <1>1
  <2>5. /\ Len(b) = 8 + z /\ b[1] = N(5) /\ b[2] = N(TDX) /\ b[4] = N(0) /\ b[5] = N(0)
        /\ b[6] = N(f.type)
    BY <1>4, <2>2, <2>3
  <2>6. f.layout # "v4" /\ f.layout # "v5" /\ TDX = 129
    BY <1>8 DEF TDX
  <2>7. /\ Num(b[1]) = 5 /\ Num(b[2]) = 129
        /\ Num(b[4]) = 0 /\ Num(b[5]) = 0 /\ Num(b[6]) = f.type
    BY <1>5, <2>5, <2>6, ZenonT(60)
  <2>8. Len(b) >= 5 /\ Len(b) = 8 + BodySize[f.type]
    BY <1>1, <2>3, <2>5, Zenon
  <2> QED  BY <2>5, <2>6, <2>7, <2>8, Zenon DEF b
<1> QED  BY <1>6, <1>7, <1>8, FormIs

\* The first two elements of a part of a sequence.
LEMMA FirstTwo ==
  ASSUME NEW S, NEW s \in Seq(S), NEW at \in Nat, NEW size \in Nat, size >= 2,
         at + size <= Len(s)
  PROVE  SubSeq(SubSeq(s, at + 1, at + size), 1, 2) = <<s[at + 1], s[at + 2]>>
<1>1. PICK part : part = SubSeq(s, at + 1, at + size)
  OBVIOUS
<1>2. PICK a \in Nat, e \in Nat :
         /\ a = at + 1 /\ e = at + size /\ 1 <= a /\ a <= e + 1 /\ e + 1 - a = size
         /\ e <= Len(s)
  OBVIOUS
<1>3. /\ part \in Seq(S) /\ Len(part) = size
      /\ \A i \in 1 .. size : part[i] = s[at + 1 + i - 1]
  <2>1. /\ SubSeq(s, a, e) \in Seq(S)
        /\ a <= e + 1 => Len(SubSeq(s, a, e)) = e + 1 - a
        /\ \A i \in 1 .. (e + 1 - a) : SubSeq(s, a, e)[i] = s[a + i - 1]
    BY <1>2, SliceIs
  <2> QED  BY <1>1, <1>2, <2>1
<1>4. 1 \in 1 .. size /\ 2 \in 1 .. size /\ at + 1 + 1 - 1 = at + 1 /\ at + 1 + 2 - 1 = at + 2
  OBVIOUS
<1>5. part[1] = s[at + 1] /\ part[2] = s[at + 2]
  BY <1>3, <1>4
<1>6. /\ 2 \in 0 .. Len(part)
      /\ SubSeq(part, 1, 2) \in Seq(S) /\ Len(SubSeq(part, 1, 2)) = 2
      /\ \A i \in 1 .. 2 : SubSeq(part, 1, 2)[i] = part[i]
  <2>1. 2 \in 0 .. Len(part)
    BY <1>3
  <2> QED  BY <1>3, <2>1, Firsts
<1>7. PICK x, y : x = part[1] /\ y = part[2]
  OBVIOUS
<1>8. SubSeq(part, 1, 2) = <<x, y>>
  <2>1. PICK t \in Seq(S) : t = SubSeq(part, 1, 2)
    BY <1>6
  <2>2. Len(t) = 2 /\ t[1] = x /\ t[2] = y
    BY <1>6, <1>7, <2>1
  <2>3. t = <<x, y>>
    BY <2>2
  <2> QED  BY <2>1, <2>3
<1> QED  BY <1>1, <1>5, <1>7, <1>8

\* What the signature of a quote covers, as its verifier counts it.
SignedLength(q) == q.size + (IF q.version >= 5 THEN TD_QUOTE_HEADER_V5_SIZE
                                               ELSE TD_QUOTE_HEADER_V4_SIZE)

\* The length a signature covers is at least a header and two fields.
LEMMA LengthIs ==
  ASSUME NEW b \in Seq(QuoteCells), parse_td_quote(b).ok,
         parse_td_quote(b).type \in DOMAIN BodySize
  PROVE  LET q == parse_td_quote(b)
         IN  /\ q.size \in {2, 3, 5} /\ q.size = BodySize[q.type]
             /\ SignedLength(q) = q.size + 3 \/ SignedLength(q) = q.size + 5
             /\ SignedLength(q) \in Nat /\ SignedLength(q) >= 5
<1> DEFINE u == unwrap_qgs_get_quote_response(b)
           q == parse_td_quote(b)
<1>1. q = UnwrappedQuote(u, TRUE) /\ u \in Seq(QuoteCells)
  BY UnwrapIs DEF parse_td_quote, parse_td_quote_with_options
<1> HIDE DEF u, q
<1>2. q.ok /\ q.type \in DOMAIN BodySize
  BY DEF q
<1>3. q.size = BodySize[q.type]
  BY <1>1, <1>2, QuoteRead
<1>4. q.size \in {2, 3, 5}
  BY <1>2, <1>3, BodySizeIs
<1>5. SignedLength(q) = q.size + 3 \/ SignedLength(q) = q.size + 5
  BY DEF SignedLength, TD_QUOTE_HEADER_V5_SIZE, TD_QUOTE_HEADER_V4_SIZE
<1>6. \A s \in {2, 3, 5} : /\ s + 3 \in Nat /\ s + 3 >= 5 /\ s + 5 \in Nat /\ s + 5 >= 5
  OBVIOUS
<1>7. SignedLength(q) \in Nat /\ SignedLength(q) >= 5
  BY <1>4, <1>5, <1>6
<1> QED  BY <1>3, <1>4, <1>5, <1>7 DEF q

\* A quote whose signed part is one a TD had signed: the measurement and the
\* report data read from it are those of that TD.
LEMMA MeasuredRead ==
  ASSUME NEW b \in Seq(QuoteCells), NEW td \in TdHosts, NEW f \in WrittenForms,
         parse_td_quote(b).ok, parse_td_quote(b).type \in DOMAIN BodySize,
         SignedLength(parse_td_quote(b)) <= Len(b),
         SubSeq(b, 1, SignedLength(parse_td_quote(b))) = Body(td, f)
  PROVE  SubSeq(parse_td_quote(b).body, 1, 2) = <<N(td.mr), N(td.data)>>
<1>1. PICK q : q = parse_td_quote(b)
  OBVIOUS
<1>2. PICK m :
         /\ m = Body(td, f) /\ Num(m[2]) = 129
         /\ f.layout = "v4" =>
              /\ Len(m) = 5 /\ Num(m[1]) = 4
              /\ m[4] = N(td.mr) /\ m[5] = N(td.data)
         /\ f.layout = "v5" =>
              /\ Len(m) = 5 + BodySize[f.type] /\ Num(m[1]) = 5 /\ Num(m[4]) = f.type
              /\ m[6] = N(td.mr) /\ m[7] = N(td.data)
         /\ f.layout = "behind" =>
              /\ Len(m) = 8 + BodySize[f.type] /\ Num(m[1]) = 5
              /\ Num(m[4]) = 0 /\ Num(m[5]) = 0 /\ Num(m[6]) = f.type
  BY BodyShape
<1>3. PICK z \in {2, 3, 5}, l \in Nat :
         /\ q.size = z /\ z = BodySize[q.type] /\ l = SignedLength(q)
         /\ l = z + 3 \/ l = z + 5
         /\ l >= 5 /\ l <= Len(b) /\ SubSeq(b, 1, l) = m
  BY <1>1, <1>2, LengthIs
<1>4. Len(m) = l /\ \A i \in 1 .. l : b[i] = m[i]
  <2>1. l \in 0 .. Len(b)
    BY <1>3
  <2> QED  BY <1>3, <2>1, Firsts
<1>5. \A i \in 1 .. 5 : i \in 1 .. l
  BY <1>3
<1>6. Num(b[2]) = 129
  <2>1. 2 \in 1 .. 5
    OBVIOUS
  <2>2. b[2] = m[2]
    BY <1>4, <1>5, <2>1
  <2> QED  BY <1>2, <2>2
<1>7. q = UnwrappedQuote(b, TRUE)
  <2>1. ~ Enveloped(b)
    <3>1. 129 # 1
      OBVIOUS
    <3> QED  BY <1>6, <3>1 DEF Enveloped, GET_QUOTE_RESP
  <2> QED  BY <1>1, <2>1 DEF parse_td_quote, parse_td_quote_with_options,
                             unwrap_qgs_get_quote_response
<1>8. PICK d : d = Descriptor(b)
  OBVIOUS
<1>9. /\ q.version = Num(b[1]) /\ q.type = d.type /\ q.body = SubSeq(b, d.at + 1, d.at + z)
      /\ Len(b) >= d.at + z
  BY <1>1, <1>3, <1>7, <1>8, QuoteRead
<1>10. b[1] = m[1] /\ b[4] = m[4] /\ b[5] = m[5]
  <2>1. 1 \in 1 .. 5 /\ 4 \in 1 .. 5 /\ 5 \in 1 .. 5
    OBVIOUS
  <2> QED  BY <1>4, <1>5, <2>1
<1>11. z \in Nat /\ z >= 2 /\ Len(b) \in Nat
  BY <1>3
<1>12. l = z + (IF q.version >= 5 THEN 5 ELSE 3)
  BY <1>3 DEF SignedLength, TD_QUOTE_HEADER_V5_SIZE, TD_QUOTE_HEADER_V4_SIZE
<1>13. CASE f.layout = "v4"
  <2>1. Num(b[1]) = 4 /\ b[4] = N(td.mr) /\ b[5] = N(td.data)
    BY <1>2, <1>10, <1>13
  <2>2. d = [at |-> 3, type |-> Tdx10, reserved |-> 0, size |-> 2]
    <3>1. 4 <= 4
      OBVIOUS
    <3> QED  BY <1>8, <2>1, <3>1 DEF Descriptor, TD_QUOTE_HEADER_V4_SIZE, TD_QUOTE_BODY_V1_0_SIZE
  <2>3. d.at = 3
    BY <2>2
  <2>4. 3 \in Nat /\ 3 + 1 = 4 /\ 3 + 2 = 5 /\ 3 + z <= Len(b)
    BY <1>9, <1>11, <2>3
  <2>5. SubSeq(SubSeq(b, 3 + 1, 3 + z), 1, 2) = <<b[3 + 1], b[3 + 2]>>
    BY <1>11, <2>4, FirstTwo
  <2>6. SubSeq(q.body, 1, 2) = <<b[4], b[5]>>
    BY <1>9, <2>3, <2>4, <2>5
  <2> QED  BY <1>1, <2>1, <2>6
<1>14. CASE f.layout = "v5"
  <2>0. 6 \in 1 .. l /\ 7 \in 1 .. l /\ l = 5 + BodySize[f.type]
    <3>1. l = 5 + BodySize[f.type]
      BY <1>2, <1>4, <1>14
    <3>2. BodySize[f.type] \in {2, 3, 5}
      BY FormIs, BodySizeIs
    <3> QED  BY <3>1, <3>2
  <2>1. Num(b[1]) = 5 /\ Num(b[4]) = f.type /\ b[6] = N(td.mr) /\ b[7] = N(td.data)
    BY <1>2, <1>4, <1>10, <1>14, <2>0
  <2>2. ~ Behind(b)
    <3>1. f.type # 0
      BY FormIs
    <3> QED  BY <2>1, <3>1 DEF Behind
  <2>3. d = [at |-> 5, type |-> Num(b[4]), reserved |-> 0, size |-> Num(b[5])]
    <3>1. ~ (5 <= 4)
      OBVIOUS
    <3> QED  BY <1>8, <2>1, <2>2, <3>1 DEF Descriptor, TD_QUOTE_HEADER_V5_SIZE
  <2>4. d.at = 5
    BY <2>3
  <2>5. 5 \in Nat /\ 5 + 1 = 6 /\ 5 + 2 = 7 /\ 5 + z <= Len(b)
    BY <1>9, <1>11, <2>4
  <2>6. SubSeq(SubSeq(b, 5 + 1, 5 + z), 1, 2) = <<b[5 + 1], b[5 + 2]>>
    BY <1>11, <2>5, FirstTwo
  <2>7. SubSeq(q.body, 1, 2) = <<b[6], b[7]>>
    BY <1>9, <2>4, <2>5, <2>6
  <2> QED  BY <1>1, <2>1, <2>7
<1>15. CASE f.layout = "behind"
  <2>1. l = 8 + BodySize[f.type] /\ BodySize[f.type] \in {2, 3, 5}
    BY <1>2, <1>4, <1>15, FormIs, BodySizeIs
  <2>2. 6 \in 1 .. l
    BY <2>1
  <2>3. /\ Num(b[1]) = 5 /\ Num(b[4]) = 0 /\ Num(b[5]) = 0 /\ Num(b[6]) = f.type
    BY <1>2, <1>4, <1>10, <1>15, <2>2
  <2>4. d = [at |-> 8, type |-> Num(b[6]), reserved |-> Num(b[7]), size |-> Num(b[8])]
    <3>1. ~ (5 <= 4) /\ 5 + 3 = 8
      OBVIOUS
    <3> QED  BY <1>8, <2>3, <3>1 DEF Descriptor, Behind, TD_QUOTE_HEADER_V5_SIZE, DESCRIPTOR_SIZE
  <2>5. q.type = f.type
    BY <1>9, <2>3, <2>4
  <2>6. l = z + 5
    BY <1>9, <1>12, <2>3
  <2>7. z = BodySize[f.type]
    BY <1>3, <2>5
  <2> QED  BY <1>11, <2>1, <2>6, <2>7
<1> QED  BY <1>13, <1>14, <1>15, FormIs

-----------------------------------------------------------------------------
(* TDX: accepted quotes.                                                   *)

\* A set of numbers that is not empty has a least one.
LEMMA LeastOf ==
  ASSUME NEW T, T \subseteq Nat, T # {}
  PROVE  \E i \in T : \A j \in T : i <= j
<1> DEFINE X == {n \in Nat : (\E i \in T : i <= n) => \E i \in T : \A j \in T : i <= j}
<1>1. 0 \in X
  <2>1. \A i \in Nat : i <= 0 => i = 0 /\ \A j \in Nat : i <= j
    OBVIOUS
  <2> QED  BY <2>1
<1>2. ASSUME NEW n \in Nat, n \in X PROVE n + 1 \in X
  <2> SUFFICES ASSUME NEW i \in T, i <= n + 1
               PROVE  \E k \in T : \A j \in T : k <= j
    OBVIOUS
  <2>1. CASE \E k \in T : k <= n
    BY <1>2, <2>1
  <2>2. CASE \A k \in T : ~ (k <= n)
    <3>1. \A k \in T : i <= k
      <4>1. \A k \in Nat : ~ (k <= n) => n + 1 <= k
        OBVIOUS
      <4>2. i \in Nat /\ i = n + 1
        BY <2>2
      <4> QED  BY <2>2, <4>1, <4>2
    <3> QED  BY <3>1
  <2> QED  BY <2>1, <2>2
<1>3. Nat \subseteq X
  <2> HIDE DEF X
  <2> QED  BY <1>1, <1>2, Induct
<1>4. PICK i \in T : TRUE
  OBVIOUS
<1>5. i \in X /\ i <= i
  BY <1>3
<1> QED  BY <1>5

\* The leaf of a chain of certificates, and the certificates behind it.
LEMMA ChainParts ==
  ASSUME NEW cells \in Seq(QuoteCells), NEW roots, NEW day, pck_chain(cells, roots, day)
  PROVE  LET leaf == cells[LeafAt(cells)]
         IN  /\ leaf \in QuoteCells /\ Len(leaf) >= 6 /\ Num(leaf) = Pem
             /\ Within(CertPeriod(leaf), day)
             /\ \/ CertIssuer(leaf) \in roots
                \/ \E c \in QuoteCells : /\ Len(c) >= 6 /\ Num(c) = Pem
                                         /\ CertIssuer(leaf) = CertKey(c)
                                         /\ CertIssuer(c) \in roots
<1> DEFINE T == parse_pem_chain(cells)
           leaf == cells[LeafAt(cells)]
<1>1. T # {} /\ verify_cert_chain(leaf, {c \in Others(cells) : ~ self_signed(c)}, roots, day)
  BY Zenon DEF pck_chain
<1>2. T = PemBlocks(cells) /\ \A i \in PemBlocks(cells) : Len(cells[i]) >= 6
  BY <1>1 DEF parse_pem_chain, CERTIFICATE_SIZE
<1>3. \A i \in T : i \in 1 .. Len(cells) /\ Len(cells[i]) >= 6 /\ Num(cells[i]) = Pem
  BY <1>2 DEF PemBlocks
<1>4. T \subseteq Nat /\ \A i \in T : cells[i] \in QuoteCells
  BY <1>3
<1>5. LeafAt(cells) \in T
  <2>1. \E i \in T : \A j \in T : i <= j
    <3> HIDE DEF T
    <3> QED  BY <1>1, <1>4, LeastOf
  <2> QED  BY <1>2, <2>1, Zenon DEF LeafAt
<1>6. \A c \in Others(cells) : c \in QuoteCells /\ Len(c) >= 6 /\ Num(c) = Pem
  BY <1>3, <1>4 DEF Others
<1> HIDE DEF T
<1> QED  BY <1>1, <1>3, <1>4, <1>5, <1>6, Zenon DEF verify_cert_chain

\* Who issued a PCK certificate, and when that chains to a root.
LEMMA PckRoot ==
  ASSUME NEW cells \in Seq(QuoteCells), NEW day, pck_chain(cells, {IntelRoot}, day),
         NEW td \in TdHosts, CertKey(cells[LeafAt(cells)]) = td.platform.pck
  PROVE  td.platform.root = IntelRoot /\ Within(td.platform.certs.leaf, day)
<1>1. PICK leaf : leaf = cells[LeafAt(cells)]
  OBVIOUS
<1>2. /\ leaf \in QuoteCells /\ Len(leaf) >= 6 /\ Num(leaf) = Pem
      /\ Within(CertPeriod(leaf), day)
      /\ \/ CertIssuer(leaf) = IntelRoot
         \/ \E c \in QuoteCells : /\ Len(c) >= 6 /\ Num(c) = Pem
                                  /\ CertIssuer(leaf) = CertKey(c)
                                  /\ CertIssuer(c) = IntelRoot
  BY <1>1, ChainParts
<1>3. \A o \in TdHosts : /\ td.platform.pck \notin {o.platform.ca, o.platform.root}
                         /\ o.platform.pck \notin {td.platform.ca, td.platform.root}
                         /\ td.platform.pck = o.platform.pck => td.platform = o.platform
                         /\ td.platform.ca = o.platform.ca => td.platform.root = o.platform.root
                         /\ td.platform.ca \notin {o.platform.root, IntelRoot}
  BY PlatformAssumption DEF PlatformAssumption
<1>4. CertIssuer(leaf) = td.platform.ca /\ CertPeriod(leaf) = td.platform.certs.leaf
  <2>1. PICK o \in TdHosts :
           \/ /\ CertKey(leaf) = o.platform.pck /\ CertIssuer(leaf) = o.platform.ca
              /\ CertPeriod(leaf) = o.platform.certs.leaf
           \/ CertKey(leaf) = o.platform.ca
           \/ CertKey(leaf) = o.platform.root
    BY <1>2, CertificateOf
  <2>2. CertKey(leaf) = td.platform.pck
    BY <1>1
  <2> QED  BY <1>3, <2>1, <2>2
<1>5. PICK c \in QuoteCells : /\ Len(c) >= 6 /\ Num(c) = Pem
                              /\ CertKey(c) = td.platform.ca /\ CertIssuer(c) = IntelRoot
  BY <1>2, <1>3, <1>4
<1>6. PICK o \in TdHosts :
         \/ CertKey(c) = o.platform.pck
         \/ CertKey(c) = o.platform.ca /\ CertIssuer(c) = o.platform.root
         \/ CertKey(c) = o.platform.root
  BY <1>5, CertificateOf
<1> QED  BY <1>2, <1>3, <1>4, <1>5, <1>6, Zenon

\* The key a quote presents is the attestation key that signed it.
LEMMA KeyIs ==
  ASSUME NEW key \in QuoteCells, NEW td \in TdHosts, Num(key) = td.platform.ak
  PROVE  key = N(td.platform.ak)
<1>1. key[1] = td.platform.ak
  BY DEF Num
<1>2. ~ (key[1] \in Marks)
  BY <1>1, HostIs DEF Numbers
<1>3. key = N(key[1])
  BY <1>2, CellIs, MarksDiffer, Zenon
<1> QED  BY <1>1, <1>3

\* A quote that the verifier accepts is of a TD below the pinned root, and shows
\* what that TD measured.
LEMMA ParsedAccepted ==
  ASSUME NEW b \in Seq(QuoteCells), NEW day, VerifyInner(b, {IntelRoot}, day).ok
  PROVE  \E td \in TdHosts :
           /\ td.platform.root = IntelRoot /\ Within(td.platform.certs.leaf, day)
           /\ VerifyInner(b, {IntelRoot}, day).measurements = <<N(td.mr), N(td.data)>>
<1>1. PICK q : q = parse_td_quote(b)
  OBVIOUS
<1>2. PICK s, c, chain, r : /\ s = q.signature /\ c = s.certification /\ chain = c.chain
                            /\ r = VerifyInner(b, {IntelRoot}, day)
  OBVIOUS
<1> DEFINE good == /\ q.ok
                   /\ s.present
                   /\ Len(b) >= SignedLength(q)
                   /\ s.signature = Sign(Num(s.key), SubSeq(b, 1, SignedLength(q)))
                   /\ c.aux
                   /\ bound(s)
                   /\ c.pck
                   /\ pck_chain(chain, {IntelRoot}, day)
                   /\ c.qesig = Sign(CertKey(chain[LeafAt(chain)]), c.qe)
                   /\ q.type \in DOMAIN BodySize
<1>3. r = IF good THEN [ok |-> TRUE, measurements |-> SubSeq(q.body, 1, 2)] ELSE Refuse
  BY <1>1, <1>2 DEF VerifyInner, VerifyParsed, SignedLength, TD_QUOTE_BODY_V1_0_SIZE
<1>4. good /\ r.measurements = SubSeq(q.body, 1, 2)
  <2> HIDE DEF good
  <2>1. \A x : [ok |-> TRUE, measurements |-> x].measurements = x
    OBVIOUS
  <2>2. ~ Refuse.ok
    BY DEF Refuse
  <2>3. r.ok
    BY <1>2
  <2>4. good
    BY <1>3, <2>2, <2>3
  <2>5. r = [ok |-> TRUE, measurements |-> SubSeq(q.body, 1, 2)]
    BY <1>3, <2>4
  <2> QED  BY <2>1, <2>4, <2>5
<1>5. PICK u \in Seq(QuoteCells) : u = unwrap_qgs_get_quote_response(b)
  BY UnwrapIs
<1>6. PICK data \in Seq(QuoteCells) : s = parse_quote_signature(data)
  <2>1. q = UnwrappedQuote(u, TRUE)
    BY <1>1, <1>5 DEF parse_td_quote, parse_td_quote_with_options
  <2>2. UnwrappedQuote(u, TRUE).ok
    BY <1>4, <2>1
  <2>3. \E data \in Seq(QuoteCells) : UnwrappedQuote(u, TRUE).signature = parse_quote_signature(data)
    BY <2>2, QuoteRead
  <2> QED  BY <1>2, <2>1, <2>3
<1>7. s.signature \in QuoteCells /\ s.key \in QuoteCells /\ CertifiedBy(c)
  <2>1. parse_quote_signature(data).present
    BY <1>4, <1>6
  <2>2. /\ parse_quote_signature(data).signature \in QuoteCells
        /\ parse_quote_signature(data).key \in QuoteCells
        /\ CertifiedBy(parse_quote_signature(data).certification)
    BY <2>1, SignaturePresent
  <2> QED  BY <1>2, <1>6, <2>2
<1>8. /\ c.qe \in Seq(QuoteCells) /\ Len(c.qe) = 2
      /\ c.qesig \in QuoteCells /\ c.auth \in Seq(QuoteCells)
      /\ chain \in Seq(QuoteCells)
  BY <1>2, <1>4, <1>7 DEF CertifiedBy
<1>9. PICK l \in Nat : l = SignedLength(q) /\ l >= 5 /\ l <= Len(b)
  BY <1>1, <1>4, LengthIs
<1>10. PICK m \in Seq(QuoteCells) : m = SubSeq(b, 1, l) /\ Len(m) = l
  <2>1. l \in 0 .. Len(b)
    BY <1>9
  <2> QED  BY <2>1, Firsts, ZenonT(60)
<1>11. PICK td \in TdHosts, f \in WrittenForms : Num(s.key) = td.platform.ak /\ m = Body(td, f)
  <2>1. Num(s.key) \in Nat
    BY <1>7, CellIs DEF Num
  <2>2. Sign(Num(s.key), m) \in QuoteCells
    BY <1>4, <1>7, <1>9, <1>10
  <2>3. Len(m) >= 5
    BY <1>9, <1>10
  <2> QED  BY <2>1, <2>2, <2>3, BodySigned
<1>12. r.measurements = <<N(td.mr), N(td.data)>>
  <2>1. /\ parse_td_quote(b).ok /\ parse_td_quote(b).type \in DOMAIN BodySize
        /\ SignedLength(parse_td_quote(b)) <= Len(b)
        /\ SubSeq(b, 1, SignedLength(parse_td_quote(b))) = Body(td, f)
    BY <1>1, <1>4, <1>9, <1>10, <1>11
  <2>2. SubSeq(parse_td_quote(b).body, 1, 2) = <<N(td.mr), N(td.data)>>
    BY <2>1, MeasuredRead
  <2> QED  BY <1>1, <1>4, <2>2
<1>13. PICK leaf \in QuoteCells : leaf = chain[LeafAt(chain)] /\ Len(leaf) >= 6 /\ Num(leaf) = Pem
  BY <1>4, <1>8, ChainParts
<1>14. PICK key \in Nat : key = CertKey(leaf) /\ \A o \in TdHosts : key # o.platform.ak
  <2>1. PICK o \in TdHosts : CertKey(leaf) \in {o.platform.pck, o.platform.ca, o.platform.root}
    BY <1>13, CertificateOf
  <2>2. CertKey(leaf) \in Nat
    BY <2>1, HostIs DEF Numbers
  <2>3. \A t \in TdHosts : t.platform.ak \notin {o.platform.pck, o.platform.ca, o.platform.root}
    BY PlatformAssumption DEF PlatformAssumption
  <2> QED  BY <2>1, <2>2, <2>3
<1>15. PICK a \in Numbers : a = td.platform.ak /\ s.key = N(a)
  BY <1>7, <1>11, KeyIs, HostIs
<1>16. c.qe[2] = Sha256(<<N(a)>> \o c.auth)
  BY <1>2, <1>4, <1>15 DEF bound, SGX_REPORT_BODY_SIZE
<1>17. Sign(key, c.qe) \in QuoteCells
  BY <1>4, <1>8, <1>13, <1>14
<1>18. c.auth \in Seq(Seq(Nat))
  BY <1>8, CellsAreSeqs
<1>19. PICK o \in TdHosts : key = o.platform.pck /\ a = o.platform.ak
  <2>1. \E o \in TdHosts : key = o.platform.ak \/ (key = o.platform.pck /\ a = o.platform.ak)
    <3>1. PICK qe, auth : qe = c.qe /\ auth = c.auth
      OBVIOUS
    <3>2. BindsKey(qe, a, auth) /\ Sign(key, qe) \in QuoteCells
      BY <1>8, <1>16, <1>17, <1>18, <3>1, Zenon DEF BindsKey
    <3> QED  BY <3>2, QeSigned, SMTT(30)
  <2> QED  BY <1>14, <2>1
<1>20. o.platform = td.platform
  BY <1>15, <1>19, PlatformAssumption DEF PlatformAssumption
<1>21. td.platform.root = IntelRoot /\ Within(td.platform.certs.leaf, day)
  BY <1>4, <1>8, <1>13, <1>14, <1>19, <1>20, PckRoot
<1> QED  BY <1>2, <1>12, <1>21

\* The same of a file that may have an envelope (verify_td_quote).
LEMMA TdxAccepted ==
  ASSUME NEW b \in Seq(QuoteCells), NEW day, verify_td_quote(b, {IntelRoot}, day).ok
  PROVE  \E td \in TdHosts :
           /\ td.platform.root = IntelRoot /\ Within(td.platform.certs.leaf, day)
           /\ verify_td_quote(b, {IntelRoot}, day).measurements = <<N(td.mr), N(td.data)>>
BY UnwrapIs, ParsedAccepted DEF verify_td_quote

-----------------------------------------------------------------------------
(* SEV-SNP: accepted reports.                                              *)

\* The keys of the three tiers are told apart, and name their root.
LEMMA TiersDiffer ==
  ASSUME NEW h, NEW o
  PROVE  /\ Vcek(h) # Ask(o) /\ Vcek(h) # Ark(o.root) /\ Ask(h) # Ark(o.root)
         /\ Vcek(h) = Vcek(o) => h.root = o.root
         /\ Ask(h) = Ask(o) => h.root = o.root
         /\ Ark(h.root) = Ark(o.root) => h.root = o.root
         /\ Ask(h) # Ark(AmdRoot) /\ (Ark(h.root) = Ark(AmdRoot) => h.root = AmdRoot)
<1>1. \A a, b, c, d, x, y, z : /\ <<a, b, c, d>> # <<x, y>> /\ <<a, b, c, d>> # <<z>>
                               /\ <<x, y>> # <<z>>
  OBVIOUS
<1>2. \A a, b, c, d, s, t, u, v : <<a, b, c, d>> = <<s, t, u, v>> => a = s
  OBVIOUS
<1>3. \A a, b, s, t : (<<a, b>> = <<s, t>> => a = s) /\ (<<a>> = <<s>> => a = s)
  OBVIOUS
<1> QED  BY <1>1, <1>2, <1>3, Zenon DEF Vcek, Ask, Ark

\* Who is certified by a certificate of a chain, by whom, and for a VCEK when.
LEMMA CertifiedKeys ==
  ASSUME NEW c \in Certificates
  PROVE  \E h \in SnpHosts :
           \/ c.key = Vcek(h) /\ c.signer = Ask(h) /\ c.period = h.certs.leaf
           \/ c.key = Ask(h) /\ c.signer = Ark(h.root)
           \/ c.key = Ark(h.root) /\ c.signer = Ark(h.root)
<1>1. PICK h \in SnpHosts, f \in SnpForms, i \in 1 .. 3, w \in BOOLEAN :
         c = Spoilt(VcekChain(h, f)[i], w)
  BY DEF Certificates
<1>2. PICK d : d = VcekChain(h, f)[i] /\ c = Spoilt(d, w)
  BY <1>1
<1>3. c.key = d.key /\ c.signer = d.signer /\ c.period = d.period
  BY <1>2 DEF Spoilt
<1>4. i = 1 \/ i = 2 \/ i = 3
  OBVIOUS
<1>5. \/ d.key = Vcek(h) /\ d.signer = Ask(h) /\ d.period = h.certs.leaf
      \/ d.key = Ask(h) /\ d.signer = Ark(h.root)
      \/ d.key = Ark(h.root) /\ d.signer = Ark(h.root)
  BY <1>2, <1>4, ChainIs
<1> QED  BY <1>3, <1>5

\* A VCEK whose chain reaches the pinned root is of a host below that root, and
\* in its period.
LEMMA VcekRoot ==
  ASSUME NEW chain \in Seq(Certificates), NEW day, chain # <<>>,
         R!verify_cert_chain(chain[1], {c \in R!ToSet(Tail(chain)) : ~ R!self_signed(c)},
                             {Ark(AmdRoot)}, day),
         NEW h \in SnpHosts, chain[1].key = Vcek(h)
  PROVE  h.root = AmdRoot /\ Within(h.certs.leaf, day)
<1>1. chain[1] \in Certificates /\ Tail(chain) \in Seq(Certificates)
  OBVIOUS
<1>2. \A c \in R!ToSet(Tail(chain)) : c \in Certificates
  BY <1>1 DEF R!ToSet
<1>3. /\ R!Within(chain[1].period, day)
      /\ \/ chain[1].signer = Ark(AmdRoot)
         \/ \E c \in Certificates : chain[1].signer = c.key /\ c.signer = Ark(AmdRoot)
  BY <1>2, Zenon DEF R!verify_cert_chain
<1>4. PICK o \in SnpHosts : /\ chain[1].key = Vcek(o) /\ chain[1].signer = Ask(o)
                            /\ chain[1].period = o.certs.leaf
  BY <1>1, CertifiedKeys, TiersDiffer
<1>5. PICK c \in Certificates : Ask(o) = c.key /\ c.signer = Ark(AmdRoot)
  BY <1>3, <1>4, TiersDiffer
<1>6. PICK t \in SnpHosts : c.key = Ask(t) /\ c.signer = Ark(t.root)
  BY <1>5, CertifiedKeys, TiersDiffer
<1>7. h.certs = o.certs
  <2>1. Vcek(h) = Vcek(o)
    BY <1>4, Zenon
  <2>2. \A x, y \in SnpHosts : Vcek(x) = Vcek(y) => x.certs = y.certs
    BY SnpAssumption, Zenon DEF SnpAssumption
  <2> QED  BY <2>1, <2>2, Zenon
<1>8. Within(h.certs.leaf, day)
  BY <1>3, <1>4, <1>7, Zenon DEF R!Within, Within
<1> QED  BY <1>4, <1>5, <1>6, <1>8, TiersDiffer

\* A report that the verifier accepts is of a host below the pinned root whose
\* certificate is in its period, and shows what that host measured.
LEMMA SnpAccepted ==
  ASSUME NEW r, NEW chain, NEW day, IsReport(r), IsChain(chain),
         R!verify_snp_report(r, chain, {Ark(AmdRoot)}, day).ok
  PROVE  \E h \in SnpHosts :
           /\ h.root = AmdRoot /\ Within(h.certs.leaf, day)
           /\ R!verify_snp_report(r, chain, {Ark(AmdRoot)}, day).measurements =
                <<60 + h.chip, 70 + h.chip, Tcb(h), ChipId(h)>>
<1>1. PICK v : v = R!verify_snp_report(r, chain, {Ark(AmdRoot)}, day)
  OBVIOUS
<1>0. PICK certs : certs = R!parse_pem_chain(chain)
  OBVIOUS
<1>12. certs \in Seq(Certificates)
  <2>1. certs = chain \/ certs = <<>>
    BY <1>0, Zenon DEF R!parse_pem_chain
  <2>2. chain \in Seq(Certificates) /\ <<>> \in Seq(Certificates)
    BY DEF IsChain
  <2> QED  BY <2>1, <2>2
<1> DEFINE shown == <<r.measurement, r.report_data, r.reported_tcb, r.chip_id>>
           good == /\ r.size = R!SNP_REPORT_SIZE
                   /\ R!validate_report_format(r)
                   /\ certs # <<>>
                   /\ R!verify_cert_chain(certs[1], {c \in R!ToSet(Tail(certs)) : ~ R!self_signed(c)},
                                          {Ark(AmdRoot)}, day)
                   /\ R!report_signature(certs[1], r)
                   /\ R!validate(certs[1], r)
<1>2. v = IF good THEN [ok |-> TRUE, measurements |-> shown] ELSE R!Refuse
  <2>1. R!VerifyReport(r, certs, {Ark(AmdRoot)}, day) =
          IF good THEN [ok |-> TRUE, measurements |-> shown] ELSE R!Refuse
    BY Zenon DEF R!VerifyReport
  <2>2. v = R!VerifyReport(r, certs, {Ark(AmdRoot)}, day)
    BY <1>0, <1>1, Zenon DEF R!verify_snp_report
  <2> QED  BY <2>1, <2>2, Zenon
<1>3. good /\ v.measurements = shown
  <2> HIDE DEF good, shown
  <2>1. v.ok /\ ~ R!Refuse.ok
    BY <1>1 DEF R!Refuse
  <2>2. good
    BY <1>2, <2>1
  <2>3. v = [ok |-> TRUE, measurements |-> shown]
    BY <1>2, <2>2
  <2> QED  BY <2>2, <2>3
<1>4. PICK h \in SnpHosts, f \in SnpForms : r.signature = Report(h, f).signature
  BY DEF IsReport, ReportSignatures
<1>5. r.signature = [key |-> certs[1].key, of |-> R!Signed(r)]
  BY <1>3 DEF R!report_signature, R!SnpSign
<1>6. r.signature.key = certs[1].key /\ r.signature.of = R!Signed(r)
  BY <1>5
<1>7. certs[1].key = Vcek(h)
  BY <1>4, <1>6, ReportIs
<1>8. h.root = AmdRoot /\ Within(h.certs.leaf, day)
  BY <1>3, <1>7, <1>12, VcekRoot
<1>9. /\ R!Signed(r).measurement = r.measurement /\ R!Signed(r).report_data = r.report_data
      /\ R!Signed(r).reported_tcb = r.reported_tcb /\ R!Signed(r).chip_id = r.chip_id
  BY DEF R!Signed, IsReport, ReportFields
<1>10. /\ r.measurement = 60 + h.chip /\ r.report_data = 70 + h.chip
       /\ r.reported_tcb = Tcb(h) /\ r.chip_id = ChipId(h)
  BY <1>4, <1>6, <1>9, ReportIs
<1>11. shown = <<60 + h.chip, 70 + h.chip, Tcb(h), ChipId(h)>>
  BY <1>10
<1> QED  BY <1>1, <1>3, <1>8, <1>11

-----------------------------------------------------------------------------
(* The invariant and its steps.                                            *)

\* What a file of each name can hold.
IsContents(name, c) ==
    /\ name = "quote" => c \in Seq(QuoteCells)
    /\ name = "report" => IsReport(c)
    /\ name = "chain" => IsChain(c)

\* The first half of the invariant: the files of a collection hold pieces of
\* what hosts write, in whatever order damage has put them.
Assembled ==
    /\ kind \in {"tdx", "snp", "cose"}
    /\ host \in Hosts[kind]
    /\ form \in Forms[kind]
    /\ DOMAIN files = Names[kind]
    /\ \A name \in Names[kind] :
          files[name] = <<>> \/ \E c : files[name] = <<c>> /\ IsContents(name, c)

\* The inductive invariant.
GenuineInv == Assembled /\ AcceptedIsGenuine

\* The kinds of evidence and their files.
LEMMA KindsAre ==
  /\ Names["tdx"] = {"quote"} /\ Names["snp"] = {"report", "chain"} /\ Names["cose"] = {"message"}
  /\ Hosts["tdx"] = TdHosts /\ Hosts["snp"] = SnpHosts
  /\ Forms["tdx"] = WrittenForms /\ Forms["snp"] = SnpForms
  /\ DOMAIN Forms = {"tdx", "snp", "cose"}
BY DEF Names, Hosts, Forms

\* A name tells which kind of evidence is collected.
LEMMA NamesAre ==
  ASSUME Assembled, NEW name \in Names[kind]
  PROVE  /\ name = "quote" => kind = "tdx"
         /\ name = "report" \/ name = "chain" => kind = "snp"
<1>1. (kind = "tdx" => name = "quote") /\ (kind = "snp" => name = "report" \/ name = "chain")
      /\ (kind = "cose" => name = "message")
  BY KindsAre
<1> QED  BY <1>1 DEF Assembled

\* What a host writes into a file of a name.
LEMMA ContentsAre ==
  ASSUME Assembled, NEW name \in Names[kind], NEW h \in Hosts[kind]
  PROVE  /\ IsContents(name, Contents(name, h))
         /\ name = "chain" => Len(Contents(name, h)) = 3
<1>1. CASE name = "quote"
  <2>1. h \in TdHosts /\ form \in WrittenForms
    BY <1>1, NamesAre, KindsAre DEF Assembled
  <2>2. Contents(name, h) = Quote(h, form)
    BY <1>1 DEF Contents
  <2>3. Quote(h, form) \in Seq(QuoteCells)
    BY <2>1, QuoteIs
  <2> QED  BY <1>1, <2>2, <2>3 DEF IsContents
<1>2. CASE name = "report"
  <2>1. h \in SnpHosts /\ form \in SnpForms
    BY <1>2, NamesAre, KindsAre DEF Assembled
  <2>2. Contents(name, h) = Report(h, form)
    BY <1>2 DEF Contents
  <2>3. IsReport(Report(h, form))
    <3>1. PICK g \in SnpForms : g = form
      BY <2>1
    <3>2. Report(h, g).signature \in ReportSignatures
      BY <2>1 DEF ReportSignatures
    <3>3. DOMAIN Report(h, g) = ReportFields
      BY ReportIs
    <3> QED  BY <3>1, <3>2, <3>3 DEF IsReport
  <2> QED  BY <1>2, <2>2, <2>3 DEF IsContents
<1>3. CASE name = "chain"
  <2>1. h \in SnpHosts /\ form \in SnpForms
    BY <1>3, NamesAre, KindsAre DEF Assembled
  <2>2. Contents(name, h) = VcekChain(h, form)
    BY <1>3 DEF Contents
  <2>3. IsChain(VcekChain(h, form)) /\ Len(VcekChain(h, form)) = 3
    <3>1. PICK g \in SnpForms, k \in SnpHosts : g = form /\ k = h
      BY <2>1
    <3>2. VcekChain(k, g) \in Seq(Certificates) /\ Len(VcekChain(k, g)) = 3
      BY ChainIs
    <3>3. PICK c : c = VcekChain(k, g)
      OBVIOUS
    <3>4. IsChain(c) /\ Len(c) = 3
      <4>1. \A n \in {3} : n <= 3
        OBVIOUS
      <4> QED  BY <3>2, <3>3, <4>1, Zenon DEF IsChain
    <3> QED  BY <3>1, <3>3, <3>4
  <2> QED  BY <1>3, <2>2, <2>3 DEF IsContents
<1>4. CASE name \notin {"quote", "report", "chain"}
  BY <1>4 DEF IsContents
<1> QED  BY <1>1, <1>2, <1>3, <1>4

\* However a file is damaged, it still holds pieces of what hosts write.
LEMMA DamagedContents ==
  ASSUME Assembled, NEW name \in Names[kind], NEW old, IsContents(name, old),
         NEW h \in Hosts[kind], NEW d \in Damaged(name, old, Contents(name, h))
  PROVE  IsContents(name, d)
<1>1. PICK new : new = Contents(name, h)
  OBVIOUS
<1>2. IsContents(name, new) /\ (name = "chain" => Len(new) = 3) /\ d \in Damaged(name, old, new)
  BY <1>1, ContentsAre
<1>3. CASE name = "quote"
  <2>1. old \in Seq(QuoteCells) /\ new \in Seq(QuoteCells) /\ d \in Damaged("quote", old, new)
    BY <1>2, <1>3 DEF IsContents
  <2>2. d \in Seq(QuoteCells)
    BY <2>1, DamagedQuote
  <2> QED  BY <1>3, <2>2 DEF IsContents
<1>4. CASE name = "report"
  <2>1. IsReport(old) /\ IsReport(new) /\ d \in Damaged("report", old, new)
    BY <1>2, <1>4 DEF IsContents
  <2>2. IsReport(d)
    BY <2>1, DamagedReport
  <2> QED  BY <1>4, <2>2 DEF IsContents
<1>5. CASE name = "chain"
  <2>1. IsChain(old) /\ IsChain(new) /\ Len(new) = 3 /\ d \in Damaged("chain", old, new)
    BY <1>2, <1>5 DEF IsContents
  <2>2. IsChain(d)
    BY <2>1, DamagedChain
  <2> QED  BY <1>5, <2>2 DEF IsContents
<1>6. CASE name \notin {"quote", "report", "chain"}
  BY <1>6 DEF IsContents
<1> QED  BY <1>3, <1>4, <1>5, <1>6

\* What the tool ends with when it succeeds on evidence is of a trusted host.
LEMMA ExitIs ==
  ASSUME NEW result, Exit(result).exit = 0
  PROVE  result.ok /\ Exit(result).shown = result.measurements
<1>1. ~ result.ok => Exit(result).exit = 2
  BY DEF Exit, Refused
<1>2. result.ok
  BY <1>1
<1> QED  BY <1>2 DEF Exit

\* The tool, on evidence of a TD.
LEMMA VerifyTdxShows ==
  ASSUME Assembled, kind = "tdx", VerifyTdx.exit = 0
  PROVE  \E h \in Hosts[kind] : /\ Trusted(h) /\ VerifyTdx.shown = Measured(h)
                                /\ Within(CertsOf(h).leaf, today)
<1>1. files["quote"] # <<>>
  <2>1. files["quote"] = <<>> => VerifyTdx.exit = 1
    BY DEF VerifyTdx, Failure
  <2> QED  BY <2>1
<1>2. PICK c : files["quote"] = <<c>> /\ c \in Seq(QuoteCells)
  BY <1>1, KindsAre DEF Assembled, IsContents
<1>3. VerifyTdx = Exit(verify_td_quote(c, {IntelRoot}, today))
  BY <1>1, <1>2 DEF VerifyTdx
<1>4. /\ verify_td_quote(c, {IntelRoot}, today).ok
      /\ VerifyTdx.shown = verify_td_quote(c, {IntelRoot}, today).measurements
  BY <1>3, ExitIs
<1>5. PICK h \in TdHosts : /\ h.platform.root = IntelRoot
                           /\ Within(h.platform.certs.leaf, today)
                           /\ VerifyTdx.shown = <<N(h.mr), N(h.data)>>
  BY <1>2, <1>4, TdxAccepted
<1> QED  BY <1>5, KindsAre DEF Trusted, Measured, CertsOf

\* The tool, on evidence of an SEV-SNP host.
LEMMA VerifySnpShows ==
  ASSUME Assembled, kind = "snp", VerifySnp.exit = 0
  PROVE  \E h \in Hosts[kind] : /\ Trusted(h) /\ VerifySnp.shown = Measured(h)
                                /\ Within(CertsOf(h).leaf, today)
<1>1. files["report"] # <<>> /\ files["chain"] # <<>>
  <2>1. files["report"] = <<>> \/ files["chain"] = <<>> => VerifySnp.exit = 2
    BY DEF VerifySnp, Refused
  <2> QED  BY <2>1
<1>2. PICK r : files["report"] = <<r>> /\ IsReport(r)
  BY <1>1, KindsAre DEF Assembled, IsContents
<1>3. PICK c : files["chain"] = <<c>> /\ IsChain(c)
  BY <1>1, KindsAre DEF Assembled, IsContents
<1>4. VerifySnp = Exit(R!verify_snp_report(r, c, {Ark(AmdRoot)}, today))
  BY <1>1, <1>2, <1>3 DEF VerifySnp
<1>5. /\ R!verify_snp_report(r, c, {Ark(AmdRoot)}, today).ok
      /\ VerifySnp.shown = R!verify_snp_report(r, c, {Ark(AmdRoot)}, today).measurements
  BY <1>4, ExitIs
<1>6. PICK h \in SnpHosts : /\ h.root = AmdRoot /\ Within(h.certs.leaf, today)
                            /\ VerifySnp.shown = <<60 + h.chip, 70 + h.chip, Tcb(h), ChipId(h)>>
  BY <1>2, <1>3, <1>5, SnpAccepted
<1> QED  BY <1>6, KindsAre DEF Trusted, Measured, CertsOf

\* The invariant holds before anything is collected.
LEMMA EvidenceStarts == EvidenceInit => GenuineInv
<1> SUFFICES ASSUME EvidenceInit PROVE GenuineInv
  OBVIOUS
<1>1. Assembled
  BY KindsAre DEF EvidenceInit, Assembled
<1>2. verdict.exit = -1 /\ -1 # 0
  BY DEF EvidenceInit, Running
<1> QED  BY <1>1, <1>2 DEF GenuineInv, AcceptedIsGenuine

\* Every step keeps the invariant, damage and verification included.
LEMMA EvidenceStays == GenuineInv /\ [EvidenceNext]_evidenceVars => GenuineInv'
<1> SUFFICES ASSUME GenuineInv, [EvidenceNext]_evidenceVars PROVE GenuineInv'
  OBVIOUS
<1>0. Assembled /\ AcceptedIsGenuine
  BY DEF GenuineInv
<1>1. ASSUME NEW name \in DOMAIN files, Collect(name)
      PROVE  GenuineInv'
  <2>1. name \in Names[kind] /\ host \in Hosts[kind]
    BY <1>0 DEF Assembled
  <2>2. IsContents(name, Contents(name, host))
    BY <1>0, <2>1, ContentsAre
  <2>3. PICK c : c = Contents(name, host)
    OBVIOUS
  <2>4. files' = [files EXCEPT ![name] = <<c>>]
    BY <1>1, <2>3 DEF Collect
  <2>5. Assembled'
    BY <1>0, <1>1, <2>1, <2>2, <2>3, <2>4 DEF Assembled, Collect, IsContents
  <2>6. AcceptedIsGenuine'
    BY <1>1 DEF AcceptedIsGenuine, Collect, Running
  <2> QED  BY <2>5, <2>6 DEF GenuineInv
<1>2. ASSUME NEW name \in DOMAIN files, Rot(name)
      PROVE  GenuineInv'
  <2>1. name \in Names[kind] /\ files[name] # <<>>
    BY <1>0, <1>2 DEF Assembled, Rot
  <2>2. PICK old : files[name] = <<old>> /\ IsContents(name, old)
    BY <1>0, <2>1 DEF Assembled
  <2>3. files[name][1] = old
    BY <2>2
  <2>4. PICK other \in Hosts[kind] : \E d \in Damaged(name, old, Contents(name, other)) :
           files' = [files EXCEPT ![name] = <<d>>]
    BY <1>2, <2>3 DEF Rot
  <2>5. PICK d \in Damaged(name, old, Contents(name, other)) :
           files' = [files EXCEPT ![name] = <<d>>]
    BY <2>4
  <2>6. IsContents(name, d)
    BY <1>0, <2>1, <2>2, DamagedContents
  <2>7. Assembled'
    BY <1>0, <1>2, <2>1, <2>5, <2>6 DEF Assembled, Rot, IsContents
  <2>8. AcceptedIsGenuine'
    BY <1>2 DEF AcceptedIsGenuine, Rot, Running
  <2> QED  BY <2>7, <2>8 DEF GenuineInv
<1>3. ASSUME Change \/ Tomorrow PROVE GenuineInv'
  <2>1. Assembled'
    BY <1>0, <1>3 DEF Change, Tomorrow, Assembled, IsContents
  <2>2. AcceptedIsGenuine'
    BY <1>3 DEF AcceptedIsGenuine, Change, Tomorrow, Running
  <2> QED  BY <2>1, <2>2 DEF GenuineInv
<1>4. ASSUME Verify PROVE GenuineInv'
  <2>1. Assembled'
    BY <1>0, <1>4 DEF Assembled, Verify, IsContents
  <2>2. /\ kind = "tdx" => verdict' = VerifyTdx
        /\ kind = "snp" => verdict' = VerifySnp
    BY <1>4 DEF Verify
  <2>3. kind' = kind /\ today' = today
    BY <1>4 DEF Verify
  <2>4. ASSUME kind # "cose", verdict'.exit = 0
        PROVE  \E h \in Hosts[kind] : /\ Trusted(h) /\ verdict'.shown = Measured(h)
                                      /\ Within(CertsOf(h).leaf, today)
    <3>1. kind = "tdx" \/ kind = "snp"
      BY <1>0, <2>4 DEF Assembled
    <3>2. CASE kind = "tdx"
      BY <1>0, <2>2, <2>4, <3>2, VerifyTdxShows
    <3>3. CASE kind = "snp"
      BY <1>0, <2>2, <2>4, <3>3, VerifySnpShows
    <3> QED  BY <3>1, <3>2, <3>3
  <2>5. AcceptedIsGenuine'
    BY <2>3, <2>4 DEF AcceptedIsGenuine, Trusted, Measured, CertsOf
  <2> QED  BY <2>1, <2>5 DEF GenuineInv
<1>5. ASSUME UNCHANGED evidenceVars PROVE GenuineInv'
  BY <1>0, <1>5 DEF GenuineInv, evidenceVars, Assembled, IsContents, AcceptedIsGenuine, Trusted, Measured,
     CertsOf
<1> QED  BY <1>1, <1>2, <1>3, <1>4, <1>5 DEF EvidenceNext, Judged

\* What the tool shows when it succeeds is what one attested host measured, below
\* a pinned root and with its certificate in its period, for every set of hosts,
\* every mixture of collections and any number of damages: verify_td_quote and
\* verify_snp_report accept nothing else.
THEOREM AcceptedIsOwn == EvidenceSpec => []AcceptedIsGenuine
<1>1. GenuineInv => AcceptedIsGenuine
  BY DEF GenuineInv
<1> QED  BY <1>1, EvidenceStarts, EvidenceStays, PTL DEF EvidenceSpec

-----------------------------------------------------------------------------
(* Reading back what was written: TD quotes.                               *)

\* A stretch of a sequence, of a known length.
Stretch(t, S, s, a, e, n) ==
  /\ s \in Seq(S) /\ a \in Nat /\ e \in Nat /\ 1 <= a /\ e <= Len(s) /\ a <= e + 1
  /\ n = e + 1 - a /\ t = SubSeq(s, a, e)
Copied(t, S, s, a, n) ==
  t \in Seq(S) /\ Len(t) = n /\ \A i \in 1 .. n : t[i] = s[a + i - 1]
LEMMA StretchIsCopied ==
  ASSUME NEW S, NEW s, NEW a, NEW e, NEW n, NEW t, Stretch(t, S, s, a, e, n)
  PROVE  Copied(t, S, s, a, n)
<1>1. /\ s \in Seq(S) /\ a \in Nat /\ e \in Nat /\ 1 <= a /\ e <= Len(s) /\ a <= e + 1
      /\ n = e + 1 - a /\ t = SubSeq(s, a, e)
  BY Zenon DEF Stretch
<1>2. /\ SubSeq(s, a, e) \in Seq(S) /\ Len(SubSeq(s, a, e)) = e + 1 - a
      /\ \A i \in 1 .. (e + 1 - a) : SubSeq(s, a, e)[i] = s[a + i - 1]
  BY <1>1, SliceIs, SMTT(30)
<1> QED  BY <1>1, <1>2, Zenon DEF Copied

\* A sequence between two others, and where it is.
LEMMA Between ==
  ASSUME NEW S, NEW x \in Seq(S), NEW y \in Seq(S), NEW z \in Seq(S),
         NEW c, c = (x \o y) \o z
  PROVE  /\ c \in Seq(S) /\ Len(c) = Len(x) + Len(y) + Len(z)
         /\ \A i \in 1 .. Len(x) : c[i] = x[i]
         /\ \A i \in 1 .. Len(y) : c[Len(x) + i] = y[i]
         /\ SubSeq(c, Len(x) + 1, Len(x) + Len(y)) = y
         /\ SubSeq(c, Len(x) + Len(y) + 1, Len(c)) = z
<1>1. PICK h \in Nat, k \in Nat, l \in Nat : h = Len(x) /\ k = Len(y) /\ l = Len(z)
  OBVIOUS
<1>2. PICK left \in Seq(S) :
         /\ left = x \o y /\ Len(left) = h + k
         /\ \A i \in 1 .. h + k : left[i] = IF i <= h THEN x[i] ELSE y[i - h]
  <2>1. /\ x \o y \in Seq(S) /\ Len(x \o y) = Len(x) + Len(y)
        /\ \A i \in 1 .. Len(x) + Len(y) :
              (x \o y)[i] = IF i <= Len(x) THEN x[i] ELSE y[i - Len(x)]
    BY ConcatProperties
  <2> QED  BY <1>1, <2>1, Zenon
<1>3. /\ c \in Seq(S) /\ Len(c) = h + k + l
      /\ \A i \in 1 .. h + k + l : c[i] = IF i <= h + k THEN left[i] ELSE z[i - (h + k)]
  <2>1. /\ left \o z \in Seq(S) /\ Len(left \o z) = Len(left) + Len(z)
        /\ \A i \in 1 .. Len(left) + Len(z) :
              (left \o z)[i] = IF i <= Len(left) THEN left[i] ELSE z[i - Len(left)]
    BY ConcatProperties
  <2> QED  BY <1>1, <1>2, <2>1
<1>4. ASSUME NEW i \in 1 .. h PROVE c[i] = x[i]
  <2>1. i \in 1 .. h + k /\ i \in 1 .. h + k + l /\ i <= h + k /\ i <= h
    OBVIOUS
  <2> QED  BY <1>2, <1>3, <2>1
<1>5. ASSUME NEW i \in 1 .. k PROVE c[h + i] = y[i]
  <2>1. h + i \in 1 .. h + k /\ h + i \in 1 .. h + k + l /\ h + i <= h + k /\ ~ (h + i <= h)
        /\ (h + i) - h = i
    OBVIOUS
  <2> QED  BY <1>2, <1>3, <2>1
<1>6. ASSUME NEW i \in 1 .. l PROVE c[h + k + i] = z[i]
  <2>1. h + k + i \in 1 .. h + k + l /\ ~ (h + k + i <= h + k) /\ (h + k + i) - (h + k) = i
    OBVIOUS
  <2> QED  BY <1>3, <2>1
<1>7. SubSeq(c, h + 1, h + k) = y
  <2>1. h + 1 \in Nat /\ h + k \in Nat /\ 1 <= h + 1 /\ h + k <= Len(c) /\ h + 1 <= (h + k) + 1
        /\ (h + k) + 1 - (h + 1) = k /\ \A i \in 1 .. k : (h + 1) + i - 1 = h + i
    BY <1>3
  <2>2. PICK t : t = SubSeq(c, h + 1, h + k)
    OBVIOUS
  <2>3. t \in Seq(S) /\ Len(t) = k /\ \A i \in 1 .. k : t[i] = c[(h + 1) + i - 1]
    <3>1. PICK from \in Nat, to \in Nat : from = h + 1 /\ to = h + k
      BY <2>1
    <3>2. c \in Seq(S) /\ 1 <= from /\ to <= Len(c) /\ from <= to + 1 /\ k = to + 1 - from
      BY <1>3, <2>1, <3>1
    <3>3. t = SubSeq(c, from, to)
      BY <2>2, <3>1
    <3>4. Stretch(t, S, c, from, to, k)
      BY <3>2, <3>3, Zenon DEF Stretch
    <3>5. Copied(t, S, c, from, k)
      BY <3>4, StretchIsCopied, Zenon
    <3>6. t \in Seq(S) /\ Len(t) = k /\ \A i \in 1 .. k : t[i] = c[from + i - 1]
      BY <3>5, Zenon DEF Copied
    <3> QED  BY <3>1, <3>6
  <2>4. \A i \in 1 .. Len(t) : t[i] = y[i]
    BY <1>5, <2>1, <2>3
  <2> QED  BY <1>1, <2>2, <2>3, <2>4, SequencesEqual
<1>8. SubSeq(c, h + k + 1, Len(c)) = z
  <2>1. /\ h + k + 1 \in Nat /\ h + k + l \in Nat /\ 1 <= h + k + 1 /\ h + k + l <= Len(c)
        /\ h + k + 1 <= (h + k + l) + 1 /\ (h + k + l) + 1 - (h + k + 1) = l
        /\ \A i \in 1 .. l : (h + k + 1) + i - 1 = h + k + i
    BY <1>3
  <2>2. PICK t : t = SubSeq(c, h + k + 1, h + k + l)
    OBVIOUS
  <2>3. t \in Seq(S) /\ Len(t) = l /\ \A i \in 1 .. l : t[i] = c[(h + k + 1) + i - 1]
    <3>1. PICK from \in Nat, to \in Nat : from = h + k + 1 /\ to = h + k + l
      BY <2>1
    <3>2. c \in Seq(S) /\ 1 <= from /\ to <= Len(c) /\ from <= to + 1 /\ l = to + 1 - from
      BY <1>3, <2>1, <3>1
    <3>3. t = SubSeq(c, from, to)
      BY <2>2, <3>1
    <3>4. Stretch(t, S, c, from, to, l)
      BY <3>2, <3>3, Zenon DEF Stretch
    <3>5. Copied(t, S, c, from, l)
      BY <3>4, StretchIsCopied, Zenon
    <3>6. t \in Seq(S) /\ Len(t) = l /\ \A i \in 1 .. l : t[i] = c[from + i - 1]
      BY <3>5, Zenon DEF Copied
    <3> QED  BY <3>1, <3>6
  <2>4. \A i \in 1 .. Len(t) : t[i] = z[i]
    BY <1>6, <2>1, <2>3
  <2> QED  BY <1>1, <1>3, <2>2, <2>3, <2>4, SequencesEqual, ZenonT(60)
<1> QED  BY <1>1, <1>3, <1>4, <1>5, <1>7, <1>8

\* Nothing behind a sequence.
LEMMA NoneBehind ==
  ASSUME NEW S, NEW s \in Seq(S)
  PROVE  s \o <<>> = s /\ <<>> \o s = s /\ <<>> \in Seq(S)
BY ConcatEmptySeq

\* Where a field with a size before it stands between two others.
SizedIn(c, head, cells, rest) ==
  /\ c \in Seq(QuoteCells) /\ Len(c) = Len(head) + 1 + Len(cells) + Len(rest)
  /\ \A i \in 1 .. Len(head) : c[i] = head[i]
  /\ c[Len(head) + 1] = N(Len(cells)) /\ Num(c[Len(head) + 1]) = Len(cells)
  /\ SubSeq(c, Len(head) + 2, Len(head) + 1 + Len(cells)) = cells
  /\ SubSeq(c, Len(head) + 2 + Len(cells), Len(c)) = rest
\* A field with a size before it is read back as it was written.
LEMMA SizedRead ==
  ASSUME NEW head \in Seq(QuoteCells), NEW cells \in Seq(QuoteCells), NEW rest \in Seq(QuoteCells)
  PROVE  SizedIn((head \o Sized(cells)) \o rest, head, cells, rest)
<1> DEFINE c == (head \o Sized(cells)) \o rest
<1> HIDE DEF c
<1>1. PICK n \in QuoteCells : n = N(Len(cells)) /\ Num(n) = Len(cells)
  <2>1. Len(cells) \in Nat
    OBVIOUS
  <2> QED  BY <2>1, Field
<1>2. PICK one \in Seq(QuoteCells) : one = <<n>> /\ Len(one) = 1 /\ one[1] = n
  <2>1. <<n>> \in Seq(QuoteCells) /\ Len(<<n>>) = 1 /\ <<n>>[1] = n
    OBVIOUS
  <2> QED  BY <2>1, Zenon
<1>3. PICK x \in Seq(QuoteCells) :
         /\ x = head \o one /\ Len(x) = Len(head) + 1
         /\ \A i \in 1 .. Len(head) + 1 : x[i] = IF i <= Len(head) THEN head[i] ELSE one[i - Len(head)]
  <2>1. /\ head \o one \in Seq(QuoteCells) /\ Len(head \o one) = Len(head) + Len(one)
        /\ \A i \in 1 .. Len(head) + Len(one) :
              (head \o one)[i] = IF i <= Len(head) THEN head[i] ELSE one[i - Len(head)]
    BY <1>2, ConcatProperties
  <2> QED  BY <1>2, <2>1, Zenon
<1>4. c = (x \o cells) \o rest
  <2>1. head \o (one \o cells) = (head \o one) \o cells
    BY <1>2
  <2> QED  BY <1>1, <1>2, <1>3, <2>1 DEF Sized, c
<1>5. /\ c \in Seq(QuoteCells) /\ Len(c) = Len(x) + Len(cells) + Len(rest)
      /\ \A i \in 1 .. Len(x) : c[i] = x[i]
      /\ SubSeq(c, Len(x) + 1, Len(x) + Len(cells)) = cells
      /\ SubSeq(c, Len(x) + Len(cells) + 1, Len(c)) = rest
  BY <1>4, Between
<1>6. PICK h \in Nat, k \in Nat : h = Len(head) /\ k = Len(cells)
  OBVIOUS
<1>7. /\ (h + 1) + 1 = h + 2 /\ (h + 1) + k + 1 = h + 2 + k
      /\ \A i \in 1 .. h : i \in 1 .. h + 1 /\ i <= h
      /\ h + 1 \in 1 .. h + 1 /\ ~ (h + 1 <= h) /\ (h + 1) - h = 1
  OBVIOUS
<1>8. \A i \in 1 .. h : c[i] = head[i]
  BY <1>3, <1>5, <1>6, <1>7
<1>9. c[h + 1] = n
  BY <1>2, <1>3, <1>5, <1>6, <1>7
<1>10. SizedIn(c, head, cells, rest)
  BY <1>1, <1>2, <1>3, <1>5, <1>6, <1>7, <1>8, <1>9 DEF SizedIn
<1> QED  BY <1>10 DEF c

\* The certificates of a platform, before they are laid out.
LEMMA ChainCells ==
  ASSUME NEW td \in TdHosts, NEW f \in WrittenForms
  PROVE  LET p == td.platform
             certs == Chain(p, PckDer(p, f.auth = 1, 130 * f.envelope))
         IN  /\ certs \in Seq(QuoteCells) /\ Len(certs) = 3
             /\ \A i \in 1 .. 3 : Len(certs[i]) >= 6 /\ Num(certs[i]) = Pem
             /\ CertKey(certs[1]) = p.pck /\ CertIssuer(certs[1]) = p.ca
             /\ CertPeriod(certs[1]) = p.certs.leaf
             /\ CertKey(certs[2]) = p.ca /\ CertIssuer(certs[2]) = p.root
             /\ CertPeriod(certs[2]) = p.certs.ca /\ (p.certs.authority => CertCa(certs[2]))
             /\ CertKey(certs[3]) = p.root /\ CertIssuer(certs[3]) = p.root
<1> DEFINE p == td.platform
           der == PckDer(p, f.auth = 1, 130 * f.envelope)
<1>1. der \in Seq(Nat)
  <2>1. PICK k \in 0 .. 2 : k = f.envelope
    BY FormIs
  <2>2. 130 * k \in Nat
    OBVIOUS
  <2> QED  BY <2>1, <2>2, HostIs, PckDerIs
<1>2. /\ p.pck \in Nat /\ p.ca \in Nat /\ p.root \in Nat /\ <<>> \in Seq(Nat)
      /\ p.certs.leaf \in Nat \X Nat /\ p.certs.ca \in Nat \X Nat
      /\ p.certs.authority \in BOOLEAN /\ TRUE \in BOOLEAN /\ FALSE \in BOOLEAN
  BY HostIs DEF Numbers
<1> HIDE DEF der, p
<1>3. PICK a, b, c : /\ a = Certificate(p.pck, p.ca, FALSE, p.certs.leaf, der)
                     /\ b = Certificate(p.ca, p.root, p.certs.authority, p.certs.ca, <<>>)
                     /\ c = Certificate(p.root, p.root, TRUE, p.certs.ca, <<>>)
  OBVIOUS
<1>4. /\ a \in QuoteCells /\ Len(a) >= 6 /\ Num(a) = Pem /\ CertKey(a) = p.pck /\ CertIssuer(a) = p.ca
      /\ CertPeriod(a) = p.certs.leaf
      /\ b \in QuoteCells /\ Len(b) >= 6 /\ Num(b) = Pem /\ CertKey(b) = p.ca /\ CertIssuer(b) = p.root
      /\ CertPeriod(b) = p.certs.ca /\ (p.certs.authority => CertCa(b))
      /\ c \in QuoteCells /\ Len(c) >= 6 /\ Num(c) = Pem /\ CertKey(c) = p.root /\ CertIssuer(c) = p.root
  <2>1. IsCertificate(a) /\ IsCertificate(b) /\ IsCertificate(c)
    BY <1>1, <1>2, <1>3, Zenon DEF IsCertificate, p
  <2>2. /\ a \in Seq(Nat) /\ Len(a) >= 6 /\ a[1] = Pem /\ CertKey(a) = p.pck /\ CertIssuer(a) = p.ca
        /\ CertPeriod(a) = p.certs.leaf
    <3>1. PICK k \in Nat, i \in Nat, ca \in BOOLEAN, when \in Nat \X Nat, ext \in Seq(Nat) :
             /\ k = p.pck /\ i = p.ca /\ when = p.certs.leaf /\ (ca = FALSE)
             /\ a = Certificate(k, i, ca, when, ext)
      BY <1>1, <1>2, <1>3, Zenon
    <3>2. /\ a \in Seq(Nat) /\ Len(a) >= 6 /\ a[1] = Pem /\ CertKey(a) = k /\ CertIssuer(a) = i
          /\ CertPeriod(a) = when /\ (ca => CertCa(a))
      BY <3>1, CertificateParts, SMTT(30)
    <3> QED  BY <3>1, <3>2, Zenon
  <2>3. /\ b \in Seq(Nat) /\ Len(b) >= 6 /\ b[1] = Pem /\ CertKey(b) = p.ca /\ CertIssuer(b) = p.root
        /\ CertPeriod(b) = p.certs.ca /\ (p.certs.authority => CertCa(b))
    <3>1. PICK k \in Nat, i \in Nat, ca \in BOOLEAN, when \in Nat \X Nat, ext \in Seq(Nat) :
             /\ k = p.ca /\ i = p.root /\ when = p.certs.ca /\ (ca = p.certs.authority)
             /\ b = Certificate(k, i, ca, when, ext)
      BY <1>1, <1>2, <1>3, Zenon
    <3>2. /\ b \in Seq(Nat) /\ Len(b) >= 6 /\ b[1] = Pem /\ CertKey(b) = k /\ CertIssuer(b) = i
          /\ CertPeriod(b) = when /\ (ca => CertCa(b))
      BY <3>1, CertificateParts, SMTT(30)
    <3>3. p.certs.authority => CertCa(b)
      BY <3>1, <3>2, Zenon
    <3>4. CertKey(b) = p.ca /\ CertIssuer(b) = p.root /\ CertPeriod(b) = p.certs.ca
      BY <3>1, <3>2, Zenon
    <3> QED  BY <3>2, <3>3, <3>4, Zenon
  <2>4. /\ c \in Seq(Nat) /\ Len(c) >= 6 /\ c[1] = Pem /\ CertKey(c) = p.root /\ CertIssuer(c) = p.root
    <3>1. PICK k \in Nat, i \in Nat, ca \in BOOLEAN, when \in Nat \X Nat, ext \in Seq(Nat) :
             /\ k = p.root /\ i = p.root /\ when = p.certs.ca
             /\ c = Certificate(k, i, ca, when, ext)
      BY <1>1, <1>2, <1>3, Zenon
    <3>2. /\ c \in Seq(Nat) /\ Len(c) >= 6 /\ c[1] = Pem /\ CertKey(c) = k /\ CertIssuer(c) = i
          /\ CertPeriod(c) = when
      BY <3>1, CertificateParts, SMTT(30)
    <3> QED  BY <3>1, <3>2, Zenon
  <2> QED  BY <2>1, <2>2, <2>3, <2>4, Zenon DEF QuoteCells, Num
<1>5. PICK certs : certs = <<a, b, c>>
  OBVIOUS
<1>6. certs = Chain(p, der)
  BY <1>3, <1>5, Zenon DEF Chain
<1>7. certs \in Seq(QuoteCells) /\ Len(certs) = 3 /\ certs[1] = a /\ certs[2] = b /\ certs[3] = c
  BY <1>4, <1>5
<1>8. ASSUME NEW i \in 1 .. 3 PROVE Len(certs[i]) >= 6 /\ Num(certs[i]) = Pem
  <2>1. i = 1 \/ i = 2 \/ i = 3
    OBVIOUS
  <2> QED  BY <1>4, <1>7, <2>1
<1> QED  BY <1>4, <1>6, <1>7, <1>8, Zenon DEF p, der

\* A chain of certificates is found in each layout it is written in.
LEMMA LaidOutRead ==
  ASSUME NEW certs \in Seq(QuoteCells), Len(certs) = 3, Num(certs[1]) = Pem,
         NEW layout \in {"bare", "length", "identity"}
  PROVE  parse_pck_cert_chain(LaidOut(certs, layout)) = [ok |-> TRUE, chain |-> certs]
<1>1. PICK c : c = LaidOut(certs, layout)
  OBVIOUS
<1>2. CASE layout = "bare"
  <2>1. c = certs
    BY <1>1, <1>2 DEF LaidOut
  <2>2. Num(c[1]) > Len(c) - 1
    BY <2>1 DEF Pem
  <2> QED  BY <1>1, <2>1, <2>2 DEF parse_pck_cert_chain
<1>3. ASSUME NEW rest \in Seq(QuoteCells), c = (<<>> \o Sized(certs)) \o rest,
             rest = <<>> \/ (Num(rest[1]) = 1 /\ Len(rest) = 2)
      PROVE  parse_pck_cert_chain(c) = [ok |-> TRUE, chain |-> certs]
  <2>1. PICK none \in Seq(QuoteCells) : none = <<>> /\ Len(none) = 0
    <3>1. <<>> \in Seq(QuoteCells) /\ Len(<<>>) = 0
      OBVIOUS
    <3> QED  BY <3>1, Zenon
  <2>2. /\ c \in Seq(QuoteCells) /\ Len(c) = 0 + 1 + 3 + Len(rest)
        /\ Num(c[0 + 1]) = 3
        /\ SubSeq(c, 0 + 2, 0 + 1 + 3) = certs
        /\ SubSeq(c, 0 + 2 + 3, Len(c)) = rest
    <3>1. c = (none \o Sized(certs)) \o rest
      BY <1>3, <2>1, Zenon
    <3>2. SizedIn(c, none, certs, rest)
      <4>1. SizedIn((none \o Sized(certs)) \o rest, none, certs, rest)
        BY SizedRead
      <4> QED  BY <3>1, <4>1, Zenon
    <3> QED  BY <2>1, <3>2, Zenon DEF SizedIn
  <2>3. /\ Len(c) = 4 + Len(rest) /\ Num(c[1]) = 3 /\ SubSeq(c, 2, 3 + 1) = certs
        /\ SubSeq(c, 3 + 2, Len(c)) = rest
    <3>1. 0 + 1 = 1 /\ 0 + 2 = 2 /\ 0 + 1 + 3 = 4 /\ 0 + 2 + 3 = 5 /\ 3 + 1 = 4 /\ 3 + 2 = 5
      OBVIOUS
    <3> QED  BY <2>2, <3>1
  <2>4. ~ (Len(c) = 0 \/ Num(c[1]) = 0 \/ Num(c[1]) > Len(c) - 1)
    <3>1. Len(rest) \in Nat
      OBVIOUS
    <3> QED  BY <2>3, <3>1
  <2>5. From(c, Num(c[1]) + 2) = rest /\ SubSeq(c, 2, Num(c[1]) + 1) = certs
    BY <2>3 DEF From
  <2>6. ~ (rest # <<>> /\ Num(rest[1]) > Len(rest) - 1)
    <3>1. ~ (1 > 2 - 1)
      OBVIOUS
    <3> QED  BY <1>3, <3>1
  <2> QED  BY <2>4, <2>5, <2>6, Zenon DEF parse_pck_cert_chain
<1>4. <<>> \o Sized(certs) = Sized(certs) /\ Sized(certs) \o <<>> = Sized(certs)
      /\ <<>> \in Seq(QuoteCells)
  BY SizedIs, NoneBehind
<1>5. CASE layout = "length"
  <2>1. c = (<<>> \o Sized(certs)) \o <<>>
    BY <1>1, <1>4, <1>5 DEF LaidOut, Sized
  <2> QED  BY <1>1, <1>3, <1>4, <2>1
<1>6. CASE layout = "identity"
  <2>1. PICK rest \in Seq(QuoteCells) : rest = <<N(1), N(77)>> /\ Num(rest[1]) = 1 /\ Len(rest) = 2
    <3>1. PICK a \in QuoteCells, b \in QuoteCells : a = N(1) /\ b = N(77) /\ Num(a) = 1
      BY Field
    <3>2. <<a, b>> \in Seq(QuoteCells) /\ Len(<<a, b>>) = 2 /\ <<a, b>>[1] = a
      OBVIOUS
    <3> QED  BY <3>1, <3>2, Zenon
  <2>2. c = (<<>> \o Sized(certs)) \o rest
    BY <1>1, <1>4, <1>6, <2>1 DEF LaidOut, Sized
  <2> QED  BY <1>1, <1>3, <2>1, <2>2
<1> QED  BY <1>2, <1>5, <1>6

\* The order of concatenation.
LEMMA Associate ==
  \A x, y, z \in Seq(QuoteCells) : (x \o y) \o z = x \o (y \o z)
OBVIOUS

\* What stands behind a sequence is the rest of the whole.
LEMMA RestBack ==
  ASSUME NEW S, NEW x \in Seq(S), NEW y \in Seq(S)
  PROVE  From(x \o y, Len(x) + 1) = y /\ SubSeq(x \o y, 1, Len(x)) = x
<1>1. PICK c : c = x \o y
  OBVIOUS
<1>2. (x \o y) \o <<>> = x \o y /\ <<>> \in Seq(S) /\ Len(<<>>) = 0
  <2>1. x \o y \in Seq(S)
    BY Joined
  <2> QED  BY <2>1, NoneBehind
<1>3. SubSeq(c, Len(x) + 1, Len(x) + Len(y)) = y /\ Len(c) = Len(x) + Len(y) + 0
  <2>1. c = (x \o y) \o <<>>
    BY <1>1, <1>2, Zenon
  <2>2. PICK none \in Seq(S) : none = <<>> /\ Len(none) = 0
    BY <1>2, Zenon
  <2>3. c = (x \o y) \o none
    BY <2>1, <2>2, Zenon
  <2>4. Len(c) = Len(x) + Len(y) + Len(none) /\ SubSeq(c, Len(x) + 1, Len(x) + Len(y)) = y
    BY <2>3, Between
  <2> QED  BY <2>2, <2>4, Zenon
<1>4. SubSeq(c, 1, Len(x)) = x
  <2>1. <<>> \o x = x
    BY NoneBehind
  <2>2. PICK none \in Seq(S) : none = <<>> /\ Len(none) = 0
    BY <1>2, Zenon
  <2>3. c = (none \o x) \o y
    BY <1>1, <2>1, <2>2, Zenon
  <2>4. SubSeq(c, Len(none) + 1, Len(none) + Len(x)) = x
    BY <2>3, Between
  <2>5. 0 + 1 = 1 /\ 0 + Len(x) = Len(x)
    OBVIOUS
  <2> QED  BY <2>2, <2>4, <2>5, Zenon
<1>5. Len(x) + Len(y) + 0 = Len(x) + Len(y)
  OBVIOUS
<1> QED  BY <1>1, <1>3, <1>4, <1>5, Zenon DEF From

\* A payload of some type with its size before it.
LEMMA TypedRead ==
  ASSUME NEW t \in Nat, NEW cells \in Seq(QuoteCells)
  PROVE  LET b == <<N(t)>> \o Sized(cells)
         IN  /\ b \in Seq(QuoteCells) /\ Len(b) = Len(cells) + 2 /\ b # <<>>
             /\ Num(b[1]) = t /\ Fits(b) /\ Payload(b) = cells
<1>1. PICK b : b = <<N(t)>> \o Sized(cells)
  OBVIOUS
<1>2. PICK one \in Seq(QuoteCells) : one = <<N(t)>> /\ Len(one) = 1 /\ Num(one[1]) = t
  <2>1. PICK n \in QuoteCells : n = N(t) /\ Num(n) = t
    BY Field
  <2>2. <<n>> \in Seq(QuoteCells) /\ Len(<<n>>) = 1 /\ <<n>>[1] = n
    OBVIOUS
  <2> QED  BY <2>1, <2>2, Zenon
<1>3. PICK none \in Seq(QuoteCells) : none = <<>> /\ Len(none) = 0
  <2>1. <<>> \in Seq(QuoteCells) /\ Len(<<>>) = 0
    OBVIOUS
  <2> QED  BY <2>1, Zenon
<1>4. SizedIn(b, one, cells, none)
  <2>1. one \o Sized(cells) \in Seq(QuoteCells)
    <3>1. Sized(cells) \in Seq(QuoteCells)
      BY SizedIs
    <3> QED  BY <3>1, Joined
  <2>2. (one \o Sized(cells)) \o none = one \o Sized(cells)
    BY <1>3, <2>1, NoneBehind
  <2>3. SizedIn((one \o Sized(cells)) \o none, one, cells, none)
    BY SizedRead
  <2> QED  BY <1>1, <1>2, <2>2, <2>3, Zenon
<1>5. /\ b \in Seq(QuoteCells) /\ Len(b) = 1 + 1 + Len(cells) + 0
      /\ \A i \in 1 .. 1 : b[i] = one[i]
      /\ Num(b[1 + 1]) = Len(cells)
      /\ SubSeq(b, 1 + 2, 1 + 1 + Len(cells)) = cells
  BY <1>2, <1>3, <1>4, Zenon DEF SizedIn
<1>6. PICK k \in Nat : k = Len(cells)
  OBVIOUS
<1>7. 1 \in 1 .. 1 /\ 1 + 1 = 2 /\ 1 + 2 = 3 /\ 1 + 1 + k = 2 + k /\ 1 + 1 + k + 0 = k + 2
      /\ k + 2 >= 2 /\ 2 + k <= k + 2 /\ k + 2 # 0
  OBVIOUS
<1>8. Len(b) = k + 2 /\ b[1] = one[1] /\ Num(b[2]) = k /\ SubSeq(b, 3, 2 + k) = cells
  BY <1>5, <1>6, <1>7
<1>9. b # <<>>
  BY <1>7, <1>8
<1>10. Fits(b) /\ Payload(b) = cells
  BY <1>7, <1>8 DEF Fits, Payload
<1> QED  BY <1>1, <1>2, <1>5, <1>6, <1>8, <1>9, <1>10

\* What the parsers make of certification data.
AuxOf(qe, qesig, auth, chain) ==
  [ok |-> TRUE, aux |-> TRUE, qe |-> qe, qesig |-> qesig, auth |-> auth, pck |-> TRUE, chain |-> chain]
HoldsChain(data, certs) == parse_pck_cert_chain(data) = [ok |-> TRUE, chain |-> certs]
HoldsAux(p, aux) == p \in Seq(QuoteCells) /\ parse_ecdsa_sig_aux(p) = aux
\* The certification data that a platform writes, read back.
LEMMA AuxBack ==
  ASSUME NEW qe \in Seq(QuoteCells), Len(qe) = 2, NEW qesig \in QuoteCells,
         NEW auth \in Seq(QuoteCells), NEW data \in Seq(QuoteCells), NEW certs,
         HoldsChain(data, certs)
  PROVE  HoldsAux(qe \o <<qesig>> \o Sized(auth) \o <<N(PCK_CERT_CHAIN)>> \o Sized(data),
                  AuxOf(qe, qesig, auth, certs))
<1>0. PICK p : p = qe \o <<qesig>> \o Sized(auth) \o <<N(PCK_CERT_CHAIN)>> \o Sized(data)
  OBVIOUS
<1>1. PICK rest \in Seq(QuoteCells) :
         /\ rest = <<N(PCK_CERT_CHAIN)>> \o Sized(data) /\ rest # <<>>
         /\ Num(rest[1]) = PCK_CERT_CHAIN /\ Fits(rest) /\ Payload(rest) = data
  <2>1. PCK_CERT_CHAIN \in Nat
    BY DEF PCK_CERT_CHAIN
  <2> QED  BY <2>1, TypedRead
<1>2. PICK one \in Seq(QuoteCells) : one = <<qesig>> /\ Len(one) = 1 /\ one[1] = qesig
  <2>1. <<qesig>> \in Seq(QuoteCells) /\ Len(<<qesig>>) = 1 /\ <<qesig>>[1] = qesig
    OBVIOUS
  <2> QED  BY <2>1, Zenon
<1>3. PICK head \in Seq(QuoteCells) :
         /\ head = qe \o one /\ Len(head) = 3 /\ head[3] = qesig /\ SubSeq(head, 1, 2) = qe
  <2>1. /\ qe \o one \in Seq(QuoteCells) /\ Len(qe \o one) = Len(qe) + Len(one)
        /\ \A i \in 1 .. Len(qe) + Len(one) :
              (qe \o one)[i] = IF i <= Len(qe) THEN qe[i] ELSE one[i - Len(qe)]
    BY ConcatProperties
  <2>2. PICK w : w = qe \o one
    OBVIOUS
  <2>3. w \in Seq(QuoteCells) /\ Len(w) = 2 + 1
        /\ \A i \in 1 .. 2 + 1 : w[i] = IF i <= 2 THEN qe[i] ELSE one[i - 2]
    BY <1>2, <2>1, <2>2, Zenon
  <2>4. 2 + 1 = 3 /\ 3 \in 1 .. 2 + 1 /\ ~ (3 <= 2) /\ 3 - 2 = 1
    OBVIOUS
  <2>5. SubSeq(qe \o one, 1, Len(qe)) = qe
    BY RestBack
  <2>6. Len(w) = 3 /\ w[3] = one[3 - 2]
    BY <2>3, <2>4
  <2> QED  BY <1>2, <2>2, <2>3, <2>4, <2>5, <2>6, Zenon
<1>4. SizedIn(p, head, auth, rest)
  <2>1. PICK sized \in Seq(QuoteCells) : sized = Sized(auth)
    BY SizedIs
  <2>2. PICK last \in Seq(QuoteCells) : last = Sized(data)
    BY SizedIs
  <2>3. PICK mark \in Seq(QuoteCells) : mark = <<N(PCK_CERT_CHAIN)>>
    <3>1. N(PCK_CERT_CHAIN) \in QuoteCells
      BY Field DEF PCK_CERT_CHAIN
    <3>2. <<N(PCK_CERT_CHAIN)>> \in Seq(QuoteCells)
      BY <3>1
    <3> QED  BY <3>2, Zenon
  <2>4. PICK left \in Seq(QuoteCells) : left = head \o sized
    BY Joined
  <2>5. (left \o mark) \o last = left \o (mark \o last)
    <3>1. \A x, y, z \in Seq(QuoteCells) : (x \o y) \o z = x \o (y \o z)
      BY Associate
    <3>2. \A y, z \in Seq(QuoteCells) : (left \o y) \o z = left \o (y \o z)
      BY <3>1, Zenon
    <3>3. \A z \in Seq(QuoteCells) : (left \o mark) \o z = left \o (mark \o z)
      BY <3>2, Zenon
    <3>4. (left \o mark) \o last = left \o (mark \o last)
      BY <3>3, Zenon
    <3> QED  BY <3>4, Zenon
  <2>6. p = ((head \o sized) \o mark) \o last
    BY <1>0, <1>2, <1>3, <2>1, <2>2, <2>3, Zenon
  <2>7. p = (head \o Sized(auth)) \o rest
    BY <1>1, <2>1, <2>2, <2>3, <2>4, <2>5, <2>6, Zenon
  <2>8. SizedIn((head \o Sized(auth)) \o rest, head, auth, rest)
    BY SizedRead
  <2> QED  BY <2>7, <2>8, Zenon
<1>5. /\ p \in Seq(QuoteCells) /\ Len(p) = 3 + 1 + Len(auth) + Len(rest)
      /\ \A i \in 1 .. 3 : p[i] = head[i]
      /\ Num(p[3 + 1]) = Len(auth)
      /\ SubSeq(p, 3 + 2, 3 + 1 + Len(auth)) = auth
      /\ SubSeq(p, 3 + 2 + Len(auth), Len(p)) = rest
  BY <1>3, <1>4, Zenon DEF SizedIn
<1>6. PICK k \in Nat, l \in Nat : k = Len(auth) /\ l = Len(rest)
  OBVIOUS
<1>7. /\ 3 + 1 = 4 /\ 3 + 2 = 5 /\ 3 + 1 + k = 4 + k /\ 3 + 2 + k = 5 + k /\ 3 \in 1 .. 3
      /\ ~ (3 + 1 + k + l < 4) /\ ~ (3 + 1 + k + l < 4 + k)
      /\ 2 + 1 = 3 /\ 2 + 2 = 4 /\ 2 + 3 = 5 /\ 2 + 2 + k = 4 + k /\ 2 + 3 + k = 5 + k
  OBVIOUS
<1>8. SubSeq(p, 1, 2) = qe
  <2>1. SubSeq(p, 1, 2) \in Seq(QuoteCells) /\ Len(SubSeq(p, 1, 2)) = 2
        /\ \A i \in 1 .. 2 : SubSeq(p, 1, 2)[i] = p[i]
    BY <1>5, <1>6, Firsts
  <2>2. \A i \in 1 .. 2 : SubSeq(head, 1, 2)[i] = head[i]
    BY <1>3, Firsts
  <2>3. \A i \in 1 .. 2 : i \in 1 .. 3
    OBVIOUS
  <2>4. \A i \in 1 .. Len(SubSeq(p, 1, 2)) : SubSeq(p, 1, 2)[i] = qe[i]
    BY <1>3, <1>5, <2>1, <2>2, <2>3, Zenon
  <2> QED  BY <2>1, <2>4, SequencesEqual
<1>9. p[3] = qesig /\ Num(p[4]) = k /\ SubSeq(p, 5, 4 + k) = auth /\ From(p, 5 + k) = rest
      /\ ~ (Len(p) < 4) /\ ~ (Len(p) < 4 + k)
  BY <1>3, <1>5, <1>6, <1>7 DEF From
<1>10. parse_pck_cert_chain(Payload(From(p, 5 + k))).ok
       /\ parse_pck_cert_chain(Payload(From(p, 5 + k))).chain = certs
  <2>1. Payload(From(p, 5 + k)) = data
    BY <1>1, <1>9, Zenon
  <2>2. parse_pck_cert_chain(data).ok /\ parse_pck_cert_chain(data).chain = certs
    BY DEF HoldsChain
  <2> QED  BY <2>1, <2>2, Zenon
<1>11. /\ SubSeq(p, 1, SGX_REPORT_BODY_SIZE) = qe /\ p[SGX_REPORT_BODY_SIZE + 1] = qesig
       /\ Num(p[SGX_REPORT_BODY_SIZE + 2]) = k
       /\ SubSeq(p, SGX_REPORT_BODY_SIZE + 3, SGX_REPORT_BODY_SIZE + 2 + k) = auth
       /\ SGX_REPORT_BODY_SIZE + 3 + k = 5 + k
       /\ ~ (Len(p) < SGX_REPORT_BODY_SIZE + 2) /\ ~ (Len(p) < SGX_REPORT_BODY_SIZE + 2 + k)
  BY <1>7, <1>8, <1>9 DEF SGX_REPORT_BODY_SIZE
<1>12. parse_ecdsa_sig_aux(p) = AuxOf(qe, qesig, auth, certs)
  BY <1>1, <1>9, <1>10, <1>11, Zenon DEF parse_ecdsa_sig_aux, AuxOf
<1> QED  BY <1>0, <1>5, <1>12, Zenon DEF HoldsAux

\* A pair and one more.
LEMMA TwoOne ==
  ASSUME NEW a \in QuoteCells, NEW b \in QuoteCells, NEW c \in QuoteCells
  PROVE  <<a, b>> \o <<c>> = <<a, b, c>>
<1>1. PICK x \in Seq(QuoteCells), y \in Seq(QuoteCells), z \in Seq(QuoteCells) :
         x = <<a>> /\ y = <<b>> /\ z = <<c>>
  <2>1. <<a>> \in Seq(QuoteCells) /\ <<b>> \in Seq(QuoteCells) /\ <<c>> \in Seq(QuoteCells)
    OBVIOUS
  <2> QED  BY <2>1, Zenon
<1>2. (x \o y) \o z = x \o (y \o z)
  <2>1. \A r, s, t \in Seq(QuoteCells) : (r \o s) \o t = r \o (s \o t)
    BY Associate
  <2>2. \A s, t \in Seq(QuoteCells) : (x \o s) \o t = x \o (s \o t)
    BY <2>1, Zenon
  <2>3. \A t \in Seq(QuoteCells) : (x \o y) \o t = x \o (y \o t)
    BY <2>2, Zenon
  <2> QED  BY <2>3, Zenon
<1>3. <<a>> \o <<b>> = <<a, b>> /\ <<b>> \o <<c>> = <<b, c>> /\ <<a>> \o <<b, c>> = <<a, b, c>>
  <2>1. <<a>> \o <<b>> = <<a, b>>
    BY Strings
  <2>2. <<b>> \o <<c>> = <<b, c>>
    BY Strings
  <2>3. <<a>> \o <<b, c>> = <<a, b, c>>
    BY Strings
  <2> QED  BY <2>1, <2>2, <2>3
<1> QED  BY <1>1, <1>2, <1>3, Zenon

\* A signature with its key and its certification data, read back.
LEMMA SignatureBack ==
  ASSUME NEW sig \in QuoteCells, NEW key \in QuoteCells, NEW aux \in Seq(QuoteCells),
         parse_ecdsa_sig_aux(aux).ok
  PROVE  LET s == <<sig, key, N(ECDSA_SIG_AUX_DATA)>> \o Sized(aux)
         IN  /\ s \in Seq(QuoteCells)
             /\ parse_quote_signature(s) =
                  [present |-> TRUE, signature |-> sig, key |-> key,
                   certification |-> parse_ecdsa_sig_aux(aux)]
<1>1. PICK s : s = <<sig, key, N(ECDSA_SIG_AUX_DATA)>> \o Sized(aux)
  OBVIOUS
<1>2. PICK mark \in QuoteCells : mark = N(ECDSA_SIG_AUX_DATA)
  <2>1. ECDSA_SIG_AUX_DATA \in Nat
    BY DEF ECDSA_SIG_AUX_DATA
  <2> QED  BY <2>1, Field
<1>3. PICK b \in Seq(QuoteCells) :
         /\ b = <<mark>> \o Sized(aux) /\ Len(b) = Len(aux) + 2
         /\ Num(b[1]) = ECDSA_SIG_AUX_DATA /\ Fits(b) /\ Payload(b) = aux
  <2>1. ECDSA_SIG_AUX_DATA \in Nat
    BY DEF ECDSA_SIG_AUX_DATA
  <2> QED  BY <1>2, <2>1, TypedRead
<1>4. PICK two \in Seq(QuoteCells) :
         two = <<sig, key>> /\ Len(two) = 2 /\ two[1] = sig /\ two[2] = key
  <2>1. <<sig, key>> \in Seq(QuoteCells) /\ Len(<<sig, key>>) = 2
        /\ <<sig, key>>[1] = sig /\ <<sig, key>>[2] = key
    OBVIOUS
  <2> QED  BY <2>1, Zenon
<1>5. s = two \o b
  <2>1. PICK sized \in Seq(QuoteCells) : sized = Sized(aux)
    BY SizedIs
  <2>2. PICK one \in Seq(QuoteCells) : one = <<mark>>
    <3>1. <<mark>> \in Seq(QuoteCells)
      OBVIOUS
    <3> QED  BY <3>1, Zenon
  <2>3. <<sig, key>> \o <<mark>> = <<sig, key, mark>>
    BY TwoOne
  <2>4. (two \o one) \o sized = two \o (one \o sized)
    <3>1. \A x, y, z \in Seq(QuoteCells) : (x \o y) \o z = x \o (y \o z)
      BY Associate
    <3>2. \A y, z \in Seq(QuoteCells) : (two \o y) \o z = two \o (y \o z)
      BY <3>1, Zenon
    <3>3. \A z \in Seq(QuoteCells) : (two \o one) \o z = two \o (one \o z)
      BY <3>2, Zenon
    <3> QED  BY <3>3, Zenon
  <2> QED  BY <1>1, <1>2, <1>3, <1>4, <2>1, <2>2, <2>3, <2>4, Zenon
<1>6. From(s, 3) = b
  <2>1. From(two \o b, Len(two) + 1) = b
    BY RestBack
  <2>2. 2 + 1 = 3
    OBVIOUS
  <2> QED  BY <1>4, <1>5, <2>1, <2>2, Zenon
<1>7. s \in Seq(QuoteCells) /\ s[1] = sig /\ s[2] = key /\ ~ (Len(s) = 2) /\ ~ (Len(s) < 2)
  <2>1. /\ two \o b \in Seq(QuoteCells) /\ Len(two \o b) = Len(two) + Len(b)
        /\ \A i \in 1 .. Len(two) + Len(b) :
              (two \o b)[i] = IF i <= Len(two) THEN two[i] ELSE b[i - Len(two)]
    BY ConcatProperties
  <2>2. PICK k \in Nat : k = Len(aux)
    OBVIOUS
  <2>3. /\ s \in Seq(QuoteCells) /\ Len(s) = 2 + (k + 2)
        /\ \A i \in 1 .. 2 + (k + 2) : s[i] = IF i <= 2 THEN two[i] ELSE b[i - 2]
    <3>1. Len(two) = 2 /\ Len(b) = k + 2
      BY <1>3, <1>4, <2>2
    <3> QED  BY <1>5, <2>1, <3>1, Zenon
  <2>4. /\ 1 \in 1 .. 2 + (k + 2) /\ 2 \in 1 .. 2 + (k + 2) /\ 1 <= 2 /\ 2 <= 2
        /\ ~ (2 + (k + 2) = 2) /\ ~ (2 + (k + 2) < 2)
    OBVIOUS
  <2>5. s[1] = two[1] /\ s[2] = two[2]
    BY <2>3, <2>4
  <2> QED  BY <1>4, <2>3, <2>4, <2>5, Zenon
<1>8. parse_certification(b) = parse_ecdsa_sig_aux(aux)
  BY <1>3, Zenon DEF parse_certification
<1>9. parse_quote_signature(s) = [present |-> TRUE, signature |-> sig, key |-> key,
                                  certification |-> parse_ecdsa_sig_aux(aux)]
  BY <1>6, <1>7, <1>8, Zenon DEF parse_quote_signature
<1> QED  BY <1>1, <1>7, <1>9, Zenon

\* What stands behind a message with its size, read as the signature.
LEMMA DataBack ==
  ASSUME NEW m \in Seq(QuoteCells), NEW data \in Seq(QuoteCells)
  PROVE  LET b == m \o Sized(data)
         IN  /\ b \in Seq(QuoteCells) /\ Len(b) = Len(m) + 1 + Len(data)
             /\ SubSeq(b, 1, Len(m)) = m /\ \A i \in 1 .. Len(m) : b[i] = m[i]
             /\ read_signature(b, Len(m), TRUE) = [ok |-> TRUE, data |-> data]
<1>1. PICK b : b = m \o Sized(data)
  OBVIOUS
<1>2. PICK none \in Seq(QuoteCells) : none = <<>> /\ Len(none) = 0
  <2>1. <<>> \in Seq(QuoteCells) /\ Len(<<>>) = 0
    OBVIOUS
  <2> QED  BY <2>1, Zenon
<1>3. m \o Sized(data) \in Seq(QuoteCells) /\ SubSeq(m \o Sized(data), 1, Len(m)) = m
  <2>1. Sized(data) \in Seq(QuoteCells)
    BY SizedIs
  <2> QED  BY <2>1, Joined, RestBack
<1>4. SizedIn(b, m, data, none)
  <2>1. (m \o Sized(data)) \o none = m \o Sized(data)
    BY <1>2, <1>3, NoneBehind
  <2>2. SizedIn((m \o Sized(data)) \o none, m, data, none)
    BY SizedRead
  <2> QED  BY <1>1, <2>1, <2>2, Zenon
<1>5. PICK k \in Nat, l \in Nat : k = Len(m) /\ l = Len(data)
  OBVIOUS
<1>6. /\ Len(b) = k + 1 + l + 0
      /\ \A i \in 1 .. k : b[i] = m[i]
      /\ Num(b[k + 1]) = l
      /\ SubSeq(b, k + 2, k + 1 + l) = data
  BY <1>2, <1>4, <1>5, Zenon DEF SizedIn
<1>7. k + 1 + l + 0 = k + 1 + l /\ k + 1 + l > k /\ k + 1 + l <= k + 1 + l
  OBVIOUS
<1>8. read_signature(b, k, TRUE) = [ok |-> TRUE, data |-> data]
  BY <1>6, <1>7, Zenon DEF read_signature
<1> QED  BY <1>1, <1>3, <1>5, <1>6, <1>7, <1>8, Zenon

\* A quote begins with its version and the TEE, never with an envelope.
LEMMA NotEnveloped ==
  ASSUME NEW q \in Seq(QuoteCells), Num(q[2]) = 129
  PROVE  strip_qgs_envelope(q) = q /\ unwrap_qgs_get_quote_response(q) = q
<1>1. ~ (129 = 1)
  OBVIOUS
<1>2. ~ Enveloped(q)
  BY <1>1 DEF Enveloped, GET_QUOTE_RESP
<1> QED  BY <1>2, Zenon DEF strip_qgs_envelope, unwrap_qgs_get_quote_response

\* What is enclosed in an envelope is what it is stripped to, whatever the identifier.
LEMMA EnclosedBack ==
  ASSUME NEW q \in Seq(QuoteCells), Len(q) >= 1, Num(q[1]) \in {4, 5}, NEW id \in Seq(QuoteCells)
  PROVE  strip_qgs_envelope(Enclosed(q, id)) = q
<1>1. PICK k \in Nat, l \in Nat : k = Len(id) /\ l = Len(q)
  OBVIOUS
<1>2. PICK a \in QuoteCells, b \in QuoteCells, c \in QuoteCells, d \in QuoteCells :
         /\ a = N(1) /\ b = N(6 + k + l) /\ c = N(0) /\ d = N(k)
         /\ Num(a) = 1 /\ Num(b) = 6 + k + l /\ Num(d) = k
  <2>1. 1 \in Nat /\ 6 + k + l \in Nat /\ 0 \in Nat
    OBVIOUS
  <2>2. N(1) \in QuoteCells /\ Num(N(1)) = 1
    BY <2>1, Field
  <2>3. N(6 + k + l) \in QuoteCells /\ Num(N(6 + k + l)) = 6 + k + l
    BY <2>1, Field
  <2>4. N(0) \in QuoteCells
    BY <2>1, Field
  <2>5. N(k) \in QuoteCells /\ Num(N(k)) = k
    BY Field
  <2> QED  BY <2>2, <2>3, <2>4, <2>5, Zenon
<1>3. PICK e \in QuoteCells : e = N(l) /\ Num(e) = l
  BY Field
<1>4. PICK head \in Seq(QuoteCells) :
         /\ head = <<a, a, b, c, d, e>> /\ Len(head) = 6
         /\ head[2] = a /\ head[3] = b /\ head[5] = d /\ head[6] = e
  <2>1. /\ <<a, a, b, c, d, e>> \in Seq(QuoteCells) /\ Len(<<a, a, b, c, d, e>>) = 6
        /\ <<a, a, b, c, d, e>>[2] = a /\ <<a, a, b, c, d, e>>[3] = b
        /\ <<a, a, b, c, d, e>>[5] = d /\ <<a, a, b, c, d, e>>[6] = e
    OBVIOUS
  <2> QED  BY <2>1, Zenon
<1>5. PICK w : w = Enclosed(q, id)
  OBVIOUS
<1>6. w = (head \o id) \o q
  <2>1. w = <<N(1), N(1), N(6 + k + l), N(0), N(k), N(l)>> \o id \o q
    BY <1>1, <1>5, Zenon DEF Enclosed, GET_QUOTE_RESP, QGS_GET_QUOTE_RESP_PREFIX_SIZE
  <2> QED  BY <1>2, <1>3, <1>4, <2>1, Zenon
<1>7. /\ w \in Seq(QuoteCells) /\ Len(w) = 6 + k + l
      /\ \A i \in 1 .. 6 : w[i] = head[i]
      /\ SubSeq(w, 6 + k + 1, Len(w)) = q
  <2>1. /\ w \in Seq(QuoteCells) /\ Len(w) = Len(head) + Len(id) + Len(q)
        /\ \A i \in 1 .. Len(head) : w[i] = head[i]
        /\ SubSeq(w, Len(head) + Len(id) + 1, Len(w)) = q
    BY <1>6, Between
  <2>2. Len(head) = 6
    BY <1>4, Zenon
  <2> QED  BY <1>1, <2>1, <2>2, Zenon
<1>8. 2 \in 1 .. 6 /\ 3 \in 1 .. 6 /\ 5 \in 1 .. 6 /\ 6 \in 1 .. 6 /\ 6 + k + l >= 6 /\ 6 + k + l <= 6 + k + l
  OBVIOUS
<1>9. Num(w[2]) = 1 /\ Num(w[3]) = Len(w) /\ Num(w[5]) = k /\ Num(w[6]) = l
  <2>1. w[2] = a /\ w[3] = b /\ w[5] = d /\ w[6] = e
    <3>1. head[2] = a /\ head[3] = b /\ head[5] = d /\ head[6] = e
      BY <1>4, Zenon
    <3> QED  BY <1>7, <1>8, <3>1
  <2> QED  BY <1>2, <1>3, <1>7, <2>1
<1>10. Enveloped(w)
  BY <1>7, <1>8, <1>9 DEF Enveloped, GET_QUOTE_RESP, QGS_GET_QUOTE_RESP_PREFIX_SIZE
<1>11. Inner(w) = q
  BY <1>7, <1>9 DEF Inner, QGS_GET_QUOTE_RESP_PREFIX_SIZE
<1>12. strip_qgs_envelope(w) = q
  BY <1>10, <1>11 DEF strip_qgs_envelope
<1> QED  BY <1>5, <1>12

\* What the parser makes of a quote.
HoldsQuote(b, td, f, data) ==
  LET q == parse_td_quote(b)
  IN  /\ b \in Seq(QuoteCells) /\ Len(b) >= 5 /\ Num(b[1]) \in {4, 5} /\ Num(b[2]) = 129
      /\ q.ok /\ q.type \in DOMAIN BodySize
      /\ SignedLength(q) <= Len(b) /\ SubSeq(b, 1, SignedLength(q)) = Body(td, f)
      /\ q.signature = parse_quote_signature(data)
\* A quote of the layouts but the one behind the header, parsed.
LEMMA QuoteBack ==
  ASSUME NEW td \in TdHosts, NEW f \in WrittenForms, f.layout # "behind",
         NEW data \in Seq(QuoteCells)
  PROVE  HoldsQuote(Body(td, f) \o Sized(data), td, f, data)
<1>0. PICK b : b = Body(td, f) \o Sized(data)
  OBVIOUS
<1>1. PICK m \in Seq(QuoteCells) : m = Body(td, f)
  <2>1. Body(td, f) \in Seq(QuoteCells)
    BY BodyIs, NumberCellsAreCells, Wider
  <2> QED  BY <2>1
<1>2. PICK z \in Nat : z = BodySize[f.type] /\ f.type \in {2, 3, 4} /\ f.type \in DOMAIN BodySize
  BY FormIs, BodySizeIs
<1>3. /\ Len(m) >= 5 /\ Num(m[2]) = 129
      /\ f.layout = "v4" => Len(m) = 5 /\ Num(m[1]) = 4
      /\ f.layout = "v5" => Len(m) = 5 + z /\ Num(m[1]) = 5 /\ Num(m[4]) = f.type /\ Num(m[5]) = z
  <2>1. /\ Len(Body(td, f)) >= 5 /\ Num(Body(td, f)[2]) = 129
        /\ f.layout = "v4" => Len(Body(td, f)) = 5 /\ Num(Body(td, f)[1]) = 4
        /\ f.layout = "v5" => /\ Len(Body(td, f)) = 5 + BodySize[f.type] /\ Num(Body(td, f)[1]) = 5
                              /\ Num(Body(td, f)[4]) = f.type
                              /\ Num(Body(td, f)[5]) = BodySize[f.type]
    BY BodyShape
  <2> QED  BY <1>1, <1>2, <2>1, Zenon
<1>4. /\ b \in Seq(QuoteCells) /\ Len(b) = Len(m) + 1 + Len(data)
      /\ SubSeq(b, 1, Len(m)) = m /\ \A i \in 1 .. Len(m) : b[i] = m[i]
      /\ read_signature(b, Len(m), TRUE) = [ok |-> TRUE, data |-> data]
  <2>1. b = m \o Sized(data)
    BY <1>0, <1>1, Zenon
  <2>2. /\ m \o Sized(data) \in Seq(QuoteCells)
        /\ Len(m \o Sized(data)) = Len(m) + 1 + Len(data)
        /\ SubSeq(m \o Sized(data), 1, Len(m)) = m
        /\ \A i \in 1 .. Len(m) : (m \o Sized(data))[i] = m[i]
        /\ read_signature(m \o Sized(data), Len(m), TRUE) = [ok |-> TRUE, data |-> data]
    BY DataBack
  <2> QED  BY <2>1, <2>2, Zenon
<1>5. PICK k \in Nat, l \in Nat : k = Len(m) /\ l = Len(data)
  OBVIOUS
<1>6. /\ k >= 5 => /\ k + 1 + l >= 5 /\ k + 1 + l >= 3 /\ ~ (k + 1 + l < k) /\ k <= k + 1 + l
                   /\ 1 \in 1 .. k /\ 2 \in 1 .. k /\ 4 \in 1 .. k /\ 5 \in 1 .. k
  OBVIOUS
<1>7. /\ Len(b) >= 5 /\ Len(b) >= 3 /\ ~ (Len(b) < k) /\ k <= Len(b)
      /\ b[1] = m[1] /\ b[2] = m[2] /\ b[4] = m[4] /\ b[5] = m[5]
  <2>1. k >= 5
    BY <1>3, <1>5
  <2>2. Len(b) = k + 1 + l /\ \A i \in 1 .. k : b[i] = m[i]
    BY <1>4, <1>5, Zenon
  <2> QED  BY <1>6, <2>1, <2>2
<1>8. f.layout = "v4" \/ f.layout = "v5"
  BY FormIs
<1>9. Num(b[1]) \in {4, 5} /\ Num(b[2]) = 129
  BY <1>3, <1>7, <1>8
<1>10. parse_td_quote(b) = DescribedQuote(b, Descriptor(b), TRUE)
  <2>1. unwrap_qgs_get_quote_response(b) = b
    BY <1>4, <1>9, NotEnveloped
  <2>2. HeaderFits(b)
    <3>1. CASE f.layout = "v4"
      <4>1. ~ (Num(b[1]) >= 5)
        BY <1>3, <1>7, <3>1
      <4> QED  BY <1>7, <4>1 DEF HeaderFits, TD_QUOTE_HEADER_V4_SIZE
    <3>2. CASE f.layout = "v5"
      <4>1. ~ Behind(b)
        BY <1>2, <1>3, <1>7, <3>2 DEF Behind
      <4> QED  BY <1>7, <4>1 DEF HeaderFits, TD_QUOTE_HEADER_V4_SIZE, TD_QUOTE_HEADER_V5_SIZE
    <3> QED  BY <1>8, <3>1, <3>2
  <2> QED  BY <2>1, <2>2, Zenon DEF parse_td_quote, parse_td_quote_with_options, UnwrappedQuote
<1>11. PICK at \in Nat, size \in Nat, version \in Nat :
         /\ Descriptor(b) = [at |-> at, type |-> f.type, reserved |-> 0, size |-> size]
         /\ at + size = k /\ size = BodySize[f.type] /\ Num(b[1]) = version
         /\ size + (IF version >= 5 THEN 5 ELSE 3) = k
  <2>1. CASE f.layout = "v4"
    <3>1. Num(b[1]) = 4 /\ k = 5
      BY <1>3, <1>5, <1>7, <2>1
    <3>2. f.type = 2 /\ BodySize[f.type] = 2
      BY <2>1, FormIs, BodySizeIs
    <3>3. 3 + 2 = 5 /\ ~ (4 >= 5) /\ 4 <= 4 /\ 2 + 3 = 5
      OBVIOUS
    <3>4. Descriptor(b) = [at |-> 3, type |-> 2, reserved |-> 0, size |-> 2]
      BY <3>1, <3>3, Zenon DEF Descriptor, TD_QUOTE_HEADER_V4_SIZE, Tdx10, TD_QUOTE_BODY_V1_0_SIZE
    <3>5. 3 \in Nat /\ 2 \in Nat /\ 4 \in Nat
      OBVIOUS
    <3>6. 2 + (IF 4 >= 5 THEN 5 ELSE 3) = 5
      OBVIOUS
    <3> QED  BY <3>1, <3>2, <3>3, <3>4, <3>5, <3>6, Zenon
  <2>2. CASE f.layout = "v5"
    <3>1. Num(b[1]) = 5 /\ k = 5 + z /\ Num(b[4]) = f.type /\ Num(b[5]) = z
      BY <1>3, <1>5, <1>7, <2>2
    <3>2. ~ Behind(b)
      BY <1>2, <3>1 DEF Behind
    <3>3. ~ (5 <= 4) /\ 5 \in Nat
      OBVIOUS
    <3>4. Descriptor(b) = [at |-> 5, type |-> f.type, reserved |-> 0, size |-> z]
      BY <3>1, <3>2, <3>3, Zenon DEF Descriptor, TD_QUOTE_HEADER_V5_SIZE
    <3>5. z + (IF 5 >= 5 THEN 5 ELSE 3) = 5 + z
      OBVIOUS
    <3> QED  BY <1>2, <3>1, <3>3, <3>4, <3>5, Zenon
  <2> QED  BY <1>8, <2>1, <2>2
<1>12. PICK d : d = Descriptor(b)
  OBVIOUS
<1>13. d.at = at /\ d.type = f.type /\ d.reserved = 0 /\ d.size = size
  BY <1>11, <1>12
<1>14. BodyLength(b, d) = size
  <2>1. d.size \in Nat /\ d.reserved \in Nat
    BY <1>13
  <2> QED  BY <1>13, <2>1, BodyLengthIs
<1>15. PICK sig : sig = read_signature(b, k, TRUE) /\ sig.ok /\ sig.data = data
  <2>1. PICK sig : sig = [ok |-> TRUE, data |-> data]
    OBVIOUS
  <2>2. sig.ok /\ sig.data = data
    BY <2>1
  <2>3. sig = read_signature(b, k, TRUE)
    BY <1>4, <1>5, <2>1, Zenon
  <2> QED  BY <2>2, <2>3, Zenon
<1>16. parse_td_quote(b) = QuoteOf(b, d, size, sig)
  BY <1>10, <1>11, <1>12, <1>13, <1>14, <1>15, Zenon DEF DescribedQuote, QuoteWithBody
<1>17. QuoteOf(b, d, size, sig) =
         [ok |-> TRUE, version |-> Num(b[1]), type |-> d.type, size |-> size,
          body |-> SubSeq(b, d.at + 1, d.at + size),
          signature |-> parse_quote_signature(sig.data)]
  <2>1. ~ (Len(b) < d.at + size) /\ ~ (size # BodySize[d.type])
    BY <1>7, <1>11, <1>13
  <2> QED  BY <1>15, <2>1, Zenon DEF QuoteOf
<1>18. PICK q : q = parse_td_quote(b)
  OBVIOUS
<1>19. /\ q.ok /\ q.version = version /\ q.type = f.type /\ q.size = size
       /\ q.signature = parse_quote_signature(data)
  <2>1. q = [ok |-> TRUE, version |-> version, type |-> f.type, size |-> size,
             body |-> SubSeq(b, d.at + 1, d.at + size),
             signature |-> parse_quote_signature(data)]
    BY <1>11, <1>13, <1>15, <1>16, <1>17, <1>18, Zenon
  <2> QED  BY <2>1
<1>20. SignedLength(q) = k
  BY <1>11, <1>19 DEF SignedLength, TD_QUOTE_HEADER_V4_SIZE, TD_QUOTE_HEADER_V5_SIZE
<1>21. /\ q.type \in DOMAIN BodySize /\ SignedLength(q) <= Len(b)
       /\ SubSeq(b, 1, SignedLength(q)) = Body(td, f)
  <2>1. SubSeq(b, 1, k) = Body(td, f)
    BY <1>1, <1>4, <1>5, Zenon
  <2>2. k <= Len(b)
    BY <1>7
  <2> QED  BY <1>2, <1>19, <1>20, <2>1, <2>2, Zenon
<1>22. b \in Seq(QuoteCells) /\ Len(b) >= 5
  BY <1>4, <1>7, Zenon
<1> QED  BY <1>0, <1>9, <1>18, <1>19, <1>21, <1>22, Zenon DEF HoldsQuote

\* The days on which a host's certificates are accepted.
CertifiedOn(certs, day) ==
    Within(certs.leaf, day) /\ Within(certs.ca, day) /\ certs.authority

\* The chain of a platform leads to the root it names, and its leaf is the PCK.
LEMMA ChainLeads ==
  ASSUME NEW td \in TdHosts, NEW f \in WrittenForms, NEW day, td.platform.root = IntelRoot,
         CertifiedOn(td.platform.certs, day)
  PROVE  LET certs == Chain(td.platform, PckDer(td.platform, f.auth = 1, 130 * f.envelope))
         IN  pck_chain(certs, {IntelRoot}, day) /\ CertKey(certs[LeafAt(certs)]) = td.platform.pck
<1>1. PICK certs \in Seq(QuoteCells) :
         /\ certs = Chain(td.platform, PckDer(td.platform, f.auth = 1, 130 * f.envelope))
         /\ Len(certs) = 3 /\ \A i \in 1 .. 3 : Len(certs[i]) >= 6 /\ Num(certs[i]) = Pem
         /\ CertKey(certs[1]) = td.platform.pck /\ CertIssuer(certs[1]) = td.platform.ca
         /\ Within(CertPeriod(certs[1]), day)
         /\ CertKey(certs[2]) = td.platform.ca /\ CertIssuer(certs[2]) = IntelRoot
         /\ CertCa(certs[2]) /\ Within(CertPeriod(certs[2]), day)
  BY ChainCells, Zenon DEF CertifiedOn
<1>2. DOMAIN certs = 1 .. 3
  BY <1>1
<1>3. PemBlocks(certs) = 1 .. 3 /\ parse_pem_chain(certs) = 1 .. 3
  <2>1. PemBlocks(certs) = 1 .. 3
    BY <1>1, <1>2 DEF PemBlocks
  <2> QED  BY <1>1, <2>1 DEF parse_pem_chain, CERTIFICATE_SIZE
<1>4. LeafAt(certs) = 1
  <2>1. 1 \in 1 .. 3 /\ \A j \in 1 .. 3 : 1 <= j
    OBVIOUS
  <2>2. \A i \in 1 .. 3 : (\A j \in 1 .. 3 : i <= j) => i = 1
    OBVIOUS
  <2>3. LeafAt(certs) \in 1 .. 3 /\ \A j \in 1 .. 3 : LeafAt(certs) <= j
    BY <1>3, <2>1, Zenon DEF LeafAt
  <2> QED  BY <2>2, <2>3, Zenon
<1>5. certs[2] \in Others(certs)
  <2>1. 2 \in (1 .. 3) \ {1}
    OBVIOUS
  <2> QED  BY <1>3, <1>4, <2>1 DEF Others
<1>6. ~ self_signed(certs[2])
  <2>1. td.platform.ca # IntelRoot
    BY PlatformAssumption DEF PlatformAssumption
  <2> QED  BY <1>1, <2>1, Zenon DEF self_signed
<1>7. verify_cert_chain(certs[1], {c \in Others(certs) : ~ self_signed(c)}, {IntelRoot}, day)
  <2>1. certs[2] \in {c \in Others(certs) : ~ self_signed(c)}
    BY <1>5, <1>6, Zenon
  <2>2. /\ CertIssuer(certs[1]) = CertKey(certs[2]) /\ CertIssuer(certs[2]) \in {IntelRoot}
        /\ Within(CertPeriod(certs[1]), day)
        /\ CertCa(certs[2]) /\ Within(CertPeriod(certs[2]), day)
    BY <1>1
  <2> QED  BY <2>1, <2>2, Zenon DEF verify_cert_chain
<1>8. parse_pem_chain(certs) # {}
  BY <1>3
<1>9. pck_chain(certs, {IntelRoot}, day)
  BY <1>4, <1>7, <1>8, Zenon DEF pck_chain
<1>10. CertKey(certs[LeafAt(certs)]) = td.platform.pck
  BY <1>1, <1>4, Zenon
<1> QED  BY <1>1, <1>9, <1>10, Zenon

\* The chain in the certification data is the one of the platform.
LEMMA ChainDataBack ==
  ASSUME NEW td \in TdHosts, NEW f \in WrittenForms
  PROVE  HoldsChain(ChainData(td.platform, f),
                    Chain(td.platform, PckDer(td.platform, f.auth = 1, 130 * f.envelope)))
<1>1. PICK certs \in Seq(QuoteCells) :
         /\ certs = Chain(td.platform, PckDer(td.platform, f.auth = 1, 130 * f.envelope))
         /\ Len(certs) = 3 /\ Num(certs[1]) = Pem
  <2>1. 1 \in 1 .. 3
    OBVIOUS
  <2> QED  BY <2>1, ChainCells
<1>2. f.chain \in {"bare", "length", "identity"}
  BY FormIs
<1>3. parse_pck_cert_chain(LaidOut(certs, f.chain)) = [ok |-> TRUE, chain |-> certs]
  BY <1>1, <1>2, LaidOutRead
<1> QED  BY <1>1, <1>3, Zenon DEF HoldsChain, ChainData

\* The quote that a TD's platform signs is a file of cells, begins with its
\* version and its architecture, and VerifyInner accepts it.
SignedVerifies(td, f, day) ==
  LET b == SignedQuote(td.platform, f, Body(td, f))
  IN  /\ b \in Seq(QuoteCells) /\ Len(b) >= 1 /\ Num(b[1]) \in {4, 5} /\ Num(b[2]) = 129
      /\ VerifyInner(b, {IntelRoot}, day) =
           [ok |-> TRUE, measurements |-> <<N(td.mr), N(td.data)>>]

\* A quote of a TD whose chain leads to the pinned root passes every check.
LEMMA SignedQuoteVerified ==
  ASSUME NEW td \in TdHosts, NEW f \in WrittenForms, NEW day, f.layout # "behind",
         td.platform.root = IntelRoot, CertifiedOn(td.platform.certs, day)
  PROVE  SignedVerifies(td, f, day)
<1> DEFINE p == td.platform
<1>1. PICK m \in Seq(QuoteCells) : m = Body(td, f)
  <2>1. Body(td, f) \in Seq(QuoteCells)
    BY BodyIs, NumberCellsAreCells, Wider
  <2> QED  BY <2>1
<1>2. PICK qe \in Seq(QuoteCells) :
         /\ qe = QeReport(p, Auth(f)) /\ Len(qe) = 2
         /\ qe[2] = Sha256(<<N(p.ak)>> \o Auth(f))
  <2>1. QeReport(p, Auth(f)) \in Seq(QuoteCells)
    BY QeIs
  <2>2. Len(QeReport(p, Auth(f))) = 2 /\ QeReport(p, Auth(f))[2] = Sha256(<<N(p.ak)>> \o Auth(f))
    BY DEF QeReport
  <2> QED  BY <2>1, <2>2, Zenon
<1>3. PICK auth \in Seq(QuoteCells) : auth = Auth(f)
  <2>1. Auth(f) \in Seq(QuoteCells)
    BY AuthIs, NumberCellsAreCells, Wider
  <2> QED  BY <2>1
<1>4. PICK data \in Seq(QuoteCells) : data = ChainData(p, f)
  BY ChainDataIs
<1>5. PICK certs : /\ certs = Chain(p, PckDer(p, f.auth = 1, 130 * f.envelope))
                   /\ HoldsChain(data, certs)
                   /\ pck_chain(certs, {IntelRoot}, day) /\ CertKey(certs[LeafAt(certs)]) = p.pck
  <2>1. HoldsChain(ChainData(p, f), Chain(p, PckDer(p, f.auth = 1, 130 * f.envelope)))
    BY ChainDataBack
  <2>2. PICK certs : certs = Chain(p, PckDer(p, f.auth = 1, 130 * f.envelope))
    OBVIOUS
  <2>3. pck_chain(certs, {IntelRoot}, day) /\ CertKey(certs[LeafAt(certs)]) = p.pck
    BY <2>2, ChainLeads
  <2> QED  BY <1>4, <2>1, <2>2, <2>3, Zenon
<1>6. PICK sig \in QuoteCells, qesig \in QuoteCells, key \in QuoteCells :
         /\ sig = Sign(p.ak, m) /\ qesig = Sign(p.pck, qe) /\ key = N(p.ak) /\ Num(key) = p.ak
  <2>1. p.ak \in Nat
    BY HostIs DEF Numbers
  <2>2. IsQuoteSignature(Sign(p.ak, m))
    BY <1>1, Zenon DEF IsQuoteSignature
  <2>3. IsQeSignature(Sign(p.pck, qe))
    BY <1>2, Zenon DEF IsQeSignature
  <2>4. Sign(p.ak, m) \in Seq(Nat) /\ Sign(p.pck, qe) \in Seq(Nat)
    <3>1. p.pck \in Nat /\ m \in Seq(Seq(Nat)) /\ qe \in Seq(Seq(Nat))
      BY HostIs, CellsAreSeqs DEF Numbers
    <3> QED  BY <2>1, <3>1, SignIs
  <2>5. Sign(p.ak, m) \in QuoteCells /\ Sign(p.pck, qe) \in QuoteCells
    BY <2>2, <2>3, <2>4 DEF QuoteCells
  <2>6. N(p.ak) \in QuoteCells /\ Num(N(p.ak)) = p.ak
    BY <2>1, Field
  <2> QED  BY <2>5, <2>6, Zenon
<1>7. PICK aux \in Seq(QuoteCells) :
         /\ aux = SigAux(p, qe, auth, data)
         /\ parse_ecdsa_sig_aux(aux) = AuxOf(qe, qesig, auth, certs)
  <2>1. PICK aux : aux = qe \o <<qesig>> \o Sized(auth) \o <<N(PCK_CERT_CHAIN)>> \o Sized(data)
    OBVIOUS
  <2>2. aux \in Seq(QuoteCells) /\ parse_ecdsa_sig_aux(aux) = AuxOf(qe, qesig, auth, certs)
    <3>1. HoldsAux(qe \o <<qesig>> \o Sized(auth) \o <<N(PCK_CERT_CHAIN)>> \o Sized(data),
                   AuxOf(qe, qesig, auth, certs))
      BY <1>2, <1>5, AuxBack
    <3> QED  BY <2>1, <3>1, Zenon DEF HoldsAux
  <2>3. aux = SigAux(p, qe, auth, data)
    BY <1>6, <2>1, Zenon DEF SigAux
  <2> QED  BY <2>2, <2>3, Zenon
<1>8. PICK s \in Seq(QuoteCells) :
         /\ s = SignatureData(p, m, aux)
         /\ parse_quote_signature(s) = [present |-> TRUE, signature |-> sig, key |-> key,
                                        certification |-> AuxOf(qe, qesig, auth, certs)]
  <2>1. parse_ecdsa_sig_aux(aux).ok
    BY <1>7 DEF AuxOf
  <2>2. PICK s : s = <<sig, key, N(ECDSA_SIG_AUX_DATA)>> \o Sized(aux)
    OBVIOUS
  <2>3. /\ s \in Seq(QuoteCells)
        /\ parse_quote_signature(s) = [present |-> TRUE, signature |-> sig, key |-> key,
                                       certification |-> parse_ecdsa_sig_aux(aux)]
    BY <2>1, <2>2, SignatureBack
  <2>4. s = SignatureData(p, m, aux)
    BY <1>6, <2>2, Zenon DEF SignatureData
  <2> QED  BY <1>7, <2>3, <2>4, Zenon
<1>9. PICK b : b = SignedQuote(p, f, Body(td, f))
  OBVIOUS
<1>10. b = Body(td, f) \o Sized(s)
  BY <1>1, <1>2, <1>3, <1>4, <1>7, <1>8, <1>9, Zenon DEF SignedQuote
<1>11. PICK q :
         /\ q = parse_td_quote(b)
         /\ b \in Seq(QuoteCells) /\ Len(b) >= 5 /\ Num(b[1]) \in {4, 5} /\ Num(b[2]) = 129
         /\ q.ok /\ q.type \in DOMAIN BodySize
         /\ SignedLength(q) <= Len(b) /\ SubSeq(b, 1, SignedLength(q)) = m
         /\ q.signature = parse_quote_signature(s)
  <2>1. HoldsQuote(Body(td, f) \o Sized(s), td, f, s)
    BY QuoteBack
  <2> QED  BY <1>1, <1>10, <2>1, Zenon DEF HoldsQuote
<1>12. PICK g : g = q.signature
  OBVIOUS
<1>13. PICK c : c = g.certification
  OBVIOUS
<1>14. g.present /\ g.signature = sig /\ g.key = key /\ c = AuxOf(qe, qesig, auth, certs)
  <2>1. g = [present |-> TRUE, signature |-> sig, key |-> key,
             certification |-> AuxOf(qe, qesig, auth, certs)]
    BY <1>8, <1>11, <1>12, Zenon
  <2>2. PICK a : a = AuxOf(qe, qesig, auth, certs)
    OBVIOUS
  <2>3. g = [present |-> TRUE, signature |-> sig, key |-> key, certification |-> a]
    BY <2>1, <2>2, Zenon
  <2>4. g.present /\ g.signature = sig /\ g.key = key /\ g.certification = a
    BY <2>3
  <2> QED  BY <1>13, <2>2, <2>4, Zenon
<1>15. c.aux /\ c.qe = qe /\ c.qesig = qesig /\ c.auth = auth /\ c.pck /\ c.chain = certs
  BY <1>14 DEF AuxOf
<1>16. bound(g)
  <2>1. qe[2] = Sha256(<<key>> \o auth)
    BY <1>2, <1>3, <1>6, Zenon
  <2> QED  BY <1>13, <1>14, <1>15, <2>1, Zenon DEF bound, SGX_REPORT_BODY_SIZE
<1>17. SubSeq(q.body, 1, TD_QUOTE_BODY_V1_0_SIZE) = <<N(td.mr), N(td.data)>>
  <2>1. SubSeq(parse_td_quote(b).body, 1, 2) = <<N(td.mr), N(td.data)>>
    <3>1. /\ parse_td_quote(b).ok /\ parse_td_quote(b).type \in DOMAIN BodySize
          /\ SignedLength(parse_td_quote(b)) <= Len(b)
          /\ SubSeq(b, 1, SignedLength(parse_td_quote(b))) = Body(td, f)
      BY <1>1, <1>11, Zenon
    <3>2. b \in Seq(QuoteCells)
      BY <1>11, Zenon
    <3> QED  BY <3>1, <3>2, MeasuredRead
  <2> QED  BY <1>11, <2>1, Zenon DEF TD_QUOTE_BODY_V1_0_SIZE
<1>18. g.signature = Sign(Num(g.key), SubSeq(b, 1, SignedLength(q)))
  BY <1>6, <1>11, <1>14, Zenon
<1>19. c.qesig = Sign(CertKey(c.chain[LeafAt(c.chain)]), c.qe)
  BY <1>5, <1>6, <1>15, Zenon
<1>20. Len(b) >= SignedLength(q) /\ Len(b) >= 1
  <2>1. \A x, y \in Int : x <= y => y >= x
    OBVIOUS
  <2>2. Len(b) \in Nat
    BY <1>11
  <2> QED  BY <1>11, <2>2
<1>21. VerifyParsed(b, q, {IntelRoot}, day) = [ok |-> TRUE, measurements |-> <<N(td.mr), N(td.data)>>]
  <2>1. pck_chain(c.chain, {IntelRoot}, day)
    BY <1>5, <1>15, Zenon
  <2> QED  BY <1>11, <1>12, <1>13, <1>14, <1>15, <1>16, <1>17, <1>18, <1>19, <1>20, <2>1, Zenon
           DEF VerifyParsed, SignedLength
<1>22. VerifyInner(b, {IntelRoot}, day) = [ok |-> TRUE, measurements |-> <<N(td.mr), N(td.data)>>]
  BY <1>11, <1>21, Zenon DEF VerifyInner
<1> QED  BY <1>9, <1>11, <1>20, <1>22, Zenon DEF SignedVerifies

\* So does the whole file, in an envelope or without one: it is accepted with the
\* measurement and the report data of that TD.
LEMMA QuoteVerified ==
  ASSUME NEW td \in TdHosts, NEW f \in WrittenForms, NEW day, f.layout # "behind",
         td.platform.root = IntelRoot, CertifiedOn(td.platform.certs, day)
  PROVE  verify_td_quote(Quote(td, f), {IntelRoot}, day) =
           [ok |-> TRUE, measurements |-> <<N(td.mr), N(td.data)>>]
<1>1. PICK b \in Seq(QuoteCells) :
         /\ b = SignedQuote(td.platform, f, Body(td, f))
         /\ Len(b) >= 1 /\ Num(b[1]) \in {4, 5} /\ Num(b[2]) = 129
         /\ VerifyInner(b, {IntelRoot}, day) = [ok |-> TRUE, measurements |-> <<N(td.mr), N(td.data)>>]
  <2>1. SignedVerifies(td, f, day)
    BY SignedQuoteVerified
  <2> QED  BY <2>1, Zenon DEF SignedVerifies
<1>2. CASE f.envelope = 0
  <2>1. Quote(td, f) = b
    BY <1>1, <1>2, Zenon DEF Quote, Wrapped
  <2>2. strip_qgs_envelope(b) = b
    BY <1>1, NotEnveloped
  <2> QED  BY <1>1, <2>1, <2>2, Zenon DEF verify_td_quote
<1>3. CASE f.envelope # 0
  <2>1. PICK id \in Seq(QuoteCells) : id = [i \in 1 .. (f.envelope - 1) |-> N(50)]
    <3>1. PICK k \in Nat : k = f.envelope - 1
      BY <1>3, FormIs
    <3>2. PICK fifty \in QuoteCells : fifty = N(50)
      BY Field
    <3>3. [i \in 1 .. k |-> fifty] \in Seq(QuoteCells)
      OBVIOUS
    <3> QED  BY <3>1, <3>2, <3>3, Zenon
  <2>2. Quote(td, f) = Enclosed(b, id)
    BY <1>1, <1>3, <2>1, Zenon DEF Quote, Wrapped
  <2>3. strip_qgs_envelope(Enclosed(b, id)) = b
    BY <1>1, EnclosedBack, SMTT(30)
  <2> QED  BY <1>1, <2>2, <2>3, Zenon DEF verify_td_quote
<1> QED  BY <1>2, <1>3

-----------------------------------------------------------------------------
(* Verifying what was written: SEV-SNP reports.                            *)

\* A field that is written twice holds what was written last.
LEMMA SignedAgain ==
  ASSUME NEW r, NEW s
  PROVE  \A z : [[r EXCEPT !.signature = s] EXCEPT !.signature = z] = [r EXCEPT !.signature = z]
OBVIOUS

\* A report as the host writes it.
LEMMA ReportReads ==
  ASSUME NEW h, NEW f
  PROVE  LET r == Report(h, f)
         IN  /\ r.size = 1184 /\ r.version = f.version /\ r.signature_algo = 1 /\ r.vmpl = 0
             /\ r.flags.reserved = 0 /\ r.flags.signing_key = 0 /\ ~ r.flags.mask_chip_key
             /\ r.policy.must_be_one /\ r.policy.reserved = 0
             /\ r.cpuid = (IF f.version >= 3 THEN R!cpuid[h.generation] \o <<1>> ELSE <<0, 0, 0>>)
             /\ r.mitigation = (IF f.version = 5 THEN <<63>> ELSE <<0>>)
             /\ r.reserved = 0 /\ r.padding = 0
             /\ r.measurement = 60 + h.chip /\ r.report_data = 70 + h.chip
             /\ r.reported_tcb = Tcb(h) /\ r.chip_id = ChipId(h)
             /\ r.signature = R!SnpSign(Vcek(h), r)
<1>1. /\ Report(h, f).size = 1184 /\ Report(h, f).version = f.version
      /\ Report(h, f).signature_algo = 1 /\ Report(h, f).vmpl = 0
      /\ Report(h, f).flags = [reserved |-> 0, signing_key |-> 0, mask_chip_key |-> FALSE]
      /\ Report(h, f).policy = [must_be_one |-> TRUE, reserved |-> 0]
  BY DEF Report, R!SNP_REPORT_SIZE
<1>2. /\ Report(h, f).cpuid = (IF f.version >= 3 THEN R!cpuid[h.generation] \o <<1>> ELSE <<0, 0, 0>>)
      /\ Report(h, f).mitigation = (IF f.version = 5 THEN <<63>> ELSE <<0>>)
      /\ Report(h, f).reserved = 0 /\ Report(h, f).padding = 0
  BY DEF Report
<1>3. /\ Report(h, f).measurement = 60 + h.chip /\ Report(h, f).report_data = 70 + h.chip
      /\ Report(h, f).reported_tcb = Tcb(h) /\ Report(h, f).chip_id = ChipId(h)
  BY DEF Report
<1> DEFINE r == [size |-> R!SNP_REPORT_SIZE, version |-> f.version, signature_algo |-> 1, vmpl |-> 0,
                 flags |-> [reserved |-> 0, signing_key |-> 0, mask_chip_key |-> FALSE],
                 policy |-> [must_be_one |-> TRUE, reserved |-> 0],
                 cpuid |-> IF f.version >= 3 THEN R!cpuid[h.generation] \o <<1>> ELSE <<0, 0, 0>>,
                 mitigation |-> IF f.version = 5 THEN <<63>> ELSE <<0>>,
                 reserved |-> 0, padding |-> 0,
                 measurement |-> 60 + h.chip, report_data |-> 70 + h.chip,
                 reported_tcb |-> Tcb(h), chip_id |-> ChipId(h),
                 signature |-> [key |-> 0, of |-> 0]]
<1>4. Report(h, f) = [r EXCEPT !.signature = R!SnpSign(Vcek(h), r)]
  BY Zenon DEF Report
<1>5. "signature" \in DOMAIN r
  OBVIOUS
<1> HIDE DEF r
<1>6. PICK s, w : s = R!SnpSign(Vcek(h), r) /\ w = [r EXCEPT !.signature = s]
  OBVIOUS
<1>7. R!Signed(w) = R!Signed(r)
  <2>1. \A z : [[r EXCEPT !.signature = s] EXCEPT !.signature = z] = [r EXCEPT !.signature = z]
    BY SignedAgain
  <2> QED  BY <1>6, <2>1, Zenon DEF R!Signed
<1>8. w.signature = s
  BY <1>5, <1>6
<1>9. Report(h, f).signature = R!SnpSign(Vcek(h), Report(h, f))
  BY <1>4, <1>6, <1>7, <1>8, Zenon DEF R!SnpSign
<1> QED  BY <1>1, <1>2, <1>3, <1>9

\* The processor family and model of a generation, with a stepping behind them.
LEMMA CpuidIs ==
  ASSUME NEW g \in R!Generations
  PROVE  LET c == R!cpuid[g] \o <<1>>
         IN  SubSeq(c, 1, 2) = R!cpuid[g] /\ c[3] = 1
<1>1. PICK p \in Seq(Nat) : p = R!cpuid[g] /\ Len(p) = 2
  <2>1. R!cpuid[g] = <<25, 1>> \/ R!cpuid[g] = <<25, 17>> \/ R!cpuid[g] = <<26, 2>>
    BY DEF R!cpuid, R!Generations
  <2>2. \A x, y \in Nat : <<x, y>> \in Seq(Nat) /\ Len(<<x, y>>) = 2
    OBVIOUS
  <2> QED  BY <2>1, <2>2
<1>2. PICK one \in Seq(Nat) : one = <<1>> /\ Len(one) = 1 /\ one[1] = 1
  <2>1. <<1>> \in Seq(Nat) /\ Len(<<1>>) = 1 /\ <<1>>[1] = 1
    OBVIOUS
  <2> QED  BY <2>1, Zenon
<1>3. SubSeq(p \o one, 1, Len(p)) = p
  BY RestBack
<1>4. PICK c : c = p \o one
  OBVIOUS
<1>5. \A i \in 1 .. Len(p) + Len(one) : c[i] = IF i <= Len(p) THEN p[i] ELSE one[i - Len(p)]
  BY <1>4, ConcatProperties
<1>6. c[3] = one[1]
  <2>1. 3 \in 1 .. 2 + 1 /\ ~ (3 <= 2) /\ 3 - 2 = 1
    OBVIOUS
  <2>2. \A i \in 1 .. 2 + 1 : c[i] = IF i <= 2 THEN p[i] ELSE one[i - 2]
    BY <1>1, <1>2, <1>5, Zenon
  <2> QED  BY <2>1, <2>2
<1> QED  BY <1>1, <1>2, <1>3, <1>4, <1>6, Zenon

\* The identifier of a chip: what the certificate holds of it, and that the rest is
\* zero.
LEMMA ChipIs ==
  ASSUME NEW h \in SnpHosts
  PROVE  LET chip == ChipId(h)
             len == R!HwidLen(h.generation)
         IN  /\ ~ R!Zero(chip) /\ Len(SubSeq(chip, 1, len)) = len
             /\ R!Zero(SubSeq(chip, len + 1, Len(chip)))
<1>1. PICK chip : chip = ChipId(h)
  OBVIOUS
<1>2. PICK len \in {8, 12} : len = R!HwidLen(h.generation)
  BY DEF R!HwidLen, R!TURIN_HWID_LEN, R!CHIP_ID_LEN
<1>3. chip = [i \in 1 .. 12 |-> IF i <= len THEN h.chip ELSE 0]
  BY <1>1, <1>2, Zenon DEF ChipId, R!CHIP_ID_LEN
<1>4. chip \in Seq({h.chip, 0}) /\ Len(chip) = 12 /\ DOMAIN chip = 1 .. 12
      /\ \A i \in 1 .. 12 : chip[i] = IF i <= len THEN h.chip ELSE 0
  BY <1>3
<1>5. ~ R!Zero(chip)
  <2>1. 1 \in 1 .. 12 /\ 1 <= len
    BY <1>2
  <2>2. chip[1] = h.chip /\ h.chip # 0
    BY <1>4, <2>1, SnpAssumption DEF SnpAssumption
  <2> QED  BY <1>4, <2>1, <2>2 DEF R!Zero
<1>6. Len(SubSeq(chip, 1, len)) = len
  <2>1. len \in 0 .. Len(chip)
    BY <1>2, <1>4
  <2> QED  BY <1>4, <2>1, Firsts
<1>7. R!Zero(SubSeq(chip, len + 1, Len(chip)))
  <2>1. PICK a \in Nat, e \in Nat : a = len + 1 /\ e = 12 /\ 1 <= a /\ e <= 12 /\ a <= e + 1
    BY <1>2
  <2>2. PICK t : t = SubSeq(chip, a, e)
    OBVIOUS
  <2>3. t \in Seq({h.chip, 0}) /\ Len(t) = e + 1 - a /\ \A i \in 1 .. (e + 1 - a) : t[i] = chip[a + i - 1]
    BY <1>4, <2>1, <2>2, SliceIs
  <2>4. \A i \in 1 .. (e + 1 - a) : a + i - 1 \in 1 .. 12 /\ ~ (a + i - 1 <= len)
    BY <1>2, <2>1
  <2>5. \A i \in DOMAIN t : t[i] = 0
    <3>1. DOMAIN t = 1 .. (e + 1 - a)
      BY <2>3
    <3> QED  BY <1>4, <2>3, <2>4, <3>1
  <2> QED  BY <1>4, <2>1, <2>2, <2>5 DEF R!Zero
<1> QED  BY <1>1, <1>2, <1>5, <1>6, <1>7

\* A product name that is written is one of the generation.
LEMMA ProductIs ==
  ASSUME NEW g \in R!Generations, NEW n \in Nat
  PROVE  LET names == SetToSeq(R!ProductNames[g])
         IN  names[1 + (n % Len(names))] \in R!ProductNames[g]
<1>1. PICK S : S = R!ProductNames[g]
  OBVIOUS
<1>2. IsFiniteSet(S) /\ S # {}
  <2>1. \/ S = {"Milan-B0", "Milan-B1"}
        \/ S = {"Genoa", "Genoa-B0", "Genoa-B1", "Genoa-B2"}
        \/ S = {"Turin", "Turin-B0", "Turin-B1"}
    BY <1>1 DEF R!ProductNames, R!Generations
  <2>2. \A a, b, c, d : IsFiniteSet({a, b, c, d})
    <3>1. TAKE a, b, c, d
    <3>2. IsFiniteSet({a})
      BY FS_Singleton
    <3>3. IsFiniteSet({a} \cup {b})
      BY <3>2, FS_AddElement
    <3>4. IsFiniteSet(({a} \cup {b}) \cup {c})
      BY <3>3, FS_AddElement
    <3>5. IsFiniteSet((({a} \cup {b}) \cup {c}) \cup {d})
      BY <3>4, FS_AddElement
    <3>6. (({a} \cup {b}) \cup {c}) \cup {d} = {a, b, c, d}
      OBVIOUS
    <3> QED  BY <3>5, <3>6
  <2>3. \/ S = {"Milan-B0", "Milan-B0", "Milan-B0", "Milan-B1"}
        \/ S = {"Genoa", "Genoa-B0", "Genoa-B1", "Genoa-B2"}
        \/ S = {"Turin", "Turin", "Turin-B0", "Turin-B1"}
    BY <2>1
  <2>4. S # {}
    BY <2>1
  <2>5. PICK a, b, c, d : S = {a, b, c, d}
    <3>1. CASE S = {"Milan-B0", "Milan-B0", "Milan-B0", "Milan-B1"}
      BY <3>1, Zenon
    <3>2. CASE S = {"Genoa", "Genoa-B0", "Genoa-B1", "Genoa-B2"}
      BY <3>2, Zenon
    <3>3. CASE S = {"Turin", "Turin", "Turin-B0", "Turin-B1"}
      BY <3>3, Zenon
    <3> QED  BY <2>3, <3>1, <3>2, <3>3, Zenon
  <2>6. IsFiniteSet({a, b, c, d})
    BY <2>2, Zenon
  <2> QED  BY <2>4, <2>5, <2>6, Zenon
<1>3. PICK k \in Nat : k = Cardinality(S) /\ k # 0
  BY <1>2, FS_EmptySet, FS_CardinalityType
<1>4. \E f \in [1 .. k -> S] : IsInjective(f)
  <2>1. ExistsBijection(1 .. k, S)
    BY <1>2, <1>3, FS_CardinalityType
  <2> QED  BY <2>1 DEF ExistsBijection, Bijection, Injection, IsInjective
<1>5. PICK names : names = SetToSeq(S)
  OBVIOUS
<1>6. names \in [1 .. k -> S]
  BY <1>3, <1>4, <1>5 DEF SetToSeq
<1>7. Len(names) = k
  BY <1>6
<1>8. 1 + (n % k) \in 1 .. k
  BY <1>3
<1>9. names[1 + (n % k)] \in S
  BY <1>6, <1>8
<1> QED  BY <1>1, <1>5, <1>7, <1>9

\* Where the extensions of a VCEK are.
Places == [OTHER |-> 1, STRUCT_VERSION |-> 2, PRODUCT_NAME |-> 3, BOOT |-> 4, TEE |-> 5,
           SNP |-> 6, MICROCODE |-> 7, SPL5 |-> 8, HWID |-> 9, FMC |-> 10]
Placed(ext) == \A i \in DOMAIN ext : Places[ext[i].oid] = i

\* An extension whose identifier is at its place alone is found by it.
LEMMA PlacedValue ==
  ASSUME NEW ext, Placed(ext), NEW k \in DOMAIN ext, NEW oid, ext[k].oid = oid
  PROVE  R!Value(ext, oid) = ext[k].value /\ oid \in R!Oids(ext)
<1>1. \A i \in DOMAIN ext : ext[i].oid = oid => i = k
  BY DEF Placed
<1>2. (CHOOSE i \in DOMAIN ext : ext[i].oid = oid) = k
  BY <1>1
<1>3. R!Value(ext, oid) = ext[k].value
  BY <1>2, Zenon DEF R!Value
<1>4. oid \in R!Oids(ext)
  BY DEF R!Oids
<1> QED  BY <1>3, <1>4

\* The extensions of a VCEK, and what each says.
LEMMA ExtensionsAre ==
  ASSUME NEW h \in SnpHosts, NEW f \in SnpForms
  PROVE  LET ext   == VcekExtensions(h, f)
             turin == h.generation = "Turin"
             hwid  == SubSeq(ChipId(h), 1, R!HwidLen(h.generation))
             names == SetToSeq(R!ProductNames[h.generation])
         IN  /\ DOMAIN ext = (IF turin THEN 1 .. 10 ELSE 1 .. 9)
             /\ ext[1] = Ext("OTHER", <<0>>)
             /\ ext[2] = Ext("STRUCT_VERSION", R!DerInt(IF turin THEN 1 ELSE 0))
             /\ ext[3] = Ext("PRODUCT_NAME", names[1 + (f.product % Len(names))])
             /\ ext[4] = Ext("BOOT", R!DerInt(Tcb(h)[(IF turin THEN 1 ELSE 0) + 1]))
             /\ ext[5] = Ext("TEE", R!DerInt(Tcb(h)[(IF turin THEN 2 ELSE 1) + 1]))
             /\ ext[6] = Ext("SNP", R!DerInt(h.snp))
             /\ ext[7] = Ext("MICROCODE", R!DerInt(h.microcode))
             /\ ext[8] = Ext("SPL5", R!DerInt(0))
             /\ ext[9] = Ext("HWID", IF f.wrapped THEN <<4, Len(hwid)>> \o hwid ELSE hwid)
             /\ turin => ext[10] = Ext("FMC", R!DerInt(Tcb(h)[0 + 1]))
<1> DEFINE turin == h.generation = "Turin"
           hwid  == SubSeq(ChipId(h), 1, R!HwidLen(h.generation))
           names == SetToSeq(R!ProductNames[h.generation])
<1>1. PICK a, b, c, d, e, g, j, k, l, m :
         /\ a = Ext("OTHER", <<0>>)
         /\ b = Ext("STRUCT_VERSION", R!DerInt(IF turin THEN 1 ELSE 0))
         /\ c = Ext("PRODUCT_NAME", names[1 + (f.product % Len(names))])
         /\ d = Ext("BOOT", R!DerInt(Tcb(h)[(IF turin THEN 1 ELSE 0) + 1]))
         /\ e = Ext("TEE", R!DerInt(Tcb(h)[(IF turin THEN 2 ELSE 1) + 1]))
         /\ g = Ext("SNP", R!DerInt(h.snp))
         /\ j = Ext("MICROCODE", R!DerInt(h.microcode))
         /\ k = Ext("SPL5", R!DerInt(0))
         /\ l = Ext("HWID", IF f.wrapped THEN <<4, Len(hwid)>> \o hwid ELSE hwid)
         /\ m = Ext("FMC", R!DerInt(Tcb(h)[0 + 1]))
  BY Zenon
<1>2. VcekExtensions(h, f) = <<a, b, c, d, e, g, j, k, l>> \o (IF turin THEN <<m>> ELSE <<>>)
  BY <1>1, Zenon DEF VcekExtensions
<1>3. PICK S : S = {a, b, c, d, e, g, j, k, l, m}
  OBVIOUS
<1>4. PICK nine \in Seq(S) :
         /\ nine = <<a, b, c, d, e, g, j, k, l>> /\ Len(nine) = 9
         /\ nine[1] = a /\ nine[2] = b /\ nine[3] = c /\ nine[4] = d /\ nine[5] = e
         /\ nine[6] = g /\ nine[7] = j /\ nine[8] = k /\ nine[9] = l
  <2>1. PICK nine : nine = <<a, b, c, d, e, g, j, k, l>>
    OBVIOUS
  <2>2. /\ Len(nine) = 9
        /\ nine[1] = a /\ nine[2] = b /\ nine[3] = c /\ nine[4] = d /\ nine[5] = e
        /\ nine[6] = g /\ nine[7] = j /\ nine[8] = k /\ nine[9] = l
    BY <2>1
  <2>3. nine \in Seq(S)
    BY <1>3, <2>1
  <2> QED  BY <2>1, <2>2, <2>3, Zenon
<1>5. PICK ext : ext = VcekExtensions(h, f)
  OBVIOUS
<1>6. /\ DOMAIN ext = (IF turin THEN 1 .. 10 ELSE 1 .. 9)
      /\ \A i \in 1 .. 9 : ext[i] = nine[i]
      /\ turin => ext[10] = m
  <2>1. CASE turin
    <3>1. PICK one \in Seq(S) : one = <<m>> /\ Len(one) = 1 /\ one[1] = m
      <4>1. m \in S
        BY <1>3
      <4>2. <<m>> \in Seq(S) /\ Len(<<m>>) = 1 /\ <<m>>[1] = m
        BY <4>1
      <4> QED  BY <4>2, Zenon
    <3>2. ext = nine \o one
      BY <1>2, <1>4, <1>5, <2>1, <3>1, Zenon
    <3>3. /\ ext \in Seq(S) /\ Len(ext) = Len(nine) + Len(one)
          /\ \A i \in 1 .. Len(nine) + Len(one) :
                ext[i] = IF i <= Len(nine) THEN nine[i] ELSE one[i - Len(nine)]
      BY <3>2, ConcatProperties
    <3>4. /\ ext \in Seq(S) /\ Len(ext) = 9 + 1
          /\ \A i \in 1 .. 9 + 1 : ext[i] = IF i <= 9 THEN nine[i] ELSE one[i - 9]
      BY <1>4, <3>1, <3>3, Zenon
    <3>5. 9 + 1 = 10 /\ 10 \in 1 .. 9 + 1 /\ ~ (10 <= 9) /\ 10 - 9 = 1
          /\ \A i \in 1 .. 9 : i \in 1 .. 9 + 1 /\ i <= 9
      OBVIOUS
    <3>6. DOMAIN ext = 1 .. 10
      BY <3>4, <3>5
    <3>7. \A i \in 1 .. 9 : ext[i] = nine[i]
      BY <3>4, <3>5
    <3>8. ext[10] = one[1]
      BY <3>4, <3>5
    <3> QED  BY <2>1, <3>1, <3>6, <3>7, <3>8, Zenon
  <2>2. CASE ~ turin
    <3>1. ext = nine \o <<>>
      BY <1>2, <1>4, <1>5, <2>2, Zenon
    <3>2. ext = nine
      BY <3>1, NoneBehind
    <3>3. DOMAIN nine = 1 .. 9
      BY <1>4
    <3> QED  BY <2>2, <3>2, <3>3, Zenon
  <2> QED  BY <2>1, <2>2
<1>7. 1 \in 1 .. 9 /\ 2 \in 1 .. 9 /\ 3 \in 1 .. 9 /\ 4 \in 1 .. 9 /\ 5 \in 1 .. 9 /\ 6 \in 1 .. 9
      /\ 7 \in 1 .. 9 /\ 8 \in 1 .. 9 /\ 9 \in 1 .. 9
  OBVIOUS
<1>8. /\ ext[1] = a /\ ext[2] = b /\ ext[3] = c /\ ext[4] = d /\ ext[5] = e /\ ext[6] = g
      /\ ext[7] = j /\ ext[8] = k /\ ext[9] = l
  BY <1>4, <1>6, <1>7, Zenon
<1> QED  BY <1>1, <1>5, <1>6, <1>8, Zenon

\* Where a TCB has its components.
LEMMA TcbIs ==
  ASSUME NEW h \in SnpHosts
  PROVE  LET at == R!Offsets(h.generation)
         IN  /\ at.boot = (IF h.generation = "Turin" THEN 1 ELSE 0)
             /\ at.tee = (IF h.generation = "Turin" THEN 2 ELSE 1)
             /\ Tcb(h)[at.snp + 1] = h.snp /\ Tcb(h)[7 + 1] = h.microcode
             /\ \A i \in at.reserved : Tcb(h)[i + 1] = 0
<1>1. CASE h.generation = "Turin"
  <2>1. PICK at : at = R!Offsets(h.generation)
    OBVIOUS
  <2>2. at.boot = 1 /\ at.tee = 2 /\ at.snp = 3 /\ at.reserved = 4 .. 6
    BY <1>1, <2>1 DEF R!Offsets
  <2>3. PICK t : t = <<1, 2, 0, h.snp, 0, 0, 0, h.microcode>>
    OBVIOUS
  <2>4. t[4] = h.snp /\ t[8] = h.microcode /\ t[5] = 0 /\ t[6] = 0 /\ t[7] = 0
    BY <2>3
  <2>5. t = Tcb(h)
    BY <1>1, <2>3, Zenon DEF Tcb
  <2>6. 3 + 1 = 4 /\ 7 + 1 = 8 /\ \A i \in 4 .. 6 : i + 1 = 5 \/ i + 1 = 6 \/ i + 1 = 7
    OBVIOUS
  <2>7. \A i \in 4 .. 6 : t[i + 1] = 0
    BY <2>4, <2>6, Zenon
  <2>8. t[at.snp + 1] = h.snp /\ t[7 + 1] = h.microcode
    BY <2>2, <2>4, <2>6, Zenon
  <2> QED  BY <1>1, <2>1, <2>2, <2>5, <2>7, <2>8, Zenon
<1>2. CASE h.generation # "Turin"
  <2>1. PICK at : at = R!Offsets(h.generation)
    OBVIOUS
  <2>2. at.boot = 0 /\ at.tee = 1 /\ at.snp = 6 /\ at.reserved = 2 .. 5
    BY <1>2, <2>1 DEF R!Offsets
  <2>3. PICK t : t = <<2, 0, 0, 0, 0, 0, h.snp, h.microcode>>
    OBVIOUS
  <2>4. t[7] = h.snp /\ t[8] = h.microcode /\ t[3] = 0 /\ t[4] = 0 /\ t[5] = 0 /\ t[6] = 0
    BY <2>3
  <2>5. t = Tcb(h)
    BY <1>2, <2>3, Zenon DEF Tcb
  <2>6. 6 + 1 = 7 /\ 7 + 1 = 8
        /\ \A i \in 2 .. 5 : i + 1 = 3 \/ i + 1 = 4 \/ i + 1 = 5 \/ i + 1 = 6
    OBVIOUS
  <2>7. \A i \in 2 .. 5 : t[i + 1] = 0
    BY <2>4, <2>6, Zenon
  <2>8. t[at.snp + 1] = h.snp /\ t[7 + 1] = h.microcode
    BY <2>2, <2>4, <2>6, Zenon
  <2> QED  BY <1>2, <2>1, <2>2, <2>5, <2>7, <2>8, Zenon
<1> QED  BY <1>1, <1>2

\* No extension occurs twice.
OnceEach(ext) == \A i, j \in DOMAIN ext : ext[i].oid = ext[j].oid => i = j

\* The extensions of a VCEK agree with every report of its host.
LEMMA ExtensionsVerified ==
  ASSUME NEW h \in SnpHosts, NEW f \in SnpForms
  PROVE  /\ R!validate_extensions(VcekExtensions(h, f), Report(h, f), h.generation)
         /\ "PRODUCT_NAME" \in R!Oids(VcekExtensions(h, f))
         /\ R!Value(VcekExtensions(h, f), "PRODUCT_NAME") \in R!ProductNames[h.generation]
         /\ OnceEach(VcekExtensions(h, f))
<1> DEFINE turin == h.generation = "Turin"
           hwid  == SubSeq(ChipId(h), 1, R!HwidLen(h.generation))
           names == SetToSeq(R!ProductNames[h.generation])
<1>1. PICK ext, n :
         /\ ext = VcekExtensions(h, f)
         /\ n = (IF turin THEN 10 ELSE 9) /\ DOMAIN ext = 1 .. n
         /\ ext[1] = Ext("OTHER", <<0>>)
         /\ ext[2] = Ext("STRUCT_VERSION", R!DerInt(IF turin THEN 1 ELSE 0))
         /\ ext[3] = Ext("PRODUCT_NAME", names[1 + (f.product % Len(names))])
         /\ ext[4] = Ext("BOOT", R!DerInt(Tcb(h)[(IF turin THEN 1 ELSE 0) + 1]))
         /\ ext[5] = Ext("TEE", R!DerInt(Tcb(h)[(IF turin THEN 2 ELSE 1) + 1]))
         /\ ext[6] = Ext("SNP", R!DerInt(h.snp))
         /\ ext[7] = Ext("MICROCODE", R!DerInt(h.microcode))
         /\ ext[8] = Ext("SPL5", R!DerInt(0))
         /\ ext[9] = Ext("HWID", IF f.wrapped THEN <<4, Len(hwid)>> \o hwid ELSE hwid)
         /\ turin => ext[10] = Ext("FMC", R!DerInt(Tcb(h)[0 + 1]))
  <2>1. PICK ext : ext = VcekExtensions(h, f)
    OBVIOUS
  <2>2. PICK n : n = (IF turin THEN 10 ELSE 9)
    OBVIOUS
  <2>3. DOMAIN ext = (IF turin THEN 1 .. 10 ELSE 1 .. 9)
    BY <2>1, ExtensionsAre, Zenon
  <2>4. DOMAIN ext = 1 .. n
    BY <2>2, <2>3, Zenon
  <2> QED  BY <2>1, <2>2, <2>4, ExtensionsAre, ZenonT(60)
<1> HIDE DEF turin, hwid, names
<1>2. \A oid, value : Ext(oid, value).oid = oid /\ Ext(oid, value).value = value
  BY DEF Ext
<1>3. /\ ext[1].oid = "OTHER" /\ ext[2].oid = "STRUCT_VERSION" /\ ext[3].oid = "PRODUCT_NAME"
      /\ ext[4].oid = "BOOT" /\ ext[5].oid = "TEE" /\ ext[6].oid = "SNP"
      /\ ext[7].oid = "MICROCODE" /\ ext[8].oid = "SPL5" /\ ext[9].oid = "HWID"
      /\ turin => ext[10].oid = "FMC"
  <2>1. \A oid, e : (\E value : e = Ext(oid, value)) => e.oid = oid
    BY DEF Ext
  <2>2. ext[1].oid = "OTHER"
    <3>1. \E value : ext[1] = Ext("OTHER", value)
      BY <1>1, Zenon
    <3> QED  BY <2>1, <3>1, Zenon
  <2>3. ext[2].oid = "STRUCT_VERSION"
    <3>1. \E value : ext[2] = Ext("STRUCT_VERSION", value)
      BY <1>1, Zenon
    <3> QED  BY <2>1, <3>1, Zenon
  <2>4. ext[3].oid = "PRODUCT_NAME"
    <3>1. \E value : ext[3] = Ext("PRODUCT_NAME", value)
      BY <1>1, Zenon
    <3> QED  BY <2>1, <3>1, Zenon
  <2>5. ext[4].oid = "BOOT"
    <3>1. \E value : ext[4] = Ext("BOOT", value)
      BY <1>1, Zenon
    <3> QED  BY <2>1, <3>1, Zenon
  <2>6. ext[5].oid = "TEE"
    <3>1. \E value : ext[5] = Ext("TEE", value)
      BY <1>1, Zenon
    <3> QED  BY <2>1, <3>1, Zenon
  <2>7. ext[6].oid = "SNP"
    <3>1. \E value : ext[6] = Ext("SNP", value)
      BY <1>1, Zenon
    <3> QED  BY <2>1, <3>1, Zenon
  <2>8. ext[7].oid = "MICROCODE"
    <3>1. \E value : ext[7] = Ext("MICROCODE", value)
      BY <1>1, Zenon
    <3> QED  BY <2>1, <3>1, Zenon
  <2>9. ext[8].oid = "SPL5"
    <3>1. \E value : ext[8] = Ext("SPL5", value)
      BY <1>1, Zenon
    <3> QED  BY <2>1, <3>1, Zenon
  <2>10. ext[9].oid = "HWID"
    <3>1. \E value : ext[9] = Ext("HWID", value)
      BY <1>1, Zenon
    <3> QED  BY <2>1, <3>1, Zenon
  <2>11. turin => ext[10].oid = "FMC"
    <3>1. turin => \E value : ext[10] = Ext("FMC", value)
      BY <1>1, Zenon
    <3> QED  BY <2>1, <3>1, Zenon
  <2> QED  BY <2>2, <2>3, <2>4, <2>5, <2>6, <2>7, <2>8, <2>9, <2>10, <2>11, Zenon
<1>4. /\ \A i \in 1 .. n : \/ i = 1 \/ i = 2 \/ i = 3 \/ i = 4 \/ i = 5 \/ i = 6 \/ i = 7 \/ i = 8
                           \/ i = 9 \/ (i = 10 /\ turin)
      /\ 1 .. 9 \subseteq 1 .. n
      /\ turin => 10 \in 1 .. n
  BY <1>1
<1>5. Placed(ext)
  <2>1. /\ Places["OTHER"] = 1 /\ Places["STRUCT_VERSION"] = 2 /\ Places["PRODUCT_NAME"] = 3
        /\ Places["BOOT"] = 4 /\ Places["TEE"] = 5 /\ Places["SNP"] = 6
        /\ Places["MICROCODE"] = 7 /\ Places["SPL5"] = 8 /\ Places["HWID"] = 9
        /\ Places["FMC"] = 10
    BY DEF Places
  <2>2. \A i \in 1 .. n : Places[ext[i].oid] = i
    BY <1>3, <1>4, <2>1, ZenonT(60)
  <2>3. DOMAIN ext = 1 .. n
    BY <1>1, Zenon
  <2> QED  BY <2>2, <2>3, Zenon DEF Placed
<1>6. OnceEach(ext)
  BY <1>5 DEF Placed, OnceEach
<1>7. 1 .. 9 \subseteq DOMAIN ext /\ (turin => 10 \in DOMAIN ext)
      /\ 1 \in 1 .. 9 /\ 2 \in 1 .. 9 /\ 3 \in 1 .. 9 /\ 4 \in 1 .. 9 /\ 5 \in 1 .. 9 /\ 6 \in 1 .. 9
      /\ 7 \in 1 .. 9 /\ 8 \in 1 .. 9 /\ 9 \in 1 .. 9
  <2>1. DOMAIN ext = 1 .. n
    BY <1>1, Zenon
  <2>2. 1 .. 9 \subseteq DOMAIN ext /\ (turin => 10 \in DOMAIN ext)
    BY <1>4, <2>1, Zenon
  <2>3. 1 \in 1 .. 9 /\ 2 \in 1 .. 9 /\ 3 \in 1 .. 9 /\ 4 \in 1 .. 9 /\ 5 \in 1 .. 9 /\ 6 \in 1 .. 9
        /\ 7 \in 1 .. 9 /\ 8 \in 1 .. 9 /\ 9 \in 1 .. 9
    OBVIOUS
  <2> QED  BY <2>2, <2>3, Zenon
<1>8. ASSUME NEW i \in DOMAIN ext, NEW oid, NEW value, ext[i] = Ext(oid, value)
      PROVE  R!Value(ext, oid) = value /\ oid \in R!Oids(ext)
  <2>0. ext[i].oid = Ext(oid, value).oid /\ ext[i].value = Ext(oid, value).value
    BY <1>8, Zenon
  <2>1. ext[i].oid = oid /\ ext[i].value = value
    BY <1>2, <2>0, ZenonT(60)
  <2>2. R!Value(ext, oid) = ext[i].value /\ oid \in R!Oids(ext)
    BY <1>5, <2>1, PlacedValue
  <2> QED  BY <2>1, <2>2, Zenon
<1>9. \A i \in DOMAIN ext : \A oid, k : ext[i] = Ext(oid, R!DerInt(k)) => R!Is(ext, oid, k)
  BY <1>8, Zenon DEF R!Is
<1>10. R!Oids(ext) \subseteq R!AmdOids \union R!RESERVED_SPL \union R!X509Oids
  <2>1. \A oid \in R!Oids(ext) : \E i \in 1 .. n : oid = ext[i].oid
    <3>1. DOMAIN ext = 1 .. n
      BY <1>1, Zenon
    <3> QED  BY <3>1 DEF R!Oids
  <2>2. \A oid \in R!Oids(ext) :
           oid \in {"OTHER", "STRUCT_VERSION", "PRODUCT_NAME", "BOOT", "TEE", "SNP", "MICROCODE",
                    "SPL5", "HWID", "FMC"}
    BY <1>3, <1>4, <2>1
  <2> QED  BY <2>2 DEF R!AmdOids, R!RESERVED_SPL, R!X509Oids
<1>11. \A oid \in R!Oids(ext) \intersect R!RESERVED_SPL : R!Is(ext, oid, 0)
  <2>1. \A oid \in R!Oids(ext) : \E i \in 1 .. n : oid = ext[i].oid
    <3>1. DOMAIN ext = 1 .. n
      BY <1>1, Zenon
    <3> QED  BY <3>1 DEF R!Oids
  <2>2. \A oid \in R!Oids(ext) \intersect R!RESERVED_SPL : oid = "SPL5"
    BY <1>3, <1>4, <2>1 DEF R!RESERVED_SPL
  <2>3. R!Is(ext, "SPL5", 0)
    BY <1>1, <1>7, <1>9
  <2> QED  BY <2>2, <2>3
<1>12. turin \/ "FMC" \notin R!Oids(ext)
  <2>1. \A oid \in R!Oids(ext) : \E i \in 1 .. n : oid = ext[i].oid
    <3>1. DOMAIN ext = 1 .. n
      BY <1>1, Zenon
    <3> QED  BY <3>1 DEF R!Oids
  <2> QED  BY <1>3, <1>4, <2>1
<1>13. PICK r : r = Report(h, f)
  OBVIOUS
<1>14. PICK t : t = Tcb(h)
  OBVIOUS
<1>15. r.reported_tcb = t /\ r.chip_id = ChipId(h)
  BY <1>13, <1>14, ReportReads
<1>16. PICK at :
         /\ at = R!Offsets(h.generation)
         /\ at.boot = (IF turin THEN 1 ELSE 0) /\ at.tee = (IF turin THEN 2 ELSE 1)
         /\ t[at.snp + 1] = h.snp /\ t[7 + 1] = h.microcode
         /\ \A i \in at.reserved : t[i + 1] = 0
  BY <1>14, TcbIs DEF turin
<1>17. /\ R!Is(ext, "STRUCT_VERSION", IF turin THEN 1 ELSE 0)
       /\ R!Is(ext, "BOOT", t[at.boot + 1]) /\ R!Is(ext, "TEE", t[at.tee + 1])
       /\ R!Is(ext, "SNP", t[at.snp + 1]) /\ R!Is(ext, "MICROCODE", t[7 + 1])
       /\ turin => R!Is(ext, "FMC", t[0 + 1])
  <2>1. /\ 2 \in DOMAIN ext /\ 4 \in DOMAIN ext /\ 5 \in DOMAIN ext /\ 6 \in DOMAIN ext
        /\ 7 \in DOMAIN ext /\ (turin => 10 \in DOMAIN ext)
    BY <1>7
  <2>2. R!Is(ext, "STRUCT_VERSION", IF turin THEN 1 ELSE 0)
    BY <1>1, <1>9, <2>1, Zenon
  <2>3. R!Is(ext, "BOOT", t[at.boot + 1])
    BY <1>1, <1>9, <1>14, <1>16, <2>1, Zenon
  <2>4. R!Is(ext, "TEE", t[at.tee + 1])
    BY <1>1, <1>9, <1>14, <1>16, <2>1, Zenon
  <2>5. R!Is(ext, "SNP", t[at.snp + 1]) /\ R!Is(ext, "MICROCODE", t[7 + 1])
    BY <1>1, <1>9, <1>16, <2>1, Zenon
  <2>6. turin => R!Is(ext, "FMC", t[0 + 1])
    BY <1>1, <1>9, <1>14, <2>1, Zenon
  <2> QED  BY <2>2, <2>3, <2>4, <2>5, <2>6
<1>18. PICK id : id = R!Value(ext, "HWID") /\ "HWID" \in R!Oids(ext)
                 /\ id = IF f.wrapped THEN <<4, Len(hwid)>> \o hwid ELSE hwid
  <2>1. 9 \in DOMAIN ext
    BY <1>7
  <2> QED  BY <1>1, <1>8, <2>1, Zenon
<1>19. R!hwid_matches(id, r.chip_id, R!HwidLen(h.generation))
  <2>1. Len(hwid) = R!HwidLen(h.generation)
        /\ R!Zero(SubSeq(ChipId(h), R!HwidLen(h.generation) + 1, Len(ChipId(h))))
    BY ChipIs DEF hwid
  <2>2. hwid = SubSeq(ChipId(h), 1, R!HwidLen(h.generation))
    BY DEF hwid
  <2> QED  BY <1>15, <1>18, <2>1, <2>2, Zenon DEF R!hwid_matches
<1>20. r.version >= 3 => SubSeq(r.cpuid, 1, 2) = R!cpuid[h.generation]
  <2>1. h.generation \in R!Generations
    BY SnpAssumption DEF SnpAssumption
  <2>2. r.version = f.version
        /\ r.cpuid = (IF f.version >= 3 THEN R!cpuid[h.generation] \o <<1>> ELSE <<0, 0, 0>>)
    BY <1>13, ReportReads
  <2>3. SubSeq(R!cpuid[h.generation] \o <<1>>, 1, 2) = R!cpuid[h.generation]
    BY <2>1, CpuidIs
  <2> QED  BY <2>2, <2>3, Zenon
<1>21. R!validate_extensions(ext, r, h.generation)
  <2>1. h.generation = "Turin" <=> turin
    BY DEF turin
  <2>2. \A i : R!TcbByte(r, i) = t[i + 1]
    BY <1>15, Zenon DEF R!TcbByte
  <2>3. IF turin THEN R!Is(ext, "FMC", R!TcbByte(r, 0)) ELSE "FMC" \notin R!Oids(ext)
    BY <1>12, <1>17, <2>2, Zenon
  <2>4. \A i \in at.reserved : R!TcbByte(r, i) = 0
    BY <1>16, <2>2, Zenon
  <2>5. /\ R!Is(ext, "BOOT", R!TcbByte(r, at.boot)) /\ R!Is(ext, "TEE", R!TcbByte(r, at.tee))
        /\ R!Is(ext, "SNP", R!TcbByte(r, at.snp)) /\ R!Is(ext, "MICROCODE", R!TcbByte(r, 7))
    BY <1>17, <2>2, Zenon
  <2>6. R!Is(ext, "STRUCT_VERSION", IF h.generation = "Turin" THEN 1 ELSE 0)
    BY <1>17, <2>1
  <2>7. IF h.generation = "Turin" THEN R!Is(ext, "FMC", R!TcbByte(r, 0)) ELSE "FMC" \notin R!Oids(ext)
    BY <2>1, <2>3
  <2> QED  BY <1>10, <1>11, <1>16, <1>18, <1>19, <1>20, <2>4, <2>5, <2>6, <2>7, Zenon
           DEF R!validate_extensions
<1>22. "PRODUCT_NAME" \in R!Oids(ext) /\ R!Value(ext, "PRODUCT_NAME") \in R!ProductNames[h.generation]
  <2>1. 3 \in DOMAIN ext
    BY <1>7
  <2>2. /\ R!Value(ext, "PRODUCT_NAME") = names[1 + (f.product % Len(names))]
        /\ "PRODUCT_NAME" \in R!Oids(ext)
    BY <1>1, <1>8, <2>1, Zenon
  <2>3. f.product \in Nat /\ h.generation \in R!Generations
    BY SnpAssumption DEF SnpForms, SnpAssumption
  <2>4. names[1 + (f.product % Len(names))] \in R!ProductNames[h.generation]
    BY <2>3, ProductIs DEF names
  <2> QED  BY <2>2, <2>4, Zenon
<1> QED  BY <1>1, <1>6, <1>13, <1>21, <1>22, Zenon

\* The format of a report is what the verifier asks for.
LEMMA FormatVerified ==
  ASSUME NEW h \in SnpHosts, NEW f \in SnpForms
  PROVE  R!validate_report_format(Report(h, f))
<1>1. PICK r : r = Report(h, f)
  OBVIOUS
<1>2. /\ r.version = f.version /\ r.signature_algo = 1 /\ r.vmpl = 0
      /\ r.flags.reserved = 0 /\ r.flags.signing_key = 0 /\ ~ r.flags.mask_chip_key
      /\ r.policy.must_be_one /\ r.policy.reserved = 0
      /\ r.cpuid = (IF f.version >= 3 THEN R!cpuid[h.generation] \o <<1>> ELSE <<0, 0, 0>>)
      /\ r.mitigation = (IF f.version = 5 THEN <<63>> ELSE <<0>>)
      /\ r.reserved = 0 /\ r.padding = 0 /\ r.chip_id = ChipId(h)
  BY <1>1, ReportReads
<1>3. PICK v \in 2 .. 5 : v = f.version
  BY DEF SnpForms
<1>4. ~ R!Zero(r.chip_id)
  BY <1>2, ChipIs
<1>5. (R!cpuid[h.generation] \o <<1>>)[3] = 1
  BY CpuidIs, SnpAssumption DEF SnpAssumption
<1>6. r.version >= 3 => r.cpuid[3] <= 15
  <2>1. r.version >= 3 => r.cpuid[3] = 1
    BY <1>2, <1>5
  <2> QED  BY <2>1
<1>7. R!Zero(<<0, 0, 0>>) /\ R!Zero(<<0>>)
  BY DEF R!Zero
<1>8. r.version < 3 => R!Zero(r.cpuid)
  <2>1. v < 3 => ~ (v >= 3)
    OBVIOUS
  <2> QED  BY <1>2, <1>3, <1>7, <2>1, Zenon
<1>9. r.version < 5 => R!Zero(r.mitigation)
  <2>1. v < 5 => v # 5
    OBVIOUS
  <2> QED  BY <1>2, <1>3, <1>7, <2>1, Zenon
<1>10. r.version \in 2 .. 5 /\ r.vmpl <= 3
  BY <1>2, <1>3
<1> QED  BY <1>1, <1>2, <1>4, <1>6, <1>8, <1>9, <1>10, Zenon DEF R!validate_report_format

\* The certificate of a VCEK is what the verifier asks of one.
LEMMA VcekVerified ==
  ASSUME NEW h \in SnpHosts, NEW f \in SnpForms, h.usage \in {"absent", "sign"}
  PROVE  R!validate(VcekChain(h, f)[1], Report(h, f))
<1>1. PICK ext : ext = VcekExtensions(h, f)
  OBVIOUS
<1>2. PICK c : c = Amd(<<Vcek(h), Ask(h)>>, <<"SEV-VCEK", h.generation>>, FALSE, h.usage,
                       h.certs.leaf, ext)
  OBVIOUS
<1>9. /\ ~ c.trailing /\ c.subject = <<"SEV-VCEK">> /\ c.curve = "secp384r1"
      /\ ~ c.ca /\ c.ext = ext /\ c.issuer = <<h.generation>> /\ c.usage = h.usage
  <2>1. PICK no : no = FALSE
    OBVIOUS
  <2>2. PICK key, signer, subject, issuer :
           /\ key = Vcek(h) /\ signer = Ask(h)
           /\ subject = <<"SEV-VCEK">> /\ issuer = <<h.generation>>
    BY Zenon
  <2>3. \A x, y : <<x, y>>[1] = x /\ <<x, y>>[2] = y
    OBVIOUS
  <2>4. PICK yes : yes = TRUE
    OBVIOUS
  <2>5. c = [key |-> key, signer |-> signer, subject |-> subject, issuer |-> issuer, ca |-> no,
             usage |-> h.usage, period |-> h.certs.leaf, ext |-> ext,
             curve |-> "secp384r1", trailing |-> no, whole |-> yes]
    BY <1>2, <2>1, <2>2, <2>3, <2>4, Zenon DEF Amd
  <2>6. c.trailing = no /\ c.curve = "secp384r1" /\ c.ca = no /\ c.ext = ext
        /\ c.subject = subject /\ c.issuer = issuer /\ c.usage = h.usage
    BY <2>5
  <2> QED  BY <2>1, <2>2, <2>6, Zenon
<1>3. c = VcekChain(h, f)[1]
  <2>1. PICK b, d : VcekChain(h, f) = <<c, b, d>>
    BY <1>1, <1>2, Zenon DEF VcekChain
  <2> QED  BY <2>1
<1>4. /\ R!validate_extensions(ext, Report(h, f), h.generation)
      /\ "PRODUCT_NAME" \in R!Oids(ext)
      /\ R!Value(ext, "PRODUCT_NAME") \in R!ProductNames[h.generation]
      /\ OnceEach(ext)
  BY <1>1, ExtensionsVerified
<1>5. PICK g \in R!Generations : g = h.generation
  BY SnpAssumption DEF SnpAssumption
<1>6. g \in R!product(R!Value(ext, "PRODUCT_NAME"))
  BY <1>4, <1>5 DEF R!product
<1>7. \E o \in R!product(R!Value(ext, "PRODUCT_NAME")) :
         R!validate_extensions(ext, Report(h, f), o) /\ c.issuer = <<o>>
  BY <1>4, <1>5, <1>6, <1>9, Zenon
<1>8. R!extension_values(c)
  BY <1>4, <1>9, Zenon DEF R!extension_values, OnceEach
<1> QED  BY <1>3, <1>4, <1>7, <1>8, <1>9, Zenon DEF R!validate

\* The certificates behind the first of three begin with the second.
LEMMA TailOfThree ==
  ASSUME NEW S, NEW s \in Seq(S), Len(s) = 3
  PROVE  s # <<>> /\ Tail(s)[1] = s[2] /\ 1 \in DOMAIN Tail(s)
<1>1. s # <<>>
  OBVIOUS
<1>2. /\ Tail(s) \in Seq(S) /\ Len(Tail(s)) = Len(s) - 1
      /\ \A i \in 1 .. Len(Tail(s)) : Tail(s)[i] = s[i + 1]
  BY <1>1, HeadTailProperties
<1>3. PICK n \in Nat : n = Len(Tail(s)) /\ 1 \in 1 .. n /\ 1 + 1 = 2
  <2>1. 3 - 1 = 2 /\ 2 \in Nat /\ 1 \in 1 .. 2 /\ 1 + 1 = 2
    OBVIOUS
  <2>2. Len(Tail(s)) = 3 - 1
    BY <1>2, Zenon
  <2> QED  BY <2>1, <2>2, Zenon
<1>4. DOMAIN Tail(s) = 1 .. n
  BY <1>2, <1>3
<1>5. Tail(s)[1] = s[2]
  BY <1>2, <1>3, Zenon
<1> QED  BY <1>1, <1>3, <1>4, <1>5, Zenon

\* The report of a host below AMD's root is accepted with the certificates of its
\* chip, whatever the version of either, and shows what the host measured.
LEMMA SnpVerified ==
  ASSUME NEW h \in SnpHosts, NEW f \in SnpForms, NEW day, h.root = AmdRoot,
         CertifiedOn(h.certs, day), h.usage \in {"absent", "sign"}
  PROVE  R!verify_snp_report(Report(h, f), VcekChain(h, f), {Ark(AmdRoot)}, day) =
           [ok |-> TRUE, measurements |-> <<60 + h.chip, 70 + h.chip, Tcb(h), ChipId(h)>>]
<1>1. PICK r, c : r = Report(h, f) /\ c = VcekChain(h, f)
  OBVIOUS
<1>2. /\ r.size = 1184 /\ r.measurement = 60 + h.chip /\ r.report_data = 70 + h.chip
      /\ r.reported_tcb = Tcb(h) /\ r.chip_id = ChipId(h)
      /\ r.signature = R!SnpSign(Vcek(h), r)
  BY <1>1, ReportReads
<1>3. /\ c \in Seq(Certificates) /\ Len(c) = 3
      /\ c[1].key = Vcek(h) /\ c[1].signer = Ask(h)
      /\ c[2].key = Ask(h) /\ c[2].signer = Ark(AmdRoot)
      /\ c[1].period = h.certs.leaf /\ c[2].period = h.certs.ca /\ c[2].ca = h.certs.authority
      /\ \A i \in 1 .. 3 : c[i].whole
  BY <1>1, ChainIs, Zenon
<1>4. c # <<>> /\ c[2] \in R!ToSet(Tail(c))
  <2>1. PICK t : t = Tail(c) /\ c # <<>> /\ t[1] = c[2] /\ 1 \in DOMAIN t
    BY <1>3, TailOfThree, Zenon
  <2>2. t[1] \in R!ToSet(t)
    BY <2>1 DEF R!ToSet
  <2> QED  BY <2>1, <2>2, Zenon
<1>6. ~ R!self_signed(c[2])
  BY <1>3, TiersDiffer DEF R!self_signed
<1>7. R!verify_cert_chain(c[1], {d \in R!ToSet(Tail(c)) : ~ R!self_signed(d)}, {Ark(AmdRoot)}, day)
  <2>1. R!Within(c[1].period, day) /\ R!Within(c[2].period, day) /\ c[2].ca
    BY <1>3, Zenon DEF CertifiedOn, R!Within, Within
  <2> QED  BY <1>3, <1>4, <1>6, <2>1 DEF R!verify_cert_chain
<1>8. R!report_signature(c[1], r)
  <2>1. r.signature = R!SnpSign(c[1].key, r)
    BY <1>2, <1>3, Zenon
  <2> QED  BY <2>1, Zenon DEF R!report_signature
<1>9. R!validate_report_format(r) /\ R!validate(c[1], r)
  BY <1>1, FormatVerified, VcekVerified
<1>10. r.size = R!SNP_REPORT_SIZE
  BY <1>2 DEF R!SNP_REPORT_SIZE
<1>11. <<r.measurement, r.report_data, r.reported_tcb, r.chip_id>> =
          <<60 + h.chip, 70 + h.chip, Tcb(h), ChipId(h)>>
  BY <1>2, Zenon
<1>12. R!parse_pem_chain(c) = c
  <2>1. \A d \in R!ToSet(c) : d.whole
    BY <1>3 DEF R!ToSet
  <2> QED  BY <2>1, Zenon DEF R!parse_pem_chain
<1>13. R!VerifyReport(r, c, {Ark(AmdRoot)}, day) =
         [ok |-> TRUE, measurements |-> <<r.measurement, r.report_data, r.reported_tcb, r.chip_id>>]
  BY <1>4, <1>7, <1>8, <1>9, <1>10, ZenonT(60) DEF R!VerifyReport
<1>14. R!verify_snp_report(r, c, {Ark(AmdRoot)}, day) = R!VerifyReport(r, c, {Ark(AmdRoot)}, day)
  BY <1>12, Zenon DEF R!verify_snp_report
<1> QED  BY <1>1, <1>11, <1>13, <1>14, ZenonT(60)

-----------------------------------------------------------------------------
(* Nothing genuine is refused.                                             *)

\* As long as nothing was damaged, a file holds what the host it was collected
\* from wrote.
AsWritten ==
    /\ damage \in Nat
    /\ DOMAIN origin = Names[kind]
    /\ damage = 0 =>
         \A name \in Names[kind], h \in Hosts[kind] :
            files[name] # <<>> /\ origin[name] = <<h>> => files[name] = <<Contents(name, h)>>

\* The inductive invariant.
AcceptInv == GenuineInv /\ AsWritten /\ GenuineIsAccepted

\* The tool ends with success on what is accepted, and shows its measurements.
LEMMA ExitOk ==
  ASSUME NEW m
  PROVE  Exit([ok |-> TRUE, measurements |-> m]) = [exit |-> 0, shown |-> m]
BY DEF Exit

\* The tool, on the quote of a TD below Intel's root.
LEMMA TdxIsAccepted ==
  ASSUME Assembled, kind = "tdx", form.layout # "behind",
         NEW h \in Hosts[kind], Trusted(h), Certifies(h),
         files["quote"] = <<Contents("quote", h)>>
  PROVE  VerifyTdx.exit = 0 /\ VerifyTdx.shown = Measured(h)
<1>1. PICK td \in TdHosts, f \in WrittenForms : td = h /\ f = form
  BY KindsAre DEF Assembled
<1>2. td.platform.root = IntelRoot /\ f.layout # "behind" /\ CertifiedOn(td.platform.certs, today)
  BY <1>1, Zenon DEF Trusted, Certifies, CertsOf, CertifiedOn
<1>3. PICK q : q = Quote(td, f) /\ files["quote"] = <<q>>
  BY <1>1, Zenon DEF Contents
<1>4. files["quote"] # <<>> /\ files["quote"][1] = q
  BY <1>3
<1>5. PICK m : m = <<N(td.mr), N(td.data)>>
  OBVIOUS
<1>6. verify_td_quote(q, {IntelRoot}, today) = [ok |-> TRUE, measurements |-> m]
  BY <1>2, <1>3, <1>5, QuoteVerified
<1>7. VerifyTdx = [exit |-> 0, shown |-> m]
  BY <1>4, <1>6, ExitOk, Zenon DEF VerifyTdx
<1>8. Measured(h) = m
  BY <1>1, <1>5, Zenon DEF Measured
<1> QED  BY <1>7, <1>8

\* The tool, on the report and the certificates of a host below AMD's root.
LEMMA SnpIsAccepted ==
  ASSUME Assembled, kind = "snp",
         NEW h \in Hosts[kind], Trusted(h), Certifies(h),
         files["report"] = <<Contents("report", h)>>,
         files["chain"] = <<Contents("chain", h)>>
  PROVE  VerifySnp.exit = 0 /\ VerifySnp.shown = Measured(h)
<1>1. PICK o \in SnpHosts, f \in SnpForms : o = h /\ f = form
  BY KindsAre DEF Assembled
<1>2. o.root = AmdRoot /\ CertifiedOn(o.certs, today) /\ o.usage \in {"absent", "sign"}
  BY <1>1 DEF Trusted, Certifies, CertsOf, CertifiedOn
<1>3. PICK r, c : /\ r = Report(o, f) /\ files["report"] = <<r>>
                  /\ c = VcekChain(o, f) /\ files["chain"] = <<c>>
  <2>1. Contents("report", h) = Report(o, f) /\ Contents("chain", h) = VcekChain(o, f)
    BY <1>1 DEF Contents
  <2> QED  BY <2>1, Zenon
<1>4. /\ files["report"] # <<>> /\ files["report"][1] = r
      /\ files["chain"] # <<>> /\ files["chain"][1] = c
  BY <1>3
<1>5. PICK m : m = <<60 + o.chip, 70 + o.chip, Tcb(o), ChipId(o)>>
  OBVIOUS
<1>6. R!verify_snp_report(r, c, {Ark(AmdRoot)}, today) = [ok |-> TRUE, measurements |-> m]
  BY <1>2, <1>3, <1>5, SnpVerified, Zenon
<1>7. VerifySnp = [exit |-> 0, shown |-> m]
  BY <1>4, <1>6, ExitOk, Zenon DEF VerifySnp
<1>8. Measured(h) = m
  BY <1>1, <1>5 DEF Measured
<1> QED  BY <1>7, <1>8

\* The invariant holds before anything is collected.
LEMMA AcceptStarts == EvidenceInit => AcceptInv
<1> SUFFICES ASSUME EvidenceInit PROVE AcceptInv
  OBVIOUS
<1>1. AsWritten
  BY DEF EvidenceInit, AsWritten
<1>2. GenuineIsAccepted
  BY DEF EvidenceInit, GenuineIsAccepted
<1> QED  BY <1>1, <1>2, EvidenceStarts DEF AcceptInv

\* A collection writes down its host; damage is counted.
LEMMA WrittenStays == Assembled /\ AsWritten /\ [EvidenceNext]_evidenceVars => AsWritten'
<1> SUFFICES ASSUME Assembled, AsWritten, [EvidenceNext]_evidenceVars PROVE AsWritten'
  OBVIOUS
<1>1. ASSUME NEW name \in DOMAIN files, Collect(name)
      PROVE  AsWritten'
  <2>1. /\ kind' = kind /\ form' = form /\ damage' = damage
        /\ files' = [files EXCEPT ![name] = <<Contents(name, host)>>]
        /\ origin' = [origin EXCEPT ![name] = <<host>>]
    BY <1>1 DEF Collect
  <2>2. DOMAIN files = Names[kind] /\ DOMAIN origin = Names[kind]
    BY DEF Assembled, AsWritten
  <2>3. ASSUME damage = 0, NEW n \in Names[kind], NEW h \in Hosts[kind],
               files'[n] # <<>>, origin'[n] = <<h>>
        PROVE  files'[n] = <<Contents(n, h)>>
    <3>1. CASE n = name
      <4>1. files'[n] = <<Contents(name, host)>> /\ origin'[n] = <<host>>
        BY <2>1, <2>2, <3>1
      <4>2. h = host
        BY <2>3, <4>1
      <4> QED  BY <3>1, <4>1, <4>2
    <3>2. CASE n # name
      <4>1. files'[n] = files[n] /\ origin'[n] = origin[n]
        BY <2>1, <2>2, <3>2
      <4> QED  BY <2>3, <4>1 DEF AsWritten
    <3> QED  BY <3>1, <3>2
  <2>4. \A n, h : Contents(n, h)' = Contents(n, h)
    BY <2>1, Zenon DEF Contents
  <2> QED  BY <2>1, <2>2, <2>3, <2>4 DEF AsWritten
<1>2. ASSUME NEW name \in DOMAIN files, Rot(name)
      PROVE  AsWritten'
  <2>1. kind' = kind /\ origin' = origin /\ damage' = damage + 1
    BY <1>2 DEF Rot
  <2>2. damage' \in Nat /\ damage' # 0
    BY <2>1 DEF AsWritten
  <2> QED  BY <2>1, <2>2 DEF AsWritten
<1>3. ASSUME UNCHANGED <<kind, form, files, origin, damage>>
      PROVE  AsWritten'
  <2>1. \A n, h : Contents(n, h)' = Contents(n, h)
    BY <1>3, Zenon DEF Contents
  <2> QED  BY <1>3, <2>1 DEF AsWritten
<1>4. Change \/ Tomorrow \/ Verify \/ UNCHANGED evidenceVars
         => UNCHANGED <<kind, form, files, origin, damage>>
  BY DEF Change, Tomorrow, Verify, evidenceVars
<1> QED  BY <1>1, <1>2, <1>3, <1>4 DEF EvidenceNext, Judged

\* Every step keeps the invariant; only the verification has something to show.
LEMMA AcceptStays == AcceptInv /\ [EvidenceNext]_evidenceVars => AcceptInv'
<1> SUFFICES ASSUME AcceptInv, [EvidenceNext]_evidenceVars PROVE AcceptInv'
  OBVIOUS
<1>0. GenuineInv /\ Assembled /\ AsWritten /\ GenuineIsAccepted
  BY DEF AcceptInv, GenuineInv
<1>1. GenuineInv' /\ AsWritten'
  BY <1>0, EvidenceStays, WrittenStays
<1>2. ASSUME verdict'.exit = Running PROVE GenuineIsAccepted'
  BY <1>2 DEF GenuineIsAccepted
<1>3. ASSUME verdict.exit = Running, verdict' = verdict PROVE GenuineIsAccepted'
  BY <1>2, <1>3
<1>4. ASSUME Verify PROVE GenuineIsAccepted'
  <2>1. /\ UNCHANGED <<kind, host, form, files, origin, damage, today>>
        /\ kind = "tdx" => verdict' = VerifyTdx
        /\ kind = "snp" => verdict' = VerifySnp
    BY <1>4 DEF Verify
  <2>2. ASSUME kind # "cose", Whole, kind = "tdx" => form.layout # "behind",
               NEW h \in Hosts[kind], Trusted(h), Certifies(h),
               \A name \in DOMAIN files : origin[name] = <<h>>
        PROVE  verdict'.exit = 0 /\ verdict'.shown = Measured(h)
    <3>1. \A name \in Names[kind] : files[name] = <<Contents(name, h)>>
      BY <1>0, <2>2 DEF Assembled, AsWritten, Whole
    <3>2. CASE kind = "tdx"
      <4>1. files["quote"] = <<Contents("quote", h)>>
        BY <3>1, <3>2, KindsAre
      <4> QED  BY <1>0, <2>1, <2>2, <3>2, <4>1, TdxIsAccepted
    <3>3. CASE kind = "snp"
      <4>1. files["report"] = <<Contents("report", h)>> /\ files["chain"] = <<Contents("chain", h)>>
        BY <3>1, <3>3, KindsAre
      <4> QED  BY <1>0, <2>1, <2>2, <3>3, <4>1, SnpIsAccepted
    <3> QED  BY <1>0, <2>2, <3>2, <3>3 DEF Assembled
  <2>3. Whole' => Whole
    BY <2>1 DEF Whole
  <2>4. \A h : /\ (Trusted(h)' => Trusted(h))
                 /\ (Certifies(h)' => Certifies(h))
                 /\ Measured(h)' = Measured(h)
    BY <2>1, Zenon DEF Trusted, Certifies, CertsOf, Measured
  <2> QED  BY <2>1, <2>2, <2>3, <2>4 DEF GenuineIsAccepted
<1>5. ASSUME UNCHANGED evidenceVars PROVE GenuineIsAccepted'
  BY <1>0, <1>5 DEF GenuineIsAccepted, evidenceVars, Whole, Trusted, Certifies,
     CertsOf, Measured
<1>6. \/ verdict.exit = Running /\ verdict' = verdict
      \/ Verify \/ UNCHANGED evidenceVars
  BY DEF EvidenceNext, Collect, Rot, Change, Tomorrow, Judged
<1>7. GenuineIsAccepted'
  BY <1>3, <1>4, <1>5, <1>6
<1> QED  BY <1>1, <1>7 DEF AcceptInv

\* Whole evidence of a trusted host is accepted, for every set of hosts: in every
\* version, envelope and layout of the certificates the quote of a TD verifies
\* and shows what the TD measured, and so does the report of a chip of any
\* generation with the certificates collected from the same host; on every day on
\* which these are in their periods, from an issuer that may issue and, for a
\* VCEK, with a KeyUsage that allows signatures alone.
THEOREM GenuineIsNotRefused == EvidenceSpec => []GenuineIsAccepted
<1>1. AcceptInv => GenuineIsAccepted
  BY DEF AcceptInv
<1> QED  BY <1>1, AcceptStarts, AcceptStays, PTL DEF EvidenceSpec
==============================================================================
