------------------------------ MODULE Attestation ------------------------------
(***************************************************************************)
(* attest_guest and attest_platform from end to end: evidence, report,     *)
(* submission with retries, decryption.  The parts below are taken at what *)
(* their own modules show: the staging of user data succeeds or fails,     *)
(* executed or not, and the report is derived from what the user-data      *)
(* index holds when it is read, which other callers write too (CvmReport); *)
(* device evidence and decrypt_token work or fail (EphemeralKey).  Any of  *)
(* them, IMDS and the service may fail at any time.                        *)
(*                                                                         *)
(* External: a request that was sent is processed by the service at any    *)
(* later time, also after the client gave up waiting for it.               *)
(***************************************************************************)
EXTENDS Naturals

CONSTANT MaxCalls   \* bound on the calls of a behaviour

ASSUME CallsAssumption == MaxCalls \in Nat

VARIABLES
  vm,        \* the type of the report in the CVM report index, or "absent"
  pc,        \* the stage of the call
  op,        \* "guest" or "platform"
  provider,  \* "maa" or "loopback"
  ud,        \* user data: "none", "data" or "oversized"
  slot,      \* what the user-data index holds, seen from the call: a value from
             \* "before" its staging, its "own", or one another caller staged "after"
  carried,   \* the value the report collected was derived from, or "none"
  ev,        \* the type of the CVM evidence collected, or "none"
  quoted,    \* the TD quote was fetched
  sent,      \* the isolation type of the request, "none" before it is built
  fails,     \* submissions that failed
  posted,    \* submissions made, by number
  served,    \* submissions the service has processed
  reply,     \* what the provider answered
  token,     \* what the caller gets
  calls      \* calls started

input == <<op, provider, ud>>
staging == <<slot, carried>>
evidence == <<ev, quoted, sent>>
wire == <<fails, posted, served>>
vars == <<vm, pc, input, staging, evidence, wire, reply, token, calls>>

MaxAttempts == 3
Types == {"snp", "tdx", "vbs", "tvm"}
Isolation == [snp |-> "SevSnp", tdx |-> "Tdx", vbs |-> "none", tvm |-> "none"]
Done == {"idle", "ok", "err"}
Working == {"stage", "cvm", "device", "report", "quote", "quote2", "submit", "await", "backoff", "decrypt"}

Init ==
  /\ vm \in Types \cup {"absent"}
  /\ pc = "idle" /\ op = "guest" /\ provider = "maa" /\ ud = "none"
  /\ slot = "before" /\ carried = "none"
  /\ ev = "none" /\ quoted = FALSE /\ sent = "none"
  /\ fails = 0 /\ posted = {} /\ served = {}
  /\ reply = "none" /\ token = "none" /\ calls = 0

\* The length of the user data is checked before any command.
Begin(o, p, d) ==
  /\ pc \in Done /\ calls < MaxCalls
  /\ calls' = calls + 1
  /\ op' = o /\ provider' = p /\ ud' = d
  /\ slot' = "before" /\ carried' = "none"
  /\ ev' = "none" /\ quoted' = FALSE /\ sent' = "none"
  /\ fails' = 0 /\ posted' = {} /\ served' = {}
  /\ reply' = "none" /\ token' = "none"
  /\ pc' = IF d = "oversized" THEN "err" ELSE IF d = "data" THEN "stage" ELSE "cvm"
  /\ UNCHANGED vm

\* External: another caller stages its own user data.
Overtake ==
  /\ slot = "own" /\ slot' = "after"
  /\ UNCHANGED <<vm, pc, input, carried, evidence, wire, reply, token, calls>>

\* Faulty variant: a failed staging is logged and the report read all the same.
Stage_FailureIgnored ==
  /\ pc = "stage" /\ pc' = "cvm"
  /\ slot' \in {slot, "own"}
  /\ UNCHANGED <<vm, input, carried, evidence, wire, reply, token, calls>>

\* get_cvm_report_raw stages the data; a failure is fatal, also of attest_guest.
Stage ==
  /\ pc = "stage"
  /\ \/ slot' = "own" /\ pc' = "cvm"
     \/ slot' \in {slot, "own"} /\ pc' = "err"     \* executed or not
  /\ UNCHANGED <<vm, input, carried, evidence, wire, reply, token, calls>>

\* Faulty variant: the platform flow falls back as well.
CvmEvidence_PlatformFallsBack ==
  /\ pc = "cvm"
  /\ \/ /\ vm # "absent" /\ ev' = vm /\ carried' = slot
        /\ pc' = IF op = "guest" THEN "device" ELSE IF vm = "tdx" THEN "quote" ELSE "report"
     \/ /\ UNCHANGED <<ev, carried>>
        /\ pc' = IF ud # "none" THEN "err" ELSE IF op = "guest" THEN "device" ELSE "report"
  /\ UNCHANGED <<vm, input, slot, quoted, sent, wire, reply, token, calls>>

(***************************************************************************)
(* The rest of get_cvm_evidence, and what attest_guest makes of its        *)
(* failure: fatal when user data was asked for, TrustedLaunch otherwise,   *)
(* whatever failed.                                                        *)
(***************************************************************************)
CvmEvidence ==
  /\ pc = "cvm"
  /\ \/ /\ vm # "absent" /\ ev' = vm /\ carried' = slot
        /\ pc' = IF op = "guest" THEN "device" ELSE IF vm = "tdx" THEN "quote" ELSE "report"
     \/ /\ UNCHANGED <<ev, carried>>
        /\ pc' = IF op = "guest" /\ ud = "none" THEN "device" ELSE "err"
  /\ UNCHANGED <<vm, input, slot, quoted, sent, wire, reply, token, calls>>

DeviceEvidence ==
  /\ pc = "device" /\ pc' \in {"report", "err"}
  /\ UNCHANGED <<vm, input, staging, evidence, wire, reply, token, calls>>

(***************************************************************************)
(* build_isolation_info / build_tee_only_payload_from_evidence: SNP needs  *)
(* the VCEK chain of IMDS, TDX a TD quote, other types are refused.        *)
(***************************************************************************)
BuildReport ==
  /\ pc = "report"
  /\ \/ ev = "none" /\ sent' = "TrustedLaunch" /\ pc' = "submit"
     \/ ev = "snp" /\ sent' = "SevSnp" /\ pc' = "submit"
     \/ ev = "tdx" /\ quoted /\ sent' = "Tdx" /\ pc' = "submit"
     \/ ev = "tdx" /\ ~quoted /\ pc' = "quote" /\ UNCHANGED sent
     \/ ev \in {"snp", "vbs", "tvm"} /\ pc' = "err" /\ UNCHANGED sent
  /\ UNCHANGED <<vm, input, staging, ev, quoted, wire, reply, token, calls>>

\* fetch_td_quote_http: a refusal of the first encoding leads to the second;
\* a transport error or an unusable answer does not.
TdQuote ==
  /\ pc \in {"quote", "quote2"}
  /\ \/ quoted' = TRUE /\ pc' = "report"
     \/ pc' = "err" /\ UNCHANGED quoted
     \/ pc = "quote" /\ pc' = "quote2" /\ UNCHANGED quoted
  /\ UNCHANGED <<vm, input, staging, ev, sent, wire, reply, token, calls>>

\* The request goes out; the loopback provider answers at once, and the
\* platform flow asks it nothing.
Submit ==
  /\ pc = "submit"
  /\ \/ provider = "maa" /\ posted' = posted \cup {fails + 1} /\ pc' = "await" /\ UNCHANGED reply
     \/ /\ provider = "loopback" /\ op = "guest"
        /\ reply' = "other" /\ pc' = "decrypt" /\ UNCHANGED posted
     \/ /\ provider = "loopback" /\ op = "platform"
        /\ pc' = "ok" /\ UNCHANGED <<reply, posted>>
  /\ UNCHANGED <<vm, input, staging, evidence, fails, served, token, calls>>

\* External: the service processes a request, in time or late.
Serve(k) ==
  /\ k \in posted \ served
  /\ served' = served \cup {k}
  /\ UNCHANGED <<vm, pc, input, staging, evidence, fails, posted, reply, token, calls>>

\* A 2xx answer: the guest flow goes on to decrypt, the platform flow is done;
\* submit_tee_only takes a body it cannot read for an empty token.
Answer ==
  /\ pc = "await" /\ fails + 1 \in served
  /\ reply' \in {"envelope", "other"}
  /\ IF op = "guest" THEN pc' = "decrypt" /\ UNCHANGED token
                     ELSE pc' = "ok" /\ token' \in {reply', "empty"}
  /\ UNCHANGED <<vm, input, staging, evidence, wire, calls>>

\* Faulty variants of NoAnswer: no limit; the last error lost, so that
\* Ok(None) comes back.
NoAnswer_NoLimit ==
  /\ pc = "await"
  /\ IF op = "platform" THEN pc' = "err" /\ UNCHANGED fails
     ELSE fails' = (IF fails = 2 THEN 2 ELSE fails + 1) /\ pc' = "submit"
  /\ UNCHANGED <<vm, input, staging, evidence, posted, served, reply, token, calls>>

NoAnswer_ErrorLost ==
  /\ pc = "await"
  /\ IF op = "platform" THEN pc' = "err" /\ UNCHANGED fails
     ELSE /\ fails' = fails + 1
          /\ pc' = IF fails' >= MaxAttempts THEN "ok" ELSE "backoff"
  /\ UNCHANGED <<vm, input, staging, evidence, posted, served, reply, token, calls>>

\* No usable answer: refused, unreachable, timed out, lost on its way, or (in the
\* guest flow) of a body that cannot be read.
NoAnswer ==
  /\ pc = "await"
  /\ IF op = "platform" THEN pc' = "err" /\ UNCHANGED fails
     ELSE /\ fails' = fails + 1
          /\ pc' = IF fails' >= MaxAttempts THEN "err" ELSE "backoff"
  /\ UNCHANGED <<vm, input, staging, evidence, posted, served, reply, token, calls>>

\* The next attempt waits 1, then 2 seconds.
Backoff ==
  /\ pc = "backoff"
  /\ pc' = "submit"
  /\ UNCHANGED <<vm, input, staging, evidence, fails, posted, served, reply, token, calls>>

\* decrypt_token: Ok(Some) gives the JWT, Ok(None) keeps the provider's token.
Decrypt ==
  /\ pc = "decrypt"
  /\ \/ pc' = "ok" /\ token' = IF reply = "envelope" THEN "jwt" ELSE reply
     \/ pc' = "err" /\ UNCHANGED token
  /\ UNCHANGED <<vm, input, staging, evidence, wire, reply, calls>>

Step ==
  \/ Stage \/ CvmEvidence \/ DeviceEvidence \/ BuildReport \/ TdQuote
  \/ Submit \/ Answer \/ NoAnswer \/ Backoff \/ Decrypt

Finished == calls = MaxCalls /\ pc \in Done

Next ==
  \/ Step
  \/ \E o \in {"guest", "platform"}, p \in {"maa", "loopback"},
        d \in {"none", "data", "oversized"} : Begin(o, p, d)
  \/ \E k \in 1 .. MaxAttempts : Serve(k)
  \/ Overtake
  \/ Finished /\ UNCHANGED vars

Spec == Init /\ [][Next]_vars

\* The calling thread runs; its waits end, by the HTTP clients' timeouts.
FairSpec == Spec /\ WF_vars(Step)

-----------------------------------------------------------------------------

TypeOK ==
  /\ vm \in Types \cup {"absent"} /\ pc \in Working \cup Done
  /\ ev \in Types \cup {"none"} /\ quoted \in BOOLEAN
  /\ sent \in {"none", "TrustedLaunch", "SevSnp", "Tdx"}
  /\ fails \in 0 .. MaxAttempts
  /\ served \subseteq posted /\ posted \subseteq 1 .. MaxAttempts
  /\ reply \in {"none", "envelope", "other"}
  /\ token \in {"none", "jwt", "envelope", "other", "empty"}
  /\ slot \in {"before", "own", "after"} /\ carried \in {"none", "before", "own", "after"}

(***************************************************************************)
(* User data that was asked for is bound to what the call sends: no        *)
(* request goes out without TEE evidence, nor with evidence derived from a *)
(* value staged before the caller's own (client.rs attest_guest_with_      *)
(* user_data, "explicit data never falls back to TrustedLaunch").  It is   *)
(* the caller's own value, unless another caller staged one in between,    *)
(* which the code does not prevent (CarriesOwnUserData of CvmReport).      *)
(***************************************************************************)
UserDataNeverDropped ==
  sent # "none" /\ ud # "none" =>
    /\ ud = "data" /\ ev # "none" /\ sent = Isolation[ev]
    /\ carried = "own" \/ (carried = "after" /\ slot = "after")

(***************************************************************************)
(* The request's isolation type is the machine's, or TrustedLaunch; the    *)
(* platform flow, which has no TPM evidence to offer, never sends the      *)
(* latter.                                                                 *)
(***************************************************************************)
IsolationIsTheMachines ==
  sent # "none" =>
    \/ vm # "absent" /\ sent = Isolation[vm]
    \/ sent = "TrustedLaunch" /\ op = "guest"

(***************************************************************************)
(* A token of the service comes from the submission the client waited for: *)
(* an Ok is never the leftover of an attempt it had given up.  In the      *)
(* guest flow an envelope is opened, a plain token kept, and an answer     *)
(* whose body cannot be read never becomes one.  In the platform flow the  *)
(* token is what the service answered, or, as submit_tee_only has it, an   *)
(* empty one for a body that could not be read.                            *)
(***************************************************************************)
TokenAnswersRequest ==
  pc = "ok" /\ provider = "maa" =>
    /\ fails + 1 \in served /\ reply # "none"
    /\ op = "guest" => token = IF reply = "envelope" THEN "jwt" ELSE "other"
    /\ op = "platform" => token \in {reply, "empty"}

(* Every call returns: no answer, late answer or refusal makes it loop. *)
EveryCallReturns == pc \in Working ~> pc \in Done
=============================================================================
