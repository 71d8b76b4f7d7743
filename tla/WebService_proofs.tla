--------------------------- MODULE WebService_proofs ---------------------------
(***************************************************************************)
(* Proofs about the web service and its identity.                          *)
(*                                                                         *)
(* The identity: one server at a time, killed at any moment, keeps the     *)
(* identity it once answered with, and refuses the stored pair only after  *)
(* a start that ended half way through writing it.                         *)
(*                                                                         *)
(* The requests: for any number of connections, threads and requests, an   *)
(* answer's report is of its request, a handler is refused the device only *)
(* while another holds it, and a token once obtained reaches its client.   *)
(***************************************************************************)
EXTENDS WebService, SequenceTheorems, TLAPS

-----------------------------------------------------------------------------
\* The identity.

Pair == cert = key /\ cert \notin {Absent, Partial}
Generating == {"truncate"} \cup Writing

TlsTypes ==
  /\ cert \in Nat /\ key \in Nat /\ starts \in Nat /\ torn \in BOOLEAN
  /\ pc \in [Servers -> Running \cup Down \cup {"serving"}]
  /\ mine \in [Servers -> Nat]

(***************************************************************************)
(* Of the one server s: the files are a pair, or one is missing, unless a  *)
(* start was torn; an identity once served is the pair, and a server that  *)
(* finds a pair never generates.                                           *)
(***************************************************************************)
Stable(s) ==
  /\ ~torn /\ pc[s] \notin Writing => cert = Absent \/ key = Absent \/ Pair
  /\ pc[s] \in {"lookcert", "lookkey"} \cup Generating => mine[s] \notin {Absent, Partial}
  /\ pc[s] \in {"lookkey", "readcert", "readkey"} => cert # Absent
  /\ pc[s] \in {"readcert", "readkey"} => key # Absent
  /\ pc[s] = "readkey" => mine[s] = cert
  /\ pc[s] \in {"truncatekey", "key"} => cert = mine[s]
  /\ pc[s] = "listen" => Pair /\ mine[s] = cert
  /\ served # Absent => Pair /\ served = cert /\ pc[s] \notin Generating

TlsInv(s) == TlsTypes /\ Stable(s)

-----------------------------------------------------------------------------
\* The requests.

Steps ==
  {"probe", "unprobe", "reopen", "detect", "open", "parse", "stage", "report", "command",
   "pcrs", "log", "service", "provider", "evidence", "submit", "decode"}
Openers == {"open", "probe", "reopen"}
Reporters == {"report", "detect", "evidence"}

\* Nothing of t opens the device before it was let go.
Closed(t) == \A k \in 1 .. Len(t) : t[k] \in Openers => \E j \in 1 .. k - 1 : t[j] = "unprobe"
NoStage(t) == \A k \in 1 .. Len(t) : t[k] # "stage"
\* User data is staged before any report is read.
StagesFirst(t) == \A k \in 1 .. Len(t) : t[k] \in Reporters => \E j \in 1 .. k - 1 : t[j] = "stage"

\* What every handler, and the rest of one, is made like.
WellMade(t) ==
  \A i \in 1 .. Len(t) :
    /\ t[i] \in Openers =>
         \A k \in i + 1 .. Len(t) :
           t[k] \in Openers => \E j \in i + 1 .. k - 1 : t[j] = "unprobe"
    /\ t[i] = "probe" => i < Len(t) /\ t[i + 1] = "unprobe"
    /\ t[i] \in Reporters => \A k \in i + 1 .. Len(t) : t[k] # "stage"
    /\ t[i] = "submit" => Len(t) = i + 1 /\ t[i + 1] = "decode"

States == {"free", "backlog", "handshake", "open", "queued", "running", "answered"}
Contents == {None, "A", "B", "long", "refused", "old"}
Answers ==
  [result : {None, "ok", "err"}, report : Contents, token : {None, "opaque", "jwt"},
   claims : {None, "jwt"}]

WebTypes ==
  /\ tpm \in {"managed", "raw", "none"}
  /\ conn \in [Conns -> States] /\ req \in [Conns -> Requests]
  /\ todo \in [Conns -> Seq(Steps)] /\ out \in [Conns -> Answers]
  /\ index \in Contents /\ seen \in [Conns -> SUBSET Contents]
  /\ queue \in Seq(Conns) /\ hold \subseteq Conns

\* A request waits once, and only running ones hold the device.
QueueOK ==
  /\ \A i \in 1 .. Len(queue) : conn[queue[i]] = "queued"
  /\ \A i, j \in 1 .. Len(queue) : queue[i] = queue[j] => i = j
  /\ \A c \in hold : conn[c] = "running"

\* The user data c's request asked for is in the reports it may read.
Served(c) == Asked(c) \in {None} \cup seen[c]

Handling(c) ==
  conn[c] = "running" =>
    /\ WellMade(todo[c]) /\ (c \in hold => Closed(todo[c]))
    /\ index \in seen[c] /\ out[c].report \in {None} \cup seen[c]
    /\ out[c].report # None => NoStage(todo[c]) /\ Served(c)
    /\ Served(c) \/ StagesFirst(todo[c])
    /\ out[c].token # None => Len(todo[c]) = 1 /\ todo[c][1] = "decode"

Told(c) ==
  /\ conn[c] = "queued" => out[c] = Blank
  /\ conn[c] = "answered" /\ out[c].report # None => out[c].report \in seen[c] /\ Served(c)

WebInv == WebTypes /\ QueueOK /\ \A c \in Conns : Handling(c) /\ Told(c)

-----------------------------------------------------------------------------
(***************************************************************************)
(* The service around it does to the identity what TlsIdentity says: each  *)
(* step is one of its steps, or leaves the files and the server alone.     *)
(***************************************************************************)
THEOREM ServiceImplementsTls == WebSpec => Spec
<1>1. WebInit => Init
  BY DEF WebInit
<1>2. [WebNext]_everything => [Next]_vars
  BY DEF WebNext, Next, Crash, everything, Quiet
<1> QED  BY <1>1, <1>2, PTL DEF WebSpec, Spec

LEMMA TlsInit == \A s \in Servers : Init => TlsInv(s)
<1> SUFFICES ASSUME NEW s \in Servers, Init PROVE TlsInv(s)
  OBVIOUS
<1>1. cert \in {0, 2} /\ key \in {0, 2} /\ served = 0 /\ starts = 0 /\ torn = FALSE
  BY DEF Init, Absent, Old
<1>2. pc = [t \in Servers |-> "down"] /\ mine = [t \in Servers |-> 0]
  BY DEF Init, Absent
<1>3. TlsTypes
  <2>1. torn \in BOOLEAN
    BY <1>1
  <2>2. pc \in [Servers -> Running \cup Down \cup {"serving"}]
    BY <1>2 DEF Down
  <2> QED  BY <1>1, <1>2, <2>1, <2>2 DEF TlsTypes
<1>4. Stable(s)
  BY <1>1, <1>2 DEF Stable, Absent, Partial, Writing, Generating, Pair
<1> QED  BY <1>3, <1>4 DEF TlsInv

LEMMA TlsTypesStep == TlsTypes /\ [Next]_vars => TlsTypes'
<1> SUFFICES ASSUME TlsTypes, [Next]_vars PROVE TlsTypes'
  OBVIOUS
<1> USE DEF TlsTypes, Running, Down, Writing, Goto, files
<1>1. ASSUME NEW s \in Servers, Start(s) PROVE TlsTypes'
  BY <1>1 DEF Start, Identity
<1>2. ASSUME NEW s \in Servers, Look(s) \/ ReadCert(s) \/ ReadKey(s) PROVE TlsTypes'
  BY <1>2 DEF Look, ReadCert, ReadKey
<1>3. ASSUME NEW s \in Servers, WriteCert(s) \/ WriteKey(s) PROVE TlsTypes'
  BY <1>3 DEF WriteCert, WriteKey, Partial
<1>4. ASSUME NEW s \in Servers, WriteFails(s) \/ Listen(s) \/ Kill(s) PROVE TlsTypes'
  BY <1>4 DEF WriteFails, Listen, Kill
<1>5. CASE UNCHANGED vars
  BY <1>5 DEF vars
<1> QED  BY <1>1, <1>2, <1>3, <1>4, <1>5 DEF Next, Step

LEMMA StableStep ==
  ASSUME NEW s, Servers = {s}, TlsInv(s), [Next]_vars
  PROVE  Stable(s)'
<1> USE DEF TlsInv, TlsTypes, Stable, Pair, Generating, Writing, Goto, files, Absent, Partial
<1>1. CASE Start(s)
  BY <1>1 DEF Start, Identity, Down
<1>2. CASE Look(s)
  BY <1>2 DEF Look
<1>3. CASE ReadCert(s)
  BY <1>3 DEF ReadCert
<1>4. CASE ReadKey(s)
  BY <1>4 DEF ReadKey
<1>5. CASE WriteCert(s)
  BY <1>5 DEF WriteCert
<1>6. CASE WriteKey(s)
  BY <1>6 DEF WriteKey
<1>7. CASE WriteFails(s)
  BY <1>7 DEF WriteFails
<1>8. CASE Listen(s)
  BY <1>8 DEF Listen
<1>9. CASE Kill(s)
  BY <1>9 DEF Kill
<1>10. CASE UNCHANGED vars
  BY <1>10 DEF vars
<1> QED  BY <1>1, <1>2, <1>3, <1>4, <1>5, <1>6, <1>7, <1>8, <1>9, <1>10 DEF Next, Step

LEMMA TlsInvariance ==
  ASSUME NEW CONSTANT s, Servers = {s}
  PROVE  Spec => []TlsInv(s)
<1>1. Init => TlsInv(s)
  BY TlsInit
<1>2. TlsInv(s) /\ [Next]_vars => TlsInv(s)'
  BY TlsTypesStep, StableStep DEF TlsInv
<1> QED  BY <1>1, <1>2, PTL DEF Spec

(***************************************************************************)
(* "The cert is persistent and will be reused on restart" (main.rs): the   *)
(* identity one server answered with is the one every later start answers  *)
(* with, through kills at any moment of load_or_generate_self_signed.      *)
(***************************************************************************)
THEOREM IdentityIsKept ==
  ASSUME NEW CONSTANT s, Servers = {s}
  PROVE  Spec => IdentityKept
<1>1. TlsInv(s) /\ [Next]_vars => [served # Absent => served' = served]_vars
  <2> SUFFICES ASSUME TlsInv(s), [Next]_vars, served # Absent PROVE served' = served
    OBVIOUS
  <2>1. CASE Listen(s)
    BY <2>1 DEF Listen, TlsInv, Stable
  <2> QED  BY <2>1 DEF Next, Step, Start, Look, ReadCert, ReadKey, WriteCert, WriteKey,
              WriteFails, Kill, vars
<1> QED  BY <1>1, TlsInvariance, PTL DEF Spec, IdentityKept

(***************************************************************************)
(* The stored pair of one server is refused only after a start that ended  *)
(* between the first truncation and the last write of the files.           *)
(***************************************************************************)
THEOREM PairLoads ==
  ASSUME NEW CONSTANT s, Servers = {s}
  PROVE  Spec => []LoadsUnlessTorn
<1>1. TlsInv(s) => LoadsUnlessTorn
  BY DEF TlsInv, Stable, Pair, Writing, LoadsUnlessTorn
<1> QED  BY <1>1, TlsInvariance, PTL

-----------------------------------------------------------------------------
\* What is left of a handler after a step.

LEMMA RestOf ==
  ASSUME NEW t \in Seq(Steps), t # <<>>
  PROVE  /\ Head(t) = t[1] /\ Len(t) \in Nat \ {0}
         /\ Tail(t) \in Seq(Steps) /\ Len(Tail(t)) = Len(t) - 1
         /\ \A i \in 1 .. Len(t) - 1 : Tail(t)[i] = t[i + 1]
<1>1. Len(t) \in Nat \ {0}
  BY EmptySeq
<1>2. Tail(t) \in Seq(Steps) /\ Len(Tail(t)) = Len(t) - 1
  BY HeadTailProperties
<1>3. \A i \in 1 .. Len(t) - 1 : Tail(t)[i] = t[i + 1]
  BY <1>2, HeadTailProperties
<1>4. Head(t) = t[1]
  OBVIOUS
<1> QED  BY <1>1, <1>2, <1>3, <1>4

LEMMA RestWellMade ==
  ASSUME NEW t \in Seq(Steps), t # <<>>, WellMade(t)
  PROVE  WellMade(Tail(t))
<1> DEFINE u == Tail(t)
<1>1. /\ Len(t) \in Nat \ {0} /\ u \in Seq(Steps) /\ Len(u) = Len(t) - 1
      /\ \A i \in 1 .. Len(u) : u[i] = t[i + 1]
  BY RestOf
<1> HIDE DEF u
<1>2. SUFFICES ASSUME NEW i \in 1 .. Len(u)
      PROVE  /\ u[i] \in Openers =>
                  \A k \in i + 1 .. Len(u) :
                    u[k] \in Openers => \E j \in i + 1 .. k - 1 : u[j] = "unprobe"
             /\ u[i] = "probe" => i < Len(u) /\ u[i + 1] = "unprobe"
             /\ u[i] \in Reporters => \A k \in i + 1 .. Len(u) : u[k] # "stage"
             /\ u[i] = "submit" => Len(u) = i + 1 /\ u[i + 1] = "decode"
  BY DEF WellMade, u
<1>3. i + 1 \in 1 .. Len(t) /\ u[i] = t[i + 1]
  BY <1>1
<1>4. ASSUME u[i] \in Openers, NEW k \in i + 1 .. Len(u), u[k] \in Openers
      PROVE  \E j \in i + 1 .. k - 1 : u[j] = "unprobe"
  <2>1. k + 1 \in (i + 1) + 1 .. Len(t) /\ u[k] = t[k + 1]
    BY <1>1
  <2>2. PICK j \in (i + 1) + 1 .. (k + 1) - 1 : t[j] = "unprobe"
    BY <1>3, <1>4, <2>1 DEF WellMade
  <2>3. j - 1 \in i + 1 .. k - 1 /\ u[j - 1] = t[(j - 1) + 1] /\ (j - 1) + 1 = j
    BY <1>1, <2>1, <2>2
  <2> QED  BY <2>2, <2>3
<1>5. ASSUME u[i] = "probe" PROVE i < Len(u) /\ u[i + 1] = "unprobe"
  <2>1. i + 1 < Len(t) /\ t[(i + 1) + 1] = "unprobe"
    BY <1>3, <1>5 DEF WellMade
  <2> QED  BY <1>1, <2>1
<1>6. ASSUME u[i] \in Reporters, NEW k \in i + 1 .. Len(u) PROVE u[k] # "stage"
  <2>1. k + 1 \in (i + 1) + 1 .. Len(t) /\ u[k] = t[k + 1]
    BY <1>1
  <2> QED  BY <1>3, <1>6, <2>1 DEF WellMade
<1>7. ASSUME u[i] = "submit" PROVE Len(u) = i + 1 /\ u[i + 1] = "decode"
  <2>1. Len(t) = (i + 1) + 1 /\ t[(i + 1) + 1] = "decode"
    BY <1>3, <1>7 DEF WellMade
  <2> QED  BY <1>1, <2>1
<1> QED  BY <1>4, <1>5, <1>6, <1>7

\* After an opening nothing opens before it is let go; after a report nothing is staged.
LEMMA RestAfterHead ==
  ASSUME NEW t \in Seq(Steps), t # <<>>, WellMade(t)
  PROVE  /\ Head(t) \in Openers => Closed(Tail(t))
         /\ Head(t) \in Reporters => NoStage(Tail(t))
         /\ Head(t) = "submit" => Len(Tail(t)) = 1 /\ Tail(t)[1] = "decode"
         /\ Head(t) = "probe" => Tail(t) # <<>>
         /\ Closed(t) => Head(t) \notin Openers
         /\ Closed(t) /\ Head(t) # "unprobe" => Closed(Tail(t))
         /\ NoStage(t) => NoStage(Tail(t))
         /\ StagesFirst(t) => Head(t) \notin Reporters
         /\ StagesFirst(t) /\ Head(t) # "stage" => StagesFirst(Tail(t))
<1> DEFINE u == Tail(t)
<1>1. /\ Len(t) \in Nat \ {0} /\ u \in Seq(Steps) /\ Len(u) = Len(t) - 1
      /\ \A i \in 1 .. Len(u) : u[i] = t[i + 1]
      /\ Head(t) = t[1] /\ 1 \in 1 .. Len(t)
  BY RestOf
<1> HIDE DEF u
<1>2. ASSUME t[1] \in Openers PROVE Closed(u)
  <2>1. SUFFICES ASSUME NEW k \in 1 .. Len(u), u[k] \in Openers
                 PROVE  \E j \in 1 .. k - 1 : u[j] = "unprobe"
    BY DEF Closed
  <2>2. k + 1 \in 1 + 1 .. Len(t) /\ t[k + 1] = u[k]
    BY <1>1
  <2>3. PICK j \in 1 + 1 .. (k + 1) - 1 : t[j] = "unprobe"
    BY <1>1, <1>2, <2>1, <2>2 DEF WellMade
  <2>4. j - 1 \in 1 .. k - 1 /\ u[j - 1] = t[(j - 1) + 1] /\ (j - 1) + 1 = j
    BY <1>1, <2>2, <2>3
  <2> QED  BY <2>3, <2>4
<1>3. ASSUME t[1] \in Reporters PROVE NoStage(u)
  <2>1. \A k \in 1 + 1 .. Len(t) : t[k] # "stage"
    BY <1>1, <1>3 DEF WellMade
  <2> QED  BY <1>1, <2>1 DEF NoStage
<1>4. t[1] = "submit" => Len(u) = 1 /\ u[1] = "decode"
  BY <1>1 DEF WellMade
<1>5. t[1] = "probe" => u # <<>>
  BY <1>1 DEF WellMade
<1>6. Closed(t) => t[1] \notin Openers
  BY <1>1 DEF Closed
<1>7. ASSUME Closed(t), t[1] # "unprobe" PROVE Closed(u)
  <2>1. SUFFICES ASSUME NEW k \in 1 .. Len(u), u[k] \in Openers
                 PROVE  \E j \in 1 .. k - 1 : u[j] = "unprobe"
    BY DEF Closed
  <2>2. k + 1 \in 1 .. Len(t) /\ t[k + 1] = u[k]
    BY <1>1
  <2>3. PICK j \in 1 .. (k + 1) - 1 : t[j] = "unprobe"
    BY <1>7, <2>1, <2>2 DEF Closed
  <2>4. j - 1 \in 1 .. k - 1 /\ u[j - 1] = t[(j - 1) + 1] /\ (j - 1) + 1 = j
    <3>1. j # 1
      BY <1>1, <1>7, <2>3
    <3>2. j - 1 \in 1 .. k - 1 /\ j - 1 \in 1 .. Len(u) /\ (j - 1) + 1 = j
      BY <1>1, <2>2, <3>1
    <3> QED  BY <1>1, <3>2
  <2> QED  BY <2>3, <2>4
<1>8. NoStage(t) => NoStage(u)
  BY <1>1 DEF NoStage
<1>9. StagesFirst(t) => t[1] \notin Reporters
  BY <1>1 DEF StagesFirst
<1>10. ASSUME StagesFirst(t), t[1] # "stage" PROVE StagesFirst(u)
  <2>1. SUFFICES ASSUME NEW k \in 1 .. Len(u), u[k] \in Reporters
                 PROVE  \E j \in 1 .. k - 1 : u[j] = "stage"
    BY DEF StagesFirst
  <2>2. k + 1 \in 1 .. Len(t) /\ t[k + 1] = u[k]
    BY <1>1
  <2>3. PICK j \in 1 .. (k + 1) - 1 : t[j] = "stage"
    BY <1>10, <2>1, <2>2 DEF StagesFirst
  <2>4. j - 1 \in 1 .. k - 1 /\ u[j - 1] = t[(j - 1) + 1] /\ (j - 1) + 1 = j
    <3>1. j # 1
      BY <1>1, <1>10, <2>3
    <3>2. j - 1 \in 1 .. k - 1 /\ j - 1 \in 1 .. Len(u) /\ (j - 1) + 1 = j
      BY <1>1, <2>2, <3>1
    <3> QED  BY <1>1, <3>2
  <2> QED  BY <2>3, <2>4
<1> QED  BY <1>1, <1>2, <1>3, <1>4, <1>5, <1>6, <1>7, <1>8, <1>9, <1>10 DEF u

\* The handlers of the routes are well made; the two that take user data stage it first.
LEMMA HandlersWellMade ==
  ASSUME NEW a \in DOMAIN Handler
  PROVE  /\ Handler[a] \in Seq(Steps) /\ WellMade(Handler[a])
         /\ a \in {"cvm", "tee"} => StagesFirst(Handler[a])
<1> USE DEF Steps, WellMade, Openers, Reporters
<1>1. api_diagnose \in Seq(Steps) /\ WellMade(api_diagnose)
  BY DEF api_diagnose
<1>2. /\ api_cvm_report \in Seq(Steps) /\ WellMade(api_cvm_report) /\ StagesFirst(api_cvm_report)
      /\ api_tee_report = api_cvm_report
  BY DEF api_cvm_report, api_tee_report, StagesFirst
<1>3. /\ api_ak_cert \in Seq(Steps) /\ WellMade(api_ak_cert)
      /\ api_ak_pub = api_ak_cert
  BY DEF api_ak_cert, api_ak_pub
<1>4. api_pcrs \in Seq(Steps) /\ WellMade(api_pcrs)
  BY DEF api_pcrs
<1>5. api_event_log \in Seq(Steps) /\ WellMade(api_event_log)
  BY DEF api_event_log
<1>6. api_verify_pcrs \in Seq(Steps) /\ WellMade(api_verify_pcrs)
  BY DEF api_verify_pcrs
<1>7. /\ api_td_quote \in Seq(Steps) /\ WellMade(api_td_quote)
      /\ api_isolation_evidence = api_td_quote /\ api_endorsement_from_platform = api_td_quote
  BY DEF api_td_quote, api_isolation_evidence, api_endorsement_from_platform
<1>8. api_guest_attest \in Seq(Steps) /\ WellMade(api_guest_attest)
  BY DEF api_guest_attest
<1>9. api_tee_attest \in Seq(Steps) /\ WellMade(api_tee_attest)
  BY DEF api_tee_attest
<1>10. api_endorsement_get \in Seq(Steps) /\ WellMade(api_endorsement_get)
  BY DEF api_endorsement_get
<1> HIDE DEF Steps, WellMade, Openers, Reporters
<1>11. a \in {"diagnose", "cvm", "tee", "akcert", "akpub", "pcrs", "log", "verify", "quote",
              "isolation", "guest", "teeattest", "endorsement", "platform"}
  BY DEF Handler
<1>12. /\ Handler.diagnose = api_diagnose /\ Handler.cvm = api_cvm_report
       /\ Handler.tee = api_tee_report /\ Handler.akcert = api_ak_cert
       /\ Handler.akpub = api_ak_pub /\ Handler.pcrs = api_pcrs
       /\ Handler.log = api_event_log /\ Handler.verify = api_verify_pcrs
       /\ Handler.quote = api_td_quote /\ Handler.isolation = api_isolation_evidence
       /\ Handler.guest = api_guest_attest /\ Handler.teeattest = api_tee_attest
       /\ Handler.endorsement = api_endorsement_get
       /\ Handler.platform = api_endorsement_from_platform
  BY DEF Handler
<1> QED  BY <1>1, <1>2, <1>3, <1>4, <1>5, <1>6, <1>7, <1>8, <1>9, <1>10, <1>11, <1>12

-----------------------------------------------------------------------------
\* What a step of c's handler does to the others and to the index.

OthersKept(c) ==
  \A d \in Conns \ {c} :
    conn'[d] = conn[d] /\ req'[d] = req[d] /\ todo'[d] = todo[d] /\ out'[d] = out[d]

Noted(c) ==
  /\ index' \in Contents /\ seen' \in [Conns -> SUBSET Contents]
  /\ \A d \in Conns \ {c} :
       seen[d] \subseteq seen'[d] /\ (index \in seen[d] => index' \in seen'[d])

\* The requests of the other connections stay what they were.
LEMMA OthersStay ==
  ASSUME WebInv, NEW c \in Conns, OthersKept(c), Noted(c), hold' \subseteq hold \cup {c}
  PROVE  \A d \in Conns \ {c} : Handling(d)' /\ Told(d)'
<1> SUFFICES ASSUME NEW d \in Conns \ {c} PROVE Handling(d)' /\ Told(d)'
  OBVIOUS
<1>1. /\ Handling(d) /\ Told(d) /\ seen[d] \subseteq seen'[d]
      /\ index \in seen[d] => index' \in seen'[d]
      /\ conn'[d] = conn[d] /\ req'[d] = req[d] /\ todo'[d] = todo[d] /\ out'[d] = out[d]
      /\ d \in hold' => d \in hold
  BY DEF WebInv, OthersKept, Noted
<1>2. Asked(d)' = Asked(d) /\ (Served(d) => Served(d)')
  BY <1>1 DEF Asked, Served
<1>3. Handling(d)'
  BY <1>1, <1>2 DEF Handling, WellMade, Closed, NoStage, StagesFirst
<1>4. Told(d)'
  BY <1>1, <1>2 DEF Told
<1> QED  BY <1>3, <1>4

LEMMA BlankAnswers ==
  /\ Blank \in Answers /\ Blank.report = None /\ Blank.token = None
  /\ \A o \in Answers, r \in {None, "ok", "err"} :
       /\ [o EXCEPT !.result = r] \in Answers
       /\ [o EXCEPT !.result = r].report = o.report /\ [o EXCEPT !.result = r].token = o.token
BY DEF Blank, Answers, Contents, None

LEMMA AnyIsRequest == Any \in Requests
BY RequestsAssumption DEF Any

\* A running request does not wait.
LEMMA RunningIsNotQueued ==
  ASSUME WebInv, NEW c \in Conns, conn[c] # "queued"
  PROVE  \A i \in 1 .. Len(queue) : queue[i] # c
BY DEF WebInv, QueueOK

LEMMA FinishInv ==
  ASSUME WebInv, NEW c \in Conns, conn[c] = "running", NEW o \in Answers, Finish(c, o),
         UNCHANGED <<tpm, queue>>, Noted(c),
         o.report # None => o.report \in seen'[c] /\ Asked(c) \in {None} \cup seen'[c]
  PROVE  WebInv'
<1>1. /\ conn \in [Conns -> States] /\ req \in [Conns -> Requests]
      /\ todo \in [Conns -> Seq(Steps)] /\ out \in [Conns -> Answers]
      /\ queue \in Seq(Conns) /\ hold \subseteq Conns
  BY DEF WebInv, WebTypes
<1>2. todo' \in [Conns -> Seq(Steps)] /\ \A d \in Conns \ {c} : todo'[d] = todo[d]
  BY <1>1 DEF Finish
<1>3. \/ /\ conn' = [conn EXCEPT ![c] = "free"] /\ req' = [req EXCEPT ![c] = Any]
         /\ out' = [out EXCEPT ![c] = Blank]
      \/ /\ conn' = [conn EXCEPT ![c] = "answered"] /\ req' = req
         /\ out' = [out EXCEPT ![c] = o]
  BY DEF Finish, Close, Become
<1>4. /\ conn' \in [Conns -> States] /\ req' \in [Conns -> Requests] /\ out' \in [Conns -> Answers]
      /\ \A d \in Conns \ {c} : conn'[d] = conn[d] /\ req'[d] = req[d] /\ out'[d] = out[d]
  BY <1>1, <1>3, BlankAnswers, AnyIsRequest DEF States
<1>5. \/ conn'[c] = "free"
      \/ conn'[c] = "answered" /\ out'[c] = o /\ req'[c] = req[c]
  BY <1>1, <1>3
<1>6. WebTypes'
  BY <1>1, <1>2, <1>4 DEF WebInv, WebTypes, Noted, Finish
<1>7. QueueOK'
  <2>1. \A i \in 1 .. Len(queue) : queue[i] # c /\ queue[i] \in Conns
    BY <1>1, RunningIsNotQueued, ElementOfSeq
  <2> QED  BY <1>1, <1>4, <2>1 DEF WebInv, QueueOK, Finish
<1>8. OthersKept(c) /\ hold' \subseteq hold \cup {c}
  BY <1>2, <1>4 DEF OthersKept, Finish
<1>9. Handling(c)' /\ Told(c)'
  BY <1>5 DEF Handling, Told, Served, Asked
<1> QED  BY <1>6, <1>7, <1>8, <1>9, OthersStay DEF WebInv

LEMMA GoOnInv ==
  ASSUME WebInv, NEW c \in Conns, conn[c] = "running",
         NEW t \in Seq(Steps), todo' = [todo EXCEPT ![c] = t],
         NEW o \in Answers, out' = [out EXCEPT ![c] = o],
         UNCHANGED <<conn, req, tpm, queue>>, Noted(c), hold' \subseteq hold \cup {c},
         WellMade(t), c \in hold' => Closed(t),
         index' \in seen'[c], o.report \in {None} \cup seen'[c],
         o.report # None => NoStage(t) /\ Asked(c) \in {None} \cup seen'[c],
         Asked(c) \in {None} \cup seen'[c] \/ StagesFirst(t),
         o.token # None => Len(t) = 1 /\ t[1] = "decode"
  PROVE  WebInv'
<1>1. /\ todo \in [Conns -> Seq(Steps)] /\ out \in [Conns -> Answers] /\ hold \subseteq Conns
      /\ queue \in Seq(Conns)
  BY DEF WebInv, WebTypes
<1>2. /\ todo' \in [Conns -> Seq(Steps)] /\ out' \in [Conns -> Answers]
      /\ todo'[c] = t /\ out'[c] = o
      /\ \A d \in Conns \ {c} : todo'[d] = todo[d] /\ out'[d] = out[d]
  BY <1>1
<1>3. WebTypes'
  BY <1>1, <1>2 DEF WebInv, WebTypes, Noted
<1>4. QueueOK'
  BY DEF WebInv, QueueOK
<1>5. OthersKept(c)
  BY <1>2 DEF OthersKept
<1>6. Asked(c)' = Asked(c)
  BY DEF Asked
<1>7. Handling(c)' /\ Told(c)'
  BY <1>2, <1>6 DEF Handling, Told, Served, WellMade, Closed, NoStage, StagesFirst
<1> QED  BY <1>3, <1>4, <1>5, <1>7, OthersStay DEF WebInv

LEMMA ContinueInv ==
  ASSUME WebInv, NEW c \in Conns, conn[c] = "running", todo[c] # <<>>,
         NEW o \in Answers, Continue(c, o),
         UNCHANGED <<tpm, queue>>, Noted(c),
         Head(todo[c]) # "unprobe",
         index' \in seen'[c], o.report \in {None} \cup seen'[c],
         o.report # None => NoStage(Tail(todo[c])) /\ Asked(c) \in {None} \cup seen'[c],
         Asked(c) \in {None} \cup seen'[c] \/ StagesFirst(Tail(todo[c])),
         o.token # None => Len(Tail(todo[c])) = 1 /\ Tail(todo[c])[1] = "decode"
  PROVE  WebInv'
<1> DEFINE t == Tail(todo[c])
<1>1. /\ todo[c] \in Seq(Steps) /\ WellMade(todo[c]) /\ (c \in hold => Closed(todo[c]))
      /\ todo \in [Conns -> Seq(Steps)]
  BY DEF WebInv, WebTypes, Handling
<1>2. t \in Seq(Steps) /\ WellMade(t) /\ (c \in hold => Closed(t))
  BY <1>1, RestOf, RestWellMade, RestAfterHead
<1>3. CASE Len(todo[c]) = 1
  <2>1. [o EXCEPT !.result = "ok"] \in Answers /\ [o EXCEPT !.result = "ok"].report = o.report
    BY BlankAnswers
  <2>2. Finish(c, [o EXCEPT !.result = "ok"])
    BY <1>3 DEF Continue, Answer
  <2> QED  BY <2>1, <2>2, FinishInv
<1>4. CASE Len(todo[c]) # 1
  <2>1. /\ todo' = [todo EXCEPT ![c] = t] /\ out' = [out EXCEPT ![c] = o]
        /\ UNCHANGED <<conn, req, hold, gone>>
    BY <1>1, <1>4 DEF Continue
  <2> HIDE DEF t
  <2> QED  BY <1>2, <2>1, GoOnInv DEF t
<1> QED  BY <1>3, <1>4

\* A step that stages nothing goes on, with the report read where one is.
LEMMA PlainInv ==
  ASSUME WebInv, NEW c \in Conns,
         NEW step \in Steps \ (Openers \cup {"unprobe", "stage", "decode"}), At(c, step),
         NEW o \in Answers, Continue(c, o), UNCHANGED <<tpm, queue, index, seen>>,
         o.report = out[c].report \/ (step \in Reporters /\ o.report = index),
         o.token = out[c].token \/ step = "submit"
  PROVE  WebInv'
<1>1. conn[c] = "running" /\ todo[c] # <<>> /\ Head(todo[c]) = step /\ todo[c] \in Seq(Steps)
  BY DEF At, WebInv, WebTypes
<1>2. /\ WellMade(todo[c]) /\ index \in seen[c] /\ out[c].report \in {None} \cup seen[c]
      /\ out[c].report # None => NoStage(todo[c]) /\ Served(c)
      /\ Served(c) \/ StagesFirst(todo[c])
      /\ out[c].token # None => Len(todo[c]) = 1 /\ todo[c][1] = "decode"
  BY <1>1 DEF WebInv, Handling
<1>3. /\ step \in Reporters => NoStage(Tail(todo[c])) /\ ~StagesFirst(todo[c])
      /\ NoStage(todo[c]) => NoStage(Tail(todo[c]))
      /\ StagesFirst(todo[c]) => StagesFirst(Tail(todo[c]))
      /\ step = "submit" => Len(Tail(todo[c])) = 1 /\ Tail(todo[c])[1] = "decode"
  BY <1>1, <1>2, RestAfterHead
<1>4. out[c].token = None
  BY <1>1, <1>2, RestOf
<1>5. Noted(c)
  BY DEF Noted, WebInv, WebTypes
<1>6. o.report # None => NoStage(Tail(todo[c])) /\ Served(c)
  BY <1>2, <1>3
<1> QED
  BY <1>1, <1>2, <1>3, <1>4, <1>5, <1>6, ContinueInv DEF Served

\* A step that ends the handler answers with no more than it has read.
LEMMA EndInv ==
  ASSUME WebInv, NEW c \in Conns, NEW step \in Steps, At(c, step),
         NEW o \in Answers, Finish(c, o), UNCHANGED <<tpm, queue, index, seen>>,
         o.report \in {None, out[c].report}
  PROVE  WebInv'
<1>1. conn[c] = "running"
  BY DEF At
<1>2. out[c].report \in {None} \cup seen[c] /\ (out[c].report # None => Served(c))
  BY <1>1 DEF WebInv, Handling
<1>3. Noted(c)
  BY DEF Noted, WebInv, WebTypes
<1> QED  BY <1>1, <1>2, <1>3, FinishInv DEF Served

\* A failure and an answer are the endings.
LEMMA FailInv ==
  ASSUME WebInv, NEW c \in Conns, NEW step \in Steps, At(c, step), Fail(c),
         UNCHANGED <<tpm, queue, index, seen>>
  PROVE  WebInv'
<1>1. [Blank EXCEPT !.result = "err"] \in Answers /\ [Blank EXCEPT !.result = "err"].report = None
  BY BlankAnswers
<1> QED  BY <1>1, EndInv DEF Fail

LEMMA AnswerInv ==
  ASSUME WebInv, NEW c \in Conns, NEW step \in Steps, At(c, step), NEW o \in Answers, Answer(c, o),
         o.report = out[c].report, UNCHANGED <<tpm, queue, index, seen>>
  PROVE  WebInv'
<1>1. [o EXCEPT !.result = "ok"] \in Answers /\ [o EXCEPT !.result = "ok"].report = o.report
  BY BlankAnswers
<1> QED  BY <1>1, EndInv DEF Answer

\* What the handlers put in an answer.
LEMMA Parts ==
  ASSUME WebInv, NEW c \in Conns
  PROVE  /\ out[c] \in Answers
         /\ Reads(c) \in Answers /\ Reads(c).report = index /\ Reads(c).token = out[c].token
         /\ \A t \in {"opaque", "jwt"} :
              [out[c] EXCEPT !.token = t] \in Answers /\ [out[c] EXCEPT !.token = t].report = out[c].report
         /\ Claims(c) \in Answers /\ Claims(c).report = out[c].report /\ Claims(c).token = out[c].token
<1>1. out[c] \in Answers /\ index \in Contents
  BY DEF WebInv, WebTypes
<1>2. Reads(c) \in Answers /\ Reads(c).report = index /\ Reads(c).token = out[c].token
  BY <1>1 DEF Reads, Answers
<1>3. \A t \in {"opaque", "jwt"} :
        [out[c] EXCEPT !.token = t] \in Answers /\ [out[c] EXCEPT !.token = t].report = out[c].report
  BY <1>1 DEF Answers
<1>4. Claims(c) \in Answers /\ Claims(c).report = out[c].report /\ Claims(c).token = out[c].token
  BY <1>1 DEF Claims, Answers, None
<1> QED  BY <1>1, <1>2, <1>3, <1>4

\* Steps that move within the handler without an answer of their own.
LEMMA MoveInv ==
  ASSUME WebInv, NEW c \in Conns, conn[c] = "running",
         NEW t \in Seq(Steps), todo' = [todo EXCEPT ![c] = t],
         UNCHANGED <<conn, req, out, tpm, queue, index, seen>>, hold' \subseteq hold \cup {c},
         WellMade(t), c \in hold' => Closed(t),
         NoStage(todo[c]) => NoStage(t), StagesFirst(todo[c]) => StagesFirst(t),
         out[c].token = None
  PROVE  WebInv'
<1>1. /\ index \in seen[c] /\ out[c].report \in {None} \cup seen[c]
      /\ out[c].report # None => NoStage(todo[c]) /\ Served(c)
      /\ Served(c) \/ StagesFirst(todo[c])
  BY DEF WebInv, Handling
<1>2. out[c] \in Answers /\ out' = [out EXCEPT ![c] = out[c]] /\ Noted(c)
  BY DEF WebInv, WebTypes, Noted
<1> QED  BY <1>1, <1>2, GoOnInv DEF Served

LEMMA OpenInv ==
  ASSUME WebInv, NEW c \in Conns, Open(c) \/ Probe(c) \/ Unprobe(c) \/ Reopen(c)
  PROVE  WebInv'
<1> DEFINE t == todo[c]
<1>1. PICK step \in {"open", "probe", "unprobe", "reopen"} : At(c, step)
  BY DEF Open, Probe, Unprobe, Reopen
<1>2. /\ conn[c] = "running" /\ t # <<>> /\ Head(t) = step /\ step \in Steps
      /\ t \in Seq(Steps) /\ WellMade(t) /\ (c \in hold => Closed(t))
      /\ UNCHANGED <<tpm, queue, index, seen>> /\ hold \subseteq Conns
      /\ out[c].token # None => Len(t) = 1 /\ t[1] = "decode"
  BY <1>1 DEF At, Open, Probe, Unprobe, Reopen, NotTheIndex, machine, WebInv, WebTypes, Handling, Steps
<1>3. out[c].token = None
  BY <1>2, RestOf
<1>4. /\ Tail(t) \in Seq(Steps) /\ WellMade(Tail(t))
      /\ step # "unprobe" => Closed(Tail(t)) /\ c \notin hold
      /\ NoStage(t) => NoStage(Tail(t))
      /\ StagesFirst(t) => StagesFirst(Tail(t))
  BY <1>2, RestOf, RestWellMade, RestAfterHead DEF Openers
<1>5. CASE /\ todo' = [todo EXCEPT ![c] = Tail(t)] /\ UNCHANGED <<conn, req, out>>
           /\ hold' \subseteq hold \cup {c} /\ (c \in hold' => step # "unprobe")
  BY <1>2, <1>3, <1>4, <1>5, MoveInv
<1>6. CASE step = "probe" /\ todo' = [todo EXCEPT ![c] = Tail(Tail(t))] /\ UNCHANGED <<conn, req, hold, out>>
  <2>1. Tail(t) # <<>> /\ 1 \in 1 .. Len(t) /\ t[1] = "probe" /\ Len(t) \in Nat
    BY <1>2, <1>6, RestOf, RestAfterHead
  <2>2. t[1 + 1] = "unprobe" /\ 1 < Len(t)
    BY <1>2, <2>1 DEF WellMade
  <2>3. Head(Tail(t)) = "unprobe"
    BY <1>2, <1>4, <2>1, <2>2, RestOf
  <2>4. /\ Tail(Tail(t)) \in Seq(Steps) /\ WellMade(Tail(Tail(t)))
        /\ NoStage(t) => NoStage(Tail(Tail(t)))
        /\ StagesFirst(t) => StagesFirst(Tail(Tail(t)))
    BY <1>4, <2>1, <2>3, RestOf, RestWellMade, RestAfterHead
  <2> QED  BY <1>2, <1>3, <1>4, <1>6, <2>4, MoveInv
<1>7. CASE Fail(c)
  BY <1>1, <1>2, <1>7, FailInv
<1>8. CASE Answer(c, out[c])
  BY <1>1, <1>2, <1>8, AnswerInv, Parts
<1> QED
  <2>1. At(c, "unprobe") => step = "unprobe"
    BY <1>1 DEF At
  <2>2. At(c, "probe") => step = "probe"
    BY <1>1 DEF At
  <2>3. At(c, "open") => step # "unprobe"
    BY <1>1 DEF At
  <2>4. At(c, "reopen") => step # "unprobe"
    BY <1>1 DEF At
  <2>5. CASE Open(c)
    BY <1>5, <1>7, <2>3, <2>5 DEF Open, OpenTo
  <2>6. CASE Probe(c)
    BY <1>2, <1>5, <1>6, <2>2, <2>6 DEF Probe, OpenTo
  <2>7. CASE Unprobe(c)
    BY <1>2, <1>5, <2>1, <2>7 DEF Unprobe
  <2>8. CASE Reopen(c)
    BY <1>5, <1>8, <2>4, <2>8 DEF Reopen, OpenTo
  <2> QED  BY <2>5, <2>6, <2>7, <2>8

\* Stage: what is staged is c's, and c has read no report before.
LEMMA StageInv ==
  ASSUME WebInv, NEW c \in Conns, Stage(c)
  PROVE  WebInv'
<1> DEFINE t == todo[c]
<1>1. /\ conn[c] = "running" /\ t # <<>> /\ Head(t) = "stage" /\ t \in Seq(Steps) /\ WellMade(t)
      /\ UNCHANGED <<tpm, queue>> /\ At(c, "stage") /\ "stage" \in Steps
      /\ index \in seen[c] /\ out[c].report \in {None} \cup seen[c]
      /\ out[c].report # None => NoStage(t)
      /\ Served(c) \/ StagesFirst(t)
      /\ out[c].token # None => Len(t) = 1 /\ t[1] = "decode"
      /\ out[c] \in Answers /\ seen \in [Conns -> SUBSET Contents] /\ req[c] \in Requests
  BY DEF Stage, At, machine, WebInv, WebTypes, Handling, Steps
<1>2. t[1] = "stage" /\ 1 \in 1 .. Len(t)
  BY <1>1, RestOf
<1>3. out[c].report = None /\ out[c].token = None
  BY <1>1, <1>2 DEF NoStage
<1>4. CASE Asked(c) = None /\ Continue(c, out[c]) /\ UNCHANGED <<index, seen>>
  <2>1. Noted(c)
    BY <1>1, <1>4 DEF Noted, WebInv, WebTypes
  <2> QED  BY <1>1, <1>3, <1>4, <2>1, ContinueInv
<1>5. CASE /\ Asked(c) \notin {None, "long"} /\ index' = Asked(c)
           /\ seen' = [d \in Conns |-> IF d = c THEN {Asked(c)} ELSE seen[d] \cup {Asked(c)}]
           /\ Continue(c, out[c]) \/ Fail(c)
  <2>1. Asked(c) \in Contents
    <3>1. req[c].data \in {"none", "hexA", "textB", "longB", "long", "odd"}
      BY <1>1, RequestsAssumption
    <3> QED  BY <3>1 DEF Asked, Bytes, Contents, None
  <2>2. Noted(c) /\ seen'[c] = {Asked(c)}
    BY <1>1, <1>5, <2>1 DEF Noted
  <2>3. CASE Continue(c, out[c])
    BY <1>1, <1>3, <1>5, <2>2, <2>3, ContinueInv
  <2>4. CASE Fail(c)
    <3>1. /\ [Blank EXCEPT !.result = "err"] \in Answers
          /\ [Blank EXCEPT !.result = "err"].report = None
      BY BlankAnswers
    <3> QED  BY <1>1, <2>2, <2>4, <3>1, FinishInv DEF Fail
  <2> QED  BY <1>5, <2>3, <2>4
<1>6. CASE Fail(c) /\ UNCHANGED <<index, seen>>
  BY <1>1, <1>6, FailInv
<1> QED  BY <1>4, <1>5, <1>6 DEF Stage

LEMMA WorkInv ==
  ASSUME WebInv, NEW c \in Conns, Work(c)
  PROVE  WebInv'
<1> USE DEF NotTheIndex, machine
<1>0. Steps \ (Openers \cup {"unprobe", "stage", "decode"}) =
        {"detect", "parse", "report", "command", "pcrs", "log", "service", "provider",
         "evidence", "submit"}
  BY DEF Steps, Openers
<1>1. CASE Open(c) \/ Probe(c) \/ Unprobe(c) \/ Reopen(c)
  BY <1>1, OpenInv
<1>2. CASE Stage(c)
  BY <1>2, StageInv
<1>3. CASE Detect(c)
  BY <1>0, <1>3, PlainInv, Parts DEF Detect, Reporters
<1>4. CASE ParseUserData(c)
  BY <1>0, <1>4, PlainInv, FailInv, Parts DEF ParseUserData
<1>5. CASE ReadReport(c)
  BY <1>0, <1>5, PlainInv, FailInv, AnswerInv, Parts DEF ReadReport, Reporters
<1>6. CASE Command(c)
  BY <1>0, <1>6, PlainInv, FailInv, Parts DEF Command
<1>7. CASE Pcrs(c)
  BY <1>0, <1>7, PlainInv, Parts DEF Pcrs
<1>8. CASE Log(c)
  BY <1>0, <1>8, PlainInv, FailInv, Parts DEF Log
<1>9. CASE Service(c)
  BY <1>0, <1>9, PlainInv, FailInv, Parts DEF Service
<1>10. CASE ChooseProvider(c)
  BY <1>0, <1>10, PlainInv, FailInv, Parts DEF ChooseProvider
<1>11. CASE GuestEvidence(c)
  BY <1>0, <1>11, PlainInv, FailInv, Parts DEF GuestEvidence, Reporters
<1>12. CASE Submit(c)
  BY <1>0, <1>12, PlainInv, FailInv, Parts DEF Submit
<1>13. CASE Decode(c)
  BY <1>13, AnswerInv, Parts DEF Decode, Steps
<1> QED  BY <1>1, <1>2, <1>3, <1>4, <1>5, <1>6, <1>7, <1>8, <1>9, <1>10, <1>11, <1>12,
            <1>13 DEF Work

-----------------------------------------------------------------------------
\* The connections.

\* Connect, Accept, Handshake, and Leave before a request: nothing runs or waits.
LEMMA BecomeInv ==
  ASSUME WebInv, NEW c \in Conns, conn[c] \notin {"queued", "running"},
         NEW l \in {"free", "backlog", "handshake", "open"}, Become(c, l),
         req' = req \/ req' = [req EXCEPT ![c] = Any],
         out' = out \/ out' = [out EXCEPT ![c] = Blank],
         UNCHANGED <<tpm, todo, queue, hold, index, seen>>
  PROVE  WebInv'
<1>1. /\ conn \in [Conns -> States] /\ req \in [Conns -> Requests] /\ out \in [Conns -> Answers]
      /\ queue \in Seq(Conns) /\ l \in States
  BY DEF WebInv, WebTypes, States
<1>2. /\ conn' \in [Conns -> States] /\ req' \in [Conns -> Requests] /\ out' \in [Conns -> Answers]
      /\ conn'[c] = l
      /\ \A d \in Conns \ {c} : conn'[d] = conn[d] /\ req'[d] = req[d] /\ out'[d] = out[d]
  BY <1>1, BlankAnswers, AnyIsRequest DEF Become
<1>3. WebTypes'
  BY <1>2 DEF WebInv, WebTypes
<1>4. QueueOK'
  <2>1. \A i \in 1 .. Len(queue) : queue[i] # c /\ queue[i] \in Conns
    BY <1>1, RunningIsNotQueued, ElementOfSeq
  <2>2. c \notin hold /\ hold \subseteq Conns
    BY DEF WebInv, QueueOK, WebTypes
  <2> QED  BY <1>2, <2>1, <2>2 DEF WebInv, QueueOK
<1>5. OthersKept(c) /\ Noted(c)
  BY <1>2 DEF OthersKept, Noted, WebInv, WebTypes
<1>6. Handling(c)' /\ Told(c)'
  BY <1>2 DEF Handling, Told
<1> QED  BY <1>3, <1>4, <1>5, <1>6, OthersStay DEF WebInv

LEMMA SendInv ==
  ASSUME WebInv, NEW c \in Conns, NEW r \in Requests, Send(c, r)
  PROVE  WebInv'
<1>1. /\ conn[c] \in {"open", "answered"} /\ queue' = Append(queue, c)
      /\ conn' = [conn EXCEPT ![c] = "queued"] /\ req' = [req EXCEPT ![c] = r]
      /\ out' = [out EXCEPT ![c] = Blank] /\ UNCHANGED <<tpm, todo, hold, index, seen>>
  BY DEF Send, Become, machine, shared
<1>2. /\ conn \in [Conns -> States] /\ req \in [Conns -> Requests] /\ out \in [Conns -> Answers]
      /\ queue \in Seq(Conns) /\ hold \subseteq Conns
  BY DEF WebInv, WebTypes
<1>3. /\ conn' \in [Conns -> States] /\ req' \in [Conns -> Requests] /\ out' \in [Conns -> Answers]
      /\ conn'[c] = "queued" /\ out'[c] = Blank
      /\ \A d \in Conns \ {c} : conn'[d] = conn[d] /\ req'[d] = req[d] /\ out'[d] = out[d]
  BY <1>1, <1>2, BlankAnswers DEF States
<1>4. WebTypes'
  BY <1>1, <1>2, <1>3 DEF WebInv, WebTypes
<1>5. QueueOK'
  <2>1. /\ \A i \in 1 .. Len(queue) : queue[i] # c /\ queue[i] \in Conns
        /\ \A i \in 1 .. Len(queue) : conn[queue[i]] = "queued"
        /\ \A i, j \in 1 .. Len(queue) : queue[i] = queue[j] => i = j
    BY <1>1, <1>2, RunningIsNotQueued, ElementOfSeq DEF WebInv, QueueOK
  <2>2. /\ Len(queue') = Len(queue) + 1 /\ queue'[Len(queue) + 1] = c /\ Len(queue) \in Nat
        /\ \A i \in 1 .. Len(queue) : queue'[i] = queue[i]
    BY <1>1, <1>2
  <2>3. \A i \in 1 .. Len(queue') : i \in 1 .. Len(queue) \/ i = Len(queue) + 1
    BY <2>2
  <2>4. \A i \in 1 .. Len(queue') : conn'[queue'[i]] = "queued"
    BY <1>3, <2>1, <2>2, <2>3
  <2>5. \A i, j \in 1 .. Len(queue') : queue'[i] = queue'[j] => i = j
    BY <2>1, <2>2, <2>3
  <2>6. \A d \in hold' : conn'[d] = "running"
    BY <1>1, <1>2, <1>3 DEF WebInv, QueueOK
  <2> QED  BY <2>4, <2>5, <2>6 DEF QueueOK
<1>6. OthersKept(c) /\ Noted(c)
  BY <1>1, <1>3 DEF OthersKept, Noted, WebInv, WebTypes
<1>7. Handling(c)' /\ Told(c)'
  BY <1>3 DEF Handling, Told
<1> QED  BY <1>1, <1>4, <1>5, <1>6, <1>7, OthersStay DEF WebInv

LEMMA TakeInv ==
  ASSUME WebInv, NEW c \in Conns, Take(c)
  PROVE  WebInv'
<1>1. /\ queue # <<>> /\ c = Head(queue) /\ queue' = Tail(queue)
      /\ conn' = [conn EXCEPT ![c] = "running"]
      /\ todo' = [todo EXCEPT ![c] = Handler[req[c].api]]
      /\ seen' = [seen EXCEPT ![c] = {index}]
      /\ UNCHANGED <<tpm, hold, index, req, out>>
  BY DEF Take, Become, machine
<1>2. /\ conn \in [Conns -> States] /\ todo \in [Conns -> Seq(Steps)]
      /\ seen \in [Conns -> SUBSET Contents] /\ index \in Contents
      /\ queue \in Seq(Conns) /\ hold \subseteq Conns /\ req[c] \in Requests
  BY DEF WebInv, WebTypes
<1>3. /\ Len(queue) \in Nat \ {0} /\ queue[1] = c /\ Tail(queue) \in Seq(Conns)
      /\ Len(Tail(queue)) = Len(queue) - 1
      /\ \A i \in 1 .. Len(queue) - 1 : Tail(queue)[i] = queue[i + 1]
  <2>1. Len(queue) \in Nat \ {0}
    BY <1>1, <1>2, EmptySeq
  <2>2. Tail(queue) \in Seq(Conns) /\ Len(Tail(queue)) = Len(queue) - 1
    BY <1>1, <1>2, HeadTailProperties
  <2>3. \A i \in 1 .. Len(queue) - 1 : Tail(queue)[i] = queue[i + 1]
    BY <1>1, <1>2, <2>2, HeadTailProperties
  <2> QED  BY <1>1, <2>1, <2>2, <2>3
<1>4. conn[c] = "queued" /\ out[c] = Blank /\ c \notin hold
  <2>1. 1 \in 1 .. Len(queue)
    BY <1>3
  <2>2. conn[c] = "queued"
    BY <1>3, <2>1 DEF WebInv, QueueOK
  <2> QED  BY <2>2 DEF WebInv, QueueOK, Told
<1>5. /\ Handler[req[c].api] \in Seq(Steps) /\ WellMade(Handler[req[c].api])
      /\ req[c].api \in {"cvm", "tee"} => StagesFirst(Handler[req[c].api])
      /\ req[c].data # "none" => req[c].api \in {"cvm", "tee"}
  BY <1>2, HandlersWellMade, RequestsAssumption
<1>6. req[c].data = "none" => Asked(c) = None
  BY DEF Asked, Bytes
<1>7. /\ conn' \in [Conns -> States] /\ todo' \in [Conns -> Seq(Steps)]
      /\ seen' \in [Conns -> SUBSET Contents]
      /\ conn'[c] = "running" /\ todo'[c] = Handler[req[c].api] /\ seen'[c] = {index}
      /\ \A d \in Conns \ {c} : conn'[d] = conn[d] /\ todo'[d] = todo[d] /\ seen'[d] = seen[d]
  BY <1>1, <1>2, <1>5 DEF States
<1>8. WebTypes'
  BY <1>1, <1>3, <1>7 DEF WebInv, WebTypes
<1>9. QueueOK'
  <2>1. /\ \A i \in 1 .. Len(queue) : queue[i] \in Conns /\ conn[queue[i]] = "queued"
        /\ \A i, j \in 1 .. Len(queue) : queue[i] = queue[j] => i = j
    BY <1>2, ElementOfSeq DEF WebInv, QueueOK
  <2>2. \A i \in 1 .. Len(queue') :
          i + 1 \in 1 .. Len(queue) /\ queue'[i] = queue[i + 1] /\ queue'[i] # c
    <3>1. \A i \in 1 .. Len(queue') : i + 1 \in 1 .. Len(queue) /\ queue'[i] = queue[i + 1] /\ i + 1 # 1
      BY <1>1, <1>3
    <3>2. 1 \in 1 .. Len(queue)
      BY <1>3
    <3> QED  BY <1>3, <2>1, <3>1, <3>2
  <2>3. \A i \in 1 .. Len(queue') : conn'[queue'[i]] = "queued"
    BY <1>7, <2>1, <2>2
  <2>4. \A i, j \in 1 .. Len(queue') : queue'[i] = queue'[j] => i = j
    <3> SUFFICES ASSUME NEW i \in 1 .. Len(queue'), NEW j \in 1 .. Len(queue'), queue'[i] = queue'[j]
                 PROVE  i = j
      OBVIOUS
    <3>1. i + 1 = j + 1
      BY <2>1, <2>2
    <3> QED  BY <1>1, <1>3, <3>1
  <2>5. \A d \in hold' : conn'[d] = "running"
    BY <1>1, <1>2, <1>7 DEF WebInv, QueueOK
  <2> QED  BY <2>3, <2>4, <2>5 DEF QueueOK
<1>10. OthersKept(c) /\ Noted(c)
  BY <1>1, <1>2, <1>7 DEF OthersKept, Noted
<1>11. Handling(c)' /\ Told(c)'
  <2>1. Asked(c)' = Asked(c) /\ out'[c] = Blank
    BY <1>1, <1>4 DEF Asked
  <2>2. out'[c].report = None /\ out'[c].token = None
    BY <2>1, BlankAnswers
  <2> QED  BY <1>1, <1>4, <1>5, <1>6, <1>7, <2>1, <2>2
           DEF Handling, Told, Served, WellMade, StagesFirst
<1> QED  BY <1>1, <1>8, <1>9, <1>10, <1>11, OthersStay DEF WebInv

LEMMA ClientInv ==
  ASSUME WebInv, NEW c \in Conns, Client(c) \/ Accept(c)
  PROVE  WebInv'
<1>1. CASE Connect(c) \/ Handshake(c) \/ Accept(c)
  BY <1>1, BecomeInv DEF Connect, Handshake, Accept, machine, shared
<1>2. CASE \E r \in Requests : Send(c, r)
  BY <1>2, SendInv
<1>3. CASE Leave(c) /\ conn[c] \in {"queued", "running"}
  <2>1. UNCHANGED <<tpm, conn, req, todo, out, queue, hold, index, seen>>
    BY <1>3 DEF Leave, machine, shared
  <2> QED  BY <2>1 DEF WebInv, WebTypes, QueueOK, Handling, Told, Served, Asked
<1>4. CASE Leave(c) /\ conn[c] \notin {"queued", "running"}
  BY <1>4, BecomeInv DEF Leave, Close, machine, shared
<1> QED  BY <1>1, <1>2, <1>3, <1>4 DEF Client

LEMMA CrashInv ==
  ASSUME WebInv, NEW s \in Servers, Crash(s)
  PROVE  WebInv'
<1>1. /\ conn' = [c \in Conns |-> "free"] /\ todo' = [c \in Conns |-> <<>>]
      /\ queue' = <<>> /\ hold' = {}
      /\ out' = [c \in Conns |-> Blank] /\ seen' = [c \in Conns |-> {}]
      /\ req' = [c \in Conns |-> Any] /\ UNCHANGED <<tpm, index>>
  BY DEF Crash, machine
<1>2. WebTypes'
  BY <1>1, BlankAnswers, AnyIsRequest, EmptySeq DEF WebInv, WebTypes, States
<1>3. QueueOK'
  BY <1>1 DEF QueueOK
<1>4. \A c \in Conns : Handling(c)' /\ Told(c)'
  BY <1>1 DEF Handling, Told
<1> QED  BY <1>2, <1>3, <1>4 DEF WebInv

LEMMA WebInitInv == WebInit => WebInv
<1> SUFFICES ASSUME WebInit PROVE WebInv
  OBVIOUS
<1>1. /\ conn = [c \in Conns |-> "free"] /\ todo = [c \in Conns |-> <<>>]
      /\ queue = <<>> /\ hold = {} /\ index = "old" /\ tpm \in {"managed", "raw", "none"}
      /\ out = [c \in Conns |-> Blank] /\ seen = [c \in Conns |-> {}]
      /\ req = [c \in Conns |-> Any]
  BY DEF WebInit
<1>2. WebTypes
  BY <1>1, BlankAnswers, AnyIsRequest, EmptySeq DEF WebTypes, States, Contents
<1>3. QueueOK
  BY <1>1 DEF QueueOK
<1>4. \A c \in Conns : Handling(c) /\ Told(c)
  BY <1>1 DEF Handling, Told
<1> QED  BY <1>2, <1>3, <1>4 DEF WebInv

LEMMA WebNextInv == WebInv /\ [WebNext]_everything => WebInv'
<1> SUFFICES ASSUME WebInv, [WebNext]_everything PROVE WebInv'
  OBVIOUS
<1>1. CASE UNCHANGED web
  BY <1>1 DEF web, machine, requests, shared, WebInv, WebTypes, QueueOK, Handling, Told, Served, Asked
<1>2. CASE \E s \in Servers : Crash(s)
  BY <1>2, CrashInv
<1>3. CASE \E c \in Conns : Client(c) \/ Serve(c)
  BY <1>3, ClientInv, TakeInv, WorkInv DEF Serve
<1> QED  BY <1>1, <1>2, <1>3 DEF WebNext, everything

LEMMA WebInvariance == WebSpec => []WebInv
<1> QED  BY WebInitInv, WebNextInv, PTL DEF WebSpec

(***************************************************************************)
(* The report of an answer carries the request's user data, or what was    *)
(* staged while it ran; nothing is reported for user data that was refused *)
(* (api_cvm_report, api_tee_report and the handlers that read a report),   *)
(* for any number of connections and threads, clients that leave and kills.*)
(***************************************************************************)
THEOREM ReportsAreOfTheRequest == WebSpec => []ReportIsOfTheRequest
<1>1. WebInv => ReportIsOfTheRequest
  BY DEF WebInv, Told, Served, Answered, ReportIsOfTheRequest
<1> QED  BY <1>1, WebInvariance, PTL

(***************************************************************************)
(* A handler is refused the device only while another request, running,    *)
(* has it open: none that ended, failed or was abandoned keeps it, and     *)
(* none stands in its own way (Tpm::open in the handlers of main.rs).      *)
(***************************************************************************)
THEOREM RefusalsAreForAnother == WebSpec => []RefusedOnlyForAnother
<1>1. WebInv => RefusedOnlyForAnother
  <2> SUFFICES ASSUME WebInv, NEW c \in Conns, tpm # "none", ~CanOpen(c),
                      NEW step \in {"open", "probe", "reopen"}, At(c, step)
               PROVE  \E d \in Conns \ {c} : d \in hold /\ conn[d] = "running"
    BY DEF RefusedOnlyForAnother
  <2>1. PICK d \in hold : TRUE
    BY DEF CanOpen, WebInv, WebTypes
  <2>2. d \in Conns /\ conn[d] = "running"
    BY DEF WebInv, WebTypes, QueueOK
  <2>3. c \notin hold
    BY RestAfterHead DEF At, WebInv, WebTypes, Handling, Openers
  <2> QED  BY <2>1, <2>2, <2>3
<1> QED  BY <1>1, WebInvariance, PTL

(***************************************************************************)
(* A token the provider gave is in the answer, with its claims when they   *)
(* were asked for and it is a JWT, whatever the second opening does        *)
(* (api_guest_attest, api_tee_attest, decode_token).                       *)
(***************************************************************************)
THEOREM TokensReachClients == WebSpec => TokenReachesClient
<1>1. ASSUME WebInv, WebNext, NEW c \in Conns
      PROVE
       /\ out[c].token # None /\ conn[c] = "running"
       /\ conn'[c] = "answered"
       => /\ out'[c].result = "ok" /\ out'[c].token = out[c].token
          /\ req[c].decode /\ out[c].token = "jwt" => out'[c].claims = "jwt"
  <2> SUFFICES ASSUME out[c].token # None, conn[c] = "running", conn'[c] = "answered"
               PROVE  /\ out'[c].result = "ok" /\ out'[c].token = out[c].token
                      /\ req[c].decode /\ out[c].token = "jwt" => out'[c].claims = "jwt"
    OBVIOUS
  <2>0. conn \in [Conns -> States] /\ out \in [Conns -> Answers] /\ todo[c] \in Seq(Steps)
    BY <1>1 DEF WebInv, WebTypes
  <2>1. todo[c] # <<>> /\ Head(todo[c]) = "decode"
    BY <1>1, <2>0, RestOf DEF WebInv, Handling
  <2>2. ~UNCHANGED conn
    OBVIOUS
  <2>3. \A s \in Servers : ~Crash(s)
    BY DEF Crash
  <2>4. \A d \in Conns \ {c} : ~(Client(d) \/ Serve(d))
    BY <2>0 DEF Client, Serve, Connect, Handshake, Leave, Send, Accept, Take, Become, Close, Work,
       Open, Probe, Unprobe, Reopen, Detect, ParseUserData, Stage, ReadReport, Command, Pcrs, Log,
       Service, ChooseProvider, GuestEvidence, Submit, Decode, Continue, Answer, Fail, Finish, OpenTo
  <2>5. ~(Client(c) \/ Accept(c) \/ Take(c))
    <3>1. ~(Client(c) \/ Accept(c))
      BY <2>0, <2>2 DEF Client, Connect, Handshake, Leave, Send, Accept
    <3>2. ~Take(c)
      BY <2>0 DEF Take, Become
    <3> QED  BY <3>1, <3>2
  <2>6. Work(c)
    BY <1>1, <2>2, <2>3, <2>4, <2>5 DEF WebNext, Serve, web, requests, everything
  <2>7. Decode(c)
    BY <2>1, <2>6 DEF Work, At, Open, Probe, Unprobe, Reopen, Detect, ParseUserData, Stage,
       ReadReport, Command, Pcrs, Log, Service, ChooseProvider, GuestEvidence, Submit
  <2>8. \/ req[c].decode /\ Answer(c, Claims(c))
        \/ ~req[c].decode /\ Answer(c, out[c])
    BY <2>7 DEF Decode
  <2>9. c \notin gone
    BY <2>0, <2>8 DEF Answer, Finish, Close, Become
  <2>10. /\ req[c].decode => out'[c] = [Claims(c) EXCEPT !.result = "ok"]
         /\ ~req[c].decode => out'[c] = [out[c] EXCEPT !.result = "ok"]
    BY <2>0, <2>8, <2>9 DEF Answer, Finish
  <2>11. out[c] \in Answers /\ Claims(c) \in Answers /\ Claims(c).token = out[c].token
    BY <1>1, Parts
  <2>12. out[c].token = "jwt" => Claims(c).claims = "jwt"
    BY <2>11 DEF Claims, Answers
  <2> QED  BY <2>10, <2>11, <2>12 DEF Answers
<1> DEFINE Reached == \A c \in Conns :
       /\ out[c].token # None /\ conn[c] = "running"
       /\ conn'[c] = "answered"
       => /\ out'[c].result = "ok" /\ out'[c].token = out[c].token
          /\ req[c].decode /\ out[c].token = "jwt" => out'[c].claims = "jwt"
<1>2. WebInv /\ [WebNext]_everything => [Reached]_everything
  BY <1>1
<1> HIDE DEF Reached
<1>3. WebSpec => [][Reached]_everything
  BY <1>2, WebInvariance, PTL DEF WebSpec
<1> QED  BY <1>3, PTL DEF Reached, TokenReachesClient
=============================================================================
