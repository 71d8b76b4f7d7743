------------------------------ MODULE TpmExchange ------------------------------
(***************************************************************************)
(* One command of each function: a caller asks for something, the bytes    *)
(* the crate builds reach a TPM that takes them apart by the TPM 2.0       *)
(* structures, the TPM answers, and the function makes of the answer what  *)
(* it returns.  The TPM here is external and shares with the crate the     *)
(* primitive readers only.                                                 *)
(***************************************************************************)
EXTENDS TpmCommands

CONSTANTS
  Blobs,      \* byte strings used as data, digests, policies and authValues
  PcrLists    \* the selections of callers

VARIABLES
  request,   \* what the caller wants: a function and its arguments
  sent,      \* the command, or that the arguments were refused
  view,      \* what the TPM understood; code 0 if it rejects the command
  reply,     \* the bytes of the answer, and what it was made from
  result,    \* what the function returned
  pc         \* "ask", "sent", "replied" or "done"

vars == <<request, sent, view, reply, result, pc>>

Key == <<129, 1, 0, 3>>
Transient == <<128, 0, 0, 1>>
Index == <<1, 64, 0, 1>>

\* Public areas that TPMs have, RSA and ECC.
RsaPublic(scheme, modulus) ==
  <<RSA, SHA256, ObjectAttributes({"decrypt"}), <<5>>, <<NULL>>, scheme, Two(2048), Four(0), modulus>>
EccPublic == <<ECC, SHA256, ObjectAttributes({"sign_encrypt"}), <<>>, <<NULL>>, <<ECDSA, SHA256>>,
               P256, NULL, <<<<1, 2>>, <<3, 4>>>>>>
RsaBlob(p) == Sized(RsaPublicArea(p))
EccBlob(p) == Sized(EccPublicArea(p))
RsaPublics == {RsaPublic(s, m) : s \in {<<NULL>>, <<RSASSA, SHA256>>}, m \in Blobs}

NvPublics == {NewExtendIndex(Index, 32), NewOrdinaryIndex(Index, 300),
              NvPublic(Index, {"ownerwrite", "written", "platformcreate"}, 8)}
RsaSignature(b) == [scheme |-> RSASSA, parts |-> <<SHA256, b>>]
EccSignature(b) == [scheme |-> ECDSA, parts |-> <<SHA256, b, b>>]
Signatures == UNION {{RsaSignature(b), EccSignature(b)} : b \in Blobs}

Asks(op, args) == {[op |-> op, a |-> a] : a \in args}
Requests ==
  UNION {
    Asks("read_public", {[h |-> Key]}), Asks("flush_context", {[h |-> Transient]}),
    Asks("policy_get_digest", {[h |-> Transient]}), Asks("nv_read_public", {[h |-> Index]}),
    Asks("nv_undefine_space", {[h |-> Index]}),
    Asks("nv_define_space", [public : NvPublics, auth : Blobs]),
    Asks("create_primary", [hierarchy : {Owner, Endorsement}, pcrs : PcrLists,
                            public : {AkTemplate} \cup {EphemeralTemplate(b) : b \in Blobs}]),
    Asks("create_primary_ecc", [hierarchy : {Owner}, public : {EccTemplate(b) : b \in Blobs}]),
    Asks("load", [h : {Key}, auth : Blobs, private : Blobs, junk : {<<>>, <<1>>},
                  public : {RsaPublic(<<NULL>>, <<1>>)}]),
    Asks("quote_with_key", [h : {Key}, pcrs : PcrLists]),
    Asks("certify_with_key", [object : {Transient}, key : {Key}]),
    Asks("pcr_read", [pcrs : PcrLists \ {<<>>}]),
    Asks("evict_control", [persistent : {Key}, transient : {Transient}]),
    Asks("rsa_decrypt", [h : {Transient}, session : {TPM_RS_PW, <<3, 0, 0, 0>>},
                         cipher : UNION {[1 .. n -> {0, 9}] : n \in 0 .. MaxCipher + 1},
                         scheme : {RSAES, Oaep(SHA256)}]),
    Asks("start_auth_session", [nonce : Blobs, type : {1, 3}]),
    Asks("policy_pcr", [h : {Transient}, digest : Blobs, pcrs : PcrLists \ {<<>>}]),
    Asks("unseal", [h : {Key}, auth : Blobs]), Asks("sign", [h : {Key}, digest : Blobs]),
    Asks("verify_signature", [h : {Key}, digest : Blobs, signature : Signatures]),
    Asks("nv_extend", [h : {Index}, data : Blobs]),
    Asks("nv_certify", [h : {Index}, key : {Key}, data : Blobs, size : {32}, offset : {0, 256}]),
    Asks("nv_read_chunk", [h : {Index}, size : {300}, offset : {0, 1024}]),
    Asks("nv_write_chunk", [h : {Index}, data : Blobs, offset : {0, 1024}])}

Command(r) ==
  LET a == r.a IN
  CASE r.op = "read_public" -> read_public(a.h)
    [] r.op = "flush_context" -> flush_context(a.h)
    [] r.op = "policy_get_digest" -> policy_get_digest(a.h)
    [] r.op = "nv_read_public" -> nv_read_public(a.h)
    [] r.op = "nv_undefine_space" -> nv_undefine_space(a.h)
    [] r.op = "nv_define_space" -> nv_define_space(a.public, a.auth)
    [] r.op = "create_primary" -> create_primary(a.hierarchy, a.public, a.pcrs)
    [] r.op = "create_primary_ecc" -> create_primary_ecc(a.hierarchy, a.public)
    [] r.op = "load" -> load(a.h, a.auth, Sized(a.private), RsaBlob(a.public) \o a.junk)
    [] r.op = "quote_with_key" -> quote_with_key(a.h, a.pcrs)
    [] r.op = "certify_with_key" -> certify_with_key(a.object, a.key)
    [] r.op = "pcr_read" -> pcr_read(a.pcrs)
    [] r.op = "evict_control" -> evict_control(a.persistent, a.transient)
    [] r.op = "rsa_decrypt" -> rsa_decrypt(a.h, a.session, a.cipher, a.scheme)
    [] r.op = "start_auth_session" -> start_auth_session(a.nonce, a.type, SHA256)
    [] r.op = "policy_pcr" -> policy_pcr(a.h, a.digest, a.pcrs)
    [] r.op = "unseal" -> unseal(a.h, a.auth)
    [] r.op = "sign" -> sign(a.h, a.digest)
    [] r.op = "verify_signature" -> verify_signature(a.h, a.digest, a.signature)
    [] r.op = "nv_extend" -> nv_extend(a.h, a.data)
    [] r.op = "nv_certify" -> nv_certify(a.h, a.key, a.data, a.size, a.offset)
    [] r.op = "nv_read_chunk" -> nv_read_chunk(a.h, a.size, a.offset)
    [] r.op = "nv_write_chunk" -> nv_write_chunk(a.h, a.data, a.offset)

-----------------------------------------------------------------------------
(***************************************************************************)
(* The TPM: the structures of TPM 2.0, Part 3, by command code.            *)
(***************************************************************************)
Structure(code) ==
  LET S(h, auths, params) == [handles |-> h, auths |-> auths, params |-> params] IN
  CASE code = 305 -> S(1, 1, <<"sens", "area", "2b", "select">>)      \* TPM2_CreatePrimary
    [] code = 343 -> S(1, 1, <<"2b", "area">>)                        \* TPM2_Load
    [] code = 344 -> S(1, 1, <<"2b", "scheme", "select">>)            \* TPM2_Quote
    [] code = 328 -> S(2, 2, <<"2b", "scheme">>)                      \* TPM2_Certify
    [] code = 374 -> S(2, 0, <<"2b", "2b", "u8", "symmetric", "u16">>)  \* TPM2_StartAuthSession
    [] code = 383 -> S(1, 0, <<"2b", "select">>)                      \* TPM2_PolicyPCR
    [] code = 393 -> S(1, 0, <<>>)                                    \* TPM2_PolicyGetDigest
    [] code = 357 -> S(1, 0, <<>>)                                    \* TPM2_FlushContext
    [] code = 288 -> S(2, 1, <<"u32">>)                               \* TPM2_EvictControl
    [] code = 345 -> S(1, 1, <<"2b", "scheme", "2b">>)                \* TPM2_RSA_Decrypt
    [] code = 350 -> S(1, 1, <<>>)                                    \* TPM2_Unseal
    [] code = 371 -> S(1, 0, <<>>)                                    \* TPM2_ReadPublic
    [] code = 361 -> S(1, 0, <<>>)                                    \* TPM2_NV_ReadPublic
    [] code = 334 -> S(2, 1, <<"u16", "u16">>)                        \* TPM2_NV_Read
    [] code = 311 -> S(2, 1, <<"2b", "u16">>)                         \* TPM2_NV_Write
    [] code = 298 -> S(1, 1, <<"2b", "nv">>)                          \* TPM2_NV_DefineSpace
    [] code = 290 -> S(2, 1, <<>>)                                    \* TPM2_NV_UndefineSpace
    [] code = 310 -> S(2, 1, <<"2b">>)                                \* TPM2_NV_Extend
    [] code = 388 -> S(3, 2, <<"2b", "scheme", "u16", "u16">>)        \* TPM2_NV_Certify
    [] code = 382 -> S(0, 0, <<"select">>)                            \* TPM2_PCR_Read
    [] code = 349 -> S(1, 1, <<"2b", "scheme", "ticket">>)            \* TPM2_Sign
    [] code = 375 -> S(1, 0, <<"2b", "signature">>)                   \* TPM2_VerifySignature

(***************************************************************************)
(* Kinds the crate's readers do not have, or read otherwise.  The content  *)
(* of a sized structure must fill it.                                      *)
(***************************************************************************)
TpmUnion(t, d) == ReadTagged(t, IF t.val \in {NULL, RSAES} THEN <<>> ELSE <<"u16">>, d)
TpmSymmetric(t, d) == ReadTagged(t, IF t.val = NULL THEN <<>> ELSE <<"u16", "u16">>, d)
TpmSignatureOf(t, d) ==
  ReadTagged(t, IF t.val = ECDSA THEN <<"u16", "2b", "2b">> ELSE <<"u16", "2b">>, d)
Whole(b, r) == IF b.ok /\ r.ok /\ r.at = Len(b.val) THEN Got(r.val, b.at) ELSE Short
TpmPcrs(h, s) ==
  IF s.ok
  THEN Got({<<h.val[2], p>> : p \in {q \in 0 .. 8 * Len(s.val) - 1 :
                                       Bit(s.val[q \div 8 + 1], q % 8)}}, s.at)
  ELSE Short
TpmSelection(h, d, c) ==
  CASE SubSeq(d, c + 1, c + 4) = Four(0) -> Got({}, c + 4)
    [] h.ok /\ h.val[1] = Four(1) -> TpmPcrs(h, ReadFixed(Number(h.val[3]), d, h.at))
    [] OTHER -> Short
TpmNv(r) ==
  IF r.ok THEN Got(NvPublic(r.val[1], {a \in DOMAIN NvBit : NvBit[a] \in BitsOf(r.val[3])},
                            Number(r.val[5])), r.at)
  ELSE Short

RECURSIVE TpmReads(_, _, _), TpmReadMore(_, _, _)
TpmReadMore(r, kinds, d) ==
  IF kinds = <<>> \/ ~r.ok THEN r
  ELSE TpmReadMore(Appended(r, TpmReads(Head(kinds), d, r.at)), Tail(kinds), d)
TpmArea(d) ==
  TpmReadMore(Got(<<>>, 0), <<"u16", "u16", "u32", "2b", "symmetric", "scheme", "u16">>
                              \o (IF SubSeq(d, 1, 2) = ECC THEN <<"u16", "point">>
                                  ELSE <<"u32", "2b">>), d)
TpmSizedArea(b) == Whole(b, TpmArea(b.val))
TpmSensitive(b) == Whole(b, ReadFields(<<"2b", "2b">>, b.val, 0))
TpmSizedNv(b) == Whole(b, TpmNv(ReadFields(<<"u32", "u16", "u32", "2b", "u16">>, b.val, 0)))
TpmReads(kind, d, c) ==
  CASE kind = "sens" -> TpmSensitive(ReadSized(d, c))
    [] kind = "area" -> TpmSizedArea(ReadSized(d, c))
    [] kind = "select" -> TpmSelection(ReadFields(<<"u32", "u16", "u8">>, d, c), d, c)
    [] kind = "scheme" -> TpmUnion(ReadFixed(2, d, c), d)
    [] kind = "symmetric" -> TpmSymmetric(ReadFixed(2, d, c), d)
    [] kind = "point" -> ReadFields(<<"2b", "2b">>, d, c)
    [] kind = "nv" -> TpmSizedNv(ReadSized(d, c))
    [] kind = "ticket" -> ReadFields(<<"u16", "u32", "2b">>, d, c)
    [] kind = "signature" -> TpmSignatureOf(ReadFixed(2, d, c), d)
    [] kind = "auth" -> ReadFields(<<"u32", "2b", "u8", "2b">>, d, c)
    [] OTHER -> Unmarshal(kind, d, c)

\* Password and policy sessions, as many as the area has.
TpmAuths(size, r, n) ==
  IF size.ok /\ r.ok /\ r.at = size.at + Number(size.val)
  THEN Got([k \in 1 .. n |-> <<r.val[k][1], r.val[k][4]>>], r.at) ELSE Short
TpmAuthArea(size, d, n) ==
  TpmAuths(size, TpmReadMore(Got(<<>>, size.at), [k \in 1 .. n |-> "auth"], d), n)
TpmSessions(d, c, n) ==
  IF SubSeq(d, 1, 2) = ST_SESSIONS THEN TpmAuthArea(ReadFixed(4, d, c), d, n) ELSE Got(<<>>, c)

Rejected == [code |-> 0, handles |-> <<>>, auths |-> <<>>, params |-> <<>>]
Understood(d, code, s, h, a, p) ==
  IF /\ Number(SubSeq(d, 3, 6)) = Len(d) /\ h.ok /\ a.ok /\ p.ok /\ p.at = Len(d)
     /\ SubSeq(d, 1, 2) = ST_SESSIONS <=> s.auths > 0
  THEN [code |-> code, handles |-> h.val, auths |-> a.val, params |-> p.val]
  ELSE Rejected
TpmParams(d, code, s, h, a) ==
  Understood(d, code, s, h, a, TpmReadMore(Got(<<>>, a.at), s.params, d))
TpmAuthorized(d, code, s, h) == TpmParams(d, code, s, h, TpmSessions(d, h.at, s.auths))
TpmHandles(d, code, s) ==
  TpmAuthorized(d, code, s, ReadFields([k \in 1 .. s.handles |-> "u32"], d, 10))
TpmCode(d, code) == TpmHandles(d, code, Structure(code))
TpmView(d) == TpmCode(d, Number(SubSeq(d, 7, 10)))

-----------------------------------------------------------------------------
(***************************************************************************)
(* What each request means to the TPM.                                     *)
(***************************************************************************)
Chosen(pcrs) == {<<SHA256, p>> : p \in ToSet(pcrs)}
InRange(pcrs) == \A p \in ToSet(pcrs) : p <= 23
Pw(auth) == <<TPM_RS_PW, auth>>
NoPw == Pw(<<>>)

Meant(r) ==
  LET a == r.a
      M(code, h, auths, params) ==
        [code |-> code, handles |-> h, auths |-> auths, params |-> params]
  IN
  CASE r.op = "read_public" -> M(371, <<a.h>>, <<>>, <<>>)
    [] r.op = "flush_context" -> M(357, <<a.h>>, <<>>, <<>>)
    [] r.op = "policy_get_digest" -> M(393, <<a.h>>, <<>>, <<>>)
    [] r.op = "nv_read_public" -> M(361, <<a.h>>, <<>>, <<>>)
    [] r.op = "nv_undefine_space" -> M(290, <<Owner, a.h>>, <<NoPw>>, <<>>)
    [] r.op = "nv_define_space" ->
         M(298, <<Owner>>, <<NoPw>>,
           <<a.auth, [a.public EXCEPT !.attributes = @ \ {"written", "platformcreate"}]>>)
    [] r.op = "create_primary" ->
         M(305, <<a.hierarchy>>, <<NoPw>>,
           <<<<<<>>, <<>>>>, a.public, <<>>, {x \in Chosen(a.pcrs) : x[2] <= 23}>>)
    [] r.op = "create_primary_ecc" ->
         M(305, <<a.hierarchy>>, <<NoPw>>, <<<<<<>>, <<>>>>, a.public, <<>>, {}>>)
    [] r.op = "load" -> M(343, <<a.h>>, <<Pw(a.auth)>>, <<a.private, a.public>>)
    [] r.op = "quote_with_key" ->
         M(344, <<a.h>>, <<NoPw>>, <<<<>>, <<RSASSA, SHA256>>, Chosen(a.pcrs)>>)
    [] r.op = "certify_with_key" -> M(328, <<a.object, a.key>>, <<NoPw, NoPw>>, <<<<>>, <<NULL>>>>)
    [] r.op = "pcr_read" -> M(382, <<>>, <<>>, <<Chosen(a.pcrs)>>)
    [] r.op = "evict_control" -> M(288, <<Owner, a.transient>>, <<NoPw>>, <<a.persistent>>)
    [] r.op = "rsa_decrypt" ->
         M(345, <<a.h>>, <<<<a.session, <<>>>>>>,
           <<IF Len(a.cipher) = Modulus + 1 /\ a.cipher[1] = 0 THEN Tail(a.cipher) ELSE a.cipher,
             IF a.scheme = RSAES THEN <<RSAES>> ELSE <<OAEP, SHA256>>, <<>>>>)
    [] r.op = "start_auth_session" ->
         M(374, <<NullHierarchy, NullHierarchy>>, <<>>, <<a.nonce, <<>>, <<a.type>>, <<NULL>>, SHA256>>)
    [] r.op = "policy_pcr" ->
         M(383, <<a.h>>, <<>>, <<a.digest, Chosen(a.pcrs)>>)
    [] r.op = "unseal" -> M(350, <<a.h>>, <<Pw(a.auth)>>, <<>>)
    [] r.op = "sign" ->
         M(349, <<a.h>>, <<NoPw>>, <<a.digest, <<NULL>>, <<<<128, 36>>, NullHierarchy, <<>>>>>>)
    [] r.op = "verify_signature" ->
         M(375, <<a.h>>, <<>>, <<a.digest, <<a.signature.scheme>> \o a.signature.parts>>)
    [] r.op = "nv_extend" -> M(310, <<Owner, a.h>>, <<NoPw>>, <<a.data>>)
    [] r.op = "nv_certify" ->
         M(388, <<a.key, a.h, a.h>>, <<NoPw, NoPw>>,
           <<a.data, <<RSASSA, SHA256>>, Two(a.size), Two(a.offset)>>)
    [] r.op = "nv_read_chunk" ->
         M(334, <<Owner, a.h>>, <<NoPw>>, <<Two(a.size), Two(a.offset)>>)
    [] r.op = "nv_write_chunk" -> M(311, <<Owner, a.h>>, <<NoPw>>, <<a.data, Two(a.offset)>>)

\* The arguments no command should be sent for.
Invalid(r) ==
  \/ r.op \in {"quote_with_key", "pcr_read", "policy_pcr"} /\ ~InRange(r.a.pcrs)
  \/ r.op = "nv_extend" /\ (r.a.data = <<>> \/ Len(r.a.data) > MaxExtend)
  \/ r.op = "nv_certify" /\ Len(r.a.data) > MaxQualifying
  \/ r.op = "nv_define_space" /\ Len(r.a.auth) > MaxAuth
  \/ r.op = "load" /\ r.a.junk # <<>>
  \/ r.op = "rsa_decrypt" /\ Len(r.a.cipher) > MaxCipher
     /\ ~(Len(r.a.cipher) = Modulus + 1 /\ r.a.cipher[1] = 0)

-----------------------------------------------------------------------------
(***************************************************************************)
(* What the TPM answers: the handle, the bytes of the parameters, what the *)
(* caller is to get of them, and whether they hold an ECC public area.     *)
(***************************************************************************)
Gives(handle, params, truth) ==
  [handle |-> handle, params |-> params, truth |-> Answer(truth), ecc |-> FALSE]
TpmTicket(tag, b) == tag \o Owner \o Sized(b)
\* A selection of n bytes.
TpmSelected(n, bits) == Four(1) \o SHA256 \o <<n, bits>> \o [k \in 1 .. n - 1 |-> 0]
Selected(n, bits) == <<[alg |-> SHA256, size |-> n, select |-> <<bits, 0, 0>>]>>
TpmAttest(type, b, bits) ==
  <<255, 84, 67, 71>> \o type \o Sized(b) \o Sized(b) \o [k \in 1 .. 25 |-> 0]
    \o TpmSelected(3, bits) \o Sized(b)
TpmNvPublic(p) ==
  Sized(p.index \o p.name_alg \o NvAttributes(p.attributes) \o Sized(p.policy) \o Two(p.size))
TpmSignature(s) ==
  s.scheme \o s.parts[1] \o FlattenSeq([k \in 1 .. Len(s.parts) - 1 |-> Sized(s.parts[k + 1])])

Created(blob, b) == blob \o Sized(b) \o Sized(b) \o TpmTicket(<<128, 33>>, b) \o Sized(b)

Gifts(r) ==
  CASE r.op = "read_public" ->
         {Gives(<<>>, RsaBlob(p) \o Sized(b) \o Sized(b), RsaBlob(p)) : p \in RsaPublics, b \in Blobs}
           \cup {[Gives(<<>>, EccBlob(EccPublic) \o Sized(b) \o Sized(b), EccBlob(EccPublic))
                    EXCEPT !.ecc = TRUE] : b \in Blobs}
    [] r.op = "create_primary" ->
         {Gives(Transient, Created(RsaBlob(p), b), <<Transient, RsaBlob(p)>>) :
            p \in RsaPublics, b \in Blobs}
    [] r.op = "create_primary_ecc" ->
         {[Gives(Transient, Created(EccBlob(EccPublic), b), <<Transient, EccBlob(EccPublic)>>)
             EXCEPT !.ecc = TRUE] : b \in Blobs}
    [] r.op = "load" -> {Gives(Transient, Sized(b), <<Transient, b>>) : b \in Blobs}
    [] r.op = "start_auth_session" -> {Gives(Transient, Sized(b), Transient) : b \in Blobs}
    [] r.op \in {"quote_with_key", "certify_with_key"} ->
         {LET at == TpmAttest(IF r.op = "quote_with_key" THEN <<128, 24>> ELSE <<128, 23>>, b, bits)
              g == Gives(<<>>, Sized(at) \o TpmSignature(s), <<at, s.parts[2]>>)
          IN IF s.scheme = RSASSA THEN g ELSE [g EXCEPT !.truth = Error] :
            b \in Blobs, bits \in {0, 5}, s \in Signatures}
    [] r.op = "nv_certify" ->
         {Gives(<<>>, Sized(b) \o TpmSignature(s), <<b, TpmSignature(s)>>) :
            b \in Blobs, s \in Signatures}
    [] r.op = "sign" -> {Gives(<<>>, TpmSignature(s), s) : s \in Signatures}
    [] r.op = "verify_signature" -> {Gives(<<>>, TpmTicket(<<128, 34>>, b), <<>>) : b \in Blobs}
    [] r.op = "nv_read_public" ->
         {Gives(<<>>, TpmNvPublic(p) \o Sized(b), p) : p \in NvPublics, b \in Blobs}
    [] r.op = "pcr_read" ->
         {Gives(<<>>, Four(7) \o TpmSelected(n, bits) \o Four(Len(ds))
                        \o FlattenSeq([k \in 1 .. Len(ds) |-> Sized(ds[k])]),
                <<Selected(n, bits), ds>>) :
            n \in {1, 3}, bits \in {0, 5}, ds \in {<<>>} \cup {<<b, b>> : b \in Blobs}}
    [] r.op = "policy_get_digest" ->
         {[Gives(<<>>, Sized(b), b) EXCEPT !.truth = IF Len(b) < 2 THEN Error ELSE @] : b \in Blobs}
    [] r.op \in {"nv_read_chunk", "unseal", "rsa_decrypt"} ->
         {Gives(<<>>, Sized(b), b) : b \in Blobs}
    [] OTHER -> {Gives(<<>>, <<>>, <<>>)}

\* Where sessions were used, the size of the parameters and an area per session surround them.
TpmResponse(auths, g) ==
  LET area == FlattenSeq([k \in 1 .. Len(auths) |->
                IF auths[k][1] = TPM_RS_PW THEN <<0, 0, 1, 0, 0>> ELSE <<0, 1, 7, 1, 0, 0>>])
      body == IF auths = <<>> THEN g.handle \o g.params
              ELSE g.handle \o Four(Len(g.params)) \o g.params \o area
  IN (IF auths = <<>> THEN ST_NO_SESSIONS ELSE ST_SESSIONS) \o Four(10 + Len(body)) \o Four(0) \o body

-----------------------------------------------------------------------------
Nothing == Gives(<<>>, <<>>, <<>>)

Init ==
  /\ request \in Requests
  /\ sent = Refused /\ view = Rejected
  /\ reply = [bytes |-> <<>>, kind |-> "none", gift |-> Nothing]
  /\ result = Error /\ pc = "ask"

Send ==
  /\ pc = "ask"
  /\ sent' = Command(request)
  /\ IF sent'.ok THEN view' = TpmView(sent'.bytes) /\ pc' = "sent"
     ELSE UNCHANGED view /\ pc' = "done"
  /\ UNCHANGED <<request, reply, result>>

\* The TPM answers, or refuses; the answer arrives whole, cut or with a byte too many.
Reply ==
  /\ pc = "sent" /\ pc' = "replied"
  /\ \/ \E g \in Gifts(request) :
          LET whole == TpmResponse(view.auths, g)
          IN \/ reply' = [bytes |-> whole, kind |-> "whole", gift |-> g]
             \/ reply' = [bytes |-> Append(whole, 0), kind |-> "longer", gift |-> g]
             \/ \E cut \in 0 .. Len(whole) - 1 :
                  reply' = [bytes |-> SubSeq(whole, 1, cut), kind |-> "cut", gift |-> g]
     \/ reply' = [bytes |-> ST_NO_SESSIONS \o Four(10) \o Four(395), kind |-> "refused",
                  gift |-> Nothing]
  /\ UNCHANGED <<request, sent, view, result>>

Take ==
  /\ pc = "replied" /\ pc' = "done"
  /\ result' = Result(request.op, sent.row, reply.bytes)
  /\ UNCHANGED <<request, sent, view, reply>>

Finished == pc = "done" /\ UNCHANGED vars

Next == Send \/ Reply \/ Take \/ Finished
Spec == Init /\ [][Next]_vars

-----------------------------------------------------------------------------
(***************************************************************************)
(* Every command reaches the TPM as what its caller asked for: its handles *)
(* in their places, a session for each that needs one, parameters as       *)
(* given, sizes right; and a command is sent unless the arguments are not  *)
(* valid (build_command_*, the commands of commands.rs and types.rs).      *)
(***************************************************************************)
CommandsMeanWhatWasAsked ==
  /\ pc = "sent" => view = Meant(request) /\ ~Invalid(request)
  /\ (pc = "done" /\ reply.kind = "none") => Invalid(request)

(***************************************************************************)
(* A function succeeds with exactly what the TPM answered, and only if the *)
(* whole answer arrived; an answer it has no use for (a signature that is  *)
(* not RSASSA, a policy digest of no byte or one, which leaves the         *)
(* response shorter than the functions accept) is an error (the from_bytes *)
(* of types.rs and their callers).                                         *)
(* Not so of an ECC public area, which is decoded with RSA's layout: that  *)
(* the call succeeds is checked, what is left of the area is not.          *)
(***************************************************************************)
AnswersTaken ==
  (pc = "done" /\ reply.kind # "none") =>
     IF reply.kind = "whole"
     THEN result.ok = reply.gift.truth.ok /\ (reply.gift.ecc \/ result = reply.gift.truth)
     ELSE ~result.ok

(***************************************************************************)
(* What a quote attests is read back from it, and no other structure the   *)
(* TPM signs is taken for a quote (parse_quote_attestation).               *)
(***************************************************************************)
QuotesReadBack ==
  (pc = "done" /\ reply.kind = "whole"
     /\ request.op \in {"quote_with_key", "certify_with_key"}) =>
   \A b \in Blobs, bits \in {0, 5} :
     /\ parse_quote_attestation(TpmAttest(<<128, 24>>, b, bits))
          = Answer([extra |-> b, pcrs |-> Selected(3, bits), digest |-> b])
     /\ result.ok /\ request.op = "certify_with_key" => ~parse_quote_attestation(result.val[1]).ok
=============================================================================
