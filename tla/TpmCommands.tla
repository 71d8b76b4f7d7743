------------------------------ MODULE TpmCommands ------------------------------
(***************************************************************************)
(* The functions of TpmCommandExt (commands.rs): how each builds its       *)
(* command from its arguments and what it takes from the response.  A row  *)
(* per command (types.rs) says its code, how its parameters are written    *)
(* and how its response is read.  What several commands of one function do *)
(* together is in the modules named for them (PcrRead, EphemeralKey,       *)
(* NvIndex ...); here one command is one exchange.                         *)
(***************************************************************************)
EXTENDS TpmWire

CONSTANTS
  MaxExtend,       \* 1024 in the code: the longest data of NV_Extend
  MaxQualifying,   \* 64 in the code: the longest qualifying data of NV_Certify
  Modulus,         \* 256 in the code: the bytes of an RSA modulus
  MaxCipher,       \* 512 in the code: the longest ciphertext
  MaxAuth          \* 65535 in the code: the longest authValue of NV_DefineSpace

ASSUME LimitsAssumption == {MaxExtend, MaxQualifying, Modulus, MaxCipher, MaxAuth} \subseteq Nat

Row(code, write, handle, size, kinds) ==
  [code |-> code, write |-> write, handle |-> handle, size |-> size, kinds |-> kinds]

\* write lists how each parameter is written: as it is ("raw"), as a TPM2B ("2b"), ...
CreatePrimaryRow ==
  Row(305, <<"raw", "2b", "2b", "pcrs">>, TRUE, "always",
      <<"public", "2b", "2b", "ticket", "2b", "2b">>)
LoadRow == Row(343, <<"2b", "rsa">>, TRUE, "exact", <<"2b">>)
QuoteRow == Row(344, <<"2b", "raw", "pcrs">>, FALSE, "exact", <<"2b", "sig">>)
CertifyRow == Row(328, <<"2b", "raw">>, FALSE, "exact", <<"2b", "sig">>)
StartAuthSessionRow == Row(374, <<"2b", "2b", "raw", "raw", "raw">>, TRUE, "exact", <<"2b">>)
PolicyPcrRow == Row(383, <<"2b", "pcrs">>, FALSE, "none", <<>>)
PolicyGetDigestRow == Row(393, <<>>, FALSE, "exact", <<"2b">>)
FlushContextRow == Row(357, <<>>, FALSE, "none", <<>>)
EvictControlRow == Row(288, <<"raw">>, FALSE, "bounded", <<>>)
RsaDecryptRow == Row(345, <<"2b", "raw", "2b">>, FALSE, "exact", <<"2b">>)
UnsealRow == Row(350, <<>>, FALSE, "exact", <<"2b">>)
ReadPublicRow == Row(371, <<>>, FALSE, "exact", <<"public", "2b", "2b">>)
NvReadPublicRow == Row(361, <<"raw">>, FALSE, "exact", <<"nvpublic">>)
NvReadRow == Row(334, <<"raw", "raw">>, FALSE, "exact", <<"2b">>)
NvWriteRow == Row(311, <<"2b", "raw">>, FALSE, "bounded", <<>>)
NvDefineSpaceRow == Row(298, <<"2b", "raw">>, FALSE, "bounded", <<>>)
NvUndefineSpaceRow == Row(290, <<>>, FALSE, "bounded", <<>>)
NvExtendRow == Row(310, <<"2b">>, FALSE, "bounded", <<>>)
NvCertifyRow == Row(388, <<"2b", "raw", "raw", "raw">>, FALSE, "bounded", <<"2b", "sig">>)
PcrReadRow == Row(382, <<"pcrs">>, FALSE, "exact", <<"u32", "pcrs", "digests">>)
SignRow == Row(349, <<"2b", "raw", "raw">>, FALSE, "skip", <<"sig">>)
VerifySignatureRow == Row(375, <<"2b", "raw">>, FALSE, "none", <<"ticket">>)

Marshal(how, v) ==
  CASE how = "raw" -> v
    [] how = "2b" -> Sized(v)
    [] how = "rsa" -> Sized(RsaPublicArea(v))
    [] how = "pcrs" -> PcrSelections(v)
Written(row, params) ==
  FlattenSeq([k \in 1 .. Len(params) |-> Marshal(row.write[k], params[k])])

\* What a function sends and reads, or that it refuses its arguments.
Refused == [ok |-> FALSE]
Plain(row, handles, params) ==
  [ok |-> TRUE, row |-> row, bytes |-> NoSessions(row.code, handles, Written(row, params))]
Authorized(row, handles, auths, params) ==
  [ok |-> TRUE, row |-> row, bytes |-> PwSessions(row.code, handles, auths, Written(row, params))]
NoAuth == <<>>

-----------------------------------------------------------------------------
(***************************************************************************)
(* The command of each function.                                           *)
(***************************************************************************)
read_public(handle) == Plain(ReadPublicRow, <<handle>>, <<>>)

nv_read_public(index) == Plain(NvReadPublicRow, <<>>, <<index>>)

nv_define_space(public, auth) ==
  IF Len(auth) > MaxAuth THEN Refused
  ELSE Authorized(NvDefineSpaceRow, <<Owner>>, <<NoAuth>>, <<auth, NvPublicArea(public)>>)

nv_undefine_space(index) == Authorized(NvUndefineSpaceRow, <<Owner, index>>, <<NoAuth>>, <<>>)

\* create_primary: public is an RSA template.
create_primary(hierarchy, public, pcrs) ==
  Authorized(CreatePrimaryRow, <<hierarchy>>, <<NoAuth>>,
             <<SensitiveCreate, RsaPublicArea(public), <<>>, FromPcrs(pcrs)>>)

create_primary_ecc(hierarchy, public) ==
  Authorized(CreatePrimaryRow, <<hierarchy>>, <<NoAuth>>,
             <<SensitiveCreate, EccPublicArea(public), <<>>, FromPcrs(<<>>)>>)

\* load: both blobs are parsed first, and may not have anything after them.
LoadParsed(parent, auth, priv, pub, private, public) ==
  IF priv.ok /\ priv.at = Len(private) /\ pub.ok /\ pub.at = Len(public)
  THEN Authorized(LoadRow, <<parent>>, <<auth>>, <<priv.val, pub.val>>)
  ELSE Refused
load(parent, auth, private, public) ==
  LoadParsed(parent, auth, ReadSized(private, 0), Unmarshal("public", public, 0), private, public)

OutOfRange(pcrs) == \E p \in ToSet(pcrs) : p > 23

quote_with_key(key, pcrs) ==
  IF OutOfRange(pcrs) THEN Refused
  ELSE Authorized(QuoteRow, <<key>>, <<NoAuth>>, <<<<>>, Rsassa(SHA256), FromPcrs(pcrs)>>)

certify_with_key(object, key) ==
  Authorized(CertifyRow, <<object, key>>, <<NoAuth, NoAuth>>, <<<<>>, NULL>>)

flush_context(handle) == Plain(FlushContextRow, <<handle>>, <<>>)

\* One command of read_pcrs_for_alg, which has checked the indices before.
pcr_read(pcrs) ==
  IF OutOfRange(pcrs) THEN Refused ELSE Plain(PcrReadRow, <<>>, <<FromPcrs(pcrs)>>)

evict_control(persistent, transient) ==
  Authorized(EvictControlRow, <<Owner, transient>>, <<NoAuth>>, <<persistent>>)

\* rsa_decrypt: session is TPM_RS_PW when no PCRs are given.
WithoutLeadingZero(cipher) ==
  IF Len(cipher) = Modulus + 1 /\ cipher[1] = 0 THEN Tail(cipher) ELSE cipher
RsaDecryptOf(key, session, c, scheme) ==
  IF Len(c) > MaxCipher THEN Refused
  ELSE [ok |-> TRUE, row |-> RsaDecryptRow,
        bytes |-> CustomSessions(RsaDecryptRow.code, <<key>>, <<Session(session, NoAuth)>>,
                                 Written(RsaDecryptRow, <<c, scheme, <<>>>>))]
rsa_decrypt(key, session, cipher, scheme) ==
  RsaDecryptOf(key, session, WithoutLeadingZero(cipher), scheme)

\* nonce has 16 bytes in the code.
start_auth_session(nonce, type, hash) ==
  Plain(StartAuthSessionRow, <<NullHierarchy, NullHierarchy>>,
        <<nonce, <<>>, <<type>>, SymDef(<<NULL>>), hash>>)

\* policy_pcr: the digest is of the values read before, and their read refuses
\* an index out of range.
policy_pcr(session, digest, pcrs) ==
  IF OutOfRange(pcrs) THEN Refused
  ELSE Plain(PolicyPcrRow, <<session>>, <<digest, FromPcrs(pcrs)>>)

policy_get_digest(session) == Plain(PolicyGetDigestRow, <<session>>, <<>>)

unseal(item, auth) == Authorized(UnsealRow, <<item>>, <<auth>>, <<>>)

sign(key, digest) == Authorized(SignRow, <<key>>, <<NoAuth>>, <<digest, NULL, NullTicket>>)

verify_signature(key, digest, signature) ==
  Plain(VerifySignatureRow, <<key>>, <<digest, Signature(signature)>>)

nv_extend(index, data) ==
  IF data = <<>> \/ Len(data) > MaxExtend THEN Refused
  ELSE Authorized(NvExtendRow, <<Owner, index>>, <<NoAuth>>, <<data>>)

nv_certify(index, key, data, size, offset) ==
  IF Len(data) > MaxQualifying THEN Refused
  ELSE Authorized(NvCertifyRow, <<key, index, index>>, <<NoAuth, NoAuth>>,
                  <<data, Rsassa(SHA256), Two(size), Two(offset)>>)

nv_read_chunk(index, size, offset) ==
  Authorized(NvReadRow, <<Owner, index>>, <<NoAuth>>, <<Two(size), Two(offset)>>)

nv_write_chunk(index, chunk, offset) ==
  Authorized(NvWriteRow, <<Owner, index>>, <<NoAuth>>, <<chunk, Two(offset)>>)

-----------------------------------------------------------------------------
(***************************************************************************)
(* What a function makes of the response to its command: the value it      *)
(* returns, or an error.  A function that reads no response parameters     *)
(* (PolicyPCR, FlushContext) looks at the response code only.              *)
(***************************************************************************)
Error == [ok |-> FALSE, val |-> <<>>]
Answer(v) == [ok |-> TRUE, val |-> v]

OnlyRsassa(s, v) == IF s.scheme = RSASSA THEN Answer(v) ELSE Error

\* handle and p are the handle and the parameters of the response.
Returned(op, handle, p) ==
  CASE op \in {"create_primary", "create_primary_ecc"} ->
         Answer(<<handle, Sized(RsaPublicArea(p[1]))>>)
    [] op = "read_public" -> Answer(Sized(RsaPublicArea(p[1])))
    [] op = "load" -> Answer(<<handle, p[1]>>)
    [] op = "start_auth_session" -> Answer(handle)
    [] op \in {"quote_with_key", "certify_with_key"} ->
         OnlyRsassa(p[2], <<p[1], p[2].parts[2]>>)
    [] op = "nv_certify" -> Answer(<<p[1], Signature(p[2])>>)
    [] op \in {"nv_read_public", "nv_read_chunk", "unseal", "rsa_decrypt", "sign",
               "policy_get_digest"} -> Answer(p[1])
    [] op = "pcr_read" -> Answer(<<p[2], p[3]>>)
    [] OTHER -> Answer(<<>>)
ResultOf(op, r) == IF r.ok THEN Returned(op, r.val.handle, r.val.params) ELSE Error

\* These refuse a response with less than four bytes after the header.
ChecksLength ==
  {"read_public", "nv_read_public", "create_primary", "load", "certify_with_key", "pcr_read",
   "policy_get_digest", "start_auth_session", "unseal"}
LongEnough(op, resp) == op \in ChecksLength => Len(resp) >= 14

Result(op, row, resp) ==
  IF Accepted(resp) /\ LongEnough(op, resp) THEN ResultOf(op, FromBytes(row, resp)) ELSE Error

-----------------------------------------------------------------------------
(***************************************************************************)
(* parse_quote_attestation: TPMS_ATTEST of a quote, without its magic,     *)
(* signer, clock and firmware version.                                     *)
(***************************************************************************)
QuoteFields(v) == Answer([extra |-> v[4], pcrs |-> v[7], digest |-> v[8]])
\* Faulty variant: the type is not looked at.
QuoteOf_AnyType(r) == IF r.ok THEN QuoteFields(r.val) ELSE Error
QuoteOf(r) == IF r.ok /\ r.val[2] = <<128, 24>> THEN QuoteFields(r.val) ELSE Error
parse_quote_attestation(d) ==
  IF Len(d) < 20 THEN Error
  ELSE QuoteOf(ReadFields(<<"u32", "u16", "2b", "2b", "clock", "firmware", "pcrs", "2b">>, d, 0))
=============================================================================
