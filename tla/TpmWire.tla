-------------------------------- MODULE TpmWire --------------------------------
(***************************************************************************)
(* The marshalling layer of the TPM crate (types.rs, helpers.rs): bytes,   *)
(* sized buffers, the structures built from them, command assembly and the *)
(* response header.  Bytes are 0 .. 255; a u32 that is no size is kept as  *)
(* its four bytes.  Cursors count the bytes consumed, as in the code.      *)
(***************************************************************************)
EXTENDS Integers, Sequences, SequencesExt

\* Algorithm identifiers and tags, big-endian.
RSA == <<0, 1>>    NULL == <<0, 16>>   RSASSA == <<0, 20>>  RSAES == <<0, 21>>
OAEP == <<0, 23>>  ECDSA == <<0, 24>>  ECC == <<0, 35>>     RSAPSS == <<0, 22>>
SHA256 == <<0, 11>>
P256 == <<0, 3>>
ST_NO_SESSIONS == <<128, 1>>
ST_SESSIONS == <<128, 2>>

Owner == <<64, 0, 0, 1>>
NullHierarchy == <<64, 0, 0, 7>>
Endorsement == <<64, 0, 0, 11>>
TPM_RS_PW == <<64, 0, 0, 9>>

NvBit == [ppwrite |-> 0, ownerwrite |-> 1, authwrite |-> 2, policywrite |-> 3, counter |-> 4,
          bits |-> 5, extend |-> 6, unused |-> 7, policy_delete |-> 10, writelocked |-> 11, writeall |-> 12,
          writedefine |-> 13, write_stclear |-> 14, globallock |-> 15, ppread |-> 16,
          ownerread |-> 17, authread |-> 18, policyread |-> 19, no_da |-> 25, orderly |-> 26,
          clear_stclear |-> 27, readlocked |-> 28, written |-> 29, platformcreate |-> 30,
          read_stclear |-> 31]
ObjectBit == [fixed_tpm |-> 1, st_clear |-> 2, fixed_parent |-> 4, sensitive_data_origin |-> 5,
              user_with_auth |-> 6, admin_with_policy |-> 7, no_da |-> 10,
              encrypted_duplication |-> 11, restricted |-> 16, decrypt |-> 17,
              sign_encrypt |-> 18]

-----------------------------------------------------------------------------
(***************************************************************************)
(* Writing.                                                                *)
(***************************************************************************)
Two(n) == <<(n \div 256) % 256, n % 256>>
Four(n) == <<n \div 16777216, (n \div 65536) % 256, (n \div 256) % 256, n % 256>>

\* A TPM2B: the length is cast to u16.
Sized(b) == Two(Len(b)) \o b

\* The byte holding the bits from lowest to lowest + 7 of a set of bit numbers.
ByteAt(lowest, bits) ==
  MapThenSumSet(LAMBDA i : 2 ^ (i - lowest), {i \in bits : lowest <= i /\ i < lowest + 8})
BitField(bits) == [k \in 1 .. 4 |-> ByteAt(8 * (4 - k), bits)]
NvAttributes(names) == BitField({NvBit[a] : a \in names})
ObjectAttributes(names) == BitField({ObjectBit[a] : a \in names})

\* Faulty variant: the PCR numbers a bit counts from the top of its byte.
FromPcrs_TopDown(pcrs) ==
  IF pcrs = <<>> THEN <<>>
  ELSE << [alg |-> SHA256, size |-> 3,
           select |-> [k \in 1 .. 3 |->
              MapThenSumSet(LAMBDA p : 2 ^ (7 - (p % 8)),
                            {p \in ToSet(pcrs) : p <= 23 /\ p \div 8 = k - 1})]] >>

\* PcrSelectionList::from_pcrs: one bank, PCRs above 23 left out.
FromPcrs(pcrs) ==
  IF pcrs = <<>> THEN <<>>
  ELSE << [alg |-> SHA256, size |-> 3,
           select |-> [k \in 1 .. 3 |-> ByteAt(8 * (k - 1), {p \in ToSet(pcrs) : p <= 23})]] >>

PcrSelections(l) ==
  Four(Len(l)) \o FlattenSeq([k \in 1 .. Len(l) |->
                    l[k].alg \o <<l[k].size>> \o SubSeq(l[k].select, 1, l[k].size)])

\* TPMT_SIG_SCHEME and TPMT_RSA_DECRYPT: an identifier and, for some, a hash.
Rsassa(hash) == RSASSA \o hash
Oaep(hash) == OAEP \o hash

\* A field that is a list of byte strings already is written one after the other.
SymDef(s) == IF s[1] = NULL THEN s[1] ELSE s[1] \o s[2] \o s[3]

RsaPublicArea(p) ==
  p[1] \o p[2] \o p[3] \o Sized(p[4]) \o SymDef(p[5]) \o FlattenSeq(p[6]) \o p[7] \o p[8]
    \o Sized(p[9])
EccPoint(q) == Sized(q[1]) \o Sized(q[2])
EccPublicArea(p) ==
  p[1] \o p[2] \o p[3] \o Sized(p[4]) \o SymDef(p[5]) \o FlattenSeq(p[6]) \o p[7] \o p[8]
    \o EccPoint(p[9])

EcdsaSignature(s) == s[1] \o Sized(s[2]) \o Sized(s[3])
\* TPMT_SIGNATURE: what was not understood is written as it was kept.
Signature(s) ==
  CASE s.scheme = RSASSA -> RSASSA \o s.parts[1] \o Sized(s.parts[2])
    [] s.scheme = ECDSA -> ECDSA \o EcdsaSignature(s.parts)
    [] s.scheme = NULL -> NULL
    [] OTHER -> s.parts[1]

\* The bits only the TPM may set are not sent.
NvPublicArea(p) ==
  Sized(p.index \o p.name_alg \o NvAttributes(p.attributes \ {"written", "platformcreate"})
          \o Sized(p.policy) \o Two(p.size))

Digests(ds) == Four(Len(ds)) \o FlattenSeq([k \in 1 .. Len(ds) |-> Sized(ds[k])])

-----------------------------------------------------------------------------
(***************************************************************************)
(* Templates.  A public area lists type, name algorithm, attributes,       *)
(* policy, symmetric, scheme, then for RSA key bits, exponent and modulus, *)
(* for ECC curve, key derivation and point.                                *)
(***************************************************************************)
SensitiveCreate == Sized(Sized(<<>>) \o Sized(<<>>))
EphemeralTemplate(policy) ==
  <<RSA, SHA256, ObjectAttributes({"fixed_tpm", "fixed_parent", "sensitive_data_origin", "no_da",
                                   "decrypt"}),
    policy, <<NULL>>, <<NULL>>, Two(2048), Four(0), <<>>>>
AkTemplate ==
  <<RSA, SHA256, ObjectAttributes({"fixed_tpm", "fixed_parent", "sensitive_data_origin",
                                   "user_with_auth", "no_da", "restricted", "sign_encrypt"}),
    <<>>, <<NULL>>, <<RSASSA, SHA256>>, Two(2048), Four(0), [k \in 1 .. 256 |-> 0]>>
EccTemplate(policy) ==
  <<ECC, SHA256, ObjectAttributes({"fixed_tpm", "fixed_parent", "sensitive_data_origin",
                                   "user_with_auth", "no_da", "sign_encrypt"}),
    policy, <<NULL>>, <<ECDSA, SHA256>>, P256, NULL,
    <<[k \in 1 .. 32 |-> 0], [k \in 1 .. 32 |-> 0]>>>>

NvPublic(index, attributes, size) ==
  [index |-> index, name_alg |-> SHA256, attributes |-> attributes, policy |-> <<>>, size |-> size]
NewExtendIndex(index, size) ==
  NvPublic(index, {"ownerwrite", "authread", "no_da", "clear_stclear", "extend"}, size)
NewOrdinaryIndex(index, size) ==
  NvPublic(index, {"ownerwrite", "ownerread", "authread", "authwrite", "no_da"}, size)
NullTicket == <<128, 36>> \o NullHierarchy \o Sized(<<>>)

-----------------------------------------------------------------------------
(***************************************************************************)
(* Reading.  A reader takes the bytes and a cursor and answers whether it  *)
(* succeeded, the value and the cursor after it.                           *)
(***************************************************************************)
Short == [ok |-> FALSE, val |-> <<>>, at |-> 0]
Got(v, c) == [ok |-> TRUE, val |-> v, at |-> c]

\* 2^24 stands for every number of 2^24 and more: no buffer is as long.
Number(b) ==
  CASE Len(b) = 1 -> b[1]
    [] Len(b) = 2 -> 256 * b[1] + b[2]
    [] Len(b) = 4 -> IF b[1] > 0 THEN 16777216 ELSE 65536 * b[2] + 256 * b[3] + b[4]
    [] OTHER -> 0

ReadFixed(n, d, c) == IF c + n > Len(d) THEN Short ELSE Got(SubSeq(d, c + 1, c + n), c + n)

\* What follows a size z, or anything else, that was read just before.
AsManyAs(z, d) == IF z.ok THEN ReadFixed(Number(z.val), d, z.at) ELSE Short
ReadSized(d, c) == AsManyAs(ReadFixed(2, d, c), d)
Appended(r, x) == IF x.ok THEN Got(Append(r.val, x.val), x.at) ELSE Short

(***************************************************************************)
(* Unmarshal reads a field of a kind.  Fields are read one after the other *)
(* (ReadMore, after those r read), lists as a count and as many elements;  *)
(* the first failure ends both.                                            *)
(***************************************************************************)
RECURSIVE Unmarshal(_, _, _), ReadMore(_, _, _), ReadElements(_, _, _, _)
ReadMore(r, kinds, d) ==
  IF kinds = <<>> \/ ~r.ok THEN r
  ELSE ReadMore(Appended(r, Unmarshal(Head(kinds), d, r.at)), Tail(kinds), d)
ReadFields(kinds, d, c) == ReadMore(Got(<<>>, c), kinds, d)

ReadElements(r, kind, n, d) ==
  IF n = 0 \/ ~r.ok THEN r
  ELSE ReadElements(Appended(r, Unmarshal(kind, d, r.at)), kind, n - 1, d)
ReadList(count, kind, d) ==
  IF count.ok THEN ReadElements(Got(<<>>, count.at), kind, Number(count.val), d) ELSE Short

\* A field whose first u16, t, says which fields follow it.
ReadTagged(t, kinds, d) == IF t.ok THEN ReadMore(Got(<<t.val>>, t.at), kinds, d) ELSE Short
ReadSymDef(t, d) == ReadTagged(t, IF t.val = NULL THEN <<>> ELSE <<"u16", "u16">>, d)
\* RsaScheme: of an unknown scheme nothing but the identifier is taken.
ReadRsaScheme(t, d) == ReadTagged(t, IF t.val = RSASSA THEN <<"u16">> ELSE <<>>, d)

ReadPublicArea(d, c) ==
  ReadFields(<<"u16", "u16", "u32", "2b", "sym", "scheme", "u16", "u32", "2b">>, d, c)

\* Faulty variant: the cursor stops where the fields read end.
ReadPublic_StopsEarly(z, p, d) ==
  IF ~z.ok \/ z.at + Number(z.val) > Len(d) \/ ~p.ok THEN Short ELSE p

\* Tpm2bPublic of size z: read with the RSA layout whatever the type, then past the size.
ReadPublic(z, p, d) ==
  IF ~z.ok \/ z.at + Number(z.val) > Len(d) \/ ~p.ok THEN Short
  ELSE Got(p.val, z.at + Number(z.val))
ReadSizedPublic(z, d) == ReadPublic(z, ReadPublicArea(d, z.at), d)

\* A bitmap of at most three bytes, whose size is the last field of h; kept as
\* three bytes and the size (size_of_select).
PcrBitmap(alg, s) ==
  IF s.ok THEN Got([alg |-> alg, size |-> Len(s.val),
                    select |-> s.val \o [k \in 1 .. 3 - Len(s.val) |-> 0]], s.at)
  ELSE Short
ReadSelection(h, d) ==
  IF h.ok /\ Number(h.val[2]) <= 3
  THEN PcrBitmap(h.val[1], ReadFixed(Number(h.val[2]), d, h.at)) ELSE Short
ReadSelections(d, c) == ReadList(ReadFixed(4, d, c), "selection", d)
ReadDigests(d, c) == ReadList(ReadFixed(4, d, c), "2b", d)

ReadEcdsaSignature(d, c) == ReadFields(<<"u16", "2b", "2b">>, d, c)
SignatureOf(scheme, r) == IF r.ok THEN Got([scheme |-> scheme, parts |-> r.val], r.at) ELSE Short
\* TPMT_SIGNATURE: of an unknown scheme, all bytes after the identifier t.
ReadSignature(t, d) ==
  CASE ~t.ok -> Short
    [] t.ok /\ t.val = RSASSA -> SignatureOf(RSASSA, ReadFields(<<"u16", "2b">>, d, t.at))
    [] t.ok /\ t.val = ECDSA -> SignatureOf(ECDSA, ReadEcdsaSignature(d, t.at))
    [] t.ok /\ t.val = NULL -> SignatureOf(NULL, Got(<<>>, t.at))
    [] OTHER -> SignatureOf(<<>>, Got(<<SubSeq(d, t.at + 1, Len(d))>>, Len(d)))

\* TPMT_TK_CREATION or TPMT_TK_VERIFIED, kept as its fields.
ReadTicket(d, c) == ReadFields(<<"u16", "u32", "2b">>, d, c)

Bit(n, i) == (n \div 2 ^ i) % 2 = 1
BitsOf(b) == {i \in 0 .. 31 : Bit(b[4 - i \div 8], i % 8)}
NvPublicOf(v) ==
  [index |-> v[1], name_alg |-> v[2],
   attributes |-> {a \in DOMAIN NvBit : NvBit[a] \in BitsOf(v[3])},
   policy |-> v[4], size |-> Number(v[5])]
ReadNvPublicArea(d, c) == ReadFields(<<"u32", "u16", "u32", "2b", "u16">>, d, c)
\* The public area p, and the name after it, which may be missing.
NvNamed(p, name, end, d) ==
  CASE ~p.ok -> Short
    [] p.ok /\ end + 2 > Len(d) -> Got(NvPublicOf(p.val), end)
    [] OTHER -> IF name.ok THEN Got(NvPublicOf(p.val), name.at) ELSE Short
ReadNvPublic(z, end, d) ==
  IF ~z.ok \/ end > Len(d) \/ z.at + 12 > Len(d) THEN Short
  ELSE NvNamed(ReadNvPublicArea(d, z.at), ReadSized(d, end), end, d)
ReadSizedNvPublic(z, d) == ReadNvPublic(z, z.at + Number(z.val), d)

Unmarshal(kind, d, c) ==
  CASE kind = "u8" -> ReadFixed(1, d, c)
    [] kind = "u16" -> ReadFixed(2, d, c)
    [] kind = "u32" -> ReadFixed(4, d, c)
    [] kind = "2b" -> ReadSized(d, c)
    [] kind = "sym" -> ReadSymDef(ReadFixed(2, d, c), d)
    [] kind = "scheme" -> ReadRsaScheme(ReadFixed(2, d, c), d)
    [] kind = "public" -> ReadSizedPublic(ReadFixed(2, d, c), d)
    [] kind = "sig" -> ReadSignature(ReadFixed(2, d, c), d)
    [] kind = "ticket" -> ReadTicket(d, c)
    [] kind = "nvpublic" -> ReadSizedNvPublic(ReadFixed(2, d, c), d)
    [] kind = "selection" -> ReadSelection(ReadFields(<<"u16", "u8">>, d, c), d)
    [] kind = "pcrs" -> ReadSelections(d, c)
    [] kind = "digests" -> ReadDigests(d, c)
    [] kind = "clock" -> ReadFixed(17, d, c)
    [] kind = "firmware" -> ReadFixed(8, d, c)

\* TPM_NT, the bits 4 to 7, is 4.
IsExtendType(p) == p.attributes \intersect {"counter", "bits", "extend", "unused"} = {"extend"}

-----------------------------------------------------------------------------
(***************************************************************************)
(* Commands and responses.                                                 *)
(***************************************************************************)
\* The header with a zero size, patched once everything is written.
Finalize(tag, code, rest) == tag \o Four(10 + Len(rest)) \o Four(code) \o rest

Session(handle, auth) == [handle |-> handle, auth |-> auth]
SessionBytes(s) == s.handle \o Two(0) \o <<0>> \o Sized(s.auth)

\* The authorization size does not count itself.
AuthArea(sessions) ==
  LET all == FlattenSeq([k \in 1 .. Len(sessions) |-> SessionBytes(sessions[k])])
  IN Four(Len(all)) \o all

NoSessions(code, handles, params) ==
  Finalize(ST_NO_SESSIONS, code, FlattenSeq(handles) \o params)
CustomSessions(code, handles, sessions, params) ==
  Finalize(ST_SESSIONS, code, FlattenSeq(handles) \o AuthArea(sessions) \o params)
PwSessions(code, handles, auths, params) ==
  CustomSessions(code, handles, [k \in 1 .. Len(auths) |-> Session(TPM_RS_PW, auths[k])], params)

\* parse_tpm_rc_with_cmd: complete, of the declared length, and no error.
Accepted(resp) ==
  /\ Len(resp) >= 10
  /\ Number(SubSeq(resp, 3, 6)) = Len(resp)
  /\ SubSeq(resp, 7, 10) = <<0, 0, 0, 0>>

(***************************************************************************)
(* The parameters of a response, as every from_bytes of types.rs reads     *)
(* them; shape.size says what it makes of the parameter size that follows  *)
(* when sessions were used: "exact" if as many bytes must be consumed,     *)
(* "bounded" if they must exist, "skip" if it is not looked at, "always"   *)
(* if it is skipped whether sessions were used or not, "none" if not read. *)
(***************************************************************************)
HasSize(shape, d) ==
  \/ shape.size = "always"
  \/ shape.size # "none" /\ SubSeq(d, 1, 2) = ST_SESSIONS
OfSize(shape, z, r, d) ==
  CASE ~z.ok -> Short
    [] z.ok /\ shape.size \in {"exact", "bounded"} /\ z.at + Number(z.val) > Len(d) -> Short
    [] OTHER -> IF shape.size = "exact" /\ r.ok /\ r.at - z.at # Number(z.val) THEN Short ELSE r
SizedParams(shape, z, d) == OfSize(shape, z, ReadFields(shape.kinds, d, z.at), d)
Params(shape, d, c) ==
  IF HasSize(shape, d) THEN SizedParams(shape, ReadFixed(4, d, c), d)
  ELSE ReadFields(shape.kinds, d, c)

\* A response handle h, where there is one, comes before the parameters.
Response(h, p) == IF h.ok /\ p.ok THEN Got([handle |-> h.val, params |-> p.val], p.at) ELSE Short
AfterHandle(shape, h, d) == Response(h, Params(shape, d, h.at))
FromBytes(shape, d) ==
  AfterHandle(shape, IF shape.handle THEN ReadFixed(4, d, 10) ELSE Got(<<>>, 10), d)
=============================================================================
