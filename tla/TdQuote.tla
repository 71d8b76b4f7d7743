---------------------------------- MODULE TdQuote ----------------------------------
(***********************************************************************************)
(* Intel TDX quotes: the parser (tee_report/td_quote.rs) and the verifier           *)
(* (verify/tdx.rs).  A quote is a sequence of cells, one cell for each field the    *)
(* code tells apart; the sizes the code compares are therefore sizes in cells.  A   *)
(* cell is a sequence of numbers: one number for an integer field, what was signed  *)
(* or hashed for a signature or a hash.  Signatures and hashes are ideal.           *)
(***********************************************************************************)
EXTENDS Integers, Sequences, SequencesExt

N(x) == <<x>>
Num(cell) == cell[1]
From(b, i) == SubSeq(b, i, Len(b))

SGX == 0
TDX == 129
TD_QUOTE_HEADER_V4_SIZE == 3    \* version, tee_type, the rest
TD_QUOTE_HEADER_V5_SIZE == 5    \* and body_type, body_size
DESCRIPTOR_SIZE == 3            \* body_type, reserved, size
TD_QUOTE_BODY_V1_0_SIZE == 2    \* everything up to report_data, report_data
TD_QUOTE_BODY_V1_5_SIZE == 3
TD_QUOTE_BODY_V1_5_EX_SIZE == 5
Tdx10 == 2
BodySize == [type \in {Tdx10, 3, 4} |-> CASE type = Tdx10 -> TD_QUOTE_BODY_V1_0_SIZE
                                           [] type = 3 -> TD_QUOTE_BODY_V1_5_SIZE
                                           [] type = 4 -> TD_QUOTE_BODY_V1_5_EX_SIZE]

PCK_CERT_CHAIN == 5
ECDSA_SIG_AUX_DATA == 6
SGX_REPORT_BODY_SIZE == 2       \* everything up to report_data, report_data
QGS_GET_QUOTE_RESP_PREFIX_SIZE == 6  \* versions, type, size, error, id size, quote size
GET_QUOTE_RESP == 1

(* Ideal cryptography.  The mark a signature, a hash or a certificate begins with is *)
(* larger than any length, as their first bytes read as a number are.               *)
Pem == 700
HashMark == 800
SignatureMark == 900
Marks == {Pem, HashMark, SignatureMark}
Sign(key, message) == <<SignatureMark, key>> \o FlattenSeq(message)
Sha256(message) == <<HashMark>> \o FlattenSeq(message)
(* A certificate: its key, that of its issuer, whether it may issue, and its period. *)
CERTIFICATE_SIZE == 6           \* without its DER
Certificate(key, issuer, ca, period, der) ==
    <<Pem, key, issuer, IF ca THEN 1 ELSE 0, period[1], period[2]>> \o der
CertKey(c) == c[2]
CertIssuer(c) == c[3]
CertCa(c) == c[4] = 1
CertPeriod(c) == <<c[5], c[6]>>
CertDer(c) == From(c, CERTIFICATE_SIZE + 1)
Within(period, day) == period[1] <= day /\ day <= period[2]

---------------------------------------------------------------------------------
(* The envelope of the quote generation service.                                    *)
Enveloped(b) == /\ Len(b) >= QGS_GET_QUOTE_RESP_PREFIX_SIZE
                /\ Num(b[2]) = GET_QUOTE_RESP
                /\ Num(b[3]) = Len(b)
                /\ QGS_GET_QUOTE_RESP_PREFIX_SIZE + Num(b[5]) + Num(b[6]) <= Len(b)
Inner(b) == LET start == QGS_GET_QUOTE_RESP_PREFIX_SIZE + Num(b[5])
            IN  SubSeq(b, start + 1, start + Num(b[6]))

looks_like_td_quote_header(b) ==
    Len(b) >= TD_QUOTE_HEADER_V4_SIZE /\ Num(b[1]) \in {4, 5} /\ Num(b[2]) \in {SGX, TDX}

unwrap_qgs_get_quote_response(b) ==
    IF Enveloped(b) /\ looks_like_td_quote_header(Inner(b)) THEN Inner(b) ELSE b

strip_qgs_envelope(b) ==
    IF Enveloped(b) /\ Len(Inner(b)) >= 1 /\ Num(Inner(b)[1]) \in {4, 5} THEN Inner(b) ELSE b

---------------------------------------------------------------------------------
(* Certification data.  A reader answers with "ok" and what it read; the code's     *)
(* Option::None is the field aux or pck being FALSE.                                *)
NoCertification == [ok |-> TRUE, aux |-> FALSE, qe |-> <<>>, qesig |-> <<>>,
                    auth |-> <<>>, pck |-> FALSE, chain |-> <<>>]
Malformed == [NoCertification EXCEPT !.ok = FALSE]

(* A type, a size and as many cells of payload: it fits, and the payload.           *)
Fits(b) == Len(b) >= 2 /\ 2 + Num(b[2]) <= Len(b)
Payload(b) == SubSeq(b, 3, 2 + Num(b[2]))

(* The chain with a length before it and the QE identity behind it, or the chain    *)
(* alone: an implausible length is no length.                                       *)
parse_pck_cert_chain(p) ==
    LET declared == Num(p[1])
        rest     == From(p, declared + 2)
    IN  IF Len(p) = 0 \/ declared = 0 \/ declared > Len(p) - 1 THEN [ok |-> TRUE, chain |-> p]
        ELSE IF rest # <<>> /\ Num(rest[1]) > Len(rest) - 1 THEN [ok |-> FALSE, chain |-> <<>>]
        ELSE [ok |-> TRUE, chain |-> SubSeq(p, 2, declared + 1)]

parse_ecdsa_sig_aux(p) ==
    LET qe     == SubSeq(p, 1, SGX_REPORT_BODY_SIZE)
        qesig  == p[SGX_REPORT_BODY_SIZE + 1]
        size   == Num(p[SGX_REPORT_BODY_SIZE + 2])
        auth   == SubSeq(p, SGX_REPORT_BODY_SIZE + 3, SGX_REPORT_BODY_SIZE + 2 + size)
        nested == From(p, SGX_REPORT_BODY_SIZE + 3 + size)
        pck    == parse_pck_cert_chain(Payload(nested))
        aux(isPck, chain) == [ok |-> TRUE, aux |-> TRUE, qe |-> qe, qesig |-> qesig,
                              auth |-> auth, pck |-> isPck, chain |-> chain]
    IN  IF \/ Len(p) < SGX_REPORT_BODY_SIZE + 2
           \/ Len(p) < SGX_REPORT_BODY_SIZE + 2 + size
           \/ nested # <<>> /\ ~Fits(nested)
        THEN Malformed
        ELSE IF nested # <<>> /\ Num(nested[1]) = PCK_CERT_CHAIN /\ pck.ok
        THEN aux(TRUE, pck.chain)
        ELSE aux(FALSE, <<>>)

parse_certification(b) ==
    IF ~Fits(b) THEN Malformed
    ELSE IF Num(b[1]) = ECDSA_SIG_AUX_DATA THEN parse_ecdsa_sig_aux(Payload(b))
    ELSE NoCertification

parse_quote_signature(s) ==
    LET certification == IF Len(s) = 2 THEN NoCertification ELSE parse_certification(From(s, 3))
    IN  IF Len(s) < 2 \/ ~certification.ok THEN [present |-> FALSE]
        ELSE [present |-> TRUE, signature |-> s[1], key |-> s[2],
              certification |-> certification]

---------------------------------------------------------------------------------
(* The header and, from version 5 on, the descriptor of the body: within the header *)
(* or, when that is zero, behind it.  Before version 5 the body is the one of       *)
(* TDX 1.0.                                                                         *)
Behind(b) == Num(b[4]) = 0 /\ Num(b[5]) = 0
HeaderFits(b) ==
    /\ Len(b) >= TD_QUOTE_HEADER_V4_SIZE
    /\ Num(b[1]) >= 5 => /\ Len(b) >= TD_QUOTE_HEADER_V5_SIZE
                         /\ Behind(b) => Len(b) >= TD_QUOTE_HEADER_V5_SIZE + DESCRIPTOR_SIZE
Descriptor(b) ==
    IF Num(b[1]) <= 4
    THEN [at |-> TD_QUOTE_HEADER_V4_SIZE, type |-> Tdx10, reserved |-> 0,
          size |-> TD_QUOTE_BODY_V1_0_SIZE]
    ELSE IF Behind(b)
    THEN [at |-> TD_QUOTE_HEADER_V5_SIZE + DESCRIPTOR_SIZE, type |-> Num(b[6]),
          reserved |-> Num(b[7]), size |-> Num(b[8])]
    ELSE [at |-> TD_QUOTE_HEADER_V5_SIZE, type |-> Num(b[4]), reserved |-> 0,
          size |-> Num(b[5])]

(* A body that does not fit may have its size in the reserved field.                *)
BodyLength(b, d) ==
    IF /\ d.size > Len(b) - d.at
       /\ d.reserved \in {TD_QUOTE_BODY_V1_0_SIZE, TD_QUOTE_BODY_V1_5_SIZE}
       /\ d.reserved <= Len(b) - d.at
    THEN d.reserved ELSE d.size

(* The signature behind the body; what is missing of it may be let pass.            *)
read_signature(b, at, strict) ==
    LET there  == Len(b) > at
        length == Num(b[at + 1])
    IN  IF there /\ at + 1 + length <= Len(b)
        THEN [ok |-> TRUE, data |-> SubSeq(b, at + 2, at + 1 + length)]
        ELSE [ok |-> ~strict, data |-> IF there THEN From(b, at + 2) ELSE <<>>]

NoQuote == [ok |-> FALSE]
QuoteOf(b, d, size, sig) ==
    IF \/ Len(b) < d.at + size
       \/ d.type \in DOMAIN BodySize /\ size # BodySize[d.type]
       \/ ~sig.ok
    THEN NoQuote
    ELSE [ok |-> TRUE, version |-> Num(b[1]), type |-> d.type, size |-> size,
          body |-> SubSeq(b, d.at + 1, d.at + size),
          signature |-> parse_quote_signature(sig.data)]
QuoteWithBody(b, d, size, strict) ==
    QuoteOf(b, d, size, read_signature(b, d.at + size, strict))
DescribedQuote(b, d, strict) == QuoteWithBody(b, d, BodyLength(b, d), strict)
UnwrappedQuote(b, strict) ==
    IF HeaderFits(b) THEN DescribedQuote(b, Descriptor(b), strict) ELSE NoQuote
parse_td_quote_with_options(bytes, strict) ==
    UnwrappedQuote(unwrap_qgs_get_quote_response(bytes), strict)
parse_td_quote(bytes) == parse_td_quote_with_options(bytes, TRUE)

---------------------------------------------------------------------------------
(* Verification against the pinned roots, given by their keys, on a day.            *)
(* The blocks of a PEM text, by their places: the first is the leaf.  A block that  *)
(* holds no certificate makes the whole text unreadable.                            *)
PemBlocks(cells) == {i \in DOMAIN cells : Num(cells[i]) = Pem}
LeafAt(cells) == CHOOSE i \in PemBlocks(cells) : \A j \in PemBlocks(cells) : i <= j
parse_pem_chain(cells) ==
    IF \A i \in PemBlocks(cells) : Len(cells[i]) >= CERTIFICATE_SIZE THEN PemBlocks(cells) ELSE {}
Others(cells) == {cells[i] : i \in parse_pem_chain(cells) \ {LeafAt(cells)}}
self_signed(c) == CertKey(c) = CertIssuer(c)

(* Certificates are in their period, and one that has issued another may do so.     *)
verify_cert_chain(leaf, intermediates, roots, day) ==
    /\ Within(CertPeriod(leaf), day)
    /\ \/ CertIssuer(leaf) \in roots
       \/ \E c \in intermediates :
             /\ CertIssuer(leaf) = CertKey(c) /\ CertIssuer(c) \in roots
             /\ CertCa(c) /\ Within(CertPeriod(c), day)

Refuse == [ok |-> FALSE, measurements |-> <<>>]

bound(s) ==
    s.certification.qe[SGX_REPORT_BODY_SIZE] = Sha256(<<s.key>> \o s.certification.auth)

pck_chain_AnyRoot(cells, roots, day) ==   \* faulty: the chain's own root is trusted
    /\ parse_pem_chain(cells) # {}
    /\ verify_cert_chain(cells[LeafAt(cells)], Others(cells),
                         roots \union {CertKey(c) : c \in {x \in Others(cells) : self_signed(x)}}, day)
pck_chain(cells, roots, day) ==
    /\ parse_pem_chain(cells) # {}
    /\ verify_cert_chain(cells[LeafAt(cells)], {c \in Others(cells) : ~self_signed(c)}, roots, day)

VerifyParsed(inner, q, roots, day) ==
    LET s      == q.signature
        c      == q.signature.certification
        length == q.size + (IF q.version >= 5 THEN TD_QUOTE_HEADER_V5_SIZE
                                              ELSE TD_QUOTE_HEADER_V4_SIZE)
        chain  == q.signature.certification.chain
    IN  IF /\ q.ok
           /\ s.present
           /\ Len(inner) >= length
           /\ s.signature = Sign(Num(s.key), SubSeq(inner, 1, length))
           /\ c.aux
           /\ bound(s)
           /\ c.pck
           /\ pck_chain(chain, roots, day)
           /\ c.qesig = Sign(CertKey(chain[LeafAt(chain)]), c.qe)
           /\ q.type \in DOMAIN BodySize
        THEN [ok |-> TRUE, measurements |-> SubSeq(q.body, 1, TD_QUOTE_BODY_V1_0_SIZE)]
        ELSE Refuse
VerifyInner(inner, roots, day) == VerifyParsed(inner, parse_td_quote(inner), roots, day)
verify_td_quote(bytes, roots, day) == VerifyInner(strip_qgs_envelope(bytes), roots, day)
====================================================================================
