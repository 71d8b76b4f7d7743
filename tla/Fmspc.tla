----------------------------------- MODULE Fmspc -----------------------------------
(***********************************************************************************)
(* The FMSPC of a platform, taken from the first certificate of a PCK chain         *)
(* (tee_report/td_quote.rs).  DER is modelled byte by byte, an object identifier as *)
(* one byte; a PEM chain is a sequence of cells, a certificate each (TdQuote), a    *)
(* DER chain a sequence of cells with one byte each.                                *)
(***********************************************************************************)
EXTENDS TdQuote

FMSPC_LEN == 6
OID_INTEL_SGX_EXTENSION == <<1>>
OID_INTEL_SGX_FMSPC == <<2>>
BOOLEAN_TAG == 1
OCTET_STRING == 4
OID == 6
SEQUENCE == 48
CONTEXT_3 == 163

NoTlv == [ok |-> FALSE, tag |-> 0, value |-> <<>>, rest |-> <<>>]

(* A length in short form, or in long form with at most eight bytes.                *)
read_der_length_ShortOnly(b) ==   \* faulty: no long form
    IF b # <<>> THEN [ok |-> TRUE, len |-> b[1], size |-> 1] ELSE [ok |-> FALSE]
read_der_length(b) ==
    LET n == b[1] - 128
    IN  CASE b # <<>> /\ b[1] < 128 -> [ok |-> TRUE, len |-> b[1], size |-> 1]
          [] b # <<>> /\ n \in 1..8 /\ Len(b) > n ->
               [ok |-> TRUE, size |-> 1 + n,
                len |-> FoldLeft(LAMBDA v, x : 256 * v + x, 0, SubSeq(b, 2, n + 1))]
          [] OTHER -> [ok |-> FALSE]

TlvOf(b, length) ==
    LET header == 1 + length.size
    IN  IF b = <<>> \/ ~length.ok \/ Len(b) < header + length.len THEN NoTlv
        ELSE [ok |-> TRUE, tag |-> b[1], value |-> SubSeq(b, header + 1, header + length.len),
              rest |-> From(b, header + length.len + 1)]
read_tlv(b) == TlvOf(b, read_der_length(From(b, 2)))

WithTag(tlv, tag) == IF tlv.tag = tag THEN tlv ELSE NoTlv
expect_tag(b, tag) == WithTag(read_tlv(b), tag)

(* The elements of a sequence, up to the first that cannot be read.                 *)
Elements[b \in Seq(Nat)] ==
    LET tlv == read_tlv(b)
    IN  IF b = <<>> THEN <<>>
        ELSE IF ~tlv.ok THEN <<NoTlv>> ELSE <<tlv>> \o Elements[tlv.rest]

(* The value of the element that holds the identifier, skipping a Boolean (critical) *)
(* if it may be there: the code's loops over extensions and over SGX entries.        *)
NotFound == [ok |-> FALSE, value |-> <<>>]
Holds(tlv, oid) == tlv.tag = SEQUENCE /\ expect_tag(tlv.value, OID).value = oid
Skipped(tlv, oid) ==
    tlv.tag = SEQUENCE /\ expect_tag(tlv.value, OID).ok /\ ~Holds(tlv, oid)
ElementAt(elements, at) == IF at = {} THEN NoTlv ELSE elements[CHOOSE i \in at : TRUE]
Find(elements, oid) ==
    ElementAt(elements, {i \in DOMAIN elements :
                           /\ Holds(elements[i], oid)
                           /\ \A j \in 1..(i - 1) : Skipped(elements[j], oid)})

(* Where nothing was found or read there is nothing in the value either, and every   *)
(* later step fails: the code's early returns.                                      *)
AfterBoolean(tlv) == IF tlv.tag = BOOLEAN_TAG THEN read_tlv(tlv.rest) ELSE tlv
AfterOid(tlv) == expect_tag(tlv.value, OID).rest
SgxExtension(extensions) ==
    WithTag(AfterBoolean(read_tlv(AfterOid(Find(extensions, OID_INTEL_SGX_EXTENSION)))),
            OCTET_STRING)

ElementsIn(b) == Elements[expect_tag(b, SEQUENCE).value]
TbsFields(der) == ElementsIn(expect_tag(der, SEQUENCE).value)
Explicit(fields) ==
    ElementAt(fields, {i \in DOMAIN fields :
                         /\ fields[i].tag = CONTEXT_3
                         /\ \A j \in 1..(i - 1) : fields[j].ok /\ fields[j].tag # CONTEXT_3})
FmspcOf(value) == IF value.ok /\ Len(value.value) = FMSPC_LEN THEN value ELSE NotFound

extract_fmspc_from_cert_der(der) ==
    FmspcOf(expect_tag(AfterOid(Find(ElementsIn(
        SgxExtension(ElementsIn(Explicit(TbsFields(der)).value)).value),
        OID_INTEL_SGX_FMSPC)), OCTET_STRING))

Leading(bytes, first) ==
    IF first.tag = SEQUENCE THEN SubSeq(bytes, 1, Len(bytes) - Len(first.rest)) ELSE <<>>
first_certificate_der(chain) ==
    IF PemBlocks(chain) # {} THEN CertDer(chain[LeafAt(chain)])
    ELSE Leading(FlattenSeq(chain), read_tlv(FlattenSeq(chain)))

ParsedFmspc(q) ==
    IF q.ok /\ q.signature.present /\ q.signature.certification.pck
    THEN extract_fmspc_from_cert_der(first_certificate_der(q.signature.certification.chain))
    ELSE NotFound
====================================================================================
