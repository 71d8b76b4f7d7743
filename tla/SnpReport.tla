--------------------------------- MODULE SnpReport ---------------------------------
(***********************************************************************************)
(* SEV-SNP reports: what verify/snp.rs asks of the report and of its certificate    *)
(* chain, and what verify/snp/vcek.rs asks of the VCEK leaf.  A report is a record  *)
(* of the fields the code looks at; the bit fields are records of their bits.       *)
(* Signatures are ideal: a signature is its key and the signed fields.              *)
(***********************************************************************************)
EXTENDS Integers, Sequences, SequencesExt

SNP_REPORT_SIZE == 1184
CHIP_ID_LEN == 12     \* stands for 64 bytes; a Turin identifier has 8
TURIN_HWID_LEN == 8
Generations == {"Milan", "Genoa", "Turin"}
cpuid == [Milan |-> <<25, 1>>, Genoa |-> <<25, 17>>, Turin |-> <<26, 2>>]
ProductNames == [Milan |-> {"Milan-B0", "Milan-B1"},
                 Genoa |-> {"Genoa", "Genoa-B0", "Genoa-B1", "Genoa-B2"},
                 Turin |-> {"Turin", "Turin-B0", "Turin-B1"}]
HwidLen(generation) == IF generation = "Turin" THEN TURIN_HWID_LEN ELSE CHIP_ID_LEN

Zero(s) == \A i \in DOMAIN s : s[i] = 0

(* The cells of the report that the signature covers.                               *)
Signed(r) == [r EXCEPT !.signature = [key |-> 0, of |-> 0], !.padding = 0, !.size = 0]
SnpSign(key, r) == [key |-> key, of |-> Signed(r)]

---------------------------------------------------------------------------------
validate_report_format(r) ==
    /\ r.version \in 2..5
    /\ r.signature_algo = 1
    /\ r.vmpl <= 3
    /\ r.flags.reserved = 0
    /\ r.flags.signing_key = 0
    /\ ~r.flags.mask_chip_key
    /\ ~Zero(r.chip_id)
    /\ r.policy.must_be_one /\ r.policy.reserved = 0
    /\ r.version >= 3 => r.cpuid[3] <= 15
    /\ r.version < 3 => Zero(r.cpuid)            \* then they are reserved bytes
    /\ r.version < 5 => Zero(r.mitigation)
    /\ r.reserved = 0
    /\ r.padding = 0

---------------------------------------------------------------------------------
(* The one encoding of a TCB component that is accepted.                            *)
DerInt(n) == IF n < 128 THEN <<2, 1, n>> ELSE <<2, 2, 0, n>>
(* Extensions are a sequence of identifiers and values.                             *)
Oids(ext) == {ext[i].oid : i \in DOMAIN ext}
Value(ext, oid) == ext[CHOOSE i \in DOMAIN ext : ext[i].oid = oid].value
Is(ext, oid, n) == oid \in Oids(ext) /\ Value(ext, oid) = DerInt(n)

AmdOids == {"STRUCT_VERSION", "PRODUCT_NAME", "BOOT", "TEE", "SNP", "MICROCODE", "FMC", "HWID"}
RESERVED_SPL == {"SPL4", "SPL5", "SPL6", "SPL7"}
X509Oids == {"OTHER"}

(* What is standard in a certificate is a field of its own: whether it is a CA's,    *)
(* and what its KeyUsage allows, if it has one that can be read.                    *)
extension_values(cert) ==
    /\ cert.usage \in {"absent", "sign"}          \* not "certify", not "malformed"
    /\ ~cert.ca
    /\ \A i, j \in DOMAIN cert.ext : cert.ext[i].oid = cert.ext[j].oid => i = j
product(name) == {g \in Generations : name \in ProductNames[g]}

(* Where a generation keeps the components of its TCB: the offsets are from zero.   *)
TcbByte(r, i) == r.reported_tcb[i + 1]
Offsets_Original(generation) ==   \* faulty: Turin has the layout of those before it
    [boot |-> 0, tee |-> 1, snp |-> 6, reserved |-> 2..5]
Offsets(generation) ==
    IF generation = "Turin" THEN [boot |-> 1, tee |-> 2, snp |-> 3, reserved |-> 4..6]
                            ELSE [boot |-> 0, tee |-> 1, snp |-> 6, reserved |-> 2..5]

(* The hardware identifier, bare or as an OCTET STRING.                             *)
hwid_matches(value, chip, len) ==
    /\ \/ value = SubSeq(chip, 1, len)
       \/ value = <<4, len>> \o SubSeq(chip, 1, len)
    /\ Zero(SubSeq(chip, len + 1, Len(chip)))

validate_extensions(ext, r, generation) ==
    LET at == Offsets(generation)
    IN  /\ Oids(ext) \subseteq AmdOids \union RESERVED_SPL \union X509Oids
        /\ \A oid \in Oids(ext) \intersect RESERVED_SPL : Is(ext, oid, 0)
        /\ Is(ext, "STRUCT_VERSION", IF generation = "Turin" THEN 1 ELSE 0)
        /\ r.version >= 3 => SubSeq(r.cpuid, 1, 2) = cpuid[generation]
        /\ IF generation = "Turin" THEN Is(ext, "FMC", TcbByte(r, 0)) ELSE "FMC" \notin Oids(ext)
        /\ \A i \in at.reserved : TcbByte(r, i) = 0
        /\ Is(ext, "BOOT", TcbByte(r, at.boot))
        /\ Is(ext, "TEE", TcbByte(r, at.tee))
        /\ Is(ext, "SNP", TcbByte(r, at.snp))
        /\ Is(ext, "MICROCODE", TcbByte(r, 7))
        /\ "HWID" \in Oids(ext)
        /\ hwid_matches(Value(ext, "HWID"), r.chip_id, HwidLen(generation))

(* The leaf: its role, its key, its extensions and who issued it.                   *)
validate(cert, r) ==
    /\ ~cert.trailing
    /\ cert.subject = <<"SEV-VCEK">>
    /\ cert.curve = "secp384r1"
    /\ extension_values(cert)
    /\ "PRODUCT_NAME" \in Oids(cert.ext)
    /\ \E g \in product(Value(cert.ext, "PRODUCT_NAME")) :
          /\ validate_extensions(cert.ext, r, g)
          /\ cert.issuer = <<g>>

---------------------------------------------------------------------------------
(* The whole verification: certificates are records with the key they certify, the   *)
(* key they are signed with and their period, roots are keys.  A PEM block that      *)
(* holds no whole certificate makes the chain unreadable.                            *)
parse_pem_chain(chain) == IF \A c \in ToSet(chain) : c.whole THEN chain ELSE <<>>
self_signed(c) == c.key = c.signer
Within(period, day) == period[1] <= day /\ day <= period[2]
verify_cert_chain(leaf, intermediates, roots, day) ==
    /\ Within(leaf.period, day)
    /\ \/ leaf.signer \in roots
       \/ \E c \in intermediates : /\ leaf.signer = c.key /\ c.signer \in roots
                                  /\ c.ca /\ Within(c.period, day)

Refuse == [ok |-> FALSE, measurements |-> <<>>]

report_signature(vcek, r) == r.signature = SnpSign(vcek.key, r)

VerifyReport(r, chain, roots, day) ==
    IF /\ r.size = SNP_REPORT_SIZE
       /\ validate_report_format(r)
       /\ chain # <<>>
       /\ verify_cert_chain(chain[1], {c \in ToSet(Tail(chain)) : ~self_signed(c)}, roots, day)
       /\ report_signature(chain[1], r)
       /\ validate(chain[1], r)
    THEN [ok |-> TRUE, measurements |-> <<r.measurement, r.report_data, r.reported_tcb, r.chip_id>>]
    ELSE Refuse
verify_snp_report(r, pem, roots, day) == VerifyReport(r, parse_pem_chain(pem), roots, day)
====================================================================================
