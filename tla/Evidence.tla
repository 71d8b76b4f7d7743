---------------------------------- MODULE Evidence ---------------------------------
(***********************************************************************************)
(* Evidence on its way to azure-guest-local-verify: collected from a host that may  *)
(* be updated or exchanged between two collections, kept in files that may be       *)
(* missing, cut, torn or rotten, and verified against the pinned roots.  The same   *)
(* for the endorsement of a TD, a COSE_Sign1 message of the THIM service.           *)
(***********************************************************************************)
EXTENDS Fmspc, FiniteSets

R == INSTANCE SnpReport
C == INSTANCE Cose

CONSTANTS TdHosts,      \* the TDs and the platforms they run on
          SnpHosts,     \* the SEV-SNP hosts: a chip at a TCB
          Mrtds,        \* the payloads that are endorsed
          JsonTexts,    \* those of them that are JSON
          LastDay,      \* bound: days are 0..LastDay
          MaxChanges,   \* bound: updates or exchanges of the host
          MaxDamage     \* bound: damages to the files of one collection

VARIABLES kind,      \* the evidence: "tdx", "snp" or "cose"
          host,      \* what is attested, as it is now
          form,      \* how this collection is laid out
          files,     \* name -> <<>> if missing, <<contents>> otherwise
          origin,    \* name -> <<the host the file was collected from>>
          damage,    \* damages so far
          changes,   \* changes of the host so far
          today,     \* the day it is, within the periods of the pinned roots
          verdict    \* what the tool ended with: exit 0 is success, -1 still running

evidenceVars == <<kind, host, form, files, origin, damage, changes, today, verdict>>

---------------------------------------------------------------------------------
(* TDX platforms, the quotes they write and the certificates they come with.  Keys   *)
(* are known by numbers: an attestation key and a PCK are one platform's, a CA has   *)
(* one issuer, and no key plays two parts.  Of the certificate of a PCK, as of that  *)
(* of a VCEK below, and of the one that issued it there is the period, and whether   *)
(* the latter may issue.                                                            *)
IntelRoot == 990
Numbers == Nat \ Marks
Certified == [leaf : Nat \X Nat, ca : Nat \X Nat, authority : BOOLEAN]
PlatformAssumption ==
    \A td, other \in TdHosts :
       LET p == td.platform
           o == other.platform
       IN  /\ {td.mr, td.data, p.qe, p.ak, p.pck, p.ca, p.root} \subseteq Numbers
           /\ p.fmspc \in Seq(Nat)
           /\ p.certs \in Certified
           /\ p.ak = o.ak \/ p.pck = o.pck => p = o
           /\ p.ca = o.ca => p.root = o.root
           /\ p.ak \notin {o.pck, o.ca, o.root}
           /\ p.pck \notin {o.ca, o.root}
           /\ p.ca \notin {o.root, IntelRoot}
ASSUME PlatformAssumption

DerLen(n) == CASE n < 128 -> <<n>>
               [] n \in 128..255 -> <<129, n>>
               [] n > 255 -> <<130, n \div 256, n % 256>>
Tlv(tag, content) == <<tag>> \o DerLen(Len(content)) \o content
SgxEntry(oid, value) == Tlv(SEQUENCE, Tlv(OID, oid) \o value)
Extension(oid, flag, content) == Tlv(SEQUENCE, Tlv(OID, oid) \o flag \o Tlv(OCTET_STRING, content))
PckDer(p, critical, filler) ==
    LET entries == SgxEntry(<<3>>, Tlv(OCTET_STRING, <<9>>))
                   \o SgxEntry(OID_INTEL_SGX_FMSPC, Tlv(OCTET_STRING, p.fmspc))
        flag    == IF critical THEN Tlv(BOOLEAN_TAG, <<255>>) ELSE <<>>
        exts    == Extension(<<4>>, flag, [i \in 1..filler |-> 0])
                   \o Extension(OID_INTEL_SGX_EXTENSION, flag, Tlv(SEQUENCE, entries))
    IN  Tlv(SEQUENCE, Tlv(SEQUENCE, Tlv(2, <<1>>) \o Tlv(CONTEXT_3, Tlv(SEQUENCE, exts)))
                      \o Tlv(3, <<0>>))

TdForms == [layout : {"v4", "v5", "behind"}, type : DOMAIN BodySize, envelope : 0..2,
            chain : {"bare", "length", "identity"}, auth : 0..1]
(* A descriptor behind the header has its size misplaced, which is recovered for the *)
(* two sizes the code lists.                                                        *)
WrittenForms == {f \in TdForms : /\ f.layout = "v4" => f.type = Tdx10
                                 /\ f.layout = "behind" => f.type \in {Tdx10, 3}}

QuoteHead(f) ==
    LET size == N(BodySize[f.type])
    IN  CASE f.layout = "v4" -> <<N(4), N(TDX), N(0)>>
          [] f.layout = "v5" -> <<N(5), N(TDX), N(0), N(f.type), size>>
          [] f.layout = "behind" -> <<N(5), N(TDX), N(0), N(0), N(0), N(f.type), size, N(600)>>
Chain(p, der) == <<Certificate(p.pck, p.ca, FALSE, p.certs.leaf, der),
                   Certificate(p.ca, p.root, p.certs.authority, p.certs.ca, <<>>),
                   Certificate(p.root, p.root, TRUE, p.certs.ca, <<>>)>>
LaidOut(certs, layout) ==
    CASE layout = "bare" -> certs
      [] layout = "length" -> <<N(Len(certs))>> \o certs
      [] layout = "identity" -> <<N(Len(certs))>> \o certs \o <<N(1), N(77)>>
ChainData(p, f) == LaidOut(Chain(p, PckDer(p, f.auth = 1, 130 * f.envelope)), f.chain)
Sized(cells) == <<N(Len(cells))>> \o cells
Auth(f) == [i \in 1..f.auth |-> N(40)]
Body(td, f) == QuoteHead(f) \o <<N(td.mr), N(td.data)>>
               \o [i \in 1..(BodySize[f.type] - 2) |-> N(30 + i)]
QeReport(p, auth) == <<N(p.qe), Sha256(<<N(p.ak)>> \o auth)>>
SigAux(p, qe, auth, chain) ==
    qe \o <<Sign(p.pck, qe)>> \o Sized(auth) \o <<N(PCK_CERT_CHAIN)>> \o Sized(chain)
SignatureData(p, message, aux) ==
    <<Sign(p.ak, message), N(p.ak), N(ECDSA_SIG_AUX_DATA)>> \o Sized(aux)
SignedQuote(p, f, message) ==
    message \o Sized(SignatureData(p, message,
                        SigAux(p, QeReport(p, Auth(f)), Auth(f), ChainData(p, f))))
Enclosed(q, id) ==
    <<N(1), N(GET_QUOTE_RESP), N(QGS_GET_QUOTE_RESP_PREFIX_SIZE + Len(id) + Len(q)),
      N(0), N(Len(id)), N(Len(q))>> \o id \o q
Wrapped(q, f) ==
    IF f.envelope = 0 THEN q ELSE Enclosed(q, [i \in 1..(f.envelope - 1) |-> N(50)])
Quote(td, f) == Wrapped(SignedQuote(td.platform, f, Body(td, f)), f)

---------------------------------------------------------------------------------
(* SEV-SNP hosts: a VCEK belongs to a chip at a TCB, and so do its certificate and  *)
(* the extensions in it.  The TCB is given by its components.  A chip has an        *)
(* identifier: zero is what a masked one reads as, and is refused.  Of the VCEK's    *)
(* certificate there is also the KeyUsage.                                          *)
AmdRoot == 1
Ark(root) == <<root>>
Ask(h) == <<h.root, 0>>
Vcek(h) == <<h.root, h.chip, h.microcode, h.snp>>
SnpAssumption ==
    /\ \A h \in SnpHosts : h.generation \in R!Generations /\ h.chip # 0
    /\ \A h, other \in SnpHosts : Vcek(h) = Vcek(other) => h.certs = other.certs
ASSUME SnpAssumption

ChipId(h) == [i \in 1..R!CHIP_ID_LEN |-> IF i <= R!HwidLen(h.generation) THEN h.chip ELSE 0]
Tcb(h) == IF h.generation = "Turin" THEN <<1, 2, 0, h.snp, 0, 0, 0, h.microcode>>
                                    ELSE <<2, 0, 0, 0, 0, 0, h.snp, h.microcode>>

SnpForms == [version : 2..5, wrapped : BOOLEAN, product : 1..4]
Report(h, f) ==
    LET r == [size |-> R!SNP_REPORT_SIZE, version |-> f.version, signature_algo |-> 1, vmpl |-> 0,
              flags |-> [reserved |-> 0, signing_key |-> 0, mask_chip_key |-> FALSE],
              policy |-> [must_be_one |-> TRUE, reserved |-> 0],
              cpuid |-> IF f.version >= 3 THEN R!cpuid[h.generation] \o <<1>> ELSE <<0, 0, 0>>,
              mitigation |-> IF f.version = 5 THEN <<63>> ELSE <<0>>,
              reserved |-> 0, padding |-> 0,
              measurement |-> 60 + h.chip, report_data |-> 70 + h.chip,
              reported_tcb |-> Tcb(h), chip_id |-> ChipId(h),
              signature |-> [key |-> 0, of |-> 0]]
    IN  [r EXCEPT !.signature = R!SnpSign(Vcek(h), r)]
Ext(oid, value) == [oid |-> oid, value |-> value]
VcekExtensions(h, f) ==
    LET turin  == h.generation = "Turin"
        hwid   == SubSeq(ChipId(h), 1, R!HwidLen(h.generation))
        byte(i) == R!DerInt(Tcb(h)[i + 1])
        names  == SetToSeq(R!ProductNames[h.generation])
    IN  <<Ext("OTHER", <<0>>),
          Ext("STRUCT_VERSION", R!DerInt(IF turin THEN 1 ELSE 0)),
          Ext("PRODUCT_NAME", names[1 + (f.product % Len(names))]),
          Ext("BOOT", byte(IF turin THEN 1 ELSE 0)), Ext("TEE", byte(IF turin THEN 2 ELSE 1)),
          Ext("SNP", R!DerInt(h.snp)), Ext("MICROCODE", R!DerInt(h.microcode)),
          Ext("SPL5", R!DerInt(0)),
          Ext("HWID", IF f.wrapped THEN <<4, Len(hwid)>> \o hwid ELSE hwid)>>
        \o (IF turin THEN <<Ext("FMC", byte(0))>> ELSE <<>>)
Amd(keys, names, ca, usage, period, ext) ==
    [key |-> keys[1], signer |-> keys[2], subject |-> <<names[1]>>, issuer |-> <<names[2]>>,
     ca |-> ca, usage |-> usage, period |-> period, ext |-> ext,
     curve |-> "secp384r1", trailing |-> FALSE, whole |-> TRUE]
VcekChain(h, f) ==
    <<Amd(<<Vcek(h), Ask(h)>>, <<"SEV-VCEK", h.generation>>, FALSE, h.usage, h.certs.leaf,
          VcekExtensions(h, f)),
      Amd(<<Ask(h), Ark(h.root)>>, <<h.generation, "ARK">>, h.certs.authority, "certify",
          h.certs.ca, <<>>),
      Amd(<<Ark(h.root), Ark(h.root)>>, <<"ARK", "ARK">>, TRUE, "certify", h.certs.ca, <<>>)>>

---------------------------------------------------------------------------------
(* Endorsements: COSE_Sign1 messages with headers of every CBOR type and lengths in *)
(* every form.                                                                      *)
CborHead(major, n, width) ==
    CASE width = 0 -> <<32 * major + n>>
      [] width = 1 -> <<32 * major + 24, n>>
      [] width = 2 -> <<32 * major + 25, 0, n>>
      [] width = 4 -> <<32 * major + 26, 0, 0, 0, n>>
      [] width = 8 -> <<32 * major + 27, 0, 0, 0, 0, 0, 0, 0, n>>
CborBytes(b, width) == CborHead(C!BSTR, Len(b), width) \o b
Headers(n) ==
    <<CborHead(C!MAP, 0, 0),
      CborHead(C!MAP, 1, 0) \o <<1>> \o CborHead(C!ARRAY, 2, 1) \o <<32, 67, 1, 2, 3>>,
      CborHead(C!MAP, 2, 0) \o <<97, 120>> \o CborHead(C!TAG, 1, 2) \o CborHead(C!MAP, 1, 0)
        \o <<2, 246>> \o CborHead(C!NINT, 5, 4) \o CborHead(C!SIMPLE, 0, 2)>>[n]
CoseForms == [width : {0, 1, 2, 4, 8}, headers : 1..3, text : BOOLEAN, protected : 0..1]
Endorsement(mrtd, f) ==
    [prefix |-> <<C!COSE_SIGN1_TAG_BYTE, C!COSE_SIGN1_ARRAY_BYTE>>
                \o CborBytes([i \in 1..(3 * f.protected) |-> 161], f.width) \o Headers(f.headers)
                \o CborHead(IF f.text THEN C!TSTR ELSE C!BSTR, Len(mrtd), f.width) \o mrtd,
     signature |-> CborBytes(<<7, 7>>, f.width)]
Message(m) == m.prefix \o m.signature

---------------------------------------------------------------------------------
Forms == [tdx |-> WrittenForms, snp |-> SnpForms, cose |-> CoseForms]
Hosts == [tdx |-> TdHosts, snp |-> SnpHosts, cose |-> Mrtds]
Names == [tdx |-> {"quote"}, snp |-> {"report", "chain"}, cose |-> {"message"}]
Contents(name, h) ==
    CASE name = "quote" -> Quote(h, form)
      [] name = "report" -> Report(h, form)
      [] name = "chain" -> VcekChain(h, form)
      [] name = "message" -> Message(Endorsement(h, form))

Running == -1
EvidenceInit ==
    /\ kind \in DOMAIN Forms
    /\ host \in Hosts[kind]
    /\ form \in Forms[kind]
    /\ files = [name \in Names[kind] |-> <<>>]
    /\ origin = [name \in Names[kind] |-> <<>>]
    /\ damage = 0
    /\ changes = 0
    /\ today = 0
    /\ verdict = [exit |-> Running, shown |-> <<>>]

(* A file is written with the evidence of the host as it is.                        *)
Collect(name) ==
    /\ verdict.exit = Running
    /\ files[name] = <<>>
    /\ files' = [files EXCEPT ![name] = <<Contents(name, host)>>]
    /\ origin' = [origin EXCEPT ![name] = <<host>>]
    /\ UNCHANGED <<kind, host, form, damage, changes, today, verdict>>

(* Firmware is updated, or the machine moves to another host.                       *)
Change ==
    /\ verdict.exit = Running
    /\ changes < MaxChanges
    /\ host' \in Hosts[kind] \ {host}
    /\ changes' = changes + 1
    /\ UNCHANGED <<kind, form, files, origin, damage, today, verdict>>

(* Certificates expire, and those that are not valid yet become so.                 *)
Tomorrow ==
    /\ verdict.exit = Running
    /\ today < LastDay
    /\ today' = today + 1
    /\ UNCHANGED <<kind, host, form, files, origin, damage, changes, verdict>>

(* A file is cut, is torn between what it holds and what another host would have    *)
(* written over it, or has one part replaced by that of another host or by rubbish: *)
(* in a chain by a PEM block without a certificate.                                 *)
Torn(old, new) ==
    {SubSeq(new, 1, i) \o From(old, i + 1) : i \in 1..(Len(old) - 1)}
      \union {[old EXCEPT ![i] = new[i]] : i \in DOMAIN old}
Damaged(name, old, new) ==
    CASE name = "quote" -> {SubSeq(old, 1, i) : i \in 0..(Len(old) - 1)}
                           \union {[old EXCEPT ![i] = N(0)] : i \in DOMAIN old}
                           \union {[old EXCEPT ![i] = N(6)] : i \in DOMAIN old}
                           \union {[old EXCEPT ![i] = N(Pem)] : i \in DOMAIN old}
                           \union IF Len(new) = Len(old) THEN Torn(old, new) ELSE {}
      [] name = "report" -> {[old EXCEPT ![field] = new[field]] : field \in DOMAIN old}
                            \union {[old EXCEPT !.size = 1183], [old EXCEPT !.padding = 1],
                                    [old EXCEPT !.reserved = 1]}
      [] name = "chain" -> {SubSeq(old, 1, i) : i \in 0..(Len(old) - 1)} \union Torn(old, new)
                           \union {[old EXCEPT ![i].whole = FALSE] : i \in DOMAIN old}
      [] name = "message" -> {SubSeq(old, 1, i) : i \in 0..(Len(old) - 1)}
Rot(name) ==
    /\ verdict.exit = Running
    /\ files[name] # <<>>
    /\ damage < MaxDamage
    /\ \E other \in Hosts[kind] : \E d \in Damaged(name, files[name][1], Contents(name, other)) :
          files' = [files EXCEPT ![name] = <<d>>]
    /\ damage' = damage + 1
    /\ UNCHANGED <<kind, host, form, origin, changes, today, verdict>>

---------------------------------------------------------------------------------
(* The tool and, for an endorsement, EndorsementResponse::payload_json.  A quote    *)
(* that cannot be read ends the tool before it reports; a refusal is exit code 2.   *)
(* A payload has to be JSON.                                                        *)
Failure == 1
Refused == 2
Exit(result) == IF result.ok THEN [exit |-> 0, shown |-> result.measurements]
                             ELSE [exit |-> Refused, shown |-> <<>>]
VerifyTdx ==
    IF files["quote"] = <<>> THEN [exit |-> Failure, shown |-> <<>>]
    ELSE Exit(verify_td_quote(files["quote"][1], {IntelRoot}, today))
VerifySnp ==
    IF files["report"] = <<>> \/ files["chain"] = <<>> THEN [exit |-> Refused, shown |-> <<>>]
    ELSE Exit(R!verify_snp_report(files["report"][1], files["chain"][1], {Ark(AmdRoot)}, today))
PayloadShown(read) ==
    IF read.ok /\ read.payload \in JsonTexts THEN [exit |-> 0, shown |-> read.payload]
    ELSE [exit |-> Failure, shown |-> <<>>]
ReadEndorsement ==
    IF files["message"] = <<>> THEN [exit |-> Failure, shown |-> <<>>]
    ELSE PayloadShown(C!parse_cose_sign1_payload(files["message"][1]))
Verify ==
    /\ verdict.exit = Running
    /\ verdict' = CASE kind = "tdx" -> VerifyTdx
                     [] kind = "snp" -> VerifySnp
                     [] kind = "cose" -> ReadEndorsement
    /\ UNCHANGED <<kind, host, form, files, origin, damage, changes, today>>

Judged == verdict.exit # Running /\ UNCHANGED evidenceVars

EvidenceNext ==
    \/ \E name \in DOMAIN files : Collect(name) \/ Rot(name)
    \/ Change
    \/ Tomorrow
    \/ Verify
    \/ Judged

EvidenceSpec == EvidenceInit /\ [][EvidenceNext]_evidenceVars

---------------------------------------------------------------------------------
(* What the tool shows when it succeeds is what one attested host really measured,  *)
(* chained to a pinned root, however the files were mixed up or damaged on the way: *)
(* for SEV-SNP the report and the certificate are of that same chip and TCB.  The   *)
(* host's certificate was in its period when the tool ran.                          *)
Measured(h) ==
    IF kind = "tdx" THEN <<N(h.mr), N(h.data)>>
    ELSE <<60 + h.chip, 70 + h.chip, Tcb(h), ChipId(h)>>
Trusted(h) == IF kind = "tdx" THEN h.platform.root = IntelRoot ELSE h.root = AmdRoot
CertsOf(h) == IF kind = "tdx" THEN h.platform.certs ELSE h.certs
AcceptedIsGenuine ==
    kind # "cose" /\ verdict.exit = 0 =>
       \E h \in Hosts[kind] : /\ Trusted(h) /\ verdict.shown = Measured(h)
                             /\ Within(CertsOf(h).leaf, today)

(* Evidence of a trusted host is accepted when its files are whole and of one host, *)
(* in every layout and version but the descriptor behind the header (see README),   *)
(* with what that host measured: on every day on which its certificate and the one  *)
(* that issued it are both in their periods, from an issuer that may issue and, for *)
(* a VCEK, with a KeyUsage that allows signatures alone.                            *)
Whole == damage = 0 /\ \A name \in DOMAIN files : files[name] # <<>>
Certifies(h) ==
    /\ Within(CertsOf(h).leaf, today) /\ Within(CertsOf(h).ca, today)
    /\ CertsOf(h).authority
    /\ kind = "snp" => h.usage \in {"absent", "sign"}
GenuineIsAccepted ==
    /\ kind # "cose"
    /\ verdict.exit # Running
    /\ Whole
    /\ kind = "tdx" => form.layout # "behind"
    => \A h \in Hosts[kind] :
          Trusted(h) /\ Certifies(h) /\ (\A name \in DOMAIN files : origin[name] = <<h>>)
            => verdict.exit = 0 /\ verdict.shown = Measured(h)

(* The FMSPC read from a whole quote, of any layout, is that of the platform that   *)
(* quoted, whatever the critical flags in its certificate and its lengths in the    *)
(* forms of one, two and three bytes, and so are the measurement and report data.   *)
ReadsBack(q, td) ==
    /\ q.ok
    /\ ParsedFmspc(q).value = td.platform.fmspc
    /\ SubSeq(q.body, 1, 2) = <<N(td.mr), N(td.data)>>
FmspcIsThePlatforms ==
    kind = "tdx" /\ Whole => ReadsBack(parse_td_quote(files["quote"][1]), origin["quote"][1])

(* The payload read from an endorsement is the one that was wrapped, whatever its   *)
(* headers and the form of its lengths, if that is JSON; any other, like a message  *)
(* cut before the end of its payload, yields none.                                  *)
PayloadIsTheEndorsement ==
    kind = "cose" /\ verdict.exit # Running /\ files["message"] # <<>> =>
       LET mrtd == origin["message"][1]
           cut  == Len(files["message"][1]) < Len(Endorsement(mrtd, form).prefix)
       IN  verdict = IF ~cut /\ mrtd \in JsonTexts THEN [exit |-> 0, shown |-> mrtd]
                                                  ELSE [exit |-> Failure, shown |-> <<>>]
====================================================================================
