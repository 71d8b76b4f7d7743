------------------------------ MODULE MCEvidence ------------------------------
(* Hosts for TLC: four TDs of four platforms, of which one is not below Intel's    *)
(* root and one has an issuer that may not issue; one chip before and after an     *)
(* update, two of other generations, one that another root vouches for, and two    *)
(* with a KeyUsage that is refused.  Some certificates are in their period on the  *)
(* first day alone, some on the second.  Endorsements with and without JSON.       *)
EXTENDS Evidence

Always == <<0, 1>>
Early == <<0, 0>>
Late == <<1, 1>>
Certs(leaf, ca, authority) == [leaf |-> leaf, ca |-> ca, authority |-> authority]

Platform(id, root, certs) ==
    [qe |-> 20 + id, ak |-> 910 + id, pck |-> 920 + id, ca |-> 930 + id, root |-> root,
     fmspc |-> [i \in 1..FMSPC_LEN |-> 10 * id + i], certs |-> certs]
Td(id, root, certs) == [mr |-> id, data |-> 10 + id, platform |-> Platform(id, root, certs)]
MCTdHosts == {Td(1, IntelRoot, Certs(Early, Always, TRUE)),
              Td(2, IntelRoot, Certs(Always, Late, TRUE)),
              Td(3, 993, Certs(Always, Always, TRUE)),
              Td(4, IntelRoot, Certs(Always, Always, FALSE))}

Snp(generation, chip, snp, microcode, root, usage, certs) ==
    [generation |-> generation, chip |-> chip, snp |-> snp, microcode |-> microcode,
     root |-> root, usage |-> usage, certs |-> certs]
MCSnpHosts == {Snp("Milan", 1, 5, 219, AmdRoot, "absent", Certs(Early, Always, TRUE)),
               Snp("Milan", 1, 6, 219, AmdRoot, "sign", Certs(Late, Always, TRUE)),
               Snp("Genoa", 2, 127, 128, AmdRoot, "absent", Certs(Always, Late, TRUE)),
               Snp("Turin", 4, 3, 90, AmdRoot, "sign", Certs(Always, Always, TRUE)),
               Snp("Genoa", 2, 127, 128, 2, "sign", Certs(Always, Always, TRUE)),
               Snp("Genoa", 3, 1, 128, AmdRoot, "certify", Certs(Always, Always, TRUE)),
               Snp("Turin", 5, 3, 90, AmdRoot, "malformed", Certs(Always, Always, FALSE))}

Quoted(n) == <<34>> \o [i \in 1..n |-> 88] \o <<34>>
MCJsonTexts == {<<123, 125>>, Quoted(21)}
MCMrtds == MCJsonTexts \union {<<>>, [i \in 1..23 |-> 88]}
=================================================================================
