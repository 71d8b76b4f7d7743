----------------------------- MODULE TlsIdentity -----------------------------
(***************************************************************************)
(* load_or_generate_self_signed: the web service's certificate and key     *)
(* are files of a directory, loaded when both exist and otherwise          *)
(* generated and written, the certificate first.  Every file operation is  *)
(* one step; fs::write is two, the truncation and the contents.  A server  *)
(* may be killed between any two.                                          *)
(*                                                                         *)
(* External: rustls refuses a certificate or key that does not parse and a *)
(* key that is not the certificate's.                                      *)
(***************************************************************************)
EXTENDS Naturals

CONSTANTS
  Servers,    \* the servers given the directory
  MaxStarts   \* bound on the starts of a behaviour

ASSUME StartsAssumption == MaxStarts \in Nat

VARIABLES
  cert, key,  \* the files: Absent, Partial, or the identity written there
  pc,         \* each server's next step
  mine,       \* the identity a server generates, or the certificate it read
  served,     \* the identity a server answered with last, Absent before any
  torn,       \* a start ended between the first truncation and the last write
  starts      \* starts so far, which name the identities generated

files == <<cert, key>>
vars == <<files, pc, mine, served, torn, starts>>

Absent == 0
Partial == 1
Old == 2                       \* a pair the administrator put there
Identity(n) == n + 2           \* the one generated by start number n

Writing == {"cert", "truncatekey", "key"}
Running == {"lookcert", "lookkey", "readcert", "readkey", "truncate", "listen"} \cup Writing
Down == {"down", "refused"}

Goto(s, l) == pc' = [pc EXCEPT ![s] = l]

Init ==
  /\ cert \in {Absent, Old} /\ key \in {Absent, Old}
  /\ pc = [s \in Servers |-> "down"]
  /\ mine = [s \in Servers |-> Absent]
  /\ served = Absent /\ torn = FALSE /\ starts = 0

Start(s) ==
  /\ pc[s] \in Down /\ starts < MaxStarts
  /\ starts' = starts + 1
  /\ mine' = [mine EXCEPT ![s] = Identity(starts + 1)]
  /\ Goto(s, "lookcert")
  /\ UNCHANGED <<files, served, torn>>

\* Faulty variant: the key file is not looked for.
Look_CertOnly(s) ==
  /\ pc[s] = "lookcert"
  /\ Goto(s, IF cert # Absent THEN "readcert" ELSE "truncate")
  /\ UNCHANGED <<files, mine, served, torn, starts>>

\* cert_path.exists() && key_path.exists()
Look(s) ==
  /\ \/ pc[s] = "lookcert" /\ Goto(s, IF cert # Absent THEN "lookkey" ELSE "truncate")
     \/ pc[s] = "lookkey" /\ Goto(s, IF key # Absent THEN "readcert" ELSE "truncate")
  /\ UNCHANGED <<files, mine, served, torn, starts>>

\* Either file may be there and not be readable, which ends the server.
ReadCert(s) ==
  /\ pc[s] = "readcert"
  /\ \/ mine' = [mine EXCEPT ![s] = cert] /\ Goto(s, "readkey")
     \/ Goto(s, "refused") /\ UNCHANGED mine
  /\ UNCHANGED <<files, served, torn, starts>>

\* build_tls_config_from_pem: whatever does not make a pair ends the server.
ReadKey(s) ==
  /\ pc[s] = "readkey"
  /\ \/ mine[s] # Partial /\ key = mine[s] /\ Goto(s, "listen")
     \/ Goto(s, "refused")
  /\ UNCHANGED <<files, mine, served, torn, starts>>

\* fs::write of the certificate, then of the key; a failing one ends the server.
WriteCert(s) ==
  /\ \/ pc[s] = "truncate" /\ cert' = Partial /\ Goto(s, "cert")
     \/ pc[s] = "cert" /\ cert' = mine[s] /\ Goto(s, "truncatekey")
  /\ UNCHANGED <<key, mine, served, torn, starts>>

WriteKey(s) ==
  /\ \/ pc[s] = "truncatekey" /\ key' = Partial /\ Goto(s, "key")
     \/ pc[s] = "key" /\ key' = mine[s] /\ Goto(s, "listen")
  /\ UNCHANGED <<cert, mine, served, torn, starts>>

\* Faulty variant: a failing write is only reported, the server goes on.
WriteFails_Ignored(s) ==
  /\ pc[s] \in {"truncate"} \cup Writing
  /\ Goto(s, "listen")
  /\ torn' = TRUE
  /\ UNCHANGED <<files, mine, served, starts>>

WriteFails(s) ==
  /\ pc[s] \in {"truncate"} \cup Writing
  /\ Goto(s, "refused")
  /\ torn' = (torn \/ pc[s] \in Writing)
  /\ UNCHANGED <<files, mine, served, starts>>

\* TcpListener::bind, then clients are answered with the identity.
Listen(s) ==
  /\ pc[s] = "listen"
  /\ \/ Goto(s, "serving") /\ served' = mine[s]
     \/ Goto(s, "refused") /\ UNCHANGED served
  /\ UNCHANGED <<files, mine, torn, starts>>

\* External: the server is stopped or killed, at any moment.
Kill(s) ==
  /\ pc[s] \in Running \cup {"serving"}
  /\ Goto(s, "down")
  /\ torn' = (torn \/ pc[s] \in Writing)
  /\ UNCHANGED <<files, mine, served, starts>>

Step(s) ==
  \/ Look(s) \/ ReadCert(s) \/ ReadKey(s)
  \/ WriteCert(s) \/ WriteKey(s) \/ WriteFails(s) \/ Listen(s)

\* All starts are used up: a stutter, not a deadlock.
Finished == starts = MaxStarts /\ \A s \in Servers : pc[s] \in Down

Next ==
  \/ \E s \in Servers : Start(s) \/ Step(s) \/ Kill(s)
  \/ Finished /\ UNCHANGED vars

Spec == Init /\ [][Next]_vars

-----------------------------------------------------------------------------

Stored == {Absent, Partial, Old} \cup {Identity(n) : n \in 1 .. starts}

TypeOK ==
  /\ cert \in Stored /\ key \in Stored /\ served \in Stored \ {Partial}
  /\ pc \in [Servers -> Running \cup Down \cup {"serving"}]
  /\ mine \in [Servers -> Stored]
  /\ torn \in BOOLEAN /\ starts \in 0 .. MaxStarts

(***************************************************************************)
(* Once a server answered clients with an identity, every later start      *)
(* answers with the same ("The cert is persistent and will be reused on    *)
(* restart", main.rs), through stops and kills at any moment.  True of one *)
(* server at a time; two that share the directory overwrite each other's.  *)
(***************************************************************************)
IdentityKept == [][served # Absent => served' = served]_vars

(***************************************************************************)
(* With one server the stored pair is no pair only after a start ended     *)
(* between the first truncation and the last write: no other history       *)
(* makes every later start fail, for a read that fails is of one start.    *)
(***************************************************************************)
LoadsUnlessTorn ==
  \A s \in Servers : pc[s] = "readkey" /\ ~torn => mine[s] # Partial /\ key = mine[s]
=============================================================================
