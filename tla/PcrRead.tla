------------------------------- MODULE PcrRead -------------------------------
(***************************************************************************)
(* read_pcrs_for_alg: a selection of PCRs is read with as many TPM2_PCR_   *)
(* Read commands as it takes (a response holds at most eight digests), and *)
(* returned in the caller's order, repetitions included.  Firmware, the OS *)
(* or another program may extend a PCR between two of these commands: the  *)
(* response's update counter, which would tell, is not looked at.          *)
(***************************************************************************)
EXTENDS Naturals, Sequences, FiniteSets

CONSTANTS
  Pcrs,        \* the indices a TPM has (0..23)
  Foreign,     \* an index out of range
  Selections,  \* the selections callers pass: sequences of indices
  PerRead,     \* digests one response may hold (eight)
  MaxExtends   \* bound on the extends of a behaviour

ASSUME PcrAssumption ==
  /\ Foreign \notin Pcrs
  /\ Selections \subseteq Seq(Pcrs \cup {Foreign})
  /\ PerRead \in Nat \ {0}
  /\ MaxExtends \in Nat

VARIABLES
  pcr,       \* the value of each PCR; two equal numbers are equal digests
  clock,     \* the last fresh value handed out
  sel,       \* the selection being read
  rem,       \* remaining: indices not answered yet
  col,       \* collected: index -> digest
  rd,        \* "idle", "reading", "ok" or "err"
  held       \* the values each PCR had since the call started (history)

bank == <<pcr, clock, held>>
reader == <<sel, rem, col, rd>>

Indices(s) == {s[k] : k \in 1 .. Len(s)}
Digests == 0 .. MaxExtends + 1

BankInit ==
  /\ pcr \in [Pcrs -> 0 .. 1]
  /\ held = [i \in Pcrs |-> {pcr[i]}]
  /\ clock = 1

ReaderInit(s) == sel = s /\ rem = {} /\ col = <<>> /\ rd = "idle"

\* External: TPM2_PCR_Extend by anyone; the new digest never occurred before.
Extend(i) ==
  /\ clock <= MaxExtends
  /\ clock' = clock + 1
  /\ pcr' = [pcr EXCEPT ![i] = clock + 1]
  /\ held' = [held EXCEPT ![i] = @ \cup {clock + 1}]

\* The checks before the loop: an empty selection needs no command, an index
\* out of range is refused, repetitions are dropped.
StartRead(s) ==
  /\ sel' = s
  /\ held' = [i \in Pcrs |-> {pcr[i]}]
  /\ col' = <<>>
  /\ IF Foreign \in Indices(s)
     THEN rem' = {} /\ rd' = "err"
     ELSE rem' = Indices(s) /\ rd' = IF s = <<>> THEN "ok" ELSE "reading"

\* External: the indices a response may hold.  None of them when the bank is
\* not allocated.
Response(R) == R \subseteq rem /\ Cardinality(R) <= PerRead

\* Faulty variant: the loop stops when a response is not full.
ReadSome_StopsShort ==
  /\ rd = "reading"
  /\ \E R \in SUBSET rem :
       /\ Response(R)
       /\ col' = [i \in DOMAIN col \cup R |-> IF i \in R THEN pcr[i] ELSE col[i]]
       /\ rem' = rem \ R
       /\ rd' = IF rem' = {} \/ Cardinality(R) < PerRead THEN "ok" ELSE "reading"
  /\ UNCHANGED sel

\* Faulty variant: no progress check.
ReadSome_NoProgressCheck ==
  /\ rd = "reading"
  /\ \E R \in SUBSET rem :
       /\ Response(R)
       /\ col' = [i \in DOMAIN col \cup R |-> IF i \in R THEN pcr[i] ELSE col[i]]
       /\ rem' = IF R = {} THEN Indices(sel) ELSE rem \ R
       /\ rd' = IF rem' = {} THEN "ok" ELSE "reading"
  /\ UNCHANGED sel

\* One PCR_Read for what remains; a response without progress is an error.
ReadSome ==
  /\ rd = "reading"
  /\ \/ \E R \in SUBSET rem :
          /\ R # {} /\ Response(R)
          /\ col' = [i \in DOMAIN col \cup R |-> IF i \in R THEN pcr[i] ELSE col[i]]
          /\ rem' = rem \ R
          /\ rd' = IF rem' = {} THEN "ok" ELSE "reading"
     \/ rd' = "err" /\ UNCHANGED <<rem, col>>      \* no progress, or it failed
  /\ UNCHANGED sel

\* What the call returns: the digests in the order of the selection.
Values == [k \in 1 .. Len(sel) |-> col[sel[k]]]

-----------------------------------------------------------------------------
(***************************************************************************)
(* The reader on its own.                                                  *)
(***************************************************************************)
readVars == <<bank, reader>>

ReadInit == BankInit /\ \E s \in Selections : ReaderInit(s)

Request(s) == rd # "reading" /\ StartRead(s) /\ UNCHANGED <<pcr, clock>>
Read == ReadSome /\ UNCHANGED bank

ReadNext ==
  \/ \E i \in Pcrs : Extend(i) /\ UNCHANGED reader
  \/ \E s \in Selections : Request(s)
  \/ Read

ReadSpec == ReadInit /\ [][ReadNext]_readVars

PcrTypeOK ==
  /\ pcr \in [Pcrs -> Digests] /\ clock \in Digests
  /\ held \in [Pcrs -> SUBSET Digests]
  /\ sel \in Selections
  /\ rem \subseteq Pcrs
  /\ DOMAIN col \subseteq Pcrs
  /\ rd \in {"idle", "reading", "ok", "err"}

(***************************************************************************)
(* An Ok answer has a digest for every requested index, and each is one    *)
(* the PCR really had while the call ran, however the TPM splits the       *)
(* selection over responses and whoever extends PCRs in between.  (That    *)
(* the digests belong to ONE moment is not promised: see the README.)      *)
(***************************************************************************)
AnswerComplete ==
  rd = "ok" => \A i \in Indices(sel) : i \in DOMAIN col /\ col[i] \in held[i]

(***************************************************************************)
(* The loop ends although the TPM decides how much a response holds.       *)
(***************************************************************************)
ReadReturns == rd = "reading" ~> rd # "reading"
=============================================================================
