---------------------------- MODULE EventLog_proofs ----------------------------
(***************************************************************************)
(* The event log, in four arguments.  The reader (read_pcrs_for_alg): an   *)
(* index is either still remaining or collected, and what was collected is *)
(* a value the PCR had when its response was made, so one it had since the *)
(* start.  The replay (replay_pcrs): what it measures into a PCR is what   *)
(* the log says of that PCR, and the replay of two logs is that of the     *)
(* first and then of the second; by induction over the log.  The check:    *)
(* the logs are the truth about every PCR that is not untold, at all       *)
(* times.                                                                  *)
(*                                                                         *)
(* The parser (parse_event_log): a log is read as what was logged.         *)
(* Sequences first, then what firmware logs and what its cells are, then   *)
(* what each step of the parser does to the cells it stands on, then each  *)
(* of the four formats through the four readings, and the theorem.         *)
(***************************************************************************)
EXTENDS MeasuredBoot, EventLogParser, FiniteSetTheorems, SequenceTheorems, TLAPS

-----------------------------------------------------------------------------
(***************************************************************************)
(* The reader.                                                             *)
(***************************************************************************)

\* The PCRs' present values are among those they had since the start, and
\* none is newer than the clock.
BankTracked ==
  /\ clock \in Nat
  /\ held \in [Pcrs -> SUBSET (0 .. clock)]
  /\ \A i \in Pcrs : pcr[i] \in held[i]
  /\ DOMAIN pcr = Pcrs

Collected(i) == i \in DOMAIN col /\ col[i] \in held[i]

\* Nothing is lost: what is not collected is still asked for.
Progress ==
  /\ rem \subseteq Pcrs
  /\ rd \in {"reading", "ok"} =>
       \A i \in Indices(sel) : i \in Pcrs /\ (i \in rem \/ Collected(i))
  /\ rd = "ok" => rem = {}

IInv == BankTracked /\ Progress

LEMMA IndicesInRange ==
  ASSUME NEW s \in Selections, Foreign \notin Indices(s)
  PROVE  Indices(s) \subseteq Pcrs
<1>1. s \in Seq(Pcrs \cup {Foreign})
  BY PcrAssumption
<1>2. \A k \in 1 .. Len(s) : s[k] \in Pcrs \cup {Foreign}
  BY <1>1
<1> QED
  BY <1>2 DEF Indices

LEMMA EmptyHasNoIndex == Indices(<<>>) = {}
  BY DEF Indices

LEMMA InitInv == BankInit /\ rem = {} /\ rd = "idle" => IInv
  BY DEF BankInit, IInv, BankTracked, Progress

LEMMA ExtendKeeps ==
  ASSUME IInv, NEW i \in Pcrs, Extend(i), UNCHANGED reader
  PROVE  IInv'
<1> USE DEF IInv, BankTracked, Progress, Collected
<1>1. Indices(sel)' = Indices(sel) /\ UNCHANGED <<sel, rem, col, rd>>
  BY DEF reader, Indices
<1>2. BankTracked'
  <2>1. clock' = clock + 1 /\ clock \in Nat /\ 0 .. clock \subseteq 0 .. clock'
    BY DEF Extend
  <2>2. held' \in [Pcrs -> SUBSET (0 .. clock')]
    <3>1. clock + 1 \in 0 .. clock'
      BY <2>1
    <3> QED  BY <2>1, <3>1 DEF Extend
  <2>3. \A j \in Pcrs : pcr'[j] \in held'[j]
    BY DEF Extend
  <2> QED  BY <2>1, <2>2, <2>3 DEF Extend
<1>3. \A j \in Pcrs : held[j] \subseteq held'[j]
  BY DEF Extend
<1> QED  BY <1>1, <1>2, <1>3

LEMMA StartKeeps ==
  ASSUME IInv, NEW s, StartRead(s), UNCHANGED <<pcr, clock>>,
         Foreign \notin Indices(s) => Indices(s) \subseteq Pcrs
  PROVE  IInv'
<1> USE DEF IInv, BankTracked, Progress, Collected
<1>1. BankTracked'
  BY DEF StartRead
<1>2. Indices(sel)' = Indices(s)
  BY DEF StartRead, Indices
<1>3. CASE Foreign \in Indices(s)
  BY <1>1, <1>2, <1>3 DEF StartRead
<1>4. CASE Foreign \notin Indices(s)
  <2>1. Indices(s) \subseteq Pcrs /\ rem' = Indices(s)
    BY <1>4 DEF StartRead
  <2>2. rd' = "ok" => Indices(s) = {}
    BY <1>4, EmptyHasNoIndex DEF StartRead
  <2> QED  BY <1>1, <1>2, <2>1, <2>2
<1> QED  BY <1>3, <1>4

LEMMA ReadKeeps == ASSUME IInv, Read PROVE IInv'
<1> USE DEF IInv, BankTracked, Progress, Collected
<1>1. BankTracked' /\ held' = held /\ sel' = sel /\ Indices(sel)' = Indices(sel)
  BY DEF Read, ReadSome, bank, Indices
<1>2. CASE rd' = "err" /\ UNCHANGED <<rem, col>>
  BY <1>1, <1>2
<1>3. ASSUME NEW R \in SUBSET rem,
             col' = [i \in DOMAIN col \cup R |-> IF i \in R THEN pcr[i] ELSE col[i]],
             rem' = rem \ R, rd' = IF rem' = {} THEN "ok" ELSE "reading"
      PROVE  IInv'
  <2>1. \A i \in Indices(sel) : i \in Pcrs /\ (i \in rem \/ Collected(i))
    BY DEF Read, ReadSome
  <2>2. \A i \in R : i \in DOMAIN col' /\ col'[i] \in held[i]
    BY <1>3
  <2>3. \A i \in DOMAIN col \ R : i \in DOMAIN col' /\ col'[i] = col[i]
    BY <1>3
  <2>4. \A i \in Indices(sel) : i \in Pcrs /\ (i \in rem' \/ Collected(i)')
    BY <1>1, <1>3, <2>1, <2>2, <2>3
  <2> QED  BY <1>1, <1>3, <2>4
<1> QED  BY <1>2, <1>3 DEF Read, ReadSome

LEMMA ReaderStep == IInv /\ [ReadNext]_readVars => IInv'
<1> SUFFICES ASSUME IInv, [ReadNext]_readVars PROVE IInv'
  OBVIOUS
<1>1. ASSUME NEW s \in Selections, Request(s) PROVE IInv'
  BY <1>1, IndicesInRange, StartKeeps DEF Request
<1>2. CASE UNCHANGED readVars
  BY <1>2 DEF readVars, bank, reader, Indices, IInv, BankTracked, Progress, Collected
<1> QED
  BY <1>1, <1>2, ExtendKeeps, ReadKeeps DEF ReadNext

LEMMA Complete == IInv => AnswerComplete
  BY DEF IInv, Progress, Collected, AnswerComplete

(***************************************************************************)
(* An Ok answer of read_pcrs_for_alg has a digest for every requested      *)
(* index, each one the PCR really had while the call ran: for every        *)
(* selection, every response size and any number of extends.               *)
(***************************************************************************)
THEOREM AnswersAreComplete == ReadSpec => []AnswerComplete
<1>1. ReadInit => IInv
  BY InitInv DEF ReadInit, ReaderInit
<1> QED
  BY <1>1, Complete, ReaderStep, PTL DEF ReadSpec

-----------------------------------------------------------------------------
(***************************************************************************)
(* The replay.                                                             *)
(***************************************************************************)

\* Induction, for a set: a least number outside of it does not exist.
LEMMA Induct ==
  ASSUME NEW S, 0 \in S, \A n \in Nat : n \in S => n + 1 \in S
  PROVE  Nat \subseteq S
<1> DEFINE T == Nat \ S
<1> DEFINE F == {0 .. n : n \in T}
<1> SUFFICES ASSUME T # {} PROVE FALSE
  OBVIOUS
<1>1. IsWellFoundedOn(StrictSubsetOrdering(Nat), FiniteSubsetsOf(Nat))
  BY FS_StrictSubsetOrderingWellFounded
<1>2. F \subseteq FiniteSubsetsOf(Nat) /\ F # {}
  <2>1. \A n \in Nat : IsFiniteSet(0 .. n)
    <3> TAKE n \in Nat
    <3>1. 0 \in Int /\ n \in Int
      OBVIOUS
    <3> QED  BY <3>1, FS_Interval
  <2>2. \A n \in Nat : 0 .. n \in FiniteSubsetsOf(Nat)
    BY <2>1 DEF FiniteSubsetsOf
  <2> QED  BY <2>2
<1>3. \E x \in F : \A y \in F : ~ (<<y, x>> \in StrictSubsetOrdering(Nat))
  <2> HIDE DEF F
  <2> QED  BY <1>1, <1>2, WFMin
<1>4. PICK n \in T : \A y \in F : ~ (<<y, 0 .. n>> \in StrictSubsetOrdering(Nat))
  BY <1>3
<1>5. n # 0 /\ n - 1 \in T
  BY <1>4
<1>6. 0 .. (n - 1) \in SUBSET Nat /\ 0 .. n \in SUBSET Nat /\ 0 .. (n - 1) \subseteq 0 .. n
  BY <1>4, <1>5
<1>7. n \in 0 .. n /\ n \notin 0 .. (n - 1)
  BY <1>4, <1>5
<1>8. <<0 .. (n - 1), 0 .. n>> \in StrictSubsetOrdering(Nat)
  BY <1>6, <1>7 DEF StrictSubsetOrdering
<1> QED  BY <1>4, <1>5, <1>8

\* Events as logs hold them.
Logged == [pcr : Pcrs \cup {Foreign}, digest : Nat]

\* One event more, measured or not.
OneMore(m, es, i, n) ==
  IF n = 0 THEN <<>>
  ELSE IF es[n].pcr = i /\ es[n].digest # 0
       THEN Append(m[n - 1], es[n].digest)
       ELSE m[n - 1]

\* The function's first k values.
Unfolds(m, es, i, k) == m = [n \in 0 .. k |-> OneMore(m, es, i, n)]

LEMMA MeasuredExists ==
  ASSUME NEW es, NEW i
  PROVE  \A k \in Nat : \E m : Unfolds(m, es, i, k)
<1> DEFINE S == {k \in Nat : \E m : Unfolds(m, es, i, k)}
<1>1. 0 \in S
  <2> DEFINE m == [n \in 0 .. 0 |-> <<>>]
  <2>1. Unfolds(m, es, i, 0)
    BY DEF OneMore, Unfolds
  <2> QED  BY <2>1
<1>2. ASSUME NEW k \in Nat, k \in S PROVE k + 1 \in S
  <2>1. PICK m : Unfolds(m, es, i, k)
    BY <1>2
  <2> DEFINE w == [n \in 0 .. k + 1 |-> IF n <= k THEN m[n] ELSE OneMore(m, es, i, n)]
  <2>2. \A n \in 0 .. k + 1 : w[n] = OneMore(w, es, i, n)
    <3> TAKE n \in 0 .. k + 1
    <3>1. w[n] = OneMore(m, es, i, n)
      BY <2>1 DEF Unfolds
    <3>2. n # 0 => w[n - 1] = m[n - 1]
      OBVIOUS
    <3> QED  BY <3>1, <3>2 DEF OneMore
  <2>3. w = [n \in 0 .. k + 1 |-> w[n]]
    OBVIOUS
  <2>4. Unfolds(w, es, i, k + 1)
    <3> HIDE DEF w
    <3> QED  BY <2>2, <2>3 DEF Unfolds
  <2> QED  BY <2>4
<1> HIDE DEF S
<1>3. Nat \subseteq S
  BY <1>1, <1>2, Induct
<1> QED  BY <1>3 DEF S

LEMMA MeasuredDef ==
  ASSUME NEW S, NEW es \in Seq(S), NEW i
  PROVE  Unfolds(Measured(es, i), es, i, Len(es))
<1>1. \E m : Unfolds(m, es, i, Len(es))
  <2>1. Len(es) \in Nat
    OBVIOUS
  <2>2. \A k \in Nat : \E m : Unfolds(m, es, i, k)
    BY MeasuredExists
  <2> HIDE DEF Unfolds
  <2> QED  BY <2>1, <2>2, Zenon
<1> DEFINE M == CHOOSE m : Unfolds(m, es, i, Len(es))
<1>2. Measured(es, i) = M
  BY DEF Measured, OneMore, Unfolds
<1>3. Unfolds(M, es, i, Len(es))
  BY <1>1
<1> QED  BY <1>2, <1>3

LEMMA MeasuredSteps ==
  ASSUME NEW S, NEW es \in Seq(S), NEW i
  PROVE  /\ Measured(es, i)[0] = <<>>
         /\ \A n \in Nat : n < Len(es) =>
              Measured(es, i)[n + 1] =
                IF es[n + 1].pcr = i /\ es[n + 1].digest # 0
                THEN Append(Measured(es, i)[n], es[n + 1].digest)
                ELSE Measured(es, i)[n]
<1> DEFINE m == Measured(es, i)
<1> HIDE DEF m
<1>1. m = [n \in 0 .. Len(es) |-> OneMore(m, es, i, n)]
  BY MeasuredDef DEF m, Unfolds
<1>2. Len(es) \in Nat
  OBVIOUS
<1>3. m[0] = <<>>
  BY <1>1, <1>2 DEF OneMore
<1>4. ASSUME NEW n \in Nat, n < Len(es)
      PROVE  m[n + 1] = IF es[n + 1].pcr = i /\ es[n + 1].digest # 0
                        THEN Append(m[n], es[n + 1].digest) ELSE m[n]
  <2>1. n + 1 \in 0 .. Len(es) /\ n + 1 # 0 /\ (n + 1) - 1 = n
    BY <1>2, <1>4
  <2>2. m[n + 1] = OneMore(m, es, i, n + 1)
    BY <1>1, <2>1
  <2> QED  BY <2>1, <2>2 DEF OneMore
<1> QED  BY <1>3, <1>4 DEF m

LEMMA IndicesAppend ==
  ASSUME NEW s \in Seq(Nat), NEW x \in Nat
  PROVE  Indices(Append(s, x)) = Indices(s) \cup {x}
<1> DEFINE t == Append(s, x)
<1>1. Len(s) \in Nat /\ Len(t) = Len(s) + 1
  OBVIOUS
<1>2. \A k \in 1 .. Len(s) : t[k] = s[k]
  OBVIOUS
<1>3. t[Len(s) + 1] = x
  OBVIOUS
<1> HIDE DEF t
<1>4. 1 .. Len(t) = (1 .. Len(s)) \cup {Len(s) + 1}
  BY <1>1
<1>5. Indices(t) = {t[k] : k \in 1 .. Len(s)} \cup {t[Len(s) + 1]}
  BY <1>4 DEF Indices
<1>6. {t[k] : k \in 1 .. Len(s)} = Indices(s)
  BY <1>2 DEF Indices
<1> QED  BY <1>3, <1>5, <1>6 DEF t

\* The digests of the first n events for PCR i.
DigestsOf(es, i, n) == {es[k].digest : k \in {j \in 1 .. n : es[j].pcr = i}} \ {0}

LEMMA MeasuredRange ==
  ASSUME NEW es \in Seq(Logged), NEW i
  PROVE  \A n \in Nat : n <= Len(es) =>
           /\ Measured(es, i)[n] \in Seq(Nat)
           /\ Indices(Measured(es, i)[n]) = DigestsOf(es, i, n)
<1> DEFINE m == Measured(es, i)
           P(n) == n <= Len(es) => m[n] \in Seq(Nat) /\ Indices(m[n]) = DigestsOf(es, i, n)
           S == {n \in Nat : P(n)}
<1>1. m[0] = <<>>
  BY MeasuredSteps
<1>2. \A n \in Nat : n < Len(es) =>
        m[n + 1] = IF es[n + 1].pcr = i /\ es[n + 1].digest # 0
                   THEN Append(m[n], es[n + 1].digest) ELSE m[n]
  BY MeasuredSteps
<1> HIDE DEF m
<1>3. P(0)
  <2>1. m[0] \in Seq(Nat) /\ Indices(m[0]) = {}
    BY <1>1 DEF Indices
  <2>2. DigestsOf(es, i, 0) = {}
    BY DEF DigestsOf
  <2> QED  BY <2>1, <2>2
<1>4. ASSUME NEW n \in Nat, P(n) PROVE P(n + 1)
  <2> SUFFICES ASSUME n + 1 <= Len(es)
               PROVE  m[n + 1] \in Seq(Nat) /\ Indices(m[n + 1]) = DigestsOf(es, i, n + 1)
    OBVIOUS
  <2>1. Len(es) \in Nat /\ n <= Len(es) /\ n < Len(es) /\ n + 1 \in 1 .. Len(es)
    OBVIOUS
  <2>2. m[n] \in Seq(Nat) /\ Indices(m[n]) = DigestsOf(es, i, n)
    BY <1>4, <2>1
  <2>3. es[n + 1].digest \in Nat
    <3>1. es[n + 1] \in Logged
      BY <2>1
    <3> QED  BY <3>1 DEF Logged
  <2>4. 1 .. n + 1 = (1 .. n) \cup {n + 1}
    OBVIOUS
  <2>5. CASE es[n + 1].pcr = i /\ es[n + 1].digest # 0
    <3>1. m[n + 1] = Append(m[n], es[n + 1].digest)
      BY <1>2, <2>1, <2>5
    <3>2. Indices(m[n + 1]) = Indices(m[n]) \cup {es[n + 1].digest}
      BY <2>2, <2>3, <3>1, IndicesAppend
    <3>3. DigestsOf(es, i, n + 1) = DigestsOf(es, i, n) \cup {es[n + 1].digest}
      BY <2>4, <2>5 DEF DigestsOf
    <3>4. m[n + 1] \in Seq(Nat)
      BY <2>2, <2>3, <3>1
    <3> QED  BY <2>2, <3>2, <3>3, <3>4
  <2>6. CASE ~(es[n + 1].pcr = i /\ es[n + 1].digest # 0)
    <3>1. m[n + 1] = m[n]
      BY <1>2, <2>1, <2>6
    <3>2. DigestsOf(es, i, n + 1) = DigestsOf(es, i, n)
      BY <2>4, <2>6 DEF DigestsOf
    <3> QED  BY <2>2, <3>1, <3>2
  <2> QED  BY <2>5, <2>6
<1>5. Nat \subseteq S
  <2> HIDE DEF P
  <2>1. 0 \in S /\ \A n \in Nat : n \in S => n + 1 \in S
    BY <1>3, <1>4
  <2> HIDE DEF S
  <2> QED  BY <2>1, Induct
<1> QED  BY <1>5 DEF m

LEMMA ConcatAppend ==
  ASSUME NEW s \in Seq(Nat), NEW t \in Seq(Nat), NEW x \in Nat
  PROVE  s \o Append(t, x) = Append(s \o t, x)
  OBVIOUS

LEMMA MeasuredConcat ==
  ASSUME NEW a \in Seq(Logged), NEW b \in Seq(Logged), NEW i
  PROVE  Measured(a \o b, i)[Len(a \o b)] =
           Measured(a, i)[Len(a)] \o Measured(b, i)[Len(b)]
<1> DEFINE c == a \o b
           l == Len(a)
           ma == Measured(a, i)
           mb == Measured(b, i)
           mc == Measured(c, i)
           P(n) == n <= l => mc[n] = ma[n]
           Q(n) == n <= Len(b) => mc[l + n] = ma[l] \o mb[n]
           S == {n \in Nat : P(n)}
           T == {n \in Nat : Q(n)}
<1>1. /\ c \in Seq(Logged) /\ Len(c) = l + Len(b) /\ l \in Nat /\ Len(b) \in Nat
      /\ \A n \in 1 .. l : c[n] = a[n]
      /\ \A n \in 1 .. Len(b) : c[l + n] = b[n]
  OBVIOUS
<1>2. ma[0] = <<>> /\ \A n \in Nat : n < l =>
        ma[n + 1] = IF a[n + 1].pcr = i /\ a[n + 1].digest # 0
                    THEN Append(ma[n], a[n + 1].digest) ELSE ma[n]
  BY MeasuredSteps
<1>3. mb[0] = <<>> /\ \A n \in Nat : n < Len(b) =>
        mb[n + 1] = IF b[n + 1].pcr = i /\ b[n + 1].digest # 0
                    THEN Append(mb[n], b[n + 1].digest) ELSE mb[n]
  BY MeasuredSteps
<1> HIDE DEF c
<1>4. mc[0] = <<>> /\ \A n \in Nat : n < Len(c) =>
        mc[n + 1] = IF c[n + 1].pcr = i /\ c[n + 1].digest # 0
                    THEN Append(mc[n], c[n + 1].digest) ELSE mc[n]
  BY <1>1, MeasuredSteps
<1>5. /\ \A n \in Nat : n <= l => ma[n] \in Seq(Nat)
      /\ \A n \in Nat : n <= Len(b) => mb[n] \in Seq(Nat)
  BY MeasuredRange
<1> HIDE DEF l, ma, mb, mc
<1>6. P(0)
  BY <1>2, <1>4
<1>7. ASSUME NEW n \in Nat, P(n) PROVE P(n + 1)
  <2> SUFFICES ASSUME n + 1 <= l PROVE mc[n + 1] = ma[n + 1]
    OBVIOUS
  <2>1. n < l /\ n < Len(c) /\ n <= l /\ n + 1 \in 1 .. l
    BY <1>1
  <2>2. mc[n] = ma[n] /\ c[n + 1] = a[n + 1]
    BY <1>1, <1>7, <2>1
  <2> QED  BY <1>2, <1>4, <2>1, <2>2
<1>8. Nat \subseteq S
  <2> HIDE DEF P
  <2>1. 0 \in S /\ \A n \in Nat : n \in S => n + 1 \in S
    BY <1>6, <1>7
  <2> HIDE DEF S
  <2> QED  BY <2>1, Induct
<1>9. mc[l] = ma[l] /\ ma[l] \in Seq(Nat)
  BY <1>1, <1>5, <1>8
<1>10. Q(0)
  <2>1. l + 0 = l
    BY <1>1
  <2> QED  BY <2>1, <1>3, <1>9
<1>11. ASSUME NEW n \in Nat, Q(n) PROVE Q(n + 1)
  <2> SUFFICES ASSUME n + 1 <= Len(b) PROVE mc[l + (n + 1)] = ma[l] \o mb[n + 1]
    OBVIOUS
  <2>1. /\ n < Len(b) /\ n <= Len(b) /\ n + 1 \in 1 .. Len(b)
        /\ l + n \in Nat /\ l + n < Len(c) /\ (l + n) + 1 = l + (n + 1)
    BY <1>1
  <2>2. mc[l + n] = ma[l] \o mb[n] /\ mb[n] \in Seq(Nat)
    BY <1>5, <1>11, <2>1
  <2>3. c[l + (n + 1)] = b[n + 1]
    BY <1>1, <2>1
  <2>4. b[n + 1].digest \in Nat
    <3>1. b[n + 1] \in Logged
      BY <2>1
    <3> QED  BY <3>1 DEF Logged
  <2>5. mc[l + (n + 1)] = IF b[n + 1].pcr = i /\ b[n + 1].digest # 0
                          THEN Append(mc[l + n], b[n + 1].digest) ELSE mc[l + n]
    BY <1>4, <2>1, <2>3
  <2>6. mb[n + 1] = IF b[n + 1].pcr = i /\ b[n + 1].digest # 0
                    THEN Append(mb[n], b[n + 1].digest) ELSE mb[n]
    BY <1>3, <2>1
  <2>7. ma[l] \o Append(mb[n], b[n + 1].digest) = Append(ma[l] \o mb[n], b[n + 1].digest)
    BY <1>9, <2>2, <2>4, ConcatAppend
  <2> QED  BY <2>2, <2>5, <2>6, <2>7
<1>12. Nat \subseteq T
  <2> HIDE DEF Q
  <2>1. 0 \in T /\ \A n \in Nat : n \in T => n + 1 \in T
    BY <1>10, <1>11
  <2> HIDE DEF T
  <2> QED  BY <2>1, Induct
<1>13. mc[l + Len(b)] = ma[l] \o mb[Len(b)]
  <2>1. Len(b) \in Nat /\ Len(b) <= Len(b)
    BY <1>1
  <2>2. Q(Len(b))
    <3> HIDE DEF Q
    <3> QED  BY <1>12, <2>1
  <2> QED  BY <2>1, <2>2
<1> QED  BY <1>1, <1>13 DEF c, l, ma, mb, mc

-----------------------------------------------------------------------------
\* What the whole log has for PCR i.
All(es, i) == Measured(es, i)[Len(es)]

LEMMA AllIsTold ==
  ASSUME NEW es \in Seq(Logged), NEW i
  PROVE  /\ All(es, i) \in Seq(Nat)
         /\ ToSet(All(es, i)) = Told(es, i)
         /\ Told(es, i) = {} => All(es, i) = <<>>
<1>1. Len(es) \in Nat /\ Len(es) <= Len(es)
  OBVIOUS
<1>2. All(es, i) \in Seq(Nat) /\ Indices(All(es, i)) = DigestsOf(es, i, Len(es))
  BY <1>1, MeasuredRange DEF All
<1>3. DigestsOf(es, i, Len(es)) = Told(es, i)
  BY DEF DigestsOf, Told
<1> DEFINE s == All(es, i)
<1> HIDE DEF s
<1>4. s \in Seq(Nat)
  BY <1>2 DEF s
<1>5. ToSet(s) = Indices(s)
  <2>1. DOMAIN s = 1 .. Len(s)
    BY <1>4
  <2> QED  BY <2>1 DEF ToSet, Indices
<1>6. s # <<>> => s[1] \in Indices(s)
  BY <1>4 DEF Indices
<1> QED  BY <1>2, <1>3, <1>4, <1>5, <1>6 DEF s

LEMMA AllConcat ==
  ASSUME NEW a \in Seq(Logged), NEW b \in Seq(Logged), NEW i
  PROVE  All(a \o b, i) = All(a, i) \o All(b, i)
BY MeasuredConcat DEF All

LEMMA AllNone == ASSUME NEW i PROVE All(<<>>, i) = <<>>
<1>1. <<>> \in Seq(Logged) /\ Len(<<>>) = 0
  OBVIOUS
<1>2. Measured(<<>>, i)[0] = <<>>
  BY <1>1, MeasuredSteps
<1> QED  BY <1>1, <1>2 DEF All

LEMMA AllOne ==
  ASSUME NEW e \in Logged, NEW i
  PROVE  All(<<e>>, i) = IF e.pcr = i /\ e.digest # 0 THEN <<e.digest>> ELSE <<>>
<1> DEFINE es == <<e>>
<1>1. es \in Seq(Logged) /\ Len(es) = 1 /\ es[1] = e
  OBVIOUS
<1> HIDE DEF es
<1>2. /\ Measured(es, i)[0] = <<>>
      /\ 0 < Len(es) => Measured(es, i)[0 + 1] =
           IF es[0 + 1].pcr = i /\ es[0 + 1].digest # 0
           THEN Append(Measured(es, i)[0], es[0 + 1].digest) ELSE Measured(es, i)[0]
  BY <1>1, MeasuredSteps
<1>3. Measured(es, i)[1] =
        IF e.pcr = i /\ e.digest # 0 THEN Append(<<>>, e.digest) ELSE <<>>
  BY <1>1, <1>2
<1> QED  BY <1>1, <1>3 DEF All, es


-----------------------------------------------------------------------------
(***************************************************************************)
(* The check.                                                              *)
(***************************************************************************)
Histories == [start : Nat, extends : Seq(Nat)]

CheckTypes ==
  /\ trace \in [0 .. clock -> Histories]
  /\ bios \in Seq(Logged) /\ journal \in Seq(Logged) /\ owed \in Seq(Logged)
  /\ events \in Seq(Logged) /\ untold \in SUBSET (Pcrs \cup {Foreign})
  /\ pc = "boot" => journal = <<>> /\ owed = <<>>

Recorded(i) == All(bios, i) \o All(journal, i) \o All(owed, i)

\* The logs, with the record still owed, are the truth about all other PCRs.
LogsTell ==
  \A i \in Pcrs \ untold : trace[pcr[i]] = [start |-> 0, extends |-> Recorded(i)]

Loaded == pc \in {"read", "done"}

\* So are the events loaded, until the PCR is extended.
EventsTell ==
  Loaded /\ settled => \A i \in Pcrs :
    ToldOnce(i) /\ (\E v \in Nat : held[i] = {v}) => trace[pcr[i]] = Replay(events, i)

Compared ==
  pc = "done" =>
    /\ rd = "ok"
    /\ verdict = {i \in Indices(sel) : trace[col[i]] = Replay(events, i)}

CheckInv == IInv /\ CheckTypes /\ LogsTell /\ EventsTell /\ Compared

LEMMA PrimesGoIn ==
  /\ \A i : /\ All(bios, i)' = All(bios', i) /\ All(journal, i)' = All(journal', i)
            /\ All(owed, i)' = All(owed', i) /\ Replay(events, i)' = Replay(events', i)
            /\ Told(bios, i)' = Told(bios', i) /\ Told(journal, i)' = Told(journal', i)
  /\ Indices(sel)' = Indices(sel')
BY DEF All, Replay, Measured, Told, Indices

LEMMA ReplayIsAll ==
  ASSUME NEW es, NEW i
  PROVE  Replay(es, i) = [start |-> 0, extends |-> All(es, i)]
BY DEF Replay, All

LEMMA EventsAreLogged ==
  /\ \A i \in Pcrs \cup {Foreign} : \A m \in Nat :
       /\ Event(i, m) \in Logged /\ <<Event(i, m)>> \in Seq(Logged)
       /\ \A j : All(<<Event(i, m)>>, j) = IF i = j /\ m # 0 THEN <<m>> ELSE <<>>
  /\ <<>> \in Seq(Logged)
<1>1. ASSUME NEW i \in Pcrs \cup {Foreign}, NEW m \in Nat
      PROVE  /\ Event(i, m) \in Logged /\ <<Event(i, m)>> \in Seq(Logged)
             /\ \A j : All(<<Event(i, m)>>, j) = IF i = j /\ m # 0 THEN <<m>> ELSE <<>>
  <2> DEFINE e == Event(i, m)
  <2>1. e \in Logged /\ e.pcr = i /\ e.digest = m
    BY DEF Event, Logged
  <2> HIDE DEF e
  <2>2. <<e>> \in Seq(Logged)
    BY <2>1
  <2>3. \A j : All(<<e>>, j) = IF e.pcr = j /\ e.digest # 0 THEN <<e.digest>> ELSE <<>>
    BY <2>1, AllOne
  <2> QED  BY <2>1, <2>2, <2>3 DEF e
<1> QED  BY <1>1

\* What a measurement changes.
LEMMA Measured1 ==
  ASSUME CheckInv, NEW i \in Pcrs, Measure(i)
  PROVE  /\ clock' = clock + 1 /\ clock \in Nat
         /\ trace' \in [0 .. clock' -> Histories]
         /\ \A v \in 0 .. clock : trace'[v] = trace[v]
         /\ trace'[clock'] = [trace[pcr[i]] EXCEPT !.extends = Append(@, clock')]
         /\ pcr'[i] = clock'
         /\ \A j \in Pcrs \ {i} : pcr'[j] = pcr[j] /\ held'[j] = held[j]
         /\ \A j \in Pcrs : pcr[j] \in 0 .. clock /\ held[j] \subseteq 0 .. clock
         /\ ~ \E v \in Nat : held'[i] = {v}
         /\ IInv' /\ UNCHANGED reader
<1>1. Extend(i) /\ UNCHANGED reader
  BY DEF Measure
<1>2. clock' = clock + 1 /\ clock \in Nat
  BY <1>1 DEF Extend, CheckInv, IInv, BankTracked
<1>3. \A j \in Pcrs : pcr[j] \in held[j] /\ pcr[j] \in 0 .. clock /\ held[j] \subseteq 0 .. clock
  BY DEF CheckInv, IInv, BankTracked
<1>4. /\ pcr'[i] = clock'
      /\ \A j \in Pcrs \ {i} : pcr'[j] = pcr[j] /\ held'[j] = held[j]
      /\ held'[i] = held[i] \cup {clock'}
  BY <1>1, <1>2 DEF Extend, CheckInv, IInv, BankTracked
<1>5. ~ \E v \in Nat : held'[i] = {v}
  <2>1. pcr[i] \in held'[i] /\ clock' \in held'[i] /\ pcr[i] # clock'
    BY <1>2, <1>3, <1>4
  <2> QED  BY <2>1
<1>6. 0 .. clock' = (0 .. clock) \cup {clock'} /\ clock' \notin 0 .. clock /\ clock' \in Nat
  BY <1>2
<1>7. trace \in [0 .. clock -> Histories]
  BY DEF CheckInv, CheckTypes
<1>8. trace' = [v \in (0 .. clock) \cup {clock'} |->
                  IF v = clock' THEN [trace[pcr[i]] EXCEPT !.extends = Append(@, clock')]
                  ELSE trace[v]]
  BY <1>7 DEF Measure
<1>9. [trace[pcr[i]] EXCEPT !.extends = Append(@, clock')] \in Histories
  <2>1. trace[pcr[i]] \in Histories
    BY <1>3, <1>7
  <2>2. Append(trace[pcr[i]].extends, clock') \in Seq(Nat)
    BY <1>6, <2>1 DEF Histories
  <2> QED  BY <2>1, <2>2 DEF Histories
<1>10. /\ trace' \in [0 .. clock' -> Histories]
       /\ \A v \in 0 .. clock : trace'[v] = trace[v]
       /\ trace'[clock'] = [trace[pcr[i]] EXCEPT !.extends = Append(@, clock')]
  BY <1>6, <1>7, <1>8, <1>9
<1>11. IInv'
  BY <1>1, ExtendKeeps DEF CheckInv
<1> QED  BY <1>1, <1>2, <1>3, <1>4, <1>5, <1>10, <1>11

\* The digests that were read keep their meaning.
LEMMA ComparedStays ==
  ASSUME CheckInv, NEW i \in Pcrs, Measure(i), UNCHANGED check
  PROVE  Compared'
<1> SUFFICES ASSUME pc = "done"
             PROVE  rd' = "ok" /\ verdict' = {j \in Indices(sel) : trace[col[j]] = Replay(events, j)}'
  BY DEF Compared, check
<1>1. rd = "ok" /\ verdict = {j \in Indices(sel) : trace[col[j]] = Replay(events, j)}
  BY DEF CheckInv, Compared
<1>2. \A j \in Indices(sel) : j \in Pcrs /\ col[j] \in held[j]
  BY <1>1 DEF CheckInv, IInv, Progress, Collected
<1>3. \A j \in Indices(sel) : trace'[col[j]] = trace[col[j]]
  BY <1>2, Measured1
<1>4. UNCHANGED <<sel, col, rd, events, verdict>>
  BY Measured1 DEF reader, check
<1>5. Indices(sel)' = Indices(sel) /\ \A j : Replay(events, j)' = Replay(events, j)
  BY <1>4, PrimesGoIn
<1> QED  BY <1>1, <1>3, <1>4, <1>5

\* The truth grows with the log.
LEMMA TruthGrows ==
  ASSUME CheckInv, NEW i \in Pcrs, Measure(i),
         untold \subseteq untold',
         \A j \in Pcrs \ {i} : Recorded(j)' = Recorded(j),
         i \in untold' \/ Recorded(i)' = Append(Recorded(i), clock')
  PROVE  LogsTell'
<1> SUFFICES ASSUME NEW j \in Pcrs, j \notin untold'
             PROVE  trace'[pcr'[j]] = [start |-> 0, extends |-> Recorded(j)']
  BY DEF LogsTell
<1>1. trace[pcr[j]] = [start |-> 0, extends |-> Recorded(j)]
  BY DEF CheckInv, LogsTell
<1>2. CASE j # i
  <2>1. pcr'[j] = pcr[j] /\ pcr[j] \in 0 .. clock
    BY <1>2, Measured1
  <2>2. trace'[pcr[j]] = trace[pcr[j]]
    BY <2>1, Measured1
  <2>3. Recorded(j)' = Recorded(j)
    BY <1>2
  <2> QED  BY <1>1, <2>1, <2>2, <2>3
<1>3. CASE j = i
  <2>1. trace'[pcr'[j]] = [trace[pcr[j]] EXCEPT !.extends = Append(@, clock')]
    BY <1>3, Measured1
  <2>2. Recorded(j)' = Append(Recorded(j), clock')
    BY <1>3
  <2>3. trace'[pcr'[j]] = [start |-> 0, extends |-> Append(Recorded(j), clock')]
    BY <1>1, <2>1, SMTT(30)
  <2> QED  BY <2>2, <2>3
<1> QED  BY <1>2, <1>3

\* A log grows by one event.
LEMMA LogGrows ==
  ASSUME NEW es \in Seq(Logged), NEW i \in Pcrs \cup {Foreign}, NEW m \in Nat
  PROVE  /\ Append(es, Event(i, m)) \in Seq(Logged)
         /\ \A j : All(Append(es, Event(i, m)), j) =
                     IF i = j /\ m # 0 THEN Append(All(es, j), m) ELSE All(es, j)
<1> DEFINE e == Event(i, m)
<1>1. /\ e \in Logged /\ <<e>> \in Seq(Logged)
      /\ \A j : All(<<e>>, j) = IF i = j /\ m # 0 THEN <<m>> ELSE <<>>
  BY EventsAreLogged
<1> HIDE DEF e
<1>2. Append(es, e) = es \o <<e>> /\ Append(es, e) \in Seq(Logged)
  BY <1>1
<1>3. ASSUME NEW j
      PROVE  All(Append(es, e), j) = IF i = j /\ m # 0 THEN Append(All(es, j), m) ELSE All(es, j)
  <2>1. All(es, j) \in Seq(Nat)
    BY AllIsTold
  <2>2. All(Append(es, e), j) = All(es, j) \o All(<<e>>, j)
    <3>1. All(es \o <<e>>, j) = All(es, j) \o All(<<e>>, j)
      BY <1>1, AllConcat
    <3> QED  BY <1>2, <3>1
  <2>3. All(es, j) \o <<m>> = Append(All(es, j), m) /\ All(es, j) \o <<>> = All(es, j)
    BY <2>1
  <2> QED  BY <1>1, <2>2, <2>3
<1> QED  BY <1>2, <1>3 DEF e

\* During boot the firmware's log is all there is.
LEMMA OnlyFirmware ==
  ASSUME bios \in Seq(Logged), bios' \in Seq(Logged),
         journal = <<>>, owed = <<>>, UNCHANGED <<journal, owed>>
  PROVE  \A j : Recorded(j) = All(bios, j) /\ Recorded(j)' = All(bios', j)
<1> TAKE j
<1>1. All(bios, j) \in Seq(Nat) /\ All(bios', j) \in Seq(Nat)
  BY AllIsTold
<1>2. /\ All(bios, j) \o <<>> \o <<>> = All(bios, j)
      /\ All(bios', j) \o <<>> \o <<>> = All(bios', j)
  BY <1>1
<1>3. Recorded(j)' = All(bios', j) \o All(journal', j) \o All(owed', j)
  BY PrimesGoIn DEF Recorded
<1> QED  BY <1>2, <1>3, AllNone DEF Recorded

LEMMA BootExtendKeeps ==
  ASSUME CheckInv, NEW i \in Pcrs, BootExtend(i) PROVE CheckInv'
<1>1. /\ pc = "boot" /\ Measure(i)
      /\ UNCHANGED <<acpi, journal, owed, tool, pc, events, settled, verdict>>
  BY DEF BootExtend, check
<1>2. /\ journal = <<>> /\ owed = <<>> /\ bios \in Seq(Logged) /\ journal \in Seq(Logged)
      /\ owed \in Seq(Logged) /\ events \in Seq(Logged) /\ untold \in SUBSET (Pcrs \cup {Foreign})
  BY <1>1 DEF CheckInv, CheckTypes
<1>3. /\ clock' \in Nat /\ clock' # 0 /\ trace' \in [0 .. clock' -> Histories]
      /\ IInv'
  <2>1. clock' = clock + 1 /\ clock \in Nat
    BY <1>1, Measured1
  <2>2. trace' \in [0 .. clock' -> Histories] /\ IInv'
    BY <1>1, Measured1
  <2> QED  BY <2>1, <2>2
<1>4. PICK m \in Nat :
        /\ bios' = Append(bios, Event(i, m))
        /\ \/ m = clock' /\ UNCHANGED untold
           \/ m = 0 /\ untold' = untold \cup {i}
  BY <1>3 DEF BootExtend
<1>5. /\ bios' \in Seq(Logged)
      /\ \A j : All(bios', j) = IF i = j /\ m # 0 THEN Append(All(bios, j), m) ELSE All(bios, j)
  BY <1>2, <1>4, LogGrows
<1>6. CheckTypes'
  BY <1>1, <1>2, <1>3, <1>4, <1>5 DEF CheckTypes
<1>7. \A j : Recorded(j) = All(bios, j) /\ Recorded(j)' = All(bios', j)
  BY <1>1, <1>2, <1>5, OnlyFirmware
<1>8. LogsTell'
  <2>1. untold \subseteq untold'
    BY <1>4
  <2>2. \A j \in Pcrs \ {i} : Recorded(j)' = Recorded(j)
    BY <1>5, <1>7
  <2>3. i \in untold' \/ Recorded(i)' = Append(Recorded(i), clock')
    BY <1>3, <1>4, <1>5, <1>7
  <2> QED  BY <1>1, <2>1, <2>2, <2>3, TruthGrows
<1>9. EventsTell'
  BY <1>1 DEF EventsTell, Loaded
<1>10. Compared'
  BY <1>1 DEF Compared
<1> QED  BY <1>3, <1>6, <1>8, <1>9, <1>10 DEF CheckInv

LEMMA BootNoActionKeeps ==
  ASSUME CheckInv, NEW i \in Pcrs \cup {Foreign}, BootNoAction(i) PROVE CheckInv'
<1>1. /\ pc = "boot"
      /\ UNCHANGED <<bank, reader, trace, acpi, journal, owed, tool, pc, events, settled, verdict>>
  BY DEF BootNoAction, check
<1>2. /\ journal = <<>> /\ owed = <<>> /\ bios \in Seq(Logged) /\ journal \in Seq(Logged)
      /\ owed \in Seq(Logged) /\ events \in Seq(Logged) /\ untold \in SUBSET (Pcrs \cup {Foreign})
      /\ trace \in [0 .. clock -> Histories]
  BY <1>1 DEF CheckInv, CheckTypes
<1>3. IInv'
  BY <1>1, PrimesGoIn DEF CheckInv, IInv, BankTracked, Progress, Collected, bank, reader
<1>4. PICK m \in Nat :
        /\ bios' = Append(bios, Event(i, m))
        /\ \/ m = 0 /\ UNCHANGED untold
           \/ untold' = untold \cup {i}
  BY DEF BootNoAction
<1>5. /\ bios' \in Seq(Logged)
      /\ \A j : All(bios', j) = IF i = j /\ m # 0 THEN Append(All(bios, j), m) ELSE All(bios, j)
  BY <1>2, <1>4, LogGrows
<1>6. CheckTypes'
  BY <1>1, <1>2, <1>4, <1>5 DEF CheckTypes, bank
<1>7. \A j : Recorded(j) = All(bios, j) /\ Recorded(j)' = All(bios', j)
  BY <1>1, <1>2, <1>5, OnlyFirmware
<1>8. LogsTell'
  <2> SUFFICES ASSUME NEW j \in Pcrs, j \notin untold'
               PROVE  trace'[pcr'[j]] = [start |-> 0, extends |-> Recorded(j)']
    BY DEF LogsTell
  <2>1. j \notin untold /\ Recorded(j)' = Recorded(j)
    BY <1>4, <1>5, <1>7
  <2> QED  BY <1>1, <2>1 DEF CheckInv, LogsTell, bank
<1>9. EventsTell'
  BY <1>1 DEF EventsTell, Loaded
<1>10. Compared'
  BY <1>1 DEF Compared
<1> QED  BY <1>3, <1>6, <1>8, <1>9, <1>10 DEF CheckInv

LEMMA RecordedIn == \A j : Recorded(j)' = All(bios', j) \o All(journal', j) \o All(owed', j)
  BY PrimesGoIn DEF Recorded

LEMMA RunExtendKeeps ==
  ASSUME CheckInv, NEW i \in Pcrs, RunExtend(i) PROVE CheckInv'
<1>1. /\ pc # "boot" /\ Measure(i)
      /\ UNCHANGED <<bios, acpi, journal, tool, pc, events, settled, verdict>>
  BY DEF RunExtend, check
<1>2. /\ bios \in Seq(Logged) /\ journal \in Seq(Logged) /\ owed \in Seq(Logged)
      /\ events \in Seq(Logged) /\ untold \in SUBSET (Pcrs \cup {Foreign})
  BY DEF CheckInv, CheckTypes
<1>3. /\ clock' \in Nat /\ clock' # 0 /\ trace' \in [0 .. clock' -> Histories]
      /\ IInv'
  <2>1. clock' = clock + 1 /\ clock \in Nat
    BY <1>1, Measured1
  <2>2. trace' \in [0 .. clock' -> Histories] /\ IInv'
    BY <1>1, Measured1
  <2> QED  BY <2>1, <2>2
<1>4. \/ owed = <<>> /\ owed' = <<Event(i, clock')>> /\ UNCHANGED untold
      \/ untold' = untold \cup {i} /\ UNCHANGED owed
  BY DEF RunExtend
<1>5. /\ <<Event(i, clock')>> \in Seq(Logged)
      /\ \A j : All(<<Event(i, clock')>>, j) = IF i = j THEN <<clock'>> ELSE <<>>
  BY <1>3, EventsAreLogged
<1>6. CheckTypes'
  BY <1>1, <1>2, <1>3, <1>4, <1>5 DEF CheckTypes
<1>7. LogsTell'
  <2>1. untold \subseteq untold'
    BY <1>4
  <2>2. \A j : All(bios, j) \in Seq(Nat) /\ All(journal, j) \in Seq(Nat)
    BY <1>2, AllIsTold
  <2>3. \A j : All(bios, j) \o All(journal, j) \in Seq(Nat)
    BY <2>2
  <2>4. CASE UNCHANGED owed
    <3>1. \A j : Recorded(j)' = Recorded(j)
      BY <1>1, <2>4, RecordedIn DEF Recorded
    <3>2. i \in untold'
      BY <1>4, <1>5, <2>4
    <3> QED  BY <1>1, <2>1, <3>1, <3>2, TruthGrows
  <2>5. CASE owed = <<>> /\ owed' = <<Event(i, clock')>>
    <3>1. \A j : Recorded(j) = All(bios, j) \o All(journal, j) \o <<>>
      BY <2>5, AllNone DEF Recorded
    <3>2. \A j : Recorded(j)' = All(bios, j) \o All(journal, j) \o
                                  IF i = j THEN <<clock'>> ELSE <<>>
      BY <1>1, <1>5, <2>5, RecordedIn
    <3>3. \A j \in Pcrs \ {i} : Recorded(j)' = Recorded(j)
      BY <3>1, <3>2
    <3>4. Recorded(i)' = Append(Recorded(i), clock')
      <4> DEFINE s == All(bios, i) \o All(journal, i)
      <4>1. s \in Seq(Nat) /\ Recorded(i) = s \o <<>> /\ Recorded(i)' = s \o <<clock'>>
        BY <2>3, <3>1, <3>2
      <4> HIDE DEF s
      <4>2. s \o <<>> = s /\ s \o <<clock'>> = Append(s, clock')
        BY <1>3, <4>1
      <4> QED  BY <4>1, <4>2
    <3> QED  BY <1>1, <2>1, <3>3, <3>4, TruthGrows
  <2> QED  BY <1>4, <2>4, <2>5
<1>8. EventsTell'
  <2> SUFFICES ASSUME Loaded, settled, NEW j \in Pcrs, ToldOnce(j)',
                      \E v \in Nat : held'[j] = {v}
               PROVE  trace'[pcr'[j]] = Replay(events, j)
    BY <1>1, PrimesGoIn DEF EventsTell, Loaded
  <2>1. j # i
    BY <1>1, Measured1
  <2>2. pcr'[j] = pcr[j] /\ held'[j] = held[j] /\ pcr[j] \in 0 .. clock
    BY <1>1, <2>1, Measured1
  <2>3. trace'[pcr[j]] = trace[pcr[j]]
    BY <1>1, <2>2, Measured1
  <2>4. ToldOnce(j)
    BY <1>1, <1>4, PrimesGoIn DEF ToldOnce
  <2>5. trace[pcr[j]] = Replay(events, j)
    BY <2>2, <2>4 DEF CheckInv, EventsTell
  <2> QED  BY <2>2, <2>3, <2>5
<1>9. Compared'
  BY <1>1, ComparedStays DEF check
<1> QED  BY <1>3, <1>6, <1>7, <1>8, <1>9 DEF CheckInv

\* Where nothing is measured, and nothing is read.
LEMMA BankIdle ==
  ASSUME CheckInv, UNCHANGED <<bank, reader>>
  PROVE  IInv'
BY PrimesGoIn DEF CheckInv, IInv, BankTracked, Progress, Collected, bank, reader

LEMMA RecordKeeps == ASSUME CheckInv, Record PROVE CheckInv'
<1>1. /\ owed # <<>> /\ journal' = journal \o owed /\ owed' = <<>>
      /\ UNCHANGED <<bank, reader, trace, bios, acpi, untold, tool, pc, events, settled, verdict>>
  BY DEF Record, check
<1>2. /\ bios \in Seq(Logged) /\ journal \in Seq(Logged) /\ owed \in Seq(Logged)
      /\ journal \o owed \in Seq(Logged) /\ <<>> \in Seq(Logged)
  BY EventsAreLogged DEF CheckInv, CheckTypes
<1>3. CheckTypes'
  BY <1>1, <1>2 DEF CheckInv, CheckTypes, bank
<1>4. \A j : Recorded(j)' = Recorded(j)
  <2> TAKE j
  <2>1. All(bios, j) \in Seq(Nat) /\ All(journal, j) \in Seq(Nat) /\ All(owed, j) \in Seq(Nat)
    BY <1>2, AllIsTold
  <2>2. Recorded(j)' = All(bios, j) \o (All(journal, j) \o All(owed, j)) \o <<>>
    BY <1>1, <1>2, RecordedIn, AllConcat, AllNone, ZenonT(60)
  <2> DEFINE a == All(bios, j)
             b == All(journal, j)
             c == All(owed, j)
  <2>3. a \o (b \o c) \o <<>> = (a \o b) \o c
    <3> HIDE DEF a, b, c
    <3>1. a \in Seq(Nat) /\ b \in Seq(Nat) /\ c \in Seq(Nat)
      BY <2>1 DEF a, b, c
    <3>2. a \o (b \o c) = (a \o b) \o c /\ a \o (b \o c) \in Seq(Nat)
      BY <3>1, SMTT(30)
    <3> QED  BY <3>2
  <2> QED  BY <2>2, <2>3 DEF Recorded
<1>5. LogsTell'
  BY <1>1, <1>4 DEF CheckInv, LogsTell, bank
<1>6. EventsTell'
  <2> SUFFICES ASSUME Loaded, settled, NEW j \in Pcrs, ToldOnce(j)',
                      \E v \in Nat : held[j] = {v}
               PROVE  trace[pcr[j]] = Replay(events, j)
    BY <1>1, PrimesGoIn DEF EventsTell, Loaded, bank
  <2>1. Told(journal, j) \subseteq Told(journal', j)
    <3>1. \A k \in 1 .. Len(journal) : k \in 1 .. Len(journal') /\ journal'[k] = journal[k]
      BY <1>1, <1>2
    <3> QED  BY <3>1 DEF Told
  <2>2. ToldOnce(j)
    BY <1>1, <2>1, PrimesGoIn DEF ToldOnce
  <2> QED  BY <2>2 DEF CheckInv, EventsTell
<1>7. Compared'
  BY <1>1, PrimesGoIn DEF CheckInv, Compared, reader
<1> QED  BY <1>1, <1>3, <1>5, <1>6, <1>7, BankIdle DEF CheckInv

\* What the tools load of the logs.
LEMMA LogsAreLogged ==
  ASSUME CheckInv, NEW es \in (IF tool = "web" THEN {bios} ELSE Logs)
  PROVE  es \in Seq(Logged)
<1>1. bios \in Seq(Logged) /\ journal \in Seq(Logged)
  BY DEF CheckInv, CheckTypes
<1>2. bios \o bios \in Seq(Logged)
  BY <1>1
<1>3. PICK l \in {bios, bios \o bios} : es = l \/ es = l \o journal
  BY DEF Logs
<1>4. l \in Seq(Logged)
  BY <1>1, <1>2, Zenon
<1>5. l \o journal \in Seq(Logged)
  BY <1>1, <1>4, ConcatProperties
<1> QED  BY <1>3, <1>4, <1>5, Zenon

LEMMA VerifyKeeps == ASSUME CheckInv, Verify PROVE CheckInv'
<1>1. /\ UNCHANGED <<pcr, clock, trace, bios, acpi, journal, owed, untold, tool>>
      /\ settled' = (owed = <<>>) /\ pc' \in {"err", "read"}
      /\ held' = [i \in Pcrs |-> {pcr[i]}]
  BY DEF Verify, machine, StartRead
<1>2. PICK es \in (IF tool = "web" THEN {bios} ELSE Logs) :
        /\ events' = es
        /\ \E S \in (IF tool = "filtered" THEN (SUBSET Pcrs) \ {{}} ELSE {Replayed(es)}) :
             \E s \in InOrder(S) : StartRead(s)
  BY DEF Verify
<1> PICK S \in (IF tool = "filtered" THEN (SUBSET Pcrs) \ {{}} ELSE {Replayed(es)}) :
         \E s \in InOrder(S) : StartRead(s)
  BY <1>2
<1> PICK s \in InOrder(S) : StartRead(s)
  OBVIOUS
<1>3. /\ bios \in Seq(Logged) /\ journal \in Seq(Logged) /\ owed \in Seq(Logged)
      /\ es \in Seq(Logged)
  BY <1>2, LogsAreLogged DEF CheckInv, CheckTypes
<1>4. Indices(s) \subseteq Pcrs \cup {Foreign}
  <2>1. Indices(s) = S
    BY DEF InOrder
  <2>2. \A k \in 1 .. Len(es) : es[k] \in Logged
    BY <1>3
  <2>3. Replayed(es) \subseteq Pcrs \cup {Foreign}
    BY <2>2 DEF Replayed, Logged
  <2> QED  BY <1>2, <2>1, <2>3
<1>5. IInv'
  <2>1. Foreign \notin Indices(s) => Indices(s) \subseteq Pcrs
    BY <1>4
  <2> QED  BY <1>1, <1>2, <2>1, StartKeeps DEF CheckInv
<1>6. CheckTypes'
  BY <1>1, <1>2, <1>3 DEF CheckInv, CheckTypes
<1>7. LogsTell'
  BY <1>1, RecordedIn DEF CheckInv, LogsTell, Recorded
<1>8. EventsTell'
  <2> SUFFICES ASSUME owed = <<>>, NEW j \in Pcrs, ToldOnce(j)'
               PROVE  trace[pcr[j]] = Replay(events', j)
    BY <1>1, PrimesGoIn DEF EventsTell, Loaded
  <2>1. /\ j \notin untold
        /\ tool = "web" => Told(journal, j) = {}
        /\ tool # "web" /\ acpi => Told(bios, j) = {}
    BY <1>1, PrimesGoIn DEF ToldOnce
  <2> DEFINE a == All(bios, j)
             b == All(journal, j)
  <2>2. a \in Seq(Nat) /\ b \in Seq(Nat)
    BY <1>3, AllIsTold
  <2>3. trace[pcr[j]] = [start |-> 0, extends |-> a \o b \o <<>>]
    BY <2>1, AllNone DEF CheckInv, LogsTell, Recorded
  <2>4. a \o b \o <<>> = All(es, j)
    <3>1. CASE tool = "web"
      <4>1. b = <<>> /\ es = bios
        BY <1>2, <1>3, <2>1, <3>1, AllIsTold
      <4> QED  BY <2>2, <4>1
    <3>2. CASE tool # "web" /\ ~acpi
      <4>1. es = bios \o journal
        BY <1>2, <3>2 DEF Logs
      <4>2. All(es, j) = a \o b
        BY <1>3, <4>1, AllConcat
      <4> HIDE DEF a, b
      <4> QED  BY <2>2, <4>2
    <3>3. CASE tool # "web" /\ acpi
      <4>1. es = (bios \o bios) \o journal /\ bios \o bios \in Seq(Logged)
        BY <1>2, <1>3, <3>3 DEF Logs
      <4>2. All(es, j) = (a \o a) \o b
        <5>1. All(bios \o bios, j) = a \o a
          BY <1>3, AllConcat
        <5>2. \A d \in Seq(Logged) : All(d \o journal, j) = All(d, j) \o b
          BY <1>3, AllConcat, SMTT(30)
        <5> QED  BY <4>1, <5>1, <5>2
      <4>3. a = <<>>
        BY <1>3, <2>1, <3>3, AllIsTold
      <4> HIDE DEF a, b
      <4> QED  BY <2>2, <4>2, <4>3
    <3> QED  BY <3>1, <3>2, <3>3
  <2> QED  BY <1>2, <2>3, <2>4, ReplayIsAll
<1>9. Compared'
  BY <1>1 DEF Compared
<1> QED  BY <1>5, <1>6, <1>7, <1>8, <1>9 DEF CheckInv

LEMMA ReadStepKeeps == ASSUME CheckInv, ReadStep PROVE CheckInv'
<1>1. pc = "read" /\ Read /\ UNCHANGED <<bank, machine, check>>
  BY DEF ReadStep, Read
<1>2. IInv'
  BY <1>1, ReadKeeps DEF CheckInv
<1>3. CheckTypes' /\ LogsTell'
  BY <1>1, RecordedIn DEF CheckInv, CheckTypes, LogsTell, Recorded, bank, machine, check
<1>4. EventsTell'
  BY <1>1, PrimesGoIn DEF CheckInv, EventsTell, Loaded, ToldOnce, bank, machine, check
<1>5. Compared'
  BY <1>1 DEF Compared, check
<1> QED  BY <1>2, <1>3, <1>4, <1>5 DEF CheckInv

LEMMA CompareKeeps == ASSUME CheckInv, Compare PROVE CheckInv'
<1>1. /\ pc = "read" /\ UNCHANGED <<bank, reader, machine, tool, events, settled>>
      /\ \/ /\ rd = "ok" /\ pc' = "done"
            /\ verdict' = {i \in Indices(sel) : trace[col[i]] = Replay(events, i)}
         \/ pc' = "err"
  BY DEF Compare
<1>2. IInv'
  BY <1>1, BankIdle
<1>3. CheckTypes' /\ LogsTell'
  BY <1>1, RecordedIn DEF CheckInv, CheckTypes, LogsTell, Recorded, bank, machine
<1>4. EventsTell'
  BY <1>1, PrimesGoIn DEF CheckInv, EventsTell, Loaded, ToldOnce, bank, machine
<1>5. Compared'
  BY <1>1, PrimesGoIn DEF Compared, machine, reader
<1> QED  BY <1>2, <1>3, <1>4, <1>5 DEF CheckInv

LEMMA BootedKeeps == ASSUME CheckInv, Booted PROVE CheckInv'
<1>1. pc' = "idle" /\ UNCHANGED <<bank, reader, machine, events>>
  BY DEF Booted
<1>2. IInv'
  BY <1>1, BankIdle
<1>3. CheckTypes' /\ LogsTell'
  BY <1>1, RecordedIn DEF CheckInv, CheckTypes, LogsTell, Recorded, bank, machine
<1> QED  BY <1>1, <1>2, <1>3 DEF CheckInv, EventsTell, Loaded, Compared

LEMMA CheckInit == Init => CheckInv
<1> SUFFICES ASSUME Init PROVE CheckInv
  OBVIOUS
<1>1. /\ BankInit /\ rem = {} /\ rd = "idle" /\ pc = "boot" /\ clock = 1
      /\ bios = <<>> /\ journal = <<>> /\ owed = <<>> /\ events = <<>>
      /\ trace = [v \in 0 .. 1 |-> [start |-> v, extends |-> <<>>]]
      /\ untold = {i \in Pcrs : pcr[i] # 0}
  BY DEF Init, ReaderInit, BankInit
<1>2. IInv
  BY <1>1, InitInv
<1>3. CheckTypes
  <2>1. \A v \in 0 .. 1 : [start |-> v, extends |-> <<>>] \in Histories
    BY DEF Histories
  <2> QED  BY <1>1, <2>1, EventsAreLogged DEF CheckTypes
<1>4. LogsTell
  <2>1. \A i : Recorded(i) = <<>>
    BY <1>1, AllNone DEF Recorded
  <2> QED  BY <1>1, <2>1 DEF LogsTell
<1> QED  BY <1>1, <1>2, <1>3, <1>4 DEF CheckInv, EventsTell, Loaded, Compared

LEMMA CheckStep == CheckInv /\ [Next]_vars => CheckInv'
<1> SUFFICES ASSUME CheckInv, [Next]_vars PROVE CheckInv'
  OBVIOUS
<1>1. CASE UNCHANGED vars
  <2>1. UNCHANGED <<bank, reader, machine, check>>
    BY <1>1 DEF vars
  <2>2. IInv'
    BY <2>1, BankIdle
  <2>3. CheckTypes' /\ LogsTell'
    BY <2>1, RecordedIn DEF CheckInv, CheckTypes, LogsTell, Recorded, bank, machine, check
  <2>4. EventsTell'
    BY <2>1, PrimesGoIn DEF CheckInv, EventsTell, Loaded, ToldOnce, bank, machine, check
  <2>5. Compared'
    BY <2>1, PrimesGoIn DEF CheckInv, Compared, machine, reader, check
  <2> QED  BY <2>2, <2>3, <2>4, <2>5 DEF CheckInv
<1> QED  BY <1>1, BootExtendKeeps, RunExtendKeeps, BootNoActionKeeps, BootedKeeps, RecordKeeps,
            VerifyKeeps, ReadStepKeeps, CompareKeeps DEF Next

LEMMA CheckInvariance == Spec => []CheckInv
  BY CheckInit, CheckStep, PTL DEF Spec

(***************************************************************************)
(* The PCRs a check compares were all read, with values they had during    *)
(* the check (api_verify_pcrs, tpm-event-log --verify).                    *)
(***************************************************************************)
THEOREM ReadsAreComplete == Spec => []AnswerComplete
<1>1. CheckInv => AnswerComplete
  BY Complete DEF CheckInv
<1> QED  BY <1>1, CheckInvariance, PTL

(***************************************************************************)
(* A PCR that is said to match had, during the check, a value that stands  *)
(* for the start value zero and just the measurements the loaded logs have *)
(* for it: for logs of any length, whatever is measured or recorded in the *)
(* meantime.                                                               *)
(***************************************************************************)
THEOREM MatchesAreLogged == Spec => []MatchMeansLogged
<1>1. CheckInv => MatchMeansLogged
  <2> SUFFICES ASSUME CheckInv, pc = "done", NEW i \in verdict
               PROVE  \E v \in held[i] : /\ trace[v].start = 0
                                         /\ ToSet(trace[v].extends) = Told(events, i)
    BY DEF MatchMeansLogged
  <2>1. i \in Indices(sel) /\ trace[col[i]] = Replay(events, i) /\ rd = "ok"
    BY DEF CheckInv, Compared
  <2>2. col[i] \in held[i]
    BY <2>1, Complete DEF CheckInv, AnswerComplete
  <2>3. events \in Seq(Logged)
    BY DEF CheckInv, CheckTypes
  <2>4. trace[col[i]].start = 0 /\ trace[col[i]].extends = All(events, i)
    BY <2>1, ReplayIsAll
  <2> QED  BY <2>2, <2>3, <2>4, AllIsTold
<1> QED  BY <1>1, CheckInvariance, PTL

(***************************************************************************)
(* A PCR whose measurements the logs tell in full and once matches, unless *)
(* it was extended during the check or a record was owed then (replay_pcrs *)
(* of the logs in the order in which they are loaded).                     *)
(***************************************************************************)
THEOREM NoFalseAlarms == Spec => []NoFalseAlarm
<1>1. CheckInv => NoFalseAlarm
  <2> SUFFICES ASSUME CheckInv, pc = "done", NEW i \in Indices(sel),
                      settled, held[i] = {col[i]}, ToldOnce(i)
               PROVE  i \in verdict
    BY DEF NoFalseAlarm
  <2>1. rd = "ok" /\ verdict = {j \in Indices(sel) : trace[col[j]] = Replay(events, j)}
    BY DEF CheckInv, Compared
  <2>2. i \in Pcrs
    BY <2>1 DEF CheckInv, IInv, Progress
  <2>3. pcr[i] = col[i] /\ col[i] \in Nat
    BY <2>2 DEF CheckInv, IInv, BankTracked
  <2>4. trace[pcr[i]] = Replay(events, i)
    BY <2>2, <2>3 DEF CheckInv, EventsTell, Loaded
  <2> QED  BY <2>1, <2>3, <2>4
<1> QED  BY <1>1, CheckInvariance, PTL

-----------------------------------------------------------------------------
(***************************************************************************)
(* Concatenations.                                                         *)
(***************************************************************************)

\* The function FlattenSeq computes with: f[k] is the concatenation of the
\* first k sequences of ss.
Link(f, ss, i) == IF i = 1 THEN ss[i] ELSE f[i - 1] \o ss[i]
Chain(f, ss, k) == f = [i \in 1 .. k |-> Link(f, ss, i)]

LEMMA ChainExists ==
  ASSUME NEW ss
  PROVE  \A k \in Nat : \E f : Chain(f, ss, k)
<1> DEFINE S == {k \in Nat : \E f : Chain(f, ss, k)}
<1>1. 0 \in S
  <2> DEFINE f == [i \in 1 .. 0 |-> <<>>]
  <2>1. \A i \in 1 .. 0 : FALSE
    OBVIOUS
  <2>2. f = [i \in 1 .. 0 |-> Link(f, ss, i)]
    BY <2>1
  <2> QED  BY <2>2 DEF Chain
<1>2. ASSUME NEW k \in Nat, k \in S PROVE k + 1 \in S
  <2>1. PICK f : Chain(f, ss, k)
    BY <1>2
  <2> DEFINE w == [i \in 1 .. k + 1 |-> IF i <= k THEN f[i] ELSE Link(f, ss, i)]
  <2>2. \A i \in 1 .. k + 1 : w[i] = Link(w, ss, i)
    <3> TAKE i \in 1 .. k + 1
    <3>1. w[i] = Link(f, ss, i)
      BY <2>1 DEF Chain
    <3>2. i # 1 => w[i - 1] = f[i - 1]
      OBVIOUS
    <3> QED  BY <3>1, <3>2 DEF Link
  <2>3. w = [i \in 1 .. k + 1 |-> w[i]]
    OBVIOUS
  <2>4. Chain(w, ss, k + 1)
    <3> HIDE DEF w
    <3> QED  BY <2>2, <2>3 DEF Chain
  <2> QED  BY <2>4
<1> HIDE DEF S
<1>3. Nat \subseteq S
  BY <1>1, <1>2, Induct
<1> QED  BY <1>3 DEF S

LEMMA FlattenIsChain ==
  ASSUME NEW S, NEW ss \in Seq(S), Len(ss) # 0
  PROVE  \E f : Chain(f, ss, Len(ss)) /\ FlattenSeq(ss) = f[Len(ss)]
<1>1. \E f : Chain(f, ss, Len(ss))
  <2>1. Len(ss) \in Nat
    OBVIOUS
  <2>2. \A k \in Nat : \E f : Chain(f, ss, k)
    BY ChainExists
  <2> HIDE DEF Chain
  <2> QED  BY <2>1, <2>2, Zenon
<1> DEFINE f == CHOOSE f : Chain(f, ss, Len(ss))
<1>2. Chain(f, ss, Len(ss))
  BY <1>1
<1>3. FlattenSeq(ss) = f[Len(ss)]
  BY DEF FlattenSeq, Chain, Link
<1> QED  BY <1>2, <1>3

LEMMA ChainsAgree ==
  ASSUME NEW s, NEW t, NEW f, NEW g, NEW k \in Nat, NEW l \in Nat, k <= l,
         Chain(f, s, k), Chain(g, t, l), \A i \in 1 .. k : s[i] = t[i]
  PROVE  \A i \in 1 .. k : f[i] = g[i]
<1> DEFINE S == {i \in Nat : i \in 1 .. k => f[i] = g[i]}
<1>1. 0 \in S
  OBVIOUS
<1>2. ASSUME NEW i \in Nat, i \in S PROVE i + 1 \in S
  <2> SUFFICES ASSUME i + 1 \in 1 .. k PROVE f[i + 1] = g[i + 1]
    OBVIOUS
  <2>0. i + 1 \in 1 .. k /\ i + 1 \in 1 .. l
    OBVIOUS
  <2>1. f[i + 1] = Link(f, s, i + 1) /\ g[i + 1] = Link(g, t, i + 1)
    BY <2>0, Zenon DEF Chain
  <2>2. i # 0 => f[i] = g[i]
    BY <1>2
  <2>3. s[i + 1] = t[i + 1] /\ (i + 1) - 1 = i
    OBVIOUS
  <2> QED  BY <2>1, <2>2, <2>3 DEF Link
<1> HIDE DEF S
<1>3. Nat \subseteq S
  BY <1>1, <1>2, Induct
<1> QED  BY <1>3 DEF S

\* The first n of the sequences, one after the other.
Upto(ss, n) == FlattenSeq(SubSeq(ss, 1, n))

LEMMA UptoNone == ASSUME NEW ss PROVE Upto(ss, 0) = <<>>
<1>1. SubSeq(ss, 1, 0) = <<>>
  BY SubSeqEmpty
<1> QED  BY <1>1 DEF Upto, FlattenSeq

LEMMA UptoAll ==
  ASSUME NEW S, NEW ss \in Seq(S)
  PROVE  Upto(ss, Len(ss)) = FlattenSeq(ss)
BY SubSeqFull DEF Upto

LEMMA Firsts ==
  ASSUME NEW T, NEW ss \in Seq(T), NEW n \in 0 .. Len(ss)
  PROVE  /\ SubSeq(ss, 1, n) \in Seq(T) /\ Len(SubSeq(ss, 1, n)) = n
         /\ \A i \in 1 .. n : SubSeq(ss, 1, n)[i] = ss[i]
<1>1. Len(ss) \in Nat /\ \A i \in 1 .. n : ss[i] \in T
  OBVIOUS
<1>2. /\ SubSeq(ss, 1, n) \in Seq(T) /\ Len(SubSeq(ss, 1, n)) = IF 1 <= n THEN n - 1 + 1 ELSE 0
      /\ \A i \in 1 .. n - 1 + 1 : SubSeq(ss, 1, n)[i] = ss[1 + i - 1]
  BY <1>1, SubSeqProperties
<1>3. n - 1 + 1 = n /\ \A i \in 1 .. n : 1 + i - 1 = i
  BY <1>1
<1> QED  BY <1>2, <1>3

LEMMA UptoNext ==
  ASSUME NEW S, NEW ss \in Seq(Seq(S)), NEW n \in Nat, n < Len(ss)
  PROVE  Upto(ss, n + 1) = Upto(ss, n) \o ss[n + 1]
<1>0. PICK T : T = Seq(S)
  OBVIOUS
<1>1. ss \in Seq(T) /\ Len(ss) \in Nat /\ n \in 0 .. Len(ss) /\ n + 1 \in 0 .. Len(ss)
  BY <1>0
<1>2. PICK s : s = SubSeq(ss, 1, n)
  OBVIOUS
<1>3. PICK t : t = SubSeq(ss, 1, n + 1)
  OBVIOUS
<1>4. s \in Seq(T) /\ Len(s) = n /\ \A i \in 1 .. n : s[i] = ss[i]
  BY <1>1, <1>2, Firsts
<1>5. t \in Seq(T) /\ Len(t) = n + 1 /\ \A i \in 1 .. n + 1 : t[i] = ss[i]
  BY <1>1, <1>3, Firsts
<1>6. PICK g : Chain(g, t, n + 1) /\ FlattenSeq(t) = g[n + 1]
  <2>1. n + 1 # 0
    OBVIOUS
  <2>2. Len(t) # 0
    BY <1>5, <2>1
  <2>3. \E g : Chain(g, t, Len(t)) /\ FlattenSeq(t) = g[Len(t)]
    BY <1>5, <2>2, FlattenIsChain
  <2> QED  BY <1>5, <2>3, Zenon
<1>7. g[n + 1] = IF n = 0 THEN ss[n + 1] ELSE g[n] \o ss[n + 1]
  <2>1. n + 1 \in 1 .. n + 1 /\ (n + 1) - 1 = n /\ (n + 1 = 1 <=> n = 0)
    OBVIOUS
  <2>2. g[n + 1] = Link(g, t, n + 1)
    BY <1>6, <2>1 DEF Chain
  <2>3. t[n + 1] = ss[n + 1]
    BY <1>5, <2>1
  <2> QED  BY <2>1, <2>2, <2>3 DEF Link
<1>8. Upto(ss, n) = FlattenSeq(s) /\ Upto(ss, n + 1) = FlattenSeq(t)
  BY <1>2, <1>3 DEF Upto
<1>9. CASE n = 0
  <2>1. FlattenSeq(s) = <<>>
    BY <1>8, <1>9, UptoNone
  <2>2. <<>> \o ss[n + 1] = ss[n + 1]
    <3>1. ss[n + 1] \in Seq(S)
      OBVIOUS
    <3> QED  BY <3>1, ConcatEmptySeq
  <2> QED  BY <1>6, <1>7, <1>8, <1>9, <2>1, <2>2
<1>10. CASE n # 0
  <2>1. PICK f : Chain(f, s, n) /\ FlattenSeq(s) = f[n]
    BY <1>4, <1>10, FlattenIsChain
  <2>2. \A i \in 1 .. n : s[i] = t[i]
    BY <1>4, <1>5
  <2>3. \A i \in 1 .. n : f[i] = g[i]
    <3>1. n <= n + 1 /\ n + 1 \in Nat
      OBVIOUS
    <3>2. Chain(f, s, n) /\ Chain(g, t, n + 1)
      BY <1>6, <2>1
    <3> QED  BY <2>2, <3>1, <3>2, ChainsAgree, SMT
  <2>4. f[n] = g[n]
    BY <1>10, <2>3
  <2> QED  BY <1>6, <1>7, <1>8, <1>10, <2>1, <2>4
<1> QED  BY <1>9, <1>10

LEMMA UptoGrows ==
  ASSUME NEW S, NEW ss \in Seq(Seq(S))
  PROVE  \A n \in 0 .. Len(ss) : Upto(ss, n) \in Seq(S)
<1> DEFINE P == {n \in Nat : n <= Len(ss) => Upto(ss, n) \in Seq(S)}
<1>0. <<>> \in Seq(S) /\ Upto(ss, 0) = <<>>
  BY UptoNone
<1>1. 0 \in P
  BY <1>0
<1>2. ASSUME NEW n \in Nat, n \in P PROVE n + 1 \in P
  <2> SUFFICES ASSUME n + 1 <= Len(ss) PROVE Upto(ss, n + 1) \in Seq(S)
    OBVIOUS
  <2>1. n < Len(ss) /\ Upto(ss, n) \in Seq(S)
    BY <1>2
  <2>2. ss[n + 1] \in Seq(S)
    OBVIOUS
  <2>3. Upto(ss, n + 1) = Upto(ss, n) \o ss[n + 1]
    BY <2>1, UptoNext
  <2> HIDE DEF P
  <2> QED  BY <2>1, <2>2, <2>3, ConcatProperties
<1> HIDE DEF P
<1>3. Nat \subseteq P
  BY <1>1, <1>2, Induct
<1> QED  BY <1>3 DEF P

LEMMA UptoSteps ==
  ASSUME NEW S, NEW ss \in Seq(Seq(S)), NEW n \in Nat, n < Len(ss)
  PROVE  /\ Upto(ss, n) \in Seq(S) /\ ss[n + 1] \in Seq(S) /\ Upto(ss, n + 1) \in Seq(S)
         /\ Upto(ss, n + 1) = Upto(ss, n) \o ss[n + 1]
         /\ Len(Upto(ss, n + 1)) = Len(Upto(ss, n)) + Len(ss[n + 1])
         /\ Len(Upto(ss, n)) \in Nat /\ Len(ss[n + 1]) \in Nat
<1>1. n \in 0 .. Len(ss) /\ n + 1 \in 0 .. Len(ss) /\ n + 1 \in 1 .. Len(ss)
  OBVIOUS
<1>2. Upto(ss, n) \in Seq(S) /\ Upto(ss, n + 1) \in Seq(S)
  BY <1>1, UptoGrows
<1>3. ss[n + 1] \in Seq(S)
  BY <1>1
<1>4. Upto(ss, n + 1) = Upto(ss, n) \o ss[n + 1]
  BY UptoNext
<1>5. Len(Upto(ss, n + 1)) = Len(Upto(ss, n)) + Len(ss[n + 1])
  BY <1>2, <1>3, <1>4, ConcatProperties
<1>6. Len(Upto(ss, n)) \in Nat /\ Len(ss[n + 1]) \in Nat
  BY <1>2, <1>3, LenProperties
<1> QED  BY <1>2, <1>3, <1>4, <1>5, <1>6

\* Longer beginnings are longer.
LEMMA UptoLonger ==
  ASSUME NEW S, NEW ss \in Seq(Seq(S)), NEW n \in 0 .. Len(ss)
  PROVE  \A m \in n .. Len(ss) :
           /\ Len(Upto(ss, n)) <= Len(Upto(ss, m))
           /\ n < m /\ (\A i \in 1 .. Len(ss) : Len(ss[i]) > 0) =>
                Len(Upto(ss, n)) < Len(Upto(ss, m))
<1> DEFINE L(m) == Len(Upto(ss, m))
           Filled == \A i \in 1 .. Len(ss) : Len(ss[i]) > 0
           P == {d \in Nat : n + d <= Len(ss) =>
                   /\ L(n) <= L(n + d)
                   /\ d # 0 /\ Filled => L(n) < L(n + d)}
<1>0. n \in Nat /\ Len(ss) \in Nat
  OBVIOUS
<1>1. \A m \in 0 .. Len(ss) : L(m) \in Nat
  BY UptoGrows, LenProperties
<1>2. 0 \in P
  BY <1>0, <1>1
<1>3. ASSUME NEW d \in Nat, d \in P PROVE d + 1 \in P
  <2> SUFFICES ASSUME n + (d + 1) <= Len(ss)
               PROVE  L(n) <= L(n + (d + 1)) /\ (Filled => L(n) < L(n + (d + 1)))
    BY <1>0
  <2>1. /\ n + d \in Nat /\ n + d < Len(ss) /\ n + d <= Len(ss) /\ (n + d) + 1 = n + (d + 1)
        /\ n + (d + 1) \in 1 .. Len(ss)
    BY <1>0
  <2>2. L(n) <= L(n + d)
    BY <1>3, <2>1
  <2>3. L((n + d) + 1) = L(n + d) + Len(ss[(n + d) + 1]) /\ Len(ss[(n + d) + 1]) \in Nat
    BY <2>1, UptoSteps
  <2>4. L(n) \in Nat /\ L(n + d) \in Nat
    BY <1>0, <1>1, <2>1
  <2>5. Filled => Len(ss[n + (d + 1)]) > 0
    BY <2>1
  <2> HIDE DEF L, Filled
  <2> QED  BY <2>1, <2>2, <2>3, <2>4, <2>5
<1> HIDE DEF P, L, Filled
<1>4. Nat \subseteq P
  BY <1>2, <1>3, Induct
<1>5. ASSUME NEW m \in n .. Len(ss) PROVE L(n) <= L(m) /\ (n < m /\ Filled => L(n) < L(m))
  <2>1. m - n \in Nat /\ n + (m - n) = m /\ m <= Len(ss) /\ (n < m => m - n # 0)
    BY <1>0
  <2>2. m - n \in P
    BY <1>4, <2>1
  <2> QED  BY <2>1, <2>2 DEF P
<1> QED  BY <1>5 DEF L, Filled

-----------------------------------------------------------------------------
(***************************************************************************)
(* What a file holds from a place on, as far as it goes.                   *)
(***************************************************************************)
Ahead(l, a, s) == \A k \in 1 .. Len(s) : a + k <= Len(l) => l[a + k] = s[k]

LEMMA AheadConcat ==
  ASSUME NEW S, NEW s \in Seq(S), NEW t \in Seq(S), NEW l \in Seq(S), NEW a \in Nat,
         Ahead(l, a, s \o t)
  PROVE  Ahead(l, a, s) /\ Ahead(l, a + Len(s), t)
<1>1. Len(s) \in Nat /\ Len(t) \in Nat /\ Len(l) \in Nat
  OBVIOUS
<1>2. Len(s \o t) = Len(s) + Len(t)
  BY ConcatProperties
<1>3. \A i \in 1 .. Len(s) + Len(t) :
         (s \o t)[i] = IF i <= Len(s) THEN s[i] ELSE t[i - Len(s)]
  BY ConcatProperties
<1>4. ASSUME NEW k \in 1 .. Len(s), a + k <= Len(l) PROVE l[a + k] = s[k]
  <2>1. k \in 1 .. Len(s) + Len(t) /\ k <= Len(s)
    BY <1>1
  <2>2. (s \o t)[k] = s[k]
    BY <1>3, <2>1
  <2> QED  BY <1>2, <1>4, <2>1, <2>2 DEF Ahead
<1>5. ASSUME NEW k \in 1 .. Len(t), (a + Len(s)) + k <= Len(l) PROVE l[(a + Len(s)) + k] = t[k]
  <2>1. /\ Len(s) + k \in 1 .. Len(s) + Len(t) /\ ~ (Len(s) + k <= Len(s))
        /\ (Len(s) + k) - Len(s) = k /\ a + (Len(s) + k) = (a + Len(s)) + k
    BY <1>1
  <2>2. (s \o t)[Len(s) + k] = t[k]
    BY <1>3, <2>1
  <2> QED  BY <1>2, <1>5, <2>1, <2>2 DEF Ahead
<1> QED  BY <1>4, <1>5 DEF Ahead

LEMMA AheadUpto ==
  ASSUME NEW S, NEW ss \in Seq(Seq(S)), NEW l \in Seq(S), NEW a \in Nat,
         Ahead(l, a, FlattenSeq(ss))
  PROVE  \A n \in 0 .. Len(ss) :
           /\ Ahead(l, a, Upto(ss, n))
           /\ n < Len(ss) => Ahead(l, a + Len(Upto(ss, n)), ss[n + 1])
<1> DEFINE P == {d \in Nat : d <= Len(ss) => Ahead(l, a, Upto(ss, Len(ss) - d))}
<1>0. Len(ss) \in Nat
  OBVIOUS
<1>1. 0 \in P
  <2>1. Len(ss) - 0 = Len(ss)
    BY <1>0
  <2> QED  BY <2>1, UptoAll
<1>2. ASSUME NEW n \in Nat, n < Len(ss), Ahead(l, a, Upto(ss, n + 1))
      PROVE  Ahead(l, a, Upto(ss, n)) /\ Ahead(l, a + Len(Upto(ss, n)), ss[n + 1])
  <2>1. /\ Upto(ss, n) \in Seq(S) /\ ss[n + 1] \in Seq(S)
        /\ Upto(ss, n + 1) = Upto(ss, n) \o ss[n + 1]
    BY <1>2, UptoSteps
  <2> QED  BY <1>2, <2>1, AheadConcat
<1>3. ASSUME NEW d \in Nat, d \in P PROVE d + 1 \in P
  <2> SUFFICES ASSUME d + 1 <= Len(ss) PROVE Ahead(l, a, Upto(ss, Len(ss) - (d + 1)))
    OBVIOUS
  <2>1. /\ Len(ss) - (d + 1) \in Nat /\ Len(ss) - (d + 1) < Len(ss) /\ d <= Len(ss)
        /\ (Len(ss) - (d + 1)) + 1 = Len(ss) - d
    BY <1>0
  <2>2. Ahead(l, a, Upto(ss, (Len(ss) - (d + 1)) + 1))
    BY <1>3, <2>1
  <2> QED  BY <1>2, <2>1, <2>2
<1> HIDE DEF P
<1>4. Nat \subseteq P
  BY <1>1, <1>3, Induct
<1>5. \A n \in 0 .. Len(ss) : Ahead(l, a, Upto(ss, n))
  <2> TAKE n \in 0 .. Len(ss)
  <2>1. Len(ss) - n \in Nat /\ Len(ss) - n <= Len(ss) /\ Len(ss) - (Len(ss) - n) = n
    BY <1>0
  <2>2. Len(ss) - n \in P
    BY <1>4, <2>1
  <2> QED  BY <2>1, <2>2 DEF P
<1>6. ASSUME NEW n \in 0 .. Len(ss), n < Len(ss)
      PROVE  Ahead(l, a + Len(Upto(ss, n)), ss[n + 1])
  <2>1. n \in Nat /\ n + 1 \in 0 .. Len(ss)
    BY <1>0, <1>6
  <2> QED  BY <1>2, <1>5, <1>6, <2>1
<1> QED  BY <1>5, <1>6

-----------------------------------------------------------------------------
(***************************************************************************)
(* The inductive invariant: what each reading of each format has come to.  *)
(***************************************************************************)
Entries == source.events
Parts == Pieces(source.format, Entries, source.prefix)
Off(n) == Len(Upto(Parts, n))

\* The first entries of the log have been read.
Begun == Len(parsed) \in 0 .. Len(Entries) /\ parsed = SubSeq(Entries, 1, Len(parsed))
AtEntry == Begun /\ at = Off(Len(parsed)) /\ entry = NoEntry
Nothing == at = 0 /\ parsed = <<>> /\ sizes = <<>> /\ entry = NoEntry

\* The file ends in the middle of an entry: of some entry, of the next one.
Mid == log # <<>> /\ \A n \in 1 .. Len(Entries) : ~EndsAfter(n)
Stuck == Off(Len(parsed)) < Len(log) /\ Len(log) < Off(Len(parsed) + 1)

\* The digests of the entry being read, as cells.
DigestParts(e, prefix) ==
  [k \in 1 .. Len(e.digests) |->
     <<e.digests[k].alg>> \o (IF prefix THEN <<Len(e.digests[k].digest)>> ELSE <<>>)
       \o e.digests[k].digest]

NextOne == Entries[Len(parsed) + 1]
Start == Off(Len(parsed)) + 3

\* The digests read are the first ones of the entry.
Following ==
  LET j == Len(entry.digests)
  IN /\ source.prefix \/ entry.auto
     /\ ~entry.auto => Stuck
     /\ j \in 0 .. Len(NextOne.digests) /\ entry.digests = SubSeq(NextOne.digests, 1, j)
     /\ at = Start + Len(Upto(DigestParts(NextOne, source.prefix), j))

\* The file ended in a digest, which was taken for a shorter one.
Exhausted == Stuck /\ at = Len(log)

\* The second attempt takes what a digest begins with for its length.
Misled == Stuck /\ ~entry.auto /\ ~source.prefix /\ at = Start /\ entry.digests = <<>>

InDigests ==
  /\ Begun /\ Len(parsed) < Len(Entries)
  /\ entry.pcr = NextOne.pcr /\ entry.type = NextOne.type
  /\ entry.count = Len(NextOne.digests) /\ entry.start = Start /\ entry.auto \in BOOLEAN
  /\ Following \/ Exhausted \/ Misled

\* The header announced the sizes of the digests that follow.
SizesAnnounced ==
  \A k \in 2 .. Len(Entries) : \A j \in 1 .. Len(Entries[k].digests) :
    LenForAlg(Entries[k].digests[j].alg) = Written(Entries[k].digests[j].alg)

JsonReading ==
  /\ stage # "digests"
  /\ stage = "head" => IF way = "json" THEN /\ log # <<>> /\ AtEntry
                                         /\ \A k \in 1 .. at : log[k] # TornLine
                    ELSE Nothing /\ (way = "event1" => log # <<>>)

LegacyReading ==
  /\ stage = "head" => CASE way = "spec" -> AtEntry
                      [] way = "event2" -> Nothing /\ (log = <<>> \/ Mid)
                      [] way = "event1" -> AtEntry /\ Mid
                      [] way = "json" -> Nothing /\ Mid
  /\ stage = "digests" => /\ way = "event2" /\ Mid /\ at = 3 /\ entry.digests = <<>>
                       /\ 3 <= Len(log) /\ entry.count = log[3] /\ entry.type = log[2]
                       /\ parsed = <<>> /\ sizes = <<>>

BareReading ==
  /\ stage = "head" => CASE way = "spec" -> Nothing
                      [] way = "event2" -> AtEntry
                      [] OTHER -> Nothing /\ Mid
  /\ stage = "digests" => way = "event2" /\ InDigests
  /\ sizes = <<>>

AgileReading ==
  /\ stage = "head" => CASE way = "spec" -> AtEntry /\ (parsed # <<>> => SizesAnnounced)
                      [] way = "event2" -> Nothing /\ (log = <<>> \/ Mid)
                      [] way = "event1" -> AtEntry /\ Len(parsed) <= 1 /\ Mid
                      [] way = "json" -> Nothing /\ Mid
  /\ stage = "digests" => \/ way = "spec" /\ InDigests /\ parsed # <<>> /\ SizesAnnounced
                       \/ /\ way = "event2" /\ Mid /\ at = 3 /\ parsed = <<>>
                          /\ entry.count = 0 /\ entry.digests = <<>>
                          /\ entry.type = SPEC_ID_EVENT_TYPE
  /\ parsed = <<>> => sizes = <<>>

Reading ==
  CASE source.format = "json" -> JsonReading
    [] source.format = "legacy" -> LegacyReading
    [] source.format = "bare" -> BareReading
    [] source.format = "agile" -> AgileReading

\* What the parser ends with.
Outcome ==
  /\ stage = "ok" => EndsAfter(Len(parsed)) /\ parsed = SubSeq(Entries, 1, Len(parsed))
  /\ stage = "err" => Mid

Kept ==
  /\ stage \in {"head", "digests", "ok", "err"} /\ way \in {"spec", "event2", "event1", "json"}
  /\ at \in 0 .. Len(log)

ParserInv == Stored /\ (Clear => Kept /\ Reading /\ Outcome)

-----------------------------------------------------------------------------
(***************************************************************************)
(* What is logged.                                                         *)
(***************************************************************************)
DigestSet == [alg : Nat, digest : Seq(Nat)]
EventSet == [pcr : Nat, type : Nat, digests : Seq(DigestSet), data : Seq(Nat)]

\* An event of a bank; one with no digest is alone and has data.
Body(e) ==
  /\ e = TcgEvent(7, e.type, e.digests, e.data) /\ e \in EventSet
  /\ e.type \in {SPEC_ID_EVENT_TYPE, 8} /\ e.data \in {<<>>, <<Random>>}
  /\ Len(e.digests) \in 1 .. MAX_DIGEST_COUNT
  /\ \A k \in 1 .. Len(e.digests) :
       LET d == e.digests[k] IN
       \/ /\ d.digest = <<>> /\ d.alg \notin DOMAIN DigestLen
          /\ e.type = SPEC_ID_EVENT_TYPE /\ Len(e.digests) = 1 /\ e.data = <<Random>>
       \/ \E first \in {0, Random, Written(d.alg)} :
            d.digest = DigestCells(d.alg, first) /\ (first = 0 => e.type = SPEC_ID_EVENT_TYPE)

\* An event of a bank all of whose digests are there.
Digested(e) == Body(e) /\ \A k \in 1 .. Len(e.digests) : e.digests[k].digest # <<>>

LEMMA WrittenIs == ASSUME NEW a PROVE Written(a) \in {4, 5}
BY DEF Written, DigestLen, Sha1, Sha256

LEMMA DigestCellsAre ==
  ASSUME NEW a, NEW first \in Nat
  PROVE  LET d == DigestCells(a, first)
         IN /\ d \in Seq(Nat) /\ Len(d) = Written(a) /\ d # <<>>
            /\ d[1] = first /\ \A i \in 2 .. Written(a) : d[i] = IF first = 0 THEN 0 ELSE Random
<1> DEFINE d == DigestCells(a, first)
<1>1. PICK w \in {4, 5} : w = Written(a)
  BY WrittenIs
<1>2. d = [k \in 1 .. w |-> IF k = 1 THEN first ELSE IF first = 0 THEN 0 ELSE Random]
  BY <1>1 DEF DigestCells
<1>3. d \in [1 .. w -> Nat]
  BY <1>2 DEF Random
<1>4. d \in Seq(Nat) /\ Len(d) = w
  BY <1>3
<1>5. d[1] = first /\ \A i \in 2 .. w : d[i] = IF first = 0 THEN 0 ELSE Random
  BY <1>1, <1>2
<1>6. d # <<>>
  BY <1>1, <1>4
<1> QED  BY <1>1, <1>4, <1>5, <1>6

LEMMA BankEventsAre ==
  ASSUME NEW b \in Seq(Nat), Len(b) \in 1 .. MAX_DIGEST_COUNT, NEW e \in BankEvents(b)
  PROVE  /\ Digested(e) /\ Len(e.digests) = Len(b)
         /\ \A k \in 1 .. Len(b) : e.digests[k].alg = b[k]
<1>1. PICK t \in {SPEC_ID_EVENT_TYPE, 8}, d \in {<<>>, <<Random>>},
           f \in {g \in [1 .. Len(b) -> {Random, 4, 5}] :
                    \A k \in 1 .. Len(b) : g[k] \in {Random, Written(b[k])}} :
        e = TcgEvent(7, t, [k \in 1 .. Len(b) |-> Digest(b[k], DigestCells(b[k], f[k]))], d)
  <2> DEFINE F == {g \in [1 .. Len(b) -> {Random, 4, 5}] :
                     \A k \in 1 .. Len(b) : g[k] \in {Random, Written(b[k])}}
             Made(t, d, f) ==
               TcgEvent(7, t, [k \in 1 .. Len(b) |-> Digest(b[k], DigestCells(b[k], f[k]))], d)
  <2>1. BankEvents(b) = {Made(t, d, f) : t \in {SPEC_ID_EVENT_TYPE, 8}, d \in {<<>>, <<Random>>}, f \in F}
    BY DEF BankEvents
  <2>2. \E t \in {SPEC_ID_EVENT_TYPE, 8}, d \in {<<>>, <<Random>>}, f \in F : e = Made(t, d, f)
    <3> HIDE DEF F, Made
    <3> QED  BY <2>1
  <2> QED  BY <2>2
<1> DEFINE ds == [k \in 1 .. Len(b) |-> Digest(b[k], DigestCells(b[k], f[k]))]
<1>2. Len(b) \in Nat /\ \A k \in 1 .. Len(b) : f[k] \in Nat /\ b[k] \in Nat
  <2>1. f \in [1 .. Len(b) -> {Random, 4, 5}]
    BY <1>1
  <2>2. Random \in Nat /\ Len(b) \in Nat /\ \A k \in 1 .. Len(b) : b[k] \in Nat
    BY DEF Random
  <2> QED  BY <2>1, <2>2
<1>3. \A k \in 1 .. Len(b) : Digest(b[k], DigestCells(b[k], f[k])) \in DigestSet
  <2> TAKE k \in 1 .. Len(b)
  <2>1. DigestCells(b[k], f[k]) \in Seq(Nat)
    BY <1>2, DigestCellsAre
  <2> QED  BY <1>2, <2>1 DEF Digest, DigestSet
<1>4. PICK T : T = DigestSet
  OBVIOUS
<1>5. ds \in [1 .. Len(b) -> T]
  BY <1>3, <1>4
<1>6. ds \in Seq(T) /\ Len(ds) = Len(b)
  <2> HIDE DEF ds
  <2> QED  BY <1>2, <1>5, SMTT(30)
<1>7. e.pcr = 7 /\ e.type = t /\ e.digests = ds /\ e.data = d /\ e = TcgEvent(7, t, ds, d)
  BY <1>1 DEF TcgEvent
<1>8. \A k \in 1 .. Len(b) :
        /\ ds[k].alg = b[k] /\ ds[k].digest = DigestCells(b[k], f[k])
        /\ ds[k].digest # <<>>
        /\ \E first \in {0, Random, Written(ds[k].alg)} :
             ds[k].digest = DigestCells(ds[k].alg, first) /\ (first = 0 => t = SPEC_ID_EVENT_TYPE)
  <2> TAKE k \in 1 .. Len(b)
  <2>1. ds[k].alg = b[k] /\ ds[k].digest = DigestCells(b[k], f[k])
    BY DEF Digest
  <2>2. f[k] \in {Random, Written(b[k])}
    BY <1>1
  <2>3. DigestCells(b[k], f[k]) # <<>>
    BY <1>2, DigestCellsAre
  <2>4. f[k] # 0
    BY <2>2, WrittenIs DEF Random
  <2> HIDE DEF ds
  <2> QED  BY <2>1, <2>2, <2>3, <2>4
<1> HIDE DEF ds
<1>9. e \in EventSet
  <2>1. t \in Nat /\ 7 \in Nat
    BY <1>1 DEF SPEC_ID_EVENT_TYPE
  <2>2. d \in Seq(Nat)
    <3>1. d \in {<<>>, <<Random>>} /\ Random \in Nat
      BY <1>1 DEF Random
    <3>2. <<>> \in Seq(Nat) /\ <<Random>> \in Seq(Nat)
      BY <3>1
    <3> QED  BY <3>1, <3>2
  <2> QED  BY <1>4, <1>6, <1>7, <2>1, <2>2 DEF TcgEvent, EventSet
<1>10. Body(e)
  BY <1>1, <1>6, <1>7, <1>8, <1>9, ZenonT(60) DEF Body
<1> QED  BY <1>6, <1>7, <1>8, <1>10 DEF Digested

LEMMA ZeroEventIs ==
  ASSUME NEW b \in Seq(Nat), Len(b) \in 1 .. MAX_DIGEST_COUNT
  PROVE  LET e == ZeroEvent(b)
         IN /\ Digested(e) /\ Len(e.digests) = Len(b)
            /\ \A k \in 1 .. Len(b) : e.digests[k].alg = b[k]
<1> DEFINE e == ZeroEvent(b)
           ds == [k \in 1 .. Len(b) |-> Digest(b[k], DigestCells(b[k], 0))]
<1>1. Len(b) \in Nat /\ \A k \in 1 .. Len(b) : b[k] \in Nat
  OBVIOUS
<1>2. \A k \in 1 .. Len(b) : DigestCells(b[k], 0) \in Seq(Nat) /\ DigestCells(b[k], 0) # <<>>
  BY DigestCellsAre
<1>3. \A k \in 1 .. Len(b) : Digest(b[k], DigestCells(b[k], 0)) \in DigestSet
  BY <1>1, <1>2 DEF Digest, DigestSet
<1>4. PICK T : T = DigestSet
  OBVIOUS
<1>5. ds \in [1 .. Len(b) -> T]
  BY <1>3, <1>4
<1>6. ds \in Seq(T) /\ Len(ds) = Len(b)
  <2> HIDE DEF ds
  <2> QED  BY <1>1, <1>5, SMTT(30)
<1>7. /\ e.pcr = 7 /\ e.type = SPEC_ID_EVENT_TYPE /\ e.digests = ds /\ e.data = <<Random>>
      /\ e = TcgEvent(7, SPEC_ID_EVENT_TYPE, ds, <<Random>>)
  BY DEF ZeroEvent, TcgEvent
<1>8. \A k \in 1 .. Len(b) :
        /\ ds[k].alg = b[k] /\ ds[k].digest = DigestCells(b[k], 0) /\ ds[k].digest # <<>>
  BY <1>2 DEF Digest
<1> HIDE DEF ds, e
<1>9. e \in EventSet
  <2>1. SPEC_ID_EVENT_TYPE \in Nat /\ 7 \in Nat /\ <<Random>> \in Seq(Nat)
    BY DEF SPEC_ID_EVENT_TYPE, Random
  <2> QED  BY <1>4, <1>6, <1>7, <2>1 DEF TcgEvent, EventSet
<1>10. \A k \in 1 .. Len(e.digests) :
         \E first \in {0, Random, Written(e.digests[k].alg)} :
           /\ e.digests[k].digest = DigestCells(e.digests[k].alg, first)
           /\ first = 0 => e.type = SPEC_ID_EVENT_TYPE
  BY <1>6, <1>7, <1>8
<1>11. Body(e)
  BY <1>6, <1>7, <1>9, <1>10, ZenonT(60) DEF Body
<1>12. Digested(e) /\ Len(e.digests) = Len(b) /\ \A k \in 1 .. Len(b) : e.digests[k].alg = b[k]
  BY <1>6, <1>7, <1>8, <1>11 DEF Digested
<1> QED  BY <1>12 DEF e

LEMMA UndigestedAre ==
  ASSUME NEW b \in Seq(Nat), Len(b) \in 1 .. MAX_DIGEST_COUNT, NEW e \in Undigested(b)
  PROVE  Body(e)
<1>1. PICK a \in {b[1]} \ DOMAIN DigestLen :
         e = TcgEvent(7, SPEC_ID_EVENT_TYPE, <<Digest(a, <<>>)>>, <<Random>>)
  BY DEF Undigested
<1>2. a \in Nat
  BY <1>1
<1>3. Digest(a, <<>>) \in DigestSet
  BY <1>2 DEF Digest, DigestSet
<1>4. PICK T : T = DigestSet
  OBVIOUS
<1>5. <<Digest(a, <<>>)>> \in Seq(T) /\ Len(<<Digest(a, <<>>)>>) = 1
  BY <1>3, <1>4
<1>6. /\ e.pcr = 7 /\ e.type = 3 /\ e.digests = <<Digest(a, <<>>)>> /\ e.data = <<Random>>
      /\ e.digests[1].alg = a /\ e.digests[1].digest = <<>>
  BY <1>1 DEF TcgEvent, Digest, SPEC_ID_EVENT_TYPE
<1>7. e \in EventSet
  <2>1. e.data \in Seq(Nat)
    BY <1>6 DEF Random
  <2> QED  BY <1>1, <1>4, <1>5, <1>6, <2>1 DEF TcgEvent, EventSet, SPEC_ID_EVENT_TYPE
<1>8. \A k \in 1 .. Len(e.digests) : k = 1
  BY <1>5, <1>6
<1>9. e = TcgEvent(7, e.type, e.digests, e.data)
  BY <1>1, <1>6 DEF SPEC_ID_EVENT_TYPE
<1>10. Len(e.digests) = 1 /\ 1 \in 1 .. MAX_DIGEST_COUNT
  BY <1>5, <1>6 DEF MAX_DIGEST_COUNT
<1>11. \A k \in 1 .. Len(e.digests) :
         e.digests[k].digest = <<>> /\ e.digests[k].alg \notin DOMAIN DigestLen
  BY <1>1, <1>6, <1>8
<1> QED  BY <1>6, <1>7, <1>9, <1>10, <1>11 DEF Body, SPEC_ID_EVENT_TYPE

-----------------------------------------------------------------------------
(***************************************************************************)
(* Sequences of pieces of one length; the header's data.                   *)
(***************************************************************************)
LEMMA UptoEven ==
  ASSUME NEW S, NEW ss \in Seq(Seq(S)), NEW c \in {1, 2}, \A i \in 1 .. Len(ss) : Len(ss[i]) = c
  PROVE  \A n \in 0 .. Len(ss) : Len(Upto(ss, n)) = IF c = 1 THEN n ELSE 2 * n
<1> DEFINE P == {n \in Nat : n <= Len(ss) => Len(Upto(ss, n)) = IF c = 1 THEN n ELSE 2 * n}
<1>0. Len(ss) \in Nat
  OBVIOUS
<1>1. 0 \in P
  BY UptoNone
<1>2. ASSUME NEW n \in Nat, n \in P PROVE n + 1 \in P
  <2> SUFFICES ASSUME n + 1 <= Len(ss)
               PROVE  Len(Upto(ss, n + 1)) = IF c = 1 THEN n + 1 ELSE 2 * (n + 1)
    OBVIOUS
  <2>1. n < Len(ss) /\ n + 1 \in 1 .. Len(ss)
    BY <1>0
  <2>2. Len(Upto(ss, n + 1)) = Len(Upto(ss, n)) + Len(ss[n + 1])
    BY <2>1, UptoSteps
  <2>3. Len(Upto(ss, n)) = IF c = 1 THEN n ELSE 2 * n
    BY <1>2, <2>1
  <2>4. Len(ss[n + 1]) = c
    BY <2>1
  <2> HIDE DEF P
  <2> QED  BY <2>2, <2>3, <2>4
<1> HIDE DEF P
<1>3. Nat \subseteq P
  BY <1>1, <1>2, Induct
<1> QED  BY <1>3 DEF P

\* A whole holds each of its pieces, at its place.
LEMMA FlattenHolds ==
  ASSUME NEW S, NEW ss \in Seq(Seq(S))
  PROVE  /\ FlattenSeq(ss) \in Seq(S)
         /\ \A n \in 0 .. Len(ss) : Len(Upto(ss, n)) \in 0 .. Len(FlattenSeq(ss))
         /\ \A n \in 0 .. Len(ss) : n < Len(ss) => \A k \in 1 .. Len(ss[n + 1]) :
              /\ Len(Upto(ss, n)) + k \in 1 .. Len(FlattenSeq(ss))
              /\ FlattenSeq(ss)[Len(Upto(ss, n)) + k] = ss[n + 1][k]
<1>0. Len(ss) \in Nat
  OBVIOUS
<1> DEFINE w == FlattenSeq(ss)
<1>1. w = Upto(ss, Len(ss)) /\ w \in Seq(S)
  BY <1>0, UptoAll, UptoGrows
<1>2. Ahead(w, 0, w)
  BY DEF Ahead
<1>3. \A n \in 0 .. Len(ss) : Len(Upto(ss, n)) \in Nat /\ Len(Upto(ss, n)) <= Len(w)
  <2> TAKE n \in 0 .. Len(ss)
  <2>1. Len(ss) \in n .. Len(ss)
    BY <1>0
  <2>2. Upto(ss, n) \in Seq(S)
    BY UptoGrows
  <2> HIDE DEF w
  <2> QED  BY <1>1, <2>1, <2>2, UptoLonger, LenProperties
<1>4. ASSUME NEW n \in 0 .. Len(ss), n < Len(ss), NEW k \in 1 .. Len(ss[n + 1])
      PROVE  Len(Upto(ss, n)) + k \in 1 .. Len(w) /\ w[Len(Upto(ss, n)) + k] = ss[n + 1][k]
  <2>1. n \in Nat /\ n + 1 \in 0 .. Len(ss)
    BY <1>0, <1>4
  <2>2. Len(Upto(ss, n + 1)) = Len(Upto(ss, n)) + Len(ss[n + 1]) /\ Len(ss[n + 1]) \in Nat
    BY <1>4, <2>1, UptoSteps
  <2>3. Ahead(w, 0 + Len(Upto(ss, n)), ss[n + 1])
    BY <1>1, <1>2, <1>4, AheadUpto, 0 \in Nat
  <2>4. Len(Upto(ss, n)) \in Nat /\ Len(Upto(ss, n + 1)) <= Len(w) /\ Len(w) \in Nat
    BY <1>1, <1>3, <2>1, LenProperties
  <2>5. Len(Upto(ss, n)) + k \in 1 .. Len(w) /\ 0 + Len(Upto(ss, n)) = Len(Upto(ss, n))
    BY <1>4, <2>2, <2>4
  <2> HIDE DEF w
  <2> QED  BY <1>4, <2>3, <2>4, <2>5 DEF Ahead
<1>5. \A n \in 0 .. Len(ss) : Len(Upto(ss, n)) \in 0 .. Len(w)
  BY <1>1, <1>3, LenProperties
<1> QED  BY <1>1, <1>4, <1>5

LEMMA SpecIdIs ==
  ASSUME NEW b \in Seq(Nat)
  PROVE  LET d == SpecId(b)
         IN /\ d \in Seq(Nat) /\ Len(d) = 4 + 2 * Len(b)
            /\ d[1] = SpecTag /\ d[2] = 2 /\ d[3] = Len(b) /\ d[4 + 2 * Len(b)] = 0
            /\ \A k \in 1 .. Len(b) : d[2 + 2 * k] = b[k] /\ d[3 + 2 * k] = Written(b[k])
<1> DEFINE q == [k \in 1 .. Len(b) |-> <<b[k], Written(b[k])>>]
           w == FlattenSeq(q)
           h == <<SpecTag, 2, Len(b)>>
           d == SpecId(b)
<1>1. Len(b) \in Nat /\ \A k \in 1 .. Len(b) : b[k] \in Nat /\ Written(b[k]) \in Nat
  BY WrittenIs
<1>2. q \in Seq(Seq(Nat)) /\ Len(q) = Len(b)
  <2>1. \A k \in 1 .. Len(b) : <<b[k], Written(b[k])>> \in Seq(Nat)
    BY <1>1
  <2>2. PICK T : T = Seq(Nat)
    OBVIOUS
  <2>3. q \in [1 .. Len(b) -> T]
    BY <2>1, <2>2
  <2> HIDE DEF q
  <2> QED  BY <1>1, <2>2, <2>3
<1>3. \A k \in 1 .. Len(b) : Len(q[k]) = 2 /\ q[k][1] = b[k] /\ q[k][2] = Written(b[k])
  OBVIOUS
<1>4. \A n \in 0 .. Len(b) : Len(Upto(q, n)) = 2 * n
  <2> HIDE DEF q
  <2>1. \A n \in 0 .. Len(q) : Len(Upto(q, n)) = IF 2 = 1 THEN n ELSE 2 * n
    BY <1>2, <1>3, UptoEven, 2 \in {1, 2}
  <2> QED  BY <1>2, <2>1
<1>5. w \in Seq(Nat) /\ Len(w) = 2 * Len(b)
  <2> HIDE DEF q
  <2>1. w = Upto(q, Len(q))
    BY <1>2, UptoAll
  <2> QED  BY <1>1, <1>2, <1>4, <2>1, FlattenHolds
<1>6. ASSUME NEW k \in 1 .. Len(b) PROVE w[2 * k - 1] = b[k] /\ w[2 * k] = Written(b[k])
  <2> HIDE DEF q, w
  <2>1. k - 1 \in 0 .. Len(q) /\ k - 1 < Len(q) /\ (k - 1) + 1 = k
    BY <1>1, <1>2
  <2>2. Len(Upto(q, k - 1)) = 2 * (k - 1) /\ Len(q[k]) = 2
    BY <1>2, <1>3, <1>4, <2>1
  <2>3. 2 * (k - 1) + 1 = 2 * k - 1 /\ 2 * (k - 1) + 2 = 2 * k /\ 1 \in 1 .. 2 /\ 2 \in 1 .. 2
    BY <1>1
  <2>4. \A i \in 1 .. Len(q[(k - 1) + 1]) :
          FlattenSeq(q)[Len(Upto(q, k - 1)) + i] = q[(k - 1) + 1][i]
    BY <1>2, <2>1, FlattenHolds
  <2>5. \A i \in 1 .. 2 : w[2 * (k - 1) + i] = q[k][i]
    BY <2>1, <2>2, <2>4 DEF w
  <2>6. w[2 * k - 1] = q[k][1] /\ w[2 * k] = q[k][2]
    BY <2>3, <2>5
  <2> QED  BY <1>3, <2>6
<1> HIDE DEF w, q
<1>7. d = (h \o w) \o <<0>> /\ h \in Seq(Nat) /\ Len(h) = 3
  BY <1>1 DEF SpecId, w, q, SpecTag
<1> HIDE DEF d
<1>8. /\ h \o w \in Seq(Nat) /\ Len(h \o w) = 3 + 2 * Len(b)
      /\ \A i \in 1 .. 3 + 2 * Len(b) : (h \o w)[i] = IF i <= 3 THEN h[i] ELSE w[i - 3]
  <2> HIDE DEF h
  <2>1. /\ h \o w \in Seq(Nat) /\ Len(h \o w) = Len(h) + Len(w)
        /\ \A i \in 1 .. Len(h) + Len(w) : (h \o w)[i] = IF i <= Len(h) THEN h[i] ELSE w[i - Len(h)]
    BY <1>5, <1>7, ConcatProperties
  <2> QED  BY <1>5, <1>7, <2>1
<1>9. <<0>> \in Seq(Nat) /\ Len(<<0>>) = 1 /\ <<0>>[1] = 0
  OBVIOUS
<1>10. /\ d \in Seq(Nat) /\ Len(d) = 4 + 2 * Len(b)
       /\ \A i \in 1 .. 4 + 2 * Len(b) : d[i] = IF i <= 3 + 2 * Len(b) THEN (h \o w)[i] ELSE 0
  <2> DEFINE v == h \o w
             z == <<0>>
  <2>1. /\ d = v \o z /\ v \in Seq(Nat) /\ Len(v) = 3 + 2 * Len(b)
        /\ z \in Seq(Nat) /\ Len(z) = 1 /\ z[1] = 0
    BY <1>7, <1>8, <1>9
  <2> HIDE DEF v, z
  <2>2. /\ d \in Seq(Nat) /\ Len(d) = Len(v) + Len(z)
        /\ \A i \in 1 .. Len(v) + Len(z) : d[i] = IF i <= Len(v) THEN v[i] ELSE z[i - Len(v)]
    BY <2>1, ConcatProperties
  <2>3. \A i \in 1 .. 4 + 2 * Len(b) : ~ (i <= 3 + 2 * Len(b)) => i - (3 + 2 * Len(b)) = 1
    BY <1>1
  <2> QED  BY <1>1, <2>1, <2>2, <2>3 DEF v
<1>11. h[1] = SpecTag /\ h[2] = 2 /\ h[3] = Len(b)
  OBVIOUS
<1> HIDE DEF h
<1>12. ASSUME NEW i \in 1 .. 3 + 2 * Len(b) PROVE d[i] = IF i <= 3 THEN h[i] ELSE w[i - 3]
  <2>1. i \in 1 .. 4 + 2 * Len(b) /\ i <= 3 + 2 * Len(b)
    BY <1>1
  <2>2. d[i] = (h \o w)[i]
    BY <1>10, <2>1
  <2>3. (h \o w)[i] = IF i <= 3 THEN h[i] ELSE w[i - 3]
    BY <1>8
  <2> QED  BY <2>2, <2>3
<1>13. d[1] = SpecTag /\ d[2] = 2 /\ d[3] = Len(b)
  BY <1>1, <1>11, <1>12
<1>14. d[4 + 2 * Len(b)] = 0
  BY <1>1, <1>10, SMTT(30)
<1>15. ASSUME NEW k \in 1 .. Len(b) PROVE d[2 + 2 * k] = b[k] /\ d[3 + 2 * k] = Written(b[k])
  <2>1. /\ 2 + 2 * k \in 1 .. 3 + 2 * Len(b) /\ ~ (2 + 2 * k <= 3) /\ (2 + 2 * k) - 3 = 2 * k - 1
        /\ 3 + 2 * k \in 1 .. 3 + 2 * Len(b) /\ ~ (3 + 2 * k <= 3) /\ (3 + 2 * k) - 3 = 2 * k
    BY <1>1
  <2>2. d[2 + 2 * k] = w[2 * k - 1] /\ d[3 + 2 * k] = w[2 * k]
    BY <1>12, <2>1
  <2> QED  BY <1>6, <2>2
<1> QED  BY <1>10, <1>13, <1>14, <1>15 DEF d

-----------------------------------------------------------------------------
(***************************************************************************)
(* The events of a log, by its format.                                     *)
(***************************************************************************)
LEMMA BoundedSeqsAre ==
  ASSUME NEW S, NEW m, NEW s \in BoundedSeq(S, m), m \in Nat
  PROVE  s \in Seq(S) /\ \A k \in 1 .. Len(s) : s[k] \in S
<1>1. PICK n \in 0 .. m : s \in [1 .. n -> S]
  BY DEF BoundedSeq, SeqOf
<1>2. s \in Seq(S) /\ Len(s) = n
  BY <1>1
<1> QED  BY <1>1, <1>2

JsonEvents(es) == \A k \in 1 .. Len(es) : es[k] \in {JsonEvent(0), JsonEvent(11)}
LegacyEvents(es) ==
  \A k \in 1 .. Len(es) :
    Digested(es[k]) /\ Len(es[k].digests) = 1 /\ es[k].digests[1].alg = Sha1
BareEvents(es) == \A k \in 1 .. Len(es) : Body(es[k])
AgileEvents(es) ==
  /\ Len(es) > 0
  /\ \E b \in Banks :
       /\ es[1] = Header(b)
       /\ \A k \in 2 .. Len(es) : /\ Digested(es[k])
                                  /\ \A j \in 1 .. Len(es[k].digests) :
                                       \E i \in 1 .. Len(b) : es[k].digests[j].alg = b[i]

LEMMA BanksAre ==
  ASSUME NEW b \in Banks PROVE b \in Seq(Nat) /\ Len(b) \in 1 .. MAX_DIGEST_COUNT
BY ParserAssumption

LEMMA JsonEventIs ==
  ASSUME NEW i \in Nat
  PROVE  LET e == JsonEvent(i) IN e \in EventSet /\ e.pcr = i
<1>1. DigestCells(Sha256, Random) \in Seq(Nat)
  BY DigestCellsAre DEF Random
<1>2. Digest(Sha256, DigestCells(Sha256, Random)) \in DigestSet
  BY <1>1 DEF Digest, DigestSet, Sha256
<1>3. PICK T : T = DigestSet
  OBVIOUS
<1>4. <<Digest(Sha256, DigestCells(Sha256, Random))>> \in Seq(T)
  BY <1>2, <1>3
<1>5. <<>> \in Seq(Nat)
  OBVIOUS
<1> QED  BY <1>3, <1>4, <1>5 DEF JsonEvent, TcgEvent, EventSet

LEMMA HeaderIs ==
  ASSUME NEW b \in Banks
  PROVE  LET e == Header(b)
         IN /\ e \in EventSet /\ e.pcr = 0 /\ e.type = SPEC_ID_EVENT_TYPE /\ e.data = SpecId(b)
            /\ e.digests = <<Digest(Sha1, <<0, 0, 0, 0>>)>>
            /\ e = TcgEvent(0, SPEC_ID_EVENT_TYPE, e.digests, e.data)
<1>1. SpecId(b) \in Seq(Nat)
  BY BanksAre, SpecIdIs
<1>2. <<0, 0, 0, 0>> \in Seq(Nat)
  OBVIOUS
<1>3. Digest(Sha1, <<0, 0, 0, 0>>) \in DigestSet
  BY <1>2 DEF Digest, DigestSet, Sha1
<1>4. PICK T : T = DigestSet
  OBVIOUS
<1>5. <<Digest(Sha1, <<0, 0, 0, 0>>)>> \in Seq(T)
  BY <1>3, <1>4
<1> QED  BY <1>1, <1>4, <1>5 DEF Header, TcgEvent, EventSet, SPEC_ID_EVENT_TYPE

LEMMA LogsAre ==
  ASSUME NEW format \in {"agile", "bare", "legacy", "json"}, NEW b \in Banks,
         NEW es \in LogsOf(format, b)
  PROVE  /\ es \in Seq(EventSet)
         /\ format = "json" => JsonEvents(es)
         /\ format = "legacy" => LegacyEvents(es)
         /\ format = "bare" => BareEvents(es)
         /\ format = "agile" => AgileEvents(es)
<1>1. b \in Seq(Nat) /\ Len(b) \in 1 .. MAX_DIGEST_COUNT /\ MaxEntries \in Nat
  BY BanksAre, ParserAssumption
<1>2. PICK T : T = EventSet
  OBVIOUS
<1>3. CASE format = "json"
  <2>1. es \in BoundedSeq({JsonEvent(i) : i \in {0, 11}}, MaxEntries)
    BY <1>3 DEF LogsOf, EventsOf
  <2>2. es \in Seq({JsonEvent(i) : i \in {0, 11}})
         /\ \A k \in 1 .. Len(es) : es[k] \in {JsonEvent(i) : i \in {0, 11}}
    BY <1>1, <2>1, BoundedSeqsAre
  <2>3. JsonEvents(es)
    BY <2>2 DEF JsonEvents
  <2>4. {JsonEvent(i) : i \in {0, 11}} \subseteq T
    BY <1>2, JsonEventIs
  <2> QED  BY <1>2, <1>3, <2>2, <2>3, <2>4
<1>4. CASE format = "legacy"
  <2> DEFINE B == BankEvents(<<Sha1>>) \cup {ZeroEvent(<<Sha1>>)}
  <2>1. es \in BoundedSeq(B, MaxEntries)
    BY <1>4 DEF LogsOf, EventsOf
  <2>2. <<Sha1>> \in Seq(Nat) /\ Len(<<Sha1>>) \in 1 .. MAX_DIGEST_COUNT /\ 1 \in 1 .. Len(<<Sha1>>)
        /\ <<Sha1>>[1] = Sha1 /\ Len(<<Sha1>>) = 1
    BY DEF Sha1, MAX_DIGEST_COUNT
  <2>3. \A e \in B : Digested(e) /\ Len(e.digests) = 1 /\ e.digests[1].alg = Sha1
    <3> TAKE e \in B
    <3>1. /\ Digested(e) /\ Len(e.digests) = Len(<<Sha1>>)
          /\ \A k \in 1 .. Len(<<Sha1>>) : e.digests[k].alg = <<Sha1>>[k]
      BY <2>2, BankEventsAre, ZeroEventIs
    <3> QED  BY <2>2, <3>1
  <2> HIDE DEF B
  <2>4. es \in Seq(B) /\ \A k \in 1 .. Len(es) : es[k] \in B
    BY <1>1, <2>1, BoundedSeqsAre
  <2>5. LegacyEvents(es)
    BY <2>3, <2>4 DEF LegacyEvents
  <2>6. B \subseteq T
    BY <1>2, <2>3 DEF Digested, Body
  <2> QED  BY <1>2, <1>4, <2>4, <2>5, <2>6
<1>5. CASE format = "bare"
  <2> DEFINE B == BankEvents(b) \cup {ZeroEvent(b)} \cup Undigested(b)
  <2>1. es \in BoundedSeq(B, MaxEntries)
    BY <1>5 DEF LogsOf, EventsOf
  <2>2. \A e \in B : Body(e)
    BY <1>1, BankEventsAre, ZeroEventIs, UndigestedAre DEF Digested
  <2> HIDE DEF B
  <2>3. es \in Seq(B) /\ \A k \in 1 .. Len(es) : es[k] \in B
    BY <1>1, <2>1, BoundedSeqsAre
  <2>4. BareEvents(es)
    BY <2>2, <2>3 DEF BareEvents
  <2>5. B \subseteq T
    BY <1>2, <2>2 DEF Body
  <2> QED  BY <1>2, <1>5, <2>3, <2>4, <2>5
<1>6. CASE format = "agile"
  <2> DEFINE B == BankEvents(b) \cup {ZeroEvent(b)}
  <2>1. PICK bs \in BoundedSeq(B, MaxEntries) : es = <<Header(b)>> \o bs
    BY <1>6 DEF LogsOf, EventsOf
  <2>2. \A e \in B : /\ Digested(e)
                     /\ \A j \in 1 .. Len(e.digests) :
                                       \E i \in 1 .. Len(b) : e.digests[j].alg = b[i]
    <3> TAKE e \in B
    <3>1. Digested(e) /\ Len(e.digests) = Len(b) /\ \A k \in 1 .. Len(b) : e.digests[k].alg = b[k]
      BY <1>1, BankEventsAre, ZeroEventIs
    <3> HIDE DEF B
    <3> QED  BY <3>1
  <2>3. bs \in Seq(B) /\ \A k \in 1 .. Len(bs) : bs[k] \in B
    BY <1>1, <2>1, BoundedSeqsAre
  <2>4. B \subseteq T
    BY <1>2, <2>2 DEF Digested, Body
  <2>5. bs \in Seq(T)
    BY <2>3, <2>4
  <2>6. Header(b) \in T
    BY <1>2, HeaderIs
  <2>7. <<Header(b)>> \in Seq(T) /\ Len(<<Header(b)>>) = 1 /\ <<Header(b)>>[1] = Header(b)
    BY <2>6
  <2>8. /\ es \in Seq(T) /\ Len(es) = 1 + Len(bs)
        /\ \A i \in 1 .. 1 + Len(bs) : es[i] = IF i <= 1 THEN <<Header(b)>>[i] ELSE bs[i - 1]
    <3> DEFINE h == <<Header(b)>>
    <3> HIDE DEF h
    <3>1. es = h \o bs /\ h \in Seq(T) /\ Len(h) = 1
      BY <2>1, <2>7 DEF h
    <3>2. /\ es \in Seq(T) /\ Len(es) = Len(h) + Len(bs)
          /\ \A i \in 1 .. Len(h) + Len(bs) : es[i] = IF i <= Len(h) THEN h[i] ELSE bs[i - Len(h)]
      BY <2>5, <3>1, ConcatProperties
    <3> QED  BY <3>1, <3>2 DEF h
  <2>9. Len(bs) \in Nat
    BY <2>5
  <2>10. es[1] = Header(b)
    BY <2>7, <2>8, <2>9
  <2>11. \A k \in 2 .. Len(es) : es[k] \in B
    <3> TAKE k \in 2 .. Len(es)
    <3>1. k - 1 \in 1 .. Len(bs) /\ k \in 1 .. 1 + Len(bs) /\ ~ (k <= 1)
      BY <2>8, <2>9
    <3> HIDE DEF B
    <3> QED  BY <2>3, <2>8, <3>1
  <2>12. AgileEvents(es)
    <3> HIDE DEF B
    <3>1. Len(es) > 0
      BY <2>8, <2>9
    <3> QED  BY <2>2, <2>10, <2>11, <3>1 DEF AgileEvents
  <2> QED  BY <1>2, <1>6, <2>8, <2>12
<1> QED  BY <1>3, <1>4, <1>5, <1>6

-----------------------------------------------------------------------------
(***************************************************************************)
(* The cells of an entry and of a digest, part by part.                    *)
(***************************************************************************)
\* A single cell is what it is, if the file goes that far.
LEMMA AheadCell ==
  ASSUME NEW l \in Seq(Nat), NEW a \in Nat, NEW c, Ahead(l, a, <<c>>), a + 1 <= Len(l)
  PROVE  l[a + 1] = c
BY DEF Ahead

\* As much of it as is there can be cut out.
LEMMA AheadTaken ==
  ASSUME NEW l \in Seq(Nat), NEW a \in Nat, NEW s \in Seq(Nat), Ahead(l, a, s), a + Len(s) <= Len(l)
  PROVE  SubSeq(l, a + 1, a + Len(s)) = s
<1>1. Len(s) \in Nat /\ Len(l) \in Nat
  OBVIOUS
<1>2. \A i \in a + 1 .. a + Len(s) : l[i] \in Nat
  BY <1>1
<1>3. a + Len(s) \in Nat /\ a + 1 \in Nat
  BY <1>1
<1> DEFINE t == SubSeq(l, a + 1, a + Len(s))
<1>4. /\ t \in Seq(Nat)
      /\ Len(t) = IF a + 1 <= a + Len(s) THEN (a + Len(s)) - (a + 1) + 1 ELSE 0
      /\ \A i \in 1 .. (a + Len(s)) - (a + 1) + 1 : t[i] = l[(a + 1) + i - 1]
  BY <1>2, <1>3, SubSeqProperties
<1> HIDE DEF t
<1>5. Len(t) = Len(s)
  BY <1>1, <1>4
<1>6. ASSUME NEW i \in 1 .. Len(s) PROVE t[i] = s[i]
  <2>1. i \in 1 .. (a + Len(s)) - (a + 1) + 1 /\ (a + 1) + i - 1 = a + i /\ a + i <= Len(l)
    BY <1>1
  <2> QED  BY <1>4, <2>1 DEF Ahead
<1>7. t = s
  BY <1>4, <1>5, <1>6, SeqEqual
<1> QED  BY <1>7 DEF t

LEMMA Event1Ahead ==
  ASSUME NEW e \in EventSet, NEW g \in Seq(Nat), Len(e.digests) > 0, e.digests[1].digest = g
  PROVE  /\ Event1Cells(e) \in Seq(Nat) /\ Len(Event1Cells(e)) = 3 + Len(g) + Len(e.data)
         /\ \A l \in Seq(Nat), a \in Nat : Ahead(l, a, Event1Cells(e)) =>
              /\ Ahead(l, a, <<e.pcr, e.type>>) /\ Ahead(l, a + 2, g)
              /\ Ahead(l, a + 2 + Len(g), <<Len(e.data)>>)
              /\ Ahead(l, a + 3 + Len(g), e.data)
<1> DEFINE h == <<e.pcr, e.type>>
           z == <<Len(e.data)>>
           d == e.data
<1>1. h \in Seq(Nat) /\ Len(h) = 2 /\ z \in Seq(Nat) /\ Len(z) = 1 /\ d \in Seq(Nat) /\ Len(d) \in Nat
  BY DEF EventSet
<1>2. Event1Cells(e) = ((h \o g) \o z) \o d
  BY DEF Event1Cells
<1> HIDE DEF h, z, d
<1>3. h \o g \in Seq(Nat) /\ Len(h \o g) = 2 + Len(g)
  <2>1. h \o g \in Seq(Nat) /\ Len(h \o g) = Len(h) + Len(g)
    BY <1>1, ConcatProperties
  <2> QED  BY <1>1, <2>1
<1> DEFINE u == h \o g
<1>4. u \o z \in Seq(Nat) /\ Len(u \o z) = 3 + Len(g)
  <2>1. u \in Seq(Nat) /\ Len(u) = 2 + Len(g) /\ Len(g) \in Nat
    BY <1>3
  <2> HIDE DEF u
  <2>2. u \o z \in Seq(Nat) /\ Len(u \o z) = Len(u) + Len(z)
    BY <1>1, <2>1, ConcatProperties
  <2> QED  BY <1>1, <2>1, <2>2
<1> DEFINE v == u \o z
<1>5. v \o d \in Seq(Nat) /\ Len(v \o d) = 3 + Len(g) + Len(d)
  <2>1. v \in Seq(Nat) /\ Len(v) = 3 + Len(g)
    BY <1>4
  <2> HIDE DEF v
  <2>2. v \o d \in Seq(Nat) /\ Len(v \o d) = Len(v) + Len(d)
    BY <1>1, <2>1, ConcatProperties
  <2> QED  BY <2>1, <2>2
<1>6. ASSUME NEW l \in Seq(Nat), NEW a \in Nat, Ahead(l, a, Event1Cells(e))
      PROVE  /\ Ahead(l, a, h) /\ Ahead(l, a + 2, g) /\ Ahead(l, a + 2 + Len(g), z)
             /\ Ahead(l, a + 3 + Len(g), d)
  <2>1. Ahead(l, a, v) /\ Ahead(l, a + (3 + Len(g)), d)
    <3>1. Ahead(l, a, v \o d) /\ v \in Seq(Nat) /\ Len(v) = 3 + Len(g)
      BY <1>2, <1>4, <1>6
    <3> HIDE DEF v
    <3> QED  BY <1>1, <3>1, AheadConcat
  <2>2. Ahead(l, a, u) /\ Ahead(l, a + (2 + Len(g)), z)
    <3>1. Ahead(l, a, u \o z) /\ u \in Seq(Nat) /\ Len(u) = 2 + Len(g)
      BY <1>3, <2>1
    <3> HIDE DEF u
    <3> QED  BY <1>1, <3>1, AheadConcat
  <2>3. Ahead(l, a, h) /\ Ahead(l, a + 2, g)
    BY <1>1, <2>2, AheadConcat
  <2>4. a + (3 + Len(g)) = a + 3 + Len(g) /\ a + (2 + Len(g)) = a + 2 + Len(g)
    OBVIOUS
  <2> HIDE DEF u, v
  <2> QED  BY <2>1, <2>2, <2>3, <2>4
<1> QED  BY <1>2, <1>5, <1>6 DEF h, z, d

DigestsCells(e, prefix) == FlattenSeq(DigestParts(e, prefix))
Skip(prefix) == IF prefix THEN 2 ELSE 1

\* From a on, the file holds the digest x.
DigestAt(l, a, x, prefix) ==
  /\ Ahead(l, a, <<x.alg>>) /\ (prefix => Ahead(l, a + 1, <<Len(x.digest)>>))
  /\ Ahead(l, a + Skip(prefix), x.digest)

LEMMA DigestAhead ==
  ASSUME NEW e \in EventSet, NEW prefix \in BOOLEAN, NEW k \in 1 .. Len(e.digests),
         NEW x, x = e.digests[k], NEW p, p = DigestParts(e, prefix)[k]
  PROVE  /\ x.alg \in Nat /\ x.digest \in Seq(Nat)
         /\ p \in Seq(Nat) /\ Len(p) = Skip(prefix) + Len(x.digest)
         /\ \A l \in Seq(Nat), a \in Nat : Ahead(l, a, p) => DigestAt(l, a, x, prefix)
<1> DEFINE n == x.alg
           g == x.digest
           c == IF prefix THEN <<Len(g)>> ELSE <<>>
           h == <<n>>
<1>0. n \in Nat /\ g \in Seq(Nat)
  <2>1. PICK T : T = DigestSet
    OBVIOUS
  <2>2. e.digests \in Seq(T)
    BY <2>1 DEF EventSet
  <2>3. x \in T
    BY <2>2
  <2> QED  BY <2>1, <2>3 DEF DigestSet
<1>1. /\ h \in Seq(Nat) /\ Len(h) = 1 /\ c \in Seq(Nat) /\ 1 + Len(c) = Skip(prefix)
      /\ (prefix => c = <<Len(g)>>) /\ Len(c) \in Nat /\ Len(g) \in Nat
  BY <1>0 DEF Skip
<1>2. p = (h \o c) \o g
  BY DEF DigestParts
<1> HIDE DEF h, c, n, g
<1>3. h \o c \in Seq(Nat) /\ Len(h \o c) = Skip(prefix)
  <2>1. h \o c \in Seq(Nat) /\ Len(h \o c) = Len(h) + Len(c)
    BY <1>1, ConcatProperties
  <2> QED  BY <1>1, <2>1
<1> DEFINE u == h \o c
<1>4. p \in Seq(Nat) /\ Len(p) = Skip(prefix) + Len(g)
  <2>1. u \in Seq(Nat) /\ Len(u) = Skip(prefix) /\ p = u \o g
    BY <1>2, <1>3
  <2> HIDE DEF u
  <2> QED  BY <1>0, <2>1, ConcatProperties
<1>5. ASSUME NEW l \in Seq(Nat), NEW a \in Nat, Ahead(l, a, p)
      PROVE  /\ Ahead(l, a, h) /\ Ahead(l, a + 1, c) /\ Ahead(l, a + Skip(prefix), g)
  <2>1. Ahead(l, a, u) /\ Ahead(l, a + Skip(prefix), g)
    <3>1. Ahead(l, a, u \o g) /\ u \in Seq(Nat) /\ Len(u) = Skip(prefix)
      BY <1>2, <1>3, <1>5
    <3> HIDE DEF u
    <3> QED  BY <1>0, <3>1, AheadConcat
  <2>2. Ahead(l, a, h) /\ Ahead(l, a + 1, c)
    BY <1>1, <2>1, AheadConcat
  <2> QED  BY <2>1, <2>2
<1> QED  BY <1>0, <1>1, <1>4, <1>5 DEF h, n, g, DigestAt

LEMMA DigestTypes ==
  ASSUME NEW e \in EventSet, NEW k \in 1 .. Len(e.digests)
  PROVE  e.digests[k].alg \in Nat /\ e.digests[k].digest \in Seq(Nat)
<1>1. PICK T : T = DigestSet
  OBVIOUS
<1>2. e.digests \in Seq(T)
  BY <1>1 DEF EventSet
<1>3. e.digests[k] \in T
  BY <1>2
<1> QED  BY <1>1, <1>3 DEF DigestSet

LEMMA DigestPartsAre ==
  ASSUME NEW e \in EventSet, NEW prefix \in BOOLEAN
  PROVE  /\ DigestParts(e, prefix) \in Seq(Seq(Nat))
         /\ Len(DigestParts(e, prefix)) = Len(e.digests) /\ Len(e.digests) \in Nat
         /\ DigestsCells(e, prefix) \in Seq(Nat) /\ Len(DigestsCells(e, prefix)) \in Nat
<1>1. Len(e.digests) \in Nat
  BY DEF EventSet
<1> DEFINE ps == DigestParts(e, prefix)
<1>2. ps = [k \in 1 .. Len(e.digests) |-> ps[k]]
  BY DEF DigestParts
<1>3. PICK T : T = Seq(Nat)
  OBVIOUS
<1>4. \A k \in 1 .. Len(e.digests) : ps[k] \in T
  BY <1>3, DigestAhead
<1> HIDE DEF ps
<1>5. ps \in [1 .. Len(e.digests) -> T]
  BY <1>2, <1>4
<1>6. ps \in Seq(T) /\ Len(ps) = Len(e.digests)
  BY <1>1, <1>5
<1>7. DigestsCells(e, prefix) \in Seq(Nat)
  BY <1>3, <1>6, FlattenHolds DEF ps, DigestsCells
<1> QED  BY <1>1, <1>3, <1>6, <1>7 DEF ps

LEMMA Event2Ahead ==
  ASSUME NEW e \in EventSet, NEW prefix \in BOOLEAN
  PROVE  LET n == Len(DigestsCells(e, prefix)) IN
         /\ Event2Cells(e, prefix) \in Seq(Nat) /\ Len(Event2Cells(e, prefix)) = 4 + n + Len(e.data)
         /\ \A l \in Seq(Nat), a \in Nat : Ahead(l, a, Event2Cells(e, prefix)) =>
              /\ Ahead(l, a, <<e.pcr, e.type, Len(e.digests)>>)
              /\ Ahead(l, a + 3, DigestsCells(e, prefix))
              /\ Ahead(l, a + 3 + n, <<Len(e.data)>>)
              /\ Ahead(l, a + 4 + n, e.data)
<1> DEFINE h == <<e.pcr, e.type, Len(e.digests)>>
           g == DigestsCells(e, prefix)
           z == <<Len(e.data)>>
           d == e.data
<1>1. /\ h \in Seq(Nat) /\ Len(h) = 3 /\ g \in Seq(Nat) /\ Len(g) \in Nat /\ z \in Seq(Nat) /\ Len(z) = 1
      /\ d \in Seq(Nat) /\ Len(d) \in Nat
  BY DigestPartsAre DEF EventSet
<1>2. Event2Cells(e, prefix) = ((h \o g) \o z) \o d
  BY DEF Event2Cells, DigestsCells, DigestParts
<1> HIDE DEF h, g, z, d
<1> DEFINE u == h \o g
<1>3. u \in Seq(Nat) /\ Len(u) = 3 + Len(g)
  <2>1. h \o g \in Seq(Nat) /\ Len(h \o g) = Len(h) + Len(g)
    BY <1>1, ConcatProperties
  <2> QED  BY <1>1, <2>1
<1> HIDE DEF u
<1> DEFINE v == u \o z
<1>4. v \in Seq(Nat) /\ Len(v) = 4 + Len(g)
  <2>1. u \o z \in Seq(Nat) /\ Len(u \o z) = Len(u) + Len(z)
    BY <1>1, <1>3, ConcatProperties
  <2> QED  BY <1>1, <1>3, <2>1
<1> HIDE DEF v
<1>5. v \o d \in Seq(Nat) /\ Len(v \o d) = 4 + Len(g) + Len(d)
  <2>1. v \o d \in Seq(Nat) /\ Len(v \o d) = Len(v) + Len(d)
    BY <1>1, <1>4, ConcatProperties
  <2> QED  BY <1>4, <2>1
<1>6. Event2Cells(e, prefix) = v \o d
  BY <1>2 DEF u, v
<1>7. ASSUME NEW l \in Seq(Nat), NEW a \in Nat, Ahead(l, a, Event2Cells(e, prefix))
      PROVE  /\ Ahead(l, a, h) /\ Ahead(l, a + 3, g) /\ Ahead(l, a + 3 + Len(g), z)
             /\ Ahead(l, a + 4 + Len(g), d)
  <2>1. Ahead(l, a, v) /\ Ahead(l, a + (4 + Len(g)), d)
    BY <1>1, <1>4, <1>6, <1>7, AheadConcat, ZenonT(60)
  <2>2. Ahead(l, a, u \o z)
    BY <2>1 DEF v
  <2>3. Ahead(l, a, u) /\ Ahead(l, a + (3 + Len(g)), z)
    BY <1>1, <1>3, <2>2, AheadConcat
  <2>4. Ahead(l, a, h \o g)
    BY <2>3 DEF u
  <2>5. Ahead(l, a, h) /\ Ahead(l, a + 3, g)
    BY <1>1, <2>4, AheadConcat
  <2>6. a + (4 + Len(g)) = a + 4 + Len(g) /\ a + (3 + Len(g)) = a + 3 + Len(g)
    BY <1>1
  <2> QED  BY <2>1, <2>3, <2>5, <2>6
<1> QED  BY <1>5, <1>6, <1>7 DEF h, g, z, d

-----------------------------------------------------------------------------
(***************************************************************************)
(* The file, as the parts of the entries one after the other.              *)
(***************************************************************************)
Entire == Whole(source.format, Entries, source.prefix)

LEMMA SourceIs ==
  ASSUME Stored
  PROVE  /\ source.format \in {"agile", "bare", "legacy", "json"} /\ source.prefix \in BOOLEAN
         /\ Entries \in Seq(EventSet) /\ Len(Entries) \in Nat
         /\ source.format = "json" => JsonEvents(Entries)
         /\ source.format = "legacy" => LegacyEvents(Entries)
         /\ source.format = "bare" => BareEvents(Entries)
         /\ source.format = "agile" => AgileEvents(Entries)
         /\ Len(Entire) < Random - 1
         /\ \E cut \in 0 .. Len(Entire) :
              LET kept == SubSeq(Entire, 1, cut)
              IN log = kept \/ (source.format = "json" /\ log = kept \o <<TornLine>>)
<1>1. PICK format \in {"agile", "bare", "legacy", "json"}, prefix \in BOOLEAN, b \in Banks :
        \E es \in LogsOf(format, b) : \E cut \in 0 .. Len(Whole(format, es, prefix)) :
          LET kept == SubSeq(Whole(format, es, prefix), 1, cut)
          IN /\ source = [format |-> format, prefix |-> prefix, events |-> es]
             /\ log = kept \/ (format = "json" /\ log = kept \o <<TornLine>>)
  BY DEF Stored
<1>2. PICK es \in LogsOf(format, b) : \E cut \in 0 .. Len(Whole(format, es, prefix)) :
          LET kept == SubSeq(Whole(format, es, prefix), 1, cut)
          IN /\ source = [format |-> format, prefix |-> prefix, events |-> es]
             /\ log = kept \/ (format = "json" /\ log = kept \o <<TornLine>>)
  BY <1>1
<1>3. source.format = format /\ source.prefix = prefix /\ Entries = es
  BY <1>2 DEF Entries
<1>4. Len(Whole(format, es, prefix)) < Random - 1
  BY RandomAssumption
<1>5. PICK T : T = EventSet
  OBVIOUS
<1>6. es \in Seq(T)
  BY <1>5, LogsAre
<1>7. Len(es) \in Nat
  BY <1>6
<1> QED  BY <1>2, <1>3, <1>4, <1>5, <1>6, <1>7, LogsAre DEF Entire

AsEvent1(k) == source.format = "legacy" \/ (source.format = "agile" /\ k = 1)

LEMMA PartsAre ==
  ASSUME Stored
  PROVE  /\ Parts \in Seq(Seq(Nat)) /\ Len(Parts) = Len(Entries)
         /\ \A k \in 1 .. Len(Entries) :
              /\ Entries[k] \in EventSet
              /\ Parts[k] \in Seq(Nat) /\ Len(Parts[k]) > 0
              /\ Parts[k] = IF source.format = "json" THEN <<JsonLine(Entries[k].pcr)>>
                            ELSE IF AsEvent1(k) THEN Event1Cells(Entries[k])
                            ELSE Event2Cells(Entries[k], source.prefix)
<1>1. Len(Entries) \in Nat /\ \A k \in 1 .. Len(Entries) : Entries[k] \in EventSet
  <2>1. PICK T : T = EventSet
    OBVIOUS
  <2>2. Entries \in Seq(T)
    BY <2>1, SourceIs
  <2> QED  BY <2>1, <2>2
<1>2. Parts = [k \in 1 .. Len(Entries) |->
                 IF source.format = "json" THEN <<JsonLine(Entries[k].pcr)>>
                 ELSE IF AsEvent1(k) THEN Event1Cells(Entries[k])
                 ELSE Event2Cells(Entries[k], source.prefix)]
  BY DEF Parts, Pieces, AsEvent1
<1>3. ASSUME NEW k \in 1 .. Len(Entries)
      PROVE  Parts[k] \in Seq(Nat) /\ Len(Parts[k]) > 0
  <2>1. Entries[k] \in EventSet
    BY <1>1
  <2>2. CASE source.format = "json"
    <3>1. Parts[k] = <<JsonLine(Entries[k].pcr)>>
      BY <1>2, <2>2
    <3>2. JsonLine(Entries[k].pcr) \in Nat
      BY <2>1 DEF EventSet, JsonLine
    <3> QED  BY <3>1, <3>2
  <2>3. CASE source.format # "json" /\ AsEvent1(k)
    <3>1. Parts[k] = Event1Cells(Entries[k])
      BY <1>2, <2>3
    <3>2. Len(Entries[k].digests) > 0 /\ Entries[k].digests[1].digest \in Seq(Nat)
      <4>1. CASE source.format = "legacy"
        <5>1. Len(Entries[k].digests) = 1
          BY <4>1, SourceIs DEF LegacyEvents
        <5>2. 1 \in 1 .. Len(Entries[k].digests)
          BY <5>1
        <5> QED  BY <2>1, <5>1, <5>2, DigestTypes
      <4>2. CASE source.format = "agile" /\ k = 1
        <5>1. PICK b \in Banks : Entries[k] = Header(b)
          BY <4>2, SourceIs DEF AgileEvents
        <5>2. Entries[k].digests = <<Digest(Sha1, <<0, 0, 0, 0>>)>>
          BY <5>1, HeaderIs
        <5>3. Len(Entries[k].digests) = 1 /\ Entries[k].digests[1] = Digest(Sha1, <<0, 0, 0, 0>>)
          BY <5>2
        <5>4. 1 \in 1 .. Len(Entries[k].digests)
          BY <5>3
        <5> QED  BY <2>1, <5>3, <5>4, DigestTypes
      <4> QED  BY <2>3, <4>1, <4>2 DEF AsEvent1
    <3>3. Entries[k].data \in Seq(Nat)
      BY <2>1 DEF EventSet
    <3>4. PICK g : g = Entries[k].digests[1].digest
      OBVIOUS
    <3>5. Parts[k] \in Seq(Nat) /\ Len(Parts[k]) = 3 + Len(g) + Len(Entries[k].data)
      BY <2>1, <3>1, <3>2, <3>4, Event1Ahead
    <3>6. Len(g) \in Nat /\ Len(Entries[k].data) \in Nat
      BY <3>2, <3>3, <3>4, LenProperties
    <3>7. 3 + Len(g) + Len(Entries[k].data) > 0
      <4>1. \A x, y \in Nat : 3 + x + y > 0
        OBVIOUS
      <4> QED  BY <3>6, <4>1, Zenon
    <3> QED  BY <3>5, <3>7, Zenon
  <2>4. CASE source.format # "json" /\ ~AsEvent1(k)
    <3>1. Parts[k] = Event2Cells(Entries[k], source.prefix)
      BY <1>2, <2>4
    <3>2. source.prefix \in BOOLEAN
      BY SourceIs
    <3>3. /\ Parts[k] \in Seq(Nat)
          /\ Len(Parts[k]) = 4 + Len(DigestsCells(Entries[k], source.prefix)) + Len(Entries[k].data)
      BY <2>1, <3>1, <3>2, Event2Ahead
    <3>4. Len(DigestsCells(Entries[k], source.prefix)) \in Nat
      BY <2>1, <3>2, DigestPartsAre
    <3>5. Len(Entries[k].data) \in Nat
      BY <2>1 DEF EventSet
    <3>6. 4 + Len(DigestsCells(Entries[k], source.prefix)) + Len(Entries[k].data) > 0
      <4>1. \A x, y \in Nat : 4 + x + y > 0
        OBVIOUS
      <4> QED  BY <3>4, <3>5, <4>1, Zenon
    <3> QED  BY <3>3, <3>6, Zenon
  <2> QED  BY <2>2, <2>3, <2>4
<1>4. PICK T : T = Seq(Nat)
  OBVIOUS
<1>5. Parts \in [1 .. Len(Entries) -> T]
  <2>1. \A k \in 1 .. Len(Entries) : Parts[k] \in T
    BY <1>3, <1>4
  <2>2. Parts = [k \in 1 .. Len(Entries) |-> Parts[k]]
    BY <1>2, Zenon
  <2> QED  BY <2>1, <2>2
<1>6. Parts \in Seq(T) /\ Len(Parts) = Len(Entries)
  BY <1>1, <1>5
<1> QED  BY <1>1, <1>2, <1>3, <1>4, <1>6

\* Where the entries begin.
LEMMA Offsets ==
  ASSUME Stored
  PROVE  /\ Off(0) = 0 /\ Entire \in Seq(Nat) /\ Off(Len(Entries)) = Len(Entire)
         /\ Parts \in Seq(Seq(Nat)) /\ Len(Parts) = Len(Entries)
         /\ \A n \in 0 .. Len(Entries) :
              /\ Off(n) \in Nat
              /\ n < Len(Entries) => Off(n + 1) = Off(n) + Len(Parts[n + 1])
              /\ \A m \in n .. Len(Entries) : Off(n) <= Off(m) /\ (n < m => Off(n) < Off(m))
<1>1. /\ Parts \in Seq(Seq(Nat)) /\ Len(Parts) = Len(Entries) /\ Len(Entries) \in Nat
      /\ \A k \in 1 .. Len(Parts) : Len(Parts[k]) > 0
  BY PartsAre, SourceIs
<1>2. Entire = FlattenSeq(Parts)
  BY DEF Entire, Whole, Parts
<1>3. Off(Len(Entries)) = Len(Entire) /\ Entire \in Seq(Nat)
  BY <1>1, <1>2, UptoAll, FlattenHolds DEF Off
<1>4. Off(0) = 0
  BY UptoNone DEF Off
<1>5. ASSUME NEW n \in 0 .. Len(Entries)
      PROVE  /\ Off(n) \in Nat
             /\ n < Len(Entries) => Off(n + 1) = Off(n) + Len(Parts[n + 1])
             /\ \A m \in n .. Len(Entries) : Off(n) <= Off(m) /\ (n < m => Off(n) < Off(m))
  <2>1. n \in 0 .. Len(Parts) /\ n \in Nat
    BY <1>1
  <2>2. Off(n) \in Nat
    BY <1>1, <2>1, UptoGrows, LenProperties DEF Off
  <2>3. n < Len(Entries) => Off(n + 1) = Off(n) + Len(Parts[n + 1])
    BY <1>1, <2>1, UptoSteps DEF Off
  <2>4. \A m \in n .. Len(Entries) : Off(n) <= Off(m) /\ (n < m => Off(n) < Off(m))
    BY <1>1, <2>1, UptoLonger DEF Off
  <2> QED  BY <2>2, <2>3, <2>4
<1> QED  BY <1>1, <1>3, <1>4, <1>5

\* The file is the beginning of what was logged; with JSON, a torn line may follow.
LEMMA FileIs ==
  ASSUME Stored
  PROVE  /\ log \in Seq(Nat) /\ Len(log) \in Nat
         /\ source.format # "json" =>
              /\ Len(log) <= Len(Entire) /\ Ahead(log, 0, Entire)
              /\ \A n \in 0 .. Len(Entries) : n < Len(Entries) => Ahead(log, Off(n), Parts[n + 1])
<1>1. PICK cut \in 0 .. Len(Entire) :
        log = SubSeq(Entire, 1, cut)
            \/ (source.format = "json" /\ log = SubSeq(Entire, 1, cut) \o <<TornLine>>)
  BY SourceIs
<1>2. Entire \in Seq(Nat)
  BY Offsets
<1> DEFINE kept == SubSeq(Entire, 1, cut)
<1>3. kept \in Seq(Nat) /\ Len(kept) = cut /\ \A i \in 1 .. cut : kept[i] = Entire[i]
  BY <1>1, <1>2, Firsts
<1>4. <<TornLine>> \in Seq(Nat)
  BY DEF TornLine
<1> HIDE DEF kept
<1>5. log = kept \/ (source.format = "json" /\ log = kept \o <<TornLine>>)
  BY <1>1 DEF kept
<1>6. kept \o <<TornLine>> \in Seq(Nat)
  BY <1>3, <1>4, ConcatProperties
<1>7. log \in Seq(Nat) /\ Len(log) \in Nat
  BY <1>3, <1>5, <1>6, LenProperties
<1>8. ASSUME source.format # "json"
      PROVE  /\ Len(log) <= Len(Entire) /\ Ahead(log, 0, Entire)
             /\ \A n \in 0 .. Len(Entries) : n < Len(Entries) => Ahead(log, Off(n), Parts[n + 1])
  <2>1. log = kept
    BY <1>5, <1>8
  <2>2. Len(log) <= Len(Entire)
    BY <1>1, <1>2, <1>3, <2>1
  <2>3. Ahead(log, 0, Entire)
    BY <1>1, <1>2, <1>3, <2>1 DEF Ahead
  <2>4. Entire = FlattenSeq(Parts) /\ Parts \in Seq(Seq(Nat)) /\ Len(Parts) = Len(Entries)
    BY Offsets DEF Entire, Whole, Parts
  <2>5. \A n \in 0 .. Len(Entries) : n < Len(Entries) => Ahead(log, Off(n), Parts[n + 1])
    <3> TAKE n \in 0 .. Len(Entries)
    <3> SUFFICES ASSUME n < Len(Entries) PROVE Ahead(log, Off(n), Parts[n + 1])
      OBVIOUS
    <3>1. Ahead(log, 0 + Len(Upto(Parts, n)), Parts[n + 1])
      <4>1. Ahead(log, 0, FlattenSeq(Parts)) /\ 0 \in Nat /\ n \in 0 .. Len(Parts) /\ n < Len(Parts)
        BY <2>3, <2>4
      <4> QED  BY <1>7, <2>4, <4>1, AheadUpto
    <3>2. 0 + Len(Upto(Parts, n)) = Off(n)
      BY Offsets DEF Off
    <3> QED  BY <3>1, <3>2
  <2> QED  BY <2>2, <2>3, <2>5
<1> QED  BY <1>7, <1>8

LEMMA FirstPieces ==
  ASSUME Stored, NEW n \in 0 .. Len(Entries)
  PROVE  Pieces(source.format, SubSeq(Entries, 1, n), source.prefix) = SubSeq(Parts, 1, n)
<1> DEFINE es == SubSeq(Entries, 1, n)
<1>0. /\ Parts \in Seq(Seq(Nat)) /\ Len(Parts) = Len(Entries) /\ n \in 0 .. Len(Parts)
      /\ n \in Nat /\ Len(Entries) \in Nat
  BY Offsets, SourceIs
<1>1. Len(es) = n /\ \A k \in 1 .. n : es[k] = Entries[k]
  <2>1. PICK T : T = EventSet
    OBVIOUS
  <2>2. Entries \in Seq(T)
    BY <2>1, SourceIs
  <2> QED  BY <2>2, Firsts
<1>2. Pieces(source.format, es, source.prefix) = SubSeq(Parts, 1, n)
  <2> DEFINE One(e, k) ==
        IF source.format = "json" THEN <<JsonLine(e.pcr)>>
        ELSE IF source.format = "legacy" \/ (source.format = "agile" /\ k = 1) THEN Event1Cells(e)
        ELSE Event2Cells(e, source.prefix)
  <2>1. Pieces(source.format, es, source.prefix) = [k \in 1 .. n |-> One(es[k], k)]
    BY <1>1 DEF Pieces
  <2>2. Parts = [k \in 1 .. Len(Entries) |-> One(Entries[k], k)]
    BY DEF Parts, Pieces
  <2> HIDE DEF One
  <2>3. PICK T : T = Seq(Nat)
    OBVIOUS
  <2>4. Parts \in Seq(T)
    BY <1>0, <2>3
  <2>5. /\ SubSeq(Parts, 1, n) \in Seq(T) /\ Len(SubSeq(Parts, 1, n)) = n
        /\ \A k \in 1 .. n : SubSeq(Parts, 1, n)[k] = Parts[k]
    BY <1>0, <2>4, Firsts
  <2>6. \A k \in 1 .. n : Parts[k] \in T /\ Parts[k] = One(Entries[k], k)
    BY <1>0, <2>2, <2>4
  <2> DEFINE p == Pieces(source.format, es, source.prefix)
  <2>7. \A k \in 1 .. n : p[k] = Parts[k]
    BY <1>1, <2>1, <2>6
  <2>8. p \in [1 .. n -> T]
    <3>1. p = [k \in 1 .. n |-> p[k]]
      BY <2>1, Zenon
    <3> HIDE DEF p
    <3> QED  BY <2>6, <2>7, <3>1
  <2> HIDE DEF p
  <2>9. p \in Seq(T) /\ Len(p) = n
    BY <1>0, <2>8
  <2>10. p = SubSeq(Parts, 1, n)
    BY <2>5, <2>7, <2>9, SeqEqual
  <2> QED  BY <2>10 DEF p
<1> QED  BY <1>2

LEMMA EndsIs ==
  ASSUME Stored, NEW n \in 0 .. Len(Entries)
  PROVE  /\ EndsAfter(n) <=> log = Upto(Parts, n)
         /\ EndsAfter(n) => Len(log) = Off(n)
         /\ source.format # "json" /\ Len(log) = Off(n) => EndsAfter(n)
<1> DEFINE es == SubSeq(Entries, 1, n)
<1>0. /\ Parts \in Seq(Seq(Nat)) /\ Len(Parts) = Len(Entries) /\ n \in 0 .. Len(Parts)
      /\ n \in Nat /\ Len(Entries) \in Nat
  BY Offsets, SourceIs
<1>2. Pieces(source.format, es, source.prefix) = SubSeq(Parts, 1, n)
  BY FirstPieces
<1>3. EndsAfter(n) <=> log = Upto(Parts, n)
  BY <1>2 DEF EndsAfter, Whole, Upto, Entries
<1>4. Len(log) = Off(n) /\ source.format # "json" => log = Upto(Parts, n)
  <2> SUFFICES ASSUME Len(log) = Off(n), source.format # "json" PROVE log = Upto(Parts, n)
    OBVIOUS
  <2>1. Ahead(log, 0, FlattenSeq(Parts)) /\ log \in Seq(Nat)
    BY FileIs DEF Entire, Whole, Parts
  <2>2. Ahead(log, 0, Upto(Parts, n)) /\ Upto(Parts, n) \in Seq(Nat)
    BY <1>0, <2>1, AheadUpto, UptoGrows, 0 \in Nat
  <2>3. \A k \in 1 .. Len(log) : log[k] = Upto(Parts, n)[k]
    BY <2>1, <2>2 DEF Ahead, Off
  <2> QED  BY <2>1, <2>2, <2>3, SeqEqual DEF Off
<1> QED  BY <1>3, <1>4 DEF Off

\* A file that ends between two entries' beginnings ends after no entry.
LEMMA StuckIsMid ==
  ASSUME Stored, NEW n \in 0 .. Len(Entries), n < Len(Entries), Off(n) < Len(log), Len(log) < Off(n + 1)
  PROVE  Mid
<1>1. log # <<>>
  BY Offsets
<1>2. ASSUME NEW m \in 1 .. Len(Entries), EndsAfter(m) PROVE FALSE
  <2>1. Len(log) = Off(m) /\ m \in 0 .. Len(Entries) /\ Len(Entries) \in Nat
    BY <1>2, EndsIs, SourceIs
  <2>2. CASE m <= n
    <3>1. n \in m .. Len(Entries)
      BY <2>1, <2>2
    <3>2. Off(m) <= Off(n) /\ Off(m) \in Nat /\ Off(n) \in Nat
      BY <2>1, <3>1, Offsets
    <3> QED  BY <2>1, <3>2
  <2>3. CASE n < m
    <3>1. n + 1 \in 0 .. Len(Entries) /\ m \in n + 1 .. Len(Entries)
      BY <2>1, <2>3
    <3>2. Off(n + 1) <= Off(m) /\ Off(m) \in Nat /\ Off(n + 1) \in Nat
      BY <2>1, <3>1, Offsets
    <3> QED  BY <2>1, <3>2
  <2> QED  BY <2>1, <2>2, <2>3
<1> QED  BY <1>1, <1>2 DEF Mid

\* One that does not end after an entry goes on.
LEMMA MidGoesOn ==
  ASSUME Stored, Mid, source.format # "json", NEW n \in 0 .. Len(Entries), Off(n) <= Len(log)
  PROVE  Off(n) < Len(log) /\ n < Len(Entries)
<1>1. Len(log) \in Nat /\ Off(n) \in Nat /\ Len(log) <= Len(Entire) /\ Len(Entries) \in Nat
  BY FileIs, Offsets, SourceIs
<1>2. CASE n = 0
  <2>1. Len(log) # 0 /\ Off(0) = 0
    BY FileIs, Offsets DEF Mid
  <2>2. Off(0) < Len(log)
    BY <1>1, <2>1
  <2>3. Len(Entries) # 0
    BY <1>1, <2>2, Offsets
  <2> QED  BY <1>1, <1>2, <2>2, <2>3
<1>3. CASE n # 0
  <2>1. Len(log) # Off(n)
    BY <1>3, EndsIs DEF Mid
  <2>2. Off(n) < Len(log)
    BY <1>1, <2>1
  <2>3. n # Len(Entries)
    BY <1>1, <2>2, Offsets
  <2> QED  BY <1>1, <2>2, <2>3
<1> QED  BY <1>2, <1>3

-----------------------------------------------------------------------------
(***************************************************************************)
(* One entry or digest is read, or the file ends in it.                    *)
(***************************************************************************)
LEMMA FirstsNext ==
  ASSUME NEW T, NEW s \in Seq(T), NEW n \in 0 .. Len(s), n < Len(s)
  PROVE  /\ Append(SubSeq(s, 1, n), s[n + 1]) = SubSeq(s, 1, n + 1)
         /\ Len(SubSeq(s, 1, n + 1)) = n + 1 /\ n + 1 \in 0 .. Len(s)
<1>0. Len(s) \in Nat /\ n + 1 \in 0 .. Len(s) /\ n + 1 \in 1 .. Len(s)
  OBVIOUS
<1> DEFINE t == SubSeq(s, 1, n)
           u == SubSeq(s, 1, n + 1)
<1>1. t \in Seq(T) /\ Len(t) = n /\ \A i \in 1 .. n : t[i] = s[i]
  BY Firsts
<1>2. u \in Seq(T) /\ Len(u) = n + 1 /\ \A i \in 1 .. n + 1 : u[i] = s[i]
  BY <1>0, Firsts
<1>3. s[n + 1] \in T
  BY <1>0
<1> HIDE DEF t, u
<1> DEFINE v == Append(t, s[n + 1])
<1>4. v \in Seq(T) /\ Len(v) = n + 1 /\ \A i \in 1 .. n + 1 : v[i] = IF i <= n THEN t[i] ELSE s[n + 1]
  BY <1>1, <1>3
<1>5. \A i \in 1 .. n + 1 : v[i] = u[i]
  BY <1>1, <1>2, <1>4
<1> HIDE DEF v
<1>6. v = u
  BY <1>2, <1>4, <1>5, SeqEqual
<1> QED  BY <1>0, <1>2, <1>6 DEF t, u, v

\* A step leaves the file alone, and with it whatever is said of the file only.
LEMMA SameFile ==
  ASSUME UNCHANGED <<source, log>>
  PROVE  /\ (Stored <=> Stored') /\ (Mid <=> Mid') /\ (Clear <=> Clear')
         /\ Entries' = Entries /\ Len(Entries)' = Len(Entries) /\ Parts' = Parts
         /\ \A n : Off(n)' = Off(n) /\ (EndsAfter(n) <=> EndsAfter(n)')
<1>1. source' = source /\ log' = log
  OBVIOUS
<1>2. (Stored <=> Stored') /\ (Clear <=> Clear')
  BY <1>1 DEF Stored, Clear, ZerosMislead, Zeroed, FirstEntry, CutIn, Reach, Torn, EndsAfter
<1>3. Entries' = Entries /\ Parts' = Parts
  BY <1>1 DEF Entries, Parts
<1>4. \A n : Off(n)' = Off(n)
  BY <1>3 DEF Off
<1>5. \A n : EndsAfter(n) <=> EndsAfter(n)'
  BY <1>1 DEF EndsAfter
<1>6. Mid <=> Mid'
  BY <1>1, <1>3, <1>5 DEF Mid
<1> QED  BY <1>2, <1>3, <1>4, <1>5, <1>6

LEMMA LoggedOne ==
  ASSUME Stored, NEW n \in 0 .. Len(Entries), n < Len(Entries)
  PROVE  /\ n \in Nat /\ n + 1 \in 0 .. Len(Entries) /\ n + 1 \in 1 .. Len(Entries)
         /\ Entries[n + 1] \in EventSet
         /\ Append(SubSeq(Entries, 1, n), Entries[n + 1]) = SubSeq(Entries, 1, n + 1)
         /\ Len(SubSeq(Entries, 1, n + 1)) = n + 1 /\ Len(SubSeq(Entries, 1, n)) = n
<1>1. PICK T : T = EventSet
  OBVIOUS
<1>2. Entries \in Seq(T) /\ Len(Entries) \in Nat
  BY <1>1, SourceIs
<1>3. n \in Nat /\ n + 1 \in 0 .. Len(Entries) /\ n + 1 \in 1 .. Len(Entries)
  BY <1>2
<1>4. Entries[n + 1] \in T
  BY <1>2, <1>3
<1> QED  BY <1>1, <1>2, <1>3, <1>4, Firsts, FirstsNext

Sha1Event(e) ==
  /\ Len(e.digests) = 1 /\ Len(e.data) <= MAX_EVENT_DATA_SIZE
  /\ \E g \in Seq(Nat) : Len(g) = 4 /\ e = TcgEvent(e.pcr, e.type, <<Digest(Sha1, g)>>, e.data)

\* An entry of the SHA-1 format.
LEMMA Event1Reads ==
  ASSUME NEW e \in EventSet, Sha1Event(e), log \in Seq(Nat), at \in Nat,
         Ahead(log, at, Event1Cells(e)), Event1Entry
  PROVE  /\ UNCHANGED <<source, log>> /\ Len(Event1Cells(e)) = 7 + Len(e.data) /\ Len(e.data) \in Nat
         /\ \/ /\ Left >= 7 + Len(e.data)
               /\ parsed' = Append(parsed, e) /\ at' = at + (7 + Len(e.data))
               /\ sizes' = IF way = "spec" /\ parsed = <<>> /\ IsSpecId(e.data)
                           THEN WithSizes(e.data) ELSE sizes
               /\ UNCHANGED <<way, stage, entry>>
            \/ Left < 7 + Len(e.data) /\ Abandon
<1>1. PICK g \in Seq(Nat) : Len(g) = 4 /\ e = TcgEvent(e.pcr, e.type, <<Digest(Sha1, g)>>, e.data)
  BY DEF Sha1Event
<1>2. e.digests = <<Digest(Sha1, g)>>
  BY <1>1 DEF TcgEvent
<1>3. e.digests[1].digest = g /\ Len(e.digests) > 0
  BY <1>2 DEF Digest
<1>4. e.data \in Seq(Nat) /\ Len(e.data) \in Nat /\ Len(e.data) <= MAX_EVENT_DATA_SIZE
      /\ Len(log) \in Nat /\ e.pcr \in Nat /\ e.type \in Nat
  BY DEF EventSet, Sha1Event
<1>5. /\ Len(Event1Cells(e)) = 7 + Len(e.data)
      /\ Ahead(log, at, <<e.pcr, e.type>>) /\ Ahead(log, at + 2, g)
      /\ Ahead(log, at + 6, <<Len(e.data)>>) /\ Ahead(log, at + 7, e.data)
  <2>1. /\ Len(Event1Cells(e)) = 3 + Len(g) + Len(e.data)
        /\ Ahead(log, at, <<e.pcr, e.type>>) /\ Ahead(log, at + 2, g)
        /\ Ahead(log, at + 2 + Len(g), <<Len(e.data)>>) /\ Ahead(log, at + 3 + Len(g), e.data)
    BY <1>3, Event1Ahead
  <2>2. 3 + Len(g) + Len(e.data) = 7 + Len(e.data) /\ at + 2 + Len(g) = at + 6 /\ at + 3 + Len(g) = at + 7
    BY <1>1, <1>4
  <2> QED  BY <2>1, <2>2
<1>6. DigestLen[Sha1] = 4
  BY DEF DigestLen, Sha1, Sha256
<1> DEFINE fits == Left >= 7 /\ Cell(7) <= MAX_EVENT_DATA_SIZE /\ Left >= 7 + Cell(7)
           data == Cells(8, Cell(7))
<1>7. /\ UNCHANGED <<source, log>>
      /\ \/ /\ fits
            /\ parsed' = Append(parsed, TcgEvent(Cell(1), Cell(2), <<Digest(Sha1, Cells(3, 4))>>, data))
            /\ at' = at + 4 + 3 + Cell(7)
            /\ sizes' = IF way = "spec" /\ parsed = <<>> /\ IsSpecId(data)
                        THEN WithSizes(data) ELSE sizes
            /\ UNCHANGED <<way, stage, entry>>
         \/ ~fits /\ Abandon
  <2>1. 4 + 3 = 7 /\ 4 + 4 = 8
    OBVIOUS
  <2> HIDE DEF Abandon
  <2> QED  BY <1>6, <2>1 DEF Event1Entry
<1>8. Left = Len(log) - at
  BY DEF Left
<1>9. Left >= 7 => Cell(7) = Len(e.data)
  <2> SUFFICES ASSUME Left >= 7 PROVE log[at + 7] = Len(e.data)
    BY DEF Cell
  <2>1. at + 6 \in Nat /\ (at + 6) + 1 <= Len(log) /\ (at + 6) + 1 = at + 7
    BY <1>4, <1>8
  <2>2. log[(at + 6) + 1] = Len(e.data)
    BY <1>5, <2>1, AheadCell
  <2> QED  BY <2>1, <2>2
<1>10. ASSUME Left >= 7 + Len(e.data)
       PROVE  /\ Cell(1) = e.pcr /\ Cell(2) = e.type /\ Cells(3, 4) = g /\ Cells(8, Len(e.data)) = e.data
  <2>1. at + (7 + Len(e.data)) <= Len(log)
    BY <1>4, <1>8, <1>10
  <2>2. Cell(1) = e.pcr /\ Cell(2) = e.type
    <3>1. at + 1 <= Len(log) /\ at + 2 <= Len(log) /\ 1 \in 1 .. 2 /\ 2 \in 1 .. 2
      BY <1>4, <2>1
    <3>2. \A k \in 1 .. Len(<<e.pcr, e.type>>) : at + k <= Len(log) => log[at + k] = <<e.pcr, e.type>>[k]
      BY <1>5 DEF Ahead
    <3>3. log[at + 1] = e.pcr /\ log[at + 2] = e.type
      BY <3>1, <3>2
    <3> QED  BY <3>3 DEF Cell
  <2>3. Cells(3, 4) = g
    <3>1. at + 2 \in Nat /\ (at + 2) + Len(g) <= Len(log) /\ (at + 2) + 1 = at + 3
          /\ (at + 2) + Len(g) = at + 3 + 4 - 1
      BY <1>1, <1>4, <2>1
    <3>2. SubSeq(log, (at + 2) + 1, (at + 2) + Len(g)) = g
      BY <1>5, <3>1, AheadTaken
    <3> QED  BY <3>1, <3>2 DEF Cells
  <2>4. Cells(8, Len(e.data)) = e.data
    <3>1. at + 7 \in Nat /\ (at + 7) + Len(e.data) <= Len(log) /\ (at + 7) + 1 = at + 8
          /\ (at + 7) + Len(e.data) = at + 8 + Len(e.data) - 1
      <4>1. \A m \in Nat : at + (7 + m) <= Len(log) =>
              /\ at + 7 \in Nat /\ (at + 7) + m <= Len(log) /\ (at + 7) + 1 = at + 8
              /\ (at + 7) + m = at + 8 + m - 1
        BY <1>4
      <4> QED  BY <1>4, <2>1, <4>1, Zenon
    <3>2. SubSeq(log, (at + 7) + 1, (at + 7) + Len(e.data)) = e.data
      BY <1>4, <1>5, <3>1, AheadTaken
    <3> QED  BY <3>1, <3>2 DEF Cells
  <2> QED  BY <2>2, <2>3, <2>4
<1>11. Left \in Int
  BY <1>4, <1>8
<1>12. fits <=> Left >= 7 + Len(e.data)
  BY <1>4, <1>9, <1>11
<1>13. CASE Left >= 7 + Len(e.data)
  <2>1. Cell(7) = Len(e.data)
    BY <1>4, <1>9, <1>11, <1>13
  <2>2. data = e.data
    BY <1>10, <1>13, <2>1
  <2>3. TcgEvent(Cell(1), Cell(2), <<Digest(Sha1, Cells(3, 4))>>, data) = e
    BY <1>1, <1>10, <1>13, <2>2
  <2>4. at + 4 + 3 + Cell(7) = at + (7 + Len(e.data))
    <3>1. \A m \in Nat : at + 4 + 3 + m = at + (7 + m)
      OBVIOUS
    <3> QED  BY <1>4, <2>1, <3>1, Zenon
  <2> HIDE DEF fits, data, Abandon
  <2> QED  BY <1>4, <1>5, <1>7, <1>12, <1>13, <2>2, <2>3, <2>4
<1>14. CASE ~(Left >= 7 + Len(e.data))
  <2>1. Left < 7 + Len(e.data)
    BY <1>4, <1>11, <1>14
  <2> HIDE DEF fits, data, Abandon
  <2> QED  BY <1>4, <1>5, <1>7, <1>12, <1>14, <2>1
<1> QED  BY <1>13, <1>14

\* The next entry of the log, in the SHA-1 format.
LEMMA Event1Step ==
  ASSUME Stored, AtEntry, NEW n, n = Len(parsed), n < Len(Entries), source.format # "json",
         AsEvent1(n + 1), Sha1Event(Entries[n + 1]), at <= Len(log), Event1Entry
  PROVE  /\ UNCHANGED <<source, log>>
         /\ \/ /\ AtEntry' /\ parsed' = SubSeq(Entries, 1, n + 1) /\ at' \in 0 .. Len(log)
               /\ sizes' = IF way = "spec" /\ parsed = <<>> /\ IsSpecId(Entries[n + 1].data)
                           THEN WithSizes(Entries[n + 1].data) ELSE sizes
               /\ UNCHANGED <<way, stage, entry>>
            \/ Mid /\ Abandon
<1> DEFINE e == Entries[n + 1]
<1>1. n \in 0 .. Len(Entries) /\ parsed = SubSeq(Entries, 1, n) /\ at = Off(n) /\ entry = NoEntry
  BY DEF AtEntry, Begun
<1>2. /\ n \in Nat /\ n + 1 \in 0 .. Len(Entries) /\ n + 1 \in 1 .. Len(Entries) /\ e \in EventSet
      /\ Append(SubSeq(Entries, 1, n), e) = SubSeq(Entries, 1, n + 1)
      /\ Len(SubSeq(Entries, 1, n + 1)) = n + 1
  BY <1>1, LoggedOne
<1>3. Parts[n + 1] = Event1Cells(e)
  BY <1>2, PartsAre
<1>4. Off(n) \in Nat /\ Off(n + 1) \in Nat /\ Off(n + 1) = Off(n) + Len(Event1Cells(e))
  BY <1>1, <1>2, <1>3, Offsets
<1>5. log \in Seq(Nat) /\ Len(log) \in Nat /\ Ahead(log, Off(n), Event1Cells(e))
  BY <1>1, <1>3, FileIs
<1>6. /\ UNCHANGED <<source, log>> /\ Len(Event1Cells(e)) = 7 + Len(e.data) /\ Len(e.data) \in Nat
      /\ \/ /\ Left >= 7 + Len(e.data)
            /\ parsed' = Append(parsed, e) /\ at' = at + (7 + Len(e.data))
            /\ sizes' = IF way = "spec" /\ parsed = <<>> /\ IsSpecId(e.data)
                        THEN WithSizes(e.data) ELSE sizes
            /\ UNCHANGED <<way, stage, entry>>
         \/ Left < 7 + Len(e.data) /\ Abandon
  <2> HIDE DEF e
  <2>1. at \in Nat /\ Sha1Event(e) /\ Ahead(log, at, Event1Cells(e))
    BY <1>1, <1>4, <1>5 DEF e
  <2> QED  BY <1>2, <1>5, <2>1, Event1Reads
<1> HIDE DEF e
<1>7. Off(n + 1) = Off(n) + (7 + Len(e.data)) /\ Left = Len(log) - Off(n)
  BY <1>1, <1>4, <1>6 DEF Left
<1>8. CASE /\ Left >= 7 + Len(e.data)
           /\ parsed' = Append(parsed, e) /\ at' = at + (7 + Len(e.data))
           /\ sizes' = IF way = "spec" /\ parsed = <<>> /\ IsSpecId(e.data)
                       THEN WithSizes(e.data) ELSE sizes
           /\ UNCHANGED <<way, stage, entry>>
  <2>1. parsed' = SubSeq(Entries, 1, n + 1) /\ Len(parsed') = n + 1 /\ Len(parsed)' = n + 1
    BY <1>1, <1>2, <1>8
  <2>2. at' = Off(n + 1) /\ at' \in 0 .. Len(log)
    BY <1>1, <1>4, <1>5, <1>6, <1>7, <1>8
  <2>3. Entries' = Entries /\ Parts' = Parts
    BY <1>6, SameFile
  <2>4. AtEntry'
    <3>1. Begun'
      BY <1>2, <2>1, <2>3 DEF Begun
    <3>2. at' = Off(Len(parsed))'
      BY <2>1, <2>2, <2>3 DEF Off
    <3> QED  BY <1>1, <1>8, <3>1, <3>2 DEF AtEntry
  <2> HIDE DEF AtEntry
  <2>5. sizes' = IF way = "spec" /\ parsed = <<>> /\ IsSpecId(Entries[n + 1].data)
                 THEN WithSizes(Entries[n + 1].data) ELSE sizes
    BY <1>8 DEF e
  <2> QED  BY <1>6, <1>8, <2>1, <2>2, <2>4, <2>5
<1>9. CASE Left < 7 + Len(e.data) /\ Abandon
  <2>1. Len(log) < Off(n + 1)
    BY <1>4, <1>5, <1>6, <1>7, <1>9
  <2>2. Left > 0
    BY DEF Event1Entry
  <2>3. Off(n) < Len(log)
    BY <1>4, <1>5, <1>7, <2>2
  <2>4. Mid
    BY <1>1, <2>1, <2>3, StuckIsMid
  <2> QED  BY <1>6, <1>9, <2>4
<1> QED  BY <1>6, <1>8, <1>9

-----------------------------------------------------------------------------
(***************************************************************************)
(* An entry of the crypto-agile format: its head, its digests, its tail.   *)
(***************************************************************************)
LEMMA SameEntry ==
  ASSUME UNCHANGED <<source, log>>, UNCHANGED parsed
  PROVE  /\ NextOne' = NextOne /\ Start' = Start /\ (Stuck <=> Stuck') /\ (Begun <=> Begun')
         /\ Len(parsed)' = Len(parsed)
<1>1. source' = source /\ log' = log /\ parsed' = parsed
  OBVIOUS
<1>2. Entries' = Entries /\ Parts' = Parts
  BY SameFile
<1> QED  BY <1>1, <1>2 DEF NextOne, Start, Stuck, Begun, Off

\* The entry the next parts belong to.
LEMMA NextIs ==
  ASSUME Stored, Begun, Len(parsed) < Len(Entries), source.format # "json", ~AsEvent1(Len(parsed) + 1),
         NEW n, n = Len(parsed)
  PROVE  LET e == NextOne
             c == Len(DigestsCells(e, source.prefix))
         IN /\ n \in 0 .. Len(Entries) /\ parsed = SubSeq(Entries, 1, n) /\ e \in EventSet
            /\ source.prefix \in BOOLEAN /\ c \in Nat /\ Len(e.data) \in Nat /\ Len(e.digests) \in Nat
            /\ Off(n) \in Nat /\ Off(n + 1) \in Nat /\ Off(n + 1) = Off(n) + 4 + c + Len(e.data)
            /\ Start = Off(n) + 3
            /\ Ahead(log, Off(n), <<e.pcr, e.type, Len(e.digests)>>)
            /\ Ahead(log, Start, DigestsCells(e, source.prefix))
            /\ Ahead(log, Start + c, <<Len(e.data)>>)
            /\ Ahead(log, Start + c + 1, e.data)
            /\ log \in Seq(Nat) /\ Len(log) \in Nat
<1> DEFINE e == NextOne
           c == Len(DigestsCells(e, source.prefix))
<1>1. n \in 0 .. Len(Entries) /\ parsed = SubSeq(Entries, 1, n) /\ n < Len(Entries)
  BY DEF Begun
<1>2. n \in Nat /\ n + 1 \in 0 .. Len(Entries) /\ n + 1 \in 1 .. Len(Entries) /\ e \in EventSet
  BY <1>1, LoggedOne DEF NextOne
<1>3. Parts[n + 1] = Event2Cells(e, source.prefix) /\ source.prefix \in BOOLEAN
  BY <1>2, PartsAre, SourceIs DEF NextOne
<1>4. Off(n) \in Nat /\ Off(n + 1) \in Nat /\ Off(n + 1) = Off(n) + Len(Event2Cells(e, source.prefix))
  BY <1>1, <1>2, <1>3, Offsets
<1>5. log \in Seq(Nat) /\ Len(log) \in Nat /\ Ahead(log, Off(n), Event2Cells(e, source.prefix))
  BY <1>1, <1>3, FileIs
<1> HIDE DEF e
<1>6. c \in Nat /\ Len(e.digests) \in Nat /\ Len(e.data) \in Nat
  BY <1>2, <1>3, DigestPartsAre DEF EventSet
<1>7. /\ Len(Event2Cells(e, source.prefix)) = 4 + c + Len(e.data)
      /\ Ahead(log, Off(n), <<e.pcr, e.type, Len(e.digests)>>)
      /\ Ahead(log, Off(n) + 3, DigestsCells(e, source.prefix))
      /\ Ahead(log, Off(n) + 3 + c, <<Len(e.data)>>)
      /\ Ahead(log, Off(n) + 4 + c, e.data)
  BY <1>2, <1>3, <1>4, <1>5, Event2Ahead
<1>8. Start = Off(n) + 3
  BY DEF Start
<1> HIDE DEF c
<1>9. Off(n) + 4 + c = Start + c + 1 /\ Off(n) + 3 + c = Start + c
  BY <1>4, <1>6, <1>8
<1>10. Off(n + 1) = Off(n) + 4 + c + Len(e.data)
  <2>1. Len(Event2Cells(e, source.prefix)) = 4 + c + Len(e.data)
    BY <1>7 DEF c
  <2>2. \A x, y, z \in Nat : x + (4 + y + z) = x + 4 + y + z
    OBVIOUS
  <2>3. Off(n) + (4 + c + Len(e.data)) = Off(n) + 4 + c + Len(e.data)
    BY <1>4, <1>6, <2>2, ZenonT(60)
  <2> QED  BY <1>4, <2>1, <2>3
<1> QED  BY <1>1, <1>2, <1>3, <1>4, <1>5, <1>6, <1>7, <1>8, <1>9, <1>10 DEF e, c

LEMMA Event2HeadStep ==
  ASSUME Stored, AtEntry, Len(parsed) < Len(Entries), source.format # "json",
         ~AsEvent1(Len(parsed) + 1), Len(NextOne.digests) <= MAX_DIGEST_COUNT, Event2Head
  PROVE  /\ UNCHANGED <<source, log>>
         /\ \/ /\ InDigests' /\ at' \in 0 .. Len(log) /\ stage' = "digests"
               /\ UNCHANGED <<way, sizes, parsed>>
            \/ Mid /\ Abandon
<1> DEFINE e == NextOne
           n == Len(parsed)
           c == Len(DigestsCells(e, source.prefix))
<1>1. Begun /\ at = Off(n) /\ entry = NoEntry
  BY DEF AtEntry
<1>2. /\ n \in 0 .. Len(Entries) /\ parsed = SubSeq(Entries, 1, n) /\ e \in EventSet
      /\ c \in Nat /\ Len(e.data) \in Nat /\ Len(e.digests) \in Nat
      /\ Off(n) \in Nat /\ Off(n + 1) \in Nat /\ Off(n + 1) = Off(n) + 4 + c + Len(e.data)
      /\ Start = Off(n) + 3
      /\ Ahead(log, Off(n), <<e.pcr, e.type, Len(e.digests)>>)
      /\ log \in Seq(Nat) /\ Len(log) \in Nat
  BY <1>1, NextIs
<1>2a. /\ Off(n) \in Nat /\ Off(n + 1) \in Nat /\ Len(log) \in Nat
      /\ Off(n + 1) >= Off(n) + 4 /\ Start = Off(n) + 3
  <2>1. \A x, y, z \in Nat : x + 4 + y + z >= x + 4
    OBVIOUS
  <2>2. Off(n) + 4 + c + Len(e.data) >= Off(n) + 4
    BY <1>2, <2>1, Zenon
  <2> QED  BY <1>2, <2>2
<1>3. UNCHANGED <<source, log>> /\ Left > 0
  BY DEF Event2Head
<1>4. Left = Len(log) - Off(n)
  BY <1>1 DEF Left
<1>5. Left >= 3 => Cell(1) = e.pcr /\ Cell(2) = e.type /\ Cell(3) = Len(e.digests)
  <2> DEFINE h == <<e.pcr, e.type, Len(e.digests)>>
  <2>1. Len(h) = 3 /\ h[1] = e.pcr /\ h[2] = e.type /\ h[3] = Len(e.digests)
    OBVIOUS
  <2> HIDE DEF h, e
  <2> SUFFICES ASSUME Left >= 3 PROVE Cell(1) = h[1] /\ Cell(2) = h[2] /\ Cell(3) = h[3]
    BY <2>1
  <2>2. at + 1 <= Len(log) /\ at + 2 <= Len(log) /\ at + 3 <= Len(log)
    BY <1>1, <1>2a, <1>4
  <2>3. Ahead(log, at, h)
    BY <1>1, <1>2 DEF h
  <2>4. 1 \in 1 .. 3 /\ 2 \in 1 .. 3 /\ 3 \in 1 .. 3
    OBVIOUS
  <2> QED  BY <2>1, <2>2, <2>3, <2>4 DEF Ahead, Cell
<1>6. CASE Left >= 3
  <2>1. Cell(3) <= MAX_DIGEST_COUNT
    BY <1>5, <1>6
  <2>2. /\ entry' = [NoEntry EXCEPT !.pcr = e.pcr, !.type = e.type, !.count = Len(e.digests),
                                   !.start = at + 3]
        /\ at' = at + 3 /\ stage' = "digests" /\ UNCHANGED <<way, sizes, parsed>>
    <3> HIDE DEF e
    <3> QED  BY <1>5, <1>6, <2>1 DEF Event2Head
  <2>3. /\ entry'.pcr = e.pcr /\ entry'.type = e.type /\ entry'.count = Len(e.digests)
        /\ entry'.start = Start /\ entry'.auto = TRUE /\ entry'.digests = <<>>
    BY <1>1, <1>2, <2>2 DEF NoEntry
  <2>4. at' = Start /\ at' \in 0 .. Len(log)
    <3> HIDE DEF e
    <3>1. at' = at + 3
      BY <2>2
    <3> QED  BY <1>1, <1>2a, <1>4, <1>6, <3>1
  <2>5. /\ NextOne' = e /\ Start' = Start /\ (Stuck <=> Stuck') /\ (Begun <=> Begun')
        /\ Len(parsed)' = Len(parsed) /\ Entries' = Entries /\ source' = source
    BY <1>3, <2>2, SameEntry, SameFile
  <2>6. Following'
    <3>1. SubSeq(e.digests, 1, 0) = <<>> /\ Upto(DigestParts(e, source.prefix), 0) = <<>>
      BY SubSeqEmpty, UptoNone
    <3>2. Len(<<>>) = 0 /\ Start + 0 = Start /\ 0 <= Len(e.digests)
      BY <1>2
    <3> HIDE DEF e
    <3> QED  BY <2>3, <2>4, <2>5, <3>1, <3>2 DEF Following
  <2>7. Len(parsed)' < Len(Entries)'
    BY <2>5
  <2>8. InDigests'
    <3> HIDE DEF e
    <3> QED  BY <1>1, <2>3, <2>5, <2>6, <2>7 DEF InDigests
  <2> QED  BY <1>3, <2>2, <2>4, <2>8
<1>7. CASE ~(Left >= 3)
  <2>1. Abandon
    BY <1>7 DEF Event2Head
  <2>2. Len(log) < Off(n + 1) /\ Off(n) < Len(log)
    BY <1>2a, <1>3, <1>4, <1>7
  <2>3. Mid
    BY <1>2, <2>2, StuckIsMid
  <2> QED  BY <1>3, <2>1, <2>3
<1> QED  BY <1>6, <1>7

LEMMA StuckInEntry ==
  ASSUME Stored, Begun, Len(parsed) < Len(Entries), Stuck
  PROVE  Mid
BY StuckIsMid DEF Begun, Stuck

\* Where the next digest is, and how long.
LEMMA DigestNext ==
  ASSUME Stored, Begun, Len(parsed) < Len(Entries), source.format # "json", ~AsEvent1(Len(parsed) + 1),
         NEW j \in 0 .. Len(NextOne.digests), j < Len(NextOne.digests)
  PROVE  LET x == NextOne.digests[j + 1]
             w == Skip(source.prefix) + Len(x.digest)
             a == Start + Len(Upto(DigestParts(NextOne, source.prefix), j))
         IN /\ a \in Nat /\ w \in Nat /\ Off(Len(parsed)) < a
            /\ a + w = Start + Len(Upto(DigestParts(NextOne, source.prefix), j + 1))
            /\ a + w < Off(Len(parsed) + 1) /\ x.alg \in Nat /\ x.digest \in Seq(Nat)
            /\ DigestAt(log, a, x, source.prefix)
<1> DEFINE e == NextOne
           n == Len(parsed)
           ps == DigestParts(e, source.prefix)
           c == Len(DigestsCells(e, source.prefix))
           x == e.digests[j + 1]
           w == Skip(source.prefix) + Len(x.digest)
           a == Start + Len(Upto(ps, j))
<1>1. /\ e \in EventSet /\ source.prefix \in BOOLEAN
      /\ c \in Nat /\ Len(e.data) \in Nat /\ Len(e.digests) \in Nat
      /\ Off(n) \in Nat /\ Off(n + 1) \in Nat /\ Off(n + 1) = Off(n) + 4 + c + Len(e.data)
      /\ Start = Off(n) + 3 /\ Ahead(log, Start, DigestsCells(e, source.prefix)) /\ log \in Seq(Nat)
  BY NextIs
<1>2. Start \in Nat /\ Off(n) < Start /\ Start + c < Off(n + 1)
  <2>1. \A o, y, z \in Nat : o + 3 \in Nat /\ o < o + 3 /\ o + 3 + y < o + 4 + y + z
    OBVIOUS
  <2>2. Off(n) + 3 \in Nat /\ Off(n) < Off(n) + 3 /\ Off(n) + 3 + c < Off(n) + 4 + c + Len(e.data)
    BY <1>1, <2>1, Zenon
  <2> QED  BY <1>1, <2>2, Zenon
<1>3. /\ ps \in Seq(Seq(Nat)) /\ Len(ps) = Len(e.digests) /\ FlattenSeq(ps) = DigestsCells(e, source.prefix)
  BY <1>1, DigestPartsAre DEF DigestsCells
<1> DEFINE p == ps[j + 1]
<1>4. /\ x.alg \in Nat /\ x.digest \in Seq(Nat) /\ p \in Seq(Nat) /\ Len(p) = w
      /\ \A l \in Seq(Nat), b \in Nat : Ahead(l, b, p) => DigestAt(l, b, x, source.prefix)
  <2>1. j + 1 \in 1 .. Len(e.digests)
    <3>1. \A m \in Nat : \A i \in 0 .. m : i < m => i + 1 \in 1 .. m
      OBVIOUS
    <3> QED  BY <1>1, <3>1, Zenon
  <2> HIDE DEF e
  <2>2. x = e.digests[j + 1] /\ p = DigestParts(e, source.prefix)[j + 1]
         /\ w = Skip(source.prefix) + Len(x.digest)
    OBVIOUS
  <2> HIDE DEF p, x, w
  <2>3. /\ x.alg \in Nat /\ x.digest \in Seq(Nat)
        /\ p \in Seq(Nat) /\ Len(p) = Skip(source.prefix) + Len(x.digest)
        /\ \A l \in Seq(Nat), b \in Nat : Ahead(l, b, p) => DigestAt(l, b, x, source.prefix)
    <3>1. e \in EventSet /\ source.prefix \in BOOLEAN
      BY <1>1
    <3> QED  BY <3>1, <2>1, <2>2, DigestAhead, SMTT(30)
  <2> QED  BY <2>2, <2>3
<1>5. w \in Nat
  BY <1>4, LenProperties
<1> HIDE DEF e, x, w, ps
<1>6. j \in 0 .. Len(ps) /\ j < Len(ps) /\ j \in Nat /\ j + 1 \in 0 .. Len(ps)
  BY <1>1, <1>3 DEF e
<1>7. /\ Len(Upto(ps, j)) \in Nat /\ Len(Upto(ps, j + 1)) = Len(Upto(ps, j)) + Len(p)
      /\ Len(Upto(ps, j + 1)) \in 0 .. Len(FlattenSeq(ps))
  BY <1>3, <1>6, UptoSteps, FlattenHolds
<1>8. a = Start + Len(Upto(ps, j)) /\ Ahead(log, a, p)
  <2>1. Ahead(log, Start, FlattenSeq(ps))
    BY <1>1, <1>3
  <2> QED  BY <1>1, <1>2, <1>3, <1>6, <2>1, AheadUpto DEF ps, e
<1> HIDE DEF c, p, a
<1>8a. Off(n) \in Nat /\ Off(n + 1) \in Nat /\ Len(Upto(ps, j)) \in Nat /\ Start \in Nat /\ c \in Nat
  BY <1>1, <1>2, <1>7 DEF c
<1>9. a \in Nat /\ Off(n) < a
  <2>1. a = Start + Len(Upto(ps, j)) /\ Off(n) < Start
    BY <1>2 DEF a
  <2> QED  BY <1>8a, <2>1
<1>10. a + w = Start + Len(Upto(ps, j + 1)) /\ Start + Len(Upto(ps, j + 1)) <= Start + c
  <2>1. Len(Upto(ps, j + 1)) = Len(Upto(ps, j)) + w
    BY <1>4, <1>7
  <2>2. Len(Upto(ps, j + 1)) \in 0 .. c
    BY <1>3, <1>7 DEF c
  <2>3. a = Start + Len(Upto(ps, j))
    BY DEF a
  <2>4. PICK k, u, v, z : k = Start /\ u = Len(Upto(ps, j)) /\ v = Len(Upto(ps, j + 1)) /\ z = c
    OBVIOUS
  <2>5. k \in Nat /\ u \in Nat /\ z \in Nat /\ w \in Nat
    BY <1>5, <1>8a, <2>4
  <2>6. v = u + w /\ v \in 0 .. z /\ a = k + u
    BY <2>1, <2>2, <2>3, <2>4
  <2>7. a + w = k + v /\ k + v <= k + z
    BY <2>5, <2>6
  <2> QED  BY <2>4, <2>7
<1>11. a + w < Off(n + 1)
  <2>1. a + w <= Start + c /\ Start + c < Off(n + 1)
    BY <1>2, <1>10
  <2> QED  BY <1>5, <1>8a, <1>9, <2>1
<1>12. DigestAt(log, a, x, source.prefix)
  <2>1. log \in Seq(Nat)
    BY <1>1
  <2> QED  BY <1>4, <1>8, <1>9, <2>1
<1>13. /\ a \in Nat /\ w \in Nat /\ Off(n) < a
       /\ a + w = Start + Len(Upto(ps, j + 1))
       /\ a + w < Off(n + 1) /\ x.alg \in Nat /\ x.digest \in Seq(Nat)
       /\ DigestAt(log, a, x, source.prefix)
  BY <1>4, <1>5, <1>9, <1>10, <1>11, <1>12
<1> QED  BY <1>13, Zenon DEF ps, e, x, w, a

\* A size of the right number of cells, or a length prefix in its place.
Sized(e) ==
  \A j \in 1 .. Len(e.digests) :
    LET x == e.digests[j]
        n == LenForAlg(x.alg)
    IN \/ n = 0 /\ source.prefix /\ (x.digest = <<>> => e.type = SPEC_ID_EVENT_TYPE)
       \/ n = Len(x.digest) /\ n \in {4, 5} /\ (source.prefix \/ x.digest[1] \in {0, Random})

Taken(skip, n) ==
  /\ n <= Left - skip /\ (n > 0 \/ entry.type = SPEC_ID_EVENT_TYPE)
  /\ entry' = [entry EXCEPT !.digests = Append(@, Digest(Cell(1), Cells(skip + 1, n)))]
  /\ at' = at + skip + n
  /\ UNCHANGED <<way, stage, sizes, parsed>>

LEMMA TakeDigestIs ==
  ASSUME NEW skip, NEW n, TakeDigest(skip, n)
  PROVE  \/ Taken(skip, n)
         \/ ~(n <= Left - skip /\ (n > 0 \/ entry.type = SPEC_ID_EVENT_TYPE)) /\ Abandon
<1> HIDE DEF Abandon
<1> QED  BY DEF TakeDigest, Taken

\* The next digest is the one that was logged.
LEMMA TakenFollows ==
  ASSUME Stored, InDigests, source.format # "json", ~AsEvent1(Len(parsed) + 1), Following,
         Len(entry.digests) < entry.count, UNCHANGED <<source, log>>,
         NEW x, x = NextOne.digests[Len(entry.digests) + 1],
         Left >= Skip(source.prefix) + Len(x.digest),
         Taken(Skip(source.prefix), Len(x.digest))
  PROVE  InDigests' /\ at' \in 0 .. Len(log) /\ UNCHANGED <<way, stage, sizes, parsed>>
<1> DEFINE j == Len(entry.digests)
           e == NextOne
           g == x.digest
           s == Skip(source.prefix)
<1>1. /\ Begun /\ Len(parsed) < Len(Entries) /\ entry.count = Len(e.digests)
      /\ entry.digests = SubSeq(e.digests, 1, j) /\ j \in 0 .. Len(e.digests) /\ j < Len(e.digests)
      /\ at = Start + Len(Upto(DigestParts(e, source.prefix), j))
      /\ entry.pcr = e.pcr /\ entry.type = e.type /\ entry.start = Start /\ entry.auto \in BOOLEAN
      /\ (source.prefix \/ entry.auto) /\ (~entry.auto => Stuck)
  BY DEF InDigests, Following
<1>2. e \in EventSet /\ source.prefix \in BOOLEAN /\ log \in Seq(Nat) /\ Len(log) \in Nat
  BY <1>1, NextIs
<1>3. PICK T : T = DigestSet
  OBVIOUS
<1>4. e.digests \in Seq(T) /\ Len(e.digests) \in Nat
  BY <1>2, <1>3 DEF EventSet
<1>5. j + 1 \in 1 .. Len(e.digests) /\ j + 1 \in 0 .. Len(e.digests)
  BY <1>1, <1>4
<1>6. x \in T /\ x = Digest(x.alg, g)
  <2>1. x \in T
    BY <1>4, <1>5
  <2>2. x = [alg |-> x.alg, digest |-> x.digest]
    BY <1>3, <2>1 DEF DigestSet
  <2> QED  BY <2>1, <2>2 DEF Digest
<1>7. /\ at \in Nat /\ s + Len(g) \in Nat /\ x.alg \in Nat /\ g \in Seq(Nat)
      /\ at + (s + Len(g)) = Start + Len(Upto(DigestParts(e, source.prefix), j + 1))
      /\ Ahead(log, at, <<x.alg>>) /\ Ahead(log, at + s, g)
  <2>1. /\ at \in Nat /\ s + Len(g) \in Nat /\ x.alg \in Nat /\ g \in Seq(Nat)
        /\ at + (s + Len(g)) = Start + Len(Upto(DigestParts(e, source.prefix), j + 1))
        /\ DigestAt(log, at, x, source.prefix)
    <3>1. /\ Begun /\ Len(parsed) < Len(Entries) /\ j \in 0 .. Len(NextOne.digests)
          /\ j < Len(NextOne.digests) /\ x = NextOne.digests[j + 1]
          /\ at = Start + Len(Upto(DigestParts(NextOne, source.prefix), j))
      BY <1>1
    <3> HIDE DEF j
    <3> QED  BY <3>1, DigestNext
  <2> QED  BY <2>1 DEF DigestAt
<1>8. s \in {1, 2} /\ Len(g) \in Nat /\ Left = Len(log) - at
  BY <1>7 DEF Skip, Left
<1>9. at + (s + Len(g)) <= Len(log)
  <2> HIDE DEF s, g
  <2>1. Left >= s + Len(g)
    BY DEF s, g
  <2> QED  BY <1>2, <1>7, <1>8, <2>1
<1> HIDE DEF e, g, s
<1>10. Cell(1) = x.alg
  <2>1. at + 1 <= Len(log)
    BY <1>2, <1>7, <1>8, <1>9
  <2> QED  BY <1>2, <1>7, <2>1, AheadCell DEF Cell
<1>11. Cells(s + 1, Len(g)) = g
  <2>1. /\ at + s \in Nat /\ (at + s) + Len(g) <= Len(log) /\ (at + s) + 1 = at + (s + 1)
        /\ (at + s) + Len(g) = at + (s + 1) + Len(g) - 1
    BY <1>2, <1>7, <1>8, <1>9
  <2>2. SubSeq(log, (at + s) + 1, (at + s) + Len(g)) = g
    BY <1>2, <1>7, <2>1, AheadTaken
  <2> QED  BY <2>1, <2>2 DEF Cells
<1>12. /\ entry' = [entry EXCEPT !.digests = Append(entry.digests, x)]
       /\ at' = at + s + Len(g) /\ UNCHANGED <<way, stage, sizes, parsed>>
  <2>1. /\ entry' = [entry EXCEPT !.digests = Append(@, Digest(Cell(1), Cells(s + 1, Len(g))))]
        /\ at' = at + s + Len(g) /\ UNCHANGED <<way, stage, sizes, parsed>>
    BY DEF Taken, s, g
  <2> QED  BY <1>6, <1>10, <1>11, <2>1
<1>13. Append(entry.digests, x) = SubSeq(e.digests, 1, j + 1) /\ Len(SubSeq(e.digests, 1, j + 1)) = j + 1
  BY <1>1, <1>4, FirstsNext DEF e
<1>14. at' = at + (s + Len(g)) /\ at' \in 0 .. Len(log)
  <2>1. PICK a, b, c, l \in Nat : a = at /\ b = s /\ c = Len(g) /\ l = Len(log)
    BY <1>2, <1>7, <1>8
  <2>2. a + b + c = a + (b + c) /\ (a + (b + c) <= l => a + (b + c) \in 0 .. l)
    OBVIOUS
  <2>3. at' = a + b + c /\ a + (b + c) <= l
    BY <1>9, <1>12, <2>1, Zenon
  <2> QED  BY <2>1, <2>2, <2>3, Zenon
<1>15. /\ NextOne' = e /\ Start' = Start /\ (Stuck <=> Stuck') /\ (Begun <=> Begun')
       /\ Len(parsed)' = Len(parsed) /\ Entries' = Entries /\ source' = source
  BY <1>12, SameEntry, SameFile DEF e
<1>16. /\ entry'.digests = SubSeq(e.digests, 1, j + 1) /\ Len(entry'.digests) = j + 1
       /\ entry'.pcr = e.pcr /\ entry'.type = e.type /\ entry'.start = Start
       /\ entry'.auto = entry.auto /\ entry'.count = Len(e.digests)
  <2>0. entry.pcr = e.pcr /\ entry.type = e.type /\ entry.start = Start /\ entry.count = Len(e.digests)
    BY <1>1
  <2>1. /\ entry'.pcr = entry.pcr /\ entry'.type = entry.type /\ entry'.start = entry.start
        /\ entry'.auto = entry.auto /\ entry'.count = entry.count
        /\ entry'.digests = Append(entry.digests, x)
    BY <1>12
  <2> QED  BY <1>13, <2>0, <2>1
<1>17. Following'
  BY <1>1, <1>5, <1>7, <1>14, <1>15, <1>16 DEF Following
<1>18. Len(parsed)' < Len(Entries)'
  BY <1>1, <1>15
<1>19. InDigests'
  BY <1>1, <1>15, <1>16, <1>17, <1>18 DEF InDigests
<1> QED  BY <1>12, <1>14, <1>19

\* In a file that ends within it, a digest may be taken for a shorter one.
LEMMA TakenExhausts ==
  ASSUME Stored, InDigests, Stuck, UNCHANGED <<source, log>>, NEW skip, NEW k, Taken(skip, k),
         at + skip + k = Len(log), Len(log) \in Nat
  PROVE  InDigests' /\ at' \in 0 .. Len(log) /\ UNCHANGED <<way, stage, sizes, parsed>>
<1>1. /\ entry' = [entry EXCEPT !.digests = Append(@, Digest(Cell(1), Cells(skip + 1, k)))]
      /\ at' = at + skip + k /\ UNCHANGED <<way, stage, sizes, parsed>>
  BY DEF Taken
<1>2. /\ NextOne' = NextOne /\ Start' = Start /\ (Stuck <=> Stuck') /\ (Begun <=> Begun')
      /\ Len(parsed)' = Len(parsed) /\ Entries' = Entries /\ source' = source /\ log' = log
  BY <1>1, SameEntry, SameFile
<1>3. /\ entry'.pcr = entry.pcr /\ entry'.type = entry.type /\ entry'.start = entry.start
      /\ entry'.auto = entry.auto /\ entry'.count = entry.count
  BY <1>1
<1>4. Exhausted' /\ at' \in 0 .. Len(log)
  <2>1. at' = Len(log)
    BY <1>1
  <2> QED  BY <1>2, <2>1 DEF Exhausted
<1>5. InDigests'
  BY <1>2, <1>3, <1>4 DEF InDigests
<1> QED  BY <1>1, <1>4, <1>5

LEMMA ReadDigestStep ==
  ASSUME Stored, InDigests, source.format # "json", ~AsEvent1(Len(parsed) + 1), Sized(NextOne),
         Stuck /\ ~source.prefix => ~Zeroed(Len(parsed) + 1),
         at \in 0 .. Len(log), ReadDigest
  PROVE  /\ UNCHANGED <<source, log>>
         /\ \/ InDigests' /\ at' \in 0 .. Len(log) /\ UNCHANGED <<way, stage, sizes, parsed>>
            \/ Mid /\ Abandon
<1> DEFINE Took == InDigests' /\ at' \in 0 .. Len(log) /\ UNCHANGED <<way, stage, sizes, parsed>>
           Failed == Mid /\ Abandon
           j == Len(entry.digests)
           n == Len(parsed)
<1>1. Begun /\ n < Len(Entries) /\ entry.count = Len(NextOne.digests) /\ entry.type = NextOne.type
      /\ entry.auto \in BOOLEAN
  BY DEF InDigests
<1>2. /\ NextOne \in EventSet /\ source.prefix \in BOOLEAN /\ log \in Seq(Nat) /\ Len(log) \in Nat
      /\ Off(n) \in Nat /\ Off(n + 1) \in Nat /\ Len(NextOne.digests) \in Nat
  BY <1>1, NextIs
<1>3. Len(log) < Random - 1 /\ Random = 999
  <2>1. Len(log) <= Len(Entire) /\ Len(Entire) < Random - 1 /\ Entire \in Seq(Nat)
    BY FileIs, SourceIs, Offsets
  <2>2. Len(Entire) \in Nat /\ Random = 999
    BY <2>1, LenProperties DEF Random
  <2> QED  BY <1>2, <2>1, <2>2
<1>4. Stuck /\ Abandon => Failed
  BY <1>1, StuckInEntry
<1>5. Left = Len(log) - at /\ at \in Nat /\ Left \in Nat
  <2>1. Left = Len(log) - at
    BY DEF Left
  <2> QED  BY <1>2, <2>1
<1>6. UNCHANGED <<source, log>> /\ j < entry.count
  BY DEF ReadDigest
<1> DEFINE N == LenForAlg(Cell(1))
<1>7. \/ Left = 0 /\ Abandon
      \/ Left # 0 /\ (~entry.auto \/ N = 0) /\ Left < 2 /\ Abandon
      \/ Left # 0 /\ (~entry.auto \/ N = 0) /\ Left >= 2 /\ TakeDigest(2, Cell(2))
      \/ Left # 0 /\ entry.auto /\ N # 0 /\ Left >= N + 2 /\ Cell(2) = N /\ TakeDigest(2, N)
      \/ Left # 0 /\ entry.auto /\ N # 0 /\ ~(Left >= N + 2 /\ Cell(2) = N) /\ TakeDigest(1, N)
  <2> HIDE DEF Abandon, TakeDigest, LenForAlg, Left, Cell
  <2>1. IF Left = 0 THEN Abandon
        ELSE IF ~entry.auto \/ N = 0
             THEN IF Left < 2 THEN Abandon ELSE TakeDigest(2, Cell(2))
             ELSE IF Left >= N + 2 /\ Cell(2) = N THEN TakeDigest(2, N) ELSE TakeDigest(1, N)
    BY DEF ReadDigest
  <2>2. Left < 2 \/ Left >= 2
    BY <1>5
  <2> HIDE DEF N
  <2> QED  BY <2>1, <2>2
<1> HIDE DEF Took, Failed, N
<1> SUFFICES Took \/ Failed
  BY <1>6 DEF Took, Failed
<1>8. CASE Exhausted
  <2>1. Stuck /\ Left = 0
    BY <1>2, <1>5, <1>8 DEF Exhausted
  <2>2. Abandon
    BY <1>7, <2>1
  <2> QED  BY <1>4, <2>1, <2>2
<1>9. CASE Misled
  <2>1. Stuck /\ ~entry.auto /\ ~source.prefix /\ at = Start /\ entry.digests = <<>>
    BY <1>9 DEF Misled
  <2>2. Left >= 2 => Cell(2) = Random
    <3> DEFINE x == NextOne.digests[1]
    <3>1. 0 \in 0 .. Len(NextOne.digests) /\ 0 < Len(NextOne.digests) /\ 0 + 1 = 1
      BY <1>1, <1>2, <1>6, <2>1
    <3>2. Upto(DigestParts(NextOne, source.prefix), 0) = <<>>
      BY UptoNone
    <3>3. Start \in Nat /\ Start + 0 = Start
      BY <1>5, <2>1
    <3>4. x.digest \in Seq(Nat) /\ DigestAt(log, Start, x, source.prefix)
      <4>1. Len(Upto(DigestParts(NextOne, source.prefix), 0)) = 0
        BY <3>2
      <4>2. /\ NextOne.digests[0 + 1].digest \in Seq(Nat)
            /\ DigestAt(log, Start + Len(Upto(DigestParts(NextOne, source.prefix), 0)),
                        NextOne.digests[0 + 1], source.prefix)
        BY <1>1, <3>1, DigestNext
      <4> QED  BY <3>1, <3>3, <4>1, <4>2
    <3>5. Ahead(log, at + 1, x.digest)
      BY <2>1, <3>4 DEF DigestAt, Skip
    <3>6. x.digest[1] = Random /\ Len(x.digest) \in {4, 5}
      <4>1. 1 \in 1 .. Len(NextOne.digests)
        BY <1>2, <3>1
      <4>2. Len(x.digest) \in {4, 5} /\ x.digest[1] \in {0, Random}
        BY <2>1, <4>1 DEF Sized
      <4>3. x.digest # <<>>
        BY <4>2
      <4>4. x.digest[1] # 0
        BY <2>1, <4>3 DEF Zeroed, NextOne, Entries
      <4> QED  BY <4>2, <4>4
    <3> HIDE DEF x
    <3>7. 1 \in 1 .. Len(x.digest) /\ (at + 1) + 1 = at + 2
      BY <1>5, <3>6
    <3>8. Left >= 2 => at + 2 <= Len(log)
      BY <1>2, <1>5
    <3> QED  BY <3>5, <3>6, <3>7, <3>8 DEF Ahead, Cell
  <2>3. CASE Left < 2
    <3>1. Abandon
      BY <1>5, <1>7, <2>1, <2>3
    <3> QED  BY <1>4, <2>1, <3>1
  <2>4. CASE Left >= 2
    <3>1. TakeDigest(2, Cell(2))
      BY <1>5, <1>7, <2>1, <2>4
    <3>2. ~(Cell(2) <= Left - 2)
      BY <1>2, <1>3, <1>5, <2>2, <2>4
    <3>3. Abandon
      BY <3>1, <3>2, TakeDigestIs DEF Taken
    <3> QED  BY <1>4, <2>1, <3>3
  <2> QED  BY <1>5, <2>3, <2>4
<1>10. CASE Following
  <2> DEFINE x == NextOne.digests[j + 1]
             s == Skip(source.prefix)
             d == Len(x.digest)
  <2>1. /\ source.prefix \/ entry.auto
        /\ j \in 0 .. Len(NextOne.digests) /\ j < Len(NextOne.digests)
        /\ at = Start + Len(Upto(DigestParts(NextOne, source.prefix), j))
    BY <1>1, <1>6, <1>10 DEF Following
  <2>2. /\ s + d \in Nat /\ Off(n) < at /\ at + (s + d) < Off(n + 1)
        /\ x.alg \in Nat /\ x.digest \in Seq(Nat) /\ DigestAt(log, at, x, source.prefix)
    <3> HIDE DEF j
    <3>1. LET a == Start + Len(Upto(DigestParts(NextOne, source.prefix), j)) IN
          /\ s + d \in Nat /\ Off(n) < a /\ a + (s + d) < Off(n + 1)
          /\ x.alg \in Nat /\ x.digest \in Seq(Nat) /\ DigestAt(log, a, x, source.prefix)
      BY <1>1, <2>1, DigestNext
    <3> QED  BY <2>1, <3>1
  <2>3. /\ Ahead(log, at, <<x.alg>>) /\ Ahead(log, at + s, x.digest)
        /\ source.prefix => Ahead(log, at + 1, <<d>>)
    BY <2>2 DEF DigestAt
  <2>4. d \in Nat /\ (source.prefix => s = 2) /\ (~source.prefix => s = 1)
    BY <2>2, SMTT(30) DEF Skip
  <2>5. Left > 0 => Cell(1) = x.alg
    <3>1. Left > 0 => at + 1 <= Len(log)
      BY <1>2, <1>5
    <3> QED  BY <1>2, <1>5, <2>3, <3>1, AheadCell DEF Cell
  <2>6. Left >= 2 /\ source.prefix => Cell(2) = d
    <3>1. Left >= 2 => at + 2 <= Len(log) /\ at + 1 \in Nat /\ (at + 1) + 1 = at + 2
      BY <1>2, <1>5
    <3> HIDE DEF d
    <3> QED  BY <1>2, <1>5, <2>3, <3>1, AheadCell DEF Cell
  <2>7. Left > 0 => \/ N = 0 /\ source.prefix /\ (x.digest = <<>> => NextOne.type = SPEC_ID_EVENT_TYPE)
                    \/ N = d /\ N \in {4, 5} /\ (source.prefix \/ x.digest[1] \in {0, Random})
    <3>1. j + 1 \in 1 .. Len(NextOne.digests)
      BY <1>2, <2>1
    <3> QED  BY <2>5, <3>1 DEF Sized, N
  <2>8. Left >= 2 /\ ~source.prefix /\ d > 0 => Cell(2) = x.digest[1]
    <3> SUFFICES ASSUME Left >= 2, ~source.prefix, d > 0 PROVE log[at + 2] = x.digest[1]
      BY DEF Cell
    <3>1. (at + 1) + 1 <= Len(log) /\ (at + 1) + 1 = at + 2 /\ 1 \in 1 .. d
      BY <1>2, <1>5, <2>4, SMTT(30)
    <3>2. Ahead(log, at + 1, x.digest)
      BY <2>3, <2>4
    <3> QED  BY <3>1, <3>2 DEF Ahead
  <2>9. Left < s + d => Stuck
    <3>1. \A o, a, w, l, p \in Nat : o < a /\ a <= l /\ l - a < w /\ a + w < p => o < l /\ l < p
      OBVIOUS
    <3> HIDE DEF s, d
    <3>2. at <= Len(log)
      BY <1>2, <1>5
    <3> SUFFICES ASSUME Len(log) - at < s + d PROVE Stuck
      BY <1>5
    <3>3. Off(n) < Len(log) /\ Len(log) < Off(n + 1)
      BY <1>2, <1>5, <2>2, <3>1, <3>2, SMTT(30)
    <3> QED  BY <3>3 DEF Stuck
  <2>10. Left >= s + d /\ Taken(s, d) => Took
    BY <1>6, <1>10, TakenFollows DEF Took
  <2>11. d = 0 => x.digest = <<>>
    BY <2>2
  <2> HIDE DEF x, s, d
  <2>12. CASE Left = 0
    <3>1. Stuck
      BY <1>5, <2>4, <2>9, <2>12
    <3>2. Abandon
      BY <1>7, <2>12
    <3> QED  BY <1>4, <3>1, <3>2
  <2>13. CASE Left # 0 /\ (~entry.auto \/ N = 0) /\ Left < 2 /\ Abandon
    <3>1. source.prefix
      BY <1>5, <2>1, <2>7, <2>13
    <3>2. Left < s + d
      BY <1>5, <2>4, <2>13, <3>1
    <3> QED  BY <1>4, <2>9, <2>13, <3>2
  <2>14. ASSUME source.prefix, Left >= 2, TakeDigest(2, d) PROVE Took \/ Failed
    <3>1. s = 2 /\ Left > 0
      BY <1>5, <2>4, <2>14
    <3>2. CASE Taken(2, d)
      <4>1. Left >= s + d
        BY <1>5, <2>4, <3>1, <3>2 DEF Taken
      <4> QED  BY <2>10, <3>1, <3>2, <4>1
    <3>3. CASE ~(d <= Left - 2 /\ (d > 0 \/ entry.type = SPEC_ID_EVENT_TYPE)) /\ Abandon
      <4>1. d > 0 \/ entry.type = SPEC_ID_EVENT_TYPE
        BY <1>1, <2>4, <2>7, <2>11, <3>1
      <4>2. Left < s + d
        BY <1>5, <2>4, <3>1, <3>3, <4>1
      <4> QED  BY <1>4, <2>9, <3>3, <4>2
    <3> QED  BY <2>14, <3>2, <3>3, TakeDigestIs
  <2>15. CASE Left # 0 /\ (~entry.auto \/ N = 0) /\ Left >= 2 /\ TakeDigest(2, Cell(2))
    <3>1. source.prefix
      BY <1>5, <2>1, <2>7, <2>15
    <3>2. Cell(2) = d
      BY <2>6, <2>15, <3>1
    <3> QED  BY <2>14, <2>15, <3>1, <3>2
  <2>16. CASE Left # 0 /\ entry.auto /\ N # 0 /\ Left >= N + 2 /\ Cell(2) = N /\ TakeDigest(2, N)
    <3>1. N = d /\ N \in {4, 5} /\ (source.prefix \/ x.digest[1] \in {0, Random}) /\ Left >= 2
      BY <1>5, <2>7, <2>16
    <3>2. source.prefix
      BY <1>3, <2>8, <2>16, <3>1
    <3> QED  BY <2>14, <2>16, <3>1, <3>2
  <2>17. CASE Left # 0 /\ entry.auto /\ N # 0 /\ ~(Left >= N + 2 /\ Cell(2) = N) /\ TakeDigest(1, N)
    <3>1. N = d /\ N \in {4, 5}
      BY <1>5, <2>7, <2>17
    <3>2. CASE ~source.prefix
      <4>1. s = 1
        BY <2>4, <3>2
      <4>2. CASE Taken(1, d)
        <5>1. Left >= s + d
          BY <1>5, <2>4, <4>1, <4>2 DEF Taken
        <5> QED  BY <2>10, <4>1, <4>2, <5>1
      <4>3. CASE ~(d <= Left - 1 /\ (d > 0 \/ entry.type = SPEC_ID_EVENT_TYPE)) /\ Abandon
        <5>1. Left < s + d
          BY <1>5, <2>4, <3>1, <4>1, <4>3
        <5> QED  BY <1>4, <2>9, <4>3, <5>1
      <4> QED  BY <2>17, <3>1, <4>2, <4>3, TakeDigestIs
    <3>3. CASE source.prefix
      <4>1. s = 2 /\ Left < d + 2
        BY <1>5, <2>4, <2>6, <2>17, <3>1, <3>3
      <4>2. Stuck
        BY <1>5, <2>4, <2>9, <4>1
      <4>3. CASE Taken(1, d)
        <5>1. Left = d + 1
          BY <1>5, <2>4, <4>1, <4>3 DEF Taken
        <5>2. at + 1 + d = Len(log)
          BY <1>2, <1>5, <2>4, <5>1
        <5> QED  BY <1>2, <1>6, <4>2, <4>3, <5>2, TakenExhausts DEF Took
      <4>4. CASE Abandon
        BY <1>4, <4>2, <4>4
      <4> QED  BY <2>17, <3>1, <4>3, <4>4, TakeDigestIs
    <3> QED  BY <1>2, <3>2, <3>3
  <2> QED  BY <1>7, <2>12, <2>13, <2>15, <2>16, <2>17
<1> QED  BY <1>8, <1>9, <1>10 DEF InDigests

\* The second attempt begins where the first did.
LEMMA AgainStep ==
  ASSUME Stored, InDigests, Stuck, UNCHANGED <<source, log>>, Start \in 0 .. Len(log),
         Len(NextOne.digests) \in Nat, Again
  PROVE  InDigests' /\ at' \in 0 .. Len(log) /\ UNCHANGED <<way, stage, sizes, parsed>>
<1>1. /\ entry' = [entry EXCEPT !.auto = FALSE, !.digests = <<>>]
      /\ at' = entry.start /\ UNCHANGED <<way, stage, sizes, parsed>>
  BY DEF Again
<1>2. /\ NextOne' = NextOne /\ Start' = Start /\ (Stuck <=> Stuck') /\ (Begun <=> Begun')
      /\ Len(parsed)' = Len(parsed) /\ Entries' = Entries /\ source' = source /\ log' = log
  BY <1>1, SameEntry, SameFile
<1>3. /\ entry'.pcr = entry.pcr /\ entry'.type = entry.type /\ entry'.start = entry.start
      /\ entry'.auto = FALSE /\ entry'.count = entry.count /\ entry'.digests = <<>>
  BY <1>1
<1>4. at' = Start /\ at' \in 0 .. Len(log)
  BY <1>1 DEF InDigests
<1>5. Following' \/ Misled'
  <2>1. CASE source.prefix
    <3>1. SubSeq(NextOne.digests, 1, 0) = <<>> /\ Upto(DigestParts(NextOne, source.prefix), 0) = <<>>
      BY SubSeqEmpty, UptoNone
    <3>2. Len(<<>>) = 0 /\ 0 \in 0 .. Len(NextOne.digests) /\ Start + 0 = Start
      <4>1. 0 \in 0 .. Len(NextOne.digests)
        OBVIOUS
      <4>2. Start \in Nat
        OBVIOUS
      <4> QED  BY <4>1, <4>2
    <3> QED  BY <1>2, <1>3, <1>4, <2>1, <3>1, <3>2 DEF Following
  <2>2. CASE ~source.prefix
    BY <1>2, <1>3, <1>4, <2>2 DEF Misled
  <2> QED  BY <2>1, <2>2
<1>6. InDigests'
  BY <1>2, <1>3, <1>5 DEF InDigests
<1> QED  BY <1>1, <1>4, <1>6

LEMMA Event2TailStep ==
  ASSUME Stored, InDigests, source.format # "json", ~AsEvent1(Len(parsed) + 1),
         at \in 0 .. Len(log), Body(NextOne), ~IsSpecId(NextOne.data),
         NextOne.type = SPEC_ID_EVENT_TYPE => NextOne.data # <<>>, Event2Tail
  PROVE  /\ UNCHANGED <<source, log>>
         /\ \/ InDigests' /\ at' \in 0 .. Len(log) /\ UNCHANGED <<way, stage, sizes, parsed>>
            \/ /\ AtEntry' /\ at' \in 0 .. Len(log) /\ stage' = "head" /\ Len(parsed') = Len(parsed) + 1
               /\ UNCHANGED <<way, sizes>>
            \/ Mid /\ Abandon
<1> DEFINE Reread == InDigests' /\ at' \in 0 .. Len(log) /\ UNCHANGED <<way, stage, sizes, parsed>>
           Done == /\ AtEntry' /\ at' \in 0 .. Len(log) /\ stage' = "head"
                   /\ Len(parsed') = Len(parsed) + 1 /\ UNCHANGED <<way, sizes>>
           Failed == Mid /\ Abandon
           e == NextOne
           n == Len(parsed)
           m == Len(e.data)
           c == Len(DigestsCells(e, source.prefix))
<1>1. /\ Begun /\ n < Len(Entries) /\ entry.count = Len(e.digests) /\ entry.type = e.type
      /\ entry.auto \in BOOLEAN /\ entry.pcr = e.pcr /\ entry.start = Start
  BY DEF InDigests
<1>2. /\ n \in 0 .. Len(Entries) /\ parsed = SubSeq(Entries, 1, n) /\ e \in EventSet
      /\ source.prefix \in BOOLEAN /\ c \in Nat /\ m \in Nat /\ Len(e.digests) \in Nat
      /\ Off(n) \in Nat /\ Off(n + 1) \in Nat /\ Off(n + 1) = Off(n) + 4 + c + m
      /\ Start = Off(n) + 3
      /\ Ahead(log, Start + c, <<m>>) /\ Ahead(log, Start + c + 1, e.data)
      /\ log \in Seq(Nat) /\ Len(log) \in Nat
  BY <1>1, NextIs
<1>3. /\ Len(e.digests) > 0 /\ e.data \in Seq(Nat) /\ m <= MAX_EVENT_DATA_SIZE
      /\ e = TcgEvent(e.pcr, e.type, e.digests, e.data)
  <2>1. Len(e.digests) \in 1 .. MAX_DIGEST_COUNT /\ e.data \in {<<>>, <<Random>>}
        /\ e = TcgEvent(7, e.type, e.digests, e.data)
    BY DEF Body
  <2>2. e.data \in Seq(Nat)
    BY <1>2 DEF EventSet
  <2>3. m <= MAX_EVENT_DATA_SIZE
    <3>1. Len(<<>>) = 0 /\ Len(<<Random>>) = 1
      OBVIOUS
    <3>2. m = 0 \/ m = 1
      BY <2>1, <3>1, Zenon
    <3> HIDE DEF m
    <3> QED  BY <3>2 DEF MAX_EVENT_DATA_SIZE
  <2>4. e.pcr = 7
    BY <2>1 DEF TcgEvent
  <2> HIDE DEF e
  <2>5. Len(e.digests) > 0
    BY <2>1
  <2>6. e = TcgEvent(e.pcr, e.type, e.digests, e.data)
    BY <2>1, <2>4
  <2> QED  BY <2>2, <2>3, <2>5, <2>6
<1>4. Stuck /\ Abandon => Failed
  BY <1>1, StuckInEntry
<1>5. Left = Len(log) - at /\ at \in Nat /\ Left \in Nat
  <2>1. Left = Len(log) - at
    BY DEF Left
  <2> QED  BY <1>2, <2>1
<1>6. UNCHANGED <<source, log>> /\ Len(entry.digests) = entry.count
  BY DEF Event2Tail
<1> DEFINE empty == Cell(1) = 0 /\ entry.type = SPEC_ID_EVENT_TYPE
           data == Cells(2, Cell(1))
<1>7. \/ /\ DataFits /\ ~empty
         /\ parsed' = Append(parsed, TcgEvent(entry.pcr, entry.type, entry.digests, data))
         /\ at' = at + Cell(1) + 1 /\ stage' = "head" /\ entry' = NoEntry
         /\ sizes' = IF entry.type = SPEC_ID_EVENT_TYPE /\ IsSpecId(data) THEN WithSizes(data) ELSE sizes
         /\ UNCHANGED way
      \/ Again
      \/ DataFits /\ empty /\ Abandon
      \/ ~DataFits /\ Abandon
  <2> HIDE DEF Abandon, Again
  <2> QED  BY DEF Event2Tail
<1> HIDE DEF Reread, Done, Failed
<1> SUFFICES Reread \/ Done \/ Failed
  BY <1>6 DEF Reread, Done, Failed
<1>8. CASE Exhausted
  <2>1. Stuck /\ Left = 0
    BY <1>2, <1>5, <1>8 DEF Exhausted
  <2>2. ~DataFits /\ ~Again
    BY <2>1 DEF DataFits, Again
  <2> QED  BY <1>4, <1>7, <2>1, <2>2
<1>9. CASE Misled
  <2>1. Len(entry.digests) = 0
    BY <1>9 DEF Misled
  <2> QED  BY <1>1, <1>2, <1>3, <1>6, <2>1
<1>10. CASE Following
  <2>1. /\ entry.digests = e.digests /\ at = Start + c
    <3>1. PICK T : T = DigestSet
      OBVIOUS
    <3>2. e.digests \in Seq(T)
      BY <1>2, <3>1 DEF EventSet
    <3>3. /\ entry.digests = SubSeq(e.digests, 1, Len(e.digests))
          /\ at = Start + Len(Upto(DigestParts(e, source.prefix), Len(e.digests)))
      BY <1>1, <1>6, <1>10 DEF Following
    <3>4. SubSeq(e.digests, 1, Len(e.digests)) = e.digests
      BY <3>2, SubSeqFull
    <3>5. Upto(DigestParts(e, source.prefix), Len(e.digests)) = DigestsCells(e, source.prefix)
      BY <1>2, DigestPartsAre, UptoAll DEF DigestsCells
    <3> QED  BY <3>3, <3>4, <3>5
  <2> HIDE DEF e, c, m, n
  <2>2. Ahead(log, at, <<m>>) /\ Ahead(log, at + 1, e.data) /\ m = Len(e.data)
    BY <1>2, <2>1 DEF m
  <2>3. Off(n + 1) = at + (m + 1) /\ Off(n) < at /\ Start <= at
    <3>1. \A o, y, z \in Nat : /\ o + 4 + y + z = (o + 3 + y) + (z + 1) /\ o < o + 3 + y
                               /\ o + 3 <= o + 3 + y
      OBVIOUS
    <3> QED  BY <1>2, <2>1, <3>1
  <2>3a. Off(n) \in Nat /\ Off(n + 1) \in Nat /\ m \in Nat /\ Len(log) \in Nat /\ Start \in Nat
    <3>1. Off(n) \in Nat /\ Off(n + 1) \in Nat /\ Start = Off(n) + 3 /\ Len(log) \in Nat
      BY <1>2
    <3>2. m \in Nat
      BY <1>2 DEF m
    <3>3. \A o \in Nat : o + 3 \in Nat
      OBVIOUS
    <3> QED  BY <3>1, <3>2, <3>3, Zenon
  <2>4. at <= Len(log)
    BY <1>2, <1>5
  <2>5. Left < m + 1 => Stuck
    <3> SUFFICES ASSUME Left < m + 1 PROVE Off(n) < Len(log) /\ Len(log) < Off(n + 1)
      BY DEF Stuck, n
    <3> QED  BY <2>3a, <1>5, <2>3, <2>4
  <2>6. Left > 0 => Cell(1) = m
    <3>1. Left > 0 => at + 1 <= Len(log)
      BY <1>2, <1>5
    <3> QED  BY <1>2, <1>5, <2>2, <3>1, AheadCell DEF Cell
  <2>7. DataFits <=> Left >= m + 1
    <3>1. DataFits <=> Left > 0 /\ Cell(1) <= MAX_EVENT_DATA_SIZE /\ Left >= Cell(1) + 1
      BY DEF DataFits
    <3>2. m <= MAX_EVENT_DATA_SIZE /\ m \in Nat
      BY <1>2, <1>3
    <3> QED  BY <1>5, <2>6, <3>1, <3>2
  <2>8. DataFits => ~empty
    <3>1. m = 0 => e.data = <<>>
      <4>1. \A s \in Seq(Nat) : Len(s) = 0 => s = <<>>
        BY EmptySeq
      <4> QED  BY <1>3, <2>2, <4>1
    <3>2. DataFits => Cell(1) = m
      BY <2>6 DEF DataFits
    <3> QED  BY <1>1, <3>1, <3>2 DEF e
  <2>9. CASE ~DataFits /\ Abandon
    <3>1. Left < m + 1
      BY <1>2, <1>5, <2>7, <2>9
    <3> QED  BY <1>4, <2>5, <2>9, <3>1
  <2>10. CASE Again
    <3>1. Left < m + 1
      BY <1>2, <1>5, <2>7, <2>10 DEF Again
    <3>2. Start \in 0 .. Len(log)
      BY <2>3a, <1>5, <2>3, <2>4
    <3>3. Len(NextOne.digests) \in Nat
      BY <1>2 DEF e
    <3> QED  BY <1>6, <2>5, <2>10, <3>1, <3>2, <3>3, AgainStep DEF Reread
  <2>11. CASE /\ DataFits /\ ~empty
              /\ parsed' = Append(parsed, TcgEvent(entry.pcr, entry.type, entry.digests, data))
              /\ at' = at + Cell(1) + 1 /\ stage' = "head" /\ entry' = NoEntry
              /\ sizes' = IF entry.type = SPEC_ID_EVENT_TYPE /\ IsSpecId(data)
                          THEN WithSizes(data) ELSE sizes
              /\ UNCHANGED way
    <3>1. Left >= m + 1 /\ Cell(1) = m
      BY <2>6, <2>7, <2>11 DEF DataFits
    <3>2. data = e.data
      <4>1. at + (m + 1) <= Len(log)
        BY <1>2, <1>5, <3>1
      <4>2. (at + 1) + m <= Len(log) /\ at + 1 \in Nat /\ (at + 1) + 1 = at + 2
           /\ (at + 1) + m = at + 2 + m - 1
        BY <1>2, <1>5, <4>1
      <4>3. SubSeq(log, (at + 1) + 1, (at + 1) + m) = e.data
        BY <1>2, <1>3, <2>2, <4>2, AheadTaken
      <4> QED  BY <3>1, <4>2, <4>3 DEF Cells
    <3>3. TcgEvent(entry.pcr, entry.type, entry.digests, data) = e
      BY <1>1, <1>3, <2>1, <3>2
    <3>4. sizes' = sizes
      BY <2>11, <3>2 DEF e
    <3>5. at' = Off(n + 1) /\ at' \in 0 .. Len(log)
      <4>1. at' = at + m + 1
        BY <2>11, <3>1
      <4>2. at' = at + (m + 1)
        BY <2>3a, <1>5, <4>1
      <4>3. at + (m + 1) \in 0 .. Len(log)
        BY <2>3a, <1>5, <3>1
      <4> QED  BY <2>3, <4>2, <4>3
    <3>6. /\ parsed' = SubSeq(Entries, 1, n + 1) /\ Len(parsed') = n + 1 /\ n + 1 \in 0 .. Len(Entries)
      <4>1. /\ n + 1 \in 0 .. Len(Entries) /\ Append(SubSeq(Entries, 1, n), e) = SubSeq(Entries, 1, n + 1)
            /\ Len(SubSeq(Entries, 1, n + 1)) = n + 1
        BY <1>1, <1>2, LoggedOne DEF e, NextOne, n
      <4>2. parsed' = Append(parsed, e)
        BY <2>11, <3>3
      <4> QED  BY <1>2, <4>1, <4>2
    <3>7. Entries' = Entries /\ Parts' = Parts
      BY <1>6, SameFile
    <3>8. Begun'
      BY <3>6, <3>7 DEF Begun
    <3>9. at' = Off(Len(parsed))'
      BY <3>5, <3>6, <3>7 DEF Off
    <3>10. AtEntry'
      BY <2>11, <3>8, <3>9 DEF AtEntry
    <3> QED  BY <2>11, <3>4, <3>5, <3>6, <3>10 DEF Done, n
  <2> QED  BY <1>7, <2>8, <2>9, <2>10, <2>11
<1> QED  BY <1>8, <1>9, <1>10 DEF InDigests

-----------------------------------------------------------------------------
(***************************************************************************)
(* What the clear logs of each format look like to each reading.           *)
(***************************************************************************)
LEMMA ClearIs ==
  ASSUME Clear, NEW k \in 1 .. Len(Entries), NEW e, e = Entries[k]
  PROVE  /\ e.type = SPEC_ID_EVENT_TYPE => e.data # <<>>
         /\ \A j \in 1 .. Len(e.digests) :
              LET x == e.digests[j] IN
              source.prefix \/ /\ x.digest # <<>> /\ x.digest[1] # Len(x.digest)
                               /\ source.format = "agile" \/ x.alg \in DOMAIN DigestLen
BY DEF Clear, Entries

\* The digests of a clear event.
LEMMA BodyDigests ==
  ASSUME NEW k \in 1 .. Len(Entries), Body(Entries[k]), Clear, NEW j \in 1 .. Len(Entries[k].digests)
  PROVE  LET e == Entries[k]
             x == e.digests[j]
         IN /\ x.alg \in Nat /\ x.digest \in Seq(Nat)
            /\ \/ /\ x.digest = <<>> /\ x.alg \notin DOMAIN DigestLen
                  /\ e.type = SPEC_ID_EVENT_TYPE /\ Len(e.digests) = 1 /\ e.data = <<Random>>
                  /\ source.prefix
               \/ /\ x.digest # <<>> /\ Len(x.digest) = Written(x.alg) /\ Len(x.digest) \in {4, 5}
                  /\ x.digest[1] # 0 => x.digest[2] = Random /\ x.digest[3] = Random
                  /\ source.prefix \/ x.digest[1] \in {0, Random}
<1> DEFINE e == Entries[k]
           x == e.digests[j]
<1>1. e \in EventSet
  BY DEF Body
<1>2. x.alg \in Nat /\ x.digest \in Seq(Nat)
  BY <1>1, DigestTypes
<1>3. \/ /\ x.digest = <<>> /\ x.alg \notin DOMAIN DigestLen
         /\ e.type = SPEC_ID_EVENT_TYPE /\ Len(e.digests) = 1 /\ e.data = <<Random>>
      \/ \E first \in {0, Random, Written(x.alg)} : x.digest = DigestCells(x.alg, first)
  BY DEF Body
<1>4. source.prefix \/ (x.digest # <<>> /\ x.digest[1] # Len(x.digest))
  BY ClearIs
<1> HIDE DEF e, x
<1>5. CASE \E first \in {0, Random, Written(x.alg)} : x.digest = DigestCells(x.alg, first)
  <2>1. PICK first \in {0, Random, Written(x.alg)} : x.digest = DigestCells(x.alg, first)
    BY <1>5
  <2>2. Written(x.alg) \in {4, 5} /\ Random \in Nat
    BY WrittenIs DEF Random
  <2>3. first \in Nat
    BY <2>1, <2>2
  <2>4. /\ Len(x.digest) = Written(x.alg) /\ x.digest # <<>> /\ x.digest[1] = first
        /\ \A i \in 2 .. Written(x.alg) : x.digest[i] = IF first = 0 THEN 0 ELSE Random
    BY <2>1, <2>3, DigestCellsAre
  <2>5. 2 \in 2 .. Written(x.alg) /\ 3 \in 2 .. Written(x.alg)
    BY <2>2
  <2>6. x.digest[1] # 0 => x.digest[2] = Random /\ x.digest[3] = Random
    BY <2>4, <2>5
  <2> QED  BY <1>2, <1>4, <2>1, <2>2, <2>4, <2>6 DEF x, e
<1>6. CASE ~ \E first \in {0, Random, Written(x.alg)} : x.digest = DigestCells(x.alg, first)
  BY <1>2, <1>3, <1>4, <1>6 DEF x, e
<1> QED  BY <1>5, <1>6

LEMMA PlainData ==
  ASSUME NEW e, Body(e)
  PROVE  ~IsSpecId(e.data) /\ (e.data = <<>> \/ e.data = <<Random>>)
<1>1. e.data = <<>> \/ e.data = <<Random>>
  BY DEF Body
<1>2. Len(<<>>) = 0 /\ Len(<<Random>>) = 1
  OBVIOUS
<1>3. ~(Len(e.data) > 3)
  <2>1. PICK m : m = Len(e.data)
    OBVIOUS
  <2>2. m = 0 \/ m = 1
    BY <1>1, <1>2, <2>1, Zenon
  <2>3. ~(m > 3)
    BY <2>2
  <2> QED  BY <2>1, <2>3, Zenon
<1> QED  BY <1>1, <1>3 DEF IsSpecId

LEMMA SizedBare ==
  ASSUME Stored, Clear, source.format = "bare", sizes = <<>>, NEW k \in 1 .. Len(Entries)
  PROVE  Body(Entries[k]) /\ Sized(Entries[k])
<1> DEFINE e == Entries[k]
<1>1. Body(e)
  BY SourceIs DEF BareEvents
<1>2. ASSUME NEW j \in 1 .. Len(e.digests)
      PROVE  LET x == e.digests[j]
                 n == LenForAlg(x.alg)
             IN \/ n = 0 /\ source.prefix /\ (x.digest = <<>> => e.type = SPEC_ID_EVENT_TYPE)
                \/ n = Len(x.digest) /\ n \in {4, 5} /\ (source.prefix \/ x.digest[1] \in {0, Random})
  <2> DEFINE x == e.digests[j]
  <2>1. \/ /\ x.digest = <<>> /\ x.alg \notin DOMAIN DigestLen
           /\ e.type = SPEC_ID_EVENT_TYPE /\ source.prefix
        \/ /\ x.digest # <<>> /\ Len(x.digest) = Written(x.alg) /\ Len(x.digest) \in {4, 5}
           /\ source.prefix \/ x.digest[1] \in {0, Random}
    BY <1>1, BodyDigests
  <2>2. source.prefix \/ x.alg \in DOMAIN DigestLen
    BY <1>1, ClearIs
  <2> HIDE DEF x, e
  <2>3. LenForAlg(x.alg) = IF x.alg \in DOMAIN DigestLen THEN Written(x.alg) ELSE 0
    BY DEF LenForAlg, Written
  <2> QED  BY <2>1, <2>2, <2>3 DEF x, e
<1> QED  BY <1>1, <1>2 DEF Sized

LEMMA SizedAgile ==
  ASSUME Stored, Clear, source.format = "agile", SizesAnnounced, NEW k \in 2 .. Len(Entries)
  PROVE  Body(Entries[k]) /\ Sized(Entries[k])
<1> DEFINE e == Entries[k]
<1>1. Digested(e) /\ Body(e) /\ k \in 1 .. Len(Entries)
  BY SourceIs DEF AgileEvents, Digested
<1>2. ASSUME NEW j \in 1 .. Len(e.digests)
      PROVE  LET x == e.digests[j]
                 n == LenForAlg(x.alg)
             IN n = Len(x.digest) /\ n \in {4, 5} /\ (source.prefix \/ x.digest[1] \in {0, Random})
  <2> DEFINE x == e.digests[j]
  <2>1. \/ x.digest = <<>>
        \/ /\ Len(x.digest) = Written(x.alg) /\ Len(x.digest) \in {4, 5}
           /\ source.prefix \/ x.digest[1] \in {0, Random}
    BY <1>1, BodyDigests
  <2>2. x.digest # <<>>
    BY <1>1 DEF Digested
  <2>3. LenForAlg(x.alg) = Written(x.alg)
    BY DEF SizesAnnounced
  <2> HIDE DEF x, e
  <2> QED  BY <2>1, <2>2, <2>3 DEF x, e
<1> QED  BY <1>1, <1>2 DEF Sized

\* Zeros mislead neither the reading of an entry the log is cut in, nor that
\* of the first as a SHA-1 entry.
LEMMA NotMisled ==
  ASSUME Stored, Clear, source.format \in {"agile", "bare"}, NEW n \in 0 .. Len(Entries),
         n < Len(Entries), source.format = "agile" => n # 0
  PROVE  /\ Off(n) < Len(log) /\ Len(log) < Off(n + 1) /\ ~source.prefix => ~Zeroed(n + 1)
         /\ n + 1 = FirstEntry /\ (source.format = "bare" \/ Mid) => ~Zeroed(n + 1)
<1>1. /\ n + 1 \in 1 .. Len(Entries) /\ n + 1 \in 0 .. Len(Entries) /\ (n + 1) - 1 = n
      /\ n + 1 \in FirstEntry .. Len(Entries)
  BY SourceIs DEF FirstEntry
<1>2. \A m \in 0 .. Len(Entries) : Reach(m) = Off(m)
  BY FirstPieces DEF Reach, Whole, Off, Upto, Entries
<1>3. Off(n) < Len(log) /\ Len(log) < Off(n + 1) => CutIn(n + 1)
  BY <1>1, <1>2 DEF CutIn
<1>4. Mid => Torn
  BY DEF Mid, Torn, Entries
<1> QED  BY <1>1, <1>3, <1>4 DEF Clear, ZerosMislead, Entries

\* A crypto-agile entry is no entry of the SHA-1 format: it would be too large.
LEMMA Event1Refuses ==
  ASSUME Stored, Clear, Begun, at = Off(Len(parsed)), Len(parsed) < Len(Entries),
         source.format # "json", ~AsEvent1(Len(parsed) + 1), Body(NextOne),
         ~Zeroed(Len(parsed) + 1), Event1Entry
  PROVE  UNCHANGED <<source, log>> /\ Abandon
<1> DEFINE e == NextOne
           n == Len(parsed)
           x == e.digests[1]
           c == Len(DigestsCells(e, source.prefix))
           ps == DigestParts(e, source.prefix)
<1>1. /\ n \in 0 .. Len(Entries) /\ e \in EventSet
      /\ source.prefix \in BOOLEAN /\ c \in Nat /\ Len(e.digests) \in Nat
      /\ Off(n) \in Nat /\ Start = Off(n) + 3
      /\ Ahead(log, Start + c + 1, e.data)
      /\ log \in Seq(Nat) /\ Len(log) \in Nat
  BY NextIs
<1>2. n + 1 \in 1 .. Len(Entries) /\ e = Entries[n + 1]
  BY LoggedOne DEF Begun, NextOne
<1>3. 1 \in 1 .. Len(e.digests)
  <2>1. Len(e.digests) \in 1 .. MAX_DIGEST_COUNT
    BY DEF Body
  <2> QED  BY <1>1, <2>1
<1>4. \/ /\ x.digest = <<>> /\ Len(e.digests) = 1 /\ e.data = <<Random>> /\ source.prefix
      \/ /\ Len(x.digest) \in {4, 5} /\ x.digest[2] = Random /\ x.digest[3] = Random
  <2>1. x.digest # <<>> => x.digest[1] # 0
    BY DEF Zeroed, NextOne, Entries
  <2> QED  BY <1>2, <1>3, <2>1, BodyDigests
<1>5. /\ x.digest \in Seq(Nat) /\ DigestAt(log, Start, x, source.prefix)
      /\ Start + (Skip(source.prefix) + Len(x.digest)) = Start + Len(Upto(ps, 1))
  <2>1. 0 \in 0 .. Len(e.digests) /\ 0 < Len(e.digests) /\ 0 + 1 = 1
    BY <1>1, <1>3
  <2>2. Upto(ps, 0) = <<>>
    BY UptoNone
  <2>3. Len(Upto(ps, 0)) = 0 /\ Start + 0 = Start
    BY <1>1, <2>2
  <2>4. LET a == Start + Len(Upto(ps, 0)) IN
        /\ e.digests[0 + 1].digest \in Seq(Nat) /\ DigestAt(log, a, e.digests[0 + 1], source.prefix)
        /\ a + (Skip(source.prefix) + Len(e.digests[0 + 1].digest)) = Start + Len(Upto(ps, 0 + 1))
    BY <2>1, DigestNext
  <2> QED  BY <2>1, <2>3, <2>4
<1>6. UNCHANGED <<source, log>>
  BY DEF Event1Entry
<1> HIDE DEF e, n, x, c, ps
<1>7. at \in Nat /\ Start = at + 3 /\ Left = Len(log) - at
  BY <1>1 DEF n, Left
<1>8. Left >= 7 => Cell(7) = Random
  <2> SUFFICES ASSUME Left >= 7 PROVE log[at + 7] = Random
    BY DEF Cell
  <2>1. at + 7 <= Len(log)
    BY <1>1, <1>7, SMTT(30)
  <2>2. CASE x.digest = <<>> /\ Len(e.digests) = 1 /\ e.data = <<Random>> /\ source.prefix
    <3>1. c = Len(Upto(ps, 1))
      BY <1>1, <2>2, DigestPartsAre, UptoAll DEF c, ps, DigestsCells
    <3>2. Skip(source.prefix) + Len(x.digest) = 2
      <4>1. Len(<<>>) = 0
        OBVIOUS
      <4> QED  BY <2>2, <4>1 DEF Skip
    <3>3. c = 2
      <4>1. Start + 2 = Start + c
        BY <1>5, <3>1, <3>2, Zenon
      <4>2. c \in Nat /\ Start \in Nat
        <5>1. c \in Nat
          BY <1>1
        <5>2. \A o \in Nat : o + 3 \in Nat
          OBVIOUS
        <5>3. at \in Nat /\ Start = at + 3
          BY <1>7
        <5> QED  BY <5>1, <5>2, <5>3, Zenon
      <4> QED  BY <4>1, <4>2
    <3>4. Ahead(log, at + 6, <<Random>>)
      <4>1. Start + c + 1 = at + 6
        BY <1>7, <3>3
      <4> QED  BY <1>1, <2>2, <4>1
    <3>5. at + 6 \in Nat /\ (at + 6) + 1 = at + 7
      BY <1>7
    <3> QED  BY <1>1, <2>1, <3>4, <3>5, AheadCell
  <2>3. CASE source.prefix /\ Len(x.digest) \in {4, 5} /\ x.digest[2] = Random
    <3>1. Ahead(log, Start + 2, x.digest)
      BY <1>5, <2>3 DEF DigestAt, Skip
    <3>2. (Start + 2) + 2 = at + 7 /\ 2 \in 1 .. Len(x.digest)
      BY <1>7, <2>3
    <3> QED  BY <2>1, <2>3, <3>1, <3>2 DEF Ahead
  <2>4. CASE ~source.prefix /\ Len(x.digest) \in {4, 5} /\ x.digest[3] = Random
    <3>1. Ahead(log, Start + 1, x.digest)
      BY <1>5, <2>4 DEF DigestAt, Skip
    <3>2. (Start + 1) + 3 = at + 7 /\ 3 \in 1 .. Len(x.digest)
      BY <1>7, <2>4, SMTT(30)
    <3> QED  BY <2>1, <2>4, <3>1, <3>2 DEF Ahead
  <2> QED  BY <1>4, <2>2, <2>3, <2>4
<1>9. ~(Left >= 7 /\ Cell(7) <= MAX_EVENT_DATA_SIZE)
  BY <1>8 DEF Random, MAX_EVENT_DATA_SIZE
<1>10. DigestLen[Sha1] + 3 = 7
  BY DEF DigestLen, Sha1, Sha256
<1>11. Abandon
  <2> HIDE DEF Abandon
  <2> QED  BY <1>9, <1>10 DEF Event1Entry
<1> QED  BY <1>6, <1>11

-----------------------------------------------------------------------------
(***************************************************************************)
(* From one reading to the next.                                           *)
(***************************************************************************)
LEMMA AbandonIs ==
  ASSUME Abandon, UNCHANGED <<source, log>>, way \in {"spec", "event2", "event1", "json"}
  PROVE  /\ Nothing' /\ at' = 0 /\ parsed' = <<>> /\ sizes' = <<>>
         /\ way = "spec" => stage' = "head" /\ way' = "event2"
         /\ way = "event2" => stage' = "head" /\ way' = "event1"
         /\ way = "event1" => stage' = "head" /\ way' = "json"
         /\ way = "json" => stage' = "err" /\ way' = "json"
BY DEF Abandon, Nothing, NextWay, NoEntry

LEMMA NothingRead ==
  ASSUME Stored, Nothing
  PROVE  AtEntry /\ at = 0 /\ at \in 0 .. Len(log) /\ Len(parsed) = 0 /\ parsed = <<>> /\ sizes = <<>>
<1>1. Off(0) = 0 /\ Len(log) \in Nat /\ Len(Entries) \in Nat
  BY Offsets, FileIs, SourceIs
<1>2. SubSeq(Entries, 1, 0) = <<>> /\ Len(<<>>) = 0
  BY SubSeqEmpty
<1>3. at = 0 /\ parsed = <<>> /\ sizes = <<>> /\ entry = NoEntry
  BY DEF Nothing
<1>4. Begun
  BY <1>1, <1>2, <1>3 DEF Begun
<1> QED  BY <1>1, <1>2, <1>3, <1>4 DEF AtEntry

LEMMA AtEntryIs ==
  ASSUME Stored, AtEntry, source.format # "json"
  PROVE  /\ Len(parsed) \in 0 .. Len(Entries) /\ at = Off(Len(parsed))
         /\ Left > 0 => Len(parsed) < Len(Entries) /\ log # <<>>
         /\ Left = 0 => EndsAfter(Len(parsed))
<1>1. Len(parsed) \in 0 .. Len(Entries) /\ at = Off(Len(parsed))
  BY DEF AtEntry, Begun
<1>2. /\ Len(log) \in Nat /\ Len(log) <= Len(Entire) /\ Off(Len(Entries)) = Len(Entire)
      /\ Off(Len(parsed)) \in Nat /\ Len(Entries) \in Nat
  BY <1>1, FileIs, Offsets, SourceIs
<1>3. Left = Len(log) - Off(Len(parsed))
  BY <1>1 DEF Left
<1>4. ASSUME Left > 0 PROVE Len(parsed) < Len(Entries) /\ log # <<>>
  <2>1. Off(Len(parsed)) < Len(log) /\ Len(log) <= Off(Len(Entries))
    BY <1>2, <1>3, <1>4
  <2>2. Len(parsed) # Len(Entries)
    <3>1. Off(Len(parsed)) # Off(Len(Entries))
      BY <1>2, <2>1
    <3> QED  BY <3>1
  <2>3. Len(parsed) < Len(Entries)
    BY <1>1, <1>2, <2>2
  <2>4. Len(log) # 0 /\ Len(<<>>) = 0
    BY <1>2, <2>1
  <2> QED  BY <2>3, <2>4
<1>5. ASSUME Left = 0 PROVE EndsAfter(Len(parsed))
  <2>1. Len(log) = Off(Len(parsed))
    BY <1>2, <1>3, <1>5
  <2> QED  BY <1>1, <2>1, EndsIs
<1> QED  BY <1>1, <1>4, <1>5

\* The file holds something to read where nothing was read of it.
LEMMA SomethingLeft ==
  ASSUME Stored, Mid, at = 0
  PROVE  Left > 0
<1>1. log \in Seq(Nat) /\ log # <<>>
  BY FileIs DEF Mid
<1>2. Len(log) \in Nat \ {0}
  BY <1>1, EmptySeq
<1>3. Left = Len(log) - 0
  BY DEF Left
<1> QED  BY <1>2, <1>3

\* An entry is no line of JSON.
LEMMA JsonRefuses ==
  ASSUME Stored, at = 0, source.format # "json", log # <<>>, JsonEntry
  PROVE  UNCHANGED <<source, log>> /\ Abandon
<1>1. log \in Seq(Nat) /\ Len(log) \in Nat \ {0}
  BY FileIs, EmptySeq
<1>2. 0 < Len(Entries) /\ 0 \in 0 .. Len(Entries) /\ 0 + 1 = 1 /\ 1 \in 1 .. Len(Entries)
  <2>1. /\ Len(log) <= Len(Entire) /\ Off(0) = 0 /\ Off(Len(Entries)) = Len(Entire) /\ Len(Entries) \in Nat
        /\ Entire \in Seq(Nat)
    BY FileIs, Offsets, SourceIs
  <2>2. Len(Entire) \in Nat
    BY <2>1, LenProperties
  <2>3. Len(Entire) # 0
    BY <1>1, <2>1, <2>2
  <2>4. Len(Entries) # 0
    BY <2>1, <2>3
  <2> QED  BY <2>1, <2>4
<1> DEFINE e == Entries[1]
<1>3. Ahead(log, 0, Parts[1])
  <2>1. Ahead(log, Off(0), Parts[0 + 1]) /\ Off(0) = 0
    BY <1>2, FileIs, Offsets
  <2> QED  BY <1>2, <2>1
<1>4. e \in EventSet
  BY <1>2, PartsAre
<1>5. e.pcr \in {0, 7}
  <2>1. CASE source.format = "bare"
    <3>1. Body(e)
      BY <1>2, <2>1, SourceIs DEF BareEvents
    <3> QED  BY <3>1 DEF Body, TcgEvent
  <2>2. CASE source.format = "legacy"
    <3>1. Body(e)
      BY <1>2, <2>2, SourceIs DEF LegacyEvents, Digested
    <3> QED  BY <3>1 DEF Body, TcgEvent
  <2>3. CASE source.format = "agile"
    <3>1. PICK b \in Banks : e = Header(b)
      BY <2>3, SourceIs DEF AgileEvents
    <3>2. e.pcr = 0
      BY <3>1, HeaderIs
    <3> QED  BY <3>2
  <2> QED  BY <2>1, <2>2, <2>3, SourceIs
<1>6. log[1] = e.pcr
  <2>0. 0 + 1 <= Len(log) /\ 0 + 2 > 0 /\ 0 + 1 = 1 /\ 0 \in Nat /\ 1 \in 1 .. 2 /\ 1 \in 1 .. 3
    BY <1>1
  <2>1. CASE AsEvent1(1)
    <3>1. Parts[1] = Event1Cells(e)
      BY <1>2, <2>1, PartsAre
    <3>2. Len(e.digests) > 0 /\ e.digests[1].digest \in Seq(Nat)
      <4>1. Len(e.digests) = 1
        <5>1. CASE source.format = "legacy"
          BY <1>2, <5>1, SourceIs DEF LegacyEvents
        <5>2. CASE source.format = "agile"
          <6>1. PICK b \in Banks : e = Header(b)
            BY <5>2, SourceIs DEF AgileEvents
          <6>2. e.digests = <<Digest(Sha1, <<0, 0, 0, 0>>)>>
            BY <6>1, HeaderIs
          <6> QED  BY <6>2
        <5> QED  BY <2>1, <5>1, <5>2 DEF AsEvent1
      <4>2. 1 \in 1 .. Len(e.digests) /\ Len(e.digests) > 0
        BY <4>1
      <4> QED  BY <1>4, <4>2, DigestTypes
    <3>3. PICK g \in Seq(Nat) : g = e.digests[1].digest
      BY <3>2
    <3>4. Ahead(log, 0, <<e.pcr, e.type>>)
      BY <1>1, <1>3, <1>4, <2>0, <3>1, <3>2, <3>3, Event1Ahead
    <3>5. Len(<<e.pcr, e.type>>) = 2 /\ <<e.pcr, e.type>>[1] = e.pcr
      OBVIOUS
    <3> HIDE DEF e
    <3> QED  BY <2>0, <3>4, <3>5 DEF Ahead
  <2>2. CASE ~AsEvent1(1)
    <3>1. Parts[1] = Event2Cells(e, source.prefix)
      BY <1>2, <2>2, PartsAre
    <3>2. source.prefix \in BOOLEAN
      BY SourceIs
    <3>3. Ahead(log, 0, <<e.pcr, e.type, Len(e.digests)>>)
      BY <1>1, <1>3, <1>4, <2>0, <3>1, <3>2, Event2Ahead
    <3>4. Len(<<e.pcr, e.type, Len(e.digests)>>) = 3 /\ <<e.pcr, e.type, Len(e.digests)>>[1] = e.pcr
      OBVIOUS
    <3> HIDE DEF e
    <3> QED  BY <2>0, <3>3, <3>4 DEF Ahead
  <2> QED  BY <2>1, <2>2
<1>7. Cell(1) \notin {JsonLine(0), JsonLine(11)}
  <2>1. Cell(1) = log[1]
    BY DEF Cell
  <2> QED  BY <1>5, <1>6, <2>1 DEF JsonLine
<1> HIDE DEF Abandon
<1> QED  BY <1>7 DEF JsonEntry

\* The file has been read to its end.
LEMMA Finishes ==
  ASSUME Stored, AtEntry, source.format # "json", Left = 0, way \in {"spec", "event2", "event1", "json"},
         UNCHANGED <<source, log>>, stage' = "ok", UNCHANGED <<way, at, entry, sizes, parsed>>
  PROVE  Kept' /\ Outcome'
<1>1. /\ EndsAfter(Len(parsed)) /\ Len(parsed) \in 0 .. Len(Entries) /\ at = Off(Len(parsed))
      /\ parsed = SubSeq(Entries, 1, Len(parsed))
  BY AtEntryIs DEF AtEntry, Begun
<1>2. Len(log) \in Nat /\ Left = Len(log) - at /\ at \in Nat
  BY <1>1, FileIs, Offsets DEF Left
<1>3. at \in 0 .. Len(log)
  BY <1>2
<1>4. (EndsAfter(Len(parsed)) <=> EndsAfter(Len(parsed))') /\ Entries' = Entries
  BY SameFile DEF EndsAfter
<1>5. Outcome'
  BY <1>1, <1>4 DEF Outcome
<1> QED  BY <1>3, <1>5 DEF Kept

\* A reading gives up, and the next begins from the start.
LEMMA Refused ==
  ASSUME Stored, Kept, Abandon, UNCHANGED <<source, log>>, way = "json" => Mid
  PROVE  /\ Kept' /\ Outcome' /\ Nothing' /\ AtEntry' /\ sizes' = <<>> /\ parsed' = <<>>
         /\ Len(parsed)' = 0
         /\ way = "spec" => stage' = "head" /\ way' = "event2"
         /\ way = "event2" => stage' = "head" /\ way' = "event1"
         /\ way = "event1" => stage' = "head" /\ way' = "json"
         /\ way = "json" => stage' = "err" /\ way' = "json"
<1>1. way \in {"spec", "event2", "event1", "json"}
  BY DEF Kept
<1>2. /\ Nothing' /\ at' = 0 /\ parsed' = <<>> /\ sizes' = <<>> /\ entry' = NoEntry
      /\ way = "spec" => stage' = "head" /\ way' = "event2"
      /\ way = "event2" => stage' = "head" /\ way' = "event1"
      /\ way = "event1" => stage' = "head" /\ way' = "json"
      /\ way = "json" => stage' = "err" /\ way' = "json"
  BY <1>1, AbandonIs DEF Nothing
<1>3. /\ Entries' = Entries /\ Parts' = Parts /\ log' = log /\ (Mid <=> Mid')
  BY SameFile
<1>4. Len(<<>>) = 0 /\ SubSeq(Entries, 1, 0) = <<>> /\ Upto(Parts, 0) = <<>>
  BY SubSeqEmpty, UptoNone
<1>5. Len(log) \in Nat /\ Len(Entries) \in Nat
  BY FileIs, SourceIs
<1>6. AtEntry'
  <2>1. Len(parsed)' = 0 /\ Off(Len(parsed))' = 0
    BY <1>2, <1>3, <1>4 DEF Off
  <2>2. Begun'
    BY <1>2, <1>3, <1>4, <1>5, <2>1 DEF Begun
  <2> QED  BY <1>2, <2>1, <2>2 DEF AtEntry
<1>7. Kept'
  <2>1. at' \in 0 .. Len(log)'
    BY <1>2, <1>3, <1>5
  <2> QED  BY <1>1, <1>2, <2>1 DEF Kept
<1>8. Outcome'
  BY <1>1, <1>2, <1>3 DEF Outcome
<1>9. Len(parsed)' = 0
  BY <1>2, <1>4
<1> QED  BY <1>2, <1>6, <1>7, <1>8, <1>9

-----------------------------------------------------------------------------
(***************************************************************************)
(* Entries without a header: the second reading is theirs.                 *)
(***************************************************************************)
LEMMA BareNext ==
  ASSUME Stored, Clear, source.format = "bare", Kept, BareReading, Step
  PROVE  UNCHANGED <<source, log>> /\ Kept' /\ BareReading' /\ Outcome'
<1>1. /\ sizes = <<>> /\ way \in {"spec", "event2", "event1", "json"} /\ at \in 0 .. Len(log)
      /\ stage = "head" => CASE way = "spec" -> Nothing
                          [] way = "event2" -> AtEntry
                          [] OTHER -> Nothing /\ Mid
      /\ stage = "digests" => way = "event2" /\ InDigests
  BY DEF BareReading, Kept
<1>2. \A n : ~AsEvent1(n) /\ source.format # "json"
  BY DEF AsEvent1
<1>3. stage = "head" => AtEntry /\ (way # "event2" => Nothing /\ parsed = <<>> /\ at = 0)
                     /\ (way \in {"event1", "json"} => Mid)
  <2>1. Nothing => AtEntry /\ parsed = <<>> /\ at = 0
    BY NothingRead
  <2> QED  BY <1>1, <2>1
<1>4. UNCHANGED <<source, log>>
  BY DEF Step, Finish, Event1Entry, Event2Head, ReadDigest, Event2Tail, JsonEntry
<1>5. (Mid <=> Mid') /\ source' = source /\ log' = log
  BY <1>4, SameFile
\* Giving up is right before the second reading, and after it in the middle of an entry only.
<1>6. ASSUME Abandon, way # "spec" => Mid PROVE Kept' /\ BareReading' /\ Outcome'
  <2>1. /\ Kept' /\ Outcome' /\ Nothing' /\ AtEntry' /\ sizes' = <<>>
        /\ way = "spec" => stage' = "head" /\ way' = "event2"
        /\ way = "event2" => stage' = "head" /\ way' = "event1"
        /\ way = "event1" => stage' = "head" /\ way' = "json"
        /\ way = "json" => stage' = "err" /\ way' = "json"
    BY <1>1, <1>4, <1>6, Refused
  <2>2. BareReading'
    BY <1>1, <1>5, <1>6, <2>1 DEF BareReading
  <2> QED  BY <2>1, <2>2
<1>7. ASSUME stage = "head", Left > 0
      PROVE  /\ Len(parsed) < Len(Entries) /\ Body(NextOne) /\ Sized(NextOne) /\ Begun
             /\ at = Off(Len(parsed)) /\ log # <<>>
             /\ parsed = <<>> => ~Zeroed(Len(parsed) + 1)
  <2>1. Len(parsed) \in 0 .. Len(Entries) /\ at = Off(Len(parsed)) /\ Len(parsed) < Len(Entries) /\ log # <<>>
    BY <1>2, <1>3, <1>7, AtEntryIs
  <2>2. Len(parsed) + 1 \in 1 .. Len(Entries)
    BY <2>1, LoggedOne
  <2>3. parsed = <<>> => ~Zeroed(Len(parsed) + 1)
    <3>1. Len(<<>>) = 0 /\ 0 + 1 = 1
      OBVIOUS
    <3> QED  BY <2>1, <3>1, NotMisled DEF FirstEntry
  <2> QED  BY <1>1, <1>3, <1>7, <2>1, <2>2, <2>3, SizedBare DEF NextOne, AtEntry
<1>8. ASSUME stage = "digests"
      PROVE  /\ way = "event2" /\ InDigests /\ Body(NextOne) /\ Sized(NextOne)
             /\ NextOne.type = SPEC_ID_EVENT_TYPE => NextOne.data # <<>>
             /\ Stuck /\ ~source.prefix => ~Zeroed(Len(parsed) + 1)
  <2>1. Len(parsed) + 1 \in 1 .. Len(Entries)
    BY <1>1, <1>8, LoggedOne DEF InDigests, Begun
  <2>2. Stuck /\ ~source.prefix => ~Zeroed(Len(parsed) + 1)
    BY <1>1, <1>8, NotMisled DEF InDigests, Begun, Stuck
  <2> QED  BY <1>1, <1>8, <2>1, <2>2, SizedBare, ClearIs DEF NextOne
<1>9. ASSUME InDigests' /\ at' \in 0 .. Len(log) /\ way' = "event2" /\ stage' = "digests" /\ sizes' = sizes
      PROVE  Kept' /\ BareReading' /\ Outcome'
  BY <1>1, <1>5, <1>9 DEF Kept, BareReading, Outcome
<1> SUFFICES Kept' /\ BareReading' /\ Outcome'
  BY <1>4
<1>10. CASE Finish
  <2>1. stage = "head" /\ Left = 0
    BY <1>10 DEF Finish
  <2>2. way \notin {"event1", "json"}
    BY <1>3, <2>1, SomethingLeft
  <2>3. CASE parsed = <<>> /\ way \in {"spec", "json"}
    BY <1>6, <1>10, <2>2, <2>3 DEF Finish
  <2>4. CASE ~(parsed = <<>> /\ way \in {"spec", "json"})
    <3>1. stage' = "ok" /\ UNCHANGED <<way, at, entry, sizes, parsed>>
      BY <1>10, <2>4 DEF Finish
    <3>2. Kept' /\ Outcome'
      BY <1>1, <1>2, <1>3, <1>4, <2>1, <3>1, Finishes
    <3>3. BareReading'
      BY <1>1, <3>1 DEF BareReading
    <3> QED  BY <3>2, <3>3
  <2> QED  BY <2>3, <2>4
<1>11. CASE Event1Entry
  <2>1. stage = "head" /\ Left > 0 /\ ReadsEvent1
    BY <1>11 DEF Event1Entry
  <2>2. way = "event1" \/ way = "spec"
    BY <2>1 DEF ReadsEvent1
  <2>3. Abandon
    BY <1>2, <1>3, <1>7, <1>11, <2>1, <2>2, Event1Refuses
  <2> QED  BY <1>3, <1>6, <2>1, <2>2, <2>3
<1>12. CASE Event2Head
  <2>1. stage = "head" /\ Left > 0 /\ ReadsEvent2
    BY <1>12 DEF Event2Head
  <2>2. way = "event2"
    <3>1. way = "spec" => ~Agile
      BY <1>3, <2>1 DEF Agile
    <3> QED  BY <2>1, <3>1 DEF ReadsEvent2
  <2>3. Len(NextOne.digests) <= MAX_DIGEST_COUNT
    <3>1. Len(NextOne.digests) \in 1 .. MAX_DIGEST_COUNT
      BY <1>7, <2>1 DEF Body
    <3> QED  BY <3>1
  <2>4. \/ /\ InDigests' /\ at' \in 0 .. Len(log) /\ stage' = "digests"
           /\ UNCHANGED <<way, sizes, parsed>>
        \/ Mid /\ Abandon
    BY <1>2, <1>3, <1>7, <1>12, <2>1, <2>3, Event2HeadStep
  <2> QED  BY <1>6, <1>9, <2>2, <2>4
<1>13. CASE ReadDigest
  <2>1. stage = "digests"
    BY <1>13 DEF ReadDigest
  <2>2. \/ InDigests' /\ at' \in 0 .. Len(log) /\ UNCHANGED <<way, stage, sizes, parsed>>
        \/ Mid /\ Abandon
    BY <1>1, <1>2, <1>8, <1>13, <2>1, ReadDigestStep
  <2> QED  BY <1>6, <1>8, <1>9, <2>1, <2>2
<1>14. CASE Event2Tail
  <2>1. stage = "digests"
    BY <1>14 DEF Event2Tail
  <2>2. ~IsSpecId(NextOne.data)
    BY <1>8, <2>1, PlainData
  <2>3. \/ InDigests' /\ at' \in 0 .. Len(log) /\ UNCHANGED <<way, stage, sizes, parsed>>
        \/ /\ AtEntry' /\ at' \in 0 .. Len(log) /\ stage' = "head" /\ Len(parsed') = Len(parsed) + 1
           /\ UNCHANGED <<way, sizes>>
        \/ Mid /\ Abandon
    BY <1>1, <1>2, <1>8, <1>14, <2>1, <2>2, Event2TailStep
  <2>4. CASE AtEntry' /\ at' \in 0 .. Len(log) /\ stage' = "head" /\ UNCHANGED <<way, sizes>>
    <3>1. way' = "event2" /\ sizes' = <<>>
      BY <1>1, <1>8, <2>1, <2>4
    <3> QED  BY <1>5, <2>4, <3>1 DEF Kept, BareReading, Outcome
  <2> QED  BY <1>6, <1>8, <1>9, <2>1, <2>3, <2>4
<1>15. CASE JsonEntry
  <2>1. stage = "head" /\ Left > 0 /\ way = "json"
    BY <1>15 DEF JsonEntry
  <2>2. Abandon
    BY <1>2, <1>3, <1>7, <1>15, <2>1, JsonRefuses
  <2> QED  BY <1>3, <1>6, <2>1, <2>2
<1> QED  BY <1>10, <1>11, <1>12, <1>13, <1>14, <1>15 DEF Step

-----------------------------------------------------------------------------
(***************************************************************************)
(* The header and the crypto-agile entries after it.                       *)
(***************************************************************************)
LEMMA HasMax ==
  ASSUME NEW n \in Nat, NEW S \in SUBSET (1 .. n), S # {}
  PROVE  Max(S) \in S
<1> DEFINE Good == {m \in Nat : \A U \in SUBSET (1 .. m) : U # {} => \E x \in U : \A y \in U : x >= y}
<1>1. 0 \in Good
  <2>1. 1 .. 0 = {}
    OBVIOUS
  <2> QED  BY <2>1
<1>2. ASSUME NEW m \in Nat, m \in Good PROVE m + 1 \in Good
  <2> SUFFICES ASSUME NEW U \in SUBSET (1 .. m + 1), U # {} PROVE \E x \in U : \A y \in U : x >= y
    OBVIOUS
  <2>1. CASE m + 1 \in U
    <3>1. \A y \in U : m + 1 >= y
      OBVIOUS
    <3> QED  BY <2>1, <3>1
  <2>2. CASE m + 1 \notin U
    <3>1. U \in SUBSET (1 .. m)
      BY <2>2
    <3> QED  BY <1>2, <3>1
  <2> QED  BY <2>1, <2>2
<1>3. Nat \subseteq Good
  <2> HIDE DEF Good
  <2> QED  BY <1>1, <1>2, Induct
<1>4. \E x \in S : \A y \in S : x >= y
  BY <1>3
<1> QED  BY <1>4 DEF Max

LEMMA HeaderOne ==
  ASSUME Stored, source.format = "agile"
  PROVE  /\ 0 < Len(Entries) /\ Len(Entries) \in Nat /\ 1 \in 1 .. Len(Entries)
         /\ Sha1Event(Entries[1]) /\ Entries[1].type = SPEC_ID_EVENT_TYPE
         /\ IsSpecId(Entries[1].data) /\ Entries[1].data[2] = 2
         /\ \E b \in Banks :
              /\ Entries[1] = Header(b) /\ Entries[1].data = SpecId(b)
              /\ \A k \in 2 .. Len(Entries) : \A j \in 1 .. Len(Entries[k].digests) :
                   \E i \in 1 .. Len(b) : Entries[k].digests[j].alg = b[i]
<1>1. PICK b \in Banks :
        /\ Entries[1] = Header(b)
        /\ \A k \in 2 .. Len(Entries) : \A j \in 1 .. Len(Entries[k].digests) :
             \E i \in 1 .. Len(b) : Entries[k].digests[j].alg = b[i]
  BY SourceIs DEF AgileEvents
<1>2. Len(Entries) \in Nat /\ Len(Entries) > 0
  BY SourceIs DEF AgileEvents
<1>3. 0 < Len(Entries) /\ 1 \in 1 .. Len(Entries)
  BY <1>2
<1> DEFINE e == Header(b)
           d == SpecId(b)
<1>4. /\ e.pcr = 0 /\ e.type = SPEC_ID_EVENT_TYPE /\ e.data = d
      /\ e.digests = <<Digest(Sha1, <<0, 0, 0, 0>>)>>
      /\ e = TcgEvent(0, SPEC_ID_EVENT_TYPE, e.digests, e.data)
  BY HeaderIs
<1>5. b \in Seq(Nat) /\ Len(b) \in 1 .. 32
  BY BanksAre DEF MAX_DIGEST_COUNT
<1>6. /\ Len(d) = 4 + 2 * Len(b)
      /\ d[1] = SpecTag /\ d[2] = 2 /\ d[3] = Len(b) /\ d[4 + 2 * Len(b)] = 0
  BY <1>5, SpecIdIs
<1> HIDE DEF e, d
<1>7. IsSpecId(d)
  <2>1. \A n \in 1 .. 32 : 4 + 2 * n > 3 /\ n <= 32 /\ 4 + 2 * n >= 4 + 2 * n /\ 4 + 2 * n >= 4 + 2 * n + 0
    OBVIOUS
  <2> QED  BY <1>5, <1>6, <2>1, Zenon DEF IsSpecId, MAX_DIGEST_COUNT
<1>8. Sha1Event(e)
  <2>1. Len(d) <= MAX_EVENT_DATA_SIZE
    <3>1. \A n \in 1 .. 32 : 4 + 2 * n <= 80
      OBVIOUS
    <3> QED  BY <1>5, <1>6, <3>1, Zenon DEF MAX_EVENT_DATA_SIZE
  <2>2. <<0, 0, 0, 0>> \in Seq(Nat) /\ Len(<<0, 0, 0, 0>>) = 4
    OBVIOUS
  <2>3. Len(e.digests) = 1
    BY <1>4
  <2>4. e = TcgEvent(e.pcr, e.type, <<Digest(Sha1, <<0, 0, 0, 0>>)>>, e.data)
    BY <1>4
  <2> QED  BY <1>4, <2>1, <2>2, <2>3, <2>4 DEF Sha1Event
<1> QED  BY <1>1, <1>2, <1>3, <1>4, <1>6, <1>7, <1>8, SMTT(30) DEF e, d

\* The header announces the size of every algorithm of the banks.
LEMMA HeaderSizes ==
  ASSUME NEW b \in Banks, NEW i \in 1 .. Len(b)
  PROVE  LET w == WithSizes(SpecId(b)) IN b[i] \in DOMAIN w /\ w[b[i]] = Written(b[i])
<1> DEFINE d == SpecId(b)
           a == b[i]
           P(x) == {k \in 1 .. d[3] : d[2 + 2 * k] = x /\ d[3 + 2 * k] # 0}
           D == DOMAIN sizes \cup {p[1] : p \in {q \in Announced(d) : q[2] # 0}}
<1>1. b \in Seq(Nat) /\ Len(b) \in Nat
  BY BanksAre
<1>2. /\ d[3] = Len(b)
      /\ \A k \in 1 .. Len(b) : d[2 + 2 * k] = b[k] /\ d[3 + 2 * k] = Written(b[k])
  BY <1>1, SpecIdIs
<1>3. \A x : Written(x) # 0
  <2> TAKE x
  <2>1. Written(x) \in {4, 5}
    BY WrittenIs
  <2> QED  BY <2>1
<1> HIDE DEF d
<1>4. \A k \in P(a) : d[3 + 2 * k] = Written(a) /\ k \in 1 .. Len(b)
  BY <1>2
<1>5. i \in P(a) /\ P(a) \in SUBSET (1 .. Len(b))
  BY <1>2, <1>3
<1>6. <<b[i], Written(b[i])>> \in Announced(d)
  BY <1>2 DEF Announced
<1>7. a \in D
  <2> DEFINE q == <<b[i], Written(b[i])>>
  <2>1. q \in Announced(d) /\ q[2] # 0 /\ q[1] = a
    BY <1>3, <1>6
  <2> HIDE DEF q, a
  <2> QED  BY <2>1
<1>8. WithSizes(d) = [x \in D |-> IF P(x) = {} THEN sizes[x] ELSE d[3 + 2 * Max(P(x))]]
  BY DEF WithSizes
<1>9. Max(P(a)) \in P(a)
  <2> HIDE DEF P
  <2> QED  BY <1>1, <1>5, HasMax
<1>10. P(a) # {}
  BY <1>5
<1> HIDE DEF P, D, a
<1>11. WithSizes(d)[a] = d[3 + 2 * Max(P(a))]
  BY <1>7, <1>8, <1>10
<1> QED  BY <1>4, <1>7, <1>8, <1>9, <1>11 DEF d, a

\* Once the header is read the sizes are those of the entries.
LEMMA HeaderAnnounces ==
  ASSUME Stored, source.format = "agile", UNCHANGED <<source, log>>,
         sizes' = WithSizes(Entries[1].data)
  PROVE  SizesAnnounced'
<1>1. PICK b \in Banks :
        /\ Entries[1].data = SpecId(b)
        /\ \A k \in 2 .. Len(Entries) : \A j \in 1 .. Len(Entries[k].digests) :
             \E i \in 1 .. Len(b) : Entries[k].digests[j].alg = b[i]
  BY HeaderOne
<1>2. Entries' = Entries
  BY SameFile
<1>3. ASSUME NEW i \in 1 .. Len(b) PROVE LenForAlg(b[i])' = Written(b[i])
  <2>1. b[i] \in DOMAIN sizes' /\ sizes'[b[i]] = Written(b[i])
    BY <1>1, HeaderSizes
  <2> QED  BY <2>1 DEF LenForAlg
<1>4. ASSUME NEW k \in 2 .. Len(Entries), NEW j \in 1 .. Len(Entries[k].digests)
      PROVE  LenForAlg(Entries[k].digests[j].alg)' = Written(Entries[k].digests[j].alg)
  <2>1. PICK i \in 1 .. Len(b) : Entries[k].digests[j].alg = b[i]
    BY <1>1
  <2>2. LenForAlg(b[i])' = Written(b[i])
    BY <1>3
  <2> QED  BY <1>2, <2>1, <2>2 DEF LenForAlg
<1> QED  BY <1>2, <1>4 DEF SizesAnnounced, LenForAlg

\* The cells of the header after its PCR, read as a crypto-agile entry.
LEMMA HeaderCells ==
  ASSUME Stored, source.format = "agile"
  PROVE  \A k \in {2, 3, 4} : k <= Len(log) => log[k] = IF k = 2 THEN SPEC_ID_EVENT_TYPE ELSE 0
<1> DEFINE e == Entries[1]
           g == <<0, 0, 0, 0>>
<1>1. PICK b \in Banks : e = Header(b)
  BY HeaderOne
<1>2. e.type = SPEC_ID_EVENT_TYPE /\ e.digests = <<Digest(Sha1, g)>> /\ e \in EventSet
  BY <1>1, HeaderIs
<1>3. g \in Seq(Nat) /\ Len(g) = 4 /\ g[1] = 0 /\ g[2] = 0
  OBVIOUS
<1>4. Len(e.digests) > 0 /\ e.digests[1].digest = g
  BY <1>2 DEF Digest
<1>5. log \in Seq(Nat) /\ Len(log) \in Nat /\ Ahead(log, 0, Event1Cells(e))
  <2>1. 0 \in 0 .. Len(Entries) /\ 0 < Len(Entries) /\ 0 + 1 = 1 /\ 1 \in 1 .. Len(Entries)
    BY HeaderOne
  <2>2. Ahead(log, Off(0), Parts[0 + 1]) /\ Off(0) = 0
    BY <2>1, FileIs, Offsets
  <2>3. Parts[1] = Event1Cells(e)
    BY <2>1, PartsAre DEF AsEvent1
  <2> QED  BY <2>1, <2>2, <2>3, FileIs
<1> HIDE DEF e, g
<1>6. Ahead(log, 0, <<e.pcr, e.type>>) /\ Ahead(log, 2, g)
  <2>1. /\ Ahead(log, 0, <<e.pcr, e.type>>) /\ Ahead(log, 0 + 2, g)
    BY <1>2, <1>3, <1>4, <1>5, Event1Ahead
  <2> QED  BY <2>1
<1>7. 2 <= Len(log) => log[2] = e.type
  <2>1. Len(<<e.pcr, e.type>>) = 2 /\ <<e.pcr, e.type>>[2] = e.type /\ 0 + 2 = 2 /\ 2 \in 1 .. 2
    OBVIOUS
  <2> QED  BY <1>6, <2>1 DEF Ahead
<1>8. /\ 3 <= Len(log) => log[3] = 0
      /\ 4 <= Len(log) => log[4] = 0
  <2>1. 1 \in 1 .. 4 /\ 2 \in 1 .. 4 /\ 2 + 1 = 3 /\ 2 + 2 = 4
    OBVIOUS
  <2> QED  BY <1>3, <1>6, <2>1 DEF Ahead
<1> QED  BY <1>2, <1>7, <1>8

LEMMA AgileAbandons ==
  ASSUME Stored, source.format = "agile", Kept, Abandon, UNCHANGED <<source, log>>,
         log = <<>> \/ Mid, way # "spec" => Mid
  PROVE  Kept' /\ AgileReading' /\ Outcome'
<1>1. /\ Kept' /\ Outcome' /\ Nothing' /\ AtEntry' /\ sizes' = <<>> /\ Len(parsed)' = 0
      /\ way = "spec" => stage' = "head" /\ way' = "event2"
      /\ way = "event2" => stage' = "head" /\ way' = "event1"
      /\ way = "event1" => stage' = "head" /\ way' = "json"
      /\ way = "json" => stage' = "err" /\ way' = "json"
  BY Refused
<1>2. way \in {"spec", "event2", "event1", "json"} /\ (Mid <=> Mid') /\ log' = log
  BY SameFile DEF Kept
<1>3. (Len(parsed) <= 1)'
  BY <1>1
<1> QED  BY <1>1, <1>2, <1>3 DEF AgileReading

\* What is next after the header.
LEMMA AgileNextOne ==
  ASSUME Stored, Clear, source.format = "agile", Begun, parsed # <<>>, Len(parsed) < Len(Entries)
  PROVE  /\ ~AsEvent1(Len(parsed) + 1) /\ Digested(NextOne) /\ Body(NextOne)
         /\ Len(NextOne.digests) <= MAX_DIGEST_COUNT /\ ~IsSpecId(NextOne.data)
         /\ NextOne.type = SPEC_ID_EVENT_TYPE => NextOne.data # <<>>
         /\ SizesAnnounced => Sized(NextOne)
<1> DEFINE n == Len(parsed)
<1>1. n \in 0 .. Len(Entries) /\ Len(Entries) \in Nat /\ parsed = SubSeq(Entries, 1, n)
       /\ n + 1 \in 1 .. Len(Entries)
  BY LoggedOne, SourceIs DEF Begun
<1>2. n # 0
  <2>1. SubSeq(Entries, 1, 0) = <<>>
    BY SubSeqEmpty
  <2> QED  BY <1>1, <2>1
<1>3. n + 1 \in 2 .. Len(Entries) /\ n + 1 # 1
  <2> HIDE DEF n
  <2> QED  BY <1>1, <1>2
<1>4. Digested(NextOne) /\ Body(NextOne)
  BY <1>3, SourceIs DEF AgileEvents, Digested, NextOne
<1>5. Len(NextOne.digests) \in 1 .. 32
  BY <1>4 DEF Body, MAX_DIGEST_COUNT
<1>6. Len(NextOne.digests) <= 32
  <2>1. \A m \in 1 .. 32 : m <= 32
    OBVIOUS
  <2> QED  BY <1>5, <2>1, Zenon
<1>7. ~AsEvent1(n + 1)
  BY <1>3 DEF AsEvent1
<1>8. ~IsSpecId(NextOne.data)
  BY <1>4, PlainData
<1>9. NextOne.type = SPEC_ID_EVENT_TYPE => NextOne.data # <<>>
  BY <1>1, ClearIs DEF NextOne
<1>10. SizesAnnounced => Sized(NextOne)
  BY <1>3, SizedAgile DEF NextOne
<1> QED  BY <1>4, <1>6, <1>7, <1>8, <1>9, <1>10 DEF MAX_DIGEST_COUNT

\* The first events of the log begin with its header.
LEMMA AgileIs ==
  ASSUME Stored, source.format = "agile", Begun
  PROVE  Agile <=> parsed # <<>>
<1> SUFFICES ASSUME parsed # <<>> PROVE Agile
  BY DEF Agile
<1>1. Len(parsed) \in 0 .. Len(Entries) /\ Entries \in Seq(EventSet) /\ parsed = SubSeq(Entries, 1, Len(parsed))
  BY SourceIs DEF Begun
<1>2. Len(parsed) # 0
  <2>1. SubSeq(Entries, 1, 0) = <<>>
    BY SubSeqEmpty
  <2> QED  BY <1>1, <2>1
<1>3. 1 \in 1 .. Len(parsed)
  <2>1. \A m \in 0 .. Len(Entries) : m # 0 => 1 \in 1 .. m
    BY HeaderOne
  <2> QED  BY <1>1, <1>2, <2>1, Zenon
<1>4. parsed[1] = Entries[1]
  <2> DEFINE n == Len(parsed)
  <2>1. \A i \in 1 .. n : SubSeq(Entries, 1, n)[i] = Entries[i]
    <3> HIDE DEF n
    <3>1. n \in 0 .. Len(Entries)
      BY <1>1 DEF n
    <3> QED  BY <1>1, <3>1, Firsts
  <2> QED  BY <1>1, <1>3, <2>1
<1>5. IsSpecId(Entries[1].data) /\ Entries[1].data[2] = 2
  BY HeaderOne
<1>6. Entries[1].data[2] >= 2
  BY <1>5
<1> QED  BY <1>4, <1>5, <1>6 DEF Agile

\* The first reading: the header, then the entries with the sizes it announced.
LEMMA AgileSpec ==
  ASSUME Stored, Clear, source.format = "agile", Kept, AgileReading, Step, way = "spec"
  PROVE  Kept' /\ AgileReading' /\ Outcome'
<1>1. /\ stage = "head" => AtEntry /\ (parsed # <<>> => SizesAnnounced)
      /\ stage = "digests" => InDigests /\ parsed # <<>> /\ SizesAnnounced
      /\ at \in 0 .. Len(log)
  BY DEF AgileReading, Kept
<1>2. UNCHANGED <<source, log>> /\ source.format # "json"
  BY DEF Step, Finish, Event1Entry, Event2Head, ReadDigest, Event2Tail, JsonEntry
<1>3. (Mid <=> Mid') /\ source' = source /\ log' = log /\ Entries' = Entries
  BY <1>2, SameFile
<1>4. SizesAnnounced /\ sizes' = sizes => SizesAnnounced'
  BY <1>3 DEF SizesAnnounced, LenForAlg
<1>5. ASSUME Abandon, log = <<>> \/ Mid PROVE Kept' /\ AgileReading' /\ Outcome'
  BY <1>2, <1>5, AgileAbandons
<1>6. ASSUME AtEntry' /\ at' \in 0 .. Len(log), UNCHANGED <<way, stage>>,
                  stage = "head", parsed' # <<>>, SizesAnnounced'
      PROVE  Kept' /\ AgileReading' /\ Outcome'
  BY <1>3, <1>6 DEF Kept, AgileReading, Outcome
<1>7. ASSUME InDigests' /\ at' \in 0 .. Len(log), way' = "spec", stage' = "digests", sizes' = sizes,
             parsed' = parsed, parsed # <<>>, SizesAnnounced
      PROVE  Kept' /\ AgileReading' /\ Outcome'
  BY <1>3, <1>4, <1>7 DEF Kept, AgileReading, Outcome
<1>8. ASSUME stage = "head"
      PROVE  /\ AtEntry /\ Begun /\ Len(parsed) \in 0 .. Len(Entries) /\ at = Off(Len(parsed))
             /\ Left > 0 => Len(parsed) < Len(Entries)
             /\ parsed = <<>> <=> ~Agile
  BY <1>1, <1>2, <1>8, AtEntryIs, AgileIs DEF AtEntry
<1>9. CASE Finish
  <2>1. stage = "head" /\ Left = 0
    BY <1>9 DEF Finish
  <2>2. CASE parsed = <<>>
    <3>1. Abandon
      BY <1>9, <2>2 DEF Finish
    <3>2. log = <<>>
      <4>1. Len(log) \in Nat /\ log \in Seq(Nat) /\ Off(0) = 0 /\ Len(<<>>) = 0
        BY FileIs, Offsets
      <4>2. at = 0
        BY <1>8, <2>1, <2>2, <4>1
      <4>3. Len(log) = 0
        BY <2>1, <4>1, <4>2 DEF Left
      <4> QED  BY <4>1, <4>3, EmptySeq
    <3> QED  BY <1>5, <3>1, <3>2
  <2>3. CASE parsed # <<>>
    <3>1. stage' = "ok" /\ UNCHANGED <<way, at, entry, sizes, parsed>>
      BY <1>9, <2>3 DEF Finish
    <3>2. Kept' /\ Outcome'
      BY <1>2, <1>8, <2>1, <3>1, Finishes
    <3>3. AgileReading'
      BY <2>3, <3>1 DEF AgileReading
    <3> QED  BY <3>2, <3>3
  <2> QED  BY <2>2, <2>3
<1>10. CASE Event1Entry
  <2>1. stage = "head" /\ Left > 0 /\ ~Agile
    BY <1>10 DEF Event1Entry, ReadsEvent1
  <2>2. parsed = <<>> /\ Len(parsed) = 0 /\ AtEntry /\ Len(parsed) < Len(Entries)
    BY <1>8, <2>1
  <2>3. AsEvent1(0 + 1) /\ Sha1Event(Entries[0 + 1]) /\ IsSpecId(Entries[0 + 1].data) /\ 0 + 1 = 1
    BY HeaderOne DEF AsEvent1
  <2>4. at <= Len(log)
    BY <1>1, FileIs
  <2>5. \/ /\ AtEntry' /\ parsed' = SubSeq(Entries, 1, 0 + 1) /\ at' \in 0 .. Len(log)
           /\ sizes' = WithSizes(Entries[0 + 1].data)
           /\ UNCHANGED <<way, stage, entry>>
        \/ Mid /\ Abandon
    BY <1>2, <1>10, <2>2, <2>3, <2>4, Event1Step
  <2>6. CASE /\ AtEntry' /\ parsed' = SubSeq(Entries, 1, 0 + 1) /\ at' \in 0 .. Len(log)
             /\ sizes' = WithSizes(Entries[0 + 1].data)
             /\ UNCHANGED <<way, stage, entry>>
    <3>1. SizesAnnounced'
      BY <1>2, <2>3, <2>6, HeaderAnnounces
    <3>2. parsed' # <<>>
      <4>1. Len(SubSeq(Entries, 1, 0 + 1)) = 0 + 1 /\ Len(<<>>) = 0
        BY <2>2, <1>8, <2>1, LoggedOne
      <4>2. 0 + 1 # 0
        OBVIOUS
      <4> QED  BY <2>6, <4>1, <4>2, Zenon
    <3> QED  BY <1>6, <2>1, <2>6, <3>1, <3>2
  <2> QED  BY <1>5, <2>5, <2>6
<1>11. CASE Event2Head
  <2>1. stage = "head" /\ Left > 0 /\ Agile
    BY <1>11 DEF Event2Head, ReadsEvent2
  <2>2. parsed # <<>> /\ SizesAnnounced /\ AtEntry /\ Begun /\ Len(parsed) < Len(Entries)
    BY <1>1, <1>8, <2>1
  <2>3. ~AsEvent1(Len(parsed) + 1) /\ Len(NextOne.digests) <= MAX_DIGEST_COUNT
    BY <2>2, AgileNextOne
  <2>4. \/ /\ InDigests' /\ at' \in 0 .. Len(log) /\ stage' = "digests"
           /\ UNCHANGED <<way, sizes, parsed>>
        \/ Mid /\ Abandon
    BY <1>2, <1>11, <2>2, <2>3, Event2HeadStep
  <2> QED  BY <1>5, <1>7, <2>2, <2>4
<1>12. ASSUME stage = "digests"
      PROVE  /\ InDigests /\ parsed # <<>> /\ SizesAnnounced /\ ~AsEvent1(Len(parsed) + 1)
             /\ Body(NextOne) /\ Sized(NextOne) /\ ~IsSpecId(NextOne.data)
             /\ NextOne.type = SPEC_ID_EVENT_TYPE => NextOne.data # <<>>
             /\ Stuck /\ ~source.prefix => ~Zeroed(Len(parsed) + 1)
  <2>1. InDigests /\ parsed # <<>> /\ SizesAnnounced
    BY <1>1, <1>12
  <2>2. Begun /\ Len(parsed) < Len(Entries)
    BY <2>1 DEF InDigests
  <2>3. Stuck /\ ~source.prefix => ~Zeroed(Len(parsed) + 1)
    <3>1. Len(parsed) # 0
      <4>1. SubSeq(Entries, 1, 0) = <<>>
        BY SubSeqEmpty
      <4> QED  BY <2>1, <2>2, <4>1 DEF Begun
    <3> QED  BY <2>2, <3>1, NotMisled DEF Begun, Stuck
  <2> QED  BY <2>1, <2>2, <2>3, AgileNextOne
<1>13. CASE ReadDigest
  <2>1. stage = "digests"
    BY <1>13 DEF ReadDigest
  <2>2. \/ InDigests' /\ at' \in 0 .. Len(log) /\ UNCHANGED <<way, stage, sizes, parsed>>
        \/ Mid /\ Abandon
    BY <1>1, <1>2, <1>12, <1>13, <2>1, ReadDigestStep
  <2> QED  BY <1>5, <1>7, <1>12, <2>1, <2>2
<1>14. CASE Event2Tail
  <2>1. stage = "digests"
    BY <1>14 DEF Event2Tail
  <2>2. \/ InDigests' /\ at' \in 0 .. Len(log) /\ UNCHANGED <<way, stage, sizes, parsed>>
        \/ /\ AtEntry' /\ at' \in 0 .. Len(log) /\ stage' = "head" /\ Len(parsed') = Len(parsed) + 1
           /\ UNCHANGED <<way, sizes>>
        \/ Mid /\ Abandon
    BY <1>1, <1>2, <1>12, <1>14, <2>1, Event2TailStep
  <2>3. CASE /\ AtEntry' /\ at' \in 0 .. Len(log) /\ stage' = "head" /\ Len(parsed') = Len(parsed) + 1
             /\ UNCHANGED <<way, sizes>>
    <3>1. SizesAnnounced'
      BY <1>4, <1>12, <2>1, <2>3
    <3>2. parsed' # <<>>
      <4>1. Len(parsed) \in Nat
        <5>1. Len(parsed) \in 0 .. Len(Entries)
          BY <1>12, <2>1 DEF InDigests, Begun
        <5> QED  BY <5>1
      <4>2. Len(parsed') # 0 /\ Len(<<>>) = 0
        BY <2>3, <4>1
      <4> QED  BY <4>2
    <3>3. (parsed = <<>>)' => (sizes = <<>>)'
      BY <3>2
    <3> QED  BY <1>3, <2>3, <3>1, <3>2 DEF Kept, AgileReading, Outcome
  <2> QED  BY <1>5, <1>7, <1>12, <2>1, <2>2, <2>3
<1>15. ~JsonEntry
  BY DEF JsonEntry
<1> QED  BY <1>9, <1>10, <1>11, <1>13, <1>14, <1>15 DEF Step

\* The other readings of a log with a header, which end where they began.
LEMMA AgileOther ==
  ASSUME Stored, Clear, source.format = "agile", Kept, AgileReading, Step, way # "spec"
  PROVE  Kept' /\ AgileReading' /\ Outcome'
<1>1. /\ stage = "head" => CASE way = "event2" -> Nothing /\ (log = <<>> \/ Mid)
                          [] way = "event1" -> AtEntry /\ Len(parsed) <= 1 /\ Mid
                          [] way = "json" -> Nothing /\ Mid
      /\ stage = "digests" => /\ way = "event2" /\ Mid /\ at = 3 /\ parsed = <<>>
                           /\ entry.count = 0 /\ entry.digests = <<>>
                           /\ entry.type = SPEC_ID_EVENT_TYPE
      /\ at \in 0 .. Len(log) /\ (parsed = <<>> => sizes = <<>>)
      /\ way \in {"event2", "event1", "json"}
  BY DEF AgileReading, Kept
<1>2. UNCHANGED <<source, log>> /\ source.format # "json"
  BY DEF Step, Finish, Event1Entry, Event2Head, ReadDigest, Event2Tail, JsonEntry
<1>3. (Mid <=> Mid') /\ source' = source /\ log' = log
  BY <1>2, SameFile
<1>4. ASSUME Abandon, Mid PROVE Kept' /\ AgileReading' /\ Outcome'
  BY <1>2, <1>4, AgileAbandons
<1>5. Nothing => AtEntry /\ at = 0 /\ Len(parsed) = 0 /\ parsed = <<>> /\ sizes = <<>>
  BY NothingRead
<1>6. stage = "head" => AtEntry /\ (log = <<>> \/ Mid) /\ (way # "event2" => Mid)
                     /\ (way # "event1" => at = 0 /\ parsed = <<>>)
                     /\ (way = "event1" => Len(parsed) <= 1)
  BY <1>1, <1>5
<1>7. ASSUME stage = "head", Left > 0
      PROVE  Mid /\ Begun /\ at = Off(Len(parsed)) /\ Len(parsed) < Len(Entries)
              /\ Len(parsed) \in 0 .. Len(Entries)
  <2>1. Len(parsed) \in 0 .. Len(Entries) /\ at = Off(Len(parsed)) /\ Len(parsed) < Len(Entries) /\ log # <<>>
    BY <1>2, <1>6, <1>7, AtEntryIs
  <2> QED  BY <1>6, <1>7, <2>1 DEF AtEntry
<1>8. CASE Finish
  <2>1. stage = "head" /\ Left = 0
    BY <1>8 DEF Finish
  <2>2. ~Mid
    <3> SUFFICES ASSUME Mid PROVE FALSE
      OBVIOUS
    <3>1. Len(parsed) \in 0 .. Len(Entries) /\ at = Off(Len(parsed))
           /\ Len(log) \in Nat /\ Off(Len(parsed)) \in Nat
      BY <1>2, <1>6, <2>1, AtEntryIs, FileIs, Offsets
    <3>2. Len(log) = Off(Len(parsed))
      BY <2>1, <3>1 DEF Left
    <3>3. Off(Len(parsed)) <= Len(log)
      BY <3>1, <3>2
    <3>4. Off(Len(parsed)) < Len(log)
      BY <1>2, <3>1, <3>3, MidGoesOn
    <3> QED  BY <3>1, <3>2, <3>4
  <2>3. way = "event2"
    BY <1>1, <1>6, <2>1, <2>2
  <2>4. stage' = "ok" /\ UNCHANGED <<way, at, entry, sizes, parsed>>
    BY <1>8, <2>3 DEF Finish
  <2>5. Kept' /\ Outcome'
    BY <1>1, <1>2, <1>6, <2>1, <2>4, Finishes
  <2>6. AgileReading'
    BY <1>1, <2>4 DEF AgileReading
  <2> QED  BY <2>5, <2>6
<1>9. CASE Event1Entry
  <2>1. stage = "head" /\ Left > 0 /\ way = "event1"
    BY <1>1, <1>9 DEF Event1Entry, ReadsEvent1
  <2>2. /\ Mid /\ Begun /\ at = Off(Len(parsed)) /\ Len(parsed) < Len(Entries) /\ AtEntry
        /\ Len(parsed) \in 0 .. Len(Entries) /\ Len(parsed) <= 1
    BY <1>6, <1>7, <2>1
  <2>3. CASE Len(parsed) = 0
    <3>1. AsEvent1(0 + 1) /\ Sha1Event(Entries[0 + 1])
      BY HeaderOne DEF AsEvent1
    <3>2. at <= Len(log)
      BY <1>1, FileIs
    <3>3. \/ /\ AtEntry' /\ parsed' = SubSeq(Entries, 1, 0 + 1) /\ at' \in 0 .. Len(log)
             /\ UNCHANGED <<way, stage, entry>>
          \/ Mid /\ Abandon
      BY <1>2, <1>9, <2>2, <2>3, <3>1, <3>2, Event1Step
    <3>4. Len(SubSeq(Entries, 1, 0 + 1)) = 0 + 1 /\ Len(<<>>) = 0
      BY <2>2, <2>3, LoggedOne
    <3>5. 0 + 1 # 0 /\ 0 + 1 <= 1
      OBVIOUS
    <3>6. CASE /\ AtEntry' /\ parsed' = SubSeq(Entries, 1, 0 + 1) /\ at' \in 0 .. Len(log)
               /\ UNCHANGED <<way, stage, entry>>
      <4>1. parsed' # <<>> /\ Len(parsed') <= 1
        BY <3>4, <3>5, <3>6, Zenon
      <4>2. (Len(parsed) <= 1)' /\ ~(parsed = <<>>)'
        BY <4>1
      <4> QED  BY <1>3, <2>1, <2>2, <3>6, <4>2 DEF Kept, AgileReading, Outcome
    <3> QED  BY <1>4, <3>3, <3>6
  <2>4. CASE Len(parsed) # 0
    <3>1. parsed # <<>>
      <4>1. Len(<<>>) = 0
        OBVIOUS
      <4> QED  BY <2>4, <4>1
    <3>2. ~AsEvent1(Len(parsed) + 1) /\ Body(NextOne)
      BY <2>2, <3>1, AgileNextOne
    <3>3. ~Zeroed(Len(parsed) + 1)
      <4>1. \A m \in Nat : m # 0 /\ m <= 1 => m + 1 = 2
        OBVIOUS
      <4>2. Len(parsed) \in Nat
        BY <2>2, SourceIs
      <4>3. Len(parsed) + 1 = FirstEntry
        BY <2>2, <2>4, <4>1, <4>2 DEF FirstEntry
      <4> QED  BY <2>2, <2>4, <4>3, NotMisled
    <3>4. Abandon
      BY <1>2, <1>9, <2>2, <3>2, <3>3, Event1Refuses
    <3> QED  BY <1>4, <2>2, <3>4
  <2> QED  BY <2>3, <2>4
<1>10. CASE Event2Head
  <2>1. stage = "head" /\ Left > 0 /\ way = "event2" /\ at = 0 /\ parsed = <<>> /\ Mid
    BY <1>1, <1>6, <1>7, <1>10 DEF Event2Head, ReadsEvent2
  <2>2. Left = Len(log) - 0 /\ Len(log) \in Nat /\ Cell(2) = log[2] /\ Cell(3) = log[3]
    BY <2>1, FileIs DEF Left, Cell
  <2>3. CASE /\ Left >= 3 /\ Cell(3) <= MAX_DIGEST_COUNT
             /\ entry' = [NoEntry EXCEPT !.pcr = Cell(1), !.type = Cell(2), !.count = Cell(3),
                                         !.start = at + 3]
             /\ at' = at + 3 /\ stage' = "digests"
             /\ UNCHANGED <<way, sizes, parsed>>
    <3>1. Len(log) \in Nat /\ Len(log) >= 3
      BY <2>2, <2>3
    <3>2. 2 <= Len(log) /\ 3 <= Len(log) /\ 3 \in 0 .. Len(log) /\ 0 + 3 = 3
      BY <3>1
    <3>3. Cell(2) = SPEC_ID_EVENT_TYPE /\ Cell(3) = 0
      BY <2>2, <3>2, HeaderCells
    <3>4. entry'.count = 0 /\ entry'.digests = <<>> /\ entry'.type = SPEC_ID_EVENT_TYPE /\ at' = 3
      BY <2>1, <2>3, <3>2, <3>3 DEF NoEntry
    <3> QED  BY <1>1, <1>3, <2>1, <2>3, <3>2, <3>4 DEF Kept, AgileReading, Outcome
  <2>4. CASE Abandon
    BY <1>4, <2>1, <2>4
  <2> HIDE DEF Abandon
  <2> QED  BY <1>10, <2>3, <2>4 DEF Event2Head
<1>11. ~ReadDigest
  <2> SUFFICES ASSUME ReadDigest PROVE FALSE
    OBVIOUS
  <2>1. stage = "digests" /\ Len(entry.digests) < entry.count
    BY DEF ReadDigest
  <2>2. Len(<<>>) = 0 /\ ~(0 < 0)
    OBVIOUS
  <2> QED  BY <1>1, <2>1, <2>2
<1>12. CASE Event2Tail
  <2>1. stage = "digests" /\ Mid /\ at = 3 /\ entry.type = SPEC_ID_EVENT_TYPE
    BY <1>1, <1>12 DEF Event2Tail
  <2>2. Left = Len(log) - 3 /\ Len(log) \in Nat /\ Cell(1) = log[4]
    BY <2>1, FileIs DEF Left, Cell
  <2>3. Left > 0 => Cell(1) = 0 /\ DataFits
    <3> SUFFICES ASSUME Left > 0 PROVE Cell(1) = 0 /\ DataFits
      OBVIOUS
    <3>1. Left \in Nat /\ 4 <= Len(log) /\ Left >= 0 + 1
      BY <2>2
    <3>2. Cell(1) = 0
      BY <2>2, <3>1, HeaderCells
    <3> QED  BY <3>1, <3>2 DEF DataFits, MAX_EVENT_DATA_SIZE
  <2>4. Left <= 0 => ~DataFits
    BY <2>2 DEF DataFits
  <2>5. Left > 0 \/ Left <= 0
    BY <2>2
  <2>6. Abandon
    <3> HIDE DEF Abandon
    <3> QED  BY <1>12, <2>1, <2>3, <2>4, <2>5 DEF Event2Tail, Again
  <2> QED  BY <1>4, <2>1, <2>6
<1>13. CASE JsonEntry
  <2>1. stage = "head" /\ Left > 0 /\ way = "json"
    BY <1>13 DEF JsonEntry
  <2>2. Mid /\ at = 0 /\ log # <<>>
    BY <1>6, <2>1 DEF Mid
  <2>3. Abandon
    BY <1>2, <1>13, <2>2, JsonRefuses
  <2> QED  BY <1>4, <2>2, <2>3
<1> QED  BY <1>8, <1>9, <1>10, <1>11, <1>12, <1>13 DEF Step

LEMMA AgileNext ==
  ASSUME Stored, Clear, source.format = "agile", Kept, AgileReading, Step
  PROVE  Kept' /\ AgileReading' /\ Outcome'
BY AgileSpec, AgileOther

-----------------------------------------------------------------------------
(***************************************************************************)
(* The SHA-1 entries of TPM 1.2, without a header: the first reading is    *)
(* theirs, and the third.                                                  *)
(***************************************************************************)
LEMMA LegacyOne ==
  ASSUME Stored, source.format = "legacy", NEW k \in 1 .. Len(Entries)
  PROVE  /\ AsEvent1(k) /\ Sha1Event(Entries[k]) /\ ~IsSpecId(Entries[k].data)
         /\ LET g == Entries[k].digests[1].digest
            IN /\ g \in Seq(Nat) /\ Len(g) = 4
               /\ \/ g[1] \in {4, Random} /\ g[2] = Random /\ g[3] = Random
                  \/ g[1] = 0 /\ g[2] = 0 /\ Entries[k].type = SPEC_ID_EVENT_TYPE
<1> DEFINE e == Entries[k]
           x == e.digests[1]
           g == x.digest
<1>1. Digested(e) /\ Body(e) /\ Len(e.digests) = 1 /\ x.alg = Sha1
  BY SourceIs DEF LegacyEvents, Digested
<1>2. e = TcgEvent(7, e.type, e.digests, e.data) /\ e \in EventSet /\ e.data \in {<<>>, <<Random>>}
  BY <1>1 DEF Body
<1>3. 1 \in 1 .. Len(e.digests)
  BY <1>1
<1>4. PICK first \in {0, Random, Written(x.alg)} :
        x.digest = DigestCells(x.alg, first) /\ (first = 0 => e.type = SPEC_ID_EVENT_TYPE)
  BY <1>1, <1>3 DEF Digested, Body
<1>5. Written(Sha1) = 4
  BY DEF Written, DigestLen, Sha1
<1>6. first \in {0, 4, Random} /\ first \in Nat
  <2>1. Random \in Nat /\ 4 \in Nat
    BY DEF Random
  <2> QED  BY <1>1, <1>4, <1>5, <2>1
<1>7. /\ g \in Seq(Nat) /\ Len(g) = 4 /\ g[1] = first
      /\ \A i \in 2 .. 4 : g[i] = IF first = 0 THEN 0 ELSE Random
  <2> DEFINE d == DigestCells(Sha1, first)
  <2>1. d \in Seq(Nat) /\ Len(d) = Written(Sha1) /\ d[1] = first
         /\ \A i \in 2 .. Written(Sha1) : d[i] = IF first = 0 THEN 0 ELSE Random
    BY <1>6, DigestCellsAre
  <2>2. g = d
    BY <1>1, <1>4
  <2> HIDE DEF d, g
  <2> QED  BY <1>5, <2>1, <2>2
<1>8. e.digests = <<Digest(Sha1, g)>>
  <2>1. PICK T : T = DigestSet
    OBVIOUS
  <2>2. e.digests \in Seq(T)
    BY <1>2, <2>1 DEF EventSet
  <2>3. x \in DigestSet
    <3>1. e.digests[1] \in T
      BY <1>3, <2>2, ElementOfSeq
    <3> QED  BY <2>1, <3>1
  <2>4. x = Digest(Sha1, g)
    BY <1>1, <2>3 DEF DigestSet, Digest
  <2>5. \A s \in Seq(T) : Len(s) = 1 => s = <<s[1]>>
    OBVIOUS
  <2> HIDE DEF x, e
  <2>6. e.digests = <<x>>
    BY <1>1, <2>2, <2>5, Zenon DEF x
  <2> QED  BY <2>4, <2>6
<1>9. Len(e.data) <= MAX_EVENT_DATA_SIZE
  <2>1. Len(<<>>) <= 80 /\ Len(<<Random>>) <= 80
    OBVIOUS
  <2> QED  BY <1>2, <2>1, Zenon DEF MAX_EVENT_DATA_SIZE
<1>10. Sha1Event(e)
  <2>1. e = TcgEvent(e.pcr, e.type, <<Digest(Sha1, g)>>, e.data)
    <3>1. e.pcr = 7
      BY <1>2 DEF TcgEvent
    <3> HIDE DEF e, g
    <3> QED  BY <1>2, <1>8, <3>1
  <2> HIDE DEF e, g
  <2> QED  BY <1>1, <1>7, <1>9, <2>1 DEF Sha1Event
<1>11. ~IsSpecId(e.data)
  BY <1>1, PlainData
<1>12. 2 \in 2 .. 4 /\ 3 \in 2 .. 4
  OBVIOUS
<1> HIDE DEF e, x, g
<1>13. \/ g[1] \in {4, Random} /\ g[2] = Random /\ g[3] = Random
       \/ g[1] = 0 /\ g[2] = 0 /\ e.type = SPEC_ID_EVENT_TYPE
  BY <1>4, <1>6, <1>7, <1>12
<1> QED  BY <1>7, <1>10, <1>11, <1>13 DEF AsEvent1, e, x, g

\* The cells of the first digest, read as a crypto-agile entry.
LEMMA LegacyCells ==
  ASSUME Stored, source.format = "legacy", 0 < Len(Entries)
  PROVE  \/ /\ 3 <= Len(log) => log[3] \in {4, Random}
            /\ 4 <= Len(log) => log[4] = Random
            /\ 5 <= Len(log) => log[5] = Random
         \/ /\ 2 <= Len(log) => log[2] = SPEC_ID_EVENT_TYPE
            /\ 3 <= Len(log) => log[3] = 0
            /\ 4 <= Len(log) => log[4] = 0
<1> DEFINE e == Entries[1]
           g == e.digests[1].digest
<1>1. 1 \in 1 .. Len(Entries) /\ 0 \in 0 .. Len(Entries) /\ 0 + 1 = 1 /\ e \in EventSet
  BY SourceIs, PartsAre
<1>2. /\ AsEvent1(1) /\ Sha1Event(e) /\ g \in Seq(Nat) /\ Len(g) = 4
      /\ \/ g[1] \in {4, Random} /\ g[2] = Random /\ g[3] = Random
         \/ g[1] = 0 /\ g[2] = 0 /\ e.type = SPEC_ID_EVENT_TYPE
  BY <1>1, LegacyOne
<1>3. Len(e.digests) > 0
  <2>1. Len(e.digests) = 1
    BY <1>2 DEF Sha1Event
  <2> QED  BY <2>1
<1>4. log \in Seq(Nat) /\ Ahead(log, 0, Event1Cells(e))
  <2>1. Ahead(log, Off(0), Parts[0 + 1]) /\ Off(0) = 0
    BY <1>1, FileIs, Offsets
  <2>2. Parts[1] = Event1Cells(e)
    BY <1>1, <1>2, PartsAre DEF AsEvent1
  <2> QED  BY <1>1, <2>1, <2>2, FileIs
<1>5. PICK h \in Seq(Nat) : h = g
  BY <1>2
<1> HIDE DEF e
<1>6. Ahead(log, 2, h) /\ Ahead(log, 0, <<e.pcr, e.type>>)
  <2>1. Ahead(log, 0 + 2, h) /\ Ahead(log, 0, <<e.pcr, e.type>>)
    BY <1>1, <1>3, <1>4, <1>5, Event1Ahead
  <2> QED  BY <2>1
<1>7. 1 \in 1 .. 4 /\ 2 \in 1 .. 4 /\ 3 \in 1 .. 4 /\ 2 + 1 = 3 /\ 2 + 2 = 4 /\ 2 + 3 = 5
  OBVIOUS
<1>8. 2 <= Len(log) => log[2] = e.type
  <2>1. Len(<<e.pcr, e.type>>) = 2 /\ <<e.pcr, e.type>>[2] = e.type /\ 0 + 2 = 2 /\ 2 \in 1 .. 2
    OBVIOUS
  <2> QED  BY <1>6, <2>1 DEF Ahead
<1> HIDE DEF g
<1>9. /\ 3 <= Len(log) => log[3] = h[1]
      /\ 4 <= Len(log) => log[4] = h[2]
      /\ 5 <= Len(log) => log[5] = h[3]
  BY <1>2, <1>5, <1>6, <1>7 DEF Ahead
<1> QED  BY <1>2, <1>5, <1>8, <1>9

LEMMA LegacyIsNotAgile ==
  ASSUME Stored, source.format = "legacy", Begun
  PROVE  ~Agile
<1> SUFFICES ASSUME parsed # <<>> PROVE ~IsSpecId(parsed[1].data)
  BY DEF Agile
<1> DEFINE n == Len(parsed)
<1>1. n \in 0 .. Len(Entries) /\ Entries \in Seq(EventSet) /\ parsed = SubSeq(Entries, 1, n)
      /\ Len(Entries) \in Nat
  BY SourceIs DEF Begun
<1>2. n # 0
  <2>1. SubSeq(Entries, 1, 0) = <<>>
    BY SubSeqEmpty
  <2> QED  BY <1>1, <2>1
<1>3. \A i \in 1 .. n : SubSeq(Entries, 1, n)[i] = Entries[i]
  <2> HIDE DEF n
  <2> QED  BY <1>1, Firsts
<1>4. 1 \in 1 .. n /\ 1 \in 1 .. Len(Entries)
  <2>1. \A l \in Nat : \A m \in 0 .. l : m # 0 => 1 \in 1 .. m /\ 1 \in 1 .. l
    OBVIOUS
  <2> QED  BY <1>1, <1>2, <2>1, Zenon
<1>5. parsed[1] = Entries[1]
  BY <1>1, <1>3, <1>4
<1> QED  BY <1>4, <1>5, LegacyOne

LEMMA LegacyAbandons ==
  ASSUME Stored, source.format = "legacy", Kept, Abandon, UNCHANGED <<source, log>>,
         log = <<>> \/ Mid, way # "spec" => Mid
  PROVE  Kept' /\ LegacyReading' /\ Outcome'
<1>1. /\ Kept' /\ Outcome' /\ Nothing' /\ AtEntry'
      /\ way = "spec" => stage' = "head" /\ way' = "event2"
      /\ way = "event2" => stage' = "head" /\ way' = "event1"
      /\ way = "event1" => stage' = "head" /\ way' = "json"
      /\ way = "json" => stage' = "err" /\ way' = "json"
  BY Refused
<1>2. way \in {"spec", "event2", "event1", "json"} /\ (Mid <=> Mid') /\ log' = log
  BY SameFile DEF Kept
<1> QED  BY <1>1, <1>2 DEF LegacyReading

LEMMA LegacyNext ==
  ASSUME Stored, Clear, source.format = "legacy", Kept, LegacyReading, Step
  PROVE  Kept' /\ LegacyReading' /\ Outcome'
<1>1. /\ stage = "head" => CASE way = "spec" -> AtEntry
                          [] way = "event2" -> Nothing /\ (log = <<>> \/ Mid)
                          [] way = "event1" -> AtEntry /\ Mid
                          [] way = "json" -> Nothing /\ Mid
      /\ stage = "digests" => /\ way = "event2" /\ Mid /\ at = 3 /\ entry.digests = <<>>
                           /\ 3 <= Len(log) /\ entry.count = log[3] /\ entry.type = log[2]
                           /\ parsed = <<>> /\ sizes = <<>>
      /\ at \in 0 .. Len(log) /\ way \in {"spec", "event2", "event1", "json"}
  BY DEF LegacyReading, Kept
<1>2. UNCHANGED <<source, log>> /\ source.format # "json"
  BY DEF Step, Finish, Event1Entry, Event2Head, ReadDigest, Event2Tail, JsonEntry
<1>3. (Mid <=> Mid') /\ source' = source /\ log' = log
  BY <1>2, SameFile
<1>4. ASSUME Abandon, log = <<>> \/ Mid, way # "spec" => Mid PROVE Kept' /\ LegacyReading' /\ Outcome'
  BY <1>2, <1>4, LegacyAbandons
<1>5. Nothing => AtEntry /\ at = 0 /\ parsed = <<>> /\ sizes = <<>>
  BY NothingRead
<1>6. stage = "head" => AtEntry /\ (way # "spec" => log = <<>> \/ Mid) /\ (way \in {"event1", "json"} => Mid)
                     /\ (way \in {"event2", "json"} => at = 0 /\ parsed = <<>> /\ sizes = <<>>)
  BY <1>1, <1>5
<1>7. ASSUME stage = "head"
      PROVE  /\ Len(parsed) \in 0 .. Len(Entries) /\ at = Off(Len(parsed)) /\ ~Agile
             /\ Left > 0 => Len(parsed) < Len(Entries) /\ log # <<>>
  BY <1>2, <1>6, <1>7, AtEntryIs, LegacyIsNotAgile DEF AtEntry
<1>8. CASE Finish
  <2>1. stage = "head" /\ Left = 0
    BY <1>8 DEF Finish
  <2>2. Len(parsed) \in 0 .. Len(Entries) /\ Len(log) \in Nat /\ log \in Seq(Nat) /\ Off(Len(parsed)) \in Nat
        /\ at = Off(Len(parsed)) /\ at \in Nat
    BY <1>7, <2>1, FileIs, Offsets
  <2>3. Len(log) = at
    BY <2>1, <2>2 DEF Left
  <2>4. ~Mid
    <3> SUFFICES ASSUME Mid PROVE FALSE
      OBVIOUS
    <3>1. Off(Len(parsed)) <= Len(log)
      BY <2>2, <2>3
    <3>2. Off(Len(parsed)) < Len(log)
      BY <1>2, <2>2, <3>1, MidGoesOn
    <3> QED  BY <2>2, <2>3, <3>2
  <2>5. way \in {"spec", "event2"}
    BY <1>1, <1>6, <2>1, <2>4
  <2>6. CASE way = "spec" /\ parsed = <<>>
    <3>1. Abandon
      BY <1>8, <2>6 DEF Finish
    <3>2. log = <<>>
      <4>1. Off(0) = 0 /\ Len(<<>>) = 0
        BY Offsets
      <4>2. Len(log) = 0
        BY <2>2, <2>3, <2>6, <4>1
      <4> QED  BY <2>2, <4>2, EmptySeq
    <3> QED  BY <1>4, <2>6, <3>1, <3>2
  <2>7. CASE ~(way = "spec" /\ parsed = <<>>)
    <3>1. stage' = "ok" /\ UNCHANGED <<way, at, entry, sizes, parsed>>
      BY <1>8, <2>5, <2>7 DEF Finish
    <3>2. Kept' /\ Outcome'
      BY <1>1, <1>2, <1>6, <2>1, <3>1, Finishes
    <3>3. LegacyReading'
      BY <3>1 DEF LegacyReading
    <3> QED  BY <3>2, <3>3
  <2> QED  BY <2>6, <2>7
<1>9. CASE Event1Entry
  <2>1. stage = "head" /\ Left > 0 /\ way \in {"spec", "event1"}
    BY <1>9 DEF Event1Entry, ReadsEvent1
  <2>2. AtEntry /\ Len(parsed) \in 0 .. Len(Entries) /\ Len(parsed) < Len(Entries) /\ at <= Len(log)
    BY <1>1, <1>6, <1>7, <2>1, FileIs
  <2>3. Len(parsed) + 1 \in 1 .. Len(Entries)
    BY <2>2, LoggedOne
  <2>4. AsEvent1(Len(parsed) + 1) /\ Sha1Event(Entries[Len(parsed) + 1])
    BY <2>3, LegacyOne
  <2>5. \/ AtEntry' /\ at' \in 0 .. Len(log) /\ UNCHANGED <<way, stage, entry>>
        \/ Mid /\ Abandon
    BY <1>2, <1>9, <2>2, <2>4, Event1Step
  <2>6. CASE AtEntry' /\ at' \in 0 .. Len(log) /\ UNCHANGED <<way, stage, entry>>
    BY <1>1, <1>3, <2>1, <2>6 DEF Kept, LegacyReading, Outcome
  <2> QED  BY <1>4, <2>5, <2>6
<1>10. CASE Event2Head
  <2>1. stage = "head" /\ Left > 0 /\ way = "event2"
    BY <1>7, <1>10 DEF Event2Head, ReadsEvent2
  <2>2. Mid /\ at = 0 /\ parsed = <<>> /\ sizes = <<>> /\ Len(parsed) < Len(Entries)
    BY <1>6, <1>7, <2>1
  <2>3. Left = Len(log) - 0 /\ Len(log) \in Nat /\ Cell(2) = log[2] /\ Cell(3) = log[3]
    BY <2>2, FileIs DEF Left, Cell
  <2>4. CASE /\ Left >= 3 /\ Cell(3) <= MAX_DIGEST_COUNT
             /\ entry' = [NoEntry EXCEPT !.pcr = Cell(1), !.type = Cell(2), !.count = Cell(3),
                                         !.start = at + 3]
             /\ at' = at + 3 /\ stage' = "digests"
             /\ UNCHANGED <<way, sizes, parsed>>
    <3>1. 3 <= Len(log) /\ 3 \in 0 .. Len(log) /\ 0 + 3 = 3
      BY <2>3, <2>4
    <3>2. entry'.count = log[3] /\ entry'.type = log[2] /\ entry'.digests = <<>> /\ at' = 3
      BY <2>2, <2>3, <2>4, <3>1 DEF NoEntry
    <3> QED  BY <1>3, <2>1, <2>2, <2>4, <3>1, <3>2 DEF Kept, LegacyReading, Outcome
  <2>5. CASE Abandon
    BY <1>4, <2>2, <2>5
  <2> HIDE DEF Abandon
  <2> QED  BY <1>10, <2>4, <2>5 DEF Event2Head
<1>11. CASE ReadDigest
  <2>1. stage = "digests" /\ Mid /\ at = 3 /\ sizes = <<>> /\ way = "event2"
    BY <1>1, <1>11 DEF ReadDigest
  <2>2. Len(log) \in Nat /\ Left = Len(log) - 3 /\ Cell(1) = log[4] /\ Cell(2) = log[5]
    BY <2>1, FileIs DEF Left, Cell
  <2>3. 0 < Len(Entries)
    <3>1. 0 \in 0 .. Len(Entries) /\ Off(0) = 0 /\ 0 <= Len(log)
      BY <2>2, Offsets, SourceIs
    <3> QED  BY <1>2, <2>1, <3>1, MidGoesOn
  <2>4. /\ 4 <= Len(log) => log[4] = Random
        /\ 5 <= Len(log) => log[5] = Random
    <3>1. 0 < log[3] /\ 3 <= Len(log)
      <4>1. Len(entry.digests) < entry.count /\ Len(<<>>) = 0
        BY <1>11 DEF ReadDigest
      <4> QED  BY <1>1, <2>1, <4>1
    <3> QED  BY <2>3, <3>1, LegacyCells
  <2>5. Left < 998
    <3>1. Len(log) <= Len(Entire) /\ Len(Entire) < Random - 1 /\ Len(Entire) \in Nat
      BY <1>2, FileIs, SourceIs, Offsets, LenProperties
    <3> QED  BY <2>2, <3>1 DEF Random
  <2>6. Left > 0 => LenForAlg(Cell(1)) = 0
    <3> SUFFICES ASSUME Left > 0 PROVE LenForAlg(Cell(1)) = 0
      OBVIOUS
    <3>1. 4 <= Len(log)
      BY <2>2
    <3>2. Cell(1) = Random
      BY <2>2, <2>4, <3>1
    <3>3. DOMAIN sizes = {}
      BY <2>1
    <3> QED  BY <3>2, <3>3 DEF LenForAlg, DigestLen, Random, Sha1, Sha256
  <2>7. Left >= 2 => ~(Cell(2) <= Left - 2)
    <3> SUFFICES ASSUME Left >= 2 PROVE ~(Cell(2) <= Left - 2)
      OBVIOUS
    <3>1. 5 <= Len(log)
      BY <2>2
    <3>2. Cell(2) = Random
      BY <2>2, <2>4, <3>1
    <3> QED  BY <2>2, <2>5, <3>2 DEF Random
  <2>8. Left \in Nat
    <3>1. 3 \in 0 .. Len(log)
      BY <1>1, <2>1
    <3> QED  BY <2>2, <3>1
  <2>9. Abandon
    <3>1. CASE Left = 0
      <4> HIDE DEF Abandon
      <4> QED  BY <1>11, <3>1 DEF ReadDigest
    <3>2. CASE Left # 0
      <4>1. Left > 0 /\ (Left < 2 \/ Left >= 2)
        BY <2>8, <3>2
      <4>2. IF Left < 2 THEN Abandon ELSE TakeDigest(2, Cell(2))
        <5> HIDE DEF Abandon, TakeDigest
        <5> QED  BY <1>11, <2>6, <3>2, <4>1 DEF ReadDigest
      <4>3. Left >= 2 /\ TakeDigest(2, Cell(2)) => Abandon
        <5> HIDE DEF Abandon
        <5> QED  BY <2>7 DEF TakeDigest
      <4> HIDE DEF Abandon, TakeDigest
      <4> QED  BY <4>1, <4>2, <4>3
    <3> QED  BY <3>1, <3>2
  <2> QED  BY <1>4, <2>1, <2>9
<1>12. CASE Event2Tail
  <2>1. stage = "digests" /\ Mid /\ at = 3 /\ 3 <= Len(log)
        /\ entry.count = log[3] /\ entry.type = log[2] /\ Len(entry.digests) = entry.count
    BY <1>1, <1>12 DEF Event2Tail
  <2>2. Left = Len(log) - 3 /\ Len(log) \in Nat /\ Cell(1) = log[4]
    BY <2>1, FileIs DEF Left, Cell
  <2>3. 0 < Len(Entries)
    <3>1. 0 \in 0 .. Len(Entries) /\ Off(0) = 0 /\ 0 <= Len(log)
      BY <2>2, Offsets, SourceIs
    <3> QED  BY <1>2, <2>1, <3>1, MidGoesOn
  <2>4. log[3] = 0
    <3>1. Len(<<>>) = 0
      OBVIOUS
    <3> QED  BY <1>1, <2>1, <3>1
  <2>5. entry.type = SPEC_ID_EVENT_TYPE /\ (4 <= Len(log) => log[4] = 0)
    <3>1. ~(log[3] \in {4, Random}) /\ 2 <= Len(log)
      BY <2>1, <2>2, <2>4 DEF Random
    <3> QED  BY <2>1, <2>3, <3>1, LegacyCells
  <2>6. Left > 0 => Cell(1) = 0 /\ DataFits
    <3> SUFFICES ASSUME Left > 0 PROVE Cell(1) = 0 /\ DataFits
      OBVIOUS
    <3>1. Left \in Nat /\ 4 <= Len(log) /\ Left >= 0 + 1
      BY <2>2
    <3>2. Cell(1) = 0
      BY <2>2, <2>5, <3>1
    <3> QED  BY <3>1, <3>2 DEF DataFits, MAX_EVENT_DATA_SIZE
  <2>7. Left <= 0 => ~DataFits
    BY <2>2 DEF DataFits
  <2>8. Left > 0 \/ Left <= 0
    BY <2>2
  <2>9. Abandon
    <3> HIDE DEF Abandon
    <3> QED  BY <1>12, <2>5, <2>6, <2>7, <2>8 DEF Event2Tail, Again
  <2> QED  BY <1>4, <2>1, <2>9
<1>13. CASE JsonEntry
  <2>1. stage = "head" /\ Left > 0 /\ way = "json"
    BY <1>13 DEF JsonEntry
  <2>2. Mid /\ at = 0 /\ log # <<>>
    BY <1>6, <2>1 DEF Mid
  <2>3. Abandon
    BY <1>2, <1>13, <2>2, JsonRefuses
  <2> QED  BY <1>4, <2>2, <2>3
<1> QED  BY <1>8, <1>9, <1>10, <1>11, <1>12, <1>13 DEF Step

-----------------------------------------------------------------------------
(***************************************************************************)
(* Lines of JSON: a cell each, and no cell of an entry.                    *)
(***************************************************************************)
LEMMA Lines ==
  ASSUME NEW ss \in Seq(Seq(Nat)), \A i \in 1 .. Len(ss) : Len(ss[i]) = 1
  PROVE  /\ FlattenSeq(ss) \in Seq(Nat) /\ Len(FlattenSeq(ss)) = Len(ss)
         /\ \A k \in 1 .. Len(ss) : FlattenSeq(ss)[k] = ss[k][1]
<1> DEFINE w == FlattenSeq(ss)
<1>1. Len(ss) \in Nat /\ w = Upto(ss, Len(ss)) /\ w \in Seq(Nat)
  BY UptoAll, FlattenHolds
<1>2. \A n \in 0 .. Len(ss) : Len(Upto(ss, n)) = n
  BY UptoEven
<1>3. ASSUME NEW k \in 1 .. Len(ss) PROVE w[k] = ss[k][1]
  <2>1. PICK n \in Nat : n + 1 = k /\ n \in 0 .. Len(ss) /\ n < Len(ss)
    <3>1. k - 1 \in Nat /\ (k - 1) + 1 = k /\ k - 1 \in 0 .. Len(ss) /\ k - 1 < Len(ss)
      BY <1>1
    <3> QED  BY <3>1
  <2>2. \A i \in 1 .. Len(ss[n + 1]) : w[Len(Upto(ss, n)) + i] = ss[n + 1][i]
    BY <2>1, FlattenHolds
  <2>3. 1 \in 1 .. Len(ss[n + 1])
    <3>1. Len(ss[n + 1]) = 1 /\ 1 \in 1 .. 1
      BY <2>1
    <3> QED  BY <3>1, Zenon
  <2>4. Len(Upto(ss, n)) = n
    BY <1>2, <2>1
  <2> HIDE DEF w
  <2> QED  BY <2>1, <2>2, <2>3, <2>4
<1>4. Len(w) = Len(ss)
  BY <1>1, <1>2
<1> QED  BY <1>1, <1>3, <1>4

LEMMA JsonLines ==
  ASSUME Stored, source.format = "json"
  PROVE  /\ Len(Parts) = Len(Entries) /\ Parts \in Seq(Seq(Nat)) /\ Len(Entries) \in Nat
         /\ \A k \in 1 .. Len(Entries) :
              Len(Parts[k]) = 1 /\ \E i \in {0, 11} : Entries[k] = JsonEvent(i) /\ Parts[k][1] = JsonLine(i)
         /\ Len(Entire) = Len(Entries) /\ Entire \in Seq(Nat)
         /\ \A k \in 1 .. Len(Entries) : Entire[k] = Parts[k][1]
         /\ \A n \in 0 .. Len(Entries) : Off(n) = n
<1>1. Len(Parts) = Len(Entries) /\ Parts \in Seq(Seq(Nat)) /\ Len(Entries) \in Nat
  BY PartsAre, SourceIs
<1>2. ASSUME NEW k \in 1 .. Len(Entries)
      PROVE  Len(Parts[k]) = 1 /\ \E i \in {0, 11} : Entries[k] = JsonEvent(i) /\ Parts[k][1] = JsonLine(i)
  <2>1. PICK i \in {0, 11} : Entries[k] = JsonEvent(i)
    BY SourceIs DEF JsonEvents
  <2>2. Entries[k].pcr = i
    <3>1. i \in Nat
      OBVIOUS
    <3> QED  BY <2>1, <3>1, JsonEventIs
  <2>3. Parts[k] = <<JsonLine(i)>>
    BY <2>2, PartsAre
  <2> QED  BY <2>1, <2>3
<1>3. Entire = FlattenSeq(Parts)
  BY DEF Entire, Whole, Parts
<1>4. \A k \in 1 .. Len(Parts) : Len(Parts[k]) = 1
  BY <1>1, <1>2
<1>5. /\ Len(Entire) = Len(Entries) /\ Entire \in Seq(Nat)
      /\ \A k \in 1 .. Len(Entries) : Entire[k] = Parts[k][1]
  BY <1>1, <1>3, <1>4, Lines
<1>6. \A n \in 0 .. Len(Entries) : Off(n) = n
  BY <1>1, <1>4, UptoEven DEF Off
<1> QED  BY <1>1, <1>2, <1>5, <1>6

\* The file: the first lines, and perhaps one cut within.
LEMMA JsonFile ==
  ASSUME Stored, source.format = "json"
  PROVE  \E cut \in 0 .. Len(Entries) :
           /\ \A k \in 1 .. cut : log[k] = Entire[k]
           /\ Len(log) = cut \/ (Len(log) = cut + 1 /\ log[cut + 1] = TornLine)
<1>1. Len(Entire) = Len(Entries) /\ Entire \in Seq(Nat)
  BY JsonLines
<1>2. PICK cut \in 0 .. Len(Entries) :
        log = SubSeq(Entire, 1, cut) \/ log = SubSeq(Entire, 1, cut) \o <<TornLine>>
  BY <1>1, SourceIs
<1> DEFINE kept == SubSeq(Entire, 1, cut)
<1>3. kept \in Seq(Nat) /\ Len(kept) = cut /\ \A i \in 1 .. cut : kept[i] = Entire[i]
  BY <1>1, Firsts
<1>4. PICK t \in Seq(Nat) : t = <<TornLine>> /\ Len(t) = 1 /\ t[1] = TornLine
  <2>1. <<TornLine>> \in Seq(Nat)
    BY DEF TornLine
  <2> QED  BY <2>1
<1>5. cut \in Nat
  OBVIOUS
<1> HIDE DEF kept
<1>6. Len(kept \o t) = cut + 1 /\ \A i \in 1 .. cut + 1 :
            (kept \o t)[i] = IF i <= cut THEN kept[i] ELSE t[i - cut]
  <2>1. /\ Len(kept \o t) = Len(kept) + Len(t)
        /\ \A i \in 1 .. Len(kept) + Len(t) :
             (kept \o t)[i] = IF i <= Len(kept) THEN kept[i] ELSE t[i - Len(kept)]
    BY <1>3, <1>4, ConcatProperties
  <2> QED  BY <1>3, <1>4, <2>1
<1>7. /\ \A i \in 1 .. cut : i \in 1 .. cut + 1 /\ i <= cut
      /\ cut + 1 \in 1 .. cut + 1 /\ ~(cut + 1 <= cut) /\ cut + 1 - cut = 1
  BY <1>5
<1>8. (kept \o t)[cut + 1] = TornLine /\ \A i \in 1 .. cut : (kept \o t)[i] = Entire[i]
  BY <1>3, <1>4, <1>6, <1>7
<1>9. log = kept \/ log = kept \o t
  BY <1>2, <1>4 DEF kept
<1> QED  BY <1>3, <1>6, <1>8, <1>9

\* The cells of the file, and where it ends.
LEMMA JsonCells ==
  ASSUME Stored, source.format = "json"
  PROVE  /\ log \in Seq(Nat) /\ Len(log) \in Nat /\ Len(Entries) \in Nat
         /\ \A n \in 0 .. Len(Entries) : Off(n) = n
         /\ \A k \in 1 .. Len(log) :
              \/ k <= Len(Entries) /\ \E i \in {0, 11} : log[k] = JsonLine(i) /\ Entries[k] = JsonEvent(i)
              \/ log[k] = TornLine
         /\ \A n \in 0 .. Len(Entries) :
              EndsAfter(n) <=> Len(log) = n /\ \A k \in 1 .. n : log[k] # TornLine
<1>1. /\ Len(Parts) = Len(Entries) /\ Parts \in Seq(Seq(Nat)) /\ Len(Entries) \in Nat
      /\ \A k \in 1 .. Len(Entries) :
           Len(Parts[k]) = 1 /\ \E i \in {0, 11} : Entries[k] = JsonEvent(i) /\ Parts[k][1] = JsonLine(i)
      /\ Len(Entire) = Len(Entries) /\ Entire \in Seq(Nat)
      /\ \A k \in 1 .. Len(Entries) : Entire[k] = Parts[k][1]
      /\ \A n \in 0 .. Len(Entries) : Off(n) = n
  BY JsonLines
<1>2. log \in Seq(Nat) /\ Len(log) \in Nat
  BY FileIs
<1>3. PICK cut \in 0 .. Len(Entries) :
        /\ \A k \in 1 .. cut : log[k] = Entire[k]
        /\ Len(log) = cut \/ (Len(log) = cut + 1 /\ log[cut + 1] = TornLine)
  BY JsonFile
<1>4. \A k \in 1 .. Len(log) :
        \/ k <= Len(Entries) /\ \E i \in {0, 11} : log[k] = JsonLine(i) /\ Entries[k] = JsonEvent(i)
        \/ log[k] = TornLine
  <2> TAKE k \in 1 .. Len(log)
  <2>1. (k \in 1 .. cut /\ k \in 1 .. Len(Entries) /\ k <= Len(Entries)) \/ (k = cut + 1 /\ Len(log) = cut + 1)
    BY <1>1, <1>2, <1>3
  <2>2. CASE k \in 1 .. cut /\ k \in 1 .. Len(Entries) /\ k <= Len(Entries)
    <3>1. log[k] = Parts[k][1]
      BY <1>1, <1>3, <2>2
    <3>2. PICK i \in {0, 11} : Entries[k] = JsonEvent(i) /\ Parts[k][1] = JsonLine(i)
      BY <1>1, <2>2
    <3> QED  BY <2>2, <3>1, <3>2, Zenon
  <2>3. CASE k = cut + 1 /\ Len(log) = cut + 1
    <3>1. Len(log) # cut
      BY <1>3, <2>3
    <3> QED  BY <1>3, <2>3, <3>1
  <2> QED  BY <2>1, <2>2, <2>3
<1>5. \A k \in 1 .. Len(Entries) : Parts[k][1] # TornLine
  <2> TAKE k \in 1 .. Len(Entries)
  <2>1. PICK i \in {0, 11} : Parts[k][1] = JsonLine(i)
    BY <1>1
  <2>2. JsonLine(i) # TornLine
    BY DEF JsonLine, TornLine
  <2> QED  BY <2>1, <2>2
<1>6. ASSUME NEW n \in 0 .. Len(Entries)
      PROVE  /\ Upto(Parts, n) \in Seq(Nat) /\ Len(Upto(Parts, n)) = n
             /\ \A k \in 1 .. n : Upto(Parts, n)[k] = Parts[k][1]
  <2>1. PICK T : T = Seq(Nat)
    OBVIOUS
  <2>2. /\ SubSeq(Parts, 1, n) \in Seq(T) /\ Len(SubSeq(Parts, 1, n)) = n
        /\ \A k \in 1 .. n : SubSeq(Parts, 1, n)[k] = Parts[k]
    BY <1>1, <2>1, Firsts
  <2>3. \A k \in 1 .. n : Len(SubSeq(Parts, 1, n)[k]) = 1
    BY <1>1, <2>2
  <2> QED  BY <2>1, <2>2, <2>3, Lines, ZenonT(60) DEF Upto
<1>7. ASSUME NEW n \in 0 .. Len(Entries)
      PROVE  EndsAfter(n) <=> Len(log) = n /\ \A k \in 1 .. n : log[k] # TornLine
  <2>1. EndsAfter(n) <=> log = Upto(Parts, n)
    BY EndsIs
  <2>2. \A k \in 1 .. n : k \in 1 .. Len(Entries)
    BY <1>1
  <2>3. ASSUME log = Upto(Parts, n) PROVE Len(log) = n /\ \A k \in 1 .. n : log[k] # TornLine
    BY <1>5, <1>6, <2>2, <2>3
  <2>4. ASSUME Len(log) = n, \A k \in 1 .. n : log[k] # TornLine PROVE log = Upto(Parts, n)
    <3>1. Len(log) = cut
      <4>1. ASSUME Len(log) = cut + 1, log[cut + 1] = TornLine PROVE FALSE
        <5>1. cut + 1 \in 1 .. n
          BY <1>3, <2>4, <4>1
        <5> QED  BY <2>4, <4>1, <5>1
      <4> QED  BY <1>3, <4>1
    <3>2. \A k \in 1 .. n : log[k] = Upto(Parts, n)[k]
      <4> TAKE k \in 1 .. n
      <4>1. k \in 1 .. cut /\ k \in 1 .. Len(Entries)
        BY <2>2, <2>4, <3>1
      <4>2. log[k] = Entire[k] /\ Entire[k] = Parts[k][1] /\ Upto(Parts, n)[k] = Parts[k][1]
        BY <1>1, <1>3, <1>6, <4>1
      <4> QED  BY <4>2
    <3> QED  BY <1>2, <1>6, <2>4, <3>2, SeqEqual
  <2> QED  BY <2>1, <2>3, <2>4
<1> QED  BY <1>1, <1>2, <1>4, <1>7

LEMMA JsonNext ==
  ASSUME Stored, source.format = "json", Kept, JsonReading, Step
  PROVE  Kept' /\ JsonReading' /\ Outcome'
<1>1. /\ stage # "digests" /\ at \in 0 .. Len(log) /\ way \in {"spec", "event2", "event1", "json"}
      /\ stage = "head" => IF way = "json" THEN /\ log # <<>> /\ AtEntry
                                             /\ \A k \in 1 .. at : log[k] # TornLine
                        ELSE Nothing /\ (way = "event1" => log # <<>>)
  BY DEF JsonReading, Kept
<1>2. UNCHANGED <<source, log>>
  BY DEF Step, Finish, Event1Entry, Event2Head, ReadDigest, Event2Tail, JsonEntry
<1>3. /\ (Mid <=> Mid') /\ source' = source /\ log' = log /\ Entries' = Entries /\ Len(Entries)' = Len(Entries)
      /\ \A n : Off(n)' = Off(n) /\ (EndsAfter(n) <=> EndsAfter(n)')
  BY <1>2, SameFile
<1>4. /\ log \in Seq(Nat) /\ Len(log) \in Nat /\ Len(Entries) \in Nat
      /\ \A n \in 0 .. Len(Entries) : Off(n) = n
      /\ \A k \in 1 .. Len(log) :
           \/ k <= Len(Entries) /\ \E i \in {0, 11} : log[k] = JsonLine(i) /\ Entries[k] = JsonEvent(i)
           \/ log[k] = TornLine
      /\ \A n \in 0 .. Len(Entries) :
           EndsAfter(n) <=> Len(log) = n /\ \A k \in 1 .. n : log[k] # TornLine
  BY JsonCells
<1>5. \A k \in 1 .. Len(log) : log[k] > 499
  BY <1>4 DEF JsonLine, TornLine
<1>6. Nothing => AtEntry /\ at = 0 /\ parsed = <<>> /\ Len(parsed) = 0
  BY NothingRead
<1>7. ASSUME stage = "head"
      PROVE  /\ AtEntry /\ Len(parsed) \in 0 .. Len(Entries) /\ at = Len(parsed)
             /\ parsed = SubSeq(Entries, 1, Len(parsed))
             /\ way # "json" => at = 0 /\ parsed = <<>>
             /\ \A k \in 1 .. at : log[k] # TornLine
  <2>1. AtEntry
    BY <1>1, <1>6, <1>7
  <2>2. Len(parsed) \in 0 .. Len(Entries) /\ at = Off(Len(parsed)) /\ parsed = SubSeq(Entries, 1, Len(parsed))
    BY <2>1 DEF AtEntry, Begun
  <2>3. way # "json" => at = 0 /\ parsed = <<>>
    BY <1>1, <1>6, <1>7
  <2>4. \A k \in 1 .. 0 : log[k] # TornLine
    OBVIOUS
  <2> QED  BY <1>1, <1>4, <1>7, <2>1, <2>2, <2>3, <2>4
\* The readings before the last give up at once.
<1>8. ASSUME Abandon, way # "json", way # "spec" => log # <<>>
      PROVE  Kept' /\ JsonReading' /\ Outcome'
  <2>1. /\ Kept' /\ Outcome' /\ Nothing' /\ AtEntry' /\ at' = 0
        /\ way = "spec" => stage' = "head" /\ way' = "event2"
        /\ way = "event2" => stage' = "head" /\ way' = "event1"
        /\ way = "event1" => stage' = "head" /\ way' = "json"
    <3>1. Abandon /\ (way = "json" => Mid)
      BY <1>8
    <3> QED  BY <1>2, <3>1, Refused DEF Nothing
  <2>2. \A k \in 1 .. 0 : log[k] # TornLine
    OBVIOUS
  <2> QED  BY <1>1, <1>3, <1>8, <2>1, <2>2 DEF JsonReading
<1>9. ASSUME stage = "head", Left > 0 PROVE log # <<>> /\ at + 1 \in 1 .. Len(log) /\ at \in Nat
  <2>1. at \in Nat /\ Len(log) > 0 /\ at + 1 \in 1 .. Len(log)
    BY <1>1, <1>4, <1>9 DEF Left
  <2>2. Len(<<>>) = 0 /\ Len(log) # 0
    BY <2>1
  <2> QED  BY <2>1, <2>2
<1>10. CASE Finish
  <2>1. stage = "head" /\ Left = 0
    BY <1>10 DEF Finish
  <2>2. Len(log) = at
    BY <1>1, <1>4, <2>1 DEF Left
  <2>3. EndsAfter(Len(parsed))
    BY <1>4, <1>7, <2>1, <2>2
  <2>4. log # <<>> => Len(parsed) # 0
    BY <1>4, <1>7, <2>1, <2>2, EmptySeq
  <2>5. way # "json" => log = <<>>
    BY <1>4, <1>7, <2>1, <2>2, EmptySeq
  <2>6. CASE parsed = <<>> /\ way \in {"spec", "json"}
    <3>1. Abandon
      BY <1>10, <2>6 DEF Finish
    <3>2. way = "spec"
      <4>1. Len(<<>>) = 0
        OBVIOUS
      <4> QED  BY <1>1, <2>1, <2>4, <2>6, <4>1
    <3> QED  BY <1>8, <3>1, <3>2
  <2>7. CASE ~(parsed = <<>> /\ way \in {"spec", "json"})
    <3>1. stage' = "ok" /\ UNCHANGED <<way, at, entry, sizes, parsed>>
      BY <1>10, <2>7 DEF Finish
    <3>2. Kept'
      BY <1>1, <1>3, <3>1 DEF Kept
    <3>3. Outcome'
      <4>1. EndsAfter(Len(parsed))'
        <5>1. EndsAfter(Len(parsed))' <=> EndsAfter(Len(parsed))
          BY <1>2, <3>1 DEF EndsAfter
        <5> QED  BY <2>3, <5>1
      <4>2. (parsed = SubSeq(Entries, 1, Len(parsed)))'
        BY <1>3, <1>7, <2>1, <3>1
      <4> QED  BY <3>1, <4>1, <4>2 DEF Outcome
    <3>4. JsonReading'
      BY <3>1 DEF JsonReading
    <3> QED  BY <3>2, <3>3, <3>4
  <2> QED  BY <2>6, <2>7
<1>11. CASE Event1Entry
  <2>1. stage = "head" /\ Left > 0 /\ way \in {"spec", "event1"}
    BY <1>11 DEF Event1Entry, ReadsEvent1
  <2>2. at = 0 /\ log # <<>>
    BY <1>7, <1>9, <2>1
  <2>3. Left = Len(log) - 0 /\ Cell(7) = log[7]
    BY <2>2 DEF Left, Cell
  <2>4. ~(Left >= 7 /\ Cell(7) <= MAX_EVENT_DATA_SIZE)
    <3> SUFFICES ASSUME Left >= 7 PROVE ~(Cell(7) <= 80)
      BY DEF MAX_EVENT_DATA_SIZE
    <3>1. 7 \in 1 .. Len(log)
      BY <1>4, <2>3
    <3>2. log[7] > 499 /\ log[7] \in Nat
      BY <1>4, <1>5, <3>1, ElementOfSeq
    <3> QED  BY <2>3, <3>2
  <2>5. DigestLen[Sha1] + 3 = 7
    BY DEF DigestLen, Sha1, Sha256
  <2>6. Abandon
    <3> HIDE DEF Abandon
    <3> QED  BY <1>11, <2>4, <2>5 DEF Event1Entry
  <2> QED  BY <1>8, <2>1, <2>2, <2>6
<1>12. CASE Event2Head
  <2>1. stage = "head" /\ Left > 0 /\ ReadsEvent2
    BY <1>12 DEF Event2Head
  <2>2. log # <<>> /\ at \in Nat
    BY <1>9, <2>1
  <2>3. way = "event2"
    <3>1. way = "spec" => ~Agile
      BY <1>7, <2>1 DEF Agile
    <3> QED  BY <2>1, <3>1 DEF ReadsEvent2
  <2>4. at = 0 /\ Left = Len(log) - 0 /\ Cell(3) = log[3]
    BY <1>7, <2>1, <2>3 DEF Left, Cell
  <2>5. ~(Left >= 3 /\ Cell(3) <= MAX_DIGEST_COUNT)
    <3> SUFFICES ASSUME Left >= 3 PROVE ~(Cell(3) <= 32)
      BY DEF MAX_DIGEST_COUNT
    <3>1. 3 \in 1 .. Len(log)
      BY <1>4, <2>4
    <3>2. log[3] > 499 /\ log[3] \in Nat
      BY <1>4, <1>5, <3>1, ElementOfSeq
    <3> QED  BY <2>4, <3>2
  <2>6. Abandon
    <3> HIDE DEF Abandon
    <3> QED  BY <1>12, <2>5 DEF Event2Head
  <2> QED  BY <1>8, <2>2, <2>3, <2>6
<1>13. ~ReadDigest /\ ~Event2Tail
  BY <1>1 DEF ReadDigest, Event2Tail
<1>14. CASE JsonEntry
  <2>1. stage = "head" /\ Left > 0 /\ way = "json" /\ log # <<>>
    BY <1>1, <1>14 DEF JsonEntry
  <2> DEFINE n == Len(parsed)
  <2>2. at = n /\ n \in 0 .. Len(Entries) /\ n + 1 \in 1 .. Len(log) /\ n \in Nat /\ AtEntry
        /\ parsed = SubSeq(Entries, 1, n)
    BY <1>7, <1>9, <2>1
  <2>3. Cell(1) = log[n + 1]
    BY <2>2 DEF Cell
  <2>4. CASE log[n + 1] = TornLine
    <3>1. Abandon
      <4>1. TornLine \notin {JsonLine(0), JsonLine(11)} /\ \A i \in {0, 11} : TornLine # JsonLine(i)
        BY DEF TornLine, JsonLine
      <4> HIDE DEF Abandon, n
      <4> QED  BY <1>14, <2>3, <2>4, <4>1 DEF JsonEntry
    <3>2. Mid
      <4>1. ASSUME NEW m \in 1 .. Len(Entries), EndsAfter(m) PROVE FALSE
        <5>1. m \in 0 .. Len(Entries)
          BY <4>1
        <5>2. Len(log) = m /\ \A k \in 1 .. m : log[k] # TornLine
          BY <1>4, <4>1, <5>1
        <5> HIDE DEF n
        <5> QED  BY <2>2, <2>4, <5>2
      <4> QED  BY <2>1, <4>1 DEF Mid
    <3>3. Kept' /\ Outcome' /\ stage' = "err"
      BY <1>2, <2>1, <3>1, <3>2, Refused
    <3> QED  BY <3>3 DEF JsonReading
  <2>5. CASE log[n + 1] # TornLine
    <3>1. PICK i \in {0, 11} : log[n + 1] = JsonLine(i) /\ Entries[n + 1] = JsonEvent(i)
           /\ n + 1 <= Len(Entries)
      <4> HIDE DEF n
      <4> QED  BY <1>4, <2>2, <2>5
    <3>2. \A j \in {0, 11} : JsonLine(i) = JsonLine(j) => i = j
      BY <3>1 DEF JsonLine
    <3>3. JsonLine(i) \in {JsonLine(0), JsonLine(11)}
      BY <3>1
    <3>4. /\ parsed' = Append(parsed, JsonEvent(i)) /\ at' = at + 1
          /\ UNCHANGED <<way, stage, entry, sizes>>
      <4> HIDE DEF Abandon, n
      <4> QED  BY <1>14, <2>3, <3>1, <3>2, <3>3 DEF JsonEntry
    <3>5. n < Len(Entries) /\ n + 1 \in 0 .. Len(Entries)
      <4> HIDE DEF n
      <4> QED  BY <1>4, <2>2, <3>1
    <3>6. parsed' = SubSeq(Entries, 1, n + 1) /\ Len(parsed') = n + 1
      <4>1. Append(SubSeq(Entries, 1, n), Entries[n + 1]) = SubSeq(Entries, 1, n + 1)
            /\ Len(SubSeq(Entries, 1, n + 1)) = n + 1
        BY <2>2, <3>5, LoggedOne
      <4> HIDE DEF n
      <4> QED  BY <2>2, <3>1, <3>4, <4>1
    <3>7. at' = n + 1 /\ n + 1 \in 0 .. Len(log)
      <4> HIDE DEF n
      <4> QED  BY <1>4, <2>2, <3>4
    <3> HIDE DEF n
    <3>8. AtEntry'
      <4>1. Begun'
        BY <1>3, <3>5, <3>6 DEF Begun
      <4>2. Off(Len(parsed))' = n + 1
        <5>1. Off(Len(parsed))' = Off(n + 1)
          BY <1>2, <3>6, SameFile DEF Off
        <5> QED  BY <1>4, <3>5, <5>1
      <4>3. entry' = NoEntry
        BY <2>2, <3>4 DEF AtEntry
      <4> QED  BY <3>7, <4>1, <4>2, <4>3 DEF AtEntry
    <3>9. \A k \in 1 .. n + 1 : log[k] # TornLine
      <4> TAKE k \in 1 .. n + 1
      <4>1. k \in 1 .. n \/ k = n + 1
        BY <2>2
      <4>2. \A j \in 1 .. n : log[j] # TornLine
        BY <1>7, <2>1, <2>2
      <4> QED  BY <2>5, <4>1, <4>2
    <3> QED  BY <1>3, <2>1, <3>4, <3>7, <3>8, <3>9 DEF Kept, JsonReading, Outcome
  <2> QED  BY <2>4, <2>5
<1> QED  BY <1>10, <1>11, <1>12, <1>13, <1>14 DEF Step

-----------------------------------------------------------------------------
LEMMA IInit == ParserInit => ParserInv
<1> SUFFICES ASSUME ParserInit PROVE ParserInv
  OBVIOUS
<1>1. Stored /\ Nothing /\ way = "spec" /\ stage = "head"
  BY DEF ParserInit, Nothing
<1>2. AtEntry /\ at \in 0 .. Len(log) /\ parsed = <<>> /\ sizes = <<>>
  BY <1>1, NothingRead
<1>3. Kept
  BY <1>1, <1>2 DEF Kept
<1>4. Reading
  BY <1>1, <1>2, SourceIs DEF Reading, JsonReading, LegacyReading, BareReading, AgileReading
<1>5. Outcome
  BY <1>1 DEF Outcome
<1> QED  BY <1>1, <1>3, <1>4, <1>5 DEF ParserInv

LEMMA INext == ParserInv /\ [ParserNext]_parserVars => ParserInv'
<1> SUFFICES ASSUME ParserInv, [ParserNext]_parserVars PROVE ParserInv'
  OBVIOUS
<1>1. CASE Step
  <2>1. UNCHANGED <<source, log>>
    BY <1>1 DEF Step, Finish, Event1Entry, Event2Head, ReadDigest, Event2Tail, JsonEntry
  <2>2. (Stored <=> Stored') /\ (Clear <=> Clear') /\ source' = source
    BY <2>1, SameFile
  <2>3. ASSUME Clear PROVE Kept' /\ Reading' /\ Outcome'
    <3>1. Stored /\ Kept /\ Reading
      BY <2>3 DEF ParserInv
    <3>2. CASE source.format = "json"
      BY <1>1, <2>2, <3>1, <3>2, JsonNext DEF Reading
    <3>3. CASE source.format = "legacy"
      BY <1>1, <2>2, <2>3, <3>1, <3>3, LegacyNext DEF Reading
    <3>4. CASE source.format = "bare"
      BY <1>1, <2>2, <2>3, <3>1, <3>4, BareNext DEF Reading
    <3>5. CASE source.format = "agile"
      BY <1>1, <2>2, <2>3, <3>1, <3>5, AgileNext DEF Reading
    <3> QED  BY <3>1, <3>2, <3>3, <3>4, <3>5, SourceIs
  <2> QED  BY <2>2, <2>3 DEF ParserInv
<1>2. CASE UNCHANGED parserVars
  <2>1. UNCHANGED <<source, log>> /\ UNCHANGED parsed
    BY <1>2 DEF parserVars
  <2>2. /\ (Stored <=> Stored') /\ (Mid <=> Mid') /\ (Clear <=> Clear')
        /\ Entries' = Entries /\ Len(Entries)' = Len(Entries) /\ Parts' = Parts
        /\ \A n : (EndsAfter(n) <=> EndsAfter(n)')
    BY <2>1, SameFile
  <2>3. UNCHANGED <<way, stage, at, entry, sizes, parsed, source, log>>
    BY <1>2 DEF parserVars
  <2>4. (Kept <=> Kept') /\ (Outcome <=> Outcome')
    <3>1. EndsAfter(Len(parsed))' <=> EndsAfter(Len(parsed))
      BY <2>3 DEF EndsAfter
    <3> QED  BY <2>2, <2>3, <3>1 DEF Kept, Outcome
  <2>5. ASSUME Kept PROVE Reading <=> Reading'
    <3>0. way \in {"spec", "event2", "event1", "json"}
      BY <2>5 DEF Kept
    <3>1. (AtEntry <=> AtEntry') /\ (Nothing <=> Nothing')
      BY <2>2, <2>3 DEF AtEntry, Begun, Nothing, Off
    <3>2. /\ NextOne' = NextOne /\ Start' = Start /\ (Stuck <=> Stuck') /\ (Begun <=> Begun')
          /\ Len(parsed)' = Len(parsed)
      BY <2>1, SameEntry
    <3>3. (Following <=> Following') /\ (Exhausted <=> Exhausted') /\ (Misled <=> Misled')
      BY <2>3, <3>2 DEF Following, Exhausted, Misled
    <3>4. InDigests <=> InDigests'
      BY <2>2, <2>3, <3>2, <3>3 DEF InDigests
    <3>5. SizesAnnounced <=> SizesAnnounced'
      BY <2>2, <2>3 DEF SizesAnnounced, LenForAlg
    <3>6. way' = way /\ stage' = stage /\ at' = at /\ entry' = entry /\ sizes' = sizes
          /\ parsed' = parsed /\ source' = source /\ log' = log /\ (Mid <=> Mid')
      BY <2>2, <2>3
    <3> HIDE DEF AtEntry, Nothing, InDigests, SizesAnnounced, Mid
    <3>7. JsonReading <=> JsonReading'
      BY <3>1, <3>6 DEF JsonReading
    <3>8. LegacyReading <=> LegacyReading'
      BY <3>0, <3>1, <3>6 DEF LegacyReading
    <3>9. BareReading <=> BareReading'
      BY <3>1, <3>4, <3>6 DEF BareReading
    <3>10. AgileReading <=> AgileReading'
      BY <3>0, <3>1, <3>4, <3>5, <3>6 DEF AgileReading
    <3> QED  BY <3>6, <3>7, <3>8, <3>9, <3>10 DEF Reading
  <2> QED  BY <2>2, <2>4, <2>5 DEF ParserInv
<1> QED  BY <1>1, <1>2 DEF ParserNext

(***************************************************************************)
(* What is logged is what is read, and a log that ends within an entry is  *)
(* refused: for every list of algorithms, however long, every number of    *)
(* events and every cut.  The exceptions are those of Clear: digests that  *)
(* begin with their own length, empty EV_NO_ACTION events, and zero        *)
(* digests where a cut or a missing header lets them mislead.              *)
(***************************************************************************)
THEOREM LoggedIsRead == ParserSpec => []ReadsWhatWasLogged
<1>1. ParserInv => ReadsWhatWasLogged
  BY DEF ParserInv, Outcome, Mid, Torn, Entries, ReadsWhatWasLogged
<1> QED  BY <1>1, IInit, INext, PTL DEF ParserSpec
=============================================================================
