---------------------------- MODULE EventLogParser ----------------------------
(***************************************************************************)
(* parse_event_log: a TCG event log is tried as a SHA-1 header event and   *)
(* what the header announces, as crypto-agile entries, as SHA-1 entries    *)
(* and as lines of JSON, in this order.  A log is a sequence of cells: an  *)
(* integer of either width is one cell, a digest as many as its algorithm  *)
(* has, of which only the first matters: whether it looks like the         *)
(* digest's own length.  One step reads one entry head, digest or tail.    *)
(***************************************************************************)
EXTENDS Integers, Sequences, SequencesExt

CONSTANTS
  Banks,      \* the sequences of algorithms firmware logs
  MaxEntries  \* bound on the events of a log

VARIABLES
  source,    \* what was logged, and how (never changes)
  log,       \* the cells of the file (never changes)
  way,       \* the reading tried: "spec", "event2", "event1" or "json"
  stage,     \* "head", "digests", "ok" or "err"
  at,        \* cursor: cells consumed
  entry,     \* the entry being read
  sizes,     \* alg_size_overrides: digest sizes announced by spec-id events
  parsed     \* the events read

parserVars == <<source, log, way, stage, at, entry, sizes, parsed>>

Sha1 == 4
Sha256 == 11
DigestLen == [a \in {Sha1, Sha256} |-> IF a = Sha1 THEN 4 ELSE 5]

MAX_DIGEST_COUNT == 32
MAX_EVENT_DATA_SIZE == 80     \* the header of 32 banks has 68 cells
SPEC_ID_EVENT_TYPE == 3      \* EV_NO_ACTION
Random == 999                \* a cell that is no size, count or algorithm
SpecTag == 777               \* the signature "Spec ID Event03"

ASSUME ParserAssumption ==
  /\ \A b \in Banks : b \in Seq(Nat) /\ Len(b) \in 1 .. MAX_DIGEST_COUNT
  /\ MaxEntries \in Nat

TcgEvent(i, t, ds, d) == [pcr |-> i, type |-> t, digests |-> ds, data |-> d]
Digest(a, v) == [alg |-> a, digest |-> v]
NoEntry == [pcr |-> 0, type |-> 0, count |-> 0, start |-> 0, auto |-> TRUE, digests |-> <<>>]

-----------------------------------------------------------------------------
(***************************************************************************)
(* What firmware (or systemd) writes: the crypto-agile entries of the TCG  *)
(* format after the header or without, with or without a length before     *)
(* each digest; the SHA-1 entries of TPM 1.2; or lines of JSON.            *)
(***************************************************************************)
Written(a) == IF a \in DOMAIN DigestLen THEN DigestLen[a] ELSE 5
DigestCells(a, first) ==
  [k \in 1 .. Written(a) |-> IF k = 1 THEN first ELSE IF first = 0 THEN 0 ELSE Random]

BankEvents(b) ==
  {TcgEvent(7, t, [k \in 1 .. Len(b) |-> Digest(b[k], DigestCells(b[k], f[k]))], d) :
     t \in {SPEC_ID_EVENT_TYPE, 8}, d \in {<<>>, <<Random>>},
     f \in {g \in [1 .. Len(b) -> {Random, 4, 5}] :
              \A k \in 1 .. Len(b) : g[k] \in {Random, Written(b[k])}}}

\* An EV_NO_ACTION event extends nothing: its digests are zero, or it has none.
ZeroEvent(b) ==
  TcgEvent(7, SPEC_ID_EVENT_TYPE, [k \in 1 .. Len(b) |-> Digest(b[k], DigestCells(b[k], 0))],
           <<Random>>)
Undigested(b) ==
  {TcgEvent(7, SPEC_ID_EVENT_TYPE, <<Digest(a, <<>>)>>, <<Random>>) :
     a \in {b[1]} \ DOMAIN DigestLen}

SpecId(b) ==
  <<SpecTag, 2, Len(b)>> \o FlattenSeq([k \in 1 .. Len(b) |-> <<b[k], Written(b[k])>>]) \o <<0>>
Header(b) == TcgEvent(0, SPEC_ID_EVENT_TYPE, <<Digest(Sha1, <<0, 0, 0, 0>>)>>, SpecId(b))

Event1Cells(e) == <<e.pcr, e.type>> \o e.digests[1].digest \o <<Len(e.data)>> \o e.data
Event2Cells(e, prefix) ==
  <<e.pcr, e.type, Len(e.digests)>>
    \o FlattenSeq([k \in 1 .. Len(e.digests) |->
         <<e.digests[k].alg>> \o (IF prefix THEN <<Len(e.digests[k].digest)>> ELSE <<>>)
           \o e.digests[k].digest])
    \o <<Len(e.data)>> \o e.data

\* A line of JSON is one cell, by its PCR; one cut short is not JSON.
JsonEvent(i) == TcgEvent(i, 8, <<Digest(Sha256, DigestCells(Sha256, Random))>>, <<>>)
JsonLine(i) == 500 + i
TornLine == 600

Pieces(format, es, prefix) ==
  [k \in 1 .. Len(es) |->
     IF format = "json" THEN <<JsonLine(es[k].pcr)>>
     ELSE IF format = "legacy" \/ (format = "agile" /\ k = 1) THEN Event1Cells(es[k])
     ELSE Event2Cells(es[k], prefix)]

EventsOf(format, b) ==
  CASE format = "json" -> {JsonEvent(i) : i \in {0, 11}}
    [] format = "legacy" -> BankEvents(<<Sha1>>) \cup {ZeroEvent(<<Sha1>>)}
    [] format = "agile" -> BankEvents(b) \cup {ZeroEvent(b)}
    [] format = "bare" -> BankEvents(b) \cup {ZeroEvent(b)} \cup Undigested(b)

LogsOf(format, b) ==
  LET bodies == BoundedSeq(EventsOf(format, b), MaxEntries)
  IN IF format = "agile" THEN {<<Header(b)>> \o es : es \in bodies} ELSE bodies

Whole(format, es, prefix) == FlattenSeq(Pieces(format, es, prefix))

\* No size is as large as a random cell: the logs are shorter.
ASSUME RandomAssumption ==
  \A format \in {"agile", "bare", "legacy", "json"}, prefix \in BOOLEAN, b \in Banks :
    \A es \in LogsOf(format, b) : Len(Whole(format, es, prefix)) < Random - 1

\* The file, whole or cut; a line of JSON may be cut within.
Stored ==
  \E format \in {"agile", "bare", "legacy", "json"}, prefix \in BOOLEAN, b \in Banks :
    \E es \in LogsOf(format, b) : \E cut \in 0 .. Len(Whole(format, es, prefix)) :
      LET kept == SubSeq(Whole(format, es, prefix), 1, cut)
      IN /\ source = [format |-> format, prefix |-> prefix, events |-> es]
         /\ log = kept \/ (format = "json" /\ log = kept \o <<TornLine>>)

ParserInit ==
  /\ Stored
  /\ way = "spec" /\ stage = "head" /\ at = 0
  /\ entry = NoEntry /\ sizes = <<>> /\ parsed = <<>>

-----------------------------------------------------------------------------
Left == Len(log) - at
Cell(k) == log[at + k]
Cells(k, n) == SubSeq(log, at + k, at + k + n - 1)

NextWay == [spec |-> "event2", event2 |-> "event1", event1 |-> "json"]

\* Faulty variant: what a failed reading had read is kept.
Abandon_KeepsEvents ==
  /\ IF way = "json" THEN stage' = "err" /\ UNCHANGED way
     ELSE stage' = "head" /\ way' = NextWay[way]
  /\ at' = 0 /\ UNCHANGED parsed /\ sizes' = <<>> /\ entry' = NoEntry

\* parse_event_log: an error of one reading leads to the next, from the start.
Abandon ==
  /\ IF way = "json" THEN stage' = "err" /\ UNCHANGED way
     ELSE stage' = "head" /\ way' = NextWay[way]
  /\ at' = 0 /\ parsed' = <<>> /\ sizes' = <<>> /\ entry' = NoEntry

(***************************************************************************)
(* parse_spec_id_event: the algorithms a spec-id event announces; later    *)
(* ones override earlier ones and a size of zero is ignored.               *)
(***************************************************************************)
IsSpecId(d) ==
  /\ Len(d) > 3 /\ d[1] = SpecTag /\ d[3] <= MAX_DIGEST_COUNT
  /\ Len(d) >= 4 + 2 * d[3]
  /\ Len(d) >= 4 + 2 * d[3] + d[4 + 2 * d[3]]
Announced(d) == {<<d[2 + 2 * k], d[3 + 2 * k]>> : k \in 1 .. d[3]}

WithSizes(d) ==
  LET places(a) == {k \in 1 .. d[3] : d[2 + 2 * k] = a /\ d[3 + 2 * k] # 0}
  IN [a \in DOMAIN sizes \cup {p[1] : p \in {q \in Announced(d) : q[2] # 0}} |->
        IF places(a) = {} THEN sizes[a] ELSE d[3 + 2 * Max(places(a))]]

\* The header decides how the entries after it are read.
Agile ==
  /\ parsed # <<>>
  /\ LET d == parsed[1].data
     IN IsSpecId(d) /\ (d[2] >= 2 \/ \E p \in Announced(d) : p[1] # Sha1)

ReadsEvent1 == way = "event1" \/ (way = "spec" /\ ~Agile)
ReadsEvent2 == way = "event2" \/ (way = "spec" /\ Agile)

\* The loop ends with the file; a header event or a line of JSON is required.
Finish ==
  /\ stage = "head" /\ Left = 0
  /\ IF parsed = <<>> /\ way \in {"spec", "json"}
     THEN Abandon ELSE stage' = "ok" /\ UNCHANGED <<way, at, entry, sizes, parsed>>
  /\ UNCHANGED <<source, log>>

(***************************************************************************)
(* parse_event1_entry: PCR, type, a SHA-1 digest, the size, the data.      *)
(***************************************************************************)
Event1Entry ==
  LET n == DigestLen[Sha1]
      fits == /\ Left >= n + 3
              /\ Cell(n + 3) <= MAX_EVENT_DATA_SIZE
              /\ Left >= n + 3 + Cell(n + 3)
      data == Cells(n + 4, Cell(n + 3))
  IN /\ stage = "head" /\ Left > 0 /\ ReadsEvent1
     /\ \/ /\ fits
           /\ parsed' =
                Append(parsed, TcgEvent(Cell(1), Cell(2), <<Digest(Sha1, Cells(3, n))>>, data))
           /\ at' = at + n + 3 + Cell(n + 3)
           /\ sizes' = IF way = "spec" /\ parsed = <<>> /\ IsSpecId(data)
                       THEN WithSizes(data) ELSE sizes
           /\ UNCHANGED <<way, stage, entry>>
        \/ ~fits /\ Abandon
     /\ UNCHANGED <<source, log>>

\* parse_event2_entries_from: PCR, type and digest count of an entry.
Event2Head ==
  /\ stage = "head" /\ Left > 0 /\ ReadsEvent2
  /\ \/ /\ Left >= 3 /\ Cell(3) <= MAX_DIGEST_COUNT
        /\ entry' = [NoEntry EXCEPT !.pcr = Cell(1), !.type = Cell(2), !.count = Cell(3),
                                    !.start = at + 3]
        /\ at' = at + 3 /\ stage' = "digests"
        /\ UNCHANGED <<way, sizes, parsed>>
     \/ ~(Left >= 3 /\ Cell(3) <= MAX_DIGEST_COUNT) /\ Abandon
  /\ UNCHANGED <<source, log>>

\* digest_len_for_alg; zero stands for None.
LenForAlg(a) ==
  IF a \in DOMAIN sizes THEN sizes[a] ELSE IF a \in DOMAIN DigestLen THEN DigestLen[a] ELSE 0

\* A digest of n cells, after skip cells of algorithm and length prefix.
TakeDigest(skip, n) ==
  IF n <= Left - skip /\ (n > 0 \/ entry.type = SPEC_ID_EVENT_TYPE)
  THEN /\ entry' = [entry EXCEPT !.digests = Append(@, Digest(Cell(1), Cells(skip + 1, n)))]
       /\ at' = at + skip + n
       /\ UNCHANGED <<way, stage, sizes, parsed>>
  ELSE Abandon

\* Faulty variant: a length before the digest is not looked for.
ReadDigest_NoPrefix ==
  /\ stage = "digests" /\ Len(entry.digests) < entry.count
  /\ IF Left = 0 THEN Abandon
     ELSE IF ~entry.auto \/ LenForAlg(Cell(1)) = 0
     THEN IF Left < 2 THEN Abandon ELSE TakeDigest(2, Cell(2))
     ELSE TakeDigest(1, LenForAlg(Cell(1)))
  /\ UNCHANGED <<source, log>>

(***************************************************************************)
(* parse_event2_digests, one digest.  A known algorithm has its size, and  *)
(* a cell equal to it is taken for a length prefix if enough cells follow; *)
(* an unknown one, or any one on the second attempt, has a length prefix.  *)
(***************************************************************************)
ReadDigest ==
  /\ stage = "digests" /\ Len(entry.digests) < entry.count
  /\ IF Left = 0 THEN Abandon
     ELSE LET n == LenForAlg(Cell(1))
          IN IF ~entry.auto \/ n = 0
             THEN IF Left < 2 THEN Abandon ELSE TakeDigest(2, Cell(2))
             ELSE IF Left >= n + 2 /\ Cell(2) = n THEN TakeDigest(2, n) ELSE TakeDigest(1, n)
  /\ UNCHANGED <<source, log>>

DataFits == Left > 0 /\ Cell(1) <= MAX_EVENT_DATA_SIZE /\ Left >= Cell(1) + 1

\* Faulty variant: the second attempt reads as the first.
Again_SameWay ==
  /\ Left > 0 /\ ~DataFits
  /\ entry' = [entry EXCEPT !.digests = <<>>] /\ at' = entry.start
  /\ UNCHANGED <<way, stage, sizes, parsed>>

\* A size that cannot be: the digests are read again, with length prefixes.
Again ==
  /\ Left > 0 /\ ~DataFits /\ entry.auto
  /\ entry' = [entry EXCEPT !.auto = FALSE, !.digests = <<>>] /\ at' = entry.start
  /\ UNCHANGED <<way, stage, sizes, parsed>>

\* The size and data of the entry; a spec-id event must not be empty.
Event2Tail ==
  LET empty == Cell(1) = 0 /\ entry.type = SPEC_ID_EVENT_TYPE
      data == Cells(2, Cell(1))
  IN /\ stage = "digests" /\ Len(entry.digests) = entry.count
     /\ \/ /\ DataFits /\ ~empty
           /\ parsed' = Append(parsed, TcgEvent(entry.pcr, entry.type, entry.digests, data))
           /\ at' = at + Cell(1) + 1 /\ stage' = "head" /\ entry' = NoEntry
           /\ sizes' = IF entry.type = SPEC_ID_EVENT_TYPE /\ IsSpecId(data)
                       THEN WithSizes(data) ELSE sizes
           /\ UNCHANGED way
        \/ Again
        \/ IF DataFits THEN empty /\ Abandon ELSE (Left = 0 \/ ~entry.auto) /\ Abandon
     /\ UNCHANGED <<source, log>>

\* parse_json_event_log, line by line.
JsonEntry ==
  /\ stage = "head" /\ Left > 0 /\ way = "json"
  /\ \/ /\ \E i \in {0, 11} :
             Cell(1) = JsonLine(i) /\ parsed' = Append(parsed, JsonEvent(i))
        /\ at' = at + 1
        /\ UNCHANGED <<way, stage, entry, sizes>>
     \/ Cell(1) \notin {JsonLine(0), JsonLine(11)} /\ Abandon
  /\ UNCHANGED <<source, log>>

Step == Finish \/ Event1Entry \/ Event2Head \/ ReadDigest \/ Event2Tail \/ JsonEntry

ParserNext == Step \/ (stage \in {"ok", "err"} /\ UNCHANGED parserVars)

ParserSpec == ParserInit /\ [][ParserNext]_parserVars
FairParserSpec == ParserSpec /\ WF_parserVars(Step)   \* the parsing thread runs

-----------------------------------------------------------------------------

TypeOK ==
  /\ way \in {"spec", "event2", "event1", "json"}
  /\ stage \in {"head", "digests", "ok", "err"}
  /\ at \in 0 .. Len(log)
  /\ entry.count \in 0 .. MAX_DIGEST_COUNT /\ Len(entry.digests) <= entry.count
  /\ stage = "ok" => at = Len(log)

\* The first n events end with the file.
EndsAfter(n) ==
  LET es == SubSeq(source.events, 1, n)
  IN Whole(source.format, es, source.prefix) = log

\* The file is cut within an entry: within some entry, within the k-th.
Torn == \A n \in 1 .. Len(source.events) : ~EndsAfter(n)
Reach(n) == Len(Whole(source.format, SubSeq(source.events, 1, n), source.prefix))
CutIn(k) == Reach(k - 1) < Len(log) /\ Len(log) < Reach(k)

Zeroed(k) ==
  LET d == source.events[k].digests[1].digest IN d # <<>> /\ d[1] = 0

(***************************************************************************)
(* Zero digests that can be taken for sizes of zero: those of the first    *)
(* crypto-agile entry, read as a SHA-1 entry, if the log was cut or has no *)
(* header; and those of the entry a log is cut in, on the second attempt   *)
(* at it.                                                                  *)
(***************************************************************************)
FirstEntry == IF source.format = "agile" THEN 2 ELSE 1
ZerosMislead ==
  /\ source.format \in {"agile", "bare"}
  /\ \E k \in FirstEntry .. Len(source.events) :
       /\ Zeroed(k)
       /\ \/ k = FirstEntry /\ (source.format = "bare" \/ Torn)
          \/ CutIn(k) /\ ~source.prefix

\* No digest looks like a length prefix, every algorithm has a size, no
\* EV_NO_ACTION event is empty, and no zeros mislead.
Clear ==
  /\ ~ZerosMislead
  /\ \A k \in 1 .. Len(source.events) :
       LET e == source.events[k] IN
       /\ e.type = SPEC_ID_EVENT_TYPE => e.data # <<>>
       /\ \A j \in 1 .. Len(e.digests) :
            LET d == e.digests[j] IN
            \/ source.prefix
            \/ /\ d.digest # <<>> /\ d.digest[1] # Len(d.digest)
               /\ source.format = "agile" \/ d.alg \in DOMAIN DigestLen

(***************************************************************************)
(* A log is read as the events that were logged, in whichever of the four  *)
(* formats and with or without length prefixes, and a log that ends in the *)
(* middle of an entry is refused, never read in another format as other    *)
(* events.  The exceptions are digests that begin with their own length    *)
(* and, in a log that is cut or has no header, the zero digests that the   *)
(* code does read as entries of another format (see the README).           *)
(***************************************************************************)
ReadsWhatWasLogged ==
  stage \in {"ok", "err"} /\ Clear =>
    \/ stage = "ok" /\ EndsAfter(Len(parsed)) /\ parsed = SubSeq(source.events, 1, Len(parsed))
    \/ stage = "err" /\ Torn

(* The parser ends on every log: no reading and no second attempt spins. *)
ParserEnds == <>(stage \in {"ok", "err"})
=============================================================================
