----------------------------- MODULE MeasuredBoot -----------------------------
(***************************************************************************)
(* Verification of the PCRs against the event logs: api_verify_pcrs of the *)
(* web service and tpm-event-log --verify of the command line.  The logs   *)
(* are loaded, replayed, and the PCRs they speak of are read (PcrRead) and *)
(* compared, while the running system goes on measuring.                   *)
(*                                                                         *)
(* External: firmware extends and logs during boot, may log what it does   *)
(* not extend (EV_NO_ACTION) and extend what it logs in another bank only; *)
(* its log may also be exposed as an ACPI table; a system service extends  *)
(* a PCR and then appends a record to its journal; others extend and log   *)
(* nothing.  A digest stands for one sequence of measurements.             *)
(***************************************************************************)
EXTENDS PcrRead, SequencesExt

CONSTANT MaxEvents   \* bound on the events firmware logs

ASSUME EventsAssumption == MaxEvents \in Nat

VARIABLES
  trace,    \* what each digest stands for: the start value and the measurements
  bios,     \* the firmware's log
  acpi,     \* it is exposed as an ACPI table too
  journal,  \* the system's log
  owed,     \* the event extended whose record is not in the journal yet, if any
  untold,   \* PCRs for which the logs are not the whole truth (history)
  tool,     \* "web", "cli", or "filtered": the command line with a PCR filter
  pc,       \* "boot", "idle", "read", "done" or "err"
  events,   \* the events loaded
  settled,  \* no record was owed then (history)
  verdict   \* the PCRs found to match

machine == <<trace, bios, acpi, journal, owed, untold>>
check == <<tool, pc, events, settled, verdict>>
vars == <<bank, reader, machine, check>>

\* An event of a log: the PCR, and the measurement its digest in the bank
\* stands for; 0 when it has no digest in the bank.
Event(i, m) == [pcr |-> i, digest |-> m]

Init ==
  /\ BankInit /\ ReaderInit(<<>>)
  /\ trace = [v \in 0 .. 1 |-> [start |-> v, extends |-> <<>>]]
  /\ bios = <<>> /\ acpi \in BOOLEAN /\ journal = <<>> /\ owed = <<>>
  /\ untold = {i \in Pcrs : pcr[i] # 0}      \* a PCR that does not start at zero
  /\ tool \in {"web", "cli", "filtered"} /\ pc = "boot"
  /\ events = <<>> /\ settled = TRUE /\ verdict = {}

\* A PCR is extended: the new digest stands for one measurement more.
Measure(i) ==
  /\ Extend(i)
  /\ trace' = [v \in DOMAIN trace \cup {clock'} |->
                 IF v = clock' THEN [trace[pcr[i]] EXCEPT !.extends = Append(@, clock')]
                 ELSE trace[v]]
  /\ UNCHANGED reader

\* External: firmware measures, or only logs.
BootExtend(i) ==
  /\ pc = "boot" /\ Len(bios) < MaxEvents
  /\ Measure(i)
  /\ \/ bios' = Append(bios, Event(i, clock')) /\ UNCHANGED untold
     \/ bios' = Append(bios, Event(i, 0)) /\ untold' = untold \cup {i}
  /\ UNCHANGED <<acpi, journal, owed, check>>

BootNoAction(i) ==
  /\ pc = "boot" /\ Len(bios) < MaxEvents
  /\ \/ bios' = Append(bios, Event(i, 1)) /\ untold' = untold \cup {i}
     \/ bios' = Append(bios, Event(i, 0)) /\ UNCHANGED untold
  /\ UNCHANGED <<bank, reader, trace, acpi, journal, owed, check>>

Booted ==
  /\ pc = "boot" /\ pc' = "idle"
  /\ UNCHANGED <<bank, reader, machine, tool, events, settled, verdict>>

\* External: the running system measures, with or without a record.
RunExtend(i) ==
  /\ pc # "boot"
  /\ Measure(i)
  /\ \/ owed = <<>> /\ owed' = <<Event(i, clock')>> /\ UNCHANGED untold
     \/ untold' = untold \cup {i} /\ UNCHANGED owed
  /\ UNCHANGED <<bios, acpi, journal, check>>

Record ==
  /\ owed # <<>>
  /\ journal' = journal \o owed /\ owed' = <<>>
  /\ UNCHANGED <<bank, reader, trace, bios, acpi, untold, check>>

\* What replay_pcrs has measured into PCR i after the first n events: those
\* with a digest in the bank, in the order of the log.
Measured(es, i) ==
  LET measured[n \in 0 .. Len(es)] ==
        IF n = 0 THEN <<>>
        ELSE IF es[n].pcr = i /\ es[n].digest # 0
             THEN Append(measured[n - 1], es[n].digest)
             ELSE measured[n - 1]
  IN measured

\* Faulty variant: an event replaces what was replayed before it.
Replay_NewestOnly(es, i) ==
  LET all == Measured(es, i)[Len(es)]
  IN [start |-> 0, extends |-> IF all = <<>> THEN <<>> ELSE <<Last(all)>>]

(***************************************************************************)
(* replay_pcrs: every event with a digest in the bank extends its PCR,     *)
(* which starts at zero.                                                   *)
(***************************************************************************)
Replay(es, i) == [start |-> 0, extends |-> Measured(es, i)[Len(es)]]

Replayed(es) == {es[k].pcr : k \in {n \in 1 .. Len(es) : es[n].digest # 0}}

\* Faulty variant: the journal is put first.
Logs_JournalFirst == {journal \o bios}

\* load_default_logs: every log that exists, in the order of the paths.  A
\* journal with a record half written does not parse and is skipped.
Logs ==
  LET firmware == IF acpi THEN bios \o bios ELSE bios
  IN {firmware \o journal} \cup IF owed # <<>> THEN {firmware} ELSE {}

\* The keys of a BTreeMap, or a sorted filter: ascending.
InOrder(S) ==
  {s \in [1 .. Cardinality(S) -> S] :
     /\ Indices(s) = S
     /\ \A j, k \in 1 .. Cardinality(S) : j < k => s[j] < s[k]}

\* Load, parse and replay; then the PCRs of the replay, or of the filter, are
\* read.  An index out of range in the log makes the read fail.
Verify ==
  /\ pc \in {"idle", "done", "err"}
  /\ \E es \in IF tool = "web" THEN {bios} ELSE Logs :
       /\ events' = es
       /\ \E S \in IF tool = "filtered" THEN (SUBSET Pcrs) \ {{}} ELSE {Replayed(es)} :
            \E s \in InOrder(S) : StartRead(s)
  /\ settled' = (owed = <<>>) /\ verdict' = {}
  /\ pc' = IF rd' = "err" THEN "err" ELSE "read"
  /\ UNCHANGED <<pcr, clock, machine, tool>>

ReadStep == pc = "read" /\ Read /\ UNCHANGED <<machine, check>>

\* The comparison, index by index.
Compare ==
  /\ pc = "read" /\ rd # "reading"
  /\ \/ /\ rd = "ok"
        /\ verdict' = {i \in Indices(sel) : trace[col[i]] = Replay(events, i)}
        /\ pc' = "done"
     \/ rd = "err" /\ pc' = "err" /\ UNCHANGED verdict
  /\ UNCHANGED <<bank, reader, machine, tool, events, settled>>

Next ==
  \/ \E i \in Pcrs : BootExtend(i) \/ RunExtend(i)
  \/ \E i \in Pcrs \cup {Foreign} : BootNoAction(i)
  \/ Booted \/ Record \/ Verify \/ ReadStep \/ Compare

Spec == Init /\ [][Next]_vars

\* The verifying thread runs; the system may measure for ever.
FairSpec == Spec /\ WF_vars(ReadStep \/ Compare)

-----------------------------------------------------------------------------

Told(es, i) == {es[k].digest : k \in {n \in 1 .. Len(es) : es[n].pcr = i}} \ {0}

(***************************************************************************)
(* A PCR that is said to match was, at some moment of the check, what      *)
(* start and measurements of the loaded logs make it: nothing that was     *)
(* measured into it is missing from the logs, whatever was extended or     *)
(* recorded while the logs were loaded and the PCRs read.                  *)
(***************************************************************************)
MatchMeansLogged ==
  pc = "done" => \A i \in verdict : \E v \in held[i] :
    /\ trace[v].start = 0
    /\ ToSet(trace[v].extends) = Told(events, i)

(***************************************************************************)
(* A PCR for which the logs the tool loads are the truth, told once, is    *)
(* not said to differ, when it did not change during the check.            *)
(***************************************************************************)
ToldOnce(i) ==
  /\ i \notin untold
  /\ tool = "web" => Told(journal, i) = {}
  /\ tool # "web" /\ acpi => Told(bios, i) = {}

NoFalseAlarm ==
  pc = "done" => \A i \in Indices(sel) :
    settled /\ held[i] = {col[i]} /\ ToldOnce(i) => i \in verdict
=============================================================================
