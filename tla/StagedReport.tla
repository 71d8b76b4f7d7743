---------------------------- MODULE StagedReport ----------------------------
(***************************************************************************)
(* What the user-data staging service promises its callers, whatever the   *)
(* commands it is made of: a regular register.  A call that stages a value *)
(* either fails or answers with a report every part of which carries a     *)
(* value staged no earlier than the call's own; a call without user data   *)
(* answers with values no older than the call itself.  Nothing is said of  *)
(* WHICH of the overlapping calls' values is carried: the platform has one *)
(* user-data index and the code takes no lock across commands.             *)
(***************************************************************************)
EXTENDS Naturals, Sequences

CONSTANTS
  Clients,   \* threads or processes, each with a TPM connection of its own
  Data,      \* the padded 64-byte values
  NoData,    \* the caller passed None
  Oversized  \* the caller passed more than 64 bytes

VARIABLES
  log,       \* every value written to the index, in order: [by, data]
  st,        \* each client's latest call: "idle", "open", "ok" or "err"
  data,      \* its user data
  base,      \* the log position its answer may not be older than
  seen       \* the log positions its answer carries

avars == <<log, st, data, base, seen>>

Init ==
  /\ log = <<>>
  /\ st = [c \in Clients |-> "idle"]
  /\ data = [c \in Clients |-> NoData]
  /\ base = [c \in Clients |-> 0]
  /\ seen = [c \in Clients |-> {}]

\* A call starts; an input that does not fit the index fails at once.
Begin(c, d) ==
  /\ st[c] # "open"
  /\ st' = [st EXCEPT ![c] = IF d = Oversized THEN "err" ELSE "open"]
  /\ data' = [data EXCEPT ![c] = d]
  /\ base' = [base EXCEPT ![c] = Len(log)]
  /\ seen' = [seen EXCEPT ![c] = {}]
  /\ UNCHANGED log

Entry(c) == [by |-> c, data |-> data[c]]

\* The call's value reaches the index: from now on the call owns a position.
Stage(c) ==
  /\ st[c] = "open" /\ data[c] \in Data
  /\ log' = Append(log, Entry(c))
  /\ base' = [base EXCEPT ![c] = Len(log) + 1]
  /\ UNCHANGED <<st, data, seen>>

\* A call that had a value to stage answers only after staging it.
Answer(c) ==
  /\ st[c] = "open"
  /\ data[c] \in Data => base[c] > 0 /\ log[base[c]] = Entry(c)
  /\ \E S \in (SUBSET (base[c] .. Len(log))) \ {{}} : seen' = [seen EXCEPT ![c] = S]
  /\ st' = [st EXCEPT ![c] = "ok"]
  /\ UNCHANGED <<log, data, base>>

\* A call may fail at any point, with its value staged or not.
Fail(c) ==
  /\ st[c] = "open"
  /\ st' = [st EXCEPT ![c] = "err"]
  /\ UNCHANGED <<log, data, base, seen>>

\* The write was executed and its response lost: staged and failed at once.
StageAndFail(c) ==
  /\ st[c] = "open" /\ data[c] \in Data
  /\ log' = Append(log, Entry(c))
  /\ st' = [st EXCEPT ![c] = "err"]
  /\ UNCHANGED <<data, base, seen>>

Next ==
  \E c \in Clients :
    \/ \E d \in Data \cup {NoData, Oversized} : Begin(c, d)
    \/ Stage(c) \/ Answer(c) \/ Fail(c) \/ StageAndFail(c)

Spec == Init /\ [][Next]_avars
=============================================================================
