----------------------------- MODULE TpmCommand -----------------------------
(***************************************************************************)
(* What Tpm::transmit promises to the modules above it: a command is one   *)
(* atomic event.  It is executed at most once, between the call and its    *)
(* return; an Ok answer is the response to this very command; an error     *)
(* leaves open whether the command was executed.  CvmReport, EphemeralKey, *)
(* PersistentKey, NvIndex and PcrRead take a command as such a step.       *)
(***************************************************************************)
EXTENDS Naturals, Sequences

CONSTANT Clients   \* the threads that share the device

VARIABLES
  st,       \* each client's latest call: "idle", "open", "ok" or "err"
  id,       \* its command
  ran,      \* the command was executed
  answer,   \* the command whose response the call returned
  executed  \* the commands executed, in order

tvars == <<st, id, ran, answer, executed>>

Init ==
  /\ st = [c \in Clients |-> "idle"]
  /\ id = [c \in Clients |-> 0]
  /\ ran = [c \in Clients |-> FALSE]
  /\ answer = [c \in Clients |-> 0]
  /\ executed = <<>>

\* A call; a buffer that is no command fails at once.
Begin(c) ==
  /\ st[c] # "open"
  /\ id'[c] \in Nat \ ({id[k] : k \in Clients} \cup {executed[k] : k \in 1 .. Len(executed)})
  /\ id' = [id EXCEPT ![c] = id'[c]]
  /\ \E s \in {"open", "err"} : st' = [st EXCEPT ![c] = s]
  /\ ran' = [ran EXCEPT ![c] = FALSE]
  /\ answer' = [answer EXCEPT ![c] = 0]
  /\ UNCHANGED executed

\* The TPM executes the command; the call may fail all the same.
Execute(c) ==
  /\ st[c] = "open" /\ ~ran[c]
  /\ ran' = [ran EXCEPT ![c] = TRUE]
  /\ executed' = Append(executed, id[c])
  /\ \E s \in {"open", "err"} : st' = [st EXCEPT ![c] = s]
  /\ UNCHANGED <<id, answer>>

Answer(c) ==
  /\ st[c] = "open" /\ ran[c]
  /\ answer' = [answer EXCEPT ![c] = id[c]]
  /\ st' = [st EXCEPT ![c] = "ok"]
  /\ UNCHANGED <<id, ran, executed>>

\* Execution and answer may also be one event (a blocking submission).
ExecuteAndAnswer(c) ==
  /\ st[c] = "open" /\ ~ran[c]
  /\ ran' = [ran EXCEPT ![c] = TRUE]
  /\ executed' = Append(executed, id[c])
  /\ answer' = [answer EXCEPT ![c] = id[c]]
  /\ st' = [st EXCEPT ![c] = "ok"]
  /\ UNCHANGED id

Fail(c) ==
  /\ st[c] = "open"
  /\ st' = [st EXCEPT ![c] = "err"]
  /\ UNCHANGED <<id, ran, answer, executed>>

Next ==
  \E c \in Clients :
    Begin(c) \/ Execute(c) \/ Answer(c) \/ ExecuteAndAnswer(c) \/ Fail(c)

Spec == Init /\ [][Next]_tvars
=============================================================================
