------------------------------ MODULE WebService ------------------------------
(***************************************************************************)
(* The web service: connections accepted and shaken hands with in a task   *)
(* each, handlers that run on tokio's blocking threads with a TPM handle   *)
(* of their own, and what they share: the threads, the device and the      *)
(* user-data index.  It is up while the server of TlsIdentity serves; a    *)
(* kill takes every connection and request with it.                        *)
(*                                                                         *)
(* A handler is the list of steps it takes, each step one call into the    *)
(* library, taken at what that call's own module shows (CvmReport,         *)
(* Attestation, PcrRead, EventLogParser).  A client that leaves does not   *)
(* stop its handler: spawn_blocking is not cancelled.                      *)
(***************************************************************************)
EXTENDS TlsIdentity, Sequences, FiniteSets

CONSTANTS
  Conns,       \* connection slots
  Requests,    \* the requests clients send: [api, data, provider, decode]
  Machines,    \* the report types of the machines considered, "absent" with them
  MaxThreads,  \* bound on the blocking threads (tokio's default is 512)
  MaxRequests  \* bound on the requests of a behaviour

VARIABLES
  vm,       \* the type of the CVM report, or "absent"
  tpm,      \* "managed" (/dev/tpmrm0), "raw" (/dev/tpm0, one opener) or "none"
  threads,  \* blocking threads
  conn,     \* the state of each connection
  req,      \* its request
  todo,     \* the steps its handler has left
  queue,    \* requests that wait for a thread
  hold,     \* the requests that have the device open
  gone,     \* the requests whose client has left
  index,    \* the value in the user-data index
  seen,     \* the values it had since the request started, or staged its own
  out,      \* what the answer says: [result, report, token, claims]
  sent      \* requests so far

machine == <<vm, tpm, threads>>
requests == <<conn, req, todo, queue, gone, out, sent>>
shared == <<hold, index, seen>>
web == <<machine, requests, shared>>
everything == <<web, vars>>

Up == \E s \in Servers : pc[s] = "serving"

None == "none"
Any == CHOOSE r \in Requests : TRUE
Blank == [result |-> None, report |-> None, token |-> None, claims |-> None]

(***************************************************************************)
(* parse_user_data_opt: empty means none, hex is decoded or refused, text  *)
(* is cut at 64 bytes.  "longB" begins with the 64 bytes "B"; "long" is    *)
(* hex of more than 64 bytes, which get_cvm_report_raw refuses.            *)
(***************************************************************************)
Bytes(d) ==
  [none |-> None, hexA |-> "A", textB |-> "B", longB |-> "B", long |-> "long",
   odd |-> "refused"][d]

-----------------------------------------------------------------------------
\* The handlers.

\* Faulty variant: the second opening is made while the first handle lives.
api_diagnose_Nested == <<"probe", "reopen", "detect">>

api_diagnose == <<"probe", "unprobe", "reopen", "detect">>
api_cvm_report == <<"open", "parse", "stage", "report">>
api_tee_report == <<"open", "parse", "stage", "report">>
api_ak_cert == <<"open", "command">>
api_ak_pub == <<"open", "command">>
api_pcrs == <<"open", "pcrs">>
api_event_log == <<"log">>
api_verify_pcrs == <<"log", "open", "command">>
api_td_quote == <<"open", "report", "service">>
api_isolation_evidence == <<"open", "report", "service">>
api_guest_attest == <<"open", "provider", "evidence", "submit", "decode">>
api_tee_attest == <<"open", "report", "service", "submit", "decode">>
api_endorsement_get == <<"service">>
api_endorsement_from_platform == <<"open", "report", "service">>

Handler ==
  [diagnose |-> api_diagnose, cvm |-> api_cvm_report, tee |-> api_tee_report,
   akcert |-> api_ak_cert, akpub |-> api_ak_pub, pcrs |-> api_pcrs,
   log |-> api_event_log, verify |-> api_verify_pcrs, quote |-> api_td_quote,
   isolation |-> api_isolation_evidence, guest |-> api_guest_attest,
   teeattest |-> api_tee_attest, endorsement |-> api_endorsement_get,
   platform |-> api_endorsement_from_platform]

\* Of the queries only those of /cvm-report and /tee-report have user data.
ASSUME RequestsAssumption ==
  /\ Requests # {}
  /\ \A r \in Requests :
       /\ r.api \in DOMAIN Handler
       /\ r.data \in {"none", "hexA", "textB", "longB", "long", "odd"}
       /\ r.data # "none" => r.api \in {"cvm", "tee"}

-----------------------------------------------------------------------------
\* Connections.

WebInit ==
  /\ Init
  /\ vm \in Machines /\ tpm \in {"managed", "raw", "none"} /\ threads \in 1 .. MaxThreads
  /\ conn = [c \in Conns |-> "free"]
  /\ req = [c \in Conns |-> Any]
  /\ todo = [c \in Conns |-> <<>>]
  /\ queue = <<>> /\ hold = {} /\ gone = {}
  /\ index = "old" /\ seen = [c \in Conns |-> {}]
  /\ out = [c \in Conns |-> Blank] /\ sent = 0

Become(c, s) == conn' = [conn EXCEPT ![c] = s]

Close(c) ==
  /\ Become(c, "free")
  /\ req' = [req EXCEPT ![c] = Any] /\ out' = [out EXCEPT ![c] = Blank]

\* External: a client connects.
Connect(c) ==
  /\ conn[c] = "free" /\ sent < MaxRequests
  /\ Become(c, "backlog")
  /\ UNCHANGED <<machine, shared, req, todo, queue, gone, out, sent>>

\* Faulty variant: the handshake is awaited in the accept loop.
Accept_Inline(c) ==
  /\ conn[c] = "backlog" /\ \A d \in Conns : conn[d] # "handshake"
  /\ Become(c, "handshake")
  /\ UNCHANGED <<machine, shared, req, todo, queue, gone, out, sent>>

\* serve_https: the handshake is the business of the connection's own task.
\* An accept error is reported and the loop goes on; the connection is lost, or
\* it is in the backlog for the next round, which changes nothing.
Accept(c) ==
  /\ conn[c] = "backlog"
  /\ Become(c, "handshake") \/ Become(c, "free")
  /\ UNCHANGED <<machine, shared, req, todo, queue, gone, out, sent>>

\* The handshake completes, or fails and the task returns; nobody makes the
\* client go on.
Handshake(c) ==
  /\ conn[c] = "handshake"
  /\ Become(c, "open") \/ Become(c, "free")
  /\ UNCHANGED <<machine, shared, req, todo, queue, gone, out, sent>>

\* External: a request arrives, the first or the next of its connection, and
\* its handler calls spawn_blocking.
Send(c, r) ==
  /\ conn[c] \in {"open", "answered"} /\ sent < MaxRequests
  /\ sent' = sent + 1
  /\ req' = [req EXCEPT ![c] = r]
  /\ out' = [out EXCEPT ![c] = Blank]
  /\ Become(c, "queued") /\ queue' = Append(queue, c)
  /\ UNCHANGED <<machine, shared, todo, gone>>

\* External: the client closes its connection, at any moment.
Leave(c) ==
  /\ conn[c] # "free" /\ c \notin gone
  /\ IF conn[c] \in {"queued", "running"}
       THEN gone' = gone \cup {c} /\ UNCHANGED <<conn, req, out>>
       ELSE Close(c) /\ UNCHANGED gone
  /\ UNCHANGED <<machine, shared, todo, queue, sent>>

\* A blocking thread takes the oldest request.
Take(c) ==
  /\ queue # <<>> /\ c = Head(queue)
  /\ Cardinality({d \in Conns : conn[d] = "running"}) < threads
  /\ queue' = Tail(queue)
  /\ Become(c, "running")
  /\ todo' = [todo EXCEPT ![c] = Handler[req[c].api]]
  /\ seen' = [seen EXCEPT ![c] = {index}]
  /\ UNCHANGED <<machine, hold, index, req, gone, out, sent>>

-----------------------------------------------------------------------------
\* The steps of the handlers.

At(c, step) == conn[c] = "running" /\ todo[c] # <<>> /\ Head(todo[c]) = step

Asked(c) == Bytes(req[c].data)

\* The closure returns: its handle is dropped, and who is still there gets
\* the answer o.
Finish(c, o) ==
  /\ hold' = hold \ {c} /\ gone' = gone \ {c}
  /\ todo' = [todo EXCEPT ![c] = <<>>]
  /\ IF c \in gone THEN Close(c)
     ELSE /\ Become(c, "answered")
          /\ out' = [out EXCEPT ![c] = o]
          /\ UNCHANGED req

Fail(c) == Finish(c, [Blank EXCEPT !.result = "err"])
Answer(c, o) == Finish(c, [o EXCEPT !.result = "ok"])

\* On to the next step, or the answer when there is none.
Continue(c, o) ==
  IF Len(todo[c]) = 1
    THEN Answer(c, o)
    ELSE /\ todo' = [todo EXCEPT ![c] = Tail(@)]
         /\ out' = [out EXCEPT ![c] = o]
         /\ UNCHANGED <<conn, req, hold, gone>>

NotTheIndex == UNCHANGED <<machine, queue, sent, index, seen>>

\* Tpm::open: the resource manager's device has any number of openers.
CanOpen(c) == tpm = "managed" \/ (tpm = "raw" /\ hold = {})

OpenTo(c, rest) ==
  /\ hold' = hold \cup {c}
  /\ todo' = [todo EXCEPT ![c] = rest]
  /\ UNCHANGED <<conn, req, gone, out>>

Open(c) ==
  /\ At(c, "open")
  /\ IF CanOpen(c) THEN OpenTo(c, Tail(todo[c])) ELSE Fail(c)
  /\ NotTheIndex

\* api_diagnose: neither opening that fails is an error, and the handle of the
\* first is dropped before the second.
Probe(c) ==
  /\ At(c, "probe")
  /\ IF CanOpen(c) THEN OpenTo(c, Tail(todo[c]))
     ELSE /\ todo' = [todo EXCEPT ![c] = Tail(Tail(@))]
          /\ UNCHANGED <<conn, req, hold, gone, out>>
  /\ NotTheIndex

Unprobe(c) ==
  /\ At(c, "unprobe")
  /\ hold' = hold \ {c}
  /\ todo' = [todo EXCEPT ![c] = Tail(@)]
  /\ UNCHANGED <<conn, req, gone, out>> /\ NotTheIndex

Reopen(c) ==
  /\ At(c, "reopen")
  /\ IF CanOpen(c) THEN OpenTo(c, Tail(todo[c])) ELSE Answer(c, out[c])
  /\ NotTheIndex

Reads(c) == [out[c] EXCEPT !.report = index]

\* get_cvm_report(None): a failure is a line of the answer.
Detect(c) ==
  /\ At(c, "detect")
  /\ \/ vm # "absent" /\ Continue(c, Reads(c))
     \/ Continue(c, out[c])
  /\ NotTheIndex

\* Faulty variant: user data that cannot be decoded is taken for none.
ParseUserData_Lenient(c) ==
  /\ At(c, "parse")
  /\ IF Asked(c) = "refused"
       THEN /\ todo' = [todo EXCEPT ![c] = <<"report">>]
            /\ UNCHANGED <<conn, req, hold, gone, out>>
       ELSE Continue(c, out[c])
  /\ NotTheIndex

ParseUserData(c) ==
  /\ At(c, "parse")
  /\ IF Asked(c) = "refused" THEN Fail(c) ELSE Continue(c, out[c])
  /\ NotTheIndex

\* The staging of get_cvm_report_raw.  A write that is reported as failed may
\* have been made.
Stage(c) ==
  /\ At(c, "stage")
  /\ \/ Asked(c) = None /\ Continue(c, out[c]) /\ UNCHANGED <<index, seen>>
     \/ /\ Asked(c) \notin {None, "long"}
        /\ index' = Asked(c)
        /\ seen' = [d \in Conns |-> IF d = c THEN {Asked(c)} ELSE seen[d] \cup {Asked(c)}]
        /\ Continue(c, out[c]) \/ Fail(c)
     \/ Asked(c) # None /\ Fail(c) /\ UNCHANGED <<index, seen>>
  /\ UNCHANGED <<machine, queue, sent>>

\* What the handler makes of the report's type before it goes on.
Unsuited(c) ==
  \/ req[c].api \in {"quote", "platform"} /\ vm # "tdx"
  \/ req[c].api = "isolation" /\ vm # "snp"
  \/ req[c].api = "teeattest" /\ vm \notin {"snp", "tdx"}

ReadReport(c) ==
  /\ At(c, "report")
  /\ \/ vm # "absent" /\ ~Unsuited(c) /\ Continue(c, Reads(c))
     \/ /\ vm # "absent" /\ Unsuited(c)
        /\ IF req[c].api \in {"platform", "teeattest"} THEN Fail(c) ELSE Answer(c, out[c])
     \/ Fail(c)
  /\ NotTheIndex

\* get_ak_cert_trimmed, get_ak_pub, read_pcrs_for_alg: an answer or an error.
Command(c) ==
  /\ At(c, "command")
  /\ Continue(c, out[c]) \/ Fail(c)
  /\ NotTheIndex

\* api_pcrs: a bank that cannot be read becomes a note.
Pcrs(c) == At(c, "pcrs") /\ Continue(c, out[c]) /\ NotTheIndex

\* load_event_log and parse_event_log: no log is a message, except to the
\* verification.
Log(c) ==
  /\ At(c, "log")
  /\ \/ Continue(c, out[c])
     \/ Fail(c)
  /\ NotTheIndex

\* IMDS and THIM answer or fail in the time their clients allow; a client that
\* cannot be built panics, which the handler answers with "Task failed".
Service(c) ==
  /\ At(c, "service")
  /\ Continue(c, out[c]) \/ Fail(c)
  /\ NotTheIndex

ChooseProvider(c) ==
  /\ At(c, "provider")
  /\ IF req[c].provider = "other" THEN Fail(c) ELSE Continue(c, out[c])
  /\ NotTheIndex

\* attest_guest up to the submission: without a report it goes on as
\* TrustedLaunch.
GuestEvidence(c) ==
  /\ At(c, "evidence")
  /\ \/ vm # "absent" /\ Continue(c, Reads(c))
     \/ Continue(c, out[c])
     \/ Fail(c)
  /\ NotTheIndex

\* The provider's answer, opened already where it was an envelope; the loopback
\* provider echoes the request, which is no JWT.
Submit(c) ==
  /\ At(c, "submit")
  /\ \/ Continue(c, [out[c] EXCEPT !.token = "opaque"])
     \/ req[c].provider = "maa" /\ Continue(c, [out[c] EXCEPT !.token = "jwt"])
     \/ Fail(c)
  /\ NotTheIndex

Claims(c) == [out[c] EXCEPT !.claims = IF out[c].token = "jwt" THEN "jwt" ELSE None]

\* Faulty variant: an error of the second opening is the handler's.
Decode_ErrorFails(c) ==
  /\ At(c, "decode")
  /\ IF req[c].decode THEN Answer(c, Claims(c)) \/ Fail(c) ELSE Answer(c, out[c])
  /\ NotTheIndex

(***************************************************************************)
(* decode_token: the guest handler opens the token again, which finds no   *)
(* envelope or fails, and either way decodes the token itself.             *)
(***************************************************************************)
Decode(c) ==
  /\ At(c, "decode")
  /\ IF req[c].decode THEN Answer(c, Claims(c)) ELSE Answer(c, out[c])
  /\ NotTheIndex

Work(c) ==
  \/ Open(c) \/ Probe(c) \/ Unprobe(c) \/ Reopen(c) \/ Detect(c)
  \/ ParseUserData(c) \/ Stage(c) \/ ReadReport(c)
  \/ Command(c) \/ Pcrs(c) \/ Log(c) \/ Service(c)
  \/ ChooseProvider(c) \/ GuestEvidence(c) \/ Submit(c) \/ Decode(c)

-----------------------------------------------------------------------------

\* External: the server is killed; the kernel closes what it had open, the
\* user-data index stays.
Crash(s) ==
  /\ Kill(s)
  /\ conn' = [c \in Conns |-> "free"] /\ todo' = [c \in Conns |-> <<>>]
  /\ queue' = <<>> /\ hold' = {} /\ gone' = {}
  /\ out' = [c \in Conns |-> Blank] /\ seen' = [c \in Conns |-> {}]
  /\ req' = [c \in Conns |-> Any]
  /\ UNCHANGED <<machine, index, sent>>

Client(c) == Connect(c) \/ Handshake(c) \/ Leave(c) \/ \E r \in Requests : Send(c, r)
Serve(c) == Accept(c) \/ Take(c) \/ Work(c)

\* The last server is down for good, or the clients have sent all they will.
Quiet ==
  \/ Finished
  \/ Up /\ sent = MaxRequests /\ \A c \in Conns : conn[c] \in {"free", "open", "answered"}

WebNext ==
  \/ \E s \in Servers : (Start(s) \/ Step(s)) /\ UNCHANGED web
  \/ \E s \in Servers : Crash(s)
  \/ Up /\ (\E c \in Conns : Client(c) \/ Serve(c)) /\ UNCHANGED vars
  \/ Quiet /\ UNCHANGED everything

\* The runtime polls every task that is ready, the kernel hands over every
\* connection of the backlog, and every call of a handler returns: the clients
\* of IMDS, THIM and MAA time out.  Nothing is promised of clients.
WebFairness ==
  \A c \in Conns :
    /\ WF_everything(Up /\ Accept(c) /\ UNCHANGED vars)
    /\ WF_everything(Up /\ Take(c) /\ UNCHANGED vars)
    /\ WF_everything(Up /\ Work(c) /\ UNCHANGED vars)

WebSpec == WebInit /\ [][WebNext]_everything /\ WebFairness

-----------------------------------------------------------------------------

Answered(c) == conn[c] = "answered" /\ out[c].result = "ok"

(***************************************************************************)
(* The report in an answer carries the user data of the request, or what   *)
(* another request staged after it did; a request without user data gets   *)
(* what was staged last before it or while it ran (nothing clears the      *)
(* index), and a request whose user data cannot be decoded or is too long  *)
(* gets no report.  Through clients that leave, handlers that go on        *)
(* without them, and servers killed between the staging and the answer.    *)
(***************************************************************************)
ReportIsOfTheRequest ==
  \A c \in Conns : Answered(c) /\ out[c].report # None =>
    /\ out[c].report \in seen[c]
    /\ Asked(c) \in {None} \cup seen[c]

(***************************************************************************)
(* An attestation that gave a token is answered with it, whatever becomes  *)
(* of the second opening, and with its claims when it is a JWT and they    *)
(* were asked for (api_guest_attest, decode_token).                        *)
(***************************************************************************)
TokenReachesClient ==
  [][\A c \in Conns :
       /\ out[c].token # None /\ conn[c] = "running"
       /\ conn'[c] = "answered"
       => /\ out'[c].result = "ok" /\ out'[c].token = out[c].token
          /\ req[c].decode /\ out[c].token = "jwt" => out'[c].claims = "jwt"]_everything

(***************************************************************************)
(* On a machine whose TPM is there, a request is refused the device only   *)
(* while another request has it open: no handler stands in its own way,    *)
(* and none that ended, failed or was abandoned keeps it.                  *)
(***************************************************************************)
RefusedOnlyForAnother ==
  \A c \in Conns :
    tpm # "none" /\ (\E step \in {"open", "probe", "reopen"} : At(c, step)) /\ ~CanOpen(c) =>
      \E d \in Conns \ {c} : d \in hold /\ conn[d] = "running"

(***************************************************************************)
(* While the server is up, a connection is taken from the backlog however  *)
(* long other clients stall their handshakes, and a request sent is        *)
(* answered, however few threads there are and whoever left theirs busy.   *)
(***************************************************************************)
EveryRequestIsAnswered ==
  \A c \in Conns :
    /\ (Up /\ conn[c] = "backlog") ~> conn[c] # "backlog"
    /\ conn[c] \in {"queued", "running"} ~> conn[c] \in {"answered", "free"}
=============================================================================
