# Verification of the Azure guest attestation SDK

This directory holds TLA+ models of the SDK (`src/` of the repository), the TLC
configurations that check them on small instances, and theorems about them that the
TLA+ proof system (TLAPS) proves for every value of the constants. The models are
written from the source; `PROJECT.json` maps each definition to the lines it
translates, each run to what it checks, each hazard of the code to the properties
that guard it.

    tlc -workers 2 -config TpmDevice.cfg TpmDevice     one run
    tlapm EphemeralKey_proofs.tla                      the proofs of one module

## 1. The system and its parts

The SDK attests an Azure confidential VM (SEV-SNP, TDX, VBS) or a TrustedLaunch VM. A
*vTPM* gives it a hardware report (through an NV index), PCR quotes and keys; *IMDS* of
the host gives TD quotes and the VCEK certificate chain; the *MAA* service turns the
evidence into a token, which for the guest flow comes back encrypted to a key bound to
the PCRs. No lock spans two TPM commands; several programs, and several handler threads
of the web service, use one TPM at a time.

| part | code | state it keeps | operations | interacts with |
|---|---|---|---|---|
| TPM device access | `azure-tpm/src/device.rs` | the open device file or TBS context, a Mutex; the driver keeps one unread response | `Tpm::transmit` | every TPM command goes through it |
| TPM commands | `azure-tpm/src/commands.rs` | none of its own; NV indices, PCRs, sessions, transient and persistent objects of the TPM | NV read/write/define/undefine/extend/certify, PCR read, primary keys, load, quote, certify, policy sessions, RSA decrypt, sign, unseal, evict, flush | TPM device; called by all below |
| TPM structures and marshaling | `azure-tpm/src/types.rs`, `helpers.rs` | none: encoders and decoders | build a command, take its response apart | the bytes every command and answer is made of |
| CVM report and user data | SDK `tpm/attestation.rs:283-470`, `report.rs` | the user-data NV index (shared by all callers), the report index the platform derives | `get_cvm_report_raw`, `get_user_data_nv` | NV commands; platform |
| PCR reads | `commands.rs:504-611` | selection, what remains, what was collected | `read_pcrs_for_alg` | firmware and OS extend PCRs meanwhile |
| Device evidence, ephemeral key | `attestation.rs:210-261`, `client.rs:368-414, 684-703` | sessions and keys loaded in the TPM | `get_tpm_evidence`, `decrypt_token` | PCR reads, persistent AK, service |
| Persistent keys | `attestation.rs:83-164` | the persistent AK and ECC signing key | `ensure_persistent_ak`, `create_and_persist_ecc_signing_key`, `sign_with_ecc_key` | other callers, reboots |
| AK certificate | `attestation.rs:171-190` | an NV index provisioned by the platform | `get_ak_cert` | NV commands |
| Attestation client and providers | `client.rs`, `guest_attest/*.rs` | the stage of a call, retries, backoff | `attest_guest`, `attest_platform`, `get_endorsement`, `create_attestation_report` | evidence, IMDS, MAA |
| TCG event log | `azure-tpm/src/event_log.rs` | none; reads files that firmware and systemd write | load, parse (binary, JSON), replay | files; PCR reads for verification |
| Web service | `tools/azure-guest-attest-web/src/main.rs` | certificate files; connections, blocking threads, one TPM handle per handler | accept loop, TLS set-up, REST handlers | everything above, concurrently |
| Command-line tools | `tools/azure-guest-attest`, `azure-tpm-tool`, `azure-guest-local-verify` | none | printing around library calls; event-log verification | everything above |
| TEE reports and quotes | `report.rs`, `parse.rs`, `tee_report/*.rs` | none: parsers | parse SNP, TDX and VBS reports, TD quotes, the FMSPC of a PCK certificate; print | evidence verification, tools |
| COSE and endorsements | `cose.rs`, `endorsement.rs`, `endpoint.rs` | none: a parser and HTTP look-ups | read a COSE_Sign1 message, fetch an endorsement, choose an endpoint | THIM |
| Evidence verification | `verify/*.rs`, `verify/snp/vcek.rs`, `verify/crypto/*.rs` | none: checks of files collected at different moments | `verify_snp_report`, `verify_td_quote` | crypto back ends, `azure-guest-local-verify` |

What makes each part right, and what makes that hard:

* **device**: an answer belongs to the caller's command. Hard: a read that fails after
  the write leaves a response with the driver; threads queue on the Mutex.
* **CVM report**: a report fetched with user data carries that data, never older data.
  Hard: write and read are separate commands on an index everybody shares; responses
  get lost after execution; a report takes several chunks.
* **PCR reads**: complete answers of the call's time. Hard: the TPM splits the selection
  as it likes; extends in between.
* **ephemeral key**: the token opens under the attested PCR values, always and only;
  every handle is flushed. Hard: a dozen commands any of which may fail; PCRs move
  between quote, values, policy, recreation and use.
* **persistent keys**: Ok means the key is at its handle; no transient object leaks.
  Hard: probe and EvictControl are not atomic; lost responses; reboots.
* **NV storage**: an Ok transfer moved every byte to or from its place. Hard: the index is
  rewritten, removed or resized between chunks; the u16 offset; a last partial chunk.
* **client**: user data asked for is never dropped, the isolation type sent is the
  machine's, a token answers the submission waited for. Hard: retries against a service
  that may process a request late; a fallback that looks at no error code.
* **event log**: a PCR said to match was measured as logged. Hard: logs and PCRs are read
  at different moments while the system measures; several logs, one possibly twice.
* **marshaling**: the TPM understands what the caller asked, and the caller gets what the
  TPM said. Hard: sizes computed from parts, bits and bytes in their order, unions whose
  layout depends on a field, answers cut anywhere.
* **quotes, reports, endorsements**: what is read is what was written. Hard: four layouts of
  a quote, nested lengths, envelopes; DER and CBOR lengths of several forms.
* **verification**: what is accepted is what one trusted platform signed, and what it
  signed is accepted. Hard: chains that end elsewhere, report and certificates collected
  before and after a firmware update, a TCB layout that depends on the processor.
* **web service**: an answer is the answer to its request, and each request gets one. Hard:
  handlers run on blocking threads, interleave on one index and one device, and go on
  when their client left; a client may stall its handshake for ever.
* **certificate files**: a served identity survives restarts. Hard: kills between and
  within two file writes.

## 2. Modules, and how they correspond to the code

A TPM command is one step in all modules but `TpmDevice`, which shows what that step
stands for: `TpmDevice` implements `TpmCommand`, in which a call executes its command at
one moment and returns its response, or fails with the command executed or not. The same
two failures, *not executed* and *executed, response lost*, appear in the other
modules' actions: a value staged, a session or a key of which the caller never learns, an index
that is there or gone all the same. `TpmExchange` shows that the bytes of a command mean to the TPM what the other
modules take them to mean.

| module | models | state | actions |
|---|---|---|---|
| `TpmDevice` | `Tpm::transmit` on Linux and Windows | `owner` = Mutex, `kept` = the driver's unread response, `pc`, `part` = the header read | `Transmit` (checks before the lock), `Lock`, `Write`, `ReadHeader`, `ReadRest` (Linux), `Submit` (Windows), `Drop` (driver timeout, external) |
| `TpmCommand` | what it promises | status, executed commands, answers | `Begin`, `Execute`, `Answer`, `Fail` |
| `CvmReport` | `get_cvm_report_raw` and the NV commands under it | the user-data index, the log of values written to it, `image` = position of the log the report was derived from, each client's chunks | `Begin` (length check), `Find`, `Define`, `WritePublic`, `Write`, `ReadPublic`, `ReadChunk` |
| `StagedReport` | what it promises: a regular register | log, data, window of each call | `Begin`, `Stage`, `Answer`, `Fail`, `StageAndFail` |
| `PcrRead` | `read_pcrs_for_alg` | selection, remaining, collected; values each PCR had during the call | `StartRead`, `ReadSome`, `Extend` (external) |
| `EphemeralKey` (uses `PcrRead`) | `get_tpm_evidence`, `get_ephemeral_key`, `compute_pcr_policy_digest`, `decrypt_token`, `rsa_decrypt` | sessions and objects loaded, those the TPM has loaded for nobody (`unseenSessions`, `unseenKeys`: the response with the handle was lost or not understood), session digest, policy, evidence, token | one per command: `Quote`, `ReadValues`, `PcrReadStep`, `OpenTrial`, `TrialPcr`, `GetDigest`, `FlushTrial`, `CreateKey`, `Certify`, `DropKey`; `DecryptToken`, `ParseToken`, `OpenPolicy`, `PolicyPcr`, `RsaDecrypt`, `FlushPolicy`, `FlushKey` |
| `PersistentKey` | `ensure_persistent_ak`, `create_and_persist_ecc_signing_key`, `sign_with_ecc_key` | persistent keys, transient objects, those nobody will flush | `Probe`, `Create`, `Evict`, `Flush`, `ReadBack`, `Sign`, `Reboot` (external) |
| `NvIndex` | `read_nv_index`, `write_nv_index`, `nv_define_space`, `nv_undefine_space`, `get_ak_cert` | index, size, content by writer and position; each call's offset and data | `CertPublic`, `Public`, `ReadChunk`, `WriteChunk`, `Define`, `Undefine` |
| `Attestation` | `attest_guest`, `attest_platform`, providers, TD quote | stage, `slot` = what the user-data index holds seen from the call, `carried` = the value its evidence was derived from, evidence type, isolation type sent, attempts, submissions posted and served | `Begin`, `Stage`, `Overtake` (another caller stages, external), `CvmEvidence`, `DeviceEvidence`, `BuildReport`, `TdQuote`, `Submit`, `Serve` (external), `Answer`, `NoAnswer`, `Backoff`, `Decrypt` |
| `MeasuredBoot` (extends `PcrRead`) | log loading and replay, `api_verify_pcrs`, `tpm-event-log --verify` | firmware log, journal, PCRs; what each digest stands for; verdict | `BootExtend`, `BootNoAction`, `Booted`, `RunExtend`, `Record` (external), `Verify`, `ReadStep`, `Compare` |
| `EventLogParser` | `parse_event_log`: the header reading, crypto-agile, SHA-1 and JSON readings, in this order | `log` as cells, cursor `at`, reading tried (`way`), `stage` and `entry` being read, announced `sizes`, events `parsed` | `Finish`, `Event1Entry`, `Event2Head`, `ReadDigest`, `Event2Tail` (with `Again`, the second attempt), `JsonEntry`; `Abandon` ends a reading |
| `TpmWire` | encoders and decoders of `types.rs` and `helpers.rs`, by kind of field | (operators) | |
| `TpmCommands` (extends `TpmWire`) | each function of `commands.rs`: the command it builds, the checks before it, what it makes of the answer | (operators) | |
| `TpmExchange` (extends `TpmCommands`) | one exchange with a TPM that reads the bytes by the structures of TPM 2.0, external; it shares with the crate the primitive readers only | request, bytes sent, what the TPM understood, answer, result | `Send`, `Reply` (external: whole, cut, longer or refused), `Take` |
| `TdQuote` | `parse_td_quote`, `unwrap_qgs_get_quote_response`, `verify_td_quote` | (operators) | |
| `Fmspc` (extends `TdQuote`) | the walk from a PCK certificate to its FMSPC | (operators) | |
| `SnpReport` | `verify_snp_report` and the VCEK binding of `vcek.rs` | (operators) | |
| `Cose` | the CBOR reader and `parse_cose_sign1_payload` | (operators) | |
| `Evidence` (composes the four above) | evidence on its way to `azure-guest-local-verify` and THIM endorsements | host, layout, files, which host each came from, the day, verdict | `Collect`, `Verify`; external `Change` (update or move of the host), `Rot` (cut, torn, altered files), `Tomorrow` (days pass) |
| `WebService` (extends `TlsIdentity`) | `serve_https`, the handlers and what they share | connections, requests, queue for threads, open handles, user-data index, answers | `Accept`, `Handshake`, `Take` (a blocking thread), the steps of the handlers (`Open`, `Probe`, `Unprobe`, `Reopen`, `Detect`, `ParseUserData`, `Stage`, `ReadReport`, `Command`, `Pcrs`, `Log`, `Service`, `ChooseProvider`, `GuestEvidence`, `Submit`, `Decode`); external `Connect`, `Send`, `Leave`, `Crash` |
| `TlsIdentity` | `load_or_generate_self_signed` and its callers | the two files, each server's step | `Start`, `Look`, `ReadCert`, `ReadKey`, `WriteCert`, `WriteKey`, `WriteFails`, `Listen`, `Kill` (external) |

Structures within structures are decoded by RECURSIVE operators in `TpmWire` and
`TpmExchange`, which the provers cannot unfold; these modules have no theorems. The
recursion of `cose.rs` over items is a function of the position instead (`SkipItems`), so
that `Evidence`, which composes `Cose`, can be proved about.

`MC*.tla` only give constants that a .cfg cannot write. `*_proofs.tla` hold theorems.
Definitions named `X_Something` are the faulty variants of `X` (a dropped guard, a lost
error, a missing flush) that show each property notices: with `X` replaced by
its variant the named property fails.

Data is abstracted to what the properties tell apart: user data to two values, "none"
and "too long"; a digest to a number, fresh for every extend (no collisions); NV content
to who wrote a byte and which byte of his it was; an event log to cells, one per integer
and four or five per digest, of which only the first may look like a length (so
`MAX_EVENT_DATA_SIZE` is a number of cells too: larger than a header of 32 banks, as in the code,
smaller than `Random`, the cell that is no size, by `RandomAssumption`), and the digests of an
EV_NO_ACTION event may be zeros, as the firmware writes them; a
certificate and its key to the start that generated them. In the quote, a report or a
body is a few fields of any size and a signature is a cell that names its key and what
it signs (ideal: no other key makes it); a length or a type is a cell of its own, DER
and CBOR are byte by byte, for they are what the parsers are about. A certificate has a key, what it
signs for it, the days it is valid on, whether it is a CA's and, of a VCEK, its KeyUsage; a PEM block may
hold no certificate at all. The attested hosts are
constants: a TD has the keys of its platform, and `PlatformAssumption` says what makes keys
somebody's own (a CA has one issuer, no key plays two parts); an SEV-SNP chip is of a
generation the verifier knows and has an identifier other than zero (`SnpAssumption`; zero is what a masked
identifier reads as, and is refused), and one VCEK has one certificate. In `TpmExchange`
bytes are bytes. A handler of `WebService` is the list of the library calls it makes,
each taken at what that call's own module shows, so that `WebService` composes with
`CvmReport`, `Attestation`, `PcrRead` and `EventLogParser` by their promises and not by
their steps. The TPM, driver, platform, service, firmware, rustls and the tokio runtime
are external: they are modelled from how the code uses them, as permissively as it must
expect.

## 3. Runs

| run | instance | distinct states | question |
|---|---|---|---|
| `cvm_report` | 2 clients, 2 values, reports of 2 chunks, 3 calls | 28 419 | no stale user data; implements `StagedReport` |
| `cvm_report_race` | 2 clients, 1 chunk, 2 calls | violated | a report carries its own caller's data |
| `ephemeral_key` | PCRs 0, 1; 6 selection shapes; 1 digest per response; 1 extend; 2 sessions, 3 objects; 2 decrypts; any response lost | 800 642 | handles; round trip; evidence coherent; opened under attested PCRs only; calls return |
| `persistent_key` | 2 clients, 3 object slots, 4 calls | 11 050 | Ok means persistent; handles; alone leaves nothing |
| `nv_index` | 2 clients, sizes 0, 3, 7; chunk 2; largest offset 7; 3 calls | 244 466 | transfers whole; no overflow; calls return |
| `attestation` | 2 calls, one after the other, each flow and provider; another caller staging at any moment | 3 087 | user data, isolation, retries, token; calls return |
| `tpm_device` | 2 threads, 3 calls | 11 598 | answers own command; implements `TpmCommand`; calls return |
| `measured_boot` | PCRs 0, 1; 2 extends, 2 firmware events | 1 716 760 | match means logged; no false alarm; reads complete and return |
| `event_log_parser` | 3 lists of banks, 1 or 2 events after the header, 4 formats, zero digests, cut anywhere | 612 667 | read as logged, or refused; the parser ends |
| `tpm_exchange` | 23 commands; byte strings of 0, 1, 3 bytes; 5 PCR lists; limits of 2, 1, 3 and 2 bytes; answers cut anywhere | 163 222 | commands understood as asked; answers taken; quotes read back |
| `evidence` | 4 TDX and 7 SNP hosts, 4 endorsements, two of them JSON; every layout; 2 days; 1 change of the host, 1 damaged file | 2 980 384 | accepted is genuine; genuine is accepted; FMSPC; payload |
| `web_service` | 1 server, 2 starts, 2 connections, 1 or 2 threads, 2 requests of 8 shapes | 329 938 | report of the request; device; identity kept and loaded; token; every request answered |

`web_service` takes about two minutes, `measured_boot` and `evidence` about one, the others less.

Why the bounds suffice:

* *two clients*: every hazard here is one call against one other; a third only repeats
  the role of the second. `persistent_key` with one client is within the instance.
* *two chunks, sizes 0, 3, 7 with chunk 2*: no chunk, a whole and a partial one, several;
  7 is at once the largest offset, so that the overflow of the u16 occurs if it can.
* *three or four calls*: a call before, during and after another, and a repeated one.
* *one digest per response*: a response is full after one, so each selection of two is
  split; subsets are chosen freely, so are responses out of order.
* *one or two extends*: between any two commands, before or after any call.
* *one or two sessions, three objects*: the slots run out within the calls of an instance
  when handles leak.
* *two events after the header*: an entry before and after a mistaken one; algorithms known,
  announced only and unknown; every cut of every log, so every integer is missing once.
* *two starts*: one that is torn or writes both files, and the one that loads them, or
  refuses; every later start repeats the second.
* *byte strings of 0, 1 and 3 bytes, limits of 1, 2 and 3*: none, within and beyond each limit
  of a command (1024, 64 and 512 in the code); a ciphertext one byte longer than the modulus, with a
  leading zero and without. Beyond `MaxAuth` (65535 in the code) an authorization value is refused. Sizes above 255 occur as numbers (key bits, NV sizes and offsets),
  so that bytes in the wrong order show. PCR lists have the first and last bit of a byte, the last
  PCR and one too many.
* *answers cut anywhere, one byte longer, or a response code*: each decoder meets the end of
  the answer in each of its fields, and those that refuse an answer of less than 14 bytes meet
  answers just below and at that length.
* *one change and one damaged file*: report and certificates of two TCBs or two hosts; each
  field, certificate or cell altered, each cut. Four platforms, of which one chains to another root and one
  has an issuer that is no CA; chips whose VCEK may not sign, or has a KeyUsage that cannot be read.
* *two days*: a certificate is not yet valid, valid or expired on one of them, and a day may pass between the
  collection and the verification.
* DER lengths in forms of one, two and three bytes, as the certificates of PCKs have them; CBOR heads of all five widths.
* *two connections, two requests*: a request while another is served, and one that waits for
  the only thread; the shapes of handler are those with a different list of steps, less the
  shorter ones. The machine of the run is an SNP one.
* numbers bounding behaviours (`MaxCalls`, `MaxExtends`, `MaxEvents`, `MaxStarts`, `MaxRequests`,
  `MaxChanges`, `MaxDamage`) are guards of actions of callers and environment only; what a call does is never cut short.

Deadlock is checked in every run: a model may only stop where calls, starts
or extends are used up, which a `Finished` (or `Quiet`) stutter marks.

**Fairness.** The `FairSpec` of `EphemeralKey`, `NvIndex`, `Attestation`, `TpmDevice` and
`MeasuredBoot`, and `FairParserSpec` of `EventLogParser`, assume weak fairness of the step of each *calling thread* (`Step(c)`,
`Command`, `ReadStep \/ Compare`), which the operating system's scheduler gives a thread that
can run. A TPM command returns (the drivers have timeouts), an HTTP exchange ends (the HTTP
clients have timeouts: IMDS 60 s, MAA 300 s, THIM the client's default), so a step is always
enabled; which way it ends is never assumed: it may fail for ever. No fairness is assumed of
the environment: nobody need extend, serve, record, drop a response or restart a server. In
`TpmDevice` the Mutex is not assumed fair: weak fairness of each thread suffices as calls are
bounded, with unbounded traffic a thread could starve on an unfair Mutex.

`WebSpec` assumes the same of the accept loop for each connection of the backlog, of each waiting
request's turn on a blocking thread, and of each handler's step, while the server is up:
tokio polls every task that is ready and its blocking queue is first in, first out. Nothing
is assumed of clients, who may stall a handshake or stay connected for ever, nor
is a server assumed to be killed or not to be. `accept` may fail, which costs the connection it was
about and nothing else.

## 4. What is proved

All with `tlapm`, for every set of clients, data, selections and every bound, from the
`ASSUME`s of the modules (types of the constants, distinct special values, the shape of a
request). Three theorems have a hypothesis of their own: the identity of the web service is
proved of one server on its directory (two do overwrite each other), and `AloneIsClean` of a
TPM with at least one object slot (without one, no key can be created).

* **`CvmReport_proofs`**. `IInv` strengthens the type invariant with, for each client:
  a call that has written its value has the position of that write in `base` and it is
  its own (`OwnWriteIsBase`); every chunk read derives from a log position at or after
  `base` (`ReadIsFresh`), where the platform's `image` is at least as new as each chunk.
  `Init => IInv`, one lemma per action, `Invariance`. From it `TypeCorrect`,
  `NeverStale`, and `Implements`: each action is mapped to an action of `StagedReport`
  or a stutter (the read that completes a report to `Answer`, an NV_Write to `Stage`,
  `StageAndFail` or `Fail`).
* **`TpmDevice_proofs`**. Only the holder of the Mutex is between write and return
  (`Exclusive`); what the driver keeps while a thread reads is nothing or the response to that
  thread's command (`KeptIsOwn`); a command runs in the write only (`RanWhen`); numbers of
  commands are never reused (`Numbered`). From it `TypeCorrect`, `OwnAnswer` and
  `Implements`, which justifies taking a command for one step in every other module.
* **`EphemeralKey_proofs`**. Two counting invariants tie the TPM's sessions and objects to
  the program counter (`SessionsAccounted`, `KeysAccounted`): a path that forgets a
  flush breaks them. What StartAuthSession or CreatePrimary loaded and the caller never heard of is
  counted apart, one for each such failure: nobody has a handle to flush. They need that a policy session is only opened for a
  selection with PCRs (`PolicyNeedsPcrs`). `OpensOnlyUnderAttestedPcrs` needs
  `SessionFresh`: while no PCR was extended since PolicyPCR, the session's digest is
  the digest of the PCRs now; RSA_Decrypt compares with the key's policy and with the clock.
  `EvidenceIsCoherent` and `RoundTrips` need `RoundInv`: as long as no PCR was extended since the
  call began, what the reader collected, the quote, the values, the session's digest and the
  policy are all those of the present PCRs (`ReaderFresh`, `EvidenceFresh`); if no command
  failed and the selection is canonical besides, no step takes an error path
  (`SmoothCall`), a free slot for each session and key following from the counting invariants.
* **`PersistentKey_proofs`**. `Persisted`: a call past EvictControl, or answered Ok, has its
  key at the handle, which nothing removes. `HandlesAccounted` is inductive once the clients
  that hold a transient object are counted (`Holders`): one lemma per way a step may change
  that set (`TakesUp`, `GivesUp`, `Keeps`), with the library's facts on cardinality. From it
  `OkIsPersisted` and `ObjectsAccounted`, for every finite set of clients. `AloneIsClean`
  (`AloneInv`): a client alone creates a key only where it found none, so nothing makes its
  EvictControl fail. Being alone is a count of clients; `OnlyOneMoves` turns it into "the
  others are idle".
* **`NvIndex_proofs`**. `SpaceOK`: each byte of the index is at its place, which a chunk
  written in bounds preserves (`OverwrittenIsPlaced`). `Moved`: while a call reads, it
  has as many bytes as its offset says, never more than the size it was told, each from
  its place (`ChunkIsPlaced`). From it `TypeCorrect` and `ReadsAreWhole`: another client may
  rewrite, undefine or redefine the index between two chunks; the read then fails, or it has
  as many bytes as it was told at first. `TransfersLand` (`SoloInv`): as long as the others are
  idle, the size a call was told is that of the index (`Undisturbed`), so every chunk is in
  bounds and the bytes moved so far are those of the other side.
* **`Attestation_proofs`**, about `Attestation` and `Evidence`. *The client*: `EvidenceIsOwn`: evidence is the machine's, and only a guest call
  without user data goes on without any; `DataIsBound`: a report collected after the call staged its
  value was derived from that value, or from one somebody staged after it and before the report, never from an
  older one; `ReportFits`: a report matches the
  evidence; `AnswerIsOwn`: the answer is that of the submission waited for; `TriesLeft`
  bounds the attempts. From it `UserDataKept` (no request leaves without evidence so
  derived), `IsolationIsOwn` and `TokenIsOwn`. *The
  verification*: `AcceptedIsOwn`, that what the tool shows when it succeeds is what one host below
  a pinned root measured, for any hosts that satisfy `PlatformAssumption` and `SnpAssumption`, any number of updates,
  any damage and any days. The inductive invariant is `GenuineInv`, of which `Assembled` carries the weight: damage
  cuts, tears and alters, but each cell that is left is one that some host
  wrote in some file of the kind (`DamagedQuote`, `DamagedReport`, `DamagedChain`), and only the host
  of a key writes that key's signatures. The rest is what one verification may conclude from such cells,
  whatever their order. *A TD quote*: a signature is over a flattening of cells, where marks tell a
  nested signature, hash or certificate from numbers. What an attestation key signed is therefore some TD's
  body (`BodySigned`), cut as that TD laid it out (`BodyShape`, from the offsets and lengths
  `QuoteRead` and `SignatureRead` find); the hash in the quoting enclave's report fixes the attestation
  key, and its signature the PCK, so that all three are one platform's (`QeSigned`); and a
  chain that ends at `IntelRoot` starts with a certificate a CA of that platform signed (`PckRoot`).
  The measurement shown lies within what was signed (`MeasuredRead`). *An SNP report*: keys are
  told apart by the length of their names (`TiersDiffer`), so the key that signed the report is a VCEK, of one
  chip and one TCB, whose certificate an ASK below `AmdRoot` signed (`CertifiedKeys`,
  `VcekRoot`). One lemma per verification (`TdxAccepted`, `SnpAccepted`) and per step closes the
  proof. *The converse*: `GenuineIsNotRefused`, that whole evidence of one host below a pinned root is
  accepted and shows what that host measured, on every day on which the host's certificates vouch for it
  (`Certifies`: within their periods, the issuer's a CA's, and a VCEK that may sign; on any other the code refuses). `AsWritten`
  joins the invariant (`AcceptInv`): as long as nothing is damaged, a file holds what the host it was collected
  from wrote. Then each parser is shown to undo what the host did, inside out: the certificates are found in each
  layout (`LaidOutRead`), the certification data and the signature around them (`AuxBack`, `SignatureBack`),
  the quote around those in each version (`QuoteBack`), the envelope around the quote (`EnclosedBack`),
  and every check of the verification holds for what was read (`SignedVerifies`, `QuoteVerified`). The report of a chip
  and the extensions of its VCEK agree for each version and generation, with Turin's own layout of
  the TCB (`FormatVerified`, `TcbIs`, `ExtensionsVerified`, `SnpVerified`). Facts on numbers and on concatenations that both this module and `EventLog_proofs` need are
  stated in each, as neither part knows of the other.
* **`EventLog_proofs`**, about `PcrRead`, `MeasuredBoot` and `EventLogParser`. *The reader*: what remains and
  what was collected partition the selection, and each digest collected is one its PCR
  `held` since the call began (`Progress`); hence `AnswersAreComplete`, for every selection and
  split, and `ReadsAreComplete` for the reads of a check. *The replay*: `Measured(es, i)`
  is the loop of `replay_pcrs`, a recursive function of the number of events read. By induction
  over the log its digests are those the log tells of PCR `i` (`AllIsTold`), and the replay of two
  logs in a row is that of the first and then of the second (`AllConcat`). The induction is the lemma
  `Induct`, over sets of numbers rather than predicates: the least number outside a set that has 0
  and every successor (`WFMin`) would be the successor of one inside. *The check*:
  `CheckInv` says that at every moment, firmware log, journal and the measurements that are still to be recorded
  (`owed`) together give the truth about each PCR that is not untold (`LogsTell`); that the loaded
  events do too, if nothing was owed when they were loaded, for a PCR told once and not extended
  since (`EventsTell`); and that a verdict is the comparison of the replay with what was
  read (`Compared`). From it `MatchesAreLogged` and
  `NoFalseAlarms`. *The parser*: `LoggedIsRead`, that a log is read as logged or refused, in its four
  formats, for any banks, with any number of entries of any length, and cut anywhere, under `Clear`: the
  exceptions, of which section 5 tells, are digests that look like a length and zeros that mislead. The file is a
  concatenation of the cells of its entries (`Parts`); `Upto` is the concatenation of the first ones, and
  `UptoSteps`, `UptoLonger` and `AheadUpto`, by induction, say that the cursor after `n` entries
  is at `Off(n)` and what the file holds there. Lemmas on what firmware logs (`LogsAre`,
  `HeaderIs`, `DigestCellsAre`) and on what one entry looks like from the cursor (`Event1Ahead`, `Event2Ahead`,
  `DigestAhead`) then give each step of the parser on each kind of entry: it reads
  the entry, or the file ends within it. The invariant (`ParserInv`) says, of each of the four
  readings of each of the four formats, what it has come to (`Reading`). It is more than "a prefix of
  the log has been read", for the parser goes on where an entry was misunderstood: a digest
  cut by the end of the file is taken for a shorter one (`Exhausted`), the second attempt takes what a digest begins
  with for its length (`Misled`); both are harmless because the file then ends in the middle
  of an entry (`Stuck`), and a reading that fails is followed by others, which fail too
  only because it does (`Mid`). Crypto-agile entries of algorithms the parser does not know need that
  the header announced their size (`SizesAnnounced`). All of it under `Clear`, the exclusions of the
  property itself. `ParserAssumption` (a bank list has 1 to 32 algorithms) and `RandomAssumption` are the
  only assumptions.
* **`WebService_proofs`**, about `TlsIdentity` and `WebService`. `ServiceImplementsTls`:
  the whole service implements `TlsIdentity`, that is, no request, handler or client
  touches the certificate files. *The identity*: `Stable` says, for each step of a start, what the
  files hold if no earlier start was torn; from it `PairLoads`, and `IdentityIsKept`, an action
  property. *The requests*: the handlers are `WellMade` (each device handle is let go
  before the next is opened, no user data is staged after a report is read, a token is
  followed by its decoding only); every list of steps has this by `HandlersWellMade`,
  and so has what remains of it after a step (`RestWellMade`). `WebInv` adds that a running handler's
  remaining steps fit what it did: it holds the device only if nothing that remains opens
  it first, its user data is staged or will be before any report. From it
  `ReportsAreOfTheRequest`, `RefusalsAreForAnother` and `TokensReachClients`, for any number of
  connections, threads and requests.

Type invariants (`TypeOK`) are parts of the inductive invariants and proved (`TypeCorrect`);
no run checks them apart.

Each strengthening was a TLC invariant of its run's instance before it was proved (`ParserInv` with
one entry to a log, for the time it takes), except `Assembled`, which TLC cannot evaluate: it speaks of
all sequences of the cells of all hosts.

Only model-checked:

* all liveness (`EveryCallReturns`, `CallsReturn`, `ReadReturns`, `ParserEnds`,
  `EveryRequestIsAnswered`), out of the prover's reach;
* `TpmExchange` (`CommandsMeanWhatWasAsked`, `AnswersTaken`, `QuotesReadBack`): structures
  within structures are RECURSIVE operators there;
* `FmspcIsThePlatforms` and `PayloadIsTheEndorsement` of `Evidence`: walks over nested DER and CBOR, which
  are inductions over the data.

## 5. What the checks found

One statement is a run that is expected to be violated and the entry under "findings":
*a report may carry another client's user data* (`cvm_report_race`). The data is staged
in an index shared by all, read by a later command, and nothing is locked in between.
What the code does guarantee is `NoStaleUserData`: nothing older than the call's own
write. The nonce of the report must be compared by whoever relies on it.

Three more statements are not what the code does; the models have the paths, no run is about them:

* `get_ak_cert` is documented to return an empty `Vec` for an undefined index
  (attestation.rs:172). It tests for `io::ErrorKind::NotFound` (:182), but an undefined index
  is a TPM response code, of another kind, and an error (`CertPublic` of `NvIndex`).
* `attest_guest` is documented to detect TrustedLaunch by the absence of the report index
  (client.rs:519-522), and takes any failure to collect the evidence for it (:556), unless user data
  was asked for (`CvmEvidence` of `Attestation`).
* `submit_tee_only` is documented to return the token string (provider.rs:229). Of an answer of status 2xx
  whose body is lost it makes an empty one (:264), and the call succeeds with it (`Answer` of
  `Attestation`; `TokenAnswersRequest` has it as an exception).

Other observations made while modelling; where an invariant states one as an exception, it is named.
Sequences and state:

* A lost response of StartAuthSession or CreatePrimary leaves the session or the key loaded, and nobody knows
  its handle (`unseenSessions` in `SessionsBalanced`, `unseenKeys` in `KeysBalanced`).
* A failed TPM2_Certify returns without flushing the key (`orphans` in `KeysBalanced`).
* Two callers that find no AK race; the loser's EvictControl fails, it returns Err though
  the key now exists, and its transient object stays (`leaked` in `HandlesAccounted`).
  `AloneLeavesNothing` holds of a caller without competition.
* A kill between the writes of `cert.pem` and `key.pem`, or within one, leaves a pair that
  every later start refuses to load (`torn` in `LoadsUnlessTorn`); a `Restart=on-failure`
  service then loops. Two servers on one directory overwrite each other's identity.
* The replay extends with every event that has a digest of the bank's length,
  EV_NO_ACTION events included (`untold` in `NoFalseAlarm`); the firmware log is replayed
  twice when it is also exposed as the ACPI table TCG0; the web service ignores the journal.
* `all_match` of `/api/verify-pcrs` is true when nothing was compared.
* A token may be unopenable though no PCR changed, against client.rs:687-689: `policy_pcr`
  concatenates digests in the caller's order, repetitions included, and skips an empty
  selection, while the TPM compares the selected PCRs in ascending order, once each. Evidence
  over another selection is certified, and its token cannot be opened (`~Canonical(sel)` in
  `RoundTrip`).
* In a log without length prefixes, a digest that begins with its own length (20 00 for
  SHA-256) is taken for one with a prefix: the entry is read at the wrong place, and the log
  refused or read as other events. An EV_NO_ACTION event without data makes the
  crypto-agile reading fail. An EV_NO_ACTION event has digests of zeros: in a crypto-agile log that
  is cut 18 bytes into its first such entry, the crypto-agile reading fails, and the SHA-1 reading takes these zeros for
  a size and makes an event of the entry (event_log.rs:398-443, :507); likewise in a log without
  header, and on the second attempt at the entry the file ends in (`ZerosMislead`). `Clear` in
  `EventLogParser` excludes all of these.
* A selection read in several PCR_Reads may mix moments: the update counter of the
  responses is not looked at, and `AnswerComplete` promises no more.
* The guest handler of the web service opens the token a second time after `attest_guest` did
  (main.rs:951): of an envelope already opened the answer says `decrypted: false`, which
  api-docs.html:609 explains as not encrypted. `TokenReachesClient` holds all the same.
* A report asked for without user data carries what somebody staged before (`seen` in
  `ReportIsOfTheRequest`): nothing clears the index.
* Without a resource manager, a request is refused while another holds the device
  (`RefusedOnlyForAnother`), `api_diagnose` between its two openings included.

Requests and answers:

* User data given as text is cut at 64 bytes without notice, hex of more is refused; PCR indices that
  do not parse are dropped (main.rs:1214, :1225). `create_primary` drops PCRs
  beyond 23 where the quote and the reads refuse them. A length above 65535 would be cut by `as u16`.
* An ECC public area is decoded with RSA's layout, so that its `y` is lost (`ecc` in
  `AnswersTaken`); what follows it is found by its size and not harmed.
* The answer to CreatePrimary is read with a qualified name, which TPM 2.0 does not send.
* A signature of an unknown scheme is kept without its scheme (`OtherRaw`), and written back so.
* A JSON answer of IMDS without the certificate fields is an empty VCEK chain (imds.rs:98), which is
  sent on. `ThimClient` does not compare the MRTD of the answer with the one it asked for.

Quotes and reports:

* A version 5 quote whose descriptor is found behind the header is parsed and then refused by
  the verification, which takes the header for the longer one (verify/tdx.rs:125-131;
  `"behind"` in `GenuineIsAccepted`). Its size is recovered for two sizes only (td_quote.rs:546).
* Evidence says nothing of when it was made: certificates are judged on the day of the verification, and evidence
  that was accepted is refused once one of them expired, or before one is valid (`Certifies` in
  `GenuineIsAccepted`; the tool's error says "expired", azure-guest-local-verify main.rs:234).
* `strip_qgs_envelope` and `unwrap_qgs_get_quote_response` accept different prefixes.
* Whether the certificates of a quote have a length in front is guessed from the PEM marker
  (td_quote.rs:1021).
* `report.rs:299` reads a structure with enumerations from raw bytes: a value out of range is
  undefined behaviour before any check of it.
* `azure-guest-local-verify` exits 1 without a result for a TDX file it cannot read, and 2 with one for SNP.

## 6. What is not modelled, and why

* *Hash, random and AEAD back ends*: cryptographic libraries; hashes, signatures and
  encryption are ideal. Of the verification's three back ends the OpenSSL one is modelled, the
  others offer the same functions to the same checks.
* *Library surface*, error texts, tracing, formatting and printing: no state, no property.
* *Test kit* (a reference TPM for tests) and *deployment scripts* (file copying, service
  registration).
* *Command-line tools*: only `azure-guest-local-verify` and `tpm-event-log --verify`; the
  rest parses arguments and prints around library calls. `azure-tpm-tool` sends single commands, which
  are in `TpmExchange`; the sequences it makes of them are not modelled.
* *Certificate chains*: a leaf and an issuer below a pinned root, as quotes and reports have them, their
  periods, the CA flag and the leaf's KeyUsage. Left out are the roots' own periods (every day lies within them), path length
  constraints, longer chains, the issuers' KeyUsage, and revocation, which the code does not check.
* *Encodings*: DER lengths beyond three bytes; CBOR items of indefinite length, which `read_cbor_head` refuses
  with the other reserved heads.
* *Reports*: the SNP fields that verification reads; TDX and VBS reports are fixed layouts
  that are printed. Runtime claims are JSON.
* *Endpoint choice* (`endpoint.rs`), `get_endorsement` and `create_attestation_report` as sequences of
  their own: in `WebService` they are the step `Service`, a call that answers or fails.
* *Directory search for event logs*; the JSON forms beyond the fields the replay uses.
* Static pages and `parse-token` of the web service, which keep no state.

## 7. Plan

Done, most important behaviour first: `TpmDevice`, `CvmReport`, `PcrRead`, `EphemeralKey`, `PersistentKey`,
`NvIndex`, `Attestation`, `MeasuredBoot`, `EventLogParser`, `TlsIdentity`; then `TpmExchange` (what the
bytes of a command mean), `Evidence` (what is accepted) and `WebService` (everything at once).
Proved: every safety property of these, less those of `TpmExchange` and the reading of DER and CBOR in
`Evidence` (section 4).

Next:

1. `get_endorsement` with the choice of its endpoint, and the sequences of `azure-tpm-tool`.
2. Abstract specifications beyond `StagedReport` and `TpmCommand`: the persistent key as a
   write-once register, the NV index as a byte array with atomic chunks.
