# rustssl_check in TLA+

`rustssl_check` is a TLS scanner: it connects to a server many times, offers
one protocol version or one cipher suite at a time in a hand-made ClientHello,
and turns the answers into a report with findings and a grade. This directory
holds a TLA+ model of it, TLC configurations that check the model on small
instances, and TLAPS proofs of what matters most for every value of the
constants.

Paths below are relative to the repository's root.

## 1. Inventory

| Component | Source | State it keeps | Operations | Interacts with |
|---|---|---|---|---|
| Data model | `src/models.rs` | none | orders, ratings, `is_vulnerable` | everything |
| Suite table | `src/tls/cipher.rs` | 67 constant rows | lookups | both probes |
| Hello builders | `src/tls/packet.rs` | none | `build_ssl2_client_hello`, `build_client_hello` | probes |
| Response parser | `src/tls/packet.rs` | offsets while parsing | `parse_server_response` | probes |
| Protocol probe | `src/tls/protocol.rs` | one connection, a buffer | `probe_protocol`, `probe_ssl2`, `probe_tls` | builder, parser, network |
| Concurrent suite scan | `src/tls/scanner.rs` | semaphore, task handles, one connection per task, two results | `scan_ciphers_for_protocol`, `probe_cipher_at_protocol` | tokio, builder, parser, network |
| Preference test | `src/tls/scanner.rs` | two selections | `check_cipher_preference`, `probe_cipher_order` | suite list, network |
| Certificate fetch | `src/tls/scanner.rs` | captured chain | `fetch_certs_via_rustls` | rustls, network |
| Certificate analysis | `src/tls/cert.rs` | none | `parse_der_certificate`, `parse_and_validate_chain` | x509-parser, webpki |
| Assessment | `src/tls/scanner.rs` | none | `evaluate_vulnerabilities`, `compute_overall_rating` | results of all probes |
| Vulnerable-only report | `src/models.rs` | none | `filter_vulnerable_ciphers`, `to_vulnerable_report` | report |
| Pipeline | `src/tls/scanner.rs` | everything a scan has learnt | `run_scan` | all of the above |
| Target parsing | `src/tls/scanner.rs` | none | `parse_target` | `run_scan` |
| Command line | `src/main.rs` | none | `main` | `run_scan` |
| Report printer | `src/printer.rs` | none | `print_report` and its sections | report |

`run_scan` is sequential. It calls the protocol probes one after the other,
then, for each protocol found, spawns one task per candidate suite and awaits
them all before it goes to the next protocol. The tasks share nothing but a
semaphore. Everything else is passed by value, so the interesting coupling is
through results: the protocols found decide which suites are tested, the order
of the suites found decides what the preference test asks, the certificate
captured by one probe is judged by the name of another.

### What is hard here

- **Concurrency.** Tasks run in any order, on any thread, under a semaphore;
  every `?` in a probe is an early return that must give its permit back.
- **Failure.** Every exchange can be refused, cut, delayed beyond its timeout
  or answered in pieces. Each failure is swallowed and becomes "not supported"
  or "rejected"; the report must still not claim what is not so.
- **Ordering.** Handles are awaited in spawning order, tasks end in any order.
- **Sequences.** The scope flags skip steps whose results later steps read.
- **Boundaries.** Days are truncated; RSA sizes come from thresholds; two
  reports classify the same facts in separate code.
- **Bytes.** The parser follows four nested lengths that come from the wire; a
  flight arrives in pieces of any size, and only the first read is parsed.

### What makes each component correct

- *Suite scan*: never more than `--concurrency` connections; no false positive;
  each candidate listed or counted once; a loss only through a failure of that
  suite's own connection; it returns.
- *Protocol probe*: support only if that version was negotiated, a chain only if
  it is whole, exact when the flight comes in one piece, and it returns.
- *Hello builders*: every length field states the true length.
- *Pipeline*: complete when nothing fails, sound always, one report, its three
  accounts of the suites consistent, one result for each protocol probed, its
  certificate that of the host.
- *Preference test*: says an order is enforced only if it is.
- *Assessment*: every weak suite leads to a finding of its severity, no alarm
  without a cause, a good grade only for a good server.
- *Reports*: full report, `--vuln-only` text and `--vuln-only` JSON agree, and so
  does the library's filter.
- *Certificates*: no certificate expires unannounced; one rule for key sizes.
- *Parser*: no read outside the buffer, termination, every whole message found.

## 2. Modules

| Module | Models | Uses |
|---|---|---|
| `Models` | enumerations and orders of `models.rs` | |
| `Lists` | what the code does with iterators: `filter`, `sum` | |
| `CipherSuites` | the table of `cipher.rs`, the candidate filters | `Models`, `Lists` |
| `CommandLine` | how `main` makes the options of a scan | |
| `Targets` | `parse_target` | |
| `ClientHello` | the length fields of both hellos | `Models` |
| `TlsServer` | the scanned server (external) and what a ClientHello says to it | `CipherSuites` |
| `Responses` | abstract: what a response means, in whole records and messages | `Lists` |
| `ResponseParser` | `parse_server_response`, byte by byte | |
| `Wire` | how servers write flights and SSLv2 hellos as bytes (external) | `Lists` |
| `ParsedFlights` | `ResponseParser` on what `Wire` writes, compared with `Responses` | all three |
| `Probes` | what a probe makes of an answer | `Models` |
| `ProbeSpec` | abstract: a protocol probe in one step | `Probes` |
| `ProtocolProbe` | `probe_tls`, `probe_ssl2` over a real connection | refines `ProbeSpec` |
| `CipherScanSpec` | abstract: what a scan of one protocol's suites promises | |
| `CipherScan` | the concurrent scan itself | refines `CipherScanSpec` |
| `Certificates` | what `cert.rs` derives from a chain | `Models` |
| `Assessment` | findings, grade, vulnerable-only report | `CipherSuites` |
| `Printer` | what the text reports show | `Assessment` |
| `Posture` | a server that gets worse while time passes, and its reports | `Printer`, `Certificates` |
| `RunScan` | the pipeline | `Assessment`, `Certificates`, `Probes`, `Targets`, `TlsServer` |
| `CipherScanProofs`, `ProtocolProbeProofs` | theorems | the module they are named after |
| `ResponseParserProofs` | theorems | `ParsedFlights`, `ListProofs`, `Probes` |
| `ListProofs`, `AssessmentProofs` | theorems that hold without a behaviour | `Lists`, `Assessment` |
| `RunScanProofs` | theorems | `RunScan`, `AssessmentProofs`, `CipherScanSpec` |
| `PostureProofs` | theorems | `Posture`, `AssessmentProofs` |
| `ClientHelloProofs` | theorems | `MCProtocolProbe`, `AssessmentProofs` |
| `MCCipherScan`, `MCResponseParser`, `MCProtocolProbe`, `MCRunScan`, `MCAssessment` | instances for TLC | |

The modules meet at three promises, from the bytes up:

1. `ResponseParser` makes of any part of a flight what `Responses` promises of
   it: `Understands` and `UnderstandsSsl2`, checked by the `parser` run and
   proved.
2. `ProtocolProbe` takes the parser as a parameter of which it assumes what
   `FlightsAssumption` says. `FlightsAreReliable` and `Ssl2HellosAreReliable`
   prove it of `Responses`; the instance for TLC gives it `Responses`, too.
3. `RunScan!ProbeProtocol` is the step of `ProbeSpec`, which `ProtocolProbe`
   implements; `RunScan!ScanCiphers` is the answer of `CipherScanSpec`, which
   `CipherScan` implements; `EveryAnswerIsTaken` and `OnlyAnswersAreTaken` prove
   that it is that answer.

### ResponseParser, Responses, Wire, ParsedFlights

`data` is the buffer, `offset`, `hs_offset` and `cursor`/`limit` the starts of
the current record, message and list item, `pc` the innermost loop the code is
in. Each action is one turn of one loop: `EnterRecord`, `SkipRecord` and
`ParseAlert` of the record loop, `ParseServerHello`, `EnterCertificates` and
`SkipMessage` of the message loop, `ParseExtension` and `ParseCertificate` of
the innermost ones, `LeaveMessage`, `LeaveRecord` and `Finish` their ends.
`ParseSsl2` is the branch before them. `reach` is a history variable: the end
of the bytes the step before looked at. In the code every `data[i]` behind the
buffer is a panic, so `Contained` is what keeps a probe task alive. The
negotiated version stands in `server_hello` while the extensions are read,
where the code has a local variable that nothing reads in between.

`Responses` says the same without an offset: the records that have wholly
arrived, an alert first, then the last ServerHello and all certificates.

`Wire` is the other side, and not code of this repository: a flight is a
sequence of records, each with its messages and a rest that is no whole message,
and `FlightBytes` writes it, every length in its two or three bytes. `IsFlight`
is what a server that keeps to the format writes: no string is too long for its
length field, TLS 1.3 is said in `supported_versions` and nowhere else, a piece
of a cut message claims more bytes than its record has. `Ssl2Bytes` writes an
SSLv2 ServerHello. `ParsedFlights` puts the three together: when the buffer is
the beginning of what a server writes, the parser's result is what `Responses`
says of that flight and that many bytes. An SSLv2 hello is compared without its
suites, which the code reads from the wrong place (section 5) and nobody uses.

### ProtocolProbe, ProbeSpec, Probes

A flight is what the server will send; `sent` counts its bytes that have
arrived, `taken` those the probe has read, `total_read` those it parses. The
awaits are `Connect`, `Write`, `Read` and `ReadMore`; `FailIO` is any error or
timeout of the first three. `ReadMore` is the second read of `probe_tls`: its
150 ms end with or without bytes, and they are not counted in `total_read`.
`Deliver` and `Close` are the server's and may happen between any two steps.
A closed connection makes `Read` return 0 bytes. In `ProbeSpec` a probe decides
in one step: the outcome of the server's answer, with its chain or without, or
of no answer.

### CipherScan

State, against `scan_ciphers_for_protocol` and `probe_cipher_at_protocol`:
`pc[t]` is where the future of task t is suspended, `permits` the semaphore,
`conn[t]` the connection as its reader would find it, `outcome[t]` the value
the task returned, `spawned` and `joined` the two loops of the caller,
`supported` and `rejected` its results. A candidate is its position in the
filtered table. `accepts` is the set of candidates the server negotiates, a
fixed choice in `Init`; `faulty` is a history variable that records whose
connection went wrong, so that properties can speak of it.

`Spawn` and `Join` are the two loops; `Acquire`, `Connect`, `Write`, `Read`
are the four awaits of a task. `FailIO` is any of the errors and timeouts.
Every end of a task goes through `Finish`, which drops the connection and the
permit. `Fragment`, `Reply`, `HangUp` are the server's. The read does not time
out when there is something to read, because tokio's `timeout` polls the inner
future before its timer. A read that finds a fragment of a ServerHello ends
the probe with "not supported", as the code reads only once.

The semaphore of tokio is fair, but in the order in which the runtime first
polls the tasks, and that is arbitrary: `Acquire` may be of any waiting task.

`CipherScanSpec` is the promise in one step: an answer that lists, in table
order, accepted suites, missing only some whose connection went wrong, and
counts all others. `CipherScan!Abstract` maps the answer to the two results
once the last handle has been awaited.

### RunScan, CommandLine, Targets

One action per step of `run_scan`: `Connect`, `ProbeProtocol` (once per
protocol in `todo`), `FetchCerts`, `ScanCiphers` (once per protocol to test),
`PreferenceFirst`, `PreferenceSecond`, `Assess`. `Exchange` lets the network
spoil an exchange; up to `MaxFaults` of them. The certificate of a probe is
captured or not, freely, as in `ProbeSpec`. `Connect` ends the scan with an
error if the target does not parse, and may do so if it does (resolution, first
connection): that is the only `Err` after which there is no report.

`Options` are the scan options; the instance takes them from command lines by
`CommandLine!OptionsOf`, where a legacy flag adds to `--scan`. A target is
taken apart at what `parse_target` looks for: leading schemes and the parts
between colons. Its host is the server name unless `--sni` is given.

`TlsServer` is a conforming server: it settles on the highest version it has
that is not above the hello's (TLS 1.3 only if the hello is for TLS 1.3,
whose `supported_versions` has nothing else), then selects the first common
suite in its own order or in the client's. A TLS hello carries a server name
from TLS 1.0 on, as `build_client_hello` writes extensions only then.

### Assessment, Certificates, Printer, Posture

`Assessment`, `Certificates` and `Printer` are pure definitions, one operator
for each rule of the code. Vectors whose order is only printed are sets.
`CipherSuites` has every row of the real table, with `key_exchange` and
`encryption` reduced to the families the rules tell apart by substring;
`CipherSuiteInfo` is the type of a row. What the code does with `filter` and
`sum` on a sequence is `Filter` and `Total` of `Lists`, recursive functions,
since the provers can expand those. `Printer` has which protocols,
suites, certificate defects and findings get a line in either text report,
never the words.

`Posture` drives them: protocols and suites are enabled one by one, and the
clock moves over `Moments`. It is not code; it makes the inputs of the rules a
behaviour, so that what a step may change (`FindingsGrow`) can be stated.

## 3. Runs

| Run | Result | What it shows |
|---|---|---|
| `cipher_scan` | holds, 155,936 states | the concurrent scan is safe, ends, and implements its specification |
| `parser` | holds, 9,993 states | the parser stays inside the buffer, moves on, returns, and understands TLS flights and SSLv2 hellos as the reference says |
| `protocol_probe` | holds, 6,954 states | a probe's verdict is sound, exact for a flight read whole, reached, and that of the one-step probe; its hello states its lengths truly |
| `run_scan` | holds, 388,312 states | the pipeline's report is sound, complete without failures, consistent, and always produced |
| `assessment` | holds, 55,682 states | the rules agree with the table and with one another, and the printed reports with the rules |
| `cipher_scan_zero` | violated | `--concurrency 0` is accepted and never returns |
| `preference` | violated | an enforced order is reported of servers that enforce none |
| `ciphers_only` | violated | a ciphers-only scan does not test all protocols |
| `cert_name` | violated | the certificate fetched is that of the target's host, not of `--sni` |
| `best_grade` | violated | "valid certificate" is printed when there was none to judge |
| `secure_grade` | violated | "no obsolete protocols" is printed when none were probed |
| `weak_grade` | violated | enabling an obsolete protocol raises the grade from C to B |

### Bounds, and why they are enough

- `cipher_scan`: four candidates and two permits. Two tasks can hold permits
  while one waits and one is not yet spawned or already done, so a permit
  passes from a failed task to a waiting one while another task runs. Every
  subset of accepted suites and every failure of every connection is covered.
  The theorems below hold for any number of either.
- `parser`: eight flights, written as bytes by `Wire`, each with another shape:
  messages in one record or several, a certificate cut over two records, TLS 1.3
  with its extension last, an alert before and after the hello, two hellos, empty
  records and half an alert, an empty certificate list, certificates alone; and
  two SSLv2 hellos, with a certificate and two suites, and with neither. Each is
  cut at every byte, and each byte is set to 0, 1 and 255 (the constant
  `Damage`), which makes every length too short, off, and too long; the bytes of
  the random, which nothing reads, are left. Certificates are of one to four
  bytes and session ids of two: the code copies them without looking inside.
  Bytes with several damages, and lengths that need their upper bytes, are left
  to the theorems, which hold for every buffer and every flight.
- `protocol_probe`: nine flights of up to eight bytes, of which each byte may
  arrive alone, into buffers of 6 (5 for SSLv2) bytes instead of 8192 (4096):
  flights that are shorter, fill the buffer and overflow it, with the cut inside
  and between records. Server names of 0, 1, 63, 253 and 255 bytes, the limits
  of a DNS label and of a DNS name, and of 16000, the limit of the theorem:
  `--sni` takes a name of any length.
- `run_scan`: four rows of the real table, with four different ratings and
  one of each way to be usable (TLS 1.3 only, TLS 1.2 on, TLS 1.0 on, SSLv3
  on), among them AEAD, CBC and 3DES suites; all 768 servers that can be made
  of them, of either order and of five versions (SSLv2, SSLv3, TLS 1.0, 1.2,
  1.3), except those with SSLv3 and TLS 1.0 together, which usable suites hardly
  tell apart;
  five combinations of scopes, by `--scan` and by the legacy flags, with and
  without `--sni`; targets with two schemes in either order, with ports good
  and bad, overridden and not, and an IPv6 literal. All six protocols are
  probed. One spoilt exchange, anywhere, is enough to make any single step's
  result differ from what the server supports; `faults = 0` separates the
  properties that promise completeness. The runs that show something violated
  have the same instance, but `cert_name` and `best_grade` have servers of TLS
  1.3 alone and `secure_grade` of SSLv3 alone (`MCVersions`): the plainest case
  of what they show.
- `assessment`: all rows singly and in pairs, pairs of protocols. The rules
  quantify over single rows, so a pair is enough to see one row hide another.
  Certificates have one defect each, every algorithm of `BrokenSignatures` among
  them, at the moments just before, at and after each boundary of validity and
  of the 14-day warning. With a certificate only
  the first suite is tried, as certificates and suites are judged by separate
  rules. This harness stops when its bounds are reached, which is why deadlock
  is not checked there, nor in `cipher_scan_zero`, where standing still is the
  point.

### Fairness, and why the code justifies it

`CipherScan`: weak fairness of the two loops of the caller and of each task.
The tokio runtime polls every ready task, and each await inside a probe is
wrapped in `timeout`, so a task that has a permit always has a step within
bounded time; without one it waits for a step of somebody else. Nothing is
assumed of the server or the network: `Termination` holds although the server
may stay silent for ever. `ProtocolProbe`: weak fairness of the probe's own
steps, for the same reason; none of `Deliver` and `Close`. `ResponseParser` is
plain code and takes its next step. `RunScan`: weak fairness of the next step,
since every await of `run_scan` after the first connection ends. For
`ScanCiphers` this is `CipherScan!Termination`, which needs at least one permit,
and for `ProbeProtocol` it is `ProtocolProbe!Termination`; for the rustls
handshake it rests on the read and write timeouts of its socket and on the
limits rustls puts on a handshake.

## 4. Proofs

All proofs are checked by TLAPS to the last leaf. The assumptions are the named
ones of the modules and nothing else.

### CipherScanProofs

For every `N` and every `Concurrency` in `Nat` (`NAssumption`,
`ConcurrencyAssumption`):

| Theorem | States |
|---|---|
| `Invariance` | `Spec => []IInv` |
| `TypeCorrect` | `Spec => []TypeOK` |
| `PermitsAreConserved` | `Spec => []PermitsConserved` |
| `Sound` | `Spec => []NoFalsePositive` |
| `Accounted` | `Spec => []JoinsAccounted` |
| `LossNeedsFault` | `Spec => []LostOnlyToFaults` |
| `Refinement` | `Spec => ImplementsSpec` |
| `StepsRunOut` | at most `8 * N` steps are ahead of a scan and each step takes some away |
| `NeverStuck` | with a permit to have, the caller or a task can move until the scan has returned |

None of the safety properties is inductive alone. That a listed suite is
accepted, for instance, depends on what the task's outcome was, which depends
on what was in its connection, which depends on the server. `IInv` says this
chain of facts, one conjunct per link:

- `TypeOK`;
- `SpawnInv`: the tasks not yet spawned are exactly those beyond `spawned`;
- `ConnInv`: which states a connection can be in at each `pc`;
- `AnswerInv`: a connection with `selected` is of an accepted suite, one with
  `refused` of another; a finished task returned "true" only for an accepted
  suite, and anything else for an accepted suite only if it is faulty;
- `PermitInv`: held and free permits add up to `Concurrency`;
- `JoinInv`: nothing is joined before all is spawned, only finished tasks are
  joined, and `supported` lists, in ascending order, exactly the joined tasks
  that returned "true"; the rest is counted.

Each action has a lemma that it preserves `IInv`; `FinishPermits` is shared by
all ends of a task, and `AppendLists` shows that appending a larger element to
an ascending enumeration enumerates one element more. The refinement follows
from `IInv`: only the last `Join` (or the last `Spawn` when there is nothing to
join) changes the abstract answer, `FailIO` and a failing `Read` are abstract
faults, every other step stutters. The initial states map to initial states.

`StepsRunOut` and `NeverStuck` are the part of `Termination` that is a safety
property. What is ahead of a scan is the finite set `Ahead` of the steps of each
task and its peer and of the joins; every step but a stutter takes something
from it and adds nothing (`StepShrinks`), so its cardinality falls. And as long
as the scan has not returned, the guard of one of the steps under fairness
holds: if no task holds a permit, all are free, and the task next to be joined
is done or waiting for one. `ConcurrencyAssumption` allows 0, for which `NeverStuck` claims
nothing; the run `cipher_scan_zero` shows what happens then.

### ResponseParserProofs

For buffers of any length with any bytes (`BuffersAssumption`): `TypeCorrect`
(`TypeOK`), `ReadsInside` (`Contained`) and `AlwaysAdvances` (`Advances`).
`Contained` is not inductive: that a certificate lies inside the buffer follows
from its list lying in its message, the message in its record and the record in
the buffer. `Nested` says so for each `pc`, and each turn of a loop preserves
the nesting because it compares the end of what it enters with the end of what
encloses it. `AlwaysAdvances` needs `Nested` too, since the end of a record has
to lie behind its start. `TurnsRunOut` bounds the turns of all four loops
together: three for each byte ahead of the place where the innermost loop
stands, plus a few by the loop it is, is a number that falls with every step.
It is 0 when the parser is done and at most 3n + 3 for n bytes.

For any set of flights that keep to the format, of any number and size of
records, messages, extensions and certificates (`FlightsAreWritten`), and any
buffers: `UnderstandsFlights` (`Understands`). A parser that reads through a
flight has, in each loop, something of the flight behind it and the rest ahead,
and only at the end a result to compare. The inductive invariant `Reading(f)`
says where it is: in the record loop, `offset` is where some record k ends and
none of the first k is an alert (`RecordsRead`); in a record, `hs_offset` is
where message j of it ends (`MessagesRead`); in a hello, `cursor` is where an
extension ends, and the version is TLS 1.3 if one of those behind it says so
(`ExtensionsRead`); in a certificate list, the certificates so far are those of
the earlier messages and the first ones of this (`CertificatesRead`). In each,
`server_hello` and `certificates` are what `Responses` finds in the messages
behind the parser (`FoundIn`). That it then moves to the same place of the next
item rests on three groups of lemmas: what the bytes of a length written by
`Wire` read as (`RecordReads`, `HelloReads`, ...), where a part of a
concatenation sits in the buffer (`Sits`, `SitsAmong`), and how `LastHello`,
`Chain` and `Arrived` grow with one more message or record. All of these are
inductions over sequences, made as in `ListProofs`.

`UnderstandsSsl2Hellos` (`UnderstandsSsl2`), for any SSLv2 hellos
(`Ssl2HellosAreWritten`): the branch decides in one step, but a shorter part of
a hello falls through to the record loop, where its bytes must pass for no
handshake record: `Ssl2Reading` says that there the parser finds nothing, since
it at most steps over one record of an unknown type, and of the ten bytes there
are fewer than a record header's five are left behind it.

`FlightsAreReliable` and `Ssl2HellosAreReliable` go on from `Responses` to the
probe: for every flight with one hello and at most one whole chain, behind it
(`IsOrderly`), and for every number of bytes that have come, what is understood
is what `ProtocolProbe` assumes of its parser. Whatever has arrived is the first
messages of the flight (`ArrivedAreFirst`), and among those are either no hello,
or the hello without a chain, or both (`FoundOfOrderly`). A flight of
certificates without a hello, or of two different hellos, is not reliable in
this sense. A server with a hello of several records, which TLS allows, can send
what looks like the former: the hello is not found, and if the Certificate
message is whole in a record of its own the parser takes it for an answer of TLS
1.2, whatever was negotiated. `VerdictSound` and `Sound` do not speak of such
flights; servers put a hello, of some hundred bytes, in one record.

### ProtocolProbeProofs

For every set of flights, buffer size and set of protocols under
`FlightsAssumption` (what is understood of the beginning of a flight is at most
one response; it is an alert or says what the server answered, its chain
perhaps excepted; of a whole ordinary flight it says all; that the parser is so
is `FlightsAreReliable`, above) and
`ProbedAssumption`: `TypeCorrect` (`TypeOK`), `Sound` (`VerdictSound`), `Exact`
(`ExactWhenReadWhole`) and `Refinement` (`ImplementsSpec`). The verdict is
formed in one step from the bytes counted, so the invariant adds to the
properties only that the counts are 0 until something is read (`Unread`), and
`TypeOK` already has that what is parsed was read and what was read had arrived.
`StepsRunOut`: the probe, the server and the network together take at most six
steps more than the flight has bytes.

### ListProofs

`Filter` and `Total` are recursive functions over the length of a sequence, and
the library's induction rules take a predicate, which the provers cannot
instantiate. `SetInduction` says the same of sets: a set of numbers that has 0
and with every number its successor has them all, since what it lacks would
have a least number (`NatMin`, from the well-foundedness of `Nat`). A proof by
induction collects the numbers for which the claim holds in a set. In this way
`KeptExists` and `SumExists` show that the recursive functions exist, so that
`FilterUnfolds` and `TotalUnfolds` can unfold them; then `FilterPicks`: a
filtered list consists of the members at some ascending positions, all those
that are to be kept and no others (`FilterKeeps`, `FilterOrder`); `TotalAppend`,
`TotalIsNat`, `TotalBound`. A set of numbers has one ascending enumeration
(`OneEnumeration`), and filtering a list for what it has at some places gives
what an enumeration of the places gives (`FilterEnumerates`).

### AssessmentProofs

No variable and no constant occurs here:

- `TheTable`: of all 67 rows of the real table the ids are distinct, the fields
  are of their types, and the rating is the one that the rules of
  `evaluate_vulnerabilities` lead to (`RatedByRule`). It is joined from one
  lemma for each group of rows (`Joined`). So `ALL_CIPHERS`, and every selection
  of its rows, meets `TableAssumption`.
- `SevereEnough`, `AlarmIsVulnerable`: for any set of such suites, one that is
  rated vulnerable leads to a finding at least as severe, and a finding has such
  a suite behind it. The suite's rating is a column of `cipher.rs`, the findings
  are substring tests in `scanner.rs`; nothing in the code ties them together.
- `OnlyWeakIsHidden`: the findings are looked for in another order of severity
  than that of `SecurityRating`. By the latter no finding is graver than the
  overall rating, except that Deprecated may hide a finding that is Weak; the run
  `weak_grade` shows that it does.
- `FilterIsExact`: on any list of groups `filter_vulnerable_ciphers` leaves
  exactly the suites that `to_vulnerable_report` lists, each under its protocol,
  and no empty group.

### ClientHelloProofs

`HelloStatesItsLengths`: for every protocol, and any number k of suites and
length n of the name with 2k + n at most 16205, no length field of a hello loses
a bit and the hello fits one TLS record. `HellosAreWellFormed`
(`HelloIsWellFormed`): the table has 67 rows, so it is so of every hello that a
probe writes, for names of up to 16000 bytes (`NameLengthsAssumption`). A host
that resolves has at most 255; the length of `--sni` is not checked by the code.

### RunScanProofs

For every table that consists of rows of `cipher.rs` without repetition
(`TableAssumption`), every set of options, any number of faults and any time
(`MaxFaultsAssumption`, `NowAssumption`), and all servers whose versions are
protocols of the enum and whose suites are in the table (`ServersAssumption`):
all eleven safety properties of the run.
Suites that the table does not have are left out of a server, as no hello offers
them.

| Theorem | States |
|---|---|
| `TypeCorrect` | `Spec => []TypeOK` |
| `ReportedAreSpoken` | `Spec => []ProtocolsSound` |
| `GroupsAreNegotiated` | `Spec => []GroupsSound` |
| `ListedAreNegotiable` | `Spec => []SuitesSound` |
| `FullScansAreComplete` | `Spec => []FullScanComplete` |
| `ReportIsConsistent` | `Spec => []ReportConsistent` |
| `CertIsForHost` | `Spec => []CertForHost` |
| `NoHoleInResults` | `Spec => []EveryProbeReported` |
| `OrderIsTruthful` | `Spec => []PreferenceTruthfulAtTls12` |
| `GradesAreSound` | `Spec => []GradeSound` |
| `AlarmsHaveCause` | `Spec => []NoFalseAlarm` |
| `EveryAnswerIsTaken` | an answer of `CipherScanSpec` with which `run_scan` goes on makes a `ScanCiphers` step |
| `OnlyAnswersAreTaken` | every `ScanCiphers` step takes such an answer |
| `StepsRunOut` | at most 17 steps are ahead of a scan, each step takes some away, only the first can fail |

The properties speak of the report; what makes them so happens many steps
before. The inductive invariant is built in layers, each proved with the help
of those before it (all were checked by TLC on the instance of `run_scan`
first):

- `IInv` (`Invariance`): a result that says "supported" is of a protocol the
  server speaks, and the chain captured is that of the name asked, or comes from
  the answer to a hello without a name, whose protocol is then among the results.
- `Typed` (`StaysTyped`): types, and that a loop is entered only with a protocol
  to visit.
- `Phase` and `Itinerary` (`Phases`): what the scope flags leave empty, that the
  report is what follows from the other results, and that the protocols still to
  test are the last ones of `ProtosToTest`.
- `Flat`, `Sorted`, `Tally` (`CountsAddUp`): `ReportConsistent` between two
  protocols' scans. `Sorted` has to say that the protocols still to test come
  after all groups, `Tally` needs the protocols already tested.
- `AllProbed`, `AllTried` (`NothingMissed`): `FullScanComplete` while the scan is
  under way: what the server has is found, or its turn is yet to come.
- `EveryProbeReported` (`NoHoleInResults`) is inductive by itself, given these.
- `Asked`: the first answer of the preference test is the server's.

Of the server the proofs use that it settles on the version a hello names if it
has it (`VersionAsked`), and that alone in a hello a suite is selected if and
only if the server has it and the version can use it. `GradesAreSound` then
combines `FullScansAreComplete` with `SevereEnough`, and `AlarmsHaveCause`
combines `ListedAreNegotiable` with `AlarmIsVulnerable`: what was found is
there, and what was judged was found.

`RunScan` keeps suites and counts them with `Filter`; `CipherScanSpec` lists
places. That both say the same rests on the candidates being all different, on
`FilterEnumerates` and on the listing of a set being unique. The number of
faults is the number of accepted suites missing, so `EveryAnswerIsTaken` is
under the bound `MaxFaults`, as a run is; for the theorems that bound is any
number. With `CipherScanProofs!Refinement`, and with `N` the number of the
protocol's candidates, the answers of the concurrent scan are among those that
`ScanCiphers` takes.

`StepsRunOut` is 1 connection, 6 protocols to probe at most, 1 certificate
fetch, 6 protocols to scan, 2 preference probes and 1 assessment.

### PostureProofs

For every certificate and time in `Int` (`ChainsAssumption`,
`MomentsAssumption`), and any number of protocols and rows of the table, all
properties of the run: `TypeCorrect` (`TypeOK`), `NoSurprise`
(`ExpiryAnnounced`), by lemmas about division that truncates toward zero,
`KeyRules` (`KeyRulesAgree`), `MoreIsWorse` (`FindingsGrow`), by one lemma of
monotony for each group of rules, `WeakSuitesAreFound` (`EveryWeakSuiteIsFound`),
`ReportsFlagTheSame` (`ReportsAgree`), `PrintedIsReported` (`PrintedAgrees`),
`FiltersAgree` (`FilterAgrees`), by `FilterIsExact` and `PrintedIsReported`, and
`BestGradeEarned` (`BestGradeIsEarned`): `CleanIsSafe` derives from a report
without certificate findings what holds of the certificate itself, a signature
that the code does not rate included, since webpki does not verify it. The
invariants they need are `InPlace` (`AlwaysInPlace`):
the certificate and the moment are among those given; and `Enabled`
(`AlwaysEnabled`): protocols are those of the enum and suites are rows of the
table. The rest are lemmas about the rules, which do not look at the behaviour.

### Only model-checked

- Liveness, which the prover cannot treat: every `Termination`, and
  `AlwaysReports`. Their safety half is proved (`TurnsRunOut`, the three
  `StepsRunOut`, `NeverStuck`): that there are only so many steps; not that
  fairness takes them.
- The seven properties that runs show violated.

All other properties of the runs are theorems.

## 5. Divergences

The seven violated runs are listed with their lines in `PROJECT.json`. Four more
have no run:

- The second read of `probe_tls` is made "to get complete certificate chain if
  needed" and its bytes are never handed to the parser.
- A key of unknown kind is rated Weak, so `--vuln-only` has an issue with the
  certificate, while the full report says that no certificate defects were
  detected. It is the only such case: `ReportsAgree`.
- A certificate that is not yet valid is printed as "Valid (n days remaining)".
  It is also found "Not Yet Valid", so its grade is right.
- An SSLv2 SERVER-HELLO has eleven bytes of fixed fields behind its two bytes of
  record header; the code begins to read the certificate at byte 11 instead of
  13, where the length of the connection id stands. So certificate and suites
  are two bytes off, and the certificate never parses. `Wire` writes the real
  format and `Ssl2Contents` says what the parser takes for the certificate;
  `RunScan` calls it `Misread`. SSLv2 is probed first and the first chain
  captured is kept, so a server with SSLv2 gets a report without a certificate,
  and none of the certificate's defects is found.

Other behaviour worth knowing, which the model has but which no text of the
repository contradicts:

- If every protocol probe fails, all protocols are scanned, and a suite found
  is listed under the version of the hello, not the version negotiated.
  `GroupsSound` therefore assumes an active protocol; `SuitesSound`, that the
  server has every suite listed, does not.
- Errors and timeouts are counted in "rejected".
- With both a protocols-only and a ciphers-only flag only TLS 1.2 is probed and
  no suite is scanned.
- A legacy flag does not override `--scan`; both hold.
- The signature of a certificate is rated by the name of its algorithm, and an
  algorithm without a name in `cert.rs` keeps its OID: ECDSA with SHA-1 is rated
  Recommended. The chain is not trusted then, which is a finding of its own.
- `filter_vulnerable_ciphers` is called by the tests alone; both reports of
  `--vuln-only` filter for themselves. `FilterAgrees` compares the three.
- An alert makes the parser forget a ServerHello before it. A Certificate cut
  over two records is not found. Certificates alone pass for a ServerHello of
  TLS 1.2 with suite 0: also those behind a hello that is cut over two records.
- An SSLv2 certificate that has not wholly arrived is not skipped, and the
  suites are read from its bytes; nothing looks at those suites.
- `parse_target` takes off `https://` before `http://`, so of
  `http://https://host` there remains `https:`, whose port does not parse. An
  IPv6 literal does not parse either.

## 6. Not modelled

- x509 parsing, webpki, rustls, DNS, tokio itself: external. `Certificates` and
  the certificate fetch stay "partly" for that reason.
- clap, JSON serialization, the exit code, the wording and layout of the
  printer: pure I/O. `print_summary` is the wording of the overall rating.
- The constant bytes of the hellos, and the trimming of white space in a target.
- Real time. A timeout is a step that may happen; its length is not there. So
  the blocking rustls handshake, whose timeout is per read, has a hazard and no
  property.
- Cancellation of a scan: nothing in the code cancels a task.
- The tests: they are read as documentation.

## 7. What could come next

1. The list of SSLv2 suites, once the code reads it from its place.
2. `RunScan!ProbeProtocol` proved to take every verdict of `ProbeSpec`, as
   `ScanCiphers` is proved to take every answer of `CipherScanSpec`. Both speak
   of the same `Outcomes`, so little is left to prove.
3. Two protocols' scans in sequence over `CipherScan` instead of its promise.
