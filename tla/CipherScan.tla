----------------------------- MODULE CipherScan -----------------------------
(***************************************************************************)
(* scan_ciphers_for_protocol and probe_cipher_at_protocol (tls/scanner.rs):*)
(* one task per candidate suite, at most Concurrency of them holding a     *)
(* permit of a tokio Semaphore, each opening a connection of its own,      *)
(* offering its one suite and reading once; the caller awaits the tasks in *)
(* spawning order and sorts the suites into supported and rejected.        *)
(*                                                                         *)
(* A candidate is its position in the filtered cipher table.  The server   *)
(* is external: it accepts a fixed set of candidates, may fragment its     *)
(* answer, close early, or never answer.                                   *)
(***************************************************************************)
EXTENDS Integers, Sequences, FiniteSets

CONSTANTS
  N,            \* how many candidate suites the protocol has
  Concurrency   \* the --concurrency option, a usize without a lower bound

ASSUME NAssumption           == N \in Nat
ASSUME ConcurrencyAssumption == Concurrency \in Nat

Candidates == 1..N

VARIABLES
  accepts,     \* the candidates the server negotiates when offered alone
  faulty,      \* the candidates whose connection the network or server spoilt
  spawned,     \* how many tasks the loop over candidates has spawned
  pc,          \* where each task stands
  permits,     \* the permits left in the semaphore
  conn,        \* each task's connection, as its reader would find it
  outcome,     \* what each finished task returned
  joined,      \* how many handles have been awaited
  supported,   \* the suites found so far, in the order of the joins
  rejected     \* the number of all the others

serverVars == <<accepts, faulty>>
taskVars   == <<pc, permits, conn, outcome>>
callerVars == <<spawned, joined, supported, rejected>>
vars       == <<serverVars, taskVars, callerVars>>

PcStates   == {"unspawned", "waiting", "connect", "write", "read", "done"}
ConnStates == {"none",      \* not connected, or dropped
               "open",      \* connected, nothing sent
               "hello",     \* the ClientHello is out, nothing came back
               "fragment",  \* some bytes of an answer, not a whole record
               "selected",  \* a ServerHello that selects the offered suite
               "refused",   \* an alert, or a hello with another suite
               "eof"}       \* closed without a byte
Outcomes   == {"none", "true", "false", "err"}

TypeOK ==
  /\ accepts \in SUBSET Candidates
  /\ faulty \in SUBSET Candidates
  /\ spawned \in 0..N
  /\ pc \in [Candidates -> PcStates]
  /\ permits \in 0..Concurrency
  /\ conn \in [Candidates -> ConnStates]
  /\ outcome \in [Candidates -> Outcomes]
  /\ joined \in 0..N
  /\ supported \in Seq(Candidates)
  /\ rejected \in 0..N

Init ==
  /\ accepts \in SUBSET Candidates
  /\ faulty = {}
  /\ spawned = 0
  /\ pc = [t \in Candidates |-> "unspawned"]
  /\ permits = Concurrency
  /\ conn = [t \in Candidates |-> "none"]
  /\ outcome = [t \in Candidates |-> "none"]
  /\ joined = 0
  /\ supported = <<>>
  /\ rejected = 0

-----------------------------------------------------------------------------
(* The caller *)

Returned == spawned = N /\ joined = N

Spawn ==
  /\ spawned < N
  /\ spawned' = spawned + 1
  /\ pc' = [pc EXCEPT ![spawned + 1] = "waiting"]
  /\ UNCHANGED <<serverVars, permits, conn, outcome, joined, supported, rejected>>

(* Mutant of Join: a failed probe is neither listed nor counted. *)
JoinDropsErrors ==
  /\ spawned = N
  /\ joined < N
  /\ pc[joined + 1] = "done"
  /\ joined' = joined + 1
  /\ supported' = (IF outcome[joined + 1] = "true" THEN Append(supported, joined + 1) ELSE supported)
  /\ rejected' = (IF outcome[joined + 1] = "false" THEN rejected + 1 ELSE rejected)
  /\ UNCHANGED <<serverVars, taskVars, spawned>>

(* Mutant of Join: the handle is polled once instead of awaited. *)
JoinWithoutWaiting ==
  /\ spawned = N
  /\ joined < N
  /\ joined' = joined + 1
  /\ IF outcome[joined + 1] = "true"
       THEN supported' = Append(supported, joined + 1) /\ UNCHANGED rejected
       ELSE rejected' = rejected + 1 /\ UNCHANGED supported
  /\ UNCHANGED <<serverVars, taskVars, spawned>>

(***************************************************************************)
(* handle.await, in spawning order and only once every task is spawned.    *)
(* Only Ok(Ok(true)) is support; Ok(false) and every error count alike.    *)
(***************************************************************************)
Join ==
  /\ spawned = N
  /\ joined < N
  /\ pc[joined + 1] = "done"
  /\ joined' = joined + 1
  /\ IF outcome[joined + 1] = "true"
       THEN /\ supported' = Append(supported, joined + 1)
            /\ UNCHANGED rejected
       ELSE /\ rejected' = rejected + 1
            /\ UNCHANGED supported
  /\ UNCHANGED <<serverVars, taskVars, spawned>>

-----------------------------------------------------------------------------
(* A task *)

(* Mutant of Acquire: try_acquire, a task without a permit gives up. *)
AcquireOrGiveUp(t) ==
  /\ pc[t] = "waiting"
  /\ permits' = (IF permits > 0 THEN permits - 1 ELSE 0)
  /\ pc' = [pc EXCEPT ![t] = IF permits > 0 THEN "connect" ELSE "done"]
  /\ outcome' = [outcome EXCEPT ![t] = IF permits > 0 THEN "none" ELSE "err"]
  /\ UNCHANGED <<serverVars, conn, callerVars>>

(***************************************************************************)
(* Any waiting task may get the permit: tokio's queue is FIFO, but in the  *)
(* order in which the runtime first polled the tasks, which is arbitrary.  *)
(***************************************************************************)
Acquire(t) ==
  /\ pc[t] = "waiting"
  /\ permits > 0
  /\ permits' = permits - 1
  /\ pc' = [pc EXCEPT ![t] = "connect"]
  /\ UNCHANGED <<serverVars, conn, outcome, callerVars>>

(* Mutant of Finish: an early return with an error forgets the permit. *)
FinishLeaks(t, result) ==
  /\ pc' = [pc EXCEPT ![t] = "done"]
  /\ outcome' = [outcome EXCEPT ![t] = result]
  /\ conn' = [conn EXCEPT ![t] = "none"]
  /\ permits' = (IF result = "err" THEN permits ELSE permits + 1)

(* Mutant of Finish: a permit is added besides the one dropped. *)
FinishReleasesTwice(t, result) ==
  /\ pc' = [pc EXCEPT ![t] = "done"]
  /\ outcome' = [outcome EXCEPT ![t] = result]
  /\ conn' = [conn EXCEPT ![t] = "none"]
  /\ permits' = permits + 2

(***************************************************************************)
(* The task's future completes: it drops its stream and then its permit.   *)
(***************************************************************************)
Finish(t, result) ==
  /\ pc' = [pc EXCEPT ![t] = "done"]
  /\ outcome' = [outcome EXCEPT ![t] = result]
  /\ conn' = [conn EXCEPT ![t] = "none"]
  /\ permits' = permits + 1

Connect(t) ==
  /\ pc[t] = "connect"
  /\ pc' = [pc EXCEPT ![t] = "write"]
  /\ conn' = [conn EXCEPT ![t] = "open"]
  /\ UNCHANGED <<serverVars, permits, outcome, callerVars>>

Write(t) ==
  /\ pc[t] = "write"
  /\ pc' = [pc EXCEPT ![t] = "read"]
  /\ conn' = [conn EXCEPT ![t] = "hello"]
  /\ UNCHANGED <<serverVars, permits, outcome, callerVars>>

(* Mutant of FailIO: the read has no timeout. *)
FailIOExceptRead(t) ==
  /\ pc[t] \in {"connect", "write"}
  /\ faulty' = faulty \cup {t}
  /\ Finish(t, "err")
  /\ UNCHANGED <<accepts, callerVars>>

(***************************************************************************)
(* connect, write_all or read fails or exceeds conn_timeout.  The read     *)
(* cannot time out once there is something to read: tokio's timeout polls  *)
(* the read before its timer.                                              *)
(***************************************************************************)
FailIO(t) ==
  /\ \/ pc[t] \in {"connect", "write"}
     \/ pc[t] = "read" /\ conn[t] = "hello"
  /\ faulty' = faulty \cup {t}
  /\ Finish(t, "err")
  /\ UNCHANGED <<accepts, callerVars>>

(* Mutant of Read: the selected suite is not compared with the offered one. *)
ReadAnyHello(t) ==
  /\ pc[t] = "read"
  /\ conn[t] \in {"fragment", "selected", "refused", "eof"}
  /\ Finish(t, IF conn[t] \in {"selected", "refused"} THEN "true" ELSE "false")
  /\ faulty' = (IF conn[t] \in {"fragment", "eof"} THEN faulty \cup {t} ELSE faulty)
  /\ UNCHANGED <<accepts, callerVars>>

(***************************************************************************)
(* The single read.  It takes whatever has arrived: with a fragment of a   *)
(* record parse_server_response finds no ServerHello and the suite counts  *)
(* as refused.                                                             *)
(***************************************************************************)
Read(t) ==
  /\ pc[t] = "read"
  /\ conn[t] \in {"fragment", "selected", "refused", "eof"}
  /\ Finish(t, IF conn[t] = "selected" THEN "true" ELSE "false")
  /\ faulty' = (IF conn[t] \in {"fragment", "eof"} THEN faulty \cup {t} ELSE faulty)
  /\ UNCHANGED <<accepts, callerVars>>

-----------------------------------------------------------------------------
(* The server, once it has the ClientHello *)

Fragment(t) ==
  /\ conn[t] = "hello"
  /\ conn' = [conn EXCEPT ![t] = "fragment"]
  /\ UNCHANGED <<serverVars, pc, permits, outcome, callerVars>>

Reply(t) ==
  /\ conn[t] \in {"hello", "fragment"}
  /\ conn' = [conn EXCEPT ![t] = IF t \in accepts THEN "selected" ELSE "refused"]
  /\ UNCHANGED <<serverVars, pc, permits, outcome, callerVars>>

HangUp(t) ==
  /\ conn[t] = "hello"
  /\ conn' = [conn EXCEPT ![t] = "eof"]
  /\ UNCHANGED <<serverVars, pc, permits, outcome, callerVars>>

-----------------------------------------------------------------------------
TaskStep(t)   == Acquire(t) \/ Connect(t) \/ Write(t) \/ FailIO(t) \/ Read(t)
ServerStep(t) == Fragment(t) \/ Reply(t) \/ HangUp(t)

(* The answer is out; nothing is left to do. *)
Terminating == Returned /\ UNCHANGED vars

Next ==
  \/ Spawn
  \/ Join
  \/ \E t \in Candidates : TaskStep(t) \/ ServerStep(t)
  \/ Terminating

(***************************************************************************)
(* The runtime polls every task that can move, and every await of a task   *)
(* ends at the latest with its timeout.  The server owes nothing.          *)
(***************************************************************************)
Fairness ==
  /\ WF_vars(Spawn)
  /\ WF_vars(Join)
  /\ \A t \in Candidates : WF_vars(TaskStep(t))

Spec == Init /\ [][Next]_vars /\ Fairness

-----------------------------------------------------------------------------
(* Properties *)

Holders == {t \in Candidates : pc[t] \in {"connect", "write", "read"}}

(***************************************************************************)
(* --concurrency is what its help says, the "Maximum concurrent cipher     *)
(* probes": no permit is lost on any of the early returns of a probe, none *)
(* is returned twice, and no connection is open without one.               *)
(***************************************************************************)
PermitsConserved ==
  /\ Cardinality(Holders) + permits = Concurrency
  /\ {t \in Candidates : conn[t] # "none"} \subseteq Holders

(***************************************************************************)
(* The report lists a suite only when the server does accept it, whatever  *)
(* the network and the interleaving of the tasks did.                      *)
(***************************************************************************)
NoFalsePositive == \A i \in 1..Len(supported) : supported[i] \in accepts

(***************************************************************************)
(* The two results account for every handle awaited so far: each listed    *)
(* once and in table order, or counted once.                               *)
(***************************************************************************)
JoinsAccounted ==
  /\ Len(supported) + rejected = joined
  /\ \A i, j \in 1..Len(supported) : i < j => supported[i] < supported[j]
  /\ \A i \in 1..Len(supported) : supported[i] <= joined

(***************************************************************************)
(* A suite the server accepts is missing from the answer only because its  *)
(* own connection went wrong: no task's fate depends on another's.         *)
(***************************************************************************)
LostOnlyToFaults ==
  \A t \in 1..joined :
    t \in accepts \ faulty => \E i \in 1..Len(supported) : supported[i] = t

(***************************************************************************)
(* The scan of a protocol returns, even when the server never answers:     *)
(* the timeouts in the probe guarantee it.                                 *)
(***************************************************************************)
Termination == <>Returned

(* The answer run_scan sees: nothing before the last join. *)
Abstract == INSTANCE CipherScanSpec WITH
  answer <- [given     |-> Returned,
             supported |-> IF Returned THEN supported ELSE <<>>,
             rejected  |-> IF Returned THEN rejected ELSE 0]

(***************************************************************************)
(* The concurrent scan implements the one-step answer of CipherScanSpec.   *)
(***************************************************************************)
ImplementsSpec == Abstract!Safety
=============================================================================
