-------------------------- MODULE CipherScanProofs --------------------------
(***************************************************************************)
(* Proofs about CipherScan, for every number of candidates and every       *)
(* Concurrency: type correctness, conservation of the permits, the         *)
(* accounting of the joins, soundness of the answer, and the safety part   *)
(* of the refinement of CipherScanSpec.                                    *)
(*                                                                         *)
(* The inductive invariant IInv adds to TypeOK what ties the tables        *)
(* together: how far each connection is at each point of its task, what a  *)
(* reply or an outcome says of the server, and that the answer under       *)
(* construction lists the accepted outcomes among the handles awaited.     *)
(***************************************************************************)
EXTENDS CipherScan, TLAPS, FiniteSetTheorems

-----------------------------------------------------------------------------
(* The parts of the inductive invariant *)

(* The tasks not yet spawned are those the loop has not reached. *)
SpawnInv == \A t \in Candidates : pc[t] = "unspawned" <=> t > spawned

(* A connection is as far as its task's program counter says. *)
ConnInv ==
  \A t \in Candidates :
    /\ pc[t] \in {"unspawned", "waiting", "connect", "done"} => conn[t] = "none"
    /\ pc[t] = "write" => conn[t] = "open"
    /\ pc[t] = "read" => conn[t] \in {"hello", "fragment", "selected", "refused", "eof"}

(* What a reply, and later an outcome, says of the server. *)
AnswerInv ==
  \A t \in Candidates :
    /\ conn[t] = "selected" => t \in accepts
    /\ conn[t] = "refused" => t \notin accepts
    /\ outcome[t] = "true" => t \in accepts
    /\ pc[t] = "done" /\ t \in accepts \ faulty => outcome[t] = "true"

PermitInv == Cardinality(Holders) + permits = Concurrency

(* The candidates that the handles awaited so far have found accepted. *)
Found == {t \in 1..joined : outcome[t] = "true"}

JoinInv ==
  /\ joined > 0 => spawned = N
  /\ \A t \in 1..joined : pc[t] = "done"
  /\ Abstract!Lists(supported, Found)
  /\ Len(supported) + rejected = joined

IInv ==
  /\ TypeOK
  /\ SpawnInv
  /\ ConnInv
  /\ AnswerInv
  /\ PermitInv
  /\ JoinInv

-----------------------------------------------------------------------------
(* Lemmas *)

(***************************************************************************)
(* Appending an element above all the others to an ascending listing of a  *)
(* set lists the set with that element: what Join does to supported.       *)
(***************************************************************************)
LEMMA AppendLists ==
  ASSUME NEW S \in SUBSET Int, NEW s, NEW c \in Int,
         Abstract!Lists(s, S), \A x \in S : x < c
  PROVE  Abstract!Lists(Append(s, c), S \cup {c})
<1> DEFINE r == Append(s, c)
<1>1. s \in Seq(S) /\ Len(s) \in Nat
  BY DEF Abstract!Lists
<1>2. /\ r \in Seq(S \cup {c})
      /\ Len(r) = Len(s) + 1
      /\ \A i \in 1..Len(s) : r[i] = s[i]
      /\ r[Len(s) + 1] = c
  BY <1>1
<1>3. \A i \in 1..Len(s) : s[i] \in S
  BY <1>1
<1>4. ASSUME NEW i \in 1..Len(r), NEW j \in 1..Len(r), i < j
      PROVE  r[i] < r[j]
  <2>1. CASE j \in 1..Len(s)
    BY <1>1, <1>2, <1>4, <2>1 DEF Abstract!Lists
  <2>2. CASE j = Len(s) + 1
    <3>1. i \in 1..Len(s)
      BY <1>1, <1>2, <1>4, <2>2
    <3>2. s[i] < c
      BY <1>3, <3>1
    <3> QED BY <1>2, <2>2, <3>1, <3>2
  <2> QED BY <1>1, <1>2, <2>1, <2>2
<1>5. ASSUME NEW d \in S \cup {c}
      PROVE  \E i \in 1..Len(r) : r[i] = d
  <2>1. CASE d \in S
    <3>1. PICK i \in 1..Len(s) : s[i] = d
      BY <2>1 DEF Abstract!Lists
    <3> QED BY <1>1, <1>2, <3>1
  <2>2. CASE d = c
    BY <1>1, <1>2, <2>2
  <2> QED BY <2>1, <2>2
<1> QED BY <1>2, <1>4, <1>5 DEF Abstract!Lists

(* The holders of permits are finitely many. *)
LEMMA HoldersFinite ==
  IsFiniteSet(Holders) /\ Cardinality(Holders) \in Nat
<1>1. IsFiniteSet(Candidates)
  BY NAssumption, FS_Interval DEF Candidates
<1>2. Holders \subseteq Candidates
  BY DEF Holders
<1> QED BY <1>1, <1>2, FS_Subset, FS_CardinalityType

-----------------------------------------------------------------------------
(* The invariant holds initially. *)
LEMMA InitInv == Init => IInv
<1> SUFFICES ASSUME Init PROVE IInv
  OBVIOUS
<1> USE NAssumption, ConcurrencyAssumption DEF Init
<1>1. TypeOK
  BY DEF TypeOK, Candidates, PcStates, ConnStates, Outcomes
<1>2. SpawnInv
  BY DEF SpawnInv, Candidates
<1>3. ConnInv /\ AnswerInv
  BY DEF ConnInv, AnswerInv
<1>4. PermitInv
  <2>1. Holders = {}
    BY DEF Holders
  <2> QED BY <2>1, FS_EmptySet DEF PermitInv
<1>5. JoinInv
  <2>1. Found = {}
    BY DEF Found
  <2>2. Abstract!Lists(<<>>, {})
    BY DEF Abstract!Lists
  <2> QED BY <2>1, <2>2 DEF JoinInv
<1> QED BY <1>1, <1>2, <1>3, <1>4, <1>5 DEF IInv

-----------------------------------------------------------------------------
(* What every step of a task or of the server leaves alone *)

(***************************************************************************)
(* The answer under construction depends only on the tasks awaited, which  *)
(* are done: a step of any other task does not disturb it.                 *)
(***************************************************************************)
LEMMA JoinStable ==
  ASSUME IInv, NEW t \in Candidates, pc[t] # "done", UNCHANGED callerVars,
         \A u \in Candidates \ {t} : pc'[u] = pc[u] /\ outcome'[u] = outcome[u]
  PROVE  JoinInv'
<1>1. /\ joined \in 0..N /\ joined' = joined /\ spawned' = spawned
      /\ supported' = supported /\ rejected' = rejected
  BY DEF IInv, TypeOK, callerVars
<1>2. 1..joined \subseteq Candidates \ {t}
  BY <1>1, NAssumption DEF IInv, JoinInv, Candidates
<1>3. Found' = Found
  BY <1>1, <1>2 DEF Found
<1> QED BY <1>1, <1>2, <1>3 DEF IInv, JoinInv

(* A task that has been spawned stays so. *)
LEMMA SpawnStable ==
  ASSUME IInv, NEW t \in Candidates, pc[t] # "unspawned", pc'[t] # "unspawned",
         spawned' = spawned, \A u \in Candidates \ {t} : pc'[u] = pc[u]
  PROVE  SpawnInv'
BY DEF IInv, SpawnInv

(* A step that neither takes nor gives back a permit. *)
LEMMA PermitStable ==
  ASSUME IInv, Holders' = Holders, permits' = permits
  PROVE  PermitInv'
BY DEF IInv, PermitInv

(***************************************************************************)
(* A probe that ends, on whichever of its returns, gives back the permit   *)
(* it holds: the semaphore stays within its capacity.                      *)
(***************************************************************************)
LEMMA FinishPermits ==
  ASSUME IInv, NEW t \in Candidates, pc[t] \in {"connect", "write", "read"},
         NEW result, Finish(t, result)
  PROVE  PermitInv' /\ permits' \in 0..Concurrency
<1>1. t \in Holders /\ Holders' = Holders \ {t}
  BY DEF Holders, Finish, IInv, TypeOK
<1>2. Cardinality(Holders') = Cardinality(Holders) - 1
  BY <1>1, HoldersFinite, FS_RemoveElement
<1>3. Cardinality(Holders) \in Nat /\ Cardinality(Holders) > 0
  BY <1>1, HoldersFinite, FS_EmptySet
<1> QED BY <1>2, <1>3, ConcurrencyAssumption DEF Finish, IInv, TypeOK, PermitInv

-----------------------------------------------------------------------------
(* One lemma per action *)

LEMMA SpawnStep == ASSUME IInv, Spawn PROVE IInv'
<1> DEFINE t == spawned + 1
<1> USE NAssumption DEF IInv
<1>1. t \in Candidates /\ pc[t] = "unspawned" /\ joined = 0
  BY DEF Spawn, SpawnInv, TypeOK, Candidates, JoinInv
<1>2. TypeOK'
  BY <1>1 DEF Spawn, TypeOK, Candidates, PcStates, serverVars
<1>3. SpawnInv'
  BY <1>1 DEF Spawn, SpawnInv, TypeOK, Candidates
<1>4. ConnInv' /\ AnswerInv'
  BY <1>1 DEF Spawn, ConnInv, AnswerInv, TypeOK, serverVars
<1>5. PermitInv'
  <2>1. Holders' = Holders
    BY <1>1 DEF Spawn, Holders, TypeOK
  <2> QED BY <2>1, PermitStable DEF Spawn
<1>6. JoinInv'
  <2>1. Found' = Found
    BY DEF Spawn, Found
  <2> QED BY <1>1, <2>1 DEF Spawn, JoinInv
<1> QED BY <1>2, <1>3, <1>4, <1>5, <1>6

LEMMA JoinStep == ASSUME IInv, Join PROVE IInv'
<1> DEFINE t == joined + 1
<1> USE NAssumption DEF IInv
<1>1. /\ t \in Candidates /\ joined \in Nat /\ joined' = t /\ spawned = N
      /\ UNCHANGED <<accepts, faulty, pc, permits, conn, outcome, spawned>>
  BY DEF Join, TypeOK, Candidates, serverVars, taskVars
<1>2. Len(supported) \in Nat /\ rejected \in Nat /\ Len(supported) + rejected = joined
  BY DEF TypeOK, JoinInv
<1>3. JoinInv'
  <2>1. Found \in SUBSET Int /\ \A x \in Found : x < t
    BY <1>1 DEF Found
  <2>2. CASE outcome[t] = "true"
    <3>1. supported' = Append(supported, t) /\ rejected' = rejected
      BY <2>2 DEF Join
    <3>2. Found' = Found \cup {t}
      BY <1>1, <2>2 DEF Found
    <3>3. Abstract!Lists(supported', Found')
      BY <1>1, <2>1, <3>1, <3>2, AppendLists DEF JoinInv
    <3>4. Len(supported') = Len(supported) + 1
      BY <3>1 DEF TypeOK
    <3> QED BY <1>1, <1>2, <3>1, <3>3, <3>4 DEF JoinInv, Join
  <2>3. CASE outcome[t] # "true"
    <3>1. supported' = supported /\ rejected' = rejected + 1
      BY <2>3 DEF Join
    <3>2. Found' = Found
      BY <1>1, <2>3 DEF Found
    <3> QED BY <1>1, <1>2, <3>1, <3>2 DEF JoinInv, Join
  <2> QED BY <2>2, <2>3
<1>4. TypeOK'
  <2>1. supported' \in Seq(Candidates)
    <3>1. supported \in Seq(Candidates)
      BY DEF TypeOK
    <3>2. supported' = supported \/ supported' = Append(supported, t)
      BY DEF Join
    <3> HIDE DEF t
    <3> QED BY <1>1, <3>1, <3>2
  <2>2. rejected' \in 0..N
    BY <1>1, <1>2 DEF Join, TypeOK
  <2> QED BY <1>1, <2>1, <2>2 DEF TypeOK, Candidates
<1>5. SpawnInv' /\ ConnInv' /\ AnswerInv'
  BY <1>1 DEF SpawnInv, ConnInv, AnswerInv
<1>6. PermitInv'
  <2>1. Holders' = Holders
    BY <1>1 DEF Holders
  <2> QED BY <1>1, <2>1, PermitStable
<1> QED BY <1>3, <1>4, <1>5, <1>6

LEMMA AcquireStep == ASSUME IInv, NEW t \in Candidates, Acquire(t) PROVE IInv'
<1> USE DEF IInv
<1>1. TypeOK'
  BY ConcurrencyAssumption DEF Acquire, TypeOK, PcStates, serverVars, callerVars
<1>2. SpawnInv'
  BY SpawnStable DEF Acquire, TypeOK, callerVars
<1>3. ConnInv' /\ AnswerInv'
  BY DEF Acquire, ConnInv, AnswerInv, TypeOK, serverVars
<1>4. PermitInv'
  <2>1. t \notin Holders /\ Holders' = Holders \cup {t}
    BY DEF Acquire, Holders, TypeOK
  <2>2. Cardinality(Holders') = Cardinality(Holders) + 1
    BY <2>1, HoldersFinite, FS_AddElement
  <2> QED BY <2>2, HoldersFinite, ConcurrencyAssumption DEF Acquire, PermitInv, TypeOK
<1>5. JoinInv'
  BY JoinStable DEF Acquire, TypeOK
<1> QED BY <1>1, <1>2, <1>3, <1>4, <1>5

LEMMA ConnectStep == ASSUME IInv, NEW t \in Candidates, Connect(t) PROVE IInv'
<1> USE DEF IInv
<1>1. TypeOK'
  BY DEF Connect, TypeOK, PcStates, ConnStates, serverVars, callerVars
<1>2. SpawnInv'
  BY SpawnStable DEF Connect, TypeOK, callerVars
<1>3. ConnInv' /\ AnswerInv'
  BY DEF Connect, ConnInv, AnswerInv, TypeOK, serverVars
<1>4. PermitInv'
  <2>1. Holders' = Holders
    BY DEF Connect, Holders, TypeOK
  <2> QED BY <2>1, PermitStable DEF Connect
<1>5. JoinInv'
  BY JoinStable DEF Connect, TypeOK
<1> QED BY <1>1, <1>2, <1>3, <1>4, <1>5

LEMMA WriteStep == ASSUME IInv, NEW t \in Candidates, Write(t) PROVE IInv'
<1> USE DEF IInv
<1>1. TypeOK'
  BY DEF Write, TypeOK, PcStates, ConnStates, serverVars, callerVars
<1>2. SpawnInv'
  BY SpawnStable DEF Write, TypeOK, callerVars
<1>3. ConnInv' /\ AnswerInv'
  BY DEF Write, ConnInv, AnswerInv, TypeOK, serverVars
<1>4. PermitInv'
  <2>1. Holders' = Holders
    BY DEF Write, Holders, TypeOK
  <2> QED BY <2>1, PermitStable DEF Write
<1>5. JoinInv'
  BY JoinStable DEF Write, TypeOK
<1> QED BY <1>1, <1>2, <1>3, <1>4, <1>5

LEMMA FailIOStep == ASSUME IInv, NEW t \in Candidates, FailIO(t) PROVE IInv'
<1> USE DEF IInv
<1>1. /\ pc[t] \in {"connect", "write", "read"}
      /\ Finish(t, "err")
      /\ accepts' = accepts /\ faulty' = faulty \cup {t} /\ UNCHANGED callerVars
  BY DEF FailIO
<1>2. PermitInv' /\ permits' \in 0..Concurrency
  BY <1>1, FinishPermits
<1>3. TypeOK'
  BY <1>1, <1>2 DEF Finish, TypeOK, PcStates, ConnStates, Outcomes, callerVars
<1>4. SpawnInv'
  BY <1>1, SpawnStable DEF Finish, TypeOK, callerVars
<1>5. ConnInv' /\ AnswerInv'
  BY <1>1 DEF Finish, ConnInv, AnswerInv, TypeOK
<1>6. JoinInv'
  BY <1>1, JoinStable DEF Finish, TypeOK
<1> QED BY <1>2, <1>3, <1>4, <1>5, <1>6

LEMMA ReadStep == ASSUME IInv, NEW t \in Candidates, Read(t) PROVE IInv'
<1> USE DEF IInv
<1> DEFINE result == IF conn[t] = "selected" THEN "true" ELSE "false"
<1>1. /\ pc[t] = "read"
      /\ conn[t] \in {"fragment", "selected", "refused", "eof"}
      /\ Finish(t, result)
      /\ faulty' = (IF conn[t] \in {"fragment", "eof"} THEN faulty \cup {t} ELSE faulty)
      /\ accepts' = accepts /\ UNCHANGED callerVars
  BY DEF Read
<1>2. PermitInv' /\ permits' \in 0..Concurrency
  BY <1>1, FinishPermits
<1>3. TypeOK'
  BY <1>1, <1>2 DEF Finish, TypeOK, PcStates, ConnStates, Outcomes, callerVars
<1>4. SpawnInv'
  BY <1>1, SpawnStable DEF Finish, TypeOK, callerVars
<1>5. ConnInv' /\ AnswerInv'
  BY <1>1 DEF Finish, ConnInv, AnswerInv, TypeOK
<1>6. JoinInv'
  BY <1>1, JoinStable DEF Finish, TypeOK
<1> QED BY <1>2, <1>3, <1>4, <1>5, <1>6

LEMMA ServerStepInv == ASSUME IInv, NEW t \in Candidates, ServerStep(t) PROVE IInv'
<1> USE DEF IInv, ServerStep, Fragment, Reply, HangUp
<1>1. /\ pc[t] = "read"
      /\ UNCHANGED <<accepts, faulty, pc, permits, outcome>> /\ UNCHANGED callerVars
      /\ conn' = [conn EXCEPT ![t] = conn'[t]]
      /\ conn'[t] \in {"fragment", "selected", "refused", "eof"}
      /\ conn'[t] = "selected" => t \in accepts
      /\ conn'[t] = "refused" => t \notin accepts
  BY DEF ConnInv, TypeOK, PcStates, serverVars
<1>2. TypeOK'
  BY <1>1 DEF TypeOK, ConnStates, callerVars
<1>3. SpawnInv'
  BY <1>1, SpawnStable DEF callerVars
<1>4. ConnInv' /\ AnswerInv'
  BY <1>1 DEF ConnInv, AnswerInv, TypeOK
<1>5. PermitInv'
  <2>1. Holders' = Holders
    BY <1>1 DEF Holders
  <2> QED BY <1>1, <2>1, PermitStable
<1>6. JoinInv'
  BY <1>1, JoinStable
<1> QED BY <1>2, <1>3, <1>4, <1>5, <1>6

LEMMA StutterStep == ASSUME IInv, UNCHANGED vars PROVE IInv'
BY DEF IInv, vars, serverVars, taskVars, callerVars, TypeOK, SpawnInv, ConnInv,
       AnswerInv, PermitInv, Holders, JoinInv, Found

LEMMA NextInv == ASSUME IInv, [Next]_vars PROVE IInv'
<1>1. CASE Spawn
  BY <1>1, SpawnStep
<1>2. CASE Join
  BY <1>2, JoinStep
<1>3. CASE \E t \in Candidates : TaskStep(t) \/ ServerStep(t)
  <2>1. PICK t \in Candidates : TaskStep(t) \/ ServerStep(t)
    BY <1>3
  <2> QED
    BY <2>1, AcquireStep, ConnectStep, WriteStep, FailIOStep, ReadStep, ServerStepInv
    DEF TaskStep
<1>4. CASE UNCHANGED vars
  BY <1>4, StutterStep
<1> QED BY <1>1, <1>2, <1>3, <1>4 DEF Next, Terminating

-----------------------------------------------------------------------------
(* The theorems *)

(* IInv holds in every reachable state. *)
THEOREM Invariance == Spec => []IInv
BY InitInv, NextInv, PTL DEF Spec

(* Every variable keeps its type, for every N and Concurrency. *)
THEOREM TypeCorrect == Spec => []TypeOK
<1>1. IInv => TypeOK
  BY DEF IInv
<1> QED BY <1>1, Invariance, PTL

(***************************************************************************)
(* No more than Concurrency connections are ever open, and no permit is    *)
(* lost or returned twice on any path through a probe.                     *)
(***************************************************************************)
THEOREM PermitsAreConserved == Spec => []PermitsConserved
<1>1. IInv => PermitsConserved
  <2> SUFFICES ASSUME IInv PROVE PermitsConserved
    OBVIOUS
  <2>1. {t \in Candidates : conn[t] # "none"} \subseteq Holders
    BY DEF IInv, TypeOK, PcStates, ConnInv, Holders
  <2> QED BY <2>1 DEF IInv, PermitInv, PermitsConserved
<1> QED BY <1>1, Invariance, PTL

(* The scan never lists a suite that the server does not accept. *)
THEOREM Sound == Spec => []NoFalsePositive
<1>1. IInv => NoFalsePositive
  <2> SUFFICES ASSUME IInv, NEW i \in 1..Len(supported)
               PROVE  supported[i] \in accepts
    BY DEF NoFalsePositive
  <2>1. supported[i] \in Found
    BY DEF IInv, JoinInv, Abstract!Lists
  <2>2. Found \subseteq Candidates
    BY NAssumption DEF Found, Candidates, IInv, TypeOK
  <2> QED BY <2>1, <2>2 DEF Found, IInv, AnswerInv
<1> QED BY <1>1, Invariance, PTL

(* Every handle awaited is listed once, in table order, or counted once. *)
THEOREM Accounted == Spec => []JoinsAccounted
<1>1. IInv => JoinsAccounted
  <2> SUFFICES ASSUME IInv PROVE JoinsAccounted
    OBVIOUS
  <2>1. Abstract!Lists(supported, Found) /\ Len(supported) + rejected = joined
    BY DEF IInv, JoinInv
  <2>2. \A i \in 1..Len(supported) : supported[i] <= joined
    BY <2>1 DEF Abstract!Lists, Found, IInv, TypeOK
  <2> QED BY <2>1, <2>2 DEF JoinsAccounted, Abstract!Lists
<1> QED BY <1>1, Invariance, PTL

(***************************************************************************)
(* A suite the server accepts is missing only if its own connection went   *)
(* wrong, however the other tasks fared.                                   *)
(***************************************************************************)
THEOREM LossNeedsFault == Spec => []LostOnlyToFaults
<1>1. IInv => LostOnlyToFaults
  <2> SUFFICES ASSUME IInv, NEW t \in 1..joined, t \in accepts \ faulty
               PROVE  \E i \in 1..Len(supported) : supported[i] = t
    BY DEF LostOnlyToFaults
  <2>1. t \in Candidates /\ pc[t] = "done"
    BY NAssumption DEF IInv, JoinInv, TypeOK, Candidates
  <2>2. t \in Found
    BY <2>1 DEF IInv, AnswerInv, Found
  <2> QED BY <2>2 DEF IInv, JoinInv, Abstract!Lists
<1> QED BY <1>1, Invariance, PTL

-----------------------------------------------------------------------------
(***************************************************************************)
(* Refinement.  The answer the caller has is the record substituted for    *)
(* CipherScanSpec's answer.  Only the last Join changes it; a step that    *)
(* spoils a connection is a Fault; every other step is a stutter.          *)
(***************************************************************************)
AnswerNow == [given     |-> Returned,
              supported |-> IF Returned THEN supported ELSE <<>>,
              rejected  |-> IF Returned THEN rejected ELSE 0]

(* While a task has not finished, the caller has not returned. *)
LEMMA NotReturned ==
  ASSUME IInv, NEW t \in Candidates, pc[t] # "done"
  PROVE  ~Returned
BY DEF Returned, IInv, JoinInv, Candidates

(* Steps of tasks and server leave the caller's answer alone. *)
LEMMA AnswerStable ==
  ASSUME UNCHANGED callerVars
  PROVE  AnswerNow' = AnswerNow /\ Returned' = Returned
BY DEF AnswerNow, Returned, callerVars

LEMMA InitRefines == Init => Abstract!Init
<1> SUFFICES ASSUME Init PROVE Abstract!Init
  OBVIOUS
<1>1. CASE N = 0
  BY <1>1 DEF Init, Abstract!Init, Abstract!NoAnswer, Returned, Candidates, Abstract!Candidates
<1>2. CASE N # 0
  BY <1>2 DEF Init, Abstract!Init, Abstract!NoAnswer, Returned, Candidates, Abstract!Candidates
<1> QED BY <1>1, <1>2

LEMMA FaultRefines ==
  ASSUME IInv, NEW t \in Candidates, pc[t] # "done", UNCHANGED callerVars,
         accepts' = accepts, faulty' = faulty \cup {t} \/ faulty' = faulty
  PROVE  [Abstract!Next]_(Abstract!vars)
<1>1. ~Returned /\ AnswerNow' = AnswerNow
  BY NotReturned, AnswerStable
<1>2. CASE faulty' = faulty
  BY <1>1, <1>2 DEF Abstract!vars, AnswerNow
<1>3. CASE faulty' = faulty \cup {t}
  <2>1. \E c \in Abstract!Candidates : faulty' = faulty \cup {c}
    BY <1>3 DEF Candidates, Abstract!Candidates
  <2> QED BY <1>1, <2>1 DEF Abstract!Next, Abstract!Fault, AnswerNow
<1> QED BY <1>2, <1>3

LEMMA SpawnRefines ==
  ASSUME IInv, Spawn
  PROVE  [Abstract!Next]_(Abstract!vars)
<1>1. ~Returned /\ ~Returned'
  BY NAssumption DEF Spawn, Returned, IInv, JoinInv, TypeOK
<1>2. AnswerNow' = AnswerNow
  BY <1>1 DEF AnswerNow, Returned
<1> QED BY <1>2 DEF Abstract!vars, AnswerNow, Spawn, serverVars

LEMMA JoinRefines ==
  ASSUME IInv, IInv', Join
  PROVE  [Abstract!Next]_(Abstract!vars)
<1>1. /\ ~Returned /\ accepts' = accepts /\ faulty' = faulty
      /\ spawned' = N /\ joined' \in 0..N
  BY DEF Join, Returned, serverVars, IInv, TypeOK
<1>2. CASE joined' # N
  <2>1. AnswerNow' = AnswerNow
    BY <1>1, <1>2 DEF AnswerNow, Returned
  <2> QED BY <1>1, <2>1 DEF Abstract!vars, AnswerNow
<1>3. CASE joined' = N
  <2>1. Returned'
    BY <1>1, <1>3 DEF Returned
  <2> DEFINE lost == accepts \ Found'
  <2>2. accepts \ lost = Found'
    <3>1. Found' \subseteq accepts
      BY <1>1, <1>3 DEF IInv, AnswerInv, Found, Candidates
    <3> QED BY <3>1
  <2>3. lost \in SUBSET (accepts \cap faulty)
    BY <1>1, <1>3 DEF IInv, AnswerInv, JoinInv, Found, Candidates, TypeOK
  <2>4. Abstract!Lists(supported', accepts \ lost)
    BY <2>2 DEF IInv, JoinInv
  <2>5. rejected' = N - Len(supported')
    <3>1. Len(supported') \in Nat /\ rejected' \in Nat
      <4>1. supported' \in Seq(Candidates) /\ rejected' \in 0..N
        BY DEF IInv, TypeOK
      <4> QED BY <4>1, NAssumption
    <3>2. Len(supported') + rejected' = N
      BY <1>3 DEF IInv, JoinInv
    <3> QED BY <3>1, <3>2, NAssumption
  <2>6. Abstract!Answer
    <3> HIDE DEF lost
    <3> QED BY <1>1, <2>1, <2>3, <2>4, <2>5 DEF Abstract!Answer
  <2> QED BY <2>6 DEF Abstract!Next
<1> QED BY <1>2, <1>3

LEMMA StepRefines ==
  ASSUME IInv, IInv', [Next]_vars
  PROVE  [Abstract!Next]_(Abstract!vars)
<1>1. CASE Spawn
  BY <1>1, SpawnRefines
<1>2. CASE Join
  BY <1>2, JoinRefines
<1>3. ASSUME NEW t \in Candidates, TaskStep(t) \/ ServerStep(t)
      PROVE  [Abstract!Next]_(Abstract!vars)
  <2>1. pc[t] # "done"
    BY <1>3 DEF TaskStep, ServerStep, Acquire, Connect, Write, FailIO, Read,
                Fragment, Reply, HangUp, IInv, ConnInv
  <2>2. /\ accepts' = accepts /\ UNCHANGED callerVars
        /\ faulty' = faulty \cup {t} \/ faulty' = faulty
    BY <1>3 DEF TaskStep, ServerStep, Acquire, Connect, Write, FailIO, Read,
                Fragment, Reply, HangUp, serverVars
  <2> QED BY <2>1, <2>2, FaultRefines
<1>4. CASE UNCHANGED vars
  <2>1. AnswerNow' = AnswerNow /\ accepts' = accepts /\ faulty' = faulty
    BY <1>4, AnswerStable DEF vars, serverVars
  <2> QED BY <2>1 DEF Abstract!vars, AnswerNow
<1> QED BY <1>1, <1>2, <1>3, <1>4 DEF Next, Terminating

(***************************************************************************)
(* The concurrent scan implements the one-step answer of CipherScanSpec.   *)
(***************************************************************************)
THEOREM Refinement == Spec => ImplementsSpec
<1>1. IInv /\ IInv' /\ [Next]_vars => [Abstract!Next]_(Abstract!vars)
  BY StepRefines
<1> QED
  BY <1>1, InitRefines, Invariance, PTL DEF Spec, ImplementsSpec, Abstract!Safety

-----------------------------------------------------------------------------
(* Termination *)

(* A bound on the steps ahead of a task at p with its connection at c. *)
StepsLeft(p, c) ==
  CASE p = "unspawned" -> 7 [] p = "waiting" -> 6 [] p = "connect" -> 5 [] p = "write" -> 4
    [] p = "read" -> (IF c = "hello" THEN 3 ELSE IF c = "fragment" THEN 2 ELSE 1)
    [] OTHER -> 0

(***************************************************************************)
(* What may still happen: steps of each task and its peer, and the joins,  *)
(* which count as those of a task 0.                                       *)
(***************************************************************************)
Ahead ==
  {x \in Candidates \X (1..7) : x[2] <= StepsLeft(pc[x[1]], conn[x[1]])} \cup ({0} \X (joined + 1..N))

LEMMA StepsAt ==
  \A p, c :
    /\ StepsLeft("unspawned", c) = 7 /\ StepsLeft("waiting", c) = 6
    /\ StepsLeft("connect", c) = 5 /\ StepsLeft("write", c) = 4
    /\ StepsLeft("read", "hello") = 3 /\ StepsLeft("read", "fragment") = 2
    /\ c \in {"selected", "refused", "eof"} => StepsLeft("read", c) = 1
    /\ StepsLeft("done", c) = 0
BY Zenon DEF StepsLeft

(* A step of one task, or of its peer, takes something from what is ahead. *)
LEMMA TaskShrinks ==
  ASSUME NEW t \in Candidates, NEW m \in 1..7, NEW n \in 0..6, n < m,
         StepsLeft(pc[t], conn[t]) = m, StepsLeft(pc'[t], conn'[t]) = n,
         \A u \in Candidates \ {t} : pc'[u] = pc[u] /\ conn'[u] = conn[u],
         joined' = joined
  PROVE  Ahead' \subseteq Ahead /\ Ahead' # Ahead
<1>1. ASSUME NEW x \in Ahead' PROVE x \in Ahead
  <2>1. CASE x \in Candidates \X (1..7) /\ x[2] <= StepsLeft(pc'[x[1]], conn'[x[1]])
    <3>1. CASE x[1] = t
      <4>1. x[2] \in 1..7 /\ x[2] <= n
        BY <2>1, <3>1
      <4>2. x[2] <= m
        BY <4>1
      <4> QED BY <2>1, <3>1, <4>2 DEF Ahead
    <3>2. CASE x[1] # t
      BY <2>1, <3>2 DEF Ahead
    <3> QED BY <3>1, <3>2
  <2>2. CASE x \in {0} \X (joined + 1..N)
    BY <2>2 DEF Ahead
  <2> QED BY <1>1, <2>1, <2>2, NAssumption DEF Ahead, Candidates
<1>2. <<t, m>> \in Ahead
  BY DEF Ahead
<1>3. <<t, m>> \notin Ahead'
  <2>1. t # 0
    BY NAssumption DEF Candidates
  <2>2. ~(m <= n)
    OBVIOUS
  <2> QED BY <2>1, <2>2 DEF Ahead
<1> QED BY <1>1, <1>2, <1>3

LEMMA StepShrinks ==
  ASSUME IInv, [Next]_vars
  PROVE  vars' = vars \/ (Ahead' \subseteq Ahead /\ Ahead' # Ahead)
<1> SUFFICES ASSUME Next, ~Terminating PROVE Ahead' \subseteq Ahead /\ Ahead' # Ahead
  BY DEF Terminating
<1> USE NAssumption
<1>1. TypeOK /\ SpawnInv /\ ConnInv
  BY DEF IInv
<1>2. /\ pc \in [Candidates -> PcStates] /\ conn \in [Candidates -> ConnStates]
      /\ joined \in 0..N /\ spawned \in 0..N
  BY <1>1 DEF TypeOK
<1>3. CASE Spawn
  <2> DEFINE t == spawned + 1
  <2>1. t \in Candidates /\ pc[t] = "unspawned"
    BY <1>1, <1>2, <1>3 DEF Spawn, SpawnInv, Candidates
  <2>2. pc' = [pc EXCEPT ![t] = "waiting"] /\ UNCHANGED <<conn, joined>>
    BY <1>3 DEF Spawn
  <2> HIDE DEF t
  <2>3. pc'[t] = "waiting" /\ \A u \in Candidates \ {t} : pc'[u] = pc[u] /\ conn'[u] = conn[u]
    BY <1>2, <2>1, <2>2
  <2>4. StepsLeft(pc[t], conn[t]) = 7 /\ StepsLeft(pc'[t], conn'[t]) = 6
    BY <2>1, <2>3, StepsAt, Zenon
  <2> QED BY <2>1, <2>2, <2>3, <2>4, TaskShrinks
<1>4. CASE Join
  <2>1. joined < N /\ joined' = joined + 1 /\ UNCHANGED <<pc, conn>>
    BY <1>4 DEF Join, taskVars
  <2>2. Ahead' \subseteq Ahead
    BY <1>2, <2>1 DEF Ahead
  <2>3. <<0, joined + 1>> \in Ahead
    BY <1>2, <2>1 DEF Ahead
  <2>4. <<0, joined + 1>> \notin Ahead'
    BY <1>2, <2>1 DEF Ahead, Candidates
  <2> QED BY <2>2, <2>3, <2>4
<1>5. ASSUME NEW t \in Candidates, TaskStep(t) \/ ServerStep(t)
      PROVE  Ahead' \subseteq Ahead /\ Ahead' # Ahead
  <2>1. /\ \A u \in Candidates \ {t} : pc'[u] = pc[u] /\ conn'[u] = conn[u]
        /\ joined' = joined
    BY <1>2, <1>5 DEF TaskStep, ServerStep, Acquire, Connect, Write, FailIO, Read, Finish,
       Fragment, Reply, HangUp, callerVars
  <2>2. CASE Acquire(t) \/ Connect(t) \/ Write(t)
    <3>1. \/ pc[t] = "waiting" /\ pc'[t] = "connect"
          \/ pc[t] = "connect" /\ pc'[t] = "write"
          \/ pc[t] = "write" /\ pc'[t] = "read" /\ conn'[t] = "hello"
      BY <1>2, <2>2 DEF Acquire, Connect, Write
    <3>2. \/ StepsLeft(pc[t], conn[t]) = 6 /\ StepsLeft(pc'[t], conn'[t]) = 5
          \/ StepsLeft(pc[t], conn[t]) = 5 /\ StepsLeft(pc'[t], conn'[t]) = 4
          \/ StepsLeft(pc[t], conn[t]) = 4 /\ StepsLeft(pc'[t], conn'[t]) = 3
      BY <3>1, StepsAt, Zenon
    <3> QED BY <2>1, <3>2, TaskShrinks
  <2>3. CASE FailIO(t) \/ Read(t)
    <3>1. pc'[t] = "done" /\ pc[t] \in {"connect", "write", "read"}
      BY <1>2, <2>3 DEF FailIO, Read, Finish
    <3>2. pc[t] = "read" => conn[t] \in {"hello", "fragment", "selected", "refused", "eof"}
      BY <1>1 DEF ConnInv
    <3>3. StepsLeft(pc[t], conn[t]) \in {5, 4, 3, 2, 1} /\ StepsLeft(pc'[t], conn'[t]) = 0
      BY <3>1, <3>2, StepsAt, Zenon
    <3> QED BY <2>1, <3>3, TaskShrinks
  <2>4. CASE ServerStep(t)
    <3>1. conn[t] \in {"hello", "fragment"} /\ pc' = pc
      BY <2>4 DEF ServerStep, Fragment, Reply, HangUp
    <3>2. pc[t] = "read"
      BY <1>1, <1>2, <3>1 DEF ConnInv, PcStates
    <3>3. \/ conn[t] = "hello" /\ conn'[t] \in {"fragment", "selected", "refused", "eof"}
          \/ conn[t] = "fragment" /\ conn'[t] \in {"selected", "refused"}
      BY <1>2, <2>4 DEF ServerStep, Fragment, Reply, HangUp
    <3>4. \/ StepsLeft(pc[t], conn[t]) = 3 /\ StepsLeft(pc'[t], conn'[t]) \in {2, 1}
          \/ StepsLeft(pc[t], conn[t]) = 2 /\ StepsLeft(pc'[t], conn'[t]) = 1
      BY <3>1, <3>2, <3>3, StepsAt, Zenon
    <3> QED BY <2>1, <3>4, TaskShrinks
  <2> QED BY <1>5, <2>2, <2>3, <2>4 DEF TaskStep
<1> QED BY <1>3, <1>4, <1>5 DEF Next

LEMMA AheadBounded ==
  ASSUME IInv
  PROVE  IsFiniteSet(Ahead) /\ Cardinality(Ahead) \in 0..8 * N
<1> DEFINE Tasks == Candidates \X (1..7)
           Joins == {0} \X (1..N)
<1>1. \A n \in Nat : IsFiniteSet(1..n) /\ Cardinality(1..n) = n
  <2> SUFFICES ASSUME NEW n \in Nat PROVE IsFiniteSet(1..n) /\ Cardinality(1..n) = n
    OBVIOUS
  <2>1. IsFiniteSet(1..n) /\ Cardinality(1..n) = IF 1 > n THEN 0 ELSE n - 1 + 1
    BY FS_Interval
  <2> QED BY <2>1
<1>2. /\ IsFiniteSet(1..N) /\ Cardinality(1..N) = N
      /\ IsFiniteSet(1..7) /\ Cardinality(1..7) = 7
      /\ IsFiniteSet({0}) /\ Cardinality({0}) = 1
  <2>1. 7 \in Nat
    OBVIOUS
  <2> QED BY <1>1, <2>1, NAssumption, FS_Singleton, Zenon
<1>3. IsFiniteSet(Tasks) /\ Cardinality(Tasks) = N * 7
  <2>1. IsFiniteSet(Tasks) /\ Cardinality(Tasks) = Cardinality(1..N) * Cardinality(1..7)
    BY <1>2, FS_Product DEF Candidates
  <2> QED BY <1>2, <2>1, Zenon
<1>4. IsFiniteSet(Joins) /\ Cardinality(Joins) = 1 * N
  <2>1. IsFiniteSet(Joins) /\ Cardinality(Joins) = Cardinality({0}) * Cardinality(1..N)
    BY <1>2, FS_Product
  <2> QED BY <1>2, <2>1, Zenon
<1>5. Ahead \in SUBSET (Tasks \cup Joins)
  <2>1. joined \in 0..N
    BY DEF IInv, TypeOK
  <2>2. joined + 1..N \subseteq 1..N
    BY <2>1, NAssumption
  <2> QED BY <2>2, Zenon DEF Ahead
<1> HIDE DEF Tasks, Joins
<1>6. /\ IsFiniteSet(Tasks \cup Joins) /\ IsFiniteSet(Tasks \cap Joins)
      /\ Cardinality(Tasks \cup Joins) = Cardinality(Tasks) + Cardinality(Joins) - Cardinality(Tasks \cap Joins)
  <2>1. Tasks \cap Joins \in SUBSET Tasks
    BY Zenon
  <2> QED BY <1>3, <1>4, <2>1, FS_Union, FS_Subset, Zenon
<1>7. Cardinality(Tasks \cap Joins) \in Nat
  BY <1>6, FS_CardinalityType, Zenon
<1>8. IsFiniteSet(Ahead) /\ Cardinality(Ahead) <= Cardinality(Tasks \cup Joins)
  BY <1>5, <1>6, FS_Subset, Zenon
<1>9. Cardinality(Ahead) \in Nat
  BY <1>8, FS_CardinalityType, Zenon
<1> QED BY <1>3, <1>4, <1>6, <1>7, <1>8, <1>9, NAssumption

(***************************************************************************)
(* The scan of a protocol cannot go on for ever, whatever the tasks, the   *)
(* runtime and the server do: at most 8 steps per candidate are ahead of   *)
(* it, and every step takes at least one of them away.  No probe is ever   *)
(* retried and no handle awaited twice.                                    *)
(***************************************************************************)
THEOREM StepsRunOut ==
  Spec => /\ [](Cardinality(Ahead) \in 0..8 * N)
          /\ [][Cardinality(Ahead') < Cardinality(Ahead)]_vars
<1>1. IInv => Cardinality(Ahead) \in 0..8 * N
  BY AheadBounded
<1>2. ASSUME IInv, IInv', [Next]_vars
      PROVE  [Cardinality(Ahead') < Cardinality(Ahead)]_vars
  <2> SUFFICES ASSUME ~(vars' = vars) PROVE Cardinality(Ahead') < Cardinality(Ahead)
    OBVIOUS
  <2>1. Ahead' \in SUBSET Ahead /\ Ahead' # Ahead
    BY <1>2, StepShrinks
  <2>2. IsFiniteSet(Ahead) /\ Cardinality(Ahead) \in Int
    <3>1. IsFiniteSet(Ahead) /\ Cardinality(Ahead) \in 0..8 * N
      BY <1>2, AheadBounded
    <3> QED BY <3>1, NAssumption
  <2>3. IsFiniteSet(Ahead') /\ Cardinality(Ahead') <= Cardinality(Ahead)
        /\ Cardinality(Ahead) # Cardinality(Ahead')
    BY <2>1, <2>2, FS_Subset, Zenon
  <2>4. Cardinality(Ahead') \in Int
    <3>1. Cardinality(Ahead') \in Nat
      BY <2>3, FS_CardinalityType, Zenon
    <3> QED BY <3>1
  <2> QED BY <2>2, <2>3, <2>4
<1> QED BY <1>1, <1>2, Invariance, PTL DEF Spec

-----------------------------------------------------------------------------
(* Deadlock *)

(* A guard of one of the steps that fairness promises to take. *)
CanMove ==
  \/ spawned < N
  \/ spawned = N /\ joined < N /\ pc[joined + 1] = "done"
  \/ \E t \in Candidates : pc[t] = "waiting" /\ permits > 0
  \/ \E t \in Candidates : pc[t] \in {"connect", "write"}
  \/ \E t \in Candidates : pc[t] = "read" /\ conn[t] \in ConnStates \ {"none", "open"}

(***************************************************************************)
(* With --concurrency at least 1 nobody ever waits for ever: until the     *)
(* scan has returned, the caller or some task can take a step of its own,  *)
(* without a word from the server.  With 0 the tasks wait for a permit     *)
(* that does not exist.                                                    *)
(***************************************************************************)
THEOREM NeverStuck ==
  Spec => []((Concurrency > 0 /\ ~Returned) => CanMove)
<1>1. ASSUME IInv, Concurrency > 0, ~Returned, ~CanMove PROVE FALSE
  <2>1. /\ pc \in [Candidates -> PcStates] /\ joined \in 0..N /\ spawned \in 0..N
        /\ permits \in 0..Concurrency
    BY <1>1 DEF IInv, TypeOK
  <2>2. spawned = N /\ joined < N
    BY <1>1, <2>1, NAssumption DEF CanMove, Returned
  <2>3. joined + 1 \in Candidates
    BY <2>1, <2>2, NAssumption DEF Candidates
  <2>4. \A t \in Candidates : pc[t] \notin {"connect", "write", "read"}
    BY <1>1 DEF CanMove, IInv, ConnInv, ConnStates
  <2>5. Holders = {}
    BY <2>4 DEF Holders
  <2>6. permits = Concurrency
    BY <1>1, <2>1, <2>5, FS_EmptySet, ConcurrencyAssumption DEF IInv, PermitInv, PermitsConserved
  <2>7. pc[joined + 1] = "waiting"
    BY <1>1, <2>1, <2>2, <2>3, <2>4 DEF CanMove, IInv, SpawnInv, PcStates, Candidates
  <2> QED BY <1>1, <2>3, <2>6, <2>7 DEF CanMove
<1>2. IInv => ((Concurrency > 0 /\ ~Returned) => CanMove)
  BY <1>1
<1> QED BY <1>2, Invariance, PTL
=============================================================================
