--------------------------- MODULE CipherScanSpec ---------------------------
(***************************************************************************)
(* What scan_ciphers_for_protocol (tls/scanner.rs) promises to run_scan:   *)
(* one answer that lists, in candidate order, suites the server accepts,   *)
(* and that leaves an accepted suite out only when the connection that     *)
(* tested it went wrong.  Every suite not listed is counted as rejected.   *)
(***************************************************************************)
EXTENDS Integers, Sequences

CONSTANT N              \* how many candidate suites the protocol has

Candidates == 1..N      \* a candidate is its position in the filtered table

VARIABLES
  accepts,   \* the candidates the server would negotiate when offered alone
  faulty,    \* the candidates whose connection went wrong
  answer     \* what the caller has been given

vars == <<accepts, faulty, answer>>

(***************************************************************************)
(* s enumerates the set S in ascending order, each member once.            *)
(***************************************************************************)
Lists(s, S) ==
  /\ s \in Seq(S)
  /\ \A i, j \in 1..Len(s) : i < j => s[i] < s[j]
  /\ \A c \in S : \E i \in 1..Len(s) : s[i] = c

NoAnswer == [given |-> FALSE, supported |-> <<>>, rejected |-> 0]

Init ==
  /\ accepts \in SUBSET Candidates
  /\ faulty = {}
  /\ answer = (IF N = 0 THEN [NoAnswer EXCEPT !.given = TRUE] ELSE NoAnswer)

Fault ==
  /\ ~answer.given
  /\ \E c \in Candidates : faulty' = faulty \cup {c}
  /\ UNCHANGED <<accepts, answer>>

Answer ==
  /\ ~answer.given
  /\ answer'.given
  /\ \E lost \in SUBSET (accepts \cap faulty) :
       Lists(answer'.supported, accepts \ lost)
  /\ answer'.rejected = N - Len(answer'.supported)
  /\ UNCHANGED <<accepts, faulty>>

Next == Fault \/ Answer

Safety == Init /\ [][Next]_vars
=============================================================================
