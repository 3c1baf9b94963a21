------------------------------- MODULE Lists -------------------------------
(***************************************************************************)
(* The operations on sequences that the code makes of Rust's iterators, by *)
(* recursive functions: the proof system expands these, and not SelectSeq. *)
(***************************************************************************)
EXTENDS Integers, Sequences

Members(s) == {s[i] : i \in 1..Len(s)}

(* iter().filter(): the members of s that are in S, in their order. *)
Filter(s, S) ==
  LET kept[n \in 0..Len(s)] ==
        IF n = 0 THEN <<>>
        ELSE IF s[n] \in S THEN Append(kept[n - 1], s[n]) ELSE kept[n - 1]
  IN kept[Len(s)]

(* iter().sum() *)
Total(s) ==
  LET sum[n \in 0..Len(s)] == IF n = 0 THEN 0 ELSE sum[n - 1] + s[n]
  IN sum[Len(s)]

(* What the first n of the sequences in ss make, one after the other. *)
Concats(ss) ==
  LET made[n \in 0..Len(ss)] == IF n = 0 THEN <<>> ELSE made[n - 1] \o ss[n]
  IN made

(* flatten() *)
Concat(ss) == Concats(ss)[Len(ss)]
=============================================================================
