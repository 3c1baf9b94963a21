------------------------- MODULE ClientHelloProofs -------------------------
(***************************************************************************)
(* Proofs about the lengths in a hello: for any number of suites and any   *)
(* name that one record has room for, and for the hellos that the probes   *)
(* really write, with the suites of the table.                             *)
(***************************************************************************)
EXTENDS MCProtocolProbe, AssessmentProofs, FiniteSetTheorems

(* A length below the limit of its field is written as it is. *)
LEMMA SmallIsKept ==
  ASSUME NEW size \in Nat
  PROVE  /\ size < 65536 => Written(Field(2, size)) = size
         /\ size < 16777216 => Written(Field(3, size)) = size
<1>1. Limit(2) = 65536 /\ Limit(3) = 16777216
  BY DEF Limit
<1>2. /\ Field(2, size).size = size /\ Field(2, size).width = 2
      /\ Field(3, size).size = size /\ Field(3, size).width = 3
  BY DEF Field
<1>3. /\ Written(Field(2, size)) = size % 65536
      /\ Written(Field(3, size)) = size % 16777216
  BY <1>1, <1>2 DEF Written
<1> QED BY <1>3

(* The size of the whole hello, at its largest. *)
LEMMA HelloSizes ==
  ASSUME NEW p, NEW k \in Nat, NEW n \in Nat
  PROVE  /\ ServerNameLen(n) = n + 5
         /\ ExtensionsLen(p, n) \in Nat
         /\ ExtensionsLen(p, n) <= n + 102
         /\ BodyLen(p, k, n) \in Nat
         /\ BodyLen(p, k, n) <= 2 * k + n + 175
         /\ RecordLen(p, k, n) = BodyLen(p, k, n) + 4
<1>1. ServerNameLen(n) = n + 5
  BY DEF ServerNameLen
<1>2. ExtensionsLen(p, n) \in Nat /\ ExtensionsLen(p, n) <= n + 102
  BY <1>1 DEF ExtensionsLen
<1>3. BodyLen(p, k, n) \in Nat /\ BodyLen(p, k, n) <= 2 * k + n + 175
  <2> QED BY <1>2 DEF BodyLen
<1>4. RecordLen(p, k, n) = BodyLen(p, k, n) + 4
  BY <1>3 DEF RecordLen
<1> QED BY <1>1, <1>2, <1>3, <1>4

(***************************************************************************)
(* A hello that one record has room for states its lengths truly, in every *)
(* version: 2k bytes of suites and n of name, of 16205.                    *)
(***************************************************************************)
THEOREM HelloStatesItsLengths ==
  \A p \in Protocol, k \in Nat, n \in Nat : 2 * k + n <= 16205 => HelloFits(p, k, n)
<1> SUFFICES ASSUME NEW p \in Protocol, NEW k \in Nat, NEW n \in Nat, 2 * k + n <= 16205
             PROVE  HelloFits(p, k, n)
  OBVIOUS
<1>1. /\ ExtensionsLen(p, n) \in Nat /\ ExtensionsLen(p, n) < 65536
      /\ ServerNameLen(n) \in Nat /\ ServerNameLen(n) < 65536
      /\ BodyLen(p, k, n) \in Nat /\ BodyLen(p, k, n) < 65536
      /\ RecordLen(p, k, n) \in Nat /\ RecordLen(p, k, n) <= 16384
  BY HelloSizes
<1>2. /\ 2 * k \in Nat /\ 2 * k < 65536
      /\ n + 3 \in Nat /\ n + 3 < 65536 /\ n < 65536
  OBVIOUS
<1>3. \A w, size : Field(w, size).size = size
  BY DEF Field
<1>4. /\ Written(Field(2, 2 * k)) = 2 * k
      /\ Written(Field(3, BodyLen(p, k, n))) = BodyLen(p, k, n)
      /\ Written(Field(2, RecordLen(p, k, n))) = RecordLen(p, k, n)
  BY <1>1, <1>2, SmallIsKept
<1>5. /\ Written(Field(2, n)) = n /\ Written(Field(2, n + 3)) = n + 3
      /\ Written(Field(2, ServerNameLen(n))) = ServerNameLen(n)
      /\ Written(Field(2, ExtensionsLen(p, n))) = ExtensionsLen(p, n)
  BY <1>1, <1>2, SmallIsKept
<1>6. \A f \in Fields(p, k, n) : Written(f) = f.size
  BY <1>3, <1>4, <1>5 DEF Fields
<1> QED BY <1>1, <1>6 DEF HelloFits

-----------------------------------------------------------------------------
(* The hellos of the probes *)

(* No probe offers more suites than the table has. *)
LEMMA OfferIsBounded ==
  ASSUME NEW p
  PROVE  LET k == Cardinality({i \in 1..Len(ALL_CIPHERS) : IsOffered(ALL_CIPHERS[i], p)})
         IN  k \in Nat /\ k <= 67
<1> DEFINE Offered == {i \in 1..Len(ALL_CIPHERS) : IsOffered(ALL_CIPHERS[i], p)}
<1>1. Len(ALL_CIPHERS) = 67
  BY TheTable
<1>2. Offered \subseteq 1..67
  BY <1>1
<1> HIDE DEF Offered
<1>3. IsFiniteSet(1..67) /\ Cardinality(1..67) = 67
  <2>1. 1 \in Int /\ 67 \in Int
    OBVIOUS
  <2>2. IsFiniteSet(1..67) /\ Cardinality(1..67) = (IF 1 > 67 THEN 0 ELSE 67 - 1 + 1)
    BY <2>1, FS_Interval, Zenon
  <2>3. (IF 1 > 67 THEN 0 ELSE 67 - 1 + 1) = 67
    OBVIOUS
  <2> QED BY <2>2, <2>3
<1>4. IsFiniteSet(Offered) /\ Cardinality(Offered) <= 67
  <2>1. \A S : IsFiniteSet(S) => \A T \in SUBSET S : IsFiniteSet(T) /\ Cardinality(T) <= Cardinality(S)
    BY FS_Subset, Zenon
  <2> QED BY <1>2, <1>3, <2>1
<1>5. Cardinality(Offered) \in Nat
  BY <1>4, FS_CardinalityType
<1> QED BY <1>4, <1>5 DEF Offered

(* Every hello a probe can write is well formed, whatever state it is in. *)
LEMMA ProbeHello ==
  ASSUME probe \in Probed
  PROVE  HelloIsWellFormed
<1> DEFINE k == Cardinality({i \in 1..Len(ALL_CIPHERS) : IsOffered(ALL_CIPHERS[i], probe)})
<1>1. k \in Nat /\ k <= 67
  BY OfferIsBounded
<1> HIDE DEF k
<1>2. ASSUME NEW n \in NameLengths PROVE HelloFits(probe, k, n)
  <2>1. n \in Nat /\ n <= 16000
    <3>1. n \in 0..16000
      BY NameLengthsAssumption, SMT
    <3> QED BY <3>1
  <2>2. 2 * k + n <= 16205
    BY <1>1, <2>1
  <2>3. probe \in Protocol
    BY ProbedAssumption
  <2> QED BY <1>1, <2>1, <2>2, <2>3, HelloStatesItsLengths
<1>3. Ssl2BodyLen < 32768
  BY DEF Ssl2BodyLen
<1> QED BY <1>2, <1>3 DEF HelloIsWellFormed, k

(***************************************************************************)
(* Every hello a probe writes states its lengths truly: the suites of the  *)
(* table leave room, in every version, for any name that fits a record.    *)
(***************************************************************************)
THEOREM HellosAreWellFormed == Spec => []HelloIsWellFormed
<1> DEFINE Typed == probe \in Probed
<1>1. Init => Typed
  BY DEF Init
<1>2. Typed /\ [Next]_vars => Typed'
  BY DEF Next, ProbeStep, Terminating, Deliver, Close, Connect, Write, FailIO, Read, ReadMore, Parse, vars
<1>3. Typed => HelloIsWellFormed
  BY ProbeHello
<1> QED BY <1>1, <1>2, <1>3, PTL DEF Spec
=============================================================================
