----------------------------- MODULE ListProofs -----------------------------
(***************************************************************************)
(* What Members, Filter and Total return, for every sequence.  Induction   *)
(* here is over sets of numbers: a set that has 0 and with each number the *)
(* next has them all, as its complement would otherwise have a least       *)
(* number.                                                                 *)
(***************************************************************************)
EXTENDS Lists, WellFoundedInduction, TLAPS

(* Every set of natural numbers that is not empty has a least one. *)
LEMMA NatMin ==
  ASSUME NEW X, X \subseteq Nat, X # {}
  PROVE  \E m \in X : \A n \in X : m <= n
<1>1. PICK m \in X : \A n \in X : <<n, m>> \notin OpToRel(<, Nat)
  BY WFMin, NatLessThanWellFounded, Zenon
<1>2. \A n \in X : ~(n < m)
  BY <1>1, Zenon DEF OpToRel
<1> QED BY <1>2

(* Induction, for a set instead of a predicate. *)
LEMMA SetInduction ==
  ASSUME NEW X, 0 \in X, \A n \in Nat : n \in X => n + 1 \in X
  PROVE  Nat \subseteq X
<1> SUFFICES ASSUME Nat \ X # {} PROVE FALSE
  OBVIOUS
<1>1. PICK m \in Nat \ X : \A n \in Nat \ X : m <= n
  BY NatMin
<1>2. m # 0 /\ m - 1 \in Nat
  BY <1>1
<1>3. m - 1 \in X
  BY <1>1, <1>2
<1> QED BY <1>1, <1>2, <1>3

-----------------------------------------------------------------------------
(* The members of a sequence *)

LEMMA MembersOf ==
  ASSUME NEW T, NEW s \in Seq(T)
  PROVE  Members(s) \subseteq T /\ (Members(s) = {} <=> s = <<>>)
BY DEF Members

LEMMA MembersAppend ==
  ASSUME NEW T, NEW s \in Seq(T), NEW x \in T
  PROVE  Members(Append(s, x)) = Members(s) \cup {x}
<1>1. /\ Len(Append(s, x)) = Len(s) + 1 /\ Append(s, x)[Len(s) + 1] = x
      /\ \A i \in 1..Len(s) : Append(s, x)[i] = s[i]
  OBVIOUS
<1>2. \A i \in 1..(Len(s) + 1) : i \in 1..Len(s) \/ i = Len(s) + 1
  OBVIOUS
<1>3. 1..Len(s) \subseteq 1..(Len(s) + 1) /\ Len(s) + 1 \in 1..(Len(s) + 1)
  OBVIOUS
<1> QED BY <1>1, <1>2, <1>3 DEF Members

LEMMA MembersConcat ==
  ASSUME NEW T, NEW s \in Seq(T), NEW t \in Seq(T)
  PROVE  Members(s \o t) = Members(s) \cup Members(t)
<1>1. /\ s \o t \in Seq(T) /\ Len(s \o t) = Len(s) + Len(t)
      /\ \A i \in 1..Len(s) : (s \o t)[i] = s[i]
      /\ \A i \in 1..Len(t) : (s \o t)[Len(s) + i] = t[i]
  OBVIOUS
<1>2. \A i \in 1..(Len(s) + Len(t)) : i \in 1..Len(s) \/ \E j \in 1..Len(t) : i = Len(s) + j
  <2> SUFFICES ASSUME NEW i \in 1..(Len(s) + Len(t)), i \notin 1..Len(s)
               PROVE  i - Len(s) \in 1..Len(t) /\ i = Len(s) + (i - Len(s))
    OBVIOUS
  <2> QED OBVIOUS
<1>3. \A i \in 1..Len(s) : i \in 1..Len(s \o t)
  BY <1>1
<1>4. \A i \in 1..Len(t) : Len(s) + i \in 1..Len(s \o t)
  BY <1>1
<1> QED BY <1>1, <1>2, <1>3, <1>4 DEF Members

LEMMA MembersHeadTail ==
  ASSUME NEW T, NEW s \in Seq(T), s # <<>>
  PROVE  /\ Head(s) \in T /\ Tail(s) \in Seq(T) /\ Len(Tail(s)) = Len(s) - 1
         /\ Members(s) = {Head(s)} \cup Members(Tail(s))
<1> DEFINE t == Tail(s)
<1>1. Head(s) = s[1] /\ s[1] \in T /\ t \in Seq(T)
  OBVIOUS
<1>2. Len(s) \in Nat \ {0} /\ Len(t) = Len(s) - 1 /\ \A i \in 1..(Len(s) - 1) : t[i] = s[i + 1]
  OBVIOUS
<1> HIDE DEF t
<1>3. ASSUME NEW i \in 1..Len(s), i # 1 PROVE i - 1 \in 1..Len(t) /\ s[i] = t[i - 1]
  <2>1. i - 1 \in 1..(Len(s) - 1) /\ (i - 1) + 1 = i
    BY <1>2, <1>3
  <2> QED BY <1>2, <2>1
<1>4. ASSUME NEW i \in 1..Len(t) PROVE i + 1 \in 1..Len(s) /\ t[i] = s[i + 1]
  BY <1>2
<1>5. 1 \in 1..Len(s)
  BY <1>2
<1>6. ASSUME NEW x \in Members(s) PROVE x = s[1] \/ x \in Members(t)
  <2>1. PICK i \in 1..Len(s) : x = s[i]
    BY DEF Members
  <2> QED BY <1>3, <2>1 DEF Members
<1>7. s[1] \in Members(s) /\ Members(t) \subseteq Members(s)
  BY <1>4, <1>5 DEF Members
<1>8. Members(s) = {s[1]} \cup Members(t)
  BY <1>6, <1>7
<1> QED BY <1>1, <1>2, <1>8 DEF t

-----------------------------------------------------------------------------
(* What Filter keeps *)

(* The equation of Filter's local function, up to n. *)
IsKept(f, s, S, n) ==
  f = [i \in 0..n |-> IF i = 0 THEN <<>>
                      ELSE IF s[i] \in S THEN Append(f[i - 1], s[i]) ELSE f[i - 1]]

(* The recursion has a solution up to every n. *)
LEMMA KeptExists ==
  ASSUME NEW s, NEW S, NEW n \in Nat
  PROVE  \E f : IsKept(f, s, S, n)
<1> DEFINE X == {k \in Nat : \E f : IsKept(f, s, S, k)}
<1>1. 0 \in X
  <2> DEFINE f == [i \in 0..0 |-> <<>>]
  <2>1. IsKept(f, s, S, 0)
    BY DEF IsKept
  <2> QED BY <2>1
<1>2. ASSUME NEW k \in Nat, k \in X PROVE k + 1 \in X
  <2>1. PICK f : IsKept(f, s, S, k)
    BY <1>2
  <2> DEFINE g == [i \in 0..(k + 1) |->
                     IF i <= k THEN f[i]
                     ELSE IF s[i] \in S THEN Append(f[i - 1], s[i]) ELSE f[i - 1]]
  <2>2. \A i \in 0..(k + 1) : i # 0 => g[i - 1] = f[i - 1]
    OBVIOUS
  <2>3. \A i \in 0..k : f[i] = IF i = 0 THEN <<>>
                      ELSE IF s[i] \in S THEN Append(f[i - 1], s[i]) ELSE f[i - 1]
    BY <2>1 DEF IsKept
  <2>4. \A i \in 0..(k + 1) : g[i] = IF i = 0 THEN <<>>
                      ELSE IF s[i] \in S THEN Append(g[i - 1], s[i]) ELSE g[i - 1]
    BY <2>2, <2>3
  <2>5. g = [i \in 0..(k + 1) |-> g[i]]
    OBVIOUS
  <2> HIDE DEF g
  <2>6. IsKept(g, s, S, k + 1)
    BY <2>4, <2>5 DEF IsKept
  <2> QED BY <2>6
<1> HIDE DEF X
<1>3. n \in X
  BY <1>1, <1>2, SetInduction
<1> QED BY <1>3 DEF X

LEMMA FilterUnfolds ==
  ASSUME NEW s, NEW S, Len(s) \in Nat
  PROVE  \E f : IsKept(f, s, S, Len(s)) /\ Filter(s, S) = f[Len(s)]
<1> DEFINE f == CHOOSE f : IsKept(f, s, S, Len(s))
<1>1. IsKept(f, s, S, Len(s))
  BY KeptExists
<1>2. Filter(s, S) = f[Len(s)]
  BY DEF Filter, IsKept
<1> QED BY <1>1, <1>2

(* at gives the places in s of the members of t: ascending, and all up to n that are in S. *)
Places(at, t, s, S, n) ==
  /\ at \in [1..Len(t) -> 1..n]
  /\ \A k \in 1..Len(t) : t[k] = s[at[k]]
  /\ \A k, l \in 1..Len(t) : k < l => at[k] < at[l]
  /\ \A i \in 1..n : s[i] \in S => \E k \in 1..Len(t) : at[k] = i

Picked(t, s, T, S, n) ==
  t \in Seq(T \cap S) /\ Len(t) <= n /\ \E at : Places(at, t, s, S, n)

LEMMA PickOne ==
  ASSUME NEW T, NEW S, NEW s \in Seq(T), NEW t, NEW n \in 0..(Len(s) - 1),
         Picked(t, s, T, S, n), s[n + 1] \in S
  PROVE  Picked(Append(t, s[n + 1]), s, T, S, n + 1)
<1> DEFINE u == Append(t, s[n + 1])
<1>1. PICK at : Places(at, t, s, S, n)
  BY DEF Picked
<1>2. t \in Seq(T \cap S) /\ Len(t) \in Nat /\ Len(t) <= n /\ s[n + 1] \in T \cap S
  BY DEF Picked
<1>3. u \in Seq(T \cap S) /\ Len(u) = Len(t) + 1 /\ u[Len(t) + 1] = s[n + 1]
      /\ \A k \in 1..Len(t) : u[k] = t[k]
  BY <1>2
<1> HIDE DEF u
<1> DEFINE to == [k \in 1..Len(u) |-> IF k = Len(u) THEN n + 1 ELSE at[k]]
<1>4. to \in [1..Len(u) -> 1..(n + 1)]
  BY <1>1, <1>2, <1>3 DEF Places
<1>5. \A k \in 1..Len(u) : k \in 1..Len(t) \/ k = Len(u)
  BY <1>2, <1>3
<1>6. to[Len(u)] = n + 1 /\ \A k \in 1..Len(t) : to[k] = at[k]
  BY <1>2, <1>3
<1> HIDE DEF to
<1>7. \A k \in 1..Len(u) : u[k] = s[to[k]]
  BY <1>1, <1>3, <1>5, <1>6 DEF Places
<1>8. \A k, l \in 1..Len(u) : k < l => to[k] < to[l]
  <2> SUFFICES ASSUME NEW k \in 1..Len(u), NEW l \in 1..Len(u), k < l PROVE to[k] < to[l]
    OBVIOUS
  <2>1. k \in 1..Len(t)
    BY <1>2, <1>3
  <2>2. at[k] \in 1..n
    BY <1>1, <2>1 DEF Places
  <2> QED BY <1>1, <1>5, <1>6, <2>1, <2>2 DEF Places
<1>9. \A i \in 1..(n + 1) : s[i] \in S => \E k \in 1..Len(u) : to[k] = i
  <2> SUFFICES ASSUME NEW i \in 1..(n + 1), s[i] \in S PROVE \E k \in 1..Len(u) : to[k] = i
    OBVIOUS
  <2>1. CASE i = n + 1
    BY <2>1, <1>2, <1>3, <1>6
  <2>2. CASE i \in 1..n
    <3>1. PICK k \in 1..Len(t) : at[k] = i
      BY <1>1, <2>2 DEF Places
    <3> QED BY <3>1, <1>2, <1>3, <1>6
  <2> QED BY <2>1, <2>2
<1>10. Places(to, u, s, S, n + 1)
  BY <1>4, <1>7, <1>8, <1>9 DEF Places
<1>11. Len(u) <= n + 1
  BY <1>2, <1>3
<1> QED BY <1>3, <1>10, <1>11 DEF Picked, u

LEMMA SkipOne ==
  ASSUME NEW T, NEW S, NEW s, NEW t, NEW n \in Nat, Picked(t, s, T, S, n), s[n + 1] \notin S
  PROVE  Picked(t, s, T, S, n + 1)
<1>1. PICK at : Places(at, t, s, S, n)
  BY DEF Picked
<1>2. \A i \in 1..(n + 1) : s[i] \in S => i \in 1..n
  OBVIOUS
<1>3. Places(at, t, s, S, n + 1)
  BY <1>1, <1>2 DEF Places
<1>4. t \in Seq(T \cap S) /\ Len(t) \in Nat /\ Len(t) <= n
  BY DEF Picked
<1> QED BY <1>3, <1>4 DEF Picked

(* Filter keeps what is in S, all of it, and in its order. *)
LEMMA FilterPicks ==
  ASSUME NEW T, NEW s \in Seq(T), NEW S
  PROVE  Picked(Filter(s, S), s, T, S, Len(s))
<1>1. PICK f : IsKept(f, s, S, Len(s)) /\ Filter(s, S) = f[Len(s)]
  BY FilterUnfolds
<1> DEFINE X == {n \in Nat : n <= Len(s) => Picked(f[n], s, T, S, n)}
<1>2. 0 \in X
  <2>1. f[0] = <<>>
    BY <1>1 DEF IsKept
  <2>2. Places([k \in 1..0 |-> 0], <<>>, s, S, 0)
    BY DEF Places
  <2>3. Picked(<<>>, s, T, S, 0)
    BY <2>2 DEF Picked
  <2> QED BY <2>1, <2>3
<1>3. ASSUME NEW n \in Nat, n \in X PROVE n + 1 \in X
  <2> SUFFICES ASSUME n + 1 <= Len(s) PROVE Picked(f[n + 1], s, T, S, n + 1)
    OBVIOUS
  <2>1. Picked(f[n], s, T, S, n)
    BY <1>3
  <2>2. f[n + 1] = IF s[n + 1] \in S THEN Append(f[n], s[n + 1]) ELSE f[n]
    <3>1. n + 1 \in 0..Len(s) /\ n + 1 # 0 /\ (n + 1) - 1 = n
      OBVIOUS
    <3> QED BY <1>1, <3>1 DEF IsKept
  <2>3. CASE s[n + 1] \in S
    BY <2>1, <2>2, <2>3, PickOne
  <2>4. CASE s[n + 1] \notin S
    BY <2>1, <2>2, <2>4, SkipOne
  <2> QED BY <2>3, <2>4
<1> HIDE DEF X
<1>4. Len(s) \in X
  BY <1>2, <1>3, SetInduction
<1> QED BY <1>1, <1>4 DEF X

LEMMA FilterKeeps ==
  ASSUME NEW T, NEW s \in Seq(T), NEW S
  PROVE  /\ Filter(s, S) \in Seq(T)
         /\ Len(Filter(s, S)) \in Nat /\ Len(Filter(s, S)) <= Len(s)
         /\ Members(Filter(s, S)) = Members(s) \cap S
<1> DEFINE t == Filter(s, S)
<1>1. Picked(t, s, T, S, Len(s))
  BY FilterPicks
<1> HIDE DEF t
<1>2. PICK at : Places(at, t, s, S, Len(s))
  BY <1>1 DEF Picked
<1>3. t \in Seq(T \cap S) /\ Len(t) <= Len(s)
  BY <1>1 DEF Picked
<1>4. t \in Seq(T) /\ Len(t) \in Nat
  BY <1>3
<1>5. ASSUME NEW x \in Members(t) PROVE x \in Members(s) \cap S
  <2>1. PICK k \in 1..Len(t) : x = t[k]
    BY DEF Members
  <2>2. at[k] \in 1..Len(s) /\ x = s[at[k]] /\ x \in S
    BY <1>2, <1>3, <2>1 DEF Places
  <2> QED BY <2>2 DEF Members
<1>6. ASSUME NEW x \in Members(s) \cap S PROVE x \in Members(t)
  <2>1. PICK i \in 1..Len(s) : x = s[i]
    BY DEF Members
  <2>2. PICK k \in 1..Len(t) : at[k] = i
    BY <1>2, <2>1 DEF Places
  <2>3. x = t[k]
    BY <1>2, <2>1, <2>2 DEF Places
  <2> QED BY <2>3 DEF Members
<1>7. Members(t) = Members(s) \cap S
  BY <1>5, <1>6
<1> QED BY <1>3, <1>4, <1>7 DEF t

-----------------------------------------------------------------------------
(* Sums *)

(* The equation of Total's local function, up to n. *)
IsSum(f, s, n) == f = [i \in 0..n |-> IF i = 0 THEN 0 ELSE f[i - 1] + s[i]]

LEMMA SumExists ==
  ASSUME NEW s, NEW n \in Nat
  PROVE  \E f : IsSum(f, s, n)
<1> DEFINE X == {k \in Nat : \E f : IsSum(f, s, k)}
<1>1. 0 \in X
  <2> DEFINE f == [i \in 0..0 |-> 0]
  <2>1. IsSum(f, s, 0)
    BY DEF IsSum
  <2> QED BY <2>1
<1>2. ASSUME NEW k \in Nat, k \in X PROVE k + 1 \in X
  <2>1. PICK f : IsSum(f, s, k)
    BY <1>2
  <2> DEFINE g == [i \in 0..(k + 1) |-> IF i <= k THEN f[i] ELSE f[i - 1] + s[i]]
  <2>2. \A i \in 0..(k + 1) : i # 0 => g[i - 1] = f[i - 1]
    OBVIOUS
  <2>3. \A i \in 0..k : f[i] = IF i = 0 THEN 0 ELSE f[i - 1] + s[i]
    BY <2>1 DEF IsSum
  <2>4. \A i \in 0..(k + 1) : g[i] = IF i = 0 THEN 0 ELSE g[i - 1] + s[i]
    BY <2>2, <2>3
  <2>5. g = [i \in 0..(k + 1) |-> g[i]]
    OBVIOUS
  <2> HIDE DEF g
  <2>6. IsSum(g, s, k + 1)
    BY <2>4, <2>5 DEF IsSum
  <2> QED BY <2>6
<1> HIDE DEF X
<1>3. n \in X
  BY <1>1, <1>2, SetInduction
<1> QED BY <1>3 DEF X

LEMMA TotalUnfolds ==
  ASSUME NEW s, Len(s) \in Nat
  PROVE  \E f : IsSum(f, s, Len(s)) /\ Total(s) = f[Len(s)]
<1> DEFINE f == CHOOSE f : IsSum(f, s, Len(s))
<1>1. IsSum(f, s, Len(s))
  BY SumExists
<1>2. Total(s) = f[Len(s)]
  BY DEF Total, IsSum
<1> QED BY <1>1, <1>2

(* Two sums agree as long as their sequences do. *)
LEMMA SumsAgree ==
  ASSUME NEW s, NEW t, NEW n \in Nat, NEW m \in Nat, n <= m,
         NEW f, IsSum(f, s, n), NEW g, IsSum(g, t, m), \A i \in 1..n : s[i] = t[i]
  PROVE  f[n] = g[n]
<1> DEFINE X == {k \in Nat : k <= n => f[k] = g[k]}
<1>1. 0 \in X
  BY DEF IsSum
<1>2. ASSUME NEW k \in Nat, k \in X PROVE k + 1 \in X
  <2> SUFFICES ASSUME k + 1 <= n PROVE f[k + 1] = g[k + 1]
    OBVIOUS
  <2>1. k + 1 \in 0..n /\ k + 1 \in 0..m /\ k + 1 # 0 /\ (k + 1) - 1 = k
    OBVIOUS
  <2>2. f[k + 1] = f[k] + s[k + 1] /\ g[k + 1] = g[k] + t[k + 1]
    BY <2>1 DEF IsSum
  <2> QED BY <1>2, <2>2
<1> HIDE DEF X
<1>3. n \in X
  BY <1>1, <1>2, SetInduction
<1> QED BY <1>3 DEF X

LEMMA TotalEmpty == Total(<<>>) = 0
<1>1. Len(<<>>) = 0
  OBVIOUS
<1>2. PICK f : IsSum(f, <<>>, 0) /\ Total(<<>>) = f[0]
  BY <1>1, TotalUnfolds, Zenon
<1> QED BY <1>2 DEF IsSum

LEMMA TotalIsNat ==
  ASSUME NEW s \in Seq(Nat)
  PROVE  Total(s) \in Nat
<1>1. PICK f : IsSum(f, s, Len(s)) /\ Total(s) = f[Len(s)]
  BY TotalUnfolds
<1> DEFINE X == {n \in Nat : n <= Len(s) => f[n] \in Nat}
<1>2. 0 \in X
  BY <1>1 DEF IsSum
<1>3. ASSUME NEW n \in Nat, n \in X PROVE n + 1 \in X
  <2> SUFFICES ASSUME n + 1 <= Len(s) PROVE f[n + 1] \in Nat
    OBVIOUS
  <2>1. n + 1 \in 0..Len(s) /\ n + 1 # 0 /\ (n + 1) - 1 = n
    OBVIOUS
  <2>2. f[n + 1] = f[n] + s[n + 1]
    BY <1>1, <2>1 DEF IsSum
  <2> QED BY <1>3, <2>2
<1> HIDE DEF X
<1>4. Len(s) \in X
  BY <1>2, <1>3, SetInduction
<1> QED BY <1>1, <1>4 DEF X

LEMMA TotalAppend ==
  ASSUME NEW s \in Seq(Nat), NEW x \in Nat
  PROVE  Total(Append(s, x)) = Total(s) + x
<1> DEFINE t == Append(s, x)
<1>1. /\ Len(s) \in Nat /\ Len(t) = Len(s) + 1 /\ t[Len(s) + 1] = x
      /\ \A i \in 1..Len(s) : t[i] = s[i]
  OBVIOUS
<1>2. PICK f : IsSum(f, s, Len(s)) /\ Total(s) = f[Len(s)]
  BY <1>1, TotalUnfolds
<1> HIDE DEF t
<1>3. PICK g : IsSum(g, t, Len(t)) /\ Total(t) = g[Len(t)]
  BY <1>1, TotalUnfolds
<1>4. g[Len(s)] = f[Len(s)]
  BY <1>1, <1>2, <1>3, SumsAgree
<1>5. g[Len(s) + 1] = g[Len(s)] + t[Len(s) + 1]
  <2>1. Len(s) + 1 \in 0..Len(t) /\ Len(s) + 1 # 0 /\ (Len(s) + 1) - 1 = Len(s)
    BY <1>1
  <2> QED BY <1>3, <2>1 DEF IsSum
<1> QED BY <1>1, <1>2, <1>3, <1>4, <1>5 DEF t

(* Filter keeps the order: of two members kept, the first came first. *)
LEMMA FilterOrder ==
  ASSUME NEW T, NEW s \in Seq(T), NEW S,
         NEW k \in 1..Len(Filter(s, S)), NEW l \in 1..Len(Filter(s, S)), k < l
  PROVE  \E i, j \in 1..Len(s) : i < j /\ Filter(s, S)[k] = s[i] /\ Filter(s, S)[l] = s[j]
<1> DEFINE t == Filter(s, S)
<1>1. Picked(t, s, T, S, Len(s))
  BY FilterPicks
<1> HIDE DEF t
<1>2. PICK at : Places(at, t, s, S, Len(s))
  BY <1>1 DEF Picked
<1>3. k \in 1..Len(t) /\ l \in 1..Len(t)
  BY DEF t
<1>4. /\ at[k] \in 1..Len(s) /\ at[l] \in 1..Len(s) /\ at[k] < at[l]
      /\ t[k] = s[at[k]] /\ t[l] = s[at[l]]
  BY <1>2, <1>3 DEF Places
<1> QED BY <1>4 DEF t

-----------------------------------------------------------------------------
(* A sum of numbers that are all at most b. *)
LEMMA TotalBound ==
  ASSUME NEW s \in Seq(Nat), NEW b \in Nat, \A i \in 1..Len(s) : s[i] <= b
  PROVE  Total(s) <= Len(s) * b
<1>1. PICK f : IsSum(f, s, Len(s)) /\ Total(s) = f[Len(s)]
  BY TotalUnfolds
<1> DEFINE X == {n \in Nat : n <= Len(s) => f[n] \in Nat /\ f[n] <= n * b}
<1>2. 0 \in X
  BY <1>1 DEF IsSum
<1>3. ASSUME NEW n \in Nat, n \in X PROVE n + 1 \in X
  <2> SUFFICES ASSUME n + 1 <= Len(s) PROVE f[n + 1] \in Nat /\ f[n + 1] <= (n + 1) * b
    OBVIOUS
  <2>1. n + 1 \in 0..Len(s) /\ n + 1 # 0 /\ (n + 1) - 1 = n /\ n + 1 \in 1..Len(s)
    OBVIOUS
  <2>2. f[n + 1] = f[n] + s[n + 1]
    BY <1>1, <2>1 DEF IsSum
  <2>3. f[n] \in Nat /\ f[n] <= n * b
    BY <1>3
  <2>4. s[n + 1] \in Nat /\ s[n + 1] <= b
    BY <2>1
  <2>5. (n + 1) * b = n * b + b /\ n * b \in Nat
    OBVIOUS
  <2> QED BY <2>2, <2>3, <2>4, <2>5
<1> HIDE DEF X
<1>4. \A n \in Nat : n \in X => n + 1 \in X
  BY <1>3
<1>5. Nat \subseteq X
  BY <1>2, <1>4, SetInduction
<1>6. Len(s) \in Nat
  OBVIOUS
<1> QED BY <1>1, <1>5, <1>6 DEF X

-----------------------------------------------------------------------------
(* Sets of places, in ascending order *)

(* e has the members of K, ascending: CipherScanSpec's Lists. *)
Enumerates(e, K) ==
  /\ e \in Seq(K)
  /\ \A i, j \in 1..Len(e) : i < j => e[i] < e[j]
  /\ \A c \in K : \E i \in 1..Len(e) : e[i] = c

LEMMA LowerEntry ==
  ASSUME NEW K \in SUBSET Int, NEW d, NEW e, Enumerates(d, K), Enumerates(e, K),
         NEW k \in 1..Len(d), k \in 1..Len(e), \A j \in 1..(k - 1) : d[j] = e[j]
  PROVE  d[k] <= e[k]
<1>1. d \in Seq(K) /\ e \in Seq(K)
  BY DEF Enumerates
<1>2. /\ Len(d) \in Nat /\ Len(e) \in Nat
      /\ \A i \in 1..Len(d) : d[i] \in K
      /\ \A i \in 1..Len(e) : e[i] \in K
  BY <1>1
<1>3. PICK j \in 1..Len(d) : d[j] = e[k]
  BY <1>2 DEF Enumerates
<1>4. CASE j < k
  <2>1. j \in 1..(k - 1) /\ j \in 1..Len(e)
    BY <1>2, <1>4
  <2>2. e[j] = e[k] /\ e[j] < e[k]
    BY <1>3, <1>4, <2>1 DEF Enumerates
  <2>3. e[k] \in Int
    BY <1>2
  <2> QED BY <2>2, <2>3
<1>5. CASE j = k
  <2>1. d[k] = e[k] /\ d[k] \in Int
    BY <1>2, <1>3, <1>5
  <2> QED BY <2>1
<1>6. CASE k < j
  <2>1. d[k] < d[j]
    BY <1>6 DEF Enumerates
  <2>2. d[k] \in Int /\ d[j] \in Int
    BY <1>2
  <2> QED BY <1>3, <2>1, <2>2
<1> QED BY <1>2, <1>4, <1>5, <1>6

LEMMA FirstEntriesAgree ==
  ASSUME NEW K \in SUBSET Int, NEW d, NEW e, Enumerates(d, K), Enumerates(e, K), NEW n \in Nat
  PROVE  \A k \in 1..n : k <= Len(d) /\ k <= Len(e) => d[k] = e[k]
<1>1. d \in Seq(K) /\ e \in Seq(K)
  BY DEF Enumerates
<1>2. /\ Len(d) \in Nat /\ Len(e) \in Nat
      /\ \A i \in 1..Len(d) : d[i] \in K
      /\ \A i \in 1..Len(e) : e[i] \in K
  BY <1>1
<1> DEFINE X == {m \in Nat : \A k \in 1..m : k <= Len(d) /\ k <= Len(e) => d[k] = e[k]}
<1>3. 0 \in X
  OBVIOUS
<1>4. ASSUME NEW m \in Nat, m \in X PROVE m + 1 \in X
  <2> SUFFICES ASSUME NEW k \in 1..(m + 1), k <= Len(d) /\ k <= Len(e) PROVE d[k] = e[k]
    OBVIOUS
  <2>1. \A j \in 1..m : j <= Len(d) /\ j <= Len(e) => d[j] = e[j]
    BY <1>4
  <2>2. k \in 1..Len(d) /\ k \in 1..Len(e) /\ \A j \in 1..(k - 1) : d[j] = e[j] /\ e[j] = d[j]
    BY <1>2, <2>1
  <2>3. d[k] <= e[k] /\ e[k] <= d[k]
    BY <2>2, LowerEntry
  <2>4. d[k] \in Int /\ e[k] \in Int
    BY <1>2, <2>2
  <2> QED BY <2>3, <2>4
<1> HIDE DEF X
<1>5. n \in X
  <2>1. \A m \in Nat : m \in X => m + 1 \in X
    BY <1>4
  <2>2. Nat \subseteq X
    BY <1>3, <2>1, SetInduction, Zenon
  <2> QED BY <2>2
<1> QED BY <1>5 DEF X

LEMMA NoLonger ==
  ASSUME NEW K \in SUBSET Int, NEW d, NEW e, Enumerates(d, K), Enumerates(e, K)
  PROVE  Len(d) <= Len(e)
<1>1. d \in Seq(K) /\ e \in Seq(K)
  BY DEF Enumerates
<1>2. /\ Len(d) \in Nat /\ Len(e) \in Nat
      /\ \A i \in 1..Len(d) : d[i] \in K
  BY <1>1
<1> SUFFICES ASSUME Len(e) < Len(d) PROVE FALSE
  BY <1>2
<1> DEFINE k == Len(e) + 1
<1>3. k \in 1..Len(d) /\ 1..Len(e) \subseteq 1..Len(d) /\ \A j \in 1..Len(e) : j < k
  BY <1>2
<1>4. d[k] \in K
  BY <1>2, <1>3
<1> HIDE DEF k
<1>5. PICK j \in 1..Len(e) : e[j] = d[k]
  BY <1>4 DEF Enumerates
<1>6. d[j] = e[j]
  <2>1. j \in 1..Len(e) /\ j <= Len(d) /\ j <= Len(e)
    BY <1>2, <1>3
  <2> QED BY <1>2, <2>1, FirstEntriesAgree
<1>7. d[j] < d[k]
  BY <1>3, <1>5 DEF Enumerates
<1>8. d[k] \in Int
  BY <1>4
<1> QED BY <1>5, <1>6, <1>7, <1>8

(* A set of numbers has one enumeration. *)
LEMMA OneEnumeration ==
  ASSUME NEW K \in SUBSET Int, NEW d, NEW e, Enumerates(d, K), Enumerates(e, K)
  PROVE  Len(d) = Len(e) /\ \A k \in 1..Len(d) : d[k] = e[k]
<1>1. d \in Seq(K) /\ e \in Seq(K)
  BY DEF Enumerates
<1>2. Len(d) \in Nat /\ Len(e) \in Nat
  BY <1>1
<1>3. Len(d) <= Len(e) /\ Len(e) <= Len(d)
  BY NoLonger
<1>4. \A k \in 1..Len(d) : k <= Len(d) /\ k <= Len(e) => d[k] = e[k]
  BY <1>2, FirstEntriesAgree
<1> QED BY <1>2, <1>3, <1>4

NoRepeats(s) == \A i, j \in 1..Len(s) : s[i] = s[j] => i = j

(* What s has at the places in K. *)
Those(s, K) == {s[i] : i \in K}

(***************************************************************************)
(* Filtering a list without repetitions for what it has at the places in K *)
(* gives what it has there, in the order of the places.                    *)
(***************************************************************************)
LEMMA FilterEnumerates ==
  ASSUME NEW T, NEW s \in Seq(T), NoRepeats(s), NEW K \in SUBSET (1..Len(s))
  PROVE  \E e : /\ Enumerates(e, K) /\ Len(Filter(s, Those(s, K))) = Len(e)
               /\ \A k \in 1..Len(e) : Filter(s, Those(s, K))[k] = s[e[k]]
<1> DEFINE S == Those(s, K)
           t == Filter(s, S)
<1>1. Picked(t, s, T, S, Len(s))
  BY FilterPicks
<1>2. \A i \in 1..Len(s) : s[i] \in S <=> i \in K
  BY DEF Those, NoRepeats
<1> HIDE DEF t, S
<1>3. PICK at : Places(at, t, s, S, Len(s))
  BY <1>1 DEF Picked
<1>4. t \in Seq(T \cap S)
  BY <1>1 DEF Picked
<1>5. Len(t) \in Nat /\ \A k \in 1..Len(t) : t[k] \in S
  BY <1>4
<1>6. at \in [1..Len(t) -> K]
  <2>1. at \in [1..Len(t) -> 1..Len(s)] /\ \A k \in 1..Len(t) : t[k] = s[at[k]]
    BY <1>3 DEF Places
  <2>2. \A k \in 1..Len(t) : at[k] \in K
    BY <1>2, <1>5, <2>1
  <2> QED BY <2>1, <2>2
<1>7. at \in Seq(K) /\ Len(at) = Len(t)
  BY <1>5, <1>6
<1>8. \A c \in K : \E k \in 1..Len(t) : at[k] = c
  BY <1>2, <1>3 DEF Places
<1>9. \A k, l \in 1..Len(t) : k < l => at[k] < at[l]
  BY <1>3 DEF Places
<1>10. Enumerates(at, K)
  BY <1>7, <1>8, <1>9, Zenon DEF Enumerates
<1>11. \A k \in 1..Len(at) : t[k] = s[at[k]]
  BY <1>3, <1>7 DEF Places
<1> QED BY <1>7, <1>10, <1>11, Zenon DEF t, S
-----------------------------------------------------------------------------
(* Sequences one after the other *)

(* Two sequences, one behind the other: how long they are, and what they have. *)
LEMMA BehindLen ==
  ASSUME NEW T, NEW s \in Seq(T), NEW t \in Seq(T)
  PROVE  /\ s \o t \in Seq(T) /\ Len(s) \in Nat /\ Len(t) \in Nat
         /\ Len(s \o t) = Len(s) + Len(t)
OBVIOUS

LEMMA BehindFirst ==
  ASSUME NEW T, NEW s \in Seq(T), NEW t \in Seq(T)
  PROVE  \A i \in 1..Len(s) : (s \o t)[i] = s[i]
OBVIOUS

LEMMA BehindSecond ==
  ASSUME NEW T, NEW s \in Seq(T), NEW t \in Seq(T)
  PROVE  \A i \in 1..Len(t) : (s \o t)[Len(s) + i] = t[i]
OBVIOUS

(* The equation of Concats' local function, up to n. *)
IsConcat(f, ss, n) == f = [i \in 0..n |-> IF i = 0 THEN <<>> ELSE f[i - 1] \o ss[i]]

LEMMA ConcatExists ==
  ASSUME NEW ss, NEW n \in Nat
  PROVE  \E f : IsConcat(f, ss, n)
<1> DEFINE X == {k \in Nat : \E f : IsConcat(f, ss, k)}
<1>1. 0 \in X
  <2> DEFINE f == [i \in 0..0 |-> <<>>]
  <2>1. IsConcat(f, ss, 0)
    BY DEF IsConcat
  <2> QED BY <2>1
<1>2. ASSUME NEW k \in Nat, k \in X PROVE k + 1 \in X
  <2>1. PICK f : IsConcat(f, ss, k)
    BY <1>2
  <2> DEFINE g == [i \in 0..(k + 1) |-> IF i <= k THEN f[i] ELSE f[i - 1] \o ss[i]]
  <2>2. \A i \in 0..(k + 1) : i # 0 => g[i - 1] = f[i - 1]
    OBVIOUS
  <2>3. \A i \in 0..k : f[i] = IF i = 0 THEN <<>> ELSE f[i - 1] \o ss[i]
    BY <2>1 DEF IsConcat
  <2>4. \A i \in 0..(k + 1) : g[i] = IF i = 0 THEN <<>> ELSE g[i - 1] \o ss[i]
    BY <2>2, <2>3
  <2>5. g = [i \in 0..(k + 1) |-> g[i]]
    OBVIOUS
  <2> HIDE DEF g
  <2>6. IsConcat(g, ss, k + 1)
    BY <2>4, <2>5 DEF IsConcat
  <2> QED BY <2>6
<1> HIDE DEF X
<1>3. n \in X
  BY <1>1, <1>2, SetInduction
<1> QED BY <1>3 DEF X

LEMMA ConcatsIs ==
  ASSUME NEW ss, Len(ss) \in Nat
  PROVE  IsConcat(Concats(ss), ss, Len(ss))
<1> DEFINE f == CHOOSE f : IsConcat(f, ss, Len(ss))
<1>1. IsConcat(f, ss, Len(ss))
  BY ConcatExists
<1>2. Concats(ss) = f
  BY DEF Concats, IsConcat
<1> QED BY <1>1, <1>2

(* Nothing first, then one sequence after the other. *)
LEMMA ConcatsUnfold ==
  ASSUME NEW ss, Len(ss) \in Nat
  PROVE  /\ Concats(ss)[0] = <<>>
         /\ \A n \in 0..(Len(ss) - 1) : Concats(ss)[n + 1] = Concats(ss)[n] \o ss[n + 1]
<1> DEFINE f == Concats(ss)
<1>1. f = [i \in 0..Len(ss) |-> IF i = 0 THEN <<>> ELSE f[i - 1] \o ss[i]]
  BY ConcatsIs DEF IsConcat
<1> HIDE DEF f
<1>2. f[0] = <<>>
  BY <1>1
<1>3. ASSUME NEW n \in 0..(Len(ss) - 1) PROVE f[n + 1] = f[n] \o ss[n + 1]
  <2>1. n + 1 \in 0..Len(ss) /\ n + 1 # 0 /\ (n + 1) - 1 = n
    OBVIOUS
  <2> QED BY <1>1, <2>1
<1> QED BY <1>2, <1>3 DEF f

LEMMA ConcatsIn ==
  ASSUME NEW T, NEW ss \in Seq(Seq(T))
  PROVE  \A n \in 0..Len(ss) : Concats(ss)[n] \in Seq(T)
<1> Len(ss) \in Nat
  OBVIOUS
<1> DEFINE f == Concats(ss)
           X == {n \in Nat : n <= Len(ss) => f[n] \in Seq(T)}
<1>1. f[0] = <<>>
  BY ConcatsUnfold
<1>2. 0 \in X
  <2>1. <<>> \in Seq(T)
    OBVIOUS
  <2> QED BY <1>1, <2>1
<1>3. ASSUME NEW n \in Nat, n \in X PROVE n + 1 \in X
  <2> SUFFICES ASSUME n + 1 <= Len(ss) PROVE f[n + 1] \in Seq(T)
    OBVIOUS
  <2>1. n \in 0..(Len(ss) - 1) /\ n + 1 \in 1..Len(ss) /\ f[n] \in Seq(T)
    BY <1>3
  <2>2. ss[n + 1] \in Seq(T)
    BY <2>1
  <2>3. f[n + 1] = f[n] \o ss[n + 1]
    BY <2>1, ConcatsUnfold
  <2>4. f[n] \o ss[n + 1] \in Seq(T)
    BY <2>1, <2>2, BehindLen
  <2> QED BY <2>3, <2>4, Zenon
<1> HIDE DEF X
<1>4. Nat \subseteq X
  <2>1. \A n \in Nat : n \in X => n + 1 \in X
    BY <1>3
  <2> QED BY <1>2, <2>1, SetInduction
<1> QED BY <1>4 DEF X, f

(* What the first n make is where it was when there is more behind it. *)
LEMMA ConcatsBegin ==
  ASSUME NEW T, NEW ss \in Seq(Seq(T)), NEW n \in 0..Len(ss)
  PROVE  \A m \in Nat : n <= m /\ m <= Len(ss) =>
           /\ Len(Concats(ss)[n]) <= Len(Concats(ss)[m])
           /\ \A i \in 1..Len(Concats(ss)[n]) : Concats(ss)[m][i] = Concats(ss)[n][i]
<1> Len(ss) \in Nat
  OBVIOUS
<1> DEFINE f == Concats(ss)
           X == {m \in Nat : n <= m /\ m <= Len(ss) =>
                   Len(f[n]) <= Len(f[m]) /\ \A i \in 1..Len(f[n]) : f[m][i] = f[n][i]}
<1>1. /\ \A k \in 0..(Len(ss) - 1) : f[k + 1] = f[k] \o ss[k + 1]
      /\ \A k \in 0..Len(ss) : f[k] \in Seq(T)
  BY ConcatsUnfold, ConcatsIn
<1> HIDE DEF f
<1>2. Len(f[n]) \in Nat
  BY <1>1
<1>3. 0 \in X
  <2>1. n <= 0 => n = 0
    OBVIOUS
  <2> QED BY <1>2, <2>1
<1>4. ASSUME NEW m \in Nat, m \in X PROVE m + 1 \in X
  <2> SUFFICES ASSUME n <= m + 1, m + 1 <= Len(ss)
               PROVE  Len(f[n]) <= Len(f[m + 1]) /\ \A i \in 1..Len(f[n]) : f[m + 1][i] = f[n][i]
    OBVIOUS
  <2>1. CASE n = m + 1
    BY <1>2, <2>1
  <2>2. CASE n <= m
    <3>1. Len(f[n]) <= Len(f[m]) /\ \A i \in 1..Len(f[n]) : f[m][i] = f[n][i]
      BY <1>4, <2>2
    <3>2. m \in 0..(Len(ss) - 1) /\ m + 1 \in 1..Len(ss) /\ m \in 0..Len(ss)
      OBVIOUS
    <3>3. f[m] \in Seq(T) /\ ss[m + 1] \in Seq(T) /\ f[m + 1] = f[m] \o ss[m + 1]
      <4>1. ss[m + 1] \in Seq(T)
        BY <3>2
      <4> QED BY <1>1, <3>2, <4>1, Zenon
    <3> DEFINE u == f[m] \o ss[m + 1]
    <3>6. /\ Len(f[m]) \in Nat /\ Len(ss[m + 1]) \in Nat
          /\ Len(u) = Len(f[m]) + Len(ss[m + 1])
      BY <3>3, BehindLen
    <3>9. \A i \in 1..Len(f[m]) : u[i] = f[m][i]
      BY <3>3, BehindFirst, Zenon
    <3> HIDE DEF u
    <3>4. /\ Len(f[m]) \in Nat /\ Len(ss[m + 1]) \in Nat
          /\ Len(f[m + 1]) = Len(f[m]) + Len(ss[m + 1])
          /\ \A i \in 1..Len(f[m]) : f[m + 1][i] = f[m][i]
      BY <3>3, <3>6, <3>9, Zenon DEF u
    <3>5. \A i \in 1..Len(f[n]) : i \in 1..Len(f[m])
      BY <1>2, <3>1, <3>4
    <3>7. \A i \in 1..Len(f[n]) : f[m + 1][i] = f[n][i]
      BY <3>1, <3>4, <3>5, Zenon
    <3>8. Len(f[n]) <= Len(f[m + 1])
      <4>1. Len(f[m]) \in Nat /\ Len(ss[m + 1]) \in Nat /\ Len(f[n]) <= Len(f[m])
            /\ Len(f[m + 1]) = Len(f[m]) + Len(ss[m + 1])
        BY <3>1, <3>4, Zenon
      <4> DEFINE a == Len(f[n])
                 b == Len(f[m])
                 c == Len(ss[m + 1])
                 d == Len(f[m + 1])
      <4>2. a \in Nat /\ b \in Nat /\ c \in Nat /\ a <= b /\ d = b + c
        BY <1>2, <4>1, Zenon
      <4> HIDE DEF a, b, c, d
      <4>3. a <= d
        BY <4>2
      <4> QED BY <4>3 DEF a, d
    <3> QED BY <3>7, <3>8, Zenon
  <2> QED BY <2>1, <2>2
<1> HIDE DEF X
<1>5. Nat \subseteq X
  <2>1. \A m \in Nat : m \in X => m + 1 \in X
    BY <1>4
  <2> QED BY <1>3, <2>1, SetInduction
<1> QED BY <1>5 DEF X, f

(* Each of the sequences stands in the whole, behind those before it. *)
LEMMA ConcatHas ==
  ASSUME NEW T, NEW ss \in Seq(Seq(T)), NEW n \in 0..(Len(ss) - 1)
  PROVE  /\ Concats(ss)[n] \in Seq(T) /\ ss[n + 1] \in Seq(T) /\ Concat(ss) \in Seq(T)
         /\ Concats(ss)[n + 1] = Concats(ss)[n] \o ss[n + 1]
         /\ Len(Concats(ss)[n + 1]) = Len(Concats(ss)[n]) + Len(ss[n + 1])
         /\ Len(Concats(ss)[n + 1]) <= Len(Concat(ss))
         /\ \A i \in 1..Len(ss[n + 1]) : Concat(ss)[Len(Concats(ss)[n]) + i] = ss[n + 1][i]
<1> Len(ss) \in Nat
  OBVIOUS
<1> DEFINE f == Concats(ss)
           c == Concat(ss)
<1>1. n \in 0..Len(ss) /\ n + 1 \in 1..Len(ss) /\ n + 1 \in 0..Len(ss) /\ Len(ss) \in 0..Len(ss)
  OBVIOUS
<1>2. f[n] \in Seq(T) /\ ss[n + 1] \in Seq(T) /\ f[n + 1] \in Seq(T) /\ c \in Seq(T)
  BY <1>1, ConcatsIn DEF Concat
<1>3. f[n + 1] = f[n] \o ss[n + 1]
  BY ConcatsUnfold
<1>4. Len(f[n + 1]) <= Len(c) /\ \A i \in 1..Len(f[n + 1]) : c[i] = f[n + 1][i]
  <2>1. Len(ss) \in Nat /\ n + 1 <= Len(ss) /\ Len(ss) <= Len(ss)
    OBVIOUS
  <2> QED BY <1>1, <2>1, ConcatsBegin DEF Concat
<1> HIDE DEF f, c
<1>5. /\ Len(f[n]) \in Nat /\ Len(ss[n + 1]) \in Nat
      /\ Len(f[n + 1]) = Len(f[n]) + Len(ss[n + 1])
  BY <1>2, <1>3, BehindLen
<1>7. \A i \in 1..Len(ss[n + 1]) : f[n + 1][Len(f[n]) + i] = ss[n + 1][i]
  <2> DEFINE u == f[n] \o ss[n + 1]
  <2>2. \A i \in 1..Len(ss[n + 1]) : u[Len(f[n]) + i] = ss[n + 1][i]
    BY <1>2, BehindSecond, Zenon
  <2> QED BY <1>3, <2>2, Zenon
<1>6. \A i \in 1..Len(ss[n + 1]) : Len(f[n]) + i \in 1..Len(f[n + 1])
  <2> DEFINE a == Len(f[n])
             b == Len(ss[n + 1])
             d == Len(f[n + 1])
  <2>1. a \in Nat /\ b \in Nat /\ d = a + b
    BY <1>5, Zenon
  <2> HIDE DEF a, b, d
  <2>2. \A i \in 1..b : a + i \in 1..d
    BY <2>1
  <2> QED BY <2>2, Zenon DEF a, b, d
<1> QED BY <1>2, <1>3, <1>4, <1>5, <1>6, <1>7, Zenon DEF f, c

(* The first n make the same whatever follows them. *)
LEMMA ConcatsAgree ==
  ASSUME NEW ss, NEW tt, Len(ss) \in Nat, Len(tt) \in Nat, NEW n \in Nat, n <= Len(ss), n <= Len(tt),
         \A i \in 1..n : ss[i] = tt[i]
  PROVE  Concats(ss)[n] = Concats(tt)[n]
<1> DEFINE f == Concats(ss)
           g == Concats(tt)
           X == {k \in Nat : k <= n => f[k] = g[k]}
<1>1. /\ f[0] = <<>> /\ \A k \in 0..(Len(ss) - 1) : f[k + 1] = f[k] \o ss[k + 1]
      /\ g[0] = <<>> /\ \A k \in 0..(Len(tt) - 1) : g[k + 1] = g[k] \o tt[k + 1]
  BY ConcatsUnfold
<1> HIDE DEF f, g
<1>2. 0 \in X
  BY <1>1
<1>3. ASSUME NEW k \in Nat, k \in X PROVE k + 1 \in X
  <2> SUFFICES ASSUME k + 1 <= n PROVE f[k + 1] = g[k + 1]
    OBVIOUS
  <2>1. k \in 0..(Len(ss) - 1) /\ k \in 0..(Len(tt) - 1) /\ k + 1 \in 1..n
    OBVIOUS
  <2>2. f[k + 1] = f[k] \o ss[k + 1] /\ g[k + 1] = g[k] \o tt[k + 1]
    BY <1>1, <2>1
  <2>3. f[k] = g[k] /\ ss[k + 1] = tt[k + 1]
    BY <1>3, <2>1
  <2> QED BY <2>2, <2>3, Zenon
<1> HIDE DEF X
<1>4. n \in X
  BY <1>2, <1>3, SetInduction
<1> QED BY <1>4 DEF X, f, g

(* One more sequence comes behind the others. *)
LEMMA ConcatAppend ==
  ASSUME NEW T, NEW ss \in Seq(Seq(T)), NEW s \in Seq(T)
  PROVE  Concat(Append(ss, s)) = Concat(ss) \o s
<1> DEFINE tt == Append(ss, s)
<1>1. /\ Len(ss) \in Nat /\ Len(tt) \in Nat /\ Len(tt) = Len(ss) + 1 /\ tt[Len(ss) + 1] = s
      /\ \A i \in 1..Len(ss) : ss[i] = tt[i]
  OBVIOUS
<1> HIDE DEF tt
<1>2. Concats(ss)[Len(ss)] = Concats(tt)[Len(ss)]
  <2>1. Len(ss) <= Len(ss) /\ Len(ss) <= Len(tt)
    BY <1>1
  <2> QED BY <1>1, <2>1, ConcatsAgree, Zenon
<1>3. Concats(tt)[Len(ss) + 1] = Concats(tt)[Len(ss)] \o tt[Len(ss) + 1]
  <2>1. Len(ss) \in 0..(Len(tt) - 1)
    BY <1>1
  <2> QED BY <1>1, <2>1, ConcatsUnfold
<1> QED BY <1>1, <1>2, <1>3 DEF Concat, tt

LEMMA ConcatEmpty == Concat(<<>>) = <<>> /\ Concats(<<>>)[0] = <<>>
<1>1. Len(<<>>) = 0
  OBVIOUS
<1> QED BY <1>1, ConcatsUnfold DEF Concat
=============================================================================
