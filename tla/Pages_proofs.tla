---------------------------- MODULE Pages_proofs ----------------------------
(***************************************************************************)
(* What the pages promise for every set of rows, of chores, of members,    *)
(* whatever is outstanding and however often the user acts.  First what a  *)
(* page's requests are as a set; then page by page: the invariant, what it *)
(* needs of each step, and the properties that follow.                     *)
(***************************************************************************)
EXTENDS Pages, Wire, FiniteSetTheorems, WellFoundedInduction, TLAPS

-----------------------------------------------------------------------------
(* What is out: requests as a set, and the places they have                *)

IsCall(r) == r = [kind |-> r.kind, arg |-> r.arg, is |-> r.is, answer |-> r.answer]
IsWire(w) == (\E S : w \in Seq(S)) /\ \A i \in DOMAIN w : IsCall(w[i])
Requests(w) == {w[i] : i \in DOMAIN w}

(* At most one request of these kinds.                                     *)
One(w, K) == \A i, j \in DOMAIN w : w[i].kind \in K /\ w[j].kind \in K => i = j

(* w2 is what stands at the places S of w, in that order.                  *)
Keeps(w2, w, S) ==
  \E f \in [DOMAIN w2 -> S] :
    /\ \A n \in DOMAIN w2 : w2[n] = w[f[n]]
    /\ \A m, n \in DOMAIN w2 : m < n => f[m] < f[n]
    /\ \A i \in S : \E n \in DOMAIN w2 : f[n] = i

(* How many places of S there are up to i.                                 *)
UpTo(S, i) == Cardinality({j \in S : j <= i})

LEMMA UpToGrows ==
  ASSUME NEW L \in Nat, NEW S, S \subseteq 1..L
  PROVE  /\ Cardinality(S) \in Nat /\ UpTo(S, 0) = 0 /\ UpTo(S, L) = Cardinality(S)
         /\ \A i \in 0..L : UpTo(S, i) \in Nat /\ UpTo(S, i) <= Cardinality(S)
         /\ \A i \in 1..L : UpTo(S, i) = IF i \in S THEN UpTo(S, i - 1) + 1 ELSE UpTo(S, i - 1)
         /\ \A i, j \in 0..L : i <= j => UpTo(S, i) <= UpTo(S, j)
<1> DEFINE U(i) == {j \in S : j <= i}
<1>0. \A j \in S : j \in Nat /\ 1 <= j /\ j <= L
  OBVIOUS
<1>1. IsFiniteSet(S)
  <2>1. IsFiniteSet(1..L)
    BY FS_Interval
  <2> QED BY <2>1, FS_Subset
<1>2. Cardinality(S) \in Nat
  BY <1>1, FS_CardinalityType
<1>3. ASSUME NEW i
      PROVE  IsFiniteSet(U(i)) /\ UpTo(S, i) \in Nat /\ UpTo(S, i) <= Cardinality(S)
  BY <1>1, FS_Subset, FS_CardinalityType DEF UpTo
<1>4. UpTo(S, 0) = 0 /\ UpTo(S, L) = Cardinality(S)
  <2>1. \A j : j \in U(0) => FALSE
    BY <1>0
  <2>2. \A j \in S : j <= L
    BY <1>0
  <2>3. U(0) = {} /\ U(L) = S
    BY <2>1, <2>2
  <2> QED BY <2>3, FS_EmptySet DEF UpTo
<1>5. ASSUME NEW i \in 1..L
      PROVE  UpTo(S, i) = IF i \in S THEN UpTo(S, i - 1) + 1 ELSE UpTo(S, i - 1)
  <2>1. U(i) = IF i \in S THEN U(i - 1) \cup {i} ELSE U(i - 1)
    <3>1. \A j \in S : j <= i <=> (j <= i - 1 \/ j = i)
      BY <1>0
    <3> QED BY <3>1
  <2>2. i \notin U(i - 1)
    BY <1>0
  <2>3. Cardinality(U(i - 1) \cup {i}) = Cardinality(U(i - 1)) + 1
    BY <2>2, <1>3, FS_AddElement
  <2> QED BY <2>1, <2>3 DEF UpTo
<1>6. ASSUME NEW i \in 0..L, NEW j \in 0..L, i <= j
      PROVE  UpTo(S, i) <= UpTo(S, j)
  <2>1. \A k \in S : k <= i => k <= j
    BY <1>0, <1>6
  <2>2. U(i) \subseteq U(j)
    BY <2>1
  <2> QED BY <2>2, <1>3, FS_Subset DEF UpTo
<1> QED BY <1>2, <1>3, <1>4, <1>5, <1>6

LEMMA Places ==
  ASSUME NEW L \in Nat, NEW S, S \subseteq 1..L
  PROVE  /\ Cardinality(S) \in Nat
         /\ \A n \in 1..Cardinality(S) : Place(S, n) \in S
         /\ \A m, n \in 1..Cardinality(S) : m < n => Place(S, m) < Place(S, n)
         /\ \A i \in S : \E n \in 1..Cardinality(S) : Place(S, n) = i
<1>0. \A j \in S : j \in Nat /\ 1 <= j /\ j <= L
  OBVIOUS
<1>1. /\ Cardinality(S) \in Nat
      /\ UpTo(S, 0) = 0 /\ UpTo(S, L) = Cardinality(S)
      /\ \A i \in 0..L : UpTo(S, i) \in Nat /\ UpTo(S, i) <= Cardinality(S)
  BY UpToGrows
<1>2. \A i \in 1..L : UpTo(S, i) = IF i \in S THEN UpTo(S, i - 1) + 1 ELSE UpTo(S, i - 1)
  BY UpToGrows
<1>3. \A i, j \in 0..L : i <= j => UpTo(S, i) <= UpTo(S, j)
  BY UpToGrows
<1>4. ASSUME NEW i \in 0..L, NEW j \in S, i < j
      PROVE  UpTo(S, i) < UpTo(S, j)
  <2>1. j - 1 \in 0..L /\ j \in 1..L /\ i <= j - 1
    BY <1>4
  <2>2. UpTo(S, i) <= UpTo(S, j - 1) /\ UpTo(S, j) = UpTo(S, j - 1) + 1
    BY <2>1, <1>2, <1>3
  <2> QED BY <2>1, <2>2, <1>1
<1>5. ASSUME NEW n \in 1..Cardinality(S)
      PROVE  \E i \in S : UpTo(S, i) = n
  <2> DEFINE A == {i \in 0..L : UpTo(S, i) >= n}
  <2>1. PICK i \in A : \A j \in A : ~(<<j, i>> \in OpToRel(<, Nat))
    <3>1. IsWellFoundedOn(OpToRel(<, Nat), Nat)
      BY NatLessThanWellFounded
    <3>2. A \subseteq Nat /\ L \in A
      BY <1>1
    <3> HIDE DEF A
    <3> QED BY <3>1, <3>2, WFMin
  <2>2. \A j \in A : ~(j < i)
    <3>1. ASSUME NEW j \in A, j < i
          PROVE  <<j, i>> \in OpToRel(<, Nat)
      <4>1. <<j, i>> \in Nat \X Nat
        OBVIOUS
      <4> HIDE DEF A
      <4> QED BY <3>1, <4>1 DEF OpToRel
    <3> QED BY <2>1, <3>1
  <2>3. i # 0
    BY <1>1
  <2>4. i - 1 \in 0..L /\ ~(UpTo(S, i - 1) >= n)
    BY <2>2, <2>3
  <2> QED BY <2>3, <2>4, <1>1, <1>2
<1>6. ASSUME NEW n \in 1..Cardinality(S)
      PROVE  Place(S, n) \in S /\ UpTo(S, Place(S, n)) = n
  BY <1>5 DEF Place, UpTo
<1>7. ASSUME NEW m \in 1..Cardinality(S), NEW n \in 1..Cardinality(S), m < n
      PROVE  Place(S, m) < Place(S, n)
  <2>1. PICK p \in S, q \in S : /\ p = Place(S, m) /\ UpTo(S, p) = m
                               /\ q = Place(S, n) /\ UpTo(S, q) = n
    BY <1>6
  <2>2. p \in 0..L /\ q \in 0..L
    BY <1>0
  <2>3. p < q
    BY <2>1, <2>2, <1>1, <1>3, <1>7
  <2> QED BY <2>1, <2>3
<1>8. ASSUME NEW i \in S
      PROVE  \E n \in 1..Cardinality(S) : Place(S, n) = i
  <2>1. UpTo(S, i) \in 1..Cardinality(S)
    <3>1. UpTo(S, 0) < UpTo(S, i)
      BY <1>4
    <3> QED BY <3>1, <1>1
  <2>2. PICK p \in S : p = Place(S, UpTo(S, i)) /\ UpTo(S, p) = UpTo(S, i)
    BY <2>1, <1>6
  <2>3. ~(p < i) /\ ~(i < p)
    BY <2>2, <1>4, <1>1
  <2> QED BY <2>1, <2>2, <2>3
<1> QED BY <1>1, <1>6, <1>7, <1>8

(* A request sent stands behind the others.                                *)
LEMMA SendWire ==
  ASSUME NEW w, IsWire(w), NEW k, NEW a
  PROVE  /\ IsWire(Send(w, k, a))
         /\ DOMAIN w = 1..Len(w) /\ Len(w) \in Nat
         /\ DOMAIN Send(w, k, a) = 1..(Len(w) + 1)
         /\ \A i \in DOMAIN w : Send(w, k, a)[i] = w[i]
         /\ Send(w, k, a)[Len(w) + 1] = Call(k, a)
<1>1. PICK S : w \in Seq(S)
  BY DEF IsWire
<1>2. w \in Seq(S \cup {Call(k, a)}) /\ Call(k, a) \in S \cup {Call(k, a)}
  BY <1>1
<1>3. Send(w, k, a) \in Seq(S \cup {Call(k, a)})
  BY <1>2 DEF Send
<1>4. /\ DOMAIN w = 1..Len(w) /\ Len(w) \in Nat
      /\ DOMAIN Send(w, k, a) = 1..(Len(w) + 1)
      /\ \A i \in DOMAIN w : Send(w, k, a)[i] = w[i]
      /\ Send(w, k, a)[Len(w) + 1] = Call(k, a)
  BY <1>2 DEF Send
<1>5. IsCall(Call(k, a))
  BY DEF IsCall, Call
<1>6. \A i \in DOMAIN Send(w, k, a) : IsCall(Send(w, k, a)[i])
  BY <1>4, <1>5 DEF IsWire
<1> QED BY <1>3, <1>4, <1>6 DEF IsWire

(* A request that settles keeps its place, its kind and its argument.      *)
LEMMA OkWire ==
  ASSUME NEW w, IsWire(w), NEW i \in DOMAIN w, NEW a
  PROVE  /\ IsWire(Ok(w, i, a))
         /\ DOMAIN Ok(w, i, a) = DOMAIN w
         /\ \A j \in DOMAIN w : j # i => Ok(w, i, a)[j] = w[j]
         /\ Ok(w, i, a)[i] = [kind |-> w[i].kind, arg |-> w[i].arg, is |-> "ok", answer |-> {a}]
<1>1. PICK S : w \in Seq(S)
  BY DEF IsWire
<1> DEFINE r == [kind |-> w[i].kind, arg |-> w[i].arg, is |-> "ok", answer |-> {a}]
<1>2. [[w[i] EXCEPT !.is = "ok"] EXCEPT !.answer = {a}] = r
  <2>1. PICK k, b, s, t : w[i] = [kind |-> k, arg |-> b, is |-> s, answer |-> t]
    BY DEF IsWire, IsCall
  <2>2. PICK u : u = [w[i] EXCEPT !.is = "ok"]
    OBVIOUS
  <2>3. u = [kind |-> k, arg |-> b, is |-> "ok", answer |-> t]
    BY <2>1, <2>2
  <2>4. [u EXCEPT !.answer = {a}] = [kind |-> k, arg |-> b, is |-> "ok", answer |-> {a}]
    BY <2>3
  <2> QED BY <2>1, <2>2, <2>4
<1>3. Ok(w, i, a) = [w EXCEPT ![i] = r]
  <2>1. Ok(w, i, a) = [w EXCEPT ![i] = [[@ EXCEPT !.is = "ok"] EXCEPT !.answer = {a}]]
    BY DEF Ok
  <2> QED BY <2>1, <1>2
<1>4. w \in Seq(S \cup {r})
  BY <1>1
<1>5. [w EXCEPT ![i] = r] \in Seq(S \cup {r})
  BY <1>4
<1>6. IsCall(r)
  BY DEF IsCall
<1> HIDE DEF r
<1>7. /\ DOMAIN Ok(w, i, a) = DOMAIN w
      /\ \A j \in DOMAIN w : j # i => Ok(w, i, a)[j] = w[j]
      /\ Ok(w, i, a)[i] = r
  BY <1>3, <1>1
<1>8. \A j \in DOMAIN w : IsCall(Ok(w, i, a)[j])
  BY <1>6, <1>7 DEF IsWire
<1> QED BY <1>3, <1>5, <1>7, <1>8 DEF IsWire, r

LEMMA SettleWire ==
  ASSUME NEW w, IsWire(w), NEW i \in DOMAIN w, NEW s
  PROVE  /\ IsWire(Settle(w, i, s))
         /\ DOMAIN Settle(w, i, s) = DOMAIN w
         /\ \A j \in DOMAIN w : j # i => Settle(w, i, s)[j] = w[j]
         /\ Settle(w, i, s)[i] = [kind |-> w[i].kind, arg |-> w[i].arg, is |-> s, answer |-> w[i].answer]
<1>1. PICK S : w \in Seq(S)
  BY DEF IsWire
<1> DEFINE r == [kind |-> w[i].kind, arg |-> w[i].arg, is |-> s, answer |-> w[i].answer]
<1>2. [w[i] EXCEPT !.is = s] = r
  <2>1. PICK k, b, t, u : w[i] = [kind |-> k, arg |-> b, is |-> t, answer |-> u]
    BY DEF IsWire, IsCall
  <2> QED BY <2>1
<1>3. Settle(w, i, s) = [w EXCEPT ![i] = r]
  BY <1>2 DEF Settle
<1>4. w \in Seq(S \cup {r})
  BY <1>1
<1>5. [w EXCEPT ![i] = r] \in Seq(S \cup {r})
  BY <1>4
<1>6. IsCall(r)
  BY DEF IsCall
<1> HIDE DEF r
<1>7. /\ DOMAIN Settle(w, i, s) = DOMAIN w
      /\ \A j \in DOMAIN w : j # i => Settle(w, i, s)[j] = w[j]
      /\ Settle(w, i, s)[i] = r
  BY <1>3, <1>1
<1>8. \A j \in DOMAIN w : IsCall(Settle(w, i, s)[j])
  BY <1>6, <1>7 DEF IsWire
<1> QED BY <1>3, <1>5, <1>7, <1>8 DEF IsWire, r

(* What is left when an answer was received, or a kind is ignored.         *)
LEMMA Concatenated ==
  ASSUME NEW S, NEW x \in Seq(S), NEW y \in Seq(S)
  PROVE  /\ x \o y \in Seq(S) /\ Len(x \o y) = Len(x) + Len(y)
         /\ \A n \in 1..(Len(x) + Len(y)) : (x \o y)[n] = IF n <= Len(x) THEN x[n] ELSE y[n - Len(x)]
OBVIOUS

LEMMA ReceivedWire ==
  ASSUME NEW w, IsWire(w), NEW i \in DOMAIN w
  PROVE  IsWire(Received(w, i)) /\ Keeps(Received(w, i), w, DOMAIN w \ {i})
<1>1. PICK S : w \in Seq(S)
  BY DEF IsWire
<1>2. i \in 1..Len(w) /\ Len(w) \in Nat /\ DOMAIN w = 1..Len(w)
  BY <1>1
<1>3. /\ SubSeq(w, 1, i - 1) \in Seq(S) /\ Len(SubSeq(w, 1, i - 1)) = i - 1
      /\ \A n \in 1..(i - 1) : SubSeq(w, 1, i - 1)[n] = w[n]
  BY <1>1, <1>2
<1>4. /\ SubSeq(w, i + 1, Len(w)) \in Seq(S) /\ Len(SubSeq(w, i + 1, Len(w))) = Len(w) - i
      /\ \A n \in 1..(Len(w) - i) : SubSeq(w, i + 1, Len(w))[n] = w[n + i]
  BY <1>1, <1>2
<1> DEFINE v == Received(w, i)
           skip == [n \in 1..(Len(w) - 1) |-> IF n < i THEN n ELSE n + 1]
<1>5. /\ v \in Seq(S) /\ DOMAIN v = 1..(Len(w) - 1)
      /\ \A n \in 1..(Len(w) - 1) : v[n] = IF n < i THEN w[n] ELSE w[n + 1]
  <2> DEFINE x == SubSeq(w, 1, i - 1)
             y == SubSeq(w, i + 1, Len(w))
  <2>1. x \in Seq(S) /\ y \in Seq(S) /\ Len(x) = i - 1 /\ Len(y) = Len(w) - i
    BY <1>3, <1>4
  <2>2. v = x \o y
    BY DEF Received
  <2>3. /\ \A n \in 1..(i - 1) : x[n] = w[n]
        /\ \A n \in 1..(Len(w) - i) : y[n] = w[n + i]
    BY <1>3, <1>4
  <2> HIDE DEF x, y, v
  <2>4. /\ v \in Seq(S) /\ Len(v) = Len(w) - 1 /\ DOMAIN v = 1..(Len(w) - 1)
        /\ \A n \in 1..(Len(w) - 1) : v[n] = IF n <= i - 1 THEN x[n] ELSE y[n - (i - 1)]
    <3>1. /\ v \in Seq(S) /\ Len(v) = Len(x) + Len(y)
          /\ \A n \in 1..(Len(x) + Len(y)) : v[n] = IF n <= Len(x) THEN x[n] ELSE y[n - Len(x)]
      BY <2>1, <2>2, Concatenated
    <3>2. DOMAIN v = 1..Len(v) /\ Len(x) + Len(y) = Len(w) - 1
      BY <3>1, <2>1, <1>2
    <3> QED BY <3>1, <3>2, <2>1
  <2>5. ASSUME NEW n \in 1..(Len(w) - 1)
        PROVE  v[n] = IF n < i THEN w[n] ELSE w[n + 1]
    <3>1. CASE n < i
      BY <3>1, <2>3, <2>4, <1>2
    <3>2. CASE ~(n < i)
      <4>1. n - (i - 1) \in 1..(Len(w) - i) /\ ~(n <= i - 1) /\ (n - (i - 1)) + i = n + 1
        BY <3>2, <1>2
      <4> QED BY <3>2, <4>1, <2>3, <2>4
    <3> QED BY <3>1, <3>2
  <2> QED BY <2>4, <2>5
<1>6. skip \in [1..(Len(w) - 1) -> DOMAIN w \ {i}]
  BY <1>2
<1>7. \A n \in 1..(Len(w) - 1) : v[n] = w[skip[n]]
  BY <1>5
<1>8. \A m, n \in 1..(Len(w) - 1) : m < n => skip[m] < skip[n]
  BY <1>2
<1>9. \A j \in DOMAIN w \ {i} : \E n \in 1..(Len(w) - 1) : skip[n] = j
  <2>1. ASSUME NEW j \in DOMAIN w \ {i}
        PROVE  \E n \in 1..(Len(w) - 1) : skip[n] = j
    <3>1. CASE j < i
      BY <3>1, <1>2
    <3>2. CASE j > i
      <4>1. j - 1 \in 1..(Len(w) - 1) /\ skip[j - 1] = j
        BY <3>2, <1>2
      <4> QED BY <4>1
    <3> QED BY <3>1, <3>2, <1>2
  <2> QED BY <2>1
<1> HIDE DEF skip
<1>10. Keeps(v, w, DOMAIN w \ {i})
  <2>1. skip \in [DOMAIN v -> DOMAIN w \ {i}]
    BY <1>5, <1>6
  <2>2. /\ \A n \in DOMAIN v : v[n] = w[skip[n]]
        /\ \A m, n \in DOMAIN v : m < n => skip[m] < skip[n]
        /\ \A j \in DOMAIN w \ {i} : \E n \in DOMAIN v : skip[n] = j
    BY <1>5, <1>7, <1>8, <1>9
  <2> HIDE DEF v
  <2> QED BY <2>1, <2>2 DEF Keeps
<1>11. \A n \in DOMAIN v : IsCall(v[n])
  BY <1>5, <1>6, <1>7 DEF IsWire
<1> QED BY <1>5, <1>10, <1>11 DEF IsWire

LEMMA SiftKeeps ==
  ASSUME NEW T, NEW w \in Seq(T), NEW S, S \subseteq DOMAIN w
  PROVE  Sift(w, S) \in Seq(T) /\ Keeps(Sift(w, S), w, S)
<1>2. Len(w) \in Nat /\ DOMAIN w = 1..Len(w) /\ \A i \in 1..Len(w) : w[i] \in T
  OBVIOUS
<1> DEFINE C == Cardinality(S)
           v == Sift(w, S)
           f == [n \in 1..C |-> Place(S, n)]
<1>3. /\ C \in Nat
      /\ \A n \in 1..C : Place(S, n) \in S
      /\ \A m, n \in 1..C : m < n => Place(S, m) < Place(S, n)
      /\ \A i \in S : \E n \in 1..C : Place(S, n) = i
  BY <1>2, Places
<1>4. /\ f \in [1..C -> S]
      /\ \A m, n \in 1..C : m < n => f[m] < f[n]
      /\ \A i \in S : \E n \in 1..C : f[n] = i
  BY <1>3
<1>5. v = [n \in 1..C |-> w[f[n]]]
  BY DEF Sift
<1> HIDE DEF f, C
<1>6. v \in Seq(T) /\ DOMAIN v = 1..C /\ \A n \in 1..C : v[n] = w[f[n]]
  <2>1. \A n \in 1..C : w[f[n]] \in T
    BY <1>2, <1>4
  <2>2. [n \in 1..C |-> w[f[n]]] \in Seq(T)
    BY <2>1, <1>3
  <2> QED BY <2>2, <1>5
<1>7. Keeps(v, w, S)
  <2>1. f \in [DOMAIN v -> S]
    BY <1>4, <1>6
  <2>2. /\ \A n \in DOMAIN v : v[n] = w[f[n]]
        /\ \A m, n \in DOMAIN v : m < n => f[m] < f[n]
        /\ \A j \in S : \E n \in DOMAIN v : f[n] = j
    BY <1>4, <1>6
  <2> HIDE DEF v
  <2> QED BY <2>1, <2>2 DEF Keeps
<1> QED BY <1>6, <1>7

LEMMA SiftWire ==
  ASSUME NEW w, IsWire(w), NEW S, S \subseteq DOMAIN w
  PROVE  IsWire(Sift(w, S)) /\ Keeps(Sift(w, S), w, S)
<1>1. PICK T : w \in Seq(T)
  BY DEF IsWire
<1>2. Sift(w, S) \in Seq(T) /\ Keeps(Sift(w, S), w, S)
  BY <1>1, SiftKeeps
<1>3. \A n \in DOMAIN Sift(w, S) : \E i \in DOMAIN w : Sift(w, S)[n] = w[i]
  BY <1>2 DEF Keeps
<1> QED BY <1>2, <1>3 DEF IsWire

(* The same as sets of requests, and how many of a kind there are.         *)
LEMMA SendRequests ==
  ASSUME NEW w, IsWire(w), NEW k, NEW a
  PROVE  /\ IsWire(Send(w, k, a))
         /\ Requests(Send(w, k, a)) = Requests(w) \cup {Call(k, a)}
         /\ \A K : Out(Send(w, k, a), K) <=> Out(w, K) \/ k \in K
         /\ \A K : One(w, K) /\ ~(k \in K /\ Out(w, K)) => One(Send(w, k, a), K)
<1> DEFINE v == Send(w, k, a)
<1>1. /\ IsWire(v) /\ DOMAIN w = 1..Len(w) /\ Len(w) \in Nat /\ DOMAIN v = 1..(Len(w) + 1)
      /\ \A i \in DOMAIN w : v[i] = w[i]
      /\ v[Len(w) + 1] = Call(k, a)
  BY SendWire
<1>2. Call(k, a).kind = k
  BY DEF Call
<1> HIDE DEF v
<1>3. Requests(v) = Requests(w) \cup {Call(k, a)}
  <2>1. \A i \in DOMAIN v : i \in DOMAIN w \/ i = Len(w) + 1
    BY <1>1
  <2>2. DOMAIN w \subseteq DOMAIN v /\ Len(w) + 1 \in DOMAIN v
    BY <1>1
  <2> QED BY <2>1, <2>2, <1>1 DEF Requests
<1>4. ASSUME NEW K PROVE Out(v, K) <=> Out(w, K) \/ k \in K
  <2>1. \A i \in DOMAIN v : i \in DOMAIN w \/ i = Len(w) + 1
    BY <1>1
  <2>2. DOMAIN w \subseteq DOMAIN v /\ Len(w) + 1 \in DOMAIN v
    BY <1>1
  <2> QED BY <2>1, <2>2, <1>1, <1>2 DEF Out
<1>5. ASSUME NEW K, One(w, K), ~(k \in K /\ Out(w, K)) PROVE One(v, K)
  <2>1. \A i \in DOMAIN v : i \in DOMAIN w \/ i = Len(w) + 1
    BY <1>1
  <2> QED BY <2>1, <1>1, <1>2, <1>5 DEF Out, One
<1> QED BY <1>1, <1>3, <1>4, <1>5 DEF v

LEMMA OkRequests ==
  ASSUME NEW w, IsWire(w), NEW i \in DOMAIN w, NEW a
  PROVE  LET r == [kind |-> w[i].kind, arg |-> w[i].arg, is |-> "ok", answer |-> {a}] IN
         /\ IsWire(Ok(w, i, a))
         /\ Ok(w, i, a)[i] = r
         /\ r \in Requests(Ok(w, i, a)) /\ Requests(Ok(w, i, a)) \subseteq Requests(w) \cup {r}
         /\ Requests(w) \subseteq Requests(Ok(w, i, a)) \cup {w[i]}
         /\ \A K : Out(Ok(w, i, a), K) <=> Out(w, K)
         /\ \A K : One(w, K) => One(Ok(w, i, a), K)
<1> DEFINE v == Ok(w, i, a)
           r == [kind |-> w[i].kind, arg |-> w[i].arg, is |-> "ok", answer |-> {a}]
<1>1. /\ IsWire(v) /\ DOMAIN v = DOMAIN w
      /\ \A j \in DOMAIN w : j # i => v[j] = w[j]
      /\ v[i] = r
  BY OkWire
<1>2. r.kind = w[i].kind
  OBVIOUS
<1> HIDE DEF v, r
<1>3. \A j \in DOMAIN w : v[j].kind = w[j].kind
  BY <1>1, <1>2
<1>4. r \in Requests(v) /\ Requests(v) \subseteq Requests(w) \cup {r} /\ Requests(w) \subseteq Requests(v) \cup {w[i]}
  BY <1>1 DEF Requests
<1>5. \A K : Out(v, K) <=> Out(w, K)
  BY <1>1, <1>3 DEF Out
<1>6. \A K : One(w, K) => One(v, K)
  BY <1>1, <1>3 DEF One
<1> QED BY <1>1, <1>4, <1>5, <1>6 DEF v, r

LEMMA SettleRequests ==
  ASSUME NEW w, IsWire(w), NEW i \in DOMAIN w, NEW s
  PROVE  LET r == [kind |-> w[i].kind, arg |-> w[i].arg, is |-> s, answer |-> w[i].answer] IN
         /\ IsWire(Settle(w, i, s))
         /\ Settle(w, i, s)[i] = r
         /\ r \in Requests(Settle(w, i, s)) /\ Requests(Settle(w, i, s)) \subseteq Requests(w) \cup {r}
         /\ Requests(w) \subseteq Requests(Settle(w, i, s)) \cup {w[i]}
         /\ \A K : Out(Settle(w, i, s), K) <=> Out(w, K)
         /\ \A K : One(w, K) => One(Settle(w, i, s), K)
<1> DEFINE v == Settle(w, i, s)
           r == [kind |-> w[i].kind, arg |-> w[i].arg, is |-> s, answer |-> w[i].answer]
<1>1. /\ IsWire(v) /\ DOMAIN v = DOMAIN w
      /\ \A j \in DOMAIN w : j # i => v[j] = w[j]
      /\ v[i] = r
  BY SettleWire
<1>2. r.kind = w[i].kind
  OBVIOUS
<1> HIDE DEF v, r
<1>3. \A j \in DOMAIN w : v[j].kind = w[j].kind
  BY <1>1, <1>2
<1>4. r \in Requests(v) /\ Requests(v) \subseteq Requests(w) \cup {r} /\ Requests(w) \subseteq Requests(v) \cup {w[i]}
  BY <1>1 DEF Requests
<1>5. \A K : Out(v, K) <=> Out(w, K)
  BY <1>1, <1>3 DEF Out
<1>6. \A K : One(w, K) => One(v, K)
  BY <1>1, <1>3 DEF One
<1> QED BY <1>1, <1>4, <1>5, <1>6 DEF v, r

LEMMA KeepsRequests ==
  ASSUME NEW w, IsWire(w), NEW v, NEW S, S \subseteq DOMAIN w, Keeps(v, w, S), IsWire(v)
  PROVE  /\ Requests(v) = {w[i] : i \in S}
         /\ \A K : Out(v, K) <=> \E i \in S : w[i].kind \in K
         /\ \A K : One(w, K) => One(v, K)
<1>1. PICK f \in [DOMAIN v -> S] :
         /\ \A n \in DOMAIN v : v[n] = w[f[n]]
         /\ \A m, n \in DOMAIN v : m < n => f[m] < f[n]
         /\ \A i \in S : \E n \in DOMAIN v : f[n] = i
  BY DEF Keeps
<1>2. \A n \in DOMAIN v : f[n] \in S
  BY <1>1
<1>3. Requests(v) = {w[i] : i \in S}
  BY <1>1, <1>2 DEF Requests
<1>4. \A K : Out(v, K) <=> \E i \in S : w[i].kind \in K
  BY <1>1, <1>2 DEF Out
<1>5. ASSUME NEW K, One(w, K), NEW m \in DOMAIN v, NEW n \in DOMAIN v,
             v[m].kind \in K, v[n].kind \in K
      PROVE  m = n
  <2>1. f[m] = f[n]
    BY <1>1, <1>2, <1>5 DEF One
  <2>2. DOMAIN v \subseteq Nat /\ DOMAIN w \subseteq Nat
    BY DEF IsWire
  <2>3. m \in Nat /\ n \in Nat /\ f[m] \in Nat /\ f[n] \in Nat
    BY <2>2, <1>2
  <2>4. ~(m < n) /\ ~(n < m)
    BY <2>1, <2>3, <1>1
  <2> QED BY <2>3, <2>4
<1> QED BY <1>3, <1>4, <1>5 DEF One

LEMMA ReceivedRequests ==
  ASSUME NEW w, IsWire(w), NEW i \in DOMAIN w
  PROVE  /\ IsWire(Received(w, i))
         /\ Requests(Received(w, i)) \subseteq Requests(w)
         /\ Requests(w) \subseteq Requests(Received(w, i)) \cup {w[i]}
         /\ \A K : Out(w, K) /\ w[i].kind \notin K => Out(Received(w, i), K)
         /\ \A K : Out(Received(w, i), K) => Out(w, K)
         /\ \A K : One(w, K) => One(Received(w, i), K)
         /\ \A K : One(w, K) /\ w[i].kind \in K => ~Out(Received(w, i), K)
<1> DEFINE v == Received(w, i)
           S == DOMAIN w \ {i}
<1>1. IsWire(v) /\ Keeps(v, w, S)
  BY ReceivedWire
<1> HIDE DEF v
<1>2. /\ Requests(v) = {w[j] : j \in S}
      /\ \A K : Out(v, K) <=> \E j \in S : w[j].kind \in K
      /\ \A K : One(w, K) => One(v, K)
  BY <1>1, KeepsRequests
<1>3. Requests(v) \subseteq Requests(w) /\ Requests(w) \subseteq Requests(v) \cup {w[i]}
  BY <1>2 DEF Requests
<1>4. \A K : Out(w, K) /\ w[i].kind \notin K => Out(v, K)
  BY <1>2 DEF Out
<1>5. \A K : Out(v, K) => Out(w, K)
  BY <1>2 DEF Out
<1>6. \A K : One(w, K) /\ w[i].kind \in K => ~Out(v, K)
  BY <1>2 DEF One
<1> QED BY <1>1, <1>2, <1>3, <1>4, <1>5, <1>6 DEF v

LEMMA OnlyRequests ==
  ASSUME NEW w, IsWire(w), NEW kinds
  PROVE  /\ IsWire(Only(w, kinds))
         /\ Requests(Only(w, kinds)) = {r \in Requests(w) : r.kind \in kinds}
         /\ \A K : Out(Only(w, kinds), K) <=> Out(w, K \cap kinds)
         /\ \A K : One(w, K) => One(Only(w, kinds), K)
<1> DEFINE S == {i \in DOMAIN w : w[i].kind \in kinds}
           v == Only(w, kinds)
<1>1. IsWire(v) /\ Keeps(v, w, S)
  BY SiftWire DEF Only
<1> HIDE DEF v
<1>2. /\ Requests(v) = {w[j] : j \in S}
      /\ \A K : Out(v, K) <=> \E j \in S : w[j].kind \in K
      /\ \A K : One(w, K) => One(v, K)
  BY <1>1, KeepsRequests
<1>3. Requests(v) = {r \in Requests(w) : r.kind \in kinds}
  BY <1>2 DEF Requests
<1>4. \A K : Out(v, K) <=> Out(w, K \cap kinds)
  BY <1>2 DEF Out
<1> QED BY <1>1, <1>2, <1>3, <1>4 DEF v

LEMMA IgnoreRequests ==
  ASSUME NEW w, IsWire(w), NEW kind
  PROVE  /\ IsWire(Ignore(w, kind))
         /\ Requests(Ignore(w, kind)) = {r \in Requests(w) : r.kind # kind}
         /\ \A K : Out(Ignore(w, kind), K) <=> Out(w, K \ {kind})
         /\ \A K : One(w, K) => One(Ignore(w, kind), K)
<1> DEFINE S == {i \in DOMAIN w : w[i].kind # kind}
           v == Ignore(w, kind)
<1>1. IsWire(v) /\ Keeps(v, w, S)
  BY SiftWire DEF Ignore
<1> HIDE DEF v
<1>2. /\ Requests(v) = {w[j] : j \in S}
      /\ \A K : Out(v, K) <=> \E j \in S : w[j].kind \in K
      /\ \A K : One(w, K) => One(v, K)
  BY <1>1, KeepsRequests
<1>3. Requests(v) = {r \in Requests(w) : r.kind # kind}
  BY <1>2 DEF Requests
<1>4. \A K : Out(v, K) <=> Out(w, K \ {kind})
  BY <1>2 DEF Out
<1> QED BY <1>1, <1>2, <1>3, <1>4 DEF v

LEMMA SendAgainRequests ==
  ASSUME NEW w, IsWire(w), NEW k, NEW a
  PROVE  /\ IsWire(SendAgain(w, k, a))
         /\ Requests(SendAgain(w, k, a)) = {r \in Requests(w) : r.kind # k} \cup {Call(k, a)}
         /\ \A K : Out(SendAgain(w, k, a), K) <=> Out(w, K \ {k}) \/ k \in K
         /\ \A K : One(w, K) /\ ~(k \in K /\ Out(w, K \ {k})) => One(SendAgain(w, k, a), K)
<1> DEFINE v == Ignore(w, k)
<1>1. /\ IsWire(v) /\ Requests(v) = {r \in Requests(w) : r.kind # k}
      /\ \A K : Out(v, K) <=> Out(w, K \ {k})
      /\ \A K : One(w, K) => One(v, K)
  BY IgnoreRequests
<1> HIDE DEF v
<1>2. /\ IsWire(Send(v, k, a)) /\ Requests(Send(v, k, a)) = Requests(v) \cup {Call(k, a)}
      /\ \A K : Out(Send(v, k, a), K) <=> Out(v, K) \/ k \in K
      /\ \A K : One(v, K) /\ ~(k \in K /\ Out(v, K)) => One(Send(v, k, a), K)
  BY <1>1, SendRequests
<1>3. SendAgain(w, k, a) = Send(v, k, a)
  BY DEF SendAgain, v
<1> QED BY <1>1, <1>2, <1>3

(* A request that settles, by what it is now: r stands where w[i] stood.   *)
Becomes(w2, w, i, r) ==
  /\ DOMAIN w2 = DOMAIN w /\ w2[i] = r /\ \A j \in DOMAIN w : j # i => w2[j] = w[j]
  /\ IsWire(w2) /\ w[i] \in Requests(w) /\ r \in Requests(w2)
  /\ Requests(w2) \subseteq Requests(w) \cup {r}
  /\ Requests(w) \subseteq Requests(w2) \cup {w[i]}
  /\ \A K : Out(w2, K) <=> Out(w, K)
  /\ \A K : One(w, K) => One(w2, K)

LEMMA OkRequest ==
  ASSUME NEW w, IsWire(w), NEW i \in DOMAIN w, NEW a
  PROVE  \E r : /\ r.kind = w[i].kind /\ r.arg = w[i].arg /\ r.is = "ok" /\ r.answer = {a}
               /\ Becomes(Ok(w, i, a), w, i, r)
<1> DEFINE r == [kind |-> w[i].kind, arg |-> w[i].arg, is |-> "ok", answer |-> {a}]
<1>1. r.kind = w[i].kind /\ r.arg = w[i].arg /\ r.is = "ok" /\ r.answer = {a}
  OBVIOUS
<1>2. /\ IsWire(Ok(w, i, a)) /\ r \in Requests(Ok(w, i, a))
      /\ Requests(Ok(w, i, a)) \subseteq Requests(w) \cup {r}
      /\ Requests(w) \subseteq Requests(Ok(w, i, a)) \cup {w[i]}
      /\ \A K : Out(Ok(w, i, a), K) <=> Out(w, K)
      /\ \A K : One(w, K) => One(Ok(w, i, a), K)
  BY OkRequests
<1>3. w[i] \in Requests(w)
  BY DEF Requests
<1>4. /\ DOMAIN Ok(w, i, a) = DOMAIN w /\ Ok(w, i, a)[i] = r
      /\ \A j \in DOMAIN w : j # i => Ok(w, i, a)[j] = w[j]
  BY OkWire
<1> HIDE DEF r
<1> QED BY <1>1, <1>2, <1>3, <1>4 DEF Becomes

LEMMA SettleRequest ==
  ASSUME NEW w, IsWire(w), NEW i \in DOMAIN w, NEW s
  PROVE  \E r : /\ r.kind = w[i].kind /\ r.arg = w[i].arg /\ r.is = s /\ r.answer = w[i].answer
               /\ Becomes(Settle(w, i, s), w, i, r)
<1> DEFINE r == [kind |-> w[i].kind, arg |-> w[i].arg, is |-> s, answer |-> w[i].answer]
<1>1. r.kind = w[i].kind /\ r.arg = w[i].arg /\ r.is = s /\ r.answer = w[i].answer
  OBVIOUS
<1>2. /\ IsWire(Settle(w, i, s)) /\ r \in Requests(Settle(w, i, s))
      /\ Requests(Settle(w, i, s)) \subseteq Requests(w) \cup {r}
      /\ Requests(w) \subseteq Requests(Settle(w, i, s)) \cup {w[i]}
      /\ \A K : Out(Settle(w, i, s), K) <=> Out(w, K)
      /\ \A K : One(w, K) => One(Settle(w, i, s), K)
  BY SettleRequests
<1>3. w[i] \in Requests(w)
  BY DEF Requests
<1>4. /\ DOMAIN Settle(w, i, s) = DOMAIN w /\ Settle(w, i, s)[i] = r
      /\ \A j \in DOMAIN w : j # i => Settle(w, i, s)[j] = w[j]
  BY SettleWire
<1> HIDE DEF r
<1> QED BY <1>1, <1>2, <1>3, <1>4 DEF Becomes

(* Before anything is sent.                                                *)
LEMMA NoRequests ==
  IsWire(<<>>) /\ Requests(<<>>) = {} /\ (\A K : One(<<>>, K) /\ ~Out(<<>>, K))
<1>1. <<>> \in Seq({}) /\ DOMAIN <<>> = {}
  OBVIOUS
<1> QED BY <1>1 DEF IsWire, Requests, One, Out

LEMMA FirstRequest ==
  ASSUME NEW k, NEW a
  PROVE  /\ IsWire(<<Call(k, a)>>) /\ Requests(<<Call(k, a)>>) = {Call(k, a)}
         /\ \A K : One(<<Call(k, a)>>, K) /\ (Out(<<Call(k, a)>>, K) <=> k \in K)
<1>1. <<Call(k, a)>> = Send(<<>>, k, a)
  BY DEF Send
<1> QED BY <1>1, NoRequests, SendRequests

LEMMA CallFields ==
  ASSUME NEW k, NEW a
  PROVE  Call(k, a).kind = k /\ Call(k, a).arg = a /\ Call(k, a).is = "sent" /\ Call(k, a).answer = {}
BY DEF Call

LEMMA DataAnswered ==
  ASSUME NEW r, NEW a, r.answer = {a}
  PROVE  Data(r) = a
BY DEF Data

-----------------------------------------------------------------------------
(* The service worker                                                      *)

LEMMA WorkerWire ==
  /\ \A w, k, a : Worker!Send(w, k, a) = Send(w, k, a)
  /\ \A w, i, a : Worker!Ok(w, i, a) = Ok(w, i, a)
  /\ \A w, i, s : Worker!Settle(w, i, s) = Settle(w, i, s)
  /\ \A w, i : Worker!Received(w, i) = Received(w, i)
  /\ \A w, K : Worker!Out(w, K) = Out(w, K)
  /\ \A w : Worker!Settled(w) = Settled(w) /\ Worker!Waiting(w) = Waiting(w)
  /\ \A r : Worker!Data(r) = Data(r)
BY DEF Worker!Send, Worker!Call, Worker!Ok, Worker!Settle, Worker!Received, Worker!Out,
       Worker!Settled, Worker!Waiting, Worker!Data,
       Send, Call, Ok, Settle, Received, Out, Settled, Waiting, Data

Bodies == {"app", "asset", "error", "reference"} \X (Builds \cup {0})
Answers == [ok : BOOLEAN, redirected : BOOLEAN, html : BOOLEAN, body : Bodies]
Caches == [open : BOOLEAN, shell : SUBSET Worker!AppPages, assets : SUBSET [build : Builds, body : Bodies]]

WorkerType ==
  /\ IsWire(wire)
  /\ DOMAIN world = {"build", "worker"} /\ world.build \in Builds /\ world.worker \in 1..2
  /\ DOMAIN view = {"active", "installing", "installed", "caches", "shows", "offline"}
  /\ view.active \in 0..2 /\ view.installing \in 0..2 /\ view.installed \in BOOLEAN
  /\ view.caches \in [1..2 -> Caches]

(* What a fetch of the worker or a write to its cache may be under way for.*)
FetchSound(v, r) ==
  /\ r.kind \in {"shell", "navigate", "fetch", "put"}
  /\ r.kind = "shell" => v.installing # 0 /\ ~v.installed
  /\ r.kind = "navigate" => v.active # 0 /\ r.arg.path \in {"route", "asset"}
  /\ r.kind = "fetch" => v.active # 0 /\ r.arg.build \in Builds
  /\ r.kind = "put" => /\ v.active # 0 /\ r.arg.worker = v.active
                       /\ r.arg.body \in Bodies
                       /\ r.arg.key[1] = "shell" => r.arg.body \in Worker!AppPages
                       /\ r.arg.key[1] # "shell" => r.arg.key[2] \in Builds

(* A good answer to the fetch of a shell, or to a page that was navigated  *)
(* to, is a page of the app.                                               *)
AnswerSound(r) ==
  r.kind # "put" /\ r.is = "ok" =>
    \E a \in Answers :
      /\ r.answer = {a}
      /\ r.kind = "shell" /\ a.ok => a.body \in Worker!AppPages
      /\ r.kind = "navigate" /\ Worker!MayBeShell(a) => a.body \in Worker!AppPages

WorkersSound(v) ==
  /\ v.installing # 0 => v.installing # v.active
  /\ v.installed => v.installing # 0 /\ v.caches[v.installing].shell # {}
  /\ v.active # 0 => v.caches[v.active].shell # {}
  /\ v.offline => v.shows \in Worker!AppPages

WorkerInv ==
  /\ WorkerType
  /\ WorkersSound(view)
  /\ One(wire, {"shell"})
  /\ \A r \in Requests(wire) : FetchSound(view, r) /\ AnswerSound(r)

LEMMA AppPagesAreBodies == Worker!AppPages \subseteq Bodies
BY DEF Worker!AppPages, Bodies

LEMMA EmptyIsCache == Worker!Empty \in Caches
BY DEF Worker!Empty, Caches

LEMMA CacheChanged ==
  ASSUME NEW c \in Caches, NEW added \in SUBSET Worker!AppPages
  PROVE  /\ [c EXCEPT !.open = TRUE] \in Caches
         /\ [[c EXCEPT !.open = TRUE] EXCEPT !.shell = added] \in Caches
BY DEF Caches

LEMMA WorkerAnswers ==
  ASSUME NEW b \in Builds
  PROVE  /\ Worker!Page(b) \in Answers /\ Worker!Page(b).body \in Worker!AppPages
         /\ Worker!Script(b) \in Answers /\ ~Worker!MayBeShell(Worker!Script(b))
         /\ Worker!BadGateway \in Answers /\ ~Worker!BadGateway.ok
<1>1. <<"app", b>> \in Bodies /\ <<"asset", b>> \in Bodies /\ <<"error", 0>> \in Bodies
  BY DEF Bodies
<1>2. <<"app", b>> \in Worker!AppPages
  BY DEF Worker!AppPages
<1> QED BY <1>1, <1>2 DEF Worker!Page, Worker!Script, Worker!BadGateway, Worker!MayBeShell, Answers

LEMMA WorkerInit ==
  ASSUME Worker!Init PROVE WorkerInv
<1>1. wire = <<>> /\ IsWire(wire) /\ Requests(wire) = {} /\ One(wire, {"shell"})
  <2>1. <<>> \in Seq({})
    OBVIOUS
  <2>2. wire = <<>> /\ DOMAIN wire = {}
    BY DEF Worker!Init
  <2> QED BY <2>1, <2>2 DEF IsWire, Requests, One
<1>2. WorkerType /\ WorkersSound(view)
  <2>1. [w \in Worker!Workers |-> Worker!Empty] \in [1..2 -> Caches]
    BY EmptyIsCache DEF Worker!Workers
  <2>2. world.build \in Builds /\ <<"app", world.build>> \in Bodies
    BY DEF Worker!Init, Bodies
  <2> QED BY <1>1, <2>1, <2>2 DEF Worker!Init, WorkerType, WorkersSound
<1> QED BY <1>1, <1>2 DEF WorkerInv

(* The page registers a worker: one fetch of a shell, and nobody active    *)
(* changes.                                                                *)
LEMMA WorkerRegisters ==
  ASSUME WorkerInv, Worker!register PROVE WorkerInv'
<1>1. /\ view.installing = 0 /\ world.worker # view.active
      /\ view' = [view EXCEPT !.installing = world.worker]
      /\ wire' = Send(wire, "shell", [worker |-> world.worker])
      /\ world' = world
  BY WorkerWire DEF Worker!register
<1>2. /\ IsWire(wire')
      /\ Requests(wire') = Requests(wire) \cup {Call("shell", [worker |-> world.worker])}
      /\ ~Out(wire, {"shell"}) => One(wire', {"shell"})
  BY <1>1, SendRequests DEF WorkerInv, WorkerType
<1>3. ~Out(wire, {"shell"})
  BY <1>1 DEF WorkerInv, FetchSound, Out, Requests
<1>4. /\ view'.installing = world.worker /\ view'.installing \in 1..2
      /\ view'.active = view.active /\ view'.installed = FALSE /\ view'.caches = view.caches
      /\ view'.offline = view.offline /\ view'.shows = view.shows
      /\ WorkerType'
  BY <1>1, <1>2 DEF WorkerInv, WorkerType, WorkersSound
<1>5. WorkersSound(view)'
  BY <1>1, <1>4 DEF WorkerInv, WorkersSound
<1>6. ASSUME NEW r \in Requests(wire') PROVE FetchSound(view', r) /\ AnswerSound(r)
  <2>1. CASE r \in Requests(wire)
    BY <2>1, <1>3, <1>4 DEF WorkerInv, FetchSound, Out, Requests
  <2>2. CASE r = Call("shell", [worker |-> world.worker])
    BY <2>2, <1>4, CallFields DEF FetchSound, AnswerSound
  <2> QED BY <2>1, <2>2, <1>2
<1> QED BY <1>2, <1>3, <1>4, <1>5, <1>6 DEF WorkerInv

(* An answer that was received leaves the rest as it was.                  *)
LEMMA WorkerReceives ==
  ASSUME WorkerInv, NEW i \in DOMAIN wire
  PROVE  /\ IsWire(Received(wire, i)) /\ One(Received(wire, i), {"shell"})
         /\ wire[i] \in Requests(wire) /\ FetchSound(view, wire[i]) /\ AnswerSound(wire[i])
         /\ \A r \in Requests(Received(wire, i)) : FetchSound(view, r) /\ AnswerSound(r)
         /\ wire[i].kind = "shell" => \A r \in Requests(Received(wire, i)) : r.kind # "shell"
<1>1. /\ IsWire(Received(wire, i)) /\ Requests(Received(wire, i)) \subseteq Requests(wire)
      /\ One(wire, {"shell"}) => One(Received(wire, i), {"shell"})
      /\ One(wire, {"shell"}) /\ wire[i].kind \in {"shell"} => ~Out(Received(wire, i), {"shell"})
  BY ReceivedRequests DEF WorkerInv, WorkerType
<1>2. wire[i] \in Requests(wire)
  BY DEF Requests
<1> QED BY <1>1, <1>2 DEF WorkerInv, Out, Requests

LEMMA WorkerInstalls ==
  ASSUME WorkerInv, NEW i \in DOMAIN wire, Worker!ReceiveShell(i) PROVE WorkerInv'
<1> DEFINE added == IF wire[i].is = "ok" /\ Data(wire[i]).ok THEN {Data(wire[i]).body} ELSE {}
<1>1. /\ wire[i].kind = "shell" /\ wire' = Received(wire, i) /\ world' = world
      /\ view' = Worker!install(added)
  BY WorkerWire DEF Worker!ReceiveShell
<1>2. /\ IsWire(wire') /\ One(wire', {"shell"})
      /\ FetchSound(view, wire[i]) /\ AnswerSound(wire[i])
      /\ \A r \in Requests(wire') : FetchSound(view, r) /\ AnswerSound(r) /\ r.kind # "shell"
  BY <1>1, WorkerReceives
<1>3. added \subseteq Worker!AppPages
  <2>1. CASE wire[i].is = "ok"
    <3>1. PICK a \in Answers : /\ wire[i].answer = {a} /\ Data(wire[i]) = a
                               /\ a.ok => a.body \in Worker!AppPages
      BY <1>1, <1>2, <2>1, DataAnswered DEF AnswerSound
    <3> QED BY <3>1
  <2> QED BY <2>1
<1>4. view.installing \in 1..2 /\ ~view.installed /\ view.installing # view.active
  BY <1>1, <1>2 DEF FetchSound, WorkerInv, WorkerType, WorkersSound
<1> HIDE DEF added
<1>5. CASE added = {}
  <2>1. view' = [view EXCEPT !.installing = 0, !.caches[view.installing].open = TRUE]
    BY <1>1, <1>5 DEF Worker!install
  <2>2. /\ view'.installing = 0 /\ view'.active = view.active /\ view'.installed = view.installed
        /\ view'.offline = view.offline /\ view'.shows = view.shows
        /\ \A w \in 1..2 : view'.caches[w].shell = view.caches[w].shell
    BY <1>4, <2>1 DEF WorkerInv, WorkerType, Caches
  <2>3. WorkersSound(view)'
    BY <1>4, <2>2 DEF WorkerInv, WorkersSound, WorkerType
  <2>4. WorkerType'
    <3>1. PICK c \in Caches : c = [view.caches[view.installing] EXCEPT !.open = TRUE]
      BY <1>4, CacheChanged DEF WorkerInv, WorkerType
    <3>2. view'.caches = [view.caches EXCEPT ![view.installing] = c]
      BY <2>1, <3>1 DEF WorkerInv, WorkerType
    <3>3. view'.caches \in [1..2 -> Caches]
      BY <3>2 DEF WorkerInv, WorkerType
    <3>4. DOMAIN view' = DOMAIN view
      BY <2>1
    <3> QED BY <1>1, <1>2, <1>4, <2>2, <3>3, <3>4 DEF WorkerInv, WorkerType
  <2> QED BY <1>2, <2>2, <2>3, <2>4 DEF WorkerInv, FetchSound
<1>6. CASE added # {}
  <2>1. view' = [view EXCEPT !.installed = TRUE, !.caches[view.installing].open = TRUE,
                             !.caches[view.installing].shell = added]
    BY <1>1, <1>6 DEF Worker!install
  <2>2. /\ view'.installing = view.installing /\ view'.active = view.active /\ view'.installed
        /\ view'.offline = view.offline /\ view'.shows = view.shows
        /\ view'.caches[view.installing].shell = added
        /\ \A w \in 1..2 : w # view.installing => view'.caches[w].shell = view.caches[w].shell
    BY <1>4, <2>1 DEF WorkerInv, WorkerType, Caches
  <2>3. WorkersSound(view)'
    BY <1>4, <1>6, <2>2 DEF WorkerInv, WorkersSound, WorkerType
  <2>4. WorkerType'
    <3>1. PICK c \in Caches :
            c = [[view.caches[view.installing] EXCEPT !.open = TRUE] EXCEPT !.shell = added]
      BY <1>3, <1>4, CacheChanged DEF WorkerInv, WorkerType
    <3>2. view'.caches = [view.caches EXCEPT ![view.installing] = c]
      BY <2>1, <3>1 DEF WorkerInv, WorkerType
    <3>3. view'.caches \in [1..2 -> Caches]
      BY <3>2 DEF WorkerInv, WorkerType
    <3>4. DOMAIN view' = DOMAIN view
      BY <2>1
    <3> QED BY <1>1, <1>2, <1>4, <2>2, <3>3, <3>4 DEF WorkerInv, WorkerType
  <2> QED BY <1>2, <2>2, <2>3, <2>4 DEF WorkerInv, FetchSound
<1> QED BY <1>5, <1>6

(* The new worker takes over with the shell it fetched, and what it does   *)
(* not know is forgotten.                                                  *)
LEMMA WorkerActivates ==
  ASSUME WorkerInv, Worker!activate PROVE WorkerInv'
<1>1. /\ view.installed /\ ~Out(wire, {"navigate", "fetch", "put"})
      /\ wire' = wire /\ world' = world
      /\ view' = [view EXCEPT !.active = view.installing, !.installing = 0, !.installed = FALSE,
                              !.caches = [w \in 1..2 |-> IF w = view.installing THEN view.caches[w]
                                                         ELSE Worker!Empty]]
  BY WorkerWire DEF Worker!activate, Worker!Workers
<1>2. view.installing \in 1..2 /\ view.caches[view.installing].shell # {}
  BY <1>1 DEF WorkerInv, WorkersSound, WorkerType
<1> DEFINE kept == [w \in 1..2 |-> IF w = view.installing THEN view.caches[w] ELSE Worker!Empty]
<1>3. kept \in [1..2 -> Caches] /\ kept[view.installing] = view.caches[view.installing]
  BY <1>2, EmptyIsCache DEF WorkerInv, WorkerType
<1>7. view' = [view EXCEPT !.active = view.installing, !.installing = 0, !.installed = FALSE,
                           !.caches = kept]
  BY <1>1
<1> HIDE DEF kept
<1>4. /\ view'.active = view.installing /\ view'.installing = 0 /\ ~view'.installed
      /\ view'.caches = kept /\ view'.offline = view.offline /\ view'.shows = view.shows
  BY <1>7 DEF WorkerInv, WorkerType
<1>8. WorkerType'
  BY <1>1, <1>2, <1>3, <1>4, <1>7 DEF WorkerInv, WorkerType
<1>5. WorkersSound(view)'
  BY <1>2, <1>3, <1>4 DEF WorkerInv, WorkersSound
<1>6. ASSUME NEW r \in Requests(wire) PROVE FetchSound(view', r)
  BY <1>1, <1>4 DEF WorkerInv, FetchSound, Out, Requests
<1> QED BY <1>1, <1>4, <1>5, <1>6, <1>8 DEF WorkerInv

LEMMA WorkerNavigates ==
  ASSUME WorkerInv, NEW path \in Worker!Paths, Worker!navigate(path) PROVE WorkerInv'
<1>1. /\ view.active # 0 /\ path \in {"route", "asset"}
      /\ wire' = Send(wire, "navigate", [path |-> path]) /\ view' = view /\ world' = world
  BY WorkerWire DEF Worker!navigate, Worker!Paths, Worker!Intercepts
<1>2. /\ IsWire(wire') /\ Requests(wire') = Requests(wire) \cup {Call("navigate", [path |-> path])}
      /\ One(wire', {"shell"})
  BY <1>1, SendRequests DEF WorkerInv, WorkerType
<1>3. LET r == Call("navigate", [path |-> path]) IN FetchSound(view, r) /\ AnswerSound(r)
  BY <1>1, CallFields DEF FetchSound, AnswerSound
<1> QED BY <1>1, <1>2, <1>3 DEF WorkerInv, WorkerType, WorkersSound

(* The shell of an active worker is a page of the app.                     *)
LEMMA ShellIsTheApp ==
  ASSUME WorkerInv, view.active # 0
  PROVE  Worker!Shell # {} /\ Worker!Shell \subseteq Worker!AppPages
<1>1. /\ view.active \in 1..2 /\ view.caches[view.active].shell # {}
      /\ \A w \in 1..2 : view.caches[w].shell \subseteq Worker!AppPages
  BY DEF WorkerInv, WorkerType, WorkersSound, Caches
<1>2. Worker!Holders \subseteq 1..2 /\ view.active \in Worker!Holders
  BY <1>1 DEF Worker!Holders, Worker!Workers
<1>3. ASSUME NEW S \in SUBSET (1..2), S # {}
      PROVE  \E w \in S : \A x \in S : w <= x
  <2>1. CASE 1 \in S
    BY <2>1
  <2>2. CASE 1 \notin S
    <3>1. \A x \in S : x = 2
      BY <2>2
    <3>2. 2 \in S
      BY <3>1, <1>3
    <3> QED BY <3>1, <3>2
  <2> QED BY <2>1, <2>2
<1>4. Worker!First(Worker!Holders) \in Worker!Holders
  BY <1>2, <1>3 DEF Worker!First
<1> QED BY <1>1, <1>2, <1>4 DEF Worker!Shell, Worker!Holders

(* A write to the cache of the active worker.                              *)
LEMMA WorkerWrites ==
  ASSUME WorkerInv, NEW w, IsWire(w), One(w, {"shell"}),
         \A r \in Requests(w) : FetchSound(view, r) /\ AnswerSound(r),
         NEW key, NEW body \in Bodies, view.active # 0,
         key[1] = "shell" => body \in Worker!AppPages,
         key[1] # "shell" => key[2] \in Builds
  PROVE  /\ IsWire(Worker!cachePut(w, key, body)) /\ One(Worker!cachePut(w, key, body), {"shell"})
         /\ \A r \in Requests(Worker!cachePut(w, key, body)) : FetchSound(view, r) /\ AnswerSound(r)
<1> DEFINE put == [worker |-> view.active, key |-> key, body |-> body]
<1>1. Worker!cachePut(w, key, body) = Send(w, "put", put)
  BY WorkerWire DEF Worker!cachePut
<1>2. FetchSound(view, Call("put", put)) /\ AnswerSound(Call("put", put))
  BY CallFields DEF FetchSound, AnswerSound
<1> QED BY <1>1, <1>2, SendRequests

LEMMA WorkerShows ==
  ASSUME WorkerInv, NEW i \in DOMAIN wire, Worker!ReceiveNavigation(i) PROVE WorkerInv'
<1> DEFINE w == Received(wire, i)
<1>1. /\ i \in DOMAIN wire /\ wire[i].is # "sent" /\ wire[i].kind = "navigate" /\ world' = world
  BY WorkerWire DEF Worker!ReceiveNavigation, Settled
<1>2. /\ IsWire(w) /\ One(w, {"shell"})
      /\ FetchSound(view, wire[i]) /\ AnswerSound(wire[i])
      /\ \A r \in Requests(w) : FetchSound(view, r) /\ AnswerSound(r)
  BY WorkerReceives
<1>3. view.active # 0
  BY <1>1, <1>2 DEF FetchSound
<1> HIDE DEF w
<1>4. CASE wire[i].is = "ok"
  <2>1. PICK a \in Answers : /\ wire[i].answer = {a} /\ Data(wire[i]) = a
                             /\ Worker!MayBeShell(a) => a.body \in Worker!AppPages
    BY <1>1, <1>2, <1>4, DataAnswered DEF AnswerSound
  <2>2. /\ view' = [view EXCEPT !.shows = a.body, !.offline = FALSE]
        /\ wire' = IF Worker!MayBeShell(a) THEN Worker!cachePut(w, <<"shell", 0>>, a.body) ELSE w
    BY <1>4, <2>1, WorkerWire DEF Worker!ReceiveNavigation, w
  <2>3. a.body \in Bodies
    BY DEF Answers
  <2>4. /\ IsWire(wire') /\ One(wire', {"shell"})
        /\ \A r \in Requests(wire') : FetchSound(view, r) /\ AnswerSound(r)
    <3>1. CASE Worker!MayBeShell(a)
      BY <1>2, <1>3, <2>1, <2>2, <2>3, <3>1, WorkerWrites
    <3>2. CASE ~Worker!MayBeShell(a)
      BY <1>2, <2>2, <3>2
    <3> QED BY <3>1, <3>2
  <2>5. /\ view'.active = view.active /\ view'.installing = view.installing
        /\ view'.installed = view.installed /\ view'.caches = view.caches /\ ~view'.offline
        /\ WorkerType'
    BY <1>1, <2>2, <2>3, <2>4 DEF WorkerInv, WorkerType
  <2> QED BY <2>4, <2>5 DEF WorkerInv, WorkersSound, FetchSound
<1>5. CASE wire[i].is # "ok"
  <2>1. /\ view' = [view EXCEPT !.shows = CHOOSE s \in Worker!Shell : TRUE, !.offline = TRUE]
        /\ wire' = w
    BY <1>3, <1>5, ShellIsTheApp, WorkerWire DEF Worker!ReceiveNavigation, w
  <2>2. PICK s \in Worker!AppPages : s = CHOOSE t \in Worker!Shell : TRUE
    BY <1>3, ShellIsTheApp
  <2>3. /\ view'.active = view.active /\ view'.installing = view.installing
        /\ view'.installed = view.installed /\ view'.caches = view.caches /\ view'.shows = s
        /\ WorkerType'
    BY <1>1, <1>2, <2>1, <2>2, AppPagesAreBodies DEF WorkerInv, WorkerType
  <2> QED BY <1>2, <2>1, <2>3 DEF WorkerInv, WorkersSound, FetchSound
<1> QED BY <1>4, <1>5

LEMMA WorkerFetches ==
  ASSUME WorkerInv, Worker!loadAsset PROVE WorkerInv'
<1>1. /\ view.active # 0 /\ view.shows \in Worker!AppPages /\ view' = view /\ world' = world
      /\ wire' = Send(wire, "fetch", [build |-> view.shows[2]])
  BY WorkerWire DEF Worker!loadAsset
<1>2. view.shows[2] \in Builds
  BY <1>1 DEF Worker!AppPages
<1>3. /\ IsWire(wire')
      /\ Requests(wire') = Requests(wire) \cup {Call("fetch", [build |-> view.shows[2]])}
      /\ One(wire', {"shell"})
  BY <1>1, SendRequests DEF WorkerInv, WorkerType
<1>4. LET r == Call("fetch", [build |-> view.shows[2]]) IN FetchSound(view, r) /\ AnswerSound(r)
  BY <1>1, <1>2, CallFields DEF FetchSound, AnswerSound
<1> QED BY <1>1, <1>3, <1>4 DEF WorkerInv, WorkerType, WorkersSound

LEMMA WorkerKeepsAsset ==
  ASSUME WorkerInv, NEW i \in DOMAIN wire, Worker!ReceiveAsset(i) PROVE WorkerInv'
<1> DEFINE w == Received(wire, i)
<1>1. /\ wire[i].kind = "fetch" /\ view' = view /\ world' = world
      /\ wire' = IF wire[i].is = "ok" /\ Data(wire[i]).ok
                 THEN Worker!cachePut(w, <<"asset", wire[i].arg.build>>, Data(wire[i]).body)
                 ELSE w
  BY WorkerWire DEF Worker!ReceiveAsset
<1>2. /\ IsWire(w) /\ One(w, {"shell"})
      /\ FetchSound(view, wire[i]) /\ AnswerSound(wire[i])
      /\ \A r \in Requests(w) : FetchSound(view, r) /\ AnswerSound(r)
  BY WorkerReceives
<1> HIDE DEF w
<1>3. /\ IsWire(wire') /\ One(wire', {"shell"})
      /\ \A r \in Requests(wire') : FetchSound(view, r) /\ AnswerSound(r)
  <2>1. CASE wire[i].is = "ok" /\ Data(wire[i]).ok
    <3>1. Data(wire[i]).body \in Bodies
      <4>1. PICK a \in Answers : wire[i].answer = {a} /\ Data(wire[i]) = a
        BY <1>1, <1>2, <2>1, DataAnswered DEF AnswerSound
      <4> QED BY <4>1 DEF Answers
    <3>2. view.active # 0 /\ <<"asset", wire[i].arg.build>>[1] # "shell" /\ <<"asset", wire[i].arg.build>>[2] \in Builds
      BY <1>1, <1>2 DEF FetchSound
    <3> QED BY <1>1, <1>2, <2>1, <3>1, <3>2, WorkerWrites
  <2>2. CASE ~(wire[i].is = "ok" /\ Data(wire[i]).ok)
    BY <1>1, <1>2, <2>2
  <2> QED BY <2>1, <2>2
<1> QED BY <1>1, <1>3 DEF WorkerInv, WorkerType, WorkersSound

LEMMA WorkerPuts ==
  ASSUME WorkerInv, NEW i \in DOMAIN wire, NEW refused \in BOOLEAN, Worker!Put(i, refused)
  PROVE  WorkerInv'
<1> DEFINE put == wire[i].arg
<1>1. /\ wire[i].kind = "put" /\ wire' = Received(wire, i) /\ world' = world
      /\ view' = IF refused THEN view
                 ELSE IF put.key[1] = "shell"
                 THEN [view EXCEPT !.caches[put.worker].shell = {put.body}]
                 ELSE [view EXCEPT !.caches[put.worker].assets =
                         {a \in @ : a.build # put.key[2]} \cup {[build |-> put.key[2], body |-> put.body]}]
  BY WorkerWire DEF Worker!Put
<1>2. /\ IsWire(wire') /\ One(wire', {"shell"}) /\ FetchSound(view, wire[i])
      /\ \A r \in Requests(wire') : FetchSound(view, r) /\ AnswerSound(r)
  BY <1>1, WorkerReceives
<1>3. /\ put.worker = view.active /\ view.active \in 1..2 /\ put.body \in Bodies
      /\ put.key[1] = "shell" => put.body \in Worker!AppPages
      /\ put.key[1] # "shell" => put.key[2] \in Builds
  BY <1>1, <1>2 DEF FetchSound, WorkerInv, WorkerType
<1>4. view.caches[view.active] \in Caches /\ view.caches[view.active].shell # {}
  BY <1>3 DEF WorkerInv, WorkerType, WorkersSound
<1>5. CASE refused
  BY <1>1, <1>2, <1>5 DEF WorkerInv, WorkerType, WorkersSound
<1>6. ASSUME ~refused, NEW c \in Caches, c.shell # {},
             view' = [view EXCEPT !.caches = [view.caches EXCEPT ![view.active] = c]]
      PROVE  WorkerInv'
  <2>1. /\ view'.active = view.active /\ view'.installing = view.installing
        /\ view'.installed = view.installed /\ view'.offline = view.offline /\ view'.shows = view.shows
        /\ DOMAIN view' = DOMAIN view
        /\ view'.caches = [view.caches EXCEPT ![view.active] = c]
    BY <1>6 DEF WorkerInv, WorkerType
  <2>2. /\ view'.caches \in [1..2 -> Caches]
        /\ \A w \in 1..2 : view.caches[w].shell # {} => view'.caches[w].shell # {}
    BY <2>1, <1>3, <1>6 DEF WorkerInv, WorkerType
  <2>3. WorkerType'
    BY <1>1, <1>2, <2>1, <2>2 DEF WorkerInv, WorkerType
  <2>4. WorkersSound(view)'
    BY <2>1, <2>2 DEF WorkerInv, WorkerType, WorkersSound
  <2> QED BY <1>2, <2>1, <2>3, <2>4 DEF WorkerInv, FetchSound
<1>7. CASE ~refused /\ put.key[1] = "shell"
  <2> DEFINE c == [view.caches[view.active] EXCEPT !.shell = {put.body}]
  <2>1. c \in Caches /\ c.shell # {}
    BY <1>3, <1>4, <1>7 DEF Caches
  <2>2. view' = [view EXCEPT !.caches = [view.caches EXCEPT ![view.active] = c]]
    BY <1>1, <1>3, <1>7 DEF WorkerInv, WorkerType
  <2> QED BY <1>6, <1>7, <2>1, <2>2
<1>8. CASE ~refused /\ put.key[1] # "shell"
  <2> DEFINE kept == {a \in view.caches[view.active].assets : a.build # put.key[2]}
                       \cup {[build |-> put.key[2], body |-> put.body]}
             c == [view.caches[view.active] EXCEPT !.assets = kept]
  <2>1. kept \subseteq [build : Builds, body : Bodies]
    BY <1>3, <1>4, <1>8 DEF Caches
  <2>2. view' = [view EXCEPT !.caches = [view.caches EXCEPT ![view.active] = c]]
    BY <1>1, <1>3, <1>8 DEF WorkerInv, WorkerType
  <2> HIDE DEF kept
  <2>3. c \in Caches /\ c.shell # {}
    BY <1>4, <2>1 DEF Caches
  <2> QED BY <1>6, <1>8, <2>2, <2>3
<1> QED BY <1>5, <1>7, <1>8

LEMMA WorkerServed ==
  ASSUME WorkerInv, NEW i \in DOMAIN wire, Worker!Serve(i) PROVE WorkerInv'
<1> DEFINE b == world.build
           routed == CASE wire[i].arg.path = "asset" -> {Worker!Script(b)}
                       [] wire[i].arg.path = "docs" -> {Worker!Reference, Worker!SignIn(b)}
                       [] OTHER -> {Worker!Page(b)}
           answers == CASE wire[i].kind = "shell" -> {Worker!Page(b)}
                        [] wire[i].kind = "fetch" ->
                             {IF wire[i].arg.build = b THEN Worker!Script(b) ELSE Worker!Page(b)}
                        [] wire[i].kind = "navigate" -> routed
<1>1. /\ wire[i].kind # "put" /\ view' = view /\ world' = world
      /\ \E a \in answers \cup {Worker!BadGateway} : wire' = Ok(wire, i, a)
  BY WorkerWire DEF Worker!Serve
<1>2. PICK a \in answers \cup {Worker!BadGateway} : wire' = Ok(wire, i, a)
  BY <1>1
<1>3. wire[i] \in Requests(wire) /\ FetchSound(view, wire[i])
  BY DEF Requests, WorkerInv
<1>4. b \in Builds
  BY DEF WorkerInv, WorkerType
<1> DEFINE r == [kind |-> wire[i].kind, arg |-> wire[i].arg, is |-> "ok", answer |-> {a}]
<1>5. AnswerSound(r) /\ FetchSound(view, r)
  <2>1. /\ a \in Answers
        /\ wire[i].kind = "shell" /\ a.ok => a.body \in Worker!AppPages
        /\ wire[i].kind = "navigate" /\ Worker!MayBeShell(a) => a.body \in Worker!AppPages
    <3>1. CASE a = Worker!BadGateway
      BY <3>1, <1>4, WorkerAnswers DEF Worker!MayBeShell
    <3>2. CASE a \in answers /\ wire[i].kind = "shell"
      BY <3>2, <1>4, WorkerAnswers
    <3>3. CASE a \in answers /\ wire[i].kind = "fetch"
      BY <3>3, <1>4, WorkerAnswers
    <3>4. CASE a \in answers /\ wire[i].kind = "navigate"
      BY <3>4, <1>3, <1>4, WorkerAnswers DEF FetchSound
    <3>5. wire[i].kind \in {"shell", "fetch", "navigate"}
      BY <1>1, <1>3 DEF FetchSound
    <3> QED BY <1>2, <3>1, <3>2, <3>3, <3>4, <3>5
  <2>2. r.kind = wire[i].kind /\ r.arg = wire[i].arg /\ r.answer = {a}
    OBVIOUS
  <2> HIDE DEF r
  <2> QED BY <1>3, <2>1, <2>2 DEF AnswerSound, FetchSound
<1>6. /\ IsWire(wire') /\ Requests(wire') \subseteq Requests(wire) \cup {r} /\ One(wire', {"shell"})
  BY <1>2, OkRequests DEF WorkerInv, WorkerType
<1> HIDE DEF r
<1> QED BY <1>1, <1>5, <1>6 DEF WorkerInv, WorkerType, WorkersSound

LEMMA WorkerLoses ==
  ASSUME WorkerInv, NEW i \in DOMAIN wire, Worker!Lose(i) PROVE WorkerInv'
<1> DEFINE r == [kind |-> wire[i].kind, arg |-> wire[i].arg, is |-> "lost", answer |-> wire[i].answer]
<1>1. wire' = Settle(wire, i, "lost") /\ view' = view /\ world' = world
  BY WorkerWire DEF Worker!Lose
<1>2. wire[i] \in Requests(wire) /\ FetchSound(view, wire[i])
  BY DEF Requests, WorkerInv
<1>3. AnswerSound(r) /\ FetchSound(view, r)
  <2>1. r.kind = wire[i].kind /\ r.arg = wire[i].arg /\ r.is = "lost"
    OBVIOUS
  <2> HIDE DEF r
  <2> QED BY <1>2, <2>1 DEF AnswerSound, FetchSound
<1>4. /\ IsWire(wire') /\ Requests(wire') \subseteq Requests(wire) \cup {r} /\ One(wire', {"shell"})
  BY <1>1, SettleRequests DEF WorkerInv, WorkerType
<1> HIDE DEF r
<1> QED BY <1>1, <1>3, <1>4 DEF WorkerInv, WorkerType, WorkersSound

LEMMA WorkerDeployed ==
  ASSUME WorkerInv, NEW b \in Builds, NEW worker \in Worker!Workers, Worker!Deploy(b, worker)
  PROVE  WorkerInv'
<1>1. wire' = wire /\ view' = view /\ world' = [world EXCEPT !.build = b, !.worker = worker]
  BY DEF Worker!Deploy
<1>2. worker \in 1..2
  BY DEF Worker!Workers
<1> QED BY <1>1, <1>2 DEF WorkerInv, WorkerType, WorkersSound

LEMMA WorkerStep ==
  ASSUME WorkerInv, Worker!Next PROVE WorkerInv'
<1>1. ASSUME NEW i \in DOMAIN wire,
             \/ Worker!ReceiveShell(i) \/ Worker!ReceiveNavigation(i) \/ Worker!ReceiveAsset(i)
             \/ \E refused \in BOOLEAN : Worker!Put(i, refused)
             \/ Worker!Serve(i) \/ Worker!Lose(i)
      PROVE  WorkerInv'
  BY <1>1, WorkerInstalls, WorkerShows, WorkerKeepsAsset, WorkerPuts, WorkerServed, WorkerLoses
<1> QED BY <1>1, WorkerNavigates, WorkerDeployed, WorkerRegisters, WorkerActivates, WorkerFetches
        DEF Worker!Next

(* An installed app opens on a page of its own without a network.          *)
WorkerOnly == page = "worker" => WorkerInv

THEOREM SpecImpliesOfflineShowsTheApp == Spec => []OfflineShowsTheApp
<1>1. Init => WorkerOnly
  BY WorkerInit DEF Init, WorkerOnly
<1>2. WorkerOnly /\ [Next]_vars => WorkerOnly'
  <2>1. ASSUME WorkerOnly, Next, page' = "worker" PROVE WorkerInv'
    <3>1. page = "worker" /\ Worker!Next
      BY <2>1 DEF Next
    <3> QED BY <2>1, <3>1, WorkerStep DEF WorkerOnly
  <2>2. ASSUME WorkerOnly, UNCHANGED vars PROVE WorkerOnly'
    BY <2>2 DEF vars, WorkerOnly, WorkerInv, WorkerType, WorkersSound
  <2> QED BY <2>1, <2>2 DEF WorkerOnly
<1>3. WorkerOnly => OfflineShowsTheApp
  BY ShellIsTheApp DEF WorkerOnly, OfflineShowsTheApp, Worker!OfflineShowsTheApp, WorkerInv, WorkersSound
<1> QED BY <1>1, <1>2, <1>3, PTL DEF Spec

-----------------------------------------------------------------------------
(* The tables                                                              *)

LEMMA TableWire ==
  /\ \A w, k, a : Table!SendAgain(w, k, a) = SendAgain(w, k, a)
  /\ \A w, k : Table!Ignore(w, k) = Ignore(w, k)
  /\ \A w, K : Table!Only(w, K) = Only(w, K)
  /\ \A w, k, a : Table!Send(w, k, a) = Send(w, k, a)
  /\ \A k, a : Table!Call(k, a) = Call(k, a)
  /\ \A w, i, a : Table!Ok(w, i, a) = Ok(w, i, a)
  /\ \A w, i, s : Table!Settle(w, i, s) = Settle(w, i, s)
  /\ \A w, i : Table!Received(w, i) = Received(w, i)
  /\ \A w, K : Table!Out(w, K) = Out(w, K)
  /\ \A w : Table!Settled(w) = Settled(w)
  /\ \A w : Table!Waiting(w) = Waiting(w)
  /\ \A r : Table!Data(r) = Data(r)
<1>1. \A S : Table!Cardinality(S) = Cardinality(S)
  BY DEF Table!Cardinality, Cardinality
<1>2. \A S, n : Table!Place(S, n) = Place(S, n)
  BY DEF Table!Place, Place, Table!Cardinality, Cardinality
<1>3. \A w, S : Table!Sift(w, S) = Sift(w, S)
  BY <1>1, <1>2 DEF Table!Sift, Sift
<1>4. \A w, K : Table!Only(w, K) = Only(w, K)
  BY <1>3 DEF Table!Only, Only
<1>5. \A w, k : Table!Ignore(w, k) = Ignore(w, k)
  BY <1>3 DEF Table!Ignore, Ignore
<1>6. \A w, k, a : Table!SendAgain(w, k, a) = SendAgain(w, k, a)
  BY <1>5 DEF Table!SendAgain, Table!Send, Table!Call, SendAgain, Send, Call
<1>7. \A w, k, a : Table!Send(w, k, a) = Send(w, k, a)
  BY DEF Table!Send, Table!Call, Send, Call
<1>8. \A k, a : Table!Call(k, a) = Call(k, a)
  BY DEF Table!Call, Call
<1> QED BY <1>4, <1>5, <1>6, <1>7, <1>8
        DEF Table!Ok, Table!Settle, Table!Received, Table!Out, Table!Settled, Table!Waiting, Table!Data,
            Ok, Settle, Received, Out, Settled, Waiting, Data

TableFields == {"at", "kind", "roles", "url", "defaults", "rows", "total", "shown", "loading", "error",
                "failed", "options", "offered", "typed", "timer", "cloning", "told"}

TableType(v, d) ==
  /\ DOMAIN v = TableFields /\ DOMAIN d = {"rows", "households", "store"}
  /\ v.defaults["size"] \in 1..2 /\ ("size" \in DOMAIN v.url => v.url["size"] \in 1..2)
  /\ v.timer => "text" \in Table!FilterKeys(v.kind)
  /\ v.told \cap d.rows = {}

(* Picked: what a household or a person on the page can be set to.         *)
Picked(v, s) ==
  v.offered = "ok" =>
    \A k \in Table!FilterKeys(v.kind) \cap {"household", "person"} :
      /\ v.kind = "history" /\ ~v.roles.deputy => s[k] = Table!All
      /\ s[k] = Table!All \/ s[k] \in IF k = "household" THEN v.options.households ELSE v.options.members

(* The list on its way is the one for what is on screen, and has no row the*)
(* user was told is gone.                                                  *)
TableAsked(v, d, r) ==
  /\ r.is # "none"
  /\ r.kind = "rows" => r.arg = Table!deriveState(v)
  /\ r.kind = "rows" /\ r.is = "ok" => Data(r).query = r.arg /\ Data(r).items \cap v.told = {}
  /\ r.kind = "rows" /\ r.is = "invalid" => Table!Invalid(r.arg)
  /\ r.kind = "remove" /\ r.is = "ok" => r.arg \notin d.rows
  /\ r.kind = "refresh" => r.arg \notin d.rows

TableRests(v, store) ==
  /\ ~v.loading
  /\ v.error = "none" => v.shown = {Table!deriveState(v)} /\ v.rows \cap v.told = {}
  /\ v.error = "invalid" => store = {} /\ "sort" \in DOMAIN v.url /\ v.url["sort"] \notin Table!SortKeys

TableSound(v, w, d) ==
  /\ IsWire(w) /\ One(w, {"rows"}) /\ TableType(v, d) /\ Picked(v, Table!deriveState(v))
  /\ \A r \in Requests(w) : TableAsked(v, d, r)
  /\ ~Out(w, {"rows"}) => TableRests(v, d.store)

TableInv == view.at = "list" => TableSound(view, wire, world)


(* What the state of a table is made of.                                   *)
LEMMA TableKeys ==
  /\ \A kind : /\ "size" \in Table!SettingKeys(kind) /\ "sort" \in Table!SettingKeys(kind)
               /\ "page" \notin Table!SettingKeys(kind)
               /\ Table!FilterKeys(kind) \subseteq Table!SettingKeys(kind)
               /\ \A k \in Table!FilterKeys(kind) : k \notin {"page", "size", "sort"}
<1>1. ASSUME NEW kind PROVE Table!FilterKeys(kind) \subseteq {"household", "person", "text"}
  <2>1. CASE kind = "chores"
    BY <2>1 DEF Table!FilterKeys
  <2>2. CASE kind \in {"history", "logs"}
    BY <2>2 DEF Table!FilterKeys
  <2>3. CASE kind = "tags"
    BY <2>3 DEF Table!FilterKeys
  <2>4. CASE kind # "chores" /\ kind \notin {"history", "logs"} /\ kind # "tags"
    BY <2>4 DEF Table!FilterKeys
  <2> QED BY <2>1, <2>2, <2>3, <2>4
<1> QED BY <1>1 DEF Table!SettingKeys

LEMMA TableDerives ==
  ASSUME NEW v
  PROVE  /\ DOMAIN Table!deriveState(v) = {"page"} \cup Table!SettingKeys(v.kind)
         /\ \A k \in {"page"} \cup Table!SettingKeys(v.kind) :
              Table!deriveState(v)[k] = IF k \in DOMAIN v.url THEN v.url[k]
                                        ELSE IF k = "page" THEN 1 ELSE v.defaults[k]
BY DEF Table!deriveState

(* A page shows what was set on it, whatever is left out of the URL.       *)
LEMMA TableRoundTrip ==
  ASSUME NEW v, NEW u, NEW s, s = [k \in {"page"} \cup Table!SettingKeys(u.kind) |-> s[k]],
         v.kind = u.kind, v.defaults = u.defaults, v.url = Table!applyOwnedParams(u, s)
  PROVE  Table!deriveState(v) = s
<1> DEFINE K == {"page"} \cup Table!SettingKeys(u.kind)
<1>1. DOMAIN s = K
  OBVIOUS
<1>2. /\ DOMAIN v.url = {k \in K : s[k] # IF k = "page" THEN 1 ELSE u.defaults[k]}
      /\ \A k \in DOMAIN v.url : v.url[k] = s[k]
  BY <1>1 DEF Table!applyOwnedParams
<1>3. /\ Table!deriveState(v) = [k \in K |-> Table!deriveState(v)[k]]
      /\ \A k \in K : Table!deriveState(v)[k] = IF k \in DOMAIN v.url THEN v.url[k]
                                        ELSE IF k = "page" THEN 1 ELSE v.defaults[k]
  BY DEF Table!deriveState
<1> HIDE DEF K
<1>4. \A k \in K : Table!deriveState(v)[k] = s[k]
  BY <1>2, <1>3
<1>5. [k \in K |-> Table!deriveState(v)[k]] = [k \in K |-> s[k]]
  BY <1>4
<1>6. s = [k \in K |-> s[k]]
  BY DEF K
<1> QED BY <1>3, <1>5, <1>6

LEMMA TableSame ==
  ASSUME NEW v, NEW u, v.kind = u.kind, v.defaults = u.defaults, v.url = u.url
  PROVE  Table!deriveState(v) = Table!deriveState(u)
BY DEF Table!deriveState

LEMMA TableSizes ==
  ASSUME NEW v, NEW d, TableType(v, d)
  PROVE  Table!deriveState(v)["size"] \in 1..2
BY TableDerives, TableKeys DEF TableType

(* Every change of the page, with its effects: the list is asked for again,*)
(* or it is the same list.                                                 *)
LEMMA TableCommits ==
  ASSUME TableSound(view, wire, world), NEW v, NEW w, NEW again \in BOOLEAN, NEW store,
         Table!Committed(v, w, again, store),
         IsWire(w), One(w, {"rows"}),
         \A r \in Requests(w) : IF r.kind = "rows" THEN r \in Requests(wire) ELSE TableAsked(v, world, r),
         TableType(v, world), v.kind = view.kind, Picked(v, Table!deriveState(v)),
         v.told = view.told \/ again = TRUE,
         ~again /\ Table!deriveState(v) = Table!deriveState(view) /\ ~Out(w, {"rows"}) => TableRests(v, store)
  PROVE  TableSound(view', wire', world')
<1>1. /\ view' = v /\ wire' = Table!Fetched(v, w, again)
      /\ world' = [world EXCEPT !.store = Table!Remembered(v, store)]
  BY DEF Table!Committed
<1>2. DOMAIN world' = DOMAIN world /\ world'.rows = world.rows /\ world'.store = Table!Remembered(v, store)
  BY <1>1 DEF TableType
<1>3. TableType(view', world') /\ Picked(view', Table!deriveState(view'))
  BY <1>1, <1>2 DEF TableType
<1>4. \A r : TableAsked(v, world, r) => TableAsked(view', world', r)
  BY <1>1, <1>2 DEF TableAsked
<1>5. CASE again \/ Table!deriveState(v) # Table!deriveState(view)
  <2> DEFINE c == Call("rows", Table!deriveState(v))
  <2>1. wire' = SendAgain(w, "rows", Table!deriveState(v))
    BY <1>1, <1>5, TableWire DEF Table!Fetched, Table!toApiQuery
  <2>2. /\ IsWire(wire') /\ Requests(wire') = {r \in Requests(w) : r.kind # "rows"} \cup {c}
        /\ Out(wire', {"rows"}) /\ (~Out(w, {"rows"} \ {"rows"}) => One(wire', {"rows"}))
    BY <2>1, SendAgainRequests
  <2>3. ~Out(w, {"rows"} \ {"rows"})
    BY DEF Out
  <2>4. TableAsked(view', world', c)
    BY <1>1, CallFields DEF TableAsked
  <2>5. \A r \in Requests(wire') : TableAsked(view', world', r)
    BY <2>2, <2>4, <1>4
  <2> QED BY <1>3, <2>2, <2>3, <2>5 DEF TableSound
<1>6. CASE ~again /\ Table!deriveState(v) = Table!deriveState(view)
  <2>1. wire' = w
    BY <1>1, <1>6, TableWire DEF Table!Fetched, Table!toApiQuery
  <2>2. Table!settingsJson(v) = Table!settingsJson(view)
    BY <1>6 DEF Table!settingsJson
  <2>3. world'.store = store
    BY <1>2, <2>2 DEF Table!Remembered
  <2>4. ASSUME NEW r \in Requests(w) PROVE TableAsked(view', world', r)
    <3>1. CASE r.kind # "rows"
      BY <3>1, <1>4
    <3>2. CASE r.kind = "rows"
      <4>1. TableAsked(view, world, r)
        BY <3>2 DEF TableSound
      <4> QED BY <4>1, <3>2, <1>1, <1>2, <1>6 DEF TableAsked
    <3> QED BY <3>1, <3>2
  <2>5. ~Out(wire', {"rows"}) => TableRests(view', world'.store)
    BY <2>1, <2>3, <1>1, <1>6
  <2> QED BY <1>3, <2>1, <2>4, <2>5 DEF TableSound
<1> QED BY <1>5, <1>6

(* A change of nothing the list is made of.                                *)
LEMMA TableTouches ==
  ASSUME TableSound(view, wire, world), NEW v, NEW w, Table!Committed(v, w, FALSE, world.store),
         IsWire(w), One(w, {"rows"}), Out(wire, {"rows"}) => Out(w, {"rows"}),
         \A r \in Requests(w) : r \in Requests(wire) \/ (r.kind # "rows" /\ TableAsked(view, world, r)),
         DOMAIN v = TableFields, v.timer => view.timer,
         v.kind = view.kind, v.roles = view.roles, v.url = view.url, v.defaults = view.defaults,
         v.rows = view.rows, v.shown = view.shown, v.loading = view.loading, v.error = view.error,
         v.told = view.told, Picked(v, Table!deriveState(view))
  PROVE  TableSound(view', wire', world')
<1>1. Table!deriveState(v) = Table!deriveState(view)
  BY TableSame
<1>2. TableType(v, world)
  BY DEF TableSound, TableType
<1>3. ~Out(w, {"rows"}) => TableRests(v, world.store)
  BY <1>1 DEF TableSound, TableRests
<1>4. \A r \in Requests(w) : IF r.kind = "rows" THEN r \in Requests(wire) ELSE TableAsked(v, world, r)
  BY DEF TableSound, TableAsked
<1> QED BY <1>1, <1>2, <1>3, <1>4, TableCommits

(* A setter that changes something.                                        *)
LEMMA TableMutates ==
  ASSUME TableSound(view, wire, world), NEW u, NEW s, NEW w,
         Table!Committed(Table!mutate(u, s), w, FALSE, world.store),
         IsWire(w), One(w, {"rows"}), Requests(w) \subseteq Requests(wire),
         s = [k \in {"page"} \cup Table!SettingKeys(view.kind) |-> s[k]],
         s # Table!deriveState(view), s["size"] \in 1..2, Picked(u, s),
         DOMAIN u = TableFields, u.timer => view.timer, u.kind = view.kind, u.defaults = view.defaults,
         u.told = view.told
  PROVE  TableSound(view', wire', world')
<1> DEFINE v == Table!mutate(u, s)
<1>1. /\ DOMAIN v = TableFields /\ v.loading = TRUE /\ v.error = "none"
      /\ v.url = Table!applyOwnedParams(u, s) /\ v.kind = view.kind /\ v.defaults = view.defaults
      /\ v.told = view.told /\ v.timer = u.timer
      /\ v.offered = u.offered /\ v.options = u.options /\ v.roles = u.roles
  BY DEF Table!mutate, TableFields
<1> HIDE DEF v
<1>2. Table!deriveState(v) = s
  BY <1>1, TableRoundTrip
<1>3. DOMAIN s = {"page"} \cup Table!SettingKeys(view.kind)
  OBVIOUS
<1>4. "size" \in DOMAIN v.url => v.url["size"] = s["size"]
  BY <1>1, <1>3 DEF Table!applyOwnedParams
<1>5. TableType(v, world)
  BY <1>1, <1>4 DEF TableSound, TableType
<1>6. Picked(v, Table!deriveState(v))
  BY <1>1, <1>2 DEF Picked
<1>7. \A r \in Requests(w) : IF r.kind = "rows" THEN r \in Requests(wire) ELSE TableAsked(v, world, r)
  BY DEF TableSound, TableAsked
<1>8. Table!Committed(v, w, FALSE, world.store)
  BY DEF v
<1> QED BY <1>1, <1>2, <1>5, <1>6, <1>7, <1>8, TableCommits


(* The server.                                                             *)
LEMMA TableServed ==
  ASSUME TableSound(view, wire, world), NEW i \in DOMAIN wire, NEW r, Becomes(wire', wire, i, r),
         view' = view, DOMAIN world' = DOMAIN world, world'.rows \subseteq world.rows,
         world'.store = world.store, TableAsked(view, world', r)
  PROVE  TableSound(view', wire', world')
<1>1. /\ IsWire(wire') /\ One(wire', {"rows"}) /\ Requests(wire') \subseteq Requests(wire) \cup {r}
      /\ Out(wire', {"rows"}) <=> Out(wire, {"rows"})
  BY DEF Becomes, TableSound
<1>2. TableType(view', world')
  BY DEF TableSound, TableType
<1>3. \A q \in Requests(wire) : TableAsked(view', world', q)
  BY DEF TableSound, TableAsked
<1>4. TableAsked(view', world', r) /\ Picked(view', Table!deriveState(view'))
  BY DEF TableSound
<1>5. ~Out(wire', {"rows"}) => TableRests(view', world'.store)
  BY <1>1 DEF TableSound
<1> QED BY <1>1, <1>2, <1>3, <1>4, <1>5 DEF TableSound

LEMMA TableServesRows ==
  ASSUME TableSound(view, wire, world), NEW i \in DOMAIN wire, Table!ServeRows(i)
  PROVE  TableSound(view', wire', world')
<1> DEFINE q == wire[i].arg
           list == Table!ListOf(q)
<1>1. wire[i].kind = "rows" /\ view' = view /\ world' = world
  BY DEF Table!ServeRows
<1>2. TableAsked(view, world, wire[i]) /\ TableType(view, world) /\ IsWire(wire)
  BY DEF TableSound, Requests
<1>3. list.query = q /\ list.items \subseteq world.rows
  BY DEF Table!ListOf, Table!Matching
<1> HIDE DEF list
<1>4. \/ Table!Invalid(q) /\ wire' = Settle(wire, i, "invalid")
      \/ wire' = Settle(wire, i, "refused")
      \/ wire' = Ok(wire, i, list)
  BY TableWire DEF Table!ServeRows, list
<1>5. ASSUME NEW s \in {"invalid", "refused"}, s = "invalid" => Table!Invalid(q), wire' = Settle(wire, i, s)
      PROVE  TableSound(view', wire', world')
  <2>1. PICK r : r.kind = "rows" /\ r.arg = q /\ r.is = s /\ Becomes(wire', wire, i, r)
    BY <1>1, <1>2, <1>5, SettleRequest
  <2>2. TableAsked(view, world', r)
    BY <1>1, <1>2, <1>5, <2>1 DEF TableAsked
  <2> QED BY <1>1, <2>1, <2>2, TableServed
<1>6. CASE wire' = Ok(wire, i, list)
  <2>1. PICK r : r.kind = "rows" /\ r.arg = q /\ r.is = "ok" /\ r.answer = {list} /\ Becomes(wire', wire, i, r)
    BY <1>1, <1>2, <1>6, OkRequest
  <2>2. Data(r) = list
    BY <2>1, DataAnswered
  <2>3. TableAsked(view, world', r)
    BY <1>1, <1>2, <1>3, <2>1, <2>2 DEF TableAsked, TableType
  <2> QED BY <1>1, <2>1, <2>3, TableServed
<1> QED BY <1>4, <1>5, <1>6

LEMMA TableServesRest ==
  ASSUME TableSound(view, wire, world), NEW i \in DOMAIN wire,
         Table!ServeOptions(i) \/ Table!ServeOther(i) \/ Table!Lose(i)
  PROVE  TableSound(view', wire', world')
<1>1. /\ view' = view /\ world' = world
      /\ \/ \E s \in {"lost", "refused"} : wire' = Settle(wire, i, s)
         \/ wire[i].kind \in {"options", "refresh", "clone"} /\ \E a : wire' = Ok(wire, i, a)
  BY TableWire DEF Table!ServeOptions, Table!ServeOther, Table!Lose
<1>2. TableAsked(view, world, wire[i]) /\ IsWire(wire)
  BY DEF TableSound, Requests
<1>3. ASSUME NEW s \in {"lost", "refused"}, wire' = Settle(wire, i, s)
      PROVE  TableSound(view', wire', world')
  <2>1. PICK r : r.kind = wire[i].kind /\ r.arg = wire[i].arg /\ r.is = s /\ Becomes(wire', wire, i, r)
    BY <1>2, <1>3, SettleRequest
  <2>2. TableAsked(view, world', r)
    BY <1>1, <1>2, <1>3, <2>1 DEF TableAsked
  <2> QED BY <1>1, <2>1, <2>2, TableServed
<1>4. ASSUME wire[i].kind \in {"options", "refresh", "clone"}, NEW a, wire' = Ok(wire, i, a)
      PROVE  TableSound(view', wire', world')
  <2>1. PICK r : r.kind = wire[i].kind /\ r.arg = wire[i].arg /\ r.is = "ok" /\ Becomes(wire', wire, i, r)
    BY <1>2, <1>4, OkRequest
  <2>2. TableAsked(view, world', r)
    BY <1>1, <1>2, <1>4, <2>1 DEF TableAsked
  <2> QED BY <1>1, <2>1, <2>2, TableServed
<1> QED BY <1>1, <1>3, <1>4

LEMMA TableServesRemove ==
  ASSUME TableSound(view, wire, world), NEW i \in DOMAIN wire, Table!ServeRemove(i)
  PROVE  TableSound(view', wire', world')
<1>1. /\ wire[i].kind = "remove" /\ view' = view
      /\ world' = [world EXCEPT !.rows = @ \ {wire[i].arg}]
      /\ wire' = Ok(wire, i, TRUE) \/ wire' = Settle(wire, i, "refused")
  BY TableWire DEF Table!ServeRemove
<1>2. TableAsked(view, world, wire[i]) /\ TableType(view, world) /\ IsWire(wire)
  BY DEF TableSound, Requests
<1>3. /\ DOMAIN world' = DOMAIN world /\ world'.rows = world.rows \ {wire[i].arg}
      /\ world'.store = world.store
  BY <1>1, <1>2 DEF TableType
<1>4. PICK r : r.kind = "remove" /\ r.arg = wire[i].arg /\ r.is \in {"ok", "refused"} /\ Becomes(wire', wire, i, r)
  <2>1. CASE wire' = Ok(wire, i, TRUE)
    BY <2>1, <1>1, <1>2, OkRequest
  <2>2. CASE wire' = Settle(wire, i, "refused")
    BY <2>2, <1>1, <1>2, SettleRequest
  <2> QED BY <1>1, <2>1, <2>2
<1>5. TableAsked(view, world', r)
  BY <1>3, <1>4 DEF TableAsked
<1> QED BY <1>1, <1>3, <1>4, <1>5, TableServed

(* Answers.                                                                *)
LEMMA TableReceived ==
  ASSUME TableSound(view, wire, world), NEW i \in DOMAIN wire, NEW w, w = Received(wire, i)
  PROVE  /\ IsWire(w) /\ One(w, {"rows"}) /\ Requests(w) \subseteq Requests(wire)
         /\ TableAsked(view, world, wire[i]) /\ wire[i] \in Requests(wire)
         /\ wire[i].kind # "rows" /\ Out(wire, {"rows"}) => Out(w, {"rows"})
         /\ \A r \in Requests(w) : IF r.kind = "rows" THEN r \in Requests(wire) ELSE TableAsked(view, world, r)
<1>1. IsWire(wire) /\ One(wire, {"rows"}) /\ \A r \in Requests(wire) : TableAsked(view, world, r)
  BY DEF TableSound
<1>2. wire[i] \in Requests(wire)
  BY DEF Requests
<1>3. /\ IsWire(w) /\ One(w, {"rows"}) /\ Requests(w) \subseteq Requests(wire)
      /\ Out(wire, {"rows"}) /\ wire[i].kind \notin {"rows"} => Out(w, {"rows"})
  BY <1>1, ReceivedRequests
<1> QED BY <1>1, <1>2, <1>3

LEMMA TableReceivesRows ==
  ASSUME TableSound(view, wire, world), NEW i \in DOMAIN wire, Table!ReceiveRows(i)
  PROVE  TableSound(view', wire', world')
<1> DEFINE r == wire[i]
           w == Received(wire, i)
           u == [view EXCEPT !.loading = FALSE]
           now == Table!deriveState(view)
<1>1. /\ IsWire(w) /\ One(w, {"rows"}) /\ Requests(w) \subseteq Requests(wire) /\ TableAsked(view, world, r)
  BY TableReceived
<1>2. r.kind = "rows" /\ r.is # "sent"
  BY TableWire DEF Table!ReceiveRows, Settled
<1>3. TableType(view, world) /\ Picked(view, now)
  BY DEF TableSound
<1>4. /\ DOMAIN u = TableFields /\ u.loading = FALSE /\ u.kind = view.kind /\ u.url = view.url
      /\ u.defaults = view.defaults /\ u.told = view.told /\ u.timer = view.timer
      /\ u.offered = view.offered /\ u.options = view.options /\ u.roles = view.roles
  BY <1>3 DEF TableType, TableFields
<1>5. \/ /\ r.is = "ok"
         /\ Table!Committed([u EXCEPT !.rows = Data(r).items, !.total = Data(r).total,
                                      !.shown = {Data(r).query}, !.error = "none"], w, FALSE, world.store)
      \/ r.is = "invalid" /\ Table!Committed(Table!Healed([u EXCEPT !.error = "invalid"]), w, FALSE, {})
      \/ /\ r.is # "ok" /\ r.is # "invalid"
         /\ Table!Committed([u EXCEPT !.error = r.is], w, FALSE, world.store)
  <2>1. CASE r.is = "ok"
    BY <2>1, TableWire DEF Table!ReceiveRows
  <2>2. CASE r.is = "invalid"
    BY <2>2, TableWire DEF Table!ReceiveRows
  <2>3. CASE r.is # "ok" /\ r.is # "invalid"
    BY <2>3, TableWire DEF Table!ReceiveRows
  <2> QED BY <2>1, <2>2, <2>3
<1> HIDE DEF w, u
<1>6. \A q \in Requests(w) : q \in Requests(wire) /\ TableAsked(view, world, q)
  BY <1>1 DEF TableSound
<1>7. CASE /\ r.is = "ok"
           /\ Table!Committed([u EXCEPT !.rows = Data(r).items, !.total = Data(r).total,
                                      !.shown = {Data(r).query}, !.error = "none"], w, FALSE, world.store)
  <2>1. PICK v : v = [u EXCEPT !.rows = Data(r).items, !.total = Data(r).total,
                               !.shown = {Data(r).query}, !.error = "none"]
    OBVIOUS
  <2>2. /\ DOMAIN v = TableFields /\ v.loading = FALSE /\ v.kind = view.kind /\ v.url = view.url
        /\ v.defaults = view.defaults /\ v.told = view.told /\ v.timer = view.timer
        /\ v.offered = view.offered /\ v.options = view.options /\ v.roles = view.roles
        /\ v.rows = Data(r).items /\ v.shown = {Data(r).query} /\ v.error = "none"
    BY <1>4, <2>1 DEF TableFields
  <2>3. Table!deriveState(v) = now
    BY <2>2, TableSame
  <2>4. TableType(v, world) /\ Picked(v, now)
    BY <1>3, <2>2 DEF TableType, Picked
  <2>5. TableRests(v, world.store)
    BY <1>1, <1>2, <1>7, <2>2, <2>3 DEF TableRests, TableAsked
  <2>6. \A q \in Requests(w) : IF q.kind = "rows" THEN q \in Requests(wire) ELSE TableAsked(v, world, q)
    BY <1>6 DEF TableAsked
  <2>7. Table!Committed(v, w, FALSE, world.store)
    BY <1>7, <2>1
  <2> QED BY <1>1, <2>2, <2>3, <2>4, <2>5, <2>6, <2>7, TableCommits
<1>8. CASE r.is = "invalid" /\ Table!Committed(Table!Healed([u EXCEPT !.error = "invalid"]), w, FALSE, {})
  <2>1. PICK x : x = [u EXCEPT !.error = "invalid"]
    OBVIOUS
  <2>2. PICK v : v = [x EXCEPT !.defaults = Table!pageDefaults(x.kind)]
    OBVIOUS
  <2>3. /\ DOMAIN x = TableFields /\ x.loading = FALSE /\ x.kind = view.kind /\ x.url = view.url
        /\ x.told = view.told /\ x.timer = view.timer
        /\ x.offered = view.offered /\ x.options = view.options /\ x.roles = view.roles
        /\ x.error = "invalid"
    BY <1>4, <2>1 DEF TableFields
  <2>4. /\ DOMAIN v = TableFields /\ v.loading = FALSE /\ v.kind = view.kind /\ v.url = view.url
        /\ v.defaults = Table!pageDefaults(view.kind) /\ v.told = view.told /\ v.timer = view.timer
        /\ v.offered = view.offered /\ v.options = view.options /\ v.roles = view.roles
        /\ v.error = "invalid"
    BY <2>2, <2>3 DEF TableFields
  <2>5. \A k \in Table!SettingKeys(view.kind) :
          v.defaults[k] = IF k \in {"size", "sort"} THEN 1 ELSE Table!All
    BY <2>4 DEF Table!pageDefaults
  <2>6. TableType(v, world)
    BY <1>3, <2>4, <2>5, TableKeys DEF TableType
  <2>7. Picked(v, Table!deriveState(v))
    <3>1. ASSUME NEW k \in Table!FilterKeys(view.kind)
          PROVE  Table!deriveState(v)[k] = Table!All \/ Table!deriveState(v)[k] = now[k]
      <4>1. k \in Table!SettingKeys(view.kind) /\ k \notin {"page", "size", "sort"}
        BY TableKeys
      <4>2. /\ Table!deriveState(v)[k] = IF k \in DOMAIN view.url THEN view.url[k] ELSE v.defaults[k]
            /\ now[k] = IF k \in DOMAIN view.url THEN view.url[k] ELSE view.defaults[k]
        BY <4>1, <2>4, TableDerives
      <4> HIDE DEF now
      <4> QED BY <4>1, <4>2, <2>5
    <3> HIDE DEF now
    <3> QED BY <1>3, <2>4, <3>1 DEF Picked
  <2>8. ASSUME Table!deriveState(v) = now PROVE TableRests(v, {})
    <3>1. Table!Invalid(now)
      BY <1>1, <1>2, <1>8 DEF TableAsked
    <3>2. now["size"] \in 1..2
      BY <1>3, TableSizes
    <3>3. now["sort"] \notin Table!SortKeys
      <4>1. ~(now["size"] > 2)
        BY <3>2
      <4> QED BY <3>1, <4>1 DEF Table!Invalid, Table!MAX_PAGE_SIZE
    <3>4. Table!deriveState(v)["sort"] = IF "sort" \in DOMAIN v.url THEN v.url["sort"] ELSE v.defaults["sort"]
      BY <2>4, TableDerives, TableKeys
    <3>5. v.defaults["sort"] = 1
      BY <2>5, TableKeys
    <3>6. "sort" \in DOMAIN v.url /\ v.url["sort"] \notin Table!SortKeys
      BY <2>8, <3>3, <3>4, <3>5 DEF Table!SortKeys
    <3> QED BY <2>4, <3>6 DEF TableRests
  <2>9. \A q \in Requests(w) : IF q.kind = "rows" THEN q \in Requests(wire) ELSE TableAsked(v, world, q)
    BY <1>6 DEF TableAsked
  <2>10. Table!Committed(v, w, FALSE, {})
    BY <1>8, <2>1, <2>2 DEF Table!Healed
  <2> HIDE DEF now
  <2> QED BY <1>1, <2>4, <2>6, <2>7, <2>8, <2>9, <2>10, TableCommits DEF now
<1>9. CASE /\ r.is # "ok" /\ r.is # "invalid"
           /\ Table!Committed([u EXCEPT !.error = r.is], w, FALSE, world.store)
  <2>1. PICK v : v = [u EXCEPT !.error = r.is]
    OBVIOUS
  <2>2. /\ DOMAIN v = TableFields /\ v.loading = FALSE /\ v.kind = view.kind /\ v.url = view.url
        /\ v.defaults = view.defaults /\ v.told = view.told /\ v.timer = view.timer
        /\ v.offered = view.offered /\ v.options = view.options /\ v.roles = view.roles
        /\ v.error = r.is
    BY <1>4, <2>1 DEF TableFields
  <2>3. Table!deriveState(v) = now
    BY <2>2, TableSame
  <2>4. TableType(v, world) /\ Picked(v, now)
    BY <1>3, <2>2 DEF TableType, Picked
  <2>5. TableRests(v, world.store)
    BY <1>1, <1>9, <2>2 DEF TableRests, TableAsked
  <2>6. \A q \in Requests(w) : IF q.kind = "rows" THEN q \in Requests(wire) ELSE TableAsked(v, world, q)
    BY <1>6 DEF TableAsked
  <2>7. Table!Committed(v, w, FALSE, world.store)
    BY <1>9, <2>1
  <2> QED BY <1>1, <2>2, <2>3, <2>4, <2>5, <2>6, <2>7, TableCommits
<1> QED BY <1>5, <1>7, <1>8, <1>9

(* The filters that cannot be picked any more are dropped.                 *)
LEMMA TablePrunes ==
  ASSUME NEW v, NEW r, NEW now, now = Table!deriveState(v),
         v.offered = "ok" => r.is = "ok" /\ v.options = [households |-> Table!OfferedHouseholds(v, Data(r)),
                                                        members |-> Data(r).members]
  PROVE  LET patch == Table!Prune(v, r) IN
         /\ DOMAIN patch \subseteq Table!FilterKeys(v.kind) /\ \A k \in DOMAIN patch : patch[k] = Table!All
         /\ \A s : (\A k \in Table!FilterKeys(v.kind) : s[k] = IF k \in DOMAIN patch THEN Table!All ELSE now[k])
                   => Picked(v, s)
<1> DEFINE F == Table!FilterKeys(v.kind)
           patch == Table!Prune(v, r)
           gone == Table!Unoffered(v, Data(r))
<1>1. \A K : Table!Dead(v, K) = [k \in {k \in K : now[k] # Table!All} |-> Table!All]
  BY DEF Table!Dead
<1>2. /\ patch = Table!Dead(v, F) \/ patch = Table!Dead(v, {}) \/ (r.is = "ok" /\ patch = Table!Dead(v, gone))
      /\ r.is = "ok" => patch = IF v.kind = "history" /\ ~v.roles.deputy
                               THEN Table!Dead(v, F) ELSE Table!Dead(v, gone)
  BY TableWire DEF Table!Prune, Table!Prune_History
<1>3. gone \subseteq F
  BY DEF Table!Unoffered
<1>4. \A k \in F \ gone : /\ k = "household" => now[k] \in Table!OfferedHouseholds(v, Data(r))
                          /\ k = "person" => now[k] \in Data(r).members
  BY DEF Table!Unoffered
<1> HIDE DEF patch, F, gone
<1>5. DOMAIN patch \subseteq F /\ \A k \in DOMAIN patch : patch[k] = Table!All
  <2>1. ASSUME NEW K
        PROVE  /\ DOMAIN Table!Dead(v, K) \subseteq K
               /\ \A k \in DOMAIN Table!Dead(v, K) : Table!Dead(v, K)[k] = Table!All
    <3>1. PICK f, S : f = Table!Dead(v, K) /\ S \subseteq K /\ f = [k \in S |-> Table!All]
      BY <1>1
    <3>2. DOMAIN f \subseteq K /\ \A k \in DOMAIN f : f[k] = Table!All
      BY <3>1
    <3> QED BY <3>1, <3>2
  <2> QED BY <1>2, <1>3, <2>1
<1>6. ASSUME NEW s, \A k \in F : s[k] = IF k \in DOMAIN patch THEN Table!All ELSE now[k], v.offered = "ok",
             NEW k \in F \cap {"household", "person"}
      PROVE  /\ v.kind = "history" /\ ~v.roles.deputy => s[k] = Table!All
             /\ s[k] = Table!All \/ s[k] \in IF k = "household" THEN v.options.households ELSE v.options.members
  <2>1. CASE v.kind = "history" /\ ~v.roles.deputy
    <3>1. DOMAIN patch = {x \in F : now[x] # Table!All}
      BY <2>1, <1>1, <1>2, <1>6
    <3>2. s[k] = Table!All
      BY <3>1, <1>6
    <3> QED BY <3>2
  <2>2. CASE ~(v.kind = "history" /\ ~v.roles.deputy)
    <3>1. DOMAIN patch = {x \in gone : now[x] # Table!All}
      BY <2>2, <1>1, <1>2, <1>6
    <3>2. s[k] = Table!All \/ (s[k] = now[k] /\ k \notin gone)
      BY <3>1, <1>6
    <3>3. /\ v.options.households = Table!OfferedHouseholds(v, Data(r))
          /\ v.options.members = Data(r).members
      BY <1>6
    <3>4. k = "household" \/ k = "person"
      BY <1>6
    <3>5. s[k] = Table!All \/ s[k] \in IF k = "household" THEN v.options.households ELSE v.options.members
      BY <3>2, <3>3, <3>4, <1>4
    <3> QED BY <3>5, <2>2
  <2> QED BY <2>1, <2>2
<1>7. \A s : (\A k \in F : s[k] = IF k \in DOMAIN patch THEN Table!All ELSE now[k]) => Picked(v, s)
  BY <1>6 DEF Picked, F
<1> QED BY <1>5, <1>7 DEF patch, F

LEMMA TableReceivesOptions ==
  ASSUME TableSound(view, wire, world), NEW i \in DOMAIN wire, Table!ReceiveOptions(i)
  PROVE  TableSound(view', wire', world')
<1> DEFINE r == wire[i]
           w == Received(wire, i)
           offers == IF r.is = "ok" THEN [households |-> Table!OfferedHouseholds(view, Data(r)),
                                          members |-> Data(r).members]
                     ELSE Table!NoOptions
           v == [view EXCEPT !.options = offers, !.offered = IF r.is = "ok" THEN "ok" ELSE "failed"]
           now == Table!deriveState(view)
           F == Table!FilterKeys(view.kind)
           patch == Table!Prune(v, r)
           s == [k \in {"page"} \cup Table!SettingKeys(view.kind) |->
                   IF k \in DOMAIN patch THEN patch[k] ELSE IF k = "page" THEN 1 ELSE now[k]]
<1>1. /\ r.kind = "options"
      /\ Table!Committed(Table!setFilters(v, patch), w, FALSE, world.store)
  BY TableWire DEF Table!ReceiveOptions
<1>2. /\ IsWire(w) /\ One(w, {"rows"}) /\ Requests(w) \subseteq Requests(wire)
      /\ Out(wire, {"rows"}) => Out(w, {"rows"})
  BY <1>1, TableReceived
<1>3. TableType(view, world)
  BY DEF TableSound
<1>4. /\ DOMAIN v = TableFields /\ v.kind = view.kind /\ v.roles = view.roles /\ v.url = view.url
      /\ v.defaults = view.defaults /\ v.timer = view.timer /\ v.options = offers
      /\ v.rows = view.rows /\ v.shown = view.shown /\ v.loading = view.loading /\ v.error = view.error
      /\ v.told = view.told /\ v.offered = IF r.is = "ok" THEN "ok" ELSE "failed"
  BY <1>3 DEF TableType, TableFields
<1> HIDE DEF v, w
<1>5. Table!deriveState(v) = now
  BY <1>4, TableSame
<1>6. v.offered = "ok" => r.is = "ok" /\ v.options = [households |-> Table!OfferedHouseholds(v, Data(r)),
                                                     members |-> Data(r).members]
  <2>1. Table!OfferedHouseholds(v, Data(r)) = Table!OfferedHouseholds(view, Data(r))
    BY <1>4 DEF Table!OfferedHouseholds, Table!Offered_Chores, Table!Offered_Tags, Table!Offered_Logs
  <2> QED BY <2>1, <1>4
<1>7. /\ DOMAIN patch \subseteq F /\ \A k \in DOMAIN patch : patch[k] = Table!All
      /\ \A x : (\A k \in F : x[k] = IF k \in DOMAIN patch THEN Table!All ELSE now[k]) => Picked(v, x)
  BY <1>4, <1>5, <1>6, TablePrunes
<1>8. DOMAIN now = {"page"} \cup Table!SettingKeys(view.kind) /\ now["size"] \in 1..2
  BY <1>3, TableDerives, TableSizes
<1>9. Table!setFilters(v, patch) = IF \A k \in DOMAIN patch : now[k] = patch[k]
                                   THEN v ELSE Table!mutate(v, s)
  BY <1>5, <1>8 DEF Table!setFilters
<1>10. /\ F \subseteq {"page"} \cup Table!SettingKeys(view.kind) /\ "size" \in Table!SettingKeys(view.kind)
       /\ \A k \in F : k \notin {"page", "size", "sort"}
  BY TableKeys
<1>11. /\ \A k \in F : s[k] = IF k \in DOMAIN patch THEN Table!All ELSE now[k]
       /\ s["size"] = now["size"]
  <2> HIDE DEF patch, now, F
  <2>1. "size" \notin DOMAIN patch
    BY <1>7, <1>10
  <2> QED BY <2>1, <1>7, <1>10
<1>12. s = [k \in {"page"} \cup Table!SettingKeys(view.kind) |-> s[k]]
  OBVIOUS
<1>13. (\E k \in DOMAIN patch : now[k] # patch[k]) => s # now
  <2> HIDE DEF patch, now, F, s
  <2> QED BY <1>7, <1>11
<1> HIDE DEF patch, s, F, now, offers
<1>14. CASE \A k \in DOMAIN patch : now[k] = patch[k]
  <2>1. Picked(v, now)
    BY <1>7, <1>14
  <2>2. Table!Committed(v, w, FALSE, world.store)
    BY <1>1, <1>9, <1>14
  <2> QED BY <1>2, <1>4, <2>1, <2>2, TableTouches DEF now
<1>15. CASE \E k \in DOMAIN patch : now[k] # patch[k]
  <2>1. Picked(v, s)
    BY <1>7, <1>11
  <2>2. Table!Committed(Table!mutate(v, s), w, FALSE, world.store)
    BY <1>1, <1>9, <1>15
  <2>3. s # now /\ s["size"] \in 1..2
    BY <1>8, <1>11, <1>13, <1>15
  <2> QED BY <1>2, <1>4, <1>12, <2>1, <2>2, <2>3, TableMutates DEF now
<1> QED BY <1>14, <1>15

(* Removals and clones.                                                    *)
LEMMA TableRemoves ==
  ASSUME TableSound(view, wire, world), NEW w, IsWire(w), One(w, {"rows"}), NEW row, row \notin world.rows,
         \A r \in Requests(w) : IF r.kind = "rows" THEN r \in Requests(wire) ELSE TableAsked(view, world, r),
         Table!Removed(view, w, row)
  PROVE  TableSound(view', wire', world')
<1> DEFINE u == [view EXCEPT !.told = @ \cup {row}]
           v == [u EXCEPT !.loading = TRUE, !.error = "none"]
<1>1. TableType(view, world) /\ Picked(view, Table!deriveState(view))
  BY DEF TableSound
<1>2. /\ DOMAIN u = TableFields /\ u.kind = view.kind /\ u.url = view.url /\ u.defaults = view.defaults
      /\ u.told = view.told \cup {row} /\ u.timer = view.timer
      /\ u.offered = view.offered /\ u.options = view.options /\ u.roles = view.roles
  BY <1>1 DEF TableType, TableFields
<1>3. Table!Committed(v, w, TRUE, world.store)
  BY DEF Table!Removed, Table!reload, Table!Told
<1> HIDE DEF u
<1>4. /\ DOMAIN v = TableFields /\ v.kind = view.kind /\ v.url = view.url /\ v.defaults = view.defaults
      /\ v.told = view.told \cup {row} /\ v.timer = view.timer
      /\ v.offered = view.offered /\ v.options = view.options /\ v.roles = view.roles
  BY <1>2 DEF TableFields
<1> HIDE DEF v
<1>5. Table!deriveState(v) = Table!deriveState(view)
  BY <1>4, TableSame
<1>6. TableType(v, world)
  BY <1>1, <1>4 DEF TableType
<1>7. Picked(v, Table!deriveState(v))
  BY <1>1, <1>4, <1>5 DEF Picked
<1>8. \A r \in Requests(w) : IF r.kind = "rows" THEN r \in Requests(wire) ELSE TableAsked(v, world, r)
  BY DEF TableAsked
<1> QED BY <1>3, <1>4, <1>6, <1>7, <1>8, TableCommits

LEMMA TableReceivesRemove ==
  ASSUME TableSound(view, wire, world), NEW i \in DOMAIN wire, Table!ReceiveRemove(i)
  PROVE  TableSound(view', wire', world')
<1> DEFINE r == wire[i]
           w == Received(wire, i)
           v == [view EXCEPT !.failed = TRUE]
<1>1. /\ r.kind = "remove"
      /\ \/ Table!Committed(v, w, FALSE, world.store)
         \/ r.is = "ok" /\ Table!Committed(view, Send(w, "refresh", r.arg), FALSE, world.store)
         \/ r.is = "ok" /\ Table!Removed(view, w, r.arg)
  BY TableWire DEF Table!ReceiveRemove
<1>2. /\ IsWire(w) /\ One(w, {"rows"}) /\ Requests(w) \subseteq Requests(wire) /\ TableAsked(view, world, r)
      /\ Out(wire, {"rows"}) => Out(w, {"rows"})
      /\ \A q \in Requests(w) : IF q.kind = "rows" THEN q \in Requests(wire) ELSE TableAsked(view, world, q)
  BY <1>1, TableReceived
<1>3. TableType(view, world) /\ Picked(view, Table!deriveState(view))
  BY DEF TableSound
<1>4. r.is = "ok" => r.arg \notin world.rows
  BY <1>1, <1>2 DEF TableAsked
<1> HIDE DEF w
<1>5. CASE Table!Committed(v, w, FALSE, world.store)
  <2>1. /\ DOMAIN v = TableFields /\ v.kind = view.kind /\ v.roles = view.roles /\ v.url = view.url
        /\ v.defaults = view.defaults /\ v.timer = view.timer /\ v.options = view.options
        /\ v.rows = view.rows /\ v.shown = view.shown /\ v.loading = view.loading /\ v.error = view.error
        /\ v.told = view.told /\ v.offered = view.offered
    BY <1>3 DEF TableType, TableFields
  <2> HIDE DEF v
  <2>2. Picked(v, Table!deriveState(view))
    BY <1>3, <2>1 DEF Picked
  <2> QED BY <1>2, <1>5, <2>1, <2>2, TableTouches
<1>6. CASE r.is = "ok" /\ Table!Committed(view, Send(w, "refresh", r.arg), FALSE, world.store)
  <2> DEFINE x == Send(w, "refresh", r.arg)
             c == Call("refresh", r.arg)
  <2>1. /\ IsWire(x) /\ Requests(x) = Requests(w) \cup {c}
        /\ Out(x, {"rows"}) <=> Out(w, {"rows"}) \/ "refresh" \in {"rows"}
        /\ One(w, {"rows"}) /\ ~("refresh" \in {"rows"} /\ Out(w, {"rows"})) => One(x, {"rows"})
    BY <1>2, SendRequests
  <2>2. c.kind = "refresh" /\ TableAsked(view, world, c)
    BY <1>4, <1>6, CallFields DEF TableAsked
  <2> HIDE DEF x, c
  <2>3. Table!Committed(view, x, FALSE, world.store)
    BY <1>6 DEF x
  <2>4. DOMAIN view = TableFields
    BY <1>3 DEF TableType
  <2>5. \A q \in Requests(x) : q \in Requests(wire) \/ (q.kind # "rows" /\ TableAsked(view, world, q))
    BY <1>2, <2>1, <2>2
  <2>6. IsWire(x) /\ One(x, {"rows"}) /\ (Out(wire, {"rows"}) => Out(x, {"rows"}))
    BY <1>2, <2>1
  <2>7. (view.timer => view.timer) /\ Picked(view, Table!deriveState(view))
    BY <1>3
  <2> QED BY <2>3, <2>4, <2>5, <2>6, <2>7, TableTouches
<1>7. CASE r.is = "ok" /\ Table!Removed(view, w, r.arg)
  BY <1>2, <1>4, <1>7, TableRemoves
<1> QED BY <1>1, <1>5, <1>6, <1>7

LEMMA TableReceivesRefresh ==
  ASSUME TableSound(view, wire, world), NEW i \in DOMAIN wire, Table!ReceiveRefresh(i)
  PROVE  TableSound(view', wire', world')
<1>1. wire[i].kind = "refresh" /\ Table!Removed(view, Received(wire, i), wire[i].arg)
  BY TableWire DEF Table!ReceiveRefresh
<1>2. /\ IsWire(Received(wire, i)) /\ One(Received(wire, i), {"rows"}) /\ TableAsked(view, world, wire[i])
      /\ \A q \in Requests(Received(wire, i)) :
           IF q.kind = "rows" THEN q \in Requests(wire) ELSE TableAsked(view, world, q)
  BY TableReceived
<1>3. wire[i].arg \notin world.rows
  BY <1>1, <1>2 DEF TableAsked
<1> QED BY <1>1, <1>2, <1>3, TableRemoves

(* With the chore to clone the page is left.                               *)
LEMMA TableReceivesClone ==
  ASSUME TableSound(view, wire, world), NEW i \in DOMAIN wire, Table!ReceiveClone(i)
  PROVE  view'.at = "list" => TableSound(view', wire', world')
<1> DEFINE w == Received(wire, i)
           v == [view EXCEPT !.cloning = Table!All, !.failed = TRUE]
<1>1. TableType(view, world) /\ Picked(view, Table!deriveState(view))
  BY DEF TableSound
<1>2. /\ wire[i].kind = "clone"
      /\ \/ view' = [view EXCEPT !.cloning = Table!All, !.at = "create"]
         \/ Table!Committed(v, w, FALSE, world.store)
  BY TableWire DEF Table!ReceiveClone
<1>3. /\ IsWire(w) /\ One(w, {"rows"}) /\ Requests(w) \subseteq Requests(wire)
      /\ Out(wire, {"rows"}) => Out(w, {"rows"})
  BY <1>2, TableReceived
<1> HIDE DEF w
<1>4. CASE view' = [view EXCEPT !.cloning = Table!All, !.at = "create"]
  <2>1. view'.at = "create"
    BY <1>1, <1>4 DEF TableType, TableFields
  <2> QED BY <2>1
<1>5. CASE Table!Committed(v, w, FALSE, world.store)
  <2>1. /\ DOMAIN v = TableFields /\ v.kind = view.kind /\ v.roles = view.roles /\ v.url = view.url
        /\ v.defaults = view.defaults /\ v.timer = view.timer /\ v.options = view.options
        /\ v.rows = view.rows /\ v.shown = view.shown /\ v.loading = view.loading /\ v.error = view.error
        /\ v.told = view.told /\ v.offered = view.offered
    BY <1>1 DEF TableType, TableFields
  <2> HIDE DEF v
  <2>2. Picked(v, Table!deriveState(view))
    BY <1>1, <2>1 DEF Picked
  <2> QED BY <1>3, <1>5, <2>1, <2>2, TableTouches
<1> QED BY <1>2, <1>4, <1>5

(* What the user does.                                                     *)
LEMMA TableSets ==
  ASSUME TableSound(view, wire, world), NEW u, NEW v, NEW s, Table!Committed(v, wire, FALSE, world.store),
         v = u \/ (v = Table!mutate(u, s) /\ s # Table!deriveState(view)),
         s = [k \in {"page"} \cup Table!SettingKeys(view.kind) |-> s[k]], s["size"] \in 1..2,
         \A k \in Table!FilterKeys(view.kind) \cap {"household", "person"} :
           \/ s[k] = Table!deriveState(view)[k]
           \/ /\ view.kind = "history" => view.roles.deputy
              /\ s[k] \in {Table!All} \cup IF k = "household" THEN view.options.households ELSE view.options.members,
         DOMAIN u = TableFields, u.timer => view.timer,
         u.kind = view.kind, u.roles = view.roles, u.url = view.url, u.defaults = view.defaults,
         u.rows = view.rows, u.shown = view.shown, u.loading = view.loading, u.error = view.error,
         u.told = view.told, u.offered = view.offered, u.options = view.options
  PROVE  TableSound(view', wire', world')
<1>1. IsWire(wire) /\ One(wire, {"rows"}) /\ Picked(view, Table!deriveState(view))
  BY DEF TableSound
<1>2. Picked(u, Table!deriveState(view)) /\ Picked(u, s)
  BY <1>1 DEF Picked
<1>3. CASE v = u
  BY <1>1, <1>2, <1>3, TableTouches
<1>4. CASE v = Table!mutate(u, s) /\ s # Table!deriveState(view)
  BY <1>1, <1>2, <1>4, TableMutates
<1> QED BY <1>3, <1>4

(* A page that differs from this one in its timer at most.                 *)
TableLike(u) ==
  /\ DOMAIN u = TableFields /\ (u.timer => view.timer)
  /\ u.kind = view.kind /\ u.roles = view.roles /\ u.url = view.url /\ u.defaults = view.defaults
  /\ u.rows = view.rows /\ u.shown = view.shown /\ u.loading = view.loading /\ u.error = view.error
  /\ u.told = view.told /\ u.offered = view.offered /\ u.options = view.options

(* The settings s, set on u, become the page v.                            *)
TableTo(u, v, s) ==
  /\ Table!Committed(v, wire, FALSE, world.store)
  /\ v = u \/ (v = Table!mutate(u, s) /\ s # Table!deriveState(view))
  /\ s = [k \in {"page"} \cup Table!SettingKeys(view.kind) |-> s[k]] /\ s["size"] \in 1..2
  /\ \A k \in Table!FilterKeys(view.kind) \cap {"household", "person"} :
       \/ s[k] = Table!deriveState(view)[k]
       \/ /\ view.kind = "history" => view.roles.deputy
          /\ s[k] \in {Table!All} \cup IF k = "household" THEN view.options.households ELSE view.options.members

LEMMA TableSetsTo ==
  ASSUME TableSound(view, wire, world), NEW u, NEW v, NEW s, TableTo(u, v, s), TableLike(u)
  PROVE  TableSound(view', wire', world')
BY TableSets DEF TableTo, TableLike

LEMMA TableSetsOne ==
  ASSUME TableSound(view, wire, world), NEW u, NEW v, Table!Committed(v, wire, FALSE, world.store),
         NEW k0 \in {"page"} \cup Table!SettingKeys(view.kind), NEW x, NEW y, k0 = "page" => y = x,
         v = IF x = Table!deriveState(view)[k0] THEN u
             ELSE Table!mutate(u, [Table!deriveState(view) EXCEPT ![k0] = x, !["page"] = y]),
         k0 = "size" => x \in 1..2,
         k0 \in Table!FilterKeys(view.kind) \cap {"household", "person"} =>
           /\ view.kind = "history" => view.roles.deputy
           /\ x \in {Table!All} \cup IF k0 = "household" THEN view.options.households ELSE view.options.members,
         TableLike(u)
  PROVE  TableSound(view', wire', world')
<1> DEFINE now == Table!deriveState(view)
           K == {"page"} \cup Table!SettingKeys(view.kind)
           t == [now EXCEPT ![k0] = x]
           s == [now EXCEPT ![k0] = x, !["page"] = y]
<1>1. DOMAIN now = K /\ now["size"] \in 1..2 /\ "size" \in K /\ "page" \in K /\ k0 \in K
  BY TableDerives, TableSizes, TableKeys DEF TableSound
<1>2. \A k \in Table!FilterKeys(view.kind) : k \in K /\ k # "page"
  BY TableKeys
<1>3. v = u \/ (v = Table!mutate(u, s) /\ x # now[k0])
  OBVIOUS
<1> HIDE DEF now, K
<1>4. DOMAIN t = K /\ \A k \in K : t[k] = IF k = k0 THEN x ELSE now[k]
  BY <1>1
<1>5. s = [t EXCEPT !["page"] = y]
  OBVIOUS
<1> HIDE DEF t
<1>6. s = [k \in K |-> s[k]] /\ \A k \in K : s[k] = IF k = "page" THEN y ELSE t[k]
  BY <1>1, <1>4, <1>5
<1> HIDE DEF s
<1>7. s[k0] = x /\ \A k \in K : k # k0 /\ k # "page" => s[k] = now[k]
  BY <1>1, <1>4, <1>6
<1>8. s["size"] \in 1..2
  BY <1>1, <1>7
<1>9. \A k \in Table!FilterKeys(view.kind) \cap {"household", "person"} :
        \/ s[k] = now[k]
        \/ /\ view.kind = "history" => view.roles.deputy
           /\ s[k] \in {Table!All} \cup IF k = "household" THEN view.options.households ELSE view.options.members
  BY <1>2, <1>7
<1>10. v = u \/ (v = Table!mutate(u, s) /\ s # now)
  BY <1>3, <1>7
<1>11. TableTo(u, v, s)
  BY <1>6, <1>8, <1>9, <1>10 DEF now, K, TableTo
<1> QED BY <1>11, TableSetsTo

LEMMA TableChooses ==
  ASSUME TableSound(view, wire, world),
         \/ \E n : Table!TurnPage(n)
         \/ \E size \in 1..2 : Table!ChooseSize(size)
         \/ \E key : Table!ChooseSort(key)
         \/ \E k, value : Table!ChooseFilter(k, value)
  PROVE  TableSound(view', wire', world')
<1> DEFINE now == Table!deriveState(view)
<1>1. PICK k0 \in {"page"} \cup Table!SettingKeys(view.kind) : \E x, y :
        /\ k0 = "page" => y = x
        /\ k0 = "size" => x \in 1..2
        /\ k0 \in Table!FilterKeys(view.kind) \cap {"household", "person"} =>
             /\ view.kind = "history" => view.roles.deputy
             /\ x \in {Table!All} \cup IF k0 = "household" THEN view.options.households ELSE view.options.members
        /\ Table!Committed(IF x = now[k0] THEN view ELSE Table!mutate(view, [now EXCEPT ![k0] = x, !["page"] = y]),
                           wire, FALSE, world.store)
  <2>0. /\ "size" \in Table!SettingKeys(view.kind) /\ "sort" \in Table!SettingKeys(view.kind)
        /\ \A k \in Table!FilterKeys(view.kind) : /\ k \in Table!SettingKeys(view.kind)
                                                  /\ k \notin {"page", "size", "sort"}
    BY TableKeys
  <2> DEFINE may(k0, x) ==
        k0 \in Table!FilterKeys(view.kind) \cap {"household", "person"} =>
          /\ view.kind = "history" => view.roles.deputy
          /\ x \in {Table!All} \cup IF k0 = "household" THEN view.options.households ELSE view.options.members
             does(k0, x, y) ==
        Table!Committed(IF x = now[k0] THEN view ELSE Table!mutate(view, [now EXCEPT ![k0] = x, !["page"] = y]),
                        wire, FALSE, world.store)
  <2>1. ASSUME NEW n, Table!TurnPage(n) PROVE does("page", n, n) /\ may("page", n)
    <3>1. Table!Committed(IF n = now["page"] THEN view ELSE Table!mutate(view, [now EXCEPT !["page"] = n]),
                          wire, FALSE, world.store)
      BY <2>1 DEF Table!TurnPage, Table!setPage
    <3>2. [now EXCEPT !["page"] = n] = [now EXCEPT !["page"] = n, !["page"] = n]
      OBVIOUS
    <3>3. does("page", n, n)
      BY <3>1, <3>2
    <3> QED BY <3>3
  <2>2. ASSUME NEW size \in 1..2, Table!ChooseSize(size) PROVE does("size", size, 1) /\ may("size", size)
    <3>1. does("size", size, 1)
      BY <2>2 DEF Table!ChooseSize, Table!setPageSize
    <3> QED BY <3>1
  <2>3. ASSUME NEW key, Table!ChooseSort(key) PROVE does("sort", key, 1) /\ may("sort", key)
    <3>1. does("sort", key, 1)
      BY <2>3 DEF Table!ChooseSort, Table!setSort
    <3> QED BY <3>1
  <2>4. ASSUME NEW k, NEW value, Table!ChooseFilter(k, value)
        PROVE  k \in Table!FilterKeys(view.kind) /\ does(k, value, 1) /\ may(k, value)
    <3>1. /\ k \in Table!FilterKeys(view.kind) /\ (view.kind = "history" => view.roles.deputy)
          /\ value \in {Table!All} \cup IF k = "household" THEN view.options.households ELSE view.options.members
      BY <2>4 DEF Table!ChooseFilter, Table!MayFilter, Table!FilterBar_History
    <3>2. Table!Committed(IF now[k] = value THEN view
                          ELSE Table!mutate(view, [now EXCEPT ![k] = value, !["page"] = 1]), wire, FALSE, world.store)
      BY <2>4 DEF Table!ChooseFilter, Table!setFilter
    <3>3. does(k, value, 1)
      BY <3>2
    <3> QED BY <3>1, <3>3
  <2>5. CASE \E n : Table!TurnPage(n)
    <3>1. PICK n : Table!TurnPage(n)
      BY <2>5
    <3>2. does("page", n, n) /\ may("page", n)
      BY <3>1, <2>1
    <3> QED BY <3>2
  <2>6. CASE \E size \in 1..2 : Table!ChooseSize(size)
    <3>1. PICK size \in 1..2 : Table!ChooseSize(size)
      BY <2>6
    <3>2. does("size", size, 1) /\ may("size", size)
      BY <3>1, <2>2
    <3> QED BY <3>2, <2>0
  <2>7. CASE \E key : Table!ChooseSort(key)
    <3>1. PICK key : Table!ChooseSort(key)
      BY <2>7
    <3>2. does("sort", key, 1) /\ may("sort", key)
      BY <3>1, <2>3
    <3> QED BY <3>2, <2>0
  <2>8. CASE \E k, value : Table!ChooseFilter(k, value)
    <3>1. PICK k, value : Table!ChooseFilter(k, value)
      BY <2>8
    <3>2. k \in Table!FilterKeys(view.kind) /\ does(k, value, 1) /\ may(k, value)
      BY <3>1, <2>4
    <3> QED BY <3>2, <2>0
  <2> QED BY <2>5, <2>6, <2>7, <2>8
<1>2. PICK x, y :
        /\ k0 = "page" => y = x
        /\ k0 = "size" => x \in 1..2
        /\ k0 \in Table!FilterKeys(view.kind) \cap {"household", "person"} =>
             /\ view.kind = "history" => view.roles.deputy
             /\ x \in {Table!All} \cup IF k0 = "household" THEN view.options.households ELSE view.options.members
        /\ Table!Committed(IF x = now[k0] THEN view ELSE Table!mutate(view, [now EXCEPT ![k0] = x, !["page"] = y]),
                           wire, FALSE, world.store)
  BY <1>1
<1>3. TableLike(view)
  BY DEF TableSound, TableType, TableLike
<1> QED BY <1>2, <1>3, TableSetsOne

(* The debounced text reaches the filter.                                  *)
LEMMA TableDebounces ==
  ASSUME TableSound(view, wire, world), Table!Debounced
  PROVE  TableSound(view', wire', world')
<1> DEFINE now == Table!deriveState(view)
<1>1. TableType(view, world)
  BY DEF TableSound
<1>2. PICK u, x, k0 : u = [view EXCEPT !.timer = FALSE] /\ x = view.typed /\ k0 = "text"
  OBVIOUS
<1>3. /\ DOMAIN u = TableFields /\ u.timer = FALSE /\ u.kind = view.kind /\ u.roles = view.roles
      /\ u.url = view.url /\ u.defaults = view.defaults /\ u.rows = view.rows /\ u.shown = view.shown
      /\ u.loading = view.loading /\ u.error = view.error /\ u.told = view.told
      /\ u.offered = view.offered /\ u.options = view.options
  BY <1>1, <1>2 DEF TableType, TableFields
<1>4. view.timer /\ Table!Committed(Table!setFilter(u, k0, x), wire, FALSE, world.store)
  BY <1>2 DEF Table!Debounced
<1> DEFINE K == {"page"} \cup Table!SettingKeys(view.kind)
<1>5. /\ DOMAIN now = K /\ now["size"] \in 1..2 /\ k0 \in K /\ "page" \in K /\ "size" \in K
      /\ \A k \in Table!FilterKeys(view.kind) : k \in K /\ k # "page"
      /\ k0 \notin {"page", "size", "household", "person"}
  BY <1>1, <1>2, <1>4, TableDerives, TableSizes, TableKeys DEF TableSound, TableType
<1>6. Table!deriveState(u) = now
  BY <1>3, TableSame
<1> DEFINE s == [now EXCEPT ![k0] = x, !["page"] = 1]
<1>7. Table!setFilter(u, k0, x) = IF now[k0] = x THEN u ELSE Table!mutate(u, s)
  BY <1>6 DEF Table!setFilter
<1> HIDE DEF now, K
<1>8. s = [k \in K |-> s[k]] /\ \A k \in K : s[k] = IF k = "page" THEN 1 ELSE IF k = k0 THEN x ELSE now[k]
  BY <1>5
<1> HIDE DEF s
<1>9. PICK v : v = Table!setFilter(u, k0, x)
  OBVIOUS
<1>10. Table!Committed(v, wire, FALSE, world.store)
  BY <1>4, <1>9
<1>11. s[k0] = x
  BY <1>5, <1>8
<1>12. v = u \/ (v = Table!mutate(u, s) /\ s # now)
  BY <1>7, <1>9, <1>11
<1>13. s["size"] \in 1..2 /\ \A k \in Table!FilterKeys(view.kind) \cap {"household", "person"} : s[k] = now[k]
  BY <1>5, <1>8
<1>14. PICK c : c = s
  OBVIOUS
<1>15. /\ c = [k \in {"page"} \cup Table!SettingKeys(view.kind) |-> c[k]] /\ c["size"] \in 1..2
       /\ \A k \in Table!FilterKeys(view.kind) \cap {"household", "person"} : c[k] = Table!deriveState(view)[k]
       /\ v = u \/ (v = Table!mutate(u, c) /\ c # Table!deriveState(view))
  BY <1>8, <1>12, <1>13, <1>14 DEF now, K
<1>16. u.timer => view.timer
  BY <1>4
<1>17. TableTo(u, v, c)
  BY <1>10, <1>15 DEF TableTo
<1>18. TableLike(u)
  BY <1>3, <1>16 DEF TableLike
<1> QED BY <1>17, <1>18, TableSetsTo

LEMMA TableDraws ==
  ASSUME TableSound(view, wire, world), NEW u, NEW w, view' = u, wire' = w, world' = world,
         w = wire \/ (\E k \in {"remove", "clone"} : \E a : w = Send(wire, k, a)),
         DOMAIN u = TableFields, u.timer => "text" \in Table!FilterKeys(view.kind),
         u.kind = view.kind, u.roles = view.roles, u.url = view.url, u.defaults = view.defaults,
         u.rows = view.rows, u.shown = view.shown, u.loading = view.loading, u.error = view.error,
         u.told = view.told, u.offered = view.offered, u.options = view.options
  PROVE  TableSound(view', wire', world')
<1>1. IsWire(wire) /\ One(wire, {"rows"}) /\ TableType(view, world) /\ Picked(view, Table!deriveState(view))
  BY DEF TableSound
<1>2. Table!deriveState(u) = Table!deriveState(view)
  BY TableSame
<1>3. TableType(u, world) /\ Picked(u, Table!deriveState(u))
  BY <1>1, <1>2 DEF TableType, Picked
<1>4. \A r \in Requests(wire) : TableAsked(u, world, r)
  BY <1>2 DEF TableSound, TableAsked
<1>5. ~Out(wire, {"rows"}) => TableRests(u, world.store)
  BY <1>2 DEF TableSound, TableRests
<1>6. CASE w = wire
  BY <1>1, <1>3, <1>4, <1>5, <1>6 DEF TableSound
<1>7. ASSUME NEW k \in {"remove", "clone"}, NEW a, w = Send(wire, k, a)
      PROVE  TableSound(view', wire', world')
  <2>1. /\ IsWire(w) /\ Requests(w) = Requests(wire) \cup {Call(k, a)}
        /\ Out(w, {"rows"}) <=> Out(wire, {"rows"}) \/ k \in {"rows"}
        /\ One(wire, {"rows"}) /\ ~(k \in {"rows"} /\ Out(wire, {"rows"})) => One(w, {"rows"})
    BY <1>1, <1>7, SendRequests
  <2>2. TableAsked(u, world, Call(k, a))
    BY <1>7, CallFields DEF TableAsked
  <2>3. One(w, {"rows"}) /\ (Out(w, {"rows"}) <=> Out(wire, {"rows"}))
    BY <1>1, <1>7, <2>1
  <2>4. TableSound(u, w, world)
    BY <1>3, <1>4, <1>5, <2>1, <2>2, <2>3 DEF TableSound
  <2> QED BY <2>4
<1> QED BY <1>6, <1>7

LEMMA TableActs ==
  ASSUME TableSound(view, wire, world),
         (\E text : Table!Type(text)) \/ (\E row : Table!Remove(row) \/ Table!Clone(row))
  PROVE  TableSound(view', wire', world')
<1>1. TableType(view, world)
  BY DEF TableSound
<1>2. ASSUME NEW text, Table!Type(text) PROVE TableSound(view', wire', world')
  <2>1. PICK u : u = [view EXCEPT !.typed = text, !.timer = TRUE]
    OBVIOUS
  <2>2. view' = u /\ wire' = wire /\ world' = world /\ "text" \in Table!FilterKeys(view.kind)
    BY <1>2, <2>1 DEF Table!Type
  <2>3. /\ DOMAIN u = TableFields /\ u.kind = view.kind /\ u.roles = view.roles
        /\ u.url = view.url /\ u.defaults = view.defaults /\ u.rows = view.rows /\ u.shown = view.shown
        /\ u.loading = view.loading /\ u.error = view.error /\ u.told = view.told
        /\ u.offered = view.offered /\ u.options = view.options
    BY <1>1, <2>1 DEF TableType, TableFields
  <2> QED BY <2>2, <2>3, TableDraws
<1>3. ASSUME NEW row, Table!Remove(row) \/ Table!Clone(row) PROVE TableSound(view', wire', world')
  <2>1. PICK u : u = view' /\ (u = [view EXCEPT !.failed = FALSE] \/ u = [view EXCEPT !.failed = FALSE, !.cloning = row])
    BY <1>3 DEF Table!Remove, Table!Clone
  <2>2. PICK k \in {"remove", "clone"} : wire' = Send(wire, k, row) /\ world' = world
    BY <1>3, TableWire DEF Table!Remove, Table!Clone
  <2>3. /\ DOMAIN u = TableFields /\ u.kind = view.kind /\ u.roles = view.roles
        /\ u.url = view.url /\ u.defaults = view.defaults /\ u.rows = view.rows /\ u.shown = view.shown
        /\ u.loading = view.loading /\ u.error = view.error /\ u.told = view.told /\ u.timer = view.timer
        /\ u.offered = view.offered /\ u.options = view.options
    BY <1>1, <2>1 DEF TableType, TableFields
  <2>4. u.timer => "text" \in Table!FilterKeys(view.kind)
    BY <1>1, <2>3 DEF TableType
  <2> QED BY <2>1, <2>2, <2>3, <2>4, TableDraws
<1> QED BY <1>2, <1>3

LEMMA TableStart ==
  ASSUME Table!Init PROVE TableSound(view, wire, world)
<1>1. PICK kind \in Kinds, roles \in Table!Roles : \E url \in Table!Link(kind), store \in Table!Saved(kind) :
        /\ view = Table!Mounted(kind, roles, url, store)
        /\ world = [rows |-> Rows, households |-> {1, 2}, store |-> {Table!settingsJson(view)}]
        /\ wire = IF Table!HasOptions(kind)
                  THEN <<Table!Call("rows", Table!toApiQuery(view)), Table!Call("options", Table!All)>>
                  ELSE <<Table!Call("rows", Table!toApiQuery(view))>>
  BY DEF Table!Init
<1>2. PICK url \in Table!Link(kind), store \in Table!Saved(kind) : view = Table!Mounted(kind, roles, url, store)
  BY <1>1
<1> DEFINE d == Table!readSettings(kind, store)
           q == Table!deriveState(view)
           c == Call("rows", q)
           o == Call("options", Table!All)
<1>3. /\ DOMAIN view = TableFields /\ view.kind = kind /\ view.url = url /\ view.defaults = d
      /\ view.told = {} /\ view.loading = TRUE /\ view.offered = "loading"
      /\ view.timer = ("text" \in Table!FilterKeys(kind))
  <2>1. PICK v : v = [at |-> "list", kind |-> kind, roles |-> roles, url |-> url, defaults |-> d,
            rows |-> {}, total |-> 0, shown |-> {}, loading |-> TRUE, error |-> "none",
            failed |-> FALSE, options |-> Table!NoOptions, offered |-> "loading",
            typed |-> Table!All, timer |-> "text" \in Table!FilterKeys(kind), cloning |-> Table!All, told |-> {}]
    OBVIOUS
  <2>2. /\ DOMAIN v = TableFields /\ v.kind = kind /\ v.url = url /\ v.defaults = d
        /\ v.told = {} /\ v.loading = TRUE /\ v.offered = "loading"
        /\ v.timer = ("text" \in Table!FilterKeys(kind))
    BY <2>1 DEF TableFields
  <2>3. view = [v EXCEPT !.typed = IF v.timer THEN Table!deriveState(v)["text"] ELSE Table!All]
    BY <1>2, <2>1 DEF Table!Mounted
  <2> QED BY <2>2, <2>3 DEF TableFields
<1>4. "size" \notin DOMAIN url
  BY DEF Table!Link
<1>5. d["size"] \in 1..2
  <2>1. "size" \in Table!SettingKeys(kind)
    BY TableKeys
  <2>2. Table!pageDefaults(kind)["size"] = 1
    BY <2>1 DEF Table!pageDefaults
  <2>3. CASE store = {}
    BY <2>2, <2>3 DEF Table!readSettings
  <2>4. CASE store # {}
    <3>1. PICK n \in {2, 3}, sort \in {1, Table!RetiredSortKey}, house \in {Table!All, 3}, other \in {1, 2} :
            store = {[k \in Table!SettingKeys(kind) |->
                        CASE k = "size" -> n [] k = "sort" -> sort
                          [] k = "household" -> house [] OTHER -> other]}
      BY <1>2, <2>4 DEF Table!Saved
    <3>2. (CHOOSE s \in store : TRUE)["size"] = n
      <4>1. PICK s : s["size"] = n /\ store = {s}
        <5>1. PICK s : s = [k \in Table!SettingKeys(kind) |->
                              CASE k = "size" -> n [] k = "sort" -> sort
                                [] k = "household" -> house [] OTHER -> other]
          OBVIOUS
        <5>2. s["size"] = n
          BY <5>1, <2>1
        <5> QED BY <5>1, <5>2, <3>1
      <4>2. (CHOOSE x \in store : TRUE) = s
        BY <4>1
      <4> QED BY <4>1, <4>2
    <3>3. d["size"] = IF n > 2 THEN 1 ELSE n
      BY <2>1, <2>2, <2>4, <3>2 DEF Table!readSettings, Table!MAX_PAGE_SIZE
    <3> QED BY <3>3
  <2> QED BY <2>3, <2>4
<1> HIDE DEF d
<1>6. TableType(view, world) /\ Picked(view, q)
  BY <1>1, <1>3, <1>4, <1>5 DEF TableType, Picked
<1>7. wire = <<c>> \/ wire = Send(<<c>>, "options", Table!All)
  <2>1. wire = <<c>> \/ wire = <<c, o>>
    BY <1>1, TableWire DEF Table!toApiQuery
  <2>2. ASSUME wire = <<c, o>> PROVE wire = Send(<<c>>, "options", Table!All)
    <3>1. wire = Append(<<c>>, o)
      BY <2>2
    <3> QED BY <3>1 DEF Send
  <2> QED BY <2>1, <2>2
<1>8. TableAsked(view, world, c) /\ TableAsked(view, world, o)
  BY CallFields DEF TableAsked
<1>9. /\ IsWire(<<c>>) /\ Requests(<<c>>) = {c} /\ One(<<c>>, {"rows"}) /\ Out(<<c>>, {"rows"})
  BY FirstRequest
<1>10. /\ IsWire(wire) /\ Requests(wire) \subseteq {c, o} /\ One(wire, {"rows"}) /\ Out(wire, {"rows"})
  <2> HIDE DEF c
  <2>1. CASE wire = <<c>>
    BY <2>1, <1>9
  <2>2. CASE wire = Send(<<c>>, "options", Table!All)
    BY <2>2, <1>9, SendRequests
  <2> QED BY <2>1, <2>2, <1>7
<1> QED BY <1>6, <1>8, <1>10 DEF TableSound

LEMMA TableStep ==
  ASSUME TableInv, Table!Next PROVE TableInv'
<1>1. CASE view.at # "list"
  <2>1. view' = view
    BY <1>1 DEF Table!Next, Table!ServeRows, Table!ServeOptions, Table!ServeRemove, Table!ServeOther,
       Table!Lose, Table!TurnPage, Table!ChooseSize, Table!ChooseSort, Table!ChooseFilter, Table!Type,
       Table!Debounced, Table!Remove, Table!Clone, Table!Acts
  <2> QED BY <2>1, <1>1 DEF TableInv
<1>2. CASE view.at = "list"
  <2>1. TableSound(view, wire, world)
    BY <1>2 DEF TableInv
  <2>2. ASSUME NEW i \in DOMAIN wire,
               \/ Table!ServeRows(i) \/ Table!ServeOptions(i) \/ Table!ServeRemove(i) \/ Table!ServeOther(i)
               \/ Table!Lose(i) \/ Table!ReceiveRows(i) \/ Table!ReceiveOptions(i) \/ Table!ReceiveRemove(i)
               \/ Table!ReceiveRefresh(i)
        PROVE  TableSound(view', wire', world')
    BY <2>1, <2>2, TableServesRows, TableServesRest, TableServesRemove, TableReceivesRows,
       TableReceivesOptions, TableReceivesRemove, TableReceivesRefresh
  <2>3. ASSUME NEW i \in DOMAIN wire, Table!ReceiveClone(i) PROVE TableInv'
    BY <2>1, <2>3, TableReceivesClone DEF TableInv
  <2>4. \/ \E n : Table!TurnPage(n)
        \/ \E size \in 1..2 : Table!ChooseSize(size)
        \/ \E key : Table!ChooseSort(key)
        \/ \E k, value : Table!ChooseFilter(k, value)
        => TableSound(view', wire', world')
    BY <2>1, TableChooses
  <2>5. (\E text : Table!Type(text)) \/ (\E row : Table!Remove(row) \/ Table!Clone(row))
        => TableSound(view', wire', world')
    BY <2>1, TableActs
  <2>6. Table!Debounced => TableSound(view', wire', world')
    BY <2>1, TableDebounces
  <2> QED BY <2>2, <2>3, <2>4, <2>5, <2>6 DEF Table!Next, TableInv, Table!MAX_PAGE_SIZE
<1> QED BY <1>1, <1>2

TableOnly == page = "table" => TableInv

LEMMA SpecImpliesTableOnly == Spec => []TableOnly
<1>1. Init => TableOnly
  BY TableStart DEF Init, TableOnly, TableInv
<1>2. TableOnly /\ [Next]_vars => TableOnly'
  <2> SUFFICES ASSUME TableOnly, [Next]_vars, page' = "table" PROVE TableInv'
    BY DEF TableOnly
  <2>1. CASE UNCHANGED vars
    BY <2>1 DEF vars, TableOnly, TableInv, TableSound, TableType, Picked, TableAsked, TableRests
  <2>2. CASE Next
    <3>1. page = "table" /\ Table!Next
      BY <2>2 DEF Next
    <3> QED BY <3>1, TableStep DEF TableOnly
  <2> QED BY <2>1, <2>2
<1> QED BY <1>1, <1>2, PTL DEF Spec


-----------------------------------------------------------------------------
(* The figures                                                             *)

LEMMA FiguresWire ==
  /\ \A w, k, a : Figures!SendAgain(w, k, a) = SendAgain(w, k, a)
  /\ \A w, i, a : Figures!Ok(w, i, a) = Ok(w, i, a)
  /\ \A w, i, s : Figures!Settle(w, i, s) = Settle(w, i, s)
  /\ \A w, i : Figures!Received(w, i) = Received(w, i)
  /\ \A w, K : Figures!Out(w, K) = Out(w, K)
  /\ \A w : Figures!Settled(w) = Settled(w) /\ Figures!Waiting(w) = Waiting(w)
  /\ \A k, a : Figures!Call(k, a) = Call(k, a)
<1>0. \A S : Figures!Cardinality(S) = Cardinality(S)
  BY DEF Figures!Cardinality, Cardinality
<1>1. \A S, n : Figures!Place(S, n) = Place(S, n)
  BY DEF Figures!Place, Place, Figures!Cardinality, Cardinality
<1>2. \A w, S : Figures!Sift(w, S) = Sift(w, S)
  BY <1>0, <1>1 DEF Figures!Sift, Sift
<1>5. \A w, k : Figures!Ignore(w, k) = Ignore(w, k)
  BY <1>2 DEF Figures!Ignore, Ignore
<1>3. \A w, k, a : Figures!SendAgain(w, k, a) = SendAgain(w, k, a)
  BY <1>5 DEF Figures!SendAgain, Figures!Send, Figures!Call, SendAgain, Send, Call
<1>4. \A k, a : Figures!Call(k, a) = Call(k, a)
  BY DEF Figures!Call, Call
<1> QED BY <1>3, <1>4
        DEF Figures!Ok, Figures!Settle, Figures!Received, Figures!Out, Figures!Settled, Figures!Waiting,
            Ok, Settle, Received, Out, Settled, Waiting

(* A request for figures asks for those of the filters on screen.          *)
FiguresAsked(v, r) ==
  /\ r.kind \in {"options", "stats"}
  /\ r.kind = "stats" => r.arg = Figures!Query(v) /\ (r.is = "ok" => r.answer = {r.arg})

FiguresInv ==
  /\ IsWire(wire) /\ One(wire, {"stats"})
  /\ DOMAIN view = {"range", "household", "user", "options", "figures", "error"}
  /\ \A r \in Requests(wire) : FiguresAsked(view, r)
  /\ ~Out(wire, {"stats"}) /\ ~view.error => view.figures = {Figures!Query(view)}

LEMMA FiguresInit ==
  ASSUME Figures!Init PROVE FiguresInv
<1>1. wire = Send(Send(<<>>, "options", {}), "stats", Figures!Query(view))
  BY FiguresWire DEF Figures!Init, Send
<1>2. IsWire(<<>>) /\ Requests(<<>>) = {} /\ One(<<>>, {"stats"}) /\ ~Out(<<>>, {"stats"})
  <2>1. <<>> \in Seq({})
    OBVIOUS
  <2> QED BY <2>1 DEF IsWire, Requests, One, Out
<1> DEFINE v == Send(<<>>, "options", {})
<1>3. IsWire(v) /\ Requests(v) = {Call("options", {})} /\ One(v, {"stats"}) /\ ~Out(v, {"stats"})
  BY <1>2, SendRequests
<1> HIDE DEF v
<1>4. /\ IsWire(wire) /\ One(wire, {"stats"}) /\ Out(wire, {"stats"})
      /\ Requests(wire) = {Call("options", {}), Call("stats", Figures!Query(view))}
  BY <1>1, <1>3, SendRequests DEF v
<1>5. DOMAIN view = {"range", "household", "user", "options", "figures", "error"}
  BY DEF Figures!Init
<1> QED BY <1>4, <1>5, CallFields DEF FiguresInv, FiguresAsked

LEMMA FiguresReceives ==
  ASSUME FiguresInv, NEW i \in DOMAIN wire, Figures!ReceiveOptions(i) \/ Figures!ReceiveStats(i)
  PROVE  FiguresInv'
<1>1. wire' = Received(wire, i)
  BY FiguresWire DEF Figures!ReceiveOptions, Figures!ReceiveStats
<1>2. wire[i] \in Requests(wire) /\ FiguresAsked(view, wire[i])
  BY DEF FiguresInv, Requests
<1>3. /\ IsWire(wire') /\ One(wire', {"stats"}) /\ Requests(wire') \subseteq Requests(wire)
      /\ wire[i].kind = "options" => (Out(wire', {"stats"}) <=> Out(wire, {"stats"}))
      /\ wire[i].kind = "stats" => ~Out(wire', {"stats"})
  BY <1>1, ReceivedRequests DEF FiguresInv
<1>4. CASE Figures!ReceiveOptions(i)
  <2>1. wire[i].kind = "options" /\ \E o : view' = [view EXCEPT !.options = o]
    BY <1>4 DEF Figures!ReceiveOptions
  <2>2. /\ Figures!Query(view') = Figures!Query(view) /\ DOMAIN view' = DOMAIN view
        /\ view'.figures = view.figures /\ view'.error = view.error
    BY <2>1 DEF FiguresInv, Figures!Query
  <2> QED BY <1>3, <2>1, <2>2 DEF FiguresInv, FiguresAsked
<1>5. CASE Figures!ReceiveStats(i)
  <2>1. /\ wire[i].kind = "stats"
        /\ view' = IF wire[i].is = "ok" THEN [view EXCEPT !.figures = wire[i].answer, !.error = FALSE]
                   ELSE [view EXCEPT !.error = TRUE]
    BY <1>5 DEF Figures!ReceiveStats
  <2>2. /\ Figures!Query(view') = Figures!Query(view) /\ DOMAIN view' = DOMAIN view
        /\ view'.error \/ (view'.figures = wire[i].answer /\ wire[i].is = "ok")
    BY <2>1 DEF FiguresInv, Figures!Query
  <2> QED BY <1>2, <1>3, <2>1, <2>2 DEF FiguresInv, FiguresAsked
<1> QED BY <1>4, <1>5

(* A filter that moves asks anew and ignores the answer to the old one.    *)
LEMMA FiguresChosen ==
  ASSUME FiguresInv, NEW v, Figures!Choose(v),
         DOMAIN v = {"range", "household", "user", "options", "figures", "error"}
  PROVE  FiguresInv'
<1>1. view' = v /\ wire' = SendAgain(wire, "stats", Figures!Query(v))
  BY FiguresWire DEF Figures!Choose, Figures!Refetch
<1>2. /\ IsWire(wire') /\ Out(wire', {"stats"}) /\ One(wire', {"stats"})
      /\ Requests(wire') = {r \in Requests(wire) : r.kind # "stats"} \cup {Call("stats", Figures!Query(v))}
  <2>1. ~Out(wire, {"stats"} \ {"stats"})
    BY DEF Out
  <2> QED BY <1>1, <2>1, SendAgainRequests DEF FiguresInv
<1> QED BY <1>1, <1>2, CallFields DEF FiguresInv, FiguresAsked

LEMMA FiguresServed ==
  ASSUME FiguresInv, NEW i \in DOMAIN wire, Figures!Serve(i) \/ Figures!Lose(i)
  PROVE  FiguresInv'
<1>1. view' = view
  BY DEF Figures!Serve, Figures!Lose
<1>2. wire[i] \in Requests(wire) /\ FiguresAsked(view, wire[i])
  BY DEF FiguresInv, Requests
<1>3. \E r : /\ IsWire(wire') /\ One(wire', {"stats"}) /\ Requests(wire') \subseteq Requests(wire) \cup {r}
             /\ Out(wire', {"stats"}) <=> Out(wire, {"stats"})
             /\ FiguresAsked(view, r)
  <2>1. CASE Figures!Serve(i)
    <3>1. PICK a : wire' = Ok(wire, i, a) /\ (wire[i].kind = "stats" => a = wire[i].arg)
      BY <2>1, FiguresWire DEF Figures!Serve
    <3> DEFINE r == [kind |-> wire[i].kind, arg |-> wire[i].arg, is |-> "ok", answer |-> {a}]
    <3>2. FiguresAsked(view, r)
      <4>1. r.kind = wire[i].kind /\ r.arg = wire[i].arg /\ r.answer = {a}
        OBVIOUS
      <4> HIDE DEF r
      <4> QED BY <1>2, <3>1, <4>1 DEF FiguresAsked
    <3>3. /\ IsWire(wire') /\ One(wire', {"stats"}) /\ Requests(wire') \subseteq Requests(wire) \cup {r}
          /\ Out(wire', {"stats"}) <=> Out(wire, {"stats"})
      BY <3>1, OkRequests DEF FiguresInv
    <3> QED BY <3>2, <3>3
  <2>2. CASE Figures!Lose(i)
    <3> DEFINE r == [kind |-> wire[i].kind, arg |-> wire[i].arg, is |-> "lost", answer |-> wire[i].answer]
    <3>1. wire' = Settle(wire, i, "lost")
      BY <2>2, FiguresWire DEF Figures!Lose
    <3>2. FiguresAsked(view, r)
      <4>1. r.kind = wire[i].kind /\ r.arg = wire[i].arg /\ r.is = "lost"
        OBVIOUS
      <4> HIDE DEF r
      <4> QED BY <1>2, <4>1 DEF FiguresAsked
    <3>3. /\ IsWire(wire') /\ One(wire', {"stats"}) /\ Requests(wire') \subseteq Requests(wire) \cup {r}
          /\ Out(wire', {"stats"}) <=> Out(wire, {"stats"})
      BY <3>1, SettleRequests DEF FiguresInv
    <3> QED BY <3>2, <3>3
  <2> QED BY <2>1, <2>2
<1> QED BY <1>1, <1>3 DEF FiguresInv

LEMMA FiguresStep ==
  ASSUME FiguresInv, Figures!Next PROVE FiguresInv'
<1>1. ASSUME NEW v, Figures!Choose(v),
             \/ \E x : v = [view EXCEPT !.range = x]
             \/ \E x : v = [view EXCEPT !.user = x]
             \/ \E x : v = [view EXCEPT !.household = x]
      PROVE  FiguresInv'
  BY <1>1, FiguresChosen DEF FiguresInv
<1>2. ASSUME NEW x, Figures!ChooseRange(x) \/ Figures!ChooseUser(x) \/ Figures!ChooseHousehold(x)
      PROVE  FiguresInv'
  BY <1>1, <1>2 DEF Figures!ChooseRange, Figures!ChooseUser, Figures!ChooseHousehold
<1> QED BY <1>2, FiguresReceives, FiguresServed DEF Figures!Next


FiguresOnly == page = "figures" => FiguresInv

LEMMA SpecImpliesFiguresOnly == Spec => []FiguresOnly
<1>1. Init => FiguresOnly
  BY FiguresInit DEF Init, FiguresOnly
<1>2. FiguresOnly /\ [Next]_vars => FiguresOnly'
  <2> SUFFICES ASSUME FiguresOnly, [Next]_vars, page' = "figures" PROVE FiguresInv'
    BY DEF FiguresOnly
  <2>1. CASE UNCHANGED vars
    BY <2>1 DEF vars, FiguresOnly, FiguresInv, FiguresAsked
  <2>2. CASE Next
    <3>1. page = "figures" /\ Figures!Next
      BY <2>2 DEF Next
    <3> QED BY <3>1, FiguresStep DEF FiguresOnly
  <2> QED BY <2>1, <2>2
<1> QED BY <1>1, <1>2, PTL DEF Spec

(* A table that says it is loading waits for a request, and settled it shows*)
(* the answer to the query above it, without a row it said was removed; the *)
(* figures of the statistics answer their filters (useServerTable.ts:255-   *)
(* 283, Chores.tsx:184-196, Statistics.tsx:77-107).                         *)
THEOREM SpecImpliesTablesSettle == Spec => []TablesSettle
<1>1. TableOnly /\ page = "table" =>
        Table!SpinnerHasRequest /\ Table!RowsAnswerTheQuery /\ Table!RemovedIsGone
  BY TableWire DEF TableOnly, TableInv, TableSound, TableRests, Table!SpinnerHasRequest,
     Table!RowsAnswerTheQuery, Table!RemovedIsGone, Table!AtRest, Table!Asking, Table!toApiQuery
<1>2. FiguresOnly /\ page = "figures" => Figures!FiguresAnswerTheFilters
  BY FiguresWire DEF FiguresOnly, FiguresInv, Figures!FiguresAnswerTheFilters
<1>3. TableOnly /\ FiguresOnly => TablesSettle
  BY <1>1, <1>2 DEF TablesSettle
<1> QED BY <1>3, SpecImpliesTableOnly, SpecImpliesFiguresOnly, PTL

(* Settings the API turned down are remembered nowhere, and once the options*)
(* are known no list is narrowed by one that cannot be picked any more      *)
(* (useServerTable.ts:341-357, Chores.tsx:101-126, History.tsx:96-123).     *)
THEOREM SpecImpliesNoTableIsWedged == Spec => []NoTableIsWedged
<1>1. TableOnly /\ page = "table" => Table!RejectedIsForgotten /\ Table!DeadFilterIsDropped
  BY TableWire DEF TableOnly, TableInv, TableSound, TableRests, Picked, Table!RejectedIsForgotten,
     Table!DeadFilterIsDropped, Table!AtRest, Table!Asking
<1>2. TableOnly => NoTableIsWedged
  BY <1>1 DEF NoTableIsWedged
<1> QED BY <1>2, SpecImpliesTableOnly, PTL

-----------------------------------------------------------------------------
(* The board                                                               *)

LEMMA BoardWire ==
  /\ \A w, k, a : Board!SendAgain(w, k, a) = SendAgain(w, k, a)
  /\ \A w, k : Board!Ignore(w, k) = Ignore(w, k)
  /\ \A w, k, a : Board!Send(w, k, a) = Send(w, k, a)
  /\ \A k, a : Board!Call(k, a) = Call(k, a)
  /\ \A w, i, a : Board!Ok(w, i, a) = Ok(w, i, a)
  /\ \A w, i, s : Board!Settle(w, i, s) = Settle(w, i, s)
  /\ \A w, i : Board!Received(w, i) = Received(w, i)
  /\ \A w, K : Board!Out(w, K) = Out(w, K)
  /\ \A w : Board!Settled(w) = Settled(w)
  /\ \A w : Board!Waiting(w) = Waiting(w)
  /\ \A r : Board!Data(r) = Data(r)
<1>1. \A S : Board!Cardinality(S) = Cardinality(S)
  BY DEF Board!Cardinality, Cardinality
<1>2. \A S, n : Board!Place(S, n) = Place(S, n)
  BY DEF Board!Place, Place, Board!Cardinality, Cardinality
<1>3. \A w, S : Board!Sift(w, S) = Sift(w, S)
  BY <1>1, <1>2 DEF Board!Sift, Sift
<1>4. \A w, k : Board!Ignore(w, k) = Ignore(w, k)
  BY <1>3 DEF Board!Ignore, Ignore
<1>5. \A w, k, a : Board!SendAgain(w, k, a) = SendAgain(w, k, a)
  BY <1>4 DEF Board!SendAgain, Board!Send, Board!Call, SendAgain, Send, Call
<1>6. \A w, k, a : Board!Send(w, k, a) = Send(w, k, a)
  BY DEF Board!Send, Board!Call, Send, Call
<1>7. \A k, a : Board!Call(k, a) = Call(k, a)
  BY DEF Board!Call, Call
<1> QED BY <1>4, <1>5, <1>6, <1>7
        DEF Board!Ok, Board!Settle, Board!Received, Board!Out, Board!Settled, Board!Waiting, Board!Data,
            Ok, Settle, Received, Out, Settled, Waiting, Data

BoardFields == {"page", "data", "loading", "error", "exiting", "dialog", "filter", "filters", "req",
                "text", "said", "told"}

Closing(r) == r.kind \in {"close", "refetch"}
Reading(r) == r.kind \in {"load", "refetch"}

BoardType(v, d) ==
  /\ DOMAIN v = BoardFields /\ v.req \in Nat
  /\ DOMAIN d = Chores /\ DOMAIN v.said = Chores /\ DOMAIN v.told = Chores
  /\ \A c \in Chores : d[c] \in Nat /\ v.told[c] \in Nat /\ v.told[c] <= d[c]

(* What a dialog asks about is not being closed already.                   *)
BoardDialog(v) ==
  /\ v.dialog.kind # "none" => v.dialog.chore \in Chores \ v.exiting
  /\ v.dialog.kind = "credit" => v.dialog.backdate = (v.said[v.dialog.chore] = "due")

(* A list for the filters on screen, read after the last closing that the  *)
(* page was told of.                                                       *)
Current(v, list) ==
  /\ DOMAIN list = Board!Listed(v.filter)
  /\ \A c \in DOMAIN list : list[c] >= v.told[c]

BoardAsked(v, d, r) ==
  /\ Closing(r) => r.arg.chore \in Chores \cap v.exiting
  /\ r.kind = "close" /\ r.arg.as = "done" => r.arg.backdate = (v.said[r.arg.chore] = "due")
  /\ r.kind = "close" /\ r.is = "ok" => Data(r) \in Nat /\ Data(r) <= d[r.arg.chore]
  /\ Reading(r) => r.arg.req \in Nat /\ r.arg.req <= v.req
  /\ Reading(r) /\ r.arg.req = v.req =>
       /\ r.arg.query = v.filter
       /\ r.is = "ok" => Current(v, Data(r))

(* What is shown is the answer to one read, and if that was the last, it is*)
(* current.                                                                *)
BoardShown(v) ==
  \A e \in v.data : v.data = {e} /\ e.req \in Nat /\ e.req <= v.req /\ (e.req = v.req => Current(v, e.list))

OneClosingEach(w) ==
  \A i, j \in DOMAIN w : Closing(w[i]) /\ Closing(w[j]) /\ w[i].arg.chore = w[j].arg.chore => i = j

BoardSound(v, w, d) ==
  /\ IsWire(w) /\ BoardType(v, d) /\ BoardDialog(v) /\ BoardShown(v) /\ OneClosingEach(w)
  /\ \A r \in Requests(w) : BoardAsked(v, d, r)

(* The last read is shown, or on its way, or will be asked for again once a*)
(* closing is answered; or the page says that something went wrong.        *)
BoardLive(v, w) ==
  \/ v.error \/ Out(w, {"close"})
  \/ \E r \in Requests(w) : Reading(r) /\ r.arg.req = v.req
  \/ \A e \in v.data : e.req = v.req

BoardInv == BoardSound(view, wire, world) /\ BoardLive(view, wire)


(* What stays when requests go, one goes out, or one is answered.          *)
LEMMA BoardKeeps ==
  ASSUME NEW w, IsWire(w), NEW w2, NEW S, S \subseteq DOMAIN w, Keeps(w2, w, S), IsWire(w2), OneClosingEach(w)
  PROVE  OneClosingEach(w2)
<1>1. PICK f \in [DOMAIN w2 -> S] :
         /\ \A n \in DOMAIN w2 : w2[n] = w[f[n]]
         /\ \A m, n \in DOMAIN w2 : m < n => f[m] < f[n]
         /\ \A i \in S : \E n \in DOMAIN w2 : f[n] = i
  BY DEF Keeps
<1>2. \A n \in DOMAIN w2 : f[n] \in DOMAIN w /\ f[n] \in Nat /\ n \in Nat
  BY <1>1 DEF IsWire
<1>3. ASSUME NEW m \in DOMAIN w2, NEW n \in DOMAIN w2, Closing(w2[m]), Closing(w2[n]),
             w2[m].arg.chore = w2[n].arg.chore
      PROVE  m = n
  <2>1. f[m] = f[n]
    BY <1>1, <1>2, <1>3 DEF OneClosingEach
  <2>2. ~(m < n) /\ ~(n < m)
    BY <1>1, <1>2, <2>1
  <2> QED BY <1>2, <2>2
<1> QED BY <1>3 DEF OneClosingEach

LEMMA BoardIgnores ==
  ASSUME NEW w, IsWire(w), NEW k
  PROVE  OneClosingEach(w) => OneClosingEach(Ignore(w, k))
<1> DEFINE S == {i \in DOMAIN w : w[i].kind # k}
<1>1. IsWire(Ignore(w, k)) /\ Keeps(Ignore(w, k), w, S) /\ S \subseteq DOMAIN w
  BY SiftWire DEF Ignore
<1> HIDE DEF S
<1> QED BY <1>1, BoardKeeps

LEMMA BoardSends ==
  ASSUME NEW w, IsWire(w), NEW k, NEW a, OneClosingEach(w),
         k \in {"close", "refetch"} => \A r \in Requests(w) : Closing(r) => r.arg.chore # a.chore
  PROVE  OneClosingEach(Send(w, k, a))
<1> DEFINE x == Send(w, k, a)
           c == Call(k, a)
<1>1. /\ DOMAIN w = 1..Len(w) /\ Len(w) \in Nat /\ DOMAIN x = 1..(Len(w) + 1)
      /\ \A i \in DOMAIN w : x[i] = w[i]
      /\ x[Len(w) + 1] = c
  BY SendWire
<1>2. c.kind = k /\ c.arg = a
  BY CallFields
<1> HIDE DEF x, c
<1>3. \A i \in DOMAIN x : i \in DOMAIN w \/ i = Len(w) + 1
  BY <1>1
<1>4. \A i \in DOMAIN w : w[i] \in Requests(w)
  BY DEF Requests
<1>5. Closing(c) => \A i \in DOMAIN w : Closing(w[i]) => w[i].arg.chore # a.chore
  BY <1>2, <1>4 DEF Closing
<1>6. OneClosingEach(x)
  BY <1>1, <1>2, <1>3, <1>5 DEF OneClosingEach
<1> QED BY <1>6 DEF x

LEMMA BoardTurns ==
  ASSUME NEW w, NEW i \in DOMAIN w, NEW w2, NEW r, Becomes(w2, w, i, r), r.kind = w[i].kind, r.arg = w[i].arg,
         OneClosingEach(w)
  PROVE  OneClosingEach(w2)
<1>1. \A j \in DOMAIN w : w2[j].kind = w[j].kind /\ w2[j].arg = w[j].arg
  BY DEF Becomes
<1>2. DOMAIN w2 = DOMAIN w
  BY DEF Becomes
<1> QED BY <1>1, <1>2 DEF OneClosingEach, Closing

(* The request that settles is known by what it now is.                    *)
LEMMA BoardSettles ==
  ASSUME BoardInv, NEW i \in DOMAIN wire, NEW r, Becomes(wire', wire, i, r), r.kind = wire[i].kind,
         r.arg = wire[i].arg, view' = view, BoardType(view', world'),
         \A c \in Chores : world'[c] >= world[c], BoardAsked(view', world', r)
  PROVE  BoardInv'
<1>1. /\ IsWire(wire') /\ Requests(wire') \subseteq Requests(wire) \cup {r} /\ r \in Requests(wire')
      /\ Requests(wire) \subseteq Requests(wire') \cup {wire[i]}
      /\ \A K : Out(wire', K) <=> Out(wire, K)
  BY DEF Becomes
<1>2. OneClosingEach(wire')
  BY BoardTurns DEF BoardInv, BoardSound
<1>3. ASSUME NEW q \in Requests(wire) PROVE BoardAsked(view', world', q)
  <2>1. BoardAsked(view, world, q) /\ BoardType(view, world)
    BY DEF BoardInv, BoardSound
  <2>2. q.kind = "close" => q.arg.chore \in Chores
    BY <2>1 DEF BoardAsked, Closing
  <2>3. q.kind = "close" /\ q.is = "ok" => Data(q) <= world'[q.arg.chore]
    BY <2>1, <2>2 DEF BoardAsked, BoardType
  <2> QED BY <2>1, <2>3 DEF BoardAsked
<1>4. BoardSound(view', wire', world')
  BY <1>1, <1>2, <1>3 DEF BoardInv, BoardSound
<1>5. BoardLive(view', wire')
  BY <1>1 DEF BoardInv, BoardLive, Reading
<1> QED BY <1>4, <1>5 DEF BoardInv

LEMMA BoardServesList ==
  ASSUME BoardInv, NEW i \in DOMAIN wire, Board!ServeList(i) PROVE BoardInv'
<1> DEFINE list == Board!HomeData(wire[i].arg.query)
<1>1. /\ wire[i].kind \in {"load", "refetch"} /\ wire' = Ok(wire, i, list) /\ view' = view /\ world' = world
  BY BoardWire DEF Board!ServeList
<1>2. PICK r : /\ r.kind = wire[i].kind /\ r.arg = wire[i].arg /\ r.is = "ok" /\ r.answer = {list}
               /\ Becomes(wire', wire, i, r)
  BY <1>1, OkRequest DEF BoardInv, BoardSound
<1>3. BoardType(view, world) /\ BoardAsked(view, world, wire[i])
  BY DEF BoardInv, BoardSound, Requests
<1>4. Data(r) = list
  BY <1>2, DataAnswered
<1>5. ASSUME r.arg.req = view.req PROVE Current(view, list)
  <2>1. wire[i].arg.query = view.filter
    BY <1>1, <1>2, <1>3, <1>5 DEF BoardAsked, Reading
  <2>2. Board!Listed(view.filter) \subseteq Chores
    BY DEF Board!Listed
  <2>3. list = [c \in Board!Listed(view.filter) |-> world[c]]
    BY <2>1 DEF Board!HomeData, Board!Occurrence
  <2> HIDE DEF list
  <2> QED BY <2>2, <2>3, <1>3 DEF Current, BoardType
<1> HIDE DEF list
<1>6. BoardAsked(view', world', r)
  BY <1>1, <1>2, <1>3, <1>4, <1>5 DEF BoardAsked, Closing, Reading
<1>7. \A c \in Chores : world'[c] >= world[c]
  BY <1>1, <1>3 DEF BoardType
<1> QED BY <1>1, <1>2, <1>3, <1>6, <1>7, BoardSettles

LEMMA BoardWorldGrows ==
  ASSUME BoardType(view, world), NEW c \in Chores, world' = [world EXCEPT ![c] = @ + 1], view' = view
  PROVE  /\ BoardType(view', world') /\ world'[c] = world[c] + 1
         /\ \A x \in Chores : world'[x] >= world[x]
<1>1. /\ DOMAIN world' = Chores
      /\ \A x \in Chores : world'[x] = IF x = c THEN world[c] + 1 ELSE world[x]
  BY DEF BoardType
<1> QED BY <1>1 DEF BoardType

LEMMA BoardServesClose ==
  ASSUME BoardInv, NEW i \in DOMAIN wire, Board!ServeClose(i) PROVE BoardInv'
<1> DEFINE c == wire[i].arg.chore
<1>1. /\ wire[i].kind = "close" /\ wire' = Ok(wire, i, world[c] + 1) /\ view' = view
      /\ world' = [world EXCEPT ![c] = @ + 1]
  BY BoardWire DEF Board!ServeClose
<1>2. PICK r : /\ r.kind = wire[i].kind /\ r.arg = wire[i].arg /\ r.is = "ok" /\ r.answer = {world[c] + 1}
               /\ Becomes(wire', wire, i, r)
  BY <1>1, OkRequest DEF BoardInv, BoardSound
<1>3. BoardType(view, world) /\ BoardAsked(view, world, wire[i])
  BY DEF BoardInv, BoardSound, Requests
<1>4. c \in Chores
  BY <1>1, <1>3 DEF BoardAsked, Closing
<1>5. Data(r) = world[c] + 1
  BY <1>2, DataAnswered
<1>6. /\ BoardType(view', world') /\ world'[c] = world[c] + 1
      /\ \A x \in Chores : world'[x] >= world[x]
  BY <1>1, <1>3, <1>4, BoardWorldGrows
<1>7. Data(r) \in Nat /\ Data(r) <= world'[c]
  BY <1>3, <1>4, <1>5, <1>6 DEF BoardType
<1>8. BoardAsked(view', world', r)
  BY <1>1, <1>2, <1>3, <1>7 DEF BoardAsked, Closing, Reading
<1> QED BY <1>1, <1>2, <1>6, <1>8, BoardSettles

LEMMA BoardServesRead ==
  ASSUME BoardInv, NEW i \in DOMAIN wire, Board!ServeRead(i) PROVE BoardInv'
<1>1. wire[i].kind \in {"options", "text"} /\ wire' = Ok(wire, i, TRUE) /\ view' = view /\ world' = world
  BY BoardWire DEF Board!ServeRead
<1>2. PICK r : /\ r.kind = wire[i].kind /\ r.arg = wire[i].arg /\ r.is = "ok" /\ r.answer = {TRUE}
               /\ Becomes(wire', wire, i, r)
  BY <1>1, OkRequest DEF BoardInv, BoardSound
<1>3. BoardAsked(view', world', r)
  BY <1>1, <1>2 DEF BoardAsked, Closing, Reading
<1>4. BoardType(view', world') /\ \A c \in Chores : world'[c] >= world[c]
  BY <1>1 DEF BoardInv, BoardSound, BoardType
<1> QED BY <1>1, <1>2, <1>3, <1>4, BoardSettles

LEMMA BoardLoses ==
  ASSUME BoardInv, NEW i \in DOMAIN wire, Board!Lose(i) PROVE BoardInv'
<1>1. wire' = Settle(wire, i, "lost") /\ view' = view /\ world' = world
  BY BoardWire DEF Board!Lose
<1>2. PICK r : /\ r.kind = wire[i].kind /\ r.arg = wire[i].arg /\ r.is = "lost" /\ r.answer = wire[i].answer
               /\ Becomes(wire', wire, i, r)
  BY <1>1, SettleRequest DEF BoardInv, BoardSound
<1>3. BoardAsked(view, world, wire[i])
  BY DEF BoardInv, BoardSound, Requests
<1>4. BoardAsked(view', world', r)
  BY <1>1, <1>2, <1>3 DEF BoardAsked, Closing, Reading
<1>5. BoardType(view', world') /\ \A c \in Chores : world'[c] >= world[c]
  BY <1>1 DEF BoardInv, BoardSound, BoardType
<1> QED BY <1>1, <1>2, <1>4, <1>5, BoardSettles

LEMMA BoardOtherCloses ==
  ASSUME BoardInv, NEW c \in Chores, Board!OtherCloses(c) PROVE BoardInv'
<1>1. view' = view /\ wire' = wire /\ world' = [world EXCEPT ![c] = @ + 1]
  BY DEF Board!OtherCloses
<1>2. BoardType(view', world') /\ \A x \in Chores : world'[x] >= world[x]
  BY <1>1, BoardWorldGrows DEF BoardInv, BoardSound
<1>3. ASSUME NEW q \in Requests(wire) PROVE BoardAsked(view', world', q)
  <2>1. BoardAsked(view, world, q) /\ BoardType(view, world)
    BY DEF BoardInv, BoardSound
  <2>2. q.kind = "close" /\ q.is = "ok" => Data(q) <= world'[q.arg.chore]
    <3>1. q.kind = "close" => q.arg.chore \in Chores
      BY <2>1 DEF BoardAsked, Closing
    <3> QED BY <2>1, <3>1, <1>2, <1>1 DEF BoardAsked, BoardType
  <2> QED BY <2>1, <2>2, <1>1 DEF BoardAsked
<1>4. BoardSound(view', wire', world')
  BY <1>1, <1>2, <1>3 DEF BoardInv, BoardSound
<1> QED BY <1>1, <1>4 DEF BoardInv, BoardLive

(* Answers.                                                                *)
LEMMA BoardReceived ==
  ASSUME BoardInv, NEW i \in DOMAIN wire, NEW w, w = Received(wire, i)
  PROVE  /\ IsWire(w) /\ OneClosingEach(w) /\ wire[i] \in Requests(wire)
         /\ Requests(w) \subseteq Requests(wire) /\ Requests(wire) \subseteq Requests(w) \cup {wire[i]}
         /\ BoardAsked(view, world, wire[i])
         /\ Closing(wire[i]) => \A q \in Requests(w) : Closing(q) => q.arg.chore # wire[i].arg.chore
         /\ Out(wire, {"close"}) /\ wire[i].kind # "close" => Out(w, {"close"})
<1> DEFINE S == DOMAIN wire \ {i}
<1>1. IsWire(wire) /\ OneClosingEach(wire)
  BY DEF BoardInv, BoardSound
<1>2. IsWire(w) /\ Keeps(w, wire, S)
  BY <1>1, ReceivedWire
<1>3. Requests(w) = {wire[j] : j \in S}
  BY <1>1, <1>2, KeepsRequests
<1>4. OneClosingEach(w)
  BY <1>1, <1>2, BoardKeeps
<1>5. Closing(wire[i]) => \A q \in Requests(w) : Closing(q) => q.arg.chore # wire[i].arg.chore
  BY <1>1, <1>3 DEF OneClosingEach
<1>6. wire[i] \in Requests(wire) /\ Requests(w) \subseteq Requests(wire)
  BY <1>3 DEF Requests
<1>7. Requests(wire) \subseteq Requests(w) \cup {wire[i]}
  BY <1>3 DEF Requests
<1>8. BoardAsked(view, world, wire[i])
  BY <1>6 DEF BoardInv, BoardSound
<1>9. Out(wire, {"close"}) /\ wire[i].kind # "close" => Out(w, {"close"})
  BY <1>1, ReceivedRequests
<1> QED BY <1>2, <1>4, <1>5, <1>6, <1>7, <1>8, <1>9

(* A read is answered: shown if it is the last, and a row may be released. *)
LEMMA BoardReads ==
  ASSUME BoardInv, NEW i \in DOMAIN wire, Reading(wire[i]), wire' = Received(wire, i), world' = world,
         DOMAIN view' = BoardFields, view'.dialog = view.dialog, view'.filter = view.filter,
         view'.req = view.req, view'.said = view.said, view'.told = view.told,
         \/ view'.exiting = view.exiting
         \/ Closing(wire[i]) /\ view'.exiting = view.exiting \ {wire[i].arg.chore},
         IF wire[i].is = "ok"
         THEN view'.error = view.error /\ view'.data = IF wire[i].arg.req = view.req
                                   THEN {[list |-> Data(wire[i]), req |-> wire[i].arg.req]} ELSE view.data
         ELSE view'.error = TRUE /\ view'.data = view.data
  PROVE  BoardInv'
<1>1. /\ IsWire(wire') /\ OneClosingEach(wire')
      /\ Requests(wire') \subseteq Requests(wire) /\ Requests(wire) \subseteq Requests(wire') \cup {wire[i]}
      /\ BoardAsked(view, world, wire[i])
      /\ Closing(wire[i]) => \A q \in Requests(wire') : Closing(q) => q.arg.chore # wire[i].arg.chore
      /\ Out(wire, {"close"}) => Out(wire', {"close"})
  BY BoardReceived DEF Reading
<1>2. BoardType(view', world') /\ BoardDialog(view')
  BY DEF BoardInv, BoardSound, BoardType, BoardDialog
<1>3. ASSUME NEW q \in Requests(wire') PROVE BoardAsked(view', world', q)
  <2>1. BoardAsked(view, world, q) /\ (Closing(q) => q.arg.chore \in view'.exiting)
    BY <1>1 DEF BoardInv, BoardSound, BoardAsked
  <2> QED BY <2>1 DEF BoardAsked, Current
<1>4. BoardShown(view')
  <2>1. BoardShown(view) /\ wire[i].arg.req \in Nat /\ wire[i].arg.req <= view.req
    BY <1>1 DEF BoardInv, BoardSound, BoardAsked
  <2>2. CASE view'.data = view.data
    BY <2>1, <2>2 DEF BoardShown, Current
  <2>3. CASE wire[i].is = "ok" /\ wire[i].arg.req = view.req
    <3>1. Current(view', Data(wire[i]))
      BY <2>3, <1>1 DEF BoardAsked, Current
    <3> QED BY <2>1, <2>3, <3>1 DEF BoardShown
  <2> QED BY <2>2, <2>3
<1>5. BoardSound(view', wire', world')
  BY <1>1, <1>2, <1>3, <1>4 DEF BoardSound
<1>6. BoardLive(view', wire')
  <2>1. CASE wire[i].is # "ok"
    BY <2>1 DEF BoardLive
  <2>2. CASE wire[i].is = "ok" /\ wire[i].arg.req = view.req
    BY <2>2 DEF BoardLive
  <2>3. CASE wire[i].is = "ok" /\ wire[i].arg.req # view.req
    BY <2>3, <1>1 DEF BoardInv, BoardLive
  <2> QED BY <2>1, <2>2, <2>3
<1> QED BY <1>5, <1>6 DEF BoardInv

LEMMA BoardReceivesLoad ==
  ASSUME BoardInv, NEW i \in DOMAIN wire, Board!ReceiveLoad(i) PROVE BoardInv'
<1>1. wire[i].kind = "load" /\ wire' = Received(wire, i) /\ world' = world
  BY BoardWire DEF Board!ReceiveLoad
<1>2. DOMAIN view = BoardFields
  BY DEF BoardInv, BoardSound, BoardType
<1> DEFINE v == [view EXCEPT !.loading = FALSE]
<1>3. /\ DOMAIN v = BoardFields /\ v.dialog = view.dialog /\ v.filter = view.filter /\ v.req = view.req
      /\ v.said = view.said /\ v.told = view.told /\ v.exiting = view.exiting
      /\ v.error = view.error /\ v.data = view.data
  BY <1>2 DEF BoardFields
<1>4. view' = IF wire[i].is = "ok" THEN Board!setData(v, wire[i]) ELSE [v EXCEPT !.error = TRUE]
  BY DEF Board!ReceiveLoad
<1> HIDE DEF v
<1>5. /\ DOMAIN view' = BoardFields /\ view'.dialog = v.dialog /\ view'.filter = v.filter
      /\ view'.req = v.req /\ view'.said = v.said /\ view'.told = v.told /\ view'.exiting = v.exiting
      /\ IF wire[i].is = "ok"
         THEN view'.error = v.error /\ view'.data = IF wire[i].arg.req = v.req
                                   THEN {[list |-> Data(wire[i]), req |-> wire[i].arg.req]} ELSE v.data
         ELSE view'.error = TRUE /\ view'.data = v.data
  BY <1>3, <1>4, BoardWire DEF BoardFields, Board!setData
<1> QED BY <1>1, <1>3, <1>5, BoardReads DEF Reading

LEMMA BoardReceivesRefetch ==
  ASSUME BoardInv, NEW i \in DOMAIN wire, Board!ReceiveRefetch(i) PROVE BoardInv'
<1>1. wire[i].kind = "refetch" /\ wire' = Received(wire, i) /\ world' = world
  BY BoardWire DEF Board!ReceiveRefetch
<1>2. DOMAIN view = BoardFields
  BY DEF BoardInv, BoardSound, BoardType
<1> DEFINE v == Board!stopExiting(view, wire[i].arg.chore)
<1>3. /\ DOMAIN v = BoardFields /\ v.dialog = view.dialog /\ v.filter = view.filter /\ v.req = view.req
      /\ v.said = view.said /\ v.told = view.told /\ v.exiting = view.exiting \ {wire[i].arg.chore}
      /\ v.error = view.error /\ v.data = view.data
  BY <1>2 DEF BoardFields, Board!stopExiting
<1>4. view' = IF wire[i].is = "ok" THEN Board!setData(v, wire[i]) ELSE [v EXCEPT !.error = TRUE]
  BY DEF Board!ReceiveRefetch
<1> HIDE DEF v
<1>5. /\ DOMAIN view' = BoardFields /\ view'.dialog = v.dialog /\ view'.filter = v.filter
      /\ view'.req = v.req /\ view'.said = v.said /\ view'.told = v.told /\ view'.exiting = v.exiting
      /\ IF wire[i].is = "ok"
         THEN view'.error = v.error /\ view'.data = IF wire[i].arg.req = v.req
                                   THEN {[list |-> Data(wire[i]), req |-> wire[i].arg.req]} ELSE v.data
         ELSE view'.error = TRUE /\ view'.data = v.data
  BY <1>3, <1>4, BoardWire DEF BoardFields, Board!setData
<1> QED BY <1>1, <1>3, <1>5, BoardReads DEF Reading, Closing

(* A closing is answered: the list is read again, or the row is released.  *)
LEMMA BoardReceivesClose ==
  ASSUME BoardInv, NEW i \in DOMAIN wire, Board!ReceiveClose(i) PROVE BoardInv'
<1> DEFINE c == wire[i].arg.chore
           w == Received(wire, i)
<1>1. /\ wire[i].kind = "close" /\ world' = world
      /\ IF wire[i].is = "ok" THEN Board!Refetch([view EXCEPT !.told[c] = Data(wire[i])], w, c)
         ELSE view' = Board!stopExiting([view EXCEPT !.error = TRUE], c) /\ wire' = w
  BY BoardWire DEF Board!ReceiveClose
<1>2. /\ IsWire(w) /\ OneClosingEach(w) /\ Requests(w) \subseteq Requests(wire)
      /\ BoardAsked(view, world, wire[i])
      /\ \A q \in Requests(w) : Closing(q) => q.arg.chore # c
  BY <1>1, BoardReceived DEF Closing
<1>3. BoardType(view, world) /\ BoardShown(view) /\ BoardDialog(view)
  BY DEF BoardInv, BoardSound
<1>4. c \in Chores /\ c \in view.exiting
  BY <1>1, <1>2 DEF BoardAsked, Closing
<1>5. \A q \in Requests(w) : BoardAsked(view, world, q)
  BY <1>2 DEF BoardInv, BoardSound
<1> HIDE DEF c, w
<1>6. CASE wire[i].is = "ok"
  <2> DEFINE a == [req |-> view.req + 1, query |-> view.filter, chore |-> c]
             t == [view.told EXCEPT ![c] = Data(wire[i])]
             v == [view EXCEPT !.told[c] = Data(wire[i])]
  <2>1. DOMAIN v = BoardFields /\ v.told = t /\ v.req = view.req /\ v.filter = view.filter
        /\ v.dialog = view.dialog /\ v.said = view.said /\ v.exiting = view.exiting /\ v.data = view.data
    BY <1>3 DEF BoardType, BoardFields
  <2>2. view' = [v EXCEPT !.req = v.req + 1] /\ wire' = Send(w, "refetch", a)
    BY <1>1, <1>6, <2>1, BoardWire DEF Board!Refetch, Board!Query
  <2>3. /\ DOMAIN view' = BoardFields /\ view'.told = t /\ view'.req = view.req + 1
        /\ view'.filter = view.filter /\ view'.dialog = view.dialog /\ view'.said = view.said
        /\ view'.exiting = view.exiting /\ view'.data = view.data
    <3> HIDE DEF v
    <3> QED BY <2>1, <2>2 DEF BoardFields
  <2>4. a.chore = c /\ a.req = view.req + 1 /\ a.query = view.filter
    OBVIOUS
  <2> HIDE DEF v, a
  <2>5. BoardType(view', world')
    <3>1. Data(wire[i]) \in Nat /\ Data(wire[i]) <= world[c]
      BY <1>1, <1>2, <1>6 DEF BoardAsked, c
    <3>2. DOMAIN t = Chores /\ \A x \in Chores : t[x] = IF x = c THEN Data(wire[i]) ELSE view.told[x]
      BY <1>3 DEF BoardType
    <3> HIDE DEF t
    <3> QED BY <1>1, <1>3, <3>1, <3>2, <2>3 DEF BoardType
  <2>6. BoardDialog(view') /\ BoardShown(view')
    <3>1. \A e \in view'.data : e.req \in Nat /\ e.req <= view.req /\ e.req < view'.req
      BY <1>3, <2>3 DEF BoardShown, BoardType
    <3>2. BoardShown(view')
      BY <3>1, <1>3, <2>3 DEF BoardShown, BoardType
    <3> QED BY <3>2, <1>3, <2>3 DEF BoardDialog
  <2>7. /\ IsWire(wire') /\ Requests(wire') = Requests(w) \cup {Call("refetch", a)} /\ OneClosingEach(wire')
    BY <1>2, <2>2, <2>4, SendRequests, BoardSends
  <2>8. ASSUME NEW q \in Requests(w) PROVE BoardAsked(view', world', q)
    <3>1. Reading(q) => q.arg.req \in Nat /\ q.arg.req < view'.req /\ q.arg.req <= view'.req
      BY <1>3, <1>5, <2>3 DEF BoardAsked, BoardType
    <3>2. Reading(q) => q.arg.req # view'.req
      BY <3>1, <1>3, <2>3 DEF BoardType
    <3> QED BY <3>1, <3>2, <1>1, <1>5, <2>3 DEF BoardAsked
  <2>9. BoardAsked(view', world', Call("refetch", a))
    BY <2>3, <2>4, <1>3, <1>4, CallFields DEF BoardAsked, Closing, Reading, BoardType
  <2>10. BoardLive(view', wire')
    <3>1. Call("refetch", a) \in Requests(wire') /\ Reading(Call("refetch", a))
      BY <2>7, CallFields DEF Reading
    <3> QED BY <3>1, <2>3, <2>4, CallFields DEF BoardLive
  <2>11. BoardSound(view', wire', world')
    BY <2>5, <2>6, <2>7, <2>8, <2>9 DEF BoardSound
  <2> QED BY <2>10, <2>11 DEF BoardInv
<1>7. CASE wire[i].is # "ok"
  <2> DEFINE v == [view EXCEPT !.error = TRUE]
  <2>1. DOMAIN v = BoardFields /\ v.told = view.told /\ v.req = view.req /\ v.filter = view.filter
        /\ v.dialog = view.dialog /\ v.said = view.said /\ v.exiting = view.exiting /\ v.data = view.data
        /\ v.error = TRUE
    BY <1>3 DEF BoardType, BoardFields
  <2>2. view' = [v EXCEPT !.exiting = @ \ {c}] /\ wire' = w
    BY <1>1, <1>7 DEF Board!stopExiting
  <2> HIDE DEF v
  <2>3. /\ DOMAIN view' = BoardFields /\ view'.told = view.told /\ view'.req = view.req
        /\ view'.filter = view.filter /\ view'.dialog = view.dialog /\ view'.said = view.said
        /\ view'.exiting = view.exiting \ {c} /\ view'.data = view.data /\ view'.error = TRUE
    BY <2>1, <2>2 DEF BoardFields
  <2>4. BoardType(view', world') /\ BoardDialog(view') /\ BoardShown(view')
    BY <1>1, <1>3, <2>3 DEF BoardType, BoardDialog, BoardShown, Current
  <2>5. ASSUME NEW q \in Requests(w) PROVE BoardAsked(view', world', q)
    BY <1>1, <1>2, <1>5, <2>3 DEF BoardAsked, Current
  <2>6. BoardSound(view', wire', world') /\ BoardLive(view', wire')
    BY <1>2, <2>2, <2>3, <2>4, <2>5 DEF BoardSound, BoardLive
  <2> QED BY <2>6 DEF BoardInv
<1> QED BY <1>6, <1>7

(* The options of the filters, and the instructions of a chore.            *)
LEMMA BoardReceivesRest ==
  ASSUME BoardInv, NEW i \in DOMAIN wire, Board!ReceiveOptions(i) \/ Board!DescriptionBody(i) PROVE BoardInv'
<1>1. wire[i].kind \in {"options", "text"} /\ wire' = Received(wire, i) /\ world' = world
  BY BoardWire DEF Board!ReceiveOptions, Board!DescriptionBody
<1>2. BoardType(view, world) /\ BoardShown(view) /\ BoardDialog(view)
  BY DEF BoardInv, BoardSound
<1>3. /\ DOMAIN view' = BoardFields /\ view'.told = view.told /\ view'.req = view.req
      /\ view'.filter = view.filter /\ view'.dialog = view.dialog /\ view'.said = view.said
      /\ view'.exiting = view.exiting /\ view'.data = view.data /\ view'.error = view.error
  BY <1>2 DEF BoardType, BoardFields, Board!ReceiveOptions, Board!DescriptionBody
<1>4. /\ IsWire(wire') /\ OneClosingEach(wire')
      /\ Requests(wire') \subseteq Requests(wire) /\ Requests(wire) \subseteq Requests(wire') \cup {wire[i]}
      /\ Out(wire, {"close"}) => Out(wire', {"close"})
  BY <1>1, BoardReceived
<1>5. BoardType(view', world') /\ BoardDialog(view') /\ BoardShown(view')
  BY <1>1, <1>2, <1>3 DEF BoardType, BoardDialog, BoardShown, Current
<1>6. ASSUME NEW q \in Requests(wire') PROVE BoardAsked(view', world', q)
  BY <1>1, <1>3, <1>4 DEF BoardInv, BoardSound, BoardAsked, Current
<1>7. BoardSound(view', wire', world')
  BY <1>4, <1>5, <1>6 DEF BoardSound
<1>8. BoardLive(view', wire')
  BY <1>1, <1>3, <1>4 DEF BoardInv, BoardLive, Reading
<1> QED BY <1>7, <1>8 DEF BoardInv

(* What the user does.  Between closings only what is asked changes: said  *)
(* of a chore that is not being closed, and the dialog about it.           *)
LEMMA BoardDraws ==
  ASSUME NEW w, NEW d, NEW v, NEW v2, BoardSound(v, w, d), NEW c, c \notin v.exiting,
         DOMAIN v2 = BoardFields, DOMAIN v2.said = Chores, BoardDialog(v2),
         \A x \in Chores : x # c => v2.said[x] = v.said[x],
         v2.data = v.data, v2.error = v.error, v2.exiting = v.exiting, v2.filter = v.filter,
         v2.req = v.req, v2.told = v.told
  PROVE  BoardSound(v2, w, d) /\ (BoardLive(v, w) => BoardLive(v2, w))
<1>1. BoardType(v2, d) /\ BoardShown(v2)
  BY DEF BoardSound, BoardType, BoardShown, Current
<1>2. ASSUME NEW q \in Requests(w) PROVE BoardAsked(v2, d, q)
  <2>1. BoardAsked(v, d, q)
    BY DEF BoardSound
  <2>2. Closing(q) => q.arg.chore \in Chores /\ q.arg.chore # c
    BY <2>1 DEF BoardAsked
  <2>3. q.kind = "close" => v2.said[q.arg.chore] = v.said[q.arg.chore]
    BY <2>2 DEF Closing
  <2> QED BY <2>1, <2>3 DEF BoardAsked, Current
<1>3. BoardSound(v2, w, d)
  BY <1>1, <1>2 DEF BoardSound
<1> QED BY <1>3 DEF BoardLive

LEMMA BoardCloses ==
  ASSUME NEW v, BoardSound(v, wire, world), v.dialog.kind = "none", NEW c \in Chores, c \notin v.exiting,
         NEW a, a.chore = c, a.as = "done" => a.backdate = (v.said[c] = "due"),
         Board!closeChore(v, c, a), world' = world
  PROVE  BoardInv'
<1> DEFINE u == [v EXCEPT !.error = FALSE]
<1>1. BoardType(v, world) /\ BoardDialog(v) /\ BoardShown(v) /\ IsWire(wire) /\ OneClosingEach(wire)
  BY DEF BoardSound
<1>2. /\ DOMAIN u = BoardFields /\ u.told = v.told /\ u.req = v.req /\ u.filter = v.filter
      /\ u.dialog = v.dialog /\ u.said = v.said /\ u.exiting = v.exiting /\ u.data = v.data
  BY <1>1 DEF BoardType, BoardFields
<1>3. view' = Board!startExiting(u, c) /\ wire' = Send(wire, "close", a)
  BY BoardWire DEF Board!closeChore
<1> HIDE DEF u
<1>4. /\ DOMAIN view' = BoardFields /\ view'.told = v.told /\ view'.req = v.req /\ view'.filter = v.filter
      /\ view'.dialog = v.dialog /\ view'.said = v.said /\ view'.exiting = v.exiting \cup {c}
      /\ view'.data = v.data
  BY <1>2, <1>3 DEF BoardFields, Board!startExiting
<1>5. BoardType(view', world') /\ BoardDialog(view') /\ BoardShown(view')
  BY <1>1, <1>4 DEF BoardType, BoardDialog, BoardShown, Current
<1>6. \A q \in Requests(wire) : BoardAsked(v, world, q) /\ (Closing(q) => q.arg.chore # c)
  BY DEF BoardSound, BoardAsked
<1>7. /\ IsWire(wire') /\ Requests(wire') = Requests(wire) \cup {Call("close", a)}
      /\ Out(wire', {"close"}) /\ OneClosingEach(wire')
  BY <1>1, <1>3, <1>6, SendRequests, BoardSends
<1>8. ASSUME NEW q \in Requests(wire) PROVE BoardAsked(view', world', q)
  BY <1>4, <1>6 DEF BoardAsked, Current
<1>9. BoardAsked(view', world', Call("close", a))
  BY <1>4, CallFields DEF BoardAsked, Closing, Reading
<1>10. BoardSound(view', wire', world') /\ BoardLive(view', wire')
  BY <1>5, <1>7, <1>8, <1>9 DEF BoardSound, BoardLive
<1> QED BY <1>10 DEF BoardInv

LEMMA BoardAsks ==
  ASSUME NEW v, BoardSound(v, wire, world), BoardLive(v, wire), NEW c \in Chores, c \notin v.exiting,
         NEW m, m.kind # "none" => m.chore = c, m.kind = "credit" => m.backdate = (v.said[c] = "due"),
         view' = [v EXCEPT !.dialog = m], wire' = wire, world' = world
  PROVE  BoardInv'
<1>1. BoardType(v, world)
  BY DEF BoardSound
<1>2. /\ DOMAIN view' = BoardFields /\ view'.told = v.told /\ view'.req = v.req /\ view'.filter = v.filter
      /\ view'.dialog = m /\ view'.said = v.said /\ view'.exiting = v.exiting /\ view'.data = v.data
      /\ view'.error = v.error
  BY <1>1 DEF BoardType, BoardFields
<1>3. BoardDialog(view') /\ DOMAIN view'.said = Chores
  BY <1>1, <1>2 DEF BoardDialog, BoardType
<1>4. BoardSound(view', wire', world') /\ BoardLive(view', wire')
  BY <1>2, <1>3, BoardDraws
<1> QED BY <1>4 DEF BoardInv

LEMMA BoardCredits ==
  ASSUME NEW v, BoardSound(v, wire, world), BoardLive(v, wire), v.dialog.kind = "none",
         NEW c \in Chores, c \notin v.exiting, NEW b, b = (v.said[c] = "due"),
         \/ Board!requestCredit(v, c, b)
         \/ b = FALSE /\ Board!requestUnscheduled(v, c),
         world' = world
  PROVE  BoardInv'
<1> DEFINE m == [kind |-> "credit", chore |-> c, backdate |-> b]
           a == [chore |-> c, as |-> "done", credit |-> "me", backdate |-> b]
<1>1. /\ m.chore = c /\ m.kind = "credit" /\ m.backdate = b
      /\ a.chore = c /\ a.backdate = b
  OBVIOUS
<1>2. \/ Board!closeChore(v, c, a)
      \/ view' = [v EXCEPT !.dialog = m] /\ wire' = wire
  BY DEF Board!requestCredit, Board!requestUnscheduled, Board!completeChore, Board!completeUnscheduled
<1> HIDE DEF m, a
<1> QED BY <1>1, <1>2, BoardCloses, BoardAsks

LEMMA BoardDone ==
  ASSUME BoardInv, NEW c \in Chores, Board!Done(c) PROVE BoardInv'
<1> DEFINE v == [view EXCEPT !.said[c] = "nothing"]
           m == [kind |-> "backdate", chore |-> c, backdate |-> FALSE]
<1>1. BoardType(view, world) /\ BoardSound(view, wire, world) /\ BoardLive(view, wire)
  BY DEF BoardInv, BoardSound
<1>2. view.dialog.kind = "none" /\ c \notin view.exiting /\ world' = world
  BY DEF Board!Done, Board!Offered
<1>3. /\ DOMAIN v = BoardFields /\ DOMAIN v.said = Chores /\ v.said[c] = "nothing"
      /\ \A x \in Chores : x # c => v.said[x] = view.said[x]
      /\ v.told = view.told /\ v.req = view.req /\ v.filter = view.filter
      /\ v.dialog = view.dialog /\ v.exiting = view.exiting /\ v.data = view.data /\ v.error = view.error
  BY <1>1 DEF BoardType, BoardFields
<1>4. \/ Board!requestCredit(v, c, FALSE) \/ Board!requestUnscheduled(v, c)
      \/ view' = [v EXCEPT !.dialog = m] /\ wire' = wire
  BY DEF Board!Done, Board!requestComplete
<1>5. m.chore = c /\ m.kind = "backdate"
  OBVIOUS
<1> HIDE DEF v, m
<1>6. BoardDialog(v)
  BY <1>2, <1>3 DEF BoardDialog
<1>7. BoardSound(v, wire, world) /\ BoardLive(v, wire)
  BY <1>1, <1>2, <1>3, <1>6, BoardDraws
<1>8. FALSE = (v.said[c] = "due")
  BY <1>3
<1>9. CASE Board!requestCredit(v, c, FALSE) \/ Board!requestUnscheduled(v, c)
  BY <1>2, <1>3, <1>7, <1>8, <1>9, BoardCredits
<1>10. CASE view' = [v EXCEPT !.dialog = m] /\ wire' = wire
  BY <1>2, <1>3, <1>5, <1>7, <1>10, BoardAsks
<1> QED BY <1>4, <1>9, <1>10

LEMMA BoardAnswersWhen ==
  ASSUME BoardInv, NEW b \in BOOLEAN, Board!AnswerWhen(b) PROVE BoardInv'
<1> DEFINE c == view.dialog.chore
           s == IF b THEN "due" ELSE "now"
           v == [view EXCEPT !.dialog = Board!Closed, !.said[c] = s]
<1>1. /\ BoardType(view, world) /\ BoardDialog(view) /\ BoardSound(view, wire, world)
      /\ BoardLive(view, wire)
  BY DEF BoardInv, BoardSound
<1>2. view.dialog.kind = "backdate" /\ world' = world /\ Board!requestCredit(v, c, b)
  BY DEF Board!AnswerWhen
<1>3. c \in Chores /\ c \notin view.exiting
  BY <1>1, <1>2 DEF BoardDialog
<1>4. Board!Closed.kind = "none"
  BY DEF Board!Closed
<1>5. b = (s = "due")
  OBVIOUS
<1> HIDE DEF c, s
<1>6. /\ DOMAIN v = BoardFields /\ DOMAIN v.said = Chores /\ v.said[c] = s
      /\ \A x \in Chores : x # c => v.said[x] = view.said[x]
      /\ v.told = view.told /\ v.req = view.req /\ v.filter = view.filter
      /\ v.dialog = Board!Closed /\ v.exiting = view.exiting /\ v.data = view.data /\ v.error = view.error
  BY <1>1, <1>3 DEF BoardType, BoardFields
<1> HIDE DEF v
<1>7. BoardDialog(v)
  BY <1>4, <1>6 DEF BoardDialog
<1>8. BoardSound(v, wire, world) /\ BoardLive(v, wire)
  BY <1>1, <1>3, <1>6, <1>7, BoardDraws
<1> QED BY <1>2, <1>3, <1>4, <1>5, <1>6, <1>8, BoardCredits

(* The last question is answered: the dialog closes and the request goes.  *)
LEMMA BoardConfirms ==
  ASSUME BoardInv, Board!confirmSkip \/ \E credit \in {"me", "assignee"} : Board!AnswerWho(credit)
  PROVE  BoardInv'
<1> DEFINE c == view.dialog.chore
           v == [view EXCEPT !.dialog = Board!Closed]
<1>1. /\ BoardType(view, world) /\ BoardDialog(view) /\ BoardSound(view, wire, world)
      /\ BoardLive(view, wire)
  BY DEF BoardInv, BoardSound
<1>2. PICK a : /\ view.dialog.kind # "none" /\ world' = world /\ Board!closeChore(v, c, a)
               /\ a.chore = c /\ (a.as = "done" => a.backdate = (view.said[c] = "due"))
  <2>1. CASE Board!confirmSkip
    <3>1. PICK a : a = [chore |-> c, as |-> "skipped", credit |-> "me", backdate |-> FALSE]
      OBVIOUS
    <3>2. view.dialog.kind = "skip" /\ world' = world /\ Board!closeChore(v, c, a)
      BY <2>1, <3>1 DEF Board!confirmSkip, Board!skipChore
    <3>3. a.chore = c /\ a.as = "skipped"
      BY <3>1
    <3> QED BY <3>2, <3>3
  <2>2. ASSUME NEW credit \in {"me", "assignee"}, Board!AnswerWho(credit)
        PROVE  \E a : /\ view.dialog.kind # "none" /\ world' = world /\ Board!closeChore(v, c, a)
                      /\ a.chore = c /\ (a.as = "done" => a.backdate = (view.said[c] = "due"))
    <3>1. PICK a : a = [chore |-> c, as |-> "done", credit |-> credit, backdate |-> view.dialog.backdate]
      OBVIOUS
    <3>2. view.dialog.kind = "credit" /\ world' = world /\ Board!closeChore(v, c, a)
      BY <2>2, <3>1 DEF Board!AnswerWho, Board!creditAndComplete, Board!completeChore
    <3>3. a.chore = c /\ a.backdate = view.dialog.backdate
      BY <3>1
    <3>4. view.dialog.backdate = (view.said[c] = "due")
      BY <1>1, <3>2 DEF BoardDialog
    <3> QED BY <3>2, <3>3, <3>4
  <2> QED BY <2>1, <2>2
<1>3. c \in Chores /\ c \notin view.exiting
  BY <1>1, <1>2 DEF BoardDialog
<1>4. Board!Closed.kind = "none"
  BY DEF Board!Closed
<1> HIDE DEF c
<1>5. /\ DOMAIN v = BoardFields /\ v.said = view.said
      /\ v.told = view.told /\ v.req = view.req /\ v.filter = view.filter
      /\ v.dialog = Board!Closed /\ v.exiting = view.exiting /\ v.data = view.data /\ v.error = view.error
  BY <1>1 DEF BoardType, BoardFields
<1> HIDE DEF v
<1>6. BoardDialog(v) /\ DOMAIN v.said = Chores
  BY <1>1, <1>4, <1>5 DEF BoardDialog, BoardType
<1>7. BoardSound(v, wire, world)
  BY <1>1, <1>3, <1>5, <1>6, BoardDraws
<1> QED BY <1>2, <1>3, <1>4, <1>5, <1>7, BoardCloses

LEMMA BoardAsksSkip ==
  ASSUME BoardInv, NEW c \in Chores, Board!AskSkip(c) PROVE BoardInv'
<1> DEFINE m == [kind |-> "skip", chore |-> c, backdate |-> FALSE]
           v == [view EXCEPT !.said[c] = "nothing"]
<1>1. BoardType(view, world) /\ BoardSound(view, wire, world) /\ BoardLive(view, wire)
  BY DEF BoardInv, BoardSound
<1>2. /\ view.dialog.kind = "none" /\ c \notin view.exiting /\ world' = world /\ wire' = wire
      /\ view' = [view EXCEPT !.dialog = m, !.said[c] = "nothing"]
  BY DEF Board!AskSkip, Board!Offered
<1>3. m.chore = c /\ m.kind = "skip"
  OBVIOUS
<1> HIDE DEF m
<1>4. /\ DOMAIN view' = BoardFields /\ DOMAIN view'.said = Chores /\ view'.dialog = m
      /\ \A x \in Chores : x # c => view'.said[x] = view.said[x]
      /\ view'.told = view.told /\ view'.req = view.req /\ view'.filter = view.filter
      /\ view'.exiting = view.exiting /\ view'.data = view.data /\ view'.error = view.error
  BY <1>1, <1>2 DEF BoardType, BoardFields
<1>5. BoardDialog(view')
  BY <1>2, <1>3, <1>4 DEF BoardDialog
<1>6. BoardSound(view', wire, world) /\ BoardLive(view', wire)
  <2>1. c \notin view.exiting
    BY <1>2
  <2> QED BY <2>1, <1>1, <1>4, <1>5, BoardDraws
<1> QED BY <1>2, <1>6 DEF BoardInv

(* Opening and closing the instructions: the closings and the reads out    *)
(* stay as they are.                                                       *)
LEMMA BoardReadsOn ==
  ASSUME BoardInv, NEW w, IsWire(w), OneClosingEach(w), world' = world, wire' = w,
         Requests(w) \subseteq Requests(wire) \cup {Call("text", r.arg) : r \in Requests(w)},
         \A r \in Requests(wire) : r.kind # "text" => r \in Requests(w),
         Out(wire, {"close"}) => Out(w, {"close"}),
         DOMAIN view' = BoardFields, view'.said = view.said, view'.told = view.told,
         view'.req = view.req, view'.filter = view.filter, view'.exiting = view.exiting,
         view'.data = view.data, view'.error = view.error, BoardDialog(view')
  PROVE  BoardInv'
<1>1. BoardType(view', world') /\ BoardShown(view')
  BY DEF BoardInv, BoardSound, BoardType, BoardShown, Current
<1>2. ASSUME NEW q \in Requests(w) PROVE BoardAsked(view', world', q)
  <2>1. CASE q \in Requests(wire)
    BY <2>1 DEF BoardInv, BoardSound, BoardAsked, Current
  <2>2. CASE \E r \in Requests(w) : q = Call("text", r.arg)
    <3>1. q.kind = "text"
      BY <2>2, CallFields
    <3> QED BY <3>1 DEF BoardAsked, Closing, Reading
  <2> QED BY <2>1, <2>2
<1>3. BoardSound(view', wire', world')
  BY <1>1, <1>2 DEF BoardSound
<1>4. BoardLive(view', wire')
  BY DEF BoardInv, BoardLive, Reading
<1> QED BY <1>3, <1>4 DEF BoardInv

LEMMA BoardShowsText ==
  ASSUME BoardInv, NEW c \in Chores, Board!ShowDescription(c) PROVE BoardInv'
<1> DEFINE m == [kind |-> "text", chore |-> c, backdate |-> FALSE]
<1>1. BoardType(view, world) /\ IsWire(wire) /\ OneClosingEach(wire)
  BY DEF BoardInv, BoardSound
<1>2. /\ c \notin view.exiting /\ world' = world /\ wire' = Send(wire, "text", c)
      /\ view' = [view EXCEPT !.dialog = m]
  BY BoardWire DEF Board!ShowDescription, Board!Offered
<1>3. m.chore = c /\ m.kind = "text"
  OBVIOUS
<1> HIDE DEF m
<1>4. /\ DOMAIN view' = BoardFields /\ view'.said = view.said /\ view'.dialog = m
      /\ view'.told = view.told /\ view'.req = view.req /\ view'.filter = view.filter
      /\ view'.exiting = view.exiting /\ view'.data = view.data /\ view'.error = view.error
  BY <1>1, <1>2 DEF BoardType, BoardFields
<1>5. BoardDialog(view')
  BY <1>2, <1>3, <1>4 DEF BoardDialog
<1>6. /\ IsWire(wire') /\ Requests(wire') = Requests(wire) \cup {Call("text", c)}
      /\ Out(wire, {"close"}) => Out(wire', {"close"})
  BY <1>1, <1>2, SendRequests
<1>7. OneClosingEach(wire')
  BY <1>1, <1>2, BoardSends
<1>8. Requests(wire') \subseteq Requests(wire) \cup {Call("text", r.arg) : r \in Requests(wire')}
  <2>1. Call("text", c) \in Requests(wire') /\ Call("text", c).arg = c
    BY <1>6, CallFields
  <2> QED BY <2>1, <1>6
<1> QED BY <1>2, <1>4, <1>5, <1>6, <1>7, <1>8, BoardReadsOn

LEMMA BoardCancels ==
  ASSUME BoardInv, Board!Cancel PROVE BoardInv'
<1>1. BoardType(view, world) /\ IsWire(wire) /\ OneClosingEach(wire)
  BY DEF BoardInv, BoardSound
<1>2. /\ world' = world /\ wire' = Ignore(wire, "text")
      /\ view' = [view EXCEPT !.dialog = Board!Closed, !.text = None]
  BY BoardWire DEF Board!Cancel
<1>3. Board!Closed.kind = "none"
  BY DEF Board!Closed
<1>4. /\ DOMAIN view' = BoardFields /\ view'.said = view.said /\ view'.dialog = Board!Closed
      /\ view'.told = view.told /\ view'.req = view.req /\ view'.filter = view.filter
      /\ view'.exiting = view.exiting /\ view'.data = view.data /\ view'.error = view.error
  BY <1>1, <1>2 DEF BoardType, BoardFields
<1>5. BoardDialog(view')
  BY <1>3, <1>4 DEF BoardDialog
<1>6. /\ IsWire(wire') /\ Requests(wire') = {r \in Requests(wire) : r.kind # "text"}
      /\ Out(wire', {"close"}) <=> Out(wire, {"close"} \ {"text"})
  BY <1>1, <1>2, IgnoreRequests
<1>7. {"close"} \ {"text"} = {"close"}
  OBVIOUS
<1>8. OneClosingEach(wire')
  BY <1>1, <1>2, BoardIgnores
<1> QED BY <1>2, <1>4, <1>5, <1>6, <1>7, <1>8, BoardReadsOn

LEMMA BoardFilters ==
  ASSUME BoardInv, NEW f, Board!ChooseFilter(f) PROVE BoardInv'
<1> DEFINE v == [view EXCEPT !.filter = f]
           a == [req |-> view.req + 1, query |-> f, chore |-> None]
<1>1. BoardType(view, world) /\ BoardShown(view) /\ BoardDialog(view) /\ IsWire(wire) /\ OneClosingEach(wire)
  BY DEF BoardInv, BoardSound
<1>2. /\ DOMAIN v = BoardFields /\ v.said = view.said /\ v.dialog = view.dialog
      /\ v.told = view.told /\ v.req = view.req /\ v.filter = f
      /\ v.exiting = view.exiting /\ v.data = view.data /\ v.error = view.error
  BY <1>1 DEF BoardType, BoardFields
<1>3. world' = world /\ view' = [v EXCEPT !.req = v.req + 1] /\ wire' = SendAgain(wire, "load", a)
  BY <1>2, BoardWire DEF Board!ChooseFilter, Board!Load, Board!Query
<1>4. a.req = view.req + 1 /\ a.query = f
  OBVIOUS
<1> HIDE DEF v, a
<1>5. /\ DOMAIN view' = BoardFields /\ view'.said = view.said /\ view'.dialog = view.dialog
      /\ view'.told = view.told /\ view'.req = view.req + 1 /\ view'.filter = f
      /\ view'.exiting = view.exiting /\ view'.data = view.data /\ view'.error = view.error
  BY <1>2, <1>3 DEF BoardFields
<1>6. BoardType(view', world') /\ BoardDialog(view')
  BY <1>1, <1>3, <1>5 DEF BoardType, BoardDialog
<1>7. BoardShown(view')
  <2>1. \A e \in view'.data : e.req \in Nat /\ e.req <= view'.req /\ e.req # view'.req
    BY <1>1, <1>5 DEF BoardShown, BoardType
  <2> QED BY <2>1, <1>1, <1>5 DEF BoardShown
<1>8. /\ IsWire(wire')
      /\ Requests(wire') = {r \in Requests(wire) : r.kind # "load"} \cup {Call("load", a)}
  BY <1>1, <1>3, SendAgainRequests
<1>9. OneClosingEach(wire')
  <2>1. IsWire(Ignore(wire, "load")) /\ OneClosingEach(Ignore(wire, "load"))
    BY <1>1, IgnoreRequests, BoardIgnores
  <2> QED BY <2>1, <1>3, BoardSends DEF SendAgain
<1>10. ASSUME NEW q \in Requests(wire) PROVE BoardAsked(view', world', q)
  <2>1. BoardAsked(view, world, q)
    BY DEF BoardInv, BoardSound
  <2>2. Reading(q) => q.arg.req \in Nat /\ q.arg.req <= view'.req /\ q.arg.req # view'.req
    BY <2>1, <1>1, <1>5 DEF BoardAsked, BoardType
  <2> QED BY <2>1, <2>2, <1>3, <1>5 DEF BoardAsked
<1>11. BoardAsked(view', world', Call("load", a))
  BY <1>1, <1>4, <1>5, CallFields DEF BoardAsked, Closing, Reading, BoardType
<1>12. BoardSound(view', wire', world')
  BY <1>6, <1>7, <1>8, <1>9, <1>10, <1>11 DEF BoardSound
<1>13. BoardLive(view', wire')
  <2>1. Call("load", a) \in Requests(wire') /\ Reading(Call("load", a))
    BY <1>8, CallFields DEF Reading
  <2> QED BY <2>1, <1>4, <1>5, CallFields DEF BoardLive
<1> QED BY <1>12, <1>13 DEF BoardInv

LEMMA BoardStart ==
  ASSUME Board!Init PROVE BoardInv
<1> DEFINE a == [req |-> 1, query |-> "mine", chore |-> None]
           w == <<Call("options", None)>>
<1>1. PICK p \in Board!Pages :
        /\ view = [page |-> p, data |-> {}, loading |-> TRUE, error |-> FALSE, exiting |-> {},
                   dialog |-> Board!Closed, filter |-> "mine", filters |-> FALSE, req |-> 1,
                   text |-> None, said |-> [c \in Chores |-> "nothing"], told |-> [c \in Chores |-> 0]]
        /\ wire = Send(w, "load", a) /\ world = [c \in Chores |-> 0]
  <2>1. wire = <<Call("options", None), Call("load", a)>>
    BY BoardWire DEF Board!Init
  <2>2. wire = Send(w, "load", a)
    BY <2>1 DEF Send
  <2> QED BY <2>2 DEF Board!Init
<1>2. Board!Closed.kind = "none"
  BY DEF Board!Closed
<1>3. /\ DOMAIN view = BoardFields /\ view.data = {} /\ view.exiting = {} /\ view.dialog = Board!Closed
      /\ view.filter = "mine" /\ view.req = 1 /\ view.error = FALSE
      /\ DOMAIN view.said = Chores /\ view.told = [c \in Chores |-> 0]
  BY <1>1 DEF BoardFields
<1>4. a.req = 1 /\ a.query = "mine"
  OBVIOUS
<1> HIDE DEF a
<1>5. BoardType(view, world) /\ BoardDialog(view) /\ BoardShown(view)
  BY <1>1, <1>2, <1>3 DEF BoardType, BoardDialog, BoardShown
<1>6. /\ IsWire(w) /\ Requests(w) = {Call("options", None)} /\ DOMAIN w = {1}
  BY FirstRequest
<1>7. OneClosingEach(w)
  BY <1>6 DEF OneClosingEach
<1> HIDE DEF w
<1>8. /\ IsWire(wire) /\ Requests(wire) = {Call("options", None), Call("load", a)} /\ OneClosingEach(wire)
  BY <1>1, <1>6, <1>7, SendRequests, BoardSends
<1>9. BoardAsked(view, world, Call("options", None)) /\ BoardAsked(view, world, Call("load", a))
  BY <1>3, <1>4, CallFields DEF BoardAsked, Closing, Reading
<1>10. BoardSound(view, wire, world)
  BY <1>5, <1>8, <1>9 DEF BoardSound
<1> QED BY <1>3, <1>10 DEF BoardInv, BoardLive

LEMMA BoardStep ==
  ASSUME BoardInv, Board!Next PROVE BoardInv'
<1>1. ASSUME NEW i \in DOMAIN wire,
             \/ Board!ServeList(i) \/ Board!ServeClose(i) \/ Board!ServeRead(i) \/ Board!Lose(i)
             \/ Board!ReceiveLoad(i) \/ Board!ReceiveClose(i) \/ Board!ReceiveRefetch(i)
             \/ Board!ReceiveOptions(i) \/ Board!DescriptionBody(i)
      PROVE  BoardInv'
  BY <1>1, BoardServesList, BoardServesClose, BoardServesRead, BoardLoses, BoardReceivesLoad,
     BoardReceivesClose, BoardReceivesRefetch, BoardReceivesRest
<1>2. ASSUME NEW c \in Chores, Board!Done(c) \/ Board!AskSkip(c) \/ Board!ShowDescription(c) \/ Board!OtherCloses(c)
      PROVE  BoardInv'
  BY <1>2, BoardDone, BoardAsksSkip, BoardShowsText, BoardOtherCloses
<1>3. ASSUME NEW f, Board!ChooseFilter(f) PROVE BoardInv'
  BY <1>3, BoardFilters
<1>4. ASSUME NEW b \in BOOLEAN, Board!AnswerWhen(b) PROVE BoardInv'
  BY <1>4, BoardAnswersWhen
<1>5. Board!confirmSkip \/ (\E credit \in {"me", "assignee"} : Board!AnswerWho(credit)) => BoardInv'
  BY BoardConfirms
<1>6. Board!Cancel => BoardInv'
  BY BoardCancels
<1> QED BY <1>1, <1>2, <1>3, <1>4, <1>5, <1>6 DEF Board!Next

BoardOnly == page = "board" => BoardInv

LEMMA SpecImpliesBoardOnly == Spec => []BoardOnly
<1>1. Init => BoardOnly
  BY BoardStart DEF Init, BoardOnly
<1>2. BoardOnly /\ [Next]_vars => BoardOnly'
  <2> SUFFICES ASSUME BoardOnly, [Next]_vars, page' = "board" PROVE BoardInv'
    BY DEF BoardOnly
  <2>1. CASE UNCHANGED vars
    BY <2>1 DEF vars, BoardOnly, BoardInv, BoardSound, BoardLive, BoardType, BoardDialog, BoardShown,
       BoardAsked, Current
  <2>2. CASE Next
    <3>1. page = "board" /\ Board!Next
      BY <2>2 DEF Next
    <3> QED BY <3>1, BoardStep DEF BoardOnly
  <2> QED BY <2>1, <2>2
<1> QED BY <1>1, <1>2, PTL DEF Spec

LEMMA BoardHolds ==
  ASSUME BoardInv
  PROVE  Board!OneClosingPerChore /\ Board!ListIsCurrent /\ Board!AnswersReachTheServer
<1>1. \A i \in DOMAIN wire : wire[i] \in Requests(wire) /\ BoardAsked(view, world, wire[i])
  BY DEF BoardInv, BoardSound, Requests
<1>2. Board!OneClosingPerChore
  BY <1>1 DEF Board!OneClosingPerChore, BoardInv, BoardSound, OneClosingEach, BoardAsked, Closing
<1>3. Board!AnswersReachTheServer
  BY <1>1 DEF Board!AnswersReachTheServer, BoardAsked
<1>4. ASSUME view.data # {}, ~view.error, ~Out(wire, {"load", "refetch", "close"})
      PROVE  Current(view, (CHOOSE e \in view.data : TRUE).list)
  <2>1. ~Out(wire, {"close"}) /\ \A r \in Requests(wire) : ~Reading(r)
    BY <1>4 DEF Out, Requests, Reading
  <2>2. PICK e \in view.data : e = CHOOSE x \in view.data : TRUE
    BY <1>4
  <2>3. e.req = view.req
    BY <2>1, <1>4 DEF BoardInv, BoardLive
  <2>4. Current(view, e.list)
    BY <2>3 DEF BoardInv, BoardSound, BoardShown
  <2> QED BY <2>2, <2>4
<1>5. Board!ListIsCurrent
  BY <1>4, BoardWire DEF Board!ListIsCurrent, Current
<1> QED BY <1>2, <1>3, <1>5

(* A chore has one closing on its way at most, and its row is locked for as*)
(* long as that, or the read after it, is (Home.tsx:122-140).              *)
THEOREM SpecImpliesOneClosingPerChore == Spec => []OneClosingPerChore
<1>1. BoardOnly => OneClosingPerChore
  BY BoardHolds DEF BoardOnly, OneClosingPerChore
<1> QED BY <1>1, SpecImpliesBoardOnly, PTL

(* However reads and closings overlap, the board at rest shows the answer  *)
(* for its filters, no older than the last closing it was told of          *)
(* (Home.tsx:89-98, 152-154).                                              *)
THEOREM SpecImpliesListIsCurrent == Spec => []ListIsCurrent
<1>1. BoardOnly => ListIsCurrent
  BY BoardHolds DEF BoardOnly, ListIsCurrent
<1> QED BY <1>1, SpecImpliesBoardOnly, PTL

(* A completion carries the answers given for that chore through both      *)
(* dialogs (Home.tsx:196-227).                                             *)
THEOREM SpecImpliesAnswersReachTheServer == Spec => []AnswersReachTheServer
<1>1. BoardOnly => AnswersReachTheServer
  BY BoardHolds DEF BoardOnly, AnswersReachTheServer
<1> QED BY <1>1, SpecImpliesBoardOnly, PTL

-----------------------------------------------------------------------------
(* The form of a chore                                                     *)

LEMMA FormWire ==
  /\ \A w, K : Form!Only(w, K) = Only(w, K)
  /\ \A w, k, a : Form!SendAgain(w, k, a) = SendAgain(w, k, a)
  /\ \A w, k, a : Form!Send(w, k, a) = Send(w, k, a)
  /\ \A k, a : Form!Call(k, a) = Call(k, a)
  /\ \A w, i, a : Form!Ok(w, i, a) = Ok(w, i, a)
  /\ \A w, i, s : Form!Settle(w, i, s) = Settle(w, i, s)
  /\ \A w, i : Form!Received(w, i) = Received(w, i)
  /\ \A w, K : Form!Out(w, K) = Out(w, K)
  /\ \A w : Form!Settled(w) = Settled(w)
  /\ \A w : Form!Waiting(w) = Waiting(w)
  /\ \A r : Form!Data(r) = Data(r)
<1>1. \A S : Form!Cardinality(S) = Cardinality(S)
  BY DEF Form!Cardinality, Cardinality
<1>2. \A S, n : Form!Place(S, n) = Place(S, n)
  BY DEF Form!Place, Place, Form!Cardinality, Cardinality
<1>3. \A w, S : Form!Sift(w, S) = Sift(w, S)
  BY <1>1, <1>2 DEF Form!Sift, Sift
<1>4. \A w, K : Form!Only(w, K) = Only(w, K)
  BY <1>3 DEF Form!Only, Only
<1>5. \A w, k : Form!Ignore(w, k) = Ignore(w, k)
  BY <1>3 DEF Form!Ignore, Ignore
<1>6. \A w, k, a : Form!SendAgain(w, k, a) = SendAgain(w, k, a)
  BY <1>5 DEF Form!SendAgain, Form!Send, Form!Call, SendAgain, Send, Call
<1>7. \A w, k, a : Form!Send(w, k, a) = Send(w, k, a)
  BY DEF Form!Send, Form!Call, Send, Call
<1>8. \A k, a : Form!Call(k, a) = Call(k, a)
  BY DEF Form!Call, Call
<1> QED BY <1>4, <1>5, <1>6, <1>7, <1>8
        DEF Form!Ok, Form!Settle, Form!Received, Form!Out, Form!Settled, Form!Waiting, Form!Data,
            Ok, Settle, Received, Out, Settled, Waiting, Data

FormFields == {"values", "takeTurns", "turn", "interval", "saving", "error", "touched"}
FormValues == {"strategy", "repeats", "assignees", "current", "clear", "pinned", "date", "tags"}

(* A chore as the API has it: one of its pool is on the hook, or nobody.   *)
ChoreSound(c) ==
  /\ DOMAIN c = {"strategy", "repeats", "assignees", "current", "turn", "interval", "pinned", "date", "tags"}
  /\ c.assignees \subseteq MembersOf[1] /\ c.current \in c.assignees \cup {Nobody}
  /\ c.interval \in 0..3

Unset(c) == c.current = Nobody /\ c.assignees # {}

(* What the form f of the page v holds, as long as it was not touched, is  *)
(* the chore's, and "nobody" goes with no one.                             *)
FormSound(v, f) ==
  /\ DOMAIN f = FormFields /\ DOMAIN f.values = FormValues
  /\ f.interval \in 0..3
  /\ f.values.clear => f.values.current = Nobody
  /\ "assignees" \notin f.touched => \A c : v.clone = {c} => f.values.assignees = c.assignees
  /\ v.page = "edit" /\ "current" \notin f.touched =>
       \A c : v.clone = {c} => f.values.current = c.current /\ (f.values.clear <=> Unset(c))

FormAsked(v, r) ==
  /\ r.kind \in {"households", "chore", "pickers", "save"}
  /\ r.kind = "households" => v.page = "create"
  /\ r.kind = "chore" => /\ v.page = "edit"
                         /\ r.is = "ok" => \E c : r.answer = {c} /\ ChoreSound(c)
  /\ r.kind = "pickers" =>
       /\ r.arg.household = v.household
       /\ v.page = "edit" => \E c : r.arg.chore = {c} /\ ChoreSound(c)
       /\ r.is = "ok" => r.answer = {[members |-> MembersOf[r.arg.household],
                                      tags |-> Form!TagsOf(r.arg.household)]}
  /\ r.kind = "save" => /\ v.form # {} /\ r.arg.current \in r.arg.assignees \cup {Nobody}
                        /\ v.page = "edit" => r.arg.household = 1

FormPage(v) ==
  /\ DOMAIN v = {"page", "at", "organised", "clone", "household", "households", "members", "tags",
                 "optionsOf", "loading", "error", "form"}
  /\ v.page \in {"create", "edit"} /\ (v.page = "edit" => v.household = 1)
  /\ v.clone = {} \/ \E c : v.clone = {c} /\ ChoreSound(c)
  /\ v.form = {} \/ \E f : v.form = {f} /\ FormSound(v, f)
  /\ \/ v.optionsOf = 0 /\ v.members = {} /\ v.tags = {}
     \/ v.members = MembersOf[v.optionsOf] /\ v.tags = Form!TagsOf(v.optionsOf)
  /\ v.page = "edit" /\ v.form # {} => v.optionsOf = 1 /\ v.clone # {}

PickersKnown(v, w) ==
  v.page = "create" /\ v.at = "form" => Out(w, {"pickers"}) \/ v.error \/ v.optionsOf = v.household

FormInv ==
  /\ IsWire(wire) /\ FormPage(view) /\ ChoreSound(world)
  /\ \A r \in Requests(wire) : FormAsked(view, r)
  /\ PickersKnown(view, wire)

LEMMA TheForm ==
  ASSUME NEW v, FormPage(v), v.form # {}
  PROVE  v.form = {Form!Form(v)} /\ FormSound(v, Form!Form(v))
BY DEF FormPage, Form!Form

LEMMA ChoresThereSound ==
  ASSUME NEW c \in Form!ChoresThere PROVE ChoreSound(c)
<1>1. PICK s \in {"manual", "random"}, p \in {"manual", "daily", "weekly"},
           a \in {{}, MembersOf[1]}, who \in MembersOf[1] \cup {Nobody} : c = Form!ChoreOf(s, p, a, who)
  BY DEF Form!ChoresThere, Form!SomeChores
<1>2. c.current \in c.assignees \cup {Nobody}
  BY DEF Form!ChoresThere
<1> QED BY <1>1, <1>2 DEF ChoreSound, Form!ChoreOf

LEMMA NewChoreSound == ChoreSound(Form!NewChore)
<1>1. PICK c : c = Form!ChoreOf("manual", "weekly", {}, Nobody)
  OBVIOUS
<1>2. /\ DOMAIN c = {"strategy", "repeats", "assignees", "current", "turn", "interval", "pinned", "date", "tags"}
      /\ c.assignees = {} /\ c.current = Nobody
  BY <1>1 DEF Form!ChoreOf
<1>3. Form!NewChore = [c EXCEPT !.interval = 1, !.pinned = FALSE, !.date = 0, !.tags = {}]
  BY <1>1 DEF Form!NewChore
<1> QED BY <1>2, <1>3 DEF ChoreSound

(* A form opened on a chore holds what the chore does.                     *)
LEMMA OpenedSound ==
  ASSUME NEW c, ChoreSound(c), NEW who, NEW clear \in BOOLEAN, NEW v, clear => who = Nobody,
         v.clone = {} \/ v.clone = {c},
         v.page = "edit" => who = c.current /\ (clear <=> Unset(c))
  PROVE  FormSound(v, Form!Opened(c, who, clear))
<1> DEFINE f == Form!Opened(c, who, clear)
<1>1. /\ DOMAIN f = FormFields /\ DOMAIN f.values = FormValues
      /\ f.interval = c.interval /\ f.values.clear = clear /\ f.values.current = who
      /\ f.values.assignees = c.assignees /\ f.touched = {}
  BY DEF Form!Opened, FormFields, FormValues
<1> HIDE DEF f
<1>2. FormSound(v, f)
  BY <1>1 DEF FormSound, ChoreSound
<1> QED BY <1>2 DEF f

LEMMA FormInit ==
  ASSUME Form!Init PROVE FormInv
<1>1. PICK organised \in (SUBSET Form!Households) \ {{}}, chore \in Form!ChoresThere :
         /\ world = chore
         /\ \/ \E clone \in {{}, {chore}} :
                  /\ view = Form!CreateOpened(organised, clone)
                  /\ wire = IF view.household = 0 THEN <<Call("households", 0)>>
                            ELSE Form!LoadPickers(<<Call("households", 0)>>, view.household)
            \/ /\ view = Form!EditOpened(organised)
               /\ wire = <<Call("chore", 0)>>
  BY FormWire DEF Form!Init
<1>2. ChoreSound(chore) /\ world = chore
  BY <1>1, ChoresThereSound
<1>3. ASSUME NEW clone \in {{}, {chore}}, view = Form!CreateOpened(organised, clone),
             wire = IF view.household = 0 THEN <<Call("households", 0)>>
                    ELSE Form!LoadPickers(<<Call("households", 0)>>, view.household)
      PROVE  FormInv
  <2>1. FormPage(view) /\ view.page = "create" /\ view.optionsOf = 0
    BY <1>2, <1>3 DEF Form!CreateOpened, FormPage
  <2> DEFINE w == <<Call("households", 0)>>
             a == [household |-> view.household, chore |-> {}]
             p == Call("pickers", a)
  <2>2. IsWire(w) /\ Requests(w) = {Call("households", 0)}
    BY FirstRequest
  <2>3. FormAsked(view, Call("households", 0)) /\ FormAsked(view, p)
    BY <2>1, CallFields DEF FormAsked
  <2>4. CASE view.household = 0
    BY <1>2, <1>3, <2>1, <2>2, <2>3, <2>4 DEF FormInv, PickersKnown
  <2>5. CASE view.household # 0
    <3>1. wire = SendAgain(w, "pickers", a)
      BY <1>3, <2>5, FormWire DEF Form!LoadPickers
    <3> HIDE DEF w, a
    <3>3. IsWire(wire) /\ Requests(wire) = {r \in Requests(w) : r.kind # "pickers"} \cup {p}
      BY <3>1, <2>2, SendAgainRequests
    <3>4. Out(wire, {"pickers"})
      BY <3>1, <2>2, SendAgainRequests
    <3>2. /\ IsWire(wire) /\ Requests(wire) \subseteq {Call("households", 0), p}
          /\ Out(wire, {"pickers"})
      BY <2>2, <3>3, <3>4
    <3> QED BY <1>2, <2>1, <2>3, <3>2 DEF FormInv, PickersKnown
  <2> QED BY <2>4, <2>5
<1>4. ASSUME view = Form!EditOpened(organised), wire = <<Call("chore", 0)>>
      PROVE  FormInv
  <2>1. FormPage(view) /\ view.page = "edit"
    BY <1>4 DEF Form!EditOpened, FormPage
  <2>2. IsWire(wire) /\ Requests(wire) = {Call("chore", 0)}
    BY <1>4, FirstRequest
  <2>3. FormAsked(view, Call("chore", 0))
    BY <2>1, CallFields DEF FormAsked
  <2> QED BY <1>2, <2>1, <2>2, <2>3 DEF FormInv, PickersKnown
<1> QED BY <1>1, <1>3, <1>4

(* Filling it in: the form stays sound, the page around it as it was.      *)
LEMMA FormFilled ==
  ASSUME FormInv, view.form # {}, NEW g, FormSound(view, g), Form!Put(g), world' = world,
         IsWire(wire'), \A r \in Requests(wire') : FormAsked(view, r),
         Out(wire, {"pickers"}) => Out(wire', {"pickers"})
  PROVE  FormInv'
<1>1. /\ DOMAIN view' = DOMAIN view /\ view'.form = {g}
      /\ view'.page = view.page /\ view'.at = view.at /\ view'.clone = view.clone
      /\ view'.household = view.household /\ view'.members = view.members /\ view'.tags = view.tags
      /\ view'.optionsOf = view.optionsOf /\ view'.error = view.error
  BY DEF FormInv, FormPage, Form!Put
<1>2. FormSound(view', g)
  BY <1>1 DEF FormSound
<1>3. FormPage(view')
  BY <1>1, <1>2 DEF FormInv, FormPage
<1>4. \A r \in Requests(wire') : FormAsked(view', r)
  BY <1>1 DEF FormAsked
<1> QED BY <1>1, <1>3, <1>4 DEF FormInv, PickersKnown

LEMMA FormKept ==
  ASSUME FormInv, view.form # {}, NEW g, FormSound(view, g), Form!Put(g), UNCHANGED <<wire, world>>
  PROVE  FormInv'
BY FormFilled DEF FormInv

(* A field set is a field touched.                                         *)
LEMMA FormSet ==
  ASSUME FormInv, view.form # {}, NEW field \in FormValues, NEW value
  PROVE  LET f == Form!Form(view)
             g == Form!Set(field, value)
         IN /\ DOMAIN g = FormFields /\ DOMAIN g.values = FormValues
            /\ g.interval = f.interval /\ g.touched = f.touched \cup {field}
            /\ g.values[field] = value
            /\ \A k \in FormValues \ {field} : g.values[k] = f.values[k]
<1> DEFINE f == Form!Form(view)
<1>1. DOMAIN f = FormFields /\ DOMAIN f.values = FormValues
  BY TheForm DEF FormInv, FormSound
<1> HIDE DEF f
<1>2. Form!Set(field, value) = [f EXCEPT !.values[field] = value, !.touched = f.touched \cup {field}]
  BY <1>1 DEF Form!Set, f, FormFields
<1>3. PICK g : g = Form!Set(field, value)
  OBVIOUS
<1>4. /\ DOMAIN g = FormFields /\ g.values = [f.values EXCEPT ![field] = value]
      /\ g.interval = f.interval /\ g.touched = f.touched \cup {field}
  BY <1>1, <1>2, <1>3 DEF FormFields
<1> QED BY <1>1, <1>3, <1>4 DEF f

LEMMA FormFills ==
  ASSUME FormInv, view.form # {}, UNCHANGED <<wire, world>>,
         \/ \E s \in {"assignees", "strategy", "repeats", "pinned", "date", "tags"} : \E x : Form!Put(Form!Set(s, x))
         \/ \E p : Form!Put([Form!Set("current", p) EXCEPT !.values.clear = p = Nobody])
         \/ \E n \in 0..3 : Form!Put([Form!Form(view) EXCEPT !.interval = n])
         \/ Form!Put([Form!Form(view) EXCEPT !.takeTurns = ~@])
         \/ \E n : Form!Put([Form!Form(view) EXCEPT !.turn = n])
  PROVE  FormInv'
<1> DEFINE f == Form!Form(view)
<1>1. FormSound(view, f)
  BY TheForm DEF FormInv
<1>2. ASSUME NEW s \in {"assignees", "strategy", "repeats", "pinned", "date", "tags"}, NEW x,
             Form!Put(Form!Set(s, x))
      PROVE  FormInv'
  <2>1. PICK g : g = Form!Set(s, x)
    OBVIOUS
  <2>2. /\ DOMAIN g = FormFields /\ DOMAIN g.values = FormValues /\ g.interval = f.interval
        /\ g.touched = f.touched \cup {s} /\ \A k \in FormValues \ {s} : g.values[k] = f.values[k]
    BY <2>1, FormSet DEF FormValues
  <2> HIDE DEF f
  <2>3. /\ g.values.clear = f.values.clear /\ g.values.current = f.values.current
        /\ s # "assignees" => g.values.assignees = f.values.assignees
    BY <2>2 DEF FormValues
  <2>4. FormSound(view, g)
    BY <1>1, <2>2, <2>3 DEF FormSound
  <2> QED BY <1>2, <2>1, <2>4, FormKept
<1>3. ASSUME NEW p, Form!Put([Form!Set("current", p) EXCEPT !.values.clear = p = Nobody])
      PROVE  FormInv'
  <2>1. PICK h : h = Form!Set("current", p)
    OBVIOUS
  <2>2. /\ DOMAIN h = FormFields /\ DOMAIN h.values = FormValues /\ h.interval = f.interval
        /\ h.touched = f.touched \cup {"current"} /\ h.values.current = p
        /\ \A k \in FormValues \ {"current"} : h.values[k] = f.values[k]
    BY <2>1, FormSet DEF FormValues
  <2> HIDE DEF f
  <2>3. PICK g : g = [h EXCEPT !.values.clear = p = Nobody]
    OBVIOUS
  <2>4. /\ DOMAIN g = FormFields /\ g.values = [h.values EXCEPT !.clear = p = Nobody]
        /\ g.interval = f.interval /\ g.touched = f.touched \cup {"current"}
    BY <2>2, <2>3 DEF FormFields
  <2>5. /\ DOMAIN g.values = FormValues /\ g.values.clear = (p = Nobody) /\ g.values.current = p
        /\ g.values.assignees = f.values.assignees
    BY <2>2, <2>4 DEF FormValues
  <2>6. FormSound(view, g)
    BY <1>1, <2>4, <2>5 DEF FormSound
  <2> QED BY <1>3, <2>1, <2>3, <2>6, FormKept
<1>4. ASSUME NEW g, Form!Put(g),
             \/ \E n \in 0..3 : g = [f EXCEPT !.interval = n]
             \/ g = [f EXCEPT !.takeTurns = ~@]
             \/ \E n : g = [f EXCEPT !.turn = n]
      PROVE  FormInv'
  <2> HIDE DEF f
  <2>1. /\ DOMAIN g = FormFields /\ g.values = f.values /\ g.touched = f.touched /\ g.interval \in 0..3
    BY <1>1, <1>4 DEF FormSound, FormFields
  <2>2. FormSound(view, g)
    BY <1>1, <2>1 DEF FormSound
  <2> QED BY <1>4, <2>2, FormKept
<1> QED BY <1>2, <1>3, <1>4

LEMMA FormSubmits ==
  ASSUME FormInv, Form!Submit PROVE FormInv'
<1> DEFINE f == Form!Form(view)
           p == Form!Payload(view)
<1>1. /\ view.form # {} /\ Form!Put([f EXCEPT !.saving = TRUE, !.error = FALSE])
      /\ wire' = Send(wire, "save", p) /\ world' = world
  BY FormWire DEF Form!Submit
<1>2. FormSound(view, f)
  BY <1>1, TheForm DEF FormInv
<1>3. p.current \in p.assignees \cup {Nobody} /\ p.household = view.household
  BY DEF Form!Payload, Form!currentAssignee
<1> HIDE DEF f, p
<1>4. PICK g : g = [f EXCEPT !.saving = TRUE, !.error = FALSE]
  OBVIOUS
<1>5. FormSound(view, g)
  BY <1>2, <1>4 DEF FormSound, FormFields
<1>6. /\ IsWire(wire') /\ Requests(wire') = Requests(wire) \cup {Call("save", p)}
      /\ Out(wire, {"pickers"}) => Out(wire', {"pickers"})
  BY <1>1, SendRequests DEF FormInv
<1>7. FormAsked(view, Call("save", p))
  BY <1>1, <1>3, CallFields DEF FormAsked, FormInv, FormPage
<1> QED BY <1>1, <1>4, <1>5, <1>6, <1>7, FormFilled DEF FormInv

LEMMA FormReceived ==
  ASSUME FormInv, NEW i \in DOMAIN wire
  PROVE  /\ wire[i] \in Requests(wire) /\ FormAsked(view, wire[i])
         /\ IsWire(Received(wire, i)) /\ Requests(Received(wire, i)) \subseteq Requests(wire)
         /\ Out(wire, {"pickers"}) /\ wire[i].kind # "pickers" => Out(Received(wire, i), {"pickers"})
<1>1. wire[i] \in Requests(wire)
  BY DEF Requests
<1>2. wire[i].kind # "pickers" => wire[i].kind \notin {"pickers"}
  OBVIOUS
<1> QED BY <1>1, <1>2, ReceivedRequests DEF FormInv

LEMMA FormLeaves ==
  ASSUME FormInv, \/ \E i \in DOMAIN wire : Form!ReceiveSave(i)
                  \/ Form!CancelForm
  PROVE  FormInv'
<1>1. ASSUME NEW i \in DOMAIN wire, Form!ReceiveSave(i) PROVE FormInv'
  <2>1. wire[i].kind = "save" /\ wire' = Received(wire, i) /\ world' = world
    BY <1>1, FormWire DEF Form!ReceiveSave
  <2>2. /\ view.form # {} /\ IsWire(wire') /\ \A r \in Requests(wire') : FormAsked(view, r)
        /\ Out(wire, {"pickers"}) => Out(wire', {"pickers"})
    BY <2>1, FormReceived DEF FormInv, FormAsked
  <2>3. CASE wire[i].is = "ok"
    <3>1. view' = [view EXCEPT !.at = "list"]
      BY <1>1, <2>3 DEF Form!ReceiveSave
    <3>2. /\ DOMAIN view' = DOMAIN view /\ view'.at = "list" /\ view'.form = view.form
          /\ view'.page = view.page /\ view'.clone = view.clone /\ view'.household = view.household
          /\ view'.members = view.members /\ view'.tags = view.tags /\ view'.optionsOf = view.optionsOf
      BY <3>1 DEF FormInv, FormPage
    <3> QED BY <2>1, <2>2, <3>2 DEF FormInv, FormPage, FormSound, FormAsked, PickersKnown
  <2>4. CASE wire[i].is # "ok"
    <3> DEFINE f == Form!Form(view)
    <3>1. Form!Put([f EXCEPT !.saving = FALSE, !.error = TRUE]) /\ FormSound(view, f)
      BY <1>1, <2>2, <2>4, TheForm DEF Form!ReceiveSave, FormInv
    <3> HIDE DEF f
    <3>2. PICK g : g = [f EXCEPT !.saving = FALSE, !.error = TRUE]
      OBVIOUS
    <3>3. FormSound(view, g)
      BY <3>1, <3>2 DEF FormSound, FormFields
    <3> QED BY <2>1, <2>2, <3>1, <3>2, <3>3, FormFilled
  <2> QED BY <2>3, <2>4
<1>2. ASSUME Form!CancelForm PROVE FormInv'
  <2>1. view' = [view EXCEPT !.at = "elsewhere"] /\ wire' = Only(wire, {"save"}) /\ world' = world
    BY <1>2, FormWire DEF Form!CancelForm
  <2>2. IsWire(wire') /\ Requests(wire') \subseteq Requests(wire)
    BY <2>1, OnlyRequests DEF FormInv
  <2>3. /\ DOMAIN view' = DOMAIN view /\ view'.at = "elsewhere" /\ view'.form = view.form
        /\ view'.page = view.page /\ view'.clone = view.clone /\ view'.household = view.household
        /\ view'.members = view.members /\ view'.tags = view.tags /\ view'.optionsOf = view.optionsOf
    BY <2>1 DEF FormInv, FormPage
  <2> QED BY <2>1, <2>2, <2>3 DEF FormInv, FormPage, FormSound, FormAsked, PickersKnown
<1> QED BY <1>1, <1>2

(* The households arrive, and the form mounts with the one chosen.         *)
LEMMA FormReceivesHouseholds ==
  ASSUME FormInv, NEW i \in DOMAIN wire, Form!ReceiveHouseholds(i)
  PROVE  FormInv'
<1> DEFINE w == Received(wire, i)
           mine == Data(wire[i]) \cap view.organised
           chosen == IF view.household # 0 THEN view.household ELSE Form!Lowest(mine)
<1>1. /\ wire[i].kind = "households" /\ world' = world
      /\ IF wire[i].is # "ok"
         THEN view' = [view EXCEPT !.loading = FALSE, !.error = TRUE] /\ wire' = w
         ELSE IF mine = {}
         THEN view' = [view EXCEPT !.loading = FALSE] /\ wire' = w
         ELSE /\ view' = [view EXCEPT !.loading = FALSE, !.households = mine, !.household = chosen,
                                      !.form = {Form!initial(view)}]
              /\ wire' = IF view.household = 0 THEN Form!LoadPickers(w, chosen) ELSE w
  BY FormWire DEF Form!ReceiveHouseholds
<1>2. /\ view.page = "create" /\ IsWire(w) /\ Requests(w) \subseteq Requests(wire)
      /\ Out(wire, {"pickers"}) => Out(w, {"pickers"})
  BY <1>1, FormReceived DEF FormAsked
<1> HIDE DEF w, mine, chosen
<1>3. CASE wire[i].is # "ok" \/ mine = {}
  <2>1. wire' = w /\ \/ view' = [view EXCEPT !.loading = FALSE, !.error = TRUE]
                     \/ view' = [view EXCEPT !.loading = FALSE]
    BY <1>1, <1>3
  <2>2. /\ DOMAIN view' = DOMAIN view /\ view'.at = view.at /\ view'.form = view.form
        /\ view'.page = view.page /\ view'.clone = view.clone /\ view'.household = view.household
        /\ view'.members = view.members /\ view'.tags = view.tags /\ view'.optionsOf = view.optionsOf
        /\ view.error => view'.error
    BY <2>1 DEF FormInv, FormPage
  <2> QED BY <1>1, <1>2, <2>1, <2>2 DEF FormInv, FormPage, FormSound, FormAsked, PickersKnown
<1>4. CASE ~(wire[i].is # "ok" \/ mine = {})
  <2>1. FormSound(view, Form!initial(view))
    <3>1. CASE view.clone = {}
      BY <1>2, <3>1, OpenedSound, NewChoreSound DEF Form!initial
    <3>2. CASE view.clone # {}
      <4>1. PICK c : view.clone = {c} /\ ChoreSound(c) /\ c = CHOOSE x \in view.clone : TRUE
        BY <3>2 DEF FormInv, FormPage
      <4> QED BY <1>2, <3>2, <4>1, OpenedSound DEF Form!initial
    <3> QED BY <3>1, <3>2
  <2>2. PICK g : g = Form!initial(view)
    OBVIOUS
  <2>3. view' = [view EXCEPT !.loading = FALSE, !.households = mine, !.household = chosen, !.form = {g}]
    BY <1>1, <1>4, <2>2
  <2>4. /\ DOMAIN view' = DOMAIN view /\ view'.at = view.at /\ view'.form = {g}
        /\ view'.page = view.page /\ view'.clone = view.clone /\ view'.household = chosen
        /\ view'.members = view.members /\ view'.tags = view.tags /\ view'.optionsOf = view.optionsOf
        /\ view'.error = view.error
    BY <2>3 DEF FormInv, FormPage
  <2>5. FormPage(view')
    <3>1. FormSound(view', g)
      BY <2>1, <2>2, <2>4 DEF FormSound
    <3> QED BY <1>2, <2>4, <3>1 DEF FormInv, FormPage
  <2>6. CASE view.household # 0
    <3>1. wire' = w /\ chosen = view.household
      BY <1>1, <1>4, <2>6 DEF chosen
    <3>2. \A r \in Requests(wire') : FormAsked(view', r)
      BY <1>2, <2>4, <3>1 DEF FormInv, FormAsked
    <3> QED BY <1>1, <1>2, <2>4, <2>5, <3>1, <3>2 DEF FormInv, PickersKnown
  <2>7. CASE view.household = 0
    <3> DEFINE a == [household |-> chosen, chore |-> {}]
    <3>1. wire' = SendAgain(w, "pickers", a)
      BY <1>1, <1>4, <2>7, FormWire DEF Form!LoadPickers
    <3>2. a.household = chosen
      OBVIOUS
    <3> HIDE DEF a
    <3>3. IsWire(wire') /\ Out(wire', {"pickers"})
      BY <1>2, <3>1, SendAgainRequests
    <3>5. Requests(wire') = {r \in Requests(w) : r.kind # "pickers"} \cup {Call("pickers", a)}
      BY <1>2, <3>1, SendAgainRequests
    <3>4. \A r \in Requests(wire') : FormAsked(view', r)
      BY <1>2, <2>4, <3>2, <3>5, CallFields DEF FormInv, FormAsked
    <3> QED BY <1>1, <2>4, <2>5, <3>3, <3>4 DEF FormInv, PickersKnown
  <2> QED BY <2>6, <2>7
<1> QED BY <1>3, <1>4

LEMMA FormChoosesHousehold ==
  ASSUME FormInv, NEW h, Form!ChooseHousehold(h)
  PROVE  FormInv'
<1> DEFINE a == [household |-> h, chore |-> {}]
<1>1. /\ view.page = "create" /\ view' = [view EXCEPT !.household = h] /\ world' = world
      /\ wire' = SendAgain(wire, "pickers", a)
  BY FormWire DEF Form!ChooseHousehold, Form!LoadPickers
<1>2. a.household = h
  OBVIOUS
<1> HIDE DEF a
<1>3. IsWire(wire') /\ Out(wire', {"pickers"})
  BY <1>1, SendAgainRequests DEF FormInv
<1>6. Requests(wire') = {r \in Requests(wire) : r.kind # "pickers"} \cup {Call("pickers", a)}
  BY <1>1, SendAgainRequests DEF FormInv
<1>4. /\ DOMAIN view' = DOMAIN view /\ view'.at = view.at /\ view'.form = view.form
      /\ view'.page = "create" /\ view'.clone = view.clone /\ view'.household = h
      /\ view'.members = view.members /\ view'.tags = view.tags /\ view'.optionsOf = view.optionsOf
  BY <1>1 DEF FormInv, FormPage
<1>5. \A r \in Requests(wire') : FormAsked(view', r)
  BY <1>1, <1>2, <1>6, <1>4, CallFields DEF FormInv, FormAsked
<1> QED BY <1>1, <1>3, <1>4, <1>5 DEF FormInv, FormPage, FormSound, PickersKnown

(* The pickers arrive: those of the household chosen, whatever came before.*)
LEMMA FormReceivesPickers ==
  ASSUME FormInv, NEW i \in DOMAIN wire, Form!ReceivePickers(i), view.at = "form"
  PROVE  FormInv'
<1>1. /\ wire[i].kind = "pickers" /\ view.page = "create" /\ world' = world
      /\ view' = IF wire[i].is = "ok"
                 THEN [view EXCEPT !.members = Data(wire[i]).members, !.tags = Data(wire[i]).tags,
                                   !.optionsOf = wire[i].arg.household]
                 ELSE [view EXCEPT !.error = TRUE]
      /\ wire' = Received(wire, i)
  BY FormWire DEF Form!ReceivePickers
<1>2. FormAsked(view, wire[i]) /\ IsWire(wire') /\ Requests(wire') \subseteq Requests(wire)
  BY <1>1, FormReceived
<1>3. CASE wire[i].is = "ok"
  <2>1. wire[i].answer = {[members |-> MembersOf[view.household], tags |-> Form!TagsOf(view.household)]}
    BY <1>1, <1>2, <1>3 DEF FormAsked
  <2>2. PICK d : d = [members |-> MembersOf[view.household], tags |-> Form!TagsOf(view.household)]
    OBVIOUS
  <2>3. Data(wire[i]) = d /\ d.members = MembersOf[view.household] /\ d.tags = Form!TagsOf(view.household)
    BY <2>1, <2>2, DataAnswered
  <2>4. wire[i].arg.household = view.household
    BY <1>1, <1>2 DEF FormAsked
  <2>5. view' = [view EXCEPT !.members = d.members, !.tags = d.tags, !.optionsOf = view.household]
    BY <1>1, <1>3, <2>3, <2>4
  <2>6. /\ DOMAIN view' = DOMAIN view /\ view'.at = view.at /\ view'.form = view.form
        /\ view'.page = view.page /\ view'.clone = view.clone /\ view'.household = view.household
        /\ view'.members = d.members /\ view'.tags = d.tags /\ view'.optionsOf = view.household
    BY <2>5 DEF FormInv, FormPage
  <2> QED BY <1>1, <1>2, <2>3, <2>6 DEF FormInv, FormPage, FormSound, FormAsked, PickersKnown
<1>4. CASE wire[i].is # "ok"
  <2>1. /\ DOMAIN view' = DOMAIN view /\ view'.at = view.at /\ view'.form = view.form
        /\ view'.page = view.page /\ view'.clone = view.clone /\ view'.household = view.household
        /\ view'.members = view.members /\ view'.tags = view.tags /\ view'.optionsOf = view.optionsOf
        /\ view'.error
    BY <1>1, <1>4 DEF FormInv, FormPage
  <2> QED BY <1>1, <1>2, <2>1 DEF FormInv, FormPage, FormSound, FormAsked, PickersKnown
<1> QED BY <1>3, <1>4

(* A chore to edit is loaded, then its household's pickers; the form opens *)
(* on what was loaded.                                                     *)
LEMMA FormReceivesChore ==
  ASSUME FormInv, NEW i \in DOMAIN wire, Form!ReceiveChore(i)
  PROVE  FormInv'
<1> DEFINE w == Received(wire, i)
<1>1. /\ wire[i].kind = "chore" /\ world' = world
      /\ IF wire[i].is # "ok"
         THEN view' = [view EXCEPT !.loading = FALSE, !.error = TRUE] /\ wire' = w
         ELSE IF 1 \notin view.organised
         THEN view' = [view EXCEPT !.loading = FALSE, !.at = "list"] /\ wire' = w
         ELSE /\ view' = view
              /\ wire' = Send(w, "pickers", [household |-> 1, chore |-> {Data(wire[i])}])
  BY FormWire DEF Form!ReceiveChore
<1>2. /\ FormAsked(view, wire[i]) /\ IsWire(w) /\ Requests(w) \subseteq Requests(wire)
  BY FormReceived
<1>3. view.page = "edit"
  BY <1>1, <1>2 DEF FormAsked
<1> HIDE DEF w
<1>4. CASE wire' = w /\ \/ view' = [view EXCEPT !.loading = FALSE, !.error = TRUE]
                        \/ view' = [view EXCEPT !.loading = FALSE, !.at = "list"]
  <2>1. /\ DOMAIN view' = DOMAIN view /\ view'.form = view.form
        /\ view'.page = view.page /\ view'.clone = view.clone /\ view'.household = view.household
        /\ view'.members = view.members /\ view'.tags = view.tags /\ view'.optionsOf = view.optionsOf
    BY <1>4 DEF FormInv, FormPage
  <2> QED BY <1>1, <1>2, <1>3, <1>4, <2>1 DEF FormInv, FormPage, FormSound, FormAsked, PickersKnown
<1>5. CASE /\ wire[i].is = "ok" /\ view' = view
           /\ wire' = Send(w, "pickers", [household |-> 1, chore |-> {Data(wire[i])}])
  <2>1. PICK c : wire[i].answer = {c} /\ ChoreSound(c)
    BY <1>1, <1>2, <1>5 DEF FormAsked
  <2>2. PICK a : a = [household |-> 1, chore |-> {c}]
    OBVIOUS
  <2>3. a.household = 1 /\ a.chore = {c} /\ wire' = Send(w, "pickers", a)
    BY <1>5, <2>1, <2>2, DataAnswered
  <2>4. IsWire(wire') /\ Requests(wire') = Requests(w) \cup {Call("pickers", a)}
    BY <1>2, <2>3, SendRequests
  <2>5. FormAsked(view, Call("pickers", a))
    BY <1>3, <2>1, <2>3, CallFields DEF FormAsked, FormInv, FormPage
  <2> QED BY <1>1, <1>2, <1>3, <1>5, <2>4, <2>5 DEF FormInv, PickersKnown
<1> QED BY <1>1, <1>4, <1>5

LEMMA FormReceivesEdited ==
  ASSUME FormInv, NEW i \in DOMAIN wire, Form!ReceiveEdited(i)
  PROVE  FormInv'
<1>1. /\ wire[i].kind = "pickers" /\ view.page = "edit" /\ world' = world
      /\ wire' = Received(wire, i)
      /\ LET chore == CHOOSE c \in wire[i].arg.chore : TRUE
             v == [view EXCEPT !.loading = FALSE]
         IN view' = IF wire[i].is = "ok"
                    THEN [v EXCEPT !.members = Data(wire[i]).members, !.tags = Data(wire[i]).tags,
                                   !.optionsOf = 1, !.clone = {chore}, !.form = {Form!initialEdit(chore)}]
                    ELSE [v EXCEPT !.error = TRUE]
  BY FormWire DEF Form!ReceiveEdited
<1>2. FormAsked(view, wire[i]) /\ IsWire(wire') /\ Requests(wire') \subseteq Requests(wire)
  BY <1>1, FormReceived
<1>3. PICK c : wire[i].arg.chore = {c} /\ ChoreSound(c)
  BY <1>1, <1>2 DEF FormAsked
<1>4. PICK v : v = [view EXCEPT !.loading = FALSE]
  OBVIOUS
<1>5. /\ DOMAIN v = DOMAIN view /\ v.form = view.form /\ v.page = view.page /\ v.clone = view.clone
      /\ v.household = view.household /\ v.members = view.members /\ v.tags = view.tags
      /\ v.optionsOf = view.optionsOf
  BY <1>4 DEF FormInv, FormPage
<1>6. CASE wire[i].is = "ok"
  <2>1. wire[i].answer = {[members |-> MembersOf[1], tags |-> Form!TagsOf(1)]}
    BY <1>1, <1>2, <1>6 DEF FormAsked, FormInv, FormPage
  <2>2. PICK d : d = [members |-> MembersOf[1], tags |-> Form!TagsOf(1)]
    OBVIOUS
  <2>3. Data(wire[i]) = d /\ d.members = MembersOf[1] /\ d.tags = Form!TagsOf(1)
    BY <2>1, <2>2, DataAnswered
  <2>4. PICK g : g = Form!initialEdit(c)
    OBVIOUS
  <2>5. view' = [v EXCEPT !.members = d.members, !.tags = d.tags, !.optionsOf = 1, !.clone = {c},
                          !.form = {g}]
    BY <1>1, <1>3, <1>4, <1>6, <2>3, <2>4
  <2>6. /\ DOMAIN view' = DOMAIN view /\ view'.form = {g} /\ view'.page = view.page
        /\ view'.clone = {c} /\ view'.household = view.household
        /\ view'.members = d.members /\ view'.tags = d.tags /\ view'.optionsOf = 1
    BY <1>5, <2>5 DEF FormInv, FormPage
  <2>7. FormSound(view', g)
    <3>1. (c.current = Nobody /\ c.assignees # {}) \in BOOLEAN
      OBVIOUS
    <3> QED BY <1>3, <2>4, <2>6, <3>1, OpenedSound DEF Form!initialEdit, Unset
  <2>8. FormPage(view')
    BY <1>1, <1>3, <2>3, <2>6, <2>7 DEF FormInv, FormPage
  <2>9. \A r \in Requests(wire') : FormAsked(view', r)
    BY <1>2, <2>6 DEF FormInv, FormAsked
  <2> QED BY <1>1, <1>2, <2>6, <2>8, <2>9 DEF FormInv, PickersKnown
<1>7. CASE wire[i].is # "ok"
  <2>1. view' = [v EXCEPT !.error = TRUE]
    BY <1>1, <1>4, <1>7
  <2>2. /\ DOMAIN view' = DOMAIN view /\ view'.form = view.form
        /\ view'.page = view.page /\ view'.clone = view.clone /\ view'.household = view.household
        /\ view'.members = view.members /\ view'.tags = view.tags /\ view'.optionsOf = view.optionsOf
    BY <1>5, <2>1 DEF FormInv, FormPage
  <2> QED BY <1>1, <1>2, <2>2 DEF FormInv, FormPage, FormSound, FormAsked, PickersKnown
<1> QED BY <1>6, <1>7

(* The server's side.                                                      *)
LEMMA FormServed ==
  ASSUME FormInv, NEW i \in DOMAIN wire, NEW a, wire' = Ok(wire, i, a), view' = view, ChoreSound(world'),
         wire[i].kind = "chore" => ChoreSound(a),
         wire[i].kind = "pickers" => a = [members |-> MembersOf[wire[i].arg.household],
                                          tags |-> Form!TagsOf(wire[i].arg.household)]
  PROVE  FormInv'
<1>1. PICK r : /\ r.kind = wire[i].kind /\ r.arg = wire[i].arg /\ r.is = "ok" /\ r.answer = {a}
               /\ Becomes(wire', wire, i, r)
  BY OkRequest DEF FormInv
<1>2. FormAsked(view, r)
  BY <1>1 DEF FormInv, FormAsked, Becomes
<1> QED BY <1>1, <1>2 DEF FormInv, PickersKnown, Becomes

LEMMA FormSettled ==
  ASSUME FormInv, NEW i \in DOMAIN wire, NEW s \in {"invalid", "lost"}, wire' = Settle(wire, i, s),
         UNCHANGED <<view, world>>
  PROVE  FormInv'
<1>1. PICK r : /\ r.kind = wire[i].kind /\ r.arg = wire[i].arg /\ r.is = s
               /\ Becomes(wire', wire, i, r)
  BY SettleRequest DEF FormInv
<1>2. FormAsked(view, r)
  BY <1>1 DEF FormInv, FormAsked, Becomes
<1> QED BY <1>1, <1>2 DEF FormInv, PickersKnown, Becomes

LEMMA FormAnswered ==
  ASSUME FormInv, NEW i \in DOMAIN wire, Form!ServeRead(i) \/ Form!ServeSave(i) \/ Form!Lose(i)
  PROVE  FormInv'
<1>1. FormAsked(view, wire[i])
  BY FormReceived
<1>2. CASE Form!ServeRead(i)
  <2>1. wire[i].kind # "save" /\ view' = view /\ world' = world
    BY <1>2 DEF Form!ServeRead
  <2>2. CASE wire[i].kind = "households"
    BY <1>2, <2>1, <2>2, FormServed, FormWire DEF Form!ServeRead, FormInv
  <2>3. CASE wire[i].kind = "chore"
    BY <1>2, <2>1, <2>3, FormServed, FormWire DEF Form!ServeRead, FormInv
  <2>4. CASE wire[i].kind = "pickers"
    BY <1>2, <2>1, <2>4, FormServed, FormWire DEF Form!ServeRead, FormInv
  <2> QED BY <1>1, <2>1, <2>2, <2>3, <2>4 DEF FormAsked
<1>3. CASE Form!ServeSave(i)
  <2> DEFINE p == wire[i].arg
  <2>1. wire[i].kind = "save" /\ view' = view
    BY <1>3 DEF Form!ServeSave
  <2>2. CASE wire' = Settle(wire, i, "invalid") /\ world' = world
    BY <2>1, <2>2, FormSettled
  <2>3. CASE /\ p.assignees \subseteq MembersOf[p.household]
             /\ wire' = Ok(wire, i, TRUE)
             /\ IF view.page = "create" THEN UNCHANGED world
                ELSE \E who \in IF p.clear \/ p.assignees = {} THEN {Nobody}
                                ELSE IF p.current # Nobody THEN {p.current}
                                ELSE IF world.current \in p.assignees THEN {world.current}
                                ELSE p.assignees :
                       world' = [world EXCEPT !.current = who, !.assignees = p.assignees]
    <3>1. ChoreSound(world')
      <4>1. CASE view.page = "create"
        BY <2>3, <4>1 DEF FormInv
      <4>2. CASE view.page # "create"
        <5>1. p.current \in p.assignees \cup {Nobody} /\ p.assignees \subseteq MembersOf[1]
          BY <1>1, <2>1, <2>3, <4>2 DEF FormAsked, FormInv, FormPage
        <5>2. PICK who \in p.assignees \cup {Nobody} :
                world' = [world EXCEPT !.current = who, !.assignees = p.assignees]
          BY <2>3, <4>2, <5>1
        <5> HIDE DEF p
        <5> QED BY <5>1, <5>2 DEF FormInv, ChoreSound
      <4> QED BY <4>1, <4>2
    <3> QED BY <2>1, <2>3, <3>1, FormServed
  <2>4. \/ wire' = Settle(wire, i, "invalid") /\ world' = world
        \/ /\ p.assignees \subseteq MembersOf[p.household]
           /\ wire' = Ok(wire, i, TRUE)
           /\ IF view.page = "create" THEN UNCHANGED world
              ELSE \E who \in IF p.clear \/ p.assignees = {} THEN {Nobody}
                              ELSE IF p.current # Nobody THEN {p.current}
                              ELSE IF world.current \in p.assignees THEN {world.current}
                              ELSE p.assignees :
                     world' = [world EXCEPT !.current = who, !.assignees = p.assignees]
    BY <1>3, FormWire DEF Form!ServeSave
  <2> QED BY <2>2, <2>3, <2>4
<1>4. CASE Form!Lose(i)
  BY <1>4, FormSettled, FormWire DEF Form!Lose
<1> QED BY <1>2, <1>3, <1>4

LEMMA FormStep ==
  ASSUME FormInv, Form!Next PROVE FormInv'
<1>1. ASSUME NEW i \in DOMAIN wire,
             \/ Form!ServeRead(i) \/ Form!ServeSave(i) \/ Form!Lose(i) \/ Form!ReceiveSave(i)
             \/ /\ view.at = "form"
                /\ \/ Form!ReceiveHouseholds(i) \/ Form!ReceivePickers(i)
                   \/ Form!ReceiveChore(i) \/ Form!ReceiveEdited(i)
      PROVE  FormInv'
  BY <1>1, FormAnswered, FormLeaves, FormReceivesHouseholds, FormReceivesPickers, FormReceivesChore,
     FormReceivesEdited
<1>2. ASSUME \/ \E p \in People : Form!ToggleAssignee(p)
             \/ Form!SelectAllAssignees
             \/ \E s \in {"manual", "random"} : Form!ChooseStrategy(s)
             \/ \E r \in {"manual", "daily", "weekly"} : Form!ChooseRepeats(r)
             \/ \E n \in {Form!Blank, 1, Form!TooMany} : Form!TypeInterval(n)
             \/ \E pinned \in BOOLEAN : Form!PinWeekdays(pinned)
             \/ \E n \in {Form!Blank, 1, 3} : Form!TakeTurns(n)
             \/ \E p \in People \cup {Nobody} : Form!ChooseCurrent(p)
             \/ \E d \in {Form!Today, 3} : Form!ChooseDate(d)
             \/ \E t \in Form!Households : Form!ToggleTag(t)
      PROVE  FormInv'
  <2>1. view.form # {} /\ UNCHANGED <<wire, world>>
    BY <1>2 DEF Form!ToggleAssignee, Form!SelectAllAssignees, Form!ChooseStrategy, Form!ChooseRepeats,
                Form!TypeInterval, Form!PinWeekdays, Form!TakeTurns, Form!ChooseCurrent, Form!ChooseDate,
                Form!ToggleTag, Form!Fills
  <2>2. \/ \E s \in {"assignees", "strategy", "repeats", "pinned", "date", "tags"} : \E x : Form!Put(Form!Set(s, x))
        \/ \E p : Form!Put([Form!Set("current", p) EXCEPT !.values.clear = p = Nobody])
        \/ \E n \in 0..3 : Form!Put([Form!Form(view) EXCEPT !.interval = n])
        \/ Form!Put([Form!Form(view) EXCEPT !.takeTurns = ~@])
        \/ \E n : Form!Put([Form!Form(view) EXCEPT !.turn = n])
    <3>1. CASE \E n \in {Form!Blank, 1, Form!TooMany} : Form!TypeInterval(n)
      BY <3>1 DEF Form!TypeInterval, Form!Blank, Form!TooMany, Form!MAX_REPEAT_INTERVAL
    <3>2. CASE \/ \E p \in People : Form!ToggleAssignee(p)
               \/ Form!SelectAllAssignees
               \/ \E s \in {"manual", "random"} : Form!ChooseStrategy(s)
               \/ \E r \in {"manual", "daily", "weekly"} : Form!ChooseRepeats(r)
               \/ \E pinned \in BOOLEAN : Form!PinWeekdays(pinned)
      BY <3>2 DEF Form!ToggleAssignee, Form!SelectAllAssignees, Form!ChooseStrategy, Form!ChooseRepeats,
                  Form!PinWeekdays
    <3>3. CASE \/ \E n \in {Form!Blank, 1, 3} : Form!TakeTurns(n)
               \/ \E p \in People \cup {Nobody} : Form!ChooseCurrent(p)
      BY <3>3 DEF Form!TakeTurns, Form!ChooseCurrent
    <3>4. CASE \/ \E d \in {Form!Today, 3} : Form!ChooseDate(d)
               \/ \E t \in Form!Households : Form!ToggleTag(t)
      BY <3>4 DEF Form!ChooseDate, Form!ToggleTag
    <3> QED BY <1>2, <3>1, <3>2, <3>3, <3>4
  <2> QED BY <2>1, <2>2, FormFills
<1>3. ASSUME Form!OtherCompletes PROVE FormInv'
  <2>1. view' = view /\ wire' = wire
        /\ \E p \in world.assignees \ {world.current} : world' = [world EXCEPT !.current = p]
    BY <1>3 DEF Form!OtherCompletes
  <2>2. ChoreSound(world')
    BY <2>1 DEF FormInv, ChoreSound
  <2> QED BY <2>1, <2>2 DEF FormInv, PickersKnown
<1> QED BY <1>1, <1>2, <1>3, FormChoosesHousehold, FormSubmits, FormLeaves DEF Form!Next

FormOnly == page = "form" => FormInv

LEMMA SpecImpliesFormOnly == Spec => []FormOnly
<1>1. Init => FormOnly
  BY FormInit DEF Init, FormOnly
<1>2. FormOnly /\ [Next]_vars => FormOnly'
  <2>1. ASSUME FormOnly, Next, page' = "form" PROVE FormInv'
    <3>1. page = "form" /\ Form!Next
      BY <2>1 DEF Next
    <3> QED BY <2>1, <3>1, FormStep DEF FormOnly
  <2>2. ASSUME FormOnly, UNCHANGED vars PROVE FormOnly'
    BY <2>2 DEF vars, FormOnly, FormInv
  <2> QED BY <2>1, <2>2 DEF FormOnly
<1> QED BY <1>1, <1>2, PTL DEF Spec

LEMMA FormHidesDetail ==
  ASSUME FormInv PROVE Form!HiddenDetailIsNotSent
<1> DEFINE f == Form!Form(view)
           p == Form!Payload(view)
<1> SUFFICES ASSUME Form!Filling
             PROVE  /\ p.pinned => p.repeats = "weekly"
                    /\ p.repeats = "manual" <=> p.date = 0
                    /\ p.repeats = "manual" => p.interval = 1
                    /\ p.interval \in 1..Form!MAX_REPEAT_INTERVAL
                    /\ p.turn > 1 => p.strategy # "manual" /\ f.takeTurns
                    /\ p.current \in p.assignees \cup {Nobody}
                    /\ ~(p.clear /\ p.current # Nobody)
                    /\ ~Form!canPickAssignee(view) => p.current = Nobody /\ ~p.clear
  BY DEF Form!HiddenDetailIsNotSent
<1>1. FormSound(view, f)
  BY TheForm DEF Form!Filling, FormInv
<1>2. /\ p.strategy = f.values.strategy /\ p.repeats = f.values.repeats
      /\ p.date = IF Form!manualRepeat(f) THEN 0 ELSE Form!startDate(f)
      /\ p.turn = IF Form!isManual(f) \/ ~f.takeTurns THEN 1 ELSE IF f.turn < 2 THEN 2 ELSE f.turn
      /\ p.interval = Form!interval(f) /\ p.pinned = Form!weekdays(f)
      /\ p.assignees = Form!selectedAssignees(view)
      /\ p.current = IF Form!canPickAssignee(view) THEN Form!currentAssignee(view) ELSE Nobody
      /\ p.clear = (Form!canPickAssignee(view) /\ f.values.clear)
  BY DEF Form!Payload
<1>3. Form!currentAssignee(view) = IF f.values.current \in p.assignees THEN f.values.current ELSE Nobody
  BY <1>2 DEF Form!currentAssignee
<1> HIDE DEF f, p
<1>4. p.pinned => p.repeats = "weekly"
  BY <1>2 DEF Form!weekdays, Form!isWeekly
<1>5. p.repeats = "manual" <=> p.date = 0
  BY <1>2 DEF Form!manualRepeat, Form!startDate, Form!Today
<1>6. p.interval \in 1..Form!MAX_REPEAT_INTERVAL /\ (p.repeats = "manual" => p.interval = 1)
  BY <1>1, <1>2 DEF FormSound, Form!interval, Form!Clamp, Form!manualRepeat, Form!MAX_REPEAT_INTERVAL
<1>7. p.turn > 1 => p.strategy # "manual" /\ f.takeTurns
  BY <1>2 DEF Form!isManual
<1>8. /\ p.current \in p.assignees \cup {Nobody}
      /\ ~Form!canPickAssignee(view) => p.current = Nobody /\ ~p.clear
  BY <1>2, <1>3
<1>9. ~(p.clear /\ p.current # Nobody)
  BY <1>1, <1>2, <1>3 DEF FormSound
<1> QED BY <1>4, <1>5, <1>6, <1>7, <1>8, <1>9

(* What a chore form would send agrees with the form on screen, whatever   *)
(* was set and hidden again (ChoreForm.tsx:161-236): for any household,    *)
(* any members and any sequence of fills, loads and lost answers.          *)
THEOREM SpecImpliesHiddenDetailIsNotSent == Spec => []HiddenDetailIsNotSent
<1>1. FormOnly => HiddenDetailIsNotSent
  BY FormHidesDetail DEF FormOnly, HiddenDetailIsNotSent
<1> QED BY <1>1, SpecImpliesFormOnly, PTL

LEMMA FormKeepsAssignee ==
  ASSUME FormInv PROVE Form!UnrelatedEditKeepsAssignee
<1> DEFINE f == Form!Form(view)
           p == Form!Payload(view)
           chore == CHOOSE c \in view.clone : TRUE
<1> SUFFICES ASSUME Form!Filling, view.page = "edit", f.touched \cap {"assignees", "current"} = {}
             PROVE  /\ p.assignees = chore.assignees
                    /\ p.current = chore.current
                    /\ p.clear <=> chore.current = Nobody /\ chore.assignees # {}
  BY DEF Form!UnrelatedEditKeepsAssignee
<1>1. FormSound(view, f)
  BY TheForm DEF Form!Filling, FormInv
<1>2. PICK c : view.clone = {c} /\ ChoreSound(c)
  BY DEF Form!Filling, FormInv, FormPage
<1>3. chore = c
  BY <1>2
<1>4. Form!canPickAssignee(view) /\ view.members = MembersOf[1]
  BY DEF Form!canPickAssignee, Form!Filling, FormInv, FormPage
<1>5. /\ p.assignees = f.values.assignees \cap view.members
      /\ p.current = IF f.values.current \in p.assignees THEN f.values.current ELSE Nobody
      /\ p.clear = (Form!canPickAssignee(view) /\ f.values.clear)
  BY <1>4 DEF Form!Payload, Form!currentAssignee, Form!selectedAssignees
<1> HIDE DEF f, p, chore
<1>6. /\ f.values.assignees = c.assignees /\ f.values.current = c.current
      /\ f.values.clear <=> Unset(c)
  BY <1>1, <1>2 DEF FormSound
<1>7. p.assignees = c.assignees
  BY <1>2, <1>4, <1>5, <1>6 DEF ChoreSound
<1>8. p.current = c.current
  BY <1>2, <1>5, <1>6, <1>7 DEF ChoreSound
<1> QED BY <1>3, <1>4, <1>5, <1>6, <1>7, <1>8 DEF Unset

(* An edit that touches neither the pool nor the picker sends the assignee *)
(* the form was opened with (ChoreEdit.tsx:100-109), whatever the others do*)
(* to the chore meanwhile.                                                 *)
THEOREM SpecImpliesUnrelatedEditKeepsAssignee == Spec => []UnrelatedEditKeepsAssignee
<1>1. FormOnly => UnrelatedEditKeepsAssignee
  BY FormKeepsAssignee DEF FormOnly, UnrelatedEditKeepsAssignee
<1> QED BY <1>1, SpecImpliesFormOnly, PTL

LEMMA FormFollowsHousehold ==
  ASSUME FormInv PROVE Form!PickersFollowTheHousehold
<1> DEFINE f == Form!Form(view)
           p == Form!Payload(view)
           chore == CHOOSE c \in view.clone : TRUE
<1> SUFFICES ASSUME Form!Filling, view.page = "create"
             PROVE  /\ ~Out(wire, {"pickers"}) /\ ~view.error => view.optionsOf = view.household
                    /\ view.optionsOf = view.household =>
                         /\ p.assignees \subseteq MembersOf[view.household]
                         /\ p.tags \subseteq Form!TagsOf(view.household)
                         /\ view.clone # {} /\ "assignees" \notin f.touched =>
                              Form!Dropped(view) = chore.assignees \ p.assignees
  BY FormWire DEF Form!PickersFollowTheHousehold
<1>1. FormSound(view, f)
  BY TheForm DEF Form!Filling, FormInv
<1>2. /\ p.assignees = f.values.assignees \cap view.members
      /\ p.tags = f.values.tags \cap view.tags
  BY DEF Form!Payload, Form!selectedAssignees, Form!selectedTags
<1>3. view.clone # {} => Form!Dropped(view) = chore.assignees \ view.members
  BY DEF Form!Dropped
<1>4. view.clone # {} => view.clone = {chore}
  BY DEF FormInv, FormPage
<1> HIDE DEF f, p, chore
<1>5. ~Out(wire, {"pickers"}) /\ ~view.error => view.optionsOf = view.household
  BY DEF FormInv, PickersKnown, Form!Filling
<1>6. ASSUME view.optionsOf = view.household
      PROVE  p.assignees \subseteq MembersOf[view.household] /\ p.tags \subseteq Form!TagsOf(view.household)
  BY <1>2, <1>6 DEF FormInv, FormPage
<1>7. ASSUME view.clone # {}, "assignees" \notin f.touched
      PROVE  Form!Dropped(view) = chore.assignees \ p.assignees
  <2>1. f.values.assignees = chore.assignees
    BY <1>1, <1>4, <1>7 DEF FormSound
  <2> QED BY <1>2, <1>3, <1>7, <2>1
<1> QED BY <1>5, <1>6, <1>7

(* The pickers of a new chore are those of the household chosen last, and  *)
(* a clone loses what the note says it does (ChoreCreate.tsx:72-96, 158),  *)
(* in whatever order the answers for the households chosen come.           *)
THEOREM SpecImpliesPickersFollowTheHousehold == Spec => []PickersFollowTheHousehold
<1>1. FormOnly => PickersFollowTheHousehold
  BY FormFollowsHousehold DEF FormOnly, PickersFollowTheHousehold
<1> QED BY <1>1, SpecImpliesFormOnly, PTL

-----------------------------------------------------------------------------
(* The profile                                                             *)

LEMMA ProfileWire ==
  /\ \A w, k, a : Profile!Send(w, k, a) = Send(w, k, a)
  /\ \A w, i, a : Profile!Ok(w, i, a) = Ok(w, i, a)
  /\ \A w, i, s : Profile!Settle(w, i, s) = Settle(w, i, s)
  /\ \A w, i : Profile!Received(w, i) = Received(w, i)
  /\ \A w : Profile!Settled(w) = Settled(w)
  /\ \A w : Profile!Waiting(w) = Waiting(w)
  /\ \A r : Profile!Data(r) = Data(r)
BY DEF Profile!Send, Profile!Ok, Profile!Settle, Profile!Received, Profile!Settled, Profile!Waiting, Profile!Data, Profile!Call,
       Send, Ok, Settle, Received, Settled, Waiting, Data, Call

(* The section a request is about.                                         *)
Sec(r) == IF r.kind = "save" THEN r.arg.section ELSE r.arg

IsMap(f, S) == f = [x \in S |-> f[x]]

ProfileSound(v, d) ==
  /\ DOMAIN v = {"impersonating", "user", "shown", "name", "passwords", "saving", "errors", "saved", "missed"}
  /\ v.missed \in BOOLEAN
  /\ IsMap(v.user, Profile!Sections) /\ IsMap(v.shown, Profile!Optimistic) /\ IsMap(d, Profile!Sections)
  /\ v.impersonating => \A s \in Profile!Optimistic \ v.saved : v.shown[s] = OwnValue

ProfileAsked(v, r) ==
  /\ r.kind \in {"save", "refresh"} /\ Sec(r) \in Profile!Sections /\ Sec(r) \in v.saving
  /\ r.kind = "save" => Sec(r) \in v.saved
  /\ r.kind = "refresh" /\ r.is = "ok" => \E d : r.answer = {d} /\ IsMap(d, Profile!Sections)

(* One request for each section: its save, or the question that follows it.*)
OneEach(w) == \A i, j \in DOMAIN w : Sec(w[i]) = Sec(w[j]) => i = j

(* A lost answer is on its way, or was met: the page may be out of date    *)
(* for good.                                                               *)
Doomed(v, w) == v.missed \/ \E r \in Requests(w) : r.is = "lost"

(* An answer about the user knows of every save that was asked after.      *)
Ordered(w, d) ==
  \A p, q \in DOMAIN w :
    p <= q /\ w[p].kind = "refresh" /\ w[q].kind = "refresh" /\ w[q].is = "ok" =>
      Data(w[q])[w[p].arg] = d[w[p].arg]

(* No save of this section went through that the page has not asked after  *)
(* and been answered.                                                      *)
Untouched(w, s) == \A r \in Requests(w) : Sec(r) = s => r.kind = "save" /\ r.is # "ok"

UserCurrent(v, w, d) ==
  \A s \in Profile!Sections :
    Untouched(w, s) =>
      /\ v.user[s] = d[s]
      /\ \A r \in Requests(w) : r.kind = "refresh" /\ r.is = "ok" => Data(r)[s] = d[s]

ShownCurrent(v, w, d) ==
  ~v.impersonating =>
    \A s \in Profile!Optimistic :
      /\ (\A r \in Requests(w) : Sec(r) # s) => v.shown[s] = d[s]
      /\ \A r \in Requests(w) : Sec(r) = s /\ r.kind = "save" /\ r.is # "ok" => r.arg.prev = d[s]

Agree(v, w, d) == Ordered(w, d) /\ UserCurrent(v, w, d) /\ ShownCurrent(v, w, d)

ProfileInv ==
  /\ ProfileSound(view, world) /\ IsWire(wire) /\ OneEach(wire)
  /\ \A r \in Requests(wire) : ProfileAsked(view, r)
  /\ ~Doomed(view, wire) => Agree(view, wire, world)

LEMMA ProfileInit ==
  ASSUME Profile!Init PROVE ProfileInv
<1>1. PICK imp \in BOOLEAN :
        /\ world = [s \in Profile!Sections |-> CASE s = "photo" -> Profile!NoPhoto
                                                 [] s = "password" -> "good"
                                                 [] OTHER -> IF imp THEN TheirValue ELSE OwnValue]
        /\ view = [impersonating |-> imp, user |-> world,
                   shown |-> [s \in Profile!Optimistic |-> OwnValue], name |-> world["name"],
                   passwords |-> "empty", saving |-> {}, errors |-> {}, saved |-> {}, missed |-> FALSE]
        /\ wire = <<>>
  BY DEF Profile!Init
<1>2. IsMap(world, Profile!Sections) /\ IsMap(view.user, Profile!Sections) /\ view.user = world
  BY <1>1 DEF IsMap
<1>3. /\ view.impersonating = imp /\ view.missed = FALSE /\ IsMap(view.shown, Profile!Optimistic)
      /\ \A s \in Profile!Optimistic : view.shown[s] = OwnValue
  BY <1>1 DEF IsMap
<1>4. ASSUME ~imp, NEW s \in Profile!Optimistic PROVE world[s] = OwnValue
  BY <1>1, <1>4 DEF Profile!Optimistic, Profile!Sections
<1>5. IsWire(wire) /\ Requests(wire) = {} /\ DOMAIN wire = {}
  BY <1>1, NoRequests
<1>6. ProfileSound(view, world)
  BY <1>1, <1>2, <1>3 DEF ProfileSound
<1>7. Agree(view, wire, world)
  BY <1>2, <1>3, <1>4, <1>5 DEF Agree, Ordered, UserCurrent, ShownCurrent
<1> QED BY <1>5, <1>6, <1>7 DEF ProfileInv, OneEach

(* What stays when requests go: their order, and one for each section.     *)
LEMMA ProfileKeeps ==
  ASSUME NEW w, IsWire(w), NEW v, NEW S, S \subseteq DOMAIN w, Keeps(v, w, S), IsWire(v), NEW d
  PROVE  /\ OneEach(w) => OneEach(v)
         /\ Ordered(w, d) => Ordered(v, d)
<1>1. PICK f \in [DOMAIN v -> S] :
         /\ \A n \in DOMAIN v : v[n] = w[f[n]]
         /\ \A m, n \in DOMAIN v : m < n => f[m] < f[n]
         /\ \A i \in S : \E n \in DOMAIN v : f[n] = i
  BY DEF Keeps
<1>2. \A n \in DOMAIN v : f[n] \in S /\ f[n] \in DOMAIN w /\ f[n] \in Nat /\ n \in Nat
  BY <1>1 DEF IsWire
<1>3. ASSUME OneEach(w) PROVE OneEach(v)
  <2>1. ASSUME NEW m \in DOMAIN v, NEW n \in DOMAIN v, Sec(v[m]) = Sec(v[n])
        PROVE  m = n
    <3>1. f[m] = f[n]
      BY <1>1, <1>2, <1>3, <2>1 DEF OneEach
    <3>2. ~(m < n) /\ ~(n < m)
      BY <1>1, <1>2, <3>1
    <3> QED BY <1>2, <3>2
  <2> QED BY <2>1 DEF OneEach
<1>4. ASSUME Ordered(w, d) PROVE Ordered(v, d)
  <2>1. ASSUME NEW p \in DOMAIN v, NEW q \in DOMAIN v, p <= q PROVE f[p] <= f[q]
    <3>1. p < q \/ p = q
      BY <1>2, <2>1
    <3> QED BY <1>1, <1>2, <3>1
  <2> QED BY <1>1, <1>2, <1>4, <2>1 DEF Ordered
<1> QED BY <1>3, <1>4

LEMMA ProfileSends ==
  ASSUME NEW w, IsWire(w), OneEach(w), NEW k, NEW a, \A r \in Requests(w) : Sec(r) # Sec(Call(k, a)), NEW d
  PROVE  OneEach(Send(w, k, a)) /\ (Ordered(w, d) => Ordered(Send(w, k, a), d))
<1> DEFINE v == Send(w, k, a)
           c == Call(k, a)
<1>1. /\ DOMAIN w = 1..Len(w) /\ Len(w) \in Nat /\ DOMAIN v = 1..(Len(w) + 1)
      /\ \A i \in DOMAIN w : v[i] = w[i]
      /\ v[Len(w) + 1] = c
  BY SendWire
<1>2. c.is = "sent" /\ \A r \in Requests(w) : Sec(r) # Sec(c)
  BY CallFields
<1> HIDE DEF v, c
<1>3. \A i \in DOMAIN v : i \in DOMAIN w \/ i = Len(w) + 1
  BY <1>1
<1>4. \A i \in DOMAIN w : w[i] \in Requests(w)
  BY DEF Requests
<1>5. OneEach(v)
  BY <1>1, <1>2, <1>3, <1>4 DEF OneEach
<1>6. ASSUME Ordered(w, d) PROVE Ordered(v, d)
  <2>1. ASSUME NEW p \in DOMAIN v, NEW q \in DOMAIN v, p <= q, v[q].is = "ok"
        PROVE  p \in DOMAIN w /\ q \in DOMAIN w
    BY <1>1, <1>2, <1>3, <2>1
  <2> QED BY <1>1, <1>6, <2>1 DEF Ordered
<1> QED BY <1>5, <1>6 DEF v

(* One request settles, and what the API has may change with it.           *)
LEMMA ProfileTurns ==
  ASSUME NEW w, OneEach(w), NEW i \in DOMAIN w, NEW v, NEW r, NEW d, NEW d2,
         DOMAIN v = DOMAIN w, \A j \in DOMAIN w : j # i => v[j] = w[j], v[i] = r,
         r.kind = w[i].kind, r.arg = w[i].arg,
         \A j \in DOMAIN w : w[j].kind = "refresh" => d2[w[j].arg] = d[w[j].arg],
         r.kind = "refresh" /\ r.is = "ok" => Data(r) = d2
  PROVE  OneEach(v) /\ (Ordered(w, d) => Ordered(v, d2))
<1>1. \A j \in DOMAIN w : v[j].kind = w[j].kind /\ v[j].arg = w[j].arg
  OBVIOUS
<1>2. OneEach(v)
  BY <1>1 DEF OneEach, Sec
<1>3. ASSUME Ordered(w, d) PROVE Ordered(v, d2)
  <2>1. ASSUME NEW p \in DOMAIN v, NEW q \in DOMAIN v, p <= q,
               v[p].kind = "refresh", v[q].kind = "refresh", v[q].is = "ok"
        PROVE  Data(v[q])[v[p].arg] = d2[v[p].arg]
    <3>1. CASE q = i
      BY <3>1, <2>1
    <3>2. CASE q # i
      <4>1. Data(w[q])[w[p].arg] = d[w[p].arg]
        BY <1>1, <1>3, <2>1, <3>2 DEF Ordered
      <4> QED BY <1>1, <2>1, <3>2, <4>1
    <3> QED BY <3>1, <3>2
  <2> QED BY <2>1 DEF Ordered
<1> QED BY <1>2, <1>3

(* What is typed, and what is turned down before it is sent.               *)
LEMMA ProfileTypes ==
  ASSUME ProfileInv, UNCHANGED <<wire, world>>, NEW x,
         \/ view' = [view EXCEPT !.name = x] \/ view' = [view EXCEPT !.passwords = x]
         \/ view' = [view EXCEPT !.errors = x]
  PROVE  ProfileInv'
<1>1. /\ DOMAIN view' = DOMAIN view /\ view'.impersonating = view.impersonating
      /\ view'.user = view.user /\ view'.shown = view.shown /\ view'.saving = view.saving
      /\ view'.saved = view.saved /\ view'.missed = view.missed
  BY DEF ProfileInv, ProfileSound
<1> QED BY <1>1 DEF ProfileInv, ProfileSound, ProfileAsked, Doomed, Agree, UserCurrent, ShownCurrent

(* A section that is not busy agrees with the server, so what it goes back *)
(* to when the save is refused is what the server has.                     *)
LEMMA ProfileSaves ==
  ASSUME ProfileInv, NEW s \in Profile!Sections, s \notin view.saving, NEW u, NEW next, NEW prev,
         Profile!Save(u, s, next, prev), world' = world,
         \/ u = view /\ s \notin Profile!Optimistic
         \/ s \in Profile!Optimistic /\ u = [view EXCEPT !.shown[s] = next] /\ prev = view.shown[s]
  PROVE  ProfileInv'
<1>1. PICK a : a = [section |-> s, next |-> next, prev |-> prev]
  OBVIOUS
<1>2. a.section = s /\ a.prev = prev
  BY <1>1
<1> DEFINE c == Call("save", a)
<1>3. wire' = Send(wire, "save", a) /\ view' = Profile!Busy(u, s)
  BY <1>1, ProfileWire DEF Profile!Save
<1>4. c.kind = "save" /\ c.arg = a /\ c.is = "sent" /\ Sec(c) = s
  BY <1>2, CallFields DEF Sec
<1>5. \A r \in Requests(wire) : Sec(r) # Sec(c)
  BY <1>4 DEF ProfileInv, ProfileAsked
<1>6. /\ IsWire(wire') /\ Requests(wire') = Requests(wire) \cup {c} /\ OneEach(wire')
      /\ Ordered(wire, world) => Ordered(wire', world')
  BY <1>3, <1>5, SendRequests, ProfileSends DEF ProfileInv
<1> HIDE DEF c
<1>7. /\ DOMAIN u = DOMAIN view /\ u.impersonating = view.impersonating /\ u.user = view.user
      /\ u.saving = view.saving /\ u.saved = view.saved /\ u.missed = view.missed
      /\ IsMap(u.shown, Profile!Optimistic)
      /\ \A t \in Profile!Optimistic : t # s => u.shown[t] = view.shown[t]
  BY DEF ProfileInv, ProfileSound, IsMap
<1>8. /\ DOMAIN view' = DOMAIN view /\ view'.impersonating = view.impersonating /\ view'.user = view.user
      /\ view'.saving = view.saving \cup {s} /\ view'.saved = view.saved \cup {s}
      /\ view'.missed = view.missed /\ view'.shown = u.shown
  BY <1>3, <1>7 DEF Profile!Busy, ProfileInv, ProfileSound
<1>9. ProfileSound(view', world')
  BY <1>7, <1>8 DEF ProfileInv, ProfileSound
<1>10. \A r \in Requests(wire') : ProfileAsked(view', r)
  BY <1>4, <1>6, <1>8 DEF ProfileInv, ProfileAsked
<1>11. ASSUME ~Doomed(view', wire') PROVE Agree(view', wire', world')
  <2>1. Agree(view, wire, world)
    BY <1>6, <1>8, <1>11 DEF ProfileInv, Doomed
  <2>2. UserCurrent(view', wire', world')
    BY <2>1, <1>4, <1>6, <1>8 DEF Agree, UserCurrent, Untouched
  <2>3. ASSUME ~view'.impersonating, NEW t \in Profile!Optimistic
        PROVE  /\ (\A r \in Requests(wire') : Sec(r) # t) => view'.shown[t] = world'[t]
               /\ \A r \in Requests(wire') : Sec(r) = t /\ r.kind = "save" /\ r.is # "ok" => r.arg.prev = world'[t]
    <3>1. CASE t = s
      <4>1. prev = world[s]
        BY <2>1, <2>3, <3>1, <1>4, <1>5, <1>8 DEF Agree, ShownCurrent
      <4> QED BY <3>1, <4>1, <1>2, <1>4, <1>5, <1>6
    <3>2. CASE t # s
      BY <2>1, <2>3, <3>2, <1>4, <1>6, <1>7, <1>8 DEF Agree, ShownCurrent
    <3> QED BY <3>1, <3>2
  <2> QED BY <2>1, <2>2, <2>3, <1>6 DEF Agree, ShownCurrent
<1> QED BY <1>6, <1>9, <1>10, <1>11 DEF ProfileInv

(* What is left of the requests when an answer is received.                *)
LEMMA ProfileReceived ==
  ASSUME ProfileInv, NEW i \in DOMAIN wire
  PROVE  LET w == Received(wire, i) IN
         /\ wire[i] \in Requests(wire) /\ ProfileAsked(view, wire[i])
         /\ IsWire(w) /\ OneEach(w) /\ Requests(w) \subseteq Requests(wire)
         /\ Requests(wire) \subseteq Requests(w) \cup {wire[i]}
         /\ \A r \in Requests(w) : Sec(r) # Sec(wire[i])
         /\ Ordered(wire, world) => Ordered(w, world)
<1> DEFINE w == Received(wire, i)
           S == DOMAIN wire \ {i}
<1>1. IsWire(w) /\ Keeps(w, wire, S)
  BY ReceivedWire DEF ProfileInv
<1>2. /\ wire[i] \in Requests(wire) /\ Requests(w) \subseteq Requests(wire)
      /\ Requests(wire) \subseteq Requests(w) \cup {wire[i]}
  BY ReceivedRequests DEF ProfileInv, Requests
<1> HIDE DEF w
<1>3. OneEach(w) /\ (Ordered(wire, world) => Ordered(w, world)) /\ Requests(w) = {wire[j] : j \in S}
  BY <1>1, ProfileKeeps, KeepsRequests DEF ProfileInv
<1>4. \A r \in Requests(w) : Sec(r) # Sec(wire[i])
  BY <1>3 DEF ProfileInv, OneEach
<1> QED BY <1>1, <1>2, <1>3, <1>4 DEF w, ProfileInv

(* A save went through: the page asks who the user is.                     *)
LEMMA ProfileAsksAgain ==
  ASSUME ProfileInv, NEW i \in DOMAIN wire, Profile!ReceiveSave(i), wire[i].is = "ok"
  PROVE  ProfileInv'
<1> DEFINE w == Received(wire, i)
           s == wire[i].arg.section
           c == Call("refresh", s)
<1>1. /\ wire[i].kind = "save" /\ world' = world /\ wire' = Send(w, "refresh", s)
      /\ view' = IF s = "password" THEN [view EXCEPT !.passwords = "empty"] ELSE view
  BY ProfileWire DEF Profile!ReceiveSave
<1>2. s = Sec(wire[i])
  BY <1>1 DEF Sec
<1>3. /\ wire[i] \in Requests(wire) /\ ProfileAsked(view, wire[i])
      /\ IsWire(w) /\ OneEach(w) /\ Requests(w) \subseteq Requests(wire)
      /\ Requests(wire) \subseteq Requests(w) \cup {wire[i]}
      /\ \A r \in Requests(w) : Sec(r) # s
      /\ Ordered(wire, world) => Ordered(w, world)
  BY <1>2, ProfileReceived
<1>4. c.kind = "refresh" /\ c.arg = s /\ c.is = "sent" /\ Sec(c) = s
  BY CallFields DEF Sec
<1> HIDE DEF w, s
<1>5. /\ IsWire(wire') /\ Requests(wire') = Requests(w) \cup {c} /\ OneEach(wire')
      /\ Ordered(wire, world) => Ordered(wire', world')
  BY <1>1, <1>3, <1>4, SendRequests, ProfileSends
<1> HIDE DEF c
<1>6. /\ DOMAIN view' = DOMAIN view /\ view'.impersonating = view.impersonating
      /\ view'.user = view.user /\ view'.shown = view.shown /\ view'.saving = view.saving
      /\ view'.saved = view.saved /\ view'.missed = view.missed
  BY <1>1 DEF ProfileInv, ProfileSound
<1>7. ProfileSound(view', world')
  BY <1>1, <1>6 DEF ProfileInv, ProfileSound
<1>8. \A r \in Requests(wire') : ProfileAsked(view', r)
  BY <1>2, <1>3, <1>4, <1>5, <1>6 DEF ProfileInv, ProfileAsked
<1>9. ASSUME ~Doomed(view', wire') PROVE Agree(view', wire', world')
  <2>1. Agree(view, wire, world)
    BY <1>3, <1>5, <1>6, <1>9 DEF ProfileInv, Doomed
  <2>2. UserCurrent(view', wire', world')
    <3>1. ASSUME NEW t, Untouched(wire', t) PROVE t # s /\ Untouched(wire, t)
      BY <3>1, <1>2, <1>3, <1>4, <1>5 DEF Untouched
    <3> QED BY <2>1, <3>1, <1>1, <1>3, <1>4, <1>5, <1>6 DEF Agree, UserCurrent
  <2>3. ShownCurrent(view', wire', world')
    BY <2>1, <1>1, <1>2, <1>3, <1>4, <1>5, <1>6 DEF Agree, ShownCurrent
  <2> QED BY <2>1, <2>2, <2>3, <1>5 DEF Agree
<1> QED BY <1>5, <1>7, <1>8, <1>9 DEF ProfileInv

(* A save was refused, or nobody knows: the page takes back what it showed.*)
LEMMA ProfileTakesBack ==
  ASSUME ProfileInv, NEW i \in DOMAIN wire, Profile!ReceiveSave(i), wire[i].is # "ok"
  PROVE  ProfileInv'
<1> DEFINE w == Received(wire, i)
           s == wire[i].arg.section
           prev == wire[i].arg.prev
           u == [view EXCEPT !.saving = view.saving \ {s}, !.errors = view.errors \cup {s},
                             !.missed = view.missed \/ wire[i].is = "lost"]
<1>1. /\ wire[i].kind = "save" /\ world' = world /\ wire' = w
      /\ view' = Profile!RolledBack(u, s, prev)
  BY ProfileWire DEF Profile!ReceiveSave
<1>2. s = Sec(wire[i])
  BY <1>1 DEF Sec
<1>3. /\ wire[i] \in Requests(wire) /\ ProfileAsked(view, wire[i])
      /\ IsWire(w) /\ OneEach(w) /\ Requests(w) \subseteq Requests(wire)
      /\ Requests(wire) \subseteq Requests(w) \cup {wire[i]}
      /\ \A r \in Requests(w) : Sec(r) # s
      /\ Ordered(wire, world) => Ordered(w, world)
  BY <1>2, ProfileReceived
<1>4. /\ DOMAIN u = DOMAIN view /\ u.impersonating = view.impersonating
      /\ u.user = view.user /\ u.shown = view.shown /\ u.saving = view.saving \ {s}
      /\ u.saved = view.saved /\ u.missed = (view.missed \/ wire[i].is = "lost")
  BY DEF ProfileInv, ProfileSound
<1> HIDE DEF w, s, prev, u
<1>5. /\ DOMAIN view' = DOMAIN view /\ view'.impersonating = view.impersonating
      /\ view'.user = view.user /\ view'.saving = view.saving \ {s}
      /\ view'.saved = view.saved /\ view'.missed = u.missed /\ view'.missed \in BOOLEAN
      /\ view'.missed <=> view.missed \/ wire[i].is = "lost"
      /\ IsMap(view'.shown, Profile!Optimistic)
      /\ \A t \in Profile!Optimistic : view'.shown[t] = IF t = s THEN prev ELSE view.shown[t]
  <2>1. /\ DOMAIN view' = DOMAIN view /\ view'.impersonating = view.impersonating
        /\ view'.user = view.user /\ view'.saving = view.saving \ {s}
        /\ view'.saved = view.saved /\ view'.missed = u.missed
        /\ view'.shown = IF s \in Profile!Optimistic THEN [view.shown EXCEPT ![s] = prev] ELSE view.shown
    BY <1>1, <1>4 DEF ProfileInv, ProfileSound, Profile!RolledBack
  <2>2. /\ IsMap(view'.shown, Profile!Optimistic)
        /\ \A t \in Profile!Optimistic : view'.shown[t] = IF t = s THEN prev ELSE view.shown[t]
    BY <2>1 DEF ProfileInv, ProfileSound, IsMap
  <2> QED BY <1>4, <2>1, <2>2 DEF ProfileInv, ProfileSound
<1>6. ProfileSound(view', world')
  BY <1>1, <1>2, <1>3, <1>5 DEF ProfileInv, ProfileSound, ProfileAsked
<1>7. \A r \in Requests(wire') : ProfileAsked(view', r)
  BY <1>1, <1>3, <1>5 DEF ProfileInv, ProfileAsked
<1>8. ASSUME ~Doomed(view', wire') PROVE Agree(view', wire', world')
  <2>1. Agree(view, wire, world)
    BY <1>1, <1>3, <1>5, <1>8 DEF ProfileInv, Doomed
  <2>2. UserCurrent(view', wire', world')
    <3>1. ASSUME NEW t, Untouched(wire', t) PROVE Untouched(wire, t)
      BY <3>1, <1>1, <1>3 DEF Untouched
    <3> QED BY <2>1, <3>1, <1>1, <1>3, <1>5 DEF Agree, UserCurrent
  <2>3. ASSUME ~view'.impersonating, NEW t \in Profile!Optimistic
        PROVE  /\ (\A r \in Requests(wire') : Sec(r) # t) => view'.shown[t] = world'[t]
               /\ \A r \in Requests(wire') : Sec(r) = t /\ r.kind = "save" /\ r.is # "ok" => r.arg.prev = world'[t]
    <3>1. t = s => prev = world[t]
      BY <2>1, <2>3, <1>1, <1>2, <1>3, <1>5 DEF Agree, ShownCurrent, prev
    <3>2. t # s /\ (\A r \in Requests(wire') : Sec(r) # t) => \A r \in Requests(wire) : Sec(r) # t
      BY <1>1, <1>2, <1>3
    <3> QED BY <2>1, <2>3, <3>1, <3>2, <1>1, <1>3, <1>5 DEF Agree, ShownCurrent
  <2> QED BY <2>1, <2>2, <2>3, <1>1, <1>3 DEF Agree, ShownCurrent
<1> QED BY <1>1, <1>3, <1>6, <1>7, <1>8 DEF ProfileInv

(* The user comes back: answers about them are received in their order, so *)
(* this one and every later one knows of the save it was asked after.      *)
LEMMA ProfileRefreshes ==
  ASSUME ProfileInv, NEW i \in DOMAIN wire, Profile!ReceiveRefresh(i), ~Overtakes
  PROVE  ProfileInv'
<1> DEFINE w == Received(wire, i)
           s == wire[i].arg
           d == Data(wire[i])
           v == [view EXCEPT !.saving = view.saving \ {s}]
<1>1. /\ wire[i].kind = "refresh" /\ world' = world /\ wire' = w
      /\ \A j \in 1..(i - 1) : wire[j].kind # "refresh"
      /\ view' = IF wire[i].is = "ok" THEN Profile!syncAppearance([v EXCEPT !.user = d], d)
                 ELSE [v EXCEPT !.missed = TRUE]
  BY ProfileWire DEF Profile!ReceiveRefresh
<1>2. s = Sec(wire[i])
  BY <1>1 DEF Sec
<1>3. /\ wire[i] \in Requests(wire) /\ ProfileAsked(view, wire[i])
      /\ IsWire(w) /\ OneEach(w) /\ Requests(w) \subseteq Requests(wire)
      /\ Requests(wire) \subseteq Requests(w) \cup {wire[i]}
      /\ \A r \in Requests(w) : Sec(r) # s
      /\ Ordered(wire, world) => Ordered(w, world)
  BY <1>2, ProfileReceived
<1>4. /\ DOMAIN v = DOMAIN view /\ v.impersonating = view.impersonating /\ v.user = view.user
      /\ v.shown = view.shown /\ v.saving = view.saving \ {s} /\ v.saved = view.saved /\ v.missed = view.missed
  BY DEF ProfileInv, ProfileSound
<1>5. Requests(w) = {wire[j] : j \in DOMAIN wire \ {i}}
  <2>1. /\ IsWire(wire) /\ IsWire(w) /\ Keeps(w, wire, DOMAIN wire \ {i})
        /\ DOMAIN wire \ {i} \subseteq DOMAIN wire
    BY ReceivedWire DEF ProfileInv
  <2> HIDE DEF w
  <2> QED BY <2>1, KeepsRequests
<1> HIDE DEF w, s, d, v
<1>6. CASE wire[i].is # "ok"
  <2>1. view' = [v EXCEPT !.missed = TRUE]
    BY <1>1, <1>6
  <2>2. /\ DOMAIN view' = DOMAIN view /\ view'.impersonating = view.impersonating
        /\ view'.user = view.user /\ view'.shown = view.shown /\ view'.saving = view.saving \ {s}
        /\ view'.saved = view.saved /\ view'.missed = TRUE
    BY <1>4, <2>1 DEF ProfileInv, ProfileSound
  <2>3. Doomed(view', wire')
    BY <2>2 DEF Doomed
  <2>4. ProfileSound(view', world')
    BY <1>1, <2>2 DEF ProfileInv, ProfileSound
  <2>5. \A r \in Requests(wire') : ProfileAsked(view', r)
    BY <1>1, <1>3, <2>2 DEF ProfileInv, ProfileAsked
  <2> QED BY <1>1, <1>3, <2>3, <2>4, <2>5 DEF ProfileInv
<1>7. CASE wire[i].is = "ok"
  <2>1. IsMap(d, Profile!Sections)
    <3>1. PICK x : wire[i].answer = {x} /\ IsMap(x, Profile!Sections)
      BY <1>1, <1>3, <1>7 DEF ProfileAsked
    <3> QED BY <3>1, DataAnswered DEF d
  <2>2. PICK u : u = [v EXCEPT !.user = d]
    OBVIOUS
  <2>3. /\ DOMAIN u = DOMAIN view /\ u.impersonating = view.impersonating /\ u.user = d
        /\ u.shown = view.shown /\ u.saving = view.saving \ {s} /\ u.saved = view.saved /\ u.missed = view.missed
    BY <1>4, <2>2 DEF ProfileInv, ProfileSound
  <2>4. view' = IF u.impersonating THEN u ELSE [u EXCEPT !.shown = [x \in Profile!Optimistic |-> d[x]]]
    BY <1>1, <1>7, <2>2 DEF Profile!syncAppearance
  <2>5. /\ DOMAIN view' = DOMAIN view /\ view'.impersonating = view.impersonating /\ view'.user = d
        /\ view'.saving = view.saving \ {s} /\ view'.saved = view.saved /\ view'.missed = view.missed
        /\ view.impersonating => view'.shown = view.shown
        /\ ~view.impersonating => view'.shown = [x \in Profile!Optimistic |-> d[x]]
    BY <2>3, <2>4 DEF ProfileInv, ProfileSound
  <2>6. ProfileSound(view', world')
    <3>1. IsMap(view'.shown, Profile!Optimistic)
      BY <2>5 DEF ProfileInv, ProfileSound, IsMap
    <3> QED BY <1>1, <2>1, <2>5, <3>1 DEF ProfileInv, ProfileSound
  <2>7. \A r \in Requests(wire') : ProfileAsked(view', r)
    BY <1>1, <1>3, <2>5 DEF ProfileInv, ProfileAsked
  <2>8. ASSUME ~Doomed(view', wire') PROVE Agree(view', wire', world')
    <3>1. Agree(view, wire, world)
      BY <1>1, <1>3, <1>7, <2>5, <2>8 DEF ProfileInv, Doomed
    <3>2. ASSUME NEW j \in DOMAIN wire, wire[j].kind = "refresh", wire[j].is = "ok"
          PROVE  Data(wire[j])[s] = world[s]
      <4>1. DOMAIN wire \subseteq Nat /\ \A k \in DOMAIN wire : k >= 1
        BY DEF ProfileInv, IsWire
      <4>2. i <= j
        BY <1>1, <3>2, <4>1
      <4> QED BY <1>1, <3>1, <3>2, <4>2 DEF Agree, Ordered, s
    <3>3. ASSUME NEW t \in Profile!Sections, Untouched(wire', t)
          PROVE  /\ d[t] = world[t]
                 /\ \A r \in Requests(wire') : r.kind = "refresh" /\ r.is = "ok" => Data(r)[t] = world[t]
      <4>1. CASE t = s
        <5>1. d[t] = world[t]
          BY <1>1, <1>7, <3>2, <4>1 DEF d
        <5>2. ASSUME NEW r \in Requests(wire'), r.kind = "refresh", r.is = "ok"
              PROVE  Data(r)[t] = world[t]
          <6>1. PICK j \in DOMAIN wire \ {i} : r = wire[j]
            BY <1>1, <1>5
          <6> QED BY <3>2, <4>1, <5>2, <6>1
        <5> QED BY <5>1, <5>2
      <4>2. CASE t # s
        <5>1. Untouched(wire, t)
          BY <1>1, <1>2, <1>3, <3>3, <4>2 DEF Untouched
        <5> QED BY <1>1, <1>3, <1>7, <3>1, <5>1 DEF Agree, UserCurrent, d
      <4> QED BY <4>1, <4>2
    <3>4. UserCurrent(view', wire', world')
      BY <1>1, <2>5, <3>3 DEF UserCurrent
    <3>5. ShownCurrent(view', wire', world')
      <4>1. ASSUME ~view'.impersonating, NEW t \in Profile!Optimistic,
                   \A r \in Requests(wire') : Sec(r) # t
            PROVE  view'.shown[t] = world'[t]
        <5>1. t \in Profile!Sections /\ Untouched(wire', t)
          BY <4>1 DEF Untouched, Profile!Optimistic, Profile!Sections
        <5>2. d[t] = world[t]
          BY <3>3, <5>1
        <5> QED BY <1>1, <2>5, <4>1, <5>2
      <4> QED BY <4>1, <1>1, <1>3, <2>5, <3>1 DEF Agree, ShownCurrent
    <3> QED BY <1>1, <1>3, <3>1, <3>4, <3>5 DEF Agree
  <2> QED BY <1>1, <1>3, <2>6, <2>7, <2>8 DEF ProfileInv
<1> QED BY <1>6, <1>7

(* The server's side: a save that is stored is the only request of its     *)
(* section.                                                                *)
LEMMA ProfileSettles ==
  ASSUME ProfileInv, NEW i \in DOMAIN wire, NEW r,
         r.kind = wire[i].kind, r.arg = wire[i].arg, Becomes(wire', wire, i, r), view' = view,
         \/ world' = world
         \/ /\ r.kind = "save" /\ r.is = "ok"
            /\ \E x : world' = [world EXCEPT ![Sec(r)] = x],
         r.kind = "save" /\ r.is # "ok" => wire[i].is # "ok" \/ r.is = "lost",
         r.kind = "refresh" /\ r.is = "ok" => r.answer = {world'},
         wire[i].is = "lost" => r.is = "lost"
  PROVE  ProfileInv'
<1>1. Sec(r) = Sec(wire[i]) /\ wire[i] \in Requests(wire) /\ ProfileAsked(view, wire[i])
  BY DEF Sec, Becomes, ProfileInv
<1>2. ASSUME NEW q \in Requests(wire'), q # r PROVE q \in Requests(wire) /\ Sec(q) # Sec(r)
  <2>1. PICK j \in DOMAIN wire : q = wire'[j] /\ j # i
    BY <1>2 DEF Requests, Becomes
  <2> QED BY <2>1, <1>1 DEF ProfileInv, OneEach, Requests, Becomes
<1>3. ASSUME NEW t \in Profile!Sections, t # Sec(r) PROVE world'[t] = world[t]
  BY <1>3 DEF ProfileInv, ProfileSound, IsMap
<1>4. IsMap(world', Profile!Sections)
  BY DEF ProfileInv, ProfileSound, IsMap
<1>5. ProfileSound(view', world')
  BY <1>4 DEF ProfileInv, ProfileSound
<1>6. \A q \in Requests(wire') : ProfileAsked(view', q)
  <2>1. r.kind = "refresh" /\ r.is = "ok" => \E d : r.answer = {d} /\ IsMap(d, Profile!Sections)
    BY <1>4
  <2>2. ProfileAsked(view, r)
    BY <1>1, <2>1 DEF ProfileAsked
  <2> QED BY <1>2, <2>2 DEF ProfileInv
<1>7. OneEach(wire') /\ (Ordered(wire, world) => Ordered(wire', world'))
  <2>1. \A j \in DOMAIN wire : wire[j].kind = "refresh" => world'[wire[j].arg] = world[wire[j].arg]
    <3>1. ASSUME NEW j \in DOMAIN wire, wire[j].kind = "refresh", world' # world
          PROVE  world'[wire[j].arg] = world[wire[j].arg]
      <4>1. wire[j] \in Requests(wire) /\ Sec(wire[j]) = wire[j].arg /\ j # i
        BY <3>1 DEF Requests, Sec
      <4>2. wire[j].arg \in Profile!Sections /\ wire[j].arg # Sec(r)
        BY <1>1, <4>1 DEF ProfileInv, ProfileAsked, OneEach
      <4> QED BY <1>3, <4>2
    <3> QED BY <3>1
  <2>2. r.kind = "refresh" /\ r.is = "ok" => Data(r) = world'
    BY DataAnswered
  <2> QED BY <2>1, <2>2, ProfileTurns DEF ProfileInv, Becomes
<1>8. ASSUME ~Doomed(view', wire') PROVE Agree(view', wire', world')
  <2>1. r.is # "lost" /\ r \in Requests(wire')
    BY <1>8 DEF Doomed, Becomes
  <2>2. Agree(view, wire, world)
    <3>1. ASSUME NEW q \in Requests(wire) PROVE q.is # "lost"
      BY <1>8, <2>1, <3>1 DEF Doomed, Becomes
    <3> QED BY <1>8, <3>1 DEF ProfileInv, Doomed
  <2>3. ASSUME NEW t, Untouched(wire', t) PROVE Untouched(wire, t)
    BY <2>1, <2>3, <1>1 DEF Untouched, Becomes
  <2>4. ASSUME NEW t \in Profile!Sections, Untouched(wire', t) PROVE world'[t] = world[t]
    <3>1. CASE t = Sec(r)
      BY <2>1, <2>4, <3>1 DEF Untouched
    <3> QED BY <1>3, <3>1
  <2>5. UserCurrent(view', wire', world')
    <3>1. ASSUME NEW t \in Profile!Sections, Untouched(wire', t)
          PROVE  /\ view'.user[t] = world'[t]
                 /\ \A q \in Requests(wire') : q.kind = "refresh" /\ q.is = "ok" => Data(q)[t] = world'[t]
      <4>1. /\ view.user[t] = world[t] /\ world'[t] = world[t]
            /\ \A q \in Requests(wire) : q.kind = "refresh" /\ q.is = "ok" => Data(q)[t] = world[t]
        BY <2>2, <2>3, <2>4, <3>1 DEF Agree, UserCurrent
      <4>2. r.kind = "refresh" /\ r.is = "ok" => Data(r)[t] = world'[t]
        BY DataAnswered
      <4> QED BY <4>1, <4>2, <1>2
    <3> QED BY <3>1 DEF UserCurrent
  <2>6. ShownCurrent(view', wire', world')
    <3>1. ASSUME ~view'.impersonating, NEW t \in Profile!Optimistic
          PROVE  /\ (\A q \in Requests(wire') : Sec(q) # t) => view'.shown[t] = world'[t]
                 /\ \A q \in Requests(wire') : Sec(q) = t /\ q.kind = "save" /\ q.is # "ok" => q.arg.prev = world'[t]
      <4>0. t \in Profile!Sections
        BY DEF Profile!Optimistic, Profile!Sections
      <4>1. /\ (\A q \in Requests(wire) : Sec(q) # t) => view.shown[t] = world[t]
            /\ \A q \in Requests(wire) : Sec(q) = t /\ q.kind = "save" /\ q.is # "ok" => q.arg.prev = world[t]
        BY <2>2, <3>1 DEF Agree, ShownCurrent
      <4>2. CASE t # Sec(r)
        <5>1. (\A q \in Requests(wire') : Sec(q) # t) => \A q \in Requests(wire) : Sec(q) # t
          BY <1>1, <4>2 DEF Becomes
        <5> QED BY <4>0, <4>1, <4>2, <5>1, <1>2, <1>3
      <4>3. CASE t = Sec(r)
        <5>1. ASSUME r.kind = "save", r.is # "ok" PROVE r.arg.prev = world'[t]
          <6>1. world' = world /\ wire[i].is # "ok" /\ wire[i].kind = "save"
            BY <2>1, <5>1
          <6> QED BY <1>1, <4>1, <4>3, <6>1
        <5> QED BY <2>1, <4>3, <5>1, <1>2
      <4> QED BY <4>2, <4>3
    <3> QED BY <3>1 DEF ShownCurrent
  <2> QED BY <2>2, <2>5, <2>6, <1>7 DEF Agree
<1> QED BY <1>5, <1>6, <1>7, <1>8 DEF ProfileInv, Becomes

LEMMA ProfileOk ==
  ASSUME ProfileInv, NEW i \in DOMAIN wire, NEW a, wire' = Ok(wire, i, a), view' = view,
         wire[i].is # "lost",
         \/ world' = world
         \/ /\ wire[i].kind = "save"
            /\ \E x : world' = [world EXCEPT ![wire[i].arg.section] = x],
         wire[i].kind = "refresh" => a = world'
  PROVE  ProfileInv'
<1>1. PICK r : /\ r.kind = wire[i].kind /\ r.arg = wire[i].arg /\ r.is = "ok" /\ r.answer = {a}
               /\ Becomes(wire', wire, i, r)
  BY OkRequest DEF ProfileInv
<1>2. wire[i].kind = "save" => Sec(r) = wire[i].arg.section
  BY <1>1 DEF Sec
<1> QED BY <1>1, <1>2, ProfileSettles

LEMMA ProfileFails ==
  ASSUME ProfileInv, NEW i \in DOMAIN wire, NEW s, wire' = Settle(wire, i, s), UNCHANGED <<view, world>>,
         (s = "refused" /\ wire[i].is = "sent") \/ s = "lost"
  PROVE  ProfileInv'
<1>1. PICK r : /\ r.kind = wire[i].kind /\ r.arg = wire[i].arg /\ r.is = s
               /\ Becomes(wire', wire, i, r)
  BY SettleRequest DEF ProfileInv
<1> QED BY <1>1, ProfileSettles

LEMMA ProfileStep ==
  ASSUME ProfileInv, Profile!Next, ~Overtakes PROVE ProfileInv'
<1>1. ASSUME NEW i \in DOMAIN wire, Profile!ServeSave(i) PROVE ProfileInv'
  <2>1. wire[i].is = "sent" /\ wire[i].kind = "save" /\ view' = view
    BY <1>1, ProfileWire DEF Profile!ServeSave, Waiting
  <2>2. \/ /\ world' = [world EXCEPT ![wire[i].arg.section] = wire[i].arg.next]
           /\ wire' = Ok(wire, i, TRUE)
        \/ world' = world /\ wire' = Settle(wire, i, "refused")
    BY <1>1, ProfileWire DEF Profile!ServeSave
  <2> QED BY <2>1, <2>2, ProfileOk, ProfileFails
<1>2. ASSUME NEW i \in DOMAIN wire, Profile!ServeMe(i) PROVE ProfileInv'
  <2>1. wire[i].is = "sent" /\ wire' = Ok(wire, i, world) /\ UNCHANGED <<view, world>>
    BY <1>2, ProfileWire DEF Profile!ServeMe, Waiting
  <2> QED BY <2>1, ProfileOk
<1>3. ASSUME NEW i \in DOMAIN wire, Profile!Lose(i) PROVE ProfileInv'
  <2>1. wire' = Settle(wire, i, "lost") /\ UNCHANGED <<view, world>>
    BY <1>3, ProfileWire DEF Profile!Lose
  <2> QED BY <2>1, ProfileFails
<1>4. ASSUME NEW x, Profile!saveAppearance(x) \/ Profile!saveLanguage(x) PROVE ProfileInv'
  <2>1. PICK s \in {"appearance", "language"} :
          /\ s \notin view.saving /\ world' = world
          /\ Profile!Save([view EXCEPT !.shown[s] = x], s, x, view.shown[s])
    BY <1>4 DEF Profile!saveAppearance, Profile!saveLanguage, Profile!Free, Profile!Acts
  <2>2. s \in Profile!Sections /\ s \in Profile!Optimistic
    BY DEF Profile!Sections, Profile!Optimistic
  <2> QED BY <2>1, <2>2, ProfileSaves
<1>5. ASSUME NEW x, Profile!TypeName(x) \/ Profile!TypePasswords(x) PROVE ProfileInv'
  BY <1>5, ProfileTypes DEF Profile!TypeName, Profile!TypePasswords, Profile!Acts
<1>6. ASSUME NEW x, NEW tooLarge, Profile!onPickAvatar(x, tooLarge) PROVE ProfileInv'
  <2>1. "photo" \in Profile!Sections /\ "photo" \notin Profile!Optimistic
    BY DEF Profile!Sections, Profile!Optimistic
  <2> QED BY <1>6, <2>1, ProfileSaves, ProfileTypes DEF Profile!onPickAvatar, Profile!Free, Profile!Acts
<1>7. ASSUME Profile!onNameSubmit \/ Profile!onRemoveAvatar PROVE ProfileInv'
  <2>1. {"photo", "name"} \subseteq Profile!Sections /\ {"photo", "name"} \cap Profile!Optimistic = {}
    BY DEF Profile!Sections, Profile!Optimistic
  <2> QED BY <1>7, <2>1, ProfileSaves DEF Profile!onNameSubmit, Profile!onRemoveAvatar, Profile!Free, Profile!Acts
<1>8. ASSUME Profile!onPasswordSubmit PROVE ProfileInv'
  <2>1. "password" \in Profile!Sections /\ "password" \notin Profile!Optimistic
    BY DEF Profile!Sections, Profile!Optimistic
  <2> QED BY <1>8, <2>1, ProfileSaves, ProfileTypes DEF Profile!onPasswordSubmit, Profile!Free, Profile!Acts
<1>9. ASSUME NEW i \in DOMAIN wire, Profile!ReceiveSave(i) \/ Profile!ReceiveRefresh(i) PROVE ProfileInv'
  BY <1>9, ProfileAsksAgain, ProfileTakesBack, ProfileRefreshes
<1> QED BY <1>1, <1>2, <1>3, <1>4, <1>5, <1>6, <1>7, <1>8, <1>9 DEF Profile!Next

ProfileOnly == page = "profile" => ProfileInv

(* The appearance on screen is the one stored, and an administrator keeps  *)
(* theirs in another account (Profile.tsx:125-146, AuthProvider.tsx:37-45),*)
(* whatever is saved, refused and answered, as long as the answers about   *)
(* the user come in the order they were asked for (~Overtakes): nothing in *)
(* the code orders them, and with one that overtakes the claim is false.   *)
THEOREM SpecImpliesAppearanceIsTheUsers ==
  ASSUME ~Overtakes PROVE Spec => []AppearanceIsTheUsers
<1>1. Init => ProfileOnly
  BY ProfileInit DEF Init, ProfileOnly
<1>2. ProfileOnly /\ [Next]_vars => ProfileOnly'
  <2>1. ASSUME ProfileOnly, Next, page' = "profile" PROVE ProfileInv'
    <3>1. page = "profile" /\ Profile!Next
      BY <2>1 DEF Next
    <3> QED BY <2>1, <3>1, ProfileStep DEF ProfileOnly
  <2>2. ASSUME ProfileOnly, UNCHANGED vars PROVE ProfileOnly'
    BY <2>2 DEF vars, ProfileOnly, ProfileInv
  <2> QED BY <2>1, <2>2 DEF ProfileOnly
<1>3. ProfileOnly => AppearanceIsTheUsers
  <2> SUFFICES ASSUME ProfileInv PROVE Profile!AppearanceIsTheUsers
    BY DEF ProfileOnly, AppearanceIsTheUsers
  <2>1. ASSUME wire = <<>>, ~view.missed
        PROVE  /\ view.user = world
               /\ ~view.impersonating => \A s \in Profile!Optimistic : view.shown[s] = world[s]
    <3>1. Requests(wire) = {}
      BY <2>1, NoRequests
    <3>2. Agree(view, wire, world)
      BY <2>1, <3>1 DEF ProfileInv, Doomed
    <3>3. \A s \in Profile!Sections : view.user[s] = world[s]
      BY <3>1, <3>2 DEF Agree, UserCurrent, Untouched
    <3>4. view.user = world
      BY <3>3 DEF ProfileInv, ProfileSound, IsMap
    <3> QED BY <3>1, <3>2, <3>4 DEF Agree, ShownCurrent
  <2>2. view.impersonating => \A s \in Profile!Optimistic \ view.saved : view.shown[s] = OwnValue
    BY DEF ProfileInv, ProfileSound
  <2> QED BY <2>1, <2>2 DEF Profile!AppearanceIsTheUsers
<1> QED BY <1>1, <1>2, <1>3, PTL DEF Spec

-----------------------------------------------------------------------------
(* The second factor and the access token                                  *)

LEMMA SecurityWire ==
  /\ \A w, k, a : Security!Send(w, k, a) = Send(w, k, a)
  /\ \A w, i, a : Security!Ok(w, i, a) = Ok(w, i, a)
  /\ \A w, i, s : Security!Settle(w, i, s) = Settle(w, i, s)
  /\ \A w, i : Security!Received(w, i) = Received(w, i)
  /\ \A w : Security!Settled(w) = Settled(w)
  /\ \A w : Security!Waiting(w) = Waiting(w)
  /\ \A r : Security!Data(r) = Data(r)
  /\ \A w, K : Security!Out(w, K) = Out(w, K)
  /\ \A k, a : Security!Call(k, a) = Call(k, a)
BY DEF Security!Send, Security!Ok, Security!Settle, Security!Received, Security!Settled, Security!Waiting, Security!Data, Security!Out, Security!Call,
       Send, Ok, Settle, Received, Settled, Waiting, Data, Out, Call

SecurityFields ==
  {"enabled", "dialog", "enablePhase", "regenPhase", "setup", "codes", "enableBusy", "promptBusy",
   "failed", "scanned", "status", "tokenBusy", "revealed", "lost", "clipboard", "copied"}
AccountFields == {"on", "key", "keys", "codes", "batches", "token", "tokens", "elsewhere"}

SecurityType(v, d) ==
  /\ DOMAIN v = SecurityFields /\ DOMAIN d = AccountFields
  /\ v.scanned \in 0..d.keys
  /\ d.on \in BOOLEAN /\ d.key \in 0..d.keys /\ d.keys \in Nat /\ d.batches \in Nat /\ d.tokens \in Nat
  /\ d.on => d.key # 0
  /\ v.copied = v.clipboard

Prompt(r) == r.kind \in {"disable", "regen"}
Confirmed(r) == r.kind = "confirm" /\ r.is = "ok"

(* A code of the authenticator that the API would still take.              *)
Matches(r, d) == r.kind = "confirm" /\ r.is = "sent" /\ ~d.on /\ r.arg = d.key

(* A prompt with a code of this key.                                       *)
Fits(r, d) == Prompt(r) /\ d.key # 0 /\ r.arg = d.key

FactorAsked(v, d, r) ==
  /\ r.kind = "setup" /\ r.is = "ok" => ~d.on /\ r.answer = {d.key} /\ d.key # 0
  /\ r.kind = "confirm" => r.arg \in 1..d.keys
  /\ Matches(r, d) => v.scanned = d.key /\ ~v.enabled
  /\ Confirmed(r) => d.on /\ ~v.enabled /\ r.answer = {d.codes} /\ d.codes # 0
  /\ r.kind = "refresh" =>
       \/ /\ r.arg = "enable" /\ d.on /\ ~v.enabled
          /\ r.is = "ok" => r.answer = {TRUE}
       \/ /\ r.arg = "prompt" /\ ~d.on /\ v.enabled /\ v.promptBusy
          /\ r.is = "ok" => r.answer = {FALSE}
          /\ v.scanned # d.key \/ d.key = 0
  /\ Prompt(r) => v.promptBusy /\ r.arg \in 0..d.keys
  /\ Fits(r, d) => v.enabled
  /\ Prompt(r) /\ r.is = "ok" => v.enabled
  /\ r.kind = "disable" /\ r.is = "ok" => ~d.on /\ (v.scanned # d.key \/ d.key = 0)
  /\ r.kind = "regen" /\ r.is = "ok" => d.on /\ r.answer = {d.codes} /\ d.codes # 0

(* Requests that exclude each other.                                       *)
OneConfirmed(w) == \A i, j \in DOMAIN w : Confirmed(w[i]) /\ Confirmed(w[j]) => i = j
FactorApart(w) ==
  /\ One(w, {"setup"}) /\ One(w, {"refresh"}) /\ One(w, {"disable", "regen"})
  /\ OneConfirmed(w)
  /\ \A q, r \in Requests(w) :
       /\ Confirmed(q) => r.kind # "refresh"
       /\ q.kind = "refresh" /\ q.arg = "prompt" => ~Prompt(r)
       /\ q.kind = "setup" /\ q.is = "ok" /\ r.kind = "confirm" => q.answer # {r.arg}

FactorShown(v, d, w) ==
  /\ d.on => v.scanned = d.key
  /\ v.dialog = "enable" =>
       /\ v.enabled => d.on
       /\ \A r \in Requests(w) : /\ ~Fits(r, d) /\ ~(Prompt(r) /\ r.is = "ok")
                                 /\ ~(r.kind = "refresh" /\ r.arg = "prompt")
       /\ v.setup # 0 => v.setup = d.key /\ ~Out(w, {"setup"})
       /\ v.enablePhase = "recovery" => d.on /\ v.codes = d.codes /\ d.codes # 0
  /\ v.dialog \in {"disable", "regen"} /\ ~v.enabled => v.scanned # d.key \/ d.key = 0
  /\ v.dialog = "regen" /\ v.regenPhase = "recovery" =>
       d.on /\ v.codes = d.codes /\ d.codes # 0 /\ ~Out(w, {"disable", "regen"})

TokenKinds == {"status", "generate", "reread", "delete"}

TokenAsked(v, d, r) ==
  /\ r.kind = "status" => v.status = {}
  /\ r.kind \in {"generate", "reread"} => v.status = {0} /\ v.tokenBusy
  /\ r.kind = "generate" => r.arg.status = 0
  /\ r.kind = "reread" => r.arg = 0
  /\ r.kind = "delete" => v.status \notin {{}, {0}} /\ v.revealed = 0
  /\ r.kind = "generate" /\ r.is = "ok" => r.answer = {d.token} /\ d.token # 0
  /\ r.kind \in TokenKinds /\ ~v.lost /\ ~d.elsewhere =>
       /\ r.kind \in {"status", "reread"} /\ r.is = "ok" => r.answer = {d.token}
       /\ r.kind = "generate" /\ r.is \in {"sent", "invalid"} => v.status = {d.token}
       /\ r.kind = "delete" /\ r.is = "sent" => v.status = {d.token}
       /\ r.kind = "delete" /\ r.is = "ok" => d.token = 0

TokenShown(v, d, w) ==
  /\ v.revealed # 0 => v.revealed = d.token
  /\ ~Out(w, TokenKinds) /\ ~v.lost /\ ~d.elsewhere => v.status = {d.token}

FactorInv(v, d, w) ==
  (\A r \in Requests(w) : FactorAsked(v, d, r)) /\ FactorApart(w) /\ FactorShown(v, d, w)
TokenInv(v, d, w) ==
  (\A r \in Requests(w) : TokenAsked(v, d, r)) /\ One(w, TokenKinds) /\ TokenShown(v, d, w)

SecurityInv ==
  /\ IsWire(wire) /\ SecurityType(view, world)
  /\ FactorInv(view, world, wire) /\ TokenInv(view, world, wire)


-----------------------------------------------------------------------------
(* What leaves one half of the page as it was                              *)

FactorSame(v2, d2, v, d) ==
  /\ v2.enabled = v.enabled /\ v2.dialog = v.dialog /\ v2.enablePhase = v.enablePhase
  /\ v2.regenPhase = v.regenPhase /\ v2.setup = v.setup /\ v2.codes = v.codes
  /\ v2.promptBusy = v.promptBusy /\ v2.scanned = v.scanned
  /\ d2.on = d.on /\ d2.key = d.key /\ d2.keys = d.keys /\ d2.codes = d.codes

FactorSets == {{"setup"}, {"refresh"}, {"disable", "regen"}}
FactorLess(w2, w) ==
  /\ \A r \in Requests(w2) :
       \/ r \in Requests(w) \/ r.kind \in TokenKinds
       \/ r.is \notin {"sent", "ok"} /\ \E q \in Requests(w) : r.kind = q.kind /\ r.arg = q.arg
  /\ \A K \in FactorSets : (One(w, K) => One(w2, K)) /\ (Out(w2, K) => Out(w, K))
  /\ OneConfirmed(w) => OneConfirmed(w2)

TokenSame(v2, d2, v, d) ==
  /\ v2.status = v.status /\ v2.tokenBusy = v.tokenBusy /\ v2.lost = v.lost
  /\ v2.revealed \in {0, v.revealed}
  /\ d2.token = d.token /\ d2.elsewhere = d.elsewhere

TokenLess(w2, w) ==
  /\ \A r \in Requests(w2) : r \in Requests(w) \/ r.kind \notin TokenKinds
  /\ One(w, TokenKinds) => One(w2, TokenKinds)
  /\ Out(w, TokenKinds) => Out(w2, TokenKinds)

LEMMA FactorStays ==
  ASSUME NEW v, NEW d, NEW w, FactorInv(v, d, w),
         NEW v2, NEW d2, FactorSame(v2, d2, v, d), NEW w2, FactorLess(w2, w)
  PROVE  FactorInv(v2, d2, w2)
<1>1. ASSUME NEW r \in Requests(w2)
      PROVE  FactorAsked(v2, d2, r)
  <2>1. CASE r \in Requests(w)
    <3>1. FactorAsked(v, d, r)
      BY <2>1 DEF FactorInv
    <3> QED BY <3>1 DEF FactorAsked, FactorSame, Matches, Confirmed, Fits, Prompt
  <2>2. CASE r.kind \in TokenKinds
    BY <2>2 DEF FactorAsked, TokenKinds, Matches, Confirmed, Fits, Prompt
  <2>3. CASE r.is \notin {"sent", "ok"} /\ \E q \in Requests(w) : r.kind = q.kind /\ r.arg = q.arg
    <3>1. PICK q \in Requests(w) : r.kind = q.kind /\ r.arg = q.arg
      BY <2>3
    <3>2. FactorAsked(v, d, q)
      BY DEF FactorInv
    <3> QED BY <2>3, <3>1, <3>2 DEF FactorAsked, FactorSame, Matches, Confirmed, Fits, Prompt
  <2> QED BY <2>1, <2>2, <2>3 DEF FactorLess
<1>2. FactorApart(w2)
  <2>1. ASSUME NEW q \in Requests(w2), NEW r \in Requests(w2)
        PROVE  /\ Confirmed(q) => r.kind # "refresh"
               /\ q.kind = "refresh" /\ q.arg = "prompt" => ~Prompt(r)
               /\ q.kind = "setup" /\ q.is = "ok" /\ r.kind = "confirm" => q.answer # {r.arg}
    <3>1. ASSUME NEW s \in Requests(w2), s.kind \notin TokenKinds
          PROVE  /\ \E t \in Requests(w) : s.kind = t.kind /\ s.arg = t.arg
                 /\ s.is = "ok" => s \in Requests(w)
      BY <3>1 DEF FactorLess
    <3>2. CASE q.kind \in TokenKinds \/ r.kind \in TokenKinds
      BY <3>2 DEF TokenKinds, Confirmed, Prompt
    <3>3. CASE ~(q.kind \in TokenKinds \/ r.kind \in TokenKinds)
      <4>1. PICK s \in Requests(w) : q.kind = s.kind /\ q.arg = s.arg
        BY <3>1, <3>3
      <4>2. PICK t \in Requests(w) : r.kind = t.kind /\ r.arg = t.arg
        BY <3>1, <3>3
      <4>3. q.is = "ok" => q \in Requests(w)
        BY <3>1, <3>3
      <4>4. \A y, z \in Requests(w) :
              /\ Confirmed(y) => z.kind # "refresh"
              /\ y.kind = "refresh" /\ y.arg = "prompt" => ~Prompt(z)
              /\ y.kind = "setup" /\ y.is = "ok" /\ z.kind = "confirm" => y.answer # {z.arg}
        BY DEF FactorInv, FactorApart
      <4>5. Confirmed(q) => r.kind # "refresh"
        BY <4>2, <4>3, <4>4 DEF Confirmed
      <4>6. q.kind = "refresh" /\ q.arg = "prompt" => ~Prompt(r)
        BY <4>1, <4>2, <4>4 DEF Prompt
      <4>7. q.kind = "setup" /\ q.is = "ok" /\ r.kind = "confirm" => q.answer # {r.arg}
        BY <4>2, <4>3, <4>4
      <4> QED BY <4>5, <4>6, <4>7
    <3> QED BY <3>2, <3>3
  <2> QED BY <2>1 DEF FactorInv, FactorApart, FactorLess, FactorSets
<1>3. FactorShown(v2, d2, w2)
  <2>1. Out(w2, {"setup"}) => Out(w, {"setup"})
    BY DEF FactorLess, FactorSets
  <2>2. Out(w2, {"disable", "regen"}) => Out(w, {"disable", "regen"})
    BY DEF FactorLess, FactorSets
  <2>3. ASSUME v.dialog = "enable", NEW r \in Requests(w2)
        PROVE  /\ ~Fits(r, d2) /\ ~(Prompt(r) /\ r.is = "ok")
               /\ ~(r.kind = "refresh" /\ r.arg = "prompt")
    <3>1. \A q \in Requests(w) : /\ ~Fits(q, d) /\ ~(Prompt(q) /\ q.is = "ok")
                                 /\ ~(q.kind = "refresh" /\ q.arg = "prompt")
      BY <2>3 DEF FactorInv, FactorShown
    <3> QED BY <3>1 DEF FactorLess, FactorSame, TokenKinds, Fits, Prompt
  <2>4. FactorShown(v, d, w)
    BY DEF FactorInv
  <2> QED BY <2>1, <2>2, <2>3, <2>4 DEF FactorShown, FactorSame
<1> QED BY <1>1, <1>2, <1>3 DEF FactorInv

LEMMA TokenStays ==
  ASSUME NEW v, NEW d, NEW w, TokenInv(v, d, w),
         NEW v2, NEW d2, TokenSame(v2, d2, v, d), NEW w2, TokenLess(w2, w)
  PROVE  TokenInv(v2, d2, w2)
<1>1. ASSUME NEW r \in Requests(w2)
      PROVE  TokenAsked(v2, d2, r)
  <2>1. CASE r \in Requests(w)
    <3>1. TokenAsked(v, d, r)
      BY <2>1 DEF TokenInv
    <3> QED BY <3>1 DEF TokenAsked, TokenSame
  <2>2. CASE r.kind \notin TokenKinds
    BY <2>2 DEF TokenAsked, TokenKinds
  <2> QED BY <2>1, <2>2 DEF TokenLess
<1>2. TokenShown(v2, d2, w2)
  BY DEF TokenInv, TokenShown, TokenSame, TokenLess
<1> QED BY <1>1, <1>2 DEF TokenInv, TokenLess

LEMMA SecuritySame ==
  ASSUME SecurityType(view, world)
  PROVE  FactorSame(view, world, view, world) /\ TokenSame(view, world, view, world)
BY DEF FactorSame, TokenSame

(* No request is none of a kind, and one of a kind is the only one.        *)
LEMMA SecurityAlone ==
  ASSUME NEW w, NEW K
  PROVE  /\ ~Out(w, K) <=> \A r \in Requests(w) : r.kind \notin K
         /\ One(w, K) => \A q, r \in Requests(w) : q.kind \in K /\ r.kind \in K => q = r
BY DEF Out, Requests, One

(* A request sent, received or settled is of one half or the other.        *)
LEMMA SecuritySends ==
  ASSUME NEW w, IsWire(w), NEW k, NEW a
  PROVE  /\ OneConfirmed(w) => OneConfirmed(Send(w, k, a))
         /\ k \in TokenKinds => FactorLess(Send(w, k, a), w)
         /\ k \notin TokenKinds => TokenLess(Send(w, k, a), w)
<1> DEFINE x == Send(w, k, a)
           c == Call(k, a)
<1>1. /\ DOMAIN w = 1..Len(w) /\ Len(w) \in Nat /\ DOMAIN x = 1..(Len(w) + 1)
      /\ \A i \in DOMAIN w : x[i] = w[i]
      /\ x[Len(w) + 1] = c
  BY SendWire
<1>2. /\ Requests(x) = Requests(w) \cup {c}
      /\ \A K : Out(x, K) <=> Out(w, K) \/ k \in K
      /\ \A K : One(w, K) /\ ~(k \in K /\ Out(w, K)) => One(x, K)
  BY SendRequests
<1>3. c.kind = k /\ c.is = "sent"
  BY CallFields
<1> HIDE DEF x, c
<1>4. OneConfirmed(w) => OneConfirmed(x)
  <2>1. \A i \in DOMAIN x : i \in DOMAIN w \/ i = Len(w) + 1
    BY <1>1
  <2> QED BY <2>1, <1>1, <1>3 DEF OneConfirmed, Confirmed
<1>5. k \in TokenKinds => FactorLess(x, w)
  BY <1>2, <1>3, <1>4 DEF FactorLess, FactorSets, TokenKinds
<1>6. k \notin TokenKinds => TokenLess(x, w)
  BY <1>2, <1>3 DEF TokenLess
<1> QED BY <1>4, <1>5, <1>6 DEF x

LEMMA SecurityReceives ==
  ASSUME NEW w, IsWire(w), NEW i \in DOMAIN w
  PROVE  /\ IsWire(Received(w, i)) /\ w[i] \in Requests(w) /\ Requests(Received(w, i)) \subseteq Requests(w)
         /\ FactorLess(Received(w, i), w)
         /\ w[i].kind \notin TokenKinds => TokenLess(Received(w, i), w)
         /\ \A K : One(w, K) /\ w[i].kind \in K => ~Out(Received(w, i), K)
         /\ OneConfirmed(w) /\ Confirmed(w[i]) => \A r \in Requests(Received(w, i)) : ~Confirmed(r)
<1> DEFINE x == Received(w, i)
           S == DOMAIN w \ {i}
<1>1. IsWire(x) /\ Keeps(x, w, S)
  BY ReceivedWire
<1>2. /\ Requests(x) \subseteq Requests(w)
      /\ \A K : Out(w, K) /\ w[i].kind \notin K => Out(x, K)
      /\ \A K : Out(x, K) => Out(w, K)
      /\ \A K : One(w, K) => One(x, K)
      /\ \A K : One(w, K) /\ w[i].kind \in K => ~Out(x, K)
  BY ReceivedRequests
<1> HIDE DEF x
<1>3. Requests(x) = {w[j] : j \in S}
  BY <1>1, KeepsRequests
<1>4. OneConfirmed(w) => OneConfirmed(x)
  <2>1. PICK f \in [DOMAIN x -> S] :
         /\ \A n \in DOMAIN x : x[n] = w[f[n]]
         /\ \A m, n \in DOMAIN x : m < n => f[m] < f[n]
         /\ \A j \in S : \E n \in DOMAIN x : f[n] = j
    BY <1>1 DEF Keeps
  <2>2. \A n \in DOMAIN x : f[n] \in DOMAIN w /\ f[n] \in Nat /\ n \in Nat
    BY <1>1, <2>1 DEF IsWire
  <2>3. ASSUME OneConfirmed(w), NEW m \in DOMAIN x, NEW n \in DOMAIN x, Confirmed(x[m]), Confirmed(x[n])
        PROVE  m = n
    <3>1. f[m] = f[n]
      BY <2>1, <2>2, <2>3 DEF OneConfirmed
    <3>2. ~(m < n) /\ ~(n < m)
      BY <2>1, <2>2, <3>1
    <3> QED BY <2>2, <3>2
  <2> QED BY <2>3 DEF OneConfirmed
<1>5. OneConfirmed(w) /\ Confirmed(w[i]) => \A r \in Requests(x) : ~Confirmed(r)
  BY <1>3 DEF OneConfirmed
<1>6. FactorLess(x, w)
  BY <1>2, <1>4 DEF FactorLess
<1>7. w[i].kind \notin TokenKinds => TokenLess(x, w)
  BY <1>2 DEF TokenLess
<1> QED BY <1>1, <1>2, <1>5, <1>6, <1>7 DEF x, Requests

LEMMA SecurityTurns ==
  ASSUME NEW w, NEW i \in DOMAIN w, NEW r, NEW w2, Becomes(w2, w, i, r), r.kind = w[i].kind, r.arg = w[i].arg
  PROVE  /\ r.kind \in TokenKinds \/ r.is \notin {"sent", "ok"} => FactorLess(w2, w)
         /\ r.kind \notin TokenKinds => TokenLess(w2, w)
         /\ OneConfirmed(w) /\ ((\A q \in Requests(w) : ~Confirmed(q)) \/ ~Confirmed(r)) => OneConfirmed(w2)
<1>1. OneConfirmed(w) /\ ((\A q \in Requests(w) : ~Confirmed(q)) \/ ~Confirmed(r)) => OneConfirmed(w2)
  BY DEF Becomes, OneConfirmed, Requests
<1>2. ASSUME r.kind \in TokenKinds \/ r.is \notin {"sent", "ok"} PROVE FactorLess(w2, w)
  <2>1. ~Confirmed(r)
    BY <1>2 DEF Confirmed, TokenKinds
  <2> QED BY <1>1, <1>2, <2>1 DEF FactorLess, Becomes
<1>3. ASSUME r.kind \notin TokenKinds PROVE TokenLess(w2, w)
  BY <1>3 DEF TokenLess, Becomes
<1> QED BY <1>1, <1>2, <1>3


-----------------------------------------------------------------------------
(* The steps that are about the token                                      *)

(* What only the panel of the token does leaves the factor as it was.      *)
LEMMA TokenSteps ==
  ASSUME SecurityInv, SecurityType(view', world'), FactorSame(view', world', view, world),
         IsWire(wire'), FactorLess(wire', wire), TokenInv(view', world', wire')
  PROVE  SecurityInv'
<1>1. FactorInv(view', world', wire')
  BY FactorStays DEF SecurityInv
<1> QED BY <1>1 DEF SecurityInv

(* With no such request out, all there is to say is what the panel shows.  *)
LEMMA TokenIdle ==
  ASSUME NEW v, NEW d, NEW w, ~Out(w, TokenKinds), v.revealed # 0 => v.revealed = d.token,
         ~v.lost /\ ~d.elsewhere => v.status = {d.token}
  PROVE  TokenInv(v, d, w)
<1>1. \A r \in Requests(w) : r.kind \notin TokenKinds
  BY SecurityAlone
<1>2. One(w, TokenKinds)
  BY DEF Out, One
<1>3. \A r \in Requests(w) : TokenAsked(v, d, r)
  BY <1>1 DEF TokenAsked, TokenKinds
<1> QED BY <1>2, <1>3 DEF TokenInv, TokenShown

LEMMA SecurityReceivesStatus ==
  ASSUME SecurityInv, NEW i \in DOMAIN wire, Security!ReceiveStatus(i) PROVE SecurityInv'
<1>1. /\ wire[i].kind = "status" /\ wire' = Received(wire, i) /\ world' = world
      /\ view' = IF wire[i].is = "ok" THEN [view EXCEPT !.status = {Data(wire[i])}]
                 ELSE [view EXCEPT !.lost = TRUE]
  BY SecurityWire DEF Security!ReceiveStatus
<1>2. /\ IsWire(wire') /\ FactorLess(wire', wire) /\ ~Out(wire', TokenKinds)
      /\ wire[i] \in Requests(wire)
  BY <1>1, SecurityReceives DEF SecurityInv, TokenInv, TokenKinds
<1>3. TokenAsked(view, world, wire[i])
  BY <1>2 DEF SecurityInv, TokenInv
<1>4. FactorSame(view', world', view, world) /\ SecurityType(view', world')
  BY <1>1 DEF SecurityInv, SecurityType, FactorSame, SecurityFields
<1>5. view'.revealed = view.revealed /\ (~view'.lost /\ ~world'.elsewhere => view'.status = {world'.token})
  BY <1>1, <1>3, DataAnswered DEF SecurityInv, SecurityType, SecurityFields, TokenAsked, TokenKinds
<1>6. TokenInv(view', world', wire')
  <2>1. view.revealed # 0 => view.revealed = world.token
    BY DEF SecurityInv, TokenInv, TokenShown
  <2> QED BY <2>1, <1>1, <1>2, <1>5, TokenIdle
<1> QED BY <1>2, <1>4, <1>6, TokenSteps

LEMMA SecurityReceivesDelete ==
  ASSUME SecurityInv, NEW i \in DOMAIN wire, Security!ReceiveDelete(i) PROVE SecurityInv'
<1>1. /\ wire[i].kind = "delete" /\ wire' = Received(wire, i) /\ world' = world
      /\ view' = IF wire[i].is = "ok" THEN [view EXCEPT !.status = {0}]
                 ELSE [view EXCEPT !.lost = TRUE]
  BY SecurityWire DEF Security!ReceiveDelete
<1>2. /\ IsWire(wire') /\ FactorLess(wire', wire) /\ ~Out(wire', TokenKinds)
      /\ wire[i] \in Requests(wire)
  BY <1>1, SecurityReceives DEF SecurityInv, TokenInv, TokenKinds
<1>3. TokenAsked(view, world, wire[i])
  BY <1>2 DEF SecurityInv, TokenInv
<1>4. FactorSame(view', world', view, world) /\ SecurityType(view', world')
  BY <1>1 DEF SecurityInv, SecurityType, FactorSame, SecurityFields
<1>5. view'.revealed = view.revealed /\ (~view'.lost /\ ~world'.elsewhere => view'.status = {world'.token})
  BY <1>1, <1>3 DEF SecurityInv, SecurityType, SecurityFields, TokenAsked, TokenKinds
<1>6. TokenInv(view', world', wire')
  <2>1. view.revealed # 0 => view.revealed = world.token
    BY DEF SecurityInv, TokenInv, TokenShown
  <2> QED BY <2>1, <1>1, <1>2, <1>5, TokenIdle
<1> QED BY <1>2, <1>4, <1>6, TokenSteps

LEMMA SecurityReceivesReread ==
  ASSUME SecurityInv, NEW i \in DOMAIN wire, Security!ReceiveReread(i) PROVE SecurityInv'
<1> DEFINE v == [view EXCEPT !.tokenBusy = FALSE]
<1>1. /\ wire[i].kind = "reread" /\ wire' = Received(wire, i) /\ world' = world
      /\ view' = IF wire[i].is = "ok" THEN [v EXCEPT !.status = {Data(wire[i])}]
                 ELSE [v EXCEPT !.status = {wire[i].arg}, !.lost = TRUE]
  BY SecurityWire DEF Security!ReceiveReread
<1>2. /\ IsWire(wire') /\ FactorLess(wire', wire) /\ ~Out(wire', TokenKinds)
      /\ wire[i] \in Requests(wire)
  BY <1>1, SecurityReceives DEF SecurityInv, TokenInv, TokenKinds
<1>3. TokenAsked(view, world, wire[i])
  BY <1>2 DEF SecurityInv, TokenInv
<1>4. FactorSame(view', world', view, world) /\ SecurityType(view', world')
  BY <1>1 DEF SecurityInv, SecurityType, FactorSame, SecurityFields
<1>5. view'.revealed = view.revealed /\ (~view'.lost /\ ~world'.elsewhere => view'.status = {world'.token})
  BY <1>1, <1>3, DataAnswered DEF SecurityInv, SecurityType, SecurityFields, TokenAsked, TokenKinds
<1>6. TokenInv(view', world', wire')
  <2>1. view.revealed # 0 => view.revealed = world.token
    BY DEF SecurityInv, TokenInv, TokenShown
  <2> QED BY <2>1, <1>1, <1>2, <1>5, TokenIdle
<1> QED BY <1>2, <1>4, <1>6, TokenSteps

LEMMA SecurityReceivesGenerate ==
  ASSUME SecurityInv, NEW i \in DOMAIN wire, Security!ReceiveGenerate(i) PROVE SecurityInv'
<1> DEFINE w == Received(wire, i)
           v == [view EXCEPT !.lost = @ \/ wire[i].is = "lost"]
<1>1. /\ wire[i].kind = "generate" /\ world' = world
      /\ IF wire[i].is = "ok"
         THEN /\ view' = [view EXCEPT !.status = {Data(wire[i])}, !.revealed = Data(wire[i]), !.tokenBusy = FALSE]
              /\ wire' = w
         ELSE IF wire[i].is = "invalid"
         THEN view' = [v EXCEPT !.tokenBusy = FALSE] /\ wire' = w
         ELSE view' = v /\ wire' = Send(w, "reread", wire[i].arg.status)
  BY SecurityWire DEF Security!ReceiveGenerate, Security!Refused
<1>2. /\ IsWire(w) /\ FactorLess(w, wire) /\ ~Out(w, TokenKinds) /\ wire[i] \in Requests(wire)
  BY <1>1, SecurityReceives DEF SecurityInv, TokenInv, TokenKinds
<1>3. TokenAsked(view, world, wire[i])
  BY <1>2 DEF SecurityInv, TokenInv
<1> HIDE DEF w
<1>4. FactorSame(view', world', view, world) /\ SecurityType(view', world')
  BY <1>1 DEF SecurityInv, SecurityType, FactorSame, SecurityFields
<1>5. FactorInv(view', world', w)
  BY <1>2, <1>4, FactorStays DEF SecurityInv
<1>6. CASE wire' = w
  <2>1. wire[i].is \in {"ok", "invalid"}
    <3>1. ASSUME wire[i].is \notin {"ok", "invalid"} PROVE FALSE
      <4>1. Out(wire', TokenKinds)
        BY <1>1, <1>2, <3>1, SendRequests DEF TokenKinds
      <4> QED BY <4>1, <1>6, <1>2
    <3> QED BY <3>1
  <2>2. /\ view'.revealed # 0 => view'.revealed = world'.token
        /\ ~view'.lost /\ ~world'.elsewhere => view'.status = {world'.token}
    <3>1. DOMAIN view = SecurityFields /\ (view.revealed # 0 => view.revealed = world.token)
      BY DEF SecurityInv, SecurityType, TokenInv, TokenShown
    <3>2. CASE wire[i].is = "ok"
      <4>1. Data(wire[i]) = world.token
        BY <1>1, <1>3, <3>2, DataAnswered DEF TokenAsked
      <4> QED BY <1>1, <3>1, <3>2, <4>1 DEF SecurityFields
    <3>3. CASE wire[i].is = "invalid"
      <4>1. view' = [v EXCEPT !.tokenBusy = FALSE]
        BY <1>1, <3>3
      <4>2. /\ view'.revealed = view.revealed /\ view'.status = view.status
            /\ view'.lost = (view.lost \/ wire[i].is = "lost")
        BY <4>1, <3>1 DEF SecurityFields
      <4>3. ~view.lost /\ ~world.elsewhere => view.status = {world.token}
        BY <1>1, <1>3, <3>3 DEF TokenAsked, TokenKinds
      <4> QED BY <1>1, <3>1, <4>2, <4>3
    <3> QED BY <2>1, <3>2, <3>3
  <2>3. TokenInv(view', world', wire')
    BY <1>6, <1>2, <2>2, TokenIdle
  <2> QED BY <1>2, <1>4, <1>5, <1>6, <2>3 DEF SecurityInv
<1>7. CASE wire[i].is \notin {"ok", "invalid"}
  <2> DEFINE c == Call("reread", 0)
  <2>1. view' = v /\ wire' = Send(w, "reread", 0)
    BY <1>1, <1>3, <1>7 DEF TokenAsked, TokenKinds
  <2>2. /\ IsWire(wire') /\ Requests(wire') = Requests(w) \cup {c} /\ Out(wire', TokenKinds)
        /\ One(wire', TokenKinds) /\ FactorLess(wire', w)
    <3>1. One(w, TokenKinds) /\ "reread" \in TokenKinds
      BY <1>2 DEF Out, One, TokenKinds
    <3>2. FactorLess(wire', w)
      BY <2>1, <1>2, <3>1, SecuritySends
    <3> QED BY <2>1, <1>2, <3>1, <3>2, SendRequests
  <2>3. c.kind = "reread" /\ c.arg = 0 /\ c.is = "sent"
    BY CallFields
  <2> HIDE DEF c
  <2>4. view'.status = {0} /\ view'.tokenBusy /\ view'.revealed = view.revealed
    BY <2>1, <1>1, <1>3 DEF SecurityInv, SecurityType, SecurityFields, TokenAsked
  <2>5. TokenAsked(view', world', c)
    BY <2>3, <2>4 DEF TokenAsked, TokenKinds
  <2>6. \A r \in Requests(w) : r.kind \notin TokenKinds
    BY <1>2, SecurityAlone
  <2>7. TokenInv(view', world', wire')
    BY <1>1, <2>2, <2>4, <2>5, <2>6 DEF TokenInv, TokenAsked, TokenKinds, TokenShown, SecurityInv
  <2>8. FactorInv(view', world', wire')
    <3>1. FactorSame(view', world', view', world')
      BY DEF FactorSame
    <3> QED BY <3>1, <2>2, <1>5, FactorStays
  <2> QED BY <1>4, <2>2, <2>7, <2>8 DEF SecurityInv
<1> QED BY <1>1, <1>6, <1>7

LEMMA SecurityGenerates ==
  ASSUME SecurityInv, NEW password \in BOOLEAN, Security!onGenerate(password) PROVE SecurityInv'
<1>1. PICK a : a = [password |-> password, status |-> Security!Status(view)]
  OBVIOUS
<1> DEFINE c == Call("generate", a)
<1>2. /\ view.revealed = 0 /\ view.status = {0} /\ ~view.tokenBusy /\ world' = world
      /\ view' = [view EXCEPT !.tokenBusy = TRUE] /\ wire' = Send(wire, "generate", a)
  BY <1>1, SecurityWire DEF Security!onGenerate, Security!NoDialog
<1>3. a.status = 0
  BY <1>1, <1>2 DEF Security!Status
<1>4. ~Out(wire, TokenKinds)
  BY <1>2, SecurityAlone DEF SecurityInv, TokenInv, TokenAsked, TokenKinds
<1>5. /\ IsWire(wire') /\ Requests(wire') = Requests(wire) \cup {c} /\ Out(wire', TokenKinds)
      /\ One(wire', TokenKinds) /\ FactorLess(wire', wire)
  BY <1>2, <1>4, SendRequests, SecuritySends DEF TokenKinds, SecurityInv, TokenInv
<1>6. c.kind = "generate" /\ c.arg = a /\ c.is = "sent"
  BY CallFields
<1> HIDE DEF c
<1>7. FactorSame(view', world', view, world) /\ SecurityType(view', world')
  BY <1>2 DEF SecurityInv, SecurityType, FactorSame, SecurityFields
<1>8. view'.status = {0} /\ view'.tokenBusy /\ view'.revealed = 0 /\ view'.lost = view.lost
  BY <1>2 DEF SecurityInv, SecurityType, SecurityFields
<1>9. TokenAsked(view', world', c)
  BY <1>2, <1>3, <1>4, <1>6, <1>8 DEF TokenAsked, TokenKinds, SecurityInv, TokenInv, TokenShown
<1>10. \A r \in Requests(wire) : r.kind \notin TokenKinds
  BY <1>4, SecurityAlone
<1>11. TokenInv(view', world', wire')
  BY <1>5, <1>8, <1>9, <1>10 DEF TokenInv, TokenAsked, TokenKinds, TokenShown
<1> QED BY <1>5, <1>7, <1>11, TokenSteps

LEMMA SecurityDeletes ==
  ASSUME ~Hurried, SecurityInv, Security!onDelete PROVE SecurityInv'
<1> DEFINE c == Call("delete", 0)
<1>1. /\ view.revealed = 0 /\ view.status \notin {{}, {0}} /\ ~Out(wire, {"delete"})
      /\ wire' = Send(wire, "delete", 0) /\ view' = view /\ world' = world
  BY SecurityWire DEF Security!onDelete, Security!NoDialog
<1>2. ~Out(wire, TokenKinds)
  BY <1>1, SecurityAlone DEF SecurityInv, TokenInv, TokenAsked, TokenKinds
<1>3. /\ IsWire(wire') /\ Requests(wire') = Requests(wire) \cup {c} /\ Out(wire', TokenKinds)
      /\ One(wire', TokenKinds) /\ FactorLess(wire', wire)
  BY <1>1, <1>2, SendRequests, SecuritySends DEF TokenKinds, SecurityInv, TokenInv
<1>4. c.kind = "delete" /\ c.is = "sent"
  BY CallFields
<1> HIDE DEF c
<1>5. FactorSame(view', world', view, world) /\ SecurityType(view', world')
  BY <1>1 DEF SecurityInv, FactorSame
<1>6. TokenAsked(view', world', c)
  BY <1>1, <1>2, <1>4 DEF TokenAsked, TokenKinds, SecurityInv, TokenInv, TokenShown
<1>7. \A r \in Requests(wire) : r.kind \notin TokenKinds
  BY <1>2, SecurityAlone
<1>8. TokenInv(view', world', wire')
  BY <1>1, <1>3, <1>6, <1>7 DEF TokenInv, TokenAsked, TokenKinds, TokenShown
<1> QED BY <1>3, <1>5, <1>8, TokenSteps

LEMMA OtherTabGenerated ==
  ASSUME SecurityInv, Security!OtherTabGenerates PROVE SecurityInv'
<1>1. /\ world.token = 0 /\ view' = view /\ wire' = wire
      /\ world' = [world EXCEPT !.tokens = @ + 1, !.token = world.tokens + 1, !.elsewhere = TRUE]
  BY DEF Security!OtherTabGenerates
<1>2. /\ SecurityType(view', world') /\ FactorSame(view', world', view, world) /\ world'.elsewhere
  BY <1>1 DEF SecurityInv, SecurityType, FactorSame, AccountFields
<1>3. FactorLess(wire', wire)
  BY <1>1 DEF FactorLess
<1>4. TokenInv(view', world', wire')
  BY <1>1, <1>2 DEF SecurityInv, TokenInv, TokenAsked, TokenShown
<1> QED BY <1>1, <1>2, <1>3, <1>4, TokenSteps DEF SecurityInv

(* A token request that the API takes up is the only one there is.         *)
LEMMA TokenServed ==
  ASSUME SecurityInv, NEW i \in DOMAIN wire, NEW r, Becomes(wire', wire, i, r),
         r.kind = wire[i].kind, r.arg = wire[i].arg, r.kind \in TokenKinds,
         view' = view, SecurityType(view', world'), FactorSame(view', world', view, world),
         TokenAsked(view', world', r), view.revealed # 0 => view.revealed = world'.token
  PROVE  SecurityInv'
<1>1. /\ IsWire(wire') /\ FactorLess(wire', wire)
  BY SecurityTurns DEF Becomes
<1>2. One(wire', TokenKinds) /\ r \in Requests(wire')
  BY DEF Becomes, SecurityInv, TokenInv
<1>3. \A q \in Requests(wire') : q = r \/ q.kind \notin TokenKinds
  BY <1>2, SecurityAlone
<1>4. Out(wire', TokenKinds)
  BY <1>2, SecurityAlone
<1>5. TokenInv(view', world', wire')
  BY <1>2, <1>3, <1>4 DEF TokenInv, TokenAsked, TokenKinds, TokenShown
<1> QED BY <1>1, <1>5, TokenSteps

LEMMA SecurityServesGenerate ==
  ASSUME SecurityInv, NEW i \in DOMAIN wire, Security!ServeGenerate(i) PROVE SecurityInv'
<1>1. /\ wire[i].kind = "generate" /\ wire[i].is = "sent" /\ view' = view
      /\ \/ wire' = Settle(wire, i, "invalid") /\ world' = world
         \/ wire' = Settle(wire, i, "refused") /\ world' = [world EXCEPT !.elsewhere = FALSE]
         \/ /\ world.token = 0
            /\ world' = [world EXCEPT !.tokens = @ + 1, !.token = world.tokens + 1, !.elsewhere = FALSE]
            /\ wire' = Ok(wire, i, world.tokens + 1)
  BY SecurityWire DEF Security!ServeGenerate, Waiting
<1>2. wire[i] \in Requests(wire) /\ TokenAsked(view, world, wire[i])
  BY DEF SecurityInv, TokenInv, Requests
<1>3. SecurityType(view', world') /\ FactorSame(view', world', view, world)
  <2>1. SecurityType(view, world) /\ view' = view
    BY <1>1 DEF SecurityInv
  <2>2. /\ DOMAIN world' = AccountFields /\ world'.on = world.on /\ world'.key = world.key
        /\ world'.keys = world.keys /\ world'.codes = world.codes /\ world'.batches = world.batches
        /\ world'.tokens \in Nat
    <3>1. CASE world' = world
      BY <2>1, <3>1 DEF SecurityType
    <3>2. CASE world' = [world EXCEPT !.elsewhere = FALSE]
      BY <2>1, <3>2 DEF SecurityType, AccountFields
    <3>3. CASE world' = [world EXCEPT !.tokens = @ + 1, !.token = world.tokens + 1, !.elsewhere = FALSE]
      BY <2>1, <3>3 DEF SecurityType, AccountFields
    <3> QED BY <1>1, <3>1, <3>2, <3>3
  <2> QED BY <2>1, <2>2 DEF SecurityType, FactorSame
<1>4. CASE wire' = Settle(wire, i, "invalid") /\ world' = world
  <2>1. PICK r : /\ r.kind = wire[i].kind /\ r.arg = wire[i].arg /\ r.is = "invalid" /\ r.answer = wire[i].answer
                 /\ Becomes(wire', wire, i, r)
    BY <1>4, SettleRequest DEF SecurityInv
  <2>2. TokenAsked(view', world', r)
    BY <1>1, <1>2, <1>4, <2>1 DEF TokenAsked, TokenKinds
  <2> QED BY <1>1, <1>3, <1>4, <2>1, <2>2, TokenServed DEF TokenKinds, SecurityInv, TokenInv, TokenShown
<1>5. CASE wire' = Settle(wire, i, "refused") /\ world' = [world EXCEPT !.elsewhere = FALSE]
  <2>1. PICK r : /\ r.kind = wire[i].kind /\ r.arg = wire[i].arg /\ r.is = "refused" /\ r.answer = wire[i].answer
                 /\ Becomes(wire', wire, i, r)
    BY <1>5, SettleRequest DEF SecurityInv
  <2>2. TokenAsked(view', world', r)
    BY <1>1, <1>2, <1>5, <2>1 DEF TokenAsked, TokenKinds
  <2>3. world'.token = world.token
    BY <1>5 DEF SecurityInv, SecurityType, AccountFields
  <2> QED BY <1>1, <1>3, <2>1, <2>2, <2>3, TokenServed DEF TokenKinds, SecurityInv, TokenInv, TokenShown
<1>6. CASE /\ world.token = 0
           /\ world' = [world EXCEPT !.tokens = @ + 1, !.token = world.tokens + 1, !.elsewhere = FALSE]
           /\ wire' = Ok(wire, i, world.tokens + 1)
  <2>1. PICK r : /\ r.kind = wire[i].kind /\ r.arg = wire[i].arg /\ r.is = "ok" /\ r.answer = {world.tokens + 1}
                 /\ Becomes(wire', wire, i, r)
    BY <1>6, OkRequest DEF SecurityInv
  <2>2. world'.token = world.tokens + 1 /\ world'.token # 0
    BY <1>6 DEF SecurityInv, SecurityType, AccountFields
  <2>3. TokenAsked(view', world', r)
    BY <1>1, <1>2, <2>1, <2>2 DEF TokenAsked, TokenKinds
  <2>4. view.revealed = 0
    BY <1>6 DEF SecurityInv, TokenInv, TokenShown
  <2> QED BY <1>1, <1>3, <2>1, <2>3, <2>4, TokenServed DEF TokenKinds
<1> QED BY <1>1, <1>4, <1>5, <1>6

LEMMA SecurityServesDelete ==
  ASSUME SecurityInv, NEW i \in DOMAIN wire, Security!ServeDelete(i) PROVE SecurityInv'
<1>1. /\ wire[i].kind = "delete" /\ view' = view /\ world' = [world EXCEPT !.token = 0]
      /\ wire' = Ok(wire, i, 0) \/ wire' = Settle(wire, i, "refused")
  BY SecurityWire DEF Security!ServeDelete
<1>2. wire[i] \in Requests(wire) /\ TokenAsked(view, world, wire[i])
  BY DEF SecurityInv, TokenInv, Requests
<1>3. SecurityType(view', world') /\ FactorSame(view', world', view, world) /\ world'.token = 0
  BY <1>1 DEF SecurityInv, SecurityType, FactorSame, AccountFields
<1>4. PICK r : /\ r.kind = wire[i].kind /\ r.arg = wire[i].arg /\ r.is \in {"ok", "refused"}
               /\ Becomes(wire', wire, i, r)
  <2>1. CASE wire' = Ok(wire, i, 0)
    BY <2>1, OkRequest DEF SecurityInv
  <2>2. CASE wire' = Settle(wire, i, "refused")
    BY <2>2, SettleRequest DEF SecurityInv
  <2> QED BY <1>1, <2>1, <2>2
<1>5. TokenAsked(view', world', r)
  BY <1>1, <1>2, <1>3, <1>4 DEF TokenAsked, TokenKinds
<1>6. view.revealed = 0
  BY <1>1, <1>2 DEF TokenAsked
<1> QED BY <1>1, <1>3, <1>4, <1>5, <1>6, TokenServed DEF TokenKinds


-----------------------------------------------------------------------------
(* The steps that are about the second factor                              *)

(* What only the second factor does leaves the panel as it was.            *)
LEMMA FactorSteps ==
  ASSUME SecurityInv, SecurityType(view', world'), TokenSame(view', world', view, world),
         IsWire(wire'), TokenLess(wire', wire), FactorInv(view', world', wire')
  PROVE  SecurityInv'
<1>1. TokenInv(view', world', wire')
  BY TokenStays DEF SecurityInv
<1> QED BY <1>1 DEF SecurityInv

LEMMA SecurityViews ==
  ASSUME SecurityInv, SecurityType(view', world'), TokenSame(view', world', view, world),
         wire' = wire, FactorInv(view', world', wire)
  PROVE  SecurityInv'
<1>1. TokenLess(wire', wire)
  BY DEF TokenLess
<1> QED BY <1>1, FactorSteps DEF SecurityInv

LEMMA SecurityOpensEnable ==
  ASSUME ~Hurried, SecurityInv, Security!openEnable PROVE SecurityInv'
<1> DEFINE c == Call("setup", 0)
<1>1. /\ view.dialog = "none" /\ ~view.enabled /\ ~Out(wire, {"setup"}) /\ world' = world
      /\ view' = [view EXCEPT !.dialog = "enable", !.enablePhase = "scan", !.codes = 0, !.setup = 0,
                              !.enableBusy = TRUE, !.failed = FALSE]
      /\ wire' = Send(wire, "setup", 0)
  BY SecurityWire DEF Security!openEnable, Security!NoDialog
<1>2. SecurityType(view', world') /\ TokenSame(view', world', view, world)
  BY <1>1 DEF SecurityInv, SecurityType, TokenSame, SecurityFields
<1>3. /\ view'.enabled = view.enabled /\ view'.dialog = "enable" /\ view'.enablePhase = "scan"
      /\ view'.setup = 0 /\ view'.promptBusy = view.promptBusy /\ view'.scanned = view.scanned
  BY <1>1 DEF SecurityInv, SecurityType, SecurityFields
<1>4. /\ IsWire(wire') /\ Requests(wire') = Requests(wire) \cup {c}
      /\ \A K : One(wire, K) /\ ~("setup" \in K /\ Out(wire, K)) => One(wire', K)
      /\ TokenLess(wire', wire) /\ (OneConfirmed(wire) => OneConfirmed(wire'))
  BY <1>1, SendRequests, SecuritySends DEF SecurityInv, TokenKinds
<1>5. c.kind = "setup" /\ c.is = "sent"
  BY CallFields
<1> HIDE DEF c
<1>6. FactorAsked(view', world', c)
  BY <1>5 DEF FactorAsked, Matches, Confirmed, Fits, Prompt
<1>7. ASSUME NEW r \in Requests(wire)
      PROVE  /\ FactorAsked(view', world', r)
             /\ ~Fits(r, world') /\ ~(Prompt(r) /\ r.is = "ok") /\ ~(r.kind = "refresh" /\ r.arg = "prompt")
  <2>1. FactorAsked(view, world, r)
    BY DEF SecurityInv, FactorInv
  <2> QED BY <2>1, <1>1, <1>3 DEF FactorAsked, Matches, Confirmed, Fits, Prompt
<1>8. FactorApart(wire')
  BY <1>1, <1>4, <1>5 DEF SecurityInv, FactorInv, FactorApart, Confirmed, Prompt
<1>9. FactorShown(view', world', wire')
  BY <1>1, <1>3, <1>4, <1>5, <1>7 DEF SecurityInv, FactorInv, FactorShown, Fits, Prompt
<1>10. FactorInv(view', world', wire')
  BY <1>4, <1>6, <1>7, <1>8, <1>9 DEF FactorInv
<1> QED BY <1>2, <1>4, <1>10, FactorSteps

LEMMA SecurityReceivesSetup ==
  ASSUME SecurityInv, NEW i \in DOMAIN wire, Security!ReceiveSetup(i) PROVE SecurityInv'
<1> DEFINE w == Received(wire, i)
           v == [view EXCEPT !.enableBusy = FALSE]
<1>1. /\ wire[i].kind = "setup" /\ wire' = w /\ world' = world
      /\ view' = IF wire[i].is = "ok" THEN [v EXCEPT !.setup = Data(wire[i])] ELSE [v EXCEPT !.failed = TRUE]
  BY SecurityWire DEF Security!ReceiveSetup
<1>2. /\ IsWire(w) /\ wire[i] \in Requests(wire) /\ FactorLess(w, wire) /\ TokenLess(w, wire)
      /\ ~Out(w, {"setup"})
  BY <1>1, SecurityReceives DEF SecurityInv, FactorInv, FactorApart, TokenKinds
<1>3. FactorAsked(view, world, wire[i])
  BY <1>2 DEF SecurityInv, FactorInv
<1> HIDE DEF w
<1>4. SecurityType(view', world') /\ TokenSame(view', world', view, world)
  BY <1>1 DEF SecurityInv, SecurityType, TokenSame, SecurityFields
<1>5. FactorInv(view, world, w)
  <2>1. FactorSame(view, world, view, world)
    BY DEF FactorSame
  <2> QED BY <2>1, <1>2, FactorStays DEF SecurityInv
<1>6. /\ view'.enabled = view.enabled /\ view'.dialog = view.dialog /\ view'.enablePhase = view.enablePhase
      /\ view'.regenPhase = view.regenPhase /\ view'.codes = view.codes
      /\ view'.promptBusy = view.promptBusy /\ view'.scanned = view.scanned
      /\ view'.setup = view.setup \/ view'.setup = world.key
  <2>1. wire[i].is = "ok" => Data(wire[i]) = world.key
    BY <1>1, <1>3, DataAnswered DEF FactorAsked
  <2> QED BY <2>1, <1>1 DEF SecurityInv, SecurityType, SecurityFields
<1>7. \A r \in Requests(w) : FactorAsked(view', world', r)
  BY <1>1, <1>5, <1>6 DEF FactorInv, FactorAsked, Matches, Confirmed, Fits, Prompt
<1>8. FactorShown(view', world', w)
  BY <1>1, <1>2, <1>5, <1>6 DEF FactorInv, FactorShown
<1>9. FactorInv(view', world', w)
  BY <1>5, <1>7, <1>8 DEF FactorInv
<1> QED BY <1>1, <1>2, <1>4, <1>9, FactorSteps

LEMMA SecurityConfirms ==
  ASSUME SecurityInv, Security!onConfirmEnable PROVE SecurityInv'
<1> DEFINE c == Call("confirm", view.setup)
<1>1. /\ view.dialog = "enable" /\ view.enablePhase = "scan" /\ view.setup # 0 /\ world' = world
      /\ view' = [view EXCEPT !.enableBusy = TRUE, !.failed = FALSE, !.scanned = view.setup]
      /\ wire' = Send(wire, "confirm", view.setup)
  BY SecurityWire DEF Security!onConfirmEnable
<1>2. view.setup = world.key /\ world.key \in 1..world.keys /\ ~Out(wire, {"setup"})
  BY <1>1 DEF SecurityInv, SecurityType, FactorInv, FactorShown
<1>3. SecurityType(view', world') /\ TokenSame(view', world', view, world)
  BY <1>1, <1>2 DEF SecurityInv, SecurityType, TokenSame, SecurityFields
<1>4. /\ view'.enabled = view.enabled /\ view'.dialog = "enable" /\ view'.enablePhase = "scan"
      /\ view'.setup = view.setup /\ view'.codes = view.codes
      /\ view'.promptBusy = view.promptBusy /\ view'.scanned = world.key
  BY <1>1, <1>2 DEF SecurityInv, SecurityType, SecurityFields
<1>5. /\ IsWire(wire') /\ Requests(wire') = Requests(wire) \cup {c}
      /\ \A K : One(wire, K) /\ ~("confirm" \in K /\ Out(wire, K)) => One(wire', K)
      /\ \A K : Out(wire', K) <=> Out(wire, K) \/ "confirm" \in K
      /\ TokenLess(wire', wire) /\ (OneConfirmed(wire) => OneConfirmed(wire'))
  BY <1>1, SendRequests, SecuritySends DEF SecurityInv, TokenKinds
<1>6. c.kind = "confirm" /\ c.is = "sent" /\ c.arg = world.key
  BY <1>2, CallFields
<1> HIDE DEF c
<1>7. /\ view.enabled => world.on
      /\ \A r \in Requests(wire) : /\ ~Fits(r, world) /\ ~(Prompt(r) /\ r.is = "ok")
                                   /\ ~(r.kind = "refresh" /\ r.arg = "prompt")
  BY <1>1 DEF SecurityInv, FactorInv, FactorShown
<1>8. FactorAsked(view', world', c)
  BY <1>1, <1>2, <1>4, <1>6, <1>7 DEF FactorAsked, Matches, Confirmed, Fits, Prompt
<1>9. ASSUME NEW r \in Requests(wire) PROVE FactorAsked(view', world', r)
  <2>1. FactorAsked(view, world, r)
    BY DEF SecurityInv, FactorInv
  <2> QED BY <2>1, <1>1, <1>2, <1>4, <1>7 DEF FactorAsked, Matches, Confirmed, Fits, Prompt
<1>10. FactorApart(wire')
  <2>1. \A r \in Requests(wire) : r.kind # "setup"
    BY <1>2, SecurityAlone
  <2> QED BY <2>1, <1>2, <1>5, <1>6 DEF SecurityInv, FactorInv, FactorApart, Confirmed, Prompt
<1>11. FactorShown(view', world', wire')
  <2>1. \A r \in Requests(wire') : /\ ~Fits(r, world') /\ ~(Prompt(r) /\ r.is = "ok")
                                   /\ ~(r.kind = "refresh" /\ r.arg = "prompt")
    BY <1>1, <1>5, <1>6, <1>7 DEF Fits, Prompt
  <2>2. ~Out(wire', {"setup"})
    BY <1>2, <1>5
  <2> QED BY <2>1, <2>2, <1>1, <1>2, <1>4, <1>7 DEF FactorShown
<1>12. FactorInv(view', world', wire')
  BY <1>5, <1>8, <1>9, <1>10, <1>11 DEF FactorInv
<1> QED BY <1>3, <1>5, <1>12, FactorSteps

LEMMA SecurityReceivesConfirm ==
  ASSUME SecurityInv, NEW i \in DOMAIN wire, Security!ReceiveConfirm(i) PROVE SecurityInv'
<1> DEFINE w == Received(wire, i)
           c == Call("refresh", "enable")
<1>1. /\ wire[i].kind = "confirm" /\ world' = world
      /\ \/ /\ wire[i].is = "ok" /\ wire' = Send(w, "refresh", "enable")
            /\ view' = [view EXCEPT !.codes = Data(wire[i]), !.enablePhase = "recovery"]
         \/ /\ wire' = w
            /\ view' = [view EXCEPT !.enableBusy = FALSE, !.failed = TRUE]
  BY SecurityWire DEF Security!ReceiveConfirm, Security!ConfirmedWith
<1>2. /\ IsWire(w) /\ wire[i] \in Requests(wire) /\ FactorLess(w, wire) /\ TokenLess(w, wire)
      /\ Requests(w) \subseteq Requests(wire)
      /\ Confirmed(wire[i]) => \A r \in Requests(w) : ~Confirmed(r)
  BY <1>1, SecurityReceives DEF SecurityInv, FactorInv, FactorApart, TokenKinds
<1>3. FactorAsked(view, world, wire[i])
  BY <1>2 DEF SecurityInv, FactorInv
<1> HIDE DEF w
<1>4. SecurityType(view', world') /\ TokenSame(view', world', view, world)
  <2>1. CASE view' = [view EXCEPT !.codes = Data(wire[i]), !.enablePhase = "recovery"]
    BY <1>1, <2>1 DEF SecurityInv, SecurityType, TokenSame, SecurityFields
  <2>2. CASE view' = [view EXCEPT !.enableBusy = FALSE, !.failed = TRUE]
    BY <1>1, <2>2 DEF SecurityInv, SecurityType, TokenSame, SecurityFields
  <2> QED BY <1>1, <2>1, <2>2
<1>5. CASE wire' = w /\ view' = [view EXCEPT !.enableBusy = FALSE, !.failed = TRUE]
  <2>1. FactorSame(view', world', view, world)
    BY <1>1, <1>5 DEF SecurityInv, SecurityType, FactorSame, SecurityFields
  <2>2. FactorInv(view', world', w)
    BY <2>1, <1>2, FactorStays DEF SecurityInv
  <2> QED BY <2>2, <1>2, <1>4, <1>5, FactorSteps
<1>6. CASE /\ wire[i].is = "ok" /\ wire' = Send(w, "refresh", "enable")
           /\ view' = [view EXCEPT !.codes = Data(wire[i]), !.enablePhase = "recovery"]
  <2>1. FactorInv(view, world, w)
    <3>1. FactorSame(view, world, view, world)
      BY DEF FactorSame
    <3> QED BY <3>1, <1>2, FactorStays DEF SecurityInv
  <2>2. Confirmed(wire[i]) /\ world.on /\ ~view.enabled /\ Data(wire[i]) = world.codes /\ world.codes # 0
    <3>1. Confirmed(wire[i])
      BY <1>1, <1>6 DEF Confirmed
    <3>2. world.on /\ ~view.enabled /\ wire[i].answer = {world.codes} /\ world.codes # 0
      BY <3>1, <1>3 DEF FactorAsked
    <3> QED BY <3>1, <3>2, DataAnswered
  <2>3. \A r \in Requests(wire) : r.kind # "refresh"
    BY <2>2, <1>2 DEF SecurityInv, FactorInv, FactorApart
  <2>4. ~Out(w, {"refresh"})
    BY <2>3, <1>2, SecurityAlone
  <2>5. /\ IsWire(wire') /\ Requests(wire') = Requests(w) \cup {c}
        /\ \A K : One(w, K) /\ ~("refresh" \in K /\ Out(w, K)) => One(wire', K)
        /\ \A K : Out(wire', K) <=> Out(w, K) \/ "refresh" \in K
        /\ TokenLess(wire', w) /\ (OneConfirmed(w) => OneConfirmed(wire'))
    BY <1>2, <1>6, SendRequests, SecuritySends DEF TokenKinds
  <2>6. c.kind = "refresh" /\ c.is = "sent" /\ c.arg = "enable"
    BY CallFields
  <2> HIDE DEF c
  <2>7. /\ view'.enabled = view.enabled /\ view'.dialog = view.dialog /\ view'.enablePhase = "recovery"
        /\ view'.setup = view.setup /\ view'.codes = world.codes /\ view'.regenPhase = view.regenPhase
        /\ view'.promptBusy = view.promptBusy /\ view'.scanned = view.scanned
    BY <1>6, <2>2 DEF SecurityInv, SecurityType, SecurityFields
  <2>8. FactorAsked(view', world', c)
    BY <1>1, <2>2, <2>6, <2>7 DEF FactorAsked, Matches, Confirmed, Fits, Prompt
  <2>9. ASSUME NEW r \in Requests(w) PROVE FactorAsked(view', world', r)
    <3>1. FactorAsked(view, world, r)
      BY <2>1 DEF FactorInv
    <3> QED BY <3>1, <1>1, <2>7 DEF FactorAsked, Matches, Confirmed, Fits, Prompt
  <2>10. FactorApart(wire')
    <3>1. \A r \in Requests(w) : ~Confirmed(r)
      BY <2>2, <1>2
    <3> QED BY <3>1, <2>1, <2>4, <2>5, <2>6 DEF FactorInv, FactorApart, Confirmed, Prompt
  <2>11. FactorShown(view', world', wire')
    <3>1. view.dialog = "enable" =>
           \A r \in Requests(wire') : /\ ~Fits(r, world') /\ ~(Prompt(r) /\ r.is = "ok")
                                      /\ ~(r.kind = "refresh" /\ r.arg = "prompt")
      BY <1>1, <2>1, <2>5, <2>6 DEF FactorInv, FactorShown, Fits, Prompt
    <3>2. (Out(wire', {"setup"}) <=> Out(w, {"setup"})) /\ (Out(wire', {"disable", "regen"}) <=> Out(w, {"disable", "regen"}))
      BY <2>5
    <3> QED BY <3>1, <3>2, <1>1, <2>1, <2>2, <2>7 DEF FactorInv, FactorShown
  <2>12. TokenLess(wire', wire)
    <3>1. TokenLess(wire', w) /\ TokenLess(w, wire)
      BY <2>5, <1>2
    <3> QED BY <3>1 DEF TokenLess
  <2>13. FactorInv(view', world', wire')
    BY <2>5, <2>8, <2>9, <2>10, <2>11 DEF FactorInv
  <2> QED BY <1>4, <2>5, <2>12, <2>13, FactorSteps
<1> QED BY <1>1, <1>5, <1>6


LEMMA SecurityOpensDisable ==
  ASSUME SecurityInv, Security!openDisable PROVE SecurityInv'
<1>1. /\ view.enabled /\ world' = world /\ wire' = wire
      /\ view' = [view EXCEPT !.dialog = "disable", !.failed = FALSE]
  BY DEF Security!openDisable
<1>2. SecurityType(view', world') /\ TokenSame(view', world', view, world)
  BY <1>1 DEF SecurityInv, SecurityType, TokenSame, SecurityFields
<1>3. /\ view'.enabled = view.enabled /\ view'.dialog = "disable"
      /\ view'.promptBusy = view.promptBusy /\ view'.scanned = view.scanned
  BY <1>1 DEF SecurityInv, SecurityType, SecurityFields
<1>4. \A r \in Requests(wire) : FactorAsked(view', world', r)
  BY <1>1, <1>3 DEF SecurityInv, FactorInv, FactorAsked, Matches
<1>5. FactorShown(view', world', wire)
  BY <1>1, <1>3 DEF SecurityInv, FactorInv, FactorShown
<1>6. FactorInv(view', world', wire)
  BY <1>4, <1>5 DEF SecurityInv, FactorInv
<1> QED BY <1>1, <1>2, <1>6, SecurityViews

LEMMA SecurityOpensRegen ==
  ASSUME SecurityInv, Security!OpenRegen PROVE SecurityInv'
<1>1. /\ view.enabled /\ world' = world /\ wire' = wire
      /\ view' = [view EXCEPT !.dialog = "regen", !.codes = 0, !.regenPhase = "prompt", !.failed = FALSE]
  BY DEF Security!OpenRegen, Security!openRegen
<1>2. SecurityType(view', world') /\ TokenSame(view', world', view, world)
  BY <1>1 DEF SecurityInv, SecurityType, TokenSame, SecurityFields
<1>3. /\ view'.enabled = view.enabled /\ view'.dialog = "regen" /\ view'.regenPhase = "prompt"
      /\ view'.promptBusy = view.promptBusy /\ view'.scanned = view.scanned
  BY <1>1 DEF SecurityInv, SecurityType, SecurityFields
<1>4. \A r \in Requests(wire) : FactorAsked(view', world', r)
  BY <1>1, <1>3 DEF SecurityInv, FactorInv, FactorAsked, Matches
<1>5. FactorShown(view', world', wire)
  BY <1>1, <1>3 DEF SecurityInv, FactorInv, FactorShown
<1>6. FactorInv(view', world', wire)
  BY <1>4, <1>5 DEF SecurityInv, FactorInv
<1> QED BY <1>1, <1>2, <1>6, SecurityViews

LEMMA SecurityCloses ==
  ASSUME SecurityInv, Security!CloseDialog PROVE SecurityInv'
<1>1. world' = world /\ wire' = wire /\ view' = [view EXCEPT !.dialog = "none", !.revealed = 0]
  BY DEF Security!CloseDialog
<1>2. SecurityType(view', world') /\ TokenSame(view', world', view, world)
  BY <1>1 DEF SecurityInv, SecurityType, TokenSame, SecurityFields
<1>3. /\ view'.enabled = view.enabled /\ view'.dialog = "none"
      /\ view'.promptBusy = view.promptBusy /\ view'.scanned = view.scanned
  BY <1>1 DEF SecurityInv, SecurityType, SecurityFields
<1>4. \A r \in Requests(wire) : FactorAsked(view', world', r)
  BY <1>1, <1>3 DEF SecurityInv, FactorInv, FactorAsked, Matches
<1>5. FactorShown(view', world', wire)
  BY <1>1, <1>3 DEF SecurityInv, FactorInv, FactorShown
<1>6. FactorInv(view', world', wire)
  BY <1>4, <1>5 DEF SecurityInv, FactorInv
<1> QED BY <1>1, <1>2, <1>6, SecurityViews

(* What is copied is what is said to be.                                   *)
LEMMA SecurityCopies ==
  ASSUME SecurityInv, NEW allowed \in BOOLEAN, Security!RecoveryCodesView(allowed) \/ Security!GeneratedToken(allowed)
  PROVE  SecurityInv'
<1>1. world' = world /\ wire' = wire
  BY DEF Security!RecoveryCodesView, Security!GeneratedToken
<1>2. PICK secret : view' = IF allowed THEN [view EXCEPT !.clipboard = secret, !.copied = secret] ELSE view
  BY DEF Security!RecoveryCodesView, Security!GeneratedToken, Security!copyToClipboard
<1>3. /\ SecurityType(view', world') /\ TokenSame(view', world', view, world)
      /\ FactorSame(view', world', view, world)
  BY <1>1, <1>2 DEF SecurityInv, SecurityType, TokenSame, FactorSame, SecurityFields
<1>4. FactorLess(wire, wire)
  BY DEF FactorLess
<1>5. FactorInv(view', world', wire)
  BY <1>3, <1>4, FactorStays DEF SecurityInv
<1> QED BY <1>1, <1>3, <1>5, SecurityViews

(* A prompt is sent with a code of the key the user holds.                 *)
LEMMA SecurityPrompts ==
  ASSUME SecurityInv, Security!onDisable \/ Security!onRegen PROVE SecurityInv'
<1>1. PICK k \in {"disable", "regen"} :
        /\ view.dialog = k /\ (k = "regen" => view.regenPhase = "prompt") /\ ~view.promptBusy /\ world' = world
        /\ view' = [view EXCEPT !.promptBusy = TRUE, !.failed = FALSE]
        /\ wire' = Send(wire, k, view.scanned)
  BY SecurityWire DEF Security!onDisable, Security!onRegen
<1> DEFINE c == Call(k, view.scanned)
<1>2. SecurityType(view', world') /\ TokenSame(view', world', view, world)
  BY <1>1 DEF SecurityInv, SecurityType, TokenSame, SecurityFields
<1>3. /\ view'.enabled = view.enabled /\ view'.dialog = k /\ view'.regenPhase = view.regenPhase
      /\ view'.promptBusy = TRUE /\ view'.scanned = view.scanned
  BY <1>1 DEF SecurityInv, SecurityType, SecurityFields
<1>4. /\ IsWire(wire') /\ Requests(wire') = Requests(wire) \cup {c}
      /\ \A K : One(wire, K) /\ ~(k \in K /\ Out(wire, K)) => One(wire', K)
      /\ TokenLess(wire', wire) /\ (OneConfirmed(wire) => OneConfirmed(wire'))
  BY <1>1, SendRequests, SecuritySends DEF SecurityInv, TokenKinds
<1>5. c.kind = k /\ c.is = "sent" /\ c.arg = view.scanned
  BY CallFields
<1> HIDE DEF c
<1>6. ASSUME NEW r \in Requests(wire)
      PROVE  FactorAsked(view, world, r) /\ ~Prompt(r) /\ ~(r.kind = "refresh" /\ r.arg = "prompt")
  <2>1. FactorAsked(view, world, r)
    BY DEF SecurityInv, FactorInv
  <2> QED BY <2>1, <1>1 DEF FactorAsked, Prompt
<1>7. FactorAsked(view', world', c)
  BY <1>1, <1>3, <1>5 DEF SecurityInv, SecurityType, FactorInv, FactorShown, FactorAsked, Matches, Confirmed, Fits, Prompt
<1>8. ASSUME NEW r \in Requests(wire) PROVE FactorAsked(view', world', r)
  BY <1>1, <1>3, <1>6 DEF FactorAsked, Matches, Confirmed, Fits, Prompt
<1>9. FactorApart(wire')
  <2>1. ~Out(wire, {"disable", "regen"})
    BY <1>6, SecurityAlone DEF Prompt
  <2> QED BY <2>1, <1>1, <1>4, <1>5, <1>6 DEF SecurityInv, FactorInv, FactorApart, Confirmed, Prompt
<1>10. FactorShown(view', world', wire')
  BY <1>1, <1>3 DEF SecurityInv, FactorInv, FactorShown
<1>11. FactorInv(view', world', wire')
  BY <1>4, <1>7, <1>8, <1>9, <1>10 DEF FactorInv
<1> QED BY <1>2, <1>4, <1>11, FactorSteps

(* The answer to a prompt is the last there is of it.                      *)
LEMMA SecurityReceivesPrompt ==
  ASSUME SecurityInv, NEW i \in DOMAIN wire, wire[i].kind \in {"disable", "regen"}
  PROVE  LET w == Received(wire, i) IN
         /\ IsWire(w) /\ FactorInv(view, world, w) /\ FactorAsked(view, world, wire[i]) /\ TokenLess(w, wire)
         /\ ~Out(w, {"disable", "regen"})
         /\ \A r \in Requests(w) : ~Prompt(r) /\ ~(r.kind = "refresh" /\ r.arg = "prompt")
         /\ wire[i].is = "ok" => view.dialog # "enable"
         /\ wire[i].kind = "disable" /\ wire[i].is = "ok" => ~Out(w, {"refresh"}) /\ \A r \in Requests(w) : ~Confirmed(r)
<1> DEFINE w == Received(wire, i)
<1>1. /\ IsWire(w) /\ wire[i] \in Requests(wire) /\ FactorLess(w, wire) /\ TokenLess(w, wire)
      /\ Requests(w) \subseteq Requests(wire) /\ ~Out(w, {"disable", "regen"})
  BY SecurityReceives DEF SecurityInv, FactorInv, FactorApart, TokenKinds
<1> HIDE DEF w
<1>2. FactorAsked(view, world, wire[i]) /\ Prompt(wire[i])
  BY <1>1 DEF SecurityInv, FactorInv, Prompt
<1>3. FactorInv(view, world, w)
  <2>1. FactorSame(view, world, view, world)
    BY DEF FactorSame
  <2> QED BY <2>1, <1>1, FactorStays DEF SecurityInv
<1>4. \A r \in Requests(w) : ~Prompt(r) /\ ~(r.kind = "refresh" /\ r.arg = "prompt")
  <2>1. \A r \in Requests(w) : ~Prompt(r)
    BY <1>1, SecurityAlone DEF Prompt
  <2>2. \A r \in Requests(wire) : ~(r.kind = "refresh" /\ r.arg = "prompt")
    BY <1>1, <1>2 DEF SecurityInv, FactorInv, FactorApart
  <2> QED BY <2>1, <2>2, <1>1
<1>5. wire[i].is = "ok" => view.dialog # "enable"
  BY <1>1, <1>2 DEF SecurityInv, FactorInv, FactorShown
<1>6. ASSUME wire[i].kind = "disable" /\ wire[i].is = "ok"
      PROVE  ~Out(w, {"refresh"}) /\ \A r \in Requests(w) : ~Confirmed(r)
  <2>1. ~world.on
    BY <1>2, <1>6 DEF FactorAsked
  <2>2. \A r \in Requests(w) : FactorAsked(view, world, r)
    BY <1>3 DEF FactorInv
  <2>3. \A r \in Requests(w) : r.kind # "refresh" /\ ~Confirmed(r)
    BY <2>1, <2>2, <1>4 DEF FactorAsked
  <2> QED BY <2>3, SecurityAlone
<1> QED BY <1>1, <1>2, <1>3, <1>4, <1>5, <1>6 DEF w

LEMMA SecurityReceivesDisable ==
  ASSUME SecurityInv, NEW i \in DOMAIN wire, Security!ReceiveDisable(i) PROVE SecurityInv'
<1> DEFINE w == Received(wire, i)
           c == Call("refresh", "prompt")
<1>1. /\ wire[i].kind = "disable" /\ world' = world
      /\ \/ /\ wire[i].is = "ok" /\ wire' = Send(w, "refresh", "prompt")
            /\ view' = IF view.dialog = "disable" THEN [view EXCEPT !.dialog = "none"] ELSE view
         \/ /\ wire[i].is # "ok" /\ wire' = w
            /\ view' = [view EXCEPT !.promptBusy = FALSE, !.failed = TRUE]
  BY SecurityWire DEF Security!ReceiveDisable
<1>2. /\ IsWire(w) /\ FactorInv(view, world, w) /\ FactorAsked(view, world, wire[i]) /\ TokenLess(w, wire)
      /\ ~Out(w, {"disable", "regen"})
      /\ \A r \in Requests(w) : ~Prompt(r) /\ ~(r.kind = "refresh" /\ r.arg = "prompt")
      /\ wire[i].is = "ok" => /\ view.dialog # "enable" /\ ~Out(w, {"refresh"})
                              /\ \A r \in Requests(w) : ~Confirmed(r)
  BY <1>1, SecurityReceivesPrompt
<1> HIDE DEF w
<1>3. CASE wire[i].is # "ok"
  <2>1. wire' = w /\ view' = [view EXCEPT !.promptBusy = FALSE, !.failed = TRUE]
    BY <1>1, <1>3
  <2>2. SecurityType(view', world') /\ TokenSame(view', world', view, world)
    BY <1>1, <2>1 DEF SecurityInv, SecurityType, TokenSame, SecurityFields
  <2>3. /\ view'.enabled = view.enabled /\ view'.dialog = view.dialog /\ view'.enablePhase = view.enablePhase
        /\ view'.regenPhase = view.regenPhase /\ view'.codes = view.codes
        /\ view'.setup = view.setup /\ view'.scanned = view.scanned
    BY <2>1 DEF SecurityInv, SecurityType, SecurityFields
  <2>4. \A r \in Requests(w) : FactorAsked(view', world', r)
    BY <1>1, <1>2, <2>3 DEF FactorInv, FactorAsked, Matches, Fits
  <2>5. FactorShown(view', world', w)
    BY <1>1, <1>2, <2>3 DEF FactorInv, FactorShown
  <2>6. FactorInv(view', world', w)
    BY <1>2, <2>4, <2>5 DEF FactorInv
  <2> QED BY <1>2, <2>1, <2>2, <2>6, FactorSteps
<1>4. CASE wire[i].is = "ok"
  <2>1. /\ wire' = Send(w, "refresh", "prompt")
        /\ view' = IF view.dialog = "disable" THEN [view EXCEPT !.dialog = "none"] ELSE view
    BY <1>1, <1>4
  <2>2. ~world.on /\ view.enabled /\ view.promptBusy /\ (view.scanned # world.key \/ world.key = 0)
    BY <1>1, <1>2, <1>4 DEF FactorAsked, Prompt
  <2>3. SecurityType(view', world') /\ TokenSame(view', world', view, world)
    BY <1>1, <2>1 DEF SecurityInv, SecurityType, TokenSame, SecurityFields
  <2>4. /\ view'.enabled = view.enabled /\ view'.enablePhase = view.enablePhase
        /\ view'.regenPhase = view.regenPhase /\ view'.codes = view.codes /\ view'.promptBusy = view.promptBusy
        /\ view'.setup = view.setup /\ view'.scanned = view.scanned
        /\ view'.dialog = view.dialog \/ view'.dialog = "none"
    BY <2>1 DEF SecurityInv, SecurityType, SecurityFields
  <2>5. /\ IsWire(wire') /\ Requests(wire') = Requests(w) \cup {c}
        /\ \A K : One(w, K) /\ ~("refresh" \in K /\ Out(w, K)) => One(wire', K)
        /\ \A K : Out(wire', K) <=> Out(w, K) \/ "refresh" \in K
        /\ TokenLess(wire', w) /\ (OneConfirmed(w) => OneConfirmed(wire'))
    BY <1>2, <2>1, SendRequests, SecuritySends DEF TokenKinds
  <2>6. c.kind = "refresh" /\ c.is = "sent" /\ c.arg = "prompt"
    BY CallFields
  <2> HIDE DEF c
  <2>7. FactorAsked(view', world', c)
    BY <1>1, <2>2, <2>4, <2>6 DEF FactorAsked, Matches, Confirmed, Fits, Prompt
  <2>8. ASSUME NEW r \in Requests(w) PROVE FactorAsked(view', world', r)
    <3>1. FactorAsked(view, world, r)
      BY <1>2 DEF FactorInv
    <3> QED BY <3>1, <1>1, <2>4 DEF FactorAsked, Matches, Confirmed, Fits, Prompt
  <2>9. FactorApart(wire')
    BY <1>2, <1>4, <2>5, <2>6 DEF FactorInv, FactorApart, Confirmed, Prompt
  <2>10. FactorShown(view', world', wire')
    <3>1. view'.dialog # "enable" /\ ~Out(wire', {"disable", "regen"})
      BY <1>2, <1>4, <2>4, <2>5
    <3> QED BY <3>1, <1>1, <1>2, <2>2, <2>4 DEF FactorInv, FactorShown
  <2>11. TokenLess(wire', wire)
    <3>1. TokenLess(wire', w) /\ TokenLess(w, wire)
      BY <2>5, <1>2
    <3> QED BY <3>1 DEF TokenLess
  <2>12. FactorInv(view', world', wire')
    BY <2>5, <2>7, <2>8, <2>9, <2>10 DEF FactorInv
  <2> QED BY <2>3, <2>5, <2>11, <2>12, FactorSteps
<1> QED BY <1>3, <1>4

LEMMA SecurityReceivesRegen ==
  ASSUME SecurityInv, NEW i \in DOMAIN wire, Security!ReceiveRegen(i) PROVE SecurityInv'
<1> DEFINE w == Received(wire, i)
           v == [view EXCEPT !.promptBusy = FALSE]
<1>1. /\ wire[i].kind = "regen" /\ world' = world /\ wire' = w
      /\ view' = IF wire[i].is = "ok" THEN [v EXCEPT !.codes = Data(wire[i]), !.regenPhase = "recovery"]
                 ELSE [v EXCEPT !.failed = TRUE]
  BY SecurityWire DEF Security!ReceiveRegen
<1>2. /\ IsWire(w) /\ FactorInv(view, world, w) /\ FactorAsked(view, world, wire[i]) /\ TokenLess(w, wire)
      /\ ~Out(w, {"disable", "regen"})
      /\ \A r \in Requests(w) : ~Prompt(r) /\ ~(r.kind = "refresh" /\ r.arg = "prompt")
      /\ wire[i].is = "ok" => view.dialog # "enable"
  BY <1>1, SecurityReceivesPrompt
<1> HIDE DEF w
<1>3. SecurityType(view', world') /\ TokenSame(view', world', view, world)
  BY <1>1 DEF SecurityInv, SecurityType, TokenSame, SecurityFields
<1>4. /\ view'.enabled = view.enabled /\ view'.dialog = view.dialog /\ view'.enablePhase = view.enablePhase
      /\ view'.setup = view.setup /\ view'.scanned = view.scanned
      /\ \/ view'.regenPhase = view.regenPhase /\ view'.codes = view.codes
         \/ view.dialog # "enable" /\ world.on /\ view'.codes = world.codes /\ world.codes # 0
  <2>1. CASE wire[i].is = "ok"
    <3>1. world.on /\ Data(wire[i]) = world.codes /\ world.codes # 0
      BY <1>1, <1>2, <2>1, DataAnswered DEF FactorAsked
    <3> QED BY <3>1, <2>1, <1>1, <1>2 DEF SecurityInv, SecurityType, SecurityFields
  <2>2. CASE wire[i].is # "ok"
    BY <2>2, <1>1 DEF SecurityInv, SecurityType, SecurityFields
  <2> QED BY <2>1, <2>2
<1>5. \A r \in Requests(w) : FactorAsked(view', world', r)
  BY <1>1, <1>2, <1>4 DEF FactorInv, FactorAsked, Matches, Fits
<1>6. FactorShown(view', world', w)
  BY <1>1, <1>2, <1>4 DEF FactorInv, FactorShown
<1>7. FactorInv(view', world', w)
  BY <1>2, <1>5, <1>6 DEF FactorInv
<1> QED BY <1>1, <1>2, <1>3, <1>7, FactorSteps

LEMMA SecurityReceivesRefresh ==
  ASSUME SecurityInv, NEW i \in DOMAIN wire, Security!ReceiveRefresh(i) PROVE SecurityInv'
<1> DEFINE w == Received(wire, i)
           v == IF wire[i].is = "ok" THEN [view EXCEPT !.enabled = Data(wire[i])] ELSE view
<1>1. /\ wire[i].kind = "refresh" /\ world' = world /\ wire' = w
      /\ wire[i].arg = "enable" => view' = [v EXCEPT !.enableBusy = FALSE]
      /\ wire[i].arg = "prompt" => view' = [v EXCEPT !.promptBusy = FALSE]
  BY SecurityWire DEF Security!ReceiveRefresh
<1>2. /\ IsWire(w) /\ wire[i] \in Requests(wire) /\ FactorLess(w, wire) /\ TokenLess(w, wire)
      /\ Requests(w) \subseteq Requests(wire) /\ ~Out(w, {"refresh"})
  BY <1>1, SecurityReceives DEF SecurityInv, FactorInv, FactorApart, TokenKinds
<1> HIDE DEF w
<1>3. FactorAsked(view, world, wire[i])
  BY <1>2 DEF SecurityInv, FactorInv
<1>4. FactorInv(view, world, w)
  <2>1. FactorSame(view, world, view, world)
    BY DEF FactorSame
  <2> QED BY <2>1, <1>2, FactorStays DEF SecurityInv
<1>5. \A r \in Requests(w) : r.kind # "refresh" /\ ~Confirmed(r)
  <2>1. \A r \in Requests(w) : r.kind # "refresh"
    BY <1>2, SecurityAlone
  <2> QED BY <2>1, <1>1, <1>2 DEF SecurityInv, FactorInv, FactorApart
<1>6. CASE wire[i].arg = "enable"
  <2>1. world.on /\ ~view.enabled /\ (wire[i].is = "ok" => Data(wire[i]) = TRUE)
    BY <1>1, <1>3, <1>6, DataAnswered DEF FactorAsked
  <2>2. view' = [v EXCEPT !.enableBusy = FALSE]
    BY <1>1, <1>6
  <2>3. SecurityType(view', world') /\ TokenSame(view', world', view, world)
    BY <1>1, <2>2 DEF SecurityInv, SecurityType, TokenSame, SecurityFields
  <2>4. /\ view'.dialog = view.dialog /\ view'.enablePhase = view.enablePhase
        /\ view'.regenPhase = view.regenPhase /\ view'.codes = view.codes /\ view'.promptBusy = view.promptBusy
        /\ view'.setup = view.setup /\ view'.scanned = view.scanned
        /\ view'.enabled = view.enabled \/ view'.enabled = TRUE
    BY <2>1, <2>2 DEF SecurityInv, SecurityType, SecurityFields
  <2>5. ASSUME NEW r \in Requests(w) PROVE FactorAsked(view', world', r)
    <3>1. FactorAsked(view, world, r)
      BY <1>4 DEF FactorInv
    <3> QED BY <3>1, <1>1, <1>5, <2>1, <2>4 DEF FactorAsked, Matches, Fits
  <2>6. FactorShown(view', world', w)
    BY <1>1, <1>4, <2>1, <2>4 DEF FactorInv, FactorShown
  <2>7. FactorInv(view', world', w)
    BY <1>4, <2>5, <2>6 DEF FactorInv
  <2> QED BY <1>1, <1>2, <2>3, <2>7, FactorSteps
<1>7. CASE wire[i].arg = "prompt"
  <2>1. ~world.on /\ (view.scanned # world.key \/ world.key = 0) /\ (wire[i].is = "ok" => Data(wire[i]) = FALSE)
    BY <1>1, <1>3, <1>7, DataAnswered DEF FactorAsked
  <2>2. view' = [v EXCEPT !.promptBusy = FALSE]
    BY <1>1, <1>7
  <2>3. SecurityType(view', world') /\ TokenSame(view', world', view, world)
    BY <1>1, <2>2 DEF SecurityInv, SecurityType, TokenSame, SecurityFields
  <2>4. /\ view'.dialog = view.dialog /\ view'.enablePhase = view.enablePhase
        /\ view'.regenPhase = view.regenPhase /\ view'.codes = view.codes
        /\ view'.setup = view.setup /\ view'.scanned = view.scanned
        /\ view'.enabled = view.enabled \/ view'.enabled = FALSE
    BY <2>1, <2>2 DEF SecurityInv, SecurityType, SecurityFields
  <2>5. view.dialog # "enable" /\ \A r \in Requests(w) : ~Prompt(r)
    BY <1>1, <1>2, <1>7 DEF SecurityInv, FactorInv, FactorShown, FactorApart
  <2>6. ASSUME NEW r \in Requests(w) PROVE FactorAsked(view', world', r)
    <3>1. FactorAsked(view, world, r)
      BY <1>4 DEF FactorInv
    <3> QED BY <3>1, <1>1, <1>5, <2>4, <2>5 DEF FactorAsked, Matches, Fits
  <2>7. FactorShown(view', world', w)
    BY <1>1, <1>4, <2>1, <2>4, <2>5 DEF FactorInv, FactorShown
  <2>8. FactorInv(view', world', w)
    BY <1>4, <2>6, <2>7 DEF FactorInv
  <2> QED BY <1>1, <1>2, <2>3, <2>8, FactorSteps
<1> QED BY <1>1, <1>3, <1>6, <1>7 DEF FactorAsked


-----------------------------------------------------------------------------
(* What the API does, and the theorem                                      *)

(* A request that fails, or whose answer is lost, says nothing any more.   *)
LEMMA SecurityFails ==
  ASSUME SecurityInv, NEW i \in DOMAIN wire, wire[i].kind \notin TokenKinds,
         NEW s, s \notin {"sent", "ok"}, wire' = Settle(wire, i, s), UNCHANGED <<view, world>>
  PROVE  SecurityInv'
<1>1. PICK r : /\ r.kind = wire[i].kind /\ r.arg = wire[i].arg /\ r.is = s /\ r.answer = wire[i].answer
               /\ Becomes(wire', wire, i, r)
  BY SettleRequest DEF SecurityInv
<1>2. IsWire(wire') /\ FactorLess(wire', wire) /\ TokenLess(wire', wire)
  BY <1>1, SecurityTurns DEF Becomes
<1>3. /\ SecurityType(view', world') /\ TokenSame(view', world', view, world)
      /\ FactorSame(view', world', view, world)
  BY DEF SecurityInv, TokenSame, FactorSame
<1>4. FactorInv(view', world', wire')
  BY <1>2, <1>3, FactorStays DEF SecurityInv
<1> QED BY <1>2, <1>3, <1>4, FactorSteps

LEMMA SecurityLoses ==
  ASSUME SecurityInv, NEW i \in DOMAIN wire, Security!Lose(i) PROVE SecurityInv'
<1>1. /\ wire[i].is = "sent" \/ (wire[i].is = "ok" /\ wire[i].kind \notin {"refresh", "status", "reread"})
      /\ wire' = Settle(wire, i, "lost") /\ view' = view /\ world' = world
  BY SecurityWire DEF Security!Lose
<1>2. CASE wire[i].kind \notin TokenKinds
  BY <1>1, <1>2, SecurityFails
<1>3. CASE wire[i].kind \in TokenKinds
  <2>1. PICK r : /\ r.kind = wire[i].kind /\ r.arg = wire[i].arg /\ r.is = "lost" /\ r.answer = wire[i].answer
                 /\ Becomes(wire', wire, i, r)
    BY <1>1, SettleRequest DEF SecurityInv
  <2>2. TokenAsked(view, world, wire[i])
    BY DEF SecurityInv, TokenInv, Requests
  <2>3. TokenAsked(view', world', r)
    BY <1>1, <2>1, <2>2 DEF TokenAsked
  <2>4. SecurityType(view', world') /\ FactorSame(view', world', view, world)
    BY <1>1 DEF SecurityInv, FactorSame
  <2> QED BY <1>1, <1>3, <2>1, <2>3, <2>4, TokenServed DEF SecurityInv, TokenInv, TokenShown
<1> QED BY <1>2, <1>3

(* A request of the factor that the API takes up.                          *)
FactorTaken(w2, w, i, r, a) ==
  /\ r.kind = w[i].kind /\ r.arg = w[i].arg /\ r.is = "ok" /\ r.answer = {a}
  /\ IsWire(w2) /\ TokenLess(w2, w) /\ w[i] \in Requests(w)
  /\ Requests(w2) \subseteq Requests(w) \cup {r} /\ r \in Requests(w2)
  /\ \A K : Out(w2, K) <=> Out(w, K)
  /\ \A K : One(w, K) => One(w2, K)
  /\ (\A q \in Requests(w) : ~Confirmed(q)) \/ ~Confirmed(r) => OneConfirmed(w2)

LEMMA FactorServed ==
  ASSUME SecurityInv, NEW i \in DOMAIN wire, wire[i].kind \notin TokenKinds, NEW a, wire' = Ok(wire, i, a)
  PROVE  FactorAsked(view, world, wire[i]) /\ \E r : FactorTaken(wire', wire, i, r, a)
<1>1. PICK r : /\ r.kind = wire[i].kind /\ r.arg = wire[i].arg /\ r.is = "ok" /\ r.answer = {a}
               /\ Becomes(wire', wire, i, r)
  BY OkRequest DEF SecurityInv
<1>2. /\ TokenLess(wire', wire)
      /\ (\A q \in Requests(wire) : ~Confirmed(q)) \/ ~Confirmed(r) => OneConfirmed(wire')
  BY <1>1, SecurityTurns DEF SecurityInv, FactorInv, FactorApart
<1>3. FactorAsked(view, world, wire[i]) /\ wire[i] \in Requests(wire)
  BY DEF SecurityInv, FactorInv, Requests
<1>4. /\ IsWire(wire') /\ Requests(wire') \subseteq Requests(wire) \cup {r} /\ r \in Requests(wire')
      /\ \A K : Out(wire', K) <=> Out(wire, K)
      /\ \A K : One(wire, K) => One(wire', K)
  BY <1>1 DEF Becomes
<1>5. FactorTaken(wire', wire, i, r, a)
  BY <1>1, <1>2, <1>3, <1>4 DEF FactorTaken
<1> QED BY <1>3, <1>5

LEMMA SecurityServesSetup ==
  ASSUME SecurityInv, NEW i \in DOMAIN wire, Security!ServeSetup(i) PROVE SecurityInv'
<1> DEFINE key == world.keys + 1
<1>1. /\ wire[i].kind = "setup" /\ view' = view
      /\ \/ wire' = Settle(wire, i, "refused") /\ world' = world
         \/ ~world.on /\ world' = [world EXCEPT !.keys = key, !.key = key] /\ wire' = Ok(wire, i, key)
  BY SecurityWire DEF Security!ServeSetup
<1>2. CASE wire' = Settle(wire, i, "refused") /\ world' = world
  BY <1>1, <1>2, SecurityFails DEF TokenKinds
<1>3. CASE ~world.on /\ world' = [world EXCEPT !.keys = key, !.key = key] /\ wire' = Ok(wire, i, key)
  <2> HIDE DEF key
  <2>0. PICK r : FactorTaken(wire', wire, i, r, key)
    BY <1>1, <1>3, FactorServed DEF TokenKinds
  <2>1. /\ r.kind = "setup" /\ r.is = "ok" /\ r.answer = {key}
        /\ IsWire(wire') /\ TokenLess(wire', wire) /\ wire[i] \in Requests(wire)
        /\ Requests(wire') \subseteq Requests(wire) \cup {r} /\ r \in Requests(wire')
        /\ \A K : Out(wire', K) <=> Out(wire, K)
        /\ \A K : One(wire, K) => One(wire', K)
        /\ (\A q \in Requests(wire) : ~Confirmed(q)) \/ ~Confirmed(r) => OneConfirmed(wire')
    BY <1>1, <2>0 DEF FactorTaken
  <2> USE DEF key
  <2>2. /\ DOMAIN world' = AccountFields /\ world'.on = world.on /\ world'.key = key /\ world'.keys = key
        /\ world'.codes = world.codes /\ world'.batches = world.batches /\ world'.tokens = world.tokens
        /\ world'.token = world.token /\ world'.elsewhere = world.elsewhere
    BY <1>3 DEF SecurityInv, SecurityType, AccountFields
  <2>3. /\ world.keys \in Nat /\ key \in Nat /\ key # 0 /\ key > world.keys
        /\ view.scanned \in 0..world.keys /\ world.key \in 0..world.keys
    BY DEF SecurityInv, SecurityType
  <2> HIDE DEF key
  <2>4. SecurityType(view', world') /\ TokenSame(view', world', view, world)
    <3>1. view.scanned \in 0..key /\ key \in 0..key
      BY <2>3
    <3> QED BY <3>1, <1>1, <1>3, <2>2, <2>3 DEF SecurityInv, SecurityType, TokenSame
  <2>5. ASSUME NEW q \in Requests(wire), q \notin {r}, q \in Requests(wire') PROVE FactorAsked(view', world', q)
    <3>1. FactorAsked(view, world, q)
      BY DEF SecurityInv, FactorInv
    <3>2. q.kind = "confirm" => q.arg \in 1..key /\ q.arg # key
      BY <3>1, <2>3 DEF FactorAsked
    <3>3. Prompt(q) => q.arg \in 0..key /\ q.arg # key
      BY <3>1, <2>3 DEF FactorAsked
    <3>4. view.scanned # key
      BY <2>3
    <3>5. q.kind = "setup" => q = r
      <4>1. One(wire', {"setup"})
        BY <2>1 DEF SecurityInv, FactorInv, FactorApart
      <4> QED BY <4>1, <2>1, <2>5, SecurityAlone
    <3> QED BY <3>1, <3>2, <3>3, <3>4, <3>5, <2>5, <1>1, <1>3, <2>2 DEF FactorAsked, Matches, Confirmed, Fits, Prompt
  <2>6. FactorAsked(view', world', r)
    BY <2>1, <2>2, <2>3, <1>3 DEF FactorAsked, Matches, Confirmed, Fits, Prompt
  <2>7. FactorApart(wire')
    <3>1. ASSUME NEW q \in Requests(wire), q.kind = "confirm" PROVE q.arg # key
      <4>1. FactorAsked(view, world, q)
        BY DEF SecurityInv, FactorInv
      <4> QED BY <4>1, <3>1, <2>3 DEF FactorAsked
    <3>2. ~Confirmed(r)
      BY <2>1 DEF Confirmed
    <3> QED BY <3>1, <3>2, <2>1 DEF SecurityInv, FactorInv, FactorApart, Confirmed, Prompt
  <2>8. FactorShown(view', world', wire')
    <3>1. ASSUME NEW q \in Requests(wire') PROVE ~Fits(q, world')
      <4>1. CASE q = r
        BY <4>1, <2>1 DEF Fits, Prompt
      <4>2. CASE q \in Requests(wire)
        <5>1. Prompt(q) => q.arg \in 0..world.keys
          BY <4>2 DEF SecurityInv, FactorInv, FactorAsked
        <5> QED BY <5>1, <2>2, <2>3 DEF Fits
      <4> QED BY <4>1, <4>2, <3>1, <2>1
    <3>2. Out(wire, {"setup"})
      BY <1>1, <2>1, SecurityAlone
    <3>3. view.scanned # key
      BY <2>3
    <3>4. FactorShown(view, world, wire)
      BY DEF SecurityInv, FactorInv
    <3>5. view.dialog = "enable" =>
            \A q \in Requests(wire') : ~(Prompt(q) /\ q.is = "ok") /\ ~(q.kind = "refresh" /\ q.arg = "prompt")
      BY <3>4, <2>1 DEF FactorShown, Prompt
    <3> QED BY <3>1, <3>2, <3>3, <3>4, <3>5, <1>1, <1>3, <2>2, <2>1 DEF FactorShown
  <2>9. FactorInv(view', world', wire')
    BY <2>1, <2>5, <2>6, <2>7, <2>8 DEF FactorInv
  <2> QED BY <2>1, <2>4, <2>9, FactorSteps
<1> QED BY <1>1, <1>2, <1>3

LEMMA SecurityServesConfirm ==
  ASSUME SecurityInv, NEW i \in DOMAIN wire, Security!ServeConfirm(i) PROVE SecurityInv'
<1> DEFINE codes == world.batches + 1
<1>1. /\ wire[i].kind = "confirm" /\ wire[i].is = "sent" /\ view' = view
      /\ \/ wire' = Settle(wire, i, "refused") /\ world' = world
         \/ wire' = Settle(wire, i, "invalid") /\ world' = world
         \/ /\ ~world.on /\ wire[i].arg = world.key /\ wire' = Ok(wire, i, codes)
            /\ world' = [world EXCEPT !.batches = @ + 1, !.codes = codes, !.on = TRUE]
  <2>1. wire[i].kind = "confirm" /\ wire[i].is = "sent" /\ view' = view
    BY SecurityWire DEF Security!ServeConfirm, Waiting
  <2>2. CASE world.on
    BY <2>2, SecurityWire, <2>1 DEF Security!ServeConfirm
  <2>3. CASE ~world.on /\ wire[i].arg # world.key
    BY <2>3, SecurityWire, <2>1 DEF Security!ServeConfirm
  <2>4. CASE ~world.on /\ wire[i].arg = world.key
    <3>1. world' = [Security!NewCodes(world) EXCEPT !.on = TRUE] /\ wire' = Ok(wire, i, codes)
      BY <2>4, SecurityWire DEF Security!ServeConfirm
    <3> QED BY <3>1, <2>1, <2>4 DEF Security!NewCodes
  <2> QED BY <2>1, <2>2, <2>3, <2>4
<1>2. CASE wire' = Settle(wire, i, "refused") /\ world' = world
  BY <1>1, <1>2, SecurityFails DEF TokenKinds
<1>3. CASE wire' = Settle(wire, i, "invalid") /\ world' = world
  BY <1>1, <1>3, SecurityFails DEF TokenKinds
<1>4. CASE /\ ~world.on /\ wire[i].arg = world.key /\ wire' = Ok(wire, i, codes)
           /\ world' = [world EXCEPT !.batches = @ + 1, !.codes = codes, !.on = TRUE]
  <2> HIDE DEF codes
  <2>0. PICK r : FactorAsked(view, world, wire[i]) /\ FactorTaken(wire', wire, i, r, codes)
    BY <1>1, <1>4, FactorServed DEF TokenKinds
  <2>1. /\ r.kind = "confirm" /\ r.arg = world.key /\ r.is = "ok" /\ r.answer = {codes}
        /\ IsWire(wire') /\ TokenLess(wire', wire)
        /\ FactorAsked(view, world, wire[i]) /\ wire[i] \in Requests(wire)
        /\ Requests(wire') \subseteq Requests(wire) \cup {r} /\ r \in Requests(wire')
        /\ \A K : Out(wire', K) <=> Out(wire, K)
        /\ \A K : One(wire, K) => One(wire', K)
        /\ (\A q \in Requests(wire) : ~Confirmed(q)) \/ ~Confirmed(r) => OneConfirmed(wire')
    BY <1>1, <1>4, <2>0 DEF FactorTaken
  <2> USE DEF codes
  <2>2. /\ DOMAIN world' = AccountFields /\ world'.on = TRUE /\ world'.key = world.key /\ world'.keys = world.keys
        /\ world'.codes = codes /\ world'.batches = codes /\ world'.tokens = world.tokens
        /\ world'.token = world.token /\ world'.elsewhere = world.elsewhere /\ codes \in Nat /\ codes # 0
    BY <1>4 DEF SecurityInv, SecurityType, AccountFields
  <2> HIDE DEF codes
  <2>3. view.scanned = world.key /\ ~view.enabled /\ world.key \in 1..world.keys /\ world.key # 0
    <3>1. Matches(wire[i], world)
      BY <1>1, <1>4 DEF Matches
    <3>2. world.key \in 1..world.keys
      BY <1>1, <1>4, <2>1 DEF FactorAsked
    <3>3. world.key # 0
      BY <3>2 DEF SecurityInv, SecurityType
    <3> QED BY <3>1, <3>2, <3>3, <2>1 DEF FactorAsked
  <2>4. SecurityType(view', world') /\ TokenSame(view', world', view, world)
    BY <1>1, <2>2, <2>3 DEF SecurityInv, SecurityType, TokenSame
  <2>5. ASSUME NEW q \in Requests(wire)
        PROVE  /\ FactorAsked(view, world, q) /\ ~Confirmed(q) /\ q.kind # "refresh"
               /\ ~(q.kind = "setup" /\ q.is = "ok") /\ ~(Prompt(q) /\ q.is = "ok")
    <3>1. FactorAsked(view, world, q)
      BY DEF SecurityInv, FactorInv
    <3>2. ~(q.kind = "setup" /\ q.is = "ok")
      <4>1. q.kind = "setup" /\ q.is = "ok" => q.answer # {wire[i].arg}
        BY <1>1, <2>1 DEF SecurityInv, FactorInv, FactorApart
      <4> QED BY <4>1, <3>1, <1>4 DEF FactorAsked
    <3> QED BY <3>1, <3>2, <2>3, <1>4 DEF FactorAsked, Confirmed
  <2>6. ASSUME NEW q \in Requests(wire) PROVE FactorAsked(view', world', q)
    BY <2>5, <1>1, <1>4, <2>2 DEF FactorAsked, Matches, Confirmed, Fits, Prompt
  <2>7. FactorAsked(view', world', r)
    BY <2>1, <2>2, <2>3, <1>1 DEF FactorAsked, Matches, Confirmed, Fits, Prompt
  <2>8. FactorApart(wire')
    BY <2>1, <2>5 DEF SecurityInv, FactorInv, FactorApart, Confirmed, Prompt
  <2>9. FactorShown(view', world', wire')
    <3>1. FactorShown(view, world, wire)
      BY DEF SecurityInv, FactorInv
    <3>2. view.dialog = "enable" =>
            \A q \in Requests(wire') : /\ ~Fits(q, world') /\ ~(Prompt(q) /\ q.is = "ok")
                                       /\ ~(q.kind = "refresh" /\ q.arg = "prompt")
      BY <3>1, <2>1, <2>2 DEF FactorShown, Fits, Prompt
    <3>3. view.dialog \in {"disable", "regen"} => view.enabled
      BY <3>1, <2>3 DEF FactorShown
    <3> QED BY <3>1, <3>2, <3>3, <1>1, <1>4, <2>1, <2>2, <2>3 DEF FactorShown
  <2>10. FactorInv(view', world', wire')
    BY <2>1, <2>6, <2>7, <2>8, <2>9 DEF FactorInv
  <2> QED BY <2>1, <2>4, <2>10, FactorSteps
<1> QED BY <1>1, <1>2, <1>3, <1>4


LEMMA SecurityServesPrompt ==
  ASSUME SecurityInv, NEW i \in DOMAIN wire, Security!ServePrompted(i) PROVE SecurityInv'
<1> DEFINE codes == world.batches + 1
<1>1. /\ wire[i].kind \in {"disable", "regen"} /\ view' = view
      /\ \/ wire' = Settle(wire, i, "invalid") /\ world' = world
         \/ /\ world.on /\ wire[i].arg = world.key /\ wire[i].kind = "regen" /\ wire' = Ok(wire, i, codes)
            /\ world' = [world EXCEPT !.batches = @ + 1, !.codes = codes]
         \/ /\ world.on /\ wire[i].arg = world.key /\ wire[i].kind = "disable" /\ wire' = Ok(wire, i, 0)
            /\ world' = [world EXCEPT !.on = FALSE, !.key = 0, !.codes = 0]
  <2>1. wire[i].kind \in {"disable", "regen"} /\ view' = view
    BY DEF Security!ServePrompted
  <2>2. CASE ~world.on \/ wire[i].arg # world.key
    BY <2>2, SecurityWire, <2>1 DEF Security!ServePrompted
  <2>3. CASE world.on /\ wire[i].arg = world.key /\ wire[i].kind = "regen"
    BY <2>3, SecurityWire, <2>1 DEF Security!ServePrompted, Security!NewCodes
  <2>4. CASE world.on /\ wire[i].arg = world.key /\ wire[i].kind = "disable"
    BY <2>4, SecurityWire, <2>1 DEF Security!ServePrompted
  <2> QED BY <2>1, <2>2, <2>3, <2>4
<1>2. wire[i] \in Requests(wire) /\ Prompt(wire[i]) /\ FactorAsked(view, world, wire[i])
  BY <1>1 DEF Requests, Prompt, SecurityInv, FactorInv
<1>3. CASE wire' = Settle(wire, i, "invalid") /\ world' = world
  BY <1>1, <1>3, SecurityFails DEF TokenKinds
(* The key is the user's, so the factor is on the screen too: no answer    *)
(* that turned it on is still on its way, and its dialog is not open.      *)
<1>4. ASSUME world.on, wire[i].arg = world.key
      PROVE  /\ view.enabled /\ world.key # 0 /\ view.promptBusy /\ view.dialog # "enable"
             /\ Out(wire, {"disable", "regen"})
             /\ \A q \in Requests(wire) : /\ FactorAsked(view, world, q) /\ ~Confirmed(q) /\ q.kind # "refresh"
                                          /\ ~(q.kind = "setup" /\ q.is = "ok")
  <2>1. world.key # 0
    BY <1>4 DEF SecurityInv, SecurityType
  <2>2. Fits(wire[i], world)
    BY <1>2, <1>4, <2>1 DEF Fits
  <2>3. view.enabled /\ view.promptBusy /\ view.dialog # "enable"
    BY <1>2, <2>2 DEF FactorAsked, SecurityInv, FactorInv, FactorShown
  <2>4. Out(wire, {"disable", "regen"})
    BY <1>2, SecurityAlone DEF Prompt
  <2>5. \A q \in Requests(wire) : FactorAsked(view, world, q)
    BY DEF SecurityInv, FactorInv
  <2> QED BY <1>4, <2>1, <2>3, <2>4, <2>5 DEF FactorAsked, Confirmed
<1>5. CASE /\ world.on /\ wire[i].arg = world.key /\ wire[i].kind = "regen" /\ wire' = Ok(wire, i, codes)
           /\ world' = [world EXCEPT !.batches = @ + 1, !.codes = codes]
  <2> HIDE DEF codes
  <2>0. PICK r : FactorTaken(wire', wire, i, r, codes)
    BY <1>1, <1>5, FactorServed DEF TokenKinds
  <2>1. /\ r.kind = "regen" /\ r.arg = world.key /\ r.is = "ok" /\ r.answer = {codes}
        /\ IsWire(wire') /\ TokenLess(wire', wire)
        /\ Requests(wire') \subseteq Requests(wire) \cup {r} /\ r \in Requests(wire')
        /\ \A K : Out(wire', K) <=> Out(wire, K)
        /\ \A K : One(wire, K) => One(wire', K)
        /\ (\A q \in Requests(wire) : ~Confirmed(q)) \/ ~Confirmed(r) => OneConfirmed(wire')
    BY <1>5, <2>0 DEF FactorTaken
  <2> USE DEF codes
  <2>2. /\ DOMAIN world' = AccountFields /\ world'.on = world.on /\ world'.key = world.key
        /\ world'.keys = world.keys
        /\ world'.codes = codes /\ world'.batches = codes /\ world'.tokens = world.tokens
        /\ world'.token = world.token /\ world'.elsewhere = world.elsewhere /\ codes \in Nat /\ codes # 0
    <3>1. world.batches \in Nat /\ DOMAIN world = AccountFields
      BY DEF SecurityInv, SecurityType
    <3>2. codes \in Nat /\ codes # 0
      BY <3>1
    <3> QED BY <3>1, <3>2, <1>5 DEF AccountFields
  <2> HIDE DEF codes
  <2>3. SecurityType(view', world') /\ TokenSame(view', world', view, world)
    BY <1>1, <2>2 DEF SecurityInv, SecurityType, TokenSame
  <2>4. \A q \in Requests(wire') : q = r \/ ~Prompt(q)
    <3>1. One(wire', {"disable", "regen"})
      BY <2>1 DEF SecurityInv, FactorInv, FactorApart
    <3> QED BY <3>1, <2>1, SecurityAlone DEF Prompt
  <2>5. ASSUME NEW q \in Requests(wire), q \in Requests(wire'), q # r PROVE FactorAsked(view', world', q)
    BY <2>4, <2>5, <1>1, <1>4, <1>5, <2>2 DEF FactorAsked, Matches, Confirmed, Fits, Prompt
  <2>6. FactorAsked(view', world', r)
    BY <2>1, <2>2, <1>1, <1>2, <1>4, <1>5 DEF FactorAsked, Matches, Confirmed, Fits, Prompt
  <2>7. FactorApart(wire')
    BY <2>1, <1>4, <1>5 DEF SecurityInv, FactorInv, FactorApart, Confirmed, Prompt
  <2>8. FactorShown(view', world', wire')
    BY <1>1, <1>4, <1>5, <2>1, <2>2 DEF SecurityInv, FactorInv, FactorShown
  <2>9. FactorInv(view', world', wire')
    BY <2>1, <2>5, <2>6, <2>7, <2>8 DEF FactorInv
  <2> QED BY <2>1, <2>3, <2>9, FactorSteps
<1>6. CASE /\ world.on /\ wire[i].arg = world.key /\ wire[i].kind = "disable" /\ wire' = Ok(wire, i, 0)
           /\ world' = [world EXCEPT !.on = FALSE, !.key = 0, !.codes = 0]
  <2>0. PICK r : FactorTaken(wire', wire, i, r, 0)
    BY <1>1, <1>6, FactorServed DEF TokenKinds
  <2>1. /\ r.kind = "disable" /\ r.arg = world.key /\ r.is = "ok" /\ r.answer = {0}
        /\ IsWire(wire') /\ TokenLess(wire', wire)
        /\ Requests(wire') \subseteq Requests(wire) \cup {r} /\ r \in Requests(wire')
        /\ \A K : Out(wire', K) <=> Out(wire, K)
        /\ \A K : One(wire, K) => One(wire', K)
        /\ (\A q \in Requests(wire) : ~Confirmed(q)) \/ ~Confirmed(r) => OneConfirmed(wire')
    BY <1>6, <2>0 DEF FactorTaken
  <2>2. /\ DOMAIN world' = AccountFields /\ world'.on = FALSE /\ world'.key = 0
        /\ world'.keys = world.keys
        /\ world'.codes = 0 /\ world'.batches = world.batches /\ world'.tokens = world.tokens
        /\ world'.token = world.token /\ world'.elsewhere = world.elsewhere
    BY <1>6 DEF SecurityInv, SecurityType, AccountFields
  <2>3. SecurityType(view', world') /\ TokenSame(view', world', view, world)
    <3>1. SecurityType(view, world) /\ 0 \in 0..world.keys
      BY DEF SecurityInv, SecurityType
    <3>2. SecurityType(view', world')
      BY <3>1, <1>1, <2>2 DEF SecurityType
    <3> QED BY <3>2, <1>1, <2>2 DEF TokenSame
  <2>4. \A q \in Requests(wire') : q = r \/ ~Prompt(q)
    <3>1. One(wire', {"disable", "regen"})
      BY <2>1 DEF SecurityInv, FactorInv, FactorApart
    <3> QED BY <3>1, <2>1, SecurityAlone DEF Prompt
  <2>5. ASSUME NEW q \in Requests(wire), q \in Requests(wire'), q # r PROVE FactorAsked(view', world', q)
    <3>1. q.kind = "confirm" => q.arg # 0
      <4>1. q.kind = "confirm" => q.arg \in 1..world.keys
        BY <1>4, <1>6 DEF FactorAsked
      <4>2. world.keys \in Nat
        BY DEF SecurityInv, SecurityType
      <4> QED BY <4>1, <4>2
    <3> QED BY <3>1, <2>4, <2>5, <1>1, <1>4, <1>6, <2>2 DEF FactorAsked, Matches, Confirmed, Fits, Prompt
  <2>6. FactorAsked(view', world', r)
    BY <2>1, <2>2, <1>1, <1>2, <1>4, <1>6 DEF FactorAsked, Matches, Confirmed, Fits, Prompt
  <2>7. FactorApart(wire')
    BY <2>1, <1>4, <1>6 DEF SecurityInv, FactorInv, FactorApart, Confirmed, Prompt
  <2>8. FactorShown(view', world', wire')
    BY <1>1, <1>4, <1>6, <2>1, <2>2 DEF SecurityInv, FactorInv, FactorShown
  <2>9. FactorInv(view', world', wire')
    BY <2>1, <2>5, <2>6, <2>7, <2>8 DEF FactorInv
  <2> QED BY <2>1, <2>3, <2>9, FactorSteps
<1> QED BY <1>1, <1>3, <1>5, <1>6

LEMMA SecurityServesRead ==
  ASSUME SecurityInv, NEW i \in DOMAIN wire, Security!ServeRead(i) PROVE SecurityInv'
<1>1. /\ wire[i].kind \in {"refresh", "status", "reread"} /\ view' = view /\ world' = world
      /\ wire' = Ok(wire, i, IF wire[i].kind = "refresh" THEN world.on ELSE world.token)
  BY SecurityWire DEF Security!ServeRead
<1>2. SecurityType(view', world')
  BY <1>1 DEF SecurityInv
<1>3. /\ TokenSame(view', world', view, world) /\ FactorSame(view', world', view, world)
  BY <1>1 DEF TokenSame, FactorSame
<1>4. CASE wire[i].kind = "refresh"
  <2>0. PICK r : FactorAsked(view, world, wire[i]) /\ FactorTaken(wire', wire, i, r, world.on)
    BY <1>1, <1>4, FactorServed DEF TokenKinds
  <2>1. /\ r.kind = "refresh" /\ r.arg = wire[i].arg /\ r.is = "ok" /\ r.answer = {world.on}
        /\ IsWire(wire') /\ TokenLess(wire', wire) /\ wire[i] \in Requests(wire)
        /\ Requests(wire') \subseteq Requests(wire) \cup {r} /\ r \in Requests(wire')
        /\ \A K : Out(wire', K) <=> Out(wire, K)
        /\ \A K : One(wire, K) => One(wire', K)
        /\ (\A q \in Requests(wire) : ~Confirmed(q)) \/ ~Confirmed(r) => OneConfirmed(wire')
    BY <1>4, <2>0 DEF FactorTaken
  <2>2. \A q \in Requests(wire) : FactorAsked(view', world', q)
    BY <1>1 DEF SecurityInv, FactorInv
  <2>3. FactorAsked(view', world', r)
    <3>1. world.on \in BOOLEAN
      BY DEF SecurityInv, SecurityType
    <3> QED BY <3>1, <2>0, <2>1, <1>1, <1>4 DEF FactorAsked, Matches, Confirmed, Fits, Prompt
  <2>4. FactorApart(wire')
    BY <1>4, <2>1 DEF SecurityInv, FactorInv, FactorApart, Confirmed, Prompt
  <2>5. FactorShown(view', world', wire')
    BY <1>1, <1>4, <2>1 DEF SecurityInv, FactorInv, FactorShown, Fits, Prompt
  <2>6. FactorInv(view', world', wire')
    BY <2>1, <2>2, <2>3, <2>4, <2>5 DEF FactorInv
  <2> QED BY <1>2, <1>3, <2>1, <2>6, FactorSteps
<1>5. CASE wire[i].kind \in {"status", "reread"}
  <2>1. PICK r : /\ r.kind = wire[i].kind /\ r.arg = wire[i].arg /\ r.is = "ok" /\ r.answer = {world.token}
                 /\ Becomes(wire', wire, i, r)
    BY <1>1, <1>5, OkRequest DEF SecurityInv
  <2>2. TokenAsked(view, world, wire[i])
    BY DEF SecurityInv, TokenInv, Requests
  <2>3. TokenAsked(view', world', r)
    BY <1>1, <1>5, <2>1, <2>2 DEF TokenAsked
  <2> QED BY <1>1, <1>2, <1>3, <1>5, <2>1, <2>3, TokenServed DEF SecurityInv, TokenInv, TokenShown, TokenKinds
<1> QED BY <1>1, <1>4, <1>5

LEMMA SecurityInit ==
  ASSUME Security!Init PROVE SecurityInv
<1>1. PICK on \in BOOLEAN, token \in {0, 1} :
    /\ world = [on |-> on, key |-> IF on THEN 1 ELSE 0, keys |-> 1, codes |-> IF on THEN 1 ELSE 0,
                batches |-> 1, token |-> token, tokens |-> 1, elsewhere |-> FALSE]
    /\ view = [enabled |-> on, dialog |-> "none", enablePhase |-> "scan", regenPhase |-> "prompt",
               setup |-> 0, codes |-> 0, enableBusy |-> FALSE, promptBusy |-> FALSE, failed |-> FALSE,
               scanned |-> world.key, status |-> {}, tokenBusy |-> FALSE, revealed |-> 0,
               lost |-> FALSE, clipboard |-> <<"text", 0>>, copied |-> <<"text", 0>>]
    /\ wire = <<Call("status", 0)>>
  BY SecurityWire DEF Security!Init
<1> DEFINE c == Call("status", 0)
<1>2. /\ IsWire(wire) /\ Requests(wire) = {c}
      /\ \A K : One(wire, K) /\ (Out(wire, K) <=> "status" \in K)
  BY <1>1, FirstRequest
<1>3. c.kind = "status" /\ c.is = "sent"
  BY CallFields
<1>4. OneConfirmed(wire)
  <2>1. \A i \in DOMAIN wire : wire[i] = c
    BY <1>2 DEF Requests
  <2> QED BY <2>1, <1>3 DEF OneConfirmed, Confirmed
<1> HIDE DEF c
<1>5. SecurityType(view, world)
  BY <1>1 DEF SecurityType, SecurityFields, AccountFields
<1>6. FactorAsked(view, world, c) /\ TokenAsked(view, world, c)
  BY <1>1, <1>3 DEF FactorAsked, TokenAsked, TokenKinds, Matches, Confirmed, Fits, Prompt
<1>7. FactorApart(wire)
  BY <1>2, <1>3, <1>4 DEF FactorApart, Confirmed, Prompt
<1>8. FactorShown(view, world, wire) /\ TokenShown(view, world, wire)
  BY <1>1, <1>2 DEF FactorShown, TokenShown, TokenKinds
<1> QED BY <1>2, <1>5, <1>6, <1>7, <1>8 DEF SecurityInv, FactorInv, TokenInv

LEMMA SecurityStep ==
  ASSUME ~Hurried, SecurityInv, Security!Next \/ UNCHANGED <<view, wire, world>>
  PROVE  SecurityInv'
<1>1. CASE UNCHANGED <<view, wire, world>>
  <2>1. SecurityType(view', world') /\ TokenSame(view', world', view, world) /\ FactorSame(view', world', view, world)
    BY <1>1 DEF SecurityInv, TokenSame, FactorSame
  <2>2. FactorLess(wire, wire)
    BY DEF FactorLess
  <2>3. FactorInv(view', world', wire)
    BY <2>1, <2>2, FactorStays DEF SecurityInv
  <2> QED BY <1>1, <2>1, <2>3, SecurityViews
<1>2. CASE Security!openEnable \/ Security!onConfirmEnable \/ Security!openDisable \/ Security!onDisable
           \/ Security!OpenRegen \/ Security!onRegen \/ Security!CloseDialog
  BY <1>2, SecurityOpensEnable, SecurityConfirms, SecurityOpensDisable, SecurityPrompts, SecurityOpensRegen,
     SecurityCloses
<1>3. CASE Security!RefreshElsewhere \/ Security!onDelete \/ Security!OtherTabGenerates
  BY <1>3, SecurityDeletes, OtherTabGenerated DEF Security!RefreshElsewhere
<1>4. CASE \E allowed \in BOOLEAN : Security!RecoveryCodesView(allowed) \/ Security!GeneratedToken(allowed)
  BY <1>4, SecurityCopies
<1>5. CASE \E password \in BOOLEAN : Security!onGenerate(password)
  BY <1>5, SecurityGenerates
<1>6. ASSUME NEW i \in DOMAIN wire,
             \/ Security!ServeSetup(i) \/ Security!ServeConfirm(i) \/ Security!ServePrompted(i)
             \/ Security!ServeRead(i) \/ Security!ServeGenerate(i) \/ Security!ServeDelete(i) \/ Security!Lose(i)
      PROVE  SecurityInv'
  BY <1>6, SecurityServesSetup, SecurityServesConfirm, SecurityServesPrompt, SecurityServesRead,
     SecurityServesGenerate, SecurityServesDelete, SecurityLoses
<1>7. ASSUME NEW i \in DOMAIN wire,
             \/ Security!ReceiveSetup(i) \/ Security!ReceiveConfirm(i) \/ Security!ReceiveDisable(i)
             \/ Security!ReceiveRegen(i) \/ Security!ReceiveRefresh(i) \/ Security!ReceiveStatus(i)
             \/ Security!ReceiveGenerate(i) \/ Security!ReceiveReread(i) \/ Security!ReceiveDelete(i)
      PROVE  SecurityInv'
  BY <1>7, SecurityReceivesSetup, SecurityReceivesConfirm, SecurityReceivesDisable, SecurityReceivesRegen,
     SecurityReceivesRefresh, SecurityReceivesStatus, SecurityReceivesGenerate, SecurityReceivesReread,
     SecurityReceivesDelete
<1> QED BY <1>1, <1>2, <1>3, <1>4, <1>5, <1>6, <1>7 DEF Security!Next

SecurityOnly == page = "security" => SecurityInv

(* Codes on screen are the batch that works, a factor that is on has a key *)
(* the user was shown, what is said to be copied was, and the token panel  *)
(* shows what there is, for any number of requests and moves of a user who *)
(* waits for one answer before asking the same again                       *)
(* (TwoFactorSettings.tsx:82-164, ApiTokenSettings.tsx:91-143).            *)
THEOREM SpecImpliesSecondFactorIsInHand ==
  ASSUME ~Hurried PROVE Spec => []SecondFactorIsInHand
<1>1. Init => SecurityOnly
  BY SecurityInit DEF Init, SecurityOnly
<1>2. SecurityOnly /\ [Next]_vars => SecurityOnly'
  <2> SUFFICES ASSUME SecurityOnly, [Next]_vars, page' = "security" PROVE SecurityInv'
    BY DEF SecurityOnly
  <2>1. page = "security"
    BY DEF Next, vars
  <2>2. Security!Next \/ UNCHANGED <<view, wire, world>>
    BY <2>1 DEF Next, vars
  <2> QED BY <2>1, <2>2, SecurityStep DEF SecurityOnly
<1>3. SecurityOnly => SecondFactorIsInHand
  <2> SUFFICES ASSUME SecurityInv PROVE Security!SecondFactorIsInHand
    BY DEF SecurityOnly, SecondFactorIsInHand
  <2>1. Security!Showing(view) => view.codes = world.codes /\ view.codes # 0
    BY DEF Security!Showing, SecurityInv, FactorInv, FactorShown
  <2>2. world.on => view.scanned = world.key
    BY DEF SecurityInv, FactorInv, FactorShown
  <2>3. view.copied = view.clipboard
    BY DEF SecurityInv, SecurityType
  <2> QED BY <2>1, <2>2, <2>3 DEF Security!SecondFactorIsInHand
<1> QED BY <1>1, <1>2, <1>3, PTL DEF Spec

(* The token panel says there is a token exactly when the server has one,  *)
(* and shows the one it has, though an answer to generate or delete may be *)
(* lost after the server has acted (ApiTokenSettings.tsx:91-143).          *)
THEOREM SpecImpliesTokenPanelIsCurrent ==
  ASSUME ~Hurried PROVE Spec => []TokenPanelIsCurrent
<1>1. Init => SecurityOnly
  BY SecurityInit DEF Init, SecurityOnly
<1>2. SecurityOnly /\ [Next]_vars => SecurityOnly'
  <2> SUFFICES ASSUME SecurityOnly, [Next]_vars, page' = "security" PROVE SecurityInv'
    BY DEF SecurityOnly
  <2>1. page = "security"
    BY DEF Next, vars
  <2>2. Security!Next \/ UNCHANGED <<view, wire, world>>
    BY <2>1 DEF Next, vars
  <2> QED BY <2>1, <2>2, SecurityStep DEF SecurityOnly
<1>3. SecurityOnly => TokenPanelIsCurrent
  <2> SUFFICES ASSUME SecurityInv PROVE Security!TokenPanelIsCurrent
    BY DEF SecurityOnly, TokenPanelIsCurrent
  <2>1. wire = <<>> => ~Out(wire, TokenKinds)
    BY NoRequests
  <2>2. wire = <<>> /\ ~view.lost /\ ~world.elsewhere => view.status = {world.token}
    BY <2>1 DEF SecurityInv, TokenInv, TokenShown
  <2>3. view.revealed # 0 => view.revealed = world.token
    BY DEF SecurityInv, TokenInv, TokenShown
  <2> QED BY <2>2, <2>3 DEF Security!TokenPanelIsCurrent
<1> QED BY <1>1, <1>2, <1>3, PTL DEF Spec

=============================================================================
