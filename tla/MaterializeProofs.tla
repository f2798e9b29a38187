-------------------------- MODULE MaterializeProofs --------------------------
(***************************************************************************)
(* The proofs about Materialize, for any results, sizes and limits and any *)
(* number of calls and conversations.  The first half is about the loops   *)
(* that read within a number of bytes: whatever they are given, they keep  *)
(* the longest prefix that fits.  The second half carries that over to the *)
(* files and to the replies.                                               *)
(***************************************************************************)
EXTENDS Materialize, WellFoundedInduction, TLAPS

-----------------------------------------------------------------------------
(* Induction *)

\* A set of numbers with 0 and the successor of each member has them all.
LEMMA Induction ==
  ASSUME NEW P \in SUBSET Nat, 0 \in P, \A n \in P : n + 1 \in P
  PROVE  P = Nat
<1> DEFINE T == Nat \ P
<1>1. SUFFICES ASSUME T # {} PROVE FALSE
  OBVIOUS
<1>2. PICK x \in T : \A y \in T : ~(<<y, x>> \in OpToRel(<, Nat))
  <2>1. IsWellFoundedOn(OpToRel(<, Nat), Nat)
    BY NatLessThanWellFounded
  <2>2. T \subseteq Nat /\ T # {}
    BY <1>1
  <2> HIDE DEF T
  <2> QED
    BY <2>1, <2>2, WFMin
<1>3. \A y \in T : ~(y < x)
  BY <1>2 DEF OpToRel
<1>4. x # 0 /\ x - 1 \in Nat /\ x - 1 < x
  OBVIOUS
<1>5. x - 1 \in P
  BY <1>3, <1>4
<1>6. (x - 1) + 1 \in P
  BY <1>5
<1> QED
  BY <1>6

\* The value at 0 is b, and g takes the value at i - 1 and i to the value at i.
IsRecursion(X, b, m, g) == b \in X /\ m \in Nat /\ g \in [X \X (1 .. m) -> X]

\* A definition by recursion has something to define.
LEMMA Recursion ==
  ASSUME NEW X, NEW b, NEW m, NEW g, IsRecursion(X, b, m, g)
  PROVE  \E f \in [0 .. m -> X] : f[0] = b /\ \A i \in 1 .. m : f[i] = g[<<f[i - 1], i>>]
<1> DEFINE Defined(f, k) ==
             f \in [0 .. k -> X] /\ f[0] = b /\ \A i \in 1 .. k : f[i] = g[<<f[i - 1], i>>]
           P == {k \in Nat : k <= m => \E f : Defined(f, k)}
<1>0. b \in X /\ m \in Nat /\ g \in [X \X (1 .. m) -> X]
  BY DEF IsRecursion
<1> USE <1>0
<1>1. 0 \in P
  <2>1. Defined([i \in 0 .. 0 |-> b], 0)
    OBVIOUS
  <2> QED
    BY <2>1
<1>2. ASSUME NEW k \in P PROVE k + 1 \in P
  <2>1. SUFFICES ASSUME k + 1 <= m PROVE \E f : Defined(f, k + 1)
    OBVIOUS
  <2>2. PICK f : Defined(f, k)
    BY <2>1
  <2> DEFINE h == [i \in 0 .. k + 1 |-> IF i = k + 1 THEN g[<<f[k], k + 1>>] ELSE f[i]]
  <2>3. k \in 0 .. k /\ k + 1 \in 1 .. m /\ k \in Nat
    BY <2>1
  <2>4. f[k] \in X
    BY <2>2, <2>3
  <2>5. g[<<f[k], k + 1>>] \in X
    BY <2>3, <2>4
  <2>6. h \in [0 .. k + 1 -> X]
    <3>1. ASSUME NEW i \in 0 .. k + 1, i # k + 1 PROVE f[i] \in X
      BY <2>2, <2>3, <3>1
    <3> QED
      BY <2>5, <3>1
  <2>7. h[0] = b
    BY <2>2, <2>3
  <2>8. ASSUME NEW i \in 1 .. k + 1 PROVE h[i] = g[<<h[i - 1], i>>]
    <3>1. CASE i = k + 1
      <4>1. i - 1 = k /\ k # k + 1 /\ k \in 0 .. k + 1
        BY <2>3, <3>1
      <4>2. h[i] = g[<<f[k], k + 1>>] /\ h[k] = f[k]
        BY <3>1, <4>1
      <4> QED
        BY <3>1, <4>1, <4>2
    <3>2. CASE i # k + 1
      BY <2>2, <2>3, <3>2
    <3> QED
      BY <3>1, <3>2
  <2> QED
    BY <2>6, <2>7, <2>8
<1>3. P = Nat
  <2> HIDE DEF P
  <2>1. P \in SUBSET Nat
    BY DEF P
  <2> QED
    BY <1>1, <1>2, <2>1, Induction
<1>4. m \in P
  BY <1>3
<1> QED
  BY <1>4

-----------------------------------------------------------------------------
(* Reading within a number of bytes *)

\* The bytes that are used up grow with every item.
LEMMA UsedDef ==
  ASSUME NEW s \in Seq(Nat), NEW start \in Nat
  PROVE  /\ Used(s, start) \in [0 .. Len(s) -> Nat]
         /\ Used(s, start)[0] = start
         /\ \A k \in 1 .. Len(s) : Used(s, start)[k] = Used(s, start)[k - 1] + s[k]
<1> DEFINE g == [p \in Nat \X (1 .. Len(s)) |-> p[1] + s[p[2]]]
           D(f) == f = [k \in 0 .. Len(s) |-> IF k = 0 THEN start ELSE f[k - 1] + s[k]]
           u == CHOOSE f : D(f)
<1>1. Len(s) \in Nat /\ \A k \in 1 .. Len(s) : s[k] \in Nat
  OBVIOUS
<1>2. g \in [Nat \X (1 .. Len(s)) -> Nat]
  BY <1>1
<1>3. \E f : D(f)
  <2>1. PICK f \in [0 .. Len(s) -> Nat] :
               f[0] = start /\ \A i \in 1 .. Len(s) : f[i] = g[<<f[i - 1], i>>]
    <3> HIDE DEF g, D, u
    <3>1. IsRecursion(Nat, start, Len(s), g)
      BY <1>1, <1>2 DEF IsRecursion
    <3> QED
      BY <3>1, Recursion
  <2>2. ASSUME NEW i \in 1 .. Len(s) PROVE f[i] = f[i - 1] + s[i]
    <3>1. f[i - 1] \in Nat
      BY <1>1
    <3>2. g[<<f[i - 1], i>>] = f[i - 1] + s[i]
      BY <3>1
    <3> QED
      BY <2>1, <3>2
  <2>3. f = [k \in 0 .. Len(s) |-> IF k = 0 THEN start ELSE f[k - 1] + s[k]]
    BY <1>1, <2>1, <2>2
  <2> QED
    BY <2>3
<1>4. D(u)
  <2> HIDE DEF D
  <2> QED
    BY <1>3
<1>5. Used(s, start) = u
  BY DEF Used
<1> HIDE DEF u
<1>6. u[0] = start /\ \A k \in 1 .. Len(s) : u[k] = u[k - 1] + s[k]
  <2>1. \A k \in 0 .. Len(s) : u[k] = IF k = 0 THEN start ELSE u[k - 1] + s[k]
    BY <1>4, Zenon
  <2>2. 0 \in 0 .. Len(s) /\ \A k \in 1 .. Len(s) : k \in 0 .. Len(s) /\ k # 0
    BY <1>1
  <2> QED
    BY <2>1, <2>2
<1> DEFINE P == {k \in Nat : k <= Len(s) => u[k] \in Nat}
<1>7. P = Nat
  <2>1. 0 \in P
    BY <1>6
  <2>2. ASSUME NEW k \in P PROVE k + 1 \in P
    BY <1>1, <1>6
  <2>3. P \in SUBSET Nat
    OBVIOUS
  <2> HIDE DEF P
  <2> QED
    BY <2>1, <2>2, <2>3, Induction
<1>8. ASSUME NEW k \in 0 .. Len(s) PROVE u[k] \in Nat
  <2>1. k \in P /\ k <= Len(s)
    BY <1>1, <1>7
  <2> QED
    BY <2>1
<1>9. u \in [0 .. Len(s) -> Nat]
  BY <1>4, <1>8
<1> QED
  BY <1>5, <1>6, <1>9

\* What an iteration takes and returns.
Progress == [n : Nat, total : Nat, cut : BOOLEAN]

LEMMA IterationType ==
  ASSUME NEW r \in Progress, NEW size \in Nat
  PROVE  Iteration(r, size) \in Progress
<1>1. r.n \in Nat /\ r.total \in Nat /\ r.cut \in BOOLEAN
  BY DEF Progress
<1>2. CASE r.cut
  BY <1>2 DEF Iteration
<1>3. CASE ~r.cut /\ Overruns(r.total, size)
  <2>1. Iteration(r, size) = [r EXCEPT !.cut = TRUE]
    BY <1>3 DEF Iteration
  <2> QED
    BY <2>1 DEF Progress
<1>4. CASE ~r.cut /\ ~Overruns(r.total, size)
  <2>1. Iteration(r, size) = [r EXCEPT !.n = r.n + 1, !.total = r.total + size]
    BY <1>4 DEF Iteration
  <2>2. r.n + 1 \in Nat /\ r.total + size \in Nat
    BY <1>1
  <2> QED
    BY <2>1, <2>2 DEF Progress
<1> QED
  BY <1>2, <1>3, <1>4

\* The loop does one iteration per item.
LEMMA LoopDef ==
  ASSUME NEW s \in Seq(Nat), NEW start \in Nat
  PROVE  /\ Loop(s, start)[0] = [n |-> 0, total |-> start, cut |-> FALSE]
         /\ \A i \in 1 .. Len(s) :
              Loop(s, start)[i] = Iteration(Loop(s, start)[i - 1], s[i])
<1> DEFINE first == [n |-> 0, total |-> start, cut |-> FALSE]
           g == [p \in Progress \X (1 .. Len(s)) |-> Iteration(p[1], s[p[2]])]
           D(f) == f = [i \in 0 .. Len(s) |->
                          IF i = 0 THEN [n |-> 0, total |-> start, cut |-> FALSE]
                          ELSE Iteration(f[i - 1], s[i])]
           u == CHOOSE f : D(f)
<1>1. Len(s) \in Nat /\ \A k \in 1 .. Len(s) : s[k] \in Nat
  OBVIOUS
<1>2. g \in [Progress \X (1 .. Len(s)) -> Progress]
  BY <1>1, IterationType
<1>3. \E f : D(f)
  <2>1. PICK f \in [0 .. Len(s) -> Progress] :
               f[0] = first /\ \A i \in 1 .. Len(s) : f[i] = g[<<f[i - 1], i>>]
    <3>1. first \in Progress
      BY DEF Progress
    <3> HIDE DEF g, D, u, first
    <3>2. IsRecursion(Progress, first, Len(s), g)
      BY <1>1, <1>2, <3>1 DEF IsRecursion
    <3> QED
      BY <3>2, Recursion
  <2>2. ASSUME NEW i \in 1 .. Len(s) PROVE f[i] = Iteration(f[i - 1], s[i])
    <3>1. f[i - 1] \in Progress
      BY <1>1
    <3>2. g[<<f[i - 1], i>>] = Iteration(f[i - 1], s[i])
      BY <3>1
    <3> QED
      BY <2>1, <3>2
  <2>3. f = [i \in 0 .. Len(s) |-> IF i = 0 THEN first ELSE Iteration(f[i - 1], s[i])]
    BY <1>1, <2>1, <2>2
  <2> QED
    BY <2>3
<1>4. D(u)
  <2> HIDE DEF D
  <2> QED
    BY <1>3
<1>5. Loop(s, start) = u
  BY DEF Loop
<1> HIDE DEF u
<1>6. \A i \in 0 .. Len(s) : u[i] = IF i = 0 THEN first ELSE Iteration(u[i - 1], s[i])
  BY <1>4, Zenon
<1>7. 0 \in 0 .. Len(s) /\ \A i \in 1 .. Len(s) : i \in 0 .. Len(s) /\ i # 0
  BY <1>1
<1> QED
  BY <1>5, <1>6, <1>7

\* While the loop goes on it has kept every item; it breaks off at the first one
\* that does not fit any more.
LEMMA LoopKeepsPrefix ==
  ASSUME limit \in Nat \cup {NoLimit}, NEW s \in Seq(Nat), NEW start \in Nat,
         NEW k \in 0 .. Len(s)
  PROVE  LET r == Loop(s, start)[k]
             used == Used(s, start)
         IN  /\ r \in Progress
             /\ r.n \in 0 .. k /\ r.total = used[r.n]
             /\ ~r.cut => r.n = k
             /\ r.cut => r.n < k /\ limit # NoLimit /\ used[r.n + 1] > limit
             /\ r.n > 0 => limit = NoLimit \/ used[r.n] <= limit
<1> DEFINE used == Used(s, start)
           r(i) == Loop(s, start)[i]
           Inv(i) == /\ r(i) \in Progress
                     /\ r(i).n \in 0 .. i /\ r(i).total = used[r(i).n]
                     /\ ~r(i).cut => r(i).n = i
                     /\ r(i).cut => /\ r(i).n < i /\ limit # NoLimit
                                    /\ used[r(i).n + 1] > limit
                     /\ r(i).n > 0 => limit = NoLimit \/ used[r(i).n] <= limit
           P == {i \in Nat : i <= Len(s) => Inv(i)}
<1>1. Len(s) \in Nat /\ \A i \in 1 .. Len(s) : s[i] \in Nat
  OBVIOUS
<1>2. /\ used \in [0 .. Len(s) -> Nat] /\ used[0] = start
      /\ \A i \in 1 .. Len(s) : used[i] = used[i - 1] + s[i]
  BY UsedDef
<1>3. /\ r(0) = [n |-> 0, total |-> start, cut |-> FALSE]
      /\ \A i \in 1 .. Len(s) : r(i) = Iteration(r(i - 1), s[i])
  BY LoopDef
<1> HIDE DEF used, r
<1>4. 0 \in P
  <2>1. r(0).n = 0 /\ r(0).total = used[0] /\ r(0).cut = FALSE
    BY <1>2, <1>3
  <2>2. r(0) \in Progress
    <3>1. [n |-> 0, total |-> start, cut |-> FALSE] \in Progress
      BY DEF Progress
    <3> QED
      BY <1>3, <3>1
  <2>3. Inv(0)
    BY <2>1, <2>2
  <2> QED
    BY <2>3
<1>5. ASSUME NEW i \in P PROVE i + 1 \in P
  <2>1. SUFFICES ASSUME i + 1 <= Len(s) PROVE Inv(i + 1)
    OBVIOUS
  <2>2. i \in Nat /\ Inv(i)
    BY <1>1, <2>1
  <2>3. i + 1 \in 1 .. Len(s) /\ (i + 1) - 1 = i /\ s[i + 1] \in Nat
    BY <1>1, <2>1, <2>2
  <2>4. r(i + 1) = Iteration(r(i), s[i + 1])
    BY <1>3, <2>3
  <2>5. r(i + 1) \in Progress
    BY <2>2, <2>3, <2>4, IterationType
  <2>6. CASE r(i).cut
    <3>1. r(i + 1) = r(i)
      BY <2>4, <2>6 DEF Iteration
    <3> QED
      BY <2>2, <2>6, <3>1
  <2>7. CASE ~r(i).cut
    <3>1. /\ r(i).n = i /\ r(i).total = used[i] /\ used[i] \in Nat
          /\ used[i + 1] = used[i] + s[i + 1]
      BY <1>2, <2>2, <2>3, <2>7
    <3>2. CASE Overruns(r(i).total, s[i + 1])
      <4>1. r(i + 1) = [r(i) EXCEPT !.cut = TRUE]
        BY <2>4, <2>7, <3>2 DEF Iteration
      <4>2. r(i + 1).n = i /\ r(i + 1).total = used[i] /\ r(i + 1).cut
        BY <2>2, <3>1, <4>1 DEF Progress
      <4>3. limit # NoLimit /\ used[i + 1] > limit
        BY <3>1, <3>2 DEF Overruns
      <4> QED
        BY <2>2, <2>5, <3>1, <4>2, <4>3
    <3>3. CASE ~Overruns(r(i).total, s[i + 1])
      <4>1. r(i + 1) = [r(i) EXCEPT !.n = @ + 1, !.total = @ + s[i + 1]]
        BY <2>4, <2>7, <3>3 DEF Iteration
      <4>2. r(i + 1).n = i + 1 /\ r(i + 1).total = used[i + 1] /\ ~r(i + 1).cut
        BY <2>2, <2>7, <3>1, <4>1 DEF Progress
      <4>3. limit = NoLimit \/ used[i + 1] <= limit
        BY <2>3, <3>1, <3>3 DEF Overruns
      <4> QED
        BY <2>2, <2>5, <4>2, <4>3
    <3> QED
      BY <3>2, <3>3
  <2> QED
    BY <2>6, <2>7
<1>6. P = Nat
  <2>1. P \in SUBSET Nat
    OBVIOUS
  <2> HIDE DEF P
  <2> QED
    BY <1>4, <1>5, <2>1, Induction
<1>7. k \in P /\ k <= Len(s)
  BY <1>1, <1>6
<1>8. Inv(k)
  BY <1>7
<1> QED
  BY <1>8 DEF used, r

-----------------------------------------------------------------------------
(* The longest prefix that fits *)

LEMMA UsedGrows ==
  ASSUME NEW s \in Seq(Nat), NEW start \in Nat,
         NEW j \in 0 .. Len(s), NEW k \in 0 .. Len(s), j <= k
  PROVE  Used(s, start)[j] <= Used(s, start)[k]
<1> DEFINE used == Used(s, start)
           P == {i \in Nat : j + i <= Len(s) => used[j] <= used[j + i]}
<1>1. Len(s) \in Nat /\ \A i \in 1 .. Len(s) : s[i] \in Nat
  OBVIOUS
<1>2. /\ used \in [0 .. Len(s) -> Nat]
      /\ \A i \in 1 .. Len(s) : used[i] = used[i - 1] + s[i]
  BY UsedDef
<1> HIDE DEF used
<1>3. 0 \in P
  BY <1>2
<1>4. ASSUME NEW i \in P PROVE i + 1 \in P
  <2>1. SUFFICES ASSUME j + (i + 1) <= Len(s) PROVE used[j] <= used[j + (i + 1)]
    OBVIOUS
  <2>2. used[j] <= used[j + i]
    BY <1>1, <2>1
  <2>3. j + (i + 1) \in 1 .. Len(s) /\ (j + (i + 1)) - 1 = j + i /\ j + i \in 0 .. Len(s)
    BY <1>1, <2>1
  <2>4. used[j + (i + 1)] = used[j + i] + s[j + (i + 1)] /\ s[j + (i + 1)] \in Nat
    BY <1>1, <1>2, <2>3
  <2>5. used[j] \in Nat /\ used[j + i] \in Nat
    BY <1>2, <2>3
  <2> QED
    BY <2>2, <2>4, <2>5
<1>5. P = Nat
  <2>1. P \in SUBSET Nat
    OBVIOUS
  <2> HIDE DEF P
  <2> QED
    BY <1>3, <1>4, <2>1, Induction
<1>6. k - j \in P
  <2>1. k - j \in Nat
    BY <1>1
  <2> HIDE DEF P
  <2> QED
    BY <1>5, <2>1
<1>7. used[j] <= used[k]
  <2>1. j + (k - j) = k /\ k <= Len(s)
    BY <1>1
  <2> QED
    BY <1>6, <2>1
<1> QED
  BY <1>7 DEF used

\* The first n items fit and no more do.
Fits(s, start, n) ==
  /\ n \in 0 .. Len(s)
  /\ n > 0 => limit = NoLimit \/ Used(s, start)[n] <= limit
  /\ n < Len(s) => limit # NoLimit /\ Used(s, start)[n + 1] > limit

\* There is one such number, and it is that of the definition.
LEMMA FitsIsFitting ==
  ASSUME limit \in Nat \cup {NoLimit}, NEW s \in Seq(Nat), NEW start \in Nat,
         NEW n, Fits(s, start, n)
  PROVE  Fitting(s, start) = n
<1> DEFINE used == Used(s, start)
           S == {0} \cup {k \in 1 .. Len(s) : limit = NoLimit \/ used[k] <= limit}
<1>1. Len(s) \in Nat /\ used \in [0 .. Len(s) -> Nat]
  BY UsedDef
<1>2. /\ n \in 0 .. Len(s)
      /\ n > 0 => limit = NoLimit \/ used[n] <= limit
      /\ n < Len(s) => limit # NoLimit /\ used[n + 1] > limit
  BY DEF Fits
<1>3. \A j, k \in 0 .. Len(s) : j <= k => used[j] <= used[k]
  BY UsedGrows
<1> HIDE DEF used
<1>4. n \in S
  BY <1>1, <1>2
<1>5. ASSUME NEW x \in S PROVE n >= x
  <2>1. SUFFICES ASSUME x > n PROVE FALSE
    BY <1>1, <1>2
  <2>2. x \in 1 .. Len(s) /\ (limit = NoLimit \/ used[x] <= limit) /\ n < Len(s)
    BY <1>1, <1>2, <2>1
  <2>3. limit # NoLimit /\ limit \in Nat /\ used[n + 1] > limit
    BY <1>2, <2>2
  <2>4. n + 1 \in 0 .. Len(s) /\ x \in 0 .. Len(s) /\ n + 1 <= x
    BY <1>1, <1>2, <2>1, <2>2
  <2>5. used[n + 1] <= used[x] /\ used[n + 1] \in Nat /\ used[x] \in Nat
    BY <1>1, <1>3, <2>4
  <2> QED
    BY <2>2, <2>3, <2>5
<1>6. S \subseteq Nat
  BY <1>1
<1>7. Max(S) = n
  <2> HIDE DEF S
  <2>1. \A x \in S : (\A y \in S : x >= y) => x = n
    BY <1>4, <1>5, <1>6
  <2> QED
    BY <1>4, <1>5, <2>1 DEF Max
<1>8. Fitting(s, start) = Max(S)
  BY DEF Fitting, used
<1> QED
  BY <1>7, <1>8

\* What a loop keeps is the longest prefix, and it is cut short exactly when
\* there is more (take_within_bytes, _collect_within_bytes, materialize_result).
LEMMA ReadingIsFitting ==
  ASSUME limit \in Nat \cup {NoLimit}, NEW s \in Seq(Nat), NEW start \in Nat
  PROVE  /\ Reading(s, start).n = Fitting(s, start)
         /\ Reading(s, start).cut \in BOOLEAN
         /\ Reading(s, start).cut <=> Fitting(s, start) < Len(s)
         /\ Fits(s, start, Fitting(s, start))
<1> DEFINE r == Reading(s, start)
<1>1. Len(s) \in 0 .. Len(s) /\ Len(s) \in Nat
  OBVIOUS
<1>2. /\ r \in Progress
      /\ r.n \in 0 .. Len(s)
      /\ ~r.cut => r.n = Len(s)
      /\ r.cut => r.n < Len(s) /\ limit # NoLimit /\ Used(s, start)[r.n + 1] > limit
      /\ r.n > 0 => limit = NoLimit \/ Used(s, start)[r.n] <= limit
  BY <1>1, LoopKeepsPrefix DEF Reading
<1> HIDE DEF r
<1>3. r.cut \in BOOLEAN
  BY <1>2 DEF Progress
<1>4. Fits(s, start, r.n)
  BY <1>1, <1>2 DEF Fits
<1>5. Fitting(s, start) = r.n
  BY <1>4, FitsIsFitting
<1>6. r.cut <=> r.n < Len(s)
  BY <1>1, <1>2, <1>3
<1> QED
  BY <1>3, <1>4, <1>5, <1>6 DEF r

\* The items after the first k do not change what is used up by those.
LEMMA UsedOfPrefix ==
  ASSUME NEW s \in Seq(Nat), NEW start \in Nat, NEW k \in 0 .. Len(s),
         NEW j \in 0 .. k
  PROVE  Used(SubSeq(s, 1, k), start)[j] = Used(s, start)[j]
<1> DEFINE t == SubSeq(s, 1, k)
           used == Used(s, start)
           part == Used(t, start)
           P == {i \in Nat : i <= k => part[i] = used[i]}
<1>1. /\ Len(s) \in Nat /\ k \in Nat /\ k <= Len(s)
      /\ t \in Seq(Nat) /\ Len(t) = k /\ \A i \in 1 .. k : t[i] = s[i]
  OBVIOUS
<1>2. used[0] = start /\ \A i \in 1 .. Len(s) : used[i] = used[i - 1] + s[i]
  BY UsedDef
<1>3. part[0] = start /\ \A i \in 1 .. k : part[i] = part[i - 1] + t[i]
  <2> HIDE DEF t
  <2> QED
    BY <1>1, UsedDef
<1> HIDE DEF used, part, t
<1>4. 0 \in P
  BY <1>2, <1>3
<1>5. ASSUME NEW i \in P PROVE i + 1 \in P
  <2>1. SUFFICES ASSUME i + 1 <= k PROVE part[i + 1] = used[i + 1]
    OBVIOUS
  <2>2. /\ i + 1 \in 1 .. k /\ i + 1 \in 1 .. Len(s) /\ (i + 1) - 1 = i
        /\ part[i] = used[i]
    BY <1>1, <2>1
  <2> QED
    BY <1>1, <1>2, <1>3, <2>2
<1>6. P = Nat
  <2>1. P \in SUBSET Nat
    OBVIOUS
  <2> HIDE DEF P
  <2> QED
    BY <1>4, <1>5, <2>1, Induction
<1>7. part[j] = used[j]
  BY <1>1, <1>6
<1> QED
  BY <1>7 DEF part, used, t

\* Of a prefix fits what fits of the whole, as far as the prefix goes.
LEMMA FittingOfPrefix ==
  ASSUME limit \in Nat \cup {NoLimit}, NEW s \in Seq(Nat), NEW start \in Nat,
         NEW k \in 0 .. Len(s)
  PROVE  Fitting(SubSeq(s, 1, k), start) = Smaller(k, Fitting(s, start))
<1> DEFINE t == SubSeq(s, 1, k)
           f == Fitting(s, start)
           used == Used(s, start)
           n == Smaller(k, f)
<1>1. /\ Len(s) \in Nat /\ k \in Nat /\ k <= Len(s)
      /\ t \in Seq(Nat) /\ Len(t) = k
  OBVIOUS
<1>2. /\ f \in 0 .. Len(s)
      /\ f > 0 => limit = NoLimit \/ used[f] <= limit
      /\ f < Len(s) => limit # NoLimit /\ used[f + 1] > limit
  BY ReadingIsFitting DEF Fits
<1>3. \A j \in 0 .. k : Used(t, start)[j] = used[j]
  BY UsedOfPrefix
<1>4. /\ used \in [0 .. Len(s) -> Nat]
      /\ \A i, j \in 0 .. Len(s) : i <= j => used[i] <= used[j]
  BY UsedDef, UsedGrows
<1> HIDE DEF t, f, used
<1>5. Fits(t, start, n)
  <2>1. CASE k <= f
    <3>1. n = k
      BY <1>1, <1>2, <2>1 DEF Smaller
    <3>2. used[k] <= used[f] /\ used[k] \in Nat /\ used[f] \in Nat
      BY <1>1, <1>2, <1>4, <2>1
    <3>3. k > 0 => limit = NoLimit \/ used[k] <= limit
      BY <1>1, <1>2, <2>1, <3>2
    <3> QED
      BY <1>1, <1>3, <3>1, <3>3 DEF Fits
  <2>2. CASE f < k
    <3>1. n = f
      BY <1>1, <1>2, <2>2 DEF Smaller
    <3>2. f \in 0 .. k /\ f + 1 \in 0 .. k /\ f < Len(s)
      BY <1>1, <1>2, <2>2
    <3> QED
      BY <1>1, <1>2, <1>3, <3>1, <3>2 DEF Fits
  <2> QED
    BY <1>1, <1>2, <2>1, <2>2
<1> HIDE DEF n
<1>6. Fitting(t, start) = n
  BY <1>1, <1>5, FitsIsFitting
<1> QED
  BY <1>6 DEF t, n, f

-----------------------------------------------------------------------------
(* What a call reads *)

\* The sizes of a result, and those of its first rows.
LEMMA Sizes ==
  ASSUME NEW s \in Sources \cup {<< >>}
  PROVE  /\ Len(s) \in Nat
         /\ JsonSizes(s) \in Seq(Nat) /\ Len(JsonSizes(s)) = Len(s)
         /\ CsvSizes(s) \in Seq(Nat) /\ Len(CsvSizes(s)) = Len(s)
         /\ \A k \in 0 .. Len(s) :
              CsvSizes(SubSeq(s, 1, k)) = SubSeq(CsvSizes(s), 1, k)
<1> DEFINE Row == [json : Nat \ {0}, csv : Nat \ {0}]
<1>1. s \in Seq(Row)
  <2>1. CASE s \in Sources
    BY <2>1, MaterializeAssumption, Zenon
  <2>2. CASE s = << >>
    <3> HIDE DEF Row
    <3> QED
      BY <2>2
  <2> QED
    BY <2>1, <2>2
<1>2. Len(s) \in Nat /\ DOMAIN s = 1 .. Len(s) /\ \A i \in 1 .. Len(s) : s[i] \in Row
  <2> HIDE DEF Row
  <2> QED
    BY <1>1
<1>3. \A i \in 1 .. Len(s) : s[i].json \in Nat /\ s[i].csv \in Nat
  BY <1>2
<1>4. JsonSizes(s) \in Seq(Nat) /\ Len(JsonSizes(s)) = Len(s)
  BY <1>2, <1>3 DEF JsonSizes
<1>5. CsvSizes(s) \in Seq(Nat) /\ Len(CsvSizes(s)) = Len(s)
  BY <1>2, <1>3 DEF CsvSizes
<1>6. ASSUME NEW k \in 0 .. Len(s)
      PROVE  CsvSizes(SubSeq(s, 1, k)) = SubSeq(CsvSizes(s), 1, k)
  <2>1. k \in Nat /\ 1 .. k \subseteq 1 .. Len(s)
    BY <1>2
  <2>2. SubSeq(s, 1, k) = [i \in 1 .. k |-> s[i]]
    <3> HIDE DEF Row
    <3> QED
      BY <1>1, <2>1
  <2>3. CsvSizes(SubSeq(s, 1, k)) = [i \in 1 .. k |-> s[i].csv]
    BY <2>2 DEF CsvSizes
  <2>4. SubSeq(CsvSizes(s), 1, k) = [i \in 1 .. k |-> CsvSizes(s)[i]]
    BY <1>5, <2>1
  <2>5. \A i \in 1 .. k : CsvSizes(s)[i] = s[i].csv
    BY <1>2, <2>1 DEF CsvSizes
  <2> QED
    BY <2>3, <2>4, <2>5
<1> QED
  BY <1>2, <1>4, <1>5, <1>6

LEMMA Readings ==
  ASSUME limit \in Limits, SourceInv, NEW c \in Calls
  PROVE  LET s == source[c]
             json == Reading(JsonSizes(s), 0)
             fits == Fitting(CsvSizes(s), Header)
         IN  /\ Len(s) \in Nat
             /\ json.n = Fitting(JsonSizes(s), 0) /\ json.n \in 0 .. Len(s)
             /\ json.cut \in BOOLEAN /\ (json.cut <=> json.n < Len(s))
             /\ fits \in 0 .. Len(s)
             /\ Read(c) \in 0 .. Len(s)
             /\ \A k \in 0 .. Len(s) :
                  LET csv == Reading(CsvSizes(SubSeq(s, 1, k)), Header) IN
                    /\ csv.n = Smaller(k, fits) /\ csv.n \in 0 .. k
                    /\ csv.cut \in BOOLEAN /\ (csv.cut <=> csv.n < k)
<1> DEFINE s == source[c]
           json == Reading(JsonSizes(s), 0)
           fits == Fitting(CsvSizes(s), Header)
<1>1. s \in Sources \cup {<< >>} /\ limit \in Nat \cup {NoLimit} /\ Header \in Nat
  BY MaterializeAssumption DEF SourceInv
<1>2. /\ Len(s) \in Nat
      /\ JsonSizes(s) \in Seq(Nat) /\ Len(JsonSizes(s)) = Len(s)
      /\ CsvSizes(s) \in Seq(Nat) /\ Len(CsvSizes(s)) = Len(s)
      /\ \A k \in 0 .. Len(s) :
           CsvSizes(SubSeq(s, 1, k)) = SubSeq(CsvSizes(s), 1, k)
  BY <1>1, Sizes
<1> HIDE DEF s
<1>3. /\ json.n = Fitting(JsonSizes(s), 0) /\ json.n \in 0 .. Len(s)
      /\ json.cut \in BOOLEAN /\ (json.cut <=> json.n < Len(s))
  BY <1>1, <1>2, ReadingIsFitting DEF Fits
<1>4. fits \in 0 .. Len(s)
  BY <1>1, <1>2, ReadingIsFitting DEF Fits
<1>5. Read(c) \in 0 .. Len(s)
  BY <1>2, <1>3 DEF Read, s
<1>6. ASSUME NEW k \in 0 .. Len(s)
      PROVE  LET csv == Reading(CsvSizes(SubSeq(s, 1, k)), Header) IN
               /\ csv.n = Smaller(k, fits) /\ csv.n \in 0 .. k
               /\ csv.cut \in BOOLEAN /\ (csv.cut <=> csv.n < k)
  <2> DEFINE t == SubSeq(CsvSizes(s), 1, k)
             csv == Reading(t, Header)
  <2>1. CsvSizes(SubSeq(s, 1, k)) = t
    BY <1>2
  <2>2. t \in Seq(Nat) /\ Len(t) = k
    BY <1>2
  <2>3. Fitting(t, Header) = Smaller(k, fits)
    BY <1>1, <1>2, FittingOfPrefix
  <2> HIDE DEF t, fits
  <2>4. /\ csv.n = Fitting(t, Header) /\ csv.n \in 0 .. k
        /\ csv.cut \in BOOLEAN /\ (csv.cut <=> csv.n < k)
    BY <1>1, <2>2, ReadingIsFitting DEF Fits
  <2> QED
    BY <2>1, <2>3, <2>4
<1> QED
  BY <1>2, <1>3, <1>4, <1>5, <1>6 DEF s

\* What a call wants does not change with the steps of others.
LEMMA SameRows ==
  ASSUME UNCHANGED config, NEW c \in Calls,
         source'[c] = source[c], fmt'[c] = fmt[c]
  PROVE  Read(c)' = Read(c) /\ Wanted(c)' = Wanted(c)
<1>1. dialect' = dialect /\ limit' = limit
  BY DEF config
<1>2. \A s, start : Fitting(s, start)' = Fitting(s, start)
  BY <1>1 DEF Fitting
<1>3. Read(c)' = Read(c)
  BY <1>1, <1>2 DEF Read
<1> QED
  BY <1>2, <1>3 DEF Wanted

-----------------------------------------------------------------------------
(* Steps *)

\* A step of Next is a step of call c.
Moves(c) ==
  \/ \E s \in Sources :
       \/ \E f \in Formats, name \in Names \cup {NoName} : Invoke(c, s, f, name)
       \/ InvokeAggregate(c, s)
  \/ Step(c)

\* A step that leaves call d alone.
Same(d) ==
  /\ at'[d] = at[d] /\ thread'[d] = thread[d] /\ source'[d] = source[d]
  /\ fmt'[d] = fmt[d] /\ path'[d] = path[d] /\ taken'[d] = taken[d]
  /\ left'[d] = left[d] /\ rows'[d] = rows[d] /\ truncated'[d] = truncated[d]
  /\ update'[d] = update[d] /\ reply'[d] = reply[d]

\* A file is stored by the call that steps, or none is.
LEMMA Frame ==
  ASSUME TypeOK, SourceInv, NEW c \in Calls, Moves(c)
  PROVE  /\ UNCHANGED config /\ UNCHANGED thread
         /\ \A d \in Calls \ {c} : Same(d)
         /\ UNCHANGED files \/ (Store(c) /\ UNCHANGED <<call, rows>>)
<1> USE DEF TypeOK, SourceInv, config, call, Same, Goto
<1>1. CASE \E s \in Sources :
             \/ \E f \in Formats, name \in Names \cup {NoName} : Invoke(c, s, f, name)
             \/ InvokeAggregate(c, s)
  BY <1>1 DEF Invoke, InvokeAggregate
<1>2. CASE Fetch(c)
  BY <1>2 DEF Fetch
<1>3. CASE Serialize(c)
  BY <1>3 DEF Serialize
<1>4. CASE SerializeAll(c)
  BY <1>4 DEF SerializeAll
<1>5. CASE StreamFails(c) \/ WriteFails(c) \/ CloseFails(c)
  BY <1>5 DEF StreamFails, WriteFails, CloseFails, Fails
<1>6. CASE Upload(c)
  BY <1>6 DEF Upload
<1>7. CASE WriteStored(c)
  BY <1>7 DEF WriteStored
<1>8. CASE WriteUpdate(c)
  BY <1>8 DEF WriteUpdate
<1>9. CASE OverflowFails(c)
  BY <1>9 DEF OverflowFails
<1>10. CASE PandasMissing(c)
  BY <1>10 DEF PandasMissing
<1>11. CASE Charge(c)
  BY <1>11 DEF Charge
<1>12. CASE Uncharged(c)
  BY <1>12 DEF Uncharged
<1>13. CASE Reply(c)
  BY <1>13 DEF Reply
<1> QED
  BY <1>1, <1>2, <1>3, <1>4, <1>5, <1>6, <1>7, <1>8, <1>9, <1>10, <1>11, <1>12, <1>13
     DEF Moves, Step

LEMMA SourceStep ==
  ASSUME TypeOK, SourceInv, NEW c \in Calls, Moves(c)
  PROVE  SourceInv'
<1> USE DEF SourceInv, Goto
<1>1. limit \in Limits
  BY DEF TypeOK
<1>2. DOMAIN files' = Places
  BY Frame DEF Store
<1>3. CASE \E s \in Sources :
             \/ \E f \in Formats, name \in Names \cup {NoName} : Invoke(c, s, f, name)
             \/ InvokeAggregate(c, s)
  BY <1>2, <1>3 DEF Invoke, InvokeAggregate
<1>4. CASE Fetch(c)
  <2>1. /\ Reading(JsonSizes(source[c]), 0).n \in Nat /\ Len(source[c]) \in Nat
    BY <1>1, Readings
  <2> QED
    BY <1>2, <1>4, <2>1 DEF Fetch, call
<1>5. CASE Serialize(c)
  <2>1. taken[c] \in 0 .. Len(source[c])
    BY DEF TypeOK
  <2>2. Reading(CsvSizes(SubSeq(source[c], 1, taken[c])), Header).n \in Nat
    BY <1>1, <2>1, Readings
  <2> QED
    BY <1>2, <1>5, <2>2 DEF Serialize, call
<1>6. CASE SerializeAll(c)
  BY <1>2, <1>6 DEF SerializeAll, call
<1>7. CASE UNCHANGED <<source, taken, rows>>
  BY <1>2, <1>7
<1> QED
  BY <1>3, <1>4, <1>5, <1>6, <1>7
     DEF Moves, Step, StreamFails, WriteFails, CloseFails, Fails, Upload, WriteStored,
         WriteUpdate, OverflowFails, PandasMissing, Charge, Uncharged, Reply, call

LEMMA RowsStep ==
  ASSUME TypeOK, SourceInv, RowsInv, NEW c \in Calls, Moves(c)
  PROVE  RowsInv'
<1>1. /\ UNCHANGED config /\ dialect' = dialect
      /\ \A d \in Calls \ {c} : Same(d)
  BY Frame DEF config
<1>2. ASSUME NEW d \in Calls, d # c PROVE RowsOf(d)'
  <2>1. Same(d) /\ RowsOf(d)
    BY <1>1, <1>2 DEF RowsInv
  <2>2. Read(d)' = Read(d) /\ Wanted(d)' = Wanted(d)
    BY <1>1, <2>1, SameRows DEF Same
  <2> QED
    BY <1>1, <2>1, <2>2 DEF RowsOf, Same
<1>3. RowsOf(c)'
  <2>1. RowsOf(c)
    BY DEF RowsInv
  <2>2. limit \in Limits /\ taken[c] \in 0 .. Len(source[c])
    BY DEF TypeOK
  <2>3. source'[c] = source[c] /\ fmt'[c] = fmt[c] =>
          Read(c)' = Read(c) /\ Wanted(c)' = Wanted(c)
    BY <1>1, SameRows
  <2>4. /\ Len(source[c]) \in Nat /\ Read(c) \in 0 .. Len(source[c])
    BY <2>2, Readings
  <2>5. c \in DOMAIN at /\ c \in DOMAIN reply /\ c \in DOMAIN left /\ c \in DOMAIN truncated
        /\ c \in DOMAIN taken /\ c \in DOMAIN rows /\ c \in DOMAIN fmt /\ c \in DOMAIN source
    BY DEF TypeOK, SourceInv
  <2> USE <2>5 DEF Goto
  <2>6. CASE \E s \in Sources, f \in Formats, name \in Names \cup {NoName} :
               Invoke(c, s, f, name)
    <3>1. PICK s \in Sources, f \in Formats, name \in Names \cup {NoName} :
                 Invoke(c, s, f, name)
      BY <2>6
    <3>2. fmt'[c] # "json" /\ at'[c] = "fetch" /\ at[c] = "idle"
      BY <3>1 DEF Invoke, Formats
    <3> QED
      BY <2>1, <3>1, <3>2 DEF RowsOf, Invoke
  <2>7. CASE \E s \in Sources : InvokeAggregate(c, s)
    BY <1>1, <2>1, <2>7 DEF RowsOf, InvokeAggregate, Invoke
  <2>8. CASE Fetch(c)
    <3>1. LET r == Reading(JsonSizes(source[c]), 0) IN
            /\ r.n = Fitting(JsonSizes(source[c]), 0) /\ r.n \in 0 .. Len(source[c])
            /\ r.cut \in BOOLEAN /\ (r.cut <=> r.n < Len(source[c]))
      BY <2>2, Readings
    <3>2. taken'[c] = Read(c) /\ (left'[c] <=> taken'[c] < Len(source[c]))
      <4>1. CASE dialect = "documents"
        <5>1. taken'[c] = Reading(JsonSizes(source[c]), 0).n
              /\ left'[c] = Reading(JsonSizes(source[c]), 0).cut
          BY <2>8, <3>1, <4>1 DEF Fetch
        <5> QED
          BY <3>1, <4>1, <5>1 DEF Read
      <4>2. CASE dialect # "documents"
        <5>1. taken'[c] = Len(source[c]) /\ left'[c] = FALSE
          BY <2>8, <4>2 DEF Fetch
        <5> QED
          BY <2>4, <4>2, <5>1 DEF Read
      <4> QED
        BY <4>1, <4>2
    <3>3. /\ at[c] = "fetch" /\ at'[c] = "serialize" /\ rows'[c] = rows[c]
          /\ truncated'[c] = truncated[c] /\ reply'[c] = reply[c]
          /\ source'[c] = source[c] /\ fmt'[c] = fmt[c]
      BY <2>8 DEF Fetch, call
    <3> QED
      BY <1>1, <2>1, <2>3, <3>2, <3>3 DEF RowsOf
  <2>9. CASE Serialize(c)
    <3>1. LET r == Reading(CsvSizes(SubSeq(source[c], 1, taken[c])), Header) IN
            /\ r.n = Smaller(taken[c], Fitting(CsvSizes(source[c]), Header))
            /\ r.cut \in BOOLEAN /\ (r.cut <=> r.n < taken[c])
      BY <2>2, Readings
    <3>2. taken[c] = Read(c) /\ fmt[c] # "json"
      BY <2>1, <2>9 DEF Serialize, RowsOf
    <3>3. rows'[c] = Wanted(c) /\ (truncated'[c] <=> rows'[c] < taken[c])
      BY <2>9, <3>1, <3>2 DEF Serialize, Wanted
    <3>4. /\ at[c] = "serialize" /\ at'[c] = "write" /\ taken'[c] = taken[c]
          /\ left'[c] = left[c] /\ reply'[c] = reply[c]
          /\ source'[c] = source[c] /\ fmt'[c] = fmt[c]
      BY <2>9 DEF Serialize, call
    <3> QED
      BY <1>1, <2>1, <2>3, <3>3, <3>4 DEF RowsOf
  <2>10. CASE SerializeAll(c)
    <3>1. taken[c] = Read(c) /\ dialect = "search" /\ Wanted(c) = Len(source[c])
      BY <2>1, <2>10 DEF SerializeAll, RowsOf, Wanted
    <3>2. rows'[c] = Wanted(c) /\ rows'[c] = taken[c]
      BY <2>10, <3>1 DEF SerializeAll, Read
    <3>3. /\ at[c] = "serialize" /\ at'[c] = "write" /\ taken'[c] = taken[c]
          /\ left'[c] = left[c] /\ reply'[c] = reply[c] /\ truncated'[c] = truncated[c]
          /\ source'[c] = source[c] /\ fmt'[c] = fmt[c]
      BY <2>10 DEF SerializeAll, call
    <3> QED
      BY <1>1, <2>1, <2>2, <2>3, <2>4, <3>2, <3>3 DEF RowsOf
  <2>11. CASE Upload(c) \/ WriteStored(c) \/ WriteUpdate(c)
    <3>1. /\ at[c] = "write" /\ at'[c] = "charge" /\ taken'[c] = taken[c] /\ rows'[c] = rows[c]
          /\ left'[c] = left[c] /\ truncated'[c] = truncated[c] /\ reply'[c] = reply[c]
          /\ source'[c] = source[c] /\ fmt'[c] = fmt[c]
      BY <2>11 DEF Upload, WriteStored, WriteUpdate, call
    <3> QED
      BY <1>1, <2>1, <2>3, <3>1 DEF RowsOf
  <2>12. CASE Charge(c)
    <3>1. /\ at[c] = "charge" /\ at'[c] \in {"reply", "done"} /\ taken'[c] = taken[c]
          /\ rows'[c] = rows[c] /\ left'[c] = left[c]
          /\ truncated'[c] = (truncated[c] \/ left[c])
          /\ reply'[c] \in {reply[c], "budget_block"}
          /\ reply'[c] = "budget_block" => at'[c] = "done"
          /\ source'[c] = source[c] /\ fmt'[c] = fmt[c]
      BY <2>1, <2>12 DEF Charge, call, RowsOf
    <3>2. taken[c] \in 0 .. Len(source[c]) /\ rows[c] \in 0 .. taken[c]
      BY DEF TypeOK
    <3>3. truncated'[c] <=> rows[c] < Len(source[c])
      <4>1. /\ truncated[c] <=> rows[c] < taken[c]
            /\ left[c] <=> taken[c] < Len(source[c])
        BY <2>1, <3>1 DEF RowsOf
      <4>2. taken[c] \in Nat /\ taken[c] <= Len(source[c])
            /\ rows[c] \in Nat /\ rows[c] <= taken[c]
        BY <2>4, <3>2
      <4>3. truncated[c] \in BOOLEAN /\ left[c] \in BOOLEAN
        BY DEF TypeOK
      <4> QED
        BY <2>4, <3>1, <4>1, <4>2, <4>3
    <3> QED
      BY <1>1, <2>1, <2>3, <3>1, <3>3 DEF RowsOf
  <2>17. CASE Uncharged(c)
    <3>1. /\ at[c] = "charge" /\ at'[c] = "reply" /\ taken'[c] = taken[c] /\ rows'[c] = rows[c]
          /\ left'[c] = left[c] /\ truncated'[c] = truncated[c] /\ reply'[c] = reply[c]
          /\ source'[c] = source[c] /\ fmt'[c] = fmt[c] /\ fmt[c] = "json"
      BY <2>17 DEF Uncharged, call
    <3>2. dialect = "search" /\ taken[c] = Len(source[c])
      BY <2>1, <3>1 DEF RowsOf, Read
    <3> QED
      BY <1>1, <2>1, <2>3, <3>1, <3>2 DEF RowsOf
  <2>13. CASE Reply(c)
    BY <1>1, <2>1, <2>3, <2>13 DEF RowsOf, Reply, call
  <2>14. CASE Fails(c, "serialize") \/ Fails(c, "write") \/ Fails(c, "charge")
    <3>1. /\ at[c] \in {"serialize", "write", "charge"} /\ at'[c] = "done"
          /\ reply'[c] # "saved" /\ fmt'[c] = fmt[c]
      BY <2>14 DEF Fails, call
    <3> QED
      BY <1>1, <2>1, <3>1 DEF RowsOf
  <2>15. CASE OverflowFails(c) \/ PandasMissing(c)
    <3>1. at[c] = "write" /\ at'[c] = "done" /\ reply'[c] # "saved" /\ fmt'[c] = fmt[c]
      BY <2>15 DEF OverflowFails, PandasMissing, call
    <3> QED
      BY <1>1, <2>1, <3>1 DEF RowsOf
  <2>16. CASE StreamFails(c) \/ WriteFails(c) \/ CloseFails(c)
    BY <2>14, <2>16 DEF StreamFails, WriteFails, CloseFails
  <2> QED
    BY <2>6, <2>7, <2>8, <2>9, <2>10, <2>11, <2>12, <2>13, <2>15, <2>16, <2>17
       DEF Moves, Step
<1> QED
  BY <1>2, <1>3 DEF RowsInv

LEMMA FilesStep ==
  ASSUME TypeOK, SourceInv, RowsInv, FilesInv, NEW c \in Calls, Moves(c)
  PROVE  FilesInv'
<1>1. /\ UNCHANGED config /\ UNCHANGED thread /\ backend' = backend
      /\ \A d \in Calls \ {c} : Same(d)
      /\ UNCHANGED files \/ (Store(c) /\ UNCHANGED <<call, rows>>)
  BY Frame DEF config
<1>2. \A d \in Calls : Place(d)' = Place(d)
  BY <1>1 DEF Place
\* A call whose file is stored keeps its rows, and is told so if an update did it.
<1>3. ASSUME at[c] \in {"charge", "reply", "done"}
      PROVE  /\ at'[c] \in {"charge", "reply", "done"}
             /\ path'[c] = path[c] /\ source'[c] = source[c] /\ fmt'[c] = fmt[c]
             /\ rows'[c] = rows[c]
             /\ reply[c] = "saved" => reply'[c] = "saved"
  <2>1. c \in DOMAIN at /\ c \in DOMAIN reply
    BY DEF TypeOK
  <2>2. at[c] # "done" /\ at[c] \notin {"idle", "fetch", "serialize", "write"}
    BY <1>3 DEF Moves, Step, Invoke, InvokeAggregate, Fetch, Serialize, SerializeAll,
                StreamFails, WriteFails, CloseFails, Fails, Upload, WriteStored,
                WriteUpdate, OverflowFails, PandasMissing, Charge, Uncharged, Reply, Goto
  <2>3. reply[c] = "none"
    BY <2>2 DEF RowsInv, RowsOf
  <2>4. CASE Fails(c, "charge")
    BY <2>1, <2>3, <2>4 DEF Fails, Goto, call
  <2>5. CASE Charge(c) \/ Uncharged(c) \/ Reply(c)
    BY <2>1, <2>3, <2>5 DEF Charge, Uncharged, Reply, Goto, call
  <2> QED
    BY <2>2, <2>4, <2>5
       DEF Moves, Step, Invoke, InvokeAggregate, Fetch, Serialize, SerializeAll,
           StreamFails, WriteFails, CloseFails, Fails, Upload, WriteStored,
           WriteUpdate, OverflowFails, PandasMissing, Goto
\* A file that was there is still as it should be.
<1>4. ASSUME NEW p \in Places, NEW f, NEW e, FileOf(p, f, e)
      PROVE  FileOf(p, f, e)'
  <2>1. e.by \in Calls
    BY <1>4 DEF FileOf, File
  <2>2. CASE e.by # c
    <3>1. Same(e.by)
      BY <1>1, <2>1, <2>2
    <3>2. Wanted(e.by)' = Wanted(e.by)
      BY <1>1, <2>1, <3>1, SameRows DEF Same
    <3> QED
      BY <1>1, <1>2, <1>4, <2>1, <3>1, <3>2 DEF FileOf, Same
  <2>3. CASE e.by = c
    <3>1. at[c] \in {"charge", "reply", "done"}
      BY <1>4, <2>3 DEF FileOf
    <3>2. Wanted(c)' = Wanted(c)
      BY <1>1, <1>3, <3>1, SameRows
    <3> QED
      BY <1>1, <1>2, <1>3, <1>4, <2>3, <3>1, <3>2 DEF FileOf
  <2> QED
    BY <2>2, <2>3
<1>5. CASE UNCHANGED files
  <2>1. ASSUME NEW p \in Places, NEW f \in DOMAIN files[p]
        PROVE  \A e : e = files[p][f] => FileOf(p, f, e)'
    BY <1>4 DEF FilesInv
  <2> QED
    BY <1>5, <2>1 DEF FilesInv, FileOf
<1>6. CASE Upload(c) \/ WriteStored(c) \/ (Reply(c) /\ update[c])
  <2>1. /\ Store(c) /\ at'[c] \in {"charge", "done"} /\ path'[c] = path[c]
        /\ source'[c] = source[c] /\ fmt'[c] = fmt[c] /\ rows'[c] = rows[c]
        /\ fmt[c] \in {"csv", "json"} /\ backend = "update" => reply'[c] = "saved"
    BY <1>6 DEF Upload, WriteStored, Reply, Goto, call, TypeOK
  <2>2. rows[c] = Wanted(c) /\ rows[c] \in Nat
    BY <1>6 DEF RowsInv, RowsOf, SourceInv, Upload, WriteStored, Reply, Goto
  <2>3. Wanted(c)' = Wanted(c)
    BY <1>1, <2>1, SameRows
  <2> DEFINE new == [by |-> c, rows |-> rows[c]]
  <2>4. PICK e0 : e0 = new
    OBVIOUS
  <2>5. FileOf(Place(c), path[c], e0)'
    BY <1>1, <2>1, <2>2, <2>3, <2>4 DEF FileOf, File
  <2>6. ASSUME NEW p \in Places, NEW f \in DOMAIN files'[p]
        PROVE  \A e : e = files'[p][f] => FileOf(p, f, e)'
    <3>1. CASE p = Place(c) /\ f = path[c]
      <4>1. files'[p][f] = e0
        BY <2>1, <2>4, <3>1 DEF Store, WithFile, SourceInv
      <4> QED
        BY <1>2, <2>1, <2>5, <3>1, <4>1 DEF FileOf
    <3>2. CASE ~(p = Place(c) /\ f = path[c])
      <4>1. f \in DOMAIN files[p] /\ files'[p][f] = files[p][f]
        BY <2>1, <3>2 DEF Store, WithFile, SourceInv
      <4> QED
        BY <1>4, <4>1 DEF FilesInv
    <3> QED
      BY <3>1, <3>2
  <2> QED
    BY <2>6 DEF FilesInv, FileOf
<1> QED
  BY <1>5, <1>6
     DEF Moves, Step, Invoke, InvokeAggregate, Fetch, Serialize, SerializeAll, StreamFails,
         WriteFails, CloseFails, Fails, WriteUpdate, OverflowFails, PandasMissing, Charge,
         Uncharged, Reply

LEMMA StoredStep ==
  ASSUME TypeOK, SourceInv, RowsInv, StoredInv, NEW c \in Calls, Moves(c)
  PROVE  StoredInv'
<1>1. /\ UNCHANGED config /\ UNCHANGED thread
      /\ \A d \in Calls \ {c} : Same(d)
      /\ UNCHANGED files \/ (Store(c) /\ UNCHANGED <<call, rows>>)
  BY Frame
<1>2. \A d \in Calls : Place(d)' = Place(d) /\ Place(d) \in Places
  BY <1>1 DEF Place, config, TypeOK, Places
\* No file is ever removed.
<1>3. ASSUME NEW p \in Places PROVE DOMAIN files[p] \subseteq DOMAIN files'[p]
  <2>1. CASE Store(c) /\ p = Place(c)
    <3>1. files'[p] = WithFile(files[p], path[c], [by |-> c, rows |-> rows[c]])
      BY <2>1 DEF Store, SourceInv
    <3> QED
      BY <3>1 DEF WithFile
  <2>2. CASE Store(c) /\ p # Place(c)
    BY <2>2 DEF Store
  <2> QED
    BY <1>1, <2>1, <2>2
<1>4. ASSUME NEW d \in Calls, path'[d] = path[d], Exists(d) PROVE Exists(d)'
  BY <1>2, <1>3, <1>4 DEF Exists
<1>5. ASSUME NEW d \in Calls, d # c PROVE StoredOf(d)'
  <2>1. Same(d) /\ StoredOf(d)
    BY <1>1, <1>5 DEF StoredInv
  <2> QED
    BY <1>4, <2>1 DEF StoredOf, Same
<1>6. StoredOf(c)'
  <2>1. StoredOf(c) /\ RowsOf(c)
    BY DEF StoredInv, RowsInv
  <2>2. /\ c \in DOMAIN at /\ c \in DOMAIN reply /\ c \in DOMAIN path
        /\ c \in DOMAIN update
    BY DEF TypeOK
  <2>3. Store(c) /\ path'[c] = path[c] => Exists(c)'
    BY <1>2 DEF Store, WithFile, SourceInv, Exists
  <2>4. CASE \E s \in Sources, f \in Formats \cup {"json"}, name \in Names \cup {NoName} :
               Invoke(c, s, f, name)
    <3>1. /\ path'[c] \in Names \cup {c} /\ at[c] = "idle" /\ at'[c] = "fetch"
          /\ update'[c] = update[c] /\ reply'[c] = reply[c]
      BY <2>2, <2>4 DEF Invoke, Path, Goto
    <3> QED
      BY <2>1, <3>1 DEF StoredOf, RowsOf
  <2>5. CASE Fetch(c) \/ Serialize(c) \/ SerializeAll(c)
    <3>1. /\ at[c] \in {"fetch", "serialize"} /\ at'[c] \in {"serialize", "write"}
          /\ path'[c] = path[c] /\ update'[c] = update[c] /\ reply'[c] = reply[c]
      BY <2>2, <2>5 DEF Fetch, Serialize, SerializeAll, Goto, call
    <3> QED
      BY <2>1, <3>1 DEF StoredOf, RowsOf
  <2>6. CASE Upload(c) \/ WriteStored(c)
    <3>1. /\ at[c] = "write" /\ at'[c] = "charge" /\ Store(c)
          /\ path'[c] = path[c] /\ update'[c] = update[c] /\ reply'[c] = reply[c]
      BY <2>2, <2>6 DEF Upload, WriteStored, Goto, call
    <3> QED
      BY <2>1, <2>3, <3>1 DEF StoredOf, RowsOf
  <2>7. CASE WriteUpdate(c)
    <3>1. /\ at[c] = "write" /\ at'[c] = "charge" /\ update'[c] = TRUE
          /\ path'[c] = path[c] /\ reply'[c] = reply[c]
      BY <2>2, <2>7 DEF WriteUpdate, Goto, call
    <3> QED
      BY <2>1, <3>1 DEF StoredOf, RowsOf
  <2>8. CASE Charge(c) \/ Uncharged(c)
    <3>1. /\ at[c] = "charge" /\ at'[c] \in {"reply", "done"} /\ reply'[c] # "saved"
          /\ path'[c] = path[c] /\ update'[c] = update[c]
      BY <2>1, <2>2, <2>8 DEF Charge, Uncharged, Goto, call, RowsOf
    <3> QED
      BY <1>4, <2>1, <3>1 DEF StoredOf
  <2>9. CASE Reply(c)
    <3>1. /\ at[c] = "reply" /\ at'[c] = "done" /\ update'[c] = update[c]
          /\ path'[c] = path[c] /\ (update[c] => Store(c))
      BY <2>2, <2>9 DEF Reply, Goto, call
    <3>2. Exists(c)'
      BY <1>4, <2>1, <2>3, <3>1 DEF StoredOf
    <3> QED
      BY <2>1, <3>1, <3>2 DEF StoredOf
  <2>10. CASE \/ Fails(c, "serialize") \/ Fails(c, "write") \/ Fails(c, "charge")
              \/ OverflowFails(c) \/ PandasMissing(c)
    <3>1. /\ at'[c] = "done" /\ update'[c] = update[c]
          /\ path'[c] = path[c] /\ reply'[c] # "saved"
      BY <2>2, <2>10 DEF Fails, OverflowFails, PandasMissing, Goto, call
    <3> QED
      BY <2>1, <3>1 DEF StoredOf
  <2>11. CASE \E s \in Sources : InvokeAggregate(c, s)
    BY <2>4, <2>11 DEF InvokeAggregate
  <2>12. CASE \E s \in Sources : \E f \in Formats, name \in Names \cup {NoName} :
                Invoke(c, s, f, name)
    BY <2>4, <2>12
  <2> QED
    BY <2>5, <2>6, <2>7, <2>8, <2>9, <2>10, <2>11, <2>12
       DEF Moves, Step, StreamFails, WriteFails, CloseFails
<1> QED
  BY <1>5, <1>6 DEF StoredInv

LEMMA TypeStep ==
  ASSUME TypeOK, SourceInv, RowsInv, StoredInv, SourceInv', FilesInv',
         NEW c \in Calls, Moves(c)
  PROVE  TypeOK'
<1> USE DEF Goto
<1>1. /\ UNCHANGED config /\ UNCHANGED thread
      /\ \A d \in Calls \ {c} : Same(d)
  BY Frame
<1>2. /\ dialect' \in Dialects /\ backend' \in Backends /\ overwrites' \in BOOLEAN
      /\ limit' \in Limits /\ thread' \in [Calls -> Threads]
  BY <1>1 DEF TypeOK, config
<1> DEFINE Types ==
             /\ at' \in [Calls -> {"idle", "fetch", "serialize", "write", "charge", "reply",
                                  "done"}]
             /\ fmt' \in [Calls -> Formats \cup {"json"}]
             /\ path' \in [Calls -> Paths]
             /\ left' \in [Calls -> BOOLEAN] /\ truncated' \in [Calls -> BOOLEAN]
             /\ update' \in [Calls -> BOOLEAN]
             /\ reply' \in [Calls -> {"none", "saved", "preview", "budget_block",
                                     "query_error", "raised"}]
           Own ==
             /\ at'[c] # "idle" /\ source'[c] \in Sources
             /\ taken'[c] \in 0 .. Len(source'[c]) /\ rows'[c] \in 0 .. taken'[c]
             /\ update'[c] => fmt'[c] \in {"csv", "json"} /\ backend' = "update"
<1>3. /\ limit \in Limits /\ backend' = backend
      /\ taken[c] \in 0 .. Len(source[c]) /\ rows[c] \in 0 .. taken[c]
      /\ at[c] # "idle" => source[c] \in Sources
      /\ update[c] => fmt[c] \in {"csv", "json"} /\ backend = "update"
      /\ at[c] = "idle" => taken[c] = 0 /\ rows[c] = 0 /\ ~update[c]
      /\ at[c] \in {"idle", "fetch", "serialize"} => rows[c] = 0
      /\ Len(source[c]) \in Nat /\ \A s \in Sources : Len(s) \in Nat
  <2>1. Len(source[c]) \in Nat
    BY Readings DEF TypeOK
  <2>2. \A s \in Sources : Len(s) \in Nat
    BY Sizes
  <2> QED
    BY <1>1, <2>1, <2>2 DEF TypeOK, RowsInv, RowsOf, StoredInv, StoredOf, config
<1>4. ASSUME NEW s \in Sources, NEW f \in Formats \cup {"json"},
             NEW name \in Names \cup {NoName}, Invoke(c, s, f, name)
      PROVE  Types /\ Own
  <2>1. Path(c, name) \in Paths
    BY DEF Path, Paths
  <2>2. Types
    BY <1>4, <2>1 DEF Invoke, TypeOK
  <2>3. /\ at[c] = "idle" /\ at'[c] = "fetch" /\ source'[c] = s
        /\ taken'[c] = taken[c] /\ rows'[c] = rows[c] /\ update'[c] = update[c]
    BY <1>4 DEF Invoke, TypeOK, SourceInv
  <2> QED
    BY <1>3, <2>2, <2>3
<1>5. ASSUME Fetch(c) PROVE Types /\ Own
  <2> DEFINE r == Reading(JsonSizes(source[c]), 0)
  <2>1. r.n \in 0 .. Len(source[c]) /\ r.cut \in BOOLEAN
    BY <1>3, Readings
  <2> HIDE DEF r
  <2>2. /\ taken' = [taken EXCEPT ![c] = IF dialect = "documents" THEN r.n ELSE Len(source[c])]
        /\ left' = [left EXCEPT ![c] = dialect = "documents" /\ r.cut]
        /\ at[c] = "fetch" /\ at' = [at EXCEPT ![c] = "serialize"]
        /\ UNCHANGED <<call, rows, truncated, update, reply>>
    BY <1>5 DEF Fetch, r
  <2>3. Types
    BY <2>1, <2>2 DEF TypeOK, call
  <2>4. Own
    <3>1. taken'[c] \in 0 .. Len(source[c])
      BY <1>3, <2>1, <2>2 DEF SourceInv
    <3>2. /\ at'[c] = "serialize" /\ source'[c] = source[c] /\ rows'[c] = 0
          /\ fmt'[c] = fmt[c] /\ update'[c] = update[c]
      BY <1>3, <2>2 DEF TypeOK, call
    <3> QED
      BY <1>3, <2>2, <3>1, <3>2
  <2> QED
    BY <2>3, <2>4
<1>6. ASSUME Serialize(c) PROVE Types /\ Own
  <2> DEFINE r == Reading(CsvSizes(SubSeq(source[c], 1, taken[c])), Header)
  <2>1. r.n \in 0 .. taken[c] /\ r.cut \in BOOLEAN
    BY <1>3, Readings
  <2> HIDE DEF r
  <2>2. /\ rows' = [rows EXCEPT ![c] = r.n] /\ truncated' = [truncated EXCEPT ![c] = r.cut]
        /\ at[c] = "serialize" /\ at' = [at EXCEPT ![c] = "write"]
        /\ UNCHANGED <<call, taken, left, update, reply>>
    BY <1>6 DEF Serialize, r
  <2>3. Types
    BY <2>1, <2>2 DEF TypeOK, call
  <2>4. Own
    <3>1. /\ at'[c] = "write" /\ source'[c] = source[c] /\ rows'[c] = r.n
          /\ taken'[c] = taken[c] /\ fmt'[c] = fmt[c] /\ update'[c] = update[c]
      BY <2>2 DEF TypeOK, SourceInv, call
    <3> QED
      BY <1>3, <2>1, <2>2, <3>1
  <2> QED
    BY <2>3, <2>4
<1>7. ASSUME SerializeAll(c) PROVE Types /\ Own
  <2>1. Types
    BY <1>7 DEF SerializeAll, TypeOK, call
  <2>2. /\ at[c] = "serialize" /\ at'[c] = "write" /\ source'[c] = source[c]
        /\ rows'[c] = taken[c] /\ taken'[c] = taken[c] /\ fmt'[c] = fmt[c]
        /\ update'[c] = update[c]
    BY <1>7 DEF SerializeAll, TypeOK, SourceInv, call
  <2>3. taken[c] \in 0 .. taken[c]
    BY <1>3
  <2> QED
    BY <1>3, <2>1, <2>2, <2>3
<1>8. ASSUME Upload(c) \/ WriteStored(c) \/ Uncharged(c) \/ Reply(c) PROVE Types /\ Own
  <2>1. Types
    BY <1>8 DEF Upload, WriteStored, Uncharged, Reply, TypeOK, call
  <2>2. /\ at[c] # "idle" /\ at'[c] # "idle" /\ source'[c] = source[c]
        /\ rows'[c] = rows[c] /\ taken'[c] = taken[c] /\ fmt'[c] = fmt[c]
        /\ update'[c] = update[c]
    BY <1>8 DEF Upload, WriteStored, Uncharged, Reply, TypeOK, call
  <2> QED
    BY <1>3, <2>1, <2>2
<1>9. ASSUME WriteUpdate(c) PROVE Types /\ Own
  <2>1. Types
    BY <1>9 DEF WriteUpdate, TypeOK, call
  <2>2. /\ at[c] # "idle" /\ at'[c] # "idle" /\ source'[c] = source[c]
        /\ rows'[c] = rows[c] /\ taken'[c] = taken[c]
        /\ fmt'[c] \in {"csv", "json"} /\ backend = "update"
    BY <1>9 DEF WriteUpdate, TypeOK, call
  <2> QED
    BY <1>3, <2>1, <2>2
<1>10. ASSUME Charge(c) PROVE Types /\ Own
  <2>1. Types
    BY <1>10 DEF Charge, TypeOK, call
  <2>2. /\ at[c] # "idle" /\ at'[c] # "idle" /\ source'[c] = source[c]
        /\ rows'[c] = rows[c] /\ taken'[c] = taken[c] /\ fmt'[c] = fmt[c]
        /\ update'[c] = update[c]
    BY <1>10 DEF Charge, TypeOK, call
  <2> QED
    BY <1>3, <2>1, <2>2
<1>11. ASSUME \/ Fails(c, "serialize") \/ Fails(c, "write") \/ Fails(c, "charge")
              \/ OverflowFails(c) \/ PandasMissing(c)
       PROVE  Types /\ Own
  <2>1. Types
    BY <1>11 DEF Fails, OverflowFails, PandasMissing, TypeOK, call
  <2>2. /\ at[c] # "idle" /\ at'[c] # "idle" /\ source'[c] = source[c]
        /\ rows'[c] = rows[c] /\ taken'[c] = taken[c] /\ fmt'[c] = fmt[c]
        /\ update'[c] = update[c]
    BY <1>11 DEF Fails, OverflowFails, PandasMissing, TypeOK, call
  <2> QED
    BY <1>3, <2>1, <2>2
<1> HIDE DEF Types, Own
<1>12. Types /\ Own
  <2>1. CASE \E s \in Sources : InvokeAggregate(c, s)
    BY <1>4, <2>1 DEF InvokeAggregate
  <2>2. CASE \E s \in Sources : \E f \in Formats, name \in Names \cup {NoName} :
               Invoke(c, s, f, name)
    BY <1>4, <2>2
  <2> QED
    BY <1>5, <1>6, <1>7, <1>8, <1>9, <1>10, <1>11, <2>1, <2>2
       DEF Moves, Step, StreamFails, WriteFails, CloseFails
<1>13. path' \in [Calls -> Paths]
  BY <1>12 DEF Types
<1>14. \A p \in Places : \A f \in DOMAIN files'[p] : f \in Paths /\ files'[p][f] \in File
  BY <1>13 DEF FilesInv, FileOf, File
<1>15. ASSUME NEW d \in Calls
       PROVE  /\ at'[d] # "idle" => source'[d] \in Sources
              /\ taken'[d] \in 0 .. Len(source'[d]) /\ rows'[d] \in 0 .. taken'[d]
              /\ update'[d] => fmt'[d] \in {"csv", "json"} /\ backend' = "update"
  <2>1. CASE d = c
    BY <1>12, <2>1 DEF Own
  <2>2. CASE d # c
    BY <1>1, <1>3, <2>2 DEF Same, TypeOK
  <2> QED
    BY <2>1, <2>2
<1> QED
  BY <1>2, <1>12, <1>14, <1>15 DEF TypeOK, Types

-----------------------------------------------------------------------------
(* The invariant *)

LEMMA InitInv ==
  ASSUME Init
  PROVE  MaterializeInv
<1> USE MaterializeAssumption DEF Init
<1>1. SourceInv
  BY DEF SourceInv
<1>2. TypeOK
  <2>1. Len(<< >>) = 0 /\ 0 \in 0 .. 0
    OBVIOUS
  <2>2. path \in [Calls -> Paths]
    BY DEF Paths
  <2> QED
    BY <2>1, <2>2 DEF TypeOK, Formats
<1>3. RowsInv
  BY DEF RowsInv, RowsOf
<1>4. FilesInv
  BY DEF FilesInv
<1>5. StoredInv
  BY DEF StoredInv, StoredOf
<1> QED
  BY <1>1, <1>2, <1>3, <1>4, <1>5 DEF MaterializeInv

LEMMA NextInv ==
  ASSUME MaterializeInv, [Next]_vars
  PROVE  MaterializeInv'
<1> USE DEF MaterializeInv
<1>1. CASE Next
  <2>1. PICK c \in Calls : Moves(c)
    BY <1>1 DEF Next, Moves
  <2>2. SourceInv'
    BY <2>1, SourceStep
  <2>3. RowsInv'
    BY <2>1, RowsStep
  <2>4. FilesInv'
    BY <2>1, FilesStep
  <2>5. StoredInv'
    BY <2>1, StoredStep
  <2>6. TypeOK'
    BY <2>1, <2>2, <2>4, TypeStep
  <2> QED
    BY <2>2, <2>3, <2>4, <2>5, <2>6
<1>2. CASE UNCHANGED vars
  <2> USE <1>2 DEF vars, config, call
  <2>1. TypeOK' /\ SourceInv'
    BY DEF TypeOK, SourceInv
  <2>2. \A c \in Calls : Read(c)' = Read(c) /\ Wanted(c)' = Wanted(c)
    BY SameRows
  <2>3. RowsInv'
    BY <2>2 DEF RowsInv, RowsOf
  <2>4. FilesInv'
    BY <2>2 DEF FilesInv, FileOf, File, Place
  <2>5. StoredInv'
    BY DEF StoredInv, StoredOf, Exists, Place
  <2> QED
    BY <2>1, <2>3, <2>4, <2>5
<1> QED
  BY <1>1, <1>2

LEMMA Invariant == Spec => []MaterializeInv
BY InitInv, NextInv, PTL DEF Spec

\* A call keeps to what can happen to it and reads no more than its result has,
\* and an update is handed back only by a backend that does that.
THEOREM TypeCorrect == Spec => []TypeOK
BY Invariant, PTL DEF MaterializeInv

\* Every file that is there, whichever call stored it and whenever, has the
\* rows from the first on that fit in max_materialized_bytes, all of them and
\* no others (take_within_bytes, materialize_result).
THEOREM FilesAreLongestPrefixes == Spec => []FileIsLongestPrefix
<1>1. MaterializeInv => FileIsLongestPrefix
  <2> SUFFICES ASSUME MaterializeInv,
                      NEW p \in Places, NEW f \in DOMAIN files[p],
                      fmt[files[p][f].by] # "json"
               PROVE  LET c == files[p][f].by
                          csv == Fitting(CsvSizes(source[c]), Header)
                          json == Fitting(JsonSizes(source[c]), 0)
                      IN  files[p][f].rows =
                            IF dialect = "documents" THEN Smaller(json, csv) ELSE csv
    BY DEF FileIsLongestPrefix
  <2> DEFINE c == files[p][f].by
             csv == Fitting(CsvSizes(source[c]), Header)
             json == Fitting(JsonSizes(source[c]), 0)
  <2>1. c \in Calls /\ files[p][f].rows = Wanted(c)
    BY DEF MaterializeInv, FilesInv, FileOf, File
  <2>2. Len(source[c]) \in Nat /\ csv \in 0 .. Len(source[c])
    BY <2>1, Readings DEF MaterializeInv, TypeOK
  <2> HIDE DEF csv, json
  <2>3. Wanted(c) = Smaller(Read(c), csv)
    BY DEF Wanted, csv
  <2>4. CASE dialect = "documents"
    BY <2>1, <2>3, <2>4 DEF Read, csv, json
  <2>5. CASE dialect # "documents"
    <3>1. Smaller(Len(source[c]), csv) = csv
      BY <2>2 DEF Smaller
    <3> QED
      BY <2>1, <2>3, <2>5, <3>1 DEF Read, csv
  <2> QED
    BY <2>4, <2>5
<1> QED
  BY <1>1, Invariant, PTL

\* A reply warns of missing rows if and only if rows are missing, whichever of
\* the two readings dropped them (to_summary).
THEOREM TruncationIsReported == Spec => []TruncationIsTold
<1>1. MaterializeInv => TruncationIsTold
  BY DEF MaterializeInv, RowsInv, RowsOf, TruncationIsTold, Saved
<1> QED
  BY <1>1, Invariant, PTL

\* The file of a reply is where the agent looks for it and has the rows that
\* the reply tells of, unless another call was given the same name; and no
\* update of a call that the budget blocked takes its place (write_command).
THEOREM FilesHoldReports == Spec => []FileHoldsReport
<1>1. MaterializeInv => FileHoldsReport
  <2> SUFFICES ASSUME MaterializeInv, NEW c \in Saved
               PROVE  /\ Exists(c)
                      /\ LET f == files[Place(c)][path[c]] IN
                           \/ f = [by |-> c, rows |-> rows[c]]
                           \/ /\ f.by # c
                              /\ path[c] \in Names
                              /\ fmt[f.by] = "csv" /\ backend = "update" => f.by \in Saved
    BY DEF FileHoldsReport
  <2>1. c \in Calls /\ Exists(c) /\ path[c] \in Names \cup {c}
    BY DEF MaterializeInv, StoredInv, StoredOf, Saved
  <2>2. Place(c) \in Places
    BY <2>1 DEF Place, Places, MaterializeInv, TypeOK
  <2> DEFINE f == files[Place(c)][path[c]]
  <2>3. FileOf(Place(c), path[c], f)
    BY <2>1, <2>2 DEF MaterializeInv, FilesInv, Exists
  <2>4. /\ f \in File /\ path[c] = path[f.by] /\ f.rows = rows[f.by]
        /\ fmt[f.by] = "csv" /\ backend = "update" => reply[f.by] = "saved"
    BY <2>3 DEF FileOf
  <2> HIDE DEF f
  <2>5. f.by \in Calls /\ f = [by |-> f.by, rows |-> f.rows]
    BY <2>4 DEF File
  <2>6. path[f.by] \in Names \cup {f.by}
    BY <2>5 DEF MaterializeInv, StoredInv, StoredOf
  <2>7. CASE f.by = c
    BY <2>1, <2>4, <2>5, <2>7 DEF f
  <2>8. CASE f.by # c
    <3>1. path[c] \in Names
      BY <2>1, <2>4, <2>6, <2>8
    <3> QED
      BY <2>1, <2>4, <2>5, <2>8, <3>1 DEF f, Saved
  <2> QED
    BY <2>7, <2>8
<1> QED
  BY <1>1, Invariant, PTL

=============================================================================
