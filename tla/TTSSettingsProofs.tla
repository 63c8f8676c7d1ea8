--------------------------- MODULE TTSSettingsProofs ---------------------------
(***************************************************************************)
(* The settings of TextToSpeech, and what it remembers of other plugins,   *)
(* are what they should be, whatever the clients ask for, in whatever      *)
(* order the calls, the downloader and the notifications come, and         *)
(* whenever the process dies.                                              *)
(*                                                                         *)
(* The settings: SettingsHold speaks of the manager at rest,               *)
(* StoreIsCurrent of a store that is whole, and neither is inductive.      *)
(* Control says which call holds _adminLock and where it is; Written, what *)
(* the store has while it is written and after; Copied, that the           *)
(* downloader's copy is of the manager's settings, but for what is due or  *)
(* not handed over; Audible, that the path leads to the text's audio also  *)
(* when the process leaves, is off and starts; Timely, that neither the    *)
(* store nor the copy, nor what a call is going to save, is of settings    *)
(* that were overwritten.                                                  *)
(*                                                                         *)
(* The caches: CachesExplained speaks of a cache at rest.  Tracked says    *)
(* what the thread that asks has in hand at each step; Delivered, that the *)
(* last of the notifications on their way is of what is true; Quiet, which *)
(* notifications can come while it asks; Excuses, why it may know that its *)
(* answer is old.                                                          *)
(*                                                                         *)
(* The requests: what is said is a text of any length, cleaned by two      *)
(* functions that call themselves last.  Such a function exists, whatever  *)
(* the calls do (TailRecursion), and what they keep, as they come nearer   *)
(* to an end, holds where they end (TailInvariant): Replaces and Passes    *)
(* say what a round of the first does, Keeps what the second keeps of the  *)
(* text it was given, and Number, how often it has a character, so that    *)
(* the n-th that is read out stays the n-th.                               *)
(***************************************************************************)
EXTENDS MCTTSSettings, TLAPS, FiniteSetTheorems, FunctionTheorems, SequenceTheorems,
        WellFoundedInduction

-------------------------------------------------------------------------------
(* Functions that call themselves last.                                    *)

\* A set of naturals has a least member.
LEMMA LeastOne ==
  ASSUME NEW S \in SUBSET Nat, S # {}
  PROVE  Min(S) \in S /\ \A x \in S : Min(S) <= x
<1> DEFINE Less == OpToRel(<, Nat)
<1>1. \A m, n \in Nat : m < n => <<m, n>> \in Less
  BY DEF OpToRel
<1> HIDE DEF Less
<1>2. IsWellFoundedOn(Less, Nat)
  BY NatLessThanWellFounded DEF Less
<1>3. PICK x \in S : \A y \in S : <<y, x>> \notin Less
  BY <1>2, WFMin
<1>4. ASSUME NEW y \in S PROVE x <= y
  <2>1. x \in Nat /\ y \in Nat /\ ~(y < x)
    BY <1>1, <1>3
  <2> QED
    BY <2>1
<1> QED
  BY <1>4 DEF Min

\* A function on D that ends in out at the members of Stop, and elsewhere is called again
\* with next
Loop(f, D, Stop, out, next) ==
    /\ Stop \in SUBSET D /\ next \in [D -> D] /\ f = [x \in D |-> f[x]]
    /\ \A x \in D : f[x] = IF x \in Stop THEN out[x] ELSE f[next[x]]

\* There is one: its value at x is that of out where the calls that x leads to end, if they do.
LEMMA TailRecursion ==
  ASSUME NEW D, NEW Stop \in SUBSET D, NEW out, NEW next \in [D -> D]
  PROVE  \E f : Loop(f, D, Stop, out, next)
<1> DEFINE Closed == {P \in SUBSET D : \A y \in P \ Stop : next[y] \in P}
           Ends(x) == {y \in Stop : \A P \in Closed : x \in P => y \in P}
           f == [x \in D |-> out[CHOOSE y \in Ends(x) : TRUE]]
<1>1. ASSUME NEW x \in Stop PROVE Ends(x) = {x}
  <2>1. {x} \in Closed
    OBVIOUS
  <2> QED
    BY <2>1
<1>2. ASSUME NEW x \in D \ Stop PROVE Ends(x) = Ends(next[x])
  <2>1. ASSUME NEW P \in Closed, x \in P PROVE next[x] \in P
    BY <2>1
  <2>2. ASSUME NEW P \in Closed, next[x] \in P PROVE P \cup {x} \in Closed
    BY <2>2
  <2>3. Ends(next[x]) \subseteq Ends(x)
    BY <2>1
  <2>4. ASSUME NEW y \in Ends(x), NEW P \in Closed, next[x] \in P PROVE y \in P
    <3>1. y \in P \cup {x}
      BY <2>2, <2>4
    <3> QED
      BY <3>1
  <2>5. Ends(x) \subseteq Ends(next[x])
    BY <2>4
  <2> QED
    BY <2>3, <2>5
<1>3. ASSUME NEW x \in D PROVE f[x] = IF x \in Stop THEN out[x] ELSE f[next[x]]
  <2>1. CASE x \in Stop
    <3>1. (CHOOSE y \in Ends(x) : TRUE) = x
      BY <1>1, <2>1
    <3> QED
      BY <2>1, <3>1
  <2>2. CASE x \notin Stop
    <3>1. Ends(x) = Ends(next[x]) /\ next[x] \in D
      BY <1>2, <2>2
    <3> HIDE DEF Ends
    <3> QED
      BY <2>2, <3>1
  <2> QED
    BY <2>1, <2>2
<1>4. f = [x \in D |-> f[x]]
  OBVIOUS
<1> HIDE DEF f
<1> QED
  BY <1>3, <1>4 DEF Loop

\* What the calls keep holds where they end, when each comes nearer to the end.
Kept(P, m, D, Stop, next) ==
    /\ P \in SUBSET D /\ m \in [D -> Nat]
    /\ \A x \in P \ Stop : next[x] \in P /\ m[next[x]] < m[x]

\* So P holds of the member of Stop whose out is the value.
LEMMA TailInvariant ==
  ASSUME NEW D, NEW Stop, NEW out, NEW next, NEW f, Loop(f, D, Stop, out, next),
         NEW P, NEW m, Kept(P, m, D, Stop, next), NEW x0 \in P
  PROVE  \E x \in P \cap Stop : f[x0] = out[x]
<1>0. /\ Stop \in SUBSET D /\ next \in [D -> D]
      /\ \A x \in D : f[x] = IF x \in Stop THEN out[x] ELSE f[next[x]]
      /\ P \in SUBSET D /\ m \in [D -> Nat]
      /\ \A x \in P \ Stop : next[x] \in P /\ m[next[x]] < m[x]
  BY DEF Loop, Kept
<1> DEFINE Bad == {x \in P : ~ \E y \in P \cap Stop : f[x] = out[y]}
           M == {m[x] : x \in Bad}
<1>1. SUFFICES ASSUME x0 \in Bad PROVE FALSE
  OBVIOUS
<1>2. M \in SUBSET Nat /\ M # {}
  BY <1>0, <1>1
<1>3. PICK x \in Bad : \A y \in Bad : m[x] <= m[y]
  <2>1. Min(M) \in M /\ \A k \in M : Min(M) <= k
    BY <1>2, LeastOne
  <2> HIDE DEF Bad
  <2>2. PICK x \in Bad : m[x] = Min(M)
    BY <2>1
  <2> QED
    BY <2>1, <2>2
<1>4. x \notin Stop /\ x \in P
  BY <1>0
<1>5. next[x] \in P /\ m[next[x]] < m[x] /\ f[x] = f[next[x]]
  BY <1>0, <1>4
<1>6. next[x] \notin Bad
  <2>1. m[next[x]] \in Nat /\ m[x] \in Nat
    BY <1>0, <1>4
  <2> QED
    BY <1>3, <1>5, <2>1
<1> QED
  BY <1>0, <1>4, <1>5, <1>6

-------------------------------------------------------------------------------
(* Counting the characters of a text.                                      *)

\* How many of the characters from a to b are in S
Number(t, S, a, b) == Cardinality({i \in a .. b : t[i] \in S})

\* It is a number.
LEMMA NumberType ==
  ASSUME NEW t, NEW S, NEW a \in Int, NEW b \in Int
  PROVE  IsFiniteSet({i \in a .. b : t[i] \in S}) /\ Number(t, S, a, b) \in Nat
<1>1. IsFiniteSet({i \in a .. b : t[i] \in S})
  BY FS_Interval, FS_Subset
<1> QED
  BY <1>1, FS_CardinalityType DEF Number

\* The numbers of two stretches add up.
LEMMA NumberAdds ==
  ASSUME NEW t, NEW S, NEW a \in Int, NEW b \in Int, NEW c \in Int, a - 1 <= b, b <= c
  PROVE  Number(t, S, a, c) = Number(t, S, a, b) + Number(t, S, b + 1, c)
<1> DEFINE A == {i \in a .. b : t[i] \in S}
           B == {i \in b + 1 .. c : t[i] \in S}
<1>1. {i \in a .. c : t[i] \in S} = A \cup B /\ A \cap B = {}
  OBVIOUS
<1>2. IsFiniteSet(A) /\ IsFiniteSet(B)
  <2>1. IsFiniteSet(a .. b) /\ IsFiniteSet(b + 1 .. c)
    BY FS_Interval
  <2>2. A \in SUBSET (a .. b) /\ B \in SUBSET (b + 1 .. c)
    OBVIOUS
  <2> HIDE DEF A, B
  <2> QED
    BY <2>1, <2>2, FS_Subset
<1>3. Number(t, S, a, b) = Cardinality(A) /\ Number(t, S, b + 1, c) = Cardinality(B)
  BY DEF Number
<1>4. Number(t, S, a, c) = Cardinality(A \cup B)
  BY <1>1 DEF Number
<1> HIDE DEF A, B
<1>5. Cardinality(A) \in Nat /\ Cardinality(B) \in Nat
  BY <1>2, FS_CardinalityType
<1>6. Cardinality(A \cup B) = Cardinality(A) + Cardinality(B) - Cardinality(A \cap B)
  BY <1>2, FS_Union
<1>7. Cardinality(A \cap B) = 0
  BY <1>1, FS_EmptySet
<1> QED
  BY <1>6, <1>7, <1>5, <1>3, <1>4

\* u has at i + d what t has at i.
Moved(t, u, a, b, d) == \A i \in a .. b : u[i + d] = t[i]

\* Characters that are moved are as many.
LEMMA NumberMoves ==
  ASSUME NEW t, NEW u, NEW S, NEW a \in Int, NEW b \in Int, NEW d \in Int,
         Moved(t, u, a, b, d)
  PROVE  Number(u, S, a + d, b + d) = Number(t, S, a, b)
<1> DEFINE A == {i \in a .. b : t[i] \in S}
           B == {i \in a + d .. b + d : u[i] \in S}
           f == [i \in A |-> i + d]
<1>1. f \in [A -> B]
  BY DEF Moved
<1>2. \A i, j \in A : f[i] = f[j] => i = j
  OBVIOUS
<1>3. ASSUME NEW j \in B PROVE \E i \in A : f[i] = j
  <2>1. j - d \in a .. b /\ (j - d) + d = j
    OBVIOUS
  <2>2. j - d \in A
    BY <2>1 DEF Moved
  <2> QED
    BY <2>1, <2>2
<1> HIDE DEF f, A, B
<1>4. ExistsBijection(A, B)
  BY <1>1, <1>2, <1>3 DEF ExistsBijection, Bijection, Injection, Surjection, IsInjective
<1>5. IsFiniteSet(A)
  BY NumberType DEF A
<1> QED
  BY <1>4, <1>5, FS_Bijection DEF Number, A, B

\* Of one character, the number is one or zero.
LEMMA NumberOfOne ==
  ASSUME NEW t, NEW S, NEW a \in Int
  PROVE  Number(t, S, a, a) = IF t[a] \in S THEN 1 ELSE 0
<1>1. {i \in a .. a : t[i] \in S} = IF t[a] \in S THEN {a} ELSE {}
  OBVIOUS
<1> QED
  BY <1>1, FS_Singleton, FS_EmptySet DEF Number

\* Of none of S, it is zero.
LEMMA NumberOfNone ==
  ASSUME NEW t, NEW S, NEW a \in Int, NEW b \in Int, \A i \in a .. b : t[i] \notin S
  PROVE  Number(t, S, a, b) = 0
<1>1. {i \in a .. b : t[i] \in S} = {}
  OBVIOUS
<1> QED
  BY <1>1, FS_EmptySet DEF Number

\* The number grows with each of S, so that no two have the same rank.
LEMMA NumberGrows ==
  ASSUME NEW t, NEW S, NEW i \in Nat, NEW j \in Nat, i < j, t[j] \in S
  PROVE  Number(t, S, 1, i) < Number(t, S, 1, j)
<1>1. /\ Number(t, S, 1, j) = Number(t, S, 1, j - 1) + Number(t, S, (j - 1) + 1, j)
      /\ Number(t, S, 1, j - 1) = Number(t, S, 1, i) + Number(t, S, i + 1, j - 1)
  BY NumberAdds
<1>2. Number(t, S, (j - 1) + 1, j) = 1
  BY NumberOfOne
<1>3. Number(t, S, 1, i) \in Nat /\ Number(t, S, i + 1, j - 1) \in Nat
  <2>1. 1 \in Int /\ i \in Int /\ i + 1 \in Int /\ j - 1 \in Int
    OBVIOUS
  <2> QED
    BY <2>1, NumberType, Zenon
<1> QED
  BY <1>1, <1>2, <1>3

\* No rank is missed.
LEMMA NumberMeets ==
  ASSUME NEW t, NEW S, NEW b \in Nat, NEW n \in 1 .. Number(t, S, 1, b)
  PROVE  \E i \in 1 .. b : t[i] \in S /\ Number(t, S, 1, i) = n
<1> DEFINE I == {i \in 0 .. b : n <= Number(t, S, 1, i)}
<1>0. ASSUME NEW i \in 0 .. b PROVE Number(t, S, 1, i) \in Nat
  BY NumberType, 1 \in Int, i \in Int, Zenon
<1>1. b \in I /\ I \in SUBSET Nat
  BY <1>0
<1>2. PICK i \in I : \A j \in I : i <= j
  BY <1>1, LeastOne
<1>3. Number(t, S, 1, 0) = 0
  BY NumberOfNone
<1>4. i \in 1 .. b
  BY <1>3
<1>5. i - 1 \notin I /\ i - 1 \in 0 .. b
  BY <1>2, <1>4
<1>6. Number(t, S, 1, i) = Number(t, S, 1, i - 1) + Number(t, S, (i - 1) + 1, i)
  BY <1>4, NumberAdds
<1>7. Number(t, S, (i - 1) + 1, i) = IF t[i] \in S THEN 1 ELSE 0
  BY <1>4, NumberOfOne
<1>8. Number(t, S, 1, i - 1) < n /\ n <= Number(t, S, 1, i)
  BY <1>0, <1>4, <1>5
<1> QED
  BY <1>0, <1>4, <1>5, <1>6, <1>7, <1>8

-------------------------------------------------------------------------------
(* Putting characters in the place of others.                              *)

\* u is t with k characters in the place of those from a + 1 to b.
Spliced(t, u, a, b, k) ==
    /\ a <= b /\ b <= Len(t) /\ Len(u) = Len(t) - (b - a) + k
    /\ \A i \in 1 .. a : u[i] = t[i]
    /\ \A i \in b + 1 .. Len(t) : u[i + (a + k - b)] = t[i]

\* How many of S there are up to a place before or after the splice
SplicedNumbers(t, u, a, b, k, S) ==
    /\ \A i \in 0 .. a : Number(u, S, 1, i) = Number(t, S, 1, i)
    /\ \A i \in b .. Len(t) :
          Number(u, S, 1, i + (a + k - b)) + Number(t, S, a + 1, b)
            = Number(t, S, 1, i) + Number(u, S, a + 1, a + k)

\* A splice moves what is behind it.
LEMMA SplicedNumber ==
  ASSUME NEW t \in Seq(Said), NEW u \in Seq(Said), NEW a \in Nat, NEW b \in Nat, NEW k \in Nat,
         Spliced(t, u, a, b, k), NEW S
  PROVE  SplicedNumbers(t, u, a, b, k, S)
<1>0. /\ Len(t) \in Nat /\ a <= b /\ b <= Len(t)
      /\ \A i \in 1 .. a : u[i] = t[i]
      /\ \A i \in b + 1 .. Len(t) : u[i + (a + k - b)] = t[i]
  BY LenProperties DEF Spliced
<1>1. ASSUME NEW i \in 0 .. a PROVE Number(u, S, 1, i) = Number(t, S, 1, i)
  <2>1. Moved(t, u, 1, i, 0)
    BY <1>0 DEF Moved
  <2>2. Number(u, S, 1 + 0, i + 0) = Number(t, S, 1, i)
    BY <2>1, NumberMoves
  <2> QED
    BY <2>2
<1>2. ASSUME NEW i \in b .. Len(t)
      PROVE  Number(u, S, 1, i + (a + k - b)) + Number(t, S, a + 1, b)
                 = Number(t, S, 1, i) + Number(u, S, a + 1, a + k)
  <2> DEFINE d == a + k - b
  <2>0. i \in Nat /\ d \in Int /\ i + d \in Int /\ a + k <= i + d /\ b + d = a + k
    BY <1>0
  <2>1. Number(t, S, 1, i) = Number(t, S, 1, b) + Number(t, S, b + 1, i)
    BY NumberAdds, <1>0
  <2>2. Number(t, S, 1, b) = Number(t, S, 1, a) + Number(t, S, a + 1, b)
    BY NumberAdds, <1>0
  <2>3. Number(u, S, 1, i + d) = Number(u, S, 1, a + k) + Number(u, S, (a + k) + 1, i + d)
    BY NumberAdds, <2>0
  <2>4. Number(u, S, 1, a + k) = Number(u, S, 1, a) + Number(u, S, a + 1, a + k)
    BY NumberAdds, <1>0
  <2>5. Number(u, S, 1, a) = Number(t, S, 1, a)
    BY <1>1
  <2>6. Number(u, S, (b + 1) + d, i + d) = Number(t, S, b + 1, i)
    <3>1. Moved(t, u, b + 1, i, d)
      BY <1>0 DEF Moved
    <3> HIDE DEF d
    <3> QED
      BY <3>1, <2>0, NumberMoves
  <2>7. (b + 1) + d = (a + k) + 1
    BY <2>0
  <2>8. /\ Number(t, S, 1, a) \in Nat /\ Number(t, S, a + 1, b) \in Nat
        /\ Number(t, S, b + 1, i) \in Nat /\ Number(u, S, a + 1, a + k) \in Nat
    <3>1. 1 \in Int /\ a \in Int /\ a + 1 \in Int /\ b \in Int /\ b + 1 \in Int /\ i \in Int
          /\ a + k \in Int
      BY <2>0
    <3> QED
      BY <3>1, NumberType, Zenon
  <2> HIDE DEF d
  <2>9. Number(u, S, 1, i + d) + Number(t, S, a + 1, b)
                 = Number(t, S, 1, i) + Number(u, S, a + 1, a + k)
    BY <2>1, <2>2, <2>3, <2>4, <2>5, <2>6, <2>7, <2>8
  <2> QED
    BY <2>9 DEF d
<1> QED
  BY <1>1, <1>2 DEF SplicedNumbers

\* Putting m in the place of the characters from a + 1 to b
SplicedBy(t, u, a, b, m) ==
    /\ u \in Seq(Said) /\ Spliced(t, u, a, b, Len(m))
    /\ \A i \in 1 .. Len(m) : u[a + i] = m[i]

\* Taking a text apart and putting it together with m is such a splice.
LEMMA SplicedIn ==
  ASSUME NEW t \in Seq(Said), NEW m \in Seq(Said), NEW a \in Nat, NEW b \in Nat, a <= b, b <= Len(t)
  PROVE  SplicedBy(t, SubSeq(t, 1, a) \o m \o SubSeq(t, b + 1, Len(t)), a, b, m)
<1> DEFINE A == SubSeq(t, 1, a)
           C == SubSeq(t, b + 1, Len(t))
           k == Len(m)
<1>0. k \in Nat /\ Len(t) \in Nat
  BY LenProperties
<1>1. A \in Seq(Said) /\ Len(A) = a /\ \A j \in 1 .. a : A[j] = t[j]
  BY <1>0
<1>2. C \in Seq(Said) /\ Len(C) = Len(t) - b /\ \A j \in 1 .. Len(C) : C[j] = t[b + j]
  <2>1. b + 1 \in 1 .. Len(t) + 1 /\ Len(t) \in (b + 1) - 1 .. Len(t)
    BY <1>0
  <2>2. /\ C \in Seq(Said) /\ Len(C) = Len(t) - (b + 1) + 1
        /\ \A j \in 1 .. Len(t) - (b + 1) + 1 : C[j] = t[(b + 1) + j - 1]
    BY <2>1, SubSeqProperties
  <2>3. Len(t) - (b + 1) + 1 = Len(t) - b
    BY <1>0
  <2>4. ASSUME NEW j \in 1 .. Len(t) - b PROVE C[j] = t[b + j]
    <3>1. (b + 1) + j - 1 = b + j
      OBVIOUS
    <3> HIDE DEF C
    <3>2. C[j] = t[(b + 1) + j - 1]
      BY <2>2, <2>3
    <3> QED
      BY <3>1, <3>2
  <2> HIDE DEF C
  <2> QED
    BY <2>2, <2>3, <2>4
<1> HIDE DEF A, C, k
<1> DEFINE B == A \o m
<1>3. B \in Seq(Said) /\ Len(B) = a + k
      /\ \A j \in 1 .. a + k : B[j] = IF j <= a THEN A[j] ELSE m[j - a]
  <2>1. /\ A \o m \in Seq(Said) /\ Len(A \o m) = Len(A) + Len(m)
        /\ \A j \in 1 .. Len(A) + Len(m) : (A \o m)[j] = IF j <= Len(A) THEN A[j] ELSE m[j - Len(A)]
    BY <1>1, ConcatProperties
  <2> QED
    BY <1>0, <1>1, <2>1 DEF k
<1> HIDE DEF B
<1> DEFINE u == B \o C
<1>4. /\ u \in Seq(Said) /\ Len(u) = a + k + Len(t) - b
      /\ \A j \in 1 .. a + k + Len(t) - b : u[j] = IF j <= a + k THEN B[j] ELSE C[j - (a + k)]
  <2>1. /\ B \o C \in Seq(Said) /\ Len(B \o C) = Len(B) + Len(C)
        /\ \A j \in 1 .. Len(B) + Len(C) : (B \o C)[j] = IF j <= Len(B) THEN B[j] ELSE C[j - Len(B)]
    BY <1>2, <1>3, ConcatProperties
  <2>2. Len(B) = a + k /\ Len(B) + Len(C) = a + k + Len(t) - b
    BY <1>0, <1>2, <1>3
  <2> QED
    BY <2>1, <2>2
<1> HIDE DEF u
<1>5. \A i \in 1 .. a : u[i] = t[i]
  BY <1>0, <1>1, <1>3, <1>4
<1>6. ASSUME NEW i \in b + 1 .. Len(t) PROVE u[i + (a + k - b)] = t[i]
  <2> DEFINE j == i + (a + k - b)
  <2>1. j \in 1 .. a + k + Len(t) - b /\ ~(j <= a + k) /\ j - (a + k) = i - b
        /\ i - b \in 1 .. Len(C) /\ b + (i - b) = i
    BY <1>0, <1>2
  <2> HIDE DEF j
  <2>2. u[j] = C[i - b]
    BY <1>4, <2>1
  <2>3. C[i - b] = t[i]
    BY <1>2, <2>1
  <2>4. u[j] = t[i]
    BY <2>2, <2>3
  <2> QED
    BY <2>4 DEF j
<1>7. ASSUME NEW i \in 1 .. k PROVE u[a + i] = m[i]
  <2>1. a + i \in 1 .. a + k + Len(t) - b /\ a + i <= a + k /\ a + i \in 1 .. a + k /\ ~(a + i <= a)
        /\ (a + i) - a = i
    BY <1>0
  <2> QED
    BY <1>3, <1>4, <2>1
<1>8. Len(u) = Len(t) - (b - a) + k
  BY <1>0, <1>4
<1> QED
  BY <1>4, <1>5, <1>6, <1>7, <1>8 DEF SplicedBy, Spliced, u, B, A, C, k

\* What is read out of two texts is the same when the n-th of one is the n-th of the other.
LEMMA SameLoud ==
  ASSUME NEW t \in Seq(Said), NEW u \in Seq(Said), Heard(u, Len(u)) = Heard(t, Len(t)),
         \A i \in DOMAIN u : u[i] \in Aloud =>
             \E j \in DOMAIN t : t[j] \in Aloud /\ Heard(t, j) = Heard(u, i) /\ t[j] = u[i]
  PROVE  Loud(u) = Loud(t)
<1>1. ASSUME NEW s \in Seq(Said), NEW n \in 1 .. Heard(s, Len(s))
      PROVE  /\ \E i \in DOMAIN s : s[i] \in Aloud /\ Heard(s, i) = n
             /\ \A i, j \in DOMAIN s : s[i] \in Aloud /\ Heard(s, i) = n
                    /\ s[j] \in Aloud /\ Heard(s, j) = n => i = j
  <2>0. Len(s) \in Nat /\ DOMAIN s = 1 .. Len(s)
    BY LenProperties
  <2>1. \A i : Heard(s, i) = Number(s, Aloud, 1, i)
    BY DEF Heard, Number
  <2>2. \E i \in 1 .. Len(s) : s[i] \in Aloud /\ Number(s, Aloud, 1, i) = n
    BY <2>0, <2>1, NumberMeets
  <2>3. ASSUME NEW i \in DOMAIN s, NEW j \in DOMAIN s, s[j] \in Aloud, i < j,
               Heard(s, i) = n, Heard(s, j) = n
        PROVE  FALSE
    <3>1. i \in Nat /\ j \in Nat
      BY <2>0
    <3>2. Number(s, Aloud, 1, i) < Number(s, Aloud, 1, j)
      BY <2>3, <3>1, NumberGrows
    <3>3. Number(s, Aloud, 1, i) = n /\ Number(s, Aloud, 1, j) = n /\ n \in Int
      BY <2>1, <2>3
    <3> QED
      BY <3>2, <3>3
  <2> QED
    BY <2>0, <2>1, <2>2, <2>3
<1>2. ASSUME NEW n \in 1 .. Heard(u, Len(u)) PROVE Loud(u)[n] = Loud(t)[n]
  <2> DEFINE i == CHOOSE i \in DOMAIN u : u[i] \in Aloud /\ Heard(u, i) = n
             j == CHOOSE j \in DOMAIN t : t[j] \in Aloud /\ Heard(t, j) = n
  <2>1. i \in DOMAIN u /\ u[i] \in Aloud /\ Heard(u, i) = n
    BY <1>1
  <2>2. j \in DOMAIN t /\ t[j] \in Aloud /\ Heard(t, j) = n
    BY <1>1
  <2>3. Loud(u)[n] = u[i] /\ Loud(t)[n] = t[j]
    BY DEF Loud
  <2> HIDE DEF i, j
  <2>4. PICK l \in DOMAIN t : t[l] \in Aloud /\ Heard(t, l) = n /\ t[l] = u[i]
    BY <2>1
  <2>5. l = j
    BY <1>1, <2>2, <2>4
  <2> QED
    BY <2>3, <2>4, <2>5
<1>3. Loud(u) = [n \in 1 .. Heard(u, Len(u)) |-> Loud(u)[n]]
  BY DEF Loud
<1>4. Loud(t) = [n \in 1 .. Heard(t, Len(t)) |-> Loud(t)[n]]
  BY DEF Loud
<1> QED
  BY <1>2, <1>3, <1>4, Zenon

-------------------------------------------------------------------------------
(* The words for symbols.                                                  *)

\* A text, and where it is looked at
Looks == Seq(Said) \X (Nat \ {0})

\* u is t with the characters of replace from i on.
Placed(t, u, i, replace) ==
    /\ Len(u) = Len(t)
    /\ \A j \in 1 .. Len(t) : u[j] = IF j \in i .. i + Len(replace) - 1
                                     THEN replace[j - i + 1] ELSE t[j]

\* Replacing by something as long is to place it.
LEMMA PlacedInside ==
  ASSUME NEW t \in Seq(Said), NEW replace \in Seq(Said), NEW i \in Nat \ {0}, NEW n, n = Len(replace),
         i + n <= Len(t) + 1
  PROVE  LET u == SubSeq(t, 1, i - 1) \o replace \o SubSeq(t, i + n, Len(t))
         IN  u \in Seq(Said) /\ Placed(t, u, i, replace)
<1> DEFINE a == i - 1
           b == i + n - 1
           u == SubSeq(t, 1, a) \o replace \o SubSeq(t, i + n, Len(t))
<1>0. n \in Nat /\ Len(t) \in Nat
  BY LenProperties
<1>1. a \in Nat /\ b \in Nat /\ a <= b /\ b <= Len(t) /\ b + 1 = i + n /\ b - a = n
  BY <1>0
<1>2. SplicedBy(t, SubSeq(t, 1, a) \o replace \o SubSeq(t, b + 1, Len(t)), a, b, replace)
  <2> HIDE DEF a, b
  <2> QED
    BY <1>1, SplicedIn
<1>3. SplicedBy(t, u, a, b, replace)
  BY <1>1, <1>2
<1> HIDE DEF u, b
<1>4. /\ u \in Seq(Said) /\ Len(u) = Len(t) - (b - a) + n
      /\ \A j \in 1 .. a : u[j] = t[j]
      /\ \A j \in b + 1 .. Len(t) : u[j + (a + n - b)] = t[j]
      /\ \A j \in 1 .. n : u[a + j] = replace[j]
  BY <1>3 DEF SplicedBy, Spliced
<1>5. ASSUME NEW j \in 1 .. Len(t)
      PROVE  u[j] = IF j \in i .. i + n - 1 THEN replace[j - i + 1] ELSE t[j]
  <2>1. CASE j < i
    BY <1>0, <1>4, <2>1
  <2>2. CASE j \in i .. i + n - 1
    <3>1. j - i + 1 \in 1 .. n /\ a + (j - i + 1) = j
      BY <1>0, <2>2
    <3> QED
      BY <1>4, <2>2, <3>1
  <2>3. CASE j > i + n - 1
    <3>1. j \in b + 1 .. Len(t) /\ j + (a + n - b) = j
      BY <1>0, <1>1, <2>3
    <3>2. u[j] = t[j]
      BY <1>4, <3>1
    <3> QED
      BY <2>3, <3>2
  <2> QED
    BY <1>0, <2>1, <2>2, <2>3
<1>6. Len(u) = Len(t)
  BY <1>0, <1>1, <1>4
<1> QED
  BY <1>4, <1>5, <1>6 DEF Placed, u

\* The next time round of replaceIfIsolated
Round(x, search, replace, skip) ==
    LET text == x[1]
        i == Min(Found(text, search, x[2]))
    IN  IF Isolated(text, i) \/ skip
        THEN <<SubSeq(text, 1, i - 1) \o replace \o SubSeq(text, i + Len(search), Len(text)),
               i + Len(replace)>>
        ELSE <<text, i + Len(search)>>

\* What is put in is as long as what it is put in for (a word is one letter).
Replaces(search, replace, skip) ==
    /\ search \in Seq(Said) /\ replace \in Seq(Said) /\ skip \in BOOLEAN
    /\ Len(search) = Len(replace) /\ Len(search) > 0
KeptByRounds(P, search, replace, skip) ==
    /\ P \in SUBSET Looks
    /\ \A x \in P : Found(x[1], search, x[2]) # {} => Round(x, search, replace, skip) \in P

\* What a round keeps holds of the result, in which there is nothing more to be found.
LEMMA ReplacedInRounds ==
  ASSUME NEW string \in Seq(Said), NEW search, NEW replace, NEW skip,
         Replaces(search, replace, skip),
         NEW P, KeptByRounds(P, search, replace, skip), <<string, 1>> \in P
  PROVE  \E x \in P : /\ Found(x[1], search, x[2]) = {}
                      /\ replaceIfIsolated(string, search, replace, skip) = x[1]
<1> DEFINE Stop == {x \in Looks : Found(x[1], search, x[2]) = {}}
           out == [x \in Looks |-> x[1]]
           next == [x \in Looks |-> IF x \in Stop THEN x ELSE Round(x, search, replace, skip)]
           m == [x \in Looks |-> IF x[2] > Len(x[1]) THEN 0 ELSE Len(x[1]) + 1 - x[2]]
           n == Len(search)
           Body(g, x) ==
            LET text == x[1]
                i == Min(Found(text, search, x[2]))
            IN  IF Found(text, search, x[2]) = {} THEN text
                ELSE IF Isolated(text, i) \/ skip
                THEN g[<<SubSeq(text, 1, i - 1) \o replace
                            \o SubSeq(text, i + Len(search), Len(text)), i + Len(replace)>>]
                ELSE g[<<text, i + Len(search)>>]
<1>0. /\ n \in Nat /\ n > 0 /\ n = Len(replace)
      /\ search \in Seq(Said) /\ replace \in Seq(Said) /\ skip \in BOOLEAN
      /\ P \in SUBSET Looks
      /\ \A x \in P : Found(x[1], search, x[2]) # {} => Round(x, search, replace, skip) \in P
  BY LenProperties DEF Replaces, KeptByRounds
<1>1. ASSUME NEW x \in Looks, x \notin Stop
      PROVE  /\ Round(x, search, replace, skip) \in Looks
             /\ m[Round(x, search, replace, skip)] < m[x]
  <2> DEFINE text == x[1]
             pos == x[2]
             i == Min(Found(text, search, pos))
             u == SubSeq(text, 1, i - 1) \o replace \o SubSeq(text, i + n, Len(text))
             y == Round(x, search, replace, skip)
  <2>0. text \in Seq(Said) /\ pos \in Nat \ {0} /\ Len(text) \in Nat
    BY LenProperties DEF Looks
  <2>1. i \in pos .. Len(text) - n + 1
    <3>1. Found(text, search, pos) \in SUBSET Nat
      BY <1>0, <2>0 DEF Found
    <3>2. Found(text, search, pos) # {}
      BY <1>1
    <3>3. i \in Found(text, search, pos)
      BY <3>1, <3>2, LeastOne
    <3> QED
      BY <3>3 DEF Found
  <2>2. u \in Seq(Said) /\ Len(u) = Len(text)
    <3>1. i \in Nat \ {0} /\ i + n <= Len(text) + 1
      BY <1>0, <2>0, <2>1
    <3> HIDE DEF i, text, n
    <3>2. u \in Seq(Said) /\ Placed(text, u, i, replace)
      BY <1>0, <2>0, <3>1, PlacedInside
    <3> QED
      BY <3>2 DEF Placed
  <2>3. y = <<u, i + n>> \/ y = <<text, i + n>>
    BY <1>0 DEF Round
  <2> HIDE DEF i, u, y
  <2>4. y \in Looks /\ Len(y[1]) = Len(text) /\ y[2] = i + n
    BY <1>0, <2>0, <2>1, <2>2, <2>3 DEF Looks
  <2>5. m[x] = Len(text) + 1 - pos
    BY <1>0, <2>0, <2>1
  <2>6. m[y] = IF i + n > Len(text) THEN 0 ELSE Len(text) + 1 - (i + n)
    BY <2>4
  <2>7. m[y] < m[x]
    BY <1>0, <2>0, <2>1, <2>5, <2>6
  <2> QED
    BY <2>4, <2>7 DEF y
<1>2. next \in [Looks -> Looks]
  BY <1>1
<1>3. m \in [Looks -> Nat]
  <2>1. ASSUME NEW x \in Looks PROVE m[x] \in Nat
    BY LenProperties DEF Looks
  <2> QED
    BY <2>1
<1>4. PICK f : Loop(f, Looks, Stop, out, next)
  <2>1. Stop \in SUBSET Looks
    OBVIOUS
  <2> HIDE DEF Stop, out, next
  <2> QED
    BY <1>2, <2>1, TailRecursion
<1>5. \E g : g = [x \in Seq(Said) \X (Nat \ {0}) |-> Body(g, x)]
  <2>1. ASSUME NEW x \in Looks
        PROVE  (IF x \in Stop THEN out[x] ELSE f[next[x]]) = Body(f, x)
    <3>1. CASE x \in Stop
      BY <3>1
    <3>2. CASE x \notin Stop
      <4>1. next[x] = Round(x, search, replace, skip)
        BY <3>2
      <4>2. Found(x[1], search, x[2]) # {}
        BY <3>2
      <4> HIDE DEF next
      <4> QED
        BY <3>2, <4>1, <4>2 DEF Round
    <3> QED
      BY <3>1, <3>2
  <2> HIDE DEF Stop, out, next, Body
  <2>2. f = [x \in Looks |-> Body(f, x)]
    BY <1>4, <2>1 DEF Loop
  <2> QED
    BY <2>2 DEF Looks
<1>6. PICK g : /\ g = [x \in Seq(Said) \X (Nat \ {0}) |-> Body(g, x)]
               /\ replaceIfIsolated(string, search, replace, skip) = g[<<string, 1>>]
  BY <1>5 DEF replaceIfIsolated
<1>7. ASSUME NEW x \in Looks PROVE g[x] = IF x \in Stop THEN out[x] ELSE g[next[x]]
  <2>1. CASE x \in Stop
    BY <1>6, <2>1 DEF Looks
  <2>2. CASE x \notin Stop
    <3>1. next[x] = Round(x, search, replace, skip)
      BY <2>2
    <3>2. Found(x[1], search, x[2]) # {}
      BY <2>2
    <3> HIDE DEF next
    <3> QED
      BY <1>6, <2>2, <3>1, <3>2 DEF Round, Looks
  <2> QED
    BY <2>1, <2>2
<1>8. Loop(g, Looks, Stop, out, next)
  <2>1. Stop \in SUBSET Looks /\ g = [x \in Looks |-> g[x]]
    BY <1>6 DEF Looks
  <2> HIDE DEF Stop, out, next
  <2> QED
    BY <1>2, <1>7, <2>1 DEF Loop
<1>9. Kept(P, m, Looks, Stop, next)
  <2>1. ASSUME NEW x \in P, x \notin Stop PROVE next[x] \in P /\ m[next[x]] < m[x]
    <3>1. next[x] = Round(x, search, replace, skip) /\ Found(x[1], search, x[2]) # {}
          /\ x \in Looks
      BY <1>0, <2>1
    <3> HIDE DEF next, m
    <3> QED
      BY <1>0, <1>1, <2>1, <3>1
  <2> HIDE DEF Stop, next, m
  <2> QED
    BY <1>0, <1>3, <2>1 DEF Kept
<1>10. \E x \in P \cap Stop : g[<<string, 1>>] = out[x]
  <2> HIDE DEF Stop, out, next, m
  <2> QED
    BY <1>9, <1>8, TailInvariant
<1>11. PICK x \in P \cap Stop : g[<<string, 1>>] = out[x]
  BY <1>10
<1> QED
  BY <1>6, <1>11

\* A round finds the next place of search, and puts replace there or passes it.
Passes(x, search, replace, skip) ==
    \E i \in x[2] .. Len(x[1]) - Len(search) + 1, u \in Seq(Said) :
        /\ \A k \in 1 .. Len(search) : x[1][i + k - 1] = search[k]
        /\ \A j \in x[2] .. i - 1 : j \notin Found(x[1], search, x[2])
        /\ Round(x, search, replace, skip) = <<u, i + Len(search)>>
        /\ \/ (Isolated(x[1], i) \/ skip) /\ Placed(x[1], u, i, replace)
           \/ ~Isolated(x[1], i) /\ ~skip /\ u = x[1]

\* That is what a round does.
LEMMA RoundFacts ==
  ASSUME NEW search, NEW replace, NEW skip, Replaces(search, replace, skip),
         NEW x \in Looks, Found(x[1], search, x[2]) # {}
  PROVE  Passes(x, search, replace, skip)
<1> DEFINE text == x[1]
           pos == x[2]
           n == Len(search)
           F == Found(text, search, pos)
           i == Min(F)
           v == SubSeq(text, 1, i - 1) \o replace \o SubSeq(text, i + n, Len(text))
<1>0. /\ text \in Seq(Said) /\ pos \in Nat \ {0} /\ Len(text) \in Nat
      /\ n \in Nat /\ n > 0 /\ n = Len(replace)
      /\ search \in Seq(Said) /\ replace \in Seq(Said) /\ skip \in BOOLEAN
  BY LenProperties DEF Looks, Replaces
<1>1. F \in SUBSET Nat /\ F # {}
  BY <1>0 DEF Found
<1>2. i \in F /\ \A j \in F : i <= j
  BY <1>1, LeastOne
<1>3. i \in pos .. Len(text) - n + 1 /\ SubSeq(text, i, i + n - 1) = search
  BY <1>2 DEF Found
<1>4. ASSUME NEW k \in 1 .. n PROVE text[i + k - 1] = search[k]
  <2>1. SubSeq(text, i, i + n - 1)[k] = text[i + k - 1]
    <3> HIDE DEF F, i, n, text, pos
    <3>1. i \in 1 .. Len(text) + 1 /\ i + n - 1 \in i - 1 .. Len(text) /\ k \in 1 .. (i + n - 1) - i + 1
      BY <1>0, <1>3
    <3> QED
      BY <1>0, <3>1, SubSeqProperties
  <2> QED
    BY <1>3, <2>1
<1>5. \A j \in pos .. i - 1 : j \notin F
  BY <1>0, <1>1, <1>2
<1>6. v \in Seq(Said) /\ Placed(text, v, i, replace)
  <2>1. i \in Nat \ {0} /\ i + n <= Len(text) + 1
    BY <1>0, <1>3
  <2> HIDE DEF i, text, n
  <2> QED
    BY <1>0, <2>1, PlacedInside
<1>7. Round(x, search, replace, skip) =
        IF Isolated(text, i) \/ skip THEN <<v, i + n>> ELSE <<text, i + n>>
  BY <1>0 DEF Round
<1> HIDE DEF i, v, n, F
<1>8. CASE Isolated(text, i) \/ skip
  BY <1>3, <1>4, <1>5, <1>6, <1>7, <1>8 DEF n, F, Passes
<1>9. CASE ~(Isolated(text, i) \/ skip)
  BY <1>0, <1>3, <1>4, <1>5, <1>7, <1>9 DEF n, F, Passes
<1> QED
  BY <1>8, <1>9

\* What a search for one character finds
LEMMA FoundOne ==
  ASSUME NEW t \in Seq(Said), NEW pos \in Nat \ {0}, NEW c
  PROVE  Found(t, <<c>>, pos) = {i \in pos .. Len(t) : t[i] = c}
<1>0. Len(t) \in Nat /\ Len(<<c>>) = 1
  BY LenProperties
<1>1. ASSUME NEW i \in pos .. Len(t) PROVE SubSeq(t, i, i + 1 - 1) = <<t[i]>>
  <2>1. i \in 1 .. Len(t) + 1 /\ i \in i - 1 .. Len(t) /\ i + 1 - 1 = i /\ t[i] \in Said
    BY <1>0
  <2>2. /\ SubSeq(t, i, i) \in Seq(Said) /\ Len(SubSeq(t, i, i)) = 1
        /\ SubSeq(t, i, i)[1] = t[i]
    BY <2>1, SubSeqProperties
  <2>3. <<t[i]>> \in Seq(Said) /\ Len(<<t[i]>>) = 1 /\ <<t[i]>>[1] = t[i]
    BY <2>1
  <2>4. \A k \in 1 .. 1 : k = 1
    OBVIOUS
  <2>5. SubSeq(t, i, i) = <<t[i]>>
    BY <2>2, <2>3, <2>4, SeqEqual
  <2> QED
    BY <2>1, <2>5
<1>2. \A i \in pos .. Len(t) : <<t[i]>> = <<c>> <=> t[i] = c
  OBVIOUS
<1> QED
  BY <1>0, <1>1, <1>2 DEF Found

\* "://" is worded: no other character changes.
LEMMA SlashesWorded ==
  ASSUME NEW t \in Seq(Said)
  PROVE  LET s == replaceIfIsolated(t, <<":", "/", "/">>, <<Blank, "colonslashslash", Blank>>, TRUE)
         IN  /\ s \in Seq(Said) /\ Len(s) = Len(t)
             /\ \A i \in 1 .. Len(t) : \/ s[i] = t[i]
                                       \/ t[i] \in {":", "/"} /\ s[i] \in {Blank, "colonslashslash"}
<1> DEFINE search == <<":", "/", "/">>
           replace == <<Blank, "colonslashslash", Blank>>
           P == {x \in Looks : /\ Len(x[1]) = Len(t)
                               /\ \A i \in 1 .. Len(t) :
                                     \/ x[1][i] = t[i]
                                     \/ t[i] \in {":", "/"} /\ x[1][i] \in {Blank, "colonslashslash"}}
<1> DEFINE skip == TRUE
<1>0. /\ search \in Seq(Said) /\ replace \in Seq(Said) /\ Len(search) = 3 /\ Len(replace) = 3
      /\ Len(t) \in Nat /\ skip \in BOOLEAN
  <2>1. {":", "/", Blank, "colonslashslash"} \subseteq Said
    BY DEF Said, Characters, Punctuation, Silent, Letters
  <2>2. search \in Seq({":", "/", Blank, "colonslashslash"}) /\ Len(search) = 3
    OBVIOUS
  <2>3. replace \in Seq({":", "/", Blank, "colonslashslash"}) /\ Len(replace) = 3
    OBVIOUS
  <2>4. Len(t) \in Nat
    BY LenProperties
  <2> HIDE DEF Said, search, replace
  <2>5. search \in Seq(Said) /\ replace \in Seq(Said)
    BY <2>1, <2>2, <2>3, SeqMonotonic
  <2> QED
    BY <2>2, <2>3, <2>4, <2>5
<1>1. P \in SUBSET Looks /\ <<t, 1>> \in P
  <2>1. <<t, 1>> \in Looks /\ <<t, 1>>[1] = t
    BY DEF Looks
  <2> QED
    BY <2>1
<1>2. \A k \in 1 .. 3 : search[k] \in {":", "/"} /\ replace[k] \in {Blank, "colonslashslash"}
  <2>1. \A k \in 1 .. 3 : k = 1 \/ k = 2 \/ k = 3
    OBVIOUS
  <2>2. search[1] = ":" /\ search[2] = "/" /\ search[3] = "/"
    OBVIOUS
  <2>3. replace[1] = Blank /\ replace[2] = "colonslashslash" /\ replace[3] = Blank
    OBVIOUS
  <2> HIDE DEF search, replace
  <2> QED
    BY <2>1, <2>2, <2>3
<1> HIDE DEF search, replace, skip
<1>3. Replaces(search, replace, skip)
  <2>1. Len(search) = Len(replace) /\ Len(search) > 0
    BY <1>0
  <2> QED
    BY <1>0, <2>1, Zenon DEF Replaces
<1>4. ASSUME NEW x \in P, Found(x[1], search, x[2]) # {} PROVE Round(x, search, replace, skip) \in P
  <2>1. x \in Looks /\ x[1] \in Seq(Said) /\ x[2] \in Nat \ {0} /\ Len(x[1]) = Len(t)
    BY DEF Looks
  <2>5. \A j \in 1 .. Len(t) : \/ x[1][j] = t[j]
                               \/ t[j] \in {":", "/"} /\ x[1][j] \in {Blank, "colonslashslash"}
    OBVIOUS
  <2> HIDE DEF P
  <2>2. PICK i \in x[2] .. Len(x[1]) - 3 + 1, u \in Seq(Said) :
            /\ \A k \in 1 .. 3 : x[1][i + k - 1] = search[k]
            /\ Round(x, search, replace, skip) = <<u, i + 3>>
            /\ Placed(x[1], u, i, replace)
    <3>1. Passes(x, search, replace, skip)
      BY <1>4, <1>3, <2>1, RoundFacts
    <3>2. skip
      BY DEF skip
    <3> QED
      BY <1>0, <3>1, <3>2 DEF Passes
  <2>3. /\ i \in Nat \ {0} /\ Len(u) = Len(t)
        /\ \A j \in 1 .. Len(t) : u[j] = IF j \in i .. i + 2 THEN replace[j - i + 1] ELSE x[1][j]
    <3>1. i \in Nat \ {0} /\ i + 3 - 1 = i + 2
      BY <1>0, <2>1
    <3> QED
      BY <1>0, <2>1, <2>2, <3>1 DEF Placed
  <2>4. ASSUME NEW j \in 1 .. Len(t)
        PROVE  \/ u[j] = t[j]
               \/ t[j] \in {":", "/"} /\ u[j] \in {Blank, "colonslashslash"}
    <3>1. CASE j \in i .. i + 2
      <4>1. j - i + 1 \in 1 .. 3 /\ i + (j - i + 1) - 1 = j
        BY <2>3, <3>1
      <4>2. u[j] = replace[j - i + 1] /\ x[1][j] = search[j - i + 1]
        BY <2>2, <2>3, <3>1, <4>1
      <4> QED
        BY <1>2, <2>5, <4>1, <4>2
    <3>2. CASE j \notin i .. i + 2
      BY <2>3, <2>5, <3>2
    <3> QED
      BY <3>1, <3>2
  <2>6. <<u, i + 3>> \in Looks
    BY <2>3 DEF Looks
  <2>7. <<u, i + 3>>[1] = u
    OBVIOUS
  <2>8. <<u, i + 3>> \in P
    BY <2>3, <2>4, <2>6, <2>7 DEF P
  <2> QED
    BY <2>2, <2>8
<1> HIDE DEF P
<1>5. PICK x \in P : replaceIfIsolated(t, search, replace, skip) = x[1]
  <2>1. KeptByRounds(P, search, replace, skip)
    BY <1>1, <1>4 DEF KeptByRounds
  <2> QED
    BY <1>1, <1>3, <2>1, ReplacedInRounds
<1>6. x[1] \in Seq(Said)
  BY DEF P, Looks
<1> QED
  BY <1>5, <1>6 DEF P, search, replace, skip

\* The character at i stands between spaces, or next to a letter.
Alone(t, i) == \A j \in {i - 1, i + 1} : j \notin 1 .. Len(t) \/ t[j] = Blank
Beside(t, i) == \E j \in {i - 1, i + 1} : j \in 1 .. Len(t) /\ t[j] = "a"

\* s is t with the symbol c worded as w where it stands alone and nowhere next to a letter;
\* no other character changes.
WordedSymbol(t, s, c, w) ==
    /\ s \in Seq(Said) /\ Len(s) = Len(t)
    /\ \A i \in 1 .. Len(t) : /\ s[i] = t[i] \/ (t[i] = c /\ s[i] = w)
                              /\ t[i] = c /\ Alone(t, i) => s[i] = w
                              /\ s[i] = w => ~Beside(t, i)
Lacks(t, w) == t \in Seq(Said) /\ \A n \in 1 .. Len(t) : t[n] # w

\* That is what replaceIfIsolated does for a symbol of one character.
LEMMA SymbolWorded ==
  ASSUME NEW t, NEW c \in Punctuation, NEW w \in Letters \ {"a"}, Lacks(t, w)
  PROVE  WordedSymbol(t, replaceIfIsolated(t, <<c>>, <<w>>, FALSE), c, w)
<1>0. t \in Seq(Said) /\ \A n \in 1 .. Len(t) : t[n] # w
  BY DEF Lacks
<1> DEFINE search == <<c>>
           replace == <<w>>
           skip == FALSE
           P == {x \in Looks : /\ Len(x[1]) = Len(t)
                               /\ \A i \in 1 .. Len(t) :
                                     /\ x[1][i] = t[i] \/ (t[i] = c /\ x[1][i] = w)
                                     /\ i < x[2] /\ t[i] = c /\ Alone(t, i) => x[1][i] = w
                                     /\ x[1][i] = w => ~Beside(t, i)}
<1>1. /\ search \in Seq(Said) /\ replace \in Seq(Said) /\ Len(search) = 1 /\ Len(replace) = 1
      /\ skip \in BOOLEAN /\ ~skip /\ search[1] = c /\ replace[1] = w
  <2>1. c \in Said /\ w \in Said
    BY DEF Said, Characters
  <2> HIDE DEF Said
  <2> QED
    BY <2>1
<1>2. Len(t) \in Nat /\ c # w /\ c # Blank /\ c # "a" /\ w # "a" /\ w # Blank
  <2>1. Len(t) \in Nat
    BY <1>0, LenProperties
  <2> QED
    BY <2>1 DEF Punctuation, Silent, Quote, Blank, Letters
<1>3. \A d : (d = "a" => ~Gap(d)) /\ (d = Blank => Gap(d))
  BY DEF Punctuation, Silent, Quote, Blank, Gap
<1>4. P \in SUBSET Looks /\ <<t, 1>> \in P
  <2>1. <<t, 1>> \in Looks /\ <<t, 1>>[1] = t /\ <<t, 1>>[2] = 1
    BY <1>0 DEF Looks
  <2> QED
    BY <1>0, <2>1
<1> HIDE DEF search, replace, skip
<1>5. Replaces(search, replace, skip)
  <2>1. Len(search) = Len(replace) /\ Len(search) > 0
    BY <1>1
  <2> QED
    BY <1>1, <2>1, Zenon DEF Replaces
<1>6. ASSUME NEW x \in P, Found(x[1], search, x[2]) # {} PROVE Round(x, search, replace, skip) \in P
  <2> DEFINE text == x[1]
             pos == x[2]
  <2>1. x \in Looks /\ text \in Seq(Said) /\ pos \in Nat \ {0} /\ Len(text) = Len(t)
    BY DEF Looks
  <2>2. \A i \in 1 .. Len(t) : /\ text[i] = t[i] \/ (t[i] = c /\ text[i] = w)
                               /\ i < pos /\ t[i] = c /\ Alone(t, i) => text[i] = w
                               /\ text[i] = w => ~Beside(t, i)
    OBVIOUS
  <2> HIDE DEF P, text, pos
  <2>3. Passes(x, search, replace, skip)
    BY <1>5, <1>6, <2>1, RoundFacts DEF text, pos
  <2>4. PICK i \in pos .. Len(t), u \in Seq(Said) :
          /\ text[i] = c
          /\ \A j \in pos .. i - 1 : text[j] # c
          /\ Round(x, search, replace, skip) = <<u, i + 1>>
          /\ \/ Isolated(text, i) /\ Placed(text, u, i, replace)
             \/ ~Isolated(text, i) /\ u = text
    <3>1. PICK i \in pos .. Len(text) - Len(search) + 1, u \in Seq(Said) :
            /\ \A k \in 1 .. Len(search) : text[i + k - 1] = search[k]
            /\ \A j \in pos .. i - 1 : j \notin Found(text, search, pos)
            /\ Round(x, search, replace, skip) = <<u, i + Len(search)>>
            /\ \/ (Isolated(text, i) \/ skip) /\ Placed(text, u, i, replace)
               \/ ~Isolated(text, i) /\ ~skip /\ u = text
      BY <2>3 DEF Passes, text, pos
    <3>2. i \in pos .. Len(t) /\ i + 1 - 1 = i
      BY <1>1, <1>2, <2>1
    <3>3. text[i] = c
      BY <1>1, <3>1, <3>2
    <3>4. Found(text, search, pos) = {j \in pos .. Len(text) : text[j] = c}
      BY <2>1, FoundOne DEF search
    <3>5. \A j \in pos .. i - 1 : text[j] # c
      BY <1>2, <2>1, <3>1, <3>2, <3>4
    <3> QED
      BY <1>1, <3>1, <3>2, <3>3, <3>5
  <2>5. i \in 1 .. Len(t) /\ i \in Nat
    BY <1>2, <2>1
  <2>6. /\ Len(u) = Len(t) /\ u[i] = IF Isolated(text, i) THEN w ELSE c
        /\ \A j \in 1 .. Len(t) : j # i => u[j] = text[j]
    <3>1. CASE Isolated(text, i) /\ Placed(text, u, i, replace)
      <4>1. \A j \in 1 .. Len(t) : j \in i .. i + 1 - 1 <=> j = i
        BY <2>5
      <4>2. i - i + 1 = 1
        BY <2>5
      <4> QED
        BY <1>1, <2>1, <2>5, <3>1, <4>1, <4>2 DEF Placed
    <3>2. CASE ~Isolated(text, i) /\ u = text
      BY <2>1, <2>4, <3>2
    <3> QED
      BY <2>4, <3>1, <3>2
  <2>7. t[i] = c
    BY <1>2, <2>2, <2>4, <2>5
  <2>8. Alone(t, i) => Isolated(text, i)
    BY <1>2, <1>3, <2>1, <2>2, <2>5 DEF Alone, Isolated
  <2>9. Isolated(text, i) => ~Beside(t, i)
    <3>1. \A j \in 1 .. Len(t) : t[j] = "a" => ~Gap(text[j])
      BY <1>2, <1>3, <2>2
    <3> QED
      BY <1>2, <2>1, <2>5, <3>1 DEF Beside, Isolated
  <2>10. ASSUME NEW j \in 1 .. Len(t)
         PROVE  /\ u[j] = t[j] \/ (t[j] = c /\ u[j] = w)
                /\ j < i + 1 /\ t[j] = c /\ Alone(t, j) => u[j] = w
                /\ u[j] = w => ~Beside(t, j)
    <3>1. CASE j = i
      BY <1>2, <2>6, <2>7, <2>8, <2>9, <3>1
    <3>2. CASE j # i
      <4>1. u[j] = text[j]
        BY <2>6, <3>2
      <4>2. j < i + 1 => j < pos \/ j \in pos .. i - 1
        BY <2>1, <2>5, <3>2
      <4> QED
        BY <2>2, <2>4, <4>1, <4>2
    <3> QED
      BY <3>1, <3>2
  <2>11. <<u, i + 1>> \in Looks /\ <<u, i + 1>>[1] = u /\ <<u, i + 1>>[2] = i + 1
    BY <2>5 DEF Looks
  <2>12. <<u, i + 1>> \in P
    BY <2>6, <2>10, <2>11 DEF P
  <2> QED
    BY <2>4, <2>12
<1> HIDE DEF P
<1>7. PICK x \in P : /\ Found(x[1], search, x[2]) = {}
                     /\ replaceIfIsolated(t, search, replace, skip) = x[1]
  <2>1. KeptByRounds(P, search, replace, skip)
    BY <1>4, <1>6 DEF KeptByRounds
  <2> QED
    BY <1>0, <1>4, <1>5, <2>1, ReplacedInRounds
<1> DEFINE text == x[1]
           pos == x[2]
<1>8. /\ text \in Seq(Said) /\ pos \in Nat \ {0} /\ Len(text) = Len(t)
      /\ \A i \in 1 .. Len(t) : /\ text[i] = t[i] \/ (t[i] = c /\ text[i] = w)
                                /\ i < pos /\ t[i] = c /\ Alone(t, i) => text[i] = w
                                /\ text[i] = w => ~Beside(t, i)
  BY DEF P, Looks
<1>9. Found(text, search, pos) = {} /\ replaceIfIsolated(t, search, replace, skip) = text
  BY <1>7
<1> HIDE DEF text, pos
<1>10. \A i \in 1 .. Len(t) : i >= pos => text[i] # c
  <2>1. Found(text, search, pos) = {i \in pos .. Len(t) : text[i] = c}
    BY <1>8, FoundOne DEF search
  <2> QED
    BY <1>2, <1>8, <1>9, <2>1
<1>11. \A i \in 1 .. Len(t) : t[i] = c /\ Alone(t, i) => text[i] = w
  BY <1>2, <1>8, <1>10
<1> QED
  BY <1>8, <1>9, <1>11 DEF search, replace, skip, WordedSymbol

\* What wording changes of a text: W is as long, and its dollars stand or are words.
WordedFrom(t, W) ==
    /\ W \in Seq(Said) /\ Len(W) = Len(t)
    /\ \A i \in 1 .. Len(t) :
          /\ t[i] = "$" <=> W[i] \in {"$", "dollar"}
          /\ t[i] = "$" /\ Alone(t, i) => W[i] = "dollar"
          /\ W[i] = "dollar" => ~Beside(t, i)
          /\ W[i] = Quote <=> t[i] = Quote

\* That is what the three calls do, one after the other.
LEMMA WordedFacts ==
  ASSUME NEW t \in Seq(Characters)
  PROVE  WordedFrom(t, Worded(t))
<1> DEFINE n == Len(t)
           s1 == replaceIfIsolated(t, <<":", "/", "/">>, <<Blank, "colonslashslash", Blank>>, TRUE)
           s2 == replaceIfIsolated(s1, <<"$">>, <<"dollar">>, FALSE)
           s3 == replaceIfIsolated(s2, <<"/">>, <<"or">>, FALSE)
<1>0. t \in Seq(Said) /\ n \in Nat /\ \A i \in 1 .. n : t[i] \in Characters
  <2>1. Characters \subseteq Said
    BY DEF Said
  <2>2. t \in Seq(Said)
    BY <2>1, SeqMonotonic, Zenon
  <2>3. n \in Nat /\ \A i \in 1 .. n : t[i] \in Characters
    OBVIOUS
  <2> QED
    BY <2>2, <2>3
<1>1. \A d \in Characters : d \notin {"dollar", "or", "colonslashslash"}
  BY DEF Characters, Punctuation, Silent, Quote, Blank
<1>2. Quote \notin {"a", Blank, "dollar", "or", "colonslashslash", "$", "/", ":"}
      /\ Blank \notin {"a", "dollar", "or", "colonslashslash", "$", "/", ":"}
  BY DEF Quote, Blank
<1>3. "$" \in Punctuation /\ "/" \in Punctuation /\ "dollar" \in Letters \ {"a"} /\ "or" \in Letters \ {"a"}
  BY DEF Punctuation, Letters
<1>4. s1 \in Seq(Said) /\ Len(s1) = n
      /\ \A i \in 1 .. n : s1[i] = t[i] \/ (t[i] \in {":", "/"} /\ s1[i] \in {Blank, "colonslashslash"})
  BY <1>0, SlashesWorded
<1> HIDE DEF s1
<1>5. \A i \in 1 .. Len(s1) : s1[i] \notin {"dollar", "or"}
  BY <1>0, <1>1, <1>2, <1>4
<1>6. s2 \in Seq(Said) /\ Len(s2) = n
      /\ \A i \in 1 .. n : /\ s2[i] = s1[i] \/ (s1[i] = "$" /\ s2[i] = "dollar")
                           /\ s1[i] = "$" /\ Alone(s1, i) => s2[i] = "dollar"
                           /\ s2[i] = "dollar" => ~Beside(s1, i)
  <2>1. Lacks(s1, "dollar")
    BY <1>4, <1>5 DEF Lacks
  <2>2. WordedSymbol(s1, s2, "$", "dollar")
    BY <1>3, <2>1, SymbolWorded
  <2> HIDE DEF s2
  <2> QED
    BY <1>4, <2>2 DEF WordedSymbol
<1> HIDE DEF s2
<1>7. \A i \in 1 .. Len(s2) : s2[i] # "or"
  BY <1>4, <1>5, <1>6
<1>8. s3 \in Seq(Said) /\ Len(s3) = n
      /\ \A i \in 1 .. n : s3[i] = s2[i] \/ (s2[i] = "/" /\ s3[i] = "or")
  <2>1. Lacks(s2, "or")
    BY <1>6, <1>7 DEF Lacks
  <2>2. WordedSymbol(s2, s3, "/", "or")
    BY <1>3, <2>1, SymbolWorded
  <2> HIDE DEF s3
  <2> QED
    BY <1>6, <2>2 DEF WordedSymbol
<1>9. Worded(t) = s3
  BY DEF Worded, s1, s2
<1> HIDE DEF s3
<1>10. ASSUME NEW i \in 1 .. n
       PROVE  /\ t[i] = "$" <=> s3[i] \in {"$", "dollar"}
              /\ t[i] = "$" /\ Alone(t, i) => s3[i] = "dollar"
              /\ s3[i] = "dollar" => ~Beside(t, i)
              /\ s3[i] = Quote <=> t[i] = Quote
  <2>1. t[i] = "$" <=> s1[i] = "$"
    BY <1>2, <1>4
  <2>2. s1[i] = "$" <=> s2[i] \in {"$", "dollar"}
    BY <1>4, <1>5, <1>6
  <2>3. s3[i] = "dollar" <=> s2[i] = "dollar"
    BY <1>8
  <2>4. s3[i] = "$" <=> s2[i] = "$"
    BY <1>8
  <2>5. Alone(t, i) => Alone(s1, i)
    BY <1>2, <1>4, Zenon DEF Alone
  <2>6. Beside(t, i) => Beside(s1, i)
    BY <1>4 DEF Beside
  <2>7. s3[i] = Quote <=> t[i] = Quote
    BY <1>2, <1>4, <1>6, <1>8
  <2> QED
    BY <1>6, <2>1, <2>2, <2>3, <2>4, <2>5, <2>6, <2>7
<1> QED
  BY <1>8, <1>9, <1>10 DEF WordedFrom

\* Of S only, it is how many characters there are.
LEMMA NumberOfAll ==
  ASSUME NEW t, NEW S, NEW a \in Int, NEW b \in Int, a - 1 <= b, \A i \in a .. b : t[i] \in S
  PROVE  Number(t, S, a, b) = b - a + 1
<1>1. {i \in a .. b : t[i] \in S} = a .. b
  OBVIOUS
<1>2. Cardinality(a .. b) = b - a + 1
  BY FS_Interval
<1> QED
  BY <1>1, <1>2 DEF Number

\* u is t without the characters from a + 1 to b, of which only the spaces are kept, if they
\* are read out.
Dropped(t, u, a, b, k) ==
    /\ t \in Seq(Said) /\ u \in Seq(Said) /\ a \in Nat /\ b \in Nat /\ k \in Nat
    /\ Spliced(t, u, a, b, k)
    /\ k = Number(t, Aloud, a + 1, b)
    /\ \A i \in a + 1 .. b : t[i] \in Aloud => t[i] = Blank
    /\ \A i \in a + 1 .. a + k : u[i] = Blank

\* What is read out stays.
LEMMA DroppedLoud ==
  ASSUME NEW t, NEW u, NEW a, NEW b, NEW k, Dropped(t, u, a, b, k)
  PROVE  Loud(u) = Loud(t)
<1> DEFINE d == a + k - b
<1>0. /\ t \in Seq(Said) /\ u \in Seq(Said) /\ a \in Nat /\ b \in Nat /\ k \in Nat
      /\ Len(t) \in Nat /\ a <= b /\ b <= Len(t) /\ Len(u) = Len(t) + d /\ Len(u) \in Nat
      /\ \A i \in 1 .. a : u[i] = t[i]
      /\ \A i \in b + 1 .. Len(t) : u[i + d] = t[i]
      /\ DOMAIN t = 1 .. Len(t) /\ DOMAIN u = 1 .. Len(u)
  BY LenProperties DEF Dropped, Spliced
<1>1. /\ k = Number(t, Aloud, a + 1, b)
      /\ \A i \in a + 1 .. b : t[i] \in Aloud => t[i] = Blank
      /\ \A i \in a + 1 .. a + k : u[i] = Blank
  BY DEF Dropped
<1>2. Number(u, Aloud, a + 1, a + k) = k
  <2>1. Blank \in Aloud
    BY DEF Blank, Aloud, Said, Characters, Silent, Quote
  <2>2. a + 1 \in Int /\ a + k \in Int /\ (a + 1) - 1 <= a + k
        /\ \A i \in a + 1 .. a + k : u[i] \in Aloud
    BY <1>0, <1>1, <2>1
  <2>3. Number(u, Aloud, a + 1, a + k) = (a + k) - (a + 1) + 1
    BY <2>2, NumberOfAll
  <2> QED
    BY <1>0, <2>3
<1>3. /\ \A i \in 0 .. a : Number(u, Aloud, 1, i) = Number(t, Aloud, 1, i)
      /\ \A i \in b .. Len(t) : Number(u, Aloud, 1, i + d) = Number(t, Aloud, 1, i)
  <2>1. Spliced(t, u, a, b, k)
    BY DEF Dropped
  <2>2. /\ \A i \in 0 .. a : Number(u, Aloud, 1, i) = Number(t, Aloud, 1, i)
        /\ \A i \in b .. Len(t) :
               Number(u, Aloud, 1, i + d) + Number(t, Aloud, a + 1, b)
                 = Number(t, Aloud, 1, i) + Number(u, Aloud, a + 1, a + k)
    <3>1. SplicedNumbers(t, u, a, b, k, Aloud)
      BY <1>0, <2>1, SplicedNumber
    <3> QED
      BY <3>1 DEF SplicedNumbers
  <2>3. ASSUME NEW i \in b .. Len(t)
        PROVE  Number(u, Aloud, 1, i + d) = Number(t, Aloud, 1, i)
    <3>1. Number(u, Aloud, 1, i + d) \in Nat /\ Number(t, Aloud, 1, i) \in Nat
      <4>1. 1 \in Int /\ i \in Int /\ i + d \in Int
        BY <1>0
      <4> QED
        BY <4>1, NumberType, Zenon
    <3> HIDE DEF d
    <3> QED
      BY <1>0, <1>1, <1>2, <2>2, <3>1
  <2> QED
    BY <2>2, <2>3
<1>4. \A s, i : Heard(s, i) = Number(s, Aloud, 1, i)
  BY DEF Heard, Number
<1>5. Heard(u, Len(u)) = Heard(t, Len(t))
  BY <1>0, <1>3, <1>4
<1>6. ASSUME NEW i \in DOMAIN u, u[i] \in Aloud
      PROVE  \E j \in DOMAIN t : t[j] \in Aloud /\ Heard(t, j) = Heard(u, i) /\ t[j] = u[i]
  <2>0. i \in 1 .. Len(u) /\ d \in Int /\ b + d = a + k
    BY <1>0
  <2>1. CASE i <= a
    <3>1. i \in 1 .. a /\ i \in DOMAIN t /\ u[i] = t[i]
      BY <1>0, <2>0, <2>1
    <3>2. Heard(t, i) = Heard(u, i)
      BY <1>0, <1>3, <1>4, <3>1
    <3> QED
      BY <1>6, <3>1, <3>2
  <2>2. CASE i > a + k
    <3>1. i - d \in b + 1 .. Len(t) /\ i - d \in DOMAIN t /\ (i - d) + d = i
      BY <1>0, <2>0, <2>2
    <3>2. u[i] = t[i - d]
      BY <1>0, <3>1
    <3>3. Heard(t, i - d) = Heard(u, i)
      BY <1>0, <1>3, <1>4, <3>1
    <3> QED
      BY <1>6, <3>1, <3>2, <3>3
  <2>3. CASE i > a /\ i <= a + k
    <3> DEFINE n == Number(u, Aloud, 1, i)
    <3>0. i \in Nat /\ a + k \in Nat
      BY <1>0, <2>0
    <3>1. Number(u, Aloud, 1, a) < n
      BY <1>0, <1>6, <2>3, <3>0, NumberGrows
    <3>2. n \in Nat /\ Number(u, Aloud, 1, a) \in Nat /\ Number(u, Aloud, 1, a + k) \in Nat
      <4>1. 1 \in Int /\ i \in Int /\ a \in Int /\ a + k \in Int
        BY <1>0, <3>0
      <4> QED
        BY <4>1, NumberType, Zenon
    <3>3. n <= Number(u, Aloud, 1, a + k)
      <4>1. CASE i = a + k
        BY <3>2, <4>1
      <4>2. CASE i < a + k
        <5>1. u[a + k] \in Aloud
          <6>1. a + k \in a + 1 .. a + k /\ i \in a + 1 .. a + k
            BY <1>0, <2>3, <3>0
          <6>2. u[a + k] = Blank /\ u[i] = Blank
            BY <1>1, <6>1
          <6> QED
            BY <1>6, <6>2
        <5>2. n < Number(u, Aloud, 1, a + k)
          BY <3>0, <4>2, <5>1, NumberGrows
        <5> QED
          BY <3>2, <5>2
      <4> QED
        BY <2>3, <3>0, <4>1, <4>2
    <3>4. Number(u, Aloud, 1, a + k) = Number(t, Aloud, 1, b)
      <4>1. b \in b .. Len(t)
        BY <1>0
      <4>2. Number(u, Aloud, 1, b + d) = Number(t, Aloud, 1, b)
        BY <1>3, <4>1
      <4> QED
        BY <2>0, <4>2
    <3>5. n \in 1 .. Number(t, Aloud, 1, b)
      BY <3>1, <3>2, <3>3, <3>4
    <3> HIDE DEF n, d
    <3>6. PICK j \in 1 .. b : t[j] \in Aloud /\ Number(t, Aloud, 1, j) = n
      BY <1>0, <3>5, NumberMeets
    <3>7. j > a
      <4>1. SUFFICES ASSUME j <= a PROVE FALSE
        BY <1>0, <3>6
      <4>2. Number(t, Aloud, 1, j) = Number(u, Aloud, 1, j)
        BY <1>0, <1>3, <4>1
      <4>3. j \in Nat /\ j < i
        BY <1>0, <2>3, <3>0, <4>1
      <4>4. Number(u, Aloud, 1, j) < Number(u, Aloud, 1, i)
        BY <1>6, <3>0, <4>3, NumberGrows
      <4> QED
        BY <3>2, <3>6, <4>2, <4>4 DEF n
    <3>8. t[j] = Blank /\ u[i] = Blank /\ j \in DOMAIN t
      BY <1>0, <1>1, <2>3, <3>0, <3>6, <3>7
    <3>9. Heard(t, j) = Heard(u, i)
      BY <1>4, <3>6 DEF n
    <3> QED
      BY <3>6, <3>8, <3>9
  <2> QED
    BY <1>0, <2>0, <2>1, <2>2, <2>3
<1> QED
  BY <1>0, <1>5, <1>6, SameLoud

\* A character that is nowhere in what is dropped, and no space, is there as often.
LEMMA DroppedCount ==
  ASSUME NEW t, NEW u, NEW a, NEW b, NEW k, Dropped(t, u, a, b, k), NEW c, c # Blank
  PROVE  /\ Count(u, c) + Number(t, {c}, a + 1, b) = Count(t, c)
         /\ Number(t, {c}, a + 1, b) \in Nat /\ Count(u, c) \in Nat
<1> DEFINE d == a + k - b
<1>0. /\ t \in Seq(Said) /\ u \in Seq(Said) /\ a \in Nat /\ b \in Nat /\ k \in Nat
      /\ Len(t) \in Nat /\ a <= b /\ b <= Len(t) /\ Len(u) = Len(t) + d /\ Len(u) \in Nat
      /\ DOMAIN t = 1 .. Len(t) /\ DOMAIN u = 1 .. Len(u)
      /\ Spliced(t, u, a, b, k)
      /\ \A i \in a + 1 .. a + k : u[i] = Blank
  <2>1. t \in Seq(Said) /\ u \in Seq(Said) /\ a \in Nat /\ b \in Nat /\ k \in Nat
        /\ Spliced(t, u, a, b, k) /\ \A i \in a + 1 .. a + k : u[i] = Blank
    BY DEF Dropped
  <2>2. Len(t) \in Nat /\ Len(u) \in Nat /\ DOMAIN t = 1 .. Len(t) /\ DOMAIN u = 1 .. Len(u)
    BY <2>1, LenProperties
  <2>3. a <= b /\ b <= Len(t) /\ Len(u) = Len(t) - (b - a) + k
    BY <2>1 DEF Spliced
  <2> QED
    BY <2>1, <2>2, <2>3
<1>1. Number(u, {c}, a + 1, a + k) = 0
  <2>1. a + 1 \in Int /\ a + k \in Int /\ \A i \in a + 1 .. a + k : u[i] \notin {c}
    BY <1>0
  <2> QED
    BY <2>1, NumberOfNone
<1>2. Number(u, {c}, 1, Len(t) + d) + Number(t, {c}, a + 1, b)
        = Number(t, {c}, 1, Len(t)) + Number(u, {c}, a + 1, a + k)
  <2>1. Len(t) \in b .. Len(t)
    BY <1>0
  <2>2. SplicedNumbers(t, u, a, b, k, {c})
    BY <1>0, SplicedNumber
  <2> QED
    BY <2>1, <2>2 DEF SplicedNumbers
<1>3. Count(u, c) = Number(u, {c}, 1, Len(t) + d) /\ Count(t, c) = Number(t, {c}, 1, Len(t))
  <2>1. /\ {i \in DOMAIN u : u[i] = c} = {i \in 1 .. Len(t) + d : u[i] \in {c}}
        /\ {i \in DOMAIN t : t[i] = c} = {i \in 1 .. Len(t) : t[i] \in {c}}
    BY <1>0
  <2> QED
    BY <2>1 DEF Count, Number
<1>4. /\ Number(t, {c}, a + 1, b) \in Nat /\ Number(u, {c}, 1, Len(t) + d) \in Nat
      /\ Number(t, {c}, 1, Len(t)) \in Nat
  <2>1. 1 \in Int /\ a + 1 \in Int /\ b \in Int /\ Len(t) \in Int /\ Len(t) + d \in Int
    BY <1>0
  <2> QED
    BY <2>1, NumberType, Zenon
<1> HIDE DEF d
<1> QED
  BY <1>1, <1>2, <1>3, <1>4

-------------------------------------------------------------------------------
(* What follows a punctuation.                                             *)

\* Where the silent punctuation and the spaces after p end
FollowsTo(t, p, F) ==
    /\ F \in p + 1 .. Len(t) + 1
    /\ \A i \in p + 1 .. F - 1 : t[i] \in Silent \cup {Blank}
    /\ F <= Len(t) => t[F] \notin Silent \cup {Blank}

\* That is what Follows finds.
LEMMA FollowsFacts ==
  ASSUME NEW t \in Seq(Said), NEW p \in 1 .. Len(t)
  PROVE  FollowsTo(t, p, Follows(t, p))
<1> DEFINE ends == {i \in p + 1 .. Len(t) : t[i] \notin Silent \cup {Blank}}
<1>0. Len(t) \in Nat
  BY LenProperties
<1>1. CASE ends = {}
  <2>1. Follows(t, p) = Len(t) + 1
    BY <1>1 DEF Follows
  <2>2. \A i \in p + 1 .. (Len(t) + 1) - 1 : t[i] \in Silent \cup {Blank}
    BY <1>0, <1>1
  <2> QED
    BY <1>0, <2>1, <2>2 DEF FollowsTo
<1>2. CASE ends # {}
  <2>1. Follows(t, p) = Min(ends)
    BY <1>2 DEF Follows
  <2>2. ends \in SUBSET Nat
    BY <1>0
  <2>3. Min(ends) \in ends /\ \A i \in ends : Min(ends) <= i
    BY <1>2, <2>2, LeastOne
  <2> DEFINE F == Min(ends)
  <2>4. F \in p + 1 .. Len(t) /\ t[F] \notin Silent \cup {Blank}
    BY <2>3
  <2>5. ASSUME NEW i \in p + 1 .. F - 1 PROVE t[i] \in Silent \cup {Blank}
    <3>1. i \in p + 1 .. Len(t) /\ ~(F <= i)
      BY <1>0, <2>4
    <3>2. i \notin ends
      BY <2>3, <3>1
    <3> QED
      BY <3>1, <3>2
  <2> HIDE DEF F
  <2>6. FollowsTo(t, p, F)
    BY <1>0, <2>4, <2>5 DEF FollowsTo
  <2> QED
    BY <2>1, <2>6 DEF F
<1> QED
  BY <1>1, <1>2

\* What is dropped after the punctuation at p
LEMMA SpacesFacts ==
  ASSUME NEW t \in Seq(Said), NEW p \in 1 .. Len(t)
  PROVE  LET F == Follows(t, p)
             u == SubSeq(t, 1, p) \o Spaces(t, p) \o SubSeq(t, F, Len(t))
         IN  Dropped(t, u, p, F - 1, Len(Spaces(t, p)))
<1> DEFINE F == Follows(t, p)
           S == Spaces(t, p)
           k == Len(S)
           u == SubSeq(t, 1, p) \o S \o SubSeq(t, F, Len(t))
<1>0. Len(t) \in Nat /\ p \in Nat
  BY LenProperties
<1>1. /\ F \in p + 1 .. Len(t) + 1 /\ F \in Nat /\ F - 1 \in Nat /\ p <= F - 1 /\ F - 1 <= Len(t)
      /\ (F - 1) + 1 = F
      /\ \A i \in p + 1 .. F - 1 : t[i] \in Silent \cup {Blank}
  <2>1. /\ F \in p + 1 .. Len(t) + 1
        /\ \A i \in p + 1 .. F - 1 : t[i] \in Silent \cup {Blank}
    BY FollowsFacts DEF FollowsTo
  <2> HIDE DEF F
  <2> QED
    BY <1>0, <2>1
<1> HIDE DEF F
<1>2. Blank \in Said /\ Blank \in Aloud /\ \A d \in Silent : d \notin Aloud
  BY DEF Blank, Aloud, Said, Characters, Silent, Quote
<1>3. {i \in p + 1 .. F - 1 : t[i] = Blank} = {i \in p + 1 .. F - 1 : t[i] \in Aloud}
  BY <1>1, <1>2
<1> DEFINE n == Number(t, Aloud, p + 1, F - 1)
<1>4. n \in Nat
  <2>1. p + 1 \in Int /\ F - 1 \in Int
    BY <1>0, <1>1
  <2> QED
    BY <2>1, NumberType, Zenon
<1>5. S = [j \in 1 .. n |-> Blank]
  BY <1>3 DEF Spaces, Number, F
<1> HIDE DEF S, n
<1>6. S \in Seq(Said) /\ k = n /\ \A j \in 1 .. n : S[j] = Blank
  BY <1>2, <1>4, <1>5
<1>7. SplicedBy(t, SubSeq(t, 1, p) \o S \o SubSeq(t, (F - 1) + 1, Len(t)), p, F - 1, S)
  BY <1>0, <1>1, <1>6, SplicedIn
<1>8. SplicedBy(t, u, p, F - 1, S)
  BY <1>1, <1>7
<1> HIDE DEF u, k
<1>9. u \in Seq(Said) /\ Spliced(t, u, p, F - 1, k) /\ \A j \in 1 .. k : u[p + j] = S[j]
  BY <1>8 DEF SplicedBy, k
<1>10. ASSUME NEW i \in p + 1 .. p + k PROVE u[i] = Blank
  <2>1. i - p \in 1 .. k /\ p + (i - p) = i
    BY <1>0, <1>4, <1>6
  <2> QED
    BY <1>6, <1>9, <2>1
<1>11. Dropped(t, u, p, F - 1, k)
  <2>1. \A i \in p + 1 .. F - 1 : t[i] \in Aloud => t[i] = Blank
    BY <1>1, <1>2
  <2>2. k \in Nat /\ k = Number(t, Aloud, p + 1, F - 1)
    BY <1>4, <1>6 DEF n
  <2> QED
    BY <1>0, <1>1, <1>9, <1>10, <2>1, <2>2 DEF Dropped
<1> QED
  BY <1>11 DEF F, S, k, u

\* What becomes of a quote at pos
UnquotedTo(text, pos, t, p) ==
    \/ /\ pos <= Len(text) /\ text[pos] = Quote /\ p = pos + 1
       /\ Dropped(text, t, pos - 1, pos, 0)
    \/ t = text /\ p = pos /\ (pos <= Len(text) => text[pos] # Quote)

\* That is what Unquoted does.
LEMMA UnquotedFacts ==
  ASSUME NEW text \in Seq(Said), NEW pos \in Nat \ {0}
  PROVE  UnquotedTo(text, pos, Unquoted(text, pos)[1], Unquoted(text, pos)[2])
<1>0. Len(text) \in Nat
  BY LenProperties
<1>1. CASE pos <= Len(text) /\ text[pos] = Quote
  <2> DEFINE t == RemoveAt(text, pos)
             a == pos - 1
  <2>0. a \in Nat /\ pos \in Nat /\ a <= pos /\ a + 1 = pos
    OBVIOUS
  <2>1. Unquoted(text, pos)[1] = t /\ Unquoted(text, pos)[2] = pos + 1
    BY <1>1 DEF Unquoted
  <2>2. SplicedBy(text, SubSeq(text, 1, a) \o << >> \o SubSeq(text, pos + 1, Len(text)), a, pos, << >>)
    BY <1>0, <1>1, <2>0, EmptySeq, SplicedIn
  <2>3. SubSeq(text, 1, a) \o << >> = SubSeq(text, 1, a)
    <3>1. SubSeq(text, 1, a) \in Seq(Said)
      BY <1>0, <1>1, <2>0
    <3> QED
      BY <3>1, ConcatEmptySeq
  <2>4. t \in Seq(Said) /\ Spliced(text, t, a, pos, 0)
    BY <2>2, <2>3, EmptySeq DEF SplicedBy, RemoveAt
  <2> HIDE DEF t
  <2>5. text[pos] \notin Aloud
    BY <1>1 DEF Aloud
  <2>6. \A i \in a + 1 .. pos : i = pos
    BY <2>0
  <2>7. Number(text, Aloud, a + 1, pos) = 0
    BY <2>0, <2>5, <2>6, NumberOfNone
  <2>8. \A i \in a + 1 .. a + 0 : FALSE
    BY <2>0
  <2>9. Dropped(text, t, a, pos, 0)
    BY <2>0, <2>4, <2>5, <2>6, <2>7, <2>8 DEF Dropped
  <2> QED
    BY <1>1, <2>1, <2>9 DEF UnquotedTo
<1>2. CASE ~(pos <= Len(text) /\ text[pos] = Quote)
  BY <1>2 DEF Unquoted, UnquotedTo
<1> QED
  BY <1>1, <1>2

\* Counting a character, and finding none
LEMMA CountType ==
  ASSUME NEW t \in Seq(Said), NEW c
  PROVE  /\ Count(t, c) \in Nat
         /\ Count(t, c) = 0 <=> \A i \in 1 .. Len(t) : t[i] # c
<1>0. DOMAIN t = 1 .. Len(t) /\ Len(t) \in Nat
  BY LenProperties
<1>1. Count(t, c) = Cardinality({i \in 1 .. Len(t) : t[i] = c})
  BY <1>0 DEF Count
<1>2. IsFiniteSet({i \in 1 .. Len(t) : t[i] = c})
  <2>1. IsFiniteSet(1 .. Len(t))
    BY <1>0, FS_Interval
  <2> QED
    BY <2>1, FS_Subset
<1>3. Count(t, c) = 0 <=> {i \in 1 .. Len(t) : t[i] = c} = {}
  BY <1>1, <1>2, FS_EmptySet
<1> QED
  BY <1>1, <1>2, <1>3, FS_CardinalityType

\* No silent punctuation follows punctuation that is before pos.
NothingFollows(t, pos) ==
    \A j, l \in 1 .. Len(t) : ~(/\ j < l /\ j < pos /\ t[j] \in Punctuation /\ t[l] \in Silent
                                /\ \A i \in j + 1 .. l - 1 : t[i] \in Silent \cup {Blank})

\* What is kept of W, as t is looked at from pos on and has no quote up to q, if it has as
\* many as W
Keeps(W, t, pos, q) ==
    /\ t \in Seq(Said) /\ pos \in Nat \ {0}
    /\ pos <= Len(t) => t[Len(t)] = W[Len(W)]
    /\ Loud(t) = Loud(W)
    /\ \A c \in {"$", "dollar"} : Count(t, c) = Count(W, c)
    /\ \/ Count(t, Quote) < Count(W, Quote)
       \/ Count(t, Quote) = Count(W, Quote) /\ \A i \in 1 .. Len(t) : i <= q => t[i] # Quote
    /\ Count(W, Quote) = 0 => NothingFollows(t, pos)
KeptInside(W, text, pos) == Keeps(W, text, pos, pos - 1) /\ pos <= Len(text) + 1
KeptUnquoted(W, t, p) == Keeps(W, t, p, p) /\ (p > Len(t) + 1 => W[Len(W)] = Quote)

\* Dropping a quote keeps it,
LEMMA UnquotedKeeps ==
  ASSUME NEW W \in Seq(Said), NEW text, NEW pos, NEW t, NEW p,
         KeptInside(W, text, pos), UnquotedTo(text, pos, t, p)
  PROVE  KeptUnquoted(W, t, p) /\ p >= pos /\ Len(t) <= Len(text) /\ Len(t) \in Nat
<1>0. /\ text \in Seq(Said) /\ pos \in Nat \ {0} /\ Len(text) \in Nat
      /\ pos <= Len(text) => text[Len(text)] = W[Len(W)]
      /\ Loud(text) = Loud(W)
      /\ \A c \in {"$", "dollar"} : Count(text, c) = Count(W, c)
      /\ \/ Count(text, Quote) < Count(W, Quote)
         \/ Count(text, Quote) = Count(W, Quote) /\ \A i \in 1 .. Len(text) : i <= pos - 1 => text[i] # Quote
      /\ Count(W, Quote) = 0 => NothingFollows(text, pos)
      /\ pos <= Len(text) + 1
  BY LenProperties DEF KeptInside, Keeps
<1>1. CASE t = text /\ p = pos /\ (pos <= Len(text) => text[pos] # Quote)
  <2>1. ASSUME NEW i \in 1 .. Len(text), i <= pos, \A j \in 1 .. Len(text) : j <= pos - 1 => text[j] # Quote
        PROVE  text[i] # Quote
    BY <1>0, <1>1, <2>1
  <2> QED
    BY <1>0, <1>1, <2>1 DEF KeptUnquoted, Keeps
<1>2. CASE /\ pos <= Len(text) /\ text[pos] = Quote /\ p = pos + 1
           /\ Dropped(text, t, pos - 1, pos, 0)
  <2> DEFINE a == pos - 1
  <2>0. a \in Nat /\ a + 1 = pos
    BY <1>0
  <2>1. t \in Seq(Said) /\ Spliced(text, t, a, pos, 0) /\ Len(t) \in Nat
    BY <1>2, LenProperties DEF Dropped
  <2>2. Len(t) = Len(text) - 1 /\ \A i \in pos + 1 .. Len(text) : t[i + (a + 0 - pos)] = text[i]
    BY <1>0, <2>0, <2>1 DEF Spliced
  <2>3. p <= Len(t) => t[Len(t)] = W[Len(W)]
    <3>1. SUFFICES ASSUME p <= Len(t) PROVE t[Len(t)] = W[Len(W)]
      OBVIOUS
    <3>2. Len(text) \in pos + 1 .. Len(text) /\ Len(text) + (a + 0 - pos) = Len(t)
      <4>1. a \in Int /\ pos \in Int /\ Len(text) \in Int /\ Len(t) = Len(text) - 1 /\ p = pos + 1 /\ a + 1 = pos
        BY <1>0, <1>2, <2>0, <2>2
      <4> HIDE DEF a
      <4> QED
        BY <3>1, <4>1
    <3>3. t[Len(t)] = text[Len(text)]
      BY <2>2, <3>2
    <3> QED
      BY <1>0, <1>2, <3>3
  <2>4. p > Len(t) + 1 => W[Len(W)] = Quote
    <3>1. SUFFICES ASSUME p > Len(t) + 1 PROVE W[Len(W)] = Quote
      OBVIOUS
    <3>2. pos = Len(text)
      BY <1>0, <1>2, <2>2, <3>1
    <3> QED
      BY <1>0, <1>2, <3>2
  <2> HIDE DEF a
  <2>5. Dropped(text, t, a, pos, 0)
    BY <1>2 DEF a
  <2>6. Loud(t) = Loud(text)
    BY <2>5, DroppedLoud
  <2>7. Number(text, {"$"}, pos, pos) = 0 /\ Number(text, {"dollar"}, pos, pos) = 0
        /\ Number(text, {Quote}, pos, pos) = 1
    BY <1>0, <1>2, NumberOfOne DEF Quote
  <2>8. /\ Count(t, "$") + Number(text, {"$"}, pos, pos) = Count(text, "$") /\ Count(t, "$") \in Nat
        /\ Count(t, "dollar") + Number(text, {"dollar"}, pos, pos) = Count(text, "dollar") /\ Count(t, "dollar") \in Nat
        /\ Count(t, Quote) + Number(text, {Quote}, pos, pos) = Count(text, Quote) /\ Count(t, Quote) \in Nat
    <3>1. "$" # Blank /\ "dollar" # Blank /\ Quote # Blank
      BY DEF Blank, Quote
    <3>2. \A c : c # Blank => /\ Count(t, c) + Number(text, {c}, a + 1, pos) = Count(text, c)
                              /\ Count(t, c) \in Nat
      BY <2>5, DroppedCount
    <3> QED
      BY <2>0, <3>1, <3>2
  <2>9. \A c \in {"$", "dollar"} : Count(t, c) = Count(W, c)
    BY <1>0, <2>7, <2>8
  <2>10. Count(t, Quote) < Count(W, Quote) /\ Count(W, Quote) # 0
    BY <1>0, <2>7, <2>8, CountType
  <2>11. KeptUnquoted(W, t, p)
    BY <1>0, <1>2, <2>1, <2>3, <2>4, <2>6, <2>9, <2>10 DEF KeptUnquoted, Keeps
  <2> QED
    BY <1>0, <1>2, <2>1, <2>2, <2>11
<1> QED
  BY <1>1, <1>2 DEF UnquotedTo

\* passing a character,
LEMMA PassedKeeps ==
  ASSUME NEW W \in Seq(Said), NEW t, NEW p, KeptUnquoted(W, t, p), p <= Len(t), t[p] \notin Punctuation
  PROVE  KeptInside(W, t, p + 1)
<1>0. /\ t \in Seq(Said) /\ p \in Nat \ {0} /\ Len(t) \in Nat
      /\ Count(W, Quote) = 0 => NothingFollows(t, p)
  BY LenProperties DEF KeptUnquoted, Keeps
<1>1. NothingFollows(t, p) => NothingFollows(t, p + 1)
  <2>1. \A j \in 1 .. Len(t) : j < p + 1 => j < p \/ j = p
    BY <1>0
  <2> QED
    BY <2>1 DEF NothingFollows
<1>2. (p + 1) - 1 = p /\ p + 1 \in Nat \ {0} /\ p + 1 <= Len(t) + 1 /\ (p + 1 <= Len(t) => p <= Len(t))
  BY <1>0
<1> QED
  BY <1>0, <1>1, <1>2 DEF KeptUnquoted, KeptInside, Keeps

\* and dropping what follows a punctuation.
LEMMA DroppedKeeps ==
  ASSUME NEW W \in Seq(Said), NEW t, NEW p, KeptUnquoted(W, t, p), p <= Len(t), t[p] \in Punctuation,
         NEW F, FollowsTo(t, p, F), NEW u, NEW k, Dropped(t, u, p, F - 1, k)
  PROVE  KeptInside(W, u, p + 1 + k)
<1> DEFINE d == p + k - (F - 1)
<1>0. /\ t \in Seq(Said) /\ p \in Nat \ {0} /\ Len(t) \in Nat
      /\ p <= Len(t) => t[Len(t)] = W[Len(W)]
      /\ Loud(t) = Loud(W)
      /\ \A c \in {"$", "dollar"} : Count(t, c) = Count(W, c)
      /\ \/ Count(t, Quote) < Count(W, Quote)
         \/ Count(t, Quote) = Count(W, Quote) /\ \A i \in 1 .. Len(t) : i <= p => t[i] # Quote
      /\ Count(W, Quote) = 0 => NothingFollows(t, p)
  BY LenProperties DEF KeptUnquoted, Keeps
<1>1. /\ F \in p + 1 .. Len(t) + 1
      /\ \A i \in p + 1 .. F - 1 : t[i] \in Silent \cup {Blank}
      /\ F <= Len(t) => t[F] \notin Silent \cup {Blank}
  BY DEF FollowsTo
<1>2. u \in Seq(Said) /\ k \in Nat /\ Spliced(t, u, p, F - 1, k) /\ \A i \in p + 1 .. p + k : u[i] = Blank
  BY DEF Dropped
<1>3. F \in Nat /\ F - 1 \in Nat /\ (F - 1) + 1 = F
  BY <1>0, <1>1
<1>4. /\ Len(u) = Len(t) + d /\ Len(u) \in Nat /\ d \in Int /\ F + d = p + k + 1
      /\ \A i \in 1 .. p : u[i] = t[i]
      /\ \A i \in F .. Len(t) : u[i + d] = t[i]
  <2>1. Len(u) = Len(t) - ((F - 1) - p) + k /\ Len(u) \in Nat
    BY <1>2, LenProperties DEF Spliced
  <2>2. \A i \in 1 .. p : u[i] = t[i]
    BY <1>2 DEF Spliced
  <2>3. \A i \in (F - 1) + 1 .. Len(t) : u[i + d] = t[i]
    BY <1>2 DEF Spliced
  <2> QED
    BY <1>0, <1>2, <1>3, <2>1, <2>2, <2>3
<1> HIDE DEF d
<1>5. p + 1 + k <= Len(u) => u[Len(u)] = W[Len(W)]
  <2>1. SUFFICES ASSUME p + 1 + k <= Len(u) PROVE u[Len(u)] = W[Len(W)]
    OBVIOUS
  <2>2. Len(t) \in F .. Len(t)
    BY <1>0, <1>2, <1>3, <1>4, <2>1
  <2> QED
    BY <1>0, <1>4, <2>2
<1>6. Loud(u) = Loud(t)
  BY DroppedLoud
<1>7. ASSUME NEW c \in {"$", "dollar", Quote} PROVE Count(u, c) = Count(t, c)
  <2>1. c \notin Silent \cup {Blank}
    BY DEF Silent, Blank, Quote
  <2>2. p + 1 \in Int /\ F - 1 \in Int /\ \A i \in p + 1 .. F - 1 : t[i] \notin {c}
    BY <1>0, <1>1, <1>3, <2>1
  <2>3. Number(t, {c}, p + 1, F - 1) = 0
    BY <2>2, NumberOfNone
  <2>4. Count(u, c) + Number(t, {c}, p + 1, F - 1) = Count(t, c) /\ Count(u, c) \in Nat
    BY <2>1, DroppedCount
  <2> QED
    BY <2>3, <2>4
<1>8. ASSUME \A i \in 1 .. Len(t) : i <= p => t[i] # Quote
      PROVE  \A i \in 1 .. Len(u) : i <= (p + 1 + k) - 1 => u[i] # Quote
  <2>1. TAKE i \in 1 .. Len(u)
  <2>2. CASE i <= p
    BY <1>0, <1>4, <1>8, <2>2
  <2>3. CASE i > p /\ i <= p + k
    <3>1. u[i] = Blank
      BY <1>0, <1>2, <1>4, <2>3
    <3> QED
      BY <3>1 DEF Blank, Quote
  <2> QED
    BY <1>0, <1>2, <1>4, <2>2, <2>3
<1>9. ASSUME NothingFollows(t, p) PROVE NothingFollows(u, p + 1 + k)
  <2>1. SUFFICES ASSUME NEW j \in 1 .. Len(u), NEW l \in 1 .. Len(u), j < l, j < p + 1 + k,
                        u[j] \in Punctuation, u[l] \in Silent,
                        \A i \in j + 1 .. l - 1 : u[i] \in Silent \cup {Blank}
                 PROVE  FALSE
    BY DEF NothingFollows
  <2>0. j \in Nat /\ l \in Nat /\ Blank \notin Punctuation /\ Blank \notin Silent
    BY <1>4 DEF Blank, Punctuation, Silent, Quote
  <2>2. CASE j < p /\ l <= p
    <3>1. /\ j \in 1 .. Len(t) /\ l \in 1 .. Len(t) /\ u[j] = t[j] /\ u[l] = t[l]
          /\ \A i \in j + 1 .. l - 1 : u[i] = t[i]
      BY <1>0, <1>4, <2>0, <2>2
    <3> QED
      BY <1>9, <2>1, <2>2, <3>1 DEF NothingFollows
  <2>3. CASE j < p /\ l > p
    <3>1. /\ j \in 1 .. Len(t) /\ p \in 1 .. Len(t) /\ u[j] = t[j] /\ u[p] = t[p]
          /\ \A i \in j + 1 .. p - 1 : u[i] = t[i] /\ i \in j + 1 .. l - 1
          /\ p \in j + 1 .. l - 1
      BY <1>0, <1>4, <2>0, <2>3
    <3>2. t[p] \in Silent
      <4>1. u[p] \in Silent \cup {Blank}
        BY <2>1, <3>1
      <4> QED
        BY <2>0, <3>1, <4>1
    <3>3. \A i \in j + 1 .. p - 1 : t[i] \in Silent \cup {Blank}
      BY <2>1, <3>1
    <3> QED
      BY <1>9, <2>1, <2>3, <3>1, <3>2, <3>3 DEF NothingFollows
  <2>4. CASE j > p
    <3>1. u[j] = Blank
      BY <1>0, <1>2, <2>0, <2>1, <2>4
    <3> QED
      BY <2>0, <2>1, <3>1
  <2>5. CASE j = p
    <3>1. CASE l <= p + k
      <4>1. u[l] = Blank
        BY <1>0, <1>2, <2>0, <2>1, <2>5, <3>1
      <4> QED
        BY <2>0, <2>1, <4>1
    <3>2. CASE l > p + k
      <4>1. F <= Len(t) /\ F \in F .. Len(t)
        BY <1>0, <1>2, <1>3, <1>4, <2>0, <3>2
      <4>2. u[p + k + 1] \notin Silent \cup {Blank}
        BY <1>1, <1>4, <4>1
      <4>3. p + k + 1 = l \/ p + k + 1 \in j + 1 .. l - 1
        BY <1>0, <1>2, <2>0, <2>5, <3>2
      <4> QED
        BY <2>1, <4>2, <4>3
    <3> QED
      BY <1>0, <1>2, <2>0, <3>1, <3>2
  <2> QED
    BY <1>0, <2>0, <2>2, <2>3, <2>4, <2>5
<1>10. p + 1 + k \in Nat \ {0} /\ p + 1 + k <= Len(u) + 1
  BY <1>0, <1>1, <1>2, <1>3, <1>4
<1>11. Count(u, Quote) = Count(t, Quote) /\ \A c \in {"$", "dollar"} : Count(u, c) = Count(t, c)
  BY <1>7
<1>12. Keeps(W, u, p + 1 + k, (p + 1 + k) - 1)
  BY <1>0, <1>2, <1>5, <1>6, <1>8, <1>9, <1>10, <1>11 DEF Keeps
<1> QED
  BY <1>10, <1>12 DEF KeptInside

\* The next time round of replaceSuccesivePunctuation
NextLook(x) ==
    LET t == Unquoted(x[1], x[2])[1]
        p == Unquoted(x[1], x[2])[2]
    IN  IF t[p] \notin Punctuation THEN <<t, p + 1>>
        ELSE <<SubSeq(t, 1, p) \o Spaces(t, p) \o SubSeq(t, Follows(t, p), Len(t)),
               p + 1 + Len(Spaces(t, p))>>
LooksOn(x) == Unquoted(x[1], x[2])[2] <= Len(Unquoted(x[1], x[2])[1])

\* Text and position stay in range.
LEMMA UnquotedType ==
  ASSUME NEW text \in Seq(Said), NEW pos \in Nat \ {0}
  PROVE  /\ Unquoted(text, pos)[1] \in Seq(Said)
         /\ Unquoted(text, pos)[2] \in Nat \ {0}
<1> DEFINE t == Unquoted(text, pos)[1]
           p == Unquoted(text, pos)[2]
<1>1. UnquotedTo(text, pos, t, p)
  BY UnquotedFacts
<1> HIDE DEF t, p
<1>2. t \in Seq(Said) /\ p \in Nat \ {0}
  BY <1>1 DEF UnquotedTo, Dropped
<1> QED
  BY <1>2 DEF t, p

\* Where it goes
NextTo(t, p, y) ==
    /\ t \in Seq(Said) /\ p \in Nat \ {0} /\ p <= Len(t)
    /\ \/ t[p] \notin Punctuation /\ y = <<t, p + 1>>
       \/ \E F, u, k : /\ t[p] \in Punctuation /\ y = <<u, p + 1 + k>>
                       /\ FollowsTo(t, p, F) /\ Dropped(t, u, p, F - 1, k)

\* That is where the next time round goes.
LEMMA NextFacts ==
  ASSUME NEW x \in Looks, LooksOn(x)
  PROVE  /\ NextTo(Unquoted(x[1], x[2])[1], Unquoted(x[1], x[2])[2], NextLook(x))
         /\ NextLook(x) \in Looks
<1> DEFINE t == Unquoted(x[1], x[2])[1]
           p == Unquoted(x[1], x[2])[2]
           F == Follows(t, p)
           u == SubSeq(t, 1, p) \o Spaces(t, p) \o SubSeq(t, F, Len(t))
           k == Len(Spaces(t, p))
           y == NextLook(x)
<1>1. t \in Seq(Said) /\ p \in Nat \ {0}
  BY UnquotedType DEF Looks
<1>2. p <= Len(t)
  BY DEF LooksOn
<1>3. y = IF t[p] \notin Punctuation THEN <<t, p + 1>> ELSE <<u, p + 1 + k>>
  BY DEF NextLook
<1> HIDE DEF t, p, y
<1>4. Len(t) \in Nat /\ p \in 1 .. Len(t)
  BY <1>1, <1>2, LenProperties
<1>5. FollowsTo(t, p, F)
  BY <1>1, <1>4, FollowsFacts
<1>6. Dropped(t, u, p, F - 1, k)
  BY <1>1, <1>4, SpacesFacts
<1> HIDE DEF F, u, k
<1>7. u \in Seq(Said) /\ k \in Nat
  BY <1>6 DEF Dropped
<1>8. y \in Looks
  BY <1>1, <1>3, <1>7 DEF Looks
<1>9. NextTo(t, p, y)
  BY <1>1, <1>2, <1>3, <1>5, <1>6 DEF NextTo
<1> QED
  BY <1>8, <1>9 DEF t, p, y

\* What is left to look at gets less, and what is kept of W is kept.
LEMMA NextKeeps ==
  ASSUME NEW W \in Seq(Said), NEW x \in Looks, LooksOn(x), KeptInside(W, x[1], x[2])
  PROVE  LET y == NextLook(x)
         IN  KeptInside(W, y[1], y[2]) /\ Len(y[1]) - y[2] < Len(x[1]) - x[2]
<1> DEFINE t == Unquoted(x[1], x[2])[1]
           p == Unquoted(x[1], x[2])[2]
           y == NextLook(x)
<1>0. x[1] \in Seq(Said) /\ x[2] \in Nat \ {0} /\ Len(x[1]) \in Nat
  BY LenProperties DEF Looks
<1>1. UnquotedTo(x[1], x[2], t, p)
  BY <1>0, UnquotedFacts
<1>2. NextTo(t, p, y)
  BY NextFacts
<1> HIDE DEF t, p, y
<1>3. KeptUnquoted(W, t, p) /\ p >= x[2] /\ Len(t) <= Len(x[1]) /\ Len(t) \in Nat
  BY <1>1, UnquotedKeeps
<1>4. t \in Seq(Said) /\ p \in Nat \ {0} /\ p <= Len(t)
  BY <1>2 DEF NextTo
<1>5. CASE t[p] \notin Punctuation /\ y = <<t, p + 1>>
  <2>1. KeptInside(W, t, p + 1)
    BY <1>3, <1>4, <1>5, PassedKeeps
  <2>2. Len(t) - (p + 1) < Len(x[1]) - x[2]
    BY <1>0, <1>3, <1>4
  <2>3. y[1] = t /\ y[2] = p + 1
    BY <1>5
  <2> QED
    BY <2>1, <2>2, <2>3 DEF y
<1>6. ASSUME NEW F, NEW u, NEW k, t[p] \in Punctuation, y = <<u, p + 1 + k>>,
             FollowsTo(t, p, F), Dropped(t, u, p, F - 1, k)
      PROVE  KeptInside(W, y[1], y[2]) /\ Len(y[1]) - y[2] < Len(x[1]) - x[2]
  <2>1. KeptInside(W, u, p + 1 + k)
    BY <1>3, <1>4, <1>6, DroppedKeeps
  <2>2. F \in p + 1 .. Len(t) + 1 /\ k \in Nat /\ Len(u) = Len(t) - ((F - 1) - p) + k
    BY <1>6 DEF FollowsTo, Dropped, Spliced
  <2>3. Len(u) - (p + 1 + k) < Len(x[1]) - x[2]
    BY <1>0, <1>3, <1>4, <2>2
  <2>4. y[1] = u /\ y[2] = p + 1 + k
    BY <1>6
  <2> QED
    BY <2>1, <2>3, <2>4
<1>7. KeptInside(W, y[1], y[2]) /\ Len(y[1]) - y[2] < Len(x[1]) - x[2]
  BY <1>2, <1>5, <1>6 DEF NextTo, y
<1> QED
  BY <1>7 DEF y

\* So the result keeps it.
KeptInResult(W, r) ==
    \E t, p : r = [text |-> t, outside |-> p > Len(t) + 1] /\ KeptUnquoted(W, t, p) /\ p > Len(t)

\* From the text it is given, the loop comes to such a result.
LEMMA ReplacedKeeps ==
  ASSUME NEW W \in Seq(Said)
  PROVE  KeptInResult(W, replaceSuccesivePunctuation[<<W, 1>>])
<1> DEFINE t(x) == Unquoted(x[1], x[2])[1]
           p(x) == Unquoted(x[1], x[2])[2]
           Stop == {x \in Looks : ~LooksOn(x)}
           result(x) == [text |-> t(x), outside |-> p(x) > Len(t(x)) + 1]
           out == [x \in Looks |-> result(x)]
           next == [x \in Looks |-> IF x \in Stop THEN x ELSE NextLook(x)]
           m == [x \in Looks |-> IF x[2] > Len(x[1]) THEN 0 ELSE Len(x[1]) + 1 - x[2]]
           P == {x \in Looks : KeptInside(W, x[1], x[2])}
           f == replaceSuccesivePunctuation
           Body(g, x) ==
              IF p(x) > Len(t(x)) THEN result(x)
              ELSE IF t(x)[p(x)] \notin Punctuation THEN g[<<t(x), p(x) + 1>>]
              ELSE g[<<SubSeq(t(x), 1, p(x)) \o Spaces(t(x), p(x))
                         \o SubSeq(t(x), Follows(t(x), p(x)), Len(t(x))),
                       p(x) + 1 + Len(Spaces(t(x), p(x)))>>]
<1>1. ASSUME NEW x \in Looks, x \notin Stop
      PROVE  NextLook(x) \in Looks /\ next[x] = NextLook(x)
  BY <1>1, NextFacts
<1>2. next \in [Looks -> Looks]
  BY <1>1
<1>3. m \in [Looks -> Nat]
  <2>1. ASSUME NEW x \in Looks PROVE m[x] \in Nat
    BY LenProperties DEF Looks
  <2> QED
    BY <2>1
<1>4. ASSUME NEW x \in Looks
      PROVE  (x \in Stop <=> p(x) > Len(t(x))) /\ out[x] = result(x)
  <2>1. p(x) \in Nat /\ Len(t(x)) \in Nat
    BY UnquotedType, LenProperties DEF Looks
  <2> QED
    BY <2>1 DEF LooksOn
<1>5. PICK g : Loop(g, Looks, Stop, out, next)
  <2>1. Stop \in SUBSET Looks
    OBVIOUS
  <2> HIDE DEF Stop, out, next
  <2> QED
    BY <1>2, <2>1, TailRecursion
<1>6. ASSUME NEW h, NEW x \in Looks
       PROVE  (IF x \in Stop THEN out[x] ELSE h[next[x]]) = Body(h, x)
  <2>1. CASE x \in Stop
    BY <1>4, <2>1
  <2>2. CASE x \notin Stop
    <3>1. next[x] = NextLook(x) /\ ~(p(x) > Len(t(x)))
      BY <1>1, <1>4, <2>2
    <3> HIDE DEF next, Stop
    <3> QED
      BY <2>2, <3>1 DEF NextLook
  <2> QED
    BY <2>1, <2>2
<1>7. \E h : h = [x \in Looks |-> Body(h, x)]
  <2> HIDE DEF Stop, out, next, Body
  <2>1. g = [x \in Looks |-> Body(g, x)]
    BY <1>5, <1>6 DEF Loop
  <2> QED
    BY <2>1
<1>8. f = [x \in Looks |-> Body(f, x)]
  <2>1. f = CHOOSE h : h = [x \in Looks |-> Body(h, x)]
    BY DEF replaceSuccesivePunctuation, Looks
  <2> HIDE DEF f, Body
  <2> QED
    BY <1>7, <2>1
<1> HIDE DEF f
<1>9. Loop(f, Looks, Stop, out, next)
  <2>1. ASSUME NEW x \in Looks PROVE f[x] = IF x \in Stop THEN out[x] ELSE f[next[x]]
    <3> HIDE DEF Stop, out, next, Body
    <3>1. f[x] = Body(f, x)
      BY <1>8
    <3> QED
      BY <1>6, <3>1
  <2>2. f = [x \in Looks |-> f[x]]
    <3> HIDE DEF Body
    <3> QED
      BY <1>8
  <2>3. Stop \in SUBSET Looks
    OBVIOUS
  <2> HIDE DEF Stop, out, next
  <2> QED
    BY <1>2, <2>1, <2>2, <2>3 DEF Loop
<1>10. Kept(P, m, Looks, Stop, next)
  <2>1. ASSUME NEW x \in P, x \notin Stop PROVE next[x] \in P /\ m[next[x]] < m[x]
    <3> DEFINE y == NextLook(x)
    <3>1. x \in Looks /\ LooksOn(x) /\ KeptInside(W, x[1], x[2])
      BY <2>1
    <3>2. y \in Looks /\ next[x] = y
      BY <1>1, <2>1, <3>1
    <3>3. KeptInside(W, y[1], y[2]) /\ Len(y[1]) - y[2] < Len(x[1]) - x[2]
      BY <3>1, NextKeeps
    <3>4. /\ Len(x[1]) \in Nat /\ x[2] \in Nat /\ x[2] <= Len(x[1]) + 1
          /\ Len(y[1]) \in Nat /\ y[2] \in Nat /\ y[2] <= Len(y[1]) + 1
      <4> HIDE DEF y
      <4> QED
        BY <3>1, <3>2, <3>3, LenProperties DEF Looks, KeptInside
    <3> HIDE DEF y
    <3>5. m[y] = Len(y[1]) + 1 - y[2] /\ m[x] = Len(x[1]) + 1 - x[2]
      <4>1. ASSUME NEW z \in Looks, Len(z[1]) \in Nat, z[2] \in Nat, z[2] <= Len(z[1]) + 1
            PROVE  m[z] = Len(z[1]) + 1 - z[2]
        <5>1. m[z] = IF z[2] > Len(z[1]) THEN 0 ELSE Len(z[1]) + 1 - z[2]
          OBVIOUS
        <5> HIDE DEF m
        <5> QED
          BY <4>1, <5>1
      <4> HIDE DEF m, P
      <4> QED
        BY <3>1, <3>2, <3>4, <4>1
    <3> HIDE DEF m, next
    <3>6. next[x] \in P
      BY <3>2, <3>3
    <3>7. Len(y[1]) + 1 - y[2] < Len(x[1]) + 1 - x[2]
      <4> HIDE DEF P
      <4> DEFINE ly == Len(y[1])  lx == Len(x[1])  y2 == y[2]  x2 == x[2]
      <4>1. lx \in Nat /\ ly \in Nat /\ x2 \in Nat /\ y2 \in Nat /\ ly - y2 < lx - x2
        BY <3>3, <3>4
      <4> HIDE DEF lx, ly, x2, y2
      <4>2. ly + 1 - y2 < lx + 1 - x2
        BY <4>1
      <4> QED
        BY <4>2 DEF lx, ly, x2, y2
    <3>8. m[next[x]] < m[x]
      BY <3>2, <3>5, <3>7
    <3> QED
      BY <3>6, <3>8
  <2>2. P \in SUBSET Looks
    OBVIOUS
  <2> HIDE DEF Stop, next, m, P
  <2> QED
    BY <1>3, <2>1, <2>2 DEF Kept
<1>11. <<W, 1>> \in P
  <2>1. <<W, 1>> \in Looks /\ Len(W) \in Nat /\ 1 - 1 = 0
    BY LenProperties DEF Looks
  <2>2. NothingFollows(W, 1)
    <3>1. \A j \in 1 .. Len(W) : ~(j < 1)
      BY <2>1
    <3> QED
      BY <3>1 DEF NothingFollows
  <2>3. \A i \in 1 .. Len(W) : ~(i <= 0)
    BY <2>1
  <2>4. Keeps(W, W, 1, 0)
    BY <2>1, <2>2, <2>3 DEF Keeps
  <2>5. KeptInside(W, W, 1)
    BY <2>1, <2>4 DEF KeptInside
  <2> QED
    BY <2>1, <2>5
<1>12. PICK x \in P \cap Stop : f[<<W, 1>>] = out[x]
  <2> HIDE DEF Stop, out, next, m, P
  <2> QED
    BY <1>9, <1>10, <1>11, TailInvariant
<1>13. x \in Looks /\ x \in Stop /\ KeptInside(W, x[1], x[2])
  OBVIOUS
<1> DEFINE tx == t(x)
           px == p(x)
<1>14. f[<<W, 1>>] = [text |-> tx, outside |-> px > Len(tx) + 1] /\ px > Len(tx)
  BY <1>4, <1>12, <1>13
<1>15. UnquotedTo(x[1], x[2], tx, px)
  BY <1>13, UnquotedFacts DEF Looks
<1> HIDE DEF tx, px
<1>16. KeptUnquoted(W, tx, px)
  BY <1>13, <1>15, UnquotedKeeps
<1> QED
  BY <1>14, <1>16 DEF KeptInResult, f

\* A text that is asked to be said is said as it should be, however long it is.
LEMMA SanitizedSays ==
  ASSUME NEW t \in Seq(Characters), t # << >>
  PROVE  Says(t, sanitizeString(t))
<1> DEFINE W == Worded(t)
<1>0. t \in Seq(Said) /\ Len(t) \in Nat /\ DOMAIN t = 1 .. Len(t) /\ Len(t) > 0
  <2>1. t \in Seq(Said)
    BY SeqMonotonic, Characters \subseteq Said DEF Said
  <2> QED
    BY <2>1, LenProperties, EmptySeq
<1>1. /\ W \in Seq(Said) /\ Len(W) = Len(t) /\ DOMAIN W = 1 .. Len(t)
      /\ \A i \in 1 .. Len(t) : /\ t[i] = "$" <=> W[i] \in {"$", "dollar"}
                                /\ t[i] = "$" /\ Alone(t, i) => W[i] = "dollar"
                                /\ W[i] = "dollar" => ~Beside(t, i)
                                /\ W[i] = Quote <=> t[i] = Quote
  <2>1. WordedFrom(t, W)
    BY WordedFacts
  <2> HIDE DEF W
  <2> QED
    BY <1>0, <2>1, LenProperties DEF WordedFrom
<1>2. sanitizeString(t) = replaceSuccesivePunctuation[<<W, 1>>]
  BY DEF sanitizeString
<1> HIDE DEF W
<1>3. KeptInResult(W, sanitizeString(t))
  BY <1>1, <1>2, ReplacedKeeps
<1>4. PICK r, p : /\ sanitizeString(t) = [text |-> r, outside |-> p > Len(r) + 1]
                  /\ KeptUnquoted(W, r, p) /\ p > Len(r)
  BY <1>3 DEF KeptInResult
<1>5. /\ r \in Seq(Said) /\ p \in Nat \ {0}
      /\ Loud(r) = Loud(W)
      /\ \A c \in {"$", "dollar"} : Count(r, c) = Count(W, c)
      /\ \/ Count(r, Quote) < Count(W, Quote)
         \/ Count(r, Quote) = Count(W, Quote) /\ \A i \in 1 .. Len(r) : i <= p => r[i] # Quote
      /\ Count(W, Quote) = 0 => NothingFollows(r, p)
      /\ p > Len(r) + 1 => W[Len(W)] = Quote
  BY <1>4 DEF KeptUnquoted, Keeps
<1>6. Len(r) \in Nat /\ DOMAIN r = 1 .. Len(r)
  BY <1>5, LenProperties
<1> DEFINE dollars == {i \in DOMAIN t : t[i] = "$"}
           words == {i \in DOMAIN W : W[i] = "dollar"}
           signs == {i \in DOMAIN W : W[i] = "$"}
           Space(i) == i \notin DOMAIN t \/ t[i] = Blank
           alone == {i \in dollars : Space(i - 1) /\ Space(i + 1)}
           apart == {i \in dollars : "a" \notin {t[j] : j \in {i - 1, i + 1} \cap DOMAIN t}}
<1>7. p > Len(r) + 1 => Last(t) = Quote
  <2>1. Len(t) \in 1 .. Len(t)
    BY <1>0
  <2> QED
    BY <1>1, <1>5, <2>1 DEF Last
<1>8. /\ Quote \in ToSet(t) <=> \E i \in 1 .. Len(t) : t[i] = Quote
      /\ Count(W, Quote) = 0 <=> Quote \notin ToSet(t)
      /\ Count(W, Quote) = Count(t, Quote)
  <2>1. Quote \in ToSet(t) <=> \E i \in 1 .. Len(t) : t[i] = Quote
    BY <1>0 DEF ToSet
  <2>2. Count(W, Quote) = 0 <=> \A i \in 1 .. Len(W) : W[i] # Quote
    BY <1>1, CountType
  <2>3. {i \in DOMAIN W : W[i] = Quote} = {i \in DOMAIN t : t[i] = Quote}
    BY <1>0, <1>1
  <2> QED
    BY <1>1, <2>1, <2>2, <2>3 DEF Count
<1>9. Count(r, Quote) < Count(t, Quote) \/ Quote \notin ToSet(t)
  <2>1. SUFFICES ASSUME Count(r, Quote) = Count(W, Quote), \A i \in 1 .. Len(r) : i <= p => r[i] # Quote
                 PROVE  Quote \notin ToSet(t)
    BY <1>5, <1>8
  <2>2. \A i \in 1 .. Len(r) : r[i] # Quote
    BY <1>4, <1>5, <1>6, <2>1
  <2>3. Count(r, Quote) = 0
    BY <1>5, <2>2, CountType
  <2> QED
    BY <1>8, <2>1, <2>3
<1>10. /\ IsFiniteSet(dollars) /\ IsFiniteSet(words) /\ IsFiniteSet(signs)
       /\ words \subseteq dollars /\ signs \subseteq dollars
       /\ dollars = words \cup signs /\ words \cap signs = {}
  <2>1. IsFiniteSet(1 .. Len(t))
    BY <1>0, FS_Interval
  <2>2. dollars \subseteq 1 .. Len(t) /\ words \subseteq 1 .. Len(t) /\ signs \subseteq 1 .. Len(t)
    BY <1>0, <1>1
  <2>3. dollars = words \cup signs /\ words \cap signs = {}
    BY <1>0, <1>1
  <2> HIDE DEF dollars, words, signs
  <2> QED
    BY <2>1, <2>2, <2>3, FS_Subset
<1>11. Count(r, "dollar") = Cardinality(words) /\ Count(r, "$") = Cardinality(signs)
  BY <1>5 DEF Count
<1>12. Count(r, "dollar") + Count(r, "$") = Cardinality(dollars)
  <2> HIDE DEF dollars, words, signs
  <2>1. /\ Cardinality(words \cup signs) = Cardinality(words) + Cardinality(signs) - Cardinality(words \cap signs)
        /\ Cardinality(words) \in Nat /\ Cardinality(signs) \in Nat
    BY <1>10, FS_Union, FS_CardinalityType
  <2>2. Cardinality(words \cap signs) = 0
    BY <1>10, FS_EmptySet
  <2> QED
    BY <1>10, <1>11, <2>1, <2>2
<1>13. Cardinality(alone) <= Count(r, "dollar")
  <2>1. ASSUME NEW i \in alone PROVE i \in words
    <3>1. i \in 1 .. Len(t) /\ t[i] = "$" /\ Alone(t, i)
      BY <1>0 DEF Alone
    <3> QED
      BY <1>1, <3>1
  <2> HIDE DEF alone, words
  <2> QED
    BY <1>10, <1>11, <2>1, FS_Subset
<1>14. Count(r, "dollar") <= Cardinality(apart)
  <2>1. ASSUME NEW i \in words PROVE i \in apart
    <3>1. i \in 1 .. Len(t) /\ t[i] = "$" /\ ~Beside(t, i)
      BY <1>1
    <3>2. "a" \notin {t[j] : j \in {i - 1, i + 1} \cap DOMAIN t}
      BY <1>0, <3>1 DEF Beside
    <3> QED
      BY <1>0, <3>1, <3>2
  <2>2. apart \subseteq dollars
    OBVIOUS
  <2> HIDE DEF apart, words, dollars
  <2>3. IsFiniteSet(apart) /\ words \subseteq apart
    BY <1>10, <2>1, <2>2, FS_Subset
  <2> QED
    BY <1>11, <2>3, FS_Subset
<1>15. Quote \in ToSet(t) \/ \A j, k \in DOMAIN r :
              ~(j < k /\ r[j] \in Punctuation /\ r[k] \in Silent
                /\ \A i \in j + 1 .. k - 1 : r[i] \in Silent \cup {Blank})
  <2>1. SUFFICES ASSUME Quote \notin ToSet(t)
                 PROVE  \A j, k \in 1 .. Len(r) :
                            ~(j < k /\ r[j] \in Punctuation /\ r[k] \in Silent
                              /\ \A i \in j + 1 .. k - 1 : r[i] \in Silent \cup {Blank})
    BY <1>6
  <2>2. NothingFollows(r, p)
    BY <1>5, <1>8, <2>1
  <2>3. \A j \in 1 .. Len(r) : j < p
    BY <1>4, <1>5, <1>6
  <2> QED
    BY <2>2, <2>3 DEF NothingFollows
<1>16. sanitizeString(t).text = r /\ sanitizeString(t).outside = (p > Len(r) + 1)
  BY <1>4
<1>17. Loud(r) = Loud(Worded(t))
  BY <1>5 DEF W
<1> HIDE DEF words, signs
<1> QED
  BY <1>7, <1>9, <1>12, <1>13, <1>14, <1>15, <1>16, <1>17 DEF Says

-------------------------------------------------------------------------------
(* The settings.                                                          *)

USE ConfigAssumption, SettingsAssumption

-------------------------------------------------------------------------------
(* Configurations.                                                         *)

\* A setting changes, and no other does.
LEMMA Changed ==
  ASSUME NEW c \in Configs, NEW b \in BOOLEAN, NEW t \in Texts \cup {NoText}, NEW l \in Levels
  PROVE  /\ [c EXCEPT !.enabled = b] \in Configs /\ [c EXCEPT !.path = b] \in Configs
         /\ [c EXCEPT !.apiKey = b] \in Configs
         /\ [c EXCEPT !.text = t, !.path = b] \in Configs
         /\ [c EXCEPT !.duck = l] \in Configs
  BY DEF Configs

LEMMA DefaultTyped == Default \in Configs
  BY DEF Default, Configs, Endpoints

LEMMA PersistedTyped == \A c \in Configs : Persisted(c) \in Stored
  BY DEF Persisted, Configs, Stored

LEMMA LoadedTyped == \A c \in Configs : \A d \in Stored : Loaded(c, d) \in Configs
  BY DEF Loaded, Configs, Stored

\* What a request leaves alone
LEMMA EndpointFacts ==
  ASSUME NEW c \in Configs, NEW r \in Requests
  PROVE  LET d == WithEndpoint(c, r.endpoint)
         IN  /\ d \in Configs
             /\ \A f \in {"enabled", "language", "voice", "level", "duck", "pitch", "apiKey", "text", "path"} :
                    d[f] = c[f]
  BY DEF WithEndpoint, Configs, Requests, Endpoints

LEMMA LanguageFacts ==
  ASSUME NEW c \in Configs, NEW r \in Requests
  PROVE  LET d == WithLanguage(c, r)
         IN  /\ d \in Configs
             /\ \A f \in {"enabled", "level", "duck", "pitch", "apiKey", "text", "path"} : d[f] = c[f]
<1>1. DefaultVoice(r) \in Voices \cup {NoVoice}
  BY DEF DefaultVoice, Requests
<1> QED
  BY <1>1 DEF WithLanguage, Set, Configs, Requests

LEMMA LevelFacts ==
  ASSUME NEW c \in Configs, NEW r \in Requests
  PROVE  LET d == WithLevel(c, r)
         IN  /\ d \in Configs
             /\ \A f \in {"enabled", "language", "voice", "duck", "apiKey", "text", "path"} : d[f] = c[f]
  BY DEF WithLevel, Set, Configs, Requests

LEMMA TextFacts ==
  ASSUME NEW c \in Configs, NEW t \in Texts \cup {NoText}
  PROVE  LET d == WithText(c, t)
         IN  /\ d \in Configs
             /\ \A f \in {"enabled", "language", "voice", "level", "duck"} : d[f] = c[f]
             /\ c.text # NoText => d.text # NoText
             /\ d.path => c.path /\ d.text = c.text
  BY Changed DEF WithText, Configs

\* What setConfiguration makes of a configuration: what it leaves alone
LEMMA ConfiguredFacts ==
  ASSUME NEW c \in Configs, NEW r \in Requests
  PROVE  LET e == Configured(c, r)
         IN  /\ e \in Configs
             /\ \A f \in {"enabled", "duck", "apiKey", "text", "path"} : e[f] = c[f]
             /\ ~Differs(c, e) => e.language = c.language /\ e.voice = c.voice /\ e.level = c.level
<1> DEFINE d == WithEndpoint(c, r.endpoint)
           e == Configured(c, r)
           m == WithLanguage(d, r)
           n == WithLevel(m, r)
<1>1. d \in Configs /\ \A f \in {"enabled", "duck", "apiKey", "text", "path"} : d[f] = c[f]
  BY EndpointFacts
<1>2. m \in Configs /\ \A f \in {"enabled", "duck", "apiKey", "text", "path"} : m[f] = d[f]
  BY <1>1, LanguageFacts
<1>3. n \in Configs /\ \A f \in {"enabled", "duck", "apiKey", "text", "path"} : n[f] = m[f]
  BY <1>2, LevelFacts
<1>4. e \in {d, m, n}
  BY DEF Configured
<1>5. ~Differs(c, e) => e.language = c.language /\ e.voice = c.voice /\ e.level = c.level
  BY DEF Differs
<1> HIDE DEF d, e, m, n
<1>6. e \in Configs /\ \A f \in {"enabled", "duck", "apiKey", "text", "path"} : e[f] = c[f]
  BY <1>1, <1>2, <1>3, <1>4
<1> QED
  BY <1>5, <1>6 DEF e

\* What the store has of a configuration, but for enabled and path
Alike(c, d) == /\ c.language = d.language /\ c.voice = d.voice /\ c.level = d.level
               /\ c.duck = d.duck /\ c.text = d.text

\* The core goes to the store and comes from it, and a path is not of it.
LEMMA CoreFacts ==
  /\ \A c \in Configs : /\ Core(c) \in Cores /\ Core(Persisted(c)) = Core(c)
                        /\ \A b \in BOOLEAN : Core([c EXCEPT !.path = b]) = Core(c)
                        /\ \A d \in Stored : Core(Loaded(c, d)) = Core(d)
  /\ \A c, d : Alike(c, d) => Core(c) = Core(d)
  BY DEF Core, Cores, Configs, Persisted, Loaded, Alike

-------------------------------------------------------------------------------
(* Types.                                                                  *)

\* The call of a client that has one
LEMMA CallFacts ==
  ASSUME SettingsTypeOK, NEW c \in Clients, todo[c] # <<>>
  PROVE  /\ Head(todo[c]) \in Calls /\ Tail(todo[c]) \in Seq(Calls)
         /\ Head(todo[c]).text \in Texts \cup {NoText} /\ Head(todo[c]).duck \in Levels \cup {NoLevel}
         /\ Head(todo[c]).on \in BOOLEAN /\ Head(todo[c]).request \in Requests
<1>1. todo[c] \in Seq(Calls)
  BY DEF SettingsTypeOK
<1>2. Head(todo[c]) \in Calls /\ Tail(todo[c]) \in Seq(Calls)
  BY <1>1
<1> QED
  BY <1>2 DEF Calls

LEMMA ConfigTyped ==
  ASSUME SettingsTypeOK, SettingsNext
  PROVE  config' \in Configs /\ snapshot' \in Configs /\ disk' \in Stored
<1>0. config \in Configs /\ snapshot \in Configs /\ disk \in Stored
  BY DEF SettingsTypeOK
<1>1. CASE UNCHANGED <<config, snapshot, disk>>
  BY <1>0, <1>1
<1>2. ASSUME NEW c \in Clients, CallStep(c) PROVE config' \in Configs
  <2>0. todo[c] # <<>>
    BY <1>2 DEF CallStep, SetAPIKey, SetFallbackText, SetPrimaryVolDuck, SetConfiguration, Enable, Begins
  <2>1. CASE SetAPIKey(c)
    BY <1>0, <2>1, Changed DEF SetAPIKey
  <2>2. CASE SetFallbackText(c)
    <3>1. PICK t \in Texts \cup {NoText} : config' = WithText(config, t)
      BY <2>0, <2>2, CallFacts DEF SetFallbackText
    <3>2. WithText(config, t) \in Configs
      BY <1>0, TextFacts
    <3> QED
      BY <3>1, <3>2
  <2>3. CASE SetPrimaryVolDuck(c)
    <3>1. CASE Head(todo[c]).duck = NoLevel
      BY <1>0, <2>3, <3>1 DEF SetPrimaryVolDuck
    <3>2. CASE Head(todo[c]).duck # NoLevel
      <4>1. PICK l \in Levels : config' = [config EXCEPT !.duck = l]
        BY <2>0, <2>3, <3>2, CallFacts DEF SetPrimaryVolDuck
      <4> QED
        BY <1>0, <4>1 DEF Configs
    <3> QED
      BY <3>1, <3>2
  <2>4. CASE SetConfiguration(c)
    <3>1. PICK r \in Requests : config' = Configured(config, r)
      BY <2>0, <2>4, CallFacts DEF SetConfiguration
    <3> QED
      BY <1>0, <3>1, ConfiguredFacts
  <2>5. CASE Enable(c)
    BY <1>0, <2>0, <2>5, CallFacts, Changed DEF Enable
  <2> QED
    BY <1>2, <2>1, <2>2, <2>3, <2>4, <2>5 DEF CallStep
<1>3. \A c \in Clients : CallStep(c) => UNCHANGED <<snapshot, disk>>
  BY DEF CallStep, SetAPIKey, SetFallbackText, SetPrimaryVolDuck, SetConfiguration, Enable, dlVars, store
<1>4. CASE CallGoesOn
  <2>1. CASE initiateDownload \/ Notify \/ Save \/ Write
    BY <1>0, <2>1, Changed, PersistedTyped
       DEF initiateDownload, Notify, Save, Write, dlVars, store
  <2>2. CASE download
    <3>1. \E path \in BOOLEAN : snapshot' = [config EXCEPT !.path = path]
      BY <1>0, <2>2 DEF download, Configs
    <3> QED
      BY <1>0, <2>2, <3>1, Changed DEF download, store
  <2> QED
    BY <1>4, <2>1, <2>2 DEF CallGoesOn
<1>5. CASE DownloadStep
  BY <1>0, <1>1, <1>5, Changed, PersistedTyped
     DEF DownloadStep, Test, Block, Build, Fetch, FetchFails, Slept, SaveCopy, WriteCopy, PathKnown,
         Close, store
<1>6. CASE Start
  BY <1>0, <1>6, LoadedTyped, DefaultTyped DEF Start, store, dlVars
<1>7. CASE Started \/ Deinitialize \/ DestroyDownloader \/ Gone \/ Crash
  BY <1>0, <1>7, PersistedTyped, DefaultTyped
     DEF Started, Deinitialize, DestroyDownloader, Gone, Crash, Forgotten, store, dlVars
<1> QED
  BY <1>0, <1>1, <1>2, <1>3, <1>4, <1>5, <1>6, <1>7 DEF SettingsNext, Request, store, dlVars

\* The call that holds _adminLock
CallOp == Head(todo[caller]).op
Control ==
    /\ caller = NoClient <=> step = "idle"
    /\ step # "idle" => /\ Runs /\ todo[caller] # <<>> /\ CallOp \in {"SetConfiguration", "Enable"}
                        /\ CallOp = "SetConfiguration" => due
    /\ step \in {"initiate", "download", "notify"} => CallOp = "SetConfiguration" /\ config.text # NoText
    /\ dl # "none" => process \in {"runs", "leaving"} /\ config.text # NoText /\ snapshot.text # NoText
    /\ dl = "sleep" => need

TypeInv == SettingsTypeOK /\ Control

LEMMA TodoTyped ==
  ASSUME TypeInv, SettingsNext
  PROVE  todo' \in [Clients -> Seq(Calls)]
<1>0. todo \in [Clients -> Seq(Calls)] /\ <<>> \in Seq(Calls)
  BY DEF TypeInv, SettingsTypeOK
<1>1. CASE UNCHANGED todo
  BY <1>0, <1>1
<1>2. ASSUME NEW c, NEW q \in Seq(Calls), todo' = [todo EXCEPT ![c] = q] PROVE todo' \in [Clients -> Seq(Calls)]
  BY <1>0, <1>2
<1>3. CASE todo' = [c \in Clients |-> <<>>]
  BY <1>0, <1>3
<1>4. ASSUME NEW c \in Clients, todo[c] # <<>>, todo' = [todo EXCEPT ![c] = Tail(@)]
      PROVE  todo' \in [Clients -> Seq(Calls)]
  <2>1. Tail(todo[c]) \in Seq(Calls)
    BY <1>4, CallFacts DEF TypeInv
  <2> QED
    BY <1>0, <1>4, <2>1
<1>5. ASSUME NEW c \in Clients, CallStep(c) PROVE todo' \in [Clients -> Seq(Calls)]
  BY <1>0, <1>1, <1>2, <1>4, <1>5
     DEF CallStep, SetAPIKey, SetFallbackText, SetPrimaryVolDuck, SetConfiguration, Enable, Begins,
         Returns, Saves
<1>6. ASSUME NEW c \in Clients, Request(c) PROVE todo' \in [Clients -> Seq(Calls)]
  BY <1>2, <1>6 DEF Request
<1>7. CASE Write
  <2>1. caller \in Clients /\ todo[caller] # <<>>
    BY <1>7 DEF Write, TypeInv, SettingsTypeOK, Control
  <2> QED
    BY <1>4, <1>7, <2>1 DEF Write
<1> QED
  BY <1>1, <1>3, <1>5, <1>6, <1>7
     DEF callVars, SettingsNext, CallGoesOn, initiateDownload, download, Notify, Save, DownloadStep,
         Test, Block, Build, Fetch, FetchFails, Slept, SaveCopy, WriteCopy, PathKnown, Close, Start,
         Started, Deinitialize, DestroyDownloader, Gone, Crash, Forgotten

LEMMA ControlTyped ==
  ASSUME SettingsTypeOK, SettingsNext
  PROVE  /\ process' \in {"off", "starts", "runs", "leaving"}
         /\ caller' \in Clients \cup {NoClient}
         /\ step' \in {"idle", "initiate", "download", "notify", "save", "write"}
         /\ dl' \in {"none", "top", "blocking", "asleep", "build", "fetch", "store", "save", "saved",
                     "close", "sleep", "exited"}
         /\ batches' \in 0 .. MaxBatches /\ starts' \in 0 .. MaxStarts
<1> USE DEF SettingsTypeOK, callVars, dlVars
<1> DEFINE G == /\ process' \in {"off", "starts", "runs", "leaving"}
                /\ caller' \in Clients \cup {NoClient}
                /\ step' \in {"idle", "initiate", "download", "notify", "save", "write"}
                /\ dl' \in {"none", "top", "blocking", "asleep", "build", "fetch", "store", "save",
                            "saved", "close", "sleep", "exited"}
                /\ batches' \in 0 .. MaxBatches /\ starts' \in 0 .. MaxStarts
<1>1. ASSUME NEW c \in Clients, Request(c) \/ CallStep(c) PROVE G
  BY <1>1 DEF Request, CallStep, SetAPIKey, SetFallbackText, SetPrimaryVolDuck, SetConfiguration,
     Enable, Returns, Saves
<1>2. CASE CallGoesOn
  BY <1>2 DEF CallGoesOn, initiateDownload, download, Notify, Save, Write
<1>3. CASE DownloadStep
  BY <1>3 DEF DownloadStep, Test, Block, Build, Fetch, FetchFails, Slept, SaveCopy, WriteCopy,
     PathKnown, Close
<1>4. CASE Start \/ Started \/ Deinitialize \/ DestroyDownloader \/ Gone \/ Crash
  BY <1>4 DEF Start, Started, Deinitialize, DestroyDownloader, Gone, Crash, Forgotten
<1> QED
  BY <1>1, <1>2, <1>3, <1>4 DEF SettingsNext

LEMMA FlagsTyped ==
  ASSUME SettingsTypeOK, SettingsNext, config' \in Configs
  PROVE  /\ due' \in BOOLEAN /\ whole' \in BOOLEAN /\ need' \in BOOLEAN /\ active' \in BOOLEAN
         /\ excused' \in BOOLEAN
         /\ fetched' \in Texts \cup {NoText} /\ file' \in Texts \cup {NoText, Torn}
         /\ current' \subseteq Cores
<1> USE DEF SettingsTypeOK, store, dlVars
<1> DEFINE G == /\ due' \in BOOLEAN /\ whole' \in BOOLEAN /\ need' \in BOOLEAN /\ active' \in BOOLEAN
                /\ excused' \in BOOLEAN
                /\ fetched' \in Texts \cup {NoText} /\ file' \in Texts \cup {NoText, Torn}
                /\ current' \subseteq Cores
<1>0. /\ Core(config) \in Cores /\ Core(config') \in Cores /\ Core(Default) \in Cores
      /\ snapshot.text \in Texts \cup {NoText}
  BY CoreFacts, DefaultTyped DEF Configs
<1>1. ASSUME NEW c \in Clients, Request(c) \/ CallStep(c) PROVE G
  <2>1. due' \in BOOLEAN /\ UNCHANGED <<whole, need, active, excused, fetched, file>>
    BY <1>1 DEF Request, CallStep, SetAPIKey, SetFallbackText, SetPrimaryVolDuck, SetConfiguration,
       Enable
  <2>2. current' \subseteq Cores
    BY <1>0, <1>1 DEF Request, CallStep, SetAPIKey, SetFallbackText, SetPrimaryVolDuck,
       SetConfiguration, Enable, Saves
  <2> QED
    BY <2>1, <2>2
<1>2. CASE CallGoesOn
  BY <1>0, <1>2 DEF CallGoesOn, initiateDownload, download, Notify, Save, Write
<1>3. CASE DownloadStep
  BY <1>0, <1>3 DEF DownloadStep, Test, Block, Build, Fetch, FetchFails, Slept, SaveCopy, WriteCopy,
     PathKnown, Close
<1>4. CASE Start \/ Started \/ Deinitialize \/ DestroyDownloader \/ Gone \/ Crash
  BY <1>0, <1>4 DEF Start, Started, Deinitialize, DestroyDownloader, Gone, Crash, Forgotten
<1> QED
  BY <1>1, <1>2, <1>3, <1>4 DEF SettingsNext

-------------------------------------------------------------------------------
(* Where the calls, the download thread and the process are.               *)

LEMMA ControlStep ==
  ASSUME TypeInv, SettingsNext, SettingsTypeOK'
  PROVE  Control'
<1> USE DEF TypeInv, SettingsTypeOK, Control, CallOp, dlVars, callVars
<1>1. ASSUME NEW c \in Clients, Request(c) PROVE Control'
  BY <1>1 DEF Request, Runs
<1>2. ASSUME NEW c \in Clients, CallStep(c) PROVE Control'
  <2>0. Begins(c) /\ todo[c] # <<>> /\ c # NoClient /\ step = "idle" /\ Runs
    BY <1>2 DEF CallStep, SetAPIKey, SetFallbackText, SetPrimaryVolDuck, SetConfiguration, Enable, Begins
  <2>1. config.text # NoText => config'.text # NoText
    <3>1. CASE SetAPIKey(c) \/ SetPrimaryVolDuck(c) \/ Enable(c)
      <4>1. config'.text = config.text
        BY <3>1 DEF SetAPIKey, SetPrimaryVolDuck, Enable, Configs
      <4> QED
        BY <4>1
    <3>2. CASE SetFallbackText(c)
      <4>1. PICK t \in Texts \cup {NoText} : config' = WithText(config, t)
        BY <2>0, <3>2, CallFacts DEF SetFallbackText
      <4>2. config.text # NoText => WithText(config, t).text # NoText
        BY DEF WithText, Configs
      <4> QED
        BY <4>1, <4>2
    <3>3. CASE SetConfiguration(c)
      <4>1. PICK r \in Requests : config' = Configured(config, r)
        BY <2>0, <3>3, CallFacts DEF SetConfiguration
      <4>2. config'.text = config.text
        BY <4>1, ConfiguredFacts
      <4> QED
        BY <4>2
    <3> QED
      BY <1>2, <3>1, <3>2, <3>3 DEF CallStep
  <2>2. UNCHANGED <<process, dl, need, snapshot>>
    BY <1>2 DEF CallStep, SetAPIKey, SetFallbackText, SetPrimaryVolDuck, SetConfiguration, Enable
  <2>3. CASE UNCHANGED <<caller, step>>
    BY <2>0, <2>1, <2>2, <2>3 DEF Runs
  <2>4. CASE Enable(c)
    BY <2>0, <2>1, <2>2, <2>3, <2>4 DEF Enable, Returns, Saves, Runs
  <2>5. CASE SetConfiguration(c)
    <3>1. CASE due' /\ Saves(c, IF config.text = NoText THEN "save" ELSE "initiate")
      BY <2>0, <2>1, <2>2, <2>5, <3>1 DEF SetConfiguration, Saves, Runs
    <3> QED
      BY <2>3, <2>5, <3>1 DEF SetConfiguration, Returns
  <2> QED
    BY <1>2, <2>3, <2>4, <2>5 DEF CallStep, SetAPIKey, SetFallbackText, SetPrimaryVolDuck, Returns
<1>3. CASE CallGoesOn
  <2>1. CASE initiateDownload
    <3>1. config'.text = config.text
      BY <2>1 DEF initiateDownload, Configs
    <3> QED
      BY <2>1, <3>1 DEF initiateDownload, Runs
  <2>2. CASE download
    <3>1. snapshot'.text = config.text
      BY <2>2 DEF download, Configs
    <3> QED
      BY <2>2, <3>1 DEF download, Runs
  <2>3. CASE Notify \/ Save
    BY <2>3 DEF Notify, Save, Runs
  <2>4. CASE Write
    BY <2>4 DEF Write, Runs
  <2> QED
    BY <1>3, <2>1, <2>2, <2>3, <2>4 DEF CallGoesOn
<1>4. CASE DownloadStep
  <2>1. config'.text = config.text /\ snapshot'.text = snapshot.text
    BY <1>4 DEF DownloadStep, Test, Block, Build, Fetch, FetchFails, Slept, SaveCopy, WriteCopy,
       PathKnown, Close, Configs
  <2>2. UNCHANGED <<process, due, caller, step, todo>> /\ dl # "none"
    BY <1>4 DEF DownloadStep, Test, Block, Build, Fetch, FetchFails, Slept, SaveCopy, WriteCopy,
       PathKnown, Close
  <2>3. dl' = "sleep" => need'
    BY <1>4 DEF DownloadStep, Test, Block, Build, Fetch, FetchFails, Slept, SaveCopy, WriteCopy,
       PathKnown, Close
  <2> QED
    BY <2>1, <2>2, <2>3 DEF Runs
<1>5. CASE Start \/ Started \/ Deinitialize \/ DestroyDownloader \/ Gone \/ Crash
  BY <1>5 DEF Start, Started, Deinitialize, DestroyDownloader, Gone, Crash, Forgotten, Runs
<1> QED
  BY <1>1, <1>2, <1>3, <1>4, <1>5 DEF SettingsNext

\* What is due has been handed to the downloader, and is being saved.
Saving == step \in {"save", "write"} /\ CallOp = "SetConfiguration"
Settled == ~due \/ Saving

\* What a call does at once
LEMMA CallStory ==
  ASSUME TypeInv, NEW c \in Clients, CallStep(c)
  PROVE  /\ UNCHANGED <<process, store, dlVars, excused>>
         /\ Runs /\ step = "idle"
         /\ ~due' => ~due /\ Alike(config', config) /\ config'.path = config.path
         /\ config'.path => config.path /\ config'.text = config.text
         /\ step' = "idle" => config'.enabled = config.enabled
         /\ step' \in {"idle", "initiate", "save"}
         /\ Saving' => config'.text = NoText /\ config.text = NoText
         /\ current \subseteq current' /\ (step' # "idle" => Core(config') \in current')
<1> DEFINE G == /\ ~due' => ~due /\ Alike(config', config) /\ config'.path = config.path
                /\ config'.path => config.path /\ config'.text = config.text
                /\ step' = "idle" => config'.enabled = config.enabled
                /\ step' \in {"idle", "initiate", "save"}
                /\ Saving' => config'.text = NoText /\ config.text = NoText
                /\ current \subseteq current' /\ (step' # "idle" => Core(config') \in current')
<1> USE DEF TypeInv, SettingsTypeOK
<1>0. /\ Runs /\ step = "idle" /\ todo[c] # <<>> /\ UNCHANGED <<process, store, dlVars, excused>>
      /\ config \in Configs
  BY DEF CallStep, SetAPIKey, SetFallbackText, SetPrimaryVolDuck, SetConfiguration, Enable, Begins, Control
<1>1. CASE SetAPIKey(c)
  <2>1. /\ \A f \in {"enabled", "language", "voice", "level", "duck", "text", "path"} :
               config'[f] = config[f]
        /\ (~due' => ~due) /\ step' = step /\ current' = current
    BY <1>0, <1>1 DEF SetAPIKey, Returns, Configs
  <2> QED
    BY <1>0, <2>1 DEF Alike, Saving
<1>2. CASE SetFallbackText(c)
  <2>1. /\ (~due' => ~due /\ config' = config) /\ step' = step /\ current' = current
        /\ \A f \in {"enabled", "language", "voice", "level", "duck"} : config'[f] = config[f]
        /\ config'.path => config.path /\ config'.text = config.text
    <3>1. /\ config' = WithText(config, Head(todo[c]).text) /\ due' = (due \/ config' # config)
          /\ step' = step /\ current' = current /\ Head(todo[c]).text \in Texts \cup {NoText}
      BY <1>0, <1>2, CallFacts DEF SetFallbackText, Returns
    <3>2. /\ \A f \in {"enabled", "language", "voice", "level", "duck"} : config'[f] = config[f]
          /\ config'.path => config.path /\ config'.text = config.text
      <4>1. PICK t \in Texts \cup {NoText} : config' = WithText(config, t)
        BY <3>1
      <4>2. \A f \in {"enabled", "language", "voice", "level", "duck"} : config'[f] = config[f]
        BY <1>0, <4>1, TextFacts
      <4>3. config'.path => config.path
        BY <1>0, <4>1, TextFacts
      <4>4. config'.path => config'.text = config.text
        BY <1>0, <4>1, TextFacts
      <4> QED
        BY <4>2, <4>3, <4>4
    <3> QED
      BY <3>1, <3>2
  <2> QED
    BY <1>0, <2>1 DEF Alike, Saving
<1>3. CASE SetPrimaryVolDuck(c)
  <2>1. /\ (~due' => ~due /\ config' = config) /\ step' = step /\ current' = current
        /\ \A f \in {"enabled", "language", "voice", "level", "text", "path"} : config'[f] = config[f]
    <3>1. step' = step /\ current' = current
      BY <1>3 DEF SetPrimaryVolDuck, Returns
    <3>2. CASE Head(todo[c]).duck = NoLevel
      BY <1>3, <3>1, <3>2 DEF SetPrimaryVolDuck
    <3>3. CASE Head(todo[c]).duck # NoLevel
      <4>1. config' = [config EXCEPT !.duck = Head(todo[c]).duck]
        BY <1>3, <3>3 DEF SetPrimaryVolDuck
      <4>2. \A f \in {"enabled", "language", "voice", "level", "text", "path"} :
               config'[f] = config[f]
        BY <1>0, <4>1 DEF Configs
      <4>3. ~due' => ~due /\ config' = config
        BY <1>3, <3>3 DEF SetPrimaryVolDuck
      <4> QED
        BY <3>1, <4>2, <4>3
    <3> QED
      BY <3>2, <3>3
  <2> QED
    BY <1>0, <2>1 DEF Alike, Saving
<1>4. CASE Enable(c)
  <2>1. /\ due' = due
        /\ \A f \in {"language", "voice", "level", "duck", "text", "path"} : config'[f] = config[f]
    BY <1>0, <1>4 DEF Enable, Configs
  <2>2. step' = "idle" => config' = config
    BY <1>0, <1>4 DEF Enable, Returns, Saves
  <2>3. step' \in {"idle", "save"} /\ ~Saving'
    <3>1. CASE Returns(c)
      BY <1>0, <3>1 DEF Returns, Saving
    <3>2. CASE Saves(c, "save")
      BY <1>4, <3>2 DEF Enable, Saves, Saving, CallOp
    <3> QED
      BY <1>4, <3>1, <3>2 DEF Enable
  <2>4. current \subseteq current' /\ (step' # "idle" => Core(config') \in current')
    BY <1>0, <1>4 DEF Enable, Returns, Saves
  <2> QED
    BY <1>0, <2>1, <2>2, <2>3, <2>4 DEF Alike
<1>5. CASE SetConfiguration(c)
  <2> DEFINE r == Head(todo[c]).request
  <2>1. /\ config' = Configured(config, r) /\ r \in Requests
        /\ due' = (due \/ Differs(config, config'))
        /\ \/ Returns(c) /\ current' = current
           \/ due' /\ Saves(c, IF config.text = NoText THEN "save" ELSE "initiate")
    BY <1>0, <1>5, CallFacts DEF SetConfiguration
  <2>2. /\ \A f \in {"enabled", "duck", "text", "path"} : config'[f] = config[f]
        /\ ~Differs(config, config') => /\ config'.language = config.language
                                        /\ config'.voice = config.voice /\ config'.level = config.level
    BY <1>0, <2>1, ConfiguredFacts
  <2> HIDE DEF r
  <2>3. current \subseteq current' /\ (step' # "idle" => Core(config') \in current')
    BY <1>0, <2>1 DEF Returns, Saves
  <2>4. ~due' => ~due /\ Alike(config', config)
    BY <2>1, <2>2 DEF Alike
  <2>5. /\ step' \in {"idle", "initiate", "save"}
        /\ Saving' => config.text = NoText
    BY <1>0, <2>1 DEF Returns, Saves, Saving
  <2> QED
    BY <1>0, <2>2, <2>3, <2>4, <2>5
<1> QED
  BY <1>0, <1>1, <1>2, <1>3, <1>4, <1>5 DEF CallStep

-------------------------------------------------------------------------------
(* The store.                                                              *)

\* It is whole but while one of the two writes it; what it has at rest is what the manager
\* has, but for what is due, and for what the downloader's copy has.
Written ==
    /\ process \in {"runs", "leaving"} => (whole <=> StoreFree)
    /\ process = "starts" => ~whole
    /\ step = "write" => dl # "save"
    /\ config.path => config.text # NoText
    /\ disk.path => disk.text # NoText
    /\ Runs /\ step = "idle" => disk.enabled \in {config.enabled, snapshot.enabled}
    /\ Runs /\ ~due => Alike(disk, config) /\ (dl # "saved" => (disk.path => config.path))

\* The downloader's copy is of the settings, and what it has downloaded is of their text,
\* but for what is due or still to be handed over.
Copied ==
    /\ Runs /\ dl # "none" /\ (Settled \/ step = "notify") => Alike(snapshot, config)
    /\ Runs /\ Settled /\ dl \in {"fetch", "store", "save", "saved", "close"}
          => fetched = config.text \/ need

LEMMA KeptFacts ==
  ASSUME NEW c \in Configs
  PROVE  /\ Alike(Persisted(c), c) /\ Persisted(c).path = c.path /\ Persisted(c).text = c.text
         /\ Persisted(c).enabled = c.enabled /\ Persisted(c).language = c.language
         /\ \A b \in BOOLEAN : LET d == [c EXCEPT !.path = b]
                               IN  /\ Alike(d, c) /\ d.path = b /\ d.text = c.text
                                   /\ d.enabled = c.enabled /\ d.language = c.language
  BY DEF Alike, Persisted, Configs

LEMMA WrittenStep ==
  ASSUME TypeInv, Written, Copied, SettingsNext, TypeInv'
  PROVE  Written'
<1> USE DEF dlVars, callVars, store
<1>0. config \in Configs /\ snapshot \in Configs /\ disk \in Stored /\ config' \in Configs
  BY DEF TypeInv, SettingsTypeOK
<1>1. ASSUME NEW c \in Clients, Request(c) PROVE Written'
  BY <1>1 DEF Request, Written, Runs, StoreFree, Alike
<1>2. ASSUME NEW c \in Clients, CallStep(c) PROVE Written'
  BY <1>2, CallStory DEF Written, Runs, StoreFree, Alike
<1>3. CASE initiateDownload
  <2>1. config'.path = FALSE /\ config'.text = config.text
    BY <1>0, <1>3, KeptFacts DEF initiateDownload
  <2>2. step = "initiate" /\ step' = "download" /\ due' /\ UNCHANGED <<process, due, store, dl>>
    BY <1>3 DEF initiateDownload, TypeInv, Control
  <2> QED
    BY <2>1, <2>2 DEF Written, StoreFree
<1>4. CASE download \/ Notify
  <2>1. /\ step \in {"download", "notify"} /\ step' \in {"notify", "save"}
        /\ UNCHANGED <<process, config, due, store>>
        /\ dl' = dl \/ (dl' = "top" /\ dl \in {"none", "asleep"})
    BY <1>4 DEF download, Notify
  <2> QED
    BY <2>1 DEF Written, StoreFree, Runs
<1>5. CASE Save
  BY <1>5 DEF Save, Written, StoreFree, Runs, TypeInv, Control
<1>6. CASE Write
  <2>1. /\ step = "write" /\ step' = "idle" /\ disk' = Persisted(config) /\ whole' = TRUE
        /\ UNCHANGED <<process, config, dl>>
    BY <1>6 DEF Write
  <2>2. /\ Alike(disk', config) /\ disk'.path = config.path /\ disk'.text = config.text
        /\ disk'.enabled = config.enabled
    BY <1>0, <2>1, KeptFacts
  <2>3. dl # "save" /\ Runs
    BY <2>1 DEF Written, TypeInv, Control
  <2> QED
    BY <2>1, <2>2, <2>3 DEF Written, StoreFree, Runs, Alike
<1>7. CASE Test \/ Block \/ Build \/ Fetch \/ FetchFails \/ Slept \/ Close
  <2>1. /\ UNCHANGED <<process, config, due, store, step, snapshot>>
        /\ dl \notin {"save", "saved"} /\ dl' \notin {"save", "saved"}
    BY <1>7 DEF Test, Block, Build, Fetch, FetchFails, Slept, Close
  <2> QED
    BY <2>1 DEF Written, StoreFree, Runs
<1>8. CASE SaveCopy
  <2>1. snapshot'.enabled = snapshot.enabled
    BY <1>0, <1>8, KeptFacts DEF SaveCopy
  <2> QED
    BY <1>8, <2>1 DEF SaveCopy, Written, StoreFree, Runs, TypeInv, Control
<1>9. CASE WriteCopy
  <2>1. /\ dl = "save" /\ dl' = "saved" /\ disk' = Persisted(snapshot) /\ whole' = TRUE
        /\ UNCHANGED <<process, config, due, step, snapshot>>
    BY <1>9 DEF WriteCopy
  <2>2. Runs /\ ~due => Alike(snapshot, config)
    BY <2>1 DEF Copied, Settled
  <2>3. /\ Alike(disk', snapshot) /\ disk'.path = snapshot.path /\ disk'.text = snapshot.text
        /\ disk'.enabled = snapshot.enabled
    BY <1>0, <2>1, KeptFacts
  <2> QED
    BY <2>1, <2>2, <2>3 DEF Written, StoreFree, Runs, Alike, TypeInv, Control
<1>10. CASE PathKnown
  <2>1. config'.path = TRUE /\ Alike(config', config) /\ config'.enabled = config.enabled
    BY <1>0, <1>10, KeptFacts DEF PathKnown
  <2>2. /\ dl = "saved" /\ dl' = "close" /\ UNCHANGED <<process, due, store, step, snapshot>>
    BY <1>10 DEF PathKnown
  <2> QED
    BY <2>1, <2>2 DEF Written, StoreFree, Runs, Alike, TypeInv, Control
<1>11. CASE Start
  <2>1. Default.path = FALSE /\ \A d \in Stored : /\ Loaded(Default, d).path = d.path
                                                  /\ Loaded(Default, d).text = d.text
    BY DEF Default, Loaded
  <2>2. CASE UNCHANGED <<process, config, store>>
    BY <1>11, <2>2 DEF Start, Written, StoreFree, Runs, Alike
  <2>3. CASE process' = "starts" /\ whole' = FALSE /\ config' \in {Default, Loaded(Default, disk)}
    BY <1>0, <1>11, <2>1, <2>3 DEF Start, Written, StoreFree, Runs
  <2> QED
    BY <1>11, <2>2, <2>3 DEF Start
<1>12. CASE Started
  <2>1. /\ process = "starts" /\ process' = "runs" /\ disk' = Persisted(config) /\ whole' = TRUE
        /\ UNCHANGED <<config, step, dl>>
    BY <1>12 DEF Started
  <2>2. step = "idle" /\ dl = "none"
    BY <2>1 DEF TypeInv, Control, Runs
  <2> QED
    BY <1>0, <2>1, <2>2, KeptFacts DEF Written, StoreFree
<1>13. CASE Deinitialize \/ DestroyDownloader
  BY <1>13 DEF Deinitialize, DestroyDownloader, Written, StoreFree, Runs
<1>14. CASE Gone \/ Crash
  <2>1. process' = "off" /\ config' = Default /\ step' = "idle" /\ UNCHANGED store
    BY <1>14 DEF Gone, Crash, Forgotten
  <2>2. Default.path = FALSE
    BY DEF Default
  <2> QED
    BY <2>1, <2>2 DEF Written, StoreFree, Runs
<1> QED
  BY <1>1, <1>2, <1>3, <1>4, <1>5, <1>6, <1>7, <1>8, <1>9, <1>10, <1>11, <1>12, <1>13, <1>14
     DEF SettingsNext, CallGoesOn, DownloadStep

LEMMA CopiedStep ==
  ASSUME TypeInv, Copied, SettingsNext, TypeInv'
  PROVE  Copied'
<1> USE DEF dlVars, callVars
<1>0. config \in Configs /\ snapshot \in Configs
  BY DEF TypeInv, SettingsTypeOK
<1>1. ASSUME NEW c \in Clients, Request(c) PROVE Copied'
  <2>1. caller # NoClient => c # caller
    BY <1>1 DEF Request, TypeInv, Control
  <2>2. step # "idle" => CallOp' = CallOp
    BY <1>1, <2>1 DEF Request, CallOp, TypeInv, SettingsTypeOK, Control
  <2> QED
    BY <1>1, <2>2 DEF Request, Copied, Runs, Settled, Saving
<1>2. ASSUME NEW c \in Clients, CallStep(c) PROVE Copied'
  <2>1. Saving' => dl = "none"
    BY <1>2, CallStory DEF TypeInv, Control
  <2>2. step' # "notify" /\ UNCHANGED <<dl, snapshot, fetched, need, process>>
    BY <1>2, CallStory
  <2>3. ~due' => ~due /\ Alike(config', config)
    BY <1>2, CallStory
  <2> QED
    BY <2>1, <2>2, <2>3 DEF Copied, Runs, Settled, Alike
<1>3. CASE initiateDownload
  <2>1. due /\ ~Saving /\ ~Saving' /\ step' = "download" /\ due' = due
    BY <1>3 DEF initiateDownload, Saving, TypeInv, Control
  <2> QED
    BY <2>1 DEF Copied, Settled
<1>4. CASE download
  <2>1. Alike(snapshot', config') /\ step' = "notify" /\ due'
    <3>1. \E path \in BOOLEAN : snapshot' = [config EXCEPT !.path = path]
      BY <1>0, <1>4 DEF download, Configs
    <3> QED
      BY <1>0, <1>4, <3>1, KeptFacts DEF download, TypeInv, Control
  <2> QED
    BY <2>1 DEF Copied, Settled, Saving
<1>5. CASE Notify
  BY <1>5 DEF Notify, Copied, Settled, Saving, Runs
<1>6. CASE Save
  <2>1. CallOp' = CallOp /\ step = "save" /\ step' = "write" /\ UNCHANGED <<process, config, due, dlVars>>
    BY <1>6 DEF Save, CallOp
  <2> QED
    BY <2>1 DEF Copied, Settled, Saving, Runs
<1>7. CASE Write
  <2>1. step = "write" /\ step' = "idle" /\ UNCHANGED <<process, config, dlVars>>
        /\ due' = (due /\ CallOp = "Enable")
    BY <1>7 DEF Write, CallOp
  <2>2. CallOp \in {"SetConfiguration", "Enable"}
    BY <2>1 DEF TypeInv, Control
  <2>3. ~due' => Settled
    BY <2>1, <2>2 DEF Settled, Saving
  <2> QED
    BY <2>1, <2>3 DEF Copied, Settled, Saving, Runs
<1>8. CASE Build
  <2>1. /\ dl = "build" /\ (dl' = "top" \/ fetched' = snapshot.text)
        /\ UNCHANGED <<process, config, due, callVars, need, snapshot>>
    BY <1>8 DEF Build
  <2> QED
    BY <2>1 DEF Copied, Settled, Saving, CallOp, Runs, Alike
<1>9. CASE Test \/ Block \/ Fetch \/ FetchFails \/ Slept \/ WriteCopy \/ Close
  <2>1. /\ UNCHANGED <<process, config, due, callVars, snapshot, fetched>>
        /\ dl # "none"
        /\ dl' \in {"fetch", "store", "save", "saved", "close"}
              => dl \in {"fetch", "store", "save", "saved", "close"} /\ need' = need
    BY <1>9 DEF Test, Block, Fetch, FetchFails, Slept, WriteCopy, Close
  <2> QED
    BY <2>1 DEF Copied, Settled, Saving, CallOp, Runs
<1>10. CASE SaveCopy
  <2>1. Alike(snapshot', snapshot)
    BY <1>0, <1>10, KeptFacts DEF SaveCopy
  <2>2. dl = "store" /\ dl' = "save" /\ UNCHANGED <<process, config, due, callVars, need, fetched>>
    BY <1>10 DEF SaveCopy
  <2> QED
    BY <2>1, <2>2 DEF Copied, Settled, Saving, CallOp, Runs, Alike
<1>11. CASE PathKnown
  <2>1. Alike(config', config)
    BY <1>0, <1>11, KeptFacts DEF PathKnown
  <2>2. dl = "saved" /\ dl' = "close" /\ UNCHANGED <<process, due, callVars, need, fetched, snapshot>>
    BY <1>11 DEF PathKnown
  <2> QED
    BY <2>1, <2>2 DEF Copied, Settled, Saving, CallOp, Runs, Alike
<1>12. CASE Start \/ Deinitialize \/ DestroyDownloader \/ Gone \/ Crash
  BY <1>12 DEF Start, Deinitialize, DestroyDownloader, Gone, Crash, Forgotten, Copied, Runs
<1>13. CASE Started
  BY <1>13 DEF Started, TypeInv, Control, Copied, Runs
<1> QED
  BY <1>1, <1>2, <1>3, <1>4, <1>5, <1>6, <1>7, <1>8, <1>9, <1>10, <1>11, <1>12, <1>13
     DEF SettingsNext, CallGoesOn, DownloadStep

-------------------------------------------------------------------------------
(* The audio.                                                              *)

\* What the path of the manager leads to, and, when the process is not running, that of
\* the store
Audible ==
    /\ Runs /\ Settled /\ config.path => file = config.text \/ need \/ Working \/ excused
    /\ process = "leaving" /\ ~excused => /\ disk.path => file = disk.text
                                          /\ ~Working /\ (need => ~active)
    /\ process = "off" /\ ~excused /\ whole => (disk.path => file = disk.text)
    /\ process = "starts" /\ ~excused => (config.path => file = config.text)

\* Nothing is pending: the store and the audio go together.
LEMMA LeftInOrder ==
  ASSUME TypeInv, Written, Audible, Runs, ~Pending, ~excused
  PROVE  disk.path => file = disk.text
<1>1. ~due /\ ~need /\ ~Working
  BY DEF Pending
<1>2. Alike(disk, config) /\ (disk.path => config.path)
  BY <1>1 DEF Written, Working
<1>3. config.path => file = config.text
  BY <1>1 DEF Audible, Settled
<1> QED
  BY <1>2, <1>3 DEF Alike

LEMMA AudibleStep ==
  ASSUME TypeInv, Written, Copied, Audible, SettingsNext, TypeInv'
  PROVE  Audible'
<1> USE DEF dlVars, callVars, store
<1>0. config \in Configs /\ snapshot \in Configs /\ disk \in Stored /\ config' \in Configs
  BY DEF TypeInv, SettingsTypeOK
<1>1. ASSUME NEW c \in Clients, Request(c) PROVE Audible'
  <2>1. step # "idle" => CallOp' = CallOp
    BY <1>1 DEF Request, CallOp, TypeInv, SettingsTypeOK, Control
  <2> QED
    BY <1>1, <2>1 DEF Request, Audible, Runs, Settled, Saving, Working
<1>2. ASSUME NEW c \in Clients, CallStep(c) PROVE Audible'
  <2>1. /\ UNCHANGED <<process, dl, need, file, excused>> /\ Runs
        /\ ~due' => ~due /\ Alike(config', config) /\ config'.path = config.path
        /\ config'.path => config.path
        /\ Saving' => config.text = NoText
    BY <1>2, CallStory
  <2>2. Saving' => ~config'.path
    BY <2>1 DEF Written
  <2> QED
    BY <2>1, <2>2 DEF Audible, Runs, Settled, Working, Alike
<1>3. CASE initiateDownload
  <2>1. ~config'.path
    BY <1>0, <1>3, KeptFacts DEF initiateDownload
  <2>2. Runs /\ Runs'
    BY <1>3 DEF initiateDownload, TypeInv, Control, Runs
  <2> QED
    BY <2>1, <2>2 DEF Audible, Runs
<1>4. CASE download
  <2>1. Runs' /\ due' /\ ~Saving'
    BY <1>4 DEF download, TypeInv, Control, Runs, Saving
  <2> QED
    BY <2>1 DEF Audible, Runs, Settled
<1>5. CASE Notify
  <2>1. Runs' /\ need'
    BY <1>5 DEF Notify, TypeInv, Control, Runs
  <2> QED
    BY <2>1 DEF Audible, Runs
<1>6. CASE Save
  <2>1. CallOp' = CallOp /\ step = "save" /\ step' = "write"
        /\ UNCHANGED <<process, config, due, dlVars, excused>>
    BY <1>6 DEF Save, CallOp
  <2>2. Runs
    BY <2>1 DEF TypeInv, Control
  <2> QED
    BY <2>1, <2>2 DEF Audible, Settled, Saving, Runs, Working
<1>7. CASE Write
  <2>1. step = "write" /\ step' = "idle" /\ UNCHANGED <<process, config, dlVars, excused>>
        /\ due' = (due /\ CallOp = "Enable")
    BY <1>7 DEF Write, CallOp
  <2>2. CallOp \in {"SetConfiguration", "Enable"} /\ Runs
    BY <2>1 DEF TypeInv, Control
  <2>3. Settled' => Settled
    BY <2>1, <2>2 DEF Settled, Saving
  <2> QED
    BY <2>1, <2>2, <2>3 DEF Audible, Runs, Working
<1>8. ASSUME Test \/ Block \/ Build \/ Fetch \/ FetchFails \/ Slept \/ SaveCopy \/ WriteCopy
      PROVE  Audible'
  <2>0. UNCHANGED <<process, config, due, callVars, active>> /\ process \in {"runs", "leaving"}
    BY <1>8 DEF Test, Block, Build, Fetch, FetchFails, Slept, SaveCopy, WriteCopy, TypeInv, Control
  <2>1. Settled' <=> Settled
    BY <2>0 DEF Settled, Saving, CallOp
  <2>2. excused => excused'
    BY <1>8 DEF Test, Block, Build, Fetch, FetchFails, Slept, SaveCopy, WriteCopy
  <2>3. CASE process = "leaving" /\ ~excused
    <3>1. ~Working /\ (need => ~active)
      BY <2>3 DEF Audible
    <3>2. Test \/ Block
      BY <1>8, <3>1 DEF Working, Build, Fetch, FetchFails, Slept, SaveCopy, WriteCopy
    <3>3. ~Working' /\ UNCHANGED <<file, need, disk, excused>>
      BY <3>1, <3>2 DEF Test, Block, Working
    <3> QED
      BY <2>0, <2>3, <3>1, <3>3 DEF Audible, Runs
  <2>4. CASE process = "leaving" /\ excused
    BY <2>0, <2>2, <2>4 DEF Audible, Runs
  <2>5. CASE Runs
    <3>1. CASE Working'
      BY <2>0, <2>5, <3>1 DEF Audible, Runs
    <3>2. CASE Build /\ dl' = "top"
      BY <2>0, <2>5, <3>2 DEF Build, Audible, Runs
    <3>3. CASE Slept
      BY <2>0, <2>5, <3>3 DEF Slept, Audible, Runs, TypeInv, Control
    <3>4. CASE ~Working' /\ (Test \/ Block)
      <4>1. ~Working /\ UNCHANGED <<file, need, excused>>
        BY <3>4 DEF Test, Block, Working
      <4> QED
        BY <2>0, <2>1, <2>5, <4>1 DEF Audible, Runs
    <3> QED
      BY <1>8, <3>1, <3>2, <3>3, <3>4 DEF Build, Fetch, FetchFails, SaveCopy, WriteCopy, Working
  <2> QED
    BY <2>0, <2>3, <2>4, <2>5 DEF Runs
<1>9. CASE PathKnown
  <2>1. /\ dl = "saved" /\ dl' = "close" /\ UNCHANGED <<process, excused>>
        /\ process \in {"runs", "leaving"}
    BY <1>9 DEF PathKnown, TypeInv, Control
  <2>2. Working /\ Working'
    BY <2>1 DEF Working
  <2> QED
    BY <2>1, <2>2 DEF Audible, Runs
<1>10. CASE Close
  <2>1. /\ dl = "close" /\ file' = fetched /\ excused' = (excused /\ (need \/ ~Runs))
        /\ UNCHANGED <<process, config, due, callVars, need>>
        /\ process \in {"runs", "leaving"}
    BY <1>10 DEF Close, TypeInv, Control
  <2>2. CASE Runs
    <3>1. Settled' => fetched = config.text \/ need
      BY <2>1, <2>2 DEF Copied, Settled, Saving, CallOp
    <3> QED
      BY <2>1, <2>2, <3>1 DEF Audible, Runs
  <2>3. CASE process = "leaving"
    <3>1. excused'
      BY <2>1, <2>3 DEF Audible, Working, Runs
    <3> QED
      BY <2>1, <2>3, <3>1 DEF Audible, Runs
  <2> QED
    BY <2>1, <2>2, <2>3 DEF Runs
<1>11. CASE Start
  <2>1. Default.path = FALSE /\ \A d \in Stored : /\ Loaded(Default, d).path = d.path
                                                  /\ Loaded(Default, d).text = d.text
    BY DEF Default, Loaded
  <2>2. CASE UNCHANGED <<process, config, store>>
    BY <1>11, <2>2 DEF Start, Audible, Runs
  <2>3. CASE process' = "starts" /\ config' = (IF whole THEN Loaded(Default, disk) ELSE Default)
    BY <1>0, <1>11, <2>1, <2>3 DEF Start, Audible, Runs
  <2> QED
    BY <1>11, <2>2, <2>3 DEF Start
<1>12. CASE Started
  BY <1>12 DEF Started, Audible, Runs
<1>13. CASE Deinitialize
  <2>1. /\ Runs /\ process' = "leaving" /\ excused' = (excused \/ Pending)
        /\ UNCHANGED <<store, dl, need, file>>
    BY <1>13 DEF Deinitialize
  <2>2. ~excused' => (disk.path => file = disk.text) /\ ~Working /\ ~need
    BY <2>1, LeftInOrder DEF Pending
  <2> QED
    BY <2>1, <2>2 DEF Audible, Runs, Working
<1>14. CASE DestroyDownloader
  BY <1>14 DEF DestroyDownloader, Audible, Runs, Working
<1>15. CASE Gone
  BY <1>15 DEF Gone, Forgotten, Audible, Runs
<1>16. CASE Crash
  <2>1. /\ process # "off" /\ process' = "off" /\ excused' = (excused \/ Pending) /\ UNCHANGED store
        /\ file' = IF dl \in {"fetch", "store", "save", "saved", "close"} THEN Torn ELSE file
    BY <1>16 DEF Crash, Forgotten
  <2>2. ~excused' => file' = file
    BY <2>1 DEF Pending, Working
  <2>3. ~excused' /\ whole => (disk.path => file = disk.text)
    <3>1. CASE Runs
      BY <2>1, <3>1, LeftInOrder
    <3>2. CASE process = "leaving"
      BY <2>1, <3>2 DEF Audible
    <3>3. CASE process = "starts"
      BY <3>3 DEF Written
    <3> QED
      BY <2>1, <3>1, <3>2, <3>3 DEF TypeInv, SettingsTypeOK, Runs
  <2> QED
    BY <2>1, <2>2, <2>3 DEF Audible, Runs
<1> QED
  BY <1>1, <1>2, <1>3, <1>4, <1>5, <1>6, <1>7, <1>8, <1>9, <1>10, <1>11, <1>12, <1>13, <1>14, <1>15,
     <1>16
     DEF SettingsNext, CallGoesOn, DownloadStep

-------------------------------------------------------------------------------
(* What was overwritten.                                                   *)

\* Whoever is to write the store has settings that it may hold.
Timely ==
    /\ StoreIsCurrent
    /\ dl # "none" => Core(snapshot) \in current
    /\ step # "idle" => Core(config) \in current
    /\ process = "starts" => Core(config) \in current

LEMMA TimelyStep ==
  ASSUME TypeInv, Copied, Timely, SettingsNext, TypeInv'
  PROVE  Timely'
<1> USE DEF dlVars, callVars, store
<1>0. config \in Configs /\ snapshot \in Configs /\ disk \in Stored
  BY DEF TypeInv, SettingsTypeOK
<1>1. ASSUME NEW c \in Clients, Request(c) PROVE Timely'
  BY <1>1 DEF Request, Timely, StoreIsCurrent
<1>2. ASSUME NEW c \in Clients, CallStep(c) PROVE Timely'
  <2>1. /\ UNCHANGED <<process, disk, whole, dl, snapshot>> /\ Runs
        /\ current \subseteq current' /\ (step' # "idle" => Core(config') \in current')
    BY <1>2, CallStory
  <2> QED
    BY <2>1 DEF Timely, StoreIsCurrent, Runs
<1>3. CASE initiateDownload \/ PathKnown
  <2>1. Core(config') = Core(config)
    BY <1>0, <1>3, CoreFacts DEF initiateDownload, PathKnown
  <2>2. /\ UNCHANGED <<process, disk, whole, snapshot, current>> /\ (dl' # "none" => dl # "none")
        /\ step' # "idle" => step # "idle"
    BY <1>3 DEF initiateDownload, PathKnown
  <2> QED
    BY <2>1, <2>2 DEF Timely, StoreIsCurrent
<1>4. CASE download
  <2>1. Core(snapshot') = Core(config)
    <3>1. \E path \in BOOLEAN : snapshot' = [config EXCEPT !.path = path]
      BY <1>0, <1>4 DEF download, Configs
    <3> QED
      BY <1>0, <3>1, CoreFacts
  <2>2. step # "idle" /\ UNCHANGED <<process, config, disk, whole, current>>
    BY <1>4 DEF download
  <2> QED
    BY <2>1, <2>2 DEF Timely, StoreIsCurrent
<1>5. CASE Notify \/ Save \/ Test \/ Block \/ Build \/ Fetch \/ FetchFails \/ Slept \/ Close
  <2>1. /\ UNCHANGED <<process, config, disk, snapshot, current>> /\ (whole' => whole)
        /\ (dl' # "none" => dl # "none") /\ (step' # "idle" => step # "idle")
    BY <1>5 DEF Notify, Save, Test, Block, Build, Fetch, FetchFails, Slept, Close
  <2> QED
    BY <2>1 DEF Timely, StoreIsCurrent
<1>6. CASE Write
  <2>1. /\ step = "write" /\ step' = "idle" /\ disk' = Persisted(config)
        /\ due' = (due /\ CallOp = "Enable") /\ current' = IF due' THEN current ELSE {Core(config)}
        /\ UNCHANGED <<process, config, dl, snapshot>> /\ Runs
        /\ CallOp \in {"SetConfiguration", "Enable"}
    BY <1>6 DEF Write, TypeInv, Control, CallOp
  <2>2. Core(disk') = Core(config) /\ Core(config) \in current'
    BY <1>0, <2>1, CoreFacts DEF Timely
  <2>3. dl # "none" => Core(snapshot) \in current'
    <3>1. CASE due'
      BY <2>1, <3>1 DEF Timely
    <3>2. CASE ~due'
      <4>1. dl # "none" => Alike(snapshot, config)
        BY <2>1, <3>2 DEF Copied, Settled, Saving
      <4> QED
        BY <2>1, <3>2, <4>1, CoreFacts
    <3> QED
      BY <3>1, <3>2
  <2> QED
    BY <2>1, <2>2, <2>3 DEF Timely, StoreIsCurrent, Runs
<1>7. CASE Start
  <2>1. /\ process = "off" /\ UNCHANGED <<disk, dl, snapshot, step>> /\ (whole' => whole)
        /\ dl = "none" /\ step = "idle"
    BY <1>7 DEF Start, TypeInv, Control, Runs
  <2>2. CASE UNCHANGED <<process, config, whole, current>>
    BY <2>1, <2>2 DEF Timely, StoreIsCurrent
  <2>3. CASE whole /\ config' = Loaded(Default, disk) /\ whole' = FALSE /\ current' = current
    BY <1>0, <2>1, <2>3, CoreFacts, DefaultTyped DEF Timely, StoreIsCurrent
  <2>4. CASE config' = Default /\ whole' = FALSE /\ current' = {Core(Default)}
    BY <2>1, <2>4 DEF Timely, StoreIsCurrent
  <2> QED
    BY <1>7, <2>2, <2>3, <2>4 DEF Start
<1>8. CASE Started
  <2>1. /\ process = "starts" /\ process' = "runs" /\ disk' = Persisted(config)
        /\ UNCHANGED <<config, dl, snapshot, step, current>>
    BY <1>8 DEF Started
  <2> QED
    BY <1>0, <2>1, CoreFacts DEF Timely, StoreIsCurrent
<1>9. CASE SaveCopy
  <2>1. Core(snapshot') = Core(snapshot)
    BY <1>0, <1>9, CoreFacts DEF SaveCopy
  <2> QED
    BY <1>9, <2>1 DEF SaveCopy, Timely, StoreIsCurrent
<1>10. CASE WriteCopy
  <2>1. Core(disk') = Core(snapshot)
    BY <1>0, <1>10, CoreFacts DEF WriteCopy
  <2> QED
    BY <1>10, <2>1 DEF WriteCopy, Timely, StoreIsCurrent
<1>11. CASE Deinitialize \/ DestroyDownloader
  BY <1>11 DEF Deinitialize, DestroyDownloader, Timely, StoreIsCurrent
<1>12. CASE Gone \/ Crash
  BY <1>12 DEF Gone, Crash, Forgotten, Timely, StoreIsCurrent
<1> QED
  BY <1>1, <1>2, <1>3, <1>4, <1>5, <1>6, <1>7, <1>8, <1>9, <1>10, <1>11, <1>12
     DEF SettingsNext, CallGoesOn, DownloadStep

-------------------------------------------------------------------------------
(* The theorems.                                                           *)

SettingsInv == TypeInv /\ Written /\ Copied /\ Audible /\ Timely

LEMMA SettingsStart == SettingsInit => SettingsInv
<1> SUFFICES ASSUME SettingsInit PROVE SettingsInv
  OBVIOUS
<1> USE DEF SettingsInit
<1>1. Default \in Configs /\ Persisted(Default) \in Stored /\ Default.path = FALSE
      /\ Persisted(Default).path = FALSE
  BY DefaultTyped, PersistedTyped DEF Default, Persisted
<1>2. <<>> \in Seq(Calls) /\ NoClient \notin Clients
  OBVIOUS
<1>3. TypeInv
  <2>1. SettingsTypeOK
    <3>1. /\ config \in Configs /\ disk \in Stored /\ snapshot \in Configs
          /\ todo \in [Clients -> Seq(Calls)] /\ caller \in Clients \cup {NoClient}
      BY <1>1, <1>2
    <3>2. batches \in 0 .. MaxBatches /\ starts \in 0 .. MaxStarts
      OBVIOUS
    <3>3. current \subseteq Cores
      BY CoreFacts, DefaultTyped
    <3> QED
      BY <3>1, <3>2, <3>3 DEF SettingsTypeOK
  <2> QED
    BY <2>1 DEF TypeInv, Control
<1>4. Written /\ Copied /\ Audible /\ Timely
  BY <1>1, CoreFacts DEF Written, Copied, Audible, Timely, Runs, StoreFree, StoreIsCurrent
<1> QED
  BY <1>3, <1>4 DEF SettingsInv

LEMMA SettingsStep == SettingsInv /\ [SettingsNext]_settingsVars => SettingsInv'
<1> SUFFICES ASSUME SettingsInv, [SettingsNext]_settingsVars PROVE SettingsInv'
  OBVIOUS
<1>1. CASE SettingsNext
  <2>1. SettingsTypeOK
    BY DEF SettingsInv, TypeInv
  <2>2. SettingsTypeOK'
    BY <1>1, <2>1, ConfigTyped, TodoTyped, ControlTyped, FlagsTyped DEF SettingsInv, SettingsTypeOK
  <2>3. TypeInv'
    BY <1>1, <2>2, ControlStep DEF SettingsInv, TypeInv
  <2> QED
    BY <1>1, <2>3, WrittenStep, CopiedStep, AudibleStep, TimelyStep DEF SettingsInv
<1>2. CASE UNCHANGED settingsVars
  <2>1. TypeInv'
    BY <1>2 DEF SettingsInv, settingsVars, callVars, dlVars, store, TypeInv, SettingsTypeOK, Control,
       CallOp, Runs
  <2>2. Written' /\ Copied'
    BY <1>2 DEF SettingsInv, settingsVars, callVars, dlVars, store, Written, Copied, Runs, StoreFree,
       Settled, Saving, CallOp, Alike
  <2>3. Audible' /\ Timely'
    BY <1>2 DEF SettingsInv, settingsVars, callVars, dlVars, store, Audible, Timely, Runs, Settled,
       Saving, CallOp, Working, StoreIsCurrent
  <2> QED
    BY <2>1, <2>2, <2>3 DEF SettingsInv
<1> QED
  BY <1>1, <1>2

\* The settings, the store, the audio file and the thread that fetches it keep to their
\* ranges and to one another, whatever the clients ask for and whenever the process dies
\* (TTSManager.cpp:231-373, TTSConfiguration.cpp, TTSDownloader.cpp).
THEOREM SettingsInvariant == SettingsSpec => []SettingsInv
  BY SettingsStart, SettingsStep, PTL DEF SettingsSpec

\* Every setting in memory, in the store and in the downloader's copy is one that the
\* speaker takes, after any requests, crashes and starts (TTSSpeaker.cpp:114-298).
THEOREM SettingsTyped == SettingsSpec => []SettingsTypeOK
<1>1. SettingsInv => SettingsTypeOK
  BY DEF SettingsInv, TypeInv
<1> QED
  BY <1>1, SettingsInvariant, PTL

\* The store has what the manager has, but for what is due, and the path of the fallback
\* audio leads to the audio of the fallback text, but for what is still to be downloaded
\* (TTSManager.cpp:328-335, TTSDownloader.cpp:60-185).
THEOREM SettingsAreHeld == SettingsSpec => []SettingsHold
<1>1. SettingsInv => StoreHolds
  <2> SUFFICES ASSUME SettingsInv, AtRest PROVE StoreHolds
    BY DEF StoreHolds
  <2>1. /\ whole /\ disk.enabled \in {config.enabled, snapshot.enabled}
        /\ ~due => Alike(disk, config) /\ (disk.path => config.path)
    BY DEF SettingsInv, Written, AtRest, Runs
  <2>2. config \in Configs /\ disk \in Stored
    BY DEF SettingsInv, TypeInv, SettingsTypeOK
  <2>3. Alike(disk, config) => disk = [Persisted(config) EXCEPT !.enabled = disk.enabled,
                                                               !.path = disk.path]
    <3>1. PICK p \in Stored : p = Persisted(config)
      BY <2>2, PersistedTyped
    <3>2. PICK q : q = [p EXCEPT !.enabled = disk.enabled, !.path = disk.path]
      OBVIOUS
    <3>3. /\ q \in Stored /\ q.enabled = disk.enabled /\ q.path = disk.path
          /\ q.language = p.language /\ q.voice = p.voice /\ q.level = p.level
          /\ q.duck = p.duck /\ q.text = p.text
      BY <2>2, <3>2 DEF Stored
    <3>4. Alike(p, config)
      BY <2>2, <3>1, KeptFacts
    <3>5. Alike(disk, config) => disk = q
      BY <2>2, <3>3, <3>4 DEF Alike, Stored
    <3> QED
      BY <3>1, <3>2, <3>5
  <2> QED
    BY <2>1, <2>3 DEF StoreHolds
<1>2. SettingsInv => PathHolds
  BY DEF SettingsInv, Audible, Settled, PathHolds
<1> QED
  BY <1>1, <1>2, SettingsInvariant, PTL DEF SettingsHold

\* A store that is whole never goes back to settings that a call has overwritten, whoever
\* of the manager and the downloader writes it last, and whenever the process dies
\* (TTSManager.cpp:294-335, TTSDownloader.cpp:163-171).
THEOREM StoreStaysCurrent == SettingsSpec => []StoreIsCurrent
<1>1. SettingsInv => StoreIsCurrent
  BY DEF SettingsInv, Timely
<1> QED
  BY <1>1, SettingsInvariant, PTL

-------------------------------------------------------------------------------
(* The caches.                                                             *)

USE CachesAssumption
USE DEF At, Go, Miss

\* The last notification on its way
Delivered(c) == events[c] # <<>> => subscribed[c] /\ events[c][Len(events[c])] = truth[c]

\* Nothing is notified before there is a subscription: the network's first answer is
\* stored before it, and that of RFC is handled by the thread that asks.
Quiet(c) ==
    /\ c = "net" => /\ subscribed[c] => turn[c] = "idle"
                    /\ ~updated[c] /\ turn[c] # "clear"
                    /\ (late[c] /\ ~subscribed[c]) => missed[c] # {}
    /\ c = "rfc" => ~updated[c] /\ turn[c] # "clear"

\* After its answer the thread knows that it is old only by a notification it has noted,
\* or because there was none.
Excuses(c) == (late[c] /\ turn[c] \in {"answered", "stored"}) => missed[c] # {} \/ updated[c]

\* What the thread has in hand, or has stored
Tracked(c) ==
    /\ turn[c] = "answered" => reply[c] = truth[c] \/ missed[c] # {} \/ events[c] # <<>> \/ late[c]
    /\ turn[c] \in {"stored", "clear"} =>
           known[c] = truth[c] \/ missed[c] # {} \/ events[c] # <<>> \/ late[c]
    /\ turn[c] = "idle" => known[c] = truth[c] \/ missed[c] # {} \/ events[c] # <<>> \/ updated[c]

Explained(c) == Delivered(c) /\ Quiet(c) /\ Excuses(c) /\ Tracked(c)
Inv == CachesTypeOK /\ \A c \in Caches : Explained(c)

\* A queue after a notification comes and after one is handled.
LEMMA QueueFacts ==
  ASSUME NEW S, NEW q \in Seq(S), NEW v \in S
  PROVE  /\ Append(q, v) \in Seq(S) /\ Append(q, v) # <<>>
         /\ Append(q, v)[Len(Append(q, v))] = v
  OBVIOUS

LEMMA HandledFacts ==
  ASSUME NEW S, NEW q \in Seq(S), q # <<>>
  PROVE  /\ Head(q) \in S /\ Tail(q) \in Seq(S)
         /\ Tail(q) # <<>> => Tail(q)[Len(Tail(q))] = q[Len(q)]
         /\ Tail(q) = <<>> => Head(q) = q[Len(q)]
<1>1. Head(q) \in S /\ Tail(q) \in Seq(S) /\ Len(q) \in Nat \ {0} /\ Len(Tail(q)) = Len(q) - 1
  OBVIOUS
<1>2. ASSUME Tail(q) # <<>> PROVE Tail(q)[Len(Tail(q))] = q[Len(q)]
  <2>1. Len(Tail(q)) \in Nat \ {0}
    BY <1>1, <1>2
  <2> QED
    BY <1>1, <2>1
<1>3. ASSUME Tail(q) = <<>> PROVE Head(q) = q[Len(q)]
  <2>1. Len(q) = 1
    BY <1>1, <1>3
  <2> QED
    BY <1>1, <2>1
<1> QED
  BY <1>1, <1>2, <1>3

\* The sets the variables take their values from, and what is put into them.
Turns == {"new", "idle", "asked", "answered", "stored", "clear"}
Reasons == {"unsubscribed", "cleared", "failed"}

\* Each step keeps the types.
LEMMA TypeStep ==
  ASSUME CachesTypeOK, NEW c \in Caches, CacheStep(c)
  PROVE  CachesTypeOK'
<1>0. 0 \in Values /\ \A w \in [Caches -> Values] : w[c] \in Values
  BY DEF Values
<1>1. turn' \in [Caches -> Turns]
  BY DEF CachesTypeOK, CacheStep, Ask, AskAgain, Answer, Store, Subscribe, registerNotification,
     Clear, Change, serviceAccessTokenChanged, onConnectionStatusChanged,
     onDeviceMgtUpdateReceived, Event, Turns
<1>2. missed' \in [Caches -> SUBSET Reasons]
  <2>1. missed \in [Caches -> SUBSET Reasons]
    BY DEF CachesTypeOK, Reasons
  <2>2. \A W \in SUBSET Reasons : [missed EXCEPT ![c] = @ \cup W] \in [Caches -> SUBSET Reasons]
    BY <2>1
  <2>3. [missed EXCEPT ![c] = {}] \in [Caches -> SUBSET Reasons]
    BY <2>1
  <2>4. /\ {"failed"} \in SUBSET Reasons /\ {"cleared"} \in SUBSET Reasons
        /\ {"unsubscribed"} \in SUBSET Reasons /\ {} \in SUBSET Reasons
    BY DEF Reasons
  <2>5. CASE Answer(c)
    BY <2>2, <2>3, <2>4, <2>5 DEF Answer
  <2>6. CASE Clear(c)
    BY <2>2, <2>4, <2>6 DEF Clear
  <2>7. CASE Change(c)
    BY <2>1, <2>2, <2>4, <2>7 DEF Change
  <2>8. CASE onConnectionStatusChanged(c)
    BY <2>3, <2>8 DEF onConnectionStatusChanged
  <2>9. CASE missed' = missed
    BY <2>1, <2>9
  <2> QED
    BY <2>5, <2>6, <2>7, <2>8, <2>9 DEF CacheStep, Ask, AskAgain, Store, Subscribe,
       registerNotification, serviceAccessTokenChanged, onDeviceMgtUpdateReceived
<1>3. /\ late' \in [Caches -> BOOLEAN] /\ updated' \in [Caches -> BOOLEAN]
      /\ subscribed' \in [Caches -> BOOLEAN]
  <2> USE DEF CachesTypeOK, CacheStep, Ask, AskAgain, Answer, Store, Subscribe,
      registerNotification, Clear, Change, serviceAccessTokenChanged,
      onConnectionStatusChanged, onDeviceMgtUpdateReceived, Event
  <2>1. late' \in [Caches -> BOOLEAN]
    OBVIOUS
  <2>2. updated' \in [Caches -> BOOLEAN]
    <3>1. updated \in [Caches -> BOOLEAN]
      OBVIOUS
    <3>2. \/ updated' = updated
          \/ updated' = [updated EXCEPT ![c] = TRUE]
          \/ updated' = [updated EXCEPT ![c] = FALSE]
      OBVIOUS
    <3> QED
      BY ONLY <3>1, <3>2
  <2>3. subscribed' \in [Caches -> BOOLEAN]
    <3>1. subscribed \in [Caches -> BOOLEAN]
      OBVIOUS
    <3>2. \/ subscribed' = subscribed
          \/ subscribed' = [subscribed EXCEPT ![c] = TRUE]
          \/ subscribed' = [subscribed EXCEPT ![c] = FALSE]
      OBVIOUS
    <3> QED
      BY ONLY <3>1, <3>2
  <2> QED
    BY <2>1, <2>2, <2>3
<1>4. reply' \in [Caches -> Values \cup {Failed}]
  <2>1. CASE Answer(c)
    <3>1. reply \in [Caches -> Values \cup {Failed}] /\ truth[c] \in Values
      BY DEF CachesTypeOK
    <3> QED
      BY <2>1, <3>1 DEF Answer
  <2>2. CASE reply' = reply
    BY <2>2 DEF CachesTypeOK
  <2> QED
    BY <2>1, <2>2 DEF CacheStep, Ask, AskAgain, Store, Subscribe, registerNotification, Clear,
       Change, serviceAccessTokenChanged, onConnectionStatusChanged, onDeviceMgtUpdateReceived,
       Event
<1>5. truth' \in [Caches -> Values]
  <2>1. CASE Change(c)
    BY <2>1 DEF CachesTypeOK, Change, Values
  <2>2. CASE ~Change(c)
    BY <2>2 DEF CachesTypeOK, CacheStep, Ask, AskAgain, Answer, Store, Subscribe,
       registerNotification, Clear, serviceAccessTokenChanged, onConnectionStatusChanged,
       onDeviceMgtUpdateReceived, Event
  <2> QED
    BY <2>1, <2>2
<1>6. events' \in [Caches -> Seq(Values)] /\ (events[c] # <<>> => Head(events[c]) \in Values)
  <2>1. events[c] \in Seq(Values) /\ truth'[c] \in Values
    BY <1>5 DEF CachesTypeOK
  <2>2. Append(events[c], truth'[c]) \in Seq(Values)
    BY <2>1, QueueFacts
  <2>3. events[c] # <<>> => Tail(events[c]) \in Seq(Values) /\ Head(events[c]) \in Values
    BY <2>1, HandledFacts
  <2>4. events \in [Caches -> Seq(Values)]
    BY DEF CachesTypeOK
  <2>5. CASE Change(c)
    BY <2>2, <2>3, <2>4, <2>5 DEF Change
  <2>6. CASE Event(c)
    BY <2>3, <2>4, <2>6 DEF Event
  <2>7. CASE events' = events
    BY <2>3, <2>4, <2>7
  <2> QED
    BY <2>5, <2>6, <2>7 DEF CacheStep, Ask, AskAgain, Answer, Store, Subscribe,
       registerNotification,
       Clear, serviceAccessTokenChanged, onConnectionStatusChanged, onDeviceMgtUpdateReceived
<1>7. known' \in [Caches -> Values]
  BY <1>0, <1>6 DEF CachesTypeOK, CacheStep, Ask, AskAgain, Answer, Store, Subscribe,
     registerNotification, Clear, Change, serviceAccessTokenChanged, onConnectionStatusChanged,
     onDeviceMgtUpdateReceived, Event
<1> QED
  BY <1>1, <1>2, <1>3, <1>4, <1>5, <1>6, <1>7 DEF CachesTypeOK, Turns, Reasons

\* A step of one cache leaves the others alone.
LEMMA Others ==
  ASSUME CachesTypeOK, NEW c \in Caches, CacheStep(c), NEW d \in Caches, d # c, Explained(d)
  PROVE  Explained(d)'
<1>1. /\ truth'[d] = truth[d] /\ known'[d] = known[d] /\ subscribed'[d] = subscribed[d]
      /\ updated'[d] = updated[d] /\ events'[d] = events[d] /\ turn'[d] = turn[d]
      /\ reply'[d] = reply[d] /\ late'[d] = late[d] /\ missed'[d] = missed[d]
  BY DEF CachesTypeOK, CacheStep, Ask, AskAgain, Answer, Store, Subscribe, registerNotification,
     Clear, Change, serviceAccessTokenChanged, onConnectionStatusChanged,
     onDeviceMgtUpdateReceived, Event
<1> QED
  BY <1>1 DEF Explained, Delivered, Quiet, Excuses, Tracked

\* The step of a cache keeps what explains it.
LEMMA Step ==
  ASSUME CachesTypeOK, NEW c \in Caches, Explained(c), CacheStep(c)
  PROVE  Explained(c)'
<1> USE DEF CachesTypeOK, Explained
<1>0. c \in {"sat", "net", "rfc"}
  OBVIOUS
<1>1. CASE Ask(c) \/ AskAgain(c)
  BY <1>0, <1>1 DEF Ask, AskAgain, Delivered, Quiet, Excuses, Tracked
<1>2. CASE Answer(c)
  <2>1. \/ reply'[c] = truth'[c] /\ missed'[c] = {} /\ late'[c] = FALSE
        \/ missed'[c] # {} /\ late'[c] = TRUE
    <3>1. ASSUME missed' = [missed EXCEPT ![c] = @ \cup {"failed"}] PROVE missed'[c] # {}
      <4>1. missed'[c] = missed[c] \cup {"failed"}
        BY <3>1
      <4> QED
        BY <4>1
    <3> QED
      BY <1>2, <3>1 DEF Answer
  <2>2. turn[c] = "asked" /\ turn'[c] = "answered" /\ UNCHANGED <<truth, events, subscribed, updated>>
    BY <1>2 DEF Answer
  <2> HIDE DEF CachesTypeOK
  <2>3. Delivered(c)' /\ Quiet(c)' /\ Excuses(c)'
    BY <1>0, <2>1, <2>2 DEF Delivered, Quiet, Excuses
  <2> QED
    BY <2>1, <2>2, <2>3 DEF Tracked
<1>3. CASE Store(c)
  <2>0. truth[c] # Failed
    <3>1. truth[c] \in Values
      OBVIOUS
    <3> QED
      BY <3>1 DEF Values, Failed
  <2>1. reply[c] = truth[c] => known'[c] = truth[c]
    BY <1>3, <2>0 DEF Store
  <2>2. /\ turn[c] = "answered" /\ turn'[c] = "stored"
        /\ UNCHANGED <<truth, events, subscribed, updated, reply, late, missed>>
    BY <1>3 DEF Store
  <2> HIDE DEF CachesTypeOK
  <2>3. Delivered(c)' /\ Quiet(c)' /\ Excuses(c)'
    BY <1>0, <2>2 DEF Delivered, Quiet, Excuses
  <2>4. known'[c] = truth'[c] \/ missed'[c] # {} \/ events'[c] # <<>> \/ late'[c]
    BY <2>1, <2>2 DEF Tracked
  <2> QED
    BY <2>2, <2>3, <2>4 DEF Tracked
<1>4. CASE Subscribe(c) \/ registerNotification(c)
  BY <1>0, <1>4 DEF Subscribe, registerNotification, Delivered, Quiet, Excuses, Tracked
<1>5. CASE Clear(c)
  BY <1>0, <1>5 DEF Clear, Delivered, Quiet, Excuses, Tracked
<1>6. CASE Change(c)
  <2>1. truth'[c] \in Values /\ events[c] \in Seq(Values)
    BY <1>6, TypeStep
  <2>2. Delivered(c)'
    <3>1. CASE subscribed[c]
      <4>1. events'[c] = Append(events[c], truth'[c]) /\ subscribed'[c]
        BY <1>6, <3>1 DEF Change
      <4> QED
        BY <2>1, <4>1, QueueFacts DEF Delivered
    <3>2. CASE ~subscribed[c]
      <4>1. events'[c] = events[c] /\ events[c] = <<>>
        BY <1>6, <3>2 DEF Change, Delivered
      <4> QED
        BY <4>1 DEF Delivered
    <3> QED
      BY <3>1, <3>2
  <2>3. events'[c] # <<>> \/ missed'[c] # {}
    <3>1. CASE subscribed[c]
      BY <1>6, <2>1, <3>1, QueueFacts DEF Change
    <3>2. CASE ~subscribed[c]
      <4>1. missed'[c] = missed[c] \cup {"unsubscribed"}
        BY <1>6, <3>2 DEF Change
      <4> QED
        BY <4>1
    <3> QED
      BY <3>1, <3>2
  <2>4. Quiet(c)' /\ Excuses(c)'
    BY <1>0, <1>6 DEF Change, Quiet, Excuses
  <2> QED
    BY <2>2, <2>3, <2>4 DEF Tracked
<1>7. CASE serviceAccessTokenChanged(c) \/ onConnectionStatusChanged(c) \/ onDeviceMgtUpdateReceived(c)
  <2> USE DEF serviceAccessTokenChanged, onConnectionStatusChanged, onDeviceMgtUpdateReceived, Event
  <2>0. events[c] # <<>> /\ events'[c] = Tail(events[c]) /\ events[c] \in Seq(Values)
    BY <1>7
  <2>1. Delivered(c)'
    BY <1>7, <2>0, HandledFacts DEF Delivered
  <2>2. Quiet(c)' /\ Excuses(c)'
    BY <1>0, <1>7 DEF Delivered, Quiet, Excuses
  <2>3. CASE c = "net"
    <3>1. events'[c] = <<>> => known'[c] = truth'[c]
      BY <1>7, <2>0, <2>3, HandledFacts DEF Delivered
    <3> QED
      BY <1>7, <2>1, <2>2, <2>3, <3>1 DEF Delivered, Quiet, Tracked
  <2>4. CASE c # "net"
    BY <1>0, <1>7, <2>1, <2>2, <2>4 DEF Tracked
  <2> QED
    BY <2>1, <2>2, <2>3, <2>4
<1> QED
  BY <1>1, <1>2, <1>3, <1>4, <1>5, <1>6, <1>7 DEF CacheStep

\* The invariant of the caches
THEOREM CachesInvariant == CachesSpec => []Inv
<1>1. CachesInit => Inv
  <2>1. 0 \in Values /\ <<>> \in Seq(Values)
    BY DEF Values
  <2> QED
    BY <2>1 DEF CachesInit, Inv, CachesTypeOK, Explained, Delivered, Quiet, Excuses, Tracked
<1>2. Inv /\ [\E c \in Caches : CacheStep(c)]_cacheVars => Inv'
  <2>1. SUFFICES ASSUME Inv, [\E c \in Caches : CacheStep(c)]_cacheVars PROVE Inv'
    OBVIOUS
  <2>2. CASE \E c \in Caches : CacheStep(c)
    <3>1. PICK c \in Caches : CacheStep(c)
      BY <2>2
    <3>2. CachesTypeOK'
      BY <2>1, <3>1, TypeStep DEF Inv
    <3>3. ASSUME NEW d \in Caches PROVE Explained(d)'
      <4>1. CASE d = c
        BY <2>1, <3>1, <4>1, Step DEF Inv
      <4>2. CASE d # c
        BY <2>1, <3>1, <4>2, Others DEF Inv
      <4> QED
        BY <4>1, <4>2
    <3> QED
      BY <3>2, <3>3 DEF Inv
  <2>3. CASE UNCHANGED cacheVars
    BY <2>1, <2>3 DEF cacheVars, Inv, CachesTypeOK, Explained, Delivered, Quiet, Excuses, Tracked
  <2> QED
    BY <2>1, <2>2, <2>3
<1> QED
  BY <1>1, <1>2, PTL DEF CachesSpec

\* A cache keeps its types and holds only values that were once true.
THEOREM CachesTyped == CachesSpec => []CachesTypeOK
<1>1. Inv => CachesTypeOK
  BY DEF Inv
<1> QED
  BY <1>1, CachesInvariant, PTL

\* Whatever changes and whenever, a cache at rest holds what is true, or one of the three
\* reasons why not is at hand: getSAT, isConnected and fetchURLFromConfig miss nothing else.
THEOREM StaleOnlyForCause == CachesSpec => []CachesExplained
<1>1. Inv => CachesExplained
  BY DEF Inv, Explained, Tracked, CachesExplained
<1> QED
  BY <1>1, CachesInvariant, PTL

-------------------------------------------------------------------------------
(* The requests.                                                           *)

USE URLAssumption

\* upper_bound, and one back, finds the name of the next rate of the table.
LEMMA RateFacts ==
  ASSUME NEW u \in 1 .. 100
  PROVE  speechRateMap[utteranceRate(u)] \in u .. u + 25
<1>0. DOMAIN utteranceRateMap = {0, 25, 50, 75, 90}
  BY DEF utteranceRateMap
<1>1. PICK k \in {0, 25, 50, 75, 90} : k <= u /\ \A j \in {0, 25, 50, 75, 90} : j <= u => k >= j
  OBVIOUS
<1>2. Max({j \in DOMAIN utteranceRateMap : j <= u}) = k
  BY <1>0, <1>1 DEF Max
<1>3. utteranceRate(u) = utteranceRateMap[k]
  BY <1>2 DEF utteranceRate
<1>4. speechRateMap[utteranceRateMap[k]] = IF k = 90 THEN 100 ELSE IF k = 75 THEN 90 ELSE k + 25
  BY DEF utteranceRateMap, speechRateMap
<1> QED
  BY <1>1, <1>3, <1>4

\* A request that was not made has no rate, and one that was has that of its input and
\* says its text.
URLInv ==
    /\ input = NoInput => request = NoRequest
    /\ input # NoInput => input.utterance \in UtteranceRates /\ input.text \in SpokenTexts
    /\ RequestHolds

LEMMA SpokenFacts == \A t \in SpokenTexts : t \in Seq(Characters) /\ t # << >>
<1> SUFFICES ASSUME NEW t \in SpokenTexts PROVE t \in Seq(Characters) /\ t # << >>
  OBVIOUS
<1>1. t \in UNION {[1 .. m -> Characters] : m \in 0 .. MaxText} /\ ToSet(t) \ {Blank} # {}
  BY DEF SpokenTexts, BoundedSeq, SeqOf
<1>2. PICK m \in 0 .. MaxText : t \in [1 .. m -> Characters]
  BY <1>1
<1>3. t \in Seq(Characters)
  BY <1>2
<1>4. t # << >>
  BY <1>1 DEF ToSet
<1> QED
  BY <1>3, <1>4

\* A server that is sent the text has no request for an endpoint in its answer.
LEMMA PostFacts ==
  ASSUME NEW c, NEW t, NEW f, NEW r \in httppostURL(c, t, f)
  PROVE  r.endpoint \notin {"local", "rfc", "secure"}
<1> DEFINE named == [NoRequest EXCEPT !.endpoint = "named", !.voice = "remote", !.text = t]
           audio == [NoRequest EXCEPT !.endpoint = "file"]
<1>1. r \in {NoRequest, named, audio}
  BY DEF httppostURL
<1>2. NoRequest.endpoint = "none" /\ named.endpoint = "named" /\ audio.endpoint = "file"
  BY DEF NoRequest
<1> HIDE DEF named, audio
<1> QED
  BY <1>1, <1>2

\* The rate of a request
LEMMA RateOfRequest ==
  ASSUME NEW c, NEW t, NEW l, NEW u \in UtteranceRates,
         NEW r \in httpgetURL(c, t, u, l), r.rate[1] = "speaking_rate", u # 0
  PROVE  speechRateMap[r.rate[2]] \in u .. u + 25
<1>1. r.rate = Rate(c, u, l)
  BY DEF httpgetURL
<1>2. r.rate[1] = "rate" \/ r.rate[2] = utteranceRate(u)
  BY <1>1 DEF Rate
<1>3. u \in 1 .. 100
  <2>1. u \in 0 .. 100
    OBVIOUS
  <2> QED
    BY <2>1
<1> QED
  BY <1>2, <1>3, RateFacts

\* A request says the text, of whatever length: silent punctuation that follows punctuation
\* is dropped, and nothing else; a symbol between spaces is said as a word, and one next to
\* a letter is not (TTSURLConstructer.cpp:260-303).  And a TTS 2 endpoint is never asked to
\* speak slower than the utterance asks for, nor by more than a quarter faster, whatever
\* the settings (TTSURLConstructer.cpp:104-131).
THEOREM RequestsHold == URLSpec => []RequestHolds
<1>0. NoRequest.endpoint \notin {"local", "rfc", "secure"}
  BY DEF NoRequest
<1>1. URLInit => URLInv
  BY <1>0 DEF URLInit, URLInv, RequestHolds
<1>2. URLInv /\ [URLNext]_urlVars => URLInv'
  <2> SUFFICES ASSUME URLInv, [URLNext]_urlVars PROVE URLInv'
    OBVIOUS
  <2>1. CASE Asked
    <3>1. input = NoInput /\ request' = NoRequest
      BY <2>1 DEF Asked, URLInv
    <3>2. input'.utterance \in UtteranceRates /\ input'.text \in SpokenTexts
      BY <2>1 DEF Asked
    <3> QED
      BY <1>0, <3>1, <3>2 DEF URLInv, RequestHolds
  <2>2. CASE Construct
    <3>1. /\ input # NoInput /\ input' = input
          /\ input.utterance \in UtteranceRates /\ input.text \in SpokenTexts
      BY <2>2 DEF Construct, URLInv
    <3> DEFINE c == input.config
               t == input.text
               u == input.utterance
               f == input.isFallback
               l == input.isLocal
    <3>2. request' \in constructURL(c, t, u, f, l)
      BY <2>2 DEF Construct
    <3> HIDE DEF c, f, l
    <3>3. RequestHolds'
      <4>1. CASE request' \in httppostURL(c, t, f)
        <5>1. request'.endpoint \notin {"local", "rfc", "secure"}
          BY <4>1, PostFacts
        <5> QED
          BY <5>1 DEF RequestHolds
      <4>2. CASE request' \in httpgetURL(c, t, u, l)
        <5>1. Says(t, sanitizeString(t))
          BY <3>1, SpokenFacts, SanitizedSays
        <5>2. /\ request'.text = sanitizeString(t).text
              /\ request'.outside = sanitizeString(t).outside
          BY <4>2 DEF httpgetURL
        <5>3. SaysTheText'
          BY <3>1, <5>1, <5>2 DEF SaysTheText, Says
        <5>4. RatesAgree'
          BY <3>1, <4>2, RateOfRequest DEF RatesAgree
        <5> QED
          BY <5>3, <5>4 DEF RequestHolds
      <4> QED
        BY <3>2, <4>1, <4>2 DEF constructURL
    <3> QED
      BY <3>1, <3>3 DEF URLInv
  <2>3. CASE UNCHANGED urlVars
    BY <2>3 DEF urlVars, URLInv, RequestHolds, SaysTheText, RatesAgree
  <2> QED
    BY <2>1, <2>2, <2>3 DEF URLNext
<1>3. URLInv => RequestHolds
  BY DEF URLInv
<1> QED
  BY <1>1, <1>2, <1>3, PTL DEF URLSpec

-------------------------------------------------------------------------------
(* Together.                                                               *)

\* The three share nothing: each goes its own way in the whole.
LEMMA Together == Spec => SettingsSpec /\ CachesSpec /\ URLSpec
<1>1. Init => SettingsInit /\ CachesInit /\ URLInit
  BY DEF Init
<1>2. [Next]_vars => /\ [SettingsNext]_settingsVars
                     /\ [\E c \in Caches : CacheStep(c)]_cacheVars
                     /\ [URLNext]_urlVars
  BY DEF Next, vars
<1> QED
  BY <1>1, <1>2, PTL DEF Spec, SettingsSpec, CachesSpec, URLSpec

\* What is proved of each holds in the whole, whatever is asked for, changed, lost or
\* notified, and whenever the process dies: the ranges of the settings and of the caches
\* (TTSSpeaker.cpp:114-298, SatToken.cpp, NetworkStatusObserver.cpp, RFCURLObserver.cpp),
\* what is saved, in force and downloaded, and never comes back, what a cache
\* remembers, and what is asked to be said, and how fast.
THEOREM AllTogether == Spec => [](TypeOK /\ SettingsHold /\ StoreIsCurrent /\ CachesExplained
                                           /\ RequestHolds)
<1>1. SettingsTypeOK /\ CachesTypeOK => TypeOK
  BY DEF TypeOK
<1> QED
  BY <1>1, Together, SettingsTyped, SettingsAreHeld, StoreStaysCurrent, CachesTyped,
     StaleOnlyForCause, RequestsHold, PTL
===============================================================================
