--------------------------- MODULE CapFormsProofs ---------------------------
(***************************************************************************)
(* Proofs about the representations of libcap's objects, for all sizes of  *)
(* a capability set: the highest capability is found, and what an object   *)
(* is converted to is converted back to the same object.                   *)
(***************************************************************************)
EXTENDS CapForms, FiniteSetTheorems, TLAPS

-----------------------------------------------------------------------------
(* Induction over the natural numbers in a form that mentions sets and     *)
(* functions only (no operator parameter), and what it gives for functions *)
(* defined by recursion.                                                   *)

(* A set that has 0 and, up to n, the successor of each of its members has *)
(* n.  (Otherwise x - 1 would be an injection of a finite set into itself  *)
(* that is not onto.)                                                      *)
LEMMA UpTo ==
  ASSUME NEW n \in Nat, NEW S, 0 \in S,
         \A m \in 0 .. n - 1 : m \in S => m + 1 \in S
  PROVE  n \in S
<1> SUFFICES ASSUME n \notin S PROVE FALSE
  OBVIOUS
<1> DEFINE T == (0 .. n) \ S
           pred == [x \in T |-> x - 1]
<1>1. IsFiniteSet(T)
  <2>1. IsFiniteSet(0 .. n) BY FS_Interval
  <2> QED BY <2>1, FS_Subset
<1>2. \A x \in T : x - 1 \in T
  <2> SUFFICES ASSUME NEW x \in T PROVE x - 1 \in T
    OBVIOUS
  <2>1. x # 0 /\ x \in 0 .. n OBVIOUS
  <2>2. x - 1 \in 0 .. n - 1 BY <2>1
  <2>3. x - 1 \notin S
    <3> SUFFICES ASSUME x - 1 \in S PROVE FALSE
      OBVIOUS
    <3>1. (x - 1) + 1 \in S BY <2>2
    <3>2. (x - 1) + 1 = x BY <2>1
    <3> QED BY <3>1, <3>2
  <2> QED BY <2>2, <2>3
<1>3. pred \in Injection(T, T)
  <2>1. pred \in [T -> T] BY <1>2
  <2>2. \A x, y \in T : pred[x] = pred[y] => x = y OBVIOUS
  <2> QED BY <2>1, <2>2 DEF Injection, IsInjective
<1>4. pred \in Surjection(T, T) BY <1>1, <1>3, FS_Injection
<1>5. n \in T OBVIOUS
<1>6. PICK x \in T : pred[x] = n BY <1>4, <1>5 DEF Surjection
<1> QED BY <1>6

(* Values computed one after the other from b by a function g of the value *)
(* before and the index exist, up to any N.                                *)
LEMMA Recursion ==
  ASSUME NEW S, NEW b \in S, NEW N \in Nat, NEW g \in [1 .. N -> [S -> S]]
  PROVE  \E h \in [0 .. N -> S] :
            h[0] = b /\ \A i \in 1 .. N : h[i] = g[i][h[i - 1]]
<1> DEFINE Upto(n) == \E h \in [0 .. n -> S] :
                         h[0] = b /\ \A i \in 1 .. n : h[i] = g[i][h[i - 1]]
           Q == {n \in 0 .. N : Upto(n)}
<1>1. 0 \in Q
  <2> DEFINE h == [i \in 0 .. 0 |-> b]
  <2>1. h \in [0 .. 0 -> S] /\ h[0] = b OBVIOUS
  <2>2. \A i \in 1 .. 0 : h[i] = g[i][h[i - 1]] OBVIOUS
  <2>3. Upto(0) BY <2>1, <2>2
  <2> QED BY <2>3
<1>2. ASSUME NEW n \in 0 .. N - 1, n \in Q PROVE n + 1 \in Q
  <2>1. PICK h \in [0 .. n -> S] :
           h[0] = b /\ \A i \in 1 .. n : h[i] = g[i][h[i - 1]]
    BY <1>2
  <2> DEFINE v == g[n + 1][h[n]]
             k == [i \in 0 .. n + 1 |-> IF i <= n THEN h[i] ELSE v]
  <2>2. n \in Nat /\ n \in 0 .. n /\ n + 1 \in 1 .. N /\ n + 1 \in 0 .. N BY <1>2
  <2>3. v \in S BY <2>2
  <2> HIDE DEF v
  <2>4. k \in [0 .. n + 1 -> S] BY <2>2, <2>3
  <2>5. k[0] = b BY <2>1, <2>2
  <2>6. ASSUME NEW i \in 1 .. n + 1 PROVE k[i] = g[i][k[i - 1]]
    <3>1. CASE i <= n BY <2>1, <2>2, <3>1
    <3>2. CASE i = n + 1
      <4>1. k[i] = v /\ k[i - 1] = h[n] BY <2>2, <3>2
      <4> QED BY <3>2, <4>1 DEF v
    <3> QED BY <2>2, <3>1, <3>2
  <2> HIDE DEF k
  <2>7. Upto(n + 1) BY <2>4, <2>5, <2>6
  <2> QED BY <2>2, <2>7
<1> HIDE DEF Q
<1>3. N \in Q BY <1>1, <1>2, UpTo
<1> QED BY <1>3 DEF Q

-----------------------------------------------------------------------------
(* The highest capability.                                                 *)

LEMMA Widths ==
  /\ WordBits \in Nat \ {0} /\ MAXBITS \in Nat \ {0} /\ WordBits <= MAXBITS
  /\ CAP_BITS \in 1 .. MAXBITS
<1>1. /\ Blks \in Nat /\ Blks > 0 /\ WordBytes \in Nat /\ WordBytes > 0
      /\ ByteBits \in Nat /\ ByteBits > 0
  BY FormsAssumption
<1>2. ASSUME NEW a \in Nat, NEW b \in Nat, a > 0, b > 0
      PROVE  a * b \in Nat /\ a * b > 0 /\ b <= a * b
  <2>1. a * b = (a - 1) * b + b BY <1>2
  <2>2. (a - 1) * b \in Nat BY <1>2
  <2> QED BY <1>2, <2>1, <2>2
<1>3. WordBits \in Nat /\ WordBits > 0 BY <1>1, <1>2 DEF WordBits
<1>4. MAXBITS \in Nat /\ MAXBITS > 0 /\ WordBits <= MAXBITS BY <1>1, <1>2, <1>3 DEF MAXBITS
<1> QED BY <1>3, <1>4, FormsAssumption

(* The bisection of libcap.h ends at the number the kernel has. *)
LEMMA Bisection ==
  ASSUME NEW k \in 0 .. MAXBITS + 1
  PROVE  binary_search(k) = k
<1> DEFINE M == MAXBITS
           A == 0 .. M + 1
           B == -1 .. M
           Step(f) == [r \in A \X B |->
                         LET min == r[1]  max == r[2]  mid == (min + max) \div 2
                         IN IF min > max THEN min
                            ELSE IF cap_get_bound(k, mid) < 0 THEN f[<<min, mid - 1>>]
                            ELSE f[<<mid + 1, max>>]]
           Limit(min, max) == IF min > max \/ k < min THEN min
                              ELSE IF k > max THEN max + 1 ELSE k
           h == [r \in A \X B |-> Limit(r[1], r[2])]
           s == CHOOSE f : f = Step(f)
<1>1. M \in Nat BY Widths
<1>2. ASSUME NEW min \in A, NEW max \in B, ~ min > max,
             NEW mid, mid = (min + max) \div 2
      PROVE  /\ mid \in Int /\ min <= mid /\ mid <= max /\ mid - 1 \in B /\ mid + 1 \in A
             /\ Limit(min, max) = IF cap_get_bound(k, mid) < 0 THEN Limit(min, mid - 1)
                                  ELSE Limit(mid + 1, max)
  <2>1. mid \in Int /\ min <= mid /\ mid <= max BY <1>1, <1>2
  <2> QED BY <1>1, <1>2, <2>1 DEF cap_get_bound
<1>3. h = Step(h)
  <2>1. \A min \in A, max \in B : h[<<min, max>>] = Limit(min, max) OBVIOUS
  <2> HIDE DEF Limit
  <2>2. \A r \in A \X B : h[r] = Step(h)[r]
    <3> SUFFICES ASSUME NEW r \in A \X B PROVE h[r] = Step(h)[r]
      OBVIOUS
    <3> DEFINE min == r[1]
               max == r[2]
               mid == (min + max) \div 2
    <3>0. min \in A /\ max \in B /\ h[r] = Limit(min, max) OBVIOUS
    <3> HIDE DEF h
    <3>1. CASE min > max BY <3>0, <3>1 DEF Limit
    <3>2. CASE ~ min > max
      <4>1. /\ mid - 1 \in B /\ mid + 1 \in A
            /\ Limit(min, max) = IF cap_get_bound(k, mid) < 0 THEN Limit(min, mid - 1)
                                 ELSE Limit(mid + 1, max)
        BY <1>2, <3>0, <3>2
      <4>2. Step(h)[r] = IF cap_get_bound(k, mid) < 0 THEN h[<<min, mid - 1>>]
                         ELSE h[<<mid + 1, max>>]
        BY <3>2
      <4> HIDE DEF Step, mid, min, max
      <4> QED BY <2>1, <3>0, <4>1, <4>2
    <3> QED BY <3>1, <3>2
  <2> HIDE DEF Limit
  <2>3. h = [r \in A \X B |-> h[r]] OBVIOUS
  <2>4. Step(h) = [r \in A \X B |-> Step(h)[r]] OBVIOUS
  <2> HIDE DEF h, Step
  <2> QED BY <2>2, <2>3, <2>4
<1> HIDE DEF Limit
<1>4. s = Step(s)
  <2> HIDE DEF h, Step
  <2> QED BY <1>3
<1>5. binary_search(k) = s[<<0, M>>] BY DEF binary_search
<1> HIDE DEF s, h
<1>6. ASSUME NEW min \in A, NEW max \in B
      PROVE  s[<<min, max>>] =
                IF min > max THEN min
                ELSE LET mid == (min + max) \div 2
                     IN IF cap_get_bound(k, mid) < 0 THEN s[<<min, mid - 1>>]
                        ELSE s[<<mid + 1, max>>]
  <2>1. <<min, max>> \in A \X B OBVIOUS
  <2>2. s[<<min, max>>] = Step(s)[<<min, max>>] BY <1>4
  <2> QED BY <2>1, <2>2
<1> DEFINE Found(n) == \A min \in A, max \in B :
                          max - min + 1 <= n => s[<<min, max>>] = Limit(min, max)
           Q == {n \in 0 .. M + 1 : Found(n)}
<1>7. 0 \in Q
  <2> SUFFICES ASSUME NEW min \in A, NEW max \in B, max - min + 1 <= 0
               PROVE  s[<<min, max>>] = Limit(min, max)
    BY <1>1
  <2>1. min > max BY <1>1
  <2> QED BY <1>6, <2>1 DEF Limit
<1>8. ASSUME NEW n \in 0 .. M, n \in Q PROVE n + 1 \in Q
  <2> SUFFICES ASSUME NEW min \in A, NEW max \in B, max - min + 1 <= n + 1
               PROVE  s[<<min, max>>] = Limit(min, max)
    BY <1>1
  <2> DEFINE mid == (min + max) \div 2
  <2>1. CASE min > max BY <1>6, <2>1 DEF Limit
  <2>2. CASE ~ min > max
    <3>1. /\ mid \in Int /\ min <= mid /\ mid <= max /\ mid - 1 \in B /\ mid + 1 \in A
          /\ Limit(min, max) = IF cap_get_bound(k, mid) < 0 THEN Limit(min, mid - 1)
                               ELSE Limit(mid + 1, max)
      BY <1>2, <2>2
    <3>2. s[<<min, max>>] = IF cap_get_bound(k, mid) < 0 THEN s[<<min, mid - 1>>]
                            ELSE s[<<mid + 1, max>>]
      BY <1>6, <2>2
    <3> HIDE DEF mid
    <3>3. s[<<min, mid - 1>>] = Limit(min, mid - 1) BY <1>1, <1>8, <3>1
    <3>4. s[<<mid + 1, max>>] = Limit(mid + 1, max) BY <1>1, <1>8, <3>1
    <3> QED BY <3>1, <3>2, <3>3, <3>4
  <2> QED BY <2>1, <2>2
<1>9. M + 1 \in Q
  <2> HIDE DEF Q
  <2> QED BY <1>1, <1>7, <1>8, UpTo
<1> QED BY <1>1, <1>5, <1>9 DEF Limit

LEMMA HighestCapability ==
  ASSUME NEW k \in Kernels
  PROVE  /\ cap_max_bits(k) = IF k \in 1 .. MAXBITS THEN k ELSE CAP_BITS
         /\ cap_max_bits(k) \in 1 .. MAXBITS
<1>1. k \in 0 .. MAXBITS + 1 BY FormsAssumption
<1>2. binary_search(k) = k BY <1>1, Bisection
<1> QED BY <1>2, Widths DEF cap_max_bits

-----------------------------------------------------------------------------
(* What the conversions return.                                            *)

LEMMA Words ==
  ASSUME NEW n \in {1, Blks}
  PROVE  WordsUpTo(n) \subseteq Values /\ n * WordBits \in Nat
<1>1. n * WordBits \in Nat /\ n * WordBits <= MAXBITS
  <2>1. CASE n = 1 BY <2>1, Widths
  <2>2. CASE n = Blks BY <2>2, Widths DEF MAXBITS
  <2> QED BY <2>1, <2>2
<1> DEFINE top == n * WordBits
<1> HIDE DEF top
<1>2. 0 .. top - 1 \subseteq 0 .. MAXBITS - 1 BY <1>1, Widths DEF top
<1> QED BY <1>1, <1>2 DEF WordsUpTo, Values, top

LEMMA ClauseBitsType ==
  ASSUME NEW cl, NEW lib_ PROVE ClauseBits(cl, lib_) \subseteq Values
<1> DEFINE blks == IF lib_.version = 1 THEN 1 ELSE Blks
<1>1. WordsUpTo(blks) \subseteq Values BY Words
<1>2. forceall(lib_.cmb, blks) \subseteq WordsUpTo(blks) BY DEF forceall, WordsUpTo
<1> QED BY <1>1, <1>2 DEF ClauseBits, WordsUpTo

LEMMA ActType ==
  ASSUME NEW caps \in CapObject, NEW act, NEW bits \in SUBSET Values
  PROVE  Act(caps, act, bits) \in CapObject
<1> DEFINE from == IF act[1] \in {"=", "=+", "=-"} THEN [fl \in Flags |-> caps[fl] \ bits]
                   ELSE caps
<1>1. from \in CapObject BY DEF CapObject
<1>2. \A fl \in Flags : from[fl] \subseteq Values BY <1>1 DEF CapObject
<1>3. Act(caps, act, bits) =
        [fl \in Flags |-> IF fl \notin act[2] THEN from[fl]
                          ELSE IF act[1] \in {"=", "=+", "+"} THEN from[fl] \cup bits
                          ELSE from[fl] \ bits]
  BY DEF Act
<1> HIDE DEF from
<1> QED BY <1>2, <1>3 DEF CapObject

(* The actions of a clause, one after the other. *)
LEMMA ClauseDoSteps ==
  ASSUME NEW caps \in CapObject, NEW cl, NEW lib_, Len(cl.acts) \in Nat
  PROVE  \E done \in [0 .. Len(cl.acts) -> CapObject] :
            /\ done[0] = caps
            /\ \A j \in 1 .. Len(cl.acts) :
                  done[j] = Act(done[j - 1], cl.acts[j], ClauseBits(cl, lib_))
            /\ ClauseDo(caps, cl, lib_) = done[Len(cl.acts)]
<1> DEFINE N == Len(cl.acts)
           S == CapObject
           Do(c, j) == Act(c, cl.acts[j], ClauseBits(cl, lib_))
           Step(f) == [j \in 0 .. N |-> IF j = 0 THEN caps ELSE Do(f[j - 1], j)]
           done == CHOOSE f : f = Step(f)
           g == [j \in 1 .. N |-> [c \in S |-> Do(c, j)]]
<1>1. \A j \in 1 .. N : \A c \in S : Do(c, j) \in S BY ClauseBitsType, ActType
<1>2. ClauseDo(caps, cl, lib_) = done[N] BY DEF ClauseDo
<1>3. N \in Nat OBVIOUS
<1> HIDE DEF Do, S, N
<1>4. g \in [1 .. N -> [S -> S]] BY <1>1
<1>5. caps \in S BY DEF S
<1>6. PICK h \in [0 .. N -> S] : h[0] = caps /\ \A i \in 1 .. N : h[i] = g[i][h[i - 1]]
  <2> HIDE DEF g
  <2> DEFINE b == caps
  <2>1. b \in S BY <1>5
  <2> HIDE DEF b
  <2>2. \E h \in [0 .. N -> S] : h[0] = b /\ \A i \in 1 .. N : h[i] = g[i][h[i - 1]]
    BY <1>3, <1>4, <2>1, Recursion
  <2> QED BY <2>2 DEF b
<1>7. h = Step(h)
  <2>1. ASSUME NEW i \in 1 .. N PROVE h[i] = Do(h[i - 1], i)
    <3>1. i - 1 \in 0 .. N BY <1>3
    <3>2. h[i - 1] \in S BY <1>6, <3>1
    <3> QED BY <1>6, <3>2
  <2>2. \A i \in 0 .. N : h[i] = Step(h)[i]
    <3> SUFFICES ASSUME NEW i \in 0 .. N PROVE h[i] = Step(h)[i] OBVIOUS
    <3>1. CASE i = 0 BY <1>6, <3>1
    <3>2. CASE i # 0
      <4>1. i \in 1 .. N BY <1>3, <3>2
      <4> QED BY <2>1, <3>2, <4>1
    <3> QED BY <3>1, <3>2
  <2> QED BY <1>6, <2>2
<1>8. done = Step(done)
  <2> HIDE DEF Step
  <2> QED BY <1>7
<1> HIDE DEF done
<1>9. done[0] = caps /\ \A j \in 1 .. N : done[j] = Do(done[j - 1], j)
  BY <1>3, <1>8
<1>10. done \in [0 .. N -> S]
  <2> DEFINE Q == {j \in 0 .. N : done[j] \in S}
  <2>1. 0 \in Q BY <1>3, <1>5, <1>9
  <2>2. ASSUME NEW j \in 0 .. N - 1, j \in Q PROVE j + 1 \in Q
    <3>1. j + 1 \in 1 .. N /\ j + 1 \in 0 .. N /\ (j + 1) - 1 = j BY <1>3
    <3> QED BY <1>1, <1>9, <2>2, <3>1
  <2>3. ASSUME NEW n \in 0 .. N PROVE n \in Q
    <3>1. \A j \in 0 .. n - 1 : j \in 0 .. N - 1 BY <1>3
    <3> HIDE DEF Q
    <3> QED BY <1>3, <2>1, <2>2, <3>1, UpTo
  <2>4. \A n \in 0 .. N : done[n] \in S BY <2>3
  <2>5. done = [j \in 0 .. N |-> done[j]]
    <3>1. \A g_ : Step(g_) = [j \in 0 .. N |-> Step(g_)[j]] OBVIOUS
    <3> HIDE DEF Step
    <3> QED BY <1>8, <3>1
  <2> QED BY <2>4, <2>5
<1> QED BY <1>2, <1>9, <1>10 DEF S, N, Do

LEMMA ClauseDoType ==
  ASSUME NEW caps \in CapObject, NEW cl, NEW lib_, Len(cl.acts) \in Nat
  PROVE  ClauseDo(caps, cl, lib_) \in CapObject
BY ClauseDoSteps

(* The clauses of a text, one after the other, up to the first that is wrong. *)
LEMMA FromTextSteps ==
  ASSUME NEW text \in CapText, NEW lib_
  PROVE  \E read \in [0 .. Len(text) -> CapObject \cup {NULL}] :
            /\ read[0] = NoFlags
            /\ \A j \in 1 .. Len(text) :
                  read[j] = IF read[j - 1] = NULL \/ ~ ClauseOk(text[j], lib_) THEN NULL
                            ELSE ClauseDo(read[j - 1], text[j], lib_)
            /\ cap_from_text(text, lib_) = read[Len(text)]
<1> DEFINE N == Len(text)
           S == CapObject \cup {NULL}
           Do(c, j) == IF c = NULL \/ ~ ClauseOk(text[j], lib_) THEN NULL
                       ELSE ClauseDo(c, text[j], lib_)
           Step(f) == [j \in 0 .. N |->
                         IF j = 0 THEN NoFlags
                         ELSE IF f[j - 1] = NULL \/ ~ ClauseOk(text[j], lib_) THEN NULL
                         ELSE ClauseDo(f[j - 1], text[j], lib_)]
           read == CHOOSE f : f = Step(f)
           g == [j \in 1 .. N |-> [c \in S |-> Do(c, j)]]
<1>1. \A j \in 1 .. N : \A c \in S : Do(c, j) \in S
  <2> SUFFICES ASSUME NEW j \in 1 .. N, NEW c \in CapObject
               PROVE  ClauseDo(c, text[j], lib_) \in CapObject
    OBVIOUS
  <2>1. Len(text[j].acts) \in Nat BY DEF CapText
  <2> QED BY <2>1, ClauseDoType
<1>2. cap_from_text(text, lib_) = read[N] BY DEF cap_from_text
<1>3. N \in Nat BY DEF CapText
<1>4. NoFlags \in S BY DEF NoFlags, CapObject
<1>5. \A f, j : j \in 0 .. N => Step(f)[j] = IF j = 0 THEN NoFlags ELSE Do(f[j - 1], j)
  OBVIOUS
<1>6. \A f : Step(f) = [j \in 0 .. N |-> Step(f)[j]] OBVIOUS
<1> HIDE DEF Do, S, N, Step
<1>7. g \in [1 .. N -> [S -> S]] BY <1>1
<1>8. PICK h \in [0 .. N -> S] : h[0] = NoFlags /\ \A i \in 1 .. N : h[i] = g[i][h[i - 1]]
  <2> HIDE DEF g
  <2> QED BY <1>3, <1>4, <1>7, Recursion
<1>9. h = Step(h)
  <2>1. ASSUME NEW i \in 1 .. N PROVE h[i] = Do(h[i - 1], i)
    <3>1. i - 1 \in 0 .. N BY <1>3
    <3>2. h[i - 1] \in S BY <1>8, <3>1
    <3> QED BY <1>8, <3>2
  <2>2. \A i \in 0 .. N : h[i] = Step(h)[i]
    <3> SUFFICES ASSUME NEW i \in 0 .. N PROVE h[i] = Step(h)[i] OBVIOUS
    <3>1. CASE i = 0 BY <1>5, <1>8, <3>1
    <3>2. CASE i # 0
      <4>1. i \in 1 .. N BY <1>3, <3>2
      <4> QED BY <1>5, <2>1, <3>2, <4>1
    <3> QED BY <3>1, <3>2
  <2>3. Step(h) = [j \in 0 .. N |-> Step(h)[j]] BY <1>6
  <2>4. h = [j \in 0 .. N |-> h[j]] BY <1>8
  <2> HIDE DEF Step
  <2> QED BY <2>2, <2>3, <2>4
<1>10. read = Step(read) BY <1>9
<1> HIDE DEF read
<1>11. read[0] = NoFlags /\ \A j \in 1 .. N : read[j] = Do(read[j - 1], j)
  BY <1>3, <1>5, <1>10
<1>12. read \in [0 .. N -> S]
  <2> DEFINE Q == {j \in 0 .. N : read[j] \in S}
  <2>1. 0 \in Q BY <1>3, <1>4, <1>11
  <2>2. ASSUME NEW j \in 0 .. N - 1, j \in Q PROVE j + 1 \in Q
    <3>1. j + 1 \in 1 .. N /\ j + 1 \in 0 .. N /\ (j + 1) - 1 = j BY <1>3
    <3> QED BY <1>1, <1>11, <2>2, <3>1
  <2>3. ASSUME NEW n \in 0 .. N PROVE n \in Q
    <3>1. \A j \in 0 .. n - 1 : j \in 0 .. N - 1 BY <1>3
    <3> HIDE DEF Q
    <3> QED BY <1>3, <2>1, <2>2, <3>1, UpTo
  <2>4. \A n \in 0 .. N : read[n] \in S BY <2>3
  <2>5. read = [j \in 0 .. N |-> read[j]] BY <1>6, <1>10
  <2> QED BY <2>4, <2>5
<1> QED BY <1>2, <1>11, <1>12 DEF S, N, Do

LEMMA FromTextType ==
  ASSUME NEW text \in CapText, NEW lib_
  PROVE  cap_from_text(text, lib_) \in CapObject \cup {NULL}
<1>1. Len(text) \in Nat BY DEF CapText
<1> QED BY <1>1, FromTextSteps

LEMMA AscendingType ==
  ASSUME NEW n \in Nat, NEW S \in SUBSET (0 .. n - 1)
  PROVE  /\ Cardinality(S) \in Nat /\ Ascending(S) \in [1 .. Cardinality(S) -> S]
         /\ \A j \in 1 .. Cardinality(S) :
               Cardinality({u \in S : u <= Ascending(S)[j]}) = j
<1> DEFINE Below(m) == {u \in S : u < m}
           c(m) == Cardinality(Below(m))
<1>0. \A u \in S : u \in Int /\ 0 <= u /\ u < n OBVIOUS
<1>1. IsFiniteSet(S)
  <2>1. IsFiniteSet(0 .. n - 1) BY FS_Interval
  <2> QED BY <2>1, FS_Subset
<1>2. \A m : IsFiniteSet(Below(m)) /\ c(m) \in Nat
  <2> SUFFICES ASSUME NEW m PROVE IsFiniteSet(Below(m)) /\ c(m) \in Nat OBVIOUS
  <2>1. IsFiniteSet(Below(m)) BY <1>1, FS_Subset
  <2> QED BY <2>1, FS_CardinalityType
<1>3. c(0) = 0
  <2>1. \A u \in S : ~ u < 0 BY <1>0
  <2>2. Below(0) = {} BY <2>1, Zenon
  <2> QED BY <2>2, FS_EmptySet
<1>4. c(n) = Cardinality(S)
  <2>1. Below(n) = S BY <1>0
  <2> QED BY <2>1
<1>5. ASSUME NEW m \in 0 .. n - 1
      PROVE  c(m + 1) = IF m \in S THEN c(m) + 1 ELSE c(m)
  <2>1. CASE m \in S
    <3>0. \A u \in S : u < m + 1 <=> u < m \/ u = m BY <1>0
    <3>1. Below(m + 1) = Below(m) \cup {m} BY <2>1, <3>0, Zenon
    <3>2. m \notin Below(m) OBVIOUS
    <3>3. IsFiniteSet(Below(m)) BY <1>2
    <3> HIDE DEF Below
    <3> QED BY <2>1, <3>1, <3>2, <3>3, FS_AddElement
  <2>2. CASE m \notin S
    <3>0. \A u \in S : u < m + 1 <=> u < m BY <1>0, <2>2
    <3>1. Below(m + 1) = Below(m) BY <3>0, Zenon
    <3> QED BY <2>2, <3>1
  <2> QED BY <2>1, <2>2
<1>6. Cardinality(S) \in Nat BY <1>1, FS_CardinalityType
<1>7. ASSUME NEW j \in 1 .. Cardinality(S)
      PROVE  \E t \in S : Cardinality({u \in S : u <= t}) = j
  <2> DEFINE Q == {m \in 0 .. n : c(m) < j}
  <2>1. PICK m \in 0 .. n - 1 : m \in Q /\ m + 1 \notin Q
    <3> SUFFICES ASSUME \A m \in 0 .. n - 1 : m \in Q => m + 1 \in Q PROVE FALSE
      OBVIOUS
    <3>1. 0 \in Q BY <1>3
    <3> HIDE DEF c
    <3>2. n \in Q
      <4> HIDE DEF Q
      <4> QED BY <3>1, UpTo
    <3> QED BY <1>4, <1>6, <3>2
  <2>2. m \in S /\ c(m + 1) = j
    <3>1. c(m) \in Nat /\ c(m + 1) \in Nat BY <1>2
    <3>2. c(m + 1) = IF m \in S THEN c(m) + 1 ELSE c(m) BY <1>5
    <3> HIDE DEF c
    <3> QED BY <2>1, <3>1, <3>2
  <2>3. \A u \in S : u < m + 1 <=> u <= m BY <1>0
  <2>4. Below(m + 1) = {u \in S : u <= m} BY <2>3, Zenon
  <2> QED BY <2>2, <2>4
<1> QED BY <1>6, <1>7 DEF Ascending

LEMMA NamesType ==
  ASSUME NEW bits \in SUBSET Nat PROVE Names(bits) \subseteq Token
BY DEF Names, cap_to_name, Token

LEMMA CombinationType == \A t : Combination(t) \subseteq Flags
BY Zenon DEF Combination

LEMMA ToTextType ==
  ASSUME NEW caps, NEW lib_, lib_.cmb \in Nat
  PROVE  cap_to_text(caps, lib_) \in CapText
<1> DEFINE named == 0 .. lib_.cmb - 1
           upper == lib_.cmb .. MAXBITS - 1
           m     == Prevailing(caps, named)
           used(t)  == t # m /\ Sharing(caps, t, named) # {}
           above(t) == t # 0 /\ Sharing(caps, t, upper) # {}
           G == {t \in 0 .. 7 : used(t)}
           R == {t \in 0 .. 7 : above(t)}
           groups == Reverse(Ascending(G))
           rest == Reverse(Ascending(R))
           short  == m = 0 /\ groups # <<>>
           plus(j)  == Combination(groups[j]) \ Combination(m)
           minus(j) == Combination(m) \ Combination(groups[j])
           first(j) == IF plus(j) = {} THEN <<>>
                       ELSE <<<<IF short /\ j = 1 THEN "=" ELSE "+", plus(j)>>>>
           second(j) == IF minus(j) = {} THEN <<>> ELSE <<<<"-", minus(j)>>>>
           A == {"=", "+", "-", "=+", "=-"} \X SUBSET Flags
           C == [all : BOOLEAN, before : SUBSET Token, tokens : SUBSET Token, acts : Seq(A)]
           p1 == IF short THEN <<>> ELSE <<Clause(FALSE, {}, <<<<"=", Combination(m)>>>>)>>
           p2 == [j \in DOMAIN groups |->
                    Clause(FALSE, Names(Sharing(caps, groups[j], named)), first(j) \o second(j))]
           p3 == [j \in DOMAIN rest |->
                    Clause(FALSE, Names(Sharing(caps, rest[j], upper)),
                           <<<<"+", Combination(rest[j])>>>>)]
<1>1. cap_to_text(caps, lib_) = p1 \o p2 \o p3 BY DEF cap_to_text
<1>2. \E k \in Nat : DOMAIN groups = 1 .. k
  <2>0. G \in SUBSET (0 .. 8 - 1) OBVIOUS
  <2> HIDE DEF G
  <2>1. Cardinality(G) \in Nat /\ Ascending(G) \in [1 .. Cardinality(G) -> G]
    BY <2>0, AscendingType
  <2>2. Len(Ascending(G)) = Cardinality(G) BY <2>1
  <2> QED BY <2>1, <2>2 DEF Reverse
<1>3. \E k \in Nat : DOMAIN rest = 1 .. k
  <2>0. R \in SUBSET (0 .. 8 - 1) OBVIOUS
  <2> HIDE DEF R
  <2>1. Cardinality(R) \in Nat /\ Ascending(R) \in [1 .. Cardinality(R) -> R]
    BY <2>0, AscendingType
  <2>2. Len(Ascending(R)) = Cardinality(R) BY <2>1
  <2> QED BY <2>1, <2>2 DEF Reverse
<1>4. \A t : /\ Names(Sharing(caps, t, named)) \subseteq Token
             /\ Names(Sharing(caps, t, upper)) \subseteq Token
  <2> SUFFICES ASSUME NEW t PROVE /\ Names(Sharing(caps, t, named)) \subseteq Token
                                  /\ Names(Sharing(caps, t, upper)) \subseteq Token
    OBVIOUS
  <2>1. Sharing(caps, t, named) \in SUBSET Nat BY DEF Sharing
  <2>2. Sharing(caps, t, upper) \in SUBSET Nat BY Widths DEF Sharing
  <2> QED BY <2>1, <2>2, NamesType
<1> HIDE DEF groups, rest, short, named, upper
<1>5. \A j : first(j) \o second(j) \in Seq(A)
  <2> SUFFICES ASSUME NEW j PROVE first(j) \o second(j) \in Seq(A) OBVIOUS
  <2>1. plus(j) \subseteq Flags /\ minus(j) \subseteq Flags BY CombinationType
  <2> HIDE DEF plus, minus
  <2>2. first(j) \in Seq(A)
    <3> DEFINE a == <<IF short /\ j = 1 THEN "=" ELSE "+", plus(j)>>
    <3>1. a \in A BY <2>1
    <3>2. first(j) = IF plus(j) = {} THEN <<>> ELSE <<a>> OBVIOUS
    <3> HIDE DEF A, a, first
    <3> QED BY <3>1, <3>2
  <2>3. second(j) \in Seq(A)
    <3> DEFINE a == <<"-", minus(j)>>
    <3>1. a \in A BY <2>1
    <3>2. second(j) = IF minus(j) = {} THEN <<>> ELSE <<a>> OBVIOUS
    <3> HIDE DEF A, a, second
    <3> QED BY <3>1, <3>2
  <2> HIDE DEF first, second, A
  <2> QED BY <2>2, <2>3
<1>6. p1 \in Seq(C)
  <2>1. <<<<"=", Combination(m)>>>> \in Seq(A)
    <3>1. <<"=", Combination(m)>> \in A BY CombinationType
    <3> HIDE DEF A
    <3> QED BY <3>1
  <2>2. Clause(FALSE, {}, <<<<"=", Combination(m)>>>>) \in C
    <3> HIDE DEF A
    <3> QED BY <2>1 DEF Clause
  <2> DEFINE cl == Clause(FALSE, {}, <<<<"=", Combination(m)>>>>)
  <2>3. p1 = IF short THEN <<>> ELSE <<cl>> OBVIOUS
  <2>4. cl \in C BY <2>2
  <2> HIDE DEF C, cl, p1
  <2> QED BY <2>3, <2>4
<1>7. p2 \in Seq(C)
  <2>1. PICK k \in Nat : DOMAIN groups = 1 .. k BY <1>2
  <2> HIDE DEF first, second, A
  <2>2. \A j \in 1 .. k : Clause(FALSE, Names(Sharing(caps, groups[j], named)),
                                 first(j) \o second(j)) \in C
    BY <1>4, <1>5 DEF Clause
  <2> HIDE DEF C
  <2>3. p2 \in [1 .. k -> C] BY <2>1, <2>2
  <2> HIDE DEF p2
  <2> QED BY <2>3
<1>8. p3 \in Seq(C)
  <2>1. PICK k \in Nat : DOMAIN rest = 1 .. k BY <1>3
  <2>2. \A j : <<<<"+", Combination(rest[j])>>>> \in Seq(A)
    <3> SUFFICES ASSUME NEW j PROVE <<<<"+", Combination(rest[j])>>>> \in Seq(A) OBVIOUS
    <3>1. <<"+", Combination(rest[j])>> \in A BY CombinationType
    <3> HIDE DEF A
    <3> QED BY <3>1
  <2> HIDE DEF A
  <2>3. \A j \in 1 .. k : Clause(FALSE, Names(Sharing(caps, rest[j], upper)),
                                 <<<<"+", Combination(rest[j])>>>>) \in C
    BY <1>4, <2>2 DEF Clause
  <2> HIDE DEF C
  <2>4. p3 \in [1 .. k -> C] BY <2>1, <2>3
  <2> HIDE DEF p3
  <2> QED BY <2>4
<1>9. Seq(C) = CapText BY DEF CapText
<1> HIDE DEF p1, p2, p3, C
<1>10. p1 \o p2 \in Seq(C) BY <1>6, <1>7
<1>11. (p1 \o p2) \o p3 \in Seq(C) BY <1>8, <1>10
<1> QED BY <1>1, <1>9, <1>11

(* The text of an IAB tuple. *)
IabText == Seq((SUBSET {"!", "^", "%"}) \X Token)

LEMMA IabToTextType ==
  ASSUME NEW iab, NEW lib_, lib_.cmb \in Nat
  PROVE  cap_iab_to_text(iab, lib_) \in IabText
<1> DEFINE n == lib_.cmb
           S == (iab.i \cup iab.a \cup iab.nb) \cap 0 .. n - 1
           named == Ascending(S)
           T == (SUBSET {"!", "^", "%"}) \X Token
<1>1. n \in Nat /\ S \in SUBSET (0 .. n - 1) OBVIOUS
<1> HIDE DEF n
<1>2. Cardinality(S) \in Nat /\ named \in [1 .. Cardinality(S) -> S]
  <2> HIDE DEF S
  <2> QED BY <1>1, AscendingType
<1>3. cap_iab_to_text(iab, lib_) =
        [j \in DOMAIN named |-> <<IabPrefixes(iab, named[j]), cap_to_name(named[j])>>]
  BY DEF cap_iab_to_text, n
<1>4. \A x : IabPrefixes(iab, x) \subseteq {"!", "^", "%"} BY Zenon DEF IabPrefixes
<1>5. \A x \in S : cap_to_name(x) \in Token BY DEF cap_to_name, Token
<1>6. \A j \in 1 .. Cardinality(S) : <<IabPrefixes(iab, named[j]), cap_to_name(named[j])>> \in T
  <2> HIDE DEF S, named
  <2> QED BY <1>2, <1>4, <1>5
<1> HIDE DEF T, S, named
<1>7. cap_iab_to_text(iab, lib_) \in [1 .. Cardinality(S) -> T] BY <1>2, <1>3, <1>6
<1>8. cap_iab_to_text(iab, lib_) \in Seq(T) BY <1>2, <1>7
<1> QED BY <1>8 DEF IabText, T

LEMMA LookupType ==
  ASSUME NEW token \in Token, NEW lib_
  PROVE  lookupname(token, lib_) \in Values \cup {-1}
<1>1. token[2] \in Nat BY DEF Token
<1> QED BY <1>1, Widths DEF lookupname, Values

LEMMA IabFromTextType ==
  ASSUME NEW text \in IabText, NEW lib_
  PROVE  cap_iab_from_text(text, lib_) \in IabObject \cup {NULL}
<1> DEFINE item(j) == lookupname(text[j][2], lib_)
           with(p) == {item(j) : j \in {k \in DOMAIN text : p \in text[k][1]}}
           plain   == {item(j) : j \in {k \in DOMAIN text : text[k][1] = {}}}
<1>1. \A j \in DOMAIN text : item(j) \in Values \cup {-1}
  <2> SUFFICES ASSUME NEW j \in DOMAIN text PROVE item(j) \in Values \cup {-1} OBVIOUS
  <2>1. text[j][2] \in Token
    <3> DEFINE T == (SUBSET {"!", "^", "%"}) \X Token
    <3>1. text \in Seq(T) BY DEF IabText
    <3> HIDE DEF T
    <3>2. text[j] \in T BY <3>1
    <3> QED BY <3>2 DEF T
  <2> QED BY <2>1, LookupType
<1> HIDE DEF item
<1>2. CASE \E j \in DOMAIN text : item(j) = -1
  BY <1>2 DEF cap_iab_from_text, item
<1>3. CASE ~ \E j \in DOMAIN text : item(j) = -1
  <2>1. \A j \in DOMAIN text : item(j) \in Values BY <1>1, <1>3
  <2>2. plain \subseteq Values /\ \A p : with(p) \subseteq Values BY <2>1
  <2>3. cap_iab_from_text(text, lib_) =
          [i |-> plain \cup with("%") \cup with("^"), a |-> with("^"), nb |-> with("!")]
    BY <1>3 DEF cap_iab_from_text, item
  <2> HIDE DEF plain, with
  <2> QED BY <2>2, <2>3 DEF IabObject
<1> QED BY <1>2, <1>3

(* A finite set of numbers has a smallest one. *)
LEMMA Smallest ==
  ASSUME NEW S \in SUBSET Values, S # {}
  PROVE  Min(S) \in S /\ \A y \in S : Min(S) <= y
<1> DEFINE Q == {m \in 0 .. MAXBITS : \A y \in S : m <= y}
<1>0. MAXBITS \in Nat BY Widths
<1>1. \E x \in S : \A y \in S : x <= y
  <2> SUFFICES ASSUME \A x \in S : \E y \in S : ~ x <= y PROVE FALSE
    OBVIOUS
  <2>1. 0 \in Q BY <1>0 DEF Values
  <2>2. \A m \in 0 .. MAXBITS - 1 : m \in Q => m + 1 \in Q BY <1>0 DEF Values
  <2>3. MAXBITS \in Q
    <3> HIDE DEF Q
    <3> QED BY <1>0, <2>1, <2>2, UpTo
  <2>4. PICK y : y \in S OBVIOUS
  <2>5. y \in 0 .. MAXBITS - 1 BY <2>4 DEF Values
  <2> QED BY <1>0, <2>3, <2>4, <2>5
<1> QED BY <1>1 DEF Min

-----------------------------------------------------------------------------
(* Division, and the words the kernel's capabilities fill.                 *)

(* Division with remainder, and that both are unique. *)
LEMMA Division ==
  ASSUME NEW a \in Nat, NEW b \in Nat \ {0}
  PROVE  /\ a \div b \in Nat /\ a % b \in 0 .. b - 1
         /\ a = b * (a \div b) + (a % b)
OBVIOUS

LEMMA Remainder ==
  ASSUME NEW a \in Nat, NEW b \in Nat \ {0}, NEW q \in Nat, b * q <= a, a < b * q + b
  PROVE  a \div b = q /\ a % b = a - b * q
<1> DEFINE d == a \div b
<1>1. d \in Nat /\ a % b \in 0 .. b - 1 /\ a = b * d + (a % b) BY Division
<1> HIDE DEF d
<1>2. CASE d < q
  <2>1. b * q = b * d + b * (q - d) BY <1>1
  <2>2. b * (q - d) >= b BY <1>1, <1>2
  <2> QED BY <1>1, <2>1, <2>2
<1>3. CASE d > q
  <2>1. b * d = b * q + b * (d - q) BY <1>1
  <2>2. b * (d - q) >= b BY <1>1, <1>3
  <2> QED BY <1>1, <2>1, <2>2
<1>4. CASE d = q BY <1>1, <1>4 DEF d
<1> QED BY <1>1, <1>2, <1>3, <1>4

(* The words that cap_fill and the clause "all" set: the bits the kernel has. *)
LEMMA Forced ==
  ASSUME NEW cmb \in Nat, NEW blks \in {1, Blks}
  PROVE  forceall(cmb, blks) = WordsUpTo(blks) \cap 0 .. cmb - 1
<1> DEFINE W == WordBits
<1>0. W \in Nat \ {0} /\ WordsUpTo(blks) \subseteq Nat BY Widths, Words DEF Values
<1> SUFFICES ASSUME NEW x \in WordsUpTo(blks)
             PROVE  x \in forceall(cmb, blks) <=> x \in 0 .. cmb - 1
  <2>1. forceall(cmb, blks) \subseteq WordsUpTo(blks) BY DEF forceall, WordsUpTo
  <2> QED BY <2>1
<1> DEFINE q == x \div W
           base == W * q
<1>1. x \in forceall(cmb, blks) <=> \/ cmb >= base + W
                                    \/ cmb > base /\ x - base < cmb % W
  BY DEF forceall, WordsUpTo
<1> HIDE DEF W
<1>2. x \in Nat /\ q \in Nat /\ base \in Nat /\ base <= x /\ x < base + W
  <2>1. x \in Nat BY <1>0
  <2>2. q \in Nat /\ x % W \in 0 .. W - 1 /\ x = W * q + (x % W) BY <1>0, <2>1, Division
  <2> HIDE DEF q
  <2>3. W * q \in Nat BY <1>0, <2>2
  <2> QED BY <1>0, <2>1, <2>2, <2>3
<1> HIDE DEF q
<1>3. CASE cmb > base /\ cmb < base + W
  <2>1. W * q <= cmb /\ cmb < W * q + W BY <1>0, <1>2, <1>3
  <2>2. cmb % W = cmb - base BY <1>0, <1>2, <2>1, Remainder
  <2> HIDE DEF base
  <2> QED BY <1>0, <1>1, <1>2, <1>3, <2>2
<1>4. CASE ~ (cmb > base /\ cmb < base + W)
  <2> HIDE DEF base
  <2> QED BY <1>0, <1>1, <1>2, <1>4
<1> QED BY <1>3, <1>4

-----------------------------------------------------------------------------
(* The members of a set of numbers, in order, and the eight combinations.  *)

(* s has every member of S once, and nothing else. *)
Enumerates(s, S) ==
    /\ \E n \in Nat : s \in [1 .. n -> S]
    /\ \A t \in S : \E j \in DOMAIN s : s[j] = t
    /\ \A i, j \in DOMAIN s : s[i] = s[j] => i = j

LEMMA Enumerated ==
  ASSUME NEW n \in Nat, NEW S \in SUBSET (0 .. n - 1)
  PROVE  Enumerates(Ascending(S), S) /\ Enumerates(Reverse(Ascending(S)), S)
<1> DEFINE c == Cardinality(S)
           s == Ascending(S)
<1>1. /\ c \in Nat /\ s \in [1 .. c -> S]
      /\ \A j \in 1 .. c : Cardinality({u \in S : u <= s[j]}) = j
  BY AscendingType
<1>2. IsFiniteSet(S)
  <2>1. IsFiniteSet(0 .. n - 1) BY FS_Interval
  <2> QED BY <2>1, FS_Subset
<1>3. IsFiniteSet(1 .. c) /\ Cardinality(1 .. c) = c BY <1>1, FS_Interval
<1> HIDE DEF s
<1>4. \A i, j \in 1 .. c : s[i] = s[j] => i = j
  <2> SUFFICES ASSUME NEW i \in 1 .. c, NEW j \in 1 .. c, s[i] = s[j] PROVE i = j
    OBVIOUS
  <2>1. Cardinality({u \in S : u <= s[i]}) = i /\ Cardinality({u \in S : u <= s[j]}) = j
    BY <1>1
  <2> QED BY <2>1
<1>5. s \in Injection(1 .. c, S) BY <1>1, <1>4 DEF Injection, IsInjective
<1>6. s \in Surjection(1 .. c, S) BY <1>2, <1>3, <1>5, FS_Injection
<1>7. \A t \in S : \E j \in 1 .. c : s[j] = t BY <1>6 DEF Surjection
<1> HIDE DEF c
<1>8. Enumerates(s, S)
  <2>1. DOMAIN s = 1 .. c BY <1>1
  <2> QED BY <1>1, <1>4, <1>7, <2>1 DEF Enumerates
<1>9. Enumerates(Reverse(s), S)
  <2> DEFINE r == Reverse(s)
  <2>1. Len(s) = c BY <1>1
  <2>2. r = [i \in 1 .. c |-> s[c - i + 1]] BY <2>1 DEF Reverse
  <2>3. \A i \in 1 .. c : c - i + 1 \in 1 .. c BY <1>1
  <2>4. DOMAIN r = 1 .. c /\ \A i \in 1 .. c : r[i] = s[c - i + 1] BY <2>2
  <2> HIDE DEF r
  <2>5. r \in [1 .. c -> S] BY <1>1, <2>2, <2>3
  <2>6. \A t \in S : \E j \in 1 .. c : r[j] = t
    <3> SUFFICES ASSUME NEW t \in S PROVE \E j \in 1 .. c : r[j] = t OBVIOUS
    <3>1. PICK j \in 1 .. c : s[j] = t BY <1>7
    <3>2. c - j + 1 \in 1 .. c /\ c - (c - j + 1) + 1 = j BY <1>1
    <3> QED BY <2>4, <3>1, <3>2
  <2>7. \A i, j \in 1 .. c : r[i] = r[j] => i = j
    <3> SUFFICES ASSUME NEW i \in 1 .. c, NEW j \in 1 .. c, r[i] = r[j] PROVE i = j
      OBVIOUS
    <3>1. c - i + 1 = c - j + 1 BY <1>4, <2>3, <2>4
    <3> QED BY <1>1, <3>1
  <2>8. Enumerates(r, S) BY <1>1, <2>4, <2>5, <2>6, <2>7 DEF Enumerates
  <2> QED BY <2>8 DEF r
<1> QED BY <1>8, <1>9 DEF s

(* The eight combinations. *)
LEMMA Combinations ==
  /\ \A t, u \in 0 .. 7 : Combination(t) = Combination(u) => t = u
  /\ \A fls \in SUBSET Flags : \E t \in 0 .. 7 : fls = Combination(t)
  /\ Combination(0) = {}
<1> DEFINE Bit(fls, fl, n) == IF fl \in fls THEN n ELSE 0
           Num(fls) == Bit(fls, "E", 1) + Bit(fls, "P", 2) + Bit(fls, "I", 4)
<1>1. \A t \in 0 .. 7 : /\ "E" \in Combination(t) <=> t % 2 = 1
                        /\ "P" \in Combination(t) <=> (t \div 2) % 2 = 1
                        /\ "I" \in Combination(t) <=> t \div 4 = 1
  BY DEF Combination, Flags
<1>2. \A t \in 0 .. 7 : Num(Combination(t)) = t
  <2> SUFFICES ASSUME NEW t \in 0 .. 7 PROVE Num(Combination(t)) = t OBVIOUS
  <2>1. t \in {0, 1, 2, 3, 4, 5, 6, 7} OBVIOUS
  <2>2. /\ t % 2 = IF t \in {1, 3, 5, 7} THEN 1 ELSE 0
        /\ (t \div 2) % 2 = IF t \in {2, 3, 6, 7} THEN 1 ELSE 0
        /\ t \div 4 = IF t \in {4, 5, 6, 7} THEN 1 ELSE 0
    BY <2>1
  <2> QED BY <1>1, <2>1, <2>2
<1>3. \A fls \in SUBSET Flags : Num(fls) \in 0 .. 7 OBVIOUS
<1>4. \A fls \in SUBSET Flags : fls = Combination(Num(fls))
  <2> SUFFICES ASSUME NEW fls \in SUBSET Flags PROVE fls = Combination(Num(fls)) OBVIOUS
  <2> DEFINE t == Num(fls)
  <2>1. t \in 0 .. 7 BY <1>3
  <2>2. /\ "E" \in fls <=> t % 2 = 1
        /\ "P" \in fls <=> (t \div 2) % 2 = 1
        /\ "I" \in fls <=> t \div 4 = 1
    OBVIOUS
  <2> HIDE DEF t
  <2>3. Combination(t) \subseteq Flags BY CombinationType
  <2>4. \A fl \in Flags : fl \in fls <=> fl \in Combination(t) BY <1>1, <2>1, <2>2 DEF Flags
  <2>5. fls = Combination(t) BY <2>3, <2>4
  <2> QED BY <2>5 DEF t
<1>5. Combination(0) = {}
  <2>1. Num({}) = 0 OBVIOUS
  <2> HIDE DEF Num
  <2> QED BY <1>4, <2>1
<1> HIDE DEF Num
<1> QED BY <1>2, <1>3, <1>4, <1>5

(* The first clause's combination is one of the eight. *)
LEMMA PrevailingType ==
  ASSUME NEW caps, NEW named, IsFiniteSet(named)
  PROVE  Prevailing(caps, named) \in 0 .. 7
<1> DEFINE histo(t) == Cardinality(Sharing(caps, t, named))
           Better(t, s) == histo(t) > histo(s) \/ (histo(t) = histo(s) /\ t <= s)
           Q == {n \in 0 .. 7 : \E t \in 0 .. n : \A s \in 0 .. n : Better(t, s)}
<1>1. \A t : histo(t) \in Nat
  <2> SUFFICES ASSUME NEW t PROVE histo(t) \in Nat OBVIOUS
  <2>1. Sharing(caps, t, named) \subseteq named BY DEF Sharing
  <2>2. IsFiniteSet(Sharing(caps, t, named)) BY <2>1, FS_Subset
  <2> QED BY <2>2, FS_CardinalityType
<1>2. Prevailing(caps, named) = CHOOSE t \in 0 .. 7 : \A s \in 0 .. 7 : Better(t, s)
  BY DEF Prevailing
<1> HIDE DEF histo
<1>3. 0 \in Q BY <1>1
<1>4. ASSUME NEW n \in 0 .. 7 - 1, n \in Q PROVE n + 1 \in Q
  <2>1. PICK t \in 0 .. n : \A s \in 0 .. n : Better(t, s) BY <1>4
  <2>2. CASE histo(t) >= histo(n + 1)
    <3>1. \A s \in 0 .. n + 1 : Better(t, s) BY <1>1, <2>1, <2>2
    <3> QED BY <3>1
  <2>3. CASE ~ histo(t) >= histo(n + 1)
    <3>1. \A s \in 0 .. n + 1 : Better(n + 1, s) BY <1>1, <2>1, <2>3
    <3> QED BY <3>1
  <2> QED BY <2>2, <2>3
<1>5. 7 \in Q
  <2> HIDE DEF Q
  <2> DEFINE seven == 7
  <2>1. seven \in Nat /\ \A n \in 0 .. seven - 1 : n \in Q => n + 1 \in Q BY <1>4
  <2> HIDE DEF seven
  <2>2. seven \in Q BY <1>3, <2>1, UpTo
  <2> QED BY <2>2 DEF seven
<1>6. \E t \in 0 .. 7 : \A s \in 0 .. 7 : Better(t, s) BY <1>5
<1> HIDE DEF Better
<1> QED BY <1>2, <1>6

-----------------------------------------------------------------------------
(* What the actions of a clause, and the clauses of a text, do.            *)

(* A text whose clauses are right takes NoFlags from one set of objects to the next. *)
LEMMA FromTextThrough ==
  ASSUME NEW text \in CapText, NEW lib_, NEW I \in [0 .. Len(text) -> SUBSET CapObject],
         NoFlags \in I[0],
         \A j \in 1 .. Len(text) : /\ ClauseOk(text[j], lib_)
                                   /\ \A c \in I[j - 1] : ClauseDo(c, text[j], lib_) \in I[j]
  PROVE  cap_from_text(text, lib_) \in I[Len(text)]
<1> DEFINE N == Len(text)
<1>1. N \in Nat BY DEF CapText
<1>2. PICK read \in [0 .. N -> CapObject \cup {NULL}] :
        /\ read[0] = NoFlags
        /\ \A j \in 1 .. N :
              read[j] = IF read[j - 1] = NULL \/ ~ ClauseOk(text[j], lib_) THEN NULL
                        ELSE ClauseDo(read[j - 1], text[j], lib_)
        /\ cap_from_text(text, lib_) = read[N]
  BY FromTextSteps
<1> DEFINE Q == {j \in 0 .. N : read[j] \in I[j]}
<1>3. 0 \in Q BY <1>1, <1>2
<1>4. ASSUME NEW j \in 0 .. N - 1, j \in Q PROVE j + 1 \in Q
  <2>1. j + 1 \in 1 .. N /\ j + 1 \in 0 .. N /\ (j + 1) - 1 = j /\ j \in 0 .. N BY <1>1
  <2>2. read[j] \in I[j] /\ read[j] # NULL BY <1>4, <2>1, NullAssumption
  <2>3. read[j + 1] = ClauseDo(read[j], text[j + 1], lib_) BY <1>2, <2>1, <2>2
  <2>4. ClauseDo(read[j], text[j + 1], lib_) \in I[j + 1] BY <2>1, <2>2
  <2> QED BY <2>1, <2>3, <2>4
<1> HIDE DEF Q
<1>5. N \in Q BY <1>1, <1>3, <1>4, UpTo
<1> QED BY <1>2, <1>5 DEF Q

(* One more clause. *)
LEMMA FromTextAppend ==
  ASSUME NEW text \in CapText, NEW lib_, NEW cl, <<cl>> \in CapText,
         cap_from_text(text, lib_) # NULL
  PROVE  cap_from_text(text \o <<cl>>, lib_) =
            IF ClauseOk(cl, lib_) THEN ClauseDo(cap_from_text(text, lib_), cl, lib_) ELSE NULL
<1> DEFINE N == Len(text)
           more == text \o <<cl>>
<1>1. /\ N \in Nat /\ more \in CapText /\ Len(more) = N + 1 /\ more[N + 1] = cl
      /\ \A j \in 1 .. N : more[j] = text[j]
  BY DEF CapText
<1>2. PICK read \in [0 .. N -> CapObject \cup {NULL}] :
        /\ read[0] = NoFlags
        /\ \A j \in 1 .. N :
              read[j] = IF read[j - 1] = NULL \/ ~ ClauseOk(text[j], lib_) THEN NULL
                        ELSE ClauseDo(read[j - 1], text[j], lib_)
        /\ cap_from_text(text, lib_) = read[N]
  BY FromTextSteps
<1> HIDE DEF more
<1>3. PICK r2 \in [0 .. N + 1 -> CapObject \cup {NULL}] :
        /\ r2[0] = NoFlags
        /\ \A j \in 1 .. N + 1 :
              r2[j] = IF r2[j - 1] = NULL \/ ~ ClauseOk(more[j], lib_) THEN NULL
                      ELSE ClauseDo(r2[j - 1], more[j], lib_)
        /\ cap_from_text(more, lib_) = r2[N + 1]
  <2>1. PICK r2 \in [0 .. Len(more) -> CapObject \cup {NULL}] :
          /\ r2[0] = NoFlags
          /\ \A j \in 1 .. Len(more) :
                r2[j] = IF r2[j - 1] = NULL \/ ~ ClauseOk(more[j], lib_) THEN NULL
                        ELSE ClauseDo(r2[j - 1], more[j], lib_)
          /\ cap_from_text(more, lib_) = r2[Len(more)]
    BY <1>1, FromTextSteps
  <2> QED BY <1>1, <2>1
<1> DEFINE Q == {j \in 0 .. N : r2[j] = read[j]}
<1>4. 0 \in Q BY <1>1, <1>2, <1>3
<1>5. ASSUME NEW j \in 0 .. N - 1, j \in Q PROVE j + 1 \in Q
  <2>1. /\ j + 1 \in 1 .. N /\ j + 1 \in 0 .. N /\ j + 1 \in 1 .. N + 1 /\ (j + 1) - 1 = j
    BY <1>1
  <2> QED BY <1>1, <1>2, <1>3, <1>5, <2>1
<1> HIDE DEF Q
<1>6. N \in Q BY <1>1, <1>4, <1>5, UpTo
<1>7. r2[N] = cap_from_text(text, lib_) BY <1>2, <1>6 DEF Q
<1>8. N + 1 \in 1 .. N + 1 /\ (N + 1) - 1 = N BY <1>1
<1> QED BY <1>1, <1>3, <1>7, <1>8 DEF more

-----------------------------------------------------------------------------
(* What an action, and a clause, makes of the flags of one capability.     *)

LEMMA SameFlags ==
  ASSUME NEW caps \in CapObject, NEW d \in CapObject,
         \A x \in Values : getstateflags(caps, x) = getstateflags(d, x)
  PROVE  caps = d
<1>1. \A fl \in Flags : caps[fl] \subseteq Values /\ d[fl] \subseteq Values BY DEF CapObject
<1>2. ASSUME NEW fl \in Flags PROVE caps[fl] = d[fl]
  <2>1. \A x \in Values : x \in caps[fl] <=> x \in d[fl]
    <3> SUFFICES ASSUME NEW x \in Values PROVE x \in caps[fl] <=> x \in d[fl] OBVIOUS
    <3>1. getstateflags(caps, x) = getstateflags(d, x) OBVIOUS
    <3>2. /\ fl \in getstateflags(caps, x) <=> x \in caps[fl]
          /\ fl \in getstateflags(d, x) <=> x \in d[fl]
      BY DEF getstateflags
    <3> QED BY <3>1, <3>2
  <2> QED BY <1>1, <2>1
<1> QED BY <1>2 DEF CapObject

Actions == {"=", "+", "-"} \X SUBSET Flags

(* What flags become. *)
After(act, old) == IF act[1] = "=" THEN act[2]
                   ELSE IF act[1] = "+" THEN old \cup act[2] ELSE old \ act[2]

LEMMA ActFlags ==
  ASSUME NEW caps \in CapObject, NEW act \in Actions, NEW bits, NEW x
  PROVE  getstateflags(Act(caps, act, bits), x) =
            IF x \in bits THEN After(act, getstateflags(caps, x)) ELSE getstateflags(caps, x)
<1> DEFINE a == Act(caps, act, bits)
           op == act[1]
           fls == act[2]
<1>0. op \in {"=", "+", "-"} /\ fls \in SUBSET Flags BY DEF Actions
<1>1. ASSUME NEW fl \in Flags
      PROVE  a[fl] = IF op = "=" THEN IF fl \in fls THEN (caps[fl] \ bits) \cup bits
                                      ELSE caps[fl] \ bits
                     ELSE IF fl \notin fls THEN caps[fl]
                     ELSE IF op = "+" THEN caps[fl] \cup bits
                     ELSE caps[fl] \ bits
  BY <1>0 DEF Act
<1> HIDE DEF a, op, fls
<1>2. ASSUME NEW fl \in Flags
      PROVE  fl \in getstateflags(a, x) <=>
                IF x \notin bits THEN fl \in getstateflags(caps, x)
                ELSE IF op = "=" THEN fl \in fls
                ELSE IF op = "+" THEN fl \in getstateflags(caps, x) \/ fl \in fls
                ELSE fl \in getstateflags(caps, x) /\ fl \notin fls
  BY <1>1 DEF getstateflags
<1>3. getstateflags(a, x) \subseteq Flags /\ getstateflags(caps, x) \subseteq Flags
  BY DEF getstateflags
<1> QED BY <1>0, <1>2, <1>3 DEF a, op, fls, After

(* One action, or two. *)
LEMMA One ==
  ASSUME NEW a, NEW s, s = <<a>>
  PROVE  s # <<>> /\ DOMAIN s = {1} /\ s[1] = a /\ Len(s) = 1
OBVIOUS

LEMMA Two ==
  ASSUME NEW a, NEW b, NEW s, s = <<a, b>>
  PROVE  s # <<>> /\ DOMAIN s = {1, 2} /\ s[1] = a /\ s[2] = b /\ Len(s) = 2
OBVIOUS

LEMMA ClauseDoOne ==
  ASSUME NEW caps \in CapObject, NEW cl, NEW act, NEW lib_,
         Len(cl.acts) = 1, cl.acts[1] = act
  PROVE  ClauseDo(caps, cl, lib_) = Act(caps, act, ClauseBits(cl, lib_))
<1>1. PICK done \in [0 .. Len(cl.acts) -> CapObject] :
         /\ done[0] = caps
         /\ \A j \in 1 .. Len(cl.acts) :
               done[j] = Act(done[j - 1], cl.acts[j], ClauseBits(cl, lib_))
         /\ ClauseDo(caps, cl, lib_) = done[Len(cl.acts)]
  <2> DEFINE N == Len(cl.acts)
  <2>1. N \in Nat /\ caps \in CapObject OBVIOUS
  <2> HIDE DEF N
  <2>2. \E done \in [0 .. N -> CapObject] :
           /\ done[0] = caps
           /\ \A j \in 1 .. N : done[j] = Act(done[j - 1], cl.acts[j], ClauseBits(cl, lib_))
           /\ ClauseDo(caps, cl, lib_) = done[N]
    BY ONLY SMTT(60), <2>1, ClauseDoSteps DEF N
  <2> QED BY <2>2 DEF N
<1> QED BY <1>1

LEMMA ClauseDoTwo ==
  ASSUME NEW caps \in CapObject, NEW cl, NEW act, NEW act2, NEW lib_,
         Len(cl.acts) = 2, cl.acts[1] = act, cl.acts[2] = act2
  PROVE  ClauseDo(caps, cl, lib_) =
            Act(Act(caps, act, ClauseBits(cl, lib_)), act2, ClauseBits(cl, lib_))
<1>1. PICK done \in [0 .. Len(cl.acts) -> CapObject] :
         /\ done[0] = caps
         /\ \A j \in 1 .. Len(cl.acts) :
               done[j] = Act(done[j - 1], cl.acts[j], ClauseBits(cl, lib_))
         /\ ClauseDo(caps, cl, lib_) = done[Len(cl.acts)]
  <2> DEFINE N == Len(cl.acts)
  <2>1. N \in Nat /\ caps \in CapObject OBVIOUS
  <2> HIDE DEF N
  <2>2. \E done \in [0 .. N -> CapObject] :
           /\ done[0] = caps
           /\ \A j \in 1 .. N : done[j] = Act(done[j - 1], cl.acts[j], ClauseBits(cl, lib_))
           /\ ClauseDo(caps, cl, lib_) = done[N]
    BY ONLY SMTT(60), <2>1, ClauseDoSteps DEF N
  <2> QED BY <2>2 DEF N
<1>2. done[1] = Act(caps, act, ClauseBits(cl, lib_)) BY <1>1
<1>3. done[2] = Act(done[1], act2, ClauseBits(cl, lib_)) BY <1>1
<1> QED BY <1>1, <1>2, <1>3

-----------------------------------------------------------------------------
(* The two kinds of clauses cap_to_text writes.                            *)

(* How many words a text is about. *)
TextWords(lib_) == IF lib_.version = 1 THEN 1 ELSE Blks

(* The names of these bits are understood. *)
Known(bits, lib_) == \A x \in bits : lookupname(cap_to_name(x), lib_) = x

LEMMA NamedBits ==
  ASSUME NEW bits \in SUBSET Values, NEW lib_, Known(bits, lib_)
  PROVE  /\ {lookupname(tok, lib_) : tok \in Names(bits)} = bits
         /\ \A tok \in Names(bits) : lookupname(tok, lib_) # -1
<1>1. \A x \in bits : x \in Nat BY Widths DEF Values
<1>2. \A x \in Nat : x # -1 OBVIOUS
<1> QED BY <1>1, <1>2 DEF Known, Names

LEMMA Joined ==
  ASSUME NEW a, NEW b
  PROVE  /\ <<a>> \o <<b>> = <<a, b>>
         /\ <<>> \o <<a>> = <<a>> /\ <<a>> \o <<>> = <<a>>
<1> DEFINE T == {a, b}
           s == <<a>>
           r == <<b>>
           u == <<a, b>>
<1>1. s \in Seq(T) /\ r \in Seq(T) /\ u \in Seq(T) OBVIOUS
<1>2. /\ Len(s) = 1 /\ s[1] = a /\ Len(r) = 1 /\ r[1] = b
      /\ Len(u) = 2 /\ u[1] = a /\ u[2] = b
  OBVIOUS
<1> HIDE DEF s, r, u, T
<1>3. s \o r \in Seq(T) /\ Len(s \o r) = 2 /\ (s \o r)[1] = a /\ (s \o r)[2] = b
  <2>1. /\ s \o r \in Seq(T) /\ Len(s \o r) = Len(s) + Len(r)
        /\ \A i \in 1 .. Len(s) + Len(r) :
              (s \o r)[i] = IF i <= Len(s) THEN s[i] ELSE r[i - Len(s)]
    BY <1>1
  <2>2. 1 \in 1 .. Len(s) + Len(r) /\ 2 \in 1 .. Len(s) + Len(r) BY <1>2
  <2> QED BY <1>2, <2>1, <2>2
<1>4. s \o r = u BY <1>1, <1>2, <1>3
<1>5. <<>> \o s = s /\ s \o <<>> = s BY <1>1
<1> QED BY <1>4, <1>5 DEF s, r, u

(* What the first clause and a turning clause do, each in one word. *)
FirstDone(caps, cl, lib_, fls) ==
    /\ ClauseOk(cl, lib_) /\ ClauseDo(caps, cl, lib_) \in CapObject
    /\ \A x : getstateflags(ClauseDo(caps, cl, lib_), x) =
                 IF x \in WordsUpTo(TextWords(lib_)) \cap 0 .. lib_.cmb - 1 THEN fls
                 ELSE getstateflags(caps, x)
TurnDone(caps, cl, lib_, bits, old, new) ==
    /\ ClauseOk(cl, lib_) /\ ClauseDo(caps, cl, lib_) \in CapObject
    /\ \A x : x \notin bits \cap WordsUpTo(TextWords(lib_)) =>
                     getstateflags(ClauseDo(caps, cl, lib_), x) = getstateflags(caps, x)
    /\ \A x \in bits \cap WordsUpTo(TextWords(lib_)) :
          getstateflags(caps, x) = old => getstateflags(ClauseDo(caps, cl, lib_), x) = new

LEMMA FirstClause ==
  ASSUME NEW caps \in CapObject, NEW lib_, lib_.cmb \in Nat, NEW fls \in SUBSET Flags,
         NEW cl, cl = Clause(FALSE, {}, <<<<"=", fls>>>>)
  PROVE  FirstDone(caps, cl, lib_, fls)
<1> DEFINE act == <<"=", fls>>
           bits == ClauseBits(cl, lib_)
<1>1. act \in Actions /\ act[1] = "=" /\ act[2] = fls BY DEF Actions
<1>2. cl = Clause(FALSE, {}, <<act>>) OBVIOUS
<1> HIDE DEF act
<1>3. cl.all = FALSE /\ cl.before \cup cl.tokens = {} /\ cl.acts = <<act>> BY <1>2 DEF Clause
<1>4. cl.acts # <<>> /\ DOMAIN cl.acts = {1} /\ cl.acts[1] = act /\ Len(cl.acts) = 1
  BY <1>3, One
<1>5. ClauseOk(cl, lib_) BY <1>1, <1>3, <1>4 DEF ClauseOk
<1>7. bits = WordsUpTo(TextWords(lib_)) \cap 0 .. lib_.cmb - 1
  <2>1. TextWords(lib_) \in {1, Blks} BY DEF TextWords
  <2>2. bits = forceall(lib_.cmb, TextWords(lib_)) BY <1>3 DEF ClauseBits, Listed, TextWords
  <2> QED BY <2>1, <2>2, Forced
<1>8. ClauseDo(caps, cl, lib_) = Act(caps, act, bits) BY <1>4, ClauseDoOne
<1>6. ClauseDo(caps, cl, lib_) \in CapObject BY <1>8, ActType, ClauseBitsType
<1> HIDE DEF bits
<1>9. \A x : getstateflags(Act(caps, act, bits), x) =
                 IF x \in bits THEN fls ELSE getstateflags(caps, x)
  BY <1>1, ActFlags DEF After
<1> QED BY <1>5, <1>6, <1>7, <1>8, <1>9 DEF FirstDone

(* A clause that turns the flags 'old' of some capabilities into 'new'.    *)
Turn(op, old, new) ==
    (IF new \ old = {} THEN <<>> ELSE <<<<op, new \ old>>>>)
    \o (IF old \ new = {} THEN <<>> ELSE <<<<"-", old \ new>>>>)

(* It has one action or two, which together do that. *)
LEMMA TurnCases ==
  ASSUME NEW op \in {"=", "+"}, NEW old \in SUBSET Flags, NEW new \in SUBSET Flags,
         old # new, op = "=" => old = {}
  PROVE  \/ \E a \in Actions : /\ Turn(op, old, new) = <<a>> /\ After(a, old) = new
                                /\ a[2] # {}
         \/ \E a, b \in Actions : /\ Turn(op, old, new) = <<a, b>>
                                   /\ After(b, After(a, old)) = new
                                   /\ a[2] # {} /\ b[2] # {} /\ b[1] = "-"
<1> DEFINE plus == new \ old
           minus == old \ new
           a == <<op, plus>>
           b == <<"-", minus>>
<1>1. plus # {} \/ minus # {} OBVIOUS
<1>2. Turn(op, old, new) = (IF plus = {} THEN <<>> ELSE <<a>>)
                           \o (IF minus = {} THEN <<>> ELSE <<b>>)
  BY DEF Turn
<1>3. /\ a \in Actions /\ a[1] = op /\ a[2] = plus
      /\ b \in Actions /\ b[1] = "-" /\ b[2] = minus
  BY DEF Actions
<1> HIDE DEF a, b
<1>4. CASE plus # {} /\ minus = {}
  <2>1. Turn(op, old, new) = <<a>> BY <1>2, <1>4, Joined
  <2>2. After(a, old) = new BY <1>3, <1>4 DEF After
  <2> QED BY <1>3, <1>4, <2>1, <2>2
<1>5. CASE plus = {} /\ minus # {}
  <2>1. Turn(op, old, new) = <<b>> BY <1>2, <1>5, Joined
  <2>2. After(b, old) = new BY <1>3, <1>5 DEF After
  <2> QED BY <1>3, <1>5, <2>1, <2>2
<1>6. CASE plus # {} /\ minus # {}
  <2>1. Turn(op, old, new) = <<a, b>> BY <1>2, <1>6, Joined
  <2>2. op = "+" BY <1>6
  <2>3. After(b, After(a, old)) = new BY <1>3, <1>6, <2>2 DEF After
  <2> QED BY <1>3, <1>6, <2>1, <2>3
<1> HIDE DEF plus, minus
<1> QED BY <1>1, <1>4, <1>5, <1>6

LEMMA TurnClause ==
  ASSUME NEW lib_, NEW bits \in SUBSET Values, bits # {}, Known(bits, lib_),
         NEW old \in SUBSET Flags, NEW new \in SUBSET Flags, old # new,
         NEW op \in {"=", "+"}, op = "=" => old = {},
         NEW cl, cl = Clause(FALSE, Names(bits), Turn(op, old, new)),
         NEW caps \in CapObject
  PROVE  TurnDone(caps, cl, lib_, bits, old, new)
<1> DEFINE B == ClauseBits(cl, lib_)
<1>1. /\ cl.all = FALSE /\ cl.before \cup cl.tokens = Names(bits)
      /\ cl.acts = Turn(op, old, new)
  BY DEF Clause
<1>2. Names(bits) # {} BY DEF Names
<1>3. Listed(cl) BY <1>1, <1>2 DEF Listed
<1>4. B = bits \cap WordsUpTo(TextWords(lib_))
  <2>1. {lookupname(tok, lib_) : tok \in Names(bits)} = bits BY NamedBits
  <2> QED BY <1>1, <1>3, <2>1 DEF ClauseBits, TextWords, WordsUpTo
<1>5. \A tok \in cl.before \cup cl.tokens : lookupname(tok, lib_) # -1 BY <1>1, NamedBits
<1>6. B \in SUBSET Values BY ClauseBitsType
<1>7. ASSUME NEW a \in Actions, Turn(op, old, new) = <<a>>, After(a, old) = new, a[2] # {}
      PROVE  /\ ClauseOk(cl, lib_)
             /\ ClauseDo(caps, cl, lib_) = Act(caps, a, B)
  <2>0. cl.acts = <<a>> BY <1>1, <1>7
  <2>1. cl.acts # <<>> /\ DOMAIN cl.acts = {1} /\ cl.acts[1] = a /\ Len(cl.acts) = 1
    BY ONLY <2>0, One
  <2>2. ClauseOk(cl, lib_) BY <1>3, <1>5, <1>7, <2>1 DEF ClauseOk
  <2> QED BY <2>1, <2>2, ClauseDoOne
<1>8. ASSUME NEW a \in Actions, NEW b \in Actions, Turn(op, old, new) = <<a, b>>,
             After(b, After(a, old)) = new, a[2] # {}, b[2] # {}, b[1] = "-"
      PROVE  /\ ClauseOk(cl, lib_)
             /\ ClauseDo(caps, cl, lib_) = Act(Act(caps, a, B), b, B)
  <2>0. cl.acts = <<a, b>> BY <1>1, <1>8
  <2>1. /\ cl.acts # <<>> /\ DOMAIN cl.acts = {1, 2} /\ cl.acts[1] = a /\ cl.acts[2] = b
        /\ Len(cl.acts) = 2
    BY ONLY <2>0, Two
  <2>2. ClauseOk(cl, lib_) BY <1>3, <1>5, <1>8, <2>1 DEF ClauseOk
  <2>3. ClauseDo(caps, cl, lib_) = Act(Act(caps, a, B), b, B)
    <3>1. caps \in CapObject OBVIOUS
    <3> QED BY ONLY <2>1, <3>1, ClauseDoTwo
  <2> QED BY <2>2, <2>3
<1> HIDE DEF B
<1>9. CASE \E a \in Actions : /\ Turn(op, old, new) = <<a>> /\ After(a, old) = new
                              /\ a[2] # {}
  <2>1. PICK a \in Actions : /\ Turn(op, old, new) = <<a>> /\ After(a, old) = new
                             /\ a[2] # {}
    BY <1>9
  <2>2. /\ ClauseOk(cl, lib_)
        /\ ClauseDo(caps, cl, lib_) = Act(caps, a, B)
    BY <1>7, <2>1
  <2>3. /\ Act(caps, a, B) \in CapObject
        /\ \A x : getstateflags(Act(caps, a, B), x) =
                      IF x \in B THEN After(a, getstateflags(caps, x))
                      ELSE getstateflags(caps, x)
    BY <1>6, ActType, ActFlags
  <2> QED BY <1>4, <2>1, <2>2, <2>3 DEF TurnDone
<1>10. CASE \E a, b \in Actions : /\ Turn(op, old, new) = <<a, b>>
                                  /\ After(b, After(a, old)) = new
                                  /\ a[2] # {} /\ b[2] # {} /\ b[1] = "-"
  <2>1. PICK a, b \in Actions : /\ Turn(op, old, new) = <<a, b>>
                                /\ After(b, After(a, old)) = new
                                /\ a[2] # {} /\ b[2] # {} /\ b[1] = "-"
    BY <1>10
  <2>2. /\ ClauseOk(cl, lib_)
        /\ ClauseDo(caps, cl, lib_) = Act(Act(caps, a, B), b, B)
    BY <1>8, <2>1
  <2>3. \A act \in Actions, c \in CapObject :
           /\ Act(c, act, B) \in CapObject
           /\ \A x : getstateflags(Act(c, act, B), x) =
                         IF x \in B THEN After(act, getstateflags(c, x))
                         ELSE getstateflags(c, x)
    BY <1>6, ActType, ActFlags
  <2>4. ASSUME NEW x
        PROVE  /\ ClauseDo(caps, cl, lib_) \in CapObject
               /\ getstateflags(ClauseDo(caps, cl, lib_), x) =
                     IF x \in B THEN After(b, After(a, getstateflags(caps, x)))
                     ELSE getstateflags(caps, x)
    <3> DEFINE mid == Act(caps, a, B)
    <3>1. mid \in CapObject BY <2>3
    <3>2. ClauseDo(caps, cl, lib_) = Act(mid, b, B) BY <2>2
    <3>3. getstateflags(mid, x) = IF x \in B THEN After(a, getstateflags(caps, x))
                                  ELSE getstateflags(caps, x)
      BY <2>3
    <3> HIDE DEF mid
    <3>4. /\ Act(mid, b, B) \in CapObject
          /\ getstateflags(Act(mid, b, B), x) = IF x \in B THEN After(b, getstateflags(mid, x))
                                                ELSE getstateflags(mid, x)
      BY <2>3, <3>1
    <3> QED BY <3>2, <3>3, <3>4
  <2> QED BY <1>4, <2>1, <2>2, <2>4 DEF TurnDone
<1>11. \/ \E a \in Actions : /\ Turn(op, old, new) = <<a>> /\ After(a, old) = new
                              /\ a[2] # {}
       \/ \E a, b \in Actions : /\ Turn(op, old, new) = <<a, b>>
                                 /\ After(b, After(a, old)) = new
                                 /\ a[2] # {} /\ b[2] # {} /\ b[1] = "-"
  BY TurnCases
<1> QED BY <1>9, <1>10, <1>11

-----------------------------------------------------------------------------
(* What cap_to_text writes.                                                *)

(* The flags the first clause leaves a capability with. *)
Base(x, m, lib_) == IF x < lib_.cmb THEN Combination(m) ELSE {}

(* A clause that gives the capabilities in bits, all with the flags of     *)
(* Base, those they have in caps.                                          *)
Turns(cl, bits, caps, m, lib_) ==
    /\ bits # {}
    /\ \E op \in {"=", "+"}, old \in SUBSET Flags, new \in SUBSET Flags :
          /\ old # new /\ (op = "=" => old = {})
          /\ \A x \in bits : old = Base(x, m, lib_) /\ new = getstateflags(caps, x)
          /\ cl = Clause(FALSE, Names(bits), Turn(op, old, new))

(* What cap_to_text writes: n clauses (0 or 1) for all capabilities of the *)
(* kernel, then one for each combination of flags that is in use.          *)
Written(text, caps, lib_, m, n, M) ==
    /\ n <= Len(text)
    /\ n = 0 => m = 0
    /\ n = 1 => text[1] = Clause(FALSE, {}, <<<<"=", Combination(m)>>>>) /\ M[1] = {}
    /\ \A i \in n + 1 .. Len(text) : Turns(text[i], M[i], caps, m, lib_)
    /\ \A i, j \in 1 .. Len(text) : i # j => M[i] \cap M[j] = {}
    /\ \A x \in Values : \/ getstateflags(caps, x) = Base(x, m, lib_)
                         \/ \E i \in 1 .. Len(text) : x \in M[i]

LEMMA ToTextWritten ==
  ASSUME NEW caps, NEW lib_, lib_.cmb \in 1 .. MAXBITS
  PROVE  \E m \in 0 .. 7, n \in {0, 1},
            M \in [1 .. Len(cap_to_text(caps, lib_)) -> SUBSET Values] :
               Written(cap_to_text(caps, lib_), caps, lib_, m, n, M)
<1> DEFINE text == cap_to_text(caps, lib_)
           named == 0 .. lib_.cmb - 1
           upper == lib_.cmb .. MAXBITS - 1
           m     == Prevailing(caps, named)
           G == {t \in 0 .. 7 : t # m /\ Sharing(caps, t, named) # {}}
           R == {t \in 0 .. 7 : t # 0 /\ Sharing(caps, t, upper) # {}}
           groups == Reverse(Ascending(G))
           rest == Reverse(Ascending(R))
           short  == m = 0 /\ groups # <<>>
           op(j) == IF short /\ j = 1 THEN "=" ELSE "+"
           c1 == Clause(FALSE, {}, <<<<"=", Combination(m)>>>>)
           c2(j) == Clause(FALSE, Names(Sharing(caps, groups[j], named)),
                           Turn(op(j), Combination(m), Combination(groups[j])))
           c3(j) == Clause(FALSE, Names(Sharing(caps, rest[j], upper)),
                           <<<<"+", Combination(rest[j])>>>>)
           p1 == IF short THEN <<>> ELSE <<c1>>
           p2 == [j \in DOMAIN groups |-> c2(j)]
           p3 == [j \in DOMAIN rest |-> c3(j)]
<1>0. lib_.cmb \in Nat /\ lib_.cmb <= MAXBITS /\ MAXBITS \in Nat BY Widths
<1>1. text = p1 \o p2 \o p3 BY DEF cap_to_text, Turn
<1>2. m \in 0 .. 7
  <2>1. IsFiniteSet(named) BY <1>0, FS_Interval
  <2> HIDE DEF named
  <2> QED BY <2>1, PrevailingType
<1>3. Enumerates(groups, G) /\ Enumerates(rest, R)
  <2>1. G \in SUBSET (0 .. 8 - 1) /\ R \in SUBSET (0 .. 8 - 1) OBVIOUS
  <2> HIDE DEF G, R
  <2> QED BY <2>1, Enumerated
<1>4. PICK n2 \in Nat : groups \in [1 .. n2 -> G] BY <1>3 DEF Enumerates
<1>5. PICK n3 \in Nat : rest \in [1 .. n3 -> R] BY <1>3 DEF Enumerates
<1> DEFINE n1 == IF short THEN 0 ELSE 1
<1> HIDE DEF groups, rest, m
<1>6. /\ \A t \in G : \E j \in 1 .. n2 : groups[j] = t
      /\ \A i, j \in 1 .. n2 : groups[i] = groups[j] => i = j
      /\ \A t \in R : \E j \in 1 .. n3 : rest[j] = t
      /\ \A i, j \in 1 .. n3 : rest[i] = rest[j] => i = j
  <2> HIDE DEF G, R
  <2> QED BY <1>3, <1>4, <1>5 DEF Enumerates
<1>7. /\ Len(text) = n1 + n2 + n3
      /\ n1 = 1 => text[1] = c1
      /\ \A i \in n1 + 1 .. n1 + n2 : text[i] = c2(i - n1)
      /\ \A i \in n1 + n2 + 1 .. n1 + n2 + n3 : text[i] = c3(i - n1 - n2)
  <2> HIDE DEF c1, c2, c3, G, R, text, short
  <2> DEFINE T == {c1} \cup {c2(j) : j \in 1 .. n2} \cup {c3(j) : j \in 1 .. n3}
  <2>1. p1 \in Seq(T) /\ Len(p1) = n1 /\ (n1 = 1 => p1[1] = c1)
    <3>1. CASE short BY <3>1
    <3>2. CASE ~ short
      <4>1. c1 \in T OBVIOUS
      <4> HIDE DEF T
      <4> QED BY <3>2, <4>1
    <3> QED BY <3>1, <3>2
  <2>2. p2 \in Seq(T) /\ Len(p2) = n2 /\ \A j \in 1 .. n2 : p2[j] = c2(j)
    <3>1. DOMAIN groups = 1 .. n2 BY <1>4
    <3>2. p2 \in [1 .. n2 -> T] /\ \A j \in 1 .. n2 : p2[j] = c2(j) BY <3>1
    <3> HIDE DEF T, p2
    <3> QED BY <3>2
  <2>3. p3 \in Seq(T) /\ Len(p3) = n3 /\ \A j \in 1 .. n3 : p3[j] = c3(j)
    <3>1. DOMAIN rest = 1 .. n3 BY <1>5
    <3>2. p3 \in [1 .. n3 -> T] /\ \A j \in 1 .. n3 : p3[j] = c3(j) BY <3>1
    <3> HIDE DEF T, p3
    <3> QED BY <3>2
  <2> HIDE DEF p1, p2, p3, T
  <2>4. n1 \in Nat OBVIOUS
  <2> HIDE DEF n1
  <2>5. /\ p1 \o p2 \in Seq(T) /\ Len(p1 \o p2) = n1 + n2
        /\ \A i \in 1 .. n1 + n2 : (p1 \o p2)[i] = IF i <= n1 THEN p1[i] ELSE p2[i - n1]
    <3>1. p1 \in Seq(T) /\ p2 \in Seq(T) /\ Len(p1) = n1 /\ Len(p2) = n2 BY <2>1, <2>2
    <3> QED BY ONLY <2>4, <3>1, n2 \in Nat
  <2> DEFINE q == p1 \o p2
  <2> HIDE DEF q
  <2>6. /\ Len(q \o p3) = n1 + n2 + n3
        /\ \A i \in 1 .. n1 + n2 + n3 :
              (q \o p3)[i] = IF i <= n1 + n2 THEN q[i] ELSE p3[i - n1 - n2]
    <3>1. q \in Seq(T) /\ Len(q) = n1 + n2 BY <2>5 DEF q
    <3>2. \A i \in 1 .. (n1 + n2) + n3 : i - (n1 + n2) = i - n1 - n2 BY <2>4
    <3> QED BY <2>3, <2>4, <3>1, <3>2
  <2>7. text = q \o p3 BY <1>1 DEF q
  <2>8. ASSUME n1 = 1 PROVE text[1] = c1
    <3>1. 1 \in 1 .. n1 + n2 /\ 1 \in 1 .. n1 + n2 + n3 /\ 1 <= n1 /\ 1 <= n1 + n2 BY <2>8
    <3>2. text[1] = q[1] BY <2>6, <2>7, <3>1
    <3>3. q[1] = p1[1] BY <2>5, <3>1 DEF q
    <3> QED BY <2>1, <2>8, <3>2, <3>3
  <2>9. ASSUME NEW i \in n1 + 1 .. n1 + n2 PROVE text[i] = c2(i - n1)
    <3>1. /\ i \in 1 .. n1 + n2 /\ i \in 1 .. n1 + n2 + n3 /\ i - n1 \in 1 .. n2
          /\ ~ i <= n1 /\ i <= n1 + n2
      BY <2>4
    <3> QED BY <2>2, <2>5, <2>6, <2>7, <3>1 DEF q
  <2>10. ASSUME NEW i \in n1 + n2 + 1 .. n1 + n2 + n3 PROVE text[i] = c3(i - n1 - n2)
    <3>1. i \in 1 .. n1 + n2 + n3 /\ i - n1 - n2 \in 1 .. n3 /\ ~ i <= n1 + n2
      BY <2>4
    <3> QED BY <2>3, <2>6, <2>7, <3>1
  <2>11. Len(text) = n1 + n2 + n3 BY <2>6, <2>7
  <2> QED BY <2>8, <2>9, <2>10, <2>11
<1> DEFINE N == n1 + n2 + n3
           kind(i) == IF i <= n1 + n2 THEN groups[i - n1] ELSE rest[i - n1 - n2]
           M == [i \in 1 .. N |-> IF i <= n1 THEN {}
                                  ELSE IF i <= n1 + n2 THEN Sharing(caps, kind(i), named)
                                  ELSE Sharing(caps, kind(i), upper)]
<1>8. n1 \in {0, 1} /\ N \in Nat /\ n1 <= N + 1 OBVIOUS
<1>9. \A t, S : \A x \in Sharing(caps, t, S) : x \in S /\ getstateflags(caps, x) = Combination(t)
  BY DEF Sharing
<1>10. \A i \in n1 + 1 .. n1 + n2 : kind(i) \in G /\ kind(i) = groups[i - n1] /\ i - n1 \in 1 .. n2
  <2> HIDE DEF G
  <2> QED BY <1>4, <1>8
<1>11. \A i \in n1 + n2 + 1 .. N : kind(i) \in R /\ kind(i) = rest[i - n1 - n2] /\ i - n1 - n2 \in 1 .. n3
  <2> HIDE DEF R
  <2> QED BY <1>5, <1>8
<1>12. named \subseteq Values /\ upper \subseteq Values /\ named \cup upper = Values
  BY <1>0 DEF Values
<1> HIDE DEF kind, n1
<1>13. /\ \A i \in 1 .. n1 : M[i] = {}
       /\ \A i \in n1 + 1 .. n1 + n2 : M[i] = Sharing(caps, kind(i), named)
       /\ \A i \in n1 + n2 + 1 .. N : M[i] = Sharing(caps, kind(i), upper)
  BY <1>8
<1>14. M \in [1 .. N -> SUBSET Values]
  <2>1. \A t : Sharing(caps, t, named) \in SUBSET Values /\ Sharing(caps, t, upper) \in SUBSET Values
    <3> HIDE DEF named, upper
    <3> QED BY <1>9, <1>12
  <2> HIDE DEF named, upper
  <2> QED BY <2>1
<1> HIDE DEF M
<1>15. ASSUME NEW i \in n1 + 1 .. n1 + n2 PROVE Turns(text[i], M[i], caps, m, lib_)
  <2> DEFINE t == kind(i)
             o == op(i - n1)
  <2>1. t \in 0 .. 7 /\ t # m /\ M[i] # {} /\ M[i] = Sharing(caps, t, named)
    BY <1>10, <1>13
  <2>2. text[i] = Clause(FALSE, Names(M[i]), Turn(o, Combination(m), Combination(t)))
    <3>1. text[i] = c2(i - n1) BY <1>7
    <3> HIDE DEF named, op, text
    <3> QED BY <1>10, <2>1, <3>1
  <2>3. o \in {"=", "+"} /\ (o = "=" => Combination(m) = {}) BY Combinations
  <2>4. Combination(t) # Combination(m) BY <1>2, <2>1, Combinations
  <2>5. \A x \in M[i] : /\ Combination(m) = Base(x, m, lib_)
                        /\ Combination(t) = getstateflags(caps, x)
    <3>1. \A x \in named : x < lib_.cmb BY <1>0
    <3> HIDE DEF named
    <3> QED BY <1>9, <2>1, <3>1 DEF Base
  <2>6. Combination(m) \in SUBSET Flags /\ Combination(t) \in SUBSET Flags BY CombinationType
  <2> HIDE DEF o, t, text
  <2> QED BY <2>1, <2>2, <2>3, <2>4, <2>5, <2>6 DEF Turns
<1>16. ASSUME NEW i \in n1 + n2 + 1 .. N PROVE Turns(text[i], M[i], caps, m, lib_)
  <2> DEFINE t == kind(i)
             o == "+"
             none == {}
             new == Combination(t)
  <2>1. t \in 0 .. 7 /\ t # 0 /\ M[i] # {} /\ M[i] = Sharing(caps, t, upper)
    BY <1>11, <1>13
  <2>2. new # none
    <3>1. Combination(0) = {} /\ 0 \in 0 .. 7 BY Combinations
    <3>2. Combination(t) # Combination(0)
      <4> HIDE DEF t
      <4> QED BY <2>1, <3>1, Combinations
    <3> QED BY <3>1, <3>2
  <2>3. text[i] = Clause(FALSE, Names(M[i]), Turn(o, none, new))
    <3> HIDE DEF t
    <3>1. text[i] = c3(i - n1 - n2) BY <1>7
    <3>2. Turn("+", {}, new) = <<<<"+", new>>>>
      <4> DEFINE a == <<"+", new>>
      <4>1. new \ {} = new /\ {} \ new = {} OBVIOUS
      <4>2. Turn("+", {}, new) = <<a>> \o <<>> BY <2>2, <4>1 DEF Turn
      <4> HIDE DEF a
      <4>3. Turn("+", {}, new) = <<a>> BY <4>2, Joined
      <4> QED BY <4>3 DEF a
    <3> HIDE DEF upper, text
    <3> QED BY <1>11, <2>1, <3>1, <3>2 DEF t
  <2>4. o \in {"=", "+"} /\ (o = "=" => none = {}) OBVIOUS
  <2>5. \A x \in M[i] : none = Base(x, m, lib_) /\ new = getstateflags(caps, x)
    <3>1. \A x \in upper : ~ x < lib_.cmb BY <1>0
    <3> HIDE DEF upper
    <3> QED BY <1>9, <2>1, <3>1 DEF Base
  <2>6. none \in SUBSET Flags /\ new \in SUBSET Flags BY CombinationType
  <2> HIDE DEF o, t, none, new, text
  <2> QED BY <2>1, <2>2, <2>3, <2>4, <2>5, <2>6 DEF Turns
<1>17. ASSUME NEW i \in 1 .. N, NEW j \in 1 .. N, NEW x \in M[i], x \in M[j] PROVE i = j
  <2>1. i \in n1 + 1 .. n1 + n2 \/ i \in n1 + n2 + 1 .. N BY <1>8, <1>13, <1>17
  <2>2. j \in n1 + 1 .. n1 + n2 \/ j \in n1 + n2 + 1 .. N BY <1>8, <1>13, <1>17
  <2>3. named \cap upper = {} BY <1>0
  <2> HIDE DEF named, upper
  <2>4. CASE i \in n1 + 1 .. n1 + n2 /\ j \in n1 + 1 .. n1 + n2
    <3>1. Combination(kind(i)) = Combination(kind(j)) BY <1>9, <1>13, <1>17, <2>4
    <3>2. kind(i) = kind(j) BY <1>10, <2>4, <3>1, Combinations
    <3>3. i - n1 = j - n1 BY <1>6, <1>10, <2>4, <3>2
    <3> QED BY <1>8, <3>3
  <2>5. CASE i \in n1 + n2 + 1 .. N /\ j \in n1 + n2 + 1 .. N
    <3>1. Combination(kind(i)) = Combination(kind(j)) BY <1>9, <1>13, <1>17, <2>5
    <3>2. kind(i) = kind(j) BY <1>11, <2>5, <3>1, Combinations
    <3>3. i - n1 - n2 = j - n1 - n2 BY <1>6, <1>11, <2>5, <3>2
    <3> QED BY <1>8, <3>3
  <2>6. CASE i \in n1 + 1 .. n1 + n2 /\ j \in n1 + n2 + 1 .. N BY <1>9, <1>13, <1>17, <2>3, <2>6
  <2>7. CASE j \in n1 + 1 .. n1 + n2 /\ i \in n1 + n2 + 1 .. N BY <1>9, <1>13, <1>17, <2>3, <2>7
  <2> QED BY <2>1, <2>2, <2>4, <2>5, <2>6, <2>7
<1>18. ASSUME NEW x \in Values, getstateflags(caps, x) # Base(x, m, lib_)
       PROVE  \E i \in 1 .. N : x \in M[i]
  <2>1. getstateflags(caps, x) \in SUBSET Flags BY DEF getstateflags
  <2>2. PICK t \in 0 .. 7 : getstateflags(caps, x) = Combination(t) BY <2>1, Combinations
  <2>3. CASE x < lib_.cmb
    <3>1. x \in named /\ x \in Sharing(caps, t, named) BY <2>2, <2>3 DEF Sharing, Values
    <3>2. t # m BY <1>18, <2>2, <2>3 DEF Base
    <3>3. t \in G BY <3>1, <3>2
    <3>4. PICK j \in 1 .. n2 : groups[j] = t
      <4> HIDE DEF G
      <4> QED BY <1>6, <3>3
    <3>5. j + n1 \in n1 + 1 .. n1 + n2 /\ j + n1 \in 1 .. N /\ (j + n1) - n1 = j BY <1>8
    <3>6. kind(j + n1) = t
      <4> HIDE DEF G, R
      <4> QED BY <1>10, <3>4, <3>5
    <3> QED BY <1>13, <3>1, <3>5, <3>6
  <2>4. CASE ~ x < lib_.cmb
    <3>1. x \in upper /\ x \in Sharing(caps, t, upper)
      BY <1>0, <2>2, <2>4 DEF Sharing, Values
    <3>2. t # 0 BY <1>18, <2>2, <2>4, Combinations DEF Base
    <3>3. t \in R BY <3>1, <3>2
    <3>4. PICK j \in 1 .. n3 : rest[j] = t
      <4> HIDE DEF R
      <4> QED BY <1>6, <3>3
    <3>5. /\ j + n1 + n2 \in n1 + n2 + 1 .. N /\ j + n1 + n2 \in 1 .. N
          /\ (j + n1 + n2) - n1 - n2 = j
      BY <1>8
    <3>6. kind(j + n1 + n2) = t
      <4> HIDE DEF G, R
      <4> QED BY <1>11, <3>4, <3>5
    <3> QED BY <1>13, <3>1, <3>5, <3>6
  <2> QED BY <2>3, <2>4
<1>19. n1 <= N /\ (n1 = 0 => m = 0) BY DEF n1
<1>20. ASSUME NEW i \in n1 + 1 .. N PROVE Turns(text[i], M[i], caps, m, lib_)
  <2>1. i \in n1 + 1 .. n1 + n2 \/ i \in n1 + n2 + 1 .. N BY <1>8
  <2> QED BY <1>15, <1>16, <2>1
<1>21. n1 = 1 => text[1] = c1 /\ M[1] = {}
  <2> HIDE DEF c1, text
  <2>1. n1 = 1 => 1 \in 1 .. n1 OBVIOUS
  <2> QED BY <1>7, <1>13, <2>1
<1>22. Len(text) = N BY <1>7
<1> HIDE DEF text, N, named, upper
<1>23. Written(text, caps, lib_, m, n1, M)
  BY <1>17, <1>18, <1>19, <1>20, <1>21, <1>22 DEF Written
<1>24. M \in [1 .. Len(text) -> SUBSET Values] BY <1>14, <1>22
<1> QED BY <1>2, <1>8, <1>23, <1>24 DEF text

-----------------------------------------------------------------------------
(* A text gives back the object it was written from.                       *)

(* Which names are understood: those of the kernel's capabilities, and     *)
(* those of the others that can be spoken of.                              *)
LEMMA KnownNames ==
  ASSUME NEW lib_, lib_.cmb \in Nat, NEW x \in Values,
         x < lib_.cmb \/ lib_.gperf \/ x >= CAP_BITS
  PROVE  lookupname(cap_to_name(x), lib_) = x
<1>1. x \in Nat /\ x < MAXBITS /\ CAP_BITS \in Nat BY Widths DEF Values
<1>2. CASE x < CAP_BITS
  <2>1. cap_to_name(x) = <<"name", x>> BY <1>2 DEF cap_to_name
  <2>2. cap_to_name(x)[1] = "name" /\ cap_to_name(x)[2] = x BY <2>1
  <2>3. lib_.gperf \/ x < lib_.cmb BY <1>1, <1>2
  <2> QED BY <1>2, <2>2, <2>3 DEF lookupname
<1>3. CASE ~ x < CAP_BITS
  <2>1. cap_to_name(x) = <<"number", x>> BY <1>3 DEF cap_to_name
  <2>2. cap_to_name(x)[1] = "number" /\ cap_to_name(x)[2] = x BY <2>1
  <2> QED BY <1>1, <2>2 DEF lookupname
<1> QED BY <1>2, <1>3

(* The text of an object is read back as the same object. *)
LEMMA TextRoundTrip ==
  ASSUME NEW caps \in CapObject, NEW lib_, lib_.cmb \in 1 .. MAXBITS,
         Speakable(BitsOf(caps), lib_)
  PROVE  cap_from_text(cap_to_text(caps, lib_), lib_) = caps
<1> DEFINE text == cap_to_text(caps, lib_)
           N == Len(text)
           W == WordsUpTo(TextWords(lib_))
<1>0. lib_.cmb \in Nat /\ MAXBITS \in Nat BY Widths
<1>1. text \in CapText BY <1>0, ToTextType
<1>2. N \in Nat BY <1>1 DEF CapText
<1>3. PICK m \in 0 .. 7, n \in {0, 1}, M \in [1 .. N -> SUBSET Values] :
         Written(text, caps, lib_, m, n, M)
  BY ToTextWritten
<1> HIDE DEF text, N
<1>4. W \subseteq Values
  <2>1. TextWords(lib_) \in {1, Blks} BY DEF TextWords
  <2> QED BY <2>1, Words
<1>5. \A x \in Values : x \notin W => getstateflags(caps, x) = {}
  <2>1. CASE lib_.version = 1
    <3>1. BitsOf(caps) \subseteq 0 .. WordBits - 1 BY <2>1 DEF Speakable
    <3>2. W = 0 .. WordBits - 1 BY <2>1, Widths DEF WordsUpTo, TextWords
    <3>3. \A fl \in Flags : caps[fl] \subseteq W
      <4>1. \A fl \in Flags : caps[fl] \subseteq BitsOf(caps) BY Zenon DEF BitsOf
      <4> QED BY <3>1, <3>2, <4>1
    <3> QED BY <3>3 DEF getstateflags
  <2>2. CASE lib_.version # 1
    <3>1. W = Values BY <2>2 DEF WordsUpTo, TextWords, Values, MAXBITS
    <3> QED BY <3>1
  <2> QED BY <2>1, <2>2
<1>6. \A x \in Values : \/ x < lib_.cmb \/ lib_.gperf \/ x >= CAP_BITS
                        \/ getstateflags(caps, x) = {}
  <2> SUFFICES ASSUME NEW x \in Values, ~ x < lib_.cmb, ~ lib_.gperf,
                      getstateflags(caps, x) # {}
               PROVE  x >= CAP_BITS
    OBVIOUS
  <2>1. PICK fl \in Flags : x \in caps[fl] BY DEF getstateflags
  <2>2. x \in BitsOf(caps) BY <2>1 DEF BitsOf
  <2>3. x >= lib_.cmb BY <1>0 DEF Values
  <2> QED BY <2>2, <2>3 DEF Speakable
<1> HIDE DEF W
<1> DEFINE B(x) == IF x \in W THEN Base(x, m, lib_) ELSE {}
           Want(j, x) == IF x \in W /\ \E i \in 1 .. j : x \in M[i]
                         THEN getstateflags(caps, x) ELSE B(x)
           Reached(j) == {c \in CapObject : \A x \in Values : getstateflags(c, x) = Want(j, x)}
           I == [j \in 0 .. N |-> IF j < n THEN {NoFlags} ELSE Reached(j)]
<1>7. NoFlags \in CapObject /\ \A x : getstateflags(NoFlags, x) = {}
  BY DEF NoFlags, CapObject, getstateflags
<1>8. I \in [0 .. N -> SUBSET CapObject] BY <1>7
<1>9. NoFlags \in I[0]
  <2>1. CASE n = 1 BY <1>2, <2>1
  <2>2. CASE n = 0
    <3>1. m = 0 BY <1>3, <2>2 DEF Written
    <3>2. \A x : B(x) = {} BY <3>1, Combinations DEF Base
    <3>3. \A x : Want(0, x) = {} BY <3>2
    <3>4. NoFlags \in Reached(0) BY <1>7, <3>3
    <3> QED BY <1>2, <2>2, <3>4
  <2> QED BY <2>1, <2>2
<1>10. ASSUME NEW c \in I[0], n = 1
       PROVE  ClauseOk(text[1], lib_) /\ ClauseDo(c, text[1], lib_) \in I[1]
  <2>1. c = NoFlags /\ n <= N BY <1>2, <1>3, <1>10 DEF Written, N
  <2>2. text[1] = Clause(FALSE, {}, <<<<"=", Combination(m)>>>>) /\ M[1] = {}
    BY <1>3, <1>10 DEF Written
  <2> DEFINE d == ClauseDo(c, text[1], lib_)
  <2>3. /\ ClauseOk(text[1], lib_) /\ d \in CapObject
        /\ \A x : getstateflags(d, x) = IF x \in W \cap 0 .. lib_.cmb - 1 THEN Combination(m)
                                        ELSE getstateflags(c, x)
    <3> DEFINE fls == Combination(m)
               cl == text[1]
    <3>1. fls \in SUBSET Flags BY CombinationType
    <3>2. c \in CapObject BY <1>7, <2>1
    <3>3. cl = Clause(FALSE, {}, <<<<"=", fls>>>>) BY <2>2
    <3> HIDE DEF fls, cl, d, I, Reached, Want, B
    <3>4. FirstDone(c, cl, lib_, fls)
      BY ONLY <1>0, <3>1, <3>2, <3>3, FirstClause
    <3> QED BY <3>4 DEF FirstDone, W, cl, fls, d
  <2> HIDE DEF d
  <2>4. ASSUME NEW x \in Values PROVE getstateflags(d, x) = Want(1, x)
    <3>1. x \in 0 .. lib_.cmb - 1 <=> x < lib_.cmb BY <1>0 DEF Values
    <3>2. Want(1, x) = B(x) BY <2>2
    <3> QED BY <1>7, <2>1, <2>3, <3>1, <3>2 DEF Base
  <2>5. d \in I[1] BY <1>2, <1>10, <2>1, <2>3, <2>4
  <2> QED BY <2>3, <2>5 DEF d
<1>11. ASSUME NEW j \in n + 1 .. N, NEW c \in I[j - 1]
       PROVE  ClauseOk(text[j], lib_) /\ ClauseDo(c, text[j], lib_) \in I[j]
  <2>1. /\ j \in 1 .. N /\ j \in 0 .. N /\ ~ j < n /\ j - 1 \in 0 .. N /\ ~ j - 1 < n
        /\ j \in n + 1 .. N
    BY <1>2
  <2>2. Turns(text[j], M[j], caps, m, lib_) BY <1>3, <2>1 DEF Written, N
  <2>3. PICK op \in {"=", "+"}, old \in SUBSET Flags, new \in SUBSET Flags :
          /\ old # new /\ (op = "=" => old = {})
          /\ \A x \in M[j] : old = Base(x, m, lib_) /\ new = getstateflags(caps, x)
          /\ text[j] = Clause(FALSE, Names(M[j]), Turn(op, old, new))
    BY <2>2 DEF Turns
  <2>4. M[j] # {} /\ M[j] \in SUBSET Values BY <2>1, <2>2 DEF Turns
  <2>5. Known(M[j], lib_)
    <3> SUFFICES ASSUME NEW x \in M[j] PROVE lookupname(cap_to_name(x), lib_) = x
      BY DEF Known
    <3>1. x \in Values BY <2>4
    <3>2. x < lib_.cmb \/ lib_.gperf \/ x >= CAP_BITS
      <4> SUFFICES ASSUME ~ x < lib_.cmb PROVE lib_.gperf \/ x >= CAP_BITS OBVIOUS
      <4>1. old = {} /\ new = getstateflags(caps, x) BY <2>3 DEF Base
      <4> QED BY <1>6, <2>3, <3>1, <4>1
    <3> QED BY <1>0, <3>1, <3>2, KnownNames
  <2> DEFINE d == ClauseDo(c, text[j], lib_)
  <2>6. c \in CapObject /\ \A x \in Values : getstateflags(c, x) = Want(j - 1, x)
    BY <2>1, <1>11
  <2>7. /\ ClauseOk(text[j], lib_) /\ d \in CapObject
        /\ \A x : x \notin M[j] \cap W => getstateflags(d, x) = getstateflags(c, x)
        /\ \A x \in M[j] \cap W : getstateflags(c, x) = old => getstateflags(d, x) = new
    <3> DEFINE bits == M[j]
               cl == text[j]
    <3>1. /\ bits # {} /\ bits \in SUBSET Values /\ Known(bits, lib_) /\ c \in CapObject
          /\ cl = Clause(FALSE, Names(bits), Turn(op, old, new))
          /\ old \in SUBSET Flags /\ new \in SUBSET Flags /\ op \in {"=", "+"}
          /\ old # new /\ (op = "=" => old = {})
      BY <2>3, <2>4, <2>5, <2>6
    <3> HIDE DEF cl, bits, d, I, Reached, Want, B
    <3>2. TurnDone(c, cl, lib_, bits, old, new)
      BY ONLY <3>1, TurnClause
    <3> QED BY <3>2 DEF TurnDone, W, cl, bits, d
  <2> HIDE DEF d
  <2>8. ASSUME NEW x \in Values PROVE getstateflags(d, x) = Want(j, x)
    <3>1. \A i : i \in 1 .. j <=> i \in 1 .. j - 1 \/ i = j BY <2>1, <1>2
    <3>2. CASE x \notin M[j] \cap W
      <4>1. Want(j, x) = Want(j - 1, x) BY <3>1, <3>2
      <4> QED BY <2>6, <2>7, <3>2, <4>1
    <3>3. CASE x \in M[j] \cap W
      <4>1. ASSUME NEW i \in 1 .. j - 1 PROVE x \notin M[i]
        <5>1. i \in 1 .. N /\ i # j BY <1>2, <2>1
        <5> QED BY <1>3, <2>1, <3>3, <5>1 DEF Written, N
      <4>2. Want(j - 1, x) = Base(x, m, lib_) BY <3>3, <4>1
      <4>3. Want(j, x) = getstateflags(caps, x) BY <3>1, <3>3
      <4> QED BY <2>3, <2>6, <2>7, <3>3, <4>2, <4>3
    <3> QED BY <3>2, <3>3
  <2>9. d \in I[j] BY <2>1, <2>7, <2>8
  <2> QED BY <2>7, <2>9 DEF d
<1>12. ASSUME NEW j \in 1 .. N
       PROVE  /\ ClauseOk(text[j], lib_)
              /\ \A c \in I[j - 1] : ClauseDo(c, text[j], lib_) \in I[j]
  <2>1. I[j - 1] # {} => /\ ClauseOk(text[j], lib_)
                         /\ \A c \in I[j - 1] : ClauseDo(c, text[j], lib_) \in I[j]
    <3>1. CASE j = 1 /\ n = 1
      <4> HIDE DEF I
      <4> QED BY <1>10, <3>1
    <3>2. CASE ~ (j = 1 /\ n = 1)
      <4>1. j \in n + 1 .. N BY <1>2, <3>2
      <4> HIDE DEF I
      <4> QED BY <1>11, <4>1
    <3> QED BY <3>1, <3>2
  <2>2. I[j - 1] # {}
    <3>0. j - 1 \in 0 .. N BY <1>2
    <3>1. CASE j - 1 < n
      <4>1. I[j - 1] = {NoFlags} BY <3>0, <3>1
      <4> HIDE DEF I
      <4> QED BY <4>1
    <3>2. CASE ~ j - 1 < n
      <4> DEFINE c == [fl \in Flags |-> {x \in Values : fl \in Want(j - 1, x)}]
      <4>1. c \in CapObject BY DEF CapObject
      <4>2. ASSUME NEW x \in Values PROVE getstateflags(c, x) = Want(j - 1, x)
        <5>1. Want(j - 1, x) \subseteq Flags BY CombinationType DEF Base, getstateflags
        <5> HIDE DEF Want
        <5> QED BY <5>1 DEF getstateflags
      <4> HIDE DEF c
      <4>3. c \in Reached(j - 1) BY <4>1, <4>2
      <4>4. I[j - 1] = Reached(j - 1) BY <3>0, <3>2
      <4> HIDE DEF I, Reached
      <4> QED BY <4>3, <4>4
    <3> QED BY <3>1, <3>2
  <2> HIDE DEF I
  <2> QED BY <2>1, <2>2
<1>13. cap_from_text(text, lib_) \in I[N]
  <2> HIDE DEF I
  <2> QED BY <1>1, <1>8, <1>9, <1>12, FromTextThrough DEF N
<1>14. n <= N BY <1>3 DEF Written, N
<1> DEFINE r == cap_from_text(text, lib_)
<1>15. r \in Reached(N) BY <1>2, <1>13, <1>14
<1> HIDE DEF r
<1>16. ASSUME NEW x \in Values PROVE getstateflags(r, x) = getstateflags(caps, x)
  <2>1. getstateflags(r, x) = Want(N, x) BY <1>15
  <2>2. \/ getstateflags(caps, x) = Base(x, m, lib_)
        \/ \E i \in 1 .. N : x \in M[i]
    BY <1>3 DEF Written, N
  <2> QED BY <1>5, <2>1, <2>2
<1>17. r \in CapObject BY <1>15
<1>18. r = caps BY <1>16, <1>17, SameFlags
<1> QED BY <1>18 DEF r, text

-----------------------------------------------------------------------------
(* So does the external form; and the text of a tuple, as far as the kernel goes.*)

(* A set of numbers up to a bound that is not empty has a greatest member. *)
IsGreatest(m, S) == m \in S /\ \A y \in S : m >= y

LEMMA Greatest ==
  ASSUME NEW n \in Nat, NEW S \in SUBSET (0 .. n), S # {}
  PROVE  IsGreatest(Max(S), S)
<1> DEFINE Q == {k \in 0 .. n : S \cap 0 .. k = {} \/ \E x \in S : \A y \in S \cap 0 .. k : x >= y}
<1>1. 0 \in Q
  <2>1. \A x \in S : x \in Nat OBVIOUS
  <2>2. \A y \in S \cap 0 .. 0 : y = 0 OBVIOUS
  <2>3. \A x \in S : \A y \in S \cap 0 .. 0 : x >= y BY <2>1, <2>2
  <2> QED BY <2>3
<1>2. ASSUME NEW k \in 0 .. n - 1, k \in Q PROVE k + 1 \in Q
  <2>1. \A y \in 0 .. k + 1 : y \in 0 .. k \/ y = k + 1 OBVIOUS
  <2>2. CASE k + 1 \in S
    <3>1. \A y \in S \cap 0 .. k + 1 : k + 1 >= y OBVIOUS
    <3> QED BY <2>2, <3>1
  <2>3. CASE k + 1 \notin S
    <3>1. S \cap 0 .. k + 1 = S \cap 0 .. k BY <2>1, <2>3
    <3> QED BY <1>2, <3>1
  <2> QED BY <2>2, <2>3
<1>3. n \in Q
  <2> HIDE DEF Q
  <2> QED BY <1>1, <1>2, UpTo
<1>4. \E x \in S : \A y \in S : x >= y BY <1>3
<1> QED BY <1>4 DEF Max, IsGreatest

(* The bytes of the external form hold every bit of the object. *)
LEMMA ExtSize ==
  ASSUME NEW caps \in CapObject
  PROVE  \E len \in Nat : /\ cap_size(caps) = HeaderSize + 3 * len
                          /\ \A fl \in Flags : \A x \in caps[fl] : ByteOf(x) < len
<1> DEFINE S == {0} \cup {ByteOf(x) + 1 : x \in UNION {caps[fl] : fl \in Flags}}
           used == Max(S)
           len == IF used < MinExtFlagSize THEN MinExtFlagSize ELSE used
<1>0. ByteBits \in Nat \ {0} /\ MAXBITS \in Nat BY FormsAssumption, Widths
<1>1. \A fl \in Flags : caps[fl] \subseteq Values BY DEF CapObject
<1>2. ASSUME NEW x \in Values PROVE ByteOf(x) + 1 \in 0 .. MAXBITS
  <2>1. x \in Nat /\ x < MAXBITS BY <1>0 DEF Values
  <2> DEFINE d == ByteOf(x)
  <2>2. d \in Nat /\ x % ByteBits \in 0 .. ByteBits - 1 /\ x = ByteBits * d + (x % ByteBits)
    BY <1>0, <2>1, Division DEF ByteOf
  <2> HIDE DEF d
  <2>3. ByteBits * d >= d BY <1>0, <2>2
  <2>4. d <= x BY <1>0, <2>1, <2>2, <2>3
  <2>5. d + 1 \in 0 .. MAXBITS BY <1>0, <2>1, <2>2, <2>4
  <2> QED BY <2>5 DEF d
<1>3. S \in SUBSET (0 .. MAXBITS) /\ S # {} BY <1>0, <1>1, <1>2
<1>4. \A fl \in Flags : \A x \in caps[fl] : ByteOf(x) + 1 \in S BY Zenon
<1>5. cap_size(caps) = HeaderSize + 3 * len BY DEF cap_size
<1> HIDE DEF S
<1>6. used \in S /\ \A y \in S : used >= y
  <2> DEFINE n == MAXBITS
  <2>1. n \in Nat /\ S \in SUBSET (0 .. n) /\ S # {} BY <1>0, <1>3
  <2> HIDE DEF n
  <2>2. IsGreatest(Max(S), S) BY ONLY <2>1, Greatest
  <2> QED BY <2>2 DEF IsGreatest
<1>7. used \in Nat
  <2>1. used \in 0 .. MAXBITS BY <1>3, <1>6
  <2> HIDE DEF used
  <2> QED BY <1>0, <2>1
<1>8. MinExtFlagSize \in Nat BY FormsAssumption, Widths DEF MinExtFlagSize, CAP_SET_SIZE
<1> HIDE DEF used
<1>9. len \in Nat /\ len >= used BY <1>7, <1>8
<1> HIDE DEF len
<1>10. ASSUME NEW fl \in Flags, NEW x \in caps[fl] PROVE ByteOf(x) < len
  <2>1. ByteOf(x) + 1 \in S /\ x \in Values BY <1>1, <1>4
  <2>2. ByteOf(x) + 1 <= used BY <1>6, <2>1
  <2>3. ByteOf(x) \in Int BY <1>0, <2>1, Widths DEF Values, ByteOf
  <2> QED BY <1>7, <1>9, <2>2, <2>3
<1> QED BY <1>5, <1>9, <1>10

(* The external form of an object is read back as the same object, and is  *)
(* not written to a buffer that is too small.                              *)
LEMMA ExtRoundTrip ==
  ASSUME NEW caps \in CapObject, NEW length \in Int
  PROVE  /\ length < cap_size(caps) => cap_copy_ext(caps, length) = NULL
         /\ length >= cap_size(caps) =>
               cap_copy_int_check(cap_copy_ext(caps, length), length) = caps
<1>1. PICK len \in Nat : /\ cap_size(caps) = HeaderSize + 3 * len
                         /\ \A fl \in Flags : \A x \in caps[fl] : ByteOf(x) < len
  BY ExtSize
<1>2. (cap_size(caps) - HeaderSize) \div 3 = len BY <1>1 DEF HeaderSize
<1> DEFINE ext == [len |-> len,
                   bytes |-> [j \in 0 .. len - 1 |->
                                [fl \in Flags |-> {x - j * ByteBits :
                                               x \in {y \in caps[fl] : ByteOf(y) = j}}]]]
<1>3. cap_copy_ext(caps, length) = IF cap_size(caps) > length THEN NULL ELSE ext
  BY <1>2 DEF cap_copy_ext
<1>4. cap_size(caps) \in Int BY <1>1 DEF HeaderSize
<1>5. cap_copy_int(ext) = caps
  <2>0. ByteBits \in Nat \ {0} BY FormsAssumption
  <2>1. /\ ext.len = len
        /\ \A j \in 0 .. len - 1, fl \in Flags :
              ext.bytes[j][fl] = {x - j * ByteBits : x \in {y \in caps[fl] : ByteOf(y) = j}}
    OBVIOUS
  <2> HIDE DEF ext
  <2>2. ASSUME NEW fl \in Flags, NEW x \in Values
        PROVE  (ByteOf(x) < len /\ x % ByteBits \in ext.bytes[ByteOf(x)][fl]) <=> x \in caps[fl]
    <3> DEFINE j == ByteOf(x)
    <3>1. \A y \in Values : /\ y \in Nat /\ ByteOf(y) \in Nat
                            /\ (y % ByteBits) = y - ByteOf(y) * ByteBits
      <4> SUFFICES ASSUME NEW y \in Values
                   PROVE  /\ y \in Nat /\ ByteOf(y) \in Nat
                          /\ (y % ByteBits) = y - ByteOf(y) * ByteBits
        OBVIOUS
      <4>1. y \in Nat BY Widths DEF Values
      <4>2. /\ ByteOf(y) \in Nat /\ y % ByteBits \in 0 .. ByteBits - 1
            /\ y = ByteBits * ByteOf(y) + (y % ByteBits)
        BY <2>0, <4>1, Division DEF ByteOf
      <4> QED BY <2>0, <4>1, <4>2
    <3>2. caps[fl] \subseteq Values BY DEF CapObject
    <3>3. x \in Nat /\ j \in Nat /\ (x % ByteBits) = x - j * ByteBits BY <3>1
    <3>4. CASE x \in caps[fl]
      <4>1. j < len BY <1>1, <3>4
      <4>2. j \in 0 .. len - 1 BY <3>3, <4>1
      <4>3. x \in {y \in caps[fl] : ByteOf(y) = j} BY <3>4
      <4> HIDE DEF j
      <4>4. x % ByteBits \in ext.bytes[j][fl] BY <2>1, <3>3, <4>2, <4>3
      <4> QED BY <3>4, <4>1, <4>4 DEF j
    <3>5. ASSUME j < len, x % ByteBits \in ext.bytes[j][fl] PROVE x \in caps[fl]
      <4>1. j \in 0 .. len - 1 BY <3>3, <3>5
      <4> HIDE DEF j
      <4> DEFINE r == x % ByteBits
      <4>5. r \in ext.bytes[j][fl] BY <3>5
      <4> HIDE DEF r
      <4>6. ext.bytes[j][fl] = {y - j * ByteBits : y \in {z \in caps[fl] : ByteOf(z) = j}}
        BY <2>1, <4>1
      <4>7. PICK y \in {z \in caps[fl] : ByteOf(z) = j} : r = y - j * ByteBits
        BY <4>5, <4>6
      <4>2. y \in caps[fl] /\ x % ByteBits = y - j * ByteBits BY <4>7 DEF r
      <4>3. y \in Nat /\ j * ByteBits \in Int
        <5>1. y \in Nat BY <3>1, <3>2, <4>2
        <5>2. j * ByteBits \in Int BY <2>0, <3>3
        <5> QED BY <5>1, <5>2
      <4>4. x = y BY <3>3, <4>2, <4>3
      <4> QED BY <4>2, <4>4
    <3> QED BY <3>4, <3>5
  <2>3. ASSUME NEW fl \in Flags
        PROVE  {x \in Values : /\ ByteOf(x) < ext.len
                               /\ x % ByteBits \in ext.bytes[ByteOf(x)][fl]} = caps[fl]
    <3>1. caps[fl] \subseteq Values BY DEF CapObject
    <3> QED BY <2>1, <2>2, <3>1
  <2>4. caps = [fl \in Flags |-> caps[fl]] BY DEF CapObject
  <2> QED BY <2>3, <2>4 DEF cap_copy_int
<1>6. ext.len = len OBVIOUS
<1> HIDE DEF ext
<1>7. length >= cap_size(caps) => cap_copy_int_check(ext, length) = caps
  BY <1>1, <1>5, <1>6 DEF cap_copy_int_check, HeaderSize
<1> QED BY <1>3, <1>4, <1>7

(* The part of a tuple that the kernel has capabilities for. *)
Cut(iab, within) ==
    [i |-> iab.i \cap within, a |-> iab.a \cap within, nb |-> iab.nb \cap within]

(* The text of a tuple with A within I is read back as its part that the   *)
(* kernel has.                                                             *)
LEMMA IabRoundTrip ==
  ASSUME NEW iab \in IabObject, iab.a \subseteq iab.i, NEW lib_, lib_.cmb \in 1 .. MAXBITS
  PROVE  cap_iab_from_text(cap_iab_to_text(iab, lib_), lib_) = Cut(iab, 0 .. lib_.cmb - 1)
<1> DEFINE within == 0 .. lib_.cmb - 1
           S == (iab.i \cup iab.a \cup iab.nb) \cap within
           named == Ascending(S)
           text == cap_iab_to_text(iab, lib_)
           item(j) == lookupname(text[j][2], lib_)
           with(p) == {item(j) : j \in {k \in DOMAIN text : p \in text[k][1]}}
           plain   == {item(j) : j \in {k \in DOMAIN text : text[k][1] = {}}}
<1>0. lib_.cmb \in Nat /\ MAXBITS \in Nat BY Widths
<1>1. S \in SUBSET (0 .. lib_.cmb - 1) OBVIOUS
<1>2. Enumerates(named, S)
  <2> HIDE DEF S
  <2> QED BY <1>0, <1>1, Enumerated
<1>3. text = [j \in DOMAIN named |-> <<IabPrefixes(iab, named[j]), cap_to_name(named[j])>>]
  BY DEF cap_iab_to_text
<1>4. cap_iab_from_text(text, lib_) =
        IF \E j \in DOMAIN text : item(j) = -1 THEN NULL
        ELSE [i |-> plain \cup with("%") \cup with("^"), a |-> with("^"), nb |-> with("!")]
  BY DEF cap_iab_from_text
<1>5. DOMAIN text = DOMAIN named /\ \A j \in DOMAIN named : named[j] \in S
  BY <1>2, <1>3 DEF Enumerates
<1>6. \A x \in S : \E j \in DOMAIN named : named[j] = x BY <1>2 DEF Enumerates
<1>7. ASSUME NEW j \in DOMAIN named
      PROVE  item(j) = named[j] /\ text[j][1] = IabPrefixes(iab, named[j])
  <2>1. named[j] \in S BY <1>5
  <2>2. named[j] \in Values /\ named[j] < lib_.cmb BY <1>0, <2>1 DEF Values
  <2>3. lookupname(cap_to_name(named[j]), lib_) = named[j] BY <1>0, <2>2, KnownNames
  <2>4. text[j] = <<IabPrefixes(iab, named[j]), cap_to_name(named[j])>> BY <1>3
  <2>5. text[j][1] = IabPrefixes(iab, named[j]) /\ text[j][2] = cap_to_name(named[j]) BY <2>4
  <2> HIDE DEF text, named
  <2> QED BY <2>3, <2>5
<1> HIDE DEF text, named, item
<1>8. \A j \in DOMAIN text : item(j) # -1
  BY <1>0, <1>5, <1>7
<1>9. ASSUME NEW p PROVE with(p) = {x \in S : p \in IabPrefixes(iab, x)}
  <2> HIDE DEF S
  <2> QED BY <1>5, <1>6, <1>7
<1>10. plain = {x \in S : IabPrefixes(iab, x) = {}}
  <2> HIDE DEF S
  <2> QED BY <1>5, <1>6, <1>7
<1> DEFINE pc == with("%")
           up == with("^")
           no == with("!")
<1>11. no = iab.nb \cap within BY <1>9 DEF IabPrefixes
<1>12. up = iab.a \cap within BY <1>9 DEF IabPrefixes
<1>13. pc = {x \in S : x \in (iab.nb \cap iab.i) \ iab.a} BY <1>9 DEF IabPrefixes
<1>14. plain = {x \in S : x \notin iab.nb /\ x \notin iab.a}
  <2>1. \A x : IabPrefixes(iab, x) = {} <=> x \notin iab.nb /\ x \notin iab.a
    <3> SUFFICES ASSUME NEW x
                 PROVE  IabPrefixes(iab, x) = {} <=> x \notin iab.nb /\ x \notin iab.a
      OBVIOUS
    <3>1. x \in iab.nb => "!" \in IabPrefixes(iab, x) BY DEF IabPrefixes
    <3>2. x \in iab.a => "^" \in IabPrefixes(iab, x) BY DEF IabPrefixes
    <3>3. x \notin iab.nb /\ x \notin iab.a => IabPrefixes(iab, x) = {} BY DEF IabPrefixes
    <3> QED BY <3>1, <3>2, <3>3
  <2> QED BY <1>10, <2>1
<1> HIDE DEF with, plain, pc, up, no
<1>15. plain \cup pc \cup up = iab.i \cap within BY <1>12, <1>13, <1>14
<1>16. cap_iab_from_text(text, lib_) = [i |-> plain \cup pc \cup up, a |-> up, nb |-> no]
  BY <1>4, <1>8 DEF pc, up, no
<1> QED BY <1>11, <1>12, <1>15, <1>16 DEF Cut, text

(* The sets of a process, as /proc shows them, are those it has. *)
LEMMA PidExact ==
  ASSUME NEW iab \in IabObject, NEW lib_, lib_.cmb \in 1 .. MAXBITS,
         NEW has, has = 0 .. lib_.cmb - 1, iab.i \cup iab.a \cup iab.nb \subseteq has
  PROVE  cap_iab_get_pid([I |-> iab.i, A |-> iab.a, B |-> has \ iab.nb], lib_) = iab
<1>0. lib_.cmb \in Nat /\ MAXBITS \in Nat BY Widths
<1>1. forceall(lib_.cmb, Blks) = WordsUpTo(Blks) \cap has BY <1>0, Forced
<1>2. WordsUpTo(Blks) = Values BY DEF WordsUpTo, Values, MAXBITS
<1>3. has \subseteq Values BY <1>0 DEF Values
<1>4. forceall(lib_.cmb, Blks) = has BY <1>1, <1>2, <1>3
<1> DEFINE k == [I |-> iab.i, A |-> iab.a, B |-> has \ iab.nb]
<1>5. k.I = iab.i /\ k.A = iab.a /\ k.B = has \ iab.nb OBVIOUS
<1> HIDE DEF k
<1>6. /\ has \cap k.I = iab.i /\ has \cap k.A = iab.a
      /\ has \cap (Values \ k.B) = iab.nb
  BY <1>3, <1>5
<1>7. cap_iab_get_pid(k, lib_) = [i |-> iab.i, a |-> iab.a, nb |-> iab.nb]
  BY <1>4, <1>6 DEF cap_iab_get_pid
<1>8. iab = [i |-> iab.i, a |-> iab.a, nb |-> iab.nb] BY DEF IabObject
<1> QED BY <1>7, <1>8 DEF k
=============================================================================
