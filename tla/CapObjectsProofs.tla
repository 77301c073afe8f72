-------------------------- MODULE CapObjectsProofs --------------------------
(***************************************************************************)
(* Proofs about CapObjects for every set of threads and objects, every     *)
(* number of words and every set of calls.                                 *)
(***************************************************************************)
EXTENDS CapObjects, FiniteSetTheorems, TLAPS

-----------------------------------------------------------------------------
(* The inductive invariant                                                 *)

(* What an object can hold: the vectors of an IAB always can be applied,   *)
(* after every word of every operation.                                    *)
CapValues == [Flags -> SUBSET Words]
IabValues == {v \in [Vectors -> SUBSET Words] : v.a \subseteq v.i}
LauncherValues == [iab : SUBSET IabTs]
AnyValue == CapValues \cup IabValues \cup LauncherValues
Fits(v, o) == /\ o \in CapTs => v \in CapValues
              /\ o \in IabTs => v \in IabValues
              /\ o \in Launchers => v \in LauncherValues

Labels == {"idle", "lock_ref", "copy", "result", "lock", "work", "own"}
Frames == [pc : Labels, call : Calls \cup {<<>>}, copy : AnyValue \cup {<<>>},
           was : AnyValue \cup {<<>>}, word : 0 .. NWords,
           found : SUBSET (Flags \cup Vectors), n : 0 .. MaxCalls]

(* Objects have the values of their type and launchers own live IABs. *)
ObjectInv == /\ live \subseteq Objects
             /\ mu \in [Objects -> BOOLEAN]
             /\ val \in [Objects -> AnyValue]
             /\ \A o \in Objects : Fits(val[o], o)
             /\ \A l \in Launchers : val[l].iab \subseteq live

(* The objects of a call stay allocated while it runs; the memory a dup is *)
(* to fill is nobody else's.                                               *)
InCall(t) == LET k == fr[t].call  pc == fr[t].pc IN
    /\ k \in Calls /\ Good(k)
    /\ k.ref \in live
    /\ k.op \in Duplicating => k.tgt \notin live /\ pc \in {"lock_ref", "copy", "result"}
    /\ k.op \notin Duplicating => k.tgt \in live /\ pc # "result"
    /\ pc \in {"lock_ref", "copy", "result"} => k.op \in Copying
    /\ pc = "work" => k.op # "cap_launcher_set_iab"
    /\ pc = "own" => k.op = "cap_launcher_set_iab" /\ val[k.tgt].iab = {k.ref} \cap IabTs

CallInv == /\ fr \in [Threads -> Frames]
           /\ \A t \in Threads : fr[t].pc # "idle" => InCall(t)
           /\ \A t, u \in Threads :
                 /\ t # u /\ fr[t].pc # "idle" /\ fr[u].pc # "idle"
                 /\ fr[t].call.op \in Duplicating
                 => fr[u].call.tgt # fr[t].call.tgt

(* A mutex is set exactly while one thread or one launcher holds it. *)
HolderInv ==
    /\ \A t \in Threads, o \in Objects : Holds(t, o) => mu[o]
    /\ \A l \in Launchers, o \in Objects : HeldFor(l, o) => mu[o]
    /\ \A t, u \in Threads, o \in Objects : Holds(t, o) /\ Holds(u, o) => t = u
    /\ \A l, m \in Launchers, o \in Objects : HeldFor(l, o) /\ HeldFor(m, o) => l = m
    /\ \A t \in Threads, l \in Launchers, o \in Objects : ~ (Holds(t, o) /\ HeldFor(l, o))
    /\ \A o \in Objects : mu[o] => \/ \E t \in Threads : Holds(t, o)
                                   \/ \E l \in Launchers : HeldFor(l, o)

(* How far a copy has come: the words before the next one are ref's. *)
CopyInv(t) == LET k == fr[t].call  u == val[k.ref] IN
    fr[t].pc = "copy" =>
        \A x \in DOMAIN u : fr[t].copy[x] = u[x] \cap (0 .. fr[t].word - 1)

(* How far an operation has come: the words before the next one are as the *)
(* whole operation leaves them, the others as they were.                   *)
WorkInv(t) == LET k == fr[t].call  v == val[k.tgt]  was == fr[t].was  copy == fr[t].copy IN
    fr[t].pc = "work" =>
        /\ Fits(was, k.tgt)
        /\ \A x \in DOMAIN was : \A w \in Words :
              w \in v[x] <=> w \in IF w < fr[t].word THEN Whole(k, was, copy)[x] ELSE was[x]
        /\ \A x \in Flags \cup Vectors :
              x \in fr[t].found <=>
                 \E w \in Words : w < fr[t].word /\ x \in WordSeen(k, was, copy, w)

InLoop(t) ==
    /\ fr[t].pc = "lock_ref" => fr[t].word = 0
    /\ fr[t].pc \in {"lock_ref", "copy", "lock"} => fr[t].found = {}
    /\ fr[t].pc \in {"copy", "result", "lock", "work"} /\ fr[t].call.op \in Copying =>
          Fits(fr[t].copy, fr[t].call.ref)
    /\ CopyInv(t)
    /\ WorkInv(t)

LoopInv == \A t \in Threads : InLoop(t)

Inductive == ObjectInv /\ CallInv /\ HolderInv /\ LoopInv

-----------------------------------------------------------------------------
(* What the operators defined by cases are in each case                    *)

Setting == {"cap_set_flag", "cap_iab_set_vector"}
Comparing == {"cap_compare", "cap_iab_compare"}
Reading == {"cap_get_flag", "cap_iab_get_vector"}
SetIab == "cap_launcher_set_iab"

USE DEF Flags, Vectors, Duplicating, Copying, OnCaps, OnIabs, Setting, Comparing, Reading,
        SetIab

LEMMA BlankCases ==
  ASSUME NEW o
  PROVE  /\ o \in CapTs => Blank(o) = [x \in Flags |-> {}]
         /\ o \in IabTs => Blank(o) = [x \in Vectors |-> {}]
         /\ o \in Launchers => Blank(o) = [iab |-> {}]
<1>1. /\ o \in CapTs => o \notin IabTs
      /\ o \in Launchers => o \notin CapTs /\ o \notin IabTs
  BY CapObjectsAssumption
<1> QED BY <1>1, Zenon DEF Blank

LEMMA GoodObjects ==
  ASSUME NEW k \in Calls, Good(k)
  PROVE  /\ k.op \in OnCaps => k.tgt \in CapTs
         /\ k.op \in OnIabs => k.tgt \in IabTs
         /\ k.op = SetIab => k.tgt \in Launchers
         /\ k.op \in Copying /\ k.op \in OnCaps \cup {"cap_iab_fill"} => k.ref \in CapTs
         /\ k.op \in Copying /\ k.op \notin OnCaps \cup {"cap_iab_fill"} => k.ref \in IabTs
<1>1. /\ k.op \in OnCaps => k.op \notin OnIabs
      /\ k.op = SetIab => k.op \notin OnCaps /\ k.op \notin OnIabs
  OBVIOUS
<1>2. /\ k.op \in OnCaps => k.tgt \in CapTs
      /\ k.op \in OnIabs => k.tgt \in IabTs
      /\ k.op = SetIab => k.tgt \in Launchers
  <2> HIDE DEF OnCaps, OnIabs
  <2> QED BY <1>1, Zenon DEF Good
<1>3. k.op \in Copying =>
         k.ref \in IF k.op \in OnCaps \cup {"cap_iab_fill"} THEN CapTs ELSE IabTs
  <2> HIDE DEF OnCaps, Copying
  <2> QED BY Zenon DEF Good
<1> QED BY <1>2, <1>3

LEMMA WordDoneCases ==
  ASSUME NEW k \in Calls, NEW v, NEW copy, NEW w
  PROVE  /\ k.op \in Setting /\ w \notin k.bits => WordDone(k, v, copy, w) = v
         /\ k.op = "cap_set_flag" /\ w \in k.bits =>
               WordDone(k, v, copy, w) = Put(v, k.to, w, k.raise)
         /\ k.op = "cap_clear" => WordDone(k, v, copy, w) = [x \in Flags |-> v[x] \ {w}]
         /\ k.op = "cap_clear_flag" =>
               WordDone(k, v, copy, w) = [v EXCEPT ![k.to] = @ \ {w}]
         /\ k.op = "cap_fill_flag" /\ w \in copy[k.from] =>
               WordDone(k, v, copy, w) = [v EXCEPT ![k.to] = @ \cup {w}]
         /\ k.op = "cap_fill_flag" /\ w \notin copy[k.from] =>
               WordDone(k, v, copy, w) = [v EXCEPT ![k.to] = @ \ {w}]
         /\ k.op \in Duplicating \cup Comparing \cup Reading =>
               WordDone(k, v, copy, w) = v
<1>1. CASE k.op \in Setting BY <1>1, Zenon DEF WordDone
<1>2. CASE k.op \in {"cap_clear", "cap_clear_flag"} BY <1>2, Zenon DEF WordDone, Put
<1>3. CASE k.op = "cap_fill_flag" BY <1>3, Zenon DEF WordDone, Put
<1>4. CASE k.op \in Duplicating \cup Comparing \cup Reading BY <1>4, Zenon DEF WordDone
<1> QED BY <1>1, <1>2, <1>3, <1>4, Zenon

(* Is the bit of word w that an IAB operation writes set? *)
IabBit(k, copy, w) == \/ k.op = "cap_iab_set_vector" /\ k.raise
                      \/ k.op = "cap_iab_fill" /\ (k.to = "nb" <=> w \notin copy[k.from])
WritesWord(k, w) == \/ k.op = "cap_iab_set_vector" /\ w \in k.bits
                    \/ k.op = "cap_iab_fill"

LEMMA WordDoneVector ==
  ASSUME NEW k \in Calls, NEW v, NEW copy, NEW w, WritesWord(k, w),
         NEW on \in BOOLEAN, on <=> IabBit(k, copy, w)
  PROVE  WordDone(k, v, copy, w) = PutVector(v, k.to, w, on)
<1>1. CASE k.op = "cap_iab_set_vector"
  <2>1. on = k.raise BY <1>1, CallsAssumption, Zenon DEF IabBit
  <2> QED BY <1>1, <2>1, Zenon DEF WordDone, WritesWord
<1>2. CASE k.op = "cap_iab_fill"
  <2>1. on <=> (k.to = "nb" <=> w \notin copy[k.from]) BY <1>2 DEF IabBit
  <2>2. on = ((k.to = "nb") # (w \in copy[k.from])) BY <2>1
  <2> QED BY <1>2, <2>2, Zenon DEF WordDone
<1> QED BY <1>1, <1>2 DEF WritesWord

LEMMA WordSeenCases ==
  ASSUME NEW k \in Calls, NEW v, NEW copy, NEW w
  PROVE  /\ k.op \in Comparing =>
               WordSeen(k, v, copy, w) = {x \in DOMAIN v : w \in v[x] <=> w \notin copy[x]}
         /\ k.op \in Reading =>
               WordSeen(k, v, copy, w) = {x \in {k.to} : w \in v[x] \cap k.bits}
         /\ k.op \notin Comparing \cup Reading => WordSeen(k, v, copy, w) = {}
         /\ k.op \in Comparing => Finds(k, v, copy) = {x \in DOMAIN v : v[x] # copy[x]}
         /\ k.op \in Reading => Finds(k, v, copy) = {x \in {k.to} : v[x] \cap k.bits # {}}
         /\ k.op \notin Comparing \cup Reading => Finds(k, v, copy) = {}
<1>1. k.op \in Comparing => k.op \notin Reading OBVIOUS
<1>2. CASE k.op \in Comparing
  BY <1>1, <1>2, Zenon DEF WordSeen, Finds
<1>3. CASE k.op \in Reading
  BY <1>1, <1>3, Zenon DEF WordSeen, Finds
<1>4. CASE k.op \notin Comparing \cup Reading
  BY <1>4, Zenon DEF WordSeen, Finds
<1> QED BY <1>1, <1>2, <1>3, <1>4, Zenon

LEMMA WholeCases ==
  ASSUME NEW k, NEW v, NEW copy
  PROVE  /\ k.op = "cap_set_flag" /\ k.raise =>
               Whole(k, v, copy) = [v EXCEPT ![k.to] = @ \cup k.bits]
         /\ k.op = "cap_set_flag" /\ ~ k.raise =>
               Whole(k, v, copy) = [v EXCEPT ![k.to] = @ \ k.bits]
         /\ k.op = "cap_clear" => Whole(k, v, copy) = Blank(k.tgt)
         /\ k.op = "cap_clear_flag" => Whole(k, v, copy) = [v EXCEPT ![k.to] = {}]
         /\ k.op = "cap_fill_flag" => Whole(k, v, copy) = [v EXCEPT ![k.to] = copy[k.from]]
         /\ k.op \in Duplicating \cup Comparing \cup Reading => Whole(k, v, copy) = v
<1>1. CASE k.op \in {"cap_iab_set_vector", "cap_iab_fill"} BY <1>1
<1>2. CASE k.op \notin {"cap_iab_set_vector", "cap_iab_fill"}
  BY <1>2, Zenon DEF Whole
<1> QED BY <1>1, <1>2

(* Vector x of an IAB v once vector to has been set to new. *)
Vector(to, x, v, new) == IF x = to THEN new
                         ELSE IF to = "i" /\ x = "a" THEN v["a"] \cap new
                         ELSE IF to = "a" /\ x = "i" THEN v["i"] \cup new
                         ELSE v[x]

LEMMA WholeVectorCases ==
  ASSUME NEW k \in Calls, NEW v, NEW copy, k.op \in {"cap_iab_set_vector", "cap_iab_fill"}
  PROVE  Whole(k, v, copy) = [x \in Vectors |-> Vector(k.to, x, v, NewVector(k, v, copy))]
<1> DEFINE new == NewVector(k, v, copy)
<1>1. /\ k.to = "i" => Whole(k, v, copy) = [i |-> new, a |-> v.a \cap new, nb |-> v.nb]
      /\ k.to = "a" => Whole(k, v, copy) = [i |-> v.i \cup new, a |-> new, nb |-> v.nb]
      /\ k.to = "nb" => Whole(k, v, copy) = [i |-> v.i, a |-> v.a, nb |-> new]
  BY Zenon DEF Whole
<1>2. k.to \in Vectors BY CallsAssumption
<1> HIDE DEF new
<1> QED BY <1>1, <1>2 DEF Vector, new

LEMMA PutVectorCases ==
  ASSUME NEW v, NEW w, NEW on
  PROVE  /\ PutVector(v, "i", w, on) = PutInh(v, w, on)
         /\ PutVector(v, "a", w, on) = PutAmb(v, w, on)
         /\ PutVector(v, "nb", w, on) = Put(v, "nb", w, on)
BY Zenon DEF PutVector

USE DEF Words

-----------------------------------------------------------------------------
(* Lemmas about the operators                                              *)

(* PutVector keeps A within I: cap_iab_set_vector and cap_iab_fill. *)
LEMMA PutVectorFits ==
  ASSUME NEW v \in IabValues, NEW x \in Vectors, NEW w \in Words, NEW on \in BOOLEAN
  PROVE  PutVector(v, x, w, on) \in IabValues
<1>1. CASE x = "i"
  <2>1. PutInh(v, w, on) \in IabValues BY DEF IabValues, PutInh, Put
  <2> QED BY <1>1, <2>1, PutVectorCases
<1>2. CASE x = "a"
  <2>1. PutAmb(v, w, on) \in IabValues BY DEF IabValues, PutAmb, Put
  <2> QED BY <1>2, <2>1, PutVectorCases
<1>3. CASE x = "nb"
  <2>1. Put(v, "nb", w, on) \in IabValues BY DEF IabValues, Put
  <2> QED BY <1>3, <2>1, PutVectorCases
<1> QED BY <1>1, <1>2, <1>3

(* One word of any operation on a cap_t or a cap_iab_t leaves a value of   *)
(* the same type in its target.                                            *)
LEMMA WordDoneFits ==
  ASSUME NEW k \in Calls, Good(k), k.op # SetIab,
         NEW v, Fits(v, k.tgt),
         NEW copy, NEW w \in Words
  PROVE  Fits(WordDone(k, v, copy, w), k.tgt)
<1> USE CallsAssumption, CapObjectsAssumption
<1> DEFINE d == WordDone(k, v, copy, w)
<1>1. CASE k.op \in OnCaps
  <2>1. k.tgt \in CapTs /\ k.tgt \notin IabTs /\ k.tgt \notin Launchers /\ v \in CapValues
    BY <1>1, GoodObjects DEF Fits
  <2>2. k.to \in Flags /\ k.raise \in BOOLEAN BY <1>1
  <2>3. d \in CapValues
    <3>1. CASE k.op = "cap_clear"
      <4>1. d = [x \in Flags |-> v[x] \ {w}] BY <3>1, WordDoneCases
      <4> QED BY <2>1, <4>1 DEF CapValues
    <3>2. CASE k.op = "cap_set_flag"
      <4>1. Put(v, k.to, w, k.raise) \in CapValues BY <2>1, <2>2 DEF CapValues, Put
      <4> QED BY <2>1, <3>2, <4>1, WordDoneCases
    <3>3. CASE k.op \in {"cap_clear_flag", "cap_fill_flag"}
      <4>1. \/ d = [v EXCEPT ![k.to] = @ \cup {w}]
            \/ d = [v EXCEPT ![k.to] = @ \ {w}]
        BY <3>3, WordDoneCases
      <4> QED BY <2>1, <2>2, <4>1 DEF CapValues
    <3>4. CASE k.op \in {"cap_get_flag", "cap_compare", "cap_dup"}
      BY <2>1, <3>4, WordDoneCases
    <3> QED BY <1>1, <3>1, <3>2, <3>3, <3>4
  <2> QED BY <2>1, <2>3 DEF Fits
<1>2. CASE k.op \in OnIabs
  <2>1. k.tgt \in IabTs /\ k.tgt \notin CapTs /\ k.tgt \notin Launchers /\ v \in IabValues
    BY <1>2, GoodObjects DEF Fits
  <2>2. k.to \in Vectors /\ k.raise \in BOOLEAN BY <1>2
  <2>3. d \in IabValues
    <3>1. CASE WritesWord(k, w)
      <4>1. PICK on \in BOOLEAN : on <=> IabBit(k, copy, w) OBVIOUS
      <4> QED BY <2>1, <2>2, <3>1, <4>1, PutVectorFits, WordDoneVector
    <3>2. CASE k.op = "cap_iab_set_vector" /\ w \notin k.bits
      BY <2>1, <3>2, WordDoneCases
    <3>3. CASE k.op \in {"cap_iab_get_vector", "cap_iab_compare", "cap_iab_dup"}
      BY <2>1, <3>3, WordDoneCases
    <3> QED BY <1>2, <3>1, <3>2, <3>3 DEF WritesWord
  <2> QED BY <2>1, <2>3 DEF Fits
<1> QED BY <1>1, <1>2

(* The vector an IAB operation writes, seen at one word. *)
LEMMA NewVectorAt ==
  ASSUME NEW k \in Calls, NEW was, NEW copy, NEW w \in Words,
         k.op \in {"cap_iab_set_vector", "cap_iab_fill"}
  PROVE  w \in NewVector(k, was, copy) <=>
            IF WritesWord(k, w) THEN IabBit(k, copy, w) ELSE w \in was[k.to]
<1>1. CASE k.op = "cap_iab_fill" BY <1>1 DEF NewVector, WritesWord, IabBit
<1>2. CASE k.op = "cap_iab_set_vector"
  <2>1. k.raise \in BOOLEAN BY CallsAssumption
  <2>2. k.raise => (w \in NewVector(k, was, copy) <=> w \in was[k.to] \cup k.bits)
    BY <1>2 DEF NewVector
  <2>3. ~ k.raise => (w \in NewVector(k, was, copy) <=> w \in was[k.to] \ k.bits)
    BY <1>2 DEF NewVector
  <2> QED BY <1>2, <2>1, <2>2, <2>3 DEF WritesWord, IabBit
<1> QED BY <1>1, <1>2

(* What writing one bit of a vector does to each vector at that word, and  *)
(* that it leaves the other words.                                         *)
LEMMA PutVectorAt ==
  ASSUME NEW v \in IabValues, NEW to \in Vectors, NEW w \in Words, NEW on \in BOOLEAN,
         NEW d, d = PutVector(v, to, w, on)
  PROVE  /\ \A x \in Vectors : \A y \in Words \ {w} : y \in d[x] <=> y \in v[x]
         /\ w \in d[to] <=> on
         /\ to = "i" => /\ w \in d["a"] <=> w \in v["a"] /\ on
                        /\ w \in d["nb"] <=> w \in v["nb"]
         /\ to = "a" => /\ w \in d["i"] <=> w \in v["i"] \/ on
                        /\ w \in d["nb"] <=> w \in v["nb"]
         /\ to = "nb" => /\ w \in d["i"] <=> w \in v["i"]
                         /\ w \in d["a"] <=> w \in v["a"]
<1> USE DEF IabValues
<1>1. CASE to = "i"
  <2>1. d = PutInh(v, w, on) BY <1>1, PutVectorCases
  <2>2. /\ d["i"] = IF on THEN v["i"] \cup {w} ELSE v["i"] \ {w}
        /\ d["a"] = v["a"] \ ({w} \ d["i"])
        /\ d["nb"] = v["nb"]
    BY <2>1 DEF PutInh, Put
  <2> QED BY <1>1, <2>2
<1>2. CASE to = "a"
  <2>1. d = PutAmb(v, w, on) BY <1>2, PutVectorCases
  <2>2. /\ d["a"] = IF on THEN v["a"] \cup {w} ELSE v["a"] \ {w}
        /\ d["i"] = v["i"] \cup ({w} \cap d["a"])
        /\ d["nb"] = v["nb"]
    BY <2>1 DEF PutAmb, Put
  <2> QED BY <1>2, <2>2
<1>3. CASE to = "nb"
  <2>1. d = Put(v, "nb", w, on) BY <1>3, PutVectorCases
  <2>2. /\ d["nb"] = IF on THEN v["nb"] \cup {w} ELSE v["nb"] \ {w}
        /\ d["a"] = v["a"] /\ d["i"] = v["i"]
    BY <2>1 DEF Put
  <2> QED BY <1>3, <2>2
<1> QED BY <1>1, <1>2, <1>3

(* The whole operation keeps the type of its target. *)
LEMMA WholeFits ==
  ASSUME NEW k \in Calls, Good(k), k.op # SetIab,
         NEW v, Fits(v, k.tgt), NEW copy, k.op \in Copying => Fits(copy, k.ref)
  PROVE  Fits(Whole(k, v, copy), k.tgt)
<1> USE CallsAssumption, CapObjectsAssumption
<1> DEFINE d == Whole(k, v, copy)
<1>1. CASE k.op \in OnCaps
  <2>1. k.tgt \in CapTs /\ k.tgt \notin IabTs /\ k.tgt \notin Launchers /\ v \in CapValues
    BY <1>1, GoodObjects DEF Fits
  <2>2. k.to \in Flags /\ k.from \in Flags /\ k.raise \in BOOLEAN /\ k.bits \subseteq Words
    BY <1>1
  <2>3. d \in CapValues
    <3>1. CASE k.op = "cap_clear"
      <4>1. d = [x \in Flags |-> {}] BY <2>1, <3>1, WholeCases, BlankCases
      <4> QED BY <4>1 DEF CapValues
    <3>2. CASE k.op = "cap_set_flag"
      <4>1. \/ d = [v EXCEPT ![k.to] = @ \cup k.bits]
            \/ d = [v EXCEPT ![k.to] = @ \ k.bits]
        BY <2>2, <3>2, WholeCases
      <4> QED BY <2>1, <2>2, <4>1 DEF CapValues
    <3>3. CASE k.op = "cap_clear_flag"
      <4>1. d = [v EXCEPT ![k.to] = {}] BY <3>3, WholeCases
      <4> QED BY <2>1, <2>2, <4>1 DEF CapValues
    <3>4. CASE k.op = "cap_fill_flag"
      <4>1. copy \in CapValues BY <3>4, GoodObjects DEF Fits
      <4>2. d = [v EXCEPT ![k.to] = copy[k.from]] BY <3>4, WholeCases
      <4> QED BY <2>1, <2>2, <4>1, <4>2 DEF CapValues
    <3>5. CASE k.op \in {"cap_get_flag", "cap_compare", "cap_dup"}
      BY <2>1, <3>5, WholeCases
    <3> QED BY <1>1, <3>1, <3>2, <3>3, <3>4, <3>5
  <2> QED BY <2>1, <2>3 DEF Fits
<1>2. CASE k.op \in OnIabs
  <2>1. k.tgt \in IabTs /\ k.tgt \notin CapTs /\ k.tgt \notin Launchers /\ v \in IabValues
    BY <1>2, GoodObjects DEF Fits
  <2>2. k.to \in Vectors /\ k.from \in Flags /\ k.raise \in BOOLEAN /\ k.bits \subseteq Words
    BY <1>2
  <2>3. d \in IabValues
    <3>1. CASE k.op \in {"cap_iab_set_vector", "cap_iab_fill"}
      <4> DEFINE new == NewVector(k, v, copy)
      <4>1. new \subseteq Words
        <5>1. CASE k.op = "cap_iab_fill"
          <6>1. copy \in CapValues BY <5>1, GoodObjects DEF Fits
          <6>2. copy[k.from] \subseteq Words BY <2>2, <6>1 DEF CapValues
          <6> QED BY <5>1, <6>2 DEF NewVector
        <5>2. CASE k.op = "cap_iab_set_vector"
          <6>1. v[k.to] \subseteq Words BY <2>1, <2>2 DEF IabValues
          <6> QED BY <2>2, <5>2, <6>1 DEF NewVector
        <5> QED BY <3>1, <5>1, <5>2
      <4>2. d = [x \in Vectors |-> Vector(k.to, x, v, new)] BY <3>1, WholeVectorCases
      <4> HIDE DEF new
      <4> HIDE DEF d
      <4>3. CASE k.to = "i"
        <5>1. d \in [Vectors -> SUBSET Words]
          BY <2>1, <4>1, <4>2, <4>3 DEF IabValues, Vector
        <5>2. d["i"] = new /\ d["a"] = v["a"] \cap new BY <4>2, <4>3 DEF Vector
        <5> QED BY <5>1, <5>2 DEF IabValues
      <4>4. CASE k.to = "a"
        <5>1. d \in [Vectors -> SUBSET Words]
          BY <2>1, <4>1, <4>2, <4>4 DEF IabValues, Vector
        <5>2. d["i"] = v["i"] \cup new /\ d["a"] = new BY <4>2, <4>4 DEF Vector
        <5> QED BY <5>1, <5>2 DEF IabValues
      <4>5. CASE k.to = "nb" BY <2>1, <4>1, <4>2, <4>5 DEF IabValues, Vector
      <4> QED BY <2>2, <4>3, <4>4, <4>5
    <3>2. CASE k.op \in {"cap_iab_get_vector", "cap_iab_compare", "cap_iab_dup"}
      BY <2>1, <3>2, WholeCases
    <3> QED BY <1>2, <3>1, <3>2
  <2> QED BY <2>1, <2>3 DEF Fits
<1> QED BY <1>1, <1>2

(* One word of an operation makes that word what the whole operation does, *)
(* and leaves the other words.                                             *)
LEMMA WordDoneIsWhole ==
  ASSUME NEW k \in Calls, Good(k), k.op # SetIab,
         NEW v, Fits(v, k.tgt), NEW was, Fits(was, k.tgt),
         NEW copy, k.op \in Copying => Fits(copy, k.ref),
         NEW w \in Words, \A x \in DOMAIN was : w \in v[x] <=> w \in was[x],
         NEW x \in DOMAIN was
  PROVE  /\ w \in WordDone(k, v, copy, w)[x] <=> w \in Whole(k, was, copy)[x]
         /\ \A y \in Words \ {w} : y \in WordDone(k, v, copy, w)[x] <=> y \in v[x]
<1> USE CallsAssumption, CapObjectsAssumption
<1> DEFINE d == WordDone(k, v, copy, w)
           e == Whole(k, was, copy)
<1>1. CASE k.op \in OnCaps
  <2>1. /\ k.tgt \in CapTs /\ k.tgt \notin IabTs /\ k.tgt \notin Launchers
        /\ v \in CapValues /\ was \in CapValues
    BY <1>1, GoodObjects DEF Fits
  <2>2. k.to \in Flags /\ k.from \in Flags /\ k.raise \in BOOLEAN /\ k.bits \subseteq Words
    BY <1>1
  <2>3. x \in Flags BY <2>1 DEF CapValues
  <2>4. CASE k.op = "cap_clear"
    <3>1. d = [z \in Flags |-> v[z] \ {w}] BY <2>4, WordDoneCases
    <3>2. e = [z \in Flags |-> {}] BY <2>1, <2>4, WholeCases, BlankCases
    <3> QED BY <2>3, <3>1, <3>2
  <2>5. CASE k.op = "cap_set_flag"
    <3>1. CASE w \in k.bits
      <4>1. d = Put(v, k.to, w, k.raise) BY <2>5, <3>1, WordDoneCases
      <4>2. CASE k.raise
        <5>1. e = [was EXCEPT ![k.to] = @ \cup k.bits] BY <2>5, <4>2, WholeCases
        <5> QED BY <2>1, <2>2, <2>3, <3>1, <4>1, <4>2, <5>1 DEF Put, CapValues
      <4>3. CASE ~ k.raise
        <5>1. e = [was EXCEPT ![k.to] = @ \ k.bits] BY <2>5, <4>3, WholeCases
        <5> QED BY <2>1, <2>2, <2>3, <3>1, <4>1, <4>3, <5>1 DEF Put, CapValues
      <4> QED BY <2>2, <4>2, <4>3
    <3>2. CASE w \notin k.bits
      <4>1. d = v BY <2>5, <3>2, WordDoneCases
      <4>2. \/ e = [was EXCEPT ![k.to] = @ \cup k.bits]
            \/ e = [was EXCEPT ![k.to] = @ \ k.bits]
        BY <2>2, <2>5, WholeCases
      <4> QED BY <2>1, <2>2, <2>3, <3>2, <4>1, <4>2 DEF CapValues
    <3> QED BY <3>1, <3>2
  <2>6. CASE k.op = "cap_clear_flag"
    <3>1. d = [v EXCEPT ![k.to] = @ \ {w}] BY <2>6, WordDoneCases
    <3>2. e = [was EXCEPT ![k.to] = {}] BY <2>6, WholeCases
    <3> QED BY <2>1, <2>2, <2>3, <3>1, <3>2 DEF CapValues
  <2>7. CASE k.op = "cap_fill_flag"
    <3>1. e = [was EXCEPT ![k.to] = copy[k.from]] BY <2>7, WholeCases
    <3>2. CASE w \in copy[k.from]
      <4>1. d = [v EXCEPT ![k.to] = @ \cup {w}] BY <2>7, <3>2, WordDoneCases
      <4> QED BY <2>1, <2>2, <2>3, <3>1, <3>2, <4>1 DEF CapValues
    <3>3. CASE w \notin copy[k.from]
      <4>1. d = [v EXCEPT ![k.to] = @ \ {w}] BY <2>7, <3>3, WordDoneCases
      <4> QED BY <2>1, <2>2, <2>3, <3>1, <3>3, <4>1 DEF CapValues
    <3> QED BY <3>2, <3>3
  <2>8. CASE k.op \in {"cap_get_flag", "cap_compare", "cap_dup"}
    <3>1. d = v /\ e = was BY <2>8, WordDoneCases, WholeCases
    <3> QED BY <3>1
  <2> QED BY <1>1, <2>4, <2>5, <2>6, <2>7, <2>8
<1>2. CASE k.op \in OnIabs
  <2>1. /\ k.tgt \in IabTs /\ k.tgt \notin CapTs /\ k.tgt \notin Launchers
        /\ v \in IabValues /\ was \in IabValues
    BY <1>2, GoodObjects DEF Fits
  <2>2. k.to \in Vectors BY <1>2
  <2>3. x \in Vectors BY <2>1 DEF IabValues
  <2>4. w \in was["a"] => w \in was["i"] BY <2>1 DEF IabValues
  <2>5. \A z \in Vectors : w \in v[z] <=> w \in was[z] BY <2>1 DEF IabValues
  <2>6. CASE k.op \in {"cap_iab_set_vector", "cap_iab_fill"}
    <3> DEFINE new == NewVector(k, was, copy)
    <3>1. w \in new <=> IF WritesWord(k, w) THEN IabBit(k, copy, w) ELSE w \in was[k.to]
      BY <2>6, NewVectorAt
    <3>2. e = [z \in Vectors |-> Vector(k.to, z, was, new)] BY <2>6, WholeVectorCases
    <3>3. e[x] = Vector(k.to, x, was, new) BY <2>3, <3>2
    <3> HIDE DEF new
    <3>4. CASE WritesWord(k, w)
      <4>1. PICK on \in BOOLEAN : on <=> IabBit(k, copy, w) OBVIOUS
      <4>2. d = PutVector(v, k.to, w, on) BY <3>4, <4>1, WordDoneVector
      <4> HIDE DEF d, e
      <4>3. w \in new <=> on BY <3>1, <3>4, <4>1
      <4>4. /\ \A z \in Vectors : \A y \in Words \ {w} : y \in d[z] <=> y \in v[z]
            /\ w \in d[k.to] <=> w \in new
            /\ k.to = "i" => /\ w \in d["a"] <=> w \in v["a"] /\ w \in new
                             /\ w \in d["nb"] <=> w \in v["nb"]
            /\ k.to = "a" => /\ w \in d["i"] <=> w \in v["i"] \/ w \in new
                             /\ w \in d["nb"] <=> w \in v["nb"]
            /\ k.to = "nb" => /\ w \in d["i"] <=> w \in v["i"]
                              /\ w \in d["a"] <=> w \in v["a"]
        BY <2>1, <2>2, <4>2, <4>3, PutVectorAt
      <4>5. w \in d[x] <=> w \in e[x]
        <5>1. CASE x = k.to BY <3>3, <4>4, <5>1 DEF Vector
        <5>2. CASE x # k.to /\ k.to = "nb"
          BY <2>3, <2>5, <3>3, <4>4, <5>2 DEF Vector
        <5>3. CASE x # k.to /\ k.to = "i"
          BY <2>3, <2>5, <3>3, <4>4, <5>3 DEF Vector
        <5>4. CASE x # k.to /\ k.to = "a"
          BY <2>3, <2>5, <3>3, <4>4, <5>4 DEF Vector
        <5> QED BY <2>2, <5>1, <5>2, <5>3, <5>4
      <4>6. \A y \in Words \ {w} : y \in d[x] <=> y \in v[x] BY <2>3, <4>4
      <4> QED BY <4>5, <4>6 DEF d, e
    <3>5. CASE ~ WritesWord(k, w)
      <4>1. d = v BY <2>6, <3>5, WordDoneCases DEF WritesWord
      <4>2. w \in new <=> w \in was[k.to] BY <3>1, <3>5
      <4>3. w \in v[x] <=> w \in e[x]
        BY <2>2, <2>3, <2>4, <2>5, <3>3, <4>2 DEF Vector
      <4> QED BY <4>1, <4>3
    <3> QED BY <3>4, <3>5
  <2>7. CASE k.op \in {"cap_iab_get_vector", "cap_iab_compare", "cap_iab_dup"}
    <3>1. d = v /\ e = was BY <2>7, WordDoneCases, WholeCases
    <3> QED BY <3>1
  <2> QED BY <1>2, <2>6, <2>7
<1> QED BY <1>1, <1>2

(* What an operation finds at a word does not depend on the other words. *)
LEMMA WordSeenAt ==
  ASSUME NEW k \in Calls, Good(k), k.op # SetIab,
         NEW v, Fits(v, k.tgt), NEW was, Fits(was, k.tgt), NEW copy, NEW w \in Words,
         \A x \in DOMAIN was : w \in v[x] <=> w \in was[x]
  PROVE  /\ WordSeen(k, v, copy, w) = WordSeen(k, was, copy, w)
         /\ WordSeen(k, v, copy, w) \subseteq Flags \cup Vectors
<1>1. DOMAIN v = DOMAIN was /\ DOMAIN was \subseteq Flags \cup Vectors /\ k.to \in Flags \cup Vectors
  BY CallsAssumption, GoodObjects DEF Fits, CapValues, IabValues
<1>2. CASE k.op \in Comparing
  <2>1. /\ WordSeen(k, v, copy, w) = {x \in DOMAIN v : w \in v[x] <=> w \notin copy[x]}
        /\ WordSeen(k, was, copy, w) = {x \in DOMAIN was : w \in was[x] <=> w \notin copy[x]}
    BY <1>2, WordSeenCases
  <2> QED BY <1>1, <2>1
<1>3. CASE k.op \in Reading
  <2>1. k.to \in DOMAIN was BY <1>3, CallsAssumption, GoodObjects DEF Fits, CapValues, IabValues
  <2>2. /\ WordSeen(k, v, copy, w) = {x \in {k.to} : w \in v[x] \cap k.bits}
        /\ WordSeen(k, was, copy, w) = {x \in {k.to} : w \in was[x] \cap k.bits}
    BY <1>3, WordSeenCases
  <2> QED BY <1>1, <2>1, <2>2
<1>4. CASE k.op \notin Comparing \cup Reading BY <1>4, WordSeenCases
<1> QED BY <1>2, <1>3, <1>4

(* What it has found after the last word is what it is to find. *)
LEMMA AllSeen ==
  ASSUME NEW k \in Calls, Good(k), k.op # SetIab,
         NEW was, Fits(was, k.tgt), NEW copy, k.op \in Copying => Fits(copy, k.ref),
         NEW found \in SUBSET (Flags \cup Vectors),
         \A x \in Flags \cup Vectors :
            x \in found <=> \E w \in Words : x \in WordSeen(k, was, copy, w)
  PROVE  found = Finds(k, was, copy)
<1> USE CallsAssumption, CapObjectsAssumption
<1>1. CASE k.op \in Comparing
  <2>1. \/ was \in CapValues /\ copy \in CapValues
        \/ was \in IabValues /\ copy \in IabValues
    BY <1>1, GoodObjects DEF Fits
  <2>2. DOMAIN was \subseteq Flags \cup Vectors /\ DOMAIN copy = DOMAIN was
    BY <2>1 DEF CapValues, IabValues
  <2>3. \A x \in DOMAIN was : was[x] \subseteq Words /\ copy[x] \subseteq Words
    BY <2>1 DEF CapValues, IabValues
  <2>4. \A w \in Words : WordSeen(k, was, copy, w)
                           = {x \in DOMAIN was : w \in was[x] <=> w \notin copy[x]}
    BY <1>1, WordSeenCases
  <2>5. \A x \in DOMAIN was :
           was[x] # copy[x] <=> \E w \in Words : w \in was[x] <=> w \notin copy[x]
    BY <2>3
  <2>6. Finds(k, was, copy) = {x \in DOMAIN was : was[x] # copy[x]}
    BY <1>1, WordSeenCases
  <2>7. ASSUME NEW x \in DOMAIN was
        PROVE  x \in found <=> \E w \in Words : w \in was[x] <=> w \notin copy[x]
    BY <2>2, <2>4
  <2>8. found \subseteq DOMAIN was BY <2>4
  <2> QED BY <2>5, <2>6, <2>7, <2>8
<1>2. CASE k.op \in Reading
  <2>1. was \in CapValues \/ was \in IabValues BY <1>2, GoodObjects DEF Fits
  <2>2. k.to \in Flags \cup Vectors BY <1>2
  <2>3. \A w \in Words : WordSeen(k, was, copy, w) = {x \in {k.to} : w \in was[x] \cap k.bits}
    BY <1>2, WordSeenCases
  <2>4. k.bits \subseteq Words OBVIOUS
  <2>5. Finds(k, was, copy) = {x \in {k.to} : was[x] \cap k.bits # {}}
    BY <1>2, WordSeenCases
  <2>6. k.to \in found <=> \E w \in Words : w \in was[k.to] \cap k.bits BY <2>2, <2>3
  <2>7. found \subseteq {k.to} BY <2>3
  <2> QED BY ZenonT(40), <2>4, <2>5, <2>6, <2>7
<1>3. CASE k.op \notin Comparing \cup Reading
  <2>1. \A w \in Words : WordSeen(k, was, copy, w) = {} BY <1>3, WordSeenCases
  <2>2. Finds(k, was, copy) = {} BY <1>3, WordSeenCases
  <2> QED BY <2>1, <2>2
<1> QED BY <1>1, <1>2, <1>3

-----------------------------------------------------------------------------
(* The invariant holds at first and after every step                       *)

LEMMA Initially == Init => Inductive
<1> SUFFICES ASSUME Init PROVE Inductive
  OBVIOUS
<1> USE CapObjectsAssumption
<1>1. \A o \in Objects : Fits(val[o], o) /\ val[o] \in AnyValue
  <2> SUFFICES ASSUME NEW o \in Objects PROVE Fits(val[o], o) /\ val[o] \in AnyValue
    OBVIOUS
  <2>1. val[o] = Blank(o) BY DEF Init
  <2>2. CASE o \in CapTs
    BY <2>1, <2>2, BlankCases DEF Fits, AnyValue, CapValues
  <2>3. CASE o \in IabTs
    BY <2>1, <2>3, BlankCases DEF Fits, AnyValue, IabValues
  <2>4. CASE o \in Launchers
    BY <2>1, <2>4, BlankCases DEF Fits, AnyValue, LauncherValues
  <2> QED BY <2>2, <2>3, <2>4 DEF Objects
<1>2. \A l \in Launchers : val[l].iab = {}
  BY BlankCases DEF Init, Objects
<1>3. ObjectInv BY <1>1, <1>2 DEF Init, ObjectInv
<1>4. \A t \in Threads : fr[t] = Idle BY DEF Init
<1>5. Idle \in Frames BY DEF Idle, Frames, Labels
<1>6. CallInv BY <1>4, <1>5 DEF Init, CallInv, Idle
<1>7. \A t \in Threads : fr[t].pc = "idle" BY <1>4 DEF Idle
<1>8. HolderInv BY <1>2, <1>7 DEF Init, HolderInv, Holds, HeldFor
<1>9. LoopInv BY <1>7 DEF LoopInv, InLoop, CopyInv, WorkInv
<1> QED BY <1>3, <1>6, <1>8, <1>9 DEF Inductive

(* A step leaves a call as it was when it leaves the call's frame and the  *)
(* objects the call has come to.                                           *)
LEMMA Undisturbed ==
  ASSUME NEW u \in Threads, fr[u].pc # "idle" => InCall(u), InLoop(u), fr'[u] = fr[u],
         fr[u].pc # "idle" => /\ fr[u].call.ref \in live'
                              /\ fr[u].call.tgt \in live' <=> fr[u].call.tgt \in live,
         fr[u].pc = "copy" => val'[fr[u].call.ref] = val[fr[u].call.ref],
         fr[u].pc \in {"work", "own"} => val'[fr[u].call.tgt] = val[fr[u].call.tgt]
  PROVE  (fr[u].pc # "idle" => InCall(u))' /\ InLoop(u)'
<1>1. (fr[u].pc # "idle" => InCall(u))' BY DEF InCall
<1>2. CopyInv(u)' BY DEF InLoop, CopyInv
<1>3. WorkInv(u)' BY DEF InLoop, WorkInv
<1> QED BY <1>1, <1>2, <1>3 DEF InLoop

(* The updates of a frame the actions make keep its type. *)
LEMMA FrameGoes ==
  ASSUME NEW f \in Frames, NEW pc \in Labels, NEW word \in 0 .. NWords
  PROVE  [f EXCEPT !.pc = pc, !.word = word] \in Frames
BY DEF Frames

LEMMA FrameFinds ==
  ASSUME NEW f \in Frames, NEW word \in 0 .. NWords,
         NEW found \in SUBSET (Flags \cup Vectors)
  PROVE  [f EXCEPT !.word = word, !.found = found] \in Frames
BY DEF Frames

LEMMA FrameKeeps ==
  ASSUME NEW f \in Frames, NEW pc \in Labels, NEW word \in 0 .. NWords, NEW v \in AnyValue
  PROVE  [f EXCEPT !.pc = pc, !.word = word, !.was = v] \in Frames
BY DEF Frames

LEMMA IdleFrame ==
  ASSUME NEW f \in Frames PROVE [Idle EXCEPT !.n = f.n] \in Frames
BY CapObjectsAssumption DEF Frames, Idle, Labels

(* Who holds what is a matter of the frames and of what launchers own. *)
LEMMA SameHolders ==
  ASSUME HolderInv, mu' = mu,
         \A u \in Threads, o \in Objects : Holds(u, o)' <=> Holds(u, o),
         \A l \in Launchers, o \in Objects : HeldFor(l, o)' <=> HeldFor(l, o)
  PROVE  HolderInv'
BY DEF HolderInv

LEMMA CallStep == ASSUME Inductive, NEW t \in Threads, Call(t) PROVE Inductive'
<1> USE DEF Inductive
<1>1. PICK k \in Calls :
        /\ Callable(k)
        /\ fr' = [fr EXCEPT ![t] = [Idle EXCEPT !.n = fr[t].n + 1,
                  !.call = IF Good(k) THEN k ELSE @,
                  !.pc = IF ~ Good(k) THEN "idle"
                         ELSE IF k.op \in Copying THEN "lock_ref" ELSE "lock"]]
  BY DEF Call
<1>2. UNCHANGED <<live, mu, val>> /\ fr[t].pc = "idle" /\ fr[t].n < MaxCalls BY DEF Call
<1>3. fr \in [Threads -> Frames] /\ fr[t].n \in 0 .. MaxCalls
  BY DEF CallInv, Frames
<1>4. /\ fr'[t].pc = IF ~ Good(k) THEN "idle"
                     ELSE IF k.op \in Copying THEN "lock_ref" ELSE "lock"
      /\ fr'[t].call = IF Good(k) THEN k ELSE <<>>
      /\ fr'[t].word = 0 /\ fr'[t].found = {}
  BY <1>1, <1>3 DEF Idle
<1>5. \A u \in Threads \ {t} : fr'[u] = fr[u] BY <1>1, <1>3
<1>6. ObjectInv' BY <1>2 DEF ObjectInv
<1>7. Good(k) => fr'[t].pc \in {"lock_ref", "lock"} /\ InCall(t)'
  <2> SUFFICES ASSUME Good(k) PROVE fr'[t].pc \in {"lock_ref", "lock"} /\ InCall(t)'
    OBVIOUS
  <2>1. /\ fr'[t].call = k
        /\ fr'[t].pc = IF k.op \in Copying THEN "lock_ref" ELSE "lock"
    BY <1>4
  <2>2. /\ k.ref \in live
        /\ k.op \in Duplicating => k.tgt \notin live
        /\ k.op \notin Duplicating => k.tgt \in live
    BY <1>1 DEF Callable
  <2> QED BY <1>2, <2>1, <2>2 DEF InCall
<1>8. \A u \in Threads : (fr[u].pc # "idle" => InCall(u))' /\ InLoop(u)'
  <2>1. (fr[t].pc # "idle" => InCall(t))' /\ InLoop(t)'
    <3>1. (fr[t].pc # "idle" => InCall(t))' BY <1>4, <1>7
    <3>2. InLoop(t)'
      <4>1. CASE k.op \in Copying BY <1>4, <4>1 DEF InLoop, CopyInv, WorkInv
      <4>2. CASE k.op \notin Copying BY <1>4, <4>2 DEF InLoop, CopyInv, WorkInv
      <4> QED BY <4>1, <4>2
    <3> QED BY <3>1, <3>2
  <2>2. ASSUME NEW u \in Threads \ {t}
        PROVE  (fr[u].pc # "idle" => InCall(u))' /\ InLoop(u)'
    <3>1. fr[u].pc # "idle" => fr[u].call.ref \in live BY DEF CallInv, InCall
    <3> QED BY <1>2, <1>5, <3>1, Undisturbed DEF CallInv, LoopInv
  <2> QED BY <2>1, <2>2
<1>9. CallInv'
  <2>1. fr' \in [Threads -> Frames]
    <3>1. fr[t].n + 1 \in 0 .. MaxCalls BY <1>2, <1>3, CapObjectsAssumption
    <3>2. Idle \in Frames BY CapObjectsAssumption DEF Idle, Frames, Labels
    <3>3. ASSUME NEW n \in 0 .. MaxCalls, NEW pc \in Labels, NEW c \in Calls \cup {<<>>}
          PROVE  [Idle EXCEPT !.n = n, !.call = c, !.pc = pc] \in Frames
      BY <3>2 DEF Frames
    <3>4. CASE Good(k)
      <4>1. fr' = [fr EXCEPT ![t] = [Idle EXCEPT !.n = fr[t].n + 1, !.call = k,
                            !.pc = IF k.op \in Copying THEN "lock_ref" ELSE "lock"]]
        BY <1>1, <3>4
      <4> QED BY <1>3, <3>1, <3>3, <4>1 DEF Labels
    <3>5. CASE ~ Good(k)
      <4>1. fr' = [fr EXCEPT ![t] = [Idle EXCEPT !.n = fr[t].n + 1, !.call = <<>>,
                            !.pc = "idle"]]
        BY <1>1, <3>5 DEF Idle
      <4> QED BY <1>3, <3>1, <3>3, <4>1 DEF Labels
    <3> QED BY <3>4, <3>5
  <2>2. ASSUME NEW u \in Threads, NEW v \in Threads, u # v, fr'[u].pc # "idle",
               fr'[v].pc # "idle", fr'[u].call.op \in Duplicating
        PROVE  fr'[v].call.tgt # fr'[u].call.tgt
    <3>1. CASE u # t /\ v # t BY <1>5, <2>2, <3>1 DEF CallInv
    <3>2. CASE u = t /\ v # t
      <4>1. k.op \in Duplicating /\ fr'[u].call = k BY <1>4, <2>2, <3>2
      <4>2. ~ InUse(k.tgt) BY <1>1, <4>1 DEF Callable
      <4>3. fr[v].call.tgt # k.tgt BY <1>5, <2>2, <3>2, <4>2 DEF InUse, call
      <4> QED BY <1>5, <3>2, <4>1, <4>3
    <3>3. CASE v = t /\ u # t
      <4>1. fr'[v].call = k /\ Callable(k) BY <1>1, <1>4, <2>2, <3>3
      <4>2. fr[u].call.op \in Duplicating /\ fr[u].pc # "idle" /\ fr[u].call.tgt \notin live
        BY <1>5, <2>2, <3>3 DEF CallInv, InCall
      <4>3. k.op \in Duplicating => ~ InUse(k.tgt) BY <4>1 DEF Callable
      <4>4. k.op \notin Duplicating => k.tgt \in live BY <4>1 DEF Callable
      <4> QED BY <1>5, <3>3, <4>1, <4>2, <4>3, <4>4 DEF InUse, call
    <3> QED BY <2>2, <3>1, <3>2, <3>3
  <2> QED BY <1>8, <2>1, <2>2 DEF CallInv
<1>10. HolderInv'
  <2>1. \A u \in Threads, o \in Objects : Holds(u, o)' <=> Holds(u, o)
    BY <1>2, <1>4, <1>5 DEF Holds, call
  <2>2. \A l \in Launchers, o \in Objects : HeldFor(l, o)' <=> HeldFor(l, o)
    BY <1>2, <1>4, <1>5 DEF HeldFor, call
  <2> QED BY <1>2, <2>1, <2>2, SameHolders
<1>11. LoopInv' BY <1>8 DEF LoopInv
<1> QED BY <1>6, <1>9, <1>10, <1>11

(* Facts about the threads other than the one that steps, and about their  *)
(* calls, that every step needs.                                           *)
LEMMA ObjectsOfCall ==
  ASSUME ObjectInv, CallInv, NEW u \in Threads, fr[u].pc # "idle"
  PROVE  /\ fr[u].call \in Calls /\ Good(fr[u].call)
         /\ fr[u].call.ref \in live /\ fr[u].call.ref \in Objects
         /\ fr[u].call.tgt \in Objects
         /\ fr[u].pc \in {"copy", "lock_ref", "result"} =>
               fr[u].call.op \in Copying /\ fr[u].call.ref \in CapTs \cup IabTs
         /\ fr[u].pc \in {"work", "result"} => fr[u].call.tgt \in CapTs \cup IabTs
         /\ fr[u].pc = "own" => fr[u].call.tgt \in Launchers
<1>1. InCall(u) BY DEF CallInv
<1>2. /\ fr[u].call \in Calls /\ Good(fr[u].call)
      /\ fr[u].call.ref \in live /\ fr[u].call.ref \in Objects
  BY <1>1 DEF InCall, ObjectInv
<1>3. fr[u].call.op \in OnCaps \cup OnIabs \cup {SetIab} BY <1>2, CallsAssumption
<1>4. /\ fr[u].call.op \in OnCaps => fr[u].call.tgt \in CapTs
      /\ fr[u].call.op \in OnIabs => fr[u].call.tgt \in IabTs
      /\ fr[u].call.op = SetIab => fr[u].call.tgt \in Launchers
      /\ fr[u].call.op \in Copying => fr[u].call.ref \in CapTs \cup IabTs
  BY <1>2, GoodObjects
<1> QED BY <1>1, <1>2, <1>3, <1>4 DEF InCall, Objects

LEMMA AllocateStep ==
  ASSUME Inductive, NEW t \in Threads, NEW o \in Objects, Allocate(t, o) PROVE Inductive'
<1> USE DEF Inductive
<1>1. /\ fr[t].pc = "idle" /\ fr[t].n < MaxCalls /\ o \notin live /\ ~ InUse(o)
      /\ live' = live \cup {o} /\ UNCHANGED <<mu, val>>
      /\ fr' = [fr EXCEPT ![t].n = @ + 1]
  BY DEF Allocate
<1>2. fr \in [Threads -> Frames] BY DEF CallInv
<1>3. /\ fr' \in [Threads -> Frames]
      /\ \A u \in Threads \ {t} : fr'[u] = fr[u]
      /\ fr'[t].pc = "idle"
  BY SMTT(30), <1>1, <1>2, CapObjectsAssumption DEF Frames
<1>4. ObjectInv' BY <1>1 DEF ObjectInv
<1>5. \A u \in Threads : (fr[u].pc # "idle" => InCall(u))' /\ InLoop(u)'
  <2>1. (fr[t].pc # "idle" => InCall(t))' /\ InLoop(t)'
    BY <1>3 DEF InLoop, CopyInv, WorkInv
  <2>2. ASSUME NEW u \in Threads \ {t}
        PROVE  (fr[u].pc # "idle" => InCall(u))' /\ InLoop(u)'
    <3>1. fr[u].pc # "idle" => fr[u].call.ref \in live BY ObjectsOfCall
    <3>2. fr[u].pc # "idle" => fr[u].call.tgt # o BY <1>1 DEF InUse, call
    <3> QED BY <1>1, <1>3, <3>1, <3>2, Undisturbed DEF CallInv, LoopInv
  <2> QED BY <2>1, <2>2
<1>6. CallInv' BY <1>3, <1>5 DEF CallInv
<1>7. HolderInv'
  <2>1. \A u \in Threads, x \in Objects : Holds(u, x)' <=> Holds(u, x)
    BY <1>1, <1>3 DEF Holds, call
  <2>2. \A l \in Launchers, x \in Objects : HeldFor(l, x)' <=> HeldFor(l, x)
    BY <1>1, <1>3 DEF HeldFor, call
  <2> QED BY <1>1, <2>1, <2>2, SameHolders
<1>8. LoopInv' BY <1>5 DEF LoopInv
<1> QED BY <1>4, <1>6, <1>7, <1>8

LEMMA FreeStep ==
  ASSUME Inductive, NEW t \in Threads, NEW o \in Objects, Free(t, o) PROVE Inductive'
<1> USE DEF Inductive
<1>1. /\ fr[t].pc = "idle" /\ fr[t].n < MaxCalls
      /\ o \in live /\ o \notin Owned /\ \A x \in Freed(o) : ~ InUse(x)
      /\ live' = live \ Freed(o)
      /\ mu' = [x \in Objects |-> mu[x] /\ x \notin Freed(o)]
      /\ val' = [x \in Objects |-> IF x \in Freed(o) THEN Blank(x) ELSE val[x]]
      /\ fr' = [fr EXCEPT ![t].n = @ + 1]
  BY DEF Free
<1>2. fr \in [Threads -> Frames] BY DEF CallInv
<1>3. /\ fr' \in [Threads -> Frames]
      /\ \A u \in Threads \ {t} : fr'[u] = fr[u]
      /\ fr'[t].pc = "idle"
  <2>1. fr[t].pc = "idle" /\ fr[t].n < MaxCalls /\ fr' = [fr EXCEPT ![t].n = @ + 1]
    BY <1>1
  <2>2. fr[t].n + 1 \in 0 .. MaxCalls BY <1>2, <2>1, CapObjectsAssumption DEF Frames
  <2>3. [fr[t] EXCEPT !.n = fr[t].n + 1] \in Frames BY <1>2, <2>2 DEF Frames
  <2> QED BY <1>2, <2>1, <2>3
<1>4. \A u \in Threads : fr[u].pc # "idle" =>
         fr[u].call.ref \notin Freed(o) /\ fr[u].call.tgt \notin Freed(o)
  BY <1>1 DEF InUse, call
<1>5. /\ o \in Freed(o)
      /\ o \in Launchers => \A x \in Freed(o) \ {o} : x \in IabTs /\ x \in val[o].iab
      /\ o \notin Launchers => Freed(o) = {o}
      /\ o \in Launchers => val[o].iab \subseteq Freed(o)
  BY DEF Freed, ObjectInv, Fits, LauncherValues
<1>6. \A l \in Launchers \ {o} : val'[l] = val[l]
  BY <1>1, <1>5, CapObjectsAssumption DEF Objects
<1>7. o \in Launchers => val'[o].iab = {}
  BY <1>1, <1>5, BlankCases
(* A launcher other than o has nothing of what goes with o. *)
<1>8. ASSUME NEW l \in Launchers \ {o}, NEW x \in val[l].iab PROVE x \notin Freed(o)
  <2> SUFFICES ASSUME x \in Freed(o) PROVE FALSE
    OBVIOUS
  <2>1. x # o BY <1>1 DEF Owned
  <2>2. o \in Launchers /\ x \in val[o].iab /\ x \in IabTs /\ x \in Objects
    BY <1>5, <2>1 DEF Objects
  <2>3. HeldFor(o, x) BY <1>1, <1>5, <2>2 DEF HeldFor, InUse, call
  <2>4. HeldFor(l, x)
    <3> SUFFICES ASSUME NEW u \in Threads, fr[u].pc = "own", call(u).tgt = l PROVE FALSE
      BY DEF HeldFor
    <3>1. x = fr[u].call.ref BY DEF CallInv, InCall, call
    <3> QED BY <1>4, <3>1
  <2> QED BY <2>2, <2>3, <2>4 DEF HolderInv
<1>9. ObjectInv'
  <2>1. ASSUME NEW x \in Objects PROVE val'[x] \in AnyValue /\ Fits(val'[x], x)
    <3>1. CASE x \notin Freed(o) BY <1>1, <3>1 DEF ObjectInv
    <3>2. CASE x \in Freed(o)
      <4>1. val'[x] = Blank(x) BY <1>1, <3>2
      <4>2. CASE x \in CapTs
        BY <4>1, <4>2, BlankCases, CapObjectsAssumption DEF Fits, AnyValue, CapValues
      <4>3. CASE x \in IabTs
        BY <4>1, <4>3, BlankCases, CapObjectsAssumption DEF Fits, AnyValue, IabValues
      <4>4. CASE x \in Launchers
        BY <4>1, <4>4, BlankCases, CapObjectsAssumption DEF Fits, AnyValue, LauncherValues
      <4> QED BY <4>2, <4>3, <4>4 DEF Objects
    <3> QED BY <3>1, <3>2
  <2>2. \A l \in Launchers : val'[l].iab \subseteq live'
    BY <1>1, <1>6, <1>7, <1>8 DEF ObjectInv
  <2>3. mu' \in [Objects -> BOOLEAN] BY <1>1
  <2>4. val' \in [Objects -> AnyValue] BY <1>1, <2>1
  <2> QED BY <1>1, <2>1, <2>2, <2>3, <2>4 DEF ObjectInv
<1>10. \A u \in Threads : (fr[u].pc # "idle" => InCall(u))' /\ InLoop(u)'
  <2>1. (fr[t].pc # "idle" => InCall(t))' /\ InLoop(t)'
    BY <1>3 DEF InLoop, CopyInv, WorkInv
  <2>2. ASSUME NEW u \in Threads \ {t}
        PROVE  (fr[u].pc # "idle" => InCall(u))' /\ InLoop(u)'
    <3>1. fr[u].pc # "idle" => /\ fr[u].call.ref \in live /\ fr[u].call.ref \in Objects
                               /\ fr[u].call.tgt \in Objects
      BY ObjectsOfCall
    <3> QED BY <1>1, <1>3, <1>4, <3>1, Undisturbed DEF CallInv, LoopInv
  <2> QED BY <2>1, <2>2
<1>11. CallInv' BY <1>3, <1>10 DEF CallInv
<1>12. HolderInv'
  <2>1. \A u \in Threads, x \in Objects : Holds(u, x)' <=> Holds(u, x)
    BY <1>1, <1>3 DEF Holds, call
  <2>2. \A u \in Threads, x \in Objects : Holds(u, x) => x \notin Freed(o)
    BY <1>4 DEF Holds, call
  <2>3. \A l \in Launchers, x \in Objects : HeldFor(l, x)' <=> HeldFor(l, x) /\ l # o
    BY <1>1, <1>3, <1>6, <1>7 DEF HeldFor, call
  <2>4. \A l \in Launchers, x \in Objects : HeldFor(l, x) /\ l # o => x \notin Freed(o)
    BY <1>8 DEF HeldFor
  <2>5. \A x \in Objects : HeldFor(o, x) /\ o \in Launchers => x \in Freed(o)
    BY <1>5 DEF HeldFor
  <2>6. \A x \in Objects : mu'[x] <=> mu[x] /\ x \notin Freed(o) BY <1>1
  <2> HIDE DEF Inductive
  <2>7. HolderInv BY DEF Inductive
  <2> QED BY <2>1, <2>2, <2>3, <2>4, <2>5, <2>6, <2>7 DEF HolderInv
<1>13. LoopInv' BY <1>10 DEF LoopInv
<1> QED BY <1>9, <1>11, <1>12, <1>13

-----------------------------------------------------------------------------
(* A thread t takes or releases the mutex of an object o. *)
LEMMA Acquire ==
  ASSUME HolderInv, mu \in [Objects -> BOOLEAN], NEW t \in Threads, NEW o \in Objects,
         ~ mu[o], mu' = [mu EXCEPT ![o] = TRUE],
         \A u \in Threads, x \in Objects : Holds(u, x)' <=> Holds(u, x) \/ (u = t /\ x = o),
         \A l \in Launchers, x \in Objects : HeldFor(l, x)' <=> HeldFor(l, x)
  PROVE  HolderInv'
<1>1. \A x \in Objects : mu'[x] <=> mu[x] \/ x = o OBVIOUS
<1> QED BY <1>1 DEF HolderInv

LEMMA Release ==
  ASSUME HolderInv, mu \in [Objects -> BOOLEAN], NEW t \in Threads, NEW o \in Objects,
         Holds(t, o), mu' = [mu EXCEPT ![o] = FALSE],
         \A u \in Threads, x \in Objects : Holds(u, x)' <=> Holds(u, x) /\ ~ (u = t /\ x = o),
         \A l \in Launchers, x \in Objects : HeldFor(l, x)' <=> HeldFor(l, x)
  PROVE  HolderInv'
<1>1. \A x \in Objects : mu'[x] <=> mu[x] /\ x # o OBVIOUS
<1> QED BY <1>1 DEF HolderInv

LEMMA LockRefStep == ASSUME Inductive, NEW t \in Threads, LockRef(t) PROVE Inductive'
<1> USE DEF Inductive
<1> DEFINE o == fr[t].call.ref
<1>1. /\ fr[t].pc = "lock_ref" /\ ~ mu[o]
      /\ mu' = [mu EXCEPT ![o] = TRUE]
      /\ fr' = [fr EXCEPT ![t].pc = "copy", ![t].copy = Blank(o)]
      /\ UNCHANGED <<live, val>>
  BY DEF LockRef, call
<1>2. fr \in [Threads -> Frames] /\ InCall(t) /\ InLoop(t) BY <1>1 DEF CallInv, LoopInv
<1>3. /\ o \in CapTs \cup IabTs /\ o \in Objects /\ fr[t].call.op \in Copying
  BY <1>1, ObjectsOfCall
<1>4. Fits(Blank(o), o) /\ Blank(o) \in AnyValue
  BY <1>3, BlankCases, CapObjectsAssumption DEF Fits, AnyValue, CapValues, IabValues
<1>5. /\ \A u \in Threads \ {t} : fr'[u] = fr[u]
      /\ fr'[t].pc = "copy" /\ fr'[t].copy = Blank(o) /\ fr'[t].call = fr[t].call
      /\ fr'[t].word = fr[t].word /\ fr'[t].found = fr[t].found
      /\ fr' \in [Threads -> Frames]
  <2>1. [fr[t] EXCEPT !.pc = "copy", !.copy = Blank(o)] \in Frames
    BY <1>2, <1>4 DEF Frames, Labels
  <2> HIDE DEF Inductive, o
  <2> QED BY <1>1, <1>2, <2>1 DEF Frames
<1>6. ObjectInv' BY <1>1, <1>3 DEF ObjectInv
<1>7. \A u \in Threads : (fr[u].pc # "idle" => InCall(u))' /\ InLoop(u)'
  <2>1. InCall(t)' BY <1>1, <1>2, <1>5 DEF InCall
  <2>2. InLoop(t)'
    <3>1. fr[t].word = 0 /\ fr[t].found = {} BY <1>1, <1>2 DEF InLoop
    <3>2. \A x \in DOMAIN val[o] : Blank(o)[x] = {}
      <4>1. DOMAIN val[o] = DOMAIN Blank(o)
        BY <1>3, BlankCases DEF ObjectInv, Fits, CapValues, IabValues
      <4> QED BY <1>3, <4>1, BlankCases
    <3>3. CopyInv(t)' BY <1>1, <1>5, <3>1, <3>2 DEF CopyInv
    <3> QED BY <1>3, <1>4, <1>5, <3>1, <3>3 DEF InLoop, WorkInv
  <2>3. ASSUME NEW u \in Threads \ {t}
        PROVE  (fr[u].pc # "idle" => InCall(u))' /\ InLoop(u)'
    <3>1. fr[u].pc # "idle" => fr[u].call.ref \in live BY ObjectsOfCall
    <3> QED BY <1>1, <1>5, <3>1, Undisturbed DEF CallInv, LoopInv
  <2> QED BY <2>1, <2>2, <2>3
<1>8. CallInv' BY <1>1, <1>5, <1>7 DEF CallInv
<1>9. HolderInv'
  <2>1. \A u \in Threads, x \in Objects : Holds(u, x)' <=> Holds(u, x) \/ (u = t /\ x = o)
    BY <1>1, <1>5 DEF Holds, call
  <2>2. \A l \in Launchers, x \in Objects : HeldFor(l, x)' <=> HeldFor(l, x)
    BY <1>1, <1>5 DEF HeldFor, call
  <2> QED BY <1>1, <1>3, <2>1, <2>2, Acquire DEF ObjectInv
<1>10. LoopInv' BY <1>7 DEF LoopInv
<1> QED BY <1>6, <1>8, <1>9, <1>10

LEMMA CopyWordStep == ASSUME Inductive, NEW t \in Threads, CopyWord(t) PROVE Inductive'
<1> USE DEF Inductive
<1> DEFINE o == fr[t].call.ref
           u0 == val[o]
           w == fr[t].word
           c == [x \in DOMAIN u0 |-> fr[t].copy[x] \cup (u0[x] \cap {w})]
<1>1. /\ fr[t].pc = "copy" /\ fr[t].word < NWords
      /\ fr' = [fr EXCEPT ![t].word = w + 1, ![t].copy = c]
      /\ UNCHANGED <<live, mu, val>>
  BY DEF CopyWord, call
<1>2. fr \in [Threads -> Frames] /\ InCall(t) /\ InLoop(t) BY <1>1 DEF CallInv, LoopInv
<1>3. o \in CapTs \cup IabTs /\ o \in Objects /\ fr[t].call.op \in Copying
  BY <1>1, ObjectsOfCall
<1>4. /\ w \in Nat /\ w \in Words /\ w + 1 \in 0 .. NWords
      /\ Fits(fr[t].copy, o) /\ Fits(u0, o)
      /\ \A x \in DOMAIN u0 : fr[t].copy[x] = u0[x] \cap (0 .. w - 1)
  <2>1. w \in 0 .. NWords BY <1>2 DEF Frames
  <2>2. Fits(fr[t].copy, o) /\ CopyInv(t) BY <1>1, <1>2, <1>3 DEF InLoop
  <2>3. Fits(u0, o) BY <1>3 DEF ObjectInv
  <2> QED BY <1>1, <2>1, <2>2, <2>3, CapObjectsAssumption DEF CopyInv
<1>5. \A x \in DOMAIN u0 : c[x] = u0[x] \cap (0 .. w)
  <2> SUFFICES ASSUME NEW x \in DOMAIN u0 PROVE c[x] = u0[x] \cap (0 .. w)
    OBVIOUS
  <2>1. c[x] = (u0[x] \cap (0 .. w - 1)) \cup (u0[x] \cap {w}) BY <1>4
  <2>2. (0 .. w - 1) \cup {w} = 0 .. w BY <1>4
  <2> QED BY <2>1, <2>2
<1>6. Fits(c, o) /\ c \in AnyValue
  <2>1. CASE o \in CapTs
    <3>1. u0 \in CapValues BY <1>4, <2>1 DEF Fits
    <3>2. c \in CapValues BY ZenonT(40), <1>5, <3>1 DEF CapValues
    <3> QED BY <2>1, <3>2, CapObjectsAssumption DEF Fits, AnyValue
  <2>2. CASE o \in IabTs
    <3>1. u0 \in IabValues BY <1>4, <2>2 DEF Fits
    <3>2. c \in [Vectors -> SUBSET Words] BY ZenonT(40), <1>5, <3>1 DEF IabValues
    <3>3. c["a"] \subseteq c["i"]
      <4>1. c["a"] = u0["a"] \cap (0 .. w) /\ c["i"] = u0["i"] \cap (0 .. w)
        BY <1>5, <3>1 DEF IabValues
      <4> HIDE DEF c, u0
      <4> QED BY <3>1, <4>1 DEF IabValues
    <3>4. c \in IabValues BY <3>2, <3>3 DEF IabValues
    <3> QED BY <2>2, <3>4, CapObjectsAssumption DEF Fits, AnyValue
  <2> QED BY <1>3, <2>1, <2>2
<1>7. /\ \A u \in Threads \ {t} : fr'[u] = fr[u]
      /\ fr'[t].pc = "copy" /\ fr'[t].copy = c /\ fr'[t].call = fr[t].call
      /\ fr'[t].word = w + 1 /\ fr'[t].found = fr[t].found
      /\ fr' \in [Threads -> Frames]
  <2>1. [fr[t] EXCEPT !.word = w + 1, !.copy = c] \in Frames
    BY <1>2, <1>4, <1>6 DEF Frames
  <2> HIDE DEF Inductive, c, w
  <2> QED BY <1>1, <1>2, <2>1 DEF Frames
<1>8. ObjectInv' BY <1>1 DEF ObjectInv
<1>9. \A u \in Threads : (fr[u].pc # "idle" => InCall(u))' /\ InLoop(u)'
  <2>1. InCall(t)'
    <3>1. /\ fr'[t].call = fr[t].call /\ fr'[t].pc = fr[t].pc
          /\ live' = live /\ val' = val
      BY <1>1, <1>7
    <3> HIDE DEF Inductive
    <3> QED BY <1>2, <3>1 DEF InCall
  <2>2. InLoop(t)'
    <3>1. fr[t].found = {} BY <1>1, <1>2 DEF InLoop
    <3>3. CopyInv(t)'
      <4> HIDE DEF c, w
      <4>0. val' = val /\ fr'[t].call = fr[t].call BY <1>1, <1>7
      <4>1. val'[fr'[t].call.ref] = u0 BY <4>0
      <4>2. fr'[t].copy = c /\ fr'[t].word - 1 = w BY <1>4, <1>7
      <4> HIDE DEF u0
      <4> QED BY <1>5, <4>1, <4>2 DEF CopyInv
    <3> QED BY <1>6, <1>7, <3>1, <3>3 DEF InLoop, WorkInv
  <2>3. ASSUME NEW u \in Threads \ {t}
        PROVE  (fr[u].pc # "idle" => InCall(u))' /\ InLoop(u)'
    <3>1. fr[u].pc # "idle" => fr[u].call.ref \in live BY ObjectsOfCall
    <3> QED BY <1>1, <1>7, <3>1, Undisturbed DEF CallInv, LoopInv
  <2> QED BY <2>1, <2>2, <2>3
<1>10. CallInv'
  <2>1. \A u \in Threads : /\ fr'[u].call = fr[u].call
                           /\ fr'[u].pc # "idle" <=> fr[u].pc # "idle"
    BY <1>1, <1>7
  <2> HIDE DEF c, w
  <2> QED BY <1>7, <1>9, <2>1 DEF CallInv
<1>11. HolderInv'
  <2>1. \A u \in Threads, x \in Objects : Holds(u, x)' <=> Holds(u, x)
    BY <1>1, <1>7 DEF Holds, call
  <2>2. \A l \in Launchers, x \in Objects : HeldFor(l, x)' <=> HeldFor(l, x)
    BY <1>1, <1>7 DEF HeldFor, call
  <2> QED BY <1>1, <2>1, <2>2, SameHolders
<1>12. LoopInv' BY <1>9 DEF LoopInv
<1> QED BY <1>8, <1>10, <1>11, <1>12

(* At the end of the copy loop the copy is the second object. *)
LEMMA CopyComplete ==
  ASSUME Inductive, NEW t \in Threads, fr[t].pc = "copy", fr[t].word = NWords
  PROVE  fr[t].copy = val[fr[t].call.ref]
<1> USE DEF Inductive
<1> DEFINE o == fr[t].call.ref
           c == fr[t].copy
<1>1. o \in CapTs \cup IabTs /\ o \in Objects /\ fr[t].call.op \in Copying
  BY ObjectsOfCall
<1>2. Fits(c, o) /\ Fits(val[o], o) BY <1>1 DEF LoopInv, InLoop, ObjectInv
<1>3. \A x \in DOMAIN val[o] : c[x] = val[o][x] \cap (0 .. NWords - 1)
  BY DEF LoopInv, InLoop, CopyInv
<1> SUFFICES c = val[o]
  OBVIOUS
<1> HIDE DEF c, o, Inductive
<1>4. CASE o \in CapTs
  <2>1. c \in CapValues /\ val[o] \in CapValues BY <1>2, <1>4 DEF Fits
  <2>2. \A x \in Flags : val[o][x] \subseteq 0 .. NWords - 1 BY <2>1 DEF CapValues
  <2>3. \A x \in Flags : c[x] = val[o][x] BY <1>3, <2>1, <2>2 DEF CapValues
  <2> QED BY <2>1, <2>3 DEF CapValues
<1>5. CASE o \in IabTs
  <2>1. c \in IabValues /\ val[o] \in IabValues BY <1>2, <1>5 DEF Fits
  <2>2. \A x \in Vectors : val[o][x] \subseteq 0 .. NWords - 1 BY <2>1 DEF IabValues
  <2>3. \A x \in Vectors : c[x] = val[o][x] BY <1>3, <2>1, <2>2 DEF IabValues
  <2> QED BY <2>1, <2>3 DEF IabValues
<1> QED BY <1>1, <1>4, <1>5

LEMMA UnlockRefStep == ASSUME Inductive, NEW t \in Threads, UnlockRef(t) PROVE Inductive'
<1> USE DEF Inductive
<1> DEFINE o == fr[t].call.ref
           pc == IF fr[t].call.op \in Duplicating THEN "result" ELSE "lock"
<1>1. /\ fr[t].pc = "copy" /\ fr[t].word = NWords
      /\ mu' = [mu EXCEPT ![o] = FALSE]
      /\ fr' = [fr EXCEPT ![t].pc = pc, ![t].word = 0]
      /\ UNCHANGED <<live, val>>
  BY DEF UnlockRef, Goes, call
<1>2. fr \in [Threads -> Frames] /\ InCall(t) /\ InLoop(t) BY <1>1 DEF CallInv, LoopInv
<1>3. o \in CapTs \cup IabTs /\ o \in Objects /\ fr[t].call.op \in Copying
  BY <1>1, ObjectsOfCall
<1>4. /\ \A u \in Threads \ {t} : fr'[u] = fr[u]
      /\ fr'[t].pc = pc /\ fr'[t].copy = fr[t].copy /\ fr'[t].call = fr[t].call
      /\ fr'[t].found = fr[t].found
      /\ fr' \in [Threads -> Frames]
  <2>0. pc \in Labels BY DEF Labels
  <2> HIDE DEF Inductive, pc
  <2>1. fr[t] \in Frames /\ 0 \in 0 .. NWords BY <1>2, CapObjectsAssumption
  <2>2. [fr[t] EXCEPT !.pc = pc, !.word = 0] \in Frames
    BY <2>0, <2>1, FrameGoes
  <2> QED BY <1>1, <1>2, <2>2 DEF Frames
<1>5. ObjectInv' BY <1>1, <1>3 DEF ObjectInv
<1>6. \A u \in Threads : (fr[u].pc # "idle" => InCall(u))' /\ InLoop(u)'
  <2>1. InCall(t)'
    <3>1. /\ fr'[t].call = fr[t].call /\ live' = live /\ val' = val
          /\ fr'[t].pc = IF fr[t].call.op \in Duplicating THEN "result" ELSE "lock"
      BY <1>1, <1>4
    <3> HIDE DEF Inductive, pc
    <3> QED BY <1>2, <1>3, <3>1 DEF InCall
  <2>2. InLoop(t)'
    <3>1. fr[t].found = {} /\ Fits(fr[t].copy, o) BY <1>1, <1>2, <1>3 DEF InLoop
    <3>2. pc \in {"result", "lock"} OBVIOUS
    <3> HIDE DEF pc
    <3> QED BY <1>4, <3>1, <3>2 DEF InLoop, CopyInv, WorkInv
  <2>3. ASSUME NEW u \in Threads \ {t}
        PROVE  (fr[u].pc # "idle" => InCall(u))' /\ InLoop(u)'
    <3>1. fr[u].pc # "idle" => fr[u].call.ref \in live BY ObjectsOfCall
    <3> QED BY <1>1, <1>4, <3>1, Undisturbed DEF CallInv, LoopInv
  <2> QED BY <2>1, <2>2, <2>3
<1>7. CallInv'
  <2>1. pc # "idle" OBVIOUS
  <2> HIDE DEF pc
  <2>2. \A u \in Threads : /\ fr'[u].call = fr[u].call
                           /\ fr'[u].pc # "idle" <=> fr[u].pc # "idle"
    BY <1>1, <1>4, <2>1
  <2> QED BY <1>4, <1>6, <2>2 DEF CallInv
<1>8. HolderInv'
  <2>0. pc \notin {"copy", "work", "own"} OBVIOUS
  <2> HIDE DEF pc
  <2>1. \A u \in Threads, x \in Objects : Holds(u, x)' <=> Holds(u, x) /\ ~ (u = t /\ x = o)
    BY <1>1, <1>4, <2>0 DEF Holds, call
  <2>2. \A l \in Launchers, x \in Objects : HeldFor(l, x)' <=> HeldFor(l, x)
    BY <1>1, <1>4, <2>0 DEF HeldFor, call
  <2>3. Holds(t, o) BY <1>1 DEF Holds, call
  <2> QED BY <1>1, <1>3, <2>1, <2>2, <2>3, Release DEF ObjectInv
<1>9. LoopInv' BY <1>6 DEF LoopInv
<1> QED BY <1>5, <1>7, <1>8, <1>9

(* Memory that is not allocated is not locked. *)
LEMMA FreeIsUnlocked ==
  ASSUME Inductive, NEW o \in Objects, o \notin live PROVE ~ mu[o]
<1> USE DEF Inductive
<1>1. ASSUME NEW u \in Threads, Holds(u, o) PROVE FALSE
  <2>1. fr[u].pc # "idle" /\ InCall(u) BY <1>1 DEF CallInv, Holds
  <2> QED BY <1>1, <2>1 DEF Holds, InCall, call
<1>2. ASSUME NEW l \in Launchers, HeldFor(l, o) PROVE FALSE
  BY <1>2 DEF HeldFor, ObjectInv
<1> QED BY <1>1, <1>2 DEF HolderInv

LEMMA DupResultStep == ASSUME Inductive, NEW t \in Threads, DupResult(t) PROVE Inductive'
<1> USE DEF Inductive
<1> DEFINE o == fr[t].call.tgt
<1>1. /\ fr[t].pc = "result"
      /\ live' = live \cup {o}
      /\ mu' = [mu EXCEPT ![o] = FALSE]
      /\ val' = [val EXCEPT ![o] = fr[t].copy]
      /\ fr' = [fr EXCEPT ![t] = [Idle EXCEPT !.n = fr[t].n]]
  BY DEF DupResult, Returns, call
<1>2. fr \in [Threads -> Frames] /\ InCall(t) /\ InLoop(t) BY <1>1 DEF CallInv, LoopInv
<1>3. /\ o \in CapTs \cup IabTs /\ o \in Objects /\ o \notin Launchers
      /\ fr[t].call.op \in Duplicating /\ o \notin live
      /\ fr[t].call \in Calls /\ Good(fr[t].call)
  <2>1. fr[t].call.op \in Duplicating /\ o \notin live BY <1>1, <1>2 DEF InCall
  <2> QED BY <1>1, <2>1, ObjectsOfCall, CapObjectsAssumption
<1>4. Fits(fr[t].copy, o) /\ fr[t].copy \in AnyValue
  <2>1. Fits(fr[t].copy, fr[t].call.ref) BY <1>1, <1>2, <1>3 DEF InLoop
  <2>2. CASE fr[t].call.op = "cap_dup"
    <3>1. o \in CapTs /\ fr[t].call.ref \in CapTs BY <1>3, <2>2, GoodObjects
    <3> QED BY <2>1, <3>1, CapObjectsAssumption DEF Fits, AnyValue
  <2>3. CASE fr[t].call.op = "cap_iab_dup"
    <3>1. o \in IabTs /\ fr[t].call.ref \in IabTs BY <1>3, <2>3, GoodObjects
    <3> QED BY <2>1, <3>1, CapObjectsAssumption DEF Fits, AnyValue
  <2> QED BY <1>3, <2>2, <2>3
<1>5. /\ \A u \in Threads \ {t} : fr'[u] = fr[u]
      /\ fr'[t].pc = "idle"
      /\ fr' \in [Threads -> Frames]
  <2>1. fr[t] \in Frames /\ [Idle EXCEPT !.n = fr[t].n] \in Frames BY <1>2, IdleFrame
  <2>2. [Idle EXCEPT !.n = fr[t].n].pc = "idle" BY DEF Idle
  <2> HIDE DEF Inductive, o
  <2> QED BY <1>1, <1>2, <2>1, <2>2
<1>6. mu \in [Objects -> BOOLEAN] /\ mu' = mu
  <2>1. ~ mu[o] BY <1>3, FreeIsUnlocked
  <2> QED BY <1>1, <2>1 DEF ObjectInv
<1>7. \A x \in Objects : val'[x] = IF x = o THEN fr[t].copy ELSE val[x]
  BY <1>1 DEF ObjectInv
<1>8. ObjectInv'
  <2>1. val' \in [Objects -> AnyValue] BY <1>1, <1>4 DEF ObjectInv
  <2>2. \A x \in Objects : Fits(val'[x], x) BY <1>4, <1>7 DEF ObjectInv
  <2>3. \A l \in Launchers : val'[l].iab \subseteq live'
    BY <1>1, <1>3, <1>7 DEF ObjectInv, Objects
  <2> QED BY <1>1, <1>3, <1>6, <2>1, <2>2, <2>3 DEF ObjectInv
<1>9. \A u \in Threads : (fr[u].pc # "idle" => InCall(u))' /\ InLoop(u)'
  <2>1. (fr[t].pc # "idle" => InCall(t))' /\ InLoop(t)'
    BY <1>5 DEF InLoop, CopyInv, WorkInv
  <2>2. ASSUME NEW u \in Threads \ {t}
        PROVE  (fr[u].pc # "idle" => InCall(u))' /\ InLoop(u)'
    <3>1. fr[u].pc # "idle" => /\ fr[u].call.ref \in live /\ fr[u].call.ref \in Objects
                               /\ fr[u].call.tgt \in Objects
      BY ObjectsOfCall
    <3>2. fr[u].pc # "idle" => fr[u].call.ref # o /\ fr[u].call.tgt # o
      BY <1>1, <1>3, <3>1 DEF CallInv
    <3> QED BY <1>1, <1>5, <1>7, <3>1, <3>2, Undisturbed DEF CallInv, LoopInv
  <2> QED BY <2>1, <2>2
<1>10. CallInv' BY <1>5, <1>9 DEF CallInv
<1>11. HolderInv'
  <2>1. \A u \in Threads, x \in Objects : Holds(u, x)' <=> Holds(u, x)
    BY <1>1, <1>5 DEF Holds, call
  <2>2. \A l \in Launchers : val'[l] = val[l] BY <1>3, <1>7 DEF Objects
  <2>3. \A l \in Launchers, x \in Objects : HeldFor(l, x)' <=> HeldFor(l, x)
    BY <1>1, <1>5, <2>2 DEF HeldFor, call
  <2> QED BY <1>6, <2>1, <2>3, SameHolders
<1>12. LoopInv' BY <1>9 DEF LoopInv
<1> QED BY <1>8, <1>10, <1>11, <1>12

LEMMA LockStep == ASSUME Inductive, NEW t \in Threads, Lock(t) PROVE Inductive'
<1> USE DEF Inductive
<1> DEFINE o == fr[t].call.tgt
           k == fr[t].call
<1>1. /\ fr[t].pc = "lock" /\ k.op # SetIab /\ ~ mu[o]
      /\ mu' = [mu EXCEPT ![o] = TRUE]
      /\ fr' = [fr EXCEPT ![t].pc = "work", ![t].word = 0, ![t].was = val[o]]
      /\ UNCHANGED <<live, val>>
  BY DEF Lock, call
<1>2. fr \in [Threads -> Frames] /\ InCall(t) /\ InLoop(t) BY <1>1 DEF CallInv, LoopInv
<1>3. o \in Objects BY <1>1, ObjectsOfCall
<1>4. Fits(val[o], o) /\ val[o] \in AnyValue BY <1>3 DEF ObjectInv
<1>5. /\ \A u \in Threads \ {t} : fr'[u] = fr[u]
      /\ fr'[t].pc = "work" /\ fr'[t].copy = fr[t].copy /\ fr'[t].call = k
      /\ fr'[t].word = 0 /\ fr'[t].found = fr[t].found /\ fr'[t].was = val[o]
      /\ fr' \in [Threads -> Frames]
  <2>1. fr[t] \in Frames /\ 0 \in 0 .. NWords /\ "work" \in Labels
    BY <1>2, CapObjectsAssumption DEF Labels
  <2>2. [fr[t] EXCEPT !.pc = "work", !.word = 0, !.was = val[o]] \in Frames
    BY <1>4, <2>1, FrameKeeps
  <2> HIDE DEF Inductive, o
  <2> QED BY <1>1, <1>2, <2>2 DEF Frames
<1>6. ObjectInv' BY <1>1, <1>3 DEF ObjectInv
<1>7. \A u \in Threads : (fr[u].pc # "idle" => InCall(u))' /\ InLoop(u)'
  <2>1. InCall(t)' BY <1>1, <1>2, <1>5 DEF InCall
  <2>2. InLoop(t)'
    <3>1. fr[t].found = {} /\ (k.op \in Copying => Fits(fr[t].copy, k.ref))
      BY <1>1, <1>2 DEF InLoop
    <3>2. WorkInv(t)'
      <4>1. val' = val /\ fr'[t].call.tgt = o BY <1>1, <1>5
      <4>2. \A w \in Words : ~ (w < 0) OBVIOUS
      <4> HIDE DEF Inductive, o
      <4> QED BY <1>4, <1>5, <3>1, <4>1, <4>2 DEF WorkInv
    <3> QED BY <1>5, <3>1, <3>2 DEF InLoop, CopyInv
  <2>3. ASSUME NEW u \in Threads \ {t}
        PROVE  (fr[u].pc # "idle" => InCall(u))' /\ InLoop(u)'
    <3>1. fr[u].pc # "idle" => fr[u].call.ref \in live BY ObjectsOfCall
    <3> QED BY <1>1, <1>5, <3>1, Undisturbed DEF CallInv, LoopInv
  <2> QED BY <2>1, <2>2, <2>3
<1>8. CallInv' BY <1>1, <1>5, <1>7 DEF CallInv
<1>9. HolderInv'
  <2>1. \A u \in Threads, x \in Objects : Holds(u, x)' <=> Holds(u, x) \/ (u = t /\ x = o)
    BY <1>1, <1>5 DEF Holds, call
  <2>2. \A l \in Launchers, x \in Objects : HeldFor(l, x)' <=> HeldFor(l, x)
    BY <1>1, <1>5 DEF HeldFor, call
  <2> QED BY <1>1, <1>3, <2>1, <2>2, Acquire DEF ObjectInv
<1>10. LoopInv' BY <1>7 DEF LoopInv
<1> QED BY <1>6, <1>8, <1>9, <1>10

LEMMA UnlockStep == ASSUME Inductive, NEW t \in Threads, Unlock(t) PROVE Inductive'
<1> USE DEF Inductive
<1> DEFINE o == fr[t].call.tgt
<1>1. /\ fr[t].pc = "work" /\ fr[t].word = NWords
      /\ mu' = [mu EXCEPT ![o] = FALSE]
      /\ fr' = [fr EXCEPT ![t] = [Idle EXCEPT !.n = fr[t].n]]
      /\ UNCHANGED <<live, val>>
  BY DEF Unlock, Returns, call
<1>2. fr \in [Threads -> Frames] BY DEF CallInv
<1>3. o \in Objects BY <1>1, ObjectsOfCall
<1>4. /\ \A u \in Threads \ {t} : fr'[u] = fr[u]
      /\ fr'[t].pc = "idle"
      /\ fr' \in [Threads -> Frames]
  <2>1. fr[t] \in Frames /\ [Idle EXCEPT !.n = fr[t].n] \in Frames BY <1>2, IdleFrame
  <2>2. [Idle EXCEPT !.n = fr[t].n].pc = "idle" BY DEF Idle
  <2> HIDE DEF Inductive, o
  <2> QED BY <1>1, <1>2, <2>1, <2>2
<1>5. ObjectInv' BY <1>1, <1>3 DEF ObjectInv
<1>6. \A u \in Threads : (fr[u].pc # "idle" => InCall(u))' /\ InLoop(u)'
  <2>1. (fr[t].pc # "idle" => InCall(t))' /\ InLoop(t)'
    BY <1>4 DEF InLoop, CopyInv, WorkInv
  <2>2. ASSUME NEW u \in Threads \ {t}
        PROVE  (fr[u].pc # "idle" => InCall(u))' /\ InLoop(u)'
    <3>1. fr[u].pc # "idle" => fr[u].call.ref \in live BY ObjectsOfCall
    <3> QED BY <1>1, <1>4, <3>1, Undisturbed DEF CallInv, LoopInv
  <2> QED BY <2>1, <2>2
<1>7. CallInv' BY <1>1, <1>4, <1>6 DEF CallInv
<1>8. HolderInv'
  <2>1. \A u \in Threads, x \in Objects : Holds(u, x)' <=> Holds(u, x) /\ ~ (u = t /\ x = o)
    BY <1>1, <1>4 DEF Holds, call
  <2>2. \A l \in Launchers, x \in Objects : HeldFor(l, x)' <=> HeldFor(l, x)
    BY <1>1, <1>4 DEF HeldFor, call
  <2>3. Holds(t, o) BY <1>1 DEF Holds, call
  <2> QED BY <1>1, <1>3, <2>1, <2>2, <2>3, Release DEF ObjectInv
<1>9. LoopInv' BY <1>6 DEF LoopInv
<1> QED BY <1>5, <1>7, <1>8, <1>9

(* One word of the loop that works on the target. *)
LEMMA WorkWordStep == ASSUME Inductive, NEW t \in Threads, WorkWord(t) PROVE Inductive'
<1> USE DEF Inductive
<1> DEFINE k == fr[t].call
           o == k.tgt
           v == val[o]
           w == fr[t].word
           copy == fr[t].copy
           was == fr[t].was
           d == WordDone(k, v, copy, w)
           s == WordSeen(k, v, copy, w)
<1>1. /\ fr[t].pc = "work" /\ w < NWords
      /\ val' = [val EXCEPT ![o] = d]
      /\ fr' = [fr EXCEPT ![t].word = w + 1, ![t].found = fr[t].found \cup s]
      /\ UNCHANGED <<live, mu>>
  BY DEF WorkWord, call
<1>2. fr \in [Threads -> Frames] /\ InCall(t) /\ InLoop(t) BY <1>1 DEF CallInv, LoopInv
<1>3. /\ o \in CapTs \cup IabTs /\ o \in Objects /\ o \notin Launchers
      /\ k \in Calls /\ Good(k) /\ k.op # SetIab
      /\ k.op \in Copying => Fits(copy, k.ref)
  <2>1. k.op # SetIab /\ (k.op \in Copying => Fits(copy, k.ref))
    BY <1>1, <1>2 DEF InCall, InLoop
  <2> QED BY <1>1, <2>1, ObjectsOfCall, CapObjectsAssumption
<1>4. /\ Fits(was, o) /\ Fits(v, o)
      /\ \A x \in DOMAIN was : \A y \in Words :
            y \in v[x] <=> y \in IF y < w THEN Whole(k, was, copy)[x] ELSE was[x]
      /\ \A x \in Flags \cup Vectors :
            x \in fr[t].found <=> \E y \in Words : y < w /\ x \in WordSeen(k, was, copy, y)
  BY <1>1, <1>2, <1>3 DEF InLoop, WorkInv, ObjectInv
<1>5. w \in Words /\ w + 1 \in 0 .. NWords /\ w \in Nat
  <2>1. w \in 0 .. NWords BY <1>2 DEF Frames
  <2> QED BY <1>1, <2>1, CapObjectsAssumption
<1>6. \A x \in DOMAIN was : w \in v[x] <=> w \in was[x]
  BY <1>4, <1>5
<1>7. Fits(d, o) /\ d \in AnyValue
  <2>1. Fits(d, o) BY <1>3, <1>4, <1>5, WordDoneFits
  <2> QED BY <1>3, <2>1 DEF Fits, AnyValue
<1>8. s = WordSeen(k, was, copy, w) /\ s \subseteq Flags \cup Vectors
  BY <1>3, <1>4, <1>5, <1>6, WordSeenAt
<1>9. \A x \in DOMAIN was : /\ w \in d[x] <=> w \in Whole(k, was, copy)[x]
                            /\ \A y \in Words \ {w} : y \in d[x] <=> y \in v[x]
  BY <1>3, <1>4, <1>5, <1>6, WordDoneIsWhole
<1>10. /\ \A u \in Threads \ {t} : fr'[u] = fr[u]
       /\ fr'[t].pc = "work" /\ fr'[t].copy = copy /\ fr'[t].call = k
       /\ fr'[t].word = w + 1 /\ fr'[t].found = fr[t].found \cup s /\ fr'[t].was = was
       /\ fr' \in [Threads -> Frames]
  <2>1. fr[t] \in Frames /\ fr[t].found \cup s \in SUBSET (Flags \cup Vectors)
    BY <1>2, <1>8 DEF Frames
  <2>2. [fr[t] EXCEPT !.word = w + 1, !.found = fr[t].found \cup s] \in Frames
    BY <1>5, <2>1, FrameFinds
  <2> HIDE DEF Inductive, s, w
  <2> QED BY <1>1, <1>2, <2>2 DEF Frames
<1>11. \A x \in Objects : val'[x] = IF x = o THEN d ELSE val[x]
  BY <1>1 DEF ObjectInv
<1>12. ObjectInv'
  <2> HIDE DEF d, o
  <2>1. val' \in [Objects -> AnyValue] BY <1>1, <1>7 DEF ObjectInv
  <2>2. \A x \in Objects : Fits(val'[x], x) BY <1>7, <1>11 DEF ObjectInv
  <2>3. \A l \in Launchers : val'[l].iab \subseteq live'
    BY <1>1, <1>3, <1>11 DEF ObjectInv, Objects
  <2> QED BY <1>1, <2>1, <2>2, <2>3 DEF ObjectInv
<1>13. \A u \in Threads : (fr[u].pc # "idle" => InCall(u))' /\ InLoop(u)'
  <2>1. InCall(t)' BY <1>1, <1>2, <1>10 DEF InCall
  <2>2. WorkInv(t)'
    <3>1. \A x \in DOMAIN was : \A y \in Words :
             y \in d[x] <=> y \in IF y < w + 1 THEN Whole(k, was, copy)[x] ELSE was[x]
      <4> SUFFICES ASSUME NEW x \in DOMAIN was, NEW y \in Words
                   PROVE  y \in d[x] <=> y \in IF y < w + 1 THEN Whole(k, was, copy)[x]
                                                            ELSE was[x]
        OBVIOUS
      <4> HIDE DEF d, v, was, copy, k, w, Inductive
      <4>1. CASE y = w BY <1>5, <1>9, <4>1
      <4>2. CASE y # w
        <5>1. y < w + 1 <=> y < w BY <1>5, <4>2
        <5>2. y \in d[x] <=> y \in v[x] BY <1>9, <4>2
        <5>3. y \in v[x] <=> y \in IF y < w THEN Whole(k, was, copy)[x] ELSE was[x]
          BY <1>4
        <5> QED BY <5>1, <5>2, <5>3
      <4> QED BY <4>1, <4>2
    <3>2. \A x \in Flags \cup Vectors :
             x \in fr[t].found \cup s <=>
                \E y \in Words : y < w + 1 /\ x \in WordSeen(k, was, copy, y)
      <4> HIDE DEF s, was, copy, k, w, Inductive
      <4>1. \A y \in Words : y < w + 1 <=> y < w \/ y = w BY <1>5
      <4> QED BY <1>4, <1>5, <1>8, <4>1
    <3>3. val'[fr'[t].call.tgt] = d BY <1>3, <1>10, <1>11
    <3>4. fr'[t].call = k /\ fr'[t].call.tgt = o BY <1>10
    <3> HIDE DEF d, s, was, copy, k, w, o, Inductive
    <3> QED BY <1>4, <1>10, <3>1, <3>2, <3>3, <3>4 DEF WorkInv
  <2>3. InLoop(t)' BY <1>3, <1>10, <2>2 DEF InLoop, CopyInv
  <2>4. ASSUME NEW u \in Threads \ {t}
        PROVE  (fr[u].pc # "idle" => InCall(u))' /\ InLoop(u)'
    <3>1. fr[u].pc # "idle" => /\ fr[u].call.ref \in live /\ fr[u].call.ref \in Objects
                               /\ fr[u].call.tgt \in Objects
      BY ObjectsOfCall
    <3>2. Holds(t, o) BY <1>1 DEF Holds, call
    <3>3. ~ Holds(u, o) BY <1>3, <3>2 DEF HolderInv
    <3>4. fr[u].pc = "copy" => fr[u].call.ref # o BY <3>3 DEF Holds, call
    <3>5. fr[u].pc \in {"work", "own"} => fr[u].call.tgt # o BY <3>3 DEF Holds, call
    <3> HIDE DEF d, o
    <3> QED BY <1>1, <1>10, <1>11, <3>1, <3>4, <3>5, Undisturbed DEF CallInv, LoopInv
  <2> QED BY <2>1, <2>3, <2>4
<1>14. CallInv' BY <1>1, <1>10, <1>13 DEF CallInv
<1>15. HolderInv'
  <2> HIDE DEF d, s
  <2>1. \A u \in Threads, x \in Objects : Holds(u, x)' <=> Holds(u, x)
    BY <1>1, <1>10 DEF Holds, call
  <2>2. \A l \in Launchers : val'[l] = val[l] BY <1>3, <1>11 DEF Objects
  <2>3. \A l \in Launchers, x \in Objects : HeldFor(l, x)' <=> HeldFor(l, x)
    BY <1>1, <1>10, <2>2 DEF HeldFor, call
  <2> QED BY <1>1, <2>1, <2>3, SameHolders
<1>16. LoopInv' BY <1>13 DEF LoopInv
<1> QED BY <1>12, <1>14, <1>15, <1>16

(* The launcher's mutex is taken and its old IAB's released. *)
LEMMA SwapIabStep == ASSUME Inductive, NEW t \in Threads, SwapIab(t) PROVE Inductive'
<1> USE DEF Inductive
<1> DEFINE l == fr[t].call.tgt
           i == {fr[t].call.ref} \cap IabTs
<1>1. /\ fr[t].pc = "lock" /\ fr[t].call.op = SetIab /\ ~ mu[l]
      /\ mu' = [x \in Objects |-> x = l \/ (mu[x] /\ x \notin val[l].iab)]
      /\ val' = [val EXCEPT ![l].iab = i]
      /\ fr' = [fr EXCEPT ![t].pc = "own", ![t].word = 0]
      /\ UNCHANGED live
  BY DEF SwapIab, Goes, call
<1>2. fr \in [Threads -> Frames] /\ InCall(t) /\ InLoop(t) BY <1>1 DEF CallInv, LoopInv
<1>3. /\ l \in Launchers /\ l \in Objects /\ l \notin CapTs /\ l \notin IabTs
      /\ fr[t].call.ref \in live
  BY <1>1, ObjectsOfCall, GoodObjects, CapObjectsAssumption
<1>4. val[l] \in LauncherValues /\ val[l].iab \subseteq IabTs /\ val[l].iab \subseteq Objects
  BY <1>3 DEF ObjectInv, Fits, LauncherValues, Objects
<1>5. /\ \A u \in Threads \ {t} : fr'[u] = fr[u]
      /\ fr'[t].pc = "own" /\ fr'[t].call = fr[t].call
      /\ fr' \in [Threads -> Frames]
  <2>1. fr[t] \in Frames /\ 0 \in 0 .. NWords /\ "own" \in Labels
    BY <1>2, CapObjectsAssumption DEF Labels
  <2>2. [fr[t] EXCEPT !.pc = "own", !.word = 0] \in Frames BY <2>1, FrameGoes
  <2> HIDE DEF Inductive, l, i
  <2> QED BY <1>1, <1>2, <2>2 DEF Frames
<1>6. /\ \A x \in Objects \ {l} : val'[x] = val[x]
      /\ val'[l] \in LauncherValues /\ val'[l].iab = i
      /\ val' \in [Objects -> AnyValue]
  <2>1. [val[l] EXCEPT !.iab = i] \in LauncherValues BY <1>4 DEF LauncherValues
  <2>2. [val[l] EXCEPT !.iab = i].iab = i BY <1>4 DEF LauncherValues
  <2>3. [val[l] EXCEPT !.iab = i] \in AnyValue BY <2>1 DEF AnyValue
  <2>4. val \in [Objects -> AnyValue] BY DEF ObjectInv
  <2> HIDE DEF Inductive, l, i
  <2> QED BY <1>1, <1>3, <2>1, <2>2, <2>3, <2>4
<1>7. \A u \in Threads : fr[u].pc = "own" => fr[u].call.tgt # l
  BY <1>1, <1>3 DEF HolderInv, Holds, call
<1>8. \A x \in val[l].iab : HeldFor(l, x) BY <1>7 DEF HeldFor, call
<1>9. \A x \in Objects : mu'[x] <=> x = l \/ (mu[x] /\ x \notin val[l].iab) BY <1>1
<1>10. ObjectInv'
  <2>1. \A x \in Objects : Fits(val'[x], x)
    BY <1>3, <1>6 DEF ObjectInv, Fits
  <2>2. \A m \in Launchers : val'[m].iab \subseteq live'
    BY <1>1, <1>3, <1>6 DEF ObjectInv, Objects
  <2>3. mu' \in [Objects -> BOOLEAN] BY <1>1
  <2> QED BY <1>1, <1>6, <2>1, <2>2, <2>3 DEF ObjectInv
<1>11. \A u \in Threads : (fr[u].pc # "idle" => InCall(u))' /\ InLoop(u)'
  <2>1. InCall(t)' BY <1>1, <1>2, <1>5, <1>6 DEF InCall
  <2>2. InLoop(t)' BY <1>5 DEF InLoop, CopyInv, WorkInv
  <2>3. ASSUME NEW u \in Threads \ {t}
        PROVE  (fr[u].pc # "idle" => InCall(u))' /\ InLoop(u)'
    <3>1. fr[u].pc # "idle" => /\ fr[u].call.ref \in live /\ fr[u].call.ref \in Objects
                               /\ fr[u].call.tgt \in Objects
      BY ObjectsOfCall
    <3>2. fr[u].pc = "copy" => fr[u].call.ref # l BY <1>3, ObjectsOfCall
    <3>3. fr[u].pc \in {"work", "own"} => fr[u].call.tgt # l BY <1>3, <1>7, ObjectsOfCall
    <3> HIDE DEF i, l
    <3> QED BY <1>1, <1>5, <1>6, <3>1, <3>2, <3>3, Undisturbed DEF CallInv, LoopInv
  <2> QED BY <2>1, <2>2, <2>3
<1>12. CallInv' BY <1>1, <1>5, <1>11 DEF CallInv
<1>13. HolderInv'
  <2>1. \A u \in Threads, x \in Objects : Holds(u, x)' <=> Holds(u, x) \/ (u = t /\ x = l)
    BY <1>1, <1>5 DEF Holds, call
  <2>2. ASSUME NEW m \in Launchers, NEW x \in Objects
        PROVE  HeldFor(m, x)' <=> HeldFor(m, x) /\ m # l
    <3>1. CASE m = l BY <1>5, <3>1 DEF HeldFor, call
    <3>2. CASE m # l
      <4>1. val'[m] = val[m] BY <1>6, <3>2 DEF Objects
      <4>2. \A u \in Threads : fr'[u].pc = "own" /\ fr'[u].call.tgt = m <=>
                               fr[u].pc = "own" /\ fr[u].call.tgt = m
        BY <1>1, <1>5, <3>2
      <4> QED BY <3>2, <4>1, <4>2 DEF HeldFor, call
    <3> QED BY <3>1, <3>2
  <2>3. \A m \in Launchers, x \in Objects : HeldFor(m, x) => x # l
    BY <1>3 DEF HeldFor, ObjectInv, Fits, LauncherValues, Objects
  <2>4. \A x \in Objects : HeldFor(l, x) => x \in val[l].iab BY DEF HeldFor
  <2>5. HolderInv OBVIOUS
  <2> HIDE DEF Inductive, l
  <2> QED BY <1>1, <1>3, <1>4, <1>8, <1>9, <2>1, <2>2, <2>3, <2>4, <2>5 DEF HolderInv
<1>14. LoopInv' BY <1>11 DEF LoopInv
<1> QED BY <1>10, <1>12, <1>13, <1>14

(* The new IAB's mutex is taken for the launcher, whose own is released. *)
LEMMA OwnIabStep == ASSUME Inductive, NEW t \in Threads, OwnIab(t) PROVE Inductive'
<1> USE DEF Inductive
<1> DEFINE l == fr[t].call.tgt
<1>1. /\ fr[t].pc = "own" /\ \A x \in val[l].iab : ~ mu[x]
      /\ mu' = [x \in Objects |-> (mu[x] \/ x \in val[l].iab) /\ x # l]
      /\ fr' = [fr EXCEPT ![t] = [Idle EXCEPT !.n = fr[t].n]]
      /\ UNCHANGED <<live, val>>
  BY DEF OwnIab, Returns, call
<1>2. fr \in [Threads -> Frames] BY DEF CallInv
<1>3. l \in Launchers /\ l \in Objects /\ l \notin CapTs /\ l \notin IabTs
  BY <1>1, ObjectsOfCall, CapObjectsAssumption
<1>4. \A m \in Launchers : val[m].iab \subseteq IabTs /\ l \notin val[m].iab
  BY <1>3 DEF ObjectInv, Fits, LauncherValues, Objects
<1>5. /\ \A u \in Threads \ {t} : fr'[u] = fr[u]
      /\ fr'[t].pc = "idle"
      /\ fr' \in [Threads -> Frames]
  <2>1. fr[t] \in Frames /\ [Idle EXCEPT !.n = fr[t].n] \in Frames BY <1>2, IdleFrame
  <2>2. [Idle EXCEPT !.n = fr[t].n].pc = "idle" BY DEF Idle
  <2> HIDE DEF Inductive, l
  <2> QED BY <1>1, <1>2, <2>1, <2>2
<1>6. \A x \in Objects : mu'[x] <=> (mu[x] \/ x \in val[l].iab) /\ x # l BY <1>1
<1>7. ObjectInv' BY <1>1, <1>3 DEF ObjectInv
<1>8. \A u \in Threads : (fr[u].pc # "idle" => InCall(u))' /\ InLoop(u)'
  <2>1. (fr[t].pc # "idle" => InCall(t))' /\ InLoop(t)'
    BY <1>5 DEF InLoop, CopyInv, WorkInv
  <2>2. ASSUME NEW u \in Threads \ {t}
        PROVE  (fr[u].pc # "idle" => InCall(u))' /\ InLoop(u)'
    <3>1. fr[u].pc # "idle" => fr[u].call.ref \in live BY ObjectsOfCall
    <3> QED BY <1>1, <1>5, <3>1, Undisturbed DEF CallInv, LoopInv
  <2> QED BY <2>1, <2>2
<1>9. CallInv' BY <1>1, <1>5, <1>8 DEF CallInv
<1>10. HolderInv'
  <2>1. \A u \in Threads, x \in Objects : Holds(u, x)' <=> Holds(u, x) /\ ~ (u = t /\ x = l)
    BY <1>1, <1>5 DEF Holds, call
  <2>2. Holds(t, l) BY <1>1 DEF Holds, call
  <2>3. \A u \in Threads \ {t} : fr[u].pc = "own" => fr[u].call.tgt # l
    BY <1>3, <2>2 DEF HolderInv, Holds, call
  <2>4. ASSUME NEW m \in Launchers, NEW x \in Objects
        PROVE  HeldFor(m, x)' <=> HeldFor(m, x) \/ (m = l /\ x \in val[l].iab)
    <3>1. CASE m = l BY <1>1, <1>5, <2>3, <3>1 DEF HeldFor, call
    <3>2. CASE m # l
      <4>1. \A u \in Threads : fr'[u].pc = "own" /\ fr'[u].call.tgt = m <=>
                               fr[u].pc = "own" /\ fr[u].call.tgt = m
        BY <1>1, <1>5, <3>2
      <4> QED BY <1>1, <3>2, <4>1 DEF HeldFor, call
    <3> QED BY <3>1, <3>2
  <2>5. \A m \in Launchers, x \in Objects : HeldFor(m, x) => x # l
    BY <1>4 DEF HeldFor
  <2>6. HolderInv OBVIOUS
  <2> HIDE DEF Inductive, l
  <2> QED BY <1>1, <1>3, <1>4, <1>6, <2>1, <2>2, <2>4, <2>5, <2>6 DEF HolderInv
<1>11. LoopInv' BY <1>8 DEF LoopInv
<1> QED BY <1>7, <1>9, <1>10, <1>11

-----------------------------------------------------------------------------
(* Theorems                                                                *)

LEMMA InductiveStep == Inductive /\ [Next]_vars => Inductive'
<1> SUFFICES ASSUME Inductive, [Next]_vars PROVE Inductive'
  OBVIOUS
<1>1. ASSUME NEW t \in Threads, Step(t) PROVE Inductive'
  BY <1>1, LockRefStep, CopyWordStep, UnlockRefStep, DupResultStep, LockStep, WorkWordStep,
     UnlockStep, SwapIabStep, OwnIabStep DEF Step
<1>2. CASE Next BY <1>1, <1>2, CallStep, AllocateStep, FreeStep DEF Next
<1>3. CASE UNCHANGED vars
  BY <1>3 DEF vars, Inductive, ObjectInv, CallInv, HolderInv, LoopInv, InCall, InLoop, CopyInv,
             WorkInv, Holds, HeldFor, call
<1> QED BY <1>2, <1>3

LEMMA InductiveHolds == Spec => []Inductive
BY Initially, InductiveStep, PTL DEF Spec

(* The mutexes of cap_alloc.c and cap_flag.c exclude: in every reachable   *)
(* state the mutex of an object is set exactly while one thread in a call, *)
(* or one launcher that owns the object, holds it; the objects are well    *)
(* formed.                                                                 *)
THEOREM TypeCorrect == Spec => []TypeOK
<1>1. ASSUME Inductive PROVE TypeOK
  <2> USE <1>1 DEF Inductive
  <2>1. live \subseteq Objects BY DEF ObjectInv
  <2>2. ASSUME NEW o \in CapTs \cup IabTs, NEW x \in DOMAIN Blank(o)
        PROVE  val[o][x] \subseteq Words
    <3>1. Fits(val[o], o) BY DEF ObjectInv, Objects
    <3>2. CASE o \in CapTs BY <3>1, <3>2, BlankCases DEF Fits, CapValues
    <3>3. CASE o \in IabTs BY <3>1, <3>3, BlankCases DEF Fits, IabValues
    <3> QED BY <3>2, <3>3
  <2>3. \A l \in Launchers : val[l].iab \subseteq IabTs
    BY DEF ObjectInv, Fits, LauncherValues, Objects
  <2>4. ASSUME NEW o \in Objects
        PROVE  Cardinality({t \in Threads : Holds(t, o)}
                           \cup {l \in Launchers : HeldFor(l, o)}) = IF mu[o] THEN 1 ELSE 0
    <3> DEFINE H == {t \in Threads : Holds(t, o)} \cup {l \in Launchers : HeldFor(l, o)}
    <3>1. mu[o] \in BOOLEAN BY DEF ObjectInv
    <3>2. CASE mu[o]
      <4>1. \E h : H = {h}
        <5>1. CASE \E t \in Threads : Holds(t, o)
          <6>1. PICK t \in Threads : Holds(t, o) BY <5>1
          <6>2. H = {t} BY <6>1 DEF HolderInv
          <6> QED BY <6>2
        <5>2. CASE \E l \in Launchers : HeldFor(l, o)
          <6>1. PICK l \in Launchers : HeldFor(l, o) BY <5>2
          <6>2. H = {l} BY <6>1 DEF HolderInv
          <6> QED BY <6>2
        <5> QED BY <3>2, <5>1, <5>2 DEF HolderInv
      <4>2. Cardinality(H) = 1 BY <4>1, FS_Singleton
      <4> QED BY <3>2, <4>2
    <3>3. CASE ~ mu[o]
      <4>1. H = {} BY <3>3 DEF HolderInv
      <4>2. Cardinality(H) = 0 BY <4>1, FS_EmptySet
      <4> QED BY <3>3, <4>2
    <3> QED BY <3>1, <3>2, <3>3
  <2> QED BY <2>1, <2>2, <2>3, <2>4 DEF TypeOK
<1> QED BY <1>1, InductiveHolds, PTL

(* Every operation of cap_flag.c and cap_dup, cap_iab_dup is atomic for    *)
(* all others: its effect on its target and its answer are the documented  *)
(* function of the target as it was when it was locked and of a copy of    *)
(* the second object that is not torn, with any number of threads.         *)
THEOREM Atomicity == Spec => []OperationsAtomic
<1>1. ASSUME Inductive PROVE OperationsAtomic
  <2> SUFFICES ASSUME NEW t \in Threads
               PROVE  /\ fr[t].pc = "copy" /\ fr[t].word = NWords =>
                            fr[t].copy = val[fr[t].call.ref]
                      /\ fr[t].pc = "work" /\ fr[t].word = NWords =>
                            /\ val[fr[t].call.tgt] = Whole(fr[t].call, fr[t].was, fr[t].copy)
                            /\ fr[t].found = Finds(fr[t].call, fr[t].was, fr[t].copy)
    BY DEF OperationsAtomic, call
  <2>1. CASE fr[t].pc = "copy" /\ fr[t].word = NWords BY <1>1, <2>1, CopyComplete
  <2>2. CASE fr[t].pc = "work" /\ fr[t].word = NWords
    <3> DEFINE k == fr[t].call
               v == val[k.tgt]
               was == fr[t].was
               copy == fr[t].copy
               e == Whole(k, was, copy)
    <3>1. /\ k \in Calls /\ Good(k) /\ k.tgt \in CapTs \cup IabTs /\ k.tgt \in Objects
          /\ InCall(t) /\ InLoop(t) /\ Fits(v, k.tgt) /\ fr[t] \in Frames
      BY <1>1, <2>2, ObjectsOfCall DEF Inductive, CallInv, LoopInv, ObjectInv
    <3>2. /\ k.op # SetIab /\ Fits(was, k.tgt)
          /\ k.op \in Copying => Fits(copy, k.ref)
      BY <2>2, <3>1 DEF InCall, InLoop, WorkInv
    <3>3. Fits(e, k.tgt) BY <3>1, <3>2, WholeFits
    <3>4. \A w \in Words : w < NWords BY CapObjectsAssumption
    <3>5. \A x \in DOMAIN was : \A w \in Words : w \in v[x] <=> w \in e[x]
      <4>1. \A x \in DOMAIN was : \A w \in Words :
               w \in v[x] <=> w \in IF w < NWords THEN e[x] ELSE was[x]
        BY <2>2, <3>1 DEF InLoop, WorkInv
      <4> HIDE DEF e, v, was
      <4> QED BY <3>4, <4>1
    <3>6. v = e
      <4> HIDE DEF e, v, was, copy, k
      <4>1. CASE k.tgt \in CapTs
        <5>1. v \in CapValues /\ e \in CapValues /\ was \in CapValues
          BY <3>1, <3>2, <3>3, <4>1 DEF Fits
        <5>2. \A x \in Flags : v[x] \subseteq Words /\ e[x] \subseteq Words
          BY <5>1 DEF CapValues
        <5>3. DOMAIN was = Flags BY <5>1 DEF CapValues
        <5>4. \A x \in Flags : v[x] = e[x]
          <6> HIDE DEF Flags
          <6> QED BY <3>5, <5>2, <5>3
        <5> QED BY <5>1, <5>4 DEF CapValues
      <4>2. CASE k.tgt \in IabTs
        <5>1. v \in IabValues /\ e \in IabValues /\ was \in IabValues
          BY <3>1, <3>2, <3>3, <4>2 DEF Fits
        <5>2. \A x \in Vectors : v[x] \subseteq Words /\ e[x] \subseteq Words
          BY <5>1 DEF IabValues
        <5>3. \A x \in Vectors : v[x] = e[x] BY <3>5, <5>1, <5>2 DEF IabValues
        <5> QED BY <5>1, <5>3 DEF IabValues
      <4> QED BY <3>1, <4>1, <4>2
    <3>7. fr[t].found = Finds(k, was, copy)
      <4>1. fr[t].found \in SUBSET (Flags \cup Vectors) BY <3>1 DEF Frames
      <4>2. \A x \in Flags \cup Vectors :
               x \in fr[t].found <=> \E w \in Words : x \in WordSeen(k, was, copy, w)
        <5>1. \A x \in Flags \cup Vectors :
                 x \in fr[t].found <=>
                    \E w \in Words : w < NWords /\ x \in WordSeen(k, was, copy, w)
          BY <2>2, <3>1 DEF InLoop, WorkInv
        <5> HIDE DEF was, copy, k
        <5> QED BY <3>4, <5>1
      <4> QED BY <3>1, <3>2, <4>1, <4>2, AllSeen
    <3> QED BY <2>2, <3>6, <3>7
  <2> QED BY <2>1, <2>2
<1> QED BY <1>1, InductiveHolds, PTL

(* The A vector of a cap_iab_t nobody works on is within its I vector, in  *)
(* whichever order cap_iab_set_vector, cap_iab_fill and cap_iab_dup ran,   *)
(* and in however many threads.                                            *)
THEOREM AmbientIsInheritable == Spec => []AmbientWithinInheritable
<1>1. ASSUME Inductive PROVE AmbientWithinInheritable
  BY <1>1 DEF Inductive, ObjectInv, Fits, IabValues, Objects, AmbientWithinInheritable
<1> QED BY <1>1, InductiveHolds, PTL

=============================================================================
