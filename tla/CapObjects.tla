----------------------------- MODULE CapObjects -----------------------------
(***************************************************************************)
(* The in-memory objects of libcap (cap_alloc.c and cap_flag.c) shared by  *)
(* threads: cap_t, cap_iab_t and the launchers that own a cap_iab_t.       *)
(* Every object has a test-and-set mutex.  An operation on two objects     *)
(* makes a private copy of one under that one's mutex, then works on the   *)
(* other under the other's.                                                *)
(*                                                                         *)
(* A set of capabilities is an array of 32-bit words the code reads and    *)
(* writes word by word.  Words is the set of their indices; one capability *)
(* of each word is followed, so a set of capabilities is a set of indices. *)
(***************************************************************************)
EXTENDS Integers, FiniteSets

CONSTANTS
    Threads,
    CapTs, IabTs, Launchers,    \* memory for objects of the three types
    Spare,                      \* one of these is not allocated at first
    NWords,                     \* _LIBCAP_CAPABILITY_U32S
    Calls,                      \* the calls a thread may make, see Call
    MaxCalls                    \* bound: calls by a thread

Words == 0 .. NWords - 1
Flags == {"E", "P", "I"}
Vectors == {"i", "a", "nb"}
Objects == CapTs \cup IabTs \cup Launchers

ASSUME CapObjectsAssumption == /\ NWords \in Nat \ {0}
                               /\ CapTs \cap IabTs = {}
                               /\ Launchers \cap (CapTs \cup IabTs) = {}
                               /\ MaxCalls \in Nat

VARIABLES
    live,   \* the objects that are allocated
    mu,     \* object -> is its mutex set?
    val,    \* object -> its flags or vectors; launcher -> the IAB it owns
    fr      \* thread -> the call it makes, its private copy, what it found

vars == <<live, mu, val, fr>>

OnCaps == {"cap_get_flag", "cap_set_flag", "cap_clear", "cap_clear_flag", "cap_compare",
           "cap_fill_flag", "cap_dup"}
OnIabs == {"cap_iab_get_vector", "cap_iab_set_vector", "cap_iab_fill", "cap_iab_compare",
           "cap_iab_dup"}

(* The operations that copy a second object, ref, and those that make the  *)
(* object they return, tgt.                                                *)
Duplicating == {"cap_dup", "cap_iab_dup"}
Copying == Duplicating \cup {"cap_compare", "cap_fill_flag", "cap_iab_fill",
                             "cap_iab_compare"}

(* A call with a flag, a vector or a value that is out of range fails with *)
(* EINVAL and leaves every object as it is: Calls has the others.          *)
ASSUME CallsAssumption ==
    \A k \in Calls : /\ k.op \in OnCaps \cup OnIabs \cup {"cap_launcher_set_iab"}
                     /\ k.op \in OnCaps => k.to \in Flags
                     /\ k.op \in OnIabs => k.to \in Vectors
                     /\ k.from \in Flags /\ k.bits \subseteq Words
                     /\ k.raise \in BOOLEAN

(* calloc: every flag and vector is empty and the mutex clear. *)
Blank(o) == CASE o \in CapTs -> [x \in Flags |-> {}]
              [] o \in IabTs -> [x \in Vectors |-> {}]
              [] OTHER       -> [iab |-> {}]

Idle == [pc |-> "idle", call |-> <<>>, copy |-> <<>>, was |-> <<>>, word |-> 0,
         found |-> {}, n |-> 0]

(* The program starts with all objects but one, for a result. *)
Init == /\ live \in {Objects \ {o} : o \in Spare}
        /\ mu = [o \in Objects |-> FALSE]
        /\ val = [o \in Objects |-> Blank(o)]
        /\ fr = [t \in Threads |-> Idle]

-----------------------------------------------------------------------------
call(t) == fr[t].call
Returns(t) == fr' = [fr EXCEPT ![t] = [Idle EXCEPT !.n = fr[t].n]]
Goes(t, pc) == fr' = [fr EXCEPT ![t].pc = pc, ![t].word = 0]
Owned == UNION {val[l].iab : l \in Launchers}
InUse(o) == \E t \in Threads : fr[t].pc # "idle" /\ o \in {call(t).tgt, call(t).ref}

(* good_cap_t, good_cap_iab_t, good_cap_launch_t: the magic of the objects *)
(* fits the operation.                                                     *)
Good(k) ==
    /\ k.tgt \in CASE k.op \in OnCaps -> CapTs
                   [] k.op \in OnIabs -> IabTs
                   [] OTHER           -> Launchers
    /\ k.op \in Copying =>
          k.ref \in IF k.op \in OnCaps \cup {"cap_iab_fill"} THEN CapTs ELSE IabTs

(* A program passes objects it has, one it gave to a launcher too, and     *)
(* gets the result of a dup in memory that is free.                        *)
Callable(k) == IF k.op \in Duplicating
               THEN k.tgt \notin live /\ ~ InUse(k.tgt) /\ k.ref \in live
               ELSE {k.tgt, k.ref} \subseteq live

(* k: the operation, its target, the second object, the flag or vector     *)
(* written or read, the flag copied from, the capabilities and the value.  *)
Call(t) ==
    /\ fr[t].pc = "idle" /\ fr[t].n < MaxCalls
    /\ \E k \in Calls :
          /\ Callable(k)
          /\ fr' = [fr EXCEPT ![t] = [Idle EXCEPT !.n = fr[t].n + 1,
                    !.call = IF Good(k) THEN k ELSE @,
                    !.pc = IF ~ Good(k) THEN "idle"                 \* EINVAL
                           ELSE IF k.op \in Copying THEN "lock_ref" ELSE "lock"]]
    /\ UNCHANGED <<live, mu, val>>

(* cap_init, cap_iab_init, cap_new_launcher *)
Allocate(t, o) ==
    /\ fr[t].pc = "idle" /\ fr[t].n < MaxCalls /\ o \notin live /\ ~ InUse(o)
    /\ live' = live \cup {o}
    /\ fr' = [fr EXCEPT ![t].n = @ + 1]
    /\ UNCHANGED <<mu, val>>

(* What goes with o: a launcher takes its IAB along. *)
Freed(o) == {o} \cup IF o \in Launchers THEN val[o].iab ELSE {}

(* cap_free: the mutex of a cap_t is waited for, the others' are not; all  *)
(* is scrubbed.  A program frees what no call uses and no launcher owns.   *)
Free(t, o) ==
    /\ fr[t].pc = "idle" /\ fr[t].n < MaxCalls
    /\ o \in live \ Owned /\ \A x \in Freed(o) : ~ InUse(x)
    /\ o \in CapTs => ~ mu[o]
    /\ live' = live \ Freed(o)
    /\ mu' = [x \in Objects |-> mu[x] /\ x \notin Freed(o)]
    /\ val' = [x \in Objects |-> IF x \in Freed(o) THEN Blank(x) ELSE val[x]]
    /\ fr' = [fr EXCEPT ![t].n = @ + 1]

-----------------------------------------------------------------------------
(* cap_dup, cap_iab_dup: memcpy under the mutex, a word at a time.         *)

LockRef(t) ==
    /\ fr[t].pc = "lock_ref" /\ ~ mu[call(t).ref]
    /\ mu' = [mu EXCEPT ![call(t).ref] = TRUE]
    /\ fr' = [fr EXCEPT ![t].pc = "copy", ![t].copy = Blank(call(t).ref)]
    /\ UNCHANGED <<live, val>>

CopyWord(t) ==
    /\ fr[t].pc = "copy" /\ fr[t].word < NWords
    /\ LET w == fr[t].word  u == val[call(t).ref]
       IN fr' = [fr EXCEPT ![t].word = @ + 1,
                           ![t].copy = [x \in DOMAIN u |-> @[x] \cup (u[x] \cap {w})]]
    /\ UNCHANGED <<live, mu, val>>

(* Mutant: an early return leaves the object locked. *)
UnlockRefNot(t) ==
    /\ fr[t].pc = "copy" /\ fr[t].word = NWords
    /\ Goes(t, IF call(t).op \in Duplicating THEN "result" ELSE "lock")
    /\ UNCHANGED <<live, mu, val>>

UnlockRef(t) ==
    /\ fr[t].pc = "copy" /\ fr[t].word = NWords
    /\ mu' = [mu EXCEPT ![call(t).ref] = FALSE]
    /\ Goes(t, IF call(t).op \in Duplicating THEN "result" ELSE "lock")
    /\ UNCHANGED <<live, val>>

(* Mutant: the mutex copied with the rest of the object stays set. *)
DupResultLocked(t) ==
    /\ fr[t].pc = "result"
    /\ live' = live \cup {call(t).tgt}
    /\ mu' = [mu EXCEPT ![call(t).tgt] = TRUE]
    /\ val' = [val EXCEPT ![call(t).tgt] = fr[t].copy]
    /\ Returns(t)

(* The mutex was copied too, while it was set: the result's is cleared. *)
DupResult(t) ==
    /\ fr[t].pc = "result"
    /\ live' = live \cup {call(t).tgt}
    /\ mu' = [mu EXCEPT ![call(t).tgt] = FALSE]
    /\ val' = [val EXCEPT ![call(t).tgt] = fr[t].copy]
    /\ Returns(t)

-----------------------------------------------------------------------------
(* What each operation does to one word w of its target v.                 *)

Put(v, x, w, on) == [v EXCEPT ![x] = IF on THEN @ \cup {w} ELSE @ \ {w}]

(* Mutant: lowering I leaves A. *)
PutInhOnly(v, w, on) == Put(v, "i", w, on)

(* Setting A implies setting I, lowering I implies lowering A. *)
PutInh(v, w, on) == LET u == Put(v, "i", w, on) IN [u EXCEPT !.a = @ \ ({w} \ u.i)]
PutAmb(v, w, on) == LET u == Put(v, "a", w, on) IN [u EXCEPT !.i = @ \cup ({w} \cap u.a)]

PutVector(v, vec, w, on) == CASE vec = "i"  -> PutInh(v, w, on)
                              [] vec = "a"  -> PutAmb(v, w, on)
                              [] vec = "nb" -> Put(v, "nb", w, on)

(* copy is ref's; a bounding vector is filled with the bits to drop. *)
WordDone(k, v, copy, w) ==
    CASE k.op = "cap_set_flag" /\ w \in k.bits       -> Put(v, k.to, w, k.raise)
      [] k.op = "cap_clear"                          -> [x \in Flags |-> v[x] \ {w}]
      [] k.op = "cap_clear_flag"                     -> Put(v, k.to, w, FALSE)
      [] k.op = "cap_fill_flag"                      -> Put(v, k.to, w, w \in copy[k.from])
      [] k.op = "cap_iab_set_vector" /\ w \in k.bits -> PutVector(v, k.to, w, k.raise)
      [] k.op = "cap_iab_fill" -> PutVector(v, k.to, w, (k.to = "nb") # (w \in copy[k.from]))
      [] OTHER -> v

(* What the operation has found once it has seen word w: the flags or      *)
(* vectors that differ, or that the capability asked about is raised.      *)
WordSeen(k, v, copy, w) ==
    CASE k.op \in {"cap_compare", "cap_iab_compare"} ->
            {x \in DOMAIN v : w \in v[x] <=> w \notin copy[x]}
      [] k.op \in {"cap_get_flag", "cap_iab_get_vector"} ->
            {x \in {k.to} : w \in v[x] \cap k.bits}
      [] OTHER -> {}

(* Mutant: the operation does not wait for the mutex. *)
LockAnyway(t) ==
    /\ fr[t].pc = "lock" /\ call(t).op # "cap_launcher_set_iab"
    /\ mu' = [mu EXCEPT ![call(t).tgt] = TRUE]
    /\ fr' = [fr EXCEPT ![t].pc = "work", ![t].word = 0, ![t].was = val[call(t).tgt]]
    /\ UNCHANGED <<live, val>>

Lock(t) ==
    /\ fr[t].pc = "lock" /\ call(t).op # "cap_launcher_set_iab"
    /\ ~ mu[call(t).tgt]
    /\ mu' = [mu EXCEPT ![call(t).tgt] = TRUE]
    /\ fr' = [fr EXCEPT ![t].pc = "work", ![t].word = 0, ![t].was = val[call(t).tgt]]
    /\ UNCHANGED <<live, val>>

WorkWord(t) ==
    /\ fr[t].pc = "work" /\ fr[t].word < NWords
    /\ LET k == call(t)  w == fr[t].word  v == val[k.tgt]
       IN /\ val' = [val EXCEPT ![k.tgt] = WordDone(k, v, fr[t].copy, w)]
          /\ fr' = [fr EXCEPT ![t].word = @ + 1,
                              ![t].found = @ \cup WordSeen(k, v, fr[t].copy, w)]
    /\ UNCHANGED <<live, mu>>

Unlock(t) ==
    /\ fr[t].pc = "work" /\ fr[t].word = NWords
    /\ mu' = [mu EXCEPT ![call(t).tgt] = FALSE]
    /\ Returns(t)
    /\ UNCHANGED <<live, val>>

-----------------------------------------------------------------------------
(* cap_launcher_set_iab: under the launcher's mutex the old IAB is         *)
(* unlocked, then the new one locked.                                      *)

SwapIab(t) ==
    LET l == call(t).tgt  o == call(t).ref IN
    /\ fr[t].pc = "lock" /\ call(t).op = "cap_launcher_set_iab" /\ ~ mu[l]
    /\ mu' = [x \in Objects |-> x = l \/ (mu[x] /\ x \notin val[l].iab)]
    /\ val' = [val EXCEPT ![l].iab = {o} \cap IabTs]
    /\ Goes(t, "own")
    /\ UNCHANGED live

OwnIab(t) ==
    LET l == call(t).tgt IN
    /\ fr[t].pc = "own" /\ \A o \in val[l].iab : ~ mu[o]
    /\ mu' = [x \in Objects |-> (mu[x] \/ x \in val[l].iab) /\ x # l]
    /\ Returns(t)
    /\ UNCHANGED <<live, val>>

-----------------------------------------------------------------------------
Step(t) == \/ LockRef(t) \/ CopyWord(t) \/ UnlockRef(t) \/ DupResult(t)
           \/ Lock(t) \/ WorkWord(t) \/ Unlock(t) \/ SwapIab(t) \/ OwnIab(t)

Next == \E t \in Threads : \/ Call(t) \/ Step(t)
                           \/ \E o \in Objects : Allocate(t, o) \/ Free(t, o)

(* Threads are scheduled.  They make finitely many calls, so a mutex that  *)
(* is released is got by a thread that waits for it.                       *)
Spec == Init /\ [][Next]_vars /\ \A t \in Threads : WF_vars(Step(t))
-----------------------------------------------------------------------------
(* Properties                                                              *)

(* o's mutex is held by t, in a call. *)
Holds(t, o) ==
    \/ fr[t].pc = "copy" /\ o = call(t).ref
    \/ fr[t].pc = "work" /\ o = call(t).tgt
    \/ fr[t].pc = "own" /\ o = call(t).tgt

(* o's mutex is held for launcher l, which has o for good. *)
HeldFor(l, o) == o \in val[l].iab /\ \A t \in Threads : fr[t].pc = "own" => call(t).tgt # l

(* The type invariant, and that a mutex is set exactly while one thread or *)
(* one launcher holds it: new, copied and freed objects are unlocked.      *)
TypeOK ==
    /\ live \subseteq Objects
    /\ \A o \in CapTs \cup IabTs : \A x \in DOMAIN Blank(o) : val[o][x] \subseteq Words
    /\ \A l \in Launchers : val[l].iab \subseteq IabTs
    /\ \A o \in Objects :
          Cardinality({t \in Threads : Holds(t, o)} \cup {l \in Launchers : HeldFor(l, o)})
             = IF mu[o] THEN 1 ELSE 0

(* The set an IAB operation writes to its vector. *)
NewVector(k, v, copy) ==
    IF k.op = "cap_iab_fill"
    THEN IF k.to = "nb" THEN Words \ copy[k.from] ELSE copy[k.from]
    ELSE IF k.raise THEN v[k.to] \cup k.bits ELSE v[k.to] \ k.bits

(* What an operation is documented to do, on whole sets. *)
Whole(k, v, copy) ==
    IF k.op \in {"cap_iab_set_vector", "cap_iab_fill"}
    THEN LET new == NewVector(k, v, copy)
         IN [i  |-> CASE k.to = "i" -> new [] k.to = "a" -> v.i \cup new [] OTHER -> v.i,
             a  |-> CASE k.to = "i" -> v.a \cap new [] k.to = "a" -> new [] OTHER -> v.a,
             nb |-> IF k.to = "nb" THEN new ELSE v.nb]
    ELSE CASE k.op = "cap_set_flag" -> [v EXCEPT ![k.to] = IF k.raise THEN @ \cup k.bits
                                                           ELSE @ \ k.bits]
           [] k.op = "cap_clear" -> Blank(k.tgt)
           [] k.op = "cap_clear_flag" -> [v EXCEPT ![k.to] = {}]
           [] k.op = "cap_fill_flag" -> [v EXCEPT ![k.to] = copy[k.from]]
           [] OTHER -> v

Finds(k, v, copy) ==
    CASE k.op \in {"cap_compare", "cap_iab_compare"} -> {x \in DOMAIN v : v[x] # copy[x]}
      [] k.op \in {"cap_get_flag", "cap_iab_get_vector"} ->
            {x \in {k.to} : v[x] \cap k.bits # {}}
      [] OTHER -> {}

(* Every operation is atomic for all others: what it leaves in its target  *)
(* and what it answers are the documented function of the value the target *)
(* had when it was locked and of a copy of the second object that is not   *)
(* torn, whatever calls run in between, on the same object too.            *)
OperationsAtomic ==
    \A t \in Threads :
        /\ fr[t].pc = "copy" /\ fr[t].word = NWords => fr[t].copy = val[call(t).ref]
        /\ fr[t].pc = "work" /\ fr[t].word = NWords =>
              /\ val[call(t).tgt] = Whole(call(t), fr[t].was, fr[t].copy)
              /\ fr[t].found = Finds(call(t), fr[t].was, fr[t].copy)

(* "setting A implies setting I too, lowering I implies lowering A too": a *)
(* tuple nobody works on can be applied, in whichever order its vectors    *)
(* were set and filled.                                                    *)
AmbientWithinInheritable ==
    \A o \in IabTs : (\A t \in Threads : ~ Holds(t, o)) => val[o].a \subseteq val[o].i

(* "To avoid a deadlock corner case, we operate on an unlocked private     *)
(* copy": a call waits for ever only for an IAB that belongs to a launcher.*)
CallsReturn ==
    \A t \in Threads :
        []<>(\/ fr[t].pc = "idle"
             \/ \E o \in Owned : mu[o] /\ o \in CASE fr[t].pc = "lock_ref" -> {call(t).ref}
                                                  [] fr[t].pc = "lock" -> {call(t).tgt}
                                                  [] fr[t].pc = "own" -> {call(t).ref}
                                                  [] OTHER -> {}
             \/ \E u \in Threads \ {t} : fr[u].pc = "own" /\ fr[t].pc = "lock"
                                          /\ call(u).tgt = call(t).tgt)
=============================================================================
