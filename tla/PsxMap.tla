------------------------------- MODULE PsxMap -------------------------------
(***************************************************************************)
(* The thread reference map of libpsx during one __psx_syscall: a hash     *)
(* table without chaining.  Two threads that want the same slot make the   *)
(* caller grow the table until they do not, and copy what it still needs.  *)
(* Slots are written by the caller and, for their own thread, by handlers; *)
(* each does so under psx_lock, so a step here is one critical section.    *)
(***************************************************************************)
EXTENDS Integers, FiniteSets, FiniteSetsExt

CONSTANTS
    Tids,         \* thread ids that may occur
    Mix,          \* psx_mix, for them
    Sizes,        \* sizes a map may have: powers of two
    Entries0,     \* size of the first map
    MaxSweeps,    \* bound on sweeps
    Results       \* values a system call may return

ASSUME TidsAssumption == Tids \subseteq Nat \ {0} /\ 0 \notin Results

(* Of two powers of two the smaller divides the greater.                   *)
ASSUME SizeAssumption ==
    /\ Entries0 \in Sizes /\ Sizes \subseteq Nat \ {0}
    /\ \A m, n \in Sizes : m =< n => n % m = 0

(* psx_mix is one-to-one (each bit of a value is mixed with higher ones    *)
(* only), so that a large enough table separates any two threads.          *)
ASSUME MixAssumption ==
    /\ Mix \in [Tids -> Nat]
    /\ \A t, u \in Tids, n \in Sizes :
          t # u => \E m \in Sizes : m >= n /\ Mix[t] % m # Mix[u] % m

VARIABLES
    live,         \* threads other than the caller that exist
    entries,      \* psx_tracker.map_entries; map_mask is entries - 1
    slots,        \* psx_tracker.map: its slots that are not blank
    sweep,        \* number of the current sweep
    todo,         \* threads the current sweep has yet to visit
    sent,         \* threads that were sent the signal
    result        \* what each thread's own system call returned

mapVars == <<live, entries, slots, sweep, todo, sent, result>>

(* mix & mask, for a table of n entries.                                   *)
Slot(t, n) == Mix[t] % n

BlankSlot == [tid |-> 0, pending |-> FALSE, retval |-> 0, sweep |-> 0]

(* calloc and memset leave blank slots.                                    *)
SlotOf(m, i) == IF i \in DOMAIN m THEN m[i] ELSE BlankSlot

Put(m, i, e) == [j \in DOMAIN m \cup {i} |-> IF j = i THEN e ELSE m[j]]

(* Where the map in use has the thread's entry, if it has one.             *)
Here(t) == SlotOf(slots, Slot(t, entries))

MapInit ==
    /\ live \in SUBSET Tids
    /\ entries = Entries0
    /\ slots = << >>
    /\ sweep = 2
    /\ todo = live
    /\ sent = {}
    /\ result = [t \in Tids |-> 0]

(* for (oval = psx_mix(x->tid); ; entries <<= 1): the first size at which  *)
(* the two do not meet.                                                    *)
Grown(n, t, u) == Min({m \in Sizes : m >= n /\ Slot(t, m) # Slot(u, m)})

(* Entries seen in this sweep or the one before are carried over.          *)
KeptThisSweep == {i \in DOMAIN slots : slots[i].sweep >= sweep}
Kept == {i \in DOMAIN slots : slots[i].sweep >= sweep - 1}

(* The slot of a kept entry in the new table of n entries, and the entry   *)
(* that a slot of the new table gets: the last one written to it.          *)
Rehashed(n) ==
    LET from(j) == {i \in Kept : Slot(slots[i].tid, n) = j}
    IN  [j \in {Slot(slots[i].tid, n) : i \in Kept} |->
           slots[CHOOSE i \in from(j) : \A k \in from(j) : k =< i]]

Listed(e) == [e EXCEPT !.sweep = sweep]

(* The sweep comes to a thread the map knows.                              *)
Revisit(t) ==
    /\ t \in todo /\ Here(t).tid = t
    /\ slots' = Put(slots, Slot(t, entries), Listed(Here(t)))
    /\ todo' = todo \ {t}
    /\ UNCHANGED <<live, entries, sweep, sent, result>>

(* A thread the map does not know, in a slot that is free or after the     *)
(* table has grown; it is sent the signal.                                 *)
SizeDoubled(t) == IF Here(t).tid = 0 THEN entries ELSE 2 * entries
Size(t) == IF Here(t).tid = 0 THEN entries ELSE Grown(entries, Here(t).tid, t)

Visit(t) ==
    LET n == Size(t)
        m == IF n = entries THEN slots ELSE Rehashed(n)
        i == Slot(t, n)
    IN  /\ t \in todo /\ Here(t).tid # t
        /\ entries' = n
        /\ slots' = Put(m, i, Listed([SlotOf(m, i) EXCEPT !.pending = TRUE, !.tid = t]))
        /\ sent' = sent \cup {t}
        /\ todo' = todo \ {t}
        /\ UNCHANGED <<live, sweep, result>>

(* The handler, on a thread that was sent the signal, records the result.  *)
Answer(t) ==
    /\ t \in live /\ t \in sent /\ result[t] = 0
    /\ \E r \in Results :
         /\ result' = [result EXCEPT ![t] = r]
         /\ slots' = Put(slots, Slot(t, entries),
                         [Here(t) EXCEPT !.retval = r, !.pending = FALSE])
    /\ UNCHANGED <<live, entries, sweep, todo, sent>>

(* Threads come, and go unless they are held in the handler.               *)
Start(t) ==
    /\ t \notin live /\ t \notin sent
    /\ live' = live \cup {t}
    /\ todo' = todo \cup {t}
    /\ UNCHANGED <<entries, slots, sweep, sent, result>>

End(t) ==
    /\ t \in live /\ result[t] = 0
    /\ live' = live \ {t}
    /\ todo' = todo \ {t}
    /\ UNCHANGED <<entries, slots, sweep, sent, result>>

NextSweep ==
    /\ todo = {} /\ sweep < MaxSweeps
    /\ sweep' = sweep + 1
    /\ todo' = live
    /\ UNCHANGED <<live, entries, slots, sent, result>>

MapNext ==
    \/ \E t \in Tids : Revisit(t) \/ Visit(t) \/ Answer(t) \/ Start(t) \/ End(t)
    \/ NextSweep

MapSpec == MapInit /\ [][MapNext]_mapVars

-----------------------------------------------------------------------------
(* Every thread that was sent the signal and is still there has a slot of  *)
(* its own, which says pending until its handler answered, and then what   *)
(* the thread's call returned: growing the table loses no answer, makes up *)
(* none, gives no slot to two threads, and makes no thread unknown, which   *)
(* would be sent the signal a second time.                                 *)
MapExact ==
    \A t \in live \cap sent :
        LET e == Here(t)
        IN  /\ e.tid = t
            /\ e.pending <=> result[t] = 0
            /\ ~ e.pending => e.retval = result[t]
=============================================================================
