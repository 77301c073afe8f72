----------------------------- MODULE AllThreads -----------------------------
(***************************************************************************)
(* What psx_syscall promises a multithreaded program, with no word of how  *)
(* it is done: a call has one thread execute the command, then every other *)
(* live thread, and returns when all have.  Until all have, a thread that  *)
(* has executed the command neither starts a thread nor ends, so that the  *)
(* set of threads that have not executed it is well defined.               *)
(***************************************************************************)
EXTENDS Naturals

CONSTANT Threads

VARIABLES live,    \* the live threads of the process
          ran,     \* per thread, the last command it has executed
          phase,   \* of the call in progress: "none", "gather" or "release"
          current  \* the command of the last call

vars == <<live, ran, phase, current>>

Init ==
    /\ \E t \in Threads : live = {t}
    /\ ran = [t \in Threads |-> 0]
    /\ phase = "none"
    /\ current = 0

AllRan == \A t \in live : ran[t] = current

(* Held at the barrier.                                                    *)
Held(t) == phase = "gather" /\ ran[t] = current

(* A new command is written, and executed by the thread that calls.  If it *)
(* fails there, nobody executes it.                                        *)
Begin(t) ==
    /\ phase = "none" /\ t \in live
    /\ current' = current + 1
    /\ \/ phase' = "gather" /\ ran' = [ran EXCEPT ![t] = current + 1]
       \/ UNCHANGED <<phase, ran>>
    /\ UNCHANGED live

Execute(t) ==
    /\ phase = "gather" /\ t \in live /\ ran[t] # current
    /\ ran' = [ran EXCEPT ![t] = current]
    /\ UNCHANGED <<live, phase, current>>

Release ==
    /\ phase = "gather" /\ AllRan
    /\ phase' = "release"
    /\ UNCHANGED <<live, ran, current>>

Return ==
    /\ phase = "release" /\ AllRan
    /\ phase' = "none"
    /\ UNCHANGED <<live, ran, current>>

Clone(t, u) ==
    /\ t \in live /\ u \notin live /\ ~ Held(t)
    /\ live' = live \cup {u}
    /\ ran' = [ran EXCEPT ![u] = ran[t]]
    /\ UNCHANGED <<phase, current>>

Exit(t) ==
    /\ t \in live /\ ~ Held(t)
    /\ live' = live \ {t}
    /\ UNCHANGED <<ran, phase, current>>

(* The image of a fork()ed child, or of a process that was killed, which   *)
(* no call of this process outlives.                                       *)
Leave(s) ==
    /\ s \subseteq live /\ \A t \in s : ~ Held(t)
    /\ live' = s
    /\ phase' = "none"
    /\ UNCHANGED <<ran, current>>

Next ==
    \/ Release \/ Return
    \/ \E t \in Threads : Begin(t) \/ Execute(t) \/ Exit(t) \/ Leave({t})
    \/ Leave({})
    \/ \E t, u \in Threads : Clone(t, u)

Spec == Init /\ [][Next]_vars
=============================================================================
