-------------------------------- MODULE Psx --------------------------------
(***************************************************************************)
(* The libpsx mechanism (psx/psx.c, psx/psx_calls.c): one thread performs  *)
(* a system call and then forces every other thread of the process to     *)
(* perform it too, by sending each of them signal 33 and holding them in   *)
(* the signal handler until all have answered.                             *)
(*                                                                         *)
(* A thread has two frames: its ordinary code (pc) and, on top of it, the  *)
(* handler psx_posix_syscall_actor (hpc).  While a handler frame exists    *)
(* the frame below it does not run.  psx_lock is one step; the body of a   *)
(* critical section, up to and including psx_unlock, is the next one, so   *)
(* that a signal can interrupt a thread that holds the lock.               *)
(*                                                                         *)
(* A behaviour follows one process image.  fork() moves to the child's     *)
(* image: the memory is kept, only the forking thread survives.            *)
(*                                                                         *)
(* The thread reference map is a function from threads to entries here;   *)
(* its hashing, collisions and growth are the subject of PsxMap.           *)
(***************************************************************************)
EXTENDS Integers, FiniteSets

CONSTANTS
    Threads,        \* thread ids the process may use
    Main,           \* the thread group leader
    Callers,        \* threads whose own code calls into the library
    MaxCalls,       \* bound on calls of psx_syscall
    MaxForks,       \* bound on fork()s along a behaviour
    MaxForeign,     \* bound on signals 33 sent by another user of it
    ForeignKinds,   \* "tkill": from this process by tkill (glibc's setxid
                    \*   broadcast); "other": any other si_code or sender
    BufEntries,     \* directory entries one getdents64 call may return
    LeaderExits,    \* may the leader pthread_exit() and stay as a zombie?
    TidReuse,       \* may the id of an ended thread be given out again?
    ProcessExits,   \* may a caller run exit(), and so _psx_cleanup?
    Levels          \* sensitivity levels that are set

ASSUME ThreadsAssumption ==
    IsFiniteSet(Threads) /\ Main \in Threads /\ Callers \subseteq Threads
ASSUME BoundsAssumption ==
    /\ MaxCalls \in Nat /\ MaxForks \in Nat /\ MaxForeign \in Nat
    /\ BufEntries \in Nat \ {0}
ASSUME SwitchesAssumption ==
    /\ LeaderExits \in BOOLEAN /\ TidReuse \in BOOLEAN
    /\ ProcessExits \in BOOLEAN
    /\ Levels \subseteq {"IGNORE", "WARNING", "ERROR"}
    /\ ForeignKinds \subseteq {"tkill", "other"}

VARIABLES
    (* the operating system *)
    pid,            \* getpid() of the image that is followed
    status,         \* of each thread: unborn, live, zombie, ended
    tkillq,         \* per thread, queued signals 33 sent by this process's
                    \*   tkill: the library's own look the same as libc's
    otherq,         \* per thread, queued signals 33 of any other origin
    handler,        \* installed action of signal 33: "psx" or "libc"
    (* the threads *)
    pc, hpc,        \* control of the ordinary and of the handler frame
    own,            \* is the handled signal's info SI_TKILL from this pid?
    inMain, inHand, \* threads whose frame is inside a psx_lock section
    (* psx_tracker *)
    mu,             \* state_mu: 0 or the pid that locked it
    tpid,           \* psx_tracker.pid
    state,          \* psx_tracker.state
    active,         \* psx_tracker.cmd.active
    cmd,            \* psx_tracker.cmd: the number of the call it describes
    incomplete,     \* psx_tracker.incomplete
    sensitivity,    \* psx_tracker.sensitivity
    mem,            \* actions, map, pid_path: "none", "alloc" or "freed"
    map,            \* psx_tracker.map
    (* locals of __psx_syscall: by CallExclusive one thread uses them *)
    seen, buf, cur, \* listed so far, entries of the last getdents64, tid
    some, inc, mismatch, verified,
    (* history *)
    ran,            \* per thread, the last call whose command it executed
    calls, forks, foreign  \* how often each happened, against its bound

os      == <<pid, status, tkillq, otherq, handler>>
frames  == <<pc, hpc, own, inMain, inHand>>
tracker == <<mu, tpid, state, active, cmd, incomplete, sensitivity, mem, map>>
locals  == <<seen, buf, cur, some, inc, mismatch, verified>>
history == <<ran, calls, forks, foreign>>
vars    == <<os, frames, tracker, locals, history>>

Live == {t \in Threads : status[t] = "live"}

(* What /proc/<pid>/task lists: a leader that has ended stays until the    *)
(* rest of the group is gone.                                              *)
Tasks == {t \in Threads : status[t] \in {"live", "zombie"}}

States == {"IDLE", "SETUP", "SYSCALL", "EXITING"}

(* Program points of ordinary code at which the next thing done is to take *)
(* the lock, and the others.                                               *)
LockLabels == {"idle_setup", "setup_idle", "setup_syscall", "insert",
               "account", "release", "drain", "differ", "syscall_idle",
               "sensitivity", "cleanup"}
PlainLabels == {"user", "confirm", "immediate", "memset", "open", "getdents",
                "entry", "tkill", "exit_group", "gone"}
HandLockLabels == {"check", "post", "wait"}
HandLabels == HandLockLabels \cup {"none", "chain", "syscall"}

Blank == [tid |-> FALSE, pending |-> FALSE, retval |-> "none"]
Entries == [tid : BOOLEAN, pending : BOOLEAN,
            retval : {"none", "same", "other"}]

Init ==
    /\ pid = 1
    /\ status = [t \in Threads |-> IF t = Main THEN "live" ELSE "unborn"]
    /\ tkillq = [t \in Threads |-> 0]
    /\ otherq = [t \in Threads |-> 0]
    /\ own = [t \in Threads |-> FALSE]
    /\ handler = "libc"
    /\ pc = [t \in Threads |-> "user"]
    /\ hpc = [t \in Threads |-> "none"]
    /\ inMain = {} /\ inHand = {}
    /\ mu = 0 /\ tpid = 0 /\ state = "IDLE" /\ active = FALSE /\ cmd = 0
    /\ incomplete = 0 /\ sensitivity = "IGNORE" /\ mem = "none"
    /\ map = [t \in Threads |-> Blank]
    /\ seen = {} /\ buf = {} /\ cur = Main
    /\ some = FALSE /\ inc = 0 /\ mismatch = FALSE /\ verified = 0
    /\ ran = [t \in Threads |-> 0]
    /\ calls = 0 /\ forks = 0 /\ foreign = 0

-----------------------------------------------------------------------------
(* Frames and the lock                                                     *)

Running(t) == status[t] = "live" /\ hpc[t] = "none"

At(t, label) == Running(t) /\ pc[t] = label

Goto(t, label) == pc' = [pc EXCEPT ![t] = label]

(* _psx_mu_lock: the exchange succeeds unless the word already holds this  *)
(* process's own pid, so that a child is not stopped by a lock its parent  *)
(* held at the fork().                                                     *)
MuFreeUnchecked == pid \in Nat
MuFreeIfZero == mu = 0
MuFree == mu # pid

(* psx_lock after the exchange: the first lock of a process image resets   *)
(* the tracker, and the very first one allocates its memory.               *)
psx_lock ==
    /\ MuFree
    /\ mu' = pid
    /\ tpid' = pid
    /\ IF tpid # pid
         THEN /\ state' = "IDLE"
              /\ active' = FALSE
              /\ mem' = IF mem = "none" THEN "alloc" ELSE mem
         ELSE UNCHANGED <<state, active, mem>>
    /\ UNCHANGED <<cmd, incomplete, sensitivity, map>>

Lock(t) ==
    /\ Running(t) /\ pc[t] \in LockLabels /\ t \notin inMain
    /\ psx_lock
    /\ inMain' = inMain \cup {t}
    /\ UNCHANGED <<os, pc, hpc, own, inHand, locals, history>>

LockInHandler(t) ==
    /\ status[t] = "live" /\ hpc[t] \in HandLockLabels /\ t \notin inHand
    /\ psx_lock
    /\ inHand' = inHand \cup {t}
    /\ UNCHANGED <<os, pc, hpc, own, inMain, locals, history>>

(* Inside the section that starts at label; psx_unlock ends it.            *)
Locked(t, label) == At(t, label) /\ t \in inMain

Unlock(t) == mu' = 0 /\ inMain' = inMain \ {t}

HandlerLocked(t, label) ==
    status[t] = "live" /\ hpc[t] = label /\ t \in inHand

HandlerUnlock(t) == mu' = 0 /\ inHand' = inHand \ {t}

-----------------------------------------------------------------------------
(* The rest of the program and the kernel, as the library meets them       *)

(* A thread starts another one, which inherits its credentials.  The first *)
(* pthread_create of a process installs libc's own action for signal 33.   *)
Clone(t, u) ==
    /\ At(t, "user")
    /\ status[u] = "unborn" \/ (TidReuse /\ status[u] = "ended")
    /\ status' = [status EXCEPT ![u] = "live"]
    /\ handler' = IF \A v \in Threads : v # Main => status[v] = "unborn"
                    THEN "libc" ELSE handler
    /\ ran' = [ran EXCEPT ![u] = ran[t]]
    /\ UNCHANGED <<pid, tkillq, otherq, frames, tracker, locals,
                   calls, forks, foreign>>

(* A thread ends; its queued signals go with it.                           *)
Exit(t) ==
    /\ At(t, "user")
    /\ t = Main => LeaderExits
    /\ status' = [status EXCEPT ![t] = IF t = Main THEN "zombie" ELSE "ended"]
    /\ tkillq' = [tkillq EXCEPT ![t] = 0]
    /\ otherq' = [otherq EXCEPT ![t] = 0]
    /\ UNCHANGED <<pid, handler, frames, tracker, locals, history>>

(* fork(): the child has this thread only, as its leader, no queued        *)
(* signals, and a copy of the memory as it was, the lock word included.    *)
Fork(t) ==
    /\ At(t, "user") /\ forks < MaxForks
    /\ forks' = forks + 1
    /\ pid' = pid + 1
    /\ status' = [u \in Threads |-> IF u = t THEN "live" ELSE "ended"]
    /\ tkillq' = [u \in Threads |-> 0]
    /\ otherq' = [u \in Threads |-> 0]
    /\ pc' = [u \in Threads |-> "user"]
    /\ hpc' = [u \in Threads |-> "none"]
    /\ inMain' = {} /\ inHand' = {}
    /\ UNCHANGED <<handler, own, tracker, locals, ran, calls, foreign>>

(* Another user of signal 33 sends it to a thread.                         *)
Foreign(t) ==
    /\ foreign < MaxForeign /\ status[t] = "live"
    /\ foreign' = foreign + 1
    /\ \/ /\ "tkill" \in ForeignKinds
          /\ tkillq' = [tkillq EXCEPT ![t] = @ + 1]
          /\ UNCHANGED otherq
       \/ /\ "other" \in ForeignKinds
          /\ otherq' = [otherq EXCEPT ![t] = @ + 1]
          /\ UNCHANGED tkillq
    /\ UNCHANGED <<pid, status, handler, frames, tracker, locals,
                   ran, calls, forks>>

(* The kernel runs the installed action on a thread that does not block    *)
(* the signal: psx_confirm_sigaction blocks it, and so does the handler.   *)
Deliver(t) ==
    /\ Running(t) /\ pc[t] # "confirm"
    /\ \/ /\ tkillq[t] > 0
          /\ tkillq' = [tkillq EXCEPT ![t] = @ - 1]
          /\ own' = [own EXCEPT ![t] = TRUE]
          /\ UNCHANGED otherq
       \/ /\ otherq[t] > 0
          /\ otherq' = [otherq EXCEPT ![t] = @ - 1]
          /\ own' = [own EXCEPT ![t] = FALSE]
          /\ UNCHANGED tkillq
    /\ hpc' = IF handler = "psx" THEN [hpc EXCEPT ![t] = "check"] ELSE hpc
    /\ UNCHANGED <<pid, status, handler, pc, inMain, inHand, tracker,
                   locals, history>>

-----------------------------------------------------------------------------
(* The handler psx_posix_syscall_actor                                     *)

RecognisedAnySender(t) == active
Recognised(t) == active /\ own[t]

(* Something else's signal, or none of ours expected: on to the chain.     *)
ActorCheck(t) ==
    /\ HandlerLocked(t, "check")
    /\ HandlerUnlock(t)
    /\ hpc' = [hpc EXCEPT ![t] = IF Recognised(t) THEN "syscall" ELSE "chain"]
    /\ own' = [own EXCEPT ![t] = FALSE]
    /\ UNCHANGED <<os, pc, inMain, tpid, state, active, cmd, incomplete,
                   sensitivity, mem, map, locals, history>>

(* The chained handler runs and returns.                                   *)
ActorChain(t) ==
    /\ status[t] = "live" /\ hpc[t] = "chain"
    /\ hpc' = [hpc EXCEPT ![t] = "none"]
    /\ UNCHANGED <<os, pc, own, inMain, inHand, tracker, locals, history>>

(* The thread executes the command.                                        *)
ActorSyscall(t) ==
    /\ status[t] = "live" /\ hpc[t] = "syscall"
    /\ hpc' = [hpc EXCEPT ![t] = "post"]
    /\ ran' = [ran EXCEPT ![t] = cmd]
    /\ UNCHANGED <<os, pc, own, inMain, inHand, tracker, locals,
                   calls, forks, foreign>>

(* while (active) psx_cond_wait(): as long as the barrier is up, go round  *)
(* again; else leave the handler.                                          *)
LeaveAtOnce(t) ==
    /\ hpc' = [hpc EXCEPT ![t] = "none"]
    /\ incomplete' = incomplete - 1
WaitOrLeave(t) ==
    IF active
      THEN /\ hpc' = [hpc EXCEPT ![t] = "wait"]
           /\ UNCHANGED incomplete
      ELSE /\ hpc' = [hpc EXCEPT ![t] = "none"]
           /\ incomplete' = incomplete - 1

(* The result it had, the caller's or another one, becomes known.          *)
AnsweredRetvalOnly(t, r) == [map EXCEPT ![t].retval = r]
Answered(t, r) == [map EXCEPT ![t].retval = r, ![t].pending = FALSE]

ActorPost(t) ==
    /\ HandlerLocked(t, "post")
    /\ HandlerUnlock(t)
    /\ \E r \in {"same", "other"} : map' = Answered(t, r)
    /\ WaitOrLeave(t)
    /\ UNCHANGED <<os, pc, own, inMain, tpid, state, active, cmd,
                   sensitivity, mem, locals, history>>

ActorWait(t) ==
    /\ HandlerLocked(t, "wait")
    /\ HandlerUnlock(t)
    /\ WaitOrLeave(t)
    /\ UNCHANGED <<os, pc, own, inMain, tpid, state, active, cmd,
                   sensitivity, mem, map, locals, history>>

-----------------------------------------------------------------------------
(* __psx_syscall                                                           *)

(* psx_new_state(was, is), from the lock it takes to the one it releases;  *)
(* while the state is not the expected one, psx_cond_wait and look again.  *)
psx_new_state_unwaited(t, was, is, next) ==
    /\ Unlock(t)
    /\ state' = is /\ Goto(t, next)
    /\ UNCHANGED <<os, hpc, own, inHand, tpid, active, cmd, incomplete,
                   sensitivity, mem, map, locals, history>>
psx_new_state(t, was, is, next) ==
    /\ Unlock(t)
    /\ IF state = was
         THEN state' = is /\ Goto(t, next)
         ELSE UNCHANGED <<state, pc>>
    /\ UNCHANGED <<os, hpc, own, inHand, tpid, active, cmd, incomplete,
                   sensitivity, mem, map, locals, history>>

(* A caller enters the library; in a fork()ed child its one thread may.    *)
CallSyscall(t) ==
    /\ At(t, "user") /\ (t \in Callers \/ forks > 0) /\ calls < MaxCalls
    /\ calls' = calls + 1
    /\ Goto(t, "idle_setup")
    /\ UNCHANGED <<os, hpc, own, inMain, inHand, tracker, locals,
                   ran, forks, foreign>>

IdleToSetup(t) ==
    Locked(t, "idle_setup") /\ psx_new_state(t, "IDLE", "SETUP", "confirm")

(* psx_confirm_sigaction, with the signal blocked: the library's action    *)
(* goes in front of whatever is installed.                                 *)
ConfirmedOnce == IF cmd = 0 THEN "psx" ELSE handler
Confirmed == "psx"

ConfirmSigaction(t) ==
    /\ At(t, "confirm")
    /\ handler' = Confirmed
    /\ Goto(t, "immediate")
    /\ UNCHANGED <<pid, status, tkillq, otherq, hpc, own, inMain, inHand,
                   tracker, locals, history>>

(* __psx_immediate_syscall: the command is written and the caller executes *)
(* it.  An error ends the call here.                                       *)
ImmediateSyscall(t) ==
    /\ At(t, "immediate")
    /\ cmd' = cmd + 1
    /\ \/ /\ ran' = [ran EXCEPT ![t] = cmd + 1]
          /\ Goto(t, "setup_syscall")
       \/ /\ UNCHANGED ran
          /\ Goto(t, "setup_idle")
    /\ UNCHANGED <<os, hpc, own, inMain, inHand, mu, tpid, state, active,
                   incomplete, sensitivity, mem, map, locals, calls, forks,
                   foreign>>

SetupToIdle(t) ==
    Locked(t, "setup_idle") /\ psx_new_state(t, "SETUP", "IDLE", "user")

SetupToSyscall(t) ==
    Locked(t, "setup_syscall")
      /\ psx_new_state(t, "SETUP", "SYSCALL", "memset")

(* The map is cleared and the sweeps begin.                                *)
ClearMap(t) ==
    /\ At(t, "memset")
    /\ map' = [u \in Threads |-> Blank]
    /\ mismatch' = FALSE
    /\ verified' = 0
    /\ Goto(t, "open")
    /\ UNCHANGED <<os, hpc, own, inMain, inHand, mu, tpid, state, active, cmd,
                   incomplete, sensitivity, mem, seen, buf, cur, some, inc,
                   history>>

(* Every thread is gone after SIGKILL or exit_group.                       *)
KillProcess ==
    /\ status' = [t \in Threads |-> "ended"]
    /\ tkillq' = [t \in Threads |-> 0]
    /\ otherq' = [t \in Threads |-> 0]
    /\ pc' = [t \in Threads |-> "gone"]
    /\ hpc' = [t \in Threads |-> "none"]
    /\ inMain' = {} /\ inHand' = {}

OpenTaskDir(t) ==
    /\ At(t, "open")
    /\ some' = FALSE /\ inc' = 0
    /\ seen' = {} /\ buf' = {}
    /\ Goto(t, "getdents")
    /\ UNCHANGED <<os, hpc, own, inMain, inHand, tracker, cur, mismatch,
                   verified, history>>

(* The task directory cannot be opened or read: the library gives up on    *)
(* the process rather than leave its threads in different states.          *)
TaskDirFails(t) ==
    /\ (At(t, "open") /\ MuFree) \/ At(t, "getdents")
    /\ KillProcess
    /\ UNCHANGED <<pid, handler, own, tracker, locals, history>>

(* What one getdents64 call may return: entries not returned before, as    *)
(* many as the buffer takes.  Threads join the end of the kernel's list,   *)
(* so nothing is returned only when every task was.                        *)
Batches ==
    LET left == Tasks \ seen
    IN  {b \in SUBSET left :
           \/ b = left /\ Cardinality(b) =< BufEntries
           \/ Cardinality(b) = BufEntries}

ListingEndsEarly == seen # {}
ListingEnds == Tasks \subseteq seen

GetDents(t) ==
    /\ At(t, "getdents") /\ ~ ListingEnds
    /\ buf' \in Batches
    /\ seen' = seen \cup buf'
    /\ Goto(t, "entry")
    /\ UNCHANGED <<os, hpc, own, inMain, inHand, tracker, cur, some, inc,
                   mismatch, verified, history>>

(* End of a sweep.  Only a second sweep in a row with no thread pending    *)
(* ends the loop.                                                          *)
VerifiedAnyway == verified + 1
VerifiedDown == IF some THEN 0 ELSE verified - 1
Verified == IF some THEN 0 ELSE verified + 1

EndSweep(t) ==
    /\ At(t, "getdents") /\ ListingEnds
    /\ verified' = Verified
    /\ Goto(t, IF verified' < 2 THEN "open" ELSE "release")
    /\ UNCHANGED <<os, hpc, own, inMain, inHand, tracker, seen, buf, cur, some,
                   inc, mismatch, history>>

(* The next entry of the buffer: the caller itself is passed over, a       *)
(* thread already in the map only accounted for.                           *)
NextEntry(t) ==
    /\ At(t, "entry")
    /\ \/ /\ buf = {}
          /\ Goto(t, "getdents")
          /\ UNCHANGED <<buf, cur>>
       \/ \E u \in buf :
            /\ buf' = buf \ {u}
            /\ cur' = u
            /\ Goto(t, CASE u = t -> "entry"
                        [] u # t /\ map[u].tid -> "account"
                        [] OTHER -> "insert")
    /\ UNCHANGED <<os, hpc, own, inMain, inHand, tracker, seen, some, inc,
                   mismatch, verified, history>>

(* A new entry; from now on the handler answers for the library.           *)
InsertEntry(t) ==
    /\ Locked(t, "insert")
    /\ Unlock(t)
    /\ map' = [map EXCEPT ![cur].pending = TRUE, ![cur].tid = TRUE]
    /\ active' = TRUE
    /\ Goto(t, "tkill")
    /\ UNCHANGED <<os, hpc, own, inHand, tpid, state, cmd, incomplete,
                   sensitivity, mem, locals, history>>

(* A thread that has ended meanwhile gets nothing.                         *)
TkillEntry(t) ==
    /\ At(t, "tkill")
    /\ tkillq' = IF status[cur] = "live"
                   THEN [tkillq EXCEPT ![cur] = @ + 1] ELSE tkillq
    /\ Goto(t, "account")
    /\ UNCHANGED <<pid, status, otherq, handler, hpc, own, inMain, inHand,
                   tracker, locals, history>>

DiffersLast == map[cur].retval # "same"
Differs == mismatch \/ map[cur].retval # "same"

AccountEntry(t) ==
    /\ Locked(t, "account")
    /\ Unlock(t)
    /\ inc' = inc + 1
    /\ IF map[cur].pending
         THEN some' = TRUE /\ UNCHANGED mismatch
         ELSE /\ UNCHANGED some
              /\ mismatch' = Differs
    /\ Goto(t, "entry")
    /\ UNCHANGED <<os, hpc, own, inHand, tpid, state, active, cmd, incomplete,
                   sensitivity, mem, map, seen, buf, cur, verified, history>>

(* Where the call goes once no handler is left.                            *)
AfterDrain == IF mismatch THEN "differ" ELSE "syscall_idle"

(* The barrier comes down; what the sweeps gathered is not read again.     *)
Release(t) ==
    /\ Locked(t, "release")
    /\ Unlock(t)
    /\ incomplete' = inc
    /\ active' = FALSE
    /\ Goto(t, IF inc # 0 THEN "drain" ELSE AfterDrain)
    /\ seen' = {} /\ cur' = t /\ some' = FALSE /\ inc' = 0 /\ verified' = 0
    /\ UNCHANGED <<os, hpc, own, inHand, tpid, state, cmd, sensitivity, mem,
                   map, buf, mismatch, history>>

(* while (incomplete != 0) psx_cond_wait()                                 *)
DrainedButOne == incomplete =< 1
Drained == incomplete = 0

Drain(t) ==
    /\ Locked(t, "drain")
    /\ Unlock(t)
    /\ Goto(t, IF Drained THEN AfterDrain ELSE "drain")
    /\ UNCHANGED <<os, hpc, own, inHand, tpid, state, active, cmd, incomplete,
                   sensitivity, mem, map, locals, history>>

(* Threads answered differently: ignored, reported, or the end.            *)
ReportMismatch(t) ==
    /\ Locked(t, "differ")
    /\ \/ /\ sensitivity = "ERROR"
          /\ KillProcess
          /\ UNCHANGED mu
       \/ /\ sensitivity # "ERROR"
          /\ Unlock(t)
          /\ Goto(t, "syscall_idle")
          /\ UNCHANGED <<status, tkillq, otherq, hpc, inHand>>
    /\ UNCHANGED <<pid, handler, own, tpid, state, active, cmd, incomplete,
                   sensitivity, mem, map, locals, history>>

SyscallToIdle(t) ==
    Locked(t, "syscall_idle") /\ psx_new_state(t, "SYSCALL", "IDLE", "user")

-----------------------------------------------------------------------------
(* psx_set_sensitivity, exit() and its _psx_cleanup                        *)

CallSensitivity(t) ==
    /\ At(t, "user") /\ t \in Callers /\ Levels # {}
    /\ Goto(t, "sensitivity")
    /\ UNCHANGED <<os, hpc, own, inMain, inHand, tracker, locals, history>>

SetSensitivity(t) ==
    /\ Locked(t, "sensitivity")
    /\ Unlock(t)
    /\ sensitivity' \in Levels
    /\ Goto(t, "user")
    /\ UNCHANGED <<os, hpc, own, inHand, tpid, state, active, cmd, incomplete,
                   mem, map, locals, history>>

(* exit() runs the hook psx_syscall_start registered.                      *)
CallExit(t) ==
    /\ At(t, "user") /\ t \in Callers /\ ProcessExits
    /\ Goto(t, IF mem = "none" THEN "exit_group" ELSE "cleanup")
    /\ UNCHANGED <<os, hpc, own, inMain, inHand, tracker, locals, history>>

MayFreeUnlessExiting == state # "EXITING"
MayFree == state = "IDLE"

Cleanup(t) ==
    /\ Locked(t, "cleanup")
    /\ Unlock(t)
    /\ \/ /\ MayFree
          /\ state' = "EXITING"
          /\ mem' = "freed"
          /\ Goto(t, "exit_group")
       \/ /\ state = "EXITING"
          /\ Goto(t, "exit_group")
          /\ UNCHANGED <<state, mem>>
       \/ /\ ~ MayFree /\ state # "EXITING"
          /\ UNCHANGED <<state, mem, pc>>
    /\ UNCHANGED <<os, hpc, own, inHand, tpid, active, cmd, incomplete,
                   sensitivity, map, locals, history>>

ExitGroup(t) ==
    /\ At(t, "exit_group")
    /\ KillProcess
    /\ UNCHANGED <<pid, handler, own, tracker, locals, history>>

-----------------------------------------------------------------------------
Library(t) ==
    \/ Lock(t) \/ IdleToSetup(t) \/ ConfirmSigaction(t) \/ ImmediateSyscall(t)
    \/ SetupToIdle(t) \/ SetupToSyscall(t) \/ ClearMap(t) \/ OpenTaskDir(t)
    \/ TaskDirFails(t)
    \/ GetDents(t) \/ EndSweep(t) \/ NextEntry(t) \/ InsertEntry(t)
    \/ TkillEntry(t) \/ AccountEntry(t) \/ Release(t) \/ Drain(t)
    \/ ReportMismatch(t) \/ SyscallToIdle(t) \/ SetSensitivity(t)
    \/ Cleanup(t) \/ ExitGroup(t)

Actor(t) ==
    \/ LockInHandler(t) \/ ActorCheck(t) \/ ActorChain(t) \/ ActorSyscall(t)
    \/ ActorPost(t) \/ ActorWait(t)

Program(t) ==
    \/ \E u \in Threads : Clone(t, u)
    \/ Exit(t) \/ Fork(t) \/ Foreign(t)
    \/ CallSyscall(t) \/ CallSensitivity(t) \/ CallExit(t)

(* Nothing is left to do: the threads run code that is not modelled, or    *)
(* are gone.                                                               *)
Quiet ==
    /\ \A t \in Threads : pc[t] \in {"user", "gone"} /\ hpc[t] = "none"
    /\ UNCHANGED vars

Next == (\E t \in Threads : Library(t) \/ Actor(t) \/ Deliver(t) \/ Program(t))
          \/ Quiet

Spec == Init /\ [][Next]_vars

(* The scheduler runs every thread that can run, and a thread that keeps   *)
(* trying for the lock gets it in the end: _psx_mu_lock yields between     *)
(* attempts but keeps no queue, hence strong fairness for it.              *)
Fairness ==
    \A t \in Threads :
        /\ WF_vars(Library(t) \/ Actor(t)) /\ WF_vars(Deliver(t))
        /\ SF_vars(Lock(t) \/ LockInHandler(t))

FairSpec == Spec /\ Fairness

-----------------------------------------------------------------------------
(* Properties                                                              *)

TypeOK ==
    /\ pid \in Nat /\ handler \in {"psx", "libc"}
    /\ status \in [Threads -> {"unborn", "live", "zombie", "ended"}]
    /\ tkillq \in [Threads -> Nat] /\ otherq \in [Threads -> Nat]
    /\ pc \in [Threads -> LockLabels \cup PlainLabels]
    /\ hpc \in [Threads -> HandLabels] /\ own \in [Threads -> BOOLEAN]
    /\ inMain \subseteq Threads /\ inHand \subseteq Threads
    /\ mu \in Nat /\ tpid \in Nat /\ state \in States /\ active \in BOOLEAN
    /\ cmd \in Nat /\ incomplete \in Int
    /\ sensitivity \in {"IGNORE", "WARNING", "ERROR"}
    /\ mem \in {"none", "alloc", "freed"}
    /\ map \in [Threads -> Entries]
    /\ seen \subseteq Threads /\ buf \subseteq Threads /\ cur \in Threads
    /\ some \in BOOLEAN /\ inc \in Nat /\ mismatch \in BOOLEAN
    /\ verified \in Nat
    /\ ran \in [Threads -> Nat]
    /\ calls \in Nat /\ forks \in Nat /\ foreign \in Nat

(* From psx_new_state(IDLE, SETUP) to the return to IDLE a thread owns the *)
(* tracker, the command and the locals above.                              *)
SetupLabels == {"confirm", "immediate", "setup_idle", "setup_syscall"}
GatherLabels == {"memset", "open", "getdents", "entry", "insert", "tkill",
                 "account", "release"}
DoneLabels == {"drain", "differ", "syscall_idle"}
CallLabels == SetupLabels \cup GatherLabels \cup DoneLabels

(* state_mu excludes: at most one frame of the process image, ordinary or  *)
(* handler, is inside a psx_lock section, and then the word is this pid.   *)
LockExclusive ==
    /\ \A t, u \in inMain : t = u
    /\ \A t, u \in inHand : t = u
    /\ inMain = {} \/ inHand = {}
    /\ inMain \cup inHand # {} => mu = pid

(* Two threads are never both inside a call of __psx_syscall past its      *)
(* first transition, and the tracker's state says where that one is: this  *)
(* is what lets it write cmd, the map pointer and the sweep locals outside *)
(* the lock.                                                               *)
CallExclusive ==
    /\ \A t, u \in Threads :
          pc[t] \in CallLabels /\ pc[u] \in CallLabels => t = u
    /\ \A t \in Threads :
          /\ pc[t] \in SetupLabels => state = "SETUP"
          /\ pc[t] \in GatherLabels \cup DoneLabels => state = "SYSCALL"

(* Both: one frame inside the lock, and one thread inside a call, of each  *)
(* process image, a fork() in the middle of either notwithstanding.        *)
Exclusive == LockExclusive /\ CallExclusive

(* "ensures that the syscall is also performed on all (other) registered   *)
(* threads": once the barrier is down every live thread, those cloned      *)
(* during the sweeps included, has executed the command or was cloned by   *)
(* one that had.                                                           *)
AllThreadsRan ==
    \A t \in Threads :
        pc[t] \in DoneLabels => \A u \in Live : ran[u] = cmd

(* The barrier: a thread that executed the command leaves the handler only *)
(* when all live threads have executed it.                                 *)
BarrierStep ==
    \A t \in Threads :
        /\ hpc[t] \in {"post", "wait"} /\ hpc'[t] = "none"
        /\ pid' = pid /\ status'[t] = "live"
        => \A u \in Live : ran[u] = cmd

BarrierHolds == [][BarrierStep]_vars

(* The drain: when a call is over, or a new one is being set up, no thread *)
(* is still between recognising a signal of the library and leaving the    *)
(* handler, where it would run the next command or spoil its count.        *)
NoStraggler ==
    state \in {"IDLE", "SETUP", "EXITING"} =>
        \A t \in Threads : hpc[t] \notin {"syscall", "post", "wait"}

(* A handler executes the command of a call in progress, never a stale     *)
(* one, and no thread executes a command twice.                            *)
RunsOnce ==
    [][\A t \in Threads :
         hpc[t] = "syscall" /\ hpc'[t] = "post" =>
             /\ ran[t] < cmd
             /\ \E c \in Threads \ {t} : pc[c] \in GatherLabels]_vars

(* The divergence a call acts on is exactly that of the threads it         *)
(* interrupted: none is missed over the sweeps and none is invented.       *)
MismatchExact ==
    \A t \in Threads : pc[t] \in DoneLabels =>
        (mismatch <=> \E u \in Threads \ {t} :
             map[u].tid /\ ~ map[u].pending /\ map[u].retval # "same")

(* A thread held at the barrier has answered as far as the caller can see: *)
(* the two never wait for each other.                                      *)
AnswerNotLost ==
    \A t \in Threads :
        hpc[t] = "wait" /\ active /\ map[t].tid => ~ map[t].pending

(* Whenever the library is about to signal a thread its own action is      *)
(* installed, although libc may have replaced it since the last call.      *)
HandlerInPlace ==
    \A t \in Threads : pc[t] \in GatherLabels => handler = "psx"

(* No frame is about to use actions, map or pid_path after _psx_cleanup    *)
(* freed them, except the chained path of a signal somebody else sent.     *)
NoUseAfterFree ==
    mem = "freed" => \A t \in Live :
        /\ hpc[t] = "none" => pc[t] \notin {"confirm", "memset", "open", "entry",
                                  "insert", "account", "differ"}
        /\ hpc[t] # "post" /\ (hpc[t] = "chain" => foreign > 0)

(* A call comes back, whatever threads are started and ended meanwhile.    *)
CallReturns ==
    \A t \in Threads : pc[t] = "idle_setup" ~> pc[t] \in {"user", "gone"}

-----------------------------------------------------------------------------
(* The inductive invariant                                                 *)

Busy == {"syscall", "post", "wait"}

(* The lock, who is inside it, and the pid a tracker was last used under:  *)
(* only a fork() makes pid run ahead of the other two.                     *)
LockInv ==
    /\ LockExclusive
    /\ \A t \in inMain : status[t] = "live" /\ pc[t] \in LockLabels
    /\ \A t \in inHand : status[t] = "live" /\ hpc[t] \in HandLockLabels
    /\ inMain \cup inHand # {} => tpid = pid
    /\ mu =< pid /\ tpid =< pid

(* A thread that is not live runs nothing; a process dies as a whole.      *)
FrameInv ==
    /\ \A t \in Threads : status[t] # "live" =>
          pc[t] \in {"user", "gone"} /\ hpc[t] = "none"
    /\ \A t, u \in Threads : pc[t] = "gone" =>
          pc[u] = "gone" /\ status[t] # "live"

CallInv ==
    /\ CallExclusive
    /\ \A t \in Threads : pc[t] \in CallLabels => tpid = pid

(* While a caller gathers, handlers are entered only with the barrier up,  *)
(* and a thread the map shows to have answered is held at the barrier.     *)
GatherInv ==
    \A c \in Threads : pc[c] \in GatherLabels =>
        /\ ran[c] = cmd
        /\ \A u \in Threads : hpc[u] \in Busy => active
        /\ \A u \in Threads : hpc[u] \in {"post", "wait"} => ran[u] = cmd
        /\ pc[c] = "memset" => ~ active
        /\ pc[c] # "memset" =>
             /\ ~ map[c].tid
             /\ \A u \in Threads : map[u].tid =>
                   /\ active
                   /\ ~ map[u].pending => status[u] = "live" /\ hpc[u] = "wait"

SweepLabels == GatherLabels \ {"memset", "open"}
EntryLabels == {"insert", "tkill", "account"}

(* Threads listed in this sweep and already accounted for.                 *)
Accounted(c) ==
    {u \in seen \ buf : u # c /\ (pc[c] \in EntryLabels => u # cur)}

(* Inside a sweep: if no thread accounted for was pending, all of them are *)
(* at the barrier.                                                         *)
SweepInv ==
    \A c \in Threads : pc[c] \in SweepLabels =>
        /\ buf \subseteq seen
        /\ pc[c] \in EntryLabels => cur \in seen \ buf /\ cur # c
        /\ pc[c] \in {"tkill", "account"} => map[cur].tid
        /\ ~ some => \A u \in Accounted(c) : map[u].tid /\ ~ map[u].pending
        /\ pc[c] \in {"getdents", "release"} => buf = {}
        /\ pc[c] = "release" => ~ some /\ Tasks \subseteq seen

(* inc counts the threads accounted for.                                   *)
CountInv ==
    \A c \in Threads : pc[c] \in SweepLabels => inc = Cardinality(Accounted(c))

(* Once the barrier is down everybody has executed the command ...         *)
DoneInv ==
    \A c \in Threads : pc[c] \in DoneLabels =>
        ~ active /\ \A u \in Live : ran[u] = cmd

(* ... and incomplete counts the threads still in the handler.             *)
BusyThreads == {u \in Threads : hpc[u] \in Busy}

DrainInv ==
    \A c \in Threads : pc[c] = "drain" => incomplete = Cardinality(BusyThreads)

(* With nobody gathering or draining no handler does the library's work.   *)
IdleInv ==
    /\ (\A c \in Threads : pc[c] \notin GatherLabels \cup {"gone"}) =>
          (tpid = pid => ~ active)
    /\ (\A c \in Threads : pc[c] \notin GatherLabels \cup {"drain"}) =>
          \A u \in Threads : hpc[u] \notin Busy
    /\ \A c \in Threads : pc[c] = "setup_syscall" => ran[c] = cmd

Inductive ==
    /\ TypeOK /\ LockInv /\ FrameInv /\ CallInv
    /\ GatherInv /\ SweepInv /\ CountInv /\ DoneInv /\ DrainInv /\ IdleInv

(* What the rest of the properties need on top of Inductive.  libc's first *)
(* pthread_create cannot fall into a call: its thread would be the caller. *)
HandInv ==
    \A t \in Threads :
        pc[t] \in GatherLabels \cup {"immediate", "setup_syscall"} =>
            handler = "psx"

(* A thread other than the caller that is not held at the barrier has the  *)
(* command still before it, and nobody starts on it after the release.     *)
RanInv ==
    /\ \A t \in Threads : ran[t] =< cmd
    /\ \A c \in Threads : pc[c] \in GatherLabels \cup {"setup_syscall"} =>
          \A u \in Live \ {c} : hpc[u] \notin {"post", "wait"} => ran[u] < cmd
    /\ \A c \in Threads : pc[c] \in DoneLabels =>
          \A u \in Threads : hpc[u] \notin {"syscall", "post"}

Diverged(c) ==
    \E u \in Threads \ {c} :
        map[u].tid /\ ~ map[u].pending /\ map[u].retval # "same"

(* An entry is made once.  mismatch is never set without cause, and in a   *)
(* sweep that met nobody pending it has taken in every thread accounted    *)
(* for.                                                                    *)
DivergenceInv ==
    \A c \in Threads :
        /\ pc[c] = "insert" => ~ map[cur].tid
        /\ pc[c] \in SweepLabels \cup {"open"} => (mismatch => Diverged(c))
        /\ pc[c] \in SweepLabels /\ ~ some =>
              \A u \in Accounted(c) : map[u].retval # "same" => mismatch
        /\ pc[c] \in DoneLabels => (mismatch <=> Diverged(c))

(* No foreign signal passes for one of the library's.                      *)
Undisturbed == "tkill" \in ForeignKinds => foreign = 0

(* Signalled by the library, and the command not yet begun.                *)
Asked(u) == tkillq[u] > 0 \/ (hpc[u] = "check" /\ own[u])

(* Every signal of the library has one pending entry of the map behind it, *)
(* and is used up before that entry is answered.                           *)
SignalInv ==
    Undisturbed =>
      /\ \A u \in Threads : Asked(u) =>
            /\ status[u] = "live" /\ map[u].tid /\ map[u].pending
            /\ hpc[u] \notin Busy
            /\ \E c \in Threads : pc[c] \in SweepLabels \cup {"open"}
      /\ \A u \in Threads :
            /\ tkillq[u] =< 1
            /\ tkillq[u] > 0 => ~ (hpc[u] = "check" /\ own[u])
      /\ \A c \in Threads :
            /\ pc[c] = "tkill" =>
                  ~ Asked(cur) /\ hpc[cur] \notin Busy /\ map[cur].pending
            /\ pc[c] \in SweepLabels \cup {"open"} =>
                  \A u \in Threads : hpc[u] \in Busy =>
                      map[u].tid /\ (map[u].pending <=> hpc[u] # "wait")

ForeignInv ==
    \A u \in Threads :
        \/ otherq[u] > 0 \/ hpc[u] = "chain" \/ (hpc[u] = "check" /\ ~ own[u])
        => foreign > 0

Strong ==
    /\ Inductive /\ HandInv /\ RanInv /\ DivergenceInv /\ SignalInv
    /\ ForeignInv

(* Without a fork() the memory of the tracker is freed for good.           *)
FreedInv == mem = "freed" => state = "EXITING" /\ tpid = pid

-----------------------------------------------------------------------------
(* Refinement                                                              *)

(* The phase of the call in progress, as a caller of the library sees it.  *)
Phase ==
    IF \E t \in Threads : pc[t] \in GatherLabels \cup {"setup_syscall"}
      THEN "gather"
      ELSE IF \E t \in Threads : pc[t] \in DoneLabels THEN "release"
                                                      ELSE "none"

(* The protocol implements AllThreads.                                     *)
Abstract == INSTANCE AllThreads
              WITH live <- Live, ran <- ran, phase <- Phase, current <- cmd

ImplementsAllThreads == Abstract!Spec

=============================================================================
