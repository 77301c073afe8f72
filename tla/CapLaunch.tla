----------------------------- MODULE CapLaunch -----------------------------
(***************************************************************************)
(* The launcher of libcap/cap_proc.c: cap_launch() forks a child that      *)
(* applies what the launcher asks for, with the operations of CapProc, and *)
(* executes a program.  A close-on-exec pipe tells the parent how it went: *)
(* an errno if a step failed, end of file once nobody holds the write end. *)
(*                                                                         *)
(* Several threads of the parent share launchers and IAB tuples, each with *)
(* its mutex, and launch at the same time: a child inherits the write end  *)
(* of every pipe the parent has open when it forks.                        *)
(*                                                                         *)
(* Here the threads of CapProc are the children, each its own process.     *)
(***************************************************************************)
EXTENDS CapProc

CONSTANTS
    Parents,            \* threads of the parent
    Launchers, Iabs,    \* cap_launch_t and cap_iab_t objects
    HasProgram,         \* the launchers made by cap_new_launcher
    Plans,              \* bounds: what the behaviours explore, see IsPlan
    ResourcesMayFail,   \* may pipe2() and fork() fail?
    ChildrenMayDie      \* may a child be killed from outside?

(* A plan: the credentials to start from, the threads, children, launchers *)
(* and IAB objects in play, the values those may have, the <<operation,    *)
(* argument>> pairs the setters may store, the setter and cap_launch calls *)
(* a thread makes, and whether handlers without SA_RESTART interrupt the   *)
(* parent.                                                                 *)
IsPlan(pl) == /\ pl.from \subseteq InitCreds /\ pl.threads \subseteq Parents
              /\ pl.children \subseteq Threads /\ pl.launchers \subseteq Launchers
              /\ pl.iabs \subseteq Iabs /\ pl.values \subseteq Iab
              /\ pl.sets \in Nat /\ pl.launches \in Nat
              /\ \A s \in pl.settings :
                    /\ s[1] \in {"setuid", "setgroups", "set_mode", "chroot"}
                    /\ s[2] \in Args[s[1]]
              /\ pl.signals \in BOOLEAN

ASSUME CapLaunchAssumption == /\ "parent" \notin Threads
                              /\ Procs = Threads \cup {"parent"}
                              /\ \A ch \in Threads : Home[ch] = ch
                              /\ "nobody" \notin Threads
                              /\ MaxCalls >= 5  \* a launch makes up to that many
                              /\ HasProgram \subseteq Launchers
                              /\ \A pl \in Plans : IsPlan(pl)

VARIABLES
    plan,   \* the plan of this behaviour
    attr,   \* launcher -> its mutex and what it holds
    iab,    \* IAB object -> its mutex and value
    th,     \* parent thread -> where it is in its call, what the last one returned
    kid,    \* child -> where it is, its copy of the launcher, its errno
    pipe,   \* child -> who holds the write end of its pipe, and what was written
    want,   \* history: launcher -> the root its user asked for
    eintr   \* history: parent thread -> the calls of its launch a signal interrupted

hist == <<want, eintr>>
lvars == <<plan, attr, iab, th, kid, pipe, hist>>
allvars == <<vars, lvars>>

Children == Threads
Nobody == "nobody"

(* Mutant: the mode is set after the IAB tuple. *)
StagesModeLate == <<"setuid", "setgroups", "iab_set_proc", "set_mode", "chroot">>

(* The operations of a launch in the order _cap_launch performs them. *)
Stages == <<"setuid", "setgroups", "set_mode", "iab_set_proc", "chroot">>

(* The callback of a launcher: NULL, a function that succeeds, one that     *)
(* fails.                                                                  *)
Functions == {"none", "succeeds", "fails"}

(* Launchers as cap_new_launcher and cap_func_launcher make them.          *)
LInit ==
    /\ plan \in Plans
    /\ Init /\ \A p \in Procs : creds[p] = creds["parent"]
    /\ creds["parent"] \in plan.from
    /\ \E fns \in [plan.launchers \ HasProgram -> Functions] :
          attr = [l \in Launchers |->
                    [mu |-> FALSE, fn |-> IF l \in DOMAIN fns THEN fns[l] ELSE "none",
                     prog |-> l \in HasProgram,
                     ask |-> [op \in {Stages[s] : s \in DOMAIN Stages} |-> {}]]]
    /\ iab \in [plan.iabs -> {[mu |-> FALSE, val |-> v] : v \in plan.values}]
    /\ th = [t \in Parents |-> [pc |-> "idle", l |-> Nobody, new |-> {}, child |-> Nobody,
                                ret |-> 0, errno |-> "none", sets |-> 0, launches |-> 0]]
    /\ kid = [ch \in Children |-> [st |-> "none", cfg |-> Nobody, stage |-> 0,
                                   execd |-> FALSE, errno |-> "none"]]
    /\ pipe = [ch \in Children |-> [w |-> {}, data |-> "none"]]
    /\ want = [l \in Launchers |-> {}] /\ eintr = [t \in Parents |-> {}]

-----------------------------------------------------------------------------
(* Setters                                                                 *)

Setting(t, l) == /\ th[t].pc = "idle" /\ th[t].sets < plan.sets
                 /\ ~ attr[l].mu
                 /\ th' = [th EXCEPT ![t].sets = @ + 1, ![t].l = Nobody]
                 /\ UNCHANGED <<vars, iab, kid, pipe, eintr>>

(* cap_launcher_callback *)
SetCallback(t, l) ==
    /\ Setting(t, l)
    /\ \E fn \in Functions : attr' = [attr EXCEPT ![l].fn = fn]
    /\ UNCHANGED want

(* cap_launcher_setuid, _setgroups, _set_mode *)
SetAttr(t, l) ==
    /\ Setting(t, l)
    /\ \E s \in plan.settings :
          s[1] # "chroot" /\ attr' = [attr EXCEPT ![l].ask[s[1]] = {s[2]}]
    /\ UNCHANGED want

(* cap_launcher_set_chroot: what _libcap_strdup returns is stored, NULL too *)
(* when memory is short, and the call returns 0.                           *)
SetChroot(t, l) ==
    /\ Setting(t, l)
    /\ \E s \in plan.settings :
          /\ s[1] = "chroot" /\ want' = [want EXCEPT ![l] = {s[2]}]
          /\ \E copy \in {{s[2]}} \cup (IF AllocMayFail THEN {{}} ELSE {}) :
                attr' = [attr EXCEPT ![l].ask["chroot"] = copy]

(* cap_launcher_set_iab: the old IAB is unlocked and the new one locked    *)
(* while the mutex of the launcher is held.                                *)
SwapIab(t, l) ==
    /\ th[t].pc = "idle" /\ th[t].sets < plan.sets /\ ~ attr[l].mu
    /\ LET old == attr[l].ask["iab_set_proc"]
       IN \E new \in {{}} \cup {{o} : o \in plan.iabs} :
            /\ attr' = [attr EXCEPT ![l].mu = TRUE, ![l].ask["iab_set_proc"] = new]
            /\ iab' = [o \in plan.iabs |-> IF o \in old THEN [iab[o] EXCEPT !.mu = FALSE]
                                      ELSE iab[o]]
            /\ th' = [th EXCEPT ![t].pc = "lock_iab", ![t].l = l, ![t].new = new,
                                ![t].sets = @ + 1]
    /\ UNCHANGED <<vars, kid, pipe, hist>>

(* Mutant: the IAB is not locked for the launcher. *)
LockIabNot(t) ==
    /\ th[t].pc = "lock_iab"
    /\ attr' = [attr EXCEPT ![th[t].l].mu = FALSE]
    /\ th' = [th EXCEPT ![t].pc = "idle"]
    /\ UNCHANGED <<vars, iab, kid, pipe, hist>>

LockIab(t) ==
    /\ th[t].pc = "lock_iab"
    /\ \A o \in th[t].new : ~ iab[o].mu
    /\ iab' = [o \in plan.iabs |-> IF o \in th[t].new THEN [iab[o] EXCEPT !.mu = TRUE]
                              ELSE iab[o]]
    /\ attr' = [attr EXCEPT ![th[t].l].mu = FALSE]
    /\ th' = [th EXCEPT ![t].pc = "idle"]
    /\ UNCHANGED <<vars, kid, pipe, hist>>

(* Mutant: the tuple is changed without its mutex. *)
ChangeIabUnlocked(t, o) ==
    /\ th[t].pc = "idle" /\ th[t].sets < plan.sets
    /\ \E v \in plan.values : iab' = [iab EXCEPT ![o].val = v]
    /\ th' = [th EXCEPT ![t].sets = @ + 1]
    /\ UNCHANGED <<vars, attr, kid, pipe, hist>>

(* cap_iab_set_vector, cap_iab_fill: the user changes an IAB tuple. *)
ChangeIab(t, o) ==
    /\ th[t].pc = "idle" /\ th[t].sets < plan.sets
    /\ ~ iab[o].mu
    /\ \E v \in plan.values : iab' = [iab EXCEPT ![o].val = v]
    /\ th' = [th EXCEPT ![t].sets = @ + 1]
    /\ UNCHANGED <<vars, attr, kid, pipe, hist>>

-----------------------------------------------------------------------------
(* cap_launch in the parent                                                *)

Returns(t, ret, errno) == th' = [th EXCEPT ![t].pc = "idle", ![t].ret = ret,
                                           ![t].errno = errno]

Purpose(a) == a.fn # "none" \/ a.prog

Launch(t, l) ==
    /\ th[t].pc = "idle" /\ th[t].launches < plan.launches /\ ~ attr[l].mu
    /\ th' = [th EXCEPT ![t].pc = IF Purpose(attr[l]) THEN "pipe" ELSE "idle",
                        ![t].l = l, ![t].child = Nobody, ![t].launches = @ + 1,
                        ![t].ret = IF Purpose(attr[l]) THEN @ ELSE -1,
                        ![t].errno = IF Purpose(attr[l]) THEN "none" ELSE "EINVAL"]
    /\ attr' = [attr EXCEPT ![l].mu = Purpose(attr[l])]
    /\ eintr' = [eintr EXCEPT ![t] = {}]
    /\ UNCHANGED <<vars, iab, kid, pipe, want>>

(* Mutant: the early return does not unlock. *)
PipeFailsLocked(t) ==
    /\ ResourcesMayFail /\ th[t].pc = "pipe"
    /\ Returns(t, -1, "EMFILE")
    /\ UNCHANGED <<vars, attr, iab, kid, pipe, hist>>

PipeFails(t) ==
    /\ ResourcesMayFail /\ th[t].pc = "pipe"
    /\ attr' = [attr EXCEPT ![th[t].l].mu = FALSE]
    /\ Returns(t, -1, "EMFILE")
    /\ UNCHANGED <<vars, iab, kid, pipe, hist>>

(* pipe2(ps, O_CLOEXEC), for a child that is not there yet. *)
MakePipe(t) ==
    /\ th[t].pc = "pipe"
    /\ \E ch \in plan.children :
          /\ kid[ch].st = "none"
          /\ kid' = [kid EXCEPT ![ch].st = "reserved"]
          /\ pipe' = [pipe EXCEPT ![ch].w = {"parent"}]
          /\ th' = [th EXCEPT ![t].pc = "fork", ![t].child = ch]
    /\ UNCHANGED <<vars, attr, iab, hist>>

ForkFails(t) ==
    /\ ResourcesMayFail /\ th[t].pc = "fork"
    /\ th' = [th EXCEPT ![t].pc = "unlock_failed"]
    /\ UNCHANGED <<vars, attr, iab, kid, pipe, hist>>

(* What the child has of the launcher: its memory is a copy. *)
CopyOf(l) == [fn |-> attr[l].fn, prog |-> attr[l].prog, want |-> want[l],
              ask |-> [attr[l].ask EXCEPT !["iab_set_proc"] = {iab[o].val : o \in @}]]

Fork(t) ==
    /\ th[t].pc = "fork"
    /\ LET ch == th[t].child
       IN /\ kid' = [kid EXCEPT ![ch].st = "callback", ![ch].cfg = CopyOf(th[t].l)]
          /\ creds' = [creds EXCEPT ![ch] = creds["parent"]]
          /\ pipe' = [p \in Children |->
                        IF "parent" \in pipe[p].w THEN [pipe[p] EXCEPT !.w = @ \cup {ch}]
                        ELSE pipe[p]]
    /\ th' = [th EXCEPT ![t].pc = "unlock"]
    /\ UNCHANGED <<frame, nopriv, attr, iab, hist>>

(* Mutant: the parent keeps its copy of the write end. *)
UnlockOnly(t) ==
    /\ th[t].pc \in {"unlock", "unlock_failed"}
    /\ attr' = [attr EXCEPT ![th[t].l].mu = FALSE]
    /\ IF th[t].pc = "unlock" THEN th' = [th EXCEPT ![t].pc = "read"]
       ELSE Returns(t, -1, "EAGAIN")
    /\ UNCHANGED <<vars, iab, kid, pipe, hist>>

Unlock(t) ==
    /\ th[t].pc \in {"unlock", "unlock_failed"}
    /\ attr' = [attr EXCEPT ![th[t].l].mu = FALSE]
    /\ pipe' = [pipe EXCEPT ![th[t].child].w = @ \ {"parent"}]
    /\ IF th[t].pc = "unlock" THEN th' = [th EXCEPT ![t].pc = "read"]
       ELSE Returns(t, -1, "EAGAIN")
    /\ UNCHANGED <<vars, iab, kid, hist>>

(* The errno is read and, by the code, replaced: see WaitChild. *)
ReadErrno(t) ==
    /\ th[t].pc = "read" /\ pipe[th[t].child].data # "none"
    /\ th' = [th EXCEPT ![t].pc = "wait"]
    /\ UNCHANGED <<vars, attr, iab, kid, pipe, hist>>

(* End of file: 1 stands for the pid of the child. *)
ReadEof(t) ==
    /\ th[t].pc = "read"
    /\ pipe[th[t].child].data = "none" /\ pipe[th[t].child].w = {}
    /\ Returns(t, 1, "none")
    /\ UNCHANGED <<vars, attr, iab, kid, pipe, hist>>

(* read() fails with EINTR, which is not EAGAIN: the launch counts as      *)
(* failed, whatever becomes of the child.                                  *)
ReadInterrupted(t) ==
    /\ plan.signals /\ th[t].pc = "read"
    /\ th' = [th EXCEPT ![t].pc = "wait"]
    /\ eintr' = [eintr EXCEPT ![t] = {"read"}]
    /\ UNCHANGED <<vars, attr, iab, kid, pipe, want>>

Gone == {"exit0", "exited", "failed", "killed"}

(* Mutant: the child is not waited for. *)
WaitForNobody(t) ==
    /\ th[t].pc = "wait"
    /\ Returns(t, -1, "ECHILD")
    /\ UNCHANGED <<vars, attr, iab, kid, pipe, hist>>

WaitChild(t) ==
    /\ th[t].pc = "wait" /\ kid[th[t].child].st \in Gone
    /\ Returns(t, -1, "ECHILD")
    /\ UNCHANGED <<vars, attr, iab, kid, pipe, hist>>

(* waitpid() is not repeated when it fails with EINTR. *)
WaitInterrupted(t) ==
    /\ plan.signals /\ th[t].pc = "wait"
    /\ Returns(t, -1, "ECHILD")
    /\ eintr' = [eintr EXCEPT ![t] = @ \cup {"wait"}]
    /\ UNCHANGED <<vars, attr, iab, kid, pipe, want>>

-----------------------------------------------------------------------------
(* _cap_launch in the child                                                *)

(* ch ends or executes: it no longer holds the write end of any pipe. *)
Closed(ch) == [p \in Children |-> [pipe[p] EXCEPT !.w = @ \ {ch}]]

Callback(ch) ==
    /\ kid[ch].st = "callback"
    /\ IF kid[ch].cfg.fn = "fails"
       THEN kid' = [kid EXCEPT ![ch].st = "defer", ![ch].errno = "callback"] /\ UNCHANGED pipe
       ELSE IF kid[ch].cfg.prog
       THEN kid' = [kid EXCEPT ![ch].st = "setup", ![ch].stage = 1] /\ UNCHANGED pipe
       ELSE kid' = [kid EXCEPT ![ch].st = "exit0"] /\ pipe' = Closed(ch)
    /\ UNCHANGED <<vars, attr, iab, th, hist>>

(* Between two operations: the next one that was asked for starts, or the  *)
(* last one failed, or none is left.                                       *)
NextStage(ch) ==
    /\ kid[ch].st = "setup" /\ f(ch).pc = "done"
    /\ LET s == kid[ch].stage
           skip == kid[ch].cfg.ask[Stages[s]] = {}
       IN IF f(ch).ret # 0
          THEN /\ kid' = [kid EXCEPT ![ch].st = "defer", ![ch].errno = "setup"]
               /\ UNCHANGED vars
          ELSE IF s > Len(Stages)
          THEN kid' = [kid EXCEPT ![ch].st = "exec"] /\ UNCHANGED vars
          ELSE /\ kid' = [kid EXCEPT ![ch].stage = @ + 1]
               /\ IF skip THEN UNCHANGED vars
                  ELSE \E arg \in kid[ch].cfg.ask[Stages[s]] :
                         Becomes(ch, [Fresh(ch, Stages[s], arg) EXCEPT !.pc = "get_proc"],
                                 c(ch))
    /\ UNCHANGED <<attr, iab, th, pipe, hist>>

Operation(ch) ==
    /\ kid[ch].st = "setup"
    /\ Step(ch)
    /\ UNCHANGED lvars

Exec(ch) ==
    /\ kid[ch].st = "exec"
    /\ kid' = [kid EXCEPT ![ch].st = "running", ![ch].execd = TRUE]
    /\ pipe' = Closed(ch)
    /\ UNCHANGED <<vars, attr, iab, th, hist>>

ExecFails(ch) ==
    /\ kid[ch].st = "exec"
    /\ kid' = [kid EXCEPT ![ch].st = "defer", ![ch].errno = "exec"]
    /\ UNCHANGED <<vars, attr, iab, th, pipe, hist>>

(* Mutant: the child exits without writing its errno. *)
DeferSilently(ch) ==
    /\ kid[ch].st = "defer"
    /\ kid' = [kid EXCEPT ![ch].st = "exit1"]
    /\ UNCHANGED <<vars, attr, iab, th, pipe, hist>>

Defer(ch) ==
    /\ kid[ch].st = "defer"
    /\ kid' = [kid EXCEPT ![ch].st = "exit1"]
    /\ pipe' = [pipe EXCEPT ![ch].data = kid[ch].errno]
    /\ UNCHANGED <<vars, attr, iab, th, hist>>

Exit(ch) ==
    /\ kid[ch].st = "exit1"
    /\ kid' = [kid EXCEPT ![ch].st = "failed"]
    /\ pipe' = Closed(ch)
    /\ UNCHANGED <<vars, attr, iab, th, hist>>

ProgramExits(ch) ==
    /\ kid[ch].st = "running"
    /\ kid' = [kid EXCEPT ![ch].st = "exited"]
    /\ UNCHANGED <<vars, attr, iab, th, pipe, hist>>

Kill(ch) ==
    /\ ChildrenMayDie
    /\ kid[ch].st \in {"callback", "setup", "exec", "defer", "exit1", "running"}
    /\ kid' = [kid EXCEPT ![ch].st = "killed"]
    /\ pipe' = Closed(ch)
    /\ UNCHANGED <<vars, attr, iab, th, hist>>

-----------------------------------------------------------------------------
Finish(t) == \/ LockIab(t) \/ MakePipe(t) \/ Fork(t) \/ Unlock(t)
             \/ ReadErrno(t) \/ ReadEof(t) \/ WaitChild(t)
Setter(t) == \/ \E l \in plan.launchers : \/ SetCallback(t, l) \/ SetAttr(t, l)
                                     \/ SetChroot(t, l) \/ SwapIab(t, l)
             \/ \E o \in plan.iabs : ChangeIab(t, o)
Parent(t) == \/ Finish(t) \/ Setter(t)
             \/ \E l \in plan.launchers : Launch(t, l)
             \/ PipeFails(t) \/ ForkFails(t) \/ ReadInterrupted(t) \/ WaitInterrupted(t)
Child(ch) == \/ Callback(ch) \/ NextStage(ch) \/ Operation(ch)
             \/ Exec(ch) \/ ExecFails(ch) \/ Defer(ch) \/ Exit(ch)

LNext == /\ UNCHANGED plan
         /\ \/ \E t \in plan.threads : Parent(t)
            \/ \E ch \in Children : Child(ch) \/ Kill(ch) \/ ProgramExits(ch)

LSpec == LInit /\ [][LNext]_allvars

(* The parent's threads run, callbacks return, and a child goes on to its  *)
(* exec or exit.  The program it executes may run for ever, and nothing    *)
(* makes a signal arrive.                                                  *)
FairLSpec == /\ LSpec
             /\ \A t \in Parents : WF_allvars(UNCHANGED plan /\ Finish(t))
             /\ \A ch \in Children : WF_allvars(UNCHANGED plan /\ Child(ch))
-----------------------------------------------------------------------------
(* Properties                                                              *)

(* l is not in the middle of cap_launcher_set_iab. *)
Settled(l) == \A t \in Parents : ~ (th[t].pc = "lock_iab" /\ th[t].l = l)

(* The type invariant, and who holds the mutexes: a launcher's is held     *)
(* exactly by the one thread that is inside a call on it; "the launcher    *)
(* locks iab while it is owned by the launcher", so that an IAB's is held  *)
(* exactly while one launcher has it, and no two have.                     *)
LTypeOK ==
    /\ TypeOK
    /\ \A ch \in Children : /\ kid[ch].st \in Gone \cup {"none", "reserved", "callback",
                                        "setup", "exec", "defer", "exit1", "running"}
                            /\ pipe[ch].w \subseteq Procs
    /\ \A l \in Launchers :
          LET inside == {t \in Parents : /\ th[t].l = l
                                         /\ th[t].pc \notin {"idle", "read", "wait"}}
          IN Cardinality(inside) = IF attr[l].mu THEN 1 ELSE 0
    /\ \A o \in DOMAIN iab :
          LET owners == {l \in Launchers : Settled(l) /\ o \in attr[l].ask["iab_set_proc"]}
          IN Cardinality(owners) = IF iab[o].mu THEN 1 ELSE 0

(* What a program executed by a launch must find, if the launcher holds    *)
(* it: the uid, the groups, the mode's securebits, the IAB tuple.          *)
AsAsked(ch) ==
    LET ask == kid[ch].cfg.ask  k == creds[ch] IN
    /\ \A u \in ask["setuid"] : k.uid = u
    /\ \A g \in ask["setgroups"] : k.gid = g /\ k.groups = g
    /\ \A m \in ask["set_mode"] : /\ k.sec = ModeBits(m, k)
                                   /\ m = "NOPRIV" => k.P = {} /\ k.B = {} /\ k.nnp
    /\ \A v \in ask["iab_set_proc"] : k.I = v.i /\ k.A = v.a /\ k.B \cap v.nb = {}

(* "if any of the launcher enhancements [...] should fail to take effect   *)
(* [...] the launch will fail": no program runs without all of them, and   *)
(* no later step of the launch undoes an earlier one ("carefully orders    *)
(* [...] to make sure they stick").  The one exception is a root directory *)
(* that cap_launcher_set_chroot was given and had no memory to store: see  *)
(* RootTakesEffect.                                                        *)
ProgramAsConfigured ==
    \A ch \in Children : kid[ch].st = "running" =>
        /\ AsAsked(ch)
        /\ \A r \in kid[ch].cfg.want :
              \/ creds[ch].root = r
              \/ AllocMayFail /\ kid[ch].cfg.ask["chroot"] = {}

(* The same without exception, for the root: a program runs inside the     *)
(* directory of the last cap_launcher_set_chroot, all of which returned 0. *)
RootTakesEffect ==
    \A ch \in Children : kid[ch].st = "running" =>
        \A r \in kid[ch].cfg.want : creds[ch].root = r

(* t's last launch has returned. *)
Launched(t) == th[t].pc = "idle" /\ th[t].child # Nobody

(* What a launch that returned has done.  A pid: the program was executed, *)
(* or the function of a function launcher ran to its end (cap_launch.3:57  *)
(* has 0 for that, which the code never returns), unless the child was     *)
(* killed before it could say otherwise.  -1: nothing was executed, unless *)
(* read() was interrupted, which the code takes for a failed launch while  *)
(* the program runs; no child is left behind, unless waitpid() was.  A     *)
(* handler of the caller without SA_RESTART does either.                   *)
ResultIsTrue ==
    \A t \in Parents : Launched(t) =>
        LET k == kid[th[t].child] IN
        /\ th[t].ret = 1 =>
              k.st = "killed" \/ IF k.cfg.prog THEN k.execd ELSE k.st = "exit0"
        /\ th[t].ret = -1 =>
              /\ k.execd => "read" \in eintr[t]
              /\ k.st \in Gone \cup {"reserved"} \/ "wait" \in eintr[t]

(* "this prevents the user from asynchronously changing its value while it *)
(* is associated with the launcher": what a launch will apply changes only *)
(* by a call on that launcher.                                             *)
IabStable ==
    [][\A l \in Launchers :
          Settled(l) /\ Settled(l)'
          /\ attr'[l].ask["iab_set_proc"] = attr[l].ask["iab_set_proc"]
          => \A o \in attr[l].ask["iab_set_proc"] : iab'[o].val = iab[o].val]_allvars

(* t's read() was interrupted, and it waits for the program to end. *)
HeldUp(t) == /\ th[t].pc = "wait" /\ "read" \in eintr[t]
             /\ kid[th[t].child].st = "running"

(* Every cap_launch returns: end of file or an errno always comes, however *)
(* many other children hold a copy of the write end.  What can hold it up  *)
(* is a program that never ends, and that only after an interrupted read.  *)
LaunchReturns ==
    \A t \in Parents : th[t].pc = "pipe" ~> (th[t].pc = "idle" \/ []HeldUp(t))
=============================================================================
