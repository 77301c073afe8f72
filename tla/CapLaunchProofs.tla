-------------------------- MODULE CapLaunchProofs --------------------------
(***************************************************************************)
(* Proofs about the launcher, for any number of threads, launchers, IAB    *)
(* objects and children, any settings and any credentials of the parent.   *)
(***************************************************************************)
EXTENDS CapLaunch, CapProcProofs, FiniteSetTheorems

-----------------------------------------------------------------------------
(* Types                                                                   *)

Opt(S) == {{}} \cup {{x} : x \in S}

AskOps == {"setuid", "setgroups", "set_mode", "iab_set_proc", "chroot"}

(* What a launcher was asked for, an IAB tuple being one of S.             *)
Proper(ask, S) ==
    /\ DOMAIN ask = AskOps
    /\ ask["setuid"] \in Opt(Uids) /\ ask["setgroups"] \in Opt(Gids)
    /\ ask["set_mode"] \in Opt(Modes) /\ ask["chroot"] \in Opt(Roots)
    /\ ask["iab_set_proc"] \in Opt(S)

Points4 == {"idle", "lock_iab", "pipe", "fork", "unlock", "unlock_failed", "read", "wait"}
Refs == Launchers \cup {Nobody}
Kids == Children \cup {Nobody}
News == SUBSET Iabs
Results == {0, 1, -1}
Errors == {"none", "EINVAL", "EMFILE", "EAGAIN", "ECHILD"}
Thread == [pc : Points4, l : Refs, new : News, child : Kids, ret : Results,
           errno : Errors, sets : Nat, launches : Nat]

(* A child before its exec or exit, and all the places it may be. *)
Before == {"callback", "setup", "exec", "defer", "exit1"}
Places == Gone \cup Before \cup {"none", "reserved", "running"}
KidErrors == {"none", "callback", "setup", "exec"}

AttrOK(a) == /\ DOMAIN a = {"mu", "fn", "prog", "ask"}
             /\ a.mu \in BOOLEAN /\ a.prog \in BOOLEAN /\ Proper(a.ask, plan.iabs)

ParentType ==
    /\ plan \in Plans
    /\ th \in [Parents -> Thread]
    /\ DOMAIN attr = Launchers /\ \A l \in Launchers : AttrOK(attr[l])
    /\ iab \in [plan.iabs -> [mu : BOOLEAN, val : Iab]]

KidOK(y) == /\ DOMAIN y = {"st", "cfg", "stage", "execd", "errno"}
            /\ y.st \in Places /\ y.stage \in Nat
            /\ y.execd \in BOOLEAN /\ y.errno \in KidErrors
PipeOK(q) == /\ DOMAIN q = {"w", "data"}
             /\ q.w \subseteq Procs /\ q.data \in KidErrors

ChildType ==
    /\ DOMAIN kid = Children /\ DOMAIN pipe = Children
    /\ \A ch \in Children : KidOK(kid[ch]) /\ PipeOK(pipe[ch])

-----------------------------------------------------------------------------
(* Mutexes                                                                 *)

Holding == {"lock_iab", "pipe", "fork", "unlock", "unlock_failed"}

Holds(t, l) == th[t].l = l /\ th[t].pc \in Holding

MutexInv ==
    /\ \A t \in Parents : th[t].pc \in Holding => th[t].l \in Launchers /\ attr[th[t].l].mu
    /\ \A t, u \in Parents, l \in Launchers : Holds(t, l) /\ Holds(u, l) => t = u
    /\ \A l \in Launchers : attr[l].mu => \E t \in Parents : Holds(t, l)

(* The launcher l has the IAB object o, and is not in the middle of        *)
(* getting it.                                                             *)
Owns(l, o) == Settled(l) /\ o \in attr[l].ask["iab_set_proc"]

OwnerInv ==
    /\ \A t \in Parents : th[t].pc = "lock_iab" =>
          th[t].new = attr[th[t].l].ask["iab_set_proc"]
    /\ \A o \in plan.iabs :
          /\ \A l \in Launchers : Owns(l, o) => iab[o].mu
          /\ \A l, m \in Launchers : Owns(l, o) /\ Owns(m, o) => l = m
          /\ iab[o].mu => \E l \in Launchers : Owns(l, o)

-----------------------------------------------------------------------------
(* Parent and child                                                        *)

(* A child belongs to one launch of one thread. *)
LaunchInv ==
    /\ \A t, u \in Parents : th[t].child = th[u].child /\ th[t].child # Nobody => t = u
    /\ \A t \in Parents : th[t].child # Nobody => kid[th[t].child].st # "none"
    /\ \A t \in Parents : th[t].pc = "pipe" => th[t].child = Nobody
    /\ \A t \in Parents : th[t].pc = "fork" => "parent" \in pipe[th[t].child].w
    /\ \A t \in Parents : th[t].pc \in {"fork", "unlock_failed"} =>
          th[t].child # Nobody /\ kid[th[t].child].st = "reserved"
    /\ \A t \in Parents : th[t].pc \in {"unlock", "read", "wait"} =>
          th[t].child # Nobody /\ kid[th[t].child].st \notin {"none", "reserved"}

(* Until its exec or exit a child holds the write end of its own pipe, and *)
(* one that fails has written to it.                                       *)
KidIs(ch, k, w, data) ==
        /\ k.st \in Before => ch \in w
        /\ data # "none" => k.st \in {"exit1", "failed", "killed"} /\ ~ k.execd
        /\ k.st \in {"exit1", "failed"} => data # "none"
        /\ k.st = "defer" => k.errno # "none"
        /\ k.execd => k.st \in {"running", "exited", "killed"}
        /\ k.st \in {"running", "exited"} => k.execd /\ k.cfg.prog
        /\ k.st \in {"setup", "exec"} => k.cfg.prog
        /\ k.st = "exit0" => ~ k.cfg.prog
        /\ k.execd => k.cfg.prog
        /\ k.st \notin {"none", "reserved"} =>
              /\ DOMAIN k.cfg = {"fn", "prog", "want", "ask"} /\ k.cfg.prog \in BOOLEAN
              /\ Proper(k.cfg.ask, Iab)

KidInv == \A ch \in Children : KidIs(ch, kid[ch], pipe[ch].w, pipe[ch].data)

(* What a thread whose last launch has returned was told by a pid. *)
Told(ret, k) ==
    ret = 1 => k.st = "killed" \/ IF k.cfg.prog THEN k.execd ELSE k.st = "exit0"

ToldInv ==
    \A t \in Parents : th[t].pc \in {"idle", "lock_iab"} /\ th[t].child # Nobody =>
        Told(th[t].ret, kid[th[t].child])

-----------------------------------------------------------------------------
(* The steps of a launch                                                   *)

(* The credentials k are as the first n stages were asked to make them.    *)
Did(ask, k, n) ==
    /\ n >= 1 => \A u \in ask["setuid"] : k.uid = u
    /\ n >= 2 => \A g \in ask["setgroups"] : k.gid = g /\ k.groups = g
    /\ n >= 3 => \A m \in ask["set_mode"] :
                     /\ k.sec = ModeBits(m, k)
                     /\ m = "NOPRIV" => k.P = {} /\ k.B = {} /\ k.nnp
    /\ n >= 4 => \A v \in ask["iab_set_proc"] : k.I = v.i /\ k.A = v.a /\ k.B \cap v.nb = {}
    /\ n >= 5 => \A r \in ask["chroot"] : k.root = r

(* A child k with frame g, credentials cr and the history np: while a      *)
(* stage is under way the earlier ones had been done when it began.        *)
StageIs(ch, k, g, cr, np) ==
    /\ g.clean
    /\ k.st \in {"none", "reserved", "callback"} => g = Blank /\ ch \notin np
    /\ k.st = "setup" =>
          /\ k.stage \in 1 .. 6 /\ g.n < k.stage
          /\ g.pc = "done" /\ g.ret = 0 => Did(k.cfg.ask, cr, k.stage - 1)
          /\ g.pc # "done" =>
                /\ k.stage > 1 /\ g.op = Stages[k.stage - 1]
                /\ k.cfg.ask[g.op] = {g.arg}
                /\ Did(k.cfg.ask, g.start, k.stage - 2)
                /\ g.op \in {"set_mode", "iab_set_proc"} => Kin(g.start, cr)
    /\ k.st \in {"exec", "running"} => Did(k.cfg.ask, cr, 5)

StageInv == \A ch \in Children : StageIs(ch, kid[ch], frame[ch], creds[ch], nopriv)

-----------------------------------------------------------------------------
(* Types are kept                                                          *)

LEMMA PlanFacts ==
  ASSUME ParentType
  PROVE  /\ plan.from \subseteq InitCreds /\ plan.threads \subseteq Parents
         /\ plan.children \subseteq Children /\ plan.launchers \subseteq Launchers
         /\ plan.iabs \subseteq Iabs /\ plan.values \subseteq Iab
         /\ \A s \in plan.settings :
              /\ s[1] \in {"setuid", "setgroups", "set_mode", "chroot"}
              /\ s[2] \in Args[s[1]]
  BY CapLaunchAssumption DEF ParentType, IsPlan, Children

(* A thread's record, changed as the actions change it. *)
LEMMA ThreadKept ==
  ASSUME NEW x \in Thread, NEW p \in Points4, NEW r \in Results, NEW e \in Errors,
         NEW l \in Refs, NEW ch \in Kids, NEW n \in News
  PROVE  /\ [x EXCEPT !.sets = @ + 1, !.l = Nobody] \in Thread
         /\ [x EXCEPT !.pc = p, !.l = l, !.new = n, !.sets = @ + 1] \in Thread
         /\ [x EXCEPT !.sets = @ + 1] \in Thread
         /\ [x EXCEPT !.pc = p] \in Thread
         /\ [x EXCEPT !.pc = p, !.ret = r, !.errno = e] \in Thread
         /\ [x EXCEPT !.pc = p, !.child = ch] \in Thread
         /\ [x EXCEPT !.pc = p, !.l = l, !.child = ch, !.launches = @ + 1, !.ret = r,
                      !.errno = e] \in Thread
<1>1. Nobody \in Refs BY DEF Refs
<1>2. x.sets \in Nat /\ x.launches \in Nat BY DEF Thread
<1>3. x.sets + 1 \in Nat /\ x.launches + 1 \in Nat BY <1>2
<1>4. [x EXCEPT !.sets = x.sets + 1, !.l = Nobody] \in Thread BY <1>1, <1>3 DEF Thread
<1>5. [x EXCEPT !.pc = p, !.l = l, !.new = n, !.sets = x.sets + 1] \in Thread
  BY <1>3 DEF Thread
<1>6. [x EXCEPT !.sets = x.sets + 1] \in Thread BY <1>3 DEF Thread
<1>7. [x EXCEPT !.pc = p] \in Thread BY DEF Thread
<1>8. [x EXCEPT !.pc = p, !.ret = r, !.errno = e] \in Thread BY DEF Thread
<1>9. [x EXCEPT !.pc = p, !.child = ch] \in Thread BY DEF Thread
<1>10. [x EXCEPT !.pc = p, !.l = l, !.child = ch, !.launches = x.launches + 1, !.ret = r,
                 !.errno = e] \in Thread
  BY <1>3 DEF Thread
<1> QED BY <1>4, <1>5, <1>6, <1>7, <1>8, <1>9, <1>10

(* What the fields of a thread are afterwards. *)
LEMMA ThreadFields ==
  ASSUME NEW x \in Thread
  PROVE  /\ x.pc \in Points4 /\ x.l \in Refs /\ x.new \in News /\ x.child \in Kids
         /\ x.ret \in Results /\ x.errno \in Errors
         /\ DOMAIN x = {"pc", "l", "new", "child", "ret", "errno", "sets", "launches"}
  BY DEF Thread

(* The steps of the children, which leave the parent's memory alone. *)
ChildStep(ch) == Child(ch) \/ Kill(ch) \/ ProgramExits(ch)

LEMMA ChildFrame ==
  ASSUME NEW ch \in Children, ChildStep(ch) PROVE UNCHANGED <<attr, iab, th>>
  BY DEF ChildStep, Child, Callback, NextStage, Operation, Exec, ExecFails, Defer, Exit, Kill,
         ProgramExits, lvars

(* t becomes x, the other threads stay. *)
Goes1(t, x) == x \in Thread /\ th' = [th EXCEPT ![t] = x]

(* What the actions of the parent do to the thread that takes them. *)
LEMMA ParentSteps ==
  ASSUME ParentType, NEW t \in Parents
  PROVE  /\ \A l : Setting(t, l) => Goes1(t, [th[t] EXCEPT !.sets = @ + 1, !.l = Nobody])
         /\ \A o : ChangeIab(t, o) => Goes1(t, [th[t] EXCEPT !.sets = @ + 1])
         /\ LockIab(t) => Goes1(t, [th[t] EXCEPT !.pc = "idle"])
         /\ PipeFails(t) => Goes1(t, [th[t] EXCEPT !.pc = "idle", !.ret = -1, !.errno = "EMFILE"])
         /\ ForkFails(t) => Goes1(t, [th[t] EXCEPT !.pc = "unlock_failed"])
         /\ Fork(t) => Goes1(t, [th[t] EXCEPT !.pc = "unlock"])
         /\ Unlock(t) =>
              \/ th[t].pc = "unlock" /\ Goes1(t, [th[t] EXCEPT !.pc = "read"])
              \/ /\ th[t].pc = "unlock_failed"
                 /\ Goes1(t, [th[t] EXCEPT !.pc = "idle", !.ret = -1, !.errno = "EAGAIN"])
         /\ ReadErrno(t) \/ ReadInterrupted(t) => Goes1(t, [th[t] EXCEPT !.pc = "wait"])
         /\ ReadEof(t) => Goes1(t, [th[t] EXCEPT !.pc = "idle", !.ret = 1, !.errno = "none"])
         /\ WaitChild(t) \/ WaitInterrupted(t) =>
              Goes1(t, [th[t] EXCEPT !.pc = "idle", !.ret = -1, !.errno = "ECHILD"])
<1> DEFINE x == th[t]
<1>1. x \in Thread /\ th \in [Parents -> Thread] BY DEF ParentType
<1>2. /\ {"idle", "unlock_failed", "unlock", "read", "wait"} \subseteq Points4
      /\ {1, -1} \subseteq Results /\ {"EMFILE", "EAGAIN", "none", "ECHILD"} \subseteq Errors
  BY DEF Points4, Results, Errors
<1>3. x.l \in Refs /\ x.child \in Kids /\ x.new \in News BY <1>1, ThreadFields
<1>4. /\ [x EXCEPT !.sets = @ + 1, !.l = Nobody] \in Thread
      /\ [x EXCEPT !.sets = @ + 1] \in Thread
      /\ \A p \in Points4 : [x EXCEPT !.pc = p] \in Thread
      /\ \A p \in Points4, r \in Results, e \in Errors :
            [x EXCEPT !.pc = p, !.ret = r, !.errno = e] \in Thread
  <2> HIDE DEF x
  <2> QED BY ZenonT(40), <1>1, <1>2, <1>3, ThreadKept
<1>5. ASSUME NEW l, Setting(t, l)
      PROVE  Goes1(t, [th[t] EXCEPT !.sets = @ + 1, !.l = Nobody])
  BY <1>1, <1>4, <1>5 DEF Setting, Goes1
<1>6. ASSUME NEW o, ChangeIab(t, o) PROVE Goes1(t, [th[t] EXCEPT !.sets = @ + 1])
  BY <1>1, <1>4, <1>6 DEF ChangeIab, Goes1
<1>7. ASSUME NEW p \in Points4, th' = [th EXCEPT ![t].pc = p]
      PROVE  Goes1(t, [th[t] EXCEPT !.pc = p])
  BY <1>1, <1>4, <1>7 DEF Goes1
<1>8. ASSUME NEW r \in Results, NEW e \in Errors, Returns(t, r, e)
      PROVE  Goes1(t, [th[t] EXCEPT !.pc = "idle", !.ret = r, !.errno = e])
  BY <1>1, <1>2, <1>4, <1>8 DEF Goes1, Returns
<1>9. LockIab(t) => Goes1(t, [th[t] EXCEPT !.pc = "idle"]) BY <1>2, <1>7 DEF LockIab
<1>10. PipeFails(t) => Goes1(t, [th[t] EXCEPT !.pc = "idle", !.ret = -1, !.errno = "EMFILE"])
  BY <1>2, <1>8 DEF PipeFails
<1>11. ForkFails(t) => Goes1(t, [th[t] EXCEPT !.pc = "unlock_failed"])
  BY <1>2, <1>7 DEF ForkFails
<1>12. Fork(t) => Goes1(t, [th[t] EXCEPT !.pc = "unlock"]) BY <1>2, <1>7 DEF Fork
<1>13. Unlock(t) =>
              \/ th[t].pc = "unlock" /\ Goes1(t, [th[t] EXCEPT !.pc = "read"])
              \/ /\ th[t].pc = "unlock_failed"
                 /\ Goes1(t, [th[t] EXCEPT !.pc = "idle", !.ret = -1, !.errno = "EAGAIN"])
  BY <1>2, <1>7, <1>8 DEF Unlock
<1>14. ReadErrno(t) \/ ReadInterrupted(t) => Goes1(t, [th[t] EXCEPT !.pc = "wait"])
  BY <1>2, <1>7 DEF ReadErrno, ReadInterrupted
<1>15. ReadEof(t) => Goes1(t, [th[t] EXCEPT !.pc = "idle", !.ret = 1, !.errno = "none"])
  BY <1>2, <1>8 DEF ReadEof
<1>16. WaitChild(t) \/ WaitInterrupted(t) =>
         Goes1(t, [th[t] EXCEPT !.pc = "idle", !.ret = -1, !.errno = "ECHILD"])
  BY <1>2, <1>8 DEF WaitChild, WaitInterrupted
<1> QED BY <1>5, <1>6, <1>9, <1>10, <1>11, <1>12, <1>13, <1>14, <1>15, <1>16

LEMMA SwapIabDoes ==
  ASSUME ParentType, NEW t \in Parents, NEW l \in Launchers, SwapIab(t, l)
  PROVE  \E new \in Opt(plan.iabs) :
           /\ Goes1(t, [th[t] EXCEPT !.pc = "lock_iab", !.l = l, !.new = new, !.sets = @ + 1])
           /\ attr' = [attr EXCEPT ![l].mu = TRUE, ![l].ask["iab_set_proc"] = new]
           /\ iab' = [o \in plan.iabs |->
                        IF o \in attr[l].ask["iab_set_proc"] THEN [iab[o] EXCEPT !.mu = FALSE]
                        ELSE iab[o]]
<1>1. th[t] \in Thread /\ th \in [Parents -> Thread] BY DEF ParentType
<1>2. PICK new \in {{}} \cup {{o} : o \in plan.iabs} :
        /\ attr' = [attr EXCEPT ![l].mu = TRUE, ![l].ask["iab_set_proc"] = new]
        /\ iab' = [o \in plan.iabs |->
                     IF o \in attr[l].ask["iab_set_proc"] THEN [iab[o] EXCEPT !.mu = FALSE]
                     ELSE iab[o]]
        /\ th' = [th EXCEPT ![t].pc = "lock_iab", ![t].l = l, ![t].new = new,
                            ![t].sets = @ + 1]
  BY DEF SwapIab
<1>3. new \in News /\ l \in Refs /\ "lock_iab" \in Points4 BY PlanFacts DEF News, Refs, Points4
<1>4. [th[t] EXCEPT !.pc = "lock_iab", !.l = l, !.new = new, !.sets = @ + 1] \in Thread
  <2> DEFINE x == th[t]  n == new  p == "lock_iab"
  <2>1. x.child \in Kids BY <1>1, ThreadFields
  <2>2. 0 \in Results /\ "none" \in Errors BY DEF Results, Errors
  <2>3. n \in News /\ x \in Thread /\ p \in Points4 BY <1>1, <1>3
  <2> HIDE DEF x, n, p
  <2>4. [x EXCEPT !.pc = p, !.l = l, !.new = n, !.sets = @ + 1] \in Thread
    BY <1>3, <2>1, <2>2, <2>3, ThreadKept
  <2> QED BY <2>4 DEF x, n, p
<1>5. Goes1(t, [th[t] EXCEPT !.pc = "lock_iab", !.l = l, !.new = new, !.sets = @ + 1])
  BY <1>1, <1>2, <1>4 DEF Goes1
<1> QED BY <1>2, <1>5 DEF Opt

LEMMA MakePipeDoes ==
  ASSUME ParentType, NEW t \in Parents, MakePipe(t)
  PROVE  \E ch \in Children :
           /\ kid[ch].st = "none" /\ kid' = [kid EXCEPT ![ch].st = "reserved"]
           /\ pipe' = [pipe EXCEPT ![ch].w = {"parent"}]
           /\ Goes1(t, [th[t] EXCEPT !.pc = "fork", !.child = ch])
<1>1. th[t] \in Thread /\ th \in [Parents -> Thread] BY DEF ParentType
<1>2. PICK ch \in Children :
        /\ kid[ch].st = "none" /\ kid' = [kid EXCEPT ![ch].st = "reserved"]
        /\ pipe' = [pipe EXCEPT ![ch].w = {"parent"}]
        /\ th' = [th EXCEPT ![t].pc = "fork", ![t].child = ch]
  BY PlanFacts DEF MakePipe
<1>3. ch \in Kids /\ "fork" \in Points4 BY DEF Kids, Points4
<1>4. [th[t] EXCEPT !.pc = "fork", !.child = ch] \in Thread
  <2> HIDE DEF Thread
  <2> QED BY <1>1, <1>3 DEF Thread
<1> QED BY <1>1, <1>2, <1>4 DEF Goes1

(* cap_launch begins, or finds that the launcher has no purpose. *)
LEMMA LaunchDoes ==
  ASSUME ParentType, NEW t \in Parents, NEW l \in Launchers, Launch(t, l)
  PROVE  \E p \in {"pipe", "idle"}, r \in Results, e \in Errors :
           /\ (p = "pipe") = Purpose(attr[l])
           /\ Goes1(t, [th[t] EXCEPT !.pc = p, !.l = l, !.child = Nobody, !.launches = @ + 1,
                                     !.ret = r, !.errno = e])
           /\ attr' = [attr EXCEPT ![l].mu = Purpose(attr[l])]
<1> DEFINE p == IF Purpose(attr[l]) THEN "pipe" ELSE "idle"
           r == IF Purpose(attr[l]) THEN th[t].ret ELSE -1
           e == IF Purpose(attr[l]) THEN "none" ELSE "EINVAL"
           x == th[t]
<1>1. x \in Thread /\ th \in [Parents -> Thread] BY DEF ParentType
<1>2. x.ret \in Results /\ x.new \in News BY <1>1, ThreadFields
<1>3. p \in {"pipe", "idle"} /\ p \in Points4 /\ r \in Results /\ e \in Errors
  BY <1>2 DEF Points4, Results, Errors
<1>4. (p = "pipe") = Purpose(attr[l]) BY DEF Purpose
<1>5. th' = [th EXCEPT ![t] = [x EXCEPT !.pc = p, !.l = l, !.child = Nobody,
                                        !.launches = @ + 1, !.ret = r, !.errno = e]]
  BY <1>1 DEF Launch
<1>6. Nobody \in Kids /\ l \in Refs BY DEF Kids, Refs
<1> HIDE DEF p, r, e, x
<1>7. [x EXCEPT !.pc = p, !.l = l, !.child = Nobody, !.launches = @ + 1, !.ret = r,
                !.errno = e] \in Thread
  BY <1>1, <1>2, <1>3, <1>6, ThreadKept
<1>8. Goes1(t, [x EXCEPT !.pc = p, !.l = l, !.child = Nobody, !.launches = @ + 1, !.ret = r,
                         !.errno = e])
  BY <1>5, <1>7 DEF Goes1
<1>9. attr' = [attr EXCEPT ![l].mu = Purpose(attr[l])] BY DEF Launch
<1> QED BY <1>3, <1>4, <1>8, <1>9 DEF x

(* A thread after a change. *)
LEMMA Updated ==
  ASSUME NEW x \in Thread, NEW p, NEW r, NEW e, NEW l, NEW ch, NEW n
  PROVE  /\ LET y == [x EXCEPT !.sets = @ + 1, !.l = Nobody]
            IN y.pc = x.pc /\ y.l = Nobody /\ y.new = x.new /\ y.child = x.child /\ y.ret = x.ret
         /\ LET y == [x EXCEPT !.pc = p, !.l = l, !.new = n, !.sets = @ + 1]
            IN y.pc = p /\ y.l = l /\ y.new = n /\ y.child = x.child /\ y.ret = x.ret
         /\ LET y == [x EXCEPT !.sets = @ + 1]
            IN y.pc = x.pc /\ y.l = x.l /\ y.new = x.new /\ y.child = x.child /\ y.ret = x.ret
         /\ LET y == [x EXCEPT !.pc = p]
            IN y.pc = p /\ y.l = x.l /\ y.new = x.new /\ y.child = x.child /\ y.ret = x.ret
         /\ LET y == [x EXCEPT !.pc = p, !.ret = r, !.errno = e]
            IN y.pc = p /\ y.l = x.l /\ y.new = x.new /\ y.child = x.child /\ y.ret = r
         /\ LET y == [x EXCEPT !.pc = p, !.child = ch]
            IN y.pc = p /\ y.l = x.l /\ y.new = x.new /\ y.child = ch /\ y.ret = x.ret
         /\ LET y == [x EXCEPT !.pc = p, !.l = l, !.child = ch, !.launches = @ + 1, !.ret = r,
                               !.errno = e]
            IN y.pc = p /\ y.l = l /\ y.new = x.new /\ y.child = ch /\ y.ret = r
<1> USE DEF Thread
<1>1. LET y == [x EXCEPT !.sets = @ + 1, !.l = Nobody]
      IN y.pc = x.pc /\ y.l = Nobody /\ y.new = x.new /\ y.child = x.child /\ y.ret = x.ret
  OBVIOUS
<1>2. LET y == [x EXCEPT !.pc = p, !.l = l, !.new = n, !.sets = @ + 1]
      IN y.pc = p /\ y.l = l /\ y.new = n /\ y.child = x.child /\ y.ret = x.ret
  OBVIOUS
<1>3. LET y == [x EXCEPT !.sets = @ + 1]
      IN y.pc = x.pc /\ y.l = x.l /\ y.new = x.new /\ y.child = x.child /\ y.ret = x.ret
  OBVIOUS
<1>4. LET y == [x EXCEPT !.pc = p]
      IN y.pc = p /\ y.l = x.l /\ y.new = x.new /\ y.child = x.child /\ y.ret = x.ret
  OBVIOUS
<1>5. LET y == [x EXCEPT !.pc = p, !.ret = r, !.errno = e]
      IN y.pc = p /\ y.l = x.l /\ y.new = x.new /\ y.child = x.child /\ y.ret = r
  OBVIOUS
<1>6. LET y == [x EXCEPT !.pc = p, !.child = ch]
      IN y.pc = p /\ y.l = x.l /\ y.new = x.new /\ y.child = ch /\ y.ret = x.ret
  OBVIOUS
<1>7. LET y == [x EXCEPT !.pc = p, !.l = l, !.child = ch, !.launches = @ + 1, !.ret = r,
                         !.errno = e]
      IN y.pc = p /\ y.l = l /\ y.new = x.new /\ y.child = ch /\ y.ret = r
  OBVIOUS
<1> QED BY <1>1, <1>2, <1>3, <1>4, <1>5, <1>6, <1>7

(* t is now at p, on launcher l, with n to lock, child ch and result r.    *)
Moves(t, p, l, n, ch, r) ==
    /\ th' \in [Parents -> Thread]
    /\ th'[t].pc = p /\ th'[t].l = l /\ th'[t].new = n /\ th'[t].child = ch /\ th'[t].ret = r
    /\ \A u \in Parents \ {t} : th'[u] = th[u]

LEMMA Moved1 ==
  ASSUME ParentType, NEW t \in Parents, NEW x, Goes1(t, x)
  PROVE  Moves(t, x.pc, x.l, x.new, x.child, x.ret)
  BY DEF ParentType, Goes1, Moves

(* The actions of the parent, one by one: where the thread goes. *)
LEMMA ParentMoves ==
  ASSUME ParentType, NEW t \in Parents
  PROVE  LET x == th[t] IN
         /\ \A l : Setting(t, l) => Moves(t, x.pc, Nobody, x.new, x.child, x.ret)
         /\ \A o : ChangeIab(t, o) => Moves(t, x.pc, x.l, x.new, x.child, x.ret)
         /\ LockIab(t) => Moves(t, "idle", x.l, x.new, x.child, x.ret)
         /\ PipeFails(t) => Moves(t, "idle", x.l, x.new, x.child, -1)
         /\ ForkFails(t) => Moves(t, "unlock_failed", x.l, x.new, x.child, x.ret)
         /\ Fork(t) => Moves(t, "unlock", x.l, x.new, x.child, x.ret)
         /\ Unlock(t) => \/ x.pc = "unlock" /\ Moves(t, "read", x.l, x.new, x.child, x.ret)
                         \/ x.pc = "unlock_failed" /\ Moves(t, "idle", x.l, x.new, x.child, -1)
         /\ ReadErrno(t) \/ ReadInterrupted(t) => Moves(t, "wait", x.l, x.new, x.child, x.ret)
         /\ ReadEof(t) => Moves(t, "idle", x.l, x.new, x.child, 1)
         /\ WaitChild(t) \/ WaitInterrupted(t) => Moves(t, "idle", x.l, x.new, x.child, -1)
<1> DEFINE x == th[t]
<1>1. x \in Thread BY DEF ParentType
<1>2. \A y : Goes1(t, y) => Moves(t, y.pc, y.l, y.new, y.child, y.ret) BY Moved1
<1>3. ASSUME NEW p, Goes1(t, [x EXCEPT !.pc = p]) PROVE Moves(t, p, x.l, x.new, x.child, x.ret)
  <2> HIDE DEF x
  <2> DEFINE y == [x EXCEPT !.pc = p]
  <2>1. y.pc = p /\ y.l = x.l /\ y.new = x.new /\ y.child = x.child /\ y.ret = x.ret
    BY <1>1, Updated
  <2>2. Moves(t, y.pc, y.l, y.new, y.child, y.ret) BY <1>2, <1>3
  <2> HIDE DEF y
  <2> QED BY <2>1, <2>2
<1>4. ASSUME NEW r, NEW e, Goes1(t, [x EXCEPT !.pc = "idle", !.ret = r, !.errno = e])
      PROVE  Moves(t, "idle", x.l, x.new, x.child, r)
  <2> HIDE DEF x
  <2> DEFINE y == [x EXCEPT !.pc = "idle", !.ret = r, !.errno = e]
  <2>1. y.pc = "idle" /\ y.l = x.l /\ y.new = x.new /\ y.child = x.child /\ y.ret = r
    BY <1>1, Updated
  <2>2. Moves(t, y.pc, y.l, y.new, y.child, y.ret) BY <1>2, <1>4
  <2> HIDE DEF y
  <2> QED BY <2>1, <2>2
<1>5. ASSUME NEW l, Setting(t, l) PROVE Moves(t, x.pc, Nobody, x.new, x.child, x.ret)
  <2> DEFINE y == [x EXCEPT !.sets = @ + 1, !.l = Nobody]
  <2>1. Goes1(t, y) BY <1>5, ParentSteps
  <2>2. y.pc = x.pc /\ y.l = Nobody /\ y.new = x.new /\ y.child = x.child /\ y.ret = x.ret
    <3> HIDE DEF x
    <3> QED BY <1>1, Updated
  <2>3. Moves(t, y.pc, y.l, y.new, y.child, y.ret) BY <1>2, <2>1
  <2> HIDE DEF y
  <2> QED BY <2>2, <2>3
<1>6. ASSUME NEW o, ChangeIab(t, o) PROVE Moves(t, x.pc, x.l, x.new, x.child, x.ret)
  <2> DEFINE y == [x EXCEPT !.sets = @ + 1]
  <2>1. Goes1(t, y) BY <1>6, ParentSteps
  <2>2. y.pc = x.pc /\ y.l = x.l /\ y.new = x.new /\ y.child = x.child /\ y.ret = x.ret
    <3> HIDE DEF x
    <3> QED BY <1>1, Updated
  <2>3. Moves(t, y.pc, y.l, y.new, y.child, y.ret) BY <1>2, <2>1
  <2> HIDE DEF y
  <2> QED BY <2>2, <2>3
<1>7. LockIab(t) => Moves(t, "idle", x.l, x.new, x.child, x.ret) BY <1>3, ParentSteps
<1>8. PipeFails(t) => Moves(t, "idle", x.l, x.new, x.child, -1) BY <1>4, ParentSteps
<1>9. ForkFails(t) => Moves(t, "unlock_failed", x.l, x.new, x.child, x.ret)
  BY <1>3, ParentSteps
<1>10. Fork(t) => Moves(t, "unlock", x.l, x.new, x.child, x.ret) BY <1>3, ParentSteps
<1>11. Unlock(t) => \/ x.pc = "unlock" /\ Moves(t, "read", x.l, x.new, x.child, x.ret)
                    \/ x.pc = "unlock_failed" /\ Moves(t, "idle", x.l, x.new, x.child, -1)
  BY <1>3, <1>4, ParentSteps
<1>12. ReadErrno(t) \/ ReadInterrupted(t) => Moves(t, "wait", x.l, x.new, x.child, x.ret)
  BY <1>3, ParentSteps
<1>13. ReadEof(t) => Moves(t, "idle", x.l, x.new, x.child, 1) BY <1>4, ParentSteps
<1>14. WaitChild(t) \/ WaitInterrupted(t) => Moves(t, "idle", x.l, x.new, x.child, -1)
  BY <1>4, ParentSteps
<1> QED BY <1>5, <1>6, <1>7, <1>8, <1>9, <1>10, <1>11, <1>12, <1>13, <1>14

LEMMA SwapIabMoves ==
  ASSUME ParentType, NEW t \in Parents, NEW l \in Launchers, SwapIab(t, l)
  PROVE  \E new \in Opt(plan.iabs) :
           /\ Moves(t, "lock_iab", l, new, th[t].child, th[t].ret)
           /\ attr' = [attr EXCEPT ![l].mu = TRUE, ![l].ask["iab_set_proc"] = new]
           /\ iab' = [o \in plan.iabs |->
                        IF o \in attr[l].ask["iab_set_proc"] THEN [iab[o] EXCEPT !.mu = FALSE]
                        ELSE iab[o]]
<1>1. PICK new \in Opt(plan.iabs) :
           /\ Goes1(t, [th[t] EXCEPT !.pc = "lock_iab", !.l = l, !.new = new, !.sets = @ + 1])
           /\ attr' = [attr EXCEPT ![l].mu = TRUE, ![l].ask["iab_set_proc"] = new]
           /\ iab' = [o \in plan.iabs |->
                        IF o \in attr[l].ask["iab_set_proc"] THEN [iab[o] EXCEPT !.mu = FALSE]
                        ELSE iab[o]]
  BY SwapIabDoes
<1> DEFINE x == th[t]
           y == [x EXCEPT !.pc = "lock_iab", !.l = l, !.new = new, !.sets = @ + 1]
<1>2. Goes1(t, y) BY <1>1
<1>3. x \in Thread BY DEF ParentType
<1>4. y.pc = "lock_iab" /\ y.l = l /\ y.new = new /\ y.child = x.child /\ y.ret = x.ret
  <2> HIDE DEF x
  <2> QED BY <1>3, Updated
<1> HIDE DEF y
<1>5. Moves(t, y.pc, y.l, y.new, y.child, y.ret) BY <1>2, Moved1
<1> QED BY <1>1, <1>4, <1>5

LEMMA MakePipeMoves ==
  ASSUME ParentType, NEW t \in Parents, MakePipe(t)
  PROVE  \E ch \in Children :
           /\ kid[ch].st = "none" /\ kid' = [kid EXCEPT ![ch].st = "reserved"]
           /\ pipe' = [pipe EXCEPT ![ch].w = {"parent"}]
           /\ Moves(t, "fork", th[t].l, th[t].new, ch, th[t].ret)
<1>1. PICK ch \in Children :
           /\ kid[ch].st = "none" /\ kid' = [kid EXCEPT ![ch].st = "reserved"]
           /\ pipe' = [pipe EXCEPT ![ch].w = {"parent"}]
           /\ Goes1(t, [th[t] EXCEPT !.pc = "fork", !.child = ch])
  BY MakePipeDoes
<1> DEFINE x == th[t]
           y == [x EXCEPT !.pc = "fork", !.child = ch]
<1>2. Goes1(t, y) BY <1>1
<1>3. x \in Thread BY DEF ParentType
<1>4. y.pc = "fork" /\ y.l = x.l /\ y.new = x.new /\ y.child = ch /\ y.ret = x.ret
  <2> HIDE DEF x
  <2> QED BY <1>3, Updated
<1> HIDE DEF y
<1>5. Moves(t, y.pc, y.l, y.new, y.child, y.ret) BY <1>2, Moved1
<1> QED BY <1>1, <1>4, <1>5

LEMMA LaunchMoves ==
  ASSUME ParentType, NEW t \in Parents, NEW l \in Launchers, Launch(t, l)
  PROVE  \E p \in {"pipe", "idle"}, r \in Results :
           /\ (p = "pipe") = Purpose(attr[l])
           /\ Moves(t, p, l, th[t].new, Nobody, r)
           /\ attr' = [attr EXCEPT ![l].mu = Purpose(attr[l])]
<1>1. PICK p \in {"pipe", "idle"}, r \in Results, e \in Errors :
           /\ (p = "pipe") = Purpose(attr[l])
           /\ Goes1(t, [th[t] EXCEPT !.pc = p, !.l = l, !.child = Nobody, !.launches = @ + 1,
                                     !.ret = r, !.errno = e])
           /\ attr' = [attr EXCEPT ![l].mu = Purpose(attr[l])]
  BY LaunchDoes
<1> DEFINE x == th[t]
           y == [x EXCEPT !.pc = p, !.l = l, !.child = Nobody, !.launches = @ + 1,
                          !.ret = r, !.errno = e]
<1>2. Goes1(t, y) BY <1>1
<1>3. x \in Thread BY DEF ParentType
<1>4. y.pc = p /\ y.l = l /\ y.new = x.new /\ y.child = Nobody /\ y.ret = r
  <2> HIDE DEF x
  <2> QED BY <1>3, Updated
<1> HIDE DEF y
<1>5. Moves(t, y.pc, y.l, y.new, y.child, y.ret) BY <1>2, Moved1
<1> QED BY <1>1, <1>4, <1>5

-----------------------------------------------------------------------------
(* The launchers and the IAB objects                                       *)

(* l's mutex is now m and its IAB a; the other launchers stay. *)
AttrMoves(l, m, a) ==
    /\ DOMAIN attr' = Launchers /\ \A n \in Launchers : AttrOK(attr[n])'
    /\ attr'[l].mu = m /\ attr'[l].ask["iab_set_proc"] = a
    /\ \A n \in Launchers \ {l} : attr'[n] = attr[n]

LEMMA AttrMoved ==
  ASSUME ParentType, plan' = plan, NEW l \in Launchers, NEW y, attr' = [attr EXCEPT ![l] = y],
         DOMAIN y = {"mu", "fn", "prog", "ask"}, y.mu \in BOOLEAN, y.prog \in BOOLEAN,
         Proper(y.ask, plan.iabs)
  PROVE  AttrMoves(l, y.mu, y.ask["iab_set_proc"])
<1>1. DOMAIN attr = Launchers /\ \A n \in Launchers : AttrOK(attr[n]) BY DEF ParentType
<1>2. DOMAIN attr' = Launchers /\ attr'[l] = y /\ \A n \in Launchers \ {l} : attr'[n] = attr[n]
  BY <1>1
<1>3. ASSUME NEW n \in Launchers PROVE AttrOK(attr[n])'
  <2>1. CASE n = l BY <1>2, <2>1 DEF AttrOK
  <2>2. CASE n # l BY <1>1, <1>2, <2>2 DEF AttrOK
  <2> QED BY <2>1, <2>2
<1> QED BY <1>2, <1>3 DEF AttrMoves

LEMMA MutexMoves ==
  ASSUME ParentType, plan' = plan, NEW l \in Launchers, NEW b \in BOOLEAN,
         attr' = [attr EXCEPT ![l].mu = b]
  PROVE  AttrMoves(l, b, attr[l].ask["iab_set_proc"])
<1> DEFINE x == attr[l]
           y == [x EXCEPT !.mu = b]
<1>1. AttrOK(x) /\ DOMAIN attr = Launchers BY DEF ParentType
<1>2. attr' = [attr EXCEPT ![l] = y] BY <1>1
<1>3. /\ DOMAIN y = {"mu", "fn", "prog", "ask"} /\ y.mu = b /\ y.prog = x.prog /\ y.ask = x.ask
  BY <1>1 DEF AttrOK
<1>4. x.prog \in BOOLEAN /\ Proper(x.ask, plan.iabs) BY <1>1 DEF AttrOK
<1> HIDE DEF y, x
<1>5. y.mu \in BOOLEAN /\ y.prog \in BOOLEAN /\ Proper(y.ask, plan.iabs) BY <1>3, <1>4
<1>6. AttrMoves(l, y.mu, y.ask["iab_set_proc"]) BY <1>2, <1>3, <1>5, AttrMoved
<1> QED BY <1>3, <1>6 DEF x

LEMMA CallbackMoves ==
  ASSUME ParentType, plan' = plan, NEW l \in Launchers, NEW fn,
         attr' = [attr EXCEPT ![l].fn = fn]
  PROVE  AttrMoves(l, attr[l].mu, attr[l].ask["iab_set_proc"])
<1> DEFINE x == attr[l]
           y == [x EXCEPT !.fn = fn]
<1>1. AttrOK(x) /\ DOMAIN attr = Launchers BY DEF ParentType
<1>2. attr' = [attr EXCEPT ![l] = y] BY <1>1
<1>3. /\ DOMAIN y = {"mu", "fn", "prog", "ask"} /\ y.mu = x.mu /\ y.prog = x.prog
      /\ y.ask = x.ask
  BY <1>1 DEF AttrOK
<1>4. x.prog \in BOOLEAN /\ x.mu \in BOOLEAN /\ Proper(x.ask, plan.iabs) BY <1>1 DEF AttrOK
<1> HIDE DEF y, x
<1>5. y.mu \in BOOLEAN /\ y.prog \in BOOLEAN /\ Proper(y.ask, plan.iabs) BY <1>3, <1>4
<1>6. AttrMoves(l, y.mu, y.ask["iab_set_proc"]) BY <1>2, <1>3, <1>5, AttrMoved
<1> QED BY <1>3, <1>6 DEF x

(* What may be asked for, one operation at a time. *)
LEMMA ProperSet ==
  ASSUME NEW ask, NEW S, Proper(ask, S)
  PROVE  /\ \A op \in {"setuid", "setgroups", "set_mode", "chroot"} :
               \A v \in Opt(Args[op]) :
                 /\ Proper([ask EXCEPT ![op] = v], S)
                 /\ [ask EXCEPT ![op] = v]["iab_set_proc"] = ask["iab_set_proc"]
         /\ \A new \in Opt(S) : Proper([ask EXCEPT !["iab_set_proc"] = new], S)
<1>1. /\ Args["setuid"] = Uids /\ Args["setgroups"] = Gids /\ Args["set_mode"] = Modes
      /\ Args["chroot"] = Roots
  BY DEF Args
<1>2. ASSUME NEW op \in {"setuid", "setgroups", "set_mode", "chroot"}, NEW v \in Opt(Args[op])
      PROVE  /\ Proper([ask EXCEPT ![op] = v], S)
             /\ [ask EXCEPT ![op] = v]["iab_set_proc"] = ask["iab_set_proc"]
  <2> DEFINE y == [ask EXCEPT ![op] = v]
  <2>1. DOMAIN y = AskOps BY DEF Proper
  <2>2. y[op] = v /\ \A q \in AskOps \ {op} : y[q] = ask[q] BY DEF Proper, AskOps
  <2>3. v \in Opt(Args[op]) OBVIOUS
  <2> HIDE DEF y
  <2>4. op # "iab_set_proc" /\ "iab_set_proc" \in AskOps BY DEF AskOps
  <2>5. y["iab_set_proc"] = ask["iab_set_proc"] BY <2>2, <2>4
  <2>6. y["setuid"] \in Opt(Uids) BY <1>1, <2>2, <2>3 DEF Proper, AskOps
  <2>7. y["setgroups"] \in Opt(Gids) BY <1>1, <2>2, <2>3 DEF Proper, AskOps
  <2>8. y["set_mode"] \in Opt(Modes) BY <1>1, <2>2, <2>3 DEF Proper, AskOps
  <2>9. y["chroot"] \in Opt(Roots) BY <1>1, <2>2, <2>3 DEF Proper, AskOps
  <2>10. Proper(y, S) BY <2>1, <2>5, <2>6, <2>7, <2>8, <2>9 DEF Proper
  <2> QED BY <2>5, <2>10 DEF y
<1>3. ASSUME NEW new \in Opt(S) PROVE Proper([ask EXCEPT !["iab_set_proc"] = new], S)
  BY DEF Proper, AskOps
<1> QED BY <1>2, <1>3

LEMMA AskMoves ==
  ASSUME ParentType, plan' = plan, NEW l \in Launchers,
         NEW op \in {"setuid", "setgroups", "set_mode", "chroot"}, NEW v \in Opt(Args[op]),
         attr' = [attr EXCEPT ![l].ask[op] = v]
  PROVE  AttrMoves(l, attr[l].mu, attr[l].ask["iab_set_proc"])
<1> DEFINE x == attr[l]
           a == x.ask
           b == [a EXCEPT ![op] = v]
           y == [x EXCEPT !.ask = b]
<1>1. AttrOK(x) /\ DOMAIN attr = Launchers BY DEF ParentType
<1>2. attr' = [attr EXCEPT ![l] = y] BY <1>1
<1>3. /\ DOMAIN y = {"mu", "fn", "prog", "ask"} /\ y.mu = x.mu /\ y.prog = x.prog
      /\ y.ask = b
  BY <1>1 DEF AttrOK
<1>4. x.prog \in BOOLEAN /\ x.mu \in BOOLEAN /\ Proper(a, plan.iabs) BY <1>1 DEF AttrOK
<1>5. Proper(b, plan.iabs) /\ b["iab_set_proc"] = a["iab_set_proc"]
  <2> HIDE DEF a
  <2> QED BY <1>4, ProperSet
<1> HIDE DEF y, b, a, x
<1>6. y.mu \in BOOLEAN /\ y.prog \in BOOLEAN /\ Proper(y.ask, plan.iabs) BY <1>3, <1>4, <1>5
<1>7. AttrMoves(l, y.mu, y.ask["iab_set_proc"]) BY <1>2, <1>3, <1>6, AttrMoved
<1> QED BY <1>3, <1>5, <1>7 DEF x, a

(* What the setters of one operation do to a launcher. *)
LEMMA SettersAsk ==
  ASSUME ParentType, plan' = plan, NEW t, NEW l \in Launchers, SetAttr(t, l) \/ SetChroot(t, l)
  PROVE  \E op \in {"setuid", "setgroups", "set_mode", "chroot"} : \E v \in Opt(Args[op]) :
           attr' = [attr EXCEPT ![l].ask[op] = v]
<1>1. CASE SetAttr(t, l)
  <2>1. PICK s \in plan.settings : attr' = [attr EXCEPT ![l].ask[s[1]] = {s[2]}]
    BY <1>1 DEF SetAttr
  <2>2. s[1] \in {"setuid", "setgroups", "set_mode", "chroot"} /\ s[2] \in Args[s[1]]
    BY PlanFacts
  <2>3. {s[2]} \in Opt(Args[s[1]]) BY <2>2 DEF Opt
  <2> QED BY <2>1, <2>2, <2>3
<1>2. CASE SetChroot(t, l)
  <2>1. PICK s \in plan.settings : s[1] = "chroot" /\
          \E copy \in {{s[2]}, {}} : attr' = [attr EXCEPT ![l].ask["chroot"] = copy]
    BY <1>2 DEF SetChroot
  <2>2. s[2] \in Args["chroot"] BY <2>1, PlanFacts
  <2>3. {s[2]} \in Opt(Args["chroot"]) /\ {} \in Opt(Args["chroot"]) BY <2>2 DEF Opt
  <2> QED BY <2>1, <2>3
<1> QED BY <1>1, <1>2

LEMMA SwapMoves ==
  ASSUME ParentType, plan' = plan, NEW l \in Launchers, NEW new \in Opt(plan.iabs),
         attr' = [attr EXCEPT ![l].mu = TRUE, ![l].ask["iab_set_proc"] = new]
  PROVE  AttrMoves(l, TRUE, new)
<1> DEFINE x == attr[l]
           a == x.ask
           b == [a EXCEPT !["iab_set_proc"] = new]
           y == [x EXCEPT !.mu = TRUE, !.ask = b]
<1>1. AttrOK(x) /\ DOMAIN attr = Launchers BY DEF ParentType
<1>2. attr' = [attr EXCEPT ![l] = y] BY <1>1 DEF AttrOK
<1>3. /\ DOMAIN y = {"mu", "fn", "prog", "ask"} /\ y.mu = TRUE /\ y.prog = x.prog
      /\ y.ask = b
  BY <1>1 DEF AttrOK
<1>4. x.prog \in BOOLEAN /\ x.mu \in BOOLEAN /\ Proper(a, plan.iabs) BY <1>1 DEF AttrOK
<1>5. Proper(b, plan.iabs) /\ b["iab_set_proc"] = new
  <2> HIDE DEF a
  <2>1. Proper(b, plan.iabs) BY <1>4, ProperSet
  <2>2. b["iab_set_proc"] = new BY <1>4 DEF Proper, AskOps
  <2> QED BY <2>1, <2>2
<1> HIDE DEF y, b, a, x
<1>6. y.mu \in BOOLEAN /\ y.prog \in BOOLEAN /\ Proper(y.ask, plan.iabs) BY <1>3, <1>4, <1>5
<1>7. AttrMoves(l, y.mu, y.ask["iab_set_proc"]) BY <1>2, <1>3, <1>6, AttrMoved
<1> QED BY <1>3, <1>5, <1>7

(* The IAB objects in S have their mutex set to b. *)
Relocks(S, b) ==
    iab' = [o \in plan.iabs |-> IF o \in S THEN [iab[o] EXCEPT !.mu = b] ELSE iab[o]]

IabType == [plan.iabs -> [mu : BOOLEAN, val : Iab]]

LEMMA Relocked ==
  ASSUME ParentType, NEW S, NEW b \in BOOLEAN, Relocks(S, b)
  PROVE  /\ iab' \in IabType
         /\ \A o \in plan.iabs : /\ iab'[o].val = iab[o].val
                                 /\ iab'[o].mu = IF o \in S THEN b ELSE iab[o].mu
<1>1. iab \in IabType BY DEF ParentType, IabType
<1> HIDE DEF Iab
<1> QED BY <1>1 DEF Relocks, IabType

(* One has its value changed. *)
LEMMA Revalued ==
  ASSUME ParentType, NEW q \in plan.iabs, NEW v \in plan.values,
         iab' = [iab EXCEPT ![q].val = v]
  PROVE  /\ iab' \in IabType
         /\ \A o \in plan.iabs : /\ iab'[o].mu = iab[o].mu
                                 /\ o # q => iab'[o].val = iab[o].val
<1>1. iab \in IabType BY DEF ParentType, IabType
<1>2. v \in Iab BY PlanFacts
<1> HIDE DEF Iab
<1> QED BY <1>1, <1>2 DEF IabType

-----------------------------------------------------------------------------
(* The actions of the parent, as far as mutexes and IAB objects go: a      *)
(* thread outside of a call sets something; changes an IAB; begins to swap *)
(* one or ends; begins a launch; goes on with the mutex held; releases it; *)
(* goes on without.                                                        *)
SameAsk(l) == attr[l].ask["iab_set_proc"]

Sets(t, l) == /\ th[t].pc = "idle" /\ ~ attr[l].mu
              /\ Moves(t, "idle", Nobody, th[t].new, th[t].child, th[t].ret)
              /\ AttrMoves(l, FALSE, SameAsk(l)) /\ iab' = iab

Changes(t, o) == /\ th[t].pc = "idle" /\ ~ iab[o].mu /\ o \in plan.iabs
                 /\ Moves(t, "idle", th[t].l, th[t].new, th[t].child, th[t].ret)
                 /\ attr' = attr
                 /\ \E v \in plan.values : iab' = [iab EXCEPT ![o].val = v]

Swaps(t, l, new) ==
    /\ th[t].pc = "idle" /\ ~ attr[l].mu /\ new \in Opt(plan.iabs)
    /\ Moves(t, "lock_iab", l, new, th[t].child, th[t].ret)
    /\ AttrMoves(l, TRUE, new)
    /\ Relocks(SameAsk(l), FALSE)

Locks(t) ==
    /\ th[t].pc = "lock_iab" /\ \A o \in th[t].new : ~ iab[o].mu
    /\ Moves(t, "idle", th[t].l, th[t].new, th[t].child, th[t].ret)
    /\ AttrMoves(th[t].l, FALSE, SameAsk(th[t].l))
    /\ Relocks(th[t].new, TRUE)

Begins(t, l, p, r) ==
    /\ th[t].pc = "idle" /\ ~ attr[l].mu /\ p \in {"pipe", "idle"} /\ r \in Results
    /\ Moves(t, p, l, th[t].new, Nobody, r)
    /\ AttrMoves(l, p = "pipe", SameAsk(l)) /\ iab' = iab

Continues(t, p, ch) ==
    /\ th[t].pc \in {"pipe", "fork"} /\ p \in {"fork", "unlock", "unlock_failed"}
    /\ Moves(t, p, th[t].l, th[t].new, ch, th[t].ret)
    /\ attr' = attr /\ iab' = iab

Releases(t, p, r) ==
    /\ th[t].pc \in {"pipe", "unlock", "unlock_failed"} /\ p \in {"idle", "read"}
    /\ Moves(t, p, th[t].l, th[t].new, th[t].child, r)
    /\ AttrMoves(th[t].l, FALSE, SameAsk(th[t].l)) /\ iab' = iab

Follows1(t, p, r) ==
    /\ th[t].pc \in {"read", "wait"} /\ p \in {"wait", "idle"}
    /\ Moves(t, p, th[t].l, th[t].new, th[t].child, r)
    /\ attr' = attr /\ iab' = iab

ParentKind(t) ==
    \/ \E l \in Launchers : Sets(t, l)
    \/ \E o \in plan.iabs : Changes(t, o)
    \/ \E l \in Launchers, new \in Opt(plan.iabs) : Swaps(t, l, new)
    \/ Locks(t)
    \/ \E l \in Launchers, p \in {"pipe", "idle"}, r \in Results : Begins(t, l, p, r)
    \/ \E p, ch : Continues(t, p, ch)
    \/ \E p, r : Releases(t, p, r)
    \/ \E p, r : Follows1(t, p, r)

LEMMA ParentKinds ==
  ASSUME ParentType, MutexInv, plan' = plan, NEW t \in Parents, Parent(t)
  PROVE  ParentKind(t)
<1> DEFINE x == th[t]
<1>0. plan.launchers \subseteq Launchers BY PlanFacts
<1>1. \A l \in Launchers : attr[l].mu \in BOOLEAN BY DEF ParentType, AttrOK
<1>2. x.pc \in Holding => x.l \in Launchers BY DEF MutexInv
<1>3. ASSUME NEW l \in Launchers, SetCallback(t, l) PROVE Sets(t, l)
  <2>1. x.pc = "idle" /\ ~ attr[l].mu /\ iab' = iab BY <1>3 DEF SetCallback, Setting
  <2>2. Moves(t, "idle", Nobody, x.new, x.child, x.ret)
    BY <1>3, <2>1, ParentMoves DEF SetCallback
  <2>3. AttrMoves(l, attr[l].mu, SameAsk(l))
    BY <1>3, CallbackMoves DEF SetCallback, SameAsk
  <2>4. attr[l].mu = FALSE BY <1>1, <2>1
  <2> QED BY <2>1, <2>2, <2>3, <2>4 DEF Sets
<1>4. ASSUME NEW l \in Launchers, SetAttr(t, l) \/ SetChroot(t, l) PROVE Sets(t, l)
  <2>0. Setting(t, l) BY <1>4 DEF SetAttr, SetChroot
  <2>1. x.pc = "idle" /\ ~ attr[l].mu /\ iab' = iab BY <2>0 DEF Setting
  <2>2. Moves(t, "idle", Nobody, x.new, x.child, x.ret) BY <2>0, <2>1, ParentMoves
  <2>3. AttrMoves(l, attr[l].mu, SameAsk(l))
    BY <1>4, SettersAsk, AskMoves DEF SameAsk
  <2>4. attr[l].mu = FALSE BY <1>1, <2>1
  <2> QED BY <2>1, <2>2, <2>3, <2>4 DEF Sets
<1>5. ASSUME NEW l \in Launchers, SwapIab(t, l)
      PROVE  \E new \in Opt(plan.iabs) : Swaps(t, l, new)
  <2>1. PICK new \in Opt(plan.iabs) :
           /\ Moves(t, "lock_iab", l, new, th[t].child, th[t].ret)
           /\ attr' = [attr EXCEPT ![l].mu = TRUE, ![l].ask["iab_set_proc"] = new]
           /\ iab' = [o \in plan.iabs |->
                        IF o \in attr[l].ask["iab_set_proc"] THEN [iab[o] EXCEPT !.mu = FALSE]
                        ELSE iab[o]]
    BY <1>5, SwapIabMoves
  <2>2. AttrMoves(l, TRUE, new) BY <2>1, SwapMoves
  <2>3. x.pc = "idle" /\ ~ attr[l].mu BY <1>5 DEF SwapIab
  <2> QED BY <2>1, <2>2, <2>3 DEF Swaps, SameAsk, Relocks
<1>6. ASSUME NEW o \in plan.iabs, ChangeIab(t, o) PROVE Changes(t, o)
  <2>1. x.pc = "idle" BY <1>6 DEF ChangeIab
  <2>2. Moves(t, "idle", x.l, x.new, x.child, x.ret) BY <1>6, <2>1, ParentMoves
  <2> QED BY <1>6, <2>1, <2>2 DEF ChangeIab, Changes
<1>7. ASSUME LockIab(t) PROVE Locks(t)
  <2>1. x.pc = "lock_iab" BY <1>7 DEF LockIab
  <2>2. Moves(t, "idle", x.l, x.new, x.child, x.ret) BY <1>7, ParentMoves
  <2>3. x.l \in Launchers BY <1>2, <2>1 DEF Holding
  <2>4. AttrMoves(x.l, FALSE, SameAsk(x.l)) BY <1>7, <2>3, MutexMoves DEF LockIab, SameAsk
  <2> QED BY <1>7, <2>1, <2>2, <2>4 DEF LockIab, Locks, Relocks
<1>8. ASSUME NEW l \in Launchers, Launch(t, l)
      PROVE  \E p \in {"pipe", "idle"}, r \in Results : Begins(t, l, p, r)
  <2>1. PICK p \in {"pipe", "idle"}, r \in Results :
           /\ (p = "pipe") = Purpose(attr[l])
           /\ Moves(t, p, l, th[t].new, Nobody, r)
           /\ attr' = [attr EXCEPT ![l].mu = Purpose(attr[l])]
    BY <1>8, LaunchMoves
  <2> DEFINE b == (p = "pipe")
  <2>2. attr' = [attr EXCEPT ![l].mu = b] /\ b \in BOOLEAN BY <2>1
  <2> HIDE DEF b
  <2>3. AttrMoves(l, b, SameAsk(l)) BY <2>2, MutexMoves DEF SameAsk
  <2>4. x.pc = "idle" /\ ~ attr[l].mu /\ iab' = iab BY <1>8 DEF Launch
  <2> QED BY <2>1, <2>3, <2>4 DEF Begins, b
<1>9. ASSUME MakePipe(t) PROVE \E p, ch : Continues(t, p, ch)
  <2>1. PICK ch \in Children : Moves(t, "fork", x.l, x.new, ch, x.ret) BY <1>9, MakePipeMoves
  <2> QED BY <1>9, <2>1 DEF MakePipe, Continues
<1>10. ASSUME Fork(t) PROVE Continues(t, "unlock", x.child)
  BY <1>10, ParentMoves DEF Fork, Continues
<1>11. ASSUME ForkFails(t) PROVE Continues(t, "unlock_failed", x.child)
  BY <1>11, ParentMoves DEF ForkFails, Continues
<1>12. ASSUME PipeFails(t) PROVE Releases(t, "idle", -1)
  <2>1. x.pc = "pipe" /\ iab' = iab BY <1>12 DEF PipeFails
  <2>2. x.l \in Launchers BY <1>2, <2>1 DEF Holding
  <2>3. AttrMoves(x.l, FALSE, SameAsk(x.l)) BY <1>12, <2>2, MutexMoves DEF PipeFails, SameAsk
  <2> QED BY <1>12, <2>1, <2>3, ParentMoves DEF Releases
<1>13. ASSUME Unlock(t) PROVE \E p, r : Releases(t, p, r)
  <2>1. x.pc \in {"unlock", "unlock_failed"} /\ iab' = iab BY <1>13 DEF Unlock
  <2>2. x.l \in Launchers BY <1>2, <2>1 DEF Holding
  <2>3. AttrMoves(x.l, FALSE, SameAsk(x.l)) BY <1>13, <2>2, MutexMoves DEF Unlock, SameAsk
  <2> QED BY <1>13, <2>1, <2>3, ParentMoves DEF Releases
<1>14. ASSUME ReadErrno(t) \/ ReadInterrupted(t) PROVE Follows1(t, "wait", x.ret)
  BY <1>14, ParentMoves DEF ReadErrno, ReadInterrupted, Follows1
<1>15. ASSUME ReadEof(t) PROVE Follows1(t, "idle", 1)
  BY <1>15, ParentMoves DEF ReadEof, Follows1
<1>16. ASSUME WaitChild(t) \/ WaitInterrupted(t) PROVE Follows1(t, "idle", -1)
  BY <1>16, ParentMoves DEF WaitChild, WaitInterrupted, Follows1
<1> QED BY <1>0, <1>3, <1>4, <1>5, <1>6, <1>7, <1>8, <1>9, <1>10, <1>11, <1>12, <1>13, <1>14,
           <1>15, <1>16 DEF Parent, Finish, Setter, ParentKind

LEMMA ParentTypeStep ==
  ASSUME ParentType, plan' = plan, NEW t \in Parents, ParentKind(t)
  PROVE  ParentType'
<1>1. th' \in [Parents -> Thread]
  BY DEF ParentKind, Sets, Changes, Swaps, Locks, Begins, Continues, Releases, Follows1, Moves
<1>2. DOMAIN attr' = Launchers /\ \A l \in Launchers : AttrOK(attr[l])'
  <2>1. CASE attr' = attr BY <2>1 DEF ParentType, AttrOK
  <2>2. CASE \E l, m, a : AttrMoves(l, m, a) BY <2>2 DEF AttrMoves
  <2>3. attr' = attr \/ \E l, m, a : AttrMoves(l, m, a)
    BY DEF ParentKind, Sets, Changes, Swaps, Locks, Begins, Continues, Releases, Follows1
  <2> QED BY <2>1, <2>2, <2>3
<1>3. iab' \in [plan.iabs -> [mu : BOOLEAN, val : Iab]]
  <2>1. CASE iab' = iab BY <2>1 DEF ParentType
  <2>2. CASE \E o \in plan.iabs : Changes(t, o) BY <2>2, Revalued DEF Changes, IabType
  <2>3. CASE \E l \in Launchers, new \in Opt(plan.iabs) : Swaps(t, l, new)
    BY <2>3, Relocked DEF Swaps, IabType
  <2>4. CASE Locks(t) BY <2>4, Relocked DEF Locks, IabType
  <2> QED BY <2>1, <2>2, <2>3, <2>4 DEF ParentKind, Sets, Begins, Continues, Releases, Follows1
<1> QED BY <1>1, <1>2, <1>3 DEF ParentType

(* A mutex is held by the thread inside a call on the launcher. *)
LEMMA MutexStep ==
  ASSUME ParentType, MutexInv, plan' = plan, NEW t \in Parents, ParentKind(t)
  PROVE  MutexInv'
<1> DEFINE In(y, l) == y.l = l /\ y.pc \in Holding
<1>0. /\ {"lock_iab", "pipe", "fork", "unlock", "unlock_failed"} = Holding
      /\ "idle" \notin Holding /\ "read" \notin Holding /\ "wait" \notin Holding
  BY DEF Holding
<1>1. /\ \A u \in Parents : th[u].pc \in Holding => th[u].l \in Launchers /\ attr[th[u].l].mu
      /\ \A u, v \in Parents, l \in Launchers : In(th[u], l) /\ In(th[v], l) => u = v
      /\ \A l \in Launchers : attr[l].mu => \E u \in Parents : In(th[u], l)
  BY DEF MutexInv, Holds
<1>2. SUFFICES
      /\ \A u \in Parents : th'[u].pc \in Holding => th'[u].l \in Launchers /\ attr'[th'[u].l].mu
      /\ \A u, v \in Parents, l \in Launchers : In(th'[u], l) /\ In(th'[v], l) => u = v
      /\ \A l \in Launchers : attr'[l].mu => \E u \in Parents : In(th'[u], l)
  BY DEF MutexInv, Holds
<1>3. \A u \in Parents \ {t} : th'[u] = th[u]
  BY DEF ParentKind, Sets, Changes, Swaps, Locks, Begins, Continues, Releases, Follows1, Moves
<1> HIDE DEF Holding
<1>4. CASE \E l \in Launchers : Sets(t, l)
  BY <1>0, <1>1, <1>3, <1>4 DEF Sets, Moves, AttrMoves
<1>5. CASE \E o \in plan.iabs : Changes(t, o)
  BY <1>0, <1>1, <1>3, <1>5 DEF Changes, Moves
<1>6. CASE \E l \in Launchers, new \in Opt(plan.iabs) : Swaps(t, l, new)
  BY <1>0, <1>1, <1>3, <1>6 DEF Swaps, Moves, AttrMoves
<1>7. CASE Locks(t)
  BY <1>0, <1>1, <1>3, <1>7 DEF Locks, Moves, AttrMoves
<1>8. CASE \E l \in Launchers, p \in {"pipe", "idle"}, r \in Results : Begins(t, l, p, r)
  <2>1. PICK l \in Launchers, p \in {"pipe", "idle"}, r \in Results : Begins(t, l, p, r) BY <1>8
  <2>2. th[t].pc = "idle" /\ ~ attr[l].mu /\ th'[t].pc = p /\ th'[t].l = l
    BY <2>1 DEF Begins, Moves
  <2>3. (p = "pipe" <=> attr'[l].mu) /\ \A n \in Launchers \ {l} : attr'[n] = attr[n]
    BY <2>1 DEF Begins, AttrMoves
  <2>4. CASE p = "pipe" BY <1>0, <1>1, <1>3, <2>2, <2>3, <2>4
  <2>5. CASE p = "idle" BY <1>0, <1>1, <1>3, <2>2, <2>3, <2>5
  <2> QED BY <2>4, <2>5
<1>9. CASE \E p, ch : Continues(t, p, ch)
  BY <1>0, <1>1, <1>3, <1>9 DEF Continues, Moves
<1>10. CASE \E p, r : Releases(t, p, r)
  BY <1>0, <1>1, <1>3, <1>10 DEF Releases, Moves, AttrMoves
<1>11. CASE \E p, r : Follows1(t, p, r)
  BY <1>0, <1>1, <1>3, <1>11 DEF Follows1, Moves
<1> QED BY <1>4, <1>5, <1>6, <1>7, <1>8, <1>9, <1>10, <1>11 DEF ParentKind

(* What the actions other than the two halves of cap_launcher_set_iab do   *)
(* not change: which launchers are settled, what they have, which IAB      *)
(* objects are locked.                                                     *)
LEMMA OwnersStay ==
  ASSUME ParentType, MutexInv, OwnerInv, plan' = plan, NEW t \in Parents, ParentKind(t),
         th[t].pc # "lock_iab", th'[t].pc # "lock_iab"
  PROVE  /\ \A u \in Parents \ {t} : th'[u] = th[u]
         /\ \A l \in Launchers : (Settled(l)' <=> Settled(l))
                                 /\ attr'[l].ask["iab_set_proc"] = attr[l].ask["iab_set_proc"]
         /\ \A o \in plan.iabs : /\ iab'[o].mu = iab[o].mu
                                 /\ iab[o].mu => iab'[o].val = iab[o].val
<1>1. \A u \in Parents \ {t} : th'[u] = th[u]
  BY DEF ParentKind, Sets, Changes, Swaps, Locks, Begins, Continues, Releases, Follows1, Moves
<1>2. \A l \in Launchers : Settled(l)' <=> Settled(l) BY <1>1 DEF Settled
<1>3. \A l, new : ~ Swaps(t, l, new) BY DEF Swaps, Moves
<1>4. ~ Locks(t) BY DEF Locks
<1>5. ASSUME NEW l \in Launchers
      PROVE  attr'[l].ask["iab_set_proc"] = attr[l].ask["iab_set_proc"]
  <2>1. attr' = attr \/ \E n, m : AttrMoves(n, m, SameAsk(n))
    BY <1>3, <1>4 DEF ParentKind, Sets, Changes, Begins, Continues, Releases, Follows1
  <2> QED BY <2>1 DEF AttrMoves, SameAsk
<1>6. ASSUME NEW o \in plan.iabs
      PROVE  iab'[o].mu = iab[o].mu /\ (iab[o].mu => iab'[o].val = iab[o].val)
  <2>1. CASE iab' = iab BY <2>1
  <2>2. CASE \E q \in plan.iabs : Changes(t, q)
    <3>1. PICK q \in plan.iabs, v \in plan.values :
            ~ iab[q].mu /\ iab' = [iab EXCEPT ![q].val = v]
      BY <2>2 DEF Changes
    <3> QED BY <3>1, Revalued
  <2> QED BY <1>3, <1>4, <2>1, <2>2 DEF ParentKind, Sets, Begins, Continues, Releases, Follows1
<1> QED BY <1>1, <1>2, <1>5, <1>6

(* cap_launcher_set_iab has unlocked the old IAB. *)
LEMMA OwnersSwap ==
  ASSUME ParentType, MutexInv, OwnerInv, plan' = plan, NEW t \in Parents,
         NEW l \in Launchers, NEW new \in Opt(plan.iabs), Swaps(t, l, new)
  PROVE  /\ OwnerInv'
         /\ Settled(l) /\ ~ Settled(l)'
         /\ \A m \in Launchers \ {l} : (Settled(m)' <=> Settled(m)) /\ attr'[m] = attr[m]
         /\ \A o \in plan.iabs : iab'[o].val = iab[o].val
<1>1. /\ \A u \in Parents \ {t} : th'[u] = th[u]
      /\ th[t].pc = "idle" /\ th'[t].pc = "lock_iab" /\ th'[t].l = l /\ th'[t].new = new
      /\ ~ attr[l].mu
  BY DEF Swaps, Moves
<1>2. /\ attr'[l].ask["iab_set_proc"] = new
      /\ \A m \in Launchers \ {l} : attr'[m] = attr[m]
  BY DEF Swaps, AttrMoves
<1>3. \A u \in Parents : th[u].pc = "lock_iab" => th[u].l \in Launchers /\ th[u].l # l
  BY <1>1 DEF MutexInv, Holding
<1>4. Settled(l) /\ ~ Settled(l)' BY <1>1, <1>3 DEF Settled
<1>5. ASSUME NEW m \in Launchers \ {l} PROVE Settled(m)' <=> Settled(m)
  BY <1>1 DEF Settled
<1> DEFINE old == SameAsk(l)
<1>6. \A o \in plan.iabs : /\ iab'[o].val = iab[o].val
                           /\ iab'[o].mu = IF o \in old THEN FALSE ELSE iab[o].mu
  BY Relocked DEF Swaps
<1>7. \A u \in Parents : th'[u].pc = "lock_iab" =>
          th'[u].new = attr'[th'[u].l].ask["iab_set_proc"]
  BY <1>1, <1>2, <1>3 DEF OwnerInv
<1>8. ASSUME NEW o \in plan.iabs
      PROVE  /\ ~ Owns(l, o)' /\ \A m \in Launchers \ {l} : Owns(m, o)' <=> Owns(m, o)
             /\ o \in old => Owns(l, o)
             /\ o \notin old => ~ Owns(l, o)
  BY <1>2, <1>4, <1>5 DEF Owns, SameAsk
<1>9. ASSUME NEW o \in plan.iabs
      PROVE  /\ \A m \in Launchers : Owns(m, o) => iab[o].mu
             /\ \A m, n \in Launchers : Owns(m, o) /\ Owns(n, o) => m = n
             /\ iab[o].mu => \E m \in Launchers : Owns(m, o)
  BY DEF OwnerInv
<1>10. ASSUME NEW o \in plan.iabs
       PROVE  /\ \A m \in Launchers : Owns(m, o)' => iab'[o].mu
              /\ \A m, n \in Launchers : Owns(m, o)' /\ Owns(n, o)' => m = n
              /\ iab'[o].mu => \E m \in Launchers : Owns(m, o)'
  <2> HIDE DEF old, Owns
  <2>1. CASE o \in old BY <1>6, <1>8, <1>9, <2>1
  <2>2. CASE o \notin old BY <1>6, <1>8, <1>9, <2>2
  <2> QED BY <2>1, <2>2
<1>11. OwnerInv' BY <1>7, <1>10 DEF OwnerInv
<1> QED BY <1>2, <1>4, <1>5, <1>6, <1>11

(* cap_launcher_set_iab has locked the new one. *)
LEMMA OwnersLock ==
  ASSUME ParentType, MutexInv, OwnerInv, plan' = plan, NEW t \in Parents, Locks(t)
  PROVE  /\ OwnerInv'
         /\ ~ Settled(th[t].l)
         /\ \A m \in Launchers : attr'[m].ask["iab_set_proc"] = attr[m].ask["iab_set_proc"]
         /\ \A o \in plan.iabs : iab'[o].val = iab[o].val
<1>0. PICK l, new : l \in Launchers /\ l = th[t].l /\ new = th[t].new
  BY DEF MutexInv, Holding, Locks
<1>1. /\ \A u \in Parents \ {t} : th'[u] = th[u]
      /\ th[t].pc = "lock_iab" /\ th'[t].pc = "idle"
      /\ \A o \in new : ~ iab[o].mu
  BY <1>0 DEF Locks, Moves
<1>2. new = attr[l].ask["iab_set_proc"] BY <1>0, <1>1 DEF OwnerInv
<1>3. /\ attr'[l].ask["iab_set_proc"] = new
      /\ \A m \in Launchers \ {l} : attr'[m] = attr[m]
  BY <1>0, <1>2 DEF Locks, AttrMoves, SameAsk
<1>4. \A u \in Parents \ {t} : th[u].pc = "lock_iab" => th[u].l # l
  BY <1>0, <1>1 DEF MutexInv, Holds, Holding
<1>5. ~ Settled(l) /\ Settled(l)' BY <1>0, <1>1, <1>4 DEF Settled
<1>6. ASSUME NEW m \in Launchers \ {l} PROVE Settled(m)' <=> Settled(m)
  BY <1>0, <1>1, Locks(t) DEF Settled, Locks, Moves
<1>7. \A o \in plan.iabs : /\ iab'[o].val = iab[o].val
                           /\ iab'[o].mu = IF o \in new THEN TRUE ELSE iab[o].mu
  <2>1. Relocks(new, TRUE) BY <1>0 DEF Locks
  <2> QED BY <2>1, Relocked
<1>8. \A u \in Parents : th'[u].pc = "lock_iab" =>
          th'[u].new = attr'[th'[u].l].ask["iab_set_proc"]
  <2> SUFFICES ASSUME NEW u \in Parents, th'[u].pc = "lock_iab"
               PROVE  th'[u].new = attr'[th'[u].l].ask["iab_set_proc"]
    OBVIOUS
  <2>1. u # t /\ th'[u] = th[u] BY <1>1
  <2>2. th[u].l \in Launchers BY <2>1 DEF MutexInv, Holding
  <2> QED BY <1>3, <2>1, <2>2, <1>4 DEF OwnerInv
<1>9. ASSUME NEW o \in plan.iabs
      PROVE  /\ ~ Owns(l, o) /\ \A m \in Launchers \ {l} : Owns(m, o)' <=> Owns(m, o)
             /\ o \in new <=> Owns(l, o)'
  BY <1>2, <1>3, <1>5, <1>6 DEF Owns
<1>10. ASSUME NEW o \in plan.iabs
      PROVE  /\ \A m \in Launchers : Owns(m, o) => iab[o].mu
             /\ \A m, n \in Launchers : Owns(m, o) /\ Owns(n, o) => m = n
             /\ iab[o].mu => \E m \in Launchers : Owns(m, o)
  BY DEF OwnerInv
<1>11. ASSUME NEW o \in plan.iabs
       PROVE  /\ \A m \in Launchers : Owns(m, o)' => iab'[o].mu
              /\ \A m, n \in Launchers : Owns(m, o)' /\ Owns(n, o)' => m = n
              /\ iab'[o].mu => \E m \in Launchers : Owns(m, o)'
  <2> HIDE DEF Owns
  <2>1. CASE o \in new
    <3>1. ~ iab[o].mu BY <1>1, <2>1
    <3> QED BY <1>0, <1>2, <1>7, <1>9, <1>10, <2>1, <3>1
  <2>2. CASE o \notin new BY <1>7, <1>9, <1>10, <2>2
  <2> QED BY <2>1, <2>2
<1>12. OwnerInv' BY <1>8, <1>11 DEF OwnerInv
<1> QED BY <1>0, <1>2, <1>3, <1>5, <1>7, <1>12

(* A launcher owns an IAB exactly while the IAB is locked. *)
LEMMA OwnerStep ==
  ASSUME ParentType, MutexInv, OwnerInv, plan' = plan, NEW t \in Parents, ParentKind(t)
  PROVE  OwnerInv'
<1>1. CASE th[t].pc # "lock_iab" /\ th'[t].pc # "lock_iab"
  <2>1. /\ \A u \in Parents \ {t} : th'[u] = th[u]
        /\ \A l \in Launchers : (Settled(l)' <=> Settled(l))
                                 /\ attr'[l].ask["iab_set_proc"] = attr[l].ask["iab_set_proc"]
        /\ \A o \in plan.iabs : iab'[o].mu = iab[o].mu
    BY <1>1, OwnersStay
  <2>2. \A u \in Parents : th[u].pc = "lock_iab" => th[u].l \in Launchers
    BY DEF MutexInv, Holding
  <2>3. \A u \in Parents : th'[u].pc = "lock_iab" =>
          th'[u].new = attr'[th'[u].l].ask["iab_set_proc"]
    BY <1>1, <2>1, <2>2 DEF OwnerInv
  <2>4. \A l \in Launchers, o \in plan.iabs : Owns(l, o)' <=> Owns(l, o) BY <2>1 DEF Owns
  <2> HIDE DEF Owns
  <2>5. ASSUME NEW o \in plan.iabs
        PROVE  /\ \A m \in Launchers : Owns(m, o)' => iab'[o].mu
               /\ \A m, n \in Launchers : Owns(m, o)' /\ Owns(n, o)' => m = n
               /\ iab'[o].mu => \E m \in Launchers : Owns(m, o)'
    BY <2>1, <2>4 DEF OwnerInv
  <2> QED BY <2>3, <2>5 DEF OwnerInv
<1>2. CASE th[t].pc = "lock_iab"
  <2>1. Locks(t)
    BY <1>2 DEF ParentKind, Sets, Changes, Swaps, Begins, Continues, Releases, Follows1
  <2> QED BY <2>1, OwnersLock
<1>3. CASE th[t].pc # "lock_iab" /\ th'[t].pc = "lock_iab"
  <2>1. PICK l \in Launchers, new \in Opt(plan.iabs) : Swaps(t, l, new)
    BY <1>3 DEF ParentKind, Sets, Changes, Locks, Begins, Continues, Releases, Follows1, Moves
  <2> QED BY <2>1, OwnersSwap
<1> QED BY <1>1, <1>2, <1>3

-----------------------------------------------------------------------------
(* What holds of the parent at all times                                   *)

ParentInv == ParentType /\ MutexInv /\ OwnerInv

LEMMA ParentInit == LInit => ParentInv
<1> SUFFICES ASSUME LInit PROVE ParentInv OBVIOUS
<1>1. plan \in Plans BY DEF LInit
<1>2. IsPlan(plan) BY <1>1, CapLaunchAssumption
<1> DEFINE x == [pc |-> "idle", l |-> Nobody, new |-> {}, child |-> Nobody,
                 ret |-> 0, errno |-> "none", sets |-> 0, launches |-> 0]
           ask == [op \in {Stages[s] : s \in DOMAIN Stages} |-> {}]
<1>3. th = [t \in Parents |-> x] BY DEF LInit
<1>4. x \in Thread
  <2>1. /\ "idle" \in Points4 /\ Nobody \in Refs /\ {} \in News /\ Nobody \in Kids
        /\ 0 \in Results /\ "none" \in Errors
    BY DEF Points4, Refs, News, Kids, Results, Errors
  <2> QED BY <2>1 DEF Thread
<1>5. {Stages[s] : s \in DOMAIN Stages} = AskOps
  <2>1. DOMAIN Stages = {1, 2, 3, 4, 5} BY DEF Stages
  <2>2. /\ Stages[1] = "setuid" /\ Stages[2] = "setgroups" /\ Stages[3] = "set_mode"
        /\ Stages[4] = "iab_set_proc" /\ Stages[5] = "chroot"
    BY DEF Stages
  <2>3. \A op : op \in {Stages[s] : s \in DOMAIN Stages} <=> op \in AskOps
    BY <2>1, <2>2 DEF AskOps
  <2> QED BY <2>3
<1>6. /\ DOMAIN ask = AskOps /\ \A op \in AskOps : ask[op] = {} BY <1>5
<1>7. Proper(ask, plan.iabs) BY <1>6 DEF Proper, Opt, AskOps
<1>8. ask["iab_set_proc"] = {} BY <1>6 DEF AskOps
<1>9. PICK fns : attr = [l \in Launchers |->
                    [mu |-> FALSE, fn |-> IF l \in DOMAIN fns THEN fns[l] ELSE "none",
                     prog |-> l \in HasProgram, ask |-> ask]]
  BY DEF LInit
<1> HIDE DEF ask
<1>10. DOMAIN attr = Launchers BY <1>9
<1>11. ASSUME NEW l \in Launchers
       PROVE  /\ attr[l].mu = FALSE /\ attr[l].ask = ask
              /\ attr[l].prog \in BOOLEAN
              /\ DOMAIN attr[l] = {"mu", "fn", "prog", "ask"}
  <2> DEFINE fn == IF l \in DOMAIN fns THEN fns[l] ELSE "none"
             prog == l \in HasProgram
  <2>1. attr[l] = [mu |-> FALSE, fn |-> fn, prog |-> prog, ask |-> ask] BY <1>9
  <2>2. prog \in BOOLEAN OBVIOUS
  <2> HIDE DEF fn, prog
  <2> QED BY <2>1, <2>2
<1>12. iab \in [plan.iabs -> {[mu |-> FALSE, val |-> v] : v \in plan.values}] BY DEF LInit
<1>13. iab \in [plan.iabs -> [mu : BOOLEAN, val : Iab]]
  <2>1. plan.values \subseteq Iab BY <1>2 DEF IsPlan
  <2> HIDE DEF Iab
  <2>2. \A v \in plan.values : [mu |-> FALSE, val |-> v] \in [mu : BOOLEAN, val : Iab] BY <2>1
  <2> DEFINE R == {[mu |-> FALSE, val |-> v] : v \in plan.values}
             T == [mu : BOOLEAN, val : Iab]
  <2>3. R \subseteq T BY <2>2
  <2>4. iab \in [plan.iabs -> R] BY <1>12
  <2> HIDE DEF R, T
  <2>5. iab \in [plan.iabs -> T] BY <2>3, <2>4
  <2> QED BY <2>5 DEF T
<1>14. ParentType BY <1>1, <1>3, <1>4, <1>7, <1>10, <1>11, <1>13 DEF ParentType, AttrOK
<1>15. \A t \in Parents : th[t].pc = "idle" BY <1>3
<1>16. MutexInv BY <1>11, <1>15 DEF MutexInv, Holds, Holding
<1>17. \A o \in plan.iabs : ~ iab[o].mu BY <1>12
<1>18. OwnerInv BY <1>8, <1>11, <1>15, <1>17 DEF OwnerInv, Owns
<1> QED BY <1>14, <1>16, <1>18 DEF ParentInv

(* Every step is one of the parent, one of a child, or none of either. *)
LEMMA StepKinds ==
  ASSUME ParentInv, [LNext]_allvars
  PROVE  /\ plan' = plan
         /\ \/ \E t \in Parents : ParentKind(t) /\ Parent(t)
            \/ (\E ch \in Children : ChildStep(ch)) /\ UNCHANGED <<attr, iab, th>>
            \/ UNCHANGED allvars
<1>1. CASE UNCHANGED allvars BY <1>1 DEF allvars, lvars
<1>2. CASE LNext
  <2>1. plan' = plan BY <1>2 DEF LNext
  <2>2. ASSUME NEW t \in plan.threads, Parent(t) PROVE t \in Parents /\ ParentKind(t)
    <3>1. t \in Parents BY PlanFacts DEF ParentInv
    <3> QED BY <2>1, <2>2, <3>1, ParentKinds DEF ParentInv
  <2>3. ASSUME NEW ch \in Children, Child(ch) \/ Kill(ch) \/ ProgramExits(ch)
        PROVE  ChildStep(ch) /\ UNCHANGED <<attr, iab, th>>
    BY <2>3, ChildFrame DEF ChildStep
  <2> QED BY <1>2, <2>1, <2>2, <2>3 DEF LNext
<1> QED BY <1>1, <1>2

(* Stuttering, as far as the parent goes. *)
LEMMA ParentStays ==
  ASSUME ParentInv, UNCHANGED <<plan, attr, iab, th>>
  PROVE  ParentInv'
<1>1. ParentType' BY DEF ParentInv, ParentType, AttrOK
<1>2. MutexInv' BY DEF ParentInv, MutexInv, Holds
<1>3. OwnerInv' BY DEF ParentInv, OwnerInv, Owns, Settled
<1> QED BY <1>1, <1>2, <1>3 DEF ParentInv

LEMMA ParentNext == ParentInv /\ [LNext]_allvars => ParentInv'
<1> SUFFICES ASSUME ParentInv, [LNext]_allvars PROVE ParentInv' OBVIOUS
<1>1. plan' = plan BY StepKinds
<1>2. CASE \E t \in Parents : ParentKind(t)
  BY <1>1, <1>2, ParentTypeStep, MutexStep, OwnerStep DEF ParentInv
<1>3. CASE UNCHANGED <<attr, iab, th>> BY <1>1, <1>3, ParentStays
<1> QED BY <1>2, <1>3, StepKinds DEF allvars, lvars

LEMMA ParentHolds == LSpec => []ParentInv
BY ParentInit, ParentNext, PTL DEF LSpec

-----------------------------------------------------------------------------
(* The IAB of a launcher                                                   *)

(* "the launcher locks iab while it is owned by the launcher. this prevents*)
(* the user from asynchronously changing its value while it is associated  *)
(* with the launcher" (cap_launcher_set_iab): for any number of threads    *)
(* and objects, what a launch will apply changes only by a call on that    *)
(* launcher.                                                               *)
THEOREM IabIsStable == LSpec => IabStable
<1> DEFINE A == \A l \in Launchers :
                  Settled(l) /\ Settled(l)'
                  /\ attr'[l].ask["iab_set_proc"] = attr[l].ask["iab_set_proc"]
                  => \A o \in attr[l].ask["iab_set_proc"] : iab'[o].val = iab[o].val
<1>1. ParentInv /\ [LNext]_allvars => [A]_allvars
  <2> SUFFICES ASSUME ParentInv, [LNext]_allvars PROVE A OBVIOUS
  <2> SUFFICES ASSUME NEW l \in Launchers, Settled(l), Settled(l)',
                      NEW o \in attr[l].ask["iab_set_proc"]
               PROVE  iab'[o].val = iab[o].val
    OBVIOUS
  <2>1. plan' = plan BY StepKinds
  <2>2. o \in plan.iabs BY DEF ParentInv, ParentType, AttrOK, Proper, Opt
  <2>3. Owns(l, o) BY DEF Owns
  <2>4. iab[o].mu BY <2>2, <2>3 DEF ParentInv, OwnerInv
  <2>5. CASE UNCHANGED <<attr, iab, th>> BY <2>5
  <2>6. ASSUME NEW t \in Parents, ParentKind(t) PROVE iab'[o].val = iab[o].val
    <3>1. CASE th[t].pc # "lock_iab" /\ th'[t].pc # "lock_iab"
      BY <2>1, <2>2, <2>4, <2>6, <3>1, OwnersStay DEF ParentInv
    <3>2. CASE th[t].pc = "lock_iab"
      <4>1. Locks(t)
        BY <2>6, <3>2 DEF ParentKind, Sets, Changes, Swaps, Begins, Continues, Releases, Follows1
      <4> QED BY <2>1, <2>2, <4>1, OwnersLock DEF ParentInv
    <3>3. CASE th[t].pc # "lock_iab" /\ th'[t].pc = "lock_iab"
      <4>1. PICK m \in Launchers, new \in Opt(plan.iabs) : Swaps(t, m, new)
        BY <2>6, <3>3 DEF ParentKind, Sets, Changes, Locks, Begins, Continues, Releases,
                          Follows1, Moves
      <4> QED BY <2>1, <2>2, <4>1, OwnersSwap DEF ParentInv
    <3> QED BY <3>1, <3>2, <3>3
  <2> QED BY <2>5, <2>6, StepKinds DEF allvars, lvars
<1> QED BY <1>1, ParentHolds, PTL DEF LSpec, IabStable

-----------------------------------------------------------------------------
(* The children and their pipes                                            *)

(* ch becomes y, the other children stay. *)
KidMoves(ch, y) == /\ KidOK(y) /\ DOMAIN kid' = Children /\ kid'[ch] = y
                   /\ \A p \in Children \ {ch} : kid'[p] = kid[p]

(* ch goes to st, with what was executed and the errno as said. *)
KidGoes(ch, st, ex, err) ==
    \E y : /\ KidMoves(ch, y) /\ y.st = st /\ y.cfg = kid[ch].cfg
           /\ y.execd = ex /\ y.errno = err

(* The ways the actions write a child's record. *)
LEMMA KidDoes ==
  ASSUME ChildType, NEW ch \in Children
  PROVE  LET x == kid[ch] IN
         /\ \A s \in Places : kid' = [kid EXCEPT ![ch].st = s]
               => KidGoes(ch, s, x.execd, x.errno)
         /\ \A s \in Places, e \in KidErrors : kid' = [kid EXCEPT ![ch].st = s, ![ch].errno = e]
               => KidGoes(ch, s, x.execd, e)
         /\ \A s \in Places : kid' = [kid EXCEPT ![ch].st = s, ![ch].stage = 1]
               => KidGoes(ch, s, x.execd, x.errno)
         /\ kid' = [kid EXCEPT ![ch].stage = @ + 1] => KidGoes(ch, x.st, x.execd, x.errno)
         /\ \A s \in Places : kid' = [kid EXCEPT ![ch].st = s, ![ch].execd = TRUE]
               => KidGoes(ch, s, TRUE, x.errno)
         /\ kid' = kid => KidGoes(ch, x.st, x.execd, x.errno)
<1> DEFINE x == kid[ch]
<1>0. KidOK(x) /\ DOMAIN kid = Children BY DEF ChildType
<1>1. ASSUME NEW s \in Places, kid' = [kid EXCEPT ![ch].st = s]
      PROVE  KidGoes(ch, s, x.execd, x.errno)
  <2> DEFINE y == [x EXCEPT !.st = s]
  <2>1. /\ DOMAIN kid' = Children /\ kid'[ch] = y
        /\ \A p \in Children \ {ch} : kid'[p] = kid[p]
    BY <1>0, <1>1
  <2>2. KidOK(y) /\ y.st = s /\ y.cfg = x.cfg /\ y.execd = x.execd /\ y.errno = x.errno
    <3> HIDE DEF x, Places, KidErrors
    <3> QED BY <1>0 DEF KidOK
  <2> HIDE DEF y
  <2> QED BY <2>1, <2>2 DEF KidGoes, KidMoves
<1>2. ASSUME NEW s \in Places, NEW e \in KidErrors,
             kid' = [kid EXCEPT ![ch].st = s, ![ch].errno = e]
      PROVE  KidGoes(ch, s, x.execd, e)
  <2> DEFINE y == [x EXCEPT !.st = s, !.errno = e]
  <2>1. /\ DOMAIN kid' = Children /\ kid'[ch] = y
        /\ \A p \in Children \ {ch} : kid'[p] = kid[p]
    BY <1>0, <1>2
  <2>2. KidOK(y) /\ y.st = s /\ y.cfg = x.cfg /\ y.execd = x.execd /\ y.errno = e
    <3> HIDE DEF x, Places, KidErrors
    <3> QED BY <1>0 DEF KidOK
  <2> HIDE DEF y
  <2> QED BY <2>1, <2>2 DEF KidGoes, KidMoves
<1>3. ASSUME NEW s \in Places, kid' = [kid EXCEPT ![ch].st = s, ![ch].stage = 1]
      PROVE  KidGoes(ch, s, x.execd, x.errno)
  <2> DEFINE y == [x EXCEPT !.st = s, !.stage = 1]
  <2>1. /\ DOMAIN kid' = Children /\ kid'[ch] = y
        /\ \A p \in Children \ {ch} : kid'[p] = kid[p]
    BY <1>0, <1>3
  <2>2. KidOK(y) /\ y.st = s /\ y.cfg = x.cfg /\ y.execd = x.execd /\ y.errno = x.errno
    <3> HIDE DEF x, Places, KidErrors
    <3> QED BY <1>0 DEF KidOK
  <2> HIDE DEF y
  <2> QED BY <2>1, <2>2 DEF KidGoes, KidMoves
<1>4. ASSUME kid' = [kid EXCEPT ![ch].stage = @ + 1] PROVE KidGoes(ch, x.st, x.execd, x.errno)
  <2> DEFINE y == [x EXCEPT !.stage = x.stage + 1]
  <2>1. /\ DOMAIN kid' = Children /\ kid'[ch] = y
        /\ \A p \in Children \ {ch} : kid'[p] = kid[p]
    BY <1>0, <1>4
  <2>2. KidOK(y) /\ y.st = x.st /\ y.cfg = x.cfg /\ y.execd = x.execd /\ y.errno = x.errno
    <3> HIDE DEF x, Places, KidErrors
    <3> QED BY <1>0 DEF KidOK
  <2> HIDE DEF y
  <2> QED BY <2>1, <2>2 DEF KidGoes, KidMoves
<1>5. ASSUME NEW s \in Places, kid' = [kid EXCEPT ![ch].st = s, ![ch].execd = TRUE]
      PROVE  KidGoes(ch, s, TRUE, x.errno)
  <2> DEFINE y == [x EXCEPT !.st = s, !.execd = TRUE]
  <2>1. /\ DOMAIN kid' = Children /\ kid'[ch] = y
        /\ \A p \in Children \ {ch} : kid'[p] = kid[p]
    BY <1>0, <1>5
  <2>2. KidOK(y) /\ y.st = s /\ y.cfg = x.cfg /\ y.execd = TRUE /\ y.errno = x.errno
    <3> HIDE DEF x, Places, KidErrors
    <3> QED BY <1>0 DEF KidOK
  <2> HIDE DEF y
  <2> QED BY <2>1, <2>2 DEF KidGoes, KidMoves
<1>6. ASSUME kid' = kid PROVE KidGoes(ch, x.st, x.execd, x.errno)
  <2>1. /\ DOMAIN kid' = Children /\ kid'[ch] = x
        /\ \A p \in Children \ {ch} : kid'[p] = kid[p]
    BY <1>0, <1>6
  <2> HIDE DEF x
  <2> QED BY <1>0, <2>1 DEF KidGoes, KidMoves, x
<1> QED BY <1>1, <1>2, <1>3, <1>4, <1>5, <1>6

(* What the steps of a child do: it goes on; it ends, or executes, and     *)
(* closes what it has; it says what went wrong.                            *)
GoesOn(ch) ==
    /\ pipe' = pipe
    /\ LET x == kid[ch] IN
       \/ x.st = "callback" /\ KidGoes(ch, "defer", x.execd, "callback")
       \/ x.st = "callback" /\ x.cfg.prog /\ KidGoes(ch, "setup", x.execd, x.errno)
       \/ x.st = "setup" /\ KidGoes(ch, "setup", x.execd, x.errno)
       \/ x.st = "setup" /\ KidGoes(ch, "exec", x.execd, x.errno)
       \/ x.st = "setup" /\ KidGoes(ch, "defer", x.execd, "setup")
       \/ x.st = "exec" /\ KidGoes(ch, "defer", x.execd, "exec")
       \/ x.st = "running" /\ KidGoes(ch, "exited", x.execd, x.errno)

Closes(ch) ==
    /\ pipe' = Closed(ch)
    /\ LET x == kid[ch] IN
       \/ x.st = "callback" /\ ~ x.cfg.prog /\ KidGoes(ch, "exit0", x.execd, x.errno)
       \/ x.st = "exec" /\ KidGoes(ch, "running", TRUE, x.errno)
       \/ x.st = "exit1" /\ KidGoes(ch, "failed", x.execd, x.errno)
       \/ x.st \in Before \cup {"running"} /\ KidGoes(ch, "killed", x.execd, x.errno)

Tells(ch) ==
    /\ kid[ch].st = "defer" /\ KidGoes(ch, "exit1", kid[ch].execd, kid[ch].errno)
    /\ pipe' = [pipe EXCEPT ![ch].data = kid[ch].errno]

LEMMA ChildKinds ==
  ASSUME ChildType, NEW ch \in Children, ChildStep(ch)
  PROVE  GoesOn(ch) \/ Closes(ch) \/ Tells(ch)
<1> DEFINE x == kid[ch]
<1>0. /\ {"defer", "setup", "exec", "exit0", "running", "failed", "killed", "exit1", "exited"}
            \subseteq Places
      /\ {"callback", "setup", "exec"} \subseteq KidErrors
  BY DEF Places, Gone, Before, KidErrors
<1>1. CASE Callback(ch)
  <2>1. CASE x.cfg.fn = "fails" BY <1>0, <1>1, <2>1, KidDoes DEF Callback, GoesOn
  <2>2. CASE x.cfg.fn # "fails" /\ x.cfg.prog
    BY <1>0, <1>1, <2>2, KidDoes DEF Callback, GoesOn
  <2>3. CASE x.cfg.fn # "fails" /\ ~ x.cfg.prog
    BY <1>0, <1>1, <2>3, KidDoes DEF Callback, Closes
  <2> QED BY <2>1, <2>2, <2>3
<1>2. CASE NextStage(ch)
  <2>1. x.st = "setup" /\ pipe' = pipe BY <1>2 DEF NextStage
  <2>2. \/ kid' = [kid EXCEPT ![ch].st = "defer", ![ch].errno = "setup"]
        \/ kid' = [kid EXCEPT ![ch].st = "exec"]
        \/ kid' = [kid EXCEPT ![ch].stage = @ + 1]
    BY <1>2 DEF NextStage
  <2> QED BY <1>0, <2>1, <2>2, KidDoes DEF GoesOn
<1>3. CASE Operation(ch)
  <2>1. x.st = "setup" /\ pipe' = pipe /\ kid' = kid BY <1>3 DEF Operation, lvars
  <2> QED BY <2>1, KidDoes DEF GoesOn
<1>4. CASE Exec(ch) BY <1>0, <1>4, KidDoes DEF Exec, Closes
<1>5. CASE ExecFails(ch) BY <1>0, <1>5, KidDoes DEF ExecFails, GoesOn
<1>6. CASE Defer(ch) BY <1>0, <1>6, KidDoes DEF Defer, Tells
<1>7. CASE Exit(ch) BY <1>0, <1>7, KidDoes DEF Exit, Closes
<1>8. CASE Kill(ch) BY <1>0, <1>8, KidDoes DEF Kill, Closes, Before
<1>9. CASE ProgramExits(ch) BY <1>0, <1>9, KidDoes DEF ProgramExits, GoesOn
<1> QED BY <1>1, <1>2, <1>3, <1>4, <1>5, <1>6, <1>7, <1>8, <1>9 DEF ChildStep, Child

(* The pipes after an end is closed or an errno is written. *)
LEMMA PipeClosed ==
  ASSUME ChildType, NEW ch, pipe' = Closed(ch)
  PROVE  /\ DOMAIN pipe' = Children
         /\ \A p \in Children : /\ PipeOK(pipe'[p])
                                /\ pipe'[p].w = pipe[p].w \ {ch} /\ pipe'[p].data = pipe[p].data
<1> HIDE DEF KidErrors
<1> QED BY DEF ChildType, PipeOK, Closed

LEMMA PipeWritten ==
  ASSUME ChildType, NEW ch \in Children, NEW e \in KidErrors,
         pipe' = [pipe EXCEPT ![ch].data = e]
  PROVE  /\ DOMAIN pipe' = Children /\ pipe'[ch].data = e
         /\ \A p \in Children : /\ PipeOK(pipe'[p]) /\ pipe'[p].w = pipe[p].w
                                /\ p # ch => pipe'[p].data = pipe[p].data
<1> HIDE DEF KidErrors
<1> QED BY DEF ChildType, PipeOK

(* What a child's step changes, and what it never does. *)
LEMMA ChildEffect ==
  ASSUME ChildType, KidInv, NEW ch \in Children, ChildStep(ch)
  PROVE  /\ ChildType'
         /\ kid[ch].st \in Before \cup {"running"} /\ kid'[ch].st \notin {"none", "reserved"}
         /\ kid[ch].execd => kid'[ch].execd
         /\ kid'[ch].cfg = kid[ch].cfg
         /\ \A p \in Children \ {ch} : kid'[p] = kid[p] /\ pipe'[p].data = pipe[p].data
         /\ \A p \in Children : /\ \A q \in Procs \ {ch} : q \in pipe'[p].w <=> q \in pipe[p].w
                                /\ pipe[p].data # "none" => pipe'[p].data # "none"
         /\ KidIs(ch, kid'[ch], pipe'[ch].w, pipe'[ch].data)
<1> DEFINE x == kid[ch]  d == pipe[ch].data  w == pipe[ch].w
           y == kid'[ch]  e == pipe'[ch].data  v == pipe'[ch].w
<1>1. KidIs(ch, x, w, d) /\ KidOK(x) BY DEF KidInv, ChildType
<1>2. DOMAIN pipe = Children /\ DOMAIN kid = Children BY DEF ChildType
<1>3. \A s, ex, er : KidGoes(ch, s, ex, er) =>
         /\ DOMAIN kid' = Children /\ KidOK(y) /\ y.st = s /\ y.execd = ex /\ y.errno = er
         /\ y.cfg = x.cfg
         /\ \A p \in Children \ {ch} : kid'[p] = kid[p]
  BY DEF KidGoes, KidMoves
<1>4. ASSUME \E s, ex, er : KidGoes(ch, s, ex, er)
      PROVE  /\ DOMAIN kid' = Children /\ \A p \in Children : KidOK(kid'[p])
             /\ \A p \in Children \ {ch} : kid'[p] = kid[p]
  BY <1>3, <1>4 DEF ChildType
<1>5. CASE GoesOn(ch)
  <2>1. pipe' = pipe /\ e = d /\ v = w BY <1>5 DEF GoesOn
  <2>2. \E s, ex, er : KidGoes(ch, s, ex, er) BY <1>5 DEF GoesOn
  <2>3. ChildType' BY <1>4, <2>1, <2>2 DEF ChildType
  <2>4. /\ x.st \in Before \cup {"running"} /\ y.st \notin {"none", "reserved"}
        /\ y.execd = x.execd /\ y.cfg = x.cfg
    BY <1>3, <1>5 DEF GoesOn, Before
  <2>5. KidIs(ch, y, v, e)
    BY <1>1, <1>3, <1>5, <2>1 DEF GoesOn, KidIs, Before
  <2> QED BY <1>4, <2>1, <2>2, <2>3, <2>4, <2>5
<1>6. CASE Closes(ch)
  <2>1. /\ DOMAIN pipe' = Children
        /\ \A p \in Children : /\ PipeOK(pipe'[p])
                               /\ pipe'[p].w = pipe[p].w \ {ch} /\ pipe'[p].data = pipe[p].data
    BY <1>6, PipeClosed DEF Closes
  <2>2. \E s, ex, er : KidGoes(ch, s, ex, er) BY <1>6 DEF Closes
  <2>3. ChildType' BY <1>4, <2>1, <2>2 DEF ChildType
  <2>4. /\ x.st \in Before \cup {"running"} /\ y.st \notin {"none", "reserved"}
        /\ y.cfg = x.cfg /\ (x.execd => y.execd) /\ KidIs(ch, y, v, e)
    <3> HIDE DEF Before
    <3>0. e = d BY <2>1
    <3>1. CASE x.st = "callback" /\ ~ x.cfg.prog /\ KidGoes(ch, "exit0", x.execd, x.errno)
      <4>1. y.st = "exit0" /\ y.execd = x.execd /\ y.cfg = x.cfg BY <1>3, <3>1
      <4> QED BY <1>1, <3>0, <3>1, <4>1 DEF KidIs, Before
    <3>2. CASE x.st = "exec" /\ KidGoes(ch, "running", TRUE, x.errno)
      <4>1. y.st = "running" /\ y.execd = TRUE /\ y.cfg = x.cfg BY <1>3, <3>2
      <4> QED BY <1>1, <3>0, <3>2, <4>1 DEF KidIs, Before
    <3>3. CASE x.st = "exit1" /\ KidGoes(ch, "failed", x.execd, x.errno)
      <4>1. y.st = "failed" /\ y.execd = x.execd /\ y.cfg = x.cfg BY <1>3, <3>3
      <4> QED BY <1>1, <3>0, <3>3, <4>1 DEF KidIs, Before
    <3>4. CASE x.st \in Before \cup {"running"} /\ KidGoes(ch, "killed", x.execd, x.errno)
      <4>1. y.st = "killed" /\ y.execd = x.execd /\ y.cfg = x.cfg BY <1>3, <3>4
      <4> QED BY <1>1, <3>0, <3>4, <4>1 DEF KidIs, Before
    <3> QED BY <1>6, <3>1, <3>2, <3>3, <3>4 DEF Closes
  <2> QED BY <1>4, <2>1, <2>2, <2>3, <2>4
<1>7. CASE Tells(ch)
  <2>0. x.errno \in KidErrors /\ x.errno # "none" BY <1>1, <1>7 DEF KidOK, Tells, KidIs
  <2>1. /\ DOMAIN pipe' = Children /\ pipe'[ch].data = x.errno
        /\ \A p \in Children : /\ PipeOK(pipe'[p]) /\ pipe'[p].w = pipe[p].w
                               /\ p # ch => pipe'[p].data = pipe[p].data
    <3> DEFINE er == x.errno
    <3>1. pipe' = [pipe EXCEPT ![ch].data = er] BY <1>7 DEF Tells
    <3> HIDE DEF er, KidErrors, PipeOK
    <3>2. er \in KidErrors BY <2>0 DEF er
    <3>3. /\ DOMAIN pipe' = Children /\ pipe'[ch].data = er
          /\ \A p \in Children : /\ PipeOK(pipe'[p]) /\ pipe'[p].w = pipe[p].w
                                 /\ p # ch => pipe'[p].data = pipe[p].data
      BY <3>1, <3>2, PipeWritten
    <3> QED BY <3>3 DEF er
  <2>2. KidGoes(ch, "exit1", x.execd, x.errno) /\ x.st = "defer" BY <1>7 DEF Tells
  <2>3. ChildType' BY <1>4, <2>1, <2>2 DEF ChildType
  <2>4. /\ x.st \in Before \cup {"running"} /\ y.st \notin {"none", "reserved"}
        /\ y.cfg = x.cfg /\ y.execd = x.execd
    BY <1>3, <2>2 DEF Before
  <2>5. KidIs(ch, y, v, e)
    BY <1>1, <1>3, <2>0, <2>1, <2>2 DEF KidIs, Before
  <2> QED BY <1>4, <2>0, <2>1, <2>2, <2>3, <2>4, <2>5
<1> QED BY <1>5, <1>6, <1>7, ChildKinds

(* What holds between a launch and its child at all times. *)
KidsInv == ChildType /\ LaunchInv /\ KidInv /\ ToldInv

LEMMA KidsChild ==
  ASSUME ParentType, KidsInv, plan' = plan, NEW ch \in Children, ChildStep(ch), th' = th
  PROVE  KidsInv'
<1>1. /\ ChildType'
      /\ kid[ch].st \in Before \cup {"running"} /\ kid'[ch].st \notin {"none", "reserved"}
      /\ kid[ch].execd => kid'[ch].execd
      /\ kid'[ch].cfg = kid[ch].cfg
      /\ \A p \in Children \ {ch} : kid'[p] = kid[p] /\ pipe'[p].data = pipe[p].data
      /\ \A p \in Children : /\ \A q \in Procs \ {ch} : q \in pipe'[p].w <=> q \in pipe[p].w
                             /\ pipe[p].data # "none" => pipe'[p].data # "none"
      /\ KidIs(ch, kid'[ch], pipe'[ch].w, pipe'[ch].data)
  BY ChildEffect DEF KidsInv
<1>2. "parent" \in Procs \ {ch} /\ Children \subseteq Procs
  BY CapLaunchAssumption DEF Children
<1>4. KidInv'
  <2> SUFFICES ASSUME NEW p \in Children
               PROVE  KidIs(p, kid'[p], pipe'[p].w, pipe'[p].data)
    BY DEF KidInv
  <2>1. CASE p = ch BY <1>1, <2>1
  <2>2. CASE p # ch
    <3>1. kid'[p] = kid[p] /\ pipe'[p].data = pipe[p].data /\ (p \in pipe'[p].w <=> p \in pipe[p].w)
      BY <1>1, <1>2, <2>2
    <3>2. KidIs(p, kid[p], pipe[p].w, pipe[p].data) BY DEF KidsInv, KidInv
    <3> QED BY <3>1, <3>2 DEF KidIs
  <2> QED BY <2>1, <2>2
<1>5. \A t \in Parents : th[t].child # Nobody => th[t].child \in Children
  BY ThreadFields DEF KidsInv, ParentType, Kids
<1>6. LaunchInv'
  <2> DEFINE k(t) == th[t].child
  <2>1. \A t \in Parents : k(t) # Nobody =>
          /\ kid[k(t)].st # "none" => kid'[k(t)].st # "none"
          /\ kid[k(t)].st = "reserved" => kid'[k(t)].st = "reserved"
          /\ kid[k(t)].st \notin {"none", "reserved"} => kid'[k(t)].st \notin {"none", "reserved"}
          /\ pipe[k(t)].data # "none" => pipe'[k(t)].data # "none"
          /\ "parent" \in pipe[k(t)].w => "parent" \in pipe'[k(t)].w
    BY <1>1, <1>2, <1>5 DEF Before
  <2>2. LaunchInv BY DEF KidsInv
  <2> QED BY <2>1, <2>2 DEF LaunchInv
<1>7. ToldInv'
  <2> SUFFICES ASSUME NEW t \in Parents, th[t].pc \in {"idle", "lock_iab"}, th[t].child # Nobody
               PROVE  Told(th[t].ret, kid[th[t].child])'
    BY DEF ToldInv
  <2>1. Told(th[t].ret, kid[th[t].child]) BY DEF KidsInv, ToldInv
  <2>2. CASE th[t].child = ch
    BY <1>1, <2>1, <2>2 DEF Told, Before, Gone
  <2>3. CASE th[t].child # ch
    <3>1. kid'[th[t].child] = kid[th[t].child] BY <1>1, <1>5, <2>3
    <3> QED BY <2>1, <3>1 DEF Told
  <2> QED BY <2>2, <2>3
<1> QED BY <1>1, <1>4, <1>6, <1>7 DEF KidsInv

(* What LaunchInv and ToldInv say of one thread. *)
Fits(pc, child, ret) ==
    /\ child # Nobody => kid[child].st # "none"
    /\ pc = "pipe" => child = Nobody
    /\ pc = "fork" => "parent" \in pipe[child].w
    /\ pc \in {"fork", "unlock_failed"} => child # Nobody /\ kid[child].st = "reserved"
    /\ pc \in {"unlock", "read", "wait"} =>
          child # Nobody /\ kid[child].st \notin {"none", "reserved"}
    /\ pc \in {"idle", "lock_iab"} /\ child # Nobody => Told(ret, kid[child])

LEMMA Fit ==
  ASSUME KidsInv, NEW t \in Parents
  PROVE  /\ Fits(th[t].pc, th[t].child, th[t].ret)
         /\ \A u \in Parents \ {t} : th[u].child = th[t].child => th[t].child = Nobody
  BY DEF KidsInv, LaunchInv, ToldInv, Fits

(* It is enough to look at the thread that moves, its child, and whether   *)
(* the others still fit.                                                   *)
LEMMA FitMoves ==
  ASSUME ParentType, KidsInv, plan' = plan, NEW t \in Parents,
         NEW p, NEW l, NEW n, NEW ch, NEW r, Moves(t, p, l, n, ch, r),
         ChildType', KidInv', Fits(p, ch, r)',
         \A u \in Parents \ {t} : /\ th[u].child = ch => ch = Nobody
                                  /\ Fits(th[u].pc, th[u].child, th[u].ret)'
  PROVE  KidsInv'
<1>1. /\ \A u \in Parents \ {t} : th'[u] = th[u]
      /\ th'[t].pc = p /\ th'[t].child = ch /\ th'[t].ret = r
  BY DEF Moves
<1>2. \A u \in Parents : Fits(th[u].pc, th[u].child, th[u].ret)'
  <2> SUFFICES ASSUME NEW u \in Parents PROVE Fits(th[u].pc, th[u].child, th[u].ret)' OBVIOUS
  <2>1. CASE u = t BY <1>1, <2>1 DEF Fits, Told
  <2>2. CASE u # t BY <1>1, <2>2 DEF Fits, Told
  <2> QED BY <2>1, <2>2
<1>3. \A u, v \in Parents : th'[u].child = th'[v].child /\ th'[u].child # Nobody => u = v
  BY <1>1, Fit
<1>4. LaunchInv' BY <1>2, <1>3 DEF LaunchInv, Fits
<1>5. ToldInv' BY <1>2 DEF ToldInv, Fits
<1> QED BY <1>4, <1>5 DEF KidsInv

(* A step that leaves the children alone. *)
LEMMA FitQuiet ==
  ASSUME ParentType, KidsInv, plan' = plan, NEW t \in Parents,
         NEW p, NEW l, NEW n, NEW ch, NEW r, Moves(t, p, l, n, ch, r),
         kid' = kid, pipe' = pipe, Fits(p, ch, r), ch = th[t].child \/ ch = Nobody
  PROVE  KidsInv'
<1>1. ChildType' BY DEF KidsInv, ChildType
<1>2. KidInv' BY DEF KidsInv, KidInv
<1>3. Fits(p, ch, r)' BY DEF Fits, Told
<1>4. \A u \in Parents \ {t} : /\ th[u].child = ch => ch = Nobody
                               /\ Fits(th[u].pc, th[u].child, th[u].ret)
  BY Fit
<1>5. \A u \in Parents \ {t} : Fits(th[u].pc, th[u].child, th[u].ret)'
  <2> SUFFICES ASSUME NEW u \in Parents \ {t} PROVE Fits(th[u].pc, th[u].child, th[u].ret)'
    OBVIOUS
  <2>1. th'[u] = th[u] BY DEF Moves
  <2>2. Fits(th[u].pc, th[u].child, th[u].ret) BY <1>4
  <2> QED BY <2>1, <2>2 DEF Fits, Told
<1> QED BY <1>1, <1>2, <1>3, <1>4, <1>5, FitMoves

(* pipe2(): a child is reserved. *)
LEMMA KidsMakePipe ==
  ASSUME ParentType, KidsInv, plan' = plan, NEW t \in Parents, MakePipe(t)
  PROVE  KidsInv'
<1>1. PICK ch \in Children :
           /\ kid[ch].st = "none" /\ kid' = [kid EXCEPT ![ch].st = "reserved"]
           /\ pipe' = [pipe EXCEPT ![ch].w = {"parent"}]
           /\ Moves(t, "fork", th[t].l, th[t].new, ch, th[t].ret)
  BY MakePipeMoves
<1>2. "reserved" \in Places /\ "parent" \in Procs /\ ch # Nobody
  BY CapLaunchAssumption DEF Places, Children, Nobody
<1>3. KidGoes(ch, "reserved", kid[ch].execd, kid[ch].errno)
  BY <1>1, <1>2, KidDoes DEF KidsInv
<1>4. /\ DOMAIN kid' = Children /\ KidOK(kid'[ch]) /\ kid'[ch].st = "reserved"
      /\ kid'[ch].execd = kid[ch].execd
      /\ \A p \in Children \ {ch} : kid'[p] = kid[p]
  BY <1>3 DEF KidGoes, KidMoves
<1>5. /\ DOMAIN pipe' = Children /\ PipeOK(pipe'[ch]) /\ pipe'[ch].w = {"parent"}
      /\ pipe'[ch].data = pipe[ch].data
      /\ \A p \in Children \ {ch} : pipe'[p] = pipe[p]
  <2> HIDE DEF KidErrors
  <2>1. DOMAIN pipe = Children /\ PipeOK(pipe[ch]) BY DEF KidsInv, ChildType
  <2> QED BY <1>1, <1>2, <2>1 DEF PipeOK
<1>6. ChildType' BY <1>4, <1>5 DEF KidsInv, ChildType
<1>7. KidInv'
  <2>1. KidIs(ch, kid[ch], pipe[ch].w, pipe[ch].data) BY DEF KidsInv, KidInv
  <2>2. KidIs(ch, kid'[ch], pipe'[ch].w, pipe'[ch].data)
    BY <1>1, <1>4, <1>5, <2>1 DEF KidIs, Before
  <2> QED BY <1>4, <1>5, <2>2 DEF KidsInv, KidInv
<1>8. \A u \in Parents : th[u].child # ch BY <1>1, <1>2, Fit DEF Fits
<1>10. ASSUME NEW u \in Parents \ {t} PROVE Fits(th[u].pc, th[u].child, th[u].ret)'
  <2>1. th'[u] = th[u] BY <1>1 DEF Moves
  <2>2. Fits(th[u].pc, th[u].child, th[u].ret) BY Fit
  <2>3. th[u].child # Nobody => th[u].child \in Children
    BY ThreadFields DEF ParentType, Kids
  <2>4. th[u].child # Nobody => /\ kid'[th[u].child] = kid[th[u].child]
                                /\ pipe'[th[u].child] = pipe[th[u].child]
    BY <1>4, <1>5, <1>8, <2>3
  <2> QED BY <2>1, <2>2, <2>4 DEF Fits, Told
<1>11. PICK r : r = th[t].ret OBVIOUS
<1>12. Moves(t, "fork", th[t].l, th[t].new, ch, r) /\ Fits("fork", ch, r)'
  BY <1>1, <1>2, <1>4, <1>5, <1>11 DEF Fits
<1>13. PICK l, n : l = th[t].l /\ n = th[t].new OBVIOUS
<1>14. Moves(t, "fork", l, n, ch, r) BY <1>12, <1>13
<1> QED BY <1>6, <1>7, <1>8, <1>10, <1>12, <1>14, FitMoves

(* The child's copy of the launcher. *)
LEMMA CopyProper ==
  ASSUME ParentType, NEW l \in Launchers
  PROVE  LET a == CopyOf(l) IN
         /\ DOMAIN a = {"fn", "prog", "want", "ask"} /\ a.prog \in BOOLEAN
         /\ Proper(a.ask, Iab)
         /\ a.want = want[l] /\ a.ask["chroot"] = attr[l].ask["chroot"]
<1> DEFINE x == attr[l]
           old == x.ask["iab_set_proc"]
           vals == {iab[o].val : o \in old}
           ask == [x.ask EXCEPT !["iab_set_proc"] = vals]
           a == CopyOf(l)
<1>1. x.prog \in BOOLEAN /\ Proper(x.ask, plan.iabs) BY DEF ParentType, AttrOK
<1>2. a = [fn |-> x.fn, prog |-> x.prog, want |-> want[l], ask |-> ask]
  BY <1>1 DEF CopyOf, Proper, AskOps
<1>3. vals \in Opt(Iab)
  <2>1. \A o \in plan.iabs : iab[o].val \in Iab BY DEF ParentType
  <2>2. old \in Opt(plan.iabs) BY <1>1 DEF Proper
  <2>3. CASE old = {} BY <2>3 DEF Opt
  <2>4. ASSUME NEW o \in plan.iabs, old = {o} PROVE vals \in Opt(Iab)
    <3>1. vals = {iab[o].val} BY <2>4
    <3> QED BY <2>1, <3>1 DEF Opt
  <2> QED BY <2>2, <2>3, <2>4 DEF Opt
<1> HIDE DEF vals
<1>4. Proper(ask, Iab) /\ ask["chroot"] = x.ask["chroot"]
  BY <1>1, <1>3 DEF Proper, AskOps
<1> HIDE DEF ask, x, a
<1>5. /\ DOMAIN a = {"fn", "prog", "want", "ask"} /\ a.prog = x.prog
      /\ a.want = want[l] /\ a.ask = ask
  BY <1>2
<1> QED BY <1>1, <1>4, <1>5 DEF a, x

(* fork(): the child begins, with a copy of every write end the parent     *)
(* has.                                                                    *)
LEMMA KidsFork ==
  ASSUME ParentType, MutexInv, KidsInv, plan' = plan, NEW t \in Parents, Fork(t)
  PROVE  KidsInv'
<1>1. PICK ch, l, n, r : ch = th[t].child /\ l = th[t].l /\ n = th[t].new /\ r = th[t].ret
  OBVIOUS
<1>2. th[t].pc = "fork" /\ l \in Launchers BY <1>1 DEF Fork, MutexInv, Holding
<1>3. /\ Fits("fork", ch, r)
      /\ \A u \in Parents \ {t} : th[u].child = ch => ch = Nobody
  BY <1>1, <1>2, Fit
<1>4. ch # Nobody /\ kid[ch].st = "reserved" /\ "parent" \in pipe[ch].w BY <1>3 DEF Fits
<1>5. ch \in Children BY <1>1, <1>4, ThreadFields DEF ParentType, Kids
<1>6. "parent" # ch /\ ch \in Procs BY <1>5, CapLaunchAssumption DEF Children
<1> DEFINE a == CopyOf(l)
           x == kid[ch]
           y == [x EXCEPT !.st = "callback", !.cfg = a]
<1>7. KidOK(x) /\ DOMAIN kid = Children BY <1>5 DEF KidsInv, ChildType
<1>8. kid' = [kid EXCEPT ![ch].st = "callback", ![ch].cfg = a] BY <1>1 DEF Fork
<1>9. /\ DOMAIN kid' = Children /\ kid'[ch] = y
      /\ \A p \in Children \ {ch} : kid'[p] = kid[p]
  <2> HIDE DEF a
  <2> QED BY <1>5, <1>7, <1>8
<1>10. KidOK(y) /\ y.st = "callback" /\ y.cfg = a /\ y.execd = x.execd
  <2>1. "callback" \in Places BY DEF Places, Before
  <2> HIDE DEF a, x, Places, KidErrors
  <2> QED BY <1>7, <2>1 DEF KidOK
<1>11. /\ DOMAIN pipe' = Children
       /\ \A p \in Children : /\ PipeOK(pipe'[p]) /\ pipe'[p].data = pipe[p].data
                              /\ pipe[p].w \subseteq pipe'[p].w
       /\ ch \in pipe'[ch].w
  <2>1. pipe' = [p \in Children |->
                   IF "parent" \in pipe[p].w THEN [pipe[p] EXCEPT !.w = pipe[p].w \cup {ch}]
                   ELSE pipe[p]]
    BY <1>1 DEF Fork
  <2>2. \A p \in Children : PipeOK(pipe[p]) BY DEF KidsInv, ChildType
  <2> HIDE DEF KidErrors
  <2>3. ASSUME NEW p \in Children
        PROVE  /\ PipeOK(pipe'[p]) /\ pipe'[p].data = pipe[p].data
               /\ pipe[p].w \subseteq pipe'[p].w
               /\ "parent" \in pipe[p].w => ch \in pipe'[p].w
    <3>1. CASE "parent" \in pipe[p].w
      <4>1. pipe'[p] = [pipe[p] EXCEPT !.w = pipe[p].w \cup {ch}] BY <2>1, <3>1
      <4> QED BY <1>6, <2>2, <4>1 DEF PipeOK
    <3>2. CASE "parent" \notin pipe[p].w BY <2>1, <2>2, <3>2
    <3> QED BY <3>1, <3>2
  <2> QED BY <1>4, <1>5, <2>1, <2>3
<1>12. ChildType' BY <1>9, <1>10, <1>11 DEF KidsInv, ChildType
<1>13. DOMAIN a = {"fn", "prog", "want", "ask"} /\ a.prog \in BOOLEAN /\ Proper(a.ask, Iab)
  BY <1>2, CopyProper
<1> HIDE DEF a, y
<1>14. KidInv'
  <2> SUFFICES ASSUME NEW p \in Children
               PROVE  KidIs(p, kid'[p], pipe'[p].w, pipe'[p].data)
    BY DEF KidInv
  <2>1. KidIs(p, kid[p], pipe[p].w, pipe[p].data) BY DEF KidsInv, KidInv
  <2>2. CASE p = ch BY <1>4, <1>9, <1>10, <1>11, <1>13, <2>1, <2>2 DEF KidIs, Before
  <2>3. CASE p # ch BY <1>9, <1>11, <2>1, <2>3 DEF KidIs
  <2> QED BY <2>2, <2>3
<1>15. Moves(t, "unlock", l, n, ch, r) BY <1>1, ParentMoves
<1>16. Fits("unlock", ch, r)' BY <1>4, <1>9, <1>10 DEF Fits
<1>17. ASSUME NEW u \in Parents \ {t} PROVE Fits(th[u].pc, th[u].child, th[u].ret)'
  <2>1. th'[u] = th[u] BY <1>15 DEF Moves
  <2>2. Fits(th[u].pc, th[u].child, th[u].ret) BY Fit
  <2>3. th[u].child # Nobody => th[u].child \in Children
    BY ThreadFields DEF ParentType, Kids
  <2>4. th[u].child # Nobody => /\ kid'[th[u].child] = kid[th[u].child]
                                /\ pipe'[th[u].child].data = pipe[th[u].child].data
                                /\ pipe[th[u].child].w \subseteq pipe'[th[u].child].w
    BY <1>3, <1>4, <1>9, <1>11, <2>3
  <2> QED BY <2>1, <2>2, <2>4 DEF Fits, Told
<1> QED BY <1>3, <1>12, <1>14, <1>15, <1>16, <1>17, FitMoves

(* The parent closes its write end. *)
LEMMA KidsUnlock ==
  ASSUME ParentType, KidsInv, plan' = plan, NEW t \in Parents, Unlock(t)
  PROVE  KidsInv'
<1>1. PICK ch, l, n, r : ch = th[t].child /\ l = th[t].l /\ n = th[t].new /\ r = th[t].ret
  OBVIOUS
<1>2. /\ Fits(th[t].pc, ch, r)
      /\ \A u \in Parents \ {t} : th[u].child = ch => ch = Nobody
  BY <1>1, Fit
<1>3. ch # Nobody /\ kid' = kid /\ th[t].pc \in {"unlock", "unlock_failed"}
  BY <1>2 DEF Fits, Unlock
<1>4. ch \in Children BY <1>1, <1>3, ThreadFields DEF ParentType, Kids
<1>5. /\ DOMAIN pipe' = Children /\ PipeOK(pipe'[ch]) /\ pipe'[ch].data = pipe[ch].data
      /\ pipe'[ch].w = pipe[ch].w \ {"parent"}
      /\ \A p \in Children \ {ch} : pipe'[p] = pipe[p]
  <2>1. DOMAIN pipe = Children /\ PipeOK(pipe[ch]) BY <1>4 DEF KidsInv, ChildType
  <2>2. pipe' = [pipe EXCEPT ![ch].w = @ \ {"parent"}] BY <1>1 DEF Unlock
  <2> HIDE DEF KidErrors
  <2> QED BY <1>4, <2>1, <2>2 DEF PipeOK
<1>6. ChildType' BY <1>3, <1>5 DEF KidsInv, ChildType
<1>7. KidInv'
  <2> SUFFICES ASSUME NEW p \in Children
               PROVE  KidIs(p, kid'[p], pipe'[p].w, pipe'[p].data)
    BY DEF KidInv
  <2>1. KidIs(p, kid[p], pipe[p].w, pipe[p].data) BY DEF KidsInv, KidInv
  <2>2. CASE p = ch
    <3>1. p # "parent" BY CapLaunchAssumption DEF Children
    <3> QED BY <1>3, <1>5, <2>1, <2>2, <3>1 DEF KidIs
  <2>3. CASE p # ch BY <1>3, <1>5, <2>1, <2>3
  <2> QED BY <2>2, <2>3
<1>8. ASSUME NEW u \in Parents \ {t}, th'[u] = th[u]
      PROVE  Fits(th[u].pc, th[u].child, th[u].ret)'
  <2>2. Fits(th[u].pc, th[u].child, th[u].ret) BY Fit
  <2>3. th[u].child # Nobody => th[u].child \in Children
    BY ThreadFields DEF ParentType, Kids
  <2>4. th[u].child # Nobody => pipe'[th[u].child] = pipe[th[u].child]
    BY <1>2, <1>3, <1>5, <2>3
  <2> QED BY <1>3, <1>8, <2>2, <2>4 DEF Fits, Told
<1>9. CASE th[t].pc = "unlock" /\ Moves(t, "read", l, n, ch, r)
  <2>1. Fits("read", ch, r)' BY <1>2, <1>3, <1>9 DEF Fits
  <2>2. \A u \in Parents \ {t} : th'[u] = th[u] BY <1>9 DEF Moves
  <2> QED BY <1>2, <1>6, <1>7, <1>8, <1>9, <2>1, <2>2, FitMoves
<1>10. CASE th[t].pc = "unlock_failed" /\ Moves(t, "idle", l, n, ch, -1)
  <2>1. KidIs(ch, kid[ch], pipe[ch].w, pipe[ch].data) BY <1>4 DEF KidsInv, KidInv
  <2>2. kid[ch].st = "reserved" /\ ~ kid[ch].execd BY <1>2, <1>10, <2>1 DEF Fits, KidIs
  <2>3. Fits("idle", ch, -1)' BY <1>3, <2>2 DEF Fits, Told
  <2>4. \A u \in Parents \ {t} : th'[u] = th[u] BY <1>10 DEF Moves
  <2>5. PICK m : m = -1 OBVIOUS
  <2>6. Moves(t, "idle", l, n, ch, m) /\ Fits("idle", ch, m)' BY <1>10, <2>3, <2>5
  <2> QED BY <1>2, <1>6, <1>7, <1>8, <2>4, <2>6, FitMoves
<1> QED BY <1>1, <1>9, <1>10, ParentMoves

(* The actions of the parent that leave the children alone. *)
LEMMA KidsQuiet ==
  ASSUME ParentType, MutexInv, KidsInv, plan' = plan, NEW t \in Parents, Parent(t),
         ~ MakePipe(t), ~ Fork(t), ~ Unlock(t)
  PROVE  KidsInv'
<1>1. PICK ch, l, n, r, p : /\ ch = th[t].child /\ l = th[t].l /\ n = th[t].new
                            /\ r = th[t].ret /\ p = th[t].pc
  OBVIOUS
<1>2. Fits(p, ch, r) BY <1>1, Fit
<1>3. /\ kid' = kid /\ pipe' = pipe
  BY DEF Parent, Finish, Setter, LockIab, ReadErrno, ReadEof, WaitChild, SetCallback, SetAttr,
         SetChroot, Setting, SwapIab, ChangeIab, Launch, PipeFails, ForkFails,
         ReadInterrupted, WaitInterrupted
<1>4. ASSUME NEW q, NEW m, NEW k, NEW s, Moves(t, q, m, k, ch, s), Fits(q, ch, s)
      PROVE  KidsInv'
  BY <1>1, <1>3, <1>4, FitQuiet
<1>5. ASSUME NEW q, NEW m, NEW k, NEW s, Moves(t, q, m, k, Nobody, s), q \in {"pipe", "idle"}
      PROVE  KidsInv'
  <2>1. Fits(q, Nobody, s) BY <1>5 DEF Fits
  <2>2. PICK nb : nb = Nobody OBVIOUS
  <2>3. Moves(t, q, m, k, nb, s) /\ Fits(q, nb, s) BY <1>5, <2>1, <2>2
  <2> QED BY <1>1, <1>3, <2>2, <2>3, FitQuiet
<1>6. p \in {"idle", "lock_iab"} => Fits("idle", ch, r) /\ Fits("lock_iab", ch, r)
  BY <1>2 DEF Fits
<1>7. plan.launchers \subseteq Launchers BY PlanFacts
<1>8. ASSUME NEW lc, Setting(t, lc) PROVE KidsInv'
  <2>1. p = "idle" BY <1>1, <1>8 DEF Setting
  <2>2. Moves(t, "idle", Nobody, n, ch, r) BY <1>1, <1>8, <2>1, ParentMoves
  <2> QED BY <1>4, <1>6, <2>1, <2>2
<1>9. ASSUME NEW o, ChangeIab(t, o) PROVE KidsInv'
  <2>1. p = "idle" BY <1>1, <1>9 DEF ChangeIab
  <2>2. Moves(t, "idle", l, n, ch, r) BY <1>1, <1>9, <2>1, ParentMoves
  <2> QED BY <1>4, <1>6, <2>1, <2>2
<1>10. ASSUME NEW lc \in Launchers, SwapIab(t, lc) PROVE KidsInv'
  <2>1. p = "idle" BY <1>1, <1>10 DEF SwapIab
  <2>2. \E new : Moves(t, "lock_iab", lc, new, ch, r) BY <1>1, <1>10, SwapIabMoves
  <2> QED BY <1>4, <1>6, <2>1, <2>2
<1>11. CASE LockIab(t)
  <2>1. p = "lock_iab" BY <1>1, <1>11 DEF LockIab
  <2>2. Moves(t, "idle", l, n, ch, r) BY <1>1, <1>11, ParentMoves
  <2> QED BY <1>4, <1>6, <2>1, <2>2
<1>12. ASSUME NEW lc \in Launchers, Launch(t, lc) PROVE KidsInv'
  <2>1. \E q \in {"pipe", "idle"} : \E s : Moves(t, q, lc, n, Nobody, s) BY <1>1, <1>12, LaunchMoves
  <2> QED BY <1>5, <2>1
<1>13. CASE PipeFails(t)
  <2>1. p = "pipe" /\ Moves(t, "idle", l, n, ch, -1) BY <1>1, <1>13, ParentMoves DEF PipeFails
  <2>2. ch = Nobody BY <1>2, <2>1 DEF Fits
  <2> QED BY <1>5, <2>1, <2>2
<1>14. CASE ForkFails(t)
  <2>1. p = "fork" /\ Moves(t, "unlock_failed", l, n, ch, r)
    BY <1>1, <1>14, ParentMoves DEF ForkFails
  <2>2. Fits("unlock_failed", ch, r) BY <1>2, <2>1 DEF Fits
  <2> QED BY <1>4, <2>1, <2>2
<1>15. CASE ReadErrno(t) \/ ReadInterrupted(t)
  <2>1. Moves(t, "wait", l, n, ch, r) BY <1>1, <1>15, ParentMoves
  <2>2. p = "read" BY <1>1, <1>15 DEF ReadErrno, ReadInterrupted
  <2>3. Fits("wait", ch, r) BY <1>2, <2>2 DEF Fits
  <2> QED BY <1>4, <2>1, <2>3
<1>16. CASE ReadEof(t)
  <2>1. Moves(t, "idle", l, n, ch, 1) BY <1>1, <1>16, ParentMoves
  <2>2. p = "read" /\ pipe[ch].data = "none" /\ pipe[ch].w = {} BY <1>1, <1>16 DEF ReadEof
  <2>3. ch # Nobody /\ kid[ch].st \notin {"none", "reserved"} BY <1>2, <2>2 DEF Fits
  <2>4. ch \in Children BY <1>1, <2>3, ThreadFields DEF ParentType, Kids
  <2>5. KidIs(ch, kid[ch], pipe[ch].w, pipe[ch].data) /\ kid[ch].st \in Places
    BY <2>4 DEF KidsInv, KidInv, ChildType, KidOK
  <2>6. kid[ch].st \in {"exit0", "exited", "running", "killed"}
    BY <2>2, <2>3, <2>5 DEF KidIs, Places, Gone, Before
  <2>7. Told(1, kid[ch]) BY <2>5, <2>6 DEF Told, KidIs
  <2>8. Fits("idle", ch, 1) BY <2>3, <2>7 DEF Fits
  <2> QED BY <1>4, <2>1, <2>8
<1>17. CASE WaitChild(t) \/ WaitInterrupted(t)
  <2>1. Moves(t, "idle", l, n, ch, -1) BY <1>1, <1>17, ParentMoves
  <2>2. p = "wait" BY <1>1, <1>17 DEF WaitChild, WaitInterrupted
  <2>3. ch # Nobody /\ kid[ch].st \notin {"none", "reserved"} BY <1>2, <2>2 DEF Fits
  <2>4. Fits("idle", ch, -1) BY <2>3 DEF Fits, Told
  <2> QED BY <1>4, <2>1, <2>4
<1>18. ASSUME NEW lc \in Launchers,
              SetCallback(t, lc) \/ SetAttr(t, lc) \/ SetChroot(t, lc) \/ SwapIab(t, lc)
       PROVE  KidsInv'
  BY <1>8, <1>10, <1>18 DEF SetCallback, SetAttr, SetChroot
<1> QED BY <1>7, <1>9, <1>11, <1>12, <1>13, <1>14, <1>15, <1>16, <1>17, <1>18
        DEF Parent, Finish, Setter

LEMMA KidsInit == LInit => KidsInv
<1> SUFFICES ASSUME LInit PROVE KidsInv OBVIOUS
<1>1. \A t \in Parents : th[t].pc = "idle" /\ th[t].child = Nobody BY DEF LInit
<1>2. kid = [ch \in Children |-> [st |-> "none", cfg |-> Nobody, stage |-> 0,
                                   execd |-> FALSE, errno |-> "none"]]
  BY DEF LInit
<1>3. pipe = [ch \in Children |-> [w |-> {}, data |-> "none"]] BY DEF LInit
<1>4. "none" \in Places /\ "none" \in KidErrors /\ "none" \notin Before
  BY DEF Places, KidErrors, Before
<1> HIDE DEF Places, KidErrors, Before
<1>5. ASSUME NEW ch \in Children
      PROVE /\ kid[ch] = [st |-> "none", cfg |-> Nobody, stage |-> 0,
                          execd |-> FALSE, errno |-> "none"]
            /\ pipe[ch] = [w |-> {}, data |-> "none"]
  BY <1>2, <1>3
<1>6. ASSUME NEW ch \in Children
      PROVE  KidOK(kid[ch]) /\ PipeOK(pipe[ch]) /\ KidIs(ch, kid[ch], pipe[ch].w, pipe[ch].data)
  <2>0. /\ DOMAIN kid[ch] = {"st", "cfg", "stage", "execd", "errno"} /\ kid[ch].st = "none"
        /\ kid[ch].stage = 0 /\ kid[ch].execd = FALSE /\ kid[ch].errno = "none"
    BY <1>5
  <2>0a. kid[ch].execd \in BOOLEAN BY <2>0
  <2>0b. kid[ch].stage \in Nat BY <2>0
  <2>1. KidOK(kid[ch]) BY <1>4, <2>0, <2>0a, <2>0b, Zenon DEF KidOK
  <2>2. PipeOK(pipe[ch]) BY <1>4, <1>5 DEF PipeOK
  <2>3. /\ kid[ch].st = "none" /\ kid[ch].execd = FALSE /\ pipe[ch].data = "none"
    BY <1>5
  <2>4. KidIs(ch, kid[ch], pipe[ch].w, pipe[ch].data) BY <1>4, <2>3 DEF KidIs
  <2> QED BY <2>1, <2>2, <2>4
<1>7. DOMAIN kid = Children /\ DOMAIN pipe = Children BY <1>2, <1>3
<1> QED BY <1>1, <1>6, <1>7 DEF KidsInv, ChildType, LaunchInv, KidInv, ToldInv

LEMMA KidsNext == ParentInv /\ KidsInv /\ [LNext]_allvars => KidsInv'
<1> SUFFICES ASSUME ParentInv, KidsInv, [LNext]_allvars PROVE KidsInv' OBVIOUS
<1>1. plan' = plan BY StepKinds
<1>2. ASSUME NEW t \in Parents, Parent(t) PROVE KidsInv'
  BY <1>1, <1>2, KidsMakePipe, KidsFork, KidsUnlock, KidsQuiet DEF ParentInv
<1>3. ASSUME NEW ch \in Children, ChildStep(ch), th' = th PROVE KidsInv'
  BY <1>1, <1>3, KidsChild DEF ParentInv
<1>4. CASE UNCHANGED allvars
  <2>1. UNCHANGED <<plan, th, kid, pipe>> BY <1>4 DEF allvars, lvars
  <2> QED BY <2>1 DEF KidsInv, ChildType, LaunchInv, KidInv, ToldInv, Told
<1> QED BY <1>2, <1>3, <1>4, StepKinds

LEMMA KidsHold == LSpec => [](ParentInv /\ KidsInv)
<1>1. LInit => ParentInv /\ KidsInv BY ParentInit, KidsInit
<1>2. ParentInv /\ KidsInv /\ [LNext]_allvars => (ParentInv /\ KidsInv)'
  BY ParentNext, KidsNext
<1> QED BY <1>1, <1>2, PTL DEF LSpec

-----------------------------------------------------------------------------
(* Signals: what a launch that failed has left                             *)

(* An errno was read unless read() was interrupted, and a launch returns   *)
(* -1 with its child gone, or never forked, unless waitpid() was.          *)
Heard(pc, child, ret, cut) ==
    /\ pc = "wait" => "read" \in cut \/ pipe[child].data # "none"
    /\ pc \in {"idle", "lock_iab"} /\ child # Nobody /\ ret = -1 =>
          /\ "read" \in cut \/ pipe[child].data # "none" \/ kid[child].st = "reserved"
          /\ "wait" \in cut \/ kid[child].st \in Gone \cup {"reserved"}

HeardInv == /\ DOMAIN eintr = Parents
            /\ \A t \in Parents : Heard(th[t].pc, th[t].child, th[t].ret, eintr[t])

(* What a step of the parent does to the children and their pipes. *)
LEMMA ParentLeaves ==
  ASSUME ParentType, MutexInv, KidsInv, NEW t \in Parents, Parent(t), NEW p \in Children
  PROVE  /\ pipe'[p].data = pipe[p].data
         /\ \/ kid'[p] = kid[p]
            \/ kid[p].st = "none" /\ kid'[p].st = "reserved"
            \/ /\ p = th[t].child /\ Fork(t) /\ kid'[p].st = "callback"
               /\ th[t].l \in Launchers /\ kid'[p].cfg = CopyOf(th[t].l)
<1>0. /\ DOMAIN kid = Children /\ DOMAIN pipe = Children
      /\ DOMAIN kid[p] = {"st", "cfg", "stage", "execd", "errno"}
      /\ DOMAIN pipe[p] = {"w", "data"}
  BY DEF KidsInv, ChildType, KidOK, PipeOK
<1>1. CASE MakePipe(t)
  <2>1. PICK ch \in Children : /\ kid[ch].st = "none" /\ kid' = [kid EXCEPT ![ch].st = "reserved"]
                               /\ pipe' = [pipe EXCEPT ![ch].w = {"parent"}]
    BY <1>1, MakePipeMoves
  <2> QED BY <1>0, <2>1
<1>2. CASE Fork(t)
  <2>1. PICK ch, a : ch = th[t].child /\ a = CopyOf(th[t].l) OBVIOUS
  <2>2. /\ kid' = [kid EXCEPT ![ch].st = "callback", ![ch].cfg = a]
        /\ pipe' = [q \in Children |->
                      IF "parent" \in pipe[q].w THEN [pipe[q] EXCEPT !.w = @ \cup {ch}]
                      ELSE pipe[q]]
    BY <1>2, <2>1 DEF Fork
  <2>3. pipe'[p].data = pipe[p].data BY <1>0, <2>2
  <2>4. kid'[p] = kid[p] \/ (p = ch /\ kid'[p].st = "callback" /\ kid'[p].cfg = a)
    BY <1>0, <2>2
  <2>5. th[t].l \in Launchers BY <1>2 DEF Fork, MutexInv, Holding
  <2> QED BY <1>2, <2>1, <2>3, <2>4, <2>5
<1>3. CASE Unlock(t)
  <2>1. PICK ch : ch = th[t].child OBVIOUS
  <2>2. kid' = kid /\ pipe' = [pipe EXCEPT ![ch].w = @ \ {"parent"}] BY <1>3, <2>1 DEF Unlock
  <2> QED BY <1>0, <2>2
<1>4. CASE ~ MakePipe(t) /\ ~ Fork(t) /\ ~ Unlock(t)
  <2>1. kid' = kid /\ pipe' = pipe
    BY <1>4 DEF Parent, Finish, Setter, LockIab, ReadErrno, ReadEof, WaitChild, SetCallback,
           SetAttr, SetChroot, Setting, SwapIab, ChangeIab, Launch, PipeFails, ForkFails,
           ReadInterrupted, WaitInterrupted
  <2> QED BY <2>1
<1> QED BY <1>1, <1>2, <1>3, <1>4

(* Only t's own steps interrupt its launch. *)
LEMMA Interrupts ==
  ASSUME DOMAIN eintr = Parents, NEW t \in Parents, Parent(t)
  PROVE  /\ DOMAIN eintr' = Parents /\ \A u \in Parents \ {t} : eintr'[u] = eintr[u]
         /\ \/ eintr'[t] = eintr[t]
            \/ \E l : Launch(t, l)
            \/ ReadInterrupted(t) /\ eintr'[t] = {"read"}
            \/ WaitInterrupted(t) /\ eintr'[t] = eintr[t] \cup {"wait"}
<1>1. CASE ReadInterrupted(t) BY <1>1 DEF ReadInterrupted
<1>2. CASE WaitInterrupted(t) BY <1>2 DEF WaitInterrupted
<1>3. ASSUME NEW l, Launch(t, l)
      PROVE  DOMAIN eintr' = Parents /\ \A u \in Parents \ {t} : eintr'[u] = eintr[u]
  BY <1>3 DEF Launch
<1>4. CASE eintr' = eintr BY <1>4
<1>5. eintr' = eintr \/ ReadInterrupted(t) \/ WaitInterrupted(t) \/ \E l : Launch(t, l)
  BY DEF Parent, Finish, Setter, LockIab, MakePipe, Fork, Unlock, ReadErrno, ReadEof, WaitChild,
         SetCallback, SetAttr, SetChroot, Setting, SwapIab, ChangeIab, PipeFails, ForkFails, hist
<1> QED BY <1>1, <1>2, <1>3, <1>4, <1>5

(* The thread that takes the step. *)
LEMMA HeardOwn ==
  ASSUME ParentType, MutexInv, KidsInv, HeardInv, NEW t \in Parents, Parent(t)
  PROVE  Heard(th[t].pc, th[t].child, th[t].ret, eintr[t])'
<1>1. PICK ch, r, p, e : ch = th[t].child /\ r = th[t].ret /\ p = th[t].pc /\ e = eintr[t]
  OBVIOUS
<1>2. Fits(p, ch, r) /\ Heard(p, ch, r, e) BY <1>1, Fit DEF HeardInv
<1>4. plan.launchers \subseteq Launchers BY PlanFacts
<1>5. ASSUME NEW q, NEW l, NEW n, NEW s, Moves(t, q, l, n, ch, s), kid' = kid, pipe' = pipe,
             Heard(q, ch, s, eintr'[t])
      PROVE  Heard(th[t].pc, th[t].child, th[t].ret, eintr[t])'
  BY <1>5 DEF Heard, Moves
<1>6. ASSUME NEW q \in {"pipe", "fork", "unlock", "unlock_failed", "read"}, th'[t].pc = q
      PROVE  Heard(th[t].pc, th[t].child, th[t].ret, eintr[t])'
  BY <1>6 DEF Heard
<1>7. ASSUME NEW l, Setting(t, l), eintr'[t] = e
      PROVE Heard(th[t].pc, th[t].child, th[t].ret, eintr[t])'
  <2>1. \E n : Moves(t, p, Nobody, n, ch, r) BY <1>1, <1>7, ParentMoves
  <2> QED BY <1>2, <1>5, <1>7, <2>1 DEF Setting
<1>8. CASE (\E o : ChangeIab(t, o)) /\ eintr'[t] = e
  <2>1. \E l, n : Moves(t, p, l, n, ch, r) BY <1>1, <1>8, ParentMoves
  <2> QED BY <1>2, <1>5, <1>8, <2>1 DEF ChangeIab
<1>9. ASSUME NEW lc \in Launchers, SwapIab(t, lc), eintr'[t] = e
      PROVE  Heard(th[t].pc, th[t].child, th[t].ret, eintr[t])'
  <2>1. \E n : Moves(t, "lock_iab", lc, n, ch, r) BY <1>1, <1>9, SwapIabMoves
  <2>2. p = "idle" /\ kid' = kid /\ pipe' = pipe BY <1>1, <1>9 DEF SwapIab
  <2>3. Heard("lock_iab", ch, r, e) BY <1>2, <2>2 DEF Heard
  <2> QED BY <1>5, <1>9, <2>1, <2>2, <2>3
<1>10. CASE LockIab(t) /\ eintr'[t] = e
  <2>1. \E l, n : Moves(t, "idle", l, n, ch, r) BY <1>1, <1>10, ParentMoves
  <2>2. p = "lock_iab" /\ kid' = kid /\ pipe' = pipe BY <1>1, <1>10 DEF LockIab
  <2>3. Heard("idle", ch, r, e) BY <1>2, <2>2 DEF Heard
  <2> QED BY <1>5, <1>10, <2>1, <2>2, <2>3
<1>11. ASSUME NEW lc \in Launchers, Launch(t, lc)
       PROVE  Heard(th[t].pc, th[t].child, th[t].ret, eintr[t])'
  <2>1. th'[t].child = Nobody /\ th'[t].pc \in {"pipe", "idle"}
    BY <1>11, LaunchMoves DEF Moves
  <2> QED BY <2>1 DEF Heard
<1>12. CASE PipeFails(t)
  <2>1. p = "pipe" /\ \E l, n : Moves(t, "idle", l, n, ch, -1)
    BY <1>1, <1>12, ParentMoves DEF PipeFails
  <2>2. ch = Nobody BY <1>2, <2>1 DEF Fits
  <2> QED BY <2>1, <2>2 DEF Heard, Moves
<1>13. CASE MakePipe(t) BY <1>6, <1>13, MakePipeMoves DEF Moves
<1>14. CASE ForkFails(t) \/ Fork(t) BY <1>6, <1>14, ParentMoves DEF Moves
<1>15. CASE Unlock(t)
  <2>1. CASE th'[t].pc = "read" BY <1>6, <2>1
  <2>2. CASE p = "unlock_failed" /\ th'[t].pc = "idle" /\ th'[t].child = ch
    <3>1. ch # Nobody /\ kid[ch].st = "reserved" /\ kid' = kid
      BY <1>2, <1>15, <2>2 DEF Fits, Unlock
    <3> QED BY <2>2, <3>1 DEF Heard
  <2> QED BY <1>1, <1>15, <2>1, <2>2, ParentMoves DEF Moves
<1>16. CASE ReadErrno(t) /\ eintr'[t] = e
  <2>1. \E l, n : Moves(t, "wait", l, n, ch, r) BY <1>1, <1>16, ParentMoves
  <2>2. pipe[ch].data # "none" /\ kid' = kid /\ pipe' = pipe BY <1>1, <1>16 DEF ReadErrno
  <2>3. Heard("wait", ch, r, e) BY <2>2 DEF Heard
  <2> QED BY <1>5, <1>16, <2>1, <2>2, <2>3
<1>17. CASE ReadInterrupted(t) /\ eintr'[t] = {"read"}
  <2>1. \E l, n : Moves(t, "wait", l, n, ch, r) BY <1>1, <1>17, ParentMoves
  <2>2. kid' = kid /\ pipe' = pipe BY <1>17 DEF ReadInterrupted
  <2>3. Heard("wait", ch, r, {"read"}) BY DEF Heard
  <2> QED BY <1>5, <1>17, <2>1, <2>2, <2>3
<1>18. CASE ReadEof(t)
  <2>1. th'[t].pc = "idle" /\ th'[t].ret = 1 BY <1>18, ParentMoves DEF Moves
  <2> QED BY <2>1 DEF Heard
<1>19. CASE WaitChild(t) /\ eintr'[t] = e
  <2>1. \E l, n : Moves(t, "idle", l, n, ch, -1) BY <1>1, <1>19, ParentMoves
  <2>2. p = "wait" /\ kid[ch].st \in Gone /\ kid' = kid /\ pipe' = pipe
    BY <1>1, <1>19 DEF WaitChild
  <2>3. Heard("idle", ch, -1, e) BY <1>2, <2>2 DEF Heard
  <2> QED BY <1>5, <1>19, <2>1, <2>2, <2>3
<1>20. CASE WaitInterrupted(t) /\ eintr'[t] = e \cup {"wait"}
  <2>1. \E l, n : Moves(t, "idle", l, n, ch, -1) BY <1>1, <1>20, ParentMoves
  <2>2. p = "wait" /\ kid' = kid /\ pipe' = pipe BY <1>1, <1>20 DEF WaitInterrupted
  <2>3. Heard("idle", ch, -1, e \cup {"wait"}) BY <1>2, <2>2 DEF Heard
  <2> QED BY <1>5, <1>20, <2>1, <2>2, <2>3
<1>21. ASSUME NEW lc \in Launchers, SetCallback(t, lc) \/ SetAttr(t, lc) \/ SetChroot(t, lc)
       PROVE  Heard(th[t].pc, th[t].child, th[t].ret, eintr[t])'
  BY <1>1, <1>7, <1>21 DEF SetCallback, SetAttr, SetChroot, Setting
<1>22. /\ ReadErrno(t) \/ WaitChild(t) \/ LockIab(t) => eintr'[t] = e
       /\ \A o : ChangeIab(t, o) => eintr'[t] = e
       /\ \A l : SwapIab(t, l) => eintr'[t] = e
  BY <1>1 DEF ReadErrno, WaitChild, LockIab, ChangeIab, SwapIab, hist
<1>23. /\ ReadInterrupted(t) => eintr'[t] = {"read"}
       /\ WaitInterrupted(t) => eintr'[t] = e \cup {"wait"}
  BY <1>1 DEF ReadInterrupted, WaitInterrupted, HeardInv
<1> QED BY <1>4, <1>8, <1>9, <1>10, <1>11, <1>12, <1>13, <1>14, <1>15, <1>16, <1>17, <1>18,
           <1>19, <1>20, <1>21, <1>22, <1>23 DEF Parent, Finish, Setter

LEMMA HeardNext ==
  ASSUME ParentInv, KidsInv, HeardInv, [LNext]_allvars
  PROVE  HeardInv'
<1>0. \A u \in Parents : th[u].child # Nobody => th[u].child \in Children
  BY ThreadFields DEF ParentInv, ParentType, Kids
<1>1. ASSUME NEW t \in Parents, Parent(t) PROVE HeardInv'
  <2>1. /\ DOMAIN eintr' = Parents /\ \A u \in Parents \ {t} : eintr'[u] = eintr[u]
    BY <1>1, Interrupts DEF HeardInv
  <2>2. \A u \in Parents \ {t} : th'[u] = th[u]
    <3>1. ParentKind(t)
      <4>1. plan' = plan BY StepKinds
      <4> QED BY <1>1, <4>1, ParentKinds DEF ParentInv
    <3> QED BY <3>1 DEF ParentKind, Sets, Changes, Swaps, Locks, Begins, Continues, Releases,
                        Follows1, Moves
  <2>3. ASSUME NEW u \in Parents \ {t} PROVE Heard(th[u].pc, th[u].child, th[u].ret, eintr[u])'
    <3>1. PICK ch : ch = th[u].child OBVIOUS
    <3>2. Heard(th[u].pc, ch, th[u].ret, eintr[u]) /\ Fits(th[u].pc, ch, th[u].ret)
      BY <3>1, Fit DEF HeardInv
    <3>3. CASE ch = Nobody
      BY <2>1, <2>2, <3>1, <3>2, <3>3 DEF Heard, Fits
    <3>4. CASE ch # Nobody
      <4>1. ch \in Children /\ ch # th[t].child BY <1>0, <3>1, <3>4, Fit
      <4>2. kid[ch].st # "none" BY <3>2, <3>4 DEF Fits
      <4>3. pipe'[ch].data = pipe[ch].data /\ kid'[ch] = kid[ch]
        BY <1>1, <4>1, <4>2, ParentLeaves DEF ParentInv
      <4> QED BY <2>1, <2>2, <3>1, <3>2, <4>3 DEF Heard
    <3> QED BY <3>3, <3>4
  <2>4. Heard(th[t].pc, th[t].child, th[t].ret, eintr[t])' BY <1>1, HeardOwn DEF ParentInv
  <2> QED BY <2>1, <2>3, <2>4 DEF HeardInv
<1>2. ASSUME NEW ch \in Children, ChildStep(ch) PROVE HeardInv'
  <2>1. th' = th /\ eintr' = eintr
    BY <1>2 DEF ChildStep, Child, Callback, NextStage, Operation, Exec, ExecFails, Defer, Exit,
                Kill, ProgramExits, lvars, hist
  <2>2. /\ kid[ch].st \in Before \cup {"running"}
        /\ \A p \in Children \ {ch} : kid'[p] = kid[p]
        /\ \A p \in Children : pipe[p].data # "none" => pipe'[p].data # "none"
    BY <1>2, ChildEffect DEF KidsInv
  <2>3. kid[ch].st \notin Gone \cup {"reserved"} BY <2>2 DEF Before, Gone
  <2>4. ASSUME NEW u \in Parents PROVE Heard(th[u].pc, th[u].child, th[u].ret, eintr[u])'
    <3>1. Heard(th[u].pc, th[u].child, th[u].ret, eintr[u])
          /\ Fits(th[u].pc, th[u].child, th[u].ret)
      BY Fit DEF HeardInv
    <3>2. th[u].pc = "wait" => th[u].child # Nobody BY <3>1 DEF Fits
    <3> QED BY <1>0, <2>1, <2>2, <2>3, <3>1, <3>2 DEF Heard
  <2> QED BY <2>1, <2>4 DEF HeardInv
<1>3. CASE UNCHANGED allvars
  BY <1>3 DEF allvars, lvars, hist, HeardInv, Heard
<1> QED BY <1>1, <1>2, <1>3, StepKinds

LEMMA HeardInit == LInit => HeardInv
<1> SUFFICES ASSUME LInit PROVE HeardInv OBVIOUS
<1>1. DOMAIN eintr = Parents BY DEF LInit
<1>2. \A t \in Parents : th[t].pc = "idle" /\ th[t].child = Nobody BY DEF LInit
<1> QED BY <1>1, <1>2 DEF HeardInv, Heard

LEMMA HeardHolds == LSpec => [](ParentInv /\ KidsInv /\ HeardInv)
<1>1. ParentInv /\ KidsInv /\ HeardInv /\ [LNext]_allvars => HeardInv' BY HeardNext
<1> QED BY <1>1, HeardInit, KidsHold, PTL DEF LSpec

(* What cap_launch() returns and what became of the child, however many    *)
(* threads launch at the same time and inherit each other's pipes.  A pid: *)
(* the program was executed, or the function of a launcher without program *)
(* ran to its end, or the child was killed.  -1: nothing was executed and  *)
(* the child is gone, but for the two calls a signal handler of the caller *)
(* can break off: only after an interrupted read() may the program have    *)
(* been executed, only after an interrupted waitpid() may the child be     *)
(* left.                                                                   *)
THEOREM ResultsAreTrue == LSpec => []ResultIsTrue
<1>1. ParentInv /\ KidsInv /\ HeardInv => ResultIsTrue
  <2> SUFFICES ASSUME ParentInv, KidsInv, HeardInv, NEW t \in Parents, Launched(t)
               PROVE  LET k == kid[th[t].child] IN
                      /\ th[t].ret = 1 =>
                            k.st = "killed" \/ IF k.cfg.prog THEN k.execd ELSE k.st = "exit0"
                      /\ th[t].ret = -1 =>
                            /\ k.execd => "read" \in eintr[t]
                            /\ k.st \in Gone \cup {"reserved"} \/ "wait" \in eintr[t]
    BY DEF ResultIsTrue
  <2>1. th[t].pc = "idle" /\ th[t].child # Nobody BY DEF Launched
  <2>2. Told(th[t].ret, kid[th[t].child]) BY <2>1 DEF KidsInv, ToldInv
  <2>3. Heard("idle", th[t].child, th[t].ret, eintr[t]) BY <2>1 DEF HeardInv
  <2>4. \A ch \in Children : KidIs(ch, kid[ch], pipe[ch].w, pipe[ch].data)
    BY DEF KidsInv, KidInv
  <2>5. ASSUME th[t].ret = -1, kid[th[t].child].execd PROVE "read" \in eintr[t]
    <3>1. th[t].child \in Children BY <2>1, ThreadFields DEF ParentInv, ParentType, Kids
    <3> QED BY <2>1, <2>3, <2>4, <2>5, <3>1 DEF Heard, KidIs
  <2> QED BY <2>1, <2>2, <2>3, <2>5 DEF Told, Heard
<1> QED BY <1>1, HeardHolds, PTL

-----------------------------------------------------------------------------
(* The stages of a launch: what a step of an operation changes             *)

(* The children are processes of their own: a step of one changes nothing  *)
(* of the others.                                                          *)
LEMMA OwnProcess ==
  ASSUME CapInv, NEW ch \in Children, NEW g, NEW k, Becomes(ch, g, k)
  PROVE  /\ frame'[ch] = g /\ creds'[ch] = k
         /\ \A u \in Children \ {ch} : frame'[u] = frame[u] /\ creds'[u] = creds[u]
         /\ nopriv' \subseteq nopriv \cup {ch}
         /\ g.pc # "done" => nopriv' = nopriv
<1>1. \A u \in Children : Home[u] = u /\ u \in Procs /\ u \in Threads
  BY CapLaunchAssumption DEF Children
<1>2. Home \in [Threads -> Procs] /\ creds \in [Procs -> Cred] /\ Home[ch] \in Procs
  BY <1>1, CapProcAssumption DEF CapInv, TypeOK
<1> DEFINE h(u) == [f(u) EXCEPT !.clean = FALSE, !.start = NoCaps]
           other(u) == IF Home[u] = Home[ch] /\ k # c(ch) THEN h(u) ELSE f(u)
           won == g.pc = "done" /\ g.op = "set_mode" /\ g.arg = "NOPRIV" /\ g.ret = 0
<1>3. /\ creds' = [creds EXCEPT ![Home[ch]] = k]
      /\ frame' = [u \in Threads |-> IF u = ch THEN g ELSE other(u)]
      /\ nopriv' = IF won THEN nopriv \cup {Home[ch]} ELSE nopriv
  BY Zenon DEF Becomes
<1>4. \A u \in Children \ {ch} : other(u) = f(u) BY <1>1
<1>5. won => g.pc = "done" OBVIOUS
<1> HIDE DEF other, won
<1>6. frame'[ch] = g /\ creds'[ch] = k BY <1>1, <1>2, <1>3
<1>7. ASSUME NEW u \in Children \ {ch} PROVE frame'[u] = frame[u] /\ creds'[u] = creds[u]
  <2>1. frame'[u] = f(u) BY <1>1, <1>3, <1>4
  <2>2. creds'[u] = creds[u] BY <1>1, <1>2, <1>3
  <2> QED BY <2>1, <2>2 DEF f
<1>8. nopriv' \subseteq nopriv \cup {ch} /\ (g.pc # "done" => nopriv' = nopriv)
  BY <1>1, <1>3, <1>5
<1> QED BY <1>6, <1>7, <1>8

(* The stages of the launches are kept if those of one child are.          *)
LEMMA StageMoves ==
  ASSUME StageInv, NEW ch \in Children,
         \A u \in Children \ {ch} : /\ frame'[u] = frame[u] /\ creds'[u] = creds[u]
                                    /\ kid'[u] = kid[u],
         nopriv' \subseteq nopriv \cup {ch},
         StageIs(ch, kid'[ch], frame'[ch], creds'[ch], nopriv')
  PROVE  StageInv'
<1>1. ASSUME NEW u \in Children \ {ch}
      PROVE  StageIs(u, kid'[u], frame'[u], creds'[u], nopriv')
  <2>1. StageIs(u, kid[u], frame[u], creds[u], nopriv) BY DEF StageInv
  <2>2. u \notin nopriv => u \notin nopriv' OBVIOUS
  <2> QED BY <2>1, <2>2 DEF StageIs
<1> QED BY <1>1 DEF StageInv

(* The stages, one by one.                                                 *)
LEMMA StageNames ==
  /\ Stages[1] = "setuid" /\ Stages[2] = "setgroups" /\ Stages[3] = "set_mode"
  /\ Stages[4] = "iab_set_proc" /\ Stages[5] = "chroot" /\ Len(Stages) = 5
BY DEF Stages

(* A stage that succeeded has done what was asked, and has not undone what *)
(* the earlier ones did.                                                   *)
LEMMA DidAfter ==
  ASSUME NEW ask, Proper(ask, Iab), NEW n \in 1 .. 5, NEW arg, ask[Stages[n]] = {arg},
         NEW s, NEW k, CredOK(s), CredOK(k), NEW w, NEW todo,
         Follows(Stages[n], "done", 0, w, todo, arg, s, k),
         Stages[n] \in {"set_mode", "iab_set_proc"} => Kin(s, k),
         Did(ask, s, n - 1)
  PROVE  Did(ask, k, n)
<1>1. CASE n = 1
  <2>1. ask["setuid"] = {arg} /\ UidFollows("done", 0, w, arg, s, k)
    BY <1>1, StageNames DEF Follows
  <2>2. k.uid = arg BY <2>1 DEF UidFollows, NoMemory
  <2> QED BY <1>1, <2>1, <2>2 DEF Did
<1>2. CASE n = 2
  <2>1. ask["setgroups"] = {arg} /\ GroupsFollow("done", 0, w, arg, s, k)
    BY <1>2, StageNames DEF Follows
  <2>2. k = [s EXCEPT !.E = k.E, !.gid = arg, !.groups = arg]
    BY <2>1 DEF GroupsFollow, GroupsAre
  <2>3. k.gid = arg /\ k.groups = arg /\ k.uid = s.uid BY <2>2 DEF CredOK, Cred
  <2> QED BY <1>2, <2>1, <2>3 DEF Did
<1>3. CASE n = 3
  <2>1. ask["set_mode"] = {arg} /\ ModeFollows("done", 0, w, todo, arg, s, k) /\ Kin(s, k)
    BY <1>3, StageNames DEF Follows
  <2>2. k.sec = ModeBits(arg, k) BY <2>1 DEF ModeFollows
  <2>3. ASSUME arg = "NOPRIV" PROVE k.P = {} /\ k.B = {} /\ k.nnp
    <3>1. cap_get_mode(k) \in Within["NOPRIV"] /\ k.nnp BY <2>1, <2>3 DEF ModeFollows
    <3>2. cap_get_mode(k) = "NOPRIV" BY <3>1 DEF Within
    <3> QED BY <3>1, <3>2 DEF cap_get_mode
  <2> QED BY <1>3, <2>1, <2>2, <2>3 DEF Did, Kin
<1>4. CASE n = 4
  <2>1. ask["iab_set_proc"] = {arg} /\ IabFollows("done", 0, w, todo, arg, s, k) /\ Kin(s, k)
    BY <1>4, StageNames DEF Follows
  <2>2. k.I = arg.i /\ k.A = arg.a /\ k.B \cap arg.nb = {} /\ k.P = s.P /\ k.sec = s.sec
    BY <2>1 DEF IabFollows, IabContained
  <2>3. \A m : ModeBits(m, k) = ModeBits(m, s) BY <2>1 DEF ModeBits, Kin
  <2> QED BY <1>4, <2>1, <2>2, <2>3 DEF Did, Kin
<1>5. CASE n = 5
  <2>1. ask["chroot"] = {arg} /\ RootFollows("done", 0, w, arg, s, k)
    BY <1>5, StageNames DEF Follows
  <2>2. k = [s EXCEPT !.E = k.E, !.root = arg] BY <2>1 DEF RootFollows, RootIs
  <2>3. /\ k.root = arg /\ k.uid = s.uid /\ k.gid = s.gid /\ k.groups = s.groups
        /\ k.P = s.P /\ k.I = s.I /\ k.A = s.A /\ k.B = s.B /\ k.sec = s.sec
        /\ k.nnp = s.nnp /\ k.ambient = s.ambient
    BY <2>2 DEF CredOK, Cred
  <2>4. \A m : ModeBits(m, k) = ModeBits(m, s) BY <2>3 DEF ModeBits
  <2> QED BY <1>5, <2>1, <2>3, <2>4 DEF Did
<1> QED BY <1>1, <1>2, <1>3, <1>4, <1>5

(* A step of an operation. *)
LEMMA StageOperation ==
  ASSUME CapInv, Tracking, ChildType, KidInv, StageInv, NEW ch \in Children, Operation(ch)
  PROVE  CapInv' /\ Tracking' /\ StageInv'
<1>0. ch \in Threads /\ Home[ch] = ch /\ kid' = kid /\ Step(ch) /\ kid[ch].st = "setup"
  BY CapLaunchAssumption DEF Children, Operation, lvars
<1>1. CapInv' /\ Tracking'
  <2>1. [Next]_vars BY <1>0 DEF Next
  <2> QED BY <2>1, InvNext, TrackNext
<1>2. f(ch).pc # "done" /\ \E g, k : Shape(ch, g, k) BY <1>0, StepShape
<1>3. PICK g, k : Shape(ch, g, k) BY <1>2
<1>4. Becomes(ch, g, k) /\ SameCall(g, frame[ch]) BY <1>3 DEF Shape, f
<1>5. /\ frame'[ch] = g /\ creds'[ch] = k
      /\ \A u \in Children \ {ch} : frame'[u] = frame[u] /\ creds'[u] = creds[u]
      /\ nopriv' \subseteq nopriv \cup {ch}
  BY <1>4, OwnProcess
<1> DEFINE x == kid[ch]
           ask == x.cfg.ask
<1>6. StageIs(ch, x, frame[ch], creds[ch], nopriv) /\ x.st = "setup" BY <1>0 DEF StageInv
<1>7. /\ x.stage \in 1 .. 6 /\ frame[ch].n < x.stage /\ frame[ch].clean
      /\ x.stage > 1 /\ frame[ch].op = Stages[x.stage - 1]
      /\ ask[frame[ch].op] = {frame[ch].arg}
      /\ Did(ask, frame[ch].start, x.stage - 2)
      /\ frame[ch].op \in {"set_mode", "iab_set_proc"} => Kin(frame[ch].start, creds[ch])
  BY <1>2, <1>6 DEF StageIs, f
<1>8. /\ g.clean /\ g.n < x.stage /\ g.op = Stages[x.stage - 1] /\ ask[g.op] = {g.arg}
      /\ Did(ask, g.start, x.stage - 2)
  BY <1>4, <1>7 DEF SameCall
<1>9. g.op \in {"set_mode", "iab_set_proc"} => Kin(g.start, k)
  <2>1. g.op \in {"set_mode", "iab_set_proc"} => Kin(creds[ch], k)
    BY <1>0, <1>3, <1>4 DEF Shape, SameCall, f, c
  <2>2. g.op \in {"set_mode", "iab_set_proc"} => Kin(g.start, creds[ch])
    BY <1>4, <1>7 DEF SameCall
  <2> QED BY <2>1, <2>2 DEF Kin
<1>10. ASSUME g.pc = "done", g.ret = 0 PROVE Did(ask, k, x.stage - 1)
  <2> DEFINE n == x.stage - 1
  <2>1. n \in 1 .. 5 /\ n - 1 = x.stage - 2 BY <1>7
  <2>2. Tracks(frame'[ch], creds'[Home[ch]]) BY <1>0, <1>1 DEF Tracking, f, c
  <2>3. Tracks(g, k) BY <1>0, <1>5, <2>2
  <2>4. g.op # "none" BY <1>8, <2>1, StageNames
  <2>5. Follows(g.op, "done", 0, g.working, g.todo, g.arg, g.start, k)
    BY <1>8, <1>10, <2>3, <2>4 DEF Tracks
  <2>6. CredOK(g.start) BY <2>5 DEF Follows
  <2>7. CredOK(k) BY <1>0, <1>1, <1>5, CapProcAssumption DEF CapInv, TypeOK, CredOK
  <2>8. Proper(ask, Iab) BY <1>6 DEF KidInv, KidIs
  <2>9. g.op = Stages[n] /\ Did(ask, g.start, n - 1) BY <1>8, <2>1
  <2> HIDE DEF n, ask
  <2>10. Did(ask, k, n) BY <1>8, <1>9, <2>1, <2>5, <2>6, <2>7, <2>8, <2>9, DidAfter
  <2> QED BY <2>10 DEF n
<1>11. StageIs(ch, x, g, k, nopriv') BY <1>6, <1>7, <1>8, <1>9, <1>10 DEF StageIs
<1>12. StageInv' BY <1>0, <1>5, <1>11, StageMoves
<1> QED BY <1>1, <1>12

(* What of a child's record the stages depend on. *)
KidTo(ch, s, n) == /\ kid'[ch].st = s /\ kid'[ch].stage = n /\ kid'[ch].cfg = kid[ch].cfg
                   /\ \A u \in Children \ {ch} : kid'[u] = kid[u]

LEMMA KidStages ==
  ASSUME ChildType, NEW ch \in Children
  PROVE  LET x == kid[ch] IN
         /\ \A s : kid' = [kid EXCEPT ![ch].st = s] => KidTo(ch, s, x.stage)
         /\ \A s, e : kid' = [kid EXCEPT ![ch].st = s, ![ch].errno = e] => KidTo(ch, s, x.stage)
         /\ \A s : kid' = [kid EXCEPT ![ch].st = s, ![ch].execd = TRUE] => KidTo(ch, s, x.stage)
         /\ \A s : kid' = [kid EXCEPT ![ch].st = s, ![ch].stage = 1] => KidTo(ch, s, 1)
         /\ kid' = [kid EXCEPT ![ch].stage = @ + 1] => KidTo(ch, x.st, x.stage + 1)
<1>1. DOMAIN kid = Children /\ DOMAIN kid[ch] = {"st", "cfg", "stage", "execd", "errno"}
  BY DEF ChildType, KidOK
<1>2. ASSUME NEW s, kid' = [kid EXCEPT ![ch].st = s] PROVE KidTo(ch, s, kid[ch].stage)
  BY <1>1, <1>2 DEF KidTo
<1>3. ASSUME NEW s, NEW e, kid' = [kid EXCEPT ![ch].st = s, ![ch].errno = e]
      PROVE  KidTo(ch, s, kid[ch].stage)
  BY <1>1, <1>3 DEF KidTo
<1>4. ASSUME NEW s, kid' = [kid EXCEPT ![ch].st = s, ![ch].execd = TRUE]
      PROVE  KidTo(ch, s, kid[ch].stage)
  BY <1>1, <1>4 DEF KidTo
<1>5. ASSUME NEW s, kid' = [kid EXCEPT ![ch].st = s, ![ch].stage = 1] PROVE KidTo(ch, s, 1)
  BY <1>1, <1>5 DEF KidTo
<1>6. ASSUME kid' = [kid EXCEPT ![ch].stage = @ + 1]
      PROVE  KidTo(ch, kid[ch].st, kid[ch].stage + 1)
  BY <1>1, <1>6 DEF KidTo
<1> QED BY <1>2, <1>3, <1>4, <1>5, <1>6

(* Steps that leave the credentials and the calls alone. *)
LEMMA StageQuiet ==
  ASSUME CapInv, Tracking, StageInv, UNCHANGED vars, NEW ch \in Children,
         NEW s, NEW n, KidTo(ch, s, n), StageIs(ch, kid'[ch], frame[ch], creds[ch], nopriv)
  PROVE  CapInv' /\ Tracking' /\ StageInv'
<1>1. UNCHANGED <<creds, frame, nopriv>> BY DEF vars
<1>2. CapInv' /\ Tracking' BY InvNext, TrackNext
<1>3. /\ \A u \in Children \ {ch} : /\ frame'[u] = frame[u] /\ creds'[u] = creds[u]
                                    /\ kid'[u] = kid[u]
      /\ nopriv' \subseteq nopriv \cup {ch}
      /\ StageIs(ch, kid'[ch], frame'[ch], creds'[ch], nopriv')
  BY <1>1 DEF KidTo
<1>4. StageInv' BY <1>3, StageMoves
<1> QED BY <1>2, <1>4

(* A stage that was not asked for. *)
LEMMA DidSkip ==
  ASSUME NEW ask, NEW n \in 1 .. 5, ask[Stages[n]] = {}, NEW k, Did(ask, k, n - 1)
  PROVE  Did(ask, k, n)
<1>1. CASE n = 1 BY <1>1, StageNames DEF Did
<1>2. CASE n = 2 BY <1>2, StageNames DEF Did
<1>3. CASE n = 3 BY <1>3, StageNames DEF Did
<1>4. CASE n = 4 BY <1>4, StageNames DEF Did
<1>5. CASE n = 5 BY <1>5, StageNames DEF Did
<1> QED BY <1>1, <1>2, <1>3, <1>4, <1>5

(* The operation of a stage and what it may be asked for. *)
LEMMA StageArgs ==
  ASSUME NEW ask, Proper(ask, Iab), NEW n \in 1 .. 5, NEW arg \in ask[Stages[n]]
  PROVE  /\ Stages[n] \in Gives \cup {"iab_set_proc"} /\ Stages[n] \in DOMAIN Args
         /\ arg \in Args[Stages[n]] /\ ask[Stages[n]] = {arg}
<1>1. CASE n = 1 BY <1>1, StageNames DEF Proper, Opt, Gives, NeedsOf, Args
<1>2. CASE n = 2 BY <1>2, StageNames DEF Proper, Opt, Gives, NeedsOf, Args
<1>3. CASE n = 3 BY <1>3, StageNames DEF Proper, Opt, Gives, NeedsOf, Args
<1>4. CASE n = 4 BY <1>4, StageNames DEF Proper, Opt, Args
<1>5. CASE n = 5 BY <1>5, StageNames DEF Proper, Opt, Gives, NeedsOf, Args
<1> QED BY <1>1, <1>2, <1>3, <1>4, <1>5

(* Between two operations. *)
LEMMA StageNext ==
  ASSUME CapInv, Tracking, ChildType, KidInv, StageInv, NEW ch \in Children, NextStage(ch)
  PROVE  CapInv' /\ Tracking' /\ StageInv'
<1> DEFINE x == kid[ch]
           s == x.stage
           ask == x.cfg.ask
<1>1. /\ x.st = "setup" /\ frame[ch].pc = "done"
      /\ StageIs(ch, x, frame[ch], creds[ch], nopriv)
  BY DEF NextStage, StageInv, f
<1>2. ch \in Threads /\ Home[ch] = ch BY CapLaunchAssumption DEF Children
<1>3. s \in 1 .. 6 /\ frame[ch].n < s /\ frame[ch].clean BY <1>1 DEF StageIs
<1>4. CASE frame[ch].ret # 0
  <2>1. UNCHANGED vars /\ KidTo(ch, "defer", s) BY <1>4, KidStages DEF NextStage, f
  <2>2. StageIs(ch, kid'[ch], frame[ch], creds[ch], nopriv)
    BY <1>1, <1>3, <2>1 DEF StageIs, KidTo
  <2> QED BY <2>1, <2>2, StageQuiet
<1>5. CASE frame[ch].ret = 0 /\ s > Len(Stages)
  <2>1. UNCHANGED vars /\ KidTo(ch, "exec", s) BY <1>5, KidStages DEF NextStage, f
  <2>2. s = 6 BY <1>3, <1>5, StageNames
  <2>3. Did(ask, creds[ch], 5) BY <1>1, <1>5, <2>2 DEF StageIs
  <2>4. StageIs(ch, kid'[ch], frame[ch], creds[ch], nopriv)
    BY <1>1, <1>3, <2>1, <2>3 DEF StageIs, KidTo
  <2> QED BY <2>1, <2>4, StageQuiet
<1>6. CASE frame[ch].ret = 0 /\ ~ s > Len(Stages)
  <2>1. s \in 1 .. 5 BY <1>3, <1>6, StageNames
  <2>2. KidTo(ch, "setup", s + 1) BY <1>1, <1>6, KidStages DEF NextStage, f
  <2>3. Did(ask, creds[ch], s - 1) BY <1>1, <1>6 DEF StageIs
  <2>4. CASE ask[Stages[s]] = {}
    <3>1. UNCHANGED vars BY <1>6, <2>4 DEF NextStage, f
    <3>2. Did(ask, creds[ch], s) BY <2>1, <2>3, <2>4, DidSkip
    <3>3. StageIs(ch, kid'[ch], frame[ch], creds[ch], nopriv)
      <4>1. s + 1 \in 1 .. 6 /\ frame[ch].n < s + 1 /\ (s + 1) - 1 = s
        BY <1>2, <1>3, <2>1, Here DEF FrameOK, f
      <4> QED BY <1>1, <1>3, <2>2, <3>2, <4>1 DEF StageIs, KidTo
    <3> QED BY <2>2, <3>1, <3>3, StageQuiet
  <2>5. CASE ask[Stages[s]] # {}
    <3>1. PICK arg \in ask[Stages[s]] :
            Becomes(ch, [Fresh(ch, Stages[s], arg) EXCEPT !.pc = "get_proc"], c(ch))
      BY <1>6, <2>5 DEF NextStage, f
    <3> DEFINE h == Fresh(ch, Stages[s], arg)
               g == [h EXCEPT !.pc = "get_proc"]
               op == Stages[s]
    <3>2. Proper(ask, Iab) BY <1>1 DEF KidInv, KidIs
    <3>3. /\ op \in Gives \cup {"iab_set_proc"} /\ op \in DOMAIN Args
          /\ arg \in Args[op] /\ ask[op] = {arg}
      BY <2>1, <3>2, StageArgs
    <3>4. /\ Tracks(g, c(ch)) /\ g.pc = "get_proc" /\ g.op = op /\ g.arg = arg
          /\ g.start = c(ch) /\ g.clean /\ g.n = frame[ch].n + 1
      BY <1>2, FreshTracks DEF f
    <3>5. f(ch).n < MaxCalls
      BY <1>2, <1>3, <2>1, Here, CapLaunchAssumption, CapProcAssumption DEF FrameOK, f
    <3>6. FrameOK([h EXCEPT !.pc = "get_proc", !.ret = 0])
      <4> DEFINE p == "get_proc"  r == 0
      <4>1. /\ p \in Points /\ r \in {0, -1} /\ p \in {"done", "get_proc", "ambient"}
            /\ p # "ambient"
        BY DEF Points
      <4> HIDE DEF p, r, op
      <4>2. FrameOK([Fresh(ch, op, arg) EXCEPT !.pc = p, !.ret = r])
        <5>1. /\ p = "get_proc" => op \in Gives \cup {"iab_set_proc"}
              /\ p = "ambient" => op = "reset_ambient"
          BY <3>3, <4>1
        <5> QED BY <1>2, <3>3, <3>5, <4>1, <5>1, FreshFrame, ZenonT(60)
      <4> QED BY <4>2 DEF p, r, op
    <3>7. g = [h EXCEPT !.pc = "get_proc", !.ret = 0]
      <4>1. DOMAIN h = DOMAIN Blank /\ h.ret = 0 BY DEF Fresh, Blank
      <4> HIDE DEF h
      <4> QED BY <4>1 DEF Blank
    <3>8. Becomes(ch, g, c(ch)) BY <3>1
    <3>9. FrameOK(g) BY <3>6, <3>7
    <3> HIDE DEF g, op
    <3>10. CapInv' /\ Tracking'
      <4>1. Legal(c(ch), c(ch)) /\ ~ NowNopriv(g) BY <1>2, <3>4, Here DEF NowNopriv
      <4> QED BY <1>2, <3>4, <3>8, <3>9, <4>1, BecomesInv, BecomesTracks
    <3>11. /\ frame'[ch] = g /\ creds'[ch] = creds[ch]
           /\ \A u \in Children \ {ch} : frame'[u] = frame[u] /\ creds'[u] = creds[u]
           /\ nopriv' \subseteq nopriv \cup {ch}
      BY <1>2, <3>8, OwnProcess DEF c
    <3>12. StageIs(ch, kid'[ch], g, creds[ch], nopriv')
      <4>1. s + 1 \in 1 .. 6 /\ s + 1 > 1 /\ (s + 1) - 1 = s /\ (s + 1) - 2 = s - 1 BY <2>1
      <4>2. g.n < s + 1 BY <1>2, <1>3, <2>1, <3>4, Here DEF FrameOK, f
      <4>3. Kin(creds[ch], creds[ch]) BY DEF Kin
      <4>4. g.start = creds[ch] BY <1>2, <3>4 DEF c
      <4>5. g.op = Stages[s] /\ ask[g.op] = {g.arg} BY <3>3, <3>4 DEF op
      <4> QED BY <2>2, <2>3, <3>4, <4>1, <4>2, <4>3, <4>4, <4>5 DEF StageIs, KidTo
    <3>13. StageInv' BY <2>2, <3>11, <3>12, StageMoves DEF KidTo
    <3> QED BY <3>10, <3>13
  <2> QED BY <2>4, <2>5
<1> QED BY <1>4, <1>5, <1>6

(* The other steps of a child. *)
LEMMA StageChild ==
  ASSUME CapInv, Tracking, ChildType, KidInv, StageInv, NEW ch \in Children, ChildStep(ch)
  PROVE  CapInv' /\ Tracking' /\ StageInv'
<1> DEFINE x == kid[ch]
           Is(y) == StageIs(ch, y, frame[ch], creds[ch], nopriv)
<1>1. StageIs(ch, x, frame[ch], creds[ch], nopriv) BY DEF StageInv
<1>2. CASE Operation(ch) BY <1>2, StageOperation
<1>3. CASE NextStage(ch) BY <1>3, StageNext
<1>4. CASE Callback(ch)
  <2>1. UNCHANGED vars /\ x.st = "callback" BY <1>4 DEF Callback
  <2>2. frame[ch] = Blank /\ frame[ch].clean BY <1>1, <2>1 DEF StageIs
  <2>3. CASE x.cfg.fn # "fails" /\ x.cfg.prog
    <3>1. KidTo(ch, "setup", 1) BY <1>4, <2>3, KidStages DEF Callback
    <3>2. Blank.n = 0 /\ Blank.pc = "done" BY DEF Blank
    <3>3. Did(x.cfg.ask, creds[ch], 0) BY DEF Did
    <3>4. Is(kid'[ch]) BY <2>2, <3>1, <3>2, <3>3 DEF StageIs, KidTo
    <3> QED BY <2>1, <3>1, <3>4, StageQuiet
  <2>4. CASE x.cfg.fn = "fails" \/ ~ x.cfg.prog
    <3>1. KidTo(ch, "defer", x.stage) \/ KidTo(ch, "exit0", x.stage)
      BY <1>4, <2>4, KidStages DEF Callback
    <3>2. Is(kid'[ch]) BY <2>2, <3>1 DEF StageIs, KidTo
    <3> QED BY <2>1, <3>1, <3>2, StageQuiet
  <2> QED BY <2>3, <2>4
<1>5. CASE Exec(ch)
  <2>1. UNCHANGED vars /\ x.st = "exec" BY <1>5 DEF Exec
  <2>2. KidTo(ch, "running", x.stage) BY <1>5, KidStages DEF Exec
  <2>3. Is(kid'[ch]) BY <1>1, <2>1, <2>2 DEF StageIs, KidTo
  <2> QED BY <2>1, <2>2, <2>3, StageQuiet
<1>6. CASE ExecFails(ch) \/ Defer(ch) \/ Exit(ch) \/ ProgramExits(ch) \/ Kill(ch)
  <2>1. UNCHANGED vars BY <1>6 DEF ExecFails, Defer, Exit, ProgramExits, Kill
  <2>2. PICK s : /\ s \in {"defer", "exit1", "failed", "exited", "killed"}
                 /\ KidTo(ch, s, x.stage)
    <3>1. CASE ExecFails(ch) BY <3>1, KidStages DEF ExecFails
    <3>2. CASE Defer(ch) BY <3>2, KidStages DEF Defer
    <3>3. CASE Exit(ch) BY <3>3, KidStages DEF Exit
    <3>4. CASE ProgramExits(ch) BY <3>4, KidStages DEF ProgramExits
    <3>5. CASE Kill(ch) BY <3>5, KidStages DEF Kill
    <3> QED BY <1>6, <3>1, <3>2, <3>3, <3>4, <3>5
  <2>3. Is(kid'[ch]) BY <1>1, <2>2 DEF StageIs, KidTo
  <2> QED BY <2>1, <2>2, <2>3, StageQuiet
<1> QED BY <1>2, <1>3, <1>4, <1>5, <1>6 DEF ChildStep, Child

(* fork(): the child starts with the credentials of the parent. *)
LEMMA StageFork ==
  ASSUME ParentType, ChildType, LaunchInv, CapInv, Tracking, StageInv,
         NEW t \in Parents, Fork(t)
  PROVE  CapInv' /\ Tracking' /\ StageInv'
<1>1. PICK ch : ch = th[t].child OBVIOUS
<1>2. ch # Nobody /\ kid[ch].st = "reserved" BY <1>1 DEF Fork, LaunchInv
<1>3. ch \in Children BY <1>1, <1>2, ThreadFields DEF ParentType, Kids
<1>4. ch \in Procs /\ "parent" \in Procs /\ ch # "parent" /\ ch \in Threads
      /\ \A u \in Threads : Home[u] = u
  BY <1>3, CapLaunchAssumption DEF Children
<1>5. frame[ch] = Blank /\ ch \notin nopriv BY <1>2, <1>3 DEF StageInv, StageIs
<1> DEFINE k == creds["parent"]
<1>6. frame' = frame /\ nopriv' = nopriv /\ creds' = [creds EXCEPT ![ch] = k]
  BY <1>1 DEF Fork
<1>7. creds \in [Procs -> Cred] BY DEF CapInv, TypeOK
<1>8. creds' \in [Procs -> Cred] /\ creds'[ch] = k
      /\ \A p \in Procs \ {ch} : creds'[p] = creds[p]
  BY <1>4, <1>6, <1>7
<1>9. CapInv'
  <2>1. \A p \in Procs : /\ creds'[p].E \subseteq creds'[p].P
                         /\ creds'[p].A \subseteq creds'[p].P \cap creds'[p].I
    <3>1. \A p \in Procs : /\ creds[p].E \subseteq creds[p].P
                           /\ creds[p].A \subseteq creds[p].P \cap creds[p].I
      BY DEF CapInv, TypeOK
    <3> QED BY <1>4, <1>8, <3>1
  <2>2. TypeOK'
    <3>1. /\ \A u \in Threads : /\ f(u).pc \in Points /\ f(u).op \in Ops
                                /\ f(u).ret \in {0, -1} /\ f(u).n \in 0 .. MaxCalls
                                /\ f(u).working \in CapT
                                /\ f(u).clean \in BOOLEAN
          /\ nopriv \subseteq Procs
      BY DEF CapInv, TypeOK
    <3> QED BY <1>6, <1>8, <2>1, <3>1 DEF TypeOK, f
  <2>3. NoprivInv' BY <1>5, <1>6, <1>8 DEF CapInv, TypeOK, NoprivInv
  <2> QED BY <1>6, <2>2, <2>3 DEF CapInv, f
<1>10. Tracking'
  <2>1. ASSUME NEW u \in Threads PROVE Tracks(frame'[u], creds'[Home[u]])
    <3>1. CASE u = ch BY <1>5, <1>6, <3>1 DEF Tracks, Blank
    <3>2. CASE u # ch
      <4>1. creds'[Home[u]] = creds[Home[u]] BY <1>4, <1>8, <3>2, CapProcAssumption
      <4> QED BY <1>6, <4>1 DEF Tracking, f, c
    <3> QED BY <3>1, <3>2
  <2> QED BY <2>1 DEF Tracking, f, c
<1>11. StageInv'
  <2>1. /\ DOMAIN kid = Children /\ DOMAIN kid[ch] = {"st", "cfg", "stage", "execd", "errno"}
    BY <1>3 DEF ChildType, KidOK
  <2>2. kid'[ch].st = "callback" /\ \A u \in Children \ {ch} : kid'[u] = kid[u]
    BY <1>1, <1>3, <2>1 DEF Fork
  <2>3. StageIs(ch, kid'[ch], frame'[ch], creds'[ch], nopriv')
    BY <1>5, <1>6, <2>2 DEF StageIs, Blank
  <2>4. \A u \in Children \ {ch} : frame'[u] = frame[u] /\ creds'[u] = creds[u]
    BY <1>6, <1>8, CapLaunchAssumption DEF Children
  <2> QED BY <1>3, <1>6, <2>2, <2>3, <2>4, StageMoves
<1> QED BY <1>9, <1>10, <1>11

(* The other steps of the parent. *)
LEMMA StageParent ==
  ASSUME ParentType, ChildType, LaunchInv, CapInv, Tracking, StageInv,
         NEW t \in Parents, Parent(t)
  PROVE  CapInv' /\ Tracking' /\ StageInv'
<1>1. CASE Fork(t) BY <1>1, StageFork
<1>2. CASE MakePipe(t)
  <2>1. PICK ch \in plan.children : /\ kid[ch].st = "none"
                                    /\ kid' = [kid EXCEPT ![ch].st = "reserved"]
    BY <1>2 DEF MakePipe
  <2>2. ch \in Children BY PlanFacts
  <2>3. UNCHANGED vars BY <1>2 DEF MakePipe
  <2>4. KidTo(ch, "reserved", kid[ch].stage) BY <2>1, <2>2, KidStages
  <2>5. StageIs(ch, kid[ch], frame[ch], creds[ch], nopriv) BY <2>2 DEF StageInv
  <2>6. StageIs(ch, kid'[ch], frame[ch], creds[ch], nopriv)
    BY <2>1, <2>4, <2>5 DEF StageIs, KidTo
  <2> QED BY <2>2, <2>3, <2>4, <2>6, StageQuiet
<1>3. CASE ~ Fork(t) /\ ~ MakePipe(t)
  <2>1. UNCHANGED vars /\ kid' = kid
    <3>1. CASE LockIab(t) BY <3>1 DEF LockIab
    <3>2. CASE Unlock(t) BY <3>2 DEF Unlock
    <3>3. CASE \/ ReadErrno(t) \/ ReadEof(t) \/ WaitChild(t)
               \/ ReadInterrupted(t) \/ WaitInterrupted(t)
      BY <3>3 DEF ReadErrno, ReadEof, WaitChild, ReadInterrupted, WaitInterrupted
    <3>4. CASE PipeFails(t) \/ ForkFails(t) BY <3>4 DEF PipeFails, ForkFails
    <3>5. ASSUME NEW l \in plan.launchers,
                 SetCallback(t, l) \/ SetAttr(t, l) \/ SetChroot(t, l)
          PROVE  UNCHANGED vars /\ kid' = kid
      BY <3>5 DEF SetCallback, SetAttr, SetChroot, Setting
    <3>6. ASSUME NEW l \in plan.launchers, SwapIab(t, l) PROVE UNCHANGED vars /\ kid' = kid
      BY <3>6 DEF SwapIab
    <3>7. ASSUME NEW l \in plan.launchers, Launch(t, l) PROVE UNCHANGED vars /\ kid' = kid
      BY <3>7 DEF Launch
    <3>8. ASSUME NEW o \in plan.iabs, ChangeIab(t, o) PROVE UNCHANGED vars /\ kid' = kid
      BY <3>8 DEF ChangeIab
    <3> QED BY <1>3, <3>1, <3>2, <3>3, <3>4, <3>5, <3>6, <3>7, <3>8
            DEF Parent, Finish, Setter
  <2>2. CapInv' /\ Tracking' BY <2>1, InvNext, TrackNext
  <2>3. StageInv' BY <2>1 DEF StageInv, vars
  <2> QED BY <2>2, <2>3
<1> QED BY <1>1, <1>2, <1>3

-----------------------------------------------------------------------------
(* The whole invariant                                                     *)

LaunchesInv == ParentInv /\ KidsInv /\ CapInv /\ Tracking /\ StageInv

LEMMA LaunchesInit == LInit => LaunchesInv
<1> SUFFICES ASSUME LInit PROVE LaunchesInv OBVIOUS
<1>1. Init /\ CapInv /\ Tracking BY InvInit, TrackInit DEF LInit
<1>2. \A ch \in Children : kid[ch].st = "none" BY DEF LInit
<1>3. \A ch \in Children : frame[ch] = Blank BY <1>1 DEF Init, Children
<1>4. nopriv = {} /\ Blank.clean BY <1>1 DEF Init, Blank
<1>5. StageInv BY <1>2, <1>3, <1>4 DEF StageInv, StageIs
<1> QED BY <1>1, <1>5, ParentInit, KidsInit DEF LaunchesInv

LEMMA LaunchesNext == LaunchesInv /\ [LNext]_allvars => LaunchesInv'
<1> SUFFICES ASSUME LaunchesInv, [LNext]_allvars PROVE LaunchesInv' OBVIOUS
<1>1. ParentInv' /\ KidsInv' BY ParentNext, KidsNext DEF LaunchesInv
<1>2. CapInv' /\ Tracking' /\ StageInv'
  <2>1. ASSUME NEW t \in Parents, Parent(t) PROVE CapInv' /\ Tracking' /\ StageInv'
    BY <2>1, StageParent DEF LaunchesInv, ParentInv, KidsInv
  <2>2. ASSUME NEW ch \in Children, ChildStep(ch) PROVE CapInv' /\ Tracking' /\ StageInv'
    BY <2>2, StageChild DEF LaunchesInv, KidsInv
  <2>3. CASE UNCHANGED allvars
    <3>1. UNCHANGED vars /\ kid' = kid BY <2>3 DEF allvars, lvars
    <3>2. CapInv' /\ Tracking' BY <3>1, InvNext, TrackNext DEF LaunchesInv
    <3>3. StageInv' BY <3>1 DEF LaunchesInv, StageInv, vars
    <3> QED BY <3>2, <3>3
  <2> QED BY <2>1, <2>2, <2>3, StepKinds DEF LaunchesInv
<1> QED BY <1>1, <1>2 DEF LaunchesInv

LEMMA LaunchesHold == LSpec => []LaunchesInv
  BY LaunchesInit, LaunchesNext, PTL DEF LSpec

(* The types hold, and the mutexes of cap_launch_t and cap_iab_t are held  *)
(* by exactly the thread inside a call on the launcher, and exactly for    *)
(* the launcher that has the tuple, for any number of threads and objects. *)
THEOREM LaunchTypeCorrect == LSpec => []LTypeOK
<1>1. LaunchesInv => LTypeOK
  <2> SUFFICES ASSUME LaunchesInv PROVE LTypeOK OBVIOUS
  <2>1. TypeOK BY DEF LaunchesInv, CapInv
  <2>2. \A ch \in Children : /\ kid[ch].st \in Gone \cup {"none", "reserved", "callback",
                                        "setup", "exec", "defer", "exit1", "running"}
                             /\ pipe[ch].w \subseteq Procs
    BY DEF LaunchesInv, KidsInv, ChildType, KidOK, PipeOK, Places, Before
  <2>3. ASSUME NEW l \in Launchers
        PROVE  LET inside == {t \in Parents : /\ th[t].l = l
                                              /\ th[t].pc \notin {"idle", "read", "wait"}}
               IN Cardinality(inside) = IF attr[l].mu THEN 1 ELSE 0
    <3> DEFINE inside == {t \in Parents : th[t].l = l /\ th[t].pc \notin {"idle", "read", "wait"}}
    <3>1. \A t \in Parents : t \in inside <=> Holds(t, l)
      <4>1. \A t \in Parents : th[t].pc \in Points4
        BY ThreadFields DEF LaunchesInv, ParentInv, ParentType
      <4> QED BY <4>1 DEF Holds, Holding, Points4
    <3>2. inside \subseteq Parents OBVIOUS
    <3> HIDE DEF inside
    <3>3. CASE attr[l].mu
      <4>1. PICK t \in Parents : Holds(t, l) BY <3>3 DEF LaunchesInv, ParentInv, MutexInv
      <4>2. \A u \in Parents : Holds(u, l) => u = t
        BY <4>1 DEF LaunchesInv, ParentInv, MutexInv
      <4>3. inside = {t} BY <3>1, <3>2, <4>1, <4>2
      <4> QED BY <3>3, <4>3, FS_Singleton DEF inside
    <3>4. CASE ~ attr[l].mu
      <4>1. \A u \in Parents : ~ Holds(u, l)
        BY <3>4 DEF LaunchesInv, ParentInv, MutexInv, Holds
      <4>2. inside = {} BY <3>1, <3>2, <4>1
      <4> QED BY <3>4, <4>2, FS_EmptySet DEF inside
    <3> QED BY <3>3, <3>4
  <2>4. ASSUME NEW o \in DOMAIN iab
        PROVE  LET owners == {l \in Launchers : Settled(l) /\ o \in attr[l].ask["iab_set_proc"]}
               IN Cardinality(owners) = IF iab[o].mu THEN 1 ELSE 0
    <3> DEFINE owners == {l \in Launchers : Settled(l) /\ o \in attr[l].ask["iab_set_proc"]}
    <3>1. \A l \in Launchers : l \in owners <=> Owns(l, o) BY DEF Owns
    <3>2. owners \subseteq Launchers OBVIOUS
    <3>3. o \in plan.iabs BY DEF LaunchesInv, ParentInv, ParentType
    <3> HIDE DEF owners
    <3>4. CASE iab[o].mu
      <4>1. PICK l \in Launchers : Owns(l, o)
        BY <3>3, <3>4 DEF LaunchesInv, ParentInv, OwnerInv
      <4>2. \A m \in Launchers : Owns(m, o) => m = l
        BY <3>3, <4>1 DEF LaunchesInv, ParentInv, OwnerInv
      <4>3. owners = {l} BY <3>1, <3>2, <4>1, <4>2
      <4> QED BY <3>4, <4>3, FS_Singleton DEF owners
    <3>5. CASE ~ iab[o].mu
      <4>1. \A m \in Launchers : ~ Owns(m, o)
        BY <3>3, <3>5 DEF LaunchesInv, ParentInv, OwnerInv
      <4>2. owners = {} BY <3>1, <3>2, <4>1
      <4> QED BY <3>5, <4>2, FS_EmptySet DEF owners
    <3> QED BY <3>4, <3>5
  <2> QED BY <2>1, <2>2, <2>3, <2>4 DEF LTypeOK
<1> QED BY <1>1, LaunchesHold, PTL

-----------------------------------------------------------------------------
(* The root directory: what was asked for, and what a launcher holds       *)

(* cap_launcher_set_chroot stored what it was given, or had no memory to. *)
Stored(w, held) == held = w \/ (AllocMayFail /\ held = {})

RootsInv ==
    /\ DOMAIN want = Launchers
    /\ \A l \in Launchers : Stored(want[l], attr[l].ask["chroot"])
    /\ \A ch \in Children : kid[ch].st \notin {"none", "reserved"} =>
          Stored(kid[ch].cfg.want, kid[ch].cfg.ask["chroot"])

(* Only cap_launcher_set_chroot touches it. *)
LEMMA ChrootKept ==
  ASSUME ParentInv, NEW t \in Parents, Parent(t), \A l \in Launchers : ~ SetChroot(t, l)
  PROVE  want' = want /\ \A m \in Launchers : attr'[m].ask["chroot"] = attr[m].ask["chroot"]
<1>0. plan.launchers \subseteq Launchers BY PlanFacts DEF ParentInv
<1>1. want' = want
  BY <1>0 DEF Parent, Finish, Setter, LockIab, MakePipe, Fork, Unlock, ReadErrno, ReadEof,
         WaitChild, SetCallback, SetAttr, SwapIab, ChangeIab, Launch, PipeFails, ForkFails,
         ReadInterrupted, WaitInterrupted, hist
<1>2. /\ DOMAIN attr = Launchers
      /\ \A m \in Launchers : DOMAIN attr[m] = {"mu", "fn", "prog", "ask"}
                              /\ DOMAIN attr[m].ask = AskOps
  BY DEF ParentInv, ParentType, AttrOK, Proper
<1> DEFINE SameRoots == \A m \in Launchers : attr'[m].ask["chroot"] = attr[m].ask["chroot"]
<1>3. ASSUME NEW l, NEW b, attr' = [attr EXCEPT ![l].mu = b] PROVE SameRoots BY <1>2, <1>3
<1>4. ASSUME NEW l, SetCallback(t, l) PROVE SameRoots BY <1>2, <1>4 DEF SetCallback
<1>5. ASSUME NEW l, SetAttr(t, l) PROVE SameRoots
  <2>1. PICK s : s[1] # "chroot" /\ attr' = [attr EXCEPT ![l].ask[s[1]] = {s[2]}]
    BY <1>5 DEF SetAttr
  <2>2. PICK op, v : op = s[1] /\ v = {s[2]} OBVIOUS
  <2>3. op # "chroot" /\ attr' = [attr EXCEPT ![l].ask[op] = v] BY <2>1, <2>2
  <2> QED BY <1>2, <2>3
<1>6. ASSUME NEW l, SwapIab(t, l) PROVE SameRoots
  <2>1. PICK new : attr' = [attr EXCEPT ![l].mu = TRUE, ![l].ask["iab_set_proc"] = new]
    BY <1>6 DEF SwapIab
  <2> QED BY <1>2, <2>1
<1>7. CASE attr' = attr BY <1>1, <1>7
<1>8. \/ attr' = attr \/ \E l, b : attr' = [attr EXCEPT ![l].mu = b]
      \/ \E l : SetCallback(t, l) \/ SetAttr(t, l) \/ SwapIab(t, l)
  BY <1>0 DEF Parent, Finish, Setter, LockIab, MakePipe, Fork, Unlock, ReadErrno, ReadEof,
         WaitChild, ChangeIab, Launch, PipeFails, ForkFails, ReadInterrupted, WaitInterrupted
<1> QED BY <1>1, <1>3, <1>4, <1>5, <1>6, <1>7, <1>8

LEMMA RootsNext ==
  ASSUME ParentInv, KidsInv, RootsInv, [LNext]_allvars
  PROVE  RootsInv'
<1>1. ASSUME NEW t \in Parents, Parent(t)
      PROVE  /\ DOMAIN want' = Launchers
             /\ \A l \in Launchers : Stored(want'[l], attr'[l].ask["chroot"])
  <2>1. CASE \A l \in Launchers : ~ SetChroot(t, l)
    BY <1>1, <2>1, ChrootKept DEF RootsInv
  <2>2. ASSUME NEW l \in Launchers, SetChroot(t, l)
        PROVE  DOMAIN want' = Launchers
               /\ \A m \in Launchers : Stored(want'[m], attr'[m].ask["chroot"])
    <3>0. PICK s \in plan.settings :
            /\ want' = [want EXCEPT ![l] = {s[2]}]
            /\ \E copy \in {{s[2]}} \cup (IF AllocMayFail THEN {{}} ELSE {}) :
                  attr' = [attr EXCEPT ![l].ask["chroot"] = copy]
      BY <2>2 DEF SetChroot
    <3>1. PICK w, copy : /\ want' = [want EXCEPT ![l] = w]
                         /\ attr' = [attr EXCEPT ![l].ask["chroot"] = copy]
                         /\ copy = w \/ (AllocMayFail /\ copy = {})
      BY <3>0
    <3>2. DOMAIN attr = Launchers /\ DOMAIN attr[l] = {"mu", "fn", "prog", "ask"}
          /\ DOMAIN attr[l].ask = AskOps
      BY DEF ParentInv, ParentType, AttrOK, Proper
    <3>3. attr'[l].ask["chroot"] = copy /\ \A m \in Launchers \ {l} : attr'[m] = attr[m]
      BY <3>1, <3>2 DEF AskOps
    <3>4. DOMAIN want' = Launchers /\ want'[l] = w /\ \A m \in Launchers \ {l} : want'[m] = want[m]
      BY <3>1 DEF RootsInv
    <3> QED BY <3>1, <3>3, <3>4 DEF RootsInv, Stored
  <2> QED BY <2>1, <2>2
<1>2. ASSUME NEW t \in Parents, Parent(t), NEW p \in Children,
             kid'[p].st \notin {"none", "reserved"}
      PROVE  Stored(kid'[p].cfg.want, kid'[p].cfg.ask["chroot"])
  <2>1. CASE kid'[p] = kid[p] BY <1>2, <2>1 DEF RootsInv
  <2>2. CASE th[t].l \in Launchers /\ kid'[p].cfg = CopyOf(th[t].l)
    <3>1. /\ CopyOf(th[t].l).want = want[th[t].l]
          /\ CopyOf(th[t].l).ask["chroot"] = attr[th[t].l].ask["chroot"]
      BY <2>2, CopyProper DEF ParentInv
    <3> QED BY <2>2, <3>1 DEF RootsInv
  <2> QED BY <1>2, <2>1, <2>2, ParentLeaves DEF ParentInv
<1>3. ASSUME NEW t \in Parents, Parent(t) PROVE RootsInv'
  BY <1>1, <1>2, <1>3 DEF RootsInv, Stored
<1>4. ASSUME NEW ch \in Children, ChildStep(ch) PROVE RootsInv'
  <2>1. attr' = attr /\ want' = want
    BY <1>4 DEF ChildStep, Child, Callback, NextStage, Operation, Exec, ExecFails, Defer, Exit,
                Kill, ProgramExits, lvars, hist
  <2>2. /\ kid[ch].st \notin {"none", "reserved"} /\ kid'[ch].cfg = kid[ch].cfg
        /\ \A p \in Children \ {ch} : kid'[p] = kid[p]
    BY <1>4, ChildEffect DEF KidsInv, Before
  <2>3. \A p \in Children : kid'[p].st \notin {"none", "reserved"} =>
          kid[p].st \notin {"none", "reserved"} /\ kid'[p].cfg = kid[p].cfg
    BY <2>2
  <2> QED BY <2>1, <2>3 DEF RootsInv, Stored
<1>5. CASE UNCHANGED allvars BY <1>5 DEF allvars, lvars, hist, RootsInv, Stored
<1> QED BY <1>3, <1>4, <1>5, StepKinds

LEMMA RootsInit == LInit => RootsInv
<1> SUFFICES ASSUME LInit PROVE RootsInv OBVIOUS
<1>1. DOMAIN want = Launchers /\ \A l \in Launchers : want[l] = {} BY DEF LInit
<1>2. \A ch \in Children : kid[ch].st = "none" BY DEF LInit
<1>3. ASSUME NEW l \in Launchers PROVE attr[l].ask["chroot"] = {}
  <2> DEFINE ask == [op \in {Stages[s] : s \in DOMAIN Stages} |-> {}]
  <2>1. PICK fns : attr = [m \in Launchers |->
                    [mu |-> FALSE, fn |-> IF m \in DOMAIN fns THEN fns[m] ELSE "none",
                     prog |-> m \in HasProgram, ask |-> ask]]
    BY DEF LInit
  <2>2. ask["chroot"] = {}
    <3>1. 5 \in DOMAIN Stages /\ Stages[5] = "chroot" BY DEF Stages
    <3> QED BY <3>1
  <2> HIDE DEF ask
  <2>3. attr[l].ask = ask
    <3> DEFINE fn == IF l \in DOMAIN fns THEN fns[l] ELSE "none"
               prog == l \in HasProgram
    <3>1. attr[l] = [mu |-> FALSE, fn |-> fn, prog |-> prog, ask |-> ask] BY <2>1
    <3> HIDE DEF fn, prog
    <3> QED BY <3>1
  <2> QED BY <2>2, <2>3
<1> QED BY <1>1, <1>2, <1>3 DEF RootsInv, Stored

(* "if any of the launcher enhancements [...] should fail to take effect   *)
(* [...] the launch will fail": a program that cap_launch() executes has   *)
(* the uid, groups, mode and IAB tuple its launcher was told, all of them  *)
(* at once, and runs in the root directory that was asked for unless       *)
(* cap_launcher_set_chroot ran out of memory storing it; whatever the      *)
(* parent's credentials and for any set of capabilities.                   *)
THEOREM ProgramsAsConfigured == LSpec => []ProgramAsConfigured
<1>1. LaunchesInv /\ RootsInv => ProgramAsConfigured
  <2> SUFFICES ASSUME LaunchesInv, RootsInv, NEW ch \in Children, kid[ch].st = "running"
               PROVE  /\ AsAsked(ch)
                      /\ \A r \in kid[ch].cfg.want :
                            \/ creds[ch].root = r
                            \/ AllocMayFail /\ kid[ch].cfg.ask["chroot"] = {}
    BY DEF ProgramAsConfigured
  <2>1. Did(kid[ch].cfg.ask, creds[ch], 5) BY DEF LaunchesInv, StageInv, StageIs
  <2>2. Stored(kid[ch].cfg.want, kid[ch].cfg.ask["chroot"]) BY DEF RootsInv
  <2> QED BY <2>1, <2>2 DEF Did, AsAsked, Stored
<1>2. LaunchesInv /\ RootsInv /\ [LNext]_allvars => RootsInv'
  BY RootsNext DEF LaunchesInv
<1> QED BY <1>1, <1>2, RootsInit, LaunchesHold, PTL DEF LSpec
=============================================================================
