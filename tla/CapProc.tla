------------------------------ MODULE CapProc ------------------------------
(***************************************************************************)
(* The privileged operations of libcap/cap_proc.c: cap_setuid,             *)
(* cap_setgroups, cap_set_mode, cap_iab_set_proc, the chroot of a launch   *)
(* and the single system calls cap_set_proc, cap_drop_bound,               *)
(* cap_set_ambient, cap_reset_ambient and cap_set_secbits.                 *)
(*                                                                         *)
(* Each of the first five reads the process capabilities, raises what it   *)
(* needs in the Effective flag, makes its system calls and lowers the      *)
(* Effective flag again.  None holds a lock meanwhile.  One system call is *)
(* one step; with libpsx linked, a step changes the credentials of every   *)
(* thread of the process at once (module AllThreads), so that credentials  *)
(* belong to a process and its threads interleave their calls over them.   *)
(***************************************************************************)
EXTENDS Creds, Sequences, SequencesExt

CONSTANTS
    Threads,        \* who makes calls
    Procs, Home,    \* the processes, and the process of each thread
    InitCreds,      \* credentials a process may start with
    Calls,          \* the calls, <<operation, argument>>, a thread may make
    MaxCalls,       \* bound: how many calls a thread makes
    AllocMayFail    \* may cap_init or cap_dup fail for want of memory?

ASSUME CapProcAssumption == /\ Home \in [Threads -> Procs]
                            /\ InitCreds \subseteq Cred
                            /\ \A k \in InitCreds :
                                  k.E \subseteq k.P /\ k.A \subseteq k.P \cap k.I
                            /\ MaxCalls \in Nat
                            /\ AllocMayFail \in BOOLEAN

VARIABLES
    creds,      \* the credentials of each process
    frame,      \* the call each thread is making, or made last
    nopriv      \* history: the processes in which cap_set_mode(NOPRIV) has returned 0

vars == <<creds, frame, nopriv>>

Modes == {"UNCERTAIN", "NOPRIV", "PURE1E_INIT", "PURE1E", "HYBRID"}

(* A cap_iab_t: I, A, and the complement of B. *)
Iab == [i : SUBSET Caps, a : SUBSET Caps, nb : SUBSET Caps]

NoCaps == [P |-> {}, E |-> {}, I |-> {}]

(* What the calls take. *)
Args == [set_proc |-> CapT, drop_bound |-> Caps, raise_ambient |-> Caps,
         lower_ambient |-> Caps, set_secbits |-> SUBSET SecBits,
         setuid |-> Uids, setgroups |-> Gids, chroot |-> Roots,
         set_mode |-> Modes, iab_set_proc |-> Iab, reset_ambient |-> {0}]

ASSUME CallsAssumption ==
    \A call \in Calls : call[1] \in DOMAIN Args /\ call[2] \in Args[call[1]]

(* start and clean are history: the credentials when the call began, and   *)
(* whether no other thread has changed them since (start is then dropped). *)
Blank == [pc |-> "done", op |-> "none", arg |-> 0, working |-> NoCaps,
          todo |-> <<>>, ret |-> 0, n |-> 0, start |-> NoCaps,
          clean |-> TRUE]

Init == /\ creds \in [Procs -> InitCreds]
        /\ frame = [t \in Threads |-> Blank]
        /\ nopriv = {}

-----------------------------------------------------------------------------
(* Steps                                                                   *)

c(t) == creds[Home[t]]
f(t) == frame[t]
At(t, op, pc) == f(t).op = op /\ f(t).pc = pc

(* t's frame becomes g and its process has credentials k.  If that is a    *)
(* change, the calls of the process's other threads are no longer clean.   *)
Becomes(t, g, k) ==
    /\ creds' = [creds EXCEPT ![Home[t]] = k]
    /\ frame' = [u \in Threads |->
                    IF u = t THEN g
                    ELSE IF Home[u] = Home[t] /\ k # c(t)
                         THEN [f(u) EXCEPT !.clean = FALSE, !.start = NoCaps]
                         ELSE f(u)]
    /\ nopriv' = IF g.pc = "done" /\ g.op = "set_mode" /\ g.arg = "NOPRIV" /\ g.ret = 0
                 THEN nopriv \cup {Home[t]} ELSE nopriv

Goes(t, pc) == Becomes(t, [f(t) EXCEPT !.pc = pc], c(t))
(* Mutants, here and below, are plausible errors: each breaks a property.  *)
(* This one passes on what a successful prctl() returned.                  *)
RetUnmapped(ok) == IF ok THEN 1 ELSE -1
Ret(ok) == IF ok THEN 0 ELSE -1
Or(r, s) == IF r = 0 /\ s = 0 THEN 0 ELSE -1

(* The capabilities the operations raise, and the cap_t of cap_get_proc. *)
NeedsOf == [setuid |-> CAP_SETUID, setgroups |-> CAP_SETGID,
            chroot |-> CAP_SYS_CHROOT, set_mode |-> CAP_SETPCAP]
cap_get_proc(k) == [P |-> k.P, E |-> k.E, I |-> k.I]

(* Mutant: keep-caps is not locked. *)
SecuredBitsWithoutKeepCaps ==
    {"NOROOT", "NOROOT_LOCKED", "NO_SETUID_FIXUP", "NO_SETUID_FIXUP_LOCKED"}
CAP_SECURED_BITS_BASIC ==
    {"NOROOT", "NOROOT_LOCKED", "NO_SETUID_FIXUP", "NO_SETUID_FIXUP_LOCKED",
     "KEEP_CAPS_LOCKED"}
CAP_SECURED_BITS_AMBIENT ==
    CAP_SECURED_BITS_BASIC \cup {"NO_CAP_AMBIENT_RAISE", "NO_CAP_AMBIENT_RAISE_LOCKED"}

-----------------------------------------------------------------------------
(* The calls that are a single system call.                                *)

Single == {"set_proc", "drop_bound", "raise_ambient", "lower_ambient", "set_secbits"}

SingleOk(op, arg, k) ==
    CASE op = "set_proc"      -> CapsetOk(k, arg)
      [] op = "drop_bound"    -> DropOk(k)
      [] op = "raise_ambient" -> RaiseOk(k, arg)
      [] op = "lower_ambient" -> k.ambient
      [] op = "set_secbits"   -> SecbitsOk(k, arg)

SingleDo(op, arg, k) ==
    CASE op = "set_proc"      -> Capset(k, arg)
      [] op = "drop_bound"    -> Drop(k, arg)
      [] op = "raise_ambient" -> RaiseAmbient(k, arg)
      [] op = "lower_ambient" -> LowerAmbient(k, arg)
      [] op = "set_secbits"   -> SetSecbits(k, arg)

Fresh(t, op, arg) == [Blank EXCEPT !.op = op, !.arg = arg, !.n = f(t).n + 1,
                                   !.start = c(t)]

CallSingle(t) ==
    /\ f(t).pc = "done" /\ f(t).n < MaxCalls
    /\ \E call \in Calls :
          /\ call[1] \in Single
          /\ Becomes(t, [Fresh(t, call[1], call[2]) EXCEPT
                            !.ret = Ret(SingleOk(call[1], call[2], c(t)))],
                     SingleDo(call[1], call[2], c(t)))

-----------------------------------------------------------------------------
(* _cap_setuid, _cap_setgroups, _cap_chroot and _cap_set_mode begin alike. *)

Raised(t) == [cap_get_proc(c(t)) EXCEPT !.E = @ \cup {NeedsOf[f(t).op]}]

CallSteps(t) ==
    /\ f(t).pc = "done" /\ f(t).n < MaxCalls
    /\ \E call \in Calls :
          /\ call[1] \notin Single
          /\ Becomes(t, [Fresh(t, call[1], call[2]) EXCEPT
                            !.pc = IF call[1] = "reset_ambient" THEN "ambient"
                                   ELSE "get_proc"], c(t))

GetProcFails(t) ==
    /\ AllocMayFail
    /\ f(t).pc = "get_proc"
    /\ Becomes(t, [f(t) EXCEPT !.pc = "done", !.ret = -1], c(t))

GetProc(t) ==
    /\ f(t).pc = "get_proc" /\ f(t).op # "iab_set_proc"
    /\ Becomes(t, [f(t) EXCEPT !.working = Raised(t),
                               !.pc = IF f(t).op = "setuid" THEN "keep" ELSE "raise"],
               c(t))

(* Mutants: the ambient set is not reset; setgid is left out. *)
AfterRaiseNoReset(op, arg, k) ==
    CASE op = "setuid"    -> "setuid"
      [] op = "setgroups" -> "setgid"
      [] op = "chroot"    -> "chroot"
      [] op = "set_mode"  -> IF arg = "UNCERTAIN" THEN "lower" ELSE "secbits"
AfterRaiseNoSetgid(op, arg, k) ==
    IF op = "setgroups" THEN "setgroups" ELSE AfterRaiseNoReset(op, arg, k)

(* What follows the capset that raises: the next step of each operation,   *)
(* for CAP_MODE_* the one the switch falls to.                             *)
AfterRaise(op, arg, k) ==
    CASE op = "setuid"    -> "setuid"
      [] op = "setgroups" -> "setgid"
      [] op = "chroot"    -> "chroot"
      [] op = "set_mode"  ->
            CASE arg \in {"NOPRIV", "PURE1E_INIT", "PURE1E"} ->
                    IF k.ambient THEN "ambient" ELSE "secbits"
              [] arg = "HYBRID" -> "secbits"
              [] OTHER          -> "lower"

AfterFailedRaise(op) == IF op = "setuid" THEN "unkeep" ELSE "lower"

(* cap_clear_flag(working, CAP_INHERITABLE) for the first two modes. *)
Disinherited(t) ==
    IF f(t).op = "set_mode" /\ f(t).arg \in {"NOPRIV", "PURE1E_INIT"}
    THEN [f(t).working EXCEPT !.I = {}] ELSE f(t).working

Raise(t) ==
    /\ f(t).pc = "raise"
    /\ IF CapsetOk(c(t), f(t).working)
       THEN Becomes(t, [f(t) EXCEPT
                          !.pc = AfterRaise(f(t).op, f(t).arg, c(t)),
                          !.ret = Ret(f(t).op = "set_mode" => f(t).arg # "UNCERTAIN"),
                          !.working = Disinherited(t)],
                    Capset(c(t), f(t).working))
       ELSE Becomes(t, [f(t) EXCEPT !.pc = AfterFailedRaise(f(t).op), !.ret = -1], c(t))

(* Mutant: the working set is written back as it was raised. *)
LowerNothing(t) ==
    /\ f(t).pc = "lower"
    /\ Becomes(t, [f(t) EXCEPT !.pc = "done"], Capset(c(t), f(t).working))

(* Every one of them ends with the Effective flag cleared.  Only           *)
(* _cap_set_mode reports that this failed.                                 *)
Lower(t) ==
    /\ f(t).pc = "lower"
    /\ LET w == [f(t).working EXCEPT !.E = {}]
       IN Becomes(t, [f(t) EXCEPT
                        !.pc = "done",
                        !.ret = IF f(t).op = "set_mode"
                                THEN Or(@, Ret(CapsetOk(c(t), w))) ELSE @],
                  Capset(c(t), w))

-----------------------------------------------------------------------------
(* _cap_setuid: the permitted capabilities are kept across setuid().       *)

(* Mutant: PR_SET_KEEPCAPS is left out. *)
KeepNoCaps(t) == At(t, "setuid", "keep") /\ Goes(t, "raise")

KeepCaps(t) ==
    /\ At(t, "setuid", "keep")
    /\ Becomes(t, [f(t) EXCEPT !.pc = "raise"], SetKeepCaps(c(t), TRUE))

DoSetuid(t) ==
    /\ At(t, "setuid", "setuid")
    /\ Becomes(t, [f(t) EXCEPT !.pc = "unkeep", !.ret = Ret(SetuidOk(c(t), f(t).arg))],
               Setuid(c(t), f(t).arg))

UnkeepCaps(t) ==
    /\ At(t, "setuid", "unkeep")
    /\ Becomes(t, [f(t) EXCEPT !.pc = "lower"], SetKeepCaps(c(t), FALSE))

-----------------------------------------------------------------------------
(* _cap_setgroups (one id stands for the list of groups) and _cap_chroot.  *)

DoSetgid(t) ==
    /\ At(t, "setgroups", "setgid")
    /\ LET ok == SetgidOk(c(t), f(t).arg)
       IN Becomes(t, [f(t) EXCEPT !.pc = IF ok THEN "setgroups" ELSE "lower",
                                  !.ret = Ret(ok)],
                  Setgid(c(t), f(t).arg))

DoSetgroups(t) ==
    /\ At(t, "setgroups", "setgroups")
    /\ Becomes(t, [f(t) EXCEPT !.pc = "lower", !.ret = Ret(SetgroupsOk(c(t)))],
               Setgroups(c(t), f(t).arg))

(* The directory may not exist (second disjunct); chdir("/") cannot fail   *)
(* after a chroot() that did not.                                          *)
DoChroot(t) ==
    /\ At(t, "chroot", "chroot")
    /\ \/ Becomes(t, [f(t) EXCEPT !.pc = "lower", !.ret = Ret(ChrootOk(c(t)))],
                  Chroot(c(t), f(t).arg))
       \/ Becomes(t, [f(t) EXCEPT !.pc = "lower", !.ret = -1], c(t))

-----------------------------------------------------------------------------
(* _cap_reset_ambient reads the set and clears it only if it holds a bit.  *)

AfterAmbient(op) == CASE op = "set_mode"      -> "secbits"
                      [] op = "iab_set_proc"  -> "vectors"
                      [] op = "reset_ambient" -> "done"

ReadAmbient(t) ==
    /\ f(t).pc = "ambient"
    /\ Goes(t, IF c(t).A = {} THEN AfterAmbient(f(t).op) ELSE "clear_ambient")

ResetAmbient(t) ==
    /\ f(t).pc = "clear_ambient"
    /\ Becomes(t, [f(t) EXCEPT !.pc = AfterAmbient(f(t).op)], ClearAmbient(c(t)))

-----------------------------------------------------------------------------
(* _cap_set_mode: secbits, and for NOPRIV (which goes on after a failure)  *)
(* the whole bounding set, the Permitted flag and no_new_privs.            *)

ModeBits(mode, k) == IF mode = "HYBRID" THEN {}
                     ELSE IF k.ambient THEN CAP_SECURED_BITS_AMBIENT
                     ELSE CAP_SECURED_BITS_BASIC

AllBits == [x \in 1 .. MaxBits |-> <<"bound", x - 1>>]

SetModeSecbits(t) ==
    /\ At(t, "set_mode", "secbits")
    /\ LET bits == ModeBits(f(t).arg, c(t))
           all  == f(t).arg = "NOPRIV"
       IN Becomes(t, [f(t) EXCEPT !.pc = IF all THEN "bounds" ELSE "lower",
                                  !.todo = IF all THEN AllBits ELSE <<>>,
                                  !.ret = Ret(SecbitsOk(c(t), bits))],
                  SetSecbits(c(t), bits))

(* Mutant: the Permitted flag is not cleared. *)
DropBoundsOnly(t) ==
    /\ At(t, "set_mode", "bounds")
    /\ IF f(t).todo # <<>>
       THEN Becomes(t, [f(t) EXCEPT !.todo = Tail(@)], Drop(c(t), Head(f(t).todo)[2]))
       ELSE Goes(t, "nnp")

DropBounds(t) ==
    /\ At(t, "set_mode", "bounds")
    /\ IF f(t).todo # <<>>
       THEN Becomes(t, [f(t) EXCEPT !.todo = Tail(@)], Drop(c(t), Head(f(t).todo)[2]))
       ELSE Becomes(t, [f(t) EXCEPT !.pc = "nnp", !.working.P = {}], c(t))

NoNewPrivs(t) ==
    /\ At(t, "set_mode", "nnp")
    /\ Becomes(t, [f(t) EXCEPT !.pc = "lower"], SetNoNewPrivs(c(t)))

(* cap_get_mode *)
cap_get_mode(k) ==
    IF k.sec = {} THEN "HYBRID"
    ELSE IF ~ CAP_SECURED_BITS_BASIC \subseteq k.sec THEN "UNCERTAIN"
    ELSE IF k.ambient /\ (k.A # {} \/ k.sec # CAP_SECURED_BITS_AMBIENT)
    THEN "UNCERTAIN"
    ELSE IF k.I # {} THEN "PURE1E"
    ELSE IF k.P # {} \/ k.E # {} \/ k.B # {} THEN "PURE1E_INIT"
    ELSE "NOPRIV"

-----------------------------------------------------------------------------
(* _cap_iab_set_proc.  working keeps the cap_t "temp" that is set last;    *)
(* the one that is set first differs in CAP_SETPCAP, if that is needed.    *)

Descending == [x \in 1 .. MaxBits |-> MaxBits - x]

(* Mutant: the bounding set is forgotten. *)
IabTodoAmbient(iab, bounds) ==
    LET bit(x) == IF x \in iab.a THEN <<<<"ambient", x>>>> ELSE <<>>
    IN FlattenSeq([x \in 1 .. MaxBits |-> bit(Descending[x])])

IabTodo(iab, bounds) ==
    LET bit(x) == (IF x \in iab.a THEN <<<<"ambient", x>>>> ELSE <<>>)
                  \o (IF bounds /\ x \in iab.nb THEN <<<<"bound", x>>>> ELSE <<>>)
    IN FlattenSeq([x \in 1 .. MaxBits |-> bit(Descending[x])])

IabGetProc(t) ==
    /\ At(t, "iab_set_proc", "get_proc")
    /\ LET iab    == f(t).arg
           bounds == iab.nb \cap c(t).B # {}
           needs  == bounds \/ ~ iab.i \subseteq c(t).I \cup c(t).P
       IN Becomes(t, [f(t) EXCEPT
                        !.working = [cap_get_proc(c(t)) EXCEPT !.I = iab.i],
                        !.todo = IabTodo(iab, bounds),
                        !.pc = IF needs THEN "iab_setpcap" ELSE "iab_set"],
                  c(t))

(* The first _cap_set_proc; failing it goes to "defer". *)
IabSet(t) ==
    /\ f(t).pc \in {"iab_set", "iab_setpcap"}
    /\ LET w == IF f(t).pc = "iab_set" THEN f(t).working
                ELSE [f(t).working EXCEPT !.E = @ \cup {CAP_SETPCAP}]
           ok == CapsetOk(c(t), w)
       IN Becomes(t, [f(t) EXCEPT !.pc = IF ok THEN "ambient" ELSE "done",
                                  !.ret = Ret(ok)],
                  Capset(c(t), w))

(* One ambient bit raised or bounding bit dropped; failing goes to "done". *)
IabVector(t) ==
    /\ At(t, "iab_set_proc", "vectors") /\ f(t).todo # <<>>
    /\ LET kind == Head(f(t).todo)[1]
           x    == Head(f(t).todo)[2]
           ok   == IF kind = "ambient" THEN RaiseOk(c(t), x) ELSE DropOk(c(t))
       IN Becomes(t, [f(t) EXCEPT !.todo = Tail(@), !.ret = Ret(ok),
                                  !.pc = IF ok THEN @ ELSE "iab_restore"],
                  IF kind = "ambient" THEN RaiseAmbient(c(t), x) ELSE Drop(c(t), x))

IabVectorsEnd(t) ==
    /\ At(t, "iab_set_proc", "vectors") /\ f(t).todo = <<>>
    /\ Goes(t, "iab_restore")

(* Mutant: temp is not written back. *)
IabNoRestore(t) == At(t, "iab_set_proc", "iab_restore") /\ Goes(t, "done")

IabRestore(t) ==
    /\ At(t, "iab_set_proc", "iab_restore")
    /\ Becomes(t, [f(t) EXCEPT !.pc = "done"], Capset(c(t), f(t).working))

(* cap_iab_get_proc *)
cap_iab_get_proc(k) == [i |-> k.I, a |-> k.A, nb |-> Caps \ k.B]

-----------------------------------------------------------------------------
Step(t) ==
    \/ GetProcFails(t) \/ GetProc(t) \/ Raise(t) \/ Lower(t)
    \/ KeepCaps(t) \/ DoSetuid(t) \/ UnkeepCaps(t)
    \/ DoSetgid(t) \/ DoSetgroups(t) \/ DoChroot(t)
    \/ ReadAmbient(t) \/ ResetAmbient(t)
    \/ SetModeSecbits(t) \/ DropBounds(t) \/ NoNewPrivs(t)
    \/ IabGetProc(t) \/ IabSet(t) \/ IabVector(t) \/ IabVectorsEnd(t) \/ IabRestore(t)

Next == \E t \in Threads : CallSingle(t) \/ CallSteps(t) \/ Step(t)

Spec == Init /\ [][Next]_vars
-----------------------------------------------------------------------------
(* Properties                                                              *)

Ops == Single \cup {"none", "setuid", "setgroups", "chroot", "set_mode",
                    "iab_set_proc", "reset_ambient"}
Points == {"done", "get_proc", "raise", "lower", "keep", "setuid", "unkeep", "setgid",
           "setgroups", "chroot", "ambient", "clear_ambient", "secbits", "bounds",
           "nnp", "iab_set", "iab_setpcap", "vectors", "iab_restore"}

(* The type invariant; the kernel's own rules for credentials are part of  *)
(* it: E is within P, and A within P and I.                                *)
TypeOK ==
    /\ creds \in [Procs -> Cred]
    /\ \A p \in Procs : /\ creds[p].E \subseteq creds[p].P
                        /\ creds[p].A \subseteq creds[p].P \cap creds[p].I
    /\ \A t \in Threads : /\ f(t).pc \in Points /\ f(t).op \in Ops
                          /\ f(t).ret \in {0, -1} /\ f(t).n \in 0 .. MaxCalls
                          /\ f(t).working \in CapT
                          /\ f(t).clean \in BOOLEAN
    /\ nopriv \subseteq Procs

(* t's last call was op, has returned, and no other thread changed the     *)
(* credentials of the process since that call began.                       *)
Returned(t, op) == At(t, op, "done") /\ f(t).clean

(* "the effective set will be cleared by the time the function returns"    *)
(* (cap_setuid, cap_setgroups) and "whether it succeeds or fails"          *)
(* (cap_set_mode): the Effective flag is empty when they return, on every  *)
(* path but the one on which there was no memory to read it.               *)
EffectiveLowered ==
    \A t \in Threads, op \in DOMAIN NeedsOf :
        Returned(t, op) => \/ c(t).E = {}
                           \/ AllocMayFail /\ f(t).ret = -1 /\ c(t) = f(t).start

(* What cap_get_mode may say after cap_set_mode(m) has returned 0: m, or a *)
(* mode that is m with less in the process to tell it by.                  *)
Within == [HYBRID      |-> {"HYBRID"},
           PURE1E      |-> {"PURE1E", "PURE1E_INIT", "NOPRIV"},
           PURE1E_INIT |-> {"PURE1E_INIT", "NOPRIV"},
           NOPRIV      |-> {"NOPRIV"}]

(* A cap_set_mode(m) that nobody disturbed and that returned 0 has put the *)
(* process in mode m, whatever state it was in; NOPRIV has also set        *)
(* no_new_privs and emptied the bounding set, though the results of those  *)
(* calls are ignored.                                                      *)
ModeTakesEffect ==
    \A t \in Threads :
        Returned(t, "set_mode") /\ f(t).ret = 0 =>
            /\ cap_get_mode(c(t)) \in Within[f(t).arg]
            /\ f(t).arg = "NOPRIV" => c(t).nnp

(* Securebits under which the kernel will not let cap_setuid keep the      *)
(* permitted capabilities: keep-caps is off and locked, the fixup is on.   *)
CannotKeep(sec) == /\ "KEEP_CAPS_LOCKED" \in sec
                   /\ sec \cap {"KEEP_CAPS", "NO_SETUID_FIXUP"} = {}

(* cap_setuid changes the uid "without dropping any permitted capabilities *)
(* in the process", unless the securebits rule it out; and it leaves       *)
(* everything but the uid, E, A and the keep-caps bit as it was.           *)
UidKeepsPermitted ==
    \A t \in Threads :
        LET s == f(t).start IN
        Returned(t, "setuid") /\ f(t).ret = 0 =>
            /\ c(t).uid = f(t).arg
            /\ ~ CannotKeep(s.sec) => c(t).P = s.P /\ c(t).I = s.I
            /\ c(t).sec \in {s.sec, s.sec \ {"KEEP_CAPS"}}
            /\ c(t).B = s.B

(* cap_setgroups and the chroot of a launch change what they are named for *)
(* and E, nothing else; of the two ids of cap_setgroups, gid is the one    *)
(* that may have changed when the call reports failure.                    *)
GroupsAndRootContained ==
    \A t \in Threads :
        LET s == f(t).start  a == f(t).arg  ok == f(t).ret = 0 IN
        /\ Returned(t, "setgroups") =>
              \E g \in IF ok THEN {a} ELSE {s.gid, a} :
                  c(t) = [s EXCEPT !.E = c(t).E, !.gid = g,
                                   !.groups = IF ok THEN a ELSE @]
        /\ Returned(t, "chroot") =>
              c(t) = [s EXCEPT !.E = c(t).E, !.root = IF ok THEN a ELSE @]

(* The calls that change ids and root do what they are named for, keep the *)
(* rest of the credentials, and leave no capability raised.                *)
CallsContained == EffectiveLowered /\ UidKeepsPermitted /\ GroupsAndRootContained

(* cap_iab_set_proc that returned 0 has made the process's I and A exactly *)
(* those of the tuple (A sticks although it is fragile with respect to I   *)
(* and P) and has blocked all of its B.  CAP_SETPCAP is raised "for the    *)
(* duration of the function call" only: on success and on failure P and E  *)
(* are afterwards what they were; a failure leaves behind no more than an  *)
(* emptied or partly filled A, the new I and some of the asked-for B.      *)
IabExact ==
    \A t \in Threads :
        LET s == f(t).start  got == cap_iab_get_proc(c(t))  want == f(t).arg IN
        Returned(t, "iab_set_proc") =>
            /\ f(t).ret = 0 =>
                  got.i = want.i /\ got.a = want.a /\ want.nb \subseteq got.nb
            /\ c(t).P = s.P /\ c(t).E = s.E
            /\ c(t).I \in {s.I, want.i}
            /\ c(t).A \subseteq s.A \cup want.a
            /\ s.B \ c(t).B \subseteq want.nb
            /\ c(t).sec = s.sec

(* "Once set, these modes cannot be undone by the affected process tree":  *)
(* when cap_set_mode(NOPRIV) has returned 0 in some thread, no call of any *)
(* thread, not even one that read the capabilities before they were        *)
(* dropped and writes them back after, gives the process a capability.     *)
NoprivForever ==
    \A p \in nopriv : creds[p].P \cup creds[p].I \cup creds[p].A = {}

Pure(k) == cap_get_mode(k) \in {"NOPRIV", "PURE1E_INIT", "PURE1E"}

(* The same of the locked modes together: no step of any call, in any      *)
(* interleaving, takes a process out of them.                              *)
PureIsForever == [][\A p \in Procs : Pure(creds[p]) => Pure(creds'[p])]_vars

(* cap_set_mode "locks the overarching capability framework of the present *)
(* process [...] to a predefined flavor": a call for one of the locked     *)
(* modes that returned 0 did so, other threads' calls notwithstanding.     *)
ModeIsLocked ==
    [][\A t \in Threads :
          f(t).pc = "lower" /\ frame'[t].pc = "done"
          /\ f(t).op = "set_mode" /\ f(t).arg # "HYBRID" /\ frame'[t].ret = 0
             => cap_get_mode(creds'[Home[t]]) \in Within[f(t).arg]]_vars
=============================================================================
