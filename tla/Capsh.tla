-------------------------------- MODULE Capsh --------------------------------
(***************************************************************************)
(* progs/capsh.c: a command line of state-changing and state-testing       *)
(* commands, obeyed in order by one process; the first that fails ends it  *)
(* with exit(1).  It is the tool that chains the operations of CapProc,    *)
(* and "==" and "=+" continue the line in a new image of the program.      *)
(*                                                                         *)
(* Commands that call several libcap operations (--user, --mode, --iab,    *)
(* --cap-uid, --noamb) take CapProc's steps; the others, in a process of a *)
(* single thread, are one step each.                                       *)
(***************************************************************************)
EXTENDS CapProc, CapForms

CONSTANTS
    Starts,         \* [cred, kind, length]: what to start with, and a line
    Commands,       \* kind of line -> its commands, <<name, argument>>
    Users,          \* name -> [uid, gid]
    Programs        \* file capabilities of programs: [P, I, eff]

(* --inh goes by way of text. *)
Lib == Library(MaxBits, 3, TRUE)

(* What the commands that change credentials take.  A capability may also  *)
(* be called by its number, or by a name the library does not know.        *)
Takes(cmd, names, args) == cmd[1] \in names => cmd[2] \in args
ArgumentOK(cmd) ==
    /\ Takes(cmd, {"drop", "addamb", "delamb"}, SUBSET Caps)
    /\ Takes(cmd, {"inh"}, SUBSET ({"name", "number"} \X Caps))
    /\ Takes(cmd, {"caps"}, CapT \cup {NULL})
    /\ Takes(cmd, {"chroot"}, Roots) /\ Takes(cmd, {"keep"}, BOOLEAN)
    /\ Takes(cmd, {"secbits"}, SUBSET SecBits)
    /\ Takes(cmd, {"uid", "cap-uid"}, Uids) /\ Takes(cmd, {"gid", "groups"}, Gids)
    /\ Takes(cmd, {"mode"}, Modes) /\ Takes(cmd, {"iab"}, Iab)
    /\ Takes(cmd, {"user"}, DOMAIN Users)

ASSUME CapshAssumption ==
    /\ Threads = {"capsh"} /\ Procs = {"capsh"}
    /\ MaxBits \in Kernels /\ MaxBits \in 1 .. MAXBITS
    /\ \A s \in Starts : /\ s.cred \in InitCreds /\ s.length \in Nat
                        /\ s.kind \in DOMAIN Commands
    /\ \A kind \in DOMAIN Commands : \A cmd \in Commands[kind] : ArgumentOK(cmd)
    /\ \A u \in DOMAIN Users : Users[u].uid \in Uids /\ Users[u].gid \in Gids

VARIABLE sh     \* [pc, kind, left, strict, child, cmd, start, status]

shvars == <<vars, sh>>

(* child: none, the uid of the forked process with what became of it, or   *)
(* the -1 of a fork() that failed.  cmd and start are history: the last    *)
(* command and the credentials before it.                                  *)
NoChild == <<"none">>
ShInit == /\ \E s \in Starts :
                /\ creds = [p \in Procs |-> s.cred]
                /\ sh = [pc |-> "ready", kind |-> s.kind, left |-> s.length, strict |-> FALSE,
                         child |-> NoChild, cmd |-> <<"none">>, start |-> s.cred,
                         status |-> 0]
          /\ Init

k == creds["capsh"]
Over(status) == [sh EXCEPT !.pc = "exit", !.status = status]
Obeyed(cmd) == [sh EXCEPT !.left = @ - 1, !.cmd = cmd, !.start = k]
Sets(kk) == Becomes("capsh", Blank, kk)

-----------------------------------------------------------------------------
(* What a command makes of credentials: those it leaves, or that it fails. *)
Leaves(ok, kk) == [ok |-> ok, cred |-> kk]

(* will_need_setpcap and push_pcap: CAP_SETPCAP is raised for a while, if  *)
(* it is not there and unless the command is to be strict.                 *)
NeedsSetpcap == ~ sh.strict /\ CAP_SETPCAP \notin k.E
WithSetpcap == [cap_get_proc(k) EXCEPT !.E = @ \cup {CAP_SETPCAP}]

(* Mutant: orig is not set again. *)
arg_drop_raised(xs) ==
    LET during == IF NeedsSetpcap THEN Capset(k, WithSetpcap) ELSE k
    IN Leaves(xs = {} \/ DropOk(during), [during EXCEPT !.B = @ \ xs])

(* Each bit is dropped between a capset that raises and one that restores. *)
arg_drop(xs) ==
    LET during  == IF NeedsSetpcap THEN Capset(k, WithSetpcap) ELSE k
        dropped == [during EXCEPT !.B = @ \ xs]
    IN IF xs = {} THEN Leaves(TRUE, k)
       ELSE Leaves(DropOk(during) /\ CapsetOk(dropped, cap_get_proc(k)),
                   Capset(dropped, cap_get_proc(k)))

arg_change_amb(xs, raise) ==
    IF raise THEN Leaves(\A x \in xs : RaiseOk(k, x), [k EXCEPT !.A = @ \cup xs])
    ELSE Leaves(xs = {} \/ k.ambient, [k EXCEPT !.A = @ \ xs])

(* The new cap_t is set when CAP_SETPCAP is raised, should that succeed. *)
SetAll(all) ==
    LET during == IF NeedsSetpcap THEN Capset(k, WithSetpcap) ELSE k
    IN IF all = NULL THEN Leaves(FALSE, k)
       ELSE Leaves(CapsetOk(during, all), Capset(during, all))

inh(names) ==
    LET rest == cap_to_text([cap_get_proc(k) EXCEPT !.I = {}], Lib)
        plus == IF names = {} THEN <<>>
                ELSE <<Clause(FALSE, names, <<<<"+", {"I"}>>>>)>>
    IN SetAll(cap_from_text(rest \o plus, Lib))

(* --chroot raises CAP_SYS_CHROOT and restores, whatever chroot() returns. *)
chroot(dir) ==
    LET w     == [cap_get_proc(k) EXCEPT !.E = @ \cup {CAP_SYS_CHROOT}]
        there == Chroot(Capset(k, w), dir)
    IN Leaves(CapsetOk(k, w) /\ CapsetOk(there, cap_get_proc(k)),
              Capset(there, cap_get_proc(k)))

(* The system call of that name, once. *)
arg_keep(on)      == Leaves("KEEP_CAPS_LOCKED" \notin k.sec, SetKeepCaps(k, on))
arg_secbits(bits) == Leaves(SecbitsOk(k, bits), SetSecbits(k, bits))
arg_uid(u)        == Leaves(SetuidOk(k, u), Setuid(k, u))
arg_gid(g)        == Leaves(SetgidOk(k, g), Setgid(k, g))
arg_groups(gs)    == Leaves(SetgroupsOk(k), Setgroups(k, gs))
no_new_privs      == Leaves(TRUE, SetNoNewPrivs(k))

Does(cmd, result) ==
    IF result.ok THEN sh' = Obeyed(cmd) /\ Sets(result.cred)
    ELSE sh' = Over(1) /\ UNCHANGED vars

(* The commands whose work is done in one step.  What can fail although    *)
(* the process may do it: a directory or a group that is not there (last   *)
(* disjunct).                                                              *)
Effect(cmd) ==
    \/ cmd[1] = "drop"         /\ Does(cmd, arg_drop(cmd[2]))
    \/ cmd[1] = "addamb"       /\ Does(cmd, arg_change_amb(cmd[2], TRUE))
    \/ cmd[1] = "delamb"       /\ Does(cmd, arg_change_amb(cmd[2], FALSE))
    \/ cmd[1] = "inh"          /\ Does(cmd, inh(cmd[2]))
    \/ cmd[1] = "caps"         /\ Does(cmd, SetAll(cmd[2]))
    \/ cmd[1] = "chroot"       /\ Does(cmd, chroot(cmd[2]))
    \/ cmd[1] = "keep"         /\ Does(cmd, arg_keep(cmd[2]))
    \/ cmd[1] = "secbits"      /\ Does(cmd, arg_secbits(cmd[2]))
    \/ cmd[1] = "uid"          /\ Does(cmd, arg_uid(cmd[2]))
    \/ cmd[1] = "gid"          /\ Does(cmd, arg_gid(cmd[2]))
    \/ cmd[1] = "groups"       /\ Does(cmd, arg_groups(cmd[2]))
    \/ cmd[1] = "no-new-privs" /\ Does(cmd, no_new_privs)
    \/ cmd[1] \in {"chroot", "groups"} /\ sh' = Over(1) /\ UNCHANGED vars

-----------------------------------------------------------------------------
(* Tests.  cap_get_ambient and cap_get_bound may return -1, which is not 0.*)
Holds(cmd) ==
    CASE cmd[1] = "dropped"          -> cmd[2] \notin k.B
      [] cmd[1] = "has-ambient"      -> k.ambient
      [] cmd[1] = "inmode"           -> cap_get_mode(k) = cmd[2]
      [] cmd[1] = "has-p"            -> cmd[2] \in k.P
      [] cmd[1] = "has-i"            -> cmd[2] \in k.I
      [] cmd[1] = "has-a"            -> ~ k.ambient \/ cmd[2] \in k.A
      [] cmd[1] = "has-b"            -> cmd[2] \in k.B
      [] cmd[1] = "is-uid"           -> k.uid = cmd[2]
      [] cmd[1] = "is-gid"           -> k.gid = cmd[2]
      [] cmd[1] = "has-no-new-privs" -> k.nnp

Tests == {"dropped", "has-ambient", "inmode", "has-p", "has-i", "has-a", "has-b",
          "is-uid", "is-gid", "has-no-new-privs"}

Test(cmd) == /\ cmd[1] \in Tests
             /\ sh' = IF Holds(cmd) THEN Obeyed(cmd) ELSE Over(1)
             /\ UNCHANGED vars

Strict(cmd) == /\ cmd[1] = "strict"
               /\ sh' = [Obeyed(cmd) EXCEPT !.strict = ~ sh.strict]
               /\ UNCHANGED vars

-----------------------------------------------------------------------------
(* The commands that call a libcap operation of several steps: the call    *)
(* begins, Stepping takes its steps and Returns takes its result.          *)
Enter(op, arg, pc) ==
    Becomes("capsh", [Fresh("capsh", op, arg) EXCEPT !.pc = pc, !.n = 0], k)

arg_mode(m)    == Enter("set_mode", m, "get_proc")
arg_iab(tuple) == Enter("iab_set_proc", tuple, "get_proc")
arg_noamb      == Enter("reset_ambient", 0, "ambient")
arg_cap_uid(u) == Enter("setuid", u, "get_proc")
arg_user(name) == Enter("setgroups", Users[name].gid, "get_proc")

Call(cmd) ==
    /\ \/ cmd[1] = "mode"    /\ arg_mode(cmd[2])
       \/ cmd[1] = "iab"     /\ arg_iab(cmd[2])
       \/ cmd[1] = "noamb"   /\ arg_noamb
       \/ cmd[1] = "cap-uid" /\ arg_cap_uid(cmd[2])
       \/ cmd[1] = "user"    /\ arg_user(cmd[2])
    /\ sh' = [Obeyed(cmd) EXCEPT !.pc = "calling"]

Stepping == Step("capsh") /\ UNCHANGED sh

(* --user goes on with cap_setuid. *)
Returns ==
    /\ sh.pc = "calling" /\ f("capsh").pc = "done"
    /\ IF f("capsh").ret # 0 THEN sh' = Over(1) /\ UNCHANGED vars
       ELSE IF sh.cmd[1] = "user" /\ f("capsh").op = "setgroups"
       THEN Enter("setuid", Users[sh.cmd[2]].uid, "get_proc") /\ UNCHANGED sh
       ELSE sh' = [sh EXCEPT !.pc = "ready"] /\ UNCHANGED vars

-----------------------------------------------------------------------------
(* --forkfor and --killit.  The child sleeps, then exits.                  *)

ForkFor(cmd) ==
    /\ cmd[1] = "forkfor" /\ UNCHANGED vars
    /\ IF sh.child # NoChild THEN sh' = Over(1)
       ELSE \E child \in {<<"asleep", k.uid>>, <<"failed">>} :
               sh' = [Obeyed(cmd) EXCEPT !.child = child]

ChildWakes == /\ sh.child[1] = "asleep" /\ sh.pc = "ready"
              /\ sh' = [sh EXCEPT !.child = <<"exited">>] /\ UNCHANGED vars

(* After a fork() that failed, kill(-1) signals all it may, and waitpid(-1)*)
(* returns the same -1: the command may pass.  CAP_KILL is not among the   *)
(* capabilities followed.                                                  *)
KillIt(cmd) ==
    /\ cmd[1] = "killit" /\ UNCHANGED vars
    /\ \/ sh.child = NoChild /\ sh' = Over(1)
       \/ sh.child[1] = "failed" /\ sh' \in {Over(1), [Obeyed(cmd) EXCEPT !.child = NoChild]}
       \/ sh.child[1] = "exited" /\ sh' = Over(1)
       \/ /\ sh.child[1] = "asleep"
          /\ \/ sh' = [Obeyed(cmd) EXCEPT !.child = NoChild]
             \/ k.uid # sh.child[2] /\ sh' = Over(1)

-----------------------------------------------------------------------------
(* execve(2) of a program with file capabilities. *)
Execve(kk, file) ==
    LET root  == kk.uid = 0 /\ "NOROOT" \notin kk.sec
        plain == file.P \cup file.I = {}
        A     == IF plain THEN kk.A ELSE {}
        gains == IF root THEN kk.I \cup kk.B ELSE (kk.I \cap file.I) \cup (kk.B \cap file.P)
        P     == (IF kk.nnp THEN gains \cap kk.P ELSE gains) \cup A
    IN [kk EXCEPT !.A = A, !.P = P, !.E = IF root \/ file.eff THEN P ELSE A,
                  !.sec = @ \ {"KEEP_CAPS"}]

(* "==" and "=+": the rest of the line is for a new capsh, which may not   *)
(* be found; "--" and "-+": it is for the shell.  With "+" it is the child *)
(* of cap_launch that goes on, the parent waits for it and passes its      *)
(* status on.                                                              *)
Chain(cmd) ==
    /\ cmd[1] \in {"==", "--"}
    /\ \/ \E file \in Programs :
             /\ Sets(Execve(k, file))
             /\ sh' = [Obeyed(cmd) EXCEPT !.pc = IF cmd[1] = "==" THEN "ready" ELSE "shell",
                                          !.strict = FALSE, !.child = NoChild]
       \/ sh' = Over(1) /\ UNCHANGED vars

(* The line ends: exit(0). *)
End == sh.pc = "ready" /\ sh' = Over(0) /\ UNCHANGED vars

Obey(cmd) == \/ Effect(cmd) \/ Test(cmd) \/ Strict(cmd) \/ Call(cmd)
             \/ ForkFor(cmd) \/ KillIt(cmd) \/ Chain(cmd)

ShNext == \/ sh.pc = "ready" /\ sh.left > 0 /\ \E cmd \in Commands[sh.kind] : Obey(cmd)
          \/ Stepping \/ Returns \/ ChildWakes \/ End

ShSpec == ShInit /\ [][ShNext]_shvars

-----------------------------------------------------------------------------
(* Properties                                                              *)

(* The last command was name and has been obeyed. *)
Did(name) == sh.cmd[1] = name /\ sh.pc = "ready"

(* A command changes what it is named for and nothing else, though most of *)
(* them raise a capability on the way and restore the Effective flag after:*)
(* --drop the bounding set, --inh exactly the Inheritable flag (and with   *)
(* it the ambient set), --chroot the root, --caps the three flags.  --user *)
(* goes on only as that user altogether (uid, gid and groups), with an     *)
(* empty Effective flag and, where the securebits allow, what P it had.    *)
CommandContained ==
    LET s == sh.start  arg == sh.cmd[2] IN
    /\ Did("drop")   => k = [s EXCEPT !.B = @ \ arg]
    /\ Did("inh")    => LET new == {x[2] : x \in arg}
                        IN k = [s EXCEPT !.I = new, !.A = @ \cap new]
    /\ Did("chroot") => k = [s EXCEPT !.root = arg]
    /\ Did("caps")   => k = [s EXCEPT !.P = arg.P, !.E = arg.E, !.I = arg.I,
                                      !.A = @ \cap arg.P \cap arg.I]
    /\ Did("user")   => LET u == Users[arg]
                        IN /\ k.uid = u.uid /\ k.gid = u.gid /\ k.groups = u.gid
                           /\ k.E = {}
                           /\ ~ CannotKeep(s.sec) => k.P = s.P
=============================================================================
