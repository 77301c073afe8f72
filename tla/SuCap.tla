-------------------------------- MODULE SuCap --------------------------------
(***************************************************************************)
(* contrib/sucap/su.c, the su that holds capabilities instead of being     *)
(* setuid-root, with pam_cap in its PAM stack (module PamCap) and on top   *)
(* of cap_setuid and cap_iab_set_proc (module CapProc).                    *)
(*                                                                         *)
(* Two processes: "su" authenticates, takes the user's identity, forks and *)
(* then monitors; "shell" is the child of its cap_launch.  su changes its  *)
(* uid so that whoever started it cannot kill it before it has closed the  *)
(* PAM session.  The other PAM modules answer as they like.                *)
(***************************************************************************)
EXTENDS PamCap

CONSTANTS
    Passwd,         \* user -> [uid, gid], for the users there are
    Asked,          \* the users su may be asked for
    None,           \* no uid
    TEMP_UID, CAP_CHOWN, CAP_KILL

ASSUME SuAssumption == /\ Threads = {"su", "shell"} /\ Procs = Threads
                       /\ \A t \in Threads : Home[t] = t
                       /\ TEMP_UID \in Uids \ {0} /\ None \notin Uids
                       /\ {CAP_CHOWN, CAP_KILL} \subseteq Caps
                       /\ \A user \in DOMAIN Passwd :
                             Passwd[user].uid \in Uids /\ Passwd[user].gid \in Gids

VARIABLES su, shell

suvars == <<su, shell>>
allvars == <<vars, pamvars, suvars>>

(* retval and err: has PAM, has a system call failed?  auth .. session:    *)
(* what the PAM stacks have granted.  all is the cap_t of main, rule the   *)
(* one pam_cap read last, applied whether su itself was given its tuple,   *)
(* guarded: are the signals blocked or caught?  reaped: did waitpid find   *)
(* that the kernel has reaped the child, as who started su ignores         *)
(* SIGCHLD?  sig killed su, sent by by, at at.                             *)
SuInit ==
    /\ Init /\ PamInit /\ creds["shell"] = creds["su"]
    /\ \E login \in BOOLEAN, user \in Asked :
          su = [pc |-> "init", login |-> login, user |-> user,
                invoked_uid |-> creds["su"].uid,
                all |-> [P |-> creds["su"].P, E |-> creds["su"].P, I |-> {}],
                retval |-> TRUE, err |-> FALSE, status |-> 1,
                auth |-> FALSE, acct |-> FALSE, cred |-> "none", session |-> "none",
                rule |-> Nothing, applied |-> FALSE, tty |-> creds["su"].uid, terminal_uid |-> None,
                alert |-> FALSE, guarded |-> FALSE, reaped |-> FALSE,
                sig |-> "none", by |-> None, at |-> "init"]
    /\ shell = [st |-> "none", code |-> 1]

-----------------------------------------------------------------------------
k == creds["su"]
entry == Passwd[su.user]

(* su is at pc and not inside a call of libcap. *)
SuAt(pc) == su.pc = pc /\ f("su").pc = "done"
Called == f("su").ret = 0

Goto(pc) == su' = [su EXCEPT !.pc = pc]
PamFails == su' = [su EXCEPT !.pc = "auth_exit", !.retval = FALSE]
ErrTo(pc) == su' = [su EXCEPT !.pc = pc, !.err = TRUE]
Exit(status) == su' = [su EXCEPT !.pc = "exit", !.status = status]

Same == UNCHANGED <<vars, pamvars, shell>>

(* A stack of "required" modules: pam_cap, which says SUCCESS or IGNORE,   *)
(* and others.                                                             *)
Stack(mine, others) == others # "FAIL" /\ "SUCCESS" \in {mine, others}
Answers == {"SUCCESS", "IGNORE", "FAIL"}

(* A step of the library call that a process is making. *)
Operation(t) == /\ t = "su" => su.pc # "killed"
                /\ Step(t) /\ UNCHANGED <<pamvars, suvars>>
-----------------------------------------------------------------------------
(* do_pam_init; a failure ends su at once. *)
do_pam_init == SuAt("init") /\ (Goto("unkillable") \/ Exit(1)) /\ Same

(* Mutant: su stays with the uid of who started it. *)
make_process_unkillable_never == SuAt("unkillable") /\ Goto("authenticate") /\ Same

make_process_unkillable ==
    /\ SuAt("unkillable")
    /\ IF su.invoked_uid = TEMP_UID THEN Goto("authenticate") /\ Same
       ELSE /\ Begin("su", "setuid", TEMP_UID) /\ Goto("unkillable_end")
            /\ UNCHANGED <<pamvars, shell>>

(* Failing, it goes to su_exit: past pam_end. *)
UnkillableEnd ==
    /\ SuAt("unkillable_end")
    /\ IF Called THEN Goto("authenticate") ELSE Exit(1)
    /\ Same

authenticate_user ==
    /\ SuAt("authenticate")
    /\ Sets("su", Capset(k, su.all)) /\ UNCHANGED <<pamvars, shell>>
    /\ IF ~ CapsetOk(k, su.all) THEN ErrTo("auth_exit")
       ELSE \E others \in Answers, rule \in read_capabilities_for_user(su.user) :
               IF Stack(pam_sm_authenticate(rule), others)
               THEN su' = [su EXCEPT !.pc = "accounting", !.auth = TRUE]
               ELSE PamFails

user_accounting ==
    /\ SuAt("accounting")
    /\ Sets("su", Capset(k, su.all)) /\ UNCHANGED <<pamvars, shell>>
    /\ IF ~ CapsetOk(k, su.all) THEN ErrTo("auth_exit")
       ELSE PamFails \/ su' = [su EXCEPT !.pc = "credentials", !.acct = TRUE]

-----------------------------------------------------------------------------
(* set_credentials, in steps: the checks, the groups and the uid; then all *)
(* capabilities raised; then pam_setcred, in which pam_cap may call        *)
(* cap_iab_set_proc.  Strings may not be storable.                         *)

Refused(user) == user \in DOMAIN Passwd => Passwd[user].uid = 0

CredentialsRefused == /\ SuAt("credentials")
                      /\ Refused(su.user) \/ AllocMayFail
                      /\ PamFails /\ Same

CredentialsGroups ==
    /\ SuAt("credentials") /\ ~ Refused(su.user)
    /\ LET w == [cap_get_proc(k) EXCEPT !.E = @ \cup {CAP_SETGID}]
           gk == Capset(k, w)
       IN IF ~ CapsetOk(k, w) THEN ErrTo("auth_exit") /\ Same
          ELSE /\ \/ /\ Sets("su", Setgid(Setgroups(gk, entry.gid), entry.gid))
                     /\ Goto("setuid")
                  \/ AllocMayFail /\ Sets("su", gk) /\ PamFails         \* initgroups
                  \/ AllocMayFail /\ Sets("su", Setgroups(gk, entry.gid)) /\ PamFails
               /\ UNCHANGED <<pamvars, shell>>

CredentialsUid ==
    /\ SuAt("setuid")
    /\ Begin("su", "setuid", entry.uid) /\ Goto("setuid_end")
    /\ UNCHANGED <<pamvars, shell>>

CredentialsRaise ==
    /\ SuAt("setuid_end")
    /\ IF Called /\ CapsetOk(k, su.all) THEN Sets("su", Capset(k, su.all)) /\ Goto("pam_setcred")
       ELSE PamFails /\ UNCHANGED vars
    /\ UNCHANGED <<pamvars, shell>>

pam_sm_setcred ==
    /\ SuAt("pam_setcred")
    /\ \E calling, ok \in BOOLEAN, rule \in read_capabilities_for_user(su.user) :
          /\ SetCapabilities("su", RuleFor(rule), calling, ok)
          /\ su' = [su EXCEPT !.pc = IF calling THEN "setcred_iab"
                                     ELSE IF ok THEN "setcred_ok" ELSE "setcred_ignore",
                              !.rule = RuleFor(rule)]
    /\ UNCHANGED <<conf, edits, pcs, shell>>

SetcredEnd ==
    /\ f("su").pc = "done" /\ su.pc \in {"setcred_iab", "setcred_ok", "setcred_ignore"}
    /\ Sets("su", KeepsCaps("su", su.rule)) /\ UNCHANGED <<pamvars, shell>>
    /\ LET applied == su.pc = "setcred_iab" /\ Called
           mine == IF su.pc = "setcred_ok" \/ applied
                   THEN "SUCCESS" ELSE "IGNORE"
       IN \E others \in Answers :
             IF Stack(mine, others)
             THEN su' = [su EXCEPT !.pc = "terminal", !.cred = "set", !.applied = applied]
             ELSE PamFails

-----------------------------------------------------------------------------
(* The terminal is given to the user of a login session, and given back.   *)

Chown(kk) == [kk EXCEPT !.E = @ \cup {CAP_CHOWN}]
MayChown == CAP_CHOWN \in k.P

change_terminal_owner ==
    /\ SuAt("terminal") /\ UNCHANGED <<pamvars, shell>>
    /\ \/ Goto("session") /\ UNCHANGED vars      \* nothing to do, or reported only
       \/ su.login /\ ErrTo("auth_exit") /\ UNCHANGED vars               \* fstat
       \/ /\ su.login /\ MayChown
          /\ su' = [su EXCEPT !.pc = "session", !.terminal_uid = su.tty, !.tty = entry.uid]
          /\ UNCHANGED vars
       \/ /\ su.login /\ MayChown                 \* fchown fails: stays raised
          /\ Goto("session") /\ Sets("su", Chown(k))

restore_terminal_owner(owner, alert) ==
    \/ su.terminal_uid = None /\ owner = su.tty /\ alert = su.alert
    \/ su.terminal_uid # None /\ MayChown /\ owner = su.terminal_uid /\ alert = su.alert
    \/ su.terminal_uid # None /\ owner = su.tty /\ alert

-----------------------------------------------------------------------------
(* t_caps is read and filled; utmp_open_session compares the address of    *)
(* retval with PAM_SUCCESS and so fails for every login session.           *)
utmp_open_session == FALSE

TCapsFails == SuAt("session") /\ AllocMayFail /\ ErrTo("delete_cred") /\ Same

UtmpFails == /\ SuAt("session") /\ su.login /\ ~ utmp_open_session
             /\ Goto("delete_cred") /\ Same

(* Mutant: the session is opened with "all", which inherits nothing. *)
open_session_all ==
    /\ SuAt("session") /\ (~ su.login \/ utmp_open_session)
    /\ Sets("su", Capset(k, su.all)) /\ UNCHANGED <<pamvars, shell>>
    /\ su' = [su EXCEPT !.pc = "launch", !.session = "open"]

open_session ==
    /\ SuAt("session") /\ (~ su.login \/ utmp_open_session)
    /\ Sets("su", Capset(k, [cap_get_proc(k) EXCEPT !.E = k.P])) /\ UNCHANGED <<pamvars, shell>>
    /\ \/ su' = [su EXCEPT !.pc = "launch", !.session = "open"]
       \/ su' = [su EXCEPT !.pc = "delete_cred", !.retval = FALSE]

-----------------------------------------------------------------------------
(* perform_launch_and_cleanup.  cap_launch has the outcomes that module    *)
(* CapLaunch shows it to have: the program runs, or -1 is returned.        *)

LaunchUnprepared == /\ SuAt("launch")
                    /\ su' = [su EXCEPT !.pc = "close_session", !.status = 4] /\ Same

Fork ==
    /\ SuAt("launch")
    /\ \/ Goto("monitor") /\ Same                            \* no pipe, no child
       \/ /\ Goto("launching")
          /\ creds' = [creds EXCEPT !["shell"] = k]
          /\ data' = [data EXCEPT !["shell"] = data["su"]]
          /\ shell' = [shell EXCEPT !.st = "callback"]
          /\ UNCHANGED <<frame, nopriv, conf, edits, pcs>>

(* launch_callback_fn: pam_end(PAM_SUCCESS | PAM_DATA_SILENT), which may   *)
(* fail after the clean-up.                                                *)
launch_callback_fn ==
    /\ shell.st = "callback"
    /\ data' = [data EXCEPT !["shell"] = Nothing]
    /\ IF Applies("shell", TRUE, TRUE)
       THEN Begin("shell", "iab_set_proc", data["shell"][2]) ELSE UNCHANGED vars
    /\ shell' = [shell EXCEPT !.st = "exec"]
    /\ UNCHANGED <<conf, edits, pcs, su>>

Exec == /\ shell.st = "exec" /\ f("shell").pc = "done"
        /\ shell' \in {[shell EXCEPT !.st = "running"], [shell EXCEPT !.st = "failed"]}
        /\ UNCHANGED <<vars, pamvars, su>>

ShellExits == /\ shell.st = "running"
              /\ shell' \in {[st |-> "exited", code |-> x] : x \in {0, 1}}
              /\ UNCHANGED <<vars, pamvars, su>>

cap_launch == SuAt("launching") /\ shell.st \in {"running", "exited", "failed"}
              /\ Goto("monitor") /\ Same

Monitor ==
    /\ SuAt("monitor") /\ UNCHANGED <<pamvars, shell>>
    /\ IF CapsetOk(k, su.all) THEN Sets("su", Capset(k, su.all)) /\ Goto("hide")
       ELSE su' = [su EXCEPT !.pc = "close_session", !.status = 4] /\ UNCHANGED vars

(* prepare_for_job_control blocks every signal before the uid is changed. *)
Hide == /\ SuAt("hide") /\ Begin("su", "setuid", TEMP_UID)
        /\ su' = [su EXCEPT !.pc = "waiting", !.guarded = TRUE]
        /\ UNCHANGED <<pamvars, shell>>

(* wait_for_child *)
Ended == shell.st = "exited"
NoChild == shell.st \in {"none", "failed"}

(* Mutants: after the kill there is no second wait; exit_code is 0 until   *)
(* there is one; a failed launch is waited for.                            *)
WaitEndsEarly ==
    /\ f("su").pc = "done" /\ Same
    /\ su.pc = "final_wait" \/ (su.pc = "waiting" /\ (NoChild \/ Ended))
    /\ su' = [su EXCEPT !.pc = "close_session", !.status = 1]
WaitEndsWithZero ==
    /\ f("su").pc = "done" /\ su.pc \in {"waiting", "final_wait"} /\ (NoChild \/ Ended)
    /\ su' = [su EXCEPT !.pc = "close_session", !.status = 0] /\ Same
WaitEndsWithChild ==
    /\ f("su").pc = "done" /\ su.pc \in {"waiting", "final_wait"} /\ Ended
    /\ su' = [su EXCEPT !.pc = "close_session", !.status = shell.code] /\ Same

WaitEnds ==
    /\ f("su").pc = "done" /\ Same
    /\ \/ su.pc = "waiting" /\ NoChild
          /\ su' = [su EXCEPT !.pc = "close_session", !.status = -1]
       \/ su.pc \in {"waiting", "final_wait"} /\ Ended /\ ~ su.reaped
          /\ su' = [su EXCEPT !.pc = "close_session", !.status = shell.code]

(* Nobody is left to wait for: kill() finds no process either, and after   *)
(* the second failure exit_code is taken from the status nobody has set.   *)
WaitFails ==
    /\ f("su").pc = "done" /\ Ended /\ Same
    /\ \/ su.pc = "waiting" /\ su' = [su EXCEPT !.pc = "final_wait", !.reaped = TRUE]
       \/ su.pc = "final_wait"
          /\ \E code \in {0, 1} :
                su' = [su EXCEPT !.pc = "close_session", !.reaped = TRUE, !.status = code]

(* SIGTERM or SIGHUP came: the child is sent SIGTERM and later SIGKILL,    *)
(* but the kernel delivers neither to a process of another user.           *)
Caught ==
    /\ SuAt("waiting") /\ ~ NoChild
    /\ su' = [su EXCEPT !.pc = "final_wait"]
    /\ shell' = IF shell.st = "running" /\ (CAP_KILL \in k.E \/ k.uid = creds["shell"].uid)
                THEN [st |-> "exited", code |-> 1] ELSE shell
    /\ UNCHANGED <<vars, pamvars>>

-----------------------------------------------------------------------------
(* Whatever pam_close_session and pam_setcred answer is printed only. *)
close_session == /\ SuAt("close_session")
                 /\ su' = [su EXCEPT !.pc = "delete_cred", !.session = "closed"]
                 /\ Sets("su", Capset(k, su.all)) /\ UNCHANGED <<pamvars, shell>>

delete_cred ==
    /\ SuAt("delete_cred")
    /\ \E owner \in Uids, alert \in BOOLEAN :
          /\ restore_terminal_owner(owner, alert)
          /\ su' = [su EXCEPT !.pc = "auth_exit", !.cred = "deleted", !.tty = owner,
                              !.terminal_uid = None, !.alert = alert]
    /\ Sets("su", Capset(k, su.all)) /\ UNCHANGED <<pamvars, shell>>

make_process_killable == /\ SuAt("auth_exit")
                         /\ Begin("su", "setuid", su.invoked_uid) /\ Goto("pam_end")
                         /\ UNCHANGED <<pamvars, shell>>

pam_end == /\ SuAt("pam_end") /\ Goto("modes")
           /\ data' = [data EXCEPT !["su"] = Nothing]
           /\ IF Applies("su", su.retval /\ ~ su.err, FALSE)
              THEN Begin("su", "iab_set_proc", data["su"][2]) ELSE UNCHANGED vars
           /\ UNCHANGED <<conf, edits, pcs, shell>>

(* The terminal modes may not be restorable. *)
restore_terminal_modes == /\ SuAt("modes") /\ Same
                          /\ Exit(su.status) \/ Exit(IF su.status = 0 THEN 1 ELSE su.status)

(* A process of the user who started su, or of the one whose shell it is,  *)
(* sends SIGKILL, which takes the same uid.                                *)
Target == IF Refused(su.user) THEN {} ELSE {entry.uid}
Kill == /\ su.pc \notin {"init", "exit", "killed"}
        /\ k.uid \in {su.invoked_uid} \cup Target
        /\ su' = [su EXCEPT !.pc = "killed", !.sig = "SIGKILL", !.by = k.uid, !.at = su.pc]
        /\ Same

(* The kernel sends without regard to uids: SIGHUP when the terminal is    *)
(* hung up, SIGALRM from a timer that who started su has set before.  Both *)
(* kill until prepare_for_job_control blocks them; wait_for_child, if      *)
(* there is a child, catches SIGHUP and unblocks SIGALRM.                  *)
Fatal(sig) == \/ ~ su.guarded
              \/ sig = "SIGALRM" /\ ~ NoChild /\ ~ (su.pc = "waiting" /\ f("su").pc # "done")
Signalled == /\ su.pc \notin {"init", "exit", "killed"}
             /\ \E sig \in {"SIGHUP", "SIGALRM"} :
                   Fatal(sig) /\ su' = [su EXCEPT !.pc = "killed", !.sig = sig, !.at = su.pc]
             /\ Same

-----------------------------------------------------------------------------
SuStep ==
    \/ Operation("su") \/ do_pam_init \/ make_process_unkillable \/ UnkillableEnd
    \/ authenticate_user \/ user_accounting
    \/ CredentialsRefused \/ CredentialsGroups \/ CredentialsUid \/ CredentialsRaise
    \/ pam_sm_setcred \/ SetcredEnd \/ change_terminal_owner
    \/ TCapsFails \/ UtmpFails \/ open_session
    \/ LaunchUnprepared \/ Fork \/ cap_launch \/ Monitor \/ Hide \/ WaitEnds \/ WaitFails
    \/ close_session \/ delete_cred
    \/ make_process_killable \/ pam_end \/ restore_terminal_modes

ShellStep == Operation("shell") \/ launch_callback_fn \/ Exec

(* Bound: nobody reads the configuration after pam_setcred. *)
BeforeSetcred == {"init", "unkillable", "unkillable_end", "authenticate", "accounting",
                  "credentials", "setuid", "setuid_end", "pam_setcred"}

SuNext == \/ SuStep \/ ShellStep
          \/ ShellExits \/ Caught \/ Kill \/ Signalled
          \/ su.pc \in BeforeSetcred /\ EditConf /\ UNCHANGED suvars

(* su and the child before its exec run on; the shell need not end. *)
SuSpec == SuInit /\ [][SuNext]_allvars /\ WF_allvars(SuStep) /\ WF_allvars(ShellStep)
-----------------------------------------------------------------------------
(* Properties                                                              *)

(* A shell is started only for a user whom the PAM stacks let pass, never  *)
(* for root, with exactly that user's ids; and as long as it runs, the PAM *)
(* session is open and the credentials are in place, whoever else has      *)
(* ended: no path of main closes the session of a shell it lost sight of.  *)
ShellEntitled ==
    shell.st \in {"callback", "exec", "running"} =>
        /\ su.auth /\ su.acct
        /\ su.session = "open" /\ su.cred = "set"
        /\ entry.uid # 0
        /\ LET s == creds["shell"]
           IN s.uid = entry.uid /\ s.gid = entry.gid /\ s.groups = entry.gid

(* Whether the tuple is applied in su (and must survive the capset calls   *)
(* until the fork) or deferred to the child: the shell has no inheritable  *)
(* or ambient capability that the user's rule does not name, not even one  *)
(* that su inherited; and it has all that the rule names and blocks if     *)
(* cap_iab_set_proc succeeded.                                             *)
ShellAsConfigured ==
    shell.st \in {"running", "exited"} =>
        LET want == IF su.rule[1] = "iab" THEN su.rule[2]
                    ELSE [i |-> {}, a |-> {}, nb |-> {}]
            got  == cap_iab_get_proc(creds["shell"])
        IN /\ got.i \subseteq want.i /\ got.a \subseteq want.a
           /\ su.applied \/ (f("shell").op = "iab_set_proc" /\ f("shell").ret = 0) =>
                 got.i = want.i /\ got.a = want.a /\ want.nb \subseteq got.nb

(* What the user's shell was given does not stay with the monitor: while   *)
(* it waits, and from the closed session to its exit, su has neither       *)
(* inheritable nor ambient capabilities; a deferred tuple is never applied *)
(* in the parent.                                                          *)
MonitorSheds ==
    su.pc \in {"hide", "waiting", "final_wait"} \/ su.session = "closed" =>
        k.I = {} /\ k.A = {}

(* "Random exits from here are strictly prohibited": when su exits, no     *)
(* session is open, the terminal is its owner's again (or syslog has an    *)
(* alert), and the credentials are deleted unless the terminal of a login  *)
(* could not be examined; and it reports 0 only for a shell that ended     *)
(* with 0, or whose status the kernel kept from both calls of waitpid: the *)
(* variable is then uninitialised, and the "transparent exit" reports any. *)
(* Who started su cannot send it a SIGKILL between the first               *)
(* authentication and the last clean-up; TEMP_UID and the target user can. *)
(* A hang-up of the terminal, against which disable_terminal_signals does  *)
(* nothing, may kill su with the session open at any point up to the wait  *)
(* for the shell, but not there, nor on the way out once there was one.    *)
CleanedUp ==
    /\ su.pc = "exit" => /\ su.session # "open"
                         /\ su.cred # "set" \/ (su.login /\ su.err)
                         /\ su.tty = su.invoked_uid \/ su.alert
                         /\ su.status = 0 => Ended /\ (shell.code = 0 \/ su.reaped)
    /\ su.sig = "SIGKILL" /\ su.by \notin Target \cup {TEMP_UID} =>
          su.at \in {"unkillable", "unkillable_end", "pam_end", "modes"}
    /\ su.sig = "SIGHUP" => /\ su.at \notin {"waiting", "final_wait"}
                            /\ su.session = "closed" => su.status = 4

(* su ends unless its shell runs for ever: no failure, refusal or signal   *)
(* leaves it waiting for anything else.  That exception is not what the    *)
(* comment before wait_for_child_catch_sig has ("If the child resists      *)
(* dying, it will SIGKILL it!"): su, asked to end, has neither the shell's *)
(* uid nor CAP_KILL any more, and waits.                                   *)
SuEnds == <>(su.pc \in {"exit", "killed"}) \/ <>[](shell.st = "running")
=============================================================================
