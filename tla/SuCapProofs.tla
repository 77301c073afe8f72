----------------------------- MODULE SuCapProofs -----------------------------
(***************************************************************************)
(* Proofs about SuCap, for any users, configurations, arguments of the     *)
(* module and credentials that su may be started with.                     *)
(***************************************************************************)
EXTENDS SuCap, CapProcProofs

-----------------------------------------------------------------------------
(* The invariant                                                           *)

SuFields == {"pc", "login", "user", "invoked_uid", "all", "retval", "err", "status", "auth",
             "acct", "cred", "session", "rule", "applied", "tty", "terminal_uid", "alert",
             "guarded", "reaped", "sig", "by", "at"}

(* The points of main: inside pam_setcred, with the session open, and on   *)
(* the way out.                                                            *)
Setcred == {"setcred_iab", "setcred_ok", "setcred_ignore"}
Given == {"setcred_ok", "setcred_ignore", "terminal", "session", "launch"}
Monitors == {"hide", "waiting", "final_wait"}
Opened == {"launch", "launching", "monitor", "close_session"} \cup Monitors
Granted == {"setuid", "setuid_end", "pam_setcred", "terminal", "session"} \cup Setcred \cup Opened
Leaving == {"auth_exit", "pam_end", "modes", "exit"}
SuPoints == {"init", "unkillable", "unkillable_end", "authenticate", "accounting", "credentials",
             "delete_cred", "killed"} \cup Granted \cup Leaving

(* What the PAM stacks have said, and what was done about it, by where su  *)
(* is.                                                                     *)
Progress ==
    /\ DOMAIN su = SuFields /\ su.pc \in SuPoints
    /\ su.pc \in {"accounting", "credentials"} \cup Granted => su.auth
    /\ su.pc \in {"credentials"} \cup Granted => su.acct
    /\ su.pc \in Granted => ~ Refused(su.user)
    /\ su.pc \in Opened => su.session = "open"
    /\ su.session = "open" => su.pc \in Opened \cup {"killed"}
    /\ su.session = "closed" => su.pc \in Leaving \cup {"delete_cred", "killed"}
    /\ su.pc \in {"terminal", "session"} \cup Opened => su.cred = "set"
    /\ su.cred = "set" => \/ su.pc \in {"terminal", "session", "delete_cred", "killed"} \cup Opened
                          \/ su.login /\ su.err

(* A shell that has not ended has a monitor that waits for it, or one that *)
(* was killed.                                                             *)
Alive == {"callback", "exec", "running"}
Following ==
    /\ DOMAIN shell = {"st", "code"}
    /\ shell.st \in Alive \cup {"none", "failed", "exited"}
    /\ shell.st \in Alive =>
          /\ su.auth /\ su.acct /\ su.session = "open" /\ su.cred = "set" /\ ~ Refused(su.user)
          /\ su.pc \in {"launching", "monitor", "killed"} \cup Monitors
    /\ shell.st # "none" =>
          su.pc \in {"launching", "monitor", "close_session", "delete_cred", "killed"}
                    \cup Monitors \cup Leaving
    /\ su.status = 0 => shell.st = "exited"

(* The terminal is its owner's again, unless terminal_uid says whose it    *)
(* was.                                                                    *)
Terminal ==
    /\ su.invoked_uid \in Uids
    /\ su.alert => su.pc \in Leaving \cup {"killed"}
    /\ su.terminal_uid = None => su.tty = su.invoked_uid \/ su.alert
    /\ su.terminal_uid # None =>
          /\ su.terminal_uid = su.invoked_uid
          /\ su.pc \in {"session", "delete_cred", "killed"} \cup Opened

Hidden == {"authenticate", "accounting", "credentials", "delete_cred", "auth_exit"} \cup Granted

ControlInv == Progress /\ Following /\ Terminal

(* Whose the status is, from where on SIGHUP is blocked or caught, and     *)
(* which signal killed su where.                                           *)
Exposed == {"unkillable", "unkillable_end", "pam_end", "modes"}
Signals ==
    /\ su.status = 0 => shell.code = 0 \/ su.reaped
    /\ su.pc \in {"waiting", "final_wait"} => su.guarded
    /\ su.pc = "close_session" \/ su.session = "closed" => su.guarded \/ su.status = 4
    /\ su.sig # "none" => su.pc = "killed"
    /\ su.sig = "SIGKILL" /\ su.by \notin Target \cup {TEMP_UID} => su.at \in Exposed
    /\ su.sig = "SIGHUP" => /\ su.at \notin {"waiting", "final_wait"}
                            /\ su.session = "closed" => su.status = 4

(* The call a process is in, by where su and the shell are.                *)
Calling == {"unkillable_end", "setuid_end", "setcred_iab", "waiting", "pam_end", "killed"}
Plain(g) == g.clean /\ g.op \in {"none", "setuid", "iab_set_proc"}
From(g, arg) == /\ g.op = "iab_set_proc" /\ g.arg = arg
                /\ g.start.I = {} /\ g.start.A = {}
CallOf(p, g) ==
    /\ Plain(g)
    /\ p \notin Calling => g.pc = "done"
    /\ p \in {"unkillable_end", "waiting"} => g.op = "setuid" /\ g.arg = TEMP_UID
    /\ p = "setuid_end" => g.op = "setuid" /\ g.arg = entry.uid
    /\ p = "pam_end" => g.op = "setuid"
    /\ p = "setcred_iab" => /\ su.rule[1] = "iab" /\ From(g, su.rule[2])
                            /\ g.start.P = su.all.P
ShellCall(st, g) ==
    /\ Plain(g)
    /\ st \in {"none", "callback"} => g = Blank
    /\ st # "exec" => g.pc = "done"
CallIs ==
    nopriv = {} /\ CallOf(su.pc, frame["su"]) /\ ShellCall(shell.st, frame["shell"])

(* Whose the process su is, and what is left to it. *)
Uided == {"pam_setcred"} \cup Setcred \cup Given
Gided == {"setuid", "setuid_end"} \cup Uided
Holding == {"pam_setcred", "launching", "monitor"} \cup Given

IdentityOf(p, cr) ==
    /\ p \in {"init", "unkillable"} => cr.uid = su.invoked_uid
    /\ p \in Hidden => cr.uid \in Target \cup {TEMP_UID}
    /\ p \in Gided => cr.gid = entry.gid /\ cr.groups = entry.gid
    /\ p \in Uided => cr.uid = entry.uid
Identity ==
    /\ IdentityOf(su.pc, k)
    /\ shell.st \in Alive =>
          LET s == creds["shell"]
          IN s.uid = entry.uid /\ s.gid = entry.gid /\ s.groups = entry.gid

HoldingsOf(p, cr, w) ==
    /\ p \in Holding => cr.P = su.all.P
    /\ p = "close_session" => cr.I = {} \/ cr.P = su.all.P
    /\ p \in Monitors \/ su.session = "closed" => cr.I = {} /\ w.I = {}
Holdings ==
    /\ su.all \in CapT /\ su.all.E = su.all.P /\ su.all.I = {}
    /\ HoldingsOf(su.pc, k, frame["su"].working)

(* The tuple of the rule, and who has it. *)
Want == IF su.rule[1] = "iab" THEN su.rule[2] ELSE [i |-> {}, a |-> {}, nb |-> {}]
Bounded(cr) == cr.I \subseteq Want.i /\ cr.A \subseteq Want.a
Exact(cr) == cr.I = Want.i /\ cr.A = Want.a /\ Want.nb \cap cr.B = {}
Has(cr, kept) ==
    /\ Bounded(cr)
    /\ su.applied => Exact(cr) /\ kept = Nothing
    /\ kept # Nothing => su.rule[1] = "iab" /\ kept = su.rule /\ cr.I = {}

TuplesOf(p, cr, kept) ==
    /\ p \in BeforeSetcred \cup {"setcred_iab"} => kept = Nothing /\ ~ su.applied
    /\ p = "pam_setcred" => cr.I = {} /\ cr.A = {}
    /\ p \in Given => Has(cr, kept)
    /\ p \in {"setcred_ok", "setcred_ignore"} => ~ su.applied
ShellTuples(st, cr, kept, g) ==
    /\ st = "callback" => Has(cr, kept)
    /\ st = "exec" => \/ g.op = "none" /\ Has(cr, Nothing)
                      \/ su.rule[1] = "iab" /\ From(g, su.rule[2]) /\ ~ su.applied
    /\ st \in {"running", "exited"} =>
          /\ Bounded(cr)
          /\ su.applied \/ (g.op = "iab_set_proc" /\ g.ret = 0) => Exact(cr)
Tuples ==
    /\ conf \in Configs /\ pcs \in Arguments /\ IsRule(su.rule)
    /\ DOMAIN data = Procs
    /\ TuplesOf(su.pc, k, data["su"])
    /\ ShellTuples(shell.st, creds["shell"], data["shell"], frame["shell"])

SuInv == /\ CapInv /\ Tracking /\ ControlInv /\ Signals
         /\ CallIs /\ Identity /\ Holdings /\ Tuples

-----------------------------------------------------------------------------
(* What the calls of libcap do to the two processes                        *)

Both == {"su", "shell"}

(* Nothing of the process u has changed. *)
Still(u) == frame'[u] = frame[u] /\ creds'[u] = creds[u]
StillOthers(t) == \A u \in Both \ {t} : Still(u)

(* su and the shell are two processes of one thread each. *)
LEMMA Processes ==
  ASSUME CapInv
  PROVE  /\ Threads = Both /\ Procs = Both
         /\ \A t \in Both : /\ Home[t] = t /\ c(t) = creds[t] /\ f(t) = frame[t]
                            /\ CredOK(creds[t]) /\ FrameOK(frame[t])
<1>1. Threads = Both /\ Procs = Both /\ \A t \in Both : Home[t] = t
  BY SuAssumption DEF Both
<1>2. ASSUME NEW t \in Both PROVE c(t) = creds[t] /\ f(t) = frame[t]
  BY <1>1 DEF c, f
<1>3. ASSUME NEW t \in Both PROVE CredOK(creds[t]) /\ FrameOK(frame[t])
  <2>1. CredOK(c(t)) /\ FrameOK(f(t)) BY <1>1, Here
  <2> QED BY <1>2, <2>1
<1> QED BY <1>1, <1>2, <1>3

(* Each has its own credentials. *)
LEMMA OwnProcess ==
  ASSUME CapInv, NEW t \in Both, NEW g, NEW cr, Becomes(t, g, cr), g.op # "set_mode"
  PROVE  /\ frame'[t] = g /\ creds'[t] = cr /\ StillOthers(t) /\ nopriv' = nopriv
         /\ DOMAIN frame' = Both
<1>1. Threads = Both /\ Procs = Both /\ \A u \in Both : Home[u] = u BY Processes
<1>2. DOMAIN creds = Both BY <1>1 DEF CapInv, TypeOK
<1> DEFINE h(u) == [f(u) EXCEPT !.clean = FALSE, !.start = NoCaps]
           other(u) == IF Home[u] = Home[t] /\ cr # c(t) THEN h(u) ELSE f(u)
           won == g.pc = "done" /\ g.op = "set_mode" /\ g.arg = "NOPRIV" /\ g.ret = 0
<1>3. /\ creds' = [creds EXCEPT ![Home[t]] = cr]
      /\ frame' = [u \in Threads |-> IF u = t THEN g ELSE other(u)]
      /\ nopriv' = IF won THEN nopriv \cup {Home[t]} ELSE nopriv
  BY Zenon DEF Becomes
<1>4. \A u \in Both \ {t} : other(u) = f(u) BY <1>1
<1>5. ~ won OBVIOUS
<1> HIDE DEF other, won
<1>6. frame'[t] = g /\ creds'[t] = cr /\ DOMAIN frame' = Both BY <1>1, <1>2, <1>3
<1>7. ASSUME NEW u \in Both \ {t} PROVE Still(u)
  <2>1. frame'[u] = f(u) BY <1>1, <1>3, <1>4
  <2>2. creds'[u] = creds[u] BY <1>1, <1>2, <1>3
  <2> QED BY <2>1, <2>2 DEF f, Still
<1>8. nopriv' = nopriv BY <1>3, <1>5
<1> QED BY <1>6, <1>7, <1>8 DEF StillOthers

(* No call of libcap. *)
LEMMA BlankOK == FrameOK(Blank) /\ DOMAIN Blank # {} /\ Plain(Blank) /\ Blank.pc = "done"
                 /\ Blank.op = "none" /\ Blank.ret = 0 /\ Blank.working = NoCaps
  BY CapProcAssumption
  DEF FrameOK, Blank, Points, Ops, CapT, NoCaps, Passes, Clearing, Plain

(* A system call of su's own. *)
LEMMA SetsDoes ==
  ASSUME CapInv, Tracking, NEW t \in Both, NEW w, Sets(t, w), Legal(creds[t], w)
  PROVE  /\ CapInv' /\ Tracking'
         /\ frame'[t] = Blank /\ creds'[t] = w /\ StillOthers(t) /\ nopriv' = nopriv
<1>1. t \in Threads /\ c(t) = creds[t] BY Processes
<1>2. Becomes(t, Blank, w) BY DEF Sets
<1>3. ~ NowNopriv(Blank) /\ Blank.op = "none" BY BlankOK DEF NowNopriv
<1>4. CapInv' BY <1>1, <1>2, <1>3, BlankOK, BecomesInv
<1>5. Tracks(Blank, w) BY <1>3 DEF Tracks
<1>6. Tracking' BY <1>1, <1>2, <1>5, BecomesTracks
<1>7. /\ frame'[t] = Blank /\ creds'[t] = w /\ StillOthers(t) /\ nopriv' = nopriv
  BY <1>2, <1>3, OwnProcess
<1> QED BY <1>4, <1>6, <1>7

(* A call of libcap begins. *)
Started(g, op, arg, cr) == /\ g.pc = "get_proc" /\ g.op = op /\ g.arg = arg /\ g.start = cr
                           /\ g.clean /\ g.working = NoCaps /\ g.ret = 0

(* It starts with what the process has. *)
LEMMA BeginDoes ==
  ASSUME CapInv, Tracking, NEW t \in Both, NEW op \in {"setuid", "iab_set_proc"},
         NEW arg \in Args[op], Begin(t, op, arg)
  PROVE  /\ CapInv' /\ Tracking'
         /\ Started(frame'[t], op, arg, creds[t]) /\ creds'[t] = creds[t]
         /\ StillOthers(t) /\ nopriv' = nopriv
<1>1. t \in Threads /\ c(t) = creds[t] /\ CredOK(c(t)) /\ Legal(c(t), c(t)) BY Processes, Here
<1> DEFINE m == f(t).n + 1
           h == [Blank EXCEPT !.op = op, !.arg = arg, !.n = m, !.start = c(t)]
           g == [h EXCEPT !.pc = "get_proc", !.n = 0]
<1>2. Becomes(t, g, c(t)) BY DEF Begin, Fresh
<1>3. /\ DOMAIN g = DOMAIN Blank /\ g.pc = "get_proc" /\ g.op = op /\ g.arg = arg
      /\ g.start = c(t) /\ g.clean /\ g.n = 0 /\ g.working = NoCaps /\ g.ret = 0
  <2> HIDE DEF m
  <2> QED BY DEF Blank
<1> HIDE DEF g
<1>4. FrameOK(g)
  <2>1. /\ g.pc \in Points /\ g.op \in Ops /\ g.ret \in {0, -1} /\ g.n \in 0 .. MaxCalls
        /\ g.working \in CapT /\ g.clean \in BOOLEAN
    BY <1>3, CapProcAssumption DEF Points, Ops, CapT, NoCaps
  <2>2. g.op \in DOMAIN Args /\ g.arg \in Args[g.op] BY <1>3 DEF Args
  <2>3. Passes(g.pc, g.op) /\ Clearing(g.pc, g.op, g.arg, g.ret, g.working)
    BY <1>3 DEF Passes, Clearing, Gives, NeedsOf
  <2> QED BY <1>3, <2>1, <2>2, <2>3 DEF FrameOK
<1>5. CapInv' BY <1>1, <1>2, <1>3, <1>4, BecomesInv DEF NowNopriv
<1>6. Tracks(g, c(t))
  BY <1>1, <1>3 DEF Tracks, Follows, UidFollows, IabFollows
<1>7. Tracking' BY <1>1, <1>2, <1>6, BecomesTracks
<1>8. /\ frame'[t] = g /\ creds'[t] = c(t) /\ StillOthers(t) /\ nopriv' = nopriv
  BY <1>2, <1>3, OwnProcess
<1> QED BY <1>1, <1>3, <1>5, <1>7, <1>8 DEF Started

(* What of the credentials s the calls of libcap that su makes leave       *)
(* alone: cap_setuid changes no other id than the uid, and does not bring  *)
(* back an Inheritable flag that is empty.                                 *)
UidKin(s, cr, arg) == cr.uid \in {s.uid, arg} /\ cr.gid = s.gid /\ cr.groups = s.groups
ShedKin(s, cr, w, v) == s.I = {} /\ w.I = {} => cr.I = {} /\ v.I = {}

(* capset(2) *)
LEMMA CapsetKeeps ==
  ASSUME NEW cr, CredOK(cr), NEW w \in CapT
  PROVE  LET l == Capset(cr, w) IN
         /\ CredOK(l)
         /\ l.uid = cr.uid /\ l.gid = cr.gid /\ l.groups = cr.groups
         /\ l.B = cr.B /\ l.sec = cr.sec
         /\ l.I \in {cr.I, w.I} /\ l.P \in {cr.P, w.P} /\ l.A \subseteq cr.A
         /\ CapsetOk(cr, w) => l.P = w.P /\ l.I = w.I /\ l.E = w.E /\ l.A = cr.A \cap w.P \cap w.I
<1> DEFINE l == Capset(cr, w)
<1>1. CASE ~ CapsetOk(cr, w) BY <1>1 DEF Capset
<1>2. CASE CapsetOk(cr, w)
  <2>1. /\ CredOK(l)
        /\ l.P = w.P /\ l.E = w.E /\ l.I = w.I /\ l.A = cr.A \cap w.P \cap w.I
        /\ l.B = cr.B /\ l.sec = cr.sec /\ l.uid = cr.uid
    BY <1>2, CapsetSets
  <2> DEFINE a == cr.A \cap w.P \cap w.I
  <2>2. l = [cr EXCEPT !.P = w.P, !.E = w.E, !.I = w.I, !.A = a] BY <1>2 DEF Capset, CredOK, Cred
  <2>3. l.gid = cr.gid /\ l.groups = cr.groups
    <3> HIDE DEF a, l
    <3> QED BY <2>2 DEF CredOK, Cred
  <2>4. l.A \subseteq cr.A BY <2>1
  <2> HIDE DEF l, a
  <2> QED BY <1>2, <2>1, <2>3, <2>4 DEF l
<1> QED BY <1>1, <1>2

(* prctl(PR_SET_KEEPCAPS) *)
LEMMA KeepCapsKeeps ==
  ASSUME NEW cr, CredOK(cr), NEW on \in BOOLEAN
  PROVE  LET l == SetKeepCaps(cr, on) IN
         /\ CredOK(l)
         /\ l.uid = cr.uid /\ l.gid = cr.gid /\ l.groups = cr.groups
         /\ l.P = cr.P /\ l.I = cr.I /\ l.A = cr.A /\ l.B = cr.B /\ l.E = cr.E
<1> DEFINE l == SetKeepCaps(cr, on)
           b == IF on THEN cr.sec \cup {"KEEP_CAPS"} ELSE cr.sec \ {"KEEP_CAPS"}
<1>1. CredOK(l) BY KeepCapsLegal DEF Legal
<1>2. l = cr \/ l = [cr EXCEPT !.sec = b] BY DEF SetKeepCaps, CredOK, Cred
<1> HIDE DEF l, b
<1>3. /\ l.uid = cr.uid /\ l.gid = cr.gid /\ l.groups = cr.groups
      /\ l.P = cr.P /\ l.I = cr.I /\ l.A = cr.A /\ l.B = cr.B /\ l.E = cr.E
  BY <1>2 DEF CredOK, Cred
<1> QED BY <1>1, <1>3 DEF l

(* setuid(2) *)
LEMMA SetuidKeeps ==
  ASSUME NEW cr, CredOK(cr), NEW u \in Uids
  PROVE  LET l == Setuid(cr, u) IN
         l.uid \in {cr.uid, u} /\ l.gid = cr.gid /\ l.groups = cr.groups /\ l.I = cr.I
<1> DEFINE l == Setuid(cr, u)
           fx == Fixup(cr, u)
           p == IF "KEEP_CAPS" \in cr.sec THEN cr.P ELSE {}
<1>1. \/ fx = cr
      \/ fx = [cr EXCEPT !.P = p, !.E = {}, !.A = {}]
      \/ fx = [cr EXCEPT !.E = cr.P]
  BY DEF Fixup, CredOK, Cred
<1> HIDE DEF fx, p
<1>2. /\ DOMAIN fx = DOMAIN cr /\ fx.gid = cr.gid /\ fx.groups = cr.groups /\ fx.I = cr.I
  BY <1>1 DEF CredOK, Cred
<1>3. l = cr \/ l = [fx EXCEPT !.uid = u] BY DEF Setuid, fx
<1> HIDE DEF l
<1>4. l.uid \in {cr.uid, u} /\ l.gid = cr.gid /\ l.groups = cr.groups /\ l.I = cr.I
  BY <1>2, <1>3 DEF CredOK, Cred
<1> QED BY <1>4 DEF l

(* A step of cap_setuid. *)
LEMMA UidStep ==
  ASSUME CapInv, NEW t \in Both, Step(t), frame[t].op = "setuid"
  PROVE  /\ UidKin(creds[t], creds'[t], frame[t].arg)
         /\ ShedKin(creds[t], creds'[t], frame[t].working, frame'[t].working)
<1> DEFINE g == frame[t]
           cr == creds[t]
<1>1. /\ t \in Threads /\ c(t) = cr /\ f(t) = g /\ CredOK(cr) /\ FrameOK(g)
      /\ DOMAIN g = DOMAIN Blank /\ g.working \in CapT /\ g.arg \in Uids
      /\ g.op = "setuid" /\ cap_get_proc(cr) \in CapT
  <2>1. t \in Threads /\ c(t) = cr /\ f(t) = g /\ CredOK(cr) /\ FrameOK(g) BY Processes
  <2>2. cap_get_proc(c(t)) \in CapT BY <2>1, Here
  <2>3. g.arg \in Args["setuid"] BY <2>1 DEF FrameOK
  <2> QED BY <2>1, <2>2, <2>3 DEF FrameOK, Args
<1> HIDE DEF g, cr
<1>2. UidKin(cr, cr, g.arg) /\ \A w : ShedKin(cr, cr, w, w) BY DEF UidKin, ShedKin
<1>3. ASSUME NEW h, NEW l, Becomes(t, h, l), h.op = "setuid",
             UidKin(cr, l, g.arg), ShedKin(cr, l, g.working, h.working)
      PROVE  UidKin(cr, creds'[t], g.arg) /\ ShedKin(cr, creds'[t], g.working, frame'[t].working)
  BY <1>3, OwnProcess
<1>4. /\ \A p : [g EXCEPT !.pc = p].op = "setuid" /\ [g EXCEPT !.pc = p].working = g.working
      /\ \A p, r : /\ [g EXCEPT !.pc = p, !.ret = r].op = "setuid"
                   /\ [g EXCEPT !.pc = p, !.ret = r].working = g.working
      /\ \A p, w : /\ [g EXCEPT !.working = w, !.pc = p].op = "setuid"
                   /\ [g EXCEPT !.working = w, !.pc = p].working = w
      /\ \A p, r, w : /\ [g EXCEPT !.pc = p, !.ret = r, !.working = w].op = "setuid"
                      /\ [g EXCEPT !.pc = p, !.ret = r, !.working = w].working = w
  BY <1>1 DEF Blank
<1>5. CASE GetProcFails(t)
  <2> DEFINE h == [g EXCEPT !.pc = "done", !.ret = -1]
  <2>1. Becomes(t, h, cr) BY <1>1, <1>5 DEF GetProcFails
  <2>2. h.op = "setuid" /\ h.working = g.working BY <1>4
  <2> HIDE DEF h
  <2>3. UidKin(cr, creds'[t], g.arg) /\ ShedKin(cr, creds'[t], g.working, frame'[t].working)
    BY <1>2, <1>3, <2>1, <2>2
  <2> QED BY <2>3 DEF g, cr
<1>6. CASE GetProc(t)
  <2> DEFINE w == Raised(t)
  <2>1. Becomes(t, [g EXCEPT !.working = w, !.pc = "keep"], cr) BY <1>1, <1>6 DEF GetProc
  <2>2. w.I = cr.I BY <1>1 DEF Raised, cap_get_proc
  <2> HIDE DEF w
  <2>3. ShedKin(cr, cr, g.working, w) BY <2>2 DEF ShedKin
  <2>4. UidKin(cr, creds'[t], g.arg) /\ ShedKin(cr, creds'[t], g.working, frame'[t].working)
    BY <1>2, <1>3, <1>4, <2>1, <2>3
  <2> QED BY <2>4 DEF g, cr
<1>7. CASE Raise(t)
  <2>1. CASE CapsetOk(cr, g.working)
    <3> DEFINE p == AfterRaise(g.op, g.arg, cr)
               r == Ret(g.op = "set_mode" => g.arg # "UNCERTAIN")
               l == Capset(cr, g.working)
    <3>0. Disinherited(t) = g.working BY <1>1 DEF Disinherited
    <3>1. Becomes(t, [g EXCEPT !.pc = p, !.ret = r, !.working = g.working], l)
      BY <1>1, <1>7, <2>1, <3>0 DEF Raise
    <3>2. UidKin(cr, l, g.arg) /\ ShedKin(cr, l, g.working, g.working)
      BY <1>1, CapsetKeeps DEF UidKin, ShedKin
    <3> HIDE DEF p, r, l
    <3> DEFINE h == [g EXCEPT !.pc = p, !.ret = r, !.working = g.working]
    <3>3. h.op = "setuid" /\ h.working = g.working BY <1>4
    <3>4. Becomes(t, h, l) BY <3>1
    <3> HIDE DEF h
    <3>5. UidKin(cr, creds'[t], g.arg) /\ ShedKin(cr, creds'[t], g.working, frame'[t].working)
      BY <1>3, <3>2, <3>3, <3>4
    <3> QED BY <3>5 DEF g, cr
  <2>2. CASE ~ CapsetOk(cr, g.working)
    <3> DEFINE p == AfterFailedRaise(g.op)
    <3>1. Becomes(t, [g EXCEPT !.pc = p, !.ret = -1], cr) BY <1>1, <1>7, <2>2 DEF Raise
    <3> DEFINE h == [g EXCEPT !.pc = p, !.ret = -1]
    <3>2. h.op = "setuid" /\ h.working = g.working BY <1>4
    <3>3. Becomes(t, h, cr) BY <3>1
    <3> HIDE DEF p, h
    <3>4. UidKin(cr, creds'[t], g.arg) /\ ShedKin(cr, creds'[t], g.working, frame'[t].working)
      BY <1>2, <1>3, <3>2, <3>3
    <3> QED BY <3>4 DEF g, cr
  <2> QED BY <2>1, <2>2
<1>8. CASE Lower(t)
  <2> DEFINE w == [g.working EXCEPT !.E = {}]
             l == Capset(cr, w)
  <2>1. Becomes(t, [g EXCEPT !.pc = "done", !.ret = g.ret], l)
    BY <1>1, <1>8 DEF Lower, Blank
  <2>2. w \in CapT /\ w.I = g.working.I BY <1>1 DEF CapT
  <2> HIDE DEF w
  <2>3. UidKin(cr, l, g.arg) /\ ShedKin(cr, l, g.working, g.working)
    BY SMTT(30), <1>1, <2>2, CapsetKeeps DEF UidKin, ShedKin
  <2> HIDE DEF l
  <2> DEFINE h == [g EXCEPT !.pc = "done", !.ret = g.ret]
  <2>4. h.op = "setuid" /\ h.working = g.working BY <1>4
  <2>5. Becomes(t, h, l) BY <2>1
  <2> HIDE DEF h
  <2>6. UidKin(cr, creds'[t], g.arg) /\ ShedKin(cr, creds'[t], g.working, frame'[t].working)
    BY <1>3, <2>3, <2>4, <2>5
  <2> QED BY <2>6 DEF g, cr
<1>9. CASE KeepCaps(t) \/ UnkeepCaps(t)
  <2>1. PICK on \in BOOLEAN : \E p : Becomes(t, [g EXCEPT !.pc = p], SetKeepCaps(cr, on))
    BY <1>1, <1>9 DEF KeepCaps, UnkeepCaps
  <2> DEFINE l == SetKeepCaps(cr, on)
  <2>2. UidKin(cr, l, g.arg) /\ ShedKin(cr, l, g.working, g.working)
    BY <1>1, KeepCapsKeeps DEF UidKin, ShedKin
  <2> HIDE DEF l
  <2>3. PICK p : Becomes(t, [g EXCEPT !.pc = p], l) BY <2>1 DEF l
  <2>4. UidKin(cr, creds'[t], g.arg) /\ ShedKin(cr, creds'[t], g.working, frame'[t].working)
    BY <1>3, <1>4, <2>2, <2>3
  <2> QED BY <2>4 DEF g, cr
<1>10. CASE DoSetuid(t)
  <2> DEFINE l == Setuid(cr, g.arg)
             r == Ret(SetuidOk(cr, g.arg))
  <2>1. Becomes(t, [g EXCEPT !.pc = "unkeep", !.ret = r], l) BY <1>1, <1>10 DEF DoSetuid
  <2>2. UidKin(cr, l, g.arg) /\ ShedKin(cr, l, g.working, g.working)
    BY <1>1, SetuidKeeps DEF UidKin, ShedKin
  <2> HIDE DEF l, r
  <2>3. UidKin(cr, creds'[t], g.arg) /\ ShedKin(cr, creds'[t], g.working, frame'[t].working)
    BY <1>3, <1>4, <2>1, <2>2
  <2> QED BY <2>3 DEF g, cr
<1>11. Passes(g.pc, g.op) BY <1>1 DEF FrameOK
<1>12. \/ GetProcFails(t) \/ GetProc(t) \/ Raise(t) \/ Lower(t) \/ KeepCaps(t)
       \/ DoSetuid(t) \/ UnkeepCaps(t)
  BY <1>1, <1>11 DEF Step, DoSetgid, DoSetgroups, DoChroot, ReadAmbient, ResetAmbient,
     SetModeSecbits, DropBounds, NoNewPrivs, IabGetProc, IabSet, IabVector, IabVectorsEnd,
     IabRestore, At, Passes
<1> QED BY <1>5, <1>6, <1>7, <1>8, <1>9, <1>10, <1>12

(* A step of the call that t is making. *)
LEMMA StepDoes ==
  ASSUME CapInv, Tracking, NEW t \in Both, Step(t),
         frame[t].op \in {"none", "setuid", "iab_set_proc"}
  PROVE  /\ CapInv' /\ Tracking'
         /\ frame[t].pc # "done" /\ SameCall(frame'[t], frame[t])
         /\ frame[t].op = "setuid" =>
               /\ UidKin(creds[t], creds'[t], frame[t].arg)
               /\ ShedKin(creds[t], creds'[t], frame[t].working, frame'[t].working)
         /\ frame[t].op = "iab_set_proc" => Kin(creds[t], creds'[t])
         /\ frame[t].op # "none"
         /\ StillOthers(t) /\ nopriv' = nopriv
<1>1. t \in Threads /\ c(t) = creds[t] /\ f(t) = frame[t] /\ FrameOK(frame[t]) BY Processes
<1>2. CapInv' /\ Tracking'
  <2>1. [Next]_vars BY <1>1 DEF Next
  <2> QED BY <2>1, InvNext, TrackNext
<1>3. f(t).pc # "done" /\ \E g, cr : Shape(t, g, cr) BY <1>1, StepShape
<1>4. PICK g, cr : Shape(t, g, cr) BY <1>3
<1>5. Becomes(t, g, cr) /\ SameCall(g, frame[t]) BY <1>1, <1>4 DEF Shape
<1>6. g.op # "set_mode" BY <1>5 DEF SameCall
<1>7. frame'[t] = g /\ creds'[t] = cr /\ StillOthers(t) /\ nopriv' = nopriv
  BY <1>5, <1>6, OwnProcess
<1>8. frame[t].op = "iab_set_proc" => Kin(creds[t], creds'[t])
  BY <1>1, <1>4, <1>7 DEF Shape
<1>9. frame[t].op # "none"
  <2>1. Passes(frame[t].pc, frame[t].op) /\ frame[t].pc \in Points BY <1>1 DEF FrameOK
  <2>2. \/ frame[t].pc \notin {"setgid", "setgroups", "chroot"}
        \/ frame[t].op \in {"setgroups", "chroot"}
    BY <1>1 DEF Step, GetProcFails, GetProc, Raise, Lower, KeepCaps, DoSetuid, UnkeepCaps, DoSetgid,
         DoSetgroups, DoChroot, ReadAmbient, ResetAmbient, SetModeSecbits, DropBounds,
         NoNewPrivs, IabGetProc, IabSet, IabVector, IabVectorsEnd, IabRestore, At
  <2> QED BY <1>1, <1>3, <2>1, <2>2 DEF Passes, Points, Gives, NeedsOf
<1> QED BY <1>1, <1>2, <1>3, <1>5, <1>7, <1>8, <1>9, UidStep

-----------------------------------------------------------------------------
(* Where su and the shell are                                              *)

(* Neither has moved. *)
LEMMA ControlSame == ASSUME ControlInv, su' = su, shell' = shell PROVE ControlInv'
  BY DEF ControlInv, Progress, Following, Terminal

(* su goes to q with these values of err, status, auth, acct, cred,        *)
(* session, tty, terminal_uid and alert; nothing else changes.             *)
SuGoes(q, er, st, au, ac, cd, se, tt, tu, al) ==
    /\ DOMAIN su' = SuFields /\ su'.pc = q
    /\ su'.err = er /\ su'.status = st /\ su'.auth = au /\ su'.acct = ac /\ su'.cred = cd
    /\ su'.session = se /\ su'.tty = tt /\ su'.terminal_uid = tu /\ su'.alert = al
    /\ su'.login = su.login /\ su'.user = su.user /\ su'.invoked_uid = su.invoked_uid
    /\ su'.all = su.all

(* Nor does what is known of the rule. *)
RuleStays == su'.rule = su.rule /\ su'.applied = su.applied

(* The points as they were, but for q and err. *)
Just(q, er) == SuGoes(q, er, su.status, su.auth, su.acct, su.cred, su.session, su.tty,
                      su.terminal_uid, su.alert)

(* The moves of main by name. *)
LEMMA SuUpdates ==
  ASSUME Progress
  PROVE  /\ \A q : Goto(q) => Just(q, su.err) /\ RuleStays
         /\ \A q : ErrTo(q) => Just(q, TRUE) /\ RuleStays
         /\ PamFails => Just("auth_exit", su.err) /\ RuleStays
         /\ \A st : Exit(st) =>
               /\ SuGoes("exit", su.err, st, su.auth, su.acct, su.cred, su.session, su.tty,
                         su.terminal_uid, su.alert)
               /\ RuleStays
<1> USE DEF Progress, SuFields, Just, SuGoes, RuleStays
<1>1. ASSUME NEW q, Goto(q) PROVE Just(q, su.err) /\ RuleStays BY <1>1 DEF Goto
<1>2. ASSUME NEW q, ErrTo(q) PROVE Just(q, TRUE) /\ RuleStays BY <1>2 DEF ErrTo
<1>3. ASSUME PamFails PROVE Just("auth_exit", su.err) /\ RuleStays BY <1>3 DEF PamFails
<1>4. ASSUME NEW st, Exit(st)
      PROVE  /\ SuGoes("exit", su.err, st, su.auth, su.acct, su.cred, su.session, su.tty,
                       su.terminal_uid, su.alert)
             /\ RuleStays
  BY <1>4 DEF Exit
<1> QED BY <1>1, <1>2, <1>3, <1>4

(* What a move of su must respect. *)
Respects(q, er, st, au, ac, cd, se, tt, tu, al) ==
    /\ q \in SuPoints \ {"killed"}
    /\ q \in {"accounting", "credentials"} \cup Granted => au
    /\ q \in {"credentials"} \cup Granted => ac
    /\ q \in Granted => ~ Refused(su.user)
    /\ q \in Opened <=> se = "open"
    /\ se = "closed" => q \in Leaving \cup {"delete_cred"}
    /\ q \in {"terminal", "session"} \cup Opened => cd = "set"
    /\ cd = "set" => \/ q \in {"terminal", "session", "delete_cred"} \cup Opened
                     \/ su.login /\ er
    /\ shell.st \in Alive => q \in {"launching", "monitor"} \cup Monitors
    /\ shell.st # "none" => q \in {"launching", "monitor", "close_session", "delete_cred"}
                                  \cup Monitors \cup Leaving
    /\ st = 0 => shell.st = "exited"
    /\ al => q \in Leaving
    /\ tu = None => tt = su.invoked_uid \/ al
    /\ tu # None => tu = su.invoked_uid /\ q \in {"session", "delete_cred"} \cup Opened

(* A move that respects it keeps the points of su and the shell in step. *)
LEMMA SuGoesOn ==
  ASSUME ControlInv, shell' = shell, NEW q, NEW er, NEW st, NEW au, NEW ac, NEW cd,
         NEW se, NEW tt, NEW tu, NEW al, SuGoes(q, er, st, au, ac, cd, se, tt, tu, al),
         Respects(q, er, st, au, ac, cd, se, tt, tu, al)
  PROVE  ControlInv'
<1> USE DEF ControlInv, SuGoes, Respects
<1>1. Progress'
  <2>1. su'.pc \in SuPoints /\ su'.pc # "killed" /\ DOMAIN su' = SuFields OBVIOUS
  <2>2. su'.pc \in {"accounting", "credentials"} \cup Granted => su'.auth OBVIOUS
  <2>3. su'.pc \in {"credentials"} \cup Granted => su'.acct OBVIOUS
  <2>4. su'.pc \in Granted => ~ Refused(su'.user) OBVIOUS
  <2>5. /\ su'.pc \in Opened <=> su'.session = "open"
        /\ su'.session = "closed" => su'.pc \in Leaving \cup {"delete_cred"}
        /\ su'.pc \in {"terminal", "session"} \cup Opened => su'.cred = "set"
    OBVIOUS
  <2>6. su'.cred = "set" => \/ su'.pc \in {"terminal", "session", "delete_cred"} \cup Opened
                            \/ su'.login /\ su'.err
    OBVIOUS
  <2> HIDE DEF SuGoes, Respects
  <2> QED BY <2>1, <2>2, <2>3, <2>4, <2>5, <2>6 DEF Progress
<1>2. Following'
  <2>0. q \in {"launching", "monitor"} \cup Monitors => q \in Granted /\ q \in Opened
    BY DEF Granted, Opened
  <2>1. q \in {"launching", "monitor"} \cup Monitors =>
            au /\ ac /\ ~ Refused(su.user) /\ cd = "set" /\ se = "open"
    BY <2>0
  <2> QED BY <2>1 DEF Following
<1>3. Terminal' BY DEF Terminal
<1> QED BY <1>1, <1>2, <1>3

(* The moves of su that change nothing but err: onwards, to the clean-up   *)
(* of what was done so far, or out.                                        *)
Onwards(p, q) ==
    \/ p = "init" /\ q = "unkillable"
    \/ p = "unkillable" /\ q \in {"unkillable_end", "authenticate"}
    \/ p = "unkillable_end" /\ q = "authenticate"
    \/ /\ p \in {"authenticate", "accounting", "credentials", "setuid_end"} \cup Setcred
       /\ q = "auth_exit"
    \/ p = "credentials" /\ q = "setuid" /\ ~ Refused(su.user)
    \/ p = "setuid" /\ q = "setuid_end"
    \/ p = "setuid_end" /\ q = "pam_setcred"
    \/ p = "pam_setcred" /\ q \in Setcred
    \/ p = "terminal" /\ q = "session"
    \/ p = "terminal" /\ q = "auth_exit" /\ su.login /\ su'.err
    \/ p = "session" /\ q = "delete_cred"
    \/ p = "launch" /\ q \in {"launching", "monitor"} /\ shell.st = "none"
    \/ p = "launching" /\ q = "monitor"
    \/ p = "monitor" /\ q = "hide"
    \/ p = "hide" /\ q = "waiting"
    \/ p = "waiting" /\ q = "final_wait"
    \/ p = "auth_exit" /\ q = "pam_end"
    \/ p = "pam_end" /\ q = "modes"

(* The same for a move that changes nothing but the point and err. *)
LEMMA JustGoes ==
  ASSUME ControlInv, shell' = shell, NEW q, NEW er, Just(q, er), Onwards(su.pc, q),
         su.err => er
  PROVE  ControlInv'
<1> DEFINE p == su.pc
<1>0. /\ q \in SuPoints \ {"killed"} /\ p \in SuPoints
      /\ SuGoes(q, er, su.status, su.auth, su.acct, su.cred, su.session, su.tty,
                su.terminal_uid, su.alert)
      /\ su'.err = er
  BY DEF Just, SuGoes, Onwards, SuPoints, Granted, Opened, Monitors, Setcred, Leaving
<1> USE DEF Onwards, Granted, Opened, Monitors, Setcred, Leaving
<1>1. /\ q \in {"accounting", "credentials"} \cup Granted => su.auth
      /\ q \in {"credentials"} \cup Granted => su.acct
  BY DEF ControlInv, Progress
<1>2. /\ q \in Granted => ~ Refused(su.user)
      /\ q \in Opened <=> su.session = "open"
      /\ su.session = "closed" => q \in Leaving \cup {"delete_cred"}
      /\ q \in {"terminal", "session"} \cup Opened => su.cred = "set"
  BY DEF ControlInv, Progress
<1>3. su.cred = "set" => \/ q \in {"terminal", "session", "delete_cred"} \cup Opened
                         \/ su.login /\ er
  BY <1>0 DEF ControlInv, Progress
<1>4. /\ shell.st \in Alive => q \in {"launching", "monitor"} \cup Monitors
      /\ shell.st # "none" => q \in {"launching", "monitor", "close_session", "delete_cred"}
                                    \cup Monitors \cup Leaving
      /\ su.status = 0 => shell.st = "exited"
  BY DEF ControlInv, Following, Alive
<1>5. /\ su.alert => q \in Leaving
      /\ su.terminal_uid = None => su.tty = su.invoked_uid \/ su.alert
      /\ su.terminal_uid # None =>
            su.terminal_uid = su.invoked_uid /\ q \in {"session", "delete_cred"} \cup Opened
  BY DEF ControlInv, Terminal
<1> HIDE DEF Onwards, Granted, Opened, Monitors, Setcred, Leaving
<1>6. Respects(q, er, su.status, su.auth, su.acct, su.cred, su.session, su.tty,
               su.terminal_uid, su.alert)
  BY <1>0, <1>1, <1>2, <1>3, <1>4, <1>5 DEF Respects
<1> QED BY <1>0, <1>6, SuGoesOn

(* exit(), with nothing left to close. *)
LEMMA ExitGoes ==
  ASSUME ControlInv, shell' = shell, NEW st, Exit(st),
         su.pc \in {"init", "unkillable_end", "modes"}, st = 0 => su.status = 0
  PROVE  ControlInv'
<1>0. SuGoes("exit", su.err, st, su.auth, su.acct, su.cred, su.session, su.tty,
             su.terminal_uid, su.alert)
  BY SuUpdates DEF ControlInv
<1>1. /\ "exit" \in SuPoints \ {"killed"} /\ "exit" \notin Granted /\ "exit" \notin Opened
      /\ "exit" \in Leaving
      /\ su.session # "open" /\ (su.cred = "set" => su.login /\ su.err)
  BY DEF ControlInv, Progress, SuPoints, Granted, Opened, Monitors, Setcred, Leaving
<1>2. shell.st \notin Alive /\ (st = 0 => shell.st = "exited")
  BY DEF ControlInv, Following, Alive, Monitors
<1>3. su.terminal_uid = None /\ (su.tty = su.invoked_uid \/ su.alert)
  BY DEF ControlInv, Terminal, Opened, Monitors
<1>4. Respects("exit", su.err, st, su.auth, su.acct, su.cred, su.session, su.tty,
               su.terminal_uid, su.alert)
  BY <1>1, <1>2, <1>3 DEF Respects
<1> QED BY <1>0, <1>4, SuGoesOn

(* The process that su hands on keeps what it was started with, so that    *)
(* the capset of the monitor cannot fail.                                  *)
LEMMA MonitorSucceeds ==
  ASSUME SuInv, su.pc = "monitor" PROVE CapsetOk(k, su.all)
<1>1. k.P = su.all.P /\ su.all.E = su.all.P /\ su.all.I = {}
  BY DEF SuInv, Holdings, HoldingsOf, Holding
<1> QED BY <1>1 DEF CapsetOk

(* The first steps of main. *)
LEMMA ControlBegins ==
  ASSUME SuInv, do_pam_init \/ make_process_unkillable \/ UnkillableEnd
  PROVE  ControlInv'
<1>0. ControlInv /\ Progress BY DEF SuInv, ControlInv
<1>1. CASE do_pam_init
  <2>1. su.pc = "init" /\ shell' = shell /\ (Goto("unkillable") \/ Exit(1))
    BY <1>1 DEF do_pam_init, SuAt, Same
  <2>2. Onwards(su.pc, "unkillable") BY <2>1 DEF Onwards
  <2> QED BY <1>0, <2>1, <2>2, SuUpdates, JustGoes, ExitGoes
<1>2. CASE make_process_unkillable
  <2>1. /\ su.pc = "unkillable" /\ shell' = shell
        /\ Goto("authenticate") \/ Goto("unkillable_end")
    BY <1>2 DEF make_process_unkillable, SuAt, Same
  <2>2. Onwards(su.pc, "authenticate") /\ Onwards(su.pc, "unkillable_end") BY <2>1 DEF Onwards
  <2> QED BY <1>0, <2>1, <2>2, SuUpdates, JustGoes
<1>3. CASE UnkillableEnd
  <2>1. /\ su.pc = "unkillable_end" /\ shell' = shell
        /\ Goto("authenticate") \/ Exit(1)
    BY <1>3 DEF UnkillableEnd, SuAt, Same
  <2>2. Onwards(su.pc, "authenticate") BY <2>1 DEF Onwards
  <2> QED BY <1>0, <2>1, <2>2, SuUpdates, JustGoes, ExitGoes
<1> QED BY <1>1, <1>2, <1>3

(* authenticate_user and user_accounting. *)
LEMMA ControlPam ==
  ASSUME SuInv, authenticate_user \/ user_accounting
  PROVE  ControlInv'
<1>0. ControlInv /\ Progress BY DEF SuInv, ControlInv
<1>1. shell' = shell /\ su.pc \in {"authenticate", "accounting"}
  BY DEF authenticate_user, user_accounting, SuAt
<1>2. CASE ErrTo("auth_exit") \/ PamFails
  <2>1. Onwards(su.pc, "auth_exit") BY <1>1 DEF Onwards
  <2> QED BY <1>0, <1>1, <1>2, <2>1, SuUpdates, JustGoes
<1>3. CASE \/ su.pc = "authenticate" /\ su' = [su EXCEPT !.pc = "accounting", !.auth = TRUE]
           \/ su.pc = "accounting" /\ su' = [su EXCEPT !.pc = "credentials", !.acct = TRUE]
  <2>1. \/ /\ su.pc = "authenticate" /\ su'.auth
           /\ SuGoes("accounting", su.err, su.status, su'.auth, su.acct, su.cred, su.session,
                     su.tty, su.terminal_uid, su.alert)
        \/ /\ su.pc = "accounting" /\ su'.acct
           /\ SuGoes("credentials", su.err, su.status, su.auth, su'.acct, su.cred, su.session,
                     su.tty, su.terminal_uid, su.alert)
    <3>1. DOMAIN su = SuFields BY <1>0 DEF Progress
    <3>2. CASE su.pc = "authenticate" /\ su' = [su EXCEPT !.pc = "accounting", !.auth = TRUE]
      BY <3>1, <3>2 DEF SuFields, SuGoes
    <3>3. CASE su.pc = "accounting" /\ su' = [su EXCEPT !.pc = "credentials", !.acct = TRUE]
      BY <3>1, <3>3 DEF SuFields, SuGoes
    <3> QED BY <1>3, <3>2, <3>3
  <2>2. /\ {"accounting", "credentials"} \subseteq SuPoints \ ({"killed"} \cup Granted \cup Opened)
        /\ su.session \notin {"open", "closed"} /\ (su.cred = "set" => su.login /\ su.err)
        /\ su.pc = "accounting" => su.auth
    BY <1>0, <1>1 DEF Progress, SuPoints, Granted, Opened, Monitors, Setcred, Leaving
  <2>3. /\ shell.st \notin Alive /\ shell.st = "none" /\ su.status # 0
    BY <1>0, <1>1 DEF ControlInv, Following, Alive, Monitors, Leaving
  <2>4. su.terminal_uid = None /\ su.tty = su.invoked_uid /\ ~ su.alert
    BY <1>0, <1>1 DEF ControlInv, Terminal, Opened, Monitors, Leaving
  <2>5. CASE su.pc = "authenticate"
    <3>1. Respects("accounting", su.err, su.status, su'.auth, su.acct, su.cred, su.session,
                   su.tty, su.terminal_uid, su.alert)
      BY <2>1, <2>2, <2>3, <2>4, <2>5 DEF Respects
    <3> QED BY <1>0, <1>1, <2>1, <2>5, <3>1, SuGoesOn
  <2>6. CASE su.pc = "accounting"
    <3>1. Respects("credentials", su.err, su.status, su.auth, su'.acct, su.cred, su.session,
                   su.tty, su.terminal_uid, su.alert)
      BY <2>1, <2>2, <2>3, <2>4, <2>6 DEF Respects
    <3> QED BY <1>0, <1>1, <2>1, <2>6, <3>1, SuGoesOn
  <2> QED BY <1>1, <2>5, <2>6
<1> QED BY <1>2, <1>3 DEF authenticate_user, user_accounting, SuAt

(* set_credentials. *)
LEMMA ControlCredentials ==
  ASSUME SuInv, CredentialsRefused \/ CredentialsGroups \/ CredentialsUid \/ CredentialsRaise
                \/ pam_sm_setcred
  PROVE  ControlInv'
<1>0. ControlInv /\ Progress BY DEF SuInv, ControlInv
<1>1. CASE CredentialsRefused
  <2>1. su.pc = "credentials" /\ shell' = shell /\ PamFails
    BY <1>1 DEF CredentialsRefused, SuAt, Same
  <2>2. Onwards(su.pc, "auth_exit") BY <2>1 DEF Onwards
  <2> QED BY <1>0, <2>1, <2>2, SuUpdates, JustGoes
<1>2. CASE CredentialsGroups
  <2>1. /\ su.pc = "credentials" /\ shell' = shell /\ ~ Refused(su.user)
        /\ PamFails \/ ErrTo("auth_exit") \/ Goto("setuid")
    BY <1>2 DEF CredentialsGroups, SuAt, Same
  <2>2. Onwards(su.pc, "auth_exit") /\ Onwards(su.pc, "setuid") BY <2>1 DEF Onwards
  <2> QED BY <1>0, <2>1, <2>2, SuUpdates, JustGoes
<1>3. CASE CredentialsUid
  <2>1. su.pc = "setuid" /\ shell' = shell /\ Goto("setuid_end") BY <1>3 DEF CredentialsUid, SuAt
  <2>2. Onwards(su.pc, "setuid_end") BY <2>1 DEF Onwards
  <2> QED BY <1>0, <2>1, <2>2, SuUpdates, JustGoes
<1>4. CASE CredentialsRaise
  <2>1. /\ su.pc = "setuid_end" /\ shell' = shell
        /\ PamFails \/ Goto("pam_setcred")
    BY <1>4 DEF CredentialsRaise, SuAt
  <2>2. Onwards(su.pc, "auth_exit") /\ Onwards(su.pc, "pam_setcred") BY <2>1 DEF Onwards
  <2> QED BY <1>0, <2>1, <2>2, SuUpdates, JustGoes
<1>5. CASE pam_sm_setcred
  <2>1. su.pc = "pam_setcred" /\ shell' = shell /\ su'.pc \in Setcred /\ Just(su'.pc, su.err)
    <3>1. DOMAIN su = SuFields BY <1>0 DEF Progress
    <3>2. PICK q \in Setcred, r \in {RuleFor(x) : x \in read_capabilities_for_user(su.user)} :
             su' = [su EXCEPT !.pc = q, !.rule = r]
      BY <1>5 DEF pam_sm_setcred, Setcred
    <3>3. su'.pc = q /\ Just(q, su.err) BY <3>1, <3>2 DEF SuFields, Just, SuGoes
    <3>4. su.pc = "pam_setcred" /\ shell' = shell BY <1>5 DEF pam_sm_setcred, SuAt
    <3> QED BY <3>3, <3>4
  <2>2. Onwards(su.pc, su'.pc) BY <2>1 DEF Onwards
  <2> QED BY <1>0, <2>1, <2>2, JustGoes
<1> QED BY <1>1, <1>2, <1>3, <1>4, <1>5

(* From pam_setcred to the session. *)
LEMMA ControlGranted ==
  ASSUME SuInv, SetcredEnd \/ change_terminal_owner \/ TCapsFails \/ UtmpFails \/ open_session
  PROVE  ControlInv'
<1>0. ControlInv /\ Progress /\ Terminal BY DEF SuInv, ControlInv
<1>1. /\ shell' = shell /\ su.pc \in {"terminal", "session"} \cup Setcred
  BY DEF SetcredEnd, change_terminal_owner, TCapsFails, UtmpFails, open_session, SuAt, Same, Setcred
<1>2. /\ shell.st \notin Alive /\ shell.st = "none" /\ su.status # 0
  BY <1>0, <1>1 DEF ControlInv, Following, Alive, Monitors, Leaving, Setcred
<1>3. /\ su.auth /\ su.acct /\ ~ Refused(su.user) /\ su.session \notin {"open", "closed"}
      /\ su.pc \in {"terminal", "session"} => su.cred = "set"
  BY <1>0, <1>1 DEF Progress, Granted, Opened, Monitors, Setcred, Leaving
<1>4. /\ "terminal" \in SuPoints \ {"killed"} /\ "terminal" \notin Opened
      /\ "session" \in SuPoints \ {"killed"} /\ "session" \notin Opened
      /\ "launch" \in SuPoints \ {"killed"} /\ "launch" \in Opened
  BY DEF SuPoints, Granted, Opened, Monitors, Setcred, Leaving
<1>5. ~ su.alert /\ (su.pc # "session" => su.terminal_uid = None /\ su.tty = su.invoked_uid)
  BY <1>0, <1>1 DEF Terminal, Leaving, Opened, Monitors, Setcred
<1>6. CASE SetcredEnd
  <2>1. CASE PamFails
    <3>1. Onwards(su.pc, "auth_exit") BY <1>6 DEF Onwards, SetcredEnd, Setcred
    <3> QED BY <1>0, <1>1, <2>1, <3>1, SuUpdates, JustGoes
  <2>2. CASE \E b : su' = [su EXCEPT !.pc = "terminal", !.cred = "set", !.applied = b]
    <3>1. SuGoes("terminal", su.err, su.status, su.auth, su.acct, "set", su.session, su.tty,
                 su.terminal_uid, su.alert)
      BY <1>0, <2>2 DEF Progress, SuFields, SuGoes
    <3>2. su.pc # "session" BY <1>6 DEF SetcredEnd
    <3>3. Respects("terminal", su.err, su.status, su.auth, su.acct, "set", su.session, su.tty,
                   su.terminal_uid, su.alert)
      BY <1>2, <1>3, <1>4, <1>5, <3>2 DEF Respects
    <3> QED BY <1>0, <1>1, <3>1, <3>3, SuGoesOn
  <2> QED BY <1>6, <2>1, <2>2 DEF SetcredEnd
<1>7. CASE change_terminal_owner
  <2>0. su.pc = "terminal" BY <1>7 DEF change_terminal_owner, SuAt
  <2>1. CASE Goto("session")
    <3>1. Onwards(su.pc, "session") BY <2>0 DEF Onwards
    <3> QED BY <1>0, <1>1, <2>1, <3>1, SuUpdates, JustGoes
  <2>2. CASE su.login /\ ErrTo("auth_exit")
    <3>1. Just("auth_exit", TRUE) BY <1>0, <2>2, SuUpdates
    <3>2. Onwards(su.pc, "auth_exit") BY <2>0, <2>2, <3>1 DEF Onwards, Just, SuGoes
    <3> QED BY <1>0, <1>1, <3>1, <3>2, JustGoes
  <2>3. CASE su' = [su EXCEPT !.pc = "session", !.terminal_uid = su.tty, !.tty = entry.uid]
    <3>1. SuGoes("session", su.err, su.status, su.auth, su.acct, su.cred, su.session, entry.uid,
                 su.tty, su.alert)
      BY <1>0, <2>3 DEF Progress, SuFields, SuGoes
    <3>2. su.tty = su.invoked_uid /\ su.tty # None BY <1>0, <1>5, <2>0, SuAssumption DEF Terminal
    <3>3. Respects("session", su.err, su.status, su.auth, su.acct, su.cred, su.session, entry.uid,
                   su.tty, su.alert)
      BY <1>2, <1>3, <1>4, <1>5, <2>0, <3>2 DEF Respects
    <3> QED BY <1>0, <1>1, <3>1, <3>3, SuGoesOn
  <2> QED BY <1>7, <2>1, <2>2, <2>3 DEF change_terminal_owner
<1>8. CASE TCapsFails \/ UtmpFails
  <2>1. su.pc = "session" /\ (ErrTo("delete_cred") \/ Goto("delete_cred"))
    BY <1>8 DEF TCapsFails, UtmpFails, SuAt
  <2>2. Onwards(su.pc, "delete_cred") BY <2>1 DEF Onwards
  <2> QED BY <1>0, <1>1, <2>1, <2>2, SuUpdates, JustGoes
<1>9. CASE open_session
  <2>0. su.pc = "session" BY <1>9 DEF open_session, SuAt
  <2>1. CASE su' = [su EXCEPT !.pc = "launch", !.session = "open"]
    <3>1. SuGoes("launch", su.err, su.status, su.auth, su.acct, su.cred, "open", su.tty,
                 su.terminal_uid, su.alert)
      BY <1>0, <2>1 DEF Progress, SuFields, SuGoes
    <3>2. /\ su.terminal_uid = None => su.tty = su.invoked_uid
          /\ su.terminal_uid # None => su.terminal_uid = su.invoked_uid
      BY <1>0, <1>5 DEF Terminal
    <3>3. Respects("launch", su.err, su.status, su.auth, su.acct, su.cred, "open", su.tty,
                   su.terminal_uid, su.alert)
      BY <1>2, <1>3, <1>4, <1>5, <2>0, <3>2 DEF Respects
    <3> QED BY <1>0, <1>1, <3>1, <3>3, SuGoesOn
  <2>2. CASE su' = [su EXCEPT !.pc = "delete_cred", !.retval = FALSE]
    <3>1. Just("delete_cred", su.err) BY <1>0, <2>2 DEF Progress, SuFields, SuGoes, Just
    <3>2. Onwards(su.pc, "delete_cred") BY <2>0 DEF Onwards
    <3> QED BY <1>0, <1>1, <3>1, <3>2, JustGoes
  <2> QED BY <1>9, <2>1, <2>2 DEF open_session
<1> QED BY <1>6, <1>7, <1>8, <1>9

(* su goes to close the session: its shell has ended or was never there.   *)
LEMMA ClosesGoes ==
  ASSUME ControlInv, shell' = shell, NEW st, su.pc \in Opened, shell.st \notin Alive,
         \/ su' = [su EXCEPT !.pc = "close_session", !.status = st]
         \/ su' = [su EXCEPT !.pc = "close_session", !.reaped = TRUE, !.status = st],
         st = 0 => shell.st = "exited"
  PROVE  ControlInv'
<1>0. Progress /\ Terminal BY DEF ControlInv
<1>1. SuGoes("close_session", su.err, st, su.auth, su.acct, su.cred, su.session, su.tty,
             su.terminal_uid, su.alert)
  <2>1. CASE su' = [su EXCEPT !.pc = "close_session", !.status = st]
    BY <1>0, <2>1 DEF Progress, SuFields, SuGoes
  <2>2. CASE su' = [su EXCEPT !.pc = "close_session", !.reaped = TRUE, !.status = st]
    BY <1>0, <2>2 DEF Progress, SuFields, SuGoes
  <2> QED BY <2>1, <2>2
<1>2. /\ su.auth /\ su.acct /\ ~ Refused(su.user) /\ su.session = "open" /\ su.cred = "set"
  BY <1>0 DEF Progress, Granted
<1>3. "close_session" \in SuPoints \ {"killed"} /\ "close_session" \in Opened
  BY DEF SuPoints, Granted, Opened
<1>4. /\ ~ su.alert
      /\ su.terminal_uid = None => su.tty = su.invoked_uid
      /\ su.terminal_uid # None => su.terminal_uid = su.invoked_uid
  BY <1>0 DEF Terminal, Leaving, Opened, Monitors
<1>5. Respects("close_session", su.err, st, su.auth, su.acct, su.cred, su.session, su.tty,
               su.terminal_uid, su.alert)
  BY <1>2, <1>3, <1>4 DEF Respects
<1> QED BY <1>1, <1>5, SuGoesOn

(* perform_launch_and_cleanup. *)
LEMMA ControlLaunch ==
  ASSUME SuInv, LaunchUnprepared \/ Fork \/ cap_launch \/ Monitor \/ Hide \/ WaitEnds
                \/ WaitFails
  PROVE  ControlInv'
<1>0. ControlInv /\ Progress BY DEF SuInv, ControlInv
<1>1. /\ su.pc = "launch" => shell.st = "none"
  BY <1>0 DEF ControlInv, Following, Monitors, Leaving
<1>2. CASE LaunchUnprepared
  <2>1. /\ su.pc = "launch" /\ shell' = shell
        /\ su' = [su EXCEPT !.pc = "close_session", !.status = 4]
    BY <1>2 DEF LaunchUnprepared, SuAt, Same
  <2>2. su.pc \in Opened /\ shell.st \notin Alive BY <1>1, <2>1 DEF Opened, Alive
  <2> DEFINE st == 4
  <2>3. (st = 0 => shell.st = "exited")
        /\ su' = [su EXCEPT !.pc = "close_session", !.status = st]
    BY <2>1
  <2> HIDE DEF st
  <2> QED BY <1>0, <2>1, <2>2, <2>3, ClosesGoes
<1>3. CASE Fork
  <2>0. su.pc = "launch" BY <1>3 DEF Fork, SuAt
  <2>1. CASE Goto("monitor") /\ Same
    <3>1. Onwards(su.pc, "monitor") BY <1>1, <2>0 DEF Onwards
    <3> QED BY <1>0, <2>1, <3>1, SuUpdates, JustGoes DEF Same
  <2>2. CASE Goto("launching") /\ shell' = [shell EXCEPT !.st = "callback"]
    <3>1. Just("launching", su.err) BY <1>0, <2>2, SuUpdates
    <3>2. /\ su.auth /\ su.acct /\ ~ Refused(su.user) /\ su.session = "open" /\ su.cred = "set"
      BY <1>0, <2>0 DEF Progress, Granted, Opened
    <3>3. Progress'
      BY <3>1, <3>2 DEF Progress, Just, SuGoes, SuPoints, Granted, Opened
    <3>4. /\ su'.status # 0 /\ shell'.st = "callback" /\ DOMAIN shell' = {"st", "code"}
      BY <1>0, <1>1, <2>0, <2>2, <3>1 DEF ControlInv, Following, Just, SuGoes
    <3>5. Following' BY <3>1, <3>2, <3>4 DEF Following, Just, SuGoes, Alive
    <3>6. Terminal'
      BY <1>0, <2>0, <3>1 DEF ControlInv, Terminal, Just, SuGoes, Opened, Monitors, Leaving
    <3> QED BY <3>3, <3>5, <3>6 DEF ControlInv
  <2> QED BY <1>3, <2>1, <2>2 DEF Fork
<1>4. CASE cap_launch
  <2>1. su.pc = "launching" /\ shell' = shell /\ Goto("monitor") BY <1>4 DEF cap_launch, SuAt, Same
  <2>2. Onwards(su.pc, "monitor") BY <2>1 DEF Onwards
  <2> QED BY <1>0, <2>1, <2>2, SuUpdates, JustGoes
<1>5. CASE Monitor
  <2>1. su.pc = "monitor" BY <1>5 DEF Monitor, SuAt
  <2>2. shell' = shell /\ Goto("hide") BY <1>5, <2>1, MonitorSucceeds DEF Monitor
  <2>3. Onwards(su.pc, "hide") BY <2>1 DEF Onwards
  <2> QED BY <1>0, <2>2, <2>3, SuUpdates, JustGoes
<1>6. CASE Hide
  <2>1. su.pc = "hide" /\ shell' = shell /\ Just("waiting", su.err)
    BY <1>0, <1>6 DEF Hide, SuAt, Progress, SuFields, SuGoes, Just
  <2>2. Onwards(su.pc, "waiting") BY <2>1 DEF Onwards
  <2> QED BY <1>0, <2>1, <2>2, JustGoes
<1>7. CASE WaitEnds
  <2>1. PICK st : /\ su' = [su EXCEPT !.pc = "close_session", !.status = st]
                  /\ shell' = shell /\ su.pc \in Monitors
                  /\ shell.st \in {"none", "failed", "exited"}
                  /\ st = 0 => shell.st = "exited"
    <3>1. CASE su.pc = "waiting" /\ NoChild
                 /\ su' = [su EXCEPT !.pc = "close_session", !.status = -1]
      <4>1. /\ shell' = shell /\ su.pc \in Monitors /\ shell.st \in {"none", "failed", "exited"}
            /\ -1 # 0
        BY <1>7, <3>1 DEF WaitEnds, NoChild, Same, Monitors
      <4> WITNESS -1
      <4> QED BY <3>1, <4>1
    <3>2. CASE su.pc \in {"waiting", "final_wait"} /\ Ended
                 /\ su' = [su EXCEPT !.pc = "close_session", !.status = shell.code]
      BY <1>7, <3>2 DEF WaitEnds, Ended, Same, Monitors
    <3> QED BY <1>7, <3>1, <3>2 DEF WaitEnds
  <2>2. su.pc \in Opened /\ shell.st \notin Alive BY <2>1 DEF Opened, Alive
  <2> QED BY <1>0, <2>1, <2>2, ClosesGoes
<1>8. CASE WaitFails
  <2>1. shell' = shell /\ shell.st = "exited" BY <1>8 DEF WaitFails, Same, Ended
  <2>2. CASE su.pc = "waiting" /\ su' = [su EXCEPT !.pc = "final_wait", !.reaped = TRUE]
    <3>1. Just("final_wait", su.err) BY <1>0, <2>2 DEF Progress, SuFields, SuGoes, Just
    <3>2. Onwards(su.pc, "final_wait") BY <2>2 DEF Onwards
    <3> QED BY <1>0, <2>1, <3>1, <3>2, JustGoes
  <2>3. CASE /\ su.pc = "final_wait"
             /\ \E code \in {0, 1} :
                   su' = [su EXCEPT !.pc = "close_session", !.reaped = TRUE, !.status = code]
    <3>1. su.pc \in Opened /\ shell.st \notin Alive BY <2>1, <2>3 DEF Opened, Monitors, Alive
    <3> QED BY <1>0, <2>1, <2>3, <3>1, ClosesGoes
  <2> QED BY <1>8, <2>2, <2>3 DEF WaitFails
<1> QED BY <1>2, <1>3, <1>4, <1>5, <1>6, <1>7, <1>8

(* The clean-up. *)
LEMMA ControlEnds ==
  ASSUME SuInv, close_session \/ delete_cred \/ make_process_killable \/ pam_end
                \/ restore_terminal_modes
  PROVE  ControlInv'
<1>0. ControlInv /\ Progress /\ Terminal BY DEF SuInv, ControlInv
<1>1. shell' = shell /\ su.pc \in {"close_session", "delete_cred", "auth_exit", "pam_end", "modes"}
  BY DEF close_session, delete_cred, make_process_killable, pam_end, restore_terminal_modes,
         SuAt, Same
<1>2. /\ shell.st \notin Alive /\ (su.status = 0 => shell.st = "exited")
  BY <1>0, <1>1 DEF ControlInv, Following, Alive, Monitors, Leaving
<1>3. /\ {"delete_cred", "auth_exit"} \subseteq ((SuPoints \ {"killed"}) \ Opened) \ Granted
      /\ "auth_exit" \in Leaving
  BY DEF SuPoints, Granted, Opened, Monitors, Setcred, Leaving
<1>4. CASE close_session
  <2>0. su.pc = "close_session" BY <1>4 DEF close_session, SuAt
  <2>1. SuGoes("delete_cred", su.err, su.status, su.auth, su.acct, su.cred, "closed", su.tty,
               su.terminal_uid, su.alert)
    BY <1>0, <1>4 DEF close_session, Progress, SuFields, SuGoes
  <2>2. /\ ~ su.alert
        /\ su.terminal_uid = None => su.tty = su.invoked_uid
        /\ su.terminal_uid # None => su.terminal_uid = su.invoked_uid
    BY <1>0, <2>0 DEF Terminal, Leaving, Opened, Monitors
  <2>3. Respects("delete_cred", su.err, su.status, su.auth, su.acct, su.cred, "closed", su.tty,
                 su.terminal_uid, su.alert)
    BY <1>2, <1>3, <2>2 DEF Respects
  <2> QED BY <1>0, <1>1, <2>1, <2>3, SuGoesOn
<1>5. CASE delete_cred
  <2>0. su.pc = "delete_cred" BY <1>5 DEF delete_cred, SuAt
  <2>1. PICK owner \in Uids, alert \in BOOLEAN :
           /\ restore_terminal_owner(owner, alert)
           /\ su' = [su EXCEPT !.pc = "auth_exit", !.cred = "deleted", !.tty = owner,
                               !.terminal_uid = None, !.alert = alert]
    BY <1>5 DEF delete_cred
  <2>2. SuGoes("auth_exit", su.err, su.status, su.auth, su.acct, "deleted", su.session, owner,
               None, alert)
    BY <1>0, <2>1 DEF Progress, SuFields, SuGoes
  <2>3. owner = su.invoked_uid \/ alert
    BY <1>0, <2>0, <2>1 DEF restore_terminal_owner, Terminal, Leaving
  <2>4. su.session # "open" BY <1>0, <2>0 DEF Progress, Opened, Monitors
  <2>5. Respects("auth_exit", su.err, su.status, su.auth, su.acct, "deleted", su.session, owner,
                 None, alert)
    BY <1>2, <1>3, <2>3, <2>4 DEF Respects
  <2> QED BY <1>0, <1>1, <2>2, <2>5, SuGoesOn
<1>6. CASE make_process_killable
  <2>1. su.pc = "auth_exit" /\ Goto("pam_end") BY <1>6 DEF make_process_killable, SuAt
  <2>2. Onwards(su.pc, "pam_end") BY <2>1 DEF Onwards
  <2> QED BY <1>0, <1>1, <2>1, <2>2, SuUpdates, JustGoes
<1>7. CASE pam_end
  <2>1. su.pc = "pam_end" /\ Goto("modes") BY <1>7 DEF pam_end, SuAt
  <2>2. Onwards(su.pc, "modes") BY <2>1 DEF Onwards
  <2> QED BY <1>0, <1>1, <2>1, <2>2, SuUpdates, JustGoes
<1>8. CASE restore_terminal_modes
  <2>1. su.pc = "modes" /\ (Exit(su.status) \/ Exit(IF su.status = 0 THEN 1 ELSE su.status))
    BY <1>8 DEF restore_terminal_modes, SuAt
  <2> QED BY <1>0, <1>1, <2>1, ExitGoes
<1> QED BY <1>4, <1>5, <1>6, <1>7, <1>8

(* The shell and those who signal. *)
LEMMA ControlOthers ==
  ASSUME SuInv, launch_callback_fn \/ Exec \/ ShellExits \/ Caught \/ Kill \/ Signalled
  PROVE  ControlInv'
<1>0. ControlInv /\ Progress /\ Following BY DEF SuInv, ControlInv
<1>1. ASSUME su' = su, shell.st \in Alive, shell'.st \in Alive \cup {"failed", "exited"},
             DOMAIN shell' = {"st", "code"}
      PROVE  ControlInv'
  <2>1. Progress' /\ Terminal' BY <1>0, <1>1 DEF ControlInv, Progress, Terminal
  <2>2. su.status # 0 BY <1>0, <1>1 DEF Following, Alive
  <2>3. Following' BY <1>0, <1>1, <2>2 DEF Following, Alive
  <2> QED BY <2>1, <2>3 DEF ControlInv
<1>2. CASE launch_callback_fn \/ Exec \/ ShellExits
  <2>1. /\ su' = su /\ shell.st \in Alive /\ shell'.st \in Alive \cup {"failed", "exited"}
        /\ DOMAIN shell' = {"st", "code"}
    <3>1. CASE launch_callback_fn
      BY <1>0, <3>1 DEF launch_callback_fn, Following, Alive
    <3>2. CASE Exec
      BY <1>0, <3>2 DEF Exec, Following, Alive
    <3>3. CASE ShellExits
      BY <1>0, <3>3 DEF ShellExits, Following, Alive
    <3> QED BY <1>2, <3>1, <3>2, <3>3
  <2> QED BY <1>1, <2>1
<1>3. CASE Caught
  <2>1. /\ su.pc = "waiting" /\ su' = [su EXCEPT !.pc = "final_wait"]
        /\ shell' = shell \/ (shell.st = "running" /\ shell' = [st |-> "exited", code |-> 1])
    BY <1>3 DEF Caught, SuAt
  <2>2. Goto("final_wait") BY <2>1 DEF Goto
  <2>3. Just("final_wait", su.err) BY <1>0, <2>2, SuUpdates
  <2>4. Onwards(su.pc, "final_wait") BY <2>1 DEF Onwards
  <2>5. CASE shell' = shell BY <1>0, <2>3, <2>4, <2>5, JustGoes
  <2>6. CASE shell.st = "running" /\ shell' = [st |-> "exited", code |-> 1]
    <3>1. Progress'
      BY <1>0, <2>1, <2>3 DEF Progress, Just, SuGoes, SuPoints, Granted, Opened, Monitors
    <3>2. su.status # 0 BY <1>0, <2>6 DEF Following
    <3>3. Following' BY <2>3, <2>6, <3>2 DEF Following, Just, SuGoes, Alive, Monitors
    <3>4. Terminal'
      BY <1>0, <2>1, <2>3 DEF ControlInv, Terminal, Just, SuGoes, Opened, Monitors, Leaving
    <3> QED BY <3>1, <3>3, <3>4 DEF ControlInv
  <2> QED BY <2>1, <2>5, <2>6
<1>4. CASE Kill \/ Signalled
  <2>1. su.pc \notin {"init", "exit", "killed"} /\ shell' = shell
    BY <1>4 DEF Kill, Signalled, Same
  <2>2. Just("killed", su.err)
    <3>1. DOMAIN su = SuFields BY <1>0 DEF Progress
    <3>2. CASE Kill
      <4>1. su' = [su EXCEPT !.pc = "killed", !.sig = "SIGKILL", !.by = k.uid, !.at = su.pc]
        BY <3>2 DEF Kill
      <4> QED BY <3>1, <4>1 DEF SuFields, Just, SuGoes
    <3>3. CASE Signalled
      <4>1. PICK sig : su' = [su EXCEPT !.pc = "killed", !.sig = sig, !.at = su.pc]
        BY <3>3 DEF Signalled
      <4> QED BY <3>1, <4>1 DEF SuFields, Just, SuGoes
    <3> QED BY <1>4, <3>2, <3>3
  <2>3. Progress'
    BY <1>0, <2>1, <2>2
    DEF Progress, Just, SuGoes, SuPoints, Granted, Opened, Monitors, Leaving, Setcred
  <2>4. Following' BY <1>0, <2>1, <2>2 DEF Following, Just, SuGoes
  <2>5. Terminal' BY <1>0, <2>2 DEF ControlInv, Terminal, Just, SuGoes
  <2> QED BY <2>3, <2>4, <2>5 DEF ControlInv
<1> QED BY <1>2, <1>3, <1>4

(* Where su and the shell are is kept by every step. *)
LEMMA ControlStep == ASSUME SuInv, SuNext PROVE ControlInv'
<1>1. CASE su' = su /\ shell' = shell BY <1>1, ControlSame DEF SuInv
<1> QED BY <1>1, ControlBegins, ControlPam, ControlCredentials, ControlGranted, ControlLaunch,
           ControlEnds, ControlOthers
    DEF SuNext, SuStep, ShellStep, Operation, suvars

(* A move of main to q that has to do with no signal; st and se become the *)
(* status and the session.                                                 *)
MovesOn(q, st, se) ==
    /\ su'.pc = q /\ su'.status = st /\ su'.session = se /\ su'.user = su.user
    /\ su'.guarded = su.guarded /\ su'.reaped = su.reaped /\ su'.sig = su.sig

(* The moves by name are such. *)
LEMMA MovesMoved ==
  ASSUME Progress
  PROVE  /\ \A q : Goto(q) \/ ErrTo(q) => MovesOn(q, su.status, su.session)
         /\ PamFails => MovesOn("auth_exit", su.status, su.session)
         /\ \A st : Exit(st) => MovesOn("exit", st, su.session)
<1> USE DEF Progress, SuFields, MovesOn
<1>1. ASSUME NEW q, Goto(q) PROVE MovesOn(q, su.status, su.session) BY <1>1 DEF Goto
<1>2. ASSUME NEW q, ErrTo(q) PROVE MovesOn(q, su.status, su.session) BY <1>2 DEF ErrTo
<1>3. ASSUME PamFails PROVE MovesOn("auth_exit", su.status, su.session) BY <1>3 DEF PamFails
<1>4. ASSUME NEW st, Exit(st) PROVE MovesOn("exit", st, su.session) BY <1>4 DEF Exit
<1> QED BY <1>1, <1>2, <1>3, <1>4

(* Such a move leaves the signals where they are if it closes no session   *)
(* but from close_session, and makes up no status 0.                       *)
LEMMA SignalsStay ==
  ASSUME SuInv, su.pc # "killed", shell'.code = shell.code,
         NEW q, NEW st, NEW se, MovesOn(q, st, se), q \notin {"waiting", "final_wait"},
         st = 0 => su.status = 0 \/ shell.code = 0,
         su.status = 4 => st = 4 \/ su.guarded \/ se # "closed",
         q = "close_session" => su.guarded \/ st = 4,
         se = "closed" => su.session = "closed" \/ su.pc = "close_session"
  PROVE  Signals'
<1>1. su'.sig = "none" BY DEF SuInv, Signals, MovesOn
<1> QED BY <1>1 DEF SuInv, Signals, MovesOn

(* A move that changes neither status nor session. *)
LEMMA PlainStay ==
  ASSUME SuInv, su.pc # "killed", shell'.code = shell.code,
         NEW q, MovesOn(q, su.status, su.session), q \notin {"waiting", "final_wait", "close_session"}
  PROVE  Signals'
  BY SignalsStay

(* The steps of main but for those around the wait. *)
LEMMA SignalsMain ==
  ASSUME SuInv,
         \/ do_pam_init \/ make_process_unkillable \/ UnkillableEnd
         \/ authenticate_user \/ user_accounting
         \/ CredentialsRefused \/ CredentialsGroups \/ CredentialsUid \/ CredentialsRaise
         \/ pam_sm_setcred \/ SetcredEnd \/ change_terminal_owner
         \/ TCapsFails \/ UtmpFails \/ open_session
  PROVE  Signals'
<1>0. Progress BY DEF SuInv, ControlInv
<1>1. CASE do_pam_init \/ UnkillableEnd
  <2>1. /\ su.pc \in {"init", "unkillable_end"} /\ shell' = shell
        /\ Goto("unkillable") \/ Goto("authenticate") \/ Exit(1)
    BY <1>1 DEF do_pam_init, UnkillableEnd, SuAt, Same
  <2>2. su.session # "closed" BY <1>0, <2>1 DEF Progress, Leaving
  <2>3. CASE Exit(1)
    <3> DEFINE st == 1
    <3>1. MovesOn("exit", st, su.session) /\ st # 0 BY <1>0, <2>3, MovesMoved
    <3> HIDE DEF st
    <3> QED BY <2>1, <2>2, <3>1, SignalsStay
  <2> QED BY <1>0, <2>1, <2>3, MovesMoved, PlainStay
<1>2. CASE make_process_unkillable \/ authenticate_user \/ user_accounting
  <2>1. /\ su.pc # "killed" /\ shell' = shell
        /\ \/ Goto("authenticate") \/ Goto("unkillable_end") \/ ErrTo("auth_exit") \/ PamFails
           \/ su' = [su EXCEPT !.pc = "accounting", !.auth = TRUE]
           \/ su' = [su EXCEPT !.pc = "credentials", !.acct = TRUE]
    BY <1>2 DEF make_process_unkillable, authenticate_user, user_accounting, SuAt, Same
  <2>2. CASE su' = [su EXCEPT !.pc = "accounting", !.auth = TRUE]
    <3>1. MovesOn("accounting", su.status, su.session) BY <1>0, <2>2 DEF Progress, SuFields, MovesOn
    <3> QED BY <2>1, <3>1, PlainStay
  <2>3. CASE su' = [su EXCEPT !.pc = "credentials", !.acct = TRUE]
    <3>1. MovesOn("credentials", su.status, su.session) BY <1>0, <2>3 DEF Progress, SuFields, MovesOn
    <3> QED BY <2>1, <3>1, PlainStay
  <2> QED BY <1>0, <2>1, <2>2, <2>3, MovesMoved, PlainStay
<1>3. CASE CredentialsRefused \/ CredentialsGroups \/ CredentialsUid \/ CredentialsRaise
  <2>1. /\ su.pc # "killed" /\ shell' = shell
        /\ PamFails \/ ErrTo("auth_exit") \/ Goto("setuid") \/ Goto("setuid_end")
           \/ Goto("pam_setcred")
    BY <1>3 DEF CredentialsRefused, CredentialsGroups, CredentialsUid, CredentialsRaise, SuAt, Same
  <2> QED BY <1>0, <2>1, MovesMoved, PlainStay
<1>4. CASE pam_sm_setcred
  <2>1. PICK q \in Setcred : \E r : su' = [su EXCEPT !.pc = q, !.rule = r]
    BY <1>4 DEF pam_sm_setcred, Setcred
  <2>2. MovesOn(q, su.status, su.session) BY <1>0, <2>1 DEF Progress, SuFields, MovesOn
  <2>3. su.pc # "killed" /\ shell' = shell /\ q \notin {"waiting", "final_wait", "close_session"}
    BY <1>4 DEF pam_sm_setcred, SuAt, Setcred
  <2> QED BY <2>2, <2>3, PlainStay
<1>5. CASE SetcredEnd
  <2>1. su.pc # "killed" /\ shell' = shell BY <1>5 DEF SetcredEnd
  <2>2. CASE \E ap : su' = [su EXCEPT !.pc = "terminal", !.cred = "set", !.applied = ap]
    <3>1. MovesOn("terminal", su.status, su.session) BY <1>0, <2>2 DEF Progress, SuFields, MovesOn
    <3> HIDE <2>2
    <3> QED BY <2>1, <3>1, PlainStay
  <2>3. CASE PamFails
    <3>1. MovesOn("auth_exit", su.status, su.session) BY <1>0, <2>3, MovesMoved
    <3> QED BY <2>1, <3>1, PlainStay
  <2> QED BY <1>5, <2>2, <2>3 DEF SetcredEnd
<1>6. CASE change_terminal_owner
  <2>1. /\ su.pc # "killed" /\ shell' = shell
        /\ \/ Goto("session") \/ ErrTo("auth_exit")
           \/ su' = [su EXCEPT !.pc = "session", !.terminal_uid = su.tty, !.tty = entry.uid]
    BY <1>6 DEF change_terminal_owner, SuAt
  <2>2. CASE su' = [su EXCEPT !.pc = "session", !.terminal_uid = su.tty, !.tty = entry.uid]
    <3>1. MovesOn("session", su.status, su.session) BY <1>0, <2>2 DEF Progress, SuFields, MovesOn
    <3> QED BY <2>1, <3>1, PlainStay
  <2> QED BY <1>0, <2>1, <2>2, MovesMoved, PlainStay
<1>7. CASE TCapsFails \/ UtmpFails
  <2>1. su.pc # "killed" /\ shell' = shell /\ (ErrTo("delete_cred") \/ Goto("delete_cred"))
    BY <1>7 DEF TCapsFails, UtmpFails, SuAt, Same
  <2> QED BY <1>0, <2>1, MovesMoved, PlainStay
<1>8. CASE open_session
  <2>1. /\ su.pc # "killed" /\ shell' = shell
        /\ \/ su' = [su EXCEPT !.pc = "launch", !.session = "open"]
           \/ su' = [su EXCEPT !.pc = "delete_cred", !.retval = FALSE]
    BY <1>8 DEF open_session, SuAt
  <2>2. CASE su' = [su EXCEPT !.pc = "launch", !.session = "open"]
    <3>1. MovesOn("launch", su.status, "open") BY <1>0, <2>2 DEF Progress, SuFields, MovesOn
    <3> QED BY <2>1, <3>1, SignalsStay
  <2>3. CASE su' = [su EXCEPT !.pc = "delete_cred", !.retval = FALSE]
    <3>1. MovesOn("delete_cred", su.status, su.session) BY <1>0, <2>3 DEF Progress, SuFields, MovesOn
    <3> QED BY <2>1, <3>1, PlainStay
  <2> QED BY <2>1, <2>2, <2>3
<1> QED BY <1>1, <1>2, <1>3, <1>4, <1>5, <1>6, <1>7, <1>8

(* From the launch to the exit. *)
LEMMA SignalsEnds ==
  ASSUME SuInv,
         \/ LaunchUnprepared \/ Fork \/ cap_launch \/ Monitor \/ WaitEnds
         \/ close_session \/ delete_cred
         \/ make_process_killable \/ pam_end \/ restore_terminal_modes
  PROVE  Signals'
<1>0. /\ Progress /\ DOMAIN shell = {"st", "code"}
      /\ su.session = "closed" \/ su.pc = "close_session" => su.guarded \/ su.status = 4
      /\ su.pc \in {"waiting", "final_wait"} => su.guarded
  BY DEF SuInv, Signals, ControlInv, Following
<1>1. CASE Fork \/ cap_launch \/ (Monitor /\ Goto("hide"))
  <2>1. su.pc # "killed" /\ (Goto("monitor") \/ Goto("launching") \/ Goto("hide"))
    BY <1>1 DEF Fork, cap_launch, Monitor, SuAt
  <2>2. shell'.code = shell.code BY <1>0, <1>1 DEF Fork, cap_launch, Monitor, Same
  <2> QED BY <1>0, <2>1, <2>2, MovesMoved, PlainStay
<1>2. CASE LaunchUnprepared \/ (Monitor /\ ~ Goto("hide"))
  <2> DEFINE st == 4
  <2>1. /\ su.pc # "killed" /\ shell' = shell
        /\ su' = [su EXCEPT !.pc = "close_session", !.status = st]
    BY <1>2 DEF LaunchUnprepared, Monitor, SuAt, Same
  <2>2. st # 0 /\ st = 4 OBVIOUS
  <2> HIDE DEF st
  <2>3. MovesOn("close_session", st, su.session) BY <1>0, <2>1 DEF Progress, SuFields, MovesOn
  <2> QED BY <2>1, <2>2, <2>3, SignalsStay
<1>3. CASE WaitEnds
  <2>1. /\ su.pc \in {"waiting", "final_wait"} /\ shell' = shell
        /\ \/ su' = [su EXCEPT !.pc = "close_session", !.status = -1]
           \/ su' = [su EXCEPT !.pc = "close_session", !.status = shell.code]
    BY <1>3 DEF WaitEnds, Same
  <2>2. PICK st : /\ su' = [su EXCEPT !.pc = "close_session", !.status = st]
                  /\ st = 0 => shell.code = 0
    <3>1. CASE su' = [su EXCEPT !.pc = "close_session", !.status = -1]
      <4> DEFINE st == -1
      <4>1. st # 0 OBVIOUS
      <4> HIDE DEF st
      <4>2. su' = [su EXCEPT !.pc = "close_session", !.status = st] BY <3>1 DEF st
      <4> QED BY <4>1, <4>2
    <3> QED BY <2>1, <3>1
  <2>3. MovesOn("close_session", st, su.session) BY <1>0, <2>2 DEF Progress, SuFields, MovesOn
  <2> QED BY <1>0, <2>1, <2>2, <2>3, SignalsStay
<1>4. CASE close_session
  <2>1. /\ su.pc = "close_session" /\ shell' = shell
        /\ su' = [su EXCEPT !.pc = "delete_cred", !.session = "closed"]
    BY <1>4 DEF close_session, SuAt
  <2>2. MovesOn("delete_cred", su.status, "closed") BY <1>0, <2>1 DEF Progress, SuFields, MovesOn
  <2> QED BY <2>1, <2>2, SignalsStay
<1>5. CASE delete_cred
  <2>1. PICK owner, alert : su' = [su EXCEPT !.pc = "auth_exit", !.cred = "deleted", !.tty = owner,
                                             !.terminal_uid = None, !.alert = alert]
    BY <1>5 DEF delete_cred
  <2>2. MovesOn("auth_exit", su.status, su.session) BY <1>0, <2>1 DEF Progress, SuFields, MovesOn
  <2>3. su.pc # "killed" /\ shell' = shell BY <1>5 DEF delete_cred, SuAt
  <2> QED BY <2>2, <2>3, PlainStay
<1>6. CASE make_process_killable \/ pam_end
  <2>1. su.pc # "killed" /\ shell' = shell /\ (Goto("pam_end") \/ Goto("modes"))
    BY <1>6 DEF make_process_killable, pam_end, SuAt
  <2> QED BY <1>0, <2>1, MovesMoved, PlainStay
<1>7. CASE restore_terminal_modes
  <2>1. PICK st : /\ Exit(st) /\ (st = 0 => su.status = 0)
                  /\ su.status = 4 => st = 4
    BY <1>7 DEF restore_terminal_modes
  <2>2. su.pc # "killed" /\ shell' = shell BY <1>7 DEF restore_terminal_modes, SuAt, Same
  <2>3. MovesOn("exit", st, su.session) BY <1>0, <2>1, MovesMoved
  <2> QED BY <2>1, <2>2, <2>3, SignalsStay
<1> QED BY <1>1, <1>2, <1>3, <1>4, <1>5, <1>6, <1>7

(* Which signal has killed su where, and from where on none of the kernel  *)
(* does, is kept by every step.                                            *)
LEMMA SignalStep == ASSUME SuInv, SuNext PROVE Signals'
<1>0. /\ DOMAIN su = SuFields /\ DOMAIN shell = {"st", "code"}
      /\ shell.st # "exited" => su.status # 0
      /\ su.pc \in SuPoints
  BY DEF SuInv, ControlInv, Progress, Following
<1>1. CASE su' = su /\ (shell'.code = shell.code \/ shell.st # "exited")
  BY <1>0, <1>1 DEF SuInv, Signals, Target, entry
<1>2. CASE Operation("su") \/ ShellStep \/ ShellExits \/ (EditConf /\ UNCHANGED suvars)
  <2>1. su' = su /\ (shell'.code = shell.code \/ shell.st # "exited")
    BY <1>0, <1>2 DEF Operation, ShellStep, launch_callback_fn, Exec, ShellExits, suvars
  <2> QED BY <1>1, <2>1
<1>3. CASE Hide
  <2>1. /\ su.pc = "hide" /\ shell' = shell /\ su.sig = "none" /\ su.session # "closed"
        /\ su' = [su EXCEPT !.pc = "waiting", !.guarded = TRUE]
    BY <1>3 DEF Hide, SuAt, SuInv, Signals, ControlInv, Progress, Leaving
  <2>2. su'.pc = "waiting" /\ su'.guarded /\ su'.sig = "none" /\ su'.session # "closed"
        /\ su'.status = su.status /\ su'.reaped = su.reaped
    BY <1>0, <2>1 DEF SuFields
  <2> QED BY <2>1, <2>2 DEF SuInv, Signals
<1>4. CASE WaitFails
  <2>1. su.pc \in {"waiting", "final_wait"} /\ su.guarded /\ su.sig = "none"
    BY <1>4 DEF WaitFails, SuInv, Signals
  <2>2. su'.guarded = su.guarded /\ su'.sig = su.sig /\ su'.reaped = TRUE
    BY <1>0, <1>4 DEF WaitFails, SuFields
  <2> QED BY <2>1, <2>2 DEF Signals
<1>5. CASE Caught
  <2>1. su.pc = "waiting" /\ su.guarded /\ su.sig = "none"
    BY <1>5 DEF Caught, SuAt, SuInv, Signals
  <2>2. /\ su'.guarded = su.guarded /\ su'.sig = su.sig /\ su'.reaped = su.reaped
        /\ su'.status = su.status
        /\ shell' = shell \/ su.status # 0
    BY <1>0, <1>5 DEF Caught, SuFields
  <2> QED BY <2>1, <2>2 DEF SuInv, Signals
<1>6. CASE Kill
  <2>1. /\ su.pc \notin {"init", "exit", "killed"} /\ shell' = shell
        /\ su' = [su EXCEPT !.pc = "killed", !.sig = "SIGKILL", !.by = k.uid, !.at = su.pc]
    BY <1>6 DEF Kill, Same
  <2>2. /\ su'.sig = "SIGKILL" /\ su'.by = k.uid /\ su'.at = su.pc /\ su'.pc = "killed"
        /\ su'.guarded = su.guarded /\ su'.reaped = su.reaped /\ su'.status = su.status
        /\ su'.session = su.session /\ su'.user = su.user
    BY <1>0, <2>1 DEF SuFields
  <2>3. Target' = Target BY <2>2 DEF Target, entry
  <2>4. su.pc \in Hidden \cup Exposed
    BY <1>0, <2>1 DEF SuPoints, Hidden, Leaving, Exposed
  <2>5. su.pc \in Hidden => k.uid \in Target \cup {TEMP_UID} BY DEF SuInv, Identity, IdentityOf
  <2> QED BY <2>1, <2>2, <2>3, <2>4, <2>5 DEF SuInv, Signals
<1>7. CASE Signalled
  <2>1. PICK sig \in {"SIGHUP", "SIGALRM"} :
           Fatal(sig) /\ su' = [su EXCEPT !.pc = "killed", !.sig = sig, !.at = su.pc]
    BY <1>7 DEF Signalled
  <2>2. /\ su'.sig = sig /\ su'.at = su.pc /\ su'.pc = "killed"
        /\ su'.guarded = su.guarded /\ su'.reaped = su.reaped /\ su'.status = su.status
        /\ su'.session = su.session /\ shell' = shell
    BY <1>0, <1>7, <2>1 DEF SuFields, Signalled, Same
  <2>3. sig = "SIGHUP" => ~ su.guarded BY <2>1 DEF Fatal
  <2> QED BY <2>2, <2>3 DEF SuInv, Signals
<1> QED BY <1>2, <1>3, <1>4, <1>5, <1>6, <1>7, SignalsMain, SignalsEnds DEF SuNext, SuStep

-----------------------------------------------------------------------------
(* What a step of su does to its process                                   *)

SameIds(cr, l) == l.uid = cr.uid /\ l.gid = cr.gid /\ l.groups = cr.groups

(* Nothing has changed but the point of su, or a call of su's own was      *)
(* made: su has the credentials l.                                         *)
Rests(l) == /\ CapInv' /\ Tracking' /\ nopriv' = nopriv /\ Still("shell")
            /\ frame'["su"] \in {frame["su"], Blank} /\ creds'["su"] = l

(* No system call was made. *)
LEMMA SameRests == ASSUME SuInv, UNCHANGED vars PROVE Rests(k)
<1>1. CapInv' /\ Tracking' BY InvNext, TrackNext DEF SuInv
<1> QED BY <1>1 DEF Rests, Still, vars, k

(* One was made that does not overstep what capabilities allow. *)
LEMMA SetsRests ==
  ASSUME SuInv, NEW l, Sets("su", l), Legal(k, l) PROVE Rests(l) /\ frame'["su"] = Blank
<1>1. CapInv /\ Tracking /\ "su" \in Both /\ "shell" \in Both \ {"su"} BY DEF SuInv, Both
<1>2. /\ CapInv' /\ Tracking'
      /\ frame'["su"] = Blank /\ creds'["su"] = l /\ StillOthers("su") /\ nopriv' = nopriv
  BY <1>1, SetsDoes DEF k
<1> QED BY <1>1, <1>2 DEF Rests, StillOthers

(* A call begins. *)
Enters(op, arg) == /\ CapInv' /\ Tracking' /\ nopriv' = nopriv /\ Still("shell")
                   /\ Started(frame'["su"], op, arg, k) /\ creds'["su"] = k

(* su enters cap_setuid or cap_iab_set_proc. *)
LEMMA BeginCalls ==
  ASSUME SuInv, NEW op \in {"setuid", "iab_set_proc"}, NEW arg \in Args[op], Begin("su", op, arg)
  PROVE  Enters(op, arg)
<1>1. CapInv /\ Tracking /\ "su" \in Both /\ "shell" \in Both \ {"su"} BY DEF SuInv, Both
<1> QED BY <1>1, BeginDoes DEF Enters, StillOthers, k

(* Any uid will do for cap_setuid. *)
LEMMA UidCalls == ASSUME SuInv, NEW u \in Uids, Begin("su", "setuid", u) PROVE Enters("setuid", u)
  BY BeginCalls DEF Args

-----------------------------------------------------------------------------
(* How the invariant is kept by what su does                               *)

(* The shell is where it was, and for whom it was. *)
Elsewhere == /\ shell' = shell /\ data'["shell"] = data["shell"] /\ DOMAIN data' = DOMAIN data
             /\ conf' \in Configs /\ pcs' \in Arguments
SuKeeps == /\ su'.user = su.user /\ su'.all = su.all /\ su'.invoked_uid = su.invoked_uid

(* su is in no call afterwards. *)
LEMMA RestsCall ==
  ASSUME SuInv, NEW l, Rests(l), shell' = shell,
         (su'.pc \notin Calling /\ frame["su"].pc = "done") \/ su'.pc = "killed"
  PROVE  CapInv' /\ Tracking' /\ CallIs'
<1>1. Plain(frame'["su"]) /\ (frame["su"].pc = "done" => frame'["su"].pc = "done")
  BY BlankOK DEF SuInv, CallIs, CallOf, Rests
<1>2. CallOf(su.pc, frame["su"])'
  BY <1>1 DEF CallOf, Calling
<1> QED BY <1>2 DEF SuInv, CallIs, Rests, Still

(* su is in the call of cap_setuid that its point says. *)
LEMMA CallsCall ==
  ASSUME SuInv, NEW u, Enters("setuid", u), shell' = shell, SuKeeps,
         \/ su'.pc \in {"unkillable_end", "waiting"} /\ u = TEMP_UID
         \/ su'.pc = "setuid_end" /\ u = entry.uid
         \/ su'.pc = "pam_end"
  PROVE  CapInv' /\ Tracking' /\ CallIs'
<1>1. CallOf(su.pc, frame["su"])'
  BY DEF CallOf, Calling, Enters, Started, Plain, SuKeeps, entry
<1> QED BY <1>1 DEF SuInv, CallIs, Enters, Still

(* The ids are what the point asks for. *)
LEMMA SameIdentity ==
  ASSUME NEW q, NEW l, SameIds(k, l), IdentityOf(q, k) PROVE IdentityOf(q, l)
  BY DEF IdentityOf, SameIds

(* Then su is who it should be. *)
LEMMA IdentityStays ==
  ASSUME SuInv, SuKeeps, Still("shell"), shell' = shell, IdentityOf(su'.pc, creds'["su"])
  PROVE  Identity'
<1>1. entry' = entry /\ Target' = Target BY DEF SuKeeps, entry, Target
<1>2. IdentityOf(su.pc, k)' BY <1>1 DEF IdentityOf, SuKeeps, k
<1> QED BY <1>1, <1>2 DEF SuInv, Identity, Still

(* What main holds in "all" does not change. *)
LEMMA HoldingsStays ==
  ASSUME SuInv, SuKeeps, HoldingsOf(su.pc, k, frame["su"].working)'
  PROVE  Holdings'
  BY DEF SuInv, Holdings, SuKeeps

(* What is known of the shell and its rule does not change. *)
LEMMA TuplesStays ==
  ASSUME SuInv, RuleStays, Elsewhere, Still("shell"), TuplesOf(su.pc, k, data["su"])'
  PROVE  Tuples'
<1>1. Want' = Want BY DEF Want, RuleStays
<1>2. ShellTuples(shell.st, creds["shell"], data["shell"], frame["shell"])'
  BY <1>1 DEF SuInv, Tuples, ShellTuples, Elsewhere, Still, RuleStays, Has, Bounded, Exact
<1> QED BY <1>2 DEF SuInv, Tuples, Elsewhere, RuleStays, IsRule

(* All but where su and the shell are. *)
Effects == CapInv /\ Tracking /\ CallIs /\ Identity /\ Holdings /\ Tuples

(* Moves that make no system call: what q asks for, p had. *)
Further(p, q) ==
    /\ q \in {"init", "unkillable"} => p = "init"
    /\ q \in Hidden => p \in Hidden \/ k.uid = TEMP_UID
    /\ q \in Gided => p \in Gided
    /\ q \in Uided => p \in Uided
    /\ q \in Holding => p \in Holding
    /\ q = "close_session" => p \in Holding \cup Monitors
    /\ q \in Monitors => p \in Monitors
    /\ q \in BeforeSetcred => p \in BeforeSetcred
    /\ q \in Given => p \in Given
    /\ q \notin {"pam_setcred", "setcred_ok", "setcred_ignore"}

(* Such a move keeps the invariant. *)
LEMMA FurtherGoes ==
  ASSUME SuInv, UNCHANGED vars, SuKeeps, RuleStays, Elsewhere, su'.session = su.session,
         Further(su.pc, su'.pc),
         (su'.pc \notin Calling /\ frame["su"].pc = "done") \/ su'.pc = "killed",
         data'["su"] = data["su"] \/ su'.pc = "modes"
  PROVE  Effects'
<1>0. /\ Rests(k) /\ creds'["su"] = k /\ creds' = creds /\ frame' = frame
      /\ Still("shell") /\ shell' = shell 
  BY SameRests DEF Rests, Elsewhere, vars
<1>1. CapInv' /\ Tracking' /\ CallIs' BY <1>0, RestsCall
<1>2. Identity'
  <2>1. IdentityOf(su'.pc, k) BY DEF SuInv, Identity, IdentityOf, Further
  <2> QED BY <1>0, <2>1, IdentityStays
<1>3. Holdings'
  <2>1. su'.session = "closed" => k.I = {} /\ frame["su"].working.I = {}
    BY DEF SuInv, Holdings, HoldingsOf
  <2>2. HoldingsOf(su.pc, k, frame["su"].working)'
    BY <1>0, <2>1 DEF SuInv, Holdings, HoldingsOf, Further, k, SuKeeps
  <2> QED BY <2>2, HoldingsStays
<1>4. Tuples'
  <2>1. Want' = Want BY DEF Want, RuleStays
  <2>2. su'.pc # "setcred_iab" /\ "modes" \notin BeforeSetcred \cup Given
    BY DEF Calling, BeforeSetcred, Given
  <2>3. TuplesOf(su.pc, k, data["su"])'
    BY <1>0, <2>1, <2>2
    DEF SuInv, Tuples, TuplesOf, Further, k, RuleStays, Has, Bounded, Exact
  <2> QED BY <1>0, <2>3, TuplesStays
<1> QED BY <1>1, <1>2, <1>3, <1>4 DEF Effects

(* su goes to q and leaves alone what these parts speak of. *)
Steady(q) == SuKeeps /\ RuleStays /\ su'.session = su.session /\ su'.pc = q

(* The moves by name are such. *)
LEMMA GoesSteady ==
  ASSUME Progress
  PROVE  /\ \A q : Goto(q) \/ ErrTo(q) => Steady(q)
         /\ PamFails => Steady("auth_exit")
         /\ \A st : Exit(st) => Steady("exit")
         /\ \A q, st : su' = [su EXCEPT !.pc = q, !.status = st] => Steady(q)
<1>1. /\ \A q : Goto(q) \/ ErrTo(q) => Steady(q)
      /\ PamFails => Steady("auth_exit")
      /\ \A st : Exit(st) => Steady("exit")
  BY SuUpdates DEF Just, SuGoes, Steady, SuKeeps
<1>2. ASSUME NEW q, NEW st, su' = [su EXCEPT !.pc = q, !.status = st] PROVE Steady(q)
  BY <1>2 DEF Progress, SuFields, Steady, SuKeeps, RuleStays
<1> QED BY <1>1, <1>2

(* Nothing else has changed. *)
LEMMA SameElsewhere == ASSUME SuInv, UNCHANGED <<pamvars, shell>> PROVE Elsewhere /\ data' = data
  BY DEF SuInv, Tuples, Elsewhere, pamvars

(* The steps without a call. *)
LEMMA SameGoes ==
  ASSUME SuInv, Same, NEW q, Steady(q), Further(su.pc, q),
         (q \notin Calling /\ frame["su"].pc = "done") \/ q = "killed"
  PROVE  Effects'
<1>1. UNCHANGED vars /\ Elsewhere /\ data' = data BY SameElsewhere DEF Same
<1> QED BY <1>1, FurtherGoes DEF Steady

(* The steps of main in which su makes no system call of its own. *)
LEMMA SameEffects ==
  ASSUME SuInv, \/ do_pam_init \/ CredentialsRefused \/ TCapsFails \/ UtmpFails
                \/ LaunchUnprepared \/ cap_launch \/ WaitEnds \/ WaitFails
                \/ restore_terminal_modes \/ Kill \/ Signalled
  PROVE  Effects'
<1>0. Progress BY DEF SuInv, ControlInv
<1> USE DEF Further, Hidden, Gided, Uided, Holding, Monitors, BeforeSetcred, Given, Granted, Opened,
            Setcred, Calling
<1>1. CASE do_pam_init
  <2>1. /\ su.pc = "init" /\ frame["su"].pc = "done" /\ Same
        /\ Steady("unkillable") \/ Steady("exit")
    BY <1>0, <1>1, GoesSteady DEF do_pam_init, SuAt, f
  <2>2. Further("init", "unkillable") /\ Further("init", "exit") OBVIOUS
  <2> QED BY <2>1, <2>2, SameGoes
<1>2. CASE CredentialsRefused
  <2>1. su.pc = "credentials" /\ frame["su"].pc = "done" /\ Same /\ Steady("auth_exit")
    BY <1>0, <1>2, GoesSteady DEF CredentialsRefused, SuAt, f
  <2>2. Further("credentials", "auth_exit") OBVIOUS
  <2> QED BY <2>1, <2>2, SameGoes
<1>3. CASE TCapsFails \/ UtmpFails
  <2>1. su.pc = "session" /\ frame["su"].pc = "done" /\ Same /\ Steady("delete_cred")
    BY <1>0, <1>3, GoesSteady DEF TCapsFails, UtmpFails, SuAt, f
  <2>2. Further("session", "delete_cred") OBVIOUS
  <2> QED BY <2>1, <2>2, SameGoes
<1>4. CASE LaunchUnprepared
  <2>1. su.pc = "launch" /\ frame["su"].pc = "done" /\ Same /\ Steady("close_session")
    BY <1>0, <1>4, GoesSteady DEF LaunchUnprepared, SuAt, f
  <2>2. Further("launch", "close_session") OBVIOUS
  <2> QED BY <2>1, <2>2, SameGoes
<1>5. CASE cap_launch
  <2>1. su.pc = "launching" /\ frame["su"].pc = "done" /\ Same /\ Steady("monitor")
    BY <1>0, <1>5, GoesSteady DEF cap_launch, SuAt, f
  <2>2. Further("launching", "monitor") OBVIOUS
  <2> QED BY <2>1, <2>2, SameGoes
<1>6. CASE WaitEnds
  <2>1. /\ su.pc \in {"waiting", "final_wait"} /\ frame["su"].pc = "done" /\ Same
        /\ Steady("close_session")
    BY <1>0, <1>6, GoesSteady DEF WaitEnds, f
  <2>2. Further("waiting", "close_session") /\ Further("final_wait", "close_session") OBVIOUS
  <2> QED BY <2>1, <2>2, SameGoes
<1>7. CASE restore_terminal_modes
  <2>1. su.pc = "modes" /\ frame["su"].pc = "done" /\ Same /\ Steady("exit")
    BY <1>0, <1>7, GoesSteady DEF restore_terminal_modes, SuAt, f
  <2>2. Further("modes", "exit") OBVIOUS
  <2> QED BY <2>1, <2>2, SameGoes
<1>8. CASE Kill \/ Signalled
  <2>0. DOMAIN su = SuFields /\ Same BY <1>0, <1>8 DEF Progress, Kill, Signalled
  <2>1. Steady("killed")
    <3>1. CASE Kill
      <4>1. su' = [su EXCEPT !.pc = "killed", !.sig = "SIGKILL", !.by = k.uid, !.at = su.pc]
        BY <3>1 DEF Kill
      <4> QED BY <2>0, <4>1 DEF SuFields, Steady, SuKeeps, RuleStays
    <3>2. CASE Signalled
      <4>1. PICK sig : su' = [su EXCEPT !.pc = "killed", !.sig = sig, !.at = su.pc]
        BY <3>2 DEF Signalled
      <4> QED BY <2>0, <4>1 DEF SuFields, Steady, SuKeeps, RuleStays
    <3> QED BY <1>8, <3>1, <3>2
  <2>2. Further(su.pc, "killed") OBVIOUS
  <2> QED BY <2>0, <2>1, <2>2, SameGoes
<1>9. CASE WaitFails
  <2>0. /\ DOMAIN su = SuFields
        /\ su.pc \in {"waiting", "final_wait"} /\ frame["su"].pc = "done" /\ Same
    BY <1>0, <1>9 DEF WaitFails, f, Progress
  <2>a. su' = [su EXCEPT !.pc = "final_wait", !.reaped = TRUE] => Steady("final_wait")
    BY <2>0 DEF SuFields, Steady, SuKeeps, RuleStays
  <2>b. ASSUME NEW code,
               su' = [su EXCEPT !.pc = "close_session", !.reaped = TRUE, !.status = code]
        PROVE  Steady("close_session")
    BY <2>0, <2>b DEF SuFields, Steady, SuKeeps, RuleStays
  <2>1. Steady("close_session") \/ Steady("final_wait")
    BY <1>9, <2>a, <2>b DEF WaitFails
  <2>2. /\ Further("waiting", "close_session") /\ Further("final_wait", "close_session")
        /\ Further("waiting", "final_wait") /\ Further("final_wait", "final_wait")
    OBVIOUS
  <2> QED BY <2>0, <2>1, <2>2, SameGoes
<1> QED BY <1>1, <1>2, <1>3, <1>4, <1>5, <1>6, <1>7, <1>8, <1>9

(* The calls of cap_setuid. *)
LEMMA CallGoes ==
  ASSUME SuInv, NEW u \in Uids, Begin("su", "setuid", u), UNCHANGED <<pamvars, shell>>,
         NEW q, Steady(q), Further(su.pc, q),
         \/ q \in {"unkillable_end", "waiting"} /\ u = TEMP_UID
         \/ q = "setuid_end" /\ u = entry.uid
         \/ q = "pam_end"
  PROVE  Effects'
<1>0. /\ Enters("setuid", u) /\ Elsewhere /\ shell' = shell /\ data' = data
      /\ SuKeeps /\ RuleStays /\ su'.pc = q /\ su'.session = su.session
  BY UidCalls, SameElsewhere DEF Steady, Elsewhere
<1>1. /\ creds'["su"] = k /\ k' = k /\ Still("shell") 
      /\ frame'["su"].working.I = {}
  BY <1>0 DEF Enters, Started, NoCaps, k
<1>2. CapInv' /\ Tracking' /\ CallIs' BY <1>0, CallsCall
<1>3. Identity'
  <2>1. IdentityOf(q, k) BY DEF SuInv, Identity, IdentityOf, Further
  <2> QED BY <1>0, <1>1, <2>1, IdentityStays
<1>4. Holdings'
  <2>1. su.session = "closed" => k.I = {} BY DEF SuInv, Holdings, HoldingsOf
  <2>2. HoldingsOf(su.pc, k, frame["su"].working)'
    BY <1>0, <1>1, <2>1 DEF SuInv, Holdings, HoldingsOf, Further, SuKeeps
  <2> QED BY <1>0, <2>2, HoldingsStays
<1>5. Tuples'
  <2>1. q \notin Given \cup {"setcred_iab"} BY DEF Given
  <2>2. TuplesOf(su.pc, k, data["su"])'
    BY <1>0, <1>1, <2>1 DEF SuInv, Tuples, TuplesOf, Further, RuleStays
  <2> QED BY <1>0, <1>1, <2>2, TuplesStays
<1> QED BY <1>2, <1>3, <1>4, <1>5 DEF Effects

(* What a cap_setuid that has returned says. *)
LEMMA UidCalled ==
  ASSUME SuInv, su.pc \in {"unkillable_end", "setuid_end"}, f("su").pc = "done", Called
  PROVE  k.uid = frame["su"].arg
<1> DEFINE g == frame["su"]
<1>1. g.clean /\ g.op = "setuid" /\ g.pc = "done" /\ g.ret = 0
  BY DEF SuInv, CallIs, CallOf, Plain, Called, f
<1>2. Tracks(g, k)
  <2>1. "su" \in Threads /\ f("su") = g /\ c("su") = k BY Processes DEF SuInv, Both, k
  <2> QED BY <2>1 DEF SuInv, Tracking
<1> HIDE DEF g
<1>3. UidFollows(g.pc, g.ret, g.working, g.arg, g.start, k) BY <1>1, <1>2 DEF Tracks, Follows
<1>4. k.uid = g.arg BY <1>1, <1>3 DEF UidFollows, NoMemory
<1> QED BY <1>4 DEF g

(* The steps that begin, end or do without a cap_setuid, and pam_end. *)
LEMMA CallEffects ==
  ASSUME SuInv, \/ make_process_unkillable \/ UnkillableEnd \/ CredentialsUid \/ Hide
                \/ make_process_killable \/ pam_end
  PROVE  Effects'
<1>0. Progress /\ TEMP_UID \in Uids BY SuAssumption DEF SuInv, ControlInv
<1> USE DEF Further, Hidden, Gided, Uided, Holding, Monitors, BeforeSetcred, Given, Granted, Opened,
            Setcred, Calling
<1>1. CASE make_process_unkillable
  <2>1. su.pc = "unkillable" /\ frame["su"].pc = "done" BY <1>1 DEF make_process_unkillable, SuAt, f
  <2>2. CASE su.invoked_uid = TEMP_UID /\ Steady("authenticate") /\ Same
    <3>1. k.uid = TEMP_UID BY <2>1, <2>2 DEF SuInv, Identity, IdentityOf
    <3>2. Further(su.pc, "authenticate") BY <2>1, <3>1
    <3> QED BY <2>1, <2>2, <3>2, SameGoes
  <2>3. CASE /\ Begin("su", "setuid", TEMP_UID) /\ Steady("unkillable_end")
             /\ UNCHANGED <<pamvars, shell>>
    <3>1. Further(su.pc, "unkillable_end") BY <2>1
    <3> QED BY <1>0, <2>3, <3>1, CallGoes
  <2> QED BY <1>0, <1>1, <2>2, <2>3, GoesSteady DEF make_process_unkillable
<1>2. CASE UnkillableEnd
  <2>1. /\ su.pc = "unkillable_end" /\ frame["su"].pc = "done" /\ f("su").pc = "done" /\ Same
        /\ (Called /\ Steady("authenticate")) \/ Steady("exit")
    BY <1>0, <1>2, GoesSteady DEF UnkillableEnd, SuAt, f
  <2>2. CASE Called /\ Steady("authenticate")
    <3>1. k.uid = TEMP_UID BY <2>1, <2>2, UidCalled DEF SuInv, CallIs, CallOf
    <3>2. Further(su.pc, "authenticate") BY <2>1, <3>1
    <3> QED BY <2>1, <2>2, <3>2, SameGoes
  <2>3. CASE Steady("exit")
    <3>1. Further(su.pc, "exit") BY <2>1
    <3> QED BY <2>1, <2>3, <3>1, SameGoes
  <2> QED BY <2>1, <2>2, <2>3
<1>3. CASE CredentialsUid
  <2>1. /\ su.pc = "setuid" /\ Steady("setuid_end") /\ UNCHANGED <<pamvars, shell>>
        /\ Begin("su", "setuid", entry.uid)
    BY <1>0, <1>3, GoesSteady DEF CredentialsUid, SuAt
  <2>2. entry.uid \in Uids
    BY <2>1, <1>0, SuAssumption DEF Progress, Refused, entry
  <2>3. Further(su.pc, "setuid_end") BY <2>1
  <2> QED BY <2>1, <2>2, <2>3, CallGoes
<1>4. CASE Hide
  <2>1. /\ su.pc = "hide" /\ Steady("waiting") /\ UNCHANGED <<pamvars, shell>>
        /\ Begin("su", "setuid", TEMP_UID)
    BY <1>0, <1>4 DEF Hide, SuAt, Progress, SuFields, Steady, SuKeeps, RuleStays
  <2>2. Further(su.pc, "waiting") BY <2>1
  <2> QED BY <1>0, <2>1, <2>2, CallGoes
<1>5. CASE make_process_killable
  <2>1. /\ su.pc = "auth_exit" /\ Steady("pam_end") /\ UNCHANGED <<pamvars, shell>>
        /\ Begin("su", "setuid", su.invoked_uid)
    BY <1>0, <1>5, GoesSteady DEF make_process_killable, SuAt
  <2>2. su.invoked_uid \in Uids BY DEF SuInv, ControlInv, Terminal
  <2>3. Further(su.pc, "pam_end") BY <2>1
  <2> QED BY <2>1, <2>2, <2>3, CallGoes
<1>6. CASE pam_end
  <2>1. /\ su.pc = "pam_end" /\ frame["su"].pc = "done" /\ Steady("modes")
        /\ data' = [data EXCEPT !["su"] = Nothing] /\ UNCHANGED <<conf, pcs, shell>>
        /\ UNCHANGED vars
    BY <1>0, <1>6, GoesSteady DEF pam_end, SuAt, f, Applies
  <2>2. Elsewhere BY <2>1 DEF Elsewhere, SuInv, Tuples
  <2>3. Further(su.pc, "modes") BY <2>1
  <2> QED BY <2>1, <2>2, <2>3, FurtherGoes DEF Steady
<1> QED BY <1>1, <1>2, <1>3, <1>4, <1>5, <1>6

(* The system calls of su's own. *)
LEMMA QuietGoes ==
  ASSUME SuInv, NEW l, Sets("su", l), Legal(k, l), UNCHANGED <<pamvars, shell>>,
         SuKeeps, RuleStays, frame["su"].pc = "done", NEW q, su'.pc = q, q \notin Calling,
         IdentityOf(q, l),
         q \in Holding => l.P = su.all.P,
         q # "close_session",
         q \in Monitors \/ su'.session = "closed" => l.I = {},
         q \in BeforeSetcred => su.pc \in BeforeSetcred,
         q = "pam_setcred" => l.I = {} /\ l.A = {},
         q \in Given \ Setcred => Has(l, data["su"]),
         q \notin Setcred
  PROVE  Effects'
<1>0. /\ Rests(l) /\ frame'["su"] = Blank /\ creds'["su"] = l /\ Still("shell")
      /\ Elsewhere /\ shell' = shell /\ data' = data
  BY SetsRests, SameElsewhere DEF Rests, Elsewhere
<1>1. CapInv' /\ Tracking' /\ CallIs' BY <1>0, RestsCall
<1>2. Identity' BY <1>0, IdentityStays
<1>3. Holdings'
  <2>1. frame'["su"].working.I = {} BY <1>0, BlankOK DEF NoCaps
  <2>2. HoldingsOf(su.pc, k, frame["su"].working)' BY <1>0, <2>1 DEF HoldingsOf, SuKeeps, k
  <2> QED BY <2>2, HoldingsStays
<1>4. Tuples'
  <2>1. Want' = Want BY DEF Want, RuleStays
  <2>2. /\ q \in BeforeSetcred \cup {"setcred_iab"} => data["su"] = Nothing /\ ~ su.applied
        /\ q \in {"setcred_ok", "setcred_ignore"} => ~ su.applied
    BY DEF SuInv, Tuples, TuplesOf, Setcred
  <2>3. Has(l, data["su"]) => Has(k, data["su"])'
    BY <1>0, <2>1 DEF k, RuleStays, Has, Bounded, Exact
  <2>4. TuplesOf(su.pc, k, data["su"])'
    BY <1>0, <2>2, <2>3 DEF TuplesOf, k, RuleStays
  <2> QED BY <1>0, <2>4, TuplesStays
<1> QED BY <1>1, <1>2, <1>3, <1>4 DEF Effects

(* What su has is what the kernel allows. *)
LEMMA SuCred == ASSUME SuInv PROVE CredOK(k) /\ cap_get_proc(k) \in CapT /\ su.all \in CapT
<1>1. "su" \in Threads /\ c("su") = k BY Processes DEF SuInv, Both, k
<1> QED BY <1>1, Here DEF SuInv, Holdings

(* authenticate_user and user_accounting. *)
LEMMA PamEffects == ASSUME SuInv, authenticate_user \/ user_accounting PROVE Effects'
<1> DEFINE l == Capset(k, su.all)
<1>0. Progress /\ CredOK(k) /\ su.all \in CapT BY SuCred DEF SuInv, ControlInv
<1>1. Legal(k, l) /\ SameIds(k, l) BY <1>0, CapsetLegal, CapsetKeeps DEF SameIds
<1>2. /\ su.pc \in {"authenticate", "accounting"} /\ frame["su"].pc = "done"
      /\ Sets("su", l) /\ UNCHANGED <<pamvars, shell>>
  BY DEF authenticate_user, user_accounting, SuAt, f
<1>3. \/ Steady("auth_exit") \/ Steady("accounting") \/ Steady("credentials")
  <2>1. \/ ErrTo("auth_exit") \/ PamFails
        \/ su' = [su EXCEPT !.pc = "accounting", !.auth = TRUE]
        \/ su' = [su EXCEPT !.pc = "credentials", !.acct = TRUE]
    BY DEF authenticate_user, user_accounting
  <2>2. DOMAIN su = SuFields BY <1>0 DEF Progress
  <2>3. su' = [su EXCEPT !.pc = "accounting", !.auth = TRUE] => Steady("accounting")
    BY <2>2 DEF SuFields, Steady, SuKeeps, RuleStays
  <2>4. su' = [su EXCEPT !.pc = "credentials", !.acct = TRUE] => Steady("credentials")
    BY <2>2 DEF SuFields, Steady, SuKeeps, RuleStays
  <2> QED BY <1>0, <2>1, <2>3, <2>4, GoesSteady
<1> HIDE DEF l
<1>4. su.session # "closed" BY <1>0, <1>2 DEF Progress, Leaving
<1>5. PICK q \in {"auth_exit", "accounting", "credentials"} : Steady(q) BY <1>3
<1>6. /\ q \notin Calling \cup Holding \cup Monitors \cup Given \cup Setcred
      /\ q \in Hidden /\ q \notin Gided \cup Uided /\ q \notin {"pam_setcred", "close_session"}
      /\ q \notin {"init", "unkillable"}
      /\ su.pc \in Hidden /\ su.pc \in BeforeSetcred
  BY <1>2 DEF Calling, Holding, Monitors, Given, Setcred, Hidden, Gided, Uided, BeforeSetcred
<1>7. IdentityOf(q, k) BY <1>6 DEF SuInv, Identity, IdentityOf
<1>9. IdentityOf(q, l) BY <1>1, <1>7, SameIdentity
<1>8. SuKeeps /\ RuleStays /\ su'.pc = q /\ su'.session # "closed" BY <1>4, <1>5 DEF Steady
<1> QED BY <1>1, <1>2, <1>6, <1>8, <1>9, QuietGoes

(* set_credentials *)
LEMMA GroupsSet ==
  ASSUME NEW cr, CredOK(cr), NEW g \in Gids, CAP_SETGID \in cr.E
  PROVE  LET l == Setgid(Setgroups(cr, g), g) IN
         Legal(cr, l) /\ l.uid = cr.uid /\ l.gid = g /\ l.groups = g
<1> DEFINE m == Setgroups(cr, g)
           l == Setgid(m, g)
<1>1. PICK r : r \in Roots BY CredsAssumption
<1>2. Legal(cr, m) /\ CredOK(m) BY <1>1, OthersLegal DEF Legal
<1>3. m = [cr EXCEPT !.groups = g] BY DEF Setgroups, SetgroupsOk
<1>4. m.E = cr.E /\ m.uid = cr.uid /\ m.groups = g
  <2> HIDE DEF m
  <2> QED BY <1>3 DEF CredOK, Cred
<1>5. Legal(m, l) BY <1>1, <1>2, OthersLegal
<1>6. l = [m EXCEPT !.gid = g]
  <2> HIDE DEF m
  <2> QED BY <1>4 DEF Setgid, SetgidOk
<1> HIDE DEF m, l
<1>7. l.uid = m.uid /\ l.gid = g /\ l.groups = m.groups BY <1>2, <1>6 DEF CredOK, Cred
<1>8. Legal(cr, l) BY <1>2, <1>5 DEF Legal
<1>9. l.uid = cr.uid /\ l.gid = g /\ l.groups = g BY <1>4, <1>7
<1> QED BY <1>8, <1>9 DEF l, m

(* The groups are those of the user. *)
LEMMA GroupsEffects == ASSUME SuInv, CredentialsGroups PROVE Effects'
<1> DEFINE w == [cap_get_proc(k) EXCEPT !.E = @ \cup {CAP_SETGID}]
           gk == Capset(k, w)
           l == Setgid(Setgroups(gk, entry.gid), entry.gid)
<1>0. Progress /\ CredOK(k) /\ cap_get_proc(k) \in CapT BY SuCred DEF SuInv, ControlInv
<1>1. su.pc = "credentials" /\ frame["su"].pc = "done" /\ ~ Refused(su.user)
  BY DEF CredentialsGroups, SuAt, f
<1>2. w \in CapT /\ CAP_SETGID \in w.E BY <1>0, CredsAssumption DEF CapT
<1>3. \/ ~ CapsetOk(k, w) /\ ErrTo("auth_exit") /\ Same
      \/ /\ CapsetOk(k, w) /\ UNCHANGED <<pamvars, shell>>
         /\ \/ Sets("su", l) /\ Goto("setuid")
            \/ Sets("su", gk) /\ PamFails
            \/ Sets("su", Setgroups(gk, entry.gid)) /\ PamFails
  BY DEF CredentialsGroups
<1> HIDE DEF w, gk, l
<1>4. su.session # "closed" BY <1>0, <1>1 DEF Progress, Leaving
<1>5. su.pc \in Hidden /\ su.pc \in BeforeSetcred /\ k.uid \in Target \cup {TEMP_UID}
  BY <1>1 DEF Hidden, BeforeSetcred, SuInv, Identity, IdentityOf
<1>6. CASE ErrTo("auth_exit") /\ Same
  <2>1. Steady("auth_exit") BY <1>0, <1>6, GoesSteady
  <2>2. Further(su.pc, "auth_exit")
    BY <1>1 DEF Further, Hidden, Gided, Uided, Holding, Monitors, BeforeSetcred, Given, Setcred
  <2>3. "auth_exit" \notin Calling BY DEF Calling
  <2> QED BY <1>1, <1>6, <2>1, <2>2, <2>3, SameGoes
<1>7. /\ CredOK(gk) /\ Legal(k, gk) /\ SameIds(k, gk)
      /\ CapsetOk(k, w) => CAP_SETGID \in gk.E
  BY <1>0, <1>2, CapsetLegal, CapsetKeeps DEF gk, SameIds
<1>8. CASE Sets("su", gk) /\ PamFails /\ UNCHANGED <<pamvars, shell>>
  <2> DEFINE q == "auth_exit"
  <2>1. /\ q \notin Calling \cup Holding \cup Monitors \cup Given \cup Setcred \cup Gided \cup Uided
        /\ q \notin BeforeSetcred /\ q \notin {"pam_setcred", "close_session", "init", "unkillable"}
    BY DEF Calling, Holding, Monitors, Given, Setcred, Gided, Uided, BeforeSetcred
  <2>2. IdentityOf(q, k) BY <1>5, <2>1 DEF IdentityOf
  <2>3. Steady(q) BY <1>0, <1>8, GoesSteady
  <2>4. SuKeeps /\ RuleStays /\ su'.pc = q /\ su'.session # "closed" BY <1>4, <2>3 DEF Steady
  <2>5. IdentityOf(q, gk) BY <1>7, <2>2, SameIdentity
  <2> HIDE DEF q
  <2> QED BY <1>1, <1>7, <1>8, <2>1, <2>4, <2>5, QuietGoes
<1>9. CASE CapsetOk(k, w) /\ Sets("su", l) /\ Goto("setuid") /\ UNCHANGED <<pamvars, shell>>
  <2> DEFINE q == "setuid"
  <2>1. /\ q \notin Calling \cup Holding \cup Monitors \cup Given \cup Setcred \cup Uided
        /\ q \notin {"pam_setcred", "close_session", "init", "unkillable"}
    BY DEF Calling, Holding, Monitors, Given, Setcred, Uided
  <2>2. entry.gid \in Gids BY <1>1, SuAssumption DEF Refused, entry
  <2>3. Legal(gk, l) /\ l.uid = gk.uid /\ l.gid = entry.gid /\ l.groups = entry.gid
    BY <1>7, <1>9, <2>2, GroupsSet DEF l
  <2>4. Legal(k, l) /\ l.uid = k.uid BY <1>7, <2>3 DEF Legal, SameIds
  <2>5. IdentityOf(q, l) BY <1>5, <2>1, <2>3, <2>4 DEF IdentityOf
  <2>6. Steady(q) BY <1>0, <1>9, GoesSteady
  <2>7. SuKeeps /\ RuleStays /\ su'.pc = q /\ su'.session # "closed" BY <1>4, <2>6 DEF Steady
  <2> HIDE DEF q
  <2> QED BY <1>1, <1>5, <1>9, <2>1, <2>4, <2>5, <2>7, QuietGoes
<1>10. CASE Sets("su", Setgroups(gk, entry.gid)) /\ PamFails /\ UNCHANGED <<pamvars, shell>>
  <2> DEFINE q == "auth_exit"
             m == Setgroups(gk, entry.gid)
  <2>1. /\ q \notin Calling \cup Holding \cup Monitors \cup Given \cup Setcred \cup Gided \cup Uided
        /\ q \notin BeforeSetcred /\ q \notin {"pam_setcred", "close_session", "init", "unkillable"}
    BY DEF Calling, Holding, Monitors, Given, Setcred, Gided, Uided, BeforeSetcred
  <2>2. entry.gid \in Gids BY <1>1, SuAssumption DEF Refused, entry
  <2>3. PICK r : r \in Roots BY CredsAssumption
  <2>4. Legal(gk, m) BY <1>7, <2>2, <2>3, OthersLegal
  <2>5. m.uid = gk.uid BY <1>7 DEF Setgroups, CredOK, Cred
  <2> HIDE DEF m
  <2>6. Legal(k, m) /\ m.uid = k.uid BY <1>7, <2>4, <2>5 DEF Legal, SameIds
  <2>7. IdentityOf(q, m) BY <1>5, <2>1, <2>6 DEF IdentityOf
  <2>8. Steady(q) BY <1>0, <1>10, GoesSteady
  <2>9. SuKeeps /\ RuleStays /\ su'.pc = q /\ su'.session # "closed" BY <1>4, <2>8 DEF Steady
  <2> HIDE DEF q
  <2> QED BY <1>1, <1>10, <2>1, <2>6, <2>7, <2>9, QuietGoes DEF m
<1> QED BY <1>3, <1>6, <1>8, <1>9, <1>10

(* The uid is that of the user, and "all" is raised; nothing is inherited. *)
LEMMA RaiseEffects == ASSUME SuInv, CredentialsRaise PROVE Effects'
<1> DEFINE l == Capset(k, su.all)
<1>0. Progress /\ CredOK(k) /\ su.all \in CapT /\ su.all.I = {}
  BY SuCred DEF SuInv, ControlInv, Holdings
<1>1. /\ su.pc = "setuid_end" /\ frame["su"].pc = "done" /\ f("su").pc = "done"
      /\ UNCHANGED <<pamvars, shell>>
      /\ \/ Called /\ CapsetOk(k, su.all) /\ Sets("su", l) /\ Goto("pam_setcred")
         \/ PamFails /\ UNCHANGED vars
  BY DEF CredentialsRaise, SuAt, f
<1>2. CASE PamFails /\ UNCHANGED vars
  <2>1. Steady("auth_exit") /\ Same BY <1>0, <1>1, <1>2, GoesSteady DEF Same
  <2>2. Further(su.pc, "auth_exit") /\ "auth_exit" \notin Calling
    BY <1>1 DEF Further, Hidden, Gided, Uided, Holding, Monitors, BeforeSetcred, Given, Setcred,
                Calling, Granted
  <2> QED BY <1>1, <2>1, <2>2, SameGoes
<1>3. CASE Called /\ CapsetOk(k, su.all) /\ Sets("su", l) /\ Goto("pam_setcred")
  <2> DEFINE q == "pam_setcred"
  <2>1. /\ Legal(k, l) /\ SameIds(k, l) /\ l.P = su.all.P /\ l.I = {} /\ l.A = {}
    BY <1>0, <1>3, CapsetLegal, CapsetKeeps DEF SameIds
  <2> HIDE DEF l
  <2>2. /\ q \notin Calling \cup Monitors \cup Given \cup Setcred
        /\ q \notin {"close_session", "init", "unkillable"}
        /\ su.pc \in BeforeSetcred /\ su.pc \in Hidden /\ su.pc \in Gided
    BY <1>1 DEF Calling, Monitors, Given, Setcred, BeforeSetcred, Hidden, Gided, Granted
  <2>3. k.uid = entry.uid BY <1>1, <1>3, UidCalled DEF SuInv, CallIs, CallOf
  <2>4. /\ k.uid \in Target \cup {TEMP_UID} /\ k.gid = entry.gid /\ k.groups = entry.gid
    BY <2>2 DEF SuInv, Identity, IdentityOf
  <2>5. IdentityOf(q, k) BY <2>2, <2>3, <2>4 DEF IdentityOf
  <2>6. IdentityOf(q, l) BY <2>1, <2>5, SameIdentity
  <2>7. su.session # "closed" BY <1>0, <1>1 DEF Progress, Leaving
  <2>8. Steady(q) BY <1>0, <1>3, GoesSteady
  <2>9. SuKeeps /\ RuleStays /\ su'.pc = q /\ su'.session # "closed" BY <2>7, <2>8 DEF Steady
  <2> HIDE DEF q
  <2> QED BY <1>1, <1>3, <2>1, <2>2, <2>6, <2>9, QuietGoes
<1> QED BY <1>1, <1>2, <1>3

(* The terminal and the session: what the rule has given is left alone. *)
LEMMA HasStays ==
  ASSUME NEW l, NEW kept, l.I = k.I, l.A = k.A, l.B = k.B, Has(k, kept) PROVE Has(l, kept)
  BY DEF Has, Bounded, Exact

(* change_terminal_owner *)
LEMMA TerminalEffects == ASSUME SuInv, change_terminal_owner PROVE Effects'
<1> DEFINE l == Chown(k)
<1>0. Progress /\ CredOK(k) BY SuCred DEF SuInv, ControlInv
<1>1. /\ su.pc = "terminal" /\ frame["su"].pc = "done" /\ UNCHANGED <<pamvars, shell>>
      /\ \/ Goto("session") /\ UNCHANGED vars
         \/ ErrTo("auth_exit") /\ UNCHANGED vars
         \/ /\ su' = [su EXCEPT !.pc = "session", !.terminal_uid = su.tty, !.tty = entry.uid]
            /\ UNCHANGED vars
         \/ MayChown /\ Goto("session") /\ Sets("su", l)
  BY DEF change_terminal_owner, SuAt, f
<1>2. CASE UNCHANGED vars
  <2>1. su' = [su EXCEPT !.pc = "session", !.terminal_uid = su.tty, !.tty = entry.uid] =>
           Steady("session")
    BY <1>0 DEF Progress, SuFields, Steady, SuKeeps, RuleStays
  <2>2. Steady("session") \/ Steady("auth_exit")
    <3>1. Goto("session") => Steady("session") BY <1>0, GoesSteady
    <3>2. ErrTo("auth_exit") => Steady("auth_exit") BY <1>0, GoesSteady
    <3> QED BY <1>1, <2>1, <3>1, <3>2
  <2>3. /\ Further(su.pc, "auth_exit") /\ "auth_exit" \notin Calling
        /\ Further(su.pc, "session") /\ "session" \notin Calling
    BY <1>1 DEF Further, Hidden, Gided, Uided, Holding, Monitors, BeforeSetcred, Given, Setcred,
                Calling, Granted
  <2>4. Same BY <1>1, <1>2 DEF Same
  <2> QED BY <1>1, <2>2, <2>3, <2>4, SameGoes
<1>3. CASE MayChown /\ Goto("session") /\ Sets("su", l)
  <2> DEFINE q == "session"
             e == k.E \cup {CAP_CHOWN}
  <2>1. l = [k EXCEPT !.E = e] /\ e \subseteq k.P /\ e \in SUBSET Caps
    BY <1>0, <1>3, SuAssumption DEF Chown, MayChown, CredOK, Cred
  <2> HIDE DEF l, e
  <2>2. /\ l.P = k.P /\ l.I = k.I /\ l.A = k.A /\ l.B = k.B /\ l.E = e /\ SameIds(k, l)
        /\ l.sec = k.sec /\ l.ambient = k.ambient /\ l \in Cred
    BY <1>0, <2>1 DEF CredOK, Cred, SameIds
  <2>3. CredOK(l) BY <1>0, <2>1, <2>2 DEF CredOK
  <2>4. Legal(k, l)
    <3>1. Empty(k) => Empty(l) BY <2>1, <2>2 DEF Empty
    <3>2. Sealed(k) => Sealed(l) BY <2>2 DEF Sealed
    <3> QED BY <2>3, <3>1, <3>2 DEF Legal
  <2>5. /\ q \notin Calling \cup Monitors \cup Setcred \cup BeforeSetcred
        /\ q \notin {"close_session", "init", "unkillable", "pam_setcred"}
        /\ su.pc \in Hidden /\ su.pc \in Gided /\ su.pc \in Uided /\ su.pc \in Holding
        /\ su.pc \in Given
    BY <1>1 DEF Calling, Monitors, Given, Setcred, BeforeSetcred, Hidden, Gided, Uided, Holding,
                Granted
  <2>6. IdentityOf(q, k) BY <2>5 DEF SuInv, Identity, IdentityOf
  <2>7. IdentityOf(q, l) BY <2>2, <2>6, SameIdentity
  <2>8. l.P = su.all.P BY <2>2, <2>5 DEF SuInv, Holdings, HoldingsOf
  <2>9. Has(l, data["su"])
    <3>1. Has(k, data["su"]) BY <2>5 DEF SuInv, Tuples, TuplesOf
    <3> QED BY <2>2, <3>1, HasStays
  <2>10. su.session # "closed" BY <1>0, <1>1 DEF Progress, Leaving
  <2>11. Steady(q) BY <1>0, <1>3, GoesSteady
  <2>12. SuKeeps /\ RuleStays /\ su'.pc = q /\ su'.session # "closed" BY <2>10, <2>11 DEF Steady
  <2> HIDE DEF q
  <2> QED BY <1>1, <1>3, <2>4, <2>5, <2>7, <2>8, <2>9, <2>12, QuietGoes
<1> QED BY <1>1, <1>2, <1>3

(* open_session *)
LEMMA SessionEffects == ASSUME SuInv, open_session PROVE Effects'
<1> DEFINE w == [cap_get_proc(k) EXCEPT !.E = k.P]
           l == Capset(k, w)
<1>0. Progress /\ CredOK(k) /\ cap_get_proc(k) \in CapT BY SuCred DEF SuInv, ControlInv
<1>1. /\ su.pc = "session" /\ frame["su"].pc = "done" /\ UNCHANGED <<pamvars, shell>>
      /\ Sets("su", l)
      /\ \/ su' = [su EXCEPT !.pc = "launch", !.session = "open"]
         \/ su' = [su EXCEPT !.pc = "delete_cred", !.retval = FALSE]
  BY DEF open_session, SuAt, f
<1>2. w \in CapT /\ w.P = k.P /\ w.E = k.P /\ w.I = k.I
  BY <1>0 DEF cap_get_proc, CapT, CredOK, Cred
<1> HIDE DEF w
<1>3. CapsetOk(k, w) BY <1>2 DEF CapsetOk
<1>4. /\ Legal(k, l) /\ SameIds(k, l) /\ l.P = k.P /\ l.I = k.I /\ l.A = k.A /\ l.B = k.B
  <2>1. /\ Legal(k, l) /\ SameIds(k, l) /\ l.P = w.P /\ l.I = w.I /\ l.B = k.B
        /\ l.A = k.A \cap w.P \cap w.I
    BY <1>0, <1>2, <1>3, CapsetLegal, CapsetKeeps DEF SameIds
  <2> HIDE DEF l
  <2> QED BY <1>0, <1>2, <2>1 DEF CredOK
<1> HIDE DEF l
<1>5. PICK q \in {"launch", "delete_cred"} :
        SuKeeps /\ RuleStays /\ su'.pc = q /\ su'.session \in {"open", su.session}
  BY ZenonT(40), <1>0, <1>1 DEF Progress, SuFields, SuKeeps, RuleStays
<1>6. su.session # "closed" BY <1>0, <1>1 DEF Progress, Leaving
<1>7. /\ q \notin Calling \cup Monitors \cup Setcred \cup BeforeSetcred
      /\ q \notin {"close_session", "init", "unkillable", "pam_setcred"}
      /\ su.pc \in Hidden /\ su.pc \in Gided /\ su.pc \in Uided /\ su.pc \in Holding
      /\ su.pc \in Given
  BY <1>1 DEF Calling, Monitors, Given, Setcred, BeforeSetcred, Hidden, Gided, Uided, Holding,
              Granted
<1>8. IdentityOf(q, k) BY <1>7 DEF SuInv, Identity, IdentityOf
<1>9. IdentityOf(q, l) BY <1>4, <1>8, SameIdentity
<1>10. l.P = su.all.P BY <1>4, <1>7 DEF SuInv, Holdings, HoldingsOf
<1>11. Has(l, data["su"])
  <2>1. Has(k, data["su"]) BY <1>7 DEF SuInv, Tuples, TuplesOf
  <2> QED BY <1>4, <2>1, HasStays
<1>12. su'.session # "closed" BY <1>5, <1>6
<1> QED BY <1>1, <1>4, <1>5, <1>7, <1>9, <1>10, <1>11, <1>12, QuietGoes

(* What su inherits is shed when it starts to wait, or else when it closes *)
(* the session.                                                            *)
LEMMA ShedEffects == ASSUME SuInv, Monitor \/ close_session \/ delete_cred PROVE Effects'
<1> DEFINE l == Capset(k, su.all)
<1>0. /\ Progress /\ CredOK(k) /\ su.all \in CapT /\ su.all.I = {} /\ su.all.E = su.all.P
  BY SuCred DEF SuInv, ControlInv, Holdings
<1>1. PICK p \in {"monitor", "close_session", "delete_cred"},
           q \in {"hide", "delete_cred", "auth_exit"} :
        /\ su.pc = p /\ frame["su"].pc = "done" /\ UNCHANGED <<pamvars, shell>> /\ Sets("su", l)
        /\ SuKeeps /\ RuleStays /\ su'.pc = q
        /\ su'.session = su.session \/ p = "close_session"
        /\ q = "hide" => p = "monitor"
  <2>1. CASE Monitor
    <3>1. su.pc = "monitor" BY <2>1 DEF Monitor, SuAt
    <3>2. CapsetOk(k, su.all) BY <3>1, MonitorSucceeds
    <3>3. Steady("hide") BY <1>0, <2>1, <3>2, GoesSteady DEF Monitor
    <3> QED BY <2>1, <3>1, <3>2, <3>3 DEF Monitor, SuAt, f, Steady
  <2>2. CASE close_session
    <3>1. SuKeeps /\ RuleStays /\ su'.pc = "delete_cred"
      BY <1>0, <2>2 DEF close_session, Progress, SuFields, SuKeeps, RuleStays
    <3> QED BY <2>2, <3>1 DEF close_session, SuAt, f
  <2>3. CASE delete_cred
    <3>1. SuKeeps /\ RuleStays /\ su'.pc = "auth_exit" /\ su'.session = su.session
      BY <1>0, <2>3 DEF delete_cred, Progress, SuFields, SuKeeps, RuleStays
    <3> QED BY <2>3, <3>1 DEF delete_cred, SuAt, f
  <2> QED BY <2>1, <2>2, <2>3
<1>2. Legal(k, l) /\ SameIds(k, l) /\ l.I \in {k.I, {}} /\ (CapsetOk(k, su.all) => l.I = {})
  BY <1>0, CapsetLegal, CapsetKeeps DEF SameIds
<1> HIDE DEF l
<1>3. k.P = su.all.P => CapsetOk(k, su.all) BY <1>0 DEF CapsetOk
<1>4. /\ p = "monitor" => k.P = su.all.P
      /\ p = "close_session" => k.I = {} \/ k.P = su.all.P
      /\ su.session = "closed" => k.I = {}
  BY <1>1 DEF SuInv, Holdings, HoldingsOf, Holding
<1>5. q \in Monitors \/ su'.session = "closed" => l.I = {}
  BY <1>1, <1>2, <1>3, <1>4 DEF Monitors
<1>6. /\ q \notin Calling \cup Setcred \cup BeforeSetcred \cup Holding \cup Given
      /\ q \notin Gided \cup Uided
      /\ q \notin {"close_session", "init", "unkillable", "pam_setcred"}
      /\ su.pc \in Hidden
  BY <1>1 DEF Calling, Given, Setcred, BeforeSetcred, Hidden, Gided, Uided, Holding, Granted, Opened
<1>7. IdentityOf(q, k) BY <1>6 DEF SuInv, Identity, IdentityOf
<1>8. IdentityOf(q, l) BY <1>2, <1>7, SameIdentity
<1> QED BY <1>1, <1>2, <1>5, <1>6, <1>8, QuietGoes

-----------------------------------------------------------------------------
(* pam_cap                                                                 *)

(* The rule pam_cap goes by is one of the file or the default. *)
LEMMA RuleIsRule ==
  ASSUME SuInv, NEW user, NEW rule \in read_capabilities_for_user(user)
  PROVE  IsRule(RuleFor(rule))
<1>0. conf \in Configs /\ pcs \in Arguments BY DEF SuInv, Tuples
<1>1. /\ IsRule(pcs.fallback) /\ DOMAIN conf.lines \subseteq Nat
      /\ \A i \in DOMAIN conf.lines : IsRule(conf.lines[i].caps)
  BY <1>0, PamCapAssumption
<1>2. IsRule(Nothing) BY DEF IsRule, Nothing
<1> DEFINE matching == {i \in DOMAIN conf.lines : Covers(conf.lines[i], user)}
           first == CHOOSE i \in matching : \A j \in matching : i =< j
<1>3. matching # {} => first \in matching
  <2>1. matching \in SUBSET Nat BY <1>1
  <2> HIDE DEF matching
  <2> QED BY <2>1, Least
<1>4. \/ TheRule(user) = Nothing
      \/ matching # {} /\ TheRule(user) = conf.lines[first].caps
  BY DEF TheRule
<1> HIDE DEF first
<1>5. IsRule(rule) BY <1>1, <1>2, <1>3, <1>4 DEF read_capabilities_for_user
<1> QED BY <1>1, <1>5 DEF RuleFor

(* There is no shell before the fork. *)
LEMMA NoShellYet == ASSUME SuInv, su.pc \in Uided PROVE shell.st = "none"
  BY DEF SuInv, ControlInv, Following, Alive, Uided, Setcred, Given, Monitors, Leaving

(* Nothing is known of the shell, since there is none. *)
LEMMA FirstTuples ==
  ASSUME SuInv, su.pc \in Uided, Elsewhere, IsRule(su'.rule), TuplesOf(su.pc, k, data["su"])'
  PROVE  Tuples'
<1>1. shell'.st = "none" BY NoShellYet DEF Elsewhere
<1>2. ShellTuples(shell.st, creds["shell"], data["shell"], frame["shell"])'
  BY <1>1 DEF ShellTuples
<1> QED BY <1>2 DEF SuInv, Tuples, Elsewhere

(* pam_sm_setcred: nothing is given, a tuple is kept, or cap_iab_set_proc  *)
(* is called.                                                              *)
LEMMA SetcredEffects == ASSUME SuInv, pam_sm_setcred PROVE Effects'
<1>0. Progress /\ CredOK(k) /\ cap_get_proc(k) \in CapT /\ c("su") = k
  <2>1. c("su") = k BY Processes DEF SuInv, Both, k
  <2> QED BY <2>1, SuCred DEF SuInv, ControlInv
<1> PICK read \in read_capabilities_for_user(su.user), calling \in BOOLEAN, ok \in BOOLEAN :
        /\ SetCapabilities("su", RuleFor(read), calling, ok)
        /\ su' = [su EXCEPT !.pc = IF calling THEN "setcred_iab"
                                   ELSE IF ok THEN "setcred_ok" ELSE "setcred_ignore",
                            !.rule = RuleFor(read)]
  BY DEF pam_sm_setcred
<1> DEFINE rule == RuleFor(read)
<1>1. IsRule(rule) BY RuleIsRule
<1>2.   /\ SetCapabilities("su", rule, calling, ok)
        /\ su' = [su EXCEPT !.pc = IF calling THEN "setcred_iab"
                                   ELSE IF ok THEN "setcred_ok" ELSE "setcred_ignore",
                            !.rule = rule]
  OBVIOUS
<1> HIDE DEF rule
<1>3. su.pc = "pam_setcred" /\ frame["su"].pc = "done" /\ UNCHANGED <<conf, pcs, shell>>
  BY DEF pam_sm_setcred, SuAt, f
<1>4. /\ SuKeeps /\ su'.session = su.session /\ su'.applied = su.applied /\ su'.rule = rule
      /\ calling => su'.pc = "setcred_iab"
      /\ ~ calling => su'.pc \in {"setcred_ok", "setcred_ignore"}
  BY <1>0, <1>2 DEF Progress, SuFields, SuKeeps
<1>5. /\ su.pc \in Uided /\ su.session # "closed" /\ su'.session # "closed"
      /\ su.pc \in Hidden /\ su.pc \in Gided /\ su.pc \in Holding /\ su.pc \in BeforeSetcred
  BY <1>0, <1>3, <1>4 DEF Uided, Progress, Leaving, Hidden, Granted, Gided, Holding, BeforeSetcred
<1>6. k.P = su.all.P /\ k.I = {} /\ k.A = {} /\ data["su"] = Nothing /\ ~ su.applied
  BY <1>3, <1>5 DEF SuInv, Holdings, HoldingsOf, Tuples, TuplesOf
<1>7. IdentityOf(su'.pc, k)
  <2>1. /\ k.uid \in Target \cup {TEMP_UID} /\ k.gid = entry.gid /\ k.groups = entry.gid
        /\ k.uid = entry.uid
    BY <1>5 DEF SuInv, Identity, IdentityOf
  <2> QED BY <1>4, <2>1 DEF IdentityOf
<1>8. su'.pc \notin Monitors \cup {"close_session", "pam_setcred"} BY <1>4 DEF Monitors
<1>9. ASSUME NEW l, creds'["su"] = l, l.P = k.P PROVE Holdings'
  <2>1. HoldingsOf(su.pc, k, frame["su"].working)'
    BY <1>4, <1>5, <1>6, <1>8, <1>9 DEF HoldingsOf, SuKeeps, k
  <2> QED BY <1>4, <2>1, HoldingsStays
<1>10. CASE calling
  <2>1. rule[1] = "iab" /\ Begin("su", "iab_set_proc", rule[2]) /\ data' = data
    BY <1>2, <1>10 DEF SetCapabilities
  <2>2. rule[2] \in Args["iab_set_proc"] BY <1>1, <2>1 DEF IsRule, Args
  <2>3. Enters("iab_set_proc", rule[2]) BY <2>1, <2>2, BeginCalls
  <2>4. Elsewhere BY <1>3, <2>1 DEF Elsewhere, SuInv, Tuples
  <2>5. CapInv' /\ Tracking' /\ CallIs'
    <3>1. CallOf(su.pc, frame["su"])'
      BY <1>4, <1>6, <1>10, <2>1, <2>3 DEF CallOf, Calling, Enters, Started, Plain, From, SuKeeps
    <3> QED BY <1>3, <2>3, <3>1 DEF SuInv, CallIs, Enters, Still
  <2>6. Identity' BY <1>3, <1>4, <1>7, <2>3, IdentityStays DEF Enters
  <2>7. Holdings' BY <1>9, <2>3 DEF Enters
  <2>8. TuplesOf(su.pc, k, data["su"])'
    BY <1>4, <1>6, <1>10, <2>1 DEF TuplesOf, Given
  <2>9. Tuples' BY <1>1, <1>4, <1>5, <2>4, <2>8, FirstTuples
  <2> QED BY <2>5, <2>6, <2>7, <2>9 DEF Effects
<1>11. CASE ~ calling
  <2>1. /\ \E l : Rests(l) /\ SameIds(k, l) /\ l.P = k.P /\ l.I = {} /\ l.A = {}
        /\ data' = data \/ (rule[1] = "iab" /\ data' = [data EXCEPT !["su"] = rule])
    <3>1. CASE rule[1] # "none"
      <4>1. /\ UNCHANGED vars
            /\ data' = data \/ (rule[1] = "iab" /\ data' = [data EXCEPT !["su"] = rule])
        BY <1>2, <1>11, <3>1 DEF SetCapabilities
      <4>2. Rests(k) /\ SameIds(k, k) BY <4>1, SameRests DEF SameIds
      <4> QED BY <1>6, <4>1, <4>2
    <3>2. CASE rule[1] = "none"
      <4> DEFINE w == [cap_get_proc(k) EXCEPT !.I = {}]
                 l == Capset(k, w)
      <4>1. Sets("su", l) /\ data' = data BY <1>0, <1>2, <1>11, <3>2 DEF SetCapabilities
      <4>2. w \in CapT /\ w.I = {} /\ w.P = k.P
        BY <1>0 DEF CapT, cap_get_proc
      <4> HIDE DEF w
      <4>3. Legal(k, l) /\ SameIds(k, l) /\ l.P = k.P /\ l.I = {} /\ l.A = {}
        BY <1>0, <1>6, <4>2, CapsetLegal, CapsetKeeps DEF SameIds
      <4> HIDE DEF l
      <4>4. Rests(l) BY <4>1, <4>3, SetsRests
      <4> QED BY <4>1, <4>3, <4>4
    <3> QED BY <3>1, <3>2
  <2>2. PICK l : Rests(l) /\ SameIds(k, l) /\ l.P = k.P /\ l.I = {} /\ l.A = {} BY <2>1
  <2>3. Elsewhere /\ data'["su"] \in {Nothing, rule} /\ (data'["su"] # Nothing => rule[1] = "iab")
    <3>1. DOMAIN data = Both BY SuAssumption DEF SuInv, Tuples, Both
    <3> QED BY <1>3, <1>6, <2>1, <3>1 DEF Elsewhere, SuInv, Tuples, Both
  <2>4. CapInv' /\ Tracking' /\ CallIs'
    BY <1>3, <1>4, <1>11, <2>2, RestsCall DEF Calling
  <2>5. Identity'
    <3>1. IdentityOf(su'.pc, l) BY <1>7, <2>2, SameIdentity
    <3> QED BY <1>3, <1>4, <2>2, <3>1, IdentityStays DEF Rests
  <2>6. Holdings' BY <1>9, <2>2 DEF Rests
  <2>7. Has(k, data["su"])'
    BY <1>4, <1>6, <2>2, <2>3 DEF Has, Bounded, Rests, k
  <2>8. TuplesOf(su.pc, k, data["su"])'
    BY <1>4, <1>6, <1>11, <2>7 DEF TuplesOf, BeforeSetcred
  <2>9. Tuples' BY <1>1, <1>4, <1>5, <2>3, <2>8, FirstTuples
  <2> QED BY <2>4, <2>5, <2>6, <2>9 DEF Effects
<1> QED BY <1>10, <1>11

(* What a cap_iab_set_proc that has returned has done to who inherited     *)
(* nothing.                                                                *)
LEMMA IabCalled ==
  ASSUME SuInv, NEW t \in Both, NEW arg, From(frame[t], arg), frame[t].pc = "done"
  PROVE  /\ creds[t].P = frame[t].start.P
         /\ creds[t].I \subseteq arg.i /\ creds[t].A \subseteq arg.a
         /\ frame[t].ret = 0 =>
               creds[t].I = arg.i /\ creds[t].A = arg.a /\ arg.nb \cap creds[t].B = {}
<1> DEFINE g == frame[t]
           cr == creds[t]
<1>1. /\ g.clean /\ g.op = "iab_set_proc" /\ g.arg = arg /\ g.start.I = {} /\ g.start.A = {}
      /\ g.pc = "done"
  BY DEF From, SuInv, CallIs, CallOf, ShellCall, Plain, Both
<1>2. Tracks(g, cr)
  <2>1. t \in Threads /\ f(t) = g /\ c(t) = cr BY Processes DEF SuInv
  <2> QED BY <2>1 DEF SuInv, Tracking
<1> HIDE DEF g, cr
<1>3. IabFollows(g.pc, g.ret, g.working, g.todo, arg, g.start, cr)
  BY <1>1, <1>2 DEF Tracks, Follows
<1>4. cr.P = g.start.P BY <1>1, <1>3 DEF IabFollows, IabContained
<1>5. /\ cr.I \subseteq arg.i /\ cr.A \subseteq arg.a
      /\ g.ret = 0 => cr.I = arg.i /\ cr.A = arg.a /\ arg.nb \cap cr.B = {}
  BY <1>1, <1>3 DEF IabFollows, IabContained
<1> QED BY <1>4, <1>5 DEF g, cr

(* Its end: applied says whether su has the tuple. *)
LEMMA SetcredEndEffects == ASSUME SuInv, SetcredEnd PROVE Effects'
<1> DEFINE l == KeepsCaps("su", su.rule)
           applied == su.pc = "setcred_iab" /\ Called
<1>0. Progress /\ CredOK(k) /\ c("su") = k
  <2>1. c("su") = k BY Processes DEF SuInv, Both, k
  <2> QED BY <2>1, SuCred DEF SuInv, ControlInv
<1>1. /\ su.pc \in Setcred /\ frame["su"].pc = "done" /\ UNCHANGED <<pamvars, shell>>
      /\ Sets("su", l)
      /\ PamFails \/ su' = [su EXCEPT !.pc = "terminal", !.cred = "set", !.applied = applied]
  BY DEF SetcredEnd, Setcred, f
<1>2. /\ Legal(k, l) /\ SameIds(k, l)
      /\ l.P = k.P /\ l.I = k.I /\ l.A = k.A /\ l.B = k.B
  <2>1. l = k \/ l = SetKeepCaps(k, TRUE) BY <1>0 DEF KeepsCaps
  <2>2. Legal(k, k) BY <1>0 DEF Legal
  <2>3. Legal(k, SetKeepCaps(k, TRUE)) BY <1>0, KeepCapsLegal
  <2>4. /\ SameIds(k, SetKeepCaps(k, TRUE)) /\ SetKeepCaps(k, TRUE).P = k.P
        /\ SetKeepCaps(k, TRUE).I = k.I /\ SetKeepCaps(k, TRUE).A = k.A
        /\ SetKeepCaps(k, TRUE).B = k.B
    BY <1>0, KeepCapsKeeps DEF SameIds
  <2> HIDE DEF l
  <2> QED BY <2>1, <2>2, <2>3, <2>4 DEF SameIds
<1> HIDE DEF l
<1>3. /\ su.pc \in Uided /\ su.pc \in Hidden /\ su.pc \in Gided
      /\ su.session # "closed"
  BY <1>0, <1>1 DEF Uided, Hidden, Gided, Granted, Progress, Leaving, Setcred
<1>4. /\ k.uid \in Target \cup {TEMP_UID} /\ k.gid = entry.gid /\ k.groups = entry.gid
      /\ k.uid = entry.uid
  BY <1>3 DEF SuInv, Identity, IdentityOf
<1>5. CASE PamFails
  <2> DEFINE q == "auth_exit"
  <2>1. /\ q \notin Calling \cup Holding \cup Monitors \cup Given \cup Setcred \cup Gided \cup Uided
        /\ q \notin BeforeSetcred /\ q \notin {"pam_setcred", "close_session", "init", "unkillable"}
    BY DEF Calling, Holding, Monitors, Given, Setcred, Gided, Uided, BeforeSetcred
  <2>2. IdentityOf(q, k) BY <1>4, <2>1 DEF IdentityOf
  <2>3. Steady(q) BY <1>0, <1>5, GoesSteady
  <2>4. SuKeeps /\ RuleStays /\ su'.pc = q /\ su'.session # "closed" BY <1>3, <2>3 DEF Steady
  <2>5. IdentityOf(q, l) BY <1>2, <2>2, SameIdentity
  <2> HIDE DEF q
  <2> QED BY <1>1, <1>2, <2>1, <2>4, <2>5, QuietGoes
<1>6. CASE su' = [su EXCEPT !.pc = "terminal", !.cred = "set", !.applied = applied]
  <2>1. /\ SuKeeps /\ su'.session = su.session /\ su'.rule = su.rule /\ su'.pc = "terminal"
        /\ su'.applied <=> applied
    <3> HIDE DEF applied
    <3>1. /\ SuKeeps /\ su'.session = su.session /\ su'.rule = su.rule /\ su'.pc = "terminal"
          /\ su'.applied = applied
      BY <1>0, <1>6 DEF Progress, SuFields, SuKeeps
    <3> QED BY <3>1
  <2>2. /\ Rests(l) /\ frame'["su"] = Blank /\ creds'["su"] = l /\ Still("shell")
        /\ Elsewhere /\ shell' = shell /\ data' = data
    BY <1>1, <1>2, SetsRests, SameElsewhere DEF Rests, Elsewhere
  <2>3. CapInv' /\ Tracking' /\ CallIs' BY <1>1, <2>1, <2>2, RestsCall DEF Calling
  <2>4. Identity'
    <3>1. IdentityOf("terminal", k) BY <1>4 DEF IdentityOf
    <3>2. IdentityOf("terminal", l) BY <1>2, <3>1, SameIdentity
    <3> QED BY <2>1, <2>2, <3>2, IdentityStays
  <2>5. k.P = su.all.P /\ Bounded(k) /\ (applied => Exact(k) /\ data["su"] = Nothing)
        /\ (data["su"] # Nothing => su.rule[1] = "iab" /\ data["su"] = su.rule /\ k.I = {})
    <3>1. CASE su.pc = "setcred_iab"
      <4>1. /\ su.rule[1] = "iab" /\ From(frame["su"], su.rule[2])
            /\ frame["su"].start.P = su.all.P /\ data["su"] = Nothing
        BY <3>1 DEF SuInv, CallIs, CallOf, Tuples, TuplesOf
      <4>2. Want = su.rule[2] BY <4>1 DEF Want
      <4>3. "su" \in Both BY DEF Both
      <4>4. /\ k.P = su.all.P /\ k.I \subseteq Want.i /\ k.A \subseteq Want.a
            /\ frame["su"].ret = 0 => k.I = Want.i /\ k.A = Want.a /\ Want.nb \cap k.B = {}
        BY <1>1, <4>1, <4>2, <4>3, IabCalled DEF k
      <4> QED BY <4>1, <4>4 DEF Bounded, Exact, Called, f
    <3>2. CASE su.pc # "setcred_iab"
      <4>1. su.pc \in Given /\ su.pc \in Holding BY <1>1, <3>2 DEF Setcred, Given, Holding
      <4>2. Has(k, data["su"]) /\ k.P = su.all.P
        BY <4>1 DEF SuInv, Tuples, TuplesOf, Holdings, HoldingsOf
      <4> QED BY <3>2, <4>2 DEF Has
    <3> QED BY <3>1, <3>2
  <2>6. Holdings'
    <3>1. HoldingsOf(su.pc, k, frame["su"].working)'
      BY <1>2, <1>3, <2>1, <2>2, <2>5 DEF HoldingsOf, SuKeeps, k, Monitors
    <3> QED BY <2>1, <3>1, HoldingsStays
  <2>7. Tuples'
    <3>1. Want' = Want BY <2>1 DEF Want
    <3>2. Bounded(k)' BY <1>2, <2>2, <2>5, <3>1 DEF Bounded, k
    <3>3. applied => Exact(k)' BY <1>2, <2>2, <2>5, <3>1 DEF Exact, k
    <3> HIDE DEF applied
    <3>4. Has(k, data["su"])'
      BY <1>2, <2>1, <2>2, <2>5, <3>2, <3>3 DEF Has, k
    <3>5. TuplesOf(su.pc, k, data["su"])' BY <2>1, <3>4 DEF TuplesOf, BeforeSetcred
    <3>6. IsRule(su'.rule) BY <2>1 DEF SuInv, Tuples
    <3> QED BY <1>3, <2>2, <3>5, <3>6, FirstTuples
  <2> QED BY <2>3, <2>4, <2>6, <2>7 DEF Effects
<1> QED BY <1>1, <1>5, <1>6

-----------------------------------------------------------------------------
(* The shell                                                               *)

(* The child has what su has, and the tuple kept with the PAM handle. *)
LEMMA ForkEffects == ASSUME SuInv, Fork PROVE Effects'
<1>0. Progress /\ Following BY DEF SuInv, ControlInv
<1>1. su.pc = "launch" /\ frame["su"].pc = "done" BY DEF Fork, SuAt, f
<1>2. shell.st = "none" BY <1>0, <1>1 DEF Following, Monitors, Leaving
<1>3. CASE Goto("monitor") /\ Same
  <2>1. Steady("monitor") BY <1>0, <1>3, GoesSteady
  <2>2. Further(su.pc, "monitor") /\ "monitor" \notin Calling
    BY <1>1 DEF Further, Hidden, Gided, Uided, Holding, Monitors, BeforeSetcred, Given, Setcred,
                Calling, Granted, Opened
  <2> QED BY <1>1, <1>3, <2>1, <2>2, SameGoes
<1>4. CASE /\ Goto("launching") /\ creds' = [creds EXCEPT !["shell"] = k]
           /\ data' = [data EXCEPT !["shell"] = data["su"]]
           /\ shell' = [shell EXCEPT !.st = "callback"]
           /\ UNCHANGED <<frame, nopriv, conf, edits, pcs>>
  <2>1. Steady("launching") BY <1>0, <1>4, GoesSteady
  <2>2. SuKeeps /\ RuleStays /\ su'.pc = "launching" /\ su'.session = su.session
    BY <2>1 DEF Steady
  <2>3. /\ DOMAIN creds = Both /\ DOMAIN data = Both /\ DOMAIN shell = {"st", "code"}
        /\ Threads = Both /\ Procs = Both /\ (\A t \in Both : Home[t] = t) /\ nopriv = {}
        /\ CapInv /\ Tracking
    BY <1>0, Processes DEF SuInv, CapInv, TypeOK, Tuples, Following, CallIs
  <2>4. /\ creds'["su"] = k /\ creds'["shell"] = k /\ frame' = frame /\ nopriv' = {}
        /\ data'["su"] = data["su"] /\ data'["shell"] = data["su"] /\ DOMAIN data' = Both
        /\ shell'.st = "callback" /\ conf' = conf /\ pcs' = pcs /\ k' = k
    BY <1>4, <2>3 DEF Both, k
  <2>5. frame["shell"] = Blank BY <1>2 DEF SuInv, CallIs, ShellCall
  <2>6. CapInv'
    <3>1. creds \in [Both -> Cred] /\ \A p \in Both : CredOK(creds[p])
      BY <2>3, Processes DEF CapInv, TypeOK
    <3>2. creds' \in [Both -> Cred] /\ \A p \in Both : CredOK(creds'[p])
      BY <1>4, <2>4, <3>1 DEF Both, k
    <3>3. TypeOK' BY <2>3, <2>4, <3>2 DEF CapInv, TypeOK, CredOK, f
    <3>4. (\A t \in Threads : FrameOK(f(t)))' BY <2>3, <2>4 DEF CapInv, f
    <3>5. NoprivInv' BY <2>4 DEF NoprivInv
    <3> QED BY <3>3, <3>4, <3>5 DEF CapInv
  <2>7. Tracking'
    <3>1. Tracks(frame["su"], k) /\ Tracks(frame["shell"], k)
      <4>1. Tracks(f("su"), c("su")) BY <2>3 DEF Tracking, Both
      <4>2. Tracks(frame["su"], k) BY <2>3, <4>1 DEF f, c, k, Both
      <4>3. Tracks(frame["shell"], k) BY <2>5, BlankOK DEF Tracks
      <4> QED BY <4>2, <4>3
    <3> QED BY <2>3, <2>4, <3>1 DEF Tracking, f, c, Both
  <2>8. CallIs'
    <3>1. Plain(frame["su"]) BY DEF SuInv, CallIs, CallOf
    <3>2. CallOf(su.pc, frame["su"])' BY <1>1, <2>2, <2>4, <3>1 DEF CallOf, Calling
    <3>3. ShellCall(shell.st, frame["shell"])' BY <2>4, <2>5, BlankOK DEF ShellCall
    <3> QED BY <2>4, <3>2, <3>3 DEF CallIs
  <2>9. Identity'
    <3>1. entry' = entry /\ Target' = Target BY <2>2 DEF SuKeeps, entry, Target
    <3>2. /\ k.uid \in Target \cup {TEMP_UID} /\ k.gid = entry.gid /\ k.groups = entry.gid
          /\ k.uid = entry.uid
      BY <1>1 DEF SuInv, Identity, IdentityOf, Hidden, Gided, Uided, Given, Granted, Opened
    <3>3. IdentityOf(su.pc, k)' BY <2>2, <2>4, <3>1, <3>2 DEF IdentityOf
    <3> QED BY <2>4, <3>1, <3>2, <3>3 DEF Identity
  <2>10. Holdings'
    <3>1. k.P = su.all.P BY <1>1 DEF SuInv, Holdings, HoldingsOf, Holding, Given
    <3>2. su'.session # "closed" BY <1>0, <1>1, <2>2 DEF Progress, Leaving
    <3>3. HoldingsOf(su.pc, k, frame["su"].working)'
      BY <2>2, <2>4, <3>1, <3>2 DEF HoldingsOf, SuKeeps, Monitors
    <3> QED BY <2>2, <3>3, HoldingsStays
  <2>11. Tuples'
    <3>1. Want' = Want BY <2>2 DEF Want, RuleStays
    <3>2. Has(k, data["su"]) BY <1>1 DEF SuInv, Tuples, TuplesOf, Given
    <3>3. Has(creds["shell"], data["shell"])'
      BY <2>2, <2>4, <3>1, <3>2 DEF Has, Bounded, Exact, RuleStays
    <3>4. ShellTuples(shell.st, creds["shell"], data["shell"], frame["shell"])'
      BY <2>4, <3>3 DEF ShellTuples
    <3>5. TuplesOf(su.pc, k, data["su"])' BY <2>2 DEF TuplesOf, BeforeSetcred, Given
    <3> QED BY <2>2, <2>3, <2>4, <3>4, <3>5 DEF SuInv, Tuples, RuleStays
  <2> QED BY <2>6, <2>7, <2>8, <2>9, <2>10, <2>11 DEF Effects
<1> QED BY <1>3, <1>4 DEF Fork

(* su is where it was, and its process too. *)
LEMMA SuStill ==
  ASSUME SuInv, su' = su, Still("su"), conf' \in Configs, pcs' = pcs, DOMAIN data' = DOMAIN data,
         data'["su"] = data["su"], nopriv' = nopriv, CapInv', Tracking',
         ShellCall(shell.st, frame["shell"])',
         shell'.st \in Alive =>
            /\ shell.st \in Alive /\ SameIds(creds["shell"], creds'["shell"]),
         ShellTuples(shell.st, creds["shell"], data["shell"], frame["shell"])'
  PROVE  Effects'
<1>1. k' = k /\ frame'["su"] = frame["su"] /\ entry' = entry /\ Target' = Target /\ Want' = Want
  BY DEF Still, k, entry, Target, Want
<1>2. CallIs'
  <2>1. CallOf(su.pc, frame["su"])' BY <1>1 DEF SuInv, CallIs, CallOf
  <2> QED BY <2>1 DEF SuInv, CallIs
<1>3. Identity'
  <2>1. IdentityOf(su.pc, k)' BY <1>1 DEF SuInv, Identity, IdentityOf
  <2> QED BY <1>1, <2>1 DEF SuInv, Identity, SameIds
<1>4. Holdings'
  <2>1. HoldingsOf(su.pc, k, frame["su"].working)' BY <1>1 DEF SuInv, Holdings, HoldingsOf
  <2> QED BY <2>1 DEF SuInv, Holdings
<1>5. Tuples'
  <2>1. TuplesOf(su.pc, k, data["su"])'
    BY <1>1 DEF SuInv, Tuples, TuplesOf, Has, Bounded, Exact
  <2> QED BY <2>1 DEF SuInv, Tuples
<1> QED BY <1>2, <1>3, <1>4, <1>5 DEF Effects

(* launch_callback_fn applies a tuple that was kept. *)
LEMMA CallbackEffects == ASSUME SuInv, launch_callback_fn PROVE Effects'
<1>0. /\ Following /\ DOMAIN data = Both /\ "shell" \in Both /\ "su" \in Both \ {"shell"}
  BY Processes DEF SuInv, ControlInv, Tuples, Both
<1>1. /\ shell.st = "callback" /\ su' = su /\ UNCHANGED <<conf, pcs>>
      /\ shell' = [shell EXCEPT !.st = "exec"] /\ data' = [data EXCEPT !["shell"] = Nothing]
  BY DEF launch_callback_fn
<1>2. /\ shell'.st = "exec" /\ data'["su"] = data["su"] /\ DOMAIN data' = DOMAIN data
      /\ conf' \in Configs /\ pcs' = pcs /\ Want' = Want
  BY <1>0, <1>1 DEF Following, Both, Want, SuInv, Tuples
<1>3. frame["shell"] = Blank /\ Has(creds["shell"], data["shell"])
  BY <1>1 DEF SuInv, CallIs, ShellCall, Tuples, ShellTuples
<1>4. CASE data["shell"] = Nothing
  <2>1. UNCHANGED vars BY <1>4 DEF launch_callback_fn, Applies
  <2>2. CapInv' /\ Tracking' /\ Still("shell") /\ nopriv' = nopriv /\ Still("su")
    BY <2>1, SameRests DEF Rests, Still, vars
  <2>3. ShellCall(shell.st, frame["shell"])' BY <1>2, <1>3, <2>2, BlankOK DEF ShellCall, Still
  <2>4. Has(creds["shell"], Nothing)'
    BY <1>1, <1>2, <1>3, <1>4, <2>2 DEF Has, Bounded, Exact, Still
  <2>5. ShellTuples(shell.st, creds["shell"], data["shell"], frame["shell"])'
    BY <1>2, <1>3, <2>2, <2>4, BlankOK DEF ShellTuples, Still
  <2>6. shell.st \in Alive /\ SameIds(creds["shell"], creds'["shell"])
    BY <1>1, <2>2 DEF Alive, SameIds, Still
  <2> QED BY <1>1, <1>2, <2>2, <2>3, <2>5, <2>6, SuStill
<1>5. CASE data["shell"] # Nothing
  <2>1. Begin("shell", "iab_set_proc", data["shell"][2])
    BY <1>5 DEF launch_callback_fn, Applies
  <2>2. /\ su.rule[1] = "iab" /\ data["shell"] = su.rule /\ creds["shell"].I = {}
        /\ ~ su.applied
    BY <1>3, <1>5 DEF Has
  <2>3. creds["shell"].A = {}
    <3>1. CredOK(creds["shell"]) BY <1>0, Processes DEF SuInv
    <3> QED BY <2>2, <3>1 DEF CredOK
  <2>4. su.rule[2] \in Args["iab_set_proc"] BY <2>2 DEF SuInv, Tuples, IsRule, Args
  <2>5. /\ CapInv' /\ Tracking' /\ nopriv' = nopriv /\ Still("su")
        /\ Started(frame'["shell"], "iab_set_proc", su.rule[2], creds["shell"])
        /\ creds'["shell"] = creds["shell"]
    BY <1>0, <2>1, <2>2, <2>4, BeginDoes DEF SuInv, StillOthers
  <2>6. ShellCall(shell.st, frame["shell"])'
    BY <1>2, <2>5 DEF ShellCall, Plain, Started
  <2>7. ShellTuples(shell.st, creds["shell"], data["shell"], frame["shell"])'
    BY <1>1, <1>2, <2>2, <2>3, <2>5 DEF ShellTuples, From, Started
  <2>8. shell.st \in Alive /\ SameIds(creds["shell"], creds'["shell"])
    BY <1>1, <2>5 DEF Alive, SameIds
  <2> QED BY <1>1, <1>2, <2>5, <2>6, <2>7, <2>8, SuStill
<1> QED BY <1>4, <1>5

(* The shell is executed, or ends. *)
LEMMA RunsTuples ==
  ASSUME SuInv, shell.st \in {"exec", "running"}, frame["shell"].pc = "done"
  PROVE  /\ Bounded(creds["shell"])
         /\ su.applied \/ (frame["shell"].op = "iab_set_proc" /\ frame["shell"].ret = 0) =>
               Exact(creds["shell"])
<1> DEFINE g == frame["shell"]
           cr == creds["shell"]
<1>1. CASE shell.st = "running" BY <1>1 DEF SuInv, Tuples, ShellTuples
<1>2. CASE shell.st = "exec"
  <2>1. \/ g.op = "none" /\ Has(cr, Nothing)
        \/ su.rule[1] = "iab" /\ From(g, su.rule[2]) /\ ~ su.applied
    BY <1>2 DEF SuInv, Tuples, ShellTuples
  <2>2. CASE g.op = "none" /\ Has(cr, Nothing) BY <2>2 DEF Has
  <2>3. CASE su.rule[1] = "iab" /\ From(g, su.rule[2]) /\ ~ su.applied
    <3>1. Want = su.rule[2] /\ "shell" \in Both BY <2>3 DEF Want, Both
    <3>2. /\ cr.I \subseteq Want.i /\ cr.A \subseteq Want.a
          /\ g.ret = 0 => cr.I = Want.i /\ cr.A = Want.a /\ Want.nb \cap cr.B = {}
      BY <2>3, <3>1, IabCalled
    <3> QED BY <2>3, <3>2 DEF Bounded, Exact
  <2> QED BY <2>1, <2>2, <2>3
<1> QED BY <1>1, <1>2

(* Neither changes what the process has. *)
LEMMA RunEffects == ASSUME SuInv, Exec \/ ShellExits PROVE Effects'
<1>0. Following /\ CallIs BY DEF SuInv, ControlInv
<1>1. /\ shell.st \in {"exec", "running"} /\ frame["shell"].pc = "done" /\ su' = su
      /\ UNCHANGED vars /\ UNCHANGED pamvars /\ shell'.st \in {"running", "failed", "exited"}
  <2>1. CASE Exec BY <1>0, <2>1 DEF Exec, f, Following
  <2>2. CASE ShellExits
    <3>1. shell.st = "running" /\ shell'.st = "exited" BY <2>2 DEF ShellExits
    <3>2. frame["shell"].pc = "done" BY <1>0, <3>1 DEF CallIs, ShellCall
    <3> QED BY <2>2, <3>1, <3>2 DEF ShellExits
  <2> QED BY <2>1, <2>2
<1>2. CapInv' /\ Tracking' /\ Still("shell") /\ nopriv' = nopriv /\ Still("su")
  BY <1>1, SameRests DEF Rests, Still, vars
<1>3. /\ conf' \in Configs /\ pcs' = pcs /\ data' = data /\ Want' = Want
  BY <1>1 DEF pamvars, SuInv, Tuples, Want
<1>4. ShellCall(shell.st, frame["shell"])'
  BY <1>0, <1>1, <1>2 DEF CallIs, ShellCall, Still
<1>5. ShellTuples(shell.st, creds["shell"], data["shell"], frame["shell"])'
  BY <1>1, <1>2, <1>3, RunsTuples DEF ShellTuples, Still, Bounded, Exact
<1>6. shell.st \in Alive /\ SameIds(creds["shell"], creds'["shell"])
  BY <1>1, <1>2 DEF Alive, SameIds, Still
<1> QED BY <1>1, <1>2, <1>3, <1>4, <1>5, <1>6, SuStill

(* The shell may be killed while su waits. *)
LEMMA CaughtEffects == ASSUME SuInv, Caught PROVE Effects'
<1>0. Progress /\ CallIs BY DEF SuInv, ControlInv
<1>1. /\ su.pc = "waiting" /\ frame["su"].pc = "done" /\ UNCHANGED vars /\ UNCHANGED pamvars
      /\ su' = [su EXCEPT !.pc = "final_wait"]
      /\ shell' = shell \/ (shell.st = "running" /\ shell'.st = "exited")
  BY DEF Caught, SuAt, f
<1>2. Steady("final_wait") BY <1>0, <1>1, GoesSteady DEF Goto
<1>3. Further(su.pc, "final_wait") /\ "final_wait" \notin Calling
  BY <1>1 DEF Further, Hidden, Gided, Uided, Holding, Monitors, BeforeSetcred, Given, Setcred,
              Calling, Granted, Opened
<1>4. CASE shell' = shell
  <2>1. Same BY <1>1, <1>4 DEF Same
  <2> QED BY <1>1, <1>2, <1>3, <2>1, SameGoes
<1>5. CASE shell.st = "running" /\ shell'.st = "exited"
  <2>1. SuKeeps /\ RuleStays /\ su'.pc = "final_wait" /\ su'.session = su.session
    BY <1>2 DEF Steady
  <2>2. /\ CapInv' /\ Tracking' /\ creds' = creds /\ frame' = frame /\ nopriv' = nopriv /\ k' = k
        /\ data' = data /\ conf' = conf /\ pcs' = pcs /\ Want' = Want /\ entry' = entry
        /\ Target' = Target
    BY <1>1, <2>1, SameRests
    DEF Rests, vars, k, pamvars, Want, RuleStays, SuKeeps, entry, Target
  <2>3. CallIs'
    <3>1. CallOf(su.pc, frame["su"])' BY <1>0, <1>1, <2>1, <2>2 DEF CallIs, CallOf, Calling
    <3>2. ShellCall(shell.st, frame["shell"])' BY <1>0, <1>5, <2>2 DEF CallIs, ShellCall
    <3> QED BY <1>0, <2>2, <3>1, <3>2 DEF CallIs
  <2>4. Identity'
    <3>1. IdentityOf(su.pc, k)'
      BY <1>3, <2>1, <2>2 DEF SuInv, Identity, IdentityOf, Further, SuKeeps
    <3> QED BY <1>5, <3>1 DEF Identity, Alive
  <2>5. Holdings'
    <3>1. HoldingsOf(su.pc, k, frame["su"].working)'
      BY <1>1, <1>3, <2>1, <2>2 DEF SuInv, Holdings, HoldingsOf, Further, SuKeeps, Monitors
    <3> QED BY <2>1, <3>1, HoldingsStays
  <2>6. Tuples'
    <3>1. TuplesOf(su.pc, k, data["su"])'
      BY <2>1 DEF TuplesOf, BeforeSetcred, Given
    <3>2. ShellTuples(shell.st, creds["shell"], data["shell"], frame["shell"])'
      BY <1>5, <2>1, <2>2 DEF SuInv, Tuples, ShellTuples, Bounded, Exact, RuleStays
    <3> QED BY <2>1, <2>2, <3>1, <3>2 DEF SuInv, Tuples, RuleStays
  <2> QED BY <2>2, <2>3, <2>4, <2>5, <2>6 DEF Effects
<1> QED BY <1>1, <1>4, <1>5

(* A step of the call that the shell's process, resp. su, is making. *)
LEMMA ShellOperation == ASSUME SuInv, Operation("shell") PROVE Effects'
<1>0. CallIs /\ CapInv /\ Tracking /\ "shell" \in Both /\ "su" \in Both \ {"shell"}
  BY DEF SuInv, Both
<1>1. Step("shell") /\ su' = su /\ shell' = shell /\ UNCHANGED pamvars
  BY DEF Operation, suvars
<1>2. Plain(frame["shell"]) BY <1>0 DEF CallIs, ShellCall
<1>3. /\ CapInv' /\ Tracking' /\ frame["shell"].pc # "done"
      /\ SameCall(frame'["shell"], frame["shell"]) /\ frame["shell"].op # "none"
      /\ frame["shell"].op = "iab_set_proc" => Kin(creds["shell"], creds'["shell"])
      /\ StillOthers("shell") /\ nopriv' = nopriv
  BY <1>0, <1>1, <1>2, StepDoes DEF Plain
<1>4. shell.st = "exec" BY <1>0, <1>3 DEF CallIs, ShellCall
<1>5. su.rule[1] = "iab" /\ From(frame["shell"], su.rule[2]) /\ ~ su.applied
  BY <1>3, <1>4 DEF SuInv, Tuples, ShellTuples
<1>6. Still("su") BY <1>0, <1>3 DEF StillOthers
<1>7. conf' \in Configs /\ pcs' = pcs /\ data' = data BY <1>1 DEF pamvars, SuInv, Tuples
<1>8. ShellCall(shell.st, frame["shell"])'
  BY <1>1, <1>2, <1>3, <1>4 DEF ShellCall, SameCall, Plain
<1>9. ShellTuples(shell.st, creds["shell"], data["shell"], frame["shell"])'
  BY <1>1, <1>3, <1>4, <1>5 DEF ShellTuples, From, SameCall
<1>10. shell.st \in Alive /\ SameIds(creds["shell"], creds'["shell"])
  BY <1>3, <1>4, <1>5 DEF Alive, SameIds, Kin, From
<1> QED BY <1>1, <1>3, <1>6, <1>7, <1>8, <1>9, <1>10, SuStill

(* cap_setuid changes the uid, cap_iab_set_proc the tuple. *)
LEMMA SuOperation == ASSUME SuInv, Operation("su") PROVE Effects'
<1> DEFINE g == frame["su"]
<1>0. /\ CallIs /\ CapInv /\ Tracking /\ Progress
      /\ "su" \in Both /\ "shell" \in Both \ {"su"} /\ g.op \in {"none", "setuid", "iab_set_proc"}
  BY DEF SuInv, Both, ControlInv, CallIs, CallOf, Plain
<1>1. /\ Step("su") /\ su' = su /\ shell' = shell /\ UNCHANGED pamvars /\ su.pc # "killed"
  BY DEF Operation, suvars
<1>2. /\ CapInv' /\ Tracking' /\ g.pc # "done"
      /\ SameCall(frame'["su"], g) /\ g.op # "none"
      /\ g.op = "setuid" => /\ UidKin(k, creds'["su"], g.arg)
                            /\ ShedKin(k, creds'["su"], g.working, frame'["su"].working)
      /\ g.op = "iab_set_proc" => Kin(k, creds'["su"])
      /\ StillOthers("su") /\ nopriv' = nopriv
  BY <1>0, <1>1, StepDoes DEF k
<1>3. su.pc \in Calling \ {"killed"} BY <1>0, <1>1, <1>2 DEF CallIs, CallOf
<1>4. Still("shell") /\ Elsewhere /\ SuKeeps /\ RuleStays /\ data' = data
  <2>1. Still("shell") BY <1>0, <1>2 DEF StillOthers
  <2>2. Elsewhere /\ data' = data BY <1>1, SameElsewhere
  <2> QED BY <1>1, <2>1, <2>2 DEF SuKeeps, RuleStays
<1>5. /\ su.pc \in {"unkillable_end", "waiting"} => g.op = "setuid" /\ g.arg = TEMP_UID
      /\ su.pc = "setuid_end" => g.op = "setuid" /\ g.arg = entry.uid
      /\ su.pc = "pam_end" => g.op = "setuid"
      /\ su.pc = "setcred_iab" => g.op = "iab_set_proc"
  BY <1>0 DEF CallIs, CallOf, From
<1>6. CallIs'
  <2>1. CallOf(su.pc, frame["su"])'
    BY <1>0, <1>1, <1>2, <1>3 DEF CallIs, CallOf, SameCall, Plain, From, entry
  <2> QED BY <1>0, <1>1, <1>2, <1>4, <2>1 DEF CallIs, Still
<1> HIDE DEF g
<1>7. Identity'
  <2>1. IdentityOf(su.pc, k) BY DEF SuInv, Identity
  <2>2. IdentityOf(su.pc, creds'["su"])
    <3>1. CASE su.pc = "setcred_iab"
      <4>1. SameIds(k, creds'["su"]) BY <1>2, <1>5, <3>1 DEF Kin, SameIds
      <4> QED BY <2>1, <4>1, SameIdentity
    <3>2. CASE su.pc = "setuid_end"
      <4>1. UidKin(k, creds'["su"], entry.uid) BY <1>2, <1>5, <3>2
      <4>2. ~ Refused(su.user) BY <1>0, <3>2 DEF Progress, Granted
      <4>3. entry.uid \in Target BY <4>2 DEF Target
      <4>4. su.pc \notin Uided /\ su.pc \in Hidden /\ su.pc \in Gided
        BY <3>2 DEF Uided, Setcred, Given, Hidden, Granted, Gided
      <4> QED BY <2>1, <3>2, <4>1, <4>3, <4>4 DEF IdentityOf, UidKin
    <3>3. CASE su.pc = "waiting"
      <4>1. UidKin(k, creds'["su"], TEMP_UID) BY <1>2, <1>5, <3>3
      <4>2. su.pc \notin Uided /\ su.pc \in Hidden /\ su.pc \notin Gided
        BY <3>3 DEF Uided, Setcred, Given, Hidden, Granted, Gided, Opened, Monitors
      <4> QED BY <2>1, <3>3, <4>1, <4>2 DEF IdentityOf, UidKin
    <3>4. CASE su.pc \in {"unkillable_end", "pam_end"}
      <4>1. su.pc \notin Uided /\ su.pc \notin Hidden /\ su.pc \notin Gided
        BY <3>4 DEF Uided, Setcred, Given, Hidden, Granted, Gided, Opened, Monitors
      <4> QED BY <3>4, <4>1 DEF IdentityOf
    <3> QED BY <1>3, <3>1, <3>2, <3>3, <3>4 DEF Calling
  <2> QED BY <1>1, <1>4, <2>2, IdentityStays
<1>8. Holdings'
  <2>1. su.pc \notin Holding /\ su.pc # "close_session"
    BY <1>3 DEF Calling, Holding, Given
  <2>2. su.pc \in Monitors \/ su.session = "closed" => g.op = "setuid"
    BY <1>0, <1>3, <1>5 DEF Calling, Monitors, Progress, Leaving
  <2>3. su.pc \in Monitors \/ su.session = "closed" => k.I = {} /\ g.working.I = {}
    BY DEF SuInv, Holdings, HoldingsOf, g
  <2>4. su.pc \in Monitors \/ su.session = "closed" =>
           creds'["su"].I = {} /\ frame'["su"].working.I = {}
    BY <1>2, <2>2, <2>3 DEF ShedKin
  <2>5. HoldingsOf(su.pc, k, frame["su"].working)'
    BY <1>1, <2>1, <2>4 DEF HoldingsOf, k
  <2> QED BY <1>4, <2>5, HoldingsStays
<1>9. Tuples'
  <2>1. su.pc \notin Given \cup {"pam_setcred"} BY <1>3 DEF Calling, Given
  <2>2. TuplesOf(su.pc, k, data["su"])' BY <1>1, <1>4, <2>1 DEF SuInv, Tuples, TuplesOf, Given
  <2> QED BY <1>4, <2>2, TuplesStays
<1> QED BY <1>2, <1>6, <1>7, <1>8, <1>9 DEF Effects

(* Nothing has changed, or the configuration file only. *)
LEMMA StillEffects ==
  ASSUME SuInv, UNCHANGED <<vars, su, shell, pcs, data>>, conf' \in Configs PROVE Effects'
<1>1. /\ CapInv' /\ Tracking' /\ Still("su") /\ Still("shell") /\ nopriv' = nopriv /\ Want' = Want
  BY SameRests DEF Rests, Still, vars, Want
<1>2. ShellCall(shell.st, frame["shell"])' BY <1>1 DEF SuInv, CallIs, ShellCall, Still
<1>3. ShellTuples(shell.st, creds["shell"], data["shell"], frame["shell"])'
  BY <1>1 DEF SuInv, Tuples, ShellTuples, Still, Has, Bounded, Exact
<1>4. SameIds(creds["shell"], creds'["shell"]) BY <1>1 DEF SameIds, Still
<1> QED BY <1>1, <1>2, <1>3, <1>4, SuStill

-----------------------------------------------------------------------------
(* The invariant holds                                                     *)

(* Nothing was done yet. *)
LEMMA SuInvInit == ASSUME SuInit PROVE SuInv
<1> USE DEF SuInit
<1>0. CapInv /\ Tracking BY InvInit, TrackInit
<1>1. /\ Threads = Both /\ Procs = Both /\ CredOK(creds["su"])
  BY <1>0, Processes DEF Both
<1>2. /\ DOMAIN su = SuFields /\ su.pc = "init" /\ su.invoked_uid = k.uid /\ su.tty = k.uid
      /\ su.all = [P |-> k.P, E |-> k.P, I |-> {}] /\ su.status = 1 /\ su.rule = Nothing
      /\ su.cred = "none" /\ su.session = "none" /\ su.terminal_uid = None
      /\ ~ su.auth /\ ~ su.acct /\ ~ su.applied /\ ~ su.alert /\ su.sig = "none"
      /\ shell = [st |-> "none", code |-> 1]
  BY DEF SuFields, k
<1>3. ControlInv
  <2>1. Progress BY <1>2 DEF Progress, SuPoints, Granted, Opened, Monitors, Setcred, Leaving
  <2>2. Following BY <1>2 DEF Following, Alive
  <2>3. Terminal BY <1>1, <1>2 DEF Terminal, CredOK, Cred, k
  <2> QED BY <2>1, <2>2, <2>3 DEF ControlInv
<1>4. CallIs
  <2>1. frame["su"] = Blank /\ frame["shell"] = Blank /\ nopriv = {} BY <1>1 DEF Init, Both
  <2>2. CallOf(su.pc, frame["su"]) BY <1>2, <2>1, BlankOK DEF CallOf, Calling
  <2>3. ShellCall(shell.st, frame["shell"]) BY <1>2, <2>1, BlankOK DEF ShellCall
  <2> QED BY <2>1, <2>2, <2>3 DEF CallIs
<1>5. Identity
  <2>1. IdentityOf(su.pc, k)
    BY <1>2 DEF IdentityOf, Hidden, Granted, Opened, Monitors, Setcred, Gided, Uided, Given
  <2> QED BY <1>2, <2>1 DEF Identity, Alive
<1>6. Holdings
  <2>1. HoldingsOf(su.pc, k, frame["su"].working)
    BY <1>2 DEF HoldingsOf, Holding, Given, Monitors
  <2>2. su.all \in CapT /\ su.all.E = su.all.P /\ su.all.I = {}
    BY <1>1, <1>2 DEF CapT, CredOK, Cred, k
  <2> QED BY <2>1, <2>2 DEF Holdings
<1>7. Tuples
  <2>1. /\ conf \in Configs /\ pcs \in Arguments /\ DOMAIN data = Procs /\ data["su"] = Nothing
    BY <1>1 DEF PamInit, Both
  <2>2. IsRule(su.rule) BY <1>2 DEF IsRule, Nothing
  <2>3. TuplesOf(su.pc, k, data["su"]) BY <1>2, <2>1 DEF TuplesOf, Given
  <2>4. ShellTuples(shell.st, creds["shell"], data["shell"], frame["shell"])
    BY <1>2 DEF ShellTuples
  <2> QED BY <2>1, <2>2, <2>3, <2>4 DEF Tuples
<1>8. Signals BY <1>2 DEF Signals
<1> QED BY <1>0, <1>3, <1>4, <1>5, <1>6, <1>7, <1>8 DEF SuInv

(* Every step keeps it. *)
LEMMA SuInvNext == SuInv /\ [SuNext]_allvars => SuInv'
<1> SUFFICES ASSUME SuInv, [SuNext]_allvars PROVE SuInv'
  OBVIOUS
<1>1. CASE UNCHANGED allvars
  <2>1. UNCHANGED <<vars, su, shell, pcs, data>> /\ conf' \in Configs
    BY <1>1 DEF allvars, pamvars, suvars, SuInv, Tuples
  <2>2. Effects' BY <2>1, StillEffects
  <2>3. ControlInv' BY <2>1, ControlSame DEF SuInv
  <2>4. Signals' BY <2>1 DEF SuInv, Signals, Target, entry
  <2> QED BY <2>2, <2>3, <2>4 DEF SuInv, Effects
<1>2. CASE SuNext
  <2>1. ControlInv' /\ Signals' BY <1>2, ControlStep, SignalStep
  <2>2. CASE EditConf /\ UNCHANGED suvars
    <3>1. UNCHANGED <<vars, su, shell, pcs, data>> /\ conf' \in Configs
      BY <2>2 DEF EditConf, suvars
    <3> QED BY <2>1, <3>1, StillEffects DEF SuInv, Effects
  <2>3. CASE ~ (EditConf /\ UNCHANGED suvars)
    <3>1. Effects'
      BY <1>2, <2>3, SameEffects, CallEffects, PamEffects, GroupsEffects, RaiseEffects,
         TerminalEffects, SessionEffects, ShedEffects, SetcredEffects, SetcredEndEffects,
         ForkEffects, CallbackEffects, RunEffects, CaughtEffects, ShellOperation, SuOperation
      DEF SuNext, SuStep, ShellStep
    <3> QED BY <2>1, <3>1 DEF SuInv, Effects
  <2> QED BY <2>2, <2>3
<1> QED BY <1>1, <1>2

(* It holds always. *)
LEMMA SuInvAlways == SuSpec => []SuInv
<1>1. SuInit => SuInv BY SuInvInit
<1> QED BY <1>1, SuInvNext, PTL DEF SuSpec

-----------------------------------------------------------------------------
(* Results                                                                 *)

(* main() of su.c never has a shell started for, or kept by, anybody whom  *)
(* authenticate_user, user_accounting and set_credentials did not let      *)
(* pass: from the fork until its end the shell has the ids that            *)
(* set_credentials took from the password file, the uid is not root's, and *)
(* neither close_session nor the deletion of the credentials comes before  *)
(* the end, wherever perform_launch_and_cleanup fails.                     *)
THEOREM ShellIsEntitled == SuSpec => []ShellEntitled
<1>1. SuInv => ShellEntitled
  <2> SUFFICES ASSUME SuInv, shell.st \in Alive PROVE ShellEntitled
    BY DEF ShellEntitled, Alive
  <2>1. su.auth /\ su.acct /\ su.session = "open" /\ su.cred = "set" /\ ~ Refused(su.user)
    BY DEF SuInv, ControlInv, Following
  <2>2. entry.uid # 0 BY <2>1 DEF Refused, entry
  <2>3. /\ creds["shell"].uid = entry.uid /\ creds["shell"].gid = entry.gid
        /\ creds["shell"].groups = entry.gid
    BY DEF SuInv, Identity
  <2> QED BY <2>1, <2>2, <2>3 DEF ShellEntitled
<1> QED BY <1>1, SuInvAlways, PTL

(* The tuple that pam_cap's set_capabilities or iab_apply gave, and no     *)
(* other, is what the shell runs with: nothing that su itself inherited,   *)
(* or raised for change_terminal_owner and open_session, gets there, and   *)
(* after a cap_iab_set_proc that returned 0 nothing of the tuple is        *)
(* missing.                                                                *)
THEOREM ShellIsAsConfigured == SuSpec => []ShellAsConfigured
<1>1. SuInv => ShellAsConfigured
  <2> SUFFICES ASSUME SuInv, shell.st \in {"running", "exited"} PROVE ShellAsConfigured
    BY DEF ShellAsConfigured
  <2> DEFINE cr == creds["shell"]
             got == cap_iab_get_proc(cr)
             done == su.applied \/ (f("shell").op = "iab_set_proc" /\ f("shell").ret = 0)
  <2>1. Bounded(cr) /\ (done => Exact(cr)) BY DEF SuInv, Tuples, ShellTuples, f
  <2>2. Want.nb \subseteq Caps BY DEF SuInv, Tuples, IsRule, Want, Iab
  <2>3. got.i = cr.I /\ got.a = cr.A /\ got.nb = Caps \ cr.B BY DEF cap_iab_get_proc
  <2> HIDE DEF cr, got, done
  <2>4. /\ got.i \subseteq Want.i /\ got.a \subseteq Want.a
        /\ done => got.i = Want.i /\ got.a = Want.a /\ Want.nb \subseteq got.nb
    BY <2>1, <2>2, <2>3 DEF Bounded, Exact
  <2> QED BY <2>4 DEF ShellAsConfigured, Want, done, got, cr
<1> QED BY <1>1, SuInvAlways, PTL

(* The capset of perform_launch_and_cleanup, or else that of close_session *)
(* takes from su what the user's rule gave it, and nothing that follows    *)
(* (cap_setuid twice, delete_cred, pam_end) brings it back.                *)
THEOREM MonitorIsShed == SuSpec => []MonitorSheds
<1>1. SuInv => MonitorSheds
  <2> SUFFICES ASSUME SuInv, su.pc \in Monitors \/ su.session = "closed" PROVE MonitorSheds
    BY DEF MonitorSheds, Monitors
  <2>1. k.I = {} BY DEF SuInv, Holdings, HoldingsOf
  <2>2. CredOK(k) BY SuCred
  <2> QED BY <2>1, <2>2 DEF MonitorSheds, CredOK
<1> QED BY <1>1, SuInvAlways, PTL

(* Every way out of main() passes the clean-up of what was done before, on *)
(* success, on the failure of any call and on a signal that su catches. 0  *)
(* is the status of the shell, or one that wait_for_child made up when     *)
(* waitpid failed.  Of those who may send SIGKILL, only processes of       *)
(* TEMP_UID and of the user whose shell it is reach su between             *)
(* make_process_unkillable and make_process_killable; and no hang-up kills *)
(* it from prepare_for_job_control on.  (Up to there a hang-up, and an     *)
(* alarm at almost any point, does: CleanedUp says nothing against it.)    *)
THEOREM SuCleansUp == SuSpec => []CleanedUp
<1>1. SuInv => CleanedUp
  <2> SUFFICES ASSUME SuInv PROVE CleanedUp
    OBVIOUS
  <2>1. ASSUME su.pc = "exit"
        PROVE  /\ su.session # "open" /\ (su.cred # "set" \/ (su.login /\ su.err))
               /\ su.tty = su.invoked_uid \/ su.alert
               /\ su.status = 0 => Ended /\ (shell.code = 0 \/ su.reaped)
    <3>1. su.session # "open" /\ (su.cred # "set" \/ (su.login /\ su.err))
      BY <2>1 DEF SuInv, ControlInv, Progress, Opened, Monitors
    <3>2. su.tty = su.invoked_uid \/ su.alert
      BY <2>1 DEF SuInv, ControlInv, Terminal, Opened, Monitors
    <3>3. su.status = 0 => Ended /\ (shell.code = 0 \/ su.reaped)
      BY DEF SuInv, ControlInv, Following, Signals, Ended
    <3> QED BY <3>1, <3>2, <3>3
  <2>2. Signals BY DEF SuInv
  <2> QED BY <2>1, <2>2 DEF CleanedUp, Signals, Exposed
<1> QED BY <1>1, SuInvAlways, PTL
=============================================================================
