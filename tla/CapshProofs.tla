---------------------------- MODULE CapshProofs ----------------------------
(***************************************************************************)
(* Proofs about Capsh, for any command line, any capabilities, users and   *)
(* starting credentials.                                                   *)
(***************************************************************************)
EXTENDS Capsh, CapProcProofs, CapFormsProofs

-----------------------------------------------------------------------------
(* The invariant                                                           *)

(* What CommandContained says of a command that was obeyed with the        *)
(* credentials s and left kk.                                              *)
UserHas(u, s, kk) == /\ kk.uid = u.uid /\ kk.gid = u.gid /\ kk.groups = u.gid
                     /\ kk.E = {}
                     /\ ~ CannotKeep(s.sec) => kk.P = s.P
Contained(cmd, s, kk) ==
    /\ cmd[1] = "drop"   => kk = [s EXCEPT !.B = @ \ cmd[2]]
    /\ cmd[1] = "inh"    => LET new == {x[2] : x \in cmd[2]}
                            IN kk = [s EXCEPT !.I = new, !.A = @ \cap new]
    /\ cmd[1] = "chroot" => kk = [s EXCEPT !.root = cmd[2]]
    /\ cmd[1] = "caps"   => kk = [s EXCEPT !.P = cmd[2].P, !.E = cmd[2].E, !.I = cmd[2].I,
                                           !.A = @ \cap cmd[2].P \cap cmd[2].I]
    /\ cmd[1] = "user"   => UserHas(Users[cmd[2]], s, kk)

Named == {"drop", "inh", "chroot", "caps", "user"}

(* --user on its way: cap_setgroups, begun with the credentials at the     *)
(* start of the command, or cap_setuid, begun with what the former left.   *)
UserCalls(cmd, s, g) ==
    cmd[1] = "user" =>
        /\ cmd[2] \in DOMAIN Users /\ g.op \in {"setgroups", "setuid"}
        /\ g.op = "setgroups" => g.arg = Users[cmd[2]].gid /\ g.start = s
        /\ g.op = "setuid" => /\ g.arg = Users[cmd[2]].uid
                              /\ g.start.gid = Users[cmd[2]].gid
                              /\ g.start.groups = Users[cmd[2]].gid
                              /\ g.start.P = s.P /\ g.start.sec = s.sec

ShFields == {"pc", "kind", "left", "strict", "child", "cmd", "start", "status"}

ControlOK == /\ DOMAIN sh = ShFields /\ sh.kind \in DOMAIN Commands
             /\ sh.pc \in {"ready", "calling", "exit", "shell"}

(* Between commands no call is under way. *)
CallOK == /\ f("capsh").clean
          /\ f("capsh").pc # "done" => sh.pc = "calling"
          /\ sh.pc = "calling" => /\ sh.cmd[1] \notin Named \ {"user"}
                                  /\ UserCalls(sh.cmd, sh.start, f("capsh"))

(* A process whose mode is NOPRIV gains nothing by executing a program. *)
BoundsOK == "capsh" \in nopriv => k.B = {}

ShInv == /\ CapInv /\ Tracking /\ ControlOK /\ CallOK /\ BoundsOK
         /\ sh.pc = "ready" => Contained(sh.cmd, sh.start, k)

-----------------------------------------------------------------------------
(* The process                                                             *)

LEMMA OneProcess ==
  ASSUME CapInv
  PROVE  /\ "capsh" \in Threads /\ Threads = {"capsh"} /\ Procs = {"capsh"}
         /\ Home["capsh"] = "capsh" /\ c("capsh") = k
         /\ CredOK(k) /\ k \in Cred /\ FrameOK(f("capsh")) /\ cap_get_proc(k) \in CapT
         /\ "capsh" \in nopriv => Empty(k)
<1>1. "capsh" \in Threads /\ Threads = {"capsh"} /\ Procs = {"capsh"} BY CapshAssumption
<1>2. Home["capsh"] = "capsh" BY <1>1, CapProcAssumption
<1>3. c("capsh") = k BY <1>2 DEF c, k
<1>4. CredOK(c("capsh")) /\ FrameOK(f("capsh")) /\ cap_get_proc(c("capsh")) \in CapT
  BY <1>1, Here
<1>5. "capsh" \in nopriv => Empty(k) BY DEF CapInv, NoprivInv, k
<1> QED BY <1>1, <1>2, <1>3, <1>4, <1>5 DEF CredOK

(* A step gives it a frame and credentials. *)
LEMMA Became ==
  ASSUME CapInv, NEW g, NEW kk, Becomes("capsh", g, kk)
  PROVE  /\ k' = kk /\ f("capsh")' = g /\ creds' = [p \in Procs |-> kk]
         /\ nopriv' = IF NowNopriv(g) THEN nopriv \cup {"capsh"} ELSE nopriv
<1>1. /\ "capsh" \in Threads /\ Threads = {"capsh"} /\ Procs = {"capsh"}
      /\ Home["capsh"] = "capsh"
  BY OneProcess
<1>2. DOMAIN creds = Procs BY DEF CapInv, TypeOK
<1>3. creds' = [creds EXCEPT ![Home["capsh"]] = kk] BY DEF Becomes
<1>4. creds' = [p \in Procs |-> kk] BY <1>1, <1>2, <1>3
<1>5. frame'["capsh"] = g BY <1>1 DEF Becomes
<1>6. nopriv' = IF NowNopriv(g) THEN nopriv \cup {"capsh"} ELSE nopriv
  BY <1>1 DEF Becomes, NowNopriv
<1> QED BY <1>1, <1>4, <1>5, <1>6 DEF k, f

(* No call of libcap. *)
LEMMA BlankOK ==
  /\ FrameOK(Blank) /\ Blank.pc = "done" /\ Blank.op = "none" /\ Blank.clean
  /\ ~ NowNopriv(Blank) /\ \A kk : Tracks(Blank, kk)
  BY CapProcAssumption
  DEF FrameOK, Blank, Points, Ops, CapT, NoCaps, Passes, Clearing, NowNopriv, Tracks

(* The process becomes one with credentials kk, by system calls of capsh's *)
(* own or by execve(2).                                                    *)
LEMMA SetsDoes ==
  ASSUME CapInv, BoundsOK, NEW kk, Sets(kk), CredOK(kk), kk.B \subseteq k.B,
         "capsh" \in nopriv => Empty(kk)
  PROVE  /\ CapInv' /\ Tracking' /\ BoundsOK' /\ k' = kk
         /\ f("capsh")' = Blank
<1>1. /\ "capsh" \in Threads /\ Threads = {"capsh"} /\ Procs = {"capsh"}
      /\ Home["capsh"] = "capsh"
  BY OneProcess
<1>2. /\ k' = kk /\ f("capsh")' = Blank /\ creds' = [p \in Procs |-> kk] /\ nopriv' = nopriv
  BY BlankOK, Became DEF Sets
<1>3. creds' \in [Procs -> Cred] /\ \A p \in Procs : creds'[p] = kk BY <1>2 DEF CredOK
<1>4. \A t \in Threads : f(t)' = Blank BY <1>1, <1>2
<1>5. nopriv \subseteq Procs BY DEF CapInv, TypeOK
<1>6. TypeOK'
  <2>1. \A t \in Threads : FrameOK(f(t)') BY <1>4, BlankOK
  <2> QED BY <1>2, <1>3, <1>5, <2>1 DEF TypeOK, CredOK, FrameOK
<1>7. NoprivInv' BY <1>1, <1>2, <1>3, <1>5 DEF NoprivInv
<1>8. CapInv' BY <1>4, <1>6, <1>7, BlankOK DEF CapInv
<1>9. Tracking' BY <1>4, BlankOK DEF Tracking
<1>10. BoundsOK' BY <1>2 DEF BoundsOK
<1> QED BY <1>2, <1>8, <1>9, <1>10

-----------------------------------------------------------------------------
(* What a command does to the state of the program                         *)

LEMMA ObeyedIs ==
  ASSUME ControlOK, NEW cmd
  PROVE  /\ DOMAIN Obeyed(cmd) = ShFields /\ Obeyed(cmd).kind = sh.kind
         /\ Obeyed(cmd).pc = sh.pc /\ Obeyed(cmd).cmd = cmd /\ Obeyed(cmd).start = k
  BY DEF ControlOK, ShFields, Obeyed

LEMMA OverIs ==
  ASSUME ControlOK, NEW n
  PROVE  DOMAIN Over(n) = ShFields /\ Over(n).kind = sh.kind /\ Over(n).pc = "exit"
  BY DEF ControlOK, ShFields, Over

(* Commands that the property does not name. *)
LEMMA Unnamed ==
  ASSUME NEW cmd, cmd[1] \notin Named, NEW s, NEW kk PROVE Contained(cmd, s, kk)
  BY DEF Named, Contained

(* A command is over, or the program. *)
LEMMA Rests ==
  ASSUME CapInv', Tracking', BoundsOK', f("capsh")'.clean, f("capsh")'.pc = "done",
         DOMAIN sh' = ShFields, sh'.kind \in DOMAIN Commands,
         sh'.pc \in {"ready", "exit", "shell"},
         sh'.pc = "ready" => Contained(sh'.cmd, sh'.start, k')
  PROVE  ShInv'
<1>1. ControlOK' BY DEF ControlOK
<1>2. CallOK' BY DEF CallOK
<1> QED BY <1>1, <1>2 DEF ShInv

LEMMA Unmoved ==
  ASSUME ShInv, UNCHANGED vars
  PROVE  CapInv' /\ Tracking' /\ BoundsOK' /\ k' = k /\ f("capsh")' = f("capsh")
<1>1. CapInv' /\ Tracking'
  <2>1. [Next]_vars OBVIOUS
  <2> QED BY <2>1, InvNext, TrackNext DEF ShInv
<1> QED BY <1>1 DEF vars, ShInv, BoundsOK, k, f

LEMMA AtRest ==
  ASSUME ShInv, sh.pc # "calling"
  PROVE  f("capsh").clean /\ f("capsh").pc = "done"
  BY DEF ShInv, CallOK

(* exit(2) *)
LEMMA Exits ==
  ASSUME ShInv, UNCHANGED vars, f("capsh").pc = "done", NEW n, sh' = Over(n)
  PROVE  ShInv'
<1>1. CapInv' /\ Tracking' /\ BoundsOK' /\ k' = k /\ f("capsh")' = f("capsh") BY Unmoved
<1>2. DOMAIN sh' = ShFields /\ sh'.kind = sh.kind /\ sh'.pc = "exit" BY OverIs DEF ShInv
<1>3. f("capsh").clean /\ sh.kind \in DOMAIN Commands BY DEF ShInv, CallOK, ControlOK
<1> QED BY <1>1, <1>2, <1>3, Rests

(* A command that leaves the credentials alone. *)
LEMMA Passed ==
  ASSUME ShInv, sh.pc = "ready", UNCHANGED vars, DOMAIN sh' = ShFields, sh'.kind = sh.kind,
         sh'.pc = "ready", sh'.cmd[1] \notin Named
  PROVE  ShInv'
<1>1. CapInv' /\ Tracking' /\ BoundsOK' /\ k' = k /\ f("capsh")' = f("capsh") BY Unmoved
<1>2. f("capsh").clean /\ f("capsh").pc = "done" BY AtRest
<1>3. sh.kind \in DOMAIN Commands BY DEF ShInv, ControlOK
<1>4. Contained(sh'.cmd, sh'.start, k') BY Unnamed
<1> QED BY <1>1, <1>2, <1>3, <1>4, Rests

(* What a command of one step may make of the credentials. *)
Good(cmd, l) == Legal(k, l) /\ l.B \subseteq k.B /\ Contained(cmd, k, l)

LEMMA DoesInv ==
  ASSUME ShInv, sh.pc = "ready", NEW cmd, NEW result, Does(cmd, result),
         result.ok => Good(cmd, result.cred)
  PROVE  ShInv'
<1>1. f("capsh").clean /\ f("capsh").pc = "done" /\ ControlOK /\ CapInv /\ BoundsOK
  BY AtRest DEF ShInv
<1>2. CASE result.ok
  <2> DEFINE l == result.cred
  <2>1. sh' = Obeyed(cmd) /\ Sets(l) BY <1>2 DEF Does
  <2>2. Legal(k, l) /\ l.B \subseteq k.B /\ Contained(cmd, k, l) BY <1>2 DEF Good
  <2> HIDE DEF l
  <2>3. CredOK(l) /\ ("capsh" \in nopriv => Empty(l)) BY <1>1, <2>2, OneProcess DEF Legal
  <2>4. CapInv' /\ Tracking' /\ BoundsOK' /\ k' = l /\ f("capsh")' = Blank
    BY <1>1, <2>1, <2>2, <2>3, SetsDoes
  <2>5. /\ DOMAIN sh' = ShFields /\ sh'.kind = sh.kind
        /\ sh'.pc = "ready" /\ sh'.cmd = cmd /\ sh'.start = k
    BY <1>1, <2>1, ObeyedIs
  <2>6. sh.kind \in DOMAIN Commands BY <1>1 DEF ControlOK
  <2> QED BY <2>2, <2>4, <2>5, <2>6, BlankOK, Rests
<1>3. CASE ~ result.ok
  <2>1. sh' = Over(1) /\ UNCHANGED vars BY <1>3 DEF Does
  <2> QED BY <1>1, <2>1, Exits
<1> QED BY <1>2, <1>3

-----------------------------------------------------------------------------
(* The commands of one step                                                *)

(* Raising CAP_SETPCAP, or trying to, changes E alone. *)
During == IF NeedsSetpcap THEN Capset(k, WithSetpcap) ELSE k

LEMMA DuringIs ==
  ASSUME CapInv
  PROVE  \E e \in SUBSET Caps : During = [k EXCEPT !.E = e] /\ Legal(k, During)
<1>1. CredOK(k) /\ k \in Cred /\ cap_get_proc(k) \in CapT BY OneProcess
<1>2. k = [k EXCEPT !.E = k.E] /\ k.E \in SUBSET Caps BY <1>1 DEF Cred
<1>3. Legal(k, k) BY <1>1 DEF Legal
<1>4. CASE ~ NeedsSetpcap \/ ~ CapsetOk(k, WithSetpcap)
  <2>1. During = k BY <1>4 DEF During, Capset
  <2> QED BY <1>2, <1>3, <2>1
<1>5. CASE NeedsSetpcap /\ CapsetOk(k, WithSetpcap)
  <2>1. /\ WithSetpcap \in CapT /\ WithSetpcap.P = k.P /\ WithSetpcap.I = k.I
    BY <1>1, CredsAssumption DEF WithSetpcap, cap_get_proc, CapT, Cred
  <2>2. During = [k EXCEPT !.E = WithSetpcap.E] BY <1>1, <1>5, <2>1, CapsetSets DEF During
  <2>3. WithSetpcap.E \in SUBSET Caps BY <2>1 DEF CapT
  <2>4. Legal(k, During) BY <1>1, <1>5, <2>1, CapsetLegal DEF During
  <2> QED BY <2>2, <2>3, <2>4
<1> QED BY <1>4, <1>5

(* One system call after another. *)
LEMMA LegalTrans ==
  ASSUME NEW a, NEW b, NEW d, Legal(a, b), Legal(b, d) PROVE Legal(a, d)
  BY DEF Legal

LEMMA DropGood ==
  ASSUME CapInv, NEW cmd, cmd[1] = "drop", cmd[2] \in SUBSET Caps, arg_drop(cmd[2]).ok
  PROVE  Good(cmd, arg_drop(cmd[2]).cred)
<1> DEFINE xs == cmd[2]
           w == cap_get_proc(k)
           want == [k EXCEPT !.B = @ \ xs]
<1>1. CredOK(k) /\ k \in Cred /\ w \in CapT BY OneProcess
<1>2. want.B \subseteq k.B /\ Legal(k, want)
  BY <1>1 DEF Cred, Legal, CredOK, Empty, Sealed
<1>3. arg_drop(xs).cred = want
  <2>1. CASE xs = {}
    <3>1. arg_drop(xs).cred = k BY <2>1 DEF arg_drop, Leaves
    <3>2. k = want BY <1>1, <2>1 DEF Cred
    <3> QED BY <3>1, <3>2
  <2>2. CASE xs # {}
    <3> DEFINE dropped == [During EXCEPT !.B = @ \ xs]
    <3>1. /\ arg_drop(xs).cred = Capset(dropped, w)
          /\ CapsetOk(dropped, w)
      BY <2>2 DEF arg_drop, Leaves, During
    <3>2. PICK e \in SUBSET Caps : During = [k EXCEPT !.E = e] /\ Legal(k, During) BY DuringIs
    <3>3. dropped = [k EXCEPT !.E = e, !.B = @ \ xs] BY <1>1, <3>2 DEF Cred
    <3>4. Capset(dropped, w) = [dropped EXCEPT !.P = w.P, !.E = w.E, !.I = w.I,
                                               !.A = @ \cap w.P \cap w.I]
      BY <3>1 DEF Capset
    <3>5. w.P = k.P /\ w.E = k.E /\ w.I = k.I /\ k.A \cap k.P \cap k.I = k.A
      BY <1>1 DEF cap_get_proc, CredOK
    <3> HIDE DEF w, dropped
    <3>6. dropped.A = k.A BY <1>1, <3>3 DEF Cred
    <3>7. Capset(dropped, w) = [dropped EXCEPT !.P = k.P, !.E = k.E, !.I = k.I, !.A = k.A]
      BY <3>4, <3>5, <3>6
    <3>8. [dropped EXCEPT !.P = k.P, !.E = k.E, !.I = k.I, !.A = k.A] = want
      BY <1>1, <3>3 DEF Cred
    <3> QED BY <3>1, <3>7, <3>8
  <2> QED BY <2>1, <2>2
<1>4. Contained(cmd, k, want) BY DEF Contained
<1> QED BY <1>2, <1>3, <1>4 DEF Good

(* --caps, and --inh once it has read its text. *)
LEMMA SetAllIs ==
  ASSUME CapInv, NEW all, all # NULL => all \in CapT, SetAll(all).ok
  PROVE  LET l == SetAll(all).cred IN
         /\ all \in CapT /\ Legal(k, l) /\ l.B = k.B
         /\ l = [k EXCEPT !.P = all.P, !.E = all.E, !.I = all.I,
                          !.A = @ \cap all.P \cap all.I]
<1>1. CredOK(k) /\ k \in Cred BY OneProcess
<1>2. /\ all # NULL /\ SetAll(all).cred = Capset(During, all) /\ CapsetOk(During, all)
  BY DEF SetAll, Leaves, During
<1>3. PICK e \in SUBSET Caps : During = [k EXCEPT !.E = e] /\ Legal(k, During) BY DuringIs
<1>4. CredOK(During) BY <1>3 DEF Legal
<1> DEFINE l == Capset(During, all)
<1>5. all \in CapT BY <1>2
<1>6. Legal(k, l) BY <1>3, <1>4, <1>5, CapsetLegal, LegalTrans
<1>7. l = [During EXCEPT !.P = all.P, !.E = all.E, !.I = all.I, !.A = @ \cap all.P \cap all.I]
  BY <1>2 DEF Capset
<1> DEFINE A == k.A \cap all.P \cap all.I
<1>8. During.A = k.A BY <1>1, <1>3 DEF Cred
<1>9. l = [During EXCEPT !.P = all.P, !.E = all.E, !.I = all.I, !.A = A]
  BY <1>7, <1>8
<1> HIDE DEF A, l
<1>10. l = [k EXCEPT !.P = all.P, !.E = all.E, !.I = all.I, !.A = A]
  BY <1>1, <1>3, <1>9 DEF Cred
<1>11. l.B = k.B BY <1>1, <1>10 DEF Cred
<1> QED BY <1>2, <1>5, <1>6, <1>10, <1>11 DEF A, l

LEMMA CapsGood ==
  ASSUME CapInv, NEW cmd, cmd[1] = "caps", cmd[2] \in CapT \cup {NULL}, SetAll(cmd[2]).ok
  PROVE  Good(cmd, SetAll(cmd[2]).cred)
<1> DEFINE all == cmd[2]
           l == SetAll(all).cred
<1>1. /\ Legal(k, l) /\ l.B = k.B
      /\ l = [k EXCEPT !.P = all.P, !.E = all.E, !.I = all.I, !.A = @ \cap all.P \cap all.I]
  BY SetAllIs
<1> HIDE DEF l
<1>2. Contained(cmd, k, l) BY <1>1 DEF Contained
<1>3. Good(cmd, l) BY <1>1, <1>2 DEF Good
<1> QED BY <1>3 DEF l

(* The library of the kernel that capsh runs on. *)
LEMMA LibIs ==
  /\ Lib.cmb = MaxBits /\ Lib.cmb \in 1 .. MAXBITS /\ Lib.version = 3 /\ Lib.gperf = TRUE
  /\ Caps \subseteq Values /\ Caps \subseteq Nat
<1>1. cap_max_bits(MaxBits) = MaxBits /\ MaxBits \in 1 .. MAXBITS /\ MAXBITS \in Nat
  BY CapshAssumption, HighestCapability, Widths
<1> QED BY <1>1 DEF Lib, Library, Caps, Values

(* The flags of a process as a cap_t. *)
LEMMA FlagsObject ==
  ASSUME NEW w \in CapT
  PROVE  w \in CapObject /\ w["P"] = w.P /\ w["E"] = w.E /\ w["I"] = w.I
<1>1. DOMAIN w = Flags /\ \A fl \in Flags : w[fl] \in SUBSET Caps BY DEF CapT, Flags
<1>2. w = [fl \in Flags |-> w[fl]] BY <1>1 DEF CapT, Flags
<1>3. \A fl \in Flags : w[fl] \in SUBSET Values BY <1>1, LibIs
<1> HIDE DEF Flags
<1> QED BY <1>2, <1>3 DEF CapObject

(* The clause that --inh appends. *)
Plus(names) == Clause(FALSE, names, <<<<"+", {"I"}>>>>)

LEMMA PlusIs ==
  ASSUME NEW names \in SUBSET ({"name", "number"} \X Caps), names # {},
         NEW w \in CapObject, ClauseOk(Plus(names), Lib)
  PROVE  LET new == {x[2] : x \in names}
             all == ClauseDo(w, Plus(names), Lib) IN
         /\ new \in SUBSET Caps
         /\ all = [fl \in Flags |-> IF fl = "I" THEN w[fl] \cup new ELSE w[fl]]
<1> DEFINE cl == Plus(names)
           new == {x[2] : x \in names}
           bits == ClauseBits(cl, Lib)
           act == <<"+", {"I"}>>
<1>1. cl.all = FALSE /\ cl.before \cup cl.tokens = names /\ cl.acts = <<act>>
  BY DEF Plus, Clause
<1>2. Len(cl.acts) = 1 /\ cl.acts[1] = act BY <1>1, One
<1>3. \A x \in names : x[2] \in Caps OBVIOUS
<1>4. new \in SUBSET Caps BY <1>3
<1>5. \A x \in names : lookupname(x, Lib) = x[2]
  <2> SUFFICES ASSUME NEW x \in names PROVE lookupname(x, Lib) = x[2]
    OBVIOUS
  <2>1. lookupname(x, Lib) # -1 BY <1>1 DEF ClauseOk
  <2> QED BY <2>1 DEF lookupname
<1>6. {lookupname(x, Lib) : x \in names} = new BY <1>5
<1>7. bits = new
  <2>1. Listed(cl) /\ ~ cl.all BY <1>1 DEF Listed
  <2>2. Lib.version # 1 BY LibIs
  <2>3. Blks * WordBits = MAXBITS BY DEF MAXBITS
  <2>4. new \subseteq 0 .. MAXBITS - 1 BY <1>4, LibIs DEF Values
  <2> QED BY <1>1, <1>6, <2>1, <2>2, <2>3, <2>4 DEF ClauseBits
<1> HIDE DEF bits, new, cl
<1>8. ClauseDo(w, cl, Lib) = Act(w, act, bits) BY <1>2, ClauseDoOne DEF bits
<1>9. Act(w, act, new) = [fl \in Flags |-> IF fl = "I" THEN w[fl] \cup new ELSE w[fl]]
  BY DEF Act
<1> QED BY <1>4, <1>7, <1>8, <1>9 DEF new, cl

(* What --inh sets: its text is the flags without I, and the clause. *)
LEMMA InhText ==
  ASSUME CapInv, NEW names \in SUBSET ({"name", "number"} \X Caps)
  PROVE  LET rest == cap_to_text([cap_get_proc(k) EXCEPT !.I = {}], Lib)
             plus == IF names = {} THEN <<>> ELSE <<Plus(names)>>
             all == cap_from_text(rest \o plus, Lib)
         IN all # NULL => /\ all \in CapT /\ all.P = k.P /\ all.E = k.E
                          /\ all.I = {x[2] : x \in names}
<1> DEFINE w == [cap_get_proc(k) EXCEPT !.I = {}]
           rest == cap_to_text(w, Lib)
           new == {x[2] : x \in names}
<1>1. k \in Cred BY OneProcess
<1>2. w \in CapT /\ w.P = k.P /\ w.E = k.E /\ w.I = {}
  BY <1>1 DEF cap_get_proc, CapT, Cred
<1> HIDE DEF w
<1>3. w \in CapObject /\ w["P"] = w.P /\ w["E"] = w.E /\ w["I"] = w.I BY <1>2, FlagsObject
<1>4. rest \in CapText
  <2>1. Lib.cmb \in Nat BY LibIs, Widths
  <2> QED BY <2>1, ToTextType
<1>5. cap_from_text(rest, Lib) = w
  <2>1. Speakable(BitsOf(w), Lib) BY LibIs DEF Speakable
  <2> QED BY <1>3, <2>1, LibIs, TextRoundTrip
<1> HIDE DEF rest
<1>6. CASE names = {}
  <2>1. rest \o <<>> = rest BY <1>4 DEF CapText
  <2>2. new = {} BY <1>6
  <2> QED BY <1>2, <1>5, <1>6, <2>1, <2>2 DEF rest, w
<1>7. CASE names # {}
  <2> DEFINE cl == Plus(names)
             all == cap_from_text(rest \o <<cl>>, Lib)
  <2>1. <<cl>> \in CapText
    <3>1. names \in SUBSET Token BY LibIs DEF Token
    <3>2. <<<<"+", {"I"}>>>> \in Seq({"=", "+", "-", "=+", "=-"} \X SUBSET Flags) BY DEF Flags
    <3>3. cl \in [all : BOOLEAN, before : SUBSET Token, tokens : SUBSET Token,
                  acts : Seq({"=", "+", "-", "=+", "=-"} \X SUBSET Flags)]
      BY <3>1, <3>2 DEF Plus, Clause
    <3> HIDE DEF cl
    <3> QED BY <3>3 DEF CapText
  <2>2. w # NULL BY <1>3, NullAssumption
  <2> HIDE DEF cl
  <2>3. all = IF ClauseOk(cl, Lib) THEN ClauseDo(w, cl, Lib) ELSE NULL
    BY <1>4, <1>5, <2>1, <2>2, FromTextAppend
  <2> HIDE DEF all
  <2>4. ASSUME all # NULL
        PROVE  all \in CapT /\ all.P = k.P /\ all.E = k.E /\ all.I = new
    <3>1. ClauseOk(cl, Lib) /\ all = ClauseDo(w, cl, Lib) BY <2>3, <2>4
    <3>2. /\ new \in SUBSET Caps
          /\ all = [fl \in Flags |-> IF fl = "I" THEN w[fl] \cup new ELSE w[fl]]
      BY <1>3, <1>7, <3>1, PlusIs DEF cl
    <3> HIDE DEF new
    <3>3. /\ all = [P |-> w.P, E |-> w.E, I |-> new]
      <4>1. all["P"] = w.P /\ all["E"] = w.E /\ all["I"] = new
        BY <1>2, <1>3, <3>2 DEF Flags
      <4>2. all = [fl \in Flags |-> all[fl]] BY <3>2
      <4> HIDE DEF all
      <4> QED BY <4>1, <4>2 DEF Flags
    <3> QED BY <1>2, <3>2, <3>3 DEF CapT
  <2> QED BY <1>7, <2>4 DEF all, cl, rest, w
<1> QED BY <1>6, <1>7

LEMMA InhGood ==
  ASSUME CapInv, NEW cmd, cmd[1] = "inh", cmd[2] \in SUBSET ({"name", "number"} \X Caps),
         inh(cmd[2]).ok
  PROVE  Good(cmd, inh(cmd[2]).cred)
<1> DEFINE names == cmd[2]
           plus == IF names = {} THEN <<>> ELSE <<Plus(names)>>
           all == cap_from_text(cap_to_text([cap_get_proc(k) EXCEPT !.I = {}], Lib) \o plus, Lib)
           new == {x[2] : x \in names}
           l == SetAll(all).cred
<1>1. inh(names) = SetAll(all) BY DEF inh, Plus
<1>2. all # NULL => all \in CapT /\ all.P = k.P /\ all.E = k.E /\ all.I = new BY InhText
<1> HIDE DEF all
<1>3. /\ all \in CapT /\ Legal(k, l) /\ l.B = k.B
      /\ l = [k EXCEPT !.P = all.P, !.E = all.E, !.I = all.I,
                       !.A = @ \cap all.P \cap all.I]
  BY <1>1, <1>2, SetAllIs
<1>4. CredOK(k) BY OneProcess
<1>5. all # NULL BY <1>1 DEF SetAll, Leaves
<1> DEFINE want == [k EXCEPT !.I = new, !.A = @ \cap new]
<1> HIDE DEF l, new
<1>6. l = want
  <2> DEFINE A == k.A \cap new
  <2>1. k.A \cap k.P \cap new = A BY <1>4 DEF CredOK
  <2>2. l = [k EXCEPT !.P = k.P, !.E = k.E, !.I = new, !.A = k.A \cap k.P \cap new]
    BY <1>2, <1>3, <1>5
  <2>3. l = [k EXCEPT !.P = k.P, !.E = k.E, !.I = new, !.A = A] BY <2>1, <2>2
  <2> HIDE DEF A
  <2>4. l = [k EXCEPT !.I = new, !.A = A] BY <1>4, <2>3 DEF CredOK, Cred
  <2> QED BY <1>4, <2>4 DEF A, CredOK, Cred
<1>7. Contained(cmd, k, l)
  <2>1. l = [k EXCEPT !.I = {x[2] : x \in cmd[2]}, !.A = @ \cap {x[2] : x \in cmd[2]}]
    BY <1>6 DEF new
  <2> QED BY <2>1 DEF Contained
<1>8. Good(cmd, l) BY <1>3, <1>7 DEF Good
<1> QED BY <1>1, <1>8 DEF l

(* CAP_SYS_CHROOT is raised, and lowered again: nothing else that could be *)
(* set has changed meanwhile.                                              *)
LEMMA ChrootGood ==
  ASSUME CapInv, NEW cmd, cmd[1] = "chroot", cmd[2] \in Roots, chroot(cmd[2]).ok
  PROVE  Good(cmd, chroot(cmd[2]).cred)
<1> DEFINE dir == cmd[2]
           w == cap_get_proc(k)
           v == [w EXCEPT !.E = @ \cup {CAP_SYS_CHROOT}]
           during == Capset(k, v)
           there == Chroot(during, dir)
           want == [k EXCEPT !.root = dir]
<1>1. /\ CredOK(k) /\ k \in Cred /\ w \in CapT /\ w.P = k.P /\ w.E = k.E /\ w.I = k.I
  BY OneProcess DEF cap_get_proc
<1>2. chroot(dir).cred = Capset(there, w) /\ CapsetOk(k, v) BY DEF chroot, Leaves
<1> HIDE DEF w
<1>3. /\ v \in CapT /\ v.P = k.P /\ v.I = k.I /\ v.E = k.E \cup {CAP_SYS_CHROOT}
  BY <1>1, CredsAssumption DEF CapT
<1> HIDE DEF v
<1>4. during = [k EXCEPT !.E = v.E] BY <1>1, <1>2, <1>3, CapsetSets
<1>5. ChrootOk(during) BY <1>1, <1>3, <1>4 DEF ChrootOk, Cred
<1>6. there = [during EXCEPT !.root = dir] BY <1>5 DEF Chroot
<1>7. there = [k EXCEPT !.E = v.E, !.root = dir] BY <1>1, <1>4, <1>6
<1> HIDE DEF during, there
<1>8. CapsetOk(there, w)
  BY <1>1, <1>7 DEF CapsetOk, CredOK, Cred
<1>9. Capset(there, w) = want
  <2>1. /\ Capset(there, w) = [there EXCEPT !.P = w.P, !.E = w.E, !.I = w.I,
                                            !.A = @ \cap w.P \cap w.I]
    BY <1>8 DEF Capset
  <2>2. there.A = k.A /\ k.A \cap k.P \cap k.I = k.A BY <1>1, <1>7 DEF CredOK, Cred
  <2>3. Capset(there, w) = [there EXCEPT !.P = k.P, !.E = k.E, !.I = k.I, !.A = k.A]
    BY <1>1, <2>1, <2>2
  <2>4. [there EXCEPT !.P = k.P, !.E = k.E, !.I = k.I, !.A = k.A] = want
    <3> HIDE DEF dir
    <3> QED BY <1>1, <1>7 DEF Cred
  <2> QED BY <2>3, <2>4
<1>10. Legal(k, want) /\ want.B = k.B
  BY <1>1 DEF Cred, Legal, CredOK, Empty, Sealed
<1>11. Contained(cmd, k, want) BY DEF Contained
<1> HIDE DEF want
<1> QED BY <1>2, <1>9, <1>10, <1>11 DEF Good

(* The commands that are one system call, or several prctl()s. *)
LEMMA OtherGood ==
  ASSUME CapInv, NEW cmd, cmd[1] \notin Named
  PROVE  /\ cmd[2] \in SUBSET Caps =>
               /\ LET r == arg_change_amb(cmd[2], TRUE)  IN r.ok => Good(cmd, r.cred)
               /\ LET r == arg_change_amb(cmd[2], FALSE) IN r.ok => Good(cmd, r.cred)
         /\ cmd[2] \in BOOLEAN => Good(cmd, arg_keep(cmd[2]).cred)
         /\ cmd[2] \in SUBSET SecBits => Good(cmd, arg_secbits(cmd[2]).cred)
         /\ cmd[2] \in Uids => Good(cmd, arg_uid(cmd[2]).cred)
         /\ cmd[2] \in Gids => Good(cmd, arg_gid(cmd[2]).cred) /\ Good(cmd, arg_groups(cmd[2]).cred)
         /\ Good(cmd, no_new_privs.cred)
<1>0. CredOK(k) /\ k \in Cred BY OneProcess
<1>1. ASSUME NEW l, Legal(k, l), l.B = k.B PROVE Good(cmd, l)
  BY <1>1, Unnamed DEF Good
<1>2. ASSUME cmd[2] \in SUBSET Caps, arg_change_amb(cmd[2], TRUE).ok
      PROVE  Good(cmd, arg_change_amb(cmd[2], TRUE).cred)
  <2> DEFINE xs == cmd[2]
             l == [k EXCEPT !.A = @ \cup xs]
  <2>1. arg_change_amb(xs, TRUE).cred = l /\ \A x \in xs : RaiseOk(k, x)
    BY <1>2 DEF arg_change_amb, Leaves
  <2>2. /\ l \in Cred /\ l.A = k.A \cup xs /\ l.P = k.P /\ l.E = k.E /\ l.I = k.I
        /\ l.B = k.B /\ l.sec = k.sec /\ l.ambient = k.ambient
    BY <1>0, <1>2 DEF Cred
  <2>3. xs # {} => ~ Empty(k) /\ ~ Sealed(k)
    BY <2>1 DEF Empty, Sealed, RaiseOk, CAP_SECURED_BITS_AMBIENT
  <2>4. CredOK(l) BY <1>0, <2>1, <2>2 DEF CredOK, RaiseOk
  <2>5. Legal(k, l) BY <2>2, <2>3, <2>4 DEF Legal, Empty, Sealed
  <2> HIDE DEF l
  <2> QED BY <1>1, <2>1, <2>2, <2>5
<1>3. ASSUME cmd[2] \in SUBSET Caps
      PROVE  Good(cmd, arg_change_amb(cmd[2], FALSE).cred)
  <2> DEFINE xs == cmd[2]
             l == [k EXCEPT !.A = @ \ xs]
  <2>1. arg_change_amb(xs, FALSE).cred = l BY DEF arg_change_amb, Leaves
  <2>2. /\ l \in Cred /\ l.A = k.A \ xs /\ l.P = k.P /\ l.E = k.E /\ l.I = k.I
        /\ l.B = k.B /\ l.sec = k.sec /\ l.ambient = k.ambient
    BY <1>0 DEF Cred
  <2>3. Legal(k, l) BY <1>0, <2>2 DEF Legal, CredOK, Empty, Sealed
  <2> HIDE DEF l
  <2> QED BY <1>1, <2>1, <2>2, <2>3
<1>4. ASSUME cmd[2] \in BOOLEAN PROVE Good(cmd, arg_keep(cmd[2]).cred)
  <2> DEFINE l == SetKeepCaps(k, cmd[2])
  <2>1. arg_keep(cmd[2]).cred = l BY DEF arg_keep, Leaves
  <2>2. Legal(k, l) BY <1>0, <1>4, KeepCapsLegal
  <2>3. l.B = k.B BY <1>0 DEF SetKeepCaps, Cred
  <2> HIDE DEF l
  <2> QED BY <1>1, <2>1, <2>2, <2>3
<1>5. ASSUME cmd[2] \in SUBSET SecBits PROVE Good(cmd, arg_secbits(cmd[2]).cred)
  <2> DEFINE l == SetSecbits(k, cmd[2])
  <2>1. arg_secbits(cmd[2]).cred = l BY DEF arg_secbits, Leaves
  <2>2. Legal(k, l) BY <1>0, <1>5, SecbitsLegal
  <2>3. l.B = k.B BY <1>0 DEF SetSecbits, Cred
  <2> HIDE DEF l
  <2> QED BY <1>1, <2>1, <2>2, <2>3
<1>6. ASSUME cmd[2] \in Uids PROVE Good(cmd, arg_uid(cmd[2]).cred)
  <2> DEFINE u == cmd[2]
             l == Setuid(k, u)
  <2>1. arg_uid(u).cred = l BY DEF arg_uid, Leaves
  <2>2. Legal(k, l) BY <1>0, <1>6, SetuidLegal
  <2>3. l.B = k.B
    <3> DEFINE x == Fixup(k, u)
    <3>1. x.B = k.B /\ DOMAIN x = DOMAIN k BY <1>0 DEF Fixup, Cred
    <3>2. l = [x EXCEPT !.uid = u] \/ l = k BY DEF Setuid
    <3> HIDE DEF x, l, u
    <3>3. [x EXCEPT !.uid = u].B = x.B BY <1>0, <3>1 DEF Cred
    <3> QED BY <3>1, <3>2, <3>3
  <2> HIDE DEF l
  <2> QED BY <1>1, <2>1, <2>2, <2>3
<1>7. ASSUME cmd[2] \in Gids
      PROVE  Good(cmd, arg_gid(cmd[2]).cred) /\ Good(cmd, arg_groups(cmd[2]).cred)
  <2> DEFINE l == Setgid(k, cmd[2])
             m == Setgroups(k, cmd[2])
  <2>1. arg_gid(cmd[2]).cred = l /\ arg_groups(cmd[2]).cred = m
    BY DEF arg_gid, arg_groups, Leaves
  <2>2. Legal(k, l) /\ Legal(k, m) BY <1>0, <1>7, CredsAssumption, OthersLegal
  <2>3. l.B = k.B /\ m.B = k.B BY <1>0 DEF Setgid, Setgroups, Cred
  <2> HIDE DEF l, m
  <2> QED BY <1>1, <2>1, <2>2, <2>3
<1>8. Good(cmd, no_new_privs.cred)
  <2> DEFINE l == SetNoNewPrivs(k)
  <2>1. no_new_privs.cred = l BY DEF no_new_privs, Leaves
  <2>2. Legal(k, l) BY <1>0, CredsAssumption, OthersLegal
  <2>3. l.B = k.B BY <1>0 DEF SetNoNewPrivs, Cred
  <2> HIDE DEF l
  <2> QED BY <1>1, <2>1, <2>2, <2>3
<1> QED BY <1>2, <1>3, <1>4, <1>5, <1>6, <1>7, <1>8

(* A command of one step. *)
LEMMA EffectInv ==
  ASSUME ShInv, sh.pc = "ready", NEW cmd, ArgumentOK(cmd), Effect(cmd)
  PROVE  ShInv'
<1>0. CapInv /\ f("capsh").pc = "done" BY AtRest DEF ShInv
<1>1. CASE cmd[1] = "drop" /\ Does(cmd, arg_drop(cmd[2]))
  <2>1. cmd[2] \in SUBSET Caps BY <1>1 DEF ArgumentOK, Takes
  <2> QED BY <1>0, <1>1, <2>1, DropGood, DoesInv
<1>2. CASE cmd[1] = "addamb" /\ Does(cmd, arg_change_amb(cmd[2], TRUE))
  <2>1. cmd[2] \in SUBSET Caps /\ cmd[1] \notin Named BY <1>2 DEF ArgumentOK, Takes, Named
  <2> QED BY <1>0, <1>2, <2>1, OtherGood, DoesInv
<1>3. CASE cmd[1] = "delamb" /\ Does(cmd, arg_change_amb(cmd[2], FALSE))
  <2>1. cmd[2] \in SUBSET Caps /\ cmd[1] \notin Named BY <1>3 DEF ArgumentOK, Takes, Named
  <2> QED BY <1>0, <1>3, <2>1, OtherGood, DoesInv
<1>4. CASE cmd[1] = "inh" /\ Does(cmd, inh(cmd[2]))
  <2>1. cmd[2] \in SUBSET ({"name", "number"} \X Caps) BY <1>4 DEF ArgumentOK, Takes
  <2> QED BY <1>0, <1>4, <2>1, InhGood, DoesInv
<1>5. CASE cmd[1] = "caps" /\ Does(cmd, SetAll(cmd[2]))
  <2>1. cmd[2] \in CapT \cup {NULL} BY <1>5 DEF ArgumentOK, Takes
  <2> QED BY <1>0, <1>5, <2>1, CapsGood, DoesInv
<1>6. CASE cmd[1] = "chroot" /\ Does(cmd, chroot(cmd[2]))
  <2>1. cmd[2] \in Roots BY <1>6 DEF ArgumentOK, Takes
  <2> QED BY <1>0, <1>6, <2>1, ChrootGood, DoesInv
<1>7. CASE cmd[1] = "keep" /\ Does(cmd, arg_keep(cmd[2]))
  <2>1. cmd[2] \in BOOLEAN /\ cmd[1] \notin Named BY <1>7 DEF ArgumentOK, Takes, Named
  <2> QED BY <1>0, <1>7, <2>1, OtherGood, DoesInv
<1>8. CASE cmd[1] = "secbits" /\ Does(cmd, arg_secbits(cmd[2]))
  <2>1. cmd[2] \in SUBSET SecBits /\ cmd[1] \notin Named BY <1>8 DEF ArgumentOK, Takes, Named
  <2> QED BY <1>0, <1>8, <2>1, OtherGood, DoesInv
<1>9. CASE cmd[1] = "uid" /\ Does(cmd, arg_uid(cmd[2]))
  <2>1. cmd[2] \in Uids /\ cmd[1] \notin Named BY <1>9 DEF ArgumentOK, Takes, Named
  <2> QED BY <1>0, <1>9, <2>1, OtherGood, DoesInv
<1>10. CASE cmd[1] = "gid" /\ Does(cmd, arg_gid(cmd[2]))
  <2>1. cmd[2] \in Gids /\ cmd[1] \notin Named BY <1>10 DEF ArgumentOK, Takes, Named
  <2> QED BY <1>0, <1>10, <2>1, OtherGood, DoesInv
<1>11. CASE cmd[1] = "groups" /\ Does(cmd, arg_groups(cmd[2]))
  <2>1. cmd[2] \in Gids /\ cmd[1] \notin Named BY <1>11 DEF ArgumentOK, Takes, Named
  <2> QED BY <1>0, <1>11, <2>1, OtherGood, DoesInv
<1>12. CASE cmd[1] = "no-new-privs" /\ Does(cmd, no_new_privs)
  <2>1. cmd[1] \notin Named BY <1>12 DEF Named
  <2> QED BY <1>0, <1>12, <2>1, OtherGood, DoesInv
<1>13. CASE sh' = Over(1) /\ UNCHANGED vars BY <1>0, <1>13, Exits
<1> QED
  BY <1>1, <1>2, <1>3, <1>4, <1>5, <1>6, <1>7, <1>8, <1>9, <1>10, <1>11, <1>12, <1>13
  DEF Effect

-----------------------------------------------------------------------------
(* The commands that call libcap                                           *)

(* A call is under way. *)
LEMMA Underway ==
  ASSUME CapInv', Tracking', BoundsOK', f("capsh")'.clean,
         DOMAIN sh' = ShFields, sh'.kind \in DOMAIN Commands, sh'.pc = "calling",
         sh'.cmd[1] \notin Named \ {"user"}, UserCalls(sh'.cmd, sh'.start, f("capsh")')
  PROVE  ShInv'
<1>1. ControlOK' BY DEF ControlOK
<1>2. CallOK' BY DEF CallOK
<1> QED BY <1>1, <1>2 DEF ShInv

(* A call begins. *)
Operations == {"set_mode", "iab_set_proc", "reset_ambient", "setuid", "setgroups"}
Entry(op) == IF op = "reset_ambient" THEN "ambient" ELSE "get_proc"

LEMMA Entered ==
  ASSUME CapInv, Tracking, BoundsOK, NEW op \in Operations, NEW arg \in Args[op],
         Enter(op, arg, Entry(op))
  PROVE  /\ CapInv' /\ Tracking' /\ BoundsOK' /\ k' = k
         /\ LET g == f("capsh")' IN g.op = op /\ g.arg = arg /\ g.start = k /\ g.clean
<1>1. /\ "capsh" \in Threads /\ c("capsh") = k /\ CredOK(k) /\ Legal(k, k)
  BY OneProcess DEF Legal
<1> DEFINE m == f("capsh").n + 1
           p == Entry(op)
           h == [Blank EXCEPT !.op = op, !.arg = arg, !.n = m, !.start = c("capsh")]
           g == [h EXCEPT !.pc = p, !.n = 0]
<1>2. Becomes("capsh", g, k) BY DEF Enter, Fresh
<1>3. /\ DOMAIN g = DOMAIN Blank /\ g.pc = p /\ g.op = op /\ g.arg = arg
      /\ g.start = k /\ g.clean = TRUE /\ g.n = 0 /\ g.working = NoCaps /\ g.ret = 0
  <2> HIDE DEF m, p
  <2> QED BY <1>1 DEF Blank
<1>4. p \in {"ambient", "get_proc"} /\ (op # "reset_ambient" => p = "get_proc") BY DEF Entry
<1>5. Passes(p, op) BY DEF Entry, Operations, Passes, Gives, NeedsOf
<1> HIDE DEF g, p
<1>6. Clearing(p, op, arg, 0, NoCaps) BY <1>4 DEF Clearing, NoCaps
<1>7. FrameOK(g)
  <2>1. /\ g.pc \in Points /\ g.op \in Ops /\ g.ret \in {0, -1} /\ g.n \in 0 .. MaxCalls
        /\ g.working \in CapT /\ g.clean \in BOOLEAN
    <3>1. g.pc \in Points BY <1>3, <1>4 DEF Points
    <3>2. g.op \in Ops BY <1>3 DEF Ops, Operations
    <3>3. 0 \in 0 .. MaxCalls BY CapProcAssumption
    <3>4. NoCaps \in CapT BY DEF NoCaps, CapT
    <3> QED BY <1>3, <3>1, <3>2, <3>3, <3>4
  <2>2. g.op \in DOMAIN Args /\ g.arg \in Args[g.op] BY <1>3 DEF Args, Operations
  <2> QED BY <1>3, <1>5, <1>6, <2>1, <2>2 DEF FrameOK
<1>8. ~ NowNopriv(g) BY <1>3, <1>4 DEF NowNopriv
<1>9. CapInv' BY <1>1, <1>2, <1>7, <1>8, BecomesInv
<1>10. Tracks(g, k)
  BY <1>1, <1>3, <1>4
  DEF Tracks, Follows, UidFollows, GroupsFollow, RootFollows, ModeFollows, IabFollows
<1>11. Tracking' BY <1>1, <1>2, <1>10, BecomesTracks
<1>12. k' = k /\ f("capsh")' = g /\ nopriv' = nopriv BY <1>2, <1>8, Became
<1>13. BoundsOK' BY <1>12 DEF BoundsOK
<1> QED BY <1>3, <1>9, <1>11, <1>12, <1>13

LEMMA CallInv ==
  ASSUME ShInv, sh.pc = "ready", NEW cmd, ArgumentOK(cmd), Call(cmd)
  PROVE  ShInv'
<1>1. CapInv /\ Tracking /\ BoundsOK /\ ControlOK BY DEF ShInv
<1>2. PICK op, arg :
         /\ op \in Operations /\ arg \in Args[op]
         /\ Enter(op, arg, Entry(op)) /\ cmd[1] \notin Named \ {"user"}
         /\ cmd[1] = "user" => /\ cmd[2] \in DOMAIN Users /\ op = "setgroups"
                               /\ arg = Users[cmd[2]].gid
  <2>0. /\ Args.set_mode = Modes /\ Args.iab_set_proc = Iab /\ Args.reset_ambient = {0}
        /\ Args.setuid = Uids /\ Args.setgroups = Gids
    BY DEF Args
  <2>1. CASE cmd[1] = "mode" /\ Enter("set_mode", cmd[2], "get_proc")
    <3>1. cmd[2] \in Args["set_mode"] BY <2>0, <2>1 DEF ArgumentOK, Takes
    <3> QED BY <2>1, <3>1 DEF Operations, Entry, Named
  <2>2. CASE cmd[1] = "iab" /\ Enter("iab_set_proc", cmd[2], "get_proc")
    <3>1. cmd[2] \in Args["iab_set_proc"] BY <2>0, <2>2 DEF ArgumentOK, Takes
    <3> QED BY <2>2, <3>1 DEF Operations, Entry, Named
  <2>3. CASE cmd[1] = "noamb" /\ Enter("reset_ambient", 0, "ambient")
    <3>1. 0 \in Args["reset_ambient"] BY <2>0
    <3> QED BY <2>3, <3>1 DEF Operations, Entry, Named
  <2>4. CASE cmd[1] = "cap-uid" /\ Enter("setuid", cmd[2], "get_proc")
    <3>1. cmd[2] \in Args["setuid"] BY <2>0, <2>4 DEF ArgumentOK, Takes
    <3> QED BY <2>4, <3>1 DEF Operations, Entry, Named
  <2>5. CASE cmd[1] = "user" /\ Enter("setgroups", Users[cmd[2]].gid, "get_proc")
    <3>1. cmd[2] \in DOMAIN Users BY <2>5 DEF ArgumentOK, Takes
    <3>2. Users[cmd[2]].gid \in Args["setgroups"] BY <2>0, <3>1, CapshAssumption
    <3> QED BY <2>5, <3>1, <3>2 DEF Operations, Entry, Named
  <2> QED BY <2>1, <2>2, <2>3, <2>4, <2>5 DEF Call, arg_mode, arg_iab, arg_noamb, arg_cap_uid, arg_user
<1>3. /\ CapInv' /\ Tracking' /\ BoundsOK' /\ k' = k
      /\ LET g == f("capsh")' IN g.op = op /\ g.arg = arg /\ g.start = k /\ g.clean
  BY <1>1, <1>2, Entered
<1>4. /\ DOMAIN sh' = ShFields /\ sh'.kind = sh.kind /\ sh'.pc = "calling"
      /\ sh'.cmd = cmd /\ sh'.start = k
  <2>1. sh' = [Obeyed(cmd) EXCEPT !.pc = "calling"] BY DEF Call
  <2>2. /\ DOMAIN Obeyed(cmd) = ShFields /\ Obeyed(cmd).kind = sh.kind
        /\ Obeyed(cmd).cmd = cmd /\ Obeyed(cmd).start = k
    BY <1>1, ObeyedIs
  <2> QED BY <2>1, <2>2 DEF ShFields
<1>5. UserCalls(sh'.cmd, sh'.start, f("capsh")') BY <1>2, <1>3, <1>4 DEF UserCalls
<1>6. sh.kind \in DOMAIN Commands BY <1>1 DEF ControlOK
<1> QED BY <1>2, <1>3, <1>4, <1>5, <1>6, Underway

(* No step of a call adds to the bounding set. *)
LEMMA BoundsShrink ==
  ASSUME CapInv, NEW t \in Threads, Step(t)
  PROVE  \E g, kk : Becomes(t, g, kk) /\ SameCall(g, f(t)) /\ kk.B \subseteq c(t).B
<1>1. PICK g, kk : Shape(t, g, kk) BY StepShape
<1>2. CredOK(c(t)) /\ c(t) \in Cred /\ FrameOK(f(t)) /\ Passes(f(t).pc, f(t).op)
  BY Here DEF CredOK, FrameOK
<1>3. CASE f(t).op \notin {"setuid", "setgroups", "chroot"}
  BY <1>1, <1>3 DEF Shape, Kin
<1>4. CASE f(t).op \in {"setuid", "setgroups", "chroot"}
  <2>1. /\ \A w : Capset(c(t), w).B = c(t).B
        /\ \A x : /\ SetKeepCaps(c(t), x).B = c(t).B /\ Setuid(c(t), x).B = c(t).B
                  /\ Setgid(c(t), x).B = c(t).B /\ Setgroups(c(t), x).B = c(t).B
                  /\ Chroot(c(t), x).B = c(t).B
    <3>1. \A w : Capset(c(t), w).B = c(t).B BY <1>2 DEF Capset, Cred
    <3>2. \A x : SetKeepCaps(c(t), x).B = c(t).B BY <1>2 DEF SetKeepCaps, Cred
    <3>3. \A x : /\ Setgid(c(t), x).B = c(t).B /\ Setgroups(c(t), x).B = c(t).B
                 /\ Chroot(c(t), x).B = c(t).B
      BY <1>2 DEF Setgid, Setgroups, Chroot, Cred
    <3>4. ASSUME NEW x PROVE Setuid(c(t), x).B = c(t).B
      <4> DEFINE y == Fixup(c(t), x)
                 l == Setuid(c(t), x)
      <4>1. y.B = c(t).B /\ DOMAIN y = DOMAIN c(t) BY <1>2 DEF Fixup, Cred
      <4>2. l = [y EXCEPT !.uid = x] \/ l = c(t) BY DEF Setuid
      <4> HIDE DEF y, l
      <4>3. [y EXCEPT !.uid = x].B = y.B BY <1>2, <4>1 DEF Cred
      <4>4. l.B = c(t).B BY <4>1, <4>2, <4>3
      <4> QED BY <4>4 DEF l
    <3> QED BY <3>1, <3>2, <3>3, <3>4
  <2>2. \/ GetProcFails(t) \/ GetProc(t) \/ Raise(t) \/ Lower(t)
        \/ KeepCaps(t) \/ DoSetuid(t) \/ UnkeepCaps(t)
        \/ DoSetgid(t) \/ DoSetgroups(t) \/ DoChroot(t)
    BY <1>2, <1>4 DEF Step, Passes, At, ReadAmbient, ResetAmbient, SetModeSecbits, DropBounds,
                      NoNewPrivs, IabGetProc, IabSet, IabVector, IabVectorsEnd, IabRestore
  <2>3. \E h, l : Becomes(t, h, l) /\ l.B = c(t).B
    <3>1. CASE GetProcFails(t) \/ GetProc(t) BY <3>1 DEF GetProcFails, GetProc
    <3>2. CASE Raise(t)
      <4>1. CASE CapsetOk(c(t), f(t).working) BY <2>1, <3>2, <4>1 DEF Raise
      <4>2. CASE ~ CapsetOk(c(t), f(t).working) BY <3>2, <4>2 DEF Raise
      <4> QED BY <4>1, <4>2
    <3>3. CASE Lower(t) BY <2>1, <3>3 DEF Lower
    <3>4. CASE KeepCaps(t) \/ DoSetuid(t) \/ UnkeepCaps(t)
      <4> DEFINE on == SetKeepCaps(c(t), TRUE)
                 off == SetKeepCaps(c(t), FALSE)
      <4>0. on.B = c(t).B /\ off.B = c(t).B BY <2>1
      <4>1. CASE KeepCaps(t)
        <5>1. Becomes(t, [f(t) EXCEPT !.pc = "raise"], on) BY <4>1 DEF KeepCaps
        <5> HIDE DEF on
        <5> QED BY <4>0, <5>1
      <4>2. CASE DoSetuid(t) BY <2>1, <4>2 DEF DoSetuid
      <4>3. CASE UnkeepCaps(t)
        <5>1. Becomes(t, [f(t) EXCEPT !.pc = "lower"], off) BY <4>3 DEF UnkeepCaps
        <5> HIDE DEF off
        <5> QED BY <4>0, <5>1
      <4> QED BY <3>4, <4>1, <4>2, <4>3
    <3>5. CASE DoSetgid(t) BY <2>1, <3>5 DEF DoSetgid
    <3>6. CASE DoSetgroups(t) \/ DoChroot(t) BY <2>1, <3>6 DEF DoSetgroups, DoChroot
    <3> QED BY <2>2, <3>1, <3>2, <3>3, <3>4, <3>5, <3>6
  <2>4. PICK h, l : Becomes(t, h, l) /\ l.B = c(t).B BY <2>3
  <2>5. h = g /\ l = kk
    <3>1. Home[t] \in DOMAIN creds BY CapProcAssumption DEF CapInv, TypeOK
    <3>2. creds' = [creds EXCEPT ![Home[t]] = l] /\ creds' = [creds EXCEPT ![Home[t]] = kk]
      BY <1>1, <2>4 DEF Shape, Becomes
    <3>3. l = creds'[Home[t]] /\ kk = creds'[Home[t]] BY <3>1, <3>2
    <3>4. h = frame'[t] /\ g = frame'[t] BY <1>1, <2>4 DEF Shape, Becomes
    <3> QED BY <3>3, <3>4
  <2> QED BY <1>1, <2>4, <2>5 DEF Shape
<1> QED BY <1>3, <1>4

(* A step of the call. *)
LEMMA SteppingInv ==
  ASSUME ShInv, Stepping PROVE ShInv'
<1>1. CapInv /\ Tracking /\ BoundsOK /\ ControlOK /\ CallOK BY DEF ShInv
<1>2. Step("capsh") /\ sh' = sh BY DEF Stepping
<1>3. "capsh" \in Threads /\ c("capsh") = k BY <1>1, OneProcess
<1>4. CapInv' /\ Tracking'
  <2>1. [Next]_vars BY <1>2, <1>3 DEF Next
  <2> QED BY <1>1, <2>1, InvNext, TrackNext
<1>5. f("capsh").pc # "done" BY <1>1, <1>2, <1>3, StepShape
<1>6. PICK g, kk : Becomes("capsh", g, kk) /\ SameCall(g, f("capsh")) /\ kk.B \subseteq k.B
  BY <1>1, <1>2, <1>3, BoundsShrink
<1>7. /\ k' = kk /\ f("capsh")' = g
      /\ nopriv' = IF NowNopriv(g) THEN nopriv \cup {"capsh"} ELSE nopriv
  BY <1>1, <1>6, Became
<1>8. sh.pc = "calling" /\ g.clean BY <1>1, <1>5, <1>6 DEF CallOK, SameCall
<1>9. BoundsOK'
  <2>1. CASE NowNopriv(g)
    <3>1. Tracks(f("capsh"), c("capsh"))' BY <1>3, <1>4 DEF Tracking
    <3>2. c("capsh")' = k' BY <1>3, <1>1, OneProcess DEF c, k
    <3>3. Tracks(g, kk) BY <1>7, <3>1, <3>2
    <3>4. cap_get_mode(kk) \in Within["NOPRIV"]
      BY <1>8, <2>1, <3>3 DEF Tracks, NowNopriv, Follows, ModeFollows
    <3>5. cap_get_mode(kk) = "NOPRIV" BY <3>4 DEF Within
    <3>6. kk.B = {} BY <3>5 DEF cap_get_mode
    <3> QED BY <1>7, <3>6 DEF BoundsOK
  <2>2. CASE ~ NowNopriv(g) BY <1>1, <1>6, <1>7, <2>2 DEF BoundsOK
  <2> QED BY <2>1, <2>2
<1>10. UserCalls(sh'.cmd, sh'.start, f("capsh")')
  BY <1>1, <1>2, <1>6, <1>7, <1>8 DEF CallOK, UserCalls, SameCall
<1> QED BY <1>1, <1>2, <1>4, <1>7, <1>8, <1>9, <1>10, Underway DEF ControlOK, CallOK

(* The call returns. *)
LEMMA ReturnsInv ==
  ASSUME ShInv, Returns PROVE ShInv'
<1> DEFINE g == f("capsh")
           s == sh.start
           u == Users[sh.cmd[2]]
<1>1. CapInv /\ Tracking /\ BoundsOK /\ ControlOK /\ CallOK BY DEF ShInv
<1>2. /\ sh.pc = "calling" /\ g.pc = "done" /\ g.clean /\ UserCalls(sh.cmd, s, g)
      /\ sh.cmd[1] \notin Named \ {"user"}
  BY <1>1 DEF Returns, CallOK
<1>3. "capsh" \in Threads /\ c("capsh") = k BY <1>1, OneProcess
<1>4. g.op # "none" => Follows(g.op, "done", g.ret, g.working, g.todo, g.arg, g.start, k)
  BY <1>1, <1>2, <1>3 DEF Tracking, Tracks
<1>5. CASE g.ret # 0
  <2>1. sh' = Over(1) /\ UNCHANGED vars BY <1>5 DEF Returns
  <2> QED BY <1>2, <2>1, Exits
<1>6. CASE g.ret = 0 /\ sh.cmd[1] = "user" /\ g.op = "setgroups"
  <2>1. Enter("setuid", u.uid, "get_proc") /\ sh' = sh BY <1>6 DEF Returns
  <2>2. /\ sh.cmd[2] \in DOMAIN Users /\ g.arg = u.gid /\ g.start = s
    BY <1>2, <1>6 DEF UserCalls
  <2>3. GroupsAre(0, u.gid, s, k) /\ CredOK(s)
    BY <1>4, <1>6, <2>2 DEF Follows, GroupsFollow
  <2>4. k.gid = u.gid /\ k.groups = u.gid /\ k.P = s.P /\ k.sec = s.sec
    <3>1. k = [s EXCEPT !.E = k.E, !.gid = u.gid, !.groups = u.gid]
      BY <2>3 DEF GroupsAre
    <3> HIDE DEF s, u
    <3> QED BY <2>3, <3>1 DEF CredOK, Cred
  <2>5. u.uid \in Args["setuid"] BY <2>2, CapshAssumption DEF Args
  <2>6. "setuid" \in Operations /\ Entry("setuid") = "get_proc" BY DEF Operations, Entry
  <2> HIDE DEF u, s, g
  <2>7. /\ CapInv' /\ Tracking' /\ BoundsOK' /\ k' = k
        /\ LET h == f("capsh")' IN h.op = "setuid" /\ h.arg = u.uid /\ h.start = k /\ h.clean
    BY <1>1, <2>1, <2>5, <2>6, Entered
  <2>8. UserCalls(sh'.cmd, sh'.start, f("capsh")')
    BY <2>1, <2>2, <2>4, <2>7 DEF UserCalls, u, s
  <2> QED BY <1>1, <1>2, <2>1, <2>7, <2>8, Underway DEF ControlOK
<1>7. CASE g.ret = 0 /\ ~ (sh.cmd[1] = "user" /\ g.op = "setgroups")
  <2>1. sh' = [sh EXCEPT !.pc = "ready"] /\ UNCHANGED vars BY <1>7 DEF Returns
  <2>2. CapInv' /\ Tracking' /\ BoundsOK' /\ k' = k /\ f("capsh")' = g BY <2>1, Unmoved
  <2>3. /\ DOMAIN sh' = ShFields /\ sh'.kind = sh.kind /\ sh'.pc = "ready"
        /\ sh'.cmd = sh.cmd /\ sh'.start = s /\ sh.kind \in DOMAIN Commands
    BY <1>1, <2>1 DEF ControlOK, ShFields
  <2>4. Contained(sh.cmd, s, k)
    <3>1. CASE sh.cmd[1] # "user"
      <4>1. sh.cmd[1] \notin Named BY <1>2, <3>1
      <4> QED BY <4>1, Unnamed
    <3>2. CASE sh.cmd[1] = "user"
      <4>1. /\ g.op = "setuid" /\ g.arg = u.uid /\ g.start.gid = u.gid
            /\ g.start.groups = u.gid /\ g.start.P = s.P /\ g.start.sec = s.sec
        BY <1>2, <1>7, <3>2 DEF UserCalls
      <4>2. UidFollows("done", 0, g.working, u.uid, g.start, k)
        BY <1>4, <1>7, <4>1 DEF Follows
      <4> HIDE DEF u, s, g
      <4>3. ~ NoMemory(0, g.start, k) BY DEF NoMemory
      <4>4. UserHas(u, s, k) BY <4>1, <4>2, <4>3 DEF UidFollows, UserHas
      <4> QED BY <3>2, <4>4 DEF Contained, u
    <3> QED BY <3>1, <3>2
  <2> HIDE DEF g, s
  <2> QED BY <1>2, <2>2, <2>3, <2>4, Rests
<1> QED BY <1>5, <1>6, <1>7

-----------------------------------------------------------------------------
(* The other commands                                                      *)

(* execve(2): a process without capabilities stays so if its bounding set  *)
(* is empty.                                                               *)
LEMMA ExecveLegal ==
  ASSUME NEW kk, CredOK(kk), NEW file
  PROVE  LET l == Execve(kk, file) IN
         CredOK(l) /\ l.B = kk.B /\ (Empty(kk) /\ kk.B = {} => Empty(l))
<1> DEFINE root == kk.uid = 0 /\ "NOROOT" \notin kk.sec
           A == IF file.P \cup file.I = {} THEN kk.A ELSE {}
           gains == IF root THEN kk.I \cup kk.B
                    ELSE (kk.I \cap file.I) \cup (kk.B \cap file.P)
           P == (IF kk.nnp THEN gains \cap kk.P ELSE gains) \cup A
           E == IF root \/ file.eff THEN P ELSE A
           z == kk.sec \ {"KEEP_CAPS"}
           l == [kk EXCEPT !.A = A, !.P = P, !.E = E, !.sec = z]
<1>0. kk \in Cred BY DEF CredOK
<1>1. Execve(kk, file) = l BY <1>0 DEF Execve, Cred
<1>2. A \subseteq kk.A /\ gains \subseteq kk.I \cup kk.B OBVIOUS
<1> HIDE DEF A, gains, root
<1>3. A \subseteq P /\ P \subseteq gains \cup A OBVIOUS
<1> HIDE DEF P
<1>4. A \subseteq E \/ E = P OBVIOUS
<1>5. E \subseteq P BY <1>3
<1> HIDE DEF E
<1>6. /\ A \in SUBSET Caps /\ P \in SUBSET Caps /\ E \in SUBSET Caps
      /\ A \subseteq kk.I
  BY <1>0, <1>2, <1>3, <1>5 DEF CredOK, Cred
<1>7. z \in SUBSET SecBits BY <1>0 DEF Cred
<1> HIDE DEF z
<1>8. l \in Cred /\ l.A = A /\ l.P = P /\ l.E = E /\ l.I = kk.I /\ l.B = kk.B
  BY <1>0, <1>6, <1>7 DEF Cred
<1> HIDE DEF l
<1>9. CredOK(l) BY <1>3, <1>5, <1>6, <1>8 DEF CredOK
<1>10. Empty(kk) /\ kk.B = {} => Empty(l) BY <1>2, <1>3, <1>5, <1>8 DEF Empty
<1> QED BY <1>1, <1>8, <1>9, <1>10

LEMMA ChainInv ==
  ASSUME ShInv, sh.pc = "ready", NEW cmd, Chain(cmd) PROVE ShInv'
<1>1. CapInv /\ Tracking /\ BoundsOK /\ ControlOK /\ f("capsh").pc = "done"
  BY AtRest DEF ShInv
<1>2. cmd[1] \in {"==", "--"} BY DEF Chain
<1>3. CASE sh' = Over(1) /\ UNCHANGED vars BY <1>1, <1>3, Exits
<1>4. ASSUME NEW file \in Programs, Sets(Execve(k, file)),
             sh' = [Obeyed(cmd) EXCEPT !.pc = IF cmd[1] = "==" THEN "ready" ELSE "shell",
                                       !.strict = FALSE, !.child = NoChild]
      PROVE  ShInv'
  <2> DEFINE l == Execve(k, file)
  <2>1. CredOK(k) /\ ("capsh" \in nopriv => Empty(k) /\ k.B = {})
    BY <1>1, OneProcess DEF BoundsOK
  <2>2. CredOK(l) /\ l.B = k.B /\ (Empty(k) /\ k.B = {} => Empty(l)) BY <2>1, ExecveLegal
  <2>3. Sets(l) BY <1>4
  <2> HIDE DEF l
  <2>4. CapInv' /\ Tracking' /\ BoundsOK' /\ f("capsh")' = Blank
    BY <1>1, <2>1, <2>2, <2>3, SetsDoes
  <2>5. /\ DOMAIN sh' = ShFields /\ sh'.kind = sh.kind /\ sh'.pc \in {"ready", "shell"}
        /\ sh'.cmd = cmd /\ sh.kind \in DOMAIN Commands
    <3>1. /\ DOMAIN Obeyed(cmd) = ShFields /\ Obeyed(cmd).kind = sh.kind
          /\ Obeyed(cmd).cmd = cmd
      BY <1>1, ObeyedIs
    <3> QED BY <1>1, <1>4, <3>1 DEF ShFields, ControlOK
  <2>6. cmd[1] \notin Named BY <1>2 DEF Named
  <2>7. Contained(sh'.cmd, sh'.start, k') BY <2>5, <2>6, Unnamed
  <2> QED BY <2>4, <2>5, <2>7, BlankOK, Rests
<1> QED BY <1>3, <1>4 DEF Chain

(* Tests, --strict, --forkfor and --killit. *)
LEMMA QuietInv ==
  ASSUME ShInv, sh.pc = "ready", NEW cmd,
         Test(cmd) \/ Strict(cmd) \/ ForkFor(cmd) \/ KillIt(cmd)
  PROVE  ShInv'
<1>1. f("capsh").pc = "done" /\ ControlOK BY AtRest DEF ShInv
<1>2. UNCHANGED vars BY DEF Test, Strict, ForkFor, KillIt
<1>3. cmd[1] \notin Named BY DEF Test, Tests, Strict, ForkFor, KillIt, Named
<1>4. /\ DOMAIN Obeyed(cmd) = ShFields /\ Obeyed(cmd).kind = sh.kind
      /\ Obeyed(cmd).pc = "ready" /\ Obeyed(cmd).cmd = cmd
  BY <1>1, ObeyedIs
<1>5. \/ sh' \in {Over(0), Over(1)} \/ sh' = Obeyed(cmd)
      \/ \E b : sh' = [Obeyed(cmd) EXCEPT !.strict = b]
      \/ \E ch : sh' = [Obeyed(cmd) EXCEPT !.child = ch]
  <2>1. CASE Test(cmd)
    <3> HIDE DEF Holds
    <3> QED BY <2>1 DEF Test
  <2>2. CASE Strict(cmd) BY <2>2 DEF Strict
  <2>3. CASE ForkFor(cmd) BY <2>3 DEF ForkFor
  <2>4. CASE KillIt(cmd) BY <2>4 DEF KillIt
  <2> QED BY <2>1, <2>2, <2>3, <2>4
<1>6. CASE sh' \in {Over(0), Over(1)} BY <1>1, <1>2, <1>6, Exits
<1>7. CASE ~ (sh' \in {Over(0), Over(1)})
  <2>1. /\ DOMAIN sh' = ShFields /\ sh'.kind = sh.kind
        /\ sh'.pc = "ready" /\ sh'.cmd = cmd
    BY <1>4, <1>5, <1>7 DEF ShFields
  <2> QED BY <1>2, <1>3, <2>1, Passed
<1> QED BY <1>6, <1>7

LEMMA WakesInv ==
  ASSUME ShInv, ChildWakes PROVE ShInv'
<1>1. UNCHANGED vars /\ sh' = [sh EXCEPT !.child = <<"exited">>] /\ sh.pc = "ready"
  BY DEF ChildWakes
<1>2. CapInv' /\ Tracking' /\ BoundsOK' /\ k' = k /\ f("capsh")' = f("capsh")
  BY <1>1, Unmoved
<1>3. f("capsh").clean /\ f("capsh").pc = "done" BY <1>1, AtRest
<1>4. /\ DOMAIN sh' = ShFields /\ sh'.kind = sh.kind /\ sh'.pc = "ready"
      /\ sh'.cmd = sh.cmd /\ sh'.start = sh.start /\ sh.kind \in DOMAIN Commands
  BY <1>1 DEF ShInv, ControlOK, ShFields
<1>5. Contained(sh.cmd, sh.start, k) BY <1>1 DEF ShInv
<1> QED BY <1>2, <1>3, <1>4, <1>5, Rests

-----------------------------------------------------------------------------
(* The command line                                                        *)

LEMMA ShInvInit == ASSUME ShInit PROVE ShInv
<1>1. PICK s \in Starts :
        /\ creds = [p \in Procs |-> s.cred]
        /\ sh = [pc |-> "ready", kind |-> s.kind, left |-> s.length, strict |-> FALSE,
                 child |-> NoChild, cmd |-> <<"none">>, start |-> s.cred, status |-> 0]
  BY DEF ShInit
<1>2. Init BY DEF ShInit
<1>3. CapInv /\ Tracking BY <1>2, InvInit, TrackInit
<1>4. f("capsh") = Blank BY <1>2, <1>3, OneProcess DEF Init, f
<1>5. ControlOK BY <1>1, CapshAssumption DEF ControlOK, ShFields
<1>6. CallOK BY <1>1, <1>4, BlankOK DEF CallOK
<1>7. BoundsOK BY <1>2 DEF Init, BoundsOK
<1>8. Contained(sh.cmd, sh.start, k)
  <2>1. sh.cmd[1] \notin Named BY <1>1 DEF Named
  <2> QED BY <2>1, Unnamed
<1> QED BY <1>3, <1>5, <1>6, <1>7, <1>8 DEF ShInv

LEMMA ShInvNext == ShInv /\ [ShNext]_shvars => ShInv'
<1> SUFFICES ASSUME ShInv, [ShNext]_shvars PROVE ShInv'
  OBVIOUS
<1>1. CASE UNCHANGED shvars
  <2>1. UNCHANGED vars /\ sh' = sh BY <1>1 DEF shvars
  <2>2. CapInv' /\ Tracking' /\ BoundsOK' /\ k' = k /\ f("capsh")' = f("capsh")
    BY <2>1, Unmoved
  <2> QED BY <2>1, <2>2 DEF ShInv, ControlOK, CallOK
<1>2. ASSUME sh.pc = "ready", NEW cmd \in Commands[sh.kind], Obey(cmd) PROVE ShInv'
  <2>1. ArgumentOK(cmd) BY CapshAssumption DEF ShInv, ControlOK
  <2> QED BY <1>2, <2>1, EffectInv, CallInv, QuietInv, ChainInv DEF Obey
<1>3. CASE Stepping BY <1>3, SteppingInv
<1>4. CASE Returns BY <1>4, ReturnsInv
<1>5. CASE ChildWakes BY <1>5, WakesInv
<1>6. CASE End
  <2>1. sh.pc = "ready" /\ sh' = Over(0) /\ UNCHANGED vars BY <1>6 DEF End
  <2> QED BY <2>1, AtRest, Exits
<1> QED BY <1>1, <1>2, <1>3, <1>4, <1>5, <1>6 DEF ShNext

(* Whatever the command line, the users, the programs and the credentials  *)
(* capsh starts with: --drop, --inh, --chroot and --caps change what they  *)
(* are named for and nothing else, the capabilities they raise on the way  *)
(* included, and --user goes on as that user altogether.                   *)
THEOREM CommandsContained == ShSpec => []CommandContained
<1>1. ASSUME ShInv PROVE CommandContained
  <2>1. CASE sh.pc = "ready"
    <3>1. Contained(sh.cmd, sh.start, k) BY <1>1, <2>1 DEF ShInv
    <3> QED BY <3>1 DEF Contained, UserHas, CommandContained, Did
  <2>2. CASE sh.pc # "ready" BY <2>2 DEF CommandContained, Did
  <2> QED BY <2>1, <2>2
<1> QED BY <1>1, ShInvInit, ShInvNext, PTL DEF ShSpec
=============================================================================
