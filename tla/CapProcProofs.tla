--------------------------- MODULE CapProcProofs ---------------------------
(***************************************************************************)
(* Proofs about CapProc, for any number of threads, processes and          *)
(* capabilities, any calls and any starting credentials.                   *)
(***************************************************************************)
EXTENDS CapProc, WellFoundedInduction, TLAPS

-----------------------------------------------------------------------------
(* The invariant                                                           *)

(* What the kernel keeps of the credentials of a process. *)
CredOK(k) == k \in Cred /\ k.E \subseteq k.P /\ k.A \subseteq k.P \cap k.I

(* A process without capabilities; E is there since a thread with          *)
(* CAP_SETPCAP in it could refill I.                                       *)
Empty(k) == k.P = {} /\ k.E = {} /\ k.I = {} /\ k.A = {}

(* The securebits of the locked modes. *)
Sealed(k) == /\ CAP_SECURED_BITS_BASIC \subseteq k.sec
             /\ k.ambient => k.A = {} /\ k.sec = CAP_SECURED_BITS_AMBIENT

(* What no system call undoes. *)
Legal(k, l) == /\ CredOK(l)
               /\ Empty(k) => Empty(l)
               /\ Sealed(k) => Sealed(l)

Gives == DOMAIN NeedsOf

(* Which operations pass which points. *)
Passes(pc, op) ==
    /\ pc = "get_proc" => op \in Gives \cup {"iab_set_proc"}
    /\ pc \in {"raise", "lower"} => op \in Gives
    /\ pc \in {"ambient", "clear_ambient"} =>
          op \in {"set_mode", "iab_set_proc", "reset_ambient"}
    /\ pc \in {"keep", "setuid", "unkeep"} => op = "setuid"
    /\ pc \in {"secbits", "bounds", "nnp"} => op = "set_mode"
    /\ pc \in {"iab_set", "iab_setpcap", "vectors", "iab_restore"} =>
          op = "iab_set_proc"

(* A cap_set_mode(NOPRIV) on its way has an empty Inheritable and then an  *)
(* empty Permitted flag in its working copy.                               *)
Clearing(pc, op, arg, ret, working) ==
    op = "set_mode" /\ arg = "NOPRIV" =>
        /\ pc \in {"ambient", "clear_ambient", "secbits", "bounds", "nnp"} =>
              working.I = {}
        /\ pc = "nnp" => working.P = {}
        /\ pc = "lower" /\ ret = 0 => working.I = {} /\ working.P = {}

FrameOK(g) ==
    /\ DOMAIN g = DOMAIN Blank
    /\ g.pc \in Points /\ g.op \in Ops /\ g.ret \in {0, -1}
    /\ g.n \in 0 .. MaxCalls /\ g.working \in CapT /\ g.clean \in BOOLEAN
    /\ g.op # "none" => g.op \in DOMAIN Args /\ g.arg \in Args[g.op]
    /\ Passes(g.pc, g.op) /\ Clearing(g.pc, g.op, g.arg, g.ret, g.working)

NoprivInv == \A p \in nopriv : Empty(creds[p])

CapInv == TypeOK /\ (\A t \in Threads : FrameOK(f(t))) /\ NoprivInv

(* The step of PureIsForever. *)
PureStep == \A p \in Procs : Pure(creds[p]) => Pure(creds'[p])

-----------------------------------------------------------------------------
(* The system calls                                                        *)

(* What cap_get_mode answers depends on the seal alone.                    *)
LEMMA PureSealed == ASSUME NEW k PROVE Pure(k) <=> Sealed(k)
  BY DEF Pure, Sealed, cap_get_mode, CAP_SECURED_BITS_BASIC, CAP_SECURED_BITS_AMBIENT

(* capset(2) adds nothing to an empty process and leaves securebits alone. *)
LEMMA CapsetLegal ==
  ASSUME NEW k, CredOK(k), NEW w \in CapT PROVE Legal(k, Capset(k, w))
<1>1. CASE ~ CapsetOk(k, w) BY <1>1 DEF Legal, Capset
<1>2. CASE CapsetOk(k, w)
  <2> DEFINE l == [k EXCEPT !.P = w.P, !.E = w.E, !.I = w.I, !.A = @ \cap w.P \cap w.I]
  <2>1. Capset(k, w) = l BY <1>2 DEF Capset
  <2>2. CredOK(l) BY <1>2 DEF CredOK, Cred, CapT, CapsetOk
  <2>3. Empty(k) => Empty(l) BY <1>2 DEF CredOK, Cred, CapT, CapsetOk, Empty
  <2>4. Sealed(k) => Sealed(l) BY DEF CredOK, Cred, Sealed
  <2> QED BY <2>1, <2>2, <2>3, <2>4 DEF Legal
<1> QED BY <1>1, <1>2

(* Nor does PR_CAPBSET_DROP touch the flags or the securebits.             *)
LEMMA DropLegal ==
  ASSUME NEW k, CredOK(k), NEW x PROVE Legal(k, Drop(k, x))
<1> DEFINE l == [k EXCEPT !.B = @ \ {x}]
<1>1. CredOK(l) BY DEF CredOK, Cred
<1>2. Empty(k) => Empty(l) BY DEF CredOK, Cred, Empty
<1>3. Sealed(k) => Sealed(l) BY DEF CredOK, Cred, Sealed
<1>4. Drop(k, x) = l \/ Drop(k, x) = k BY DEF Drop
<1> QED BY <1>1, <1>2, <1>3, <1>4 DEF Legal

(* NO_CAP_AMBIENT_RAISE keeps A empty in a sealed process. *)
LEMMA RaiseLegal ==
  ASSUME NEW k, CredOK(k), NEW x PROVE Legal(k, RaiseAmbient(k, x))
<1>1. CASE ~ RaiseOk(k, x) BY <1>1 DEF Legal, RaiseAmbient
<1>2. CASE RaiseOk(k, x)
  <2> DEFINE l == [k EXCEPT !.A = @ \cup {x}]
  <2>1. RaiseAmbient(k, x) = l BY <1>2 DEF RaiseAmbient
  <2>2. CredOK(l) BY <1>2 DEF CredOK, Cred, RaiseOk
  <2>3. ~ Empty(k) BY <1>2 DEF Empty, RaiseOk
  <2>4. ~ Sealed(k) BY <1>2 DEF Sealed, RaiseOk, CAP_SECURED_BITS_AMBIENT
  <2> QED BY <2>1, <2>2, <2>3, <2>4 DEF Legal
<1> QED BY <1>1, <1>2

(* PR_CAP_AMBIENT_LOWER and _CLEAR_ALL only take from A.                   *)
LEMMA LowerLegal ==
  ASSUME NEW k, CredOK(k), NEW x
  PROVE Legal(k, LowerAmbient(k, x)) /\ Legal(k, ClearAmbient(k))
<1> DEFINE l == [k EXCEPT !.A = @ \ {x}]
           m == [k EXCEPT !.A = {}]
<1>1. CredOK(l) /\ CredOK(m) BY DEF CredOK, Cred
<1>2. Empty(k) => Empty(l) /\ Empty(m) BY DEF CredOK, Cred, Empty
<1>3. Sealed(k) => Sealed(l) /\ Sealed(m) BY DEF CredOK, Cred, Sealed
<1> QED BY <1>1, <1>2, <1>3 DEF Legal, LowerAmbient, ClearAmbient

(* Locked securebits stay; in a process with the ambient set all of them   *)
(* are locked, so that nothing can be added either.                        *)
LEMMA SecbitsLegal ==
  ASSUME NEW k, CredOK(k), NEW bits \in SUBSET SecBits
  PROVE Legal(k, SetSecbits(k, bits))
<1>1. CASE ~ SecbitsOk(k, bits) BY <1>1 DEF Legal, SetSecbits
<1>2. CASE SecbitsOk(k, bits)
  <2> DEFINE l == [k EXCEPT !.sec = bits]
  <2>1. SetSecbits(k, bits) = l BY <1>2 DEF SetSecbits
  <2>2. CredOK(l) BY DEF CredOK, Cred
  <2>3. Empty(k) => Empty(l) BY DEF CredOK, Cred, Empty
  <2>4. ASSUME Sealed(k) PROVE Sealed(l)
    <3>1. CAP_SECURED_BITS_BASIC \subseteq bits
      BY <1>2, <2>4 DEF Sealed, SecbitsOk, LockOf, CAP_SECURED_BITS_BASIC
    <3>2. k.ambient => bits = CAP_SECURED_BITS_AMBIENT
      BY <1>2, <2>4 DEF Sealed, SecbitsOk, LockOf, SecBits,
                        CAP_SECURED_BITS_BASIC, CAP_SECURED_BITS_AMBIENT
    <3>3. l.sec = bits /\ l.ambient = k.ambient /\ l.A = k.A BY DEF CredOK, Cred
    <3> QED BY <2>4, <3>1, <3>2, <3>3 DEF Sealed
  <2> QED BY <2>1, <2>2, <2>3, <2>4 DEF Legal
<1> QED BY <1>1, <1>2

(* PR_SET_KEEPCAPS changes one securebit, and in a sealed process it is    *)
(* locked.                                                                 *)
LEMMA KeepCapsLegal ==
  ASSUME NEW k, CredOK(k), NEW on \in BOOLEAN
  PROVE Legal(k, SetKeepCaps(k, on))
<1>1. CASE "KEEP_CAPS_LOCKED" \in k.sec BY <1>1 DEF Legal, SetKeepCaps
<1>2. CASE "KEEP_CAPS_LOCKED" \notin k.sec
  <2>1. ~ Sealed(k) BY <1>2 DEF Sealed, CAP_SECURED_BITS_BASIC
  <2>2. PICK s \in SUBSET SecBits : SetKeepCaps(k, on) = [k EXCEPT !.sec = s]
    <3>1. k.sec \cup {"KEEP_CAPS"} \in SUBSET SecBits
      BY DEF CredOK, Cred, SecBits, LockOf
    <3>2. k.sec \ {"KEEP_CAPS"} \in SUBSET SecBits BY DEF CredOK, Cred
    <3> QED BY <1>2, <3>1, <3>2 DEF SetKeepCaps
  <2>3. CredOK([k EXCEPT !.sec = s]) BY DEF CredOK, Cred
  <2>4. Empty(k) => Empty([k EXCEPT !.sec = s]) BY DEF CredOK, Cred, Empty
  <2> QED BY <2>1, <2>2, <2>3, <2>4 DEF Legal
<1> QED BY <1>1, <1>2

(* In a sealed process the kernel makes no adjustment for a new uid.       *)
LEMMA SetuidLegal ==
  ASSUME NEW k, CredOK(k), NEW u \in Uids PROVE Legal(k, Setuid(k, u))
<1> DEFINE x == Fixup(k, u)
<1>1. CredOK(x) /\ (Empty(k) => Empty(x))
  <2> DEFINE p == IF "KEEP_CAPS" \in k.sec THEN k.P ELSE {}
             a == [k EXCEPT !.P = p, !.E = {}, !.A = {}]
             b == [k EXCEPT !.E = k.P]
  <2>1. p \subseteq k.P OBVIOUS
  <2> HIDE DEF p
  <2>2. CredOK(a) /\ CredOK(b) BY <2>1 DEF CredOK, Cred
  <2>3. Empty(k) => Empty(a) /\ Empty(b) BY <2>1 DEF CredOK, Cred, Empty
  <2>4. CASE "NO_SETUID_FIXUP" \in k.sec BY <2>4 DEF Fixup
  <2>5. CASE "NO_SETUID_FIXUP" \notin k.sec /\ k.uid = 0 /\ u # 0
    <3>1. x = a BY <2>5 DEF Fixup, p
    <3> QED BY <2>2, <2>3, <3>1
  <2>6. CASE "NO_SETUID_FIXUP" \notin k.sec /\ k.uid # 0 /\ u = 0
    <3>1. x = b BY <2>6 DEF Fixup
    <3> QED BY <2>2, <2>3, <3>1
  <2>7. CASE "NO_SETUID_FIXUP" \notin k.sec /\ (k.uid = 0 <=> u = 0)
    <3>1. x = k BY <2>7 DEF Fixup
    <3> QED BY <3>1
  <2> QED BY <2>4, <2>5, <2>6, <2>7
<1>2. Sealed(k) => x = k BY DEF Fixup, Sealed, CAP_SECURED_BITS_BASIC
<1> HIDE DEF x
<1> DEFINE l == [x EXCEPT !.uid = u]
<1>3. CredOK(l) BY <1>1 DEF CredOK, Cred
<1>4. Empty(x) => Empty(l) BY <1>1 DEF CredOK, Cred, Empty
<1>5. Sealed(x) => Sealed(l) BY <1>1 DEF CredOK, Cred, Sealed
<1>6. Setuid(k, u) = l \/ Setuid(k, u) = k BY DEF Setuid, x
<1> QED BY <1>1, <1>2, <1>3, <1>4, <1>5, <1>6 DEF Legal

(* setgid, setgroups, chroot and PR_SET_NO_NEW_PRIVS change no capability. *)
LEMMA OthersLegal ==
  ASSUME NEW k, CredOK(k), NEW g \in Gids, NEW r \in Roots
  PROVE /\ Legal(k, k) /\ Legal(k, SetNoNewPrivs(k))
        /\ Legal(k, Setgid(k, g)) /\ Legal(k, Setgroups(k, g)) /\ Legal(k, Chroot(k, r))
<1> DEFINE a == [k EXCEPT !.nnp = TRUE]
           b == [k EXCEPT !.gid = g]
           d == [k EXCEPT !.groups = g]
           e == [k EXCEPT !.root = r]
<1>1. CredOK(a) /\ CredOK(b) /\ CredOK(d) /\ CredOK(e) BY DEF CredOK, Cred
<1>2. Empty(k) => Empty(a) /\ Empty(b) /\ Empty(d) /\ Empty(e)
  BY DEF CredOK, Cred, Empty
<1>3. Sealed(k) => Sealed(a) /\ Sealed(b) /\ Sealed(d) /\ Sealed(e)
  BY DEF CredOK, Cred, Sealed
<1> QED
  BY <1>1, <1>2, <1>3 DEF Legal, SetNoNewPrivs, Setgid, Setgroups, Chroot

-----------------------------------------------------------------------------
(* Steps                                                                   *)

(* g reports the success of a cap_set_mode(NOPRIV). *)
NowNopriv(g) == g.pc = "done" /\ g.op = "set_mode" /\ g.arg = "NOPRIV" /\ g.ret = 0

(* A thread becomes g and its process k: the invariant is kept if g is a   *)
(* frame, k is what a system call makes of the credentials, and success of *)
(* NOPRIV is reported of an empty k.                                       *)
LEMMA BecomesInv ==
  ASSUME CapInv, NEW t \in Threads, NEW g, NEW k, Becomes(t, g, k),
         FrameOK(g), Legal(c(t), k), NowNopriv(g) => Empty(k)
 
  PROVE CapInv' /\ PureStep
<1> USE CapProcAssumption
<1>1. Home[t] \in Procs /\ creds \in [Procs -> Cred] BY DEF CapInv, TypeOK
<1>2. /\ creds' \in [Procs -> Cred]
      /\ \A p \in Procs : creds'[p] = IF p = Home[t] THEN k ELSE creds[p]
  BY <1>1 DEF Becomes, Legal, CredOK
<1>3. \A p \in Procs : CredOK(creds'[p])
  BY <1>1, <1>2 DEF CapInv, TypeOK, Legal, CredOK
<1>4. \A u \in Threads : FrameOK(frame'[u])
  <2> TAKE u \in Threads
  <2> DEFINE h == [f(u) EXCEPT !.clean = FALSE, !.start = NoCaps]
  <2>1. FrameOK(f(u)) BY DEF CapInv
  <2>2. FrameOK(h)
    <3>1. DOMAIN f(u) = DOMAIN Blank BY <2>1 DEF FrameOK
    <3>2. /\ DOMAIN h = DOMAIN f(u) /\ h.clean = FALSE
          /\ h.pc = f(u).pc /\ h.op = f(u).op /\ h.ret = f(u).ret /\ h.n = f(u).n
          /\ h.working = f(u).working /\ h.arg = f(u).arg
      BY <3>1 DEF Blank
    <3> QED BY <2>1, <3>2 DEF FrameOK, Passes, Clearing
  <2>3. frame'[u] = g \/ frame'[u] = h \/ frame'[u] = f(u) BY DEF Becomes
  <2> QED BY <2>1, <2>2, <2>3
<1>5. nopriv' \subseteq Procs /\ NoprivInv'
  <2>1. nopriv' = IF NowNopriv(g) THEN nopriv \cup {Home[t]} ELSE nopriv
    BY DEF Becomes, NowNopriv
  <2>2. nopriv \subseteq Procs /\ \A p \in nopriv : Empty(creds[p])
    BY DEF CapInv, TypeOK, NoprivInv
  <2>3. nopriv' \subseteq Procs BY <1>1, <2>1, <2>2
  <2>4. ASSUME NEW p \in nopriv' PROVE Empty(creds'[p])
    <3>1. CASE p = Home[t]
      <4>1. creds'[p] = k BY <1>1, <1>2, <3>1
      <4>2. p \in nopriv => Empty(k) BY <2>2, <3>1 DEF Legal, c
      <4> QED BY <2>1, <2>4, <4>1, <4>2
    <3>2. CASE p # Home[t] BY <1>2, <2>1, <2>2, <2>3, <2>4, <3>2
    <3> QED BY <3>1, <3>2
  <2> QED BY <2>3, <2>4 DEF NoprivInv
<1>6. TypeOK'
  BY <1>2, <1>3, <1>4, <1>5 DEF TypeOK, CredOK, FrameOK, f
<1>7. PureStep
  <2> SUFFICES ASSUME NEW p \in Procs, Sealed(creds[p]) PROVE Sealed(creds'[p])
    BY PureSealed DEF PureStep
  <2> QED BY <1>2 DEF Legal, c
<1> QED BY <1>4, <1>5, <1>6, <1>7 DEF CapInv, f

(* What the invariant says of the caller's process and of what             *)
(* cap_get_proc returns.                                                   *)
LEMMA Here ==
  ASSUME CapInv, NEW t \in Threads
  PROVE /\ CredOK(c(t)) /\ FrameOK(f(t)) /\ Legal(c(t), c(t))
        /\ cap_get_proc(c(t)) \in CapT
<1>1. Home[t] \in Procs BY CapProcAssumption
<1>2. CredOK(c(t)) BY <1>1 DEF CapInv, TypeOK, CredOK, c
<1> QED BY <1>2 DEF CapInv, Legal, cap_get_proc, CapT, CredOK, Cred

(* What a call starts with. *)
LEMMA FreshFrame ==
  ASSUME CapInv, NEW t \in Threads, f(t).n < MaxCalls,
         NEW op \in DOMAIN Args, NEW arg \in Args[op],
         NEW p \in Points, NEW r \in {0, -1},
         p \in {"done", "get_proc", "ambient"},
         p = "get_proc" => op \in Gives \cup {"iab_set_proc"},
         p = "ambient" => op = "reset_ambient"
  PROVE FrameOK([Fresh(t, op, arg) EXCEPT !.pc = p, !.ret = r])
<1> DEFINE h == Fresh(t, op, arg)
           g == [h EXCEPT !.pc = p, !.ret = r]
<1>1. /\ DOMAIN h = DOMAIN Blank /\ h.pc = "done" /\ h.ret = 0 /\ h.clean = TRUE
      /\ h.op = op /\ h.arg = arg /\ h.n = f(t).n + 1 /\ h.working = NoCaps
  BY DEF Fresh, Blank
<1> HIDE DEF h
<1>2. /\ DOMAIN g = DOMAIN Blank /\ g.pc = p /\ g.ret = r /\ g.clean = TRUE
      /\ g.op = op /\ g.arg = arg /\ g.n = f(t).n + 1 /\ g.working = NoCaps
  BY <1>1 DEF Blank
<1> HIDE DEF g
<1>3. op \in Ops BY DEF Args, Ops, Single
<1>4. g.n \in 0 .. MaxCalls BY <1>2, Here, CapProcAssumption DEF FrameOK
<1>5. NoCaps \in CapT /\ NoCaps.I = {} /\ NoCaps.P = {} BY DEF NoCaps, CapT
<1>6. Passes(g.pc, g.op) /\ Clearing(g.pc, g.op, g.arg, g.ret, g.working)
  BY <1>2, <1>5 DEF Passes, Clearing
<1>7. FrameOK(g) BY <1>2, <1>3, <1>4, <1>5, <1>6 DEF FrameOK
<1> QED BY <1>7 DEF g, h

(* The calls that are one system call preserve the invariant.              *)
LEMMA StepCallSingle ==
  ASSUME CapInv, NEW t \in Threads, CallSingle(t)
  PROVE CapInv' /\ PureStep
<1>1. PICK call \in Calls :
        /\ call[1] \in Single
        /\ Becomes(t, [Fresh(t, call[1], call[2]) EXCEPT
                          !.ret = Ret(SingleOk(call[1], call[2], c(t)))],
                   SingleDo(call[1], call[2], c(t)))
  BY DEF CallSingle
<1> DEFINE r == Ret(SingleOk(call[1], call[2], c(t)))
           h == Fresh(t, call[1], call[2])
           g == [h EXCEPT !.ret = r]
           k == SingleDo(call[1], call[2], c(t))
<1>2. r \in {0, -1} BY DEF Ret
<1> HIDE DEF r
<1>3. DOMAIN h = DOMAIN Blank /\ h.pc = "done" /\ h.op = call[1] BY DEF Fresh, Blank
<1>4. FrameOK([h EXCEPT !.pc = "done", !.ret = r])
  BY <1>2, FreshFrame, CallsAssumption DEF CallSingle, Points
<1>5. g = [h EXCEPT !.pc = "done", !.ret = r]
  <2> HIDE DEF h
  <2> QED BY <1>3 DEF Blank
<1>6. FrameOK(g) BY <1>4, <1>5
<1>7. g.op = call[1]
  <2> HIDE DEF h
  <2> QED BY <1>3 DEF Blank
<1>8. Legal(c(t), k)
  <2> USE Here, CallsAssumption DEF Args
  <2>1. CASE call[1] = "set_proc" BY <2>1, CapsetLegal DEF SingleDo
  <2>2. CASE call[1] = "drop_bound" BY <2>2, DropLegal DEF SingleDo
  <2>3. CASE call[1] = "raise_ambient" BY <2>3, RaiseLegal DEF SingleDo
  <2>4. CASE call[1] = "lower_ambient" BY <2>4, LowerLegal DEF SingleDo
  <2>5. CASE call[1] = "set_secbits" BY <2>5, SecbitsLegal DEF SingleDo
  <2> QED BY <1>1, <2>1, <2>2, <2>3, <2>4, <2>5 DEF Single
<1>9. ~ NowNopriv(g) BY <1>1, <1>7 DEF NowNopriv, Single
<1>10. Becomes(t, g, k) BY <1>1 DEF r
<1> HIDE DEF g, k
<1> QED BY <1>6, <1>8, <1>9, <1>10, BecomesInv

(* So does the start of a call of several steps, which leaves the          *)
(* credentials alone.                                                      *)
LEMMA StepCallSteps ==
  ASSUME CapInv, NEW t \in Threads, CallSteps(t)
  PROVE CapInv' /\ PureStep
<1>1. PICK call \in Calls :
        /\ call[1] \notin Single
        /\ Becomes(t, [Fresh(t, call[1], call[2]) EXCEPT
                          !.pc = IF call[1] = "reset_ambient" THEN "ambient"
                                 ELSE "get_proc"], c(t))
  BY DEF CallSteps
<1> DEFINE p == IF call[1] = "reset_ambient" THEN "ambient" ELSE "get_proc"
           h == Fresh(t, call[1], call[2])
           g == [h EXCEPT !.pc = p]
<1>2. /\ p \in {"ambient", "get_proc"}
      /\ p = "ambient" => call[1] = "reset_ambient"
      /\ p = "get_proc" => call[1] \in Gives \cup {"iab_set_proc"}
  BY <1>1, CallsAssumption DEF Args, Single, Gives, NeedsOf
<1> HIDE DEF p
<1>3. DOMAIN h = DOMAIN Blank /\ h.ret = 0 BY DEF Fresh, Blank
<1>4. FrameOK([h EXCEPT !.pc = p, !.ret = 0])
  BY <1>2, FreshFrame, CallsAssumption DEF CallSteps, Points
<1>5. g = [h EXCEPT !.pc = p, !.ret = 0] /\ g.pc = p
  <2> HIDE DEF h
  <2> QED BY <1>3 DEF Blank
<1>6. FrameOK(g) /\ ~ NowNopriv(g) BY <1>2, <1>4, <1>5 DEF NowNopriv
<1>7. Becomes(t, g, c(t)) BY <1>1 DEF p
<1> HIDE DEF g
<1> QED BY <1>6, <1>7, Here, BecomesInv

(* A call goes on: to p, with result r, working set w and s left to do. *)
Moved(t, p, r, w, s) ==
    [f(t) EXCEPT !.pc = p, !.ret = r, !.working = w, !.todo = s]

(* A step within a call that satisfies the conditions on its frame         *)
(* preserves the invariant.                                                *)
LEMMA Move ==
  ASSUME CapInv, NEW t \in Threads, NEW p \in Points, NEW r \in {0, -1}, NEW w \in CapT,
         NEW s, NEW k, Becomes(t, Moved(t, p, r, w, s), k), Legal(c(t), k),
         Passes(p, f(t).op), Clearing(p, f(t).op, f(t).arg, r, w),
         p = "done" /\ f(t).op = "set_mode" /\ f(t).arg = "NOPRIV" /\ r = 0 => Empty(k)
 
  PROVE CapInv' /\ PureStep
<1> DEFINE g == Moved(t, p, r, w, s)
<1>1. FrameOK(f(t)) BY Here
<1>2. /\ DOMAIN g = DOMAIN f(t) /\ g.pc = p /\ g.ret = r /\ g.working = w
      /\ g.op = f(t).op /\ g.arg = f(t).arg /\ g.n = f(t).n /\ g.clean = f(t).clean
  BY <1>1 DEF Moved, FrameOK, Blank
<1> HIDE DEF g
<1>3. FrameOK(g) BY <1>1, <1>2 DEF FrameOK
<1>4. NowNopriv(g) => Empty(k) BY <1>2 DEF NowNopriv
<1>5. Becomes(t, g, k) BY DEF g
<1> QED BY <1>3, <1>4, <1>5, BecomesInv

(* cap_get_proc and cap_dup at the start of an operation, failing or not.  *)
LEMMA StepGetProc ==
  ASSUME CapInv, NEW t \in Threads, GetProcFails(t) \/ GetProc(t)
 
  PROVE CapInv' /\ PureStep
<1>0. /\ CredOK(c(t)) /\ FrameOK(f(t)) /\ Legal(c(t), c(t))
      /\ DOMAIN f(t) = DOMAIN Blank
  BY Here DEF FrameOK
<1>1. CASE GetProcFails(t)
  <2>1. Becomes(t, Moved(t, "done", -1, f(t).working, f(t).todo), c(t))
    <3>1. [f(t) EXCEPT !.pc = "done", !.ret = -1]
            = Moved(t, "done", -1, f(t).working, f(t).todo)
      BY <1>0 DEF Moved, Blank
    <3> QED BY <1>1, <3>1 DEF GetProcFails
  <2>2. Passes("done", f(t).op) /\ Clearing("done", f(t).op, f(t).arg, -1, f(t).working)
    BY DEF Passes, Clearing
  <2> QED BY <1>0, <2>1, <2>2, Move DEF Points, FrameOK
<1>2. CASE GetProc(t)
  <2> DEFINE p == IF f(t).op = "setuid" THEN "keep" ELSE "raise"
             w == Raised(t)
  <2>1. Becomes(t, Moved(t, p, f(t).ret, w, f(t).todo), c(t))
    <3>1. [f(t) EXCEPT !.working = w, !.pc = p] = Moved(t, p, f(t).ret, w, f(t).todo)
      <4> HIDE DEF p, w
      <4> QED BY <1>0 DEF Moved, Blank
    <3> QED BY <1>2, <3>1 DEF GetProc
  <2>2. f(t).op \in Gives BY <1>0, <1>2 DEF GetProc, Passes, FrameOK
  <2>3. NeedsOf[f(t).op] \in Caps BY <2>2, CredsAssumption DEF Gives, NeedsOf
  <2>4. w \in CapT
    <3>1. cap_get_proc(c(t)) \in CapT BY Here
    <3> QED BY <2>3, <3>1 DEF Raised, CapT
  <2>5. Passes(p, f(t).op) /\ Clearing(p, f(t).op, f(t).arg, f(t).ret, w)
    BY <2>2 DEF Passes, Clearing
  <2>6. p \in Points /\ p # "done" BY DEF Points
  <2> HIDE DEF p, w
  <2>7. f(t).ret \in {0, -1} BY <1>0 DEF FrameOK
  <2> QED BY <1>0, <2>1, <2>4, <2>5, <2>6, <2>7, Move
<1> QED BY <1>1, <1>2

(* The capset that raises what the operation needs.                        *)
LEMMA StepRaise ==
  ASSUME CapInv, NEW t \in Threads, Raise(t)
  PROVE CapInv' /\ PureStep
<1>0. /\ CredOK(c(t)) /\ FrameOK(f(t)) /\ Legal(c(t), c(t))
      /\ DOMAIN f(t) = DOMAIN Blank
  BY Here DEF FrameOK
<1>1. f(t).op \in Gives /\ f(t).pc = "raise" BY <1>0 DEF Raise, Passes, FrameOK
<1>2. CASE CapsetOk(c(t), f(t).working)
  <2> DEFINE p == AfterRaise(f(t).op, f(t).arg, c(t))
             r == Ret(f(t).op = "set_mode" => f(t).arg # "UNCERTAIN")
             w == Disinherited(t)
             k == Capset(c(t), f(t).working)
  <2>1. Becomes(t, Moved(t, p, r, w, f(t).todo), k)
    <3>1. [f(t) EXCEPT !.pc = p, !.ret = r, !.working = w] = Moved(t, p, r, w, f(t).todo)
      <4> HIDE DEF p, r, w
      <4> QED BY <1>0 DEF Moved, Blank
    <3> QED BY <1>2, <3>1 DEF Raise
  <2>2. r \in {0, -1} BY DEF Ret
  <2>3. w \in CapT /\ (f(t).op = "set_mode" /\ f(t).arg = "NOPRIV" => w.I = {})
    BY <1>0 DEF Disinherited, CapT, FrameOK
  <2>4. Legal(c(t), k) BY <1>0, CapsetLegal DEF FrameOK
  <2>5. /\ p \in Points /\ p # "done"
        /\ Passes(p, f(t).op)
        /\ f(t).op = "set_mode" /\ f(t).arg = "NOPRIV" => p \in {"ambient", "secbits"}
    <3>1. CASE f(t).op # "set_mode"
      BY <1>1, <3>1 DEF Gives, NeedsOf, AfterRaise, Passes, Points
    <3>2. CASE f(t).op = "set_mode"
      BY <3>2 DEF AfterRaise, Passes, Points, Gives, NeedsOf
    <3> QED BY <3>1, <3>2
  <2> HIDE DEF p, r, w, k
  <2>6. Clearing(p, f(t).op, f(t).arg, r, w) BY <2>3, <2>5 DEF Clearing
  <2> QED BY <2>1, <2>2, <2>3, <2>4, <2>5, <2>6, Move
<1>3. CASE ~ CapsetOk(c(t), f(t).working)
  <2> DEFINE p == AfterFailedRaise(f(t).op)
  <2>1. Becomes(t, Moved(t, p, -1, f(t).working, f(t).todo), c(t))
    <3>1. [f(t) EXCEPT !.pc = p, !.ret = -1]
            = Moved(t, p, -1, f(t).working, f(t).todo)
      <4> HIDE DEF p
      <4> QED BY <1>0 DEF Moved, Blank
    <3> QED BY <1>3, <3>1 DEF Raise
  <2>2. /\ p \in Points /\ p # "done" /\ Passes(p, f(t).op)
        /\ Clearing(p, f(t).op, f(t).arg, -1, f(t).working)
    BY <1>1 DEF AfterFailedRaise, Passes, Clearing, Points
  <2> HIDE DEF p
  <2>3. f(t).working \in CapT BY <1>0 DEF FrameOK
  <2> QED BY <1>0, <2>1, <2>2, <2>3, Move
<1> QED BY <1>2, <1>3

(* Here a cap_set_mode(NOPRIV) returns 0: only if its capset of the empty  *)
(* working set succeeded.                                                  *)
LEMMA StepLower ==
  ASSUME CapInv, NEW t \in Threads, Lower(t)
  PROVE CapInv' /\ PureStep
<1>0. /\ CredOK(c(t)) /\ FrameOK(f(t)) /\ Legal(c(t), c(t))
      /\ DOMAIN f(t) = DOMAIN Blank
  BY Here DEF FrameOK
<1> DEFINE w == [f(t).working EXCEPT !.E = {}]
           ok == CapsetOk(c(t), w)
           r == IF f(t).op = "set_mode" THEN Or(f(t).ret, Ret(ok)) ELSE f(t).ret
           k == Capset(c(t), w)
<1>1. Becomes(t, Moved(t, "done", r, f(t).working, f(t).todo), k)
  <2>1. [f(t) EXCEPT !.pc = "done", !.ret = r]
          = Moved(t, "done", r, f(t).working, f(t).todo)
    <3> HIDE DEF r
    <3> QED BY <1>0 DEF Moved, Blank
  <2>2. [f(t) EXCEPT !.pc = "done",
                     !.ret = IF f(t).op = "set_mode" THEN Or(@, Ret(ok)) ELSE @]
          = [f(t) EXCEPT !.pc = "done", !.ret = r]
    BY <1>0 DEF Blank
  <2> QED BY <2>1, <2>2 DEF Lower
<1>2. w \in CapT /\ w.P = f(t).working.P /\ w.I = f(t).working.I /\ w.E = {}
  BY <1>0 DEF CapT, FrameOK
<1>3. r \in {0, -1} BY <1>0 DEF Or, FrameOK
<1>4. Legal(c(t), k) BY <1>0, <1>2, CapsetLegal
<1>5. ASSUME f(t).op = "set_mode", f(t).arg = "NOPRIV", r = 0 PROVE Empty(k)
  <2>1. f(t).ret = 0 /\ ok BY <1>5 DEF Or, Ret
  <2>2. w.P = {} /\ w.I = {} BY <1>0, <1>2, <1>5, <2>1 DEF Lower, Clearing, FrameOK
  <2> HIDE DEF w
  <2>3. k = [c(t) EXCEPT !.P = w.P, !.E = w.E, !.I = w.I, !.A = @ \cap w.P \cap w.I]
    BY <2>1 DEF Capset
  <2> QED BY <1>0, <1>2, <2>2, <2>3 DEF CredOK, Cred, Empty
<1>6. Passes("done", f(t).op) /\ Clearing("done", f(t).op, f(t).arg, r, f(t).working)
  BY DEF Passes, Clearing
<1>7. f(t).working \in CapT BY <1>0 DEF FrameOK
<1> HIDE DEF r, k
<1> QED BY <1>1, <1>3, <1>4, <1>5, <1>6, <1>7, Move DEF Points

(* Only the program point and the result change; NOPRIV does not return. *)
LEMMA MoveOn ==
  ASSUME CapInv, NEW t \in Threads, NEW p \in Points, NEW r \in {0, -1}, NEW k,
         Becomes(t, [f(t) EXCEPT !.pc = p, !.ret = r], k), Legal(c(t), k),
         Passes(p, f(t).op), Clearing(p, f(t).op, f(t).arg, r, f(t).working),
         p = "done" => f(t).op # "set_mode"
 
  PROVE CapInv' /\ PureStep
<1>0. /\ CredOK(c(t)) /\ FrameOK(f(t)) /\ Legal(c(t), c(t))
      /\ DOMAIN f(t) = DOMAIN Blank
  BY Here DEF FrameOK
<1>1. [f(t) EXCEPT !.pc = p, !.ret = r] = Moved(t, p, r, f(t).working, f(t).todo)
  BY <1>0 DEF Moved, Blank
<1>2. f(t).working \in CapT BY <1>0 DEF FrameOK
<1> QED BY <1>1, <1>2, Move

(* Only the program point changes.                                         *)
LEMMA MovePc ==
  ASSUME CapInv, NEW t \in Threads, NEW p \in Points, NEW k,
         Becomes(t, [f(t) EXCEPT !.pc = p], k), Legal(c(t), k),
         Passes(p, f(t).op), Clearing(p, f(t).op, f(t).arg, f(t).ret, f(t).working),
         p = "done" => f(t).op # "set_mode"
 
  PROVE CapInv' /\ PureStep
<1>0. /\ CredOK(c(t)) /\ FrameOK(f(t)) /\ Legal(c(t), c(t))
      /\ DOMAIN f(t) = DOMAIN Blank
  BY Here DEF FrameOK
<1>1. [f(t) EXCEPT !.pc = p] = [f(t) EXCEPT !.pc = p, !.ret = f(t).ret]
  BY <1>0 DEF Blank
<1>2. f(t).ret \in {0, -1} BY <1>0 DEF FrameOK
<1> QED BY <1>1, <1>2, MoveOn

(* The three system calls of cap_setuid.                                   *)
LEMMA StepSetuid ==
  ASSUME CapInv, NEW t \in Threads, KeepCaps(t) \/ DoSetuid(t) \/ UnkeepCaps(t)
  PROVE CapInv' /\ PureStep
<1>0. /\ CredOK(c(t)) /\ FrameOK(f(t)) /\ Legal(c(t), c(t))
      /\ DOMAIN f(t) = DOMAIN Blank
  BY Here DEF FrameOK
<1>1. f(t).op = "setuid" /\ f(t).arg \in Uids
  <2>1. f(t).op = "setuid" BY DEF KeepCaps, DoSetuid, UnkeepCaps, At
  <2>2. f(t).arg \in Args[f(t).op] BY <1>0, <2>1 DEF FrameOK
  <2> QED BY <2>1, <2>2 DEF Args
<1>2. \A p, r : Clearing(p, f(t).op, f(t).arg, r, f(t).working) BY <1>1 DEF Clearing
<1>3. CASE KeepCaps(t)
  <2>1. Legal(c(t), SetKeepCaps(c(t), TRUE)) BY <1>0, KeepCapsLegal
  <2>2. Passes("raise", f(t).op) BY <1>1 DEF Passes, Gives, NeedsOf
  <2> QED BY <1>2, <1>3, <2>1, <2>2, MovePc DEF KeepCaps, Points
<1>4. CASE DoSetuid(t)
  <2> DEFINE r == Ret(SetuidOk(c(t), f(t).arg))
  <2>1. Legal(c(t), Setuid(c(t), f(t).arg)) BY <1>0, <1>1, SetuidLegal
  <2>2. Passes("unkeep", f(t).op) BY <1>1 DEF Passes
  <2>3. r \in {0, -1} BY DEF Ret
  <2>4. Becomes(t, [f(t) EXCEPT !.pc = "unkeep", !.ret = r], Setuid(c(t), f(t).arg))
    BY <1>4 DEF DoSetuid
  <2> HIDE DEF r
  <2> QED BY <1>2, <2>1, <2>2, <2>3, <2>4, MoveOn DEF Points
<1>5. CASE UnkeepCaps(t)
  <2>1. Legal(c(t), SetKeepCaps(c(t), FALSE)) BY <1>0, KeepCapsLegal
  <2>2. Passes("lower", f(t).op) BY <1>1 DEF Passes, Gives, NeedsOf
  <2> QED BY <1>2, <1>5, <2>1, <2>2, MovePc DEF UnkeepCaps, Points
<1> QED BY <1>3, <1>4, <1>5

(* The system calls of cap_setgroups and of the chroot of a launch.        *)
LEMMA StepGroupsRoot ==
  ASSUME CapInv, NEW t \in Threads, DoSetgid(t) \/ DoSetgroups(t) \/ DoChroot(t)
  PROVE CapInv' /\ PureStep
<1>0. /\ CredOK(c(t)) /\ FrameOK(f(t)) /\ Legal(c(t), c(t))
      /\ DOMAIN f(t) = DOMAIN Blank
  BY Here DEF FrameOK
<1>1. /\ f(t).op \in {"setgroups", "chroot"}
      /\ f(t).op = "setgroups" => f(t).arg \in Gids
      /\ f(t).op = "chroot" => f(t).arg \in Roots
  <2>1. f(t).op \in {"setgroups", "chroot"} BY DEF DoSetgid, DoSetgroups, DoChroot, At
  <2>2. f(t).arg \in Args[f(t).op] BY <1>0, <2>1 DEF FrameOK
  <2> QED BY <2>1, <2>2 DEF Args
<1>2. \A p, r : Clearing(p, f(t).op, f(t).arg, r, f(t).working) BY <1>1 DEF Clearing
<1>3. \A p \in {"lower", "setgroups"} : Passes(p, f(t).op) /\ p \in Points /\ p # "done"
  BY <1>1 DEF Passes, Gives, NeedsOf, Points
<1>4. 0 \in Gids /\ 0 \in Roots BY CredsAssumption
<1>5. CASE DoSetgid(t)
  <2> DEFINE ok == SetgidOk(c(t), f(t).arg)
             p == IF ok THEN "setgroups" ELSE "lower"
             r == Ret(ok)
  <2>1. Legal(c(t), Setgid(c(t), f(t).arg)) BY <1>0, <1>1, <1>4, <1>5, OthersLegal DEF DoSetgid, At
  <2>2. p \in {"lower", "setgroups"} /\ r \in {0, -1} BY DEF Ret
  <2>3. Becomes(t, [f(t) EXCEPT !.pc = p, !.ret = r], Setgid(c(t), f(t).arg))
    BY <1>5 DEF DoSetgid
  <2> HIDE DEF p, r
  <2> QED BY <1>2, <1>3, <2>1, <2>2, <2>3, MoveOn
<1>6. CASE DoSetgroups(t)
  <2> DEFINE r == Ret(SetgroupsOk(c(t)))
  <2>1. Legal(c(t), Setgroups(c(t), f(t).arg)) BY <1>0, <1>1, <1>4, <1>6, OthersLegal DEF DoSetgroups, At
  <2>2. r \in {0, -1} BY DEF Ret
  <2>3. Becomes(t, [f(t) EXCEPT !.pc = "lower", !.ret = r], Setgroups(c(t), f(t).arg))
    BY <1>6 DEF DoSetgroups
  <2> HIDE DEF r
  <2> QED BY <1>2, <1>3, <2>1, <2>2, <2>3, MoveOn
<1>7. CASE DoChroot(t)
  <2> DEFINE r == Ret(ChrootOk(c(t)))
  <2>1. Legal(c(t), Chroot(c(t), f(t).arg)) BY <1>0, <1>1, <1>4, <1>7, OthersLegal DEF DoChroot, At
  <2>2. r \in {0, -1} BY DEF Ret
  <2>3. \/ Becomes(t, [f(t) EXCEPT !.pc = "lower", !.ret = r], Chroot(c(t), f(t).arg))
        \/ Becomes(t, [f(t) EXCEPT !.pc = "lower", !.ret = -1], c(t))
    BY <1>7 DEF DoChroot
  <2> HIDE DEF r
  <2> QED BY <1>0, <1>2, <1>3, <2>1, <2>2, <2>3, MoveOn
<1> QED BY <1>5, <1>6, <1>7

(* _cap_reset_ambient: look for a raised bit, then clear them all.         *)
LEMMA StepAmbient ==
  ASSUME CapInv, NEW t \in Threads, ReadAmbient(t) \/ ResetAmbient(t)
  PROVE CapInv' /\ PureStep
<1>0. /\ CredOK(c(t)) /\ FrameOK(f(t)) /\ Legal(c(t), c(t))
      /\ DOMAIN f(t) = DOMAIN Blank
  BY Here DEF FrameOK
<1>1. /\ f(t).pc \in {"ambient", "clear_ambient"}
      /\ f(t).op \in {"set_mode", "iab_set_proc", "reset_ambient"}
  BY <1>0 DEF FrameOK, Passes, ReadAmbient, ResetAmbient
<1>2. \A p \in {AfterAmbient(f(t).op), "clear_ambient"} :
        /\ p \in Points /\ Passes(p, f(t).op) /\ (p = "done" => f(t).op # "set_mode")
        /\ Clearing(p, f(t).op, f(t).arg, f(t).ret, f(t).working)
  BY <1>0, <1>1 DEF FrameOK, AfterAmbient, Passes, Clearing, Points
<1>3. CASE ReadAmbient(t)
  <2> DEFINE p == IF c(t).A = {} THEN AfterAmbient(f(t).op) ELSE "clear_ambient"
  <2>1. Becomes(t, [f(t) EXCEPT !.pc = p], c(t)) BY <1>3 DEF ReadAmbient, Goes
  <2>2. p \in {AfterAmbient(f(t).op), "clear_ambient"} OBVIOUS
  <2> HIDE DEF p
  <2> QED BY <1>0, <1>2, <2>1, <2>2, MovePc
<1>4. CASE ResetAmbient(t)
  <2>1. Legal(c(t), ClearAmbient(c(t))) BY <1>0, LowerLegal
  <2> QED BY <1>2, <1>4, <2>1, MovePc DEF ResetAmbient
<1> QED BY <1>3, <1>4

(* The steps of _cap_set_mode between its raise and its lower.             *)
LEMMA StepMode ==
  ASSUME CapInv, NEW t \in Threads, SetModeSecbits(t) \/ DropBounds(t) \/ NoNewPrivs(t)
  PROVE CapInv' /\ PureStep
<1>0. /\ CredOK(c(t)) /\ FrameOK(f(t)) /\ Legal(c(t), c(t))
      /\ DOMAIN f(t) = DOMAIN Blank
  BY Here DEF FrameOK
<1>1. /\ f(t).op = "set_mode" /\ f(t).pc \in {"secbits", "bounds", "nnp"}
      /\ f(t).ret \in {0, -1} /\ f(t).working \in CapT
      /\ f(t).arg = "NOPRIV" => f(t).working.I = {}
  BY <1>0 DEF SetModeSecbits, DropBounds, NoNewPrivs, At, FrameOK, Clearing
<1>2. /\ \A p \in {"bounds", "nnp", "lower"} :
              p \in Points /\ p # "done" /\ Passes(p, f(t).op)
  BY <1>1 DEF Points, Passes, Gives, NeedsOf
<1>3. CASE SetModeSecbits(t)
  <2> DEFINE bits == ModeBits(f(t).arg, c(t))
             all == f(t).arg = "NOPRIV"
             p == IF all THEN "bounds" ELSE "lower"
             s == IF all THEN AllBits ELSE <<>>
             r == Ret(SecbitsOk(c(t), bits))
             k == SetSecbits(c(t), bits)
  <2>1. Becomes(t, Moved(t, p, r, f(t).working, s), k)
    <3>1. [f(t) EXCEPT !.pc = p, !.todo = s, !.ret = r] = Moved(t, p, r, f(t).working, s)
      <4> HIDE DEF p, s, r
      <4> QED BY <1>0 DEF Moved, Blank
    <3> QED BY <1>3, <3>1 DEF SetModeSecbits
  <2>2. bits \in SUBSET SecBits
    BY DEF ModeBits, SecBits, LockOf, CAP_SECURED_BITS_BASIC, CAP_SECURED_BITS_AMBIENT
  <2>3. Legal(c(t), k) BY <1>0, <2>2, SecbitsLegal
  <2>4. r \in {0, -1} BY DEF Ret
  <2>5. p \in {"bounds", "lower"} /\ (f(t).arg = "NOPRIV" => p = "bounds") OBVIOUS
  <2> HIDE DEF p, s, r, k
  <2>6. Clearing(p, f(t).op, f(t).arg, r, f(t).working) BY <1>1, <2>5 DEF Clearing
  <2> QED BY <1>1, <1>2, <2>1, <2>3, <2>4, <2>5, <2>6, Move
<1>4. CASE DropBounds(t) /\ f(t).todo # <<>>
  <2> DEFINE s == Tail(f(t).todo)
             k == Drop(c(t), Head(f(t).todo)[2])
  <2>1. Becomes(t, Moved(t, "bounds", f(t).ret, f(t).working, s), k)
    <3>1. [f(t) EXCEPT !.todo = Tail(@)] = [f(t) EXCEPT !.todo = s] BY <1>0 DEF Blank
    <3>2. f(t).pc = "bounds" BY <1>4 DEF DropBounds, At
    <3>3. [f(t) EXCEPT !.todo = s] = Moved(t, "bounds", f(t).ret, f(t).working, s)
      <4> HIDE DEF s
      <4> QED BY <1>0, <3>2 DEF Moved, Blank
    <3> QED BY <1>4, <3>1, <3>3 DEF DropBounds
  <2>2. Legal(c(t), k) BY <1>0, DropLegal
  <2> HIDE DEF s, k
  <2>3. Clearing("bounds", f(t).op, f(t).arg, f(t).ret, f(t).working)
    BY <1>1 DEF Clearing
  <2> QED BY <1>1, <1>2, <2>1, <2>2, <2>3, Move
<1>5. CASE DropBounds(t) /\ f(t).todo = <<>>
  <2> DEFINE w == [f(t).working EXCEPT !.P = {}]
  <2>1. Becomes(t, Moved(t, "nnp", f(t).ret, w, f(t).todo), c(t))
    <3>1. [f(t) EXCEPT !.pc = "nnp", !.working.P = {}]
            = [f(t) EXCEPT !.pc = "nnp", !.working = w] BY <1>0 DEF Blank
    <3>2. [f(t) EXCEPT !.pc = "nnp", !.working = w]
            = Moved(t, "nnp", f(t).ret, w, f(t).todo)
      <4> HIDE DEF w
      <4> QED BY <1>0 DEF Moved, Blank
    <3> QED BY <1>5, <3>1, <3>2 DEF DropBounds
  <2>2. w \in CapT /\ w.P = {} /\ w.I = f(t).working.I BY <1>1 DEF CapT
  <2> HIDE DEF w
  <2>3. Clearing("nnp", f(t).op, f(t).arg, f(t).ret, w) BY <1>1, <2>2 DEF Clearing
  <2> QED BY <1>0, <1>1, <1>2, <2>1, <2>2, <2>3, Move
<1>6. CASE NoNewPrivs(t)
  <2>1. 0 \in Gids /\ 0 \in Roots BY CredsAssumption
  <2>2. Legal(c(t), SetNoNewPrivs(c(t))) BY <1>0, <2>1, OthersLegal
  <2>3. Clearing("lower", f(t).op, f(t).arg, f(t).ret, f(t).working)
    BY <1>0, <1>6 DEF Clearing, FrameOK, NoNewPrivs, At
  <2> QED BY <1>2, <1>6, <2>2, <2>3, MovePc DEF NoNewPrivs
<1> QED BY <1>3, <1>4, <1>5, <1>6

(* The steps of cap_iab_set_proc.                                          *)
LEMMA StepIab ==
  ASSUME CapInv, NEW t \in Threads, IabGetProc(t) \/ IabSet(t) \/ IabVector(t)
                                   \/ IabVectorsEnd(t) \/ IabRestore(t)
  PROVE CapInv' /\ PureStep
<1>0. /\ CredOK(c(t)) /\ FrameOK(f(t)) /\ Legal(c(t), c(t))
      /\ DOMAIN f(t) = DOMAIN Blank
  BY Here DEF FrameOK
<1>1. f(t).op = "iab_set_proc" /\ f(t).ret \in {0, -1} /\ f(t).working \in CapT
  BY <1>0 DEF IabGetProc, IabSet, IabVector, IabVectorsEnd, IabRestore, At, FrameOK, Passes
<1>2. f(t).arg \in Iab
  <2>1. f(t).arg \in Args[f(t).op] BY <1>0, <1>1 DEF FrameOK
  <2> QED BY <1>1, <2>1 DEF Args
<1>3. \A p, r, w : Clearing(p, f(t).op, f(t).arg, r, w) BY <1>1 DEF Clearing
<1>4. \A p \in {"iab_set", "iab_setpcap", "ambient", "vectors", "iab_restore", "done"} :
        p \in Points /\ Passes(p, f(t).op)
  BY <1>1 DEF Points, Passes
<1>5. CASE IabGetProc(t)
  <2> DEFINE iab == f(t).arg
             bounds == iab.nb \cap c(t).B # {}
             needs == bounds \/ ~ iab.i \subseteq c(t).I \cup c(t).P
             w == [cap_get_proc(c(t)) EXCEPT !.I = iab.i]
             s == IabTodo(iab, bounds)
             p == IF needs THEN "iab_setpcap" ELSE "iab_set"
  <2>1. Becomes(t, Moved(t, p, f(t).ret, w, s), c(t))
    <3>1. [f(t) EXCEPT !.working = w, !.todo = s, !.pc = p] = Moved(t, p, f(t).ret, w, s)
      <4> HIDE DEF w, s, p
      <4> QED BY <1>0 DEF Moved, Blank
    <3> QED BY <1>5, <3>1 DEF IabGetProc
  <2>2. w \in CapT
    <3>1. cap_get_proc(c(t)) \in CapT BY Here
    <3> QED BY <1>2, <3>1 DEF CapT, Iab
  <2>3. p \in {"iab_set", "iab_setpcap"} OBVIOUS
  <2> HIDE DEF w, s, p
  <2> QED BY <1>0, <1>1, <1>3, <1>4, <2>1, <2>2, <2>3, Move
<1>6. CASE IabSet(t)
  <2> DEFINE w == IF f(t).pc = "iab_set" THEN f(t).working
                  ELSE [f(t).working EXCEPT !.E = @ \cup {CAP_SETPCAP}]
             ok == CapsetOk(c(t), w)
             p == IF ok THEN "ambient" ELSE "done"
             r == Ret(ok)
  <2>1. w \in CapT BY <1>1, CredsAssumption DEF CapT
  <2>2. Legal(c(t), Capset(c(t), w)) BY <1>0, <2>1, CapsetLegal
  <2>3. p \in {"ambient", "done"} /\ r \in {0, -1} BY DEF Ret
  <2>4. Becomes(t, [f(t) EXCEPT !.pc = p, !.ret = r], Capset(c(t), w))
    BY <1>6 DEF IabSet
  <2> HIDE DEF w, p, r
  <2> QED BY <1>1, <1>3, <1>4, <2>2, <2>3, <2>4, MoveOn
<1>7. CASE IabVector(t)
  <2> DEFINE kind == Head(f(t).todo)[1]
             x == Head(f(t).todo)[2]
             ok == IF kind = "ambient" THEN RaiseOk(c(t), x) ELSE DropOk(c(t))
             s == Tail(f(t).todo)
             r == Ret(ok)
             p == IF ok THEN "vectors" ELSE "iab_restore"
             k == IF kind = "ambient" THEN RaiseAmbient(c(t), x) ELSE Drop(c(t), x)
  <2>1. Becomes(t, Moved(t, p, r, f(t).working, s), k)
    <3>1. f(t).pc = "vectors" BY <1>7 DEF IabVector, At
    <3>2. [f(t) EXCEPT !.todo = Tail(@), !.ret = r, !.pc = IF ok THEN @ ELSE "iab_restore"]
            = [f(t) EXCEPT !.todo = s, !.ret = r, !.pc = p]
      <4> HIDE DEF ok, r
      <4> QED BY <1>0, <3>1 DEF Blank
    <3>3. [f(t) EXCEPT !.todo = s, !.ret = r, !.pc = p] = Moved(t, p, r, f(t).working, s)
      <4> HIDE DEF s, r, p
      <4> QED BY <1>0 DEF Moved, Blank
    <3>4. Becomes(t, [f(t) EXCEPT !.todo = Tail(@), !.ret = r,
                                  !.pc = IF ok THEN @ ELSE "iab_restore"], k)
      BY ONLY <1>7 DEF IabVector
    <3> QED BY ONLY <3>2, <3>3, <3>4
  <2>2. Legal(c(t), k) BY <1>0, RaiseLegal, DropLegal
  <2>3. p \in {"vectors", "iab_restore"} /\ r \in {0, -1} BY DEF Ret
  <2> HIDE DEF p, r, s, k
  <2> QED BY <1>1, <1>3, <1>4, <2>1, <2>2, <2>3, Move
<1>8. CASE IabVectorsEnd(t)
  BY <1>0, <1>1, <1>3, <1>4, <1>8, MovePc DEF IabVectorsEnd, Goes
<1>9. CASE IabRestore(t)
  <2>1. Legal(c(t), Capset(c(t), f(t).working)) BY <1>0, <1>1, CapsetLegal
  <2> QED BY <1>1, <1>3, <1>4, <1>9, <2>1, MovePc DEF IabRestore
<1> QED BY <1>5, <1>6, <1>7, <1>8, <1>9

-----------------------------------------------------------------------------
(* Theorems                                                                *)

(* A process starts within the invariant.                                  *)
LEMMA InvInit == ASSUME Init PROVE CapInv
<1>1. creds \in [Procs -> InitCreds] /\ nopriv = {} BY DEF Init
<1>2. \A p \in Procs : CredOK(creds[p]) BY <1>1, CapProcAssumption DEF CredOK
<1>3. creds \in [Procs -> Cred] BY <1>1, CapProcAssumption
<1>4. \A t \in Threads : FrameOK(f(t))
  <2>1. FrameOK(Blank)
    BY CapProcAssumption DEF FrameOK, Blank, Points, Ops, CapT, NoCaps, Passes, Clearing
  <2> QED BY <2>1 DEF Init, f
<1>5. TypeOK BY <1>1, <1>2, <1>3, <1>4 DEF TypeOK, CredOK, FrameOK
<1> QED BY <1>1, <1>4, <1>5 DEF CapInv, NoprivInv

(* Every step of every thread keeps the invariant and the seal.            *)
LEMMA InvNext == CapInv /\ [Next]_vars => CapInv' /\ PureStep
<1> SUFFICES ASSUME CapInv, [Next]_vars PROVE CapInv' /\ PureStep
  OBVIOUS
<1>1. CASE UNCHANGED vars
  BY <1>1 DEF vars, CapInv, TypeOK, NoprivInv, PureStep, f, c
<1>2. ASSUME NEW t \in Threads, CallSingle(t) \/ CallSteps(t) \/ Step(t)
      PROVE CapInv' /\ PureStep
  BY <1>2, StepCallSingle, StepCallSteps, StepGetProc, StepRaise, StepLower, StepSetuid,
     StepGroupsRoot, StepAmbient, StepMode, StepIab DEF Step
<1> QED BY <1>1, <1>2 DEF Next

(* Whatever calls the threads make of cap_proc.c, in any interleaving, the *)
(* credentials stay a value the kernel can hold and every frame stays      *)
(* well-formed: TypeOK, for any number of threads, processes and calls.    *)
THEOREM TypeCorrect == Spec => []TypeOK
<1>1. CapInv => TypeOK BY DEF CapInv
<1> QED BY <1>1, InvInit, InvNext, PTL DEF Spec

(* Once cap_set_mode(CAP_MODE_NOPRIV) has returned 0 in a process, no call *)
(* of any of its threads, begun before or after that, gives the process a  *)
(* permitted, inheritable or ambient capability again.                     *)
THEOREM NoprivIsForever == Spec => []NoprivForever
<1>1. CapInv => NoprivForever BY DEF CapInv, NoprivInv, NoprivForever, Empty
<1> QED BY <1>1, InvInit, InvNext, PTL DEF Spec

(* No step of any call takes a process out of the modes cap_get_mode calls *)
(* NOPRIV, PURE1E_INIT or PURE1E: the way from one leads only to another.  *)
THEOREM PureIsPermanent == Spec => PureIsForever
<1>1. CapInv /\ [Next]_vars
        => [\A p \in Procs : Pure(creds[p]) => Pure(creds'[p])]_vars
  BY InvNext DEF PureStep
<1> QED BY <1>1, InvInit, InvNext, PTL DEF Spec, PureIsForever

-----------------------------------------------------------------------------
(* Sequences: what a call has left to do                                   *)

(* A set of natural numbers that is not empty has a least member. *)
LEMMA Least ==
  ASSUME NEW T \in SUBSET Nat, T # {}
  PROVE  \E i \in T : \A j \in T : i <= j
<1> DEFINE R == OpToRel(<, Nat)
<1>1. IsWellFoundedOn(R, Nat) BY NatLessThanWellFounded
<1>2. \A i, j \in Nat : i < j => <<i, j>> \in R BY DEF OpToRel
<1> HIDE DEF R
<1>3. PICK i \in T : \A j \in T : ~ (<<j, i>> \in R) BY <1>1, WFMin
<1>4. ASSUME NEW j \in T PROVE i <= j
  <2>1. ~ j < i BY <1>2, <1>3
  <2> QED BY <2>1
<1> QED BY <1>4

(* Whether x is an item of s. *)
Among(x, s) == \E i \in 1 .. Len(s) : s[i] = x

(* The items of a concatenation are those of its parts. *)
LEMMA AmongConcat ==
  ASSUME NEW T, NEW s \in Seq(T), NEW r \in Seq(T), NEW x
  PROVE  s \o r \in Seq(T) /\ (Among(x, s \o r) <=> Among(x, s) \/ Among(x, r))
<1>1. /\ s \o r \in Seq(T) /\ Len(s \o r) = Len(s) + Len(r)
      /\ Len(s) \in Nat /\ Len(r) \in Nat
      /\ \A i \in 1 .. Len(s) + Len(r) :
            (s \o r)[i] = IF i <= Len(s) THEN s[i] ELSE r[i - Len(s)]
  OBVIOUS
<1>2. ASSUME Among(x, s \o r) PROVE Among(x, s) \/ Among(x, r)
  <2>1. PICK i \in 1 .. Len(s) + Len(r) : (s \o r)[i] = x BY <1>1, <1>2 DEF Among
  <2>2. CASE i <= Len(s) BY <1>1, <2>1, <2>2 DEF Among
  <2>3. CASE ~ i <= Len(s)
    <3>1. i - Len(s) \in 1 .. Len(r) /\ r[i - Len(s)] = x BY <1>1, <2>1, <2>3
    <3> QED BY <3>1 DEF Among
  <2> QED BY <2>2, <2>3
<1>3. ASSUME Among(x, s) PROVE Among(x, s \o r)
  <2>1. PICK i \in 1 .. Len(s) : s[i] = x BY <1>3 DEF Among
  <2>2. i \in 1 .. Len(s) + Len(r) /\ (s \o r)[i] = x BY <1>1, <2>1
  <2> QED BY <1>1, <2>2 DEF Among
<1>4. ASSUME Among(x, r) PROVE Among(x, s \o r)
  <2>1. PICK i \in 1 .. Len(r) : r[i] = x BY <1>4 DEF Among
  <2>2. /\ i + Len(s) \in 1 .. Len(s) + Len(r)
        /\ (s \o r)[i + Len(s)] = r[(i + Len(s)) - Len(s)]
        /\ (i + Len(s)) - Len(s) = i
    BY <1>1, <2>1
  <2> QED BY <1>1, <2>1, <2>2 DEF Among
<1> QED BY <1>1, <1>2, <1>3, <1>4

(* FlattenSeq keeps the items of the sequences it flattens, and adds none. *)
(* (That the function it is defined by exists, and what its values hold,   *)
(* is shown by the least index that would be an exception.)                *)
LEMMA Flattened ==
  ASSUME NEW T, NEW s \in Seq(Seq(T))
  PROVE  /\ FlattenSeq(s) \in Seq(T)
         /\ \A x : Among(x, FlattenSeq(s)) <=> \E j \in 1 .. Len(s) : Among(x, s[j])
<1> DEFINE N == Len(s)
<1>1. N \in Nat /\ \A i \in 1 .. N : s[i] \in Seq(T) OBVIOUS
<1>2. CASE N = 0
  <2>1. FlattenSeq(s) = s BY <1>2 DEF FlattenSeq
  <2>2. s = <<>> BY <1>2
  <2>3. \A x : ~ Among(x, s) BY <1>2 DEF Among
  <2> QED BY <1>2, <2>1, <2>2, <2>3
<1>3. CASE N # 0
  <2> DEFINE Joins(h, n) == \A i \in 1 .. n : h[i] = IF i = 1 THEN s[i] ELSE h[i - 1] \o s[i]
             Unroll(h) == [i \in 1 .. Len(s) |-> IF i = 1 THEN s[i] ELSE h[i - 1] \o s[i]]
             h == CHOOSE h : h = Unroll(h)
  <2>1. FlattenSeq(s) = h[N] BY <1>3 DEF FlattenSeq
  <2>2. \E d \in [1 .. N -> Seq(T)] : Joins(d, N)
    <3> DEFINE Bad == {n \in 0 .. N : ~ \E d \in [1 .. n -> Seq(T)] : Joins(d, n)}
    <3> SUFFICES ASSUME N \in Bad PROVE FALSE
      BY <1>1
    <3>1. PICK n \in Bad : \A m \in Bad : n <= m
      <4>1. Bad \subseteq 0 .. N OBVIOUS
      <4> HIDE DEF Bad, N
      <4>2. Bad \in SUBSET Nat /\ Bad # {} BY <1>1, <4>1
      <4> QED BY <4>2, Least
    <3>2. n # 0
      <4> SUFFICES ASSUME n = 0 PROVE FALSE OBVIOUS
      <4> DEFINE d == [i \in 1 .. n |-> <<>>]
      <4>1. 1 .. n = {} OBVIOUS
      <4>2. d \in [1 .. n -> Seq(T)] /\ Joins(d, n) BY <4>1
      <4> QED BY <4>2
    <3>3. n - 1 \in 0 .. N /\ n \in 1 .. N /\ n - 1 \notin Bad
      <4>1. n \in 0 .. N BY <3>1
      <4> HIDE DEF Bad, N
      <4>2. ~ n <= n - 1 /\ n - 1 \in 0 .. N /\ n \in 1 .. N BY <1>1, <3>2, <4>1
      <4> QED BY <3>1, <4>2
    <3>4. PICK d \in [1 .. n - 1 -> Seq(T)] : Joins(d, n - 1) BY <3>3
    <3> DEFINE last == IF n = 1 THEN s[n] ELSE d[n - 1] \o s[n]
               e == [i \in 1 .. n |-> IF i = n THEN last ELSE d[i]]
    <3>5. last \in Seq(T)
      <4>1. CASE n = 1 BY <1>1, <3>3, <4>1
      <4>2. CASE n # 1
        <5>1. n - 1 \in 1 .. n - 1 BY <3>3, <4>2
        <5>2. d[n - 1] \in Seq(T) /\ s[n] \in Seq(T) BY <1>1, <3>3, <5>1
        <5> QED BY <4>2, <5>2
      <4> QED BY <4>1, <4>2
    <3>6. e \in [1 .. n -> Seq(T)]
      <4>1. \A i \in 1 .. n : i # n => i \in 1 .. n - 1 BY <3>3
      <4> HIDE DEF last
      <4> QED BY <3>5, <4>1
    <3>7. ASSUME NEW i \in 1 .. n PROVE e[i] = IF i = 1 THEN s[i] ELSE e[i - 1] \o s[i]
      <4>1. CASE i = n
        <5>1. e[i] = last BY <4>1
        <5>2. n # 1 => e[n - 1] = d[n - 1] BY <3>3
        <5> QED BY <4>1, <5>1, <5>2
      <4>2. CASE i # n
        <5>1. i \in 1 .. n - 1 /\ e[i] = d[i] BY <3>3, <4>2
        <5>2. i # 1 => e[i - 1] = d[i - 1] BY <3>3, <4>2
        <5> QED BY <3>4, <5>1, <5>2
      <4> QED BY <4>1, <4>2
    <3> HIDE DEF e
    <3>8. \E dd \in [1 .. n -> Seq(T)] : Joins(dd, n) BY <3>6, <3>7
    <3> QED BY <3>1, <3>8
  <2>3. PICK d \in [1 .. N -> Seq(T)] : Joins(d, N) BY <2>2
  <2>4. d = Unroll(d) BY <2>3
  <2>5. h = Unroll(h)
    <3> HIDE DEF Unroll
    <3> QED BY <2>4
  <2> HIDE DEF h
  <2> DEFINE Good(i) == /\ h[i] \in Seq(T)
                        /\ \A x : Among(x, h[i]) <=> \E j \in 1 .. i : Among(x, s[j])
  <2>6. Good(N)
    <3> DEFINE Bad == {i \in 1 .. N : ~ Good(i)}
    <3> SUFFICES ASSUME N \in Bad PROVE FALSE
      BY <1>1, <1>3
    <3>1. PICK m \in Bad : \A n \in Bad : m <= n
      <4>1. Bad \subseteq 1 .. N OBVIOUS
      <4> HIDE DEF Bad, N
      <4>2. Bad \in SUBSET Nat /\ Bad # {} BY <1>1, <4>1
      <4> QED BY <4>2, Least
    <3>2. m \in 1 .. N /\ ~ Good(m) BY <3>1
    <3>3. CASE m = 1
      <4>1. h[1] = s[1] BY <2>5, <3>2, <3>3
      <4>2. \A x : Among(x, h[1]) <=> \E j \in 1 .. 1 : Among(x, s[j]) BY <4>1
      <4>3. h[1] \in Seq(T) BY <1>1, <3>2, <3>3, <4>1
      <4> QED BY <3>2, <3>3, <4>2, <4>3
    <3>4. CASE m # 1
      <4>1. m - 1 \in 1 .. N /\ m - 1 \notin Bad
        <5> HIDE DEF Bad, N, Good
        <5>1. ~ m <= m - 1 /\ m - 1 \in 1 .. N BY <1>1, <3>2, <3>4
        <5> QED BY <3>1, <5>1
      <4>2. Good(m - 1) BY <4>1
      <4>3. h[m] = h[m - 1] \o s[m] BY <2>5, <3>2, <3>4
      <4>4. h[m - 1] \in Seq(T) /\ s[m] \in Seq(T) BY <1>1, <3>2, <4>2
      <4>5. h[m] \in Seq(T) BY <4>3, <4>4
      <4>6. ASSUME NEW x
            PROVE Among(x, h[m]) <=> \E j \in 1 .. m : Among(x, s[j])
        <5>1. Among(x, h[m]) <=> Among(x, h[m - 1]) \/ Among(x, s[m])
          BY <4>3, <4>4, AmongConcat
        <5>2. Among(x, h[m - 1]) <=> \E j \in 1 .. m - 1 : Among(x, s[j]) BY <4>2
        <5>3. \A j : j \in 1 .. m <=> j \in 1 .. m - 1 \/ j = m BY <3>2
        <5> QED BY <5>1, <5>2, <5>3
      <4> QED BY <3>2, <4>5, <4>6
    <3> QED BY <3>3, <3>4
  <2> QED BY <2>1, <2>6
<1> QED BY <1>2, <1>3

-----------------------------------------------------------------------------
(* What a call that nobody disturbed has done when it returns, for any     *)
(* credentials it may begin with.                                          *)

(* Where an undisturbed call stands: s are the credentials it began with,  *)
(* k those of now, w its working copy, todo what it has left to do.        *)

(* It could not even read the capabilities. *)
NoMemory(ret, s, k) == AllocMayFail /\ ret = -1 /\ k = s

(* cap_setuid: keep-caps is set and cleared again, unless it is locked. *)
Kept(sec) == IF "KEEP_CAPS_LOCKED" \in sec THEN sec ELSE sec \cup {"KEEP_CAPS"}
Unkept(sec) == IF "KEEP_CAPS_LOCKED" \in sec THEN sec ELSE sec \ {"KEEP_CAPS"}

(* P and I are what they were or, if they cannot be kept, E is gone.  (If  *)
(* P is gone with it the last capset fails, but there is nothing to lower.)*)
Keeps(s, k) == (k.P = s.P /\ k.I = s.I) \/ (k.E = {} /\ CannotKeep(s.sec))

UidFollows(pc, ret, w, arg, s, k) ==
    /\ k.gid = s.gid /\ k.groups = s.groups
    /\ pc \in {"get_proc", "keep"} => k = s
    /\ pc \in {"keep", "raise", "setuid", "unkeep", "lower"} => w.P = s.P /\ w.I = s.I
    /\ pc \in {"raise", "setuid"} =>
          k.P = s.P /\ k.I = s.I /\ k.B = s.B /\ k.sec = Kept(s.sec)
    /\ pc = "unkeep" => k.B = s.B /\ k.sec = Kept(s.sec) /\ Keeps(s, k)
                        /\ (ret = 0 => k.uid = arg)
    /\ pc = "lower" => k.B = s.B /\ k.sec = Unkept(s.sec) /\ Keeps(s, k)
                       /\ (ret = 0 => k.uid = arg)
    /\ pc = "done" => \/ NoMemory(ret, s, k)
                      \/ /\ k.E = {} /\ k.B = s.B /\ k.sec = Unkept(s.sec)
                         /\ ret = 0 => k.uid = arg
                         /\ CannotKeep(s.sec) \/ (k.P = s.P /\ k.I = s.I)

(* cap_setgroups: k is s but for E, the gid and, on success, the groups. *)
GroupsAre(ret, arg, s, k) ==
    \E g \in IF ret = 0 THEN {arg} ELSE {s.gid, arg} :
        k = [s EXCEPT !.E = k.E, !.gid = g, !.groups = IF ret = 0 THEN arg ELSE @]

GroupsFollow(pc, ret, w, arg, s, k) ==
    /\ pc \in {"get_proc", "raise"} => k = s
    /\ pc \in {"raise", "setgid", "setgroups", "lower"} => w.P = s.P /\ w.I = s.I
    /\ pc = "setgid" => k = [s EXCEPT !.E = k.E]
    /\ pc = "setgroups" => k = [s EXCEPT !.E = k.E, !.gid = arg]
    /\ pc \in {"lower", "done"} => GroupsAre(ret, arg, s, k)
    /\ pc = "done" => k.E = {} \/ NoMemory(ret, s, k)

RootIs(ret, arg, s, k) == k = [s EXCEPT !.E = k.E, !.root = IF ret = 0 THEN arg ELSE @]

RootFollows(pc, ret, w, arg, s, k) ==
    /\ pc \in {"get_proc", "raise"} => k = s
    /\ pc \in {"raise", "chroot", "lower"} => w.P = s.P /\ w.I = s.I
    /\ pc = "chroot" => k = [s EXCEPT !.E = k.E]
    /\ pc \in {"lower", "done"} => RootIs(ret, arg, s, k)
    /\ pc = "done" => k.E = {} \/ NoMemory(ret, s, k)

(* cap_set_mode: between the raise and the lower CAP_SETPCAP is in effect, *)
(* and the working copy can always be set.  Every bit of the bounding set  *)
(* is among those still to be dropped.                                     *)
AmbientGone(arg, k) == arg # "HYBRID" /\ k.ambient => k.A = {}

ModeFollows(pc, ret, w, todo, arg, s, k) ==
    /\ pc \in {"get_proc", "raise"} => k = s
    /\ pc \in {"raise", "ambient", "clear_ambient", "secbits", "bounds", "nnp", "lower"} =>
          w.P \subseteq k.P /\ w.I \subseteq k.I
    /\ pc = "raise" => CAP_SETPCAP \in w.E
    /\ pc \in {"ambient", "clear_ambient", "secbits", "bounds", "nnp"} =>
          /\ CAP_SETPCAP \in k.E /\ arg # "UNCERTAIN"
          /\ arg \in {"NOPRIV", "PURE1E_INIT"} => w.I = {}
    /\ pc = "secbits" => AmbientGone(arg, k)
    /\ pc = "bounds" => /\ todo \in Seq({"bound"} \X Caps)
                        /\ \A x \in k.B : Among(<<"bound", x>>, todo)
    /\ pc = "nnp" => k.B = {} /\ w.P = {}
    /\ pc \in {"bounds", "nnp", "lower"} /\ ret = 0 =>
          /\ arg \in {"NOPRIV", "PURE1E_INIT", "PURE1E", "HYBRID"}
          /\ k.sec = ModeBits(arg, k) /\ AmbientGone(arg, k)
          /\ arg \in {"NOPRIV", "PURE1E_INIT"} => w.I = {}
    /\ pc \in {"bounds", "nnp"} => arg = "NOPRIV"
    /\ pc = "lower" /\ ret = 0 /\ arg = "NOPRIV" => k.B = {} /\ k.nnp /\ w.P = {}
    /\ pc = "done" => /\ k.E = {} \/ NoMemory(ret, s, k)
                      /\ ret = 0 => /\ cap_get_mode(k) \in Within[arg]
                                    /\ k.sec = ModeBits(arg, k)
                                    /\ arg = "NOPRIV" => k.nnp

(* cap_iab_set_proc: only bits of the tuple are to be raised or dropped,   *)
(* and those not done yet are all among them.                              *)
Items(arg) == {<<"ambient", x>> : x \in arg.a} \cup {<<"bound", x>> : x \in arg.nb}
AmbientLeft(todo, arg, done) == \A x \in arg.a \ done : Among(<<"ambient", x>>, todo)
BoundLeft(todo, arg, k) == \A x \in arg.nb \cap k.B : Among(<<"bound", x>>, todo)

IabContained(arg, s, k) ==
    /\ k.P = s.P /\ k.I \in {s.I, arg.i}
    /\ k.A \subseteq s.A \cup arg.a
    /\ s.B \ k.B \subseteq arg.nb
    /\ k.sec = s.sec

IabFollows(pc, ret, w, todo, arg, s, k) ==
    /\ pc \in {"get_proc", "iab_set", "iab_setpcap"} => k = s
    /\ pc \in {"iab_set", "iab_setpcap", "ambient", "clear_ambient", "vectors", "iab_restore"} =>
          w.P = s.P /\ w.E = s.E /\ w.I = arg.i
    /\ pc \in {"iab_set", "iab_setpcap", "ambient", "clear_ambient", "vectors"} =>
          todo \in Seq(Items(arg)) /\ BoundLeft(todo, arg, k)
    /\ pc \in {"iab_set", "iab_setpcap", "ambient", "clear_ambient"} => AmbientLeft(todo, arg, {})
    /\ pc \in {"ambient", "clear_ambient", "vectors", "iab_restore"} =>
          IabContained(arg, s, k) /\ k.I = arg.i
    /\ pc = "vectors" => k.A \subseteq arg.a /\ AmbientLeft(todo, arg, k.A)
    /\ pc \in {"iab_restore", "done"} /\ ret = 0 =>
          k.I = arg.i /\ k.A = arg.a /\ arg.nb \cap k.B = {}
    /\ pc = "done" => IabContained(arg, s, k) /\ k.E = s.E

Follows(op, pc, ret, w, todo, arg, s, k) ==
    /\ CredOK(s)
    /\ op = "setuid" => UidFollows(pc, ret, w, arg, s, k)
    /\ op = "setgroups" => GroupsFollow(pc, ret, w, arg, s, k)
    /\ op = "chroot" => RootFollows(pc, ret, w, arg, s, k)
    /\ op = "set_mode" => ModeFollows(pc, ret, w, todo, arg, s, k)
    /\ op = "iab_set_proc" => IabFollows(pc, ret, w, todo, arg, s, k)

Tracks(g, k) == g.clean /\ g.op # "none" =>
                    Follows(g.op, g.pc, g.ret, g.working, g.todo, g.arg, g.start, k)

Tracking == \A t \in Threads : Tracks(f(t), c(t))

-----------------------------------------------------------------------------
(* Steps                                                                   *)

(* What a thread does to its own process disturbs the calls of the others. *)
LEMMA BecomesTracks ==
  ASSUME CapInv, Tracking, NEW t \in Threads, NEW g, NEW k, Becomes(t, g, k), Tracks(g, k)
  PROVE  Tracking'
<1>1. Home \in [Threads -> Procs] /\ creds \in [Procs -> Cred] /\ Home[t] \in Procs
  BY CapProcAssumption DEF CapInv, TypeOK
<1>2. ASSUME NEW u \in Threads PROVE Tracks(frame'[u], creds'[Home[u]])
  <2>1. CASE u = t
    <3>1. frame'[u] = g /\ creds'[Home[u]] = k BY <1>1, <2>1 DEF Becomes
    <3> QED BY <3>1
  <2>2. CASE u # t /\ Home[u] = Home[t] /\ k # c(t)
    <3> DEFINE h == [f(u) EXCEPT !.clean = FALSE, !.start = NoCaps]
    <3>1. frame'[u] = h BY <1>1, <2>2 DEF Becomes
    <3>2. DOMAIN f(u) = DOMAIN Blank BY DEF CapInv, FrameOK
    <3>3. h.clean = FALSE BY <3>2 DEF Blank
    <3> QED BY <3>1, <3>3 DEF Tracks
  <2>3. CASE u # t /\ ~ (Home[u] = Home[t] /\ k # c(t))
    <3>1. frame'[u] = f(u) BY <1>1, <2>3 DEF Becomes
    <3>2. creds'[Home[u]] = c(u) BY <1>1, <2>3 DEF Becomes, c
    <3> QED BY <3>1, <3>2 DEF Tracking
  <2> QED BY <2>1, <2>2, <2>3
<1> QED BY <1>2 DEF Tracking, f, c

(* Whether t's call is one to follow, and that it then is followed with    *)
(* other values.                                                           *)
Followed(t) == f(t).clean /\ f(t).op # "none"
FollowsTo(t, p, r, w, s, k) == Followed(t) => Follows(f(t).op, p, r, w, s, f(t).arg, f(t).start, k)

(* A step within a call. *)
LEMMA MoveTracks ==
  ASSUME CapInv, Tracking, NEW t \in Threads, NEW p, NEW r, NEW w, NEW s, NEW k,
         Becomes(t, Moved(t, p, r, w, s), k), FollowsTo(t, p, r, w, s, k)
  PROVE  Tracking'
<1> DEFINE g == Moved(t, p, r, w, s)
<1>1. DOMAIN f(t) = DOMAIN Blank BY Here DEF FrameOK
<1>2. /\ g.pc = p /\ g.ret = r /\ g.working = w /\ g.todo = s
      /\ g.op = f(t).op /\ g.arg = f(t).arg /\ g.clean = f(t).clean /\ g.start = f(t).start
  BY <1>1 DEF Moved, Blank
<1>3. Becomes(t, g, k) OBVIOUS
<1> HIDE DEF g
<1>4. Tracks(g, k) BY <1>2 DEF Tracks, FollowsTo, Followed
<1> QED BY <1>3, <1>4, BecomesTracks

(* What is known of t and its process before a step of its call. *)
LEMMA Now ==
  ASSUME CapInv, Tracking, NEW t \in Threads
  PROVE  /\ CredOK(c(t)) /\ FrameOK(f(t)) /\ DOMAIN f(t) = DOMAIN Blank
         /\ f(t).working \in CapT
         /\ Followed(t) => Follows(f(t).op, f(t).pc, f(t).ret, f(t).working, f(t).todo,
                                   f(t).arg, f(t).start, c(t))
<1>1. CredOK(c(t)) /\ FrameOK(f(t)) BY Here
<1>2. Tracks(f(t), c(t)) BY DEF Tracking
<1> QED BY <1>1, <1>2 DEF FrameOK, Tracks, Followed

(* A call of several steps begins. *)
LEMMA FreshTracks ==
  ASSUME CapInv, NEW t \in Threads, NEW op, NEW arg, NEW p, op # "reset_ambient" => p = "get_proc"
  PROVE  LET g == [Fresh(t, op, arg) EXCEPT !.pc = p] IN
         /\ Tracks(g, c(t))
         /\ g.pc = p /\ g.op = op /\ g.arg = arg /\ g.start = c(t) /\ g.clean
         /\ g.n = f(t).n + 1
<1> DEFINE h == Fresh(t, op, arg)
           g == [h EXCEPT !.pc = p]
<1>1. /\ DOMAIN h = DOMAIN Blank /\ h.op = op /\ h.arg = arg /\ h.start = c(t)
      /\ h.clean = TRUE /\ h.n = f(t).n + 1
  BY DEF Fresh, Blank
<1> HIDE DEF h
<1>2. /\ g.pc = p /\ g.op = op /\ g.arg = arg /\ g.start = c(t) /\ g.clean = TRUE
      /\ g.n = f(t).n + 1
  BY <1>1 DEF Blank
<1> HIDE DEF g
<1>3. CredOK(c(t)) BY Here
<1>4. Tracks(g, c(t))
  BY <1>2, <1>3
     DEF Tracks, Follows, UidFollows, GroupsFollow, RootFollows, ModeFollows, IabFollows
<1> QED BY <1>2, <1>4 DEF g, h

(* A call begins; one that is a single system call is not followed.        *)
LEMMA TrackCall ==
  ASSUME CapInv, Tracking, NEW t \in Threads, CallSingle(t) \/ CallSteps(t)
  PROVE  Tracking'
<1>1. CASE CallSingle(t)
  <2>1. PICK call \in Calls :
          /\ call[1] \in Single
          /\ Becomes(t, [Fresh(t, call[1], call[2]) EXCEPT
                            !.ret = Ret(SingleOk(call[1], call[2], c(t)))],
                     SingleDo(call[1], call[2], c(t)))
    BY <1>1 DEF CallSingle
  <2> DEFINE r == Ret(SingleOk(call[1], call[2], c(t)))
             h == Fresh(t, call[1], call[2])
             g == [h EXCEPT !.ret = r]
             k == SingleDo(call[1], call[2], c(t))
  <2>2. Becomes(t, g, k) BY <2>1
  <2>3. DOMAIN h = DOMAIN Blank /\ h.op = call[1] /\ h.start = c(t) BY DEF Fresh, Blank
  <2> HIDE DEF h, r, k
  <2>4. g.op = call[1] /\ g.start = c(t) BY <2>3 DEF Blank
  <2> HIDE DEF g
  <2>5. CredOK(c(t)) BY Here
  <2>6. Tracks(g, k) BY <2>1, <2>4, <2>5 DEF Tracks, Follows, Single
  <2> QED BY <2>2, <2>6, BecomesTracks
<1>2. CASE CallSteps(t)
  <2>1. PICK call \in Calls :
          /\ call[1] \notin Single
          /\ Becomes(t, [Fresh(t, call[1], call[2]) EXCEPT
                            !.pc = IF call[1] = "reset_ambient" THEN "ambient"
                                   ELSE "get_proc"], c(t))
    BY <1>2 DEF CallSteps
  <2> DEFINE p == IF call[1] = "reset_ambient" THEN "ambient" ELSE "get_proc"
             g == [Fresh(t, call[1], call[2]) EXCEPT !.pc = p]
             k == c(t)
  <2>2. Becomes(t, g, k) BY <2>1
  <2>3. call[1] # "reset_ambient" => p = "get_proc" OBVIOUS
  <2> HIDE DEF p
  <2>4. Tracks(g, k) BY <2>3, FreshTracks
  <2> HIDE DEF g
  <2> QED BY <2>2, <2>4, BecomesTracks
<1> QED BY <1>1, <1>2

(* What capset(2) changes when it succeeds. *)
LEMMA CapsetSets ==
  ASSUME NEW k, CredOK(k), NEW w \in CapT, CapsetOk(k, w)
  PROVE  LET l == Capset(k, w) IN
         /\ CredOK(l)
         /\ l.P = w.P /\ l.E = w.E /\ l.I = w.I /\ l.A = k.A \cap w.P \cap w.I
         /\ l.B = k.B /\ l.sec = k.sec /\ l.nnp = k.nnp /\ l.uid = k.uid
         /\ l.gid = k.gid /\ l.groups = k.groups /\ l.ambient = k.ambient
         /\ w.P = k.P /\ w.I = k.I => l = [k EXCEPT !.E = w.E]
<1> DEFINE l == [k EXCEPT !.P = w.P, !.E = w.E, !.I = w.I, !.A = @ \cap w.P \cap w.I]
<1>1. Capset(k, w) = l BY DEF Capset
<1>2. CredOK(l) BY <1>1, CapsetLegal DEF Legal
<1>3. /\ l.P = w.P /\ l.E = w.E /\ l.I = w.I /\ l.A = k.A \cap w.P \cap w.I
      /\ l.B = k.B /\ l.sec = k.sec /\ l.nnp = k.nnp /\ l.uid = k.uid
      /\ l.gid = k.gid /\ l.groups = k.groups /\ l.ambient = k.ambient
  BY DEF CredOK, Cred
<1>4. ASSUME w.P = k.P, w.I = k.I PROVE l = [k EXCEPT !.E = w.E]
  <2>1. k.A \cap w.P \cap w.I = k.A BY <1>4 DEF CredOK
  <2> QED BY <1>4, <2>1 DEF CredOK, Cred
<1> HIDE DEF l
<1> QED BY <1>1, <1>2, <1>3, <1>4

(* Credentials are what they are. *)
LEMMA SameCred ==
  ASSUME NEW k, CredOK(k)
  PROVE  /\ k = [k EXCEPT !.E = k.E]
         /\ \A arg : GroupsAre(-1, arg, k, k) /\ RootIs(-1, arg, k, k)
<1>1. k = [k EXCEPT !.E = k.E] BY DEF CredOK, Cred
<1>2. k = [k EXCEPT !.E = k.E, !.gid = k.gid, !.groups = k.groups] BY DEF CredOK, Cred
<1>3. k = [k EXCEPT !.E = k.E, !.root = k.root] BY DEF CredOK, Cred
<1>4. ASSUME NEW arg PROVE GroupsAre(-1, arg, k, k)
  <2> DEFINE g == k.gid
  <2>1. k = [k EXCEPT !.E = k.E, !.gid = g, !.groups = IF -1 = 0 THEN arg ELSE @]
    BY <1>2
  <2>2. g \in IF -1 = 0 THEN {arg} ELSE {k.gid, arg} OBVIOUS
  <2> HIDE DEF g
  <2> QED BY <2>1, <2>2 DEF GroupsAre
<1>5. ASSUME NEW arg PROVE RootIs(-1, arg, k, k) BY <1>3 DEF RootIs
<1> QED BY <1>1, <1>4, <1>5

(* cap_get_proc and cap_dup, failing or not. *)
LEMMA TrackGetProc ==
  ASSUME CapInv, Tracking, NEW t \in Threads, GetProcFails(t) \/ GetProc(t)
  PROVE  Tracking'
<1> DEFINE k == c(t)
           op == f(t).op
           arg == f(t).arg
           s == f(t).start
           w == f(t).working
           todo == f(t).todo
<1>0. /\ CredOK(k) /\ FrameOK(f(t)) /\ DOMAIN f(t) = DOMAIN Blank /\ f(t).pc = "get_proc"
      /\ op \in Gives \cup {"iab_set_proc"}
      /\ Followed(t) => Follows(op, "get_proc", f(t).ret, w, todo, arg, s, k)
  BY Now DEF GetProcFails, GetProc, FrameOK, Passes
<1>1. CASE GetProcFails(t)
  <2>1. Becomes(t, Moved(t, "done", -1, w, todo), k)
    <3>1. [f(t) EXCEPT !.pc = "done", !.ret = -1] = Moved(t, "done", -1, w, todo)
      BY <1>0 DEF Moved, Blank
    <3> QED BY <1>1, <3>1 DEF GetProcFails
  <2>2. ASSUME Followed(t) PROVE Follows(op, "done", -1, w, todo, arg, s, k)
    <3>1. CredOK(s) /\ k = s
      BY <1>0, <2>2 DEF Follows, UidFollows, GroupsFollow, RootFollows, ModeFollows, IabFollows,
                        Gives, NeedsOf
    <3>2. NoMemory(-1, s, k) BY <1>1, <3>1 DEF NoMemory, GetProcFails
    <3>3. GroupsAre(-1, arg, s, k) /\ RootIs(-1, arg, s, k) BY <3>1, SameCred
    <3> HIDE DEF k, op, arg, s, w, todo
    <3>4. IabContained(arg, s, k) BY <3>1 DEF IabContained
    <3> QED BY <3>1, <3>2, <3>3, <3>4
            DEF Follows, UidFollows, GroupsFollow, RootFollows, ModeFollows, IabFollows
  <2>3. FollowsTo(t, "done", -1, w, todo, k) BY <2>2 DEF FollowsTo
  <2> HIDE DEF k, w, todo
  <2> QED BY <2>1, <2>3, MoveTracks
<1>2. CASE GetProc(t)
  <2> DEFINE p == IF op = "setuid" THEN "keep" ELSE "raise"
             v == Raised(t)
  <2>1. Becomes(t, Moved(t, p, f(t).ret, v, todo), k)
    <3>1. [f(t) EXCEPT !.working = v, !.pc = p] = Moved(t, p, f(t).ret, v, todo)
      <4> HIDE DEF p, v
      <4> QED BY <1>0 DEF Moved, Blank
    <3> QED BY <1>2, <3>1 DEF GetProc
  <2>2. op \in Gives BY <1>0, <1>2 DEF GetProc
  <2>3. v.P = k.P /\ v.I = k.I /\ (op = "set_mode" => CAP_SETPCAP \in v.E)
    BY DEF Raised, cap_get_proc, NeedsOf
  <2>4. ASSUME Followed(t) PROVE Follows(op, p, f(t).ret, v, todo, arg, s, k)
    <3>1. CredOK(s) /\ k = s
      BY <1>0, <2>2, <2>4 DEF Follows, UidFollows, GroupsFollow, RootFollows, ModeFollows,
                              Gives, NeedsOf
    <3>2. (op = "setuid" => p = "keep") /\ (op # "setuid" => p = "raise") OBVIOUS
    <3>3. op # "iab_set_proc" BY <2>2 DEF Gives, NeedsOf
    <3> HIDE DEF k, op, arg, s, v, p, todo
    <3> QED BY <2>3, <3>1, <3>2, <3>3
            DEF Follows, UidFollows, GroupsFollow, RootFollows, ModeFollows
  <2>5. FollowsTo(t, p, f(t).ret, v, todo, k) BY <2>4 DEF FollowsTo
  <2> HIDE DEF k, p, v, todo
  <2> QED BY <2>1, <2>5, MoveTracks
<1> QED BY <1>1, <1>2

(* The step after the capset that raises, mode by mode. *)
LEMMA AfterRaiseMode ==
  ASSUME NEW arg \in Modes, NEW k
  PROVE  LET p == AfterRaise("set_mode", arg, k) IN
         /\ p \in {"ambient", "secbits", "lower"}
         /\ p = "lower" <=> arg = "UNCERTAIN"
         /\ p = "secbits" => arg = "HYBRID" \/ ~ k.ambient
BY DEF AfterRaise, Modes

(* The capset that raises what the operation needs. *)
LEMMA TrackRaise ==
  ASSUME CapInv, Tracking, NEW t \in Threads, Raise(t)
  PROVE  Tracking'
<1> DEFINE k == c(t)
           op == f(t).op
           arg == f(t).arg
           s == f(t).start
           w == f(t).working
           todo == f(t).todo
<1>0. /\ CredOK(k) /\ FrameOK(f(t)) /\ DOMAIN f(t) = DOMAIN Blank /\ f(t).pc = "raise"
      /\ op \in Gives /\ w \in CapT
      /\ op = "set_mode" => arg \in Modes
      /\ Followed(t) => Follows(op, "raise", f(t).ret, w, todo, arg, s, k)
  BY Now DEF Raise, FrameOK, Passes, Args
<1>1. CASE CapsetOk(k, w)
  <2> DEFINE p == AfterRaise(op, arg, k)
             r == Ret(op = "set_mode" => arg # "UNCERTAIN")
             v == Disinherited(t)
             l == Capset(k, w)
  <2>1. Becomes(t, Moved(t, p, r, v, todo), l)
    <3>1. [f(t) EXCEPT !.pc = p, !.ret = r, !.working = v] = Moved(t, p, r, v, todo)
      <4> HIDE DEF p, r, v
      <4> QED BY <1>0 DEF Moved, Blank
    <3> QED BY <1>1, <3>1 DEF Raise
  <2>2. /\ CredOK(l) /\ l.P = w.P /\ l.E = w.E /\ l.I = w.I
        /\ l.B = k.B /\ l.sec = k.sec /\ l.ambient = k.ambient
        /\ l.gid = k.gid /\ l.groups = k.groups
        /\ w.P = k.P /\ w.I = k.I => l = [k EXCEPT !.E = w.E]
    BY <1>0, <1>1, CapsetSets
  <2>3. v.P = w.P /\ v.I \subseteq w.I /\ (op # "set_mode" => v = w)
        /\ (op = "set_mode" /\ arg \in {"NOPRIV", "PURE1E_INIT"} => v.I = {})
    BY <1>0 DEF Disinherited, CapT
  <2>4. r = -1 <=> op = "set_mode" /\ arg = "UNCERTAIN" BY DEF Ret
  <2>5. r \in {0, -1} BY DEF Ret
  <2>6. /\ op = "setuid" => p = "setuid"
        /\ op = "setgroups" => p = "setgid"
        /\ op = "chroot" => p = "chroot"
        /\ op = "set_mode" => /\ p \in {"ambient", "secbits", "lower"}
                              /\ p = "lower" <=> arg = "UNCERTAIN"
                              /\ p = "secbits" => arg = "HYBRID" \/ ~ k.ambient
    <3>1. CASE op # "set_mode" BY <1>0, <3>1 DEF AfterRaise
    <3>2. CASE op = "set_mode" BY <1>0, <3>2, AfterRaiseMode
    <3> QED BY <3>1, <3>2
  <2>7. ASSUME Followed(t) PROVE Follows(op, p, r, v, todo, arg, s, l)
    <3>0. CredOK(s) /\ Follows(op, "raise", f(t).ret, w, todo, arg, s, k)
      BY <1>0, <2>7 DEF Follows
    <3> HIDE DEF k, op, arg, s, v, w, p, r, l, todo
    <3>1. CASE op = "setuid"
      <4>1. UidFollows("setuid", r, v, arg, s, l)
        BY <2>2, <2>3, <3>0, <3>1 DEF Follows, UidFollows
      <4> QED BY <2>6, <3>0, <3>1, <4>1 DEF Follows
    <3>2. CASE op = "setgroups"
      <4>1. l = [s EXCEPT !.E = w.E] /\ l.E = w.E
        BY <2>2, <3>0, <3>2 DEF Follows, GroupsFollow
      <4>2. GroupsFollow("setgid", r, v, arg, s, l)
        BY <2>3, <3>0, <3>2, <4>1 DEF Follows, GroupsFollow
      <4> QED BY <2>6, <3>0, <3>2, <4>2 DEF Follows
    <3>3. CASE op = "chroot"
      <4>1. l = [s EXCEPT !.E = w.E] /\ l.E = w.E
        BY <2>2, <3>0, <3>3 DEF Follows, RootFollows
      <4>2. RootFollows("chroot", r, v, arg, s, l)
        BY <2>3, <3>0, <3>3, <4>1 DEF Follows, RootFollows
      <4> QED BY <2>6, <3>0, <3>3, <4>2 DEF Follows
    <3>4. CASE op = "set_mode"
      <4>1. ModeFollows("raise", f(t).ret, w, todo, arg, s, k) BY <3>0, <3>4 DEF Follows
      <4>2. CAP_SETPCAP \in l.E BY <2>2, <4>1 DEF ModeFollows
      <4>3. v.P \subseteq l.P /\ v.I \subseteq l.I BY <2>2, <2>3
      <4>4. p = "secbits" => AmbientGone(arg, l) BY <2>2, <2>6, <3>4 DEF AmbientGone
      <4>5. p = "lower" => r # 0 BY <2>4, <2>6, <3>4
      <4>6. ModeFollows(p, r, v, todo, arg, s, l)
        BY <2>3, <2>6, <3>4, <4>2, <4>3, <4>4, <4>5 DEF ModeFollows
      <4> QED BY <3>0, <3>4, <4>6 DEF Follows
    <3> QED BY <1>0, <3>1, <3>2, <3>3, <3>4 DEF Gives, NeedsOf
  <2>8. FollowsTo(t, p, r, v, todo, l) BY <2>7 DEF FollowsTo
  <2> HIDE DEF p, r, v, l, todo
  <2> QED BY <2>1, <2>8, MoveTracks
<1>2. CASE ~ CapsetOk(k, w)
  <2> DEFINE p == AfterFailedRaise(op)
  <2>1. Becomes(t, Moved(t, p, -1, w, todo), k)
    <3>1. [f(t) EXCEPT !.pc = p, !.ret = -1] = Moved(t, p, -1, w, todo)
      <4> HIDE DEF p
      <4> QED BY <1>0 DEF Moved, Blank
    <3> QED BY <1>2, <3>1 DEF Raise
  <2>2. (op = "setuid" => p = "unkeep") /\ (op # "setuid" => p = "lower")
    BY DEF AfterFailedRaise
  <2>3. ASSUME Followed(t) PROVE Follows(op, p, -1, w, todo, arg, s, k)
    <3>0. CredOK(s) /\ Follows(op, "raise", f(t).ret, w, todo, arg, s, k)
      BY <1>0, <2>3 DEF Follows
    <3>1. op # "iab_set_proc" BY <1>0 DEF Gives, NeedsOf
    <3>2. op \in {"setgroups", "chroot"} => k = s
      BY <3>0 DEF Follows, GroupsFollow, RootFollows
    <3>3. op \in {"setgroups", "chroot"} => GroupsAre(-1, arg, s, k) /\ RootIs(-1, arg, s, k)
      BY <3>0, <3>2, SameCred
    <3> HIDE DEF k, op, arg, s, w, p, todo
    <3>4. op = "setuid" => UidFollows(p, -1, w, arg, s, k)
      BY <2>2, <3>0 DEF Follows, UidFollows, Keeps
    <3>5. op = "setgroups" => GroupsFollow(p, -1, w, arg, s, k)
      BY <2>2, <3>0, <3>3 DEF Follows, GroupsFollow
    <3>6. op = "chroot" => RootFollows(p, -1, w, arg, s, k)
      BY <2>2, <3>0, <3>3 DEF Follows, RootFollows
    <3>7. op = "set_mode" => ModeFollows(p, -1, w, todo, arg, s, k)
      BY <2>2, <3>0 DEF Follows, ModeFollows
    <3> QED BY <3>0, <3>1, <3>4, <3>5, <3>6, <3>7 DEF Follows
  <2>4. FollowsTo(t, p, -1, w, todo, k) BY <2>3 DEF FollowsTo
  <2> HIDE DEF k, p, w, todo
  <2> QED BY <2>1, <2>4, MoveTracks
<1> QED BY <1>1, <1>2

(* The mode cap_get_mode answers with after the steps of cap_set_mode. *)
LEMMA ModeReached ==
  ASSUME NEW k, NEW arg \in {"NOPRIV", "PURE1E_INIT", "PURE1E", "HYBRID"},
         k.sec = ModeBits(arg, k), AmbientGone(arg, k),
         arg \in {"NOPRIV", "PURE1E_INIT"} => k.I = {},
         arg = "NOPRIV" => k.P = {} /\ k.E = {} /\ k.B = {}
  PROVE  cap_get_mode(k) \in Within[arg]
<1>1. CASE arg = "HYBRID" BY <1>1 DEF ModeBits, cap_get_mode, Within
<1>2. CASE arg # "HYBRID"
  <2>1. k.sec # {} /\ CAP_SECURED_BITS_BASIC \subseteq k.sec
    BY <1>2 DEF ModeBits, CAP_SECURED_BITS_AMBIENT, CAP_SECURED_BITS_BASIC
  <2>2. ~ (k.ambient /\ (k.A # {} \/ k.sec # CAP_SECURED_BITS_AMBIENT))
    BY <1>2 DEF ModeBits, AmbientGone
  <2>3. cap_get_mode(k) = IF k.I # {} THEN "PURE1E"
                          ELSE IF k.P # {} \/ k.E # {} \/ k.B # {} THEN "PURE1E_INIT"
                          ELSE "NOPRIV"
    BY <2>1, <2>2 DEF cap_get_mode
  <2> QED BY <1>2, <2>3 DEF Within
<1> QED BY <1>1, <1>2

(* The capset that lowers the Effective flag, where the calls return. *)
LEMMA TrackLower ==
  ASSUME CapInv, Tracking, NEW t \in Threads, Lower(t)
  PROVE  Tracking'
<1> DEFINE k == c(t)
           op == f(t).op
           arg == f(t).arg
           s == f(t).start
           w == f(t).working
           todo == f(t).todo
           v == [w EXCEPT !.E = {}]
           ok == CapsetOk(k, v)
           r == IF op = "set_mode" THEN Or(f(t).ret, Ret(ok)) ELSE f(t).ret
           l == Capset(k, v)
<1>0. /\ CredOK(k) /\ FrameOK(f(t)) /\ DOMAIN f(t) = DOMAIN Blank /\ f(t).pc = "lower"
      /\ op \in Gives /\ w \in CapT
      /\ Followed(t) => Follows(op, "lower", f(t).ret, w, todo, arg, s, k)
  BY Now DEF Lower, FrameOK, Passes
<1>1. Becomes(t, Moved(t, "done", r, w, todo), l)
  <2>1. [f(t) EXCEPT !.pc = "done", !.ret = r] = Moved(t, "done", r, w, todo)
    <3> HIDE DEF r
    <3> QED BY <1>0 DEF Moved, Blank
  <2>2. [f(t) EXCEPT !.pc = "done", !.ret = IF op = "set_mode" THEN Or(@, Ret(ok)) ELSE @]
          = [f(t) EXCEPT !.pc = "done", !.ret = r]
    BY <1>0 DEF Blank
  <2> QED BY <2>1, <2>2 DEF Lower
<1>2. v \in CapT /\ v.P = w.P /\ v.I = w.I /\ v.E = {} BY <1>0 DEF CapT
<1> HIDE DEF v
<1>3. w.P \subseteq k.P /\ w.I \subseteq k.I => ok BY <1>2 DEF CapsetOk
<1>4. ok => /\ CredOK(l) /\ l.P = v.P /\ l.E = v.E /\ l.I = v.I
            /\ l.A = k.A \cap v.P \cap v.I
            /\ l.B = k.B /\ l.sec = k.sec /\ l.ambient = k.ambient /\ l.uid = k.uid
            /\ l.gid = k.gid /\ l.groups = k.groups /\ l.nnp = k.nnp
            /\ v.P = k.P /\ v.I = k.I => l = [k EXCEPT !.E = v.E]
  BY <1>0, <1>2, CapsetSets
<1>5. ~ ok => l = k BY DEF Capset
<1>6. (op # "set_mode" => r = f(t).ret) /\ (op = "set_mode" /\ r = 0 => f(t).ret = 0)
  BY DEF Or
<1>7. ASSUME Followed(t) PROVE Follows(op, "done", r, w, todo, arg, s, l)
  <2>0. CredOK(s) /\ Follows(op, "lower", f(t).ret, w, todo, arg, s, k)
    BY <1>0, <1>7 DEF Follows
  <2> HIDE DEF k, op, arg, s, w, r, l, todo, ok
  <2>1. CASE op = "setuid"
    <3>0. UidFollows("lower", f(t).ret, w, arg, s, k) BY <2>0, <2>1 DEF Follows
    <3>1. ok \/ (k.E = {} /\ CannotKeep(s.sec)) BY <1>3, <3>0 DEF UidFollows, Keeps
    <3>2. CASE ok
      <4>1. UidFollows("done", r, w, arg, s, l)
        BY <1>2, <1>4, <1>6, <2>1, <3>0, <3>2 DEF UidFollows, Keeps
      <4> QED BY <2>0, <2>1, <4>1 DEF Follows
    <3>3. CASE ~ ok
      <4>1. UidFollows("done", r, w, arg, s, l)
        BY <1>5, <1>6, <2>1, <3>0, <3>1, <3>3 DEF UidFollows, Keeps
      <4> QED BY <2>0, <2>1, <4>1 DEF Follows
    <3> QED BY <3>2, <3>3
  <2>2. CASE op = "setgroups"
    <3>0. GroupsFollow("lower", f(t).ret, w, arg, s, k) BY <2>0, <2>2 DEF Follows
    <3>1. PICK g \in IF r = 0 THEN {arg} ELSE {s.gid, arg} :
             k = [s EXCEPT !.E = k.E, !.gid = g, !.groups = IF r = 0 THEN arg ELSE @]
      BY <1>6, <2>2, <3>0 DEF GroupsFollow, GroupsAre
    <3>2. s \in Cred BY <2>0 DEF CredOK
    <3> DEFINE q == IF r = 0 THEN arg ELSE s.groups
    <3>3. k = [s EXCEPT !.E = k.E, !.gid = g, !.groups = q] BY <3>1, <3>2 DEF Cred
    <3> HIDE DEF q
    <3>4. k.P = s.P /\ k.I = s.I BY <3>2, <3>3 DEF Cred
    <3>5. ok /\ l = [k EXCEPT !.E = {}] BY <1>2, <1>3, <1>4, <3>0, <3>4 DEF GroupsFollow
    <3>6. l = [s EXCEPT !.E = {}, !.gid = g, !.groups = q] BY <3>2, <3>3, <3>5 DEF Cred
    <3>7. l.E = {} BY <1>2, <1>4, <3>5
    <3>8. l = [s EXCEPT !.E = l.E, !.gid = g, !.groups = IF r = 0 THEN arg ELSE @]
      BY <3>2, <3>6, <3>7 DEF q, Cred
    <3>9. GroupsAre(r, arg, s, l) BY <3>8 DEF GroupsAre
    <3>10. GroupsFollow("done", r, w, arg, s, l) BY <3>7, <3>9 DEF GroupsFollow
    <3> QED BY <2>0, <2>2, <3>10 DEF Follows
  <2>3. CASE op = "chroot"
    <3>0. RootFollows("lower", f(t).ret, w, arg, s, k) BY <2>0, <2>3 DEF Follows
    <3>1. s \in Cred BY <2>0 DEF CredOK
    <3> DEFINE q == IF r = 0 THEN arg ELSE s.root
    <3>2. k = [s EXCEPT !.E = k.E, !.root = q]
      BY <1>6, <2>3, <3>0, <3>1 DEF RootFollows, RootIs, Cred
    <3> HIDE DEF q
    <3>3. k.P = s.P /\ k.I = s.I BY <3>1, <3>2 DEF Cred
    <3>4. ok /\ l = [k EXCEPT !.E = {}] BY <1>2, <1>3, <1>4, <3>0, <3>3 DEF RootFollows
    <3>5. l = [s EXCEPT !.E = {}, !.root = q] BY <3>1, <3>2, <3>4 DEF Cred
    <3>6. l.E = {} BY <1>2, <1>4, <3>4
    <3>7. RootIs(r, arg, s, l) BY <3>1, <3>5, <3>6 DEF RootIs, q, Cred
    <3>8. RootFollows("done", r, w, arg, s, l) BY <3>6, <3>7 DEF RootFollows
    <3> QED BY <2>0, <2>3, <3>8 DEF Follows
  <2>4. CASE op = "set_mode"
    <3>0. ModeFollows("lower", f(t).ret, w, todo, arg, s, k) BY <2>0, <2>4 DEF Follows
    <3>1. ok BY <1>3, <3>0 DEF ModeFollows
    <3>2. l.E = {} /\ l.P = w.P /\ l.I = w.I /\ l.A \subseteq k.A /\ l.B = k.B
          /\ l.sec = k.sec /\ l.ambient = k.ambient /\ l.nnp = k.nnp
      BY <1>2, <1>4, <3>1
    <3>3. ASSUME r = 0
          PROVE  /\ cap_get_mode(l) \in Within[arg] /\ l.sec = ModeBits(arg, l)
                 /\ arg = "NOPRIV" => l.nnp
      <4>1. /\ arg \in {"NOPRIV", "PURE1E_INIT", "PURE1E", "HYBRID"}
            /\ k.sec = ModeBits(arg, k) /\ AmbientGone(arg, k)
            /\ arg \in {"NOPRIV", "PURE1E_INIT"} => w.I = {}
            /\ arg = "NOPRIV" => k.B = {} /\ k.nnp /\ w.P = {}
        BY <1>6, <2>4, <3>0, <3>3 DEF ModeFollows
      <4>2. l.sec = ModeBits(arg, l) BY <3>2, <4>1 DEF ModeBits
      <4>3. AmbientGone(arg, l) BY <3>2, <4>1 DEF AmbientGone
      <4> QED BY <3>2, <4>1, <4>2, <4>3, ModeReached
    <3>4. ModeFollows("done", r, w, todo, arg, s, l) BY <3>2, <3>3 DEF ModeFollows
    <3> QED BY <2>0, <2>4, <3>4 DEF Follows
  <2> QED BY <1>0, <2>1, <2>2, <2>3, <2>4 DEF Gives, NeedsOf
<1>8. FollowsTo(t, "done", r, w, todo, l) BY <1>7 DEF FollowsTo
<1> HIDE DEF r, w, l, todo
<1> QED BY <1>1, <1>8, MoveTracks

(* Only the program point and the result change. *)
LEMMA MoveOnTracks ==
  ASSUME CapInv, Tracking, NEW t \in Threads, NEW p, NEW r, NEW k,
         Becomes(t, [f(t) EXCEPT !.pc = p, !.ret = r], k),
         FollowsTo(t, p, r, f(t).working, f(t).todo, k)
  PROVE  Tracking'
<1>1. DOMAIN f(t) = DOMAIN Blank BY Now
<1>2. [f(t) EXCEPT !.pc = p, !.ret = r] = Moved(t, p, r, f(t).working, f(t).todo)
  BY <1>1 DEF Moved, Blank
<1> QED BY <1>2, MoveTracks

(* Only the program point changes. *)
LEMMA MovePcTracks ==
  ASSUME CapInv, Tracking, NEW t \in Threads, NEW p, NEW k,
         Becomes(t, [f(t) EXCEPT !.pc = p], k),
         FollowsTo(t, p, f(t).ret, f(t).working, f(t).todo, k)
  PROVE  Tracking'
<1>1. DOMAIN f(t) = DOMAIN Blank BY Now
<1>2. [f(t) EXCEPT !.pc = p] = [f(t) EXCEPT !.pc = p, !.ret = f(t).ret] BY <1>1 DEF Blank
<1> QED BY <1>2, MoveOnTracks

(* What setuid(2) leaves. *)
LEMMA SetuidSets ==
  ASSUME NEW k, CredOK(k), NEW u \in Uids
  PROVE  LET l == Setuid(k, u) IN
         /\ l.B = k.B /\ l.sec = k.sec /\ l.I = k.I
         /\ l.gid = k.gid /\ l.groups = k.groups
         /\ SetuidOk(k, u) => l.uid = u
         /\ l.P = k.P \/ (l.E = {} /\ k.sec \cap {"KEEP_CAPS", "NO_SETUID_FIXUP"} = {})
<1> DEFINE x == Fixup(k, u)
<1>1. /\ x \in Cred /\ x.B = k.B /\ x.sec = k.sec /\ x.I = k.I
      /\ x.gid = k.gid /\ x.groups = k.groups
      /\ x.P = k.P \/ (x.E = {} /\ k.sec \cap {"KEEP_CAPS", "NO_SETUID_FIXUP"} = {})
  <2>0. k \in Cred BY DEF CredOK
  <2> DEFINE p == IF "KEEP_CAPS" \in k.sec THEN k.P ELSE {}
             a == [k EXCEPT !.P = p, !.E = {}, !.A = {}]
             b == [k EXCEPT !.E = k.P]
  <2>1. p \in SUBSET Caps /\ ("KEEP_CAPS" \in k.sec => p = k.P) BY <2>0 DEF Cred
  <2> HIDE DEF p
  <2>2. /\ a \in Cred /\ a.B = k.B /\ a.sec = k.sec /\ a.I = k.I /\ a.P = p /\ a.E = {}
        /\ a.gid = k.gid /\ a.groups = k.groups
        /\ b \in Cred /\ b.B = k.B /\ b.sec = k.sec /\ b.I = k.I /\ b.P = k.P
        /\ b.gid = k.gid /\ b.groups = k.groups
    BY <2>0, <2>1 DEF Cred
  <2>3. CASE "NO_SETUID_FIXUP" \in k.sec BY <2>0, <2>3 DEF Fixup
  <2>4. CASE "NO_SETUID_FIXUP" \notin k.sec /\ k.uid = 0 /\ u # 0
    <3>1. x = a BY <2>4 DEF Fixup, p
    <3> HIDE DEF x, a
    <3> QED BY <2>1, <2>2, <2>4, <3>1
  <2>5. CASE "NO_SETUID_FIXUP" \notin k.sec /\ k.uid # 0 /\ u = 0
    <3>1. x = b BY <2>5 DEF Fixup
    <3> HIDE DEF x, b
    <3> QED BY <2>2, <3>1
  <2>6. CASE "NO_SETUID_FIXUP" \notin k.sec /\ (k.uid = 0 <=> u = 0)
    <3>1. x = k BY <2>6 DEF Fixup
    <3> QED BY <2>0, <3>1
  <2> QED BY <2>3, <2>4, <2>5, <2>6
<1>2. CASE SetuidOk(k, u)
  <2>1. Setuid(k, u) = [x EXCEPT !.uid = u] BY <1>2 DEF Setuid
  <2> HIDE DEF x
  <2> QED BY <1>1, <2>1 DEF Cred
<1>3. CASE ~ SetuidOk(k, u)
  <2>1. Setuid(k, u) = k BY <1>3 DEF Setuid
  <2> QED BY <1>3, <2>1
<1> QED BY <1>2, <1>3

(* What PR_SET_KEEPCAPS leaves. *)
LEMMA KeepCapsSets ==
  ASSUME NEW k, CredOK(k), NEW on \in BOOLEAN
  PROVE  LET l == SetKeepCaps(k, on) IN
         /\ l.P = k.P /\ l.E = k.E /\ l.I = k.I /\ l.B = k.B /\ l.uid = k.uid
         /\ l.gid = k.gid /\ l.groups = k.groups
         /\ l.sec = IF on THEN Kept(k.sec) ELSE Unkept(k.sec)
<1> DEFINE x == IF on THEN k.sec \cup {"KEEP_CAPS"} ELSE k.sec \ {"KEEP_CAPS"}
<1>1. CASE "KEEP_CAPS_LOCKED" \in k.sec BY <1>1 DEF SetKeepCaps, Kept, Unkept
<1>2. CASE "KEEP_CAPS_LOCKED" \notin k.sec
  <2>1. x = IF on THEN Kept(k.sec) ELSE Unkept(k.sec) BY <1>2 DEF Kept, Unkept
  <2>2. SetKeepCaps(k, on) = [k EXCEPT !.sec = x] BY <1>2 DEF SetKeepCaps
  <2> HIDE DEF x
  <2> QED BY <2>1, <2>2 DEF CredOK, Cred
<1> QED BY <1>1, <1>2

(* The three system calls of cap_setuid. *)
LEMMA TrackSetuid ==
  ASSUME CapInv, Tracking, NEW t \in Threads, KeepCaps(t) \/ DoSetuid(t) \/ UnkeepCaps(t)
  PROVE  Tracking'
<1> DEFINE k == c(t)
           arg == f(t).arg
           s == f(t).start
           w == f(t).working
<1>0. /\ CredOK(k) /\ f(t).op = "setuid" /\ arg \in Uids
      /\ Followed(t) => CredOK(s) /\ UidFollows(f(t).pc, f(t).ret, w, arg, s, k)
  <2>1. f(t).op = "setuid" BY DEF KeepCaps, DoSetuid, UnkeepCaps, At
  <2>2. arg \in Uids BY <2>1, Now DEF FrameOK, Args
  <2> QED BY <2>1, <2>2, Now DEF Follows
<1>1. \A p, r, l : (Followed(t) => UidFollows(p, r, w, arg, s, l))
                      => FollowsTo(t, p, r, w, f(t).todo, l)
  BY <1>0 DEF FollowsTo, Follows
<1>2. CASE KeepCaps(t)
  <2> DEFINE l == SetKeepCaps(k, TRUE)
  <2>1. /\ l.P = k.P /\ l.I = k.I /\ l.B = k.B /\ l.sec = Kept(k.sec)
        /\ l.gid = k.gid /\ l.groups = k.groups
    BY <1>0, KeepCapsSets
  <2>2. f(t).pc = "keep" /\ Becomes(t, [f(t) EXCEPT !.pc = "raise"], l)
    BY <1>2 DEF KeepCaps, At
  <2> HIDE DEF k, arg, s, w, l
  <2>3. Followed(t) => UidFollows("raise", f(t).ret, w, arg, s, l)
    BY <1>0, <2>1, <2>2 DEF UidFollows
  <2> QED BY <1>1, <2>2, <2>3, MovePcTracks DEF w
<1>3. CASE DoSetuid(t)
  <2> DEFINE l == Setuid(k, arg)
             r == Ret(SetuidOk(k, arg))
  <2>1. /\ l.B = k.B /\ l.sec = k.sec /\ l.I = k.I
        /\ l.gid = k.gid /\ l.groups = k.groups
        /\ SetuidOk(k, arg) => l.uid = arg
        /\ l.P = k.P \/ (l.E = {} /\ k.sec \cap {"KEEP_CAPS", "NO_SETUID_FIXUP"} = {})
    BY <1>0, SetuidSets
  <2>2. r = 0 => SetuidOk(k, arg) BY DEF Ret
  <2>3. f(t).pc = "setuid" /\ Becomes(t, [f(t) EXCEPT !.pc = "unkeep", !.ret = r], l)
    BY <1>3 DEF DoSetuid, At
  <2> HIDE DEF k, arg, s, w, l, r
  <2>4. ASSUME Followed(t) PROVE UidFollows("unkeep", r, w, arg, s, l)
    <3>1. UidFollows("setuid", f(t).ret, w, arg, s, k) BY <1>0, <2>3, <2>4
    <3>2. k.sec \cap {"KEEP_CAPS", "NO_SETUID_FIXUP"} = {} => CannotKeep(s.sec)
      BY <3>1 DEF UidFollows, Kept, CannotKeep
    <3>3. Keeps(s, l) BY <2>1, <3>1, <3>2 DEF UidFollows, Keeps
    <3> QED BY <2>1, <2>2, <3>1, <3>3 DEF UidFollows
  <2> QED BY <1>1, <2>3, <2>4, MoveOnTracks DEF w
<1>4. CASE UnkeepCaps(t)
  <2> DEFINE l == SetKeepCaps(k, FALSE)
  <2>1. /\ l.P = k.P /\ l.E = k.E /\ l.I = k.I /\ l.B = k.B /\ l.uid = k.uid
        /\ l.sec = Unkept(k.sec) /\ l.gid = k.gid /\ l.groups = k.groups
    BY <1>0, KeepCapsSets
  <2>2. f(t).pc = "unkeep" /\ Becomes(t, [f(t) EXCEPT !.pc = "lower"], l)
    BY <1>4 DEF UnkeepCaps, At
  <2> HIDE DEF k, arg, s, w, l
  <2>3. ASSUME Followed(t) PROVE UidFollows("lower", f(t).ret, w, arg, s, l)
    <3>1. UidFollows("unkeep", f(t).ret, w, arg, s, k) BY <1>0, <2>2, <2>3
    <3>2. Unkept(k.sec) = Unkept(s.sec) BY <3>1 DEF UidFollows, Kept, Unkept
    <3>3. Keeps(s, l) BY <2>1, <3>1 DEF UidFollows, Keeps
    <3> QED BY <2>1, <3>1, <3>2, <3>3 DEF UidFollows
  <2> QED BY <1>1, <2>2, <2>3, MovePcTracks DEF w
<1> QED BY <1>2, <1>3, <1>4

(* The system calls of cap_setgroups. *)
LEMMA TrackGroups ==
  ASSUME CapInv, Tracking, NEW t \in Threads, DoSetgid(t) \/ DoSetgroups(t)
  PROVE  Tracking'
<1> DEFINE k == c(t)
           arg == f(t).arg
           s == f(t).start
           w == f(t).working
<1>0. /\ CredOK(k) /\ f(t).op = "setgroups" /\ arg \in Gids
      /\ Followed(t) => CredOK(s) /\ GroupsFollow(f(t).pc, f(t).ret, w, arg, s, k)
  BY Now DEF DoSetgid, DoSetgroups, At, FrameOK, Args, Follows
<1>1. \A p, r, l : (Followed(t) => GroupsFollow(p, r, w, arg, s, l))
                      => FollowsTo(t, p, r, w, f(t).todo, l)
  BY <1>0 DEF FollowsTo, Follows
<1>2. CASE DoSetgid(t)
  <2> DEFINE l == Setgid(k, arg)
             ok == SetgidOk(k, arg)
             r == Ret(ok)
             p == IF ok THEN "setgroups" ELSE "lower"
  <2>1. f(t).pc = "setgid" /\ Becomes(t, [f(t) EXCEPT !.pc = p, !.ret = r], l)
    BY <1>2 DEF DoSetgid, At
  <2>2. /\ ok => l = [k EXCEPT !.gid = arg] /\ p = "setgroups" /\ r = 0
        /\ ~ ok => l = k /\ p = "lower" /\ r = -1
    BY DEF Setgid, Ret
  <2> HIDE DEF k, arg, s, w, l, r, p, ok
  <2>3. ASSUME Followed(t) PROVE GroupsFollow(p, r, w, arg, s, l)
    <3>1. k = [s EXCEPT !.E = k.E] /\ w.P = s.P /\ w.I = s.I /\ s \in Cred
      BY <1>0, <2>1, <2>3 DEF GroupsFollow, CredOK
    <3>2. CASE ok
      <4>1. l = [s EXCEPT !.E = k.E, !.gid = arg] BY <2>2, <3>1, <3>2 DEF Cred
      <4>2. l.E = k.E BY <3>1, <4>1 DEF Cred
      <4> QED BY <2>2, <3>1, <3>2, <4>1, <4>2 DEF GroupsFollow
    <3>3. CASE ~ ok
      <4> DEFINE g == s.gid
      <4>1. l = [s EXCEPT !.E = l.E, !.gid = g, !.groups = s.groups]
        BY <2>2, <3>1, <3>3 DEF Cred
      <4>2. l = [s EXCEPT !.E = l.E, !.gid = g, !.groups = IF r = 0 THEN arg ELSE @]
        BY <2>2, <3>3, <4>1
      <4>3. g \in IF r = 0 THEN {arg} ELSE {s.gid, arg} BY <2>2, <3>3
      <4> HIDE DEF g
      <4>4. GroupsAre(r, arg, s, l) BY <4>2, <4>3 DEF GroupsAre
      <4> QED BY <2>2, <3>1, <3>3, <4>4 DEF GroupsFollow
    <3> QED BY <3>2, <3>3
  <2> QED BY <1>1, <2>1, <2>3, MoveOnTracks DEF w
<1>3. CASE DoSetgroups(t)
  <2> DEFINE l == Setgroups(k, arg)
             ok == SetgroupsOk(k)
             r == Ret(ok)
  <2>1. f(t).pc = "setgroups" /\ Becomes(t, [f(t) EXCEPT !.pc = "lower", !.ret = r], l)
    BY <1>3 DEF DoSetgroups, At
  <2>2. /\ ok => l = [k EXCEPT !.groups = arg] /\ r = 0
        /\ ~ ok => l = k /\ r = -1
    BY DEF Setgroups, Ret
  <2> HIDE DEF k, arg, s, w, l, r, ok
  <2>3. ASSUME Followed(t) PROVE GroupsFollow("lower", r, w, arg, s, l)
    <3>1. k = [s EXCEPT !.E = k.E, !.gid = arg] /\ w.P = s.P /\ w.I = s.I /\ s \in Cred
      BY <1>0, <2>1, <2>3 DEF GroupsFollow, CredOK
    <3>2. l = [s EXCEPT !.E = l.E, !.gid = arg, !.groups = IF r = 0 THEN arg ELSE @]
      <4>1. CASE ok
        <5>1. l = [s EXCEPT !.E = k.E, !.gid = arg, !.groups = arg]
          BY <2>2, <3>1, <4>1 DEF Cred
        <5>2. l.E = k.E BY <3>1, <5>1 DEF Cred
        <5> QED BY <2>2, <4>1, <5>1, <5>2
      <4>2. CASE ~ ok
        <5>1. l = [s EXCEPT !.E = l.E, !.gid = arg, !.groups = s.groups]
          BY <2>2, <3>1, <4>2 DEF Cred
        <5> QED BY <2>2, <4>2, <5>1
      <4> QED BY <4>1, <4>2
    <3>3. GroupsAre(r, arg, s, l) BY <3>2 DEF GroupsAre
    <3> QED BY <3>1, <3>3 DEF GroupsFollow
  <2> QED BY <1>1, <2>1, <2>3, MoveOnTracks DEF w
<1> QED BY <1>2, <1>3

(* chroot(2), for the launch of a program. *)
LEMMA TrackChroot ==
  ASSUME CapInv, Tracking, NEW t \in Threads, DoChroot(t)
  PROVE  Tracking'
<1> DEFINE k == c(t)
           arg == f(t).arg
           s == f(t).start
           w == f(t).working
<1>0. /\ CredOK(k) /\ f(t).op = "chroot" /\ f(t).pc = "chroot"
      /\ Followed(t) => CredOK(s) /\ RootFollows(f(t).pc, f(t).ret, w, arg, s, k)
  BY Now DEF DoChroot, At, FrameOK, Follows
<1>1. \A p, r, l : (Followed(t) => RootFollows(p, r, w, arg, s, l))
                      => FollowsTo(t, p, r, w, f(t).todo, l)
  BY <1>0 DEF FollowsTo, Follows
<1> DEFINE ok == ChrootOk(k)
           l == Chroot(k, arg)
           r == Ret(ok)
<1>2. \/ Becomes(t, [f(t) EXCEPT !.pc = "lower", !.ret = r], l)
      \/ Becomes(t, [f(t) EXCEPT !.pc = "lower", !.ret = -1], k)
  BY DEF DoChroot
<1>3. /\ ok => l = [k EXCEPT !.root = arg] /\ r = 0
      /\ ~ ok => l = k /\ r = -1
  BY DEF Chroot, Ret
<1> HIDE DEF k, arg, s, w, l, r, ok
<1>4. ASSUME Followed(t)
      PROVE RootFollows("lower", r, w, arg, s, l) /\ RootFollows("lower", -1, w, arg, s, k)
  <2>1. k = [s EXCEPT !.E = k.E] /\ w.P = s.P /\ w.I = s.I /\ s \in Cred
    BY <1>0, <1>4 DEF RootFollows, CredOK
  <2>2. k = [s EXCEPT !.E = k.E, !.root = s.root] BY <2>1 DEF Cred
  <2>3. RootIs(-1, arg, s, k) BY <2>2 DEF RootIs
  <2>4. RootIs(r, arg, s, l)
    <3>1. CASE ok
      <4>1. l = [s EXCEPT !.E = k.E, !.root = arg] BY <1>3, <2>1, <3>1 DEF Cred
      <4>2. l.E = k.E BY <2>1, <4>1 DEF Cred
      <4> QED BY <1>3, <3>1, <4>1, <4>2 DEF RootIs
    <3>2. CASE ~ ok BY <1>3, <2>3, <3>2
    <3> QED BY <3>1, <3>2
  <2> QED BY <2>1, <2>3, <2>4 DEF RootFollows
<1> QED BY <1>1, <1>2, <1>4, MoveOnTracks DEF w

(* _cap_reset_ambient within cap_set_mode and cap_iab_set_proc. *)
LEMMA TrackAmbient ==
  ASSUME CapInv, Tracking, NEW t \in Threads, ReadAmbient(t) \/ ResetAmbient(t)
  PROVE  Tracking'
<1> DEFINE k == c(t)
           op == f(t).op
           arg == f(t).arg
           s == f(t).start
           w == f(t).working
           todo == f(t).todo
           after == AfterAmbient(op)
<1>0. /\ CredOK(k) /\ f(t).pc \in {"ambient", "clear_ambient"}
      /\ op \in {"set_mode", "iab_set_proc", "reset_ambient"}
      /\ Followed(t) => Follows(op, f(t).pc, f(t).ret, w, todo, arg, s, k)
  BY Now DEF ReadAmbient, ResetAmbient, FrameOK, Passes
<1>1. (op = "set_mode" => after = "secbits") /\ (op = "iab_set_proc" => after = "vectors")
  BY DEF AfterAmbient
<1>2. ASSUME Followed(t), NEW l, l.A = {}, l = [k EXCEPT !.A = {}]
      PROVE Follows(op, after, f(t).ret, w, todo, arg, s, l)
  <2>0. Follows(op, f(t).pc, f(t).ret, w, todo, arg, s, k) BY <1>0, <1>2
  <2>1. /\ l.P = k.P /\ l.E = k.E /\ l.I = k.I /\ l.B = k.B /\ l.sec = k.sec
        /\ l.ambient = k.ambient
    BY <1>0, <1>2 DEF CredOK, Cred
  <2> HIDE DEF k, op, arg, s, w, todo, after
  <2>2. CASE op = "set_mode"
    <3>1. ModeFollows(f(t).pc, f(t).ret, w, todo, arg, s, k) BY <2>0, <2>2 DEF Follows
    <3>2. ModeFollows("secbits", f(t).ret, w, todo, arg, s, l)
      BY <1>0, <1>2, <2>1, <3>1 DEF ModeFollows, AmbientGone
    <3> QED BY <1>1, <2>0, <2>2, <3>2 DEF Follows
  <2>3. CASE op = "iab_set_proc"
    <3>1. IabFollows(f(t).pc, f(t).ret, w, todo, arg, s, k) BY <2>0, <2>3 DEF Follows
    <3>2. IabContained(arg, s, l) BY <1>0, <1>2, <2>1, <3>1 DEF IabFollows, IabContained
    <3>3. BoundLeft(todo, arg, l) BY <1>0, <2>1, <3>1 DEF IabFollows, BoundLeft
    <3>4. AmbientLeft(todo, arg, l.A) BY <1>0, <1>2, <3>1 DEF IabFollows
    <3>5. IabFollows("vectors", f(t).ret, w, todo, arg, s, l)
      BY <1>0, <1>2, <2>1, <3>1, <3>2, <3>3, <3>4 DEF IabFollows
    <3> QED BY <1>1, <2>0, <2>3, <3>5 DEF Follows
  <2>4. CASE op = "reset_ambient" BY <2>0, <2>4 DEF Follows
  <2> QED BY <1>0, <2>2, <2>3, <2>4
<1>3. CASE ReadAmbient(t) /\ k.A = {}
  <2>1. Becomes(t, [f(t) EXCEPT !.pc = after], k) BY <1>3 DEF ReadAmbient, Goes
  <2>2. k = [k EXCEPT !.A = {}] BY <1>0, <1>3 DEF CredOK, Cred
  <2>3. FollowsTo(t, after, f(t).ret, w, todo, k) BY <1>2, <1>3, <2>2 DEF FollowsTo
  <2> HIDE DEF after, k
  <2> QED BY <2>1, <2>3, MovePcTracks
<1>4. CASE ReadAmbient(t) /\ k.A # {}
  <2>1. f(t).pc = "ambient" /\ Becomes(t, [f(t) EXCEPT !.pc = "clear_ambient"], k)
    BY <1>4 DEF ReadAmbient, Goes
  <2>2. ASSUME Followed(t) PROVE Follows(op, "clear_ambient", f(t).ret, w, todo, arg, s, k)
    <3>1. Follows(op, "ambient", f(t).ret, w, todo, arg, s, k) BY <1>0, <2>1, <2>2
    <3> HIDE DEF k, op, arg, s, w, todo
    <3>2. op \in {"set_mode", "iab_set_proc", "reset_ambient"} BY <1>0
    <3>3. op = "set_mode" => ModeFollows("clear_ambient", f(t).ret, w, todo, arg, s, k)
      BY <3>1 DEF Follows, ModeFollows
    <3>4. op = "iab_set_proc" => IabFollows("clear_ambient", f(t).ret, w, todo, arg, s, k)
      BY <3>1 DEF Follows, IabFollows
    <3> QED BY <3>1, <3>2, <3>3, <3>4 DEF Follows
  <2>3. FollowsTo(t, "clear_ambient", f(t).ret, w, todo, k) BY <2>2 DEF FollowsTo
  <2> HIDE DEF k
  <2> QED BY <2>1, <2>3, MovePcTracks
<1>5. CASE ResetAmbient(t)
  <2> DEFINE l == ClearAmbient(k)
  <2>1. Becomes(t, [f(t) EXCEPT !.pc = after], l) BY <1>5 DEF ResetAmbient
  <2>2. l = [k EXCEPT !.A = {}] BY DEF ClearAmbient
  <2>3. l.A = {} BY <1>0, <2>2 DEF CredOK, Cred
  <2> HIDE DEF l
  <2>4. FollowsTo(t, after, f(t).ret, w, todo, l) BY <1>2, <2>2, <2>3 DEF FollowsTo
  <2> HIDE DEF after
  <2> QED BY <2>1, <2>4, MovePcTracks
<1> QED BY <1>3, <1>4, <1>5

(* The items of a sequence are those of its tail and its head. *)
LEMMA AmongTail ==
  ASSUME NEW T, NEW s \in Seq(T), s # <<>>
  PROVE  /\ Tail(s) \in Seq(T) /\ Head(s) \in T
         /\ \A x : Among(x, s) => x = Head(s) \/ Among(x, Tail(s))
<1>1. /\ Len(s) \in Nat \ {0} /\ Tail(s) \in Seq(T) /\ Head(s) = s[1] /\ Head(s) \in T
      /\ Len(Tail(s)) = Len(s) - 1
      /\ \A i \in 1 .. Len(s) - 1 : Tail(s)[i] = s[i + 1]
  OBVIOUS
<1>2. ASSUME NEW x, Among(x, s), x # Head(s) PROVE Among(x, Tail(s))
  <2>1. PICK i \in 1 .. Len(s) : s[i] = x BY <1>2 DEF Among
  <2>2. i - 1 \in 1 .. Len(s) - 1 /\ (i - 1) + 1 = i BY <1>1, <1>2, <2>1
  <2>3. Tail(s)[i - 1] = x BY <1>1, <2>1, <2>2
  <2> QED BY <1>1, <2>2, <2>3 DEF Among
<1> QED BY <1>1, <1>2

(* The bounding set as a whole is to be dropped. *)
LEMMA AllBitsHasAll ==
  /\ AllBits \in Seq({"bound"} \X Caps)
  /\ \A x \in Caps : Among(<<"bound", x>>, AllBits)
<1>1. MaxBits \in Nat \ {0} BY CredsAssumption
<1>2. \A j \in 1 .. MaxBits : j - 1 \in Caps BY <1>1 DEF Caps
<1>3. AllBits \in [1 .. MaxBits -> {"bound"} \X Caps] BY <1>1, <1>2 DEF AllBits
<1>4. AllBits \in Seq({"bound"} \X Caps) /\ Len(AllBits) = MaxBits BY <1>1, <1>3
<1>5. ASSUME NEW x \in Caps PROVE Among(<<"bound", x>>, AllBits)
  <2>1. x + 1 \in 1 .. MaxBits /\ (x + 1) - 1 = x BY <1>1 DEF Caps
  <2>2. AllBits[x + 1] = <<"bound", x>> BY <2>1 DEF AllBits
  <2> QED BY <1>4, <2>1, <2>2 DEF Among
<1> QED BY <1>4, <1>5

(* The steps of _cap_set_mode between its raise and its lower. *)
LEMMA TrackMode ==
  ASSUME CapInv, Tracking, NEW t \in Threads,
         SetModeSecbits(t) \/ DropBounds(t) \/ NoNewPrivs(t)
  PROVE  Tracking'
<1> DEFINE k == c(t)
           arg == f(t).arg
           s == f(t).start
           w == f(t).working
           todo == f(t).todo
<1>0. /\ CredOK(k) /\ DOMAIN f(t) = DOMAIN Blank /\ f(t).op = "set_mode"
      /\ arg \in Modes /\ w \in CapT
      /\ Followed(t) => CredOK(s) /\ ModeFollows(f(t).pc, f(t).ret, w, todo, arg, s, k)
  <2>1. f(t).op = "set_mode" BY DEF SetModeSecbits, DropBounds, NoNewPrivs, At
  <2>2. arg \in Modes BY <2>1, Now DEF FrameOK, Args
  <2> QED BY <2>1, <2>2, Now DEF Follows
<1>1. \A p, r, v, z, l : (Followed(t) => ModeFollows(p, r, v, z, arg, s, l))
                            => FollowsTo(t, p, r, v, z, l)
  BY <1>0 DEF FollowsTo, Follows
<1>2. CASE SetModeSecbits(t)
  <2> DEFINE bits == ModeBits(arg, k)
             all == arg = "NOPRIV"
             p == IF all THEN "bounds" ELSE "lower"
             z == IF all THEN AllBits ELSE <<>>
             r == Ret(SecbitsOk(k, bits))
             l == SetSecbits(k, bits)
  <2>1. Becomes(t, Moved(t, p, r, w, z), l) /\ f(t).pc = "secbits"
    <3>1. [f(t) EXCEPT !.pc = p, !.todo = z, !.ret = r] = Moved(t, p, r, w, z)
      <4> HIDE DEF p, z, r
      <4> QED BY <1>0 DEF Moved, Blank
    <3> QED BY <1>2, <3>1 DEF SetModeSecbits, At
  <2>2. /\ l = k \/ l = [k EXCEPT !.sec = bits]
        /\ r = 0 => l = [k EXCEPT !.sec = bits]
    BY DEF SetSecbits, Ret
  <2>3. /\ l.P = k.P /\ l.E = k.E /\ l.I = k.I /\ l.A = k.A /\ l.B = k.B
        /\ l.ambient = k.ambient
        /\ r = 0 => l.sec = bits
    <3> HIDE DEF bits, l, r
    <3> QED BY <1>0, <2>2 DEF CredOK, Cred
  <2>4. bits = ModeBits(arg, l) BY <2>3 DEF ModeBits
  <2>5. /\ p \in {"bounds", "lower"} /\ (p = "bounds" <=> arg = "NOPRIV")
        /\ p = "bounds" => z = AllBits
    OBVIOUS
  <2>6. k.B \subseteq Caps BY <1>0 DEF CredOK, Cred
  <2> HIDE DEF k, arg, s, w, bits, p, z, r, l
  <2>7. ASSUME Followed(t) PROVE ModeFollows(p, r, w, z, arg, s, l)
    <3>1. ModeFollows("secbits", f(t).ret, w, todo, arg, s, k) BY <1>0, <2>1, <2>7
    <3>2. AmbientGone(arg, l) BY <2>3, <3>1 DEF ModeFollows, AmbientGone
    <3>3. arg \in {"NOPRIV", "PURE1E_INIT", "PURE1E", "HYBRID"}
      BY <1>0, <3>1 DEF ModeFollows, Modes
    <3>4. p = "bounds" => /\ z \in Seq({"bound"} \X Caps)
                          /\ \A x \in l.B : Among(<<"bound", x>>, z)
      BY <2>3, <2>5, <2>6, AllBitsHasAll
    <3>5. r = 0 => l.sec = ModeBits(arg, l) BY <2>3, <2>4
    <3>6. /\ w.P \subseteq l.P /\ w.I \subseteq l.I /\ CAP_SETPCAP \in l.E
          /\ arg # "UNCERTAIN"
          /\ arg \in {"NOPRIV", "PURE1E_INIT"} => w.I = {}
      BY <2>3, <3>1 DEF ModeFollows
    <3> QED BY <2>5, <3>2, <3>3, <3>4, <3>5, <3>6 DEF ModeFollows
  <2> QED BY <1>1, <2>1, <2>7, MoveTracks
<1>3. CASE DropBounds(t) /\ todo # <<>>
  <2> DEFINE z == Tail(todo)
             l == Drop(k, Head(todo)[2])
  <2>1. Becomes(t, Moved(t, "bounds", f(t).ret, w, z), l) /\ f(t).pc = "bounds"
    <3>1. [f(t) EXCEPT !.todo = Tail(@)] = [f(t) EXCEPT !.todo = z] BY <1>0 DEF Blank
    <3>2. f(t).pc = "bounds" BY <1>3 DEF DropBounds, At
    <3>3. [f(t) EXCEPT !.todo = z] = Moved(t, "bounds", f(t).ret, w, z)
      <4> HIDE DEF z
      <4> QED BY <1>0, <3>2 DEF Moved, Blank
    <3> QED BY <1>3, <3>1, <3>2, <3>3 DEF DropBounds
  <2>2. ASSUME Followed(t) PROVE ModeFollows("bounds", f(t).ret, w, z, arg, s, l)
    <3>1. ModeFollows("bounds", f(t).ret, w, todo, arg, s, k) BY <1>0, <2>1, <2>2
    <3>2. l = [k EXCEPT !.B = @ \ {Head(todo)[2]}]
      BY <3>1 DEF ModeFollows, Drop, DropOk
    <3>3. /\ l.P = k.P /\ l.E = k.E /\ l.I = k.I /\ l.A = k.A /\ l.sec = k.sec
          /\ l.ambient = k.ambient /\ l.B = k.B \ {Head(todo)[2]}
      <4> HIDE DEF l
      <4> QED BY <1>0, <3>2 DEF CredOK, Cred
    <3>4. todo \in Seq({"bound"} \X Caps) /\ \A x \in k.B : Among(<<"bound", x>>, todo)
      BY <3>1 DEF ModeFollows
    <3>5. z \in Seq({"bound"} \X Caps) /\ \A x \in l.B : Among(<<"bound", x>>, z)
      <4>1. z \in Seq({"bound"} \X Caps) BY <1>3, <3>4
      <4>2. ASSUME NEW x \in l.B PROVE Among(<<"bound", x>>, z)
        <5>1. x \in k.B /\ x # Head(todo)[2] BY <3>3
        <5>2. Among(<<"bound", x>>, todo) BY <3>4, <5>1
        <5>3. <<"bound", x>> # Head(todo) BY <5>1
        <5> QED BY <1>3, <3>4, <5>2, <5>3, AmongTail
      <4> QED BY <4>1, <4>2
    <3> HIDE DEF k, arg, s, w, z, l, todo
    <3>6. ModeBits(arg, l) = ModeBits(arg, k) BY <3>3 DEF ModeBits
    <3>7. AmbientGone(arg, k) => AmbientGone(arg, l) BY <3>3 DEF AmbientGone
    <3> QED BY <3>1, <3>3, <3>5, <3>6, <3>7 DEF ModeFollows
  <2> HIDE DEF k, s, w, z, l, todo
  <2> QED BY <1>1, <2>1, <2>2, MoveTracks
<1>4. CASE DropBounds(t) /\ todo = <<>>
  <2> DEFINE v == [w EXCEPT !.P = {}]
  <2>1. Becomes(t, Moved(t, "nnp", f(t).ret, v, todo), k) /\ f(t).pc = "bounds"
    <3>1. [f(t) EXCEPT !.pc = "nnp", !.working.P = {}]
            = [f(t) EXCEPT !.pc = "nnp", !.working = v] BY <1>0 DEF Blank
    <3>2. [f(t) EXCEPT !.pc = "nnp", !.working = v] = Moved(t, "nnp", f(t).ret, v, todo)
      <4> HIDE DEF v
      <4> QED BY <1>0 DEF Moved, Blank
    <3> QED BY <1>4, <3>1, <3>2 DEF DropBounds, At
  <2>2. v.P = {} /\ v.I = w.I BY <1>0 DEF CapT
  <2>3. \A x : ~ Among(x, todo) BY <1>4 DEF Among
  <2> HIDE DEF k, arg, s, w, v, todo
  <2>4. ASSUME Followed(t) PROVE ModeFollows("nnp", f(t).ret, v, todo, arg, s, k)
    <3>1. ModeFollows("bounds", f(t).ret, w, todo, arg, s, k) BY <1>0, <2>1, <2>4
    <3>2. k.B = {} BY <2>3, <3>1 DEF ModeFollows
    <3> QED BY <2>2, <3>1, <3>2 DEF ModeFollows
  <2> QED BY <1>1, <2>1, <2>4, MoveTracks
<1>5. CASE NoNewPrivs(t)
  <2> DEFINE l == SetNoNewPrivs(k)
  <2>1. Becomes(t, [f(t) EXCEPT !.pc = "lower"], l) /\ f(t).pc = "nnp"
    BY <1>5 DEF NoNewPrivs, At
  <2>2. /\ l.P = k.P /\ l.E = k.E /\ l.I = k.I /\ l.A = k.A /\ l.B = k.B /\ l.sec = k.sec
        /\ l.ambient = k.ambient /\ l.nnp
    BY <1>0 DEF SetNoNewPrivs, CredOK, Cred
  <2> HIDE DEF k, arg, s, w, l, todo
  <2>3. ASSUME Followed(t) PROVE ModeFollows("lower", f(t).ret, w, todo, arg, s, l)
    <3>1. ModeFollows("nnp", f(t).ret, w, todo, arg, s, k) BY <1>0, <2>1, <2>3
    <3>2. ModeBits(arg, l) = ModeBits(arg, k) BY <2>2 DEF ModeBits
    <3>3. AmbientGone(arg, k) => AmbientGone(arg, l) BY <2>2 DEF AmbientGone
    <3> QED BY <2>2, <3>1, <3>2, <3>3 DEF ModeFollows
  <2> QED BY <1>1, <2>1, <2>3, MovePcTracks DEF w, todo
<1> QED BY <1>2, <1>3, <1>4, <1>5

(* A step of cap_iab_set_proc for every bit of the tuple. *)
LEMMA IabTodoItems ==
  ASSUME NEW arg \in Iab, NEW b \in BOOLEAN
  PROVE  /\ IabTodo(arg, b) \in Seq(Items(arg))
         /\ \A x \in arg.a : Among(<<"ambient", x>>, IabTodo(arg, b))
         /\ b => \A x \in arg.nb : Among(<<"bound", x>>, IabTodo(arg, b))
<1> DEFINE T == Items(arg)
           A(x) == IF x \in arg.a THEN <<<<"ambient", x>>>> ELSE <<>>
           B(x) == IF b /\ x \in arg.nb THEN <<<<"bound", x>>>> ELSE <<>>
           bit(x) == A(x) \o B(x)
           s == [j \in 1 .. MaxBits |-> bit(Descending[j])]
<1>1. IabTodo(arg, b) = FlattenSeq(s) BY DEF IabTodo
<1>2. ASSUME NEW x
      PROVE /\ A(x) \in Seq(T) /\ B(x) \in Seq(T) /\ bit(x) \in Seq(T)
            /\ x \in arg.a => Among(<<"ambient", x>>, bit(x))
            /\ b /\ x \in arg.nb => Among(<<"bound", x>>, bit(x))
  <2>1. A(x) \in Seq(T) /\ (x \in arg.a => Among(<<"ambient", x>>, A(x)))
    <3>1. CASE x \in arg.a
      <4>1. A(x) = <<<<"ambient", x>>>> /\ <<"ambient", x>> \in T BY <3>1 DEF Items
      <4>2. A(x) \in Seq(T) /\ Len(A(x)) = 1 /\ A(x)[1] = <<"ambient", x>> BY <4>1
      <4> QED BY <4>2 DEF Among
    <3>2. CASE x \notin arg.a BY <3>2
    <3> QED BY <3>1, <3>2
  <2>2. B(x) \in Seq(T) /\ (b /\ x \in arg.nb => Among(<<"bound", x>>, B(x)))
    <3>1. CASE b /\ x \in arg.nb
      <4>1. B(x) = <<<<"bound", x>>>> /\ <<"bound", x>> \in T BY <3>1 DEF Items
      <4>2. B(x) \in Seq(T) /\ Len(B(x)) = 1 /\ B(x)[1] = <<"bound", x>> BY <4>1
      <4> QED BY <4>2 DEF Among
    <3>2. CASE ~ (b /\ x \in arg.nb) BY <3>2
    <3> QED BY <3>1, <3>2
  <2> HIDE DEF A, B, T
  <2> QED BY <2>1, <2>2, AmongConcat
<1> HIDE DEF bit, T
<1>3. MaxBits \in Nat \ {0} BY CredsAssumption
<1>4. s \in Seq(Seq(T)) /\ Len(s) = MaxBits
  <2>1. s \in [1 .. MaxBits -> Seq(T)] BY <1>2
  <2> HIDE DEF s
  <2> QED BY <1>3, <2>1
<1>5. /\ FlattenSeq(s) \in Seq(T)
      /\ \A y : Among(y, FlattenSeq(s)) <=> \E j \in 1 .. Len(s) : Among(y, s[j])
  <2> HIDE DEF s
  <2> QED BY <1>4, Flattened
<1>6. ASSUME NEW x \in Caps, NEW y, Among(y, bit(x)) PROVE Among(y, FlattenSeq(s))
  <2>1. /\ MaxBits - x \in 1 .. MaxBits /\ MaxBits - (MaxBits - x) = x
        /\ Descending[MaxBits - x] = MaxBits - (MaxBits - x)
    BY <1>3 DEF Caps, Descending
  <2>2. s[MaxBits - x] = bit(x) BY <2>1
  <2> HIDE DEF s
  <2> QED BY <1>4, <1>5, <1>6, <2>1, <2>2
<1> HIDE DEF s
<1>7. arg.a \subseteq Caps /\ arg.nb \subseteq Caps BY DEF Iab
<1>8. FlattenSeq(s) \in Seq(Items(arg)) BY <1>5 DEF T
<1> QED BY <1>1, <1>2, <1>6, <1>7, <1>8

(* The first capset of cap_iab_set_proc is prepared. *)
LEMMA TrackIabGetProc ==
  ASSUME CapInv, Tracking, NEW t \in Threads, IabGetProc(t)
  PROVE  Tracking'
<1> DEFINE k == c(t)
           arg == f(t).arg
           s == f(t).start
<1>0. /\ CredOK(k) /\ DOMAIN f(t) = DOMAIN Blank /\ f(t).op = "iab_set_proc"
      /\ f(t).pc = "get_proc" /\ arg \in Iab
      /\ Followed(t) => CredOK(s) /\ k = s
  <2>1. f(t).op = "iab_set_proc" /\ f(t).pc = "get_proc" BY DEF IabGetProc, At
  <2>2. arg \in Iab BY <2>1, Now DEF FrameOK, Args
  <2> QED BY <2>1, <2>2, Now DEF Follows, IabFollows
<1> DEFINE bounds == arg.nb \cap k.B # {}
           needs == bounds \/ ~ arg.i \subseteq k.I \cup k.P
           w == [cap_get_proc(k) EXCEPT !.I = arg.i]
           z == IabTodo(arg, bounds)
           p == IF needs THEN "iab_setpcap" ELSE "iab_set"
<1>1. Becomes(t, Moved(t, p, f(t).ret, w, z), k)
  <2>1. [f(t) EXCEPT !.working = w, !.todo = z, !.pc = p] = Moved(t, p, f(t).ret, w, z)
    <3> HIDE DEF w, z, p
    <3> QED BY <1>0 DEF Moved, Blank
  <2> QED BY <2>1 DEF IabGetProc
<1>2. w.P = k.P /\ w.E = k.E /\ w.I = arg.i BY DEF cap_get_proc
<1>3. /\ z \in Seq(Items(arg)) /\ AmbientLeft(z, arg, {}) /\ BoundLeft(z, arg, k)
  <2>1. bounds \in BOOLEAN OBVIOUS
  <2>2. /\ z \in Seq(Items(arg))
        /\ \A x \in arg.a : Among(<<"ambient", x>>, z)
        /\ bounds => \A x \in arg.nb : Among(<<"bound", x>>, z)
    <3> HIDE DEF bounds, arg
    <3> QED BY <1>0, <2>1, IabTodoItems
  <2> QED BY <2>2 DEF AmbientLeft, BoundLeft
<1>4. p \in {"iab_set", "iab_setpcap"} OBVIOUS
<1> HIDE DEF k, arg, s, w, z, p
<1>5. ASSUME Followed(t) PROVE IabFollows(p, f(t).ret, w, z, arg, s, k)
  BY <1>0, <1>2, <1>3, <1>4, <1>5 DEF IabFollows
<1>6. FollowsTo(t, p, f(t).ret, w, z, k) BY <1>0, <1>5 DEF FollowsTo, Follows, arg, s
<1> QED BY <1>1, <1>6, MoveTracks

(* The first capset of cap_iab_set_proc, with CAP_SETPCAP or without. *)
LEMMA TrackIabSet ==
  ASSUME CapInv, Tracking, NEW t \in Threads, IabSet(t)
  PROVE  Tracking'
<1> DEFINE k == c(t)
           arg == f(t).arg
           s == f(t).start
           w == f(t).working
           todo == f(t).todo
<1>0. /\ CredOK(k) /\ f(t).op = "iab_set_proc" /\ w \in CapT
      /\ f(t).pc \in {"iab_set", "iab_setpcap"}
      /\ Followed(t) => CredOK(s) /\ IabFollows(f(t).pc, f(t).ret, w, todo, arg, s, k)
  <2>1. f(t).op = "iab_set_proc" BY Now DEF IabSet, FrameOK, Passes
  <2> QED BY <2>1, Now DEF Follows, IabSet
<1> DEFINE v == IF f(t).pc = "iab_set" THEN w ELSE [w EXCEPT !.E = @ \cup {CAP_SETPCAP}]
           ok == CapsetOk(k, v)
           p == IF ok THEN "ambient" ELSE "done"
           r == Ret(ok)
           l == Capset(k, v)
<1>1. Becomes(t, [f(t) EXCEPT !.pc = p, !.ret = r], l) BY DEF IabSet
<1>2. v \in CapT /\ v.P = w.P /\ v.I = w.I BY <1>0, CredsAssumption DEF CapT
<1> HIDE DEF v
<1>3. ok => /\ p = "ambient" /\ r = 0
            /\ l.P = v.P /\ l.I = v.I /\ l.A = k.A \cap v.P \cap v.I
            /\ l.B = k.B /\ l.sec = k.sec
  BY <1>0, <1>2, CapsetSets DEF Ret
<1>4. ~ ok => p = "done" /\ r = -1 /\ l = k BY DEF Capset, Ret
<1> HIDE DEF k, arg, s, w, ok, p, r, l, todo
<1>5. ASSUME Followed(t) PROVE IabFollows(p, r, w, todo, arg, s, l)
  <2>1. k = s /\ CredOK(s) /\ IabFollows(f(t).pc, f(t).ret, w, todo, arg, s, k)
    BY <1>0, <1>5 DEF IabFollows
  <2>2. CASE ok
    <3>1. IabContained(arg, s, l) /\ l.I = arg.i
      BY <1>0, <1>2, <1>3, <2>1, <2>2 DEF IabFollows, IabContained
    <3>2. BoundLeft(todo, arg, l)
      BY <1>0, <1>3, <2>1, <2>2 DEF IabFollows, BoundLeft
    <3>3. IabFollows("ambient", r, w, todo, arg, s, l)
      BY <1>0, <2>1, <3>1, <3>2 DEF IabFollows
    <3> QED BY <1>3, <2>2, <3>3
  <2>3. CASE ~ ok
    <3>1. IabContained(arg, s, l) /\ l.E = s.E BY <1>4, <2>1, <2>3 DEF IabContained
    <3> QED BY <1>4, <2>3, <3>1 DEF IabFollows
  <2> QED BY <2>2, <2>3
<1>6. FollowsTo(t, p, r, w, todo, l) BY <1>0, <1>5 DEF FollowsTo, Follows, arg, s
<1> QED BY <1>1, <1>6, MoveOnTracks DEF w, todo

(* One bit of the tuple. *)
LEMMA TrackIabVector ==
  ASSUME CapInv, Tracking, NEW t \in Threads, IabVector(t)
  PROVE  Tracking'
<1> DEFINE k == c(t)
           arg == f(t).arg
           s == f(t).start
           w == f(t).working
           todo == f(t).todo
<1>0. /\ CredOK(k) /\ DOMAIN f(t) = DOMAIN Blank /\ f(t).op = "iab_set_proc"
      /\ f(t).pc = "vectors" /\ todo # <<>>
      /\ Followed(t) => CredOK(s) /\ IabFollows("vectors", f(t).ret, w, todo, arg, s, k)
  <2>1. f(t).op = "iab_set_proc" /\ f(t).pc = "vectors" /\ todo # <<>>
    BY DEF IabVector, At
  <2> QED BY <2>1, Now DEF Follows
<1> DEFINE kind == Head(todo)[1]
           x == Head(todo)[2]
           ok == IF kind = "ambient" THEN RaiseOk(k, x) ELSE DropOk(k)
           z == Tail(todo)
           r == Ret(ok)
           p == IF ok THEN "vectors" ELSE "iab_restore"
           l == IF kind = "ambient" THEN RaiseAmbient(k, x) ELSE Drop(k, x)
<1>1. Becomes(t, Moved(t, p, r, w, z), l)
  <2>1. [f(t) EXCEPT !.todo = Tail(@), !.ret = r, !.pc = IF ok THEN @ ELSE "iab_restore"]
          = [f(t) EXCEPT !.todo = z, !.ret = r, !.pc = p]
    <3> HIDE DEF ok, r
    <3> QED BY <1>0 DEF Blank
  <2>2. [f(t) EXCEPT !.todo = z, !.ret = r, !.pc = p] = Moved(t, p, r, w, z)
    <3> HIDE DEF z, r, p
    <3> QED BY <1>0 DEF Moved, Blank
  <2> QED BY <2>1, <2>2 DEF IabVector
<1>2. ~ ok => r = -1 /\ p = "iab_restore" /\ l = k BY DEF Ret, RaiseAmbient, Drop
<1>3. ok => /\ r = 0 /\ p = "vectors"
            /\ l = IF kind = "ambient" THEN [k EXCEPT !.A = @ \cup {x}]
                   ELSE [k EXCEPT !.B = @ \ {x}]
  BY DEF Ret, RaiseAmbient, Drop
<1>4. ok => /\ l.P = k.P /\ l.I = k.I /\ l.sec = k.sec
            /\ l.A = (IF kind = "ambient" THEN k.A \cup {x} ELSE k.A)
            /\ l.B = (IF kind = "ambient" THEN k.B ELSE k.B \ {x})
  <2> HIDE DEF kind, x, ok, l
  <2> QED BY <1>0, <1>3 DEF CredOK, Cred
<1>5. ASSUME Followed(t) PROVE IabFollows(p, r, w, z, arg, s, l)
  <2>1. /\ CredOK(s) /\ IabFollows("vectors", f(t).ret, w, todo, arg, s, k)
        /\ todo \in Seq(Items(arg)) /\ BoundLeft(todo, arg, k)
        /\ AmbientLeft(todo, arg, k.A) /\ k.A \subseteq arg.a
        /\ IabContained(arg, s, k) /\ k.I = arg.i
        /\ w.P = s.P /\ w.E = s.E /\ w.I = arg.i
    BY <1>0, <1>5 DEF IabFollows
  <2>2. CASE ~ ok
    <3> HIDE DEF k, arg, s, w, todo, kind, x, ok, z, r, p, l
    <3> QED BY <1>2, <2>1, <2>2 DEF IabFollows
  <2>3. CASE ok
    <3> DEFINE T == Items(arg)
    <3>0. todo \in Seq(T) BY <2>1
    <3>a. /\ z \in Seq(T) /\ Head(todo) \in T
          /\ \A y : Among(y, todo) => y = Head(todo) \/ Among(y, z)
      <4> HIDE DEF T
      <4> QED BY <1>0, <3>0, AmongTail
    <3>1. z \in Seq(Items(arg)) /\ Head(todo) \in Items(arg) BY <3>a
    <3>2. \A y : Among(y, todo) => y = Head(todo) \/ Among(y, z) BY <3>a
    <3>3. /\ kind = "ambient" => x \in arg.a
          /\ kind # "ambient" => x \in arg.nb
          /\ Head(todo) = <<kind, x>>
      BY <3>1 DEF Items
    <3> HIDE DEF k, arg, s, w, todo, kind, x, ok, z, r, p, l
    <3>4. BoundLeft(z, arg, l)
      <4> SUFFICES ASSUME NEW y \in arg.nb, y \in l.B PROVE Among(<<"bound", y>>, z)
        BY DEF BoundLeft
      <4>1. y \in k.B /\ (kind # "ambient" => y # x) BY <1>4, <2>3
      <4>2. Among(<<"bound", y>>, todo) BY <2>1, <4>1 DEF BoundLeft
      <4>3. <<"bound", y>> # <<kind, x>> BY <4>1
      <4> QED BY <3>2, <3>3, <4>2, <4>3
    <3>5. AmbientLeft(z, arg, l.A)
      <4> SUFFICES ASSUME NEW y \in arg.a, y \notin l.A PROVE Among(<<"ambient", y>>, z)
        BY DEF AmbientLeft
      <4>1. y \notin k.A /\ (kind = "ambient" => y # x) BY <1>4, <2>3
      <4>2. Among(<<"ambient", y>>, todo) BY <2>1, <4>1 DEF AmbientLeft
      <4>3. <<"ambient", y>> # <<kind, x>> BY <4>1
      <4> QED BY <3>2, <3>3, <4>2, <4>3
    <3>6. l.A \subseteq arg.a BY <1>4, <2>1, <2>3, <3>3
    <3>7. IabContained(arg, s, l) /\ l.I = arg.i
      BY <1>4, <2>1, <2>3, <3>3, <3>6 DEF IabContained
    <3> QED BY <1>3, <2>1, <2>3, <3>1, <3>4, <3>5, <3>6, <3>7 DEF IabFollows
  <2> QED BY <2>2, <2>3
<1> HIDE DEF k, w, z, r, p, l
<1>6. FollowsTo(t, p, r, w, z, l) BY <1>0, <1>5 DEF FollowsTo, Follows
<1> QED BY <1>1, <1>6, MoveTracks

(* The rest of cap_iab_set_proc: the flags are set to what they should be. *)
LEMMA TrackIabEnd ==
  ASSUME CapInv, Tracking, NEW t \in Threads, IabVectorsEnd(t) \/ IabRestore(t)
  PROVE  Tracking'
<1> DEFINE k == c(t)
           arg == f(t).arg
           s == f(t).start
           w == f(t).working
           todo == f(t).todo
<1>0. /\ CredOK(k) /\ f(t).op = "iab_set_proc" /\ w \in CapT
      /\ Followed(t) => CredOK(s) /\ IabFollows(f(t).pc, f(t).ret, w, todo, arg, s, k)
  <2>1. f(t).op = "iab_set_proc" BY DEF IabVectorsEnd, IabRestore, At
  <2> QED BY <2>1, Now DEF Follows
<1>1. CASE IabVectorsEnd(t)
  <2>1. Becomes(t, [f(t) EXCEPT !.pc = "iab_restore"], k) /\ f(t).pc = "vectors"
        /\ todo = <<>>
    BY <1>1 DEF IabVectorsEnd, At, Goes
  <2>2. \A x : ~ Among(x, todo) BY <2>1 DEF Among
  <2>3. ASSUME Followed(t) PROVE IabFollows("iab_restore", f(t).ret, w, todo, arg, s, k)
    <3>1. IabFollows("vectors", f(t).ret, w, todo, arg, s, k) BY <1>0, <2>1, <2>3
    <3> HIDE DEF k, arg, s, w, todo
    <3>2. k.A = arg.a /\ arg.nb \cap k.B = {}
      BY <2>2, <3>1 DEF IabFollows, AmbientLeft, BoundLeft
    <3> QED BY <3>1, <3>2 DEF IabFollows
  <2>4. FollowsTo(t, "iab_restore", f(t).ret, w, todo, k)
    BY <1>0, <2>3 DEF FollowsTo, Follows
  <2> HIDE DEF k
  <2> QED BY <2>1, <2>4, MovePcTracks
<1>2. CASE IabRestore(t)
  <2> DEFINE l == Capset(k, w)
  <2>1. Becomes(t, [f(t) EXCEPT !.pc = "done"], l) /\ f(t).pc = "iab_restore"
    BY <1>2 DEF IabRestore, At
  <2>2. CapsetOk(k, w) => /\ l.P = w.P /\ l.E = w.E /\ l.I = w.I
                          /\ l.A = k.A \cap w.P \cap w.I
                          /\ l.B = k.B /\ l.sec = k.sec
    BY <1>0, CapsetSets
  <2> HIDE DEF k, arg, s, w, todo, l
  <2>3. ASSUME Followed(t) PROVE IabFollows("done", f(t).ret, w, todo, arg, s, l)
    <3>1. /\ IabFollows("iab_restore", f(t).ret, w, todo, arg, s, k) /\ CredOK(s)
          /\ w.P = s.P /\ w.E = s.E /\ w.I = arg.i
          /\ IabContained(arg, s, k) /\ k.I = arg.i
      BY <1>0, <2>1, <2>3 DEF IabFollows
    <3>2. w.P = k.P /\ w.I = k.I /\ w.E \subseteq w.P
      BY <3>1 DEF IabContained, CredOK
    <3>3. CapsetOk(k, w) BY <3>2 DEF CapsetOk
    <3>4. l.P = k.P /\ l.I = k.I /\ l.A = k.A /\ l.B = k.B /\ l.sec = k.sec /\ l.E = s.E
      BY <1>0, <2>2, <3>1, <3>2, <3>3 DEF CredOK
    <3>5. IabContained(arg, s, l) BY <3>1, <3>4 DEF IabContained
    <3> QED BY <3>1, <3>4, <3>5 DEF IabFollows
  <2>4. FollowsTo(t, "done", f(t).ret, w, todo, l)
    BY <1>0, <2>3 DEF FollowsTo, Follows, arg, s
  <2> QED BY <2>1, <2>4, MovePcTracks DEF w, todo
<1> QED BY <1>1, <1>2

-----------------------------------------------------------------------------
(* Theorems                                                                *)

(* No call has begun. *)
LEMMA TrackInit == ASSUME Init PROVE Tracking
  BY DEF Init, Tracking, Tracks, Blank, f

(* Every step keeps every undisturbed call on its way. *)
LEMMA TrackNext == CapInv /\ Tracking /\ [Next]_vars => Tracking'
<1> SUFFICES ASSUME CapInv, Tracking, [Next]_vars PROVE Tracking'
  OBVIOUS
<1>1. CASE UNCHANGED vars BY <1>1 DEF vars, Tracking, f, c
<1>2. ASSUME NEW t \in Threads, CallSingle(t) \/ CallSteps(t) \/ Step(t) PROVE Tracking'
  BY <1>2, TrackCall, TrackGetProc, TrackRaise, TrackLower, TrackSetuid, TrackGroups,
     TrackChroot, TrackAmbient, TrackMode, TrackIabGetProc, TrackIabSet, TrackIabVector,
     TrackIabEnd DEF Step
<1> QED BY <1>1, <1>2 DEF Next

LEMMA TrackHolds == Spec => [](CapInv /\ Tracking)
  BY InvInit, InvNext, TrackInit, TrackNext, PTL DEF Spec

(* What is known of a call that has returned undisturbed. *)
LEMMA AtReturn ==
  ASSUME CapInv, Tracking, NEW t \in Threads, NEW op, op # "none", Returned(t, op)
  PROVE  /\ f(t).op = op /\ CredOK(c(t)) /\ FrameOK(f(t))
         /\ Follows(op, "done", f(t).ret, f(t).working, f(t).todo, f(t).arg,
                    f(t).start, c(t))
  BY Now DEF Returned, At, Followed

(* A cap_set_mode that nobody disturbed and that returned 0 has put the    *)
(* process in the mode asked for, from whatever credentials it started,    *)
(* for any number of capabilities.                                         *)
THEOREM ModeIsReached == Spec => []ModeTakesEffect
<1>1. ASSUME CapInv, Tracking PROVE ModeTakesEffect
  <2> SUFFICES ASSUME NEW t \in Threads, Returned(t, "set_mode"), f(t).ret = 0
               PROVE  /\ cap_get_mode(c(t)) \in Within[f(t).arg]
                      /\ f(t).arg = "NOPRIV" => c(t).nnp
    BY DEF ModeTakesEffect
  <2> QED BY <1>1, AtReturn DEF Follows, ModeFollows
<1> QED BY <1>1, TrackHolds, PTL

(* cap_setuid, cap_setgroups and the chroot of a launch change what they   *)
(* are named for, keep the rest of the credentials and return, on success  *)
(* and on failure, with an empty Effective flag.                           *)
THEOREM CallsAreContained == Spec => []CallsContained
<1>1. ASSUME CapInv, Tracking PROVE CallsContained
  <2>1. EffectiveLowered
    <3> SUFFICES ASSUME NEW t \in Threads, NEW op \in DOMAIN NeedsOf, Returned(t, op)
                 PROVE  c(t).E = {} \/ (AllocMayFail /\ f(t).ret = -1 /\ c(t) = f(t).start)
      BY DEF EffectiveLowered
    <3>1. op # "none" BY DEF NeedsOf
    <3> QED BY <1>1, <3>1, AtReturn
            DEF Follows, UidFollows, GroupsFollow, RootFollows, ModeFollows, NoMemory, NeedsOf
  <2>2. UidKeepsPermitted
    <3> SUFFICES ASSUME NEW t \in Threads, Returned(t, "setuid"), f(t).ret = 0
                 PROVE  LET s == f(t).start IN
                        /\ c(t).uid = f(t).arg
                        /\ ~ CannotKeep(s.sec) => c(t).P = s.P /\ c(t).I = s.I
                        /\ c(t).sec \in {s.sec, s.sec \ {"KEEP_CAPS"}}
                        /\ c(t).B = s.B
      BY DEF UidKeepsPermitted
    <3>1. UidFollows("done", 0, f(t).working, f(t).arg, f(t).start, c(t))
      BY <1>1, AtReturn DEF Follows
    <3>2. ~ NoMemory(0, f(t).start, c(t)) BY DEF NoMemory
    <3> QED BY <3>1, <3>2 DEF UidFollows, Unkept
  <2>3. GroupsAndRootContained
    <3> SUFFICES ASSUME NEW t \in Threads
                 PROVE  /\ Returned(t, "setgroups") =>
                              GroupsAre(f(t).ret, f(t).arg, f(t).start, c(t))
                        /\ Returned(t, "chroot") =>
                              RootIs(f(t).ret, f(t).arg, f(t).start, c(t))
      BY DEF GroupsAndRootContained, GroupsAre, RootIs
    <3> QED BY <1>1, AtReturn DEF Follows, GroupsFollow, RootFollows
  <2> QED BY <2>1, <2>2, <2>3 DEF CallsContained
<1> QED BY <1>1, TrackHolds, PTL

(* cap_iab_set_proc that returned 0 has set I and A to those of the tuple  *)
(* and dropped all of its B; P, E and the securebits are as before, and a  *)
(* failure leaves no more than part of what was asked for.                 *)
THEOREM IabIsExact == Spec => []IabExact
<1>1. ASSUME CapInv, Tracking PROVE IabExact
  <2> SUFFICES ASSUME NEW t \in Threads, Returned(t, "iab_set_proc")
               PROVE LET s == f(t).start  got == cap_iab_get_proc(c(t))  want == f(t).arg IN
                     /\ f(t).ret = 0 =>
                           got.i = want.i /\ got.a = want.a /\ want.nb \subseteq got.nb
                     /\ c(t).P = s.P /\ c(t).E = s.E
                     /\ c(t).I \in {s.I, want.i}
                     /\ c(t).A \subseteq s.A \cup want.a
                     /\ s.B \ c(t).B \subseteq want.nb
                     /\ c(t).sec = s.sec
    BY DEF IabExact
  <2>1. IabFollows("done", f(t).ret, f(t).working, f(t).todo, f(t).arg, f(t).start, c(t))
    BY <1>1, AtReturn DEF Follows
  <2>2. f(t).arg \in Iab BY <1>1, AtReturn DEF FrameOK, Args
  <2> QED BY <2>1, <2>2 DEF IabFollows, IabContained, cap_iab_get_proc, Iab
<1> QED BY <1>1, TrackHolds, PTL

-----------------------------------------------------------------------------
(* What a step of an operation changes                                     *)

(* What cap_set_mode and cap_iab_set_proc leave alone, or only take from. *)
Kin(s, k) == /\ k.uid = s.uid /\ k.gid = s.gid /\ k.groups = s.groups
             /\ k.ambient = s.ambient /\ (s.nnp => k.nnp) /\ k.B \subseteq s.B

(* The system calls of cap_set_mode and cap_iab_set_proc. *)
LEMMA KinCalls ==
  ASSUME NEW k, CredOK(k)
  PROVE  /\ Kin(k, k)
         /\ \A w : Kin(k, Capset(k, w))
         /\ \A x : Kin(k, Drop(k, x)) /\ Kin(k, RaiseAmbient(k, x))
         /\ Kin(k, ClearAmbient(k)) /\ Kin(k, SetNoNewPrivs(k))
         /\ \A bits : Kin(k, SetSecbits(k, bits))
<1>0. k \in Cred BY DEF CredOK
<1>1. Kin(k, k) BY DEF Kin
<1>2. ASSUME NEW w PROVE Kin(k, Capset(k, w))
  <2> DEFINE a == k.A \cap w.P \cap w.I
  <2>1. CASE CapsetOk(k, w)
    <3>1. Capset(k, w) = [k EXCEPT !.P = w.P, !.E = w.E, !.I = w.I, !.A = a]
      BY <1>0, <2>1 DEF Capset, Cred
    <3> HIDE DEF a
    <3> QED BY <1>0, <3>1 DEF Kin, Cred
  <2>2. CASE ~ CapsetOk(k, w) BY <1>1, <2>2 DEF Capset
  <2> QED BY <2>1, <2>2
<1>3. ASSUME NEW x PROVE Kin(k, Drop(k, x)) /\ Kin(k, RaiseAmbient(k, x))
  <2>1. Kin(k, [k EXCEPT !.B = @ \ {x}]) BY <1>0 DEF Kin, Cred
  <2>2. Kin(k, [k EXCEPT !.A = @ \cup {x}]) BY <1>0 DEF Kin, Cred
  <2> QED BY <1>1, <2>1, <2>2 DEF Drop, RaiseAmbient
<1>4. Kin(k, ClearAmbient(k)) BY <1>0 DEF Kin, Cred, ClearAmbient
<1>5. Kin(k, SetNoNewPrivs(k)) BY <1>0 DEF Kin, Cred, SetNoNewPrivs
<1>6. ASSUME NEW bits PROVE Kin(k, SetSecbits(k, bits))
  <2>1. Kin(k, [k EXCEPT !.sec = bits]) BY <1>0 DEF Kin, Cred
  <2> QED BY <1>1, <2>1 DEF SetSecbits
<1> QED BY <1>1, <1>2, <1>3, <1>4, <1>5, <1>6

(* A frame after a step of the same call. *)
SameCall(h, g) == /\ h.op = g.op /\ h.arg = g.arg /\ h.start = g.start /\ h.clean = g.clean
                  /\ h.n = g.n

(* A step of an operation is a step of the same call of t, which leaves   *)
(* the ids alone unless they are what the operation is for.                *)
Shape(t, g, k) == /\ Becomes(t, g, k) /\ SameCall(g, f(t))
                  /\ f(t).op \notin {"setuid", "setgroups", "chroot"} => Kin(c(t), k)

LEMMA StepShape ==
  ASSUME CapInv, NEW t \in Threads, Step(t)
  PROVE  f(t).pc # "done" /\ \E g, k : Shape(t, g, k)
<1>1. CredOK(c(t)) /\ DOMAIN f(t) = DOMAIN Blank BY Here DEF FrameOK
<1>2. f(t).pc # "done"
  BY DEF Step, GetProcFails, GetProc, Raise, Lower, KeepCaps, DoSetuid, UnkeepCaps, DoSetgid,
         DoSetgroups, DoChroot, ReadAmbient, ResetAmbient, SetModeSecbits, DropBounds,
         NoNewPrivs, IabGetProc, IabSet, IabVector, IabVectorsEnd, IabRestore, At
<1>3. /\ \A p : SameCall([f(t) EXCEPT !.pc = p], f(t))
      /\ \A p, r : SameCall([f(t) EXCEPT !.pc = p, !.ret = r], f(t))
      /\ \A p, w : SameCall([f(t) EXCEPT !.working = w, !.pc = p], f(t))
      /\ \A p, r, w : SameCall([f(t) EXCEPT !.pc = p, !.ret = r, !.working = w], f(t))
      /\ \A p, r, s : SameCall([f(t) EXCEPT !.pc = p, !.todo = s, !.ret = r], f(t))
      /\ \A s : SameCall([f(t) EXCEPT !.todo = s], f(t))
      /\ \A p, w : SameCall([f(t) EXCEPT !.pc = p, !.working.P = w], f(t))
      /\ \A p, w, s : SameCall([f(t) EXCEPT !.working = w, !.todo = s, !.pc = p], f(t))
      /\ \A p, r, s : SameCall([f(t) EXCEPT !.todo = s, !.ret = r, !.pc = p], f(t))
  <2> DEFINE g == f(t)
  <2>1. DOMAIN g = DOMAIN Blank BY <1>1
  <2> HIDE DEF g
  <2>2. /\ \A p : SameCall([g EXCEPT !.pc = p], g)
        /\ \A p, r : SameCall([g EXCEPT !.pc = p, !.ret = r], g)
        /\ \A p, w : SameCall([g EXCEPT !.working = w, !.pc = p], g)
        /\ \A p, r, w : SameCall([g EXCEPT !.pc = p, !.ret = r, !.working = w], g)
        /\ \A p, r, s : SameCall([g EXCEPT !.pc = p, !.todo = s, !.ret = r], g)
        /\ \A s : SameCall([g EXCEPT !.todo = s], g)
        /\ \A p, w : SameCall([g EXCEPT !.pc = p, !.working.P = w], g)
        /\ \A p, w, s : SameCall([g EXCEPT !.working = w, !.todo = s, !.pc = p], g)
        /\ \A p, r, s : SameCall([g EXCEPT !.todo = s, !.ret = r, !.pc = p], g)
    BY <2>1 DEF SameCall, Blank
  <2> QED BY <2>2 DEF g
<1>4. /\ Kin(c(t), c(t))
      /\ \A w : Kin(c(t), Capset(c(t), w))
      /\ \A x : Kin(c(t), Drop(c(t), x)) /\ Kin(c(t), RaiseAmbient(c(t), x))
      /\ Kin(c(t), ClearAmbient(c(t))) /\ Kin(c(t), SetNoNewPrivs(c(t)))
      /\ \A bits : Kin(c(t), SetSecbits(c(t), bits))
  BY <1>1, KinCalls
<1> HIDE DEF Kin, SameCall
<1> USE DEF Shape
<1>5. CASE GetProcFails(t) BY <1>3, <1>4, <1>5 DEF GetProcFails
<1>6. CASE GetProc(t) BY <1>3, <1>4, <1>6 DEF GetProc
<1>7. CASE Raise(t)
  <2>1. CASE CapsetOk(c(t), f(t).working) BY <1>3, <1>4, <1>7, <2>1 DEF Raise
  <2>2. CASE ~ CapsetOk(c(t), f(t).working) BY <1>3, <1>4, <1>7, <2>2 DEF Raise
  <2> QED BY <2>1, <2>2
<1>8. CASE Lower(t)
  <2> DEFINE w == [f(t).working EXCEPT !.E = {}]
             r == IF f(t).op = "set_mode" THEN Or(f(t).ret, Ret(CapsetOk(c(t), w))) ELSE f(t).ret
             g == [f(t) EXCEPT !.pc = "done", !.ret = r]
             k == Capset(c(t), w)
  <2>1. Becomes(t, g, k) BY <1>1, <1>8 DEF Lower, Blank
  <2>2. SameCall(g, f(t)) BY <1>3
  <2>3. Kin(c(t), k) BY <1>4
  <2> HIDE DEF g, k
  <2> QED BY <1>2, <2>1, <2>2, <2>3
<1>9. CASE KeepCaps(t) BY <1>3, <1>9 DEF KeepCaps, At
<1>10. CASE DoSetuid(t) BY <1>3, <1>10 DEF DoSetuid, At
<1>11. CASE UnkeepCaps(t) BY <1>3, <1>11 DEF UnkeepCaps, At
<1>12. CASE DoSetgid(t) BY <1>3, <1>12 DEF DoSetgid, At
<1>13. CASE DoSetgroups(t) BY <1>3, <1>13 DEF DoSetgroups, At
<1>14. CASE DoChroot(t) BY <1>3, <1>14 DEF DoChroot, At
<1>15. CASE ReadAmbient(t) BY <1>3, <1>4, <1>15 DEF ReadAmbient, Goes
<1>16. CASE ResetAmbient(t) BY <1>3, <1>4, <1>16 DEF ResetAmbient
<1>17. CASE SetModeSecbits(t)
  <2> DEFINE bits == ModeBits(f(t).arg, c(t))
             p == IF f(t).arg = "NOPRIV" THEN "bounds" ELSE "lower"
             z == IF f(t).arg = "NOPRIV" THEN AllBits ELSE <<>>
             r == Ret(SecbitsOk(c(t), bits))
             g == [f(t) EXCEPT !.pc = p, !.todo = z, !.ret = r]
             k == SetSecbits(c(t), bits)
  <2>1. Becomes(t, g, k) BY <1>17 DEF SetModeSecbits
  <2>2. SameCall(g, f(t)) BY <1>3
  <2>3. Kin(c(t), k) BY <1>4
  <2> HIDE DEF g, k
  <2> QED BY <1>2, <2>1, <2>2, <2>3
<1>18. CASE DropBounds(t)
  <2>1. CASE f(t).todo # <<>>
    <3> DEFINE x == Head(f(t).todo)[2]
               z == Tail(f(t).todo)
               g == [f(t) EXCEPT !.todo = z]
               k == Drop(c(t), x)
    <3>1. Becomes(t, g, k) BY <1>1, <1>18, <2>1 DEF DropBounds, Blank
    <3>2. SameCall(g, f(t)) BY <1>3
    <3>3. Kin(c(t), k) BY <1>4
    <3> HIDE DEF g, k
    <3> QED BY <1>2, <3>1, <3>2, <3>3
  <2>2. CASE f(t).todo = <<>>
    <3> DEFINE g == [f(t) EXCEPT !.pc = "nnp", !.working.P = {}]
               k == c(t)
    <3>1. Becomes(t, g, k) BY <1>1, <1>18, <2>2 DEF DropBounds, Blank
    <3>2. SameCall(g, f(t)) BY <1>3
    <3>3. Kin(c(t), k) BY <1>4
    <3> HIDE DEF g, k
    <3> QED BY <1>2, <3>1, <3>2, <3>3
  <2> QED BY <2>1, <2>2
<1>19. CASE NoNewPrivs(t)
  <2> DEFINE g == [f(t) EXCEPT !.pc = "lower"]
             k == SetNoNewPrivs(c(t))
  <2>1. Becomes(t, g, k) BY <1>19 DEF NoNewPrivs
  <2>2. SameCall(g, f(t)) BY <1>3
  <2>3. Kin(c(t), k) BY <1>4
  <2> HIDE DEF g, k
  <2> QED BY <1>2, <2>1, <2>2, <2>3
<1>20. CASE IabGetProc(t)
  <2> DEFINE arg == f(t).arg
             bounds == arg.nb \cap c(t).B # {}
             needs == bounds \/ ~ arg.i \subseteq c(t).I \cup c(t).P
             w == [cap_get_proc(c(t)) EXCEPT !.I = arg.i]
             z == IabTodo(arg, bounds)
             p == IF needs THEN "iab_setpcap" ELSE "iab_set"
             g == [f(t) EXCEPT !.working = w, !.todo = z, !.pc = p]
             k == c(t)
  <2>1. Becomes(t, g, k) BY <1>20 DEF IabGetProc
  <2>2. SameCall(g, f(t)) BY <1>3
  <2>3. Kin(c(t), k) BY <1>4
  <2> HIDE DEF g, k
  <2> QED BY <1>2, <2>1, <2>2, <2>3
<1>21. CASE IabSet(t) BY <1>3, <1>4, <1>21 DEF IabSet
<1>22. CASE IabVector(t)
  <2> DEFINE kind == Head(f(t).todo)[1]
             x == Head(f(t).todo)[2]
             ok == IF kind = "ambient" THEN RaiseOk(c(t), x) ELSE DropOk(c(t))
             z == Tail(f(t).todo)
             r == Ret(ok)
             p == IF ok THEN f(t).pc ELSE "iab_restore"
             g == [f(t) EXCEPT !.todo = z, !.ret = r, !.pc = p]
             k == IF kind = "ambient" THEN RaiseAmbient(c(t), x) ELSE Drop(c(t), x)
  <2>1. Becomes(t, g, k) BY <1>1, <1>22 DEF IabVector, Blank
  <2>2. SameCall(g, f(t)) BY <1>3
  <2>3. Kin(c(t), k) BY <1>4
  <2> HIDE DEF g, k
  <2> QED BY <1>2, <2>1, <2>2, <2>3
<1>23. CASE IabVectorsEnd(t)
  <2> DEFINE g == [f(t) EXCEPT !.pc = "iab_restore"]
             k == c(t)
  <2>1. Becomes(t, g, k) BY <1>23 DEF IabVectorsEnd, Goes
  <2>2. SameCall(g, f(t)) BY <1>3
  <2>3. Kin(c(t), k) BY <1>4
  <2> HIDE DEF g, k
  <2> QED BY <1>2, <2>1, <2>2, <2>3
<1>24. CASE IabRestore(t)
  <2> DEFINE g == [f(t) EXCEPT !.pc = "done"]
             k == Capset(c(t), f(t).working)
  <2>1. Becomes(t, g, k) BY <1>24 DEF IabRestore
  <2>2. SameCall(g, f(t)) BY <1>3
  <2>3. Kin(c(t), k) BY <1>4
  <2> HIDE DEF g, k
  <2> QED BY <1>2, <2>1, <2>2, <2>3
<1> QED BY <1>2, <1>5, <1>6, <1>7, <1>8, <1>9, <1>10, <1>11, <1>12, <1>13, <1>14, <1>15, <1>16,
           <1>17, <1>18, <1>19, <1>20, <1>21, <1>22, <1>23, <1>24 DEF Step
=============================================================================
