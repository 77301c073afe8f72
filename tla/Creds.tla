------------------------------- MODULE Creds -------------------------------
(***************************************************************************)
(* What libcap's state-setting calls (libcap/cap_proc.c) rely on the Linux *)
(* kernel to do with the credentials of a process: for each system call,   *)
(* the condition under which it succeeds and the credentials it leaves.    *)
(* This is external code, described as far as cap_proc.c uses it: a single *)
(* uid and gid (libcap changes all of the real, effective and saved ids    *)
(* together) and no user namespaces.                                       *)
(***************************************************************************)
EXTENDS Integers, FiniteSets

CONSTANTS
    MaxBits,            \* the capabilities the kernel has: 0 .. MaxBits-1
    CAP_SETPCAP, CAP_SETUID, CAP_SETGID, CAP_SYS_CHROOT,
    Uids, Gids, Roots   \* ids and root directories; 0 is root, resp. "/"

Caps == 0 .. MaxBits - 1

ASSUME CredsAssumption ==
    /\ MaxBits \in Nat \ {0}
    /\ {CAP_SETPCAP, CAP_SETUID, CAP_SETGID, CAP_SYS_CHROOT} \subseteq Caps
    /\ 0 \in Uids /\ 0 \in Gids /\ 0 \in Roots

(* The securebits; a *_LOCKED bit freezes its companion and itself. *)
LockOf == [NOROOT |-> "NOROOT_LOCKED",
           NO_SETUID_FIXUP |-> "NO_SETUID_FIXUP_LOCKED",
           KEEP_CAPS |-> "KEEP_CAPS_LOCKED",
           NO_CAP_AMBIENT_RAISE |-> "NO_CAP_AMBIENT_RAISE_LOCKED"]

SecBits == DOMAIN LockOf \cup {LockOf[b] : b \in DOMAIN LockOf}

(* P, E, I, A and B are the five sets; ambient says whether the kernel is  *)
(* one that has A at all (else it is empty).                               *)
Cred == [P : SUBSET Caps, E : SUBSET Caps, I : SUBSET Caps, A : SUBSET Caps,
         B : SUBSET Caps, sec : SUBSET SecBits, nnp : BOOLEAN,
         uid : Uids, gid : Gids, groups : Gids, root : Roots, ambient : BOOLEAN]

(* The three flags of a cap_t. *)
CapT == [P : SUBSET Caps, E : SUBSET Caps, I : SUBSET Caps]

-----------------------------------------------------------------------------
(* capset(2) *)
CapsetOk(c, w) == /\ w.P \subseteq c.P
                  /\ w.E \subseteq w.P
                  /\ w.I \subseteq c.I \cup c.B
                  /\ CAP_SETPCAP \in c.E \/ w.I \subseteq c.I \cup c.P

Capset(c, w) ==
    IF CapsetOk(c, w)
    THEN [c EXCEPT !.P = w.P, !.E = w.E, !.I = w.I, !.A = @ \cap w.P \cap w.I]
    ELSE c

(* prctl(PR_CAPBSET_DROP) *)
DropOk(c) == CAP_SETPCAP \in c.E
Drop(c, x) == IF DropOk(c) THEN [c EXCEPT !.B = @ \ {x}] ELSE c

(* prctl(PR_CAP_AMBIENT, RAISE | LOWER | CLEAR_ALL) *)
RaiseOk(c, x) == /\ c.ambient
                 /\ x \in c.P \cap c.I
                 /\ "NO_CAP_AMBIENT_RAISE" \notin c.sec
RaiseAmbient(c, x) == IF RaiseOk(c, x) THEN [c EXCEPT !.A = @ \cup {x}] ELSE c
LowerAmbient(c, x) == [c EXCEPT !.A = @ \ {x}]
ClearAmbient(c) == [c EXCEPT !.A = {}]

(* prctl(PR_SET_SECUREBITS) *)
SecbitsOk(c, bits) ==
    /\ CAP_SETPCAP \in c.E
    /\ \A b \in DOMAIN LockOf :
          LockOf[b] \in c.sec => /\ LockOf[b] \in bits
                                 /\ b \in bits <=> b \in c.sec
SetSecbits(c, bits) == IF SecbitsOk(c, bits) THEN [c EXCEPT !.sec = bits] ELSE c

(* prctl(PR_SET_KEEPCAPS) *)
SetKeepCaps(c, on) ==
    IF "KEEP_CAPS_LOCKED" \in c.sec THEN c
    ELSE [c EXCEPT !.sec = IF on THEN @ \cup {"KEEP_CAPS"} ELSE @ \ {"KEEP_CAPS"}]

(* prctl(PR_SET_NO_NEW_PRIVS) *)
SetNoNewPrivs(c) == [c EXCEPT !.nnp = TRUE]

(* setuid(2), with the adjustment of the capability sets it brings. *)
SetuidOk(c, u) == CAP_SETUID \in c.E \/ u = c.uid
Fixup(c, u) ==
    LET leaves  == c.uid = 0 /\ u # 0
        becomes == c.uid # 0 /\ u = 0
        keep    == "KEEP_CAPS" \in c.sec
    IN IF "NO_SETUID_FIXUP" \in c.sec THEN c
       ELSE CASE leaves  -> [c EXCEPT !.P = IF keep THEN @ ELSE {}, !.E = {}, !.A = {}]
              [] becomes -> [c EXCEPT !.E = c.P]
              [] OTHER   -> c
Setuid(c, u) == IF SetuidOk(c, u) THEN [Fixup(c, u) EXCEPT !.uid = u] ELSE c

(* setgid(2), setgroups(2), chroot(2) *)
SetgidOk(c, g) == CAP_SETGID \in c.E \/ g = c.gid
Setgid(c, g) == IF SetgidOk(c, g) THEN [c EXCEPT !.gid = g] ELSE c
SetgroupsOk(c) == CAP_SETGID \in c.E
Setgroups(c, g) == IF SetgroupsOk(c) THEN [c EXCEPT !.groups = g] ELSE c
ChrootOk(c) == CAP_SYS_CHROOT \in c.E
Chroot(c, r) == IF ChrootOk(c) THEN [c EXCEPT !.root = r] ELSE c
=============================================================================
