----------------------------- MODULE MCCapProc -----------------------------
(* One process, and the calls and starting credentials of the runs. *)
EXTENDS CapProc, TLC

CONSTANTS t1, t2

TwoThreads == {t1, t2}
OneProc == {"p"}
HomeOfTwo == [t \in {t1, t2} |-> "p"]
Interchangeable == Permutations(TwoThreads)

(* Root with all capabilities, with and without something to inherit. *)
RootCreds == {[P |-> Caps, E |-> Caps, I |-> i, A |-> a, B |-> Caps, sec |-> {},
               nnp |-> FALSE, uid |-> 0, gid |-> 0, groups |-> 0, root |-> 0,
               ambient |-> TRUE] :
                 i \in {{}, Caps}, a \in {{}}}

UidCalls == {<<"setuid", u>> : u \in Uids}

(* For the interleavings: the whole-process changes and what races them. *)
RacingCalls == UidCalls \cup
    {<<"set_mode", "NOPRIV">>, <<"set_mode", "PURE1E">>, <<"set_mode", "HYBRID">>,
     <<"iab_set_proc", [i |-> Caps, a |-> Caps, nb |-> {}]>>,
     <<"iab_set_proc", [i |-> {}, a |-> {}, nb |-> {0}]>>,
     <<"reset_ambient", 0>>,
     <<"set_proc", [P |-> Caps, E |-> Caps, I |-> Caps]>>,
     <<"drop_bound", 0>>, <<"raise_ambient", 0>>, <<"lower_ambient", 0>>,
     <<"set_secbits", {"KEEP_CAPS"}>>, <<"setgroups", 1>>, <<"chroot", 1>>}
ModeAndUid == {<<"set_mode", "NOPRIV">>, <<"setuid", 1>>}
=============================================================================
