------------------------------ MODULE MCCapsh ------------------------------
(* Command lines, users and starting credentials of the run. *)
EXTENDS Capsh

MCHome == [t \in {"capsh"} |-> "capsh"]
MCUsers == [root |-> [uid |-> 0, gid |-> 0], bob |-> [uid |-> 1, gid |-> 1]]

SomeSecbits == {{}, {"KEEP_CAPS"}, {"KEEP_CAPS_LOCKED"}, {"NOROOT", "NOROOT_LOCKED"},
                {"NO_CAP_AMBIENT_RAISE", "NO_CAP_AMBIENT_RAISE_LOCKED"},
                CAP_SECURED_BITS_BASIC, CAP_SECURED_BITS_AMBIENT}

(* Every state of the capability sets a kernel allows. *)
AnyCreds ==
    {kk \in [P : SUBSET Caps, E : SUBSET Caps, I : SUBSET Caps, A : SUBSET Caps,
             B : SUBSET Caps, sec : SomeSecbits, nnp : {FALSE},
             uid : Uids, gid : {0}, groups : {0}, root : {0}, ambient : BOOLEAN] :
        /\ kk.E \subseteq kk.P
        /\ kk.A \subseteq kk.P \cap kk.I
        /\ ~ kk.ambient => kk.A = {}}

Usual == {kk \in AnyCreds : /\ kk.sec = {} /\ kk.B = Caps /\ kk.ambient /\ kk.A = {}
                            /\ kk.P = Caps /\ kk.E \in {{}, Caps} /\ kk.I \in {{}, {0}}}

MCStarts == [cred : AnyCreds, kind : {"any"}, length : {1}]
               \cup [cred : Usual, kind : {"line"}, length : {3}]

TextNames(xs) == {<<"name", x>> : x \in xs}
Calls1 == {<<"mode", m>> : m \in Modes} \cup {<<"cap-uid", u>> : u \in Uids}
             \cup {<<"iab", iab>> : iab \in {b \in Iab : b.a \subseteq b.i}}
             \cup {<<"noamb", 0>>, <<"user", "root">>, <<"user", "bob">>}
Effects1 == {<<n, xs>> : n \in {"drop", "addamb", "delamb"}, xs \in SUBSET Caps}
               \cup {<<"inh", TextNames(xs)>> : xs \in SUBSET Caps}
               \cup {<<"caps", w>> : w \in CapT} \cup {<<"caps", NULL>>}
               \cup {<<"chroot", 1>>}

Line == {<<"mode", m>> : m \in Modes} \cup {<<"uid", u>> : u \in Uids}
    \cup {<<"cap-uid", 1>>, <<"user", "bob">>, <<"noamb", 0>>,
          <<"iab", [i |-> Caps, a |-> Caps, nb |-> {}]>>,
          <<"iab", [i |-> {1}, a |-> {}, nb |-> {0}]>>,
          <<"drop", Caps>>, <<"drop", {0}>>, <<"addamb", {0}>>, <<"delamb", {0}>>,
          <<"inh", TextNames({0})>>, <<"inh", {}>>, <<"chroot", 1>>,
          <<"caps", [P |-> Caps, E |-> Caps, I |-> {}]>>,
          <<"caps", [P |-> {1}, E |-> {1}, I |-> {1}]>>,
          <<"keep", TRUE>>, <<"keep", FALSE>>, <<"secbits", {"KEEP_CAPS"}>>,
          <<"secbits", CAP_SECURED_BITS_AMBIENT>>, <<"gid", 1>>, <<"groups", 1>>,
          <<"no-new-privs", 0>>, <<"strict", 0>>,
          <<"forkfor", 1>>, <<"killit", 9>>, <<"==", 0>>, <<"--", 0>>,
          <<"dropped", 0>>, <<"has-ambient", 0>>, <<"inmode", "PURE1E">>, <<"has-p", 0>>,
          <<"has-i", 0>>, <<"has-a", 0>>, <<"has-b", 0>>, <<"is-uid", 1>>,
          <<"is-gid", 1>>, <<"has-no-new-privs", 0>>}

MCCommands == [any |-> Calls1 \cup Effects1, line |-> Line]
MCPrograms == {[P |-> {}, I |-> {}, eff |-> FALSE], [P |-> Caps, I |-> Caps, eff |-> TRUE]}
=============================================================================
