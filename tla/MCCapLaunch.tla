---------------------------- MODULE MCCapLaunch ----------------------------
(* Launchers, settings and starting credentials of the runs. *)
EXTENDS CapLaunch, TLC

CONSTANTS t1, t2, l1, l2, c1, c2, i1, i2

MCHome == [ch \in {c1, c2} |-> ch]

(* All capabilities, or all but one. *)
ParentCreds ==
    {[P |-> p, E |-> {}, I |-> IF u = 0 THEN {} ELSE Caps, A |-> {}, B |-> Caps,
      sec |-> {}, nnp |-> FALSE, uid |-> u, gid |-> 0, groups |-> 0, root |-> 0, ambient |-> TRUE] :
        p \in {Caps, Caps \ {0}, Caps \ {1}}, u \in {0, 1}}
Root == [P |-> Caps, E |-> Caps, I |-> {}, A |-> {}, B |-> Caps, sec |-> {},
         nnp |-> FALSE, uid |-> 0, gid |-> 0, groups |-> 0, root |-> 0, ambient |-> TRUE]
MCInitCreds == ParentCreds \cup {Root}

AllSettings == {<<"setuid", 1>>, <<"setgroups", 1>>, <<"chroot", 1>>}
                  \cup {<<"set_mode", m>> : m \in Modes}
NoCalls == {}

SomeIabs == {[i |-> Caps, a |-> Caps, nb |-> {}], [i |-> {0}, a |-> {}, nb |-> {0, 1}],
             [i |-> {1}, a |-> {1}, nb |-> {1}]}
DropIabs == {v \in SomeIabs : v.nb # {}}
TwoIabs == {[i |-> {1}, a |-> {1}, nb |-> {1}], [i |-> {}, a |-> {}, nb |-> {}]}

(* One launcher, configured and launched once. *)
Configure(creds0, vals, n) ==
    [from |-> creds0, threads |-> {t1}, children |-> {c1}, launchers |-> {l1},
     iabs |-> {i1}, values |-> vals, settings |-> AllSettings, sets |-> n, launches |-> 1,
     signals |-> FALSE]

(* Two threads launch, a program or a function, while signals arrive. *)
LaunchTwo == [from |-> {Root}, threads |-> {t1, t2}, children |-> {c1, c2},
              launchers |-> {l1, l2}, iabs |-> {}, values |-> {}, settings |-> {}, sets |-> 0,
              launches |-> 1, signals |-> TRUE]

(* Two threads associate IAB objects with launchers and change them. *)
ShareIabs == [from |-> {Root}, threads |-> {t1, t2}, children |-> {},
              launchers |-> {l1, l2}, iabs |-> {i1, i2}, values |-> TwoIabs,
              settings |-> {<<"set_mode", "PURE1E">>}, sets |-> 2, launches |-> 0,
              signals |-> FALSE]

MCPlans == {Configure(ParentCreds, SomeIabs, 2), Configure({Root}, DropIabs, 3),
            LaunchTwo, ShareIabs}
OneSetting == {Configure({Root}, DropIabs, 1)}
=============================================================================
