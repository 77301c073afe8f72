------------------------------ MODULE MCSuCap ------------------------------
(* Instances of SuCap: users, configurations and credentials. *)
EXTENDS SuCap

MCHome == [t \in {"su", "shell"} |-> t]
MCPasswd == [root |-> [uid |-> 0, gid |-> 0], bin |-> [uid |-> 1, gid |-> 1],
             bob |-> [uid |-> 3, gid |-> 1]]
MCGroupsOf == [root |-> {0}, bin |-> {1}, bob |-> {1}]

(* su installed with its capabilities, or short of one, and started by     *)
(* root, by TEMP_UID or by another user, who may have inheritable ones.    *)
Installed(P, I, uid, sec) ==
    [P |-> P, E |-> {}, I |-> I, A |-> {}, B |-> Caps, sec |-> sec, nnp |-> FALSE,
     uid |-> uid, gid |-> 0, groups |-> 0, root |-> 0, ambient |-> TRUE]
Everyday == {Installed(Caps, {}, 0, {}), Installed(Caps, {}, 1, {}),
             Installed(Caps, {CAP_CHOWN}, 2, {})}
Short == {Installed(Caps \ {x}, {}, 2, {}) :
             x \in {CAP_SETPCAP, CAP_SETUID, CAP_SETGID, CAP_CHOWN}}
Secured == {Installed(Caps, {}, 0, {"KEEP_CAPS_LOCKED"}),
            Installed(Caps, {}, 2, CAP_SECURED_BITS_AMBIENT)}
MCInit == Everyday \cup Short \cup Secured

Line(rule, ids) == [caps |-> rule, ids |-> ids]
Tuple(i, a, nb) == <<"iab", [i |-> i, a |-> a, nb |-> nb]>>
Bob == Line(Tuple({CAP_KILL}, {CAP_KILL}, {CAP_SETPCAP}), {<<"user", "bob">>})
Bins == Line(Tuple({CAP_SETUID}, {}, {}), {<<"@", 1>>})
File(lines) == [there |-> TRUE, writable |-> FALSE, lines |-> lines]
MCConfigs ==
    {File(<<Bob, Bins>>),
     File(<<Line(<<"none">>, {<<"user", "bob">>}), Line(<<"bad">>, {<<"*">>}), Bob>>),
     [there |-> TRUE, writable |-> TRUE, lines |-> <<Bob>>]}

Argument(defer, keepcaps, autoauth, fallback) ==
    [defer |-> defer, keepcaps |-> keepcaps, autoauth |-> autoauth, fallback |-> fallback]
MCArguments == {Argument(FALSE, FALSE, FALSE, Nothing), Argument(FALSE, TRUE, TRUE, <<"all">>),
                Argument(TRUE, FALSE, FALSE, <<"none">>), Argument(TRUE, TRUE, TRUE, Nothing)}
=============================================================================
