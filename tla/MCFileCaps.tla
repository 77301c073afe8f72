----------------------------- MODULE MCFileCaps -----------------------------
(* A path, two files, a link and a directory; sets of two words of two bits each. *)
EXTENDS FileCaps

Reg == "file"
Locked == "unreadable"
Files == {Reg, Locked, "link", "dir"}
Kinds == [x \in Files |-> IF x \in {Reg, Locked} THEN "reg" ELSE x]

(* Attributes as other programs leave them: all revisions, one with the    *)
(* wrong size and one of an unknown revision.                              *)
SomeAttributes ==
    {[rev |-> 1, size |-> 1, eff |-> TRUE, P |-> {0}, I |-> {1}, rootid |-> 0],
     [rev |-> 2, size |-> 2, eff |-> FALSE, P |-> {0, 3}, I |-> {1}, rootid |-> 0],
     [rev |-> 3, size |-> 3, eff |-> TRUE, P |-> {0, 1}, I |-> {2}, rootid |-> 1],
     [rev |-> 2, size |-> 3, eff |-> TRUE, P |-> {0}, I |-> {}, rootid |-> 0],
     [rev |-> 4, size |-> 3, eff |-> TRUE, P |-> {0}, I |-> {}, rootid |-> 0]}

(* All objects, up to the exchange of capabilities 0 and 1, which have a   *)
(* name and are in the same word.                                          *)
Number(caps, x) == (IF x \in caps.E THEN 1 ELSE 0) + (IF x \in caps.P THEN 2 ELSE 0)
                   + (IF x \in caps.I THEN 4 ELSE 0)
AllCaps == {caps \in CapObject : Number(caps, 0) <= Number(caps, 1)}
AllIabs == {iab \in IabObject : iab.a \subseteq iab.i}

Name(x) == <<"name", x>>
SomeTexts ==
    {<<>>,
     <<Clause(FALSE, {}, <<<<"=", {}>>>>)>>,
     <<Clause(TRUE, {}, <<<<"=", {"E", "P"}>>>>)>>,
     <<Clause(FALSE, {Name(0)}, <<<<"=", {"E", "P", "I"}>>, <<"-", {"I"}>>>>)>>,
     <<Clause(FALSE, {Name(0)}, <<<<"+", {"P"}>>>>),
       Clause(FALSE, {Name(1)}, <<<<"=+", {"E"}>>>>)>>,
     <<Clause(FALSE, {Name(0)}, <<<<"+", {"E"}>>>>)>>,
     <<Clause(FALSE, {<<"number", 3>>}, <<<<"+", {"I"}>>>>)>>,
     <<[Clause(TRUE, {}, <<<<"=", {"P"}>>>>) EXCEPT !.before = {<<"number", 3>>}]>>,
     <<Clause(FALSE, {<<"number", 4>>}, <<<<"=-", {"P"}>>>>)>>}
=============================================================================
