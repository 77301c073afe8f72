---------------------------- MODULE MCCapObjects ----------------------------
(* The objects and calls of the run. *)
EXTENDS CapObjects

CONSTANTS t1, t2, c1, c2, i1, i2, l1, l2

(* A call whose other arguments do not matter. *)
K(op, tgt, ref, to, from, bits, raise) ==
    [op |-> op, tgt |-> tgt, ref |-> ref, to |-> to, from |-> from, bits |-> bits,
     raise |-> raise]

MCCalls ==
    {K("cap_set_flag", c1, c1, "P", "P", Words, TRUE),
     K("cap_set_flag", c1, c1, "P", "P", {0}, FALSE),
     K("cap_get_flag", c1, c1, "P", "P", {0}, TRUE),
     K("cap_clear", c1, c1, "P", "P", {}, TRUE),
     K("cap_clear_flag", c2, c2, "P", "P", {}, TRUE),
     K("cap_compare", c1, c2, "P", "P", {}, TRUE),
     K("cap_compare", c2, c1, "P", "P", {}, TRUE),
     K("cap_compare", c1, i1, "P", "P", {}, TRUE),
     K("cap_fill_flag", c1, c1, "E", "P", {}, TRUE),
     K("cap_fill_flag", c2, c1, "P", "P", {}, TRUE),
     K("cap_dup", c2, c1, "P", "P", {}, TRUE),
     K("cap_iab_set_vector", i1, i1, "i", "P", Words, TRUE),
     K("cap_iab_set_vector", i1, i1, "i", "P", {1}, FALSE),
     K("cap_iab_set_vector", i1, i1, "a", "P", Words, TRUE),
     K("cap_iab_get_vector", i1, i1, "a", "P", {1}, TRUE),
     K("cap_iab_fill", i1, c1, "i", "P", {}, TRUE),
     K("cap_iab_fill", i1, c1, "a", "P", {}, TRUE),
     K("cap_iab_fill", i1, c1, "nb", "P", {}, TRUE),
     K("cap_iab_compare", i1, i2, "i", "P", {}, TRUE),
     K("cap_iab_compare", i2, i1, "i", "P", {}, TRUE),
     K("cap_iab_dup", i2, i1, "i", "P", {}, TRUE),
     K("cap_launcher_set_iab", l1, i1, "i", "P", {}, TRUE),
     K("cap_launcher_set_iab", l1, l1, "i", "P", {}, TRUE),
     K("cap_launcher_set_iab", l2, i1, "i", "P", {}, TRUE),
     K("cap_launcher_set_iab", l2, i2, "i", "P", {}, TRUE)}
=============================================================================
