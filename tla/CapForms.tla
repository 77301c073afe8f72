------------------------------ MODULE CapForms ------------------------------
(***************************************************************************)
(* The representations of libcap's objects: the text of a cap_t and of a   *)
(* cap_iab_t (libcap/cap_text.c), the external form (libcap/cap_extint.c), *)
(* the extended attribute of a file (libcap/cap_file.c), and the highest   *)
(* capability, which most of them depend on (libcap/cap_alloc.c).          *)
(*                                                                         *)
(* A text is the sequence of its clauses; a token in it names a capability *)
(* or gives its number.  A set of bits is the set of their numbers; words  *)
(* and bytes matter where the code treats them apart.                      *)
(***************************************************************************)
EXTENDS Integers, Sequences, FiniteSets, SequencesExt, FiniteSetsExt

CONSTANTS
    Blks,           \* __CAP_BLKS: words of a capability set
    WordBytes,      \* bytes of a word (4)
    ByteBits,       \* bits of a byte (8)
    CAP_BITS,       \* __CAP_BITS: how many capabilities have a name
    Kernels,        \* how many capabilities the kernel may have
    Versions,       \* the capability ABI of the kernel: 1, 2 or 3
    NULL            \* what a failed conversion returns

WordBits == WordBytes * ByteBits
MAXBITS == Blks * WordBits
CAP_SET_SIZE == Blks * WordBytes
Values == 0 .. MAXBITS - 1

ASSUME FormsAssumption == /\ {Blks, WordBytes, ByteBits} \subseteq Nat \ {0}
                          /\ CAP_BITS \in 1 .. MAXBITS
                          /\ Kernels \subseteq 0 .. MAXBITS + 1
                          /\ Versions \subseteq 1 .. 3

Flags == {"E", "P", "I"}
CapObject == [Flags -> SUBSET Values]
IabObject == [i : SUBSET Values, a : SUBSET Values, nb : SUBSET Values]

ASSUME NullAssumption == NULL \notin CapObject /\ NULL \notin IabObject

NoFlags == [fl \in Flags |-> {}]

-----------------------------------------------------------------------------
(* The highest capability: cap_get_bound(c) fails above it.                *)

cap_get_bound(kernel, x) == IF x < kernel THEN 1 ELSE -1

(* Mutant: the upper end is never probed. *)
BinarySearchOpen(kernel) ==
    LET search[r \in (0 .. MAXBITS + 1) \X (-1 .. MAXBITS)] ==
            LET min == r[1]  max == r[2]  mid == (min + max) \div 2
            IN IF min >= max THEN min
               ELSE IF cap_get_bound(kernel, mid) < 0 THEN search[<<min, mid - 1>>]
               ELSE search[<<mid + 1, max>>]
    IN search[<<0, MAXBITS>>]

binary_search(kernel) ==
    LET search[r \in (0 .. MAXBITS + 1) \X (-1 .. MAXBITS)] ==
            LET min == r[1]  max == r[2]  mid == (min + max) \div 2
            IN IF min > max THEN min
               ELSE IF cap_get_bound(kernel, mid) < 0 THEN search[<<min, mid - 1>>]
               ELSE search[<<mid + 1, max>>]
    IN search[<<0, MAXBITS>>]

cap_max_bits(kernel) ==
    LET min == binary_search(kernel)
    IN IF min \in 1 .. MAXBITS THEN min ELSE CAP_BITS

(* What the representations depend on: the highest capability, the ABI and *)
(* whether lookupname() was built with gperf.                              *)
Library(kernel, version, gperf) ==
    [cmb |-> cap_max_bits(kernel), version |-> version, gperf |-> gperf]

(* The bits of the first blks words that the kernel has, word by word. *)
forceall(cmb, blks) ==
    {x \in 0 .. blks * WordBits - 1 :
        LET base == WordBits * (x \div WordBits)
        IN \/ cmb >= base + WordBits
           \/ cmb > base /\ x - base < cmb % WordBits}

-----------------------------------------------------------------------------
(* Names                                                                   *)

Token == {"name", "number"} \X Nat

cap_to_name(x) == IF x < CAP_BITS THEN <<"name", x>> ELSE <<"number", x>>

(* Without gperf only the names of capabilities the kernel has are known.  *)
lookupname(token, lib) ==
    LET x == token[2]
        known == IF token[1] = "number" THEN x < MAXBITS
                 ELSE x < CAP_BITS /\ (lib.gperf \/ x < lib.cmb)
    IN IF known THEN x ELSE -1

-----------------------------------------------------------------------------
(* The text of a cap_t.  A clause has a list of capabilities, or none, and *)
(* actions <<operation, flags>>: "+" and "-", the first also "=", "=+" or  *)
(* "=-".  all says whether "all" is listed, before what is listed before   *)
(* the last "all".                                                         *)

CapText == Seq([all : BOOLEAN, before : SUBSET Token, tokens : SUBSET Token,
                acts : Seq({"=", "+", "-", "=+", "=-"} \X SUBSET Flags)])

Clause(all, tokens, acts) ==
    [all |-> all, before |-> {}, tokens |-> tokens, acts |-> acts]
Listed(cl) == cl.all \/ cl.before \cup cl.tokens # {}

ClauseOk(cl, lib) ==
    /\ cl.acts # <<>>
    /\ \A tok \in cl.before \cup cl.tokens : lookupname(tok, lib) # -1
    /\ \A j \in DOMAIN cl.acts :
          /\ cl.acts[j][1] \notin {"+", "-"} => j = 1
          /\ cl.acts[j][1] # "=" => Listed(cl) /\ cl.acts[j][2] # {}

(* The bits of a clause: "all", or no list, stands for the kernel's, and   *)
(* "all" overwrites the list so far.                                       *)
ClauseBits(cl, lib) ==
    LET blks == IF lib.version = 1 THEN 1 ELSE Blks
        kept == IF cl.all THEN cl.tokens ELSE cl.before \cup cl.tokens
    IN (IF cl.all \/ ~ Listed(cl) THEN forceall(lib.cmb, blks) ELSE {})
       \cup ({lookupname(tok, lib) : tok \in kept} \cap 0 .. blks * WordBits - 1)

Act(caps, act, bits) ==
    LET op == act[1]
        from == IF op \in {"=", "=+", "=-"} THEN [fl \in Flags |-> caps[fl] \ bits]
                ELSE caps
    IN [fl \in Flags |-> IF fl \notin act[2] THEN from[fl]
                         ELSE IF op \in {"=", "=+", "+"} THEN from[fl] \cup bits
                         ELSE from[fl] \ bits]

(* A clause changes the object by one action after another. *)
ClauseDo(caps, cl, lib) ==
    LET done[j \in 0 .. Len(cl.acts)] ==
            IF j = 0 THEN caps ELSE Act(done[j - 1], cl.acts[j], ClauseBits(cl, lib))
    IN done[Len(cl.acts)]

cap_from_text(text, lib) ==
    LET read[j \in 0 .. Len(text)] ==
            IF j = 0 THEN NoFlags
            ELSE IF read[j - 1] = NULL \/ ~ ClauseOk(text[j], lib) THEN NULL
            ELSE ClauseDo(read[j - 1], text[j], lib)
    IN read[Len(text)]

(* The combinations of flags by their number, E, P and I being 1, 2 and 4. *)
Combination(t) == {fl \in Flags : \/ fl = "E" /\ t % 2 = 1
                                  \/ fl = "P" /\ (t \div 2) % 2 = 1
                                  \/ fl = "I" /\ t \div 4 = 1}

getstateflags(caps, x) == {fl \in Flags : x \in caps[fl]}

(* The members of 'among' whose flags are those of number t.          *)
Sharing(caps, t, among) == {x \in among : getstateflags(caps, x) = Combination(t)}
Names(bits) == {cap_to_name(x) : x \in bits}

(* The first clause gives all bits the most frequent combination, of the   *)
(* most frequent the one with the smallest number.                         *)
Prevailing(caps, named) ==
    LET histo(t) == Cardinality(Sharing(caps, t, named))
    IN CHOOSE t \in 0 .. 7 :
          \A s \in 0 .. 7 : histo(t) > histo(s) \/ (histo(t) = histo(s) /\ t <= s)

(* The members of a set of numbers, the smallest first. *)
Ascending(S) ==
    [j \in 1 .. Cardinality(S) |-> CHOOSE t \in S : Cardinality({u \in S : u <= t}) = j]

(* Bits of no combination ("= " before the first group) need not be        *)
(* mentioned first: "= x+ep" becomes "x=ep".  Bits above the kernel's are  *)
(* not part of the first clause, so that they are all "+".                 *)
cap_to_text(caps, lib) ==
    LET named == 0 .. lib.cmb - 1
        upper == lib.cmb .. MAXBITS - 1
        m     == Prevailing(caps, named)
        used(t)  == t # m /\ Sharing(caps, t, named) # {}
        above(t) == t # 0 /\ Sharing(caps, t, upper) # {}
        groups == Reverse(Ascending({t \in 0 .. 7 : used(t)}))
        short  == m = 0 /\ groups # <<>>
        acts(j) ==
            LET plus  == Combination(groups[j]) \ Combination(m)
                minus == Combination(m) \ Combination(groups[j])
            IN (IF plus = {} THEN <<>>
                ELSE <<<<IF short /\ j = 1 THEN "=" ELSE "+", plus>>>>)
               \o (IF minus = {} THEN <<>> ELSE <<<<"-", minus>>>>)
        rest == Reverse(Ascending({t \in 0 .. 7 : above(t)}))
    IN (IF short THEN <<>> ELSE <<Clause(FALSE, {}, <<<<"=", Combination(m)>>>>)>>)
       \o [j \in DOMAIN groups |->
             Clause(FALSE, Names(Sharing(caps, groups[j], named)), acts(j))]
       \o [j \in DOMAIN rest |->
             Clause(FALSE, Names(Sharing(caps, rest[j], upper)),
                    <<<<"+", Combination(rest[j])>>>>)]

(* The bits a text can say something of: a kernel with the first ABI has   *)
(* one word, and a library without gperf does not know the names of        *)
(* capabilities that the kernel lacks.                                     *)
Speakable(bits, lib) ==
    /\ lib.version = 1 => bits \subseteq 0 .. WordBits - 1
    /\ lib.gperf \/ \A x \in bits : x >= lib.cmb => x >= CAP_BITS
BitsOf(caps) == UNION {caps[fl] : fl \in Flags}

-----------------------------------------------------------------------------
(* The text of a cap_iab_t: items with their prefixes "!", "^" and "%".    *)

(* Mutant: an Inheritable bit that is also blocked is written "!". *)
IabPrefixesNoI(iab, x) == {p \in {"!", "^"} : \/ p = "!" /\ x \in iab.nb
                                              \/ p = "^" /\ x \in iab.a}

IabPrefixes(iab, x) ==
    {p \in {"!", "^", "%"} : \/ p = "!" /\ x \in iab.nb
                             \/ p = "^" /\ x \in iab.a
                             \/ p = "%" /\ x \in (iab.nb \cap iab.i) \ iab.a}

cap_iab_to_text(iab, lib) ==
    LET named == Ascending((iab.i \cup iab.a \cup iab.nb) \cap 0 .. lib.cmb - 1)
    IN [j \in DOMAIN named |-> <<IabPrefixes(iab, named[j]), cap_to_name(named[j])>>]

cap_iab_from_text(text, lib) ==
    LET item(j) == lookupname(text[j][2], lib)
        with(p) == {item(j) : j \in {k \in DOMAIN text : p \in text[k][1]}}
        plain   == {item(j) : j \in {k \in DOMAIN text : text[k][1] = {}}}
    IN IF \E j \in DOMAIN text : item(j) = -1 THEN NULL
       ELSE [i |-> plain \cup with("%") \cup with("^"), a |-> with("^"), nb |-> with("!")]

(* cap_iab_get_pid reads the sets of a process from the kernel's hex dump, *)
(* masked to the bits the kernel has.                                      *)
cap_iab_get_pid(k, lib) ==
    LET bits(set) == forceall(lib.cmb, Blks) \cap set
    IN [i |-> bits(k.I), a |-> bits(k.A), nb |-> bits(Values \ k.B)]

-----------------------------------------------------------------------------
(* The external form: a length, and the bytes of the three sets.           *)

ByteOf(x) == x \div ByteBits
HeaderSize == 5                     \* CAP_EXT_MAGIC_SIZE + 1
MinExtFlagSize == IF CAP_SET_SIZE < 8 THEN CAP_SET_SIZE ELSE 8

cap_size(caps) ==
    LET used == Max({0} \cup {ByteOf(x) + 1 : x \in UNION {caps[fl] : fl \in Flags}})
    IN HeaderSize + 3 * (IF used < MinExtFlagSize THEN MinExtFlagSize ELSE used)

cap_copy_ext(caps, length) ==
    LET len == (cap_size(caps) - HeaderSize) \div 3
    IN IF cap_size(caps) > length THEN NULL
       ELSE [len |-> len,
             bytes |-> [j \in 0 .. len - 1 |->
                          [fl \in Flags |-> {x - j * ByteBits :
                                               x \in {y \in caps[fl] : ByteOf(y) = j}}]]]

(* Mutant: the last byte of the form is not read. *)
cap_copy_int_short(ext) ==
    [fl \in Flags |-> {x \in Values : /\ ByteOf(x) < ext.len - 1
                                      /\ x % ByteBits \in ext.bytes[ByteOf(x)][fl]}]

(* Bytes past those there are are zero, those past the set are not read. *)
cap_copy_int(ext) ==
    [fl \in Flags |-> {x \in Values : /\ ByteOf(x) < ext.len
                                      /\ x % ByteBits \in ext.bytes[ByteOf(x)][fl]}]

cap_copy_int_check(ext, length) ==
    IF length < HeaderSize \/ length < HeaderSize + 3 * ext.len THEN NULL
    ELSE cap_copy_int(ext)

-----------------------------------------------------------------------------
(* The extended attribute of a file: a revision, one bit for the Effective *)
(* flag, two sets and from revision 3 the root id of a user namespace.     *)

Attribute == [rev : Nat, size : Nat, eff : BOOLEAN, P : SUBSET Values, I : SUBSET Values,
              rootid : Nat]

VfsWords(rev) == IF rev = 1 THEN 1 ELSE Blks
WordsUpTo(n) == 0 .. n * WordBits - 1

(* Mutant: the Effective flag follows the Permitted one only. *)
fcaps_load_permitted(raw) ==
    [caps |-> [E |-> IF raw.eff THEN raw.P \cap WordsUpTo(VfsWords(raw.rev)) ELSE {},
               P |-> raw.P \cap WordsUpTo(VfsWords(raw.rev)),
               I |-> raw.I \cap WordsUpTo(VfsWords(raw.rev))],
     rootid |-> IF raw.rev = 3 THEN raw.rootid ELSE 0]

(* size is the revision that has as many bytes as were read. *)
fcaps_load(raw) ==
    LET bits == WordsUpTo(VfsWords(raw.rev))
    IN IF raw.rev \notin 1 .. 3 \/ raw.size # raw.rev THEN NULL
       ELSE [caps |-> [E |-> IF raw.eff THEN (raw.P \cup raw.I) \cap bits ELSE {},
                       P |-> raw.P \cap bits, I |-> raw.I \cap bits],
             rootid |-> IF raw.rev = 3 THEN raw.rootid ELSE 0]

fcaps_save(caps, rootid, lib) ==
    LET rev   == IF rootid # 0 THEN 3 ELSE IF lib.version = 1 THEN 1 ELSE 2
        bits  == WordsUpTo(VfsWords(rev))
        lost  == UNION {caps[fl] \ bits : fl \in Flags}
        eff   == caps.E \cap bits # {}
    IN IF \/ rootid # 0 /\ lib.version < 3
          \/ lost # {}
          \/ eff /\ ~ (caps.P \cup caps.I) \subseteq caps.E
       THEN NULL
       ELSE [rev |-> rev, size |-> rev, eff |-> eff, P |-> caps.P, I |-> caps.I,
             rootid |-> rootid]
=============================================================================
