------------------------------ MODULE FileCaps ------------------------------
(***************************************************************************)
(* The capabilities of files: cap_set_file and cap_get_file of             *)
(* libcap/cap_file.c, the tools setcap and getcap (progs/), and any other  *)
(* program that passes its cap_t or cap_iab_t through the representations  *)
(* of CapForms.  Somebody else may rename files at every step.             *)
(***************************************************************************)
EXTENDS CapForms

CONSTANTS
    Paths, Nodes,   \* file names, and files
    KindOf,         \* file -> "reg", "dir", or "link" (to LinkTarget)
    LinkTarget,
    Readable,       \* the files open(O_RDONLY) succeeds on
    Attributes,     \* attributes one of the files may have to begin with
    Roles,          \* what the process may be: "setcap", "getcap", "caps", "iabs"
    CapValues, IabValues,   \* the objects a program may have to begin with
    Texts,          \* capability texts setcap may be given
    RootIds,        \* user ids for -n and cap_set_nsowner; 0 is not one
    MaxFiles,       \* bound: files setcap or getcap is given
    MaxOps,         \* bound: operations of another program
    MaxRenames,     \* bound: renames by somebody else
    None            \* no such file; no attribute

(* A cap_t with the root id that cap_set_nsowner gave it. *)
CapOwned == [caps : CapObject, rootid : Nat]

ASSUME FileCapsAssumption == /\ KindOf \in [Nodes -> {"reg", "dir", "link"}]
                             /\ LinkTarget \in Nodes /\ KindOf[LinkTarget] = "reg"
                             /\ Readable \subseteq Nodes
                             /\ RootIds \subseteq Nat \ {0}
                             /\ None \notin Nodes /\ None # NULL
                             /\ None \notin {"text", "iab", "ext", "pid"} /\ None # 0
                             /\ {MaxFiles, MaxOps, MaxRenames} \subseteq Nat
                             /\ {NULL, None} \cap CapOwned = {}
                             /\ {NULL, None} \cap Attribute = {}
                             /\ CapValues \subseteq CapObject
                             /\ IabValues \subseteq {iab \in IabObject : iab.a \subseteq iab.i}
                             /\ Attributes \subseteq Attribute
                             /\ Texts \subseteq CapText

VARIABLES
    lib,        \* what the library found when it was loaded
    kernel,     \* how many capabilities the kernel has
    dir,        \* path -> the file it names
    attr,       \* file -> its extended attribute
    renames,    \* renames so far
    me,         \* the process
    asked       \* history: file -> what it was last asked, with success, to hold

vars == <<lib, kernel, dir, attr, renames, me, asked>>

Object(caps, rootid) == [caps |-> caps, rootid |-> rootid]

(* cap is the cap_t in hand, orig (history) what it was before it was      *)
(* converted; form is the representation in hand; seen (history) the files *)
(* found at the path by the present call.                                  *)
Start(role, caps, iab) ==
    [role |-> role, pc |-> IF role \in {"caps", "iabs"} THEN "idle" ELSE "args",
     forced |-> FALSE, verify |-> FALSE, nsid |-> 0, privileged |-> FALSE,
     cap |-> Object(caps, 0), orig |-> caps, iab |-> iab, form |-> <<None>>,
     path |-> None, fd |-> None, seen |-> {}, ret |-> 0, errno |-> None,
     n |-> 0, log |-> <<>>, status |-> None]

NoIab == [i |-> {}, a |-> {}, nb |-> {}]

(* A program that brings objects of its own finds files without attributes. *)
Init ==
    /\ kernel \in Kernels
    /\ \E version \in Versions, gperf \in BOOLEAN : lib = Library(kernel, version, gperf)
    /\ renames = 0
    /\ asked = [x \in Nodes |-> None]
    /\ \/ /\ me \in {Start(role, NoFlags, NoIab) : role \in Roles \cap {"setcap", "getcap"}}
          /\ dir \in [Paths -> Nodes]
          /\ \E a \in Attributes \cup {None} :
                attr = [x \in Nodes |-> IF x = LinkTarget THEN a ELSE None]
       \/ /\ me \in {Start("caps", caps, NoIab) : caps \in CapValues}
                      \cup {Start("iabs", NoFlags, iab) : iab \in IabValues}
          /\ me.role \in Roles
          /\ dir = [p \in Paths |-> LinkTarget]
          /\ attr = [x \in Nodes |-> None]

(* History: what setcap set a file to (NULL for -r), or compared it with.  *)
Done(by, file, cap) == [by |-> by, file |-> file, cap |-> cap]

Same == UNCHANGED <<lib, kernel>>
OnlyMe(m) == me' = m /\ UNCHANGED <<dir, attr, renames, asked>> /\ Same
Exits(status) == OnlyMe([me EXCEPT !.pc = "exit", !.status = status])

(* Somebody puts another file at a path, or removes it. *)
Rename ==
    /\ renames < MaxRenames /\ me.role \in {"setcap", "getcap"}
    /\ me.pc \in {"file", "open", "open_path", "stat", "xattr", "get"}
    /\ \E p \in Paths, x \in Nodes \cup {None} :
          dir[p] # x /\ dir' = [dir EXCEPT ![p] = x]
    /\ renames' = renames + 1
    /\ UNCHANGED <<attr, me, asked>> /\ Same

-----------------------------------------------------------------------------
(* cap_set_file                                                            *)

(* Mutant: failure is a positive number. *)
ReturnsPositive(ret, errno) == [me EXCEPT !.pc = "returned", !.ret = -ret, !.errno = errno,
                                          !.fd = None]

Returns(ret, errno) == [me EXCEPT !.pc = "returned", !.ret = ret, !.errno = errno,
                                  !.fd = None]

(* open(O_RDONLY|O_NOFOLLOW), then cap_set_fd; else open(O_PATH|...). *)
Open ==
    /\ me.pc \in {"open", "open_path"}
    /\ LET x == dir[me.path]
           ok == /\ x # None
                 /\ me.pc = "open" => x \in Readable /\ KindOf[x] # "link"
       IN OnlyMe(IF ok THEN [me EXCEPT !.fd = x, !.pc = "stat", !.seen = @ \cup {x}]
                 ELSE IF me.pc = "open" THEN [me EXCEPT !.pc = "open_path"]
                 ELSE Returns(-1, "ENOENT"))

Stat ==
    /\ me.pc = "stat"
    /\ OnlyMe(IF KindOf[me.fd] # "reg" THEN Returns(-1, "EINVAL")
              ELSE [me EXCEPT !.pc = "xattr"])

(* What is written: the attribute, or that it is removed. *)
Raw == IF me.cap = NULL THEN None ELSE fcaps_save(me.cap.caps, me.cap.rootid, lib)

(* Mutant: the attribute is written by name. *)
SetXattrByName ==
    /\ me.pc = "xattr"
    /\ LET x == dir[me.path] IN
       IF x = None \/ Raw = NULL \/ ~ me.privileged THEN OnlyMe(Returns(-1, "EINVAL"))
       ELSE /\ attr' = [attr EXCEPT ![x] = Raw]
            /\ asked' = [asked EXCEPT ![x] = me.cap]
            /\ me' = Returns(0, None)
            /\ UNCHANGED <<dir, renames>> /\ Same

(* [f]setxattr or [f]removexattr on the file that is open: privileged says *)
(* whether CAP_SETFCAP is in effect.                                       *)
SetXattr ==
    /\ me.pc = "xattr"
    /\ LET x == me.fd IN
       IF Raw = NULL THEN OnlyMe(Returns(-1, "EINVAL"))
       ELSE IF ~ me.privileged THEN OnlyMe(Returns(-1, "EPERM"))
       ELSE IF Raw = None /\ attr[x] = None THEN OnlyMe(Returns(-1, "ENODATA"))
       ELSE /\ attr' = [attr EXCEPT ![x] = Raw]
            /\ asked' = [asked EXCEPT ![x] = me.cap]
            /\ me' = [Returns(0, None) EXCEPT
                        !.log = IF me.role = "setcap"
                                THEN Append(@, Done("set", x, me.cap)) ELSE @]
            /\ UNCHANGED <<dir, renames>> /\ Same

(* getxattr() follows links. *)
Followed(x) == IF x # None /\ KindOf[x] = "link" THEN LinkTarget ELSE x

cap_get_file(p) == LET x == Followed(dir[p])
                   IN IF x = None \/ attr[x] = None THEN NULL ELSE fcaps_load(attr[x])

-----------------------------------------------------------------------------
(* setcap: options, then pairs of a capability text, or -r, and a file.    *)

Setcap == me.role = "setcap"

Option ==
    /\ Setcap /\ me.pc = "args"
    /\ \/ ~ me.forced /\ OnlyMe([me EXCEPT !.forced = TRUE])
       \/ ~ me.verify /\ OnlyMe([me EXCEPT !.verify = TRUE])
       \/ \E id \in RootIds \ {me.nsid} : OnlyMe([me EXCEPT !.nsid = id])

(* A blank text, or one that does not parse, is fatal; so is a text that   *)
(* no file follows.                                                        *)
Caps ==
    /\ Setcap /\ me.pc = "args" /\ me.n < MaxFiles
    /\ \/ OnlyMe([me EXCEPT !.cap = NULL, !.pc = "file"])
       \/ \E text \in Texts :
             LET caps == IF text = <<>> THEN NULL ELSE cap_from_text(text, lib)
             IN IF caps = NULL THEN Exits(1)
                ELSE OnlyMe([me EXCEPT !.cap = Object(caps, me.nsid), !.pc = "file"])

NoFile == Setcap /\ me.pc = "file" /\ Exits(1)

(* Under -v, a file without a (readable) attribute, a path that names no   *)
(* file and the option -r all stand for an empty set.                      *)
EmptyIfNull(o) == IF o = NULL THEN Object(NoFlags, 0) ELSE o

Verify ==
    /\ Setcap /\ me.pc = "file" /\ me.verify
    /\ \E p \in Paths :
          LET got  == EmptyIfNull(cap_get_file(p))
              want == EmptyIfNull(me.cap)
          IN IF got.caps # want.caps \/ got.rootid # me.nsid THEN Exits(1)
             ELSE OnlyMe([me EXCEPT !.pc = "args", !.n = @ + 1,
                                    !.log = Append(@, Done("verify", Followed(dir[p]),
                                                  Object(want.caps, me.nsid)))])

(* CAP_SETFCAP is raised for the first file, which may fail. *)
RaiseSetfcap ==
    /\ Setcap /\ me.pc = "file" /\ ~ me.verify /\ ~ me.privileged
    /\ \/ OnlyMe([me EXCEPT !.privileged = TRUE])
       \/ Exits(1)

(* Mutant: the check is left to the library. *)
UncompressibleNever(caps) == FALSE

(* The loop over the flags of cap_d, up to the first one that differs. *)
Uncompressible(caps) ==
    LET differs == {x \in Values : x \in caps.E <=> x \notin caps.P \cup caps.I}
    IN differs # {} /\ \E x \in caps.E : x <= Min(differs)

SetFile ==
    /\ Setcap /\ me.pc = "file" /\ ~ me.verify /\ me.privileged
    /\ \E p \in Paths :
          IF me.cap # NULL /\ Uncompressible(me.cap.caps) /\ ~ me.forced THEN Exits(1)
          ELSE OnlyMe([me EXCEPT !.pc = "open", !.path = p, !.seen = {}, !.n = @ + 1])

Returned ==
    /\ Setcap /\ me.pc = "returned"
    /\ IF me.ret = 0 \/ (me.errno = "ENODATA" /\ me.cap = NULL /\ me.forced)
       THEN OnlyMe([me EXCEPT !.pc = "args"])
       ELSE Exits(1)

Finish == me.role \in {"setcap", "getcap"} /\ me.pc = "args" /\ me.n > 0 /\ Exits(0)

-----------------------------------------------------------------------------
(* getcap: lstat(), then for a regular file the attribute and its text.    *)

Lstat ==
    /\ me.role = "getcap" /\ me.pc = "args" /\ me.n < MaxFiles
    /\ \E p \in Paths :
          LET reg == dir[p] # None /\ KindOf[dir[p]] = "reg"
          IN OnlyMe([me EXCEPT !.n = @ + 1, !.path = p, !.form = <<None>>,
                               !.pc = IF reg THEN "get" ELSE "args"])

do_getcap ==
    /\ me.role = "getcap" /\ me.pc = "get"
    /\ LET got == cap_get_file(me.path)
       IN OnlyMe(IF got = NULL THEN [me EXCEPT !.pc = "args"]
                 ELSE [me EXCEPT !.pc = "args", !.cap = got, !.orig = got.caps,
                                 !.form = <<"text", cap_to_text(got.caps, lib)>>])

-----------------------------------------------------------------------------
(* A program that converts its cap_t, or its cap_iab_t, to and fro.        *)

Idle(role) == me.role = role /\ me.pc = "idle" /\ me.n < MaxOps
Does(m) == OnlyMe([m EXCEPT !.n = @ + 1])

ObjectOrNull(caps) == IF caps = NULL THEN NULL ELSE Object(caps, 0)

ToText == /\ Idle("caps") /\ me.cap # NULL
          /\ Does([me EXCEPT !.form = <<"text", cap_to_text(me.cap.caps, lib)>>])

FromText == /\ Idle("caps") /\ me.form[1] = "text"
            /\ Does([me EXCEPT !.cap = ObjectOrNull(cap_from_text(me.form[2], lib))])

(* The buffer may be a byte too small. *)
CopyExt ==
    /\ Idle("caps") /\ me.cap # NULL
    /\ \E length \in {cap_size(me.cap.caps), cap_size(me.cap.caps) - 1} :
          LET ext == cap_copy_ext(me.cap.caps, length)
          IN Does([me EXCEPT !.form = IF ext = NULL THEN <<None>> ELSE <<"ext", ext, length>>])

CopyInt ==
    /\ Idle("caps") /\ me.form[1] = "ext"
    /\ Does([me EXCEPT !.cap = ObjectOrNull(cap_copy_int_check(me.form[2], me.form[3]))])

cap_set_nsowner ==
    /\ Idle("caps") /\ me.cap # NULL
    /\ \E id \in RootIds : Does([me EXCEPT !.cap.rootid = id])

(* With and without CAP_SETFCAP. *)
CallSetFile ==
    /\ Idle("caps") /\ me.cap # NULL
    /\ \E p \in Paths, able \in BOOLEAN :
          Does([me EXCEPT !.pc = "open", !.path = p, !.seen = {}, !.privileged = able])

SetFileReturns == me.role = "caps" /\ me.pc = "returned" /\ OnlyMe([me EXCEPT !.pc = "idle"])

CallGetFile ==
    /\ Idle("caps")
    /\ \E p \in Paths :
          LET got == cap_get_file(p)
          IN got # NULL /\ Does([me EXCEPT !.cap = got, !.orig = got.caps, !.form = <<None>>])

IabToText == /\ Idle("iabs")
             /\ Does([me EXCEPT !.form = <<"iab", cap_iab_to_text(me.iab, lib)>>])

IabFromText == /\ Idle("iabs") /\ me.form[1] = "iab"
               /\ LET iab == cap_iab_from_text(me.form[2], lib)
                  IN iab # NULL /\ Does([me EXCEPT !.iab = iab])

(* The process in question has the sets of the tuple in hand. *)
KernelHas == 0 .. kernel - 1
IabGetPid ==
    /\ Idle("iabs") /\ kernel \in 1 .. MAXBITS
    /\ me.iab.i \cup me.iab.a \cup me.iab.nb \subseteq KernelHas
    /\ Does([me EXCEPT !.form = <<"pid", cap_iab_get_pid([I |-> me.iab.i, A |-> me.iab.a,
                                            B |-> KernelHas \ me.iab.nb], lib)>>])

(* No such process, no /proc, no memory, or a line that is not there. *)
IabGetPidFails == Idle("iabs") /\ Does([me EXCEPT !.form = <<None>>])

-----------------------------------------------------------------------------
Next == \/ Rename \/ Open \/ Stat \/ SetXattr
        \/ Option \/ Caps \/ NoFile \/ Verify \/ RaiseSetfcap \/ SetFile \/ Returned
        \/ Finish \/ Lstat \/ do_getcap
        \/ ToText \/ FromText \/ CopyExt \/ CopyInt \/ cap_set_nsowner
        \/ CallSetFile \/ SetFileReturns \/ CallGetFile
        \/ IabToText \/ IabFromText \/ IabGetPid \/ IabGetPidFails

Spec == Init /\ [][Next]_vars
-----------------------------------------------------------------------------
(* Properties                                                              *)

(* The type invariant. *)
TypeOK ==
    /\ dir \in [Paths -> Nodes \cup {None}]
    /\ renames \in 0 .. MaxRenames
    /\ me.cap = NULL \/ me.cap.caps \in CapObject
    /\ me.iab \in IabObject
    /\ me.fd \in Nodes \cup {None} /\ me.ret \in {0, -1} /\ me.status \in {None, 0, 1}
    /\ \A x \in Nodes : attr[x] = None \/ attr[x].rev \in Nat

(* The constructor finds the highest capability by bisection (libcap.h:    *)
(* _binary_search), for every kernel that has at least one and no more     *)
(* than fit a cap_t; for the others it assumes what it knows names for.    *)
MaxBitsExact == lib.cmb = IF kernel \in 1 .. MAXBITS THEN kernel ELSE CAP_BITS

(* "The capability state in working storage [...] is completely            *)
(* represented in the character string": a cap_t is the same after any     *)
(* sequence of conversions to text and to the external form and back, also *)
(* one that was read from a file, with bits no name is known for.  What    *)
(* getcap printed can be given to setcap.  The text of an IAB tuple with A *)
(* within I gives it back, as far as the kernel has the capabilities; and  *)
(* what /proc/<pid>/status says of a process is what the process would     *)
(* find out about itself.                                                  *)
ConversionsPreserve ==
    LET iab == me.iab  within == 0 .. lib.cmb - 1 IN
    /\ Speakable(BitsOf(me.orig), lib) =>
          /\ me.role = "caps" => me.cap # NULL /\ me.cap.caps = me.orig
          /\ me.form[1] = "text" => cap_from_text(me.form[2], lib) = me.orig
    /\ me.form[1] = "iab" =>
          cap_iab_from_text(me.form[2], lib) =
              [i |-> iab.i \cap within, a |-> iab.a \cap within, nb |-> iab.nb \cap within]
    /\ me.form[1] = "pid" => me.form[2] = iab

(* "The new capability state of the file is completely determined by the   *)
(* contents of cap_p": what cap_get_file would read from a file is what    *)
(* the last successful cap_set_file was given, but for the Effective flag, *)
(* which is all of P and I or nothing and was not refused by the library.  *)
FileHolds ==
    \A x \in Nodes :
        /\ asked[x] = NULL => attr[x] = None
        /\ asked[x] \notin {None, NULL} =>
              LET caps == asked[x].caps  all == caps.P \cup caps.I
              IN /\ caps.E # {} => all \subseteq caps.E
                 /\ fcaps_load(attr[x]) =
                      Object([caps EXCEPT !.E = IF @ = {} THEN {} ELSE all],
                             asked[x].rootid)

(* What cap_get_file would read from a file. *)
Has(file) == IF file = None \/ attr[file] = None THEN NULL ELSE fcaps_load(attr[file])

(* What setcap did with exit status 0 and without -f.  It did something for *)
(* every file named, and whatever came after it (a rename, other files), a *)
(* file it was the last to set holds the capabilities of that pair exactly,*)
(* the Effective flag included (its own check and the library's together   *)
(* leave no other), and has no attribute if and only if the pair was a -r. *)
(* A file that -v found right still compares equal.  That is less than the *)
(* -v of setcap.8:19-21 ("verify that the specified capabilities are       *)
(* currently associated with the file"): the code puts an empty set in the *)
(* place of an attribute, or a file, that is missing or cannot be read, on *)
(* both sides, although by lines 38-41 the two are "not the same".         *)
SetcapDid ==
    Setcap /\ me.status = 0 /\ ~ me.forced =>
        /\ Len(me.log) = me.n
        /\ \A j \in DOMAIN me.log :
              LET did == me.log[j] IN
              (\A k \in DOMAIN me.log :
                    k > j /\ me.log[k].by = "set" => me.log[k].file # did.file) =>
                  IF did.by = "set"
                  THEN Has(did.file) = did.cap /\ (did.cap = NULL <=> attr[did.file] = None)
                  ELSE EmptyIfNull(Has(did.file)) = did.cap

(* The "TOCTOU race" cap_set_file tries to avoid: whatever is renamed      *)
(* while it runs, only a regular file, and one that the path named when it *)
(* was opened, is ever changed.                                            *)
OnlyTheFileOpened ==
    [][\A x \in Nodes : attr'[x] # attr[x] => KindOf[x] = "reg" /\ x \in me.seen]_vars
=============================================================================
