--------------------------- MODULE FileCapsProofs ---------------------------
(***************************************************************************)
(* Proofs about the capabilities of files, for all sizes of a capability   *)
(* set, all files, attributes, texts and any number of operations.         *)
(***************************************************************************)
EXTENDS FileCaps, CapFormsProofs

-----------------------------------------------------------------------------
(* The attribute of a file gives back what was written.                    *)

LEMMA LoadType ==
  ASSUME NEW raw \in Attribute
  PROVE  fcaps_load(raw) \in CapOwned \cup {NULL}
<1> DEFINE bits == WordsUpTo(VfsWords(raw.rev))
           e == IF raw.eff THEN (raw.P \cup raw.I) \cap bits ELSE {}
           p == raw.P \cap bits
           i == raw.I \cap bits
           r == IF raw.rev = 3 THEN raw.rootid ELSE 0
<1>1. /\ raw.P \subseteq Values /\ raw.I \subseteq Values /\ raw.rootid \in Nat
  BY DEF Attribute
<1>2. e \subseteq Values /\ p \subseteq Values /\ i \subseteq Values /\ r \in Nat BY <1>1
<1>3. fcaps_load(raw) = IF raw.rev \notin 1 .. 3 \/ raw.size # raw.rev THEN NULL
                        ELSE [caps |-> [E |-> e, P |-> p, I |-> i], rootid |-> r]
  BY DEF fcaps_load
<1> HIDE DEF e, p, i, r, bits
<1>4. [E |-> e, P |-> p, I |-> i] \in CapObject BY <1>2 DEF CapObject, Flags
<1> QED BY <1>2, <1>3, <1>4 DEF CapOwned

LEMMA SaveType ==
  ASSUME NEW caps \in CapObject, NEW rootid \in Nat, NEW lib_
  PROVE  fcaps_save(caps, rootid, lib_) \in Attribute \cup {NULL}
<1>1. caps.P \subseteq Values /\ caps.I \subseteq Values BY DEF CapObject, Flags
<1> QED BY <1>1 DEF fcaps_save, Attribute

(* What _fcaps_save does not refuse, _fcaps_load reads back, but for the   *)
(* Effective flag, which is all or nothing.                                *)
LEMMA SaveLoad ==
  ASSUME NEW caps \in CapObject, NEW rootid \in Nat, NEW lib_,
         fcaps_save(caps, rootid, lib_) # NULL
  PROVE  LET all == caps.P \cup caps.I
         IN /\ caps.E # {} => all \subseteq caps.E
            /\ fcaps_load(fcaps_save(caps, rootid, lib_)) =
                  Object([caps EXCEPT !.E = IF @ = {} THEN {} ELSE all], rootid)
<1> DEFINE rev == IF rootid # 0 THEN 3 ELSE IF lib_.version = 1 THEN 1 ELSE 2
           bits == WordsUpTo(VfsWords(rev))
           eff == caps.E \cap bits # {}
           raw == [rev |-> rev, size |-> rev, eff |-> eff, P |-> caps.P, I |-> caps.I,
                   rootid |-> rootid]
           all == caps.P \cup caps.I
           c == [E |-> IF eff THEN all \cap bits ELSE {}, P |-> caps.P \cap bits,
                 I |-> caps.I \cap bits]
<1>1. fcaps_save(caps, rootid, lib_) = raw BY DEF fcaps_save
<1>2. /\ UNION {caps[fl] \ bits : fl \in Flags} = {}
      /\ ~ (eff /\ ~ all \subseteq caps.E)
  BY DEF fcaps_save
<1>3. caps.E \subseteq bits /\ caps.P \subseteq bits /\ caps.I \subseteq bits
  <2> HIDE DEF bits
  <2>1. \A fl \in Flags : caps[fl] \ bits \subseteq UNION {caps[g] \ bits : g \in Flags}
    BY Zenon
  <2>2. \A fl \in Flags : caps[fl] \subseteq bits BY <1>2, <2>1
  <2> QED BY <2>2 DEF Flags
<1>4. rev \in 1 .. 3 /\ (IF rev = 3 THEN rootid ELSE 0) = rootid OBVIOUS
<1>5. eff <=> caps.E # {} BY <1>3
<1>6. fcaps_load(raw) = [caps |-> c, rootid |-> rootid]
  <2> HIDE DEF bits
  <2>1. /\ raw.rev = rev /\ raw.size = rev /\ (raw.eff <=> eff) /\ raw.P = caps.P
        /\ raw.I = caps.I /\ raw.rootid = rootid
    OBVIOUS
  <2> HIDE DEF rev, raw, eff
  <2> QED BY <1>4, <2>1 DEF fcaps_load, bits
<1>7. c = [caps EXCEPT !.E = IF @ = {} THEN {} ELSE all]
  <2>1. c.P = caps.P /\ c.I = caps.I /\ c.E = IF caps.E = {} THEN {} ELSE all
    BY <1>3, <1>5
  <2>2. c = [fl \in Flags |-> c[fl]] BY DEF Flags
  <2> HIDE DEF c, all
  <2> QED BY <2>1, <2>2 DEF CapObject, Flags
<1> QED BY <1>1, <1>2, <1>5, <1>6, <1>7 DEF Object

(* setcap's own check and the library's leave no other Effective flag.     *)
LEMMA Exact ==
  ASSUME NEW caps \in CapObject, NEW rootid \in Nat, NEW lib_,
         fcaps_save(caps, rootid, lib_) # NULL, ~ Uncompressible(caps)
  PROVE  fcaps_load(fcaps_save(caps, rootid, lib_)) = Object(caps, rootid)
<1> DEFINE all == caps.P \cup caps.I
           D == {x \in Values : x \in caps.E <=> x \notin all}
<1>1. /\ caps.E \subseteq Values /\ all \subseteq Values
      /\ caps = [caps EXCEPT !.E = caps.E]
  BY DEF CapObject, Flags
<1>2. /\ caps.E # {} => all \subseteq caps.E
      /\ fcaps_load(fcaps_save(caps, rootid, lib_)) =
            Object([caps EXCEPT !.E = IF @ = {} THEN {} ELSE all], rootid)
  BY SaveLoad
<1>3. ~ (D # {} /\ \E x \in caps.E : x <= Min(D)) BY DEF Uncompressible
<1>4. caps.E = IF caps.E = {} THEN {} ELSE all
  <2> SUFFICES ASSUME caps.E # {}, caps.E # all PROVE FALSE OBVIOUS
  <2>1. D \in SUBSET Values /\ D # {} BY <1>1
  <2>2. \A x \in D : x \in caps.E BY <1>2
  <2> HIDE DEF D, all
  <2>3. Min(D) \in D BY <2>1, Smallest
  <2>4. Min(D) \in caps.E /\ Min(D) <= Min(D)
    <3>1. Min(D) \in Values BY <2>1, <2>3
    <3>2. \A x \in Values : x <= x BY Widths DEF Values
    <3> QED BY <2>2, <2>3, <3>1, <3>2
  <2> QED BY <1>3, <2>1, <2>4
<1> HIDE DEF all
<1>5. [caps EXCEPT !.E = IF @ = {} THEN {} ELSE all] = caps BY <1>1, <1>4
<1> QED BY <1>2, <1>5

-----------------------------------------------------------------------------
(* The inductive invariant.                                                *)

Stored == CapOwned \cup {NULL}

ExtForms == UNION {{<<"ext", cap_copy_ext(c, l), l>> : l \in {cap_size(c), cap_size(c) - 1}} :
                     c \in CapObject}
Forms == {<<None>>} \cup {<<"text", t>> : t \in CapText} \cup {<<"iab", t>> : t \in IabText}
         \cup {<<"pid", t>> : t \in IabObject} \cup ExtForms

InCall == {"open", "open_path", "stat", "xattr"}
Pcs == {"idle", "args", "file", "returned", "get", "exit"} \cup InCall

RoleSet == {"setcap", "getcap", "caps", "iabs"}
Bools == BOOLEAN
PathSet == Paths \cup {None}
FileSet == Nodes \cup {None}
LogItem == [by : {"set", "verify"}, file : FileSet, cap : Stored]
SeenSet == SUBSET Nodes
RetSet == {0, -1}
Errnos == {None, "ENOENT", "EINVAL", "EPERM", "ENODATA"}
LogSet == Seq(LogItem)
StatusSet == {None, 0, 1}

Process ==
    [role : RoleSet, pc : Pcs, forced : Bools, verify : Bools, nsid : Nat, privileged : Bools,
     cap : Stored, orig : CapObject, iab : IabObject, form : Forms,
     path : PathSet, fd : FileSet, seen : SeenSet, ret : RetSet, errno : Errnos, n : Nat,
     log : LogSet, status : StatusSet]

LibInv == kernel \in Kernels /\ lib.cmb \in Nat /\ MaxBitsExact

FilesInv == /\ dir \in [Paths -> Nodes \cup {None}]
            /\ attr \in [Nodes -> Attribute \cup {None}]
            /\ asked \in [Nodes -> Stored \cup {None}]
            /\ renames \in 0 .. MaxRenames

(* Of a call: the path it was given, and the file it has open. *)
CallInv == /\ me.pc \in {"open", "open_path", "get"} => me.path \in Paths
           /\ me.pc \in {"stat", "xattr"} => me.fd \in Nodes /\ me.fd \in me.seen
           /\ me.pc = "xattr" => KindOf[me.fd] = "reg"

TypeInv == LibInv /\ FilesInv /\ me \in Process /\ CallInv

LEMMA FormText ==
  ASSUME NEW f \in Forms
  PROVE  /\ f[1] = "text" => f[2] \in CapText
         /\ f[1] = "iab" => f[2] \in IabText
<1>1. None # "text" /\ None # "iab" BY FileCapsAssumption
<1>2. CASE f \in ExtForms BY <1>2 DEF ExtForms
<1> QED BY <1>1, <1>2 DEF Forms

LEMMA InitType == Init => TypeInv
<1> SUFFICES ASSUME Init PROVE TypeInv OBVIOUS
<1>1. LibInv
  <2>1. PICK version \in Versions, gperf \in BOOLEAN : lib = Library(kernel, version, gperf)
    BY DEF Init
  <2>2. kernel \in Kernels /\ lib.cmb = cap_max_bits(kernel) BY <2>1 DEF Init, Library
  <2> QED BY <2>2, HighestCapability, Widths DEF LibInv, MaxBitsExact
<1>2. FilesInv
  <2>1. renames \in 0 .. MaxRenames BY FileCapsAssumption DEF Init
  <2>2. asked \in [Nodes -> Stored \cup {None}] BY DEF Init
  <2>3. dir \in [Paths -> Nodes \cup {None}] BY FileCapsAssumption DEF Init
  <2>4. attr \in [Nodes -> Attribute \cup {None}] BY FileCapsAssumption DEF Init
  <2> QED BY <2>1, <2>2, <2>3, <2>4 DEF FilesInv
<1>3. PICK role \in {"setcap", "getcap", "caps", "iabs"}, caps \in CapObject,
           iab \in IabObject : me = Start(role, caps, iab)
  <2>1. NoFlags \in CapObject BY DEF NoFlags, CapObject
  <2>2. NoIab \in IabObject BY DEF NoIab, IabObject
  <2> QED BY <2>1, <2>2, FileCapsAssumption DEF Init
<1>4. Start(role, caps, iab) \in Process
  <2>1. Object(caps, 0) \in Stored BY DEF Object, Stored, CapOwned
  <2>2. <<None>> \in Forms BY DEF Forms
  <2>3. <<>> \in LogSet BY DEF LogSet
  <2>4. (IF role \in {"caps", "iabs"} THEN "idle" ELSE "args") \in Pcs BY DEF Pcs
  <2>5. /\ FALSE \in Bools /\ None \in PathSet /\ None \in FileSet /\ {} \in SeenSet
        /\ 0 \in RetSet /\ None \in Errnos /\ None \in StatusSet /\ role \in RoleSet
    BY DEF Bools, PathSet, FileSet, SeenSet, RetSet, Errnos, StatusSet, RoleSet
  <2> QED BY <2>1, <2>2, <2>3, <2>4, <2>5 DEF Start, Process
<1>5. me.pc \in {"idle", "args"} BY <1>3 DEF Start
<1> QED BY <1>1, <1>2, <1>3, <1>4, <1>5 DEF TypeInv, CallInv

(* What is written is an attribute, or that it is removed. *)
LEMMA RawType ==
  ASSUME TypeInv PROVE Raw \in Attribute \cup {NULL, None}
<1>1. me.cap \in CapOwned \cup {NULL} BY DEF TypeInv, Process, Stored
<1>2. CASE me.cap = NULL BY <1>2 DEF Raw
<1>3. CASE me.cap # NULL
  <2>1. me.cap.caps \in CapObject /\ me.cap.rootid \in Nat BY <1>1, <1>3 DEF CapOwned
  <2> QED BY <1>3, <2>1, SaveType DEF Raw
<1> QED BY <1>2, <1>3

LEMMA GetFileType ==
  ASSUME TypeInv, NEW p \in Paths
  PROVE  /\ cap_get_file(p) \in Stored
         /\ Followed(dir[p]) \in Nodes \cup {None}
<1>1. dir[p] \in Nodes \cup {None} BY DEF TypeInv, FilesInv
<1>2. Followed(dir[p]) \in Nodes \cup {None} BY <1>1, FileCapsAssumption DEF Followed
<1>3. ASSUME Followed(dir[p]) # None, attr[Followed(dir[p])] # None
      PROVE  fcaps_load(attr[Followed(dir[p])]) \in Stored
  <2>1. attr[Followed(dir[p])] \in Attribute BY <1>2, <1>3 DEF TypeInv, FilesInv
  <2> QED BY <2>1, LoadType DEF Stored
<1> QED BY <1>2, <1>3 DEF cap_get_file, Stored

(* The actions that change more than the process itself. *)
LEMMA OnlyTwo ==
  ASSUME Next
  PROVE  /\ UNCHANGED <<lib, kernel>>
         /\ Rename \/ SetXattr \/ UNCHANGED <<dir, attr, renames, asked>>
BY DEF Next, Open, Stat, Option, Caps, NoFile, Verify, RaiseSetfcap, SetFile, Returned,
       Finish, Lstat, do_getcap, ToText, FromText, CopyExt, CopyInt, cap_set_nsowner,
       CallSetFile, SetFileReturns, CallGetFile, IabToText, IabFromText, IabGetPid,
       IabGetPidFails, Does, Exits, OnlyMe, Same, Rename, SetXattr

LEMMA Constants ==
  /\ \A x \in Pcs : x \in {"idle", "args", "file", "returned", "get", "exit", "open",
                            "open_path", "stat", "xattr"}
  /\ {"idle", "args", "file", "returned", "get", "exit", "open", "open_path", "stat",
      "xattr"} \subseteq Pcs
  /\ FALSE \in Bools /\ TRUE \in Bools
  /\ None \in PathSet /\ None \in FileSet /\ None \in StatusSet /\ None \in Errnos
  /\ 0 \in StatusSet /\ 1 \in StatusSet /\ 0 \in RetSet /\ -1 \in RetSet
  /\ {} \in SeenSet
  /\ {"ENOENT", "EINVAL", "EPERM", "ENODATA"} \subseteq Errnos
BY DEF Pcs, InCall, Bools, PathSet, FileSet, StatusSet, Errnos, RetSet, SeenSet

LEMMA Counts == ASSUME me \in Process PROVE me.n \in Nat /\ me.n + 1 \in Nat
<1>1. me.n \in Nat BY DEF Process
<1> QED BY <1>1

(* Of a step of the process: its type and the file it has open. *)
MeStep == me' \in Process /\ CallInv'

(* A step that stays out of cap_set_file and of getcap's. *)
LEMMA Outside ==
  ASSUME me' \in Process, me'.pc \in {"idle", "args", "file", "returned", "exit"}
  PROVE  MeStep
BY DEF MeStep, CallInv

(* One that leaves the call where it is. *)
LEMMA CallSame ==
  ASSUME CallInv, me' \in Process, me'.pc = me.pc, me'.path = me.path, me'.fd = me.fd,
         me'.seen = me.seen
  PROVE  MeStep
BY DEF MeStep, CallInv

LEMMA CallStep ==
  ASSUME TypeInv, Open \/ Stat \/ SetXattr PROVE MeStep
<1>1. me \in Process /\ CallInv /\ FilesInv BY DEF TypeInv
<1>2. ASSUME NEW ret \in RetSet, NEW e \in Errnos
      PROVE  Returns(ret, e) \in Process /\ Returns(ret, e).pc = "returned"
  BY <1>1, <1>2, Constants DEF Returns, Process
<1>3. CASE Open
  <2> DEFINE x == dir[me.path]
  <2>1. x \in Nodes \cup {None} BY <1>1, <1>3 DEF Open, CallInv, FilesInv
  <2>2. \/ x \in Nodes /\ me' = [me EXCEPT !.fd = x, !.pc = "stat", !.seen = @ \cup {x}]
        \/ me.pc = "open" /\ me' = [me EXCEPT !.pc = "open_path"]
        \/ me' = Returns(-1, "ENOENT")
    BY <1>3, <2>1 DEF Open, OnlyMe
  <2>3. me.pc \in {"open", "open_path"} /\ me.path \in Paths BY <1>1, <1>3 DEF Open, CallInv
  <2> HIDE DEF x
  <2>4. CASE x \in Nodes /\ me' = [me EXCEPT !.fd = x, !.pc = "stat", !.seen = @ \cup {x}]
    <3>1. x \in FileSet BY <2>4 DEF FileSet
    <3>2. me.seen \cup {x} \in SeenSet BY <1>1, <2>4 DEF SeenSet, Process
    <3>3. me' \in Process BY <1>1, <2>4, <3>1, <3>2, Constants DEF Process
    <3>4. me'.pc = "stat" /\ me'.fd = x /\ x \in me'.seen BY <1>1, <2>4 DEF Process
    <3> QED BY <2>4, <3>3, <3>4 DEF MeStep, CallInv
  <2>5. CASE me' = [me EXCEPT !.pc = "open_path"]
    <3>1. me' \in Process BY <1>1, <2>5, Constants DEF Process
    <3>2. me'.pc = "open_path" /\ me'.path = me.path BY <1>1, <2>5 DEF Process
    <3> QED BY <2>3, <3>1, <3>2 DEF MeStep, CallInv
  <2>6. CASE me' = Returns(-1, "ENOENT") BY <1>2, <2>6, Constants, Outside
  <2> QED BY <2>2, <2>4, <2>5, <2>6
<1>4. CASE Stat
  <2>1. \/ me' = Returns(-1, "EINVAL")
        \/ KindOf[me.fd] = "reg" /\ me' = [me EXCEPT !.pc = "xattr"]
    BY <1>4 DEF Stat, OnlyMe
  <2>2. me.pc = "stat" BY <1>4 DEF Stat
  <2>3. CASE me' = Returns(-1, "EINVAL") BY <1>2, <2>3, Constants, Outside
  <2>4. CASE KindOf[me.fd] = "reg" /\ me' = [me EXCEPT !.pc = "xattr"]
    <3>1. me' \in Process BY <1>1, <2>4, Constants DEF Process
    <3>2. me'.pc = "xattr" /\ me'.fd = me.fd /\ me'.seen = me.seen BY <1>1, <2>4 DEF Process
    <3> QED BY <1>1, <2>2, <2>4, <3>1, <3>2 DEF MeStep, CallInv
  <2> QED BY <2>1, <2>3, <2>4
<1>5. CASE SetXattr
  <2>1. me.fd \in Nodes BY <1>1, <1>5 DEF SetXattr, CallInv
  <2> DEFINE item == Done("set", me.fd, me.cap)
             log == IF me.role = "setcap" THEN Append(me.log, item) ELSE me.log
  <2>2. item \in LogItem BY <1>1, <2>1 DEF Process, LogItem, FileSet, Done
  <2>3. log \in LogSet BY <1>1, <2>2 DEF Process, LogSet
  <2>4. \/ \E e \in {"EINVAL", "EPERM", "ENODATA"} : me' = Returns(-1, e)
        \/ me' = [Returns(0, None) EXCEPT !.log = IF me.role = "setcap" THEN Append(@, item)
                                                  ELSE @]
    BY <1>5 DEF SetXattr, OnlyMe
  <2>5. CASE \E e \in {"EINVAL", "EPERM", "ENODATA"} : me' = Returns(-1, e)
    BY <1>2, <2>5, Constants, Outside
  <2>6. CASE me' = [Returns(0, None) EXCEPT !.log = IF me.role = "setcap"
                                                     THEN Append(@, item) ELSE @]
    <3>1. Returns(0, None).log = me.log BY <1>1 DEF Returns, Process
    <3>2. me' = [Returns(0, None) EXCEPT !.log = log] BY <2>6, <3>1
    <3> HIDE DEF log
    <3>3. Returns(0, None) \in Process /\ Returns(0, None).pc = "returned"
      BY <1>2, Constants
    <3>4. me' \in Process /\ me'.pc = "returned" BY <2>3, <3>2, <3>3 DEF Process
    <3> QED BY <3>4, Outside
  <2> QED BY <2>4, <2>5, <2>6
<1> QED BY <1>3, <1>4, <1>5

LEMMA SetcapStep ==
  ASSUME TypeInv, Option \/ Caps \/ NoFile \/ Verify \/ RaiseSetfcap \/ SetFile \/ Returned
                  \/ Finish
  PROVE  MeStep
<1>1. me \in Process /\ CallInv /\ FilesInv BY DEF TypeInv
<1>2. ASSUME NEW status \in {0, 1}, me' = [me EXCEPT !.pc = "exit", !.status = status]
      PROVE  MeStep
  <2>1. status \in StatusSet BY Constants
  <2>2. me' \in Process /\ me'.pc = "exit" BY <1>1, <1>2, <2>1, Constants DEF Process
  <2> QED BY <2>2, Outside
<1>3. CASE Option
  <2>1. \/ me' = [me EXCEPT !.forced = TRUE]
        \/ me' = [me EXCEPT !.verify = TRUE]
        \/ \E id \in RootIds : id \in Nat /\ me' = [me EXCEPT !.nsid = id]
    BY <1>3, FileCapsAssumption DEF Option, OnlyMe
  <2>2. me' \in Process BY ZenonT(40), <1>1, <2>1, Constants DEF Process
  <2>3. me'.pc = "args" BY <1>1, <1>3, <2>1 DEF Process, Option
  <2> QED BY <2>2, <2>3, Outside
<1>4. CASE Caps
  <2>1. ASSUME NEW caps \in CapObject PROVE Object(caps, me.nsid) \in Stored
    BY <1>1, <2>1 DEF Object, Stored, CapOwned, Process
  <2>2. \A text \in Texts : cap_from_text(text, lib) \in CapObject \cup {NULL}
    BY FromTextType, FileCapsAssumption
  <2>3. NULL \in Stored BY DEF Stored
  <2>4. \/ \E c \in Stored : me' = [me EXCEPT !.cap = c, !.pc = "file"]
        \/ me' = [me EXCEPT !.pc = "exit", !.status = 1]
    BY <1>4, <2>1, <2>2, <2>3 DEF Caps, OnlyMe, Exits
  <2>5. ASSUME NEW c \in Stored, me' = [me EXCEPT !.cap = c, !.pc = "file"] PROVE MeStep
    <3>1. me' \in Process /\ me'.pc = "file" BY <1>1, <2>5, Constants DEF Process
    <3> QED BY <3>1, Outside
  <2> QED BY <1>2, <2>4, <2>5
<1>5. CASE NoFile \/ Finish BY <1>2, <1>5 DEF NoFile, Finish, Exits, OnlyMe
<1>6. CASE RaiseSetfcap
  <2>1. \/ me' = [me EXCEPT !.privileged = TRUE]
        \/ me' = [me EXCEPT !.pc = "exit", !.status = 1]
    BY <1>6 DEF RaiseSetfcap, OnlyMe, Exits
  <2>2. ASSUME me' = [me EXCEPT !.privileged = TRUE] PROVE MeStep
    <3>1. me' \in Process BY <1>1, <2>2, Constants DEF Process
    <3>2. me'.pc = "file" BY <1>1, <1>6, <2>2 DEF Process, RaiseSetfcap
    <3> QED BY <3>1, <3>2, Outside
  <2> QED BY <1>2, <2>1, <2>2
<1>7. CASE Returned
  <2>1. \/ me' = [me EXCEPT !.pc = "args"]
        \/ me' = [me EXCEPT !.pc = "exit", !.status = 1]
    BY <1>7 DEF Returned, OnlyMe, Exits
  <2>2. ASSUME me' = [me EXCEPT !.pc = "args"] PROVE MeStep
    <3>1. me' \in Process /\ me'.pc = "args" BY <1>1, <2>2, Constants DEF Process
    <3> QED BY <3>1, Outside
  <2> QED BY <1>2, <2>1, <2>2
<1>8. CASE Verify
  <2>1. PICK p \in Paths :
          \/ me' = [me EXCEPT !.pc = "exit", !.status = 1]
          \/ me' = [me EXCEPT !.pc = "args", !.n = @ + 1,
                       !.log = Append(@, Done("verify", Followed(dir[p]),
                                      Object(EmptyIfNull(me.cap).caps, me.nsid)))]
    BY <1>8 DEF Verify, OnlyMe, Exits
  <2> DEFINE item == Done("verify", Followed(dir[p]),
                          Object(EmptyIfNull(me.cap).caps, me.nsid))
             log == Append(me.log, item)
  <2>2. EmptyIfNull(me.cap).caps \in CapObject
    BY <1>1 DEF Process, Stored, CapOwned, EmptyIfNull, Object, NoFlags, CapObject
  <2>3. item \in LogItem
    BY <1>1, <2>2, GetFileType
       DEF LogItem, Stored, CapOwned, Object, Process, FileSet, Done
  <2> HIDE DEF item
  <2>4. log \in LogSet BY <1>1, <2>3 DEF Process, LogSet
  <2>5. \/ me' = [me EXCEPT !.pc = "exit", !.status = 1]
        \/ me' = [me EXCEPT !.pc = "args", !.n = me.n + 1, !.log = log]
    BY <1>1, <2>1 DEF item, Process
  <2> HIDE DEF log
  <2>6. ASSUME me' = [me EXCEPT !.pc = "args", !.n = me.n + 1, !.log = log] PROVE MeStep
    <3>1. me' \in Process /\ me'.pc = "args"
      BY <1>1, <2>4, <2>6, Constants, Counts DEF Process
    <3> QED BY <3>1, Outside
  <2> QED BY <1>2, <2>5, <2>6
<1>9. CASE SetFile
  <2>1. PICK p \in Paths :
          \/ me' = [me EXCEPT !.pc = "exit", !.status = 1]
          \/ me' = [me EXCEPT !.pc = "open", !.path = p, !.seen = {}, !.n = @ + 1]
    BY <1>9 DEF SetFile, OnlyMe, Exits
  <2>2. ASSUME me' = [me EXCEPT !.pc = "open", !.path = p, !.seen = {}, !.n = @ + 1]
        PROVE  MeStep
    <3>1. p \in PathSet BY DEF PathSet
    <3>2. me' \in Process /\ me'.pc = "open" /\ me'.path = p
      BY <1>1, <2>2, <3>1, Constants, Counts DEF Process
    <3> QED BY <3>2 DEF MeStep, CallInv
  <2> QED BY <1>2, <2>1, <2>2
<1> QED BY <1>3, <1>4, <1>5, <1>6, <1>7, <1>8, <1>9

LEMMA GetcapStep ==
  ASSUME TypeInv, Lstat \/ do_getcap PROVE MeStep
<1>1. me \in Process /\ CallInv BY DEF TypeInv
<1>2. <<None>> \in Forms BY DEF Forms
<1>3. CASE Lstat
  <2>1. PICK p \in Paths, pc \in {"get", "args"} :
          me' = [me EXCEPT !.n = @ + 1, !.path = p, !.form = <<None>>, !.pc = pc]
    BY <1>3 DEF Lstat, OnlyMe
  <2>2. p \in PathSet /\ pc \in Pcs BY Constants DEF PathSet
  <2>3. me' \in Process /\ me'.pc = pc /\ me'.path = p
    BY <1>1, <1>2, <2>1, <2>2, Counts DEF Process
  <2> QED BY <2>3 DEF MeStep, CallInv
<1>4. CASE do_getcap
  <2> DEFINE got == cap_get_file(me.path)
             text == cap_to_text(got.caps, lib)
             f == <<"text", text>>
             c == got.caps
  <2>1. got \in Stored
    <3>1. me.path \in Paths BY <1>1, <1>4 DEF do_getcap, CallInv
    <3> QED BY <3>1, GetFileType
  <2>2. \/ me' = [me EXCEPT !.pc = "args"]
        \/ got # NULL /\ me' = [me EXCEPT !.pc = "args", !.cap = got, !.orig = c, !.form = f]
    BY <1>4 DEF do_getcap, OnlyMe
  <2>3. f \in Forms
    <3>1. text \in CapText BY ToTextType DEF TypeInv, LibInv
    <3> QED BY <3>1 DEF Forms
  <2>4. got = NULL \/ c \in CapObject BY <2>1 DEF Stored, CapOwned
  <2> HIDE DEF got, text, f, c
  <2>5. me' \in Process /\ me'.pc = "args"
    <3>1. CASE me' = [me EXCEPT !.pc = "args"] BY <1>1, <3>1, Constants DEF Process
    <3>2. CASE got # NULL /\ me' = [me EXCEPT !.pc = "args", !.cap = got, !.orig = c,
                                              !.form = f]
      <4>1. c \in CapObject BY <2>4, <3>2
      <4> QED BY <1>1, <2>1, <2>3, <3>2, <4>1, Constants DEF Process
    <3> QED BY <2>2, <3>1, <3>2
  <2> QED BY <2>5, Outside
<1> QED BY <1>3, <1>4

LEMMA ConvertStep ==
  ASSUME TypeInv, ToText \/ FromText \/ CopyExt \/ CopyInt \/ cap_set_nsowner PROVE MeStep
<1>1. me \in Process /\ CallInv BY DEF TypeInv
<1>2. \A caps \in CapObject \cup {NULL} : ObjectOrNull(caps) \in Stored
  BY DEF ObjectOrNull, Object, Stored, CapOwned
<1>3. ASSUME NEW c \in Stored, me' = [me EXCEPT !.cap = c, !.n = me.n + 1] PROVE MeStep
  <2>1. me' \in Process BY <1>1, <1>3, Counts DEF Process
  <2>2. me'.pc = me.pc /\ me'.path = me.path /\ me'.fd = me.fd /\ me'.seen = me.seen
    BY <1>1, <1>3 DEF Process
  <2> QED BY <1>1, <2>1, <2>2, CallSame
<1>4. ASSUME NEW f \in Forms, me' = [me EXCEPT !.form = f, !.n = me.n + 1] PROVE MeStep
  <2>1. me' \in Process BY <1>1, <1>4, Counts DEF Process
  <2>2. me'.pc = me.pc /\ me'.path = me.path /\ me'.fd = me.fd /\ me'.seen = me.seen
    BY <1>1, <1>4 DEF Process
  <2> QED BY <1>1, <2>1, <2>2, CallSame
<1>5. CASE ToText
  <2> DEFINE f == <<"text", cap_to_text(me.cap.caps, lib)>>
  <2>1. f \in Forms
    <3>1. cap_to_text(me.cap.caps, lib) \in CapText BY ToTextType DEF TypeInv, LibInv
    <3> QED BY <3>1 DEF Forms
  <2>2. me' = [[me EXCEPT !.form = f] EXCEPT !.n = @ + 1] BY <1>5 DEF ToText, Does, OnlyMe
  <2> HIDE DEF f
  <2>3. me' = [me EXCEPT !.form = f, !.n = me.n + 1] BY <1>1, <2>2 DEF Process
  <2> QED BY <1>4, <2>1, <2>3
<1>6. CASE FromText
  <2> DEFINE c == ObjectOrNull(cap_from_text(me.form[2], lib))
  <2>1. me.form[2] \in CapText BY <1>1, <1>6, FormText DEF FromText, Process
  <2>2. c \in Stored BY <1>2, <2>1, FromTextType
  <2>3. me' = [[me EXCEPT !.cap = c] EXCEPT !.n = @ + 1] BY <1>6 DEF FromText, Does, OnlyMe
  <2> HIDE DEF c
  <2>4. me' = [me EXCEPT !.cap = c, !.n = me.n + 1] BY <1>1, <2>3 DEF Process
  <2> QED BY <1>3, <2>2, <2>4
<1>7. CASE CopyExt
  <2>1. PICK l \in {cap_size(me.cap.caps), cap_size(me.cap.caps) - 1} :
          LET ext == cap_copy_ext(me.cap.caps, l)
          IN Does([me EXCEPT !.form = IF ext = NULL THEN <<None>> ELSE <<"ext", ext, l>>])
    BY <1>7 DEF CopyExt
  <2> DEFINE ext == cap_copy_ext(me.cap.caps, l)
             f == IF ext = NULL THEN <<None>> ELSE <<"ext", ext, l>>
  <2>2. me.cap.caps \in CapObject BY <1>1, <1>7 DEF CopyExt, Process, Stored, CapOwned
  <2>3. f \in Forms BY <2>2 DEF Forms, ExtForms
  <2>4. me' = [[me EXCEPT !.form = f] EXCEPT !.n = @ + 1] BY <2>1 DEF Does, OnlyMe
  <2> HIDE DEF f
  <2>5. me' = [me EXCEPT !.form = f, !.n = me.n + 1] BY <1>1, <2>4 DEF Process
  <2> QED BY <1>4, <2>3, <2>5
<1>8. CASE CopyInt
  <2> DEFINE x == cap_copy_int_check(me.form[2], me.form[3])
             c == ObjectOrNull(x)
  <2>1. x \in CapObject \cup {NULL} BY DEF cap_copy_int_check, cap_copy_int, CapObject
  <2>2. me' = [[me EXCEPT !.cap = c] EXCEPT !.n = @ + 1] BY <1>8 DEF CopyInt, Does, OnlyMe
  <2>3. c \in Stored BY <1>2, <2>1
  <2> HIDE DEF c
  <2>4. me' = [me EXCEPT !.cap = c, !.n = me.n + 1] BY <1>1, <2>2 DEF Process
  <2> QED BY <1>3, <2>3, <2>4
<1>9. CASE cap_set_nsowner
  <2>1. PICK id \in RootIds : Does([me EXCEPT !.cap.rootid = id])
    BY <1>9 DEF cap_set_nsowner
  <2> DEFINE c == [me.cap EXCEPT !.rootid = id]
  <2>2. c \in Stored
    BY <1>1, <1>9, FileCapsAssumption DEF cap_set_nsowner, Process, Stored, CapOwned
  <2>3. me' = [[me EXCEPT !.cap = c] EXCEPT !.n = @ + 1] BY <1>1, <2>1 DEF Does, OnlyMe, Process
  <2> HIDE DEF c
  <2>4. me' = [me EXCEPT !.cap = c, !.n = me.n + 1] BY <1>1, <2>3 DEF Process
  <2> QED BY <1>3, <2>2, <2>4
<1> QED BY <1>5, <1>6, <1>7, <1>8, <1>9

LEMMA ProgramStep ==
  ASSUME TypeInv, CallSetFile \/ SetFileReturns \/ CallGetFile
                  \/ IabToText \/ IabFromText \/ IabGetPid \/ IabGetPidFails
  PROVE  MeStep
<1>1. me \in Process /\ CallInv BY DEF TypeInv
<1>2. ASSUME NEW f \in Forms, NEW iab \in IabObject,
             me' = [me EXCEPT !.form = f, !.iab = iab, !.n = me.n + 1]
      PROVE  MeStep
  <2>1. me' \in Process BY <1>1, <1>2, Counts DEF Process
  <2>2. me'.pc = me.pc /\ me'.path = me.path /\ me'.fd = me.fd /\ me'.seen = me.seen
    BY <1>1, <1>2 DEF Process
  <2> QED BY <1>1, <2>1, <2>2, CallSame
<1>3. CASE CallSetFile
  <2>1. PICK p \in Paths, able \in BOOLEAN :
          me' = [[me EXCEPT !.pc = "open", !.path = p, !.seen = {}, !.privileged = able]
                  EXCEPT !.n = @ + 1]
    BY <1>3 DEF CallSetFile, Does, OnlyMe
  <2>2. p \in PathSet /\ able \in Bools BY DEF PathSet, Bools
  <2>3. me' = [me EXCEPT !.pc = "open", !.path = p, !.seen = {}, !.privileged = able,
                         !.n = me.n + 1]
    BY <1>1, <2>1 DEF Process
  <2>4. me' \in Process /\ me'.pc = "open" /\ me'.path = p
    BY <1>1, <2>2, <2>3, Constants, Counts DEF Process
  <2> QED BY <2>4 DEF MeStep, CallInv
<1>4. CASE SetFileReturns
  <2>1. me' = [me EXCEPT !.pc = "idle"] BY <1>4 DEF SetFileReturns, OnlyMe
  <2>2. me' \in Process /\ me'.pc = "idle" BY <1>1, <2>1, Constants DEF Process
  <2> QED BY <2>2, Outside
<1>5. CASE CallGetFile
  <2>1. PICK p \in Paths :
          LET got == cap_get_file(p)
          IN got # NULL /\ Does([me EXCEPT !.cap = got, !.orig = got.caps, !.form = <<None>>])
    BY <1>5 DEF CallGetFile
  <2> DEFINE got == cap_get_file(p)
             c == got.caps
  <2>2. got \in Stored /\ c \in CapObject BY <2>1, GetFileType DEF Stored, CapOwned
  <2>3. <<None>> \in Forms BY DEF Forms
  <2>4. me' = [[me EXCEPT !.cap = got, !.orig = c, !.form = <<None>>] EXCEPT !.n = @ + 1]
    BY <2>1 DEF Does, OnlyMe
  <2> HIDE DEF got, c
  <2>5. me' = [me EXCEPT !.cap = got, !.orig = c, !.form = <<None>>, !.n = me.n + 1]
    BY <1>1, <2>4 DEF Process
  <2>6. me' \in Process BY <1>1, <2>2, <2>3, <2>5, Counts DEF Process
  <2>7. me'.pc = "idle" BY <1>1, <1>5, <2>5 DEF Process, CallGetFile, Idle
  <2> QED BY <2>6, <2>7, Outside
<1>6. CASE IabToText
  <2> DEFINE f == <<"iab", cap_iab_to_text(me.iab, lib)>>
  <2>1. f \in Forms
    <3>1. cap_iab_to_text(me.iab, lib) \in IabText BY IabToTextType DEF TypeInv, LibInv
    <3> QED BY <3>1 DEF Forms
  <2>2. me' = [[me EXCEPT !.form = f] EXCEPT !.n = @ + 1] BY <1>6 DEF IabToText, Does, OnlyMe
  <2> HIDE DEF f
  <2>3. me' = [me EXCEPT !.form = f, !.iab = me.iab, !.n = me.n + 1] BY <1>1, <2>2 DEF Process
  <2>4. me.iab \in IabObject BY <1>1 DEF Process
  <2> QED BY <1>2, <2>1, <2>3, <2>4
<1>7. CASE IabFromText
  <2> DEFINE iab == cap_iab_from_text(me.form[2], lib)
  <2>1. me.form[2] \in IabText BY <1>1, <1>7, FormText DEF IabFromText, Process
  <2>2. iab \in IabObject BY <1>7, <2>1, IabFromTextType DEF IabFromText
  <2>3. me' = [[me EXCEPT !.iab = iab] EXCEPT !.n = @ + 1]
    BY <1>7 DEF IabFromText, Does, OnlyMe
  <2> HIDE DEF iab
  <2>4. me' = [me EXCEPT !.form = me.form, !.iab = iab, !.n = me.n + 1]
    BY <1>1, <2>3 DEF Process
  <2>5. me.form \in Forms BY <1>1 DEF Process
  <2> QED BY <1>2, <2>2, <2>4, <2>5
<1>8. CASE IabGetPid
  <2> DEFINE k == cap_iab_get_pid([I |-> me.iab.i, A |-> me.iab.a,
                                   B |-> KernelHas \ me.iab.nb], lib)
             f == <<"pid", k>>
  <2>1. k \in IabObject
    <3>1. forceall(lib.cmb, Blks) \subseteq WordsUpTo(Blks) BY DEF forceall, WordsUpTo
    <3>2. forceall(lib.cmb, Blks) \subseteq Values BY <3>1, Words
    <3> QED BY <3>2 DEF cap_iab_get_pid, IabObject
  <2>2. me' = [[me EXCEPT !.form = f] EXCEPT !.n = @ + 1] BY <1>8 DEF IabGetPid, Does, OnlyMe
  <2>3. me.iab \in IabObject /\ f \in Forms BY <1>1, <2>1 DEF Process, Forms
  <2> HIDE DEF f
  <2>4. me' = [me EXCEPT !.form = f, !.iab = me.iab, !.n = me.n + 1] BY <1>1, <2>2 DEF Process
  <2> QED BY <1>2, <2>3, <2>4
<1>9. CASE IabGetPidFails
  <2>1. me' = [[me EXCEPT !.form = <<None>>] EXCEPT !.n = @ + 1]
    BY <1>9 DEF IabGetPidFails, Does, OnlyMe
  <2>2. me' = [me EXCEPT !.form = <<None>>, !.iab = me.iab, !.n = me.n + 1]
    BY <1>1, <2>1 DEF Process
  <2>3. me.iab \in IabObject /\ <<None>> \in Forms BY <1>1 DEF Process, Forms
  <2> QED BY <1>2, <2>2, <2>3
<1> QED BY <1>3, <1>4, <1>5, <1>6, <1>7, <1>8, <1>9

LEMMA NextType == TypeInv /\ [Next]_vars => TypeInv'
<1> SUFFICES ASSUME TypeInv, [Next]_vars PROVE TypeInv' OBVIOUS
<1>1. CASE UNCHANGED vars
  BY <1>1 DEF vars, TypeInv, LibInv, FilesInv, CallInv, MaxBitsExact
<1>2. CASE Next
  <2>1. LibInv' BY <1>2, OnlyTwo DEF TypeInv, LibInv, MaxBitsExact
  <2>2. FilesInv'
    <3>1. CASE Rename BY <3>1, FileCapsAssumption DEF Rename, TypeInv, FilesInv
    <3>2. CASE SetXattr
      <4>1. me.fd \in Nodes /\ me.cap \in Stored
        BY <3>2 DEF SetXattr, TypeInv, CallInv, Process
      <4>2. Raw = NULL \/ Raw \in Attribute \cup {None} BY RawType
      <4> QED BY <3>2, <4>1, <4>2 DEF SetXattr, OnlyMe, TypeInv, FilesInv
    <3>3. CASE UNCHANGED <<dir, attr, renames, asked>> BY <3>3 DEF TypeInv, FilesInv
    <3> QED BY <1>2, <3>1, <3>2, <3>3, OnlyTwo
  <2>3. MeStep
    <3>1. CASE Rename BY <3>1 DEF Rename, MeStep, TypeInv, CallInv
    <3> QED BY <1>2, <3>1, CallStep, SetcapStep, GetcapStep, ConvertStep, ProgramStep DEF Next
  <2> QED BY <2>1, <2>2, <2>3 DEF TypeInv, MeStep
<1> QED BY <1>1, <1>2

LEMMA TypeInvHolds == Spec => []TypeInv
<1> QED BY InitType, NextType, PTL DEF Spec

-----------------------------------------------------------------------------
(* What the types give at once.                                            *)

(* cap_t and cap_iab_t objects stay within the width of a capability set   *)
(* through every conversion, read from a file or from a text (cap_text.c,  *)
(* cap_extint.c, cap_file.c); a file descriptor is that of a file.         *)
THEOREM TypeCorrect == Spec => []TypeOK
<1>1. TypeInv => TypeOK
  <2> SUFFICES ASSUME TypeInv PROVE TypeOK OBVIOUS
  <2>1. me \in Process /\ FilesInv BY DEF TypeInv
  <2>2. me.cap = NULL \/ me.cap.caps \in CapObject BY <2>1 DEF Process, Stored, CapOwned
  <2>3. me.iab \in IabObject BY <2>1 DEF Process
  <2>4. me.fd \in Nodes \cup {None} BY <2>1 DEF Process, FileSet
  <2>5. me.ret \in {0, -1} /\ me.status \in {None, 0, 1} BY <2>1 DEF Process, RetSet, StatusSet
  <2>6. \A x \in Nodes : attr[x] = None \/ attr[x].rev \in Nat
    BY <2>1 DEF FilesInv, Attribute
  <2> QED BY <2>1, <2>2, <2>3, <2>4, <2>5, <2>6 DEF TypeOK, FilesInv
<1> QED BY <1>1, TypeInvHolds, PTL

(* The bisection of _binary_search (libcap.h) over prctl(PR_CAPBSET_READ), *)
(* whose result _libcap_initialize keeps if it is in range, gives exactly  *)
(* the number of the kernel's capabilities, for every word size and every  *)
(* kernel.                                                                 *)
THEOREM HighestCapabilityFound == Spec => []MaxBitsExact
<1>1. TypeInv => MaxBitsExact BY DEF TypeInv, LibInv
<1> QED BY <1>1, TypeInvHolds, PTL

(* cap_set_file (cap_file.c) changes no file but the regular one that its  *)
(* path named when it was opened, whatever is renamed in between.          *)
THEOREM NoOtherFileChanged == Spec => OnlyTheFileOpened
<1>1. TypeInv /\ [Next]_vars =>
        [\A x \in Nodes : attr'[x] # attr[x] => KindOf[x] = "reg" /\ x \in me.seen]_vars
  <2> SUFFICES ASSUME TypeInv, Next, NEW x \in Nodes, attr'[x] # attr[x]
               PROVE  KindOf[x] = "reg" /\ x \in me.seen
    OBVIOUS
  <2>1. SetXattr BY OnlyTwo DEF Rename
  <2>2. attr' = [attr EXCEPT ![me.fd] = Raw] BY <2>1 DEF SetXattr, OnlyMe
  <2>3. attr \in [Nodes -> Attribute \cup {None}] /\ me.pc = "xattr" /\ CallInv
    BY <2>1 DEF TypeInv, FilesInv, SetXattr
  <2>4. x = me.fd BY <2>2, <2>3
  <2> QED BY <2>3, <2>4 DEF CallInv
<1> QED BY <1>1, TypeInvHolds, PTL DEF Spec, OnlyTheFileOpened

-----------------------------------------------------------------------------
(* What a file holds.                                                      *)

LEMMA HoldsNext == TypeInv /\ FileHolds /\ [Next]_vars => FileHolds'
<1> SUFFICES ASSUME TypeInv, FileHolds, [Next]_vars PROVE FileHolds' OBVIOUS
<1>1. CASE UNCHANGED <<attr, asked>> BY <1>1 DEF FileHolds
<1>2. CASE SetXattr
  <2>1. CASE UNCHANGED <<attr, asked>> BY <1>1, <2>1
  <2>2. CASE ~ UNCHANGED <<attr, asked>>
    <3>1. /\ Raw # NULL /\ attr' = [attr EXCEPT ![me.fd] = Raw]
          /\ asked' = [asked EXCEPT ![me.fd] = me.cap]
      BY <1>2, <2>2 DEF SetXattr, OnlyMe
    <3>2. /\ attr \in [Nodes -> Attribute \cup {None}] /\ asked \in [Nodes -> Stored \cup {None}]
          /\ me.fd \in Nodes /\ me.cap \in Stored
      BY <1>2 DEF TypeInv, FilesInv, CallInv, SetXattr, Process
    <3> SUFFICES ASSUME NEW x \in Nodes
                 PROVE  /\ asked'[x] = NULL => attr'[x] = None
                        /\ asked'[x] \notin {None, NULL} =>
                             LET caps == asked'[x].caps  all == caps.P \cup caps.I
                             IN /\ caps.E # {} => all \subseteq caps.E
                                /\ fcaps_load(attr'[x]) =
                                     Object([caps EXCEPT !.E = IF @ = {} THEN {} ELSE all],
                                            asked'[x].rootid)
      BY DEF FileHolds
    <3>3. CASE x # me.fd
      <4>1. attr'[x] = attr[x] /\ asked'[x] = asked[x] BY <3>1, <3>2, <3>3
      <4> QED BY <4>1 DEF FileHolds
    <3>4. CASE x = me.fd /\ me.cap = NULL
      <4>1. asked'[x] = NULL /\ attr'[x] = Raw BY <3>1, <3>2, <3>4
      <4> QED BY <3>4, <4>1 DEF Raw
    <3>5. CASE x = me.fd /\ me.cap # NULL
      <4> DEFINE caps == me.cap.caps
                 id == me.cap.rootid
                 all == caps.P \cup caps.I
      <4>1. caps \in CapObject /\ id \in Nat BY <3>2, <3>5 DEF Stored, CapOwned
      <4>2. asked'[x] = me.cap /\ attr'[x] = fcaps_save(caps, id, lib)
        BY <3>1, <3>2, <3>5 DEF Raw
      <4>3. fcaps_save(caps, id, lib) # NULL BY <3>1, <3>5 DEF Raw
      <4> HIDE DEF caps, id
      <4>4. /\ caps.E # {} => all \subseteq caps.E
            /\ fcaps_load(fcaps_save(caps, id, lib)) =
                 Object([caps EXCEPT !.E = IF @ = {} THEN {} ELSE all], id)
        BY <4>1, <4>3, SaveLoad
      <4> QED BY <3>5, <4>2, <4>4 DEF caps, id
    <3> QED BY <3>3, <3>4, <3>5
  <2> QED BY <2>1, <2>2
<1>3. CASE Next /\ ~ SetXattr BY <1>1, <1>3, OnlyTwo DEF Rename
<1> QED BY <1>1, <1>2, <1>3 DEF vars

(* What _fcaps_load would read from a file is what the last successful     *)
(* cap_set_file was given, but for the Effective flag; _fcaps_save refused *)
(* whatever the attribute cannot say.                                      *)
THEOREM FileHoldsWhatWasSet == Spec => []FileHolds
<1>1. Init => FileHolds
  <2> SUFFICES ASSUME Init, NEW x \in Nodes PROVE asked[x] = None BY FileCapsAssumption DEF FileHolds
  <2> QED BY DEF Init
<1> QED BY <1>1, HoldsNext, TypeInvHolds, PTL DEF Spec

-----------------------------------------------------------------------------
(* What setcap did.                                                        *)

HasIn(files, x) == IF x = None \/ files[x] = None THEN NULL ELSE fcaps_load(files[x])
Latest(log, j) ==
    \A k \in DOMAIN log : k > j /\ log[k].by = "set" => log[k].file # log[j].file
Kept(files, did) ==
    IF did.by = "set"
    THEN /\ did.file # None /\ HasIn(files, did.file) = did.cap
         /\ did.cap = NULL <=> files[did.file] = None
    ELSE EmptyIfNull(HasIn(files, did.file)) = did.cap

(* The calls setcap made and those that are in its log. *)
Pending == me.pc \in InCall \/ (me.pc = "returned" /\ me.ret # 0)

LogInv ==
    /\ me.status = 0 => me.pc = "exit"
    /\ Setcap /\ ~ me.forced =>
         /\ me.pc # "exit" \/ me.status = 0 =>
               Len(me.log) = IF Pending THEN me.n - 1 ELSE me.n
         /\ me.pc \in InCall => me.cap = NULL \/ ~ Uncompressible(me.cap.caps)
         /\ \A j \in DOMAIN me.log : Latest(me.log, j) => Kept(attr, me.log[j])

(* A step that neither adds to the log nor changes a file. *)
LEMMA LogSame ==
  ASSUME TypeInv, LogInv, attr' = attr, me'.log = me.log, me'.role = me.role,
         ~ me'.forced => ~ me.forced,
         me'.status = 0 => me'.pc = "exit",
         Setcap /\ ~ me'.forced =>
           /\ me'.pc # "exit" \/ me'.status = 0 =>
                Len(me.log) = IF Pending' THEN me'.n - 1 ELSE me'.n
           /\ me'.pc \in InCall => me'.cap = NULL \/ ~ Uncompressible(me'.cap.caps)
  PROVE  LogInv'
<1>1. ASSUME Setcap, ~ me'.forced, NEW j \in DOMAIN me.log, Latest(me.log, j)
      PROVE  Kept(attr, me.log[j])
  BY <1>1 DEF LogInv
<1> QED BY <1>1 DEF LogInv, Setcap

LEMMA InCallStep ==
  ASSUME TypeInv, LogInv, Open \/ Stat PROVE LogInv'
<1>1. me \in Process /\ me.pc \in InCall /\ me.pc # "exit" /\ me.status # 0
  BY DEF TypeInv, Open, Stat, InCall, LogInv
<1>2. \/ \E e : me' = Returns(-1, e)
      \/ \E x \in Nodes : \E s : me' = [me EXCEPT !.fd = x, !.pc = "stat", !.seen = s]
      \/ me' = [me EXCEPT !.pc = "open_path"]
      \/ me' = [me EXCEPT !.pc = "xattr"]
  <2>1. CASE Open
    <3>1. dir[me.path] \in Nodes \cup {None} BY <2>1 DEF Open, TypeInv, FilesInv, CallInv
    <3> QED BY <2>1, <3>1 DEF Open, OnlyMe
  <2>2. CASE Stat BY <2>2 DEF Stat, OnlyMe
  <2> QED BY <2>1, <2>2
<1>3. /\ me'.log = me.log /\ me'.role = me.role /\ me'.forced = me.forced
      /\ me'.n = me.n /\ me'.cap = me.cap /\ me'.status = me.status
      /\ me'.pc \in InCall \/ (me'.pc = "returned" /\ me'.ret = -1)
  <2>1. CASE \E e : me' = Returns(-1, e) BY <1>1, <2>1 DEF Returns, Process
  <2>2. CASE \E x \in Nodes : \E s : me' = [me EXCEPT !.fd = x, !.pc = "stat", !.seen = s]
    BY <1>1, <2>2 DEF Process, InCall
  <2>3. CASE me' = [me EXCEPT !.pc = "open_path"] \/ me' = [me EXCEPT !.pc = "xattr"]
    BY <1>1, <2>3 DEF Process, InCall
  <2> QED BY <1>2, <2>1, <2>2, <2>3
<1>4. attr' = attr BY DEF Open, Stat, OnlyMe
<1>5. Pending /\ Pending' BY <1>1, <1>3 DEF Pending
<1>6. me'.pc # "exit" BY <1>3 DEF InCall
<1> QED BY <1>1, <1>3, <1>4, <1>5, <1>6, LogSame DEF LogInv

LEMMA OtherStep ==
  ASSUME TypeInv, LogInv,
         Lstat \/ do_getcap \/ ToText \/ FromText \/ CopyExt \/ CopyInt \/ cap_set_nsowner
         \/ CallSetFile \/ SetFileReturns \/ CallGetFile \/ IabToText \/ IabFromText
         \/ IabGetPid \/ IabGetPidFails
  PROVE  LogInv'
<1>1. me \in Process BY DEF TypeInv
<1>2. me.role # "setcap" /\ me.pc # "exit"
  BY DEF Lstat, do_getcap, ToText, FromText, CopyExt, CopyInt, cap_set_nsowner, CallSetFile,
         SetFileReturns, CallGetFile, IabToText, IabFromText, IabGetPid, IabGetPidFails, Idle
<1>3. me'.role = me.role /\ me'.status = me.status
  <2>1. CASE Lstat \/ do_getcap BY <1>1, <2>1 DEF Lstat, do_getcap, OnlyMe, Process
  <2>2. CASE ToText \/ FromText BY <1>1, <2>2 DEF ToText, FromText, Does, OnlyMe, Process
  <2>3. CASE CopyExt \/ CopyInt BY <1>1, <2>3 DEF CopyExt, CopyInt, Does, OnlyMe, Process
  <2>4. CASE cap_set_nsowner BY <1>1, <2>4 DEF cap_set_nsowner, Does, OnlyMe, Process
  <2>5. CASE CallSetFile \/ SetFileReturns
    BY <1>1, <2>5 DEF CallSetFile, SetFileReturns, Does, OnlyMe, Process
  <2>6. CASE CallGetFile BY <1>1, <2>6 DEF CallGetFile, Does, OnlyMe, Process
  <2>7. CASE IabToText \/ IabFromText \/ IabGetPid \/ IabGetPidFails
    BY <1>1, <2>7 DEF IabToText, IabFromText, IabGetPid, IabGetPidFails, Does, OnlyMe, Process
  <2> QED BY <2>1, <2>2, <2>3, <2>4, <2>5, <2>6, <2>7
<1> QED BY <1>2, <1>3 DEF LogInv, Setcap

LEMMA PlainStep ==
  ASSUME TypeInv, LogInv, Option \/ Caps \/ NoFile \/ RaiseSetfcap \/ SetFile \/ Returned
                          \/ Finish
  PROVE  LogInv'
<1>1. me \in Process /\ me.n \in Nat BY DEF TypeInv, Process
<1>2. attr' = attr /\ me.pc # "exit" /\ me.status # 0
  BY DEF Option, Caps, NoFile, RaiseSetfcap, SetFile, Returned, Finish, Exits, OnlyMe, LogInv
<1>3. CASE Option
  <2>1. \/ me' = [me EXCEPT !.forced = TRUE]
        \/ me' = [me EXCEPT !.verify = TRUE]
        \/ \E id \in RootIds : me' = [me EXCEPT !.nsid = id]
    BY <1>3 DEF Option, OnlyMe
  <2>2. /\ me'.log = me.log /\ me'.role = me.role /\ (~ me'.forced => ~ me.forced)
        /\ me'.n = me.n /\ me'.status = me.status /\ me'.pc = "args" /\ me.pc = "args"
    BY <1>1, <1>3, <2>1 DEF Process, Option
  <2>3. ~ Pending /\ ~ Pending' BY <2>2 DEF Pending, InCall
  <2>4. me'.pc \notin InCall BY <2>2 DEF InCall
  <2> QED BY <1>2, <2>2, <2>3, <2>4, LogSame DEF LogInv
<1>4. ASSUME NEW status \in {0, 1}, Exits(status),
             status = 0 => me.pc = "args"
      PROVE  LogInv'
  <2>1. /\ me'.log = me.log /\ me'.role = me.role /\ me'.forced = me.forced
        /\ me'.n = me.n /\ me'.pc = "exit" /\ me'.status = status
    BY <1>1, <1>4 DEF Exits, OnlyMe, Process
  <2>2. ~ Pending' /\ me'.pc \notin InCall BY <2>1 DEF Pending, InCall
  <2>3. status = 0 => ~ Pending BY <1>4 DEF Pending, InCall
  <2> QED BY <1>2, <2>1, <2>2, <2>3, LogSame DEF LogInv
<1>5. CASE Caps
  <2>1. Exits(1) \/ \E c : me' = [me EXCEPT !.cap = c, !.pc = "file"]
    BY <1>5 DEF Caps, OnlyMe
  <2>2. ASSUME NEW c, me' = [me EXCEPT !.cap = c, !.pc = "file"] PROVE LogInv'
    <3>1. /\ me'.log = me.log /\ me'.role = me.role /\ me'.forced = me.forced
          /\ me'.n = me.n /\ me'.status = me.status /\ me'.pc = "file" /\ me.pc = "args"
      BY <1>1, <1>5, <2>2 DEF Process, Caps
    <3>2. ~ Pending /\ ~ Pending' /\ me'.pc \notin InCall BY <3>1 DEF Pending, InCall
    <3> QED BY <1>2, <3>1, <3>2, LogSame DEF LogInv
  <2>3. CASE Exits(1) BY <1>4, <2>3
  <2> QED BY <2>1, <2>2, <2>3
<1>6. CASE NoFile BY <1>4, <1>6 DEF NoFile
<1>7. CASE Finish BY <1>4, <1>7 DEF Finish
<1>8. CASE RaiseSetfcap
  <2>1. Exits(1) \/ me' = [me EXCEPT !.privileged = TRUE] BY <1>8 DEF RaiseSetfcap, OnlyMe
  <2>2. ASSUME me' = [me EXCEPT !.privileged = TRUE] PROVE LogInv'
    <3>1. /\ me'.log = me.log /\ me'.role = me.role /\ me'.forced = me.forced
          /\ me'.n = me.n /\ me'.status = me.status /\ me'.pc = "file" /\ me.pc = "file"
      BY <1>1, <1>8, <2>2 DEF Process, RaiseSetfcap
    <3>2. ~ Pending /\ ~ Pending' /\ me'.pc \notin InCall BY <3>1 DEF Pending, InCall
    <3> QED BY <1>2, <3>1, <3>2, LogSame DEF LogInv
  <2> QED BY <1>4, <2>1, <2>2
<1>9. CASE Returned
  <2>1. \/ Exits(1)
        \/ /\ me.ret = 0 \/ me.forced
           /\ me' = [me EXCEPT !.pc = "args"]
    BY <1>9 DEF Returned, OnlyMe
  <2>2. ASSUME me.ret = 0 \/ me.forced, me' = [me EXCEPT !.pc = "args"] PROVE LogInv'
    <3>1. /\ me'.log = me.log /\ me'.role = me.role /\ me'.forced = me.forced
          /\ me'.n = me.n /\ me'.status = me.status /\ me'.pc = "args" /\ me.pc = "returned"
      BY <1>1, <1>9, <2>2 DEF Process, Returned
    <3>2. (~ me.forced => ~ Pending) /\ ~ Pending' /\ me'.pc \notin InCall
      BY <2>2, <3>1 DEF Pending, InCall
    <3> QED BY <1>2, <3>1, <3>2, LogSame DEF LogInv
  <2> QED BY <1>4, <2>1, <2>2
<1>10. CASE SetFile
  <2>1. \/ Exits(1)
        \/ /\ me.cap = NULL \/ ~ Uncompressible(me.cap.caps) \/ me.forced
           /\ \E p \in Paths :
                me' = [me EXCEPT !.pc = "open", !.path = p, !.seen = {}, !.n = @ + 1]
    BY <1>10 DEF SetFile, OnlyMe
  <2>2. ASSUME me.cap = NULL \/ ~ Uncompressible(me.cap.caps) \/ me.forced, NEW p \in Paths,
               me' = [me EXCEPT !.pc = "open", !.path = p, !.seen = {}, !.n = @ + 1]
        PROVE  LogInv'
    <3>1. /\ me'.log = me.log /\ me'.role = me.role /\ me'.forced = me.forced
          /\ me'.n = me.n + 1 /\ me'.status = me.status /\ me'.pc = "open" /\ me.pc = "file"
          /\ me'.cap = me.cap
      BY <1>1, <1>10, <2>2 DEF Process, SetFile
    <3>2. ~ Pending /\ Pending' BY <3>1 DEF Pending, InCall
    <3>3. me'.n - 1 = me.n BY <1>1, <3>1
    <3> QED BY <1>2, <2>2, <3>1, <3>2, <3>3, LogSame DEF LogInv
  <2>3. CASE Exits(1) BY <1>4, <2>3
  <2> QED BY <2>1, <2>2, <2>3
<1> QED BY <1>3, <1>5, <1>6, <1>7, <1>8, <1>9, <1>10

(* The log grows by an item that holds, and only a file that was set is changed. *)
LEMMA LogGrows ==
  ASSUME TypeInv, LogInv, Setcap, NEW item \in LogItem,
         me'.log = Append(me.log, item), me'.role = me.role, me'.forced = me.forced,
         \A x \in Nodes : item.by # "set" \/ x # item.file => attr'[x] = attr[x],
         Kept(attr', item),
         me'.status # 0, me'.pc \notin InCall, ~ Pending',
         me.pc # "exit", me'.n = Len(me.log) + 1 \/ me.forced
  PROVE  LogInv'
<1>1. me.log \in Seq(LogItem) BY DEF TypeInv, Process, LogSet
<1> DEFINE n == Len(me.log)
<1>2. /\ n \in Nat /\ Len(me'.log) = n + 1 /\ DOMAIN me'.log = 1 .. n + 1
      /\ DOMAIN me.log = 1 .. n
      /\ me'.log[n + 1] = item /\ \A j \in 1 .. n : me'.log[j] = me.log[j]
  BY <1>1
<1> HIDE DEF n
<1>3. ASSUME ~ me.forced, NEW j \in 1 .. n + 1, Latest(me'.log, j)
      PROVE  Kept(attr', me'.log[j])
  <2>1. CASE j = n + 1 BY <1>2, <2>1
  <2>2. CASE j # n + 1
    <3>1. j \in 1 .. n /\ n + 1 \in 1 .. n + 1 /\ n + 1 > j BY <1>2, <2>2
    <3>2. item.by = "set" => item.file # me.log[j].file BY <1>2, <1>3, <3>1 DEF Latest
    <3>3. Latest(me.log, j) BY <1>2, <1>3, <3>1 DEF Latest
    <3>4. Kept(attr, me.log[j]) BY <1>2, <1>3, <3>1, <3>3 DEF LogInv
    <3>5. me.log[j].file \in Nodes \cup {None}
      <4>1. me.log[j] \in LogItem BY <1>1, <3>1 DEF n
      <4> QED BY <4>1 DEF LogItem, FileSet
    <3>6. me'.log[j] = me.log[j] BY <1>2, <3>1
    <3>7. me.log[j].file # None => attr'[me.log[j].file] = attr[me.log[j].file]
      BY <3>2, <3>5
    <3>8. HasIn(attr', me.log[j].file) = HasIn(attr, me.log[j].file) BY <3>7 DEF HasIn
    <3> QED BY <3>4, <3>6, <3>7, <3>8 DEF Kept
  <2> QED BY <2>1, <2>2
<1> QED BY <1>2, <1>3 DEF LogInv, Setcap, n

LEMMA VerifyStep ==
  ASSUME TypeInv, LogInv, Verify PROVE LogInv'
<1>1. me \in Process /\ me.n \in Nat /\ Setcap /\ me.pc = "file" /\ attr' = attr
  BY DEF TypeInv, Process, Verify, OnlyMe, Exits
<1>2. me.status # 0 BY <1>1 DEF LogInv
<1>3. PICK p \in Paths :
        LET got  == EmptyIfNull(cap_get_file(p))
            want == EmptyIfNull(me.cap)
        IN IF got.caps # want.caps \/ got.rootid # me.nsid THEN Exits(1)
           ELSE OnlyMe([me EXCEPT !.pc = "args", !.n = @ + 1,
                                  !.log = Append(@, Done("verify", Followed(dir[p]),
                                                 Object(want.caps, me.nsid)))])
  BY DEF Verify
<1> DEFINE got == EmptyIfNull(cap_get_file(p))
           want == EmptyIfNull(me.cap)
           item == Done("verify", Followed(dir[p]), Object(want.caps, me.nsid))
<1>4. got \in CapOwned /\ want \in CapOwned
  <2>1. cap_get_file(p) \in Stored /\ me.cap \in Stored BY <1>1, GetFileType DEF Process
  <2>2. Object(NoFlags, 0) \in CapOwned BY DEF Object, CapOwned, NoFlags, CapObject
  <2> QED BY <2>1, <2>2 DEF EmptyIfNull, Stored
<1>5. CASE Exits(1)
  <2>1. /\ me'.log = me.log /\ me'.role = me.role /\ me'.forced = me.forced
        /\ me'.pc = "exit" /\ me'.status = 1
    BY <1>1, <1>5 DEF Exits, OnlyMe, Process
  <2>2. me'.pc \notin InCall BY <2>1 DEF InCall
  <2> QED BY <1>1, <2>1, <2>2, LogSame
<1>6. CASE /\ got.caps = want.caps /\ got.rootid = me.nsid
           /\ me' = [me EXCEPT !.pc = "args", !.n = @ + 1, !.log = Append(@, item)]
  <2>1. item \in LogItem
    BY <1>1, <1>4, GetFileType DEF LogItem, Stored, CapOwned, Object, Process, FileSet, Done
  <2>2. item.cap = got /\ item.by = "verify" /\ item.file = Followed(dir[p])
    BY <1>4, <1>6 DEF Object, CapOwned, Done
  <2>3. Kept(attr', item)
    <3>1. HasIn(attr, item.file) = cap_get_file(p) BY <2>2 DEF HasIn, cap_get_file
    <3> QED BY <1>1, <2>2, <3>1 DEF Kept
  <2> HIDE DEF item, got, want
  <2>4. /\ me'.log = Append(me.log, item) /\ me'.role = me.role /\ me'.forced = me.forced
        /\ me'.pc = "args" /\ me'.n = me.n + 1 /\ me'.status = me.status
    BY <1>1, <1>6 DEF Process
  <2>5. ~ Pending /\ ~ Pending' /\ me'.pc \notin InCall BY <1>1, <2>4 DEF Pending, InCall
  <2>6. ~ me.forced => me'.n = Len(me.log) + 1 BY <1>1, <2>4, <2>5 DEF LogInv
  <2> QED BY <1>1, <1>2, <2>1, <2>2, <2>3, <2>4, <2>5, <2>6, LogGrows
<1> QED BY <1>3, <1>5, <1>6 DEF OnlyMe

LEMMA SetXattrStep ==
  ASSUME TypeInv, LogInv, SetXattr PROVE LogInv'
<1>1. /\ me \in Process /\ me.n \in Nat /\ me.pc = "xattr" /\ me.fd \in Nodes
      /\ me.cap \in Stored /\ attr \in [Nodes -> Attribute \cup {None}]
  BY DEF TypeInv, Process, SetXattr, CallInv, FilesInv
<1>2. me.status # 0 BY <1>1 DEF LogInv
<1>3. Pending /\ me.pc \in InCall /\ me.pc # "exit" BY <1>1 DEF Pending, InCall
<1> DEFINE item == Done("set", me.fd, me.cap)
<1>4. CASE \E e : OnlyMe(Returns(-1, e))
  <2>1. /\ me'.log = me.log /\ me'.role = me.role /\ me'.forced = me.forced
        /\ me'.n = me.n /\ me'.status = me.status /\ me'.pc = "returned" /\ me'.ret = -1
        /\ attr' = attr
    BY <1>1, <1>4 DEF OnlyMe, Returns, Process
  <2>2. Pending' /\ me'.pc \notin InCall BY <2>1 DEF Pending, InCall
  <2> QED BY <1>2, <1>3, <2>1, <2>2, LogSame DEF LogInv
<1>5. CASE /\ Raw # NULL /\ attr' = [attr EXCEPT ![me.fd] = Raw]
           /\ me' = [Returns(0, None) EXCEPT
                        !.log = IF me.role = "setcap" THEN Append(@, item) ELSE @]
  <2>1. /\ me'.log = IF me.role = "setcap" THEN Append(me.log, item) ELSE me.log
        /\ me'.role = me.role /\ me'.forced = me.forced /\ me'.n = me.n
        /\ me'.status = me.status /\ me'.pc = "returned" /\ me'.ret = 0
    BY <1>1, <1>5 DEF Returns, Process
  <2>2. CASE me.role # "setcap" BY <1>2, <2>1, <2>2 DEF LogInv, Setcap
  <2>3. CASE me.role = "setcap" /\ me.forced BY <1>2, <2>1, <2>3 DEF LogInv, Setcap
  <2>4. CASE me.role = "setcap" /\ ~ me.forced
    <3>0. item.by = "set" /\ item.file = me.fd /\ item.cap = me.cap BY DEF Done
    <3>1. item \in LogItem BY <1>1 DEF LogItem, FileSet, Done
    <3>2. \A x \in Nodes : item.by # "set" \/ x # item.file => attr'[x] = attr[x]
      BY <1>1, <1>5, <3>0
    <3>3. me.fd # None /\ attr'[me.fd] = Raw BY <1>1, <1>5, FileCapsAssumption
    <3>4. Kept(attr', item)
      <4>1. CASE me.cap = NULL
        <5>1. attr'[me.fd] = None BY <3>3, <4>1 DEF Raw
        <5>2. HasIn(attr', me.fd) = NULL BY <5>1 DEF HasIn
        <5> QED BY <3>0, <3>3, <4>1, <5>1, <5>2 DEF Kept
      <4>2. CASE me.cap # NULL
        <5> DEFINE caps == me.cap.caps
                   id == me.cap.rootid
        <5>1. caps \in CapObject /\ id \in Nat /\ me.cap = Object(caps, id)
          BY <1>1, <4>2 DEF Stored, CapOwned, Object
        <5>2. Raw = fcaps_save(caps, id, lib) /\ Raw # NULL BY <1>5, <4>2 DEF Raw
        <5>3. ~ Uncompressible(caps) BY <1>3, <2>4, <4>2 DEF LogInv, Setcap
        <5> HIDE DEF caps, id
        <5>4. fcaps_load(Raw) = me.cap BY <5>1, <5>2, <5>3, Exact
        <5>5. Raw # None
          <6>1. Raw \in Attribute BY <5>1, <5>2, SaveType
          <6> QED BY <6>1, FileCapsAssumption
        <5>6. HasIn(attr', me.fd) = me.cap BY <3>3, <5>4, <5>5 DEF HasIn
        <5> QED BY <3>0, <3>3, <4>2, <5>5, <5>6 DEF Kept
      <4> QED BY <4>1, <4>2
    <3> HIDE DEF item
    <3>5. ~ Pending' /\ me'.pc \notin InCall BY <2>1 DEF Pending, InCall
    <3>6. me'.n = Len(me.log) + 1 BY <1>1, <1>3, <2>1, <2>4 DEF LogInv, Setcap
    <3>7. me'.log = Append(me.log, item) BY <2>1, <2>4
    <3> QED BY <1>2, <1>3, <2>1, <2>4, <3>1, <3>2, <3>4, <3>5, <3>6, <3>7, LogGrows DEF Setcap
  <2> QED BY <2>2, <2>3, <2>4
<1> QED BY <1>4, <1>5 DEF SetXattr

LEMMA LogNext == TypeInv /\ LogInv /\ [Next]_vars => LogInv'
<1> SUFFICES ASSUME TypeInv, LogInv, [Next]_vars PROVE LogInv' OBVIOUS
<1>1. CASE UNCHANGED vars BY <1>1 DEF vars, LogInv, Setcap, Pending
<1>2. CASE Rename BY <1>2 DEF Rename, LogInv, Setcap, Pending
<1> QED BY <1>1, <1>2, InCallStep, OtherStep, PlainStep, VerifyStep, SetXattrStep DEF Next

(* With exit status 0 and no -f, every file setcap set (setcap.c) holds    *)
(* exactly the capabilities and the root id of the last pair that set it,  *)
(* and no attribute at all if that was a -r.  Of a file that -v found      *)
(* right it says what the code compares: what the file has and what was    *)
(* named are the same when nothing counts as an empty set.                 *)
THEOREM SetcapDidIt == Spec => []SetcapDid
<1>1. Init => LogInv
  <2> SUFFICES ASSUME Init PROVE LogInv OBVIOUS
  <2>1. /\ me.status = None /\ me.log = <<>> /\ me.n = 0 /\ me.pc \in {"idle", "args"}
        /\ me.forced = FALSE
    BY DEF Init, Start
  <2>2. me.status # 0 BY <2>1, FileCapsAssumption
  <2>3. ~ Pending /\ me.pc \notin InCall BY <2>1 DEF Pending, InCall
  <2> QED BY <2>1, <2>2, <2>3 DEF LogInv
<1>2. TypeInv /\ LogInv => SetcapDid
  <2> SUFFICES ASSUME TypeInv, LogInv, Setcap, me.status = 0, ~ me.forced
               PROVE  SetcapDid
    BY DEF SetcapDid
  <2>1. me.pc = "exit" /\ ~ Pending BY DEF LogInv, Pending, InCall
  <2>2. Len(me.log) = me.n BY <2>1 DEF LogInv
  <2>3. \A j \in DOMAIN me.log : Latest(me.log, j) => Kept(attr, me.log[j]) BY DEF LogInv
  <2> QED BY <2>2, <2>3 DEF SetcapDid, Latest, Kept, Has, HasIn
<1> QED BY <1>1, <1>2, LogNext, TypeInvHolds, PTL DEF Spec

-----------------------------------------------------------------------------
(* What a conversion gives back.                                           *)

(* Read back, the representation in hand is the object it was made from. *)
Reads(form, orig, lib_) ==
    /\ form[1] = "text" => cap_from_text(form[2], lib_) = orig
    /\ form[1] = "ext" => cap_copy_int_check(form[2], form[3]) = orig

IabReads(form, iab, lib_) ==
    /\ form[1] = "iab" => cap_iab_from_text(form[2], lib_) = Cut(iab, 0 .. lib_.cmb - 1)
    /\ form[1] = "pid" => form[2] = iab

KeepsObject(m) == m.role = "caps" => m.cap # NULL /\ m.cap.caps = m.orig

(* A tuple in hand has A within I, as cap_iab_set_vector keeps it, so that *)
(* its text loses nothing of it; and so has what was read back.            *)
ConvInv == /\ Speakable(BitsOf(me.orig), lib) => KeepsObject(me) /\ Reads(me.form, me.orig, lib)
           /\ me.iab.a \subseteq me.iab.i
           /\ IabReads(me.form, me.iab, lib)

LEMMA NoForm ==
  ASSUME NEW orig, NEW lib_, NEW iab
  PROVE  Reads(<<None>>, orig, lib_) /\ IabReads(<<None>>, iab, lib_)
<1> DEFINE f == <<None>>
<1>1. f[1] \notin {"text", "iab", "ext", "pid"} BY FileCapsAssumption
<1> HIDE DEF f
<1>2. Reads(f, orig, lib_) /\ IabReads(f, iab, lib_) BY <1>1 DEF Reads, IabReads
<1> QED BY <1>2 DEF f

LEMMA InitConv == Init => ConvInv
<1> SUFFICES ASSUME Init PROVE ConvInv OBVIOUS
<1>1. PICK role \in {"setcap", "getcap", "caps", "iabs"}, caps \in CapObject,
           iab \in IabObject : me = Start(role, caps, iab) /\ iab.a \subseteq iab.i
  <2>1. NoFlags \in CapObject BY DEF NoFlags, CapObject
  <2>2. NoIab \in IabObject /\ NoIab.a \subseteq NoIab.i BY DEF NoIab, IabObject
  <2> QED BY <2>1, <2>2, FileCapsAssumption DEF Init
<1>2. /\ me.form = <<None>> /\ me.orig = caps /\ me.cap = Object(caps, 0) /\ me.iab = iab
  BY <1>1 DEF Start
<1>3. Object(caps, 0) # NULL /\ Object(caps, 0).caps = caps
  <2>1. Object(caps, 0) \in CapOwned BY DEF Object, CapOwned
  <2> QED BY <2>1, FileCapsAssumption DEF Object
<1> QED BY <1>1, <1>2, <1>3, NoForm DEF ConvInv, KeepsObject

(* The steps that convert nothing. *)
Keeps == /\ me'.role = me.role /\ me'.cap = me.cap /\ me'.orig = me.orig
         /\ me'.iab = me.iab /\ me'.form = me.form

LEMMA ConvKept ==
  ASSUME ConvInv, Keeps, lib' = lib PROVE ConvInv'
BY DEF ConvInv, Keeps, KeepsObject, Reads, IabReads

LEMMA KeepSteps ==
  ASSUME me \in Process,
         \/ Rename \/ Open \/ Stat \/ SetXattr \/ Option \/ NoFile \/ Verify
         \/ RaiseSetfcap \/ SetFile \/ Returned \/ Finish \/ CallSetFile \/ SetFileReturns
  PROVE  Keeps
<1>1. CASE Rename BY <1>1 DEF Rename, Keeps
<1>2. ASSUME NEW ret, NEW e PROVE me' = Returns(ret, e) => Keeps
  BY DEF Returns, Keeps, Process
<1>3. CASE Open
  <2>1. \/ \E x : me' = [me EXCEPT !.fd = x, !.pc = "stat", !.seen = @ \cup {x}]
        \/ me' = [me EXCEPT !.pc = "open_path"]
        \/ me' = Returns(-1, "ENOENT")
    BY <1>3 DEF Open, OnlyMe
  <2>2. CASE \E x : me' = [me EXCEPT !.fd = x, !.pc = "stat", !.seen = @ \cup {x}]
    BY <2>2 DEF Process, Keeps
  <2>3. CASE me' = [me EXCEPT !.pc = "open_path"] BY <2>3 DEF Process, Keeps
  <2> QED BY <1>2, <2>1, <2>2, <2>3
<1>4. CASE Stat
  <2>1. \/ me' = Returns(-1, "EINVAL") \/ me' = [me EXCEPT !.pc = "xattr"]
    BY <1>4 DEF Stat, OnlyMe
  <2>2. CASE me' = [me EXCEPT !.pc = "xattr"] BY <2>2 DEF Process, Keeps
  <2> QED BY <1>2, <2>1, <2>2
<1>5. CASE SetXattr
  <2>1. \/ \E e : me' = Returns(-1, e)
        \/ \E log : me' = [Returns(0, None) EXCEPT !.log = log]
    BY <1>5 DEF SetXattr, OnlyMe
  <2>2. CASE \E log : me' = [Returns(0, None) EXCEPT !.log = log]
    BY <2>2 DEF Returns, Process, Keeps
  <2> QED BY <1>2, <2>1, <2>2
<1>6. ASSUME NEW s PROVE me' = [me EXCEPT !.pc = "exit", !.status = s] => Keeps
  BY DEF Process, Keeps
<1>7. CASE Option
  <2>1. \/ me' = [me EXCEPT !.forced = TRUE]
        \/ me' = [me EXCEPT !.verify = TRUE]
        \/ \E id : me' = [me EXCEPT !.nsid = id]
    BY <1>7 DEF Option, OnlyMe
  <2> QED BY <2>1 DEF Process, Keeps
<1>8. CASE NoFile \/ Finish BY <1>6, <1>8 DEF NoFile, Finish, Exits, OnlyMe
<1>9. CASE Verify
  <2>1. \/ me' = [me EXCEPT !.pc = "exit", !.status = 1]
        \/ \E r : me' = [me EXCEPT !.pc = "args", !.n = @ + 1, !.log = Append(@, r)]
    BY <1>9 DEF Verify, OnlyMe, Exits
  <2>2. CASE \E r : me' = [me EXCEPT !.pc = "args", !.n = @ + 1, !.log = Append(@, r)]
    BY <2>2 DEF Process, Keeps
  <2> QED BY <1>6, <2>1, <2>2
<1>10. CASE RaiseSetfcap
  <2>1. \/ me' = [me EXCEPT !.privileged = TRUE]
        \/ me' = [me EXCEPT !.pc = "exit", !.status = 1]
    BY <1>10 DEF RaiseSetfcap, OnlyMe, Exits
  <2>2. CASE me' = [me EXCEPT !.privileged = TRUE] BY <2>2 DEF Process, Keeps
  <2> QED BY <1>6, <2>1, <2>2
<1>11. CASE SetFile
  <2>1. \/ me' = [me EXCEPT !.pc = "exit", !.status = 1]
        \/ \E p : me' = [me EXCEPT !.pc = "open", !.path = p, !.seen = {}, !.n = @ + 1]
    BY <1>11 DEF SetFile, OnlyMe, Exits
  <2>2. CASE \E p : me' = [me EXCEPT !.pc = "open", !.path = p, !.seen = {}, !.n = @ + 1]
    BY <2>2 DEF Process, Keeps
  <2> QED BY <1>6, <2>1, <2>2
<1>12. CASE Returned
  <2>1. \/ me' = [me EXCEPT !.pc = "args"]
        \/ me' = [me EXCEPT !.pc = "exit", !.status = 1]
    BY <1>12 DEF Returned, OnlyMe, Exits
  <2>2. CASE me' = [me EXCEPT !.pc = "args"] BY <2>2 DEF Process, Keeps
  <2> QED BY <1>6, <2>1, <2>2
<1>13. CASE CallSetFile
  <2>1. \E p, able :
          me' = [[me EXCEPT !.pc = "open", !.path = p, !.seen = {}, !.privileged = able]
                  EXCEPT !.n = @ + 1]
    BY <1>13 DEF CallSetFile, Does, OnlyMe
  <2> QED BY <2>1 DEF Process, Keeps
<1>14. CASE SetFileReturns
  <2>1. me' = [me EXCEPT !.pc = "idle"] BY <1>14 DEF SetFileReturns, OnlyMe
  <2> QED BY <2>1 DEF Process, Keeps
<1> QED BY <1>1, <1>3, <1>4, <1>5, <1>7, <1>8, <1>9, <1>10, <1>11, <1>12, <1>13, <1>14

(* What the objects and forms of a step are, field by field. *)
LEMMA FormStep ==
  ASSUME me \in Process, NEW f, me' = [[me EXCEPT !.form = f] EXCEPT !.n = @ + 1]
  PROVE  /\ me'.role = me.role /\ me'.cap = me.cap /\ me'.orig = me.orig /\ me'.iab = me.iab
         /\ me'.form = f
BY DEF Process

LEMMA CapStep ==
  ASSUME me \in Process, NEW c, me' = [[me EXCEPT !.cap = c] EXCEPT !.n = @ + 1]
  PROVE  /\ me'.role = me.role /\ me'.cap = c /\ me'.orig = me.orig /\ me'.iab = me.iab
         /\ me'.form = me.form
BY DEF Process

LEMMA ConvSteps ==
  ASSUME TypeInv, ConvInv, lib' = lib,
         \/ Caps \/ Lstat \/ do_getcap \/ ToText \/ FromText \/ CopyExt \/ CopyInt
         \/ cap_set_nsowner \/ CallGetFile \/ IabToText \/ IabFromText \/ IabGetPid
         \/ IabGetPidFails
  PROVE  ConvInv'
<1>1. me \in Process /\ lib.cmb \in 1 .. MAXBITS /\ lib.cmb \in Nat
  <2>1. CAP_BITS \in 1 .. MAXBITS BY FormsAssumption
  <2> QED BY <2>1 DEF TypeInv, LibInv, MaxBitsExact
<1>2. me.orig \in CapObject /\ me.cap \in Stored /\ me.iab \in IabObject BY <1>1 DEF Process
<1>3. ASSUME NEW c \in CapObject PROVE Object(c, 0) # NULL /\ Object(c, 0).caps = c
  <2>1. Object(c, 0) \in CapOwned BY DEF Object, CapOwned
  <2> QED BY <2>1, FileCapsAssumption DEF Object
<1>4. NULL # me.orig BY <1>2, NullAssumption
<1> DEFINE says == Speakable(BitsOf(me.orig), lib)
<1>5. CASE Caps
  <2>1. \/ \E c : me' = [me EXCEPT !.cap = c, !.pc = "file"]
        \/ me' = [me EXCEPT !.pc = "exit", !.status = 1]
    BY <1>5 DEF Caps, OnlyMe, Exits
  <2>2. me'.role = me.role /\ me'.orig = me.orig /\ me'.iab = me.iab /\ me'.form = me.form
    BY <1>1, <2>1 DEF Process
  <2>3. me.role # "caps" BY <1>5 DEF Caps, Setcap
  <2> QED BY <2>2, <2>3 DEF ConvInv, KeepsObject, Reads, IabReads
<1>6. CASE Lstat
  <2>1. \E p, pc : me' = [me EXCEPT !.n = @ + 1, !.path = p, !.form = <<None>>, !.pc = pc]
    BY <1>6 DEF Lstat, OnlyMe
  <2>2. /\ me'.role = me.role /\ me'.cap = me.cap /\ me'.orig = me.orig /\ me'.iab = me.iab
        /\ me'.form = <<None>>
    BY <1>1, <2>1 DEF Process
  <2> QED BY <2>2, NoForm DEF ConvInv, KeepsObject
<1>7. CASE do_getcap
  <2> DEFINE got == cap_get_file(me.path)
             c == got.caps
             f == <<"text", cap_to_text(c, lib)>>
  <2>1. got \in Stored
    <3>1. me.path \in Paths BY <1>7 DEF do_getcap, TypeInv, CallInv
    <3> QED BY <3>1, GetFileType
  <2>2. \/ me' = [me EXCEPT !.pc = "args"]
        \/ got # NULL /\ me' = [me EXCEPT !.pc = "args", !.cap = got, !.orig = c, !.form = f]
    BY <1>7 DEF do_getcap, OnlyMe
  <2>3. me.role # "caps" BY <1>7 DEF do_getcap
  <2>4. CASE me' = [me EXCEPT !.pc = "args"]
    <3>1. Keeps BY <1>1, <2>4 DEF Process, Keeps
    <3> QED BY <3>1, ConvKept
  <2>5. CASE got # NULL /\ me' = [me EXCEPT !.pc = "args", !.cap = got, !.orig = c, !.form = f]
    <3>1. c \in CapObject BY <2>1, <2>5 DEF Stored, CapOwned
    <3>2. Speakable(BitsOf(c), lib) => cap_from_text(f[2], lib) = c
      BY <1>1, <3>1, TextRoundTrip
    <3>3. f[1] = "text" OBVIOUS
    <3> HIDE DEF f, c, got
    <3>4. me'.role = me.role /\ me'.orig = c /\ me'.iab = me.iab /\ me'.form = f
      BY <1>1, <2>5 DEF Process
    <3> QED BY <2>3, <3>2, <3>3, <3>4 DEF ConvInv, KeepsObject, Reads, IabReads
  <2> QED BY <2>2, <2>4, <2>5
<1>8. CASE ToText
  <2> DEFINE f == <<"text", cap_to_text(me.cap.caps, lib)>>
  <2>1. me.cap.caps \in CapObject /\ me.role = "caps"
    BY <1>2, <1>8 DEF ToText, Stored, CapOwned, Idle
  <2>2. says => me.cap.caps = me.orig BY <2>1 DEF ConvInv, KeepsObject
  <2>3. says => cap_from_text(f[2], lib) = me.orig BY <1>1, <1>2, <2>2, TextRoundTrip
  <2>4. me' = [[me EXCEPT !.form = f] EXCEPT !.n = @ + 1] BY <1>8 DEF ToText, Does, OnlyMe
  <2>5. f[1] = "text" OBVIOUS
  <2> HIDE DEF f
  <2>6. /\ me'.role = me.role /\ me'.cap = me.cap /\ me'.orig = me.orig /\ me'.iab = me.iab
        /\ me'.form = f
    BY <1>1, <2>4, FormStep
  <2> QED BY <2>3, <2>5, <2>6 DEF ConvInv, KeepsObject, Reads, IabReads
<1>9. CASE FromText
  <2> DEFINE r == cap_from_text(me.form[2], lib)
             c == ObjectOrNull(r)
  <2>1. says => r = me.orig BY <1>9 DEF FromText, ConvInv, Reads
  <2>2. says => c # NULL /\ c.caps = me.orig BY <1>2, <1>3, <1>4, <2>1 DEF ObjectOrNull
  <2>3. me' = [[me EXCEPT !.cap = c] EXCEPT !.n = @ + 1] BY <1>9 DEF FromText, Does, OnlyMe
  <2> HIDE DEF c
  <2>4. /\ me'.role = me.role /\ me'.cap = c /\ me'.orig = me.orig /\ me'.iab = me.iab
        /\ me'.form = me.form
    BY <1>1, <2>3, CapStep
  <2> QED BY <2>2, <2>4 DEF ConvInv, KeepsObject
<1>10. CASE CopyExt
  <2>1. PICK l \in {cap_size(me.cap.caps), cap_size(me.cap.caps) - 1} :
          LET ext == cap_copy_ext(me.cap.caps, l)
          IN Does([me EXCEPT !.form = IF ext = NULL THEN <<None>> ELSE <<"ext", ext, l>>])
    BY <1>10 DEF CopyExt
  <2> DEFINE ext == cap_copy_ext(me.cap.caps, l)
             f == IF ext = NULL THEN <<None>> ELSE <<"ext", ext, l>>
  <2>2. me.cap.caps \in CapObject /\ me.role = "caps"
    BY <1>2, <1>10 DEF CopyExt, Stored, CapOwned, Idle
  <2>3. cap_size(me.cap.caps) \in Int
    <3>1. PICK len \in Nat : cap_size(me.cap.caps) = HeaderSize + 3 * len BY <2>2, ExtSize
    <3> QED BY <3>1 DEF HeaderSize
  <2>4. ext = NULL \/ cap_copy_int_check(ext, l) = me.cap.caps
    <3>1. l \in Int /\ (l < cap_size(me.cap.caps) \/ l >= cap_size(me.cap.caps)) BY <2>3
    <3> QED BY <2>2, <3>1, ExtRoundTrip
  <2>5. says => me.cap.caps = me.orig BY <2>2 DEF ConvInv, KeepsObject
  <2>6. (says => Reads(f, me.orig, lib)) /\ IabReads(f, me.iab, lib)
    <3>1. CASE ext = NULL BY <3>1, NoForm
    <3>2. CASE ext # NULL
      <4>1. f[1] = "ext" /\ f[2] = ext /\ f[3] = l BY <3>2
      <4> HIDE DEF f, ext
      <4> QED BY <2>4, <2>5, <3>2, <4>1 DEF Reads, IabReads
    <3> QED BY <3>1, <3>2
  <2>7. me' = [[me EXCEPT !.form = f] EXCEPT !.n = @ + 1] BY <2>1 DEF Does, OnlyMe
  <2> HIDE DEF f
  <2>8. /\ me'.role = me.role /\ me'.cap = me.cap /\ me'.orig = me.orig /\ me'.iab = me.iab
        /\ me'.form = f
    BY <1>1, <2>7, FormStep
  <2> QED BY <2>6, <2>8 DEF ConvInv, KeepsObject
<1>11. CASE CopyInt
  <2> DEFINE r == cap_copy_int_check(me.form[2], me.form[3])
             c == ObjectOrNull(r)
  <2>1. says => r = me.orig BY <1>11 DEF CopyInt, ConvInv, Reads
  <2>2. says => c # NULL /\ c.caps = me.orig BY <1>2, <1>3, <1>4, <2>1 DEF ObjectOrNull
  <2>3. me' = [[me EXCEPT !.cap = c] EXCEPT !.n = @ + 1] BY <1>11 DEF CopyInt, Does, OnlyMe
  <2> HIDE DEF c
  <2>4. /\ me'.role = me.role /\ me'.cap = c /\ me'.orig = me.orig /\ me'.iab = me.iab
        /\ me'.form = me.form
    BY <1>1, <2>3, CapStep
  <2> QED BY <2>2, <2>4 DEF ConvInv, KeepsObject
<1>12. CASE cap_set_nsowner
  <2>1. PICK id \in RootIds : Does([me EXCEPT !.cap.rootid = id])
    BY <1>12 DEF cap_set_nsowner
  <2> DEFINE c == [me.cap EXCEPT !.rootid = id]
  <2>2. c # NULL /\ c.caps = me.cap.caps
    <3>1. c \in CapOwned /\ c.caps = me.cap.caps
      BY <1>2, <1>12, FileCapsAssumption DEF cap_set_nsowner, Stored, CapOwned
    <3> QED BY <3>1, FileCapsAssumption
  <2>3. me' = [[me EXCEPT !.cap = c] EXCEPT !.n = @ + 1] BY <1>1, <2>1 DEF Does, OnlyMe, Process
  <2> HIDE DEF c
  <2>4. /\ me'.role = me.role /\ me'.cap = c /\ me'.orig = me.orig /\ me'.iab = me.iab
        /\ me'.form = me.form
    BY <1>1, <2>3, CapStep
  <2> QED BY <2>2, <2>4 DEF ConvInv, KeepsObject
<1>13. CASE CallGetFile
  <2>1. PICK p \in Paths :
          LET got == cap_get_file(p)
          IN got # NULL /\ Does([me EXCEPT !.cap = got, !.orig = got.caps, !.form = <<None>>])
    BY <1>13 DEF CallGetFile
  <2> DEFINE got == cap_get_file(p)
             c == got.caps
  <2>2. me' = [[me EXCEPT !.cap = got, !.orig = c, !.form = <<None>>] EXCEPT !.n = @ + 1]
    BY <2>1 DEF Does, OnlyMe
  <2>3. got # NULL /\ got.caps = c BY <2>1
  <2> HIDE DEF got, c
  <2>4. me'.cap = got /\ me'.orig = c /\ me'.iab = me.iab /\ me'.form = <<None>>
    BY <1>1, <2>2 DEF Process
  <2> QED BY <2>3, <2>4, NoForm DEF ConvInv, KeepsObject
<1>14. CASE IabToText
  <2> DEFINE f == <<"iab", cap_iab_to_text(me.iab, lib)>>
  <2>1. cap_iab_from_text(f[2], lib) = Cut(me.iab, 0 .. lib.cmb - 1)
    BY <1>1, <1>2, IabRoundTrip DEF ConvInv
  <2>2. f[1] = "iab" OBVIOUS
  <2>3. me' = [[me EXCEPT !.form = f] EXCEPT !.n = @ + 1] BY <1>14 DEF IabToText, Does, OnlyMe
  <2> HIDE DEF f
  <2>4. /\ me'.role = me.role /\ me'.cap = me.cap /\ me'.orig = me.orig /\ me'.iab = me.iab
        /\ me'.form = f
    BY <1>1, <2>3, FormStep
  <2> QED BY <2>1, <2>2, <2>4 DEF ConvInv, KeepsObject, Reads, IabReads
<1>15. CASE IabFromText
  <2> DEFINE iab == cap_iab_from_text(me.form[2], lib)
             within == 0 .. lib.cmb - 1
  <2>1. iab = Cut(me.iab, within) /\ me.form[1] = "iab"
    BY <1>15 DEF IabFromText, ConvInv, IabReads
  <2>2. iab.a \subseteq iab.i /\ Cut(iab, within) = iab
    <3> DEFINE r == Cut(me.iab, within)
    <3>1. /\ r.i = me.iab.i \cap within /\ r.a = me.iab.a \cap within
          /\ r.nb = me.iab.nb \cap within
      BY DEF Cut
    <3>2. r.a \subseteq r.i BY <3>1 DEF ConvInv
    <3>3. r.i \cap within = r.i /\ r.a \cap within = r.a /\ r.nb \cap within = r.nb BY <3>1
    <3>4. r = [i |-> r.i, a |-> r.a, nb |-> r.nb] BY DEF Cut
    <3> HIDE DEF r, within
    <3>5. Cut(r, within) = r BY <3>3, <3>4 DEF Cut
    <3> QED BY <2>1, <3>2, <3>5 DEF r
  <2>3. me' = [[me EXCEPT !.iab = iab] EXCEPT !.n = @ + 1]
    BY <1>15 DEF IabFromText, Does, OnlyMe
  <2>4. cap_iab_from_text(me.form[2], lib) = Cut(iab, within) BY <2>1, <2>2
  <2> HIDE DEF iab
  <2>5. /\ me'.role = me.role /\ me'.cap = me.cap /\ me'.orig = me.orig /\ me'.iab = iab
        /\ me'.form = me.form
    BY <1>1, <2>3 DEF Process
  <2> QED BY <2>1, <2>2, <2>4, <2>5 DEF ConvInv, KeepsObject, Reads, IabReads
<1>16. CASE IabGetPid
  <2> DEFINE k == cap_iab_get_pid([I |-> me.iab.i, A |-> me.iab.a,
                                   B |-> KernelHas \ me.iab.nb], lib)
             f == <<"pid", k>>
  <2>1. k = me.iab
    <3> DEFINE has == KernelHas
    <3>1. lib.cmb = kernel /\ me.iab.i \cup me.iab.a \cup me.iab.nb \subseteq has
      BY <1>16 DEF IabGetPid, TypeInv, LibInv, MaxBitsExact
    <3>2. has = 0 .. lib.cmb - 1 BY <3>1 DEF KernelHas
    <3> HIDE DEF has
    <3>3. cap_iab_get_pid([I |-> me.iab.i, A |-> me.iab.a, B |-> has \ me.iab.nb], lib) = me.iab
      BY <1>1, <1>2, <3>1, <3>2, PidExact
    <3> QED BY <3>3 DEF has
  <2>2. me' = [[me EXCEPT !.form = f] EXCEPT !.n = @ + 1] BY <1>16 DEF IabGetPid, Does, OnlyMe
  <2>3. f[1] = "pid" /\ f[2] = me.iab BY <2>1
  <2> HIDE DEF f
  <2>4. /\ me'.role = me.role /\ me'.cap = me.cap /\ me'.orig = me.orig /\ me'.iab = me.iab
        /\ me'.form = f
    BY <1>1, <2>2, FormStep
  <2> QED BY <2>3, <2>4 DEF ConvInv, KeepsObject, Reads, IabReads
<1>17. CASE IabGetPidFails
  <2>1. me' = [[me EXCEPT !.form = <<None>>] EXCEPT !.n = @ + 1]
    BY <1>17 DEF IabGetPidFails, Does, OnlyMe
  <2>2. /\ me'.role = me.role /\ me'.cap = me.cap /\ me'.orig = me.orig /\ me'.iab = me.iab
        /\ me'.form = <<None>>
    BY <1>1, <2>1, FormStep
  <2> QED BY <2>2, NoForm DEF ConvInv, KeepsObject
<1> QED BY <1>5, <1>6, <1>7, <1>8, <1>9, <1>10, <1>11, <1>12, <1>13, <1>14, <1>15, <1>16, <1>17

LEMMA ConvNext == TypeInv /\ ConvInv /\ [Next]_vars => ConvInv'
<1> SUFFICES ASSUME TypeInv, ConvInv, [Next]_vars PROVE ConvInv' OBVIOUS
<1>1. CASE UNCHANGED vars
  <2>1. Keeps /\ lib' = lib BY <1>1 DEF vars, Keeps
  <2> QED BY <2>1, ConvKept
<1>2. CASE Next
  <2>1. lib' = lib /\ me \in Process BY <1>2, OnlyTwo DEF TypeInv
  <2> QED BY <1>2, <2>1, KeepSteps, ConvKept, ConvSteps DEF Next
<1> QED BY <1>1, <1>2

(* cap_to_text and cap_from_text, cap_copy_ext and cap_copy_int,           *)
(* cap_iab_to_text and cap_iab_from_text lose nothing of an object that    *)
(* can be spoken of, in any order and any number of times, for every width *)
(* of a capability set, every kernel and every object (cap_text.c,         *)
(* cap_extint.c); and cap_iab_get_pid reads what the process has.          *)
THEOREM NothingLost == Spec => []ConversionsPreserve
<1>1. ConvInv => ConversionsPreserve
  BY DEF ConvInv, ConversionsPreserve, KeepsObject, Reads, IabReads, Cut
<1>2. Spec => []ConvInv BY InitConv, ConvNext, TypeInvHolds, PTL DEF Spec
<1> QED BY <1>1, <1>2, PTL
=============================================================================
