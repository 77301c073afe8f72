------------------------------- MODULE PamCap -------------------------------
(***************************************************************************)
(* pam_cap.so (pam_cap/pam_cap.c): the rule of /etc/security/              *)
(* capability.conf that covers a user says which IAB tuple a process that  *)
(* becomes that user is given, either at once (pam_sm_setcred) or, with    *)
(* the argument "defer", when the PAM handle is closed (iab_apply).        *)
(*                                                                         *)
(* A rule is <<"iab", tuple>>, <<"all">>, <<"none">> or, when its text     *)
(* does not parse, <<"bad">>; Nothing stands for no rule.                  *)
(***************************************************************************)
EXTENDS CapProc

CONSTANTS
    GroupsOf,       \* user -> the groups of that user
    Configs,        \* states of the configuration file
    Arguments,      \* arguments of the module: [defer, keepcaps, autoauth, fallback]
    MaxEdits        \* bound: changes of the configuration file

Nothing == <<"nothing">>

(* The tuple of a rule that has one is a cap_iab_t. *)
IsRule(rule) == rule[1] = "iab" => rule[2] \in Iab

ASSUME PamCapAssumption == /\ MaxEdits \in Nat
                           /\ \A a \in Arguments :
                                 /\ {a.defer, a.keepcaps, a.autoauth} \subseteq BOOLEAN
                                 /\ IsRule(a.fallback)
                           /\ \A file \in Configs :
                                 /\ DOMAIN file.lines \subseteq Nat
                                 /\ \A i \in DOMAIN file.lines : IsRule(file.lines[i].caps)

VARIABLES
    conf,       \* the configuration file: [there, writable, lines]
    edits,      \* how often it was changed
    pcs,        \* the arguments of the module
    data        \* process -> the tuple kept with its PAM handle, as a rule

pamvars == <<conf, edits, pcs, data>>

PamInit == /\ conf \in Configs /\ edits = 0 /\ pcs \in Arguments
           /\ data = [p \in Procs |-> Nothing]

(* The administrator edits the file: authentication and setcred each read it. *)
EditConf == /\ edits < MaxEdits
            /\ conf' \in Configs \ {conf}
            /\ edits' = edits + 1
            /\ UNCHANGED <<vars, pcs, data>>

-----------------------------------------------------------------------------
(* An identifier of a line covers the user; a user who is not known to the *)
(* system (load_groups) has no rule.                                       *)
Known(user) == user \in DOMAIN GroupsOf
Covers(line, user) == \/ <<"*">> \in line.ids \/ <<"user", user>> \in line.ids
                      \/ \E g \in GroupsOf[user] : <<"@", g>> \in line.ids

TheRule(user) ==
    LET matching == {i \in DOMAIN conf.lines : Covers(conf.lines[i], user)}
    IN IF ~ Known(user) \/ ~ conf.there \/ conf.writable \/ matching = {} THEN Nothing
       ELSE conf.lines[CHOOSE i \in matching : \A j \in matching : i =< j].caps

(* The rules it may return: a file that cannot be examined, and a rule     *)
(* whose text cannot be stored, count as no rule.                          *)
read_capabilities_for_user(user) ==
    {TheRule(user)} \cup (IF AllocMayFail THEN {Nothing} ELSE {})

(* The module does not ask whether the user exists: "autoauth" is a yes. *)
pam_sm_authenticate(rule) ==
    IF pcs.autoauth \/ rule # Nothing THEN "SUCCESS" ELSE "IGNORE"

(* The rule pam_sm_setcred goes by: "default=" is for who has none. *)
RuleFor(rule) == IF rule = Nothing THEN pcs.fallback ELSE rule

-----------------------------------------------------------------------------
(* Process t begins a call of CapProc; and its credentials become w, by a  *)
(* cap_set_proc or prctl() of its own.                                     *)
Begin(t, op, arg) ==
    Becomes(t, [Fresh(t, op, arg) EXCEPT !.pc = "get_proc", !.n = 0], c(t))
Sets(t, w) == Becomes(t, Blank, w)

(* set_capabilities in process t, up to the end or to the call of          *)
(* cap_iab_set_proc; ok is what it returns in the former case.             *)
(* pam_set_data may fail, and "defer" is never a success.                  *)

SetCapabilities(t, rule, calling, ok) ==
    \/ /\ rule[1] = "iab" /\ pcs.defer
       /\ ~ calling /\ ~ ok
       /\ data' = [data EXCEPT ![t] = rule] \/ (AllocMayFail /\ UNCHANGED data)
       /\ UNCHANGED vars
    \/ /\ rule[1] = "iab" /\ ~ pcs.defer
       /\ calling /\ ~ ok
       /\ Begin(t, "iab_set_proc", rule[2]) /\ UNCHANGED data
    \/ /\ rule[1] = "none"
       /\ LET w == [cap_get_proc(c(t)) EXCEPT !.I = {}]
          IN ~ calling /\ ok = CapsetOk(c(t), w) /\ Sets(t, Capset(c(t), w))
       /\ UNCHANGED data
    \/ /\ rule[1] \notin {"iab", "none"}
       /\ ~ calling /\ ok = (rule[1] = "all")
       /\ UNCHANGED <<vars, data>>

(* keepcaps: only where a tuple was read. *)
KeepsCaps(t, rule) == IF pcs.keepcaps /\ rule[1] = "iab" THEN SetKeepCaps(c(t), TRUE) ELSE c(t)

(* Mutant: the tuple is applied without PAM_DATA_SILENT, too. *)
AppliesLoudly(t, success, silent) == data[t] # Nothing /\ success

(* iab_apply, the clean-up of the kept tuple: does pam_end() apply it?     *)
(* (A tuple replaced by another, PAM_DATA_REPLACE, is not; nobody sets two.) *)
Applies(t, success, silent) == data[t] # Nothing /\ success /\ silent
=============================================================================
