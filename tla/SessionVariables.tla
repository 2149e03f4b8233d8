-------------------------- MODULE SessionVariables --------------------------
(***************************************************************************)
(* What else a broker session remembers (src/src/broker.c): its shell      *)
(* variables and aliases in a table of MAX_VARS slots, the table of global *)
(* ones every session shares, the last command's result, and the tally of  *)
(* operations the session needed root for.  Sessions are made by the first *)
(* request that names them or cloned from another.                         *)
(*                                                                         *)
(* The global variables that programs set are not there but in files, one  *)
(* in ENV: and, for one that is to outlive the boot, one in ENVARC: too    *)
(* (src/src/native_dos.c).  A call that writes or deletes both does so one *)
(* after the other, beside the calls of other processes; a start of the    *)
(* broker counts as a boot and copies what is archived into ENV:.  Values  *)
(* are taken to be one line that fits the caller's buffer.                 *)
(*                                                                         *)
(* `told' is history: for each table the value last set for a name and     *)
(* type and not deleted since.  `spent' is history too: the operations     *)
(* that succeeded since the session's count was last read or reset, and    *)
(* `saved': the variables a call has saved that none has begun to delete   *)
(* from the archive since.                                                 *)
(***************************************************************************)
EXTENDS Naturals

CONSTANTS
    Session,      \* session ids
    Global,       \* the key of the shared table, not a session
    VarName,      \* names of variables
    Value,        \* values
    Code,         \* the results a command leaves
    MaxVars,      \* MAX_VARS
    MaxCount,     \* UINT32_MAX, as far as the count goes
    Caller,       \* processes that set global variables
    EnvName,      \* the names of these
    Nested        \* the ones that name a file in a drawer of ENV:

VARIABLES
    live,         \* sessions in use
    table,        \* table[s] : local_vars of s; table[Global] : global_vars
    result,       \* return_code and result2 of each session
    tally,        \* tally_enabled
    privileged,   \* privileged_operations
    told, spent,
    env, envarc,  \* the files in ENV: and in ENVARC:
    pending,      \* what the call of each process has still to do in ENVARC:
    saved

memory == <<live, table, result, tally, privileged, told, spent>>
files == <<env, envarc, pending, saved>>
vars == <<memory, files>>

Slots == 1 .. MaxVars
Kind == {"variable", "alias"}
Tables == Session \cup {Global}
NoName == ""
Unset == "unset"

\* What the constants stand for: no variable has the empty name that marks a
\* free slot, Unset is the answer "no such variable" and no value, and the
\* shared table is no session's.
Constants ==
    /\ NoName \notin VarName /\ Unset \notin Value
    /\ Global \notin Session
    /\ MaxVars \in Nat /\ MaxCount \in Nat

Free == [name |-> NoName, type |-> "none", value |-> Unset]
NoVars == [i \in Slots |-> Free]
Nothing == [p \in VarName \X Kind |-> Unset]

First(S) == CHOOSE i \in S : \A j \in S : i <= j

(* find_variable(): the first slot with the name and the type.             *)
find_variable(tb, n, k) == {i \in Slots : tb[i].name = n /\ tb[i].type = k}

(* allocate_variable(): the slot that has it, or the first free one.       *)
FirstFree(tb, n, k) == {i \in Slots : tb[i].name = NoName}
allocate_variable(tb, n, k) ==
    IF find_variable(tb, n, k) # {} THEN find_variable(tb, n, k)
    ELSE FirstFree(tb, n, k)

(* variable_scope() and lookup_variable(): with no scope given the local   *)
(* table first, then the global one; both given is refused.                *)
Scopes == {{}, {"local"}, {"global"}, {"local", "global"}}

lookup_variable(s, n, k, scope) ==
    LET in_local == scope # {"global"} /\ find_variable(table[s], n, k) # {}
        in_global == scope # {"local"} /\ find_variable(table[Global], n, k) # {}
    IN  IF scope = {"local", "global"} THEN {}
        ELSE IF in_local THEN {s} ELSE IF in_global THEN {Global} ELSE {}

(* SETVAR: local unless the request says global.                           *)
SetVar(s, n, k, scope, v) ==
    LET t == IF scope = {"global"} THEN Global ELSE s
        room == allocate_variable(table[t], n, k)
    IN  /\ s \in live
        /\ scope # {"local", "global"}
        /\ room # {}
        /\ table' = [table EXCEPT ![t][First(room)] =
                        [name |-> n, type |-> k, value |-> v]]
        /\ told' = [told EXCEPT ![t][<<n, k>>] = v]
        /\ UNCHANGED <<live, result, tally, privileged, spent, files>>

(* DELVAR: the entry lookup_variable() finds, cleared.                     *)
DelVar(s, n, k, scope) ==
    /\ s \in live
    /\ \E t \in lookup_variable(s, n, k, scope) :
         /\ table' = [table EXCEPT
                        ![t][First(find_variable(table[t], n, k))] = Free]
         /\ told' = [told EXCEPT ![t][<<n, k>>] = Unset]
    /\ UNCHANGED <<live, result, tally, privileged, spent, files>>

(* GETVAR's answer.                                                        *)
GetVar(s, n, k, scope) ==
    LET t == lookup_variable(s, n, k, scope)
    IN  IF t = {} THEN Unset
        ELSE LET u == CHOOSE x \in t : TRUE
             IN  table[u][First(find_variable(table[u], n, k))].value

(* LISTVARS: the names of one type in one table (append_variable_list()).  *)
ListVars(t, k) == {table[t][i].name : i \in {j \in Slots : table[t][j].type = k}}

(* SETRESULT.                                                              *)
SetResult(s, v) ==
    /\ s \in live
    /\ result' = [result EXCEPT ![s] = v]
    /\ UNCHANGED <<live, table, tally, privileged, told, spent, files>>

(* CLONESESSION: refused when the child exists; the child gets everything  *)
(* but the tally.                                                          *)
CloneSession(s, c) ==
    /\ s \in live /\ c \notin live
    /\ live' = live \cup {c}
    /\ table' = [table EXCEPT ![c] = table[s]]
    /\ result' = [result EXCEPT ![c] = result[s]]
    /\ told' = [told EXCEPT ![c] = told[s]]
    /\ UNCHANGED <<tally, privileged, spent, files>>

(* get_session(): a first request makes an empty session; release_session()*)
(* clears the slot.                                                        *)
Open(s) ==
    /\ s \notin live
    /\ live' = live \cup {s}
    /\ UNCHANGED <<table, result, tally, privileged, told, spent, files>>

Release(s) ==
    /\ s \in live
    /\ live' = live \ {s}
    /\ table' = [table EXCEPT ![s] = NoVars]
    /\ result' = [result EXCEPT ![s] = Unset]
    /\ tally' = [tally EXCEPT ![s] = FALSE]
    /\ privileged' = [privileged EXCEPT ![s] = 0]
    /\ told' = [told EXCEPT ![s] = Nothing]
    /\ spent' = [spent EXCEPT ![s] = 0]
    /\ UNCHANGED files

(* TALLY: ON and OFF start a new period, REPORT answers and starts one.    *)
Tally(s, on) ==
    /\ s \in live
    /\ tally' = [tally EXCEPT ![s] = on]
    /\ privileged' = [privileged EXCEPT ![s] = 0]
    /\ spent' = [spent EXCEPT ![s] = 0]
    /\ UNCHANGED <<live, table, result, told, files>>

(* The report is the count, or 0 while the tally is off; either way the    *)
(* count starts again.                                                     *)
KeptWhenOff(s) == IF tally[s] THEN 0 ELSE privileged[s]
AfterReport(s) == 0

TallyReport(s) ==
    /\ s \in live
    /\ privileged' = [privileged EXCEPT ![s] = AfterReport(s)]
    /\ spent' = [spent EXCEPT ![s] = 0]
    /\ UNCHANGED <<live, table, result, tally, told, files>>

(* PRIVOP: counted only when the operation was done, up to UINT32_MAX.     *)
PrivOp(s, done) ==
    /\ s \in live
    /\ spent[s] < MaxCount + 1
    /\ privileged' = [privileged EXCEPT ![s] =
                        IF done /\ @ < MaxCount THEN @ + 1 ELSE @]
    /\ spent' = [spent EXCEPT ![s] = IF done THEN @ + 1 ELSE @]
    /\ UNCHANGED <<live, table, result, tally, told, files>>

-----------------------------------------------------------------------------
(* Global variables in files.                                              *)
Short == "short"     \* what a write that was cut short leaves
NoCall == [op |-> "none"]

(* global_var_write(): Open() may be refused, and Write() cut short.       *)
Outcome == {"done", "refused", "short"}
global_var_write(old, v, how) ==
    CASE how = "done" -> v
      [] how = "refused" -> old
      [] how = "short" -> Short

(* GetVar() of a global one: ENV: shadows ENVARC:.                         *)
LiveOnly(n) == env[n]
GlobalVar(n) == IF env[n] # Unset THEN env[n] ELSE envarc[n]

(* SetVar(): ENV: first, ENVARC: only when that was written and the caller *)
(* wants the variable saved.                                               *)
SetGlobalVar(c, n, v, save, how) ==
    /\ pending[c] = NoCall
    /\ env' = [env EXCEPT ![n] = global_var_write(@, v, how)]
    /\ pending' = [pending EXCEPT ![c] =
                     IF save /\ how = "done"
                     THEN [op |-> "set", name |-> n, value |-> v] ELSE NoCall]
    /\ UNCHANGED <<memory, envarc, saved>>

(* DeleteVar(): both files when the caller wants it gone for good, whether *)
(* or not the first could be deleted.                                      *)
DeleteGlobalVar(c, n, save, done) ==
    /\ pending[c] = NoCall
    /\ env' = [env EXCEPT ![n] = IF done THEN Unset ELSE @]
    /\ pending' = [pending EXCEPT ![c] =
                     IF save THEN [op |-> "delete", name |-> n] ELSE NoCall]
    /\ saved' = IF save THEN saved \ {n} ELSE saved
    /\ UNCHANGED <<memory, envarc>>

(* The second file of either.                                              *)
Deleting(n) == \E c \in Caller : pending[c].op = "delete" /\ pending[c].name = n

ArchiveSet(c, how) ==
    /\ pending[c].op = "set"
    /\ LET n == pending[c].name
       IN  /\ envarc' = [envarc EXCEPT ![n] =
                            global_var_write(@, pending[c].value, how)]
           /\ saved' = IF how = "done" /\ ~ Deleting(n) THEN saved \cup {n}
                       ELSE saved
    /\ pending' = [pending EXCEPT ![c] = NoCall]
    /\ UNCHANGED <<memory, env>>

ArchiveDelete(c, done) ==
    /\ pending[c].op = "delete"
    /\ envarc' = [envarc EXCEPT ![pending[c].name] = IF done THEN Unset ELSE @]
    /\ pending' = [pending EXCEPT ![c] = NoCall]
    /\ UNCHANGED <<memory, env, saved>>

(* A process that dies between the two.                                    *)
Killed(c) ==
    /\ pending[c] # NoCall
    /\ pending' = [pending EXCEPT ![c] = NoCall]
    /\ UNCHANGED <<memory, env, envarc, saved>>

(* restore_environment_archive(): the archived files, not those in its     *)
(* drawers, over the ones in ENV:.                                         *)
restore_environment_archive(old, how) ==
    [n \in EnvName |-> IF n \in Nested \/ envarc[n] = Unset THEN old[n]
                       ELSE global_var_write(old[n], envarc[n], how[n])]

(* main() of a new broker, which knows no session.  ENV: is in the         *)
(* runtime directory, which a boot of the host (and of every process)      *)
(* clears and the end of a broker does not.                                *)
StartBroker(host, how) ==
    /\ live' = {}
    /\ table' = [t \in Tables |-> NoVars]
    /\ result' = [s \in Session |-> Unset]
    /\ tally' = [s \in Session |-> FALSE]
    /\ privileged' = [s \in Session |-> 0]
    /\ told' = [t \in Tables |-> Nothing]
    /\ spent' = [s \in Session |-> 0]
    /\ env' = restore_environment_archive(
                 IF host THEN [n \in EnvName |-> Unset] ELSE env, how)
    /\ pending' = IF host THEN [c \in Caller |-> NoCall] ELSE pending
    /\ UNCHANGED <<envarc, saved>>

-----------------------------------------------------------------------------
Init ==
    /\ live = {}
    /\ table = [t \in Tables |-> NoVars]
    /\ result = [s \in Session |-> Unset]
    /\ tally = [s \in Session |-> FALSE]
    /\ privileged = [s \in Session |-> 0]
    /\ told = [t \in Tables |-> Nothing]
    /\ spent = [s \in Session |-> 0]
    /\ env = [n \in EnvName |-> Unset]
    /\ envarc = [n \in EnvName |-> Unset]
    /\ pending = [c \in Caller |-> NoCall]
    /\ saved = {}

Request ==
    \E s \in Session :
      \/ Open(s) \/ Release(s) \/ TallyReport(s)
      \/ \E c \in Session : CloneSession(s, c)
      \/ \E v \in Code : SetResult(s, v)
      \/ \E b \in BOOLEAN : Tally(s, b) \/ PrivOp(s, b)
      \/ \E n \in VarName, k \in Kind, sc \in Scopes :
           \/ DelVar(s, n, k, sc)
           \/ \E v \in Value : SetVar(s, n, k, sc, v)

GlobalCall ==
    \E c \in Caller :
      \/ Killed(c)
      \/ \E how \in Outcome : ArchiveSet(c, how)
      \/ \E done \in BOOLEAN : ArchiveDelete(c, done)
      \/ \E n \in EnvName, save \in BOOLEAN :
           \/ \E done \in BOOLEAN : DeleteGlobalVar(c, n, save, done)
           \/ \E v \in Value, how \in Outcome : SetGlobalVar(c, n, v, save, how)

Next ==
    \/ Request \/ GlobalCall
    \/ \E host \in BOOLEAN, how \in [EnvName -> Outcome] : StartBroker(host, how)

Spec == Init /\ [][Next]_vars

-----------------------------------------------------------------------------
(* The tables hold whole entries, the results and counts are in range.     *)
TypeOK ==
    /\ live \subseteq Session
    /\ table \in [Tables -> [Slots ->
          {Free} \cup [name : VarName, type : Kind, value : Value]]]
    /\ result \in [Session -> Code \cup {Unset}]
    /\ tally \in [Session -> BOOLEAN]
    /\ privileged \in [Session -> 0 .. MaxCount]
    /\ {env, envarc} \subseteq [EnvName -> Value \cup {Unset, Short}]
    /\ pending \in [Caller -> {NoCall} \cup [op : {"set"}, name : EnvName, value : Value]
                                        \cup [op : {"delete"}, name : EnvName]]
    /\ saved \subseteq EnvName

(* The slots are a map: a request reads exactly what was last set for the  *)
(* name and type in the table its scope selects, local before global, and  *)
(* nothing once it was deleted, whatever was set, deleted and cloned       *)
(* before (SETVAR, DELVAR, GETVAR, LISTVARS).                              *)
ReadsWhatWasTold ==
    \A s \in live, n \in VarName, k \in Kind :
       /\ GetVar(s, n, k, {"local"}) = told[s][<<n, k>>]
       /\ GetVar(s, n, k, {"global"}) = told[Global][<<n, k>>]
       /\ GetVar(s, n, k, {}) = IF told[s][<<n, k>>] # Unset THEN told[s][<<n, k>>]
                                ELSE told[Global][<<n, k>>]
       /\ n \in ListVars(s, k) <=> told[s][<<n, k>>] # Unset

(* "the count always covers one prompt to the next rather than             *)
(* accumulating while the tally happens to be off" (the TALLY case): the   *)
(* count is what succeeded since it was last read or reset, saturated.     *)
CountsOnePeriod ==
    \A s \in Session :
       privileged[s] = IF spent[s] < MaxCount THEN spent[s] ELSE MaxCount

(* "GVF_SAVE_VAR is what makes a variable survive the next boot"           *)
(* (SetVar() in native_dos.c): a global variable that was saved is found   *)
(* by GetVar() whatever is set and deleted for this boot only, whichever   *)
(* calls of others come between the writes of its two files, and however   *)
(* brokers and the host restart, until someone deletes the saved one.      *)
SavedIsFound == \A n \in saved : GlobalVar(n) # Unset

(* "Without GVF_SAVE_VAR the archived copy stays, so the variable comes    *)
(* back at the next boot" (DeleteVar() in native_dos.c): a variable that   *)
(* was deleted for this boot is gone.                                      *)
DeletedUntilBoot ==
    [][\A c \in Caller, n \in EnvName :
          DeleteGlobalVar(c, n, FALSE, TRUE) => GlobalVar(n)' = Unset]_vars
=============================================================================
