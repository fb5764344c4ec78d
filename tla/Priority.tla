------------------------------- MODULE Priority ------------------------------
(***************************************************************************)
(* setpriority and getpriority (kernel sys.c): a caller goes through the   *)
(* tasks of a process, group or user.  Both hold tasklist_lock for reading *)
(* only, so several go through them at once, and between the check of a    *)
(* task and set_user_nice others may set it, or its RLIMIT_NICE, which     *)
(* do_prlimit (Limits) sets.  setreuid needs no lock of theirs.  can_nice, *)
(* the security hook, the table of users and exit are from the rest of the *)
(* kernel.  Capabilities do not change.                                    *)
(***************************************************************************)
EXTENDS Integers, FiniteSets

CONSTANTS
    Tasks,
    Callers,    \* those that call
    Capable,    \* those with CAP_SYS_NICE
    Setid,      \* the tasks with CAP_SETUID
    Users,
    Pgrp,      \* the process group of each task
    FirstNice,
    FirstUid, FirstEuid, FirstSuid,
    Keep,       \* the argument (uid_t) -1: leave this id
    MIN_NICE, MAX_NICE,
    Given,      \* the nice values asked for
    Targets,    \* [which |-> "process" / "group" / "user", who |-> ..]
    Nobody

\* What the constants must be.
PriorityAssumption ==
    /\ IsFiniteSet(Tasks) /\ Callers \subseteq Tasks /\ Capable \subseteq Callers /\ Nobody \notin Tasks
    /\ Setid \subseteq Tasks
    /\ MIN_NICE \in Int /\ MAX_NICE \in Int /\ 0 \in MIN_NICE .. MAX_NICE /\ Given \subseteq Int
    /\ FirstNice \in [Tasks -> MIN_NICE .. MAX_NICE]
    /\ FirstUid \in [Tasks -> Users] /\ FirstEuid \in [Tasks -> Users]
    /\ FirstSuid \in [Tasks -> Users] /\ Keep \notin Users
    /\ \A g \in Targets : \/ g.which = "process" /\ g.who \in Tasks
                          \/ g.which = "group" /\ g.who \in {Pgrp[p] : p \in Tasks}
                          \/ g.which = "user" /\ g.who \in Users

VARIABLES
    alive, nice, uid, euid, suid,
    rlim_nice,  \* RLIMIT_NICE of each task, the soft limit
    refs,       \* the count of each user_struct
    call,       \* the call each caller is in
    log,        \* what its call came by: history, the code never reads it
    lifted,     \* the tasks that a capable caller has set: history
    most_nice   \* the highest each RLIMIT_NICE has been: history

ids == <<uid, euid, suid>>
limits == <<rlim_nice, most_nice>>
vars == <<alive, nice, ids, refs, call, log, lifted, limits>>

ESRCH == -3     \* no task; other errors are no priorities either
EACCES == -13
EPERM == -1
Nothing == [which |-> "process", who |-> Nobody]
Idle == [pc |-> "idle", sets |-> FALSE, of |-> Nothing, left |-> {}, val |-> 0, ret |-> ESRCH, p |-> Nobody]
NoLog == [set |-> {}, denied |-> {}, kept |-> {}]
At(c, pc) == call[c].pc = pc

Least(a, b) == IF a < b THEN a ELSE b
Most(a, b) == IF a < b THEN b ELSE a

\* A slip: only values below the range are brought back into it.
NormalBelow(v) == Most(MIN_NICE, v)

\* "normalize".
Normal(v) == Most(MIN_NICE, Least(MAX_NICE, v))

nice_to_rlimit(n) == MAX_NICE - n + 1

-----------------------------------------------------------------------------
(* The beginning and the end of a call.                                    *)

Listed(g) ==
    CASE g.which = "process" -> alive \cap {g.who}
      [] g.which = "group" -> {p \in alive : Pgrp[p] = g.who}
      [] g.which = "user" -> alive

\* find_user takes a reference unless the user is the caller's own.
Found(c, g) == g.which = "user" /\ g.who # uid[c]

\* The switch, of a user that has processes; else the answer is ESRCH.
Begin(c, sets, g, v) ==
    /\ At(c, "idle") /\ c \in alive
    /\ Found(c, g) => refs[g.who] > 0
    /\ refs' = IF Found(c, g) THEN [refs EXCEPT ![g.who] = @ + 1] ELSE refs
    /\ call' = [call EXCEPT ![c] = [Idle EXCEPT !.pc = "each", !.sets = sets, !.of = g,
                                                !.left = Listed(g), !.val = v]]
    /\ log' = [log EXCEPT ![c] = NoLog]
    /\ UNCHANGED <<alive, nice, ids, lifted, limits>>

setpriority(c) == \E g \in Targets, v \in Given : Begin(c, TRUE, g, Normal(v))
getpriority(c) == \E g \in Targets : Begin(c, FALSE, g, 0)

\* A slip: free_uid of the caller's own user as well.
EndFrees(c) ==
    /\ At(c, "each") /\ call[c].left = {}
    /\ refs' = IF call[c].of.which = "user" THEN [refs EXCEPT ![call[c].of.who] = @ - 1] ELSE refs
    /\ call' = [call EXCEPT ![c] = Idle] /\ log' = [log EXCEPT ![c] = NoLog]
    /\ UNCHANGED <<alive, nice, ids, lifted, limits>>

End(c) ==
    /\ At(c, "each") /\ call[c].left = {}
    /\ refs' = IF Found(c, call[c].of) THEN [refs EXCEPT ![call[c].of.who] = @ - 1] ELSE refs
    /\ call' = [call EXCEPT ![c] = Idle] /\ log' = [log EXCEPT ![c] = NoLog]
    /\ UNCHANGED <<alive, nice, ids, lifted, limits>>

-----------------------------------------------------------------------------
(* One task of the loop.                                                   *)

Matches(c, p) == call[c].of.which = "user" => uid[p] = call[c].of.who

Skip(c) ==
    \E p \in call[c].left :
        /\ At(c, "each") /\ ~Matches(c, p)
        /\ call' = [call EXCEPT ![c].left = @ \ {p}]
        /\ UNCHANGED <<alive, nice, ids, refs, log, lifted, limits>>

set_one_prio_perm(c, p) == euid[c] \in {uid[p], euid[p]} \/ c \in Capable

\* A slip: the value is compared with what RLIMIT_NICE of the caller allows.
MayNiceOwn(c, p) ==
    call[c].val < nice[p] => nice_to_rlimit(call[c].val) <= rlim_nice[c] \/ c \in Capable

\* A better value than it has must be within RLIMIT_NICE of the task.
MayNice(c, p) ==
    call[c].val < nice[p] => nice_to_rlimit(call[c].val) <= rlim_nice[p] \/ c \in Capable

Deny(c, p, err) ==
    /\ call' = [call EXCEPT ![c].left = @ \ {p}, ![c].ret = err]
    /\ log' = [log EXCEPT ![c].denied = @ \cup {p}]
    /\ UNCHANGED <<alive, nice, ids, refs, lifted, limits>>

\* set_one_prio up to set_user_nice; the security hook may refuse as well.
Check(c) ==
    \E p \in call[c].left :
        /\ At(c, "each") /\ call[c].sets /\ Matches(c, p)
        /\ \/ (set_one_prio_perm(c, p) => MayNice(c, p)) /\ Deny(c, p, EPERM)
           \/ set_one_prio_perm(c, p) /\ ~MayNice(c, p) /\ Deny(c, p, EACCES)
           \/ /\ set_one_prio_perm(c, p) /\ MayNice(c, p)
              /\ call' = [call EXCEPT ![c].pc = "set", ![c].p = p]
              /\ UNCHANGED <<alive, nice, ids, refs, log, lifted, limits>>

\* A slip: a success makes the answer good whatever went before.
AnswerForgets(ret) == 0

\* error == -ESRCH becomes 0, other errors stay.
Answer(ret) == IF ret = ESRCH THEN 0 ELSE ret

\* Those who had dealt with p find it changed.
Changed(l, p) == [l EXCEPT !.kept = @ \ {p}]

\* set_user_nice.
Set(c) ==
    LET p == call[c].p
    IN  /\ At(c, "set")
        /\ nice' = [nice EXCEPT ![p] = call[c].val]
        /\ call' = [call EXCEPT ![c].pc = "each", ![c].p = Nobody,
                                ![c].left = @ \ {p}, ![c].ret = Answer(@)]
        /\ log' = [d \in Callers |->
              IF d = c THEN [log[c] EXCEPT !.set = @ \cup {p}, !.kept = @ \cup {p}]
                       ELSE IF nice[p] = call[c].val THEN log[d] ELSE Changed(log[d], p)]
        /\ lifted' = IF c \in Capable THEN lifted \cup {p} ELSE lifted
        /\ UNCHANGED <<alive, ids, refs, limits>>

\* A slip: the worst of them is taken.
BestWorst(ret, n) == IF ret = ESRCH THEN n ELSE Least(ret, n)

\* niceval > retval.
Best(ret, n) == Most(ret, n)

Look(c) ==
    \E p \in call[c].left :
        /\ At(c, "each") /\ ~call[c].sets /\ Matches(c, p)
        /\ call' = [call EXCEPT ![c].left = @ \ {p}, ![c].ret = Best(@, nice_to_rlimit(nice[p]))]
        /\ log' = [log EXCEPT ![c].set = @ \cup {p}, ![c].kept = @ \cup {p}]
        /\ UNCHANGED <<alive, nice, ids, refs, lifted, limits>>

-----------------------------------------------------------------------------
(* The rest of the kernel.                                                 *)

\* set_user: the task leaves one user for another.
Moved(r, u, v) == IF u = v THEN r ELSE [r EXCEPT ![u] = @ - 1, ![v] = @ + 1]

\* setreuid, without tasklist_lock; its single steps are in Credentials.
Setreuid(p) ==
    \E ruid, id \in Users \cup {Keep} :
        LET r == IF ruid = Keep THEN uid[p] ELSE ruid
            e == IF id = Keep THEN euid[p] ELSE id
        IN  /\ p \in alive /\ (p \in Callers => At(p, "idle"))
            /\ r \in {uid[p], euid[p]} \/ p \in Setid
            /\ e \in {uid[p], euid[p], suid[p]} \/ p \in Setid
            /\ uid' = [uid EXCEPT ![p] = r] /\ euid' = [euid EXCEPT ![p] = e]
            /\ suid' = [suid EXCEPT ![p] =
                   IF ruid # Keep \/ (id # Keep /\ id # uid[p]) THEN e ELSE @]
            /\ refs' = Moved(refs, uid[p], r)
            /\ UNCHANGED <<alive, nice, call, log, lifted, limits>>

\* A task leaves the lists under tasklist_lock for writing.
Exit(p) ==
    /\ p \in alive /\ \A c \in Callers : At(c, "idle")
    /\ alive' = alive \ {p} /\ refs' = [refs EXCEPT ![uid[p]] = @ - 1]
    /\ UNCHANGED <<nice, ids, call, log, lifted, limits>>

\* do_prlimit stores other soft limits, at any time.
SetLimits ==
    /\ rlim_nice' \in [Tasks -> Nat]
    /\ most_nice' = [p \in Tasks |-> Most(most_nice[p], rlim_nice'[p])]
    /\ UNCHANGED <<alive, nice, ids, refs, call, log, lifted>>

Init ==
    /\ alive = Tasks /\ nice = FirstNice /\ uid = FirstUid /\ euid = FirstEuid
    /\ suid = FirstSuid /\ rlim_nice \in [Tasks -> Nat] /\ most_nice = rlim_nice
    /\ refs = [u \in Users |-> Cardinality({p \in Tasks : FirstUid[p] = u})]
    /\ call = [c \in Callers |-> Idle] /\ log = [c \in Callers |-> NoLog] /\ lifted = {}

Calls ==
    \/ \E c \in Callers : \/ setpriority(c) \/ getpriority(c) \/ Skip(c) \/ Check(c)
                          \/ Set(c) \/ Look(c) \/ End(c)
    \/ \E p \in Tasks : Setreuid(p) \/ Exit(p)

Next == Calls \/ SetLimits

Spec == Init /\ [][Next]_vars

-----------------------------------------------------------------------------
TypeOK ==
    /\ alive \subseteq Tasks /\ nice \in [Tasks -> MIN_NICE .. MAX_NICE]
    /\ {uid, euid, suid} \subseteq [Tasks -> Users] /\ refs \in [Users -> Nat]
    /\ {rlim_nice, most_nice} \subseteq [Tasks -> Nat]
    /\ \A c \in Callers :
          /\ call[c].pc \in {"idle", "each", "set"} /\ call[c].left \subseteq Tasks
          /\ call[c].val \in MIN_NICE .. MAX_NICE

\* Without CAP_SYS_NICE no task comes to a better priority than it had or some
\* RLIMIT_NICE of its own has allowed: though a caller may check it at one value
\* and set it at another, which a third has given it in between, and under
\* another limit than the one it was checked against.
NotBetter ==
    \A p \in Tasks \ lifted :
        nice_to_rlimit(nice[p]) <= Most(nice_to_rlimit(FirstNice[p]), most_nice[p])

\* setpriority tells of its tasks as a whole: 0 when it came by some and set
\* each, ESRCH when it came by none, an error when one was refused, before
\* others were set or after; getpriority: ESRCH when it came by none.
AnswerTells ==
    \A c \in Callers : ~At(c, "idle") =>
        /\ call[c].ret = ESRCH <=> log[c].set \cup log[c].denied = {}
        /\ call[c].sets => (call[c].ret = 0 <=> log[c].set # {} /\ log[c].denied = {})

\* What a call did or saw is true at its end of each task that no other call
\* changed since: it has the value that setpriority gave, and none is better
\* than getpriority answers.
ValueStands ==
    \A c \in Callers : ~At(c, "idle") =>
        \A p \in log[c].kept : IF call[c].sets THEN nice[p] = call[c].val
                                                ELSE nice_to_rlimit(nice[p]) <= call[c].ret

\* A user is held once by each of its tasks and by each call that has found it:
\* by none that goes through its own.
UsersHeld ==
    \A u \in Users : refs[u] = Cardinality({p \in alive : uid[p] = u})
        + Cardinality({c \in Callers : ~At(c, "idle") /\ Found(c, call[c].of) /\ call[c].of.who = u})

\* What a lock that is taken for reading only is enough for.
PriorityInv == TypeOK /\ NotBetter /\ AnswerTells /\ ValueStands /\ UsersHeld
=============================================================================
