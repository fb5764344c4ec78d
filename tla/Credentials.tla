---------------------------- MODULE Credentials -----------------------------
(***************************************************************************)
(* The calls of EXP2-SYSCALL/sys.c that change a task's credentials.  The  *)
(* calls on user ids are three steps: the call checks the ids asked for    *)
(* against the task's own and prepares a copy; set_user() moves the copy   *)
(* to another user's account when the real id changes; the security hook   *)
(* accepts and the copy is committed, or the call is given up.  A task     *)
(* changes no credentials but its own, so a group id call is one step.     *)
(* A call refused by its first checks leaves no trace and is a stuttering  *)
(* step: an id that is not valid (EINVAL), an id the task may not take     *)
(* (EPERM), no memory for the copy (ENOMEM), setfsuid and setfsgid to the  *)
(* id they already have.                                                   *)
(***************************************************************************)
EXTENDS Integers, FiniteSets

CONSTANTS
    Tasks,
    UIds, GIds,  \* the valid user and group ids
    Root,        \* the user id 0
    Keep,        \* the argument (uid_t) -1: leave this id
    NprocLimit   \* RLIMIT_NPROC

ASSUME CredAssumption ==
    /\ IsFiniteSet(Tasks)
    /\ Root \in UIds
    /\ Keep \notin UIds \cup GIds
    /\ NprocLimit \in Nat

VARIABLES
    cred,      \* each task's credentials
    pending,   \* the copy a call is preparing
    refs,      \* the references to each user's account
    processes, \* the tasks counted in each user's account
    exceeded   \* PF_NPROC_EXCEEDED of each task

vars == <<cred, pending, refs, processes, exceeded>>

Caps == {"CAP_SETUID", "CAP_SETGID"}

Cred == [uid : UIds, euid : UIds, suid : UIds, fsuid : UIds, user : UIds,
         gid : GIds, egid : GIds, sgid : GIds, fsgid : GIds,
         permitted : SUBSET Caps, effective : SUBSET Caps]

NoCall == [step |-> "none"]
Call == {NoCall} \cup [step : {"set_user", "hook"}, new : Cred]

-----------------------------------------------------------------------------
(* Which ids a call may take. *)

Held(c) == {c.uid, c.euid, c.suid}
Groups(c) == {c.gid, c.egid, c.sgid}

\* The id is left alone, is one of those named, or the task may take any.
May(id, own, cap, c) == id = Keep \/ id \in own \/ cap \in c.effective

\* A slip of the test for -1: it is forgotten.
ChosenAlways(id, was) == id
Chosen(id, was) == IF id = Keep THEN was ELSE id

-----------------------------------------------------------------------------
(* The three steps of a call on user ids. *)

\* A slip: the account is never changed.
PrepareForHook(t, new) ==
    /\ pending[t] = NoCall
    /\ pending' = [pending EXCEPT ![t] = [step |-> "hook", new |-> new]]
    /\ refs' = [refs EXCEPT ![new.user] = @ + 1]
    /\ UNCHANGED <<cred, processes, exceeded>>

\* prepare_creds: the copy holds a reference to the account it names.
Prepare(t, new) ==
    /\ pending[t] = NoCall
    /\ pending' = [pending EXCEPT ![t] =
          [step |-> IF new.uid # cred[t].uid THEN "set_user" ELSE "hook", new |-> new]]
    /\ refs' = [refs EXCEPT ![new.user] = @ + 1]
    /\ UNCHANGED <<cred, processes, exceeded>>

\* A slip: the real id asked for is not checked.
setreuidUnchecked(t, ruid, euid) ==
    LET r == Chosen(ruid, cred[t].uid)
        e == Chosen(euid, cred[t].euid)
    IN  /\ May(euid, Held(cred[t]), "CAP_SETUID", cred[t])
        /\ Prepare(t, [cred[t] EXCEPT !.uid = r, !.euid = e, !.suid = e, !.fsuid = e])

setreuid(t, ruid, euid) ==
    LET old == cred[t]
        r == Chosen(ruid, old.uid)
        e == Chosen(euid, old.euid)
        s == IF ruid # Keep \/ (euid # Keep /\ euid # old.uid) THEN e ELSE old.suid
    IN  /\ May(ruid, {old.uid, old.euid}, "CAP_SETUID", old)
        /\ May(euid, Held(old), "CAP_SETUID", old)
        /\ Prepare(t, [old EXCEPT !.uid = r, !.euid = e, !.suid = s, !.fsuid = e])

\* A slip: without the capability, the id is not compared with the task's own.
setuidUnchecked(t, uid) ==
    Prepare(t, [cred[t] EXCEPT !.euid = uid, !.fsuid = uid])

setuid(t, uid) ==
    LET old == cred[t]
        new == [old EXCEPT !.euid = uid, !.fsuid = uid]
    IN  IF "CAP_SETUID" \in old.effective
        THEN Prepare(t, [new EXCEPT !.uid = uid, !.suid = uid])
        ELSE /\ uid \in {old.uid, old.suid}
             /\ Prepare(t, new)

\* A slip: fsuid does not follow euid.
setresuidKeepsFs(t, ruid, euid, suid) ==
    LET old == cred[t]
    IN  /\ \A id \in {ruid, euid, suid} : May(id, Held(old), "CAP_SETUID", old)
        /\ Prepare(t, [old EXCEPT !.uid = Chosen(ruid, old.uid),
                                  !.euid = Chosen(euid, old.euid),
                                  !.suid = Chosen(suid, old.suid)])

setresuid(t, ruid, euid, suid) ==
    LET old == cred[t]
        e == Chosen(euid, old.euid)
    IN  /\ \A id \in {ruid, euid, suid} : May(id, Held(old), "CAP_SETUID", old)
        /\ Prepare(t, [old EXCEPT !.uid = Chosen(ruid, old.uid), !.euid = e,
                                  !.suid = Chosen(suid, old.suid), !.fsuid = e])

\* abort_creds: the copy and its reference go.
Abort(t) ==
    /\ pending' = [pending EXCEPT ![t] = NoCall]
    /\ refs' = [refs EXCEPT ![pending[t].new.user] = @ - 1]

\* A slip: free_uid is forgotten.
set_userLeaks(t) ==
    LET new == pending[t].new
    IN  /\ pending[t].step = "set_user"
        /\ pending' = [pending EXCEPT ![t] =
              [step |-> "hook", new |-> [new EXCEPT !.user = new.uid]]]
        /\ refs' = [refs EXCEPT ![new.uid] = @ + 1]
        /\ UNCHANGED <<cred, processes, exceeded>>

\* The account of the new real id is found; the count is read without a lock.
set_user(t) ==
    LET new == pending[t].new
    IN  /\ pending[t].step = "set_user"
        /\ pending' = [pending EXCEPT ![t] =
              [step |-> "hook", new |-> [new EXCEPT !.user = new.uid]]]
        /\ exceeded' = [exceeded EXCEPT ![t] =
              processes[new.uid] >= NprocLimit /\ new.uid # Root]
        /\ refs' = [u \in UIds |-> refs[u] + (IF u = new.uid THEN 1 ELSE 0)
                                           - (IF u = new.user THEN 1 ELSE 0)]
        /\ UNCHANGED <<cred, processes>>

\* alloc_uid finds no memory: EAGAIN.
set_user_fails(t) ==
    /\ pending[t].step = "set_user"
    /\ Abort(t)
    /\ UNCHANGED <<cred, processes, exceeded>>

\* External: security_task_fix_setuid drops the capabilities when the last
\* root id goes, and makes them effective while the effective id is root.
FixSetuid(old, new) ==
    LET permitted == IF Root \in Held(old) /\ Root \notin Held(new)
                     THEN {} ELSE old.permitted
    IN  [new EXCEPT !.permitted = permitted,
                    !.effective =
            IF old.euid = Root /\ new.euid # Root THEN {}
            ELSE IF old.euid # Root /\ new.euid = Root THEN permitted
            ELSE old.effective \cap permitted]

commit_creds(t) ==
    LET old == cred[t]
        new == FixSetuid(old, pending[t].new)
    IN  /\ pending[t].step = "hook"
        /\ cred' = [cred EXCEPT ![t] = new]
        /\ pending' = [pending EXCEPT ![t] = NoCall]
        /\ refs' = [refs EXCEPT ![old.user] = @ - 1]
        /\ processes' = [u \in UIds |-> processes[u] + (IF u = new.user THEN 1 ELSE 0)
                                                     - (IF u = old.user THEN 1 ELSE 0)]
        /\ UNCHANGED exceeded

\* The hook refuses: what set_user did to the task's flag stays.
hook_refuses(t) ==
    /\ pending[t].step = "hook"
    /\ Abort(t)
    /\ UNCHANGED <<cred, processes, exceeded>>

\* The id of file accesses alone; the hook may refuse here too.
setfsuid(t, uid) ==
    /\ pending[t] = NoCall
    /\ May(uid, Held(cred[t]) \cup {cred[t].fsuid}, "CAP_SETUID", cred[t])
    /\ uid # cred[t].fsuid
    /\ cred' = [cred EXCEPT ![t].fsuid = uid]
    /\ UNCHANGED <<pending, refs, processes, exceeded>>

-----------------------------------------------------------------------------
(* The calls on group ids. *)

CommitGroups(t, gid, egid, sgid, fsgid) ==
    /\ pending[t] = NoCall
    /\ cred' = [cred EXCEPT ![t] = [@ EXCEPT !.gid = gid, !.egid = egid,
                                             !.sgid = sgid, !.fsgid = fsgid]]
    /\ UNCHANGED <<pending, refs, processes, exceeded>>

setregid(t, rgid, egid) ==
    LET old == cred[t]
        e == Chosen(egid, old.egid)
        s == IF rgid # Keep \/ (egid # Keep /\ egid # old.gid) THEN e ELSE old.sgid
    IN  /\ May(rgid, {old.gid, old.egid}, "CAP_SETGID", old)
        /\ May(egid, Groups(old), "CAP_SETGID", old)
        /\ CommitGroups(t, Chosen(rgid, old.gid), e, s, e)

setgid(t, gid) ==
    LET old == cred[t]
    IN  IF "CAP_SETGID" \in old.effective
        THEN CommitGroups(t, gid, gid, gid, gid)
        ELSE /\ gid \in {old.gid, old.sgid}
             /\ CommitGroups(t, old.gid, gid, old.sgid, gid)

\* A slip: the saved group is not checked.
setresgidUnchecked(t, rgid, egid, sgid) ==
    LET old == cred[t]
        e == Chosen(egid, old.egid)
    IN  /\ \A id \in {rgid, egid} : May(id, Groups(old), "CAP_SETGID", old)
        /\ CommitGroups(t, Chosen(rgid, old.gid), e, Chosen(sgid, old.sgid), e)

setresgid(t, rgid, egid, sgid) ==
    LET old == cred[t]
        e == Chosen(egid, old.egid)
    IN  /\ \A id \in {rgid, egid, sgid} : May(id, Groups(old), "CAP_SETGID", old)
        /\ CommitGroups(t, Chosen(rgid, old.gid), e, Chosen(sgid, old.sgid), e)

setfsgid(t, gid) ==
    LET old == cred[t]
    IN  /\ May(gid, Groups(old) \cup {old.fsgid}, "CAP_SETGID", old)
        /\ gid # old.fsgid
        /\ CommitGroups(t, old.gid, old.egid, old.sgid, gid)

-----------------------------------------------------------------------------
\* External: what execve leaves behind, for a program that runs as itself or
\* under the user and group that own it.
Executed(u, e, g, h) ==
    [uid |-> u, euid |-> e, suid |-> e, fsuid |-> e, user |-> u,
     gid |-> g, egid |-> h, sgid |-> h, fsgid |-> h,
     permitted |-> IF Root \in {u, e} THEN Caps ELSE {},
     effective |-> IF Root = e THEN Caps ELSE {}]

Init ==
    /\ cred \in [Tasks -> {Executed(u, e, g, h) : u, e \in UIds, g, h \in GIds}]
    /\ pending = [t \in Tasks |-> NoCall]
    /\ refs = [u \in UIds |-> Cardinality({t \in Tasks : cred[t].user = u})]
    /\ processes = refs
    /\ exceeded = [t \in Tasks |-> FALSE]

UserCall(t) ==
    \/ \E u \in UIds : setuid(t, u) \/ setfsuid(t, u)
    \/ \E r, e \in UIds \cup {Keep} : setreuid(t, r, e)
    \/ \E r, e, s \in UIds \cup {Keep} : setresuid(t, r, e, s)
    \/ set_user(t)
    \/ set_user_fails(t)
    \/ commit_creds(t)
    \/ hook_refuses(t)

GroupCall(t) ==
    \/ \E g \in GIds : setgid(t, g) \/ setfsgid(t, g)
    \/ \E r, e \in GIds \cup {Keep} : setregid(t, r, e)
    \/ \E r, e, s \in GIds \cup {Keep} : setresgid(t, r, e, s)

Next == \E t \in Tasks : UserCall(t) \/ GroupCall(t)
Spec == Init /\ [][Next]_vars

-----------------------------------------------------------------------------
(* Properties. *)

\* Every variable keeps its type.
TypeOK ==
    /\ cred \in [Tasks -> Cred]
    /\ pending \in [Tasks -> Call]
    /\ refs \in [UIds -> Int]
    /\ processes \in [UIds -> Int]
    /\ exceeded \in [Tasks -> BOOLEAN]

\* The account a task is counted in is its real user's, whichever calls moved
\* the real id and whichever of them were given up half way.
UserMatchesUid == \A t \in Tasks : cred[t].user = cred[t].uid

\* No call loses or keeps a reference: each account is held once by every
\* task of that user and once by every copy being prepared under it.
RefsCounted ==
    \A u \in UIds :
        /\ refs[u] = Cardinality({t \in Tasks : cred[t].user = u})
                   + Cardinality({t \in Tasks : pending[t] # NoCall /\ pending[t].new.user = u})
        /\ processes[u] = Cardinality({t \in Tasks : cred[t].user = u})

\* A task that is no longer privileged accesses files under one of the three
\* ids it is left with: what setfsuid took while it was privileged is gone.
FsuidAmongHeld ==
    \A t \in Tasks : cred[t].effective = {} => cred[t].fsuid \in Held(cred[t])

\* What holds of each credential by itself.
CredentialsInv == TypeOK /\ UserMatchesUid /\ FsuidAmongHeld

\* A program that gave up every root id completely drops its privileges: no
\* sequence of calls brings an id or a capability of root back.
Dropped(c) == Root \notin Held(c)
DropIsFinal ==
    [][\A t \in Tasks : Dropped(cred[t]) =>
          /\ cred[t].effective = {} /\ cred[t].permitted = {}
          /\ Dropped(cred'[t]) /\ cred'[t].fsuid # Root]_vars

\* A task without CAP_SETGID never gets a group it did not have, however the
\* four calls that rearrange its groups follow each other.
GroupsOnlyShrink ==
    [][\A t \in Tasks : "CAP_SETGID" \notin cred[t].effective =>
          /\ Groups(cred'[t]) \subseteq Groups(cred[t])
          /\ cred'[t].fsgid \in Groups(cred[t]) \cup {cred[t].fsgid}]_vars

\* Whatever calls a task makes, it is a task of Privilege.
Abstract == INSTANCE Privilege WITH
    held <- [t \in Tasks |-> Held(cred[t]) \cup {cred[t].fsuid}],
    priv <- [t \in Tasks |-> "CAP_SETUID" \in cred[t].effective]
ImplementsPrivilege == Abstract!Spec
=============================================================================
