------------------------- MODULE CredentialsProofs --------------------------
(***************************************************************************)
(* Theorems about Credentials, for any tasks, users and groups.            *)
(***************************************************************************)
EXTENDS Credentials, FiniteSetTheorems, TLAPS

(***************************************************************************)
(* The inductive invariant: a task's credentials by themselves, and the    *)
(* copy a call prepares next to the credentials it was copied from.        *)
(***************************************************************************)
CredInv(c) ==
    /\ c.user = c.uid
    /\ c.permitted \in {{}, Caps}
    /\ c.effective = IF c.euid = Root THEN c.permitted ELSE {}
    /\ Root \notin Held(c) => c.permitted = {}
    /\ c.effective = {} => c.fsuid \in Held(c)

\* What every call on user ids has made of the copy when it prepares it.
Copied(c, new) ==
    /\ new \in Cred
    /\ new.permitted = c.permitted
    /\ new.effective = c.effective
    /\ new.gid = c.gid /\ new.egid = c.egid /\ new.sgid = c.sgid /\ new.fsgid = c.fsgid
    /\ new.fsuid = new.euid
    /\ c.effective = {} => Held(new) \subseteq Held(c)

CallInv(c, p) ==
    p = NoCall \/ /\ p.step \in {"set_user", "hook"}
                  /\ Copied(c, p.new)
                  /\ p.step = "hook" => p.new.user = p.new.uid

IInv == TypeOK /\ \A t \in Tasks : CredInv(cred[t]) /\ CallInv(cred[t], pending[t])

-----------------------------------------------------------------------------
(* Reading the records. *)

\* A copy with other user ids.
WithIds(c, r, e, s) == [c EXCEPT !.uid = r, !.euid = e, !.suid = s, !.fsuid = e]

\* Such a copy is prepared as all of them are.
LEMMA CopiedIds ==
    ASSUME NEW c \in Cred, NEW r \in UIds, NEW e \in UIds, NEW s \in UIds,
           c.effective = {} => {r, e, s} \subseteq Held(c),
           NEW new, new = WithIds(c, r, e, s)
    PROVE  Copied(c, new) /\ new.user = c.user
  <1>1. /\ new \in Cred
        /\ new.uid = r /\ new.euid = e /\ new.suid = s /\ new.fsuid = e
        /\ new.user = c.user
        /\ new.permitted = c.permitted /\ new.effective = c.effective
        /\ new.gid = c.gid /\ new.egid = c.egid
        /\ new.sgid = c.sgid /\ new.fsgid = c.fsgid
    BY DEF Cred, WithIds
  <1>2. Held(new) = {r, e, s}
    BY <1>1 DEF Held
  <1> QED
    BY <1>1, <1>2 DEF Copied

\* An argument that is left alone or valid gives a valid id.
LEMMA ChosenType ==
    ASSUME NEW id \in UIds \cup {Keep}, NEW was \in UIds
    PROVE  Chosen(id, was) \in UIds
  BY DEF Chosen

LEMMA ChosenGroup ==
    ASSUME NEW id \in GIds \cup {Keep}, NEW was \in GIds
    PROVE  Chosen(id, was) \in GIds
  BY DEF Chosen

\* Without the capability an argument gives an id among those it may be.
LEMMA ChosenAmong ==
    ASSUME NEW c, NEW own, NEW id, NEW was \in own, NEW cap,
           May(id, own, cap, c), cap \notin c.effective
    PROVE  Chosen(id, was) \in own
  BY DEF Chosen, May

-----------------------------------------------------------------------------
(* The invariant holds at the start and after every action. *)

LEMMA ExecutedInv ==
    ASSUME NEW u \in UIds, NEW e \in UIds, NEW g \in GIds, NEW h \in GIds
    PROVE  Executed(u, e, g, h) \in Cred /\ CredInv(Executed(u, e, g, h))
  <1>1. Executed(u, e, g, h) \in Cred
    BY DEF Executed, Cred, Caps
  <1>2. QED
    BY <1>1 DEF Executed, CredInv, Held, Caps

LEMMA InitInv == Init => IInv
  <1> SUFFICES ASSUME Init PROVE IInv
    OBVIOUS
  <1>1. \A t \in Tasks : cred[t] \in Cred /\ CredInv(cred[t])
    BY ExecutedInv DEF Init
  <1>2. cred \in [Tasks -> Cred]
    BY <1>1 DEF Init
  <1>3. pending \in [Tasks -> Call] /\ exceeded \in [Tasks -> BOOLEAN]
    BY DEF Init, Call
  <1>4. \A u \in UIds : Cardinality({t \in Tasks : cred[t].user = u}) \in Int
    <2> TAKE u \in UIds
    <2>1. IsFiniteSet({t \in Tasks : cred[t].user = u})
      BY FS_Subset, CredAssumption DEF CredAssumption
    <2> QED
      BY <2>1, FS_CardinalityType
  <1>5. refs \in [UIds -> Int] /\ processes \in [UIds -> Int]
    BY <1>4 DEF Init
  <1> QED
    BY <1>1, <1>2, <1>3, <1>5 DEF IInv, TypeOK, Init, CallInv, NoCall

\* A call that prepares a copy as all of them do.
LEMMA PrepareInv ==
    ASSUME IInv, NEW t \in Tasks, NEW new, Copied(cred[t], new),
           new.user = cred[t].user, Prepare(t, new)
    PROVE  IInv'
  <1> DEFINE p == [step |-> IF new.uid # cred[t].uid THEN "set_user" ELSE "hook",
                   new |-> new]
  <1>1. p \in Call /\ p.new = new /\ p.step \in {"set_user", "hook"}
    BY DEF Call, Copied
  <1>2. p.step = "hook" => new.user = new.uid
    BY DEF IInv, CredInv
  <1>3. CallInv(cred[t], p)
    BY <1>1, <1>2 DEF CallInv
  <1>4. pending' = [pending EXCEPT ![t] = p]
    BY DEF Prepare
  <1>5. refs' \in [UIds -> Int]
    BY DEF Prepare, IInv, TypeOK, Copied, Cred
  <1> HIDE DEF p
  <1> QED
    BY <1>1, <1>3, <1>4, <1>5 DEF IInv, TypeOK, Prepare

\* Each of the three calls prepares such a copy.
LEMMA SetreuidInv ==
    ASSUME IInv, NEW t \in Tasks, NEW ruid \in UIds \cup {Keep},
           NEW euid \in UIds \cup {Keep}, setreuid(t, ruid, euid)
    PROVE  IInv'
  <1> DEFINE old == cred[t]
             r == Chosen(ruid, old.uid)
             e == Chosen(euid, old.euid)
             s == IF ruid # Keep \/ (euid # Keep /\ euid # old.uid) THEN e ELSE old.suid
             new == WithIds(old, r, e, s)
  <1>1. old \in Cred /\ old.uid \in UIds /\ old.euid \in UIds /\ old.suid \in UIds
    BY DEF IInv, TypeOK, Cred
  <1>2. r \in UIds /\ e \in UIds /\ s \in UIds
    BY <1>1, ChosenType
  <1>3. ASSUME old.effective = {} PROVE r \in Held(old) /\ e \in Held(old)
    BY <1>3, ChosenAmong DEF setreuid, Held, May, Chosen
  <1>4. Prepare(t, new)
    BY DEF setreuid, WithIds
  <1> HIDE DEF r, e
  <1>5. Copied(old, new) /\ new.user = old.user
    <2>1. old.effective = {} => {r, e, s} \subseteq Held(old)
      BY <1>3 DEF Held
    <2> QED
      BY <1>1, <1>2, <2>1, CopiedIds
  <1> QED
    BY <1>4, <1>5, PrepareInv

LEMMA SetuidInv ==
    ASSUME IInv, NEW t \in Tasks, NEW uid \in UIds, setuid(t, uid)
    PROVE  IInv'
  <1> DEFINE old == cred[t]
  <1>1. old \in Cred
    BY DEF IInv, TypeOK
  <1>2. CASE "CAP_SETUID" \in old.effective
    <2> DEFINE new == WithIds(old, uid, uid, uid)
    <2>1. new = [[old EXCEPT !.euid = uid, !.fsuid = uid] EXCEPT !.uid = uid, !.suid = uid]
      BY <1>1 DEF Cred, WithIds
    <2>2. Prepare(t, new)
      BY <1>2, <2>1 DEF setuid
    <2>3. Copied(old, new) /\ new.user = old.user
      BY <1>1, <1>2, CopiedIds
    <2> QED
      BY <2>2, <2>3, PrepareInv
  <1>3. CASE "CAP_SETUID" \notin old.effective
    <2> DEFINE new == WithIds(old, old.uid, uid, old.suid)
    <2>1. new = [old EXCEPT !.euid = uid, !.fsuid = uid]
      BY <1>1 DEF Cred, WithIds
    <2>2. Prepare(t, new) /\ uid \in Held(old)
      BY <1>3, <2>1 DEF setuid, Held
    <2>3. Copied(old, new) /\ new.user = old.user
      <3>1. old.uid \in UIds /\ old.suid \in UIds
        BY <1>1 DEF Cred
      <3>2. {old.uid, uid, old.suid} \subseteq Held(old)
        BY <2>2 DEF Held
      <3> QED
        BY <1>1, <3>1, <3>2, CopiedIds
    <2> QED
      BY <2>2, <2>3, PrepareInv
  <1> QED
    BY <1>2, <1>3

LEMMA SetresuidInv ==
    ASSUME IInv, NEW t \in Tasks, NEW ruid \in UIds \cup {Keep},
           NEW euid \in UIds \cup {Keep}, NEW suid \in UIds \cup {Keep},
           setresuid(t, ruid, euid, suid)
    PROVE  IInv'
  <1> DEFINE old == cred[t]
             r == Chosen(ruid, old.uid)
             e == Chosen(euid, old.euid)
             s == Chosen(suid, old.suid)
             new == WithIds(old, r, e, s)
  <1>1. old \in Cred /\ old.uid \in UIds /\ old.euid \in UIds /\ old.suid \in UIds
    BY DEF IInv, TypeOK, Cred
  <1>2. r \in UIds /\ e \in UIds /\ s \in UIds
    BY <1>1, ChosenType
  <1>3. ASSUME old.effective = {} PROVE {r, e, s} \subseteq Held(old)
    BY <1>3 DEF setresuid, Held, May, Chosen
  <1>4. Prepare(t, new)
    BY DEF setresuid, WithIds
  <1> HIDE DEF r, e, s
  <1>5. Copied(old, new) /\ new.user = old.user
    BY <1>1, <1>2, <1>3, CopiedIds
  <1> QED
    BY <1>4, <1>5, PrepareInv

\* The copy moves to the new user's account.
LEMMA SetUserInv == ASSUME IInv, NEW t \in Tasks, set_user(t) PROVE IInv'
  <1> DEFINE new == pending[t].new
             moved == [new EXCEPT !.user = new.uid]
             p == [step |-> "hook", new |-> moved]
  <1>1. pending[t] # NoCall /\ pending[t] \in Call
    BY DEF set_user, NoCall, IInv, TypeOK
  <1>2. Copied(cred[t], new)
    BY <1>1 DEF IInv, CallInv
  <1>3. /\ moved \in Cred /\ moved.user = moved.uid
        /\ moved.uid = new.uid /\ moved.euid = new.euid /\ moved.suid = new.suid
        /\ moved.fsuid = new.fsuid /\ moved.permitted = new.permitted
        /\ moved.effective = new.effective /\ moved.gid = new.gid
        /\ moved.egid = new.egid /\ moved.sgid = new.sgid /\ moved.fsgid = new.fsgid
    BY <1>2 DEF Copied, Cred
  <1>4. pending' = [pending EXCEPT ![t] = p] /\ UNCHANGED cred
    BY DEF set_user
  <1>5. refs' \in [UIds -> Int] /\ exceeded' \in [Tasks -> BOOLEAN] /\ UNCHANGED processes
    BY DEF set_user, IInv, TypeOK
  <1> HIDE DEF new, moved
  <1>6. Copied(cred[t], moved)
    BY <1>2, <1>3 DEF Copied, Held
  <1>7. p \in Call /\ p.step = "hook" /\ p.new = moved
    BY <1>3 DEF Call
  <1> HIDE DEF p
  <1>8. CallInv(cred[t], p)
    BY <1>3, <1>6, <1>7 DEF CallInv
  <1> QED
    BY <1>4, <1>5, <1>7, <1>8 DEF IInv, TypeOK

\* A call that is given up.
LEMMA AbortInv ==
    ASSUME IInv, NEW t \in Tasks, Abort(t), UNCHANGED <<cred, processes, exceeded>>
    PROVE  IInv'
  <1>1. refs' \in [UIds -> Int]
    <2> DEFINE u == pending[t].new.user
    <2>1. refs' = [refs EXCEPT ![u] = refs[u] - 1] /\ refs \in [UIds -> Int]
      BY DEF Abort, IInv, TypeOK
    <2> HIDE DEF u
    <2>2. u \in UIds => refs[u] - 1 \in Int
      BY <2>1
    <2> QED
      BY <2>1, <2>2
  <1> QED
    BY <1>1 DEF Abort, IInv, TypeOK, CallInv, Call

\* The hook's effect on the capabilities keeps a task's credentials sound.
LEMMA FixedInv ==
    ASSUME NEW old \in Cred, CredInv(old), NEW new, Copied(old, new), new.user = new.uid
    PROVE  LET fixed == FixSetuid(old, new)
           IN  /\ fixed \in Cred /\ CredInv(fixed)
               /\ Held(fixed) = Held(new) /\ fixed.fsuid = new.fsuid
               /\ fixed.gid = old.gid /\ fixed.egid = old.egid
               /\ fixed.sgid = old.sgid /\ fixed.fsgid = old.fsgid
  <1> DEFINE p == IF Root \in Held(old) /\ Root \notin Held(new) THEN {} ELSE old.permitted
             f == IF old.euid = Root /\ new.euid # Root THEN {}
                  ELSE IF old.euid # Root /\ new.euid = Root THEN p
                  ELSE old.effective \cap p
             fixed == [new EXCEPT !.permitted = p, !.effective = f]
  <1>1. fixed = FixSetuid(old, new)
    BY DEF FixSetuid
  <1>2. p \in {{}, Caps} /\ p \in SUBSET Caps
    BY DEF CredInv
  <1>3. Root \in Held(new) => p = old.permitted
    OBVIOUS
  <1>4. Root \notin Held(new) => p = {}
    BY DEF CredInv
  <1>5. f = IF new.euid = Root THEN p ELSE {}
    <2>1. new.euid = Root => Root \in Held(new)
      BY DEF Held
    <2>2. old.euid = Root => old.effective = old.permitted
      BY DEF CredInv
    <2>3. old.euid # Root => old.effective = {}
      BY DEF CredInv
    <2> QED
      BY <1>3, <2>1, <2>2, <2>3
  <1> HIDE DEF p, f
  <1>6. /\ fixed \in Cred /\ fixed.permitted = p /\ fixed.effective = f
        /\ fixed.uid = new.uid /\ fixed.euid = new.euid /\ fixed.suid = new.suid
        /\ fixed.fsuid = new.fsuid /\ fixed.user = new.user
        /\ fixed.gid = new.gid /\ fixed.egid = new.egid
        /\ fixed.sgid = new.sgid /\ fixed.fsgid = new.fsgid
    BY <1>2, <1>5 DEF Copied, Cred
  <1> HIDE DEF fixed
  <1>7. Held(fixed) = Held(new) /\ new.euid \in Held(new)
    BY <1>6 DEF Held
  <1>8. CredInv(fixed)
    BY <1>2, <1>4, <1>5, <1>6, <1>7 DEF CredInv, Copied
  <1> QED
    BY <1>1, <1>6, <1>7, <1>8 DEF Copied

LEMMA CommitInv == ASSUME IInv, NEW t \in Tasks, commit_creds(t) PROVE IInv'
  <1> DEFINE fixed == FixSetuid(cred[t], pending[t].new)
  <1>1. cred[t] \in Cred /\ CredInv(cred[t]) /\ CallInv(cred[t], pending[t])
    BY DEF IInv, TypeOK
  <1>2. pending[t].step = "hook" /\ pending[t] # NoCall
    BY DEF commit_creds, NoCall
  <1>3. fixed \in Cred /\ CredInv(fixed)
    BY <1>1, <1>2, FixedInv DEF CallInv
  <1>4. /\ cred' = [cred EXCEPT ![t] = fixed]
        /\ pending' = [pending EXCEPT ![t] = NoCall]
        /\ exceeded' = exceeded
    BY DEF commit_creds
  <1>5. refs' \in [UIds -> Int] /\ processes' \in [UIds -> Int]
    <2>1. cred[t].user \in UIds /\ refs \in [UIds -> Int] /\ processes \in [UIds -> Int]
      BY <1>1 DEF Cred, IInv, TypeOK
    <2>2. refs' \in [UIds -> Int]
      BY <2>1 DEF commit_creds
    <2>3. processes' \in [UIds -> Int]
      BY <2>1 DEF commit_creds
    <2> QED
      BY <2>2, <2>3
  <1> HIDE DEF fixed
  <1> QED
    BY <1>3, <1>4, <1>5 DEF IInv, TypeOK, CallInv, Call

\* The id of file accesses alone.
LEMMA SetfsuidInv ==
    ASSUME IInv, NEW t \in Tasks, NEW uid \in UIds, setfsuid(t, uid) PROVE IInv'
  <1> DEFINE new == [cred[t] EXCEPT !.fsuid = uid]
  <1>1. cred[t] \in Cred /\ CredInv(cred[t]) /\ pending[t] = NoCall
    BY DEF IInv, TypeOK, setfsuid
  <1>2. /\ new \in Cred /\ new.fsuid = uid
        /\ new.uid = cred[t].uid /\ new.euid = cred[t].euid /\ new.suid = cred[t].suid
        /\ new.user = cred[t].user /\ new.permitted = cred[t].permitted
        /\ new.effective = cred[t].effective
    BY <1>1 DEF Cred
  <1>3. cred[t].effective = {} => uid \in Held(cred[t])
    BY <1>1, CredAssumption DEF setfsuid, May, CredInv, CredAssumption
  <1>4. cred' = [cred EXCEPT ![t] = new]
    BY DEF setfsuid
  <1> HIDE DEF new
  <1>5. CredInv(new)
    BY <1>1, <1>2, <1>3 DEF CredInv, Held
  <1> QED
    BY <1>1, <1>2, <1>4, <1>5 DEF IInv, TypeOK, setfsuid, CallInv

\* The group calls touch nothing the invariant speaks of.
LEMMA GroupsInv ==
    ASSUME IInv, NEW t \in Tasks, NEW g \in GIds, NEW e \in GIds, NEW s \in GIds,
           NEW f \in GIds, CommitGroups(t, g, e, s, f)
    PROVE  IInv'
  <1> DEFINE new == [cred[t] EXCEPT !.gid = g, !.egid = e, !.sgid = s, !.fsgid = f]
  <1>1. cred[t] \in Cred /\ CredInv(cred[t]) /\ pending[t] = NoCall
    BY DEF IInv, TypeOK, CommitGroups
  <1>2. /\ new \in Cred
        /\ new.uid = cred[t].uid /\ new.euid = cred[t].euid /\ new.suid = cred[t].suid
        /\ new.fsuid = cred[t].fsuid /\ new.user = cred[t].user
        /\ new.permitted = cred[t].permitted /\ new.effective = cred[t].effective
    BY <1>1 DEF Cred
  <1>3. cred' = [cred EXCEPT ![t] = new]
    BY DEF CommitGroups
  <1> HIDE DEF new
  <1>4. CredInv(new)
    BY <1>1, <1>2 DEF CredInv, Held
  <1> QED
    BY <1>1, <1>2, <1>3, <1>4 DEF IInv, TypeOK, CommitGroups, CallInv

LEMMA GroupCallInv == ASSUME IInv, NEW t \in Tasks, GroupCall(t) PROVE IInv'
  <1>1. /\ cred[t] \in Cred
        /\ cred[t].gid \in GIds /\ cred[t].egid \in GIds
        /\ cred[t].sgid \in GIds /\ cred[t].fsgid \in GIds
    BY DEF IInv, TypeOK, Cred
  <1>2. ASSUME NEW g \in GIds, setgid(t, g) PROVE IInv'
    BY <1>1, <1>2, GroupsInv DEF setgid
  <1>3. ASSUME NEW g \in GIds, setfsgid(t, g) PROVE IInv'
    BY <1>1, <1>3, GroupsInv DEF setfsgid
  <1>4. ASSUME NEW r \in GIds \cup {Keep}, NEW e \in GIds \cup {Keep}, setregid(t, r, e)
        PROVE  IInv'
    BY <1>1, <1>4, GroupsInv, ChosenGroup DEF setregid
  <1>5. ASSUME NEW r \in GIds \cup {Keep}, NEW e \in GIds \cup {Keep},
               NEW s \in GIds \cup {Keep}, setresgid(t, r, e, s)
        PROVE  IInv'
    BY <1>1, <1>5, GroupsInv, ChosenGroup DEF setresgid
  <1> QED
    BY <1>2, <1>3, <1>4, <1>5 DEF GroupCall

LEMMA UserCallInv == ASSUME IInv, NEW t \in Tasks, UserCall(t) PROVE IInv'
  <1>1. CASE set_user_fails(t)
    BY <1>1, AbortInv DEF set_user_fails
  <1>2. CASE hook_refuses(t)
    BY <1>2, AbortInv DEF hook_refuses
  <1> QED
    BY <1>1, <1>2, SetuidInv, SetfsuidInv, SetreuidInv, SetresuidInv, SetUserInv,
       CommitInv DEF UserCall

LEMMA NextInv == IInv /\ [Next]_vars => IInv'
  <1> SUFFICES ASSUME IInv, [Next]_vars PROVE IInv'
    OBVIOUS
  <1>1. CASE Next
    BY <1>1, UserCallInv, GroupCallInv DEF Next
  <1>2. CASE UNCHANGED vars
    BY <1>2 DEF vars, IInv, TypeOK
  <1> QED
    BY <1>1, <1>2

LEMMA Invariance == Spec => []IInv
  BY InitInv, NextInv, PTL DEF Spec

-----------------------------------------------------------------------------
(* The invariants the runs check. *)

\* Type correctness: no call leaves an id outside the valid ones.
THEOREM TypeCorrect == Spec => []TypeOK
  <1>1. IInv => TypeOK
    BY DEF IInv
  <1> QED
    BY <1>1, Invariance, PTL

\* A task is counted in the account of its real user, after any calls.
THEOREM AccountMatches == Spec => []UserMatchesUid
  <1>1. IInv => UserMatchesUid
    BY DEF IInv, CredInv, UserMatchesUid
  <1> QED
    BY <1>1, Invariance, PTL

\* A task without privilege accesses files under one of its three ids.
THEOREM FsuidIsHeld == Spec => []FsuidAmongHeld
  <1>1. IInv => FsuidAmongHeld
    BY DEF IInv, CredInv, FsuidAmongHeld
  <1> QED
    BY <1>1, Invariance, PTL

\* Each credential by itself, in any sequence of calls.
THEOREM CredentialsKept == Spec => []CredentialsInv
  BY TypeCorrect, AccountMatches, FsuidIsHeld, PTL DEF CredentialsInv

-----------------------------------------------------------------------------
(* Counting the references. *)

Owners(c, u) == {t \in Tasks : c[t].user = u}
Preparing(p, u) == {t \in Tasks : p[t] # NoCall /\ p[t].new.user = u}
One(b) == IF b THEN 1 ELSE 0

\* A set of tasks that changes at one task changes its size by what t adds.
LEMMA CountMoves ==
    ASSUME NEW S \in SUBSET Tasks, NEW R \in SUBSET Tasks, NEW t \in Tasks,
           S \ {t} = R \ {t}
    PROVE  /\ Cardinality(S) \in Nat /\ Cardinality(R) \in Nat
           /\ Cardinality(R) = Cardinality(S) + One(t \in R) - One(t \in S)
  <1> DEFINE Q == S \ {t}
  <1>1. IsFiniteSet(S) /\ IsFiniteSet(R) /\ IsFiniteSet(Q)
    BY FS_Subset, CredAssumption DEF CredAssumption
  <1>2. Cardinality(S) \in Nat /\ Cardinality(R) \in Nat /\ Cardinality(Q) \in Nat
    BY <1>1, FS_CardinalityType
  <1>3. Cardinality(Q \cup {t}) = Cardinality(Q) + 1
    BY <1>1, FS_AddElement
  <1>4. S = (IF t \in S THEN Q \cup {t} ELSE Q) /\ R = (IF t \in R THEN Q \cup {t} ELSE Q)
    OBVIOUS
  <1> HIDE DEF Q
  <1>5. /\ Cardinality(S) = Cardinality(Q) + One(t \in S)
        /\ Cardinality(R) = Cardinality(Q) + One(t \in R)
    BY <1>2, <1>3, <1>4 DEF One
  <1> QED
    BY <1>2, <1>5 DEF One

\* RefsCounted, in these words.
Balanced(c, p, r, n) ==
    \A u \in UIds : /\ r[u] = Cardinality(Owners(c, u)) + Cardinality(Preparing(p, u))
                    /\ n[u] = Cardinality(Owners(c, u))

LEMMA BalancedIsCounted == RefsCounted <=> Balanced(cred, pending, refs, processes)
  BY DEF RefsCounted, Balanced, Owners, Preparing

(***************************************************************************)
(* A step of one task: the references of every account change by what the  *)
(* task adds and takes, the count of tasks by what it adds and takes.      *)
(***************************************************************************)
Moves(t, u) ==
    /\ refs'[u] = refs[u] + One(cred'[t].user = u) - One(cred[t].user = u)
                + One(pending'[t] # NoCall /\ pending'[t].new.user = u)
                - One(pending[t] # NoCall /\ pending[t].new.user = u)
    /\ processes'[u] = processes[u] + One(cred'[t].user = u) - One(cred[t].user = u)

LEMMA MovesBalance ==
    ASSUME Balanced(cred, pending, refs, processes), NEW t \in Tasks,
           \A s \in Tasks \ {t} : cred'[s] = cred[s] /\ pending'[s] = pending[s],
           \A u \in UIds : Moves(t, u)
    PROVE  Balanced(cred', pending', refs', processes')
  <1> SUFFICES ASSUME NEW u \in UIds
               PROVE  /\ refs'[u] = Cardinality(Owners(cred', u))
                                  + Cardinality(Preparing(pending', u))
                      /\ processes'[u] = Cardinality(Owners(cred', u))
    BY DEF Balanced
  <1> DEFINE S == Owners(cred, u)
             R == Owners(cred', u)
             P == Preparing(pending, u)
             Q == Preparing(pending', u)
  <1>1. /\ S \in SUBSET Tasks /\ R \in SUBSET Tasks /\ S \ {t} = R \ {t}
        /\ P \in SUBSET Tasks /\ Q \in SUBSET Tasks /\ P \ {t} = Q \ {t}
    BY DEF Owners, Preparing
  <1>2. /\ t \in S <=> cred[t].user = u
        /\ t \in R <=> cred'[t].user = u
        /\ t \in P <=> pending[t] # NoCall /\ pending[t].new.user = u
        /\ t \in Q <=> pending'[t] # NoCall /\ pending'[t].new.user = u
    BY DEF Owners, Preparing
  <1>3. refs[u] = Cardinality(S) + Cardinality(P) /\ processes[u] = Cardinality(S)
    BY DEF Balanced
  <1> HIDE DEF S, R, P, Q
  <1>4. /\ Cardinality(S) \in Nat /\ Cardinality(R) \in Nat
        /\ Cardinality(R) = Cardinality(S) + One(t \in R) - One(t \in S)
    BY <1>1, CountMoves
  <1>5. /\ Cardinality(P) \in Nat /\ Cardinality(Q) \in Nat
        /\ Cardinality(Q) = Cardinality(P) + One(t \in Q) - One(t \in P)
    BY <1>1, CountMoves
  <1>6. /\ refs'[u] = refs[u] + One(t \in R) - One(t \in S) + One(t \in Q) - One(t \in P)
        /\ processes'[u] = processes[u] + One(t \in R) - One(t \in S)
    BY <1>2 DEF Moves, One
  <1> QED
    BY <1>3, <1>4, <1>5, <1>6 DEF One, R, Q

LEMMA CallOpen ==
    ASSUME IInv, NEW t \in Tasks, pending[t].step \in {"set_user", "hook"}
    PROVE  /\ pending[t] # NoCall /\ pending[t].new \in Cred
           /\ pending[t].new.user \in UIds /\ pending[t].new.uid \in UIds
  <1>1. pending[t] # NoCall
    BY DEF NoCall
  <1>2. pending[t].new \in Cred
    BY <1>1 DEF IInv, TypeOK, Call
  <1> QED
    BY <1>1, <1>2 DEF Cred

\* Every step is one task's, and moves its references.
LEMMA StepMoves ==
    ASSUME IInv, IInv', NEW t \in Tasks, UserCall(t) \/ GroupCall(t)
    PROVE  /\ \A s \in Tasks \ {t} : cred'[s] = cred[s] /\ pending'[s] = pending[s]
           /\ \A u \in UIds : Moves(t, u)
  <1> DEFINE goal == /\ \A s \in Tasks \ {t} : cred'[s] = cred[s] /\ pending'[s] = pending[s]
                     /\ \A u \in UIds : Moves(t, u)
  <1>1. /\ cred \in [Tasks -> Cred] /\ pending \in [Tasks -> Call]
        /\ refs \in [UIds -> Int] /\ processes \in [UIds -> Int]
        /\ cred[t] \in Cred /\ cred[t].user \in UIds
    BY DEF IInv, TypeOK, Cred
  <1>2. ASSUME NEW new, Prepare(t, new) PROVE goal
    <2>1. /\ pending'[t] # NoCall /\ pending'[t].new = new /\ pending[t] = NoCall
          /\ \A s \in Tasks \ {t} : pending'[s] = pending[s]
      BY <1>1, <1>2 DEF Prepare, NoCall
    <2>2. new.user \in UIds
      BY <2>1 DEF IInv, TypeOK, Call, Cred
    <2>3. /\ cred' = cred /\ processes' = processes
          /\ \A u \in UIds : refs'[u] = refs[u] + One(new.user = u)
      BY <1>1, <1>2, <2>2 DEF Prepare, One
    <2>4. \A u \in UIds : Moves(t, u)
      BY <1>1, <2>1, <2>3 DEF Moves, One
    <2> QED
      BY <2>1, <2>3, <2>4
  <1>3. ASSUME Abort(t), pending[t].step \in {"set_user", "hook"},
               UNCHANGED <<cred, processes>>
        PROVE  goal
    <2>1. pending[t] # NoCall /\ pending[t].new.user \in UIds
      BY <1>3, CallOpen
    <2>2. pending'[t] = NoCall /\ \A s \in Tasks \ {t} : pending'[s] = pending[s]
      BY <1>1, <1>3 DEF Abort
    <2>3. \A u \in UIds : refs'[u] = refs[u] - One(pending[t].new.user = u)
      BY <1>1, <1>3, <2>1 DEF Abort, One
    <2>4. \A u \in UIds : Moves(t, u)
      BY <1>1, <1>3, <2>1, <2>2, <2>3 DEF Moves, One
    <2> QED
      BY <1>3, <2>2, <2>4
  <1>4. ASSUME NEW d, cred' = [cred EXCEPT ![t] = d], d.user = cred[t].user,
               UNCHANGED <<pending, refs, processes>>
        PROVE  goal
    <2>1. cred'[t].user = cred[t].user /\ \A s \in Tasks \ {t} : cred'[s] = cred[s]
      BY <1>1, <1>4
    <2>2. \A u \in UIds : Moves(t, u)
      BY <1>1, <1>4, <2>1 DEF Moves, One
    <2> QED
      BY <1>4, <2>1, <2>2
  <1>5. CASE set_user(t)
    <2> DEFINE new == pending[t].new
               moved == [new EXCEPT !.user = new.uid]
    <2>1. pending[t] # NoCall /\ new \in Cred /\ new.user \in UIds /\ new.uid \in UIds
      BY <1>5, CallOpen DEF set_user
    <2>2. moved.user = new.uid
      BY <2>1 DEF Cred
    <2>3. /\ pending'[t] = [step |-> "hook", new |-> moved]
          /\ \A s \in Tasks \ {t} : pending'[s] = pending[s]
      BY <1>1, <1>5 DEF set_user
    <2>4. /\ cred' = cred /\ processes' = processes
          /\ \A u \in UIds : refs'[u] = refs[u] + One(u = new.uid) - One(u = new.user)
      BY <1>5 DEF set_user, One
    <2> HIDE DEF moved, new
    <2>5. pending'[t] # NoCall /\ pending'[t].new.user = new.uid
      BY <2>2, <2>3 DEF NoCall
    <2>6. \A u \in UIds : Moves(t, u)
      BY <1>1, <2>1, <2>4, <2>5 DEF Moves, One, new
    <2> QED
      BY <2>3, <2>4, <2>6
  <1>6. CASE commit_creds(t)
    <2> DEFINE new == pending[t].new
               fixed == FixSetuid(cred[t], new)
    <2>1. pending[t] # NoCall /\ new \in Cred /\ new.user \in UIds
      BY <1>6, CallOpen DEF commit_creds
    <2>2. fixed.user = new.user
      BY <2>1 DEF FixSetuid, Cred
    <2>3. /\ cred'[t] = fixed /\ \A s \in Tasks \ {t} : cred'[s] = cred[s]
          /\ pending'[t] = NoCall /\ \A s \in Tasks \ {t} : pending'[s] = pending[s]
      BY <1>1, <1>6 DEF commit_creds
    <2>4. \A u \in UIds : refs'[u] = refs[u] - One(cred[t].user = u)
      BY <1>1, <1>6 DEF commit_creds, One
    <2>5. \A u \in UIds : processes'[u] =
              processes[u] + One(fixed.user = u) - One(cred[t].user = u)
      BY <1>1, <1>6 DEF commit_creds, One
    <2> HIDE DEF fixed, new
    <2>6. \A u \in UIds : Moves(t, u)
      BY <1>1, <2>1, <2>2, <2>3, <2>4, <2>5 DEF Moves, One, new
    <2> QED
      BY <2>3, <2>6
  <1> HIDE DEF goal
  <1>7. set_user_fails(t) \/ hook_refuses(t) => goal
    BY <1>3 DEF set_user_fails, hook_refuses
  <1>8. ASSUME NEW u \in UIds, setuid(t, u) PROVE goal
    BY <1>2, <1>8 DEF setuid
  <1>9. ASSUME NEW u \in UIds, setfsuid(t, u) PROVE goal
    <2>1. [cred[t] EXCEPT !.fsuid = u].user = cred[t].user
      BY <1>1 DEF Cred
    <2> QED
      BY <1>4, <1>9, <2>1 DEF setfsuid
  <1>10. ASSUME NEW r, NEW e, setreuid(t, r, e) PROVE goal
    BY <1>2, <1>10 DEF setreuid
  <1>11. ASSUME NEW r, NEW e, NEW s, setresuid(t, r, e, s) PROVE goal
    BY <1>2, <1>11 DEF setresuid
  <1>12. ASSUME NEW g, NEW e, NEW s, NEW f, CommitGroups(t, g, e, s, f) PROVE goal
    <2>1. [cred[t] EXCEPT !.gid = g, !.egid = e, !.sgid = s, !.fsgid = f].user = cred[t].user
      BY <1>1 DEF Cred
    <2> QED
      BY <1>4, <1>12, <2>1 DEF CommitGroups
  <1>13. ASSUME GroupCall(t) PROVE goal
    BY <1>12, <1>13 DEF GroupCall, setgid, setfsgid, setregid, setresgid
  <1>14. set_user(t) \/ commit_creds(t) => goal
    BY <1>5, <1>6 DEF goal
  <1>15. ASSUME UserCall(t) PROVE goal
    BY <1>7, <1>8, <1>9, <1>10, <1>11, <1>14, <1>15 DEF UserCall
  <1> QED
    BY <1>13, <1>15 DEF goal

\* No sequence of calls, given up half way or not, loses or keeps a reference.
THEOREM ReferencesCounted == Spec => []RefsCounted
  <1> DEFINE Counted == Balanced(cred, pending, refs, processes)
  <1>1. Init => Counted
    <2> SUFFICES ASSUME Init, NEW u \in UIds
                 PROVE  /\ refs[u] = Cardinality(Owners(cred, u))
                                   + Cardinality(Preparing(pending, u))
                        /\ processes[u] = Cardinality(Owners(cred, u))
      BY DEF Balanced
    <2>1. Preparing(pending, u) = {}
      BY DEF Init, Preparing
    <2>2. refs[u] = Cardinality(Owners(cred, u)) /\ processes = refs
      BY DEF Init, Owners
    <2>3. IsFiniteSet(Owners(cred, u))
      BY FS_Subset, CredAssumption DEF CredAssumption, Owners
    <2> QED
      BY <2>1, <2>2, <2>3, FS_EmptySet, FS_CardinalityType
  <1>2. IInv /\ Counted /\ [Next]_vars => Counted'
    <2> SUFFICES ASSUME IInv, Counted, [Next]_vars PROVE Counted'
      OBVIOUS
    <2>1. CASE UNCHANGED vars
      BY <2>1 DEF vars
    <2>2. CASE Next
      <3>1. PICK t \in Tasks : UserCall(t) \/ GroupCall(t)
        BY <2>2 DEF Next
      <3>2. IInv'
        BY NextInv
      <3> QED
        BY <3>1, <3>2, StepMoves, MovesBalance
    <2> QED
      BY <2>1, <2>2
  <1>3. Counted => RefsCounted
    BY BalancedIsCounted
  <1> QED
    BY <1>1, <1>2, <1>3, Invariance, PTL DEF Spec

-----------------------------------------------------------------------------
(* What one step does to one task's credentials. *)

Uids(c) == Held(c) \cup {c.fsuid}

\* Without privilege the user ids only shrink, without CAP_SETGID the groups.
Shrinks(c, d) ==
    /\ "CAP_SETUID" \notin c.effective => Uids(d) \subseteq Uids(c)
    /\ "CAP_SETGID" \notin c.effective =>
          Groups(d) \subseteq Groups(c) /\ d.fsgid \in Groups(c) \cup {c.fsgid}

LEMMA NoStep == ASSUME NEW c PROVE Shrinks(c, c)
  BY DEF Shrinks, Uids

\* One of the two capabilities is there exactly when the other is.
LEMMA BothCaps ==
    ASSUME NEW c, CredInv(c)
    PROVE  /\ "CAP_SETUID" \in c.effective <=> c.effective # {}
           /\ "CAP_SETGID" \in c.effective <=> c.effective # {}
           /\ c.effective # {} => Root \in Held(c)
  BY DEF CredInv, Caps, Held

LEMMA CommitShrinks ==
    ASSUME IInv, NEW t \in Tasks, commit_creds(t)
    PROVE  \E d : cred' = [cred EXCEPT ![t] = d] /\ Shrinks(cred[t], d)
  <1> DEFINE c == cred[t]
             new == pending[t].new
             d == FixSetuid(c, new)
  <1>1. c \in Cred /\ CredInv(c) /\ Copied(c, new) /\ new.user = new.uid
    BY DEF IInv, TypeOK, CallInv, commit_creds, NoCall
  <1>2. /\ Held(d) = Held(new) /\ d.fsuid = new.fsuid
        /\ d.gid = c.gid /\ d.egid = c.egid /\ d.sgid = c.sgid /\ d.fsgid = c.fsgid
    BY <1>1, FixedInv
  <1>3. cred' = [cred EXCEPT ![t] = d]
    BY DEF commit_creds
  <1> HIDE DEF c, d, new
  <1>4. new.fsuid \in Held(new)
    BY <1>1 DEF Copied, Held
  <1>5. "CAP_SETUID" \notin c.effective => Held(new) \subseteq Held(c)
    BY <1>1, BothCaps DEF Copied
  <1>6. Shrinks(c, d)
    BY <1>2, <1>4, <1>5 DEF Shrinks, Uids, Groups
  <1> QED
    BY <1>3, <1>6 DEF c

LEMMA FsuidShrinks ==
    ASSUME IInv, NEW t \in Tasks, NEW uid \in UIds, setfsuid(t, uid)
    PROVE  \E d : cred' = [cred EXCEPT ![t] = d] /\ Shrinks(cred[t], d)
  <1> DEFINE c == cred[t]
             d == [c EXCEPT !.fsuid = uid]
  <1>1. c \in Cred
    BY DEF IInv, TypeOK
  <1>2. /\ d.fsuid = uid /\ d.uid = c.uid /\ d.euid = c.euid /\ d.suid = c.suid
        /\ d.gid = c.gid /\ d.egid = c.egid /\ d.sgid = c.sgid /\ d.fsgid = c.fsgid
    BY <1>1 DEF Cred
  <1>3. "CAP_SETUID" \notin c.effective => uid \in Uids(c)
    BY CredAssumption DEF setfsuid, May, Uids, CredAssumption
  <1>4. cred' = [cred EXCEPT ![t] = d]
    BY DEF setfsuid
  <1> HIDE DEF d
  <1>5. Shrinks(c, d)
    BY <1>2, <1>3 DEF Shrinks, Uids, Held, Groups
  <1> QED
    BY <1>4, <1>5

LEMMA GroupsShrink ==
    ASSUME IInv, NEW t \in Tasks, NEW g \in GIds, NEW e \in GIds, NEW s \in GIds,
           NEW f \in GIds, CommitGroups(t, g, e, s, f),
           "CAP_SETGID" \notin cred[t].effective =>
              {g, e, s} \subseteq Groups(cred[t]) /\ f \in Groups(cred[t]) \cup {cred[t].fsgid}
    PROVE  \E d : cred' = [cred EXCEPT ![t] = d] /\ Shrinks(cred[t], d)
  <1> DEFINE c == cred[t]
             d == [c EXCEPT !.gid = g, !.egid = e, !.sgid = s, !.fsgid = f]
  <1>1. c \in Cred
    BY DEF IInv, TypeOK
  <1>2. /\ d.gid = g /\ d.egid = e /\ d.sgid = s /\ d.fsgid = f
        /\ d.uid = c.uid /\ d.euid = c.euid /\ d.suid = c.suid /\ d.fsuid = c.fsuid
    BY <1>1 DEF Cred
  <1>3. cred' = [cred EXCEPT ![t] = d]
    BY DEF CommitGroups
  <1> HIDE DEF d
  <1>4. Shrinks(c, d)
    BY <1>2 DEF Shrinks, Uids, Held, Groups
  <1> QED
    BY <1>3, <1>4

LEMMA GroupCallShrinks ==
    ASSUME IInv, NEW t \in Tasks, GroupCall(t)
    PROVE  \E d : cred' = [cred EXCEPT ![t] = d] /\ Shrinks(cred[t], d)
  <1> DEFINE c == cred[t]
             goal == \E d : cred' = [cred EXCEPT ![t] = d] /\ Shrinks(c, d)
  <1>1. /\ c.gid \in GIds /\ c.egid \in GIds /\ c.sgid \in GIds /\ c.fsgid \in GIds
        /\ {c.gid, c.egid, c.sgid} = Groups(c)
    BY DEF IInv, TypeOK, Cred, Groups
  <1> HIDE DEF goal
  <1>2. ASSUME NEW g \in GIds, setgid(t, g) PROVE goal
    BY <1>1, <1>2, GroupsShrink DEF setgid, goal
  <1>3. ASSUME NEW g \in GIds, setfsgid(t, g) PROVE goal
    <2>1. "CAP_SETGID" \notin c.effective => g \in Groups(c) \cup {c.fsgid}
      BY <1>3, CredAssumption DEF setfsgid, May, CredAssumption
    <2>2. CommitGroups(t, c.gid, c.egid, c.sgid, g)
      BY <1>3 DEF setfsgid
    <2> QED
      BY <1>1, <2>1, <2>2, GroupsShrink DEF goal
  <1>4. ASSUME NEW r \in GIds \cup {Keep}, NEW e \in GIds \cup {Keep}, setregid(t, r, e)
        PROVE  goal
    <2> DEFINE g == Chosen(r, c.gid)
               h == Chosen(e, c.egid)
               s == IF r # Keep \/ (e # Keep /\ e # c.gid) THEN h ELSE c.sgid
    <2>1. g \in GIds /\ h \in GIds /\ s \in GIds
      BY <1>1, ChosenGroup
    <2>2. "CAP_SETGID" \notin c.effective => g \in Groups(c) /\ h \in Groups(c)
      BY <1>1, <1>4 DEF setregid, May, Chosen
    <2>3. CommitGroups(t, g, h, s, h)
      BY <1>4 DEF setregid
    <2>4. "CAP_SETGID" \notin c.effective => {g, h, s} \subseteq Groups(c)
      BY <1>1, <2>2
    <2> HIDE DEF g, h, s
    <2> QED
      BY <2>1, <2>3, <2>4, GroupsShrink DEF goal
  <1>5. ASSUME NEW r \in GIds \cup {Keep}, NEW e \in GIds \cup {Keep},
               NEW v \in GIds \cup {Keep}, setresgid(t, r, e, v)
        PROVE  goal
    <2> DEFINE g == Chosen(r, c.gid)
               h == Chosen(e, c.egid)
               s == Chosen(v, c.sgid)
    <2>1. g \in GIds /\ h \in GIds /\ s \in GIds
      BY <1>1, ChosenGroup
    <2>2. "CAP_SETGID" \notin c.effective => {g, h, s} \subseteq Groups(c)
      BY <1>1, <1>5 DEF setresgid, May, Chosen
    <2>3. CommitGroups(t, g, h, s, h)
      BY <1>5 DEF setresgid
    <2> HIDE DEF g, h, s
    <2> QED
      BY <2>1, <2>2, <2>3, GroupsShrink DEF goal
  <1> QED
    BY <1>2, <1>3, <1>4, <1>5 DEF GroupCall, goal

\* Every step changes the credentials of at most one task, as Shrinks says.
LEMMA StepShrinks ==
    ASSUME IInv, [Next]_vars
    PROVE  cred' = cred \/ \E t \in Tasks : \E d :
               cred' = [cred EXCEPT ![t] = d] /\ Shrinks(cred[t], d)
  <1>1. ASSUME NEW t \in Tasks, UserCall(t)
        PROVE  cred' = cred \/ \E d : cred' = [cred EXCEPT ![t] = d] /\ Shrinks(cred[t], d)
    <2>1. CASE commit_creds(t)
      BY <2>1, CommitShrinks
    <2>2. CASE \E u \in UIds : setfsuid(t, u)
      BY <2>2, FsuidShrinks
    <2>3. CASE set_user(t) \/ set_user_fails(t) \/ hook_refuses(t)
      BY <2>3 DEF set_user, set_user_fails, hook_refuses
    <2>4. ASSUME NEW u \in UIds, setuid(t, u) PROVE cred' = cred
      BY <2>4 DEF setuid, Prepare
    <2>5. ASSUME NEW r \in UIds \cup {Keep}, NEW e \in UIds \cup {Keep}, setreuid(t, r, e)
          PROVE  cred' = cred
      BY <2>5 DEF setreuid, Prepare
    <2>6. ASSUME NEW r \in UIds \cup {Keep}, NEW e \in UIds \cup {Keep},
                 NEW s \in UIds \cup {Keep}, setresuid(t, r, e, s)
          PROVE  cred' = cred
      BY <2>6 DEF setresuid, Prepare
    <2> QED
      BY <1>1, <2>1, <2>2, <2>3, <2>4, <2>5, <2>6 DEF UserCall
  <1>2. CASE UNCHANGED vars
    BY <1>2 DEF vars
  <1> QED
    BY <1>1, <1>2, GroupCallShrinks DEF Next

-----------------------------------------------------------------------------
(* The action properties, and the refinement. *)

\* For every task, also those that do not move.
LEMMA EachShrinks ==
    ASSUME IInv, [Next]_vars, NEW t \in Tasks
    PROVE  Shrinks(cred[t], cred'[t]) /\ CredInv(cred[t]) /\ CredInv(cred'[t])
  <1>1. Shrinks(cred[t], cred'[t])
    BY StepShrinks, NoStep DEF IInv, TypeOK
  <1>2. IInv'
    BY NextInv
  <1> QED
    BY <1>1, <1>2 DEF IInv

\* What is dropped stays dropped: no sequence of calls brings root back.
THEOREM DropFinal == Spec => DropIsFinal
  <1> DEFINE A == \A t \in Tasks : Dropped(cred[t]) =>
                    /\ cred[t].effective = {} /\ cred[t].permitted = {}
                    /\ Dropped(cred'[t]) /\ cred'[t].fsuid # Root
  <1>1. IInv /\ [Next]_vars => A
    <2> SUFFICES ASSUME IInv, [Next]_vars, NEW t \in Tasks, Dropped(cred[t])
                 PROVE  /\ cred[t].effective = {} /\ cred[t].permitted = {}
                        /\ Dropped(cred'[t]) /\ cred'[t].fsuid # Root
      OBVIOUS
    <2>1. Shrinks(cred[t], cred'[t]) /\ CredInv(cred[t])
      BY EachShrinks
    <2>2. cred[t].permitted = {} /\ cred[t].effective = {} /\ Root \notin Uids(cred[t])
      BY <2>1 DEF CredInv, Dropped, Uids
    <2>3. Root \notin Uids(cred'[t])
      BY <2>1, <2>2 DEF Shrinks
    <2> QED
      BY <2>2, <2>3 DEF Dropped, Uids
  <1>2. IInv /\ [Next]_vars => [A]_vars
    BY <1>1
  <1> QED
    BY <1>2, Invariance, PTL DEF Spec, DropIsFinal

\* Without CAP_SETGID no sequence of calls yields a new group.
THEOREM GroupsKept == Spec => GroupsOnlyShrink
  <1> DEFINE A == \A t \in Tasks : "CAP_SETGID" \notin cred[t].effective =>
                    /\ Groups(cred'[t]) \subseteq Groups(cred[t])
                    /\ cred'[t].fsgid \in Groups(cred[t]) \cup {cred[t].fsgid}
  <1>1. IInv /\ [Next]_vars => A
    BY EachShrinks DEF Shrinks
  <1>2. IInv /\ [Next]_vars => [A]_vars
    BY <1>1
  <1> QED
    BY <1>2, Invariance, PTL DEF Spec, GroupsOnlyShrink

\* The abstract state that the credentials stand for.
AbsHeld == [t \in Tasks |-> Held(cred[t]) \cup {cred[t].fsuid}]
AbsPriv == [t \in Tasks |-> "CAP_SETUID" \in cred[t].effective]

LEMMA AbsType ==
    ASSUME IInv
    PROVE  /\ AbsHeld \in [Tasks -> SUBSET UIds]
           /\ AbsPriv \in [Tasks -> BOOLEAN]
           /\ \A t \in Tasks : AbsPriv[t] => Root \in AbsHeld[t]
  <1>1. ASSUME NEW t \in Tasks
        PROVE  /\ Held(cred[t]) \cup {cred[t].fsuid} \in SUBSET UIds
               /\ "CAP_SETUID" \in cred[t].effective => Root \in Held(cred[t])
    <2>1. cred[t] \in Cred /\ CredInv(cred[t])
      BY DEF IInv, TypeOK
    <2>2. Held(cred[t]) \cup {cred[t].fsuid} \in SUBSET UIds
      BY <2>1 DEF Cred, Held
    <2> QED
      BY <2>1, <2>2, BothCaps
  <1>2. AbsHeld \in [Tasks -> SUBSET UIds]
    BY <1>1 DEF AbsHeld
  <1>3. AbsPriv \in [Tasks -> BOOLEAN]
    <2> DEFINE P(t) == "CAP_SETUID" \in cred[t].effective
    <2>1. ASSUME NEW t \in Tasks PROVE P(t) \in {TRUE, FALSE}
      <3>1. CASE P(t)
        <4>1. P(t) = TRUE
          BY <3>1
        <4> HIDE DEF P
        <4> QED
          BY <4>1
      <3>2. CASE ~P(t)
        <4>1. P(t) = FALSE
          BY <3>2
        <4> HIDE DEF P
        <4> QED
          BY <4>1
      <3> QED
        BY <3>1, <3>2
    <2>2. BOOLEAN = {TRUE, FALSE}
      OBVIOUS
    <2>3. AbsPriv = [t \in Tasks |-> P(t)]
      BY DEF AbsPriv
    <2> HIDE DEF P
    <2> QED
      BY <2>1, <2>2, <2>3, Zenon
  <1>4. ASSUME NEW t \in Tasks, AbsPriv[t] PROVE Root \in AbsHeld[t]
    BY <1>1, <1>4 DEF AbsHeld, AbsPriv
  <1> QED
    BY <1>2, <1>3, <1>4

LEMMA AbsInit == Init => Abstract!Init
  BY InitInv, AbsType DEF Abstract!Init, AbsHeld, AbsPriv

LEMMA AbsNext == IInv /\ [Next]_vars => [Abstract!Next]_<<AbsHeld, AbsPriv>>
  <1> SUFFICES ASSUME IInv, [Next]_vars
               PROVE  [Abstract!Next]_<<AbsHeld, AbsPriv>>
    OBVIOUS
  <1>1. CASE cred' = cred
    BY <1>1 DEF AbsHeld, AbsPriv
  <1>2. ASSUME NEW t \in Tasks, NEW d, cred' = [cred EXCEPT ![t] = d], Shrinks(cred[t], d)
        PROVE  Abstract!Next
    <2> DEFINE p == "CAP_SETUID" \in d.effective
    <2>1. cred[t] \in Cred /\ cred \in [Tasks -> Cred] /\ cred'[t] = d
      BY <1>2 DEF IInv, TypeOK
    <2>2. IInv'
      BY NextInv
    <2>3. Uids(d) \subseteq UIds /\ (p => Root \in Uids(d))
      <3>1. d \in Cred /\ CredInv(d)
        BY <2>1, <2>2 DEF IInv, TypeOK
      <3> QED
        BY <3>1, BothCaps DEF Uids, Held, Cred
    <2>4. AbsHeld' = [AbsHeld EXCEPT ![t] = Uids(d)]
      BY <1>2, <2>1 DEF AbsHeld, Uids
    <2>5. AbsPriv' = [AbsPriv EXCEPT ![t] = p]
      BY <1>2, <2>1 DEF AbsPriv
    <2>6. AbsHeld[t] = Uids(cred[t]) /\ AbsPriv[t] = ("CAP_SETUID" \in cred[t].effective)
      BY DEF AbsHeld, AbsPriv, Uids
    <2>7. Abstract!Becomes(t, Uids(d), p)
      BY <2>3, <2>4, <2>5 DEF Abstract!Becomes, AbsHeld, AbsPriv
    <2>8. p \in BOOLEAN
      OBVIOUS
    <2>9. CASE "CAP_SETUID" \in cred[t].effective
      <3>1. Abstract!Choose(t)
        BY <2>3, <2>6, <2>7, <2>8, <2>9 DEF Abstract!Choose, AbsPriv
      <3> QED
        BY <3>1 DEF Abstract!Next
    <2>10. CASE "CAP_SETUID" \notin cred[t].effective
      <3>1. Uids(d) \subseteq Uids(cred[t])
        BY <1>2, <2>10 DEF Shrinks
      <3>2. Abstract!Shrink(t)
        BY <2>6, <2>7, <2>8, <2>10, <3>1 DEF Abstract!Shrink, AbsHeld, AbsPriv
      <3> QED
        BY <3>2 DEF Abstract!Next
    <2> QED
      BY <2>9, <2>10
  <1> QED
    BY <1>1, <1>2, StepShrinks

\* The calls implement the abstract rule on privilege, step by step.
THEOREM Implementation == Spec => ImplementsPrivilege
  <1>1. IInv /\ [Next]_vars =>
          [Abstract!Next]_<<[t \in Tasks |-> Held(cred[t]) \cup {cred[t].fsuid}],
                            [t \in Tasks |-> "CAP_SETUID" \in cred[t].effective]>>
    BY AbsNext DEF AbsHeld, AbsPriv
  <1> QED
    BY <1>1, AbsInit, Invariance, PTL DEF Spec, ImplementsPrivilege, Abstract!Spec
=============================================================================
