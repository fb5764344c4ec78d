----------------------------- MODULE WalkProofs -----------------------------
(***************************************************************************)
(* Every walk along the first table ends, in every session and for every   *)
(* size of the disk (WalksEnd).  Inductive: the table is Walkable, the     *)
(* root's cell holds its own number while the program runs, and neither a  *)
(* file's entry, nor the first entry of a block, nor an open file refers   *)
(* to the root - in the program and in the image it will start from.       *)
(***************************************************************************)
EXTENDS FileSystemProofs

RootRefs(e) ==
    \A b \in Block, k \in Index :
        e[b][k].first = Root => e[b][k].attr = DIR /\ (k = 0 => b = Root)
SlotRefs == \A j \in 0..(MaxOpen - 1) : slots[j].attr = FILE => slots[j].first # Root
Running == mode \in {"shell", "edit", "rmdir"}
Stored(f, e) == Walkable(f) /\ f[Root] = Root /\ RootRefs(e)

DiskWalks == Walkable(fat) /\ RootRefs(ents) /\ (Running => fat[Root] = Root)
HostWalks == host.state = "saved" => Stored(host.fat, host.ents)
WalkInv == DiskWalks /\ SlotRefs /\ HostWalks

-----------------------------------------------------------------------------
(***************************************************************************)
(* What the stores of the commands do to references to the root.           *)
(***************************************************************************)
LEMMA AttrsDiffer == DIR # FILE /\ DIR # 0 /\ FILE # 0
  BY DEF DIR, FILE

LEMMA PutEntryRefs ==
  ASSUME NEW e \in Ents, RootRefs(e), NEW at \in Pointers, NEW x \in Entry,
         x.first # Root
  PROVE  RootRefs(PutEntry(e, at, x))
  BY DEF RootRefs, PutEntry, Ents, Pointers

\* A store of a name, or of a length, leaves the references alone.
LEMMA SameRefs ==
  ASSUME NEW e, NEW d, RootRefs(e),
         \A b \in Block, k \in Index :
            d[b][k].first = e[b][k].first /\ d[b][k].attr = e[b][k].attr
  PROVE  RootRefs(d)
  BY DEF RootRefs

LEMMA StoreNameRefs ==
  ASSUME NEW e \in Ents, RootRefs(e), NEW b \in Int, NEW k \in Index, NEW nm \in NameText
  PROVE  RootRefs([e EXCEPT ![b][k].name = nm])
<1> DEFINE d == [e EXCEPT ![b][k].name = nm]
<1>1. ASSUME NEW c \in Block, NEW j \in Index
      PROVE  d[c][j].first = e[c][j].first /\ d[c][j].attr = e[c][j].attr
  <2>1. e[c] \in [Index -> Entry] /\ e[c][j] \in Entry
    BY DEF Ents
  <2>2. d[c][j] = e[c][j] \/ d[c][j] = [e[c][j] EXCEPT !.name = nm]
    BY <2>1 DEF Ents
  <2> QED
    BY <2>1, <2>2 DEF Entry
<1> QED
  BY <1>1, SameRefs

LEMMA PutLenRefs ==
  ASSUME NEW e \in Ents, RootRefs(e), NEW at \in Pointers, NEW l
  PROVE  RootRefs(PutLen(e, at, l))
<1> DEFINE d == PutLen(e, at, l)
<1>1. ASSUME NEW c \in Block, NEW j \in Index
      PROVE  d[c][j].first = e[c][j].first /\ d[c][j].attr = e[c][j].attr
  <2>1. e[c] \in [Index -> Entry] /\ e[c][j] \in Entry
    BY DEF Ents
  <2>2. d[c][j] = e[c][j] \/ d[c][j] = [e[c][j] EXCEPT !.len = l]
    BY <2>1 DEF Ents, PutLen
  <2> QED
    BY <2>1, <2>2 DEF Entry
<1> QED
  BY <1>1, SameRefs

LEMMA IncLenRefs ==
  ASSUME NEW e \in Ents, RootRefs(e), NEW at \in Pointers
  PROVE  RootRefs(IncLen(e, at)) /\ RootRefs(DecLen(e, at))
  BY PutLenRefs DEF IncLen, DecLen

LEMMA RootNameRefs ==
  ASSUME NEW e \in Ents, RootRefs(e), NEW i, NEW nm \in NameText
  PROVE  RootRefs(RootName(e, i, nm))
<1>1. Root \in Int /\ 0 \in Index
  BY Sizes
<1> QED
  BY <1>1, StoreNameRefs DEF RootName

LEMMA BlankRefs == Blank \in Entry /\ Blank.first # Root
<1>1. Blank.first # Root
  BY DEF Blank, Root
<1> QED
  BY <1>1, BlankType

LEMMA ClearBlocksRefs ==
  ASSUME NEW e, RootRefs(e), NEW S PROVE RootRefs(ClearBlocks(e, S))
  BY BlankRefs DEF RootRefs, ClearBlocks

\* The new directory's block is never the root's.
LEMMA DottedRefs ==
  ASSUME NEW e \in Ents, RootRefs(e), NEW b \in Block, b # Root, NEW parent \in 0..NB
  PROVE  RootRefs(Dotted(e, b, parent))
<1> DEFINE dot == [name |-> ".", attr |-> DIR, first |-> b, len |-> 1]
           dotdot == [name |-> "..", attr |-> DIR, first |-> parent, len |-> 1]
           d == Dotted(e, b, parent)
<1>1. ASSUME NEW c \in Block, NEW k \in Index
      PROVE  \/ d[c][k] = e[c][k]
             \/ d[c][k] = dot
             \/ d[c][k] = dotdot /\ k = 1
  BY Sizes DEF Dotted, Ents
<1>2. dot.first # Root /\ dotdot.attr = DIR
  OBVIOUS
<1> QED
  BY <1>1, <1>2 DEF RootRefs

LEMMA FormattedRefs == ASSUME NEW e \in Ents, RootRefs(e) PROVE RootRefs(FormattedEnts(e))
<1> DEFINE d == FormattedEnts(e)
           dot == [name |-> ".", attr |-> DIR, first |-> Root, len |-> 2]
           dotdot == [name |-> "..", attr |-> DIR, first |-> Root, len |-> 1]
<1>1. ASSUME NEW c \in Block, NEW k \in Index
      PROVE  \/ d[c][k] = e[c][k]
             \/ d[c][k] = Blank
             \/ d[c][k] = dot /\ c = Root
             \/ d[c][k] = dotdot /\ k = 1
  BY Sizes DEF FormattedEnts
<1>2. dot.attr = DIR /\ dotdot.attr = DIR
  OBVIOUS
<1> QED
  BY <1>1, <1>2, BlankRefs DEF RootRefs

LEMMA ZeroRefs == RootRefs(ZeroEnts) /\ Walkable(ZeroFat)
<1>1. RootRefs(ZeroEnts)
  BY BlankRefs DEF RootRefs, ZeroEnts
<1>2. \A x \in (0..NB) \ {Root} : ZeroFat[x] \in {FREE, END}
  BY Sizes DEF ZeroFat, Table
<1> QED
  BY <1>1, <1>2, UnlinkedWalkable

(***************************************************************************)
(* The root's cell is not touched.                                         *)
(***************************************************************************)
LEMMA SetBothRoot ==
  ASSUME NEW f \in Fats, NEW i \in (0..NB) \ {Root}, NEW v
  PROVE  SetBoth(f, i, v)[Root] = f[Root]
  BY Sizes DEF SetBoth, Fats, Table

LEMMA OneCellRoot ==
  ASSUME NEW f \in Fats, NEW i \in (0..NB) \ {Root}, NEW v
  PROVE  [f EXCEPT ![i] = v][Root] = f[Root]
  BY Sizes DEF Fats, Table

LEMMA FreeCellsRoot ==
  ASSUME NEW f \in Fats, NEW S, S \subseteq 0..NB, Root \notin S
  PROVE  FreeCells(f, S)[Root] = f[Root]
<1>1. (Root - NB) \notin S /\ Root \in Table
  BY Sizes DEF Table
<1> QED
  BY <1>1 DEF FreeCells, Fats

LEMMA RootIsLink == Root # FREE /\ Root # END
  BY Sizes

\* A free cell is not the root's, and neither is the one after the table.
LEMMA FreshNotRoot ==
  ASSUME fat[Root] = Root, NEW i \in 0..NB, i < NB => fat[i] = FREE
  PROVE  i \in (0..NB) \ {Root}
<1>1. NB # Root /\ Root # FREE
  BY Sizes
<1>2. CASE i = NB
  BY <1>1, <1>2
<1>3. CASE i # NB
  <2>1. i < NB
    BY <1>3, Sizes
  <2> QED
    BY <1>1, <2>1
<1> QED
  BY <1>2, <1>3

-----------------------------------------------------------------------------
(***************************************************************************)
(* The commands, while the program runs.                                   *)
(***************************************************************************)
LEMMA RunningFacts ==
  ASSUME TypeInv, WalkInv, Running
  PROVE  /\ TypeOK /\ Walkable(fat) /\ fat[Root] = Root /\ RootRefs(ents)
         /\ fat \in Fats /\ ents \in Ents
  BY TypeParts DEF TypeInv, DiskTyped, WalkInv, DiskWalks

LEMMA mkdirWalks ==
  ASSUME TypeInv, WalkInv, NEW n \in Names, mkdir(n) PROVE DiskWalks'
<1>0. Running
  BY DEF mkdir, Typed, Running
<1>1. CASE Wild
  BY <1>0, <1>1, RunningFacts DEF Wild, DiskWalks
<1>2. CASE ~ Wild
  <2> DEFINE at(k) == At(cur.first, k)
             up == At(cur.dirno, cur.diroff)
             new(i) == [name |-> n, attr |-> DIR, first |-> i, len |-> 2]
             named(k, i) == RootName(PutEntry(ents, at(k), new(i)), i, JunkName)
  <2>1. PICK k \in 0..DS, i \in 0..NB :
          /\ i < NB => fat[i] = FREE
          /\ DirLike(at(k).blk) /\ DirLike(up.blk) /\ DirLike(i)
          /\ fat' = SetBoth(fat, i, END)
          /\ ents' = Dotted(IncLen(named(k, i), up), i, cur.first)
    BY <1>2 DEF mkdir, StopsAt
  <2>2. /\ TypeOK /\ Walkable(fat) /\ fat[Root] = Root /\ RootRefs(ents)
        /\ fat \in Fats /\ ents \in Ents
    BY <1>0, RunningFacts
  <2>3. i \in (0..NB) \ {Root} /\ i \in Block
    BY <2>1, <2>2, FreshNotRoot DEF DirLike
  <2>4. at(k) \in Pointers /\ up \in Pointers
    BY <2>1, <2>2, HereType, UpType DEF mkdir
  <2>5. new(i) \in Entry /\ new(i).first # Root
    <3>1. n \in NameText
      BY DEF NameText
    <3>2. 2 \in 0..(LengthMod - 1)
      BY LengthModPositive
    <3>3. new(i) \in Entry
      BY <3>1, <3>2, EntryType
    <3> QED
      BY <2>3, <3>3
  <2>6. JunkName \in NameText
    BY DEF NameText
  <2>7. named(k, i) \in Ents /\ RootRefs(named(k, i))
    BY <2>2, <2>4, <2>5, <2>6, PutEntryType, PutEntryRefs, RootNameType, RootNameRefs
  <2>8. IncLen(named(k, i), up) \in Ents /\ RootRefs(IncLen(named(k, i), up))
    BY <2>4, <2>7, IncLenType, IncLenRefs
  <2>9. cur.first \in 0..NB
    BY <2>2, TypeParts DEF RestTyped, Cwds
  <2>10. RootRefs(ents')
    BY <2>1, <2>3, <2>8, <2>9, DottedRefs
  <2>11. Walkable(fat') /\ fat'[Root] = Root
    BY <2>1, <2>2, <2>3, SetBothWalkable, SetBothRoot
  <2> QED
    BY <2>10, <2>11 DEF DiskWalks
<1> QED
  BY <1>1, <1>2

LEMMA createWalks ==
  ASSUME TypeInv, WalkInv, NEW n \in Names, create(n) PROVE DiskWalks'
<1> DEFINE new(i) == [name |-> n, attr |-> FILE, first |-> i, len |-> BlockSize]
<1>1. PICK k \in Index, i \in 0..NB :
        /\ i < NB => fat[i] = FREE
        /\ fat' = SetBoth(fat, i, END)
        /\ ents' = RootName(PutEntry(ents, At(cur.first, k), new(i)), i, JunkName)
  BY DEF create, StopsAt
<1>2. /\ TypeOK /\ Walkable(fat) /\ fat[Root] = Root /\ RootRefs(ents)
      /\ fat \in Fats /\ ents \in Ents
  BY RunningFacts DEF create, Typed, Running
<1>3. i \in (0..NB) \ {Root}
  BY <1>1, <1>2, FreshNotRoot
<1>4. At(cur.first, k) \in Pointers
  <2>1. cur.first \in Block
    BY DEF create, DirLike
  <2>2. k # DS
    BY Sizes DEF Index
  <2> QED
    BY <2>1, <2>2 DEF At, Pointers
<1>5. new(i) \in Entry
  <2>1. n \in NameText
    BY DEF NameText
  <2>2. BlockSize \in 0..(LengthMod - 1)
    BY ShellFacts, LengthModPositive
  <2> QED
    BY <2>1, <2>2, EntryType
<1>6. JunkName \in NameText
  BY DEF NameText
<1>7. RootRefs(ents')
  BY <1>1, <1>2, <1>3, <1>4, <1>5, <1>6, PutEntryType, PutEntryRefs, RootNameRefs
<1>8. Walkable(fat') /\ fat'[Root] = Root
  BY <1>1, <1>2, <1>3, SetBothWalkable, SetBothRoot
<1> QED
  BY <1>7, <1>8 DEF DiskWalks

(***************************************************************************)
(* rmfile() starts at a file's entry or, when it found none, at the first  *)
(* entry of the next block: neither refers to the root, so the chain it    *)
(* frees is without the root.                                              *)
(***************************************************************************)
LEMMA DeleteFileStart ==
  ASSUME TypeInv, WalkInv, Running, DirLike(cur.first), NEW n, NEW k \in 0..DS,
         k < DS => IsFileNamed(ents[cur.first][k], n),
         DirLike(At(cur.first, k).blk)
  PROVE  EntryAt(ents, At(cur.first, k)).first \in (0..NB) \ {Root}
<1> DEFINE at == At(cur.first, k)
<1>1. TypeOK /\ RootRefs(ents) /\ ents \in Ents
  BY RunningFacts
<1>2. at \in Pointers
  BY <1>1, HereType
<1>3. EntryAt(ents, at) \in Entry /\ EntryAt(ents, at) = ents[at.blk][at.idx]
      /\ at.blk \in Block /\ at.idx \in Index
  BY <1>1, <1>2, EntryAtType DEF EntryAt, Pointers
<1>4. CASE k < DS
  <2>1. at.blk = cur.first /\ at.idx = k
    BY <1>4, Sizes DEF At
  <2>2. EntryAt(ents, at).attr = FILE
    BY <1>3, <1>4, <2>1 DEF IsFileNamed
  <2> QED
    BY <1>1, <1>3, <2>2, AttrsDiffer DEF RootRefs, Entry
<1>5. CASE ~ (k < DS)
  <2>1. k = DS
    BY <1>5, Sizes
  <2>2. at.idx = 0 /\ at.blk = cur.first + 1
    BY <2>1 DEF At
  <2>3. at.blk # Root
    BY <2>2, Sizes DEF DirLike, Block
  <2> QED
    BY <1>1, <1>3, <2>2, <2>3 DEF RootRefs, Entry
<1> QED
  BY <1>4, <1>5

LEMMA DeleteFileWalks ==
  ASSUME TypeInv, WalkInv, Running, DirLike(cur.first), NEW n, NEW then,
         DeleteFile(n, then)
  PROVE  DiskWalks'
<1>0. /\ TypeOK /\ Walkable(fat) /\ fat[Root] = Root /\ RootRefs(ents)
      /\ fat \in Fats /\ ents \in Ents
  BY RunningFacts
<1>1. CASE mode' = "wild" /\ UNCHANGED disk
  BY <1>0, <1>1 DEF disk, DiskWalks
<1>2. CASE ~ (mode' = "wild" /\ UNCHANGED disk)
  <2> DEFINE at(k) == At(cur.first, k)
             first(k) == EntryAt(ents, at(k)).first
             root(S) == IF NB \in S THEN [ents EXCEPT ![Root][0].name = ""] ELSE ents
  <2>1. PICK k \in 0..DS :
          /\ k < DS => IsFileNamed(ents[cur.first][k], n)
          /\ DirLike(at(k).blk)
          /\ \E freed, cleared :
                /\ freed \subseteq Chain(fat, first(k))
                /\ fat' = FreeCells(fat, freed)
                /\ \/ ents' = PutEntry(ClearBlocks(root(freed), cleared), at(k), Blank)
                   \/ ents' = ClearBlocks(root(freed), cleared)
    <3>1. PICK k \in 0..DS :
            /\ k < DS => IsFileNamed(ents[cur.first][k], n)
            /\ DirLike(at(k).blk)
            /\ \E last \in Chain(fat, first(k)) :
                 LET ended == fat[last] = END
                     freed == IF ended THEN Chain(fat, first(k))
                                       ELSE Chain(fat, first(k)) \ {last}
                     cleared == IF ended THEN Chain(fat, first(k))
                                         ELSE Chain(fat, first(k)) \ {first(k)}
                 IN  /\ fat' = FreeCells(fat, freed)
                     /\ \/ ents' = PutEntry(ClearBlocks(root(freed), cleared),
                                            at(k), Blank)
                        \/ ents' = ClearBlocks(root(freed), cleared)
      BY <1>2 DEF DeleteFile, StopsAt
    <3> QED
      BY <3>1
  <2>2. PICK freed, cleared :
          /\ freed \subseteq Chain(fat, first(k))
          /\ fat' = FreeCells(fat, freed)
          /\ \/ ents' = PutEntry(ClearBlocks(root(freed), cleared), at(k), Blank)
             \/ ents' = ClearBlocks(root(freed), cleared)
    BY <2>1
  <2>3. first(k) \in (0..NB) \ {Root} /\ at(k) \in Pointers
    BY <1>0, <2>1, DeleteFileStart, HereType
  <2>4. Root \notin freed /\ freed \subseteq 0..NB
    BY <1>0, <2>2, <2>3, ChainClosed, ChainAvoidsRoot DEF Walkable
  <2>5. Walkable(fat') /\ fat'[Root] = Root
    BY <1>0, <2>2, <2>4, FreeCellsWalkable, FreeCellsRoot
  <2>6. root(freed) \in Ents /\ RootRefs(root(freed))
    <3>1. "" \in NameText /\ Root \in Int /\ 0 \in Index
      BY Sizes DEF NameText
    <3> QED
      BY <1>0, <3>1, StoreNameType, StoreNameRefs
  <2>7. RootRefs(ents')
    BY <2>2, <2>3, <2>6, ClearBlocksType, ClearBlocksRefs, PutEntryRefs, BlankRefs
  <2> QED
    BY <2>5, <2>7 DEF DiskWalks
<1> QED
  BY <1>1, <1>2

(***************************************************************************)
(* rmdir(): it gives back blocks marked END only, so never the root's.     *)
(***************************************************************************)
LEMMA rmdirWalks == ASSUME TypeInv, WalkInv, NEW n \in Names, rmdir(n) PROVE DiskWalks'
<1>0. Running
  BY DEF rmdir, Typed, Running
<1>1. CASE Wild
  BY <1>0, <1>1, RunningFacts DEF Wild, DiskWalks
<1>2. CASE ~ Wild
  <2> DEFINE up == At(cur.dirno, cur.diroff)
  <2>1. DirLike(up.blk) /\ ents' = DecLen(ents, up) /\ UNCHANGED fat
    BY <1>2 DEF rmdir
  <2> QED
    BY <1>0, <2>1, RunningFacts, UpType, IncLenRefs DEF DiskWalks
<1> QED
  BY <1>1, <1>2

LEMMA rmdirPopWalks == ASSUME TypeInv, WalkInv, rmdirPop PROVE DiskWalks'
<1>0. Running
  BY DEF rmdirPop, Running
<1>1. CASE Wild
  BY <1>0, <1>1, RunningFacts DEF Wild, DiskWalks
<1>2. CASE ~ Wild
  <2>1. ents' = PutEntry(ents, Head(stack), Blank) /\ UNCHANGED fat /\ stack # <<>>
    BY <1>2 DEF rmdirPop
  <2>2. Head(stack) \in Pointers
    BY <1>0, <2>1, RunningFacts, TypeParts DEF RestTyped, Stacks
  <2>3. RootRefs(ents')
    BY <1>0, <2>1, <2>2, RunningFacts, BlankRefs, PutEntryRefs
  <2> QED
    BY <1>0, <2>1, <2>3, RunningFacts DEF DiskWalks
<1> QED
  BY <1>1, <1>2

LEMMA rmdirScanWalks == ASSUME TypeInv, WalkInv, rmdirScan PROVE DiskWalks'
<1> DEFINE at == [blk |-> scan.blk, idx |-> scan.idx]
           e == EntryAt(ents, at)
<1>0. Running /\ DirLike(cur.first)
  BY DEF TypeInv, Removing, rmdirScan, Running
<1>1. /\ TypeOK /\ Walkable(fat) /\ fat[Root] = Root /\ RootRefs(ents)
      /\ fat \in Fats /\ ents \in Ents
  BY <1>0, RunningFacts
<1>2. e.first \in 0..NB
  <2>1. scan.blk \in Block /\ scan.idx \in 0..DS /\ scan.idx < DS
    BY <1>1, TypeParts DEF rmdirScan, RestTyped, Scans
  <2>2. at \in Pointers
    BY <2>1, Sizes DEF Pointers, Index
  <2> QED
    BY <1>1, <2>2, EntryAtType DEF Entry
<1>3. CASE DeleteFile(e.name, "rmdir")
  BY <1>0, <1>3, DeleteFileWalks
<1>4. CASE UNCHANGED <<fat, ents>>
  BY <1>1, <1>4 DEF DiskWalks
<1>5. CASE /\ fat[e.first] = END /\ fat' = SetBoth(fat, e.first, FREE)
           /\ ents' = RootName(ents, e.first, "")
  <2>1. e.first # Root
    BY <1>1, <1>5, RootIsLink
  <2>2. Walkable(fat') /\ fat'[Root] = Root
    BY <1>1, <1>2, <1>5, <2>1, SetBothWalkable, SetBothRoot
  <2>3. "" \in NameText
    BY DEF NameText
  <2>4. RootRefs(ents')
    BY <1>1, <1>5, <2>3, RootNameRefs
  <2> QED
    BY <2>2, <2>4 DEF DiskWalks
<1>6. \/ DeleteFile(e.name, "rmdir")
      \/ UNCHANGED <<fat, ents>>
      \/ /\ fat[e.first] = END /\ fat' = SetBoth(fat, e.first, FREE)
         /\ ents' = RootName(ents, e.first, "")
  BY DEF rmdirScan
<1> QED
  BY <1>3, <1>4, <1>5, <1>6

(***************************************************************************)
(* dowrite(): the last block of the chain is not linked, so it is not the  *)
(* root, and what it is linked to is fresh.                                *)
(***************************************************************************)
LEMMA SpillRefs ==
  ASSUME NEW e \in Ents, RootRefs(e), NEW t, NEW b \in Int, NEW s \in NameText
  PROVE  RootRefs(Spilled(e, t, b, s))
  BY StoreNameRefs, Sizes DEF Spilled

LEMMA StrayRefs ==
  ASSUME NEW e \in Ents, RootRefs(e), NEW t, NEW i
  PROVE  RootRefs(StrayEnts(e, t, i))
<1> DEFINE at == [blk |-> StrayBlock, idx |-> DS - 1]
           l == HalfWord * i + (e[StrayBlock][DS - 1].len % HalfWord)
<1>1. at \in Pointers
  BY Sizes DEF Pointers
<1>2. StrayEnts(e, t, i) = IF t[StrayBlock] = NoText THEN PutLen(e, at, l) ELSE e
  BY DEF StrayEnts, PutLen
<1> HIDE DEF at, l
<1> QED
  BY <1>1, <1>2, PutLenRefs

LEMMA dowriteWalks ==
  ASSUME TypeInv, WalkInv, mode = "edit", NEW e \in Ents, RootRefs(e), NEW n,
         NEW spill \in {"no", "", JunkName}, NEW fatError \in BOOLEAN,
         text \in Texts, edit.id \in TextIds, edit.full \in 0..MaxFlush,
         n \in 0..BlockSize,
         dowrite(e, n, spill, fatError)
  PROVE  DiskWalks'
<1> DEFINE first == slots[fp].first
           t(last) == Filled(last, n)
           fe(last) == IF spill = "no" THEN e ELSE Spilled(e, t(last), last + 1, spill)
           ft(last) == IF spill = "no" THEN t(last) ELSE SpilledText(t(last), last + 1)
<1>0. Running
  BY DEF Running
<1>1. /\ TypeOK /\ Walkable(fat) /\ fat[Root] = Root /\ RootRefs(ents)
      /\ fat \in Fats
  BY <1>0, RunningFacts
<1>2. first \in 0..NB
  BY <1>1, SlotSelected DEF TypeInv, Editing, Slot
<1>3. PICK last \in Chain(fat, first) :
        /\ ~ IsLink(fat, last)
        /\ \/ ents' = e /\ UNCHANGED fat
           \/ ents' = fe(last) /\ UNCHANGED fat
           \/ \E i \in 0..NB :
                /\ i < NB => fat[i] = FREE
                /\ \/ /\ fat' = SetBoth(SetBoth(fat, last, i), i, END)
                      /\ ents' = RootName(RootName(fe(last), last, LinkName(i)), i, JunkName)
                   \/ /\ fat' = SetBoth([fat EXCEPT ![last] = i], i, END)
                      /\ ents' = RootName(StrayEnts(fe(last), ft(last), i), i, JunkName)
  BY DEF dowrite, StopsAt
<1>4. last \in (0..NB) \ {Root}
  <2>1. last \in 0..NB
    BY <1>1, <1>2, ChainClosed
  <2>2. IsLink(fat, Root)
    BY <1>1, RootIsLink DEF IsLink
  <2> QED
    BY <1>3, <2>1, <2>2
<1>5. t(last) \in Texts
  <2>1. [id |-> edit.id, chunk |-> edit.full, n |-> n] \in Text
    BY DEF Text
  <2> QED
    BY <2>1 DEF Filled, Texts
<1>6. fe(last) \in Ents /\ RootRefs(fe(last)) /\ ft(last) \in Texts
  <2>1. last + 1 \in Int
    BY <1>4, CellIsInt
  <2>2. spill # "no" => spill \in NameText
    BY DEF NameText
  <2> QED
    BY <1>5, <2>1, <2>2, SpillType, SpillRefs
<1> HIDE DEF t, fe, ft
<1>7. CASE (ents' = e \/ ents' = fe(last)) /\ UNCHANGED fat
  BY <1>1, <1>6, <1>7 DEF DiskWalks
<1>8. CASE ~ ((ents' = e \/ ents' = fe(last)) /\ UNCHANGED fat)
  <2>1. PICK i \in 0..NB :
          /\ i < NB => fat[i] = FREE
          /\ \/ /\ fat' = SetBoth(SetBoth(fat, last, i), i, END)
                /\ ents' = RootName(RootName(fe(last), last, LinkName(i)), i, JunkName)
             \/ /\ fat' = SetBoth([fat EXCEPT ![last] = i], i, END)
                /\ ents' = RootName(StrayEnts(fe(last), ft(last), i), i, JunkName)
    BY <1>3, <1>8
  <2>2. i \in (0..NB) \ {Root}
    BY <1>1, <2>1, FreshNotRoot
  <2>3. PICK g : /\ g = SetBoth(fat, last, i) \/ g = [fat EXCEPT ![last] = i]
                 /\ fat' = SetBoth(g, i, END)
    BY <2>1
  <2>4. g \in Fats /\ g[Root] = Root
    <3>1. i \in Link
      BY EndIsLink
    <3>2. g \in Fats
      <4>1. [fat EXCEPT ![last] = i] \in Fats
        BY <1>1, <3>1 DEF Fats
      <4>2. SetBoth(fat, last, i) \in Fats
        BY <1>1, <1>4, <3>1, SetBothType
      <4> QED
        BY <2>3, <4>1, <4>2
    <3>3. SetBoth(fat, last, i)[Root] = Root
      BY <1>1, <1>4, SetBothRoot
    <3>4. [fat EXCEPT ![last] = i][Root] = Root
      BY <1>1, <1>4, OneCellRoot
    <3> QED
      BY <2>3, <3>2, <3>3, <3>4
  <2>5. Walkable(fat') /\ fat'[Root] = Root
    BY <1>1, <1>4, <2>2, <2>3, <2>4, LinkedWalkable, SetBothRoot
  <2>6. JunkName \in NameText /\ LinkName(i) \in NameText
    BY DEF NameText, LinkName
  <2>7. RootRefs(ents')
    BY <1>6, <2>1, <2>6, RootNameType, RootNameRefs, StrayType, StrayRefs
  <2> QED
    BY <2>5, <2>7 DEF DiskWalks
<1> QED
  BY <1>3, <1>7, <1>8

LEMMA EditFacts ==
  ASSUME TypeInv, mode = "edit"
  PROVE  /\ text \in Texts /\ edit.id \in TextIds /\ edit.full \in 0..MaxFlush
         /\ slots[fp] \in Slot /\ Running /\ fp # -1 /\ ents \in Ents
<1>1. TypeOK /\ fp # -1 /\ edit.id \in TextIds
  BY DEF TypeInv, Editing
<1>2. slots[fp] \in Slot
  BY <1>1, SlotSelected
<1>3. text \in Texts /\ edit.full \in 0..MaxFlush /\ ents \in Ents
  BY <1>1, TypeParts DEF DiskTyped, RestTyped, Edits
<1> QED
  BY <1>1, <1>2, <1>3 DEF Running

LEMMA writeFlushWalks == ASSUME TypeInv, WalkInv, writeFlush PROVE DiskWalks'
<1>0. mode = "edit"
  BY DEF writeFlush
<1>1. CASE Wild
  BY <1>0, <1>1, EditFacts, RunningFacts DEF Wild, DiskWalks
<1>2. CASE ~ Wild
  <2>1. PICK spill \in Spills(BlockSize), fatError \in BOOLEAN :
          dowrite(ents, BlockSize, spill, fatError)
    BY <1>2 DEF writeFlush
  <2>2. spill \in {"no", "", JunkName}
    BY DEF Spills
  <2>3. BlockSize \in 0..BlockSize
    BY ShellFacts
  <2>4. RootRefs(ents)
    BY DEF WalkInv, DiskWalks
  <2> QED
    BY <1>0, <2>1, <2>2, <2>3, <2>4, EditFacts, dowriteWalks
<1> QED
  BY <1>1, <1>2

LEMMA writeQuitWalks ==
  ASSUME TypeInv, WalkInv, NEW n \in 0..BlockSize, NEW spill \in {"no", "", JunkName},
         writeQuit(n, spill)
  PROVE  DiskWalks'
<1>0. mode = "edit"
  BY DEF writeQuit
<1>1. CASE Wild
  BY <1>0, <1>1, EditFacts, RunningFacts DEF Wild, DiskWalks
<1>2. CASE ~ Wild
  <2> DEFINE at == At(slots[fp].dirno, slots[fp].diroff)
             len == (slots[fp].len + n) % LengthMod
             e == PutLen(ents, at, len)
  <2>1. DirLike(at.blk)
    BY <1>2 DEF writeQuit
  <2>2. PICK fatError \in BOOLEAN : dowrite(e, n, spill, fatError)
    BY <1>2 DEF writeQuit
  <2>3. at \in Pointers
    <3>1. slots[fp].dirno \in 0..NB /\ slots[fp].diroff \in 0..DS
      BY <1>0, EditFacts DEF Slot
    <3>2. slots[fp].dirno \in Int
      BY <3>1, CellIsInt
    <3> QED
      BY <2>1, <3>1, <3>2, AtType DEF DirLike
  <2>4. len \in 0..(LengthMod - 1)
    BY <1>0, EditFacts, SlotSumType DEF TypeInv
  <2>5. RootRefs(ents)
    BY DEF WalkInv, DiskWalks
  <2>6. e \in Ents /\ RootRefs(e)
    BY <1>0, <2>3, <2>4, <2>5, EditFacts, PutLenType, PutLenRefs
  <2> HIDE DEF e
  <2> QED
    BY <1>0, <2>2, <2>6, EditFacts, dowriteWalks
<1> QED
  BY <1>1, <1>2

-----------------------------------------------------------------------------
(***************************************************************************)
(* The start and the end of a run, and the image.                          *)
(***************************************************************************)
LEMMA ImageFields ==
  ASSUME NEW s, NEW f, NEW e, NEW t
  PROVE  /\ Image(s, f, e, t).state = s /\ Image(s, f, e, t).fat = f
         /\ Image(s, f, e, t).ents = e
  BY DEF Image

LEMMA NewImageStored == Stored(NewImage.fat, NewImage.ents)
<1>1. NewImage.fat = FormattedFat /\ NewImage.ents = FormattedEnts(ZeroEnts)
  BY ImageFields DEF NewImage
<1>2. RootRefs(FormattedEnts(ZeroEnts))
  BY ZeroType, ZeroRefs, FormattedRefs
<1> QED
  BY <1>1, <1>2, FormattedWalkable DEF Stored

LEMMA startsysWalks == ASSUME TypeInv, WalkInv, startsys PROVE WalkInv'
<1>1. PICK v : /\ Stored(v.fat, v.ents)
               /\ host' = v /\ fat' = v.fat /\ ents' = v.ents
               /\ slots' = [slots EXCEPT ![0] = RootSlot(v.ents)]
  <2>1. CASE host.state = "none"
    BY <2>1, NewImageStored DEF startsys
  <2>2. CASE host.state # "none"
    <3>1. host.state = "saved"
      BY <2>2, TypeParts DEF startsys, TypeInv, RestTyped, ImageType
    <3>2. Stored(host.fat, host.ents)
      BY <3>1 DEF WalkInv, HostWalks
    <3> QED
      BY <2>2, <3>2 DEF startsys
  <2> QED
    BY <2>1, <2>2
<1>2. DiskWalks'
  BY <1>1 DEF DiskWalks, Stored
<1>3. HostWalks'
  BY <1>1 DEF HostWalks
<1>4. SlotRefs'
  <2>1. RootSlot(v.ents).attr = DIR
    BY DEF RootSlot
  <2>2. slots \in Slots
    BY TypeParts DEF TypeInv, RestTyped
  <2> QED
    BY <1>1, <2>1, <2>2, AttrsDiffer DEF WalkInv, SlotRefs, Slots
<1> QED
  BY <1>2, <1>3, <1>4 DEF WalkInv

LEMMA ForgetWalks == ASSUME ForgetMemory PROVE DiskWalks' /\ SlotRefs'
<1>1. DiskWalks'
  BY ZeroRefs DEF ForgetMemory, DiskWalks, Running
<1>2. EmptySlot.attr # FILE
  BY AttrsDiffer DEF EmptySlot
<1>3. SlotRefs'
  BY <1>2 DEF ForgetMemory, SlotRefs
<1> QED
  BY <1>1, <1>3

LEMMA EndOfRunWalks ==
  ASSUME TypeInv, WalkInv, existsys \/ CrashWhileSaving \/ Crash PROVE WalkInv'
<1>1. ForgetMemory
  BY DEF existsys, CrashWhileSaving, Crash
<1>2. CASE existsys
  <2>1. Running
    BY <1>2 DEF existsys, Typed, Running
  <2>2. host'.fat = fat /\ host'.ents = ents
    BY <1>2, ImageFields DEF existsys
  <2>3. HostWalks'
    BY <2>1, <2>2, RunningFacts DEF HostWalks, Stored
  <2> QED
    BY <1>1, <2>3, ForgetWalks DEF WalkInv
<1>3. CASE CrashWhileSaving
  <2>1. host'.state # "saved"
    BY <1>3, ImageFields DEF CrashWhileSaving, TornImage, NoImage, Image
  <2> QED
    BY <1>1, <2>1, ForgetWalks DEF WalkInv, HostWalks
<1>4. CASE Crash
  BY <1>1, <1>4, ForgetWalks DEF WalkInv, HostWalks, Crash
<1> QED
  BY <1>2, <1>3, <1>4

LEMMA formatWalks == ASSUME TypeInv, WalkInv, format PROVE WalkInv'
<1>1. Stored(fat', ents')
  <2>1. Running
    BY DEF format, Typed, Running
  <2> QED
    BY <2>1, RunningFacts, FormattedRefs, FormattedWalkable DEF format, Stored
<1>2. host'.fat = fat' /\ host'.ents = ents'
  BY ImageFields DEF format
<1>3. SlotRefs'
  BY DEF format, WalkInv, SlotRefs
<1> QED
  BY <1>1, <1>2, <1>3 DEF WalkInv, DiskWalks, HostWalks, Stored

-----------------------------------------------------------------------------
(***************************************************************************)
(* The open files.                                                         *)
(***************************************************************************)
LEMMA SlotStored ==
  ASSUME TypeInv, WalkInv, NEW j, NEW x,
         x.attr = FILE => x.first # Root, slots' = [slots EXCEPT ![j] = x]
  PROVE  SlotRefs'
<1>1. slots \in Slots
  BY TypeParts DEF TypeInv, RestTyped
<1> QED
  BY <1>1 DEF WalkInv, SlotRefs, Slots

LEMMA openFileSlots ==
  ASSUME TypeInv, WalkInv, NEW n \in Names, openFile(n) PROVE SlotRefs'
<1> DEFINE e(k) == ents[cur.first][k]
           new(k) == [name |-> e(k).name, attr |-> e(k).attr, first |-> e(k).first,
                      len |-> e(k).len, dirno |-> cur.first, diroff |-> k]
<1>1. PICK k \in Index, j \in 0..MaxOpen :
        \/ slots' = [slots EXCEPT ![fp] = new(k)]
        \/ slots' = [slots EXCEPT ![j] = new(k)]
        \/ slots' = slots
  BY DEF openFile
<1>2. cur.first \in Block /\ RootRefs(ents)
  BY DEF openFile, DirLike, WalkInv, DiskWalks
<1>3. e(k).attr = FILE => e(k).first # Root
  BY <1>2, AttrsDiffer DEF RootRefs
<1>4. new(k).attr = FILE => new(k).first # Root
  BY <1>3
<1> HIDE DEF new
<1>5. CASE slots' = slots
  BY <1>5 DEF WalkInv, SlotRefs
<1> QED
  BY <1>1, <1>4, <1>5, SlotStored

LEMMA cdSlots ==
  ASSUME TypeInv, WalkInv, NEW p \in PathArgs, cd(p) PROVE SlotRefs'
<1>1. CASE Wild
  BY <1>1 DEF Wild, WalkInv, SlotRefs
<1>2. CASE ~ Wild
  <2> DEFINE parent == ents[Resolve(cur.first, p)][1].first
             e(off) == EntryAt(ents, At(parent, off))
             new(off) == [name |-> e(off).name, attr |-> DIR, first |-> e(off).first,
                          len |-> e(off).len, dirno |-> ents[parent][0].first,
                          diroff |-> off]
  <2>1. PICK off \in 0..DS : slots' = [slots EXCEPT ![fp] = new(off)]
    BY <1>2 DEF cd
  <2>2. new(off).attr = DIR
    OBVIOUS
  <2> HIDE DEF new
  <2> QED
    BY <2>1, <2>2, AttrsDiffer, SlotStored
<1> QED
  BY <1>1, <1>2

LEMMA closeSlots == ASSUME TypeInv, WalkInv, close PROVE SlotRefs'
<1>1. EmptySlot.attr # FILE
  BY AttrsDiffer DEF EmptySlot
<1> QED
  BY <1>1, SlotStored DEF close

\* The edit mode changes a slot's length only.
LEMMA LenStored ==
  ASSUME TypeInv, WalkInv, NEW l, slots' = [slots EXCEPT ![fp].len = l]
  PROVE  SlotRefs'
<1>1. slots \in Slots
  BY TypeParts DEF TypeInv, RestTyped
<1>2. ASSUME NEW j \in 0..(MaxOpen - 1)
      PROVE  slots'[j].attr = slots[j].attr /\ slots'[j].first = slots[j].first
  <2>1. slots[j] \in Slot
    BY <1>1 DEF Slots
  <2>2. slots'[j] = slots[j] \/ slots'[j] = [slots[j] EXCEPT !.len = l]
    BY <1>1 DEF Slots
  <2> QED
    BY <2>1, <2>2 DEF Slot
<1> QED
  BY <1>2 DEF WalkInv, SlotRefs

LEMMA EditSlots ==
  ASSUME TypeInv, WalkInv,
         \/ \E id \in TextIds : write(id)
         \/ writeFlush
         \/ \E n \in 0..BlockSize, spill \in {"no", "", JunkName} : writeQuit(n, spill)
  PROVE  SlotRefs'
<1>1. CASE slots' = slots
  BY <1>1 DEF WalkInv, SlotRefs
<1>2. CASE \E l : slots' = [slots EXCEPT ![fp].len = l]
  BY <1>2, LenStored
<1>3. slots' = slots \/ \E l : slots' = [slots EXCEPT ![fp].len = l]
  BY DEF write, writeFlush, writeQuit, Wild
<1> QED
  BY <1>1, <1>2, <1>3

-----------------------------------------------------------------------------
(***************************************************************************)
(* Every step.                                                             *)
(***************************************************************************)
LEMMA InitWalks == ASSUME Init PROVE WalkInv
<1>1. DiskWalks
  BY ZeroRefs DEF Init, DiskWalks, Running
<1>2. SlotRefs
  <2>1. EmptySlot.attr # FILE
    BY AttrsDiffer DEF EmptySlot
  <2> QED
    BY <2>1 DEF Init, SlotRefs
<1>3. host.state # "saved"
  BY ImageFields DEF Init, NoImage
<1> QED
  BY <1>1, <1>2, <1>3 DEF WalkInv, HostWalks

\* The steps that leave the disk, the slots and the image alone, and do not
\* wake a program that is off or wild.
LEMMA SameWalks ==
  ASSUME WalkInv, UNCHANGED <<fat, ents, host>>, Running' => Running, SlotRefs'
  PROVE  WalkInv'
  BY DEF WalkInv, DiskWalks, HostWalks

LEMMA WildWalks == ASSUME WalkInv, Wild PROVE WalkInv'
<1>1. SlotRefs'
  BY DEF Wild, WalkInv, SlotRefs
<1> QED
  BY <1>1, SameWalks DEF Wild, Running

LEMMA WalkStep == ASSUME TypeInv, WalkInv, [Next]_vars PROVE WalkInv'
<1>0. SlotRefs /\ HostWalks
  BY DEF WalkInv
<1>1. CASE startsys
  BY <1>1, startsysWalks
<1>2. CASE startsysTorn \/ LostDirectory
  BY <1>2, WildWalks DEF startsysTorn, LostDirectory
<1>3. CASE existsys \/ CrashWhileSaving \/ Crash
  BY <1>3, EndOfRunWalks
<1>4. CASE format
  BY <1>4, formatWalks
<1>5. CASE close
  BY <1>5, closeSlots, SameWalks DEF close, Running
<1>6. CASE rmdirPop
  <2>1. UNCHANGED <<slots, host>>
    BY <1>6 DEF rmdirPop, Wild
  <2> QED
    BY <1>0, <1>6, <2>1, rmdirPopWalks DEF WalkInv, SlotRefs, HostWalks
<1>7. CASE rmdirScan
  <2>1. UNCHANGED <<slots, host>>
    BY <1>7 DEF rmdirScan
  <2> QED
    BY <1>0, <1>7, <2>1, rmdirScanWalks DEF WalkInv, SlotRefs, HostWalks
<1>8. CASE rmdirDone
  <2>1. UNCHANGED <<fat, ents, slots, host>> /\ Running
    BY <1>8 DEF rmdirDone, Running
  <2> QED
    BY <1>0, <2>1, SameWalks DEF SlotRefs
<1>9. CASE writeFlush
  <2>1. UNCHANGED host
    BY <1>9 DEF writeFlush, Wild
  <2> QED
    BY <1>0, <1>9, <2>1, writeFlushWalks, EditSlots DEF WalkInv, HostWalks
<1>10. ASSUME NEW n \in Names, mkdir(n) PROVE WalkInv'
  <2>1. UNCHANGED <<slots, host>>
    BY <1>10 DEF mkdir, Wild
  <2> QED
    BY <1>0, <1>10, <2>1, mkdirWalks DEF WalkInv, SlotRefs, HostWalks
<1>11. ASSUME NEW n \in Names, create(n) PROVE WalkInv'
  <2>1. UNCHANGED <<slots, host>>
    BY <1>11 DEF create
  <2> QED
    BY <1>0, <1>11, <2>1, createWalks DEF WalkInv, SlotRefs, HostWalks
<1>12. ASSUME NEW n \in Names, openFile(n) PROVE WalkInv'
  <2>1. UNCHANGED <<fat, ents, host>> /\ Running
    BY <1>12 DEF openFile, Typed, Running
  <2> QED
    BY <1>12, <2>1, openFileSlots, SameWalks
<1>13. ASSUME NEW n \in Names, rmfile(n) PROVE WalkInv'
  <2>1. UNCHANGED <<slots, host>> /\ Running /\ DirLike(cur.first)
        /\ DeleteFile(n, "shell")
    BY <1>13 DEF rmfile, Typed, Running
  <2> QED
    BY <1>0, <2>1, DeleteFileWalks DEF WalkInv, SlotRefs, HostWalks
<1>14. ASSUME NEW n \in Names, rmdir(n) PROVE WalkInv'
  <2>1. UNCHANGED <<slots, host>>
    BY <1>14 DEF rmdir, Wild
  <2> QED
    BY <1>0, <1>14, <2>1, rmdirWalks DEF WalkInv, SlotRefs, HostWalks
<1>15. ASSUME NEW p \in PathArgs, cd(p) PROVE WalkInv'
  <2>1. UNCHANGED <<fat, ents, host>> /\ Running
    BY <1>15 DEF cd, Wild, Typed, Running
  <2> QED
    BY <1>15, <2>1, cdSlots, SameWalks
<1>16. ASSUME NEW id \in TextIds, write(id) PROVE WalkInv'
  <2>1. UNCHANGED <<fat, ents, host>> /\ Running
    BY <1>16 DEF write, Wild, Typed, Running
  <2> QED
    BY <1>16, <2>1, EditSlots, SameWalks
<1>17. ASSUME NEW n \in 0..BlockSize, NEW spill \in {"no", "", JunkName},
              writeQuit(n, spill)
       PROVE  WalkInv'
  <2>1. UNCHANGED host
    BY <1>17 DEF writeQuit, Wild
  <2> QED
    BY <1>0, <1>17, <2>1, writeQuitWalks, EditSlots DEF WalkInv, HostWalks
<1>18. CASE UNCHANGED vars
  <2>1. UNCHANGED <<fat, ents, slots, host, mode>>
    BY <1>18 DEF vars
  <2> QED
    BY <1>0, <2>1, SameWalks DEF SlotRefs, Running
<1> QED
  BY <1>1, <1>2, <1>3, <1>4, <1>5, <1>6, <1>7, <1>8, <1>9, <1>10, <1>11, <1>12,
     <1>13, <1>14, <1>15, <1>16, <1>17, <1>18 DEF Next, Command, RmdirStep

\* The tables, the entries, the open files and the image keep every walk finite.
THEOREM WalksKept == Spec => []WalkInv
<1>1. Init => WalkInv
  BY InitWalks
<1>2. TypeInv /\ WalkInv /\ [Next]_vars => WalkInv'
  BY WalkStep
<1> QED
  BY <1>1, <1>2, TypesKept, PTL DEF Spec

\* Every walk of read(), dowrite() and rmfile() along the first table ends, and
\* none of them starts at the root's cell.
THEOREM WalksAlwaysEnd == Spec => []WalksEnd
<1>1. TypeInv /\ WalkInv => WalksEnd
  <2> SUFFICES ASSUME TypeInv, WalkInv PROVE WalksEnd
    OBVIOUS
  <2>1. fat \in Fats /\ Walkable(fat) /\ RootRefs(ents) /\ SlotRefs
    BY TypeParts DEF TypeInv, DiskTyped, WalkInv, DiskWalks
  <2>2. \A b \in 0..NB : b = Root \/ EndsFrom(b)
    BY <2>1, ChainEnds DEF EndsFrom
  <2> QED
    BY <2>1, <2>2 DEF WalksEnd, RootRefs, SlotRefs
<1> QED
  BY <1>1, TypesKept, WalksKept, PTL
=============================================================================
