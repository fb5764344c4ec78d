-------------------------- MODULE FileSystemProofs --------------------------
(***************************************************************************)
(* Proofs about every session of FileSystem, whatever the sizes of the     *)
(* disk and of the program's arrays: the types, and that open() never      *)
(* needs the slot before the first.                                        *)
(***************************************************************************)
EXTENDS FileSystem, TLAPS

-----------------------------------------------------------------------------
(***************************************************************************)
(* Facts about the operators of Volume: what keeps the type of the tables  *)
(* and of the blocks, and why a walk along the first table ends.           *)
(***************************************************************************)
Fats == [Table -> Link]
Ents == [Block -> [Index -> Entry]]
Pointers == [blk : Block, idx : Index]

\* The sizes as plain arithmetic, for the solver.
LEMMA Sizes == /\ NB \in Nat /\ NB > 5 /\ DS \in Nat /\ DS > 2
               /\ HalfWord \in Nat /\ HalfWord > NB + 2
               /\ Root = 5 /\ FREE = 0 /\ END \in Nat /\ END > NB + 1
               /\ StrayBlock \in Block /\ Root \in Block /\ Root \in 0..NB
               /\ 0 \in Index /\ 1 \in Index /\ DS - 1 \in Index
  BY SizesAssumption DEF Root, FREE, END, Block, Index

LEMMA CellIsInt == \A x \in 0..NB : x \in Int /\ x + 1 \in Int
  BY SizesAssumption

\* A block number written over the upper half of an unsigned int leaves an
\* unsigned int.
LEMMA HalfWords ==
  ASSUME NEW h \in Nat, NEW i \in Nat, i < h, NEW r \in 0..(h - 1)
  PROVE  h * i + r \in 0..(h * h - 1)
<1>1. h * (i + 1) <= h * h
  <2>1. PICK d \in Nat : h = (i + 1) + d
    <3>1. h - (i + 1) \in Nat
      OBVIOUS
    <3> QED
      BY <3>1
  <2>2. h * d >= 0 /\ h * d \in Nat
    OBVIOUS
  <2>3. h * h = h * (i + 1) + h * d
    BY <2>1
  <2> QED
    BY <2>2, <2>3
<1>2. h * (i + 1) = h * i + h
  OBVIOUS
<1>3. h * i >= 0 /\ h * i \in Nat /\ h * h \in Nat
  OBVIOUS
<1> QED
  BY <1>1, <1>2, <1>3

LEMMA LengthModPositive == LengthMod \in Nat /\ LengthMod > 2
<1>1. HalfWord \in Nat /\ HalfWord > 2
  BY Sizes
<1>2. HalfWord * HalfWord \in Nat /\ HalfWord * HalfWord >= HalfWord
  <2>1. HalfWord * 0 + (HalfWord - 1) \in 0..(HalfWord * HalfWord - 1)
    BY <1>1, HalfWords
  <2> QED
    BY <1>1, <2>1
<1> QED
  BY <1>1, <1>2 DEF LengthMod

\* The wrap of an unsigned int: length++ and length-- keep the width.
LEMMA IncDecType ==
  ASSUME NEW l \in 0..(LengthMod - 1)
  PROVE  Inc(l) \in 0..(LengthMod - 1) /\ Dec(l) \in 0..(LengthMod - 1)
  BY LengthModPositive DEF Inc, Dec

LEMMA EntryType ==
  ASSUME NEW nm \in NameText, NEW a \in {0, DIR, FILE}, NEW i \in 0..NB,
         NEW l \in 0..(LengthMod - 1)
  PROVE  [name |-> nm, attr |-> a, first |-> i, len |-> l] \in Entry
  BY DEF Entry

LEMMA BlankType == Blank \in Entry
  BY Sizes, LengthModPositive DEF Blank, Entry, NameText

\* The entry next to the last one of a block is the first of the next block.
LEMMA AtType ==
  ASSUME NEW b \in Int, NEW k \in 0..DS, At(b, k).blk \in Block
  PROVE  At(b, k) \in Pointers
  BY Sizes DEF At, Pointers, Index

LEMMA EntryAtType ==
  ASSUME NEW e \in Ents, NEW at \in Pointers
  PROVE  EntryAt(e, at) \in Entry
  BY DEF Ents, Pointers, EntryAt

LEMMA PutEntryType ==
  ASSUME NEW e \in Ents, NEW at \in Pointers, NEW x \in Entry
  PROVE  PutEntry(e, at, x) \in Ents
  BY DEF Ents, Pointers, PutEntry

\* A name, or a length, stored in an entry.
LEMMA EntryFields ==
  ASSUME NEW x \in Entry
  PROVE  /\ \A nm \in NameText : [x EXCEPT !.name = nm] \in Entry
         /\ \A l \in 0..(LengthMod - 1) : [x EXCEPT !.len = l] \in Entry
  BY DEF Entry

LEMMA StoreNameType ==
  ASSUME NEW e \in Ents, NEW b \in Int, NEW k \in Index, NEW nm \in NameText
  PROVE  [e EXCEPT ![b][k].name = nm] \in Ents
<1>1. CASE b \in Block
  <2>1. e[b] \in [Index -> Entry] /\ e[b][k] \in Entry
    BY <1>1 DEF Ents
  <2>2. [e[b][k] EXCEPT !.name = nm] \in Entry
    BY <2>1, EntryFields
  <2> QED
    BY <2>1, <2>2 DEF Ents
<1>2. CASE b \notin Block
  BY <1>2 DEF Ents
<1> QED
  BY <1>1, <1>2

LEMMA PutLenType ==
  ASSUME NEW e \in Ents, NEW at \in Pointers, NEW l \in 0..(LengthMod - 1)
  PROVE  PutLen(e, at, l) \in Ents
<1>1. at.blk \in Block /\ at.idx \in Index
  BY DEF Pointers
<1>2. e[at.blk] \in [Index -> Entry] /\ e[at.blk][at.idx] \in Entry
  BY <1>1 DEF Ents
<1>3. [e[at.blk][at.idx] EXCEPT !.len = l] \in Entry
  BY <1>2, EntryFields
<1> QED
  BY <1>1, <1>2, <1>3 DEF Ents, PutLen

LEMMA IncLenType ==
  ASSUME NEW e \in Ents, NEW at \in Pointers
  PROVE  IncLen(e, at) \in Ents /\ DecLen(e, at) \in Ents
<1>1. EntryAt(e, at).len \in 0..(LengthMod - 1)
  BY EntryAtType DEF Entry
<1> QED
  BY <1>1, IncDecType, PutLenType DEF IncLen, DecLen

LEMMA RootNameType ==
  ASSUME NEW e \in Ents, NEW i, NEW nm \in NameText
  PROVE  RootName(e, i, nm) \in Ents
  BY StoreNameType, Sizes DEF RootName

LEMMA DottedType ==
  ASSUME NEW e \in Ents, NEW b \in 0..NB, NEW parent \in 0..NB
  PROVE  Dotted(e, b, parent) \in Ents
<1>1. /\ [name |-> ".", attr |-> DIR, first |-> b, len |-> 1] \in Entry
      /\ [name |-> "..", attr |-> DIR, first |-> parent, len |-> 1] \in Entry
  BY LengthModPositive DEF Entry, NameText
<1> QED
  BY <1>1, Sizes DEF Dotted, Ents

\* Both tables lie within the cells that exist, the shared cell NB included.
LEMMA SetBothType ==
  ASSUME NEW f \in Fats, NEW i \in 0..NB, NEW v \in Link
  PROVE  SetBoth(f, i, v) \in Fats
  BY Sizes DEF SetBoth, Fats, Table

LEMMA FreeCellsType ==
  ASSUME NEW f \in Fats, NEW S PROVE FreeCells(f, S) \in Fats
  BY DEF FreeCells, Fats, Link

LEMMA ClearBlocksType ==
  ASSUME NEW e \in Ents, NEW S PROVE ClearBlocks(e, S) \in Ents
  BY BlankType DEF ClearBlocks, Ents

LEMMA FormattedType ==
  ASSUME NEW e \in Ents
  PROVE  FormattedFat \in Fats /\ FormattedEnts(e) \in Ents
<1>1. FormattedFat \in Fats
  BY Sizes DEF FormattedFat, Fats, Link
<1>2. /\ [name |-> ".", attr |-> DIR, first |-> Root, len |-> 2] \in Entry
      /\ [name |-> "..", attr |-> DIR, first |-> Root, len |-> 1] \in Entry
  BY LengthModPositive, Sizes, SizesAssumption DEF Entry, NameText, LengthMod
<1>3. FormattedEnts(e) \in Ents
  <2> DEFINE swept == [b \in Block |-> [k \in Index |->
                 IF b \in Root..LastWiped \/ (b = LastWiped + 1 /\ k < PartWiped)
                 THEN Blank ELSE e[b][k]]]
  <2>1. swept \in Ents
    BY BlankType DEF Ents
  <2>2. FormattedEnts(e) =
          [swept EXCEPT
            ![Root][0] = [name |-> ".", attr |-> DIR, first |-> Root, len |-> 2],
            ![Root][1] = [name |-> "..", attr |-> DIR, first |-> Root, len |-> 1]]
    BY DEF FormattedEnts
  <2> HIDE DEF swept
  <2> QED
    BY <1>2, <2>1, <2>2, Sizes DEF Ents
<1> QED
  BY <1>1, <1>3

-----------------------------------------------------------------------------
(***************************************************************************)
(* Why walks end.  Every set of cells without the root's has a cell whose  *)
(* link leaves the set: so a chain, which no link leaves, has a last cell. *)
(* Only the root's cell may hold the root's number.                        *)
(***************************************************************************)
Acyclic(f) ==
    \A S \in SUBSET ((0..NB) \ {Root}) :
        S # {} => \E x \in S : ~ (IsLink(f, x) /\ f[x] \in S)
RootAlone(f) == \A x \in (0..NB) \ {Root} : f[x] # Root
Walkable(f) == Acyclic(f) /\ RootAlone(f)

LEMMA LinkRange ==
  ASSUME NEW f \in Fats, NEW x \in 0..NB, IsLink(f, x)
  PROVE  f[x] \in 1..NB
  BY Sizes DEF IsLink, Fats, Table, Link

\* A chain holds its start, stays within the table's cells, follows links.
LEMMA ChainClosed ==
  ASSUME NEW f \in Fats, NEW b \in 0..NB
  PROVE  /\ b \in Chain(f, b) /\ Chain(f, b) \subseteq 0..NB
         /\ \A x \in Chain(f, b) : IsLink(f, x) => f[x] \in Chain(f, b)
<1> DEFINE cand == {b} \cup {f[x] : x \in {y \in 0..NB : IsLink(f, y)}}
<1>1. Chain(f, b) = {x \in cand : \A S \in SUBSET cand :
                                      b \in S /\ Closed(f, S) => x \in S}
  BY DEF Chain
<1>2. cand \subseteq 0..NB
  BY LinkRange
<1>3. \A x \in cand : IsLink(f, x) => f[x] \in cand
  BY <1>2
<1> HIDE DEF cand
<1>4. b \in cand
  BY DEF cand
<1>5. ASSUME NEW x \in Chain(f, b), IsLink(f, x) PROVE f[x] \in Chain(f, b)
  BY <1>1, <1>3, <1>5 DEF Closed
<1> QED
  BY <1>1, <1>2, <1>4, <1>5

\* A chain that starts off the root never gets there.
LEMMA ChainAvoidsRoot ==
  ASSUME NEW f \in Fats, NEW b \in (0..NB) \ {Root}, RootAlone(f)
  PROVE  Root \notin Chain(f, b)
<1> DEFINE cand == {b} \cup {f[x] : x \in {y \in 0..NB : IsLink(f, y)}}
<1>1. Chain(f, b) = {x \in cand : \A S \in SUBSET cand :
                                      b \in S /\ Closed(f, S) => x \in S}
  BY DEF Chain
<1>2. cand \subseteq 0..NB
  BY LinkRange
<1>3. Closed(f, cand \ {Root})
  <2> SUFFICES ASSUME NEW x \in cand \ {Root}, IsLink(f, x)
               PROVE  f[x] \in cand \ {Root}
    BY DEF Closed
  <2>1. x \in (0..NB) \ {Root}
    BY <1>2
  <2> QED
    BY <2>1 DEF RootAlone
<1>4. b \in cand \ {Root}
  OBVIOUS
<1> HIDE DEF cand
<1>5. cand \ {Root} \in SUBSET cand
  OBVIOUS
<1> QED
  BY <1>1, <1>3, <1>4, <1>5

\* So it reaches a cell that is no link.
LEMMA ChainEnds ==
  ASSUME NEW f \in Fats, NEW b \in (0..NB) \ {Root}, Walkable(f)
  PROVE  \E last \in Chain(f, b) : ~ IsLink(f, last)
<1>1. /\ b \in Chain(f, b) /\ Chain(f, b) \subseteq 0..NB
      /\ \A x \in Chain(f, b) : IsLink(f, x) => f[x] \in Chain(f, b)
  BY ChainClosed
<1>2. Root \notin Chain(f, b)
  BY ChainAvoidsRoot DEF Walkable
<1>3. Chain(f, b) \in SUBSET ((0..NB) \ {Root}) /\ Chain(f, b) # {}
  BY <1>1, <1>2
<1>4. PICK x \in Chain(f, b) : ~ (IsLink(f, x) /\ f[x] \in Chain(f, b))
  BY <1>3 DEF Walkable, Acyclic
<1> QED
  BY <1>1, <1>4

(***************************************************************************)
(* The commands change cells in three ways only: to FREE, to END, or to    *)
(* the number of a block whose own cell they set to END.                   *)
(***************************************************************************)
LEMMA WalkableStep ==
  ASSUME NEW f, NEW g, NEW i \in Int, i # Root, Walkable(f),
         \A x \in 0..NB : \/ g[x] = f[x]
                          \/ g[x] \in {FREE, END}
                          \/ g[x] = i /\ g[i] = END
  PROVE  Walkable(g)
<1>1. RootAlone(g)
  BY Sizes DEF Walkable, RootAlone
<1>2. Acyclic(g)
  <2> SUFFICES ASSUME NEW S \in SUBSET ((0..NB) \ {Root}), S # {}
               PROVE  \E x \in S : ~ (IsLink(g, x) /\ g[x] \in S)
    BY DEF Acyclic
  <2>1. CASE i \in S /\ g[i] = END
    BY <2>1 DEF IsLink
  <2>2. CASE ~ (i \in S /\ g[i] = END)
    <3>1. PICK x \in S : ~ (IsLink(f, x) /\ f[x] \in S)
      BY DEF Walkable, Acyclic
    <3> QED
      BY <2>2, <3>1 DEF IsLink
  <2> QED
    BY <2>1, <2>2
<1> QED
  BY <1>1, <1>2 DEF Walkable

LEMMA SetBothWalkable ==
  ASSUME NEW f \in Fats, NEW i \in 0..NB, NEW v \in {FREE, END}, Walkable(f)
  PROVE  Walkable(SetBoth(f, i, v))
<1>1. \A x \in 0..NB : SetBoth(f, i, v)[x] = f[x] \/ SetBoth(f, i, v)[x] \in {FREE, END}
  BY Sizes DEF SetBoth, Fats, Table
<1>2. 0 # Root /\ 0 \in Int
  BY Sizes
<1> QED
  BY <1>1, <1>2, WalkableStep

\* dowrite() links a new last block i behind the old one.
LEMMA LinkedWalkable ==
  ASSUME NEW f \in Fats, NEW g \in Fats, NEW last \in 0..NB,
         NEW i \in (0..NB) \ {Root}, Walkable(f),
         g = SetBoth(f, last, i) \/ g = [f EXCEPT ![last] = i]
  PROVE  Walkable(SetBoth(g, i, END))
<1>1. \A x \in 0..NB : g[x] = f[x] \/ g[x] = i
  BY Sizes DEF SetBoth, Fats, Table
<1>2. SetBoth(g, i, END)[i] = END
  BY Sizes DEF SetBoth, Fats, Table
<1>3. \A x \in 0..NB : SetBoth(g, i, END)[x] = g[x] \/ SetBoth(g, i, END)[x] = END
  BY Sizes DEF SetBoth, Fats, Table
<1> QED
  BY <1>1, <1>2, <1>3, WalkableStep

LEMMA FreeCellsWalkable ==
  ASSUME NEW f \in Fats, NEW S, Walkable(f)
  PROVE  Walkable(FreeCells(f, S))
<1>1. \A x \in 0..NB : FreeCells(f, S)[x] = f[x] \/ FreeCells(f, S)[x] \in {FREE, END}
  BY Sizes DEF FreeCells, Table
<1>2. 0 # Root /\ 0 \in Int
  BY Sizes
<1> QED
  BY <1>1, <1>2, WalkableStep

\* A table without links: a fresh one, and the one format() makes.
LEMMA UnlinkedWalkable ==
  ASSUME NEW f, \A x \in (0..NB) \ {Root} : f[x] \in {FREE, END}
  PROVE  Walkable(f)
<1>1. \A x \in (0..NB) \ {Root} : ~ IsLink(f, x) /\ f[x] # Root
  BY Sizes DEF IsLink
<1>2. Acyclic(f)
  BY <1>1 DEF Acyclic
<1> QED
  BY <1>1, <1>2 DEF Walkable, RootAlone

LEMMA FormattedWalkable == Walkable(FormattedFat) /\ FormattedFat[Root] = Root
<1>1. \A x \in (0..NB) \ {Root} : FormattedFat[x] \in {FREE, END}
  BY Sizes DEF FormattedFat, Table
<1> QED
  BY <1>1, UnlinkedWalkable, Sizes DEF FormattedFat, Table

-----------------------------------------------------------------------------
(***************************************************************************)
(* Types.  The steps of the edit mode rely on the slot and the text that   *)
(* write() left, those of rmdir() on a decoded current directory; the      *)
(* other actions need TypeOK alone.                                        *)
(***************************************************************************)
Texts  == [Block -> Text]
Slots  == [0..(MaxOpen - 1) -> Slot]
Cwds   == [first : 0..NB, dirno : 0..NB, diroff : 0..DS]
Paths  == Seq(Names \cup {"", "root"})
Edits  == [id : TextIds \cup {"none"}, full : 0..MaxFlush]
Stacks == Seq(Pointers)
Scans  == [blk : Block, idx : 0..DS]

DiskTyped == fat \in Fats /\ ents \in Ents /\ text \in Texts
RestTyped == /\ slots \in Slots /\ fp \in -1..(MaxOpen - 1)
             /\ cur \in Cwds /\ path \in Paths
             /\ edit \in Edits /\ stack \in Stacks /\ scan \in Scans
             /\ host \in ImageType /\ mode \in Modes
Editing == mode = "edit" => fp # -1 /\ edit.id \in TextIds
Removing == mode = "rmdir" => DirLike(cur.first)
TypeInv == TypeOK /\ Editing /\ Removing

LEMMA TypeParts ==
  /\ TypeOK <=> DiskTyped /\ RestTyped
  /\ TypeOK' <=> DiskTyped' /\ RestTyped'
  BY DEF TypeOK, DiskTyped, RestTyped, Fats, Ents, Texts, Slots, Cwds, Paths,
         Edits, Stacks, Scans, Pointer, Pointers

LEMMA ShellFacts == /\ MaxOpen \in Nat /\ MaxOpen > 0 /\ 0 \in 0..(MaxOpen - 1)
                    /\ MaxFlush \in Nat /\ BlockSize \in Nat /\ BlockSize > 0
                    /\ BlockSize < LengthMod
<1>1. MaxOpen \in Nat \ {0} /\ MaxFlush \in Nat /\ BlockSize < LengthMod
  BY ShellAssumption
<1>2. BlockSize \in Nat \ {0}
  BY SizesAssumption
<1> QED
  BY <1>1, <1>2

LEMMA ZeroType == /\ ZeroFat \in Fats /\ ZeroEnts \in Ents /\ ZeroText \in Texts
                  /\ EmptySlot \in Slot /\ NoEdit \in Edits /\ NoScan \in Scans
                  /\ NoImage \in ImageType /\ TornImage \in ImageType
<1>1. ZeroFat \in Fats /\ ZeroEnts \in Ents /\ ZeroText \in Texts
  BY BlankType DEF ZeroFat, ZeroEnts, ZeroText, Fats, Ents, Texts, Link, Text
<1>2. EmptySlot \in Slot
  BY Sizes, LengthModPositive DEF EmptySlot, Slot, NameText
<1>3. NoEdit \in Edits /\ NoScan \in Scans
  BY Sizes, ShellFacts DEF NoEdit, NoScan, Edits, Scans, Block
<1>4. NoImage \in ImageType /\ TornImage \in ImageType
  BY <1>1 DEF NoImage, TornImage, Image, ImageType, Fats, Ents, Texts
<1> QED
  BY <1>1, <1>2, <1>3, <1>4

LEMMA ImageTyped ==
  ASSUME NEW f \in Fats, NEW e \in Ents, NEW t \in Texts
  PROVE  Image("saved", f, e, t) \in ImageType
  BY DEF Image, ImageType, Fats, Ents, Texts

LEMMA ImageParts ==
  ASSUME NEW v \in ImageType
  PROVE  v.fat \in Fats /\ v.ents \in Ents /\ v.text \in Texts
  BY DEF ImageType, Fats, Ents, Texts

LEMMA FormattedTextType ==
  ASSUME NEW t \in Texts PROVE FormattedText(t) \in Texts
  BY DEF FormattedText, Texts, Text

LEMMA NewImageType == NewImage \in ImageType
  BY ZeroType, FormattedType, FormattedTextType, ImageTyped DEF NewImage

LEMMA ForgetType ==
  ASSUME ForgetMemory, host' \in ImageType PROVE TypeOK'
<1>1. DiskTyped'
  BY ZeroType DEF ForgetMemory, DiskTyped
<1>2. slots' \in Slots /\ fp' \in -1..(MaxOpen - 1)
  BY ZeroType, ShellFacts DEF ForgetMemory, Slots
<1>3. cur' \in Cwds /\ path' \in Paths /\ edit' \in Edits /\ stack' \in Stacks
      /\ scan' \in Scans /\ mode' \in Modes
  BY ZeroType, Sizes DEF ForgetMemory, Cwds, Paths, Stacks, Modes
<1> QED
  BY <1>1, <1>2, <1>3, TypeParts DEF RestTyped

LEMMA WildType == ASSUME TypeOK, Wild PROVE TypeOK'
  BY TypeParts DEF Wild, DiskTyped, RestTyped, Modes

LEMMA InitType == Init => TypeInv
<1> SUFFICES ASSUME Init PROVE TypeInv
  OBVIOUS
<1>1. DiskTyped
  BY ZeroType DEF Init, DiskTyped
<1>2. slots \in Slots /\ fp \in -1..(MaxOpen - 1)
  BY ZeroType, ShellFacts DEF Init, Slots
<1>3. cur \in Cwds /\ path \in Paths /\ edit \in Edits /\ stack \in Stacks
      /\ scan \in Scans /\ host \in ImageType /\ mode \in Modes
  BY ZeroType, Sizes DEF Init, Cwds, Paths, Stacks, Modes
<1>4. Editing /\ Removing
  BY DEF Init, Editing, Removing
<1> QED
  BY <1>1, <1>2, <1>3, <1>4, TypeParts DEF RestTyped, TypeInv

LEMMA startsysType == ASSUME TypeOK, startsys PROVE TypeOK'
<1>1. PICK v \in ImageType :
        /\ host' = v /\ fat' = v.fat /\ ents' = v.ents /\ text' = v.text
        /\ slots' = [slots EXCEPT ![0] = RootSlot(v.ents)]
        /\ cur' = [first |-> v.ents[Root][0].first, dirno |-> Root, diroff |-> 0]
  BY NewImageType, TypeParts DEF startsys, RestTyped
<1>2. DiskTyped' /\ v.ents \in Ents
  BY <1>1, ImageParts DEF DiskTyped
<1>3. v.ents[Root][0] \in Entry
  BY <1>2, Sizes DEF Ents
<1>4. RootSlot(v.ents) \in Slot
  <2>1. "root" \in NameText /\ 0 \in 0..DS
    BY Sizes DEF NameText
  <2> QED
    BY <1>3, <2>1, Sizes DEF RootSlot, Slot, Entry
<1>5. slots' \in Slots
  BY <1>1, <1>4, ShellFacts, TypeParts DEF RestTyped, Slots
<1>6. cur' \in Cwds
  BY <1>1, <1>3, Sizes DEF Cwds, Entry
<1>7. path' \in Paths
  BY DEF startsys, Paths
<1>8. /\ fp' \in -1..(MaxOpen - 1) /\ edit' \in Edits
      /\ stack' \in Stacks /\ scan' \in Scans /\ mode' \in Modes
  BY ShellFacts, TypeParts DEF startsys, RestTyped, Modes
<1> QED
  BY <1>1, <1>2, <1>5, <1>6, <1>7, <1>8, TypeParts DEF RestTyped

LEMMA EndOfRunType ==
  ASSUME TypeOK, existsys \/ CrashWhileSaving \/ Crash PROVE TypeOK'
<1>1. ForgetMemory
  BY DEF existsys, CrashWhileSaving, Crash
<1>2. host' \in ImageType
  BY ZeroType, ImageTyped, TypeParts
     DEF existsys, CrashWhileSaving, Crash, DiskTyped, RestTyped
<1> QED
  BY <1>1, <1>2, ForgetType

LEMMA formatType == ASSUME TypeOK, format PROVE TypeOK'
<1>1. DiskTyped'
  BY FormattedType, FormattedTextType, TypeParts DEF format, DiskTyped
<1>2. host' \in ImageType
  BY <1>1, ImageTyped DEF format, DiskTyped
<1> QED
  BY <1>1, <1>2, TypeParts DEF format, RestTyped

\* The entry a command found in the current directory, or the one after it.
LEMMA HereType ==
  ASSUME TypeOK, DirLike(cur.first), NEW k \in 0..DS, DirLike(At(cur.first, k).blk)
  PROVE  At(cur.first, k) \in Pointers
  BY TypeParts, AtType DEF RestTyped, Cwds, DirLike

LEMMA UpType ==
  ASSUME TypeOK, DirLike(At(cur.dirno, cur.diroff).blk)
  PROVE  At(cur.dirno, cur.diroff) \in Pointers
  BY TypeParts, AtType DEF RestTyped, Cwds, DirLike

LEMMA EndIsLink == END \in Link /\ FREE \in Link /\ \A i \in 0..NB : i \in Link
  BY Sizes DEF Link

LEMMA mkdirType == ASSUME TypeOK, NEW n \in Names, mkdir(n) PROVE TypeOK'
<1>1. CASE Wild
  BY <1>1, WildType
<1>2. CASE ~ Wild
  <2> DEFINE at(k) == At(cur.first, k)
             up == At(cur.dirno, cur.diroff)
             new(i) == [name |-> n, attr |-> DIR, first |-> i, len |-> 2]
             named(k, i) == RootName(PutEntry(ents, at(k), new(i)), i, JunkName)
  <2>1. PICK k \in 0..DS, i \in 0..NB :
          /\ DirLike(at(k).blk) /\ DirLike(up.blk)
          /\ fat' = SetBoth(fat, i, END)
          /\ ents' = Dotted(IncLen(named(k, i), up), i, cur.first)
          /\ UNCHANGED <<text, slots, fp, cur, path, edit, stack, scan, host, mode>>
    BY <1>2 DEF mkdir
  <2>2. at(k) \in Pointers /\ up \in Pointers
    BY <2>1, HereType, UpType DEF mkdir
  <2>3. new(i) \in Entry
    <3>1. n \in NameText
      BY DEF NameText
    <3>2. 2 \in 0..(LengthMod - 1)
      BY LengthModPositive
    <3> QED
      BY <3>1, <3>2, EntryType
  <2>4. named(k, i) \in Ents
    BY <2>2, <2>3, PutEntryType, RootNameType, TypeParts DEF DiskTyped, NameText
  <2>5. IncLen(named(k, i), up) \in Ents
    BY <2>2, <2>4, IncLenType
  <2>6. cur.first \in 0..NB
    BY TypeParts DEF RestTyped, Cwds
  <2>7. ents' \in Ents
    BY <2>1, <2>5, <2>6, DottedType
  <2>8. fat' \in Fats
    BY <2>1, SetBothType, EndIsLink, TypeParts DEF DiskTyped
  <2> QED
    BY <2>1, <2>7, <2>8, TypeParts DEF DiskTyped, RestTyped
<1> QED
  BY <1>1, <1>2

LEMMA createType == ASSUME TypeOK, NEW n \in Names, create(n) PROVE TypeOK'
<1> DEFINE new(i) == [name |-> n, attr |-> FILE, first |-> i, len |-> BlockSize]
<1>1. PICK k \in Index, i \in 0..NB :
        /\ fat' = SetBoth(fat, i, END)
        /\ ents' = RootName(PutEntry(ents, At(cur.first, k), new(i)), i, JunkName)
  BY DEF create
<1>2. At(cur.first, k) \in Pointers
  <2>1. cur.first \in Block
    BY DEF create, DirLike
  <2>2. k # DS
    BY Sizes DEF Index
  <2> QED
    BY <2>1, <2>2 DEF At, Pointers
<1>3. new(i) \in Entry
  <2>1. n \in NameText
    BY DEF NameText
  <2>2. BlockSize \in 0..(LengthMod - 1)
    BY ShellFacts, LengthModPositive
  <2> QED
    BY <2>1, <2>2, EntryType
<1>4. ents' \in Ents
  BY <1>1, <1>2, <1>3, PutEntryType, RootNameType, TypeParts DEF DiskTyped, NameText
<1>5. fat' \in Fats
  BY <1>1, SetBothType, EndIsLink, TypeParts DEF DiskTyped
<1> QED
  BY <1>4, <1>5, TypeParts DEF create, DiskTyped, RestTyped

LEMMA openFileType == ASSUME TypeOK, NEW n \in Names, openFile(n) PROVE TypeOK'
<1> DEFINE e(k) == ents[cur.first][k]
           new(k) == [name |-> e(k).name, attr |-> e(k).attr, first |-> e(k).first,
                      len |-> e(k).len, dirno |-> cur.first, diroff |-> k]
<1>1. PICK k \in Index, j \in 0..MaxOpen :
        IF j = MaxOpen
        THEN slots' = [slots EXCEPT ![fp] = new(k)] /\ fp' = fp
        ELSE /\ slots' = [slots EXCEPT ![j] = new(k)] \/ slots' = slots
             /\ fp' = j
  BY DEF openFile
<1>2. e(k) \in Entry /\ cur.first \in 0..NB
  BY TypeParts DEF openFile, DirLike, DiskTyped, RestTyped, Ents, Cwds
<1>3. new(k) \in Slot
  BY <1>2, Sizes DEF Slot, Entry, Index
<1>4. slots \in Slots /\ fp \in -1..(MaxOpen - 1)
  BY TypeParts DEF RestTyped
<1>5. slots' \in Slots /\ fp' \in -1..(MaxOpen - 1)
  <2>1. CASE j = MaxOpen
    BY <1>1, <1>3, <1>4, <2>1 DEF Slots
  <2>2. CASE j # MaxOpen
    BY <1>1, <1>3, <1>4, <2>2, ShellFacts DEF Slots
  <2> QED
    BY <2>1, <2>2
<1> QED
  BY <1>5, TypeParts DEF openFile, DiskTyped, RestTyped, Modes

LEMMA closeType == ASSUME TypeOK, close PROVE TypeOK'
<1>1. slots \in Slots /\ slots' = [slots EXCEPT ![fp] = EmptySlot] /\ fp' = -1
  BY TypeParts DEF close, RestTyped
<1>2. slots' \in Slots
  BY <1>1, ZeroType DEF Slots
<1>3. fp' \in -1..(MaxOpen - 1)
  BY <1>1, ShellFacts
<1> QED
  BY <1>2, <1>3, TypeParts DEF close, DiskTyped, RestTyped

LEMMA LenType ==
  ASSUME NEW S, NEW s \in Seq(S) PROVE Len(s) \in Nat /\ Len(s) \in 0..Len(s)
  <1>1. Len(s) \in Nat
    OBVIOUS
  <1> QED
    BY <1>1

LEMMA cdType == ASSUME TypeOK, NEW p \in PathArgs, cd(p) PROVE TypeOK'
<1>1. CASE Wild
  BY <1>1, WildType
<1>2. CASE ~ Wild
  <2> DEFINE parent == ents[Resolve(cur.first, p)][1].first
             e(off) == EntryAt(ents, At(parent, off))
             s(off) == [first |-> e(off).first, dirno |-> ents[parent][0].first,
                        diroff |-> off]
  <2>0. (\A j \in 0..Len(p) : PathFits(Rewritten(path, p)[j])) => PathFits(Rewrite(path, p))
    <3>1. p \in Seq(Names \cup {"", ".", ".."})
      BY ShellAssumption
    <3>2. Len(p) \in 0..Len(p)
      BY <3>1, LenType
    <3> QED
      BY <3>2 DEF Rewrite
  <2>1. PICK off \in 0..DS :
          /\ DirLike(Resolve(cur.first, p)) /\ DirLike(parent)
          /\ (\A j \in 0..Len(p) : PathFits(Rewritten(path, p)[j])) /\ DirLike(At(parent, off).blk)
          /\ slots' = [slots EXCEPT ![fp] =
                [name |-> e(off).name, attr |-> DIR, first |-> e(off).first,
                 len |-> e(off).len, dirno |-> s(off).dirno, diroff |-> off]]
          /\ cur' = s(off) /\ path' = Rewrite(path, p)
          /\ UNCHANGED <<fat, ents, text, fp, edit, stack, scan, host, mode>>
    BY <1>2 DEF cd
  <2>2. ents \in Ents
    BY TypeParts DEF DiskTyped
  <2>3. parent \in 0..NB
    BY <2>1, <2>2, Sizes DEF DirLike, Ents, Entry
  <2>4. ents[parent][0].first \in 0..NB
    BY <2>1, <2>2, Sizes DEF DirLike, Ents, Entry
  <2>5. e(off) \in Entry
    BY <2>1, <2>2, <2>3, AtType, EntryAtType DEF DirLike
  <2>6. slots' \in Slots
    <3>1. slots \in Slots
      BY TypeParts DEF RestTyped
    <3>2. [name |-> e(off).name, attr |-> DIR, first |-> e(off).first,
           len |-> e(off).len, dirno |-> s(off).dirno, diroff |-> off] \in Slot
      BY <2>4, <2>5 DEF Slot, Entry
    <3> QED
      BY <2>1, <3>1, <3>2 DEF Slots
  <2>7. cur' \in Cwds
    BY <2>1, <2>4, <2>5 DEF Cwds, Entry
  <2>8. path' \in Paths
    BY <2>0, <2>1 DEF PathFits, Paths
  <2> QED
    BY <2>1, <2>6, <2>7, <2>8, TypeParts DEF DiskTyped, RestTyped
<1> QED
  BY <1>1, <1>2

LEMMA LostDirectoryType == ASSUME TypeOK, LostDirectory PROVE TypeOK'
  BY WildType DEF LostDirectory

LEMMA ClearTextType ==
  ASSUME NEW t \in Texts, NEW S PROVE ClearText(t, S) \in Texts
  BY DEF ClearText, Texts, Text

LEMMA DeleteFileType ==
  ASSUME TypeOK, DirLike(cur.first), NEW n, NEW then \in Modes, DeleteFile(n, then)
  PROVE  /\ DiskTyped' /\ mode' \in {then, "wild"}
         /\ \A b \in Block : text[b] = NoText => text'[b] = NoText
<1>1. CASE mode' = "wild" /\ UNCHANGED disk
  BY <1>1, TypeParts DEF disk, DiskTyped
<1>2. CASE ~ (mode' = "wild" /\ UNCHANGED disk)
  <2> DEFINE at(k) == At(cur.first, k)
             root(S) == IF NB \in S THEN [ents EXCEPT ![Root][0].name = ""] ELSE ents
  <2>1. PICK k \in 0..DS :
          /\ DirLike(at(k).blk)
          /\ \E freed, cleared :
                /\ fat' = FreeCells(fat, freed)
                /\ text' = ClearText(text, cleared)
                /\ \/ ents' = PutEntry(ClearBlocks(root(freed), cleared), at(k), Blank)
                   \/ ents' = ClearBlocks(root(freed), cleared)
                /\ mode' = then
    BY <1>2 DEF DeleteFile
  <2>2. PICK freed, cleared :
          /\ fat' = FreeCells(fat, freed)
          /\ text' = ClearText(text, cleared)
          /\ \/ ents' = PutEntry(ClearBlocks(root(freed), cleared), at(k), Blank)
             \/ ents' = ClearBlocks(root(freed), cleared)
          /\ mode' = then
    BY <2>1
  <2>3. at(k) \in Pointers
    BY <2>1, HereType
  <2>4. root(freed) \in Ents
    <3>1. ents \in Ents /\ "" \in NameText /\ Root \in Int
      BY TypeParts, Sizes DEF DiskTyped, NameText
    <3> QED
      BY <3>1, StoreNameType, Sizes
  <2>5. ents' \in Ents
    BY <2>2, <2>3, <2>4, ClearBlocksType, PutEntryType, BlankType
  <2>6. \A b \in Block : text[b] = NoText => text'[b] = NoText
    BY <2>2 DEF ClearText
  <2> QED
    BY <2>2, <2>5, <2>6, FreeCellsType, ClearTextType, TypeParts DEF DiskTyped
<1> QED
  BY <1>1, <1>2

LEMMA rmfileType == ASSUME TypeOK, NEW n \in Names, rmfile(n) PROVE TypeOK'
<1>1. DiskTyped' /\ mode' \in Modes
  BY DeleteFileType DEF rmfile, Modes
<1> QED
  BY <1>1, TypeParts DEF rmfile, RestTyped

LEMMA rmdirType == ASSUME TypeOK, NEW n \in Names, rmdir(n) PROVE TypeOK'
<1>1. CASE Wild
  BY <1>1, WildType
<1>2. CASE ~ Wild
  <2> DEFINE up == At(cur.dirno, cur.diroff)
  <2>1. PICK k \in Index :
          /\ DirLike(up.blk) /\ DirLike(cur.first)
          /\ ents' = DecLen(ents, up) /\ stack' = <<At(cur.first, k)>>
          /\ mode' = "rmdir"
          /\ UNCHANGED <<fat, text, slots, fp, cur, path, edit, scan, host>>
    BY <1>2 DEF rmdir
  <2>2. ents' \in Ents
    BY <2>1, UpType, IncLenType, TypeParts DEF DiskTyped
  <2>3. At(cur.first, k) \in Pointers
    <3>1. k # DS
      BY Sizes DEF Index
    <3> QED
      BY <2>1, <3>1 DEF At, Pointers, DirLike
  <2>4. stack' \in Stacks
    BY <2>1, <2>3 DEF Stacks
  <2> QED
    BY <2>1, <2>2, <2>4, TypeParts DEF DiskTyped, RestTyped, Modes
<1> QED
  BY <1>1, <1>2

LEMMA rmdirPopType == ASSUME TypeOK, rmdirPop PROVE TypeOK'
<1>1. CASE Wild
  BY <1>1, WildType
<1>2. CASE ~ Wild
  <2> DEFINE b == EntryAt(ents, Head(stack)).first
  <2>1. /\ DirLike(b) /\ scan' = [blk |-> b, idx |-> 2]
        /\ stack # <<>> /\ stack' = Tail(stack)
        /\ ents' = PutEntry(ents, Head(stack), Blank)
        /\ UNCHANGED <<fat, text, slots, fp, cur, path, edit, host, mode>>
    BY <1>2 DEF rmdirPop
  <2>2. Head(stack) \in Pointers /\ stack' \in Stacks
    BY <2>1, TypeParts DEF RestTyped, Stacks
  <2>3. ents' \in Ents
    BY <2>1, <2>2, PutEntryType, BlankType, TypeParts DEF DiskTyped
  <2>4. scan' \in Scans
    BY <2>1, Sizes DEF Scans, DirLike
  <2> QED
    BY <2>1, <2>2, <2>3, <2>4, TypeParts DEF DiskTyped, RestTyped
<1> QED
  BY <1>1, <1>2

LEMMA rmdirScanType == ASSUME TypeInv, rmdirScan PROVE TypeOK' /\ Removing'
<1> DEFINE at == [blk |-> scan.blk, idx |-> scan.idx]
           e == EntryAt(ents, at)
<1>1. DirLike(cur.first) /\ mode = "rmdir" /\ TypeOK
  BY DEF TypeInv, Removing, rmdirScan
<1>2. at \in Pointers /\ scan' \in Scans
  <2>1. scan.blk \in Block /\ scan.idx \in 0..DS /\ scan.idx < DS
        /\ scan' = [scan EXCEPT !.idx = @ + 1] /\ scan \in Scans
    BY <1>1, TypeParts DEF rmdirScan, RestTyped, Scans
  <2>2. scan.idx \in Index /\ scan.idx + 1 \in 0..DS
    BY <2>1, Sizes DEF Index
  <2> QED
    BY <2>1, <2>2 DEF Pointers, Scans
<1>3. e \in Entry
  BY <1>1, <1>2, EntryAtType, TypeParts DEF DiskTyped
<1>4. UNCHANGED <<slots, fp, cur, path, edit, host>>
  BY DEF rmdirScan
<1>5. /\ DiskTyped' /\ stack' \in Stacks /\ mode' \in Modes
      /\ \A b \in Block : text[b] = NoText => text'[b] = NoText
  <2>1. CASE e.name # "" /\ e.attr = FILE /\ DeleteFile(e.name, "rmdir")
             /\ UNCHANGED stack
    BY <1>1, <2>1, DeleteFileType, TypeParts DEF RestTyped, Modes
  <2>2. CASE UNCHANGED <<fat, ents, text, stack>> /\ mode' \in {"rmdir", "wild"}
    BY <1>1, <2>2, TypeParts DEF DiskTyped, RestTyped, Modes
  <2>3. CASE /\ \/ /\ fat' = SetBoth(fat, e.first, FREE)
                   /\ ents' = RootName(ents, e.first, "")
                \/ UNCHANGED <<fat, ents>>
             /\ stack' = <<at>> \o stack /\ UNCHANGED <<text, mode>>
    <3>1. fat' \in Fats
      BY <1>1, <1>3, <2>3, SetBothType, EndIsLink, TypeParts DEF DiskTyped, Entry
    <3>2. ents' \in Ents
      BY <1>1, <2>3, RootNameType, TypeParts DEF DiskTyped, NameText
    <3>3. stack' \in Stacks
      <4>1. stack \in Seq(Pointers) /\ <<at>> \in Seq(Pointers)
        BY <1>1, <1>2, TypeParts DEF RestTyped, Stacks
      <4>2. <<at>> \o stack \in Seq(Pointers)
        BY <4>1
      <4> QED
        BY <2>3, <4>2 DEF Stacks
    <3> QED
      BY <1>1, <2>3, <3>1, <3>2, <3>3, TypeParts DEF DiskTyped, RestTyped
  <2>4. rmdirScan =>
          \/ e.name # "" /\ e.attr = FILE /\ DeleteFile(e.name, "rmdir")
             /\ UNCHANGED stack
          \/ UNCHANGED <<fat, ents, text, stack>> /\ mode' \in {mode, "wild"}
          \/ /\ \/ /\ fat' = SetBoth(fat, e.first, FREE)
                   /\ ents' = RootName(ents, e.first, "")
                \/ UNCHANGED <<fat, ents>>
             /\ stack' = <<at>> \o stack /\ UNCHANGED <<text, mode>>
    BY DEF rmdirScan
  <2> QED
    BY <1>1, <2>1, <2>2, <2>3, <2>4
<1>6. TypeOK'
  BY <1>1, <1>2, <1>4, <1>5, TypeParts DEF RestTyped
<1>7. Removing'
  BY <1>1, <1>4, <1>5 DEF Removing, DirLike
<1> QED
  BY <1>6, <1>7

LEMMA rmdirDoneType == ASSUME TypeOK, rmdirDone PROVE TypeOK'
  BY ZeroType, TypeParts DEF rmdirDone, DiskTyped, RestTyped, Modes

LEMMA writeType ==
  ASSUME TypeOK, NEW id \in TextIds, write(id) PROVE TypeOK' /\ Editing'
<1>1. CASE fp = -1
  BY <1>1, WildType DEF write, Wild, Editing
<1>2. CASE fp # -1
  <2>1. slots \in Slots /\ fp \in 0..(MaxOpen - 1)
        /\ slots' = [slots EXCEPT ![fp].len = 0]
    BY <1>2, ShellFacts, TypeParts DEF write, RestTyped
  <2>2. slots[fp] \in Slot
    BY <2>1 DEF Slots
  <2>3. [slots[fp] EXCEPT !.len = 0] \in Slot
    BY <2>2, LengthModPositive DEF Slot
  <2>4. slots' \in Slots
    BY <2>1, <2>3 DEF Slots
  <2>5. edit' \in Edits /\ edit'.id \in TextIds
    BY <1>2, ShellFacts DEF write, Edits
  <2> QED
    BY <1>2, <2>4, <2>5, TypeParts
       DEF write, DiskTyped, RestTyped, Modes, Editing
<1> QED
  BY <1>1, <1>2

-----------------------------------------------------------------------------
(***************************************************************************)
(* The edit mode.                                                          *)
(***************************************************************************)
\* strcpy() over the end of a block, and the two bytes the stray fat2 stores.
LEMMA SpillType ==
  ASSUME NEW e \in Ents, NEW t \in Texts, NEW b \in Int, NEW s \in NameText
  PROVE  Spilled(e, t, b, s) \in Ents /\ SpilledText(t, b) \in Texts
<1>1. Spilled(e, t, b, s) \in Ents
  BY StoreNameType, Sizes DEF Spilled
<1>2. SpilledText(t, b) \in Texts
  BY DEF SpilledText, Texts, Text
<1> QED
  BY <1>1, <1>2

LEMMA StrayType ==
  ASSUME NEW e \in Ents, NEW t \in Texts, NEW i \in 0..NB
  PROVE  StrayEnts(e, t, i) \in Ents /\ StrayText(t) \in Texts
<1> DEFINE at == [blk |-> StrayBlock, idx |-> DS - 1]
           low == EntryAt(e, at).len % HalfWord
<1>1. at \in Pointers
  BY Sizes DEF Pointers
<1>2. EntryAt(e, at).len \in Nat
  BY <1>1, EntryAtType, LengthModPositive DEF Entry
<1>3. low \in 0..(HalfWord - 1)
  BY <1>2, Sizes
<1>4. HalfWord * i + low \in 0..(LengthMod - 1)
  BY <1>3, HalfWords, Sizes DEF LengthMod
<1>5. PutLen(e, at, HalfWord * i + low) \in Ents
  BY <1>1, <1>4, PutLenType
<1>6. StrayEnts(e, t, i) = e \/ StrayEnts(e, t, i) = PutLen(e, at, HalfWord * i + low)
  BY DEF StrayEnts, PutLen, EntryAt
<1>7. StrayText(t) \in Texts
  BY DEF StrayText, Texts, Text
<1> QED
  BY <1>5, <1>6, <1>7

\* A length stored in a slot.
LEMMA SlotSelected ==
  ASSUME TypeOK, fp # -1
  PROVE  fp \in 0..(MaxOpen - 1) /\ slots \in Slots /\ slots[fp] \in Slot
<1>1. slots \in Slots /\ fp \in -1..(MaxOpen - 1)
  BY TypeParts DEF RestTyped
<1>2. fp \in 0..(MaxOpen - 1)
  BY <1>1, ShellFacts
<1> QED
  BY <1>1, <1>2 DEF Slots

LEMMA SlotLenType ==
  ASSUME TypeOK, fp # -1, NEW l \in 0..(LengthMod - 1)
  PROVE  [slots EXCEPT ![fp].len = l] \in Slots
<1>1. fp \in 0..(MaxOpen - 1) /\ slots \in Slots /\ slots[fp] \in Slot
  BY SlotSelected
<1>2. [slots[fp] EXCEPT !.len = l] \in Slot
  BY <1>1 DEF Slot
<1> QED
  BY <1>1, <1>2 DEF Slots

\* The length write() counts is the file's modulo the width.
LEMMA SlotSumType ==
  ASSUME TypeOK, fp # -1, NEW n \in 0..BlockSize
  PROVE  (slots[fp].len + n) % LengthMod \in 0..(LengthMod - 1)
<1>1. slots[fp].len \in 0..(LengthMod - 1)
  BY SlotSelected DEF Slot
<1>2. slots[fp].len + n \in Nat
  <2>1. n \in Nat
    BY ShellFacts
  <2> QED
    BY <1>1, <2>1, LengthModPositive
<1> QED
  BY <1>2, LengthModPositive

\* What dowrite() may do to the disk.
LEMMA dowriteType ==
  ASSUME TypeOK, Editing, mode = "edit", NEW e \in Ents, NEW n \in 0..BlockSize,
         NEW spill \in {"no", "", JunkName}, NEW fatError \in BOOLEAN,
         dowrite(e, n, spill, fatError)
  PROVE  DiskTyped'
<1> DEFINE first == slots[fp].first
<1>1. first \in 0..NB /\ edit.id \in TextIds /\ edit.full \in 0..MaxFlush
  <2>1. edit \in Edits /\ edit.id \in TextIds /\ fp # -1
    BY TypeParts DEF RestTyped, Editing
  <2>2. slots[fp] \in Slot
    BY <2>1, SlotSelected
  <2> QED
    BY <2>1, <2>2 DEF Slot, Edits
<1> DEFINE t(last) == Filled(last, n)
           fe(last) == IF spill = "no" THEN e ELSE Spilled(e, t(last), last + 1, spill)
           ft(last) == IF spill = "no" THEN t(last) ELSE SpilledText(t(last), last + 1)
<1>2. PICK last \in Chain(fat, first) :
        \/ ents' = e /\ UNCHANGED <<fat, text>>
        \/ ents' = fe(last) /\ text' = ft(last) /\ UNCHANGED fat
        \/ \E i \in 0..NB :
             \/ /\ fat' = SetBoth(SetBoth(fat, last, i), i, END)
                /\ ents' = RootName(RootName(fe(last), last, LinkName(i)), i, JunkName)
                /\ text' = ft(last)
             \/ /\ fat' = SetBoth([fat EXCEPT ![last] = i], i, END)
                /\ ents' = RootName(StrayEnts(fe(last), ft(last), i), i, JunkName)
                /\ text' = StrayText(ft(last))
  BY DEF dowrite
<1>3. fat \in Fats /\ text \in Texts
  BY TypeParts DEF DiskTyped
<1>4. last \in 0..NB
  BY <1>1, <1>3, ChainClosed
<1>5. t(last) \in Texts
  <2>1. [id |-> edit.id, chunk |-> edit.full, n |-> n] \in Text
    BY <1>1 DEF Text
  <2> QED
    BY <1>3, <2>1 DEF Filled, Texts
<1>6. fe(last) \in Ents /\ ft(last) \in Texts
  <2>1. last + 1 \in Int
    BY <1>4, CellIsInt
  <2>2. spill # "no" => spill \in NameText
    BY DEF NameText
  <2> QED
    BY <1>5, <2>1, <2>2, SpillType
<1>7. CASE ents' = e /\ UNCHANGED <<fat, text>>
  BY <1>3, <1>7 DEF DiskTyped
<1>8. CASE ents' = fe(last) /\ text' = ft(last) /\ UNCHANGED fat
  BY <1>3, <1>6, <1>8 DEF DiskTyped
<1> HIDE DEF t, fe, ft
<1>9. CASE \E i \in 0..NB :
             \/ /\ fat' = SetBoth(SetBoth(fat, last, i), i, END)
                /\ ents' = RootName(RootName(fe(last), last, LinkName(i)), i, JunkName)
                /\ text' = ft(last)
             \/ /\ fat' = SetBoth([fat EXCEPT ![last] = i], i, END)
                /\ ents' = RootName(StrayEnts(fe(last), ft(last), i), i, JunkName)
                /\ text' = StrayText(ft(last))
  <2>1. PICK i \in 0..NB :
             \/ /\ fat' = SetBoth(SetBoth(fat, last, i), i, END)
                /\ ents' = RootName(RootName(fe(last), last, LinkName(i)), i, JunkName)
                /\ text' = ft(last)
             \/ /\ fat' = SetBoth([fat EXCEPT ![last] = i], i, END)
                /\ ents' = RootName(StrayEnts(fe(last), ft(last), i), i, JunkName)
                /\ text' = StrayText(ft(last))
    BY <1>9
  <2>2. /\ SetBoth(fat, last, i) \in Fats /\ [fat EXCEPT ![last] = i] \in Fats
    <3>1. i \in Link
      BY EndIsLink
    <3> QED
      BY <1>3, <1>4, <3>1, SetBothType DEF Fats
  <2>3. fat' \in Fats
    BY <2>1, <2>2, EndIsLink, SetBothType
  <2>4. JunkName \in NameText /\ LinkName(i) \in NameText
    BY DEF NameText, LinkName
  <2>5. ents' \in Ents /\ text' \in Texts
    BY <1>6, <2>1, <2>4, RootNameType, StrayType
  <2> QED
    BY <2>3, <2>5 DEF DiskTyped
<1> QED
  BY <1>2, <1>7, <1>8, <1>9

LEMMA writeFlushType == ASSUME TypeInv, writeFlush PROVE TypeOK' /\ Editing'
<1>1. TypeOK /\ Editing /\ mode = "edit" /\ fp # -1 /\ edit.id \in TextIds
  BY DEF TypeInv, Editing, writeFlush
<1>2. CASE Wild
  BY <1>1, <1>2, WildType DEF Wild, Editing
<1>3. CASE ~ Wild
  <2>1. PICK spill \in Spills(BlockSize), fatError \in BOOLEAN :
          /\ dowrite(ents, BlockSize, spill, fatError)
          /\ IF fatError
             THEN mode' = "shell" /\ edit' = NoEdit /\ UNCHANGED slots
             ELSE /\ slots' = [slots EXCEPT ![fp].len = (@ + BlockSize) % LengthMod]
                  /\ edit' = [edit EXCEPT !.full = @ + 1] /\ UNCHANGED mode
          /\ UNCHANGED <<fp, cur, path, stack, scan, host>>
    BY <1>3 DEF writeFlush
  <2>2. DiskTyped'
    <3>1. ents \in Ents /\ BlockSize \in 0..BlockSize
      BY <1>1, ShellFacts, TypeParts DEF DiskTyped
    <3>2. spill \in {"no", "", JunkName}
      BY DEF Spills
    <3> QED
      BY <1>1, <2>1, <3>1, <3>2, dowriteType
  <2>3. CASE fatError
    BY <1>1, <2>1, <2>2, <2>3, ZeroType, TypeParts DEF RestTyped, Modes, Editing
  <2>4. CASE ~ fatError
    <3> DEFINE l == (slots[fp].len + BlockSize) % LengthMod
    <3>2. BlockSize \in 0..BlockSize
      BY ShellFacts
    <3>3. l \in 0..(LengthMod - 1)
      BY <1>1, <3>2, SlotSumType
    <3>4. slots' = [slots EXCEPT ![fp].len = l]
      BY <2>1, <2>4
    <3>5. slots' \in Slots
      BY <1>1, <3>3, <3>4, SlotLenType
    <3>6. edit' \in Edits /\ edit'.id \in TextIds
      <4>1. edit \in Edits /\ edit.full < MaxFlush
        BY <1>1, <1>3, TypeParts DEF writeFlush, RestTyped
      <4>2. edit.full + 1 \in 0..MaxFlush
        BY <4>1, ShellFacts DEF Edits
      <4>3. edit' = [edit EXCEPT !.full = edit.full + 1]
        BY <2>1, <2>4
      <4> QED
        BY <1>1, <4>1, <4>2, <4>3 DEF Edits
    <3> QED
      BY <1>1, <2>1, <2>2, <2>4, <3>5, <3>6, TypeParts DEF RestTyped, Editing
  <2> QED
    BY <2>3, <2>4
<1> QED
  BY <1>2, <1>3

LEMMA writeQuitType ==
  ASSUME TypeInv, NEW n \in 0..BlockSize, NEW spill \in {"no", "", JunkName},
         writeQuit(n, spill)
  PROVE  TypeOK' /\ Editing'
<1>1. TypeOK /\ Editing /\ mode = "edit" /\ fp # -1 /\ edit.id \in TextIds
  BY DEF TypeInv, Editing, writeQuit
<1>2. CASE Wild
  BY <1>1, <1>2, WildType DEF Wild, Editing
<1>3. CASE ~ Wild
  <2> DEFINE at == At(slots[fp].dirno, slots[fp].diroff)
             len == (slots[fp].len + n) % LengthMod
  <2>1. /\ DirLike(at.blk)
        /\ slots' = [slots EXCEPT ![fp].len = len]
        /\ \E fatError \in BOOLEAN :
             dowrite(PutLen(ents, at, len), n, spill, fatError)
        /\ mode' = "shell" /\ edit' = NoEdit
        /\ UNCHANGED <<fp, cur, path, stack, scan, host>>
    BY <1>3 DEF writeQuit
  <2>2. slots[fp] \in Slot
    BY <1>1, SlotSelected
  <2>4. len \in 0..(LengthMod - 1)
    BY <1>1, SlotSumType
  <2>5. at \in Pointers
    <3>1. slots[fp].dirno \in 0..NB /\ slots[fp].diroff \in 0..DS
      BY <2>2 DEF Slot
    <3>2. slots[fp].dirno \in Int
      BY <3>1, CellIsInt
    <3> QED
      BY <2>1, <3>1, <3>2, AtType DEF DirLike
  <2>6. PutLen(ents, at, len) \in Ents
    BY <1>1, <2>4, <2>5, PutLenType, TypeParts DEF DiskTyped
  <2>7. DiskTyped'
    BY <1>1, <2>1, <2>6, dowriteType
  <2>8. slots' \in Slots
    BY <1>1, <2>1, <2>4, SlotLenType
  <2> QED
    BY <1>1, <2>1, <2>7, <2>8, ZeroType, TypeParts DEF RestTyped, Modes, Editing
<1> QED
  BY <1>2, <1>3

-----------------------------------------------------------------------------
\* No other action leaves the program in the edit mode, or in rmdir()'s loops.
LEMMA OtherModes ==
  ASSUME \/ startsys \/ startsysTorn \/ existsys \/ CrashWhileSaving \/ Crash
         \/ format \/ LostDirectory \/ close \/ rmdirDone
         \/ \E n \in Names : mkdir(n) \/ create(n) \/ openFile(n) \/ rmfile(n)
         \/ \E p \in PathArgs : cd(p)
  PROVE  mode' # "edit" /\ mode' # "rmdir"
<1>1. CASE startsys \/ startsysTorn \/ existsys \/ CrashWhileSaving \/ Crash
  BY <1>1 DEF startsys, startsysTorn, existsys, CrashWhileSaving, Crash,
              ForgetMemory, Wild
<1>2. CASE format \/ LostDirectory \/ close \/ rmdirDone
  BY <1>2 DEF format, LostDirectory, close, rmdirDone, Typed, Wild
<1>3. ASSUME NEW n \in Names, mkdir(n) \/ create(n) \/ openFile(n)
      PROVE  mode' # "edit" /\ mode' # "rmdir"
  BY <1>3 DEF mkdir, create, openFile, Typed, Wild
<1>4. ASSUME NEW n \in Names, rmfile(n) PROVE mode' # "edit" /\ mode' # "rmdir"
  BY <1>4 DEF rmfile, DeleteFile
<1>5. ASSUME NEW p \in PathArgs, cd(p) PROVE mode' # "edit" /\ mode' # "rmdir"
  BY <1>5 DEF cd, Typed, Wild
<1> QED
  BY <1>1, <1>2, <1>3, <1>4, <1>5

LEMMA TypeStep == ASSUME TypeInv, [Next]_vars PROVE TypeInv'
<1>0. TypeOK /\ Editing /\ Removing
  BY DEF TypeInv
<1> USE DEF TypeInv
<1>1. CASE startsys
  BY <1>0, <1>1, startsysType, OtherModes DEF Editing, Removing
<1>2. CASE startsysTorn
  BY <1>0, <1>2, WildType, OtherModes DEF startsysTorn, Editing, Removing
<1>3. CASE existsys \/ CrashWhileSaving \/ Crash
  BY <1>0, <1>3, EndOfRunType, OtherModes DEF Editing, Removing
<1>4. CASE format
  BY <1>0, <1>4, formatType, OtherModes DEF Editing, Removing
<1>5. CASE LostDirectory
  BY <1>0, <1>5, LostDirectoryType, OtherModes DEF Editing, Removing
<1>6. CASE close
  BY <1>0, <1>6, closeType, OtherModes DEF Editing, Removing
<1>7. CASE rmdirPop
  <2>1. mode' # "edit" /\ (mode' = "rmdir" => UNCHANGED <<cur, text>> /\ mode = "rmdir")
    BY <1>7 DEF rmdirPop, Wild
  <2> QED
    BY <1>0, <1>7, <2>1, rmdirPopType DEF Editing, Removing, DirLike
<1>8. CASE rmdirScan
  <2>1. mode' # "edit"
    BY <1>8 DEF rmdirScan, DeleteFile
  <2> QED
    BY <1>8, <2>1, rmdirScanType DEF Editing
<1>9. CASE rmdirDone
  BY <1>0, <1>9, rmdirDoneType, OtherModes DEF Editing, Removing
<1>10. CASE writeFlush
  <2>1. mode' # "rmdir"
    BY <1>10 DEF writeFlush, Wild
  <2> QED
    BY <1>10, <2>1, writeFlushType DEF Removing
<1>11. CASE \E n \in Names : mkdir(n)
  BY <1>0, <1>11, mkdirType, OtherModes DEF Editing, Removing
<1>12. CASE \E n \in Names : create(n)
  BY <1>0, <1>12, createType, OtherModes DEF Editing, Removing
<1>13. CASE \E n \in Names : openFile(n)
  BY <1>0, <1>13, openFileType, OtherModes DEF Editing, Removing
<1>14. CASE \E n \in Names : rmfile(n)
  BY <1>0, <1>14, rmfileType, OtherModes DEF Editing, Removing
<1>15. CASE \E n \in Names : rmdir(n)
  <2>1. PICK n \in Names : rmdir(n)
    BY <1>15
  <2>2. mode' # "edit" /\ (mode' = "rmdir" => UNCHANGED <<cur, text>> /\ DirLike(cur.first))
    BY <2>1 DEF rmdir, Typed, Wild
  <2> QED
    BY <1>0, <2>1, <2>2, rmdirType DEF Editing, Removing, DirLike
<1>16. CASE \E p \in PathArgs : cd(p)
  BY <1>0, <1>16, cdType, OtherModes DEF Editing, Removing
<1>17. CASE \E id \in TextIds : write(id)
  <2>1. PICK id \in TextIds : write(id)
    BY <1>17
  <2>2. mode' # "rmdir"
    BY <2>1 DEF write, Typed, Wild
  <2> QED
    BY <1>0, <2>1, <2>2, writeType DEF Removing
<1>18. CASE \E n \in 0..BlockSize, spill \in {"no", "", JunkName} : writeQuit(n, spill)
  <2>1. PICK n \in 0..BlockSize, spill \in {"no", "", JunkName} : writeQuit(n, spill)
    BY <1>18
  <2>2. mode' # "rmdir"
    BY <2>1 DEF writeQuit, Wild
  <2> QED
    BY <2>1, <2>2, writeQuitType DEF Removing
<1>19. CASE UNCHANGED vars
  BY <1>0, <1>19, TypeParts
     DEF vars, DiskTyped, RestTyped, Editing, Removing, DirLike
<1> QED
  BY <1>1, <1>2, <1>3, <1>4, <1>5, <1>6, <1>7, <1>8, <1>9, <1>10, <1>11, <1>12,
     <1>13, <1>14, <1>15, <1>16, <1>17, <1>18, <1>19 DEF Next, Command, RmdirStep

(***************************************************************************)
(* In every session, whatever the commands and the crashes, every variable *)
(* keeps its type: table cells, first blocks and directory numbers address *)
(* cells that exist, lengths stay within an unsigned int.                  *)
(***************************************************************************)
THEOREM TypesKept == Spec => []TypeInv
<1>1. Init => TypeInv
  BY InitType
<1>2. TypeInv /\ [Next]_vars => TypeInv'
  BY TypeStep
<1> QED
  BY <1>1, <1>2, PTL DEF Spec

THEOREM TypeCorrect == Spec => []TypeOK
<1>1. TypeInv => TypeOK
  BY DEF TypeInv
<1> QED
  BY <1>1, TypesKept, PTL

-----------------------------------------------------------------------------
(***************************************************************************)
(* openfilelist[-1].                                                       *)
(***************************************************************************)
LEMMA openFileKeepsFree ==
  ASSUME TypeOK, NoSlotMeansFreeSlot, NEW n \in Names, openFile(n)
  PROVE  NoSlotMeansFreeSlot'
<1>1. PICK j \in 0..MaxOpen :
        /\ \A x \in 0..(MaxOpen - 1) : x < j => slots[x].name \notin {"", n}
        /\ IF j = MaxOpen THEN fp' = fp ELSE fp' = j
  BY DEF openFile, StopsAt
<1>2. CASE j = MaxOpen
  <2>1. \A x \in 0..(MaxOpen - 1) : x < MaxOpen
    BY ShellFacts
  <2>2. \A x \in 0..(MaxOpen - 1) : slots[x].name # ""
    BY <1>1, <1>2, <2>1
  <2>3. fp' # -1
    BY <1>1, <1>2, <2>2 DEF NoSlotMeansFreeSlot
  <2> QED
    BY <2>3 DEF NoSlotMeansFreeSlot
<1>3. CASE j # MaxOpen
  <2>1. fp' # -1
    <3>1. \A x \in 0..MaxOpen : x # -1
      BY ShellFacts
    <3> QED
      BY <1>1, <1>3, <3>1
  <2> QED
    BY <2>1 DEF NoSlotMeansFreeSlot
<1> QED
  BY <1>2, <1>3

LEMMA closeKeepsFree == ASSUME TypeOK, close PROVE NoSlotMeansFreeSlot'
<1>1. fp \in 0..(MaxOpen - 1) /\ slots \in Slots /\ slots' = [slots EXCEPT ![fp] = EmptySlot]
  BY SlotSelected DEF close
<1>2. slots'[fp].name = ""
  BY <1>1 DEF Slots, EmptySlot
<1> QED
  BY <1>1, <1>2 DEF NoSlotMeansFreeSlot

LEMMA FreeStep ==
  ASSUME TypeInv, NoSlotMeansFreeSlot, [Next]_vars PROVE NoSlotMeansFreeSlot'
<1>0. TypeOK /\ Editing
  BY DEF TypeInv
<1>1. CASE startsys
  <2>1. fp' = 0
    BY <1>1 DEF startsys
  <2>2. fp' # -1
    BY <2>1
  <2> QED
    BY <2>2 DEF NoSlotMeansFreeSlot
<1>2. CASE UNCHANGED open
  BY <1>2 DEF open, NoSlotMeansFreeSlot
<1>3. CASE existsys \/ CrashWhileSaving \/ Crash
  <2>1. fp' = 0
    BY <1>3 DEF existsys, CrashWhileSaving, Crash, ForgetMemory
  <2>2. fp' # -1
    BY <2>1
  <2> QED
    BY <2>2 DEF NoSlotMeansFreeSlot
<1>4. CASE startsysTorn \/ format \/ LostDirectory
  BY <1>2, <1>4 DEF startsysTorn, format, LostDirectory, Wild, open
<1>5. CASE close
  BY <1>0, <1>5, closeKeepsFree
<1>6. CASE RmdirStep
  <2>1. UNCHANGED open
    BY <1>6 DEF RmdirStep, rmdirPop, rmdirScan, rmdirDone, Wild, open
  <2> QED
    BY <1>2, <2>1
<1>7. CASE writeFlush
  <2>1. UNCHANGED open \/ (fp' = fp /\ fp # -1)
    BY <1>0, <1>7 DEF writeFlush, Wild, open, Editing
  <2> QED
    BY <1>2, <2>1 DEF NoSlotMeansFreeSlot
<1>8. ASSUME NEW n \in Names, mkdir(n) \/ create(n) \/ rmfile(n) \/ rmdir(n)
      PROVE  NoSlotMeansFreeSlot'
  <2>1. UNCHANGED open
    BY <1>8 DEF mkdir, create, rmfile, rmdir, Wild, open
  <2> QED
    BY <1>2, <2>1
<1>9. ASSUME NEW n \in Names, openFile(n) PROVE NoSlotMeansFreeSlot'
  BY <1>0, <1>9, openFileKeepsFree
<1>10. ASSUME NEW p \in PathArgs, cd(p) PROVE NoSlotMeansFreeSlot'
  <2>1. UNCHANGED open \/ (fp' = fp /\ fp # -1)
    BY <1>10 DEF cd, Wild, open
  <2> QED
    BY <1>2, <2>1 DEF NoSlotMeansFreeSlot
<1>11. ASSUME NEW id \in TextIds, write(id) PROVE NoSlotMeansFreeSlot'
  <2>1. UNCHANGED open \/ (fp' = fp /\ fp # -1)
    BY <1>11 DEF write, Wild, open
  <2> QED
    BY <1>2, <2>1 DEF NoSlotMeansFreeSlot
<1>12. ASSUME NEW n \in 0..BlockSize, NEW spill \in {"no", "", JunkName},
              writeQuit(n, spill)
       PROVE  NoSlotMeansFreeSlot'
  <2>1. UNCHANGED open \/ (fp' = fp /\ fp # -1)
    BY <1>0, <1>12 DEF writeQuit, Wild, open, Editing
  <2> QED
    BY <1>2, <2>1 DEF NoSlotMeansFreeSlot
<1>13. CASE UNCHANGED vars
  BY <1>2, <1>13 DEF vars, open
<1> QED
  BY <1>1, <1>3, <1>4, <1>5, <1>6, <1>7, <1>8, <1>9, <1>10, <1>11, <1>12, <1>13
     DEF Next, Command

(***************************************************************************)
(* Although close() leaves fileopenptr at -1, open() never overwrites      *)
(* openfilelist[-1]: it falls back on fileopenptr only when no slot is     *)
(* free, and then fileopenptr is a slot.                                   *)
(***************************************************************************)
THEOREM FreeSlotKept == Spec => []NoSlotMeansFreeSlot
<1>1. Init => NoSlotMeansFreeSlot
  <2>1. Init => fp = 0
    BY DEF Init
  <2>2. Init => fp # -1
    BY <2>1
  <2> QED
    BY <2>2 DEF NoSlotMeansFreeSlot
<1>2. TypeInv /\ NoSlotMeansFreeSlot /\ [Next]_vars => NoSlotMeansFreeSlot'
  BY FreeStep
<1> QED
  BY <1>1, <1>2, TypesKept, PTL DEF Spec
=============================================================================
