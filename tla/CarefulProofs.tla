--------------------------- MODULE CarefulProofs ---------------------------
(***************************************************************************)
(* What a careful session keeps, for every size of the disk and every      *)
(* length of the session: no command leaves what is decoded, and no start  *)
(* but from an image that a crash left half written; the volume and every  *)
(* whole image are sound, the current directory and the open files are     *)
(* what the program takes them for.                                        *)
(***************************************************************************)
EXTENDS CarefulSession, FileSystemProofs, FiniteSetTheorems, WellFoundedInduction,
        NaturalsInduction

(***************************************************************************)
(* The inductive invariant (CarefulInv).                                   *)
(***************************************************************************)
Bodies == 2..(DS - 1)

(***************************************************************************)
(* The entries in use, by block and place.  While rmdir() empties the      *)
(* block D of a directory it has unlinked, the entries in D are set aside; *)
(* otherwise D is 0, which is no directory's block.                        *)
(***************************************************************************)
Named(e, t, D, b, k) ==
    /\ b \in Root..NB /\ k \in Bodies /\ b # D
    /\ t[b] = NoText /\ e[b][k].name # ""
Branch(e, t, D, b, k) == Named(e, t, D, b, k) /\ e[b][k].attr = DIR
Vacant(e, b, k) == e[b][k].name = ""
Hollow(e, b) == \A k \in Bodies : Vacant(e, b, k)
Dot(x, n, b) == x.name = n /\ x.attr = DIR /\ x.first = b

\* Exclusive, for the entries outside D.
Owned(f, e, t, D) ==
    /\ \A b, c \in Root..NB, k, l \in Bodies :
          Named(e, t, D, b, k) /\ Named(e, t, D, c, l) /\ e[b][k].first = e[c][l].first
              => b = c /\ k = l
    /\ \A c, d \in Links(f) : f[c] = f[d] => c = d
    /\ \A b \in Root..NB, k \in Bodies, c \in Links(f) :
          Named(e, t, D, b, k) => e[b][k].first # f[c]
    /\ \A b \in Root..NB, k \in Bodies :
          Named(e, t, D, b, k) => e[b][k].first \in DataBlock /\ f[e[b][k].first] # FREE
    /\ \A c \in Links(f) : f[c] \in DataBlock /\ f[f[c]] # FREE

\* The root's block and the ones that entries of directories name.
House(e, t, D, b) ==
    \/ b = Root
    \/ \E c \in Root..NB, l \in Bodies : Branch(e, t, D, c, l) /\ e[c][l].first = b

\* Entries are in the root's block or in one that an entry names; no two of a
\* block have the same name.
Housed(e, t, D) ==
    /\ \A b \in Root..NB, k \in Bodies : Named(e, t, D, b, k) =>
          /\ e[b][k].attr \in {DIR, FILE} /\ e[b][k].name \in Names
          /\ House(e, t, D, b)
    /\ \A b \in Root..NB, k, l \in Bodies :
          Named(e, t, D, b, k) /\ Named(e, t, D, b, l) /\ e[b][k].name = e[b][l].name
              => k = l

\* Rooted, with the names that lookups go by.
Dots(f, e, t, D) ==
    /\ t[Root] = NoText /\ Dot(e[Root][0], ".", Root) /\ Dot(e[Root][1], "..", Root)
    /\ \A b \in Root..NB, k \in Bodies : Branch(e, t, D, b, k) =>
          /\ f[e[b][k].first] = END /\ t[e[b][k].first] = NoText
          /\ Dot(e[e[b][k].first][0], ".", e[b][k].first)
          /\ Dot(e[e[b][k].first][1], "..", b)

\* What has no name has no attribute either: a lookup of "" finds nothing.
Unnamed(e) == \A b \in Block, k \in Bodies : e[b][k].name = "" => e[b][k].attr = 0

Volumed(f, e, t, D) == /\ Reserved(f) /\ Owned(f, e, t, D) /\ Housed(e, t, D)
                       /\ Dots(f, e, t, D) /\ FreeIsBlank(f, e, t) /\ Unnamed(e)

\* Counted, but the directory with block x has one subdirectory more.
Length(e, b, x, l) == l + (IF b = x THEN 1 ELSE 0) = 2 + Cardinality(Subdirs(e, b))
Lengths(e, t, D, x) ==
    /\ Length(e, Root, x, e[Root][0].len)
    /\ \A b \in Root..NB, k \in Bodies : Branch(e, t, D, b, k) =>
          Length(e, e[b][k].first, x, e[b][k].len)

\* No entry refers to D.
Detached(e, t, D) ==
    D # Root /\ \A b \in Root..NB, k \in Bodies : Named(e, t, D, b, k) => e[b][k].first # D

\* The current directory's own entry; the blocks w along the path q.
Here(e, t, D, c) ==
    \/ c = [first |-> Root, dirno |-> Root, diroff |-> 0]
    \/ Branch(e, t, D, c.dirno, c.diroff) /\ e[c.dirno][c.diroff].first = c.first
Passes(e, t, D, q, w) ==
    /\ q[1] = "root" /\ w[1] = Root
    /\ \A i \in 2..Len(q) : \E k \in Bodies :
          /\ Branch(e, t, D, w[i - 1], k)
          /\ e[w[i - 1]][k].name = q[i] /\ e[w[i - 1]][k].first = w[i]
    /\ \A i, j \in 1..Len(q) : w[i] = w[j] => i = j
Walked(e, t, D, q, b) ==
    /\ Len(q) >= 1
    /\ \E w \in [1..Len(q) -> Root..NB] : Passes(e, t, D, q, w) /\ w[Len(q)] = b

\* An open file has the entry its slot says.
Fits(e, t, D, x) ==
    x.attr = FILE => /\ Named(e, t, D, x.dirno, x.diroff)
                     /\ e[x.dirno][x.diroff].attr = FILE
                     /\ e[x.dirno][x.diroff].name = x.name
                     /\ e[x.dirno][x.diroff].first = x.first
Held(e, t, D, s) == \A j \in 0..(MaxOpen - 1) : Fits(e, t, D, s[j])

Settled(D, x) == /\ Volumed(fat, ents, text, D) /\ Lengths(ents, text, D, x)
                 /\ Here(ents, text, D, cur) /\ Walked(ents, text, D, path, cur.first)
                 /\ Held(ents, text, D, slots)

\* rmdir() before it takes the entry off its stack.
Emptiable(e, b) == \A l \in Bodies : ~ Vacant(e, b, l) =>
                      e[b][l].attr = DIR /\ Hollow(e, e[b][l].first)
Unlinking ==
    /\ Settled(0, cur.first) /\ scan.idx = DS
    /\ \E k \in Bodies : /\ stack = <<[blk |-> cur.first, idx |-> k]>>
                          /\ Branch(ents, text, 0, cur.first, k)
                          /\ Emptiable(ents, ents[cur.first][k].first)

\* An empty directory still named in D, and named or linked to nowhere else.
Doomed(f, e, t, D, k) ==
    /\ e[D][k].attr = DIR
    /\ e[D][k].first \in DataBlock /\ e[D][k].first # D
    /\ t[e[D][k].first] = NoText /\ Hollow(e, e[D][k].first)
    /\ \A l \in Bodies : ~ Vacant(e, D, l) /\ e[D][l].first = e[D][k].first => l = k
    /\ \A b \in Root..NB, l \in Bodies :
          Named(e, t, D, b, l) => e[b][l].first # e[D][k].first
    /\ \A c \in Links(f) : f[c] # e[D][k].first

\* rmdir() while it empties D: what is left in D is on the stack or still to be
\* looked at, and any other block it looks at is empty.
Alone(f, e, t, D) == /\ D \in DataBlock /\ t[D] = NoText /\ f[D] = END
                     /\ Detached(e, t, D) /\ \A c \in Links(f) : f[c] # D
OnStack(st, D, k) == \E i \in 1..Len(st) : st[i] = [blk |-> D, idx |-> k]
Remaining(f, e, t, D) == \A k \in Bodies : ~ Vacant(e, D, k) => Doomed(f, e, t, D, k)
Pending(e, st, sc, D) ==
    /\ \A k \in Bodies :
          ~ Vacant(e, D, k) => OnStack(st, D, k) \/ (sc.blk = D /\ k >= sc.idx)
    /\ \A i \in 1..Len(st) :
          /\ st[i].blk = D /\ st[i].idx \in Bodies /\ ~ Vacant(e, D, st[i].idx)
          /\ sc.blk = D => st[i].idx < sc.idx
    /\ \A i, j \in 1..Len(st) : st[i].idx = st[j].idx => i = j
    /\ sc.idx >= 2
    /\ sc.blk = D => Len(st) <= sc.idx - 2
    /\ sc.blk # D => Hollow(e, sc.blk)
Emptying(D) == /\ Settled(D, 0) /\ Alone(fat, ents, text, D)
               /\ Remaining(fat, ents, text, D) /\ Pending(ents, stack, scan, D)

CarefulInv ==
    /\ mode # "wild" /\ host.state # "torn"
    /\ host.state = "saved" => /\ Volumed(host.fat, host.ents, host.text, 0)
                               /\ Lengths(host.ents, host.text, 0, 0)
    /\ mode = "off" => \A j \in 0..(MaxOpen - 1) : slots[j].attr # FILE
    /\ mode # "rmdir" => scan.idx = DS
    /\ mode \in {"shell", "edit"} => Settled(0, 0)
    /\ mode = "edit" => fp # -1 /\ slots[fp].attr = FILE
    /\ mode = "rmdir" => Unlinking \/ \E D \in DataBlock : Emptying(D)

\* After a crash inside a save: the image is lost, and a start from it goes wild.
Torn == host.state = "torn" /\ mode \in {"off", "wild"}

\* Whoever runs has saved an image, at the first start or later.
Imaged == mode \in {"shell", "edit", "rmdir"} => host.state = "saved"

-----------------------------------------------------------------------------
(***************************************************************************)
(* Chains.                                                                 *)
(***************************************************************************)
LEMMA Layout == /\ \A b \in DataBlock : b \in Root..NB /\ b \in Block /\ b \in 0..NB
                                        /\ b # Root /\ b # NB /\ b # 0 /\ b + 1 \in Block
                /\ \A b \in Root..NB : b \in Block /\ b \in 0..NB /\ b # 0
                /\ \A k \in Bodies : k \in Index /\ k # 0 /\ k # 1
                /\ \A k \in Index : k \in Bodies \/ k = 0 \/ k = 1
                /\ 0 \notin Root..NB /\ Root \in Root..NB /\ Root \notin DataBlock
  BY Sizes DEF DataBlock, Bodies, Block, Index

\* A set that holds the start of a chain and what its cells lead to holds the chain.
LEMMA ChainLeast ==
  ASSUME NEW f \in Fats, NEW b \in 0..NB, NEW T, b \in T,
         \A x \in T \cap Chain(f, b) : IsLink(f, x) => f[x] \in T
  PROVE  Chain(f, b) \subseteq T
<1> DEFINE cand == {b} \cup {f[x] : x \in {y \in 0..NB : IsLink(f, y)}}
<1>1. Chain(f, b) = {x \in cand : \A S \in SUBSET cand :
                                      b \in S /\ Closed(f, S) => x \in S}
  BY DEF Chain
<1>2. /\ b \in Chain(f, b)
      /\ \A x \in Chain(f, b) : IsLink(f, x) => f[x] \in Chain(f, b)
  BY ChainClosed
<1> HIDE DEF cand
<1>3. T \cap Chain(f, b) \in SUBSET cand
  BY <1>1
<1>4. Closed(f, T \cap Chain(f, b))
  BY <1>2 DEF Closed
<1> QED
  BY <1>1, <1>2, <1>3, <1>4

\* Every block of a chain but the first has one in the chain that leads to it.
LEMMA ChainBefore ==
  ASSUME NEW f \in Fats, NEW b \in 0..NB, NEW x \in Chain(f, b), x # b
  PROVE  \E y \in Chain(f, b) : IsLink(f, y) /\ f[y] = x
<1> SUFFICES ASSUME \A y \in Chain(f, b) : IsLink(f, y) => f[y] # x
             PROVE  FALSE
  OBVIOUS
<1>1. /\ b \in Chain(f, b)
      /\ \A y \in Chain(f, b) : IsLink(f, y) => f[y] \in Chain(f, b)
  BY ChainClosed
<1> DEFINE T == Chain(f, b) \ {x}
<1>2. b \in T /\ \A y \in T \cap Chain(f, b) : IsLink(f, y) => f[y] \in T
  BY <1>1
<1>3. x \notin T
  OBVIOUS
<1> HIDE DEF T
<1>4. Chain(f, b) \subseteq T
  BY <1>2, ChainLeast
<1> QED
  BY <1>3, <1>4

\* The blocks of an entry belong to it alone: they are allocated data blocks, and
\* neither another entry nor a cell outside the chain leads into it.
LEMMA EntryChain ==
  ASSUME NEW f \in Fats, NEW e, NEW t, NEW D, Owned(f, e, t, D),
         NEW b0, NEW k0, Named(e, t, D, b0, k0)
  PROVE  /\ e[b0][k0].first \in Chain(f, e[b0][k0].first)
         /\ Chain(f, e[b0][k0].first) \subseteq DataBlock
         /\ \A x \in Chain(f, e[b0][k0].first) :
               /\ f[x] # FREE /\ (IsLink(f, x) => f[x] \in Chain(f, e[b0][k0].first))
               /\ ~ IsLink(f, x) => f[x] = END
         /\ \A c \in Links(f) :
               f[c] \in Chain(f, e[b0][k0].first) => c \in Chain(f, e[b0][k0].first)
         /\ \A b \in Root..NB, k \in Bodies :
               Named(e, t, D, b, k) /\ e[b][k].first \in Chain(f, e[b0][k0].first)
                   => b = b0 /\ k = k0
<1> DEFINE x0 == e[b0][k0].first
           S == Chain(f, x0)
<1>0. b0 \in Root..NB /\ k0 \in Bodies
  BY DEF Named
<1>1. x0 \in DataBlock /\ f[x0] # FREE
  BY <1>0 DEF Owned
<1>2. x0 \in 0..NB
  BY <1>1, Layout
<1>3. x0 \in S /\ \A x \in S : IsLink(f, x) => f[x] \in S
  BY <1>2, ChainClosed
<1>4. S \subseteq DataBlock
  <2>1. \A x \in DataBlock \cap S : IsLink(f, x) => f[x] \in DataBlock
    BY DEF Owned, Links
  <2> QED
    BY <1>1, <1>2, <2>1, ChainLeast
<1>5. ASSUME NEW x \in S, x # x0 PROVE \E y \in S : y \in Links(f) /\ f[y] = x
  BY <1>2, <1>4, <1>5, ChainBefore DEF Links
<1> HIDE DEF S, x0
<1>6. ASSUME NEW x \in S PROVE f[x] # FREE /\ (~ IsLink(f, x) => f[x] = END)
  <2>1. f[x] # FREE
    BY <1>1, <1>5 DEF Owned
  <2> QED
    BY <2>1 DEF IsLink
<1>7. ASSUME NEW c \in Links(f), f[c] \in S PROVE c \in S
  <2>1. f[c] # x0
    BY <1>0 DEF Owned, x0
  <2>2. PICK y \in S : y \in Links(f) /\ f[y] = f[c]
    BY <1>5, <1>7, <2>1
  <2> QED
    BY <2>2 DEF Owned
<1>8. ASSUME NEW b \in Root..NB, NEW k \in Bodies, Named(e, t, D, b, k), e[b][k].first \in S
      PROVE  b = b0 /\ k = k0
  <2>1. e[b][k].first = x0
    BY <1>5, <1>8 DEF Owned
  <2> QED
    BY <1>0, <1>8, <2>1 DEF Owned, x0
<1> QED
  BY <1>3, <1>4, <1>6, <1>7, <1>8 DEF S, x0

-----------------------------------------------------------------------------
(***************************************************************************)
(* What the parts of the invariant depend on: the names, attributes and    *)
(* first blocks of the entries in use, and the dots of the directories.    *)
(***************************************************************************)
Fewer(e, t, D, e2, t2, D2) ==
    \A b \in Root..NB, k \in Bodies : Named(e2, t2, D2, b, k) =>
        /\ Named(e, t, D, b, k) /\ e2[b][k].name = e[b][k].name
        /\ e2[b][k].attr = e[b][k].attr /\ e2[b][k].first = e[b][k].first
Same(e, t, e2, t2, D) == Fewer(e, t, D, e2, t2, D) /\ Fewer(e2, t2, D, e, t, D)
\* The directories of (e2, t2) outside D2 have the dots they had.
SameDots(e, t, e2, t2, D2) ==
    \A b : House(e2, t2, D2, b) =>
        /\ t[b] = NoText => t2[b] = NoText
        /\ \A k \in {0, 1} : /\ e2[b][k].name = e[b][k].name
                             /\ e2[b][k].attr = e[b][k].attr
                             /\ e2[b][k].first = e[b][k].first

LEMMA FewerOwned ==
  ASSUME NEW f, NEW e, NEW t, NEW D, NEW e2, NEW t2, NEW D2,
         Owned(f, e, t, D), Fewer(e, t, D, e2, t2, D2)
  PROVE  Owned(f, e2, t2, D2)
  BY DEF Owned, Fewer

LEMMA FewerDots ==
  ASSUME NEW f, NEW e, NEW t, NEW D, NEW e2, NEW t2, NEW D2,
         Dots(f, e, t, D), Fewer(e, t, D, e2, t2, D2), SameDots(e, t, e2, t2, D2)
  PROVE  Dots(f, e2, t2, D2)
<1>1. House(e2, t2, D2, Root)
  BY DEF House
<1>2. t2[Root] = NoText /\ Dot(e2[Root][0], ".", Root) /\ Dot(e2[Root][1], "..", Root)
  BY <1>1 DEF Dots, SameDots, Dot
<1>3. ASSUME NEW b \in Root..NB, NEW k \in Bodies, Branch(e2, t2, D2, b, k)
      PROVE  /\ f[e2[b][k].first] = END /\ t2[e2[b][k].first] = NoText
             /\ Dot(e2[e2[b][k].first][0], ".", e2[b][k].first)
             /\ Dot(e2[e2[b][k].first][1], "..", b)
  <2>1. Branch(e, t, D, b, k) /\ e2[b][k].first = e[b][k].first
    BY <1>3 DEF Branch, Fewer
  <2>2. House(e2, t2, D2, e2[b][k].first)
    BY <1>3 DEF House
  <2> QED
    BY <2>1, <2>2 DEF Dots, SameDots, Dot
<1> QED
  BY <1>2, <1>3 DEF Dots

LEMMA SameBranch ==
  ASSUME NEW e, NEW t, NEW D, NEW e2, NEW t2, Same(e, t, e2, t2, D)
  PROVE  /\ \A b \in Root..NB, k \in Bodies : /\ Named(e2, t2, D, b, k) <=> Named(e, t, D, b, k)
                                              /\ Branch(e2, t2, D, b, k) <=> Branch(e, t, D, b, k)
         /\ \A b \in Root..NB, k \in Bodies : Named(e, t, D, b, k) =>
               /\ e2[b][k].name = e[b][k].name /\ e2[b][k].attr = e[b][k].attr
               /\ e2[b][k].first = e[b][k].first
         /\ \A b : House(e2, t2, D, b) <=> House(e, t, D, b)
<1>1. \A b \in Root..NB, k \in Bodies : /\ Named(e2, t2, D, b, k) <=> Named(e, t, D, b, k)
                                        /\ Branch(e2, t2, D, b, k) <=> Branch(e, t, D, b, k)
  BY DEF Same, Fewer, Branch
<1>2. \A b \in Root..NB, k \in Bodies : Named(e, t, D, b, k) =>
               /\ e2[b][k].name = e[b][k].name /\ e2[b][k].attr = e[b][k].attr
               /\ e2[b][k].first = e[b][k].first
  BY DEF Same, Fewer
<1>3. \A b : House(e2, t2, D, b) <=> House(e, t, D, b)
  BY <1>1, <1>2 DEF House, Branch
<1> QED
  BY <1>1, <1>2, <1>3

LEMMA SameHoused ==
  ASSUME NEW e, NEW t, NEW D, NEW e2, NEW t2, Same(e, t, e2, t2, D), Housed(e, t, D)
  PROVE  Housed(e2, t2, D)
  BY SameBranch DEF Housed

\* A directory's block, and the entries in it that are in use.
LEMMA HouseFacts ==
  ASSUME NEW f, NEW e, NEW t, NEW D, Owned(f, e, t, D), Dots(f, e, t, D),
         Detached(e, t, D), NEW b, House(e, t, D, b)
  PROVE  /\ b \in Root..NB /\ (b = Root \/ b \in DataBlock) /\ b # D /\ t[b] = NoText
         /\ \A k \in Bodies : e[b][k].name # "" => Named(e, t, D, b, k)
<1>1. b \in Root..NB /\ (b = Root \/ b \in DataBlock) /\ b # D /\ t[b] = NoText
  <2>1. CASE b = Root
    BY <2>1, Layout DEF Dots, Detached
  <2>2. CASE b # Root
    <3>1. PICK c \in Root..NB, l \in Bodies : Branch(e, t, D, c, l) /\ e[c][l].first = b
      BY <2>2 DEF House
    <3> QED
      BY <3>1, Layout DEF Dots, Owned, Branch, Detached
  <2> QED
    BY <2>1, <2>2
<1> QED
  BY <1>1 DEF Named

LEMMA HouseEnd ==
  ASSUME NEW f, NEW e, NEW t, NEW D, Volumed(f, e, t, D), NEW b, House(e, t, D, b)
  PROVE  b = Root \/ (b \in DataBlock /\ f[b] = END)
<1>1. CASE b = Root
  BY <1>1
<1>2. CASE b # Root
  <2>1. PICK c \in Root..NB, l \in Bodies : Branch(e, t, D, c, l) /\ e[c][l].first = b
    BY <1>2 DEF House
  <2> QED
    BY <2>1 DEF Volumed, Dots, Owned, Branch
<1> QED
  BY <1>1, <1>2

LEMMA SameLengths ==
  ASSUME NEW f, NEW f2, NEW e, NEW t, NEW D, NEW e2, NEW t2, NEW x, Same(e, t, e2, t2, D),
         Owned(f, e, t, D), Dots(f, e, t, D), Dots(f2, e2, t2, D), Detached(e, t, D),
         Lengths(e, t, D, x), e2[Root][0].len = e[Root][0].len,
         \A b \in Root..NB, k \in Bodies :
             Branch(e, t, D, b, k) => e2[b][k].len = e[b][k].len
  PROVE  Lengths(e2, t2, D, x)
<1>0. \A b \in Root..NB, k \in Bodies :
          /\ Named(e2, t2, D, b, k) <=> Named(e, t, D, b, k)
          /\ Named(e, t, D, b, k) => e2[b][k].attr = e[b][k].attr
  BY SameBranch
<1>1. ASSUME NEW b, House(e, t, D, b) PROVE Subdirs(e2, b) = Subdirs(e, b)
  <2>1. b \in Root..NB /\ b # D /\ \A k \in Bodies : e[b][k].name # "" => Named(e, t, D, b, k)
    BY <1>1, HouseFacts
  <2>2. t2[b] = NoText
    <3>1. House(e2, t2, D, b)
      BY <1>1, SameBranch
    <3> QED
      BY <3>1 DEF House, Dots
  <2>3. \A k \in Bodies : e2[b][k].name # "" => Named(e2, t2, D, b, k)
    BY <2>1, <2>2 DEF Named
  <2>4. \A k \in Bodies : /\ e2[b][k].name # "" <=> e[b][k].name # ""
                          /\ e[b][k].name # "" => e2[b][k].attr = e[b][k].attr
    <3>1. \A k \in Bodies : /\ Named(e2, t2, D, b, k) <=> Named(e, t, D, b, k)
                            /\ Named(e, t, D, b, k) => e2[b][k].attr = e[b][k].attr
      BY <1>0, <2>1
    <3> QED
      BY <2>1, <2>3, <3>1 DEF Named
  <2> QED
    BY <2>4 DEF Subdirs, Bodies
<1>2. Length(e2, Root, x, e2[Root][0].len)
  BY <1>1 DEF House, Length, Lengths
<1>3. ASSUME NEW b \in Root..NB, NEW k \in Bodies, Branch(e2, t2, D, b, k)
      PROVE  Length(e2, e2[b][k].first, x, e2[b][k].len)
  <2>1. Branch(e, t, D, b, k)
    BY <1>3, SameBranch
  <2>2. e2[b][k].first = e[b][k].first /\ e2[b][k].len = e[b][k].len
    BY <2>1, SameBranch DEF Branch
  <2>3. House(e, t, D, e[b][k].first)
    BY <2>1 DEF House
  <2>4. Length(e, e[b][k].first, x, e[b][k].len)
    BY <2>1 DEF Lengths
  <2> QED
    BY <1>1, <2>2, <2>3, <2>4 DEF Length
<1> QED
  BY <1>2, <1>3 DEF Lengths

LEMMA SameWalked ==
  ASSUME NEW e, NEW t, NEW D, NEW e2, NEW t2, NEW D2, NEW q, NEW b,
         Walked(e, t, D, q, b),
         \A c \in Root..NB, k \in Bodies : Branch(e, t, D, c, k) =>
            /\ Branch(e2, t2, D2, c, k) /\ e2[c][k].name = e[c][k].name
            /\ e2[c][k].first = e[c][k].first
  PROVE  Walked(e2, t2, D2, q, b)
<1>1. PICK w \in [1..Len(q) -> Root..NB] : Passes(e, t, D, q, w) /\ w[Len(q)] = b
  BY DEF Walked
<1>2. Passes(e2, t2, D2, q, w)
  <2> SUFFICES ASSUME NEW i \in 2..Len(q)
               PROVE  \E k \in Bodies :
                         /\ Branch(e2, t2, D2, w[i - 1], k)
                         /\ e2[w[i - 1]][k].name = q[i] /\ e2[w[i - 1]][k].first = w[i]
    BY <1>1 DEF Passes
  <2>1. PICK k \in Bodies : /\ Branch(e, t, D, w[i - 1], k)
                            /\ e[w[i - 1]][k].name = q[i] /\ e[w[i - 1]][k].first = w[i]
    BY <1>1 DEF Passes
  <2>2. w[i - 1] \in Root..NB
    BY <2>1 DEF Branch, Named
  <2> QED
    BY <2>1, <2>2
<1> QED
  BY <1>1, <1>2 DEF Walked

-----------------------------------------------------------------------------
(***************************************************************************)
(* mkdir and create: the entry (B, K) is given the name n and the block i, *)
(* which was FREE, and the cell of i is END.                               *)
(***************************************************************************)
AsBefore(x, y) == x.name = y.name /\ x.attr = y.attr /\ x.first = y.first
Added(e, e2, B, K, n, a, i) ==
    /\ e2[B][K].name = n /\ e2[B][K].attr = a /\ e2[B][K].first = i
    /\ \A b \in Block, k \in Bodies : b # B \/ k # K => AsBefore(e2[b][k], e[b][k])
Allotted(f, f2, i) ==
    i \in DataBlock /\ f[i] = FREE /\ f2[i] = END /\ \A c \in 0..NB : c # i => f2[c] = f[c]
Room(e, t, B, K, n) ==
    /\ House(e, t, 0, B) /\ K \in Bodies /\ e[B][K].name = "" /\ n \in Names
    /\ \A k \in Bodies : e[B][k].name # n

LEMMA AddNamed ==
  ASSUME NEW f, NEW e, NEW t, NEW e2, NEW B, NEW K, NEW n, NEW a, NEW i,
         Volumed(f, e, t, 0), Room(e, t, B, K, n), Added(e, e2, B, K, n, a, i)
  PROVE  /\ B \in Root..NB /\ (B = Root \/ B \in DataBlock) /\ t[B] = NoText
         /\ Named(e2, t, 0, B, K) /\ ~ Named(e, t, 0, B, K)
         /\ \A b \in Root..NB, k \in Bodies : Named(e2, t, 0, b, k) /\ (b # B \/ k # K) =>
               Named(e, t, 0, b, k)
         /\ \A b \in Root..NB, k \in Bodies : Named(e, t, 0, b, k) =>
               /\ Named(e2, t, 0, b, k) /\ AsBefore(e2[b][k], e[b][k])
               /\ b # B \/ k # K
<1>1. Detached(e, t, 0)
  BY Layout, Sizes DEF Detached, Volumed, Owned
<1>2. B \in Root..NB /\ (B = Root \/ B \in DataBlock) /\ t[B] = NoText
  <2>1. Owned(f, e, t, 0) /\ Dots(f, e, t, 0) /\ House(e, t, 0, B)
    BY DEF Volumed, Room
  <2> QED
    BY <1>1, <2>1, HouseFacts
<1>3. n # ""
  BY NamesAssumption DEF Room
<1>4. \A b \in Root..NB : b \in Block /\ b # 0
  BY Layout
<1>5. Named(e2, t, 0, B, K) /\ ~ Named(e, t, 0, B, K)
  BY <1>2, <1>3, <1>4 DEF Named, Added, Room
<1> QED
  BY <1>2, <1>4, <1>5 DEF Named, Added, AsBefore

LEMMA AddOwned ==
  ASSUME NEW f, NEW f2, NEW e, NEW t, NEW e2, NEW B, NEW K, NEW n, NEW a, NEW i,
         Volumed(f, e, t, 0), Room(e, t, B, K, n), Added(e, e2, B, K, n, a, i),
         Allotted(f, f2, i)
  PROVE  Owned(f2, e2, t, 0)
<1>0. /\ \A b \in Root..NB, k \in Bodies : Named(e2, t, 0, b, k) /\ (b # B \/ k # K) =>
            Named(e, t, 0, b, k)
      /\ \A b \in Root..NB, k \in Bodies : Named(e, t, 0, b, k) => AsBefore(e2[b][k], e[b][k])
  BY AddNamed
<1>1. /\ \A b \in Root..NB, k \in Bodies : Named(e2, t, 0, b, k) /\ (b # B \/ k # K) =>
            Named(e, t, 0, b, k) /\ e2[b][k].first = e[b][k].first
      /\ e2[B][K].first = i
  BY <1>0 DEF AsBefore, Added
<1>2. Links(f2) = Links(f) /\ \A c \in Links(f) : f2[c] = f[c] /\ c # i /\ f[c] # i
  <2>1. \A c \in DataBlock : c \in 0..NB
    BY Layout
  <2>2. Links(f) \subseteq DataBlock /\ i \notin Links(f) /\ i \notin Links(f2)
    BY DEF Links, IsLink, Allotted
  <2> QED
    BY <2>1, <2>2 DEF Links, IsLink, Allotted, Volumed, Owned
<1>3. \A b \in Root..NB, k \in Bodies : Named(e, t, 0, b, k) =>
         e[b][k].first # i /\ e[b][k].first \in DataBlock /\ f2[e[b][k].first] # FREE
  <2>1. \A c \in DataBlock : c \in 0..NB
    BY Layout
  <2> QED
    BY <2>1 DEF Volumed, Owned, Allotted
<1>4. i \in DataBlock /\ f2[i] # FREE
  BY Sizes DEF Allotted
<1>5. \A b, c \in Root..NB, k, l \in Bodies :
          Named(e2, t, 0, b, k) /\ Named(e2, t, 0, c, l) /\ e2[b][k].first = e2[c][l].first
              => b = c /\ k = l
  BY <1>1, <1>3 DEF Volumed, Owned
<1>6. \A c, d \in Links(f2) : f2[c] = f2[d] => c = d
  BY <1>2 DEF Volumed, Owned
<1>7. \A b \in Root..NB, k \in Bodies, c \in Links(f2) :
          Named(e2, t, 0, b, k) => e2[b][k].first # f2[c]
  BY <1>1, <1>2 DEF Volumed, Owned
<1>8. \A b \in Root..NB, k \in Bodies : Named(e2, t, 0, b, k) =>
          e2[b][k].first \in DataBlock /\ f2[e2[b][k].first] # FREE
  BY <1>1, <1>3, <1>4
<1>9. \A c \in Links(f2) : f2[c] \in DataBlock /\ f2[f2[c]] # FREE
  <2>1. \A c \in DataBlock : c \in 0..NB
    BY Layout
  <2> QED
    BY <1>2, <2>1 DEF Volumed, Owned, Allotted
<1> QED
  BY <1>5, <1>6, <1>7, <1>8, <1>9 DEF Owned

LEMMA AddHoused ==
  ASSUME NEW f, NEW e, NEW t, NEW e2, NEW B, NEW K, NEW n, NEW a, NEW i,
         Volumed(f, e, t, 0), Room(e, t, B, K, n), Added(e, e2, B, K, n, a, i),
         a \in {DIR, FILE}
  PROVE  Housed(e2, t, 0) /\ \A b : House(e, t, 0, b) => House(e2, t, 0, b)
<1>1. /\ B \in Root..NB /\ K \in Bodies
      /\ \A b \in Root..NB, k \in Bodies : Named(e2, t, 0, b, k) /\ (b # B \/ k # K) =>
            Named(e, t, 0, b, k)
      /\ \A b \in Root..NB, k \in Bodies : Named(e, t, 0, b, k) =>
            Named(e2, t, 0, b, k) /\ AsBefore(e2[b][k], e[b][k])
  <2>1. K \in Bodies
    BY DEF Room
  <2> QED
    BY <2>1, AddNamed
<1>2. \A b : House(e, t, 0, b) => House(e2, t, 0, b)
  BY <1>1 DEF House, Branch, AsBefore
<1>3. ASSUME NEW b \in Root..NB, NEW k \in Bodies, Named(e2, t, 0, b, k)
      PROVE  /\ e2[b][k].attr \in {DIR, FILE} /\ e2[b][k].name \in Names
             /\ House(e2, t, 0, b)
  <2>1. CASE b = B /\ k = K
    BY <1>2, <2>1 DEF Added, Room
  <2>2. CASE b # B \/ k # K
    BY <1>1, <1>2, <1>3, <2>2 DEF Volumed, Housed, AsBefore
  <2> QED
    BY <2>1, <2>2
<1>4. ASSUME NEW b \in Root..NB, NEW k \in Bodies, NEW l \in Bodies,
             Named(e2, t, 0, b, k), Named(e2, t, 0, b, l), e2[b][k].name = e2[b][l].name
      PROVE  k = l
  <2>1. ASSUME NEW j \in Bodies, Named(e2, t, 0, B, j), j # K PROVE e2[B][j].name # n
    <3>1. Named(e, t, 0, B, j) /\ AsBefore(e2[B][j], e[B][j])
      BY <1>1, <2>1
    <3> QED
      BY <3>1 DEF Room, AsBefore
  <2>2. CASE b = B /\ (k = K \/ l = K)
    BY <1>4, <2>1, <2>2 DEF Added
  <2>3. CASE ~ (b = B /\ (k = K \/ l = K))
    BY <1>1, <1>4, <2>3 DEF Volumed, Housed, AsBefore
  <2> QED
    BY <2>2, <2>3
<1> QED
  BY <1>2, <1>3, <1>4 DEF Housed

LEMMA AddDots ==
  ASSUME NEW f, NEW f2, NEW e, NEW t, NEW e2, NEW B, NEW K, NEW n, NEW a, NEW i,
         Volumed(f, e, t, 0), Room(e, t, B, K, n), Added(e, e2, B, K, n, a, i),
         Allotted(f, f2, i),
         \A b \in Block, k \in {0, 1} : b # i => AsBefore(e2[b][k], e[b][k]),
         a = DIR => Dot(e2[i][0], ".", i) /\ Dot(e2[i][1], "..", B)
  PROVE  Dots(f2, e2, t, 0)
<1>1. \A b \in Root..NB, k \in Bodies : Named(e2, t, 0, b, k) /\ (b # B \/ k # K) =>
            Named(e, t, 0, b, k) /\ AsBefore(e2[b][k], e[b][k])
  BY AddNamed
<1>2. i # Root /\ t[i] = NoText /\ FREE # END /\ 0 \in {0, 1} /\ 1 \in {0, 1}
  <2>1. i \in DataBlock /\ t[i] = NoText
    BY DEF Allotted, Volumed, FreeIsBlank
  <2> QED
    BY <2>1, Sizes, Layout
<1>3. t[Root] = NoText /\ Dot(e2[Root][0], ".", Root) /\ Dot(e2[Root][1], "..", Root)
  BY <1>2, Sizes DEF Volumed, Dots, Dot, AsBefore
<1>4. ASSUME NEW b \in Root..NB, NEW k \in Bodies, Branch(e2, t, 0, b, k)
      PROVE  /\ f2[e2[b][k].first] = END /\ t[e2[b][k].first] = NoText
             /\ Dot(e2[e2[b][k].first][0], ".", e2[b][k].first)
             /\ Dot(e2[e2[b][k].first][1], "..", b)
  <2>1. CASE b = B /\ k = K
    BY <1>2, <1>4, <2>1 DEF Added, Allotted, Branch
  <2>2. CASE b # B \/ k # K
    <3>1. Branch(e, t, 0, b, k) /\ e2[b][k].first = e[b][k].first
      BY <1>1, <1>4, <2>2 DEF Branch, AsBefore
    <3> DEFINE d == e[b][k].first
    <3>2. /\ f[d] = END /\ t[d] = NoText /\ Dot(e[d][0], ".", d) /\ Dot(e[d][1], "..", b)
          /\ d \in DataBlock
      BY <3>1 DEF Volumed, Dots, Owned, Branch
    <3> HIDE DEF d
    <3>3. d # i /\ d \in 0..NB /\ d \in Block
      BY <1>2, <3>2, Layout DEF Allotted
    <3>4. f2[d] = END /\ AsBefore(e2[d][0], e[d][0]) /\ AsBefore(e2[d][1], e[d][1])
      BY <1>2, <3>2, <3>3 DEF Allotted
    <3>5. Dot(e2[d][0], ".", d) /\ Dot(e2[d][1], "..", b)
      BY <3>2, <3>4 DEF Dot, AsBefore
    <3> QED
      BY <3>1, <3>2, <3>4, <3>5 DEF d
  <2> QED
    BY <2>1, <2>2
<1> QED
  BY <1>3, <1>4 DEF Dots

LEMMA AddFree ==
  ASSUME NEW f, NEW f2, NEW e, NEW t, NEW e2, NEW B, NEW K, NEW n, NEW a, NEW i,
         Volumed(f, e, t, 0), Room(e, t, B, K, n), Added(e, e2, B, K, n, a, i),
         Allotted(f, f2, i)
  PROVE  Reserved(f2) /\ FreeIsBlank(f2, e2, t) /\ Unnamed(e2)
<1>1. B \in Root..NB /\ (B = Root \/ B \in DataBlock)
  BY AddNamed
<1>2. \A b \in DataBlock : b \in 0..NB /\ b \in Block /\ b \notin 0..(Root - 1) /\ b # Root
  BY Layout, Sizes DEF DataBlock
<1>3. n # "" /\ FREE # END /\ Root \in 0..NB /\ \A c \in 0..(Root - 1) : c \in 0..NB
  <2>1. n # ""
    BY NamesAssumption DEF Room
  <2>2. FREE # END /\ Root \in 0..NB /\ \A c \in 0..(Root - 1) : c \in 0..NB
    BY Sizes
  <2> QED
    BY <2>1, <2>2
<1>4. Reserved(f2)
  BY <1>2, <1>3 DEF Volumed, Reserved, Allotted
<1>5. B \in DataBlock => f[B] = END
  BY <1>2 DEF Room, House, Volumed, Dots, Branch
<1>6. FreeIsBlank(f2, e2, t)
  <2> SUFFICES ASSUME NEW b \in DataBlock, f2[b] = FREE
               PROVE  t[b] = NoText /\ \A k \in Bodies : e2[b][k].name = ""
    BY DEF FreeIsBlank, Bodies
  <2>1. b # i /\ f[b] = FREE
    BY <1>2, <1>3 DEF Allotted
  <2>2. b # B
    BY <1>3, <1>5, <2>1
  <2>3. t[b] = NoText /\ \A k \in Bodies : e[b][k].name = ""
    BY <2>1 DEF Volumed, FreeIsBlank, Bodies
  <2> QED
    BY <1>2, <2>2, <2>3 DEF Added, AsBefore
<1>7. Unnamed(e2)
  <2> SUFFICES ASSUME NEW b \in Block, NEW k \in Bodies, e2[b][k].name = ""
               PROVE  e2[b][k].attr = 0
    BY DEF Unnamed
  <2>1. AsBefore(e2[b][k], e[b][k])
    BY <1>3 DEF Added
  <2> QED
    BY <2>1 DEF Volumed, Unnamed, AsBefore
<1> QED
  BY <1>4, <1>6, <1>7

-----------------------------------------------------------------------------
(***************************************************************************)
(* What each store leaves in each entry.                                   *)
(***************************************************************************)
LEMMA PutEntryAt ==
  ASSUME NEW e \in Ents, NEW at \in Pointers, NEW x \in Entry
  PROVE  /\ PutEntry(e, at, x)[at.blk][at.idx] = x
         /\ \A b \in Block, k \in Index :
               b # at.blk \/ k # at.idx => PutEntry(e, at, x)[b][k] = e[b][k]
  BY DEF PutEntry, Ents, Pointers

LEMMA PutLenAt ==
  ASSUME NEW e \in Ents, NEW at \in Pointers, NEW l
  PROVE  /\ PutLen(e, at, l)[at.blk][at.idx].len = l
         /\ \A b \in Block, k \in Index :
               /\ AsBefore(PutLen(e, at, l)[b][k], e[b][k])
               /\ b # at.blk \/ k # at.idx => PutLen(e, at, l)[b][k] = e[b][k]
<1> DEFINE d == PutLen(e, at, l)
<1>0. at.blk \in Block /\ at.idx \in Index
  BY DEF Pointers
<1>1. ASSUME NEW c \in Block, NEW j \in Index
      PROVE  /\ c = at.blk /\ j = at.idx => d[c][j] = [e[c][j] EXCEPT !.len = l]
             /\ c # at.blk \/ j # at.idx => d[c][j] = e[c][j]
             /\ e[c][j] \in Entry
  BY <1>0 DEF Ents, PutLen
<1> HIDE DEF d
<1>2. d[at.blk][at.idx].len = l
  <2>1. e[at.blk][at.idx] \in Entry
    BY <1>0, <1>1
  <2>2. d[at.blk][at.idx] = [e[at.blk][at.idx] EXCEPT !.len = l]
    BY <1>0, <1>1
  <2> QED
    BY <2>1, <2>2 DEF Entry
<1>3. ASSUME NEW c \in Block, NEW j \in Index PROVE AsBefore(d[c][j], e[c][j])
  <2>1. CASE c = at.blk /\ j = at.idx
    <3>1. e[c][j] \in Entry /\ d[c][j] = [e[c][j] EXCEPT !.len = l]
      BY <1>1, <2>1
    <3> QED
      BY <3>1 DEF Entry, AsBefore
  <2>2. CASE c # at.blk \/ j # at.idx
    BY <1>1, <2>2 DEF AsBefore
  <2> QED
    BY <2>1, <2>2
<1> QED
  BY <1>1, <1>2, <1>3 DEF d

LEMMA DottedAt ==
  ASSUME NEW e \in Ents, NEW i \in Block, NEW B
  PROVE  /\ Dot(Dotted(e, i, B)[i][0], ".", i) /\ Dot(Dotted(e, i, B)[i][1], "..", B)
         /\ \A b \in Block, k \in Index :
               b # i \/ k \notin {0, 1} => Dotted(e, i, B)[b][k] = e[b][k]
  BY Sizes DEF Dotted, Ents, Dot

LEMMA StoreNameAt ==
  ASSUME NEW e \in Ents, NEW b \in Block, NEW k \in Index, NEW nm
  PROVE  \A c \in Block, j \in Index :
            /\ [e EXCEPT ![b][k].name = nm][c][j].attr = e[c][j].attr
            /\ [e EXCEPT ![b][k].name = nm][c][j].first = e[c][j].first
            /\ [e EXCEPT ![b][k].name = nm][c][j].len = e[c][j].len
            /\ c # b \/ j # k => [e EXCEPT ![b][k].name = nm][c][j] = e[c][j]
<1> DEFINE d == [e EXCEPT ![b][k].name = nm]
<1>1. ASSUME NEW c \in Block, NEW j \in Index
      PROVE  /\ c = b /\ j = k => d[c][j] = [e[c][j] EXCEPT !.name = nm]
             /\ c # b \/ j # k => d[c][j] = e[c][j]
             /\ e[c][j] \in Entry
  BY DEF Ents
<1> HIDE DEF d
<1>2. ASSUME NEW c \in Block, NEW j \in Index
      PROVE  /\ d[c][j].attr = e[c][j].attr /\ d[c][j].first = e[c][j].first
             /\ d[c][j].len = e[c][j].len
  <2>1. CASE c = b /\ j = k
    <3>1. e[c][j] \in Entry /\ d[c][j] = [e[c][j] EXCEPT !.name = nm]
      BY <1>1, <2>1
    <3> QED
      BY <3>1 DEF Entry
  <2>2. CASE c # b \/ j # k
    BY <1>1, <2>2
  <2> QED
    BY <2>1, <2>2
<1> QED
  BY <1>1, <1>2 DEF d

\* mkdir: the new entry, the dots of the new block, and the length of the
\* current directory, which is neither of the two.
LEMMA mkdirAdded ==
  ASSUME NEW e \in Ents, NEW B \in Block, NEW K \in Bodies, NEW n \in Names,
         NEW i \in DataBlock, i # B, NEW up \in Pointers, up.blk # i,
         up.blk # B \/ up.idx # K, NEW e2,
         e2 = Dotted(IncLen(PutEntry(e, [blk |-> B, idx |-> K],
                        [name |-> n, attr |-> DIR, first |-> i, len |-> 2]), up), i, B)
  PROVE  /\ Added(e, e2, B, K, n, DIR, i) /\ e2[B][K].len = 2
         /\ \A b \in Block, k \in {0, 1} : b # i => AsBefore(e2[b][k], e[b][k])
         /\ Dot(e2[i][0], ".", i) /\ Dot(e2[i][1], "..", B)
         /\ e2[up.blk][up.idx].len = Inc(e[up.blk][up.idx].len)
         /\ \A b \in Block, k \in Index :
               /\ b # B \/ k # K
               /\ b # up.blk \/ k # up.idx
               /\ b # i
               => e2[b][k] = e[b][k]
<1> DEFINE x == [name |-> n, attr |-> DIR, first |-> i, len |-> 2]
           at == [blk |-> B, idx |-> K]
           p == PutEntry(e, at, x)
           l == Inc(EntryAt(p, up).len)
           q == PutLen(p, up, l)
<1>0. /\ i \in Block /\ i \in 0..NB /\ K \in Index /\ K # 0 /\ K # 1
      /\ 0 \in Index /\ 1 \in Index /\ up.blk \in Block /\ up.idx \in Index
      /\ \A k \in Bodies : k \in Index /\ k # 0 /\ k # 1
  BY Layout, Sizes DEF Pointers
<1>1. x \in Entry
  <2>1. n \in NameText
    BY DEF NameText
  <2>2. 2 \in 0..(LengthMod - 1)
    BY LengthModPositive
  <2> QED
    BY <1>0, <2>1, <2>2, EntryType
<1>2. at \in Pointers
  BY <1>0 DEF Pointers
<1>3. /\ p \in Ents /\ p[B][K] = x
      /\ \A b \in Block, k \in Index : b # B \/ k # K => p[b][k] = e[b][k]
  BY <1>1, <1>2, PutEntryAt, PutEntryType
<1>4. /\ q[up.blk][up.idx].len = l
      /\ \A b \in Block, k \in Index :
            /\ AsBefore(q[b][k], p[b][k])
            /\ b # up.blk \/ k # up.idx => q[b][k] = p[b][k]
  BY <1>3, PutLenAt
<1>5. q \in Ents
  <2>1. EntryAt(p, up) \in Entry
    BY <1>3, EntryAtType
  <2>2. l \in 0..(LengthMod - 1)
    BY <2>1, IncDecType DEF Entry
  <2> QED
    BY <1>3, <2>2, PutLenType
<1>6. e2 = Dotted(q, i, B)
  BY DEF IncLen
<1>7. l = Inc(e[up.blk][up.idx].len)
  BY <1>0, <1>3 DEF EntryAt
<1> HIDE DEF p, q, l, at, x
<1>8. /\ Dot(e2[i][0], ".", i) /\ Dot(e2[i][1], "..", B)
      /\ \A b \in Block, k \in Index : b # i \/ k \notin {0, 1} => e2[b][k] = q[b][k]
  <2>1. /\ Dot(Dotted(q, i, B)[i][0], ".", i) /\ Dot(Dotted(q, i, B)[i][1], "..", B)
        /\ \A b \in Block, k \in Index :
              b # i \/ k \notin {0, 1} => Dotted(q, i, B)[b][k] = q[b][k]
    BY <1>0, <1>5, DottedAt
  <2> QED
    BY ONLY <1>6, <2>1
<1>9. e2[B][K] = x
  <2>1. e2[B][K] = q[B][K]
    BY <1>0, <1>8
  <2>2. q[B][K] = p[B][K]
    BY <1>0, <1>4
  <2> QED
    BY ONLY <1>3, <2>1, <2>2
<1>10. \A b \in Block, k \in Bodies : b # B \/ k # K => AsBefore(e2[b][k], e[b][k])
  BY <1>0, <1>3, <1>4, <1>8
<1>11. \A b \in Block, k \in {0, 1} : b # i => AsBefore(e2[b][k], e[b][k])
  BY <1>0, <1>3, <1>4, <1>8
<1>12. e2[up.blk][up.idx].len = Inc(e[up.blk][up.idx].len)
  BY <1>0, <1>4, <1>7, <1>8
<1>13. \A b \in Block, k \in Index :
          /\ b # B \/ k # K
          /\ b # up.blk \/ k # up.idx
          /\ b # i
          => e2[b][k] = e[b][k]
  BY <1>3, <1>4, <1>8
<1> QED
  BY <1>8, <1>9, <1>10, <1>11, <1>12, <1>13 DEF Added, x

-----------------------------------------------------------------------------
(***************************************************************************)
(* Lengths: mkdir and rmdir keep the count of subdirectories.              *)
(***************************************************************************)
LEMMA LengthFits == DS < LengthMod
<1>1. HalfWord \in Nat /\ HalfWord > 2 /\ DS < HalfWord /\ DS \in Nat
  BY Sizes, SizesAssumption
<1>2. HalfWord * 0 + (HalfWord - 1) \in 0..(HalfWord * HalfWord - 1)
  BY <1>1, HalfWords
<1>3. HalfWord * HalfWord \in Nat /\ HalfWord * 0 = 0
  BY <1>1
<1> QED
  BY <1>1, <1>2, <1>3 DEF LengthMod

LEMMA SubdirsFinite ==
  ASSUME NEW e, NEW b
  PROVE  /\ IsFiniteSet(Subdirs(e, b)) /\ Cardinality(Subdirs(e, b)) \in Nat
         /\ Cardinality(Subdirs(e, b)) <= DS - 2
<1>1. 2 \in Int /\ DS - 1 \in Int /\ DS > 2 /\ DS \in Nat
  BY Sizes
<1>2. IsFiniteSet(2..(DS - 1)) /\ Cardinality(2..(DS - 1)) = DS - 2
  <2>1. /\ IsFiniteSet(2..(DS - 1))
        /\ Cardinality(2..(DS - 1)) = IF 2 > DS - 1 THEN 0 ELSE DS - 1 - 2 + 1
    BY <1>1, FS_Interval
  <2> QED
    BY <1>1, <2>1
<1>3. Subdirs(e, b) \in SUBSET (2..(DS - 1))
  BY DEF Subdirs
<1>4. PICK s : s = Subdirs(e, b)
  OBVIOUS
<1>5. IsFiniteSet(s) /\ Cardinality(s) <= Cardinality(2..(DS - 1))
  BY ONLY <1>2, <1>3, <1>4, FS_Subset
<1>6. Cardinality(s) \in Nat
  BY ONLY <1>5, FS_CardinalityType
<1> QED
  BY ONLY <1>2, <1>4, <1>5, <1>6

\* What the lengths are about: the entry of the directory with block B.
OwnEntry(e, t, D, B, up) ==
    /\ up \in Pointers
    /\ \/ B = Root /\ up.blk = Root /\ up.idx = 0
       \/ Branch(e, t, D, up.blk, up.idx) /\ e[up.blk][up.idx].first = B

LEMMA AddLengths ==
  ASSUME NEW f, NEW f2, NEW e \in Ents, NEW t, NEW e2, NEW B, NEW K, NEW n, NEW i, NEW up,
         Volumed(f, e, t, 0), Room(e, t, B, K, n), Added(e, e2, B, K, n, DIR, i),
         Allotted(f, f2, i), Lengths(e, t, 0, 0), OwnEntry(e, t, 0, B, up),
         e2[B][K].len = 2, e2[up.blk][up.idx].len = Inc(e[up.blk][up.idx].len),
         \A b \in Block, k \in Index :
               /\ b # B \/ k # K
               /\ b # up.blk \/ k # up.idx
               /\ b # i
               => e2[b][k] = e[b][k]
  PROVE  Lengths(e2, t, 0, 0)
<1>0. /\ B \in Root..NB /\ (B = Root \/ B \in DataBlock) /\ K \in Bodies
      /\ \A b \in Root..NB, k \in Bodies : Named(e2, t, 0, b, k) /\ (b # B \/ k # K) =>
            Named(e, t, 0, b, k)
      /\ \A b \in Root..NB, k \in Bodies : Named(e, t, 0, b, k) =>
            /\ Named(e2, t, 0, b, k) /\ AsBefore(e2[b][k], e[b][k])
            /\ b # B \/ k # K
  <2>1. K \in Bodies
    BY DEF Room
  <2> QED
    BY <2>1, AddNamed
<1>1. /\ \A b \in Root..NB : b \in Block
      /\ \A k \in Bodies : k \in Index /\ k # 0
      /\ Root \notin DataBlock /\ 0 \in Index /\ Root \in Root..NB
  BY Layout, Sizes
<1>2. /\ i \in DataBlock /\ i # B /\ i # Root
      /\ \A b : House(e, t, 0, b) => b # i /\ (b = Root \/ b \in DataBlock)
  <2>1. i \in DataBlock /\ f[i] = FREE /\ House(e, t, 0, B) /\ Volumed(f, e, t, 0)
    BY DEF Allotted, Room
  <2>2. \A b : House(e, t, 0, b) => b = Root \/ (b \in DataBlock /\ f[b] = END)
    BY <2>1, HouseEnd
  <2>3. FREE # END /\ i # Root
    BY <1>1, <2>1, Sizes
  <2> QED
    BY <2>1, <2>2, <2>3
<1>3. /\ Subdirs(e2, B) = Subdirs(e, B) \cup {K} /\ K \notin Subdirs(e, B)
  <2>1. \A k \in Bodies : k # K => /\ e2[B][k].name = e[B][k].name
                                   /\ e2[B][k].attr = e[B][k].attr
    BY <1>0, <1>1 DEF Added, AsBefore
  <2>2. e2[B][K].name # "" /\ e2[B][K].attr = DIR /\ e[B][K].name = ""
    <3>1. n \in Names /\ e[B][K].name = "" /\ e2[B][K].name = n /\ e2[B][K].attr = DIR
      BY DEF Added, Room
    <3> QED
      BY ONLY <3>1, NamesAssumption
  <2>3. K \in Bodies
    BY <1>0
  <2> QED
    BY ONLY <2>1, <2>2, <2>3 DEF Subdirs, Bodies
<1>4. Cardinality(Subdirs(e2, B)) = Cardinality(Subdirs(e, B)) + 1
  BY <1>3, SubdirsFinite, FS_AddElement
<1>5. ASSUME NEW b \in Block, b # B PROVE Subdirs(e2, b) = Subdirs(e, b)
  <2>1. \A k \in Bodies : e2[b][k].name = e[b][k].name /\ e2[b][k].attr = e[b][k].attr
    BY <1>5 DEF Added, AsBefore
  <2> QED
    BY <2>1 DEF Subdirs, Bodies
<1>6. Cardinality(Subdirs(e2, i)) = 0
  <2>1. Subdirs(e, i) = {} /\ i \in Block
    BY Layout DEF Volumed, FreeIsBlank, Allotted, Subdirs, Bodies
  <2> QED
    BY <1>2, <1>5, <2>1, FS_EmptySet
\* The length of the current directory, wherever it is kept.
<1>7. ASSUME Length(e, B, 0, e[up.blk][up.idx].len)
      PROVE  Length(e2, B, 0, e2[up.blk][up.idx].len)
  <2>1. e[up.blk][up.idx].len = 2 + Cardinality(Subdirs(e, B))
    <3>1. up.blk \in Block /\ up.idx \in Index /\ e[up.blk][up.idx] \in Entry
      BY DEF OwnEntry, Pointers, Ents
    <3>2. e[up.blk][up.idx].len \in Nat /\ B # 0
      BY <1>0, <3>1, LengthModPositive, Sizes DEF Entry
    <3> QED
      BY <1>7, <3>2 DEF Length
  <2>2. Inc(e[up.blk][up.idx].len) = e[up.blk][up.idx].len + 1
    <3>1. /\ Cardinality(Subdirs(e2, B)) <= DS - 2 /\ Cardinality(Subdirs(e, B)) \in Nat
          /\ DS < LengthMod /\ DS \in Nat /\ LengthMod \in Nat
      BY SubdirsFinite, LengthFits, LengthModPositive, Sizes
    <3> QED
      BY <1>4, <2>1, <3>1 DEF Inc
  <2>3. Cardinality(Subdirs(e, B)) \in Nat /\ B # 0
    BY <1>0, SubdirsFinite, Sizes
  <2> QED
    BY <1>4, <2>1, <2>2, <2>3 DEF Length
<1>8. Length(e2, Root, 0, e2[Root][0].len)
  <2>1. Length(e, Root, 0, e[Root][0].len)
    BY DEF Lengths
  <2>2. CASE B = Root
    <3>1. up.blk = Root /\ up.idx = 0
      <4>1. CASE B = Root /\ up.blk = Root /\ up.idx = 0
        BY <4>1
      <4>2. CASE Branch(e, t, 0, up.blk, up.idx) /\ e[up.blk][up.idx].first = B
        <5>1. /\ Named(e, t, 0, up.blk, up.idx)
              /\ up.blk \in Root..NB /\ up.idx \in Bodies
          BY <4>2 DEF Branch, Named
        <5>2. B \in DataBlock
          BY <4>2, <5>1 DEF Volumed, Owned
        <5> QED
          BY <1>1, <2>2, <5>2
      <4> QED
        BY <4>1, <4>2 DEF OwnEntry
    <3> QED
      BY <1>7, <2>1, <2>2, <3>1
  <2>3. CASE B # Root
    <3>1. up.blk # Root \/ up.idx # 0
      BY <1>1, <2>3 DEF OwnEntry, Branch, Named
    <3>2. e2[Root][0] = e[Root][0]
      BY <1>1, <1>2, <2>3, <3>1
    <3> QED
      BY <1>1, <1>5, <2>1, <2>3, <3>2 DEF Length
  <2> QED
    BY <2>2, <2>3
<1>9. ASSUME NEW b \in Root..NB, NEW k \in Bodies, Branch(e2, t, 0, b, k)
      PROVE  Length(e2, e2[b][k].first, 0, e2[b][k].len)
  <2>1. CASE b = B /\ k = K
    <3>1. i # 0
      BY <1>2, Layout
    <3> QED
      BY <1>6, <2>1, <3>1 DEF Length, Added
  <2>2. CASE b # B \/ k # K
    <3>1. /\ Branch(e, t, 0, b, k) /\ e2[b][k].first = e[b][k].first
          /\ House(e, t, 0, e[b][k].first)
      BY <1>0, <1>9, <2>2 DEF Branch, AsBefore, House
    <3>2. Length(e, e[b][k].first, 0, e[b][k].len)
      BY <3>1 DEF Lengths
    <3>3. b # i
      BY <1>2, <3>1 DEF Branch, Volumed, Housed
    <3>4. CASE e[b][k].first = B
      <4>1. up.blk = b /\ up.idx = k
        <5>1. Named(e, t, 0, b, k) /\ e[b][k].first \in DataBlock
          BY <3>1 DEF Volumed, Owned, Branch
        <5>2. Named(e, t, 0, up.blk, up.idx) /\ e[up.blk][up.idx].first = B
          BY <1>1, <3>4, <5>1 DEF OwnEntry, Branch
        <5>3. up.blk \in Root..NB /\ up.idx \in Bodies
          BY <5>2 DEF Named
        <5> QED
          BY <3>4, <5>1, <5>2, <5>3 DEF Volumed, Owned
      <4> QED
        BY <1>7, <3>1, <3>2, <3>4, <4>1
    <3>5. CASE e[b][k].first # B
      <4>1. up.blk # b \/ up.idx # k
        BY <1>1, <3>5 DEF OwnEntry
      <4>2. e2[b][k] = e[b][k]
        BY <1>1, <2>2, <3>3, <4>1
      <4>3. e[b][k].first \in Block
        BY <1>1, <3>1, Layout DEF Volumed, Owned, Branch
      <4> QED
        BY <1>5, <3>1, <3>2, <3>5, <4>2, <4>3 DEF Length
    <3> QED
      BY <3>4, <3>5
  <2> QED
    BY <2>1, <2>2
<1> QED
  BY <1>8, <1>9 DEF Lengths

-----------------------------------------------------------------------------
(***************************************************************************)
(* The commands, one by one: mkdir and create.                             *)
(***************************************************************************)
More(e, t, D, e2, t2, D2) ==
    \A b \in Root..NB, k \in Bodies : Named(e, t, D, b, k) =>
        Named(e2, t2, D2, b, k) /\ AsBefore(e2[b][k], e[b][k])

LEMMA MoreKeeps ==
  ASSUME NEW e, NEW t, NEW D, NEW e2, NEW t2, NEW D2, More(e, t, D, e2, t2, D2)
  PROVE  /\ \A b : House(e, t, D, b) => House(e2, t2, D2, b)
         /\ \A c : Here(e, t, D, c) => Here(e2, t2, D2, c)
         /\ \A q, b : Walked(e, t, D, q, b) => Walked(e2, t2, D2, q, b)
         /\ \A s : Held(e, t, D, s) => Held(e2, t2, D2, s)
<1>1. \A b, k : Named(e, t, D, b, k) =>
          /\ Named(e2, t2, D2, b, k) /\ e2[b][k].name = e[b][k].name
          /\ e2[b][k].attr = e[b][k].attr /\ e2[b][k].first = e[b][k].first
  BY DEF More, AsBefore, Named
<1>2. \A b, k : Branch(e, t, D, b, k) =>
          /\ Branch(e2, t2, D2, b, k) /\ e2[b][k].name = e[b][k].name
          /\ e2[b][k].first = e[b][k].first
  BY <1>1 DEF Branch
<1>3. \A b : House(e, t, D, b) => House(e2, t2, D2, b)
  BY <1>2 DEF House
<1>4. \A c : Here(e, t, D, c) => Here(e2, t2, D2, c)
  BY <1>2 DEF Here
<1>5. \A q, b : Walked(e, t, D, q, b) => Walked(e2, t2, D2, q, b)
  BY <1>2, SameWalked
<1>6. \A s : Held(e, t, D, s) => Held(e2, t2, D2, s)
  BY <1>1 DEF Held, Fits
<1> QED
  BY <1>3, <1>4, <1>5, <1>6

\* The current directory's block, and its own entry.
LEMMA HereFacts ==
  ASSUME NEW f, NEW e, NEW t, NEW D, NEW c, Volumed(f, e, t, D), Here(e, t, D, c)
  PROVE  /\ House(e, t, D, c.first) /\ House(e, t, D, c.dirno)
         /\ At(c.dirno, c.diroff) = [blk |-> c.dirno, idx |-> c.diroff]
         /\ c.dirno \in Root..NB /\ t[c.dirno] = NoText
         /\ OwnEntry(e, t, D, c.first, [blk |-> c.dirno, idx |-> c.diroff])
<1>1. CASE c = [first |-> Root, dirno |-> Root, diroff |-> 0]
  BY <1>1, Sizes, Layout DEF House, At, Volumed, Dots, OwnEntry, Pointers
<1>2. CASE Branch(e, t, D, c.dirno, c.diroff) /\ e[c.dirno][c.diroff].first = c.first
  <2>1. /\ c.dirno \in Root..NB /\ c.diroff \in Bodies /\ t[c.dirno] = NoText
        /\ Named(e, t, D, c.dirno, c.diroff)
    BY <1>2 DEF Branch, Named
  <2>2. House(e, t, D, c.first) /\ House(e, t, D, c.dirno)
    BY <1>2, <2>1 DEF House, Volumed, Housed
  <2>3. c.diroff # DS /\ c.diroff \in Index /\ c.dirno \in Block
    BY <2>1, Layout, Sizes DEF Index
  <2> QED
    BY <1>2, <2>1, <2>2, <2>3 DEF At, OwnEntry, Pointers
<1> QED
  BY <1>1, <1>2 DEF Here

LEMMA NoneDetached ==
  ASSUME NEW f, NEW e, NEW t, Owned(f, e, t, 0) PROVE Detached(e, t, 0)
  BY Layout, Sizes DEF Detached, Owned

IsUp(x) == x.name = ".." /\ x.attr = DIR

LEMMA HouseShape ==
  ASSUME NEW f, NEW e, NEW t, NEW b, Volumed(f, e, t, 0), House(e, t, 0, b)
  PROVE  /\ b \in Root..NB /\ b \in Block /\ (b = Root \/ b \in DataBlock) /\ t[b] = NoText
         /\ f[b] # FREE
         /\ Dot(e[b][0], ".", b) /\ IsUp(e[b][1])
<1>1. Owned(f, e, t, 0) /\ Dots(f, e, t, 0)
  BY DEF Volumed
<1>2. b \in Root..NB /\ (b = Root \/ b \in DataBlock) /\ t[b] = NoText
  BY <1>1, NoneDetached, HouseFacts
<1>3. b \in Block
  BY <1>2, Layout
<1>4. f[b] # FREE
  <2>1. b = Root \/ (b \in DataBlock /\ f[b] = END)
    BY HouseEnd
  <2>2. FREE # END /\ FREE # Root /\ f[Root] = Root
    BY Sizes DEF Volumed, Reserved
  <2> QED
    BY <2>1, <2>2
<1>5. Dot(e[b][0], ".", b) /\ IsUp(e[b][1])
  <2>1. CASE b = Root
    BY <1>1, <2>1 DEF Dots, Dot, IsUp
  <2>2. CASE b # Root
    <3>1. PICK c \in Root..NB, l \in Bodies : Branch(e, t, 0, c, l) /\ e[c][l].first = b
      BY <2>2 DEF House
    <3> QED
      BY <1>1, <3>1 DEF Dots, Dot, IsUp
  <2> QED
    BY <2>1, <2>2
<1> QED
  BY <1>2, <1>3, <1>4, <1>5

LEMMA HouseNamed ==
  ASSUME NEW f, NEW e, NEW t, NEW b, Volumed(f, e, t, 0), House(e, t, 0, b)
  PROVE  \A k \in Bodies : e[b][k].name # "" => Named(e, t, 0, b, k)
<1>1. Owned(f, e, t, 0) /\ Dots(f, e, t, 0)
  BY DEF Volumed
<1> QED
  BY <1>1, NoneDetached, HouseFacts

\* A block that is handed out is a data block.
LEMMA FirstFree ==
  ASSUME NEW f, Reserved(f), NEW i \in 0..NB, \E j \in DataBlock : f[j] = FREE,
         i < NB => f[i] = FREE, \A j \in 0..(NB - 1) : j < i => f[j] # FREE
  PROVE  i \in DataBlock /\ f[i] = FREE
<1>1. PICK j \in DataBlock : f[j] = FREE
  OBVIOUS
<1>2. j \in 0..(NB - 1) /\ j < NB /\ NB \in Nat
  BY Sizes DEF DataBlock
<1>3. i < NB
  BY <1>1, <1>2
<1>4. FREE # END /\ FREE # Root
  BY Sizes
<1>5. i \notin 0..(Root - 1) /\ i # Root
  BY <1>3, <1>4 DEF Reserved
<1> QED
  BY <1>2, <1>3, <1>5, Sizes DEF DataBlock

LEMMA SetBothAllots ==
  ASSUME NEW f \in Fats, NEW i \in DataBlock, f[i] = FREE
  PROVE  Allotted(f, SetBoth(f, i, END), i) /\ SetBoth(f, i, END) \in Fats
<1>1. i \in 0..NB /\ i # NB /\ i \in Nat
  BY Layout, Sizes
<1>2. \A c \in 0..NB : c \in Table /\ c # NB + i
  BY <1>1, Sizes DEF DataBlock, Table
<1>3. SetBoth(f, i, END) = [f EXCEPT ![i] = END, ![NB + i] = END]
  BY <1>1 DEF SetBoth
<1>4. SetBoth(f, i, END) \in Fats
  BY <1>1, SetBothType, EndIsLink
<1> QED
  BY <1>1, <1>2, <1>3, <1>4 DEF Allotted, Fats

\* What a careful session relies on: the root's name is not typed, and the stack
\* holds the entries of a directory.
Ordinary == "root" \notin Names /\ DS - 2 <= StackSize

LEMMA CarefulTypes ==
  ASSUME TypeInv
  PROVE  /\ TypeOK /\ fat \in Fats /\ ents \in Ents /\ text \in [Block -> Text]
         /\ slots \in Slots /\ fp \in -1..(MaxOpen - 1) /\ cur \in Cwds /\ scan \in Scans
         /\ stack \in Stacks
  BY TypeParts DEF TypeInv, DiskTyped, RestTyped, Texts

LEMMA ShellStep ==
  ASSUME CarefulInv, mode \in {"shell", "edit"}, host' = host, scan' = scan,
         mode' = "shell" , Settled(0, 0)'
  PROVE  CarefulInv'
  BY DEF CarefulInv

Fresh(e, b, n) == \A k \in Index : e[b][k].name # n

LEMMA RoomAt ==
  ASSUME NEW f \in Fats, NEW e \in Ents, NEW t, NEW c, Volumed(f, e, t, 0), Here(e, t, 0, c),
         NEW n \in Names, Fresh(e, c.first, n),
         NEW K \in Index, Vacant(e, c.first, K), NEW i \in DataBlock, f[i] = FREE
  PROVE  /\ K \in Bodies /\ At(c.first, K) = [blk |-> c.first, idx |-> K]
         /\ Room(e, t, c.first, K, n)
         /\ c.first \in Block /\ c.first \in Root..NB /\ t[c.first] = NoText /\ i # c.first
         /\ ~ Branch(e, t, 0, c.first, K)
<1>1. House(e, t, 0, c.first)
  BY HereFacts
<1>2. /\ c.first \in Root..NB /\ c.first \in Block /\ t[c.first] = NoText /\ f[c.first] # FREE
      /\ Dot(e[c.first][0], ".", c.first) /\ IsUp(e[c.first][1])
  <2> SUFFICES ASSUME NEW b, b = c.first, House(e, t, 0, b)
               PROVE  /\ b \in Root..NB /\ b \in Block /\ t[b] = NoText /\ f[b] # FREE
                      /\ Dot(e[b][0], ".", b) /\ IsUp(e[b][1])
    BY <1>1
  <2> QED
    BY HouseShape
<1>3. K \in Bodies /\ K # DS
  <2>1. K # 0 /\ K # 1
    BY <1>2 DEF Dot, IsUp, Vacant
  <2> QED
    BY <2>1, Layout, Sizes DEF Index
<1>4. At(c.first, K) = [blk |-> c.first, idx |-> K]
  BY <1>3 DEF At
<1>5. Room(e, t, c.first, K, n)
  BY <1>1, <1>3, Layout DEF Room, Fresh, Vacant
<1>6. i # c.first
  BY <1>2
<1>7. ~ Branch(e, t, 0, c.first, K)
  BY DEF Branch, Named, Vacant
<1> QED
  BY <1>2, <1>3, <1>4, <1>5, <1>6, <1>7

LEMMA mkdirVolume ==
  ASSUME NEW f \in Fats, NEW e \in Ents, NEW t, NEW c,
         Volumed(f, e, t, 0), Lengths(e, t, 0, 0), Here(e, t, 0, c),
         NEW n \in Names, Fresh(e, c.first, n),
         NEW K \in Index, Vacant(e, c.first, K), NEW i \in DataBlock, f[i] = FREE,
         NEW e2,
         e2 = Dotted(IncLen(PutEntry(e, At(c.first, K),
                 [name |-> n, attr |-> DIR, first |-> i, len |-> 2]),
                 At(c.dirno, c.diroff)), i, c.first)
  PROVE  /\ Volumed(SetBoth(f, i, END), e2, t, 0) /\ Lengths(e2, t, 0, 0)
         /\ More(e, t, 0, e2, t, 0)
<1> DEFINE B == c.first
           up == [blk |-> c.dirno, idx |-> c.diroff]
           f2 == SetBoth(f, i, END)
<1>1. /\ K \in Bodies /\ At(B, K) = [blk |-> B, idx |-> K] /\ Room(e, t, B, K, n)
      /\ B \in Block /\ B \in Root..NB /\ t[B] = NoText /\ i # B /\ ~ Branch(e, t, 0, B, K)
  BY RoomAt
<1>2. /\ At(c.dirno, c.diroff) = up /\ OwnEntry(e, t, 0, B, up)
      /\ House(e, t, 0, c.dirno)
  BY HereFacts
<1>3. up \in Pointers /\ up.blk # i /\ (up.blk # B \/ up.idx # K)
  <2>1. up \in Pointers
    BY <1>2 DEF OwnEntry
  <2>2. f[c.dirno] # FREE
    BY <1>2, HouseShape
  <2>3. up.blk # B \/ up.idx # K
    <3>1. CASE up.blk = Root /\ up.idx = 0
      BY <1>1, <3>1, Layout
    <3>2. CASE Branch(e, t, 0, up.blk, up.idx)
      BY <1>1, <3>2
    <3> QED
      BY <1>2, <3>1, <3>2 DEF OwnEntry
  <2> QED
    BY <2>1, <2>2, <2>3
<1>4. Allotted(f, f2, i)
  BY SetBothAllots
<1>5. e2 = Dotted(IncLen(PutEntry(e, [blk |-> B, idx |-> K],
                     [name |-> n, attr |-> DIR, first |-> i, len |-> 2]), up), i, B)
  BY <1>1, <1>2
<1> HIDE DEF B, up, f2
<1>6. /\ Added(e, e2, B, K, n, DIR, i) /\ e2[B][K].len = 2
      /\ \A b \in Block, k \in {0, 1} : b # i => AsBefore(e2[b][k], e[b][k])
      /\ Dot(e2[i][0], ".", i) /\ Dot(e2[i][1], "..", B)
      /\ e2[up.blk][up.idx].len = Inc(e[up.blk][up.idx].len)
      /\ \A b \in Block, k \in Index :
            /\ b # B \/ k # K
            /\ b # up.blk \/ k # up.idx
            /\ b # i
            => e2[b][k] = e[b][k]
  BY <1>1, <1>3, <1>5, mkdirAdded
<1>7. Owned(f2, e2, t, 0)
  BY <1>1, <1>4, <1>6, AddOwned
<1>8. Housed(e2, t, 0)
  BY <1>1, <1>6, AddHoused
<1>9. Dots(f2, e2, t, 0)
  BY <1>1, <1>4, <1>6, AddDots
<1>10. Reserved(f2) /\ FreeIsBlank(f2, e2, t) /\ Unnamed(e2)
  BY <1>1, <1>4, <1>6, AddFree
<1>11. Lengths(e2, t, 0, 0)
  BY <1>1, <1>2, <1>4, <1>6, AddLengths
<1>12. More(e, t, 0, e2, t, 0)
  <2>1. \A b \in Root..NB, k \in Bodies : Named(e, t, 0, b, k) =>
          Named(e2, t, 0, b, k) /\ AsBefore(e2[b][k], e[b][k])
    BY <1>1, <1>6, AddNamed
  <2> QED
    BY <2>1 DEF More
<1> QED
  BY <1>7, <1>8, <1>9, <1>10, <1>11, <1>12 DEF Volumed, f2

\* The state between commands.
LEMMA ShellParts ==
  ASSUME TypeInv, CarefulInv, mode \in {"shell", "edit"}
  PROVE  /\ fat \in Fats /\ ents \in Ents /\ Settled(0, 0)
         /\ Volumed(fat, ents, text, 0) /\ Lengths(ents, text, 0, 0)
         /\ Here(ents, text, 0, cur) /\ Walked(ents, text, 0, path, cur.first)
         /\ Held(ents, text, 0, slots)
         /\ House(ents, text, 0, cur.first) /\ House(ents, text, 0, cur.dirno)
         /\ At(cur.dirno, cur.diroff) = [blk |-> cur.dirno, idx |-> cur.diroff]
         /\ DirLike(cur.first) /\ DirLike(cur.dirno) /\ cur.first \in Root..NB
         /\ OwnEntry(ents, text, 0, cur.first, [blk |-> cur.dirno, idx |-> cur.diroff])
<1>1. Settled(0, 0) /\ fat \in Fats /\ ents \in Ents
  BY CarefulTypes DEF CarefulInv
<1>2. /\ Volumed(fat, ents, text, 0) /\ Lengths(ents, text, 0, 0)
      /\ Here(ents, text, 0, cur) /\ Walked(ents, text, 0, path, cur.first)
      /\ Held(ents, text, 0, slots)
  BY <1>1 DEF Settled
<1>3. /\ House(ents, text, 0, cur.first) /\ House(ents, text, 0, cur.dirno)
      /\ At(cur.dirno, cur.diroff) = [blk |-> cur.dirno, idx |-> cur.diroff]
      /\ OwnEntry(ents, text, 0, cur.first, [blk |-> cur.dirno, idx |-> cur.diroff])
  BY <1>2, HereFacts
<1>4. DirLike(cur.first) /\ DirLike(cur.dirno) /\ cur.first \in Root..NB
  BY <1>2, <1>3, HouseShape DEF DirLike
<1> QED
  BY <1>1, <1>2, <1>3, <1>4

LEMMA mkdirKeeps ==
  ASSUME TypeInv, CarefulInv, NEW n \in Names, MindRoom, mkdir(n)
  PROVE  CarefulInv'
<1>1. /\ fat \in Fats /\ ents \in Ents /\ mode = "shell"
      /\ Volumed(fat, ents, text, 0) /\ Lengths(ents, text, 0, 0)
      /\ Here(ents, text, 0, cur) /\ Walked(ents, text, 0, path, cur.first)
      /\ Held(ents, text, 0, slots) /\ DirLike(cur.first) /\ DirLike(cur.dirno)
      /\ At(cur.dirno, cur.diroff) = [blk |-> cur.dirno, idx |-> cur.diroff]
  BY ShellParts DEF mkdir, Typed
<1>2. PICK k \in 0..DS, i \in 0..NB :
        LET at == At(cur.first, k)
            up == At(cur.dirno, cur.diroff)
            named == RootName(PutEntry(ents, at, [name |-> n, attr |-> DIR,
                                                  first |-> i, len |-> 2]), i, JunkName)
        IN  /\ StopsAt(DS, LAMBDA j : ents[cur.first][j].name = "", k)
            /\ StopsAt(NB, LAMBDA j : fat[j] = FREE, i)
            /\ IF DirLike(at.blk) /\ DirLike(up.blk) /\ DirLike(i)
               THEN /\ fat' = SetBoth(fat, i, END)
                    /\ ents' = Dotted(IncLen(named, up), i, cur.first)
                    /\ UNCHANGED <<text, slots, fp, cur, path, edit, stack, scan,
                                   host, mode>>
               ELSE Wild
  BY DEF mkdir
<1>3. k \in Index /\ Vacant(ents, cur.first, k)
  <2>1. /\ k \in 0..DS /\ (k < DS => Vacant(ents, cur.first, k))
        /\ \A j \in 0..(DS - 1) : j < k => ~ Vacant(ents, cur.first, j)
    BY <1>2 DEF StopsAt, Vacant
  <2>2. PICK j \in Index : Vacant(ents, cur.first, j)
    BY DEF MindRoom, RoomInDirectory, Vacant
  <2> QED
    BY <2>1, <2>2, Sizes DEF Index
<1>4. i \in DataBlock /\ fat[i] = FREE
  <2>1. (i < NB => fat[i] = FREE) /\ \A j \in 0..(NB - 1) : j < i => fat[j] # FREE
    BY <1>2 DEF StopsAt
  <2>2. Reserved(fat) /\ \E j \in DataBlock : fat[j] = FREE
    BY <1>1 DEF Volumed, MindRoom, RoomInTable
  <2> QED
    BY <2>1, <2>2, FirstFree
<1>5. At(cur.first, k).blk = cur.first
  BY <1>3, Sizes DEF At, Index
<1>6. i # NB /\ DirLike(i)
  BY <1>1, <1>4, Layout DEF DirLike, Volumed, FreeIsBlank
<1>7. /\ fat' = SetBoth(fat, i, END)
      /\ ents' = Dotted(IncLen(PutEntry(ents, At(cur.first, k), [name |-> n, attr |-> DIR,
                            first |-> i, len |-> 2]), At(cur.dirno, cur.diroff)), i, cur.first)
      /\ UNCHANGED <<text, slots, fp, cur, path, edit, stack, scan, host, mode>>
  <2>1. \A x : RootName(x, i, JunkName) = x
    BY <1>6 DEF RootName
  <2>2. IF DirLike(At(cur.first, k).blk) /\ DirLike(At(cur.dirno, cur.diroff).blk) /\ DirLike(i)
        THEN /\ fat' = SetBoth(fat, i, END)
             /\ ents' = Dotted(IncLen(RootName(PutEntry(ents, At(cur.first, k),
                                  [name |-> n, attr |-> DIR, first |-> i, len |-> 2]),
                                  i, JunkName), At(cur.dirno, cur.diroff)), i, cur.first)
             /\ UNCHANGED <<text, slots, fp, cur, path, edit, stack, scan, host, mode>>
        ELSE Wild
    BY <1>2
  <2>3. DirLike(At(cur.first, k).blk) /\ DirLike(At(cur.dirno, cur.diroff).blk) /\ DirLike(i)
    BY <1>1, <1>5, <1>6
  <2> QED
    BY <2>1, <2>2, <2>3
<1>8. Fresh(ents, cur.first, n)
  BY DEF mkdir, IsNamed, Entries, Fresh
<1>9. /\ Volumed(fat', ents', text, 0) /\ Lengths(ents', text, 0, 0)
      /\ More(ents, text, 0, ents', text, 0)
  BY <1>1, <1>3, <1>4, <1>7, <1>8, mkdirVolume
<1>10. /\ Here(ents', text, 0, cur) /\ Walked(ents', text, 0, path, cur.first)
       /\ Held(ents', text, 0, slots)
  BY <1>1, <1>9, MoreKeeps
<1>11. Settled(0, 0)'
  BY <1>7, <1>9, <1>10 DEF Settled
<1> QED
  BY <1>1, <1>7, <1>11, ShellStep

\* create: the length of a directory does not change, as a file is no subdirectory.
LEMMA createLengths ==
  ASSUME NEW f, NEW e, NEW t, NEW e2, NEW B, NEW K, NEW n, NEW i,
         Volumed(f, e, t, 0), Room(e, t, B, K, n), Added(e, e2, B, K, n, FILE, i),
         Lengths(e, t, 0, 0),
         \A b \in Block, k \in Index : b # B \/ k # K => e2[b][k] = e[b][k]
  PROVE  Lengths(e2, t, 0, 0)
<1>0. /\ B \in Root..NB /\ K \in Bodies
      /\ \A b \in Root..NB, k \in Bodies : Named(e2, t, 0, b, k) /\ (b # B \/ k # K) =>
            Named(e, t, 0, b, k)
  <2>1. K \in Bodies
    BY DEF Room
  <2> QED
    BY <2>1, AddNamed
<1>1. /\ \A b \in Root..NB : b \in Block
      /\ \A b \in DataBlock : b \in Block
      /\ \A k \in Bodies : k \in Index /\ k # 0
      /\ 0 \in Index /\ Root \in Block
  BY Layout, Sizes
<1>2. ASSUME NEW b \in Block PROVE Subdirs(e2, b) = Subdirs(e, b)
  <2>1. \A k \in Bodies : k \in Subdirs(e2, b) <=> k \in Subdirs(e, b)
    <3> SUFFICES ASSUME NEW k \in Bodies PROVE k \in Subdirs(e2, b) <=> k \in Subdirs(e, b)
      OBVIOUS
    <3>1. CASE b = B /\ k = K
      <4>1. e2[b][k].attr = FILE /\ FILE # DIR
        BY <3>1 DEF Added, FILE, DIR
      <4>2. e[b][k].name = ""
        BY <3>1 DEF Room
      <4> QED
        BY <4>1, <4>2 DEF Subdirs
    <3>2. CASE b # B \/ k # K
      <4>1. e2[b][k] = e[b][k]
        BY <1>1, <3>2
      <4> QED
        BY <4>1 DEF Subdirs
    <3> QED
      BY <3>1, <3>2
  <2> QED
    BY <2>1 DEF Subdirs, Bodies
<1>3. Length(e2, Root, 0, e2[Root][0].len)
  <2>1. e2[Root][0] = e[Root][0]
    BY <1>0, <1>1
  <2> QED
    BY <1>1, <1>2, <2>1 DEF Lengths, Length
<1>4. ASSUME NEW b \in Root..NB, NEW k \in Bodies, Branch(e2, t, 0, b, k)
      PROVE  Length(e2, e2[b][k].first, 0, e2[b][k].len)
  <2>1. b # B \/ k # K
    BY <1>4 DEF Branch, Added, FILE, DIR
  <2>2. e2[b][k] = e[b][k]
    BY <1>1, <2>1
  <2>3. Branch(e, t, 0, b, k)
    BY <1>0, <1>4, <2>1, <2>2 DEF Branch
  <2>4. e[b][k].first \in Block
    BY <1>1, <2>3 DEF Volumed, Owned, Branch
  <2>5. Length(e, e[b][k].first, 0, e[b][k].len)
    BY <2>3 DEF Lengths
  <2> QED
    BY <1>2, <2>2, <2>4, <2>5 DEF Length
<1> QED
  BY <1>3, <1>4 DEF Lengths

LEMMA createVolume ==
  ASSUME NEW f \in Fats, NEW e \in Ents, NEW t, NEW c,
         Volumed(f, e, t, 0), Lengths(e, t, 0, 0), Here(e, t, 0, c),
         NEW n \in Names, Fresh(e, c.first, n),
         NEW K \in Index, Vacant(e, c.first, K), NEW i \in DataBlock, f[i] = FREE,
         NEW x \in Entry, x.name = n, x.attr = FILE, x.first = i,
         NEW e2, e2 = PutEntry(e, At(c.first, K), x)
  PROVE  /\ Volumed(SetBoth(f, i, END), e2, t, 0) /\ Lengths(e2, t, 0, 0)
         /\ More(e, t, 0, e2, t, 0)
<1> DEFINE B == c.first
           f2 == SetBoth(f, i, END)
           at == [blk |-> B, idx |-> K]
<1>1. /\ K \in Bodies /\ At(B, K) = at /\ Room(e, t, B, K, n)
      /\ B \in Block /\ B \in Root..NB
  BY RoomAt
<1>2. at \in Pointers
  BY <1>1 DEF Pointers
<1>3. Allotted(f, f2, i)
  BY SetBothAllots
<1>4. e2 = PutEntry(e, at, x)
  BY <1>1
<1>5. /\ e2[B][K] = x
      /\ \A b \in Block, k \in Index : b # B \/ k # K => e2[b][k] = e[b][k]
  <2>1. /\ PutEntry(e, at, x)[at.blk][at.idx] = x
        /\ \A b \in Block, k \in Index :
              b # at.blk \/ k # at.idx => PutEntry(e, at, x)[b][k] = e[b][k]
    BY <1>2, PutEntryAt
  <2>2. at.blk = B /\ at.idx = K
    OBVIOUS
  <2> QED
    BY ONLY <1>4, <2>1, <2>2
<1> HIDE DEF B, f2, at
<1>6. /\ Added(e, e2, B, K, n, FILE, i)
      /\ \A b \in Block, k \in {0, 1} : b # i => AsBefore(e2[b][k], e[b][k])
  <2>1. \A k \in Bodies : k \in Index /\ k # 0 /\ k # 1
    BY Layout
  <2>2. 0 \in Index /\ 1 \in Index
    BY Sizes
  <2> QED
    BY <1>1, <1>5, <2>1, <2>2 DEF Added, AsBefore
<1>7. Owned(f2, e2, t, 0)
  BY <1>1, <1>3, <1>6, AddOwned
<1>8. Housed(e2, t, 0)
  BY <1>1, <1>6, AddHoused
<1>9. Dots(f2, e2, t, 0)
  <2>1. FILE # DIR
    BY DEF FILE, DIR
  <2> QED
    BY <1>1, <1>3, <1>6, <2>1, AddDots
<1>10. Reserved(f2) /\ FreeIsBlank(f2, e2, t) /\ Unnamed(e2)
  BY <1>1, <1>3, <1>6, AddFree
<1>11. Lengths(e2, t, 0, 0)
  BY <1>1, <1>5, <1>6, createLengths
<1>12. More(e, t, 0, e2, t, 0)
  <2>1. \A b \in Root..NB, k \in Bodies : Named(e, t, 0, b, k) =>
          Named(e2, t, 0, b, k) /\ AsBefore(e2[b][k], e[b][k])
    BY <1>1, <1>6, AddNamed
  <2> QED
    BY <2>1 DEF More
<1> QED
  BY <1>7, <1>8, <1>9, <1>10, <1>11, <1>12 DEF Volumed, f2

LEMMA createKeeps ==
  ASSUME TypeInv, CarefulInv, NEW n \in Names, MindRoom, create(n)
  PROVE  CarefulInv'
<1>1. /\ fat \in Fats /\ ents \in Ents /\ mode = "shell"
      /\ Volumed(fat, ents, text, 0) /\ Lengths(ents, text, 0, 0)
      /\ Here(ents, text, 0, cur) /\ Walked(ents, text, 0, path, cur.first)
      /\ Held(ents, text, 0, slots)
  BY ShellParts DEF create, Typed
<1>2. PICK k \in Index, i \in 0..NB :
        /\ StopsAt(DS, LAMBDA j : ents[cur.first][j].name = "", k)
        /\ StopsAt(NB, LAMBDA j : fat[j] = FREE, i)
        /\ fat' = SetBoth(fat, i, END)
        /\ ents' = RootName(PutEntry(ents, At(cur.first, k),
                       [name |-> n, attr |-> FILE, first |-> i, len |-> BlockSize]),
                       i, JunkName)
  BY DEF create
<1> DEFINE x == [name |-> n, attr |-> FILE, first |-> i, len |-> BlockSize]
<1>3. Vacant(ents, cur.first, k)
  <2>1. k < DS
    BY Sizes DEF Index
  <2> QED
    BY <1>2, <2>1 DEF StopsAt, Vacant
<1>4. i \in DataBlock /\ fat[i] = FREE
  <2>1. (i < NB => fat[i] = FREE) /\ \A j \in 0..(NB - 1) : j < i => fat[j] # FREE
    BY <1>2 DEF StopsAt
  <2>2. Reserved(fat) /\ \E j \in DataBlock : fat[j] = FREE
    BY <1>1 DEF Volumed, MindRoom, RoomInTable
  <2> QED
    BY <2>1, <2>2, FirstFree
<1>5. i # NB /\ i \in 0..NB
  BY <1>4, Layout
<1>6. x \in Entry
  <2>1. n \in NameText
    BY DEF NameText
  <2>2. BlockSize \in 0..(LengthMod - 1)
    BY ShellFacts, LengthModPositive
  <2> QED
    BY <1>5, <2>1, <2>2, EntryType
<1>7. fat' = SetBoth(fat, i, END) /\ ents' = PutEntry(ents, At(cur.first, k), x)
  <2>1. \A y : RootName(y, i, JunkName) = y
    BY <1>5 DEF RootName
  <2> QED
    BY <1>2, <2>1
<1>8. Fresh(ents, cur.first, n)
  BY DEF create, IsNamed, Entries, Fresh
<1>9. x.name = n /\ x.attr = FILE /\ x.first = i
  OBVIOUS
<1> HIDE DEF x
<1>10. /\ Volumed(fat', ents', text, 0) /\ Lengths(ents', text, 0, 0)
       /\ More(ents, text, 0, ents', text, 0)
  BY <1>1, <1>3, <1>4, <1>6, <1>7, <1>8, <1>9, createVolume
<1>11. /\ Here(ents', text, 0, cur) /\ Walked(ents', text, 0, path, cur.first)
       /\ Held(ents', text, 0, slots)
  BY <1>1, <1>10, MoreKeeps
<1>12. UNCHANGED <<text, slots, cur, path, scan, host, mode>>
  BY DEF create
<1>13. Settled(0, 0)'
  BY <1>10, <1>11, <1>12 DEF Settled
<1> QED
  BY <1>1, <1>12, <1>13, ShellStep

-----------------------------------------------------------------------------
(***************************************************************************)
(* The open files.                                                         *)
(***************************************************************************)
LEMMA SlotPut ==
  ASSUME NEW e, NEW t, NEW D, NEW s \in Slots, Held(e, t, D, s), NEW j,
         NEW x, Fits(e, t, D, x)
  PROVE  Held(e, t, D, [s EXCEPT ![j] = x])
<1> SUFFICES ASSUME NEW i \in 0..(MaxOpen - 1) PROVE Fits(e, t, D, [s EXCEPT ![j] = x][i])
  BY DEF Held
<1>1. Fits(e, t, D, s[i])
  BY DEF Held
<1>2. [s EXCEPT ![j] = x][i] = x \/ [s EXCEPT ![j] = x][i] = s[i]
  BY DEF Slots
<1> QED
  BY <1>1, <1>2

LEMMA SlotPutLen ==
  ASSUME NEW e, NEW t, NEW D, NEW s \in Slots, Held(e, t, D, s), NEW j \in 0..(MaxOpen - 1),
         NEW l
  PROVE  /\ Held(e, t, D, [s EXCEPT ![j].len = l])
         /\ [s EXCEPT ![j].len = l][j].attr = s[j].attr
<1>1. s[j] \in Slot /\ [s EXCEPT ![j].len = l][j] = [s[j] EXCEPT !.len = l]
  BY DEF Slots
<1>2. /\ [s EXCEPT ![j].len = l][j].attr = s[j].attr
      /\ [s EXCEPT ![j].len = l][j].first = s[j].first
      /\ [s EXCEPT ![j].len = l][j].dirno = s[j].dirno
      /\ [s EXCEPT ![j].len = l][j].diroff = s[j].diroff
  BY <1>1 DEF Slot
<1>3. [s EXCEPT ![j].len = l][j].name = s[j].name
  BY <1>1 DEF Slot
<1>4. \A i \in 0..(MaxOpen - 1) : i # j => [s EXCEPT ![j].len = l][i] = s[i]
  BY DEF Slots
<1> HIDE DEF Slots
<1>5. \A i \in 0..(MaxOpen - 1) : Fits(e, t, D, [s EXCEPT ![j].len = l][i])
  <2> SUFFICES ASSUME NEW i \in 0..(MaxOpen - 1)
               PROVE  Fits(e, t, D, [s EXCEPT ![j].len = l][i])
    OBVIOUS
  <2>1. Fits(e, t, D, s[i])
    BY DEF Held
  <2>2. CASE i = j
    BY <1>2, <1>3, <2>1, <2>2 DEF Fits
  <2>3. CASE i # j
    BY <1>4, <2>1, <2>3
  <2> QED
    BY <2>2, <2>3
<1> QED
  BY <1>2, <1>5 DEF Held

\* What a lookup of a file finds in a directory.
LEMMA FileFound ==
  ASSUME NEW f, NEW e, NEW t, NEW b, Volumed(f, e, t, 0), House(e, t, 0, b),
         NEW k \in Index, e[b][k].attr = FILE
  PROVE  Named(e, t, 0, b, k)
<1>1. /\ Dot(e[b][0], ".", b) /\ IsUp(e[b][1]) /\ b \in Root..NB /\ b \in Block
      /\ t[b] = NoText
  BY HouseShape
<1>2. DIR # FILE /\ FILE # 0
  BY DEF DIR, FILE
<1>3. k \in Bodies
  <2>1. k # 0 /\ k # 1
    BY <1>1, <1>2 DEF Dot, IsUp
  <2> QED
    BY <2>1, Layout
<1>4. e[b][k].name # ""
  BY <1>1, <1>2, <1>3 DEF Volumed, Unnamed
<1> QED
  BY <1>1, <1>3, <1>4, Layout DEF Named

LEMMA openFileKeeps ==
  ASSUME TypeInv, CarefulInv, NEW n \in Names, openFile(n)
  PROVE  CarefulInv'
<1>1. /\ mode = "shell" /\ Settled(0, 0) /\ Volumed(fat, ents, text, 0)
      /\ Held(ents, text, 0, slots) /\ House(ents, text, 0, cur.first) /\ slots \in Slots
  BY ShellParts, CarefulTypes DEF openFile, Typed
<1>2. PICK k, j, x :
        /\ k \in Index /\ j \in 0..MaxOpen
        /\ x = [name |-> ents[cur.first][k].name, attr |-> ents[cur.first][k].attr,
                first |-> ents[cur.first][k].first, len |-> ents[cur.first][k].len,
                dirno |-> cur.first, diroff |-> k]
        /\ ents[cur.first][k].attr = FILE
        /\ \/ slots' = [slots EXCEPT ![fp] = x]
           \/ slots' = [slots EXCEPT ![j] = x]
           \/ slots' = slots
  <2>1. PICK k \in Index, j \in 0..MaxOpen :
        LET e == ents[cur.first][k]
            new == [name |-> e.name, attr |-> e.attr, first |-> e.first,
                    len |-> e.len, dirno |-> cur.first, diroff |-> k]
        IN  /\ StopsAt(DS, LAMBDA x : IsFileNamed(ents[cur.first][x], n), k)
            /\ IF j = MaxOpen
               THEN /\ slots' = [slots EXCEPT ![fp] = new]
                    /\ UNCHANGED <<fp, mode>>
               ELSE /\ slots' = IF slots[j].name = ""
                                THEN [slots EXCEPT ![j] = new] ELSE slots
                    /\ fp' = j /\ UNCHANGED mode
    BY DEF openFile
  <2>2. IsFileNamed(ents[cur.first][k], n)
    <3>1. k < DS
      BY Sizes DEF Index
    <3> QED
      BY <2>1, <3>1 DEF StopsAt
  <2>3. ents[cur.first][k].attr = FILE
    BY <2>2 DEF IsFileNamed
  <2> QED
    BY <2>1, <2>3
<1>3. Named(ents, text, 0, cur.first, k)
  BY <1>1, <1>2, FileFound
<1>4. Fits(ents, text, 0, x)
  <2>1. /\ x.dirno = cur.first /\ x.diroff = k /\ x.first = ents[cur.first][k].first
        /\ x.attr = ents[cur.first][k].attr
    BY <1>2
  <2>2. x.name = ents[cur.first][k].name
    BY <1>2
  <2> QED
    BY <1>2, <1>3, <2>1, <2>2 DEF Fits
<1>5. Held(ents, text, 0, slots')
  BY <1>1, <1>2, <1>4, SlotPut
<1>6. UNCHANGED <<fat, ents, text, cur, path, scan, host, mode>>
  BY DEF openFile
<1>7. Settled(0, 0)'
  BY <1>1, <1>5, <1>6 DEF Settled
<1> QED
  BY <1>1, <1>6, <1>7, ShellStep

LEMMA EmptySlotClosed == EmptySlot.attr # FILE
<1>1. EmptySlot.attr = 0
  BY DEF EmptySlot
<1> QED
  BY <1>1 DEF FILE

LEMMA closeKeeps ==
  ASSUME TypeInv, CarefulInv, close PROVE CarefulInv'
<1>1. /\ mode = "shell" /\ Settled(0, 0) /\ Held(ents, text, 0, slots) /\ slots \in Slots
  BY ShellParts, CarefulTypes DEF close, Typed
<1>2. Fits(ents, text, 0, EmptySlot)
  BY EmptySlotClosed DEF Fits
<1>3. Held(ents, text, 0, slots')
  BY <1>1, <1>2, SlotPut DEF close
<1>4. UNCHANGED <<fat, ents, text, cur, path, scan, host, mode>>
  BY DEF close
<1>5. Settled(0, 0)'
  BY <1>1, <1>3, <1>4 DEF Settled
<1> QED
  BY <1>1, <1>4, <1>5, ShellStep

LEMMA writeKeeps ==
  ASSUME TypeInv, CarefulInv, NEW id \in TextIds, MindHandle, write(id)
  PROVE  CarefulInv'
<1>1. /\ mode = "shell" /\ Settled(0, 0) /\ Held(ents, text, 0, slots) /\ slots \in Slots
      /\ fp \in -1..(MaxOpen - 1)
  BY ShellParts, CarefulTypes DEF write, Typed
<1>2. /\ fp # -1 /\ slots[fp].attr = FILE /\ slots' = [slots EXCEPT ![fp].len = 0]
      /\ mode' = "edit"
      /\ UNCHANGED <<fat, ents, text, fp, cur, path, stack, scan, host>>
  BY DEF MindHandle, write
<1>3. fp \in 0..(MaxOpen - 1)
  BY <1>1, <1>2, ShellFacts
<1>4. Held(ents, text, 0, slots') /\ slots'[fp].attr = FILE
  <2>1. /\ Held(ents, text, 0, [slots EXCEPT ![fp].len = 0])
        /\ [slots EXCEPT ![fp].len = 0][fp].attr = slots[fp].attr
    BY <1>1, <1>3, SlotPutLen
  <2> QED
    BY <1>2, <2>1
<1>5. Settled(0, 0)'
  BY <1>1, <1>2, <1>4 DEF Settled
<1> QED
  BY <1>1, <1>2, <1>4, <1>5 DEF CarefulInv

-----------------------------------------------------------------------------
(***************************************************************************)
(* The end of a run.                                                       *)
(***************************************************************************)
LEMMA ForgetKeeps ==
  ASSUME ForgetMemory, host'.state # "torn",
         host'.state = "saved" => /\ Volumed(host'.fat, host'.ents, host'.text, 0)
                                  /\ Lengths(host'.ents, host'.text, 0, 0)
  PROVE  CarefulInv'
<1>1. \A j \in 0..(MaxOpen - 1) : slots'[j].attr # FILE
  BY EmptySlotClosed DEF ForgetMemory
<1>2. mode' = "off" /\ scan'.idx = DS
  BY DEF ForgetMemory, NoScan
<1> QED
  BY <1>1, <1>2 DEF CarefulInv

LEMMA existsysKeeps ==
  ASSUME TypeInv, CarefulInv, existsys PROVE CarefulInv'
<1>1. ForgetMemory /\ Volumed(fat, ents, text, 0) /\ Lengths(ents, text, 0, 0)
  BY ShellParts DEF existsys, Typed
<1>2. host'.state = "saved" /\ host'.fat = fat /\ host'.ents = ents /\ host'.text = text
  BY DEF existsys, Image
<1> QED
  BY <1>1, <1>2, ForgetKeeps

LEMMA CrashKeeps ==
  ASSUME CarefulInv, Crash PROVE CarefulInv'
<1>1. ForgetMemory /\ host' = host
  BY DEF Crash
<1> QED
  BY <1>1, ForgetKeeps DEF CarefulInv

-----------------------------------------------------------------------------
(***************************************************************************)
(* format() and startsys(): a volume with nothing in use.                  *)
(***************************************************************************)
NothingBeyond(e, t) ==
    \A b \in Root..NB, k \in Bodies : b > LastWiped /\ t[b] = NoText => e[b][k].name = ""

LEMMA WipedAt ==
  ASSUME NEW e, NEW t
  PROVE  /\ \A b \in Block, k \in Bodies :
               \/ FormattedEnts(e)[b][k] = Blank
               \/ FormattedEnts(e)[b][k] = e[b][k] /\ b \notin Root..LastWiped
         /\ \A b \in Block : /\ FormattedText(t)[b] = NoText /\ b \notin Root..LastWiped
                                  => t[b] = NoText
                             /\ b \in Root..LastWiped => FormattedText(t)[b] = NoText
                             /\ /\ t[b] = NoText /\ b # 0
                                => FormattedText(t)[b] = NoText
         /\ Dot(FormattedEnts(e)[Root][0], ".", Root)
         /\ Dot(FormattedEnts(e)[Root][1], "..", Root)
         /\ FormattedEnts(e)[Root][0].len = 2
<1> DEFINE dot == [name |-> ".", attr |-> DIR, first |-> Root, len |-> 2]
           dotdot == [name |-> "..", attr |-> DIR, first |-> Root, len |-> 1]
           d == FormattedEnts(e)
<1>1. /\ \A b \in Block, k \in Bodies : \/ d[b][k] = Blank
                                        \/ d[b][k] = e[b][k] /\ b \notin Root..LastWiped
      /\ d[Root][0] = dot /\ d[Root][1] = dotdot
  BY Sizes, Layout DEF FormattedEnts, Bodies
<1>2. /\ Dot(dot, ".", Root) /\ Dot(dotdot, "..", Root) /\ dot.len = 2
  BY DEF Dot
<1>3. \A b \in Block : /\ FormattedText(t)[b] = NoText /\ b \notin Root..LastWiped
                            => t[b] = NoText
                       /\ b \in Root..LastWiped => FormattedText(t)[b] = NoText
                       /\ /\ t[b] = NoText /\ b # 0
                          => FormattedText(t)[b] = NoText
  <2>1. NoText # Junk
    BY DEF NoText, Junk
  <2>2. 0 \notin Root..LastWiped
    BY Sizes
  <2> SUFFICES ASSUME NEW b \in Block
               PROVE  /\ FormattedText(t)[b] = NoText /\ b \notin Root..LastWiped
                           => t[b] = NoText
                      /\ b \in Root..LastWiped => FormattedText(t)[b] = NoText
                      /\ /\ t[b] = NoText /\ b # 0
                         => FormattedText(t)[b] = NoText
    OBVIOUS
  <2>3. FormattedText(t)[b] = CASE b = 0 -> Junk
                                [] b \in Root..LastWiped -> NoText
                                [] b = LastWiped + 1 /\ t[b] # NoText -> Junk
                                [] OTHER -> t[b]
    BY DEF FormattedText
  <2>4. LastWiped + 1 \notin Root..LastWiped /\ LastWiped + 1 # 0
    BY SizesAssumption, Sizes
  <2> HIDE DEF dot, dotdot, d
  <2>5. CASE b = 0
    BY <2>1, <2>2, <2>3, <2>4, <2>5
  <2>6. CASE b \in Root..LastWiped
    BY <2>2, <2>3, <2>4, <2>6
  <2>7. CASE b = LastWiped + 1 /\ t[b] # NoText
    BY <2>1, <2>3, <2>4, <2>7
  <2>8. CASE ~ (b = 0 \/ b \in Root..LastWiped \/ (b = LastWiped + 1 /\ t[b] # NoText))
    BY <2>3, <2>8
  <2> QED
    BY <2>5, <2>6, <2>7, <2>8
<1> HIDE DEF dot, dotdot, d
<1> QED
  BY <1>1, <1>2, <1>3 DEF d

LEMMA FormattedVolume ==
  ASSUME NEW e, NEW t, Unnamed(e), NothingBeyond(e, t),
         \A b \in DataBlock : b > LastWiped => t[b] = NoText
  PROVE  /\ Volumed(FormattedFat, FormattedEnts(e), FormattedText(t), 0)
         /\ Lengths(FormattedEnts(e), FormattedText(t), 0, 0)
<1> DEFINE d == FormattedEnts(e)
           u == FormattedText(t)
<1>1. /\ \A b \in Block, k \in Bodies : \/ d[b][k] = Blank
                                        \/ d[b][k] = e[b][k] /\ b \notin Root..LastWiped
      /\ \A b \in Block : /\ u[b] = NoText /\ b \notin Root..LastWiped => t[b] = NoText
                          /\ b \in Root..LastWiped => u[b] = NoText
                          /\ t[b] = NoText /\ b # 0 => u[b] = NoText
      /\ Dot(d[Root][0], ".", Root) /\ Dot(d[Root][1], "..", Root) /\ d[Root][0].len = 2
  BY WipedAt
<1> HIDE DEF d, u
<1>2. /\ \A b \in Root..NB : b \in Block /\ (b \notin Root..LastWiped => b > LastWiped)
      /\ \A b \in DataBlock : b \in Block /\ b \in Root..NB /\ b # 0
      /\ Root \in Root..LastWiped
  BY Layout, Sizes, SizesAssumption
<1>3. Blank.name = "" /\ Blank.attr = 0
  BY DEF Blank
<1>4. ASSUME NEW b \in Root..NB, NEW k \in Bodies, u[b] = NoText PROVE d[b][k].name = ""
  <2>1. CASE d[b][k] = Blank
    BY <1>3, <2>1
  <2>2. CASE d[b][k] = e[b][k] /\ b \notin Root..LastWiped
    <3>1. b > LastWiped /\ t[b] = NoText
      BY <1>1, <1>2, <1>4, <2>2
    <3> QED
      BY <2>2, <3>1 DEF NothingBeyond
  <2> QED
    BY <1>1, <1>2, <2>1, <2>2
<1>5. \A b, k : ~ Named(d, u, 0, b, k)
  BY <1>4 DEF Named
<1>6. Reserved(FormattedFat) /\ \A c \in DataBlock : FormattedFat[c] = FREE
  <2>1. \A c \in DataBlock : c \in Table /\ ~ (c < Root) /\ c # Root
    BY Sizes DEF DataBlock, Table
  <2>2. Root \in Table /\ ~ (Root < Root) /\ \A c \in 0..(Root - 1) : c \in Table /\ c < Root
    BY Sizes DEF Table
  <2> QED
    BY <2>1, <2>2 DEF Reserved, FormattedFat
<1>7. Owned(FormattedFat, d, u, 0)
  <2>1. Links(FormattedFat) = {}
    BY <1>6 DEF Links, IsLink
  <2> QED
    BY <1>5, <2>1 DEF Owned
<1>8. Housed(d, u, 0)
  BY <1>5 DEF Housed
<1>9. Dots(FormattedFat, d, u, 0)
  BY <1>1, <1>2, <1>5, Layout DEF Dots, Branch
<1>10. FreeIsBlank(FormattedFat, d, u)
  <2> SUFFICES ASSUME NEW b \in DataBlock
               PROVE  u[b] = NoText /\ \A k \in Bodies : d[b][k].name = ""
    BY DEF FreeIsBlank, Bodies
  <2>1. u[b] = NoText
    BY <1>1, <1>2
  <2> QED
    BY <1>2, <1>4, <2>1
<1>11. Unnamed(d)
  BY <1>1, <1>3 DEF Unnamed
<1>12. Lengths(d, u, 0, 0)
  <2>1. Subdirs(d, Root) = {}
    <3>1. u[Root] = NoText /\ Root \in Root..NB
      BY <1>1, <1>2, Layout
    <3> QED
      BY <1>4, <3>1 DEF Subdirs, Bodies
  <2>2. Cardinality(Subdirs(d, Root)) = 0
    BY <2>1, FS_EmptySet
  <2>3. Root # 0
    BY Sizes
  <2> QED
    BY <1>1, <1>5, <2>2, <2>3 DEF Lengths, Length, Branch
<1> QED
  BY <1>6, <1>7, <1>8, <1>9, <1>10, <1>11, <1>12 DEF Volumed, d, u

LEMMA RootWalked == ASSUME NEW e, NEW t, NEW D, NEW q, Len(q) = 1, q[1] = "root"
                    PROVE  Walked(e, t, D, q, Root)
<1> DEFINE w == [i \in 1..1 |-> Root]
<1>1. w \in [1..Len(q) -> Root..NB] /\ w[1] = Root /\ w[Len(q)] = Root
  BY Layout
<1>2. Passes(e, t, D, q, w)
  <2>1. \A i \in 2..1 : FALSE
    OBVIOUS
  <2>2. \A i, j \in 1..1 : i = j
    OBVIOUS
  <2> QED
    BY <1>1, <2>1, <2>2 DEF Passes
<1> QED
  BY <1>1, <1>2 DEF Walked

\* The path of the root is the root's name alone.
LEMMA WalkedRoot == ASSUME NEW e, NEW t, NEW D, NEW q, Walked(e, t, D, q, Root), Len(q) \in Nat
                    PROVE  Len(q) = 1 /\ q[1] = "root"
<1>1. PICK w \in [1..Len(q) -> Root..NB] : Passes(e, t, D, q, w) /\ w[Len(q)] = Root
  BY DEF Walked
<1>2. Len(q) >= 1
  BY DEF Walked
<1>3. w[1] = Root /\ q[1] = "root" /\ \A i, j \in 1..Len(q) : w[i] = w[j] => i = j
  BY <1>1 DEF Passes
<1>4. 1 \in 1..Len(q) /\ Len(q) \in 1..Len(q)
  BY <1>2
<1> QED
  BY <1>1, <1>3, <1>4

LEMMA formatKeeps ==
  ASSUME TypeInv, CarefulInv, MindFormat, format PROVE CarefulInv'
<1>1. /\ mode = "shell" /\ Volumed(fat, ents, text, 0)
      /\ Here(ents, text, 0, cur) /\ Walked(ents, text, 0, path, cur.first)
      /\ path \in Paths
  BY ShellParts, TypeParts DEF format, Typed, TypeInv, RestTyped
<1>2. /\ cur.first = Root
      /\ \A j \in 0..(MaxOpen - 1) : slots[j].attr # FILE
      /\ \A b \in DataBlock : b > LastWiped => fat[b] = FREE
  BY DEF MindFormat, OpenFirsts
<1>3. /\ fat' = FormattedFat /\ ents' = FormattedEnts(ents) /\ text' = FormattedText(text)
      /\ host' = Image("saved", fat', ents', text')
      /\ UNCHANGED <<slots, fp, cur, path, edit, stack, scan, mode>>
  BY DEF format
<1>4. \A b \in DataBlock : b > LastWiped => text[b] = NoText
  BY <1>1, <1>2 DEF Volumed, FreeIsBlank
<1>5. NothingBeyond(ents, text)
  <2> SUFFICES ASSUME NEW b \in Root..NB, NEW k \in Bodies, b > LastWiped,
                      text[b] = NoText, ~ Vacant(ents, b, k)
               PROVE  FALSE
    BY DEF NothingBeyond, Vacant
  <2>1. Named(ents, text, 0, b, k)
    BY Layout DEF Named, Vacant
  <2>2. House(ents, text, 0, b)
    BY <1>1, <2>1 DEF Volumed, Housed
  <2>3. b # Root
    BY SizesAssumption, Sizes
  <2>4. b \in DataBlock /\ fat[b] = END
    BY <1>1, <2>2, <2>3, HouseEnd
  <2>5. fat[b] = FREE
    BY <1>2, <2>4
  <2> QED
    BY <2>4, <2>5, Sizes
<1>6. Volumed(fat', ents', text', 0) /\ Lengths(ents', text', 0, 0)
  <2>1. Unnamed(ents)
    BY <1>1 DEF Volumed
  <2> QED
    BY <1>3, <1>4, <1>5, <2>1, FormattedVolume
<1>7. cur = [first |-> Root, dirno |-> Root, diroff |-> 0]
  <2>1. ~ Branch(ents, text, 0, cur.dirno, cur.diroff) \/ ents[cur.dirno][cur.diroff].first # Root
    <3> SUFFICES ASSUME Branch(ents, text, 0, cur.dirno, cur.diroff)
                 PROVE  ents[cur.dirno][cur.diroff].first # Root
      OBVIOUS
    <3>1. /\ Named(ents, text, 0, cur.dirno, cur.diroff)
          /\ cur.dirno \in Root..NB /\ cur.diroff \in Bodies
      BY DEF Branch, Named
    <3>2. ents[cur.dirno][cur.diroff].first \in DataBlock
      BY <1>1, <3>1 DEF Volumed, Owned
    <3> QED
      BY <3>2, Layout
  <2> QED
    BY <1>1, <1>2, <2>1 DEF Here
<1>8. Len(path) = 1 /\ path[1] = "root"
  <2>1. Len(path) \in Nat
    BY <1>1, LenType DEF Paths
  <2> QED
    BY <1>1, <1>2, <2>1, WalkedRoot
<1>9. Walked(ents', text', 0, path, Root) /\ Here(ents', text', 0, cur)
  BY <1>7, <1>8, RootWalked DEF Here
<1>10. Held(ents', text', 0, slots)
  BY <1>2 DEF Held, Fits
<1>11. Settled(0, 0)'
  BY <1>2, <1>3, <1>6, <1>9, <1>10 DEF Settled
<1>12. host'.state = "saved" /\ host'.fat = fat' /\ host'.ents = ents' /\ host'.text = text'
  BY <1>3 DEF Image
<1>13. scan.idx = DS
  BY <1>1 DEF CarefulInv
<1> QED
  BY <1>1, <1>3, <1>6, <1>11, <1>12, <1>13 DEF CarefulInv

LEMMA NewVolume ==
  /\ NewImage.state = "saved"
  /\ Volumed(NewImage.fat, NewImage.ents, NewImage.text, 0)
  /\ Lengths(NewImage.ents, NewImage.text, 0, 0)
<1>1. /\ NewImage.state = "saved" /\ NewImage.fat = FormattedFat
      /\ NewImage.ents = FormattedEnts(ZeroEnts) /\ NewImage.text = FormattedText(ZeroText)
  BY DEF NewImage, Image
<1>2. \A b \in Block, k \in Bodies : ZeroEnts[b][k] = Blank
  BY Layout DEF ZeroEnts
<1>3. Blank.name = "" /\ Blank.attr = 0
  BY DEF Blank
<1>4. Unnamed(ZeroEnts) /\ NothingBeyond(ZeroEnts, ZeroText)
  BY <1>2, <1>3, Layout DEF Unnamed, NothingBeyond
<1>5. \A b \in DataBlock : ZeroText[b] = NoText
  BY Layout DEF ZeroText
<1> QED
  BY <1>1, <1>4, <1>5, FormattedVolume

LEMMA startsysKeeps ==
  ASSUME TypeInv, CarefulInv, startsys PROVE CarefulInv'
<1>1. /\ mode = "off" /\ mode' = "shell" /\ path' = <<"root">> /\ scan' = scan
      /\ \A j \in 0..(MaxOpen - 1) : slots[j].attr # FILE
      /\ scan.idx = DS
  BY DEF startsys, CarefulInv
<1>2. PICK v : /\ v.state = "saved"
               /\ Volumed(v.fat, v.ents, v.text, 0) /\ Lengths(v.ents, v.text, 0, 0)
               /\ host' = v /\ fat' = v.fat /\ ents' = v.ents /\ text' = v.text
               /\ slots' = [slots EXCEPT ![0] = RootSlot(v.ents)]
               /\ cur' = [first |-> v.ents[Root][0].first, dirno |-> Root, diroff |-> 0]
  <2>1. CASE host.state = "none"
    BY <2>1, NewVolume DEF startsys
  <2>2. CASE host.state # "none"
    <3>1. host.state = "saved"
      BY <2>2, TypeParts DEF startsys, TypeInv, RestTyped, ImageType
    <3>2. Volumed(host.fat, host.ents, host.text, 0) /\ Lengths(host.ents, host.text, 0, 0)
      BY <3>1 DEF CarefulInv
    <3> QED
      BY <2>2, <3>1, <3>2 DEF startsys
  <2> QED
    BY <2>1, <2>2
<1>3. v.ents[Root][0].first = Root
  BY <1>2 DEF Volumed, Dots, Dot
<1>4. Here(ents', text', 0, cur') /\ cur'.first = Root
  BY <1>2, <1>3 DEF Here
<1>5. Walked(ents', text', 0, path', cur'.first)
  BY <1>1, <1>4, RootWalked
<1>6. Held(ents', text', 0, slots')
  <2>1. RootSlot(v.ents).attr # FILE
    <3>1. RootSlot(v.ents).attr = DIR
      BY DEF RootSlot
    <3> QED
      BY <3>1 DEF DIR, FILE
  <2>2. slots \in Slots /\ Held(ents', text', 0, slots)
    BY <1>1, CarefulTypes DEF Held, Fits
  <2>3. Fits(ents', text', 0, RootSlot(v.ents))
    BY <2>1 DEF Fits
  <2> QED
    BY <1>2, <2>2, <2>3, SlotPut
<1>7. Settled(0, 0)'
  BY <1>2, <1>4, <1>5, <1>6 DEF Settled
<1> QED
  BY <1>1, <1>2, <1>7 DEF CarefulInv

-----------------------------------------------------------------------------
(***************************************************************************)
(* Blocks are freed.                                                       *)
(***************************************************************************)
Freed(f, f2, S) == /\ S \subseteq DataBlock
                   /\ \A c \in 0..NB : (c \in S => f2[c] = FREE) /\ (c \notin S => f2[c] = f[c])
\* Neither a cell outside S nor an entry leads into S.
Apart(f, e, t, D, S) ==
    /\ \A c \in Links(f) : f[c] \in S => c \in S
    /\ \A b \in Root..NB, k \in Bodies : Named(e, t, D, b, k) => e[b][k].first \notin S

LEMMA FreedReserved ==
  ASSUME NEW f, NEW f2, NEW S, Freed(f, f2, S), Reserved(f) PROVE Reserved(f2)
<1>1. \A c \in 0..(Root - 1) : c \in 0..NB /\ c \notin DataBlock
  BY Sizes DEF DataBlock
<1>2. Root \in 0..NB /\ Root \notin DataBlock
  BY Layout
<1> QED
  BY <1>1, <1>2 DEF Freed, Reserved

LEMMA FreedOwned ==
  ASSUME NEW f, NEW f2, NEW e, NEW t, NEW D, NEW S, Freed(f, f2, S), Apart(f, e, t, D, S),
         Owned(f, e, t, D)
  PROVE  Owned(f2, e, t, D)
<1>1. \A c \in DataBlock : c \in 0..NB
  BY Layout
<1>2. \A c \in Links(f2) : c \in Links(f) /\ f2[c] = f[c] /\ c \notin S
  BY <1>1 DEF Links, IsLink, Freed
<1>3. \A b \in Root..NB, k \in Bodies : Named(e, t, D, b, k) =>
         e[b][k].first \in DataBlock /\ f2[e[b][k].first] # FREE
  BY <1>1 DEF Owned, Freed, Apart
<1>4. \A c \in Links(f2) : f2[c] \in DataBlock /\ f2[f2[c]] # FREE
  BY <1>1, <1>2 DEF Owned, Freed, Apart
<1>5. /\ \A b, c \in Root..NB, k, l \in Bodies :
           Named(e, t, D, b, k) /\ Named(e, t, D, c, l) /\ e[b][k].first = e[c][l].first
              => b = c /\ k = l
      /\ \A c, d \in Links(f2) : f2[c] = f2[d] => c = d
      /\ \A b \in Root..NB, k \in Bodies, c \in Links(f2) :
            Named(e, t, D, b, k) => e[b][k].first # f2[c]
  BY <1>2 DEF Owned
<1> QED
  BY <1>3, <1>4, <1>5 DEF Owned

LEMMA FreedDots ==
  ASSUME NEW f, NEW f2, NEW e, NEW t, NEW D, NEW S, Freed(f, f2, S), Apart(f, e, t, D, S),
         Owned(f, e, t, D), Dots(f, e, t, D)
  PROVE  Dots(f2, e, t, D)
<1>1. \A b \in Root..NB, k \in Bodies : Branch(e, t, D, b, k) => f2[e[b][k].first] = END
  <2>1. \A c \in DataBlock : c \in 0..NB
    BY Layout
  <2>2. \A b \in Root..NB, k \in Bodies : Branch(e, t, D, b, k) =>
           /\ f[e[b][k].first] = END /\ e[b][k].first \in DataBlock /\ e[b][k].first \notin S
    BY DEF Branch, Owned, Dots, Apart
  <2> QED
    BY <2>1, <2>2 DEF Freed
<1> QED
  BY <1>1 DEF Dots

LEMMA FreeCellsFreed ==
  ASSUME NEW f, NEW S, S \subseteq DataBlock PROVE Freed(f, FreeCells(f, S), S)
<1>1. \A c \in 0..NB : c \in Table /\ c - NB \notin S
  BY Sizes DEF Table, DataBlock
<1> QED
  BY <1>1 DEF Freed, FreeCells

LEMMA SetBothFrees ==
  ASSUME NEW f \in Fats, NEW b \in DataBlock
  PROVE  Freed(f, SetBoth(f, b, FREE), {b}) /\ SetBoth(f, b, FREE) \in Fats
<1>1. b \in 0..NB /\ b # NB /\ b \in Nat
  BY Layout, Sizes
<1>2. \A c \in 0..NB : c \in Table /\ c # NB + b
  BY <1>1, Sizes DEF DataBlock, Table
<1>3. SetBoth(f, b, FREE) = [f EXCEPT ![b] = FREE, ![NB + b] = FREE]
  BY <1>1 DEF SetBoth
<1>4. SetBoth(f, b, FREE) \in Fats
  BY <1>1, SetBothType, EndIsLink
<1> QED
  BY <1>1, <1>2, <1>3, <1>4 DEF Freed, Fats

\* Directories and the path depend on the entries of directories alone.
Kept(e, t, D, e2, t2, D2, b, k) ==
    /\ Named(e2, t2, D2, b, k) /\ AsBefore(e2[b][k], e[b][k])
Branches(e, t, D, e2, t2, D2) ==
    \A b \in Root..NB, k \in Bodies : Branch(e, t, D, b, k) => Kept(e, t, D, e2, t2, D2, b, k)

LEMMA BranchesKeep ==
  ASSUME NEW e, NEW t, NEW D, NEW e2, NEW t2, NEW D2, Branches(e, t, D, e2, t2, D2)
  PROVE  /\ \A b : House(e, t, D, b) => House(e2, t2, D2, b)
         /\ \A c : Here(e, t, D, c) => Here(e2, t2, D2, c)
         /\ \A q, b : Walked(e, t, D, q, b) => Walked(e2, t2, D2, q, b)
<1>1. \A b, k : Branch(e, t, D, b, k) =>
          /\ Branch(e2, t2, D2, b, k) /\ e2[b][k].name = e[b][k].name
          /\ e2[b][k].first = e[b][k].first
  BY DEF Branches, Branch, Named, Kept, AsBefore
<1>2. \A b : House(e, t, D, b) => House(e2, t2, D2, b)
  BY <1>1 DEF House
<1>3. \A c : Here(e, t, D, c) => Here(e2, t2, D2, c)
  BY <1>1 DEF Here
<1>4. \A q, b : Walked(e, t, D, q, b) => Walked(e2, t2, D2, q, b)
  BY <1>1, SameWalked
<1> QED
  BY <1>2, <1>3, <1>4

-----------------------------------------------------------------------------
(***************************************************************************)
(* rmfile: the entry (B, K) of a file and its blocks S are cleared.        *)
(***************************************************************************)
Emptied(e, t, e2, t2, S, B, K) ==
    /\ \A b \in Block, k \in Index :
          /\ b = B /\ k = K => e2[b][k] = Blank
          /\ b \in S => e2[b][k] = Blank
          /\ ~ (b = B /\ k = K) /\ b \notin S => e2[b][k] = e[b][k]
    /\ \A b \in Block : (b \in S => t2[b] = NoText) /\ (b \notin S => t2[b] = t[b])

LEMMA DeleteEmpties ==
  ASSUME NEW e \in Ents, NEW t, NEW S, NEW at \in Pointers
  PROVE  Emptied(e, t, PutEntry(ClearBlocks(e, S), at, Blank), ClearText(t, S), S,
                 at.blk, at.idx)
<1> DEFINE d == ClearBlocks(e, S)
           d2 == PutEntry(d, at, Blank)
<1>1. d \in Ents
  BY ClearBlocksType
<1>2. \A b \in Block, k \in Index : d[b][k] = IF b \in S THEN Blank ELSE e[b][k]
  BY DEF ClearBlocks
<1> HIDE DEF d
<1>3. /\ d2[at.blk][at.idx] = Blank
      /\ \A b \in Block, k \in Index : b # at.blk \/ k # at.idx => d2[b][k] = d[b][k]
  BY <1>1, BlankType, PutEntryAt
<1> HIDE DEF d2
<1>4. \A b \in Block : ClearText(t, S)[b] = IF b \in S THEN NoText ELSE t[b]
  BY DEF ClearText
<1>5. \A b \in Block : /\ b \in S => ClearText(t, S)[b] = NoText
                       /\ b \notin S => ClearText(t, S)[b] = t[b]
  BY <1>4
<1>6. \A b \in Block, k \in Index :
          /\ b = at.blk /\ k = at.idx => d2[b][k] = Blank
          /\ b \in S => d2[b][k] = Blank
          /\ ~ (b = at.blk /\ k = at.idx) /\ b \notin S => d2[b][k] = e[b][k]
  BY <1>2, <1>3
<1>7. Emptied(e, t, d2, ClearText(t, S), S, at.blk, at.idx)
  BY <1>5, <1>6 DEF Emptied
<1> QED
  BY <1>7 DEF d, d2

\* No directory's block is in S.
Spared(e, t, S) == \A b : House(e, t, 0, b) => b \notin S

LEMMA EmptiedNamed ==
  ASSUME NEW f, NEW e, NEW t, NEW e2, NEW t2, NEW S, NEW B, NEW K,
         Volumed(f, e, t, 0), Emptied(e, t, e2, t2, S, B, K), Spared(e, t, S)
  PROVE  /\ \A b \in Root..NB, k \in Bodies :
               Named(e, t, 0, b, k) /\ ~ (b = B /\ k = K) =>
                   Named(e2, t2, 0, b, k) /\ e2[b][k] = e[b][k]
         /\ \A b \in Root..NB, k \in Bodies : Named(e2, t2, 0, b, k) =>
                   /\ Named(e, t, 0, b, k) /\ e2[b][k] = e[b][k] /\ ~ (b = B /\ k = K)
         /\ Fewer(e, t, 0, e2, t2, 0)
<1>1. /\ \A b \in Root..NB : b \in Block
      /\ \A k \in Bodies : k \in Index
      /\ Blank.name = ""
  BY Layout DEF Blank
<1>2. \A b \in Root..NB, k \in Bodies : Named(e, t, 0, b, k) => b \notin S
  BY DEF Volumed, Housed, Spared
<1>3. \A b \in Root..NB, k \in Bodies :
               Named(e, t, 0, b, k) /\ ~ (b = B /\ k = K) =>
                   Named(e2, t2, 0, b, k) /\ e2[b][k] = e[b][k]
  BY <1>1, <1>2 DEF Emptied, Named
<1>4. \A b \in Root..NB, k \in Bodies : Named(e2, t2, 0, b, k) =>
                   /\ Named(e, t, 0, b, k) /\ e2[b][k] = e[b][k] /\ ~ (b = B /\ k = K)
  BY <1>1 DEF Emptied, Named
<1>5. Fewer(e, t, 0, e2, t2, 0)
  BY <1>4 DEF Fewer
<1> QED
  BY <1>3, <1>4, <1>5

LEMMA EmptiedVolume ==
  ASSUME NEW f, NEW f2, NEW e, NEW t, NEW e2, NEW t2, NEW S, NEW B, NEW K \in Bodies,
         Volumed(f, e, t, 0), Lengths(e, t, 0, 0), Named(e, t, 0, B, K), e[B][K].attr = FILE,
         Freed(f, f2, S), Emptied(e, t, e2, t2, S, B, K), Spared(e, t, S),
         Apart(f, e2, t2, 0, S)
  PROVE  /\ Volumed(f2, e2, t2, 0) /\ Lengths(e2, t2, 0, 0)
         /\ Branches(e, t, 0, e2, t2, 0)
<1>1. /\ \A b \in Root..NB, k \in Bodies :
               Named(e, t, 0, b, k) /\ ~ (b = B /\ k = K) =>
                   Named(e2, t2, 0, b, k) /\ e2[b][k] = e[b][k]
      /\ \A b \in Root..NB, k \in Bodies : Named(e2, t2, 0, b, k) =>
                   /\ Named(e, t, 0, b, k) /\ e2[b][k] = e[b][k] /\ ~ (b = B /\ k = K)
      /\ Fewer(e, t, 0, e2, t2, 0)
  BY EmptiedNamed
<1>2. \A b \in Root..NB, k \in Bodies : Branch(e, t, 0, b, k) =>
          Branch(e2, t2, 0, b, k) /\ e2[b][k] = e[b][k]
  <2>1. DIR # FILE
    BY DEF DIR, FILE
  <2> QED
    BY <1>1, <2>1 DEF Branch
<1>3. \A b \in Root..NB, k \in Bodies : Branch(e2, t2, 0, b, k) =>
          Branch(e, t, 0, b, k) /\ e2[b][k] = e[b][k]
  BY <1>1 DEF Branch
<1>4. Branches(e, t, 0, e2, t2, 0)
  BY <1>2 DEF Branches, Kept, Branch, AsBefore
<1>5. \A b : House(e2, t2, 0, b) => House(e, t, 0, b) /\ b \notin S
  BY <1>3 DEF House, Spared
<1>6. \A b : House(e, t, 0, b) => b \in Block /\ b # 0
  BY HouseShape, Layout
<1>7. /\ 0 \in Index /\ 1 \in Index /\ K # 0 /\ K # 1
      /\ \A k \in Bodies : k \in Index
      /\ \A b \in DataBlock : b \in Block /\ b \in 0..NB
      /\ Root \in Block
  BY Layout, Sizes
<1>8. SameDots(e, t, e2, t2, 0)
  <2> SUFFICES ASSUME NEW b, House(e2, t2, 0, b)
               PROVE  /\ t[b] = NoText => t2[b] = NoText
                      /\ \A k \in {0, 1} : e2[b][k] = e[b][k]
    BY DEF SameDots
  <2> QED
    BY <1>5, <1>6, <1>7 DEF Emptied
<1>9. Owned(f2, e2, t2, 0)
  <2>1. Owned(f, e, t, 0)
    BY DEF Volumed
  <2>2. Owned(f, e2, t2, 0)
    BY <1>1, <2>1, FewerOwned
  <2> QED
    BY <2>2, FreedOwned
<1>10. Dots(f2, e2, t2, 0)
  <2>1. Owned(f, e, t, 0) /\ Dots(f, e, t, 0)
    BY DEF Volumed
  <2>2. Owned(f, e2, t2, 0)
    BY <1>1, <2>1, FewerOwned
  <2>3. Dots(f, e2, t2, 0)
    BY <1>1, <1>8, <2>1, FewerDots
  <2> QED
    BY <2>2, <2>3, FreedDots
<1>11. Housed(e2, t2, 0)
  <2>1. \A b : House(e, t, 0, b) => House(e2, t2, 0, b)
    BY <1>4, BranchesKeep
  <2> QED
    BY <1>1, <2>1 DEF Volumed, Housed
<1>12. Reserved(f2)
  BY FreedReserved DEF Volumed
<1>13. FreeIsBlank(f2, e2, t2)
  <2> SUFFICES ASSUME NEW b \in DataBlock, f2[b] = FREE
               PROVE  t2[b] = NoText /\ \A k \in Bodies : Vacant(e2, b, k)
    BY DEF FreeIsBlank, Bodies, Vacant
  <2>1. Blank.name = ""
    BY DEF Blank
  <2>2. \A k \in Bodies : e2[b][k] = Blank => Vacant(e2, b, k)
    BY <2>1 DEF Vacant
  <2>3. CASE b \in S
    BY <1>7, <2>2, <2>3 DEF Emptied
  <2>4. CASE b \notin S
    <3>1. f[b] = FREE
      BY <1>7, <2>4 DEF Freed
    <3>2. t[b] = NoText /\ \A k \in Bodies : Vacant(e, b, k)
      BY <3>1 DEF Volumed, FreeIsBlank, Bodies, Vacant
    <3>3. \A k \in Bodies : e2[b][k] = e[b][k] => Vacant(e2, b, k)
      BY <3>2 DEF Vacant
    <3> QED
      BY <1>7, <2>2, <2>4, <3>2, <3>3 DEF Emptied
  <2> QED
    BY <2>3, <2>4
<1>14. Unnamed(e2)
  <2> SUFFICES ASSUME NEW b \in Block, NEW k \in Bodies, Vacant(e2, b, k)
               PROVE  e2[b][k].attr = 0
    BY DEF Unnamed, Vacant
  <2>1. Blank.attr = 0
    BY DEF Blank
  <2>2. CASE e2[b][k] = Blank
    BY <2>1, <2>2
  <2>3. CASE e2[b][k] = e[b][k]
    BY <2>3 DEF Volumed, Unnamed, Vacant
  <2>4. e2[b][k] = Blank \/ e2[b][k] = e[b][k]
    BY <1>7 DEF Emptied
  <2> QED
    BY <2>2, <2>3, <2>4
<1>15. Lengths(e2, t2, 0, 0)
  <2>1. ASSUME NEW b, House(e, t, 0, b) PROVE Subdirs(e2, b) = Subdirs(e, b)
    <3>1. b \notin S /\ b \in Block
      BY <1>6, <2>1 DEF Spared
    <3>2. \A k \in Bodies : k \in Subdirs(e2, b) <=> k \in Subdirs(e, b)
      <4> SUFFICES ASSUME NEW k \in Bodies
                   PROVE  k \in Subdirs(e2, b) <=> k \in Subdirs(e, b)
        OBVIOUS
      <4>1. CASE b = B /\ k = K
        <5>1. e2[b][k] = Blank
          BY <1>7, <3>1, <4>1 DEF Emptied
        <5>4. DIR # FILE
          BY DEF DIR, FILE
        <5>0. Blank.name = ""
          BY DEF Blank
        <5>2. k \notin Subdirs(e2, b)
          BY <5>0, <5>1 DEF Subdirs
        <5>3. k \notin Subdirs(e, b)
          BY <4>1, <5>4 DEF Subdirs
        <5> QED
          BY <5>2, <5>3
      <4>2. CASE ~ (b = B /\ k = K)
        <5>1. e2[b][k] = e[b][k]
          BY <1>7, <3>1, <4>2 DEF Emptied
        <5> QED
          BY <5>1 DEF Subdirs
      <4> QED
        BY <4>1, <4>2
    <3> QED
      BY <3>2 DEF Subdirs, Bodies
  <2>2. House(e, t, 0, Root) /\ e2[Root][0] = e[Root][0]
    <3>1. House(e, t, 0, Root)
      BY DEF House
    <3>2. Root \notin S
      BY <3>1 DEF Spared
    <3> QED
      BY <1>7, <3>1, <3>2 DEF Emptied
  <2>3. Length(e2, Root, 0, e2[Root][0].len)
    BY <2>1, <2>2 DEF Lengths, Length
  <2>4. ASSUME NEW b \in Root..NB, NEW k \in Bodies, Branch(e2, t2, 0, b, k)
        PROVE  Length(e2, e2[b][k].first, 0, e2[b][k].len)
    <3>1. Branch(e, t, 0, b, k) /\ e2[b][k] = e[b][k] /\ House(e, t, 0, e[b][k].first)
      BY <1>3, <2>4 DEF House
    <3>2. Length(e, e[b][k].first, 0, e[b][k].len)
      BY <3>1 DEF Lengths
    <3> QED
      BY <2>1, <3>1, <3>2 DEF Length
  <2> QED
    BY <2>3, <2>4 DEF Lengths
<1> QED
  BY <1>4, <1>9, <1>10, <1>11, <1>12, <1>13, <1>14, <1>15 DEF Volumed

\* A careful rmfile() deletes the file it looked for, with its chain, and spares
\* the blocks of the directories.
LEMMA FileChain ==
  ASSUME NEW f \in Fats, NEW e, NEW t, NEW B, NEW K, Volumed(f, e, t, 0),
         Named(e, t, 0, B, K), e[B][K].attr = FILE, NEW S, S = Chain(f, e[B][K].first)
  PROVE  /\ e[B][K].first \in S /\ S \subseteq DataBlock
         /\ \A x \in S : ~ IsLink(f, x) => f[x] = END
         /\ Spared(e, t, S) /\ B \notin S
<1>1. Owned(f, e, t, 0) /\ B \in Root..NB /\ K \in Bodies /\ House(e, t, 0, B)
  BY DEF Volumed, Named, Housed
<1>2. /\ e[B][K].first \in S /\ S \subseteq DataBlock
      /\ \A x \in S : ~ IsLink(f, x) => f[x] = END
      /\ \A b \in Root..NB, k \in Bodies :
             Named(e, t, 0, b, k) /\ e[b][k].first \in S => b = B /\ k = K
  BY <1>1, EntryChain
<1>3. Spared(e, t, S)
  <2> SUFFICES ASSUME NEW b, House(e, t, 0, b) PROVE b \notin S
    BY DEF Spared
  <2>1. CASE b = Root
    BY <1>2, <2>1, Layout
  <2>2. CASE b # Root
    <3>1. PICK c \in Root..NB, l \in Bodies : Branch(e, t, 0, c, l) /\ e[c][l].first = b
      BY <2>2 DEF House
    <3>2. DIR # FILE
      BY DEF DIR, FILE
    <3> QED
      BY <1>2, <3>1, <3>2 DEF Branch
  <2> QED
    BY <2>1, <2>2
<1> QED
  BY <1>1, <1>2, <1>3 DEF Spared

LEMMA DeleteVolume ==
  ASSUME NEW f \in Fats, NEW e \in Ents, NEW t, NEW B, NEW K, NEW at,
         Volumed(f, e, t, 0), Lengths(e, t, 0, 0),
         Named(e, t, 0, B, K), e[B][K].attr = FILE, at = [blk |-> B, idx |-> K],
         NEW S, S = Chain(f, e[B][K].first), NEW f2, NEW e2, NEW t2, f2 = FreeCells(f, S),
         e2 = PutEntry(ClearBlocks(e, S), at, Blank), t2 = ClearText(t, S)
  PROVE  /\ Volumed(f2, e2, t2, 0) /\ Lengths(e2, t2, 0, 0)
         /\ Branches(e, t, 0, e2, t2, 0)
         /\ \A b \in Root..NB, k \in Bodies :
               Named(e, t, 0, b, k) /\ (b # B \/ k # K) =>
                   Named(e2, t2, 0, b, k) /\ e2[b][k] = e[b][k]
<1>1. B \in Root..NB /\ K \in Bodies /\ Owned(f, e, t, 0)
  BY DEF Named, Volumed
<1>2. at \in Pointers /\ at.blk = B /\ at.idx = K
  BY <1>1, Layout DEF Pointers
<1>3. S \subseteq DataBlock /\ Spared(e, t, S)
  BY FileChain
<1>4. Emptied(e, t, e2, t2, S, B, K)
  <2>1. Emptied(e, t, PutEntry(ClearBlocks(e, S), at, Blank), ClearText(t, S), S,
                at.blk, at.idx)
    BY <1>2, DeleteEmpties
  <2> QED
    BY <1>2, <2>1
<1>5. /\ \A b \in Root..NB, k \in Bodies :
               Named(e, t, 0, b, k) /\ ~ (b = B /\ k = K) =>
                   Named(e2, t2, 0, b, k) /\ e2[b][k] = e[b][k]
      /\ \A b \in Root..NB, k \in Bodies : Named(e2, t2, 0, b, k) =>
                   /\ Named(e, t, 0, b, k) /\ e2[b][k] = e[b][k] /\ ~ (b = B /\ k = K)
  BY <1>3, <1>4, EmptiedNamed
<1>6. Apart(f, e2, t2, 0, S)
  <2>1. /\ \A c \in Links(f) : f[c] \in S => c \in S
        /\ \A b \in Root..NB, k \in Bodies :
               Named(e, t, 0, b, k) /\ e[b][k].first \in S => b = B /\ k = K
    BY <1>1, EntryChain
  <2> QED
    BY <1>5, <2>1 DEF Apart
<1>7. Freed(f, f2, S)
  BY <1>3, FreeCellsFreed
<1> QED
  BY <1>1, <1>3, <1>4, <1>5, <1>6, <1>7, EmptiedVolume


LEMMA rmfileKeeps ==
  ASSUME TypeInv, CarefulInv, NEW n \in Names, MindTarget(n), rmfile(n)
  PROVE  CarefulInv'
<1>1. /\ mode = "shell" /\ Volumed(fat, ents, text, 0) /\ Lengths(ents, text, 0, 0)
      /\ fat \in Fats /\ ents \in Ents /\ slots \in Slots
      /\ Here(ents, text, 0, cur) /\ Walked(ents, text, 0, path, cur.first)
      /\ Held(ents, text, 0, slots) /\ House(ents, text, 0, cur.first) /\ DirLike(cur.first)
  BY ShellParts, CarefulTypes DEF rmfile, Typed
<1>2. PICK j \in Index : /\ StopsAt(DS, LAMBDA x : IsFileNamed(ents[cur.first][x], n), j)
                         /\ j < DS /\ ents[cur.first][j].first \notin OpenFirsts
  BY DEF MindTarget
<1>3. PICK k \in 0..DS :
        LET at == At(cur.first, k)
            first == EntryAt(ents, at).first
            chain == Chain(fat, first)
        IN  /\ StopsAt(DS, LAMBDA x : IsFileNamed(ents[cur.first][x], n), k)
            /\ IF \/ ~ DirLike(at.blk) \/ ~ (chain \subseteq Block)
                  \/ {0, NB} \subseteq chain \/ at.blk \in chain \ {first}
               THEN mode' = "wild" /\ UNCHANGED disk
               ELSE \E last \in chain :
                    LET ended == fat[last] = END
                        freed == IF ended THEN chain ELSE chain \ {last}
                        cleared == IF ended THEN chain ELSE chain \ {first}
                        e == IF NB \in freed
                             THEN [ents EXCEPT ![Root][0].name = ""] ELSE ents
                    IN  /\ ~ IsLink(fat, last)
                        /\ fat' = FreeCells(fat, freed)
                        /\ text' = ClearText(text, cleared)
                        /\ ents' = IF ended
                                   THEN PutEntry(ClearBlocks(e, cleared), at, Blank)
                                   ELSE ClearBlocks(e, cleared)
                        /\ mode' = "shell"
  BY DEF rmfile, DeleteFile
<1>4. k = j
  <2>1. /\ StopsAt(DS, LAMBDA x : IsFileNamed(ents[cur.first][x], n), k)
        /\ StopsAt(DS, LAMBDA x : IsFileNamed(ents[cur.first][x], n), j)
    BY <1>2, <1>3
  <2> QED
    BY <1>2, <2>1, Sizes DEF StopsAt, Index
<1>5. k \in Index /\ ents[cur.first][k].attr = FILE /\ ents[cur.first][k].first \notin OpenFirsts
  <2>1. IsFileNamed(ents[cur.first][j], n)
    BY <1>2 DEF StopsAt
  <2>2. ents[cur.first][j].attr = FILE
    BY <2>1 DEF IsFileNamed
  <2> QED
    BY <1>2, <1>4, <2>2
<1>6. Named(ents, text, 0, cur.first, k)
  BY <1>1, <1>5, FileFound
<1>7. PICK at, S : /\ at = [blk |-> cur.first, idx |-> k] /\ at = At(cur.first, k)
                   /\ S = Chain(fat, ents[cur.first][k].first)
                   /\ S = Chain(fat, EntryAt(ents, At(cur.first, k)).first)
  <2>1. At(cur.first, k) = [blk |-> cur.first, idx |-> k]
    BY <1>5, Sizes DEF At, Index
  <2>2. EntryAt(ents, At(cur.first, k)) = ents[cur.first][k]
    BY <2>1 DEF EntryAt
  <2> QED
    BY <2>1, <2>2
<1>8. /\ S \subseteq DataBlock /\ S \subseteq Block /\ 0 \notin S /\ NB \notin S
      /\ cur.first \notin S
      /\ \A x \in S : ~ IsLink(fat, x) => fat[x] = END
  <2>1. /\ S \subseteq DataBlock /\ cur.first \notin S
        /\ \A x \in S : ~ IsLink(fat, x) => fat[x] = END
    <3> SUFFICES ASSUME NEW B, B = cur.first
                 PROVE  /\ S \subseteq DataBlock /\ B \notin S
                        /\ \A x \in S : ~ IsLink(fat, x) => fat[x] = END
      OBVIOUS
    <3>1. /\ fat \in Fats /\ Volumed(fat, ents, text, 0) /\ Named(ents, text, 0, B, k)
          /\ ents[B][k].attr = FILE /\ S = Chain(fat, ents[B][k].first)
      BY <1>1, <1>5, <1>6, <1>7
    <3> QED
      BY <3>1, FileChain
  <2> QED
    BY <2>1, Layout
<1>9. at.blk = cur.first
  BY <1>7
<1>10. /\ fat' = FreeCells(fat, S) /\ text' = ClearText(text, S)
       /\ ents' = PutEntry(ClearBlocks(ents, S), at, Blank)
       /\ mode' = "shell"
  <2>1. ~ (\/ ~ DirLike(at.blk) \/ ~ (S \subseteq Block)
           \/ {0, NB} \subseteq S \/ at.blk \in S)
    BY <1>1, <1>8, <1>9
  <2>2. PICK last \in S :
          LET ended == fat[last] = END
              freed == IF ended THEN S ELSE S \ {last}
              cleared == IF ended THEN S ELSE S \ {EntryAt(ents, at).first}
              e == IF NB \in freed THEN [ents EXCEPT ![Root][0].name = ""] ELSE ents
          IN  /\ ~ IsLink(fat, last)
              /\ fat' = FreeCells(fat, freed)
              /\ text' = ClearText(text, cleared)
              /\ ents' = IF ended
                         THEN PutEntry(ClearBlocks(e, cleared), at, Blank)
                         ELSE ClearBlocks(e, cleared)
              /\ mode' = "shell"
    BY <1>3, <1>7, <2>1
  <2>3. fat[last] = END
    BY <1>8, <2>2
  <2> QED
    BY <1>8, <2>2, <2>3
<1>11. /\ Volumed(fat', ents', text', 0) /\ Lengths(ents', text', 0, 0)
       /\ Branches(ents, text, 0, ents', text', 0)
       /\ \A b \in Root..NB, l \in Bodies :
             Named(ents, text, 0, b, l) /\ (b # cur.first \/ l # k) =>
                 Named(ents', text', 0, b, l) /\ ents'[b][l] = ents[b][l]
  <2> SUFFICES ASSUME NEW B, B = cur.first
               PROVE  /\ Volumed(fat', ents', text', 0) /\ Lengths(ents', text', 0, 0)
                      /\ Branches(ents, text, 0, ents', text', 0)
                      /\ \A b \in Root..NB, l \in Bodies :
                            Named(ents, text, 0, b, l) /\ (b # B \/ l # k) =>
                                Named(ents', text', 0, b, l) /\ ents'[b][l] = ents[b][l]
    OBVIOUS
  <2>1. /\ fat \in Fats /\ ents \in Ents /\ Volumed(fat, ents, text, 0)
        /\ Lengths(ents, text, 0, 0) /\ Named(ents, text, 0, B, k)
        /\ ents[B][k].attr = FILE /\ at = [blk |-> B, idx |-> k]
        /\ S = Chain(fat, ents[B][k].first)
    BY <1>1, <1>5, <1>6, <1>7
  <2> QED
    BY <1>10, <2>1, DeleteVolume
<1>12. Here(ents', text', 0, cur) /\ Walked(ents', text', 0, path, cur.first)
  BY <1>1, <1>11, BranchesKeep
<1>13. Held(ents', text', 0, slots)
  <2> SUFFICES ASSUME NEW i \in 0..(MaxOpen - 1), slots[i].attr = FILE
               PROVE  Fits(ents', text', 0, slots[i])
    BY DEF Held, Fits
  <2> DEFINE b == slots[i].dirno
             l == slots[i].diroff
  <2>1. Fits(ents, text, 0, slots[i])
    BY <1>1 DEF Held
  <2>2. /\ Named(ents, text, 0, b, l) /\ b \in Root..NB /\ l \in Bodies
        /\ ents[b][l].first = slots[i].first
    BY <2>1 DEF Fits, Named
  <2>3. slots[i].first \in OpenFirsts
    BY DEF OpenFirsts
  <2>4. b # cur.first \/ l # k
    BY <1>5, <2>2, <2>3
  <2>5. Named(ents', text', 0, b, l) /\ ents'[b][l] = ents[b][l]
    BY <1>11, <2>2, <2>4
  <2> QED
    BY <2>1, <2>5 DEF Fits
<1>14. UNCHANGED <<slots, fp, cur, path, edit, stack, scan, host>>
  BY DEF rmfile
<1>15. Settled(0, 0)'
  BY <1>11, <1>12, <1>13, <1>14 DEF Settled
<1> QED
  BY <1>1, <1>10, <1>14, <1>15, ShellStep

-----------------------------------------------------------------------------
(***************************************************************************)
(* rmdir: the directory's length, then its entry.                          *)
(***************************************************************************)
\* Stores that leave names, attributes and first blocks alone.
Alike(e, e2) == \A b \in Block, k \in Index : AsBefore(e2[b][k], e[b][k])

LEMMA AlikeVolume ==
  ASSUME NEW f, NEW e, NEW t, NEW D, NEW e2, Alike(e, e2), Volumed(f, e, t, D),
         Detached(e, t, D)
  PROVE  /\ Volumed(f, e2, t, D) /\ More(e, t, D, e2, t, D)
         /\ Same(e, t, e2, t, D)
<1>1. \A b \in Block, k \in Index : /\ e2[b][k].name = e[b][k].name
                                    /\ e2[b][k].attr = e[b][k].attr
                                    /\ e2[b][k].first = e[b][k].first
  BY DEF Alike, AsBefore
<1>2. /\ \A b \in Root..NB : b \in Block
      /\ \A k \in Bodies : k \in Index
      /\ \A b \in DataBlock : b \in Block
      /\ 0 \in Index /\ 1 \in Index
  BY Layout, Sizes
<1>3. Same(e, t, e2, t, D)
  <2>1. \A b \in Root..NB, k \in Bodies : e2[b][k].name = e[b][k].name
    BY <1>1, <1>2
  <2>2. \A b \in Root..NB, k \in Bodies :
           /\ Named(e2, t, D, b, k) => Named(e, t, D, b, k)
           /\ Named(e, t, D, b, k) => Named(e2, t, D, b, k)
    BY ONLY <2>1 DEF Named
  <2> QED
    BY <1>1, <1>2, <2>2 DEF Same, Fewer
<1>4. More(e, t, D, e2, t, D)
  BY <1>3 DEF Same, Fewer, More, AsBefore
<1>5. Owned(f, e, t, D) /\ Dots(f, e, t, D) /\ Housed(e, t, D)
  BY DEF Volumed
<1>6. SameDots(e, t, e2, t, D)
  <2> SUFFICES ASSUME NEW b, House(e2, t, D, b), NEW k \in {0, 1}
               PROVE  /\ e2[b][k].name = e[b][k].name
                      /\ e2[b][k].attr = e[b][k].attr
                      /\ e2[b][k].first = e[b][k].first
    BY DEF SameDots
  <2>1. House(e, t, D, b)
    BY <1>3, SameBranch
  <2>2. b \in Root..NB
    BY <1>5, <2>1, HouseFacts
  <2> QED
    BY <1>1, <1>2, <2>2
<1>12. Fewer(e, t, D, e2, t, D)
  BY <1>3 DEF Same
<1>7. Owned(f, e2, t, D)
  BY ONLY <1>5, <1>12, FewerOwned
<1>8. Dots(f, e2, t, D)
  BY ONLY <1>5, <1>6, <1>12, FewerDots
<1>9. Housed(e2, t, D)
  BY <1>3, <1>5, SameHoused
<1>10. FreeIsBlank(f, e2, t)
  <2>1. FreeIsBlank(f, e, t)
    BY DEF Volumed
  <2> QED
    BY ONLY <1>1, <1>2, <2>1 DEF FreeIsBlank, Bodies
<1>11. Unnamed(e2)
  <2>1. Unnamed(e)
    BY DEF Volumed
  <2> SUFFICES ASSUME NEW b \in Block, NEW k \in Bodies, e2[b][k].name = ""
               PROVE  e2[b][k].attr = 0
    BY Zenon DEF Unnamed
  <2>2. e2[b][k].name = e[b][k].name /\ e2[b][k].attr = e[b][k].attr
    BY ONLY <1>1, <1>2
  <2>3. e[b][k].name = "" => e[b][k].attr = 0
    BY ONLY <2>1, Zenon DEF Unnamed
  <2> QED
    BY <2>2, <2>3, Zenon
<1> QED
  BY <1>3, <1>4, <1>7, <1>8, <1>9, <1>10, <1>11 DEF Volumed

LEMMA AlikeSubdirs ==
  ASSUME NEW e, NEW e2, Alike(e, e2), NEW b \in Block PROVE Subdirs(e2, b) = Subdirs(e, b)
<1>1. \A k \in Bodies : /\ e2[b][k].name = e[b][k].name
                        /\ e2[b][k].attr = e[b][k].attr
  BY Layout DEF Alike, AsBefore
<1> QED
  BY <1>1 DEF Subdirs, Bodies

\* A new length l of the directory with block B, whose count is off by one from then on.
LEMMA OwnLengths ==
  ASSUME NEW f, NEW e, NEW t, NEW e2, NEW B, NEW up, Alike(e, e2),
         Volumed(f, e, t, 0), Lengths(e, t, 0, 0), OwnEntry(e, t, 0, B, up),
         \A b \in Block, k \in Index : b # up.blk \/ k # up.idx => e2[b][k] = e[b][k],
         Length(e, B, 0, e[up.blk][up.idx].len) => Length(e, B, B, e2[up.blk][up.idx].len)
  PROVE  Lengths(e2, t, 0, B)
<1>1. /\ Volumed(f, e2, t, 0) /\ More(e, t, 0, e2, t, 0) /\ Same(e, t, e2, t, 0)
      /\ \A b \in Block : Subdirs(e2, b) = Subdirs(e, b)
  <2>1. Detached(e, t, 0)
    BY NoneDetached DEF Volumed
  <2>2. More(e, t, 0, e2, t, 0)
    BY <2>1, AlikeVolume
  <2>3. Volumed(f, e2, t, 0)
    BY <2>1, AlikeVolume
  <2>4. Same(e, t, e2, t, 0)
    BY <2>1, AlikeVolume
  <2>5. \A b \in Block : Subdirs(e2, b) = Subdirs(e, b)
    BY AlikeSubdirs
  <2> QED
    BY <2>2, <2>3, <2>4, <2>5
<1>2. /\ \A b \in Root..NB : b \in Block
      /\ \A k \in Bodies : k \in Index /\ k # 0
      /\ \A b \in DataBlock : b \in Block /\ b # Root
      /\ 0 \in Index /\ Root \in Block /\ Root # 0 /\ 0 \notin DataBlock
  BY Layout, Sizes
<1>3. ASSUME NEW b \in Block, NEW l, b # B, b # 0, Length(e, b, 0, l)
      PROVE  Length(e2, b, B, l)
  BY <1>1, <1>3 DEF Length
<1>4. ASSUME NEW b \in Block, NEW l, Length(e, b, B, l) PROVE Length(e2, b, B, l)
  BY <1>1, <1>4 DEF Length
<1>5. Length(e2, Root, B, e2[Root][0].len)
  <2>1. Length(e, Root, 0, e[Root][0].len)
    BY DEF Lengths
  <2>2. CASE B = Root
    <3>1. up.blk = Root /\ up.idx = 0
      BY <1>2, <2>2 DEF OwnEntry, Volumed, Owned, Branch, Named
    <3> QED
      BY <1>2, <1>4, <2>1, <2>2, <3>1
  <2>3. CASE B # Root
    <3>1. up.blk # Root \/ up.idx # 0
      BY <1>2, <2>3 DEF OwnEntry, Branch, Named
    <3> QED
      BY <1>2, <1>3, <2>1, <2>3, <3>1
  <2> QED
    BY <2>2, <2>3
<1>6. ASSUME NEW b \in Root..NB, NEW k \in Bodies, Branch(e2, t, 0, b, k)
      PROVE  Length(e2, e2[b][k].first, B, e2[b][k].len)
  <2>1. Branch(e, t, 0, b, k) /\ e2[b][k].first = e[b][k].first
    BY <1>1, <1>6, SameBranch DEF Branch
  <2>2. Length(e, e[b][k].first, 0, e[b][k].len)
    BY <2>1 DEF Lengths
  <2>3. e[b][k].first \in DataBlock
    BY <2>1 DEF Volumed, Owned, Branch
  <2>4. CASE e[b][k].first = B
    <3>1. up.blk = b /\ up.idx = k
      <4>1. Named(e, t, 0, up.blk, up.idx) /\ e[up.blk][up.idx].first = B
        BY <1>2, <2>3, <2>4 DEF OwnEntry, Branch
      <4>2. up.blk \in Root..NB /\ up.idx \in Bodies
        BY <4>1 DEF Named
      <4> QED
        BY <2>1, <2>4, <4>1, <4>2 DEF Volumed, Owned, Branch
    <3> QED
      BY <1>2, <1>4, <2>1, <2>2, <2>3, <2>4, <3>1
  <2>5. CASE e[b][k].first # B
    <3>1. up.blk # b \/ up.idx # k
      BY <1>2, <2>5 DEF OwnEntry
    <3>2. e2[b][k] = e[b][k]
      BY <1>2, <3>1
    <3> QED
      BY <1>2, <1>3, <2>2, <2>3, <2>5, <3>2
  <2> QED
    BY <2>4, <2>5
<1> QED
  BY <1>5, <1>6 DEF Lengths

\* rmdir() takes one off a length that counts the directory it removes.
LEMMA DecCounts ==
  ASSUME NEW e, NEW B, B # 0, NEW l \in 0..(LengthMod - 1), Length(e, B, 0, l),
         NEW K, K \in Subdirs(e, B)
  PROVE  Length(e, B, B, Dec(l))
<1>1. Cardinality(Subdirs(e, B)) \in Nat
  BY SubdirsFinite
<1>2. l = 2 + Cardinality(Subdirs(e, B))
  BY <1>1 DEF Length
<1>3. Dec(l) = l - 1
  BY <1>1, <1>2 DEF Dec
<1> QED
  BY <1>1, <1>2, <1>3 DEF Length

LEMMA rmdirKeeps ==
  ASSUME TypeInv, CarefulInv, NEW n \in Names, MindContents(n), rmdir(n)
  PROVE  CarefulInv'
<1>1. /\ mode = "shell" /\ Volumed(fat, ents, text, 0) /\ Lengths(ents, text, 0, 0)
      /\ fat \in Fats /\ ents \in Ents
      /\ Here(ents, text, 0, cur) /\ Walked(ents, text, 0, path, cur.first)
      /\ Held(ents, text, 0, slots) /\ House(ents, text, 0, cur.first) /\ DirLike(cur.first)
      /\ DirLike(cur.dirno) /\ cur.first \in Root..NB
      /\ OwnEntry(ents, text, 0, cur.first, [blk |-> cur.dirno, idx |-> cur.diroff])
      /\ At(cur.dirno, cur.diroff) = [blk |-> cur.dirno, idx |-> cur.diroff]
  BY ShellParts DEF rmdir, Typed
<1>2. PICK k \in Index :
        LET up == At(cur.dirno, cur.diroff)
        IN  /\ StopsAt(DS, LAMBDA j : ents[cur.first][j].name = n, k)
            /\ IF DirLike(up.blk)
               THEN /\ ents' = DecLen(ents, up)
                    /\ stack' = <<At(cur.first, k)>>
                    /\ mode' = "rmdir"
                    /\ UNCHANGED <<fat, text, slots, fp, cur, path, edit, scan, host>>
               ELSE Wild
  BY DEF rmdir
<1>3. PICK B, up : B = cur.first /\ up = [blk |-> cur.dirno, idx |-> cur.diroff]
  OBVIOUS
<1>4. /\ up \in Pointers /\ B \in Root..NB /\ B \in Block /\ B # 0
      /\ OwnEntry(ents, text, 0, B, up) /\ House(ents, text, 0, B)
      /\ Here(ents, text, 0, cur) /\ At(cur.dirno, cur.diroff) = up
  BY <1>1, <1>3, Layout DEF OwnEntry
<1>5. ents[B][k].name = n
  <2>1. k < DS
    BY Sizes DEF Index
  <2> QED
    BY <1>2, <1>3, <2>1 DEF StopsAt
<1>6. k \in Bodies
  <2>1. Dot(ents[B][0], ".", B) /\ IsUp(ents[B][1])
    BY <1>1, <1>4, HouseShape
  <2>2. ents[B][0].name = "." /\ ents[B][1].name = ".."
    BY <2>1 DEF Dot, IsUp
  <2>3. n # "." /\ n # ".."
    BY NamesAssumption
  <2>4. k # 0 /\ k # 1
    BY <1>5, <2>2, <2>3
  <2> QED
    BY <2>4, Layout
<1>7. ents[B][k].attr = DIR /\ Emptiable(ents, ents[B][k].first)
  <2>1. LET b == ents[B][k].first
        IN  /\ ents[B][k].attr = DIR /\ EmptyBut(b, {DIR})
            /\ \A j \in 2..(DS - 1) :
                  ents[b][j].name # "" => EmptyBut(ents[b][j].first, {})
    BY <1>3, <1>5 DEF MindContents
  <2> QED
    BY <2>1 DEF EmptyBut, Emptiable, Hollow, Vacant, Bodies
<1>8. Named(ents, text, 0, B, k)
  <2>1. n # ""
    BY NamesAssumption
  <2>2. ents[B][k].name # ""
    BY <1>5, <2>1
  <2> QED
    BY <1>1, <1>4, <1>6, <2>2, HouseNamed
<1>9. /\ ents' = PutLen(ents, up, Dec(ents[up.blk][up.idx].len))
      /\ stack' = <<[blk |-> B, idx |-> k]>> /\ mode' = "rmdir"
      /\ UNCHANGED <<fat, text, slots, fp, cur, path, edit, scan, host>>
  <2>1. DirLike(up.blk)
    BY <1>1, <1>3
  <2>2. At(B, k) = [blk |-> B, idx |-> k]
    BY <1>6, Sizes DEF At, Bodies
  <2> QED
    BY <1>2, <1>3, <1>4, <2>1, <2>2 DEF DecLen, EntryAt
<1>10. /\ ents'[up.blk][up.idx].len = Dec(ents[up.blk][up.idx].len)
       /\ Alike(ents, ents')
       /\ \A b \in Block, j \in Index : b # up.blk \/ j # up.idx => ents'[b][j] = ents[b][j]
  <2> DEFINE l == Dec(ents[up.blk][up.idx].len)
  <2>1. /\ PutLen(ents, up, l)[up.blk][up.idx].len = l
        /\ \A b \in Block, j \in Index :
               /\ AsBefore(PutLen(ents, up, l)[b][j], ents[b][j])
               /\ b # up.blk \/ j # up.idx => PutLen(ents, up, l)[b][j] = ents[b][j]
    BY <1>1, <1>4, PutLenAt
  <2> HIDE DEF l
  <2> QED
    BY <1>9, <2>1 DEF Alike, l
<1>11. Detached(ents, text, 0)
  BY <1>1, NoneDetached DEF Volumed
<1>12. Volumed(fat, ents', text, 0) /\ More(ents, text, 0, ents', text, 0)
  BY <1>1, <1>10, <1>11, AlikeVolume
<1>13. Lengths(ents', text, 0, B)
  <2>1. ents[up.blk][up.idx].len \in 0..(LengthMod - 1)
    <3>1. ents[up.blk][up.idx] \in Entry
      BY <1>1, <1>4 DEF Ents, Pointers
    <3> QED
      BY <3>1 DEF Entry
  <2>2. k \in Subdirs(ents, B)
    BY <1>6, <1>7, <1>8 DEF Subdirs, Bodies, Named
  <2>3. Length(ents, B, 0, ents[up.blk][up.idx].len) =>
            Length(ents, B, B, ents'[up.blk][up.idx].len)
    BY <1>4, <1>10, <2>1, <2>2, DecCounts
  <2> QED
    BY <1>1, <1>4, <1>10, <2>3, OwnLengths
<1>14. /\ Here(ents', text, 0, cur) /\ Walked(ents', text, 0, path, cur.first)
       /\ Held(ents', text, 0, slots)
  BY <1>1, <1>12, MoreKeeps
<1>15. Settled(0, cur.first)'
  BY <1>3, <1>9, <1>12, <1>13, <1>14 DEF Settled
<1>16. Branch(ents', text, 0, B, k) /\ ents'[B][k].first = ents[B][k].first
  BY <1>4, <1>6, <1>7, <1>8, <1>12 DEF More, Branch, AsBefore
<1>17. Emptiable(ents', ents'[B][k].first)
  <2>1. ents[B][k].first \in Block
    BY <1>1, <1>4, <1>6, <1>8, Layout DEF Volumed, Owned
  <2>2. ASSUME NEW b \in Block, NEW l \in Bodies
        PROVE  /\ Vacant(ents, b, l) => Vacant(ents', b, l)
               /\ Vacant(ents', b, l) => Vacant(ents, b, l)
               /\ ents'[b][l].attr = ents[b][l].attr
               /\ ents'[b][l].first = ents[b][l].first
    BY <1>10, Layout DEF Alike, AsBefore, Vacant
  <2> SUFFICES ASSUME NEW b, b = ents[B][k].first, NEW l \in Bodies, ~ Vacant(ents', b, l)
               PROVE  ents'[b][l].attr = DIR /\ Hollow(ents', ents'[b][l].first)
    BY <1>16 DEF Emptiable
  <2>3. b \in Block /\ ents[b][l].attr = DIR /\ Hollow(ents, ents[b][l].first)
    BY <1>7, <2>1, <2>2 DEF Emptiable
  <2>4. ents[b][l].first \in Block
    <3>1. House(ents, text, 0, b)
      BY <1>4, <1>6, <1>7, <1>8 DEF House, Branch
    <3>2. Named(ents, text, 0, b, l) /\ b \in Root..NB
      <4>1. b \in Root..NB /\ text[b] = NoText
        BY <1>1, <3>1, HouseShape
      <4> QED
        BY <2>2, <2>3, <4>1, Layout DEF Named, Vacant
    <3> QED
      BY <1>1, <3>2, Layout DEF Volumed, Owned
  <2> QED
    BY <2>2, <2>3, <2>4 DEF Hollow
<1>18. scan.idx = DS
  BY <1>1 DEF CarefulInv
<1>19. Unlinking'
  BY <1>3, <1>6, <1>9, <1>15, <1>16, <1>17, <1>18 DEF Unlinking
<1> QED
  BY <1>9, <1>19 DEF CarefulInv

-----------------------------------------------------------------------------
(***************************************************************************)
(* rmdir: the entry (B, K) of a directory with block D is taken off, and   *)
(* the entries in D are set aside.                                         *)
(***************************************************************************)
\* The path to a directory's parent does not pass through the directory.
LEMMA PathAvoids ==
  ASSUME NEW f, NEW e, NEW t, NEW q, NEW B, NEW K, NEW D, Volumed(f, e, t, 0),
         Walked(e, t, 0, q, B), Len(q) \in Nat, Branch(e, t, 0, B, K), e[B][K].first = D
  PROVE  \E w \in [1..Len(q) -> Root..NB] :
            /\ Passes(e, t, 0, q, w) /\ w[Len(q)] = B
            /\ \A i \in 1..Len(q) : w[i] # D
<1>1. PICK w \in [1..Len(q) -> Root..NB] : Passes(e, t, 0, q, w) /\ w[Len(q)] = B
  BY DEF Walked
<1>2. /\ Len(q) >= 1 /\ w[1] = Root /\ \A i, j \in 1..Len(q) : w[i] = w[j] => i = j
  BY <1>1 DEF Walked, Passes
<1>3. D \in DataBlock /\ B \in Root..NB /\ K \in Bodies /\ Named(e, t, 0, B, K)
  BY DEF Volumed, Owned, Branch, Named
<1>4. ASSUME NEW i \in 1..Len(q), w[i] = D PROVE FALSE
  <2>1. i # 1
    BY <1>2, <1>3, <1>4, Layout
  <2>2. i \in 2..Len(q) /\ i - 1 \in 1..Len(q) /\ Len(q) \in 1..Len(q) /\ i - 1 # Len(q)
    BY <2>1
  <2>3. PICK k \in Bodies : Branch(e, t, 0, w[i - 1], k) /\ e[w[i - 1]][k].first = w[i]
    BY <1>1, <2>2 DEF Passes
  <2>4. w[i - 1] \in Root..NB /\ Named(e, t, 0, w[i - 1], k)
    BY <2>3 DEF Branch, Named
  <2>5. w[i - 1] = B
    BY <1>3, <1>4, <2>3, <2>4 DEF Volumed, Owned
  <2> QED
    BY <1>1, <1>2, <2>2, <2>5
<1> QED
  BY <1>1, <1>4

Unlinked(e, t, e2, B, K, D) ==
    /\ Branch(e, t, 0, B, K) /\ e[B][K].first = D /\ Emptiable(e, D)
    /\ e2[B][K] = Blank
    /\ \A b \in Block, k \in Index : b # B \/ k # K => e2[b][k] = e[b][k]

LEMMA UnlinkedFacts ==
  ASSUME NEW f, NEW e, NEW t, NEW e2, NEW B, NEW K, NEW D, Volumed(f, e, t, 0),
         Unlinked(e, t, e2, B, K, D)
  PROVE  /\ D \in DataBlock /\ B \in Root..NB /\ K \in Bodies /\ Named(e, t, 0, B, K)
         /\ t[D] = NoText /\ f[D] = END
         /\ \A b \in Root..NB, k \in Bodies : Named(e, t, 0, b, k) /\ e[b][k].first = D =>
               b = B /\ k = K
         /\ \A b \in Root..NB, k \in Bodies :
               Named(e, t, 0, b, k) /\ b # D /\ (b # B \/ k # K) =>
                   Named(e2, t, D, b, k) /\ e2[b][k] = e[b][k]
         /\ \A b \in Root..NB, k \in Bodies : Named(e2, t, D, b, k) =>
               /\ Named(e, t, 0, b, k) /\ e2[b][k] = e[b][k]
               /\ b # D /\ (b # B \/ k # K)
<1>1. Named(e, t, 0, B, K) /\ B \in Root..NB /\ K \in Bodies /\ e[B][K].first = D
  BY DEF Unlinked, Branch, Named
<1>2. D \in DataBlock /\ t[D] = NoText /\ f[D] = END
  BY <1>1 DEF Volumed, Owned, Dots, Unlinked
<1>3. \A b \in Root..NB, k \in Bodies : Named(e, t, 0, b, k) /\ e[b][k].first = D =>
               b = B /\ k = K
  BY <1>1 DEF Volumed, Owned
<1>4. \A b \in Root..NB, k \in Bodies : b \in Block /\ k \in Index /\ b # 0
  BY Layout
<1>5. Blank.name = ""
  BY DEF Blank
<1>6. \A b \in Root..NB, k \in Bodies : b # B \/ k # K => e2[b][k] = e[b][k]
  BY <1>4 DEF Unlinked
<1>7. \A b \in Root..NB, k \in Bodies :
               Named(e, t, 0, b, k) /\ b # D /\ (b # B \/ k # K) =>
                   Named(e2, t, D, b, k) /\ e2[b][k] = e[b][k]
  BY <1>6 DEF Named
<1>8. ASSUME NEW b \in Root..NB, NEW k \in Bodies, Named(e2, t, D, b, k)
      PROVE  /\ Named(e, t, 0, b, k) /\ e2[b][k] = e[b][k]
             /\ b # D /\ (b # B \/ k # K)
  <2>1. b # B \/ k # K
    <3> SUFFICES ASSUME b = B, k = K PROVE FALSE
      OBVIOUS
    <3>1. e2[b][k] = Blank
      BY DEF Unlinked
    <3> QED
      BY <1>5, <1>8, <3>1 DEF Named
  <2>2. e2[b][k] = e[b][k]
    BY <1>6, <2>1
  <2> QED
    BY <1>4, <1>8, <2>1, <2>2 DEF Named
<1> QED
  BY <1>1, <1>2, <1>3, <1>7, <1>8

LEMMA UnlinkedVolume ==
  ASSUME NEW f, NEW e, NEW t, NEW e2, NEW B, NEW K, NEW D, Volumed(f, e, t, 0),
         Unlinked(e, t, e2, B, K, D), D # B
  PROVE  /\ Volumed(f, e2, t, D) /\ Alone(f, e2, t, D)
<1>1. /\ D \in DataBlock /\ B \in Root..NB /\ K \in Bodies /\ Named(e, t, 0, B, K)
      /\ t[D] = NoText /\ f[D] = END
      /\ \A b \in Root..NB, k \in Bodies : Named(e, t, 0, b, k) /\ e[b][k].first = D =>
            b = B /\ k = K
      /\ \A b \in Root..NB, k \in Bodies :
            Named(e, t, 0, b, k) /\ b # D /\ (b # B \/ k # K) =>
                Named(e2, t, D, b, k) /\ e2[b][k] = e[b][k]
      /\ \A b \in Root..NB, k \in Bodies : Named(e2, t, D, b, k) =>
            /\ Named(e, t, 0, b, k) /\ e2[b][k] = e[b][k]
            /\ b # D /\ (b # B \/ k # K)
  BY UnlinkedFacts
<1>2. Owned(f, e, t, 0) /\ Dots(f, e, t, 0) /\ Housed(e, t, 0)
  BY DEF Volumed
<1>3. Fewer(e, t, 0, e2, t, D)
  BY <1>1 DEF Fewer
<1>4. Owned(f, e2, t, D)
  BY <1>2, <1>3, FewerOwned
<1>5. /\ \A b \in Root..NB : b \in Block
      /\ \A b \in DataBlock : b \in Block
      /\ \A k \in Bodies : k \in Index /\ k # 0 /\ k # 1
      /\ 0 \in Index /\ 1 \in Index
  BY Layout, Sizes
<1>6. \A b : House(e2, t, D, b) => House(e, t, 0, b)
  BY <1>1 DEF House, Branch
<1>7. Dots(f, e2, t, D)
  <2>1. SameDots(e, t, e2, t, D)
    <3> SUFFICES ASSUME NEW b, House(e2, t, D, b), NEW k \in {0, 1}
                 PROVE  e2[b][k] = e[b][k]
      BY DEF SameDots
    <3>1. b \in Root..NB
      BY <1>6, HouseShape
    <3> QED
      BY <1>1, <1>5, <3>1 DEF Unlinked
  <2> QED
    BY <1>2, <1>3, <2>1, FewerDots
<1>8. ASSUME NEW b \in Root..NB, NEW k \in Bodies, Named(e2, t, D, b, k)
      PROVE  House(e2, t, D, b)
  <2>1. House(e, t, 0, b) /\ Named(e, t, 0, b, k) /\ b # D
    BY <1>1, <1>2, <1>8 DEF Housed
  <2>2. CASE b = Root
    BY <2>2 DEF House
  <2>3. CASE b # Root
    <3>1. PICK c \in Root..NB, l \in Bodies : Branch(e, t, 0, c, l) /\ e[c][l].first = b
      BY <2>1, <2>3 DEF House
    <3>2. c # D
      <4> SUFFICES ASSUME c = D PROVE FALSE
        OBVIOUS
      <4>1. Hollow(e, b)
        <5>1. ~ Vacant(e, D, l) /\ Emptiable(e, D)
          BY <3>1 DEF Branch, Named, Vacant, Unlinked
        <5> QED
          BY <3>1, <5>1 DEF Emptiable
      <4> QED
        BY <2>1, <4>1 DEF Hollow, Vacant, Named
    <3>3. c # B \/ l # K
      BY <2>1, <3>1 DEF Unlinked
    <3>4. Branch(e2, t, D, c, l) /\ e2[c][l].first = b
      BY <1>1, <3>1, <3>2, <3>3 DEF Branch
    <3> QED
      BY <3>4 DEF House
  <2> QED
    BY <2>2, <2>3
<1>9. Housed(e2, t, D)
  BY <1>1, <1>2, <1>8 DEF Housed
<1>10. FreeIsBlank(f, e2, t)
  <2> SUFFICES ASSUME NEW b \in DataBlock, f[b] = FREE
               PROVE  t[b] = NoText /\ \A k \in Bodies : Vacant(e2, b, k)
    BY DEF FreeIsBlank, Bodies, Vacant
  <2>1. t[b] = NoText /\ \A k \in Bodies : Vacant(e, b, k)
    BY DEF Volumed, FreeIsBlank, Bodies, Vacant
  <2>2. ASSUME NEW k \in Bodies PROVE Vacant(e2, b, k)
    <3>1. e2[b][k] = Blank \/ e2[b][k] = e[b][k]
      BY <1>5 DEF Unlinked
    <3>2. Blank.name = ""
      BY DEF Blank
    <3> QED
      BY <2>1, <3>1, <3>2 DEF Vacant
  <2> QED
    BY <2>1, <2>2
<1>11. Unnamed(e2)
  <2> SUFFICES ASSUME NEW b \in Block, NEW k \in Bodies, Vacant(e2, b, k)
               PROVE  e2[b][k].attr = 0
    BY DEF Unnamed, Vacant
  <2>1. Blank.attr = 0
    BY DEF Blank
  <2>2. CASE e2[b][k] = Blank
    BY <2>1, <2>2
  <2>3. CASE e2[b][k] = e[b][k]
    BY <2>3 DEF Volumed, Unnamed, Vacant
  <2> QED
    BY <1>5, <2>2, <2>3 DEF Unlinked
<1>12. Alone(f, e2, t, D)
  <2>1. D # Root
    BY <1>1, Layout
  <2>2. Detached(e2, t, D)
    BY <1>1, <2>1 DEF Detached
  <2>3. \A c \in Links(f) : f[c] # D
    BY <1>1, <1>2 DEF Owned, Unlinked
  <2> QED
    BY <1>1, <2>2, <2>3 DEF Alone
<1> QED
  BY <1>4, <1>7, <1>9, <1>10, <1>11, <1>12 DEF Volumed

LEMMA UnlinkedRemaining ==
  ASSUME NEW f, NEW e, NEW t, NEW e2, NEW B, NEW K, NEW D, Volumed(f, e, t, 0),
         Unlinked(e, t, e2, B, K, D), D # B
  PROVE  Remaining(f, e2, t, D)
<1>1. /\ D \in DataBlock /\ B \in Root..NB /\ K \in Bodies /\ Named(e, t, 0, B, K)
      /\ t[D] = NoText
      /\ \A b \in Root..NB, k \in Bodies : Named(e, t, 0, b, k) /\ e[b][k].first = D =>
            b = B /\ k = K
      /\ \A b \in Root..NB, k \in Bodies : Named(e2, t, D, b, k) =>
            /\ Named(e, t, 0, b, k) /\ e2[b][k] = e[b][k] /\ b # D
  BY UnlinkedFacts
<1>2. /\ \A k \in Bodies : k \in Index
      /\ \A b \in DataBlock : b \in Block /\ b \in Root..NB /\ b # 0
  BY Layout
<1> SUFFICES ASSUME NEW k \in Bodies, ~ Vacant(e2, D, k) PROVE Doomed(f, e2, t, D, k)
  BY DEF Remaining
<1>3. \A l \in Bodies : e2[D][l] = e[D][l]
  BY <1>1, <1>2 DEF Unlinked
<1>4. \A l \in Bodies : ~ Vacant(e2, D, l) => Named(e, t, 0, D, l) /\ ~ Vacant(e, D, l)
  BY <1>1, <1>2, <1>3 DEF Named, Vacant
<1>5. e[D][k].attr = DIR /\ Hollow(e, e[D][k].first)
  BY <1>4 DEF Unlinked, Emptiable
<1>6. /\ Named(e, t, 0, D, k) /\ Branch(e, t, 0, D, k)
      /\ e[D][k].first \in DataBlock /\ t[e[D][k].first] = NoText
  BY <1>1, <1>2, <1>4, <1>5 DEF Branch, Volumed, Owned, Dots
<1> DEFINE E == e[D][k].first
<1>7. E # D
  BY <1>1, <1>2, <1>6
<1>8. Hollow(e2, E)
  <2>1. ASSUME NEW l \in Bodies PROVE Vacant(e2, E, l)
    <3>1. e2[E][l] = Blank \/ e2[E][l] = e[E][l]
      BY <1>2, <1>6 DEF Unlinked
    <3>2. Blank.name = ""
      BY DEF Blank
    <3> QED
      BY <1>5, <3>1, <3>2 DEF Vacant, Hollow
  <2> QED
    BY <2>1 DEF Hollow
<1>9. \A l \in Bodies : ~ Vacant(e2, D, l) /\ e2[D][l].first = E => l = k
  BY <1>1, <1>2, <1>3, <1>4, <1>6 DEF Volumed, Owned
<1>10. \A b \in Root..NB, l \in Bodies : Named(e2, t, D, b, l) => e2[b][l].first # E
  BY <1>1, <1>2, <1>6 DEF Volumed, Owned
<1>11. \A c \in Links(f) : f[c] # E
  BY <1>1, <1>2, <1>6 DEF Volumed, Owned
<1> QED
  BY <1>3, <1>5, <1>6, <1>7, <1>8, <1>9, <1>10, <1>11 DEF Doomed

LEMMA UnlinkedLengths ==
  ASSUME NEW f, NEW e \in Ents, NEW t, NEW e2, NEW B, NEW K, NEW D, Volumed(f, e, t, 0),
         Unlinked(e, t, e2, B, K, D), D # B, Lengths(e, t, 0, B)
  PROVE  Lengths(e2, t, D, 0)
<1>1. /\ D \in DataBlock /\ B \in Root..NB /\ K \in Bodies /\ Named(e, t, 0, B, K)
      /\ \A b \in Root..NB, k \in Bodies : Named(e2, t, D, b, k) =>
            /\ Named(e, t, 0, b, k) /\ e2[b][k] = e[b][k]
  BY UnlinkedFacts
<1>2. /\ \A k \in Bodies : k \in Index /\ k # 0
      /\ \A b \in DataBlock : b \in Block /\ b # 0
      /\ Root \in Block /\ Root # 0 /\ 0 \in Index /\ B \in Block /\ B # 0
  BY <1>1, Layout, Sizes
<1>3. ASSUME NEW b \in Block, b # B PROVE Subdirs(e2, b) = Subdirs(e, b)
  <2>1. \A k \in Bodies : e2[b][k] = e[b][k]
    BY <1>2, <1>3 DEF Unlinked
  <2> QED
    BY <2>1 DEF Subdirs, Bodies
<1>4. Subdirs(e2, B) = Subdirs(e, B) \ {K} /\ K \in Subdirs(e, B)
  <2>1. \A k \in Bodies : k # K => e2[B][k] = e[B][k]
    BY <1>2 DEF Unlinked
  <2>2. Blank.name = "" /\ e2[B][K] = Blank
    BY DEF Blank, Unlinked
  <2>3. K \notin Subdirs(e2, B)
    BY <2>2 DEF Subdirs
  <2>4. K \in Subdirs(e, B)
    BY <1>1 DEF Unlinked, Branch, Named, Subdirs, Bodies
  <2>5. \A k \in Bodies : k # K => (k \in Subdirs(e2, B) <=> k \in Subdirs(e, B))
    BY <2>1 DEF Subdirs
  <2>6. Subdirs(e2, B) \subseteq Bodies /\ Subdirs(e, B) \subseteq Bodies
    BY DEF Subdirs, Bodies
  <2> QED
    BY <2>3, <2>4, <2>5, <2>6
<1>5. Cardinality(Subdirs(e2, B)) = Cardinality(Subdirs(e, B)) - 1
  BY <1>4, SubdirsFinite, FS_RemoveElement
<1>6. ASSUME NEW b \in Block, b # 0, NEW l \in Nat, Length(e, b, B, l) PROVE Length(e2, b, 0, l)
  <2>1. CASE b = B
    <3>1. l + 1 = 2 + Cardinality(Subdirs(e, B))
      BY <1>6, <2>1 DEF Length
    <3>2. Cardinality(Subdirs(e, B)) \in Nat
      BY SubdirsFinite
    <3>3. l + 0 = 2 + Cardinality(Subdirs(e2, B))
      BY <1>5, <3>1, <3>2
    <3> QED
      BY <1>6, <2>1, <3>3 DEF Length
  <2>2. CASE b # B
    BY <1>3, <1>6, <2>2 DEF Length
  <2> QED
    BY <2>1, <2>2
<1>0. \A b \in Block, k \in Index : e[b][k].len \in Nat
  BY LengthModPositive DEF Ents, Entry
<1>7. Length(e2, Root, 0, e2[Root][0].len)
  <2>1. e2[Root][0] = e[Root][0]
    BY <1>1, <1>2 DEF Unlinked
  <2> QED
    BY <1>0, <1>2, <1>6, <2>1 DEF Lengths
<1>8. ASSUME NEW b \in Root..NB, NEW k \in Bodies, Branch(e2, t, D, b, k)
      PROVE  Length(e2, e2[b][k].first, 0, e2[b][k].len)
  <2>1. Branch(e, t, 0, b, k) /\ e2[b][k] = e[b][k]
    BY <1>1, <1>8 DEF Branch
  <2>2. e[b][k].first \in DataBlock
    BY <2>1 DEF Volumed, Owned, Branch
  <2>3. e[b][k].len \in Nat /\ Length(e, e[b][k].first, B, e[b][k].len)
    BY <1>0, <1>2, <2>1, Layout DEF Lengths
  <2> QED
    BY <1>2, <1>6, <2>1, <2>2, <2>3
<1> QED
  BY <1>7, <1>8 DEF Lengths

LEMMA ParentApart ==
  ASSUME NEW f, NEW e, NEW t, NEW q, NEW B, NEW K, Volumed(f, e, t, 0),
         Walked(e, t, 0, q, B), Len(q) \in Nat, Branch(e, t, 0, B, K)
  PROVE  e[B][K].first # B
<1>1. PICK w \in [1..Len(q) -> Root..NB] :
            /\ w[Len(q)] = B
            /\ \A i \in 1..Len(q) : w[i] # e[B][K].first
  BY PathAvoids
<1>2. Len(q) >= 1
  BY DEF Walked
<1> QED
  BY <1>1, <1>2

LEMMA UnlinkedWalk ==
  ASSUME NEW f, NEW e, NEW t, NEW e2, NEW q, NEW B, NEW K, NEW D, Volumed(f, e, t, 0),
         Unlinked(e, t, e2, B, K, D), Walked(e, t, 0, q, B), Len(q) \in Nat
  PROVE  Walked(e2, t, D, q, B)
<1>1. PICK w \in [1..Len(q) -> Root..NB] :
            /\ Passes(e, t, 0, q, w) /\ w[Len(q)] = B
            /\ \A i \in 1..Len(q) : w[i] # D
  BY PathAvoids DEF Unlinked
<1>2. \A b \in Root..NB, k \in Bodies :
            Named(e, t, 0, b, k) /\ b # D /\ (b # B \/ k # K) =>
                Named(e2, t, D, b, k) /\ e2[b][k] = e[b][k]
  BY UnlinkedFacts
<1>3. ASSUME NEW i \in 2..Len(q)
      PROVE  \E k \in Bodies :
                /\ Branch(e2, t, D, w[i - 1], k)
                /\ e2[w[i - 1]][k].name = q[i] /\ e2[w[i - 1]][k].first = w[i]
  <2>1. PICK k \in Bodies : /\ Branch(e, t, 0, w[i - 1], k)
                            /\ e[w[i - 1]][k].name = q[i] /\ e[w[i - 1]][k].first = w[i]
    BY <1>1 DEF Passes
  <2>2. i - 1 \in 1..Len(q) /\ i \in 1..Len(q)
    OBVIOUS
  <2>3. w[i - 1] \in Root..NB /\ w[i - 1] # D /\ w[i] # D
    BY <1>1, <2>2
  <2>4. w[i - 1] # B \/ k # K
    BY <2>1, <2>3 DEF Unlinked
  <2>5. Named(e2, t, D, w[i - 1], k) /\ e2[w[i - 1]][k] = e[w[i - 1]][k]
    BY <1>2, <2>1, <2>3, <2>4 DEF Branch
  <2> QED
    BY <2>1, <2>5 DEF Branch
<1>4. Passes(e2, t, D, q, w)
  BY <1>1, <1>3 DEF Passes
<1> QED
  BY <1>1, <1>4 DEF Walked

LEMMA UnlinkedHere ==
  ASSUME NEW f, NEW e, NEW t, NEW e2, NEW c, NEW K, NEW D, NEW s, Volumed(f, e, t, 0),
         Unlinked(e, t, e2, c.first, K, D), D # c.first, Here(e, t, 0, c), Held(e, t, 0, s)
  PROVE  Here(e2, t, D, c) /\ Held(e2, t, D, s)
<1>1. \A b \in Root..NB, k \in Bodies :
            Named(e, t, 0, b, k) /\ b # D /\ (b # c.first \/ k # K) =>
                Named(e2, t, D, b, k) /\ e2[b][k] = e[b][k]
  <2> SUFFICES ASSUME NEW B, B = c.first
               PROVE  \A b \in Root..NB, k \in Bodies :
                        Named(e, t, 0, b, k) /\ b # D /\ (b # B \/ k # K) =>
                            Named(e2, t, D, b, k) /\ e2[b][k] = e[b][k]
    OBVIOUS
  <2>1. Unlinked(e, t, e2, B, K, D)
    OBVIOUS
  <2> QED
    BY <2>1, UnlinkedFacts
<1>2. /\ Branch(e, t, 0, c.first, K) /\ e[c.first][K].first = D
      /\ \A l \in Bodies : ~ Vacant(e, D, l) =>
            e[D][l].attr = DIR /\ Hollow(e, e[D][l].first)
  BY DEF Unlinked, Emptiable
<1>3. Here(e2, t, D, c)
  <2>1. CASE c = [first |-> Root, dirno |-> Root, diroff |-> 0]
    BY <2>1 DEF Here
  <2>2. CASE Branch(e, t, 0, c.dirno, c.diroff) /\ e[c.dirno][c.diroff].first = c.first
    <3>1. c.dirno \in Root..NB /\ c.diroff \in Bodies
      BY <2>2 DEF Branch, Named
    <3>2. c.dirno # c.first \/ c.diroff # K
      BY <1>2, <2>2
    <3>3. c.dirno # D
      <4> SUFFICES ASSUME c.dirno = D PROVE FALSE
        OBVIOUS
      <4>1. ~ Vacant(e, D, c.diroff)
        BY <2>2 DEF Branch, Named, Vacant
      <4>2. Hollow(e, c.first)
        BY <1>2, <2>2, <3>1, <4>1
      <4> QED
        BY <1>2, <4>2 DEF Hollow, Vacant, Branch, Named
    <3>4. Named(e2, t, D, c.dirno, c.diroff) /\ e2[c.dirno][c.diroff] = e[c.dirno][c.diroff]
      BY <1>1, <2>2, <3>1, <3>2, <3>3 DEF Branch
    <3> QED
      BY <2>2, <3>4 DEF Here, Branch
  <2> QED
    BY <2>1, <2>2 DEF Here
<1>4. Held(e2, t, D, s)
  <2> SUFFICES ASSUME NEW j \in 0..(MaxOpen - 1), s[j].attr = FILE
               PROVE  Fits(e2, t, D, s[j])
    BY DEF Held, Fits
  <2>0. FILE # DIR
    BY DEF FILE, DIR
  <2>1. Fits(e, t, 0, s[j])
    BY DEF Held
  <2>2. PICK b, k : b = s[j].dirno /\ k = s[j].diroff
    OBVIOUS
  <2>3. Named(e, t, 0, b, k) /\ e[b][k].attr = FILE /\ b \in Root..NB /\ k \in Bodies
    BY <2>1, <2>2 DEF Fits, Named
  <2>4. b # c.first \/ k # K
    BY <1>2, <2>0, <2>3 DEF Branch
  <2>5. b # D
    <3>1. ~ Vacant(e, b, k)
      BY <2>3 DEF Named, Vacant
    <3> QED
      BY <1>2, <2>0, <2>3, <3>1
  <2>6. Named(e2, t, D, b, k) /\ e2[b][k] = e[b][k]
    BY <1>1, <2>3, <2>4, <2>5
  <2> QED
    BY <2>1, <2>2, <2>6 DEF Fits
<1> QED
  BY <1>3, <1>4

-----------------------------------------------------------------------------
(***************************************************************************)
(* rmdir: the entry K of the unlinked D is taken off.                      *)
(***************************************************************************)
Cleared(e, e2, D, K) ==
    /\ K \in Bodies /\ e2[D][K] = Blank
    /\ \A b \in Block, k \in Index : b # D \/ k # K => e2[b][k] = e[b][k]

LEMMA ClearedElse ==
  ASSUME NEW e, NEW e2, NEW D, NEW K, Cleared(e, e2, D, K)
  PROVE  /\ \A b \in Root..NB, k \in Bodies : b # D => e2[b][k] = e[b][k]
         /\ \A b \in Block, k \in {0, 1} : e2[b][k] = e[b][k]
<1>1. /\ \A b \in Root..NB, k \in Bodies : b \in Block /\ k \in Index
      /\ 0 \in Index /\ 1 \in Index /\ K # 0 /\ K # 1
  BY Layout, Sizes DEF Cleared
<1> QED
  BY <1>1 DEF Cleared

LEMMA ClearedSame ==
  ASSUME NEW e, NEW t, NEW e2, NEW D, NEW K, Cleared(e, e2, D, K)
  PROVE  Same(e, t, e2, t, D) /\ More(e, t, D, e2, t, D)
<1>2. \A b \in Root..NB, k \in Bodies : b # D => e2[b][k] = e[b][k]
  BY ClearedElse
<1>3. \A b \in Root..NB, k \in Bodies :
          /\ Named(e, t, D, b, k) => Named(e2, t, D, b, k)
          /\ Named(e2, t, D, b, k) => Named(e, t, D, b, k)
          /\ Named(e, t, D, b, k) => e2[b][k] = e[b][k]
  <2> SUFFICES ASSUME NEW b \in Root..NB, NEW k \in Bodies
               PROVE  /\ Named(e, t, D, b, k) => Named(e2, t, D, b, k)
                      /\ Named(e2, t, D, b, k) => Named(e, t, D, b, k)
                      /\ Named(e, t, D, b, k) => e2[b][k] = e[b][k]
    OBVIOUS
  <2>1. b # D => e2[b][k] = e[b][k]
    BY <1>2
  <2> QED
    BY ONLY <2>1 DEF Named
<1>4. Same(e, t, e2, t, D)
  BY <1>3 DEF Same, Fewer
<1>5. More(e, t, D, e2, t, D)
  BY <1>3 DEF More, AsBefore
<1> QED
  BY <1>4, <1>5

LEMMA ClearedVolume ==
  ASSUME NEW f, NEW e, NEW t, NEW e2, NEW D, NEW K, Cleared(e, e2, D, K),
         Volumed(f, e, t, D), Detached(e, t, D)
  PROVE  Volumed(f, e2, t, D)
<1>1. /\ Same(e, t, e2, t, D)
      /\ \A b \in Block, k \in {0, 1} : e2[b][k] = e[b][k]
  <2>1. Same(e, t, e2, t, D)
    BY ClearedSame
  <2>2. \A b \in Block, k \in {0, 1} : e2[b][k] = e[b][k]
    BY ClearedElse
  <2> QED
    BY <2>1, <2>2
<1>2. Owned(f, e, t, D) /\ Dots(f, e, t, D) /\ Housed(e, t, D)
  BY DEF Volumed
<1>3. Fewer(e, t, D, e2, t, D)
  BY <1>1 DEF Same
<1>4. SameDots(e, t, e2, t, D)
  <2> SUFFICES ASSUME NEW b, House(e2, t, D, b), NEW k \in {0, 1}
               PROVE  e2[b][k] = e[b][k]
    BY DEF SameDots
  <2>1. House(e, t, D, b)
    BY <1>1, SameBranch
  <2>2. b \in Root..NB
    BY <1>2, <2>1, HouseFacts
  <2> QED
    BY <1>1, <2>2, Layout
<1>5. Owned(f, e2, t, D)
  BY <1>2, <1>3, FewerOwned
<1>6. Dots(f, e2, t, D)
  BY <1>2, <1>3, <1>4, FewerDots
<1>7. Housed(e2, t, D)
  BY <1>1, <1>2, SameHoused
<1>8. \A b \in Block, k \in Bodies : e2[b][k] = Blank \/ e2[b][k] = e[b][k]
  BY Layout DEF Cleared
<1>9. Blank.name = ""
  BY DEF Blank
<1>10. FreeIsBlank(f, e2, t)
  <2> SUFFICES ASSUME NEW b \in DataBlock, f[b] = FREE
               PROVE  t[b] = NoText /\ \A k \in Bodies : Vacant(e2, b, k)
    BY DEF FreeIsBlank, Bodies, Vacant
  <2>1. t[b] = NoText /\ \A k \in Bodies : Vacant(e, b, k)
    BY DEF Volumed, FreeIsBlank, Bodies, Vacant
  <2>2. ASSUME NEW k \in Bodies PROVE Vacant(e2, b, k)
    BY <1>8, <1>9, <2>1, Layout DEF Vacant
  <2> QED
    BY <2>1, <2>2
<1>11. Unnamed(e2)
  <2> SUFFICES ASSUME NEW b \in Block, NEW k \in Bodies, Vacant(e2, b, k)
               PROVE  e2[b][k].attr = 0
    BY DEF Unnamed, Vacant
  <2>1. Blank.attr = 0
    BY DEF Blank
  <2>2. CASE e2[b][k] = Blank
    BY <2>1, <2>2
  <2>3. CASE e2[b][k] = e[b][k]
    BY <2>3 DEF Volumed, Unnamed, Vacant
  <2> QED
    BY <1>8, <2>2, <2>3
<1> QED
  BY <1>5, <1>6, <1>7, <1>10, <1>11 DEF Volumed

LEMMA ClearedLengths ==
  ASSUME NEW f, NEW e, NEW t, NEW e2, NEW D, NEW K, Cleared(e, e2, D, K),
         Volumed(f, e, t, D), Detached(e, t, D), Lengths(e, t, D, 0)
  PROVE  Lengths(e2, t, D, 0)
<1>1. /\ Same(e, t, e2, t, D)
      /\ \A b \in Root..NB, k \in Bodies : b # D => e2[b][k] = e[b][k]
      /\ \A b \in Block, k \in {0, 1} : e2[b][k] = e[b][k]
  <2>1. Same(e, t, e2, t, D)
    BY ClearedSame
  <2>2. /\ \A b \in Root..NB, k \in Bodies : b # D => e2[b][k] = e[b][k]
        /\ \A b \in Block, k \in {0, 1} : e2[b][k] = e[b][k]
    BY ClearedElse
  <2> QED
    BY <2>1, <2>2
<1>2. Owned(f, e, t, D) /\ Dots(f, e, t, D) /\ Volumed(f, e2, t, D)
  BY ClearedVolume DEF Volumed
<1>3. Dots(f, e2, t, D)
  BY <1>2 DEF Volumed
<1>4. e2[Root][0].len = e[Root][0].len
  BY <1>1, Sizes
<1>5. \A b \in Root..NB, k \in Bodies : Branch(e, t, D, b, k) => e2[b][k].len = e[b][k].len
  BY <1>1 DEF Branch, Named
<1> QED
  BY <1>1, <1>2, <1>3, <1>4, <1>5, SameLengths

LEMMA ClearedRemaining ==
  ASSUME NEW f, NEW e, NEW t, NEW e2, NEW D, NEW K, Cleared(e, e2, D, K),
         Alone(f, e, t, D), Remaining(f, e, t, D)
  PROVE  Alone(f, e2, t, D) /\ Remaining(f, e2, t, D)
<1>1. /\ Same(e, t, e2, t, D)
      /\ \A b \in Root..NB, k \in Bodies : b # D => e2[b][k] = e[b][k]
  <2>1. Same(e, t, e2, t, D)
    BY ClearedSame
  <2>2. \A b \in Root..NB, k \in Bodies : b # D => e2[b][k] = e[b][k]
    BY ClearedElse
  <2> QED
    BY <2>1, <2>2
<1>2. /\ \A b \in Root..NB, k \in Bodies : Named(e2, t, D, b, k) =>
            Named(e, t, D, b, k) /\ e2[b][k] = e[b][k]
  BY <1>1 DEF Same, Fewer, Named
<1>3. Alone(f, e2, t, D)
  BY <1>2 DEF Alone, Detached
<1>4. ASSUME NEW k \in Bodies, ~ Vacant(e2, D, k)
      PROVE  e2[D][k] = e[D][k] /\ ~ Vacant(e, D, k)
  <2>1. Blank.name = ""
    BY DEF Blank
  <2>2. D \in Block /\ k \in Index
    BY Layout DEF Alone
  <2>3. k # K
    BY <1>4, <2>1 DEF Cleared, Vacant
  <2>4. e2[D][k] = e[D][k]
    BY <2>2, <2>3 DEF Cleared
  <2> QED
    BY <1>4, <2>4 DEF Vacant
<1>5. ASSUME NEW k \in Bodies, ~ Vacant(e2, D, k) PROVE Doomed(f, e2, t, D, k)
  <2>1. e2[D][k] = e[D][k] /\ Doomed(f, e, t, D, k)
    BY <1>4, <1>5 DEF Remaining
  <2>2. PICK E : E = e[D][k].first
    OBVIOUS
  <2>3. E \in DataBlock /\ E # D /\ Hollow(e, E) /\ e[D][k].attr = DIR /\ t[E] = NoText
    BY <2>1, <2>2 DEF Doomed
  <2>4. Hollow(e2, E)
    <3>1. \A l \in Bodies : e2[E][l] = e[E][l]
      BY <1>1, <2>3, Layout
    <3> QED
      BY <2>3, <3>1 DEF Hollow, Vacant
  <2>5. \A l \in Bodies : ~ Vacant(e2, D, l) /\ e2[D][l].first = E => l = k
    BY <1>4, <2>1, <2>2 DEF Doomed
  <2>6. /\ \A b \in Root..NB, l \in Bodies : Named(e2, t, D, b, l) => e2[b][l].first # E
        /\ \A c \in Links(f) : f[c] # E
    BY <1>2, <2>1, <2>2 DEF Doomed
  <2> QED
    BY <2>1, <2>2, <2>3, <2>4, <2>5, <2>6 DEF Doomed
<1> QED
  BY <1>3, <1>5 DEF Remaining

LEMMA RmdirStay ==
  ASSUME CarefulInv, host' = host, mode' = "rmdir", NEW D \in DataBlock, Emptying(D)'
  PROVE  CarefulInv'
  BY DEF CarefulInv

LEMMA PutBlank ==
  ASSUME NEW e \in Ents, NEW D \in Block, NEW K \in Bodies
  PROVE  /\ PutEntry(e, [blk |-> D, idx |-> K], Blank)[D][K] = Blank
         /\ \A b \in Block, k \in Index : b # D \/ k # K =>
               PutEntry(e, [blk |-> D, idx |-> K], Blank)[b][k] = e[b][k]
<1>1. PICK at : at = [blk |-> D, idx |-> K]
  OBVIOUS
<1>2. at \in Pointers /\ at.blk = D /\ at.idx = K
  BY <1>1, Layout DEF Pointers
<1>3. /\ PutEntry(e, at, Blank)[at.blk][at.idx] = Blank
      /\ \A b \in Block, k \in Index :
            b # at.blk \/ k # at.idx => PutEntry(e, at, Blank)[b][k] = e[b][k]
  BY <1>2, BlankType, PutEntryAt
<1> QED
  BY <1>1, <1>2, <1>3

\* The first pop: the directory's own entry.
LEMMA UnlinkKeeps ==
  ASSUME TypeInv, CarefulInv, Unlinking, rmdirPop PROVE CarefulInv'
<1>1. /\ fat \in Fats /\ ents \in Ents /\ Len(path) \in Nat
  <2>1. path \in Paths
    BY TypeParts DEF TypeInv, RestTyped
  <2>2. Len(path) \in Nat
    BY <2>1, LenType DEF Paths
  <2> QED
    BY <2>2, CarefulTypes
<1>2. /\ Volumed(fat, ents, text, 0) /\ Lengths(ents, text, 0, cur.first)
      /\ Here(ents, text, 0, cur) /\ Walked(ents, text, 0, path, cur.first)
      /\ Held(ents, text, 0, slots)
  BY DEF Unlinking, Settled
<1>3. PICK K \in Bodies : /\ stack = <<[blk |-> cur.first, idx |-> K]>>
                          /\ Branch(ents, text, 0, cur.first, K)
                          /\ Emptiable(ents, ents[cur.first][K].first)
  BY DEF Unlinking
<1>4. PICK B, D : B = cur.first /\ D = ents[B][K].first
  OBVIOUS
<1>5. /\ Named(ents, text, 0, B, K) /\ B \in Root..NB /\ B \in Block /\ D \in DataBlock
      /\ text[D] = NoText /\ D \in Block
  <2>1. Named(ents, text, 0, B, K) /\ B \in Root..NB
    BY <1>3, <1>4 DEF Branch, Named
  <2>2. D \in DataBlock /\ text[D] = NoText
    BY <1>2, <1>3, <1>4, <2>1 DEF Volumed, Owned, Dots
  <2> QED
    BY <2>1, <2>2, Layout
<1>6. /\ scan' = [blk |-> D, idx |-> 2] /\ stack' = <<>>
      /\ ents' = PutEntry(ents, [blk |-> B, idx |-> K], Blank)
      /\ UNCHANGED <<fat, text, slots, fp, cur, path, edit, host, mode>>
      /\ mode' = "rmdir"
  <2>1. Head(stack) = [blk |-> B, idx |-> K] /\ Tail(stack) = <<>>
    BY <1>3, <1>4
  <2>2. EntryAt(ents, Head(stack)).first = D
    BY <1>4, <2>1 DEF EntryAt
  <2>3. DirLike(D)
    BY <1>5 DEF DirLike
  <2> QED
    BY <2>1, <2>2, <2>3 DEF rmdirPop
<1>7. Unlinked(ents, text, ents', B, K, D)
  <2>1. /\ ents'[B][K] = Blank
        /\ \A b \in Block, k \in Index : b # B \/ k # K => ents'[b][k] = ents[b][k]
    BY <1>1, <1>5, <1>6, PutBlank
  <2> QED
    BY <1>3, <1>4, <2>1 DEF Unlinked
<1>8. D # B
  <2>1. Walked(ents, text, 0, path, B) /\ Branch(ents, text, 0, B, K)
    BY <1>2, <1>3, <1>4
  <2> QED
    BY <1>1, <1>2, <1>4, <2>1, ParentApart
<1>9. Volumed(fat, ents', text, D) /\ Alone(fat, ents', text, D)
  BY <1>2, <1>7, <1>8, UnlinkedVolume
<1>10. Remaining(fat, ents', text, D)
  BY <1>2, <1>7, <1>8, UnlinkedRemaining
<1>11. Lengths(ents', text, D, 0)
  <2>1. Lengths(ents, text, 0, B)
    BY <1>2, <1>4
  <2> QED
    BY <1>1, <1>2, <1>7, <1>8, <2>1, UnlinkedLengths
<1>12. Walked(ents', text, D, path, cur.first)
  <2>1. Walked(ents, text, 0, path, B)
    BY <1>2, <1>4
  <2>2. Walked(ents', text, D, path, B)
    BY <1>1, <1>2, <1>7, <2>1, UnlinkedWalk
  <2> QED
    BY <1>4, <2>2
<1>13. Here(ents', text, D, cur) /\ Held(ents', text, D, slots)
  <2>1. Unlinked(ents, text, ents', cur.first, K, D) /\ D # cur.first
    BY <1>4, <1>7, <1>8
  <2> QED
    BY <1>2, <2>1, UnlinkedHere
<1>14. Pending(ents', <<>>, [blk |-> D, idx |-> 2], D)
  BY Sizes DEF Pending, Bodies
<1>15. Emptying(D)'
  BY <1>6, <1>9, <1>10, <1>11, <1>12, <1>13, <1>14 DEF Emptying, Settled
<1> QED
  BY <1>5, <1>6, <1>15, RmdirStay

\* The other pops: a directory in it.
LEMMA PopPending ==
  ASSUME NEW e, NEW e2, NEW D, NEW K, Cleared(e, e2, D, K), D \in DataBlock,
         NEW st \in Stacks, st # <<>>, st[1] = [blk |-> D, idx |-> K],
         NEW sc, sc.idx = DS, Pending(e, st, sc, D), NEW E, E # D, Hollow(e2, E)
  PROVE  Pending(e2, Tail(st), [blk |-> E, idx |-> 2], D)
<1> DEFINE ts == Tail(st)
<1>1. /\ Len(st) \in Nat /\ Len(st) >= 1 /\ Len(ts) = Len(st) - 1
      /\ \A i \in 1..Len(ts) : ts[i] = st[i + 1] /\ i + 1 \in 1..Len(st) /\ i + 1 # 1
  BY DEF Stacks
<1> HIDE DEF ts
<1>2. /\ \A k \in Bodies : ~ Vacant(e, D, k) => OnStack(st, D, k)
      /\ \A i \in 1..Len(st) :
            st[i].blk = D /\ st[i].idx \in Bodies /\ ~ Vacant(e, D, st[i].idx)
      /\ \A i, j \in 1..Len(st) : st[i].idx = st[j].idx => i = j
  BY Sizes DEF Pending, Bodies
<1>3. /\ \A k \in Bodies : ~ Vacant(e2, D, k) => k # K /\ ~ Vacant(e, D, k)
      /\ \A k \in Bodies : k # K /\ ~ Vacant(e, D, k) => ~ Vacant(e2, D, k)
  <2>1. Blank.name = ""
    BY DEF Blank
  <2>2. D \in Block
    BY Layout
  <2>3. Vacant(e2, D, K)
    BY <2>1 DEF Cleared, Vacant
  <2>4. \A k \in Bodies : k # K => e2[D][k] = e[D][k]
    BY <2>2, Layout DEF Cleared
  <2> QED
    BY <2>3, <2>4 DEF Vacant
<1>4. ASSUME NEW k \in Bodies, ~ Vacant(e2, D, k) PROVE OnStack(ts, D, k)
  <2>1. PICK i \in 1..Len(st) : st[i] = [blk |-> D, idx |-> k]
    BY <1>2, <1>3, <1>4 DEF OnStack
  <2>2. k # K
    BY <1>3, <1>4
  <2>3. i # 1
    BY <2>1, <2>2
  <2>4. i - 1 \in 1..Len(ts) /\ ts[i - 1] = st[i]
    BY <1>1, <2>3
  <2> QED
    BY <2>1, <2>4 DEF OnStack
<1>5. ASSUME NEW i \in 1..Len(ts)
      PROVE  ts[i].blk = D /\ ts[i].idx \in Bodies /\ ~ Vacant(e2, D, ts[i].idx)
  <2>1. ts[i] = st[i + 1] /\ i + 1 \in 1..Len(st) /\ i + 1 # 1 /\ 1 \in 1..Len(st)
    BY <1>1
  <2>2. st[i + 1].idx # st[1].idx
    BY <1>2, <2>1
  <2> QED
    BY <1>2, <1>3, <2>1, <2>2
<1>6. ASSUME NEW i \in 1..Len(ts), NEW j \in 1..Len(ts), ts[i].idx = ts[j].idx PROVE i = j
  <2>1. /\ ts[i] = st[i + 1] /\ i + 1 \in 1..Len(st)
        /\ ts[j] = st[j + 1] /\ j + 1 \in 1..Len(st)
    BY <1>1
  <2>2. i + 1 = j + 1
    BY <1>2, <1>6, <2>1
  <2> QED
    BY <2>2
<1>7. Pending(e2, ts, [blk |-> E, idx |-> 2], D)
  BY <1>4, <1>5, <1>6 DEF Pending
<1> QED
  BY <1>7 DEF ts

LEMMA PopKeeps ==
  ASSUME TypeInv, CarefulInv, \E D \in DataBlock : Emptying(D), rmdirPop
  PROVE  CarefulInv'
<1>0. PICK D \in DataBlock : Emptying(D)
  OBVIOUS
<1>1. /\ fat \in Fats /\ ents \in Ents /\ stack \in Stacks /\ stack # <<>> /\ scan.idx = DS
      /\ mode = "rmdir"
  BY CarefulTypes DEF rmdirPop
<1>2. /\ Volumed(fat, ents, text, D) /\ Lengths(ents, text, D, 0)
      /\ Here(ents, text, D, cur) /\ Walked(ents, text, D, path, cur.first)
      /\ Held(ents, text, D, slots) /\ Alone(fat, ents, text, D)
      /\ Remaining(fat, ents, text, D) /\ Pending(ents, stack, scan, D)
      /\ Detached(ents, text, D)
  BY <1>0 DEF Emptying, Settled, Alone
<1>3. PICK K : K = stack[1].idx
  OBVIOUS
<1>4. K \in Bodies /\ stack[1] = [blk |-> D, idx |-> K] /\ ~ Vacant(ents, D, K)
  <2>1. 1 \in 1..Len(stack) /\ stack[1] \in Pointers
    BY <1>1 DEF Stacks
  <2>2. stack[1].blk = D /\ K \in Bodies /\ ~ Vacant(ents, D, K)
    BY <1>2, <1>3, <2>1 DEF Pending
  <2> QED
    BY <1>3, <2>1, <2>2 DEF Pointers
<1>5. PICK E : E = ents[D][K].first
  OBVIOUS
<1>6. E \in DataBlock /\ E # D /\ text[E] = NoText /\ Hollow(ents, E) /\ D \in Block
  BY <1>2, <1>4, <1>5, Layout DEF Remaining, Doomed
<1>7. /\ scan' = [blk |-> E, idx |-> 2] /\ stack' = Tail(stack)
      /\ ents' = PutEntry(ents, [blk |-> D, idx |-> K], Blank)
      /\ UNCHANGED <<fat, text, slots, fp, cur, path, edit, host, mode>>
      /\ mode' = "rmdir"
  <2>1. Head(stack) = [blk |-> D, idx |-> K]
    BY <1>1, <1>4 DEF Stacks
  <2>2. EntryAt(ents, Head(stack)).first = E
    BY <1>5, <2>1 DEF EntryAt
  <2>3. DirLike(E)
    BY <1>6, Layout DEF DirLike
  <2> QED
    BY <1>1, <2>1, <2>2, <2>3 DEF rmdirPop
<1>8. Cleared(ents, ents', D, K)
  <2>1. /\ ents'[D][K] = Blank
        /\ \A b \in Block, k \in Index : b # D \/ k # K => ents'[b][k] = ents[b][k]
    BY <1>1, <1>4, <1>6, <1>7, PutBlank
  <2> QED
    BY <1>4, <2>1 DEF Cleared
<1>9. Volumed(fat, ents', text, D)
  BY <1>2, <1>8, ClearedVolume
<1>10. Lengths(ents', text, D, 0)
  BY <1>2, <1>8, ClearedLengths
<1>11. Alone(fat, ents', text, D) /\ Remaining(fat, ents', text, D)
  BY <1>2, <1>8, ClearedRemaining
<1>12. /\ Here(ents', text, D, cur) /\ Walked(ents', text, D, path, cur.first)
       /\ Held(ents', text, D, slots)
  <2>1. More(ents, text, D, ents', text, D)
    BY <1>8, ClearedSame
  <2> QED
    BY <1>2, <2>1, MoreKeeps
<1>13. Hollow(ents', E)
  <2>1. \A l \in Bodies : ents'[E][l] = ents[E][l]
    BY <1>6, <1>8, ClearedElse, Layout
  <2> QED
    BY <1>6, <2>1 DEF Hollow, Vacant
<1>14. Pending(ents', stack', scan', D)
  <2>1. Pending(ents', Tail(stack), [blk |-> E, idx |-> 2], D)
    BY <1>1, <1>2, <1>4, <1>6, <1>8, <1>13, PopPending
  <2> QED
    BY <1>7, <2>1
<1>15. Emptying(D)'
  BY <1>7, <1>9, <1>10, <1>11, <1>12, <1>14 DEF Emptying, Settled
<1> QED
  BY <1>7, <1>15, RmdirStay

LEMMA rmdirPopStep ==
  ASSUME TypeInv, CarefulInv, rmdirPop PROVE CarefulInv'
<1>1. ASSUME Unlinking PROVE CarefulInv'
  BY <1>1, UnlinkKeeps
<1>2. ASSUME \E D \in DataBlock : Emptying(D) PROVE CarefulInv'
  BY <1>2, PopKeeps
<1>3. Unlinking \/ \E D \in DataBlock : Emptying(D)
  BY DEF CarefulInv, rmdirPop
<1> QED
  BY <1>1, <1>2, <1>3


-----------------------------------------------------------------------------
(***************************************************************************)
(* rmdir: the inner loop passes an entry, or frees a directory's block and *)
(* puts its entry on the stack.                                            *)
(***************************************************************************)
LEMMA ScanOn ==
  ASSUME NEW e, NEW st \in Stacks, NEW D, NEW sc, sc.idx \in Bodies, Pending(e, st, sc, D),
         sc.blk = D => Vacant(e, D, sc.idx)
  PROVE  Pending(e, st, [blk |-> sc.blk, idx |-> sc.idx + 1], D)
<1> DEFINE sd == [blk |-> sc.blk, idx |-> sc.idx + 1]
<1>1. sd.blk = sc.blk /\ sd.idx = sc.idx + 1 /\ sc.idx \in Int /\ sc.idx >= 2
  BY Sizes DEF Bodies
<1> HIDE DEF sd
<1>2. Len(st) \in Nat
  BY LenType DEF Stacks
<1>3. ASSUME NEW k \in Bodies, ~ Vacant(e, D, k)
      PROVE  OnStack(st, D, k) \/ (sd.blk = D /\ k >= sd.idx)
  <2>1. OnStack(st, D, k) \/ (sc.blk = D /\ k >= sc.idx)
    BY <1>3 DEF Pending
  <2>2. sc.blk = D => k # sc.idx
    BY <1>3
  <2>3. k \in Int
    BY Sizes DEF Bodies
  <2> QED
    BY <1>1, <2>1, <2>2, <2>3
<1>4. ASSUME NEW i \in 1..Len(st)
      PROVE  /\ st[i].blk = D /\ st[i].idx \in Bodies /\ ~ Vacant(e, D, st[i].idx)
             /\ sd.blk = D => st[i].idx < sd.idx
  <2>1. /\ st[i].blk = D /\ st[i].idx \in Bodies /\ ~ Vacant(e, D, st[i].idx)
        /\ sc.blk = D => st[i].idx < sc.idx
    BY DEF Pending
  <2>2. st[i].idx \in Int
    BY <2>1, Sizes DEF Bodies
  <2> QED
    BY <1>1, <2>1, <2>2
<1>5. \A i, j \in 1..Len(st) : st[i].idx = st[j].idx => i = j
  BY DEF Pending
<1>6. /\ sd.idx >= 2
      /\ sd.blk = D => Len(st) <= sd.idx - 2
      /\ sd.blk # D => Hollow(e, sd.blk)
  BY <1>1, <1>2 DEF Pending
<1>7. Pending(e, st, sd, D)
  BY <1>3, <1>4, <1>5, <1>6 DEF Pending
<1> QED
  BY <1>7 DEF sd

LEMMA ScanPush ==
  ASSUME NEW e, NEW st \in Stacks, NEW D, NEW K \in Bodies, ~ Vacant(e, D, K),
         Pending(e, st, [blk |-> D, idx |-> K], D)
  PROVE  Pending(e, <<[blk |-> D, idx |-> K]>> \o st, [blk |-> D, idx |-> K + 1], D)
<1> DEFINE x == [blk |-> D, idx |-> K]
           s2 == <<x>> \o st
<1>0. K \in Int /\ K >= 2 /\ x.blk = D /\ x.idx = K
  BY Sizes DEF Bodies
<1> HIDE DEF x
<1>1. /\ Len(st) \in Nat /\ Len(s2) = Len(st) + 1 /\ s2[1] = x
      /\ \A i \in 1..Len(s2) : i = 1 \/ (i - 1 \in 1..Len(st) /\ s2[i] = st[i - 1])
      /\ \A i \in 1..Len(st) : i + 1 \in 1..Len(s2) /\ s2[i + 1] = st[i]
  BY DEF Stacks
<1> HIDE DEF s2
<1>2. /\ \A k \in Bodies : ~ Vacant(e, D, k) => OnStack(st, D, k) \/ k >= K
      /\ \A i \in 1..Len(st) :
            /\ st[i].blk = D /\ st[i].idx \in Bodies /\ ~ Vacant(e, D, st[i].idx)
            /\ st[i].idx < K
      /\ \A i, j \in 1..Len(st) : st[i].idx = st[j].idx => i = j
      /\ Len(st) <= K - 2
  BY DEF Pending
<1>3. ASSUME NEW k \in Bodies, ~ Vacant(e, D, k) PROVE OnStack(s2, D, k) \/ k >= K + 1
  <2>1. CASE OnStack(st, D, k)
    <3>1. PICK i \in 1..Len(st) : st[i] = [blk |-> D, idx |-> k]
      BY <2>1 DEF OnStack
    <3>2. i + 1 \in 1..Len(s2) /\ s2[i + 1] = [blk |-> D, idx |-> k]
      BY <1>1, <3>1
    <3> QED
      BY <3>2 DEF OnStack
  <2>2. CASE k = K
    <3>1. 1 \in 1..Len(s2) /\ s2[1] = [blk |-> D, idx |-> k]
      BY <1>1, <2>2 DEF x
    <3> QED
      BY <3>1 DEF OnStack
  <2>3. CASE k >= K /\ k # K
    <3>1. k \in Int
      BY Sizes DEF Bodies
    <3> QED
      BY <1>0, <2>3, <3>1
  <2> QED
    BY <1>2, <1>3, <2>1, <2>2, <2>3
<1>4. ASSUME NEW i \in 1..Len(s2)
      PROVE  /\ s2[i].blk = D /\ s2[i].idx \in Bodies /\ ~ Vacant(e, D, s2[i].idx)
             /\ s2[i].idx < K + 1
             /\ i # 1 => s2[i].idx < K
  <2>1. CASE i = 1
    BY <1>0, <1>1, <2>1
  <2>2. CASE i # 1
    <3>1. i - 1 \in 1..Len(st) /\ s2[i] = st[i - 1]
      BY <1>1, <2>2
    <3>2. /\ s2[i].blk = D /\ s2[i].idx \in Bodies /\ ~ Vacant(e, D, s2[i].idx)
          /\ s2[i].idx < K
      BY <1>2, <3>1
    <3>3. s2[i].idx \in Int
      BY <3>2, Sizes DEF Bodies
    <3> QED
      BY <1>0, <3>2, <3>3
  <2> QED
    BY <2>1, <2>2
<1>5. ASSUME NEW i \in 1..Len(s2), NEW j \in 1..Len(s2), s2[i].idx = s2[j].idx PROVE i = j
  <2>1. CASE i = 1 \/ j = 1
    <3>1. s2[1].idx = K
      BY <1>0, <1>1
    <3>2. s2[i].idx = K /\ s2[j].idx = K
      BY <1>5, <2>1, <3>1
    <3> QED
      BY <1>0, <1>4, <3>2
  <2>2. CASE i # 1 /\ j # 1
    <3>1. /\ i - 1 \in 1..Len(st) /\ s2[i] = st[i - 1]
          /\ j - 1 \in 1..Len(st) /\ s2[j] = st[j - 1]
      BY <1>1, <2>2
    <3>2. i - 1 = j - 1
      BY <1>2, <1>5, <3>1
    <3> QED
      BY <3>2
  <2> QED
    BY <2>1, <2>2
<1>6. K + 1 >= 2 /\ Len(s2) <= (K + 1) - 2
  BY <1>0, <1>1, <1>2
<1>7. Pending(e, s2, [blk |-> D, idx |-> K + 1], D)
  BY <1>3, <1>4, <1>5, <1>6 DEF Pending
<1> QED
  BY <1>7 DEF s2, x

\* The block E of a directory left in D is freed.
LEMMA DoomedFreed ==
  ASSUME NEW f, NEW f2, NEW e, NEW t, NEW D, NEW K \in Bodies, NEW E, E = e[D][K].first,
         Volumed(f, e, t, D), Alone(f, e, t, D), Remaining(f, e, t, D),
         Doomed(f, e, t, D, K), Freed(f, f2, {E})
  PROVE  Volumed(f2, e, t, D) /\ Alone(f2, e, t, D) /\ Remaining(f2, e, t, D)
<1>1. /\ E \in DataBlock /\ E # D /\ t[E] = NoText /\ Hollow(e, E)
      /\ \A b \in Root..NB, l \in Bodies : Named(e, t, D, b, l) => e[b][l].first # E
      /\ \A c \in Links(f) : f[c] # E
  BY DEF Doomed
<1>2. Apart(f, e, t, D, {E})
  BY <1>1 DEF Apart
<1>3. /\ Owned(f, e, t, D) /\ Dots(f, e, t, D) /\ Housed(e, t, D) /\ Reserved(f)
      /\ Unnamed(e)
  BY DEF Volumed
<1>4. Reserved(f2)
  BY <1>3, FreedReserved
<1>5. Owned(f2, e, t, D)
  BY <1>2, <1>3, FreedOwned
<1>6. Dots(f2, e, t, D)
  BY <1>2, <1>3, FreedDots
<1>7. FreeIsBlank(f2, e, t)
  <2> SUFFICES ASSUME NEW b \in DataBlock, f2[b] = FREE
               PROVE  t[b] = NoText /\ \A k \in Bodies : Vacant(e, b, k)
    BY DEF FreeIsBlank, Bodies, Vacant
  <2>1. CASE b = E
    BY <1>1, <2>1 DEF Hollow
  <2>2. CASE b # E
    <3>1. f[b] = FREE
      BY <2>2, Layout DEF Freed
    <3> QED
      BY <3>1 DEF Volumed, FreeIsBlank, Bodies, Vacant
  <2> QED
    BY <2>1, <2>2
<1>8. Volumed(f2, e, t, D)
  BY <1>3, <1>4, <1>5, <1>6, <1>7 DEF Volumed
<1>9. \A c \in Links(f2) : c \in Links(f) /\ f2[c] = f[c]
  BY Layout DEF Links, IsLink, Freed
<1>10. Alone(f2, e, t, D)
  <2>1. D \in 0..NB /\ D \notin {E}
    BY <1>1, Layout DEF Alone
  <2>2. f2[D] = f[D]
    BY <2>1 DEF Freed
  <2> QED
    BY <1>9, <2>2 DEF Alone
<1>11. Remaining(f2, e, t, D)
  BY <1>9 DEF Remaining, Doomed
<1> QED
  BY <1>8, <1>10, <1>11

LEMMA rmdirScanStep ==
  ASSUME Ordinary, TypeInv, CarefulInv, rmdirScan PROVE CarefulInv'
<1>1. /\ mode = "rmdir" /\ scan.idx < DS /\ scan.idx # DS
      /\ scan' = [scan EXCEPT !.idx = @ + 1]
      /\ UNCHANGED <<slots, fp, cur, path, edit, host>>
  <2>1. /\ mode = "rmdir" /\ scan.idx < DS
        /\ scan' = [scan EXCEPT !.idx = @ + 1]
        /\ UNCHANGED <<slots, fp, cur, path, edit, host>>
    BY DEF rmdirScan
  <2>2. scan.idx # DS
    BY <2>1, Sizes
  <2> QED
    BY <2>1, <2>2
<1>2. PICK D \in DataBlock : Emptying(D)
  BY <1>1 DEF CarefulInv, Unlinking
<1>3. /\ Volumed(fat, ents, text, D) /\ Lengths(ents, text, D, 0)
      /\ Here(ents, text, D, cur) /\ Walked(ents, text, D, path, cur.first)
      /\ Held(ents, text, D, slots) /\ Alone(fat, ents, text, D)
      /\ Remaining(fat, ents, text, D) /\ Pending(ents, stack, scan, D)
  BY <1>2 DEF Emptying, Settled, Alone
<1>4. /\ fat \in Fats /\ ents \in Ents /\ stack \in Stacks /\ scan \in Scans
      /\ Len(stack) \in Nat
  <2>1. Len(stack) \in Nat
    BY CarefulTypes, LenType DEF Stacks
  <2> QED
    BY <2>1, CarefulTypes
<1>5. PICK b, k : b = scan.blk /\ k = scan.idx
  OBVIOUS
<1>6. /\ k \in Bodies /\ k \in Int /\ scan = [blk |-> b, idx |-> k]
      /\ scan' = [blk |-> b, idx |-> k + 1]
  <2>1. scan \in [blk : Block, idx : 0..DS]
    BY <1>4 DEF Scans
  <2>2. scan = [blk |-> b, idx |-> k] /\ k \in 0..DS
    BY <1>5, <2>1
  <2>3. k >= 2
    BY <1>3, <1>5 DEF Pending
  <2> QED
    BY <1>1, <1>5, <2>2, <2>3, Sizes DEF Bodies
<1>7. PICK at : at = [blk |-> b, idx |-> k]
  OBVIOUS
<1>8. LET e == EntryAt(ents, at)
      IN  \/ /\ e.name # "" /\ e.attr = DIR
             /\ IF Len(stack) < StackSize
                THEN /\ IF fat[e.first] = END
                        THEN /\ fat' = SetBoth(fat, e.first, FREE)
                             /\ ents' = RootName(ents, e.first, "")
                        ELSE UNCHANGED <<fat, ents>>
                     /\ stack' = <<at>> \o stack
                     /\ UNCHANGED <<text, mode>>
                ELSE mode' = "wild" /\ UNCHANGED <<fat, ents, text, stack>>
          \/ /\ e.name # "" /\ e.attr = FILE
             /\ DeleteFile(e.name, "rmdir") /\ UNCHANGED stack
          \/ /\ e.name = "" \/ e.attr = 0
             /\ UNCHANGED <<fat, ents, text, stack, mode>>
  BY <1>5, <1>7 DEF rmdirScan
<1>9. EntryAt(ents, at) = ents[b][k]
  BY <1>7 DEF EntryAt
<1>10. CASE b # D \/ Vacant(ents, D, k)
  <2>1. Vacant(ents, b, k)
    BY <1>3, <1>5, <1>6, <1>10 DEF Pending, Hollow
  <2>2. UNCHANGED <<fat, ents, text, stack, mode>>
    BY <1>8, <1>9, <2>1 DEF Vacant
  <2>3. Pending(ents, stack, scan', D)
    <3>1. Pending(ents, stack, [blk |-> scan.blk, idx |-> scan.idx + 1], D)
      BY <1>3, <1>4, <1>5, <1>6, <1>10, ScanOn
    <3> QED
      BY <1>5, <1>6, <3>1
  <2>4. Emptying(D)'
    BY <1>1, <1>3, <2>2, <2>3 DEF Emptying, Settled
  <2> QED
    BY <1>1, <2>2, <2>4, RmdirStay
<1>11. CASE b = D /\ ~ Vacant(ents, D, k)
  <2>1. PICK E : E = ents[D][k].first
    OBVIOUS
  <2>2. /\ Doomed(fat, ents, text, D, k) /\ E \in DataBlock
        /\ ents[D][k].attr = DIR
    BY <1>3, <1>6, <1>11, <2>1 DEF Remaining, Doomed
  <2>3. Len(stack) < StackSize
    <3>1. Len(stack) <= k - 2
      BY <1>3, <1>5, <1>11 DEF Pending
    <3>2. DS - 2 <= StackSize /\ StackSize \in Nat /\ DS \in Nat
      BY ShellAssumption, Sizes DEF Ordinary
    <3> QED
      BY <1>1, <1>4, <1>5, <1>6, <3>1, <3>2
  <2>4. \A x : RootName(x, E, "") = x
    BY <2>2, Layout DEF RootName
  <2>5. /\ (fat' = SetBoth(fat, E, FREE) \/ fat' = fat) /\ ents' = ents
        /\ stack' = <<at>> \o stack /\ UNCHANGED <<text, mode>>
    <3>1. DIR # FILE /\ DIR # 0
      BY DEF DIR, FILE
    <3>2. EntryAt(ents, at).name # "" /\ EntryAt(ents, at).attr = DIR
      <4>1. EntryAt(ents, at).attr = DIR
        BY <1>9, <1>11, <2>2
      <4>2. EntryAt(ents, at).name # ""
        BY ONLY <1>9, <1>11 DEF Vacant
      <4> QED
        BY <4>1, <4>2
    <3>3. EntryAt(ents, at).first = E
      BY <1>9, <1>11, <2>1
    <3>4. /\ IF fat[E] = END
             THEN /\ fat' = SetBoth(fat, E, FREE)
                  /\ ents' = RootName(ents, E, "")
             ELSE UNCHANGED <<fat, ents>>
          /\ stack' = <<at>> \o stack
          /\ UNCHANGED <<text, mode>>
      BY <1>8, <2>3, <3>1, <3>2, <3>3
    <3> QED
      BY <2>4, <3>4
  <2>6. /\ Volumed(fat', ents, text, D) /\ Alone(fat', ents, text, D)
        /\ Remaining(fat', ents, text, D)
    <3>1. CASE fat' = fat
      BY <1>3, <3>1
    <3>2. CASE fat' = SetBoth(fat, E, FREE)
      <4>1. Freed(fat, fat', {E})
        BY <1>4, <2>2, <3>2, SetBothFrees
      <4> QED
        BY <1>3, <1>6, <2>1, <2>2, <4>1, DoomedFreed
    <3> QED
      BY <2>5, <3>1, <3>2
  <2>7. Pending(ents, stack', scan', D)
    <3>1. Pending(ents, stack, [blk |-> D, idx |-> k], D)
      BY <1>3, <1>6, <1>11
    <3>2. Pending(ents, <<[blk |-> D, idx |-> k]>> \o stack, [blk |-> D, idx |-> k + 1], D)
      BY <1>4, <1>6, <1>11, <3>1, ScanPush
    <3> QED
      BY <1>6, <1>7, <1>11, <2>5, <3>2
  <2>8. Emptying(D)'
    BY <1>1, <1>3, <2>5, <2>6, <2>7 DEF Emptying, Settled
  <2> QED
    BY <1>1, <2>5, <2>8, RmdirStay
<1> QED
  BY <1>10, <1>11

\* The loop ends: nothing is left in D.
LEMMA rmdirDoneStep ==
  ASSUME TypeInv, CarefulInv, rmdirDone PROVE CarefulInv'
<1>1. /\ mode = "rmdir" /\ scan.idx = DS /\ stack = <<>> /\ mode' = "shell"
      /\ scan' = NoScan
      /\ UNCHANGED <<fat, ents, text, slots, fp, cur, path, edit, stack, host>>
  BY DEF rmdirDone
<1>2. PICK D \in DataBlock : Emptying(D)
  BY <1>1 DEF CarefulInv, Unlinking
<1>3. /\ Volumed(fat, ents, text, D) /\ Lengths(ents, text, D, 0)
      /\ Here(ents, text, D, cur) /\ Walked(ents, text, D, path, cur.first)
      /\ Held(ents, text, D, slots) /\ Pending(ents, stack, scan, D)
  BY <1>2 DEF Emptying, Settled
<1>4. \A k \in Bodies : Vacant(ents, D, k)
  <2> SUFFICES ASSUME NEW k \in Bodies, ~ Vacant(ents, D, k) PROVE FALSE
    OBVIOUS
  <2>1. ~ OnStack(stack, D, k)
    BY <1>1 DEF OnStack
  <2>2. k \in Int /\ k < DS
    BY Sizes DEF Bodies
  <2>3. k >= DS
    BY <1>1, <1>3, <2>1 DEF Pending
  <2> QED
    BY <2>2, <2>3, Sizes
<1>5. \A b, k : /\ Named(ents, text, D, b, k) => Named(ents, text, 0, b, k)
                /\ Named(ents, text, 0, b, k) => Named(ents, text, D, b, k)
  BY <1>4, Layout DEF Named, Vacant
<1>6. More(ents, text, D, ents, text, 0) /\ Fewer(ents, text, D, ents, text, 0)
  BY <1>5 DEF More, Fewer, AsBefore
<1>7. /\ Here(ents, text, 0, cur) /\ Walked(ents, text, 0, path, cur.first)
      /\ Held(ents, text, 0, slots) /\ \A b : House(ents, text, D, b) => House(ents, text, 0, b)
  BY <1>3, <1>6, MoreKeeps
<1>8. Volumed(fat, ents, text, 0)
  <2>1. Owned(fat, ents, text, 0)
    BY <1>3, <1>6, FewerOwned DEF Volumed
  <2>2. SameDots(ents, text, ents, text, 0)
    BY DEF SameDots
  <2>3. Dots(fat, ents, text, 0)
    BY <1>3, <1>6, <2>2, FewerDots DEF Volumed
  <2>4. Housed(ents, text, 0)
    BY <1>3, <1>5, <1>7 DEF Volumed, Housed
  <2> QED
    BY <1>3, <2>1, <2>3, <2>4 DEF Volumed
<1>9. Lengths(ents, text, 0, 0)
  BY <1>3, <1>5 DEF Lengths, Branch
<1>10. Settled(0, 0)'
  BY <1>1, <1>7, <1>8, <1>9 DEF Settled
<1>11. scan'.idx = DS /\ host' = host
  BY <1>1 DEF NoScan
<1> QED
  BY <1>1, <1>10, <1>11 DEF CarefulInv

LEMMA NeverLost ==
  ASSUME TypeInv, CarefulInv PROVE ~ LostDirectory /\ ~ startsysTorn
<1>1. ~ LostDirectory
  BY ShellParts DEF LostDirectory, Typed
<1>2. ~ startsysTorn
  BY DEF startsysTorn, CarefulInv
<1> QED
  BY <1>1, <1>2

-----------------------------------------------------------------------------
(***************************************************************************)
(* Component by component: induction on the numbers up to n, as a set.     *)
(***************************************************************************)
LEMMA LeastNatural ==
  ASSUME NEW T, T \subseteq Nat, T # {}
  PROVE  \E m \in T : \A j \in T : m <= j
<1> DEFINE R == {ss \in Nat \X Nat : ss[1] < ss[2]}
<1>1. IsWellFoundedOn(R, Nat)
  BY NatLessThanWellFounded DEF OpToRel
<1> HIDE DEF R
<1>2. PICK m \in T : \A j \in T : ~ (<<j, m>> \in R)
  BY <1>1, WFMin, Zenon
<1>3. \A j \in T : m <= j
  <2> SUFFICES ASSUME NEW j \in T PROVE m <= j
    OBVIOUS
  <2>1. <<j, m>> \notin R /\ j \in Nat /\ m \in Nat
    BY <1>2
  <2>2. ~ (j < m)
    BY <2>1 DEF R
  <2> QED
    BY <2>1, <2>2
<1> QED
  BY <1>3

LEMMA UpTo ==
  ASSUME NEW n \in Nat, NEW S, 0 \in S, \A i \in 0..n : i < n /\ i \in S => i + 1 \in S
  PROVE  \A i \in 0..n : i \in S
<1> DEFINE T == {i \in 0..n : i \notin S}
<1> SUFFICES ASSUME T # {} PROVE FALSE
  OBVIOUS
<1>1. T \subseteq Nat
  OBVIOUS
<1>2. PICK m \in T : \A j \in T : m <= j
  BY <1>1, LeastNatural
<1>3. m \in 0..n /\ m \notin S /\ m # 0
  BY <1>2
<1>4. m - 1 \in 0..n /\ m - 1 < n /\ (m - 1) + 1 = m /\ ~ (m <= m - 1)
  BY <1>3
<1>5. m - 1 \in S
  BY <1>2, <1>4
<1> QED
  BY <1>3, <1>4, <1>5

\* The blocks cd() passes, and the paths it writes.
Blocks(g, b, p, n) ==
    g = [j \in 0..n |-> IF j = 0 THEN b ELSE Descend(g[j - 1], p[j])]
Written(g, q, p, n) ==
    g = [j \in 0..n |-> IF j = 0 THEN q ELSE Enter(g[j - 1], p[j])]

LEMMA ResolvedSteps ==
  ASSUME NEW b, NEW p, Len(p) \in Nat
  PROVE  /\ Resolved(b, p)[0] = b
         /\ \A i \in 0..Len(p) : i < Len(p) =>
               Resolved(b, p)[i + 1] = Descend(Resolved(b, p)[i], p[i + 1])
<1> DEFINE S == {n \in Nat : \E g : Blocks(g, b, p, n)}
<1>1. 0 \in S
  <2> DEFINE g == [j \in 0..0 |-> b]
  <2>1. g = [j \in 0..0 |-> IF j = 0 THEN b ELSE Descend(g[j - 1], p[j])]
    OBVIOUS
  <2> HIDE DEF g
  <2>2. Blocks(g, b, p, 0)
    BY <2>1 DEF Blocks
  <2> QED
    BY <2>2
<1>2. ASSUME NEW n \in Nat, n \in S PROVE n + 1 \in S
  <2>1. PICK g : Blocks(g, b, p, n)
    BY <1>2
  <2>2. g = [j \in 0..n |-> IF j = 0 THEN b ELSE Descend(g[j - 1], p[j])]
    BY <2>1 DEF Blocks
  <2> DEFINE h == [j \in 0..(n + 1) |-> IF j = n + 1 THEN Descend(g[n], p[n + 1]) ELSE g[j]]
  <2>3. ASSUME NEW j \in 0..(n + 1)
        PROVE  h[j] = IF j = 0 THEN b ELSE Descend(h[j - 1], p[j])
    <3>1. CASE j = n + 1
      <4>1. j - 1 = n /\ j # 0 /\ n \in 0..(n + 1) /\ n # n + 1
        BY <3>1
      <4>2. h[j] = Descend(g[n], p[j]) /\ h[n] = g[n]
        BY <3>1, <4>1
      <4> QED
        BY <4>1, <4>2
    <3>2. CASE j # n + 1
      <4>1. j \in 0..n
        BY <3>2
      <4>2. h[j] = g[j] /\ g[j] = IF j = 0 THEN b ELSE Descend(g[j - 1], p[j])
        BY <2>2, <3>2, <4>1
      <4>3. j # 0 => j - 1 \in 0..(n + 1) /\ j - 1 # n + 1
        BY <4>1
      <4>4. j # 0 => h[j - 1] = g[j - 1]
        BY <4>3
      <4> QED
        BY <4>2, <4>4
    <3> QED
      BY <3>1, <3>2
  <2>4. h = [j \in 0..(n + 1) |-> h[j]]
    OBVIOUS
  <2> HIDE DEF h
  <2>5. h = [j \in 0..(n + 1) |-> IF j = 0 THEN b ELSE Descend(h[j - 1], p[j])]
    BY <2>3, <2>4
  <2>6. Blocks(h, b, p, n + 1)
    BY <2>5 DEF Blocks
  <2> QED
    BY <2>6
<1> HIDE DEF S
<1>4. Len(p) \in S
  <2>1. PICK m \in Nat : m = Len(p)
    OBVIOUS
  <2>2. \A i \in 0..m : i < m /\ i \in S => i + 1 \in S
    BY <1>2, <2>1
  <2>3. \A i \in 0..m : i \in S
    BY <1>1, <2>1, <2>2, UpTo
  <2>4. m \in 0..m
    BY <2>1
  <2> QED
    BY <2>1, <2>3, <2>4
<1>5. \E g : Blocks(g, b, p, Len(p))
  BY <1>4 DEF S
<1>6. Resolved(b, p) = CHOOSE g : Blocks(g, b, p, Len(p))
  BY DEF Resolved, Blocks
<1>7. Blocks(Resolved(b, p), b, p, Len(p))
  BY <1>5, <1>6, Zenon
<1>8. PICK g : g = Resolved(b, p)
  OBVIOUS
<1>9. g = [j \in 0..Len(p) |-> IF j = 0 THEN b ELSE Descend(g[j - 1], p[j])]
  BY <1>7, <1>8 DEF Blocks
<1>10. g[0] = b
  BY <1>9
<1>11. ASSUME NEW i \in 0..Len(p), i < Len(p) PROVE g[i + 1] = Descend(g[i], p[i + 1])
  <2>1. i + 1 \in 0..Len(p) /\ i + 1 # 0 /\ (i + 1) - 1 = i
    BY <1>11
  <2> QED
    BY <1>9, <2>1
<1> QED
  BY <1>8, <1>10, <1>11

LEMMA RewrittenSteps ==
  ASSUME NEW q, NEW p, Len(p) \in Nat
  PROVE  /\ Rewritten(q, p)[0] = q
         /\ \A i \in 0..Len(p) : i < Len(p) =>
               Rewritten(q, p)[i + 1] = Enter(Rewritten(q, p)[i], p[i + 1])
<1> DEFINE S == {n \in Nat : \E g : Written(g, q, p, n)}
<1>1. 0 \in S
  <2> DEFINE g == [j \in 0..0 |-> q]
  <2>1. g = [j \in 0..0 |-> IF j = 0 THEN q ELSE Enter(g[j - 1], p[j])]
    OBVIOUS
  <2> HIDE DEF g
  <2>2. Written(g, q, p, 0)
    BY <2>1 DEF Written
  <2> QED
    BY <2>2
<1>2. ASSUME NEW n \in Nat, n \in S PROVE n + 1 \in S
  <2>1. PICK g : Written(g, q, p, n)
    BY <1>2
  <2>2. g = [j \in 0..n |-> IF j = 0 THEN q ELSE Enter(g[j - 1], p[j])]
    BY <2>1 DEF Written
  <2> DEFINE h == [j \in 0..(n + 1) |-> IF j = n + 1 THEN Enter(g[n], p[n + 1]) ELSE g[j]]
  <2>3. ASSUME NEW j \in 0..(n + 1)
        PROVE  h[j] = IF j = 0 THEN q ELSE Enter(h[j - 1], p[j])
    <3>1. CASE j = n + 1
      <4>1. j - 1 = n /\ j # 0 /\ n \in 0..(n + 1) /\ n # n + 1
        BY <3>1
      <4>2. h[j] = Enter(g[n], p[j]) /\ h[n] = g[n]
        BY <3>1, <4>1
      <4> QED
        BY <4>1, <4>2
    <3>2. CASE j # n + 1
      <4>1. j \in 0..n
        BY <3>2
      <4>2. h[j] = g[j] /\ g[j] = IF j = 0 THEN q ELSE Enter(g[j - 1], p[j])
        BY <2>2, <3>2, <4>1
      <4>3. j # 0 => j - 1 \in 0..(n + 1) /\ j - 1 # n + 1
        BY <4>1
      <4>4. j # 0 => h[j - 1] = g[j - 1]
        BY <4>3
      <4> QED
        BY <4>2, <4>4
    <3> QED
      BY <3>1, <3>2
  <2>4. h = [j \in 0..(n + 1) |-> h[j]]
    OBVIOUS
  <2> HIDE DEF h
  <2>5. h = [j \in 0..(n + 1) |-> IF j = 0 THEN q ELSE Enter(h[j - 1], p[j])]
    BY <2>3, <2>4
  <2>6. Written(h, q, p, n + 1)
    BY <2>5 DEF Written
  <2> QED
    BY <2>6
<1> HIDE DEF S
<1>4. Len(p) \in S
  <2>1. PICK m \in Nat : m = Len(p)
    OBVIOUS
  <2>2. \A i \in 0..m : i < m /\ i \in S => i + 1 \in S
    BY <1>2, <2>1
  <2>3. \A i \in 0..m : i \in S
    BY <1>1, <2>1, <2>2, UpTo
  <2>4. m \in 0..m
    BY <2>1
  <2> QED
    BY <2>1, <2>3, <2>4
<1>5. \E g : Written(g, q, p, Len(p))
  BY <1>4 DEF S
<1>6. Rewritten(q, p) = CHOOSE g : Written(g, q, p, Len(p))
  BY DEF Rewritten, Written
<1>7. Written(Rewritten(q, p), q, p, Len(p))
  BY <1>5, <1>6, Zenon
<1>8. PICK g : g = Rewritten(q, p)
  OBVIOUS
<1>9. g = [j \in 0..Len(p) |-> IF j = 0 THEN q ELSE Enter(g[j - 1], p[j])]
  BY <1>7, <1>8 DEF Written
<1>10. g[0] = q
  BY <1>9
<1>11. ASSUME NEW i \in 0..Len(p), i < Len(p) PROVE g[i + 1] = Enter(g[i], p[i + 1])
  <2>1. i + 1 \in 0..Len(p) /\ i + 1 # 0 /\ (i + 1) - 1 = i
    BY <1>11
  <2> QED
    BY <1>9, <2>1
<1> QED
  BY <1>8, <1>10, <1>11

-----------------------------------------------------------------------------
(***************************************************************************)
(* cd: the block reached and the path written, component by component.     *)
(***************************************************************************)
DirNamed(x, c) == x.name = c /\ x.attr = DIR

LEMMA Descended ==
  ASSUME NEW b \in Root..NB, text[b] = NoText, NEW c
  PROVE  \/ Descend(b, c) = NotFound /\ \A k \in Index : ~ DirNamed(ents[b][k], c)
         \/ \E k \in Index : DirNamed(ents[b][k], c) /\ Descend(b, c) = ents[b][k].first
<1> DEFINE hit == {k \in Index : ents[b][k].name = c /\ ents[b][k].attr = DIR}
           least == CHOOSE k \in hit : \A j \in hit : k <= j
<1>1. b \notin {NotFound, Undecoded} /\ DirLike(b)
  BY Layout, Sizes DEF NotFound, Undecoded, DirLike
<1>2. Descend(b, c) = IF hit = {} THEN NotFound ELSE ents[b][least].first
  BY <1>1 DEF Descend
<1>3. CASE hit = {}
  BY <1>2, <1>3 DEF DirNamed
<1>4. CASE hit # {}
  <2>1. hit \subseteq Nat
    BY Sizes DEF Index
  <2>2. \E k \in hit : \A j \in hit : k <= j
    BY <1>4, <2>1, LeastNatural
  <2>3. least \in hit
    BY <2>2
  <2>4. least \in Index /\ DirNamed(ents[b][least], c)
    BY <2>3 DEF DirNamed
  <2> QED
    BY <1>2, <1>4, <2>4
<1> QED
  BY <1>3, <1>4

LEMMA DirIsSet == DIR # 0
  BY DEF DIR

LEMMA DirPlaces ==
  ASSUME NEW f, NEW e, NEW t, Volumed(f, e, t, 0), NEW b, House(e, t, 0, b),
         NEW k \in Index, NEW c \in Names \cup {"", ".", ".."}, DirNamed(e[b][k], c)
  PROVE  \/ c = "." /\ e[b][k].first = b
         \/ c = ".." /\ k = 1
         \/ c \in Names /\ Branch(e, t, 0, b, k)
<1>1. Dot(e[b][0], ".", b) /\ IsUp(e[b][1]) /\ b \in Root..NB /\ t[b] = NoText
  BY HouseShape
<1>2. CASE k = 0
  BY <1>1, <1>2 DEF Dot, DirNamed
<1>3. CASE k = 1
  BY <1>1, <1>3 DEF IsUp, DirNamed
<1>4. CASE k # 0 /\ k # 1
  <2>1. k \in Bodies /\ b \in Block
    BY <1>1, <1>4, Layout
  <2>2. e[b][k].name = c /\ e[b][k].attr = DIR
    BY DEF DirNamed
  <2>3. e[b][k].name # ""
    BY <2>1, <2>2, DirIsSet DEF Volumed, Unnamed
  <2>4. Named(e, t, 0, b, k)
    BY <2>1, <2>3, HouseNamed
  <2>5. c \in Names
    BY <1>1, <2>1, <2>2, <2>4 DEF Volumed, Housed
  <2> QED
    BY <2>2, <2>4, <2>5 DEF Branch
<1> QED
  BY <1>2, <1>3, <1>4

LEMMA WalkedHouse ==
  ASSUME NEW e, NEW t, NEW D, NEW q, Len(q) \in Nat, NEW b, Walked(e, t, D, q, b)
  PROVE  House(e, t, D, b)
<1>1. PICK w \in [1..Len(q) -> Root..NB] : Passes(e, t, D, q, w) /\ w[Len(q)] = b
  BY DEF Walked
<1>2. PICK n \in Nat : n = Len(q) /\ n >= 1
  BY DEF Walked
<1>3. CASE Len(q) = 1
  BY <1>1, <1>3 DEF Passes, House
<1>4. CASE Len(q) # 1
  <2>0. n \in 2..n /\ n - 1 \in 1..n
    BY <1>2, <1>4
  <2>1. Len(q) \in 2..Len(q) /\ Len(q) - 1 \in 1..Len(q)
    BY <1>2, <2>0
  <2>2. PICK k \in Bodies : /\ Branch(e, t, D, w[Len(q) - 1], k)
                            /\ e[w[Len(q) - 1]][k].first = w[Len(q)]
    BY <1>1, <2>1 DEF Passes
  <2>3. w[Len(q) - 1] \in Root..NB
    BY <2>1
  <2> QED
    BY <1>1, <2>2, <2>3 DEF House
<1> QED
  BY <1>3, <1>4

LEMMA StepDown ==
  ASSUME NEW f, NEW e, NEW t, Volumed(f, e, t, 0), NEW S, NEW q \in Seq(S), NEW b,
         Walked(e, t, 0, q, b), NEW c \in S, NEW k, Branch(e, t, 0, b, k), e[b][k].name = c
  PROVE  Walked(e, t, 0, Append(q, c), e[b][k].first)
<1>0. Len(q) \in Nat
  BY LenType
<1>1. PICK D : D = e[b][k].first
  OBVIOUS
<1>2. PICK w \in [1..Len(q) -> Root..NB] : /\ Passes(e, t, 0, q, w) /\ w[Len(q)] = b
                                           /\ \A i \in 1..Len(q) : w[i] # D
  BY <1>0, <1>1, PathAvoids
<1>3. PICK n \in Nat : n = Len(q) /\ n >= 1
  BY <1>0 DEF Walked
<1>4. Len(Append(q, c)) = n + 1 /\ Append(q, c)[n + 1] = c
      /\ \A i \in 1..n : Append(q, c)[i] = q[i]
  BY <1>3
<1>5. D \in Root..NB /\ k \in Bodies
  <2>1. Named(e, t, 0, b, k) /\ b \in Root..NB /\ k \in Bodies
    BY DEF Branch, Named
  <2> QED
    BY <1>1, <2>1, Layout DEF Volumed, Owned
<1> DEFINE v == [i \in 1..(n + 1) |-> IF i = n + 1 THEN D ELSE w[i]]
<1>6. v \in [1..(n + 1) -> Root..NB]
  BY <1>3, <1>5
<1>7. v[n + 1] = D /\ \A i \in 1..n : v[i] = w[i] /\ w[i] # D
  BY <1>2, <1>3
<1> HIDE DEF v
<1>8. PICK r : r = Append(q, c)
  OBVIOUS
<1>9. r[1] = "root" /\ v[1] = Root
  BY <1>2, <1>3, <1>4, <1>7, <1>8 DEF Passes
<1>10. ASSUME NEW i \in 2..(n + 1)
       PROVE  \E l \in Bodies : /\ Branch(e, t, 0, v[i - 1], l)
                                /\ e[v[i - 1]][l].name = r[i] /\ e[v[i - 1]][l].first = v[i]
  <2>1. CASE i = n + 1
    <3>1. i - 1 = n /\ n \in 1..n
      BY <1>3, <2>1
    <3>2. v[i - 1] = b /\ v[i] = D /\ r[i] = c
      BY <1>2, <1>3, <1>4, <1>7, <1>8, <2>1, <3>1
    <3> QED
      BY <1>1, <1>5, <3>2
  <2>2. CASE i # n + 1
    <3>1. i \in 2..n /\ i \in 1..n /\ i - 1 \in 1..n
      BY <1>3, <2>2
    <3>2. v[i - 1] = w[i - 1] /\ v[i] = w[i] /\ r[i] = q[i]
      BY <1>4, <1>7, <1>8, <3>1
    <3> QED
      BY <1>2, <1>3, <3>1, <3>2 DEF Passes
  <2> QED
    BY <2>1, <2>2
<1>11. ASSUME NEW i \in 1..(n + 1), NEW j \in 1..(n + 1), v[i] = v[j] PROVE i = j
  <2>1. (i = n + 1 \/ i \in 1..n) /\ (j = n + 1 \/ j \in 1..n)
    BY <1>3
  <2> QED
    BY <1>2, <1>3, <1>7, <1>11, <2>1 DEF Passes
<1>12. Len(r) = n + 1 /\ n + 1 >= 1
  BY <1>3, <1>4, <1>8
<1>13. Passes(e, t, 0, r, v)
  BY <1>9, <1>10, <1>11, <1>12 DEF Passes
<1>14. Walked(e, t, 0, r, D)
  BY <1>6, <1>7, <1>12, <1>13 DEF Walked
<1> QED
  BY <1>1, <1>8, <1>14

LEMMA StepUp ==
  ASSUME NEW f, NEW e, NEW t, Volumed(f, e, t, 0), NEW S, NEW q \in Seq(S), NEW b,
         Walked(e, t, 0, q, b), Len(q) > 1
  PROVE  Walked(e, t, 0, Front(q), e[b][1].first)
<1>1. PICK w \in [1..Len(q) -> Root..NB] : Passes(e, t, 0, q, w) /\ w[Len(q)] = b
  BY DEF Walked
<1>2. PICK n \in Nat : n = Len(q) /\ n > 1
  BY LenType
<1>3. n \in 2..n /\ n \in 1..n /\ n - 1 \in 1..n /\ n - 1 \in 1..(n - 1) /\ 1 \in 1..(n - 1)
      /\ n - 1 >= 1 /\ \A i \in 1..(n - 1) : i \in 1..n
  BY <1>2
<1>4. PICK r : r = Front(q)
  OBVIOUS
<1>5. Len(r) = n - 1 /\ \A i \in 1..(n - 1) : r[i] = q[i]
  BY <1>2, <1>4 DEF Front
<1>6. PICK k \in Bodies : Branch(e, t, 0, w[n - 1], k) /\ e[w[n - 1]][k].first = w[n]
  BY <1>1, <1>2, <1>3 DEF Passes
<1>7. w[n - 1] \in Root..NB /\ w[n] = b
  BY <1>1, <1>2, <1>3
<1>8. e[b][1].first = w[n - 1]
  <2>1. Dot(e[b][1], "..", w[n - 1])
    BY <1>6, <1>7 DEF Volumed, Dots
  <2> QED
    BY <2>1 DEF Dot
<1> DEFINE v == [i \in 1..(n - 1) |-> w[i]]
<1>9. v \in [1..(n - 1) -> Root..NB] /\ \A i \in 1..(n - 1) : v[i] = w[i]
  BY <1>2, <1>3
<1> HIDE DEF v
<1>10. r[1] = "root" /\ v[1] = Root
  BY <1>1, <1>3, <1>5, <1>9 DEF Passes
<1>11. ASSUME NEW i \in 2..(n - 1)
       PROVE  \E l \in Bodies : /\ Branch(e, t, 0, v[i - 1], l)
                                /\ e[v[i - 1]][l].name = r[i] /\ e[v[i - 1]][l].first = v[i]
  <2>1. i \in 2..n /\ i \in 1..(n - 1) /\ i - 1 \in 1..(n - 1)
    BY <1>2
  <2>2. v[i - 1] = w[i - 1] /\ v[i] = w[i] /\ r[i] = q[i]
    BY <1>5, <1>9, <2>1
  <2> QED
    BY <1>1, <1>2, <2>1, <2>2 DEF Passes
<1>12. \A i, j \in 1..(n - 1) : v[i] = v[j] => i = j
  BY <1>1, <1>2, <1>3, <1>9 DEF Passes
<1>13. Passes(e, t, 0, r, v)
  BY <1>5, <1>10, <1>11, <1>12 DEF Passes
<1>14. Walked(e, t, 0, r, w[n - 1])
  BY <1>3, <1>5, <1>9, <1>13 DEF Walked
<1> QED
  BY <1>4, <1>8, <1>14

LEMMA UpFromRoot ==
  ASSUME NEW f, NEW e, NEW t, Volumed(f, e, t, 0), NEW q, NEW b,
         Walked(e, t, 0, q, b), Len(q) = 1
  PROVE  b = Root /\ e[b][1].first = Root
<1>1. PICK w \in [1..Len(q) -> Root..NB] : Passes(e, t, 0, q, w) /\ w[Len(q)] = b
  BY DEF Walked
<1>2. b = Root
  BY <1>1 DEF Passes
<1>3. Dot(e[Root][1], "..", Root)
  BY DEF Volumed, Dots
<1> QED
  BY <1>2, <1>3 DEF Dot

CdNames == Names \cup {"", "root"}
CdWords == Names \cup {"", ".", ".."}

LEMMA CdStep ==
  ASSUME Volumed(fat, ents, text, 0), NEW q \in Seq(CdNames), NEW b,
         Walked(ents, text, 0, q, b), NEW c \in CdWords
  PROVE  Descend(b, c) = NotFound \/ Walked(ents, text, 0, Enter(q, c), Descend(b, c))
<1>0. PICK n \in Nat : n = Len(q) /\ n >= 1
  BY LenType DEF Walked
<1>1. House(ents, text, 0, b)
  BY <1>0, WalkedHouse
<1>2. b \in Root..NB /\ text[b] = NoText
  BY <1>1, HouseShape
<1>3. CASE Descend(b, c) = NotFound
  BY <1>3
<1>4. ASSUME NEW k \in Index, DirNamed(ents[b][k], c), Descend(b, c) = ents[b][k].first
      PROVE  Walked(ents, text, 0, Enter(q, c), Descend(b, c))
  <2>1. \/ c = "." /\ ents[b][k].first = b
        \/ c = ".." /\ k = 1
        \/ c \in Names /\ Branch(ents, text, 0, b, k)
    BY <1>1, <1>4, DirPlaces DEF CdWords
  <2>2. CASE c = "." /\ ents[b][k].first = b
    <3>1. Enter(q, c) = q
      BY <2>2 DEF Enter
    <3> QED
      BY <1>4, <2>2, <3>1
  <2>3. CASE c = ".." /\ k = 1
    <3>1. CASE Len(q) > 1
      <4>1. Enter(q, c) = Front(q)
        BY <2>3, <3>1 DEF Enter
      <4>2. Walked(ents, text, 0, Front(q), ents[b][1].first)
        BY <3>1, StepUp
      <4> QED
        BY <1>4, <2>3, <4>1, <4>2
    <3>2. CASE ~ (Len(q) > 1)
      <4>1. Enter(q, c) = q
        BY <2>3, <3>2 DEF Enter
      <4>2. Len(q) = 1
        BY <1>0, <3>2
      <4>3. b = Root /\ ents[b][1].first = Root
        BY <4>2, UpFromRoot
      <4> QED
        BY <1>4, <2>3, <4>1, <4>3
    <3> QED
      BY <3>1, <3>2
  <2>4. CASE c \in Names /\ Branch(ents, text, 0, b, k)
    <3>1. Enter(q, c) = Append(q, c)
      BY <2>4, NamesAssumption DEF Enter
    <3>2. ents[b][k].name = c /\ c \in CdNames
      BY <1>4, <2>4 DEF DirNamed, CdNames
    <3>3. Walked(ents, text, 0, Append(q, c), ents[b][k].first)
      BY <2>4, <3>2, StepDown
    <3> QED
      BY <1>4, <3>1, <3>3
  <2> QED
    BY <2>1, <2>2, <2>3, <2>4
<1> QED
  BY <1>2, <1>3, <1>4, Descended

LEMMA CdWalk ==
  ASSUME Volumed(fat, ents, text, 0), NEW q \in Seq(CdNames), NEW b,
         Walked(ents, text, 0, q, b), NEW p \in Seq(CdWords),
         \A j \in 0..Len(p) : Rewritten(q, p)[j] \in Seq(CdNames)
  PROVE  \/ Resolve(b, p) = NotFound
         \/ Walked(ents, text, 0, Rewrite(q, p), Resolve(b, p))
<1>1. PICK n \in Nat : n = Len(p)
  BY LenType
<1>2. PICK r : r = Resolved(b, p)
  OBVIOUS
<1>3. PICK s : s = Rewritten(q, p)
  OBVIOUS
<1>4. r[0] = b /\ \A i \in 0..n : i < n => r[i + 1] = Descend(r[i], p[i + 1])
  BY <1>1, <1>2, ResolvedSteps
<1>5. s[0] = q /\ \A i \in 0..n : i < n => s[i + 1] = Enter(s[i], p[i + 1])
  BY <1>1, <1>3, RewrittenSteps
<1>6. \A i \in 0..n : s[i] \in Seq(CdNames)
  BY <1>1, <1>3
<1> DEFINE S == {i \in 0..n : r[i] = NotFound \/ Walked(ents, text, 0, s[i], r[i])}
<1>7. 0 \in S
  BY <1>1, <1>4, <1>5
<1>8. ASSUME NEW i \in 0..n, i < n, i \in S PROVE i + 1 \in S
  <2>1. i + 1 \in 0..n /\ i + 1 \in 1..n
    BY <1>8
  <2>2. r[i + 1] = Descend(r[i], p[i + 1]) /\ s[i + 1] = Enter(s[i], p[i + 1])
    BY <1>4, <1>5, <1>8
  <2>3. p[i + 1] \in CdWords
    BY <1>1, <2>1
  <2>4. CASE r[i] = NotFound
    <3>1. Descend(r[i], p[i + 1]) = NotFound
      BY <2>4 DEF Descend
    <3> QED
      BY <2>1, <2>2, <3>1
  <2>5. CASE Walked(ents, text, 0, s[i], r[i])
    <3>1. s[i] \in Seq(CdNames)
      BY <1>6
    <3>2. \/ Descend(r[i], p[i + 1]) = NotFound
          \/ Walked(ents, text, 0, Enter(s[i], p[i + 1]), Descend(r[i], p[i + 1]))
      BY <2>3, <2>5, <3>1, CdStep
    <3> QED
      BY <2>1, <2>2, <3>2
  <2> QED
    BY <1>8, <2>4, <2>5
<1> HIDE DEF S
<1>9. \A i \in 0..n : i \in S
  BY <1>1, <1>7, <1>8, UpTo
<1>10. n \in 0..n
  BY <1>1
<1>11. r[n] = NotFound \/ Walked(ents, text, 0, s[n], r[n])
  BY <1>9, <1>10 DEF S
<1> QED
  BY <1>1, <1>2, <1>3, <1>11 DEF Resolve, Rewrite

\* Where cd() ends, the directory's own entry is one ".." up, by the path's last name.
LEMMA CdOwn ==
  ASSUME NEW f, NEW e, NEW t, Volumed(f, e, t, 0), NEW S, NEW q \in Seq(S), NEW B,
         Walked(e, t, 0, q, B)
  PROVE  \/ q[Len(q)] = "root" /\ B = Root /\ e[B][1].first = Root
         \/ \E k \in Bodies : /\ Branch(e, t, 0, e[B][1].first, k)
                              /\ e[e[B][1].first][k].name = q[Len(q)]
                              /\ e[e[B][1].first][k].first = B
<1>1. PICK w \in [1..Len(q) -> Root..NB] : Passes(e, t, 0, q, w) /\ w[Len(q)] = B
  BY DEF Walked
<1>2. PICK n \in Nat : n = Len(q) /\ n >= 1
  BY LenType DEF Walked
<1>3. CASE n = 1
  <2>1. B = Root /\ e[B][1].first = Root
    BY <1>2, <1>3, UpFromRoot
  <2> QED
    BY <1>1, <1>2, <1>3, <2>1 DEF Passes
<1>4. CASE n # 1
  <2>1. n \in 2..n /\ n \in 1..n /\ n - 1 \in 1..n
    BY <1>2, <1>4
  <2>2. PICK k \in Bodies : /\ Branch(e, t, 0, w[n - 1], k)
                            /\ e[w[n - 1]][k].name = q[n] /\ e[w[n - 1]][k].first = w[n]
    BY <1>1, <1>2, <2>1 DEF Passes
  <2>3. w[n - 1] \in Root..NB /\ w[n] = B
    BY <1>1, <1>2, <2>1
  <2>4. e[B][1].first = w[n - 1]
    <3>1. Dot(e[B][1], "..", w[n - 1])
      BY <2>2, <2>3 DEF Volumed, Dots
    <3> QED
      BY <3>1 DEF Dot
  <2> QED
    BY <1>2, <2>2, <2>3, <2>4
<1> QED
  BY <1>3, <1>4

\* The search by name stops at the entry of that name.
LEMMA CdPlace ==
  ASSUME NEW f, NEW e, NEW t, Volumed(f, e, t, 0), NEW P, NEW k \in Bodies, NEW n,
         Branch(e, t, 0, P, k), e[P][k].name = n, NEW off \in 0..DS,
         off < DS => e[P][off].name = n,
         \A j \in 0..(DS - 1) : j < off => e[P][j].name # n
  PROVE  off = k
<1>1. Named(e, t, 0, P, k) /\ P \in Root..NB
  BY DEF Branch, Named
<1>2. n \in Names /\ House(e, t, 0, P)
  BY <1>1 DEF Volumed, Housed
<1>3. ~ (k < off) /\ k \in 0..(DS - 1)
  <2>1. k \in 0..(DS - 1)
    BY Layout DEF Index
  <2> QED
    BY <2>1
<1>4. off < DS /\ off \in Index
  BY <1>3, Sizes DEF Index
<1>5. Dot(e[P][0], ".", P) /\ IsUp(e[P][1])
  BY <1>2, HouseShape
<1>6. off # 0
  BY <1>2, <1>4, <1>5, NamesAssumption DEF Dot
<1>7. off # 1
  BY <1>2, <1>4, <1>5, NamesAssumption DEF IsUp
<1>8. off \in Bodies
  BY <1>4, <1>6, <1>7, Layout
<1>9. e[P][off].name # ""
  BY <1>2, <1>4, NamesAssumption
<1>10. Named(e, t, 0, P, off)
  BY <1>2, <1>8, <1>9, HouseNamed
<1> QED
  BY <1>1, <1>4, <1>8, <1>10 DEF Volumed, Housed

CdStops(e, P, n, off) ==
    IF n = "root" THEN off = 0 ELSE StopsAt(DS, LAMBDA j : e[P][j].name = n, off)

LEMMA CdHere ==
  ASSUME Ordinary, NEW f, NEW e, NEW t, Volumed(f, e, t, 0), NEW S, NEW q \in Seq(S), NEW B,
         Walked(e, t, 0, q, B), NEW P, P = e[B][1].first, NEW off \in 0..DS,
         CdStops(e, P, q[Len(q)], off),
         NEW c, c = [first |-> EntryAt(e, At(P, off)).first, dirno |-> e[P][0].first,
                     diroff |-> off]
  PROVE  /\ At(P, off) = [blk |-> P, idx |-> off] /\ House(e, t, 0, P)
         /\ Here(e, t, 0, c) /\ c.first = B
<1>1. \/ q[Len(q)] = "root" /\ B = Root /\ P = Root
      \/ \E k \in Bodies : /\ Branch(e, t, 0, P, k)
                           /\ e[P][k].name = q[Len(q)]
                           /\ e[P][k].first = B
  BY CdOwn
<1>2. CASE q[Len(q)] = "root" /\ B = Root /\ P = Root
  <2>1. off = 0
    BY <1>2 DEF CdStops
  <2>2. At(P, off) = [blk |-> P, idx |-> off]
    BY <2>1, Sizes DEF At
  <2>3. House(e, t, 0, P)
    BY <1>2 DEF House
  <2>4. Dot(e[Root][0], ".", Root)
    BY DEF Volumed, Dots
  <2>5. e[Root][0].first = Root
    BY <2>4 DEF Dot
  <2>6. c = [first |-> Root, dirno |-> Root, diroff |-> 0]
    <3>1. EntryAt(e, At(P, off)).first = Root /\ e[P][0].first = Root
      BY ONLY <1>2, <2>1, <2>2, <2>5 DEF EntryAt
    <3>2. c = [first |-> EntryAt(e, At(P, off)).first, dirno |-> e[P][0].first,
               diroff |-> off]
      OBVIOUS
    <3> QED
      BY ONLY <2>1, <3>1, <3>2
  <2>7. Here(e, t, 0, c)
    BY ONLY <2>6 DEF Here
  <2>8. c.first = Root
    BY ONLY <2>6
  <2> QED
    BY ONLY <1>2, <2>2, <2>3, <2>7, <2>8
<1>3. ASSUME NEW k \in Bodies, Branch(e, t, 0, P, k), e[P][k].name = q[Len(q)],
             e[P][k].first = B
      PROVE  /\ At(P, off) = [blk |-> P, idx |-> off] /\ House(e, t, 0, P)
             /\ Here(e, t, 0, c) /\ c.first = B
  <2>1. Named(e, t, 0, P, k) /\ P \in Root..NB
    BY <1>3 DEF Branch, Named
  <2>2. e[P][k].name \in Names /\ House(e, t, 0, P)
    BY <2>1 DEF Volumed, Housed
  <2>3. q[Len(q)] # "root"
    BY <1>3, <2>2 DEF Ordinary
  <2>4. /\ off < DS => e[P][off].name = q[Len(q)]
        /\ \A j \in 0..(DS - 1) : j < off => e[P][j].name # q[Len(q)]
    BY <2>3 DEF CdStops, StopsAt
  <2>5. off = k
    BY <1>3, <2>4, CdPlace
  <2>6. off # DS
    BY <2>5, Layout, Sizes DEF Index
  <2>7. At(P, off) = [blk |-> P, idx |-> off]
    BY <2>6 DEF At
  <2>8. e[P][0].first = P
    <3>1. Dot(e[P][0], ".", P)
      BY <2>2, HouseShape
    <3> QED
      BY <3>1 DEF Dot
  <2>9. c = [first |-> B, dirno |-> P, diroff |-> k]
    BY <1>3, <2>5, <2>7, <2>8 DEF EntryAt
  <2>10. c.first = B /\ c.dirno = P /\ c.diroff = k
    BY ONLY <2>9
  <2>11. Here(e, t, 0, c)
    BY ONLY <1>3, <2>10 DEF Here
  <2> QED
    BY ONLY <2>2, <2>7, <2>10, <2>11
<1> QED
  BY <1>1, <1>2, <1>3

\* The end of cd(), when it found block B: the path is now q, and P is the parent.
CdTo(P, q, off) ==
    LET at == At(P, off)
        e == EntryAt(ents, at)
        s == [first |-> e.first, dirno |-> ents[P][0].first, diroff |-> off]
    IN  /\ CdStops(ents, P, q[Len(q)], off)
        /\ IF DirLike(at.blk)
           THEN /\ slots' = [slots EXCEPT ![fp] =
                     [name |-> e.name, attr |-> DIR, first |-> e.first,
                      len |-> e.len, dirno |-> s.dirno, diroff |-> off]]
                /\ cur' = s /\ path' = q
                /\ UNCHANGED <<fat, ents, text, fp, edit, stack, scan, host, mode>>
           ELSE Wild
CdEnd(B, P, q, fits) ==
    IF /\ DirLike(B) /\ DirLike(P) /\ fp # -1 /\ fits
    THEN \E off \in 0..DS : CdTo(P, q, off) ELSE Wild

LEMMA cdKeeps ==
  ASSUME Ordinary, TypeInv, CarefulInv, NEW p \in PathArgs, MindHandle, MindDepth(p), cd(p)
  PROVE  CarefulInv'
<1>1. mode = "shell" /\ Resolve(cur.first, p) # NotFound
  BY DEF cd, Typed
<1>2. /\ Volumed(fat, ents, text, 0) /\ Lengths(ents, text, 0, 0)
      /\ Walked(ents, text, 0, path, cur.first) /\ Held(ents, text, 0, slots)
  BY <1>1, ShellParts
<1>3. path \in Seq(CdNames) /\ p \in Seq(CdWords) /\ slots \in Slots /\ fp \in 0..(MaxOpen - 1)
  <2>1. path \in Seq(CdNames) /\ slots \in Slots
    BY TypeParts DEF TypeInv, RestTyped, Paths, CdNames
  <2>2. p \in Seq(CdWords)
    BY ShellAssumption DEF CdWords
  <2>3. fp \in -1..(MaxOpen - 1) /\ fp # -1
    BY CarefulTypes DEF MindHandle
  <2>4. fp \in 0..(MaxOpen - 1)
    BY <2>3, ShellFacts
  <2> QED
    BY <2>1, <2>2, <2>4
<1>4. \A j \in 0..Len(p) : PathFits(Rewritten(path, p)[j]) /\ Rewritten(path, p)[j] \in Seq(CdNames)
  BY DEF MindDepth, PathFits, CdNames
<1>5. PICK B, q : B = Resolve(cur.first, p) /\ q = Rewrite(path, p)
  OBVIOUS
<1>6. Walked(ents, text, 0, q, B)
  BY <1>1, <1>2, <1>3, <1>4, <1>5, CdWalk
<1>7. q \in Seq(CdNames)
  <2>1. Len(p) \in 0..Len(p)
    BY <1>3, LenType
  <2> QED
    BY <1>4, <1>5, <2>1 DEF Rewrite
<1>8. PICK P : P = ents[B][1].first
  OBVIOUS
<1>9. House(ents, text, 0, B) /\ House(ents, text, 0, P) /\ DirLike(B) /\ DirLike(P)
  <2>1. House(ents, text, 0, B)
    BY <1>6, <1>7, LenType, WalkedHouse
  <2>2. \/ B = Root /\ P = Root
        \/ \E k \in Bodies : Branch(ents, text, 0, P, k)
    BY <1>2, <1>6, <1>7, <1>8, CdOwn
  <2>3. House(ents, text, 0, P)
    <3>1. CASE B = Root /\ P = Root
      BY <3>1 DEF House
    <3>2. ASSUME NEW k \in Bodies, Branch(ents, text, 0, P, k) PROVE House(ents, text, 0, P)
      BY <1>2, <3>2 DEF Branch, Named, Volumed, Housed
    <3> QED
      BY <2>2, <3>1, <3>2
  <2>4. B \in Block /\ text[B] = NoText
    BY <1>2, <2>1, HouseShape
  <2>5. P \in Block /\ text[P] = NoText
    BY <1>2, <2>3, HouseShape
  <2> QED
    BY <2>1, <2>3, <2>4, <2>5 DEF DirLike
<1>10. PICK off \in 0..DS : CdTo(P, q, off)
  <2>1. CdEnd(Resolve(cur.first, p), ents[Resolve(cur.first, p)][1].first, Rewrite(path, p),
              \A j \in 0..Len(p) : PathFits(Rewritten(path, p)[j]))
    BY DEF cd, CdEnd, CdTo, CdStops
  <2>2. CdEnd(B, P, q, \A j \in 0..Len(p) : PathFits(Rewritten(path, p)[j]))
    BY <1>5, <1>8, <2>1
  <2> QED
    BY <1>4, <1>9, <2>2 DEF CdEnd, MindHandle
<1>11. PICK c : c = [first |-> EntryAt(ents, At(P, off)).first, dirno |-> ents[P][0].first,
                     diroff |-> off]
  OBVIOUS
<1>12. /\ CdStops(ents, P, q[Len(q)], off)
       /\ IF DirLike(At(P, off).blk)
          THEN /\ \E x : slots' = [slots EXCEPT ![fp] = x] /\ x.attr = DIR
               /\ cur' = c /\ path' = q
               /\ UNCHANGED <<fat, ents, text, fp, edit, stack, scan, host, mode>>
          ELSE Wild
  <2>1. CdStops(ents, P, q[Len(q)], off)
    BY <1>10 DEF CdTo
  <2>2. CASE DirLike(At(P, off).blk)
    <3> DEFINE x == [name |-> EntryAt(ents, At(P, off)).name, attr |-> DIR,
                     first |-> EntryAt(ents, At(P, off)).first,
                     len |-> EntryAt(ents, At(P, off)).len, dirno |-> ents[P][0].first,
                     diroff |-> off]
    <3>1. /\ slots' = [slots EXCEPT ![fp] = x] /\ cur' = c /\ path' = q
          /\ UNCHANGED <<fat, ents, text, fp, edit, stack, scan, host, mode>>
      BY <1>10, <1>11, <2>2 DEF CdTo
    <3>2. x.attr = DIR
      OBVIOUS
    <3> QED
      BY <2>1, <2>2, <3>1, <3>2
  <2>3. CASE ~ DirLike(At(P, off).blk)
    BY <1>10, <2>1, <2>3 DEF CdTo
  <2> QED
    BY <2>2, <2>3
<1>13. /\ At(P, off) = [blk |-> P, idx |-> off]
       /\ Here(ents, text, 0, c) /\ c.first = B
  BY <1>2, <1>6, <1>7, <1>8, <1>11, <1>12, CdHere
<1>14. /\ \E x : slots' = [slots EXCEPT ![fp] = x] /\ x.attr = DIR
       /\ cur' = c /\ path' = q
       /\ UNCHANGED <<fat, ents, text, fp, edit, stack, scan, host, mode>>
  BY <1>9, <1>12, <1>13
<1>15. Held(ents, text, 0, slots')
  <2>1. PICK x : slots' = [slots EXCEPT ![fp] = x] /\ x.attr = DIR
    BY <1>14
  <2>2. Fits(ents, text, 0, x)
    BY <2>1 DEF Fits, DIR, FILE
  <2> QED
    BY <1>2, <1>3, <2>1, <2>2, SlotPut
<1>16. Settled(0, 0)'
  BY <1>2, <1>6, <1>13, <1>14, <1>15 DEF Settled
<1> QED
  BY <1>1, <1>14, <1>16, ShellStep

-----------------------------------------------------------------------------
(***************************************************************************)
(* write: the text goes to the last block L of the chain; what spills and  *)
(* what strays falls on blocks that are no directory's.                    *)
(***************************************************************************)
Stored(e, t, e2, t2, L) ==
    /\ \A b \in Block : b # L /\ t[b] = NoText => t2[b] = NoText
    /\ \A b \in Block : t2[b] = NoText => t[b] = NoText /\ b # L
    /\ \A b \in Block, k \in Bodies : AsBefore(e2[b][k], e[b][k])
    /\ \A b, k : House(e, t, 0, b) /\ k \in Index => e2[b][k] = e[b][k]

LEMMA StoredSame ==
  ASSUME NEW f, NEW e, NEW t, NEW e2, NEW t2, NEW L, Volumed(f, e, t, 0),
         Stored(e, t, e2, t2, L), ~ House(e, t, 0, L)
  PROVE  Same(e, t, e2, t2, 0) /\ More(e, t, 0, e2, t2, 0)
<1>1. \A b \in Block, k \in Bodies : /\ e2[b][k].name = e[b][k].name
                                     /\ e2[b][k].attr = e[b][k].attr
                                     /\ e2[b][k].first = e[b][k].first
  BY DEF Stored, AsBefore
<1>2. \A b \in Root..NB : b \in Block
  BY Layout
<1>3. \A b \in Root..NB, k \in Bodies : Named(e, t, 0, b, k) => House(e, t, 0, b)
  BY DEF Volumed, Housed
<1>4. \A b \in Root..NB, k \in Bodies : e2[b][k].name = e[b][k].name
  BY <1>1, <1>2
<1>5. ASSUME NEW b \in Root..NB, NEW k \in Bodies, Named(e, t, 0, b, k)
      PROVE  Named(e2, t2, 0, b, k)
  <2>1. b # L
    BY <1>3, <1>5
  <2>2. t2[b] = NoText
    BY <1>2, <1>5, <2>1 DEF Stored, Named
  <2> QED
    BY ONLY <1>4, <1>5, <2>2, b \in Root..NB, k \in Bodies DEF Named
<1>6. ASSUME NEW b \in Root..NB, NEW k \in Bodies, Named(e2, t2, 0, b, k)
      PROVE  Named(e, t, 0, b, k)
  <2>1. t[b] = NoText
    BY <1>2, <1>6 DEF Stored, Named
  <2> QED
    BY ONLY <1>4, <1>6, <2>1, b \in Root..NB, k \in Bodies DEF Named
<1>7. Same(e, t, e2, t2, 0)
  BY <1>1, <1>2, <1>5, <1>6 DEF Same, Fewer
<1>8. More(e, t, 0, e2, t2, 0)
  BY <1>7 DEF Same, Fewer, More, AsBefore
<1> QED
  BY <1>7, <1>8

LEMMA StoredVolume ==
  ASSUME NEW f, NEW e, NEW t, NEW e2, NEW t2, NEW L, Volumed(f, e, t, 0),
         Stored(e, t, e2, t2, L), ~ House(e, t, 0, L), f[L] # FREE
  PROVE  Volumed(f, e2, t2, 0)
<1>1. Same(e, t, e2, t2, 0)
  BY StoredSame
<1>2. Owned(f, e, t, 0) /\ Dots(f, e, t, 0) /\ Housed(e, t, 0)
  BY DEF Volumed
<1>3. /\ \A b \in Root..NB : b \in Block
      /\ \A b \in DataBlock : b \in Block
      /\ 0 \in Index /\ 1 \in Index
  BY Layout, Sizes
<1>4. SameDots(e, t, e2, t2, 0)
  <2> SUFFICES ASSUME NEW b, House(e2, t2, 0, b)
               PROVE  /\ t[b] = NoText => t2[b] = NoText
                      /\ \A k \in {0, 1} : e2[b][k] = e[b][k]
    BY DEF SameDots
  <2>1. House(e, t, 0, b)
    BY <1>1, SameBranch
  <2>2. b \in Block /\ b # L
    BY <2>1, HouseShape
  <2> QED
    BY <1>3, <2>1, <2>2 DEF Stored
<1>5. Owned(f, e2, t2, 0)
  BY <1>1, <1>2, FewerOwned DEF Same
<1>6. Dots(f, e2, t2, 0)
  BY <1>1, <1>2, <1>4, FewerDots DEF Same
<1>7. Housed(e2, t2, 0)
  BY <1>1, <1>2, SameHoused
<1>8. \A b \in Block, k \in Bodies : /\ e2[b][k].name = e[b][k].name
                                     /\ e2[b][k].attr = e[b][k].attr
  BY DEF Stored, AsBefore
<1>9. FreeIsBlank(f, e2, t2)
  <2> SUFFICES ASSUME NEW b \in DataBlock, f[b] = FREE
               PROVE  t2[b] = NoText /\ \A k \in Bodies : e2[b][k].name = ""
    BY DEF FreeIsBlank, Bodies
  <2>1. t[b] = NoText /\ \A k \in Bodies : e[b][k].name = ""
    BY DEF Volumed, FreeIsBlank, Bodies
  <2>2. t2[b] = NoText
    BY <1>3, <2>1 DEF Stored
  <2> QED
    BY <1>3, <1>8, <2>1, <2>2
<1>10. Unnamed(e2)
  BY <1>8 DEF Volumed, Unnamed
<1> QED
  BY <1>5, <1>6, <1>7, <1>9, <1>10 DEF Volumed

LEMMA StoredLengths ==
  ASSUME NEW f, NEW e, NEW t, NEW e2, NEW t2, NEW L, Volumed(f, e, t, 0),
         Stored(e, t, e2, t2, L), ~ House(e, t, 0, L), f[L] # FREE, Lengths(e, t, 0, 0)
  PROVE  Lengths(e2, t2, 0, 0)
<1>1. Same(e, t, e2, t2, 0) /\ Volumed(f, e2, t2, 0)
  BY StoredSame, StoredVolume
<1>2. Owned(f, e, t, 0) /\ Dots(f, e, t, 0) /\ Housed(e, t, 0) /\ Dots(f, e2, t2, 0)
  BY <1>1 DEF Volumed
<1>3. \A b, k : House(e, t, 0, b) /\ k \in Index => e2[b][k].len = e[b][k].len
  BY DEF Stored
<1>4. e2[Root][0].len = e[Root][0].len
  BY <1>3, Sizes DEF House
<1>5. \A b \in Root..NB, k \in Bodies :
             Branch(e, t, 0, b, k) => e2[b][k].len = e[b][k].len
  BY <1>2, <1>3, Layout DEF Branch, Housed
<1>6. Detached(e, t, 0)
  BY <1>2, NoneDetached
<1> QED
  BY <1>1, <1>2, <1>4, <1>5, <1>6, SameLengths

\* A full last block L gets the block i as its successor.
Linked(f, f2, L, i) ==
    /\ L \in DataBlock /\ i \in DataBlock /\ f[L] = END /\ f[i] = FREE
    /\ f2[L] = i /\ f2[i] = END
    /\ \A c \in 0..(NB - 1) : c # L /\ c # i => f2[c] = f[c]

LEMMA LinkedVolume ==
  ASSUME NEW f, NEW f2, NEW e, NEW t, NEW L, NEW i, Linked(f, f2, L, i),
         Volumed(f, e, t, 0), ~ House(e, t, 0, L)
  PROVE  Volumed(f2, e, t, 0)
<1>1. /\ L \in DataBlock /\ i \in DataBlock /\ f[L] = END /\ f[i] = FREE
      /\ f2[L] = i /\ f2[i] = END /\ L # i /\ FREE # END
  BY Sizes DEF Linked
<1>2. \A c \in DataBlock : c # L /\ c # i => f2[c] = f[c]
  BY Sizes DEF Linked, DataBlock
<1>3. i # FREE /\ i # END
  BY <1>1, Sizes DEF DataBlock
<1>4. \A c \in DataBlock : c \in Links(f2) <=> c \in Links(f) \/ c = L
  <2> SUFFICES ASSUME NEW c \in DataBlock PROVE IsLink(f2, c) <=> IsLink(f, c) \/ c = L
    BY DEF Links
  <2>1. CASE c = L
    BY <1>1, <1>3, <2>1 DEF IsLink
  <2>2. CASE c = i
    BY <1>1, <2>2 DEF IsLink
  <2>3. CASE c # L /\ c # i
    BY <1>2, <2>3 DEF IsLink
  <2> QED
    BY <2>1, <2>2, <2>3
<1>5. \A c \in Links(f) : c \in DataBlock /\ c # L /\ c # i /\ f2[c] = f[c]
  BY <1>1, <1>2 DEF Links, IsLink
<1>6. \A c \in Links(f2) : c = L \/ c \in Links(f)
  BY <1>4 DEF Links
<1>7. Owned(f, e, t, 0) /\ Dots(f, e, t, 0)
  BY DEF Volumed
<1>8. \A b \in DataBlock : f[b] # FREE => b # i /\ f2[b] # FREE
  BY <1>1, <1>2, <1>3
<1>9. Owned(f2, e, t, 0)
  <2>1. \A c \in Links(f2), d \in Links(f2) : f2[c] = f2[d] => c = d
    <3> SUFFICES ASSUME NEW c \in Links(f2), NEW d \in Links(f2), f2[c] = f2[d] PROVE c = d
      OBVIOUS
    <3>1. \A x \in Links(f) : f2[x] = f[x] /\ f[x] # i
      BY <1>1, <1>5, <1>7 DEF Owned
    <3> QED
      BY <1>1, <1>6, <1>7, <3>1 DEF Owned
  <2>2. ASSUME NEW b \in Root..NB, NEW k \in Bodies, NEW c \in Links(f2), Named(e, t, 0, b, k)
        PROVE  e[b][k].first # f2[c]
    <3>1. CASE c = L
      BY <1>1, <1>7, <2>2, <3>1 DEF Owned
    <3>2. CASE c \in Links(f)
      BY <1>5, <1>7, <2>2, <3>2 DEF Owned
    <3> QED
      BY <1>6, <3>1, <3>2
  <2>3. \A b \in Root..NB, k \in Bodies :
           Named(e, t, 0, b, k) => e[b][k].first \in DataBlock /\ f2[e[b][k].first] # FREE
    BY <1>7, <1>8 DEF Owned
  <2>4. \A c \in Links(f2) : f2[c] \in DataBlock /\ f2[f2[c]] # FREE
    <3> SUFFICES ASSUME NEW c \in Links(f2) PROVE f2[c] \in DataBlock /\ f2[f2[c]] # FREE
      OBVIOUS
    <3>1. CASE c = L
      BY <1>1, <3>1
    <3>2. CASE c \in Links(f)
      BY <1>5, <1>7, <1>8, <3>2 DEF Owned
    <3> QED
      BY <1>6, <3>1, <3>2
  <2>5. \A b, c \in Root..NB, k, l \in Bodies :
          Named(e, t, 0, b, k) /\ Named(e, t, 0, c, l) /\ e[b][k].first = e[c][l].first
              => b = c /\ k = l
    BY <1>7 DEF Owned
  <2> QED
    BY <2>1, <2>2, <2>3, <2>4, <2>5 DEF Owned
<1>10. Reserved(f2)
  <2>1. \A c \in 0..Root : c \in 0..(NB - 1) /\ c # L /\ c # i
    BY <1>1, Sizes DEF DataBlock
  <2>2. \A c \in 0..Root : f2[c] = f[c]
    BY <2>1 DEF Linked
  <2> QED
    BY <2>2, Sizes DEF Volumed, Reserved
<1>11. FreeIsBlank(f2, e, t)
  <2>1. \A b \in DataBlock : f2[b] = FREE => f[b] = FREE
    BY <1>1, <1>2, <1>3
  <2> QED
    BY <2>1 DEF Volumed, FreeIsBlank
<1>12. Dots(f2, e, t, 0)
  <2>1. ASSUME NEW b \in Root..NB, NEW k \in Bodies, Branch(e, t, 0, b, k)
        PROVE  f2[e[b][k].first] = END
    <3>1. House(e, t, 0, e[b][k].first)
      BY <2>1 DEF House
    <3>2. e[b][k].first # L /\ e[b][k].first \in DataBlock /\ f[e[b][k].first] = END
      BY <1>7, <2>1, <3>1 DEF Owned, Dots, Branch
    <3> QED
      BY <1>1, <1>2, <3>2
  <2> QED
    BY <1>7, <2>1 DEF Dots
<1> QED
  BY <1>9, <1>10, <1>11, <1>12 DEF Volumed

\* Stores that fall on blocks no directory has, or leave names and blocks as they are.
Unused(f, b) == b >= NB \/ f[b] = FREE
Aside(f, e, e2) ==
    \A b \in Block, k \in Index : /\ k \in Bodies => AsBefore(e2[b][k], e[b][k])
                                  /\ Unused(f, b) \/ e2[b][k] = e[b][k]

LEMMA AsideSelf == ASSUME NEW f, NEW e PROVE Aside(f, e, e)
  BY DEF Aside, AsBefore

LEMMA AsideTwice ==
  ASSUME NEW f, NEW e, NEW e1, NEW e2, Aside(f, e, e1), Aside(f, e1, e2)
  PROVE  Aside(f, e, e2)
<1> SUFFICES ASSUME NEW b \in Block, NEW k \in Index
             PROVE  /\ k \in Bodies => AsBefore(e2[b][k], e[b][k])
                    /\ Unused(f, b) \/ e2[b][k] = e[b][k]
  BY DEF Aside
<1>1. k \in Bodies => AsBefore(e2[b][k], e[b][k])
  BY DEF Aside, AsBefore
<1>2. Unused(f, b) \/ e2[b][k] = e[b][k]
  BY DEF Aside
<1> QED
  BY <1>1, <1>2

LEMMA SpilledAside ==
  ASSUME NEW f, NEW e \in Ents, NEW t, NEW b \in Block, NEW s, Unused(f, b)
  PROVE  Aside(f, e, Spilled(e, t, b, s))
<1>1. CASE t[b] # NoText
  BY <1>1, AsideSelf DEF Spilled
<1>2. CASE t[b] = NoText
  <2>1. PICK x : x = [e EXCEPT ![b][0].name = s]
    OBVIOUS
  <2>2. \A c \in Block, j \in Index : c # b \/ j # 0 => x[c][j] = e[c][j]
    BY <2>1, StoreNameAt, Sizes
  <2>3. ASSUME NEW c \in Block, NEW j \in Index
        PROVE  /\ j \in Bodies => AsBefore(x[c][j], e[c][j])
               /\ Unused(f, c) \/ x[c][j] = e[c][j]
    <3>1. CASE c # b \/ j # 0
      BY <2>2, <3>1 DEF AsBefore
    <3>2. CASE c = b /\ j = 0
      BY <3>2 DEF Bodies
    <3> QED
      BY <3>1, <3>2
  <2>4. Aside(f, e, x)
    BY <2>3 DEF Aside
  <2> QED
    BY <1>2, <2>1, <2>4 DEF Spilled
<1> QED
  BY <1>1, <1>2

LEMMA StrayAside ==
  ASSUME NEW f, NEW e \in Ents, NEW t, NEW i, Unused(f, StrayBlock)
  PROVE  Aside(f, e, StrayEnts(e, t, i))
<1> DEFINE at == [blk |-> StrayBlock, idx |-> DS - 1]
           l == HalfWord * i + (e[StrayBlock][DS - 1].len % HalfWord)
<1>1. at \in Pointers
  BY Sizes DEF Pointers
<1>2. StrayEnts(e, t, i) = IF t[StrayBlock] = NoText THEN PutLen(e, at, l) ELSE e
  BY DEF StrayEnts, PutLen
<1>3. at.blk = StrayBlock
  OBVIOUS
<1> HIDE DEF at, l
<1>4. Aside(f, e, PutLen(e, at, l))
  <2>1. PICK x : x = PutLen(e, at, l)
    OBVIOUS
  <2>2. \A b \in Block, k \in Index :
           /\ AsBefore(x[b][k], e[b][k])
           /\ b # StrayBlock \/ k # at.idx => x[b][k] = e[b][k]
    BY <1>1, <1>3, <2>1, PutLenAt
  <2>3. Aside(f, e, x)
    BY <2>2 DEF Aside
  <2> QED
    BY <2>1, <2>3
<1> QED
  BY <1>2, <1>4, AsideSelf

\* Texts that fill the same blocks.
Covers(t, t2) == \A b \in Block : (t2[b] = NoText => t[b] = NoText)
                                  /\ (t[b] = NoText => t2[b] = NoText)

LEMMA JunkIsText == Junk # NoText
  BY DEF Junk, NoText

LEMMA SpilledCovers ==
  ASSUME NEW t \in Texts, NEW b PROVE Covers(t, SpilledText(t, b))
<1>1. CASE t[b] = NoText
  BY <1>1 DEF SpilledText, Covers
<1>2. CASE t[b] # NoText
  <2>1. PICK x : x = [t EXCEPT ![b] = Junk]
    OBVIOUS
  <2>2. \A c \in Block : (c # b => x[c] = t[c]) /\ (c = b => x[c] = Junk)
    BY ONLY <2>1, t \in Texts DEF Texts
  <2>3. Covers(t, x)
    BY <1>2, <2>2, JunkIsText DEF Covers
  <2> QED
    BY <1>2, <2>1, <2>3 DEF SpilledText
<1> QED
  BY <1>1, <1>2

LEMMA StrayCovers ==
  ASSUME NEW t \in Texts PROVE Covers(t, StrayText(t))
<1>1. CASE t[StrayBlock].n # BlockSize
  BY <1>1 DEF StrayText, Covers
<1>2. CASE t[StrayBlock].n = BlockSize
  <2>1. t[StrayBlock] # NoText
    BY <1>2, ShellFacts DEF NoText
  <2>2. PICK x : x = [t EXCEPT ![StrayBlock] = Junk]
    OBVIOUS
  <2>3. \A c \in Block : (c # StrayBlock => x[c] = t[c]) /\ (c = StrayBlock => x[c] = Junk)
    BY ONLY <2>2, t \in Texts DEF Texts
  <2>4. Covers(t, x)
    BY <2>1, <2>3, JunkIsText DEF Covers
  <2> QED
    BY <1>2, <2>2, <2>4 DEF StrayText
<1> QED
  BY <1>1, <1>2

LEMMA CoversTwice ==
  ASSUME NEW t, NEW t1, NEW t2, Covers(t, t1), Covers(t1, t2) PROVE Covers(t, t2)
  BY DEF Covers

LEMMA HouseUsed ==
  ASSUME NEW f, NEW e, NEW t, Volumed(f, e, t, 0), NEW b, House(e, t, 0, b)
  PROVE  ~ Unused(f, b)
<1>1. f[b] # FREE /\ (b = Root \/ b \in DataBlock)
  BY HouseShape
<1>2. b < NB /\ b \in Nat
  BY <1>1, Sizes DEF DataBlock
<1> QED
  BY <1>1, <1>2, Sizes DEF Unused

LEMMA AsideStored ==
  ASSUME NEW f, NEW e, NEW t \in Texts, NEW e2, NEW t2, NEW L \in DataBlock, NEW x,
         Volumed(f, e, t, 0), Aside(f, e, e2), x # NoText, Covers([t EXCEPT ![L] = x], t2)
  PROVE  Stored(e, t, e2, t2, L)
<1>1. PICK t1 : t1 = [t EXCEPT ![L] = x]
  OBVIOUS
<1>2. L \in Block
  BY Layout
<1>3. \A c \in Block : (c # L => t1[c] = t[c]) /\ (c = L => t1[c] = x)
  BY ONLY <1>1, t \in Texts DEF Texts
<1>4. Covers(t1, t2)
  BY <1>1
<1>5. \A b \in Block : b # L /\ t[b] = NoText => t2[b] = NoText
  BY <1>3, <1>4 DEF Covers
<1>6. \A b \in Block : t2[b] = NoText => t[b] = NoText /\ b # L
  BY <1>3, <1>4 DEF Covers
<1>7. \A b \in Block, k \in Bodies : AsBefore(e2[b][k], e[b][k])
  BY Layout DEF Aside
<1>8. ASSUME NEW b, NEW k, House(e, t, 0, b), k \in Index PROVE e2[b][k] = e[b][k]
  <2>1. b \in Block /\ ~ Unused(f, b)
    BY <1>8, HouseShape, HouseUsed
  <2> QED
    BY <1>8, <2>1 DEF Aside
<1> QED
  BY <1>5, <1>6, <1>7, <1>8 DEF Stored

-----------------------------------------------------------------------------
(***************************************************************************)
(* dowrite(), whose last block is L: what it leaves when fatError is not   *)
(* reported.                                                               *)
(***************************************************************************)
Beside(e, t, L, spill) == IF spill = "no" THEN e ELSE Spilled(e, t, L + 1, spill)
BesideText(t, L, spill) == IF spill = "no" THEN t ELSE SpilledText(t, L + 1)
FullEnd(e, t, L, first, i) ==
    IF L = first
    THEN /\ fat' = SetBoth(SetBoth(fat, L, i), i, END)
         /\ ents' = RootName(RootName(e, L, LinkName(i)), i, JunkName)
         /\ text' = t
    ELSE /\ fat' = SetBoth([fat EXCEPT ![L] = i], i, END)
         /\ ents' = RootName(StrayEnts(e, t, i), i, JunkName)
         /\ text' = StrayText(t)
WriteEnd(e, t, n, L, first) ==
    \/ n < BlockSize /\ ents' = e /\ text' = t /\ UNCHANGED fat
    \/ /\ n = BlockSize
       /\ \E i \in 0..NB : /\ StopsAt(NB, LAMBDA j : fat[j] = FREE, i)
                           /\ FullEnd(e, t, L, first, i)

LEMMA dowriteForm ==
  ASSUME NEW e, NEW n, NEW spill, NEW fatError, dowrite(e, n, spill, fatError)
  PROVE  \E last \in Chain(fat, slots[fp].first) :
            /\ ~ IsLink(fat, last) /\ (fatError => fat[last] = FREE)
            /\ \/ fatError
               \/ WriteEnd(Beside(e, Filled(last, n), last, spill),
                           BesideText(Filled(last, n), last, spill), n, last,
                           slots[fp].first)
<1> DEFINE first == slots[fp].first
<1>1. PICK last \in Chain(fat, first) :
        LET t == Filled(last, n)
            filledE == IF spill = "no" THEN e ELSE Spilled(e, t, last + 1, spill)
            filledT == IF spill = "no" THEN t ELSE SpilledText(t, last + 1)
        IN  /\ ~ IsLink(fat, last)
            /\ fatError <=> fat[last] = FREE
            /\ \/ /\ fatError
                  /\ ents' = e /\ UNCHANGED <<fat, text>>
               \/ /\ ~ fatError /\ n < BlockSize
                  /\ ents' = filledE /\ text' = filledT /\ UNCHANGED fat
               \/ /\ ~ fatError /\ n = BlockSize
                  /\ \E i \in 0..NB :
                        /\ StopsAt(NB, LAMBDA j : fat[j] = FREE, i)
                        /\ IF last = first
                           THEN /\ fat' = SetBoth(SetBoth(fat, last, i), i, END)
                                /\ ents' = RootName(RootName(filledE, last, LinkName(i)),
                                                    i, JunkName)
                                /\ text' = filledT
                           ELSE /\ fat' = SetBoth([fat EXCEPT ![last] = i], i, END)
                                /\ ents' = RootName(StrayEnts(filledE, filledT, i),
                                                    i, JunkName)
                                /\ text' = StrayText(filledT)
  BY DEF dowrite
<1> DEFINE e1 == IF spill = "no" THEN e ELSE Spilled(e, Filled(last, n), last + 1, spill)
           t1 == IF spill = "no" THEN Filled(last, n) ELSE SpilledText(Filled(last, n), last + 1)
<1>2. e1 = Beside(e, Filled(last, n), last, spill)
      /\ t1 = BesideText(Filled(last, n), last, spill)
  BY DEF Beside, BesideText
<1>3. fatError \/ WriteEnd(e1, t1, n, last, first)
  BY <1>1, Zenon DEF WriteEnd, FullEnd
<1> QED
  BY <1>1, <1>2, <1>3

LEMMA SetBothLinks ==
  ASSUME NEW f \in Fats, NEW L \in DataBlock, NEW i \in DataBlock, f[L] = END, f[i] = FREE,
         NEW f2, \/ f2 = SetBoth(SetBoth(f, L, i), i, END)
                 \/ f2 = SetBoth([f EXCEPT ![L] = i], i, END)
  PROVE  Linked(f, f2, L, i)
<1>1. /\ L # i /\ L # NB /\ i # NB /\ L \in Table /\ i \in Table /\ NB + L \in Table
      /\ NB + i \in Table /\ NB + L # L /\ NB + L # i /\ NB + i # i /\ NB + i # L
      /\ \A c \in 0..(NB - 1) : c \in Table /\ c # NB + L /\ c # NB + i
  BY Sizes DEF DataBlock, Table
<1>2. SetBoth(f, L, i) = [f EXCEPT ![L] = i, ![NB + L] = i]
  BY <1>1 DEF SetBoth
<1>3. \A g : SetBoth(g, i, END) = [g EXCEPT ![i] = END, ![NB + i] = END]
  BY <1>1 DEF SetBoth
<1>4. PICK g \in [Table -> Link \cup DataBlock] :
         /\ g = SetBoth(f, L, i) \/ g = [f EXCEPT ![L] = i]
         /\ f2 = [g EXCEPT ![i] = END, ![NB + i] = END]
  <2>1. f \in [Table -> Link \cup DataBlock] /\ i \in Link \cup DataBlock
    BY DEF Fats
  <2>2. [f EXCEPT ![L] = i] \in [Table -> Link \cup DataBlock]
    BY <2>1
  <2>3. SetBoth(f, L, i) \in [Table -> Link \cup DataBlock]
    BY <1>2, <2>1
  <2>4. CASE f2 = SetBoth(SetBoth(f, L, i), i, END)
    BY <1>3, <2>3, <2>4, Zenon
  <2>5. CASE f2 = SetBoth([f EXCEPT ![L] = i], i, END)
    BY <1>3, <2>2, <2>5, Zenon
  <2> QED
    BY <2>4, <2>5
<1>5. g[L] = i /\ \A c \in 0..(NB - 1) : c # L => g[c] = f[c]
  BY <1>1, <1>2, <1>4 DEF Fats
<1>6. f2[L] = i /\ f2[i] = END /\ \A c \in 0..(NB - 1) : c # L /\ c # i => f2[c] = f[c]
  BY <1>1, <1>4, <1>5
<1> QED
  BY <1>6 DEF Linked

CanSpill(spill) == spill \in {"no", "", JunkName}

\* The blocks written to are not in the way of any entry.
WriteRoom(L, n, spill, first) ==
    /\ spill = "no" \/ Unused(fat, L + 1)
    /\ n = BlockSize => RoomInTable /\ (L # first => Unused(fat, StrayBlock))

LEMMA NextBlock == ASSUME NEW L \in DataBlock PROVE L + 1 \in Block /\ L + 1 \in Int
  BY Layout, Sizes DEF DataBlock

LEMMA BesideAside ==
  ASSUME NEW e \in Ents, NEW t \in Texts, NEW L \in DataBlock,
         NEW spill, CanSpill(spill), spill = "no" \/ Unused(fat, L + 1)
  PROVE  /\ Beside(e, t, L, spill) \in Ents /\ BesideText(t, L, spill) \in Texts
         /\ Aside(fat, e, Beside(e, t, L, spill)) /\ Covers(t, BesideText(t, L, spill))
<1>1. L + 1 \in Block /\ L + 1 \in Int
  BY NextBlock
<1>2. CASE spill = "no"
  <2>1. Beside(e, t, L, spill) = e /\ BesideText(t, L, spill) = t
    BY <1>2 DEF Beside, BesideText
  <2>2. Covers(t, t)
    BY DEF Covers
  <2> QED
    BY <2>1, <2>2, AsideSelf
<1>3. CASE spill # "no"
  <2>1. /\ Beside(e, t, L, spill) = Spilled(e, t, L + 1, spill)
        /\ BesideText(t, L, spill) = SpilledText(t, L + 1)
    BY <1>3 DEF Beside, BesideText
  <2>2. spill \in NameText
    BY <1>3 DEF CanSpill, NameText
  <2>3. Spilled(e, t, L + 1, spill) \in Ents /\ SpilledText(t, L + 1) \in Texts
    BY <1>1, <2>2, SpillType
  <2>4. Aside(fat, e, Spilled(e, t, L + 1, spill))
    BY <1>1, <1>3, SpilledAside
  <2>5. Covers(t, SpilledText(t, L + 1))
    BY SpilledCovers
  <2> QED
    BY <2>1, <2>3, <2>4, <2>5
<1> QED
  BY <1>2, <1>3

LEMMA WriteEndStored ==
  ASSUME fat \in Fats, Reserved(fat), NEW e \in Ents, NEW t \in Texts,
         NEW L \in DataBlock, fat[L] = END,
         NEW n, NEW first, WriteEnd(e, t, n, L, first),
         n = BlockSize => RoomInTable /\ (L # first => Unused(fat, StrayBlock))
  PROVE  /\ Aside(fat, e, ents') /\ Covers(t, text')
         /\ fat' = fat \/ \E i : Linked(fat, fat', L, i)
<1>0. Covers(t, t)
  BY DEF Covers
<1>1. CASE n < BlockSize /\ ents' = e /\ text' = t /\ UNCHANGED fat
  BY <1>0, <1>1, AsideSelf
<1>2. CASE /\ n = BlockSize
           /\ \E i \in 0..NB : /\ StopsAt(NB, LAMBDA j : fat[j] = FREE, i)
                               /\ FullEnd(e, t, L, first, i)
  <2>1. PICK i \in 0..NB : /\ i < NB => fat[i] = FREE
                           /\ \A j \in 0..(NB - 1) : j < i => fat[j] # FREE
                           /\ FullEnd(e, t, L, first, i)
    BY <1>2 DEF StopsAt
  <2>2. i \in DataBlock /\ fat[i] = FREE
    BY <1>2, <2>1, FirstFree DEF RoomInTable
  <2>3. \A x, nm : RootName(x, i, nm) = x /\ RootName(x, L, nm) = x
    BY <2>2, Layout DEF RootName
  <2>4. CASE L = first
    <3>1. ents' = e /\ text' = t /\ fat' = SetBoth(SetBoth(fat, L, i), i, END)
      BY <2>1, <2>3, <2>4 DEF FullEnd
    <3>2. Linked(fat, fat', L, i)
      BY <2>2, <3>1, SetBothLinks
    <3> QED
      BY <1>0, <3>1, <3>2, AsideSelf
  <2>5. CASE L # first
    <3>1. /\ ents' = StrayEnts(e, t, i) /\ text' = StrayText(t)
          /\ fat' = SetBoth([fat EXCEPT ![L] = i], i, END)
      BY <2>1, <2>3, <2>5 DEF FullEnd
    <3>2. Linked(fat, fat', L, i)
      BY <2>2, <3>1, SetBothLinks
    <3>3. Aside(fat, e, StrayEnts(e, t, i))
      BY <1>2, <2>5, StrayAside
    <3>4. Covers(t, StrayText(t))
      BY StrayCovers
    <3> QED
      BY <3>1, <3>2, <3>3, <3>4
  <2> QED
    BY <2>4, <2>5
<1> QED
  BY <1>1, <1>2 DEF WriteEnd

LEMMA StoreDone ==
  ASSUME NEW f, NEW e, NEW t, NEW e2, NEW t2, NEW f2, NEW L, Volumed(f, e, t, 0),
         Lengths(e, t, 0, 0), Stored(e, t, e2, t2, L), ~ House(e, t, 0, L), f[L] # FREE,
         f2 = f \/ \E i : Linked(f, f2, L, i)
  PROVE  Volumed(f2, e2, t2, 0) /\ Lengths(e2, t2, 0, 0) /\ More(e, t, 0, e2, t2, 0)
<1>1. Same(e, t, e2, t2, 0) /\ More(e, t, 0, e2, t2, 0)
  BY StoredSame
<1>2. Volumed(f, e2, t2, 0)
  BY StoredVolume
<1>3. Lengths(e2, t2, 0, 0)
  BY StoredLengths
<1>4. ~ House(e2, t2, 0, L)
  BY <1>1, SameBranch
<1>5. Volumed(f2, e2, t2, 0)
  BY <1>2, <1>4, LinkedVolume
<1> QED
  BY <1>1, <1>3, <1>5

LEMMA TypedIsText ==
  ASSUME NEW id \in TextIds, NEW c, NEW n PROVE [id |-> id, chunk |-> c, n |-> n] # NoText
<1>1. [id |-> id, chunk |-> c, n |-> n].id # "none"
  BY ShellAssumption
<1> QED
  BY <1>1 DEF NoText

\* All of dowrite(), for the file whose entry is (B, K).
LEMMA dowriteKeeps ==
  ASSUME TypeInv, mode = "edit", NEW e \in Ents, NEW B, NEW K,
         Volumed(fat, e, text, 0), Lengths(e, text, 0, 0), Named(e, text, 0, B, K),
         e[B][K].attr = FILE, e[B][K].first = slots[fp].first,
         NEW n \in 0..BlockSize, NEW spill, CanSpill(spill), NEW fatError,
         \A last \in Chain(fat, slots[fp].first) : ~ IsLink(fat, last) =>
             WriteRoom(last, n, spill, slots[fp].first),
         dowrite(e, n, spill, fatError)
  PROVE  /\ ~ fatError /\ Volumed(fat', ents', text', 0) /\ Lengths(ents', text', 0, 0)
         /\ More(e, text, 0, ents', text', 0)
<1> DEFINE first == slots[fp].first
<1>1. fat \in Fats /\ text \in Texts /\ edit.id \in TextIds /\ edit.full \in 0..MaxFlush
  <2>1. fat \in Fats /\ text \in Texts
    BY CarefulTypes DEF Texts
  <2>2. edit.id \in TextIds
    BY DEF TypeInv, Editing
  <2>3. edit \in Edits
    BY TypeParts DEF TypeInv, RestTyped
  <2>4. edit.full \in 0..MaxFlush
    BY <2>3 DEF Edits
  <2> QED
    BY <2>1, <2>2, <2>4
<1>2. PICK last \in Chain(fat, first) :
            /\ ~ IsLink(fat, last) /\ (fatError => fat[last] = FREE)
            /\ \/ fatError
               \/ WriteEnd(Beside(e, Filled(last, n), last, spill),
                           BesideText(Filled(last, n), last, spill), n, last, first)
  BY dowriteForm
<1>3. last \in DataBlock /\ fat[last] = END /\ ~ House(e, text, 0, last)
  <2>1. PICK S : S = Chain(fat, e[B][K].first)
    OBVIOUS
  <2>2. last \in S
    BY <1>2, <2>1
  <2>3. S \subseteq DataBlock /\ \A x \in S : ~ IsLink(fat, x) => fat[x] = END
    BY <1>1, <2>1, FileChain
  <2>4. Spared(e, text, S)
    BY <1>1, <2>1, FileChain
  <2> QED
    BY <1>2, <2>2, <2>3, <2>4 DEF Spared
<1>4. ~ fatError /\ FREE # END
  BY <1>2, <1>3, Sizes
<1>5. WriteRoom(last, n, spill, first)
  BY <1>2
<1>6. PICK x, t : /\ x = [id |-> edit.id, chunk |-> edit.full, n |-> n]
                  /\ t = Filled(last, n) /\ t = [text EXCEPT ![last] = x]
  BY DEF Filled
<1>7. x # NoText /\ t \in Texts
  <2>1. x \in Text
    BY <1>1, <1>6 DEF Text
  <2>3. x # NoText
    BY <1>1, <1>6, TypedIsText
  <2>4. t \in Texts
    BY <1>1, <1>6, <2>1 DEF Texts
  <2> QED
    BY <2>3, <2>4
<1>8. PICK e1, t1 : e1 = Beside(e, t, last, spill) /\ t1 = BesideText(t, last, spill)
  OBVIOUS
<1>9. e1 \in Ents /\ t1 \in Texts /\ Aside(fat, e, e1) /\ Covers(t, t1)
  <2>1. spill = "no" \/ Unused(fat, last + 1)
    BY <1>5 DEF WriteRoom
  <2> QED
    BY <1>3, <1>7, <1>8, <2>1, BesideAside
<1>10. /\ Aside(fat, e1, ents') /\ Covers(t1, text')
       /\ fat' = fat \/ \E i : Linked(fat, fat', last, i)
  <2>1. WriteEnd(e1, t1, n, last, first)
    BY <1>2, <1>4, <1>6, <1>8
  <2>2. n = BlockSize => RoomInTable /\ (last # first => Unused(fat, StrayBlock))
    BY <1>5 DEF WriteRoom
  <2>3. Reserved(fat)
    BY DEF Volumed
  <2> QED
    BY <1>1, <1>3, <1>9, <2>1, <2>2, <2>3, WriteEndStored
<1>11. Aside(fat, e, ents')
  BY <1>9, <1>10, AsideTwice
<1>12. Covers([text EXCEPT ![last] = x], text')
  BY <1>6, <1>9, <1>10, CoversTwice
<1>13. Stored(e, text, ents', text', last)
  BY <1>1, <1>3, <1>7, <1>11, <1>12, AsideStored
<1> QED
  BY <1>3, <1>4, <1>10, <1>13, StoreDone

-----------------------------------------------------------------------------
(***************************************************************************)
(* The edit mode: the file it writes to, and what the user minds.          *)
(***************************************************************************)
Edited(e, t, B, K) ==
    /\ Named(e, t, 0, B, K) /\ e[B][K].attr = FILE /\ e[B][K].first = slots[fp].first

LEMMA EditFile ==
  ASSUME TypeInv, CarefulInv, mode = "edit"
  PROVE  /\ Edited(ents, text, slots[fp].dirno, slots[fp].diroff)
         /\ fp \in 0..(MaxOpen - 1) /\ fp # -1
<1>1. fp # -1 /\ slots[fp].attr = FILE /\ Held(ents, text, 0, slots)
  BY ShellParts DEF CarefulInv
<1>2. fp \in 0..(MaxOpen - 1)
  BY <1>1, CarefulTypes, ShellFacts
<1>3. Fits(ents, text, 0, slots[fp])
  BY <1>1, <1>2 DEF Held
<1> QED
  BY <1>1, <1>2, <1>3 DEF Fits, Edited

LEMMA EditChain ==
  ASSUME TypeInv, CarefulInv, mode = "edit", NEW S, S = Chain(fat, slots[fp].first)
  PROVE  slots[fp].first \in S /\ S \subseteq DataBlock /\ Edited(ents, text, slots[fp].dirno, slots[fp].diroff)
<1>1. PICK B, K : Edited(ents, text, B, K) /\ B = slots[fp].dirno /\ K = slots[fp].diroff
  BY EditFile
<1>2. fat \in Fats /\ Volumed(fat, ents, text, 0)
  BY ShellParts
<1>3. S = Chain(fat, ents[B][K].first) /\ ents[B][K].first = slots[fp].first
  BY <1>1 DEF Edited
<1>4. ents[B][K].first \in S /\ S \subseteq DataBlock
  BY <1>1, <1>2, <1>3, FileChain DEF Edited
<1> QED
  BY <1>1, <1>3, <1>4

LEMMA EditWritable ==
  ASSUME TypeInv, CarefulInv, mode = "edit", NEW spill PROVE Writable(spill)
<1>1. PICK S : S = Chain(fat, slots[fp].first)
  OBVIOUS
<1>2. S \subseteq DataBlock
  BY <1>1, EditChain
<1>3. S \subseteq Block /\ 0 \notin S
  BY <1>2, Layout
<1> QED
  BY <1>1, <1>3 DEF Writable

LEMMA TwoBlocks ==
  ASSUME NEW S, S \subseteq DataBlock, NEW x \in S, NEW y \in S, x # y
  PROVE  Cardinality(S) > 1
<1>1. IsFiniteSet(DataBlock)
  BY FS_Interval, Sizes DEF DataBlock
<1>2. IsFiniteSet(S) /\ Cardinality(S) \in Nat
  BY <1>1, FS_Subset, FS_CardinalityType
<1>3. IsFiniteSet({x}) /\ Cardinality({x}) = 1
  BY FS_Singleton
<1>4. IsFiniteSet({x} \cup {y}) /\ Cardinality({x} \cup {y}) = 2
  <2>1. PICK T : T = {x}
    OBVIOUS
  <2>2. IsFiniteSet(T) /\ Cardinality(T) = 1 /\ y \notin T
    BY <1>3, <2>1
  <2>3. IsFiniteSet(T \cup {y}) /\ Cardinality(T \cup {y}) = Cardinality(T) + 1
    BY <2>2, FS_AddElement
  <2> QED
    BY <2>1, <2>2, <2>3
<1>5. {x} \cup {y} \in SUBSET S
  OBVIOUS
<1>6. Cardinality({x} \cup {y}) <= Cardinality(S)
  BY <1>2, <1>5, FS_Subset
<1> QED
  BY <1>2, <1>4, <1>6

LEMMA MindSpillRoom ==
  ASSUME TypeInv, CarefulInv, mode = "edit", NEW full, MindSpill(full), NEW n, NEW spill,
         n = BlockSize => full
  PROVE  \A last \in Chain(fat, slots[fp].first) : ~ IsLink(fat, last) =>
             WriteRoom(last, n, spill, slots[fp].first)
<1>1. PICK S : S = Chain(fat, slots[fp].first)
  OBVIOUS
<1>2. slots[fp].first \in S /\ S \subseteq DataBlock
  BY <1>1, EditChain
<1>3. /\ \A last \in S : ~ IsLink(fat, last) => Unused(fat, last + 1)
      /\ full => RoomInTable /\ (Cardinality(S) > 1 => Unused(fat, StrayBlock))
  BY <1>1 DEF MindSpill, Unused
<1>4. ASSUME NEW last \in S, ~ IsLink(fat, last)
      PROVE  WriteRoom(last, n, spill, slots[fp].first)
  <2>1. last # slots[fp].first => Cardinality(S) > 1
    BY <1>2, TwoBlocks
  <2> QED
    BY <1>3, <1>4, <2>1 DEF WriteRoom
<1> QED
  BY <1>1, <1>4

LEMMA EditStep ==
  ASSUME TypeInv, CarefulInv, mode = "edit",
         Volumed(fat', ents', text', 0), Lengths(ents', text', 0, 0),
         More(ents, text, 0, ents', text', 0), NEW l, slots' = [slots EXCEPT ![fp].len = l],
         mode' \in {"edit", "shell"}, UNCHANGED <<fp, cur, path, stack, scan, host>>
  PROVE  CarefulInv'
<1>1. /\ Here(ents, text, 0, cur) /\ Walked(ents, text, 0, path, cur.first)
      /\ Held(ents, text, 0, slots)
  BY ShellParts
<1>2. fp \in 0..(MaxOpen - 1) /\ slots \in Slots /\ slots[fp].attr = FILE /\ fp # -1
  BY EditFile, CarefulTypes DEF CarefulInv
<1>3. /\ Here(ents', text', 0, cur) /\ Walked(ents', text', 0, path, cur.first)
      /\ Held(ents', text', 0, slots)
  BY <1>1, MoreKeeps
<1>4. Held(ents', text', 0, slots') /\ slots'[fp].attr = FILE
  <2>1. PICK e, t : e = ents' /\ t = text'
    OBVIOUS
  <2>2. Held(e, t, 0, slots)
    BY <1>3, <2>1
  <2>3. /\ Held(e, t, 0, [slots EXCEPT ![fp].len = l])
        /\ [slots EXCEPT ![fp].len = l][fp].attr = slots[fp].attr
    BY ONLY <1>2, <2>2, SlotPutLen
  <2> QED
    BY <1>2, <2>1, <2>3
<1>5. Settled(0, 0)'
  BY <1>3, <1>4 DEF Settled
<1> QED
  BY <1>2, <1>4, <1>5 DEF CarefulInv

LEMMA writeFlushKeeps ==
  ASSUME TypeInv, CarefulInv, mode = "edit", MindSpill(TRUE), writeFlush
  PROVE  CarefulInv'
<1>1. PICK spill \in Spills(BlockSize), fatError \in BOOLEAN :
          /\ dowrite(ents, BlockSize, spill, fatError)
          /\ IF fatError
             THEN mode' = "shell" /\ edit' = NoEdit /\ UNCHANGED slots
             ELSE /\ slots' = [slots EXCEPT ![fp].len = (@ + BlockSize) % LengthMod]
                  /\ edit' = [edit EXCEPT !.full = @ + 1] /\ UNCHANGED mode
          /\ UNCHANGED <<fp, cur, path, stack, scan, host>>
  BY EditWritable DEF writeFlush
<1>2. CanSpill(spill)
  BY DEF Spills, CanSpill
<1>3. PICK B, K : Edited(ents, text, B, K)
  BY EditFile
<1>4. /\ ents \in Ents /\ Volumed(fat, ents, text, 0) /\ Lengths(ents, text, 0, 0)
  BY ShellParts
<1>5. \A last \in Chain(fat, slots[fp].first) : ~ IsLink(fat, last) =>
             WriteRoom(last, BlockSize, spill, slots[fp].first)
  BY MindSpillRoom
<1>6. BlockSize \in 0..BlockSize
  BY ShellFacts
<1>7. /\ ~ fatError /\ Volumed(fat', ents', text', 0) /\ Lengths(ents', text', 0, 0)
      /\ More(ents, text, 0, ents', text', 0)
  BY <1>1, <1>2, <1>3, <1>4, <1>5, <1>6, dowriteKeeps DEF Edited
<1>8. /\ \E l : slots' = [slots EXCEPT ![fp].len = l]
      /\ mode' \in {"edit", "shell"} /\ UNCHANGED <<fp, cur, path, stack, scan, host>>
  <2>1. slots' = [slots EXCEPT ![fp].len = (slots[fp].len + BlockSize) % LengthMod]
    BY <1>1, <1>7
  <2> QED
    BY <1>1, <1>7, <2>1
<1> QED
  BY <1>7, <1>8, EditStep

\* 'q' stores the file's length in its entry first.
LEMMA LengthStored ==
  ASSUME NEW f, NEW e \in Ents, NEW t, Volumed(f, e, t, 0), Lengths(e, t, 0, 0),
         NEW B, NEW K, Named(e, t, 0, B, K), e[B][K].attr = FILE,
         NEW l \in 0..(LengthMod - 1), NEW e2, e2 = PutLen(e, [blk |-> B, idx |-> K], l)
  PROVE  /\ e2 \in Ents /\ Volumed(f, e2, t, 0) /\ Lengths(e2, t, 0, 0)
         /\ More(e, t, 0, e2, t, 0) /\ Named(e2, t, 0, B, K)
         /\ e2[B][K].attr = FILE /\ e2[B][K].first = e[B][K].first
<1>0. B \in Root..NB /\ K \in Bodies /\ B \in Block /\ K \in Index
  BY Layout DEF Named
<1>1. [blk |-> B, idx |-> K] \in Pointers
  BY <1>0 DEF Pointers
<1>2. PICK at : at = [blk |-> B, idx |-> K]
  OBVIOUS
<1>3. at \in Pointers /\ at.blk = B /\ at.idx = K /\ e2 = PutLen(e, at, l)
  BY <1>1, <1>2
<1>4. /\ e2 \in Ents
      /\ \A b \in Block, k \in Index :
            AsBefore(e2[b][k], e[b][k]) /\ (b # B \/ k # K => e2[b][k] = e[b][k])
  <2>1. e2 \in Ents
    BY <1>3, PutLenType
  <2>2. \A b \in Block, k \in Index :
           /\ AsBefore(e2[b][k], e[b][k])
           /\ b # at.blk \/ k # at.idx => e2[b][k] = e[b][k]
    BY ONLY <1>3, e \in Ents, PutLenAt
  <2> QED
    BY <1>3, <2>1, <2>2
<1>5. Alike(e, e2) /\ Detached(e, t, 0)
  BY <1>4, NoneDetached DEF Alike, Volumed
<1>6. Volumed(f, e2, t, 0) /\ More(e, t, 0, e2, t, 0) /\ Same(e, t, e2, t, 0)
  BY <1>5, AlikeVolume
<1>7. Lengths(e2, t, 0, 0)
  <2>1. Owned(f, e, t, 0) /\ Dots(f, e, t, 0) /\ Dots(f, e2, t, 0)
    BY <1>6 DEF Volumed
  <2>2. e2[Root][0] = e[Root][0]
    BY <1>0, <1>4, Sizes, Layout
  <2>3. DIR # FILE
    BY DEF DIR, FILE
  <2>4. \A b \in Root..NB, k \in Bodies : Branch(e, t, 0, b, k) => b # B \/ k # K
    BY <2>3 DEF Branch
  <2>5. \A b \in Root..NB, k \in Bodies : Branch(e, t, 0, b, k) => e2[b][k].len = e[b][k].len
    BY <1>4, <2>4, Layout
  <2> QED
    BY <1>5, <1>6, <2>1, <2>2, <2>5, SameLengths
<1>8. Named(e2, t, 0, B, K) /\ AsBefore(e2[B][K], e[B][K])
  BY <1>0, <1>6 DEF More
<1> QED
  BY <1>4, <1>6, <1>7, <1>8 DEF AsBefore

LEMMA writeQuitKeeps ==
  ASSUME TypeInv, CarefulInv, mode = "edit", NEW n \in 0..BlockSize, NEW spill,
         CanSpill(spill),
         IF n = BlockSize \/ edit.full > 0 THEN MindSpill(n = BlockSize) ELSE spill = "no",
         writeQuit(n, spill)
  PROVE  CarefulInv'
<1>1. PICK B, K : B = slots[fp].dirno /\ K = slots[fp].diroff
  OBVIOUS
<1>2. Edited(ents, text, B, K) /\ fp \in 0..(MaxOpen - 1) /\ fp # -1
  BY <1>1, EditFile
<1>3. /\ ents \in Ents /\ Volumed(fat, ents, text, 0) /\ Lengths(ents, text, 0, 0)
  BY ShellParts
<1>4. B \in Root..NB /\ K \in Bodies /\ DirLike(B) /\ At(B, K) = [blk |-> B, idx |-> K]
  <2>1. B \in Root..NB /\ K \in Bodies /\ text[B] = NoText
    BY <1>2 DEF Edited, Named
  <2>2. K # DS
    BY <2>1, Layout, Sizes DEF Index
  <2> QED
    BY <2>1, <2>2, Layout DEF DirLike, At
<1>5. PICK l : l = (slots[fp].len + n) % LengthMod
  OBVIOUS
<1>6. l \in 0..(LengthMod - 1)
  BY <1>2, <1>5, SlotSumType DEF TypeInv
<1>7. PICK e : e = PutLen(ents, [blk |-> B, idx |-> K], l)
  OBVIOUS
<1>8. /\ slots' = [slots EXCEPT ![fp].len = l]
      /\ \E fatError \in BOOLEAN : dowrite(e, n, spill, fatError)
      /\ mode' = "shell" /\ UNCHANGED <<fp, cur, path, stack, scan, host>>
  <2>1. DirLike(At(slots[fp].dirno, slots[fp].diroff).blk)
    BY <1>1, <1>4
  <2>2. /\ slots' = [slots EXCEPT ![fp].len = (slots[fp].len + n) % LengthMod]
        /\ \E fatError \in BOOLEAN :
             dowrite(PutLen(ents, At(slots[fp].dirno, slots[fp].diroff),
                            (slots[fp].len + n) % LengthMod), n, spill, fatError)
        /\ mode' = "shell" /\ UNCHANGED <<fp, cur, path, stack, scan, host>>
    BY <2>1, EditWritable DEF writeQuit
  <2> QED
    BY <1>1, <1>4, <1>5, <1>7, <2>2
<1>9. /\ e \in Ents /\ Volumed(fat, e, text, 0) /\ Lengths(e, text, 0, 0)
      /\ More(ents, text, 0, e, text, 0) /\ Edited(e, text, B, K)
  BY <1>2, <1>3, <1>6, <1>7, LengthStored DEF Edited
<1>10. \A last \in Chain(fat, slots[fp].first) : ~ IsLink(fat, last) =>
             WriteRoom(last, n, spill, slots[fp].first)
  <2>1. CASE n = BlockSize \/ edit.full > 0
    BY <2>1, MindSpillRoom
  <2>2. CASE ~ (n = BlockSize \/ edit.full > 0)
    BY <2>2 DEF WriteRoom
  <2> QED
    BY <2>1, <2>2
<1>11. PICK fatError \in BOOLEAN : dowrite(e, n, spill, fatError)
  BY <1>8
<1>12. /\ Volumed(fat', ents', text', 0) /\ Lengths(ents', text', 0, 0)
       /\ More(e, text, 0, ents', text', 0)
  BY <1>9, <1>10, <1>11, dowriteKeeps DEF Edited
<1>13. More(ents, text, 0, ents', text', 0)
  BY <1>9, <1>12 DEF More, AsBefore
<1> QED
  BY <1>8, <1>12, <1>13, EditStep

-----------------------------------------------------------------------------
(***************************************************************************)
(* A careful session is a session, and every step of it keeps CarefulInv.  *)
(***************************************************************************)
LEMMA CarefulIsNext == ASSUME [CarefulNext]_vars PROVE [Next]_vars
<1>1. CASE UNCHANGED vars
  BY <1>1
<1>2. CASE \/ startsys \/ startsysTorn \/ existsys \/ CrashWhileSaving \/ Crash
           \/ LostDirectory \/ close \/ RmdirStep \/ (MindFormat /\ format)
  BY <1>2 DEF Next
<1>3. CASE \E n \in Names : \/ MindRoom /\ mkdir(n)
                            \/ MindRoom /\ create(n)
                            \/ openFile(n)
                            \/ MindTarget(n) /\ rmfile(n)
                            \/ MindContents(n) /\ rmdir(n)
  BY <1>3 DEF Next, Command
<1>4. CASE \E p \in PathArgs : MindHandle /\ MindDepth(p) /\ cd(p)
  BY <1>4 DEF Next
<1>5. CASE \E id \in TextIds : MindHandle /\ write(id)
  BY <1>5 DEF Next
<1>6. CASE mode = "edit" /\ MindSpill(TRUE) /\ writeFlush
  BY <1>6 DEF Next
<1>7. CASE \E n \in 0..BlockSize, spill \in {"no", "", JunkName} : writeQuit(n, spill)
  BY <1>7 DEF Next
<1> QED
  BY <1>1, <1>2, <1>3, <1>4, <1>5, <1>6, <1>7 DEF CarefulNext

LEMMA SameCareful == ASSUME CarefulInv, UNCHANGED vars PROVE CarefulInv'
  BY DEF CarefulInv, Settled, Unlinking, Emptying, vars

LEMMA CrashTears == ASSUME CrashWhileSaving PROVE Torn'
  BY DEF CrashWhileSaving, ForgetMemory, TornImage, NoImage, Image, Torn

\* What a step does to the image: nothing while a command runs, but for these.
LEMMA ImageStep ==
  ASSUME CarefulNext
  PROVE  \/ startsys \/ startsysTorn \/ existsys \/ CrashWhileSaving \/ Crash \/ format
         \/ mode \in {"shell", "edit", "rmdir"} /\ host' = host
<1>1. CASE LostDirectory \/ close \/ RmdirStep
  BY <1>1 DEF LostDirectory, close, RmdirStep, rmdirPop, rmdirScan, rmdirDone, Typed, Wild
<1>2. ASSUME NEW n \in Names, mkdir(n) \/ create(n) \/ openFile(n) \/ rmfile(n) \/ rmdir(n)
      PROVE  mode \in {"shell", "edit", "rmdir"} /\ host' = host
  <2>1. CASE mkdir(n)
    BY <2>1 DEF mkdir, Typed, Wild
  <2>2. CASE create(n)
    BY <2>2 DEF create, Typed
  <2>3. CASE openFile(n)
    BY <2>3 DEF openFile, Typed
  <2>4. CASE rmfile(n)
    BY <2>4 DEF rmfile, Typed
  <2>5. CASE rmdir(n)
    BY <2>5 DEF rmdir, Typed, Wild
  <2> QED
    BY <1>2, <2>1, <2>2, <2>3, <2>4, <2>5
<1>3. ASSUME NEW p \in PathArgs, cd(p) PROVE mode \in {"shell", "edit", "rmdir"} /\ host' = host
  BY <1>3 DEF cd, Typed, Wild
<1>4. ASSUME NEW id \in TextIds, write(id)
      PROVE  mode \in {"shell", "edit", "rmdir"} /\ host' = host
  BY <1>4 DEF write, Typed, Wild
<1>5. CASE writeFlush
  BY <1>5 DEF writeFlush, Wild
<1>6. ASSUME NEW n, NEW spill, writeQuit(n, spill)
      PROVE  mode \in {"shell", "edit", "rmdir"} /\ host' = host
  BY <1>6 DEF writeQuit, Wild
<1> QED
  BY <1>1, <1>2, <1>3, <1>4, <1>5, <1>6 DEF CarefulNext

\* Once the image is torn nothing but a start can happen, and it goes wild.
LEMMA TornStays == ASSUME Torn, [CarefulNext]_vars PROVE Torn'
<1>1. CASE UNCHANGED vars
  BY <1>1 DEF vars, Torn
<1>2. CASE startsysTorn
  BY <1>2 DEF startsysTorn, Wild, Torn
<1>3. ~ startsys /\ ~ existsys /\ ~ CrashWhileSaving /\ ~ Crash /\ ~ format
  BY DEF startsys, existsys, CrashWhileSaving, Crash, format, Typed, Torn
<1> QED
  BY <1>1, <1>2, <1>3, ImageStep DEF Torn

LEMMA ImageStays ==
  ASSUME TypeInv, Imaged, [CarefulNext]_vars PROVE Imaged'
<1>1. CASE UNCHANGED vars
  BY <1>1 DEF vars, Imaged
<1>2. CASE startsys \/ format
  <2>1. host.state \in {"none", "torn", "saved"}
    BY TypeParts DEF TypeInv, RestTyped, ImageType
  <2>2. NewImage.state = "saved" /\ (format => host'.state = "saved")
    BY DEF NewImage, Image, format
  <2> QED
    BY <1>2, <2>1, <2>2 DEF startsys, Imaged
<1>3. CASE startsysTorn \/ existsys \/ CrashWhileSaving \/ Crash
  BY <1>3 DEF startsysTorn, existsys, CrashWhileSaving, Crash, ForgetMemory, Wild, Imaged
<1>4. CASE mode \in {"shell", "edit", "rmdir"} /\ host' = host
  BY <1>4 DEF Imaged
<1> QED
  BY <1>1, <1>2, <1>3, <1>4, ImageStep

LEMMA CarefulStep ==
  ASSUME Ordinary, TypeInv, CarefulInv, [CarefulNext]_vars PROVE CarefulInv' \/ Torn'
<1>1. CASE UNCHANGED vars
  BY <1>1, SameCareful
<1>2. CASE startsys
  BY <1>2, startsysKeeps
<1>3. CASE startsysTorn \/ LostDirectory
  BY <1>3, NeverLost
<1>4. CASE existsys
  BY <1>4, existsysKeeps
<1>5. CASE Crash
  BY <1>5, CrashKeeps
<1>15. CASE CrashWhileSaving
  BY <1>15, CrashTears
<1>6. CASE close
  BY <1>6, closeKeeps
<1>7. CASE RmdirStep
  BY <1>7, rmdirPopStep, rmdirScanStep, rmdirDoneStep DEF RmdirStep
<1>8. CASE MindFormat /\ format
  BY <1>8, formatKeeps
<1>9. ASSUME NEW n \in Names, \/ MindRoom /\ mkdir(n)
                              \/ MindRoom /\ create(n)
                              \/ openFile(n)
                              \/ MindTarget(n) /\ rmfile(n)
                              \/ MindContents(n) /\ rmdir(n)
      PROVE  CarefulInv'
  BY <1>9, mkdirKeeps, createKeeps, openFileKeeps, rmfileKeeps, rmdirKeeps
<1>10. ASSUME NEW p \in PathArgs, MindHandle /\ MindDepth(p) /\ cd(p) PROVE CarefulInv'
  BY <1>10, cdKeeps
<1>11. ASSUME NEW id \in TextIds, MindHandle /\ write(id) PROVE CarefulInv'
  BY <1>11, writeKeeps
<1>12. CASE mode = "edit" /\ MindSpill(TRUE) /\ writeFlush
  BY <1>12, writeFlushKeeps
<1>13. ASSUME NEW n \in 0..BlockSize, NEW spill \in {"no", "", JunkName}, mode = "edit",
              IF n = BlockSize \/ edit.full > 0
              THEN MindSpill(n = BlockSize) ELSE spill = "no",
              writeQuit(n, spill)
       PROVE  CarefulInv'
  <2>1. CanSpill(spill)
    BY DEF CanSpill
  <2> QED
    BY <1>13, <2>1, writeQuitKeeps
<1>14. CASE CarefulNext
  <2>1. \/ startsys \/ startsysTorn \/ existsys \/ CrashWhileSaving \/ Crash
        \/ LostDirectory \/ close \/ RmdirStep \/ (MindFormat /\ format)
        \/ \E n \in Names : \/ MindRoom /\ mkdir(n)
                            \/ MindRoom /\ create(n)
                            \/ openFile(n)
                            \/ MindTarget(n) /\ rmfile(n)
                            \/ MindContents(n) /\ rmdir(n)
        \/ \E p \in PathArgs : MindHandle /\ MindDepth(p) /\ cd(p)
        \/ \E id \in TextIds : MindHandle /\ write(id)
        \/ (mode = "edit" /\ MindSpill(TRUE) /\ writeFlush)
        \/ \E n \in 0..BlockSize, spill \in {"no", "", JunkName} :
              /\ mode = "edit"
              /\ IF n = BlockSize \/ edit.full > 0
                 THEN MindSpill(n = BlockSize) ELSE spill = "no"
              /\ writeQuit(n, spill)
    BY <1>14 DEF CarefulNext
  <2> QED
    BY <1>2, <1>3, <1>4, <1>5, <1>6, <1>7, <1>8, <1>9, <1>10, <1>11, <1>12, <1>13, <1>15, <2>1
<1> QED
  BY <1>1, <1>14

LEMMA CarefulStart == ASSUME Init PROVE CarefulInv
<1>1. /\ mode = "off" /\ host.state = "none" /\ scan.idx = DS
      /\ \A j \in 0..(MaxOpen - 1) : slots[j] = EmptySlot
  BY DEF Init, NoImage, Image, NoScan
<1> QED
  BY <1>1, EmptySlotClosed DEF CarefulInv

\* Every step of a careful session is one of the whole program, with its types, and
\* keeps the volume, the image, the current directory and the open files as
\* CarefulInv says, until a crash inside a save leaves half an image.
THEOREM CarefulKept == Ordinary => (CarefulSpec => [](TypeInv /\ Imaged /\ (CarefulInv \/ Torn)))
<1> SUFFICES ASSUME Ordinary PROVE CarefulSpec => [](TypeInv /\ Imaged /\ (CarefulInv \/ Torn))
  OBVIOUS
<1> DEFINE All == TypeInv /\ Imaged /\ (CarefulInv \/ Torn)
<1>1. Init => All
  BY InitType, CarefulStart DEF Imaged, Init
<1>2. All /\ [CarefulNext]_vars => All'
  <2> SUFFICES ASSUME All, [CarefulNext]_vars PROVE All'
    OBVIOUS
  <2>1. TypeInv'
    BY CarefulIsNext, TypeStep
  <2>2. CarefulInv' \/ Torn'
    BY CarefulStep, TornStays
  <2>3. Imaged'
    BY ImageStays
  <2> QED
    BY <2>1, <2>2, <2>3
<1> HIDE DEF All
<1> QED
  <2>1. CarefulSpec => []All
    BY <1>1, <1>2, PTL DEF CarefulSpec
  <2> QED
    BY <2>1 DEF All

-----------------------------------------------------------------------------
(***************************************************************************)
(* What the properties of a careful session say follows.                   *)
(***************************************************************************)
\* The program goes on with decoded bytes, unless it starts from an image that a
\* crash inside exit or format left half written (CarefulSession!OnlyTornGoesWild).
THEOREM GoesWildOnlyTorn == Ordinary => (CarefulSpec => []OnlyTornGoesWild)
<1> SUFFICES ASSUME Ordinary PROVE CarefulSpec => []OnlyTornGoesWild
  OBVIOUS
<1>1. TypeInv /\ Imaged /\ (CarefulInv \/ Torn) => OnlyTornGoesWild
  BY DEF CarefulInv, Torn, OnlyTornGoesWild
<1>2. CarefulSpec => [](TypeInv /\ Imaged /\ (CarefulInv \/ Torn))
  BY CarefulKept
<1> QED
  BY <1>1, <1>2, PTL

\* The entries in use, as Sound counts them.
LEMMA UsedNamed ==
  ASSUME NEW e, NEW t, NEW a \in Used(e, t)
  PROVE  Named(e, t, 0, a.blk, a.idx) /\ a.blk \in Root..NB /\ a.idx \in Bodies
         /\ EntryAt(e, a) = e[a.blk][a.idx]
<1>1. a.blk \in Root..NB /\ a.idx \in Bodies /\ a.blk # 0
  BY Layout DEF Used, Bodies
<1>2. t[a.blk] = NoText /\ EntryAt(e, a).name # ""
  BY DEF Used
<1>3. EntryAt(e, a) = e[a.blk][a.idx]
  BY DEF EntryAt
<1> QED
  BY <1>1, <1>2, <1>3 DEF Named

LEMMA OwnedExclusive ==
  ASSUME NEW f, NEW e, NEW t, Owned(f, e, t, 0) PROVE Exclusive(f, e, t)
<1>1. ASSUME NEW a \in Used(e, t), NEW b \in Used(e, t),
             EntryAt(e, a).first = EntryAt(e, b).first
      PROVE  a = b
  <2>1. a.blk = b.blk /\ a.idx = b.idx
    BY <1>1, UsedNamed DEF Owned
  <2>2. a \in [blk : Root..NB, idx : 2..(DS - 1)] /\ b \in [blk : Root..NB, idx : 2..(DS - 1)]
    BY DEF Used
  <2> QED
    BY <2>1, <2>2
<1>2. \A c, d \in Links(f) : f[c] = f[d] => c = d
  BY DEF Owned
<1>3. \A a \in Used(e, t), c \in Links(f) : EntryAt(e, a).first # f[c]
  BY UsedNamed DEF Owned
<1>4. \A a \in Used(e, t) : EntryAt(e, a).first \in DataBlock /\ f[EntryAt(e, a).first] # FREE
  BY UsedNamed DEF Owned
<1>5. \A c \in Links(f) : f[c] \in DataBlock /\ f[f[c]] # FREE
  BY DEF Owned
<1> QED
  BY <1>1, <1>2, <1>3, <1>4, <1>5 DEF Exclusive

LEMMA DotsRooted ==
  ASSUME NEW f, NEW e, NEW t, Dots(f, e, t, 0) PROVE Rooted(f, e, t)
<1>1. t[Root] = NoText /\ e[Root][0].first = Root /\ e[Root][1].first = Root
  BY DEF Dots, Dot
<1>2. ASSUME NEW a \in Used(e, t), EntryAt(e, a).attr = DIR, NEW b, b = EntryAt(e, a).first
      PROVE  /\ f[b] = END /\ t[b] = NoText
             /\ e[b][0].name = "." /\ e[b][0].first = b
             /\ e[b][1].name = ".." /\ e[b][1].first = a.blk
  <2>1. Branch(e, t, 0, a.blk, a.idx) /\ e[a.blk][a.idx].first = b
    BY <1>2, UsedNamed DEF Branch
  <2>2. a.blk \in Root..NB /\ a.idx \in Bodies
    BY UsedNamed
  <2>3. f[b] = END /\ t[b] = NoText /\ Dot(e[b][0], ".", b) /\ Dot(e[b][1], "..", a.blk)
    BY <2>1, <2>2 DEF Dots
  <2> QED
    BY <2>3 DEF Dot
<1> QED
  BY <1>1, <1>2 DEF Rooted

LEMMA LengthsCounted ==
  ASSUME NEW f, NEW e \in Ents, NEW t, Volumed(f, e, t, 0), Lengths(e, t, 0, 0)
  PROVE  Counted(e, t)
<1>1. ASSUME NEW b \in Block, b # 0, NEW l \in 0..(LengthMod - 1), Length(e, b, 0, l)
      PROVE  l = 2 + Cardinality(Subdirs(e, b))
  <2>1. l \in Nat
    BY LengthModPositive
  <2>2. l + 0 = 2 + Cardinality(Subdirs(e, b))
    BY <1>1 DEF Length
  <2> QED
    BY <2>1, <2>2
<1>2. e[Root][0].len = 2 + Cardinality(Subdirs(e, Root))
  <2>1. Root # 0 /\ Root \in Block /\ e[Root][0].len \in 0..(LengthMod - 1)
    BY Sizes DEF Ents, Entry
  <2> QED
    BY <1>1, <2>1 DEF Lengths
<1>3. ASSUME NEW a \in Used(e, t), EntryAt(e, a).attr = DIR
      PROVE  EntryAt(e, a).len = 2 + Cardinality(Subdirs(e, EntryAt(e, a).first))
  <2>1. PICK B, K : B = a.blk /\ K = a.idx
    OBVIOUS
  <2>2. /\ Named(e, t, 0, B, K) /\ B \in Root..NB /\ K \in Bodies
        /\ EntryAt(e, a) = e[B][K]
    BY <2>1, UsedNamed
  <2>3. Branch(e, t, 0, B, K)
    BY <1>3, <2>2 DEF Branch
  <2>4. Length(e, e[B][K].first, 0, e[B][K].len)
    BY <2>2, <2>3 DEF Lengths
  <2>5. e[B][K].first \in Block /\ e[B][K].first # 0
    BY <2>2, Layout DEF Volumed, Owned
  <2>6. e[B][K].len \in 0..(LengthMod - 1)
    BY <2>2, Layout DEF Ents, Entry
  <2> QED
    BY <1>1, <2>2, <2>4, <2>5, <2>6
<1> QED
  BY <1>2, <1>3 DEF Counted

LEMMA VolumedSound ==
  ASSUME NEW f, NEW e \in Ents, NEW t, Volumed(f, e, t, 0), Lengths(e, t, 0, 0)
  PROVE  Sound(f, e, t)
  BY OwnedExclusive, DotsRooted, LengthsCounted DEF Sound, Volumed

\* Between commands the volume is sound (CarefulSession!VolumeSound): mkdir, create,
\* write, rmfile and rmdir share no block, and the lengths count the subdirectories.
THEOREM VolumeStaysSound == Ordinary => (CarefulSpec => []VolumeSound)
<1> SUFFICES ASSUME Ordinary PROVE CarefulSpec => []VolumeSound
  OBVIOUS
<1>1. TypeInv /\ Imaged /\ (CarefulInv \/ Torn) => VolumeSound
  <2> SUFFICES ASSUME TypeInv, CarefulInv, mode \in {"shell", "edit"}
               PROVE  Sound(fat, ents, text)
    BY DEF VolumeSound, AtRest, Torn
  <2> QED
    BY ShellParts, VolumedSound
<1>2. CarefulSpec => [](TypeInv /\ Imaged /\ (CarefulInv \/ Torn))
  BY CarefulKept
<1> QED
  BY <1>1, <1>2, PTL

\* While the program runs there is a whole image, and it is sound
\* (CarefulSession!ImageSound): an exit, or a crash that is not inside a save,
\* leaves a volume the next run can start from.
THEOREM ImageStaysSound == Ordinary => (CarefulSpec => []ImageSound)
<1> SUFFICES ASSUME Ordinary PROVE CarefulSpec => []ImageSound
  OBVIOUS
<1>1. TypeInv /\ Imaged /\ (CarefulInv \/ Torn) => ImageSound
  <2> SUFFICES ASSUME TypeInv, CarefulInv, host.state = "saved"
               PROVE  Sound(host.fat, host.ents, host.text)
    BY DEF ImageSound, Imaged, Torn
  <2>1. host \in ImageType
    BY TypeParts DEF TypeInv, RestTyped
  <2>2. host.ents \in Ents
    BY <2>1, ImageParts
  <2>3. Volumed(host.fat, host.ents, host.text, 0) /\ Lengths(host.ents, host.text, 0, 0)
    BY DEF CarefulInv
  <2> QED
    BY <2>2, <2>3, VolumedSound
<1>2. CarefulSpec => [](TypeInv /\ Imaged /\ (CarefulInv \/ Torn))
  BY CarefulKept
<1> QED
  BY <1>1, <1>2, PTL

\* An open slot is of a file that exists (CarefulSession!HandlesLive).
THEOREM HandlesStayLive == Ordinary => (CarefulSpec => []HandlesLive)
<1> SUFFICES ASSUME Ordinary PROVE CarefulSpec => []HandlesLive
  OBVIOUS
<1>1. TypeInv /\ Imaged /\ (CarefulInv \/ Torn) => HandlesLive
  <2> SUFFICES ASSUME TypeInv, CarefulInv, mode \in {"shell", "edit"},
                      NEW j \in 0..(MaxOpen - 1), slots[j].attr = FILE,
                      NEW e, e = ents[slots[j].dirno][slots[j].diroff]
               PROVE  e.attr = FILE /\ e.name = slots[j].name /\ e.first = slots[j].first
    BY DEF HandlesLive, AtRest, Torn
  <2>1. Fits(ents, text, 0, slots[j])
    BY ShellParts DEF Held
  <2> QED
    BY <2>1 DEF Fits
<1>2. CarefulSpec => [](TypeInv /\ Imaged /\ (CarefulInv \/ Torn))
  BY CarefulKept
<1> QED
  BY <1>1, <1>2, PTL

\* The one directory of that name in the block is what cd() finds.
LEMMA DescendBranch ==
  ASSUME Volumed(fat, ents, text, 0), NEW b, NEW k, Branch(ents, text, 0, b, k)
  PROVE  Descend(b, ents[b][k].name) = ents[b][k].first
<1>1. PICK c : c = ents[b][k].name
  OBVIOUS
<1>2. Named(ents, text, 0, b, k) /\ b \in Root..NB /\ k \in Bodies /\ text[b] = NoText
  BY DEF Branch, Named
<1>3. c \in Names /\ House(ents, text, 0, b)
  BY <1>1, <1>2 DEF Volumed, Housed
<1>4. k \in Index /\ DirNamed(ents[b][k], c)
  BY <1>1, <1>2 DEF Bodies, Index, Branch, DirNamed
<1>5. PICK l \in Index : DirNamed(ents[b][l], c) /\ Descend(b, c) = ents[b][l].first
  BY <1>2, <1>4, Descended
<1>6. Branch(ents, text, 0, b, l)
  BY <1>3, <1>5, DirPlaces, NamesAssumption
<1>7. l \in Bodies /\ Named(ents, text, 0, b, l) /\ ents[b][l].name = c
  BY <1>5, <1>6 DEF Branch, Named, DirNamed
<1>8. k = l
  BY <1>1, <1>2, <1>7 DEF Volumed, Housed
<1> QED
  BY <1>1, <1>5, <1>8

LEMMA WalkResolves ==
  ASSUME Volumed(fat, ents, text, 0), NEW S, NEW q \in Seq(S), NEW b,
         Walked(ents, text, 0, q, b)
  PROVE  Head(q) = "root" /\ Resolve(Root, Tail(q)) = b
<1>1. PICK w \in [1..Len(q) -> Root..NB] : Passes(ents, text, 0, q, w) /\ w[Len(q)] = b
  BY DEF Walked
<1>2. PICK m \in Nat : m = Len(q) /\ m >= 1
  BY LenType DEF Walked
<1>3. PICK n \in Nat : n = m - 1
  BY <1>2
<1>4. PICK p : p = Tail(q)
  OBVIOUS
<1>5. Len(p) = n /\ \A i \in 1..n : p[i] = q[i + 1]
  BY <1>2, <1>3, <1>4
<1>6. PICK r : r = Resolved(Root, p)
  OBVIOUS
<1>7. r[0] = Root /\ \A i \in 0..n : i < n => r[i + 1] = Descend(r[i], p[i + 1])
  BY <1>5, <1>6, ResolvedSteps
<1> DEFINE S0 == {i \in 0..n : r[i] = w[i + 1]}
<1>8. 0 \in S0
  BY <1>1, <1>7 DEF Passes
<1>9. ASSUME NEW i \in 0..n, i < n, i \in S0 PROVE i + 1 \in S0
  <2>1. i + 1 \in 0..n /\ i + 1 \in 1..n /\ (i + 1) + 1 \in 2..m
        /\ ((i + 1) + 1) - 1 = i + 1
    BY <1>3, <1>9
  <2>2. PICK j : j = (i + 1) + 1
    OBVIOUS
  <2>3. j \in 2..m /\ j - 1 = i + 1
    BY <2>1, <2>2
  <2>4. PICK k \in Bodies : /\ Branch(ents, text, 0, w[j - 1], k)
                            /\ ents[w[j - 1]][k].name = q[j]
                            /\ ents[w[j - 1]][k].first = w[j]
    BY <1>1, <1>2, <2>3 DEF Passes
  <2>5. Descend(w[j - 1], q[j]) = w[j]
    BY <2>4, DescendBranch
  <2>6. r[i + 1] = Descend(r[i], p[i + 1]) /\ p[i + 1] = q[j] /\ r[i] = w[j - 1]
    BY <1>5, <1>7, <1>9, <2>1, <2>2, <2>3
  <2> QED
    BY <2>1, <2>2, <2>5, <2>6
<1> HIDE DEF S0
<1>10. \A i \in 0..n : i \in S0
  BY <1>8, <1>9, UpTo
<1>11. n \in 0..n /\ n + 1 = m
  BY <1>2, <1>3
<1>12. r[n] = w[m]
  BY <1>10, <1>11 DEF S0
<1>13. Resolve(Root, Tail(q)) = b
  BY <1>1, <1>2, <1>4, <1>5, <1>6, <1>12 DEF Resolve
<1>14. Head(q) = q[1]
  BY <1>2
<1> QED
  BY <1>1, <1>13, <1>14 DEF Passes

\* currentdir and ptrcurdir agree (CarefulSession!PathNamesCwd).
THEOREM PathStaysCwd == Ordinary => (CarefulSpec => []PathNamesCwd)
<1> SUFFICES ASSUME Ordinary PROVE CarefulSpec => []PathNamesCwd
  OBVIOUS
<1>1. TypeInv /\ Imaged /\ (CarefulInv \/ Torn) => PathNamesCwd
  <2> SUFFICES ASSUME TypeInv, CarefulInv, mode \in {"shell", "edit"}
               PROVE  /\ Head(path) = "root"
                      /\ Resolve(Root, Tail(path)) = cur.first
                      /\ ents[cur.dirno][cur.diroff].first = cur.first
                      /\ ents[cur.dirno][cur.diroff].attr = DIR
    BY DEF PathNamesCwd, AtRest, Torn
  <2>1. /\ Volumed(fat, ents, text, 0) /\ Here(ents, text, 0, cur)
        /\ Walked(ents, text, 0, path, cur.first)
    BY ShellParts
  <2>2. path \in Seq(CdNames)
    BY TypeParts DEF TypeInv, RestTyped, Paths, CdNames
  <2>3. Head(path) = "root" /\ Resolve(Root, Tail(path)) = cur.first
    BY <2>1, <2>2, WalkResolves
  <2>4. CASE cur = [first |-> Root, dirno |-> Root, diroff |-> 0]
    <3>1. Dot(ents[Root][0], ".", Root)
      BY <2>1 DEF Volumed, Dots
    <3>2. cur.first = Root /\ cur.dirno = Root /\ cur.diroff = 0
      BY <2>4
    <3> QED
      BY <2>3, <3>1, <3>2 DEF Dot
  <2>5. CASE /\ Branch(ents, text, 0, cur.dirno, cur.diroff)
             /\ ents[cur.dirno][cur.diroff].first = cur.first
    BY <2>3, <2>5 DEF Branch
  <2> QED
    BY <2>1, <2>4, <2>5 DEF Here
<1>2. CarefulSpec => [](TypeInv /\ Imaged /\ (CarefulInv \/ Torn))
  BY CarefulKept
<1> QED
  BY <1>1, <1>2, PTL
=============================================================================
