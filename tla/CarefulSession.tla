--------------------------- MODULE CarefulSession ---------------------------
(***************************************************************************)
(* Sessions of a user who keeps clear of what FileSystem shows to go wrong *)
(* - the "Mind..." conditions below, one per hazard - and what then holds  *)
(* of the volume, the current directory, the open files and the image.     *)
(* The actions are FileSystem's own; only the user's choices are narrowed, *)
(* and a crash, also one inside a save, is no choice.                      *)
(***************************************************************************)
EXTENDS FileSystem

DataBlock == (Root + 1)..(NB - 1)

(***************************************************************************)
(* Properties of a volume, whoever holds it: the program or the host file. *)
(***************************************************************************)
\* The entries in use: not "." and "..", which every directory block has.
Used(e, t) == {at \in [blk : Root..NB, idx : 2..(DS - 1)] :
                  t[at.blk] = NoText /\ EntryAt(e, at).name # ""}
Links(f) == {c \in DataBlock : IsLink(f, c)}

(***************************************************************************)
(* No two entries own the same first block, no two cells of a chain lead   *)
(* to the same block, no chain runs into a file's first block, and what is *)
(* referred to is an allocated data block.                                 *)
(***************************************************************************)
Exclusive(f, e, t) ==
    LET first(at) == EntryAt(e, at).first
    IN  /\ \A a, b \in Used(e, t) : first(a) = first(b) => a = b
        /\ \A c, d \in Links(f) : f[c] = f[d] => c = d
        /\ \A a \in Used(e, t), c \in Links(f) : first(a) # f[c]
        /\ \A a \in Used(e, t) : first(a) \in DataBlock /\ f[first(a)] # FREE
        /\ \A c \in Links(f) : f[c] \in DataBlock /\ f[f[c]] # FREE

\* The first five cells and the root's are never given away or freed.
Reserved(f) == (\A c \in 0..(Root - 1) : f[c] = END) /\ f[Root] = Root

\* A FREE block holds no text and no entry that mkdir() would bring back.
FreeIsBlank(f, e, t) ==
    \A b \in DataBlock : f[b] = FREE =>
        t[b] = NoText /\ \A k \in 2..(DS - 1) : e[b][k].name = ""

\* A directory is one block; its ".." is the block of the entry that names it.
Rooted(f, e, t) ==
    /\ t[Root] = NoText /\ e[Root][0].first = Root /\ e[Root][1].first = Root
    /\ \A a \in Used(e, t) : EntryAt(e, a).attr = DIR =>
          LET b == EntryAt(e, a).first
          IN  /\ f[b] = END /\ t[b] = NoText
              /\ e[b][0].name = "." /\ e[b][0].first = b
              /\ e[b][1].name = ".." /\ e[b][1].first = a.blk

\* A directory's length is 2 and one more for each subdirectory.
Subdirs(e, b) == {k \in 2..(DS - 1) : e[b][k].name # "" /\ e[b][k].attr = DIR}
Counted(e, t) ==
    /\ e[Root][0].len = 2 + Cardinality(Subdirs(e, Root))
    /\ \A a \in Used(e, t) : EntryAt(e, a).attr = DIR =>
          EntryAt(e, a).len = 2 + Cardinality(Subdirs(e, EntryAt(e, a).first))

Sound(f, e, t) == /\ Reserved(f) /\ Exclusive(f, e, t) /\ FreeIsBlank(f, e, t)
                  /\ Rooted(f, e, t) /\ Counted(e, t)

-----------------------------------------------------------------------------
(***************************************************************************)
(* What the user minds.                                                    *)
(***************************************************************************)
RoomInTable == \E i \in DataBlock : fat[i] = FREE
RoomInDirectory == \E k \in Index : ents[cur.first][k].name = ""
OpenFirsts == {slots[j].first : j \in {x \in 0..(MaxOpen - 1) : slots[x].attr = FILE}}

\* mkdir and create: room for the entry and for the block.
MindRoom == RoomInTable /\ RoomInDirectory

\* rmfile: a file that is there, and that no slot has open.
MindTarget(n) ==
    \E k \in Index : /\ StopsAt(DS, LAMBDA j : IsFileNamed(ents[cur.first][j], n), k)
                     /\ k < DS /\ ents[cur.first][k].first \notin OpenFirsts

\* rmdir: a directory with nothing in it but empty directories.
EmptyBut(b, S) == \A k \in 2..(DS - 1) : ents[b][k].name = "" \/ ents[b][k].attr \in S
MindContents(n) ==
    \A k \in Index : ents[cur.first][k].name = n =>
        LET b == ents[cur.first][k].first
        IN  /\ ents[cur.first][k].attr = DIR /\ EmptyBut(b, {DIR})
            /\ \A j \in 2..(DS - 1) :
                  ents[b][j].name # "" => EmptyBut(ents[b][j].first, {})

\* cd and write: never between a close and the next open.
MindHandle == fp # -1

\* cd: the path stays within the arrays, component by component.
MindDepth(p) == \A j \in 0..Len(p) : PathFits(Rewritten(path, p)[j])

\* format: from the root, with no file open and nothing beyond the wiped blocks.
MindFormat == /\ cur.first = Root /\ OpenFirsts = {}
              /\ \A b \in DataBlock : b > LastWiped => fat[b] = FREE

(***************************************************************************)
(* write: what strcpy() spills goes to a block nobody uses; a full block   *)
(* has a successor to get; a third one only when StrayBlock is unused; and *)
(* the bytes after a short text are NUL, so that it does not spill.        *)
(***************************************************************************)
MindSpill(full) ==
    LET chain == Chain(fat, slots[fp].first)
        unused(b) == b >= NB \/ fat[b] = FREE
    IN  /\ \A last \in chain : ~ IsLink(fat, last) => unused(last + 1)
        /\ full => RoomInTable /\ (Cardinality(chain) > 1 => unused(StrayBlock))
CarefulNext ==
    \/ startsys \/ startsysTorn \/ existsys \/ CrashWhileSaving \/ Crash
    \/ LostDirectory \/ close \/ RmdirStep
    \/ MindFormat /\ format
    \/ \E n \in Names :
          \/ MindRoom /\ mkdir(n)
          \/ MindRoom /\ create(n)
          \/ openFile(n)
          \/ MindTarget(n) /\ rmfile(n)
          \/ MindContents(n) /\ rmdir(n)
    \/ \E p \in PathArgs : MindHandle /\ MindDepth(p) /\ cd(p)
    \/ \E id \in TextIds : MindHandle /\ write(id)
    \/ mode = "edit" /\ MindSpill(TRUE) /\ writeFlush
    \/ \E n \in 0..BlockSize, spill \in {"no", "", JunkName} :
          /\ mode = "edit"
          /\ IF n = BlockSize \/ edit.full > 0
             THEN MindSpill(n = BlockSize) ELSE spill = "no"
          /\ writeQuit(n, spill)

CarefulSpec == Init /\ [][CarefulNext]_vars

-----------------------------------------------------------------------------
AtRest == mode \in {"shell", "edit"}

(***************************************************************************)
(* What the user minds is all there is to mind, but for what no user can:  *)
(* no command of a careful session leaves the part of the program's        *)
(* behaviour that is decoded, nor does a start, unless from the image that *)
(* a crash inside exit or format left half written.                        *)
(***************************************************************************)
OnlyTornGoesWild == mode = "wild" => host.state = "torn"

(***************************************************************************)
(* Between commands the volume is sound: reserved cells keep their value,  *)
(* no block belongs to two files or directories (allocation in mkdir,      *)
(* create and dowrite against the freeing in rmfile and rmdir), what was   *)
(* deleted does not come back in the directory that reuses the block, ".." *)
(* of every directory leads to the block its own entry is in, and the      *)
(* lengths mkdir and rmdir keep through ptrcurdir.dirno and diroff count.  *)
(***************************************************************************)
VolumeSound == AtRest => Sound(fat, ents, text)

(***************************************************************************)
(* currentdir and ptrcurdir agree: the path cd() edits as text, walked     *)
(* from the root, ends in the directory whose block it moved to, and       *)
(* dirno/diroff are that directory's own entry.                            *)
(***************************************************************************)
PathNamesCwd ==
    AtRest => /\ Head(path) = "root"
              /\ Resolve(Root, Tail(path)) = cur.first
              /\ ents[cur.dirno][cur.diroff].first = cur.first
              /\ ents[cur.dirno][cur.diroff].attr = DIR

(***************************************************************************)
(* An open slot refers to a file that exists: the entry it would store the *)
(* length in is that file's, with the first block the slot writes to.      *)
(***************************************************************************)
HandlesLive ==
    AtRest => \A j \in 0..(MaxOpen - 1) : slots[j].attr = FILE =>
        LET e == ents[slots[j].dirno][slots[j].diroff]
        IN  e.attr = FILE /\ e.name = slots[j].name /\ e.first = slots[j].first

\* While the program runs there is a whole image, so a crash of any command but
\* exit and format falls back on one; and every whole image is a sound volume.
ImageSound ==
    /\ mode \in {"shell", "edit", "rmdir"} => host.state = "saved"
    /\ host.state = "saved" => Sound(host.fat, host.ents, host.text)

(***************************************************************************)
(* What was typed can be read back: when the edit ends the chain holds its *)
(* chunks in order, all full but the last.                                 *)
(***************************************************************************)
ReadsBack ==
    LET first == slots[fp].first
        chain == Chain(fat', first)
    IN  /\ text'[first].id = edit.id /\ text'[first].chunk = 0
        /\ \A b \in chain : text'[b].id = edit.id /\ text'[b].chunk < edit.full =>
              /\ text'[b].n = BlockSize /\ IsLink(fat', b)
              /\ text'[fat'[b]].id = edit.id
              /\ text'[fat'[b]].chunk = text'[b].chunk + 1

-----------------------------------------------------------------------------
(***************************************************************************)
(* What the program's own words promise and even a careful session breaks. *)
(***************************************************************************)
\* "the first five blocks can't be used" (disk.c), and the root stays.
ReservedKept == AtRest => Reserved(fat)

\* "write data to opened file", "read data from a opened file" (main.c): after
\* write(), read() shows what was typed, whatever the file held before.
WriteReadsBack == [][mode = "edit" /\ mode' = "shell" => ReadsBack]_vars

\* "open a file at current directory" (main.c): the slot open() selects is of
\* the file of that name in the current directory.
OpensFileOfCwd ==
    [][\A n \in Names : openFile(n) =>
          /\ slots'[fp'].dirno = cur.first
          /\ IsFileNamed(ents[cur.first][slots'[fp'].diroff], n)]_vars
=============================================================================
