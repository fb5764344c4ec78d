----------------------------- MODULE FileSystem -----------------------------
(***************************************************************************)
(* The shell of EXP5-File_System and every command it reads, over the      *)
(* simulated disk of Volume.  One action per command; the loops of rmdir() *)
(* and the edit mode of write() are several steps.  A command that only    *)
(* prints, or returns early having changed nothing, is a stuttering step   *)
(* and has no action: ls, h, read, a refused name, a name already taken, a *)
(* name not found (except by rmfile, which goes on), create in a full      *)
(* directory, close with nothing open.                                     *)
(***************************************************************************)
EXTENDS Volume, SequencesExt

CONSTANTS
    MaxOpen,    \* slots of openfilelist: MAXOPENFILE, 10
    MaxDepth,   \* path components that fit in currentdirc and currentdir
    StackSize,  \* pointers that fit in stack.c's array, 512
    Vocabulary, \* the commands the user types
    PathArgs,   \* the arguments of cd, split at '/'
    TextIds,    \* the texts typed in edit mode
    MaxFlush    \* bound: full blocks typed in one edit

ASSUME ShellAssumption ==
    /\ MaxOpen \in Nat \ {0} /\ MaxDepth \in Nat \ {0} /\ StackSize \in Nat
    /\ MaxFlush \in Nat
    /\ PathArgs \subseteq Seq(Names \cup {"", ".", ".."})
    /\ TextIds \cap {"none", "junk"} = {}
    /\ BlockSize < LengthMod

VARIABLES
    fat,    \* vhard: the two tables
    ents,   \* vhard: the blocks as directory entries
    text,   \* vhard: the blocks as typed text
    slots,  \* openfilelist
    fp,     \* fileopenptr
    cur,    \* ptrcurdir, the fields that are read
    path,   \* currentdir
    edit,   \* the locals of write()
    stack,  \* stack.c: the entries rmdir() has still to visit, top first
    scan,   \* rmdir()'s inner loop: the block and the entry it looks at
    host,   \* the image in the host's file "myfsys"
    mode    \* where the program is

disk == <<fat, ents, text>>
open == <<slots, fp>>
vars == <<fat, ents, text, slots, fp, cur, path, edit, stack, scan, host, mode>>

Modes == {"off", "shell", "edit", "rmdir", "wild"}

\* A zeroed vhard, and the host file: missing, torn, or a saved image.
ZeroFat  == [c \in Table |-> FREE]
ZeroEnts == [b \in Block |-> [k \in Index |-> Blank]]
ZeroText == [b \in Block |-> NoText]
Image(state, f, e, t) == [state |-> state, fat |-> f, ents |-> e, text |-> t]
NoImage == Image("none", ZeroFat, ZeroEnts, ZeroText)
TornImage == [NoImage EXCEPT !.state = "torn"]

EmptySlot == [name |-> "", attr |-> 0, first |-> 0, len |-> 0,
              dirno |-> 0, diroff |-> 0]
NoEdit == [id |-> "none", full |-> 0]
NoScan == [blk |-> 0, idx |-> DS]

(***************************************************************************)
(* "wild": the program goes on with bytes the model does not decode - text *)
(* or the boot record read as a directory, a store outside openfilelist or *)
(* the path arrays, a chain that crosses the cell the two tables share.    *)
(* Nothing is claimed of what it does from there.                          *)
(***************************************************************************)
DirLike(b) == b \in Block /\ text[b] = NoText
Wild == mode' = "wild" /\ UNCHANGED <<fat, ents, text, slots, fp, cur, path,
                                      edit, stack, scan, host>>
Typed(word) == mode = "shell" /\ word \in Vocabulary
Entries(b) == ents[b]
IsNamed(b, n) == \E k \in Index : Entries(b)[k].name = n

(***************************************************************************)
(* startsys(): load the image or format a new volume, then open the root   *)
(* directory in slot 0.                                                    *)
(***************************************************************************)
RootSlot(e) == [name |-> "root", attr |-> DIR, first |-> e[Root][0].first,
                len |-> e[Root][0].len, dirno |-> Root, diroff |-> 0]
NewImage == Image("saved", FormattedFat, FormattedEnts(ZeroEnts),
                  FormattedText(ZeroText))

startsys ==
    /\ mode = "off" /\ host.state # "torn"
    /\ LET v == IF host.state = "none" THEN NewImage ELSE host
       IN  /\ host' = v
           /\ fat' = v.fat /\ ents' = v.ents /\ text' = v.text
           /\ slots' = [slots EXCEPT ![0] = RootSlot(v.ents)]
           /\ cur' = [first |-> v.ents[Root][0].first, dirno |-> Root, diroff |-> 0]
    /\ path' = <<"root">> /\ fp' = 0 /\ mode' = "shell"
    /\ UNCHANGED <<edit, stack, scan>>

\* A short image leaves the rest of vhard zero: not decoded.
startsysTorn == mode = "off" /\ host.state = "torn" /\ Wild

(***************************************************************************)
(* The end of a run: the process' memory is gone.  existsys() opens the    *)
(* host file with "w", which empties it, before it writes the image; so    *)
(* does format(), typed or called by the first start.                      *)
(***************************************************************************)
ForgetMemory ==
    /\ fat' = ZeroFat /\ ents' = ZeroEnts /\ text' = ZeroText
    /\ slots' = [j \in 0..(MaxOpen - 1) |-> EmptySlot] /\ fp' = 0
    /\ cur' = [first |-> 0, dirno |-> 0, diroff |-> 0] /\ path' = <<"root">>
    /\ edit' = NoEdit /\ stack' = <<>> /\ scan' = NoScan /\ mode' = "off"

existsys == Typed("exit") /\ host' = Image("saved", fat, ents, text) /\ ForgetMemory
CrashWhileSaving == /\ "crash" \in Vocabulary
                    /\ \/ Typed("exit") \/ Typed("format")
                       \/ mode = "off" /\ host.state = "none"
                    /\ host' = TornImage /\ ForgetMemory
Crash == /\ "crash" \in Vocabulary /\ mode \in {"shell", "edit", "rmdir"}
         /\ host' = host /\ ForgetMemory

(***************************************************************************)
(* format(), typed while the shell runs: the open slots, the current       *)
(* directory and the path stay as they are.                                *)
(***************************************************************************)
\* Slip: the image is saved before the directories are cleared.
formatSavesEarly ==
    /\ Typed("format")
    /\ fat' = FormattedFat /\ ents' = FormattedEnts(ents)
    /\ text' = FormattedText(text)
    /\ host' = Image("saved", fat', ents, text')
    /\ UNCHANGED <<slots, fp, cur, path, edit, stack, scan, mode>>
format ==
    /\ Typed("format")
    /\ fat' = FormattedFat /\ ents' = FormattedEnts(ents)
    /\ text' = FormattedText(text)
    /\ host' = Image("saved", fat', ents', text')
    /\ UNCHANGED <<slots, fp, cur, path, edit, stack, scan, mode>>

\* Any command that looks in the current directory, when it is not decoded.
LostDirectory ==
    /\ \E w \in {"mkdir", "cd", "rmdir", "create", "open", "rmfile"} : Typed(w)
    /\ ~ DirLike(cur.first)
    /\ Wild

(***************************************************************************)
(* mkdir(): the first entry with no name - or the first one of the next    *)
(* block, when the directory is full - and the first FREE block, or block  *)
(* NB when there is none.  Only entries 0 and 1 of the block are written.  *)
(***************************************************************************)
mkdir(n) ==
    /\ Typed("mkdir") /\ DirLike(cur.first) /\ ~ IsNamed(cur.first, n)
    /\ \E k \in 0..DS, i \in 0..NB :
        LET at == At(cur.first, k)
            up == At(cur.dirno, cur.diroff)
            named == RootName(PutEntry(ents, at, [name |-> n, attr |-> DIR,
                                                  first |-> i, len |-> 2]), i, JunkName)
        IN  /\ StopsAt(DS, LAMBDA j : ents[cur.first][j].name = "", k)
            /\ StopsAt(NB, LAMBDA j : fat[j] = FREE, i)
            /\ IF DirLike(at.blk) /\ DirLike(up.blk) /\ DirLike(i)
               THEN /\ fat' = SetBoth(fat, i, END)
                    /\ ents' = Dotted(IncLen(named, up), i, cur.first)
                    /\ UNCHANGED <<text, slots, fp, cur, path, edit, stack, scan,
                                   host, mode>>
               ELSE Wild

(***************************************************************************)
(* cd(): walk the argument down from the current directory, rewrite the    *)
(* path component by component, then find the directory's own entry by the *)
(* last component of that path in the block its ".." points at.            *)
(***************************************************************************)
NotFound == -1
Undecoded == -2
Descend(b, c) ==
    IF b \in {NotFound, Undecoded} THEN b
    ELSE IF ~ DirLike(b) THEN Undecoded
    ELSE LET hit == {k \in Index : ents[b][k].name = c /\ ents[b][k].attr = DIR}
         IN  IF hit = {} THEN NotFound
             ELSE ents[b][CHOOSE k \in hit : \A j \in hit : k <= j].first
\* The block reached, and the path written, after each component of p.
Resolved(b, p) ==
    LET at[i \in 0..Len(p)] == IF i = 0 THEN b ELSE Descend(at[i - 1], p[i]) IN at
Resolve(b, p) == Resolved(b, p)[Len(p)]
\* Slip: ".." goes back to the root at once.
EnterTop(q, c) == CASE c = "." -> q
                    [] c = ".." -> SubSeq(q, 1, 1)
                    [] OTHER -> Append(q, c)
Enter(q, c) == CASE c = "." -> q
                 [] c = ".." -> IF Len(q) > 1 THEN Front(q) ELSE q
                 [] OTHER -> Append(q, c)
Rewritten(q, p) ==
    LET at[i \in 0..Len(p)] == IF i = 0 THEN q ELSE Enter(at[i - 1], p[i]) IN at
Rewrite(q, p) == Rewritten(q, p)[Len(p)]
PathFits(q) == q \in Seq(Names \cup {"", "root"}) /\ Len(q) \in 1..MaxDepth

cd(p) ==
    /\ Typed("cd") /\ DirLike(cur.first)
    /\ LET target == Resolve(cur.first, p)
           newPath == Rewrite(path, p)
           last == newPath[Len(newPath)]
           parent == ents[target][1].first
       IN  /\ target # NotFound
           /\ IF /\ DirLike(target) /\ DirLike(parent) /\ fp # -1
                 /\ \A j \in 0..Len(p) : PathFits(Rewritten(path, p)[j])
              THEN \E off \in 0..DS :
                 LET at == At(parent, off)
                     e == EntryAt(ents, at)
                     s == [first |-> e.first, dirno |-> ents[parent][0].first,
                           diroff |-> off]
                 IN  /\ IF last = "root" THEN off = 0
                        ELSE StopsAt(DS, LAMBDA j : ents[parent][j].name = last, off)
                     /\ IF DirLike(at.blk)
                        THEN /\ slots' = [slots EXCEPT ![fp] =
                                  [name |-> e.name, attr |-> DIR, first |-> e.first,
                                   len |-> e.len, dirno |-> s.dirno, diroff |-> off]]
                             /\ cur' = s /\ path' = newPath
                             /\ UNCHANGED <<fat, ents, text, fp, edit, stack, scan,
                                            host, mode>>
                        ELSE Wild
              ELSE Wild

(***************************************************************************)
(* create(): a full table gives the file block NB; the block is not        *)
(* cleared and the directory's length does not change.                     *)
(***************************************************************************)
create(n) ==
    /\ Typed("create") /\ DirLike(cur.first) /\ ~ IsNamed(cur.first, n)
    /\ \E k \in Index, i \in 0..NB :
        /\ StopsAt(DS, LAMBDA j : ents[cur.first][j].name = "", k)
        /\ StopsAt(NB, LAMBDA j : fat[j] = FREE, i)
        /\ fat' = SetBoth(fat, i, END)
        /\ ents' = RootName(PutEntry(ents, At(cur.first, k),
                       [name |-> n, attr |-> FILE, first |-> i, len |-> BlockSize]),
                       i, JunkName)
    /\ UNCHANGED <<text, slots, fp, cur, path, edit, stack, scan, host, mode>>

(***************************************************************************)
(* open(): the file is found by name or stem, but the slots are compared   *)
(* with what was typed; with no slot left the current one is overwritten   *)
(* (there is a current one then: NoSlotMeansFreeSlot).                     *)
(***************************************************************************)
openFile(n) ==
    /\ Typed("open") /\ DirLike(cur.first)
    /\ \E k \in Index, j \in 0..MaxOpen :
        LET e == ents[cur.first][k]
            new == [name |-> e.name, attr |-> e.attr, first |-> e.first,
                    len |-> e.len, dirno |-> cur.first, diroff |-> k]
        IN  /\ StopsAt(DS, LAMBDA x : IsFileNamed(ents[cur.first][x], n), k)
            /\ StopsAt(MaxOpen, LAMBDA x : slots[x].name \in {"", n}, j)
            /\ IF j = MaxOpen
               THEN /\ slots' = [slots EXCEPT ![fp] = new]
                    /\ UNCHANGED <<fp, mode>>
               ELSE /\ slots' = IF slots[j].name = ""
                                THEN [slots EXCEPT ![j] = new] ELSE slots
                    /\ fp' = j /\ UNCHANGED mode
    /\ UNCHANGED <<fat, ents, text, cur, path, edit, stack, scan, host>>

\* Slips of close: the name is not emptied; nothing but the name is.
closeKeepsName ==
    /\ Typed("close") /\ fp # -1 /\ slots[fp].name # ""
    /\ slots' = [slots EXCEPT ![fp] = [EmptySlot EXCEPT !.name = slots[fp].name]]
    /\ fp' = -1
    /\ UNCHANGED <<fat, ents, text, cur, path, edit, stack, scan, host, mode>>
closeNameOnly ==
    /\ Typed("close") /\ fp # -1 /\ slots[fp].name # ""
    /\ slots' = [slots EXCEPT ![fp].name = ""]
    /\ fp' = -1
    /\ UNCHANGED <<fat, ents, text, cur, path, edit, stack, scan, host, mode>>

\* close(fileopenptr)
close ==
    /\ Typed("close") /\ fp # -1 /\ slots[fp].name # ""
    /\ slots' = [slots EXCEPT ![fp] = EmptySlot]
    /\ fp' = -1
    /\ UNCHANGED <<fat, ents, text, cur, path, edit, stack, scan, host, mode>>

(***************************************************************************)
(* rmfile(): nothing checks that the search found a file.  When it did not *)
(* the pointer is past the directory, at the first entry of the next       *)
(* block, and that is what is deleted.  The walk frees a chain from its    *)
(* head and clears every block but the head; the head and the entry are    *)
(* cleared only if the walk reaches END and not a FREE cell.  The rest of  *)
(* the state is the caller's.                                              *)
(***************************************************************************)
DeleteFile(n, then) ==
    \E k \in 0..DS :
        LET at == At(cur.first, k)
            first == EntryAt(ents, at).first
            chain == Chain(fat, first)
        IN  /\ StopsAt(DS, LAMBDA j : IsFileNamed(ents[cur.first][j], n), k)
            /\ IF \/ ~ DirLike(at.blk) \/ ~ (chain \subseteq Block)
                  \/ {0, NB} \subseteq chain \/ at.blk \in chain \ {first}
               THEN mode' = "wild" /\ UNCHANGED disk
               ELSE \E last \in chain :
                    LET ended == fat[last] = END
                        freed == IF ended THEN chain ELSE chain \ {last}
                        cleared == IF ended THEN chain ELSE chain \ {first}
                        e == IF NB \in freed
                             THEN [ents EXCEPT ![Root][0].name = ""] ELSE ents
                    IN  /\ ~ IsLink(fat, last)
                        /\ fat' = FreeCells(fat, freed)
                        /\ text' = ClearText(text, cleared)
                        /\ ents' = IF ended
                                   THEN PutEntry(ClearBlocks(e, cleared), at, Blank)
                                   ELSE ClearBlocks(e, cleared)
                        /\ mode' = then

rmfile(n) ==
    /\ Typed("rmfile") /\ DirLike(cur.first)
    /\ DeleteFile(n, "shell")
    /\ UNCHANGED <<slots, fp, cur, path, edit, stack, scan, host>>

(***************************************************************************)
(* rmdir(): found by name whatever it is; then the loop over the stack.    *)
(***************************************************************************)
rmdir(n) ==
    /\ Typed("rmdir") /\ DirLike(cur.first)
    /\ \E k \in Index :
        LET up == At(cur.dirno, cur.diroff)
        IN  /\ StopsAt(DS, LAMBDA j : ents[cur.first][j].name = n, k)
            /\ IF DirLike(up.blk)
               THEN /\ ents' = DecLen(ents, up)
                    /\ stack' = <<At(cur.first, k)>>
                    /\ mode' = "rmdir"
                    /\ UNCHANGED <<fat, text, slots, fp, cur, path, edit, scan, host>>
               ELSE Wild

\* Slip: the popped entry is not cleared.
rmdirPopKeeps ==
    /\ mode = "rmdir" /\ scan.idx = DS /\ stack # <<>>
    /\ LET b == EntryAt(ents, Head(stack)).first
       IN  IF DirLike(b)
           THEN /\ scan' = [blk |-> b, idx |-> 2]
                /\ stack' = Tail(stack)
                /\ UNCHANGED <<fat, ents, text, slots, fp, cur, path, edit, host, mode>>
           ELSE Wild

\* dir = pop(): forget the entry, turn to the directory it pointed at.
rmdirPop ==
    /\ mode = "rmdir" /\ scan.idx = DS /\ stack # <<>>
    /\ LET b == EntryAt(ents, Head(stack)).first
       IN  IF DirLike(b)
           THEN /\ scan' = [blk |-> b, idx |-> 2]
                /\ stack' = Tail(stack)
                /\ ents' = PutEntry(ents, Head(stack), Blank)
                /\ UNCHANGED <<fat, text, slots, fp, cur, path, edit, host, mode>>
           ELSE Wild

(***************************************************************************)
(* One turn of the inner loop: a subdirectory's block is freed and pushed, *)
(* a file is deleted - by name, so it is looked up in the CURRENT          *)
(* directory - and anything else is passed over.                           *)
(***************************************************************************)
rmdirScan ==
    /\ mode = "rmdir" /\ scan.idx < DS
    /\ LET at == [blk |-> scan.blk, idx |-> scan.idx]
           e == EntryAt(ents, at)
       IN  \/ /\ e.name # "" /\ e.attr = DIR
              /\ IF Len(stack) < StackSize
                 THEN /\ IF fat[e.first] = END
                         THEN /\ fat' = SetBoth(fat, e.first, FREE)
                              /\ ents' = RootName(ents, e.first, "")
                         ELSE UNCHANGED <<fat, ents>>
                      /\ stack' = <<at>> \o stack
                      /\ UNCHANGED <<text, mode>>
                 ELSE mode' = "wild" /\ UNCHANGED <<fat, ents, text, stack>>
           \/ /\ e.name # "" /\ e.attr = FILE
              /\ DeleteFile(e.name, "rmdir") /\ UNCHANGED stack
           \/ /\ e.name = "" \/ e.attr = 0
              /\ UNCHANGED <<fat, ents, text, stack, mode>>
    /\ scan' = [scan EXCEPT !.idx = @ + 1]
    /\ UNCHANGED <<slots, fp, cur, path, edit, host>>

rmdirDone ==
    /\ mode = "rmdir" /\ scan.idx = DS /\ stack = <<>>
    /\ mode' = "shell" /\ scan' = NoScan
    /\ UNCHANGED <<fat, ents, text, slots, fp, cur, path, edit, stack, host>>

(***************************************************************************)
(* dowrite(): fill the last block of the chain with a chunk.  The buffer   *)
(* has no terminating NUL, so strcpy() goes on past a full block - and     *)
(* past a part of one, when the bytes after it are not NUL - and           *)
(* overwrites the first bytes of the next block of the DISK.  A full block *)
(* then gets a successor.  With a chain of several blocks fat2 was moved   *)
(* to the cell of number END, which lies in StrayBlock.                    *)
(***************************************************************************)
Spilled(e, t, b, s) ==
    IF t[b] = NoText THEN [e EXCEPT ![b][0].name = s] ELSE e
SpilledText(t, b) == IF t[b] = NoText THEN t ELSE [t EXCEPT ![b] = Junk]

StrayEnts(e, t, i) ==
    IF t[StrayBlock] = NoText
    THEN [e EXCEPT ![StrayBlock][DS - 1].len = HalfWord * i + (@ % HalfWord)] ELSE e
StrayText(t) ==
    IF t[StrayBlock].n = BlockSize THEN [t EXCEPT ![StrayBlock] = Junk] ELSE t

\* Slip: the text goes to the first block of the file instead of the last.
FilledHead(last, n) ==
    [text EXCEPT ![slots[fp].first] = [id |-> edit.id, chunk |-> edit.full, n |-> n]]
Filled(last, n) ==
    [text EXCEPT ![last] = [id |-> edit.id, chunk |-> edit.full, n |-> n]]

\* e is the entries with file->length already stored; fatError: nothing else.
dowrite(e, n, spill, fatError) ==
    LET first == slots[fp].first
        chain == Chain(fat, first)
    IN  \E last \in chain :
        LET t == Filled(last, n)
            filledE == IF spill = "no" THEN e ELSE Spilled(e, t, last + 1, spill)
            filledT == IF spill = "no" THEN t ELSE SpilledText(t, last + 1)
        IN  /\ ~ IsLink(fat, last)
            /\ fatError <=> fat[last] = FREE
            /\ \/ /\ fatError
                  /\ ents' = e /\ UNCHANGED <<fat, text>>
               \/ /\ ~ fatError /\ n < BlockSize
                  /\ ents' = filledE /\ text' = filledT /\ UNCHANGED fat
               \/ /\ ~ fatError /\ n = BlockSize
                  /\ \E i \in 0..NB :
                        /\ StopsAt(NB, LAMBDA j : fat[j] = FREE, i)
                        /\ IF last = first
                           THEN /\ fat' = SetBoth(SetBoth(fat, last, i), i, END)
                                /\ ents' = RootName(RootName(filledE, last, LinkName(i)),
                                                    i, JunkName)
                                /\ text' = filledT
                           ELSE /\ fat' = SetBoth([fat EXCEPT ![last] = i], i, END)
                                /\ ents' = RootName(StrayEnts(filledE, filledT, i),
                                                    i, JunkName)
                                /\ text' = StrayText(filledT)

(***************************************************************************)
(* What strcpy() may leave in the next block: nothing ("no"), the NUL that *)
(* ends the copy (an empty name), or bytes of the stack.  A chunk that is  *)
(* full, or that follows a full one in the same buffer, always spills.     *)
(***************************************************************************)
Spills(n) == IF n = BlockSize \/ edit.full > 0 THEN {"", JunkName}
                                               ELSE {"no", "", JunkName}
\* The bytes after block 0 are the first table.
Writable(spill) ==
    /\ Chain(fat, slots[fp].first) \subseteq Block
    /\ spill # "no" => 0 \notin Chain(fat, slots[fp].first)

write(id) ==
    /\ Typed("write")
    /\ IF fp = -1 THEN Wild
       ELSE /\ slots[fp].attr = FILE
            /\ slots' = [slots EXCEPT ![fp].len = 0]
            /\ edit' = [id |-> id, full |-> 0] /\ mode' = "edit"
            /\ UNCHANGED <<fat, ents, text, fp, cur, path, stack, scan, host>>

\* One more character after a full buffer.
writeFlush ==
    /\ mode = "edit" /\ edit.full < MaxFlush
    /\ \E spill \in Spills(BlockSize), fatError \in BOOLEAN :
        IF ~ Writable(spill) THEN Wild
        ELSE /\ dowrite(ents, BlockSize, spill, fatError)
             /\ IF fatError
                THEN mode' = "shell" /\ edit' = NoEdit /\ UNCHANGED slots
                ELSE /\ slots' = [slots EXCEPT ![fp].len = (@ + BlockSize) % LengthMod]
                     /\ edit' = [edit EXCEPT !.full = @ + 1] /\ UNCHANGED mode
             /\ UNCHANGED <<fp, cur, path, stack, scan, host>>

\* 'q': n units are in the buffer.
writeQuit(n, spill) ==
    /\ mode = "edit" /\ spill \in Spills(n)
    /\ edit.full > 0 => n > 0
    /\ LET at == At(slots[fp].dirno, slots[fp].diroff)
           len == (slots[fp].len + n) % LengthMod
       IN  IF ~ Writable(spill) \/ ~ DirLike(at.blk) THEN Wild
           ELSE /\ slots' = [slots EXCEPT ![fp].len = len]
                /\ \E fatError \in BOOLEAN :
                     dowrite(PutLen(ents, at, len), n, spill, fatError)
                /\ mode' = "shell" /\ edit' = NoEdit
                /\ UNCHANGED <<fp, cur, path, stack, scan, host>>

-----------------------------------------------------------------------------
Init ==
    /\ fat = ZeroFat /\ ents = ZeroEnts /\ text = ZeroText
    /\ slots = [j \in 0..(MaxOpen - 1) |-> EmptySlot] /\ fp = 0
    /\ cur = [first |-> 0, dirno |-> 0, diroff |-> 0] /\ path = <<"root">>
    /\ edit = NoEdit /\ stack = <<>> /\ scan = NoScan
    /\ host = NoImage /\ mode = "off"

Command(n) == mkdir(n) \/ create(n) \/ openFile(n) \/ rmfile(n) \/ rmdir(n)
RmdirStep == rmdirPop \/ rmdirScan \/ rmdirDone
Next ==
    \/ startsys \/ startsysTorn \/ existsys \/ CrashWhileSaving \/ Crash
    \/ format \/ LostDirectory \/ close \/ RmdirStep \/ writeFlush
    \/ \E n \in Names : Command(n)
    \/ \E p \in PathArgs : cd(p)
    \/ \E id \in TextIds : write(id)
    \/ \E n \in 0..BlockSize, spill \in {"no", "", JunkName} : writeQuit(n, spill)

Spec == Init /\ [][Next]_vars
\* The program runs on by itself through rmdir()'s loops.
FairSpec == Spec /\ WF_vars(RmdirStep)

-----------------------------------------------------------------------------
Pointer == [blk : Block, idx : Index]
Text == {NoText, Junk} \cup [id : TextIds, chunk : 0..MaxFlush, n : 0..BlockSize]
Slot == [name : NameText, attr : {0, DIR, FILE}, first : 0..NB,
         len : 0..(LengthMod - 1), dirno : 0..NB, diroff : 0..DS]
ImageType == [state : {"none", "torn", "saved"}, fat : [Table -> Link],
              ents : [Block -> [Index -> Entry]], text : [Block -> Text]]

\* The type of every variable, in every session.
TypeOK ==
    /\ fat \in [Table -> Link]
    /\ ents \in [Block -> [Index -> Entry]]
    /\ text \in [Block -> Text]
    /\ slots \in [0..(MaxOpen - 1) -> Slot]
    /\ fp \in -1..(MaxOpen - 1)
    /\ cur \in [first : 0..NB, dirno : 0..NB, diroff : 0..DS]
    /\ path \in Seq(Names \cup {"", "root"})
    /\ edit \in [id : TextIds \cup {"none"}, full : 0..MaxFlush]
    /\ stack \in Seq(Pointer)
    /\ scan \in [blk : Block, idx : 0..DS]
    /\ host \in ImageType
    /\ mode \in Modes

(***************************************************************************)
(* The slot that openfilelist[fileopenptr] would name after close() left   *)
(* fileopenptr at -1 is never needed: as long as it is -1 some slot is     *)
(* free, so open() always finds one before it falls back on fileopenptr.   *)
(***************************************************************************)
NoSlotMeansFreeSlot == fp = -1 => \E j \in 0..(MaxOpen - 1) : slots[j].name = ""

(***************************************************************************)
(* No walk of read(), dowrite() or rmfile() along the first table goes     *)
(* round for ever, in any session: only the root's cell is on a cycle, and *)
(* neither a file's entry, nor an open file, nor the first entry of        *)
(* another block (where a failed rmfile() starts) refers to the root.      *)
(***************************************************************************)
EndsFrom(b) == \E last \in Chain(fat, b) : ~ IsLink(fat, last)
WalksEnd ==
    /\ \A b \in 0..NB : b = Root \/ EndsFrom(b)
    /\ \A b \in Block, k \in Index :
          ents[b][k].first = Root => ents[b][k].attr = DIR /\ (k = 0 => b = Root)
    /\ \A j \in 0..(MaxOpen - 1) : slots[j].attr = FILE => slots[j].first # Root

(***************************************************************************)
(* rmdir()'s traversal with its own stack ends, whatever the directories   *)
(* look like - shared blocks and deleted parents included.                 *)
(***************************************************************************)
RmdirEnds == mode = "rmdir" ~> mode # "rmdir"
=============================================================================
