-------------------------------- MODULE Tree --------------------------------
(***************************************************************************)
(* What the file system of EXP5-File_System is to its user: a tree of      *)
(* directories and files, a current directory, open files, and the tree    *)
(* that the next start brings back.  No blocks, tables or entries.         *)
(***************************************************************************)
EXTENDS Integers, SequencesExt

CONSTANTS
    Names, Stem, PathArgs, TextIds, BlockSize, MaxOpen, MaxFlush,
    NoText      \* a piece of a file nothing was written to

VARIABLES
    on,         \* the program runs
    tree,       \* the paths of the directories, and the pieces of each file
    saved,      \* the host's file: none yet, half written, or with a tree
    cwd,        \* the current directory
    opened,     \* the file each slot has open
    sel,        \* the slot that read, write and close are about, -1 for none
    edit        \* the text being typed, and how many full pieces went out

vars == <<on, tree, saved, cwd, opened, sel, edit>>

\* A path is the names from the root down; the root is no file.
Top == << >>
NoFile == Top
Empty == [dirs |-> {Top}, files |-> [f \in {} |-> << >>]]
Nothing == [j \in 0 .. MaxOpen - 1 |-> NoFile]
NoEdit == [id |-> "none", full |-> 0]
Image(state, t) == [state |-> state, tree |-> t]

Idle == on /\ edit = NoEdit
Named(f, n) == Front(f) = cwd /\ (Last(f) = n \/ Stem[Last(f)] = n)
New(n) == Append(cwd, n) \notin tree.dirs \cup DOMAIN tree.files
Pieces(f) == tree.files[f]

-----------------------------------------------------------------------------
\* Nothing is said of a start from a file that is half written.
startsys ==
    /\ ~on /\ on' = TRUE /\ saved.state # "torn"
    /\ cwd' = Top /\ opened' = Nothing /\ sel' = 0 /\ edit' = edit
    /\ tree' = saved.tree /\ saved' = Image("saved", saved.tree)

Stop ==
    /\ on' = FALSE
    /\ cwd' = Top /\ opened' = Nothing /\ sel' = 0 /\ edit' = NoEdit /\ tree' = Empty

exitsys == Idle /\ Stop /\ saved' = Image("saved", tree)
Crash == on /\ Stop /\ saved' = saved

\* A crash while exit, format or the first start writes the file: all is lost.
CrashSaving ==
    /\ Idle \/ (~on /\ saved.state = "none")
    /\ Stop /\ saved' = Image("torn", Empty)

format ==
    /\ Idle /\ cwd = Top /\ opened = Nothing
    /\ UNCHANGED <<on, cwd, sel, edit, opened>>
    /\ tree' = Empty /\ saved' = Image("saved", Empty)

mkdir(n) ==
    /\ Idle /\ New(n)
    /\ tree' = [tree EXCEPT !.dirs = @ \cup {Append(cwd, n)}]
    /\ UNCHANGED <<on, saved, cwd, opened, sel, edit>>

\* The directory and all that is below it.
rmdir(n) ==
    /\ Idle /\ Append(cwd, n) \in tree.dirs
    /\ tree' = [tree EXCEPT !.dirs = {d \in @ : ~IsPrefix(Append(cwd, n), d)}]
    /\ UNCHANGED <<on, saved, cwd, opened, sel, edit>>

Enter(d, c) ==
    CASE c = "." -> d
      [] c = ".." -> IF d = Top THEN Top ELSE Front(d)
      [] OTHER -> Append(d, c)

\* The slot that was selected has no file open any more.
cd(p) ==
    /\ Idle /\ sel # -1
    /\ \A j \in 0 .. Len(p) : FoldLeft(Enter, cwd, SubSeq(p, 1, j)) \in tree.dirs
    /\ cwd' = FoldLeft(Enter, cwd, p)
    /\ opened' = [opened EXCEPT ![sel] = NoFile]
    /\ UNCHANGED <<on, tree, saved, sel, edit>>

create(n) ==
    /\ Idle /\ New(n)
    /\ tree' = [tree EXCEPT !.files =
                  [f \in DOMAIN @ \cup {Append(cwd, n)} |->
                      IF f = Append(cwd, n) THEN <<NoText>> ELSE @[f]]]
    /\ UNCHANGED <<on, saved, cwd, opened, sel, edit>>

rmfile(n) ==
    /\ Idle
    /\ \E f \in DOMAIN tree.files :
          /\ Named(f, n) /\ \A j \in DOMAIN opened : opened[j] # f
          /\ tree' = [tree EXCEPT !.files = [g \in DOMAIN @ \ {f} |-> @[g]]]
    /\ UNCHANGED <<on, saved, cwd, opened, sel, edit>>

\* Some file of that name: opened in a slot, or in the slot where a file of
\* the name typed, here or elsewhere, is taken to be open.
openFile(n) ==
    /\ Idle
    /\ \E f \in DOMAIN tree.files, j \in DOMAIN opened :
          /\ Named(f, n)
          /\ \/ opened' = [opened EXCEPT ![j] = f]
             \/ opened' = opened /\ (opened[j] = NoFile \/ Last(opened[j]) = n)
          /\ sel' = j
    /\ UNCHANGED <<on, tree, saved, cwd, edit>>

close ==
    /\ Idle /\ sel # -1
    /\ opened' = [opened EXCEPT ![sel] = NoFile] /\ sel' = -1
    /\ UNCHANGED <<on, tree, saved, cwd, edit>>

write(id) ==
    /\ Idle /\ sel # -1 /\ opened[sel] # NoFile
    /\ edit' = [id |-> id, full |-> 0]
    /\ UNCHANGED <<on, tree, saved, cwd, opened, sel>>

\* The last piece of the file becomes what was typed; a full one gets a
\* successor.  Every other piece, and every other file, is as it was.
Put(n) ==
    LET f == opened[sel]
        piece == [id |-> edit.id, chunk |-> edit.full, n |-> n]
        filled == Append(Front(Pieces(f)), piece)
    IN  tree' = [tree EXCEPT !.files[f] =
                    IF n = BlockSize THEN Append(filled, NoText) ELSE filled]

writeFlush ==
    /\ on /\ edit # NoEdit
    /\ Put(BlockSize)
    /\ edit' = [edit EXCEPT !.full = @ + 1]
    /\ UNCHANGED <<on, saved, cwd, opened, sel>>

writeQuit(n) ==
    /\ on /\ edit # NoEdit
    /\ Put(n)
    /\ edit' = NoEdit
    /\ UNCHANGED <<on, saved, cwd, opened, sel>>

-----------------------------------------------------------------------------
Init ==
    /\ on = FALSE /\ tree = Empty /\ saved = Image("none", Empty) /\ cwd = Top
    /\ opened = Nothing /\ sel = 0 /\ edit = NoEdit

Next ==
    \/ startsys \/ exitsys \/ Crash \/ CrashSaving \/ format \/ close \/ writeFlush
    \/ \E n \in Names : mkdir(n) \/ rmdir(n) \/ create(n) \/ rmfile(n) \/ openFile(n)
    \/ \E p \in PathArgs : cd(p)
    \/ \E id \in TextIds : write(id)
    \/ \E n \in 0 .. BlockSize : writeQuit(n)

Spec == Init /\ [][Next]_vars
=============================================================================
