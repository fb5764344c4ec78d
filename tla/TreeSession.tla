---------------------------- MODULE TreeSession -----------------------------
(***************************************************************************)
(* The tree that the tables and blocks of a careful session stand for, and *)
(* that every command does to the tree what Tree says.                     *)
(***************************************************************************)
EXTENDS CarefulSession

VARIABLE seen   \* what the state stands for: the tree, the image's, the open files

\* The directories that a walk from the root reaches, each with its block: no
\* path is longer than the path arrays let cd go.
Reached(e) ==
    LET below[i \in 0 .. MaxDepth] ==
            IF i = 0 THEN {[path |-> << >>, blk |-> Root]}
            ELSE UNION {{[path |-> Append(d.path, x.name), blk |-> x.first] :
                            x \in {e[d.blk][k] : k \in {j \in 2 .. DS - 1 :
                                e[d.blk][j].name # "" /\ e[d.blk][j].attr = DIR}}} :
                        d \in below[i - 1]}
    IN  UNION {below[i] : i \in 0 .. MaxDepth}

\* The blocks of a file, in the order of its chain.
Blocks(f, first) ==
    LET walked[i \in 0 .. NB] ==
            IF i = 0 THEN <<first>>
            ELSE LET s == walked[i - 1]
                 IN  IF IsLink(f, Last(s)) THEN Append(s, f[Last(s)]) ELSE s
    IN  walked[NB - Root]

\* A text's blocks, the directories, and each file with the text of its blocks.
TextOf(f, t, first) == LET bs == Blocks(f, first) IN [i \in 1 .. Len(bs) |-> t[bs[i]]]
TreeOf(f, e, t) ==
    LET dirs == Reached(e)
        files == UNION {{[path |-> Append(d.path, x.name), text |-> TextOf(f, t, x.first)] :
                            x \in {e[d.blk][k] : k \in {j \in 2 .. DS - 1 :
                                e[d.blk][j].name # "" /\ e[d.blk][j].attr = FILE}}} :
                        d \in dirs}
    IN  [dirs |-> {d.path : d \in dirs},
         files |-> [p \in {x.path : x \in files} |->
                       (CHOOSE x \in files : x.path = p).text]]

Top == << >>
Empty == [dirs |-> {Top}, files |-> [p \in {} |-> Top]]
FileOpened(e, s) ==
    IF s.attr # FILE THEN Top
    ELSE Append((CHOOSE d \in Reached(e) : d.blk = s.dirno).path, e[s.dirno][s.diroff].name)

\* The program runs, on bytes that are decoded.
Runs(m) == m \notin {"off", "wild"}
\* In the mode m, with an image h in the host's file and the slots o.
Stands(m, f, e, t, h, o) ==
    [tree |-> IF Runs(m) THEN TreeOf(f, e, t) ELSE Empty,
     saved |-> [state |-> h.state,
                tree |-> IF h.state = "saved" THEN TreeOf(h.fat, h.ents, h.text) ELSE Empty],
     opened |-> [j \in DOMAIN o |-> FileOpened(e, o[j])]]

AsTree == INSTANCE Tree WITH
    on <- Runs(mode), tree <- seen.tree, saved <- seen.saved, opened <- seen.opened,
    cwd <- Tail(path), sel <- fp

\* Every command of a careful session does to the tree of files and directories
\* what Tree says, and nothing else: allocation, freeing, the copies in
\* openfilelist, rmdir's loop and the image are not to be seen in it.
ImplementsTree == AsTree!Spec
=============================================================================
