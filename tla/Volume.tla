------------------------------- MODULE Volume -------------------------------
(***************************************************************************)
(* The simulated disk of EXP5-File_System: the byte array "vhard" seen as  *)
(* a file allocation table, directory blocks and text blocks, and the     *)
(* lookups the commands make in it.  No variables: pure operators only.    *)
(*                                                                         *)
(* The two tables (const.h, mkdir's "table" and "table2") are 2*NB cells   *)
(* in a row, so cell NB is both "one past the first table" and the first   *)
(* cell of the second: the commands that find no free block use it.        *)
(***************************************************************************)
EXTENDS Integers, Sequences, FiniteSets

CONSTANTS
    NB,         \* cells of one table: 2*BLOCKSIZE/sizeof(fat), 1024
    DS,         \* entries of a directory block: BLOCKSIZE/sizeof(fcb), 32
    BlockSize,  \* units of text in a block: BLOCKSIZE
    HalfWord,   \* values of an unsigned short, 65536
    StrayBlock, \* the block a table-2 cell of number END falls in, 130
    LastWiped,  \* the last block the loops of format() clear wholly, 21
    PartWiped,  \* the entries they clear in the block after it, 17
    Names,      \* valid names the user may type (at most 10 characters)
    Stem,       \* Stem[n]: the name up to its last dot
    JunkName    \* a name whose first bytes were overwritten

Root == 5       \* the literal root block of format(), startsys() and cd()
FREE == 0
END  == HalfWord - 1
DIR  == 4       \* attribute of a directory
FILE == 5       \* attribute of a file

ASSUME SizesAssumption ==
    /\ NB \in Nat /\ NB > Root /\ DS \in Nat /\ DS > 2
    /\ BlockSize \in Nat \ {0}
    /\ HalfWord \in Nat /\ HalfWord > NB + 2 /\ HalfWord > DS
    /\ StrayBlock \in Root..(NB + 1) /\ LastWiped \in Root..NB
    /\ PartWiped \in 0..DS

ASSUME NamesAssumption ==
    /\ Names \cap {"", ".", "..", JunkName} = {}
    /\ Stem \in [Names -> Names]

(***************************************************************************)
(* The blocks a command can reach: block 0 holds the boot record, 1..4 the *)
(* tables; NB + 1 is the block after the last one that can be allocated.   *)
(***************************************************************************)
Block == {0} \cup (Root..(NB + 1))
Table == 0..(2 * NB - 1)
Index == 0..(DS - 1)
Link  == {FREE, END} \cup 1..NB
NameText == Names \cup {"", ".", "..", "root", JunkName}
LengthMod == HalfWord * HalfWord
Entry == [name : NameText, attr : {0, DIR, FILE}, first : 0..NB,
          len : 0..(LengthMod - 1)]
Blank == [name |-> "", attr |-> 0, first |-> 0, len |-> 0]

(***************************************************************************)
(* What a block's bytes are, besides directory entries.  NoText: its       *)
(* entries are the block.  Junk: bytes the model does not decode (the boot *)
(* record, text whose bytes were damaged).  Otherwise chunk number "chunk" *)
(* of a typed text, of which the first "n" units are in the block.         *)
(***************************************************************************)
NoText == [id |-> "none", chunk |-> 0, n |-> 0]
Junk   == [id |-> "junk", chunk |-> 0, n |-> 0]

(***************************************************************************)
(* k is where a loop "for(k = 0; k < n; k++) if(Test(k)) break;" stops.    *)
(***************************************************************************)
StopsAt(n, Test(_), k) ==
    /\ k \in 0..n
    /\ k < n => Test(k)
    /\ \A j \in 0..(n - 1) : j < k => ~ Test(j)

(***************************************************************************)
(* An fcb pointer moved k entries from the start of block b: after the     *)
(* last entry it is in the next block.                                     *)
(***************************************************************************)
At(b, k) == IF k = DS THEN [blk |-> b + 1, idx |-> 0]
                      ELSE [blk |-> b, idx |-> k]
EntryAt(e, at) == e[at.blk][at.idx]
PutEntry(e, at, x) == [e EXCEPT ![at.blk][at.idx] = x]

\* Slips of length--: without the wrap of an unsigned int; forgotten.
DecNoWrap(l) == l - 1
DecForgotten(l) == l
Inc(l) == IF l + 1 = LengthMod THEN 0 ELSE l + 1
Dec(l) == IF l = 0 THEN LengthMod - 1 ELSE l - 1
PutLen(e, at, l) == [e EXCEPT ![at.blk][at.idx].len = l]
IncLen(e, at) == PutLen(e, at, Inc(EntryAt(e, at).len))
DecLen(e, at) == PutLen(e, at, Dec(EntryAt(e, at).len))

\* Slip: "." and ".." the wrong way round.
DottedSwapped(e, b, parent) ==
    [e EXCEPT ![b][0] = [name |-> ".", attr |-> DIR, first |-> parent, len |-> 1],
              ![b][1] = [name |-> "..", attr |-> DIR, first |-> b, len |-> 1]]
\* The two entries mkdir() makes in the block b of a new directory.
Dotted(e, b, parent) ==
    [e EXCEPT ![b][0] = [name |-> ".", attr |-> DIR, first |-> b, len |-> 1],
              ![b][1] = [name |-> "..", attr |-> DIR, first |-> parent, len |-> 1]]

(***************************************************************************)
(* The lookup of open() and rmfile(): a file by its name or by its stem.   *)
(***************************************************************************)
StemOf(m) == IF m \in Names THEN Stem[m] ELSE m
IsFileNamed(x, n) == /\ x.attr = FILE
                     /\ x.name = n \/ StemOf(x.name) = n

(***************************************************************************)
(* "table->id = v; table2->id = v" for cell i of both tables.  For i = NB  *)
(* the second store falls on the name of the root block's first entry.     *)
(***************************************************************************)
\* Slips: a block marked with its own number, as format() marks the root; the
\* first table forgotten.
SetBothSelf(f, i, v) ==
    LET w == IF v = END THEN i ELSE v
    IN  IF i = NB THEN [f EXCEPT ![NB] = w]
                  ELSE [f EXCEPT ![i] = w, ![NB + i] = w]
SetSecondOnly(f, i, v) == IF i = NB THEN f ELSE [f EXCEPT ![NB + i] = v]
SetBoth(f, i, v) ==
    IF i = NB THEN [f EXCEPT ![NB] = v]
              ELSE [f EXCEPT ![i] = v, ![NB + i] = v]
RootName(e, i, nm) ==
    IF i = NB THEN [e EXCEPT ![Root][0].name = nm] ELSE e
\* The name that block number i makes there: its low byte comes first.
LinkName(i) == IF i % 256 = 0 THEN "" ELSE JunkName

(***************************************************************************)
(* Walking a chain of table 1 from block b: the blocks it passes, as the   *)
(* smallest set that holds b and is closed under links.                    *)
(***************************************************************************)
IsLink(f, c) == f[c] # FREE /\ f[c] # END
Closed(f, S) == \A x \in S : IsLink(f, x) => f[x] \in S
Chain(f, b) ==
    LET cand == {b} \cup {f[x] : x \in {y \in 0..NB : IsLink(f, y)}}
    IN  {x \in cand : \A S \in SUBSET cand : b \in S /\ Closed(f, S) => x \in S}

FreeCells(f, S) ==
    [c \in Table |-> IF c \in S \/ (c - NB) \in S THEN FREE ELSE f[c]]
ClearBlocks(e, S) ==
    [b \in Block |-> IF b \in S THEN [k \in Index |-> Blank] ELSE e[b]]
\* A slip: the memset forgotten.
ClearTextForgotten(t, S) == t
ClearText(t, S) == [b \in Block |-> IF b \in S THEN NoText ELSE t[b]]

(***************************************************************************)
(* format() on tables, entries and text: the loops over 6..SIZE/BLOCKSIZE  *)
(* run through both tables and on into the data blocks, so table 2 ends up *)
(* all FREE and blocks up to LastWiped (and a part of the next) cleared.   *)
(***************************************************************************)
\* Slip: one reserved block too few.
FormattedFatShort ==
    [c \in Table |-> IF c < Root - 1 THEN END ELSE IF c = Root THEN Root ELSE FREE]
FormattedFat ==
    [c \in Table |-> IF c < Root THEN END ELSE IF c = Root THEN Root ELSE FREE]
FormattedEnts(e) ==
    LET wiped(b, k) == b \in Root..LastWiped
                       \/ (b = LastWiped + 1 /\ k < PartWiped)
        swept == [b \in Block |-> [k \in Index |->
                     IF wiped(b, k) THEN Blank ELSE e[b][k]]]
    IN  [swept EXCEPT
            ![Root][0] = [name |-> ".", attr |-> DIR, first |-> Root, len |-> 2],
            ![Root][1] = [name |-> "..", attr |-> DIR, first |-> Root, len |-> 1]]
FormattedText(t) ==
    [b \in Block |-> CASE b = 0 -> Junk
                       [] b \in Root..LastWiped -> NoText
                       [] b = LastWiped + 1 /\ t[b] # NoText -> Junk
                       [] OTHER -> t[b]]
=============================================================================
