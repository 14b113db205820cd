----------------------------- MODULE VirtualDisc -----------------------------
(***************************************************************************)
(* src/t6/fs.cpp: a file system in one image file.  Each command is a      *)
(* process of its own that reads the whole image into memory (open), works *)
(* on it and writes it back (save); a process that dies on the way leaves  *)
(* the image as it was.  So a command is one step here.                    *)
(*                                                                         *)
(* Data is abstracted to slots of one directory element each: a block is   *)
(* SlotsPerBlock slots, file sizes count slots, and the files copied to    *)
(* the disc hold zeroes.  A slot that holds an element keeps it until it   *)
(* is overwritten, also while its block is free or belongs to a file: the  *)
(* code never clears a block it allocates for a directory.                 *)
(***************************************************************************)
EXTENDS Integers, Sequences, FiniteSets, SequencesExt

CONSTANTS
    InodesNum,      \* superblock.inodes_num
    BlocksNum,      \* superblock.datablocks_num
    SlotsPerBlock,  \* DIR_ELEMS_PER_BLOCK, and BLOCK_SIZE in slots
    RefMod,         \* references_num is a u_int8_t: 256
    Names,          \* names of files and directories
    MaxSize,        \* bound: sizes of copied files, sizes added and taken away
    MaxDepth,       \* bound: length of a path
    MaxWalk         \* bound: steps of the walk through a tree that is removed

ASSUME DiscAssumption == /\ InodesNum \in Nat \ {0}
                         /\ BlocksNum \in Nat \ {0}
                         /\ SlotsPerBlock \in Nat \ {0}
                         /\ RefMod \in Nat \ {0, 1}
                         /\ MaxSize \in Nat
                         /\ MaxDepth \in Nat
                         /\ MaxWalk \in Nat

Inodes == 0..(InodesNum - 1)
Blocks == 0..(BlocksNum - 1)
Slots == 1..SlotsPerBlock
Root == 0

\* Nil is (u_int64_t)-1, the end of a chain.  Wild is the (u_int32_t)-1 that
\* find_free_datablock answers on a full disc: widened to 64 bits it is not
\* Nil, so the code takes it for a block.
Nil == -1
Wild == -2
Refs == Blocks \cup {Nil, Wild}

NoElem == [id |-> -1, name |-> "-"]
Elem(i, name) == [id |-> i, name |-> name]

Paths == UNION {[1..n -> Names] : n \in 0..MaxDepth}

VARIABLE disc  \* the image: node_tab, data_map, datablock_tab

\* up is FALSE in a process that died; it never is in the image.
EmptyNode == [type |-> "EMPTY", size |-> 0, first |-> Nil, refs |-> 0]
Created ==
    [node |-> [i \in Inodes |->
                  IF i = Root THEN [EmptyNode EXCEPT !.type = "DIRECTORY", !.refs = 1]
                              ELSE EmptyNode],
     map |-> [b \in Blocks |-> FALSE],
     next |-> [b \in Blocks |-> Nil],
     slot |-> [b \in Blocks |-> [j \in Slots |-> NoElem]],
     up |-> TRUE]

Init == disc = Created

-----------------------------------------------------------------------------
(* Reading *)

MinOf(S) == CHOOSE x \in S : \A y \in S : x <= y

\* The blocks of the chain that starts at b, without its end.  A chain that
\* does not end is cut off when it has passed a block twice.
Chain(d, b) ==
    LET at[n \in 0..BlocksNum] ==
            IF n = 0 THEN b
            ELSE IF at[n - 1] \in Blocks THEN d.next[at[n - 1]] ELSE at[n - 1]
        passed == {n \in 0..BlocksNum : at[n] \in Blocks}
    IN  [k \in 1..Cardinality(passed) |-> at[k - 1]]

\* The end of that chain: Nil, Wild, or a block if it does not end.
ChainEnd(d, b) ==
    LET c == Chain(d, b)
    IN  IF c = <<>> THEN b ELSE d.next[Last(c)]

BlocksOf(d, i) == Chain(d, d.node[i].first)
EndOf(d, i) == ChainEnd(d, d.node[i].first)

FreeNodes(d) == {i \in Inodes : d.node[i].type = "EMPTY"}

\* find_free_datablock()
FindFreeDatablock(d) ==
    LET free == {b \in Blocks : ~d.map[b]}
    IN  IF free = {} THEN Wild ELSE MinOf(free)

\* find_elem_in_dir(): the first block of a directory with an element of that
\* name, and the first slot with one in it
IsDir(d, i) == d.node[i].type = "DIRECTORY"
SlotsWith(d, b, name) == {j \in Slots : d.slot[b][j].id # -1 /\ d.slot[b][j].name = name}
PlacesWith(d, dir, name) ==
    LET blocks == BlocksOf(d, dir)
    IN  {k \in 1..Len(blocks) : SlotsWith(d, blocks[k], name) # {}}
HasElem(d, dir, name) == IsDir(d, dir) /\ PlacesWith(d, dir, name) # {}
BlockOfElem(d, dir, name) == BlocksOf(d, dir)[MinOf(PlacesWith(d, dir, name))]
SlotOfElem(d, dir, name) ==
    LET b == BlockOfElem(d, dir, name) IN MinOf(SlotsWith(d, b, name))

\* find_in_dir()
FindInDir(d, dir, name) == d.slot[BlockOfElem(d, dir, name)][SlotOfElem(d, dir, name)].id

\* find_dir_inode(): the directory a path leads to, or -1
Enter(d, dir, name) ==
    LET i == FindInDir(d, dir, name)
    IN  IF dir # -1 /\ HasElem(d, dir, name) /\ IsDir(d, i) THEN i ELSE -1
FindDir(d, path) ==
    LET dir[n \in 0..Len(path)] == IF n = 0 THEN Root ELSE Enter(d, dir[n - 1], path[n])
    IN  dir[Len(path)]

-----------------------------------------------------------------------------
(* Writing.  Each operator takes the memory of a process and answers it    *)
(* changed.  An access through Wild or past a null pointer ends the process.*)

Dies(d) == [d EXCEPT !.up = FALSE]

\* Block number b, which may be Nil or Wild, is put behind the last block of
\* inode i; a free block is taken for the inode.
Attach(d, i, b) ==
    LET blocks == BlocksOf(d, i)
    IN  IF blocks = <<>> THEN [d EXCEPT !.node[i].first = b]
                         ELSE [d EXCEPT !.next[Last(blocks)] = b]
Take(d, i, b) == [Attach(d, i, b) EXCEPT !.map[b] = TRUE]

FreeSlots(d, b) == {j \in Slots : d.slot[b][j].id = -1}
WithRoom(d, dir) == {b \in ToSet(BlocksOf(d, dir)) : FreeSlots(d, b) # {}}
FillSlots(d, dir, elem) ==
    LET room == WithRoom(d, dir)
    IN  [d EXCEPT !.slot = [b \in Blocks |->
            IF b \in room THEN [d.slot[b] EXCEPT ![MinOf(FreeSlots(d, b))] = elem]
                          ELSE d.slot[b]]]

\* Mutant of InsertElem: a new block of a directory is not marked.
InsertElemUnmarked(d, dir, elem) ==
    LET new == FindFreeDatablock(d)
    IN  IF WithRoom(d, dir) # {} THEN FillSlots(d, dir, elem)
        ELSE IF new = Wild THEN Dies(d)
        ELSE [Attach(d, dir, new) EXCEPT !.slot[new][1] = elem]

\* The end of add_elem_to_dir() and of make_dir(): the element goes into the
\* first free slot of EVERY block of the directory that has one (the break
\* leaves the inner loop only); if none has, into a new last block.
InsertElem(d, dir, elem) ==
    LET new == FindFreeDatablock(d)
    IN  IF WithRoom(d, dir) # {} THEN FillSlots(d, dir, elem)
        ELSE IF new = Wild THEN Dies(d)
        ELSE [Take(d, dir, new) EXCEPT !.slot[new][1] = elem]

\* add_elem_to_dir()
AddElemToDir(d, dir, elem) ==
    LET new == FindFreeDatablock(d)
    IN  IF d.node[dir].first # Nil THEN InsertElem(d, dir, elem)
        ELSE IF new = Wild THEN Dies(d)
        ELSE InsertElem(Take(d, dir, new), dir, elem)

\* make_dir() puts the first element of a directory into the first slot.
AddDirToDir(d, dir, elem) ==
    LET new == FindFreeDatablock(d)
    IN  IF d.node[dir].first # Nil THEN InsertElem(d, dir, elem)
        ELSE IF new = Wild THEN Dies(d)
        ELSE [Take(d, dir, new) EXCEPT !.slot[new][1] = elem]

\* Mutants of Dealloc: only the first block is marked free; the blocks keep
\* their next.
DeallocFirst(d, b) ==
    LET freed == ToSet(Chain(d, b))
    IN  IF ChainEnd(d, b) = Wild THEN Dies(d)
        ELSE [d EXCEPT !.next = [x \in Blocks |-> IF x \in freed THEN Nil ELSE d.next[x]],
                       !.map = [x \in Blocks |-> x # b /\ d.map[x]]]
DeallocKeepsNext(d, b) ==
    LET freed == ToSet(Chain(d, b))
    IN  IF ChainEnd(d, b) = Wild THEN Dies(d)
        ELSE [d EXCEPT !.map = [x \in Blocks |-> x \notin freed /\ d.map[x]]]

\* dealloc_datablocks()
Dealloc(d, b) ==
    LET freed == ToSet(Chain(d, b))
    IN  IF ChainEnd(d, b) = Wild THEN Dies(d)
        ELSE [d EXCEPT !.next = [x \in Blocks |-> IF x \in freed THEN Nil ELSE d.next[x]],
                       !.map = [x \in Blocks |-> x \notin freed /\ d.map[x]]]

\* The end of remove_file().  The elements of a directory stay in the blocks.
Drop(d, i) == [Dealloc(d, d.node[i].first) EXCEPT !.node[i] = EmptyNode]

\* remove_file() calls itself in its loop over the elements of a directory.
\* The stack holds the calls that are not finished, the last one first, each
\* with the block and the slot it looks at next; StartRemove is a call up to
\* the loop, RemoveStep one round of the loop, or what follows it.
Frame(i, b, j) == [inode |-> i, block |-> b, slot |-> j]
StartRemove(d, stack, i) ==
    LET counted == [d EXCEPT !.node[i].refs = (@ - 1) % RefMod]
        block == IF IsDir(d, i) THEN d.node[i].first ELSE Nil
    IN  [d |-> counted,
         stack |-> IF counted.node[i].refs # 0 THEN stack ELSE <<Frame(i, block, 1)>> \o stack]
RemoveStep(w) ==
    LET top == Head(w.stack)
        goto(b, j) == <<Frame(top.inode, b, j)>> \o Tail(w.stack)
        id == w.d.slot[top.block][top.slot].id
    IN  IF w.stack = <<>> \/ ~w.d.up THEN w
        ELSE IF top.block = Nil THEN [d |-> Drop(w.d, top.inode), stack |-> Tail(w.stack)]
        ELSE IF top.block = Wild THEN [w EXCEPT !.d = Dies(@)]
        ELSE IF top.slot > SlotsPerBlock THEN [w EXCEPT !.stack = goto(w.d.next[top.block], 1)]
        ELSE IF id = -1 THEN [w EXCEPT !.stack = goto(top.block, top.slot + 1)]
        ELSE StartRemove(w.d, goto(top.block, top.slot + 1), id)

\* remove_file()
RemoveFile(d, i) ==
    LET after[n \in 0..MaxWalk] ==
            IF n = 0 THEN StartRemove(d, <<>>, i) ELSE RemoveStep(after[n - 1])
        done == after[MaxWalk]
    IN  IF done.stack = <<>> THEN done.d ELSE Dies(done.d)

\* Zeroes the slots from..to of a block.
Zeroed(d, b, from, to) ==
    [d EXCEPT !.slot[b] = [j \in Slots |-> IF j \in from..to THEN NoElem ELSE d.slot[b][j]]]

\* Block b is taken for inode i and its first slots get data.
TakeZeroed(d, i, b, amount) ==
    [Zeroed(Take(d, i, b), b, 1, amount) EXCEPT !.node[i].size = @ + amount]

AtMost(n, m) == IF n < m THEN n ELSE m

\* One round of the loop of copy_file_to_disc() with rest slots to read into
\* the block that was found last, whose number is put down together with
\* what becomes of it.  The end of the input is noticed by a short read only,
\* so after a file that fills its last block one more block is found, and
\* given back (remove_datablock_from_inode()).  fread into Wild is refused by
\* the kernel and reported as an error of the input, upon which the image is
\* saved; at the end of the input it may answer 0 (atEnd).
ReadBlock(m, i, atEnd) ==
    LET b == FindFreeDatablock(m.d)
        here == AtMost(m.rest, SlotsPerBlock)
        read == TakeZeroed(m.d, i, b, here)
    IN  IF ~m.more THEN m
        ELSE IF m.rest = 0 /\ (b # Wild \/ atEnd)
        THEN [d |-> Attach(m.d, i, Nil), rest |-> 0, more |-> FALSE]
        ELSE IF b = Wild THEN [d |-> Attach(m.d, i, Wild), rest |-> m.rest, more |-> FALSE]
        ELSE [d |-> IF here < SlotsPerBlock THEN [read EXCEPT !.next[b] = Nil] ELSE read,
              rest |-> m.rest - here,
              more |-> here = SlotsPerBlock]

\* That loop: each round but the last takes a free block.
ReadInto(d, i, size, atEnd) ==
    LET after[n \in 0..(BlocksNum + 1)] ==
            IF n = 0 THEN [d |-> d, rest |-> size, more |-> TRUE]
                     ELSE ReadBlock(after[n - 1], i, atEnd)
    IN  after[BlocksNum + 1].d

\* One round of the loop of increase_file_size(), and the loop.
ExtendBlock(m, i) ==
    LET b == FindFreeDatablock(m.d)
        here == AtMost(m.rest, SlotsPerBlock)
    IN  IF m.rest = 0 \/ ~m.d.up THEN m
        ELSE IF b = Wild THEN [m EXCEPT !.d = Dies(@)]
        ELSE [d |-> TakeZeroed(m.d, i, b, here), rest |-> m.rest - here]
Extend(d, i, amount) ==
    LET after[n \in 0..(BlocksNum + 1)] ==
            IF n = 0 THEN [d |-> d, rest |-> amount] ELSE ExtendBlock(after[n - 1], i)
    IN  after[BlocksNum + 1].d

\* Mutant of BlocksFor: without the block that is not full.
BlocksForFull(size) == size \div SlotsPerBlock

\* The blocks a file of that size is given in decrease_file_size(), and its
\* loop and end: inode i keeps so many blocks.
BlocksFor(size) == (size + SlotsPerBlock - 1) \div SlotsPerBlock

\* Mutant of Shorten: the last block that is kept still leads on.
ShortenLeadsOn(d, i, kept) ==
    LET blocks == BlocksOf(d, i)
        freed == Dealloc(d, IF kept = 0 THEN d.node[i].first ELSE d.next[blocks[kept]])
    IN  IF kept = 0 THEN [freed EXCEPT !.node[i].first = Nil] ELSE freed

Shorten(d, i, kept) ==
    LET blocks == BlocksOf(d, i)
        freed == Dealloc(d, IF kept = 0 THEN d.node[i].first ELSE d.next[blocks[kept]])
    IN  IF kept = 0 THEN [freed EXCEPT !.node[i].first = Nil]
                    ELSE [freed EXCEPT !.next[blocks[kept]] = Nil]

-----------------------------------------------------------------------------
(* Commands.  A command refused with a message changes nothing and is no   *)
(* step; save() writes the memory of a process that is still up.           *)

Save(d) == d.up /\ disc' = d

\* cpto: copy_file_to_disc()
Cpto(name, path) ==
    LET dir == FindDir(disc, path)
        i == MinOf(FreeNodes(disc))
        named == AddElemToDir([disc EXCEPT !.node[i].refs = 1,
                                           !.node[i].type = "FILE",
                                           !.node[i].size = 0],
                              dir, Elem(i, name))
    IN  /\ dir # -1
        /\ ~HasElem(disc, dir, name)
        /\ FreeNodes(disc) # {}
        /\ named.up
        /\ \E size \in 0..MaxSize, atEnd \in BOOLEAN : Save(ReadInto(named, i, size, atEnd))

\* mkdir: make_dir(), one new directory for each name of the path that is
\* missing.  Without a free inode it stops, keeping those it has made.
MakeDirAt(at, name) ==
    LET d == at.d
        i == MinOf(FreeNodes(d))
    IN  IF at.stop THEN at
        ELSE IF HasElem(d, at.dir, name)
        THEN IF IsDir(d, FindInDir(d, at.dir, name))
             THEN [at EXCEPT !.dir = FindInDir(d, at.dir, name)]
             ELSE [at EXCEPT !.stop = TRUE]
        ELSE IF FreeNodes(d) = {} THEN [at EXCEPT !.stop = TRUE]
        ELSE LET new == AddDirToDir([d EXCEPT !.node[i].refs = 1,
                                              !.node[i].type = "DIRECTORY"],
                                    at.dir, Elem(i, name))
             IN  [d |-> new, dir |-> i, stop |-> ~new.up]

Mkdir(path) ==
    LET at[n \in 0..Len(path)] ==
            IF n = 0 THEN [d |-> disc, dir |-> Root, stop |-> FALSE]
                     ELSE MakeDirAt(at[n - 1], path[n])
    IN  Save(at[Len(path)].d)

\* link: link(), which does not look whether the new name is taken
Link(path, name, linkPath, linkName) ==
    LET dir == FindDir(disc, path)
        linkDir == FindDir(disc, linkPath)
        i == FindInDir(disc, dir, name)
    IN  /\ dir # -1 /\ HasElem(disc, dir, name) /\ linkDir # -1
        /\ Save(AddElemToDir([disc EXCEPT !.node[i].refs = (@ + 1) % RefMod],
                             linkDir, Elem(i, linkName)))

\* rm and unlink: unlink().  The element is looked up again after the file
\* is removed; a directory that is gone by then is a null pointer.
Unlink(path, name) ==
    LET dir == FindDir(disc, path)
        d == RemoveFile(disc, FindInDir(disc, dir, name))
    IN  /\ dir # -1 /\ HasElem(disc, dir, name)
        /\ Save(IF d.up /\ HasElem(d, dir, name)
                THEN [d EXCEPT !.slot[BlockOfElem(d, dir, name)][SlotOfElem(d, dir, name)]
                                = NoElem]
                ELSE Dies(d))

\* Mutant of Dec: without the check of the amount.
DecUnchecked(path, name, amount) ==
    LET dir == FindDir(disc, path)
        i == FindInDir(disc, dir, name)
        size == disc.node[i].size - amount
    IN  /\ dir # -1 /\ HasElem(disc, dir, name) /\ disc.node[i].type = "FILE"
        /\ Save(Shorten([disc EXCEPT !.node[i].size = size], i, BlocksFor(size)))

\* dec: decrease_file_size()
Dec(path, name, amount) ==
    LET dir == FindDir(disc, path)
        i == FindInDir(disc, dir, name)
        size == disc.node[i].size - amount
    IN  /\ dir # -1 /\ HasElem(disc, dir, name) /\ disc.node[i].type = "FILE"
        /\ amount <= disc.node[i].size
        /\ Save(Shorten([disc EXCEPT !.node[i].size = size], i, BlocksFor(size)))

\* inc: increase_file_size() of a file that has a block.  On an empty file
\* the code reads datablock_tab[-1], which is outside of this model.
Inc(path, name, amount) ==
    LET dir == FindDir(disc, path)
        i == FindInDir(disc, dir, name)
        blocks == BlocksOf(disc, i)
        used == disc.node[i].size % SlotsPerBlock
        room == IF used = 0 THEN 0 ELSE SlotsPerBlock - used
        here == AtMost(amount, room)
        filled == [Zeroed(disc, Last(blocks), used + 1, used + here)
                      EXCEPT !.node[i].size = @ + here]
    IN  /\ dir # -1 /\ HasElem(disc, dir, name) /\ disc.node[i].type = "FILE"
        /\ disc.node[i].first # Nil
        /\ EndOf(disc, i) # Wild  \* else the process dies following the chain
        /\ Save(Extend(filled, i, amount - here))

Next ==
    \E path \in Paths, name \in Names :
        \/ Cpto(name, path)
        \/ Mkdir(Append(path, name))
        \/ \E linkPath \in Paths, linkName \in Names : Link(path, name, linkPath, linkName)
        \/ Unlink(path, name)
        \/ \E amount \in 1..MaxSize : Dec(path, name, amount)
        \/ \E amount \in 1..MaxSize : Inc(path, name, amount)

Spec == Init /\ [][Next]_disc

-----------------------------------------------------------------------------
InUse(d) == {i \in Inodes : d.node[i].type # "EMPTY"}
Owned(d, i) == ToSet(BlocksOf(d, i))

\* Type invariant.
TypeOK ==
    /\ disc.node \in [Inodes -> [type : {"EMPTY", "FILE", "DIRECTORY"}, size : Nat,
                                 first : Refs, refs : 0..(RefMod - 1)]]
    /\ disc.map \in [Blocks -> BOOLEAN]
    /\ disc.next \in [Blocks -> Refs]
    /\ disc.slot \in [Blocks -> [Slots -> {NoElem} \cup {Elem(i, n) : i \in Inodes, n \in Names}]]
    /\ disc.up

\* No block belongs to two files or directories, nor twice to one.
ChainsDisjoint ==
    /\ \A i, j \in Inodes : i # j => Owned(disc, i) \cap Owned(disc, j) = {}
    /\ \A i \in Inodes : EndOf(disc, i) \notin Blocks

\* The data map marks exactly the blocks that belong to some file or
\* directory: none is lost, none can be given away twice.
MapExact ==
    \A b \in Blocks : disc.map[b] <=> \E i \in InUse(disc) : b \in Owned(disc, i)

\* A file has the blocks its size needs, unless the disc was full.
SizeMatches ==
    \A i \in Inodes : disc.node[i].type = "FILE" /\ EndOf(disc, i) = Nil =>
        Len(BlocksOf(disc, i)) * SlotsPerBlock - disc.node[i].size \in 0..(SlotsPerBlock - 1)

\* What is free is clean: mkdir and add_elem_to_dir take a free inode and a
\* free block without setting size, first_data_block and next.
FreeIsClean ==
    /\ \A i \in FreeNodes(disc) : disc.node[i].first = Nil /\ disc.node[i].size = 0
    /\ \A b \in Blocks : ~disc.map[b] => disc.next[b] = Nil

\* A command that changes a file (its size, its blocks, what is in them)
\* changes nothing else: no other file through a shared block, no directory.
Data(d, i) == <<d.node[i].size, BlocksOf(d, i), [b \in Owned(d, i) |-> d.slot[b]]>>
Changed == {i \in Inodes : /\ disc.node[i].type = disc'.node[i].type
                          /\ Data(disc', i) # Data(disc, i)}
FilesApart ==
    [][LET changed == Changed
       IN  \A i, j \in changed : disc.node[i].type = "FILE" => i = j]_disc

\* Elements of directories in use name inodes in use: a file is removed only
\* when its last name is.
NoDangling ==
    \A i \in InUse(disc) : IsDir(disc, i) =>
        \A b \in Owned(disc, i), j \in Slots :
            disc.slot[b][j].id # -1 => disc.slot[b][j].id \in InUse(disc)
=============================================================================
