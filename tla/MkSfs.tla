------------------------------- MODULE MkSfs -------------------------------
(* tools/mksfs.c, which writes the first image of the simple file system.     *)
(* Blocks are handed out in order, the inodes and indirect blocks are kept in *)
(* memory and written at the end.  The home directory is a sequence of files  *)
(* [name, dir = FALSE, size] and directories [name, dir = TRUE, list].  Links *)
(* and the double indirect block, which the kernel does not read, are left    *)
(* out.                                                                       *)
EXTENDS Sfs, TLC

create_sfs ==
    LET next_ino == 3
    IN  [next |-> next_ino, unused |-> NBLOCKS - next_ino, halt |-> "",
         disk |-> [b \in 0..(NBLOCKS - 1) |-> Zero],
         node |-> SFS_BLKN_ROOT :> NewInode("dir", 0, 0)]

\* The number handed out is m.next.
sfs_alloc_ino(m) ==
    [Ensure(m, m.next < NBLOCKS, "out of disk space") EXCEPT !.next = @ + 1, !.unused = @ - 1]

alloc_cache_inode(m, type) ==
    [sfs_alloc_ino(m) EXCEPT !.node = @ @@ (m.next :> NewInode(type, 0, 0))]

write_block(m, b, kind, val) == [m EXCEPT !.disk[b] = [k |-> kind, v |-> val]]

\* The indirect block of inode i, allocated when it is first needed.
update_cache(m, i) ==
    IF m.node[i].indirect /= 0 THEN m
    ELSE [sfs_alloc_ino(m) EXCEPT !.node[i].indirect = m.next]

append_block(m, i, size, b) ==
    LET n == m.node[i].blocks
        Enter(t, e) == write_block(t, e, "table", [Table(t, e) EXCEPT ![n - NDIRECT + 1] = b])
        Indirect(t) == Enter(t, t.node[i].indirect)
    IN  [IF n < NDIRECT THEN [m EXCEPT !.node[i].direct[n + 1] = b] ELSE Indirect(update_cache(m, i))
           EXCEPT !.node[i].size = @ + size, !.node[i].blocks = @ + 1]

add_entry(m, d, i, name) ==
    append_block(write_block(sfs_alloc_ino(m), m.next, "entry", [ino |-> i, name |-> name]),
                 d, 1, m.next)

open_file(m, i, size) ==
    LET Chunk(k) == IF k * BLKSIZE <= size THEN BLKSIZE ELSE size % BLKSIZE
        Block(t, k) == append_block(write_block(sfs_alloc_ino(t), t.next, "data",
                                        [c \in 1..BLKSIZE |-> IF c <= Chunk(k) THEN 1 ELSE 0]),
                                    i, Chunk(k), t.next)
    IN  FoldLeft(Block, m, [k \in 1..((size + BLKSIZE - 1) \div BLKSIZE) |-> k])

add_file(m, d, f) ==
    add_entry(open_file(alloc_cache_inode(m, "file"), m.next, f.size), d, m.next, f.name)

RECURSIVE open_dir(_, _, _, _)
add_dir(m, d, f) ==
    add_entry(open_dir(alloc_cache_inode(m, "dir"), m.next, d, f.list), d, m.next, f.name)
open_dir(m, d, up, list) ==
    FoldLeft(LAMBDA t, f : IF f.dir THEN add_dir(t, d, f) ELSE add_file(t, d, f),
             add_entry(add_entry(m, d, d, "."), d, up, ".."), list)

\* Write the bitmap, the superblock and the inodes.
close_sfs(m) ==
    [disk |-> [b \in DOMAIN m.disk |-> IF b \in DOMAIN m.node THEN [k |-> "inode", v |-> m.node[b]]
                                       ELSE m.disk[b]],
     dfree |-> m.next..(NBLOCKS - 1), dunused |-> m.unused, halt |-> m.halt,
     free |-> {}, unused |-> 0, sdirty |-> FALSE, node |-> <<>>]

create_img(home) == close_sfs(open_dir(create_sfs, SFS_BLKN_ROOT, SFS_BLKN_ROOT, home))
=============================================================================
