-------------------------------- MODULE Sfs --------------------------------
(* The simple file system, kern/fs/sfs: the free-block bitmap, the superblock *)
(* counter, the inodes cached in memory, and the disk they are saved to.      *)
(*                                                                            *)
(* Every operation maps a file-system state s to a new one.  s.disk is what   *)
(* the device holds (s.dfree and s.dunused are the saved bitmap and counter), *)
(* s.node the cached inodes by number, s.halt the panic that stopped the      *)
(* kernel.  The disk driver panics on an I/O error (dev_disk0.c:44), so no    *)
(* transfer fails.  No call here sleeps while others run, so each is atomic.  *)
(* An operation that can fail returns [s, ret, b] with b its block or inode.  *)
EXTENDS Integers, FiniteSets, SequencesExt

CONSTANTS NBLOCKS,      \* blocks on the disk
          NDIRECT,      \* SFS_NDIRECT, direct block numbers in an inode
          NENTRY,       \* SFS_BLK_NENTRY, block numbers in an indirect block
          BLKSIZE,      \* cells in a block
          MAXSIZE,      \* SFS_MAX_FILE_SIZE, in cells
          MAXCOUNT      \* MAX_INODE_COUNT

SFS_BLKN_ROOT == 1
OK == 0
E_NO_MEM == -4
E_NOENT == -16
E_NOTDIR == -18
E_INVAL == -3
E_EXISTS == -23

Panic(s, why) == [s EXCEPT !.halt = IF @ = "" THEN why ELSE @]
Ensure(s, c, why) == IF c THEN s ELSE Panic(s, why)
Result(s, ret, b) == [s |-> s, ret |-> ret, b |-> b]
Failed(r) == r.ret /= OK \/ r.s.halt /= ""

\* `if ((ret = ...) != 0) return ret;` and go on with F.
Then(r, F(_)) == IF Failed(r) THEN r ELSE F(r)

Zeros(n) == [k \in 1..n |-> 0]
Zero == [k |-> "zero"]

NewInode(type, size, indirect) ==
    [type |-> type, size |-> size, blocks |-> 0,
     direct |-> Zeros(NDIRECT), indirect |-> indirect]

--------------------------------------------------------------------------------
(* Transfers, sfs_io.c: a block holds an inode, entry, table, data or nothing *)

sfs_rwblock_nolock(s, b, c) ==
    [Ensure(s, b \in 1..(NBLOCKS - 1), "block out of range") EXCEPT !.disk[b] = c]

sfs_wblock(s, b, cells) == sfs_rwblock_nolock(s, b, [k |-> "data", v |-> cells])
sfs_clear_block(s, b) == sfs_rwblock_nolock(s, b, Zero)

\* Part of a block: sfs_wbuf reads the block, changes the part and writes it back.
sfs_rbuf(s, b, kind, none) == IF s.disk[b].k = kind THEN s.disk[b].v ELSE none
sfs_wbuf(s, b, kind, val) == sfs_rwblock_nolock(s, b, [k |-> kind, v |-> val])

Table(s, b) == sfs_rbuf(s, b, "table", Zeros(NENTRY))
Cells(s, b) == sfs_rbuf(s, b, "data", Zeros(BLKSIZE))

sfs_sync_super(s) == [s EXCEPT !.dunused = s.unused]
sfs_sync_freemap(s) == [s EXCEPT !.dfree = s.free]

--------------------------------------------------------------------------------
(* Blocks *)

bitmap_test(s, b) == b \in s.free

bitmap_alloc(s) ==
    IF s.free = {} THEN Result(s, E_NO_MEM, 0)
    ELSE LET b == CHOOSE x \in s.free : \A y \in s.free : x <= y
         IN  Result([s EXCEPT !.free = @ \ {b}], OK, b)

bitmap_free(s, b) ==
    [Ensure(s, ~bitmap_test(s, b), "block free already") EXCEPT !.free = @ \cup {b}]

sfs_block_inuse(s, b) == b \in 1..(NBLOCKS - 1) /\ ~bitmap_test(s, b)

\* The lowest free block, cleared.
sfs_block_alloc(s) ==
    Then(bitmap_alloc(s), LAMBDA r :
         Result(sfs_clear_block([Ensure(r.s, s.unused > 0, "unused_blocks")
                                   EXCEPT !.unused = @ - 1, !.sdirty = TRUE], r.b), OK, r.b))

\* The content of a free block is never read again: it is forgotten here.
sfs_block_free(s, b) ==
    IF ~sfs_block_inuse(s, b) THEN Panic(s, "block not in use")
    ELSE [bitmap_free(s, b) EXCEPT !.unused = @ + 1, !.sdirty = TRUE, !.disk[b] = Zero]

\* The block at an index of the indirect block, found or (create) allocated.
sfs_bmap_get_sub_nolock(s, i, index, create) ==
    LET ent == s.node[i].din.indirect
        old == IF ent = 0 THEN 0 ELSE Table(s, ent)[index + 1]
        Enter(a, e) == sfs_wbuf(a.s, e, "table", [Table(a.s, e) EXCEPT ![index + 1] = a.b])
        Second(e, a) ==
            IF a.ret /= OK THEN Result(sfs_block_free(e.s, e.b), a.ret, 0)
            ELSE Result([Enter(a, e.b) EXCEPT !.node[i].din.indirect = e.b,
                                              !.node[i].dirty = TRUE], OK, a.b)
    IN  IF old /= 0 \/ ~create THEN Result(s, OK, old)
        ELSE Then(sfs_block_alloc(s),
                  LAMBDA a : IF ent /= 0 THEN Result(Enter(a, ent), OK, a.b)
                             ELSE Second(a, sfs_block_alloc(a.s)))

sfs_bmap_get_nolock(s, i, index, create) ==
    LET din == s.node[i].din
    IN  IF index >= NDIRECT + NENTRY THEN Result(Panic(s, "index out of range"), OK, 0)
        ELSE IF index >= NDIRECT THEN sfs_bmap_get_sub_nolock(s, i, index - NDIRECT, create)
        ELSE IF din.direct[index + 1] /= 0 \/ ~create THEN Result(s, OK, din.direct[index + 1])
        ELSE Then(sfs_block_alloc(s),
                  LAMBDA a : Result([a.s EXCEPT !.node[i].din.direct[index + 1] = a.b,
                                                !.node[i].dirty = TRUE], OK, a.b))

\* Block `index` of an inode, appended when it is the first one past the end.  The
\* inode is marked dirty only if the number went into the inode itself.
sfs_bmap_load_nolock(s, i, index) ==
    LET n == s.node[i].din.blocks
    IN  IF index > n THEN Result(Panic(s, "index beyond blocks"), OK, 0)
        ELSE Then(sfs_bmap_get_nolock(s, i, index, index = n),
                  LAMBDA r : Result([Ensure(r.s, sfs_block_inuse(r.s, r.b), "block not in use")
                                       EXCEPT !.node[i].din.blocks = IF index = n THEN @ + 1 ELSE @],
                                    OK, r.b))

sfs_bmap_free_sub_nolock(s, ent, index) ==
    LET b == Table(s, ent)[index + 1]
    IN  IF b = 0 THEN s
        ELSE sfs_block_free(sfs_wbuf(s, ent, "table", [Table(s, ent) EXCEPT ![index + 1] = 0]), b)

sfs_bmap_free_nolock(s, i, index) ==
    LET din == s.node[i].din
    IN  CASE index < NDIRECT /\ din.direct[index + 1] /= 0 ->
                [sfs_block_free(s, din.direct[index + 1])
                   EXCEPT !.node[i].din.direct[index + 1] = 0, !.node[i].dirty = TRUE]
          [] index >= NDIRECT /\ din.indirect /= 0 ->
                sfs_bmap_free_sub_nolock(s, din.indirect, index - NDIRECT)
          [] OTHER -> s

sfs_bmap_truncate_nolock(s, i) ==
    IF s.node[i].din.blocks = 0 THEN Panic(s, "no block to truncate")
    ELSE [sfs_bmap_free_nolock(s, i, s.node[i].din.blocks - 1)
            EXCEPT !.node[i].din.blocks = @ - 1, !.node[i].dirty = TRUE]

--------------------------------------------------------------------------------
(* Cached inodes *)

\* inode_check, made by every call through the operation table.
inode_check(s, i) == Ensure(s, /\ s.node[i].ref >= s.node[i].open /\ s.node[i].open >= 0
                               /\ s.node[i].ref < MAXCOUNT, "inode counts")

inode_ref_inc(s, i) == [s EXCEPT !.node[i].ref = @ + 1]

\* A cached inode, which may be on its way out (ref = 0).
lookup_sfs_nolock(s, i) ==
    [inode_ref_inc(s, i) EXCEPT !.node[i].rc = IF s.node[i].ref = 0 THEN @ + 1 ELSE @]

\* inode_init: one reference, nobody has it open.
inode_init(din) == [din |-> din, dirty |-> FALSE, ref |-> 1, open |-> 0, rc |-> 1]

\* Enter an inode in the list and the hash table, and take it out again.
sfs_set_links(s, i, node) ==
    [s EXCEPT !.node = [j \in DOMAIN @ \cup {i} |-> IF j = i THEN node ELSE @[j]]]
sfs_remove_links(s, i) == [s EXCEPT !.node = [j \in DOMAIN @ \ {i} |-> @[j]]]

sfs_load_inode(s, i) ==
    CASE i \in DOMAIN s.node -> Result(lookup_sfs_nolock(s, i), OK, i)
      [] i \notin DOMAIN s.node /\ (~sfs_block_inuse(s, i) \/ s.disk[i].k /= "inode") ->
            Result(Panic(s, "no inode there"), OK, 0)
      [] OTHER -> Result(sfs_set_links(s, i, inode_init(sfs_rbuf(s, i, "inode", Zero))), OK, i)

sfs_fsync(s, i) ==
    IF ~s.node[i].dirty THEN s
    ELSE [sfs_wbuf(s, i, "inode", s.node[i].din) EXCEPT !.node[i].dirty = FALSE]

\* Mutant: the bitmap is not written with the superblock.
MutSyncSuper(s) == IF s.sdirty THEN sfs_sync_super([s EXCEPT !.sdirty = FALSE]) ELSE s

\* The end of sfs_sync and of the calls that change names.
SyncSuper(s) ==
    IF s.sdirty THEN sfs_sync_freemap(sfs_sync_super([s EXCEPT !.sdirty = FALSE])) ELSE s

sfs_truncfile(s, i, len) ==
    LET tblks == (len + BLKSIZE - 1) \div BLKSIZE
        nblks == s.node[i].din.blocks
        Grow(r, k) == Then(r, LAMBDA t : sfs_bmap_load_nolock(t.s, i, nblks + k - 1))
    IN  IF len < 0 \/ len > MAXSIZE THEN Result(s, E_INVAL, 0)
        ELSE IF len = s.node[i].din.size
             THEN Result(Ensure(s, tblks = nblks, "blocks of size"), OK, 0)
        ELSE Then(IF nblks < tblks
                  THEN FoldLeft(Grow, Result(s, OK, 0), [k \in 1..(tblks - nblks) |-> k])
                  ELSE Result(FoldLeft(LAMBDA t, k : sfs_bmap_truncate_nolock(t, i), s,
                                       [k \in 1..(nblks - tblks) |-> k]), OK, 0),
                  LAMBDA r : [r EXCEPT !.s.node[i].din.size = len, !.s.node[i].dirty = TRUE])

\* The last reference is gone: save the inode and drop it from the cache.  No call
\* lowers nlinks, so the inode's blocks are never freed here.
sfs_reclaim(s, i) ==
    IF s.node[i].rc /= 1 THEN [s EXCEPT !.node[i].rc = @ - 1]
    ELSE sfs_remove_links(sfs_fsync(inode_check(s, i), i), i)

inode_ref_dec(s, i) ==
    LET Reclaim(c) == IF c.node[i].ref = 0 THEN sfs_reclaim(c, i) ELSE c
    IN  Reclaim([Ensure(s, s.node[i].ref > 0, "inode counts") EXCEPT !.node[i].ref = @ - 1])

--------------------------------------------------------------------------------
(* File contents *)

\* Mutant: the first piece reaches to the end of its block.
MutFirstLen(off, end) == BLKSIZE - (off % BLKSIZE)

\* The cells of the first block when it does not begin on a block boundary.
FirstLen(off, end) ==
    IF off \div BLKSIZE /= end \div BLKSIZE THEN BLKSIZE - (off % BLKSIZE) ELSE end - off

\* The parts of the blocks that cells off..end-1 lie in: a partial first block,
\* whole blocks, a partial last one.
Pieces(off, end) ==
    LET first == off \div BLKSIZE
        last  == end \div BLKSIZE
        blkoff == off % BLKSIZE
        head == IF blkoff = 0 THEN <<>>
                ELSE <<[blk |-> first, at |-> blkoff, n |-> FirstLen(off, end)]>>
        next == first + Len(head)
        whole == IF last <= next THEN <<>>
                 ELSE [k \in 1..(last - next) |-> [blk |-> next + k - 1, at |-> 0, n |-> BLKSIZE]]
        tail == IF end % BLKSIZE = 0 \/ (head /= <<>> /\ last = first) THEN <<>>
                ELSE <<[blk |-> last, at |-> 0, n |-> end % BLKSIZE]>>
    IN  head \o whole \o tail

\* Read (d = {}) or write (d = {cell}) len cells at off; b is how many were done.
sfs_io_nolock(s, i, off, len, d) ==
    LET size == s.node[i].din.size
        lim == IF off + len > MAXSIZE THEN MAXSIZE ELSE off + len
        end == IF d = {} /\ lim > size THEN size ELSE lim
        Fill(p, old) == [k \in 1..BLKSIZE |-> IF k - 1 \in p.at..(p.at + p.n - 1)
                                               THEN CHOOSE c \in d : TRUE ELSE old[k]]
        Copy(l, p, done) ==
            IF Failed(l) THEN [l EXCEPT !.b = done]
            ELSE Result(IF d = {} THEN l.s
                        ELSE IF p.n = BLKSIZE THEN sfs_wblock(l.s, l.b, Fill(p, Zeros(BLKSIZE)))
                        ELSE sfs_wbuf(l.s, l.b, "data", Fill(p, Cells(l.s, l.b))), OK, done + p.n)
        Step(r, p) == Then(r, LAMBDA q : Copy(sfs_bmap_load_nolock(q.s, i, p.blk), p, q.b))
        Grow(r) == IF off + r.b <= r.s.node[i].din.size THEN r
                   ELSE [r EXCEPT !.s.node[i].din.size = off + r.b, !.s.node[i].dirty = TRUE]
    IN  IF off < 0 \/ off >= MAXSIZE THEN Result(s, E_INVAL, 0)
        ELSE IF len = 0 \/ (d = {} /\ off >= size) THEN Result(s, OK, 0)
        ELSE Grow(FoldLeft(Step, Result(s, OK, 0), Pieces(off, end)))

sfs_io(s, i, off, len, d) == sfs_io_nolock(inode_check(s, i), i, off, len, d)
sfs_read(s, i, off, len) == sfs_io(s, i, off, len, {})
sfs_write(s, i, off, len, cell) == sfs_io(s, i, off, len, {cell})

sfs_tryseek(s, i, pos) ==
    IF pos < 0 \/ pos >= MAXSIZE THEN Result(s, E_INVAL, 0)
    ELSE IF pos > s.node[i].din.size THEN sfs_truncfile(inode_check(s, i), i, pos)
    ELSE Result(s, OK, 0)
=============================================================================
