------------------------------- MODULE SfsDir -------------------------------
(* The directories of the simple file system, kern/fs/sfs/sfs_inode.c: every  *)
(* entry fills one block, [ino, name]; creating, deleting and renaming entries *)
(* saves the directory, the superblock and the bitmap before it returns.      *)
(* Mounting reads them back, sfs_fs.c.                                        *)
EXTENDS Sfs

\* The entry in a slot of directory i; an empty block reads as entry number 0.
sfs_dirent_read_nolock(s, i, slot) ==
    LET Entry(b) == IF s.disk[b].k = "entry" THEN s.disk[b].v ELSE [ino |-> 0, name |-> ""]
    IN  Entry(sfs_bmap_get_nolock(s, i, slot, FALSE).b)

Slots(s, i) == 0..(s.node[i].din.blocks - 1)

\* The first slot of the name, -1 if there is none.
sfs_dirent_search_nolock(s, i, name) ==
    LET Least(hits) == IF hits = {} THEN -1 ELSE CHOOSE k \in hits : \A j \in hits : k <= j
    IN  Least({k \in Slots(s, i) : \E e \in {sfs_dirent_read_nolock(s, i, k)} :
                                      e.ino /= 0 /\ e.name = name})

\* A corrupt directory holds a slot without a block, on which the search panics.
sfs_lookup_once(s, i, name) ==
    LET Load(slot) == IF slot = -1 THEN Result(s, E_NOENT, 0)
                      ELSE sfs_load_inode(s, sfs_dirent_read_nolock(s, i, slot).ino)
    IN  IF \E k \in Slots(s, i) : sfs_bmap_get_nolock(s, i, k, FALSE).b = 0
        THEN Result(Panic(s, "block not in use"), OK, 0)
        ELSE Load(sfs_dirent_search_nolock(s, i, name))

\* r, with the reference to i given back.
Release(r, i) == IF r.s.halt /= "" THEN r ELSE [r EXCEPT !.s = inode_ref_dec(@, i)]

sfs_lookup(s, i, name) ==
    IF s.node[i].din.type /= "dir" THEN Result(inode_check(s, i), E_NOTDIR, 0)
    ELSE Release(sfs_lookup_once(inode_ref_inc(inode_check(s, i), i), i, name), i)

--------------------------------------------------------------------------------
(* Changing directories *)

\* What the calls that change directory d begin with; they go on with F.
InDir(s, d, F(_)) ==
    IF s.node[d].din.type /= "dir" THEN Result(inode_check(s, d), E_NOTDIR, 0)
    ELSE F(inode_ref_inc(inode_check(s, d), d))

\* ... and what they end with.
SaveDir(s, d) ==
    inode_ref_dec(SyncSuper(sfs_fsync([s EXCEPT !.node[d].dirty = TRUE], d)), d)

\* A failed allocation is not noticed: an uninitialized block number is used.
Taken(r) == IF r.ret = OK THEN r ELSE Result(Panic(r.s, "uninitialized block number"), OK, 0)
NewEntry(s, d) == Taken(sfs_bmap_get_nolock(s, d, s.node[d].din.blocks, TRUE))
NewBlock(s) == Taken(sfs_block_alloc(s))
Entered(s, d, e, name, ino, din) ==
    [sfs_wbuf(sfs_wbuf(s, e, "entry", [ino |-> ino, name |-> name]), ino, "inode", din)
       EXCEPT !.node[d].din.blocks = @ + 1]

sfs_create(s, d, name) ==
    InDir(s, d, LAMBDA c :
        Then(NewEntry(c, d), LAMBDA e :
        Then(NewBlock(e.s), LAMBDA f :
        Then(sfs_load_inode(Entered(f.s, d, e.b, name, f.b, NewInode("file", 0, 0)), f.b),
             LAMBDA l : [l EXCEPT !.s = SaveDir(@, d)]))))

sfs_mkdir(s, d, name) ==
    InDir(s, d, LAMBDA c :
        Then(NewEntry(c, d), LAMBDA e :
        Then(NewBlock(e.s), LAMBDA f :
        Then(NewBlock(f.s), LAMBDA g :
             Result(SaveDir(Entered(g.s, d, e.b, name, f.b, NewInode("dir", BLKSIZE, g.b)), d),
                    OK, f.b)))))

\* Mutant: slot src keeps its block.
MutReplace(s, d, src, des) ==
    LET ent == s.node[d].din.indirect
        b == sfs_bmap_get_nolock(s, d, src, FALSE).b
    IN  IF des < NDIRECT THEN [s EXCEPT !.node[d].din.direct[des + 1] = b]
        ELSE sfs_wbuf(s, ent, "table", [Table(s, ent) EXCEPT ![des - NDIRECT + 1] = b])

\* Move the entry block of slot src to slot des, leaving src empty.
sfs_dir_entry_replace(s, d, src, des) ==
    LET ent == s.node[d].din.indirect
        Set(t, k, b) == IF k < NDIRECT THEN [t EXCEPT !.node[d].din.direct[k + 1] = b]
                        ELSE sfs_wbuf(t, ent, "table", [Table(t, ent) EXCEPT ![k - NDIRECT + 1] = b])
    IN  Set(Set(s, src, 0), des, sfs_bmap_get_nolock(s, d, src, FALSE).b)

\* Free what the victim holds, as a file (type 1): as many blocks as it has, but cut
\* off the end of directory d; or as a directory (type 2): its indirect block.
FreeVictim(l, d, type) ==
    IF type = 2 THEN sfs_block_free(l.s, l.s.node[l.b].din.indirect)
    ELSE FoldLeft(LAMBDA t, k : IF t.halt /= "" THEN t ELSE sfs_bmap_truncate_nolock(t, d),
                  l.s, [k \in 1..l.s.node[l.b].din.blocks |-> k])

\* Free the inode the name now leads to and the entry in `slot`, and fill the gap
\* with the last entry.
Unlink(s, d, name, slot) ==
    LET Gone(k) == sfs_bmap_free_nolock(
                       sfs_block_free(s, sfs_dirent_read_nolock(s, d, k).ino), d, slot)
        Closed(t) == [sfs_dir_entry_replace(t, d, t.node[d].din.blocks - 1, slot)
                        EXCEPT !.node[d].din.blocks = @ - 1]
        At(k) == IF k = -1 THEN Panic(s, "uninitialized block number") ELSE Closed(Gone(k))
    IN  IF s.halt /= "" THEN s ELSE At(sfs_dirent_search_nolock(s, d, name))

\* Delete entry `name` of d.  The reference to the deleted inode is kept.
sfs_delete(s, d, name, type) ==
    InDir(s, d, LAMBDA c :
        Then(sfs_lookup_once(c, d, name), LAMBDA l :
             Result(SaveDir(Unlink(FreeVictim(l, d, type), d, name,
                                   sfs_dirent_search_nolock(c, d, name)), d), OK, l.b)))

\* Write the new name over the entry.  The reference to the renamed inode is kept.
sfs_rename(s, d, old, new) ==
    LET Renamed(l, c) ==
            sfs_wbuf(l.s, sfs_bmap_get_nolock(c, d, sfs_dirent_search_nolock(c, d, old), FALSE).b,
                "entry", [ino |-> l.b, name |-> new])
        Save(w) == inode_ref_dec(sfs_fsync([w EXCEPT !.node[d].dirty = TRUE], d), d)
    IN  InDir(s, d, LAMBDA c :
            Then(sfs_lookup_once(c, d, old), LAMBDA l : [l EXCEPT !.s = Save(Renamed(l, c))]))

--------------------------------------------------------------------------------
(* Mounting *)

\* sfs_sync, as fs_cleanup runs it: every dirty inode, then superblock and bitmap.
sfs_sync(s) ==
    SyncSuper([s EXCEPT !.disk = [b \in DOMAIN @ |->
                            IF b \in DOMAIN s.node /\ s.node[b].dirty
                            THEN [k |-> "inode", v |-> s.node[b].din] ELSE @[b]],
                        !.node = [i \in DOMAIN @ |-> [@[i] EXCEPT !.dirty = FALSE]]])

\* vfs_cleanup: the sync cannot fail, so the first of its 32 attempts is the last.
sfs_cleanup(s) == sfs_sync(s)

sfs_init_freemap(s) == [s EXCEPT !.free = s.dfree]

\* Mount what the disk holds; `devices` are the cached inodes of the devices.
sfs_do_mount(s, devices) ==
    LET Counted(m) == Ensure(m, Cardinality({b \in 0..(NBLOCKS - 1) : bitmap_test(m, b)}) = m.unused,
                             "unused_blocks of freemap")
    IN  Counted(sfs_init_freemap([s EXCEPT !.node = devices, !.unused = s.dunused,
                                           !.sdirty = FALSE]))

sfs_get_root(s) == sfs_load_inode(s, SFS_BLKN_ROOT)
=============================================================================
