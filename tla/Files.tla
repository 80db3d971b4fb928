------------------------------- MODULE Files -------------------------------
(* The file system calls of processes: descriptor tables (kern/fs/file.c,     *)
(* fs.c), the virtual file system above the inodes (kern/fs/vfs), one device  *)
(* (stdin, kern/fs/devs), composed with the simple file system.               *)
(*                                                                            *)
(* A path is [at, name]: `at` says where get_device starts the lookup, `name` *)
(* is the rest, which sfs_lookup takes as one name.  Descriptors are copied   *)
(* by fork, closed by exec (all but the first NSTD) and by exit.  `lost`      *)
(* counts the references that calls take and never return; `intact` is FALSE  *)
(* once a call has damaged the tree, after which the model stops.             *)
EXTENDS SfsDir, MkSfs

CONSTANTS Procs,
          First,        \* the process user_main becomes
          NSTD,         \* descriptors exec keeps: stdin and stdout
          Names,        \* names used
          Home,         \* the directory the image is made from
          Cell,         \* the value written
          Loads         \* workloads, each [nfd, boots, procs, starts, names, new, types,
                        \*                  modes, reads, writes, seeks]

VARIABLES fs, files, lost, intact, boots,
          load          \* the inputs of this behaviour's calls, fixed in Init

vars == <<fs, files, lost, intact, boots, load>>

STDIN == NBLOCKS        \* the device's inode, among the cached inodes
Devices == {"disk0", "stdin"}
Exited == [pwd |-> -1, fd |-> <<>>]
NoFile == [node |-> -1, pos |-> 0, r |-> FALSE, w |-> FALSE]
NFD == load.nfd         \* FILES_STRUCT_NENTRY
Live(p) == files[p] /= Exited
Paths == [at : load.starts, name : load.names]

\* The working directory of a process becomes dir, if it is a directory.
vfs_set_curdir(s, old, dir) ==
    IF dir = old THEN Result(s, OK, old)
    ELSE IF s.node[dir].din.type /= "dir" THEN Result(inode_check(s, dir), E_NOTDIR, old)
    ELSE Result(IF old = -1 THEN inode_ref_inc(s, dir)
                ELSE inode_ref_dec(inode_ref_inc(inode_check(s, dir), dir), old), OK, dir)

dev_init_stdin == STDIN :> inode_init(NewInode("dev", 0, 0))

vfs_mount(s) == sfs_do_mount(s, dev_init_stdin)

\* init_main changes to "disk0:" and makes its new directory the boot file system.
vfs_set_bootfs(s) ==
    LET Chdir(g) == inode_ref_dec(vfs_set_curdir(g.s, -1, g.b).s, g.b)
    IN  inode_ref_inc(Chdir(sfs_get_root(s)), SFS_BLKN_ROOT)

\* Boot from the disk, up to init's fork of the first process.
Boot(s) == inode_ref_inc(vfs_set_bootfs(vfs_mount(s)), SFS_BLKN_ROOT)

files_create(pwd) == [pwd |-> pwd, fd |-> [k \in 1..NFD |-> NoFile]]
FirstFiles == [p \in Procs |-> IF p = First THEN files_create(SFS_BLKN_ROOT) ELSE Exited]

Init ==
    /\ fs = Boot(create_img(Home))
    /\ load \in Loads
    /\ files = FirstFiles
    /\ lost = [i \in 0..NBLOCKS |-> 0]
    /\ intact = TRUE
    /\ boots = 0

--------------------------------------------------------------------------------
(* The virtual file system *)

inode_open_inc(s, i) == [s EXCEPT !.node[i].open = @ + 1]

\* sfs_close saves the inode; closing stdin does nothing.
inode_open_dec(s, i) ==
    LET Save(c) == IF c.node[i].open = 0 /\ i /= STDIN THEN sfs_fsync(inode_check(c, i), i) ELSE c
    IN  Save([Ensure(s, s.node[i].open > 0, "inode counts") EXCEPT !.node[i].open = @ - 1])

vfs_close(s, i) == inode_ref_dec(inode_open_dec(s, i), i)

vfs_get_curdir(s, p) == Result(inode_ref_inc(s, files[p].pwd), OK, files[p].pwd)
vfs_get_bootfs(s) == Result(inode_ref_inc(s, SFS_BLKN_ROOT), OK, SFS_BLKN_ROOT)
vfs_get_root(s, dev) == IF dev = "disk0" THEN sfs_get_root(s)
                        ELSE Result(inode_ref_inc(s, STDIN), OK, STDIN)

\* The inode a lookup starts from, with a reference taken: "disk0:x", "stdin:x",
\* "/x", ":x" or a bare x.
get_device(s, p, at) ==
    CASE at = "cwd" -> vfs_get_curdir(s, p)
      [] at \in Devices -> vfs_get_root(s, at)
      [] at = "/" -> vfs_get_bootfs(s)
      [] at = ":" -> Release(sfs_get_root(vfs_get_curdir(s, p).s), files[p].pwd)

vfs_lookup_parent(s, p, path) == get_device(s, p, path.at)

\* get_device ends the device's name where the colon was: a second lookup of the same
\* path finds the bare device name.
Cut(path) == IF path.at \in Devices THEN [at |-> "cwd", name |-> path.at] ELSE path

\* An operation the inode's table lacks: the assertion in vop_... fails.
NoSuch(s) == Result(Panic(s, "no such operation"), OK, 0)

\* There is nothing under a device.
dev_lookup(s) == Result(inode_check(s, STDIN), E_NOENT, 0)

vfs_lookup(s, p, path) ==
    LET Under(g) == Release(IF g.b = STDIN THEN dev_lookup(g.s)
                            ELSE sfs_lookup(g.s, g.b, path.name), g.b)
    IN  IF path.name = "" THEN get_device(s, p, path.at) ELSE Under(get_device(s, p, path.at))

\* What stdin and a directory can be opened for; a file, for anything.
stdin_open(acc, flags) == acc = "r" /\ flags = {}
dev_open(acc, flags) ==
    flags \cap {"CREAT", "TRUNC", "EXCL", "APPEND"} = {} /\ stdin_open(acc, flags)
sfs_opendir(acc, flags) == acc = "r" /\ "APPEND" \notin flags

vop_open(type, acc, flags) ==
    /\ type = "dev" => dev_open(acc, flags)
    /\ type = "dir" => sfs_opendir(acc, flags)

\* Open the inode found, and truncate it if the flags say so.
OpenNode(r, acc, flags) ==
    LET Trunc(o) == IF o.node[r.b].din.type /= "file" THEN NoSuch(o)
                    ELSE sfs_truncfile(inode_check(o, r.b), r.b, 0)
        opened == inode_open_inc(inode_check(r.s, r.b), r.b)
    IN  IF ~vop_open(r.s.node[r.b].din.type, acc, flags)
        THEN Result(inode_ref_dec(inode_check(r.s, r.b), r.b), E_INVAL, 0)
        ELSE IF flags \cap {"TRUNC", "CREAT"} = {} THEN Result(opened, OK, r.b)
        ELSE [Trunc(opened) EXCEPT !.b = r.b]

\* Look the path up, create the file if it is missing, open the inode.  `leak`
\* holds the inodes whose reference is not given back.
vfs_open(s, p, path, acc, flags) ==
    LET Done(r, lk) == [s |-> r.s, ret |-> r.ret, b |-> r.b, leak |-> lk]
        Create(g) == Done(Then(sfs_create(g.s, g.b, Cut(path).name),
                               LAMBDA c : OpenNode(c, acc, flags)), {g.b})
        Found(l) == IF l.ret = E_NOENT /\ "CREAT" \in flags
                    THEN Create(vfs_lookup_parent(l.s, p, Cut(path)))
                    ELSE IF ~Failed(l) /\ {"CREAT", "EXCL"} \subseteq flags
                    THEN Done([l EXCEPT !.ret = E_EXISTS], {l.b})
                    ELSE Done(Then(l, LAMBDA c : OpenNode(c, acc, flags)), {})
    IN  IF "TRUNC" \in flags /\ acc = "r" THEN Done(Result(s, E_INVAL, 0), {})
        ELSE Found(vfs_lookup(s, p, path))

\* An inode as memory sees it.
View(i) == IF i \in DOMAIN fs.node THEN fs.node[i].din ELSE fs.disk[i].v

Leak(S) == lost' = [i \in DOMAIN lost |-> IF i \in S THEN lost[i] + 1 ELSE lost[i]]

--------------------------------------------------------------------------------
(* Calls on paths *)

\* A cached inode that a new one of the same number is mistaken for.
Stale(s, b, din) == b \in DOMAIN s.node /\ (s.node[b].din /= din \/ s.node[b].dirty)

\* A call on a descriptor that is not open, or with none free, changes nothing.
fd2file(p, k) == files[p].fd[k] /= NoFile

\* The first free descriptor among those wanted: any (NO_FD), or one.
fd_array_alloc(p, want) ==
    {k \in want : ~fd2file(p, k) /\ \A j \in want : j < k => fd2file(p, j)}

file_open(p, path, acc, flags) ==
    \E r \in {vfs_open(fs, p, path, acc, flags)} :
    \E fd \in fd_array_alloc(p, 1..NFD) :
        /\ fs' = r.s
        /\ files' = IF Failed(r) THEN files
                    ELSE [files EXCEPT ![p].fd[fd] =
                            [node |-> r.b, r |-> acc \in {"r", "rw"}, w |-> acc \in {"w", "rw"},
                             pos |-> IF "APPEND" \in flags THEN r.s.node[r.b].din.size ELSE 0]]
        /\ Leak(r.leak)
        /\ intact' = ~\E b \in fs.free \ r.s.free : /\ r.s.disk[b].k = "inode"
                                                   /\ Stale(fs, b, NewInode("file", 0, 0))
        /\ UNCHANGED boots

\* The calls below take the inode the path starts from and never give it back.
vfs_mkdir(p, path) ==
    \E g \in {vfs_lookup_parent(fs, p, path)} :
    \E r \in {IF g.b = STDIN THEN NoSuch(g.s) ELSE sfs_mkdir(g.s, g.b, path.name)} :
        /\ fs' = r.s
        /\ Leak({g.b})
        /\ intact' = (r.b \notin DOMAIN fs.node)
        /\ UNCHANGED <<files, boots>>

\* The references delete and rename leave: to the directory, twice if they fail, and
\* to the inode they looked up.
LeakLookedUp(g, r) ==
    lost' = [i \in DOMAIN lost |->
               IF r.s.halt /= "" THEN lost[i]
               ELSE lost[i] + (IF i = g.b THEN IF r.ret = OK THEN 1 ELSE 2 ELSE 0)
                            + (IF i = r.b /\ r.ret = OK THEN 1 ELSE 0)]

\* type 1 deletes a file, type 2 a directory.  Damage: a file that had blocks, a
\* directory that is not empty, the wrong type, an inode still in use.
vfs_delete(p, path, type) ==
    /\ path.name \in Names
    /\ \E g \in {vfs_lookup_parent(fs, p, path)} :
       \E r \in {IF g.b = STDIN THEN NoSuch(g.s) ELSE sfs_delete(g.s, g.b, path.name, type)} :
         /\ fs' = r.s
         /\ LeakLookedUp(g, r)
         /\ intact' = (\/ Failed(r)
                       \/ /\ View(r.b).blocks = 0
                          /\ View(r.b).type = IF type = 1 THEN "file" ELSE "dir"
                          /\ type = 1 => View(r.b).indirect = 0
                          /\ r.b \in DOMAIN fs.node => fs.node[r.b].ref = lost[r.b])
    /\ UNCHANGED <<files, boots>>

vfs_rename(p, path, new) ==
    /\ path.name \in Names /\ new /= path.name
    /\ \E g \in {vfs_lookup_parent(fs, p, path)} :
       \E r \in {IF g.b = STDIN THEN NoSuch(g.s) ELSE sfs_rename(g.s, g.b, path.name, new)} :
         fs' = r.s /\ LeakLookedUp(g, r)
    /\ UNCHANGED <<files, intact, boots>>

\* The new directory replaces the old one if it is a directory and another one.
vfs_chdir(p, path) ==
    \E l \in {vfs_lookup(fs, p, path)} :
    \E r \in {IF Failed(l) THEN Result(l.s, l.ret, files[p].pwd)
               ELSE vfs_set_curdir(l.s, files[p].pwd, l.b)} :
        /\ fs' = IF Failed(l) THEN l.s ELSE inode_ref_dec(r.s, l.b)
        /\ files' = [files EXCEPT ![p].pwd = r.b]
        /\ UNCHANGED <<lost, intact, boots>>

--------------------------------------------------------------------------------
(* Calls on descriptors *)

\* The last reference of the descriptor is gone.
fd_array_free(s, f) == vfs_close(s, f.node)

file_close(p, k) ==
    /\ fd2file(p, k)
    /\ fs' = fd_array_free(fs, files[p].fd[k])
    /\ files' = [files EXCEPT ![p].fd[k] = NoFile]
    /\ UNCHANGED <<lost, intact, boots>>

file_testfd(p, k, readable, writable) ==
    /\ fd2file(p, k)
    /\ readable => files[p].fd[k].r
    /\ writable => files[p].fd[k].w

\* n cells at a position of an inode.  stdin refuses writes, and its position means
\* nothing and is not kept; directories have neither operation.
file_read(s, i, pos, n) ==
    CASE s.node[i].din.type = "file" -> sfs_read(s, i, pos, n)
      [] s.node[i].din.type = "dir" -> NoSuch(s)
      [] OTHER -> Result(s, OK, 0)
file_write(s, i, pos, n) ==
    CASE s.node[i].din.type = "file" -> sfs_write(s, i, pos, n, Cell)
      [] s.node[i].din.type = "dir" -> NoSuch(s)
      [] OTHER -> Result(s, E_INVAL, 0)

\* The calls move one buffer at a time (IOBUF_SIZE is the size of a block) and stop
\* at an error; a buffer that moved nothing ends them, as the next moves nothing.
Buffers(len) == [k \in 1..((len + BLKSIZE - 1) \div BLKSIZE) |->
                   IF k * BLKSIZE <= len THEN BLKSIZE ELSE len % BLKSIZE]
MoveAll(p, k, len, Move(_, _, _, _)) ==
    LET f == files[p].fd[k]
        Add(r, done) == [r EXCEPT !.b = @ + done]
        Step(q, n) == IF Failed(q) THEN q ELSE Add(Move(q.s, f.node, f.pos + q.b, n), q.b)
    IN  /\ \E r \in {FoldLeft(Step, Result(fs, OK, 0), Buffers(len))} :
             fs' = r.s /\ files' = [files EXCEPT ![p].fd[k].pos = @ + r.b]
        /\ UNCHANGED <<lost, intact, boots>>

sysfile_read(p, k, len) == file_testfd(p, k, TRUE, FALSE) /\ MoveAll(p, k, len, file_read)
sysfile_write(p, k, len) == file_testfd(p, k, FALSE, TRUE) /\ MoveAll(p, k, len, file_write)

Saved(s, i) == s.node[i].dirty \/ s.node[i].din = s.disk[i].v

\* A character device cannot be positioned.
dev_tryseek(s) == Result(inode_check(s, STDIN), E_INVAL, 0)

\* Seeking past the end grows the file.  Damage: out of blocks halfway, with the
\* blocks that were added not marked to be saved.
file_seek(p, k, pos, whence) ==
    LET f == files[p].fd[k]
        type == fs.node[f.node].din.type
        to == CASE whence = "SET" -> pos
                [] whence = "CUR" -> pos + f.pos
                [] whence = "END" -> pos + fs.node[f.node].din.size
    IN  /\ fd2file(p, k)
        /\ \E r \in {CASE type = "file" -> sfs_tryseek(inode_check(fs, f.node), f.node, to)
                     [] type = "dir" -> NoSuch(fs)
                     [] OTHER -> dev_tryseek(fs)} :
             /\ fs' = r.s
             /\ files' = IF Failed(r) THEN files ELSE [files EXCEPT ![p].fd[k].pos = to]
             /\ intact' = (r.ret = OK \/ type /= "file" \/ Saved(r.s, f.node))
        /\ UNCHANGED <<lost, boots>>

file_fsync(p, k) ==
    LET i == files[p].fd[k].node
    IN  /\ fd2file(p, k)
        /\ fs' = IF i = STDIN THEN Panic(fs, "no such operation")
                 ELSE sfs_fsync(inode_check(fs, i), i)
        /\ UNCHANGED <<files, lost, intact, boots>>

\* Mutant: the copy does not count as an open file.
MutDup(s, f) == inode_ref_inc(s, f.node)

fd_array_dup(s, f) == inode_open_inc(inode_ref_inc(s, f.node), f.node)

file_dup(p, k, fd2) ==
    /\ fd2file(p, k)
    /\ fs' = fd_array_dup(fs, files[p].fd[k])
    /\ \E to \in fd_array_alloc(p, {fd2}) : files' = [files EXCEPT ![p].fd[to] = files[p].fd[k]]
    /\ UNCHANGED <<lost, intact, boots>>

--------------------------------------------------------------------------------
(* Processes *)

dup_files(s, p) ==
    FoldLeft(LAMBDA c, k : IF fd2file(p, k) THEN fd_array_dup(c, files[p].fd[k]) ELSE c,
             inode_ref_inc(s, files[p].pwd), [k \in 1..NFD |-> k])

\* do_fork; nobody shares a table (CLONE_FS is never passed).
copy_fs(p, q) ==
    /\ ~Live(q)
    /\ fs' = dup_files(fs, p)
    /\ files' = [files EXCEPT ![q] = files[p]]
    /\ UNCHANGED <<lost, intact, boots>>

CloseFrom(s, p, first) ==
    FoldLeft(LAMBDA c, k : IF k >= first /\ fd2file(p, k) THEN fd_array_free(c, files[p].fd[k])
                           ELSE c, s, [k \in 1..NFD |-> k])

\* do_execve.
files_closeall(p) ==
    /\ fs' = CloseFrom(fs, p, NSTD + 1)
    /\ files' = [files EXCEPT ![p].fd = [k \in 1..NFD |-> IF k > NSTD THEN NoFile ELSE @[k]]]
    /\ UNCHANGED <<lost, intact, boots>>

files_destroy(s, p) == CloseFrom(inode_ref_dec(s, files[p].pwd), p, 1)

\* do_exit.
put_fs(p) ==
    /\ fs' = files_destroy(fs, p)
    /\ files' = [files EXCEPT ![p] = Exited]
    /\ UNCHANGED <<lost, intact, boots>>

\* Every mounted file system.
vfs_cleanup(s) == sfs_cleanup(s)

\* init_main, when its last child is gone.
fs_cleanup ==
    /\ \A p \in Procs : ~Live(p)
    /\ fs' = vfs_cleanup(fs)
    /\ UNCHANGED <<files, lost, intact, boots>>

\* Power off between two calls, and boot from the disk.  What was not saved is lost.
Crash ==
    /\ boots < load.boots
    /\ fs' = Boot(fs)
    /\ files' = FirstFiles
    /\ lost' = [i \in 0..NBLOCKS |-> 0]
    /\ intact' = (~fs.sdirty /\ \A i \in DOMAIN fs.node : ~fs.node[i].dirty)
    /\ boots' = boots + 1

Call(p) ==
    \/ \E path \in Paths :
         \/ \E m \in load.modes : file_open(p, path, m[1], m[2])
         \/ \E new \in load.new : vfs_mkdir(p, [path EXCEPT !.name = new])
         \/ \E type \in load.types : vfs_delete(p, path, type)
         \/ \E new \in load.new : vfs_rename(p, path, new)
         \/ vfs_chdir(p, path)
    \/ \E k \in 1..NFD :
         \/ file_close(p, k)
         \/ \E n \in load.reads : sysfile_read(p, k, n)
         \/ \E n \in load.writes : sysfile_write(p, k, n)
         \/ \E x \in load.seeks : file_seek(p, k, x[1], x[2])
         \/ file_fsync(p, k)
         \/ \E to \in 1..NFD : file_dup(p, k, to)
    \/ \E q \in load.procs : copy_fs(p, q)
    \/ files_closeall(p)
    \/ put_fs(p)

\* A count past MAXCOUNT is not followed further: most calls check it and panic, the
\* ones that fail early do not.
Bounded == \A i \in DOMAIN fs.node : fs.node[i].ref <= MAXCOUNT

Next ==
    /\ fs.halt = "" /\ intact /\ Bounded
    /\ UNCHANGED load
    /\ \/ \E p \in Procs : Live(p) /\ Call(p)
       \/ fs_cleanup
       \/ Crash

Spec == Init /\ [][Next]_vars

--------------------------------------------------------------------------------
(* The tree on the disk as memory sees it *)

BlockAt(din, k) == IF k < NDIRECT THEN din.direct[k + 1]
                   ELSE Table(fs, din.indirect)[k - NDIRECT + 1]
Owned(i) == LET din == View(i)
            IN  {BlockAt(din, k) : k \in 0..(din.blocks - 1)}
                \cup (IF din.indirect = 0 THEN {} ELSE {din.indirect})
Children(i) == LET din == View(i)
               IN  IF din.type /= "dir" THEN {}
                   ELSE {e \in {<<k, fs.disk[BlockAt(din, k)].v>> : k \in 0..(din.blocks - 1)} :
                           e[2].name \notin {".", ".."}}
Below(S) == {e[2].ino : e \in UNION {Children(i) : i \in S}}
Reach == LET one == Below({SFS_BLKN_ROOT})
             two == Below(one)
         IN  {SFS_BLKN_ROOT} \cup one \cup two \cup Below(two)
Content(i) == LET din == View(i)
              IN  [k \in 1..din.size |->
                     Cells(fs, BlockAt(din, (k - 1) \div BLKSIZE))[((k - 1) % BLKSIZE) + 1]]
Working == fs.halt = "" /\ intact

\* No block has two owners and none is forgotten: the inodes reached from the root,
\* the blocks they list and the two fixed blocks are exactly the blocks the bitmap
\* marks used, each owned once, and the superblock counts the rest; every inode is
\* named by one entry.  What is not marked dirty is on the disk as it is in memory.
FsExact ==
    LET reach == Reach
        own == [i \in reach |-> Owned(i)]
    IN  Working =>
        /\ fs.unused = Cardinality(fs.free)
        /\ {0, 2} \cup reach \cup UNION {own[i] : i \in reach} = (0..(NBLOCKS - 1)) \ fs.free
        /\ \A i \in reach :
             /\ Cardinality(own[i]) = View(i).blocks + (IF View(i).indirect = 0 THEN 0 ELSE 1)
             /\ own[i] \cap (reach \cup {0, 2}) = {}
             /\ \A j \in reach \ {i} : own[i] \cap own[j] = {}
             /\ i \in DOMAIN fs.node => Saved(fs, i)
        /\ Cardinality(UNION {{<<i, e>> : e \in Children(i)} : i \in reach})
             = Cardinality(reach) - 1
        /\ ~fs.sdirty => fs.dfree = fs.free
        /\ Cardinality(fs.dfree) = fs.dunused

Holders(i) == {<<p, k>> \in Procs \X (1..NFD) : Live(p) /\ files[p].fd[k].node = i}

\* The counts of a cached inode are the descriptors open on it, the processes that
\* work in it, the boot file system and init for the root, the device table for a
\* device, and what was lost; an inode nobody holds is not cached.
CountsExact ==
    Working =>
        \A i \in DOMAIN fs.node :
            /\ fs.node[i].open = Cardinality(Holders(i))
            /\ fs.node[i].ref = Cardinality(Holders(i)) + lost[i]
                                + Cardinality({p \in Procs : files[p].pwd = i})
                                + (CASE i = SFS_BLKN_ROOT -> 2 [] i = STDIN -> 1 [] OTHER -> 0)
            /\ fs.node[i].ref > 0 /\ fs.node[i].rc = 1

\* The panics a sequence of calls can bring about; every other assertion of the
\* file system (a block freed twice or out of range, a counter below zero, an inode
\* that is not there, a superblock that disagrees with its bitmap at mount) holds.
OnlyTheseHalts ==
    fs.halt \in {"", "no such operation", "uninitialized block number", "index beyond blocks",
                 "index out of range", "blocks of size", "inode counts", "block not in use",
                 "no block to truncate"}

Tree == [i \in Reach |-> IF View(i).type = "dir"
                         THEN [t |-> "dir", e |-> {<<e[2].name, e[2].ino>> : e \in Children(i)}]
                         ELSE [t |-> "file", c |-> Content(i)]]

FS == INSTANCE FileSpec WITH Names <- Names \cup Devices,
                             Longest <- Max({0} \cup UNION {l.writes : l \in Loads}),
                             tree <- IF Working THEN Tree ELSE <<>>, sound <- Working

\* Every call changes the one file or directory it is about, and as it promises.
ImplementsFileSpec == FS!Spec

RootNames == {e[2].name : e \in Children(SFS_BLKN_ROOT)}

\* sfs_inode.c:1162, "delete blocks which file uses": a delete takes one name out of
\* a directory and frees the blocks of that file, so the other entries stay.
RemovesOneName == [][fs'.halt = "" => Cardinality(RootNames \ RootNames') <= 1]_vars
=============================================================================
