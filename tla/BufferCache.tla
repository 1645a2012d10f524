---------------------------- MODULE BufferCache ----------------------------
(***************************************************************************)
(* The block buffer cache of kernel/blockio.c under its callers: FAT access *)
(* (fattab.c), directory and data access and direct transfers (fatfs.c,    *)
(* fatdir.c), media_check, INT 25h and 26h, INT 21h/0Dh and 7305h.         *)
(*                                                                         *)
(* The LRU list is the rank of each buffer, 0 for firstbuf.  A block of a  *)
(* FAT is written to its mirror as well.  written is a history variable:   *)
(* what each block was last given to store, or has if the disk refused it. *)
(***************************************************************************)
EXTENDS Integers, FiniteSets

CONSTANTS
    Block,          \* the blocks of the disks
    Disk, UnitOf,   \* the disks, and the disk of each block
    FatBlock,       \* the blocks of the first FAT
    Mirror,         \* the block of the second FAT for each of them
    Buf, BufCount,  \* the buffers
    NoBlock, NoBuf, \* no block, no buffer
    Data,           \* what a block may hold
    Noise,          \* what a failed transfer leaves in a buffer
    Runs,           \* the runs of blocks that are transferred at once
    Mixes           \* the programs and the disk: [calls, fats, data, reads, writes]: "int26" and
                    \* "int7305", direct writes of programs; the FAT blocks and the data in use;
                    \* the sets of blocks the disk may refuse to read and to write in a step

ASSUME CacheAssumption ==
    /\ UnitOf \in [Block -> Disk]
    /\ FatBlock \subseteq Block /\ Mirror \in [FatBlock -> Block \ FatBlock]
    /\ \A f, g \in FatBlock : f # g => Mirror[f] # Mirror[g]
    /\ IsFiniteSet(Buf) /\ BufCount = Cardinality(Buf) /\ BufCount >= 3    \* config_init_buffers
    /\ Runs \subseteq SUBSET Block
    /\ \A m \in Mixes : /\ m.fats \subseteq FatBlock /\ m.data \subseteq Data
                        /\ m.reads \cup m.writes \subseteq SUBSET Block /\ {} \in m.reads \cap m.writes
    /\ Noise \notin Data /\ NoBlock \notin Block /\ NoBuf \notin Buf

VARIABLES
    mix,        \* the programs and the disk
    buf,        \* the buffers
    rank,       \* their places in the LRU list
    disk,       \* the disks
    written     \* history: what each block is to read as

cacheVars == <<mix, buf, rank, disk, written>>

(* The operators below take the four together and give them back.          *)
Now == [buf |-> buf, rank |-> rank, disk |-> disk, written |-> written]
Becomes(c) == buf' = c.buf /\ rank' = c.rank /\ disk' = c.disk /\ written' = c.written /\ UNCHANGED mix

(* b_flag is BFR_VALID, BFR_DIRTY, BFR_FAT and BFR_UNCACHE; BFR_DATA and   *)
(* BFR_DIR are set but never read.                                         *)
Buffer == [blk: Block \cup {NoBlock}, data: Data \cup {Noise},
           valid: BOOLEAN, dirty: BOOLEAN, fat: BOOLEAN, uncache: BOOLEAN]
Empty  == [blk |-> NoBlock, data |-> Noise,
           valid |-> FALSE, dirty |-> FALSE, fat |-> FALSE, uncache |-> FALSE]

(* A buffer that is not valid: its data is dead, its other flags are not.  *)
Invalid(r) == [r EXCEPT !.valid = FALSE, !.data = Noise]
NoFlags(r) == [Empty EXCEPT !.blk = r.blk]

MirrorBlock == {Mirror[f] : f \in FatBlock}
FileBlock   == Block \ MirrorBlock      \* what the file system reads and writes
DataBlock   == FileBlock \ FatBlock
InUse       == DataBlock \cup mix.fats

(***************************************************************************)
(* searchblock                                                             *)
(***************************************************************************)
move_buffer(rk, b) ==
    [x \in Buf |-> IF x = b THEN 0 ELSE IF rk[x] < rk[b] THEN rk[x] + 1 ELSE rk[x]]

Last(c, S) == CHOOSE b \in S : \A x \in S : c.rank[x] <= c.rank[b]
firstbuf(c) == CHOOSE b \in Buf : c.rank[b] = 0

Hits(c, blk) == {b \in Buf : c.buf[b].valid /\ c.buf[b].blk = blk}
Hit(c, blk)  == CHOOSE b \in Hits(c, blk) : \A x \in Hits(c, blk) : c.rank[b] <= c.rank[x]

(* The buffer to recycle: the last to be released soon, or the last that   *)
(* is no FAT buffer, or the last.                                          *)
Uncached(c) == {b \in Buf : c.buf[b].uncache}
FatBufs(c)  == {b \in Buf : c.buf[b].fat}

Victim(c) ==
    IF Uncached(c) # {} THEN Last(c, Uncached(c))
    ELSE IF c.buf[firstbuf(c)].fat /\ Cardinality(FatBufs(c)) < 3 /\ FatBufs(c) # Buf
    THEN Last(c, Buf \ FatBufs(c))
    ELSE Last(c, Buf)

(* Mutant: the mirror is not written.                                      *)
CopiesOne(r) == {r.blk}

(***************************************************************************)
(* flush1 and getblk.  bad is the blocks the disk refuses to transfer.     *)
(***************************************************************************)
Copies(r) == IF r.fat THEN {r.blk, Mirror[r.blk]} ELSE {r.blk}

Pending(r) == r.valid /\ r.dirty

(* Every copy is tried; a buffer that has one refused is given up.         *)
flush1(c, b, bad) ==
    LET r == c.buf[b]
        d == [x \in Block |-> IF x \in Copies(r) \ bad THEN r.data ELSE c.disk[x]]
    IN  IF ~Pending(r) THEN [c EXCEPT !.buf[b].dirty = FALSE]
        ELSE IF Copies(r) \cap bad = {}
        THEN [c EXCEPT !.disk = d, !.buf[b].dirty = FALSE]
        ELSE [c EXCEPT !.disk = d, !.buf[b] = Invalid([r EXCEPT !.dirty = FALSE]),
                       !.written[r.blk] = d[r.blk]]

Flushed(c, b, bad) == Pending(c.buf[b]) => Copies(c.buf[b]) \cap bad = {}

(* getblk: the buffer with the block, NoBuf on failure.  A read that fails *)
(* has put noise into the buffer and leaves its flags as they were.        *)
getblk(c, blk, overwrite, bad) ==
    LET h  == Hit(c, blk)
        v  == Victim(c)
        c1 == [c EXCEPT !.rank = move_buffer(c.rank, v), !.buf[v].uncache = TRUE]
        c2 == flush1(c1, v, bad)
    IN  IF Hits(c, blk) # {}
        THEN [bp |-> h,
              c  |-> [c EXCEPT !.rank = move_buffer(c.rank, h), !.buf[h].uncache = FALSE]]
        ELSE IF ~Flushed(c1, v, bad) THEN [bp |-> NoBuf, c |-> c2]
        ELSE IF ~overwrite /\ blk \in bad
        THEN [bp |-> NoBuf, c |-> [c2 EXCEPT !.buf[v].data = Noise]]
        ELSE [bp |-> v,
              c  |-> [c2 EXCEPT !.buf[v] =
                        [blk |-> blk, data |-> IF overwrite THEN c2.buf[v].data ELSE c2.disk[blk],
                         valid |-> TRUE, dirty |-> FALSE, fat |-> FALSE, uncache |-> FALSE]]]

(* getFATblock marks the buffer; the copies follow from the mark.          *)
getFATblock(c, blk, bad) ==
    LET g == getblk(c, blk, FALSE, bad)
    IN  IF g.bp = NoBuf THEN g ELSE [g EXCEPT !.c.buf[g.bp].fat = TRUE]

getany(c, blk, overwrite, bad) ==
    IF blk \in FatBlock THEN getFATblock(c, blk, bad) ELSE getblk(c, blk, overwrite, bad)

(***************************************************************************)
(* The callers.                                                            *)
(***************************************************************************)
(* What a step may have refused of what waits to be written, and a read    *)
(* after it (of what no buffer holds, so that one set serves both).        *)
Unwritten  == UNION {Copies(buf[b]) : b \in {x \in Buf : Pending(buf[x])}}
BadWrites  == {w \in mix.writes : w \subseteq Unwritten}
Bad(reads) == {r \cup w : r \in {x \in mix.reads : x \subseteq reads},
                          w \in {x \in BadWrites : x \cap reads = {}}}

(* Reading through the cache; a block read to its end may be released.     *)
ReadBlock(blk, unc, bad) ==
    LET g == getany(Now, blk, FALSE, bad)
    IN  /\ unc => blk \in DataBlock
        /\ Becomes(IF g.bp = NoBuf THEN g.c ELSE [g.c EXCEPT !.buf[g.bp].uncache = unc])

(* link_fat, dir_write, rwblock, clear_dir: get the block, change it and   *)
(* mark it dirty.                                                          *)
Store(c, b, blk, d, unc) ==
    [c EXCEPT !.buf[b] = [@ EXCEPT !.data = d, !.dirty = TRUE, !.valid = TRUE, !.uncache = unc],
              !.written[blk] = d]

WriteBlock(blk, d, overwrite, unc, bad) ==
    LET g == getany(Now, blk, overwrite, bad)
    IN  /\ overwrite \/ unc => blk \in DataBlock
        /\ Becomes(IF g.bp = NoBuf THEN g.c ELSE Store(g.c, g.bp, blk, d, unc))

(* A FAT12 entry that straddles two blocks: both buffers are got before    *)
(* either is changed.                                                      *)
WriteFatPair(x, y, d, bad) ==
    LET g == getFATblock(Now, x, bad)
        h == getFATblock(g.c, y, bad)
    IN  /\ x # y
        /\ Becomes(IF g.bp = NoBuf THEN g.c
                   ELSE IF h.bp = NoBuf THEN h.c
                   ELSE Store(Store(h.c, h.bp, y, d, FALSE), g.bp, x, d, FALSE))

(* flush1 of every buffer in S, in any order: no two hold the same block.  *)
FlushSet(c, S, bad) ==
    LET Lost  == {b \in S : Pending(c.buf[b]) /\ ~Flushed(c, b, bad)}
        Src(x) == {b \in S : Pending(c.buf[b]) /\ x \in Copies(c.buf[b]) \ bad}
        d     == [x \in Block |-> IF Src(x) = {} THEN c.disk[x]
                                  ELSE c.buf[CHOOSE b \in Src(x) : TRUE].data]
    IN  [c EXCEPT
           !.disk = d,
           !.buf = [b \in Buf |-> IF b \in Lost THEN Invalid([c.buf[b] EXCEPT !.dirty = FALSE])
                                  ELSE IF b \in S THEN [c.buf[b] EXCEPT !.dirty = FALSE]
                                  ELSE c.buf[b]],
           !.written = [x \in Block |-> IF \E b \in Lost : c.buf[b].blk = x THEN d[x] ELSE c.written[x]]]

(* Whole sectors go between the program's memory and the disk directly;    *)
(* DeleteBlockInBufferCache flushes them first or, for a write, drops them.*)
DirectRead(S, bad) ==
    /\ S \subseteq DataBlock
    /\ Becomes(FlushSet(Now, {b \in Buf : buf[b].valid /\ buf[b].blk \in S}, bad))

(* Mutant: dirty buffers are left to be written later.                     *)
DroppedClean(c, S) == [b \in Buf |-> IF Pending(c.buf[b]) \/ c.buf[b].blk \notin S
                                     THEN c.buf[b] ELSE NoFlags(c.buf[b])]

Dropped(c, S) == [b \in Buf |-> IF c.buf[b].valid /\ c.buf[b].blk \in S
                                THEN NoFlags(c.buf[b]) ELSE c.buf[b]]
DirectWrite(S, d, bad) ==
    LET to == [x \in Block |-> IF x \in S \ bad THEN d ELSE disk[x]]
    IN  /\ S \subseteq DataBlock
        /\ Becomes([Now EXCEPT !.buf = Dropped(Now, S), !.disk = to,
                               !.written = [x \in Block |-> IF x \in S THEN to[x] ELSE written[x]]])

(* flush_buffers of a disk; flush of all, which then drops all.            *)
OnDisk(u) == {b \in Buf : buf[b].blk # NoBlock /\ UnitOf[buf[b].blk] = u}

flush_buffers(u, bad) == Becomes(FlushSet(Now, OnDisk(u), bad))

flush(bad) ==
    LET c == FlushSet(Now, Buf, bad)
    IN  Becomes([c EXCEPT !.buf = [b \in Buf |-> Invalid(c.buf[b])]])

(* setinvld: the buffers of a disk are dropped, written or not.            *)
setinvld(u) == [b \in Buf |-> IF b \in OnDisk(u) THEN NoFlags(buf[b]) ELSE buf[b]]

(* media_check: a disk that may have changed is read anew, unless there is *)
(* something left to write to it; one that has changed is read anew.       *)
dirty_buffers(u) == \E b \in OnDisk(u) : Pending(buf[b])

MediaDontKnow(u) ==
    /\ ~dirty_buffers(u)
    /\ buf' = setinvld(u)
    /\ UNCHANGED <<mix, rank, disk, written>>

MediaChanged(u, d) ==
    LET new == [x \in Block |-> IF UnitOf[x] = u THEN d ELSE disk[x]]
    IN  Becomes([Now EXCEPT !.buf = setinvld(u), !.disk = new,
                   !.written = [x \in Block |-> IF UnitOf[x] = u THEN d ELSE written[x]]])

(* INT 26h: the disk is written past the cache, and the buffers are        *)
(* dropped when that fails; INT 21h/7305h drops them when it succeeds.     *)
Int26(S, d, u, bad) ==
    LET to == [x \in Block |-> IF x \in S \ bad THEN d ELSE disk[x]]
    IN  /\ "int26" \in mix.calls
        /\ \A x \in S : UnitOf[x] = u
        /\ Becomes([Now EXCEPT
              !.buf = IF S \cap bad # {} THEN setinvld(u) ELSE buf,
              !.disk = to,
              !.written = [x \in Block |->
                  IF x \in S \/ (S \cap bad # {} /\ UnitOf[x] = u) THEN to[x] ELSE written[x]]])

Int7305(S, d, u, bad) ==
    LET to == [x \in Block |-> IF x \in S \ bad THEN d ELSE disk[x]]
    IN  /\ "int7305" \in mix.calls
        /\ \A x \in S : UnitOf[x] = u
        /\ Becomes([Now EXCEPT
              !.buf = IF S \cap bad = {} THEN setinvld(u) ELSE buf,
              !.disk = to,
              !.written = [x \in Block |->
                  IF x \in S \/ (S \cap bad = {} /\ UnitOf[x] = u) THEN to[x] ELSE written[x]]])

CacheInit ==
    /\ mix \in Mixes
    /\ buf = [b \in Buf |-> Empty]
    /\ rank \in {f \in [Buf -> 0 .. BufCount - 1] : \A x, y \in Buf : x # y => f[x] # f[y]}
    /\ disk \in {[x \in Block |-> d] : d \in mix.data}
    /\ written = disk

CacheNext ==
    \/ \E x \in InUse, unc \in BOOLEAN : \E bad \in Bad({x}) : ReadBlock(x, unc, bad)
    \/ \E x \in InUse, d \in mix.data, over, unc \in BOOLEAN : \E bad \in Bad({x}) :
          WriteBlock(x, d, over, unc, bad)
    \/ \E x, y \in mix.fats, d \in mix.data : \E bad \in Bad({x, y}) : WriteFatPair(x, y, d, bad)
    \/ \E S \in Runs : \E bad \in BadWrites : DirectRead(S, bad)
    \/ \E S \in Runs, d \in mix.data : \E bad \in mix.writes \cap SUBSET S : DirectWrite(S, d, bad)
    \/ \E u \in Disk, bad \in BadWrites : flush_buffers(u, bad)
    \/ \E bad \in BadWrites : flush(bad)
    \/ \E u \in Disk : MediaDontKnow(u)
    \/ \E u \in Disk, d \in mix.data : MediaChanged(u, d)
    \/ \E S \in Runs, d \in mix.data, u \in Disk : \E bad \in mix.writes \cap SUBSET S :
          Int26(S, d, u, bad) \/ Int7305(S, d, u, bad)

CacheSpec == CacheInit /\ [][CacheNext]_cacheVars

(***************************************************************************)
(* Properties                                                              *)
(***************************************************************************)
(* A block is in one buffer at most, and reads as what was last written to *)
(* it, from its buffer or from the disk, through recycling, direct         *)
(* transfers, flushes and failed writes: the cache never shows and never   *)
(* leaves an older block.  What a program writes to the disk past it is    *)
(* held to the first of these only.                                        *)
Content(x) == IF Hits(Now, x) # {} THEN buf[Hit(Now, x)].data ELSE disk[x]
Coherent   == \A x \in InUse : /\ Cardinality(Hits(Now, x)) <= 1
                              /\ mix.calls = {} => Content(x) = written[x]

(* A dirty buffer of a FAT block that a step has flushed and kept is the    *)
(* same in every copy of the FAT: no copy is skipped, and a refused copy    *)
(* is never taken for a written one (flush1 then drops the buffer).         *)
MirrorsWritten ==
    [][\A b \in Buf : /\ buf[b].valid /\ buf[b].dirty /\ buf[b].blk \in FatBlock
                      /\ buf'[b].valid /\ ~buf'[b].dirty /\ buf'[b].blk = buf[b].blk
                      => disk'[Mirror[buf[b].blk]] = disk'[buf[b].blk]]_cacheVars
=============================================================================
