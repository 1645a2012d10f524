# A model of the fdpp DOS kernel

fdpp is the FreeDOS kernel built as a library for a 64-bit host. Programs run in
real mode, enter the kernel by software interrupts, and find there one big
collection of static tables: MCBs, the SFT, the SHARE tables, the disk buffers,
the HMA, the units of the block driver. This directory holds TLA+ modules of those
tables and of the calls that change them, of the start-up that makes them, and of
the runtime that lets a C++ kernel and real mode call each other; TLC
configurations that check them on small instances; and proofs checked by TLAPS.

    tlc -workers 2 -config MCShare.cfg MCShare        check one run
    tlapm HmaProofs.tla                               check the proofs of one module

Line numbers below are those of the sources in this repository.

## 1. The system

The kernel has no threads. A call of a program runs to its end before the next
one starts, and what makes the code hard is not parallelism but

- **long legal sequences** of calls by several processes over shared static
  tables (a child inherits handles; a parent waits while its child runs; a search
  goes on after the directory was changed);
- **stale state**: an index, an offset, a buffer, a cluster or a link state that
  is read, then used after something else has changed it; a floppy that was
  exchanged;
- **partial failure**: a disk, a driver or a table refuses one of several steps.
  `DoCriticalError` (kernel/error.c:86) answers FAIL without calling INT 24h in
  this port, so a refused step is an error of the call, and no user program runs
  in the middle of it;
- **tables at their limit**, and arithmetic in 16 and 32 bits.

Where calls do meet each other, it is in three places:

- a console call waits in a loop for a key, and in that loop runs INT 28h (whose
  handlers call DOS again), sees Ctrl-C and Ctrl-Break, ends the process from
  within the call, or restarts it (`Console`);
- calls between the host and real mode nest, are left by jumps that never return,
  and are cut off by a reset of the host (`FarObjects`);
- a floppy is changed between any two calls, in a drive with two letters (`Disk`).

### Inventory

| Component | State | Operations | Correct when |
|---|---|---|---|
| SHARE (kernel/share.c) | `file_table`, `__lock_table` | open check, close, lock, unlock, access check | deny modes hold; locks never meet and never outlive their open |
| Handles and SFT (dosfns.c, newstuff.c, fcbfns.c, task.c) | `sft` with counts, a JFT per process, `cu_psp` | open, close, dup, forced dup, JFT size, FCB open and close, set attributes, exec, exit, keep | an SFT is free exactly when nothing names it; a handle names what it was opened for |
| Conventional and upper memory (memmgr.c, task.c) | the MCB chain, `uppermem_link`, `mem_access_mode` | allocate, free, resize, link UMBs, load, end, keep | the chain is whole; a process keeps its blocks; none is left ownerless |
| HMA (hmamgr.c, inithma.c) | the HMCB chain, `HMAclaimed` | INT 2Fh/4A01h-4A04h, end of process | the same |
| Buffer cache (blockio.c; callers fattab.c, fatfs.c, fatdir.c, inthndlr.c) | LRU list of buffers, the disk | getblk, flush, setinvld, direct transfers, media check | a block reads as last written; no block in two buffers; both FATs written |
| FAT files (fatfs.c, dosfns.c) | the SFTs, their entries, the cluster each stands at | open, read, write, extend, truncate, delete, rename, commit, close, file times | all SFTs of a file and its entry agree; a position lies in the chain |
| FAT directories and search (fatdir.c, fatfs.c) | entries of the root and of growing directories, the DTA | mkdir, rmdir, rename, find first and next | every name once; a search returns all that stays |
| FAT table (fattab.c) | FAT entries, free count, hint | `link_fat`, `next_cluster`, `find_fat_free` | chains are disjoint and end; the free count is right |
| Dispatch (inthndlr.c, entry.asm, dosidle.asm, procsupt.asm) | InDOS, the stacks | INT 21h, 28h, 23h | InDOS is the number of calls in progress; no stack is entered twice |
| Ctrl-Break and console (break.c, chario.c, console.asm) | keyboard queue, break flag, line buffers | 01h-0Ch, 3Fh, the line editor | a line is handed over whole; a call ends |
| CONFIG.SYS (config.c) | the file and line being read, chain, menu, settings, INSTALL list | three passes | every line once in its pass; the start-up ends |
| Memory at start-up (config.c, inithma.c, main.c) | the first MCBs, UMBs, the HMA | load drivers, link UMBs, allocate tables | the chain programs find is whole |
| Partitions (initdisk.c) | units, the partitions found | scans of the tables | each partition one letter, in order, with a BPB that describes a disk |
| Block driver (dsk.c) | units, geometry, change line, times | transfers, media check, BPB, IOCTL | every sector in its place; no old floppy's data |
| fdpp runtime (thunks.cc, dosobj.cc, smalloc.c, objtrace.cpp, objhlp.cpp, farobj.hpp) | pool, objects, deferred frees, nesting | call, return, jump, reset | objects live while used; nothing lost or freed twice |
| FCB input and output, clock, NLS, redirector, loader, strings | | record arithmetic, calendar, table look-up, external program | |

How they meet: `DosOpenSft` takes an SFT, asks the file system, then takes a
SHARE entry and keeps its index in the SFT (`sft_shroff`); `DosCloseSft` gives
both back; exec copies JFTs and counts SFTs; the end of a process closes handles,
FCB files, memory and HMA, in that order; the file system reads and writes
through the cache, the absolute disk calls go past it; a media check that finds a
change drops buffers and builds the DPB anew from what the driver says; the
start-up runs the passes over CONFIG.SYS, loads drivers into the memory it has so
far, scans the partitions, makes the pool of far objects anew and jumps to the
shell.

`PROJECT.json` lists each component with its status and each hazard with the
source line where it bites and the properties that cover it.

## 2. The modules

| Module | Models | Uses |
|---|---|---|
| `ByteLocks` | the promise of record locking: a set of regions, none meeting another | |
| `Share` | kernel/share.c | instantiates `ByteLocks` |
| `Handles` | dosfns.c, fcbfns.c and task.c around the SFT | extends `Share` |
| `HandleProofs` | theorems about `Share`; SHARE entries and locks under `Handles`, reference counts, handles that stay open | extends `Handles`, TLAPS |
| `MemMgr` | memmgr.c and the memory side of task.c | |
| `MemProofs` | theorems about the MCB chain | extends `MemMgr`, TLAPS |
| `HmaMgr` | hmamgr.c and INT 2Fh/4A0xh | |
| `HmaProofs` | theorems about the chain of the HMA | extends `HmaMgr`, TLAPS |
| `BufferCache` | blockio.c and its callers | |
| `CacheProofs` | coherence of the cache, copies of the FAT | extends `BufferCache`, TLAPS |
| `FatFs` | fatfs.c, fatdir.c, fattab.c and the calls above them | |
| `FatProofs` | the free count, chains of clusters, directories, shared files | extends `FatFs`, TLAPS |
| `Config` | config.c: passes, menu, keys, chains, settings, INSTALL | |
| `StartMem` | config.c, main.c, inithma.c: memory until the shell starts | |
| `Console` | chario.c, break.c, the entry code in assembler | |
| `ConsoleProofs` | stacks and InDOS over nested calls, lines handed over | extends `Console`, TLAPS |
| `InitDisk` | initdisk.c: letters and default BPBs | |
| `Disk` | dsk.c and `media_check` | extends `InitDisk` |
| `DiskProofs` | letters within reach, transfers and BIOS calls, floppies known | extends `Disk`, TLAPS |
| `FarObjects` | the fdpp runtime: pool, objects, nested calls | |
| `FarProofs` | the pool, what a jump was given, leaks | extends `FarObjects`, TLAPS |
| `MC*` | constants for TLC | |

In the modules of the tables (`Share` to `FatFs`) one call of a program is one
step: that is how the kernel runs it. In the others a call takes several steps,
as fine as what may happen in between: a key, a reset, a BIOS call, a line of
CONFIG.SYS.

Several modules have a constant `Mixes` and a variable `mix` set at the start and
never changed: what the programs of a behaviour do, what may fail and how much of
it there is. A run checks every member, so that one configuration holds, say,
programs with failing disks and programs with deep nesting without the product of
the two.

### Share and ByteLocks

`fileTable` and `lockTable` are `file_table` and `__lock_table`. `Open` is
`share_open_file` with `do_open_check`: the lowest free entry is filled, the
lowest other entry of the file lends its first modes, the tables `open_actions`
and `open_exceptions` decide, a refused entry is freed. `Lock` and `Unlock` are
the two halves of `share_lock_unlock`, `EndOf` the sum of offset and length with
the test for a wrap. The name of a file is a model value. Files of read-only
media and "network" paths do not reach these functions.

`ByteLocks` knows neither table: a region has a holder, a file and two ends.
`ImplementsByteLocks` says that each step of `Share` is a step of it or none.

### Handles

`sft` keeps the count, the file, the SHARE index and the flags of an SFT; `jft`
the handle tables; `parent` and `cu_psp` the nesting of processes. `CloseSfts`
is `DosCloseSft` with its order kept: the close of the file may fail (the faults
of `mix`), the SHARE entry goes, then the count. A handle duplicated onto itself
(`forcedup_self`) is a call of its own, since it is where `DosForceDup` reads a
handle after closing it. A program is `Plain` when none of its closes and opens
fails and it uses neither that call, nor a smaller handle table, nor set
attributes: each of these leaves a count without the handle it was for, and
`CountsExact` speaks of plain programs. `DosSetFattr` includes `merge_file_changes`, which closes
every SFT of the file. Not in it: new_psp (INT 21h/26h), whose PSPs share handles
without counting them, and redirected files. Positions and transfers are in
`FatFs`.

### MemMgr

`mcb` maps each paragraph to the header it holds, or holds the remains of; only
the walk from `First` tells one from the other, as in the code. `Search`,
`Split`, `joinMCBs`, `DosMemAlloc`, `DosMemFree`, `DosMemChange`,
`DosMemLargest` and `DosUmbLink` are the functions of those names. `Exec` is
both loaders: the environment is allocated, then the block (low or high, as much
as it wants or no less than it needs), the strategy and the link state are saved
and set back; `broken` is a load that fails after both allocations. `.COM` and
`.EXE` differ in what they want (`FAKE`, 65535, is all there is), except for
`.COM` files of less than 16 bytes, which are left out: in a block of 16
paragraphs they fail after their blocks were given to a PSP that never ends
(task.c:591).

### HmaMgr

As `MemMgr`, with a link in each header. The loops of the code along the chain are
`Repeat` of one step each: `joinNext`, `Search`, `FreeOwned`. Both allocating calls round sizes up to
16 bytes, so paragraphs are exact; sizes above 0xfff0, which round to 0, are
left out. `DosHMAChange` is not modelled: nothing calls it.

### BufferCache

`rank` is the LRU list, `disk` what the disk holds. `getany` is
`searchblock` and `getblk`: a hit moves to the front; otherwise a victim is
chosen, flushed, and read or overwritten. `flush1` writes a FAT block to each of
its copies and drops a buffer when one is refused. The actions are the callers:
reading and writing a block of a directory or of a file, a FAT entry in one
block or in two, direct transfers with `DeleteBlockInBufferCache`, flushing a
drive or all, `media_check`, INT 26h and INT 21h/7305h. `written` is a history
variable: what was last given to a block to store, or what the disk kept of it
when the call has reported that it refused. Not in it: the FSINFO sector of FAT32.

### FatFs

`fat`, `nfree` and `hint` are the FAT entries, `dpb_nfreeclst` and `dpb_cluster`;
`dirent` the slots of a fixed root and of directories in clusters; `sft` the open
files with the cluster each stands at; `search` a DTA. The work of a call is a
record `W` passed from helper to helper in the order of the code (`Extend`,
`MapCluster`, `WipeOut`, `Shrunk`, `alloc_find_free`, `merge_file_changes` as
`Told` and `Distributed`), with the number of writes to the FAT after which
`link_fat` fails. Long names are one more slot before the short one. "." and ".."
are one entry. A search runs to its end before the next starts, with any calls in
between. The contents of a directory's clusters are forgotten when it is freed.
Left out: attributes, volume labels beyond one that occupies a slot, FAT32 root
directories, current directories, wildcards other than `*.*`.

Two switches, FALSE in the run, name what the code does not promise:
`SharedWriters` (a file opened for writing twice) and `SharedTruncate` (a file
truncated while it is open elsewhere). With them:

- the truncation by a write of no bytes is not told to the other SFTs (only size,
  time and start are merged), and `merge_file_changes` updates start and size
  but not the cluster an SFT stands at (fatfs.c:437-446, comment 387-395): its
  next access may follow a freed chain;
- a reader that opened an empty file keeps its current cluster 0 until it seeks;
- replacing a file by create frees the chain of the directory entry, which may be
  older than that of an SFT.

Others met there, which need what the module leaves out: renaming a directory
leaves the names SHARE keeps, and the current directories, as they were; rmdir
during a search leaves the DTA at a freed cluster; a reader that closes last with
its file time set writes its older size.

### Config

`boot` chooses a disk with its files, `here` and `eof` are the file and line being
read, `chain` the files CHAIN has left, `pass` is `nPass`. `Read`, `Line`,
`SkipKey`, `Decide`, `Answer`, `Do` are the parts of `DoConfig` in their order; a
key of the user comes in wherever `GetBiosKey` is called. Values keep their widths
(`UByte`, `SByte`). The settings a line changes are in `config`, lines that touch
memory are in `StartMem`.

What the code does here and a reader may not expect: the eleventh INSTALL is
admitted by `>` and dropped later (2993); FILES=256 passes `> SFTMAX` and becomes
0 in a UBYTE (1565, config.h:33); STACKS above 127 is negative in a BYTE
(2040-2048); FCBS wraps at 256; DoMenu appends CONFIG=n to the environment with no
test of room (2757), while SET lines are tested; CHAIN in an unterminated last
line is not read, and the unterminated last line of a chained file is dropped; a
second SWITCHES line, and MENU or SWITCHES in a chained file, are not seen in
pass 0; lines of pass 0 ignore menu digits; ESC does not stop the questions of "?"
lines, as 1413-1415 says; MENUDEFAULT may name an item that is not offered; a
setting with HIGH takes that even when its number is refused.

### StartMem

`mem` is the first part of memory with `base_seg`, `umb_base_seg`, `umb_start`
and `umb_max`. `KernelAllocPara` cuts from the start of the free block and
lengthens the system's own block, drivers are loaded and keep what they end with,
UMBs are asked of the XMS driver largest first and linked with headers over the
gaps, the HMA takes the tables when there is room.

Where it differs from its comments: the piece made in 705-712 is a paragraph too
large and never the last; the branch for a heap in the HMA (757-775) uses an
`umb_max` from before a merge; a UMB merged on both sides is one paragraph short;
`KernelAllocPara` does not ask whether `nPara` fits; DEVICEHIGH never falls back
to low memory; `ram_top` is asked for again (660) when only the base MCB is
lowered. And `HMAInitFirstMcb` wraps to 0 when the HMA is used up (hmamgr.c:403).

### Console

`frames` holds the calls and interrupt handlers in progress, `kbd` the keyboard
with the ^Break flag of the BIOS, `line` the locals of `do_read_line`, `kb` and
`usr` the two line buffers, `inputptr` what is left of a line for INT 21h/3Fh.
A call is a sequence of steps, each one look at the keyboard with what follows
from it. INT 28h handlers call DOS functions from `HookOps`, INT 23h handlers
return, abort or go on. `owed` is a history variable: the rest of the line that
3Fh has to hand over.

What it leaves out, and what the code does there: a handler of INT 28h that makes
a call above 0Ch with BREAK on, gets ^C in it and ends the process leaves InDOS at
1 (`HookOps = {"0D"}`); a 0Ah line of more than 128 characters overwrites `kb_buf`
while part of a line for 3Fh waits in it (chario.c:551-554, kernel.asm:437-439);
`read_char_eof` (560-566) takes the 0 of a function key for the end of the file;
`read_line_handle` adds 2 to the count (590-594) though 555 says that no CR is
counted; after the end of the file or a hang-up 3Fh hands the previous line over
again; DEL moves the position in the stored line past its end; ^Break is not
looked at while a call waits on CON itself; the pause by ^S eats two more keys.
Printer echo, raw transfers and calls of an INT 23h handler are not modelled.

### InitDisk and Disk

`setup` is a machine: floppy drives, hard disks with their partition tables (any of
which may be unreadable in any scan), options. `todo` and `scan` are the calls of
`ProcessDisk`, `found` is `foundPartitions`, `ddt` the units. `Disk` goes on with the
units made: `io` is a transfer cut into BIOS calls with their retries, `drive` and
`media` the floppies, `dos` what the DPB and the buffers of each unit stem from.
Assumed: to change a floppy takes more than the 37 ticks (2 seconds) within which
`media_check` answers "not changed".

`MediumKnown` excepts the units that a history, `unchecked`, names: those used, or kept
for their dirty buffers, while their DPB or BPB was not of the floppy in the drive.
Some exceptions take 7 calls and more, beyond the bound of the run (a BPB that an
IOCTL read from a floppy no longer there), and were found by TLC's simulation
without a bound before the theorem was proved. Serial numbers do not matter to it:
where there is no change line a floppy with the number of another one is
answered "don't know", which keeps the DPB only while buffers are dirty.

A letter that is masked out (`DriveMask`) is another matter: `DosDefinePartition` makes it
a unit of drive 0 that is not marked as another letter of it (initdisk.c:605). A
media check of it reads A:'s floppy and takes the change of the floppy away from A:,
whose next check finds nothing changed. `IsStocked` therefore lets machines with
such letters only start.

Noted there: an unformatted floppy makes `getbpb` return success without a BPB, and
`media_check` builds the DPB from the BPB of the unit built last (dsk.c:399, "no
bogus data"), while 46h and 66h answer success and do nothing; dirty buffers let
"don't know" pass as "not changed", and the old floppy's data go to the new one
(fatfs.c:1762); 440Fh makes a letter current without a look at the disk; 42h clears the
change mark before it knows the outcome, and formats one track as often as it is
told tracks; partitions of sizes between the limits of two FATs (FAT16 below 8 MB
or above 8.39 million sectors, FAT12 above 32736 sectors, FAT32 below 4.1 thousand)
get a default BPB that does not describe them, and an entry of 0 sectors gets a letter;
only the first extended entry of a table is followed, and a cyclic chain gives its
partition up to 30 letters; a drive masked out gets its unit back by a `getbpb`;
`LBA_WRITE_VERIFY` is set for all drives by one. `DefaultsFit` and the setups of
`MCDisk` keep to sizes within the limits.

### FarObjects

`pool` is the list of nodes of smalloc.c with `avail`; `frames` the FdppCalls under
way, each with its FarObjs; `deferred` is `gc.list`; `shmap` the strings of `Config`
before a FarObj owns them. `cpu` says whose turn it is: real mode may call the kernel,
the kernel may call real mode, jump to it for good (`Jumped`: the scopes are left
by an exception, the frees wait for the next `objtrace_enter`), and the host may
reset at any moment, which ends one call after the other (`Unwind`). `FreeDOSmain`,
`configPreBoot`, `ReplaceTail` and `JumpToShell` are the start-up, and a reset leads
back to it. A pool without room ends the program (`_fail`), so an allocation has
room as its guard. The list of deferred frees is a set: blocks are joined whatever
the order. Left out: what objects contain and when it is copied, the reference
and lock counts of objlock.cpp with the wrappers of farptr.hpp, the far symbol table
and its relocation, and the calls of smalloc.c that nothing uses.

Of `dosobj_reinit`'s `assert(!leaked)`, `NothingLeaked` says all that holds. A
program of INSTALL= that sets the hang-up signal to its default by INT 21h/8Ch and
is hung up in a console read ends by `return_user` with the FarObj of `read_char`
alive (chario.c:315, dosfns.c:243); when no call of the kernel follows before
`configPreBoot`, the assertion fails. `hung` marks that case. Without assertions the
next call would free an address in the new pool. And `P_0` (task.c:970) reads a
field of `Config` after its own `objtrace_enter` has given back the block of it.

## 3. The runs

Times are with two workers on a small machine.

| Run | Shows | Bounds, and why they do |
|---|---|---|
| `share` (30 s) | deny-all is exclusive; locks never meet, and the tables implement `ByteLocks` | 2 files, 3 entries (first, later, third open; a reused index), 2 locks, offsets 0-2 with wrap; pairs of modes with each deny mode, one of them invalid |
| `handles` (2 min) | counts are exact, SFTs and SHARE entries stay paired, a lock stays until the last handle, an SFT with a handle is never free | 3 processes (a child of a child) and 2 SFTs without faults; 2 processes with failing closes and device opens and tables that shrink from 3 handles; 2 processes with 2 files, FCBs and set attributes; the same with FCBs and duplicated handles but no faults, for the counts |
| `mem` (2 min) | whole chain, honest largest size, no orphans, parents keep their memory | 5 conventional and 2 upper paragraphs: enough for a split, a join of three, and the border between the areas; one process with all strategies, or two nested ones with three strategies and every failing stage |
| `hma` (2 min) | whole chain, blocks stay with their owners | 8 paragraphs, claimed late or with the kernel in it; a shell and a program |
| `cache` (2 min) | coherence and no block twice; all FAT copies written | 3 buffers, 4 or 5 cached blocks (so that one is always recycled); refused writes of the FAT, of data; INT 26h and 7305h with entries in two blocks and refused reads |
| `fat` (2 min) | chains sound and none lost, free count, positions, agreement of sharers, directories whole, searches complete | 2 clusters, so that the disk is full at once; 2 files and 2 SFTs up to 2 units, or 2 files and 2 directories with one search; 4 mixes; a link that fails at the first write of a call |
| `config` (10 s) | every line once in its pass; the start-up ends | boots with menus, questions, chains that loop; F5, F8 and ESC at any key |
| `config_menu` | the timeout of a menu does not end it (violation) | one menu |
| `startmem` (20 s) | the chain is whole, gaps are covered, nothing is given twice | up to 4 UMBs in 8 orders, 2 drivers, sizes 1 and 2 |
| `console` (45 s) | InDOS exact, stacks apart, lines whole, waits end | 5 uses of up to 6 keys and events, a buffer of 4 characters (full after 2), every function key |
| `disk` (45 s) | right letters and default BPBs, every sector moved once, no old floppy's data | a dozen machines: tables with every kind of entry, unreadable ones, sizes at the limits; transfers at a page, a track and the end of memory; 4 or 5 calls with floppies changed, transfers by either letter among them |
| `far_objects` (10 s) | the pool is what the live objects take, a jump keeps what it was given, nothing leaks into the next pool | pools of 7 and 6 units, objects of 1 and 2, 3 nested calls with 2 objects each: the start-up, an INSTALL program and a call from it; resets and hang-ups at any moment |

Bounds by name: `FileTableSize`, `LockTableSize`, `SftCount`, `MaxOfs` stand for
256, 1024, the `FILES=` count and 2^32 - 1; `bound` in a mix stops the counts,
`MaxFiles` the handle tables, `depth` and `MaxDepth` the nesting; `Runs` are the
sets of blocks a direct transfer takes at once; `MaxTimes` and `max` stop histories
and keys. Symmetry is used for files, names, data and buffers, which only equality
tells apart.

`CHECK_DEADLOCK FALSE` stands in four configurations: in `handles`, `fat` and
`disk` the calls are bounded and the last program may have none left; in `console`
the program is done when its keys are used up.

Fairness. Only `config` and `console` state any. The start-up is one program that
runs without anyone's help between two questions: weak fairness of `Program`. In
`Console` a call that waits polls the keyboard for ever (chario.c:331), so a look
at it that finds a key comes if keys keep being there: strong fairness of `Reads`,
because handlers of INT 28h run in between, and weak fairness of `HandOver` and
`Return`, which nothing delays. Nothing is assumed of the user, of programs or of
the handlers' number; `WaitEnds` and `ConfigSettles` say what follows even so.

### Disagreements with the code's own comments

`config_menu` ends in a counterexample: `GetBiosKey` returns 0xffff as an unsigned
word when no key came in time (its comment, config.c:1310), `DoMenu` keeps it in an
`int` and compares it with -1 ("timeout, take default", 2706). A menu with
MENUDEFAULT and a timeout waits for ever.

More were met while modelling; the checked properties are stated so that they say
what does hold. Some can be had from TLC by the change named:

| What | How |
|---|---|
| A third open is tested against the first one only: deny-none, deny-write, then a writer (share.c:244) | `MCShare.cfg` with `PROPERTY DenyModesHonoured` |
| `FcbCloseAll` ends at the first closed SFT, since `idx_to_sft` refuses it, and leaves FCB files behind it open (fcbfns.c:655-661) | |
| A handle duplicated onto itself leaves a counted SFT without a handle (dosfns.c:763) | `CountsExact` leaves that call out of its claim |
| Set attributes asks SHARE for one open of a file that others have open too (dosfns.c:1287) | |
| `DosHMAFree` wants the offset of the block, its comment and `FreeProcessHMA` give that of the header (hmamgr.c:201, 216, 385): the HMA of a process is never freed, an empty block of another process in front of it is | `HmaBlocksKept` speaks of blocks that hold something |
| Both loaders unlink the upper memory where "restore link state" is meant (task.c:540, 744) | |
| When `ChildEnv` fails, `env` is freed unset (task.c:535): any block may go | `MCMemMgr.cfg` with other paragraphs in `StaleEnv` |
| A successful INT 26h keeps the buffers, a failed one drops them (inthndlr.c:1793, blockio.c:209) | `Coherent` excepts blocks programs wrote themselves |
| 7305h that fails half-way keeps the buffers of what it wrote (inthndlr.c:388) | |
| A failed read leaves its remains in a buffer valid for its old block (blockio.c:232) | |
| `searchblock` tests the first buffer for being of the FAT, not the victim (blockio.c:135) | |
| A UMB that meets an earlier one from below breaks the chain (config.c:695) | `MCStartMem.cfg` with `Layouts <- Below` |
| F2 and F4 "insert/delete up to character c" (chario.c:448), but `new_pos` (461) is a distance from `stored_pos`, used as a place in the stored line (466-472): with `stored_pos` 2 in `aaa`, F2 and `a` move it back to 1 | `MCConsole.cfg` with `Uses <- MCTemplate` and `PROPERTY UpToCharacter` |
| A hang-up in an INSTALL program fails `assert(!leaked)` (dosobj.cc:60) | `MCFarObjects.cfg` with `~leaked` for `NothingLeaked` |

## 4. The proofs

The first part of `HandleProofs` is about `Share` alone. It proves for tables, offsets and sets of files and processes of any
size, from `FileAssumption`, `SizeAssumption` and `OpenArgsAssumption` (the empty
name is no file; the sizes are positive; modes are naturals):

- `LockInvHolds`: `LockInv`, that is typing, `LocksOwned`, `LocksDisjoint` and
  `LocksNonEmpty`, is inductive. Typing alone is not: an open writes a reused
  entry, and only `LocksOwned` says that no lock names it; disjointness of the
  regions of a *file* would otherwise be broken by giving an entry a new name.
  `LocksNonEmpty` (a lock has start < end, which holds because the wrapped end
  is clipped and an empty region is refused) is what makes "does not meet"
  symmetric. `ShareTyped`, `LocksAreOwned` and `LocksAreDisjoint` follow.
- `OpenInvHolds`: all opens of a file carry the same first modes, and an open in
  deny-all mode is the one that set them, hence the only one. It does not matter
  which entry the scan of the table meets, since all of them lend the same
  modes. `FirstModesAlwaysAgree` and `DenyAllIsExclusive` follow.
- `ShareImplementsByteLocks`: the refinement mapping `RegionOf` takes each of
  the four operations to the operation of `ByteLocks` or to no step.

The lemmas are one per operation (`LockInvOpen`, `LockInvClose`, `LockInvLock`,
`LockInvUnlock`), and facts about `FirstOf` (the lowest index) and `EndOf`.
`LocksDisjoint`, `DenyAllExclusive` and `ImplementsByteLocks` are also checked by
TLC; typing, `LocksOwned` and `FirstModesAgree` are proved only.

### Handles and SHARE (`HandleProofs`)

For any number of processes, handles, SFTs and SHARE entries, every mix of calls
and every set of faults, from `HandlesAssumption` and the assumptions of `Share`.

- `SharesAreOneToOne` (`ShareOneToOne`): `HandleInv` adds the shape of the tables
  and `LocalsNamed`, an open SFT with an index has a file name. Without the name
  the entry of an SFT could be one that SHARE takes for free and gives to the next
  open. The calls reach the tables in three ways only, and there is a lemma for
  each: SFTs are closed (`CloseSfts`, of any set of SFTs, failing or not), one is
  opened, or counts change.
- `LocksAreKept` (`LocksKept`): from the same invariant; a lock that goes without
  an unlock belonged to an SHARE entry no open SFT has afterwards.
- `CountsAreExact` (`CountsExact`) and `HandlesKeepTheirFiles` (`HandlesStayOpen`):
  `CountInv` says that a count is *at least* the number of handles that name the
  SFT, whatever fails; that an FCB file has count 1 and no handle; and that the
  waiting processes form a sequence of live, different processes, each the parent
  of the next, so that a process that ends returns to a live one and not to one
  whose table is gone. Exactness is claimed for `Plain` programs. "At least" is
  enough for `HandlesStayOpen`: a handle that stays is a reference after the
  step, so the count is not 0, and an SFT with a count keeps its file and index.
  The sums over all handles and processes are cardinalities of `Refs`; a lemma
  each says what adding, removing, copying and dropping a table does to them.

### Memory (`MemProofs`)

For memory of any size below 1 MB, any place of the two areas, any sizes, strategies
and failures of loads, from `LayoutAssumption`.

- `ChainStaysWhole` (`ChainWhole`), `NoBlockIsOrphaned` (`NoOrphans`) and
  `ParentsFindTheirMemory` (`ParentsKeepMemory`).
- `ChainWhole` walks the chain, and no walk is inductive. `Tiled` says the same
  without one, by neighbours: after each valid header comes a valid header or
  the end, and between the two there is none. So the remains of joined headers are
  never valid, and the walk from a header is all the valid ones above it
  (`WalkIs`: the recursion of the walk has one solution, found by the highest
  header where two would differ).
- One lemma per operator of the module says what it does to tiled memory: owned
  blocks stay where they are with their size and owner (`Keeps`), but for the one
  the call is about; new owners come from the call. They compose along the code:
  join, search, choose, split, allocate, the largest block, then the loaders. A
  step of the model *stays*, *enters* a process or *leaves* one (`Steps`).
- `ChainInv` needs that no PSP lies in `uppermem_root`, which belongs to the system
  and never changes hands. `MemInv`, for the parents, adds that every process on the
  stack owns the block of its PSP and that PSPs differ: a process that ends frees
  what has its PSP as owner, which is nothing of its parent.
- The two hypotheses are about the variable the loaders free before they set it
  (task.c:535). `RootKept` (it is not `uppermem_root`) is needed for the chain:
  with it free, a join would swallow the header that every search and
  `DosUmbLink` rely on. `GarbageHarmless` (it names no paragraph of memory) is
  needed for the parents, since any block may go by it.
- `LargestIsExact` (`LargestExact`): `DosMemLargest` and `DosMemAlloc` are two searches
  of the chain in a row, the first of which may join blocks. Both start at the same
  header (`Start`), and a search finds a block exactly when a free header, counted
  after the joins, is large enough (`Enough`, `ChooseSees`, `ChooseGets`). A repeated
  search joins nothing more and sees the same headers (`SearchAgain`): unlinked,
  both stop at the end of conventional memory, linked, both go on. `Settable` is
  what a program can make of the strategy; a load changes it in between and the
  invariant says that it is put back.

### The HMA (`HmaProofs`)

`HmaIsCovered` (`HmaChainWhole`) and `HmaIsKept` (`HmaBlocksKept`), for an HMA, sizes
and sets of processes of every size, from `HmaAssumption`.

`HmaInv` says of an HMA that nobody has claimed that no paragraph of it looks like a
header, and of a claimed one that it is a `Row`: there is a set of headers `L` that cover
the area, each leading to the next by its link, the last to the end. Unlike an MCB
of low memory, a header that was joined into the block before it stays where it
was, and by its contents it is a header still. So a `Row` also says what every
other paragraph looks like: as free, and what is left of a header leads to a
place inside the area. `DosHMAFree` of such an address, freed twice say, and
`FreeProcessHMA`, which passes the address of the header where that of the block
is wanted and so frees an empty block before it or nothing, then leave a row.

- `joinNext` and `Search` are repeated as often as there are paragraphs; each lemma
  says what one step keeps and what is known when it stops by itself.
- `HmaChainWhole` speaks of `chain`, the closure from the first header: `ChainIs`
  shows that in a row this is `L`, by going down from the last header: the closure from
  any header is that header with the ones above it.
- `HmaIsKept` needs no more than the row: an allocation splits a free block, and
  the end of a process changes its own headers and empty ones.

### Block cache (`CacheProofs`)

`CacheIsCoherent` (`Coherent`) and `MirrorsAlwaysWritten` (`MirrorsWritten`) for any number of buffers from three on, any number
of blocks and copies of the FAT, refused writes, direct transfers, INT 26h and
changed disks, from `CacheAssumption`.

`CacheInv`: ranks differ, valid buffers hold blocks of the file system and are
marked FAT exactly for those of the FAT (the mark decides where a buffer is
written), no block is in two buffers, and both buffers and, for blocks no buffer has
yet to write, the disk have what was last written. The part about contents is
claimed for programs that do not write sectors themselves (INT 26h, 7305h), as in
`Coherent`. Three buffers are needed by a FAT entry in two blocks: the buffer of the
first block must not be the victim for the second, and it is not because it is
at the front of the list and the victim is at the end, or is the one behind.
The hypothesis `ReadsSucceed` stands for what the code gets wrong: a read that fails
leaves its remains in a buffer still valid for its old block (blockio.c:232).

`MirrorsAlwaysWritten` does without that hypothesis. `Paired` compares the state
before a call with the one after each operator in it: a FAT buffer that was dirty
and is now clean and still valid has its data in every copy. It survives what the
call does next, since what is written after that is other blocks, or the same
block again with its copies.

### The FAT: the free count (`FatProofs`)

`FreeCountHolds` (`FreeCountExact`) for disks and directories of every size, any
number of open files and units, every call, and links of the FAT that fail anywhere
in a call, from `FatAssumption`.

`CountInv` is the count with the types of the disk and the SFTs. A call is a
composition of operators on a record of work, so the proof is a set of lemmas, one
per operator, that each keep a table `Good`: typed, and with a count that is right
or unknown. The count changes in `LinkFat` only, where `CountOne` relates it to the
one entry written; the other operators matter because a count would be lost by
an entry written outside `link_fat`, or by a cluster that is none. Calls that repeat
a step (`map_cluster`, `wipe_out_clusters`, reads and writes) do so a fixed number of
times: `Iterates` and `UpTheSteps` carry a property from each step to the end.
What holds of slots (`SlotInIs`, `FindFreeIs`, `DirReadIs`) says what the directory
searches return.

### The FAT: chains, directories and shared files (`FatProofs`)

`ChainsStaySound` (`ChainsSound`), `NothingIsLost` (`NoLostClusters`),
`PositionsStay` (`PositionsInChain`), `SharersStayAgreed` (`SharersAgree`) and
`DirectoriesStayWhole` (`DirectoriesWhole`), for disks and directories of every
size, any number of open files, every call, and whichever write of the FAT fails,
from `FatAssumption` and `ReadersShare`: `SharedWriters` and `SharedTruncate` are
FALSE, as in the run. Without it the first and the third do not hold (see FatFs in
section 2). `FatAssumption` has room for the first disk, a root of two slots and a
file of one unit, and bounds what a program seeks to by `MaxOffset`, the bound of
the offsets.

- `Chain` follows links for as many steps as there are clusters, and what it returns
  is no use as an invariant: one link changed anywhere could change all of it.
  `ChainsOk` says instead that there is a `Q`, a sequence of clusters for every slot,
  such that the links of the FAT are those of `Q` (`Linked`), no cluster is in it
  twice (`Apart`), directories and SFTs fit it, and, unless a link has failed, `Q`
  has every cluster in use (`Whole`). `Chain` returns exactly `Q` then (`ChainIs`,
  which needs `NoLonger`: a chain without repetition ends before the steps do).
- The five properties need each other. The start of a file is in its entry, or in
  the SFT that writes (`Written`, `CollectIs`), so chains depend on the SFTs; an SFT
  stands in the chain (`FileAt`), so the SFTs depend on chains; a directory is read
  through its chain (`Tab`), and a slot that a chain is freed through must be
  in one directory only (`TabApart`, `Placed`).
- `FileAt` allows what merge_file_changes leaves behind: a reader that opened an
  empty file has start FREE for a while, and one that has been told of the start
  stands at cluster 0 (`cu` FREE). A writer is where it says (`WriterAt`): its
  next write would otherwise begin a second chain. The entry on the disk is only
  right as long as no SFT of the file is dirty.
- A call that fails half-way leaves another `Q`, and the order of the code decides
  that there is one. `ExtendLays`: the new cluster is linked before the old end, so a
  failure leaves it lost and not in two chains. `WipeLaid`: what is left of a chain
  given back from its front is a chain of nobody (`Tailing`). `CutAll` and `CutHere`:
  the end of a file is marked before the rest of it goes. `FileWork` sums up what any
  call on a file has done. A truncation that fails in shrink_file does not save the
  SFT, and `ShrinkFails` says why it may: nothing has been cut.
- Of the directories, `DirsOk` keeps what the code relies on without a test: a
  directory begins with "." and never becomes empty (`Rooted`), a free slot is
  taken only when all before it are in use or deleted (`FreeAt`, `PutAt`), and a
  directory that grows is cleared first (`ExtendDirOk`, `FadedOk`); a name is put
  only where `find_fname` has not found it (`FindsNone`), which reads up to the first
  unused entry and so needs `Ordered`.

### Console (`ConsoleProofs`)

`StacksAreApart` (`StacksApart`), `InDosIsExact` (`InDosExact`) and `LinesAreHanded`
(`LineHanded`), for any keys, calls, line buffers and handlers, from `ConAssumption`.

`StackInv` lists what may be in progress: nothing; one call, or the INT 23h handler
that took its place; a call on the character stack with the INT 28h handler above
it; and a call of that handler, which runs on the disk stack or its caller's. No
deeper nesting is possible, because INT 28h is only run with InDOS 1.
`InDosIsExact` needs `HandlersReturn`: a handler of INT 28h that calls a function
that looks for ^C and is ended by it drops all frames and leaves InDOS at 1.
A program that ends by 00h in a nested call does too.

`LinesAreHanded`: `HandInv` adds to `StackInv` the types of keyboard and buffers and
how they fit. The line in the editor never outgrows the buffer it is read into: all
its characters but the last leave room for the CR, so the CR and the LF that 3Fh
adds are inside `kb_buf`. A call in the editor for 3Fh has nothing waiting to be
handed over (`inputptr` is 0), while the program that waits to have the rest handed
over may edit lines of 0Ah in its own buffer; a nested call ended by ^C, a restarted
call or 00h leaves no line half-edited. `PieceNext` is `LineHanded` with the bounds
of `inputptr`. It holds for lines of 0Ah above 128 characters only because
`owed` is dropped then: those do overwrite `kb_buf`.

### The disk driver (`DiskProofs`)

`LettersAreInReach` (`LettersReach`), `TransfersAreExact` (`TransferExact`) and
`CallsAreFit` (`CallsFit`) and `MediumIsKnown` (`MediumKnown`), for any number of
disks, partition tables with anything in them, units and transfers of every size, any failures of the BIOS and any calls in
between, from `InitDiskAssumption` and `DiskAssumption`. The first says what the code
before takes care of: tables have four entries, the geometry of a drive has no
zero in it (initdisk.c:782), floppies have at most 1024 cylinders (their formats are a
table). The second is about numbers: a sector buffer of the BIOS is 512 bytes or
more. Sector numbers and addresses do not wrap, as they would at 2^32 in a table
with such entries, or in a request within 64K of that address. For `MediumIsKnown` there
are one or two floppy drives with a floppy in each, and no calls where a
letter is masked out (section 2).

`DiskInv` joins three things. While the tables are scanned the units are
typed and no more than `NDEV`; from the first unit on and through every IOCTL each
unit without LBA ends on a cylinder that `LBA_to_CHS` takes (`Reach`); and a transfer
(`Transferring`) is where the numbers of sectors done say: `lba` and `addr` are those
of the request plus what is done, the sectors done were moved to their places, and
beyond them at most those of the BIOS call that failed, which is repeated for the
same piece until it succeeds or the transfer ends (`Retries`).

- The letters: `ScanOk` goes through the four entries of a table; an entry that gets a
  letter is either within reach or on a disk with LBA (`PartitionUnit`), and no letter is
  given beyond `NDEV` (`NextLetterIs`). The flag LBA is never dropped afterwards
  (`FlagsOk`), which is why a unit stays in reach.
- The transfers: `PieceIs` shows that what `LBA_Transfer` asks of the BIOS next is at least
  one sector and no more than is left, that it ends with its track, and that it stays in
  its page of 64K or is the one sector of `DiskTransferBuffer`. The track is a matter of
  remainders (`OneTrack`), the page also of `maxsecsize` (`FitsAgain`). Pieces side by
  side are then one piece (`PairsJoin`). That a transfer is never refused half-way
  (`NeverRefused`) is where it needs the letters.
- The media: `MediumKnown` speaks of the last check alone and is far from inductive.
  `MediaInv` says of every unit at every moment what its next check relies on (`Known`):
  unless it is in `unchecked` or its DPB is marked to be made anew, its buffers are
  those of its DPB, and where a check would find nothing changed (`Steady`: no mark of
  a change, the change line down or the clock recent) DPB and BPB are of the floppy in the
  drive (`Medium`). What a call on one letter does to the others is the same for all
  calls (`Turned`, `Refitted`, `OthersKnown`): they may stop being the current
  letter of their drive and nothing else. A use of the drive takes the change
  line down, which would make the other letter of the drive steady with the wrong
  floppy; it does not, as the letter in use is then the current one and there is
  only one (`Shared`). `BpbGives` and `CheckGives` say what `getbpb` and `mediachk` answer and
  leave behind; then there is a lemma per call.

### Far objects (`FarProofs`)

`PoolIsExact` (`PoolExact`), `JumpArgsStay` (`JumpArgsKept`) and `NothingIsLeaked`
(`NothingLeaked`), for pools and objects of every size, any number of objects and
calls one within another, and resets at any moment, from `FarAssumption`.

`FarInv` joins the pool to the scopes that hold its blocks. Of the pool: the nodes
cover its units side by side (`Tiles`), no two free ones are neighbours (`Apart`),
and `avail` is the number of units in free nodes. A pool is thus described by
neighbours and by sets of units, never by a sum over its list, and `smalloc`
(`AllocIs`) and `smfree` (`FreeIs`), with the splits and joins of `mntruncate`, are
each shown to keep that and to change the set of blocks in use by the one block.
Of the scopes: a block has one owner, an object of one call, a string of `Config` or
`deferred` (`OneOwner`, `OneEach`); a call of the start-up is the outermost one, and
it holds no object once CONFIG.SYS is done (`CallsNest`); what is deferred waits for
the call that the code jumped to makes, for the end of a reset, or is left by a
hang-up (`Waiting`). `NothingIsLeaked` is that last part: `configPreBoot` finds
the pool full because nothing can still wait there but after a hang-up.

`FreeBlocks` and the sum in `PoolExact` are folds. That they compute what their names
say is proved by giving a function on subsets, showing that it is the only one that
satisfies the equation of the fold (by induction on the number of members), and
reading off its value. The proof needs room in the new pool for the two strings
of `Config` as a guard of `configPreBoot`, as for every other allocation.

### What stays with TLC

- Liveness (`ConfigSettles`, `WaitEnds`, `MenuTimesOut`): ENABLED and fairness are out of the
  provers' reach.
- `SearchComplete`, whose ghost set follows names that move between slots, and all
  of `Config` and `StartMem` (section 5).
- Of `InitDisk` and `Disk`: `LettersInOrder`, which compares the letters with the order
  of all entries of all tables; `DefaultsFit`, arithmetic with products and quotients
  of three unknowns.

## 5. Not modelled, and the plan

- FCB records, calendar, code pages: pure arithmetic and table look-up, planned as
  operators checked against a reference definition.
- `new_psp` in `Handles`, the FSINFO sector in `BufferCache`, current directories and
  attributes in `FatFs`.
- objlock.cpp with the wrappers of farptr.hpp: two counts per address that detect
  an expression that writes through two wrappers of one place.
- Compositions: `FatFs` over `BufferCache` for the order of writes; `Console` over
  `Handles` and `MemMgr`, for calls cut short by ^C.
- Proofs: `SearchComplete` from `ChainInv`; the letters' order in `InitDisk`.

Never planned: the redirector (another program), the ELF loader, formatted output,
NLS tables, the clock's hardware.
