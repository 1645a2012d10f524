------------------------------- MODULE FatFs -------------------------------
(***************************************************************************)
(* The FAT file system (kernel/fatfs.c, fatdir.c, fattab.c, and the calls  *)
(* of dosfns.c above it): cluster chains, the free count and the hint      *)
(* where to look for a free cluster, directory entries in a fixed root and *)
(* in directories that grow, the copies of an entry that the SFTs of its   *)
(* file hold, and the search state in a DTA.                               *)
(*                                                                         *)
(* A DOS call is one step.  Sectors are left to BufferCache: a cluster     *)
(* holds ClusUnits units of a file or ClusEnts entries of a directory.     *)
(* A link_fat that writes may fail (Links), which is how a disk error      *)
(* reaches the chains.                                                     *)
(***************************************************************************)
EXTENDS Integers, FiniteSets, Sequences, SequencesExt, TLC

CONSTANTS
    LastCluster,    \* dpb_size: the clusters are 2 .. LastCluster
    ClusUnits,      \* units of a file in a cluster
    ClusEnts,       \* directory entries in a cluster
    RootEnts,       \* dpb_dirents
    FileName, DirName, NoName,
    Fd,             \* SFT numbers
    MaxOffset,      \* bound: offsets and sizes in units
    WriteCounts,    \* units a program reads or writes at once
    Seeks,          \* offsets a program seeks to
    Links,          \* after how many writes of a call link_fat fails; Always: never
    SharedWriters,  \* programs open a file for writing twice
    SharedTruncate, \* programs truncate a file that is open twice
    Mixes           \* bound: calls a program makes, files it opens, units it writes up to

ASSUME FatAssumption ==
    /\ LastCluster \in Nat \ {0, 1} /\ ClusUnits \in Nat \ {0}
    /\ ClusEnts \in Nat \ {0, 1} /\ RootEnts \in Nat \ {0, 1}
    /\ Fd \subseteq Nat /\ IsFiniteSet(Fd) /\ MaxOffset \in Nat \ {0}
    /\ WriteCounts \subseteq Nat /\ Seeks \subseteq 0 .. MaxOffset /\ Links \subseteq Nat
    /\ NoName \notin FileName \cup DirName /\ FileName \cap DirName = {}
    /\ \A m \in Mixes :
           /\ m.calls \subseteq {"io", "seek", "truncate", "delete", "rename", "renamedir",
                               "dirs", "find", "ftime", "media", "faults"}
           /\ m.fds \subseteq Fd /\ m.max \in 0 .. MaxOffset

FREE    == 0
ERROR   == 1
LAST    == LastCluster + 1      \* LONG_LAST_CLUSTER
UNKNOWN == -1                   \* UNKNCLUSTER, UNKNCLSTFREE
Always  == 99
Root    == 0                    \* the cluster number that stands for the root directory
Cluster == 2 .. LastCluster
Slot    == ({Root} \X (0 .. RootEnts - 1)) \cup (Cluster \X (0 .. ClusEnts - 1))

VARIABLES
    fat,        \* the FAT entries
    nfree,      \* dpb_nfreeclst
    hint,       \* dpb_cluster
    dirent,     \* the directory entries
    sft,        \* the open files
    search,     \* the DTA of a find first/next, and what it has returned
    failed,     \* whether a link_fat has failed
    mix         \* what the programs do

vars == <<fat, nfree, hint, dirent, sft, search, failed, mix>>

Entry(kind, name, start, size) == [kind |-> kind, name |-> name, start |-> start, size |-> size]
Unused  == Entry("unused", NoName, FREE, 0)
Deleted == Entry("deleted", NoName, FREE, 0)
Dot     == Entry("dot", NoName, FREE, 0)
Closed  == [open |-> FALSE]

OpenFds      == {h \in Fd : sft[h].open}
OpenAt(s)    == {h \in OpenFds : sft[h].slot = s}
Writers(s)   == {h \in OpenAt(s) : sft[h].mode = "rw"}

-----------------------------------------------------------------------------
(* The FAT.  W, the work of a call, is the table, the fnode it works on    *)
(* and the links that may still be written.                                *)

Table(n) == [fat |-> fat, nfree |-> nfree, hint |-> hint, dirent |-> dirent,
             links |-> n, broken |-> FALSE, ok |-> TRUE,
             start |-> FREE, size |-> 0, cu |-> FREE, rel |-> 0, off |-> 0,
             got |-> FREE, shared |-> <<>>]

(* Mutant: The count goes down for a cluster taken and not up for one freed. *)
FreeChangeDown(old, new)  == IF old = FREE THEN -1 ELSE 0

(* link_fat as a write: the free count follows what the entry was.         *)
FreeChange(old, new) == IF old # FREE /\ new = FREE THEN 1
                        ELSE IF old = FREE /\ new # FREE THEN -1 ELSE 0

LinkFat(W, c, new) ==
    IF c \notin Cluster \/ W.links = 0
    THEN [W EXCEPT !.ok = FALSE, !.broken = TRUE]
    ELSE [W EXCEPT !.fat[c] = new,
                   !.nfree = IF @ = UNKNOWN THEN @ ELSE @ + FreeChange(W.fat[c], new),
                   !.links = IF @ = Always THEN @ ELSE @ - 1]

(* next_cluster: a cluster, FREE, LAST, or ERROR when the entry of the     *)
(* next cluster is free, or c is no cluster.                               *)
NextCluster(f, c) ==
    IF c \notin Cluster THEN ERROR
    ELSE IF f[c] \in Cluster /\ f[f[c]] = FREE THEN ERROR
    ELSE f[c]

(* find_fat_free: from the hint to the end and round to the hint.          *)
SearchFrom(h) == IF h = UNKNOWN THEN 2 ELSE h
FreeAhead(f, h)  == {c \in Cluster : f[c] = FREE /\ c >= SearchFrom(h)}
FreeBefore(f, h) == {c \in Cluster : f[c] = FREE /\ c < SearchFrom(h)}
Lowest(S) == CHOOSE c \in S : \A d \in S : c <= d
Repeat(Op(_), x, n) == LET done[i \in 0 .. n] == IF i = 0 THEN x ELSE Op(done[i - 1]) IN done[n]

LowestOr(S, else) == IF S = {} THEN else ELSE Lowest(S)
FindFatFree(f, h) == LowestOr(FreeAhead(f, h), LowestOr(FreeBefore(f, h), LAST))

(* A step that is taken when the one before has succeeded.                 *)
Then(W, Step(_)) == IF W.ok THEN Step(W) ELSE W
Refused(W)       == [W EXCEPT !.ok = FALSE]

(* extend: link the new cluster first, the old end to it afterwards.       *)
Append1(W, c) ==
    IF W.cu = FREE THEN [W EXCEPT !.start = c, !.got = c]
    ELSE IF NextCluster(W.fat, W.cu) # LAST THEN Refused(W)
    ELSE [LinkFat(W, W.cu, c) EXCEPT !.got = c]

(* Mutant: The old end is linked before the new cluster is marked as the last. *)
ExtendOldFirst(W, c) ==
    IF c = LAST THEN [W EXCEPT !.hint = UNKNOWN, !.ok = FALSE]
    ELSE Then(Append1([W EXCEPT !.hint = c], c), LAMBDA X : LinkFat(X, c, LAST))

ExtendWith(W, c) ==
    IF c = LAST THEN [W EXCEPT !.hint = UNKNOWN, !.ok = FALSE]
    ELSE Then(LinkFat([W EXCEPT !.hint = c], c, LAST), LAMBDA X : Append1(X, c))

Extend(W) == ExtendWith(W, FindFatFree(W.fat, W.hint))

(* map_cluster: the cluster that holds unit W.off of the file.             *)
Entered(W, mode) ==
    IF W.cu # FREE THEN W
    ELSE IF mode = "read" THEN Refused(W)
    ELSE Then(Extend(W), LAMBDA X : [X EXCEPT !.cu = X.got])

(* Mutant: A seek back keeps the number of the cluster. *)
RewoundCluster(W) == IF W.ok /\ W.off \div ClusUnits < W.rel THEN [W EXCEPT !.cu = W.start] ELSE W

Rewound(W) == IF W.ok /\ W.off \div ClusUnits < W.rel
              THEN [W EXCEPT !.cu = W.start, !.rel = 0] ELSE W

Moved(W, c) == [W EXCEPT !.cu = c, !.rel = @ + 1]

ForwardTo(W, mode, c) ==
    IF c \in {FREE, ERROR} \/ (c = LAST /\ mode = "read") THEN Refused(W)
    ELSE IF c # LAST THEN Moved(W, c)
    ELSE Then(Extend(W), LAMBDA X : Moved(X, X.got))

Forward(W, mode) == IF ~W.ok \/ W.rel = W.off \div ClusUnits THEN W
                    ELSE ForwardTo(W, mode, NextCluster(W.fat, W.cu))

MapCluster(W, mode) ==
    Repeat(LAMBDA X : Forward(X, mode), Rewound(Entered(W, mode)), MaxOffset \div ClusUnits)

(* wipe_out_clusters: gives the chain from c back, a cluster at a time.    *)
Wiped(W, n) ==
    IF n \in {FREE, ERROR} THEN [W EXCEPT !.got = LAST]
    ELSE Then(LinkFat(W, W.got, FREE), LAMBDA X :
              [X EXCEPT !.hint = IF @ = UNKNOWN \/ @ > W.got THEN W.got ELSE @, !.got = n])

WipeStep(W) == IF ~W.ok \/ W.got = LAST THEN W ELSE Wiped(W, NextCluster(W.fat, W.got))

WipeFrom(W, c) == Repeat(WipeStep, [W EXCEPT !.got = c], LastCluster)
WipeOut(W, c)  == IF c = FREE THEN W ELSE [WipeFrom(W, c) EXCEPT !.ok = TRUE]

-----------------------------------------------------------------------------
(* Directories.  A path is the directory, NoName for the root, and the     *)
(* name in it; "." and ".." are one entry.                                 *)

Follow(f, cs) == IF NextCluster(f, Last(cs)) \in Cluster THEN Append(cs, f[Last(cs)]) ELSE cs
Chain(f, c)   == IF c \notin Cluster THEN <<>>
                 ELSE Repeat(LAMBDA cs : Follow(f, cs), <<c>>, LastCluster)

SlotsOf(cs) == [i \in 1 .. Len(cs) * ClusEnts |->
                    <<cs[(i - 1) \div ClusEnts + 1], (i - 1) % ClusEnts>>]
DirSlots(W, dc) == IF dc = Root THEN [i \in 1 .. RootEnts |-> <<Root, i - 1>>]
                   ELSE SlotsOf(Chain(W.fat, dc))

NoSlot == <<>>
NthOrNone(slots, i) == IF i = 0 THEN NoSlot ELSE slots[i]
FirstOf(slots, Test(_)) == NthOrNone(slots, SelectInSeq(slots, Test))
UpTo(slots, i) == IF i = 0 THEN slots ELSE SubSeq(slots, 1, i - 1)
Before(slots, Test(_))  == UpTo(slots, SelectInSeq(slots, Test))

(* dir_read: entries are read up to the first unused one.                  *)
DirRead(W, dc)      == Before(DirSlots(W, dc), LAMBDA s : W.dirent[s].kind = "unused")
SlotIn(W, dc, name) == FirstOf(DirRead(W, dc), LAMBDA s : W.dirent[s].name = name)

(* dir_open: the cluster of the directory of a path, ERROR for none.       *)
StartOfDir(W, s) == IF s = NoSlot THEN ERROR
                    ELSE IF W.dirent[s].kind # "dir" THEN ERROR ELSE W.dirent[s].start
DirOf(W, d)      == IF d = NoName THEN Root ELSE StartOfDir(W, SlotIn(W, Root, d))

find_fname(W, p) == SlotIn(W, DirOf(W, p[1]), p[2])

(* find_free: a deleted entry, or the first unused one.                    *)
find_free(W, dc) == FirstOf(DirSlots(W, dc), LAMBDA s : W.dirent[s].kind \in {"deleted", "unused"})

clear_dir(W, c) == [W EXCEPT !.dirent = [s \in Slot |-> IF s[1] = c THEN Unused ELSE @[s]]]

extend_dir(W, dc) ==
    Then(Extend([W EXCEPT !.cu = Last(Chain(W.fat, dc))]), LAMBDA X : clear_dir(X, X.got))

(* alloc_find_free: the slot of a new entry is find_free of what it        *)
(* returns, when that is ok.                                               *)
alloc_find_free(W, dc) ==
    IF find_free(W, dc) # NoSlot THEN W
    ELSE IF dc = Root THEN Refused(W)
    ELSE extend_dir(W, dc)

dir_write(W, s, e) == [W EXCEPT !.dirent[s] = e]

(* remove_lfn_entries: those just before an entry.                         *)
LfnBefore(W, slots, at) ==
    {slots[j] : j \in {k \in 1 .. at - 1 :
                          \A m \in k .. at - 1 : W.dirent[slots[m]].kind = "lfn"}}
LfnRun(W, slots, s) == LfnBefore(W, slots, SelectInSeq(slots, LAMBDA t : t = s))
DeletedAt(W, run)   == [W EXCEPT !.dirent = [t \in Slot |-> IF t \in run THEN Deleted ELSE @[t]]]
remove_lfn_entries(W, dc, s) == DeletedAt(W, LfnRun(W, DirSlots(W, dc), s))

(* Mutant: A deleted entry is marked as one never used. *)
delete_dir_entryUnused(W, dc, s) ==
    dir_write(WipeOut(remove_lfn_entries(W, dc, s), W.dirent[s].start), s, Unused)

delete_dir_entry(W, dc, s) ==
    dir_write(WipeOut(remove_lfn_entries(W, dc, s), W.dirent[s].start), s, Deleted)

-----------------------------------------------------------------------------
(* Files.  The fnode of a call is loaded from an SFT and saved to it.      *)

Load(h, n) == [Table(n) EXCEPT !.start = sft[h].start, !.size = sft[h].size, !.cu = sft[h].cu,
                               !.rel = sft[h].rel, !.off = sft[h].posit]

(* merge_file_changes: what the other SFTs of the file are told last.      *)
Merge(W)       == [W EXCEPT !.shared = <<W.start, W.size>>]
Told(e, W)     == IF W.shared = <<>> THEN e
                  ELSE [e EXCEPT !.start = W.shared[1], !.size = W.shared[2]]
Distributed(W, h) == [k \in Fd |-> IF k \in OpenAt(sft[h].slot) \ {h} THEN Told(sft[k], W)
                                   ELSE sft[k]]
Save(h, W, written) ==
    [Distributed(W, h) EXCEPT ![h].start = W.start, ![h].size = W.size, ![h].posit = W.off,
                              ![h].cu = W.cu, ![h].rel = W.rel,
                              ![h].dirty = @ \/ written, ![h].fdate = @ /\ ~written]

(* What a search that is under way must still find.                        *)
Stays(W, n, s) == s # NoSlot /\ W.dirent[s].name = n
StillThere(W)  == {n \in search.must : Stays(W, n, SlotIn(Table(0), search.dc, n))}

(* What is left of a removed directory in its cluster is not kept: only a  *)
(* search below it could read it, before the cluster is used again.        *)
Visible(W) == [s \in Slot |-> IF s[1] # Root /\ W.fat[s[1]] = FREE THEN Unused ELSE W.dirent[s]]

Commit(W) ==
    /\ fat' = W.fat /\ nfree' = W.nfree /\ hint' = W.hint /\ dirent' = Visible(W)
    /\ failed' = (failed \/ W.broken)
    /\ search' = [search EXCEPT !.must = StillThere(W), !.got = @ \cap StillThere(W)]
    /\ UNCHANGED mix

Live     == {s \in Slot : dirent[s].kind \in {"file", "dir"}}
FilePath == ({NoName} \cup DirName) \X FileName
DirPath  == {NoName} \X DirName
IsFile(s) == s # NoSlot /\ dirent[s].kind = "file"
NewFile(slot, mode, start, size) ==
    [open |-> TRUE, slot |-> slot, mode |-> mode, start |-> start, size |-> size,
     posit |-> 0, cu |-> start, rel |-> 0, dirty |-> FALSE, fdate |-> FALSE]

(* SHARE: programs that write deny writing to others.                      *)
ShareAllows(s, mode) == mode = "rw" /\ Writers(s) # {} => SharedWriters

(* An open takes start and size from an SFT that is open for writing.      *)
CollectFrom(s) == IF Writers(s) = {} THEN dirent[s] ELSE sft[Lowest(Writers(s))]

get_free_sft(h) == h \in mix.fds /\ ~sft[h].open /\ \A k \in Fd : k < h => sft[k].open

Open(h, p, mode) ==
    /\ "io" \in mix.calls /\ get_free_sft(h)
    /\ \E s \in {find_fname(Table(0), p)} :
           /\ IsFile(s) /\ ShareAllows(s, mode)
           /\ sft' = [sft EXCEPT ![h] = NewFile(s, mode, CollectFrom(s).start, CollectFrom(s).size)]
    /\ UNCHANGED <<fat, nfree, hint, dirent, search, failed, mix>>

(* Create, with _O_TRUNC: an existing file is wiped, and those who have it *)
(* open are told.                                                          *)
Replace(h, s, W) ==
    /\ OpenAt(s) # {} => SharedTruncate
    /\ Commit(dir_write(W, s, [dirent[s] EXCEPT !.start = FREE, !.size = 0]))
    /\ sft' = [k \in Fd |-> IF k = h THEN NewFile(s, "rw", FREE, 0)
                            ELSE IF k \in OpenAt(s) THEN Told(sft[k], Merge(W)) ELSE sft[k]]

CreateNew(h, p, W, s) ==
    /\ Commit(IF W.ok THEN dir_write(W, s, Entry("file", p[2], FREE, 0)) ELSE W)
    /\ sft' = IF W.ok THEN [sft EXCEPT ![h] = NewFile(s, "rw", FREE, 0)] ELSE sft

Create(h, p, n) ==
    /\ get_free_sft(h)
    /\ \E s \in {find_fname(Table(n), p)}, dc \in {DirOf(Table(n), p[1])} :
        /\ dc # ERROR
        /\ \/ IsFile(s) /\ ShareAllows(s, "rw") /\ Replace(h, s, WipeOut(Table(n), dirent[s].start))
           \/ /\ s = NoSlot
              /\ \E W \in {alloc_find_free(Table(n), dc)} : CreateNew(h, p, W, find_free(W, dc))

(* dos_close, and INT 21h/68h, which commits only.                         *)
Updated(h) == [dirent[sft[h].slot] EXCEPT !.start = sft[h].start, !.size = sft[h].size]
Flushed(h) == dir_write(Table(0), sft[h].slot,
                        IF sft[h].dirty \/ sft[h].fdate THEN Updated(h) ELSE dirent[sft[h].slot])
AfterClose(h, W) == IF sft[h].dirty THEN Distributed(Merge(W), h) ELSE sft

Close(h) ==
    /\ sft[h].open
    /\ Commit(Flushed(h))
    /\ sft' = [AfterClose(h, Load(h, 0)) EXCEPT ![h] = Closed]

DosCommit(h) ==
    /\ sft[h].open /\ sft[h].dirty
    /\ Commit(Flushed(h))
    /\ sft' = AfterClose(h, Load(h, 0))

Seek(h, off) ==
    /\ "seek" \in mix.calls /\ sft[h].open /\ sft[h].posit # off
    /\ sft' = [sft EXCEPT ![h].posit = off]
    /\ UNCHANGED <<fat, nfree, hint, dirent, search, failed, mix>>

ReadUnit(W) ==
    IF W.off >= W.size THEN Refused(W)
    ELSE Then(MapCluster(W, "read"), LAMBDA X : [X EXCEPT !.off = @ + 1])

Read(h, n) ==
    /\ sft[h].open
    /\ sft' = Save(h, Repeat(LAMBDA X : Then(X, ReadUnit), Load(h, 0), n), FALSE)
    /\ UNCHANGED <<fat, nfree, hint, dirent, search, failed, mix>>

dos_extend(W) ==
    IF W.off <= W.size THEN W
    ELSE Then(MapCluster(W, "write"), LAMBDA X : Merge([X EXCEPT !.size = X.off]))

Larger(a, b) == IF a > b THEN a ELSE b
Advanced(W)  == [W EXCEPT !.off = @ + 1, !.size = Larger(@, W.off + 1)]
(* Mutant: The other SFTs of the file are not told. *)
WriteUnitAlone(W) == Then(MapCluster(W, "write"), Advanced)
WriteUnit(W)      == Then(MapCluster(W, "write"), LAMBDA X : Merge(Advanced(X)))

Write(h, count, n) ==
    /\ "io" \in mix.calls /\ sft[h].open /\ sft[h].mode = "rw" /\ sft[h].posit + count <= mix.max
    /\ \E W \in {Repeat(LAMBDA X : Then(X, WriteUnit), dos_extend(Load(h, n)), count)} :
           Commit(W) /\ sft' = Save(h, W, TRUE)

CutLink(W, last) == LinkFat([W EXCEPT !.start = IF last = FREE THEN FREE ELSE @,
                                     !.cu = IF last = FREE THEN FREE ELSE @], W.cu, last)

(* Mutant: What follows the cut is not given back. *)
CutAtOnly(W, next) == CutLink(W, IF W.size = 0 THEN FREE ELSE LAST)

(* shrink_file, for a write of no bytes: finds the last cluster that stays *)
(* and cuts the chain there.                                               *)
CutAt(W, next) ==
    IF W.size # 0 /\ next = LAST THEN W
    ELSE Then(CutLink(W, IF W.size = 0 THEN FREE ELSE LAST),
              LAMBDA X : [WipeFrom(X, next) EXCEPT !.ok = TRUE])

AtLast(W) == MapCluster([W EXCEPT !.off = Larger(@ - 1, 0)], "read")
Cut(W, next) == IF next \in {FREE, ERROR} THEN Refused(W) ELSE CutAt(W, next)
Shrunk(W) == IF W.off = 0 /\ W.cu = FREE THEN W
             ELSE Then(AtLast(W), LAMBDA X : Cut(X, NextCluster(X.fat, X.cu)))

(* A failure of dos_extend saves the fnode, one of shrink_file does not.   *)
Truncate(h, n) ==
    /\ "truncate" \in mix.calls /\ sft[h].open /\ sft[h].mode = "rw"
    /\ OpenAt(sft[h].slot) # {h} => SharedTruncate
    /\ \E W \in {dos_extend(Load(h, n))} :
           \/ ~W.ok /\ Commit(W) /\ sft' = Save(h, W, TRUE)
           \/ /\ W.ok
              /\ \E X \in {Shrunk([W EXCEPT !.size = W.off])} :
                     /\ Commit(X)
                     /\ sft' = IF X.ok THEN Save(h, [X EXCEPT !.off = W.off], TRUE)
                               ELSE Distributed(W, h)

SetFtime(h) ==
    /\ "ftime" \in mix.calls /\ sft[h].open /\ ~sft[h].fdate
    /\ sft' = [sft EXCEPT ![h].fdate = TRUE]
    /\ UNCHANGED <<fat, nfree, hint, dirent, search, failed, mix>>

-----------------------------------------------------------------------------
(* Names and directories.                                                  *)

Delete(p, n) ==
    /\ "delete" \in mix.calls
    /\ \E s \in {find_fname(Table(n), p)} :
           /\ IsFile(s) /\ OpenAt(s) = {}
           /\ Commit(delete_dir_entry(Table(n), DirOf(Table(n), p[1]), s))
    /\ UNCHANGED sft

RenameInPlace(s, p2, W) == Commit(dir_write(W, s, [dirent[s] EXCEPT !.name = p2[2]]))

(* Into another directory: the new entry is found first, and written last. *)
MoveTo(s, dc, dc2, p2, W) ==
    Commit(Then(W, LAMBDA V : dir_write(dir_write(remove_lfn_entries(V, dc, s), s, Deleted),
                                        find_free(V, dc2), [dirent[s] EXCEPT !.name = p2[2]])))

(* Programs rename no directory below which a file is open: SHARE knows    *)
(* open files by their path.                                               *)
Rename(p1, p2, n) ==
    /\ "rename" \in mix.calls
    /\ \E T \in {Table(n)} : \E s \in {find_fname(T, p1)}, dc \in {DirOf(T, p1[1])}, dc2 \in {DirOf(T, p2[1])} :
        /\ s # NoSlot /\ OpenAt(s) = {}
        /\ dc2 # ERROR /\ find_fname(T, p2) = NoSlot
        /\ dirent[s].kind = "dir" =>
                /\ "renamedir" \in mix.calls
                /\ \A h \in OpenFds : sft[h].slot \notin ToSet(DirSlots(T, dirent[s].start))
        /\ \/ dc = dc2 /\ RenameInPlace(s, p2, remove_lfn_entries(T, dc, s))
           \/ dc # dc2 /\ IsFile(s) /\ MoveTo(s, dc, dc2, p2, alloc_find_free(T, dc2))
    /\ UNCHANGED sft

(* The new cluster is taken before the entry is written.                   *)
NewDir(W, c, s, d) == dir_write(dir_write(clear_dir(W, c), s, Entry("dir", d, c, 0)), <<c, 0>>, Dot)
MkDirIn(W, c, s, d) ==
    IF c = LAST THEN [W EXCEPT !.hint = UNKNOWN]
    ELSE Then(LinkFat([W EXCEPT !.hint = c], c, LAST), LAMBDA X : NewDir(X, c, s, d))
MkDirAt(W, dc, d) ==
    Then(W, LAMBDA X : MkDirIn(X, FindFatFree(X.fat, X.hint), find_free(X, dc), d))

(* Bound: one directory at a time.                                         *)
MkDir(d, n) ==
    /\ "dirs" \in mix.calls /\ \A s \in Live : dirent[s].kind # "dir"
    /\ find_fname(Table(n), <<NoName, d>>) = NoSlot
    /\ Commit(MkDirAt(alloc_find_free(Table(n), Root), Root, d))
    /\ UNCHANGED sft

RmDir(d, n) ==
    /\ "dirs" \in mix.calls
    /\ \E s \in {find_fname(Table(n), <<NoName, d>>)} :
           /\ s # NoSlot
           /\ \A t \in ToSet(Tail(DirRead(Table(n), dirent[s].start))) : dirent[t].kind \in {"deleted", "lfn"}
           /\ Commit(delete_dir_entry(Table(n), Root, s))
    /\ UNCHANGED sft

(* Mutant: The search goes on at the entry it has returned. *)
MatchesAgain(read, from) == {i \in DOMAIN read : i >= from /\ dirent[read[i]].kind = "file"}

(* dos_findnext from an entry: found, or DE_NFILES, which leaves the DTA   *)
(* of the program as it was.                                               *)
Matches(read, from) == {i \in DOMAIN read : i > from /\ dirent[read[i]].kind \in {"file", "dir", "dot"}}
Returned(S, i, name) ==
    [S EXCEPT !.entry = i, !.got = @ \cup ({name} \cap S.must), !.done = FALSE,
              !.twice = @ \/ name \in S.got \cap S.must]
Find(S) ==
    \E read \in {DirRead(Table(0), S.dc)} : \E found \in {Matches(read, S.entry)} :
        search' = IF found = {} THEN [S EXCEPT !.done = TRUE]
                  ELSE Returned(S, Lowest(found), dirent[read[Lowest(found)]].name)

NamesIn(dc) == {dirent[s].name : s \in ToSet(DirRead(Table(0), dc))} \ {NoName}
NoSearch    == [dc |-> ERROR, entry |-> 0, must |-> {}, got |-> {}, twice |-> FALSE, done |-> FALSE]

(* Bound: a search is run to its end before the next.                      *)
FindFirst(d) ==
    /\ "find" \in mix.calls /\ DirOf(Table(0), d) # ERROR /\ (search.dc # ERROR => search.done)
    /\ Find([NoSearch EXCEPT !.dc = DirOf(Table(0), d), !.must = NamesIn(DirOf(Table(0), d))])
    /\ UNCHANGED <<fat, nfree, hint, dirent, sft, failed, mix>>

FindNext ==
    /\ search.dc # ERROR /\ ~search.done /\ Find(search)
    /\ UNCHANGED <<fat, nfree, hint, dirent, sft, failed, mix>>

(* dos_free counts the free clusters, and media_check makes the DPB anew.  *)
Free == {c \in Cluster : fat[c] = FREE}
DosGetFree ==
    /\ "media" \in mix.calls /\ nfree = UNKNOWN
    /\ nfree' = Cardinality(Free)
    /\ hint' = IF Free = {} THEN hint ELSE Lowest(Free)
    /\ UNCHANGED <<fat, dirent, sft, search, failed, mix>>

MediaCheck ==
    /\ "media" \in mix.calls /\ nfree # UNKNOWN
    /\ nfree' = UNKNOWN /\ hint' = UNKNOWN
    /\ UNCHANGED <<fat, dirent, sft, search, failed, mix>>

-----------------------------------------------------------------------------
(* A disk with a file of one cluster, behind its long name or behind a     *)
(* volume label.                                                           *)
FirstKind == IF "dirs" \in mix.calls THEN "lfn" ELSE "label"
FatInit ==
    /\ mix \in Mixes
    /\ fat = [c \in Cluster |-> IF c = 2 THEN LAST ELSE FREE]
    /\ nfree = LastCluster - 2 /\ hint = UNKNOWN
    /\ \E f \in FileName :
           dirent = [s \in Slot |-> CASE s = <<Root, 0>> -> Entry(FirstKind, NoName, FREE, 0)
                                     [] s = <<Root, 1>> -> Entry("file", f, 2, 1)
                                     [] OTHER           -> Unused]
    /\ sft = [h \in Fd |-> Closed] /\ search = NoSearch /\ failed = FALSE

LinkBounds == IF "faults" \in mix.calls THEN Links ELSE {Always}

FileCall ==
    \E h \in Fd :
        \/ \E p \in FilePath : Open(h, p, "r") \/ Open(h, p, "rw")
        \/ \E p \in FilePath, n \in LinkBounds : Create(h, p, n)
        \/ Close(h) \/ DosCommit(h) \/ SetFtime(h)
        \/ \E off \in Seeks : Seek(h, off)
        \/ \E n \in LinkBounds : Truncate(h, n)
        \/ \E count \in WriteCounts : Read(h, count)
        \/ \E count \in WriteCounts, n \in LinkBounds : Write(h, count, n)

NameCall ==
    \/ \E p \in FilePath, n \in LinkBounds : Delete(p, n)
    \/ \E p1, p2 \in FilePath, n \in LinkBounds : Rename(p1, p2, n)
    \/ \E p1, p2 \in DirPath, n \in LinkBounds : Rename(p1, p2, n)
    \/ \E d \in DirName, n \in LinkBounds : MkDir(d, n) \/ RmDir(d, n)
    \/ \E d \in DirName \cup {NoName} : FindFirst(d)
    \/ FindNext

FatNext == FileCall \/ NameCall \/ DosGetFree \/ MediaCheck

FatSpec == FatInit /\ [][FatNext]_vars

-----------------------------------------------------------------------------
(* Properties.                                                             *)

StartOf(s) == IF Writers(s) = {} THEN dirent[s].start ELSE sft[Lowest(Writers(s))].start
SizeOf(s)  == IF Writers(s) = {} THEN dirent[s].size ELSE sft[Lowest(Writers(s))].size
ChainOf(s) == Chain(fat, StartOf(s))

(* No two files or directories share a cluster, and every chain ends with  *)
(* the last-cluster mark, links that fail included: extend links the new   *)
(* cluster before the old end, wipe_out frees from the start on.           *)
ChainsSound ==
    /\ \A s \in Live : StartOf(s) # FREE =>
            fat[StartOf(s)] # FREE /\ fat[Last(ChainOf(s))] = LAST
    /\ \A s, t \in Live : s # t => ToSet(ChainOf(s)) \cap ToSet(ChainOf(t)) = {}

(* Unless a link has failed, every cluster in use belongs to a file or a   *)
(* directory: no call leaves a lost chain, a full disk included.           *)
NoLostClusters ==
    ~failed => {c \in Cluster : fat[c] # FREE} = UNION {ToSet(ChainOf(s)) : s \in Live}

(* dpb_nfreeclst is the number of free clusters, whatever the calls and    *)
(* their failures, unless it is unknown.                                   *)
FreeCountExact == nfree # UNKNOWN => nfree = Cardinality(Free)

(* sft_cuclust is cluster sft_relclust of the file as long as files are    *)
(* not truncated while they are shared: nobody reads another file.         *)
PositionsInChain ==
    \A h \in OpenFds : sft[h].cu # FREE =>
        /\ sft[h].rel < Len(Chain(fat, sft[h].start))
        /\ Chain(fat, sft[h].start)[sft[h].rel + 1] = sft[h].cu

(* merge_file_changes: all who have a file open agree on its size, and     *)
(* none holds another first cluster than the one who writes.               *)
SharersAgree ==
    \A h \in OpenFds : /\ sft[h].size = SizeOf(sft[h].slot)
                       /\ sft[h].start \in {FREE, StartOf(sft[h].slot)}

(* Unused entries are at the end of a directory only ("Empty directory     *)
(* entries always resides at the end of the directory"), and a     *)
(* name is in it once.                                                     *)
DirectoriesWhole ==
    \A dc \in {Root} \cup {dirent[s].start : s \in {t \in Live : dirent[t].kind = "dir"}} :
        LET slots == DirSlots(Table(0), dc)
        IN  \A i, j \in DOMAIN slots : i < j =>
                /\ dirent[slots[i]].kind = "unused" => dirent[slots[j]].kind = "unused"
                /\ slots[i] \in Live => dirent[slots[i]].name # dirent[slots[j]].name

(* A find first/next that has come to the end has returned every name that *)
(* was there all the time, and once, whatever was created, deleted and     *)
(* renamed in between.                                                     *)
SearchComplete == /\ search.done => search.must \subseteq search.got
                  /\ ~search.twice

=============================================================================
