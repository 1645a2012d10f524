------------------------------ MODULE InitDisk ------------------------------
(***************************************************************************)
(* Drive letters at start-up (kernel/initdisk.c): the floppy units, the     *)
(* passes of ReadAllPartitionTables over the hard disks' partition tables,  *)
(* the units DosDefinePartition makes and the default BPB of each.          *)
(***************************************************************************)
EXTENDS Integers, FiniteSets, SequencesExt

CONSTANTS Setups,  \* machines: what the BIOS reports, the tables on the disks, the options
          NDEV,    \* 26 units
          MaxExt   \* 30 tables of an extended partition

Geometries == [size : Nat, heads : Nat \ {0}, secs : Nat \ {0}]

(* Partition tables hold numbers; a floppy has no more than the 1024 cylinders the
   old BIOS calls can name. *)
IsEntry(e) == e.rel \in Nat /\ e.num \in Nat

IsDrive(p) ==
  /\ p.heads \in Nat \ {0} /\ p.secs \in Nat \ {0} /\ p.desc \subseteq {"LBA", "DMA"}
  /\ \A x \in DOMAIN p.tables : Len(p.tables[x]) = 4 /\ \A i \in 1 .. 4 : IsEntry(p.tables[x][i])

IsMachine(s) ==
  /\ s.floppies \in {1, 2}
  /\ s.fdef \in Geometries /\ s.fdef.size <= 1024 * (s.fdef.heads * s.fdef.secs)
  /\ Len(s.drives) \in Nat /\ DOMAIN s.drives = 1 .. Len(s.drives)
  /\ \A d \in DOMAIN s.drives : IsDrive(s.drives[d])

ASSUME InitDiskAssumption ==
  /\ NDEV \in Nat /\ NDEV > 2 /\ MaxExt \in Nat
  /\ \A s \in Setups : IsMachine(s)

(* A setup is [floppies, changeline, fdef, drives, mask, force, sorted, bootdrv, ...]: number of
   floppy drives, whether they have a change line, their default format [size, heads, secs];
   drives: a sequence of [ok, heads, secs, desc, tables], where tables gives the four entries of
   every sector that ends in 55AA; mask: bprm.DriveMask; force: ForceLBA; sorted:
   DLASortByDriveNo.  An entry is [fs, boot, rel, num, odd]; odd: its end does not agree with
   rel and num. *)

VARIABLES setup,
          ddt,     \* ddt_buf[0 .. nUnits - 1]
          todo,    \* calls of ProcessDisk that are left: <<scan type, drive>>
          scan,    \* locals of the call in progress, or NoScan
          found,   \* foundPartitions
          spoilt   \* history: drives one of whose tables could not be read

bootVars == <<setup, ddt, todo, scan, found, spoilt>>

NoScan == [type |-> "none"]
MaxCyl == 1023

Fat12 == {"fat12", "fat12lba"}
Fat32 == {"fat32", "fat32lba"}
IsFATPartition(fs) == fs \in {"fat12", "fat16", "fat16lba", "fat32", "fat32lba"}
IsLBAPartition(fs) == fs \in {"fat12lba", "fat16lba", "fat32lba"}
IsExtPartition(fs) == fs \in {"ext", "extlba"}

(* Mutant: The type of the partition is kept when LBA is needed. *)
SameType(fs) == fs

AsLba(fs) == CASE fs = "fat12" -> "fat12lba" [] fs = "fat32" -> "fat32lba" [] OTHER -> "fat16lba"

Cylinder(p, lba) == lba \div (p.heads * p.secs)

-----------------------------------------------------------------------------
(* Default BPBs: CalculateFATData, and the DPB that bpb_to_dpb makes of one *)

cdiv(a, b)  == (a + b - 1) \div b
FAT_MAGIC   == 4085
FAT16MAX    == 65525 - 6
FAT32MAX    == 268435455 - 6

(* Mutant: The first cluster size is taken, whatever FAT it gives. *)
FirstAlways(from, data, perSec, max) ==
  [nsector |-> from, nfsect |-> (data + 2 * from + perSec * from + 1) \div (perSec * from + 2)]

(* The loop over cluster sizes: the first that gives a FAT which holds its clusters and is not
   taken for a 12-bit one; 0 when there is none (bpb_nsector is a byte). *)
FirstCluster(from, data, perSec, max) ==
  LET Fits(n, len) == LET clust == (data - 2 * len) \div n
                          maxclust == IF len * perSec > max THEN max ELSE len * perSec
                      IN clust <= maxclust - 2 /\ clust > FAT_MAGIC
      Length(n)    == (data + 2 * n + perSec * n + 1) \div (perSec * n + 2)
      good         == {n \in {1, 2, 4, 8, 16, 32, 64, 128} : n >= from /\ Fits(n, Length(n))}
      n            == CHOOSE m \in good : \A k \in good : m <= k
  IN IF good = {} THEN [nsector |-> 0, nfsect |-> 0] ELSE [nsector |-> n, nfsect |-> Length(n)]

Smaller(a, b) == IF a < b THEN a ELSE b

Start32(n) == CASE n <= 532480 -> 1
                [] n > 532480 /\ n \div 2097152 <= 8 -> 8
                [] n \div 2097152 \in 9 .. 16  -> 16
                [] n \div 2097152 \in 17 .. 32 -> 32
                [] OTHER -> 64

(* FAT12: 4K clusters, and the length by formula alone *)
Fat12Sectors(data) == cdiv((Smaller(data, 32640) + 16) * 3, 512 * 16 + 6)

CalculateFATData(n, fs) ==
  IF fs \in Fat12
  THEN [nsector |-> 8, nfsect |-> Fat12Sectors(n - 33), reserved |-> 1, dirents |-> 512]
  ELSE IF fs \in Fat32
  THEN FirstCluster(Start32(n), n - 32, 128, FAT32MAX) @@ [reserved |-> 32, dirents |-> 0]
  ELSE FirstCluster(4, Smaller(n - 33, 8386688), 256, FAT16MAX) @@ [reserved |-> 1, dirents |-> 512]

(* The last cluster of the disk; a FAT that is too short makes it smaller. *)
bpb_to_dpb(b, n, fs) ==
  LET data == b.reserved + 2 * b.nfsect + cdiv(b.dirents, 16)
      size == (n - data) \div b.nsector + 1
      half == b.nfsect * 256
      cap  == IF size > FAT_MAGIC THEN half ELSE (half * 4) \div 3
  IN [data |-> data,
      size |-> IF fs \in Fat32 \/ half >= 65536 \/ (size > FAT_MAGIC /\ half <= FAT_MAGIC)
                  \/ (size <= FAT_MAGIC /\ half >= 16384) \/ size < cap THEN size ELSE cap - 1]

-----------------------------------------------------------------------------
(* Units *)

Unit(drive, log, flags, offset, def, fs) ==
  [drive |-> drive, log |-> log, flags |-> flags, offset |-> offset, def |-> def, fs |-> fs,
   serial |-> "default", bpb |-> "default", last |-> "never"]

make_ddt(s, log, drive, flags) ==
  Unit(drive, log, flags \cup (IF s.changeline THEN {"CHANGELINE"} ELSE {}), 0, s.fdef, "floppy")

(* With one floppy drive A: and B: share it, and A: is the current one. *)
Floppies(s) ==
  LET shared == s.floppies = 1
  IN <<make_ddt(s, 0, 0, IF shared THEN {"MULTLOG", "CURLOG"} ELSE {}),
       make_ddt(s, 1, IF shared THEN 0 ELSE 1, IF shared THEN {"MULTLOG"} ELSE {})>>

Masked(n) == make_ddt(setup, n, 0, {"NOACCESS"})

(* The next letter that is not masked out, or NDEV *)
NextLetter(units) ==
  CHOOSE k \in Len(units) .. NDEV :
    /\ k = NDEV \/ k \notin setup.mask
    /\ \A i \in Len(units) .. k - 1 : i \in setup.mask

(* Letters that are masked out become units without access; the partition takes the next one,
   and none when the units are used up. *)
DosDefinePartition(units, drive, start, num, fs, force) ==
  LET p     == setup.drives[drive]
      n     == NextLetter(units)
      holes == [i \in 1 .. n - Len(units) |-> Masked(Len(units) + i - 1)]
      flags == (IF force \/ IsLBAPartition(fs) THEN p.desc ELSE p.desc \ {"LBA"})
                 \cup {"FIXED", "NOACCESS"}
  IN IF n = NDEV THEN units \o holes
     ELSE units \o holes \o
          <<Unit(127 + drive, n, flags, start, [size |-> num, heads |-> p.heads, secs |-> p.secs], fs)>>

-----------------------------------------------------------------------------
(* Partition tables *)

(* Some cylinder of it is out of reach of the old BIOS calls. *)
Beyond(p, start, e) == Cylinder(p, start + e.num - 1) > MaxCyl \/ Cylinder(p, start) > MaxCyl

Acceptable(p, start, e) ==
  /\ IsFATPartition(e.fs)
  /\ ~(e.num = 0 /\ e.odd)
  /\ Beyond(p, start, e) => "LBA" \in p.desc

(* Entry e, the i-th of its table, which starts at from *)
DefineEntry(acc, drive, type, e, i, from, force) ==
  LET p == setup.drives[drive]
  IN IF acc.stop \/ i \in acc.ignore \/ (type = "boot" /\ ~e.boot) \/ ~Acceptable(p, from, e)
     THEN acc
     ELSE [ignore |-> acc.ignore \cup {i},
           units  |-> DosDefinePartition(acc.units, drive, from, e.num,
                        IF Beyond(p, from, e) /\ ~force THEN AsLba(e.fs) ELSE e.fs, force),
           stop   |-> type \in {"boot", "primary"}]

ScanForPrimaryPartitions(drive, type, table, start, ignore, force) ==
  LET Entry(acc, i) == DefineEntry(acc, drive, type, table[i], i, start + table[i].rel, force)
      none == [ignore |-> ignore, units |-> ddt, stop |-> FALSE]
  IN Entry(Entry(Entry(Entry(none, 1), 2), 3), 4)

FirstExt(table) == SelectInSeq(table, LAMBDA e : IsExtPartition(e.fs))

(* Read1LBASector: a sector past cylinder 1023 needs LBA. *)
CanRead(p, sector) == Cylinder(p, sector) <= MaxCyl \/ "LBA" \in p.desc

-----------------------------------------------------------------------------
(* The order in which ReadAllPartitionTables calls ProcessDisk *)

(* Mutant: The other primary partitions come before the logical drives. *)
PrimaryFirst(n) == [d \in 1 .. n |-> <<"primary2", d>>] \o [d \in 1 .. n |-> <<"ext", d>>]

Rest(n) == [d \in 1 .. n |-> <<"ext", d>>] \o [d \in 1 .. n |-> <<"primary2", d>>]

(* These calls for the first of n drives, then for the second... *)
EachDrive(n, types) ==
  [i \in 1 .. n * Len(types) |-> <<types[((i - 1) % Len(types)) + 1], ((i - 1) \div Len(types)) + 1>>]

Calls(s) ==
  LET n == Len(s.drives)
  IN IF ~s.sorted
     THEN EachDrive(n, <<"boot", "primary">>) \o Rest(n)
     ELSE (IF s.bootdrv \in 1 .. n /\ s.drives[s.bootdrv].ok THEN <<<<"boot", s.bootdrv>>>> ELSE <<>>)
          \o EachDrive(n, <<"boot", "primary", "ext", "primary2">>)

InitDiskInit ==
  /\ setup \in Setups
  /\ ddt = Floppies(setup)
  /\ todo = Calls(setup)
  /\ scan = NoScan
  /\ found = [d \in DOMAIN setup.drives |-> {}]
  /\ spoilt = {}

PartitionsToIgnore(type, d) == IF type = "primary2" THEN found[d] ELSE {}

(* The next call, which is not made when the drive already has a primary partition, and which
   returns at once when the drive's parameters cannot be had. *)
ProcessDisk ==
  /\ scan = NoScan /\ todo # <<>>
  /\ LET type == todo[1][1]   d == todo[1][2]
     IN scan' = IF (type \in {"boot", "primary"} /\ found[d] # {}) \/ ~setup.drives[d].ok THEN NoScan
                ELSE [type |-> type, drive |-> d, ignore |-> PartitionsToIgnore(type, d),
                      sector |-> 0, base |-> 0, nr |-> 0, lba |-> FALSE]
  /\ todo' = Tail(todo)
  /\ UNCHANGED <<setup, ddt, found, spoilt>>

Return(mask) ==
  /\ scan' = NoScan
  /\ found' = IF scan.type \in {"boot", "primary"} THEN [found EXCEPT ![scan.drive] = mask] ELSE found

TableUnreadable ==
  /\ scan # NoScan
  /\ Return(scan.ignore)
  /\ spoilt' = spoilt \cup {scan.drive}
  /\ UNCHANGED <<setup, ddt, todo>>

(* The partitions of a table that was read, and the next table of the extended partition *)
Partitions(p) ==
  IF scan.type # "ext" \/ scan.nr # 0
  THEN ScanForPrimaryPartitions(scan.drive, scan.type, p.tables[scan.sector], scan.sector, scan.ignore,
                                setup.force \/ scan.lba)
  ELSE [units |-> ddt, ignore |-> scan.ignore, stop |-> FALSE]

FollowExtended(table, x) ==
  /\ scan.nr < MaxExt
  /\ scan' = [scan EXCEPT !.sector = scan.base + table[x].rel, !.nr = @ + 1, !.ignore = {},
                          !.base = IF @ = 0 THEN table[x].rel ELSE @,
                          !.lba = IF scan.base = 0 THEN table[x].fs = "extlba" ELSE @]
  /\ UNCHANGED found

TableRead ==
  /\ scan # NoScan
  /\ LET p == setup.drives[scan.drive]
     IN /\ CanRead(p, scan.sector)
        /\ IF scan.sector \notin DOMAIN p.tables THEN Return(scan.ignore) /\ UNCHANGED ddt
           ELSE \E r \in {Partitions(p)} :
                /\ ddt' = r.units
                /\ \E x \in {FirstExt(p.tables[scan.sector])} :
                     IF scan.type # "ext" THEN Return(r.ignore)
                     ELSE \/ x # 0 /\ FollowExtended(p.tables[scan.sector], x)
                          \/ (x = 0 \/ scan.nr >= MaxExt) /\ Return({})
  /\ UNCHANGED <<setup, todo, spoilt>>

InitDiskNext == ProcessDisk \/ TableRead \/ TableUnreadable

Booted == scan = NoScan /\ todo = <<>>

-----------------------------------------------------------------------------
(* Properties *)

Drives == DOMAIN setup.drives

(* Sector of the k-th table of a drive, -1 for none *)
TableAt(d) ==
  LET p     == setup.drives[d]
      Ext(s) == IF s \in DOMAIN p.tables THEN FirstExt(p.tables[s]) ELSE 0
      t[k \in 0 .. MaxExt] ==
        IF k = 0 THEN 0
        ELSE IF t[k - 1] = -1 \/ (t[k - 1] # -1 /\ Ext(t[k - 1]) = 0) THEN -1
        ELSE (IF k = 1 THEN 0 ELSE p.tables[0][Ext(0)].rel) + p.tables[t[k - 1]][Ext(t[k - 1])].rel
  IN t

(* The partitions DOS can use: [table, i, start, num] *)
Usable(d) ==
  LET p == setup.drives[d]   t == TableAt(d)
      Reached == {k \in 0 .. MaxExt : t[k] \in DOMAIN p.tables /\ CanRead(p, t[k])}
      Entry(k, i) == [k |-> k, i |-> i, start |-> t[k] + p.tables[t[k]][i].rel, e |-> p.tables[t[k]][i]]
  IN {w \in {Entry(k, i) : k \in Reached, i \in 1 .. 4} : Acceptable(p, w.start, w.e)}

Fixed == {u \in DOMAIN ddt : "FIXED" \in ddt[u].flags}

(* No partition has two letters, whichever tables fail to be read in whichever pass; and when all
   were read and letters are left, every partition DOS can use has one. *)
OneLetterEach ==
  /\ \A u, v \in Fixed : ddt[u].drive = ddt[v].drive /\ ddt[u].offset = ddt[v].offset => u = v
  /\ Booted /\ spoilt = {} /\ Len(ddt) < NDEV =>
       \A d \in Drives : setup.drives[d].ok =>
         {w.start : w \in Usable(d)} = {ddt[u].offset : u \in {v \in Fixed : ddt[v].drive = 127 + d}}

(* The first of a drive: its active partition, or else the first of the table *)
Primary(d) ==
  LET prim == {w \in Usable(d) : w.k = 0}
      act  == {w \in prim : w.e.boot}
      from == IF act # {} THEN act ELSE prim
  IN {w \in from : \A v \in from : w.i <= v.i}

Place(d, w) ==
  LET class == IF w \in Primary(d) THEN 0 ELSE IF w.k > 0 THEN 1 ELSE 2
      first == setup.bootdrv = d /\ class = 0 /\ w.e.boot
  IN IF ~setup.sorted THEN <<class, d, w.k, w.i>>
     ELSE <<IF first THEN 0 ELSE d, class, w.k, w.i>>

Before(a, b) == \E n \in 1 .. 4 : a[n] < b[n] /\ \A m \in 1 .. n - 1 : a[m] = b[m]

(* No partition has two letters and none is without, and letters follow the order the comments
   of initdisk.c (1211-1297) give: one primary partition of every disk, then the logical drives,
   then the primary partitions that are left; or disk by disk when that is asked for, with the
   active partition of the boot disk first. *)
LettersInOrder ==
  OneLetterEach /\ (spoilt = {} => \A u, v \in Fixed : u < v =>
    \A d, e \in Drives : \A w \in Usable(d), x \in Usable(e) :
      (/\ ddt[u].drive = 127 + d /\ ddt[u].offset = w.start
       /\ ddt[v].drive = 127 + e /\ ddt[v].offset = x.start) => Before(Place(d, w), Place(e, x)))

(* Every sector of a unit is in reach of the BIOS calls the driver will use for it: LBA_to_CHS
   of dsk.c, which refuses cylinders above 1023, never does for a sector of the partition. *)
LettersReach ==
  \A u \in Fixed : "LBA" \notin ddt[u].flags =>
    Cylinder(ddt[u].def, ddt[u].offset + ddt[u].def.size - 1) <= MaxCyl

(* The BPB made up for a partition that is not formatted describes a disk: its FAT has an entry
   for every cluster of the DPB, the clusters lie in the partition and have numbers that are not
   reserved, and the DPB is taken for the kind of FAT the partition table names. *)
DefaultsFit ==
  \A u \in Fixed :
    LET n == ddt[u].def.size   fs == ddt[u].fs
        b == CalculateFATData(n, fs)
    IN /\ b.nsector # 0
       /\ LET d == bpb_to_dpb(b, n, fs)
          IN /\ d.data + (d.size - 1) * b.nsector <= n
             /\ (d.size + 1) * (IF fs \in Fat12 THEN 3 ELSE IF fs \in Fat32 THEN 8 ELSE 4) <= b.nfsect * 1024
             /\ (fs \in Fat12) = (d.size <= FAT_MAGIC)
             /\ fs \notin Fat12 \cup Fat32 => d.size < 65527
=============================================================================
