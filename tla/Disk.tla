-------------------------------- MODULE Disk --------------------------------
(***************************************************************************)
(* The block driver of the BIOS disks (kernel/dsk.c) on the units InitDisk  *)
(* makes, with media_check (fatfs.c) above it: transfers cut to what one    *)
(* BIOS call can do, floppies that are changed, two letters that share one  *)
(* floppy drive, and the IOCTL calls that set parameters, formats and       *)
(* serial numbers.                                                          *)
(***************************************************************************)
EXTENDS InitDisk

CONSTANTS N_RETRY, maxsecsize

(* A setup also has: io, the transfers that may be asked for, [unit, mode, start, n, addr];
   disks, what is on each floppy, and inserted, the ones in the drives; a floppy is
   [kind, serial] with kind "dos", "blank" (no boot sector) or
   "zero" (no sectors per track in it); ops, the other calls; max, the bound on calls. *)

(* There are floppies in the drives.  A letter that is masked out becomes a unit of the first
   drive that is not the double of another one: machines with such letters only start. *)
IsStocked(s) ==
  /\ \A r \in s.io : r.start \in Nat /\ r.n \in Nat /\ r.addr \in Nat
  /\ "default" \notin DOMAIN s.disks
  /\ \A d \in DOMAIN s.disks : DOMAIN s.disks[d] = {"kind", "serial"}
  /\ \A f \in 1 .. s.floppies : s.inserted[f] \in DOMAIN s.disks
  /\ s.mask # {} => s.ops = {}

ASSUME DiskAssumption ==
  /\ N_RETRY \in Nat \ {0} /\ maxsecsize \in Nat /\ maxsecsize >= 512
  /\ \A s \in Setups : IsStocked(s)

VARIABLES io,        \* the transfer in progress, or Idle
          drive,     \* floppy drives: [disk, line]; line: the change line is up
          media,     \* what is on the floppies
          dos,       \* per unit: [dpb, buf, dirty, force]: the disks its DPB and buffers are of
          bpptr,     \* MediaReqHdr.r_bpptr: a unit, 0 for none
          unchecked, \* history: units used without a media check after a change of floppies, or whose
             \* DPB could not be made from the disk
          checked,   \* history: the unit whose media check has just succeeded, or 0
          calls      \* bound

diskVars == <<io, drive, media, dos, bpptr, unchecked, checked, calls>>
vars == <<bootVars, diskVars>>

Idle == [phase |-> "idle"]
Nothing == "nothing"

hd(u)   == "FIXED" \in ddt[u].flags
Units   == DOMAIN ddt

(* The floppy in the drive of unit u, and what the boot sector on it says *)
In(u)   == drive[ddt[u].drive].disk
Kind(u) == IF hd(u) THEN "dos" ELSE media[In(u)].kind
Here(u) == IF hd(u) THEN "fixed" ELSE In(u)

-----------------------------------------------------------------------------
(* Two letters on one drive, and whether the floppy was changed *)

NeedsSwap(D, u) == "MULTLOG" \in D[u].flags /\ "CURLOG" \notin D[u].flags

Current(D, u) == {v \in DOMAIN D : D[v].drive = D[u].drive /\ {"MULTLOG", "CURLOG"} \subseteq D[v].flags}

SetCurrent(D, u) ==
  [v \in DOMAIN D |-> [D[v] EXCEPT !.flags = IF v = u THEN @ \cup {"CURLOG"}
                                             ELSE IF v \in Current(D, u) THEN @ \ {"CURLOG"} ELSE @]]

(* The user is asked for the floppy of the other letter and may change it (ChangeFloppy). *)
play_dj(D, u) == IF NeedsSwap(D, u) THEN SetCurrent(D, u) ELSE D

tdelay(d) == d.last = "old"

diskchange(D, u) ==
  CASE hd(u) -> "not"
    [] ~hd(u) /\ NeedsSwap(D, u) -> "changed"
    [] ~hd(u) /\ ~NeedsSwap(D, u) /\ "CHANGELINE" \in D[u].flags ->
         IF drive[D[u].drive].line THEN "changed" ELSE "not"
    [] OTHER -> IF tdelay(D[u]) THEN "dontknow" ELSE "not"

AddFlags(D, u, set) == [D EXCEPT ![u].flags = @ \cup set]
DropFlags(D, u, set) == [D EXCEPT ![u].flags = @ \ set]

(* Mutant: a disk that was changed is not marked. *)
Unmarked(D, u) == play_dj(D, u)

Changed(D, u) == IF diskchange(D, u) = "not" THEN play_dj(D, u)
                 ELSE AddFlags(play_dj(D, u), u, {"DISKCHANGE"})

Learn(D, u) == [D EXCEPT ![u].flags = @ \ {"NOACCESS"}, ![u].bpb = Here(u), ![u].last = "recent",
                         ![u].serial = IF hd(u) THEN @ ELSE media[In(u)].serial]

(* getbpb: reads the boot sector (read: whether the BIOS can).  A disk without one gets the
   default BPB and the answer S_DONE, which its callers take for "not done". *)
getbpb(D, u, read) ==
  IF ~read THEN [ddt |-> Changed(D, u), ret |-> "error"]
  ELSE CASE Kind(u) = "blank" -> [ddt |-> [Changed(D, u) EXCEPT ![u].bpb = "default"], ret |-> "done"]
         [] Kind(u) = "zero"  -> [ddt |-> Learn(Changed(D, u), u), ret |-> "error"]
         [] OTHER             -> [ddt |-> Learn(Changed(D, u), u), ret |-> "ok"]

(* mediachk: a disk that may have been changed is known by its serial number. *)
SameSerial(D, u) == Kind(u) = "blank" \/ D[u].serial = media[In(u)].serial

mediachk(D, u, read) ==
  CASE "REFORMAT" \in D[u].flags -> [ddt |-> DropFlags(D, u, {"REFORMAT"}), ret |-> "changed"]
    [] "REFORMAT" \notin D[u].flags /\ "DISKCHANGE" \in D[u].flags ->
         [ddt |-> DropFlags(D, u, {"DISKCHANGE"}), ret |-> "dontknow"]
    [] OTHER ->
         IF diskchange(D, u) # "dontknow" THEN [ddt |-> play_dj(D, u), ret |-> diskchange(D, u)]
         ELSE LET g == getbpb(D, u, read)
              IN [ddt |-> g.ddt, ret |-> IF g.ret = "error" THEN "error"
                                         ELSE IF SameSerial(D, u) THEN "dontknow" ELSE "changed"]

-----------------------------------------------------------------------------
(* DOS above the driver *)

Quiet == io = Idle /\ Booted /\ calls < setup.max
Call  == calls' = calls + 1

(* The unit is used while its DPB, or the driver's BPB, is not of the floppy in the drive. *)
Unlooked(u) == IF dos[u].dpb # Here(u) \/ ddt[u].bpb # Here(u) THEN unchecked \cup {u} ELSE unchecked

(* The change line goes down when the drive is used. *)
Touch(u) == drive' = IF hd(u) THEN drive ELSE [drive EXCEPT ![ddt[u].drive].line = FALSE]

(* media_check: SUCCESS with everything kept, or with the DPB made anew from the request's
   r_bpptr, which bldbpb sets only if getbpb answers 0; a critical error fails. *)
Keeps(m, u, force) == /\ ~dos[u].force /\ ~force
                      /\ m.ret = "not" \/ (m.ret = "dontknow" /\ dos[u].dirty)

MediaKept(m, u, force) ==
  /\ m.ret # "error" /\ Keeps(m, u, force)
  /\ ddt' = m.ddt
  /\ checked' = IF m.ret = "not" THEN u ELSE 0
  /\ unchecked' = IF m.ret = "not" THEN unchecked ELSE Unlooked(u)
  /\ UNCHANGED <<drive, dos, bpptr>>

Forced(u, force) == [dos EXCEPT ![u].force = @ \/ force]

Rebuilt(D, u, p) ==
  /\ dos' = [dos EXCEPT ![u] = [dpb |-> IF p = 0 THEN "garbage" ELSE D[p].bpb, buf |-> Nothing,
                                dirty |-> FALSE, force |-> FALSE]]
  /\ checked' = u
  /\ unchecked' = IF p = u /\ D[u].bpb = Here(u) THEN unchecked \ {u} ELSE unchecked \cup {u}

BpbBuilt(D, u, read, force) ==
  \E g \in {getbpb(D, u, read)} :
    /\ ddt' = g.ddt
    /\ CASE g.ret = "ok" -> bpptr' = u /\ Rebuilt(g.ddt, u, u)
         [] g.ret = "done" -> UNCHANGED bpptr /\ Rebuilt(g.ddt, u, bpptr)
         [] OTHER -> /\ dos' = [Forced(u, force) EXCEPT ![u].buf = Nothing, ![u].dirty = FALSE]
                     /\ checked' = 0
                     /\ unchecked' = unchecked \cup {u}
                     /\ UNCHANGED bpptr
    /\ IF read THEN Touch(u) ELSE UNCHANGED drive

MediaRebuilt(m, u, read, force) ==
  m.ret # "error" /\ ~Keeps(m, u, force) /\ BpbBuilt(m.ddt, u, read, force)

MediaFails(m, u, force) ==
  /\ m.ret = "error"
  /\ ddt' = m.ddt
  /\ dos' = Forced(u, force)
  /\ checked' = 0
  /\ UNCHANGED <<drive, bpptr, unchecked>>

(* Forced: INT 21h/1Fh, 32h, 36h, 7302h and 7304h mark the DPB of a unit, whose buffers they have
   written (FlushUnit), before they call it. *)
media_check(u) ==
  /\ Quiet /\ Call
  /\ \E read, force \in BOOLEAN :
       /\ force => ~dos[u].dirty
       /\ \E m \in {mediachk(ddt, u, read)} :
            MediaKept(m, u, force) \/ MediaRebuilt(m, u, read, force) \/ MediaFails(m, u, force)
  /\ UNCHANGED <<setup, todo, scan, found, spoilt, io, media>>

(* The driver is used for unit u, whatever is in the drive. *)
Used(u) ==
  /\ ddt' = [play_dj(ddt, u) EXCEPT ![u].last = "recent"]
  /\ Touch(u)
  /\ unchecked' = Unlooked(u)
  /\ checked' = 0

FlushUnit(u) ==
  /\ Quiet /\ Call
  /\ dos[u].dirty /\ "NOACCESS" \notin ddt[u].flags
  /\ Used(u)
  /\ dos' = [dos EXCEPT ![u].dirty = FALSE]
  /\ UNCHANGED <<setup, todo, scan, found, spoilt, io, media, bpptr>>

(* INT 21h/0Dh: when the buffers of all units are written they are dropped; no DPB is marked. *)
Reset ==
  /\ Quiet /\ Call
  /\ \A u \in Units : ~dos[u].dirty
  /\ dos' = [u \in DOMAIN dos |-> [dos[u] EXCEPT !.buf = Nothing]]
  /\ checked' = 0
  /\ UNCHANGED <<bootVars, io, drive, media, bpptr, unchecked>>

(* A file's sector goes through the buffers, INT 25h and 26h do not; neither looks at the
   medium first. *)
UseSector(u, buffered, write) ==
  /\ Quiet /\ Call /\ ~hd(u)
  /\ "NOACCESS" \notin ddt[u].flags
  /\ buffered => ~dos[u].force
  /\ Used(u)
  /\ dos' = IF buffered THEN [dos EXCEPT ![u].buf = In(u), ![u].dirty = @ \/ write] ELSE dos
  /\ UNCHANGED <<setup, todo, scan, found, spoilt, io, media, bpptr>>

-----------------------------------------------------------------------------
(* IOCTL *)

Getlogdev(u) == IF "MULTLOG" \in ddt[u].flags THEN Current(ddt, u) ELSE {}

Setlogdev(u) ==
  /\ Quiet /\ Call
  /\ Getlogdev(u) # {}
  /\ ddt' = SetCurrent(ddt, u)
  /\ unchecked' = unchecked \cup {u}
  /\ checked' = 0
  /\ UNCHANGED <<setup, todo, scan, found, spoilt, io, drive, media, dos, bpptr>>

(* 40h: the program's BPB becomes the current or the default one. *)
SetParameters(u) ==
  /\ \E current \in BOOLEAN :
       ddt' = [AddFlags(ddt, u, {"DPCHANGED", "REFORMAT"}) EXCEPT ![u].bpb = IF current THEN "custom" ELSE @]
  /\ UNCHANGED <<drive, media, unchecked>>

(* 42h: DPCHANGED is gone whatever the BIOS says to the media type (told), a call that only asks
   ends there (ask), and a formatted first track leaves no boot sector (first). *)
FormatTrack(u) ==
  /\ ~hd(u)
  /\ \E told, ask, first, done \in BOOLEAN :
       IF ~told \/ ask THEN ddt' = DropFlags(ddt, u, {"DPCHANGED"}) /\ UNCHANGED <<drive, media, unchecked>>
       ELSE /\ ddt' = play_dj(DropFlags(ddt, u, {"DPCHANGED"}), u)
            /\ Touch(u)
            /\ unchecked' = Unlooked(u)
            /\ media' = IF done /\ first THEN [media EXCEPT ![In(u)].kind = "blank"] ELSE media

(* 41h, 61h, 62h: tracks, by cylinder and head, without a look at flags or limits *)
UseTrack(u) ==
  /\ ddt' = play_dj(ddt, u)
  /\ Touch(u)
  /\ unchecked' = Unlooked(u)
  /\ UNCHANGED media

(* The numbers of the floppies, and one that no floppy has *)
Serials == {d.serial : d \in Range(setup.disks)} \cup {"new"}

(* 46h and 66h: the serial number on the disk; what is not formatted is left alone. *)
SetSerial(u, read, serial) ==
  \E g \in {getbpb(ddt, u, read)} :
    /\ ddt' = IF g.ret = "ok" THEN [g.ddt EXCEPT ![u].serial = serial] ELSE g.ddt
    /\ media' = IF g.ret = "ok" /\ ~hd(u) THEN [media EXCEPT ![In(u)].serial = serial] ELSE media
    /\ IF read THEN Touch(u) ELSE UNCHANGED drive
    /\ UNCHANGED unchecked

GetSerial(u, read) ==
  /\ ddt' = getbpb(ddt, u, read).ddt
  /\ IF read THEN Touch(u) ELSE UNCHANGED drive
  /\ UNCHANGED <<media, unchecked>>

(* 47h *)
SetAccess(u, allow) ==
  /\ ddt' = IF allow THEN DropFlags(ddt, u, {"NOACCESS"}) ELSE AddFlags(ddt, u, {"NOACCESS"})
  /\ UNCHANGED <<drive, media, unchecked>>

Genblkdev(u) ==
  /\ Quiet /\ Call
  /\ \/ SetParameters(u)
     \/ FormatTrack(u)
     \/ UseTrack(u)
     \/ \E read \in BOOLEAN, serial \in Serials : SetSerial(u, read, serial)
     \/ \E read \in BOOLEAN : GetSerial(u, read)
     \/ \E allow \in BOOLEAN : SetAccess(u, allow)
  /\ checked' = 0
  /\ UNCHANGED <<setup, todo, scan, found, spoilt, io, dos, bpptr>>

-----------------------------------------------------------------------------
(* Transfers *)

(* The geometry by which a unit's sectors are found; floppies here have one format. *)
size(u) == ddt[u].def.size

InRange(r) == r.start < size(r.unit) /\ r.start + r.n <= size(r.unit)

Begun(r) == [phase |-> "busy", req |-> r, lba |-> r.start + ddt[r.unit].offset, left |-> r.n,
             addr |-> r.addr, tries |-> 0, call |-> <<>>, moved |-> {}]

(* C_INPUT, C_OUTPUT and C_OUTVFY of blockio; the clock is marked before the range is looked at. *)
blockio(r) ==
  /\ Quiet /\ Call
  /\ "NOACCESS" \notin ddt[r.unit].flags
  /\ \/ /\ InRange(r)
        /\ ddt' = [play_dj(ddt, r.unit) EXCEPT ![r.unit].last = "recent"]
        /\ io' = Begun(r)
        /\ IF r.n > 0 THEN Touch(r.unit) ELSE UNCHANGED drive
     \/ /\ ~InRange(r)
        /\ ddt' = [ddt EXCEPT ![r.unit].last = "recent"]
        /\ UNCHANGED <<io, drive>>
  /\ unchecked' = Unlooked(r.unit)
  /\ checked' = 0
  /\ UNCHANGED <<setup, todo, scan, found, spoilt, media, dos, bpptr>>

Secsize == 512
Top     == 655360  \* A000:0000

DMA_max_transfer(addr, count) ==
  Smaller(count, (IF addr % 65536 = 0 THEN 65535 ELSE 65536 - (addr % 65536)) \div maxsecsize)

(* What the next BIOS call is for: sectors straight to the buffer, or one by DiskTransferBuffer *)
Direct(u, addr, left) == IF "DMA" \in ddt[u].flags THEN left ELSE DMA_max_transfer(addr, left)
Bounce(u, addr, left) == addr >= Top \/ Direct(u, addr, left) = 0

UseLba(u) == "LBA" \in ddt[u].flags

(* Mutant: one sector too many. *)
PastTrack(u, lba) == ddt[u].def.secs - (lba % ddt[u].def.secs) + 1

(* Old calls stop at the end of the track. *)
TrackLeft(u, lba) == ddt[u].def.secs - (lba % ddt[u].def.secs)

Piece(u, lba, addr, left) ==
  LET count == IF Bounce(u, addr, left) THEN 1 ELSE Direct(u, addr, left)
  IN IF UseLba(u) THEN count ELSE Smaller(count, TrackLeft(u, lba))

(* Mutant: The address stays where the bounce buffer was used. *)
NextStuck(addr, n) == IF addr >= Top THEN addr ELSE addr + Secsize * n

NextAddr(addr, n) == addr + Secsize * n

Pairs(lba, addr, n) == {<<lba + i, addr + Secsize * i>> : i \in 0 .. n - 1}

Busy == io.phase = "busy" /\ io.left > 0
Refused(u, lba) == ~UseLba(u) /\ Cylinder(ddt[u].def, lba) > MaxCyl

BiosCall(count) ==
  [lba |-> io.lba, n |-> count, addr |-> io.addr, bounced |-> Bounce(io.req.unit, io.addr, io.left)]

(* One BIOS call, where LBA_to_CHS has an answer *)
Transfer(u) ==
  /\ Busy /\ ~Refused(u, io.lba)
  /\ \E n \in {Piece(u, io.lba, io.addr, io.left)} : \E c \in {BiosCall(n)} :
       io' = [io EXCEPT !.call = <<c>>, !.tries = 0, !.moved = @ \cup Pairs(io.lba, io.addr, n),
                        !.lba = @ + n, !.addr = NextAddr(@, n), !.left = @ - n]
  /\ UNCHANGED <<bootVars, drive, media, dos, bpptr, unchecked, checked, calls>>

(* One that fails may have moved all of it (a write whose verify fails), but a read that failed
   is not copied from DiskTransferBuffer.  N_RETRY failures end the transfer, and so does a
   cylinder out of reach. *)
TransferFails(u) ==
  /\ Busy
  /\ \E n \in {Piece(u, io.lba, io.addr, io.left)} : \E c \in {BiosCall(n)}, refused \in {Refused(u, io.lba)},
        k \in IF io.req.mode = "read" /\ Bounce(u, io.addr, io.left) THEN {0} ELSE {0, n} :
       io' = [io EXCEPT !.call = IF refused THEN @ ELSE <<c>>, !.tries = @ + 1,
                        !.moved = IF refused THEN @ ELSE @ \cup Pairs(io.lba, io.addr, k),
                        !.phase = IF refused \/ io.tries + 1 = N_RETRY THEN "failed" ELSE "busy"]
  /\ UNCHANGED <<bootVars, drive, media, dos, bpptr, unchecked, checked, calls>>

LBA_Transfer == io # Idle /\ \E u \in {io.req.unit} : Transfer(u) \/ TransferFails(u)

(* The answer, with r_count, is given. *)
Finish ==
  /\ io # Idle /\ (io.left = 0 \/ io.phase = "failed")
  /\ io' = Idle
  /\ UNCHANGED <<bootVars, drive, media, dos, bpptr, unchecked, checked, calls>>

-----------------------------------------------------------------------------
(* The user *)

(* Changing a floppy takes more than 37 ticks. *)
ChangeFloppy(f) ==
  /\ Quiet /\ Call
  /\ \E d \in DOMAIN media \ {drive[g].disk : g \in DOMAIN drive} :
       drive' = [drive EXCEPT ![f] = [disk |-> d, line |-> TRUE]]
  /\ ddt' = [u \in Units |-> [ddt[u] EXCEPT !.last = IF @ = "recent" THEN "old" ELSE @]]
  /\ checked' = 0
  /\ UNCHANGED <<setup, todo, scan, found, spoilt, io, media, dos, bpptr, unchecked>>

TimePasses ==
  /\ Quiet
  /\ \E u \in Units : ddt[u].last = "recent"
  /\ ddt' = [u \in Units |-> [ddt[u] EXCEPT !.last = IF @ = "recent" THEN "old" ELSE @]]
  /\ checked' = 0
  /\ UNCHANGED <<setup, todo, scan, found, spoilt, io, drive, media, dos, bpptr, unchecked, calls>>

FreshDos(n) == [u \in 1 .. n |-> [dpb |-> Nothing, buf |-> Nothing, dirty |-> FALSE, force |-> TRUE]]

DiskInit ==
  /\ InitDiskInit
  /\ io = Idle
  /\ media = setup.disks
  /\ drive = [f \in 0 .. setup.floppies - 1 |-> [disk |-> setup.inserted[f + 1], line |-> FALSE]]
  /\ dos = FreshDos(NDEV)
  /\ bpptr = 0 /\ unchecked = {} /\ checked = 0 /\ calls = 0

Asked(op) == op \in setup.ops

Next ==
  \/ InitDiskNext /\ UNCHANGED diskVars
  \/ \E r \in setup.io : Quiet /\ r.unit \in Units /\ blockio(r)
  \/ LBA_Transfer
  \/ Finish
  \/ TimePasses /\ Asked("media")
  \/ Reset /\ Asked("media")
  \/ \E f \in DOMAIN drive : Asked("media") /\ ChangeFloppy(f)
  \/ \E u \in Units : \/ Asked(IF hd(u) THEN "access" ELSE "media") /\ media_check(u)
                      \/ Asked("media") /\ FlushUnit(u)
                      \/ Asked("media") /\ \E buffered, write \in BOOLEAN : UseSector(u, buffered, write)
                      \/ Asked("logical") /\ Setlogdev(u)
                      \/ Asked("ioctl") /\ Genblkdev(u)

Spec == DiskInit /\ [][Next]_vars

-----------------------------------------------------------------------------
(* Properties *)

(* A transfer moves each sector asked for to its own place in memory and nothing else, however
   it is cut; when it fails, at least the sectors it reports were moved, and none beyond the BIOS
   call that failed. *)
TransferExact ==
  io # Idle =>
    LET r == io.req   off == ddt[r.unit].offset   done == r.n - io.left
        sofar == done + (IF io.tries > 0 /\ io.call # <<>> THEN io.call[1].n ELSE 0)
    IN /\ Pairs(r.start + off, r.addr, done) \subseteq io.moved
       /\ io.moved \subseteq Pairs(r.start + off, r.addr, sofar)
       /\ sofar <= r.n

(* No BIOS call is for more than it can do or for another's sectors: it stays in the unit, in
   one 64K page of memory unless the drive can do better, below A000h or in
   DiskTransferBuffer, and without LBA on one track. *)
CallsFit ==
  io # Idle /\ io.call # <<>> =>
    LET c == io.call[1]   u == io.req.unit   d == ddt[u]   last == c.lba + c.n - 1
    IN /\ c.n > 0 /\ c.lba >= d.offset /\ last < d.offset + d.def.size
       /\ c.bounced => c.n = 1
       /\ ~c.bounced => /\ c.addr < Top
                        /\ "DMA" \in d.flags \/ c.addr \div 65536 = (c.addr + Secsize * c.n - 1) \div 65536
       /\ "LBA" \in d.flags \/ c.lba \div d.def.secs = last \div d.def.secs

(* When media_check finds nothing changed, or has made the DPB anew, then the DPB, the BPB of
   the driver and the buffers of the unit are those of the floppy that is in the drive.  Units
   that were used without a media check while the floppy was not that of their DPB, or kept for
   their dirty buffers though it was not, are excepted, and those whose floppy could not be read
   or has no boot sector. *)
MediumKnown ==
  checked # 0 /\ checked \notin unchecked /\ Kind(checked) # "blank" =>
    /\ dos[checked].dpb = Here(checked)
    /\ ddt[checked].bpb = Here(checked)
    /\ dos[checked].buf \in {Nothing, Here(checked)}

=============================================================================
