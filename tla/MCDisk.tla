------------------------------- MODULE MCDisk -------------------------------
(* Machines with the partitions, the transfers and the floppies that are of interest, one thing *)
(* at a time: letters, sizes of partitions, transfers, changes of floppies.                     *)
EXTENDS Disk

P(fs, boot, rel, num) == [fs |-> fs, boot |-> boot, rel |-> rel, num |-> num, odd |-> FALSE]
None      == P("none", FALSE, 0, 0)
Dead(rel) == [P("fat16", TRUE, rel, 0) EXCEPT !.odd = TRUE]
Table(s)  == [i \in 1 .. 4 |-> IF i \in DOMAIN s THEN s[i] ELSE None]

Cyl == 255 * 63
Hd(desc, ok, tables) == [ok |-> ok, heads |-> 255, secs |-> 63, desc |-> desc, tables |-> tables]

(* The tables of an extended partition at sector x with logical drives of these kinds, one
   every ten cylinders *)
Logical(x, kinds) ==
  [s \in {x + 10 * Cyl * (k - 1) : k \in 1 .. Len(kinds)} |->
     LET k == (s - x) \div (10 * Cyl) + 1
     IN Table(<<P(kinds[k], FALSE, 63, 30000)>> \o
              (IF k = Len(kinds) THEN <<>> ELSE <<P("ext", FALSE, 10 * Cyl * k, 9)>>))]

Prim == {<<>>, <<P("fat16", FALSE, 63, 40000), P("fat32", TRUE, 50000, 900000)>>,
         <<P("other", TRUE, 63, 40000), P("fat12", FALSE, 50000, 9000), P("fat16", FALSE, 60000, 90000)>>,
         <<Dead(63), P("fat16", TRUE, 1020 * Cyl, 5 * Cyl), P("fat16", FALSE, 63, 40000)>>}
Chains == {<<"fat16">>, <<"fat12", "fat16", "fat32", "fat16">>}
MbrOnly == {0 :> Table(p) : p \in Prim}
WithExt == {(0 :> Table(p \o <<P(x, FALSE, c * Cyl, 9)>>)) @@ Logical(c * Cyl, e) :
              p \in {q \in Prim : q = <<>> \/ q[1].fs = "fat16"}, x \in {"ext", "extlba"},
              c \in {100, 1005}, e \in Chains}

Machine == [floppies |-> 1, changeline |-> FALSE, fdef |-> [size |-> 2880, heads |-> 2, secs |-> 18],
            drives |-> <<>>, mask |-> {}, force |-> FALSE, sorted |-> FALSE, bootdrv |-> 1,
            inserted |-> <<"d1", "d2">>, io |-> {}, disks |-> [d \in {"d1", "d2"} |-> [kind |-> "dos", serial |-> d]], ops |-> {}, max |-> 0]

Letters ==
  {[Machine EXCEPT !.drives = <<Hd(l, TRUE, t)>>, !.mask = m, !.force = f] :
     l \in {{"LBA"}, {}}, t \in WithExt \cup {<<>>}, m \in {{}, {3, 4}}, f \in BOOLEAN} \cup
  {[Machine EXCEPT !.drives = <<Hd({"LBA"}, ok, t), Hd({}, TRUE, u)>>, !.sorted = s, !.bootdrv = b,
                   !.floppies = b] :
     ok \in BOOLEAN, t \in MbrOnly, u \in MbrOnly \cup
       {(0 :> Table(<<P("ext", FALSE, Cyl, 9), P("fat12", FALSE, 63, 9000)>>)) @@ Logical(Cyl, <<"fat16">>)},
     s \in BOOLEAN, b \in {1, 2}}

Sizes == {<<"fat12", n>> : n \in {34, 1000, 4085 * 8, 32736}} \cup
         {<<"fat16", n>> : n \in {16500, 32680, 65535, 65536, 262000, 524288, 1048576, 4194304, 8386721}} \cup
         {<<"fat32", n>> : n \in {5000, 66600, 532480, 532481, 16777216, 37748736, 71303168, 1073741824}}

Partition(desc, fs, rel, n) == <<Hd(desc, TRUE, 0 :> Table(<<P(fs, FALSE, rel, n)>>))>>

Formats == {[Machine EXCEPT !.drives = Partition({"LBA"}, s[1], 63, s[2])] : s \in Sizes}

(* Two sectors short of the end of a track; partitions that end at and after cylinder 1023;
   buffers at, just below and far from the end of a page, below and above A000h *)
Requests ==
  {[unit |-> 3, mode |-> mode, start |-> start, n |-> n, addr |-> addr] :
     mode \in {"read", "write"}, start \in {0, 61, 124, 29998, 30000}, n \in {1, 2, 4},
     addr \in {65536 - 1024, 65536 - 1280, 65536 - 100, 131072, Top - 1024, Top + 16}}

(* The unit has been read before: its flags are set by a media check. *)
Transfers ==
  {[Machine EXCEPT !.drives = Partition(d, fs, rel, 30001), !.io = Requests,
                   !.ops = {"access"}, !.max = 2] :
     d \in {{}, {"LBA"}, {"LBA", "DMA"}}, fs \in {"fat16", "fat16lba"}, rel \in {63, 1024 * Cyl - 30001}}

Floppy(line, ops, max, kinds) ==
  [Machine EXCEPT !.changeline = line, !.ops = ops, !.max = max,
                  !.disks = [d \in {"d1", "d2", "d3"} |-> [kind |-> kinds[d], serial |-> d]]]

Swaps == {Floppy(line, ops[1], ops[2], kinds) :
            line \in BOOLEAN,
            ops \in {<<{"media"}, 5>>, <<{"media", "ioctl", "logical"}, 4>>},
            kinds \in {[d1 |-> "dos", d2 |-> "dos", d3 |-> x] : x \in {"dos", "blank", "zero"}}}

(* The same with transfers, in and out of range, by either letter *)
Reads == {[s EXCEPT !.max = 4, !.floppies = f,
                    !.io = {[unit |-> u, mode |-> "read", start |-> n, n |-> 1, addr |-> 131072] :
                              u \in {1, 2}, n \in {0, 2880}}] :
            s \in {x \in Swaps : x.ops = {"media"}}, f \in {1, 2}}

MCSetups == Letters \cup Formats \cup Transfers \cup Swaps \cup Reads
=============================================================================
