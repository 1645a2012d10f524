----------------------------- MODULE DiskProofs -----------------------------
(* The letters found at start-up name sectors the driver can reach, and its transfers move what *)
(* they are asked for, in calls the BIOS can do.                                                *)
EXTENDS Disk, WellFoundedInduction, TLAPS

-----------------------------------------------------------------------------
(* Division *)

(* What a quotient and a remainder are. *)
LEMMA Quotient ==
  ASSUME NEW a \in Int, NEW k \in Nat \ {0}
  PROVE  /\ a \div k \in Int /\ a % k \in 0 .. k - 1
         /\ a = k * (a \div k) + (a % k)
OBVIOUS

(* There is no other quotient. *)
LEMMA OneQuotient ==
  ASSUME NEW a \in Int, NEW k \in Nat \ {0}, NEW q \in Int, k * q <= a, a < k * q + k
  PROVE  a \div k = q
OBVIOUS

(* A larger number has no smaller quotient. *)
LEMMA QuotientGrows ==
  ASSUME NEW a \in Int, NEW b \in Int, NEW k \in Nat \ {0}, a <= b
  PROVE  a \div k <= b \div k
OBVIOUS

(* Sectors that do not go past the end of a track are on one track. *)
LEMMA OneTrack ==
  ASSUME NEW a \in Nat, NEW n \in Nat, NEW k \in Nat \ {0}, n > 0, n <= k - (a % k)
  PROVE  a \div k = (a + n - 1) \div k
OBVIOUS

(* What is divided by 512 or more fits when it is multiplied by 512. *)
LEMMA FitsAgain ==
  ASSUME NEW x \in Nat, NEW m \in Nat, m >= 512
  PROVE  x \div m \in Nat /\ 512 * (x \div m) <= x
OBVIOUS

-----------------------------------------------------------------------------
(* The invariant *)

Passes == {"boot", "primary", "ext", "primary2"}

(* What dsk_init makes: units whose sectors are in reach *)
Marks == {"LBA", "DMA", "MULTLOG", "CURLOG", "CHANGELINE", "FIXED", "NOACCESS"}
Kinds == {"floppy", "fat12", "fat16", "fat32", "fat12lba", "fat16lba", "fat32lba"}

NewUnits == [drive : Int, log : Int, flags : SUBSET Marks, offset : Nat, def : Geometries, fs : Kinds,
             serial : {"default"}, bpb : {"default"}, last : {"never"}]

Reach(d) == "LBA" \notin d.flags => Cylinder(d.def, d.offset + d.def.size - 1) <= MaxCyl

(* Where no letter is masked out, the floppies' units come first and all others are hard disks. *)
IsHard(d) == "FIXED" \in d.flags /\ "MULTLOG" \notin d.flags

Homes(D) ==
  setup.mask = {} =>
    /\ {1, 2} \subseteq DOMAIN D /\ D[1] = Floppies(setup)[1] /\ D[2] = Floppies(setup)[2]
    /\ \A u \in DOMAIN D \ {1, 2} : IsHard(D[u])

Lettered(D) == D \in Seq(NewUnits) /\ Len(D) <= NDEV /\ Homes(D)

Fields == {"drive", "log", "flags", "offset", "def", "fs", "serial", "bpb", "last"}

IsUnit(d) == DOMAIN d = Fields /\ d.offset \in Nat /\ d.def \in Geometries /\ Reach(d)

UnitsOk(D) == \A u \in DOMAIN D : IsUnit(D[u])

IsScan(x) == /\ DOMAIN x = {"type", "drive", "ignore", "sector", "base", "nr", "lba"}
             /\ x.drive \in Drives /\ x.sector \in Nat /\ x.base \in Nat

BootInv ==
  /\ setup \in Setups
  /\ todo \in Seq(Passes \X Drives)
  /\ scan = NoScan \/ IsScan(scan)
  /\ ~Booted => Lettered(ddt)

(* A BIOS call on unit d; the properties speak of the last one of a transfer. *)
CallFits(c, d) ==
  LET last == c.lba + c.n - 1
  IN /\ c.n \in Nat /\ c.n > 0 /\ c.lba >= d.offset /\ last < d.offset + d.def.size
     /\ c.bounced => c.n = 1
     /\ ~c.bounced => /\ c.addr < Top
                      /\ "DMA" \in d.flags \/ c.addr \div 65536 = (c.addr + Secsize * c.n - 1) \div 65536
     /\ "LBA" \in d.flags \/ c.lba \div d.def.secs = last \div d.def.secs

IsRequest(r) == r.unit \in DOMAIN ddt /\ r.start \in Nat /\ r.n \in Nat /\ r.addr \in Nat

(* How much of a transfer is done, and how much a failed call may have done beyond that *)
Done(x)  == x.req.n - x.left
Tried(x) == IF x.tries > 0 THEN x.call[1].n ELSE 0

Moved(x, base) ==
  /\ Pairs(base, x.req.addr, Done(x)) \subseteq x.moved
  /\ x.moved \subseteq Pairs(base, x.req.addr, Done(x) + Tried(x))

Retries(x) ==
  x.tries > 0 => x.left > 0 /\ x.call # <<>> /\ x.call[1].n = Piece(x.req.unit, x.lba, x.addr, x.left)

Transferring(x) ==
  /\ DOMAIN x = {"phase", "req", "lba", "left", "addr", "tries", "call", "moved"}
  /\ IsRequest(x.req) /\ x.req.start + x.req.n <= size(x.req.unit)
  /\ x.left \in 0 .. x.req.n /\ x.tries \in Nat
  /\ x.lba = x.req.start + ddt[x.req.unit].offset + Done(x)
  /\ x.addr = x.req.addr + Secsize * Done(x)
  /\ x.call = <<>> \/ \E c : x.call = <<c>> /\ CallFits(c, ddt[x.req.unit])
  /\ Retries(x)
  /\ Moved(x, x.req.start + ddt[x.req.unit].offset)

DiskInv ==
  /\ BootInv
  /\ UnitsOk(ddt)
  /\ io = Idle \/ (Booted /\ Transferring(io))

-----------------------------------------------------------------------------
(* Letters *)

(* A set of naturals has a lowest member. *)
LEMMA LeastOf ==
  ASSUME NEW S, S \subseteq Nat, S # {}
  PROVE  \E i \in S : \A j \in S : i <= j
<1> DEFINE R == {ss \in Nat \X Nat : ss[1] < ss[2]}
<1>1. IsWellFoundedOn(R, Nat)
  BY NatLessThanWellFounded DEF OpToRel
<1>2. PICK i \in S : \A j \in S : <<j, i>> \notin R
  <2> HIDE DEF R
  <2> QED  BY <1>1, WFMin
<1>3. ASSUME NEW j \in S
      PROVE  i <= j
  <2>1. <<j, i>> \in Nat \X Nat /\ <<j, i>> \notin R
    BY <1>2
  <2>2. ~(j < i)
    BY <2>1
  <2>3. QED
    BY <2>2
<1>4. QED
  BY <1>3

(* The next letter is not one of those given, and is within the limit. *)
LEMMA NextLetterIs ==
  ASSUME NEW D, Len(D) \in Nat, Len(D) <= NDEV
  PROVE  NextLetter(D) \in Len(D) .. NDEV /\ (setup.mask = {} => NextLetter(D) = Len(D))
<1> DEFINE S == {k \in Len(D) .. NDEV : k = NDEV \/ k \notin setup.mask}
<1>1. NDEV \in Nat
  BY InitDiskAssumption
<1>2. NDEV \in S /\ S \subseteq Nat
  BY <1>1
<1>3. PICK k \in S : \A j \in S : k <= j
  <2> HIDE DEF S
  <2> QED  BY <1>2, LeastOf
<1>4. \A i \in Len(D) .. k - 1 : i \in setup.mask
  BY <1>1, <1>3
<1> DEFINE Good(j) == (j = NDEV \/ j \notin setup.mask) /\ \A i \in Len(D) .. j - 1 : i \in setup.mask
           n == NextLetter(D)
<1>5. n \in Len(D) .. NDEV /\ Good(n)
  BY <1>3, <1>4 DEF NextLetter
<1> HIDE DEF n
<1>6. setup.mask = {} => n = Len(D)
  <2>1. n > Len(D) => Len(D) \in Len(D) .. n - 1
    BY <1>1, <1>5
  <2>2. QED
    BY <1>1, <1>5, <2>1
<1>7. QED
  BY <1>5, <1>6 DEF n

(* What is known of a setup *)
LEMMA SetupFacts ==
  ASSUME NEW s \in Setups
  PROVE  /\ s.fdef \in Geometries
         /\ s.fdef.size <= 1024 * (s.fdef.heads * s.fdef.secs)
         /\ Len(s.drives) \in Nat /\ DOMAIN s.drives = 1 .. Len(s.drives)
         /\ \A d \in DOMAIN s.drives : IsDrive(s.drives[d])
BY InitDiskAssumption DEF IsMachine

(* A floppy unit *)
LEMMA FloppyUnit ==
  ASSUME NEW s \in Setups, NEW log \in Int, NEW d \in Int, NEW flags \in SUBSET Marks
  PROVE  make_ddt(s, log, d, flags) \in NewUnits /\ IsUnit(make_ddt(s, log, d, flags))
<1> DEFINE m == make_ddt(s, log, d, flags)
           f == s.fdef
           k == f.heads * f.secs
<1>1. f \in Geometries /\ f.size <= 1024 * k
  BY SetupFacts
<1>2. k \in Nat \ {0} /\ f.size \in Nat
  BY <1>1 DEF Geometries
<1>3. (0 + f.size - 1) \div k <= 1023
  <2> DEFINE w == 1024 * k - 1
             z == 0 + f.size - 1
  <2> HIDE DEF k
  <2>1. z <= w /\ z \in Int /\ w \in Int /\ k * 1023 <= w /\ w < k * 1023 + k
    BY <1>1, <1>2
  <2> HIDE DEF w, z
  <2>2. w \div k = 1023
    BY <1>2, <2>1, OneQuotient
  <2>3. z \div k <= w \div k
    BY <1>2, <2>1, QuotientGrows
  <2>4. w \div k \in Int /\ z \div k \in Int
    BY <1>2, <2>1, Quotient
  <2>5. z \div k <= 1023
    BY <2>2, <2>3, <2>4
  <2>6. QED
    BY <2>5 DEF z
<1>4. m.offset = 0 /\ m.def = f /\ DOMAIN m = Fields
  BY DEF make_ddt, Unit, Fields
<1>5. Reach(m)
  BY <1>3, <1>4 DEF Reach, Cylinder, MaxCyl
<1>6. m \in NewUnits
  <2>1. flags \cup (IF s.changeline THEN {"CHANGELINE"} ELSE {}) \in SUBSET Marks
    BY DEF Marks
  <2>2. QED
    BY <1>1, <2>1 DEF make_ddt, Unit, NewUnits, Kinds
<1>7. QED
  BY <1>1, <1>4, <1>5, <1>6 DEF IsUnit

(* The first units *)
LEMMA FirstUnits ==
  ASSUME NEW s \in Setups, s = setup
  PROVE  Lettered(Floppies(s)) /\ UnitsOk(Floppies(s))
<1> DEFINE a == IF s.floppies = 1 THEN {"MULTLOG", "CURLOG"} ELSE {}
           b == IF s.floppies = 1 THEN {"MULTLOG"} ELSE {}
           e == IF s.floppies = 1 THEN 0 ELSE 1
           x == make_ddt(s, 0, 0, a)
           y == make_ddt(s, 1, e, b)
<1>1. a \in SUBSET Marks /\ b \in SUBSET Marks /\ e \in Int
  BY DEF Marks
<1>2. Floppies(s) = <<x, y>>
  BY DEF Floppies
<1> HIDE DEF a, b, e
<1>3. x \in NewUnits /\ IsUnit(x) /\ y \in NewUnits /\ IsUnit(y)
  BY <1>1, FloppyUnit
<1>4. NDEV \in Nat /\ NDEV > 2
  BY InitDiskAssumption
<1> HIDE DEF x, y
<1>5. Lettered(<<x, y>>)
  <2>1. Homes(<<x, y>>)
    BY <1>2 DEF Homes
  <2>2. QED
    BY <1>3, <1>4, <2>1 DEF Lettered
<1>6. UnitsOk(<<x, y>>)
  BY <1>3 DEF UnitsOk
<1>7. QED
  BY <1>2, <1>5, <1>6

(* Units put behind others *)
LEMMA MoreUnits ==
  ASSUME NEW D, NEW E, Lettered(D), UnitsOk(D), E \in Seq(NewUnits), UnitsOk(E), Len(D) + Len(E) <= NDEV,
         setup.mask = {} => \A i \in DOMAIN E : IsHard(E[i])
  PROVE  Lettered(D \o E) /\ UnitsOk(D \o E)
<1>1. D \in Seq(NewUnits)
  BY DEF Lettered
<1>2. D \o E \in Seq(NewUnits) /\ Len(D \o E) = Len(D) + Len(E)
  BY <1>1
<1>3. ASSUME NEW i \in DOMAIN (D \o E)
      PROVE  IsUnit((D \o E)[i])
  <2>1. i \in 1 .. Len(D) + Len(E)
    BY <1>1, <1>2
  <2>2. CASE i <= Len(D)
    BY <1>1, <2>1, <2>2 DEF UnitsOk
  <2>3. CASE i > Len(D)
    <3>1. (D \o E)[i] = E[i - Len(D)] /\ i - Len(D) \in DOMAIN E
      BY <1>1, <2>1, <2>3
    <3>2. QED
      BY <3>1 DEF UnitsOk
  <2>4. QED
    BY <1>1, <2>1, <2>2, <2>3
<1>4. ASSUME setup.mask = {}
      PROVE  Homes(D \o E)
  <2>1. {1, 2} \subseteq DOMAIN D /\ D[1] = Floppies(setup)[1] /\ D[2] = Floppies(setup)[2]
        /\ \A u \in DOMAIN D \ {1, 2} : IsHard(D[u])
    BY <1>4 DEF Lettered, Homes
  <2>2. DOMAIN D = 1 .. Len(D) /\ DOMAIN (D \o E) = 1 .. Len(D) + Len(E) /\ Len(D) \in Nat /\ Len(E) \in Nat
    BY <1>1
  <2>3. (D \o E)[1] = D[1] /\ (D \o E)[2] = D[2] /\ {1, 2} \subseteq DOMAIN (D \o E)
    BY <1>1, <2>1, <2>2
  <2>4. ASSUME NEW u \in DOMAIN (D \o E) \ {1, 2}
        PROVE  IsHard((D \o E)[u])
    <3>1. CASE u <= Len(D)
      <4>1. u \in DOMAIN D \ {1, 2} /\ (D \o E)[u] = D[u]
        BY <1>1, <2>2, <3>1
      <4>2. QED
        BY <2>1, <4>1
    <3>2. CASE u > Len(D)
      <4>1. (D \o E)[u] = E[u - Len(D)] /\ u - Len(D) \in DOMAIN E
        BY <1>1, <2>2, <3>2
      <4>2. QED
        BY <1>4, <4>1
    <3>3. QED
      BY <2>2, <3>1, <3>2
  <2>5. QED
    BY <2>1, <2>3, <2>4 DEF Homes
<1>5. QED
  BY <1>2, <1>3, <1>4 DEF Lettered, UnitsOk, Homes

(* The units that mask out letters *)
LEMMA HolesOk ==
  ASSUME NEW S, S = setup, S \in Setups, NEW n \in Nat, NEW l \in Nat
  PROVE  LET E == [i \in 1 .. n |-> Masked(l + i - 1)]
         IN E \in Seq(NewUnits) /\ Len(E) = n /\ UnitsOk(E)
<1> DEFINE E == [i \in 1 .. n |-> Masked(l + i - 1)]
<1>1. {"NOACCESS"} \in SUBSET Marks
  BY DEF Marks
<1>2. ASSUME NEW i \in 1 .. n
      PROVE  Masked(l + i - 1) \in NewUnits /\ IsUnit(Masked(l + i - 1))
  <2> DEFINE k == l + i - 1
  <2>1. k \in Int
    OBVIOUS
  <2> HIDE DEF k
  <2>2. make_ddt(S, k, 0, {"NOACCESS"}) \in NewUnits /\ IsUnit(make_ddt(S, k, 0, {"NOACCESS"}))
    BY <1>1, <2>1, FloppyUnit
  <2>3. Masked(k) \in NewUnits /\ IsUnit(Masked(k))
    BY <2>2 DEF Masked
  <2>4. QED
    BY <2>3 DEF k
<1>3. E \in Seq(NewUnits) /\ Len(E) = n /\ DOMAIN E = 1 .. n
  <2>1. E \in [1 .. n -> NewUnits]
    BY <1>2
  <2> HIDE DEF E
  <2>2. QED
    BY <2>1
<1>4. UnitsOk(E)
  BY <1>2, <1>3 DEF UnitsOk
<1>5. QED
  BY <1>3, <1>4

(* The unit of a partition that is defined for the driver to reach *)
LEMMA PartitionUnit ==
  ASSUME NEW p, IsDrive(p), NEW d \in Int, NEW n \in Int, NEW flags \in SUBSET Marks, NEW start \in Nat,
         NEW num \in Nat, NEW fs \in Kinds,
         "LBA" \notin flags => Cylinder(p, start + num - 1) <= MaxCyl
  PROVE  LET u == Unit(d, n, flags, start, [size |-> num, heads |-> p.heads, secs |-> p.secs], fs)
         IN u \in NewUnits /\ IsUnit(u)
<1> DEFINE f == [size |-> num, heads |-> p.heads, secs |-> p.secs]
           u == Unit(d, n, flags, start, f, fs)
<1>1. f \in Geometries
  BY DEF IsDrive, Geometries
<1>2. Cylinder(f, start + num - 1) = Cylinder(p, start + num - 1)
  BY DEF Cylinder
<1>3. f.size = num
  OBVIOUS
<1> HIDE DEF f
<1>4. u \in NewUnits
  BY <1>1 DEF Unit, NewUnits
<1>5. u.flags = flags /\ u.offset = start /\ u.def = f /\ DOMAIN u = Fields
  BY DEF Unit, Fields
<1>6. Reach(u)
  BY <1>2, <1>3, <1>5 DEF Reach
<1>7. IsUnit(u)
  BY <1>1, <1>5, <1>6 DEF IsUnit
<1>8. QED
  BY <1>4, <1>7 DEF f

(* A partition gets the next letter, and the letters before it are kept. *)
LEMMA DefinedOk ==
  ASSUME NEW S, S = setup, S \in Setups, NEW D, Lettered(D), UnitsOk(D), NEW d \in Drives,
         NEW start \in Nat, NEW num \in Nat, NEW fs \in Kinds, NEW force,
         ~("LBA" \in S.drives[d].desc /\ (force \/ IsLBAPartition(fs))) =>
           Cylinder(S.drives[d], start + num - 1) <= MaxCyl
  PROVE  Lettered(DosDefinePartition(D, d, start, num, fs, force))
         /\ UnitsOk(DosDefinePartition(D, d, start, num, fs, force))
<1> DEFINE p     == setup.drives[d]
           n     == NextLetter(D)
           E     == [i \in 1 .. n - Len(D) |-> Masked(Len(D) + i - 1)]
           flags == (IF force \/ IsLBAPartition(fs) THEN p.desc ELSE p.desc \ {"LBA"})
                      \cup {"FIXED", "NOACCESS"}
           u     == Unit(127 + d, n, flags, start, [size |-> num, heads |-> p.heads, secs |-> p.secs], fs)
<1>1. D \in Seq(NewUnits) /\ Len(D) \in Nat /\ Len(D) <= NDEV /\ NDEV \in Nat
  BY InitDiskAssumption DEF Lettered
<1>2. n \in Len(D) .. NDEV /\ n \in Int /\ (setup.mask = {} => n = Len(D))
  BY <1>1, NextLetterIs
<1>3. E \in Seq(NewUnits) /\ Len(E) = n - Len(D) /\ UnitsOk(E)
  <2> DEFINE m == n - Len(D)
             l == Len(D)
  <2>1. m \in Nat /\ l \in Nat
    BY <1>1, <1>2
  <2> HIDE DEF n, m, l
  <2>2. LET F == [i \in 1 .. m |-> Masked(l + i - 1)]
        IN F \in Seq(NewUnits) /\ Len(F) = m /\ UnitsOk(F)
    BY <2>1, HolesOk
  <2>3. QED
    BY <2>2 DEF m, l
<1>4. d \in Int /\ IsDrive(p)
  BY SetupFacts DEF Drives
<1>5. u \in NewUnits /\ IsUnit(u)
  <2>1. flags \in SUBSET Marks
    BY <1>4 DEF IsDrive, Marks
  <2>2. "LBA" \notin flags => Cylinder(p, start + num - 1) <= MaxCyl
    OBVIOUS
  <2>3. 127 + d \in Int
    BY <1>4
  <2> HIDE DEF flags, n, p
  <2>4. QED
    BY <1>2, <1>4, <2>1, <2>2, <2>3, PartitionUnit
<1>11. IsHard(u)
  BY <1>4 DEF IsHard, Unit, IsDrive
<1> HIDE DEF n, E, u
<1>6. Lettered(D \o E) /\ UnitsOk(D \o E)
  <2>1. setup.mask = {} => Len(E) = 0
    BY <1>1, <1>2, <1>3
  <2>2. setup.mask = {} => \A i \in DOMAIN E : IsHard(E[i])
    BY <1>3, <2>1
  <2>3. Len(D) + Len(E) <= NDEV
    BY <1>1, <1>2, <1>3
  <2>4. QED
    BY <1>1, <1>3, <2>2, <2>3, MoreUnits
<1>7. DosDefinePartition(D, d, start, num, fs, force) = IF n = NDEV THEN D \o E ELSE D \o E \o <<u>>
  BY DEF DosDefinePartition, n, E, u
<1>8. CASE n = NDEV
  BY <1>6, <1>7, <1>8
<1>9. CASE n # NDEV
  <2>1. <<u>> \in Seq(NewUnits) /\ Len(<<u>>) = 1 /\ UnitsOk(<<u>>)
    BY <1>5 DEF UnitsOk
  <2>2. Len(D \o E) = n
    BY <1>1, <1>2, <1>3
  <2>3. Len(D \o E) + Len(<<u>>) <= NDEV
    BY <1>1, <1>2, <1>9, <2>1, <2>2
  <2>4. Lettered(D \o E \o <<u>>) /\ UnitsOk(D \o E \o <<u>>)
    <3> DEFINE F == D \o E
               G == <<u>>
    <3>1. \A i \in DOMAIN G : IsHard(G[i])
      BY <1>11
    <3>2. Lettered(F) /\ UnitsOk(F) /\ G \in Seq(NewUnits) /\ UnitsOk(G) /\ Len(F) + Len(G) <= NDEV
      BY <1>6, <2>1, <2>3
    <3> HIDE DEF F, G
    <3>3. Lettered(F \o G) /\ UnitsOk(F \o G)
      BY <3>1, <3>2, MoreUnits
    <3>4. QED
      BY <3>3 DEF F, G
  <2>5. QED
    BY <1>7, <1>9, <2>4
<1>10. QED
  BY <1>8, <1>9

(* An entry of a table that can be used is defined so that its sectors are in reach. *)
LEMMA EntryOk ==
  ASSUME NEW S, S = setup, S \in Setups, NEW acc, Lettered(acc.units), UnitsOk(acc.units), NEW d \in Drives,
         NEW type, NEW e, IsEntry(e), NEW i, NEW from \in Nat, NEW force
  PROVE  LET r == DefineEntry(acc, d, type, e, i, from, force)
         IN Lettered(r.units) /\ UnitsOk(r.units)
<1> DEFINE p  == setup.drives[d]
           fs == IF Beyond(p, from, e) /\ ~force THEN AsLba(e.fs) ELSE e.fs
           W  == DosDefinePartition(acc.units, d, from, e.num, fs, force)
           r  == DefineEntry(acc, d, type, e, i, from, force)
<1>1. CASE r = acc
  BY <1>1
<1>2. CASE r # acc
  <2>1. Acceptable(p, from, e) /\ r.units = W
    BY <1>2 DEF DefineEntry
  <2>2. fs \in Kinds
    BY <2>1 DEF Acceptable, IsFATPartition, AsLba, Kinds
  <2>3. ~("LBA" \in p.desc /\ (force \/ IsLBAPartition(fs))) => Cylinder(p, from + e.num - 1) <= MaxCyl
    <3>1. CASE Beyond(p, from, e)
      <4>1. "LBA" \in p.desc
        BY <2>1, <3>1 DEF Acceptable
      <4>2. IsLBAPartition(AsLba(e.fs))
        BY DEF AsLba, IsLBAPartition
      <4>3. QED
        BY <3>1, <4>1, <4>2
    <3>2. CASE ~Beyond(p, from, e)
      <4>1. ~(Cylinder(p, from + e.num - 1) > MaxCyl)
        BY <3>2 DEF Beyond
      <4>2. Cylinder(p, from + e.num - 1) \in Int
        <5>1. IsDrive(p) /\ e.num \in Nat
          BY SetupFacts DEF Drives, IsEntry
        <5>2. p.heads * p.secs \in Nat \ {0} /\ from + e.num - 1 \in Int
          BY <5>1 DEF IsDrive
        <5>3. QED
          BY <5>2, Quotient DEF Cylinder
      <4>3. QED
        BY <4>1, <4>2 DEF MaxCyl
    <3>3. QED
      BY <3>1, <3>2
  <2>4. e.num \in Nat
    BY DEF IsEntry
  <2> HIDE DEF fs, p
  <2>5. Lettered(W) /\ UnitsOk(W)
    BY <2>2, <2>3, <2>4, DefinedOk DEF p
  <2>6. QED
    BY <2>1, <2>5
<1>3. QED
  BY <1>1, <1>2

(* A table is scanned. *)
LEMMA ScanOk ==
  ASSUME NEW S, S = setup, S \in Setups, Lettered(ddt), UnitsOk(ddt), NEW d \in Drives, NEW type,
         NEW x \in DOMAIN setup.drives[d].tables, NEW start \in Nat, NEW ignore, NEW force
  PROVE  LET r == ScanForPrimaryPartitions(d, type, setup.drives[d].tables[x], start, ignore, force)
         IN Lettered(r.units) /\ UnitsOk(r.units)
<1> DEFINE table == setup.drives[d].tables[x]
           Entry(acc, i) == DefineEntry(acc, d, type, table[i], i, start + table[i].rel, force)
           none == [ignore |-> ignore, units |-> ddt, stop |-> FALSE]
           Ok(acc) == Lettered(acc.units) /\ UnitsOk(acc.units)
<1>1. \A i \in 1 .. 4 : IsEntry(table[i])
  BY SetupFacts DEF Drives, IsDrive
<1>2. ASSUME NEW acc, Ok(acc), NEW i \in 1 .. 4
      PROVE  Ok(Entry(acc, i))
  <2>1. IsEntry(table[i]) /\ start + table[i].rel \in Nat
    BY <1>1 DEF IsEntry
  <2> DEFINE e == table[i]
             from == start + e.rel
  <2> HIDE DEF e, table
  <2>2. IsEntry(e) /\ from \in Nat
    BY <2>1 DEF e
  <2> HIDE DEF from
  <2>3. Ok(DefineEntry(acc, d, type, e, i, from, force))
    BY <1>2, <2>2, EntryOk
  <2>4. QED
    BY <2>3 DEF e, from
<1>3. Ok(none)
  OBVIOUS
<1> HIDE DEF Ok, Entry, none
<1>4. Ok(Entry(none, 1))
  BY <1>2, <1>3
<1>5. Ok(Entry(Entry(none, 1), 2))
  BY <1>2, <1>4
<1>6. Ok(Entry(Entry(Entry(none, 1), 2), 3))
  BY <1>2, <1>5
<1>7. Ok(Entry(Entry(Entry(Entry(none, 1), 2), 3), 4))
  BY <1>2, <1>6
<1>8. ScanForPrimaryPartitions(d, type, table, start, ignore, force) = Entry(Entry(Entry(Entry(none, 1), 2), 3), 4)
  BY DEF ScanForPrimaryPartitions, Entry, none
<1>9. QED
  BY <1>7, <1>8 DEF Ok

(* The entry of an extended partition is one of the table. *)
LEMMA FirstExtIs ==
  ASSUME NEW table, Len(table) = 4
  PROVE  FirstExt(table) \in 0 .. 4
<1> DEFINE I == {i \in 1 .. Len(table) : IsExtPartition(table[i].fs)}
<1>1. FirstExt(table) = IF I # {} THEN Min(I) ELSE 0
  BY DEF FirstExt, SelectInSeq
<1>2. I \subseteq Nat /\ I \subseteq 1 .. 4
  OBVIOUS
<1>3. ASSUME I # {}
      PROVE  Min(I) \in I
  <2> HIDE DEF I
  <2>1. PICK i \in I : \A j \in I : i <= j
    BY <1>2, <1>3, LeastOf
  <2>2. QED
    BY <2>1 DEF Min
<1> HIDE DEF I
<1>4. CASE I = {}
  BY <1>1, <1>4
<1>5. CASE I # {}
  <2>1. Min(I) \in 1 .. 4
    BY <1>2, <1>3, <1>5
  <2>2. FirstExt(table) = Min(I)
    BY <1>1, <1>5
  <2>3. QED
    BY <2>1, <2>2
<1>6. QED
  BY <1>4, <1>5

-----------------------------------------------------------------------------
(* The scans *)

(* Calls for each drive in turn are for drives there are. *)
LEMMA EachDriveIs ==
  ASSUME NEW n \in Nat, NEW T \in {<<"boot", "primary">>, <<"boot", "primary", "ext", "primary2">>}
  PROVE  EachDrive(n, T) \in Seq(Passes \X (1 .. n))
<1> DEFINE k == Len(T)
<1>1. k \in {2, 4} /\ \A j \in 1 .. k : T[j] \in Passes
  BY DEF Passes
<1>2. ASSUME NEW i \in 1 .. n * k
      PROVE  <<T[((i - 1) % k) + 1], ((i - 1) \div k) + 1>> \in Passes \X (1 .. n)
  <2> HIDE DEF k
  <2>1. ((i - 1) % k) + 1 \in 1 .. k
    BY <1>1
  <2>2. ((i - 1) \div k) + 1 \in 1 .. n
    BY <1>1
  <2>3. QED
    BY <1>1, <2>1, <2>2
<1>3. n * k \in Nat
  BY <1>1
<1>4. EachDrive(n, T) = [i \in 1 .. n * k |-> <<T[((i - 1) % k) + 1], ((i - 1) \div k) + 1>>]
  BY DEF EachDrive
<1> HIDE DEF k
<1>5. EachDrive(n, T) \in [1 .. n * k -> Passes \X (1 .. n)]
  BY <1>2, <1>4
<1>6. QED
  BY <1>3, <1>5

(* All calls of the start-up are. *)
LEMMA CallsAre ==
  ASSUME NEW s \in Setups
  PROVE  Calls(s) \in Seq(Passes \X DOMAIN s.drives)
<1> DEFINE n == Len(s.drives)
           P == Passes \X (1 .. n)
           first == IF s.bootdrv \in 1 .. n /\ s.drives[s.bootdrv].ok THEN <<<<"boot", s.bootdrv>>>> ELSE <<>>
<1>1. n \in Nat /\ DOMAIN s.drives = 1 .. n
  BY SetupFacts
<1>2. EachDrive(n, <<"boot", "primary">>) \in Seq(P)
      /\ EachDrive(n, <<"boot", "primary", "ext", "primary2">>) \in Seq(P)
  <2> HIDE DEF n
  <2>1. QED
    BY <1>1, EachDriveIs
<1>3. Rest(n) \in Seq(P)
  <2> DEFINE x == [d \in 1 .. n |-> <<"ext", d>>]
             y == [d \in 1 .. n |-> <<"primary2", d>>]
  <2> HIDE DEF n
  <2>1. x \in [1 .. n -> P] /\ y \in [1 .. n -> P]
    BY DEF Passes
  <2>2. Rest(n) = x \o y
    BY DEF Rest
  <2> HIDE DEF x, y, P
  <2>3. x \in Seq(P) /\ y \in Seq(P)
    BY <1>1, <2>1
  <2>4. QED
    BY <2>2, <2>3
<1>4. first \in Seq(P)
  <2>1. ASSUME s.bootdrv \in 1 .. n
        PROVE  <<"boot", s.bootdrv>> \in P
    BY <2>1 DEF Passes
  <2> HIDE DEF P, n
  <2>2. QED
    BY <2>1
<1>5. Calls(s) = IF ~s.sorted THEN EachDrive(n, <<"boot", "primary">>) \o Rest(n)
                 ELSE first \o EachDrive(n, <<"boot", "primary", "ext", "primary2">>)
  BY DEF Calls
<1> HIDE DEF P, n, first
<1>6. Calls(s) \in Seq(P)
  BY <1>2, <1>3, <1>4, <1>5
<1>7. QED
  BY <1>1, <1>6 DEF P

(* The start-up begins with units for the floppies. *)
LEMMA BootStarts ==
  ASSUME DiskInit
  PROVE  DiskInv
<1>1. setup \in Setups /\ ddt = Floppies(setup) /\ todo = Calls(setup) /\ scan = NoScan /\ io = Idle
  BY DEF DiskInit, InitDiskInit
<1>2. Lettered(ddt) /\ UnitsOk(ddt)
  BY <1>1, FirstUnits
<1>3. todo \in Seq(Passes \X Drives)
  BY <1>1, CallsAre DEF Drives
<1>4. QED
  BY <1>1, <1>2, <1>3 DEF DiskInv, BootInv

(* A call of ProcessDisk begins. *)
LEMMA ProcessKeeps ==
  ASSUME BootInv, UnitsOk(ddt), ProcessDisk
  PROVE  BootInv' /\ UnitsOk(ddt)' /\ Lettered(ddt)'
<1> DEFINE type == todo[1][1]
           d == todo[1][2]
<1>1. /\ scan = NoScan /\ todo # <<>> /\ todo' = Tail(todo) /\ setup' = setup /\ ddt' = ddt
      /\ \/ scan' = NoScan
         \/ scan' = [type |-> type, drive |-> d, ignore |-> PartitionsToIgnore(type, d),
                     sector |-> 0, base |-> 0, nr |-> 0, lba |-> FALSE]
  BY DEF ProcessDisk
<1>2. todo \in Seq(Passes \X Drives) /\ setup \in Setups /\ Lettered(ddt)
  BY <1>1 DEF BootInv, Booted
<1>3. todo[1] \in Passes \X Drives /\ Tail(todo) \in Seq(Passes \X Drives)
  BY <1>1, <1>2
<1>4. d \in Drives
  BY <1>3
<1>5. scan' = NoScan \/ IsScan(scan')
  <2> HIDE DEF d, type
  <2>1. QED
    BY <1>1, <1>4 DEF IsScan
<1>6. Drives' = Drives
  BY <1>1 DEF Drives
<1>7. BootInv'
  BY <1>1, <1>2, <1>3, <1>5, <1>6 DEF BootInv, IsScan, Lettered, Homes
<1>8. QED
  BY <1>1, <1>2, <1>7 DEF UnitsOk, Lettered, Homes

(* A call that goes on or returns *)
LEMMA ScanGoesOn ==
  ASSUME BootInv, scan # NoScan, UNCHANGED <<setup, todo>>, Lettered(ddt') /\ UnitsOk(ddt'),
         scan' = NoScan \/ IsScan(scan')
  PROVE  BootInv' /\ UnitsOk(ddt)' /\ Lettered(ddt)'
<1>1. Drives' = Drives
  BY DEF Drives
<1>2. QED
  BY <1>1 DEF BootInv, Lettered, UnitsOk, IsScan, Homes

(* A table that cannot be read ends the call. *)
LEMMA UnreadableKeeps ==
  ASSUME BootInv, UnitsOk(ddt), TableUnreadable
  PROVE  BootInv' /\ UnitsOk(ddt)' /\ Lettered(ddt)'
<1>1. scan # NoScan /\ scan' = NoScan /\ UNCHANGED <<setup, ddt, todo>>
  BY DEF TableUnreadable, Return
<1>2. Lettered(ddt) /\ UnitsOk(ddt)
  BY <1>1 DEF BootInv, Booted
<1>3. QED
  BY <1>1, <1>2, ScanGoesOn

(* A table that is read defines its partitions and leads to the next one. *)
LEMMA ReadKeeps ==
  ASSUME BootInv, UnitsOk(ddt), TableRead
  PROVE  BootInv' /\ UnitsOk(ddt)' /\ Lettered(ddt)'
<1> DEFINE p == setup.drives[scan.drive]
           table == p.tables[scan.sector]
<1>1. scan # NoScan /\ UNCHANGED <<setup, todo>>
  BY DEF TableRead
<1>2. Lettered(ddt) /\ UnitsOk(ddt) /\ IsScan(scan) /\ setup \in Setups
  BY <1>1 DEF BootInv, Booted
<1>3. scan.drive \in Drives /\ scan.sector \in Nat /\ scan.base \in Nat
  BY <1>2 DEF IsScan
<1>4. CASE scan.sector \notin DOMAIN p.tables
  <2>1. scan' = NoScan /\ ddt' = ddt
    BY <1>4 DEF TableRead, Return
  <2>2. QED
    BY <1>1, <1>2, <2>1, ScanGoesOn
<1>5. CASE scan.sector \in DOMAIN p.tables
  <2>1. /\ ddt' = Partitions(p).units
        /\ \/ scan' = NoScan
           \/ FirstExt(table) # 0 /\ FollowExtended(table, FirstExt(table))
    BY <1>5 DEF TableRead, Return
  <2>2. Lettered(ddt') /\ UnitsOk(ddt')
    <3> DEFINE force == setup.force \/ scan.lba
               r == ScanForPrimaryPartitions(scan.drive, scan.type, p.tables[scan.sector], scan.sector,
                                             scan.ignore, force)
    <3>1. Lettered(r.units) /\ UnitsOk(r.units)
      <4> HIDE DEF force
      <4>1. QED
        BY <1>2, <1>3, <1>5, ScanOk
    <3>2. ddt' = ddt \/ ddt' = r.units
      BY <2>1 DEF Partitions
    <3>3. QED
      BY <1>2, <3>1, <3>2
  <2>3. ASSUME FirstExt(table) # 0, FollowExtended(table, FirstExt(table))
        PROVE  IsScan(scan')
    <3> DEFINE x == FirstExt(table)
    <3>1. IsDrive(p)
      BY <1>2, <1>3, SetupFacts DEF Drives
    <3>2. Len(table) = 4 /\ \A i \in 1 .. 4 : IsEntry(table[i])
      BY <1>5, <3>1 DEF IsDrive
    <3>3. x \in 1 .. 4
      <4> HIDE DEF table
      <4>1. x \in 0 .. 4
        BY <3>2, FirstExtIs
      <4>2. QED
        BY <2>3, <4>1
    <3>4. table[x].rel \in Nat
      BY <3>2, <3>3 DEF IsEntry
    <3> DEFINE rel == table[x].rel
               lba == IF scan.base = 0 THEN table[x].fs = "extlba" ELSE scan.lba
    <3>5. scan' = [scan EXCEPT !.sector = scan.base + rel, !.nr = scan.nr + 1, !.ignore = {},
                               !.base = IF scan.base = 0 THEN rel ELSE scan.base, !.lba = lba]
      BY <2>3 DEF FollowExtended
    <3>6. rel \in Nat
      BY <3>4
    <3> HIDE DEF rel, lba, table, p
    <3>7. DOMAIN scan' = DOMAIN scan
      BY <3>5
    <3>8. scan'.drive = scan.drive /\ scan'.sector = scan.base + rel
          /\ scan'.base = IF scan.base = 0 THEN rel ELSE scan.base
      BY <1>2, <3>5 DEF IsScan
    <3>9. QED
      BY <1>2, <1>3, <3>6, <3>7, <3>8 DEF IsScan
  <2>4. scan' = NoScan \/ IsScan(scan')
    BY <2>1, <2>3
  <2>5. QED
    BY <1>1, <2>2, <2>4, ScanGoesOn
<1>6. QED
  BY <1>4, <1>5

(* The scans keep what is known of the units. *)
LEMMA BootKeeps ==
  ASSUME DiskInv, InitDiskNext, UNCHANGED diskVars
  PROVE  DiskInv' /\ Lettered(ddt)'
<1>1. io = Idle /\ io' = io
  <2>1. ~Booted
    BY DEF InitDiskNext, ProcessDisk, TableRead, TableUnreadable, Booted
  <2>2. QED
    BY <2>1 DEF DiskInv, diskVars
<1>2. BootInv' /\ UnitsOk(ddt)' /\ Lettered(ddt)'
  BY ProcessKeeps, ReadKeeps, UnreadableKeeps DEF DiskInv, InitDiskNext
<1>3. QED
  BY <1>1, <1>2 DEF DiskInv, Idle

-----------------------------------------------------------------------------
(* What the driver keeps of its units *)

(* A unit stays in reach when its flags change, but for LBA. *)
LEMMA FlagsOk ==
  ASSUME NEW d, IsUnit(d), NEW F, "LBA" \in F <=> "LBA" \in d.flags
  PROVE  IsUnit([d EXCEPT !.flags = F])
BY DEF IsUnit, Fields, Reach

(* What else is noted of a unit does not matter. *)
LEMMA NotesOk ==
  ASSUME NEW d, IsUnit(d), NEW x
  PROVE  IsUnit([d EXCEPT !.bpb = x]) /\ IsUnit([d EXCEPT !.serial = x]) /\ IsUnit([d EXCEPT !.last = x])
BY DEF IsUnit, Fields, Reach

(* One unit is changed. *)
LEMMA OneChanged ==
  ASSUME NEW D, UnitsOk(D), NEW u, NEW e, u \in DOMAIN D => IsUnit(e)
  PROVE  UnitsOk([D EXCEPT ![u] = e])
BY DEF UnitsOk

(* Flags other than LBA are set and cleared. *)
LEMMA MarkedOk ==
  ASSUME NEW D, UnitsOk(D), NEW u, NEW F, "LBA" \notin F
  PROVE  UnitsOk(AddFlags(D, u, F)) /\ UnitsOk(DropFlags(D, u, F))
<1> DEFINE a == [D[u] EXCEPT !.flags = D[u].flags \cup F]
           b == [D[u] EXCEPT !.flags = D[u].flags \ F]
<1>1. u \in DOMAIN D => IsUnit(a) /\ IsUnit(b)
  BY FlagsOk DEF UnitsOk
<1>2. AddFlags(D, u, F) = [D EXCEPT ![u] = a] /\ DropFlags(D, u, F) = [D EXCEPT ![u] = b]
  BY DEF AddFlags, DropFlags
<1> HIDE DEF a, b
<1>3. UnitsOk([D EXCEPT ![u] = a])
  BY <1>1, OneChanged
<1>4. UnitsOk([D EXCEPT ![u] = b])
  BY <1>1, OneChanged
<1>5. QED
  BY <1>2, <1>3, <1>4

(* A note is made of a unit. *)
LEMMA NotedOk ==
  ASSUME NEW D, UnitsOk(D), NEW u, NEW x
  PROVE  /\ UnitsOk([D EXCEPT ![u].bpb = x])
         /\ UnitsOk([D EXCEPT ![u].serial = x])
         /\ UnitsOk([D EXCEPT ![u].last = x])
<1> DEFINE a == [D[u] EXCEPT !.bpb = x]
           b == [D[u] EXCEPT !.serial = x]
           c == [D[u] EXCEPT !.last = x]
<1>1. u \in DOMAIN D => IsUnit(a) /\ IsUnit(b) /\ IsUnit(c)
  BY NotesOk DEF UnitsOk
<1>2. /\ [D EXCEPT ![u].bpb = x] = [D EXCEPT ![u] = a]
      /\ [D EXCEPT ![u].serial = x] = [D EXCEPT ![u] = b]
      /\ [D EXCEPT ![u].last = x] = [D EXCEPT ![u] = c]
  OBVIOUS
<1> HIDE DEF a, b, c
<1>3. QED
  BY <1>1, <1>2, OneChanged

(* Time passes for all units. *)
LEMMA AgedOk ==
  ASSUME UnitsOk(ddt), NEW D, D = [u \in Units |-> [ddt[u] EXCEPT !.last = IF @ = "recent" THEN "old" ELSE @]]
  PROVE  UnitsOk(D)
<1>1. ASSUME NEW u \in DOMAIN D
      PROVE  IsUnit(D[u])
  <2> DEFINE x == IF ddt[u].last = "recent" THEN "old" ELSE ddt[u].last
  <2>1. u \in DOMAIN ddt /\ D[u] = [ddt[u] EXCEPT !.last = x]
    BY DEF Units
  <2> HIDE DEF x
  <2>2. QED
    BY <2>1, NotesOk DEF UnitsOk
<1>2. QED
  BY <1>1 DEF UnitsOk

(* Another letter becomes the current one. *)
LEMMA CurrentOk ==
  ASSUME NEW D, UnitsOk(D), NEW u
  PROVE  UnitsOk(SetCurrent(D, u)) /\ UnitsOk(play_dj(D, u))
<1> DEFINE F(v) == IF v = u THEN D[v].flags \cup {"CURLOG"}
                   ELSE IF v \in Current(D, u) THEN D[v].flags \ {"CURLOG"} ELSE D[v].flags
<1>1. SetCurrent(D, u) = [v \in DOMAIN D |-> [D[v] EXCEPT !.flags = F(v)]]
  BY DEF SetCurrent
<1>2. ASSUME NEW v \in DOMAIN D
      PROVE  IsUnit([D[v] EXCEPT !.flags = F(v)])
  <2>1. "LBA" \in F(v) <=> "LBA" \in D[v].flags
    OBVIOUS
  <2> HIDE DEF F
  <2>2. QED
    BY <2>1, FlagsOk DEF UnitsOk
<1>3. UnitsOk(SetCurrent(D, u))
  <2> HIDE DEF F
  <2>1. QED
    BY <1>1, <1>2 DEF UnitsOk
<1>4. QED
  BY <1>3 DEF play_dj

(* What E makes of the units D when the driver works on unit u: a unit keeps its drive, its sectors *)
(* and what its drive can do, and only u becomes the current one of a drive, and then no other is. *)
Lasting == {"FIXED", "MULTLOG", "CHANGELINE", "LBA", "DMA"}

SameKind(e, d) ==
  /\ e.drive = d.drive /\ e.offset = d.offset /\ e.def = d.def
  /\ \A f \in Lasting : f \in e.flags <=> f \in d.flags

AsBefore(e, d) ==
  /\ e.drive = d.drive /\ e.bpb = d.bpb /\ e.last = d.last /\ e.serial = d.serial
  /\ e.flags = d.flags \/ e.flags = d.flags \ {"CURLOG"}

Alone(E, u) == \A v \in DOMAIN E \ {u} : E[v].drive = E[u].drive => ~({"MULTLOG", "CURLOG"} \subseteq E[v].flags)

Turned(E, D, u) ==
  /\ DOMAIN E = DOMAIN D
  /\ \A v \in DOMAIN D : SameKind(E[v], D[v])
  /\ \A v \in DOMAIN D \ {u} : AsBefore(E[v], D[v])
  /\ "CURLOG" \in E[u].flags => "CURLOG" \in D[u].flags \/ Alone(E, u)

(* Nothing is changed. *)
LEMMA TurnedNot ==
  ASSUME NEW D, NEW u
  PROVE  Turned(D, D, u)
BY DEF Turned, SameKind, AsBefore

(* One change after another *)
LEMMA TurnedAgain ==
  ASSUME NEW D, UnitsOk(D), NEW u \in DOMAIN D, NEW E, UnitsOk(E), NEW F, Turned(E, D, u), Turned(F, E, u)
  PROVE  Turned(F, D, u)
<1>1. DOMAIN F = DOMAIN D /\ DOMAIN E = DOMAIN D
  BY DEF Turned
<1>2. ASSUME NEW v \in DOMAIN D
      PROVE  SameKind(F[v], D[v])
  <2>1. SameKind(F[v], E[v]) /\ SameKind(E[v], D[v])
    BY <1>1 DEF Turned
  <2>2. QED
    BY <2>1 DEF SameKind
<1>3. ASSUME NEW v \in DOMAIN D \ {u}
      PROVE  AsBefore(F[v], D[v])
  <2>1. AsBefore(F[v], E[v]) /\ AsBefore(E[v], D[v]) /\ IsUnit(D[v])
    BY <1>1 DEF Turned, UnitsOk
  <2>2. QED
    BY <2>1 DEF AsBefore, IsUnit, Fields
<1>4. ASSUME Alone(E, u)
      PROVE  Alone(F, u)
  <2>1. ASSUME NEW v \in DOMAIN F \ {u}, F[v].drive = F[u].drive
        PROVE  ~({"MULTLOG", "CURLOG"} \subseteq F[v].flags)
    <3>1. E[v].drive = E[u].drive /\ ("MULTLOG" \in F[v].flags => "MULTLOG" \in E[v].flags)
      BY <1>1, <2>1 DEF Turned, SameKind, Lasting
    <3>2. ~({"MULTLOG", "CURLOG"} \subseteq E[v].flags)
      BY <1>1, <1>4, <3>1 DEF Alone
    <3>3. "CURLOG" \in F[v].flags => "CURLOG" \in E[v].flags
      <4>1. AsBefore(F[v], E[v]) /\ IsUnit(E[v])
        BY <1>1 DEF Turned, UnitsOk
      <4>2. QED
        BY <4>1 DEF AsBefore, IsUnit, Fields
    <3>4. QED
      BY <3>1, <3>2, <3>3
  <2>2. QED
    BY <2>1 DEF Alone
<1>5. QED
  BY <1>1, <1>2, <1>3, <1>4 DEF Turned

(* Flags that do not last change. *)
LEMMA FlagsTurned ==
  ASSUME NEW D, UnitsOk(D), NEW u \in DOMAIN D, NEW F, \A f \in Lasting : f \in F <=> f \in D[u].flags,
         "CURLOG" \in F => "CURLOG" \in D[u].flags
  PROVE  Turned([D EXCEPT ![u] = [D[u] EXCEPT !.flags = F]], D, u)
<1> DEFINE e == [D[u] EXCEPT !.flags = F]
           E == [D EXCEPT ![u] = e]
<1>1. e.drive = D[u].drive /\ e.offset = D[u].offset /\ e.def = D[u].def /\ e.flags = F
  BY DEF UnitsOk, IsUnit, Fields
<1> HIDE DEF e
<1>2. DOMAIN E = DOMAIN D /\ E[u] = e /\ \A v \in DOMAIN D \ {u} : E[v] = D[v]
  OBVIOUS
<1> HIDE DEF E
<1>3. Turned(E, D, u)
  BY <1>1, <1>2 DEF Turned, SameKind, AsBefore
<1>4. QED
  BY <1>3 DEF E, e

(* A note is made. *)
LEMMA NoteTurned ==
  ASSUME NEW D, UnitsOk(D), NEW u \in DOMAIN D, NEW x
  PROVE  /\ Turned([D EXCEPT ![u].bpb = x], D, u)
         /\ Turned([D EXCEPT ![u].serial = x], D, u)
         /\ Turned([D EXCEPT ![u].last = x], D, u)
<1>1. ASSUME NEW e, e.drive = D[u].drive, e.offset = D[u].offset, e.def = D[u].def, e.flags = D[u].flags
      PROVE  Turned([D EXCEPT ![u] = e], D, u)
  <2> DEFINE E == [D EXCEPT ![u] = e]
  <2>1. DOMAIN E = DOMAIN D /\ E[u] = e /\ \A v \in DOMAIN D \ {u} : E[v] = D[v]
    OBVIOUS
  <2> HIDE DEF E
  <2>2. Turned(E, D, u)
    BY <1>1, <2>1 DEF Turned, SameKind, AsBefore
  <2>3. QED
    BY <2>2 DEF E
<1> DEFINE a == [D[u] EXCEPT !.bpb = x]
           b == [D[u] EXCEPT !.serial = x]
           c == [D[u] EXCEPT !.last = x]
<1>2. \A e \in {a, b, c} : e.drive = D[u].drive /\ e.offset = D[u].offset /\ e.def = D[u].def /\ e.flags = D[u].flags
  BY DEF UnitsOk, IsUnit, Fields
<1>3. /\ [D EXCEPT ![u].bpb = x] = [D EXCEPT ![u] = a]
      /\ [D EXCEPT ![u].serial = x] = [D EXCEPT ![u] = b]
      /\ [D EXCEPT ![u].last = x] = [D EXCEPT ![u] = c]
  OBVIOUS
<1> HIDE DEF a, b, c
<1>4. Turned([D EXCEPT ![u] = a], D, u) /\ Turned([D EXCEPT ![u] = b], D, u) /\ Turned([D EXCEPT ![u] = c], D, u)
  BY <1>1, <1>2
<1>5. QED
  BY <1>3, <1>4

(* Another letter of a drive becomes the current one. *)
LEMMA CurrentTurned ==
  ASSUME NEW D, UnitsOk(D), NEW u \in DOMAIN D
  PROVE  /\ Turned(SetCurrent(D, u), D, u) /\ Turned(play_dj(D, u), D, u)
         /\ ~NeedsSwap(play_dj(D, u), u)
<1> DEFINE F(v) == IF v = u THEN D[v].flags \cup {"CURLOG"}
                   ELSE IF v \in Current(D, u) THEN D[v].flags \ {"CURLOG"} ELSE D[v].flags
           E == SetCurrent(D, u)
<1>1. E = [v \in DOMAIN D |-> [D[v] EXCEPT !.flags = F(v)]]
  BY DEF SetCurrent
<1>2. DOMAIN E = DOMAIN D /\ \A v \in DOMAIN D : E[v] = [D[v] EXCEPT !.flags = F(v)]
  BY <1>1
<1>3. ASSUME NEW v \in DOMAIN D
      PROVE  SameKind(E[v], D[v]) /\ E[v].flags = F(v)
  <2>1. \A f \in Lasting : f \in F(v) <=> f \in D[v].flags
    BY DEF Lasting
  <2>2. IsUnit(D[v]) /\ E[v] = [D[v] EXCEPT !.flags = F(v)]
    BY <1>2 DEF UnitsOk
  <2> HIDE DEF F, E
  <2>3. E[v].drive = D[v].drive /\ E[v].offset = D[v].offset /\ E[v].def = D[v].def /\ E[v].flags = F(v)
    BY <2>2 DEF IsUnit, Fields
  <2>4. QED
    BY <2>1, <2>3 DEF SameKind
<1>4. ASSUME NEW v \in DOMAIN D \ {u}
      PROVE  AsBefore(E[v], D[v])
  <2>1. F(v) = D[v].flags \ {"CURLOG"} \/ F(v) = D[v].flags
    OBVIOUS
  <2>2. E[v] = [D[v] EXCEPT !.flags = F(v)] /\ IsUnit(D[v])
    BY <1>2 DEF UnitsOk
  <2> HIDE DEF F, E
  <2>3. QED
    BY <2>1, <2>2 DEF AsBefore, IsUnit, Fields
<1>5. Alone(E, u)
  <2>1. ASSUME NEW v \in DOMAIN E \ {u}, E[v].drive = E[u].drive, {"MULTLOG", "CURLOG"} \subseteq E[v].flags
        PROVE  FALSE
    <3>1. v \in DOMAIN D /\ D[v].drive = D[u].drive /\ E[v].flags = F(v)
      BY <1>2, <1>3, <2>1 DEF SameKind
    <3>2. {"MULTLOG", "CURLOG"} \subseteq D[v].flags
      BY <2>1, <3>1
    <3>3. v \in Current(D, u)
      BY <3>1, <3>2 DEF Current
    <3>4. QED
      BY <2>1, <3>1, <3>3
  <2>2. QED
    BY <2>1 DEF Alone
<1>6. Turned(E, D, u)
  BY <1>2, <1>3, <1>4, <1>5 DEF Turned
<1>7. "CURLOG" \in E[u].flags
  BY <1>3
<1> HIDE DEF E
<1>8. QED
  BY <1>6, <1>7, TurnedNot DEF play_dj, NeedsSwap, E

(* The boot sector is read, or not. *)
LEMMA BpbOk ==
  ASSUME NEW D, UnitsOk(D), NEW u, NEW read
  PROVE  UnitsOk(Changed(D, u)) /\ UnitsOk(getbpb(D, u, read).ddt)
<1>1. UnitsOk(play_dj(D, u))
  BY CurrentOk
<1>2. UnitsOk(Changed(D, u))
  BY <1>1, MarkedOk DEF Changed
<1> DEFINE C == Changed(D, u)
           x == IF hd(u) THEN C[u].serial ELSE media[In(u)].serial
           f == [C EXCEPT ![u].flags = C[u].flags \ {"NOACCESS"}]
           g == [f EXCEPT ![u].bpb = Here(u)]
           h == [g EXCEPT ![u].last = "recent"]
           i == [h EXCEPT ![u].serial = x]
<1>3. UnitsOk(i)
  <2> HIDE DEF C
  <2>1. f = DropFlags(C, u, {"NOACCESS"})
    BY DEF DropFlags
  <2>2. UnitsOk(f)
    BY <1>2, <2>1, MarkedOk DEF C
  <2> HIDE DEF f
  <2>3. UnitsOk(g)
    BY <2>2, NotedOk
  <2> HIDE DEF g
  <2>4. UnitsOk(h)
    BY <2>3, NotedOk
  <2> HIDE DEF h, x
  <2>5. QED
    BY <2>4, NotedOk
<1>4. Learn(C, u) = i
  <2> HIDE DEF C
  <2>1. QED
    BY DEF Learn
<1>5. UnitsOk([C EXCEPT ![u].bpb = "default"])
  <2> HIDE DEF C
  <2>1. QED
    BY <1>2, NotedOk DEF C
<1> DEFINE L == Learn(C, u)
           B == [C EXCEPT ![u].bpb = "default"]
           r == getbpb(D, u, read)
<1>6. r = [ddt |-> C, ret |-> "error"] \/ r = [ddt |-> B, ret |-> "done"] \/ r = [ddt |-> L, ret |-> "error"]
      \/ r = [ddt |-> L, ret |-> "ok"]
  BY DEF getbpb
<1>7. UnitsOk(C) /\ UnitsOk(B) /\ UnitsOk(L)
  BY <1>2, <1>3, <1>4, <1>5
<1> HIDE DEF C, B, L, r, i
<1>8. r.ddt = C \/ r.ddt = B \/ r.ddt = L
  BY <1>6
<1>9. QED
  BY <1>2, <1>7, <1>8 DEF r

(* The medium is checked. *)
LEMMA MediachkOk ==
  ASSUME NEW D, UnitsOk(D), NEW u, NEW read
  PROVE  UnitsOk(mediachk(D, u, read).ddt)
<1> DEFINE A == DropFlags(D, u, {"REFORMAT"})
           B == DropFlags(D, u, {"DISKCHANGE"})
           P == play_dj(D, u)
           G == getbpb(D, u, read).ddt
           r == mediachk(D, u, read)
<1>1. UnitsOk(A) /\ UnitsOk(B) /\ UnitsOk(P) /\ UnitsOk(G)
  BY MarkedOk, CurrentOk, BpbOk
<1>2. r.ddt = A \/ r.ddt = B \/ r.ddt = P \/ r.ddt = G
  BY DEF mediachk
<1>3. QED
  BY <1>1, <1>2

-----------------------------------------------------------------------------
(* Calls other than transfers *)

(* A call between transfers that keeps the units in reach *)
LEMMA CallKeeps ==
  ASSUME DiskInv, Quiet, UNCHANGED <<setup, todo, scan, io>>, UnitsOk(ddt')
  PROVE  DiskInv'
<1>1. Booted /\ io = Idle
  BY DEF Quiet
<1>2. Drives' = Drives /\ Booted'
  BY <1>1 DEF Drives, Booted
<1>3. BootInv'
  BY <1>2 DEF DiskInv, BootInv, IsScan
<1>4. QED
  BY <1>1, <1>3 DEF DiskInv, UnitsOk, Idle

(* The DPB is made anew. *)
LEMMA BuiltOk ==
  ASSUME NEW D, UnitsOk(D), NEW u, NEW read, NEW force, BpbBuilt(D, u, read, force)
  PROVE  UnitsOk(ddt')
<1>1. ddt' = getbpb(D, u, read).ddt
  BY DEF BpbBuilt
<1>2. QED
  BY <1>1, BpbOk

(* DOS asks for the medium. *)
LEMMA MediaCheckKeeps ==
  ASSUME DiskInv, NEW u, media_check(u)
  PROVE  DiskInv'
<1>1. Quiet /\ UNCHANGED <<setup, todo, scan, io>> /\ UnitsOk(ddt)
  BY DEF media_check, DiskInv
<1>2. PICK read, force \in BOOLEAN : \E m \in {mediachk(ddt, u, read)} :
        MediaKept(m, u, force) \/ MediaRebuilt(m, u, read, force) \/ MediaFails(m, u, force)
  BY DEF media_check
<1> DEFINE m == mediachk(ddt, u, read)
<1>3. MediaKept(m, u, force) \/ MediaRebuilt(m, u, read, force) \/ MediaFails(m, u, force)
  BY <1>2
<1>4. UnitsOk(m.ddt)
  BY <1>1, MediachkOk
<1> HIDE DEF m
<1>5. UnitsOk(ddt')
  <2>1. CASE MediaKept(m, u, force) \/ MediaFails(m, u, force)
    BY <1>4, <2>1 DEF MediaKept, MediaFails
  <2>2. CASE MediaRebuilt(m, u, read, force)
    <3>1. BpbBuilt(m.ddt, u, read, force)
      BY <2>2 DEF MediaRebuilt
    <3>2. QED
      BY <1>4, <3>1, BuiltOk
  <2>3. QED
    BY <1>3, <2>1, <2>2
<1>6. QED
  BY <1>1, <1>5, CallKeeps

(* A unit is used. *)
LEMMA UsedOk ==
  ASSUME UnitsOk(ddt), NEW u, Used(u)
  PROVE  UnitsOk(ddt')
<1> DEFINE P == play_dj(ddt, u)
<1>1. UnitsOk(P) /\ ddt' = [P EXCEPT ![u].last = "recent"]
  BY CurrentOk DEF Used
<1> HIDE DEF P
<1>2. QED
  BY <1>1, NotedOk

(* Buffers are written, dropped or used. *)
LEMMA BuffersKeep ==
  ASSUME DiskInv, NEW u, NEW b, NEW w, FlushUnit(u) \/ Reset \/ UseSector(u, b, w)
  PROVE  DiskInv'
<1>1. Quiet /\ UNCHANGED <<setup, todo, scan, io>> /\ UnitsOk(ddt)
  BY DEF FlushUnit, Reset, UseSector, bootVars, DiskInv
<1>2. UnitsOk(ddt')
  <2>1. CASE Reset
    BY <1>1, <2>1 DEF Reset, bootVars
  <2>2. CASE Used(u)
    BY <1>1, <2>2, UsedOk
  <2>3. QED
    BY <2>1, <2>2 DEF FlushUnit, UseSector
<1>3. QED
  BY <1>1, <1>2, CallKeeps

(* IOCTL *)
LEMMA IoctlKeeps ==
  ASSUME DiskInv, NEW u, Setlogdev(u) \/ Genblkdev(u)
  PROVE  DiskInv'
<1>1. Quiet /\ UNCHANGED <<setup, todo, scan, io>> /\ UnitsOk(ddt)
  BY DEF Setlogdev, Genblkdev, DiskInv
<1>2. CASE Setlogdev(u)
  <2>1. ddt' = SetCurrent(ddt, u)
    BY <1>2 DEF Setlogdev
  <2>2. UnitsOk(ddt')
    BY <1>1, <2>1, CurrentOk
  <2>3. QED
    BY <1>1, <2>2, CallKeeps
<1>3. CASE Genblkdev(u)
  <2>1. CASE SetParameters(u)
    <3> DEFINE E == AddFlags(ddt, u, {"DPCHANGED", "REFORMAT"})
    <3>1. PICK x : ddt' = [E EXCEPT ![u].bpb = x]
      BY <2>1 DEF SetParameters
    <3>2. UnitsOk(E)
      BY <1>1, MarkedOk
    <3> HIDE DEF E
    <3>3. UnitsOk(ddt')
      BY <3>1, <3>2, NotedOk
    <3>4. QED
      BY <1>1, <3>3, CallKeeps
  <2>2. CASE FormatTrack(u)
    <3> DEFINE E == DropFlags(ddt, u, {"DPCHANGED"})
    <3>1. ddt' = E \/ ddt' = play_dj(E, u)
      BY <2>2 DEF FormatTrack
    <3>2. UnitsOk(E)
      BY <1>1, MarkedOk
    <3> HIDE DEF E
    <3>3. UnitsOk(ddt')
      BY <3>1, <3>2, CurrentOk
    <3>4. QED
      BY <1>1, <3>3, CallKeeps
  <2>3. CASE UseTrack(u)
    <3>1. ddt' = play_dj(ddt, u)
      BY <2>3 DEF UseTrack
    <3>2. QED
      BY <1>1, <3>1, CurrentOk, CallKeeps
  <2>4. ASSUME NEW read, NEW serial, SetSerial(u, read, serial)
        PROVE  DiskInv'
    <3> DEFINE G == getbpb(ddt, u, read).ddt
    <3>1. ddt' = G \/ ddt' = [G EXCEPT ![u].serial = serial]
      BY <2>4 DEF SetSerial
    <3>2. UnitsOk(G)
      BY <1>1, BpbOk
    <3> HIDE DEF G
    <3>3. UnitsOk([G EXCEPT ![u].serial = serial])
      BY <3>2, NotedOk
    <3>4. UnitsOk(ddt')
      BY <3>1, <3>2, <3>3
    <3>5. QED
      BY <1>1, <3>4, CallKeeps
  <2>5. ASSUME NEW read, GetSerial(u, read)
        PROVE  DiskInv'
    <3>1. ddt' = getbpb(ddt, u, read).ddt
      BY <2>5 DEF GetSerial
    <3>2. QED
      BY <1>1, <3>1, BpbOk, CallKeeps
  <2>6. ASSUME NEW allow, SetAccess(u, allow)
        PROVE  DiskInv'
    <3>1. ddt' = DropFlags(ddt, u, {"NOACCESS"}) \/ ddt' = AddFlags(ddt, u, {"NOACCESS"})
      BY <2>6 DEF SetAccess
    <3>2. UnitsOk(ddt')
      BY <1>1, <3>1, MarkedOk
    <3>3. QED
      BY <1>1, <3>2, CallKeeps
  <2>7. QED
    BY <1>3, <2>1, <2>2, <2>3, <2>4, <2>5, <2>6 DEF Genblkdev
<1>4. QED
  BY <1>2, <1>3

(* The user changes a floppy, or waits. *)
LEMMA UserKeeps ==
  ASSUME DiskInv, NEW f, ChangeFloppy(f) \/ TimePasses
  PROVE  DiskInv'
<1>1. Quiet /\ UNCHANGED <<setup, todo, scan, io>> /\ UnitsOk(ddt)
  BY DEF ChangeFloppy, TimePasses, DiskInv
<1>2. ddt' = [u \in Units |-> [ddt[u] EXCEPT !.last = IF @ = "recent" THEN "old" ELSE @]]
  BY DEF ChangeFloppy, TimePasses
<1>3. UnitsOk(ddt')
  BY <1>1, <1>2, AgedOk
<1>4. QED
  BY <1>1, <1>3, CallKeeps

-----------------------------------------------------------------------------
(* Sectors and their places *)

Joined(l, a, d, x, y, n) == Pairs(l, a, d) \cup Pairs(x, y, n) = Pairs(l, a, d + n)

(* Sectors moved side by side are moved as one piece. *)
LEMMA PairsJoin ==
  ASSUME NEW l \in Nat, NEW a \in Nat, NEW d \in Nat, NEW n \in Nat,
         NEW x \in Nat, NEW y \in Nat, x = l + d, y = a + Secsize * d
  PROVE  Joined(l, a, d, x, y, n)
<1>1. ASSUME NEW i \in 0 .. d - 1
      PROVE  <<l + i, a + Secsize * i>> \in Pairs(l, a, d + n)
  BY DEF Pairs
<1>2. ASSUME NEW i \in 0 .. n - 1
      PROVE  <<x + i, y + Secsize * i>> \in Pairs(l, a, d + n)
  <2>1. d + i \in 0 .. (d + n) - 1 /\ x + i = l + (d + i)
        /\ y + Secsize * i = a + Secsize * (d + i)
    BY DEF Secsize
  <2>2. QED
    BY <2>1 DEF Pairs
<1>3. ASSUME NEW i \in 0 .. (d + n) - 1
      PROVE  <<l + i, a + Secsize * i>> \in Pairs(l, a, d) \cup Pairs(x, y, n)
  <2>1. CASE i < d
    BY <2>1 DEF Pairs
  <2>2. CASE i >= d
    <3>1. i - d \in 0 .. n - 1 /\ l + i = x + (i - d)
          /\ a + Secsize * i = y + Secsize * (i - d)
      BY <2>2 DEF Secsize
    <3>2. QED
      BY <3>1 DEF Pairs
  <2>3. QED
    BY <2>1, <2>2
<1>4. QED
  BY <1>1, <1>2, <1>3 DEF Pairs, Joined

(* More sectors are more places. *)
LEMMA PairsGrow ==
  ASSUME NEW l \in Nat, NEW a \in Nat, NEW d \in Nat, NEW e \in Nat, d <= e
  PROVE  Pairs(l, a, d) \subseteq Pairs(l, a, e)
BY DEF Pairs

(* No sectors are no places. *)
LEMMA PairsNone ==
  ASSUME NEW l \in Nat, NEW a \in Nat
  PROVE  Pairs(l, a, 0) = {}
BY DEF Pairs

(* What goes straight to the buffer ends with the page, unless the drive can do better. *)
LEMMA DirectIs ==
  ASSUME NEW u, NEW a \in Nat, NEW left \in Nat, NEW n, n = Direct(u, a, left)
  PROVE  /\ n \in 0 .. left
         /\ "DMA" \notin ddt[u].flags /\ n > 0 => a \div 65536 = (a + Secsize * n - 1) \div 65536
<1> DEFINE x == IF a % 65536 = 0 THEN 65535 ELSE 65536 - (a % 65536)
           q == x \div maxsecsize
<1>1. maxsecsize \in Nat /\ maxsecsize >= 512
  BY DiskAssumption
<1>2. x \in Nat /\ x <= 65536 - (a % 65536)
  OBVIOUS
<1>3. q \in Nat /\ 512 * q <= x
  <2> HIDE DEF x
  <2>1. QED
    BY <1>1, <1>2, FitsAgain
<1>4. CASE "DMA" \in ddt[u].flags
  BY <1>4 DEF Direct
<1>5. CASE "DMA" \notin ddt[u].flags
  <2>1. n = Smaller(left, q)
    BY <1>5 DEF Direct, DMA_max_transfer
  <2> HIDE DEF q
  <2>2. n \in 0 .. left /\ n <= q
    BY <1>3, <2>1 DEF Smaller
  <2>3. 512 * n <= 65536 - (a % 65536)
    <3> HIDE DEF x
    <3>1. 512 * n <= 512 * q
      BY <1>3, <2>2
    <3>2. QED
      BY <1>2, <1>3, <2>2, <3>1
  <2>4. ASSUME n > 0
        PROVE  a \div 65536 = (a + Secsize * n - 1) \div 65536
    <3> DEFINE m == 512 * n
    <3>1. m \in Nat /\ m > 0 /\ m <= 65536 - (a % 65536)
      BY <2>2, <2>3, <2>4
    <3> HIDE DEF m
    <3>2. a \div 65536 = (a + m - 1) \div 65536
      BY <3>1, OneTrack
    <3>3. QED
      BY <3>2 DEF m, Secsize
  <2>5. QED
    BY <2>2, <2>4
<1>6. QED
  BY <1>4, <1>5

(* n sectors that the BIOS can move at once *)
Fits(u, lba, a, left, n) ==
  /\ n \in 1 .. left
  /\ Bounce(u, a, left) => n = 1
  /\ ~Bounce(u, a, left) =>
       /\ a < Top
       /\ "DMA" \in ddt[u].flags \/ a \div 65536 = (a + Secsize * n - 1) \div 65536
  /\ "LBA" \in ddt[u].flags \/ lba \div ddt[u].def.secs = (lba + n - 1) \div ddt[u].def.secs

(* The next BIOS call is for some of what is left, and for what the BIOS can do. *)
LEMMA PieceIs ==
  ASSUME UnitsOk(ddt), NEW u \in DOMAIN ddt, NEW lba \in Nat, NEW a \in Nat, NEW left \in Nat \ {0},
         NEW n, n = Piece(u, lba, a, left)
  PROVE  Fits(u, lba, a, left, n)
<1> DEFINE D == Direct(u, a, left)
           count == IF Bounce(u, a, left) THEN 1 ELSE D
           secs == ddt[u].def.secs
           track == TrackLeft(u, lba)
<1>1. secs \in Nat \ {0}
  BY DEF UnitsOk, IsUnit, Geometries
<1>2. D \in 0 .. left /\ ("DMA" \notin ddt[u].flags /\ D > 0 => a \div 65536 = (a + Secsize * D - 1) \div 65536)
  <2>1. left \in Nat
    OBVIOUS
  <2>2. QED
    BY <2>1, DirectIs
<1>3. count \in 1 .. left
  BY <1>2 DEF Bounce
<1>4. track = secs - (lba % secs) /\ lba % secs \in 0 .. secs - 1
  <2>1. track = secs - (lba % secs)
    BY DEF TrackLeft
  <2> HIDE DEF secs
  <2>2. QED
    BY <1>1, <2>1, Quotient
<1>5. n = IF UseLba(u) THEN count ELSE Smaller(count, track)
  BY DEF Piece
<1> HIDE DEF track, secs
<1>6. n \in 1 .. count /\ (~UseLba(u) => n <= track)
  BY <1>1, <1>3, <1>4, <1>5 DEF Smaller
<1>7. "LBA" \in ddt[u].flags \/ lba \div secs = (lba + n - 1) \div secs
  <2>1. CASE UseLba(u)
    BY <2>1 DEF UseLba
  <2>2. CASE ~UseLba(u)
    <3>1. n \in Nat /\ n > 0 /\ n <= secs - (lba % secs)
      BY <1>3, <1>4, <1>6, <2>2
    <3>2. QED
      BY <1>1, <3>1, OneTrack
  <2>3. QED
    BY <2>1, <2>2
<1>8. ASSUME ~Bounce(u, a, left)
      PROVE  /\ a < Top
             /\ "DMA" \in ddt[u].flags \/ a \div 65536 = (a + Secsize * n - 1) \div 65536
  <2>1. a < Top
    BY <1>8 DEF Bounce, Top
  <2>2. count = D
    BY <1>8
  <2> HIDE DEF D, count
  <2>3. ASSUME "DMA" \notin ddt[u].flags
        PROVE  a \div 65536 = (a + Secsize * n - 1) \div 65536
    <3> DEFINE y == a + Secsize * n - 1
               z == a + Secsize * D - 1
    <3>1. n \in 1 .. D /\ D \in Nat
      BY <1>2, <1>6, <2>2
    <3>2. a <= y /\ y <= z /\ y \in Int /\ z \in Int
      BY <3>1 DEF Secsize
    <3>3. a \div 65536 = z \div 65536
      BY <1>2, <2>3, <3>1
    <3> HIDE DEF y, z
    <3>4. a \div 65536 <= y \div 65536 /\ y \div 65536 <= z \div 65536
      BY <3>2
    <3>5. a \div 65536 \in Int /\ y \div 65536 \in Int
      BY <3>2
    <3>6. a \div 65536 = y \div 65536
      BY <3>3, <3>4, <3>5
    <3>7. QED
      BY <3>6 DEF y
  <2>4. QED
    BY <2>1, <2>3
<1>9. Bounce(u, a, left) => n = 1
  BY <1>6
<1>10. n \in 1 .. left
  BY <1>3, <1>6
<1>11. QED
  BY <1>7, <1>8, <1>9, <1>10 DEF secs, Fits

-----------------------------------------------------------------------------
(* Transfers *)

(* The numbers of a transfer *)
LEMMA TransferFacts ==
  ASSUME UnitsOk(ddt), NEW x, Transferring(x)
  PROVE  LET d == ddt[x.req.unit]
         IN /\ x.req.unit \in DOMAIN ddt /\ IsUnit(d)
            /\ x.req.start \in Nat /\ x.req.n \in Nat /\ x.req.addr \in Nat
            /\ d.offset \in Nat /\ d.def.size \in Nat /\ d.def.heads \in Nat \ {0} /\ d.def.secs \in Nat \ {0}
            /\ x.req.start + x.req.n <= d.def.size
            /\ x.left \in Nat /\ x.left <= x.req.n /\ Done(x) \in Nat /\ Done(x) + x.left = x.req.n
            /\ x.lba \in Nat /\ x.lba = x.req.start + d.offset + Done(x)
            /\ x.addr \in Nat /\ x.addr = x.req.addr + Secsize * Done(x)
<1> DEFINE d == ddt[x.req.unit]
<1>1. x.req.unit \in DOMAIN ddt /\ x.req.start \in Nat /\ x.req.n \in Nat /\ x.req.addr \in Nat
  BY DEF Transferring, IsRequest
<1>2. IsUnit(d)
  BY <1>1 DEF UnitsOk
<1>3. d.offset \in Nat /\ d.def.size \in Nat /\ d.def.heads \in Nat \ {0} /\ d.def.secs \in Nat \ {0}
  BY <1>2 DEF IsUnit, Geometries
<1>4. /\ x.left \in 0 .. x.req.n /\ x.req.start + x.req.n <= d.def.size
      /\ x.lba = x.req.start + d.offset + Done(x) /\ x.addr = x.req.addr + Secsize * Done(x)
  BY DEF Transferring, size
<1> HIDE DEF d
<1>5. Done(x) \in Nat /\ Done(x) + x.left = x.req.n /\ x.left \in Nat /\ x.left <= x.req.n
  BY <1>1, <1>4 DEF Done
<1>6. x.lba \in Nat /\ x.addr \in Nat
  BY <1>1, <1>3, <1>4, <1>5 DEF Secsize
<1>7. QED
  BY <1>1, <1>2, <1>3, <1>4, <1>5, <1>6 DEF d

(* LBA_to_CHS has an answer for every sector of a transfer. *)
LEMMA NeverRefused ==
  ASSUME UnitsOk(ddt), Transferring(io), io.left > 0
  PROVE  ~Refused(io.req.unit, io.lba)
<1> DEFINE u == io.req.unit
           d == ddt[u]
           k == d.def.heads * d.def.secs
           last == d.offset + d.def.size - 1
<1>1. /\ IsUnit(d) /\ k \in Nat \ {0} /\ io.lba \in Nat /\ last \in Int /\ io.lba <= last
  BY TransferFacts
<1>2. ASSUME "LBA" \notin d.flags
      PROVE  ~(Cylinder(d.def, io.lba) > MaxCyl)
  <2>1. Cylinder(d.def, last) <= MaxCyl
    BY <1>1, <1>2 DEF IsUnit, Reach
  <2>2. Cylinder(d.def, last) = last \div k /\ Cylinder(d.def, io.lba) = io.lba \div k
    BY DEF Cylinder
  <2> HIDE DEF k, last, d
  <2>3. io.lba \in Int /\ io.lba \div k <= last \div k /\ io.lba \div k \in Int /\ last \div k \in Int
    BY <1>1, QuotientGrows, Quotient
  <2>4. QED
    BY <2>1, <2>2, <2>3 DEF MaxCyl
<1>3. QED
  BY <1>2 DEF Refused, UseLba

(* The BIOS call that comes next *)
LEMMA NextCall ==
  ASSUME UnitsOk(ddt), Transferring(io), io.left > 0
  PROVE  LET u == io.req.unit   n == Piece(u, io.lba, io.addr, io.left)
         IN n \in 1 .. io.left /\ CallFits(BiosCall(n), ddt[u]) /\ BiosCall(n).n = n
<1> DEFINE u == io.req.unit
           d == ddt[u]
           n == Piece(u, io.lba, io.addr, io.left)
           c == BiosCall(n)
           last == io.lba + n - 1
<1>1. /\ u \in DOMAIN ddt /\ io.lba \in Nat /\ io.addr \in Nat /\ io.left \in Nat \ {0}
      /\ io.lba = io.req.start + d.offset + Done(io) /\ io.req.start + io.req.n <= d.def.size
      /\ Done(io) + io.left = io.req.n /\ Done(io) \in Nat /\ io.req.start \in Nat /\ io.req.n \in Nat
      /\ d.offset \in Nat /\ d.def.size \in Nat
  BY TransferFacts
<1>2. /\ n \in 1 .. io.left
      /\ Bounce(u, io.addr, io.left) => n = 1
      /\ ~Bounce(u, io.addr, io.left) =>
           /\ io.addr < Top
           /\ "DMA" \in d.flags \/ io.addr \div 65536 = (io.addr + Secsize * n - 1) \div 65536
      /\ "LBA" \in d.flags \/ io.lba \div d.def.secs = last \div d.def.secs
  <2> DEFINE lba == io.lba
             addr == io.addr
             left == io.left
  <2>1. u \in DOMAIN ddt /\ lba \in Nat /\ addr \in Nat /\ left \in Nat \ {0}
    BY <1>1
  <2>2. n = Piece(u, lba, addr, left)
    OBVIOUS
  <2> HIDE DEF lba, addr, left, u, n
  <2>3. Fits(u, lba, addr, left, n)
    BY <2>1, <2>2, PieceIs
  <2>4. QED
    BY <2>3 DEF lba, addr, left, u, Fits
<1>3. c.lba = io.lba /\ c.n = n /\ c.addr = io.addr /\ c.bounced = Bounce(u, io.addr, io.left)
  BY DEF BiosCall
<1> HIDE DEF c, n, d
<1>4. n \in Nat /\ n > 0 /\ io.lba >= d.offset /\ last < d.offset + d.def.size
  BY <1>1, <1>2
<1>5. CallFits(c, d)
  BY <1>2, <1>3, <1>4 DEF CallFits
<1>6. QED
  BY <1>2, <1>3, <1>5 DEF c, n, d

(* A transfer is asked for. *)
LEMMA BlockioKeeps ==
  ASSUME DiskInv, NEW r \in setup.io, Quiet, r.unit \in Units, blockio(r)
  PROVE  DiskInv'
<1> DEFINE u == r.unit
           x == Begun(r)
           P == IF InRange(r) THEN play_dj(ddt, u) ELSE ddt
<1>1. /\ setup \in Setups /\ UnitsOk(ddt) /\ Booted
      /\ UNCHANGED <<setup, todo, scan>>
      /\ ddt' = [P EXCEPT ![u].last = "recent"]
      /\ io' = Idle \/ (io' = x /\ r.start + r.n <= size(u))
  BY DEF blockio, Quiet, DiskInv, BootInv, InRange
<1>2. r.start \in Nat /\ r.n \in Nat /\ r.addr \in Nat /\ u \in DOMAIN ddt
  BY <1>1, DiskAssumption DEF Units, IsStocked
<1>9. UnitsOk(P) /\ Turned(P, ddt, u)
  BY <1>1, <1>2, CurrentOk, CurrentTurned, TurnedNot
<1>3. UnitsOk(ddt') /\ Turned(ddt', P, u)
  <2>1. u \in DOMAIN P
    BY <1>2, <1>9 DEF Turned
  <2> HIDE DEF P
  <2>2. QED
    BY <1>1, <1>9, <2>1, NotedOk, NoteTurned
<1>4. Drives' = Drives /\ Booted'
  BY <1>1 DEF Drives, Booted
<1>5. BootInv'
  BY <1>1, <1>4 DEF DiskInv, BootInv, IsScan
<1>6. DOMAIN ddt' = DOMAIN ddt /\ ddt'[u].offset = ddt[u].offset /\ ddt'[u].def = ddt[u].def
  BY <1>2, <1>3, <1>9 DEF Turned, SameKind
<1>7. ASSUME io' = x, r.start + r.n <= size(u)
      PROVE  Transferring(io)'
  <2>1. x.req = r /\ x.left = r.n /\ x.tries = 0 /\ x.call = <<>> /\ x.moved = {} /\ x.addr = r.addr
        /\ x.lba = r.start + ddt[u].offset
        /\ DOMAIN x = {"phase", "req", "lba", "left", "addr", "tries", "call", "moved"}
    BY DEF Begun
  <2> HIDE DEF x
  <2>2. Done(io)' = 0 /\ Tried(io)' = 0
    BY <1>2, <1>7, <2>1 DEF Done, Tried
  <2>3. ddt[u].offset \in Nat
    BY <1>1, <1>2 DEF UnitsOk, IsUnit
  <2>4. Moved(io, r.start + ddt[u].offset)'
    <3>1. Pairs(r.start + ddt[u].offset, r.addr, 0) = {}
      BY <1>2, <2>3, PairsNone
    <3>2. QED
      BY <1>6, <1>7, <2>1, <2>2, <3>1 DEF Moved, Pairs
  <2>5. Retries(io)'
    BY <1>7, <2>1 DEF Retries
  <2>6. IsRequest(io.req)' /\ (io.req.start + io.req.n <= size(io.req.unit))'
    BY <1>2, <1>6, <1>7, <2>1 DEF IsRequest, size
  <2>7. io'.left \in 0 .. io'.req.n /\ io'.tries \in Nat /\ io'.call = <<>>
    BY <1>2, <1>7, <2>1
  <2>8. io'.lba = io'.req.start + ddt'[io'.req.unit].offset + Done(io)'
        /\ io'.addr = io'.req.addr + Secsize * Done(io)'
    BY <1>2, <1>6, <1>7, <2>1, <2>2, <2>3 DEF Secsize
  <2>9. Moved(io, io.req.start + ddt[io.req.unit].offset)'
    BY <1>6, <1>7, <2>1, <2>4 DEF Moved, Done, Tried, Pairs
  <2>10. QED
    BY <1>7, <2>1, <2>5, <2>6, <2>7, <2>8, <2>9 DEF Transferring
<1> HIDE DEF x
<1>8. QED
  BY <1>1, <1>3, <1>4, <1>5, <1>7 DEF DiskInv, UnitsOk, Idle

(* A transfer goes on while units and scans are as they are. *)
LEMMA TransferGoesOn ==
  ASSUME DiskInv, UNCHANGED <<bootVars>>, io # Idle, io' = Idle \/ Transferring(io')
  PROVE  DiskInv'
<1>1. UNCHANGED <<setup, ddt, todo, scan>>
  BY DEF bootVars
<1>2. Drives' = Drives /\ Booted' /\ Booted
  BY <1>1 DEF Drives, Booted, DiskInv
<1>3. BootInv'
  BY <1>1, <1>2 DEF DiskInv, BootInv, IsScan
<1>4. UnitsOk(ddt)'
  BY <1>1 DEF DiskInv, UnitsOk
<1>5. io' = Idle \/ Transferring(io)'
  <2>1. ASSUME Transferring(io')
        PROVE  Transferring(io)'
    <3>1. Retries(io)'
      BY <1>1, <2>1 DEF Transferring, Retries, Piece, Bounce, Direct, UseLba, TrackLeft
    <3>2. IsRequest(io.req)' /\ (io.req.start + io.req.n <= size(io.req.unit))'
      BY <1>1, <2>1 DEF Transferring, IsRequest, size
    <3>3. QED
      BY <1>1, <2>1, <3>1, <3>2 DEF Transferring
  <2>2. QED
    BY <2>1
<1>6. QED
  BY <1>2, <1>3, <1>4, <1>5 DEF DiskInv, Idle

(* A BIOS call moves its sectors. *)
LEMMA TransferKeeps ==
  ASSUME DiskInv, Transfer(io.req.unit), io # Idle
  PROVE  DiskInv'
<1> DEFINE u == io.req.unit
           n == Piece(u, io.lba, io.addr, io.left)
           c == BiosCall(n)
           base == io.req.start + ddt[u].offset
<1>1. UnitsOk(ddt) /\ Transferring(io)
  BY DEF DiskInv
<1>2. /\ io.left > 0 /\ UNCHANGED bootVars
      /\ io' = [io EXCEPT !.call = <<c>>, !.tries = 0, !.moved = io.moved \cup Pairs(io.lba, io.addr, n),
                          !.lba = io.lba + n, !.addr = NextAddr(io.addr, n), !.left = io.left - n]
  BY DEF Transfer, Busy
<1>3. n \in 1 .. io.left /\ CallFits(c, ddt[u])
  BY <1>1, <1>2, NextCall
<1>4. /\ u \in DOMAIN ddt /\ io.lba \in Nat /\ io.addr \in Nat /\ io.left \in Nat
      /\ io.req.n \in Nat /\ io.req.start \in Nat /\ io.req.addr \in Nat /\ ddt[u].offset \in Nat
      /\ Done(io) \in Nat /\ Done(io) + io.left = io.req.n /\ base \in Nat
      /\ io.lba = base + Done(io) /\ io.addr = io.req.addr + Secsize * Done(io)
  BY <1>1, TransferFacts
<1>5. DOMAIN io = {"phase", "req", "lba", "left", "addr", "tries", "call", "moved"}
  BY <1>1 DEF Transferring
<1> HIDE DEF c, n
<1>6. /\ DOMAIN io' = DOMAIN io /\ io'.req = io.req /\ io'.call = <<c>> /\ io'.tries = 0
      /\ io'.moved = io.moved \cup Pairs(io.lba, io.addr, n)
      /\ io'.lba = io.lba + n /\ io'.addr = NextAddr(io.addr, n) /\ io'.left = io.left - n
  BY <1>2, <1>5
<1>7. Done(io') = Done(io) + n /\ Tried(io') = 0 /\ io'.left \in 0 .. io.req.n
  BY <1>3, <1>4, <1>6 DEF Done, Tried
<1>8. Moved(io', base)
  <2> DEFINE P == Pairs(base, io.req.addr, Done(io) + n)
             Q == Pairs(io.lba, io.addr, n)
             A == Pairs(base, io.req.addr, Done(io))
  <2>1. A \cup Q = P
    <3> DEFINE d == Done(io)
               a == io.req.addr
               x == io.lba
               y == io.addr
    <3>1. base \in Nat /\ a \in Nat /\ d \in Nat /\ n \in Nat /\ x = base + d /\ y = a + Secsize * d
           /\ x \in Nat /\ y \in Nat
      BY <1>3, <1>4
    <3> HIDE DEF base, a, d, x, y, u, P, Q, A
    <3>2. Joined(base, a, d, x, y, n)
      BY <3>1, PairsJoin
    <3>3. QED
      BY <3>2 DEF a, d, x, y, P, A, Q, Joined
  <2>2. A \subseteq io.moved /\ io.moved \subseteq P
    <3>1. A \subseteq io.moved /\ io.moved \subseteq Pairs(base, io.req.addr, Done(io) + Tried(io))
      BY <1>1 DEF Transferring, Moved
    <3>2. Tried(io) \in Nat /\ Tried(io) <= n
      BY <1>1, <1>3 DEF Transferring, Retries, Tried, n
    <3>3. Pairs(base, io.req.addr, Done(io) + Tried(io)) \subseteq P
      <4> HIDE DEF base
      <4>1. Done(io) + Tried(io) \in Nat /\ Done(io) + n \in Nat /\ Done(io) + Tried(io) <= Done(io) + n
        BY <1>3, <1>4, <3>2
      <4>2. QED
        BY <1>4, <4>1, PairsGrow
    <3>4. QED
      BY <3>1, <3>3
  <2>3. io'.moved = P
    BY <1>6, <2>1, <2>2
  <2>4. Done(io') + Tried(io') = Done(io) + n
    BY <1>3, <1>4, <1>7
  <2>5. QED
    BY <1>6, <1>7, <2>3, <2>4 DEF Moved
<1>9. io'.lba = io.req.start + ddt[u].offset + Done(io')
      /\ io'.addr = io.req.addr + Secsize * Done(io')
  BY <1>3, <1>4, <1>6, <1>7 DEF NextAddr, Secsize
<1>10. Retries(io')
  BY <1>6 DEF Retries
<1>11. IsRequest(io'.req) /\ io'.req.start + io'.req.n <= size(io'.req.unit)
  BY <1>1, <1>6 DEF Transferring
<1>12. Transferring(io')
  BY <1>3, <1>5, <1>6, <1>7, <1>8, <1>9, <1>10, <1>11 DEF Transferring
<1>13. QED
  BY <1>2, <1>12, TransferGoesOn

(* One that fails may have moved them, too, and is made again. *)
LEMMA FailureKeeps ==
  ASSUME DiskInv, TransferFails(io.req.unit), io # Idle
  PROVE  DiskInv'
<1> DEFINE u == io.req.unit
           n == Piece(u, io.lba, io.addr, io.left)
           c == BiosCall(n)
           base == io.req.start + ddt[u].offset
<1>1. UnitsOk(ddt) /\ Transferring(io)
  BY DEF DiskInv
<1>2. io.left > 0 /\ UNCHANGED bootVars
  BY DEF TransferFails, Busy
<1>3. n \in 1 .. io.left /\ CallFits(c, ddt[u]) /\ c.n = n
  BY <1>1, <1>2, NextCall
<1>4. ~Refused(u, io.lba)
  BY <1>1, <1>2, NeverRefused
<1>5. PICK k \in {0, n}, phase \in {"busy", "failed"} :
        io' = [io EXCEPT !.call = <<c>>, !.tries = io.tries + 1,
                         !.moved = io.moved \cup Pairs(io.lba, io.addr, k), !.phase = phase]
  BY <1>4 DEF TransferFails
<1>6. /\ u \in DOMAIN ddt /\ io.lba \in Nat /\ io.addr \in Nat /\ io.left \in Nat
      /\ io.req.n \in Nat /\ io.req.start \in Nat /\ io.req.addr \in Nat /\ ddt[u].offset \in Nat
      /\ Done(io) \in Nat /\ Done(io) + io.left = io.req.n /\ base \in Nat
      /\ io.lba = base + Done(io) /\ io.addr = io.req.addr + Secsize * Done(io)
  BY <1>1, TransferFacts
<1>7. DOMAIN io = {"phase", "req", "lba", "left", "addr", "tries", "call", "moved"} /\ io.tries \in Nat
  BY <1>1 DEF Transferring
<1> HIDE DEF c
<1>8. /\ DOMAIN io' = DOMAIN io /\ io'.req = io.req /\ io'.call = <<c>> /\ io'.tries = io.tries + 1
      /\ io'.moved = io.moved \cup Pairs(io.lba, io.addr, k)
      /\ io'.lba = io.lba /\ io'.addr = io.addr /\ io'.left = io.left
  <2> HIDE DEF n
  <2>1. QED
    BY <1>5, <1>7
<1>9. Retries(io')
  BY <1>2, <1>3, <1>8 DEF Retries
<1> HIDE DEF n
<1>10. Done(io') = Done(io) /\ Tried(io') = n
  BY <1>3, <1>7, <1>8 DEF Done, Tried
<1>11. Moved(io', base)
  <2> DEFINE P == Pairs(base, io.req.addr, Done(io) + n)
             A == Pairs(base, io.req.addr, Done(io))
  <2>1. A \subseteq io.moved /\ io.moved \subseteq Pairs(base, io.req.addr, Done(io) + Tried(io))
    BY <1>1 DEF Transferring, Moved
  <2>2. Tried(io) \in Nat /\ Tried(io) <= n
    BY <1>1, <1>3 DEF Transferring, Retries, Tried, n
  <2> HIDE DEF base
  <2>3. Pairs(base, io.req.addr, Done(io) + Tried(io)) \subseteq P
    <3>1. Done(io) + Tried(io) \in Nat /\ Done(io) + n \in Nat /\ Done(io) + Tried(io) <= Done(io) + n
      BY <1>3, <1>6, <2>2
    <3>2. QED
      BY <1>6, <3>1, PairsGrow
  <2>4. Pairs(io.lba, io.addr, n) \subseteq P
    <3> DEFINE d == Done(io)
               a == io.req.addr
               x == io.lba
               y == io.addr
    <3>1. base \in Nat /\ a \in Nat /\ d \in Nat /\ n \in Nat /\ x = base + d /\ y = a + Secsize * d
           /\ x \in Nat /\ y \in Nat
      BY <1>3, <1>6
    <3> HIDE DEF a, d, x, y, P, A
    <3>2. Joined(base, a, d, x, y, n)
      BY <3>1, PairsJoin
    <3>3. QED
      BY <3>2 DEF a, d, x, y, P, A, Joined
  <2>5. Pairs(io.lba, io.addr, 0) = {}
    BY <1>6, PairsNone
  <2> HIDE DEF P, A
  <2>6. Pairs(io.lba, io.addr, k) \subseteq P
    BY <2>4, <2>5
  <2>7. A \subseteq io'.moved /\ io'.moved \subseteq P
    BY <1>8, <2>1, <2>3, <2>6
  <2>8. QED
    BY <1>8, <1>10, <2>7 DEF Moved, P, A
<1>12. IsRequest(io'.req) /\ io'.req.start + io'.req.n <= size(io'.req.unit)
  BY <1>1, <1>8 DEF Transferring
<1>13. /\ io'.left \in 0 .. io.req.n /\ io'.tries \in Nat
       /\ io'.lba = io.req.start + ddt[u].offset + Done(io')
       /\ io'.addr = io.req.addr + Secsize * Done(io')
  BY <1>1, <1>6, <1>7, <1>8, <1>10 DEF Transferring
<1>14. Transferring(io')
  BY <1>3, <1>7, <1>8, <1>9, <1>11, <1>12, <1>13 DEF Transferring
<1>15. QED
  BY <1>2, <1>14, TransferGoesOn

(* A transfer ends. *)
LEMMA FinishKeeps ==
  ASSUME DiskInv, Finish
  PROVE  DiskInv'
BY TransferGoesOn DEF Finish

-----------------------------------------------------------------------------
(* The theorems *)

(* Every step keeps the invariant. *)
LEMMA DiskStep ==
  ASSUME DiskInv, [Next]_vars
  PROVE  DiskInv'
<1>1. CASE InitDiskNext /\ UNCHANGED diskVars
  BY <1>1, BootKeeps
<1>2. ASSUME NEW r \in setup.io, Quiet, r.unit \in Units, blockio(r)
      PROVE  DiskInv'
  BY <1>2, BlockioKeeps
<1>3. CASE LBA_Transfer
  <2>1. io # Idle /\ (Transfer(io.req.unit) \/ TransferFails(io.req.unit))
    BY <1>3 DEF LBA_Transfer
  <2>2. QED
    BY <2>1, TransferKeeps, FailureKeeps
<1>4. CASE Finish
  BY <1>4, FinishKeeps
<1>5. CASE TimePasses
  BY <1>5, UserKeeps
<1>6. CASE Reset
  BY <1>6, BuffersKeep
<1>7. ASSUME NEW f \in DOMAIN drive, ChangeFloppy(f)
      PROVE  DiskInv'
  BY <1>7, UserKeeps
<1>8. ASSUME NEW u \in Units, media_check(u)
      PROVE  DiskInv'
  BY <1>8, MediaCheckKeeps
<1>9. ASSUME NEW u \in Units, NEW b \in BOOLEAN, NEW w \in BOOLEAN, FlushUnit(u) \/ UseSector(u, b, w)
      PROVE  DiskInv'
  BY <1>9, BuffersKeep
<1>10. ASSUME NEW u \in Units, Setlogdev(u) \/ Genblkdev(u)
       PROVE  DiskInv'
  BY <1>10, IoctlKeeps
<1>11. CASE UNCHANGED vars
  <2>1. UNCHANGED <<setup, ddt, todo, scan, io>>
    BY <1>11 DEF vars, bootVars, diskVars
  <2>2. CASE io = Idle
    <3>1. Drives' = Drives /\ (Booted' <=> Booted)
      BY <2>1 DEF Drives, Booted
    <3>2. Lettered(ddt)' <=> Lettered(ddt)
      BY <2>1, <3>1 DEF Lettered, Homes, NewUnits, Floppies, make_ddt
    <3>3. QED
      BY <2>1, <2>2, <3>1, <3>2 DEF DiskInv, BootInv, IsScan, UnitsOk, Idle
  <2>3. CASE io # Idle
    <3>1. UNCHANGED bootVars /\ Transferring(io')
      BY <1>11, <2>1, <2>3 DEF DiskInv, vars
    <3>2. QED
      BY <2>3, <3>1, TransferGoesOn
  <2>4. QED
    BY <2>2, <2>3
<1>12. QED
  BY <1>1, <1>2, <1>3, <1>4, <1>5, <1>6, <1>7, <1>8, <1>9, <1>10, <1>11 DEF Next

(* The invariant holds in every behaviour. *)
THEOREM DiskInvHolds == Spec => []DiskInv
<1>1. DiskInit => DiskInv
  BY BootStarts
<1>2. DiskInv /\ [Next]_vars => DiskInv'
  BY DiskStep
<1>3. QED
  BY <1>1, <1>2, PTL DEF Spec

(* No unit without LBA has sectors on cylinders that LBA_to_CHS refuses: neither the floppies   *)
(* nor what DosDefinePartition took from a partition table.                                     *)
THEOREM LettersAreInReach == Spec => []LettersReach
<1>1. DiskInv => LettersReach
  <2> SUFFICES ASSUME DiskInv
               PROVE  LettersReach
    OBVIOUS
  <2>1. ASSUME NEW u \in DOMAIN ddt
        PROVE  Reach(ddt[u])
    BY <2>1 DEF DiskInv, UnitsOk, IsUnit
  <2>2. QED
    BY <2>1 DEF LettersReach, Reach, Fixed
<1>2. QED
  BY <1>1, DiskInvHolds, PTL

(* A transfer moves each sector it is asked for to its own place, however LBA_Transfer cuts it,  *)
(* and nothing beyond the BIOS call that failed.                                                *)
THEOREM TransfersAreExact == Spec => []TransferExact
<1>1. DiskInv => TransferExact
  <2> SUFFICES ASSUME DiskInv, io # Idle
               PROVE  TransferExact
    BY DEF TransferExact
  <2> DEFINE base == io.req.start + ddt[io.req.unit].offset
             tried == IF io.tries > 0 /\ io.call # <<>> THEN io.call[1].n ELSE 0
  <2>1. UnitsOk(ddt) /\ Transferring(io)
    BY DEF DiskInv
  <2>2. tried = Tried(io)
    BY <2>1 DEF Transferring, Retries, Tried
  <2>3. /\ Pairs(base, io.req.addr, Done(io)) \subseteq io.moved
        /\ io.moved \subseteq Pairs(base, io.req.addr, Done(io) + tried)
    BY <2>1, <2>2 DEF Transferring, Moved
  <2>4. Done(io) + tried <= io.req.n
    <3>1. Done(io) \in Nat /\ io.left \in Nat /\ Done(io) + io.left = io.req.n
      BY <2>1, TransferFacts
    <3>2. Tried(io) \in Nat /\ Tried(io) <= io.left
      <4>1. CASE io.tries > 0
        <5> DEFINE n == Piece(io.req.unit, io.lba, io.addr, io.left)
        <5>1. io.left > 0 /\ Tried(io) = n
          BY <2>1, <4>1 DEF Transferring, Retries, Tried
        <5>2. n \in 1 .. io.left
          BY <2>1, <5>1, NextCall
        <5> HIDE DEF n
        <5>3. QED
          BY <3>1, <5>1, <5>2
      <4>2. CASE ~(io.tries > 0)
        BY <3>1, <4>2 DEF Tried
      <4>3. QED
        BY <4>1, <4>2
    <3>3. QED
      BY <2>2, <3>1, <3>2
  <2>5. QED
    BY <2>3, <2>4 DEF TransferExact, Done
<1>2. QED
  BY <1>1, DiskInvHolds, PTL

(* Every BIOS call of a transfer stays in the unit, on its track and in its page of memory.      *)
THEOREM CallsAreFit == Spec => []CallsFit
<1>1. DiskInv => CallsFit
  <2> SUFFICES ASSUME DiskInv, io # Idle, io.call # <<>>
               PROVE  CallsFit
    BY DEF CallsFit
  <2>1. PICK c : io.call = <<c>> /\ CallFits(c, ddt[io.req.unit])
    BY DEF DiskInv, Transferring
  <2>2. QED
    BY <2>1 DEF CallsFit, CallFits
<1>2. QED
  BY <1>1, DiskInvHolds, PTL

-----------------------------------------------------------------------------
(* What is known of the media *)

(* The DPB and the driver's BPB of a unit are those of the medium in its drive. *)
Medium(v) == dos[v].dpb = Here(v) /\ ddt[v].bpb = Here(v)

(* A media check of it would find nothing changed. *)
Steady(v) ==
  "REFORMAT" \notin ddt[v].flags /\ "DISKCHANGE" \notin ddt[v].flags /\ diskchange(ddt, v) = "not" /\ Kind(v) # "blank"

(* What the next media check of a unit relies on *)
Known(v) ==
  v \notin unchecked /\ ~dos[v].force =>
    /\ ddt[v].last \in {"recent", "old"}
    /\ dos[v].buf \in {Nothing, dos[v].dpb}
    /\ Steady(v) => Medium(v)

(* Of two letters of a floppy drive one at most is the current one. *)
Shared(D) ==
  /\ \A v \in DOMAIN D : IF "FIXED" \in D[v].flags THEN "MULTLOG" \notin D[v].flags ELSE D[v].drive \in DOMAIN drive
  /\ \A v, w \in DOMAIN D :
       v # w /\ D[v].drive = D[w].drive /\ "FIXED" \notin D[v].flags /\ "FIXED" \notin D[w].flags =>
         /\ "MULTLOG" \in D[v].flags /\ "MULTLOG" \in D[w].flags
         /\ "CURLOG" \notin D[v].flags \/ "CURLOG" \notin D[w].flags

Stocked ==
  /\ \A f \in DOMAIN drive : DOMAIN drive[f] = {"disk", "line"} /\ drive[f].disk \in DOMAIN media
  /\ \A d \in DOMAIN media : DOMAIN media[d] = {"kind", "serial"}
  /\ "default" \notin DOMAIN media
  /\ DOMAIN dos = 1 .. NDEV /\ DOMAIN ddt \subseteq DOMAIN dos
  /\ \A v \in DOMAIN dos : DOMAIN dos[v] = {"dpb", "buf", "dirty", "force"} /\ dos[v].force \in BOOLEAN

MediaInv ==
  /\ ~Booted \/ setup.mask # {} => checked = 0
  /\ setup.mask = {} =>
       /\ Stocked /\ Shared(ddt)
       /\ ~Booted => DOMAIN drive = 0 .. setup.floppies - 1 /\ \A v \in DOMAIN dos : dos[v].force
       /\ \A v \in Units : Known(v)
       /\ MediumKnown

-----------------------------------------------------------------------------
(* What the driver notes of the unit it works on *)

(* The marks of a changed disk, and the notes *)
Remains(E, D, u) ==
  /\ E[u].bpb = D[u].bpb /\ E[u].last = D[u].last
  /\ \A f \in {"REFORMAT", "DISKCHANGE"} : f \in E[u].flags <=> f \in D[u].flags

(* Flags of a unit are set and cleared. *)
LEMMA MarksGive ==
  ASSUME NEW D, UnitsOk(D), NEW u \in DOMAIN D, NEW F
  PROVE  /\ \A E \in {AddFlags(D, u, F), DropFlags(D, u, F)} : E[u].bpb = D[u].bpb /\ E[u].last = D[u].last
         /\ AddFlags(D, u, F)[u].flags = D[u].flags \cup F
         /\ DropFlags(D, u, F)[u].flags = D[u].flags \ F
<1> DEFINE a == [D[u] EXCEPT !.flags = D[u].flags \cup F]
           b == [D[u] EXCEPT !.flags = D[u].flags \ F]
<1>1. AddFlags(D, u, F)[u] = a /\ DropFlags(D, u, F)[u] = b
  BY DEF AddFlags, DropFlags
<1>2. /\ a.bpb = D[u].bpb /\ a.last = D[u].last /\ a.flags = D[u].flags \cup F
      /\ b.bpb = D[u].bpb /\ b.last = D[u].last /\ b.flags = D[u].flags \ F
  BY DEF UnitsOk, IsUnit, Fields
<1> HIDE DEF a, b
<1>3. QED
  BY <1>1, <1>2

(* Flags that do not last are set and cleared. *)
LEMMA MarksTurned ==
  ASSUME NEW D, UnitsOk(D), NEW u \in DOMAIN D, NEW F, F \cap Lasting = {}, "CURLOG" \notin F
  PROVE  Turned(AddFlags(D, u, F), D, u) /\ Turned(DropFlags(D, u, F), D, u)
<1>1. AddFlags(D, u, F) = [D EXCEPT ![u] = [D[u] EXCEPT !.flags = D[u].flags \cup F]]
  BY DEF AddFlags
<1>2. DropFlags(D, u, F) = [D EXCEPT ![u] = [D[u] EXCEPT !.flags = D[u].flags \ F]]
  BY DEF DropFlags
<1> DEFINE X == D[u].flags \cup F
           Y == D[u].flags \ F
<1>3. \A f \in Lasting : (f \in X <=> f \in D[u].flags) /\ (f \in Y <=> f \in D[u].flags)
  OBVIOUS
<1>4. ("CURLOG" \in X => "CURLOG" \in D[u].flags) /\ ("CURLOG" \in Y => "CURLOG" \in D[u].flags)
  OBVIOUS
<1> HIDE DEF X, Y
<1>5. Turned([D EXCEPT ![u] = [D[u] EXCEPT !.flags = X]], D, u)
  BY <1>3, <1>4, FlagsTurned
<1>6. Turned([D EXCEPT ![u] = [D[u] EXCEPT !.flags = Y]], D, u)
  BY <1>3, <1>4, FlagsTurned
<1>7. QED
  BY <1>1, <1>2, <1>5, <1>6 DEF X, Y

(* A letter becomes the current one of its drive. *)
LEMMA CurrentGives ==
  ASSUME NEW D, UnitsOk(D), NEW u \in DOMAIN D
  PROVE  Remains(SetCurrent(D, u), D, u) /\ Remains(play_dj(D, u), D, u)
<1>1. SetCurrent(D, u)[u] = [D[u] EXCEPT !.flags = D[u].flags \cup {"CURLOG"}]
  BY DEF SetCurrent
<1>2. Remains(SetCurrent(D, u), D, u)
  BY <1>1 DEF Remains, UnitsOk, IsUnit, Fields
<1>3. QED
  BY <1>2 DEF play_dj, Remains

(* A changed disk is marked. *)
LEMMA ChangedGives ==
  ASSUME NEW D, UnitsOk(D), NEW u \in DOMAIN D, NEW C, C = Changed(D, u)
  PROVE  /\ UnitsOk(C) /\ Turned(C, D, u) /\ ~NeedsSwap(C, u)
         /\ C[u].bpb = D[u].bpb /\ C[u].last = D[u].last
         /\ "REFORMAT" \in C[u].flags <=> "REFORMAT" \in D[u].flags
         /\ "DISKCHANGE" \in D[u].flags => "DISKCHANGE" \in C[u].flags
         /\ diskchange(D, u) # "not" => "DISKCHANGE" \in C[u].flags
<1> DEFINE P == play_dj(D, u)
<1>1. UnitsOk(P) /\ Turned(P, D, u) /\ ~NeedsSwap(P, u) /\ Remains(P, D, u) /\ u \in DOMAIN P
  BY CurrentOk, CurrentTurned, CurrentGives DEF Turned
<1> DEFINE A == AddFlags(P, u, {"DISKCHANGE"})
<1>2. C = IF diskchange(D, u) = "not" THEN P ELSE A
  BY DEF Changed
<1> HIDE DEF P
<1>3. /\ UnitsOk(A) /\ Turned(A, P, u)
      /\ A[u].bpb = P[u].bpb /\ A[u].last = P[u].last /\ A[u].flags = P[u].flags \cup {"DISKCHANGE"}
  BY <1>1, MarkedOk, MarksTurned, MarksGive DEF Lasting
<1> HIDE DEF A
<1>4. Turned(A, D, u)
  BY <1>1, <1>3, TurnedAgain
<1>5. ~NeedsSwap(A, u)
  BY <1>1, <1>3 DEF NeedsSwap
<1>6. CASE diskchange(D, u) = "not"
  BY <1>1, <1>2, <1>6 DEF Remains
<1>7. CASE diskchange(D, u) # "not"
  <2>1. C = A
    BY <1>2, <1>7
  <2>2. QED
    BY <1>1, <1>3, <1>4, <1>5, <2>1 DEF Remains
<1>8. QED
  BY <1>6, <1>7

(* A boot sector is taken over. *)
LEMMA LearnGives ==
  ASSUME NEW C, UnitsOk(C), NEW u \in DOMAIN C, NEW L, L = Learn(C, u)
  PROVE  /\ UnitsOk(L) /\ Turned(L, C, u) /\ (NeedsSwap(L, u) <=> NeedsSwap(C, u))
         /\ L[u].bpb = Here(u) /\ L[u].last = "recent"
         /\ \A f \in {"REFORMAT", "DISKCHANGE"} : f \in L[u].flags <=> f \in C[u].flags
<1> DEFINE e == [C[u] EXCEPT !.flags = C[u].flags \ {"NOACCESS"}]
           x == IF hd(u) THEN C[u].serial ELSE media[In(u)].serial
           f == [C EXCEPT ![u] = e]
           g == [f EXCEPT ![u].bpb = Here(u)]
           h == [g EXCEPT ![u].last = "recent"]
           i == [h EXCEPT ![u].serial = x]
           k == [e EXCEPT !.bpb = Here(u), !.last = "recent", !.serial = x]
<1>1. L = i /\ i[u] = k /\ f = DropFlags(C, u, {"NOACCESS"})
  BY DEF Learn, DropFlags
<1>2. /\ k.bpb = Here(u) /\ k.last = "recent"
      /\ k.flags = C[u].flags \ {"NOACCESS"}
  BY DEF UnitsOk, IsUnit, Fields
<1>3. UnitsOk(f) /\ Turned(f, C, u) /\ u \in DOMAIN f
  <2> HIDE DEF f
  <2>1. UnitsOk(f) /\ Turned(f, C, u)
    BY <1>1, MarkedOk, MarksTurned DEF Lasting
  <2>2. QED
    BY <2>1 DEF Turned
<1>4. UnitsOk(g) /\ Turned(g, C, u) /\ u \in DOMAIN g
  <2> HIDE DEF f
  <2>1. UnitsOk(g) /\ Turned(g, f, u) /\ u \in DOMAIN g
    BY <1>3, NotedOk, NoteTurned
  <2> HIDE DEF g
  <2>2. QED
    BY <1>3, <2>1, TurnedAgain
<1>5. UnitsOk(h) /\ Turned(h, C, u) /\ u \in DOMAIN h
  <2> HIDE DEF g
  <2>1. UnitsOk(h) /\ Turned(h, g, u) /\ u \in DOMAIN h
    BY <1>4, NotedOk, NoteTurned
  <2> HIDE DEF h
  <2>2. QED
    BY <1>4, <2>1, TurnedAgain
<1>6. UnitsOk(i) /\ Turned(i, C, u)
  <2> HIDE DEF h
  <2>1. UnitsOk(i) /\ Turned(i, h, u)
    BY <1>5, NotedOk, NoteTurned
  <2> HIDE DEF i
  <2>2. QED
    BY <1>5, <2>1, TurnedAgain
<1> HIDE DEF i, k, f
<1>7. NeedsSwap(L, u) <=> NeedsSwap(C, u)
  BY <1>1, <1>2 DEF NeedsSwap
<1>8. QED
  BY <1>1, <1>2, <1>6, <1>7

(* What getbpb answers, and what it makes of the unit *)
Got(g, D, u) ==
  /\ UnitsOk(g.ddt) /\ Turned(g.ddt, D, u) /\ ~NeedsSwap(g.ddt, u)
  /\ g.ddt[u].last \in {D[u].last, "recent"}
  /\ "REFORMAT" \in g.ddt[u].flags <=> "REFORMAT" \in D[u].flags
  /\ "DISKCHANGE" \in D[u].flags \/ diskchange(D, u) # "not" => "DISKCHANGE" \in g.ddt[u].flags
  /\ g.ret = "ok" => g.ddt[u].bpb = Here(u) /\ g.ddt[u].last = "recent"
  /\ g.ret = "done" => Kind(u) = "blank" /\ g.ddt[u].bpb = "default"
  /\ g.ret \notin {"ok", "done"} => g.ret = "error" /\ g.ddt[u].bpb \in {D[u].bpb, Here(u)}

(* getbpb does so. *)
LEMMA BpbGives ==
  ASSUME NEW D, UnitsOk(D), NEW u \in DOMAIN D, NEW read, NEW g, g = getbpb(D, u, read)
  PROVE  Got(g, D, u)
<1> DEFINE C == Changed(D, u)
           B == [C EXCEPT ![u].bpb = "default"]
           L == Learn(C, u)
<1>1. /\ UnitsOk(C) /\ Turned(C, D, u) /\ ~NeedsSwap(C, u)
      /\ C[u].bpb = D[u].bpb /\ C[u].last = D[u].last
      /\ "REFORMAT" \in C[u].flags <=> "REFORMAT" \in D[u].flags
      /\ "DISKCHANGE" \in D[u].flags \/ diskchange(D, u) # "not" => "DISKCHANGE" \in C[u].flags
  <2> HIDE DEF C
  <2>1. C = Changed(D, u)
    BY DEF C
  <2>2. QED
    BY <2>1, ChangedGives
<1>2. u \in DOMAIN C
  BY <1>1 DEF Turned
<1>3. \/ g = [ddt |-> C, ret |-> "error"] \/ g = [ddt |-> L, ret |-> "error"] \/ g = [ddt |-> L, ret |-> "ok"]
      \/ Kind(u) = "blank" /\ g = [ddt |-> B, ret |-> "done"]
  BY DEF getbpb
<1> HIDE DEF C
<1>4. /\ UnitsOk(L) /\ Turned(L, C, u) /\ ~NeedsSwap(L, u)
      /\ L[u].bpb = Here(u) /\ L[u].last = "recent"
      /\ \A f \in {"REFORMAT", "DISKCHANGE"} : f \in L[u].flags <=> f \in C[u].flags
  <2> HIDE DEF L
  <2>1. L = Learn(C, u)
    BY DEF L
  <2>2. QED
    BY <1>1, <1>2, <2>1, LearnGives
<1> HIDE DEF L
<1>5. Turned(L, D, u)
  BY <1>1, <1>4, TurnedAgain
<1>6. /\ UnitsOk(B) /\ Turned(B, C, u)
      /\ B[u].bpb = "default" /\ B[u].last = C[u].last /\ B[u].flags = C[u].flags
  <2>1. UnitsOk(B) /\ Turned(B, C, u)
    BY <1>1, <1>2, NotedOk, NoteTurned
  <2>2. B[u] = [C[u] EXCEPT !.bpb = "default"]
    BY <1>2
  <2> HIDE DEF B
  <2>3. QED
    BY <1>1, <1>2, <2>1, <2>2 DEF UnitsOk, IsUnit, Fields
<1> HIDE DEF B
<1>7. Turned(B, D, u)
  BY <1>1, <1>6, TurnedAgain
<1>8. ~NeedsSwap(B, u)
  BY <1>1, <1>6 DEF NeedsSwap
<1>9. CASE g = [ddt |-> C, ret |-> "error"]
  BY <1>1, <1>9 DEF Got
<1>10. CASE g = [ddt |-> L, ret |-> "error"] \/ g = [ddt |-> L, ret |-> "ok"]
  <2>1. g.ddt = L /\ g.ret \in {"error", "ok"}
    BY <1>10
  <2>2. QED
    BY <1>1, <1>4, <1>5, <2>1 DEF Got
<1>11. CASE Kind(u) = "blank" /\ g = [ddt |-> B, ret |-> "done"]
  BY <1>1, <1>6, <1>7, <1>8, <1>11 DEF Got
<1>12. QED
  BY <1>3, <1>9, <1>10, <1>11

(* What the driver can say *)
LEMMA ChangeIs ==
  ASSUME NEW D, NEW u
  PROVE  diskchange(D, u) \in {"not", "changed", "dontknow"}
BY DEF diskchange

(* What a media check answers, and what it makes of the unit *)
Checked(m, D, u) ==
  /\ UnitsOk(m.ddt) /\ Turned(m.ddt, D, u)
  /\ m.ddt[u].last \in {D[u].last, "recent"}
  /\ m.ret = "not" => /\ m.ddt = play_dj(D, u) /\ diskchange(D, u) = "not"
                      /\ "REFORMAT" \notin D[u].flags /\ "DISKCHANGE" \notin D[u].flags
  /\ m.ret = "dontknow" => Kind(u) = "blank" \/ m.ddt[u].bpb \in {D[u].bpb, Here(u)}
  /\ m.ret = "error" => "DISKCHANGE" \in m.ddt[u].flags

(* mediachk does so. *)
LEMMA CheckGives ==
  ASSUME NEW D, UnitsOk(D), NEW u \in DOMAIN D, NEW read, NEW m, m = mediachk(D, u, read)
  PROVE  Checked(m, D, u)
<1> DEFINE A == DropFlags(D, u, {"REFORMAT"})
           B == DropFlags(D, u, {"DISKCHANGE"})
           P == play_dj(D, u)
           g == getbpb(D, u, read)
           c == diskchange(D, u)
           y == IF g.ret = "error" THEN "error" ELSE IF SameSerial(D, u) THEN "dontknow" ELSE "changed"
<1>1. \/ m = [ddt |-> A, ret |-> "changed"]
      \/ m = [ddt |-> B, ret |-> "dontknow"]
      \/ /\ "REFORMAT" \notin D[u].flags /\ "DISKCHANGE" \notin D[u].flags /\ c # "dontknow"
         /\ m = [ddt |-> P, ret |-> c]
      \/ c = "dontknow" /\ m = [ddt |-> g.ddt, ret |-> y]
  <2> HIDE DEF A, B, P, c
  <2>1. m = CASE "REFORMAT" \in D[u].flags -> [ddt |-> A, ret |-> "changed"]
              [] "REFORMAT" \notin D[u].flags /\ "DISKCHANGE" \in D[u].flags -> [ddt |-> B, ret |-> "dontknow"]
              [] OTHER -> IF c # "dontknow" THEN [ddt |-> P, ret |-> c] ELSE [ddt |-> g.ddt, ret |-> y]
    BY DEF mediachk, A, B, P, c
  <2> HIDE DEF g, y
  <2>2. QED
    BY <2>1
<1>2. UnitsOk(A) /\ Turned(A, D, u) /\ A[u].last = D[u].last
  BY MarkedOk, MarksTurned, MarksGive DEF Lasting
<1>3. UnitsOk(B) /\ Turned(B, D, u) /\ B[u].last = D[u].last /\ B[u].bpb = D[u].bpb
  BY MarkedOk, MarksTurned, MarksGive DEF Lasting
<1>4. UnitsOk(P) /\ Turned(P, D, u) /\ P[u].last = D[u].last
  BY CurrentOk, CurrentTurned, CurrentGives DEF Remains
<1>5. Got(g, D, u)
  BY BpbGives
<1>6. c \in {"not", "changed", "dontknow"}
  BY ChangeIs
<1>7. y \in {"error", "dontknow", "changed"} /\ (y = "error" <=> g.ret = "error")
  OBVIOUS
<1> HIDE DEF A, B, g, y
<1>8. CASE m = [ddt |-> A, ret |-> "changed"]
  BY <1>2, <1>8 DEF Checked
<1>9. CASE m = [ddt |-> B, ret |-> "dontknow"]
  BY <1>3, <1>9 DEF Checked
<1>10. CASE /\ "REFORMAT" \notin D[u].flags /\ "DISKCHANGE" \notin D[u].flags /\ c # "dontknow"
            /\ m = [ddt |-> P, ret |-> c]
  <2>1. m.ddt = P /\ m.ret = c
    BY <1>10
  <2>2. c = "not" \/ c = "changed"
    BY <1>6, <1>10
  <2>3. P = play_dj(D, u) /\ c = diskchange(D, u)
    OBVIOUS
  <2> HIDE DEF P, c
  <2>4. QED
    BY <1>4, <1>10, <2>1, <2>2, <2>3 DEF Checked
<1>11. CASE c = "dontknow" /\ m = [ddt |-> g.ddt, ret |-> y]
  <2>1. m.ddt = g.ddt /\ m.ret = y /\ diskchange(D, u) # "not"
    BY <1>11
  <2>2. g.ret # "error" => Kind(u) = "blank" \/ g.ddt[u].bpb = Here(u)
    BY <1>5 DEF Got
  <2>3. QED
    BY <1>5, <1>7, <2>1, <2>2 DEF Checked, Got
<1>12. QED
  BY <1>1, <1>8, <1>9, <1>10, <1>11

-----------------------------------------------------------------------------
(* A call on one unit, and the other units *)

IsDos(x) == DOMAIN x = {"dpb", "buf", "dirty", "force"} /\ x.force \in BOOLEAN

(* What a call on unit u does to drives, floppies and DOS's tables *)
Refitted(u) ==
  /\ drive' = drive \/ (Touch(u) /\ ~NeedsSwap(ddt', u))
  /\ DOMAIN media' = DOMAIN media
  /\ \A d \in DOMAIN media : DOMAIN media'[d] = {"kind", "serial"} /\ (media[d].kind = "blank" => media'[d].kind = "blank")
  /\ DOMAIN dos' = DOMAIN dos
  /\ \A v \in DOMAIN dos : IsDos(dos'[v]) /\ (v # u => dos'[v] = dos[v])
  /\ unchecked \ {u} \subseteq unchecked'

(* Each unit still has its floppy. *)
LEMMA PlacesStay ==
  ASSUME Stocked, Shared(ddt), UnitsOk(ddt), NEW u \in Units, Turned(ddt', ddt, u), Refitted(u)
  PROVE  /\ DOMAIN drive' = DOMAIN drive
         /\ \A f \in DOMAIN drive : DOMAIN drive'[f] = {"disk", "line"} /\ drive'[f].disk = drive[f].disk
         /\ \A v \in Units : /\ hd(v)' <=> hd(v)
                             /\ Here(v)' = Here(v)
                             /\ Kind(v) = "blank" => Kind(v)' = "blank"
<1>1. /\ DOMAIN drive' = DOMAIN drive
      /\ \A f \in DOMAIN drive : DOMAIN drive'[f] = {"disk", "line"} /\ drive'[f].disk = drive[f].disk
  <2>1. CASE drive' = drive
    BY <2>1 DEF Stocked
  <2>2. CASE Touch(u) /\ ~hd(u)
    <3> DEFINE x == ddt[u].drive
               y == [drive[x] EXCEPT !.line = FALSE]
    <3>1. x \in DOMAIN drive /\ drive' = [drive EXCEPT ![x] = y]
      BY <2>2 DEF Shared, hd, Touch, Units
    <3>2. DOMAIN y = {"disk", "line"} /\ y.disk = drive[x].disk
      BY <3>1 DEF Stocked
    <3> HIDE DEF x, y
    <3>3. QED
      BY <3>1, <3>2 DEF Stocked
  <2>3. QED
    BY <2>1, <2>2 DEF Refitted, Touch
<1>2. ASSUME NEW v \in Units
      PROVE  /\ hd(v)' <=> hd(v)
             /\ Here(v)' = Here(v)
             /\ Kind(v) = "blank" => Kind(v)' = "blank"
  <2>1. ddt'[v].drive = ddt[v].drive /\ ("FIXED" \in ddt'[v].flags <=> "FIXED" \in ddt[v].flags)
    BY DEF Turned, SameKind, Lasting, Units
  <2>2. hd(v)' <=> hd(v)
    BY <2>1 DEF hd
  <2>3. CASE hd(v)
    BY <2>2, <2>3 DEF Here, Kind
  <2>4. CASE ~hd(v)
    <3>1. ddt[v].drive \in DOMAIN drive
      BY <2>4 DEF Shared, hd, Units
    <3>2. In(v)' = In(v) /\ In(v) \in DOMAIN media
      BY <1>1, <2>1, <3>1 DEF In, Stocked
    <3>3. media[In(v)].kind = "blank" => media'[In(v)].kind = "blank"
      BY <3>2 DEF Refitted
    <3>4. QED
      BY <2>2, <2>4, <3>2, <3>3 DEF Here, Kind
  <2>5. QED
    BY <2>2, <2>3, <2>4
<1>3. QED
  BY <1>1, <1>2

(* The letters of a drive still share it. *)
LEMMA SharingStays ==
  ASSUME Stocked, Shared(ddt), UnitsOk(ddt), NEW u \in Units, Turned(ddt', ddt, u), Refitted(u)
  PROVE  Stocked' /\ Shared(ddt)'
<1> DEFINE E == ddt'
<1>1. /\ DOMAIN drive' = DOMAIN drive /\ DOMAIN E = DOMAIN ddt
      /\ \A f \in DOMAIN drive : DOMAIN drive'[f] = {"disk", "line"} /\ drive'[f].disk = drive[f].disk
  BY PlacesStay DEF Turned
<1>2. Stocked'
  BY <1>1 DEF Stocked, Refitted, IsDos
<1>3. ASSUME NEW v \in DOMAIN ddt
      PROVE  /\ E[v].drive = ddt[v].drive
             /\ "FIXED" \in E[v].flags <=> "FIXED" \in ddt[v].flags
             /\ "MULTLOG" \in E[v].flags <=> "MULTLOG" \in ddt[v].flags
             /\ v # u /\ "CURLOG" \in E[v].flags => "CURLOG" \in ddt[v].flags
  BY DEF Turned, SameKind, AsBefore, Lasting
<1>4. ASSUME NEW v \in DOMAIN E
      PROVE  IF "FIXED" \in E[v].flags THEN "MULTLOG" \notin E[v].flags ELSE E[v].drive \in DOMAIN drive'
  BY <1>1, <1>3 DEF Shared
<1>5. ASSUME NEW v \in DOMAIN E, NEW w \in DOMAIN E, v # w, E[v].drive = E[w].drive,
             "FIXED" \notin E[v].flags, "FIXED" \notin E[w].flags
      PROVE  /\ "MULTLOG" \in E[v].flags /\ "MULTLOG" \in E[w].flags
             /\ "CURLOG" \notin E[v].flags \/ "CURLOG" \notin E[w].flags
  <2>1. /\ v \in DOMAIN ddt /\ w \in DOMAIN ddt /\ ddt[v].drive = ddt[w].drive
        /\ "FIXED" \notin ddt[v].flags /\ "FIXED" \notin ddt[w].flags
    BY <1>1, <1>3, <1>5
  <2>2. /\ "MULTLOG" \in ddt[v].flags /\ "MULTLOG" \in ddt[w].flags
        /\ "CURLOG" \notin ddt[v].flags \/ "CURLOG" \notin ddt[w].flags
    BY <1>5, <2>1 DEF Shared
  <2>3. "MULTLOG" \in E[v].flags /\ "MULTLOG" \in E[w].flags
    BY <1>3, <2>1, <2>2
  <2>4. "CURLOG" \in E[u].flags => "CURLOG" \in ddt[u].flags \/ Alone(E, u)
    BY DEF Turned
  <2>5. CASE v = u
    <3>1. Alone(E, u) => "CURLOG" \notin E[w].flags
      BY <1>5, <2>3, <2>5 DEF Alone
    <3>2. QED
      BY <1>3, <1>5, <2>1, <2>2, <2>3, <2>4, <2>5, <3>1
  <2>6. CASE w = u
    <3>1. Alone(E, u) => "CURLOG" \notin E[v].flags
      BY <1>5, <2>3, <2>6 DEF Alone
    <3>2. QED
      BY <1>3, <1>5, <2>1, <2>2, <2>3, <2>4, <2>6, <3>1
  <2>7. CASE v # u /\ w # u
    BY <1>3, <2>1, <2>2, <2>3, <2>7
  <2>8. QED
    BY <2>5, <2>6, <2>7
<1>6. Shared(ddt)'
  BY <1>4, <1>5 DEF Shared
<1>7. QED
  BY <1>2, <1>6

(* What is known of another unit stays true. *)
LEMMA OthersKnown ==
  ASSUME Stocked, Shared(ddt), UnitsOk(ddt), NEW u \in Units, Turned(ddt', ddt, u), Refitted(u),
         NEW v \in Units, v # u, Known(v)
  PROVE  Known(v)'
<1>1. /\ DOMAIN drive' = DOMAIN drive
      /\ hd(v)' <=> hd(v)
      /\ Here(v)' = Here(v)
      /\ Kind(v) = "blank" => Kind(v)' = "blank"
  BY PlacesStay
<1>2. Shared(ddt)' /\ u \in DOMAIN ddt' /\ v \in DOMAIN ddt'
  BY SharingStays DEF Turned, Units
<1>3. /\ ddt'[v].drive = ddt[v].drive /\ ddt'[v].bpb = ddt[v].bpb /\ ddt'[v].last = ddt[v].last
      /\ ddt'[v].flags = ddt[v].flags \/ ddt'[v].flags = ddt[v].flags \ {"CURLOG"}
  BY DEF Turned, AsBefore, Units
<1>4. dos'[v] = dos[v] /\ (v \notin unchecked' => v \notin unchecked)
  BY DEF Refitted, Stocked, Units
<1>5. ASSUME diskchange(ddt, v)' = "not"
      PROVE  diskchange(ddt, v) = "not"
  <2>1. CASE hd(v)
    BY <2>1 DEF diskchange
  <2>2. CASE ~hd(v)
    <3>1. ~NeedsSwap(ddt', v)
      BY <1>1, <1>5, <2>2 DEF diskchange
    <3>2. ~NeedsSwap(ddt, v) /\ ("CURLOG" \in ddt'[v].flags \/ "MULTLOG" \notin ddt'[v].flags)
      BY <1>3, <3>1 DEF NeedsSwap
    <3>3. CASE "CHANGELINE" \in ddt[v].flags
      <4>1. ~drive'[ddt[v].drive].line
        BY <1>1, <1>3, <1>5, <2>2, <3>1, <3>3 DEF diskchange
      <4>2. ~drive[ddt[v].drive].line
        <5>1. CASE drive' = drive
          BY <4>1, <5>1
        <5>2. CASE Touch(u) /\ ~NeedsSwap(ddt', u) /\ ~hd(u)
          <6>1. ddt[u].drive # ddt[v].drive
            <7>1. SUFFICES ASSUME ddt[u].drive = ddt[v].drive
                           PROVE  FALSE
              OBVIOUS
            <7>2. ddt'[u].drive = ddt'[v].drive /\ "FIXED" \notin ddt'[u].flags /\ "FIXED" \notin ddt'[v].flags
              BY <1>3, <2>2, <5>2, <7>1 DEF Turned, SameKind, Lasting, hd, Units
            <7>3. /\ "MULTLOG" \in ddt'[u].flags /\ "MULTLOG" \in ddt'[v].flags
                  /\ "CURLOG" \notin ddt'[u].flags \/ "CURLOG" \notin ddt'[v].flags
              BY <1>2, <7>2 DEF Shared
            <7>4. QED
              BY <3>2, <5>2, <7>3 DEF NeedsSwap
          <6>2. drive' = [drive EXCEPT ![ddt[u].drive] = [drive[ddt[u].drive] EXCEPT !.line = FALSE]]
            BY <5>2 DEF Touch
          <6>3. QED
            BY <4>1, <6>1, <6>2
        <5>3. QED
          BY <5>1, <5>2 DEF Refitted, Touch
      <4>3. QED
        BY <2>2, <3>2, <3>3, <4>2 DEF diskchange
    <3>4. CASE "CHANGELINE" \notin ddt[v].flags
      <4>1. ~tdelay(ddt[v])
        BY <1>1, <1>3, <1>5, <2>2, <3>1, <3>4 DEF diskchange, tdelay
      <4>2. QED
        BY <2>2, <3>2, <3>4, <4>1 DEF diskchange
    <3>5. QED
      BY <3>3, <3>4
  <2>3. QED
    BY <2>1, <2>2
<1>6. Steady(v)' => Steady(v)
  BY <1>1, <1>3, <1>5 DEF Steady
<1>7. Medium(v) => Medium(v)'
  BY <1>1, <1>3, <1>4 DEF Medium
<1>8. QED
  BY <1>3, <1>4, <1>6, <1>7 DEF Known

(* What a media check that finds nothing changed has to be right about *)
Right(u) ==
  u \notin unchecked /\ Kind(u) # "blank" =>
    Medium(u) /\ dos[u].buf \in {Nothing, dos[u].dpb}

(* A call on one unit keeps what is known of all. *)
LEMMA UnitTurns ==
  ASSUME DiskInv, MediaInv, Quiet, UNCHANGED <<setup, todo, scan>>, setup.mask = {}, NEW u \in Units,
         Turned(ddt', ddt, u), Refitted(u), Known(u)', checked' = 0 \/ (checked' = u /\ Right(u)')
  PROVE  MediaInv'
<1>1. Booted /\ Booted'
  BY DEF Quiet, Booted
<1>2. Stocked /\ Shared(ddt) /\ UnitsOk(ddt) /\ (\A v \in Units : Known(v)) /\ setup'.mask = {}
  BY DEF MediaInv, DiskInv
<1>3. Stocked' /\ Shared(ddt)'
  BY <1>2, SharingStays
<1>4. Units' = Units
  BY DEF Turned, Units
<1>5. ASSUME NEW v \in Units
      PROVE  Known(v)'
  BY <1>2, OthersKnown
<1>6. MediumKnown'
  BY DEF MediumKnown, Right, Medium
<1>7. QED
  BY <1>1, <1>2, <1>3, <1>4, <1>5, <1>6 DEF MediaInv

(* A unit is used: it is noted when its disk is not the one that is known. *)
LEMMA UseIsNoted ==
  ASSUME Stocked, Shared(ddt), UnitsOk(ddt), NEW u \in Units, Turned(ddt', ddt, u), Refitted(u), Known(u),
         unchecked' = Unlooked(u),
         Kind(u) = "blank" \/ ddt'[u].bpb \in {ddt[u].bpb, Here(u)},
         ddt'[u].last \in {ddt[u].last, "recent"},
         dos'[u].force = dos[u].force, dos'[u].dpb = dos[u].dpb,
         dos'[u].buf \in {dos[u].buf, Nothing, Here(u)}
  PROVE  Known(u)'
<1>1. Here(u)' = Here(u) /\ (Kind(u) = "blank" => Kind(u)' = "blank")
  BY PlacesStay
<1>2. ASSUME u \notin unchecked', ~dos'[u].force
      PROVE  /\ ddt'[u].last \in {"recent", "old"}
             /\ dos'[u].buf \in {Nothing, dos'[u].dpb}
             /\ Steady(u)' => Medium(u)'
  <2>1. u \notin unchecked /\ dos[u].dpb = Here(u) /\ ddt[u].bpb = Here(u)
    BY <1>2 DEF Unlooked
  <2>2. ddt[u].last \in {"recent", "old"} /\ dos[u].buf \in {Nothing, dos[u].dpb}
    BY <1>2, <2>1 DEF Known
  <2>3. Kind(u) # "blank" => Medium(u)'
    BY <1>1, <2>1 DEF Medium
  <2>4. Steady(u)' => Kind(u) # "blank"
    BY <1>1 DEF Steady
  <2>5. QED
    BY <2>1, <2>2, <2>3, <2>4
<1>3. QED
  BY <1>2 DEF Known

(* A unit is only looked at: what is steady after it was so before. *)
LEMMA LookIsKnown ==
  ASSUME Stocked, Shared(ddt), UnitsOk(ddt), NEW u \in Units, Turned(ddt', ddt, u), Refitted(u), Known(u),
         u \notin unchecked' => u \notin unchecked,
         Steady(u)' => Steady(u) /\ ddt'[u].bpb \in {ddt[u].bpb, Here(u)},
         ddt'[u].last \in {ddt[u].last, "recent"},
         dos'[u].force = dos[u].force, dos'[u].dpb = dos[u].dpb, dos'[u].buf \in {dos[u].buf, Nothing}
  PROVE  Known(u)'
<1>1. Here(u)' = Here(u)
  BY PlacesStay
<1>2. ASSUME u \notin unchecked', ~dos'[u].force
      PROVE  /\ ddt'[u].last \in {"recent", "old"}
             /\ dos'[u].buf \in {Nothing, dos'[u].dpb}
             /\ Steady(u)' => Medium(u)'
  <2>1. /\ ddt[u].last \in {"recent", "old"} /\ dos[u].buf \in {Nothing, dos[u].dpb}
        /\ Steady(u) => Medium(u)
    BY <1>2 DEF Known
  <2>2. QED
    BY <1>1, <2>1 DEF Medium
<1>3. QED
  BY <1>2 DEF Known

(* The drives stay, or the drive of u is used. *)
LEMMA OnlyDriven ==
  ASSUME Stocked, NEW u, drive' = drive \/ (Touch(u) /\ ~NeedsSwap(ddt', u)), media' = media,
         DOMAIN dos' = DOMAIN dos, IsDos(dos'[u]), \A v \in DOMAIN dos \ {u} : dos'[v] = dos[v],
         unchecked \ {u} \subseteq unchecked'
  PROVE  Refitted(u)
BY DEF Refitted, Stocked, IsDos

-----------------------------------------------------------------------------
(* What is known after each call *)

Clocked(P, u) == [P EXCEPT ![u].last = "recent"]

(* The driver is used: the unit becomes current, and the clock is marked. *)
LEMMA UseGives ==
  ASSUME NEW D, UnitsOk(D), NEW u \in DOMAIN D, NEW P, P = play_dj(D, u) \/ P = D,
         NEW E, E = Clocked(P, u)
  PROVE  /\ Turned(E, D, u) /\ E[u].bpb = D[u].bpb /\ E[u].last = "recent"
         /\ P = play_dj(D, u) => ~NeedsSwap(E, u)
<1>1. /\ UnitsOk(P) /\ Turned(P, D, u) /\ P[u].bpb = D[u].bpb
      /\ P = play_dj(D, u) => ~NeedsSwap(P, u)
  BY CurrentOk, CurrentTurned, CurrentGives, TurnedNot DEF Remains
<1>2. u \in DOMAIN P
  BY <1>1 DEF Turned
<1>3. UnitsOk(E) /\ Turned(E, P, u)
  BY <1>1, <1>2, NotedOk, NoteTurned DEF Clocked
<1>4. E[u] = [P[u] EXCEPT !.last = "recent"]
  BY <1>2 DEF Clocked
<1>5. E[u].bpb = P[u].bpb /\ E[u].last = "recent" /\ E[u].flags = P[u].flags
  BY <1>1, <1>2, <1>4 DEF UnitsOk, IsUnit, Fields
<1>6. NeedsSwap(E, u) <=> NeedsSwap(P, u)
  BY <1>5 DEF NeedsSwap
<1>7. QED
  BY <1>1, <1>3, <1>5, <1>6, TurnedAgain

(* Buffers are written or used. *)
LEMMA UsedIsKnown ==
  ASSUME DiskInv, MediaInv, setup.mask = {}, NEW u \in Units, NEW b, NEW w, FlushUnit(u) \/ UseSector(u, b, w)
  PROVE  MediaInv'
<1>0. FlushUnit(u) \/ UseSector(u, b, w)
  OBVIOUS
<1>1. /\ Quiet /\ UNCHANGED <<setup, todo, scan, media>> /\ UnitsOk(ddt) /\ Used(u)
      /\ Stocked /\ Shared(ddt) /\ Known(u) /\ u \in DOMAIN ddt /\ u \in DOMAIN dos
  BY DEF FlushUnit, UseSector, DiskInv, MediaInv, Units, Stocked
<1>2. /\ ddt' = [play_dj(ddt, u) EXCEPT ![u].last = "recent"] /\ Touch(u)
      /\ unchecked' = Unlooked(u) /\ checked' = 0
  BY <1>1 DEF Used
<1>3. Turned(ddt', ddt, u) /\ ddt'[u].bpb = ddt[u].bpb /\ ddt'[u].last = "recent" /\ ~NeedsSwap(ddt', u)
  <2>1. ddt' = Clocked(play_dj(ddt, u), u)
    BY <1>2 DEF Clocked
  <2>2. QED
    BY <1>1, <2>1, UseGives
<1>4. /\ DOMAIN dos' = DOMAIN dos /\ \A v \in DOMAIN dos \ {u} : dos'[v] = dos[v]
      /\ IsDos(dos'[u]) /\ dos'[u].force = dos[u].force /\ dos'[u].dpb = dos[u].dpb
      /\ dos'[u].buf \in {dos[u].buf, Here(u)}
  <2>1. IsDos(dos[u])
    BY <1>1 DEF Stocked, IsDos
  <2>2. CASE FlushUnit(u)
    <3>1. dos' = [dos EXCEPT ![u] = [dos[u] EXCEPT !.dirty = FALSE]]
      BY <2>2 DEF FlushUnit
    <3>2. QED
      BY <1>1, <2>1, <3>1 DEF IsDos
  <2>3. CASE UseSector(u, b, w) /\ b
    <3>1. dos' = [dos EXCEPT ![u] = [dos[u] EXCEPT !.buf = In(u), !.dirty = (dos[u].dirty \/ w)]] /\ In(u) = Here(u)
      BY <2>3 DEF UseSector, Here
    <3>2. QED
      BY <1>1, <2>1, <3>1 DEF IsDos
  <2>4. CASE UseSector(u, b, w) /\ ~b
    <3>1. dos' = dos
      BY <2>4 DEF UseSector
    <3>2. QED
      BY <2>1, <3>1
  <2>5. QED
    BY <1>0, <2>2, <2>3, <2>4
<1>5. Refitted(u)
  BY <1>1, <1>2, <1>3, <1>4, OnlyDriven DEF Unlooked
<1>6. Known(u)'
  BY <1>1, <1>2, <1>3, <1>4, <1>5, UseIsNoted
<1>7. QED
  BY <1>1, <1>2, <1>3, <1>5, <1>6, UnitTurns

(* The buffers are dropped. *)
LEMMA ResetIsKnown ==
  ASSUME DiskInv, MediaInv, setup.mask = {}, Reset
  PROVE  MediaInv'
<1>1. /\ Booted /\ UNCHANGED <<setup, ddt, todo, scan, media, drive, unchecked>> /\ checked' = 0
      /\ dos' = [u \in DOMAIN dos |-> [dos[u] EXCEPT !.buf = Nothing]]
      /\ Stocked /\ Shared(ddt) /\ \A v \in Units : Known(v)
  BY DEF Reset, Quiet, bootVars, MediaInv
<1>2. DOMAIN dos' = DOMAIN dos
  BY <1>1
<1>3. ASSUME NEW v \in DOMAIN dos
      PROVE  IsDos(dos'[v]) /\ dos'[v].force = dos[v].force /\ dos'[v].dpb = dos[v].dpb /\ dos'[v].buf = Nothing
  <2>1. dos'[v] = [dos[v] EXCEPT !.buf = Nothing] /\ IsDos(dos[v])
    BY <1>1 DEF Stocked, IsDos
  <2>2. QED
    BY <2>1 DEF IsDos
<1>4. Stocked'
  BY <1>1, <1>2, <1>3 DEF Stocked, IsDos
<1>5. Shared(ddt)' /\ Booted' /\ Units' = Units
  BY <1>1 DEF Shared, Booted, Units
<1>6. ASSUME NEW v \in Units
      PROVE  Known(v)'
  <2>1. v \in DOMAIN dos /\ Known(v)
    BY <1>1 DEF Stocked, Units
  <2>2. (Steady(v)' <=> Steady(v)) /\ (Medium(v) => Medium(v)')
    BY <1>1, <1>3, <2>1 DEF Steady, Medium, diskchange, NeedsSwap, hd, Kind, Here, In
  <2>3. QED
    BY <1>1, <1>3, <2>1, <2>2 DEF Known
<1>7. MediumKnown'
  BY <1>1 DEF MediumKnown
<1>8. QED
  BY <1>1, <1>4, <1>5, <1>6, <1>7 DEF MediaInv

(* A program makes a letter the current one. *)
LEMMA SwapIsKnown ==
  ASSUME DiskInv, MediaInv, setup.mask = {}, NEW u \in Units, Setlogdev(u)
  PROVE  MediaInv'
<1>1. /\ Quiet /\ UNCHANGED <<setup, todo, scan, media, drive, dos>> /\ UnitsOk(ddt) /\ u \in unchecked'
      /\ Stocked /\ u \in DOMAIN ddt /\ unchecked \subseteq unchecked' /\ checked' = 0 /\ IsDos(dos[u])
      /\ ddt' = SetCurrent(ddt, u)
  BY DEF Setlogdev, DiskInv, MediaInv, Units, Stocked, IsDos
<1>2. Turned(ddt', ddt, u)
  BY <1>1, CurrentTurned
<1>3. Refitted(u)
  BY <1>1, OnlyDriven
<1>4. Known(u)'
  BY <1>1 DEF Known
<1>5. QED
  BY <1>1, <1>2, <1>3, <1>4, UnitTurns

(* A step on unit u after which what is known of it is so *)
Good(u) == Turned(ddt', ddt, u) /\ Refitted(u) /\ Known(u)'

(* Where the unit could have been found changed, it still can. *)
LEMMA SteadyBefore ==
  ASSUME NEW u \in Units, Turned(ddt', ddt, u), UNCHANGED <<drive, media>>, ddt'[u].last = ddt[u].last,
         NeedsSwap(ddt', u) <=> NeedsSwap(ddt, u),
         \A f \in {"REFORMAT", "DISKCHANGE"} : f \in ddt[u].flags => f \in ddt'[u].flags, Steady(u)'
  PROVE  Steady(u)
<1>1. /\ ddt'[u].drive = ddt[u].drive
      /\ "FIXED" \in ddt'[u].flags <=> "FIXED" \in ddt[u].flags
      /\ "CHANGELINE" \in ddt'[u].flags <=> "CHANGELINE" \in ddt[u].flags
  BY DEF Turned, SameKind, Lasting, Units
<1>2. (hd(u)' <=> hd(u)) /\ Kind(u)' = Kind(u)
  BY <1>1 DEF hd, Kind, In
<1>3. diskchange(ddt, u)' = "not" => diskchange(ddt, u) = "not"
  BY <1>1, <1>2 DEF diskchange, tdelay
<1>4. QED
  BY <1>2, <1>3 DEF Steady

(* The parts of the invariant that a call on unit u starts from *)
Ready(u) ==
  /\ UnitsOk(ddt) /\ Stocked /\ Shared(ddt) /\ Known(u)
  /\ u \in Units /\ u \in DOMAIN ddt /\ u \in DOMAIN dos /\ IsDos(dos[u])

(* It does. *)
LEMMA IsReady ==
  ASSUME DiskInv, MediaInv, setup.mask = {}, NEW u \in Units
  PROVE  Ready(u)
BY DEF Ready, DiskInv, MediaInv, Units, Stocked, IsDos

(* A mark is set or cleared on a unit. *)
LEMMA MarkIsKnown ==
  ASSUME NEW u, Ready(u), UNCHANGED <<drive, media, dos, unchecked>>, Turned(ddt', ddt, u),
         ddt'[u].last = ddt[u].last, "REFORMAT" \in ddt'[u].flags \/ ddt'[u].bpb = ddt[u].bpb,
         NeedsSwap(ddt', u) <=> NeedsSwap(ddt, u),
         \A f \in {"REFORMAT", "DISKCHANGE"} : f \in ddt[u].flags => f \in ddt'[u].flags
  PROVE  Good(u)
<1>1. Refitted(u)
  BY OnlyDriven DEF Ready
<1>2. Steady(u)' => Steady(u) /\ ddt'[u].bpb = ddt[u].bpb
  BY SteadyBefore DEF Steady, Ready
<1>3. Known(u)'
  BY <1>1, <1>2, LookIsKnown DEF Ready
<1>4. QED
  BY <1>1, <1>3 DEF Good

(* The driver reads a boot sector for a program. *)
LEMMA ReadIsKnown ==
  ASSUME NEW u, Ready(u), NEW g, Got(g, ddt, u), Turned(ddt', g.ddt, u), Remains(ddt', g.ddt, u),
         ~NeedsSwap(ddt', u), drive' = drive \/ Touch(u), DOMAIN media' = DOMAIN media,
         \A d \in DOMAIN media : DOMAIN media'[d] = {"kind", "serial"} /\ media'[d].kind = media[d].kind,
         UNCHANGED <<dos, unchecked>>
  PROVE  Good(u)
<1>1. Refitted(u)
  BY DEF Ready, Refitted, Stocked, IsDos
<1>2. Turned(ddt', ddt, u)
  BY TurnedAgain DEF Ready, Got
<1>3. Kind(u) = "blank" => Kind(u)' = "blank"
  BY <1>1, <1>2, PlacesStay DEF Ready
<1>4. ASSUME Steady(u)'
      PROVE  Steady(u) /\ ddt'[u].bpb \in {ddt[u].bpb, Here(u)}
  <2>1. "REFORMAT" \notin ddt[u].flags /\ "DISKCHANGE" \notin ddt[u].flags /\ diskchange(ddt, u) = "not"
    BY <1>4 DEF Steady, Got, Remains
  <2>2. Kind(u) # "blank"
    BY <1>3, <1>4 DEF Steady
  <2>3. QED
    BY <2>1, <2>2 DEF Steady, Got, Remains
<1>5. ddt'[u].last \in {ddt[u].last, "recent"}
  BY DEF Got, Remains
<1>6. Known(u)'
  BY <1>1, <1>2, <1>4, <1>5, LookIsKnown DEF Ready
<1>7. QED
  BY <1>1, <1>2, <1>6 DEF Good

(* The parameters of a unit are set. *)
LEMMA ParametersKnown ==
  ASSUME NEW u, Ready(u), SetParameters(u), dos' = dos
  PROVE  Good(u)
<1> DEFINE E == AddFlags(ddt, u, {"DPCHANGED", "REFORMAT"})
<1>1. PICK x : ddt' = [E EXCEPT ![u].bpb = x]
  BY DEF SetParameters
<1>2. /\ UnitsOk(E) /\ Turned(E, ddt, u) /\ E[u].last = ddt[u].last
      /\ E[u].flags = ddt[u].flags \cup {"DPCHANGED", "REFORMAT"}
  BY MarkedOk, MarksTurned, MarksGive DEF Ready, Lasting
<1> HIDE DEF E
<1>3. u \in DOMAIN E
  BY <1>2 DEF Turned, Ready
<1>4. Turned(ddt', E, u)
  BY <1>1, <1>2, <1>3, NoteTurned
<1>5. Turned(ddt', ddt, u)
  BY <1>2, <1>3, <1>4, TurnedAgain, NotedOk, <1>1 DEF Ready
<1>6. ddt'[u] = [E[u] EXCEPT !.bpb = x]
  BY <1>1, <1>3
<1>7. ddt'[u].last = ddt[u].last /\ ddt'[u].flags = ddt[u].flags \cup {"DPCHANGED", "REFORMAT"}
  BY <1>2, <1>3, <1>6 DEF UnitsOk, IsUnit, Fields
<1>8. NeedsSwap(ddt', u) <=> NeedsSwap(ddt, u)
  BY <1>7 DEF NeedsSwap
<1>9. UNCHANGED <<drive, media, unchecked>>
  BY DEF SetParameters
<1>10. QED
  BY <1>5, <1>7, <1>8, <1>9, MarkIsKnown

(* Access to a unit is given or taken. *)
LEMMA AccessKnown ==
  ASSUME NEW u, Ready(u), NEW F, F \cap Lasting = {}, F \cap {"CURLOG", "REFORMAT", "DISKCHANGE"} = {},
         ddt' = DropFlags(ddt, u, F) \/ ddt' = AddFlags(ddt, u, F), UNCHANGED <<drive, media, dos, unchecked>>
  PROVE  Good(u)
<1>1. /\ Turned(ddt', ddt, u) /\ ddt'[u].last = ddt[u].last /\ ddt'[u].bpb = ddt[u].bpb
      /\ ddt'[u].flags = ddt[u].flags \cup F \/ ddt'[u].flags = ddt[u].flags \ F
  BY MarksTurned, MarksGive DEF Ready
<1>2. NeedsSwap(ddt', u) <=> NeedsSwap(ddt, u)
  BY <1>1 DEF NeedsSwap, Lasting
<1>3. \A f \in {"REFORMAT", "DISKCHANGE"} : f \in ddt[u].flags => f \in ddt'[u].flags
  BY <1>1
<1>4. QED
  BY <1>1, <1>2, <1>3, MarkIsKnown

(* Tracks are used, or formatted, whatever is in the drive. *)
LEMMA TracksKnown ==
  ASSUME NEW u, Ready(u), NEW D, UnitsOk(D), Turned(D, ddt, u), Remains(D, ddt, u), ddt' = play_dj(D, u), Touch(u),
         unchecked' = Unlooked(u), dos' = dos,
         media' = media \/ (~hd(u) /\ media' = [media EXCEPT ![In(u)].kind = "blank"])
  PROVE  Good(u)
<1>1. u \in DOMAIN D
  BY DEF Turned, Ready
<1>2. Turned(ddt', D, u) /\ Remains(ddt', D, u) /\ ~NeedsSwap(ddt', u) /\ UnitsOk(ddt')
  BY <1>1, CurrentTurned, CurrentGives, CurrentOk
<1>3. Turned(ddt', ddt, u)
  BY <1>1, <1>2, TurnedAgain DEF Ready
<1>4. /\ DOMAIN media' = DOMAIN media
      /\ \A d \in DOMAIN media : DOMAIN media'[d] = {"kind", "serial"} /\ (media[d].kind = "blank" => media'[d].kind = "blank")
  <2>1. CASE media' = media
    BY <2>1 DEF Ready, Stocked
  <2>2. CASE media' = [media EXCEPT ![In(u)] = [media[In(u)] EXCEPT !.kind = "blank"]]
    BY <2>2 DEF Ready, Stocked
  <2>3. QED
    BY <2>1, <2>2
<1>5. Refitted(u)
  BY <1>2, <1>4 DEF Ready, Refitted, Stocked, IsDos, Unlooked
<1>6. ddt'[u].bpb = ddt[u].bpb /\ ddt'[u].last = ddt[u].last
  BY <1>2 DEF Remains
<1>7. Known(u)'
  BY <1>3, <1>5, <1>6, UseIsNoted DEF Ready
<1>8. QED
  BY <1>3, <1>5, <1>7 DEF Good

(* A program's call to the driver *)
LEMMA GenIsKnown ==
  ASSUME DiskInv, MediaInv, setup.mask = {}, NEW u \in Units, Genblkdev(u)
  PROVE  MediaInv'
<1>1. Quiet /\ UNCHANGED <<setup, todo, scan, dos>> /\ checked' = 0 /\ Ready(u)
  BY IsReady DEF Genblkdev
<1>2. ASSUME SetParameters(u)
      PROVE  Good(u)
  BY <1>1, <1>2, ParametersKnown
<1>3. ASSUME FormatTrack(u)
      PROVE  Good(u)
  <2> DEFINE E == DropFlags(ddt, u, {"DPCHANGED"})
  <2>1. PICK told, ask, first, done \in BOOLEAN :
          IF ~told \/ ask THEN ddt' = E /\ UNCHANGED <<drive, media, unchecked>>
          ELSE /\ ddt' = play_dj(E, u)
               /\ Touch(u)
               /\ unchecked' = Unlooked(u)
               /\ media' = IF done /\ first THEN [media EXCEPT ![In(u)].kind = "blank"] ELSE media
    BY <1>3 DEF FormatTrack
  <2>2. ~hd(u)
    BY <1>3 DEF FormatTrack
  <2>3. CASE ~told \/ ask
    <3>1. ddt' = DropFlags(ddt, u, {"DPCHANGED"}) /\ UNCHANGED <<drive, media, unchecked>>
      BY <2>1, <2>3
    <3>2. QED
      BY <1>1, <3>1, AccessKnown DEF Lasting
  <2>4. CASE ~(~told \/ ask)
    <3>1. UnitsOk(E) /\ Turned(E, ddt, u) /\ Remains(E, ddt, u)
      BY <1>1, MarkedOk, MarksTurned, MarksGive DEF Ready, Lasting, Remains
    <3>2. /\ ddt' = play_dj(E, u) /\ Touch(u) /\ unchecked' = Unlooked(u)
          /\ media' = media \/ (~hd(u) /\ media' = [media EXCEPT ![In(u)].kind = "blank"])
      BY <2>1, <2>2, <2>4
    <3> HIDE DEF E
    <3>3. QED
      BY <1>1, <3>1, <3>2, TracksKnown
  <2>5. QED
    BY <2>3, <2>4
<1>4. ASSUME UseTrack(u)
      PROVE  Good(u)
  <2>1. UnitsOk(ddt) /\ Turned(ddt, ddt, u) /\ Remains(ddt, ddt, u)
    BY <1>1, TurnedNot DEF Ready, Remains
  <2>2. ddt' = play_dj(ddt, u) /\ Touch(u) /\ unchecked' = Unlooked(u) /\ media' = media
    BY <1>4 DEF UseTrack
  <2>3. QED
    BY <1>1, <2>1, <2>2, TracksKnown
<1>5. ASSUME NEW read, NEW serial, SetSerial(u, read, serial)
      PROVE  Good(u)
  <2> DEFINE g == getbpb(ddt, u, read)
             G == g.ddt
             S == [G EXCEPT ![u].serial = serial]
  <2>1. /\ ddt' = S \/ ddt' = G
        /\ media' = media \/ media' = [media EXCEPT ![In(u)] = [media[In(u)] EXCEPT !.serial = serial]]
        /\ drive' = drive \/ Touch(u)
        /\ unchecked' = unchecked
    BY <1>5 DEF SetSerial
  <2>2. Got(g, ddt, u)
    BY <1>1, BpbGives DEF Ready
  <2>3. UnitsOk(G) /\ u \in DOMAIN G /\ ~NeedsSwap(G, u)
    BY <1>1, <2>2 DEF Got, Turned, Ready
  <2> HIDE DEF g
  <2>4. Turned(G, G, u) /\ Remains(G, G, u)
    BY TurnedNot DEF Remains
  <2>5. Turned(S, G, u) /\ Remains(S, G, u) /\ ~NeedsSwap(S, u)
    <3> HIDE DEF G
    <3>1. Turned(S, G, u)
      BY <2>3, NoteTurned
    <3>2. S[u] = [G[u] EXCEPT !.serial = serial]
      BY <2>3
    <3> HIDE DEF S
    <3>3. S[u].flags = G[u].flags /\ S[u].bpb = G[u].bpb /\ S[u].last = G[u].last
      BY <2>3, <3>2 DEF UnitsOk, IsUnit, Fields
    <3>4. QED
      BY <2>3, <3>1, <3>3 DEF Remains, NeedsSwap
  <2> HIDE DEF S
  <2>6. Turned(ddt', G, u) /\ Remains(ddt', G, u) /\ ~NeedsSwap(ddt', u)
    BY <2>1, <2>3, <2>4, <2>5
  <2>7. /\ DOMAIN media' = DOMAIN media
        /\ \A d \in DOMAIN media : DOMAIN media'[d] = {"kind", "serial"} /\ media'[d].kind = media[d].kind
    <3>1. CASE media' = media
      BY <1>1, <3>1 DEF Ready, Stocked
    <3>2. CASE media' = [media EXCEPT ![In(u)] = [media[In(u)] EXCEPT !.serial = serial]]
      BY <1>1, <3>2 DEF Ready, Stocked
    <3>3. QED
      BY <2>1, <3>1, <3>2
  <2>8. QED
    BY <1>1, <2>1, <2>2, <2>6, <2>7, ReadIsKnown
<1>6. ASSUME NEW read, GetSerial(u, read)
      PROVE  Good(u)
  <2> DEFINE g == getbpb(ddt, u, read)
  <2>1. ddt' = g.ddt /\ media' = media /\ unchecked' = unchecked /\ (drive' = drive \/ Touch(u))
    BY <1>6 DEF GetSerial
  <2>2. Got(g, ddt, u)
    BY <1>1, BpbGives DEF Ready
  <2> HIDE DEF g
  <2>3. Turned(ddt', g.ddt, u) /\ Remains(ddt', g.ddt, u) /\ ~NeedsSwap(ddt', u)
    BY <2>1, <2>2, TurnedNot DEF Remains, Got
  <2>4. \A d \in DOMAIN media : DOMAIN media'[d] = {"kind", "serial"} /\ media'[d].kind = media[d].kind
    BY <1>1, <2>1 DEF Ready, Stocked
  <2>5. QED
    BY <1>1, <2>1, <2>2, <2>3, <2>4, ReadIsKnown
<1>7. ASSUME NEW allow, SetAccess(u, allow)
      PROVE  Good(u)
  BY <1>1, <1>7, AccessKnown DEF SetAccess, Lasting
<1>8. Good(u)
  BY <1>2, <1>3, <1>4, <1>5, <1>6, <1>7 DEF Genblkdev
<1>9. QED
  BY <1>1, <1>8, UnitTurns DEF Good

(* Time passes, and a floppy may be changed. *)
LEMMA TimeIsKnown ==
  ASSUME DiskInv, MediaInv, setup.mask = {}, NEW f, ChangeFloppy(f) \/ TimePasses
  PROVE  MediaInv'
<1>1. /\ Quiet /\ UNCHANGED <<setup, todo, scan, media, dos, unchecked>> /\ checked' = 0
      /\ ddt' = [u \in Units |-> [ddt[u] EXCEPT !.last = IF @ = "recent" THEN "old" ELSE @]]
  BY DEF ChangeFloppy, TimePasses
<1>0. /\ UNCHANGED <<media, dos, unchecked>>
      /\ UnitsOk(ddt) /\ Stocked /\ Shared(ddt) /\ \A v \in Units : Known(v)
  BY <1>1 DEF DiskInv, MediaInv
<1>2. /\ DOMAIN drive' = DOMAIN drive
      /\ \A x \in DOMAIN drive : \/ drive'[x] = drive[x]
                                 \/ drive'[x].line /\ DOMAIN drive'[x] = {"disk", "line"} /\ drive'[x].disk \in DOMAIN media
  <2>1. CASE ChangeFloppy(f)
    <3>1. PICK d \in DOMAIN media : drive' = [drive EXCEPT ![f] = [disk |-> d, line |-> TRUE]]
      BY <2>1 DEF ChangeFloppy
    <3>2. QED
      BY <3>1
  <2>2. CASE TimePasses
    BY <2>2 DEF TimePasses
  <2>3. QED
    BY <2>1, <2>2
<1>3. DOMAIN ddt' = DOMAIN ddt /\ Units' = Units /\ Units = DOMAIN ddt
  BY <1>1 DEF Units
<1>4. ASSUME NEW v \in DOMAIN ddt
      PROVE  /\ ddt'[v].flags = ddt[v].flags /\ ddt'[v].drive = ddt[v].drive /\ ddt'[v].bpb = ddt[v].bpb
             /\ ddt'[v].last = IF ddt[v].last = "recent" THEN "old" ELSE ddt[v].last
  <2> DEFINE y == IF ddt[v].last = "recent" THEN "old" ELSE ddt[v].last
  <2>1. ddt'[v] = [ddt[v] EXCEPT !.last = y] /\ IsUnit(ddt[v])
    BY <1>0, <1>1 DEF Units, UnitsOk
  <2> HIDE DEF y
  <2>2. ddt'[v].flags = ddt[v].flags /\ ddt'[v].drive = ddt[v].drive /\ ddt'[v].bpb = ddt[v].bpb /\ ddt'[v].last = y
    BY <2>1 DEF IsUnit, Fields
  <2>3. QED
    BY <2>2 DEF y
<1>5. Stocked'
  BY <1>0, <1>2, <1>3 DEF Stocked
<1>6. Shared(ddt)'
  <2>1. ASSUME NEW v \in DOMAIN ddt'
        PROVE  IF "FIXED" \in ddt'[v].flags THEN "MULTLOG" \notin ddt'[v].flags ELSE ddt'[v].drive \in DOMAIN drive'
    BY <1>0, <1>2, <1>3, <1>4 DEF Shared
  <2>2. ASSUME NEW v \in DOMAIN ddt', NEW w \in DOMAIN ddt', v # w, ddt'[v].drive = ddt'[w].drive,
               "FIXED" \notin ddt'[v].flags, "FIXED" \notin ddt'[w].flags
        PROVE  /\ "MULTLOG" \in ddt'[v].flags /\ "MULTLOG" \in ddt'[w].flags
               /\ "CURLOG" \notin ddt'[v].flags \/ "CURLOG" \notin ddt'[w].flags
    <3>1. /\ v \in DOMAIN ddt /\ w \in DOMAIN ddt
          /\ ddt'[v].drive = ddt[v].drive /\ ddt'[v].flags = ddt[v].flags
          /\ ddt'[w].drive = ddt[w].drive /\ ddt'[w].flags = ddt[w].flags
      BY <1>3, <1>4
    <3>2. QED
      BY <1>0, <2>2, <3>1 DEF Shared
  <2>3. QED
    BY <2>1, <2>2 DEF Shared
<1>7. ASSUME NEW v \in Units
      PROVE  Known(v)'
  <2>1. v \in DOMAIN ddt /\ Known(v) /\ (hd(v)' <=> hd(v)) /\ (NeedsSwap(ddt', v) <=> NeedsSwap(ddt, v))
    BY <1>0, <1>3, <1>4 DEF hd, NeedsSwap
  <2>2. ASSUME v \notin unchecked, ~dos[v].force, Steady(v)'
        PROVE  Medium(v)'
    <3>1. ddt[v].last \in {"recent", "old"} /\ (Steady(v) => Medium(v)) /\ ddt'[v].last = "old"
      BY <1>3, <1>4, <2>1, <2>2 DEF Known
    <3>2. CASE hd(v)
      <4>1. Steady(v)
        BY <1>3, <1>4, <2>1, <2>2, <3>2 DEF Steady, diskchange, Kind
      <4>2. QED
        BY <1>0, <1>3, <1>4, <2>1, <3>1, <3>2, <4>1 DEF Medium, Here
    <3>3. CASE ~hd(v)
      <4>1. diskchange(ddt, v)' = "not" /\ ddt[v].drive \in DOMAIN drive
        BY <1>0, <2>1, <2>2, <3>3 DEF Steady, Shared, hd
      <4>2. ~NeedsSwap(ddt', v)
        BY <2>1, <3>3, <4>1 DEF diskchange
      <4>3. "CHANGELINE" \in ddt[v].flags
        BY <1>3, <1>4, <2>1, <3>1, <3>3, <4>1, <4>2 DEF diskchange, tdelay
      <4>4. ~drive'[ddt[v].drive].line
        BY <1>3, <1>4, <2>1, <3>3, <4>1, <4>2, <4>3 DEF diskchange
      <4>5. drive'[ddt[v].drive] = drive[ddt[v].drive]
        BY <1>2, <4>1, <4>4
      <4>6. In(v)' = In(v) /\ Kind(v)' = Kind(v)
        <5>1. ddt'[v].drive = ddt[v].drive /\ media' = media /\ ~hd(v)'
          BY <1>0, <1>4, <2>1, <3>3
        <5>2. In(v)' = In(v)
          BY <4>5, <5>1 DEF In
        <5>3. QED
          BY <3>3, <5>1, <5>2 DEF Kind
      <4>7. diskchange(ddt, v) = "not"
        BY <2>1, <3>3, <4>2, <4>3, <4>4, <4>5 DEF diskchange
      <4>8. Steady(v)
        BY <1>4, <2>1, <2>2, <4>6, <4>7 DEF Steady
      <4>9. QED
        BY <1>0, <1>4, <2>1, <3>1, <3>3, <4>6, <4>8 DEF Medium, Here
    <3>4. QED
      BY <3>2, <3>3
  <2>3. QED
    BY <1>0, <1>3, <1>4, <2>1, <2>2 DEF Known
<1>8. Booted' /\ Booted
  BY <1>1 DEF Quiet, Booted
<1>9. MediumKnown'
  BY <1>1 DEF MediumKnown
<1>10. QED
  BY <1>0, <1>1, <1>3, <1>5, <1>6, <1>7, <1>8, <1>9 DEF MediaInv

(* DOS's table of units has one entry changed. *)
LEMMA OneDos ==
  ASSUME NEW u, Ready(u), NEW e, IsDos(e), dos' = [dos EXCEPT ![u] = e]
  PROVE  /\ DOMAIN dos' = DOMAIN dos /\ dos'[u] = e /\ IsDos(dos'[u])
         /\ \A v \in DOMAIN dos \ {u} : dos'[v] = dos[v]
BY DEF Ready

(* The check keeps what DOS has of the medium. *)
LEMMA KeptIsKnown ==
  ASSUME NEW u, Ready(u), NEW m, NEW read, m = mediachk(ddt, u, read), NEW force \in BOOLEAN, MediaKept(m, u, force),
         media' = media
  PROVE  Good(u) /\ (checked' = 0 \/ (checked' = u /\ Right(u)'))
<1>1. /\ Checked(m, ddt, u) /\ ddt' = m.ddt /\ UNCHANGED <<drive, dos, media>> /\ ~dos[u].force
      /\ checked' = IF m.ret = "not" THEN u ELSE 0
      /\ unchecked' = IF m.ret = "not" THEN unchecked ELSE Unlooked(u)
      /\ m.ret = "not" \/ m.ret = "dontknow"
  BY CheckGives DEF MediaKept, Keeps, Ready
<1>2. Turned(ddt', ddt, u) /\ ddt'[u].last \in {ddt[u].last, "recent"}
  BY <1>1 DEF Checked
<1>3. Refitted(u)
  BY <1>1, OnlyDriven DEF Ready, Unlooked
<1>4. CASE m.ret = "not"
  <2>1. /\ ddt' = play_dj(ddt, u) /\ diskchange(ddt, u) = "not"
        /\ "REFORMAT" \notin ddt[u].flags /\ "DISKCHANGE" \notin ddt[u].flags
    BY <1>1, <1>4 DEF Checked
  <2>2. ~NeedsSwap(ddt, u)
    <3>1. CASE hd(u)
      BY <3>1 DEF Ready, Shared, hd, NeedsSwap
    <3>2. CASE ~hd(u)
      BY <2>1, <3>2 DEF diskchange
    <3>3. QED
      BY <3>1, <3>2
  <2>3. ddt' = ddt
    BY <2>1, <2>2 DEF play_dj
  <2>4. (Steady(u)' <=> Steady(u)) /\ (Medium(u)' <=> Medium(u)) /\ Kind(u)' = Kind(u)
    BY <1>1, <2>3 DEF Steady, Medium, diskchange, NeedsSwap, hd, Kind, Here, In
  <2>5. Known(u)'
    BY <1>1, <1>4, <2>3, <2>4 DEF Known, Ready
  <2>6. Kind(u) # "blank" => Steady(u)
    BY <2>1 DEF Steady
  <2>7. Right(u)'
    BY <1>1, <1>4, <2>4, <2>6 DEF Right, Known, Ready
  <2>8. QED
    BY <1>1, <1>2, <1>3, <1>4, <2>5, <2>7 DEF Good
<1>5. CASE m.ret # "not"
  <2>1. Kind(u) = "blank" \/ ddt'[u].bpb \in {ddt[u].bpb, Here(u)}
    BY <1>1, <1>5 DEF Checked
  <2>2. Known(u)'
    BY <1>1, <1>2, <1>3, <1>5, <2>1, UseIsNoted DEF Ready
  <2>3. QED
    BY <1>1, <1>2, <1>3, <1>5, <2>2 DEF Good
<1>6. QED
  BY <1>4, <1>5

(* The check fails. *)
LEMMA FailedIsKnown ==
  ASSUME NEW u, Ready(u), NEW m, NEW read, m = mediachk(ddt, u, read), NEW force \in BOOLEAN, MediaFails(m, u, force),
         media' = media
  PROVE  Good(u) /\ checked' = 0
<1>1. /\ Checked(m, ddt, u) /\ m.ret = "error" /\ ddt' = m.ddt /\ UNCHANGED <<drive, media, unchecked>> /\ checked' = 0
      /\ dos' = Forced(u, force)
  BY CheckGives DEF MediaFails, Ready
<1>2. Turned(ddt', ddt, u) /\ ddt'[u].last \in {ddt[u].last, "recent"} /\ ~Steady(u)'
  BY <1>1 DEF Checked, Steady
<1> DEFINE b == dos[u].force \/ force
           e == [dos[u] EXCEPT !.force = b]
<1>3. dos' = [dos EXCEPT ![u] = e]
  BY <1>1 DEF Forced
<1>4. b \in BOOLEAN /\ (~b => ~dos[u].force)
  BY DEF Ready, IsDos
<1> HIDE DEF b
<1>5. IsDos(e) /\ e.force = b /\ e.buf = dos[u].buf /\ e.dpb = dos[u].dpb
  BY <1>4 DEF Ready, IsDos
<1> HIDE DEF e
<1>6. Refitted(u) /\ dos'[u] = e
  BY <1>1, <1>3, <1>5, OneDos, OnlyDriven DEF Ready
<1>7. Known(u)'
  BY <1>1, <1>2, <1>4, <1>5, <1>6 DEF Known, Ready
<1>8. QED
  BY <1>1, <1>2, <1>6, <1>7 DEF Good

(* The check has the DPB made anew. *)
LEMMA BuiltIsKnown ==
  ASSUME NEW u, Ready(u), NEW D, UnitsOk(D), Turned(D, ddt, u), NEW read, NEW force \in BOOLEAN,
         BpbBuilt(D, u, read, force), media' = media
  PROVE  Good(u) /\ (checked' = 0 \/ (checked' = u /\ Right(u)'))
<1> DEFINE g == getbpb(D, u, read)
<1>1. /\ ddt' = g.ddt /\ (drive' = drive \/ Touch(u))
      /\ \/ g.ret = "ok" /\ Rebuilt(g.ddt, u, u)
         \/ g.ret = "done" /\ Rebuilt(g.ddt, u, bpptr)
         \/ /\ dos' = [Forced(u, force) EXCEPT ![u].buf = Nothing, ![u].dirty = FALSE]
            /\ checked' = 0 /\ unchecked' = unchecked \cup {u}
  BY DEF BpbBuilt
<1>2. u \in DOMAIN D
  BY DEF Turned, Ready
<1>3. Got(g, D, u)
  BY <1>2, BpbGives
<1> HIDE DEF g
<1>4. Turned(ddt', ddt, u) /\ ~NeedsSwap(ddt', u)
  BY <1>1, <1>2, <1>3, TurnedAgain DEF Got, Ready
<1>5. CASE \E p : Rebuilt(g.ddt, u, p) /\ ((g.ret = "ok" /\ p = u) \/ g.ret = "done")
  <2>1. PICK p : Rebuilt(g.ddt, u, p) /\ ((g.ret = "ok" /\ p = u) \/ g.ret = "done")
    BY <1>5
  <2> DEFINE e == [dpb |-> IF p = 0 THEN "garbage" ELSE g.ddt[p].bpb, buf |-> Nothing, dirty |-> FALSE, force |-> FALSE]
  <2>2. dos' = [dos EXCEPT ![u] = e] /\ IsDos(e) /\ e.buf = Nothing /\ checked' = u
        /\ unchecked' = IF p = u /\ g.ddt[u].bpb = Here(u) THEN unchecked \ {u} ELSE unchecked \cup {u}
    BY <2>1 DEF Rebuilt, IsDos
  <2>3. g.ret = "ok" => e.dpb = Here(u)
    BY <1>3, <2>1 DEF Ready, Stocked, Got
  <2> HIDE DEF e
  <2>4. Refitted(u) /\ dos'[u] = e
    BY <1>1, <1>4, <2>2, OneDos, OnlyDriven DEF Ready
  <2>5. Here(u)' = Here(u)
    BY <1>4, <2>4, PlacesStay DEF Ready
  <2>6. CASE g.ret = "ok"
    <3>1. Medium(u)' /\ dos'[u].buf = Nothing /\ ddt'[u].last = "recent"
      BY <1>1, <1>3, <2>2, <2>3, <2>4, <2>5, <2>6 DEF Medium, Got
    <3>2. QED
      BY <1>4, <2>2, <2>4, <3>1 DEF Good, Known, Right
  <2>7. CASE g.ret = "done"
    <3>1. Kind(u) = "blank" /\ g.ddt[u].bpb = "default"
      BY <1>3, <2>7 DEF Got
    <3>2. Here(u) \in DOMAIN media
      <4>1. ~hd(u)
        BY <3>1 DEF Kind
      <4>2. QED
        BY <4>1 DEF Here, In, Ready, Stocked, Shared, hd
    <3>3. u \in unchecked'
      BY <2>2, <3>1, <3>2 DEF Ready, Stocked
    <3>4. QED
      BY <1>4, <2>2, <2>4, <3>3 DEF Good, Known, Right
  <2>8. QED
    BY <2>1, <2>6, <2>7
<1>6. CASE /\ dos' = [Forced(u, force) EXCEPT ![u].buf = Nothing, ![u].dirty = FALSE]
           /\ checked' = 0 /\ unchecked' = unchecked \cup {u}
  <2> DEFINE b == dos[u].force \/ force
             e == [dos[u] EXCEPT !.force = b, !.buf = Nothing, !.dirty = FALSE]
  <2>1. dos' = [dos EXCEPT ![u] = e]
    BY <1>6 DEF Forced, Ready
  <2>2. b \in BOOLEAN
    BY DEF Ready, IsDos
  <2> HIDE DEF b
  <2>3. IsDos(e)
    BY <2>2 DEF Ready, IsDos
  <2> HIDE DEF e
  <2>4. Refitted(u)
    BY <1>1, <1>4, <1>6, <2>1, <2>3, OneDos, OnlyDriven DEF Ready
  <2>5. QED
    BY <1>4, <1>6, <2>4 DEF Good, Known
<1>7. QED
  BY <1>1, <1>5, <1>6

(* DOS asks for the medium. *)
LEMMA CheckIsKnown ==
  ASSUME DiskInv, MediaInv, setup.mask = {}, NEW u \in Units, media_check(u)
  PROVE  MediaInv'
<1>1. Quiet /\ UNCHANGED <<setup, todo, scan, media>> /\ Ready(u)
  BY IsReady DEF media_check
<1>2. PICK read, force \in BOOLEAN : \E m \in {mediachk(ddt, u, read)} :
        MediaKept(m, u, force) \/ MediaRebuilt(m, u, read, force) \/ MediaFails(m, u, force)
  BY DEF media_check
<1>3. PICK m : /\ m = mediachk(ddt, u, read)
               /\ MediaKept(m, u, force) \/ MediaRebuilt(m, u, read, force) \/ MediaFails(m, u, force)
  BY <1>2
<1>4. CASE MediaKept(m, u, force)
  <2>1. Good(u) /\ (checked' = 0 \/ (checked' = u /\ Right(u)'))
    BY <1>1, <1>3, <1>4, KeptIsKnown
  <2>2. QED
    BY <1>1, <2>1, UnitTurns DEF Good
<1>5. CASE MediaRebuilt(m, u, read, force)
  <2>1. Checked(m, ddt, u)
    BY <1>1, <1>3, CheckGives DEF Ready
  <2>2. UnitsOk(m.ddt) /\ Turned(m.ddt, ddt, u) /\ BpbBuilt(m.ddt, u, read, force)
    BY <1>5, <2>1 DEF Checked, MediaRebuilt
  <2>3. Good(u) /\ (checked' = 0 \/ (checked' = u /\ Right(u)'))
    BY <1>1, <2>2, BuiltIsKnown
  <2>4. QED
    BY <1>1, <2>3, UnitTurns DEF Good
<1>6. CASE MediaFails(m, u, force)
  <2>1. Good(u) /\ checked' = 0
    BY <1>1, <1>3, <1>6, FailedIsKnown
  <2>2. QED
    BY <1>1, <2>1, UnitTurns DEF Good
<1>7. QED
  BY <1>3, <1>4, <1>5, <1>6

(* A transfer is asked for. *)
LEMMA BlockIsKnown ==
  ASSUME DiskInv, MediaInv, setup.mask = {}, NEW r, Quiet, r.unit \in Units, blockio(r)
  PROVE  MediaInv'
<1> DEFINE u == r.unit
<1>1. /\ UNCHANGED <<setup, todo, scan, media, dos>> /\ checked' = 0 /\ unchecked' = Unlooked(u)
      /\ \/ ddt' = Clocked(play_dj(ddt, u), u) /\ (drive' = drive \/ Touch(u))
         \/ ddt' = Clocked(ddt, u) /\ drive' = drive
  BY DEF blockio, Clocked
<1>2. Ready(u)
  BY IsReady
<1> HIDE DEF u
<1>3. /\ Turned(ddt', ddt, u) /\ ddt'[u].bpb = ddt[u].bpb /\ ddt'[u].last = "recent"
      /\ drive' = drive \/ (Touch(u) /\ ~NeedsSwap(ddt', u))
  <2>1. CASE ddt' = Clocked(play_dj(ddt, u), u) /\ (drive' = drive \/ Touch(u))
    BY <1>2, <2>1, UseGives DEF Ready
  <2>2. CASE ddt' = Clocked(ddt, u) /\ drive' = drive
    BY <1>2, <2>2, UseGives DEF Ready
  <2>3. QED
    BY <1>1, <2>1, <2>2
<1>4. Refitted(u)
  BY <1>1, <1>2, <1>3, OnlyDriven DEF Ready, Unlooked
<1>5. Known(u)'
  BY <1>1, <1>2, <1>3, <1>4, UseIsNoted DEF Ready
<1>6. QED
  BY <1>1, <1>2, <1>3, <1>4, <1>5, UnitTurns DEF Ready

(* The units of the start-up share drives as they should. *)
LEMMA SharedAtFirst ==
  ASSUME setup \in Setups, setup.mask = {}, NEW D, Homes(D), DOMAIN drive = 0 .. setup.floppies - 1
  PROVE  Shared(D)
<1> DEFINE one == setup.floppies = 1
           x == make_ddt(setup, 0, 0, IF one THEN {"MULTLOG", "CURLOG"} ELSE {})
           y == make_ddt(setup, 1, IF one THEN 0 ELSE 1, IF one THEN {"MULTLOG"} ELSE {})
<1>1. setup.floppies \in {1, 2}
  BY InitDiskAssumption DEF IsMachine
<1>2. Floppies(setup) = <<x, y>>
  BY DEF Floppies
<1>3. /\ x.drive = 0 /\ "FIXED" \notin x.flags /\ "FIXED" \notin y.flags
      /\ one => y.drive = 0 /\ "MULTLOG" \in x.flags /\ "MULTLOG" \in y.flags /\ "CURLOG" \notin y.flags
      /\ ~one => y.drive = 1
  BY DEF make_ddt, Unit
<1> HIDE DEF x, y
<1>4. /\ 1 \in DOMAIN D /\ 2 \in DOMAIN D /\ D[1] = x /\ D[2] = y
      /\ \A u \in DOMAIN D \ {1, 2} : IsHard(D[u])
  BY <1>2 DEF Homes
<1>5. ASSUME NEW v \in DOMAIN D
      PROVE  IF "FIXED" \in D[v].flags THEN "MULTLOG" \notin D[v].flags ELSE D[v].drive \in DOMAIN drive
  <2>1. CASE v = 1
    BY <1>1, <1>3, <1>4, <2>1
  <2>2. CASE v = 2
    BY <1>1, <1>3, <1>4, <2>2
  <2>3. CASE v \notin {1, 2}
    BY <1>4, <2>3 DEF IsHard
  <2>4. QED
    BY <2>1, <2>2, <2>3
<1>6. ASSUME NEW v \in DOMAIN D, NEW w \in DOMAIN D, v # w, D[v].drive = D[w].drive,
             "FIXED" \notin D[v].flags, "FIXED" \notin D[w].flags
      PROVE  /\ "MULTLOG" \in D[v].flags /\ "MULTLOG" \in D[w].flags
             /\ "CURLOG" \notin D[v].flags \/ "CURLOG" \notin D[w].flags
  <2>1. (v = 1 /\ w = 2) \/ (v = 2 /\ w = 1)
    BY <1>4, <1>6 DEF IsHard
  <2>2. one
    BY <1>3, <1>4, <1>6, <2>1
  <2>3. QED
    BY <1>3, <1>4, <2>1, <2>2
<1>7. QED
  BY <1>5, <1>6 DEF Shared

(* The start-up begins with drives that hold floppies, and DPBs that are yet to be made. *)
LEMMA MediaStarts ==
  ASSUME DiskInit
  PROVE  MediaInv
<1>1. /\ setup \in Setups /\ ddt = Floppies(setup) /\ checked = 0
      /\ media = setup.disks
      /\ drive = [f \in 0 .. setup.floppies - 1 |-> [disk |-> setup.inserted[f + 1], line |-> FALSE]]
      /\ dos = [u \in 1 .. NDEV |-> [dpb |-> Nothing, buf |-> Nothing, dirty |-> FALSE, force |-> TRUE]]
  BY DEF DiskInit, InitDiskInit, FreshDos
<1>2. IsStocked(setup) /\ setup.floppies \in {1, 2} /\ NDEV \in Nat /\ NDEV > 2
  BY <1>1, DiskAssumption, InitDiskAssumption DEF IsMachine
<1>3. Lettered(ddt)
  BY <1>1, FirstUnits
<1>4. DOMAIN drive = 0 .. setup.floppies - 1
  BY <1>1
<1>5. ASSUME NEW f \in DOMAIN drive
      PROVE  DOMAIN drive[f] = {"disk", "line"} /\ drive[f].disk \in DOMAIN media
  <2>1. f + 1 \in 1 .. setup.floppies /\ drive[f] = [disk |-> setup.inserted[f + 1], line |-> FALSE]
    BY <1>1, <1>2
  <2>2. QED
    BY <1>1, <1>2, <2>1 DEF IsStocked
<1>6. DOMAIN dos = 1 .. NDEV /\ \A v \in DOMAIN dos : DOMAIN dos[v] = {"dpb", "buf", "dirty", "force"} /\ dos[v].force = TRUE
  BY <1>1
<1>7. DOMAIN ddt \subseteq DOMAIN dos
  BY <1>2, <1>3, <1>6 DEF Lettered
<1>8. Stocked
  BY <1>1, <1>2, <1>5, <1>6, <1>7 DEF Stocked, IsStocked
<1>9. setup.mask = {} => Shared(ddt)
  BY <1>1, <1>3, <1>4, SharedAtFirst DEF Lettered
<1>10. ASSUME NEW v \in Units
       PROVE  Known(v)
  BY <1>6, <1>7 DEF Known, Units
<1>11. MediumKnown
  BY <1>1 DEF MediumKnown
<1>12. QED
  BY <1>1, <1>4, <1>6, <1>8, <1>9, <1>10, <1>11 DEF MediaInv

(* While letters are given nothing is known of the floppies. *)
LEMMA BootIsKnown ==
  ASSUME DiskInv, MediaInv, InitDiskNext, UNCHANGED diskVars
  PROVE  MediaInv'
<1>1. ~Booted /\ setup' = setup /\ UNCHANGED <<drive, media, dos, unchecked, checked>> /\ setup \in Setups
  BY DEF InitDiskNext, ProcessDisk, TableRead, TableUnreadable, Booted, diskVars, DiskInv, BootInv
<1>2. checked = 0 /\ checked' = 0
  BY <1>1 DEF MediaInv
<1>3. Lettered(ddt)'
  BY BootKeeps
<1>4. CASE setup.mask = {}
  <2>1. Stocked /\ DOMAIN drive = 0 .. setup.floppies - 1 /\ \A v \in DOMAIN dos : dos[v].force
    BY <1>1, <1>4 DEF MediaInv
  <2>2. Homes(ddt') /\ DOMAIN ddt' \subseteq DOMAIN dos
    <3>1. NDEV \in Nat
      BY InitDiskAssumption
    <3>2. QED
      BY <1>1, <1>3, <2>1, <3>1 DEF Lettered, Homes, Stocked
  <2>3. Shared(ddt')
    BY <1>1, <1>4, <2>1, <2>2, SharedAtFirst
  <2>4. Stocked' /\ Shared(ddt)'
    BY <1>1, <2>1, <2>2, <2>3 DEF Stocked, Shared
  <2>5. ASSUME NEW v \in Units'
        PROVE  Known(v)'
    BY <1>1, <2>1, <2>2, <2>5 DEF Known, Units
  <2>6. MediumKnown'
    BY <1>2 DEF MediumKnown
  <2>7. QED
    BY <1>1, <1>2, <2>1, <2>4, <2>5, <2>6 DEF MediaInv
<1>5. CASE setup.mask # {}
  BY <1>1, <1>2, <1>5 DEF MediaInv
<1>6. QED
  BY <1>4, <1>5

(* Machines with letters that are masked out check no media. *)
LEMMA MaskedKnowNothing ==
  ASSUME DiskInv, MediaInv, setup.mask # {}, Next
  PROVE  MediaInv'
<1>1. setup \in Setups /\ setup.ops = {}
  BY DiskAssumption DEF DiskInv, BootInv, IsStocked
<1>2. \A op : ~Asked(op)
  BY <1>1 DEF Asked
<1>3. checked = 0
  BY DEF MediaInv
<1>4. CASE InitDiskNext /\ UNCHANGED diskVars
  BY <1>4, BootIsKnown
<1>5. ASSUME NEW r, blockio(r)
      PROVE  setup' = setup /\ checked' = 0
  BY <1>5 DEF blockio
<1>6. CASE LBA_Transfer \/ Finish
  BY <1>3, <1>6 DEF LBA_Transfer, Transfer, TransferFails, Finish, bootVars, MediaInv
<1>7. CASE \E r \in setup.io : Quiet /\ r.unit \in Units /\ blockio(r)
  BY <1>5, <1>7 DEF MediaInv
<1>8. QED
  BY <1>2, <1>4, <1>6, <1>7 DEF Next

(* A step that leaves alone what is known of the media *)
LEMMA NothingLearnt ==
  ASSUME MediaInv, UNCHANGED <<setup, ddt, todo, scan, drive, media, dos, unchecked, checked>>
  PROVE  MediaInv'
<1>1. (Booted' <=> Booted) /\ Units' = Units
  BY DEF Booted, Units
<1>2. Stocked => Stocked'
  BY DEF Stocked
<1>3. Shared(ddt) => Shared(ddt)'
  BY DEF Shared
<1>4. \A v \in Units : Known(v) => Known(v)'
  BY DEF Known, Steady, Medium, diskchange, NeedsSwap, hd, Kind, Here, In
<1>5. MediumKnown => MediumKnown'
  BY DEF MediumKnown, hd, Kind, Here, In
<1>6. QED
  BY <1>1, <1>2, <1>3, <1>4, <1>5 DEF MediaInv

(* Every step keeps what is known of the media. *)
LEMMA MediaStep ==
  ASSUME DiskInv, MediaInv, [Next]_vars
  PROVE  MediaInv'
<1>1. CASE Next /\ setup.mask # {}
  BY <1>1, MaskedKnowNothing
<1>2. CASE Next /\ setup.mask = {}
  <2>1. CASE InitDiskNext /\ UNCHANGED diskVars
    BY <2>1, BootIsKnown
  <2>2. ASSUME NEW r \in setup.io, Quiet, r.unit \in Units, blockio(r)
        PROVE  MediaInv'
    BY <1>2, <2>2, BlockIsKnown
  <2>3. CASE LBA_Transfer \/ Finish
    <3>1. UNCHANGED <<setup, ddt, todo, scan, drive, media, dos, unchecked, checked>>
      BY <2>3 DEF LBA_Transfer, Transfer, TransferFails, Finish, bootVars
    <3>2. QED
      BY <3>1, NothingLearnt
  <2>4. CASE TimePasses
    BY <1>2, <2>4, TimeIsKnown
  <2>5. CASE Reset
    BY <1>2, <2>5, ResetIsKnown
  <2>6. ASSUME NEW f \in DOMAIN drive, ChangeFloppy(f)
        PROVE  MediaInv'
    BY <1>2, <2>6, TimeIsKnown
  <2>7. ASSUME NEW u \in Units, media_check(u)
        PROVE  MediaInv'
    BY <1>2, <2>7, CheckIsKnown
  <2>8. ASSUME NEW u \in Units, NEW b \in BOOLEAN, NEW w \in BOOLEAN, FlushUnit(u) \/ UseSector(u, b, w)
        PROVE  MediaInv'
    BY <1>2, <2>8, UsedIsKnown
  <2>9. ASSUME NEW u \in Units, Setlogdev(u)
        PROVE  MediaInv'
    BY <1>2, <2>9, SwapIsKnown
  <2>10. ASSUME NEW u \in Units, Genblkdev(u)
         PROVE  MediaInv'
    BY <1>2, <2>10, GenIsKnown
  <2>11. QED
    BY <1>2, <2>1, <2>2, <2>3, <2>4, <2>5, <2>6, <2>7, <2>8, <2>9, <2>10 DEF Next
<1>3. CASE UNCHANGED vars
  <2>1. UNCHANGED <<setup, ddt, todo, scan, drive, media, dos, unchecked, checked>>
    BY <1>3 DEF vars, bootVars, diskVars
  <2>2. QED
    BY <2>1, NothingLearnt
<1>4. QED
  BY <1>1, <1>2, <1>3

(* When media_check finds nothing changed, or has made the DPB anew, then DPB, BPB and buffers *)
(* are those of the floppy in the drive, but for the units MediumKnown excepts.                *)
THEOREM MediumIsKnown == Spec => []MediumKnown
<1>1. DiskInit => MediaInv
  BY MediaStarts
<1>2. DiskInv /\ MediaInv /\ [Next]_vars => MediaInv'
  BY MediaStep
<1>3. MediaInv => MediumKnown
  BY DEF MediaInv, MediumKnown
<1>4. QED
  BY <1>1, <1>2, <1>3, DiskInvHolds, PTL DEF Spec

=============================================================================
