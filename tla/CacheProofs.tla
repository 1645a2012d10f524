----------------------------- MODULE CacheProofs -----------------------------
(***************************************************************************)
(* Theorems about the block buffer cache, for disks of every size, any     *)
(* number of buffers from three on, and every refusal of the disk: a block *)
(* is in one buffer at most, and reads as what was last written to it; and *)
(* a block of the FAT that is written is written to every copy.            *)
(*                                                                         *)
(* The operators of BufferCache take the state as a record c and give a    *)
(* new one back; the lemmas are about such records, one per operator.      *)
(***************************************************************************)
EXTENDS BufferCache, FiniteSetTheorems, WellFoundedInduction, TLAPS

Contents == Data \cup {Noise}
Cache    == [buf: [Buf -> Buffer], rank: [Buf -> 0 .. BufCount - 1],
             disk: [Block -> Contents], written: [Block -> Contents]]

(* The LRU list has a place for each buffer.                               *)
Ranked(c) == \A a, b \in Buf : a # b => c.rank[a] # c.rank[b]

(* A valid buffer holds a block of the file system, and is marked as one   *)
(* of the FAT exactly if the block is: that decides where it is written.   *)
Placed(c) == \A b \in Buf : c.buf[b].valid =>
                /\ c.buf[b].blk \in FileBlock
                /\ c.buf[b].fat <=> c.buf[b].blk \in FatBlock

(* No block is in two buffers.                                             *)
Single(c) == \A a, b \in Buf :
    c.buf[a].valid /\ c.buf[b].valid /\ c.buf[a].blk = c.buf[b].blk => a = b

Sound(c) == c \in Cache /\ Ranked(c) /\ Placed(c) /\ Single(c)

(* Buffers hold what was last written, and so does the disk for the blocks *)
(* that no buffer has yet to write; but for block y, which is being filled.*)
NonePending(c, x) == \A b \in Buf : c.buf[b].blk = x => ~Pending(c.buf[b])
FaithfulBut(c, y) ==
    /\ \A b \in Buf : c.buf[b].valid /\ c.buf[b].blk # y
                      => c.buf[b].data = c.written[c.buf[b].blk]
    /\ \A x \in FileBlock \ {y} : NonePending(c, x) => c.disk[x] = c.written[x]
Faithful(c) == FaithfulBut(c, NoBlock)

(* From c to e a dirty buffer of a FAT block that was flushed and kept has  *)
(* reached both copies of its block.                                       *)
PairedAt(c, e, b) ==
    /\ Pending(c.buf[b]) /\ c.buf[b].blk \in FatBlock
    /\ e.buf[b].valid /\ ~e.buf[b].dirty /\ e.buf[b].blk = c.buf[b].blk
    => e.disk[Mirror[c.buf[b].blk]] = e.disk[c.buf[b].blk]
Paired(c, e) == \A b \in Buf : PairedAt(c, e, b)

(* Programs use the cache only, and the disk refuses no read of theirs.    *)
Quiet == mix.calls = {} /\ mix.reads = {{}}
ReadsSucceed == \A m \in Mixes : m.calls = {} => m.reads = {{}}

CacheInv == mix \in Mixes /\ Sound(Now) /\ (Quiet => Faithful(Now))

(***************************************************************************)
(* Choices of a buffer.                                                    *)
(***************************************************************************)
LEMMA LeastOf ==
    ASSUME NEW S, S \subseteq Nat, S # {}
    PROVE  \E i \in S : \A j \in S : i <= j
<1> DEFINE R == {ss \in Nat \X Nat : ss[1] < ss[2]}
<1>1. IsWellFoundedOn(R, Nat)
  BY NatLessThanWellFounded DEF OpToRel
<1>2. PICK i \in S : \A j \in S : <<j, i>> \notin R
  <2> HIDE DEF R
  <2> QED  BY <1>1, WFMin
<1>3. ASSUME NEW j \in S
      PROVE  i <= j
  <2>1. <<j, i>> \in Nat \X Nat /\ <<j, i>> \notin R
    BY <1>2
  <2>2. ~(j < i)
    BY <2>1
  <2>3. QED
    BY <2>2
<1>4. QED
  BY <1>3

(* There are three buffers at least.                                       *)
LEMMA BufFacts == Buf # {} /\ BufCount \in Nat /\ BufCount >= 3
<1>1. Cardinality(Buf) \in Nat
  BY CacheAssumption, FS_CardinalityType
<1>2. BufCount \in Nat /\ BufCount >= 3
  BY <1>1, CacheAssumption
<1>3. Buf # {}
  BY <1>2, CacheAssumption, FS_EmptySet
<1>4. QED
  BY <1>2, <1>3

(* The last of some buffers is one of them.                                *)
LEMMA LastOf ==
    ASSUME NEW c \in Cache, NEW S \in SUBSET Buf, S # {}
    PROVE  Last(c, S) \in S /\ \A x \in S : c.rank[x] <= c.rank[Last(c, S)]
<1> DEFINE T == {BufCount - c.rank[x] : x \in S}
<1>1. \A x \in Buf : c.rank[x] \in 0 .. BufCount - 1
  BY DEF Cache
<1>2. \A x \in S : BufCount - c.rank[x] \in Nat
  BY <1>1, BufFacts
<1>3. T \subseteq Nat /\ T # {}
  BY <1>2
<1>4. PICK i \in T : \A j \in T : i <= j
  BY <1>3, LeastOf
<1>5. PICK b \in S : i = BufCount - c.rank[b]
  OBVIOUS
<1>6. \A x \in S : c.rank[x] <= c.rank[b]
  <2>1. ASSUME NEW x \in S PROVE c.rank[x] <= c.rank[b]
    <3>1. i <= BufCount - c.rank[x]
      BY <1>4
    <3>2. QED
      BY <1>1, <1>5, <3>1, BufFacts
  <2>2. QED
    BY <2>1
<1>7. QED
  BY <1>6 DEF Last

(* The buffer to recycle is one of the buffers.                            *)
LEMMA VictimType ==
    ASSUME NEW c \in Cache
    PROVE  Victim(c) \in Buf
<1>1. Uncached(c) \in SUBSET Buf /\ Buf \ FatBufs(c) \in SUBSET Buf
  BY DEF Uncached, FatBufs
<1>2. FatBufs(c) # Buf => Buf \ FatBufs(c) # {}
  BY DEF FatBufs
<1>3. QED
  BY <1>1, <1>2, BufFacts, LastOf DEF Victim

(* What searchblock finds is a valid buffer with the block.                *)
LEMMA HitOne ==
    ASSUME NEW c \in Cache, Single(c), NEW x, Hits(c, x) # {}
    PROVE  Hit(c, x) \in Hits(c, x)
<1>1. PICK b : b \in Hits(c, x)
  OBVIOUS
<1>2. \A y \in Hits(c, x) : y = b
  BY <1>1 DEF Hits, Single
<1>3. c.rank[b] <= c.rank[b]
  <2>1. c.rank[b] \in 0 .. BufCount - 1
    BY <1>1 DEF Hits, Cache
  <2>2. QED
    BY <2>1, BufFacts
<1>4. \E y \in Hits(c, x) : \A z \in Hits(c, x) : c.rank[y] <= c.rank[z]
  BY <1>1, <1>2, <1>3
<1>5. QED
  BY <1>4 DEF Hit

(* Moving a buffer to the front keeps a place for each.                    *)
LEMMA MoveKeeps ==
    ASSUME NEW c \in Cache, Ranked(c), NEW b \in Buf
    PROVE  LET rk == move_buffer(c.rank, b) IN
           /\ rk \in [Buf -> 0 .. BufCount - 1]
           /\ \A x, y \in Buf : x # y => rk[x] # rk[y]
           /\ rk[b] = 0
<1> DEFINE rk == move_buffer(c.rank, b)
<1>1. c.rank \in [Buf -> 0 .. BufCount - 1]
  BY DEF Cache
<1>2. \A x \in Buf : c.rank[x] \in Nat /\ c.rank[x] <= BufCount - 1
  BY <1>1, BufFacts
<1>3. \A x \in Buf : rk[x] = IF x = b THEN 0 ELSE IF c.rank[x] < c.rank[b] THEN c.rank[x] + 1 ELSE c.rank[x]
  BY DEF move_buffer
<1>4. rk = [x \in Buf |-> rk[x]]
  BY DEF move_buffer
<1> HIDE DEF rk
<1>5. \A x \in Buf : rk[x] \in 0 .. BufCount - 1
  BY <1>2, <1>3, BufFacts
<1>6. ASSUME NEW x \in Buf, NEW y \in Buf, x # y
      PROVE  rk[x] # rk[y]
  <2>1. c.rank[x] # c.rank[y] /\ (x # b => c.rank[x] # c.rank[b]) /\ (y # b => c.rank[y] # c.rank[b])
    BY <1>6 DEF Ranked
  <2>2. QED
    BY <1>2, <1>3, <1>6, <2>1
<1>7. rk[b] = 0
  BY <1>3
<1>8. rk \in [Buf -> 0 .. BufCount - 1]
  BY <1>4, <1>5
<1>9. QED
  BY <1>6, <1>7, <1>8 DEF rk

(***************************************************************************)
(* flush1                                                                  *)
(***************************************************************************)
(* The blocks of the file system are not copies of others.                 *)
LEMMA CopyFacts ==
    ASSUME NEW r \in Buffer, r.valid, r.blk \in FileBlock, r.fat <=> r.blk \in FatBlock
    PROVE  /\ r.blk \in Copies(r) /\ r.blk \in Block
           /\ \A x \in FileBlock : x \in Copies(r) => x = r.blk
<1>1. r.fat => Mirror[r.blk] \in MirrorBlock
  BY DEF MirrorBlock
<1>2. QED
  BY <1>1 DEF Copies, FileBlock

(* flush1 leaves nothing pending in its buffer, and keeps that buffer if    *)
(* it was written; the others are not touched.                             *)
LEMMA Flush1Keeps ==
    ASSUME NEW c, Sound(c), NEW b \in Buf, NEW bad
    PROVE  LET e == flush1(c, b, bad) IN
           /\ Sound(e)
           /\ Faithful(c) => Faithful(e)
           /\ e.rank = c.rank
           /\ \A x \in Buf \ {b} : e.buf[x] = c.buf[x]
           /\ e.buf[b].valid => c.buf[b].valid
           /\ e.buf[b].blk = c.buf[b].blk
           /\ ~Pending(e.buf[b])
           /\ Paired(c, e)
<1> DEFINE r == c.buf[b]
           d == [x \in Block |-> IF x \in Copies(r) \ bad THEN r.data ELSE c.disk[x]]
           e == flush1(c, b, bad)
<1>1. c \in Cache /\ r \in Buffer
  BY DEF Sound, Cache
<1>2. d \in [Block -> Contents]
  BY <1>1 DEF Cache, Buffer, Contents
<1>3. CASE ~Pending(r)
  <2> DEFINE s == [r EXCEPT !.dirty = FALSE]
  <2>1. e = [c EXCEPT !.buf = [c.buf EXCEPT ![b] = s]]
    BY <1>3 DEF flush1
  <2>2. /\ s \in Buffer /\ s.blk = r.blk /\ s.valid = r.valid /\ s.fat = r.fat /\ s.data = r.data
        /\ ~Pending(s)
    BY <1>1 DEF Buffer, Pending
  <2> HIDE DEF s
  <2>3. /\ e.rank = c.rank /\ e.disk = c.disk /\ e.written = c.written
        /\ e.buf = [c.buf EXCEPT ![b] = s]
        /\ e \in Cache
    BY <1>1, <2>1, <2>2 DEF Cache
  <2>4. e.buf[b] = s /\ \A x \in Buf \ {b} : e.buf[x] = c.buf[x]
    BY <1>1, <2>3 DEF Cache
  <2> HIDE DEF e
  <2>5. Ranked(e) /\ Placed(e) /\ Single(e)
    BY <2>2, <2>3, <2>4 DEF Sound, Ranked, Placed, Single
  <2>6. ASSUME Faithful(c) PROVE Faithful(e)
    <3>1. \A x \in FileBlock : NonePending(e, x) => NonePending(c, x)
      BY <1>3, <2>4 DEF NonePending
    <3>2. QED
      BY <2>2, <2>3, <2>4, <2>6, <3>1 DEF Faithful, FaithfulBut
  <2>7. Paired(c, e)
    BY <1>3, <2>4 DEF Paired, PairedAt, Pending
  <2>8. QED
    BY <2>2, <2>3, <2>4, <2>5, <2>6, <2>7 DEF Sound, e
<1>4. CASE Pending(r)
  <2>0. /\ r.valid /\ r.blk \in FileBlock /\ (r.fat <=> r.blk \in FatBlock)
        /\ r.blk \in Copies(r) /\ r.blk \in Block
        /\ \A x \in FileBlock : x \in Copies(r) => x = r.blk
    BY <1>1, <1>4, CopyFacts DEF Pending, Sound, Placed
  <2>1. d[r.blk] = (IF r.blk \notin bad THEN r.data ELSE c.disk[r.blk])
        /\ \A x \in FileBlock \ {r.blk} : d[x] = c.disk[x]
    BY <2>0 DEF FileBlock
  <2>2. CASE Copies(r) \cap bad = {}
    <3> DEFINE s == [r EXCEPT !.dirty = FALSE]
    <3>1. e = [c EXCEPT !.disk = d, !.buf = [c.buf EXCEPT ![b] = s]]
      BY <1>4, <2>2 DEF flush1
    <3>2. /\ s \in Buffer /\ s.blk = r.blk /\ s.valid = r.valid /\ s.fat = r.fat /\ s.data = r.data
          /\ ~Pending(s)
      BY <1>1 DEF Buffer, Pending
    <3> HIDE DEF s
    <3>3. /\ e.rank = c.rank /\ e.disk = d /\ e.written = c.written
          /\ e.buf = [c.buf EXCEPT ![b] = s]
          /\ e \in Cache
      <4>1. [c.buf EXCEPT ![b] = s] \in [Buf -> Buffer]
        BY <1>1, <3>2 DEF Cache
      <4> HIDE DEF d, r
      <4>2. QED
        BY <1>1, <1>2, <3>1, <4>1 DEF Cache
    <3>4. e.buf[b] = s /\ \A x \in Buf \ {b} : e.buf[x] = c.buf[x]
      BY <1>1, <3>3 DEF Cache
    <3>both. r.blk \in FatBlock => d[Mirror[r.blk]] = d[r.blk]
      <4>1. r.blk \in FatBlock => /\ Mirror[r.blk] \in Block /\ Mirror[r.blk] \in Copies(r)
                                  /\ Copies(r) = {r.blk, Mirror[r.blk]}
        BY <2>0, CacheAssumption DEF Copies
      <4>2. QED
        BY <2>0, <2>2, <4>1
    <3> HIDE DEF e, d
    <3>5. Ranked(e) /\ Placed(e) /\ Single(e)
      BY <3>2, <3>3, <3>4 DEF Sound, Ranked, Placed, Single
    <3>6. ASSUME Faithful(c) PROVE Faithful(e)
      <4>1. \A x \in FileBlock \ {r.blk} : NonePending(e, x) => NonePending(c, x)
        BY <3>4 DEF NonePending
      <4>2. r.blk # NoBlock /\ NoBlock \notin FileBlock
        BY <2>0, CacheAssumption DEF FileBlock
      <4>3. d[r.blk] = c.written[r.blk]
        BY <2>0, <2>1, <2>2, <3>6, <4>2 DEF Faithful, FaithfulBut
      <4>4. \A x \in FileBlock : NonePending(e, x) => d[x] = c.written[x]
        BY <2>1, <3>6, <4>1, <4>2, <4>3 DEF Faithful, FaithfulBut
      <4>5. QED
        BY <3>2, <3>3, <3>4, <3>6, <4>4 DEF Faithful, FaithfulBut
    <3>7. Paired(c, e)
      BY <3>3, <3>4, <3>both DEF Paired, PairedAt, Pending
    <3>8. QED
      BY <3>2, <3>3, <3>4, <3>5, <3>6, <3>7 DEF Sound, e
  <2>3. CASE Copies(r) \cap bad # {}
    <3> DEFINE s == Invalid([r EXCEPT !.dirty = FALSE])
    <3>1. e = [c EXCEPT !.disk = d, !.buf = [c.buf EXCEPT ![b] = s],
                        !.written = [c.written EXCEPT ![r.blk] = d[r.blk]]]
      BY <1>4, <2>3 DEF flush1
    <3>2. s \in Buffer /\ s.blk = r.blk /\ ~s.valid /\ ~Pending(s)
      BY <1>1 DEF Buffer, Pending, Invalid
    <3> HIDE DEF s
    <3>3. /\ e.rank = c.rank /\ e.disk = d
          /\ e.written = [c.written EXCEPT ![r.blk] = d[r.blk]]
          /\ e.buf = [c.buf EXCEPT ![b] = s]
      BY <1>1, <3>1 DEF Cache
    <3>4. e \in Cache
      <4>1. d[r.blk] \in Contents
        BY <1>2, <2>0
      <4>2. [c.written EXCEPT ![r.blk] = d[r.blk]] \in [Block -> Contents]
        BY <1>1, <4>1 DEF Cache
      <4>3. [c.buf EXCEPT ![b] = s] \in [Buf -> Buffer]
        BY <1>1, <3>2 DEF Cache
      <4> HIDE DEF d, r
      <4>4. QED
        BY <1>1, <1>2, <3>1, <4>2, <4>3 DEF Cache
    <3>5. /\ e.buf[b] = s /\ \A x \in Buf \ {b} : e.buf[x] = c.buf[x]
          /\ e.written[r.blk] = d[r.blk] /\ \A x \in Block \ {r.blk} : e.written[x] = c.written[x]
      BY <1>1, <2>0, <3>3 DEF Cache
    <3> HIDE DEF e, d
    <3>6. Ranked(e) /\ Placed(e) /\ Single(e)
      <4>1. Ranked(e)
        BY <3>3 DEF Sound, Ranked
      <4>2. \A x \in Buf : e.buf[x].valid => c.buf[x].valid /\ e.buf[x] = c.buf[x]
        BY <3>2, <3>5, Zenon
      <4>3. Placed(e)
        BY <4>2 DEF Sound, Placed
      <4>4. ASSUME NEW x \in Buf, NEW y \in Buf, e.buf[x].valid, e.buf[y].valid,
                   e.buf[x].blk = e.buf[y].blk
            PROVE  x = y
        <5>1. c.buf[x].valid /\ c.buf[y].valid /\ c.buf[x].blk = c.buf[y].blk
          BY <4>2, <4>4
        <5>2. QED
          BY <5>1 DEF Sound, Single
      <4>5. Single(e)
        BY <4>4 DEF Single
      <4>6. QED
        BY <4>1, <4>3, <4>5
    <3>7. ASSUME Faithful(c) PROVE Faithful(e)
      <4>1. \A x \in FileBlock \ {r.blk} : NonePending(e, x) => NonePending(c, x)
        BY <3>5 DEF NonePending
      <4>2. r.blk # NoBlock /\ NoBlock \notin FileBlock
        BY <2>0, CacheAssumption DEF FileBlock
      <4>3. \A x \in FileBlock : NonePending(e, x) => d[x] = e.written[x]
        BY <2>1, <3>5, <3>7, <4>1, <4>2 DEF Faithful, FaithfulBut, FileBlock
      <4>4. ASSUME NEW x \in Buf, e.buf[x].valid, e.buf[x].blk # NoBlock
            PROVE  e.buf[x].data = e.written[e.buf[x].blk]
        <5>1. x # b /\ c.buf[x].valid /\ e.buf[x] = c.buf[x]
          BY <3>2, <3>5, <4>4
        <5>2. c.buf[x].blk # r.blk /\ c.buf[x].blk \in Block
          BY <2>0, <5>1 DEF Sound, Single, Placed, FileBlock
        <5>3. QED
          BY <3>5, <3>7, <4>4, <5>1, <5>2 DEF Faithful, FaithfulBut
      <4>5. QED
        BY <3>3, <4>3, <4>4 DEF Faithful, FaithfulBut
    <3>8. Paired(c, e)
      BY <3>2, <3>5 DEF Paired, PairedAt, Pending
    <3>9. QED
      BY <3>2, <3>3, <3>4, <3>5, <3>6, <3>7, <3>8 DEF Sound, e
  <2>4. QED
    BY <2>2, <2>3
<1>5. QED
  BY <1>3, <1>4

(***************************************************************************)
(* getblk                                                                  *)
(***************************************************************************)
(* A change of what the properties do not look at: ranks and BFR_UNCACHE.  *)
LEMMA SameView ==
    ASSUME NEW c, Sound(c), NEW e \in Cache, Ranked(e),
           e.disk = c.disk, e.written = c.written,
           \A b \in Buf : /\ e.buf[b].blk = c.buf[b].blk /\ e.buf[b].data = c.buf[b].data
                          /\ e.buf[b].valid = c.buf[b].valid /\ e.buf[b].dirty = c.buf[b].dirty
                          /\ e.buf[b].fat = c.buf[b].fat
    PROVE  Sound(e) /\ \A y : FaithfulBut(c, y) => FaithfulBut(e, y)
<1>1. Placed(e) /\ Single(e)
  BY DEF Sound, Placed, Single
<1>2. \A x : NonePending(e, x) => NonePending(c, x)
  BY DEF NonePending, Pending
<1>3. ASSUME NEW y, FaithfulBut(c, y)
      PROVE  FaithfulBut(e, y)
  BY <1>2, <1>3 DEF FaithfulBut
<1>4. QED
  BY <1>1, <1>3 DEF Sound

(* A buffer with nothing pending is given to a block that no buffer holds. *)
LEMMA RefillKeeps ==
    ASSUME NEW c, Sound(c), NEW v \in Buf, ~Pending(c.buf[v]), NEW blk \in FileBlock,
           \A b \in Buf : c.buf[b].valid => c.buf[b].blk # blk,
           NEW s \in Buffer, s.blk = blk, s.valid, ~s.dirty, s.fat <=> blk \in FatBlock,
           NEW e \in Cache, e.buf = [c.buf EXCEPT ![v] = s],
           e.rank = c.rank, e.disk = c.disk, e.written = c.written
    PROVE  /\ Sound(e)
           /\ Faithful(c) => FaithfulBut(e, blk)
           /\ Faithful(c) /\ s.data = c.disk[blk] => Faithful(e)
<1>1. e.buf[v] = s /\ \A b \in Buf \ {v} : e.buf[b] = c.buf[b]
  BY DEF Sound, Cache
<1>2. Ranked(e)
  BY DEF Sound, Ranked
<1>3. Placed(e)
  BY <1>1 DEF Sound, Placed
<1>4. Single(e)
  BY <1>1 DEF Sound, Single
<1>5. \A x \in FileBlock : NonePending(e, x) => NonePending(c, x)
  BY <1>1 DEF NonePending
<1>6. NoBlock \notin FileBlock
  BY CacheAssumption DEF FileBlock
<1>7. ASSUME Faithful(c) PROVE FaithfulBut(e, blk)
  BY <1>1, <1>3, <1>5, <1>6, <1>7 DEF Faithful, FaithfulBut, Placed
<1>8. ASSUME Faithful(c), s.data = c.disk[blk] PROVE Faithful(e)
  <2>1. NonePending(c, blk)
    BY DEF NonePending, Pending
  <2>2. s.data = c.written[blk]
    BY <1>6, <1>8, <2>1 DEF Faithful, FaithfulBut
  <2>3. QED
    BY <1>1, <1>3, <1>5, <1>6, <1>8, <2>2 DEF Faithful, FaithfulBut, Placed
<1>9. QED
  BY <1>2, <1>3, <1>4, <1>7, <1>8 DEF Sound

(* The buffer to recycle goes to the front and is flushed.                 *)
LEMMA EvictKeeps ==
    ASSUME NEW c, Sound(c), NEW v \in Buf, NEW bad
    PROVE  LET c1 == [c EXCEPT !.rank = move_buffer(c.rank, v), !.buf[v].uncache = TRUE]
               c2 == flush1(c1, v, bad)
           IN  /\ Sound(c2)
               /\ Faithful(c) => Faithful(c2)
               /\ c2.rank[v] = 0
               /\ \A x \in Buf \ {v} : c2.buf[x] = c.buf[x]
               /\ c2.buf[v].valid => c.buf[v].valid
               /\ c2.buf[v].blk = c.buf[v].blk
               /\ ~Pending(c2.buf[v])
               /\ Paired(c, c2)
<1> DEFINE rk == move_buffer(c.rank, v)
           s  == [c.buf[v] EXCEPT !.uncache = TRUE]
           c1 == [c EXCEPT !.rank = rk, !.buf = [c.buf EXCEPT ![v] = s]]
           c2 == flush1(c1, v, bad)
<1>1. c \in Cache /\ c.buf[v] \in Buffer
  BY DEF Sound, Cache
<1>2. /\ rk \in [Buf -> 0 .. BufCount - 1] /\ rk[v] = 0
      /\ \A x, y \in Buf : x # y => rk[x] # rk[y]
  BY <1>1, MoveKeeps DEF Sound
<1>3. /\ s \in Buffer /\ s.blk = c.buf[v].blk /\ s.data = c.buf[v].data /\ s.valid = c.buf[v].valid
      /\ s.dirty = c.buf[v].dirty /\ s.fat = c.buf[v].fat
  BY <1>1 DEF Buffer
<1> HIDE DEF rk, s
<1>4. /\ c1.rank = rk /\ c1.disk = c.disk /\ c1.written = c.written
      /\ c1.buf = [c.buf EXCEPT ![v] = s]
      /\ c1 \in Cache
  <2>1. [c.buf EXCEPT ![v] = s] \in [Buf -> Buffer]
    BY <1>1, <1>3 DEF Cache
  <2>2. QED
    BY <1>1, <1>2, <2>1 DEF Cache
<1> HIDE DEF c1
<1>5. c1.buf[v] = s /\ \A x \in Buf \ {v} : c1.buf[x] = c.buf[x]
  BY <1>1, <1>4 DEF Cache
<1>6. Ranked(c1)
  BY <1>2, <1>4 DEF Ranked
<1>7. \A b \in Buf : /\ c1.buf[b].blk = c.buf[b].blk /\ c1.buf[b].data = c.buf[b].data
                     /\ c1.buf[b].valid = c.buf[b].valid /\ c1.buf[b].dirty = c.buf[b].dirty
                     /\ c1.buf[b].fat = c.buf[b].fat
  BY <1>3, <1>5
<1>8. Sound(c1) /\ \A y : FaithfulBut(c, y) => FaithfulBut(c1, y)
  BY <1>4, <1>6, <1>7, SameView
<1>9. Faithful(c) => Faithful(c1)
  BY <1>8 DEF Faithful
<1>10. /\ Sound(c2)
       /\ Faithful(c1) => Faithful(c2)
       /\ c2.rank = c1.rank
       /\ \A x \in Buf \ {v} : c2.buf[x] = c1.buf[x]
       /\ c2.buf[v].valid => c1.buf[v].valid
       /\ c2.buf[v].blk = c1.buf[v].blk
       /\ ~Pending(c2.buf[v])
       /\ Paired(c1, c2)
  BY <1>8, Flush1Keeps
<1> HIDE DEF c2
<1>11. /\ Sound(c2)
       /\ Faithful(c) => Faithful(c2)
       /\ c2.rank[v] = 0
       /\ \A x \in Buf \ {v} : c2.buf[x] = c.buf[x]
       /\ c2.buf[v].valid => c.buf[v].valid
       /\ c2.buf[v].blk = c.buf[v].blk
       /\ ~Pending(c2.buf[v])
  BY <1>2, <1>4, <1>5, <1>7, <1>9, <1>10
<1>12. Paired(c, c2)
  BY <1>7, <1>10 DEF Paired, PairedAt, Pending
<1>13. QED
  BY <1>11, <1>12 DEF c2, c1, rk, s

(* What a caller gets: no buffer, or one with the block; the data of a     *)
(* block that is to be overwritten are not read.  keep is a FAT buffer     *)
(* another call has just got.                                              *)
Got(c, g, blk, over, bad) ==
    /\ Sound(g.c) /\ Paired(c, g.c)
    /\ g.bp = NoBuf => \A b \in Buf : g.c.buf[b].blk = c.buf[b].blk
    /\ g.bp = NoBuf => (Faithful(c) /\ blk \notin bad => Faithful(g.c))
    /\ g.bp # NoBuf =>
          /\ g.bp \in Buf
          /\ g.c.buf[g.bp].valid /\ g.c.buf[g.bp].blk = blk /\ ~g.c.buf[g.bp].uncache
          /\ g.c.rank[g.bp] = 0
          /\ \A b \in Buf \ {g.bp} : g.c.buf[b] = c.buf[b]
          /\ c.buf[g.bp].valid /\ c.buf[g.bp].blk = blk => g.c.buf[g.bp].dirty = c.buf[g.bp].dirty
          /\ Faithful(c) => FaithfulBut(g.c, blk)
          /\ Faithful(c) /\ ~over => Faithful(g.c)
          /\ \A keep \in Buf :
                /\ c.rank[keep] = 0 /\ ~c.buf[keep].uncache
                /\ c.buf[keep].fat /\ c.buf[keep].blk # blk
                => g.bp # keep

(* The front buffer, of a FAT block and to be kept, is not the next victim. *)
LEMMA VictimNotKept ==
    ASSUME NEW c, Sound(c), NEW keep \in Buf, c.rank[keep] = 0,
           ~c.buf[keep].uncache, c.buf[keep].fat
    PROVE  Victim(c) # keep
<1>1. c \in Cache
  BY DEF Sound
<1>2. CASE Uncached(c) # {}
  <2>1. Last(c, Uncached(c)) \in Uncached(c)
    BY <1>1, <1>2, LastOf DEF Uncached
  <2>2. QED
    BY <1>2, <2>1 DEF Victim, Uncached
<1>3. CASE /\ Uncached(c) = {}
           /\ c.buf[firstbuf(c)].fat /\ Cardinality(FatBufs(c)) < 3 /\ FatBufs(c) # Buf
  <2>1. Buf \ FatBufs(c) # {}
    BY <1>3 DEF FatBufs
  <2>2. Last(c, Buf \ FatBufs(c)) \in Buf \ FatBufs(c)
    BY <1>1, <2>1, LastOf
  <2>3. QED
    BY <1>3, <2>2 DEF Victim, FatBufs
<1>4. CASE /\ Uncached(c) = {}
           /\ ~(c.buf[firstbuf(c)].fat /\ Cardinality(FatBufs(c)) < 3 /\ FatBufs(c) # Buf)
  <2>1. Victim(c) = Last(c, Buf)
    BY <1>4 DEF Victim
  <2>2. PICK b \in Buf : b # keep
    <3>1. ASSUME \A b \in Buf : b = keep
          PROVE  FALSE
      <4>1. Buf = {keep}
        BY <3>1
      <4>2. Cardinality(Buf) = 1
        BY <4>1, FS_Singleton
      <4>3. QED
        BY <4>2, CacheAssumption
    <3>2. QED
      BY <3>1
  <2>3. c.rank[b] # 0 /\ c.rank[b] \in 0 .. BufCount - 1
    BY <1>1, <2>2 DEF Sound, Ranked, Cache
  <2>4. c.rank[b] <= c.rank[Last(c, Buf)]
    BY <1>1, LastOf, BufFacts
  <2>5. c.rank[Last(c, Buf)] # 0
    BY <2>3, <2>4, BufFacts
  <2>6. QED
    BY <2>1, <2>5
<1>5. QED
  BY <1>2, <1>3, <1>4

(* A hit moves to the front and is kept.                                   *)
HitMoved(c, h) == [c EXCEPT !.rank = move_buffer(c.rank, h), !.buf[h].uncache = FALSE]
IsHit(c, e, h, blk) ==
    /\ h \in Buf /\ c.buf[h].blk = blk
    /\ Sound(e) /\ \A y : FaithfulBut(c, y) => FaithfulBut(e, y)
    /\ e.buf[h].valid /\ e.buf[h].blk = blk /\ ~e.buf[h].uncache
    /\ e.rank[h] = 0 /\ e.buf[h].dirty = c.buf[h].dirty
    /\ \A b \in Buf \ {h} : e.buf[b] = c.buf[b]
LEMMA HitKeeps ==
    ASSUME NEW c, Sound(c), NEW blk \in FileBlock, Hits(c, blk) # {}
    PROVE  IsHit(c, HitMoved(c, Hit(c, blk)), Hit(c, blk), blk)
<1> DEFINE h  == Hit(c, blk)
           rk == move_buffer(c.rank, h)
           s  == [c.buf[h] EXCEPT !.uncache = FALSE]
           e  == [c EXCEPT !.rank = rk, !.buf = [c.buf EXCEPT ![h] = s]]
<1>1. h \in Buf /\ c.buf[h].valid /\ c.buf[h].blk = blk
  <2>1. h \in Hits(c, blk)
    BY HitOne DEF Sound
  <2>2. QED
    BY <2>1 DEF Hits
<1> HIDE DEF h
<1>2. c \in Cache /\ c.buf[h] \in Buffer
  BY <1>1 DEF Sound, Cache
<1>3. /\ rk \in [Buf -> 0 .. BufCount - 1] /\ rk[h] = 0
      /\ \A x, y \in Buf : x # y => rk[x] # rk[y]
  BY <1>1, <1>2, MoveKeeps DEF Sound
<1>4. /\ s \in Buffer /\ s.blk = c.buf[h].blk /\ s.data = c.buf[h].data /\ s.valid = c.buf[h].valid
      /\ s.dirty = c.buf[h].dirty /\ s.fat = c.buf[h].fat /\ s.uncache = FALSE
  BY <1>2 DEF Buffer
<1> HIDE DEF rk, s
<1>5. /\ e.rank = rk /\ e.disk = c.disk /\ e.written = c.written
      /\ e.buf = [c.buf EXCEPT ![h] = s]
      /\ e \in Cache
  <2>1. [c.buf EXCEPT ![h] = s] \in [Buf -> Buffer]
    BY <1>2, <1>4 DEF Cache
  <2>2. QED
    BY <1>2, <1>3, <2>1 DEF Cache
<1> HIDE DEF e
<1>6. e.buf[h] = s /\ \A x \in Buf \ {h} : e.buf[x] = c.buf[x]
  BY <1>1, <1>2, <1>5 DEF Cache
<1>7. Ranked(e)
  BY <1>3, <1>5 DEF Ranked
<1>8. \A b \in Buf : /\ e.buf[b].blk = c.buf[b].blk /\ e.buf[b].data = c.buf[b].data
                     /\ e.buf[b].valid = c.buf[b].valid /\ e.buf[b].dirty = c.buf[b].dirty
                     /\ e.buf[b].fat = c.buf[b].fat
  BY <1>4, <1>6
<1>9. Sound(e) /\ \A y : FaithfulBut(c, y) => FaithfulBut(e, y)
  BY <1>5, <1>7, <1>8, SameView
<1>10. /\ e.buf[h].valid /\ e.buf[h].blk = blk /\ ~e.buf[h].uncache
       /\ e.rank[h] = 0 /\ e.buf[h].dirty = c.buf[h].dirty
  BY <1>1, <1>3, <1>4, <1>5, <1>6
<1>11. IsHit(c, e, h, blk)
  BY <1>1, <1>6, <1>9, <1>10 DEF IsHit
<1>12. e = HitMoved(c, h)
  BY DEF e, s, rk, HitMoved
<1>13. QED
  BY <1>11, <1>12 DEF h

(* A faithful state is faithful whichever block is left out.               *)
LEMMA FaithfulAll ==
    ASSUME NEW c, Sound(c), Faithful(c), NEW y
    PROVE  FaithfulBut(c, y)
<1>1. NoBlock \notin FileBlock
  BY CacheAssumption DEF FileBlock
<1>2. \A b \in Buf : c.buf[b].valid => c.buf[b].blk # NoBlock
  BY <1>1 DEF Sound, Placed
<1>3. QED
  BY <1>1, <1>2 DEF Faithful, FaithfulBut

(* The mark getFATblock sets.                                              *)
FatMarked(e, p) == [e EXCEPT !.buf[p].fat = TRUE]
Marks(g)        == [g EXCEPT !.c.buf[g.bp].fat = TRUE]
LEMMA MarkFat ==
    ASSUME NEW p, NEW e, NEW g, g = [bp |-> p, c |-> e]
    PROVE  Marks(g) = [bp |-> p, c |-> FatMarked(e, p)]
<1> DEFINE e1 == [e EXCEPT !.buf[p].fat = TRUE]
<1>1. g.bp = p /\ g.c = e
  OBVIOUS
<1>2. [g EXCEPT !.c.buf[g.bp].fat = TRUE] = [g EXCEPT !.c = e1]
  BY <1>1, Zenon
<1> HIDE DEF e1
<1>3. [g EXCEPT !.c = e1] = [bp |-> p, c |-> e1]
  OBVIOUS
<1>4. QED
  BY <1>2, <1>3 DEF e1, Marks, FatMarked

(* getblk and getFATblock give what Got says, found in the cache or read.  *)
LEMMA GetanyKeeps ==
    ASSUME NEW c, Sound(c), NEW blk \in FileBlock, NEW over \in BOOLEAN, NEW bad
    PROVE  Got(c, getany(c, blk, over, bad), blk, over, bad)
<1> DEFINE ov == over /\ blk \notin FatBlock
           g  == getblk(c, blk, ov, bad)
           G  == getany(c, blk, over, bad)
           v  == Victim(c)
           c1 == [c EXCEPT !.rank = move_buffer(c.rank, v), !.buf[v].uncache = TRUE]
           c2 == flush1(c1, v, bad)
<1>1. c \in Cache /\ blk \in Block /\ NoBuf \notin Buf
  BY CacheAssumption DEF Sound, FileBlock
<1>2. v \in Buf
  BY <1>1, VictimType
<1>3. G = IF blk \in FatBlock /\ g.bp # NoBuf THEN [g EXCEPT !.c.buf[g.bp].fat = TRUE] ELSE g
  BY DEF getany, getFATblock
<1>4. CASE Hits(c, blk) # {}
  <2> DEFINE h == Hit(c, blk)
             e == HitMoved(c, h)
  <2>1. g = [bp |-> h, c |-> e]
    BY <1>4 DEF getblk, HitMoved
  <2>2. /\ h \in Buf /\ c.buf[h].blk = blk
        /\ Sound(e) /\ \A y : FaithfulBut(c, y) => FaithfulBut(e, y)
        /\ e.buf[h].valid /\ e.buf[h].blk = blk /\ ~e.buf[h].uncache
        /\ e.rank[h] = 0 /\ e.buf[h].dirty = c.buf[h].dirty
        /\ \A b \in Buf \ {h} : e.buf[b] = c.buf[b]
    <3>1. IsHit(c, e, h, blk)
      BY <1>4, HitKeeps
    <3> HIDE DEF e, h
    <3>2. QED
      BY <3>1 DEF IsHit
  <2> HIDE DEF e, h
  <2>3. blk \in FatBlock => [e EXCEPT !.buf[h].fat = TRUE] = e
    <3> SUFFICES ASSUME blk \in FatBlock PROVE [e EXCEPT !.buf[h].fat = TRUE] = e
      OBVIOUS
    <3>1. e \in Cache /\ e.buf[h] \in Buffer
      BY <2>2 DEF Sound, Cache
    <3>2. e.buf[h].fat = TRUE
      BY <2>2, <3>1 DEF Sound, Placed, Buffer
    <3>3. [e.buf[h] EXCEPT !.fat = TRUE] = e.buf[h]
      BY <3>1, <3>2 DEF Buffer
    <3>4. [e.buf EXCEPT ![h] = e.buf[h]] = e.buf
      BY <3>1 DEF Cache
    <3>5. [e EXCEPT !.buf = e.buf] = e
      BY <3>1 DEF Cache
    <3>6. QED
      BY <3>3, <3>4, <3>5, Zenon
  <2>4. G = [bp |-> h, c |-> e]
    <3>1. CASE blk \in FatBlock
      <4>1. h # NoBuf /\ g.bp = h
        BY <1>1, <2>1, <2>2
      <4>2. G = [g EXCEPT !.c.buf[g.bp].fat = TRUE]
        BY <1>3, <3>1, <4>1
      <4>3. G = [bp |-> h, c |-> [e EXCEPT !.buf[h].fat = TRUE]]
        <5> HIDE DEF G, g
        <5>1. Marks(g) = [bp |-> h, c |-> FatMarked(e, h)]
          BY <2>1, MarkFat
        <5>2. QED
          BY <4>2, <5>1 DEF Marks, FatMarked
      <4>4. QED
        BY <2>3, <3>1, <4>3
    <3>2. CASE blk \notin FatBlock
      BY <1>3, <2>1, <3>2
    <3>3. QED
      BY <3>1, <3>2
  <2>5. Faithful(c) => Faithful(e)
    BY <2>2 DEF Faithful
  <2>6. Faithful(c) => FaithfulBut(e, blk)
    BY <2>2, <2>5, FaithfulAll
  <2>7. Paired(c, e)
    BY <2>2 DEF Paired, PairedAt, Pending
  <2>8. h # NoBuf
    BY <1>1, <2>2
  <2>9. QED
    BY <2>2, <2>4, <2>5, <2>6, <2>7, <2>8 DEF Got
<1>5. CASE Hits(c, blk) = {}
  <2>1. /\ Sound(c2)
        /\ Faithful(c) => Faithful(c2)
        /\ c2.rank[v] = 0
        /\ \A x \in Buf \ {v} : c2.buf[x] = c.buf[x]
        /\ c2.buf[v].valid => c.buf[v].valid
        /\ c2.buf[v].blk = c.buf[v].blk
        /\ ~Pending(c2.buf[v])
        /\ Paired(c, c2)
    BY <1>2, EvictKeeps
  <2>2. g = IF ~Flushed(c1, v, bad) THEN [bp |-> NoBuf, c |-> c2]
            ELSE IF ~ov /\ blk \in bad
            THEN [bp |-> NoBuf, c |-> [c2 EXCEPT !.buf[v].data = Noise]]
            ELSE [bp |-> v,
                  c  |-> [c2 EXCEPT !.buf[v] =
                            [blk |-> blk, data |-> IF ov THEN c2.buf[v].data ELSE c2.disk[blk],
                             valid |-> TRUE, dirty |-> FALSE, fat |-> FALSE, uncache |-> FALSE]]]
    BY <1>5 DEF getblk
  <2> HIDE DEF c2, c1, v
  <2>3. CASE ~Flushed(c1, v, bad)
    <3>1. G = [bp |-> NoBuf, c |-> c2]
      BY <1>3, <2>2, <2>3, SMTT(30)
    <3>2. QED
      BY <2>1, <3>1 DEF Got
  <2>4. CASE Flushed(c1, v, bad) /\ ~ov /\ blk \in bad
    <3> DEFINE e == [c2 EXCEPT !.buf[v].data = Noise]
    <3>1. G = [bp |-> NoBuf, c |-> e]
      BY <1>3, <2>2, <2>4, SMTT(30)
    <3>2. Sound(e) /\ Paired(c, e) /\ \A b \in Buf : e.buf[b].blk = c.buf[b].blk
      <4> DEFINE s == [c2.buf[v] EXCEPT !.data = Noise]
      <4>1. c2 \in Cache /\ c2.buf[v] \in Buffer
        BY <1>2, <2>1 DEF Sound, Cache
      <4>2. /\ s \in Buffer /\ s.blk = c2.buf[v].blk /\ s.valid = c2.buf[v].valid
            /\ s.fat = c2.buf[v].fat /\ s.dirty = c2.buf[v].dirty
        BY <4>1 DEF Buffer
      <4>3. e = [c2 EXCEPT !.buf = [c2.buf EXCEPT ![v] = s]]
        BY DEF e
      <4> HIDE DEF s
      <4>4. [c2.buf EXCEPT ![v] = s] \in [Buf -> Buffer]
        BY <4>1, <4>2 DEF Cache
      <4>5. e \in Cache /\ e.rank = c2.rank /\ e.disk = c2.disk /\ e.buf = [c2.buf EXCEPT ![v] = s]
        BY <4>1, <4>3, <4>4 DEF Cache
      <4>6. e.buf[v] = s /\ \A x \in Buf \ {v} : e.buf[x] = c2.buf[x]
        BY <1>2, <4>1, <4>5 DEF Cache
      <4> HIDE DEF e
      <4>7. Ranked(e) /\ Placed(e) /\ Single(e)
        BY <2>1, <4>2, <4>5, <4>6 DEF Sound, Ranked, Placed, Single
      <4>8. \A b \in Buf : /\ e.buf[b].valid = c2.buf[b].valid /\ e.buf[b].dirty = c2.buf[b].dirty
                           /\ e.buf[b].blk = c2.buf[b].blk
        BY <4>2, <4>6
      <4>9. Paired(c, e)
        BY <2>1, <4>5, <4>8 DEF Paired, PairedAt
      <4>10. QED
        BY <2>1, <4>5, <4>7, <4>8, <4>9 DEF Sound
    <3> HIDE DEF e
    <3>3. blk \in bad /\ G.c = e /\ G.bp = NoBuf
      BY <2>4, <3>1
    <3>4. QED
      BY <3>2, <3>3 DEF Got
  <2>5. CASE Flushed(c1, v, bad) /\ ~(~ov /\ blk \in bad)
    <3> DEFINE data == IF ov THEN c2.buf[v].data ELSE c2.disk[blk]
               s0 == [blk |-> blk, data |-> data, valid |-> TRUE, dirty |-> FALSE,
                      fat |-> FALSE, uncache |-> FALSE]
               s1 == [blk |-> blk, data |-> data, valid |-> TRUE, dirty |-> FALSE,
                      fat |-> TRUE, uncache |-> FALSE]
               s  == IF blk \in FatBlock THEN s1 ELSE s0
               e0 == [c2 EXCEPT !.buf = [c2.buf EXCEPT ![v] = s0]]
               e  == [c2 EXCEPT !.buf = [c2.buf EXCEPT ![v] = s]]
    <3>1. c2 \in Cache /\ data \in Contents
      BY <1>1, <1>2, <2>1 DEF Sound, Cache, Buffer, Contents
    <3>2. g = [bp |-> v, c |-> e0]
      BY <2>2, <2>5
    <3>3. ~ov => data = c2.disk[blk]
      OBVIOUS
    <3> HIDE DEF data
    <3>4. /\ s \in Buffer /\ s.blk = blk /\ s.data = data /\ s.valid /\ ~s.dirty
          /\ (s.fat <=> blk \in FatBlock) /\ ~s.uncache
      <4>1. CASE blk \in FatBlock
        BY <1>1, <3>1, <4>1 DEF Buffer, Contents
      <4>2. CASE blk \notin FatBlock
        BY <1>1, <3>1, <4>2 DEF Buffer, Contents
      <4>3. QED
        BY <4>1, <4>2
    <3>5. s = IF blk \in FatBlock THEN [s0 EXCEPT !.fat = TRUE] ELSE s0
      OBVIOUS
    <3> HIDE DEF s, s0, s1
    <3>6. G = [bp |-> v, c |-> e]
      <4>1. CASE blk \notin FatBlock
        BY <1>3, <3>2, <3>5, <4>1
      <4>2. CASE blk \in FatBlock
        <5>1. G = [bp |-> v, c |-> [e0 EXCEPT !.buf = [e0.buf EXCEPT ![v] = [e0.buf[v] EXCEPT !.fat = TRUE]]]]
          <6>1. v # NoBuf /\ g.bp = v
            BY <1>1, <1>2, <3>2
          <6>2. G = [g EXCEPT !.c.buf[g.bp].fat = TRUE]
            BY <1>3, <4>2, <6>1
          <6> HIDE DEF e0, G, g
          <6>3. Marks(g) = [bp |-> v, c |-> FatMarked(e0, v)]
            BY <3>2, MarkFat
          <6>4. [e0 EXCEPT !.buf[v].fat = TRUE]
                = [e0 EXCEPT !.buf = [e0.buf EXCEPT ![v] = [e0.buf[v] EXCEPT !.fat = TRUE]]]
            OBVIOUS
          <6>5. QED
            BY <6>2, <6>3, <6>4 DEF Marks, FatMarked
        <5>2. e0.buf = [c2.buf EXCEPT ![v] = s0] /\ e0.buf[v] = s0
          BY <1>2, <3>1 DEF Cache
        <5>3. [e0.buf EXCEPT ![v] = s] = [c2.buf EXCEPT ![v] = s]
          BY <1>2, <3>1, <5>2 DEF Cache
        <5>4. [e0 EXCEPT !.buf = [c2.buf EXCEPT ![v] = s]] = e
          BY <3>1 DEF Cache
        <5>5. QED
          <6> HIDE DEF G, e, e0
          <6>1. [e0.buf[v] EXCEPT !.fat = TRUE] = s
            <7>1. e0.buf[v] = s0
              BY <5>2
            <7>2. [s0 EXCEPT !.fat = TRUE] = s
              BY <3>5, <4>2
            <7>3. QED
              BY <7>1, <7>2, Zenon
          <6>2. G = [bp |-> v, c |-> [e0 EXCEPT !.buf = [c2.buf EXCEPT ![v] = s]]]
            BY <5>1, <5>3, <6>1, Zenon
          <6>3. QED
            BY <5>4, <6>2, Zenon
      <4>3. QED
        BY <4>1, <4>2
    <3>7. /\ e.buf = [c2.buf EXCEPT ![v] = s]
          /\ e.rank = c2.rank /\ e.disk = c2.disk /\ e.written = c2.written
          /\ e \in Cache
      <4>1. [c2.buf EXCEPT ![v] = s] \in [Buf -> Buffer]
        BY <3>1, <3>4 DEF Cache
      <4>2. QED
        BY <3>1, <4>1 DEF Cache
    <3> HIDE DEF e
    <3>8. \A b \in Buf : c2.buf[b].valid => c2.buf[b].blk # blk
      <4>1. \A b \in Buf : c.buf[b].valid => c.buf[b].blk # blk
        BY <1>5 DEF Hits
      <4>2. QED
        BY <2>1, <4>1
    <3>9. /\ Sound(e)
          /\ Faithful(c2) => FaithfulBut(e, blk)
          /\ Faithful(c2) /\ s.data = c2.disk[blk] => Faithful(e)
      BY <1>2, <2>1, <3>4, <3>7, <3>8, RefillKeeps
    <3>10. e.buf[v] = s /\ \A b \in Buf \ {v} : e.buf[b] = c.buf[b]
      BY <1>2, <2>1, <3>1, <3>7 DEF Cache
    <3>11. ~over => ~ov
      OBVIOUS
    <3>12. \A keep \in Buf : /\ c.rank[keep] = 0 /\ ~c.buf[keep].uncache
                             /\ c.buf[keep].fat /\ c.buf[keep].blk # blk
                             => v # keep
      BY VictimNotKept DEF v
    <3>13. QED
      <4>1. G.bp = v /\ G.c = e /\ v \in Buf
        BY <1>2, <3>6
      <4> HIDE DEF G
      <4>2. e.buf[v].valid /\ e.buf[v].blk = blk /\ ~e.buf[v].uncache /\ e.rank[v] = 0
        BY <2>1, <3>4, <3>7, <3>10
      <4>3. Faithful(c) => FaithfulBut(e, blk)
        BY <2>1, <3>9
      <4>4. Faithful(c) /\ ~over => Faithful(e)
        BY <2>1, <3>3, <3>4, <3>9, <3>11
      <4>5. \A b \in Buf : c.buf[b].valid => c.buf[b].blk # blk
        BY <1>5 DEF Hits
      <4>6. Paired(c, e)
        BY <3>10, <4>2, <4>5 DEF Paired, PairedAt, Pending
      <4>7. v # NoBuf
        BY <1>1, <4>1
      <4>8. Got(c, G, blk, over, bad)
        BY <3>9, <3>10, <3>12, <4>1, <4>2, <4>3, <4>4, <4>5, <4>6, <4>7 DEF Got
      <4>9. QED
        BY <4>8 DEF G
  <2>6. QED
    BY <2>3, <2>4, <2>5
<1>6. QED
  BY <1>4, <1>5

(***************************************************************************)
(* Storing, flushing and dropping.                                         *)
(***************************************************************************)
LEMMA StoreKeeps ==
    ASSUME NEW c, Sound(c), NEW b \in Buf, NEW blk, c.buf[b].valid, c.buf[b].blk = blk,
           NEW d \in Contents, NEW unc \in BOOLEAN
    PROVE  LET e == Store(c, b, blk, d, unc) IN
           /\ Sound(e)
           /\ FaithfulBut(c, blk) => Faithful(e)
           /\ \A x \in Buf \ {b} : e.buf[x] = c.buf[x]
           /\ e.buf[b].dirty
<1> DEFINE s == [c.buf[b] EXCEPT !.data = d, !.dirty = TRUE, !.valid = TRUE, !.uncache = unc]
           e == Store(c, b, blk, d, unc)
<1>1. c \in Cache /\ c.buf[b] \in Buffer /\ blk \in FileBlock /\ blk \in Block
  BY DEF Sound, Cache, Placed, FileBlock
<1>2. /\ s \in Buffer /\ s.blk = blk /\ s.data = d /\ s.valid /\ s.dirty
      /\ s.fat = c.buf[b].fat
  BY <1>1 DEF Buffer, Contents
<1>3. e = [c EXCEPT !.buf = [c.buf EXCEPT ![b] = s], !.written = [c.written EXCEPT ![blk] = d]]
  BY DEF Store
<1> HIDE DEF s, e
<1>4. /\ e.rank = c.rank /\ e.disk = c.disk
      /\ e.buf = [c.buf EXCEPT ![b] = s] /\ e.written = [c.written EXCEPT ![blk] = d]
      /\ e \in Cache
  <2>1. [c.buf EXCEPT ![b] = s] \in [Buf -> Buffer]
    BY <1>1, <1>2 DEF Cache
  <2>2. [c.written EXCEPT ![blk] = d] \in [Block -> Contents]
    BY <1>1 DEF Cache
  <2>3. QED
    BY <1>1, <1>3, <2>1, <2>2 DEF Cache
<1>5. /\ e.buf[b] = s /\ \A x \in Buf \ {b} : e.buf[x] = c.buf[x]
      /\ e.written[blk] = d /\ \A x \in Block \ {blk} : e.written[x] = c.written[x]
  BY <1>1, <1>4 DEF Cache
<1>6. Ranked(e) /\ Placed(e) /\ Single(e)
  BY <1>2, <1>4, <1>5 DEF Sound, Ranked, Placed, Single
<1>7. ASSUME FaithfulBut(c, blk) PROVE Faithful(e)
  <2>1. ASSUME NEW x \in Buf, e.buf[x].valid
        PROVE  e.buf[x].data = e.written[e.buf[x].blk]
    <3>1. CASE x = b
      BY <1>2, <1>5, <3>1
    <3>2. CASE x # b
      <4>1. e.buf[x] = c.buf[x] /\ c.buf[x].valid
        BY <1>5, <2>1, <3>2
      <4>2. c.buf[x].blk # blk /\ c.buf[x].blk \in Block
        BY <3>2, <4>1 DEF Sound, Single, Placed, FileBlock
      <4>3. QED
        BY <1>5, <1>7, <4>1, <4>2 DEF FaithfulBut
    <3>3. QED
      BY <3>1, <3>2
  <2>2. ~NonePending(e, blk)
    BY <1>2, <1>5 DEF NonePending, Pending
  <2>3. \A x \in FileBlock \ {blk} : NonePending(e, x) => NonePending(c, x)
    BY <1>5, <1>1 DEF NonePending
  <2>4. \A x \in FileBlock : NonePending(e, x) => e.disk[x] = e.written[x]
    BY <1>4, <1>5, <1>7, <2>2, <2>3 DEF FaithfulBut, FileBlock
  <2>5. QED
    BY <2>1, <2>4 DEF Faithful, FaithfulBut
<1>8. QED
  BY <1>2, <1>4, <1>5, <1>6, <1>7 DEF Sound, e

(* Some buffers are dropped and some blocks rewritten past the cache: of    *)
(* those blocks no buffer remains, and nothing else was pending in what     *)
(* was dropped.                                                            *)
LEMMA DropKeeps ==
    ASSUME NEW c, Sound(c), NEW e \in Cache, e.rank = c.rank,
           \A b \in Buf : e.buf[b] = c.buf[b] \/ ~e.buf[b].valid
    PROVE  /\ Sound(e)
           /\ \A Z \in SUBSET Block :
                 /\ Faithful(c)
                 /\ \A x \in Z : e.disk[x] = e.written[x]
                 /\ \A x \in Block \ Z : e.disk[x] = c.disk[x] /\ e.written[x] = c.written[x]
                 /\ \A b \in Buf : /\ e.buf[b].valid => c.buf[b].blk \notin Z
                                   /\ e.buf[b] # c.buf[b] =>
                                         ~Pending(c.buf[b]) \/ c.buf[b].blk \in Z
                 => Faithful(e)
<1>1. \A b \in Buf : e.buf[b].valid => c.buf[b].valid /\ e.buf[b] = c.buf[b]
  OBVIOUS
<1>2. Ranked(e)
  BY DEF Sound, Ranked
<1>3. Placed(e)
  BY <1>1 DEF Sound, Placed
<1>4. Single(e)
  <2>1. ASSUME NEW a \in Buf, NEW b \in Buf, e.buf[a].valid, e.buf[b].valid,
               e.buf[a].blk = e.buf[b].blk
        PROVE  a = b
    BY <1>1, <2>1 DEF Sound, Single
  <2>2. QED
    BY <2>1 DEF Single
<1>5. ASSUME NEW Z \in SUBSET Block, Faithful(c),
             \A x \in Z : e.disk[x] = e.written[x],
             \A x \in Block \ Z : e.disk[x] = c.disk[x] /\ e.written[x] = c.written[x],
             \A b \in Buf : /\ e.buf[b].valid => c.buf[b].blk \notin Z
                            /\ e.buf[b] # c.buf[b] =>
                                  ~Pending(c.buf[b]) \/ c.buf[b].blk \in Z
      PROVE  Faithful(e)
  <2>1. ASSUME NEW b \in Buf, e.buf[b].valid, e.buf[b].blk # NoBlock
        PROVE  e.buf[b].data = e.written[e.buf[b].blk]
    <3>1. e.buf[b] = c.buf[b] /\ c.buf[b].valid /\ c.buf[b].blk \in Block \ Z
      BY <1>1, <1>5, <2>1 DEF Sound, Placed, FileBlock
    <3>2. QED
      BY <1>5, <2>1, <3>1 DEF Faithful, FaithfulBut
  <2>2. ASSUME NEW x \in FileBlock \ {NoBlock}, NonePending(e, x), x \notin Z
        PROVE  e.disk[x] = e.written[x]
    <3>1. NonePending(c, x)
      <4>1. ASSUME NEW b \in Buf, c.buf[b].blk = x
            PROVE  ~Pending(c.buf[b])
        <5>1. CASE e.buf[b] = c.buf[b]
          BY <2>2, <4>1, <5>1 DEF NonePending
        <5>2. CASE e.buf[b] # c.buf[b]
          BY <1>5, <2>2, <4>1, <5>2
        <5>3. QED
          BY <5>1, <5>2
      <4>2. QED
        BY <4>1 DEF NonePending
    <3>2. c.disk[x] = c.written[x]
      BY <1>5, <3>1 DEF Faithful, FaithfulBut
    <3>3. QED
      BY <1>5, <2>2, <3>2 DEF FileBlock
  <2>3. QED
    BY <1>5, <2>1, <2>2 DEF Faithful, FaithfulBut
<1>6. QED
  BY <1>2, <1>3, <1>4, <1>5 DEF Sound

(* Flushing a set of buffers: each is written to its copies, or given up.  *)
LEMMA FlushSetKeeps ==
    ASSUME NEW c, Sound(c), NEW S \in SUBSET Buf, NEW bad
    PROVE  LET e == FlushSet(c, S, bad) IN
           /\ Sound(e)
           /\ Faithful(c) => Faithful(e)
           /\ e.rank = c.rank
           /\ \A b \in S : ~Pending(e.buf[b])
           /\ Paired(c, e)
<1> DEFINE Lost   == {b \in S : Pending(c.buf[b]) /\ ~Flushed(c, b, bad)}
           Src(x) == {b \in S : Pending(c.buf[b]) /\ x \in Copies(c.buf[b]) \ bad}
           d == [x \in Block |-> IF Src(x) = {} THEN c.disk[x]
                                 ELSE c.buf[CHOOSE b \in Src(x) : TRUE].data]
           bf == [b \in Buf |-> IF b \in Lost THEN Invalid([c.buf[b] EXCEPT !.dirty = FALSE])
                                ELSE IF b \in S THEN [c.buf[b] EXCEPT !.dirty = FALSE]
                                ELSE c.buf[b]]
           w == [x \in Block |-> IF \E b \in Lost : c.buf[b].blk = x THEN d[x] ELSE c.written[x]]
           e == FlushSet(c, S, bad)
<1>1. c \in Cache /\ \A b \in Buf : c.buf[b] \in Buffer
  BY DEF Sound, Cache
<1>2. e = [c EXCEPT !.disk = d, !.buf = bf, !.written = w]
  BY DEF FlushSet
<1>3. \A b \in Buf : Pending(c.buf[b]) =>
          /\ c.buf[b].valid /\ c.buf[b].blk \in FileBlock /\ c.buf[b].blk \in Block
          /\ c.buf[b].blk \in Copies(c.buf[b])
          /\ \A x \in FileBlock : x \in Copies(c.buf[b]) => x = c.buf[b].blk
  BY <1>1, CopyFacts DEF Pending, Sound, Placed
<1>4. \A b \in Lost : b \in S /\ b \in Buf /\ Pending(c.buf[b])
  OBVIOUS
<1>5. \A x : \A b \in Src(x) : b \in S /\ b \in Buf /\ Pending(c.buf[b]) /\ x \in Copies(c.buf[b])
  OBVIOUS
<1>6. \A b \in S \ Lost : Pending(c.buf[b]) => b \in Src(c.buf[b].blk)
  <2>1. ASSUME NEW b \in S \ Lost, Pending(c.buf[b])
        PROVE  b \in Src(c.buf[b].blk)
    <3>1. Copies(c.buf[b]) \cap bad = {}
      BY <2>1 DEF Flushed
    <3>2. QED
      BY <1>3, <2>1, <3>1
  <2>2. QED
    BY <2>1
<1>src. ASSUME NEW b \in S \ Lost, Pending(c.buf[b]), c.buf[b].blk \in FatBlock
       PROVE  Src(c.buf[b].blk) = {b} /\ Src(Mirror[c.buf[b].blk]) = {b}
  <2> DEFINE x == c.buf[b].blk
  <2>1. Copies(c.buf[b]) = {x, Mirror[x]} /\ Copies(c.buf[b]) \cap bad = {} /\ x \in FileBlock
    BY <1>3, <1>src DEF Copies, Flushed, Sound, Placed, Pending
  <2>2. b \in Src(x) /\ b \in Src(Mirror[x])
    BY <1>src, <2>1
  <2>3. ASSUME NEW a \in Src(x) PROVE a = b
    <3>1. a \in Buf /\ Pending(c.buf[a]) /\ x = c.buf[a].blk
      BY <1>3, <1>5, <2>1
    <3>2. QED
      BY <1>src, <3>1 DEF Sound, Single, Pending
  <2>4. ASSUME NEW a \in Src(Mirror[x]) PROVE a = b
    <3>1. /\ a \in Buf /\ Pending(c.buf[a]) /\ Mirror[x] \in Copies(c.buf[a])
          /\ c.buf[a].valid /\ c.buf[a].blk \in FileBlock
          /\ (c.buf[a].fat <=> c.buf[a].blk \in FatBlock)
      BY <1>3, <1>5, <2>4 DEF Sound, Placed
    <3>2. Mirror[x] \notin FileBlock
      BY <1>src DEF FileBlock, MirrorBlock
    <3>3. c.buf[a].blk \in FatBlock /\ Mirror[x] = Mirror[c.buf[a].blk]
      BY <3>1, <3>2 DEF Copies
    <3>4. c.buf[a].blk = x
      BY <1>src, <3>3, CacheAssumption
    <3>5. QED
      BY <1>src, <3>1, <3>4 DEF Sound, Single, Pending
  <2> HIDE DEF Src
  <2>5. QED
    BY <2>2, <2>3, <2>4
<1> HIDE DEF Lost, Src
<1>same. ASSUME NEW b \in S \ Lost, Pending(c.buf[b]), c.buf[b].blk \in FatBlock
       PROVE  d[Mirror[c.buf[b].blk]] = d[c.buf[b].blk]
  <2>1. c.buf[b].blk \in Block /\ Mirror[c.buf[b].blk] \in Block
    BY <1>same, CacheAssumption
  <2>2. QED
    BY <1>src, <1>same, <2>1, SMTT(30)
<1>7. d \in [Block -> Contents]
  <2>1. ASSUME NEW x \in Block
        PROVE  (IF Src(x) = {} THEN c.disk[x] ELSE c.buf[CHOOSE b \in Src(x) : TRUE].data) \in Contents
    <3>1. CASE Src(x) = {}
      BY <1>1, <3>1 DEF Cache
    <3>2. CASE Src(x) # {}
      <4>1. (CHOOSE b \in Src(x) : TRUE) \in Buf
        BY <1>5, <3>2
      <4>2. QED
        BY <1>1, <3>2, <4>1 DEF Buffer, Contents
    <3>3. QED
      BY <3>1, <3>2
  <2>2. QED
    BY <2>1
<1>8. \A x \in FileBlock : \/ Src(x) = {} /\ d[x] = c.disk[x]
                           \/ \E b \in Buf : /\ Pending(c.buf[b]) /\ c.buf[b].blk = x
                                             /\ d[x] = c.buf[b].data
  <2>1. ASSUME NEW x \in FileBlock, Src(x) # {}
        PROVE  \E b \in Buf : Pending(c.buf[b]) /\ c.buf[b].blk = x /\ d[x] = c.buf[b].data
    <3> DEFINE b == CHOOSE b \in Src(x) : TRUE
    <3>1. b \in Src(x)
      BY <2>1
    <3>2. d[x] = c.buf[b].data
      BY <2>1 DEF FileBlock
    <3> HIDE DEF b
    <3>3. QED
      BY <1>3, <1>5, <3>1, <3>2
  <2>2. \A x \in FileBlock : Src(x) = {} => d[x] = c.disk[x]
    BY DEF FileBlock
  <2>3. QED
    BY <2>1, <2>2
<1>9. ASSUME NEW b \in Buf
      PROVE  /\ bf[b] \in Buffer /\ bf[b].blk = c.buf[b].blk
             /\ b \in Lost => ~bf[b].valid
             /\ b \notin Lost => /\ bf[b].valid = c.buf[b].valid /\ bf[b].fat = c.buf[b].fat
                                 /\ bf[b].data = c.buf[b].data
             /\ b \in S => ~Pending(bf[b])
             /\ b \notin S => bf[b] = c.buf[b]
  <2>1. CASE b \in Lost
    BY <1>1, <1>4, <2>1, ZenonT(30) DEF Buffer, Invalid, Pending
  <2>2. CASE b \notin Lost /\ b \in S
    BY <1>1, <2>2 DEF Buffer, Pending
  <2>3. CASE b \notin S
    BY <1>1, <1>4, <2>3
  <2>4. QED
    BY <2>1, <2>2, <2>3
<1>10. w \in [Block -> Contents]
  BY <1>1, <1>7 DEF Cache
<1>11. \A x \in Block : w[x] = IF \E b \in Lost : c.buf[b].blk = x THEN d[x] ELSE c.written[x]
  OBVIOUS
<1>12. bf \in [Buf -> Buffer]
  BY <1>9
<1> HIDE DEF d, bf, w
<1>13. e \in Cache /\ e.rank = c.rank /\ e.disk = d /\ e.buf = bf /\ e.written = w
  BY <1>1, <1>2, <1>7, <1>10, <1>12 DEF Cache
<1> HIDE DEF e
<1>14. \A b \in Buf : bf[b].valid => b \notin Lost /\ c.buf[b].valid
  BY <1>9
<1>15. Ranked(e) /\ Placed(e) /\ Single(e)
  <2>1. Ranked(e)
    BY <1>13 DEF Sound, Ranked
  <2>2. Placed(e)
    BY <1>9, <1>13, <1>14 DEF Sound, Placed
  <2>3. ASSUME NEW a \in Buf, NEW b \in Buf, bf[a].valid, bf[b].valid, bf[a].blk = bf[b].blk
        PROVE  a = b
    BY <1>9, <1>14, <2>3 DEF Sound, Single
  <2>4. Single(e)
    BY <1>13, <2>3 DEF Single
  <2>5. QED
    BY <2>1, <2>2, <2>4
<1>16. ASSUME Faithful(c) PROVE Faithful(e)
  <2>0. \A b \in Buf : c.buf[b].valid => /\ c.buf[b].blk \in Block /\ c.buf[b].blk # NoBlock
                                         /\ c.buf[b].data = c.written[c.buf[b].blk]
    BY <1>16, CacheAssumption DEF Faithful, FaithfulBut, Sound, Placed, FileBlock
  <2>1. ASSUME NEW b \in Buf, bf[b].valid
        PROVE  bf[b].data = w[bf[b].blk]
    <3>1. b \notin Lost /\ c.buf[b].valid /\ bf[b].blk = c.buf[b].blk /\ bf[b].data = c.buf[b].data
      BY <1>9, <1>14, <2>1
    <3>2. ~\E a \in Lost : c.buf[a].blk = c.buf[b].blk
      BY <1>4, <3>1 DEF Sound, Single, Pending
    <3>3. QED
      BY <1>11, <2>0, <3>1, <3>2
  <2>2. ASSUME NEW x \in FileBlock, NonePending(e, x)
        PROVE  d[x] = w[x]
    <3>0. x \in Block
      BY DEF FileBlock
    <3>1. CASE \E b \in Lost : c.buf[b].blk = x
      BY <1>11, <3>0, <3>1
    <3>2. CASE ~\E b \in Lost : c.buf[b].blk = x
      <4>1. w[x] = c.written[x]
        BY <1>11, <3>0, <3>2
      <4>2. CASE Src(x) = {} /\ d[x] = c.disk[x]
        <5>1. ASSUME NEW b \in Buf, c.buf[b].blk = x, Pending(c.buf[b])
              PROVE  FALSE
          <6>1. CASE b \in S
            BY <1>6, <3>2, <4>2, <5>1, <6>1
          <6>2. CASE b \notin S
            BY <1>9, <1>13, <2>2, <5>1, <6>2 DEF NonePending
          <6>3. QED
            BY <6>1, <6>2
        <5>2. NonePending(c, x)
          BY <5>1 DEF NonePending
        <5>3. x # NoBlock
          BY <3>0, CacheAssumption
        <5>4. QED
          BY <1>16, <4>1, <4>2, <5>2, <5>3 DEF Faithful, FaithfulBut
      <4>3. CASE \E b \in Buf : /\ Pending(c.buf[b]) /\ c.buf[b].blk = x
                                /\ d[x] = c.buf[b].data
        BY <2>0, <4>1, <4>3 DEF Pending
      <4>4. QED
        BY <1>8, <4>2, <4>3
    <3>3. QED
      BY <3>1, <3>2
  <2>3. QED
    BY <1>13, <2>1, <2>2 DEF Faithful, FaithfulBut
<1>17. \A b \in S : ~Pending(e.buf[b])
  BY <1>9, <1>13
<1>18. Paired(c, e)
  <2>1. ASSUME NEW b \in Buf PROVE PairedAt(c, e, b)
    <3>1. CASE b \notin S
      BY <1>9, <1>13, <3>1 DEF PairedAt, Pending
    <3>2. CASE b \in Lost
      BY <1>9, <1>13, <3>2 DEF PairedAt
    <3>3. CASE b \in S \ Lost
      BY <1>13, <1>same, <3>3 DEF PairedAt
    <3>4. QED
      BY <3>1, <3>2, <3>3
  <2>2. QED
    BY <2>1 DEF Paired
<1>19. QED
  BY <1>13, <1>15, <1>16, <1>17, <1>18 DEF Sound, e

(***************************************************************************)
(* The callers.                                                            *)
(***************************************************************************)
LEMMA BecomesKeeps ==
    ASSUME CacheInv, NEW c, Becomes(c), Sound(c), Quiet => Faithful(c)
    PROVE  CacheInv'
<1>1. mix' = mix /\ Now' = [buf |-> c.buf, rank |-> c.rank, disk |-> c.disk, written |-> c.written]
  BY DEF Becomes, Now
<1>2. Now' = c
  BY <1>1 DEF Sound, Cache
<1>3. QED
  BY <1>1, <1>2 DEF CacheInv, Quiet

(* What the mix of a run gives: typed data, blocks of the file system, and *)
(* no read that fails for programs that use the cache only.                *)
LEMMA MixFacts ==
    ASSUME CacheInv
    PROVE  /\ mix.data \subseteq Contents /\ mix.fats \subseteq FatBlock
           /\ InUse \subseteq FileBlock /\ FatBlock \subseteq FileBlock
           /\ DataBlock \subseteq FileBlock /\ DataBlock \cap FatBlock = {}
<1>1. mix \in Mixes
  BY DEF CacheInv
<1>2. mix.data \subseteq Data /\ mix.fats \subseteq FatBlock
  BY <1>1, CacheAssumption
<1>3. FatBlock \subseteq FileBlock
  <2>1. \A f \in FatBlock : Mirror[f] \in Block \ FatBlock
    BY CacheAssumption
  <2>2. QED
    BY <2>1, CacheAssumption DEF FileBlock, MirrorBlock
<1>4. QED
  BY <1>2, <1>3 DEF InUse, DataBlock, Contents

(* Of programs that use the cache only, no read of a step is refused.      *)
LEMMA BadReads ==
    ASSUME CacheInv, Quiet, NEW R, NEW bad \in Bad(R)
    PROVE  R \cap bad = {}
<1>1. mix.reads = {{}}
  BY DEF Quiet
<1>2. PICK r \in {x \in mix.reads : x \subseteq R}, w \in {x \in BadWrites : x \cap R = {}} : bad = r \cup w
  BY DEF Bad
<1>3. r = {}
  BY <1>1, <1>2
<1>4. QED
  BY <1>2, <1>3

(* Reading marks a buffer at most.                                         *)
LEMMA ReadBlockKeeps ==
    ASSUME CacheInv, NEW x \in InUse, NEW unc \in BOOLEAN, NEW bad \in Bad({x}),
           ReadBlock(x, unc, bad)
    PROVE  CacheInv'
<1> DEFINE g == getany(Now, x, FALSE, bad)
           e == [g.c EXCEPT !.buf[g.bp].uncache = unc]
<1>1. x \in FileBlock /\ Sound(Now) /\ (Quiet => Faithful(Now) /\ x \notin bad)
  BY MixFacts, BadReads DEF CacheInv
<1>2. Got(Now, g, x, FALSE, bad)
  BY <1>1, GetanyKeeps
<1>3. Becomes(IF g.bp = NoBuf THEN g.c ELSE e)
  BY DEF ReadBlock
<1> HIDE DEF g
<1>4. CASE g.bp = NoBuf
  BY <1>1, <1>2, <1>3, <1>4, BecomesKeeps DEF Got
<1>5. CASE g.bp # NoBuf
  <2> DEFINE s == [g.c.buf[g.bp] EXCEPT !.uncache = unc]
  <2>1. g.c \in Cache /\ g.bp \in Buf /\ g.c.buf[g.bp] \in Buffer /\ Sound(g.c)
        /\ (Quiet => Faithful(g.c))
    BY <1>1, <1>2, <1>5 DEF Got, Sound, Cache
  <2>2. /\ s \in Buffer /\ s.blk = g.c.buf[g.bp].blk /\ s.data = g.c.buf[g.bp].data
        /\ s.valid = g.c.buf[g.bp].valid /\ s.dirty = g.c.buf[g.bp].dirty
        /\ s.fat = g.c.buf[g.bp].fat
    BY <2>1 DEF Buffer
  <2>3. e = [g.c EXCEPT !.buf = [g.c.buf EXCEPT ![g.bp] = s]]
    BY DEF e
  <2> HIDE DEF s, e
  <2>4. [g.c.buf EXCEPT ![g.bp] = s] \in [Buf -> Buffer]
    BY <2>1, <2>2 DEF Cache
  <2>5. /\ e \in Cache /\ e.rank = g.c.rank /\ e.disk = g.c.disk /\ e.written = g.c.written
        /\ e.buf = [g.c.buf EXCEPT ![g.bp] = s]
    BY <2>1, <2>3, <2>4 DEF Cache
  <2>6. e.buf[g.bp] = s /\ \A b \in Buf \ {g.bp} : e.buf[b] = g.c.buf[b]
    BY <2>1, <2>5 DEF Cache
  <2>7. Ranked(e)
    BY <2>1, <2>5 DEF Sound, Ranked
  <2>8. Sound(e) /\ \A y : FaithfulBut(g.c, y) => FaithfulBut(e, y)
    <3>1. \A b \in Buf : /\ e.buf[b].blk = g.c.buf[b].blk /\ e.buf[b].data = g.c.buf[b].data
                         /\ e.buf[b].valid = g.c.buf[b].valid /\ e.buf[b].dirty = g.c.buf[b].dirty
                         /\ e.buf[b].fat = g.c.buf[b].fat
      BY <2>2, <2>6
    <3>2. QED
      BY <2>1, <2>5, <2>7, <3>1, SameView
  <2>9. QED
    BY <1>3, <1>5, <2>1, <2>8, BecomesKeeps DEF Faithful
<1>6. QED
  BY <1>4, <1>5

(* Writing stores into the buffer that was got.                            *)
LEMMA WriteBlockKeeps ==
    ASSUME CacheInv, NEW x \in InUse, NEW d \in mix.data, NEW over \in BOOLEAN,
           NEW unc \in BOOLEAN, NEW bad \in Bad({x}), WriteBlock(x, d, over, unc, bad)
    PROVE  CacheInv'
<1> DEFINE g == getany(Now, x, over, bad)
<1>1. x \in FileBlock /\ d \in Contents /\ Sound(Now)
      /\ (Quiet => Faithful(Now) /\ x \notin bad)
  BY MixFacts, BadReads DEF CacheInv
<1>2. Got(Now, g, x, over, bad)
  BY <1>1, GetanyKeeps
<1>3. Becomes(IF g.bp = NoBuf THEN g.c ELSE Store(g.c, g.bp, x, d, unc))
  BY DEF WriteBlock
<1> HIDE DEF g
<1>4. CASE g.bp = NoBuf
  BY <1>1, <1>2, <1>3, <1>4, BecomesKeeps DEF Got
<1>5. CASE g.bp # NoBuf
  <2> DEFINE e == Store(g.c, g.bp, x, d, unc)
  <2>1. Sound(e) /\ (FaithfulBut(g.c, x) => Faithful(e))
    BY <1>1, <1>2, <1>5, StoreKeeps DEF Got
  <2>2. Quiet => FaithfulBut(g.c, x)
    BY <1>1, <1>2, <1>5 DEF Got
  <2> HIDE DEF e
  <2>3. Becomes(e)
    BY <1>3, <1>5 DEF e
  <2>4. QED
    BY <2>1, <2>2, <2>3, BecomesKeeps
<1>6. QED
  BY <1>4, <1>5

(* Both buffers of an entry that straddles two blocks are still there when *)
(* they are written: the second call recycles another than the first got.  *)
LEMMA WriteFatPairKeeps ==
    ASSUME CacheInv, NEW x \in mix.fats, NEW y \in mix.fats, NEW d \in mix.data,
           NEW bad \in Bad({x, y}), WriteFatPair(x, y, d, bad)
    PROVE  CacheInv'
<1> DEFINE g == getFATblock(Now, x, bad)
           h == getFATblock(g.c, y, bad)
           e == Store(h.c, h.bp, y, d, FALSE)
           z == Store(e, g.bp, x, d, FALSE)
<1>1. /\ x \in FatBlock /\ y \in FatBlock /\ x \in FileBlock /\ y \in FileBlock /\ d \in Contents
      /\ Sound(Now) /\ (Quiet => Faithful(Now) /\ x \notin bad /\ y \notin bad)
  BY MixFacts, BadReads DEF CacheInv
<1>2. Got(Now, g, x, FALSE, bad)
  <2>1. g = getany(Now, x, FALSE, bad)
    BY <1>1 DEF getany
  <2> HIDE DEF g
  <2>2. QED
    BY <1>1, <2>1, GetanyKeeps
<1>3. Got(g.c, h, y, FALSE, bad)
  <2>1. h = getany(g.c, y, FALSE, bad)
    BY <1>1 DEF getany
  <2>2. Sound(g.c)
    BY <1>2 DEF Got
  <2> HIDE DEF g, h
  <2>3. QED
    BY <1>1, <2>1, <2>2, GetanyKeeps
<1>4. x # y /\ Becomes(IF g.bp = NoBuf THEN g.c ELSE IF h.bp = NoBuf THEN h.c ELSE z)
  BY DEF WriteFatPair
<1> HIDE DEF g, h, z, e
<1>5. CASE g.bp = NoBuf
  BY <1>1, <1>2, <1>4, <1>5, BecomesKeeps DEF Got
<1>6. CASE g.bp # NoBuf /\ h.bp = NoBuf
  BY <1>1, <1>2, <1>3, <1>4, <1>6, BecomesKeeps DEF Got
<1>7. CASE g.bp # NoBuf /\ h.bp # NoBuf
  <2>1. /\ g.bp \in Buf /\ Sound(g.c)
        /\ g.c.buf[g.bp].valid /\ g.c.buf[g.bp].blk = x /\ ~g.c.buf[g.bp].uncache
        /\ g.c.rank[g.bp] = 0
        /\ Quiet => Faithful(g.c)
    BY <1>1, <1>2, <1>7 DEF Got
  <2>2. g.c.buf[g.bp].fat
    BY <1>1, <2>1 DEF Sound, Placed
  <2>3. /\ h.bp \in Buf /\ Sound(h.c) /\ h.bp # g.bp
        /\ h.c.buf[h.bp].valid /\ h.c.buf[h.bp].blk = y
        /\ h.c.buf[g.bp] = g.c.buf[g.bp]
        /\ Quiet => FaithfulBut(h.c, y)
    BY <1>3, <1>4, <1>7, <2>1, <2>2 DEF Got
  <2>4. Sound(e) /\ (FaithfulBut(h.c, y) => Faithful(e)) /\ e.buf[g.bp] = h.c.buf[g.bp]
    <3>1. /\ Sound(Store(h.c, h.bp, y, d, FALSE))
          /\ FaithfulBut(h.c, y) => Faithful(Store(h.c, h.bp, y, d, FALSE))
          /\ \A b \in Buf \ {h.bp} : Store(h.c, h.bp, y, d, FALSE).buf[b] = h.c.buf[b]
      <4> DEFINE n == FALSE
      <4>1. n \in BOOLEAN
        OBVIOUS
      <4>2. Sound(h.c) /\ h.bp \in Buf /\ h.c.buf[h.bp].valid /\ h.c.buf[h.bp].blk = y /\ d \in Contents
        BY <1>1, <2>3
      <4> HIDE DEF n
      <4>3. /\ Sound(Store(h.c, h.bp, y, d, n))
            /\ FaithfulBut(h.c, y) => Faithful(Store(h.c, h.bp, y, d, n))
            /\ \A b \in Buf \ {h.bp} : Store(h.c, h.bp, y, d, n).buf[b] = h.c.buf[b]
        BY <4>1, <4>2, StoreKeeps
      <4>4. QED
        BY <4>3 DEF n
    <3>2. QED
      BY <2>1, <2>3, <3>1 DEF e
  <2>5. Quiet => FaithfulBut(e, x)
    BY <2>3, <2>4, FaithfulAll
  <2>6. e.buf[g.bp].valid /\ e.buf[g.bp].blk = x
    BY <2>1, <2>3, <2>4
  <2>7. Sound(z) /\ (FaithfulBut(e, x) => Faithful(z))
    BY <1>1, <2>1, <2>4, <2>6, StoreKeeps DEF z
  <2>8. Becomes(z)
    BY <1>4, <1>7
  <2>9. QED
    BY <2>5, <2>7, <2>8, BecomesKeeps
<1>8. QED
  BY <1>5, <1>6, <1>7

(* Flushing before a direct read, of a disk, and of all before all is      *)
(* dropped.                                                                *)
LEMMA FlushesKeep ==
    ASSUME CacheInv, NEW S \in SUBSET Buf, NEW bad, Becomes(FlushSet(Now, S, bad))
    PROVE  CacheInv'
BY FlushSetKeeps, BecomesKeeps DEF CacheInv

(* After a flush of all nothing is pending, so that all may be dropped.    *)
LEMMA FlushAllKeeps ==
    ASSUME CacheInv, NEW bad, flush(bad)
    PROVE  CacheInv'
<1> DEFINE c == FlushSet(Now, Buf, bad)
           bf == [b \in Buf |-> Invalid(c.buf[b])]
           e == [c EXCEPT !.buf = bf]
<1>1. Becomes(e)
  BY DEF flush
<1>2. Sound(c) /\ (Quiet => Faithful(c)) /\ \A b \in Buf : ~Pending(c.buf[b])
  BY FlushSetKeeps DEF CacheInv
<1> HIDE DEF c
<1>3. c \in Cache /\ \A b \in Buf : c.buf[b] \in Buffer
  BY <1>2 DEF Sound, Cache
<1>4. \A b \in Buf : bf[b] \in Buffer /\ ~bf[b].valid
  BY <1>3 DEF Invalid, Buffer
<1>5. bf \in [Buf -> Buffer]
  BY <1>4
<1> HIDE DEF bf
<1>6. e \in Cache /\ e.rank = c.rank /\ e.disk = c.disk /\ e.written = c.written /\ e.buf = bf
  BY <1>3, <1>5 DEF Cache
<1> HIDE DEF e
<1>7. Sound(e) /\ (Faithful(c) => Faithful(e))
  <2>1. \A b \in Buf : ~e.buf[b].valid
    BY <1>4, <1>6
  <2>2. {} \in SUBSET Block
    OBVIOUS
  <2>3. QED
    BY <1>2, <1>6, <2>1, <2>2, DropKeeps
<1>8. QED
  BY <1>1, <1>2, <1>7, BecomesKeeps

(* Buffers of some blocks are dropped, and those blocks rewritten.         *)
Rewritten(b1, d1, w1) == [Now EXCEPT !.buf = b1, !.disk = d1, !.written = w1]
Drops(b1) == \A b \in Buf : b1[b] = buf[b] \/ ~b1[b].valid
Rewrites(Z, b1, d1, w1) ==
    /\ \A x \in Z : d1[x] = w1[x]
    /\ \A x \in Block \ Z : d1[x] = disk[x] /\ w1[x] = written[x]
    /\ \A b \in Buf : /\ b1[b].valid => buf[b].blk \notin Z
                      /\ b1[b] # buf[b] => ~Pending(buf[b]) \/ buf[b].blk \in Z
LEMMA RewriteKeeps ==
    ASSUME CacheInv, NEW Z \in SUBSET Block,
           NEW b1 \in [Buf -> Buffer], NEW d1 \in [Block -> Contents], NEW w1 \in [Block -> Contents],
           Drops(b1), Becomes(Rewritten(b1, d1, w1)),
           Quiet => Rewrites(Z, b1, d1, w1)
    PROVE  CacheInv'
<1> DEFINE e == Rewritten(b1, d1, w1)
<1>1. Sound(Now) /\ (Quiet => Faithful(Now)) /\ Now \in Cache
  BY DEF CacheInv, Sound
<1>2. e \in Cache
  BY <1>1 DEF Cache, Rewritten
<1>3. e.buf = b1 /\ e.rank = Now.rank /\ e.disk = d1 /\ e.written = w1
  BY <1>1 DEF Cache, Rewritten
<1>4. Now.buf = buf /\ Now.rank = rank /\ Now.disk = disk /\ Now.written = written
  BY DEF Now
<1>5. Becomes(e)
  OBVIOUS
<1> HIDE DEF e
<1>6. \A b \in Buf : e.buf[b] = Now.buf[b] \/ ~e.buf[b].valid
  BY <1>4, <1>3 DEF Drops
<1>7. Sound(e)
  BY <1>1, <1>2, <1>3, <1>6, DropKeeps
<1>8. ASSUME Quiet PROVE Faithful(e)
  <2>1. \A b \in Buf : e.buf[b] = Now.buf[b] \/ ~e.buf[b].valid
    BY <1>6
  <2>2. \A x \in Z : e.disk[x] = e.written[x]
    BY <1>4, <1>3, <1>8 DEF Rewrites
  <2>3. \A x \in Block \ Z : e.disk[x] = Now.disk[x] /\ e.written[x] = Now.written[x]
    BY <1>4, <1>3, <1>8 DEF Rewrites
  <2>4. \A b \in Buf : /\ e.buf[b].valid => Now.buf[b].blk \notin Z
                       /\ e.buf[b] # Now.buf[b] => ~Pending(Now.buf[b]) \/ Now.buf[b].blk \in Z
    BY <1>4, <1>3, <1>8 DEF Rewrites
  <2>5. QED
    BY <1>1, <1>2, <1>3, <1>4, <1>8, <2>1, <2>2, <2>3, <2>4, DropKeeps
<1>9. QED
  BY <1>5, <1>7, <1>8, BecomesKeeps

(* What the invariant says of the variables themselves.                   *)
LEMMA VarTypes ==
    ASSUME CacheInv
    PROVE  /\ buf \in [Buf -> Buffer] /\ rank \in [Buf -> 0 .. BufCount - 1]
           /\ disk \in [Block -> Contents] /\ written \in [Block -> Contents]
           /\ \A b \in Buf : buf[b].valid => buf[b].blk \in Block /\ buf[b].blk # NoBlock
<1>1. \A b \in Buf : buf[b].valid => buf[b].blk \in Block
  BY DEF CacheInv, Sound, Placed, FileBlock, Now
<1>2. QED
  BY <1>1, CacheAssumption DEF CacheInv, Sound, Cache, Now

(* A buffer without flags is not valid.                                    *)
LEMMA NoFlagsType ==
    ASSUME NEW r \in Buffer
    PROVE  NoFlags(r) \in Buffer /\ ~NoFlags(r).valid
BY DEF NoFlags, Empty, Buffer

(* setinvld drops the buffers of a disk and leaves the others.             *)
LEMMA SetinvldFacts ==
    ASSUME CacheInv, NEW u
    PROVE  /\ setinvld(u) \in [Buf -> Buffer]
           /\ \A b \in Buf : /\ b \in OnDisk(u) => ~setinvld(u)[b].valid
                             /\ b \notin OnDisk(u) => setinvld(u)[b] = buf[b]
<1>1. \A b \in Buf : buf[b] \in Buffer
  BY VarTypes
<1>2. \A b \in Buf : NoFlags(buf[b]) \in Buffer /\ ~NoFlags(buf[b]).valid
  BY <1>1, NoFlagsType
<1>3. QED
  BY <1>1, <1>2 DEF setinvld

(* A direct write drops the buffers of its blocks.                         *)
LEMMA DirectWriteKeeps ==
    ASSUME CacheInv, NEW S \in Runs, NEW d \in mix.data, NEW bad, DirectWrite(S, d, bad)
    PROVE  CacheInv'
<1> DEFINE to == [x \in Block |-> IF x \in S \ bad THEN d ELSE disk[x]]
           w1 == [x \in Block |-> IF x \in S THEN to[x] ELSE written[x]]
           b1 == Dropped(Now, S)
<1>1. d \in Contents /\ S \in SUBSET Block
  BY MixFacts, CacheAssumption
<1>2. to \in [Block -> Contents]
  BY <1>1, VarTypes
<1>3. w1 \in [Block -> Contents]
  BY <1>2, VarTypes
<1>4. /\ b1 \in [Buf -> Buffer]
      /\ \A b \in Buf : b1[b] = IF buf[b].valid /\ buf[b].blk \in S THEN NoFlags(buf[b]) ELSE buf[b]
  <2>1. \A b \in Buf : buf[b] \in Buffer /\ NoFlags(buf[b]) \in Buffer
    BY VarTypes, NoFlagsType
  <2>2. Now.buf = buf
    BY DEF Now
  <2>3. QED
    BY <2>1, <2>2 DEF Dropped
<1>5. \A b \in Buf : ~NoFlags(buf[b]).valid
  BY VarTypes, NoFlagsType
<1>6. Becomes(Rewritten(b1, to, w1))
  BY DEF DirectWrite, Rewritten
<1>7. \A x \in S : to[x] = w1[x]
  BY <1>1
<1>8. \A x \in Block \ S : to[x] = disk[x] /\ w1[x] = written[x]
  OBVIOUS
<1> HIDE DEF to, w1, b1
<1>9. \A b \in Buf : /\ b1[b].valid => buf[b].blk \notin S
                     /\ b1[b] # buf[b] => ~Pending(buf[b]) \/ buf[b].blk \in S
  BY <1>4, <1>5
<1>10. \A b \in Buf : b1[b] = buf[b] \/ ~b1[b].valid
  BY <1>4, <1>5
<1>11. Drops(b1) /\ Rewrites(S, b1, to, w1)
  BY <1>7, <1>8, <1>9, <1>10 DEF Drops, Rewrites
<1>12. QED
  BY <1>1, <1>2, <1>3, <1>4, <1>6, <1>11, RewriteKeeps

(* A disk that may have changed loses buffers that have nothing to write.  *)
LEMMA MediaDontKnowKeeps ==
    ASSUME CacheInv, NEW u, MediaDontKnow(u)
    PROVE  CacheInv'
<1> DEFINE b1 == setinvld(u)
<1>1. /\ b1 \in [Buf -> Buffer]
      /\ \A b \in Buf : /\ b \in OnDisk(u) => ~b1[b].valid
                        /\ b \notin OnDisk(u) => b1[b] = buf[b]
  BY SetinvldFacts
<1>2. Becomes(Rewritten(b1, disk, written))
  BY DEF MediaDontKnow, Becomes, Now, Rewritten
<1>3. \A b \in OnDisk(u) : ~Pending(buf[b])
  BY DEF MediaDontKnow, dirty_buffers
<1> HIDE DEF b1
<1>4. \A b \in Buf : b1[b] = buf[b] \/ ~b1[b].valid
  BY <1>1
<1>5. \A b \in Buf : b1[b] # buf[b] => ~Pending(buf[b])
  BY <1>1, <1>3
<1>6. {} \in SUBSET Block
  OBVIOUS
<1>7. b1 \in [Buf -> Buffer] /\ disk \in [Block -> Contents] /\ written \in [Block -> Contents]
  BY <1>1, VarTypes
<1>8. Drops(b1)
  BY <1>4 DEF Drops
<1>9. Quiet => Rewrites({}, b1, disk, written)
  <2>1. SUFFICES ASSUME Quiet PROVE Rewrites({}, b1, disk, written)
    OBVIOUS
  <2>2. \A b \in Buf : b1[b].valid => buf[b].blk \notin {}
    OBVIOUS
  <2>3. \A x \in Block \ {} : disk[x] = disk[x] /\ written[x] = written[x]
    OBVIOUS
  <2>4. \A x \in {} : disk[x] = written[x]
    OBVIOUS
  <2>5. QED
    BY <1>5, <2>2, <2>3, <2>4 DEF Rewrites
<1>10. QED
  BY <1>2, <1>6, <1>7, <1>8, <1>9, RewriteKeeps

(* A changed disk loses all its buffers.                                   *)
LEMMA MediaChangedKeeps ==
    ASSUME CacheInv, NEW u, NEW d \in mix.data, MediaChanged(u, d)
    PROVE  CacheInv'
<1> DEFINE b1 == setinvld(u)
           Z  == {x \in Block : UnitOf[x] = u}
           new == [x \in Block |-> IF UnitOf[x] = u THEN d ELSE disk[x]]
           w1 == [x \in Block |-> IF UnitOf[x] = u THEN d ELSE written[x]]
<1>1. /\ b1 \in [Buf -> Buffer]
      /\ \A b \in Buf : /\ b \in OnDisk(u) => ~b1[b].valid
                        /\ b \notin OnDisk(u) => b1[b] = buf[b]
  BY SetinvldFacts
<1>2. d \in Contents
  BY MixFacts
<1>3. new \in [Block -> Contents] /\ w1 \in [Block -> Contents]
  BY <1>2, VarTypes
<1>4. Becomes(Rewritten(b1, new, w1))
  BY DEF MediaChanged, Rewritten
<1>5. Z \in SUBSET Block /\ \A x \in Z : new[x] = w1[x]
  OBVIOUS
<1>6. \A x \in Block \ Z : new[x] = disk[x] /\ w1[x] = written[x]
  OBVIOUS
<1>7. \A b \in Buf : buf[b].valid => (b \in OnDisk(u) <=> buf[b].blk \in Z)
  BY VarTypes DEF OnDisk
<1> HIDE DEF b1, Z, new, w1
<1>8. \A b \in Buf : b1[b] = buf[b] \/ ~b1[b].valid
  BY <1>1
<1>9. \A b \in Buf : /\ b1[b].valid => buf[b].blk \notin Z
                     /\ b1[b] # buf[b] => ~Pending(buf[b]) \/ buf[b].blk \in Z
  <2>1. ASSUME NEW b \in Buf, b1[b].valid PROVE buf[b].blk \notin Z
    BY <1>1, <1>7, <2>1
  <2>2. ASSUME NEW b \in Buf, b1[b] # buf[b], Pending(buf[b]) PROVE buf[b].blk \in Z
    BY <1>1, <1>7, <2>2 DEF Pending
  <2>3. QED
    BY <2>1, <2>2
<1>10. Drops(b1) /\ Rewrites(Z, b1, new, w1)
  BY <1>5, <1>6, <1>8, <1>9 DEF Drops, Rewrites
<1>11. QED
  BY <1>1, <1>3, <1>4, <1>5, <1>10, RewriteKeeps

(* INT 26h and INT 21h/7305h: nothing is said of what the blocks hold.     *)
LEMMA AbsoluteWritesKeep ==
    ASSUME CacheInv, NEW S, NEW d \in mix.data, NEW u, NEW bad,
           Int26(S, d, u, bad) \/ Int7305(S, d, u, bad)
    PROVE  CacheInv'
<1>1. d \in Contents /\ {} \in SUBSET Block
  BY MixFacts
<1>2. CASE Int26(S, d, u, bad)
  <2> DEFINE to == [x \in Block |-> IF x \in S \ bad THEN d ELSE disk[x]]
             b1 == IF S \cap bad # {} THEN setinvld(u) ELSE buf
             w1 == [x \in Block |-> IF x \in S \/ (S \cap bad # {} /\ UnitOf[x] = u)
                                    THEN to[x] ELSE written[x]]
  <2>1. to \in [Block -> Contents]
    BY <1>1, VarTypes
  <2>2. w1 \in [Block -> Contents]
    BY <2>1, VarTypes
  <2>3. b1 \in [Buf -> Buffer] /\ \A b \in Buf : b1[b] = buf[b] \/ ~b1[b].valid
    BY VarTypes, SetinvldFacts
  <2>4. Becomes(Rewritten(b1, to, w1))
    BY <1>2 DEF Int26, Rewritten
  <2>5. ~Quiet
    BY <1>2 DEF Int26, Quiet
  <2> HIDE DEF to, b1, w1
  <2>6. Drops(b1)
    BY <2>3 DEF Drops
  <2>7. QED
    BY <1>1, <2>1, <2>2, <2>3, <2>4, <2>5, <2>6, RewriteKeeps
<1>3. CASE Int7305(S, d, u, bad)
  <2> DEFINE to == [x \in Block |-> IF x \in S \ bad THEN d ELSE disk[x]]
             b1 == IF S \cap bad = {} THEN setinvld(u) ELSE buf
             w1 == [x \in Block |-> IF x \in S \/ (S \cap bad = {} /\ UnitOf[x] = u)
                                    THEN to[x] ELSE written[x]]
  <2>1. to \in [Block -> Contents]
    BY <1>1, VarTypes
  <2>2. w1 \in [Block -> Contents]
    BY <2>1, VarTypes
  <2>3. b1 \in [Buf -> Buffer] /\ \A b \in Buf : b1[b] = buf[b] \/ ~b1[b].valid
    BY VarTypes, SetinvldFacts
  <2>4. Becomes(Rewritten(b1, to, w1))
    BY <1>3 DEF Int7305, Rewritten
  <2>5. ~Quiet
    BY <1>3 DEF Int7305, Quiet
  <2> HIDE DEF to, b1, w1
  <2>6. Drops(b1)
    BY <2>3 DEF Drops
  <2>7. QED
    BY <1>1, <2>1, <2>2, <2>3, <2>4, <2>5, <2>6, RewriteKeeps
<1>4. QED
  BY <1>2, <1>3

(***************************************************************************)
(* The invariant, and what it gives.                                       *)
(***************************************************************************)
(* At the start no buffer is valid and each block is as the disk has it.   *)
LEMMA CacheInvInit == CacheInit => CacheInv
<1> SUFFICES ASSUME CacheInit PROVE CacheInv
  OBVIOUS
<1>1. PICK d \in mix.data : disk = [x \in Block |-> d]
  BY DEF CacheInit
<1>2. d \in Contents /\ mix \in Mixes
  BY CacheAssumption DEF CacheInit, Contents
<1>3. \A b \in Buf : buf[b] = Empty
  BY DEF CacheInit
<1>4. buf \in [Buf -> Buffer] /\ ~Empty.valid
  BY DEF CacheInit, Empty, Buffer
<1>5. Now \in Cache
  BY <1>1, <1>2, <1>4 DEF CacheInit, Cache, Now
<1>6. Sound(Now)
  BY <1>3, <1>4, <1>5 DEF CacheInit, Sound, Ranked, Placed, Single, Now
<1>7. Faithful(Now)
  BY <1>3, <1>4 DEF CacheInit, Faithful, FaithfulBut, Now
<1>8. QED
  BY <1>2, <1>6, <1>7 DEF CacheInv

(* Every step keeps it.                                                    *)
LEMMA CacheInvStep == CacheInv /\ [CacheNext]_cacheVars => CacheInv'
<1> SUFFICES ASSUME CacheInv, [CacheNext]_cacheVars PROVE CacheInv'
  OBVIOUS
<1>1. ASSUME NEW x \in InUse, NEW unc \in BOOLEAN, NEW bad \in Bad({x}), ReadBlock(x, unc, bad)
      PROVE  CacheInv'
  BY <1>1, ReadBlockKeeps
<1>2. ASSUME NEW x \in InUse, NEW d \in mix.data, NEW over \in BOOLEAN, NEW unc \in BOOLEAN,
             NEW bad \in Bad({x}), WriteBlock(x, d, over, unc, bad)
      PROVE  CacheInv'
  BY <1>2, WriteBlockKeeps
<1>3. ASSUME NEW x \in mix.fats, NEW y \in mix.fats, NEW d \in mix.data, NEW bad \in Bad({x, y}),
             WriteFatPair(x, y, d, bad)
      PROVE  CacheInv'
  BY <1>3, WriteFatPairKeeps
<1>4. ASSUME NEW S \in Runs, NEW bad, DirectRead(S, bad)
      PROVE  CacheInv'
  BY <1>4, FlushesKeep DEF DirectRead
<1>5. ASSUME NEW S \in Runs, NEW d \in mix.data, NEW bad, DirectWrite(S, d, bad)
      PROVE  CacheInv'
  BY <1>5, DirectWriteKeeps
<1>6. ASSUME NEW u, NEW bad, flush_buffers(u, bad)
      PROVE  CacheInv'
  <2>1. OnDisk(u) \in SUBSET Buf
    BY DEF OnDisk
  <2>2. QED
    BY <1>6, <2>1, FlushesKeep DEF flush_buffers
<1>7. ASSUME NEW bad, flush(bad)
      PROVE  CacheInv'
  BY <1>7, FlushAllKeeps
<1>8. ASSUME NEW u, MediaDontKnow(u)
      PROVE  CacheInv'
  BY <1>8, MediaDontKnowKeeps
<1>9. ASSUME NEW u, NEW d \in mix.data, MediaChanged(u, d)
      PROVE  CacheInv'
  BY <1>9, MediaChangedKeeps
<1>10. ASSUME NEW S, NEW d \in mix.data, NEW u, NEW bad, Int26(S, d, u, bad) \/ Int7305(S, d, u, bad)
       PROVE  CacheInv'
  BY <1>10, AbsoluteWritesKeep
<1>11. CASE UNCHANGED cacheVars
  BY <1>11 DEF cacheVars, CacheInv, Quiet, Sound, Cache, Ranked, Placed, Single, Faithful, FaithfulBut,
               NonePending, Now
<1>12. CASE CacheNext
  BY <1>1, <1>2, <1>3, <1>4, <1>5, <1>6, <1>7, <1>8, <1>9, <1>10, <1>12, Zenon DEF CacheNext
<1>13. QED
  BY <1>11, <1>12

(* One valid buffer at most, and the block is in it or on the disk.        *)
LEMMA CacheInvGives == ReadsSucceed /\ CacheInv => Coherent
<1> SUFFICES ASSUME ReadsSucceed, CacheInv, NEW x \in InUse
             PROVE  /\ Cardinality(Hits(Now, x)) <= 1
                    /\ mix.calls = {} => Content(x) = written[x]
  BY DEF Coherent
<1>1. /\ Sound(Now) /\ (mix.calls = {} => Faithful(Now)) /\ x \in FileBlock /\ x # NoBlock
      /\ Now.buf = buf /\ Now.disk = disk /\ Now.written = written
  BY MixFacts, CacheAssumption DEF CacheInv, Quiet, ReadsSucceed, Now, FileBlock
<1>2. CASE Hits(Now, x) = {}
  <2>1. NonePending(Now, x)
    BY <1>1, <1>2 DEF Hits, NonePending, Pending
  <2>2. mix.calls = {} => disk[x] = written[x]
    BY <1>1, <2>1 DEF Faithful, FaithfulBut
  <2>3. Cardinality(Hits(Now, x)) = 0
    BY <1>2, FS_EmptySet
  <2>4. QED
    BY <1>2, <2>2, <2>3 DEF Content
<1>3. CASE Hits(Now, x) # {}
  <2>1. Hit(Now, x) \in Hits(Now, x)
    BY <1>1, <1>3, HitOne DEF Sound
  <2>2. \A b \in Hits(Now, x) : b = Hit(Now, x)
    BY <1>1, <2>1 DEF Hits, Sound, Single
  <2>3. Hits(Now, x) = {Hit(Now, x)}
    BY <2>1, <2>2
  <2>4. Cardinality(Hits(Now, x)) = 1
    BY <2>3, FS_Singleton
  <2>5. mix.calls = {} => buf[Hit(Now, x)].data = written[x]
    BY <1>1, <2>1 DEF Faithful, FaithfulBut, Hits
  <2>6. QED
    BY <1>3, <2>4, <2>5 DEF Content
<1>4. QED
  BY <1>2, <1>3

(* The cache is coherent: through recycling, pairs of FAT blocks, direct   *)
(* transfers, flushes, writes that fail and changed disks (blockio.c,      *)
(* fattab.c, fatfs.c), no block is in two buffers, and each reads as what  *)
(* was last written to it.  A read that fails is left out, because it      *)
(* leaves its remains in a buffer that is still valid for its old block.   *)
THEOREM CacheIsCoherent == ReadsSucceed => (CacheSpec => []Coherent)
<1> SUFFICES ASSUME ReadsSucceed PROVE CacheSpec => []Coherent
  OBVIOUS
<1> QED
  BY CacheInvInit, CacheInvStep, CacheInvGives, PTL DEF CacheSpec

(***************************************************************************)
(* The copies of the FAT: what is said of records holds of the steps.      *)
(***************************************************************************)
(* MirrorsWritten for one step.                                            *)
MirrorStep ==
    \A b \in Buf : /\ buf[b].valid /\ buf[b].dirty /\ buf[b].blk \in FatBlock
                   /\ buf'[b].valid /\ ~buf'[b].dirty /\ buf'[b].blk = buf[b].blk
                   => disk'[Mirror[buf[b].blk]] = disk'[buf[b].blk]

(* A step that pairs its records pairs the variables.                      *)
LEMMA BecomesPairs ==
    ASSUME NEW c, Becomes(c), Paired(Now, c)
    PROVE  MirrorStep
BY DEF Becomes, Paired, PairedAt, Pending, Now, MirrorStep

(* A step that leaves buffers alone or drops them flushes none.            *)
LEMMA DropsPair ==
    ASSUME \A b \in Buf : buf'[b] = buf[b] \/ ~buf'[b].valid
    PROVE  MirrorStep
BY DEF MirrorStep

(* Reading flushes the buffer that is recycled.                            *)
LEMMA ReadBlockPairs ==
    ASSUME CacheInv, NEW x \in InUse, NEW unc \in BOOLEAN, NEW bad, ReadBlock(x, unc, bad)
    PROVE  MirrorStep
<1> DEFINE g == getany(Now, x, FALSE, bad)
           e == [g.c EXCEPT !.buf[g.bp].uncache = unc]
<1>1. Got(Now, g, x, FALSE, bad)
  BY MixFacts, GetanyKeeps DEF CacheInv
<1>2. Becomes(IF g.bp = NoBuf THEN g.c ELSE e)
  BY DEF ReadBlock
<1> HIDE DEF g
<1>3. CASE g.bp = NoBuf
  BY <1>1, <1>2, <1>3, BecomesPairs DEF Got
<1>4. CASE g.bp # NoBuf
  <2> DEFINE s == [g.c.buf[g.bp] EXCEPT !.uncache = unc]
  <2>1. g.c \in Cache /\ g.bp \in Buf /\ g.c.buf[g.bp] \in Buffer /\ Paired(Now, g.c)
    BY <1>1, <1>4 DEF Got, Sound, Cache
  <2>2. /\ s.blk = g.c.buf[g.bp].blk /\ s.valid = g.c.buf[g.bp].valid
        /\ s.dirty = g.c.buf[g.bp].dirty
    BY <2>1 DEF Buffer
  <2>3. e = [g.c EXCEPT !.buf = [g.c.buf EXCEPT ![g.bp] = s]]
    BY DEF e
  <2> HIDE DEF s, e
  <2>4. e.disk = g.c.disk /\ e.buf = [g.c.buf EXCEPT ![g.bp] = s]
    BY <2>1, <2>3 DEF Cache
  <2>5. e.buf[g.bp] = s /\ \A b \in Buf \ {g.bp} : e.buf[b] = g.c.buf[b]
    BY <2>1, <2>4 DEF Cache
  <2>6. \A b \in Buf : /\ e.buf[b].blk = g.c.buf[b].blk /\ e.buf[b].valid = g.c.buf[b].valid
                       /\ e.buf[b].dirty = g.c.buf[b].dirty
    BY <2>2, <2>5
  <2>7. Paired(Now, e)
    BY <2>1, <2>4, <2>6, SMTT(30) DEF Paired, PairedAt
  <2>8. Becomes(e)
    BY <1>2, <1>4
  <2>9. QED
    BY <2>7, <2>8, BecomesPairs
<1>5. QED
  BY <1>3, <1>4

(* What a write stores into is dirty after it.                             *)
LEMMA WriteBlockPairs ==
    ASSUME CacheInv, NEW x \in InUse, NEW d \in mix.data, NEW over \in BOOLEAN,
           NEW unc \in BOOLEAN, NEW bad, WriteBlock(x, d, over, unc, bad)
    PROVE  MirrorStep
<1> DEFINE g == getany(Now, x, over, bad)
<1>1. Got(Now, g, x, over, bad) /\ d \in Contents
  BY MixFacts, GetanyKeeps DEF CacheInv
<1>2. Becomes(IF g.bp = NoBuf THEN g.c ELSE Store(g.c, g.bp, x, d, unc))
  BY DEF WriteBlock
<1> HIDE DEF g
<1>3. CASE g.bp = NoBuf
  BY <1>1, <1>2, <1>3, BecomesPairs DEF Got
<1>4. CASE g.bp # NoBuf
  <2> DEFINE e == Store(g.c, g.bp, x, d, unc)
  <2>1. /\ \A b \in Buf \ {g.bp} : e.buf[b] = g.c.buf[b]
        /\ e.buf[g.bp].dirty
    BY <1>1, <1>4, StoreKeeps DEF Got
  <2>2. Becomes(e)
    BY <1>2, <1>4
  <2> HIDE DEF e
  <2>3. \A b \in Buf \ {g.bp} : g.c.buf[b] = Now.buf[b]
    BY <1>1, <1>4 DEF Got
  <2>4. Paired(Now, e)
    BY <2>1, <2>3 DEF Paired, PairedAt, Pending
  <2>5. QED
    BY <2>2, <2>4, BecomesPairs
<1>5. QED
  BY <1>3, <1>4

(* Of a pair of FAT blocks: if the second cannot be got, what getting the  *)
(* first flushed is left alone, and the first is still dirty if it was.    *)
LEMMA WriteFatPairPairs ==
    ASSUME CacheInv, NEW x \in mix.fats, NEW y \in mix.fats, NEW d \in mix.data, NEW bad,
           WriteFatPair(x, y, d, bad)
    PROVE  MirrorStep
<1> DEFINE g == getFATblock(Now, x, bad)
           h == getFATblock(g.c, y, bad)
           e == Store(h.c, h.bp, y, d, FALSE)
           z == Store(e, g.bp, x, d, FALSE)
<1>1. /\ x \in FatBlock /\ y \in FatBlock /\ x \in FileBlock /\ y \in FileBlock /\ d \in Contents
      /\ Sound(Now)
  BY MixFacts DEF CacheInv
<1>2. Got(Now, g, x, FALSE, bad)
  <2>1. g = getany(Now, x, FALSE, bad)
    BY <1>1 DEF getany
  <2> HIDE DEF g
  <2>2. QED
    BY <1>1, <2>1, GetanyKeeps
<1>3. Got(g.c, h, y, FALSE, bad)
  <2>1. h = getany(g.c, y, FALSE, bad)
    BY <1>1 DEF getany
  <2>2. Sound(g.c)
    BY <1>2 DEF Got
  <2> HIDE DEF g, h
  <2>3. QED
    BY <1>1, <2>1, <2>2, GetanyKeeps
<1>4. x # y /\ Becomes(IF g.bp = NoBuf THEN g.c ELSE IF h.bp = NoBuf THEN h.c ELSE z)
  BY DEF WriteFatPair
<1> HIDE DEF g, h, z, e
<1>5. CASE g.bp = NoBuf
  BY <1>2, <1>4, <1>5, BecomesPairs DEF Got
<1>6. CASE g.bp # NoBuf /\ h.bp = NoBuf
  <2>1. /\ g.bp \in Buf /\ g.c.buf[g.bp].valid /\ g.c.buf[g.bp].blk = x
        /\ \A b \in Buf \ {g.bp} : g.c.buf[b] = Now.buf[b]
        /\ Now.buf[g.bp].valid /\ Now.buf[g.bp].blk = x
           => g.c.buf[g.bp].dirty = Now.buf[g.bp].dirty
    BY <1>2, <1>6 DEF Got
  <2>2. Paired(g.c, h.c) /\ \A b \in Buf : h.c.buf[b].blk = g.c.buf[b].blk
    BY <1>3, <1>6 DEF Got
  <2>3. ASSUME NEW b \in Buf PROVE PairedAt(Now, h.c, b)
    <3>1. CASE b # g.bp
      BY <2>1, <2>2, <3>1 DEF Paired, PairedAt
    <3>2. CASE b = g.bp
      <4> SUFFICES ASSUME Pending(Now.buf[b]), Now.buf[b].blk \in FatBlock,
                          h.c.buf[b].valid, ~h.c.buf[b].dirty, h.c.buf[b].blk = Now.buf[b].blk
                   PROVE  h.c.disk[Mirror[Now.buf[b].blk]] = h.c.disk[Now.buf[b].blk]
        BY DEF PairedAt
      <4>1. Now.buf[b].blk = x
        BY <2>1, <2>2, <3>2
      <4>2. Pending(g.c.buf[b])
        BY <2>1, <3>2, <4>1 DEF Pending
      <4>3. PairedAt(g.c, h.c, b)
        BY <2>2 DEF Paired
      <4>4. g.c.buf[b].blk = x
        BY <2>1, <3>2
      <4>5. QED
        BY <4>1, <4>2, <4>3, <4>4 DEF PairedAt
    <3>3. QED
      BY <3>1, <3>2
  <2>4. Paired(Now, h.c)
    BY <2>3 DEF Paired
  <2>5. Becomes(h.c)
    BY <1>4, <1>6
  <2>6. QED
    BY <2>4, <2>5, BecomesPairs
<1>7. CASE g.bp # NoBuf /\ h.bp # NoBuf
  <2>1. /\ g.bp \in Buf /\ Sound(g.c)
        /\ g.c.buf[g.bp].valid /\ g.c.buf[g.bp].blk = x /\ ~g.c.buf[g.bp].uncache
        /\ g.c.rank[g.bp] = 0
        /\ \A b \in Buf \ {g.bp} : g.c.buf[b] = Now.buf[b]
    BY <1>2, <1>7 DEF Got
  <2>2. g.c.buf[g.bp].fat
    BY <1>1, <2>1 DEF Sound, Placed
  <2>3. /\ h.bp \in Buf /\ Sound(h.c) /\ h.bp # g.bp
        /\ h.c.buf[h.bp].valid /\ h.c.buf[h.bp].blk = y
        /\ \A b \in Buf \ {h.bp} : h.c.buf[b] = g.c.buf[b]
    BY <1>3, <1>4, <1>7, <2>1, <2>2 DEF Got
  <2> DEFINE n == FALSE
  <2>4. n \in BOOLEAN /\ e = Store(h.c, h.bp, y, d, n) /\ z = Store(e, g.bp, x, d, n)
    BY DEF e, z
  <2> HIDE DEF n
  <2>5. /\ Sound(e) /\ e.buf[h.bp].dirty
        /\ \A b \in Buf \ {h.bp} : e.buf[b] = h.c.buf[b]
    BY <1>1, <2>3, <2>4, StoreKeeps
  <2>6. e.buf[g.bp].valid /\ e.buf[g.bp].blk = x
    BY <2>1, <2>3, <2>5
  <2>7. /\ z.buf[g.bp].dirty
        /\ \A b \in Buf \ {g.bp} : z.buf[b] = e.buf[b]
    BY <1>1, <2>1, <2>4, <2>5, <2>6, StoreKeeps
  <2>8. \A b \in Buf : z.buf[b].dirty \/ z.buf[b] = Now.buf[b]
    BY <2>1, <2>3, <2>5, <2>7
  <2>9. Paired(Now, z)
    BY <2>8 DEF Paired, PairedAt, Pending
  <2>10. Becomes(z)
    BY <1>4, <1>7
  <2>11. QED
    BY <2>9, <2>10, BecomesPairs
<1>8. QED
  BY <1>5, <1>6, <1>7

(* After a flush of all no buffer is valid.                                *)
LEMMA FlushAllPairs ==
    ASSUME CacheInv, NEW bad, flush(bad)
    PROVE  MirrorStep
<1> DEFINE c == FlushSet(Now, Buf, bad)
           bf == [b \in Buf |-> Invalid(c.buf[b])]
<1>1. Becomes([c EXCEPT !.buf = bf])
  BY DEF flush
<1>2. c \in Cache
  BY FlushSetKeeps DEF CacheInv, Sound
<1> HIDE DEF c
<1>3. buf' = bf
  <2> HIDE DEF bf
  <2>1. [c EXCEPT !.buf = bf].buf = bf
    BY <1>2 DEF Cache
  <2>2. QED
    BY <1>1, <2>1 DEF Becomes
<1>4. \A b \in Buf : ~buf'[b].valid
  <2>1. \A b \in Buf : c.buf[b] \in Buffer
    BY <1>2 DEF Cache
  <2>2. QED
    BY <1>3, <2>1 DEF Invalid, Buffer
<1>5. QED
  BY <1>4, DropsPair

(* Every step of the cache pairs.                                          *)
LEMMA MirrorsStep == CacheInv /\ [CacheNext]_cacheVars => MirrorStep
<1> SUFFICES ASSUME CacheInv, [CacheNext]_cacheVars PROVE MirrorStep
  OBVIOUS
<1>0. \A u, b : b \in Buf => setinvld(u)[b] = buf[b] \/ ~setinvld(u)[b].valid
  BY SetinvldFacts
<1>1. ASSUME NEW x \in InUse, NEW unc \in BOOLEAN, NEW bad \in Bad({x}), ReadBlock(x, unc, bad)
      PROVE  MirrorStep
  BY <1>1, ReadBlockPairs
<1>2. ASSUME NEW x \in InUse, NEW d \in mix.data, NEW over \in BOOLEAN, NEW unc \in BOOLEAN,
             NEW bad \in Bad({x}), WriteBlock(x, d, over, unc, bad)
      PROVE  MirrorStep
  BY <1>2, WriteBlockPairs
<1>3. ASSUME NEW x \in mix.fats, NEW y \in mix.fats, NEW d \in mix.data, NEW bad \in Bad({x, y}),
             WriteFatPair(x, y, d, bad)
      PROVE  MirrorStep
  BY <1>3, WriteFatPairPairs
<1>4. ASSUME NEW T \in SUBSET Buf, NEW bad, Becomes(FlushSet(Now, T, bad))
      PROVE  MirrorStep
  BY <1>4, FlushSetKeeps, BecomesPairs DEF CacheInv
<1>5. ASSUME NEW S \in Runs, NEW bad, DirectRead(S, bad)
      PROVE  MirrorStep
  BY <1>4, <1>5 DEF DirectRead
<1>6. ASSUME NEW S \in Runs, NEW d \in mix.data, NEW bad, DirectWrite(S, d, bad)
      PROVE  MirrorStep
  <2>1. buf' = Dropped(Now, S) /\ Now.buf = buf
    BY <1>6 DEF DirectWrite, Becomes, Now
  <2>2. \A b \in Buf : Dropped(Now, S)[b] = buf[b] \/ ~Dropped(Now, S)[b].valid
    BY <2>1, VarTypes, NoFlagsType DEF Dropped
  <2>3. QED
    BY <2>1, <2>2, DropsPair
<1>7. ASSUME NEW u, NEW bad, flush_buffers(u, bad)
      PROVE  MirrorStep
  BY <1>4, <1>7 DEF flush_buffers, OnDisk
<1>8. ASSUME NEW bad, flush(bad)
      PROVE  MirrorStep
  BY <1>8, FlushAllPairs
<1>9. ASSUME NEW u, MediaDontKnow(u)
      PROVE  MirrorStep
  BY <1>0, <1>9, DropsPair DEF MediaDontKnow
<1>10. ASSUME NEW u, NEW d, MediaChanged(u, d)
       PROVE  MirrorStep
  <2>1. buf' = setinvld(u)
    BY <1>10 DEF MediaChanged, Becomes, Now
  <2>2. QED
    BY <1>0, <2>1, DropsPair
<1>11. ASSUME NEW S, NEW d, NEW u, NEW bad, Int26(S, d, u, bad) \/ Int7305(S, d, u, bad)
       PROVE  MirrorStep
  <2>1. buf' = buf \/ buf' = setinvld(u)
    BY <1>11 DEF Int26, Int7305, Becomes, Now
  <2>2. QED
    BY <1>0, <2>1, DropsPair
<1>12. CASE UNCHANGED cacheVars
  BY <1>12, DropsPair DEF cacheVars
<1>13. CASE CacheNext
  BY <1>1, <1>2, <1>3, <1>5, <1>6, <1>7, <1>8, <1>9, <1>10, <1>11, <1>13, Zenon DEF CacheNext
<1>14. QED
  BY <1>12, <1>13

(* A dirty buffer of a FAT block that is flushed and kept has reached both *)
(* copies of its block (flush1 of blockio.c), by whichever call it was     *)
(* flushed: one that recycles the buffer of another block, one that fails  *)
(* half way, or a flush of the disk.  Reads and writes may fail, and       *)
(* programs may write to the disk past the cache.                          *)
THEOREM MirrorsAlwaysWritten == CacheSpec => MirrorsWritten
<1>1. CacheInv /\ [CacheNext]_cacheVars => [MirrorStep]_cacheVars
  BY MirrorsStep
<1>2. CacheSpec => [][MirrorStep]_cacheVars
  BY <1>1, CacheInvInit, CacheInvStep, PTL DEF CacheSpec
<1>3. QED
  BY <1>2 DEF MirrorsWritten, MirrorStep
=============================================================================
