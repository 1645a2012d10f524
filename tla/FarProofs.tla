------------------------------ MODULE FarProofs ------------------------------
(***************************************************************************)
(* Theorems about the pool of far objects, for pools and objects of every  *)
(* size, any number of objects and calls one within another: the blocks in *)
(* use are those of the objects that are alive or wait to be collected,    *)
(* what a jump out of the kernel was given stays, and the pool of the      *)
(* start-up is empty when it is replaced.                                  *)
(***************************************************************************)
EXTENDS FarObjects, FiniteSetTheorems, SequenceTheorems, WellFoundedInduction, TLAPS

Nodes  == [at : Nat, size : Nat \ {0}, used : BOOLEAN]
Blocks == [at : Nat, size : Nat \ {0}]

(* The nodes cover the n units of a pool side by side, and two neighbours  *)
(* are not both free but for the pairs that start at an index of X.        *)
EndOf(n) == n.at + n.size
Tiles(ns, n) ==
    /\ ns \in Seq(Nodes) /\ Len(ns) > 0
    /\ ns[1].at = 0 /\ EndOf(ns[Len(ns)]) = n
    /\ \A i \in 1 .. Len(ns) - 1 : ns[i + 1].at = EndOf(ns[i])
Apart(ns, X) == \A i \in 1 .. Len(ns) - 1 : i \in X \/ ns[i].used \/ ns[i + 1].used

Cells(b)      == {c \in Nat : b.at <= c /\ c < b.at + b.size}
FreeCells(ns) == {c \in Nat : \E i \in DOMAIN ns : ~ns[i].used /\ c \in Cells(ns[i])}
UsedIn(ns)    == {Block(n.at, n.size) : n \in {m \in ToSet(ns) : m.used}}

PoolOk(p, n) ==
    Tiles(p.nodes, n) /\ Apart(p.nodes, {}) /\ p.avail = Cardinality(FreeCells(p.nodes))

(***************************************************************************)
(* Numbers, sets and sequences.                                            *)
(***************************************************************************)
(* A set of naturals has a lowest member.                                  *)
LEMMA LowestOf ==
    ASSUME NEW S, S \subseteq Nat, S # {}
    PROVE  Min(S) \in S /\ \A x \in S : Min(S) <= x
<1> DEFINE R == {ss \in Nat \X Nat : ss[1] < ss[2]}
<1>1. IsWellFoundedOn(R, Nat)
  BY NatLessThanWellFounded DEF OpToRel
<1>2. PICK i \in S : \A j \in S : <<j, i>> \notin R
  <2> HIDE DEF R
  <2> QED  BY <1>1, WFMin
<1>3. ASSUME NEW j \in S
      PROVE  i <= j
  <2>1. <<j, i>> \in Nat \X Nat /\ <<j, i>> \notin R
    BY <1>2
  <2>2. ~(j < i)
    BY <2>1
  <2>3. QED
    BY <2>2
<1>4. QED
  BY <1>3 DEF Min

(* What is so for 0 and goes from each number to the next is so up to n.   *)
LEMMA UpTheSteps ==
    ASSUME NEW n \in Nat, NEW B, 0 \in B, \A i \in 1 .. n : i - 1 \in B => i \in B
    PROVE  \A i \in 0 .. n : i \in B
<1> DEFINE S == {i \in 0 .. n : i \notin B}
<1>1. S \subseteq Nat
  OBVIOUS
<1> SUFFICES ASSUME S # {}
             PROVE  FALSE
  OBVIOUS
<1>2. PICK k : k = Min(S)
  OBVIOUS
<1>3. k \in S /\ \A x \in S : k <= x
  <2> HIDE DEF S
  <2> QED  BY <1>1, <1>2, LowestOf
<1>4. k \in 1 .. n
  BY <1>3
<1>5. k - 1 \notin S
  BY <1>3, <1>4
<1>6. k - 1 \in B
  BY <1>4, <1>5
<1>7. QED
  BY <1>3, <1>4, <1>6

(* A sequence with one element more.                                       *)
LEMMA InsertIs ==
    ASSUME NEW S, NEW s \in Seq(S), NEW i \in 1 .. Len(s) + 1, NEW e \in S
    PROVE  /\ InsertAt(s, i, e) \in Seq(S) /\ Len(InsertAt(s, i, e)) = Len(s) + 1
           /\ \A j \in 1 .. i - 1 : InsertAt(s, i, e)[j] = s[j]
           /\ InsertAt(s, i, e)[i] = e
           /\ \A j \in i + 1 .. Len(s) + 1 : InsertAt(s, i, e)[j] = s[j - 1]
<1>1. PICK m, l, a, b : m = 1 /\ l = Len(s) /\ a = i - 1 /\ b = i
  OBVIOUS
<1>2. l \in Nat /\ m \in Int /\ a \in Int /\ b \in Int
  BY <1>1, LenProperties
<1>3. \A j \in 1 .. l : s[j] \in S
  BY <1>1, ElementOfSeq
<1> DEFINE x == SubSeq(s, m, a)
           y == SubSeq(s, b, l)
<1>4. /\ x \in Seq(S) /\ Len(x) = i - 1 /\ \A j \in 1 .. i - 1 : x[j] = s[j]
  <2>1. \A j \in m .. a : s[j] \in S
    BY <1>1, <1>3
  <2>2. x \in Seq(S) /\ Len(x) = (IF m <= a THEN a - m + 1 ELSE 0) /\ \A j \in 1 .. a - m + 1 : x[j] = s[m + j - 1]
    BY <2>1, <1>2, SubSeqProperties
  <2> HIDE DEF x
  <2>3. QED
    BY <2>2, <1>1, <1>2
<1>5. /\ y \in Seq(S) /\ Len(y) = l - i + 1 /\ \A j \in 1 .. l - i + 1 : y[j] = s[i + j - 1]
  <2>1. \A j \in b .. l : s[j] \in S
    BY <1>1, <1>3
  <2>2. y \in Seq(S) /\ Len(y) = (IF b <= l THEN l - b + 1 ELSE 0) /\ \A j \in 1 .. l - b + 1 : y[j] = s[b + j - 1]
    BY <2>1, <1>2, SubSeqProperties
  <2> HIDE DEF y
  <2>3. QED
    BY <2>2, <1>1, <1>2
<1>6. InsertAt(s, i, e) = x \o <<e>> \o y
  BY <1>1 DEF InsertAt
<1> HIDE DEF x, y
<1>7. <<e>> \in Seq(S) /\ Len(<<e>>) = 1 /\ <<e>>[1] = e
  OBVIOUS
<1> DEFINE u == <<e>>
           v == x \o u
<1>8. u \in Seq(S) /\ Len(u) = 1 /\ u[1] = e
  BY <1>7
<1> HIDE DEF u
<1>9. /\ v \in Seq(S) /\ Len(v) = Len(x) + Len(u)
      /\ \A j \in 1 .. Len(x) + Len(u) : v[j] = IF j <= Len(x) THEN x[j] ELSE u[j - Len(x)]
  BY <1>4, <1>8, ConcatProperties
<1>10. InsertAt(s, i, e) = v \o y
  BY <1>6 DEF u
<1> HIDE DEF v
<1>11. v \in Seq(S) /\ Len(v) = i /\ v[i] = e /\ \A j \in 1 .. i - 1 : v[j] = s[j]
  <2>1. Len(v) = i /\ i \in Int
    BY <1>2, <1>4, <1>8, <1>9
  <2>2. v[i] = u[1]
    BY <2>1, <1>4, <1>8, <1>9
  <2>3. ASSUME NEW j \in 1 .. i - 1
        PROVE  v[j] = s[j]
    BY <2>1, <1>4, <1>8, <1>9
  <2>4. QED
    BY <1>8, <1>9, <2>1, <2>2, <2>3
<1>12. v \in Seq(S) /\ y \in Seq(S)
  BY <1>5, <1>11
<1>13. /\ v \o y \in Seq(S) /\ Len(v \o y) = Len(v) + Len(y)
       /\ \A j \in 1 .. Len(v) + Len(y) : (v \o y)[j] = IF j <= Len(v) THEN v[j] ELSE y[j - Len(v)]
  BY <1>12, ConcatProperties
<1>14. ASSUME NEW j \in i + 1 .. Len(s) + 1
       PROVE  (v \o y)[j] = s[j - 1]
  <2>1. /\ j \in 1 .. Len(v) + Len(y) /\ ~(j <= Len(v)) /\ j - Len(v) = j - i
        /\ j - i \in 1 .. l - i + 1 /\ i + (j - i) - 1 = j - 1
    BY <1>1, <1>2, <1>5, <1>11
  <2>2. (v \o y)[j] = y[j - i]
    BY <2>1, <1>13
  <2>3. QED
    BY <2>1, <2>2, <1>5
<1>15. ASSUME NEW j \in 1 .. i
       PROVE  (v \o y)[j] = v[j]
  <2>1. j \in 1 .. Len(v) + Len(y) /\ j <= Len(v)
    BY <1>1, <1>2, <1>5, <1>11
  <2>2. QED
    BY <2>1, <1>13
<1>16. Len(v \o y) = Len(s) + 1 /\ i \in 1 .. i
  BY <1>1, <1>2, <1>5, <1>11, <1>13
<1>17. QED
  BY <1>10, <1>11, <1>13, <1>14, <1>15, <1>16

(* A sequence with one element less.                                       *)
LEMMA RemoveIs ==
    ASSUME NEW S, NEW s \in Seq(S), NEW i \in 1 .. Len(s)
    PROVE  /\ RemoveAt(s, i) \in Seq(S) /\ Len(RemoveAt(s, i)) = Len(s) - 1
           /\ \A j \in 1 .. i - 1 : RemoveAt(s, i)[j] = s[j]
           /\ \A j \in i .. Len(s) - 1 : RemoveAt(s, i)[j] = s[j + 1]
<1>1. PICK m, l, a, b : m = 1 /\ l = Len(s) /\ a = i - 1 /\ b = i + 1
  OBVIOUS
<1>2. l \in Nat /\ m \in Int /\ a \in Int /\ b \in Int
  BY <1>1, LenProperties
<1>3. \A j \in 1 .. l : s[j] \in S
  BY <1>1, ElementOfSeq
<1> DEFINE x == SubSeq(s, m, a)
           y == SubSeq(s, b, l)
<1>4. /\ x \in Seq(S) /\ Len(x) = i - 1 /\ \A j \in 1 .. i - 1 : x[j] = s[j]
  <2>1. \A j \in m .. a : s[j] \in S
    BY <1>1, <1>3
  <2>2. x \in Seq(S) /\ Len(x) = (IF m <= a THEN a - m + 1 ELSE 0) /\ \A j \in 1 .. a - m + 1 : x[j] = s[m + j - 1]
    BY <2>1, <1>2, SubSeqProperties
  <2> HIDE DEF x
  <2>3. QED
    BY <2>2, <1>1, <1>2
<1>5. /\ y \in Seq(S) /\ Len(y) = l - i /\ \A j \in 1 .. l - i : y[j] = s[i + j]
  <2>1. \A j \in b .. l : s[j] \in S
    BY <1>1, <1>3
  <2>2. y \in Seq(S) /\ Len(y) = (IF b <= l THEN l - b + 1 ELSE 0) /\ \A j \in 1 .. l - b + 1 : y[j] = s[b + j - 1]
    BY <2>1, <1>2, SubSeqProperties
  <2> HIDE DEF y
  <2>3. QED
    BY <2>2, <1>1, <1>2
<1>6. RemoveAt(s, i) = x \o y
  BY <1>1 DEF RemoveAt
<1> HIDE DEF x, y
<1>7. /\ x \o y \in Seq(S) /\ Len(x \o y) = Len(x) + Len(y)
      /\ \A j \in 1 .. Len(x) + Len(y) : (x \o y)[j] = IF j <= Len(x) THEN x[j] ELSE y[j - Len(x)]
  BY <1>4, <1>5, ConcatProperties
<1>8. QED
  BY <1>1, <1>2, <1>4, <1>5, <1>6, <1>7

(***************************************************************************)
(* The nodes of a pool.                                                    *)
(***************************************************************************)
(* What tiles a pool is a sequence of nodes.                               *)
LEMMA TileFacts ==
    ASSUME NEW ns, NEW n, Tiles(ns, n)
    PROVE  /\ ns \in Seq(Nodes) /\ Len(ns) \in Nat \ {0} /\ DOMAIN ns = 1 .. Len(ns)
           /\ \A i \in 1 .. Len(ns) : /\ ns[i] \in Nodes /\ ns[i].at \in Nat /\ ns[i].size \in Nat \ {0}
                                      /\ ns[i].used \in BOOLEAN /\ EndOf(ns[i]) \in Nat
           /\ n \in Nat
<1>1. ns \in Seq(Nodes) /\ Len(ns) > 0
  BY DEF Tiles
<1>2. Len(ns) \in Nat \ {0} /\ DOMAIN ns = 1 .. Len(ns)
  BY <1>1, LenProperties
<1>3. \A i \in 1 .. Len(ns) : ns[i] \in Nodes
  BY <1>1, ElementOfSeq
<1>4. \A i \in 1 .. Len(ns) : /\ ns[i].at \in Nat /\ ns[i].size \in Nat \ {0}
                              /\ ns[i].used \in BOOLEAN /\ EndOf(ns[i]) \in Nat
  BY <1>3 DEF Nodes, EndOf
<1>5. n \in Nat
  BY <1>2, <1>4 DEF Tiles
<1>6. QED
  BY <1>1, <1>2, <1>3, <1>4, <1>5

(* Nodes ascend.                                                           *)
LEMMA Ascends ==
    ASSUME NEW ns, NEW n, Tiles(ns, n), NEW i \in 1 .. Len(ns), NEW j \in 1 .. Len(ns), i < j
    PROVE  EndOf(ns[i]) <= ns[j].at
<1>1. Len(ns) \in Nat /\ \A k \in 1 .. Len(ns) : ns[k].at \in Nat /\ EndOf(ns[k]) \in Nat /\ ns[k].at <= EndOf(ns[k])
  BY TileFacts DEF EndOf
<1> DEFINE B == {d \in Nat : i + 1 + d <= Len(ns) => EndOf(ns[i]) <= ns[i + 1 + d].at}
<1>2. \A d \in 0 .. Len(ns) : d \in B
  <2>1. 0 \in B
    BY <1>1 DEF Tiles
  <2>2. ASSUME NEW d \in 1 .. Len(ns), d - 1 \in B
        PROVE  d \in B
    <3>1. d \in Nat /\ i + 1 + (d - 1) = i + d
      OBVIOUS
    <3>2. CASE i + 1 + d <= Len(ns)
      <4>1. EndOf(ns[i]) <= ns[i + d].at
        BY <1>1, <2>2, <3>1, <3>2
      <4>2. i + d \in 1 .. Len(ns) - 1
        BY <1>1, <3>2
      <4>3. ns[(i + d) + 1].at = EndOf(ns[i + d])
        BY <4>2 DEF Tiles
      <4>4. i + 1 + d = (i + d) + 1 /\ i + d \in 1 .. Len(ns) /\ i + 1 + d \in 1 .. Len(ns)
        BY <1>1, <4>2, <3>2
      <4>5. EndOf(ns[i]) <= ns[i + 1 + d].at
        BY <1>1, <4>1, <4>3, <4>4
      <4>6. QED
        BY <3>1, <4>5
    <3>3. QED
      BY <3>1, <3>2
  <2>3. QED
    <3> HIDE DEF B
    <3> QED  BY <1>1, <2>1, <2>2, UpTheSteps
<1>3. j - i - 1 \in 0 .. Len(ns) /\ i + 1 + (j - i - 1) = j /\ j <= Len(ns)
  BY <1>1
<1>4. j - i - 1 \in B
  BY <1>2, <1>3
<1>5. QED
  BY <1>3, <1>4

(* Two nodes have no cell in common, and start at different places.        *)
LEMMA CellsApart ==
    ASSUME NEW ns, NEW n, Tiles(ns, n), NEW i \in 1 .. Len(ns), NEW j \in 1 .. Len(ns)
    PROVE  /\ i # j => ns[i].at # ns[j].at
           /\ \A c \in Nat : c \in Cells(ns[i]) /\ c \in Cells(ns[j]) => i = j
<1>1. /\ ns[i].at \in Nat /\ ns[j].at \in Nat /\ ns[i].size \in Nat \ {0} /\ ns[j].size \in Nat \ {0}
      /\ Len(ns) \in Nat
  BY TileFacts
<1>2. i < j => ns[i].at + ns[i].size <= ns[j].at
  BY Ascends DEF EndOf
<1>3. j < i => ns[j].at + ns[j].size <= ns[i].at
  BY Ascends DEF EndOf
<1>4. QED
  BY <1>1, <1>2, <1>3 DEF Cells

(* The blocks in use, by the index of their node.                          *)
LEMMA UsedAt ==
    ASSUME NEW ns, NEW n, Tiles(ns, n), NEW b
    PROVE  b \in UsedIn(ns) <=> \E i \in 1 .. Len(ns) : ns[i].used /\ b = Block(ns[i].at, ns[i].size)
<1>1. DOMAIN ns = 1 .. Len(ns)
  BY TileFacts
<1>2. QED
  BY <1>1 DEF UsedIn, ToSet

(* The cells of a pool are a finite set.                                   *)
LEMMA CellsFinite ==
    ASSUME NEW ns, NEW n, Tiles(ns, n)
    PROVE  IsFiniteSet(FreeCells(ns))
<1>1. n \in Nat /\ DOMAIN ns = 1 .. Len(ns) /\ Len(ns) \in Nat \ {0}
  BY TileFacts
<1>2. ASSUME NEW c \in FreeCells(ns)
      PROVE  c \in Nat /\ c <= n
  <2>1. PICK i \in 1 .. Len(ns) : c \in Cells(ns[i])
    BY <1>1, <1>2 DEF FreeCells
  <2>2. EndOf(ns[i]) <= n
    <3>1. CASE i = Len(ns)
      BY <1>1, <3>1 DEF Tiles
    <3>2. CASE i # Len(ns)
      <4>1. EndOf(ns[i]) <= ns[Len(ns)].at
        <5>1. Len(ns) \in 1 .. Len(ns) /\ i < Len(ns)
          <6>1. PICK m : m = Len(ns)
            OBVIOUS
          <6>2. m \in Nat \ {0}
            BY <1>1, <6>1
          <6>3. i \in 1 .. m /\ i # m
            BY <2>1, <3>2, <6>1
          <6>4. QED
            BY <6>1, <6>2, <6>3
        <5>2. QED
          BY <5>1, Ascends
      <4>2. ns[Len(ns)].at <= EndOf(ns[Len(ns)]) /\ EndOf(ns[Len(ns)]) = n
        <5>1. Len(ns) \in 1 .. Len(ns)
          BY <1>1
        <5>2. ns[Len(ns)].at \in Nat /\ ns[Len(ns)].size \in Nat
          BY <5>1, TileFacts
        <5>3. QED
          BY <5>2 DEF EndOf, Tiles
      <4>3. EndOf(ns[i]) \in Nat /\ ns[Len(ns)].at \in Nat
        BY <1>1, TileFacts
      <4>4. QED
        BY <1>1, <4>1, <4>2, <4>3
    <3>3. QED
      BY <3>1, <3>2
  <2>3. ns[i].at \in Nat /\ ns[i].size \in Nat
    BY TileFacts
  <2>4. QED
    BY <1>1, <2>1, <2>2, <2>3 DEF Cells, EndOf
<1>3. FreeCells(ns) \subseteq Nat /\ \A c \in FreeCells(ns) : c <= n
  BY <1>2
<1>4. QED
  BY <1>1, <1>3, FS_BoundedSetOfNaturals

(* A node marked as used or free.                                          *)
Marked(ns, i, flag) == [ns EXCEPT ![i].used = flag]

(* Marking a node changes that node only, and its flag only.               *)
LEMMA MarkIs ==
    ASSUME NEW ns, NEW n, Tiles(ns, n), NEW i \in 1 .. Len(ns), NEW flag \in BOOLEAN
    PROVE  /\ Tiles(Marked(ns, i, flag), n) /\ Len(Marked(ns, i, flag)) = Len(ns)
           /\ \A j \in 1 .. Len(ns) : j # i => Marked(ns, i, flag)[j] = ns[j]
           /\ Marked(ns, i, flag)[i] = Node(ns[i].at, ns[i].size, flag)
<1> DEFINE e == [ns[i] EXCEPT !.used = flag]
<1>1. ns \in Seq(Nodes) /\ ns[i] \in Nodes /\ Len(ns) \in Nat \ {0}
  BY TileFacts
<1>2. e \in Nodes /\ e = Node(ns[i].at, ns[i].size, flag)
  <2>1. PICK x \in Nodes : x = ns[i]
    BY <1>1
  <2>2. [x EXCEPT !.used = flag] = Node(x.at, x.size, flag)
    BY DEF Nodes, Node
  <2>3. Node(x.at, x.size, flag) \in Nodes
    BY DEF Nodes, Node
  <2>4. QED
    BY <2>1, <2>2, <2>3
<1>3. e.at = ns[i].at /\ EndOf(e) = EndOf(ns[i])
  BY <1>2 DEF Node, EndOf
<1>4. Marked(ns, i, flag) = [ns EXCEPT ![i] = e]
  BY DEF Marked
<1> HIDE DEF e
<1> DEFINE t == [ns EXCEPT ![i] = e]
<1>5. /\ t \in Seq(Nodes) /\ Len(t) = Len(ns)
      /\ \A j \in 1 .. Len(ns) : t[j] = IF j = i THEN e ELSE ns[j]
  BY <1>1, <1>2, ExceptSeq
<1> HIDE DEF t
<1>6. \A j \in 1 .. Len(ns) : t[j].at = ns[j].at /\ EndOf(t[j]) = EndOf(ns[j])
  BY <1>3, <1>5
<1>7. Tiles(t, n)
  <2>1. 1 \in 1 .. Len(ns) /\ Len(ns) \in 1 .. Len(ns)
    BY <1>1
  <2>2. t[1].at = 0 /\ EndOf(t[Len(t)]) = n
    BY <1>5, <1>6, <2>1 DEF Tiles
  <2>3. ASSUME NEW j \in 1 .. Len(t) - 1
        PROVE  t[j + 1].at = EndOf(t[j])
    <3>1. j \in 1 .. Len(ns) /\ j + 1 \in 1 .. Len(ns) /\ j \in 1 .. Len(ns) - 1
      BY <1>1, <1>5
    <3>2. QED
      BY <1>6, <3>1 DEF Tiles
  <2>4. QED
    BY <1>1, <1>5, <2>2, <2>3 DEF Tiles
<1>8. t = Marked(ns, i, flag)
  BY <1>4 DEF t
<1>9. QED
  BY <1>2, <1>5, <1>7, <1>8

(* Node i cut to a size, with its rest behind it, and node i joined to the *)
(* next one.                                                               *)
IsCut(ns, i, size, r) ==
    /\ r \in Seq(Nodes) /\ Len(r) = Len(ns) + 1
    /\ \A j \in 1 .. i - 1 : r[j] = ns[j]
    /\ r[i] = Node(ns[i].at, size, ns[i].used)
    /\ r[i + 1] = Node(ns[i].at + size, ns[i].size - size, FALSE)
    /\ \A j \in i + 2 .. Len(ns) + 1 : r[j] = ns[j - 1]
IsMerged(ns, i, r) ==
    /\ r \in Seq(Nodes) /\ Len(r) = Len(ns) - 1
    /\ \A j \in 1 .. i - 1 : r[j] = ns[j]
    /\ r[i] = Node(ns[i].at, ns[i].size + ns[i + 1].size, ns[i].used)
    /\ \A j \in i + 1 .. Len(ns) - 1 : r[j] = ns[j + 1]

(* Another size for one node.                                              *)
LEMMA ResizeIs ==
    ASSUME NEW ns \in Seq(Nodes), NEW i \in 1 .. Len(ns), NEW size \in Nat \ {0}
    PROVE  /\ [ns EXCEPT ![i].size = size] \in Seq(Nodes)
           /\ Len([ns EXCEPT ![i].size = size]) = Len(ns)
           /\ \A j \in 1 .. Len(ns) :
                  [ns EXCEPT ![i].size = size][j] = IF j = i THEN Node(ns[i].at, size, ns[i].used) ELSE ns[j]
<1> DEFINE e == [ns[i] EXCEPT !.size = size]
<1>1. ns[i] \in Nodes
  BY ElementOfSeq
<1>2. e \in Nodes /\ e = Node(ns[i].at, size, ns[i].used)
  BY <1>1 DEF Nodes, Node
<1> HIDE DEF e
<1>3. [ns EXCEPT ![i].size = size] = [ns EXCEPT ![i] = e]
  BY DEF e
<1>4. /\ [ns EXCEPT ![i] = e] \in Seq(Nodes) /\ Len([ns EXCEPT ![i] = e]) = Len(ns)
      /\ \A j \in 1 .. Len(ns) : [ns EXCEPT ![i] = e][j] = IF j = i THEN e ELSE ns[j]
  BY <1>2, ExceptSeq
<1>5. QED
  BY <1>2, <1>3, <1>4

(* A node shortened before a used one, or at the end, leaves a new free    *)
(* node behind it (mntruncate).                                            *)
LEMMA CutIs ==
    ASSUME NEW ns, NEW n, Tiles(ns, n), NEW i \in 1 .. Len(ns), NEW size \in Nat \ {0},
           size < ns[i].size, ~FreeAt(ns, i + 1)
    PROVE  IsCut(ns, i, size, mntruncate(ns, i, size))
<1> DEFINE cut == [ns EXCEPT ![i].size = size]
           e   == Node(ns[i].at + size, ns[i].size - size, FALSE)
<1>1. /\ ns \in Seq(Nodes) /\ Len(ns) \in Nat \ {0} /\ ns[i].at \in Nat /\ ns[i].size \in Nat \ {0}
  BY TileFacts
<1>2. /\ cut \in Seq(Nodes) /\ Len(cut) = Len(ns)
      /\ \A j \in 1 .. Len(ns) : cut[j] = IF j = i THEN Node(ns[i].at, size, ns[i].used) ELSE ns[j]
  BY <1>1, ResizeIs
<1>3. e \in Nodes /\ ns[i].size - size # 0
  <2>1. ns[i].size - size \in Nat \ {0} /\ ns[i].at + size \in Nat
    BY <1>1
  <2>2. QED
    BY <2>1 DEF Nodes, Node
<1>4. mntruncate(ns, i, size) = InsertAt(cut, i + 1, e)
  BY <1>3 DEF mntruncate
<1> HIDE DEF cut, e
<1>5. i + 1 \in 1 .. Len(cut) + 1
  BY <1>1, <1>2
<1>6. PICK k : k = i + 1 /\ k \in 1 .. Len(cut) + 1
  BY <1>5
<1> DEFINE r == InsertAt(cut, k, e)
<1>7. /\ r \in Seq(Nodes) /\ Len(r) = Len(cut) + 1
      /\ \A j \in 1 .. k - 1 : r[j] = cut[j]
      /\ r[k] = e
      /\ \A j \in k + 1 .. Len(cut) + 1 : r[j] = cut[j - 1]
  <2>1. cut \in Seq(Nodes) /\ k \in 1 .. Len(cut) + 1 /\ e \in Nodes
    BY <1>2, <1>3, <1>6
  <2>2. QED
    BY <2>1, InsertIs
<1> HIDE DEF r
<1>8. ASSUME NEW j \in 1 .. i - 1
      PROVE  r[j] = ns[j]
  <2>1. j \in 1 .. k - 1 /\ j \in 1 .. Len(ns) /\ j # i
    BY <1>1, <1>6
  <2>2. QED
    BY <2>1, <1>2, <1>7
<1>9. r[i] = Node(ns[i].at, size, ns[i].used)
  <2>1. i \in 1 .. k - 1
    BY <1>1, <1>6
  <2>2. QED
    BY <2>1, <1>2, <1>7
<1>10. ASSUME NEW j \in i + 2 .. Len(ns) + 1
       PROVE  r[j] = ns[j - 1]
  <2>1. j \in k + 1 .. Len(cut) + 1 /\ j - 1 \in 1 .. Len(ns) /\ j - 1 # i
    BY <1>1, <1>2, <1>6
  <2>2. QED
    BY <2>1, <1>2, <1>7
<1>11. r[i + 1] = e /\ Len(r) = Len(ns) + 1
  BY <1>2, <1>6, <1>7
<1>12. IsCut(ns, i, size, r)
  BY <1>7, <1>8, <1>9, <1>10, <1>11 DEF IsCut, e
<1>13. QED
  BY <1>4, <1>6, <1>12 DEF r

(* Two free neighbours become one node (mntruncate).                       *)
LEMMA MergedIs ==
    ASSUME NEW ns, NEW n, Tiles(ns, n), NEW i \in 1 .. Len(ns), FreeAt(ns, i), FreeAt(ns, i + 1)
    PROVE  IsMerged(ns, i, Joined(ns, i)) /\ i + 1 \in 1 .. Len(ns)
<1> DEFINE size == ns[i].size + ns[i + 1].size
           cut == [ns EXCEPT ![i].size = size]
<1>1. /\ ns \in Seq(Nodes) /\ Len(ns) \in Nat \ {0} /\ DOMAIN ns = 1 .. Len(ns) /\ i + 1 \in 1 .. Len(ns)
  BY TileFacts DEF FreeAt
<1>2. ns[i].size \in Nat \ {0} /\ ns[i + 1].size \in Nat \ {0}
  BY <1>1, TileFacts
<1>3. /\ cut \in Seq(Nodes) /\ Len(cut) = Len(ns)
      /\ \A j \in 1 .. Len(ns) : cut[j] = IF j = i THEN Node(ns[i].at, size, ns[i].used) ELSE ns[j]
  <2>1. size \in Nat \ {0}
    BY <1>2
  <2> HIDE DEF size
  <2>2. QED
    BY <1>1, <2>1, ResizeIs
<1>4. Joined(ns, i) = RemoveAt(cut, i + 1)
  <2>1. ns[i].size - size # 0 /\ ns[i + 1].size + (ns[i].size - size) = 0
    <3>1. \A a, b \in Nat \ {0} : a - (a + b) # 0 /\ b + (a - (a + b)) = 0
      OBVIOUS
    <3>2. QED
      BY <1>2, <3>1
  <2>2. Joined(ns, i) = mntruncate(ns, i, size)
    BY DEF Joined
  <2>3. mntruncate(ns, i, size) = RemoveAt(cut, i + 1)
    <3> HIDE DEF size
    <3> QED  BY <2>1 DEF mntruncate
  <2>4. QED
    BY <2>2, <2>3
<1> HIDE DEF cut
<1> DEFINE r == RemoveAt(cut, i + 1)
<1>5. PICK k : k = i + 1 /\ k \in 1 .. Len(cut)
  BY <1>1, <1>3
<1>6. /\ r \in Seq(Nodes) /\ Len(r) = Len(cut) - 1
      /\ \A j \in 1 .. k - 1 : r[j] = cut[j]
      /\ \A j \in k .. Len(cut) - 1 : r[j] = cut[j + 1]
  BY <1>3, <1>5, RemoveIs
<1> HIDE DEF r
<1>7. ASSUME NEW j \in 1 .. i - 1
      PROVE  r[j] = ns[j]
  <2>1. j \in 1 .. k - 1 /\ j \in 1 .. Len(ns) /\ j # i
    BY <1>1, <1>5
  <2>2. QED
    BY <2>1, <1>3, <1>6
<1>8. r[i] = Node(ns[i].at, size, ns[i].used)
  <2>1. i \in 1 .. k - 1
    BY <1>1, <1>5
  <2>2. QED
    BY <2>1, <1>3, <1>6
<1>9. ASSUME NEW j \in i + 1 .. Len(ns) - 1
      PROVE  r[j] = ns[j + 1]
  <2>1. j \in k .. Len(cut) - 1 /\ j + 1 \in 1 .. Len(ns) /\ j + 1 # i
    BY <1>1, <1>3, <1>5
  <2>2. QED
    BY <2>1, <1>3, <1>6
<1>10. IsMerged(ns, i, r)
  BY <1>3, <1>6, <1>7, <1>8, <1>9 DEF IsMerged
<1>11. QED
  BY <1>1, <1>4, <1>10 DEF r

(* What a mark does to the blocks in use and to the free cells.            *)
LEMMA MarkUsed ==
    ASSUME NEW ns, NEW n, Tiles(ns, n), NEW i \in 1 .. Len(ns), ~ns[i].used
    PROVE  /\ UsedIn(Marked(ns, i, TRUE)) = UsedIn(ns) \cup {Block(ns[i].at, ns[i].size)}
           /\ FreeCells(Marked(ns, i, TRUE)) = FreeCells(ns) \ Cells(ns[i])
<1> DEFINE t == Marked(ns, i, TRUE)
           b == Block(ns[i].at, ns[i].size)
<1>1. /\ Tiles(t, n) /\ Len(t) = Len(ns) /\ \A j \in 1 .. Len(ns) : j # i => t[j] = ns[j]
      /\ t[i] = Node(ns[i].at, ns[i].size, TRUE)
  BY MarkIs
<1>2. DOMAIN ns = 1 .. Len(ns) /\ DOMAIN t = 1 .. Len(ns)
  BY <1>1, TileFacts
<1> HIDE DEF t
<1>3. t[i].used /\ t[i].at = ns[i].at /\ t[i].size = ns[i].size
  BY <1>1 DEF Node
<1>4. ASSUME NEW x
      PROVE  x \in UsedIn(t) <=> x \in UsedIn(ns) \cup {b}
  <2>1. x \in UsedIn(t) <=> \E j \in 1 .. Len(ns) : t[j].used /\ x = Block(t[j].at, t[j].size)
    BY <1>1, UsedAt
  <2>2. x \in UsedIn(ns) <=> \E j \in 1 .. Len(ns) : ns[j].used /\ x = Block(ns[j].at, ns[j].size)
    BY UsedAt
  <2>3. QED
    BY <1>1, <1>3, <2>1, <2>2
<1>5. ASSUME NEW c \in Nat
      PROVE  c \in FreeCells(t) <=> c \in FreeCells(ns) \ Cells(ns[i])
  <2>1. c \in FreeCells(t) <=> \E j \in 1 .. Len(ns) : ~t[j].used /\ c \in Cells(t[j])
    BY <1>2 DEF FreeCells
  <2>2. c \in FreeCells(ns) <=> \E j \in 1 .. Len(ns) : ~ns[j].used /\ c \in Cells(ns[j])
    BY <1>2 DEF FreeCells
  <2>3. \A j \in 1 .. Len(ns) : c \in Cells(ns[i]) /\ c \in Cells(ns[j]) => i = j
    BY CellsApart
  <2>4. QED
    BY <1>1, <1>3, <2>1, <2>2, <2>3
<1>6. FreeCells(t) \subseteq Nat /\ FreeCells(ns) \subseteq Nat
  BY DEF FreeCells
<1>7. QED
  BY <1>4, <1>5, <1>6 DEF t

(* A used node marked as free: its block is no longer in use, and its      *)
(* cells are free.                                                         *)
LEMMA MarkFree ==
    ASSUME NEW ns, NEW n, Tiles(ns, n), NEW i \in 1 .. Len(ns), ns[i].used
    PROVE  /\ UsedIn(Marked(ns, i, FALSE)) = UsedIn(ns) \ {Block(ns[i].at, ns[i].size)}
           /\ FreeCells(Marked(ns, i, FALSE)) = FreeCells(ns) \cup Cells(ns[i])
           /\ FreeCells(ns) \cap Cells(ns[i]) = {}
<1> DEFINE t == Marked(ns, i, FALSE)
           b == Block(ns[i].at, ns[i].size)
<1>1. /\ Tiles(t, n) /\ Len(t) = Len(ns) /\ \A j \in 1 .. Len(ns) : j # i => t[j] = ns[j]
      /\ t[i] = Node(ns[i].at, ns[i].size, FALSE)
  BY MarkIs
<1>2. DOMAIN ns = 1 .. Len(ns) /\ DOMAIN t = 1 .. Len(ns)
  BY <1>1, TileFacts
<1> HIDE DEF t
<1>3. ~t[i].used /\ t[i].at = ns[i].at /\ t[i].size = ns[i].size
  BY <1>1 DEF Node
<1>4. ASSUME NEW x
      PROVE  x \in UsedIn(t) <=> x \in UsedIn(ns) \ {b}
  <2>1. x \in UsedIn(t) <=> \E j \in 1 .. Len(ns) : t[j].used /\ x = Block(t[j].at, t[j].size)
    BY <1>1, UsedAt
  <2>2. x \in UsedIn(ns) <=> \E j \in 1 .. Len(ns) : ns[j].used /\ x = Block(ns[j].at, ns[j].size)
    BY UsedAt
  <2>3. \A j \in 1 .. Len(ns) : j # i => Block(ns[j].at, ns[j].size) # b
    BY CellsApart DEF Block
  <2>4. QED
    BY <1>1, <1>3, <2>1, <2>2, <2>3
<1>5. ASSUME NEW c \in Nat
      PROVE  /\ c \in FreeCells(t) <=> c \in FreeCells(ns) \cup Cells(ns[i])
             /\ ~(c \in FreeCells(ns) /\ c \in Cells(ns[i]))
  <2>1. c \in FreeCells(t) <=> \E j \in 1 .. Len(ns) : ~t[j].used /\ c \in Cells(t[j])
    BY <1>2 DEF FreeCells
  <2>2. c \in FreeCells(ns) <=> \E j \in 1 .. Len(ns) : ~ns[j].used /\ c \in Cells(ns[j])
    BY <1>2 DEF FreeCells
  <2>3. \A j \in 1 .. Len(ns) : c \in Cells(ns[i]) /\ c \in Cells(ns[j]) => i = j
    BY CellsApart
  <2>4. Cells(t[i]) = Cells(ns[i])
    BY <1>3 DEF Cells
  <2>5. QED
    BY <1>1, <1>3, <2>1, <2>2, <2>3, <2>4
<1>6. FreeCells(t) \subseteq Nat /\ FreeCells(ns) \subseteq Nat /\ Cells(ns[i]) \subseteq Nat
  BY DEF FreeCells, Cells
<1>7. QED
  BY <1>4, <1>5, <1>6 DEF t

(* What cutting a used node does.                                          *)
LEMMA CutKeeps ==
    ASSUME NEW ns, NEW n, Tiles(ns, n), NEW i \in 1 .. Len(ns), ns[i].used, NEW size \in Nat \ {0},
           size < ns[i].size, NEW r, IsCut(ns, i, size, r)
    PROVE  /\ Tiles(r, n)
           /\ UsedIn(r) = (UsedIn(ns) \ {Block(ns[i].at, ns[i].size)}) \cup {Block(ns[i].at, size)}
           /\ FreeCells(r) = FreeCells(ns) \cup Cells(Block(ns[i].at + size, ns[i].size - size))
<1>1. /\ ns \in Seq(Nodes) /\ Len(ns) \in Nat \ {0} /\ DOMAIN ns = 1 .. Len(ns)
      /\ \A j \in 1 .. Len(ns) : ns[j].at \in Nat /\ ns[j].size \in Nat \ {0}
      /\ n \in Nat
  BY TileFacts
<1>2. /\ r \in Seq(Nodes) /\ Len(r) = Len(ns) + 1 /\ DOMAIN r = 1 .. Len(ns) + 1
      /\ \A j \in 1 .. i - 1 : r[j] = ns[j]
      /\ r[i] = Node(ns[i].at, size, ns[i].used)
      /\ r[i + 1] = Node(ns[i].at + size, ns[i].size - size, FALSE)
      /\ \A j \in i + 2 .. Len(ns) + 1 : r[j] = ns[j - 1]
  BY LenProperties DEF IsCut
<1>3. \A j \in i + 1 .. Len(ns) : j + 1 \in i + 2 .. Len(ns) + 1 /\ r[j + 1] = ns[j]
  <2> SUFFICES ASSUME NEW j \in i + 1 .. Len(ns)
               PROVE  j + 1 \in i + 2 .. Len(ns) + 1 /\ r[j + 1] = ns[j]
    OBVIOUS
  <2>1. j + 1 \in i + 2 .. Len(ns) + 1 /\ (j + 1) - 1 = j
    BY <1>1
  <2>2. QED
    BY <1>2, <2>1
<1>4. /\ r[i].at = ns[i].at /\ r[i].size = size /\ r[i].used /\ EndOf(r[i]) = ns[i].at + size
      /\ r[i + 1].at = ns[i].at + size /\ ~r[i + 1].used /\ EndOf(r[i + 1]) = EndOf(ns[i])
      /\ r[i + 1].size = ns[i].size - size
  <2>1. r[i].at = ns[i].at /\ r[i].size = size /\ r[i].used
    BY <1>2 DEF Node
  <2>2. r[i + 1].at = ns[i].at + size /\ ~r[i + 1].used /\ r[i + 1].size = ns[i].size - size
    BY <1>2 DEF Node
  <2>3. EndOf(r[i]) = ns[i].at + size /\ EndOf(r[i + 1]) = EndOf(ns[i])
    BY <1>1, <2>1, <2>2 DEF EndOf
  <2>4. QED
    BY <2>1, <2>2, <2>3
<1>5. Tiles(r, n)
  <2>1. r[1].at = 0
    <3>1. CASE i = 1
      BY <1>4, <3>1 DEF Tiles
    <3>2. CASE i # 1
      <4>1. 1 \in 1 .. i - 1
        BY <3>2
      <4>2. QED
        BY <1>2, <4>1 DEF Tiles
    <3>3. QED
      BY <3>1, <3>2
  <2>2. EndOf(r[Len(r)]) = n
    <3>1. CASE i = Len(ns)
      BY <1>2, <1>4, <3>1 DEF Tiles
    <3>2. CASE i # Len(ns)
      <4>1. Len(ns) \in i + 1 .. Len(ns)
        <5>1. Len(ns) \in Nat /\ i \in 1 .. Len(ns)
          BY <1>1
        <5>2. QED
          BY <5>1, <3>2
      <4>2. QED
        BY <1>2, <1>3, <4>1 DEF Tiles
    <3>3. QED
      BY <3>1, <3>2
  <2>3. ASSUME NEW j \in 1 .. Len(r) - 1
        PROVE  r[j + 1].at = EndOf(r[j])
    <3>1. j \in 1 .. Len(ns)
      BY <1>1, <1>2
    <3>2. CASE j < i - 1
      <4>1. j \in 1 .. i - 1 /\ j + 1 \in 1 .. i - 1 /\ j \in 1 .. Len(ns) - 1
        BY <1>1, <3>1, <3>2
      <4>2. QED
        BY <1>2, <4>1 DEF Tiles
    <3>3. CASE j = i - 1
      <4>1. j \in 1 .. i - 1 /\ j + 1 = i /\ j \in 1 .. Len(ns) - 1
        BY <1>1, <3>1, <3>3
      <4>2. ns[j + 1].at = EndOf(ns[j])
        BY <4>1 DEF Tiles
      <4>3. QED
        BY <1>2, <1>4, <4>1, <4>2
    <3>4. CASE j = i
      BY <1>4, <3>4
    <3>5. CASE j = i + 1
      <4>1. i \in 1 .. Len(ns) - 1 /\ i + 1 \in i + 1 .. Len(ns)
        BY <1>1, <3>1, <3>5
      <4>2. r[j + 1] = ns[i + 1]
        BY <1>3, <3>5, <4>1
      <4>3. ns[i + 1].at = EndOf(ns[i])
        BY <4>1 DEF Tiles
      <4>4. QED
        BY <1>4, <3>5, <4>2, <4>3
    <3>6. CASE i + 1 < j
      <4>1. j \in i + 1 .. Len(ns) /\ j - 1 \in i + 1 .. Len(ns) /\ (j - 1) + 1 = j /\ j - 1 \in 1 .. Len(ns) - 1
        BY <1>1, <3>1, <3>6
      <4>2. r[j + 1] = ns[j] /\ r[j] = ns[j - 1]
        <5>1. r[(j - 1) + 1] = ns[j - 1]
          BY <1>3, <4>1
        <5>2. QED
          BY <1>3, <4>1, <5>1
      <4>3. ns[(j - 1) + 1].at = EndOf(ns[j - 1])
        BY <4>1 DEF Tiles
      <4>4. QED
        BY <4>1, <4>2, <4>3
    <3>7. QED
      BY <3>1, <3>2, <3>3, <3>4, <3>5, <3>6
  <2>4. Len(r) > 0
    BY <1>1, <1>2
  <2>5. QED
    BY <1>2, <2>1, <2>2, <2>3, <2>4 DEF Tiles
<1>6. \A j \in 1 .. Len(ns) + 1 : j < i \/ j = i \/ j = i + 1 \/ (j \in i + 2 .. Len(ns) + 1 /\ j - 1 \in 1 .. Len(ns) /\ j - 1 # i)
  BY <1>1
<1>7. \A j \in 1 .. Len(ns) : j \in 1 .. i - 1 \/ j = i \/ j \in i + 1 .. Len(ns)
  BY <1>1
<1>8. \A j \in 1 .. Len(ns) + 1 : j < i => j \in 1 .. i - 1 /\ j \in 1 .. Len(ns)
  BY <1>1
<1>9. ASSUME NEW x
      PROVE  x \in UsedIn(r) <=> x \in (UsedIn(ns) \ {Block(ns[i].at, ns[i].size)}) \cup {Block(ns[i].at, size)}
  <2>1. x \in UsedIn(r) <=> \E j \in 1 .. Len(ns) + 1 : r[j].used /\ x = Block(r[j].at, r[j].size)
    BY <1>2, <1>5, UsedAt
  <2>2. x \in UsedIn(ns) <=> \E j \in 1 .. Len(ns) : ns[j].used /\ x = Block(ns[j].at, ns[j].size)
    BY UsedAt
  <2>3. \A j \in 1 .. Len(ns) : j # i => Block(ns[j].at, ns[j].size) # Block(ns[i].at, ns[i].size)
    BY CellsApart DEF Block
  <2>4. ASSUME x \in UsedIn(r)
        PROVE  x \in (UsedIn(ns) \ {Block(ns[i].at, ns[i].size)}) \cup {Block(ns[i].at, size)}
    <3>1. PICK j \in 1 .. Len(ns) + 1 : r[j].used /\ x = Block(r[j].at, r[j].size)
      BY <2>1, <2>4
    <3>2. CASE j < i
      <4>1. r[j] = ns[j] /\ j \in 1 .. Len(ns) /\ j # i
        BY <1>2, <1>8, <3>2
      <4>2. QED
        BY <2>2, <2>3, <3>1, <4>1
    <3>3. CASE j = i
      BY <1>4, <3>1, <3>3
    <3>4. CASE j = i + 1
      BY <1>4, <3>1, <3>4
    <3>5. CASE j \in i + 2 .. Len(ns) + 1 /\ j - 1 \in 1 .. Len(ns) /\ j - 1 # i
      <4>1. r[j] = ns[j - 1]
        BY <1>2, <3>5
      <4>2. QED
        BY <2>2, <2>3, <3>1, <3>5, <4>1
    <3>6. QED
      BY <1>6, <3>1, <3>2, <3>3, <3>4, <3>5
  <2>5. ASSUME x \in UsedIn(ns), x # Block(ns[i].at, ns[i].size)
        PROVE  x \in UsedIn(r)
    <3>1. PICK j \in 1 .. Len(ns) : ns[j].used /\ x = Block(ns[j].at, ns[j].size)
      BY <2>2, <2>5
    <3>2. j # i
      BY <2>5, <3>1
    <3>3. CASE j \in 1 .. i - 1
      <4>1. r[j] = ns[j] /\ j \in 1 .. Len(ns) + 1
        BY <1>1, <1>2, <3>3
      <4>2. QED
        BY <2>1, <3>1, <4>1
    <3>4. CASE j \in i + 1 .. Len(ns)
      <4>1. r[j + 1] = ns[j] /\ j + 1 \in 1 .. Len(ns) + 1
        BY <1>1, <1>3, <3>4
      <4>2. QED
        BY <2>1, <3>1, <4>1
    <3>5. QED
      BY <1>7, <3>1, <3>2, <3>3, <3>4
  <2>6. Block(ns[i].at, size) \in UsedIn(r)
    <3>1. i \in 1 .. Len(r)
      BY <1>1, <1>2
    <3>2. QED
      BY <1>4, <1>5, <3>1, UsedAt
  <2>7. QED
    BY <2>4, <2>5, <2>6
<1>10. ASSUME NEW c \in Nat
       PROVE  c \in FreeCells(r) <=> c \in FreeCells(ns) \cup Cells(Block(ns[i].at + size, ns[i].size - size))
  <2> DEFINE rest == Block(ns[i].at + size, ns[i].size - size)
  <2>1. c \in FreeCells(r) <=> \E j \in 1 .. Len(ns) + 1 : ~r[j].used /\ c \in Cells(r[j])
    BY <1>2 DEF FreeCells
  <2>2. c \in FreeCells(ns) <=> \E j \in 1 .. Len(ns) : ~ns[j].used /\ c \in Cells(ns[j])
    BY <1>1 DEF FreeCells
  <2>3. Cells(r[i + 1]) = Cells(rest)
    BY <1>4 DEF Cells, Block
  <2> HIDE DEF rest
  <2>4. ASSUME c \in FreeCells(r)
        PROVE  c \in FreeCells(ns) \cup Cells(rest)
    <3>1. PICK j \in 1 .. Len(ns) + 1 : ~r[j].used /\ c \in Cells(r[j])
      BY <2>1, <2>4
    <3>2. CASE j < i
      <4>1. r[j] = ns[j] /\ j \in 1 .. Len(ns)
        BY <1>2, <1>8, <3>2
      <4>2. QED
        BY <2>2, <3>1, <4>1
    <3>3. CASE j = i
      BY <1>4, <3>1, <3>3
    <3>4. CASE j = i + 1
      BY <2>3, <3>1, <3>4
    <3>5. CASE j \in i + 2 .. Len(ns) + 1 /\ j - 1 \in 1 .. Len(ns) /\ j - 1 # i
      <4>1. r[j] = ns[j - 1]
        BY <1>2, <3>5
      <4>2. QED
        BY <2>2, <3>1, <3>5, <4>1
    <3>6. QED
      BY <1>6, <3>1, <3>2, <3>3, <3>4, <3>5
  <2>5. ASSUME c \in FreeCells(ns)
        PROVE  c \in FreeCells(r)
    <3>1. PICK j \in 1 .. Len(ns) : ~ns[j].used /\ c \in Cells(ns[j])
      BY <2>2, <2>5
    <3>2. j # i
      BY <3>1
    <3>3. CASE j \in 1 .. i - 1
      <4>1. r[j] = ns[j] /\ j \in 1 .. Len(ns) + 1
        BY <1>1, <1>2, <3>3
      <4>2. QED
        BY <2>1, <3>1, <4>1
    <3>4. CASE j \in i + 1 .. Len(ns)
      <4>1. r[j + 1] = ns[j] /\ j + 1 \in 1 .. Len(ns) + 1
        BY <1>1, <1>3, <3>4
      <4>2. QED
        BY <2>1, <3>1, <4>1
    <3>5. QED
      BY <1>7, <3>1, <3>2, <3>3, <3>4
  <2>6. ASSUME c \in Cells(rest)
        PROVE  c \in FreeCells(r)
    <3>1. i + 1 \in 1 .. Len(ns) + 1
      BY <1>1
    <3>2. QED
      BY <1>4, <2>1, <2>3, <2>6, <3>1
  <2>7. QED
    BY <2>4, <2>5, <2>6 DEF rest
<1>11. /\ FreeCells(r) \subseteq Nat /\ FreeCells(ns) \subseteq Nat
       /\ Cells(Block(ns[i].at + size, ns[i].size - size)) \subseteq Nat
  BY DEF FreeCells, Cells
<1>12. QED
  BY <1>5, <1>9, <1>10, <1>11

(* What joining two free nodes does.                                       *)
LEMMA MergeKeeps ==
    ASSUME NEW ns, NEW n, Tiles(ns, n), NEW i \in 1 .. Len(ns), FreeAt(ns, i), FreeAt(ns, i + 1),
           NEW r, IsMerged(ns, i, r), i + 1 \in 1 .. Len(ns)
    PROVE  Tiles(r, n) /\ UsedIn(r) = UsedIn(ns) /\ FreeCells(r) = FreeCells(ns)
<1>1. /\ ns \in Seq(Nodes) /\ Len(ns) \in Nat \ {0} /\ DOMAIN ns = 1 .. Len(ns)
      /\ \A j \in 1 .. Len(ns) : ns[j].at \in Nat /\ ns[j].size \in Nat \ {0}
      /\ n \in Nat
  BY TileFacts
<1>2. /\ r \in Seq(Nodes) /\ Len(r) = Len(ns) - 1 /\ DOMAIN r = 1 .. Len(ns) - 1
      /\ \A j \in 1 .. i - 1 : r[j] = ns[j]
      /\ r[i] = Node(ns[i].at, ns[i].size + ns[i + 1].size, ns[i].used)
      /\ \A j \in i + 1 .. Len(ns) - 1 : r[j] = ns[j + 1]
  BY LenProperties DEF IsMerged
<1>3. i \in 1 .. Len(ns) - 1 /\ Len(ns) \in Nat
  BY <1>1
<1>4. ns[i + 1].at = EndOf(ns[i]) /\ ~ns[i].used /\ ~ns[i + 1].used
  BY <1>3 DEF Tiles, FreeAt
<1>5. r[i].at = ns[i].at /\ r[i].size = ns[i].size + ns[i + 1].size /\ ~r[i].used /\ EndOf(r[i]) = EndOf(ns[i + 1])
  <2>1. r[i].at = ns[i].at /\ r[i].size = ns[i].size + ns[i + 1].size /\ ~r[i].used
    BY <1>2, <1>4 DEF Node
  <2>2. ns[i].at \in Nat /\ ns[i].size \in Nat /\ ns[i + 1].size \in Nat
    BY <1>1
  <2>3. QED
    BY <1>4, <2>1, <2>2 DEF EndOf
<1>6. ASSUME NEW j \in 1 .. Len(ns) - 1
      PROVE  \/ j \in 1 .. i - 1 /\ r[j] = ns[j] /\ j \in 1 .. Len(ns)
             \/ j = i
             \/ j \in i + 1 .. Len(ns) - 1 /\ r[j] = ns[j + 1] /\ j + 1 \in 1 .. Len(ns)
  BY <1>2, <1>3
<1>7. ASSUME NEW j \in 1 .. Len(ns), ns[j].used
      PROVE  j \in 1 .. i - 1 \/ j - 1 \in i + 1 .. Len(ns) - 1
  <2>1. j # i /\ j # i + 1
    BY <1>4, <1>7
  <2>2. QED
    BY <1>3, <2>1
<1>8. Tiles(r, n)
  <2>1. r[1].at = 0
    <3>1. CASE i = 1
      BY <1>5, <3>1 DEF Tiles
    <3>2. CASE i # 1
      <4>1. 1 \in 1 .. i - 1
        BY <1>3, <3>2
      <4>2. QED
        BY <1>2, <4>1 DEF Tiles
    <3>3. QED
      BY <3>1, <3>2
  <2>2. EndOf(r[Len(r)]) = n
    <3>1. CASE i = Len(ns) - 1
      BY <1>2, <1>3, <1>5, <3>1 DEF Tiles
    <3>2. CASE i # Len(ns) - 1
      <4>1. Len(ns) - 1 \in i + 1 .. Len(ns) - 1 /\ (Len(ns) - 1) + 1 = Len(ns)
        BY <1>3, <3>2
      <4>2. QED
        BY <1>2, <4>1 DEF Tiles
    <3>3. QED
      BY <3>1, <3>2
  <2>3. ASSUME NEW j \in 1 .. Len(r) - 1
        PROVE  r[j + 1].at = EndOf(r[j])
    <3>1. j \in 1 .. Len(ns) - 2
      BY <1>2, <1>3
    <3>2. CASE j < i - 1
      <4>1. j \in 1 .. i - 1 /\ j + 1 \in 1 .. i - 1 /\ j \in 1 .. Len(ns) - 1
        BY <1>3, <3>1, <3>2
      <4>2. QED
        BY <1>2, <4>1 DEF Tiles
    <3>3. CASE j = i - 1
      <4>1. j \in 1 .. i - 1 /\ j + 1 = i /\ j \in 1 .. Len(ns) - 1
        BY <1>3, <3>1, <3>3
      <4>2. ns[j + 1].at = EndOf(ns[j])
        BY <4>1 DEF Tiles
      <4>3. QED
        BY <1>2, <1>5, <4>1, <4>2
    <3>4. CASE j = i
      <4>1. i + 1 \in i + 1 .. Len(ns) - 1 /\ i + 1 \in 1 .. Len(ns) - 1
        BY <1>3, <3>1, <3>4
      <4>2. r[j + 1] = ns[(i + 1) + 1]
        BY <1>2, <3>4, <4>1
      <4>3. ns[(i + 1) + 1].at = EndOf(ns[i + 1])
        BY <4>1 DEF Tiles
      <4>4. QED
        BY <1>5, <3>4, <4>2, <4>3
    <3>5. CASE i < j
      <4>1. j \in i + 1 .. Len(ns) - 1 /\ j + 1 \in i + 1 .. Len(ns) - 1 /\ j + 1 \in 1 .. Len(ns) - 1
        BY <1>3, <3>1, <3>5
      <4>2. r[j] = ns[j + 1] /\ r[j + 1] = ns[(j + 1) + 1]
        BY <1>2, <4>1
      <4>3. ns[(j + 1) + 1].at = EndOf(ns[j + 1])
        BY <4>1 DEF Tiles
      <4>4. QED
        BY <4>2, <4>3
    <3>6. QED
      BY <1>3, <3>1, <3>2, <3>3, <3>4, <3>5
  <2>4. Len(r) > 0
    BY <1>2, <1>3
  <2>5. QED
    BY <1>2, <2>1, <2>2, <2>3, <2>4 DEF Tiles
<1>9. ASSUME NEW x
      PROVE  x \in UsedIn(r) <=> x \in UsedIn(ns)
  <2>1. x \in UsedIn(r) <=> \E j \in 1 .. Len(ns) - 1 : r[j].used /\ x = Block(r[j].at, r[j].size)
    <3>1. x \in UsedIn(r) <=> \E j \in 1 .. Len(r) : r[j].used /\ x = Block(r[j].at, r[j].size)
      BY <1>8, UsedAt
    <3>2. QED
      BY <1>2, <3>1
  <2>2. x \in UsedIn(ns) <=> \E j \in 1 .. Len(ns) : ns[j].used /\ x = Block(ns[j].at, ns[j].size)
    BY UsedAt
  <2>3. x \in UsedIn(r) => x \in UsedIn(ns)
    BY <1>5, <1>6, <2>1, <2>2
  <2>4. ASSUME x \in UsedIn(ns)
        PROVE  x \in UsedIn(r)
    <3>1. PICK j \in 1 .. Len(ns) : ns[j].used /\ x = Block(ns[j].at, ns[j].size)
      BY <2>2, <2>4
    <3>2. CASE j \in 1 .. i - 1
      <4>1. r[j] = ns[j] /\ j \in 1 .. Len(ns) - 1
        BY <1>2, <1>3, <3>2
      <4>2. QED
        BY <2>1, <3>1, <4>1
    <3>3. CASE j - 1 \in i + 1 .. Len(ns) - 1
      <4>1. r[j - 1] = ns[(j - 1) + 1] /\ (j - 1) + 1 = j /\ j - 1 \in 1 .. Len(ns) - 1
        BY <1>2, <1>3, <3>3
      <4>2. QED
        BY <2>1, <3>1, <4>1
    <3>4. QED
      BY <1>7, <3>1, <3>2, <3>3
  <2>5. QED
    BY <2>3, <2>4
<1>10. ASSUME NEW c \in Nat
       PROVE  c \in FreeCells(r) <=> c \in FreeCells(ns)
  <2>1. c \in FreeCells(r) <=> \E j \in 1 .. Len(ns) - 1 : ~r[j].used /\ c \in Cells(r[j])
    BY <1>2 DEF FreeCells
  <2>2. c \in FreeCells(ns) <=> \E j \in 1 .. Len(ns) : ~ns[j].used /\ c \in Cells(ns[j])
    BY <1>1 DEF FreeCells
  <2>3. c \in Cells(r[i]) <=> c \in Cells(ns[i]) \/ c \in Cells(ns[i + 1])
    <3>1. ns[i].at \in Nat /\ ns[i].size \in Nat /\ ns[i + 1].size \in Nat
      BY <1>1
    <3>2. ns[i + 1].at = ns[i].at + ns[i].size
      BY <1>4 DEF EndOf
    <3>3. QED
      BY <1>5, <3>1, <3>2 DEF Cells
  <2>4. ASSUME c \in FreeCells(r)
        PROVE  c \in FreeCells(ns)
    <3>1. PICK j \in 1 .. Len(ns) - 1 : ~r[j].used /\ c \in Cells(r[j])
      BY <2>1, <2>4
    <3>2. CASE j = i
      BY <1>4, <2>2, <2>3, <3>1, <3>2
    <3>3. CASE j # i
      BY <1>6, <2>2, <3>1, <3>3
    <3>4. QED
      BY <3>2, <3>3
  <2>5. ASSUME c \in FreeCells(ns)
        PROVE  c \in FreeCells(r)
    <3>1. PICK j \in 1 .. Len(ns) : ~ns[j].used /\ c \in Cells(ns[j])
      BY <2>2, <2>5
    <3>2. CASE j = i \/ j = i + 1
      BY <1>3, <1>5, <2>1, <2>3, <3>1, <3>2
    <3>3. CASE j < i
      <4>1. j \in 1 .. i - 1 /\ j \in 1 .. Len(ns) - 1
        BY <1>3, <3>3
      <4>2. QED
        BY <1>2, <2>1, <3>1, <4>1
    <3>4. CASE i + 1 < j
      <4>1. j - 1 \in i + 1 .. Len(ns) - 1 /\ j - 1 \in 1 .. Len(ns) - 1 /\ (j - 1) + 1 = j
        BY <1>3, <3>4
      <4>2. r[j - 1] = ns[j]
        BY <1>2, <4>1
      <4>3. QED
        BY <2>1, <3>1, <4>1, <4>2
    <3>5. QED
      BY <1>3, <3>1, <3>2, <3>3, <3>4
  <2>6. QED
    BY <2>4, <2>5
<1>11. FreeCells(r) \subseteq Nat /\ FreeCells(ns) \subseteq Nat
  BY DEF FreeCells
<1>12. QED
  BY <1>8, <1>9, <1>10, <1>11

(* Joining at an index keeps what tiles the pool and takes the index off   *)
(* those where two free neighbours may be.                                 *)
LEMMA JoinedKeeps ==
    ASSUME NEW ns, NEW n, Tiles(ns, n), NEW i \in 0 .. Len(ns),
           NEW X, NEW Y, Apart(ns, X), X \subseteq Y \cup {i}, \A y \in Y : y < i
    PROVE  /\ Tiles(Joined(ns, i), n) /\ UsedIn(Joined(ns, i)) = UsedIn(ns)
           /\ FreeCells(Joined(ns, i)) = FreeCells(ns) /\ Apart(Joined(ns, i), Y)
           /\ i <= Len(Joined(ns, i))
<1>1. Len(ns) \in Nat \ {0} /\ DOMAIN ns = 1 .. Len(ns) /\ \A j \in 1 .. Len(ns) : ns[j].used \in BOOLEAN
  BY TileFacts
<1>2. CASE FreeAt(ns, i) /\ FreeAt(ns, i + 1)
  <2>1. i \in 1 .. Len(ns)
    BY <1>1, <1>2 DEF FreeAt
  <2>2. IsMerged(ns, i, Joined(ns, i)) /\ i + 1 \in 1 .. Len(ns)
    BY <1>2, <2>1, MergedIs
  <2>3. PICK r : r = Joined(ns, i)
    OBVIOUS
  <2>4. Tiles(r, n) /\ UsedIn(r) = UsedIn(ns) /\ FreeCells(r) = FreeCells(ns)
    BY <1>2, <2>1, <2>2, <2>3, MergeKeeps
  <2>5. /\ Len(r) = Len(ns) - 1 /\ \A j \in 1 .. i - 1 : r[j] = ns[j]
        /\ \A j \in i + 1 .. Len(ns) - 1 : r[j] = ns[j + 1]
    BY <2>2, <2>3 DEF IsMerged
  <2>6. ASSUME NEW j \in 1 .. Len(r) - 1
        PROVE  j \in Y \/ r[j].used \/ r[j + 1].used
    <3>1. j \in 1 .. Len(ns) - 2 /\ j \in 1 .. Len(ns) - 1 /\ Len(ns) \in Nat
      BY <1>1, <2>5
    <3>2. CASE j < i - 1
      <4>1. j \in 1 .. i - 1 /\ j + 1 \in 1 .. i - 1 /\ j # i
        BY <2>1, <3>1, <3>2
      <4>2. QED
        BY <2>5, <3>1, <4>1 DEF Apart
    <3>3. CASE j = i - 1
      <4>1. j \in 1 .. i - 1 /\ j + 1 = i /\ j # i
        BY <2>1, <3>1, <3>3
      <4>2. j \in X \/ ns[j].used \/ ns[i].used
        BY <3>1, <4>1 DEF Apart
      <4>3. ~ns[i].used
        BY <1>2 DEF FreeAt
      <4>4. QED
        BY <2>5, <4>1, <4>2, <4>3
    <3>4. CASE j = i
      <4>1. i + 1 \in 1 .. Len(ns) - 1 /\ i + 1 \in i + 1 .. Len(ns) - 1 /\ i + 1 \notin Y \cup {i}
        BY <2>1, <3>1, <3>4
      <4>2. ns[i + 1].used \/ ns[(i + 1) + 1].used
        BY <4>1 DEF Apart
      <4>3. ~ns[i + 1].used
        BY <1>2 DEF FreeAt
      <4>4. QED
        BY <2>5, <3>4, <4>1, <4>2, <4>3
    <3>5. CASE i < j
      <4>1. /\ j \in i + 1 .. Len(ns) - 1 /\ j + 1 \in i + 1 .. Len(ns) - 1 /\ j + 1 \in 1 .. Len(ns) - 1
            /\ j + 1 \notin Y \cup {i}
        BY <2>1, <3>1, <3>5
      <4>2. ns[j + 1].used \/ ns[(j + 1) + 1].used
        BY <4>1 DEF Apart
      <4>3. QED
        BY <2>5, <4>1, <4>2
    <3>6. QED
      BY <2>1, <3>1, <3>2, <3>3, <3>4, <3>5
  <2>7. i <= Len(r)
    BY <1>1, <2>2, <2>5
  <2>8. QED
    BY <2>3, <2>4, <2>6, <2>7 DEF Apart
<1>3. CASE ~(FreeAt(ns, i) /\ FreeAt(ns, i + 1))
  <2>1. Joined(ns, i) = ns
    BY <1>3 DEF Joined
  <2>2. ASSUME NEW j \in 1 .. Len(ns) - 1
        PROVE  j \in Y \/ ns[j].used \/ ns[j + 1].used
    <3>1. CASE j = i
      <4>1. j \in DOMAIN ns /\ j + 1 \in DOMAIN ns
        BY <1>1
      <4>2. QED
        BY <1>3, <3>1, <4>1 DEF FreeAt
    <3>2. CASE j # i
      BY <3>2 DEF Apart
    <3>3. QED
      BY <3>1, <3>2
  <2>3. QED
    BY <1>1, <2>1, <2>2 DEF Apart
<1>4. QED
  BY <1>2, <1>3

(* Cells of blocks, and numbers of cells.                                  *)
LEMMA CellCount ==
    ASSUME NEW at \in Nat, NEW size \in Nat \ {0}
    PROVE  IsFiniteSet(Cells(Block(at, size))) /\ Cardinality(Cells(Block(at, size))) = size
<1>1. Cells(Block(at, size)) = at .. at + size - 1
  BY DEF Cells, Block
<1>2. PICK a, b \in Int : a = at /\ b = at + size - 1
  OBVIOUS
<1>3. IsFiniteSet(a .. b) /\ Cardinality(a .. b) = IF a > b THEN 0 ELSE b - a + 1
  BY FS_Interval
<1>4. QED
  BY <1>1, <1>2, <1>3

(* The number of members of two disjoint sets.                             *)
LEMMA PartCount ==
    ASSUME NEW S, IsFiniteSet(S), NEW T, IsFiniteSet(T), S \cap T = {}
    PROVE  Cardinality(S \cup T) = Cardinality(S) + Cardinality(T)
<1>1. Cardinality(S \cup T) = Cardinality(S) + Cardinality(T) - Cardinality(S \cap T)
  BY FS_Union
<1>2. Cardinality(S) \in Nat /\ Cardinality(T) \in Nat
  BY FS_CardinalityType
<1>3. Cardinality(S \cap T) = 0
  BY FS_EmptySet
<1>4. QED
  BY <1>1, <1>2, <1>3

(* The first free node large enough.                                       *)
FirstFit(p, size) == Min(Fitting(p, size))

(* smalloc takes a free node that is large enough.                         *)
LEMMA FitIs ==
    ASSUME NEW p, NEW n, PoolOk(p, n), NEW size, Fitting(p, size) # {}
    PROVE  /\ FirstFit(p, size) \in 1 .. Len(p.nodes)
           /\ ~p.nodes[FirstFit(p, size)].used /\ size <= p.nodes[FirstFit(p, size)].size
<1>1. DOMAIN p.nodes = 1 .. Len(p.nodes) /\ Len(p.nodes) \in Nat
  BY TileFacts DEF PoolOk
<1>2. Fitting(p, size) \subseteq Nat
  BY <1>1 DEF Fitting
<1>3. FirstFit(p, size) \in Fitting(p, size)
  BY <1>2, LowestOf DEF FirstFit
<1>4. QED
  BY <1>1, <1>3 DEF Fitting

(* A block taken: it was not in use, and the rest is as it was.            *)
LEMMA AllocIs ==
    ASSUME NEW p, NEW n, PoolOk(p, n), NEW size \in Nat \ {0}, Fitting(p, size) # {}
    PROVE  /\ PoolOk(smalloc(p, size), n)
           /\ UsedIn(smalloc(p, size).nodes) = UsedIn(p.nodes) \cup {Found(p, size)}
           /\ Found(p, size) \notin UsedIn(p.nodes) /\ Found(p, size) \in Blocks
<1>1. PICK ns, i : ns = p.nodes /\ i = FirstFit(p, size)
  OBVIOUS
<1> DEFINE t == Marked(ns, i, TRUE)
           r == mntruncate(t, i, size)
           b == Block(ns[i].at, size)
<1>2. Tiles(ns, n) /\ Apart(ns, {}) /\ p.avail = Cardinality(FreeCells(ns))
  BY <1>1 DEF PoolOk
<1>3. i \in 1 .. Len(ns) /\ ~ns[i].used /\ size <= ns[i].size
  BY <1>1, FitIs
<1>4. /\ Len(ns) \in Nat \ {0} /\ ns[i].at \in Nat /\ ns[i].size \in Nat \ {0} /\ DOMAIN ns = 1 .. Len(ns)
      /\ \A j \in 1 .. Len(ns) : ns[j].used \in BOOLEAN
  BY <1>2, <1>3, TileFacts
<1>5. /\ Tiles(t, n) /\ Len(t) = Len(ns) /\ \A j \in 1 .. Len(ns) : j # i => t[j] = ns[j]
      /\ t[i] = Node(ns[i].at, ns[i].size, TRUE)
  BY <1>2, <1>3, MarkIs
<1>6. /\ UsedIn(t) = UsedIn(ns) \cup {Block(ns[i].at, ns[i].size)}
      /\ FreeCells(t) = FreeCells(ns) \ Cells(ns[i])
  BY <1>2, <1>3, MarkUsed
<1> HIDE DEF t
<1>7. t[i].used /\ t[i].at = ns[i].at /\ t[i].size = ns[i].size /\ DOMAIN t = 1 .. Len(ns)
  <2>1. t[i].used /\ t[i].at = ns[i].at /\ t[i].size = ns[i].size
    BY <1>5 DEF Node
  <2>2. DOMAIN t = 1 .. Len(ns)
    BY <1>5, TileFacts
  <2>3. QED
    BY <2>1, <2>2
<1>8. smalloc(p, size).nodes = r /\ smalloc(p, size).avail = p.avail - size /\ Found(p, size) = b
  BY <1>1 DEF smalloc, Found, FirstFit, Marked, t
<1> HIDE DEF r
<1>9. ASSUME NEW j \in 1 .. Len(ns)
      PROVE  Block(ns[j].at, ns[j].size).at = ns[i].at => j = i
  BY <1>2, <1>3, CellsApart DEF Block
<1>10. ASSUME NEW x \in UsedIn(ns)
       PROVE  x.at # ns[i].at
  <2>1. PICK j \in 1 .. Len(ns) : ns[j].used /\ x = Block(ns[j].at, ns[j].size)
    BY <1>2, UsedAt
  <2>2. QED
    BY <1>3, <1>9, <2>1
<1>11. Block(ns[i].at, ns[i].size) \notin UsedIn(ns) /\ b \notin UsedIn(ns)
  BY <1>10 DEF Block
<1>12. Cells(b) \subseteq Cells(ns[i]) /\ Cells(ns[i]) \subseteq FreeCells(ns)
  BY <1>3, <1>4 DEF Cells, Block, FreeCells
<1>13. /\ Tiles(r, n) /\ Apart(r, {}) /\ UsedIn(r) = UsedIn(ns) \cup {b}
       /\ FreeCells(r) = FreeCells(ns) \ Cells(b)
  <2>1. CASE ns[i].size = size
    <3>1. r = t
      <4>1. t[i].size - size = 0
        BY <1>7, <2>1
      <4>2. QED
        BY <4>1 DEF r, mntruncate
    <3>2. Apart(t, {})
      <4>1. ASSUME NEW j \in 1 .. Len(t) - 1
            PROVE  t[j].used \/ t[j + 1].used
        <5>1. j \in 1 .. Len(ns) - 1 /\ j \in 1 .. Len(ns) /\ j + 1 \in 1 .. Len(ns)
          BY <1>4, <1>5
        <5>2. ns[j].used \/ ns[j + 1].used
          BY <1>2, <5>1 DEF Apart
        <5>3. QED
          BY <1>5, <1>7, <5>1, <5>2
      <4>2. QED
        BY <4>1 DEF Apart
    <3>3. Cells(b) = Cells(ns[i])
      BY <2>1 DEF Cells, Block
    <3>4. QED
      BY <1>5, <1>6, <2>1, <3>1, <3>2, <3>3
  <2>2. CASE size < ns[i].size
    <3>1. ~FreeAt(t, i + 1)
      <4>1. ASSUME i + 1 \in 1 .. Len(ns)
            PROVE  t[i + 1].used
        <5>1. i \in 1 .. Len(ns) - 1 /\ i + 1 # i
          BY <1>3, <1>4, <4>1
        <5>2. ns[i + 1].used
          BY <1>2, <1>3, <5>1 DEF Apart
        <5>3. QED
          BY <1>5, <4>1, <5>1, <5>2
      <4>2. QED
        BY <1>7, <4>1 DEF FreeAt
    <3>2. IsCut(t, i, size, r)
      BY <1>3, <1>5, <1>7, <2>2, <3>1, CutIs DEF r
    <3>3. /\ Tiles(r, n)
          /\ UsedIn(r) = (UsedIn(t) \ {Block(t[i].at, t[i].size)}) \cup {Block(t[i].at, size)}
          /\ FreeCells(r) = FreeCells(t) \cup Cells(Block(t[i].at + size, t[i].size - size))
      <4>1. i \in 1 .. Len(t) /\ t[i].used /\ size < t[i].size /\ Tiles(t, n)
        BY <1>3, <1>5, <1>7, <2>2
      <4>2. PICK w : w = r
        OBVIOUS
      <4>3. IsCut(t, i, size, w)
        BY <3>2, <4>2
      <4>4. QED
        BY <4>1, <4>2, <4>3, CutKeeps
    <3>4. UsedIn(r) = UsedIn(ns) \cup {b}
      BY <1>6, <1>7, <1>11, <3>3
    <3>5. FreeCells(r) = FreeCells(ns) \ Cells(b)
      <4>1. ASSUME NEW c \in Nat
            PROVE  /\ c \in Cells(ns[i]) <=> ns[i].at <= c /\ c < ns[i].at + ns[i].size
                   /\ c \in Cells(b) <=> ns[i].at <= c /\ c < ns[i].at + size
                   /\ c \in Cells(Block(ns[i].at + size, ns[i].size - size)) <=>
                          ns[i].at + size <= c /\ c < ns[i].at + ns[i].size
        BY <1>4 DEF Cells, Block
      <4>2. ASSUME NEW c \in Nat
            PROVE  c \in Cells(Block(ns[i].at + size, ns[i].size - size)) <=> c \in Cells(ns[i]) /\ c \notin Cells(b)
        BY <1>4, <2>2, <4>1
      <4>3. Cells(Block(ns[i].at + size, ns[i].size - size)) = Cells(ns[i]) \ Cells(b)
        <5>1. Cells(Block(ns[i].at + size, ns[i].size - size)) \subseteq Nat /\ Cells(ns[i]) \subseteq Nat
          BY DEF Cells
        <5>2. QED
          BY <4>2, <5>1
      <4>4. FreeCells(r) = FreeCells(t) \cup (Cells(ns[i]) \ Cells(b))
        BY <1>7, <3>3, <4>3
      <4>5. QED
        BY <1>6, <1>12, <4>4
    <3>6. Apart(r, {})
      <4>1. /\ Len(r) = Len(ns) + 1 /\ \A j \in 1 .. i - 1 : r[j] = t[j]
            /\ r[i] = Node(t[i].at, size, t[i].used)
            /\ \A j \in i + 2 .. Len(ns) + 1 : r[j] = t[j - 1]
        BY <1>5, <3>2 DEF IsCut
      <4>2. r[i].used
        BY <1>7, <4>1 DEF Node
      <4>3. ASSUME NEW j \in 1 .. Len(r) - 1
            PROVE  r[j].used \/ r[j + 1].used
        <5>1. j \in 1 .. Len(ns) /\ Len(ns) \in Nat /\ i \in 1 .. Len(ns)
          BY <1>3, <1>4, <4>1
        <5>2. CASE j < i - 1
          <6>1. j \in 1 .. i - 1 /\ j + 1 \in 1 .. i - 1 /\ j \in 1 .. Len(ns) - 1
            BY <5>1, <5>2
          <6>2. ns[j].used \/ ns[j + 1].used
            BY <1>2, <6>1 DEF Apart
          <6>3. t[j] = ns[j] /\ t[j + 1] = ns[j + 1]
            <7>1. j # i /\ j + 1 # i /\ j + 1 \in 1 .. Len(ns)
              BY <5>1, <6>1
            <7>2. QED
              BY <1>5, <5>1, <7>1
          <6>4. QED
            BY <4>1, <6>1, <6>2, <6>3
        <5>3. CASE j = i - 1 \/ j = i
          BY <4>2, <5>1, <5>3
        <5>4. CASE j = i + 1
          <6>1. i + 2 \in i + 2 .. Len(ns) + 1 /\ i \in 1 .. Len(ns) - 1 /\ j + 1 = i + 2 /\ (i + 2) - 1 = i + 1
                /\ i + 1 \in 1 .. Len(ns) /\ i + 1 # i
            BY <5>1, <5>4
          <6>2. r[j + 1] = t[i + 1]
            BY <4>1, <6>1
          <6>3. ns[i + 1].used
            BY <1>2, <1>3, <6>1 DEF Apart
          <6>4. QED
            BY <1>5, <6>1, <6>2, <6>3
        <5>5. CASE i + 1 < j
          <6>1. /\ j \in i + 2 .. Len(ns) + 1 /\ j + 1 \in i + 2 .. Len(ns) + 1 /\ (j + 1) - 1 = j
                /\ j - 1 \in 1 .. Len(ns) - 1 /\ (j - 1) + 1 = j
                /\ j # i /\ j - 1 # i /\ j - 1 \in 1 .. Len(ns)
            BY <5>1, <5>5
          <6>2. r[j] = t[j - 1] /\ r[j + 1] = t[j]
            <7>1. r[j + 1] = t[(j + 1) - 1]
              BY <4>1, <6>1
            <7>2. QED
              BY <4>1, <6>1, <7>1
          <6>3. ns[j - 1].used \/ ns[(j - 1) + 1].used
            BY <1>2, <6>1 DEF Apart
          <6>4. QED
            BY <1>5, <5>1, <6>1, <6>2, <6>3
        <5>6. QED
          BY <5>1, <5>2, <5>3, <5>4, <5>5
      <4>4. QED
        BY <4>3 DEF Apart
    <3>7. QED
      BY <3>3, <3>4, <3>5, <3>6
  <2>3. QED
    BY <1>3, <1>4, <2>1, <2>2
<1>14. Cardinality(FreeCells(r)) = p.avail - size
  <2>1. IsFiniteSet(FreeCells(ns)) /\ IsFiniteSet(FreeCells(r))
    BY <1>2, <1>13, CellsFinite
  <2>2. IsFiniteSet(Cells(b)) /\ Cardinality(Cells(b)) = size
    BY <1>4, CellCount
  <2>3. FreeCells(r) \cap Cells(b) = {} /\ FreeCells(r) \cup Cells(b) = FreeCells(ns)
    BY <1>12, <1>13
  <2>4. Cardinality(FreeCells(ns)) = Cardinality(FreeCells(r)) + size
    <3> HIDE DEF b
    <3> QED  BY <2>1, <2>2, <2>3, PartCount
  <2>5. Cardinality(FreeCells(r)) \in Nat
    BY <2>1, FS_CardinalityType
  <2>6. QED
    BY <1>2, <2>4, <2>5
<1>15. b \in Blocks
  BY <1>4 DEF Blocks, Block
<1>16. QED
  BY <1>1, <1>8, <1>11, <1>13, <1>14, <1>15 DEF PoolOk

(* A block given back.                                                     *)
LEMMA FreeIs ==
    ASSUME NEW p, NEW n, PoolOk(p, n), NEW b \in UsedIn(p.nodes)
    PROVE  PoolOk(smfree(p, b), n) /\ UsedIn(smfree(p, b).nodes) = UsedIn(p.nodes) \ {b}
<1>1. PICK ns : ns = p.nodes
  OBVIOUS
<1>2. Tiles(ns, n) /\ Apart(ns, {}) /\ p.avail = Cardinality(FreeCells(ns))
  BY <1>1 DEF PoolOk
<1>3. DOMAIN ns = 1 .. Len(ns) /\ Len(ns) \in Nat
  BY <1>2, TileFacts
<1>4. PICK i \in 1 .. Len(ns) : ns[i].used /\ b = Block(ns[i].at, ns[i].size)
  BY <1>1, <1>2, UsedAt
<1>5. b.at = ns[i].at
  BY <1>4 DEF Block
<1> DEFINE at == {j \in DOMAIN ns : ns[j].at = b.at /\ ns[j].used}
<1>6. \A j \in 1 .. Len(ns) : ns[j].at = b.at => j = i
  BY <1>2, <1>5, CellsApart
<1>7. at # {} /\ at \subseteq Nat /\ \A j \in at : j = i
  BY <1>3, <1>4, <1>5, <1>6
<1> HIDE DEF at
<1>8. Min(at) = i
  BY <1>7, LowestOf
<1> DEFINE t == Marked(ns, i, FALSE)
           u == Joined(t, i)
           r == Joined(u, i - 1)
<1>9. smfree(p, b).nodes = r /\ smfree(p, b).avail = p.avail + ns[i].size
  BY <1>1, <1>7, <1>8 DEF smfree, JoinedBoth, Marked, at
<1>10. /\ Tiles(t, n) /\ Len(t) = Len(ns) /\ \A j \in 1 .. Len(ns) : j # i => t[j] = ns[j]
  BY <1>2, MarkIs
<1>11. /\ UsedIn(t) = UsedIn(ns) \ {b}
       /\ FreeCells(t) = FreeCells(ns) \cup Cells(ns[i]) /\ FreeCells(ns) \cap Cells(ns[i]) = {}
  BY <1>2, <1>4, MarkFree
<1> HIDE DEF t
<1>12. Apart(t, {i - 1, i})
  <2>1. ASSUME NEW j \in 1 .. Len(t) - 1, j # i - 1, j # i
        PROVE  t[j].used \/ t[j + 1].used
    <3>1. j \in 1 .. Len(ns) - 1 /\ j \in 1 .. Len(ns) /\ j + 1 \in 1 .. Len(ns) /\ j + 1 # i
      BY <1>3, <1>10, <2>1
    <3>2. ns[j].used \/ ns[j + 1].used
      BY <1>2, <3>1 DEF Apart
    <3>3. QED
      BY <1>10, <2>1, <3>1, <3>2
  <2>2. QED
    BY <2>1 DEF Apart
<1>13. PICK X, Y, Z : X = {i - 1, i} /\ Y = {i - 1} /\ Z = {}
  OBVIOUS
<1>14. /\ Tiles(u, n) /\ UsedIn(u) = UsedIn(t) /\ FreeCells(u) = FreeCells(t) /\ Apart(u, Y)
       /\ i <= Len(u)
  <2>1. i \in 0 .. Len(t) /\ Apart(t, X) /\ X \subseteq Y \cup {i} /\ \A y \in Y : y < i
    BY <1>3, <1>10, <1>12, <1>13
  <2>2. QED
    BY <1>10, <2>1, JoinedKeeps
<1> HIDE DEF u
<1>15. /\ Tiles(r, n) /\ UsedIn(r) = UsedIn(u) /\ FreeCells(r) = FreeCells(u) /\ Apart(r, Z)
  <2>1. PICK h : h = i - 1
    OBVIOUS
  <2>2. h \in 0 .. Len(u) /\ Y \subseteq Z \cup {h} /\ \A z \in Z : z < h
    <3>1. Len(u) \in Nat
      BY <1>14, TileFacts
    <3>2. QED
      BY <1>13, <1>14, <2>1, <3>1
  <2>3. QED
    BY <1>14, <2>1, <2>2, JoinedKeeps
<1> HIDE DEF r
<1>16. Cardinality(FreeCells(r)) = p.avail + ns[i].size
  <2>1. ns[i].at \in Nat /\ ns[i].size \in Nat \ {0}
    BY <1>2, TileFacts
  <2>2. Cells(ns[i]) = Cells(Block(ns[i].at, ns[i].size))
    BY DEF Cells, Block
  <2>3. IsFiniteSet(Cells(ns[i])) /\ Cardinality(Cells(ns[i])) = ns[i].size
    BY <2>1, <2>2, CellCount
  <2>4. IsFiniteSet(FreeCells(ns))
    BY <1>2, CellsFinite
  <2>5. Cardinality(FreeCells(ns) \cup Cells(ns[i])) = Cardinality(FreeCells(ns)) + Cardinality(Cells(ns[i]))
    BY <1>11, <2>3, <2>4, PartCount
  <2>6. QED
    BY <1>2, <1>11, <1>14, <1>15, <2>3, <2>5
<1>17. QED
  BY <1>1, <1>9, <1>11, <1>13, <1>14, <1>15, <1>16 DEF PoolOk

(***************************************************************************)
(* Blocks given back one by one, and the sum of sizes.                     *)
(***************************************************************************)
Chosen(s) == CHOOSE x \in s : TRUE
FreeStep(f, p, s) == IF s = {} THEN p ELSE smfree(f[s \ {Chosen(s)}], Chosen(s))
Frees(p, S) == CHOOSE f : f = [s \in SUBSET S |-> FreeStep(f, p, s)]

(* One block of a set, and what is left.                                   *)
LEMMA ChosenIs ==
    ASSUME NEW S, IsFiniteSet(S), NEW s \in SUBSET S, s # {}
    PROVE  /\ Chosen(s) \in s /\ s \ {Chosen(s)} \in SUBSET S
           /\ IsFiniteSet(s) /\ Cardinality(s) \in Nat \ {0}
           /\ Cardinality(s \ {Chosen(s)}) = Cardinality(s) - 1
<1>1. Chosen(s) \in s
  BY DEF Chosen
<1>2. IsFiniteSet(s)
  BY FS_Subset
<1>3. Cardinality(s) \in Nat /\ Cardinality(s) # 0
  BY <1>2, FS_CardinalityType, FS_EmptySet
<1>4. Cardinality(s \ {Chosen(s)}) = Cardinality(s) - 1
  BY <1>1, <1>2, FS_RemoveElement
<1>5. QED
  BY <1>1, <1>2, <1>3, <1>4

(* The recursion of the fold has a solution.                               *)
LEMMA FreesIs ==
    ASSUME NEW p, NEW S, IsFiniteSet(S)
    PROVE  /\ FreeBlocks(p, S) = Frees(p, S)[S]
           /\ \A s \in SUBSET S : Frees(p, S)[s] = FreeStep(Frees(p, S), p, s)
<1> DEFINE Good(g, k) == /\ g = [s \in SUBSET S |-> g[s]]
                         /\ \A s \in SUBSET S : Cardinality(s) <= k => g[s] = FreeStep(g, p, s)
           B == {k \in Nat : \E g : Good(g, k)}
<1>1. FreeBlocks(p, S) = Frees(p, S)[S]
  BY DEF FreeBlocks, FoldSet, MapThenFoldSet, Frees, FreeStep, Chosen
<1>2. \A s \in SUBSET S : Cardinality(s) \in Nat /\ Cardinality(s) <= Cardinality(S)
  BY FS_Subset, FS_CardinalityType
<1>3. Cardinality(S) \in Nat
  BY FS_CardinalityType
<1>4. 0 \in B
  <2> DEFINE g == [s \in SUBSET S |-> p]
  <2>1. ASSUME NEW s \in SUBSET S, Cardinality(s) <= 0
        PROVE  g[s] = FreeStep(g, p, s)
    <3>1. s = {}
      <4>1. IsFiniteSet(s) /\ Cardinality(s) = 0
        BY <1>2, <2>1, FS_Subset
      <4>2. QED
        BY <4>1, FS_EmptySet
    <3>2. QED
      BY <3>1 DEF FreeStep
  <2>2. g = [s \in SUBSET S |-> g[s]]
    OBVIOUS
  <2> HIDE DEF g
  <2>3. QED
    BY <2>1, <2>2
<1>5. ASSUME NEW k \in 1 .. Cardinality(S), k - 1 \in B
      PROVE  k \in B
  <2>1. PICK g : Good(g, k - 1)
    BY <1>5
  <2> DEFINE h == [s \in SUBSET S |-> IF Cardinality(s) <= k - 1 THEN g[s] ELSE FreeStep(g, p, s)]
  <2>2. ASSUME NEW s \in SUBSET S, Cardinality(s) <= k
        PROVE  h[s] = FreeStep(h, p, s)
    <3>1. h[s] = FreeStep(g, p, s)
      BY <2>1
    <3>2. FreeStep(h, p, s) = FreeStep(g, p, s)
      <4>1. CASE s = {}
        BY <4>1 DEF FreeStep
      <4>2. CASE s # {}
        <5>1. /\ s \ {Chosen(s)} \in SUBSET S /\ Cardinality(s \ {Chosen(s)}) = Cardinality(s) - 1
              /\ Cardinality(s) \in Nat
          BY <4>2, ChosenIs
        <5>2. Cardinality(s \ {Chosen(s)}) <= k - 1
          BY <2>2, <5>1
        <5>3. h[s \ {Chosen(s)}] = g[s \ {Chosen(s)}]
          BY <5>1, <5>2
        <5>4. QED
          <6> HIDE DEF h
          <6> QED  BY <5>3 DEF FreeStep
      <4>3. QED
        BY <4>1, <4>2
    <3>3. QED
      BY <3>1, <3>2
  <2>3. h = [s \in SUBSET S |-> h[s]]
    OBVIOUS
  <2> HIDE DEF h
  <2>4. Good(h, k)
    BY <2>2, <2>3
  <2>5. k \in Nat
    OBVIOUS
  <2>6. QED
    <3> HIDE DEF Good
    <3> QED  BY <2>4, <2>5
<1>6. Cardinality(S) \in B
  <2>1. Cardinality(S) \in 0 .. Cardinality(S)
    BY <1>3
  <2> HIDE DEF B
  <2>2. QED
    BY <1>3, <1>4, <1>5, <2>1, UpTheSteps
<1>7. PICK g : Good(g, Cardinality(S))
  BY <1>6
<1>8. \A s \in SUBSET S : g[s] = FreeStep(g, p, s)
  BY <1>2, <1>7
<1>9. g = [s \in SUBSET S |-> FreeStep(g, p, s)]
  BY <1>7, <1>8
<1>10. PICK w : w = Frees(p, S)
  OBVIOUS
<1>11. w = [s \in SUBSET S |-> FreeStep(w, p, s)]
  BY <1>9, <1>10 DEF Frees
<1>12. ASSUME NEW s \in SUBSET S
       PROVE  w[s] = FreeStep(w, p, s)
  <2>1. [x \in SUBSET S |-> FreeStep(w, p, x)][s] = FreeStep(w, p, s)
    OBVIOUS
  <2>2. QED
    BY <1>11, <2>1
<1>13. QED
  BY <1>1, <1>10, <1>12

(* The blocks in use and the free nodes are finite sets.                   *)
LEMMA UsedFinite ==
    ASSUME NEW ns, NEW n, Tiles(ns, n)
    PROVE  IsFiniteSet(UsedIn(ns)) /\ IsFiniteSet({m \in ToSet(ns) : ~m.used})
<1>1. Len(ns) \in Nat /\ DOMAIN ns = 1 .. Len(ns)
  BY TileFacts
<1>2. PICK b : b = Len(ns)
  OBVIOUS
<1>3. b \in Int /\ 1 \in Int
  BY <1>1, <1>2
<1>4. IsFiniteSet(1 .. Len(ns))
  BY <1>2, <1>3, FS_Interval
<1> DEFINE U == {i \in 1 .. Len(ns) : ns[i].used}
           V == {i \in 1 .. Len(ns) : ~ns[i].used}
           f == [i \in U |-> Block(ns[i].at, ns[i].size)]
           g == [i \in V |-> ns[i]]
           F == {m \in ToSet(ns) : ~m.used}
<1>5. IsFiniteSet(U) /\ IsFiniteSet(V)
  BY <1>4, FS_Subset
<1>6. f \in Surjection(U, UsedIn(ns))
  <2>1. f \in [U -> UsedIn(ns)]
    BY UsedAt
  <2>2. \A b1 \in UsedIn(ns) : \E i \in U : f[i] = b1
    BY UsedAt
  <2>3. QED
    BY <2>1, <2>2 DEF Surjection
<1>7. g \in Surjection(V, F)
  <2>1. g \in [V -> F]
    BY <1>1 DEF ToSet
  <2>2. \A m \in F : \E i \in V : g[i] = m
    BY <1>1 DEF ToSet
  <2>3. QED
    BY <2>1, <2>2 DEF Surjection
<1> HIDE DEF f, g, U, V
<1>8. QED
  BY <1>5, <1>6, <1>7, FS_Surjection

(* Blocks in use given back, in whatever order.                            *)
LEMMA FreeAll ==
    ASSUME NEW p, NEW n, PoolOk(p, n), NEW S, S \subseteq UsedIn(p.nodes)
    PROVE  PoolOk(FreeBlocks(p, S), n) /\ UsedIn(FreeBlocks(p, S).nodes) = UsedIn(p.nodes) \ S
<1>1. IsFiniteSet(S)
  <2>1. IsFiniteSet(UsedIn(p.nodes))
    BY UsedFinite DEF PoolOk
  <2>2. QED
    BY <2>1, FS_Subset
<1>2. PICK w : w = Frees(p, S)
  OBVIOUS
<1>3. FreeBlocks(p, S) = w[S] /\ \A s \in SUBSET S : w[s] = FreeStep(w, p, s)
  BY <1>1, <1>2, FreesIs
<1> DEFINE Freed(s) == PoolOk(w[s], n) /\ UsedIn(w[s].nodes) = UsedIn(p.nodes) \ s
           B == {k \in Nat : \A s \in SUBSET S : Cardinality(s) = k => Freed(s)}
<1>4. 0 \in B
  <2>1. ASSUME NEW s \in SUBSET S, Cardinality(s) = 0
        PROVE  Freed(s)
    <3>1. s = {}
      BY <1>1, <2>1, FS_Subset, FS_EmptySet
    <3>2. w[s] = p
      BY <1>3, <3>1 DEF FreeStep
    <3>3. QED
      BY <3>1, <3>2
  <2> HIDE DEF Freed
  <2>2. QED
    BY <2>1
<1>5. ASSUME NEW k \in 1 .. Cardinality(S), k - 1 \in B
      PROVE  k \in B
  <2>1. ASSUME NEW s \in SUBSET S, Cardinality(s) = k
        PROVE  Freed(s)
    <3>1. s # {}
      BY <2>1, FS_EmptySet
    <3>2. PICK x, r : x = Chosen(s) /\ r = s \ {x}
      OBVIOUS
    <3>3. x \in s /\ r \in SUBSET S /\ Cardinality(r) = k - 1
      BY <1>1, <2>1, <3>1, <3>2, ChosenIs
    <3>4. Freed(r)
      <4> HIDE DEF Freed
      <4> QED  BY <1>5, <3>3
    <3>5. w[s] = smfree(w[r], x)
      BY <1>3, <3>1, <3>2 DEF FreeStep
    <3>6. x \in UsedIn(w[r].nodes)
      BY <3>2, <3>3, <3>4
    <3>7. PoolOk(smfree(w[r], x), n) /\ UsedIn(smfree(w[r], x).nodes) = UsedIn(w[r].nodes) \ {x}
      BY <3>4, <3>6, FreeIs
    <3>8. QED
      BY <3>2, <3>3, <3>4, <3>5, <3>7
  <2> HIDE DEF Freed
  <2>2. QED
    BY <2>1
<1>6. Cardinality(S) \in B
  <2>1. Cardinality(S) \in Nat /\ Cardinality(S) \in 0 .. Cardinality(S)
    BY <1>1, FS_CardinalityType
  <2> HIDE DEF B
  <2>2. QED
    BY <1>4, <1>5, <2>1, UpTheSteps
<1>7. Freed(S)
  <2> HIDE DEF Freed
  <2> QED  BY <1>6
<1>8. QED
  BY <1>3, <1>7

(* The sum of the sizes of free nodes is the number of free cells.         *)
CellsOf(s) == {c \in Nat : \E m \in s : c \in Cells(m)}
SumStep(f, s) == IF s = {} THEN 0 ELSE f[s \ {Chosen(s)}] + Chosen(s).size
Sums(S) == CHOOSE f : f = [s \in SUBSET S |-> SumStep(f, s)]

(* The sum that PoolExact takes over the free nodes is the number of cells *)
(* they cover.                                                             *)
LEMMA FreeSum ==
    ASSUME NEW ns, NEW n, Tiles(ns, n)
    PROVE  FoldSet(LAMBDA m, sum : sum + m.size, 0, {m \in ToSet(ns) : ~m.used}) = Cardinality(FreeCells(ns))
<1> DEFINE F == {m \in ToSet(ns) : ~m.used}
           g == [s \in SUBSET F |-> Cardinality(CellsOf(s))]
<1>1. DOMAIN ns = 1 .. Len(ns) /\ \A i \in 1 .. Len(ns) : ns[i].at \in Nat /\ ns[i].size \in Nat \ {0}
  BY TileFacts
<1>2. IsFiniteSet(F)
  BY UsedFinite
<1>3. ASSUME NEW m \in F
      PROVE  \E i \in 1 .. Len(ns) : m = ns[i] /\ ~ns[i].used
  BY <1>1 DEF ToSet
<1>4. CellsOf(F) = FreeCells(ns)
  <2>1. ASSUME NEW c \in Nat
        PROVE  c \in CellsOf(F) <=> c \in FreeCells(ns)
    <3>1. ASSUME c \in CellsOf(F)
          PROVE  c \in FreeCells(ns)
      BY <1>1, <1>3, <3>1 DEF CellsOf, FreeCells
    <3>2. ASSUME c \in FreeCells(ns)
          PROVE  c \in CellsOf(F)
      <4>1. PICK i \in DOMAIN ns : ~ns[i].used /\ c \in Cells(ns[i])
        BY <3>2 DEF FreeCells
      <4>2. ns[i] \in F
        BY <4>1 DEF ToSet
      <4>3. QED
        BY <4>1, <4>2 DEF CellsOf
    <3>3. QED
      BY <3>1, <3>2
  <2>2. CellsOf(F) \subseteq Nat /\ FreeCells(ns) \subseteq Nat
    BY DEF CellsOf, FreeCells
  <2>3. QED
    BY <2>1, <2>2
<1>5. \A s \in SUBSET F : IsFiniteSet(CellsOf(s))
  <2>1. ASSUME NEW s \in SUBSET F
        PROVE  CellsOf(s) \in SUBSET FreeCells(ns)
    BY <1>4 DEF CellsOf
  <2>2. QED
    BY <2>1, CellsFinite, FS_Subset
<1>6. ASSUME NEW s \in SUBSET F, s # {}
      PROVE  Cardinality(CellsOf(s)) = Cardinality(CellsOf(s \ {Chosen(s)})) + Chosen(s).size
  <2>1. PICK x, r : x = Chosen(s) /\ r = s \ {x}
    OBVIOUS
  <2>2. x \in s /\ r \in SUBSET F
    BY <1>6, <2>1 DEF Chosen
  <2>3. PICK i \in 1 .. Len(ns) : x = ns[i] /\ ~ns[i].used
    BY <1>3, <2>2
  <2>4. CellsOf(s) = CellsOf(r) \cup Cells(x)
    BY <2>1, <2>2 DEF CellsOf, Cells
  <2>5. ASSUME NEW c, c \in CellsOf(r), c \in Cells(x)
        PROVE  FALSE
    <3>1. PICK m \in r : c \in Cells(m)
      BY <2>5 DEF CellsOf
    <3>2. PICK j \in 1 .. Len(ns) : m = ns[j]
      BY <1>3, <2>2, <3>1
    <3>3. c \in Nat
      BY <2>5 DEF Cells
    <3>4. i = j
      BY <2>3, <2>5, <3>1, <3>2, <3>3, CellsApart
    <3>5. QED
      BY <2>1, <2>3, <3>1, <3>2, <3>4
  <2>6. IsFiniteSet(Cells(x)) /\ Cardinality(Cells(x)) = x.size
    <3>1. Cells(x) = Cells(Block(ns[i].at, ns[i].size))
      BY <2>3 DEF Cells, Block
    <3>2. QED
      BY <1>1, <2>3, <3>1, CellCount
  <2>7. QED
    BY <1>5, <2>1, <2>2, <2>4, <2>5, <2>6, PartCount, ZenonT(30)
<1>7. Cardinality(CellsOf({})) = 0
  <2>1. CellsOf({}) = {}
    BY DEF CellsOf
  <2>2. QED
    BY <2>1, FS_EmptySet
<1>8. PICK w : w = Sums(F)
  OBVIOUS
<1>9. FoldSet(LAMBDA m, sum : sum + m.size, 0, F) = w[F]
  BY <1>8 DEF FoldSet, MapThenFoldSet, Sums, SumStep, Chosen
<1>10. \A s \in SUBSET F : w[s] = SumStep(w, s)
  <2>1. ASSUME NEW s \in SUBSET F
        PROVE  g[s] = SumStep(g, s)
    <3>1. CASE s = {}
      BY <1>7, <3>1 DEF SumStep
    <3>2. CASE s # {}
      <4>1. s \ {Chosen(s)} \in SUBSET F
        OBVIOUS
      <4>2. QED
        BY <1>6, <3>2, <4>1 DEF SumStep
    <3>3. QED
      BY <3>1, <3>2
  <2>2. g = [s \in SUBSET F |-> SumStep(g, s)]
    BY <2>1
  <2> HIDE DEF g
  <2>3. w = [s \in SUBSET F |-> SumStep(w, s)]
    BY <1>8, <2>2 DEF Sums
  <2>4. ASSUME NEW s \in SUBSET F
        PROVE  w[s] = SumStep(w, s)
    <3>1. [x \in SUBSET F |-> SumStep(w, x)][s] = SumStep(w, s)
      OBVIOUS
    <3>2. QED
      BY <2>3, <3>1
  <2>5. QED
    BY <2>4
<1> HIDE DEF F
<1> DEFINE B == {k \in Nat : \A s \in SUBSET F : Cardinality(s) = k => w[s] = Cardinality(CellsOf(s))}
<1>11. 0 \in B
  <2>1. ASSUME NEW s \in SUBSET F, Cardinality(s) = 0
        PROVE  w[s] = Cardinality(CellsOf(s))
    <3>1. s = {}
      BY <1>2, <2>1, FS_Subset, FS_EmptySet
    <3>2. QED
      BY <1>7, <1>10, <3>1 DEF SumStep
  <2>2. QED
    BY <2>1
<1>12. ASSUME NEW k \in 1 .. Cardinality(F), k - 1 \in B
       PROVE  k \in B
  <2>1. ASSUME NEW s \in SUBSET F, Cardinality(s) = k
        PROVE  w[s] = Cardinality(CellsOf(s))
    <3>1. s # {}
      BY <2>1, FS_EmptySet
    <3>2. s \ {Chosen(s)} \in SUBSET F /\ Cardinality(s \ {Chosen(s)}) = k - 1
      BY <1>2, <2>1, <3>1, ChosenIs
    <3>3. w[s \ {Chosen(s)}] = Cardinality(CellsOf(s \ {Chosen(s)}))
      BY <1>12, <3>2
    <3>4. w[s] = w[s \ {Chosen(s)}] + Chosen(s).size
      BY <1>10, <3>1 DEF SumStep
    <3>5. QED
      BY <1>6, <3>1, <3>3, <3>4
  <2>2. QED
    BY <2>1
<1>13. Cardinality(F) \in B
  <2>1. Cardinality(F) \in Nat /\ Cardinality(F) \in 0 .. Cardinality(F)
    BY <1>2, FS_CardinalityType
  <2> HIDE DEF B
  <2>2. QED
    BY <1>11, <1>12, <2>1, UpTheSteps
<1>14. w[F] = Cardinality(CellsOf(F))
  BY <1>13
<1>15. QED
  BY <1>4, <1>9, <1>14 DEF F

(* A pool without a block in use is all free, and the other way round.     *)
LEMMA EmptyPool ==
    ASSUME NEW p, NEW n, PoolOk(p, n)
    PROVE  UsedIn(p.nodes) = {} <=> p.avail = n
<1>1. PICK ns : ns = p.nodes
  OBVIOUS
<1>2. Tiles(ns, n) /\ Apart(ns, {}) /\ p.avail = Cardinality(FreeCells(ns))
  BY <1>1 DEF PoolOk
<1>3. /\ DOMAIN ns = 1 .. Len(ns) /\ Len(ns) \in Nat \ {0} /\ n \in Nat
      /\ \A i \in 1 .. Len(ns) : ns[i].at \in Nat /\ ns[i].size \in Nat \ {0} /\ EndOf(ns[i]) \in Nat
  BY <1>2, TileFacts
<1>4. IsFiniteSet(FreeCells(ns)) /\ Cardinality(FreeCells(ns)) \in Nat
  BY <1>2, CellsFinite, FS_CardinalityType
<1>5. \A i \in 1 .. Len(ns) : EndOf(ns[i]) <= n
  <2>1. ASSUME NEW i \in 1 .. Len(ns)
        PROVE  EndOf(ns[i]) <= n
    <3>1. PICK l : l = Len(ns)
      OBVIOUS
    <3>2. l \in 1 .. Len(ns) /\ EndOf(ns[l]) = n /\ ns[l].at <= EndOf(ns[l]) /\ ns[l].at \in Nat
      <4>1. l \in 1 .. Len(ns) /\ EndOf(ns[l]) = n
        BY <1>2, <1>3, <3>1 DEF Tiles
      <4>2. ns[l].at \in Nat /\ ns[l].size \in Nat
        BY <1>3, <4>1
      <4>3. QED
        BY <4>1, <4>2 DEF EndOf
    <3>3. CASE i = l
      BY <1>3, <3>2, <3>3
    <3>4. CASE i # l
      <4>1. i < l
        BY <1>3, <3>1, <3>4
      <4>2. EndOf(ns[i]) <= ns[l].at
        BY <1>2, <3>2, <4>1, Ascends
      <4>3. EndOf(ns[i]) \in Nat
        BY <1>3
      <4>4. QED
        BY <1>3, <3>2, <4>2, <4>3
    <3>5. QED
      BY <3>3, <3>4
  <2>2. QED
    BY <2>1
<1>6. FreeCells(ns) \subseteq Cells(Block(0, n))
  <2>1. ASSUME NEW c \in FreeCells(ns)
        PROVE  c \in Cells(Block(0, n))
    <3>1. PICK i \in 1 .. Len(ns) : c \in Nat /\ c \in Cells(ns[i])
      BY <1>3, <2>1 DEF FreeCells
    <3>2. ns[i].at \in Nat /\ ns[i].size \in Nat /\ EndOf(ns[i]) <= n
      BY <1>3, <1>5
    <3>3. QED
      BY <1>3, <3>1, <3>2 DEF Cells, Block, EndOf
  <2>2. QED
    BY <2>1
<1>7. ASSUME UsedIn(ns) = {}
      PROVE  p.avail = n
  <2>1. \A i \in 1 .. Len(ns) : ~ns[i].used
    BY <1>2, <1>7, UsedAt
  <2>2. Len(ns) = 1
    <3>1. ASSUME Len(ns) # 1
          PROVE  FALSE
      <4>1. 1 \in 1 .. Len(ns) - 1 /\ 1 \in 1 .. Len(ns) /\ 1 + 1 \in 1 .. Len(ns)
        BY <1>3, <3>1
      <4>2. ns[1].used \/ ns[1 + 1].used
        BY <1>2, <4>1 DEF Apart
      <4>3. QED
        BY <2>1, <4>1, <4>2
    <3>2. QED
      BY <3>1
  <2>3. ns[1].at = 0 /\ ns[1].size = n /\ ns[1].size \in Nat \ {0}
    <3>1. ns[1].at = 0 /\ EndOf(ns[1]) = n /\ ns[1].size \in Nat \ {0}
      BY <1>2, <1>3, <2>2 DEF Tiles
    <3>2. QED
      BY <3>1 DEF EndOf
  <2>4. Cells(Block(0, n)) \subseteq FreeCells(ns)
    <3>1. ASSUME NEW c \in Cells(Block(0, n))
          PROVE  c \in FreeCells(ns)
      <4>1. c \in Nat /\ c \in Cells(ns[1])
        BY <2>3, <3>1 DEF Cells, Block
      <4>2. 1 \in DOMAIN ns /\ ~ns[1].used
        BY <1>3, <2>1, <2>2
      <4>3. QED
        BY <4>1, <4>2 DEF FreeCells
    <3>2. QED
      BY <3>1
  <2>5. Cardinality(Cells(Block(0, n))) = n
    BY <2>3, CellCount
  <2>6. FreeCells(ns) = Cells(Block(0, n))
    BY <1>6, <2>4
  <2>7. QED
    BY <1>2, <2>5, <2>6
<1>8. ASSUME NEW b \in UsedIn(ns)
      PROVE  p.avail # n
  <2>1. PICK i \in 1 .. Len(ns) : ns[i].used
    BY <1>2, <1>8, UsedAt
  <2>2. ns[i].at \in Nat /\ ns[i].size \in Nat \ {0} /\ EndOf(ns[i]) <= n
    BY <1>3, <1>5
  <2>3. ns[i].at \in Cells(ns[i]) /\ ns[i].at \in Cells(Block(0, n)) /\ n # 0
    BY <1>3, <2>2 DEF Cells, Block, EndOf
  <2>4. ns[i].at \notin FreeCells(ns)
    <3>1. ASSUME ns[i].at \in FreeCells(ns)
          PROVE  FALSE
      <4>1. PICK j \in 1 .. Len(ns) : ~ns[j].used /\ ns[i].at \in Cells(ns[j])
        BY <1>3, <3>1 DEF FreeCells
      <4>2. i = j
        BY <1>2, <2>2, <2>3, <4>1, CellsApart
      <4>3. QED
        BY <2>1, <4>1, <4>2
    <3>2. QED
      BY <3>1
  <2>5. IsFiniteSet(Cells(Block(0, n))) /\ Cardinality(Cells(Block(0, n))) = n
    BY <1>3, <2>3, CellCount
  <2>6. Cardinality(FreeCells(ns)) = n => FreeCells(ns) = Cells(Block(0, n))
    BY <1>6, <2>5, FS_Subset
  <2>7. QED
    BY <1>2, <2>3, <2>4, <2>6
<1>9. QED
  BY <1>1, <1>7, <1>8

(* A pool made anew.                                                       *)
LEMMA NewPool ==
    ASSUME NEW n \in Nat \ {0}
    PROVE  PoolOk(sminit(n), n) /\ UsedIn(sminit(n).nodes) = {}
<1>1. PICK e : e = Node(0, n, FALSE)
  OBVIOUS
<1>2. e \in Nodes /\ e.at = 0 /\ e.size = n /\ ~e.used /\ EndOf(e) = n
  <2>1. e \in Nodes /\ e.at = 0 /\ e.size = n /\ ~e.used
    BY <1>1 DEF Node, Nodes
  <2>2. QED
    BY <2>1 DEF EndOf
<1>3. PICK ns : ns = <<e>>
  OBVIOUS
<1>4. ns \in Seq(Nodes) /\ Len(ns) = 1 /\ ns[1] = e /\ DOMAIN ns = 1 .. 1
  BY <1>2, <1>3
<1>5. sminit(n).nodes = ns /\ sminit(n).avail = n
  BY <1>1, <1>3 DEF sminit
<1>6. Tiles(ns, n)
  BY <1>2, <1>4 DEF Tiles
<1>7. Apart(ns, {})
  BY <1>4 DEF Apart
<1>8. FreeCells(ns) = Cells(Block(0, n))
  <2>1. ASSUME NEW c
        PROVE  c \in FreeCells(ns) <=> c \in Cells(Block(0, n))
    <3>1. c \in FreeCells(ns) <=> c \in Nat /\ c \in Cells(e)
      BY <1>2, <1>4 DEF FreeCells
    <3>2. c \in Cells(e) <=> c \in Cells(Block(0, n))
      BY <1>2 DEF Cells, Block
    <3>3. c \in Cells(e) => c \in Nat
      BY DEF Cells
    <3>4. QED
      BY <3>1, <3>2, <3>3
  <2>2. QED
    BY <2>1
<1>9. Cardinality(FreeCells(ns)) = n
  BY <1>8, CellCount
<1>10. UsedIn(ns) = {}
  <2>1. ASSUME NEW b \in UsedIn(ns)
        PROVE  FALSE
    BY <1>2, <1>4, <1>6, <2>1, UsedAt
  <2>2. QED
    BY <2>1
<1>11. QED
  BY <1>5, <1>6, <1>7, <1>9, <1>10 DEF PoolOk

(***************************************************************************)
(* The calls under way and who has which block.                            *)
(***************************************************************************)
Objs   == [block : Blocks, parts : SUBSET Blocks]
Frames == [objs : Seq(Objs), boot : BOOLEAN]

Holds(fs, b, i, j) == i \in DOMAIN fs /\ j \in DOMAIN fs[i].objs /\ b \in BlocksOf(fs[i].objs[j])
Owned(fs)          == UNION {BlocksIn(fs[i]) : i \in DOMAIN fs}
OneOwner(fs)       == \A b, i, j, k, l : Holds(fs, b, i, j) /\ Holds(fs, b, k, l) => i = k /\ j = l

(* The types of the calls under way and of their objects.                  *)
LEMMA FrameFacts ==
    ASSUME NEW fs \in Seq(Frames)
    PROVE  /\ DOMAIN fs = 1 .. Len(fs) /\ Len(fs) \in Nat
           /\ \A i \in 1 .. Len(fs) : /\ fs[i] \in Frames /\ fs[i].objs \in Seq(Objs) /\ fs[i].boot \in BOOLEAN
                                      /\ DOMAIN fs[i].objs = 1 .. Len(fs[i].objs) /\ Len(fs[i].objs) \in Nat
<1>1. DOMAIN fs = 1 .. Len(fs) /\ Len(fs) \in Nat
  BY LenProperties
<1>2. ASSUME NEW i \in 1 .. Len(fs)
      PROVE  /\ fs[i] \in Frames /\ fs[i].objs \in Seq(Objs) /\ fs[i].boot \in BOOLEAN
             /\ DOMAIN fs[i].objs = 1 .. Len(fs[i].objs) /\ Len(fs[i].objs) \in Nat
  <2>1. fs[i] \in Frames
    BY ElementOfSeq
  <2>2. fs[i].objs \in Seq(Objs) /\ fs[i].boot \in BOOLEAN
    BY <2>1 DEF Frames
  <2>3. QED
    BY <2>1, <2>2, LenProperties
<1>3. QED
  BY <1>1, <1>2

(* A block is owned when an object of some call holds it.                  *)
LEMMA OwnedIs ==
    ASSUME NEW fs, NEW b
    PROVE  b \in Owned(fs) <=> \E i, j : Holds(fs, b, i, j)
BY DEF Owned, Holds, BlocksIn, ToSet

(* The blocks of a call are those of its objects.                          *)
LEMMA InFrame ==
    ASSUME NEW f, NEW b
    PROVE  b \in BlocksIn(f) <=> \E j \in DOMAIN f.objs : b \in BlocksOf(f.objs[j])
BY DEF BlocksIn, ToSet

(* Other objects for the innermost call.                                   *)
TopWith(fs, objs) == [fs EXCEPT ![Len(fs)].objs = objs]

(* Only the objects of the innermost call change.                          *)
LEMMA TopWithIs ==
    ASSUME NEW fs \in Seq(Frames), fs # <<>>, NEW objs \in Seq(Objs)
    PROVE  /\ TopWith(fs, objs) \in Seq(Frames) /\ Len(TopWith(fs, objs)) = Len(fs)
           /\ Len(fs) \in 1 .. Len(fs)
           /\ \A i \in 1 .. Len(fs) : i # Len(fs) => TopWith(fs, objs)[i] = fs[i]
           /\ TopWith(fs, objs)[Len(fs)].objs = objs /\ TopWith(fs, objs)[Len(fs)].boot = fs[Len(fs)].boot
<1>1. Len(fs) \in Nat \ {0}
  BY EmptySeq
<1>2. PICK k : k = Len(fs)
  OBVIOUS
<1>3. k \in 1 .. Len(fs) /\ fs[k] \in Frames
  BY <1>1, <1>2, ElementOfSeq
<1> DEFINE e == [fs[k] EXCEPT !.objs = objs]
<1>4. e \in Frames /\ e.objs = objs /\ e.boot = fs[k].boot
  BY <1>3 DEF Frames
<1>5. TopWith(fs, objs) = [fs EXCEPT ![k] = e]
  BY <1>2 DEF TopWith
<1> HIDE DEF e
<1>6. /\ [fs EXCEPT ![k] = e] \in Seq(Frames) /\ Len([fs EXCEPT ![k] = e]) = Len(fs)
      /\ \A j \in 1 .. Len(fs) : [fs EXCEPT ![k] = e][j] = IF j = k THEN e ELSE fs[j]
  BY <1>3, <1>4, ExceptSeq
<1>7. QED
  BY <1>2, <1>3, <1>4, <1>5, <1>6

(* One object more.                                                        *)
LEMMA ObjAdded ==
    ASSUME NEW fs \in Seq(Frames), fs # <<>>, OneOwner(fs), NEW o \in Objs,
           BlocksOf(o) \cap Owned(fs) = {}
    PROVE  /\ OneOwner(TopWith(fs, Append(fs[Len(fs)].objs, o)))
           /\ Owned(TopWith(fs, Append(fs[Len(fs)].objs, o))) = Owned(fs) \cup BlocksOf(o)
<1>1. PICK k, objs : k = Len(fs) /\ objs = fs[k].objs
  OBVIOUS
<1> DEFINE new == Append(objs, o)
           f2 == TopWith(fs, new)
<1>2. /\ DOMAIN fs = 1 .. Len(fs) /\ k \in 1 .. Len(fs) /\ objs \in Seq(Objs)
      /\ DOMAIN objs = 1 .. Len(objs) /\ Len(objs) \in Nat
  <2>1. k \in 1 .. Len(fs)
    BY <1>1, EmptySeq
  <2>2. QED
    BY <1>1, <2>1, FrameFacts
<1>3. /\ new \in Seq(Objs) /\ Len(new) = Len(objs) + 1 /\ new[Len(objs) + 1] = o
      /\ \A j \in 1 .. Len(objs) : new[j] = objs[j]
  BY <1>2, AppendProperties
<1>4. DOMAIN new = 1 .. Len(objs) + 1
  <2>1. DOMAIN new = 1 .. Len(new)
    BY <1>3, LenProperties
  <2>2. QED
    BY <1>3, <2>1
<1> HIDE DEF new
<1>5. /\ f2 \in Seq(Frames) /\ Len(f2) = Len(fs) /\ \A i \in 1 .. Len(fs) : i # k => f2[i] = fs[i]
      /\ f2[k].objs = new
  BY <1>1, <1>3, TopWithIs
<1>6. DOMAIN f2 = 1 .. Len(fs)
  <2>1. DOMAIN f2 = 1 .. Len(f2)
    BY <1>5, LenProperties
  <2>2. QED
    BY <1>5, <2>1
<1> HIDE DEF f2
<1>7. ASSUME NEW b, NEW i, NEW j
      PROVE  Holds(f2, b, i, j) <=> Holds(fs, b, i, j) \/ (i = k /\ j = Len(objs) + 1 /\ b \in BlocksOf(o))
  <2>1. CASE i # k
    BY <1>2, <1>5, <1>6, <2>1 DEF Holds
  <2>2. CASE i = k
    <3>1. j \in DOMAIN new <=> j \in DOMAIN objs \/ j = Len(objs) + 1
      BY <1>2, <1>4
    <3>2. Holds(f2, b, i, j) <=> j \in DOMAIN new /\ b \in BlocksOf(new[j])
      BY <1>2, <1>5, <1>6, <2>2 DEF Holds
    <3>3. Holds(fs, b, i, j) <=> j \in DOMAIN objs /\ b \in BlocksOf(objs[j])
      BY <1>1, <1>2, <2>2 DEF Holds
    <3>4. Len(objs) + 1 \notin DOMAIN objs
      BY <1>2
    <3>5. j \in DOMAIN objs => new[j] = objs[j]
      BY <1>2, <1>3
    <3>6. QED
      BY <1>3, <2>2, <3>1, <3>2, <3>3, <3>4, <3>5
  <2>3. QED
    BY <2>1, <2>2
<1>8. \A b : b \in BlocksOf(o) => ~ \E i, j : Holds(fs, b, i, j)
  BY OwnedIs
<1>9. OneOwner(f2)
  BY <1>7, <1>8 DEF OneOwner
<1>10. ASSUME NEW b
       PROVE  b \in Owned(f2) <=> b \in Owned(fs) \cup BlocksOf(o)
  BY <1>7, OwnedIs
<1>11. QED
  BY <1>1, <1>9, <1>10 DEF f2, new

(* One object less.                                                        *)
LEMMA ObjDropped ==
    ASSUME NEW fs \in Seq(Frames), fs # <<>>, OneOwner(fs), fs[Len(fs)].objs # <<>>
    PROVE  /\ OneOwner(TopWith(fs, Front(fs[Len(fs)].objs)))
           /\ Owned(TopWith(fs, Front(fs[Len(fs)].objs))) = Owned(fs) \ BlocksOf(Last(fs[Len(fs)].objs))
           /\ BlocksOf(Last(fs[Len(fs)].objs)) \subseteq Owned(fs)
           /\ Front(fs[Len(fs)].objs) \in Seq(Objs)
<1>1. PICK k, objs : k = Len(fs) /\ objs = fs[k].objs
  OBVIOUS
<1> DEFINE new == Front(objs)
           o == Last(objs)
           f2 == TopWith(fs, new)
<1>2. /\ DOMAIN fs = 1 .. Len(fs) /\ k \in 1 .. Len(fs) /\ objs \in Seq(Objs)
      /\ DOMAIN objs = 1 .. Len(objs) /\ Len(objs) \in Nat \ {0}
  <2>1. k \in 1 .. Len(fs)
    BY <1>1, EmptySeq
  <2>2. objs \in Seq(Objs) /\ DOMAIN objs = 1 .. Len(objs) /\ DOMAIN fs = 1 .. Len(fs)
    BY <1>1, <2>1, FrameFacts
  <2>3. QED
    BY <1>1, <2>1, <2>2, EmptySeq
<1>3. /\ new \in Seq(Objs) /\ Len(new) = Len(objs) - 1 /\ DOMAIN new = 1 .. Len(objs) - 1
      /\ \A j \in 1 .. Len(objs) - 1 : new[j] = objs[j]
  <2>1. PICK m, l : m = 1 /\ l = Len(objs) - 1
    OBVIOUS
  <2>2. m \in Int /\ l \in Int /\ \A j \in m .. l : objs[j] \in Objs
    <3>1. m \in Int /\ l \in Int /\ \A j \in m .. l : j \in 1 .. Len(objs)
      BY <1>2, <2>1
    <3>2. QED
      BY <1>2, <3>1, ElementOfSeq
  <2>3. /\ SubSeq(objs, m, l) \in Seq(Objs) /\ Len(SubSeq(objs, m, l)) = (IF m <= l THEN l - m + 1 ELSE 0)
        /\ \A j \in 1 .. l - m + 1 : SubSeq(objs, m, l)[j] = objs[m + j - 1]
    BY <2>2, SubSeqProperties
  <2>4. new = SubSeq(objs, m, l)
    BY <2>1 DEF Front
  <2> HIDE DEF new
  <2>5. Len(new) = Len(objs) - 1
    BY <1>2, <2>1, <2>3, <2>4
  <2>6. DOMAIN new = 1 .. Len(new) /\ new \in Seq(Objs)
    BY <2>3, <2>4, LenProperties
  <2>7. ASSUME NEW j \in 1 .. Len(objs) - 1
        PROVE  new[j] = objs[j]
    <3>1. j \in 1 .. l - m + 1 /\ m + j - 1 = j
      BY <1>2, <2>1
    <3>2. QED
      BY <2>3, <2>4, <3>1
  <2>8. QED
    BY <2>5, <2>6, <2>7
<1>4. o = objs[Len(objs)]
  BY DEF Last
<1> HIDE DEF new, o
<1>5. /\ f2 \in Seq(Frames) /\ Len(f2) = Len(fs) /\ \A i \in 1 .. Len(fs) : i # k => f2[i] = fs[i]
      /\ f2[k].objs = new
  BY <1>1, <1>3, TopWithIs
<1>6. DOMAIN f2 = 1 .. Len(fs)
  <2>1. DOMAIN f2 = 1 .. Len(f2)
    BY <1>5, LenProperties
  <2>2. QED
    BY <1>5, <2>1
<1> HIDE DEF f2
<1>7. ASSUME NEW b, NEW i, NEW j
      PROVE  Holds(f2, b, i, j) <=> Holds(fs, b, i, j) /\ ~(i = k /\ j = Len(objs))
  <2>1. CASE i # k
    BY <1>2, <1>5, <1>6, <2>1 DEF Holds
  <2>2. CASE i = k
    <3>1. j \in DOMAIN new <=> j \in DOMAIN objs /\ j # Len(objs)
      BY <1>2, <1>3
    <3>2. Holds(f2, b, i, j) <=> j \in DOMAIN new /\ b \in BlocksOf(new[j])
      BY <1>2, <1>5, <1>6, <2>2 DEF Holds
    <3>3. Holds(fs, b, i, j) <=> j \in DOMAIN objs /\ b \in BlocksOf(objs[j])
      BY <1>1, <1>2, <2>2 DEF Holds
    <3>4. j \in DOMAIN new => new[j] = objs[j]
      BY <1>3
    <3>5. QED
      BY <2>2, <3>1, <3>2, <3>3, <3>4
  <2>3. QED
    BY <2>1, <2>2
<1>8. \A b : b \in BlocksOf(o) <=> Holds(fs, b, k, Len(objs))
  BY <1>1, <1>2, <1>4 DEF Holds
<1>9. OneOwner(f2)
  BY <1>7 DEF OneOwner
<1>10. ASSUME NEW b
       PROVE  b \in Owned(f2) <=> b \in Owned(fs) \ BlocksOf(o)
  <2>1. b \in Owned(f2) <=> \E i, j : Holds(fs, b, i, j) /\ ~(i = k /\ j = Len(objs))
    BY <1>7, OwnedIs
  <2>2. QED
    BY <1>8, <2>1, OwnedIs DEF OneOwner
<1>11. BlocksOf(o) \subseteq Owned(fs)
  <2>1. ASSUME NEW b \in BlocksOf(o)
        PROVE  b \in Owned(fs)
    BY <1>8, OwnedIs
  <2>2. QED
    BY <2>1
<1>12. QED
  BY <1>1, <1>3, <1>9, <1>10, <1>11 DEF f2, new, o

(* A call left.                                                            *)
LEMMA FramePopped ==
    ASSUME NEW fs \in Seq(Frames), fs # <<>>, OneOwner(fs)
    PROVE  /\ Front(fs) \in Seq(Frames) /\ Len(Front(fs)) = Len(fs) - 1 /\ Len(fs) \in Nat \ {0}
           /\ \A i \in 1 .. Len(fs) - 1 : Front(fs)[i] = fs[i]
           /\ OneOwner(Front(fs)) /\ Owned(Front(fs)) = Owned(fs) \ BlocksIn(fs[Len(fs)])
           /\ BlocksIn(fs[Len(fs)]) \subseteq Owned(fs)
<1>1. PICK k : k = Len(fs) /\ k \in Nat \ {0}
  BY EmptySeq
<1> DEFINE f2 == Front(fs)
<1>2. DOMAIN fs = 1 .. k
  BY <1>1, LenProperties
<1>3. f2 \in Seq(Frames) /\ Len(f2) = k - 1 /\ DOMAIN f2 = 1 .. k - 1 /\ \A i \in 1 .. k - 1 : f2[i] = fs[i]
  <2>1. PICK m, l : m = 1 /\ l = k - 1
    OBVIOUS
  <2>2. m \in Int /\ l \in Int /\ \A j \in m .. l : fs[j] \in Frames
    <3>1. m \in Int /\ l \in Int /\ \A j \in m .. l : j \in 1 .. Len(fs)
      BY <1>1, <2>1
    <3>2. QED
      BY <3>1, ElementOfSeq
  <2>3. /\ SubSeq(fs, m, l) \in Seq(Frames) /\ Len(SubSeq(fs, m, l)) = (IF m <= l THEN l - m + 1 ELSE 0)
        /\ \A j \in 1 .. l - m + 1 : SubSeq(fs, m, l)[j] = fs[m + j - 1]
    BY <2>2, SubSeqProperties
  <2>4. f2 = SubSeq(fs, m, l)
    BY <1>1, <2>1 DEF Front
  <2> HIDE DEF f2
  <2>5. Len(f2) = k - 1
    BY <1>1, <2>1, <2>3, <2>4
  <2>6. DOMAIN f2 = 1 .. Len(f2) /\ f2 \in Seq(Frames)
    BY <2>3, <2>4, LenProperties
  <2>7. ASSUME NEW j \in 1 .. k - 1
        PROVE  f2[j] = fs[j]
    <3>1. j \in 1 .. l - m + 1 /\ m + j - 1 = j
      BY <1>1, <2>1
    <3>2. QED
      BY <2>3, <2>4, <3>1
  <2>8. QED
    BY <2>5, <2>6, <2>7
<1> HIDE DEF f2
<1>4. ASSUME NEW b, NEW i, NEW j
      PROVE  Holds(f2, b, i, j) <=> Holds(fs, b, i, j) /\ i # k
  <2>1. i \in DOMAIN f2 <=> i \in DOMAIN fs /\ i # k
    BY <1>1, <1>2, <1>3
  <2>2. QED
    BY <1>3, <2>1 DEF Holds
<1>5. \A b : b \in BlocksIn(fs[k]) <=> \E j : Holds(fs, b, k, j)
  <2>1. k \in DOMAIN fs
    BY <1>1, <1>2
  <2>2. QED
    BY <2>1, InFrame DEF Holds
<1>6. OneOwner(f2)
  BY <1>4 DEF OneOwner
<1>7. ASSUME NEW b
      PROVE  b \in Owned(f2) <=> b \in Owned(fs) \ BlocksIn(fs[k])
  <2>1. b \in Owned(f2) <=> \E i, j : Holds(fs, b, i, j) /\ i # k
    BY <1>4, OwnedIs
  <2>2. QED
    BY <1>5, <2>1, OwnedIs DEF OneOwner
<1>8. BlocksIn(fs[k]) \subseteq Owned(fs)
  <2>1. ASSUME NEW b \in BlocksIn(fs[k])
        PROVE  b \in Owned(fs)
    BY <1>5, OwnedIs
  <2>2. QED
    BY <2>1
<1>9. QED
  BY <1>1, <1>3, <1>6, <1>7, <1>8 DEF f2

(* A call entered.                                                         *)
Entered(fs, boots) == Append(fs, [objs |-> <<>>, boot |-> boots])

(* A call entered holds no object, and every block keeps its owner.        *)
LEMMA FramePushed ==
    ASSUME NEW fs \in Seq(Frames), OneOwner(fs), NEW boots \in BOOLEAN
    PROVE  /\ Entered(fs, boots) \in Seq(Frames) /\ Len(Entered(fs, boots)) = Len(fs) + 1
           /\ \A i \in 1 .. Len(fs) : Entered(fs, boots)[i] = fs[i]
           /\ Entered(fs, boots)[Len(fs) + 1].objs = <<>> /\ Entered(fs, boots)[Len(fs) + 1].boot = boots
           /\ OneOwner(Entered(fs, boots)) /\ Owned(Entered(fs, boots)) = Owned(fs)
<1>1. PICK e : e = [objs |-> <<>>, boot |-> boots]
  OBVIOUS
<1>2. e \in Frames /\ e.objs = <<>> /\ e.boot = boots
  BY <1>1 DEF Frames
<1>3. PICK f2 : f2 = Append(fs, e)
  OBVIOUS
<1>4. /\ f2 \in Seq(Frames) /\ Len(f2) = Len(fs) + 1 /\ \A i \in 1 .. Len(fs) : f2[i] = fs[i]
      /\ f2[Len(fs) + 1] = e
  BY <1>2, <1>3, AppendProperties
<1>5. DOMAIN fs = 1 .. Len(fs) /\ Len(fs) \in Nat
  BY LenProperties
<1>6. DOMAIN f2 = 1 .. Len(fs) + 1
  <2>1. DOMAIN f2 = 1 .. Len(f2)
    BY <1>4, LenProperties
  <2>2. QED
    BY <1>4, <2>1
<1>7. ASSUME NEW b, NEW i, NEW j
      PROVE  Holds(f2, b, i, j) <=> Holds(fs, b, i, j)
  <2>1. CASE i = Len(fs) + 1
    <3>1. DOMAIN f2[i].objs = {}
      BY <1>2, <1>4, <2>1
    <3>2. i \notin DOMAIN fs
      BY <1>5, <2>1
    <3>3. QED
      BY <3>1, <3>2 DEF Holds
  <2>2. CASE i # Len(fs) + 1
    <3>1. i \in DOMAIN f2 <=> i \in DOMAIN fs
      BY <1>5, <1>6, <2>2
    <3>2. QED
      BY <1>4, <1>5, <3>1 DEF Holds
  <2>3. QED
    BY <2>1, <2>2
<1>8. OneOwner(f2) /\ \A b : b \in Owned(f2) <=> b \in Owned(fs)
  BY <1>7, OwnedIs DEF OneOwner
<1>9. Owned(f2) = Owned(fs) /\ f2 = Entered(fs, boots)
  BY <1>1, <1>3, <1>8 DEF Entered
<1>10. QED
  BY <1>2, <1>4, <1>8, <1>9

(***************************************************************************)
(* The invariant.                                                          *)
(***************************************************************************)
FarTypes ==
    /\ frames \in Seq(Frames) /\ deferred \in SUBSET Blocks /\ given \in SUBSET Blocks
    /\ boot \in {"config", "kernel", "stepped", "over"} /\ cpu \in {"kernel", "real", "reset", "off"}
    /\ calls \in BOOLEAN /\ hung \in BOOLEAN /\ leaked \in BOOLEAN

(* The pool of the start-up is that of the whole configuration.            *)
PoolFits == \E n \in Nat : PoolOk(pool, n) /\ (boot = "config" => n = InitPool)

(* FreeDOSmain is the outermost call, and has no objects of its own after  *)
(* the configuration.                                                      *)
CallsNest ==
    /\ frames = <<>> => cpu \in {"real", "off"}
    /\ cpu = "off" => frames = <<>>
    /\ \A i \in 1 .. Len(frames) : frames[i].boot => i = 1 /\ (boot # "config" => frames[i].objs = <<>>)

(* Both strings are kept for Config from the new pool to the shell.        *)
StringsKept ==
    /\ boot \in {"config", "over"} => shmap = <<>>
    /\ boot \in {"kernel", "stepped"} =>
           \E a \in ToSet(shmap), b \in ToSet(shmap) : a # b /\ a \in Blocks /\ b \in Blocks /\ shmap = <<a, b>>

(* No block has two owners, and a block in use has one.                    *)
OneEach ==
    /\ OneOwner(frames)
    /\ Owned(frames) \cap (ToSet(shmap) \cup deferred) = {}
    /\ ToSet(shmap) \cap deferred = {}
AllKnown == cpu # "off" => UsedIn(pool.nodes) = Owned(frames) \cup ToSet(shmap) \cup deferred

(* What waits to be collected does so for the call that the code jumped to *)
(* makes, for the end of a reset, or for whatever comes after a hang-up.   *)
Waiting ==
    /\ given \subseteq deferred /\ (cpu # "real" => given = {})
    /\ leaked => cpu = "off" /\ hung
    /\ deferred # {} => hung \/ (cpu = "real" /\ calls) \/ cpu \in {"reset", "off"}

FarInv == FarTypes /\ PoolFits /\ CallsNest /\ StringsKept /\ OneEach /\ AllKnown /\ Waiting

(* What follows of the invariant in a call of the kernel.                  *)
LEMMA TopFacts ==
    ASSUME FarInv, frames # <<>>
    PROVE  /\ frames \in Seq(Frames) /\ Len(frames) \in 1 .. Len(frames) /\ Len(frames) \in Nat \ {0}
           /\ Top.objs \in Seq(Objs) /\ Top.boot \in BOOLEAN
           /\ Top.boot => Len(frames) = 1
           /\ (Top.boot /\ boot # "config") => Top.objs = <<>>
           /\ BlocksIn(Top) \subseteq Owned(frames)
<1>1. frames \in Seq(Frames) /\ OneOwner(frames)
  BY DEF FarInv, FarTypes, OneEach
<1>2. Len(frames) \in 1 .. Len(frames) /\ Len(frames) \in Nat \ {0}
  BY <1>1, EmptySeq
<1>3. Top.objs \in Seq(Objs) /\ Top.boot \in BOOLEAN
  BY <1>1, <1>2, FrameFacts DEF Top
<1>4. Top.boot => Len(frames) = 1 /\ (boot # "config" => Top.objs = <<>>)
  BY <1>2 DEF FarInv, CallsNest, Top
<1>5. BlocksIn(Top) \subseteq Owned(frames)
  BY <1>1, FramePopped DEF Top
<1>6. QED
  BY <1>1, <1>2, <1>3, <1>4, <1>5

(* Other objects in the scopes of the innermost call: the calls nest as    *)
(* before.                                                                 *)
LEMMA NestWith ==
    ASSUME FarInv, frames # <<>>, NEW objs \in Seq(Objs), frames' = WithTop(objs),
           UNCHANGED <<boot, cpu>>, Top.boot => boot = "config" \/ objs = <<>>
    PROVE  CallsNest' /\ frames' = TopWith(frames, objs) /\ frames' \in Seq(Frames)
<1>1. frames \in Seq(Frames)
  BY DEF FarInv, FarTypes
<1>2. frames' = TopWith(frames, objs)
  BY DEF WithTop, TopWith
<1>3. PICK k : k = Len(frames)
  OBVIOUS
<1>4. /\ frames' \in Seq(Frames) /\ Len(frames') = k /\ k \in 1 .. k
      /\ \A i \in 1 .. k : i # k => frames'[i] = frames[i]
      /\ frames'[k].objs = objs /\ frames'[k].boot = frames[k].boot
  BY <1>1, <1>2, <1>3, TopWithIs
<1>5. frames' # <<>>
  BY <1>4
<1>6. ASSUME NEW i \in 1 .. Len(frames'), frames'[i].boot
      PROVE  i = 1 /\ (boot # "config" => frames'[i].objs = <<>>)
  <2>1. CASE i = k
    BY <1>3, <1>4, <1>6, <2>1 DEF FarInv, CallsNest, Top
  <2>2. CASE i # k
    BY <1>3, <1>4, <1>6, <2>2 DEF FarInv, CallsNest
  <2>3. QED
    BY <2>1, <2>2
<1>7. CallsNest'
  BY <1>5, <1>6 DEF CallsNest, FarInv
<1>8. QED
  BY <1>2, <1>4, <1>7

(* One object more, of blocks that were not in use.                        *)
LEMMA MadeStep ==
    ASSUME FarInv, InConfig, NEW o \in Objs, BlocksOf(o) \cap UsedIn(pool.nodes) = {},
           NEW n \in Nat, boot = "config" => n = InitPool, PoolOk(pool', n),
           UsedIn(pool'.nodes) = UsedIn(pool.nodes) \cup BlocksOf(o),
           frames' = WithTop(Append(Top.objs, o)),
           UNCHANGED <<shmap, deferred, boot, cpu, given, calls, hung, leaked>>
    PROVE  FarInv'
<1>1. frames # <<>> /\ cpu = "kernel" /\ (Top.boot => boot = "config")
  BY DEF FarInv, CallsNest, InConfig, InKernel
<1>2. UsedIn(pool.nodes) = Owned(frames) \cup ToSet(shmap) \cup deferred
  BY <1>1 DEF FarInv, AllKnown
<1>3. PICK objs : objs = Append(Top.objs, o) /\ objs \in Seq(Objs)
  BY <1>1, TopFacts, AppendProperties
<1>4. CallsNest' /\ frames' = TopWith(frames, objs) /\ frames' \in Seq(Frames)
  BY <1>1, <1>3, NestWith
<1>5. OneOwner(frames') /\ Owned(frames') = Owned(frames) \cup BlocksOf(o)
  <2>1. BlocksOf(o) \cap Owned(frames) = {}
    BY <1>2
  <2>2. frames \in Seq(Frames) /\ OneOwner(frames)
    BY DEF FarInv, FarTypes, OneEach
  <2>3. frames' = TopWith(frames, Append(frames[Len(frames)].objs, o))
    BY <1>3, <1>4 DEF Top
  <2>4. QED
    BY <1>1, <2>1, <2>2, <2>3, ObjAdded
<1>6. OneEach'
  BY <1>2, <1>5 DEF FarInv, OneEach
<1>7. AllKnown'
  BY <1>2, <1>5 DEF AllKnown
<1>8. FarTypes' /\ Waiting' /\ StringsKept'
  BY <1>4 DEF FarInv, FarTypes, Waiting, StringsKept
<1>9. PoolFits'
  BY DEF PoolFits
<1>10. QED
  BY <1>4, <1>6, <1>7, <1>8, <1>9 DEF FarInv

(* An object in the scope of a call.                                       *)
LEMMA MakeObjStep ==
    ASSUME FarInv, NEW size \in Sizes, MakeObj(size)
    PROVE  FarInv'
<1>1. size \in Nat \ {0}
  BY FarAssumption
<1>2. PICK n \in Nat : PoolOk(pool, n) /\ (boot = "config" => n = InitPool)
  BY DEF FarInv, PoolFits
<1>3. Fitting(pool, size) # {} /\ pool' = smalloc(pool, size)
  BY DEF MakeObj
<1>4. PICK b : b = Found(pool, size)
  OBVIOUS
<1>5. /\ PoolOk(pool', n) /\ UsedIn(pool'.nodes) = UsedIn(pool.nodes) \cup {b}
      /\ b \notin UsedIn(pool.nodes) /\ b \in Blocks
  BY <1>1, <1>2, <1>3, <1>4, AllocIs
<1>6. PICK o : o = [block |-> b, parts |-> {}]
  OBVIOUS
<1>7. o \in Objs /\ BlocksOf(o) = {b}
  BY <1>5, <1>6 DEF Objs, BlocksOf
<1>8. /\ frames' = WithTop(Append(Top.objs, o)) /\ InConfig
      /\ UNCHANGED <<shmap, deferred, boot, cpu, given, calls, hung, leaked>>
  BY <1>4, <1>6 DEF MakeObj
<1>9. QED
  BY <1>2, <1>5, <1>7, <1>8, MadeStep

(* An object that takes a part over.                                       *)
LEMMA MakeWithPartStep ==
    ASSUME FarInv, NEW size \in Sizes, NEW part \in Sizes, MakeWithPart(size, part)
    PROVE  FarInv'
<1>1. size \in Nat \ {0} /\ part \in Nat \ {0}
  BY FarAssumption
<1>2. PICK n \in Nat : PoolOk(pool, n) /\ (boot = "config" => n = InitPool)
  BY DEF FarInv, PoolFits
<1>3. PICK p, a, b : p = smalloc(pool, part) /\ a = Found(pool, part) /\ b = Found(p, size)
  OBVIOUS
<1>4. Fitting(pool, part) # {} /\ Fitting(p, size) # {} /\ pool' = smalloc(p, size)
  BY <1>3 DEF MakeWithPart
<1>5. /\ PoolOk(p, n) /\ UsedIn(p.nodes) = UsedIn(pool.nodes) \cup {a}
      /\ a \notin UsedIn(pool.nodes) /\ a \in Blocks
  BY <1>1, <1>2, <1>3, <1>4, AllocIs
<1>6. /\ PoolOk(pool', n) /\ UsedIn(pool'.nodes) = UsedIn(p.nodes) \cup {b}
      /\ b \notin UsedIn(p.nodes) /\ b \in Blocks
  BY <1>1, <1>3, <1>4, <1>5, AllocIs
<1>7. PICK o : o = [block |-> b, parts |-> {a}]
  OBVIOUS
<1>8. o \in Objs /\ BlocksOf(o) = {a, b}
  BY <1>5, <1>6, <1>7 DEF Objs, BlocksOf
<1>9. /\ frames' = WithTop(Append(Top.objs, o)) /\ InConfig
      /\ UNCHANGED <<shmap, deferred, boot, cpu, given, calls, hung, leaked>>
  BY <1>3, <1>7 DEF MakeWithPart, InConfig
<1>10. BlocksOf(o) \cap UsedIn(pool.nodes) = {} /\ UsedIn(pool'.nodes) = UsedIn(pool.nodes) \cup BlocksOf(o)
  BY <1>5, <1>6, <1>8
<1>11. QED
  BY <1>2, <1>6, <1>8, <1>9, <1>10, MadeStep

(* The end of a scope gives the blocks of its object back.                 *)
LEMMA DropObjStep ==
    ASSUME FarInv, DropObj
    PROVE  FarInv'
<1>1. cpu = "kernel" /\ Top.objs # <<>> /\ frames # <<>>
  BY DEF FarInv, CallsNest, DropObj, InKernel
<1>2. UsedIn(pool.nodes) = Owned(frames) \cup ToSet(shmap) \cup deferred
  BY <1>1 DEF FarInv, AllKnown
<1>3. PICK n \in Nat : PoolOk(pool, n) /\ (boot = "config" => n = InitPool)
  BY DEF FarInv, PoolFits
<1>4. PICK B, objs : B = BlocksOf(Last(Top.objs)) /\ objs = Front(Top.objs)
  OBVIOUS
<1>5. frames' = WithTop(objs) /\ pool' = FreeBlocks(pool, B)
  BY <1>4 DEF DropObj, Destroyed
<1>6. UNCHANGED <<shmap, deferred, boot, cpu, given, calls, hung, leaked>>
  BY DEF DropObj, Destroyed
<1>7. frames \in Seq(Frames) /\ OneOwner(frames)
  BY DEF FarInv, FarTypes, OneEach
<1>8. /\ OneOwner(TopWith(frames, objs)) /\ Owned(TopWith(frames, objs)) = Owned(frames) \ B
      /\ B \subseteq Owned(frames) /\ objs \in Seq(Objs)
  BY <1>1, <1>4, <1>7, ObjDropped DEF Top
<1>9. Top.boot => boot = "config"
  BY <1>1, TopFacts
<1>10. CallsNest' /\ frames' = TopWith(frames, objs) /\ frames' \in Seq(Frames)
  BY <1>1, <1>5, <1>6, <1>8, <1>9, NestWith
<1>11. PoolOk(pool', n) /\ UsedIn(pool'.nodes) = UsedIn(pool.nodes) \ B
  <2>1. B \subseteq UsedIn(pool.nodes)
    BY <1>2, <1>8
  <2>2. QED
    BY <1>3, <1>5, <2>1, FreeAll
<1>12. OneEach'
  BY <1>6, <1>8, <1>10 DEF FarInv, OneEach
<1>13. AllKnown'
  BY <1>2, <1>6, <1>8, <1>10, <1>11 DEF AllKnown, FarInv, OneEach
<1>14. FarTypes' /\ Waiting' /\ StringsKept'
  BY <1>6, <1>10 DEF FarInv, FarTypes, Waiting, StringsKept
<1>15. PoolFits'
  BY <1>3, <1>6, <1>11 DEF PoolFits
<1>16. QED
  BY <1>10, <1>12, <1>13, <1>14, <1>15 DEF FarInv

(* The innermost call is left.                                             *)
LEMMA NestLess ==
    ASSUME FarInv, frames # <<>>, frames' = Front(frames), boot' = boot \/ Len(frames) = 1,
           cpu' = "off" => Len(frames) = 1, Len(frames) = 1 => cpu' \in {"real", "off"}
    PROVE  /\ CallsNest' /\ frames' \in Seq(Frames) /\ OneOwner(frames')
           /\ Owned(frames') = Owned(frames) \ BlocksIn(Top) /\ BlocksIn(Top) \subseteq Owned(frames)
<1>1. frames \in Seq(Frames) /\ OneOwner(frames)
  BY DEF FarInv, FarTypes, OneEach
<1>2. /\ frames' \in Seq(Frames) /\ Len(frames') = Len(frames) - 1 /\ Len(frames) \in Nat \ {0}
      /\ \A i \in 1 .. Len(frames) - 1 : frames'[i] = frames[i]
      /\ OneOwner(frames') /\ Owned(frames') = Owned(frames) \ BlocksIn(Top)
      /\ BlocksIn(Top) \subseteq Owned(frames)
  BY <1>1, FramePopped DEF Top
<1>3. frames' = <<>> <=> Len(frames) = 1
  BY <1>2, EmptySeq
<1>4. ASSUME NEW i \in 1 .. Len(frames'), frames'[i].boot
      PROVE  i = 1 /\ (boot' # "config" => frames'[i].objs = <<>>)
  <2>1. i \in 1 .. Len(frames) - 1 /\ i \in 1 .. Len(frames) /\ Len(frames) # 1
    BY <1>2
  <2>2. QED
    BY <1>2, <1>4, <2>1 DEF FarInv, CallsNest
<1>5. CallsNest'
  BY <1>3, <1>4 DEF CallsNest
<1>6. QED
  BY <1>2, <1>5

(* A call left by a jump: its blocks wait.                                 *)
LEMMA JumpedStep ==
    ASSUME FarInv, Serving, NEW enters \in BOOLEAN, Jumped(BlocksIn(Top), enters),
           hung' \in BOOLEAN, hung => hung', hung' \/ enters \/ BlocksIn(Top) = {},
           UNCHANGED <<shmap, boot, leaked>>
    PROVE  FarInv'
<1>1. cpu = "kernel" /\ frames # <<>> /\ ~leaked
  BY DEF FarInv, CallsNest, Waiting, Serving, InKernel
<1>2. UsedIn(pool.nodes) = Owned(frames) \cup ToSet(shmap) \cup deferred
  BY <1>1 DEF FarInv, AllKnown
<1>3. PICK B : B = BlocksIn(Top)
  OBVIOUS
<1>4. /\ deferred' = deferred \cup B /\ UNCHANGED pool /\ frames' = Front(frames) /\ cpu' = "real"
      /\ given' = B /\ calls' = enters
  BY <1>3 DEF Jumped, Destroyed
<1>5. /\ CallsNest' /\ frames' \in Seq(Frames) /\ OneOwner(frames')
      /\ Owned(frames') = Owned(frames) \ B /\ B \subseteq Owned(frames)
  BY <1>1, <1>3, <1>4, NestLess
<1>6. B \subseteq Blocks
  <2>1. ASSUME NEW b \in B
        PROVE  b \in Blocks
    <3>1. PICK j \in DOMAIN Top.objs : b \in BlocksOf(Top.objs[j])
      BY <1>3, InFrame
    <3>2. Top.objs[j] \in Objs
      <4>1. Top.objs \in Seq(Objs)
        BY <1>1, TopFacts
      <4>2. QED
        BY <4>1, <3>1, LenProperties, ElementOfSeq
    <3>3. QED
      BY <3>1, <3>2 DEF Objs, BlocksOf
  <2>2. QED
    BY <2>1
<1>7. FarTypes'
  BY <1>4, <1>5, <1>6 DEF FarInv, FarTypes
<1>8. OneEach' /\ AllKnown'
  BY <1>2, <1>4, <1>5 DEF FarInv, OneEach, AllKnown
<1>9. Waiting'
  BY <1>1, <1>3, <1>4 DEF FarInv, Waiting
<1>10. PoolFits' /\ StringsKept'
  BY <1>4 DEF FarInv, PoolFits, StringsKept
<1>11. QED
  BY <1>5, <1>7, <1>8, <1>9, <1>10 DEF FarInv

(* A jump to a program.                                                    *)
LEMMA JumpToUserStep ==
    ASSUME FarInv, JumpToUser
    PROVE  FarInv'
<1>1. /\ Serving /\ Jumped(BlocksIn(Top), TRUE) /\ hung' = hung
      /\ UNCHANGED <<shmap, boot, leaked>>
  BY DEF JumpToUser
<1>2. hung' \in BOOLEAN
  BY <1>1 DEF FarInv, FarTypes
<1>3. QED
  BY <1>1, <1>2, JumpedStep

(* A jump back to the parent, which a hang-up may have caused.             *)
LEMMA ReturnToParentStep ==
    ASSUME FarInv, ReturnToParent
    PROVE  FarInv'
<1>1. /\ Serving /\ Jumped(BlocksIn(Top), FALSE) /\ hung' = (hung \/ Top.objs # <<>>)
      /\ UNCHANGED <<shmap, boot, leaked>>
  BY DEF ReturnToParent
<1>2. hung' \in BOOLEAN
  BY <1>1 DEF FarInv, FarTypes
<1>3. Top.objs = <<>> => BlocksIn(Top) = {}
  BY DEF BlocksIn, ToSet
<1>4. QED
  BY <1>1, <1>2, <1>3, JumpedStep

(* A call cut off by a reset gives its blocks back.                        *)
LEMMA UnwindStep ==
    ASSUME FarInv, Unwind
    PROVE  FarInv'
<1>1. cpu = "reset" /\ frames # <<>> /\ ~leaked
  BY DEF FarInv, CallsNest, Waiting, Unwind
<1>2. UsedIn(pool.nodes) = Owned(frames) \cup ToSet(shmap) \cup deferred
  BY <1>1 DEF FarInv, AllKnown
<1>3. PICK n \in Nat : PoolOk(pool, n) /\ (boot = "config" => n = InitPool)
  BY DEF FarInv, PoolFits
<1>4. PICK B : B = BlocksIn(Top)
  OBVIOUS
<1>5. /\ pool' = FreeBlocks(pool, B) /\ frames' = Front(frames)
      /\ cpu' = IF Len(frames) = 1 THEN "off" ELSE "reset"
      /\ UNCHANGED <<shmap, deferred, boot, given, calls, hung, leaked>>
  BY <1>4 DEF Unwind, Destroyed
<1>6. /\ CallsNest' /\ frames' \in Seq(Frames) /\ OneOwner(frames')
      /\ Owned(frames') = Owned(frames) \ B /\ B \subseteq Owned(frames)
  BY <1>1, <1>4, <1>5, NestLess
<1>7. PoolOk(pool', n) /\ UsedIn(pool'.nodes) = UsedIn(pool.nodes) \ B
  <2>1. B \subseteq UsedIn(pool.nodes)
    BY <1>2, <1>6
  <2>2. QED
    BY <1>3, <1>5, <2>1, FreeAll
<1>8. OneEach' /\ AllKnown'
  BY <1>2, <1>5, <1>6, <1>7 DEF FarInv, OneEach, AllKnown
<1>9. Waiting' /\ FarTypes' /\ StringsKept'
  BY <1>1, <1>5, <1>6 DEF FarInv, Waiting, FarTypes, StringsKept
<1>10. PoolFits'
  BY <1>3, <1>5, <1>7 DEF PoolFits
<1>11. QED
  BY <1>6, <1>8, <1>9, <1>10 DEF FarInv

(* A call that returns.                                                    *)
LEMMA LeaveStep ==
    ASSUME FarInv, Leave
    PROVE  FarInv'
<1>1. cpu = "kernel" /\ frames # <<>> /\ ~leaked
  BY DEF FarInv, CallsNest, Waiting, Leave, Serving, InKernel
<1>2. /\ frames' = Front(frames) /\ cpu' = "real" /\ Top.objs = <<>>
      /\ UNCHANGED <<pool, shmap, deferred, boot, given, calls, hung, leaked>>
  BY DEF Leave
<1>3. BlocksIn(Top) = {}
  BY <1>2 DEF BlocksIn, ToSet
<1>4. CallsNest' /\ frames' \in Seq(Frames) /\ OneOwner(frames') /\ Owned(frames') = Owned(frames)
  BY <1>1, <1>2, <1>3, NestLess
<1>5. OneEach' /\ AllKnown'
  BY <1>1, <1>2, <1>4 DEF FarInv, OneEach, AllKnown
<1>6. Waiting' /\ FarTypes' /\ StringsKept' /\ PoolFits'
  BY <1>1, <1>2, <1>4 DEF FarInv, Waiting, FarTypes, StringsKept, PoolFits
<1>7. QED
  BY <1>4, <1>5, <1>6 DEF FarInv

(* A call of the kernel.                                                   *)
LEMMA FdppCallStep ==
    ASSUME FarInv, FdppCall
    PROVE  FarInv'
<1>1. cpu = "real" /\ ~leaked
  BY DEF FarInv, Waiting, FdppCall
<1>2. UsedIn(pool.nodes) = Owned(frames) \cup ToSet(shmap) \cup deferred
  BY <1>1 DEF FarInv, AllKnown
<1>3. PICK n \in Nat : PoolOk(pool, n) /\ (boot = "config" => n = InitPool)
  BY DEF FarInv, PoolFits
<1>4. /\ pool' = FreeBlocks(pool, deferred) /\ deferred' = {} /\ frames' = Entered(frames, FALSE)
      /\ cpu' = "kernel" /\ given' = {} /\ calls' = FALSE /\ hung' = FALSE
      /\ UNCHANGED <<shmap, boot, leaked>>
  BY DEF FdppCall, Collected, Push, Entered
<1>5. PoolOk(pool', n) /\ UsedIn(pool'.nodes) = UsedIn(pool.nodes) \ deferred
  <2>1. deferred \subseteq UsedIn(pool.nodes)
    BY <1>2
  <2>2. QED
    BY <1>3, <1>4, <2>1, FreeAll
<1>6. frames \in Seq(Frames) /\ OneOwner(frames) /\ Len(frames) \in Nat
  BY LenProperties DEF FarInv, FarTypes, OneEach
<1>7. /\ frames' \in Seq(Frames) /\ Len(frames') = Len(frames) + 1
      /\ \A i \in 1 .. Len(frames) : frames'[i] = frames[i]
      /\ ~frames'[Len(frames) + 1].boot
      /\ OneOwner(frames') /\ Owned(frames') = Owned(frames)
  BY <1>4, <1>6, FramePushed
<1>8. frames' # <<>>
  BY <1>6, <1>7
<1>9. ASSUME NEW i \in 1 .. Len(frames'), frames'[i].boot
      PROVE  i = 1 /\ (boot # "config" => frames'[i].objs = <<>>)
  <2>1. i # Len(frames) + 1
    BY <1>7, <1>9
  <2>2. i \in 1 .. Len(frames)
    BY <1>6, <1>7, <2>1
  <2>3. QED
    BY <1>7, <1>9, <2>2 DEF FarInv, CallsNest
<1>10. CallsNest'
  BY <1>4, <1>8, <1>9 DEF CallsNest
<1>11. OneEach' /\ AllKnown'
  BY <1>2, <1>4, <1>5, <1>7 DEF FarInv, OneEach, AllKnown
<1>12. Waiting' /\ FarTypes' /\ StringsKept'
  BY <1>1, <1>4, <1>7 DEF FarInv, Waiting, FarTypes, StringsKept
<1>13. PoolFits'
  BY <1>3, <1>4, <1>5 DEF PoolFits
<1>14. QED
  BY <1>10, <1>11, <1>12, <1>13 DEF FarInv

(* Steps that only change who runs.                                        *)
LEMMA SwitchStep ==
    ASSUME FarInv, AsmCall \/ AsmReturn \/ Reset
    PROVE  FarInv'
<1>1. UNCHANGED <<pool, frames, shmap, deferred, boot, hung, leaked>> /\ cpu # "off" /\ ~leaked
  BY DEF FarInv, Waiting, AsmCall, AsmReturn, Reset, InConfig, InKernel
<1>2. cpu' \in {"real", "kernel", "reset", "off"} /\ calls' \in BOOLEAN /\ given' \in SUBSET Blocks
  BY DEF FarInv, FarTypes, AsmCall, AsmReturn, Reset
<1>3. FarTypes' /\ PoolFits' /\ StringsKept' /\ OneEach' /\ AllKnown'
  BY <1>1, <1>2 DEF FarInv, FarTypes, PoolFits, StringsKept, OneEach, AllKnown
<1>4. CallsNest'
  BY <1>1 DEF FarInv, CallsNest, AsmCall, AsmReturn, Reset
<1>5. Waiting'
  <2>1. CASE AsmCall
    BY <1>1, <2>1 DEF FarInv, Waiting, AsmCall, InConfig, InKernel
  <2>2. CASE AsmReturn
    BY <1>1, <2>2 DEF FarInv, Waiting, AsmReturn
  <2>3. CASE Reset
    BY <1>1, <2>3 DEF FarInv, Waiting, Reset
  <2>4. QED
    BY <2>1, <2>2, <2>3
<1>6. QED
  BY <1>3, <1>4, <1>5 DEF FarInv

(***************************************************************************)
(* The start-up.                                                           *)
(***************************************************************************)
LEMMA FreeDOSmainStep ==
    ASSUME FarInv, FreeDOSmain
    PROVE  FarInv'
<1>1. cpu = "off" /\ frames = <<>> /\ given = {}
  BY DEF FarInv, CallsNest, Waiting, FreeDOSmain
<1>2. /\ pool' = sminit(InitPool) /\ deferred' = {} /\ shmap' = <<>> /\ frames' = Entered(frames, TRUE)
      /\ cpu' = "kernel" /\ boot' = "config" /\ hung' = FALSE /\ leaked' = FALSE /\ UNCHANGED <<given, calls>>
  BY DEF FreeDOSmain, Push, Entered
<1>3. InitPool \in Nat \ {0}
  BY FarAssumption
<1>4. PoolOk(pool', InitPool) /\ UsedIn(pool'.nodes) = {}
  BY <1>2, <1>3, NewPool
<1>5. frames \in Seq(Frames) /\ OneOwner(frames) /\ Len(frames) = 0
  BY <1>1 DEF FarInv, FarTypes, OneEach
<1>6. /\ frames' \in Seq(Frames) /\ Len(frames') = 1
      /\ OneOwner(frames') /\ Owned(frames') = Owned(frames)
  <2>1. PICK e : e = Entered(frames, TRUE)
    OBVIOUS
  <2>2. e \in Seq(Frames) /\ Len(e) = Len(frames) + 1 /\ OneOwner(e) /\ Owned(e) = Owned(frames)
    BY <1>5, <2>1, FramePushed
  <2>3. frames' = e
    BY <1>2, <2>1
  <2>4. Len(e) = 1
    BY <1>5, <2>2
  <2>5. QED
    BY <2>2, <2>3, <2>4
<1>7. Owned(frames) = {} /\ frames' # <<>> /\ ToSet(shmap') = {}
  <2>1. DOMAIN frames = {} /\ DOMAIN shmap' = {}
    BY <1>1, <1>2
  <2>2. Owned(frames) = {} /\ ToSet(shmap') = {}
    BY <2>1 DEF Owned, ToSet
  <2>3. frames' # <<>>
    BY <1>6
  <2>4. QED
    BY <2>2, <2>3
<1>8. CallsNest'
  <2>1. \A i \in 1 .. Len(frames') : i = 1
    BY <1>6
  <2>2. QED
    BY <1>2, <1>7, <2>1 DEF CallsNest
<1>9. OneEach' /\ AllKnown'
  BY <1>2, <1>4, <1>6, <1>7 DEF OneEach, AllKnown
<1>10. Waiting' /\ FarTypes' /\ StringsKept'
  BY <1>1, <1>2, <1>6 DEF FarInv, Waiting, FarTypes, StringsKept
<1>11. PoolFits'
  BY <1>3, <1>4 DEF PoolFits
<1>12. QED
  BY <1>8, <1>9, <1>10, <1>11 DEF FarInv

(* At the end of the configuration FreeDOSmain is alone, and its pool is   *)
(* used by what waits after a hang-up only.                                *)
LEMMA PreBoot ==
    ASSUME FarInv, InKernel, Top.boot, boot = "config", Top.objs = <<>>
    PROVE  /\ frames # <<>> /\ Len(frames) = 1 /\ Owned(frames) = {} /\ ToSet(shmap) = {}
           /\ UsedIn(pool.nodes) = deferred /\ PoolOk(pool, InitPool)
           /\ pool.avail = InitPool <=> deferred = {}
           /\ deferred # {} => hung
<1>1. cpu = "kernel" /\ frames # <<>>
  BY DEF FarInv, CallsNest, InKernel
<1>2. frames \in Seq(Frames) /\ Len(frames) = 1
  BY <1>1, TopFacts
<1>3. DOMAIN frames = 1 .. 1
  BY <1>2, LenProperties
<1>4. BlocksIn(Top) = {}
  BY DEF BlocksIn, ToSet
<1>5. Owned(frames) = {}
  BY <1>2, <1>3, <1>4 DEF Owned, Top
<1>6. ToSet(shmap) = {}
  BY DEF FarInv, StringsKept, ToSet
<1>7. UsedIn(pool.nodes) = deferred
  BY <1>1, <1>5, <1>6 DEF FarInv, AllKnown
<1>8. PoolOk(pool, InitPool)
  BY DEF FarInv, PoolFits
<1>9. pool.avail = InitPool <=> deferred = {}
  BY <1>7, <1>8, EmptyPool
<1>10. deferred # {} => hung
  BY <1>1 DEF FarInv, Waiting
<1>11. QED
  BY <1>1, <1>2, <1>5, <1>6, <1>7, <1>8, <1>9, <1>10

(* The pool of the start-up is empty when configPreBoot replaces it.       *)
LEMMA PreBootStep ==
    ASSUME FarInv, NEW init \in Sizes, NEW tail \in Sizes, configPreBoot(init, tail)
    PROVE  FarInv'
<1>1. init \in Nat \ {0} /\ tail \in Nat \ {0} /\ BootPool \in Nat \ {0}
  BY FarAssumption
<1>2. cpu = "kernel" /\ deferred = {} /\ frames # <<>> /\ Len(frames) = 1 /\ Owned(frames) = {} /\ Top.objs = <<>>
  BY PreBoot DEF configPreBoot, InKernel
<1>3. PICK q, p, a, b : /\ q = sminit(BootPool) /\ p = smalloc(q, init)
                        /\ a = Found(q, init) /\ b = Found(p, tail)
  OBVIOUS
<1>4. /\ Fitting(q, init) # {} /\ Fitting(p, tail) # {} /\ pool' = smalloc(p, tail) /\ shmap' = <<a, b>>
      /\ boot' = "kernel" /\ UNCHANGED <<frames, deferred, cpu, given, calls, hung, leaked>>
  BY <1>3 DEF configPreBoot
<1>5. PoolOk(q, BootPool) /\ UsedIn(q.nodes) = {}
  BY <1>1, <1>3, NewPool
<1>6. /\ PoolOk(p, BootPool) /\ UsedIn(p.nodes) = UsedIn(q.nodes) \cup {a} /\ a \in Blocks
  BY <1>1, <1>3, <1>4, <1>5, AllocIs
<1>7. /\ PoolOk(pool', BootPool) /\ UsedIn(pool'.nodes) = UsedIn(p.nodes) \cup {b} /\ b \notin UsedIn(p.nodes)
      /\ b \in Blocks
  BY <1>1, <1>3, <1>4, <1>6, AllocIs
<1>8. a # b /\ UsedIn(pool'.nodes) = {a, b} /\ ToSet(shmap') = {a, b}
  <2>1. ToSet(<<a, b>>) = {a, b}
    BY DEF ToSet
  <2>2. QED
    BY <1>4, <1>5, <1>6, <1>7, <2>1
<1>9. StringsKept'
  BY <1>4, <1>6, <1>7, <1>8 DEF StringsKept
<1>10. CallsNest'
  <2>1. \A i \in 1 .. Len(frames) : frames[i].objs = <<>>
    BY <1>2 DEF Top
  <2>2. QED
    BY <1>4, <2>1 DEF FarInv, CallsNest
<1>11. OneEach' /\ AllKnown'
  BY <1>2, <1>4, <1>8 DEF FarInv, OneEach, AllKnown
<1>12. FarTypes' /\ Waiting'
  BY <1>4 DEF FarInv, FarTypes, Waiting
<1>13. PoolFits'
  BY <1>1, <1>4, <1>7 DEF PoolFits
<1>14. QED
  BY <1>9, <1>10, <1>11, <1>12, <1>13 DEF FarInv

(* dosobj_reinit finds a block in use only after a hang-up.                *)
LEMMA LeakStep ==
    ASSUME FarInv, dosobj_reinit
    PROVE  FarInv'
<1>1. /\ leaked' = TRUE /\ cpu' = "off" /\ frames' = <<>>
      /\ UNCHANGED <<pool, shmap, deferred, boot, given, calls, hung>>
      /\ InKernel /\ Top.boot /\ boot = "config" /\ Top.objs = <<>> /\ pool.avail < InitPool
  BY DEF dosobj_reinit
<1>2. cpu = "kernel" /\ ToSet(shmap) = {} /\ hung
  <2>1. pool.avail # InitPool
    BY <1>1, FarAssumption
  <2>2. QED
    BY <1>1, <2>1, PreBoot DEF InKernel
<1>3. frames' \in Seq(Frames) /\ Len(frames') = 0
  BY <1>1
<1>4. Owned(frames') = {} /\ OneOwner(frames')
  BY <1>1 DEF Owned, OneOwner, Holds
<1>5. CallsNest' /\ OneEach' /\ AllKnown'
  BY <1>1, <1>2, <1>3, <1>4 DEF CallsNest, OneEach, AllKnown
<1>6. FarTypes' /\ Waiting' /\ StringsKept' /\ PoolFits'
  BY <1>1, <1>2, <1>3 DEF FarInv, FarTypes, Waiting, StringsKept, PoolFits
<1>7. QED
  BY <1>5, <1>6 DEF FarInv

(* The string for the shell is replaced.                                   *)
LEMMA ReplaceTailStep ==
    ASSUME FarInv, NEW tail \in Sizes, ReplaceTail(tail)
    PROVE  FarInv'
<1>1. tail \in Nat \ {0}
  BY FarAssumption
<1>2. cpu = "kernel" /\ frames # <<>> /\ boot = "kernel"
  BY DEF FarInv, CallsNest, ReplaceTail, InKernel
<1>3. PICK a, b : a # b /\ a \in Blocks /\ b \in Blocks /\ shmap = <<a, b>>
  BY <1>2 DEF FarInv, StringsKept
<1>4. ToSet(shmap) = {a, b} /\ shmap[1] = a /\ shmap[2] = b
  BY <1>3 DEF ToSet
<1>5. UsedIn(pool.nodes) = Owned(frames) \cup {a, b} \cup deferred
  BY <1>2, <1>4 DEF FarInv, AllKnown
<1>6. PICK n \in Nat : PoolOk(pool, n)
  BY DEF FarInv, PoolFits
<1>7. PICK p, c : p = smalloc(pool, tail) /\ c = Found(pool, tail)
  OBVIOUS
<1>8. /\ Fitting(pool, tail) # {} /\ pool' = smfree(p, b) /\ shmap' = <<a, c>> /\ boot' = "stepped"
      /\ UNCHANGED <<frames, deferred, cpu, given, calls, hung, leaked>>
  BY <1>4, <1>7 DEF ReplaceTail
<1>9. /\ PoolOk(p, n) /\ UsedIn(p.nodes) = UsedIn(pool.nodes) \cup {c}
      /\ c \notin UsedIn(pool.nodes) /\ c \in Blocks
  BY <1>1, <1>6, <1>7, <1>8, AllocIs
<1>10. PoolOk(pool', n) /\ UsedIn(pool'.nodes) = UsedIn(p.nodes) \ {b}
  <2>1. b \in UsedIn(p.nodes)
    BY <1>5, <1>9
  <2>2. QED
    BY <1>8, <1>9, <2>1, FreeIs
<1>11. a # c /\ ToSet(shmap') = {a, c}
  <2>1. ToSet(<<a, c>>) = {a, c}
    BY DEF ToSet
  <2>2. QED
    BY <1>5, <1>8, <1>9, <2>1
<1>12. b \notin Owned(frames) /\ b \notin deferred /\ a \notin Owned(frames) /\ a \notin deferred
  BY <1>4 DEF FarInv, OneEach
<1>13. OneEach'
  BY <1>5, <1>8, <1>9, <1>11, <1>12 DEF FarInv, OneEach
<1>14. AllKnown'
  BY <1>3, <1>5, <1>8, <1>9, <1>10, <1>11, <1>12 DEF AllKnown
<1>15. StringsKept'
  BY <1>3, <1>8, <1>9, <1>11 DEF StringsKept
<1>16. CallsNest' /\ FarTypes' /\ Waiting'
  BY <1>2, <1>8 DEF FarInv, CallsNest, FarTypes, Waiting
<1>17. PoolFits'
  BY <1>8, <1>10 DEF PoolFits
<1>18. QED
  BY <1>13, <1>14, <1>15, <1>16, <1>17 DEF FarInv

(* The jump to the shell takes the strings of Config along.                *)
LEMMA JumpToShellStep ==
    ASSUME FarInv, NEW size \in Sizes, JumpToShell(size)
    PROVE  FarInv'
<1>1. size \in Nat \ {0}
  BY FarAssumption
<1>2. cpu = "kernel" /\ frames # <<>> /\ boot \in {"kernel", "stepped"} /\ Top.boot
  BY DEF FarInv, CallsNest, JumpToShell, InKernel
<1>3. Len(frames) = 1 /\ Top.objs = <<>>
  BY <1>2, TopFacts
<1>4. BlocksIn(Top) = {}
  BY <1>3 DEF BlocksIn, ToSet
<1>5. PICK T : T = ToSet(shmap) /\ T \subseteq Blocks
  <2>1. PICK a, b : a \in Blocks /\ b \in Blocks /\ shmap = <<a, b>>
    BY <1>2 DEF FarInv, StringsKept
  <2>2. ToSet(<<a, b>>) = {a, b}
    BY DEF ToSet
  <2>3. QED
    BY <2>1, <2>2
<1>6. UsedIn(pool.nodes) = Owned(frames) \cup T \cup deferred
  BY <1>2, <1>5 DEF FarInv, AllKnown
<1>7. PICK n \in Nat : PoolOk(pool, n)
  BY DEF FarInv, PoolFits
<1>8. PICK c : c = Found(pool, size)
  OBVIOUS
<1>9. /\ Fitting(pool, size) # {} /\ pool' = smalloc(pool, size) /\ boot' = "over" /\ shmap' = <<>>
      /\ deferred' = deferred \cup ({c} \cup T) /\ given' = {c} \cup T
      /\ frames' = Front(frames) /\ cpu' = "real" /\ calls' = TRUE /\ UNCHANGED <<hung, leaked>>
  BY <1>5, <1>8 DEF JumpToShell
<1>10. /\ PoolOk(pool', n) /\ UsedIn(pool'.nodes) = UsedIn(pool.nodes) \cup {c}
       /\ c \notin UsedIn(pool.nodes) /\ c \in Blocks
  BY <1>1, <1>7, <1>8, <1>9, AllocIs
<1>11. /\ CallsNest' /\ frames' \in Seq(Frames) /\ OneOwner(frames')
       /\ Owned(frames') = Owned(frames)
  BY <1>2, <1>3, <1>4, <1>9, NestLess
<1>12. ToSet(shmap') = {} /\ Owned(frames) \cap (T \cup deferred) = {}
  BY <1>5, <1>9 DEF ToSet, FarInv, OneEach
<1>13. OneEach'
  BY <1>6, <1>9, <1>10, <1>11, <1>12 DEF OneEach
<1>14. AllKnown'
  BY <1>6, <1>9, <1>10, <1>11, <1>12 DEF AllKnown
<1>15. FarTypes' /\ StringsKept'
  BY <1>5, <1>9, <1>10, <1>11 DEF FarInv, FarTypes, StringsKept
<1>16. Waiting'
  BY <1>2, <1>9 DEF FarInv, Waiting
<1>17. PoolFits'
  BY <1>9, <1>10 DEF PoolFits
<1>18. QED
  BY <1>11, <1>13, <1>14, <1>15, <1>16, <1>17 DEF FarInv

(***************************************************************************)
(* The theorems.                                                           *)
(***************************************************************************)
(* The invariant holds at first.                                           *)
LEMMA FarInvInit == FarInit => FarInv
<1> SUFFICES ASSUME FarInit
             PROVE  FarInv
  OBVIOUS
<1>1. /\ pool = sminit(InitPool) /\ frames = <<>> /\ shmap = <<>> /\ deferred = {}
      /\ boot = "over" /\ cpu = "off" /\ given = {} /\ calls = FALSE /\ hung = FALSE /\ leaked = FALSE
  BY DEF FarInit
<1>2. InitPool \in Nat \ {0} /\ PoolOk(pool, InitPool)
  BY <1>1, FarAssumption, NewPool
<1>3. frames \in Seq(Frames) /\ Len(frames) = 0 /\ DOMAIN frames = {} /\ DOMAIN shmap = {}
  BY <1>1
<1>4. Owned(frames) = {} /\ OneOwner(frames) /\ ToSet(shmap) = {}
  BY <1>3 DEF Owned, OneOwner, Holds, ToSet
<1>5. FarTypes /\ PoolFits /\ StringsKept
  BY <1>1, <1>2, <1>3 DEF FarTypes, PoolFits, StringsKept
<1>6. CallsNest /\ OneEach /\ AllKnown /\ Waiting
  BY <1>1, <1>3, <1>4 DEF CallsNest, OneEach, AllKnown, Waiting
<1>7. QED
  BY <1>5, <1>6 DEF FarInv

(* Every step keeps it.                                                    *)
LEMMA FarInvStep == FarInv /\ [FarNext]_vars => FarInv'
<1> SUFFICES ASSUME FarInv, [FarNext]_vars
             PROVE  FarInv'
  OBVIOUS
<1>1. CASE FdppCall
  BY <1>1, FdppCallStep
<1>2. CASE Leave
  BY <1>2, LeaveStep
<1>3. CASE AsmCall \/ AsmReturn \/ Reset
  BY <1>3, SwitchStep
<1>4. CASE JumpToUser
  BY <1>4, JumpToUserStep
<1>5. CASE ReturnToParent
  BY <1>5, ReturnToParentStep
<1>6. CASE DropObj
  BY <1>6, DropObjStep
<1>7. CASE Unwind
  BY <1>7, UnwindStep
<1>8. CASE FreeDOSmain
  BY <1>8, FreeDOSmainStep
<1>9. CASE dosobj_reinit
  BY <1>9, LeakStep
<1>10. CASE \E size \in Sizes : MakeObj(size) \/ ReplaceTail(size) \/ JumpToShell(size)
  <2>1. PICK size \in Sizes : MakeObj(size) \/ ReplaceTail(size) \/ JumpToShell(size)
    BY <1>10
  <2>2. QED
    BY <2>1, MakeObjStep, ReplaceTailStep, JumpToShellStep
<1>11. CASE \E size, part \in Sizes : MakeWithPart(size, part) \/ configPreBoot(size, part)
  <2>1. PICK size \in Sizes, part \in Sizes : MakeWithPart(size, part) \/ configPreBoot(size, part)
    BY <1>11
  <2>2. QED
    BY <2>1, MakeWithPartStep, PreBootStep
<1>12. CASE UNCHANGED vars
  <2>1. UNCHANGED <<pool, frames, shmap, deferred, boot, cpu, given, calls, hung, leaked>>
    BY <1>12 DEF vars
  <2>2. QED
    BY <2>1 DEF FarInv, FarTypes, PoolFits, CallsNest, StringsKept, OneEach, AllKnown, Waiting
<1>13. QED
  BY <1>1, <1>2, <1>3, <1>4, <1>5, <1>6, <1>7, <1>8, <1>9, <1>10, <1>11, <1>12 DEF FarNext

(* The invariant of the pool and of the calls.                             *)
LEMMA FarInvAlways == FarSpec => []FarInv
<1>1. FarInit => FarInv
  BY FarInvInit
<1>2. FarInv /\ [FarNext]_vars => FarInv'
  BY FarInvStep
<1>3. QED
  BY <1>1, <1>2, PTL DEF FarSpec

(* The blocks in use are those the invariant says.                         *)
LEMMA UsedHeld == Used = UsedIn(pool.nodes) /\ Held = Owned(frames) \cup ToSet(shmap) \cup deferred
<1>1. Used = UsedIn(pool.nodes)
  BY DEF Used, UsedIn
<1>2. Held = Owned(frames) \cup ToSet(shmap) \cup deferred
  BY DEF Held, Owned
<1>3. QED
  BY <1>1, <1>2

(* The blocks in use are those of the objects in the scopes of all calls,  *)
(* of their parts, of the strings of Config and of what waits: nothing is  *)
(* freed twice or lost by a jump or a reset.  The nodes lie side by side   *)
(* without two free neighbours, and avail is the sum of the free ones.     *)
THEOREM PoolIsExact == FarSpec => []PoolExact
<1>1. ASSUME FarInv
      PROVE  PoolExact
  <2>1. PICK n \in Nat : PoolOk(pool, n)
    BY <1>1 DEF FarInv, PoolFits
  <2>2. PICK ns : ns = pool.nodes
    OBVIOUS
  <2>3. Tiles(ns, n) /\ Apart(ns, {}) /\ pool.avail = Cardinality(FreeCells(ns))
    BY <2>1, <2>2 DEF PoolOk
  <2>4. /\ DOMAIN ns = 1 .. Len(ns) /\ Len(ns) \in Nat
        /\ \A i \in 1 .. Len(ns) : ns[i].at \in Nat /\ ns[i].size \in Nat \ {0} /\ ns[i].used \in BOOLEAN
    BY <2>3, TileFacts
  <2>5. cpu # "off" => Used = Held
    BY <1>1, UsedHeld DEF FarInv, AllKnown
  <2>6. \A i \in DOMAIN ns : ns[i].size > 0
    BY <2>4
  <2>7. ASSUME NEW i \in DOMAIN ns \ {1}
        PROVE  ns[i].at = ns[i - 1].at + ns[i - 1].size /\ (ns[i].used \/ ns[i - 1].used)
    <3>1. i - 1 \in 1 .. Len(ns) - 1 /\ (i - 1) + 1 = i
      BY <2>4
    <3>2. ns[(i - 1) + 1].at = EndOf(ns[i - 1])
      BY <2>3, <3>1 DEF Tiles
    <3>3. ns[i - 1].used \/ ns[(i - 1) + 1].used
      BY <2>3, <3>1 DEF Apart
    <3>4. QED
      BY <3>1, <3>2, <3>3 DEF EndOf
  <2>8. pool.avail = FoldSet(LAMBDA m, sum : sum + m.size, 0, {m \in ToSet(ns) : ~m.used})
    BY <2>3, FreeSum
  <2>9. QED
    BY <2>2, <2>5, <2>6, <2>7, <2>8 DEF PoolExact
<1>2. QED
  BY <1>1, FarInvAlways, PTL

(* What a jump out of the kernel was given stays in the pool until the     *)
(* kernel is called again.                                                 *)
THEOREM JumpArgsStay == FarSpec => []JumpArgsKept
<1>1. ASSUME FarInv
      PROVE  JumpArgsKept
  <2>1. given \subseteq deferred /\ (cpu # "real" => given = {})
    BY <1>1 DEF FarInv, Waiting
  <2>2. cpu # "off" => deferred \subseteq Used
    BY <1>1, UsedHeld DEF FarInv, AllKnown
  <2>3. QED
    BY <2>1, <2>2 DEF JumpArgsKept
<1>2. QED
  BY <1>1, FarInvAlways, PTL

(* dosobj_reinit finds no block in use, unless a program of INSTALL= was   *)
(* ended by a hang-up and nothing has called the kernel since.             *)
THEOREM NothingIsLeaked == FarSpec => []NothingLeaked
<1>1. ASSUME FarInv
      PROVE  NothingLeaked
  BY <1>1 DEF FarInv, Waiting, NothingLeaked
<1>2. QED
  BY <1>1, FarInvAlways, PTL
=============================================================================
