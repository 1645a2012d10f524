----------------------------- MODULE FatProofs -----------------------------
(***************************************************************************)
(* Theorems about the FAT file system, for disks and directories of every  *)
(* size and any number of open files, whichever write of the FAT fails.    *)
(*                                                                         *)
(* The operators of FatFs take the work of a call as a record W and give a *)
(* new one back; the lemmas are about such records, one per operator.      *)
(*                                                                         *)
(* The first part is about the types and the free count, the second about  *)
(* chains, directories and the SFTs.  The invariant of the second speaks   *)
(* of chains through a ghost, Q, that gives every slot the sequence of its *)
(* clusters.  A lemma says of each operator of FatFs what it makes of Q,   *)
(* and one of each call that there is a Q after it.                        *)
(***************************************************************************)
EXTENDS FatFs, SequenceTheorems, FiniteSetTheorems, WellFoundedInduction, TLAPS

(* What a FAT entry, the start of a file, and a directory entry may be. *)
FatEntry == {FREE, LAST} \cup Cluster
Start    == {FREE} \cup Cluster
Kinds    == {"unused", "deleted", "dot", "file", "dir", "lfn", "label"}
DirEntry == [kind: Kinds, name: FileName \cup DirName \cup {NoName}, start: Start, size: Nat]

Work == [fat: [Cluster -> FatEntry], nfree: Int, hint: Cluster \cup {UNKNOWN},
         dirent: [Slot -> DirEntry], links: Int, broken: BOOLEAN, ok: BOOLEAN,
         start: Start, size: Nat, cu: Start, rel: Nat, off: Nat, got: Int,
         shared: {<<>>} \cup (Start \X Nat)]

(* The free count of a table, unless it is unknown. *)
FreeOf(f)    == {c \in Cluster : f[c] = FREE}
Counts(f, n) == n # UNKNOWN => n = Cardinality(FreeOf(f))
Good         == {W \in Work : Counts(W.fat, W.nfree)}

OpenFile == [open: {TRUE}, slot: Slot \cup {NoSlot}, mode: {"r", "rw"}, start: Start, size: Nat, posit: Nat,
             cu: Start, rel: Nat, dirty: BOOLEAN, fdate: BOOLEAN]

(* The types.  An entry of the FAT is a cluster or a mark.  A create may *)
(* leave NoSlot in an SFT as far as types go.                            *)
TypeInv ==
    /\ fat \in [Cluster -> FatEntry] /\ nfree \in Int /\ hint \in Cluster \cup {UNKNOWN}
    /\ dirent \in [Slot -> DirEntry]
    /\ sft \in [Fd -> OpenFile \cup {Closed}]
    /\ mix \in Mixes
CountInv == TypeInv /\ FreeCountExact

(***************************************************************************)
(* Repetition.                                                             *)
(***************************************************************************)
(* What holds at 0 and goes from each step to the next holds at n.         *)
LEMMA UpTheSteps ==
    ASSUME NEW n \in Nat, NEW B, 0 \in B, \A i \in 1 .. n : i - 1 \in B => i \in B
    PROVE  n \in B
<1> DEFINE R == {ss \in Nat \X Nat : ss[1] < ss[2]}
           S == {i \in 0 .. n : i \notin B}
<1>1. IsWellFoundedOn(R, Nat)
  BY NatLessThanWellFounded DEF OpToRel
<1> SUFFICES ASSUME S # {}
             PROVE  FALSE
  OBVIOUS
<1>2. PICK i \in S : \A j \in S : <<j, i>> \notin R
  <2>1. S \subseteq Nat
    OBVIOUS
  <2> HIDE DEF R, S
  <2> QED  BY <1>1, <2>1, WFMin
<1>3. i \in 1 .. n
  BY <1>2
<1>4. i - 1 \notin S
  <2>1. i - 1 \in Nat /\ i \in Nat /\ i - 1 < i
    BY <1>3
  <2>2. <<i - 1, i>> \in R
    BY <2>1
  <2>3. QED
    BY <1>2, <2>2
<1>5. i - 1 \in B
  BY <1>3, <1>4
<1>6. QED
  BY <1>2, <1>3, <1>5

(* g holds the values of F applied again and again to x. *)
Iteration(g, T, F, x, n) ==
    g \in [0 .. n -> T] /\ g[0] = x /\ \A i \in 1 .. n : g[i] = F[g[i - 1]]

(* A function can be applied n times. *)
LEMMA Iterates ==
    ASSUME NEW T, NEW F \in [T -> T], NEW x \in T, NEW n \in Nat
    PROVE  \E g : Iteration(g, T, F, x, n)
<1> DEFINE P(k, g) == g[0] = x /\ \A i \in 1 .. k : g[i] = F[g[i - 1]]
           B == {k \in 0 .. n : \E g \in [0 .. k -> T] : P(k, g)}
<1>1. 0 \in B
  <2>1. [i \in 0 .. 0 |-> x] \in [0 .. 0 -> T] /\ P(0, [i \in 0 .. 0 |-> x])
    OBVIOUS
  <2>2. \E g \in [0 .. 0 -> T] : P(0, g)
    BY <2>1
  <2>3. QED
    BY <2>2
<1>2. ASSUME NEW k \in 1 .. n, k - 1 \in B
      PROVE  k \in B
  <2>1. PICK g \in [0 .. k - 1 -> T] : P(k - 1, g)
    BY <1>2
  <2> DEFINE h == [i \in 0 .. k |-> IF i < k THEN g[i] ELSE F[g[k - 1]]]
  <2>2. h \in [0 .. k -> T]
    BY <2>1
  <2>3. P(k, h)
    BY <2>1
  <2>4. QED
    BY <2>2, <2>3
<1>3. n \in B
  <2> HIDE DEF B
  <2> QED  BY <1>1, <1>2, UpTheSteps
<1>4. QED
  BY <1>3 DEF Iteration

(***************************************************************************)
(* The FAT: types and the free count.                                      *)
(***************************************************************************)
(* The lowest of a set of clusters is in it.                               *)
LEMMA LowestIn ==
    ASSUME NEW S, S \subseteq Nat, S # {}
    PROVE  Lowest(S) \in S /\ \A x \in S : Lowest(S) <= x
<1> DEFINE R == {ss \in Nat \X Nat : ss[1] < ss[2]}
<1>1. IsWellFoundedOn(R, Nat)
  BY NatLessThanWellFounded DEF OpToRel
<1>2. PICK i \in S : \A j \in S : <<j, i>> \notin R
  <2> HIDE DEF R
  <2> QED  BY <1>1, WFMin
<1>3. ASSUME NEW j \in S
      PROVE  i <= j
  <2>1. <<j, i>> \in Nat \X Nat /\ <<j, i>> \notin R
    BY <1>2
  <2>2. QED
    BY <2>1
<1>4. QED
  BY <1>3 DEF Lowest

(* Clusters are numbers from 2 on, and no mark is one. *)
LEMMA ClusterFacts ==
    /\ Cluster \subseteq Nat /\ IsFiniteSet(Cluster) /\ LastCluster \in Nat
    /\ FREE \notin Cluster /\ LAST \notin Cluster /\ ERROR \notin Cluster /\ UNKNOWN \notin Cluster
    /\ FREE # LAST /\ FREE # ERROR /\ LAST # ERROR
<1>1. LastCluster \in Nat \ {0, 1}
  BY FatAssumption
<1>2. IsFiniteSet(Cluster)
  BY <1>1, FS_Interval DEF Cluster
<1>3. QED
  BY <1>1, <1>2 DEF Cluster, FREE, LAST, ERROR, UNKNOWN

(* The free count follows one change of an entry. *)
LEMMA CountOne ==
    ASSUME NEW f \in [Cluster -> FatEntry], NEW c \in Cluster, NEW new \in FatEntry
    PROVE  Cardinality(FreeOf([f EXCEPT ![c] = new])) = Cardinality(FreeOf(f)) + FreeChange(f[c], new)
<1> DEFINE g == [f EXCEPT ![c] = new]
<1>1. IsFiniteSet(FreeOf(f)) /\ IsFiniteSet(FreeOf(g))
  BY ClusterFacts, FS_Subset DEF FreeOf
<1>2. Cardinality(FreeOf(f)) \in Nat /\ Cardinality(FreeOf(g)) \in Nat
  BY <1>1, FS_CardinalityType
<1>3. CASE f[c] # FREE /\ new = FREE
  <2>1. FreeOf(g) = FreeOf(f) \cup {c} /\ c \notin FreeOf(f)
    BY <1>3 DEF FreeOf
  <2>2. QED
    BY <1>1, <1>2, <1>3, <2>1, FS_AddElement DEF FreeChange
<1>4. CASE f[c] = FREE /\ new # FREE
  <2>1. FreeOf(g) = FreeOf(f) \ {c} /\ c \in FreeOf(f)
    BY <1>4 DEF FreeOf
  <2>2. QED
    BY <1>1, <1>2, <1>4, <2>1, FS_RemoveElement DEF FreeChange
<1>5. CASE f[c] = FREE <=> new = FREE
  <2>1. FreeOf(g) = FreeOf(f)
    BY <1>5 DEF FreeOf
  <2>2. QED
    BY <1>2, <1>5, <2>1 DEF FreeChange
<1>6. QED
  BY <1>3, <1>4, <1>5

(* link_fat. *)
LEMMA LinkGood ==
    ASSUME NEW W \in Good, NEW c, NEW new \in FatEntry
    PROVE  /\ LinkFat(W, c, new) \in Good
           /\ LinkFat(W, c, new).ok = TRUE => c \in Cluster /\ W.ok = TRUE
           /\ LinkFat(W, c, new).dirent = W.dirent
<1> DEFINE L == LinkFat(W, c, new)
<1>1. CASE c \notin Cluster \/ W.links = 0
  <2>1. L = [W EXCEPT !.ok = FALSE, !.broken = TRUE]
    BY <1>1 DEF LinkFat
  <2>2. QED
    BY <2>1 DEF Good, Work
<1>2. CASE c \in Cluster /\ W.links # 0
  <2> DEFINE A == [W EXCEPT !.fat[c] = new]
             m == IF W.nfree = UNKNOWN THEN W.nfree ELSE W.nfree + FreeChange(W.fat[c], new)
             B == [A EXCEPT !.nfree = m]
             k == IF W.links = Always THEN W.links ELSE W.links - 1
  <2>1. L = [W EXCEPT !.fat[c] = new, !.nfree = m, !.links = k]
    BY <1>2 DEF LinkFat
  <2>2. W \in Work /\ W.fat \in [Cluster -> FatEntry] /\ W.nfree \in Int /\ W.links \in Int
        /\ Counts(W.fat, W.nfree)
    BY DEF Good, Work
  <2>3. A \in Work /\ A.fat = [W.fat EXCEPT ![c] = new] /\ A.nfree = W.nfree /\ A.links = W.links
        /\ A.ok = W.ok /\ A.dirent = W.dirent
    BY <1>2, <2>2 DEF Work
  <2>4. m \in Int /\ k \in Int
    BY <2>2 DEF FreeChange
  <2>4a. /\ W.nfree = UNKNOWN => m = UNKNOWN
         /\ W.nfree # UNKNOWN => m = W.nfree + FreeChange(W.fat[c], new)
    OBVIOUS
  <2>4b. L = [B EXCEPT !.links = k]
    <3> HIDE DEF L, m, k
    <3> QED  BY <2>1, <2>2 DEF Work
  <2> HIDE DEF A, m, k
  <2>5. /\ B \in Work /\ B.fat = A.fat /\ B.links = A.links /\ B.ok = A.ok /\ B.dirent = A.dirent
        /\ B.nfree = m
    BY <2>3, <2>4 DEF Work
  <2> HIDE DEF B, L
  <2>6. L \in Work /\ L.fat = B.fat /\ L.nfree = B.nfree /\ L.ok = B.ok /\ L.dirent = B.dirent
    BY <2>4, <2>4b, <2>5 DEF Work
  <2>7. Counts(L.fat, L.nfree)
    <3>1. Cardinality(FreeOf(L.fat)) = Cardinality(FreeOf(W.fat)) + FreeChange(W.fat[c], new)
      BY <1>2, <2>2, <2>3, <2>5, <2>6, CountOne
    <3>2. W.nfree = UNKNOWN => L.nfree = UNKNOWN
      BY <2>4a, <2>5, <2>6
    <3>3. W.nfree # UNKNOWN => L.nfree = W.nfree + FreeChange(W.fat[c], new)
      BY <2>4a, <2>5, <2>6
    <3>4. QED
      BY <2>2, <3>1, <3>2, <3>3 DEF Counts
  <2>8. QED
    BY <1>2, <2>3, <2>5, <2>6, <2>7 DEF Good, L
<1>3. QED
  BY <1>1, <1>2

(* What next_cluster returns. *)
LEMMA NextType ==
    ASSUME NEW f \in [Cluster -> FatEntry], NEW c
    PROVE  NextCluster(f, c) \in FatEntry \cup {ERROR} /\ NextCluster(f, c) \in Int
<1>1. FatEntry \subseteq Int /\ ERROR \in Int
  BY ClusterFacts DEF FatEntry, FREE, LAST, ERROR
<1>2. QED
  BY <1>1 DEF NextCluster

(* find_fat_free finds a free cluster, or none. *)
LEMMA FindsFree ==
    ASSUME NEW f \in [Cluster -> FatEntry], NEW h
    PROVE  LET c == FindFatFree(f, h) IN c = LAST \/ (c \in Cluster /\ f[c] = FREE)
<1> DEFINE A == FreeAhead(f, h)
           B == FreeBefore(f, h)
           c == FindFatFree(f, h)
<1>1. A \subseteq FreeOf(f) /\ B \subseteq FreeOf(f)
  BY DEF FreeAhead, FreeBefore, FreeOf
<1>2. \A S : S \subseteq FreeOf(f) /\ S # {} => Lowest(S) \in FreeOf(f)
  BY ClusterFacts, LowestIn DEF FreeOf
<1> HIDE DEF A, B
<1>3. c = LAST \/ c \in FreeOf(f)
  BY <1>1, <1>2 DEF FindFatFree, LowestOr, A, B
<1>4. QED
  BY <1>3 DEF FreeOf

(* Append1, after a link of the new cluster. *)
LEMMA AppendGood ==
    ASSUME NEW W \in Good, NEW c \in Cluster
    PROVE  /\ Append1(W, c) \in Good
           /\ Append1(W, c).dirent = W.dirent
           /\ Append1(W, c).ok = TRUE /\ W.ok = TRUE => Append1(W, c).got = c
<1> DEFINE X == LinkFat(W, W.cu, c)
<1>1. c \in FatEntry /\ c \in Int /\ c \in Start
  BY ClusterFacts DEF FatEntry, Start
<1>2. X \in Good /\ X.dirent = W.dirent
  BY <1>1, LinkGood
<1> HIDE DEF X
<1>3. [X EXCEPT !.got = c] \in Good /\ [X EXCEPT !.got = c].dirent = W.dirent /\ [X EXCEPT !.got = c].got = c
  BY <1>1, <1>2 DEF Good, Work
<1>4. /\ [W EXCEPT !.start = c, !.got = c] \in Good
      /\ [W EXCEPT !.start = c, !.got = c].dirent = W.dirent
      /\ [W EXCEPT !.start = c, !.got = c].got = c
  BY <1>1 DEF Good, Work
<1>5. Refused(W) \in Good /\ Refused(W).dirent = W.dirent /\ Refused(W).ok = FALSE
  BY DEF Good, Work, Refused
<1>6. Append1(W, c) \in {[X EXCEPT !.got = c], [W EXCEPT !.start = c, !.got = c], Refused(W)}
  BY DEF Append1, X
<1>7. QED
  BY <1>3, <1>4, <1>5, <1>6

(* extend. *)
LEMMA ExtendGood ==
    ASSUME NEW W \in Good
    PROVE  /\ Extend(W) \in Good
           /\ Extend(W).dirent = W.dirent
           /\ Extend(W).ok = TRUE => Extend(W).got \in Cluster
<1> DEFINE c == FindFatFree(W.fat, W.hint)
           H == [W EXCEPT !.hint = c]
           X == LinkFat(H, c, LAST)
           N == [W EXCEPT !.hint = UNKNOWN, !.ok = FALSE]
<1>1. c = LAST \/ c \in Cluster
  <2>1. W.fat \in [Cluster -> FatEntry]
    BY DEF Good, Work
  <2>2. QED
    BY <2>1, FindsFree
<1>2. Extend(W) = IF c = LAST THEN N ELSE IF X.ok THEN Append1(X, c) ELSE X
  BY DEF Extend, ExtendWith, Then
<1> HIDE DEF c
<1>3. N \in Good /\ N.dirent = W.dirent /\ N.ok = FALSE
  BY DEF Good, Work
<1>4. ASSUME c \in Cluster
      PROVE  X \in Good /\ X.dirent = W.dirent
  <2>1. H \in Good /\ H.dirent = W.dirent
    BY <1>4 DEF Good, Work
  <2>2. LAST \in FatEntry
    BY DEF FatEntry
  <2> HIDE DEF H
  <2>3. QED
    BY <2>1, <2>2, LinkGood
<1> HIDE DEF X, N
<1>5. c \in Cluster => X.ok \in BOOLEAN
  BY <1>4 DEF Good, Work
<1>6. CASE c = LAST
  BY <1>2, <1>3, <1>6
<1>7. CASE c # LAST /\ X.ok = TRUE
  <2>1. Extend(W) = Append1(X, c)
    BY <1>2, <1>7
  <2>2. QED
    BY <1>1, <1>4, <1>7, <2>1, AppendGood
<1>8. CASE c # LAST /\ X.ok = FALSE
  <2>1. Extend(W) = X
    BY <1>2, <1>8
  <2>2. QED
    BY <1>1, <1>4, <1>8, <2>1
<1>9. QED
  BY <1>1, <1>5, <1>6, <1>7, <1>8

(* What map_cluster does before it follows the chain, and at each link. *)
LEMMA MapStarts ==
    ASSUME NEW W \in Good, NEW mode
    PROVE  Rewound(Entered(W, mode)) \in Good /\ Rewound(Entered(W, mode)).dirent = W.dirent
<1> DEFINE X == Extend(W)
           Y == [X EXCEPT !.cu = X.got]
           E == Entered(W, mode)
<1>1. X \in Good /\ X.dirent = W.dirent /\ (X.ok = TRUE => X.got \in Cluster)
  BY ExtendGood
<1>2. X.ok \in BOOLEAN
  BY <1>1 DEF Good, Work
<1>3. E \in {W, Refused(W), X} \/ (X.ok = TRUE /\ E = Y)
  BY <1>2 DEF Entered, Then
<1>4. Refused(W) \in Good /\ Refused(W).dirent = W.dirent
  BY DEF Good, Work, Refused
<1> HIDE DEF X
<1>5. X.ok = TRUE => Y \in Good /\ Y.dirent = W.dirent
  BY <1>1 DEF Good, Work, Start
<1> HIDE DEF Y, E
<1>6. E \in Good /\ E.dirent = W.dirent
  BY <1>1, <1>3, <1>4, <1>5
<1>7. [E EXCEPT !.cu = E.start, !.rel = 0] \in Good
      /\ [E EXCEPT !.cu = E.start, !.rel = 0].dirent = W.dirent
  BY <1>6 DEF Good, Work
<1>8. Rewound(E) \in {E, [E EXCEPT !.cu = E.start, !.rel = 0]}
  BY DEF Rewound
<1>9. QED
  BY <1>6, <1>7, <1>8 DEF E

(* A step to the next cluster of the chain. *)
LEMMA MovedGood ==
    ASSUME NEW W \in Good, NEW c \in Cluster
    PROVE  Moved(W, c) \in Good /\ Moved(W, c).dirent = W.dirent
<1> DEFINE r == W.rel + 1
           A == [W EXCEPT !.cu = c]
<1>1. A \in Good /\ A.dirent = W.dirent /\ A.rel = W.rel /\ r \in Nat
  BY DEF Good, Work, Start
<1>2. Moved(W, c) = [A EXCEPT !.rel = r]
  BY DEF Moved, Good, Work
<1> HIDE DEF r, A
<1>3. [A EXCEPT !.rel = r] \in Good /\ [A EXCEPT !.rel = r].dirent = W.dirent
  BY <1>1 DEF Good, Work
<1>4. QED
  BY <1>2, <1>3

(* A link of the chain followed, or the chain extended at its end. *)
LEMMA ForwardGood ==
    ASSUME NEW W \in Good, NEW mode
    PROVE  Forward(W, mode) \in Good /\ Forward(W, mode).dirent = W.dirent
<1> DEFINE X == Extend(W)
           c == NextCluster(W.fat, W.cu)
<1>1. X \in Good /\ X.dirent = W.dirent /\ (X.ok = TRUE => X.got \in Cluster)
  BY ExtendGood
<1>2. X.ok \in BOOLEAN
  BY <1>1 DEF Good, Work
<1>3. c \in FatEntry \cup {ERROR}
  <2>1. W.fat \in [Cluster -> FatEntry]
    BY DEF Good, Work
  <2>2. QED
    BY <2>1, NextType
<1>4. \/ Forward(W, mode) \in {W, Refused(W), X}
      \/ c \in Cluster /\ Forward(W, mode) = Moved(W, c)
      \/ X.ok = TRUE /\ Forward(W, mode) = Moved(X, X.got)
  <2> HIDE DEF c, X
  <2>1. Forward(W, mode) \in {W, ForwardTo(W, mode, c)}
    BY DEF Forward, c
  <2>2. ForwardTo(W, mode, c) = IF c \in {FREE, ERROR} \/ (c = LAST /\ mode = "read") THEN Refused(W)
                                ELSE IF c # LAST THEN Moved(W, c)
                                ELSE IF X.ok THEN Moved(X, X.got) ELSE X
    BY DEF ForwardTo, Then, X
  <2>3. QED
    BY <1>2, <1>3, <2>1, <2>2 DEF FatEntry
<1>5. Refused(W) \in Good /\ Refused(W).dirent = W.dirent
  BY DEF Good, Work, Refused
<1> HIDE DEF X, c
<1>6. c \in Cluster => Moved(W, c) \in Good /\ Moved(W, c).dirent = W.dirent
  BY MovedGood
<1>7. X.ok = TRUE => Moved(X, X.got) \in Good /\ Moved(X, X.got).dirent = W.dirent
  BY <1>1, MovedGood
<1>8. QED
  BY <1>1, <1>4, <1>5, <1>6, <1>7

(* map_cluster. *)
LEMMA MapGood ==
    ASSUME NEW W \in Good, NEW mode
    PROVE  MapCluster(W, mode) \in Good /\ MapCluster(W, mode).dirent = W.dirent
<1> DEFINE T == {X \in Good : X.dirent = W.dirent}
           x == Rewound(Entered(W, mode))
           n == MaxOffset \div ClusUnits
           F == [X \in T |-> Forward(X, mode)]
           G(g) == [i \in 0 .. n |-> IF i = 0 THEN x ELSE Forward(g[i - 1], mode)]
           w == CHOOSE g : g = G(g)
<1>1. ASSUME NEW X \in T PROVE Forward(X, mode) \in T
  BY ForwardGood
<1>2. x \in T
  BY MapStarts
<1>3. n \in Nat
  BY FatAssumption
<1>4. MapCluster(W, mode) = w[n]
  BY DEF MapCluster, Repeat
<1> HIDE DEF T, n, x
<1>5. F \in [T -> T]
  BY <1>1
<1>6. PICK g : Iteration(g, T, F, x, n)
  <2> HIDE DEF F
  <2> QED  BY <1>2, <1>3, <1>5, Iterates
<1>7. g = G(g)
  <2>1. ASSUME NEW i \in 1 .. n PROVE g[i] = Forward(g[i - 1], mode)
    <3>1. g[i - 1] \in T
      BY <1>3, <1>6 DEF Iteration
    <3>2. QED
      BY <1>6, <3>1 DEF Iteration
  <2>2. \A i \in 0 .. n : g[i] = G(g)[i]
    BY <1>3, <1>6, <2>1 DEF Iteration
  <2>3. QED
    BY <1>6, <2>2 DEF Iteration
<1>8. w = G(w)
  <2> HIDE DEF G
  <2> QED  BY <1>7
<1>9. w[0] = x /\ \A i \in 1 .. n : w[i] = Forward(w[i - 1], mode)
  <2> HIDE DEF w
  <2> QED  BY <1>3, <1>8
<1> HIDE DEF w
<1>10. w[n] \in T
  <2> DEFINE B == {i \in 0 .. n : w[i] \in T}
  <2>1. 0 \in B /\ \A i \in 1 .. n : i - 1 \in B => i \in B
    BY <1>1, <1>2, <1>3, <1>9
  <2> HIDE DEF B
  <2>2. n \in B
    BY <1>3, <2>1, UpTheSteps
  <2>3. QED
    BY <2>2 DEF B
<1>11. QED
  BY <1>4, <1>10 DEF T

(* A step of wipe_out_clusters. *)
LEMMA WipeStepGood ==
    ASSUME NEW W \in Good
    PROVE  WipeStep(W) \in Good /\ WipeStep(W).dirent = W.dirent
<1> DEFINE c == NextCluster(W.fat, W.got)
           X == LinkFat(W, W.got, FREE)
           h == IF X.hint = UNKNOWN \/ X.hint > W.got THEN W.got ELSE X.hint
           A == [X EXCEPT !.hint = h]
           Y == [A EXCEPT !.got = c]
           L == [W EXCEPT !.got = LAST]
<1>1. c \in Int
  <2>1. W.fat \in [Cluster -> FatEntry]
    BY DEF Good, Work
  <2>2. QED
    BY <2>1, NextType
<1>2. X \in Good /\ X.dirent = W.dirent /\ (X.ok = TRUE => W.got \in Cluster)
  <2>1. FREE \in FatEntry
    BY DEF FatEntry
  <2>2. QED
    BY <2>1, LinkGood
<1>3. X.ok \in BOOLEAN
  BY <1>2 DEF Good, Work
<1>4. WipeStep(W) \in {W, L, X} \/ (X.ok = TRUE /\ WipeStep(W) = Y)
  <2> DEFINE Z == [X EXCEPT !.hint = IF @ = UNKNOWN \/ @ > W.got THEN W.got ELSE @, !.got = c]
  <2>1. Z = Y
    <3> HIDE DEF X, c
    <3>1. Z = [X EXCEPT !.hint = h, !.got = c]
      OBVIOUS
    <3> HIDE DEF h, Z
    <3>2. QED
      BY <1>2, <3>1 DEF Good, Work
  <2>2. WipeStep(W) = IF ~W.ok \/ W.got = LAST THEN W
                      ELSE IF c \in {FREE, ERROR} THEN L ELSE IF X.ok THEN Z ELSE X
    BY DEF WipeStep, Wiped, Then
  <2> HIDE DEF Y, Z, X, L, c
  <2>3. QED
    BY <1>3, <2>1, <2>2
<1>5. L \in Good /\ L.dirent = W.dirent
  <2>1. LAST \in Int
    BY ClusterFacts DEF LAST
  <2>2. L \in Work /\ L.fat = W.fat /\ L.nfree = W.nfree /\ L.dirent = W.dirent
    BY <2>1 DEF Good, Work
  <2>3. QED
    BY <2>2 DEF Good
<1> HIDE DEF X, c, L
<1>6. X.ok = TRUE => h \in Cluster \cup {UNKNOWN}
  BY <1>2 DEF Good, Work
<1> HIDE DEF h
<1>7. X.ok = TRUE => A \in Good /\ A.dirent = W.dirent
  BY <1>2, <1>6 DEF Good, Work
<1> HIDE DEF A
<1>8. X.ok = TRUE => Y \in Good /\ Y.dirent = W.dirent
  BY <1>1, <1>7 DEF Good, Work
<1>9. QED
  BY <1>2, <1>4, <1>5, <1>8

(* wipe_out_clusters. *)
LEMMA WipeFromGood ==
    ASSUME NEW W \in Good, NEW c \in Int
    PROVE  WipeFrom(W, c) \in Good /\ WipeFrom(W, c).dirent = W.dirent
<1> DEFINE T == {X \in Good : X.dirent = W.dirent}
           x == [W EXCEPT !.got = c]
           n == LastCluster
           F == [X \in T |-> WipeStep(X)]
           G(g) == [i \in 0 .. n |-> IF i = 0 THEN x ELSE WipeStep(g[i - 1])]
           w == CHOOSE g : g = G(g)
<1>1. ASSUME NEW X \in T PROVE WipeStep(X) \in T
  BY WipeStepGood
<1>2. x \in T
  BY DEF Good, Work
<1>3. n \in Nat
  BY ClusterFacts
<1>4. WipeFrom(W, c) = w[n]
  BY DEF WipeFrom, Repeat
<1> HIDE DEF T, n, x
<1>5. F \in [T -> T]
  BY <1>1
<1>6. PICK g : Iteration(g, T, F, x, n)
  <2> HIDE DEF F
  <2> QED  BY <1>2, <1>3, <1>5, Iterates
<1>7. g = G(g)
  <2>1. ASSUME NEW i \in 1 .. n PROVE g[i] = WipeStep(g[i - 1])
    <3>1. g[i - 1] \in T
      BY <1>3, <1>6 DEF Iteration
    <3>2. QED
      BY <1>6, <3>1 DEF Iteration
  <2>2. \A i \in 0 .. n : g[i] = G(g)[i]
    BY <1>3, <1>6, <2>1 DEF Iteration
  <2>3. QED
    BY <1>6, <2>2 DEF Iteration
<1>8. w = G(w)
  <2> HIDE DEF G
  <2> QED  BY <1>7
<1>9. w[0] = x /\ \A i \in 1 .. n : w[i] = WipeStep(w[i - 1])
  <2> HIDE DEF w
  <2> QED  BY <1>3, <1>8
<1> HIDE DEF w
<1>10. w[n] \in T
  <2> DEFINE B == {i \in 0 .. n : w[i] \in T}
  <2>1. 0 \in B /\ \A i \in 1 .. n : i - 1 \in B => i \in B
    BY <1>1, <1>2, <1>3, <1>9
  <2> HIDE DEF B
  <2>2. n \in B
    BY <1>3, <2>1, UpTheSteps
  <2>3. QED
    BY <2>2 DEF B
<1>11. QED
  BY <1>4, <1>10 DEF T

(* A chain given back from its first cluster, if it has one. *)
LEMMA WipeOutGood ==
    ASSUME NEW W \in Good, NEW c \in Start
    PROVE  WipeOut(W, c) \in Good /\ WipeOut(W, c).dirent = W.dirent
<1> DEFINE X == WipeFrom(W, c)
<1>1. X \in Good /\ X.dirent = W.dirent
  BY ClusterFacts, WipeFromGood DEF Start, FREE
<1>2. WipeOut(W, c) \in {W, [X EXCEPT !.ok = TRUE]}
  BY DEF WipeOut
<1> HIDE DEF X
<1>3. [X EXCEPT !.ok = TRUE] \in Good /\ [X EXCEPT !.ok = TRUE].dirent = W.dirent
  BY <1>1 DEF Good, Work
<1>4. QED
  BY <1>1, <1>2, <1>3

(***************************************************************************)
(* Directories.                                                            *)
(***************************************************************************)
(* A division stays within its quotient.                                   *)
LEMMA Within ==
    ASSUME NEW a \in Nat, NEW b \in Nat \ {0}, NEW n \in Nat, a < n * b
    PROVE  a \div b \in 0 .. n - 1 /\ a % b \in 0 .. b - 1
<1> DEFINE q == a \div b
           r == a % b
<1>1. q \in Nat /\ r \in 0 .. b - 1 /\ a = b * q + r
  OBVIOUS
<1> HIDE DEF q, r
<1>2. ASSUME q >= n
      PROVE  FALSE
  <2>1. PICK d \in Nat : q = n + d
    <3>1. q - n \in Nat /\ q = n + (q - n)
      BY <1>1, <1>2
    <3>2. QED
      BY <3>1
  <2>2. b * q = b * n + b * d /\ b * d \in Nat /\ b * n \in Nat /\ n * b = b * n
    BY <2>1
  <2>3. QED
    BY <1>1, <2>2
<1>3. q \in 0 .. n - 1
  BY <1>1, <1>2
<1>4. QED
  BY <1>1, <1>3 DEF q, r

(* The chain of a cluster is a sequence of clusters that starts with it. *)
Chains(c) == {cs \in Seq(Cluster) : Len(cs) > 0 /\ cs[1] = c}

(* A chain followed by one more link is still one of its first cluster. *)
LEMMA FollowType ==
    ASSUME NEW f \in [Cluster -> FatEntry], NEW c, NEW cs \in Chains(c)
    PROVE  Follow(f, cs) \in Chains(c)
<1>1. cs \in Seq(Cluster) /\ Len(cs) \in Nat /\ Len(cs) > 0 /\ cs[1] = c
  BY DEF Chains
<1>2. Last(cs) \in Cluster
  BY <1>1 DEF Last
<1>3. CASE NextCluster(f, Last(cs)) \in Cluster
  <2>1. f[Last(cs)] \in Cluster
    BY <1>2, <1>3, ClusterFacts DEF NextCluster
  <2>2. Follow(f, cs) = Append(cs, f[Last(cs)])
    BY <1>3 DEF Follow
  <2> DEFINE e == f[Last(cs)]
  <2>3. /\ Append(cs, e) \in Seq(Cluster) /\ Len(Append(cs, e)) = Len(cs) + 1
        /\ Append(cs, e)[1] = cs[1]
    <3> HIDE DEF e
    <3>1. e \in Cluster
      BY <2>1 DEF e
    <3>2. QED
      BY <1>1, <3>1
  <2> DEFINE X == Append(cs, e)
  <2>4. Follow(f, cs) = X /\ X \in Seq(Cluster) /\ Len(X) > 0 /\ X[1] = c
    BY <1>1, <2>2, <2>3
  <2> HIDE DEF X
  <2>5. QED
    BY <2>4 DEF Chains
<1>4. CASE NextCluster(f, Last(cs)) \notin Cluster
  BY <1>4 DEF Follow
<1>5. QED
  BY <1>3, <1>4

(* What Chain returns for a cluster. *)
LEMMA ChainType ==
    ASSUME NEW f \in [Cluster -> FatEntry], NEW c \in Cluster
    PROVE  Chain(f, c) \in Chains(c)
<1> DEFINE T == Chains(c)
           x == <<c>>
           n == LastCluster
           F == [X \in T |-> Follow(f, X)]
           G(g) == [i \in 0 .. n |-> IF i = 0 THEN x ELSE Follow(f, g[i - 1])]
           w == CHOOSE g : g = G(g)
<1>1. ASSUME NEW X \in T PROVE Follow(f, X) \in T
  BY FollowType
<1>2. x \in T
  BY DEF Chains
<1>3. n \in Nat
  BY ClusterFacts
<1>4. Chain(f, c) = w[n]
  BY DEF Chain, Repeat
<1> HIDE DEF T, n, x
<1>5. F \in [T -> T]
  BY <1>1
<1>6. PICK g : Iteration(g, T, F, x, n)
  <2> HIDE DEF F
  <2> QED  BY <1>2, <1>3, <1>5, Iterates
<1>7. g = G(g)
  <2>1. ASSUME NEW i \in 1 .. n PROVE g[i] = Follow(f, g[i - 1])
    <3>1. g[i - 1] \in T
      BY <1>3, <1>6 DEF Iteration
    <3>2. QED
      BY <1>6, <3>1 DEF Iteration
  <2>2. \A i \in 0 .. n : g[i] = G(g)[i]
    BY <1>3, <1>6, <2>1 DEF Iteration
  <2>3. QED
    BY <1>6, <2>2 DEF Iteration
<1>8. w = G(w)
  <2> HIDE DEF G
  <2> QED  BY <1>7
<1>9. w[0] = x /\ \A i \in 1 .. n : w[i] = Follow(f, w[i - 1])
  <2> HIDE DEF w
  <2> QED  BY <1>3, <1>8
<1> HIDE DEF w
<1>10. w[n] \in T
  <2> DEFINE B == {i \in 0 .. n : w[i] \in T}
  <2>1. 0 \in B /\ \A i \in 1 .. n : i - 1 \in B => i \in B
    BY <1>1, <1>2, <1>3, <1>9
  <2> HIDE DEF B
  <2>2. n \in B
    BY <1>3, <2>1, UpTheSteps
  <2>3. QED
    BY <2>2 DEF B
<1>11. QED
  BY <1>4, <1>10 DEF T

(* The entries of a directory are slots. *)
LEMMA SlotsType ==
    ASSUME NEW W \in Good, NEW dc
    PROVE  DirSlots(W, dc) \in Seq(Slot)
<1> DEFINE f == W.fat
           cs == Chain(f, dc)
<1>1. ClusEnts \in Nat \ {0} /\ RootEnts \in Nat
  BY FatAssumption
<1>2. CASE dc = Root
  BY <1>1, <1>2 DEF DirSlots, Slot
<1>3. cs \in Seq(Cluster)
  <2>1. f \in [Cluster -> FatEntry]
    BY DEF Good, Work
  <2> HIDE DEF f
  <2>2. CASE dc \in Cluster
    BY <2>1, <2>2, ChainType DEF Chains
  <2>3. CASE dc \notin Cluster
    BY <2>3 DEF Chain
  <2>4. QED
    BY <2>2, <2>3
<1> HIDE DEF cs
<1>4. Len(cs) \in Nat /\ Len(cs) * ClusEnts \in Nat
  BY <1>1, <1>3
<1>5. ASSUME NEW i \in 1 .. Len(cs) * ClusEnts
      PROVE  <<cs[(i - 1) \div ClusEnts + 1], (i - 1) % ClusEnts>> \in Slot
  <2> DEFINE a == i - 1
             q == a \div ClusEnts
             r == a % ClusEnts
  <2>1. a \in Nat /\ a < Len(cs) * ClusEnts
    BY <1>4
  <2>2. q \in 0 .. Len(cs) - 1 /\ r \in 0 .. ClusEnts - 1
    <3> HIDE DEF a
    <3> QED  BY <1>1, <1>4, <2>1, Within
  <2> HIDE DEF q, r
  <2>3. cs[q + 1] \in Cluster
    BY <1>3, <1>4, <2>2
  <2>4. <<cs[q + 1], r>> \in Slot
    BY <2>2, <2>3 DEF Slot
  <2>5. QED
    BY <2>4 DEF q, r
<1>6. SlotsOf(cs) \in Seq(Slot)
  <2> DEFINE e(i) == <<cs[(i - 1) \div ClusEnts + 1], (i - 1) % ClusEnts>>
             m == Len(cs) * ClusEnts
  <2>1. SlotsOf(cs) = [i \in 1 .. m |-> e(i)]
    BY DEF SlotsOf
  <2>2. \A i \in 1 .. m : e(i) \in Slot
    BY <1>5
  <2>3. m \in Nat
    BY <1>4
  <2> HIDE DEF e, m
  <2>4. QED
    BY <2>1, <2>2, <2>3
<1>7. QED
  BY <1>2, <1>6 DEF DirSlots, cs

(* SelectInSeq: 0, or the first of the indices that pass. *)
FirstIndex(I) == IF I # {} THEN Min(I) ELSE 0

(* What SelectInSeq finds, as the least of a set of indices. *)
LEMMA FirstIndexIs ==
    ASSUME NEW n \in Nat, NEW I \in SUBSET (1 .. n)
    PROVE  /\ I = {} => FirstIndex(I) = 0
           /\ I # {} => FirstIndex(I) \in I /\ \A j \in I : FirstIndex(I) <= j
           /\ FirstIndex(I) \in 0 .. n
<1>1. CASE I = {}
  BY <1>1 DEF FirstIndex
<1>2. CASE I # {}
  <2>1. I \subseteq Nat
    OBVIOUS
  <2>2. Lowest(I) \in I /\ \A x \in I : Lowest(I) <= x
    BY <1>2, <2>1, LowestIn
  <2>3. FirstIndex(I) \in I /\ \A j \in I : FirstIndex(I) <= j
    BY <1>2, <2>2 DEF FirstIndex, Min
  <2> DEFINE k == FirstIndex(I)
  <2>4. k \in 0 .. n
    <3> HIDE DEF k
    <3>1. I \subseteq 1 .. n
      OBVIOUS
    <3>2. k \in I
      BY <2>3 DEF k
    <3>3. k \in 1 .. n
      BY <3>1, <3>2
    <3>4. QED
      BY <3>3
  <2>5. QED
    BY <1>2, <2>3, <2>4
<1>3. QED
  <2>1. CASE I = {}
    BY <1>1, <2>1
  <2>2. CASE I # {}
    BY <1>2, <2>2
  <2>3. QED
    BY <2>1, <2>2

(* dir_read. *)
Stops(W, dc) == {i \in 1 .. Len(DirSlots(W, dc)) : W.dirent[DirSlots(W, dc)[i]].kind = "unused"}

(* The entries read are the slots before the first unused one. *)
LEMMA DirReadIs ==
    ASSUME NEW W \in Good, NEW dc
    PROVE  /\ DirRead(W, dc) \in Seq(Slot) /\ Len(DirRead(W, dc)) <= Len(DirSlots(W, dc))
           /\ \A i \in 1 .. Len(DirRead(W, dc)) :
                 /\ DirRead(W, dc)[i] = DirSlots(W, dc)[i]
                 /\ W.dirent[DirRead(W, dc)[i]].kind # "unused"
<1> DEFINE slots == DirSlots(W, dc)
           I == Stops(W, dc)
           k == FirstIndex(I)
<1>1. slots \in Seq(Slot) /\ Len(slots) \in Nat
  BY SlotsType
<1>2. DirRead(W, dc) = UpTo(slots, k)
  BY DEF DirRead, Before, SelectInSeq, FirstIndex, Stops
<1>3. /\ k \in 0 .. Len(slots)
      /\ k = 0 => I = {}
      /\ \A j \in I : k <= j
  <2>1. I \in SUBSET (1 .. Len(slots))
    BY DEF Stops
  <2> HIDE DEF I, slots
  <2>2. QED
    BY <1>1, <2>1, FirstIndexIs
<1>4. \A i \in 1 .. Len(slots) : W.dirent[slots[i]].kind = "unused" => i \in I
  BY DEF Stops
<1> HIDE DEF I, k, slots
<1>5. CASE k = 0
  BY <1>1, <1>2, <1>3, <1>4, <1>5 DEF UpTo, slots
<1>6. CASE k # 0
  <2> DEFINE a == 1
             b == k - 1
  <2>0. a \in 1 .. Len(slots) + 1 /\ b \in a - 1 .. Len(slots)
    BY <1>1, <1>3, <1>6
  <2>1. DirRead(W, dc) = SubSeq(slots, a, b)
    BY <1>2, <1>6 DEF UpTo
  <2>2. /\ SubSeq(slots, a, b) \in Seq(Slot) /\ Len(SubSeq(slots, a, b)) = b - a + 1
        /\ \A i \in 1 .. b - a + 1 : SubSeq(slots, a, b)[i] = slots[a + i - 1]
    <3>1. a \in Int /\ b \in Int /\ (a <= b \/ b - a + 1 = 0)
      BY <1>1, <2>0
    <3>2. \A i \in a .. b : slots[i] \in Slot
      BY <1>1, <2>0
    <3> HIDE DEF a, b
    <3>3. /\ SubSeq(slots, a, b) \in Seq(Slot)
          /\ Len(SubSeq(slots, a, b)) = IF a <= b THEN b - a + 1 ELSE 0
          /\ \A i \in 1 .. b - a + 1 : SubSeq(slots, a, b)[i] = slots[a + i - 1]
      BY <3>1, <3>2, SubSeqProperties
    <3>4. QED
      BY <3>1, <3>3
  <2>3. Len(DirRead(W, dc)) = k - 1
    BY <1>3, <1>6, <2>1, <2>2
  <2>4. \A i \in 1 .. k - 1 : DirRead(W, dc)[i] = slots[i]
    BY <1>3, <1>6, <2>1, <2>2
  <2>5. \A i \in 1 .. k - 1 : W.dirent[slots[i]].kind # "unused"
    BY <1>1, <1>3, <1>4, <1>6
  <2>6. QED
    BY <1>1, <1>3, <2>1, <2>2, <2>3, <2>4, <2>5 DEF slots
<1>7. QED
  BY <1>5, <1>6

(* A name in a directory is in a slot of it. *)
Named(W, dc, name) == {i \in 1 .. Len(DirRead(W, dc)) : W.dirent[DirRead(W, dc)[i]].name = name}

(* What a search for a name finds. *)
LEMMA SlotInIs ==
    ASSUME NEW W \in Good, NEW dc, NEW name
    PROVE  SlotIn(W, dc, name) # NoSlot =>
               /\ SlotIn(W, dc, name) \in Slot
               /\ W.dirent[SlotIn(W, dc, name)].name = name
               /\ W.dirent[SlotIn(W, dc, name)].kind # "unused"
               /\ \E i \in 1 .. Len(DirSlots(W, dc)) : SlotIn(W, dc, name) = DirSlots(W, dc)[i]
<1> DEFINE read == DirRead(W, dc)
           I == Named(W, dc, name)
           k == FirstIndex(I)
<1>1. /\ read \in Seq(Slot) /\ Len(read) \in Nat /\ Len(read) <= Len(DirSlots(W, dc))
      /\ \A i \in 1 .. Len(read) : read[i] = DirSlots(W, dc)[i] /\ W.dirent[read[i]].kind # "unused"
  BY DirReadIs
<1>2. Len(DirSlots(W, dc)) \in Nat
  BY SlotsType
<1>3. SlotIn(W, dc, name) = IF k = 0 THEN NoSlot ELSE read[k]
  BY DEF SlotIn, FirstOf, NthOrNone, SelectInSeq, FirstIndex, Named
<1>4. k # 0 => k \in I
  <2>1. I \in SUBSET (1 .. Len(read))
    BY DEF Named
  <2> HIDE DEF I, read
  <2>2. QED
    BY <1>1, <2>1, FirstIndexIs
<1>5. \A i \in I : i \in 1 .. Len(read) /\ W.dirent[read[i]].name = name
  BY DEF Named
<1> HIDE DEF k, I, read
<1>6. CASE k = 0
  BY <1>3, <1>6
<1>7. CASE k # 0
  <2>1. k \in 1 .. Len(read) /\ W.dirent[read[k]].name = name /\ SlotIn(W, dc, name) = read[k]
    BY <1>3, <1>4, <1>5, <1>7
  <2>2. k \in 1 .. Len(DirSlots(W, dc)) /\ read[k] \in Slot
    BY <1>1, <1>2, <2>1
  <2>3. QED
    BY <1>1, <2>1, <2>2
<1>8. QED
  BY <1>6, <1>7

(* A directory is the root or a cluster, when there is one. *)
LEMMA DirOfIs ==
    ASSUME NEW W \in Good, NEW d
    PROVE  DirOf(W, d) \in Start \cup {ERROR}
<1> DEFINE s == SlotIn(W, Root, d)
<1>1. s = NoSlot \/ s \in Slot
  BY SlotInIs
<1>2. s \in Slot => W.dirent[s].start \in Start
  BY DEF Good, Work, DirEntry
<1>3. Root \in Start
  BY DEF Root, Start, FREE
<1> HIDE DEF s
<1>4. QED
  BY <1>1, <1>2, <1>3 DEF DirOf, StartOfDir, s

(* A slot is not the mark of none. *)
LEMMA SlotIsOne == \A s \in Slot : s # NoSlot
<1> SUFFICES ASSUME NEW s \in Slot
             PROVE  s # NoSlot
  OBVIOUS
<1>1. PICK a \in {Root} \cup Cluster, b \in Int : s = <<a, b>>
  BY DEF Slot
<1>2. Len(<<a, b>>) = 2 /\ Len(NoSlot) = 0
  BY DEF NoSlot
<1>3. QED
  BY <1>1, <1>2

(* find_free. *)
Usable(W, dc) == {i \in 1 .. Len(DirSlots(W, dc)) :
                     W.dirent[DirSlots(W, dc)[i]].kind \in {"deleted", "unused"}}

(* A slot that is free, or none when all are taken. *)
LEMMA FindFreeIs ==
    ASSUME NEW W \in Good, NEW dc
    PROVE  /\ find_free(W, dc) # NoSlot =>
                 /\ find_free(W, dc) \in Slot
                 /\ W.dirent[find_free(W, dc)].kind \in {"deleted", "unused"}
                 /\ \E i \in 1 .. Len(DirSlots(W, dc)) : find_free(W, dc) = DirSlots(W, dc)[i]
           /\ find_free(W, dc) = NoSlot =>
                 \A i \in 1 .. Len(DirSlots(W, dc)) :
                     W.dirent[DirSlots(W, dc)[i]].kind \notin {"deleted", "unused"}
<1> DEFINE slots == DirSlots(W, dc)
           I == Usable(W, dc)
           k == FirstIndex(I)
<1>1. slots \in Seq(Slot) /\ Len(slots) \in Nat
  BY SlotsType
<1>2. find_free(W, dc) = IF k = 0 THEN NoSlot ELSE slots[k]
  BY DEF find_free, FirstOf, NthOrNone, SelectInSeq, FirstIndex, Usable
<1>3. (k # 0 => k \in I) /\ (k = 0 => I = {})
  <2>1. I \in SUBSET (1 .. Len(slots))
    BY DEF Usable
  <2> HIDE DEF I, slots
  <2>2. QED
    BY <1>1, <2>1, FirstIndexIs
<1>4. \A i \in 1 .. Len(slots) : i \in I <=> W.dirent[slots[i]].kind \in {"deleted", "unused"}
  BY DEF Usable
<1>5. I \subseteq 1 .. Len(slots)
  BY DEF Usable
<1> HIDE DEF k, I, slots
<1>6. CASE k = 0
  BY <1>2, <1>3, <1>4, <1>6 DEF slots
<1>7. CASE k # 0
  <2>1. k \in 1 .. Len(slots) /\ W.dirent[slots[k]].kind \in {"deleted", "unused"}
        /\ find_free(W, dc) = slots[k]
    BY <1>2, <1>3, <1>4, <1>5, <1>7
  <2>2. slots[k] \in Slot /\ slots[k] # NoSlot
    BY <1>1, <2>1, SlotIsOne
  <2>3. QED
    BY <2>1, <2>2 DEF slots
<1>8. QED
  BY <1>6, <1>7

(* Work that differs in its directory entries only. *)
LEMMA EntriesGood ==
    ASSUME NEW W \in Good, NEW d \in [Slot -> DirEntry]
    PROVE  /\ [W EXCEPT !.dirent = d] \in Good
           /\ [W EXCEPT !.dirent = d].dirent = d /\ [W EXCEPT !.dirent = d].ok = W.ok
           /\ [W EXCEPT !.dirent = d].fat = W.fat
  BY DEF Good, Work

(* The entries that stand for none are entries. *)
LEMMA EntryTypes ==
    ASSUME NEW k \in Kinds, NEW name \in FileName \cup DirName \cup {NoName},
           NEW c \in Start, NEW z \in Nat
    PROVE  Entry(k, name, c, z) \in DirEntry
  BY DEF Entry, DirEntry

(* Unused, deleted and dot entries are entries. *)
LEMMA NoEntryTypes == Unused \in DirEntry /\ Deleted \in DirEntry /\ Dot \in DirEntry
  BY DEF Unused, Deleted, Dot, Entry, DirEntry, Kinds, Start, FREE

(* An entry written. *)
LEMMA DirWriteGood ==
    ASSUME NEW W \in Good, NEW s, NEW e, s \in Slot => e \in DirEntry
    PROVE  dir_write(W, s, e) \in Good
<1> DEFINE d == [W.dirent EXCEPT ![s] = e]
<1>1. W.dirent \in [Slot -> DirEntry]
  BY DEF Good, Work
<1>2. d \in [Slot -> DirEntry]
  BY <1>1
<1>3. dir_write(W, s, e) = [W EXCEPT !.dirent = d]
  BY DEF dir_write
<1> HIDE DEF d
<1>4. [W EXCEPT !.dirent = d] \in Good /\ [W EXCEPT !.dirent = d].dirent = d
  BY <1>2, EntriesGood
<1>5. QED
  BY <1>3, <1>4 DEF d

(* A cluster of entries cleared. *)
LEMMA ClearGood ==
    ASSUME NEW W \in Good, NEW c
    PROVE  clear_dir(W, c) \in Good
<1> DEFINE d == [s \in Slot |-> IF s[1] = c THEN Unused ELSE W.dirent[s]]
<1>1. W.dirent \in [Slot -> DirEntry]
  BY DEF Good, Work
<1>2. d \in [Slot -> DirEntry]
  BY <1>1, NoEntryTypes
<1>3. clear_dir(W, c) = [W EXCEPT !.dirent = d]
  BY DEF clear_dir
<1> HIDE DEF d
<1>4. QED
  BY <1>2, <1>3, EntriesGood

(* Entries marked as deleted. *)
LEMMA DeletedGood ==
    ASSUME NEW W \in Good, NEW run
    PROVE  DeletedAt(W, run) \in Good
<1> DEFINE d == [s \in Slot |-> IF s \in run THEN Deleted ELSE W.dirent[s]]
<1>1. W.dirent \in [Slot -> DirEntry]
  BY DEF Good, Work
<1>2. d \in [Slot -> DirEntry]
  BY <1>1, NoEntryTypes
<1>3. DeletedAt(W, run) = [W EXCEPT !.dirent = d]
  BY DEF DeletedAt
<1> HIDE DEF d
<1>4. QED
  BY <1>2, <1>3, EntriesGood

(* extend_dir, of a directory that is a cluster. *)
LEMMA ExtendDirGood ==
    ASSUME NEW W \in Good, NEW dc \in Cluster
    PROVE  extend_dir(W, dc) \in Good
<1> DEFINE l == Last(Chain(W.fat, dc))
           V == [W EXCEPT !.cu = l]
           X == Extend(V)
<1>1. l \in Cluster
  <2>1. W.fat \in [Cluster -> FatEntry]
    BY DEF Good, Work
  <2>2. Chain(W.fat, dc) \in Seq(Cluster) /\ Len(Chain(W.fat, dc)) > 0
    BY <2>1, ChainType DEF Chains
  <2>3. QED
    BY <2>2 DEF Last
<1>2. extend_dir(W, dc) = IF X.ok THEN clear_dir(X, X.got) ELSE X
  BY DEF extend_dir, Then
<1> HIDE DEF l
<1>3. V \in Good
  BY <1>1 DEF Good, Work, Start
<1> HIDE DEF V
<1>4. X \in Good
  BY <1>3, ExtendGood
<1>5. QED
  BY <1>2, <1>4, ClearGood

(* alloc_find_free, which may extend the directory. *)
LEMMA AllocGood ==
    ASSUME NEW W \in Good, NEW dc \in Start
    PROVE  alloc_find_free(W, dc) \in Good
<1>1. Refused(W) \in Good
  BY DEF Refused, Good, Work
<1>2. CASE dc = Root
  BY <1>1, <1>2 DEF alloc_find_free
<1>3. CASE dc # Root
  <2>1. dc \in Cluster
    BY <1>3 DEF Start, Root, FREE
  <2>2. extend_dir(W, dc) \in Good
    BY <2>1, ExtendDirGood
  <2>3. QED
    BY <1>3, <2>2 DEF alloc_find_free
<1>4. QED
  BY <1>2, <1>3

(* remove_lfn_entries and delete_dir_entry. *)
LEMMA RemoveGood ==
    ASSUME NEW W \in Good, NEW dc, NEW s
    PROVE  remove_lfn_entries(W, dc, s) \in Good
  BY DeletedGood DEF remove_lfn_entries

(* The entry, its long name and its chain are given back. *)
LEMMA DeleteEntryGood ==
    ASSUME NEW W \in Good, NEW dc, NEW s \in Slot
    PROVE  delete_dir_entry(W, dc, s) \in Good
<1> DEFINE R == remove_lfn_entries(W, dc, s)
           c == W.dirent[s].start
           X == WipeOut(R, c)
<1>1. c \in Start
  BY DEF Good, Work, DirEntry
<1>2. R \in Good
  BY RemoveGood
<1> HIDE DEF R, c
<1>3. X \in Good
  BY <1>1, <1>2, WipeOutGood
<1>4. delete_dir_entry(W, dc, s) = dir_write(X, s, Deleted)
  BY DEF delete_dir_entry, X, R, c
<1> HIDE DEF X
<1>5. QED
  BY <1>3, <1>4, NoEntryTypes, DirWriteGood

(***************************************************************************)
(* Files.                                                                  *)
(***************************************************************************)
(* The work of a call starts as the disk is, with the fnode of an SFT or   *)
(* with none.                                                              *)
LEMMA TableGood ==
    ASSUME CountInv, NEW n \in Int
    PROVE  Table(n) \in Good
<1>1. Counts(fat, nfree)
  BY DEF CountInv, FreeCountExact, Counts, Free, FreeOf
<1>2. Table(n) \in Work
  <2>1. FREE \in Start /\ FREE \in Int /\ <<>> \in {<<>>} \cup (Start \X Nat)
    BY DEF Start, FREE
  <2>2. fat \in [Cluster -> FatEntry] /\ nfree \in Int /\ hint \in Cluster \cup {UNKNOWN}
        /\ dirent \in [Slot -> DirEntry]
    BY DEF CountInv, TypeInv
  <2>3. QED
    BY <2>1, <2>2 DEF Table, Work
<1>3. QED
  BY <1>1, <1>2 DEF Good, Table

(* An SFT that is open is typed as one. *)
LEMMA OpenIsFile ==
    ASSUME TypeInv, NEW h \in Fd, sft[h].open
    PROVE  sft[h] \in OpenFile
<1>1. sft[h] \in OpenFile \cup {Closed}
  BY DEF TypeInv
<1>2. sft[h] # Closed
  BY DEF Closed
<1>3. QED
  BY <1>1, <1>2

(* The fnode of an SFT. *)
LEMMA LoadGood ==
    ASSUME CountInv, NEW h \in Fd, sft[h].open, NEW n \in Int
    PROVE  Load(h, n) \in Good
<1> DEFINE e == sft[h]
           T == Table(n)
           A == [T EXCEPT !.start = e.start]
           B == [A EXCEPT !.size = e.size]
           C == [B EXCEPT !.cu = e.cu]
           D == [C EXCEPT !.rel = e.rel]
           E == [D EXCEPT !.off = e.posit]
<1>1. e.start \in Start /\ e.size \in Nat /\ e.cu \in Start /\ e.rel \in Nat /\ e.posit \in Nat
  BY OpenIsFile DEF CountInv, OpenFile
<1>2. T \in Good
  BY TableGood
<1> DEFINE L == [T EXCEPT !.start = e.start, !.size = e.size, !.cu = e.cu, !.rel = e.rel, !.off = e.posit]
<1>3. Load(h, n) = L
  BY DEF Load
<1> HIDE DEF T, e
<1>4. L = E
  BY <1>2 DEF Good, Work
<1>5. A \in Good
  BY <1>1, <1>2 DEF Good, Work
<1> HIDE DEF L, A
<1>6. B \in Good
  BY <1>1, <1>5 DEF Good, Work
<1> HIDE DEF B
<1>7. C \in Good
  BY <1>1, <1>6 DEF Good, Work
<1> HIDE DEF C
<1>8. D \in Good
  BY <1>1, <1>7 DEF Good, Work
<1> HIDE DEF D
<1>9. E \in Good
  BY <1>1, <1>8 DEF Good, Work
<1>10. QED
  BY <1>3, <1>4, <1>9

(* merge_file_changes. *)
LEMMA MergeGood ==
    ASSUME NEW W \in Good
    PROVE  Merge(W) \in Good
<1> DEFINE p == <<W.start, W.size>>
<1>1. p \in Start \X Nat
  BY DEF Good, Work
<1>2. Merge(W) = [W EXCEPT !.shared = p]
  BY DEF Merge
<1> HIDE DEF p
<1>3. QED
  BY <1>1, <1>2 DEF Good, Work

(* Reads and writes, a unit at a time. *)
LEMMA ReadUnitGood ==
    ASSUME NEW W \in Good
    PROVE  Then(W, ReadUnit) \in Good
<1> DEFINE X == MapCluster(W, "read")
           o == X.off + 1
<1>1. X \in Good
  BY MapGood
<1>2. Then(W, ReadUnit) \in {W, Refused(W), X, [X EXCEPT !.off = o]}
  BY DEF Then, ReadUnit
<1> HIDE DEF X
<1>3. o \in Nat
  BY <1>1 DEF Good, Work
<1> HIDE DEF o
<1>4. [X EXCEPT !.off = o] \in Good /\ Refused(W) \in Good
  BY <1>1, <1>3 DEF Good, Work, Refused
<1>5. QED
  BY <1>1, <1>2, <1>4

(* The position and the size after a unit is written. *)
LEMMA AdvancedGood ==
    ASSUME NEW W \in Good
    PROVE  Advanced(W) \in Good
<1> DEFINE o == W.off + 1
           z == Larger(W.size, W.off + 1)
           A == [W EXCEPT !.off = o]
           L == [W EXCEPT !.off = o, !.size = z]
<1>1. o \in Nat /\ z \in Nat
  BY DEF Good, Work, Larger
<1>2. Advanced(W) = L
  BY DEF Advanced
<1> HIDE DEF o, z
<1>3. A \in Good
  BY <1>1 DEF Good, Work
<1>4. L = [A EXCEPT !.size = z]
  BY DEF Good, Work
<1> HIDE DEF A, L
<1>5. [A EXCEPT !.size = z] \in Good
  BY <1>1, <1>3 DEF Good, Work
<1>6. QED
  BY <1>2, <1>4, <1>5

(* A unit written. *)
LEMMA WriteUnitGood ==
    ASSUME NEW W \in Good
    PROVE  Then(W, WriteUnit) \in Good
<1> DEFINE X == MapCluster(W, "write")
<1>1. X \in Good
  BY MapGood
<1>2. Then(W, WriteUnit) \in {W, X, Merge(Advanced(X))}
  BY DEF Then, WriteUnit
<1> HIDE DEF X
<1>3. Merge(Advanced(X)) \in Good
  BY <1>1, AdvancedGood, MergeGood
<1>4. QED
  BY <1>1, <1>2, <1>3

(* dos_extend. *)
LEMMA ExtendFileGood ==
    ASSUME NEW W \in Good
    PROVE  dos_extend(W) \in Good
<1> DEFINE X == MapCluster(W, "write")
           z == X.off
           Y == [X EXCEPT !.size = z]
<1>1. X \in Good
  BY MapGood
<1>2. dos_extend(W) \in {W, X, Merge(Y)}
  BY DEF Then, dos_extend
<1> HIDE DEF X
<1>3. z \in Nat
  BY <1>1 DEF Good, Work
<1> HIDE DEF z
<1>4. Y \in Good
  BY <1>1, <1>3 DEF Good, Work
<1> HIDE DEF Y
<1>5. Merge(Y) \in Good
  BY <1>4, MergeGood
<1>6. QED
  BY <1>1, <1>2, <1>5

(* shrink_file. *)
LEMMA CutLinkGood ==
    ASSUME NEW W \in Good, NEW last \in {FREE, LAST}
    PROVE  CutLink(W, last) \in Good
<1> DEFINE a == IF last = FREE THEN FREE ELSE W.start
           b == IF last = FREE THEN FREE ELSE W.cu
           A == [W EXCEPT !.start = a]
           L == [W EXCEPT !.start = a, !.cu = b]
<1>1. a \in Start /\ b \in Start
  BY DEF Good, Work, Start
<1>2. CutLink(W, last) = LinkFat(L, W.cu, last)
  BY DEF CutLink
<1> HIDE DEF a, b
<1>3. A \in Good
  BY <1>1 DEF Good, Work
<1>4. L = [A EXCEPT !.cu = b]
  BY DEF Good, Work
<1> HIDE DEF A, L
<1>5. [A EXCEPT !.cu = b] \in Good
  BY <1>1, <1>3 DEF Good, Work
<1>6. last \in FatEntry
  BY DEF FatEntry
<1>7. QED
  BY <1>2, <1>4, <1>5, <1>6, LinkGood

(* The chain cut behind its last cluster. *)
LEMMA CutAtGood ==
    ASSUME NEW W \in Good, NEW next \in Int
    PROVE  CutAt(W, next) \in Good
<1> DEFINE last == IF W.size = 0 THEN FREE ELSE LAST
           X == CutLink(W, last)
           Y == WipeFrom(X, next)
<1>1. last \in {FREE, LAST}
  OBVIOUS
<1>2. CutAt(W, next) \in {W, X, [Y EXCEPT !.ok = TRUE]}
  BY DEF CutAt, Then
<1> HIDE DEF last
<1>3. X \in Good
  BY <1>1, CutLinkGood
<1> HIDE DEF X
<1>4. Y \in Good
  BY <1>3, WipeFromGood
<1> HIDE DEF Y
<1>5. [Y EXCEPT !.ok = TRUE] \in Good
  BY <1>4 DEF Good, Work
<1>6. QED
  BY <1>2, <1>3, <1>5

(* A write of no bytes. *)
LEMMA ShrunkGood ==
    ASSUME NEW W \in Good
    PROVE  Shrunk(W) \in Good
<1> DEFINE o == Larger(W.off - 1, 0)
           V == [W EXCEPT !.off = o]
           X == MapCluster(V, "read")
           c == NextCluster(X.fat, X.cu)
<1>1. o \in Nat
  BY DEF Good, Work, Larger
<1>2. AtLast(W) = X
  BY DEF AtLast
<1>3. Shrunk(W) \in {W, X, Refused(X), CutAt(X, c)}
  BY <1>2 DEF Shrunk, Then, Cut
<1> HIDE DEF o
<1>4. V \in Good
  BY <1>1 DEF Good, Work
<1> HIDE DEF V
<1>5. X \in Good
  BY <1>4, MapGood
<1> HIDE DEF X
<1>6. c \in Int
  <2>1. X.fat \in [Cluster -> FatEntry]
    BY <1>5 DEF Good, Work
  <2>2. QED
    BY <2>1, NextType
<1> HIDE DEF c
<1>7. Refused(X) \in Good
  BY <1>5 DEF Good, Work, Refused
<1>8. QED
  BY <1>3, <1>5, <1>6, <1>7, CutAtGood

(* A read of n units. *)
Reads(W, k) == Repeat(LAMBDA X : Then(X, ReadUnit), W, k)

(* A read of k units. *)
LEMMA ReadsGood ==
    ASSUME NEW W \in Good, NEW k \in Nat
    PROVE  Reads(W, k) \in Good
<1> DEFINE T == Good
           x == W
           n == k
           F == [X \in T |-> Then(X, ReadUnit)]
           G(g) == [i \in 0 .. n |-> IF i = 0 THEN x ELSE Then(g[i - 1], ReadUnit)]
           w == CHOOSE g : g = G(g)
<1>1. ASSUME NEW X \in T PROVE Then(X, ReadUnit) \in T
  BY ReadUnitGood
<1>2. x \in T
  OBVIOUS
<1>3. n \in Nat
  OBVIOUS
<1>4. Reads(W, k) = w[n]
  BY DEF Reads, Repeat
<1> HIDE DEF T, n, x
<1>5. F \in [T -> T]
  BY <1>1
<1>6. PICK g : Iteration(g, T, F, x, n)
  <2> HIDE DEF F
  <2> QED  BY <1>2, <1>3, <1>5, Iterates
<1>7. g = G(g)
  <2>1. ASSUME NEW i \in 1 .. n PROVE g[i] = Then(g[i - 1], ReadUnit)
    <3>1. g[i - 1] \in T
      BY <1>3, <1>6 DEF Iteration
    <3>2. QED
      BY <1>6, <3>1 DEF Iteration
  <2>2. \A i \in 0 .. n : g[i] = G(g)[i]
    BY <1>3, <1>6, <2>1 DEF Iteration
  <2>3. QED
    BY <1>6, <2>2 DEF Iteration
<1>8. w = G(w)
  <2> HIDE DEF G
  <2> QED  BY <1>7
<1>9. w[0] = x /\ \A i \in 1 .. n : w[i] = Then(w[i - 1], ReadUnit)
  <2> HIDE DEF w
  <2> QED  BY <1>3, <1>8
<1> HIDE DEF w
<1>10. w[n] \in T
  <2> DEFINE B == {i \in 0 .. n : w[i] \in T}
  <2>1. 0 \in B /\ \A i \in 1 .. n : i - 1 \in B => i \in B
    BY <1>1, <1>2, <1>3, <1>9
  <2> HIDE DEF B
  <2>2. n \in B
    BY <1>3, <2>1, UpTheSteps
  <2>3. QED
    BY <2>2 DEF B
<1>11. QED
  BY <1>4, <1>10 DEF T

(* A write of n units. *)
Writes(W, k) == Repeat(LAMBDA X : Then(X, WriteUnit), W, k)

(* A write of k units. *)
LEMMA WritesGood ==
    ASSUME NEW W \in Good, NEW k \in Nat
    PROVE  Writes(W, k) \in Good
<1> DEFINE T == Good
           x == W
           n == k
           F == [X \in T |-> Then(X, WriteUnit)]
           G(g) == [i \in 0 .. n |-> IF i = 0 THEN x ELSE Then(g[i - 1], WriteUnit)]
           w == CHOOSE g : g = G(g)
<1>1. ASSUME NEW X \in T PROVE Then(X, WriteUnit) \in T
  BY WriteUnitGood
<1>2. x \in T
  OBVIOUS
<1>3. n \in Nat
  OBVIOUS
<1>4. Writes(W, k) = w[n]
  BY DEF Writes, Repeat
<1> HIDE DEF T, n, x
<1>5. F \in [T -> T]
  BY <1>1
<1>6. PICK g : Iteration(g, T, F, x, n)
  <2> HIDE DEF F
  <2> QED  BY <1>2, <1>3, <1>5, Iterates
<1>7. g = G(g)
  <2>1. ASSUME NEW i \in 1 .. n PROVE g[i] = Then(g[i - 1], WriteUnit)
    <3>1. g[i - 1] \in T
      BY <1>3, <1>6 DEF Iteration
    <3>2. QED
      BY <1>6, <3>1 DEF Iteration
  <2>2. \A i \in 0 .. n : g[i] = G(g)[i]
    BY <1>3, <1>6, <2>1 DEF Iteration
  <2>3. QED
    BY <1>6, <2>2 DEF Iteration
<1>8. w = G(w)
  <2> HIDE DEF G
  <2> QED  BY <1>7
<1>9. w[0] = x /\ \A i \in 1 .. n : w[i] = Then(w[i - 1], WriteUnit)
  <2> HIDE DEF w
  <2> QED  BY <1>3, <1>8
<1> HIDE DEF w
<1>10. w[n] \in T
  <2> DEFINE B == {i \in 0 .. n : w[i] \in T}
  <2>1. 0 \in B /\ \A i \in 1 .. n : i - 1 \in B => i \in B
    BY <1>1, <1>2, <1>3, <1>9
  <2> HIDE DEF B
  <2>2. n \in B
    BY <1>3, <2>1, UpTheSteps
  <2>3. QED
    BY <2>2 DEF B
<1>11. QED
  BY <1>4, <1>10 DEF T

(***************************************************************************)
(* The calls.                                                              *)
(***************************************************************************)
Sfts    == [Fd -> OpenFile \cup {Closed}]
DiskInv == /\ fat \in [Cluster -> FatEntry] /\ nfree \in Int /\ hint \in Cluster \cup {UNKNOWN}
           /\ dirent \in [Slot -> DirEntry] /\ mix \in Mixes
           /\ Counts(fat, nfree)

(* The invariant speaks of the disk and of the SFTs. *)
LEMMA InTwoParts == CountInv <=> DiskInv /\ sft \in Sfts
  BY DEF CountInv, TypeInv, DiskInv, Sfts, FreeCountExact, Counts, Free, FreeOf

(* The two parts after a step. *)
LEMMA InTwoPartsNext == DiskInv' /\ sft' \in Sfts => CountInv'
  BY DEF CountInv, TypeInv, DiskInv, Sfts, FreeCountExact, Counts, Free, FreeOf

(* What a call leaves on the disk. *)
LEMMA CommitKeeps ==
    ASSUME CountInv, NEW W \in Good, Commit(W)
    PROVE  DiskInv'
<1>1. /\ fat' = W.fat /\ nfree' = W.nfree /\ hint' = W.hint /\ mix' = mix
      /\ dirent' = [s \in Slot |-> IF s[1] # Root /\ W.fat[s[1]] = FREE THEN Unused ELSE W.dirent[s]]
  BY DEF Commit, Visible
<1>2. /\ W.fat \in [Cluster -> FatEntry] /\ W.nfree \in Int /\ W.hint \in Cluster \cup {UNKNOWN}
      /\ W.dirent \in [Slot -> DirEntry] /\ Counts(W.fat, W.nfree)
  BY DEF Good, Work
<1>3. dirent' \in [Slot -> DirEntry]
  BY <1>1, <1>2, NoEntryTypes
<1>4. mix \in Mixes
  BY DEF CountInv, TypeInv
<1>5. Counts(fat', nfree')
  BY <1>1, <1>2
<1>6. QED
  BY <1>1, <1>2, <1>3, <1>4, <1>5 DEF DiskInv, Counts, FreeOf

(* The disk when a call leaves it alone. *)
LEMMA DiskStays ==
    ASSUME CountInv, UNCHANGED <<fat, nfree, hint, dirent, mix>>
    PROVE  DiskInv'
  BY InTwoParts DEF DiskInv, Counts, FreeOf

(* What the SFTs of a file are told. *)
LEMMA ToldType ==
    ASSUME NEW W \in Good, NEW e \in OpenFile
    PROVE  Told(e, W) \in OpenFile
<1> DEFINE a == W.shared[1]
           b == W.shared[2]
           A == [e EXCEPT !.start = a]
<1>1. CASE W.shared = <<>>
  BY <1>1 DEF Told
<1>2. CASE W.shared # <<>>
  <2>1. a \in Start /\ b \in Nat
    BY <1>2 DEF Good, Work
  <2>2. Told(e, W) = [e EXCEPT !.start = a, !.size = b]
    BY <1>2 DEF Told
  <2> HIDE DEF a, b
  <2>3. A \in OpenFile /\ [e EXCEPT !.start = a, !.size = b] = [A EXCEPT !.size = b]
    BY <2>1 DEF OpenFile
  <2> HIDE DEF A
  <2>4. [A EXCEPT !.size = b] \in OpenFile
    BY <2>1, <2>3 DEF OpenFile
  <2>5. QED
    BY <2>2, <2>3, <2>4
<1>3. QED
  BY <1>1, <1>2

(* The SFTs after merge_file_changes. *)
LEMMA DistributedType ==
    ASSUME CountInv, NEW W \in Good, NEW h
    PROVE  Distributed(W, h) \in Sfts
<1>1. ASSUME NEW k \in Fd, k \in OpenAt(sft[h].slot)
      PROVE  Told(sft[k], W) \in OpenFile
  <2>1. sft[k] \in OpenFile
    BY <1>1, OpenIsFile DEF CountInv, OpenAt, OpenFds
  <2>2. QED
    BY <2>1, ToldType
<1>2. sft \in Sfts
  BY InTwoParts
<1>3. QED
  BY <1>1, <1>2 DEF Distributed, Sfts

(* The SFT that tells the others is not told. *)
LEMMA DistributedSelf ==
    ASSUME CountInv, NEW W, NEW h \in Fd
    PROVE  Distributed(W, h)[h] = sft[h]
  BY DEF Distributed

(* The SFTs after a call has saved its fnode. *)
LEMMA SaveType ==
    ASSUME CountInv, NEW h \in Fd, sft[h].open, NEW W \in Good, NEW written \in BOOLEAN
    PROVE  Save(h, W, written) \in Sfts
<1> DEFINE G == Distributed(W, h)
           e == sft[h]
           p == W.start
           q == W.size
           r == W.off
           t == W.cu
           u == W.rel
           v == e.dirty \/ written
           w == e.fdate /\ ~written
           n == [e EXCEPT !.start = p, !.size = q, !.posit = r, !.cu = t, !.rel = u, !.dirty = v, !.fdate = w]
<1>1. G \in Sfts /\ G[h] = e
  BY DistributedType, DistributedSelf
<1>2. e \in OpenFile
  BY OpenIsFile DEF CountInv
<1>3. /\ p \in Start /\ q \in Nat /\ r \in Nat /\ t \in Start /\ u \in Nat
      /\ v \in BOOLEAN /\ w \in BOOLEAN
  <2>1. p \in Start /\ q \in Nat /\ r \in Nat /\ t \in Start /\ u \in Nat
    BY DEF Good, Work
  <2>2. v \in BOOLEAN /\ w \in BOOLEAN
    OBVIOUS
  <2>3. QED
    BY <2>1, <2>2
<1> DEFINE S == [G EXCEPT ![h].start = p, ![h].size = q, ![h].posit = r, ![h].cu = t, ![h].rel = u,
                          ![h].dirty = @ \/ written, ![h].fdate = @ /\ ~written]
<1>4. Save(h, W, written) = S
  BY DEF Save
<1> HIDE DEF G, e, p, q, r, t, u
<1>5. S = [G EXCEPT ![h] = n]
  BY <1>1, <1>2, ZenonT(30) DEF Sfts, OpenFile
<1> HIDE DEF v, w, S
<1>6. n \in OpenFile
  <2> DEFINE n1 == [e EXCEPT !.start = p]
             n2 == [n1 EXCEPT !.size = q]
             n3 == [n2 EXCEPT !.posit = r]
             n4 == [n3 EXCEPT !.cu = t]
             n5 == [n4 EXCEPT !.rel = u]
             n6 == [n5 EXCEPT !.dirty = v]
             n7 == [n6 EXCEPT !.fdate = w]
  <2>1. n = n7
    BY <1>2 DEF OpenFile
  <2> HIDE DEF n
  <2>2. n1 \in OpenFile
    BY <1>2, <1>3 DEF OpenFile
  <2> HIDE DEF n1
  <2>3. n2 \in OpenFile
    BY <2>2, <1>3 DEF OpenFile
  <2> HIDE DEF n2
  <2>4. n3 \in OpenFile
    BY <2>3, <1>3 DEF OpenFile
  <2> HIDE DEF n3
  <2>5. n4 \in OpenFile
    BY <2>4, <1>3 DEF OpenFile
  <2> HIDE DEF n4
  <2>6. n5 \in OpenFile
    BY <2>5, <1>3 DEF OpenFile
  <2> HIDE DEF n5
  <2>7. n6 \in OpenFile
    BY <2>6, <1>3 DEF OpenFile
  <2> HIDE DEF n6
  <2>8. n7 \in OpenFile
    BY <2>7, <1>3 DEF OpenFile
  <2> HIDE DEF n7
  <2>9. QED
    BY <2>1, <2>8
<1> HIDE DEF n
<1>7. QED
  BY <1>1, <1>4, <1>5, <1>6 DEF Sfts

(* The SFT of a file just opened. *)
LEMMA NewFileType ==
    ASSUME NEW s \in Slot \cup {NoSlot}, NEW m \in {"r", "rw"}, NEW c \in Start, NEW z \in Nat
    PROVE  NewFile(s, m, c, z) \in OpenFile
  BY DEF NewFile, OpenFile

(* One SFT filled or emptied. *)
LEMMA OpenedType ==
    ASSUME CountInv, NEW h \in Fd, NEW e \in OpenFile \cup {Closed}
    PROVE  [sft EXCEPT ![h] = e] \in Sfts
<1>1. sft \in Sfts
  BY InTwoParts
<1>2. QED
  BY <1>1 DEF Sfts

(* What an open collects. *)
LEMMA CollectedType ==
    ASSUME CountInv, NEW s \in Slot
    PROVE  CollectFrom(s).start \in Start /\ CollectFrom(s).size \in Nat
<1>1. CASE Writers(s) = {}
  <2>1. dirent[s] \in DirEntry
    BY DEF CountInv, TypeInv
  <2>2. QED
    BY <1>1, <2>1 DEF CollectFrom, DirEntry
<1>2. CASE Writers(s) # {}
  <2>1. Writers(s) \subseteq Nat
    BY FatAssumption DEF Writers, OpenAt, OpenFds
  <2>2. Lowest(Writers(s)) \in Writers(s)
    BY <1>2, <2>1, LowestIn
  <2>3. sft[Lowest(Writers(s))] \in OpenFile
    BY <2>2, OpenIsFile DEF CountInv, Writers, OpenAt, OpenFds
  <2>4. QED
    BY <1>2, <2>3 DEF CollectFrom, OpenFile
<1>3. QED
  BY <1>1, <1>2

(* How many links a call may write. *)
LEMMA BoundsAreNumbers == LinkBounds \subseteq Int
  BY FatAssumption DEF LinkBounds, Always

(* A file that is found is in a slot. *)
LEMMA FoundIsSlot ==
    ASSUME CountInv, NEW n \in Int, NEW p, find_fname(Table(n), p) # NoSlot
    PROVE  find_fname(Table(n), p) \in Slot
  BY TableGood, SlotInIs DEF find_fname

(* An open. *)
LEMMA OpenKeeps ==
    ASSUME CountInv, NEW h \in Fd, NEW p \in FilePath, NEW m \in {"r", "rw"}, Open(h, p, m)
    PROVE  CountInv'
<1>1. PICK s \in {find_fname(Table(0), p)} :
          /\ s # NoSlot
          /\ sft' = [sft EXCEPT ![h] = NewFile(s, m, CollectFrom(s).start, CollectFrom(s).size)]
  BY DEF Open, IsFile
<1>2. s \in Slot
  BY <1>1, FoundIsSlot
<1> DEFINE e == NewFile(s, m, CollectFrom(s).start, CollectFrom(s).size)
<1>3. e \in OpenFile
  BY <1>2, CollectedType, NewFileType
<1>4. sft' = [sft EXCEPT ![h] = e]
  BY <1>1
<1> HIDE DEF e
<1>5. sft' \in Sfts
  BY <1>3, <1>4, OpenedType
<1>6. DiskInv'
  BY DiskStays DEF Open
<1>7. QED
  BY <1>5, <1>6, InTwoPartsNext

(* A create of a file that is there. *)
LEMMA ReplaceKeeps ==
    ASSUME CountInv, NEW h \in Fd, NEW s \in Slot, NEW W \in Good, Replace(h, s, W)
    PROVE  CountInv'
<1> DEFINE e == [dirent[s] EXCEPT !.start = FREE, !.size = 0]
           X == dir_write(W, s, e)
<1>1. e \in DirEntry
  BY DEF CountInv, TypeInv, DirEntry, Start
<1>2. Commit(X)
  BY DEF Replace
<1> HIDE DEF e
<1>3. X \in Good
  BY <1>1, DirWriteGood
<1> HIDE DEF X
<1>4. DiskInv'
  BY <1>2, <1>3, CommitKeeps
<1>5. NewFile(s, "rw", FREE, 0) \in OpenFile
  BY NewFileType DEF Start
<1>6. ASSUME NEW k \in OpenAt(s)
      PROVE  Told(sft[k], Merge(W)) \in OpenFile
  <2>1. sft[k] \in OpenFile
    BY OpenIsFile DEF CountInv, OpenAt, OpenFds
  <2>2. QED
    BY <2>1, MergeGood, ToldType
<1>7. sft' = [k \in Fd |-> IF k = h THEN NewFile(s, "rw", FREE, 0)
                           ELSE IF k \in OpenAt(s) THEN Told(sft[k], Merge(W)) ELSE sft[k]]
  BY DEF Replace
<1>8. sft' \in Sfts
  BY <1>5, <1>6, <1>7, InTwoParts DEF Sfts
<1>9. QED
  BY <1>4, <1>8, InTwoPartsNext

(* A create. *)
LEMMA CreateKeeps ==
    ASSUME CountInv, NEW h \in Fd, NEW p \in FilePath, NEW n \in LinkBounds, Create(h, p, n)
    PROVE  CountInv'
<1>1. n \in Int /\ Table(n) \in Good
  BY BoundsAreNumbers, TableGood
<1>2. PICK s \in {find_fname(Table(n), p)}, dc \in {DirOf(Table(n), p[1])} :
        /\ dc # ERROR
        /\ \/ IsFile(s) /\ ShareAllows(s, "rw") /\ Replace(h, s, WipeOut(Table(n), dirent[s].start))
           \/ /\ s = NoSlot
              /\ \E W \in {alloc_find_free(Table(n), dc)} : CreateNew(h, p, W, find_free(W, dc))
  BY DEF Create
<1>3. CASE IsFile(s) /\ ShareAllows(s, "rw") /\ Replace(h, s, WipeOut(Table(n), dirent[s].start))
  <2>1. s \in Slot
    BY <1>1, <1>2, <1>3, FoundIsSlot DEF IsFile
  <2>2. dirent[s].start \in Start
    BY <2>1 DEF CountInv, TypeInv, DirEntry
  <2>3. WipeOut(Table(n), dirent[s].start) \in Good
    BY <1>1, <2>2, WipeOutGood
  <2>4. QED
    BY <1>3, <2>1, <2>3, ReplaceKeeps
<1>4. ASSUME NEW W \in {alloc_find_free(Table(n), dc)}, CreateNew(h, p, W, find_free(W, dc))
      PROVE  CountInv'
  <2> DEFINE s2 == find_free(W, dc)
             e == Entry("file", p[2], FREE, 0)
  <2>1. dc \in Start
    BY <1>1, <1>2, DirOfIs
  <2>2. W \in Good
    BY <1>1, <2>1, AllocGood
  <2>3. s2 \in Slot \cup {NoSlot}
    BY <2>2, FindFreeIs
  <2>4. e \in DirEntry
    <3>1. p[2] \in FileName
      BY DEF FilePath
    <3>2. QED
      BY <3>1, EntryTypes DEF Kinds, Start
  <2>5. CASE W.ok = TRUE
    <3>1. Commit(dir_write(W, s2, e)) /\ sft' = [sft EXCEPT ![h] = NewFile(s2, "rw", FREE, 0)]
      BY <1>4, <2>5 DEF CreateNew
    <3> HIDE DEF e, s2
    <3>2. dir_write(W, s2, e) \in Good
      BY <2>2, <2>4, DirWriteGood
    <3>3. DiskInv'
      BY <3>1, <3>2, CommitKeeps
    <3> DEFINE f == NewFile(s2, "rw", FREE, 0)
    <3>4. f \in OpenFile
      BY <2>3, <2>5, NewFileType DEF Start
    <3> HIDE DEF f
    <3>5. sft' = [sft EXCEPT ![h] = f]
      BY <3>1 DEF f
    <3>6. sft' \in Sfts
      BY <3>4, <3>5, OpenedType
    <3>7. QED
      BY <3>3, <3>6, InTwoPartsNext
  <2>6. CASE W.ok = FALSE
    <3>1. Commit(W) /\ sft' = sft
      BY <1>4, <2>6 DEF CreateNew
    <3>2. DiskInv'
      BY <2>2, <3>1, CommitKeeps
    <3>3. sft' \in Sfts
      BY <3>1, InTwoParts
    <3>4. QED
      BY <3>2, <3>3, InTwoPartsNext
  <2>7. QED
    BY <2>2, <2>5, <2>6 DEF Good, Work
<1>5. QED
  BY <1>2, <1>3, <1>4

(* dos_close and a commit. *)
LEMMA FlushKeeps ==
    ASSUME CountInv, NEW h \in Fd, sft[h].open
    PROVE  Commit(Flushed(h)) => DiskInv'
<1> DEFINE s == sft[h].slot
           a == sft[h].start
           b == sft[h].size
           u == [dirent[s] EXCEPT !.start = a, !.size = b]
           e == IF sft[h].dirty \/ sft[h].fdate THEN u ELSE dirent[s]
           T == Table(0)
<1>1. a \in Start /\ b \in Nat
  BY OpenIsFile DEF CountInv, OpenFile
<1>2. T \in Good
  BY TableGood
<1>3. Flushed(h) = dir_write(T, s, e)
  BY DEF Flushed, Updated
<1> HIDE DEF a, b, T, s
<1>4. s \in Slot => dirent[s] \in DirEntry /\ u \in DirEntry
  <2>1. ASSUME s \in Slot
        PROVE  dirent[s] \in DirEntry
    BY <2>1 DEF CountInv, TypeInv
  <2> DEFINE d == dirent[s]
             A == [d EXCEPT !.start = a]
  <2>2. ASSUME d \in DirEntry
        PROVE  u \in DirEntry
    <3> HIDE DEF d
    <3>1. A \in DirEntry /\ [d EXCEPT !.start = a, !.size = b] = [A EXCEPT !.size = b]
      BY <1>1, <2>2 DEF DirEntry
    <3> HIDE DEF A
    <3>2. [A EXCEPT !.size = b] \in DirEntry
      BY <1>1, <3>1 DEF DirEntry
    <3>3. QED
      BY <3>1, <3>2 DEF d
  <2>3. QED
    BY <2>1, <2>2
<1>5. s \in Slot => e \in DirEntry
  BY <1>4
<1> HIDE DEF e
<1>6. Flushed(h) \in Good
  BY <1>2, <1>3, <1>5, DirWriteGood
<1>7. QED
  BY <1>6, CommitKeeps

(* The SFTs told by a close. *)
LEMMA AfterCloseType ==
    ASSUME CountInv, NEW h \in Fd, sft[h].open
    PROVE  AfterClose(h, Load(h, 0)) \in Sfts
<1>1. Merge(Load(h, 0)) \in Good
  BY LoadGood, MergeGood
<1>2. Distributed(Merge(Load(h, 0)), h) \in Sfts
  BY <1>1, DistributedType
<1>3. QED
  BY <1>2, InTwoParts DEF AfterClose

(* A close or a commit. *)
LEMMA CloseKeeps ==
    ASSUME CountInv, NEW h \in Fd, Close(h) \/ DosCommit(h)
    PROVE  CountInv'
<1>1. sft[h].open /\ Commit(Flushed(h))
  BY DEF Close, DosCommit
<1>2. DiskInv'
  BY <1>1, FlushKeeps
<1> DEFINE G == AfterClose(h, Load(h, 0))
<1>3. G \in Sfts
  BY <1>1, AfterCloseType
<1>4. sft' = G \/ sft' = [G EXCEPT ![h] = Closed]
  BY DEF Close, DosCommit
<1> HIDE DEF G
<1>5. sft' \in Sfts
  BY <1>3, <1>4 DEF Sfts
<1>6. QED
  BY <1>2, <1>5, InTwoPartsNext

(* Calls that change an SFT only. *)
LEMMA SeekKeeps ==
    ASSUME CountInv, NEW h \in Fd, NEW off \in Seeks, Seek(h, off)
    PROVE  CountInv'
<1> DEFINE e == [sft[h] EXCEPT !.posit = off]
<1>1. off \in Nat /\ sft[h] \in OpenFile /\ sft \in Sfts
  BY FatAssumption, OpenIsFile, InTwoParts DEF CountInv, Seek
<1>2. e \in OpenFile
  BY <1>1 DEF OpenFile
<1>3. sft' = [sft EXCEPT ![h] = e]
  BY DEF Seek
<1> HIDE DEF e
<1>4. sft' \in Sfts
  BY <1>2, <1>3, OpenedType
<1>5. DiskInv'
  BY DiskStays DEF Seek
<1>6. QED
  BY <1>4, <1>5, InTwoPartsNext

(* A file date set. *)
LEMMA SetFtimeKeeps ==
    ASSUME CountInv, NEW h \in Fd, SetFtime(h)
    PROVE  CountInv'
<1> DEFINE e == [sft[h] EXCEPT !.fdate = TRUE]
<1>1. sft[h] \in OpenFile /\ sft \in Sfts
  BY OpenIsFile, InTwoParts DEF CountInv, SetFtime
<1>2. e \in OpenFile
  BY <1>1 DEF OpenFile
<1>3. sft' = [sft EXCEPT ![h] = e]
  BY DEF SetFtime
<1> HIDE DEF e
<1>4. sft' \in Sfts
  BY <1>2, <1>3, OpenedType
<1>5. DiskInv'
  BY DiskStays DEF SetFtime
<1>6. QED
  BY <1>4, <1>5, InTwoPartsNext

(* Reads, writes and cuts. *)
LEMMA ReadKeeps ==
    ASSUME CountInv, NEW h \in Fd, NEW count \in WriteCounts, Read(h, count)
    PROVE  CountInv'
<1> DEFINE W == Reads(Load(h, 0), count)
<1>1. count \in Nat /\ sft[h].open
  BY FatAssumption DEF Read
<1>2. W \in Good
  BY <1>1, LoadGood, ReadsGood
<1>3. sft' = Save(h, W, FALSE)
  BY DEF Read, Reads
<1> HIDE DEF W
<1>4. sft' \in Sfts
  BY <1>1, <1>2, <1>3, SaveType
<1>5. DiskInv'
  BY DiskStays DEF Read
<1>6. QED
  BY <1>4, <1>5, InTwoPartsNext

(* A write. *)
LEMMA WriteKeeps ==
    ASSUME CountInv, NEW h \in Fd, NEW count \in WriteCounts, NEW n \in LinkBounds, Write(h, count, n)
    PROVE  CountInv'
<1> DEFINE V == dos_extend(Load(h, n))
           W == Writes(V, count)
<1>1. count \in Nat /\ n \in Int /\ sft[h].open
  BY FatAssumption, BoundsAreNumbers DEF Write
<1>2. V \in Good
  BY <1>1, LoadGood, ExtendFileGood
<1>3. Commit(W) /\ sft' = Save(h, W, TRUE)
  BY DEF Write, Writes
<1> HIDE DEF V
<1>4. W \in Good
  BY <1>1, <1>2, WritesGood
<1> HIDE DEF W
<1>5. sft' \in Sfts
  BY <1>1, <1>3, <1>4, SaveType
<1>6. DiskInv'
  BY <1>3, <1>4, CommitKeeps
<1>7. QED
  BY <1>5, <1>6, InTwoPartsNext

(* A write of no bytes, as a call. *)
LEMMA TruncateKeeps ==
    ASSUME CountInv, NEW h \in Fd, NEW n \in LinkBounds, Truncate(h, n)
    PROVE  CountInv'
<1> DEFINE W == dos_extend(Load(h, n))
           z == W.off
           V == [W EXCEPT !.size = z]
           X == Shrunk(V)
           Y == [X EXCEPT !.off = z]
<1>1. n \in Int /\ sft[h].open
  BY BoundsAreNumbers DEF Truncate
<1>2. W \in Good
  BY <1>1, LoadGood, ExtendFileGood
<1>3. \/ Commit(W) /\ sft' = Save(h, W, TRUE)
      \/ Commit(X) /\ sft' = IF X.ok THEN Save(h, Y, TRUE) ELSE Distributed(W, h)
  BY DEF Truncate
<1> HIDE DEF W
<1>4. z \in Nat
  BY <1>2 DEF Good, Work
<1> HIDE DEF z
<1>5. V \in Good
  BY <1>2, <1>4 DEF Good, Work
<1> HIDE DEF V
<1>6. X \in Good
  BY <1>5, ShrunkGood
<1> HIDE DEF X
<1>7. Y \in Good
  BY <1>4, <1>6 DEF Good, Work
<1> HIDE DEF Y
<1>8. Save(h, W, TRUE) \in Sfts /\ Save(h, Y, TRUE) \in Sfts /\ Distributed(W, h) \in Sfts
  BY <1>1, <1>2, <1>7, SaveType, DistributedType
<1>9. sft' \in Sfts
  BY <1>3, <1>8
<1>10. DiskInv'
  BY <1>2, <1>3, <1>6, CommitKeeps
<1>11. QED
  BY <1>9, <1>10, InTwoPartsNext

(* Deleting, renaming, making and removing directories. *)
LEMMA DiskCall ==
    ASSUME CountInv, NEW W \in Good, Commit(W), sft' = sft
    PROVE  CountInv'
<1>1. DiskInv'
  BY CommitKeeps
<1>2. sft' \in Sfts
  BY InTwoParts
<1>3. QED
  BY <1>1, <1>2, InTwoPartsNext

(* A delete. *)
LEMMA DeleteKeeps ==
    ASSUME CountInv, NEW p, NEW n \in LinkBounds, Delete(p, n)
    PROVE  CountInv'
<1> DEFINE T == Table(n)
           s == find_fname(T, p)
           X == delete_dir_entry(T, DirOf(T, p[1]), s)
<1>1. n \in Int /\ T \in Good
  BY BoundsAreNumbers, TableGood
<1>2. s # NoSlot /\ Commit(X) /\ sft' = sft
  BY DEF Delete, IsFile
<1>3. s \in Slot
  BY <1>1, <1>2, FoundIsSlot
<1> HIDE DEF T, s
<1>4. X \in Good
  BY <1>1, <1>3, DeleteEntryGood
<1> HIDE DEF X
<1>5. QED
  BY <1>2, <1>4, DiskCall

(* The entry of a file under another name. *)
LEMMA RenamedType ==
    ASSUME CountInv, NEW s \in Slot, NEW name \in FileName \cup DirName
    PROVE  [dirent[s] EXCEPT !.name = name] \in DirEntry
<1>1. dirent[s] \in DirEntry
  BY DEF CountInv, TypeInv
<1>2. QED
  BY <1>1 DEF DirEntry

(* A rename into another directory. *)
LEMMA MoveKeeps ==
    ASSUME CountInv, NEW s \in Slot, NEW dc, NEW dc2, NEW p2, p2[2] \in FileName \cup DirName,
           NEW W \in Good, MoveTo(s, dc, dc2, p2, W), sft' = sft
    PROVE  CountInv'
<1> DEFINE R == remove_lfn_entries(W, dc, s)
           D == dir_write(R, s, Deleted)
           t == find_free(W, dc2)
           name == p2[2]
           e == [dirent[s] EXCEPT !.name = name]
           X == dir_write(D, t, e)
<1>1. R \in Good
  BY RemoveGood
<1>2. Commit(X) \/ Commit(W)
  BY DEF MoveTo, Then
<1> HIDE DEF R, t, name
<1>3. D \in Good
  BY <1>1, NoEntryTypes, DirWriteGood
<1>4. e \in DirEntry
  BY RenamedType DEF name
<1> HIDE DEF D, e
<1>5. X \in Good
  BY <1>3, <1>4, DirWriteGood
<1> HIDE DEF X
<1>6. QED
  BY <1>2, <1>5, DiskCall

(* A rename. *)
LEMMA RenameKeeps ==
    ASSUME CountInv, NEW p1, NEW p2, p2[2] \in FileName \cup DirName, NEW n \in LinkBounds, Rename(p1, p2, n)
    PROVE  CountInv'
<1> DEFINE T == Table(n)
           s == find_fname(T, p1)
           dc == DirOf(T, p1[1])
           dc2 == DirOf(T, p2[1])
<1>1. n \in Int /\ T \in Good
  BY BoundsAreNumbers, TableGood
<1>2. /\ s # NoSlot /\ dc2 # ERROR /\ sft' = sft
      /\ RenameInPlace(s, p2, remove_lfn_entries(T, dc, s)) \/ MoveTo(s, dc, dc2, p2, alloc_find_free(T, dc2))
  BY DEF Rename
<1>3. s \in Slot
  BY <1>1, <1>2, FoundIsSlot
<1>4. dc2 \in Start
  BY <1>1, <1>2, DirOfIs
<1> HIDE DEF T, s, dc, dc2
<1>5. CASE RenameInPlace(s, p2, remove_lfn_entries(T, dc, s))
  <2> DEFINE R == remove_lfn_entries(T, dc, s)
             name == p2[2]
             e == [dirent[s] EXCEPT !.name = name]
             X == dir_write(R, s, e)
  <2>1. R \in Good
    BY <1>1, RemoveGood
  <2>2. Commit(X)
    BY <1>5 DEF RenameInPlace
  <2> HIDE DEF R, name
  <2>3. e \in DirEntry
    BY <1>3, RenamedType DEF name
  <2> HIDE DEF e
  <2>4. X \in Good
    BY <2>1, <2>3, DirWriteGood
  <2> HIDE DEF X
  <2>5. QED
    BY <1>2, <2>2, <2>4, DiskCall
<1>6. CASE MoveTo(s, dc, dc2, p2, alloc_find_free(T, dc2))
  <2>1. alloc_find_free(T, dc2) \in Good
    BY <1>1, <1>4, AllocGood
  <2>2. QED
    BY <1>2, <1>3, <1>6, <2>1, MoveKeeps
<1>7. QED
  BY <1>2, <1>5, <1>6

(* The first cluster of a directory and its entry. *)
LEMMA NewDirGood ==
    ASSUME NEW W \in Good, NEW c \in Cluster, NEW s, NEW d \in DirName
    PROVE  NewDir(W, c, s, d) \in Good
<1> DEFINE e == Entry("dir", d, c, 0)
           A == clear_dir(W, c)
           B == dir_write(A, s, e)
<1>1. e \in DirEntry
  BY EntryTypes DEF Kinds, Start
<1>2. NewDir(W, c, s, d) = dir_write(B, <<c, 0>>, Dot)
  BY DEF NewDir
<1> HIDE DEF e
<1>3. A \in Good
  BY ClearGood
<1> HIDE DEF A
<1>4. B \in Good
  BY <1>1, <1>3, DirWriteGood
<1> HIDE DEF B
<1>5. QED
  BY <1>2, <1>4, NoEntryTypes, DirWriteGood

(* A cluster taken for a directory. *)
LEMMA MkDirInGood ==
    ASSUME NEW W \in Good, NEW c \in Cluster \cup {LAST}, NEW s, NEW d \in DirName
    PROVE  MkDirIn(W, c, s, d) \in Good
<1> DEFINE N == [W EXCEPT !.hint = UNKNOWN]
           H == [W EXCEPT !.hint = c]
           X == LinkFat(H, c, LAST)
<1>1. N \in Good
  BY DEF Good, Work
<1>2. MkDirIn(W, c, s, d) = IF c = LAST THEN N ELSE IF X.ok THEN NewDir(X, c, s, d) ELSE X
  BY DEF MkDirIn, Then
<1>3. CASE c = LAST
  BY <1>1, <1>2, <1>3
<1>4. CASE c # LAST
  <2>1. H \in Good
    BY <1>4 DEF Good, Work
  <2> HIDE DEF H, N
  <2>2. LAST \in FatEntry
    BY DEF FatEntry
  <2>3. X \in Good
    BY <2>1, <2>2, LinkGood
  <2> HIDE DEF X
  <2>4. NewDir(X, c, s, d) \in Good
    BY <1>4, <2>3, NewDirGood
  <2>5. QED
    BY <1>2, <1>4, <2>3, <2>4
<1>5. QED
  BY <1>3, <1>4

(* A directory made. *)
LEMMA MkDirKeeps ==
    ASSUME CountInv, NEW d \in DirName, NEW n \in LinkBounds, MkDir(d, n)
    PROVE  CountInv'
<1> DEFINE W == alloc_find_free(Table(n), Root)
           c == FindFatFree(W.fat, W.hint)
           X == MkDirIn(W, c, find_free(W, Root), d)
<1>1. W \in Good
  BY BoundsAreNumbers, TableGood, AllocGood DEF Start, Root, FREE
<1>2. sft' = sft /\ (Commit(X) \/ Commit(W))
  BY DEF MkDir, MkDirAt, Then
<1> HIDE DEF W
<1>3. c \in Cluster \cup {LAST}
  <2>1. W.fat \in [Cluster -> FatEntry]
    BY <1>1 DEF Good, Work
  <2>2. QED
    BY <2>1, FindsFree
<1> HIDE DEF c
<1>4. X \in Good
  BY <1>1, <1>3, MkDirInGood
<1> HIDE DEF X
<1>5. QED
  BY <1>1, <1>2, <1>4, DiskCall

(* A directory removed. *)
LEMMA RmDirKeeps ==
    ASSUME CountInv, NEW d, NEW n \in LinkBounds, RmDir(d, n)
    PROVE  CountInv'
<1> DEFINE T == Table(n)
           p == <<NoName, d>>
           s == find_fname(T, p)
           X == delete_dir_entry(T, Root, s)
<1>1. n \in Int /\ T \in Good
  BY BoundsAreNumbers, TableGood
<1>2. s # NoSlot /\ Commit(X) /\ sft' = sft
  BY DEF RmDir
<1> HIDE DEF p
<1>3. s \in Slot
  BY <1>1, <1>2, FoundIsSlot
<1> HIDE DEF T, s
<1>4. X \in Good
  BY <1>1, <1>3, DeleteEntryGood
<1> HIDE DEF X
<1>5. QED
  BY <1>2, <1>4, DiskCall

(* Calls that leave the disk, or its entries, alone. *)
LEMMA SearchKeeps ==
    ASSUME CountInv, UNCHANGED <<fat, nfree, hint, dirent, sft, failed, mix>>
    PROVE  CountInv'
<1>1. DiskInv'
  BY DiskStays
<1>2. sft' \in Sfts
  BY InTwoParts
<1>3. QED
  BY <1>1, <1>2, InTwoPartsNext

(* The free clusters counted, and the DPB made anew. *)
LEMMA GetFreeKeeps ==
    ASSUME CountInv, DosGetFree \/ MediaCheck
    PROVE  CountInv'
<1>1. /\ UNCHANGED <<fat, dirent, sft, mix>>
      /\ \/ nfree' = Cardinality(Free) /\ hint' = IF Free = {} THEN hint ELSE Lowest(Free)
         \/ nfree' = UNKNOWN /\ hint' = UNKNOWN
  BY DEF DosGetFree, MediaCheck
<1>2. IsFiniteSet(Free) /\ Free \subseteq Nat /\ Free \subseteq Cluster
  BY ClusterFacts, FS_Subset DEF Free
<1>3. Cardinality(Free) \in Nat
  BY <1>2, FS_CardinalityType
<1>4. Free # {} => Lowest(Free) \in Cluster
  BY <1>2, LowestIn
<1>5. UNKNOWN \in Int /\ hint \in Cluster \cup {UNKNOWN}
  BY DEF UNKNOWN, CountInv, TypeInv
<1>6. nfree' \in Int /\ hint' \in Cluster \cup {UNKNOWN}
  BY <1>1, <1>3, <1>4, <1>5
<1>7. Counts(fat', nfree')
  BY <1>1 DEF Counts, Free, FreeOf
<1>8. DiskInv'
  BY <1>1, <1>6, <1>7 DEF CountInv, TypeInv, DiskInv, Counts, FreeOf
<1>9. sft' \in Sfts
  BY <1>1, InTwoParts
<1>10. QED
  BY <1>8, <1>9, InTwoPartsNext

(* Nothing happens. *)
LEMMA StutterKeeps == CountInv /\ UNCHANGED vars => CountInv'
  BY SearchKeeps DEF vars

-----------------------------------------------------------------------------
(* The first disk: cluster 2 is used, and all others are free. *)
LEMMA InitCounts == FatInit => CountInv
<1> SUFFICES ASSUME FatInit
             PROVE  CountInv
  OBVIOUS
<1>0. LastCluster \in Nat \ {0, 1}
  BY FatAssumption
<1>1. 2 \in Cluster /\ LAST \in FatEntry /\ FREE \in FatEntry /\ LAST # FREE /\ UNKNOWN \in Int
  BY <1>0 DEF Cluster, FatEntry, LAST, FREE, UNKNOWN
<1>2. fat \in [Cluster -> FatEntry] /\ Free = Cluster \ {2}
  BY <1>1 DEF FatInit, Free
<1>3. Cardinality(Cluster) = LastCluster - 1
  <2>1. 2 \in Int /\ LastCluster \in Int /\ 2 <= LastCluster
    BY <1>0
  <2>2. Cardinality(2 .. LastCluster) = LastCluster - 2 + 1
    BY <2>1, FS_Interval
  <2>3. QED
    BY <1>0, <2>2 DEF Cluster
<1>4. Cardinality(Free) = LastCluster - 2
  <2>1. Cardinality(Cluster \ {2}) = Cardinality(Cluster) - 1
    BY <1>1, ClusterFacts, FS_RemoveElement
  <2>2. QED
    BY <1>0, <1>2, <1>3, <2>1
<1>5. FreeCountExact
  BY <1>4 DEF FreeCountExact, FatInit
<1>6. dirent \in [Slot -> DirEntry]
  <2>1. PICK f \in FileName :
           dirent = [s \in Slot |-> CASE s = <<Root, 0>> -> Entry(FirstKind, NoName, FREE, 0)
                                     [] s = <<Root, 1>> -> Entry("file", f, 2, 1)
                                     [] OTHER           -> Unused]
    BY DEF FatInit
  <2> DEFINE a == Entry(FirstKind, NoName, FREE, 0)
             b == Entry("file", f, 2, 1)
  <2>2. a \in DirEntry /\ b \in DirEntry
    <3>1. FirstKind \in Kinds /\ "file" \in Kinds /\ FREE \in Start /\ 2 \in Start /\ 0 \in Nat /\ 1 \in Nat
      BY <1>1 DEF FirstKind, Kinds, Start
    <3>2. QED
      BY <3>1, EntryTypes
  <2>3. <<Root, 0>> # <<Root, 1>>
    OBVIOUS
  <2> HIDE DEF a, b
  <2>4. ASSUME NEW s \in Slot
        PROVE  dirent[s] \in DirEntry
    <3>1. dirent[s] = CASE s = <<Root, 0>> -> a [] s = <<Root, 1>> -> b [] OTHER -> Unused
      BY <2>1 DEF a, b
    <3>2. QED
      BY <2>2, <2>3, <3>1, NoEntryTypes
  <2>5. DOMAIN dirent = Slot /\ dirent = [s \in Slot |-> dirent[s]]
    BY <2>1
  <2>6. QED
    BY <2>4, <2>5
<1>7. nfree \in Int /\ hint \in Cluster \cup {UNKNOWN} /\ mix \in Mixes
  BY <1>0 DEF FatInit
<1>8. sft \in [Fd -> OpenFile \cup {Closed}]
  BY DEF FatInit
<1>9. QED
  BY <1>2, <1>5, <1>6, <1>7, <1>8 DEF CountInv, TypeInv

(* Calls on files. *)
LEMMA FileCallKeeps ==
    ASSUME CountInv, FileCall
    PROVE  CountInv'
<1> SUFFICES ASSUME NEW h \in Fd,
        \/ \E p \in FilePath : Open(h, p, "r") \/ Open(h, p, "rw")
        \/ \E p \in FilePath, n \in LinkBounds : Create(h, p, n)
        \/ Close(h) \/ DosCommit(h) \/ SetFtime(h)
        \/ \E off \in Seeks : Seek(h, off)
        \/ \E n \in LinkBounds : Truncate(h, n)
        \/ \E count \in WriteCounts : Read(h, count)
        \/ \E count \in WriteCounts, n \in LinkBounds : Write(h, count, n)
             PROVE  CountInv'
  BY DEF FileCall
<1>1. CASE \E p \in FilePath : Open(h, p, "r") \/ Open(h, p, "rw")
  BY <1>1, OpenKeeps
<1>2. CASE \E p \in FilePath, n \in LinkBounds : Create(h, p, n)
  BY <1>2, CreateKeeps
<1>3. CASE Close(h) \/ DosCommit(h) \/ SetFtime(h)
  BY <1>3, CloseKeeps, SetFtimeKeeps
<1>4. CASE \E off \in Seeks : Seek(h, off)
  BY <1>4, SeekKeeps
<1>5. CASE \E n \in LinkBounds : Truncate(h, n)
  BY <1>5, TruncateKeeps
<1>6. CASE \E count \in WriteCounts : Read(h, count)
  BY <1>6, ReadKeeps
<1>7. CASE \E count \in WriteCounts, n \in LinkBounds : Write(h, count, n)
  BY <1>7, WriteKeeps
<1>8. QED
  BY <1>1, <1>2, <1>3, <1>4, <1>5, <1>6, <1>7

(* Calls on names. *)
LEMMA NameCallKeeps ==
    ASSUME CountInv, NameCall
    PROVE  CountInv'
<1>1. CASE \E p \in FilePath, n \in LinkBounds : Delete(p, n)
  BY <1>1, DeleteKeeps
<1>2. CASE \E p1, p2 \in FilePath, n \in LinkBounds : Rename(p1, p2, n)
  <2>1. PICK p1 \in FilePath, p2 \in FilePath, n \in LinkBounds : Rename(p1, p2, n)
    BY <1>2
  <2>2. p2[2] \in FileName \cup DirName
    BY DEF FilePath
  <2>3. QED
    BY <2>1, <2>2, RenameKeeps
<1>3. CASE \E p1, p2 \in DirPath, n \in LinkBounds : Rename(p1, p2, n)
  <2>1. PICK p1 \in DirPath, p2 \in DirPath, n \in LinkBounds : Rename(p1, p2, n)
    BY <1>3
  <2>2. p2[2] \in FileName \cup DirName
    BY DEF DirPath
  <2>3. QED
    BY <2>1, <2>2, RenameKeeps
<1>4. CASE \E d \in DirName, n \in LinkBounds : MkDir(d, n) \/ RmDir(d, n)
  BY <1>4, MkDirKeeps, RmDirKeeps
<1>5. CASE (\E d \in DirName \cup {NoName} : FindFirst(d)) \/ FindNext
  BY <1>5, SearchKeeps DEF FindFirst, FindNext
<1>6. QED
  BY <1>1, <1>2, <1>3, <1>4, <1>5 DEF NameCall

(* Every step keeps the count. *)
LEMMA StepCounts == CountInv /\ [FatNext]_vars => CountInv'
  BY FileCallKeeps, NameCallKeeps, GetFreeKeeps, StutterKeeps DEF FatNext

(* dpb_nfreeclst is the number of free clusters whenever it is known: on   *)
(* disks of every size, after every sequence of calls, and whichever write *)
(* of an entry of the FAT fails.                                           *)
THEOREM FreeCountHolds == FatSpec => []FreeCountExact
<1>1. CountInv => FreeCountExact
  BY DEF CountInv
<1>2. QED
  BY InitCounts, StepCounts, <1>1, PTL DEF FatSpec

-----------------------------------------------------------------------------
(***************************************************************************)
(* Chains.  Q gives every slot the clusters of what it names, in order.    *)
(***************************************************************************)
Owners     == [Slot -> Seq(Cluster)]
StartIn(q) == IF q = <<>> THEN FREE ELSE q[1]
NextIn(q, i) == IF i = Len(q) THEN LAST ELSE q[i + 1]

(* In f every chain of Q is linked up to its last cluster, and no two *)
(* places of two chains, or of one, are the same cluster.             *)
Linked(f, Q) == \A s \in Slot : \A i \in 1 .. Len(Q[s]) : f[Q[s][i]] = NextIn(Q[s], i)
Apart(Q)     == \A s, t \in Slot : \A i \in 1 .. Len(Q[s]), j \in 1 .. Len(Q[t]) :
                    Q[s][i] = Q[t][j] => s = t /\ i = j
Laid(f, Q)   == Linked(f, Q) /\ Apart(Q)
Outside(Q, c) == \A s \in Slot : \A i \in 1 .. Len(Q[s]) : Q[s][i] # c

(* A chain with one more cluster, cut after some, and empty. *)
Grown(Q, o, c)   == [Q EXCEPT ![o] = Append(Q[o], c)]
CutAfter(Q, o, r) == [Q EXCEPT ![o] = SubSeq(Q[o], 1, r)]
Without(Q, o)    == [Q EXCEPT ![o] = <<>>]
Linking(f, c, n) == [f EXCEPT ![c] = n]

(* The members of a chain are clusters. *)
LEMMA OwnerFacts ==
    ASSUME NEW Q \in Owners, NEW s \in Slot
    PROVE  /\ Q[s] \in Seq(Cluster) /\ Len(Q[s]) \in Nat /\ DOMAIN Q[s] = 1 .. Len(Q[s])
           /\ \A i \in 1 .. Len(Q[s]) : Q[s][i] \in Cluster
           /\ Q[s] = <<>> <=> Len(Q[s]) = 0
<1>1. Q[s] \in Seq(Cluster)
  BY DEF Owners
<1>2. Len(Q[s]) \in Nat /\ DOMAIN Q[s] = 1 .. Len(Q[s])
  BY <1>1, LenProperties
<1>3. \A i \in 1 .. Len(Q[s]) : Q[s][i] \in Cluster
  BY <1>1, ElementOfSeq
<1>4. Q[s] = <<>> <=> Len(Q[s]) = 0
  BY <1>1, EmptySeq
<1>5. QED
  BY <1>1, <1>2, <1>3, <1>4

(* One chain grows. *)
LEMMA GrownIs ==
    ASSUME NEW Q \in Owners, NEW o \in Slot, NEW c \in Cluster
    PROVE  /\ Grown(Q, o, c) \in Owners /\ \A s \in Slot : s # o => Grown(Q, o, c)[s] = Q[s]
           /\ Grown(Q, o, c)[o] # <<>>
           /\ Len(Grown(Q, o, c)[o]) = Len(Q[o]) + 1 /\ Grown(Q, o, c)[o][Len(Q[o]) + 1] = c
           /\ \A i \in 1 .. Len(Q[o]) : Grown(Q, o, c)[o][i] = Q[o][i]
<1>1. PICK q : q = Append(Q[o], c)
  OBVIOUS
<1>2. Q[o] \in Seq(Cluster) /\ Len(Q[o]) \in Nat
  BY OwnerFacts
<1>3. /\ q \in Seq(Cluster) /\ Len(q) = Len(Q[o]) + 1 /\ q[Len(Q[o]) + 1] = c
      /\ \A i \in 1 .. Len(Q[o]) : q[i] = Q[o][i]
  BY <1>1, <1>2, AppendProperties
<1>4. Grown(Q, o, c) = [Q EXCEPT ![o] = q]
  BY <1>1 DEF Grown
<1>5. Grown(Q, o, c) \in Owners /\ Grown(Q, o, c)[o] = q /\ \A s \in Slot : s # o => Grown(Q, o, c)[s] = Q[s]
  BY <1>3, <1>4 DEF Owners
<1>6. q # <<>>
  BY <1>2, <1>3, EmptySeq
<1>7. QED
  BY <1>3, <1>5, <1>6

(* One chain is cut. *)
LEMMA CutIs ==
    ASSUME NEW Q \in Owners, NEW o \in Slot, NEW r \in 0 .. Len(Q[o])
    PROVE  /\ CutAfter(Q, o, r) \in Owners /\ \A s \in Slot : s # o => CutAfter(Q, o, r)[s] = Q[s]
           /\ Len(CutAfter(Q, o, r)[o]) = r
           /\ \A i \in 1 .. r : CutAfter(Q, o, r)[o][i] = Q[o][i]
<1>1. PICK q : q = SubSeq(Q[o], 1, r)
  OBVIOUS
<1>2. Q[o] \in Seq(Cluster) /\ Len(Q[o]) \in Nat
  BY OwnerFacts
<1>3. /\ q \in Seq(Cluster) /\ Len(q) = r /\ \A i \in 1 .. r : q[i] = Q[o][i]
  <2>1. PICK n : n = Len(Q[o])
    OBVIOUS
  <2>2. n \in Nat /\ r \in 0 .. n
    BY <1>2, <2>1
  <2>3. \A i \in 1 .. r : i \in 1 .. n
    BY <2>2
  <2>4. \A i \in 1 .. r : Q[o][i] \in Cluster
    BY <2>1, <2>3, OwnerFacts
  <2>5. r \in Nat /\ 1 \in 1 .. n + 1
    BY <2>2
  <2>6. q = [i \in 1 .. r |-> Q[o][i]]
    BY <1>1, <1>2, <2>1, <2>2
  <2>7. q \in [1 .. r -> Cluster] /\ \A i \in 1 .. r : q[i] = Q[o][i]
    BY <2>4, <2>6
  <2>8. QED
    BY <2>5, <2>7, SeqDef, LenProperties
<1>4. CutAfter(Q, o, r) = [Q EXCEPT ![o] = q]
  BY <1>1 DEF CutAfter
<1>5. CutAfter(Q, o, r) \in Owners /\ CutAfter(Q, o, r)[o] = q /\ \A s \in Slot : s # o => CutAfter(Q, o, r)[s] = Q[s]
  BY <1>3, <1>4 DEF Owners
<1>6. QED
  BY <1>3, <1>5

(* One chain is dropped. *)
LEMMA WithoutIs ==
    ASSUME NEW Q \in Owners, NEW o \in Slot
    PROVE  /\ Without(Q, o) \in Owners /\ \A s \in Slot : s # o => Without(Q, o)[s] = Q[s]
           /\ Without(Q, o)[o] = <<>> /\ Len(Without(Q, o)[o]) = 0
<1>1. <<>> \in Seq(Cluster) /\ Len(<<>>) = 0
  OBVIOUS
<1>2. QED
  BY <1>1 DEF Without, Owners

(* What follows a cluster of a chain. *)
LEMMA LaidFacts ==
    ASSUME NEW f \in [Cluster -> FatEntry], NEW Q \in Owners, Laid(f, Q), NEW s \in Slot, NEW i \in 1 .. Len(Q[s])
    PROVE  /\ Q[s][i] \in Cluster /\ f[Q[s][i]] # FREE /\ f[Q[s][i]] = NextIn(Q[s], i)
           /\ NextCluster(f, Q[s][i]) = NextIn(Q[s], i)
<1>1. Q[s][i] \in Cluster /\ Len(Q[s]) \in Nat
  BY OwnerFacts
<1>2. f[Q[s][i]] = NextIn(Q[s], i)
  BY DEF Laid, Linked
<1>3. LAST # FREE /\ LAST \notin Cluster /\ FREE \notin Cluster
  BY ClusterFacts
<1>4. CASE i = Len(Q[s])
  <2>1. f[Q[s][i]] = LAST
    BY <1>2, <1>4 DEF NextIn
  <2>2. QED
    BY <1>1, <1>2, <1>3, <2>1 DEF NextCluster
<1>5. CASE i # Len(Q[s])
  <2>1. i + 1 \in 1 .. Len(Q[s])
    BY <1>1, <1>5
  <2>2. f[Q[s][i]] = Q[s][i + 1] /\ Q[s][i + 1] \in Cluster
    BY <1>2, <1>5, <2>1, OwnerFacts DEF NextIn
  <2>3. f[Q[s][i + 1]] = NextIn(Q[s], i + 1)
    BY <2>1 DEF Laid, Linked
  <2>4. NextIn(Q[s], i + 1) # FREE
    <3>1. CASE i + 1 = Len(Q[s])
      BY <3>1, <1>3 DEF NextIn
    <3>2. CASE i + 1 # Len(Q[s])
      <4>1. (i + 1) + 1 \in 1 .. Len(Q[s])
        BY <1>1, <2>1, <3>2
      <4>2. Q[s][(i + 1) + 1] \in Cluster
        BY <4>1, OwnerFacts
      <4>3. QED
        BY <1>3, <3>2, <4>2 DEF NextIn
    <3>3. QED
      BY <3>1, <3>2
  <2>5. QED
    BY <1>1, <1>2, <1>3, <2>2, <2>3, <2>4 DEF NextCluster
<1>6. QED
  BY <1>4, <1>5

(* A free cluster is in no chain. *)
LEMMA FreeOutside ==
    ASSUME NEW f \in [Cluster -> FatEntry], NEW Q \in Owners, Laid(f, Q), NEW c \in Cluster, f[c] = FREE
    PROVE  Outside(Q, c)
BY LaidFacts DEF Outside

(* An entry outside of all chains may change. *)
LEMMA LaidElsewhere ==
    ASSUME NEW f \in [Cluster -> FatEntry], NEW Q \in Owners, Laid(f, Q), NEW c \in Cluster, Outside(Q, c), NEW n \in FatEntry
    PROVE  Linking(f, c, n) \in [Cluster -> FatEntry] /\ Laid(Linking(f, c, n), Q)
<1>1. Linking(f, c, n) \in [Cluster -> FatEntry]
  BY DEF Linking
<1>2. ASSUME NEW s \in Slot, NEW i \in 1 .. Len(Q[s])
      PROVE  Linking(f, c, n)[Q[s][i]] = NextIn(Q[s], i)
  <2>1. Q[s][i] \in Cluster /\ Q[s][i] # c /\ f[Q[s][i]] = NextIn(Q[s], i)
    BY LaidFacts DEF Outside
  <2>2. QED
    BY <2>1 DEF Linking
<1>3. QED
  BY <1>1, <1>2 DEF Laid, Linked

(* A chain without clusters is not linked. *)
LEMMA LaidWithout ==
    ASSUME NEW f \in [Cluster -> FatEntry], NEW Q \in Owners, Laid(f, Q), NEW o \in Slot
    PROVE  /\ Without(Q, o) \in Owners /\ Laid(f, Without(Q, o))
           /\ \A i \in 1 .. Len(Q[o]) : Outside(Without(Q, o), Q[o][i])
<1>1. PICK P : P = Without(Q, o)
  OBVIOUS
<1>2. /\ P \in Owners /\ Len(P[o]) = 0 /\ \A s \in Slot : s # o => P[s] = Q[s]
  BY <1>1, WithoutIs
<1>3. \A s \in Slot : \A i \in 1 .. Len(P[s]) : s # o /\ P[s] = Q[s]
  BY <1>2
<1>4. Linked(f, P)
  BY <1>3 DEF Laid, Linked
<1>5. Apart(P)
  BY <1>3 DEF Laid, Apart
<1>6. \A i \in 1 .. Len(Q[o]) : Outside(P, Q[o][i])
  BY <1>3 DEF Laid, Apart, Outside
<1>7. QED
  BY <1>1, <1>2, <1>4, <1>5, <1>6 DEF Laid

(* A new cluster begins a chain, or goes behind the last one of it. *)
LEMMA LaidGrown ==
    ASSUME NEW f \in [Cluster -> FatEntry], NEW Q \in Owners, Laid(f, Q), NEW o \in Slot,
           NEW c \in Cluster, f[c] = LAST, Outside(Q, c),
           NEW g, IF Q[o] = <<>> THEN g = f ELSE g = Linking(f, Q[o][Len(Q[o])], c)
    PROVE  g \in [Cluster -> FatEntry] /\ Laid(g, Grown(Q, o, c))
<1>1. PICK P : P = Grown(Q, o, c)
  OBVIOUS
<1>2. /\ P \in Owners /\ \A s \in Slot : s # o => P[s] = Q[s]
      /\ Len(P[o]) = Len(Q[o]) + 1 /\ P[o][Len(Q[o]) + 1] = c
      /\ \A i \in 1 .. Len(Q[o]) : P[o][i] = Q[o][i]
  BY <1>1, GrownIs
<1>3. PICK n : n = Len(Q[o])
  OBVIOUS
<1>4. n \in Nat /\ (Q[o] = <<>> <=> n = 0)
  BY <1>3, OwnerFacts
<1>5. \A s \in Slot : \A i \in 1 .. Len(Q[s]) : /\ Q[s][i] \in Cluster /\ Q[s][i] # c
                                               /\ f[Q[s][i]] = NextIn(Q[s], i)
  BY LaidFacts DEF Outside
<1>6. /\ g \in [Cluster -> FatEntry] /\ g[c] = LAST
      /\ n # 0 => Q[o][n] \in Cluster /\ g[Q[o][n]] = c
      /\ \A d \in Cluster : (n # 0 => d # Q[o][n]) => g[d] = f[d]
  <2>1. CASE n = 0
    <3>1. g = f
      BY <1>4, <2>1
    <3>2. QED
      BY <2>1, <3>1
  <2>2. CASE n # 0
    <3>1. PICK u : u = Q[o][n]
      OBVIOUS
    <3>2. n \in 1 .. Len(Q[o])
      BY <1>3, <1>4, <2>2
    <3>3. u \in Cluster /\ u # c
      BY <1>5, <3>1, <3>2
    <3>4. g = [f EXCEPT ![u] = c] /\ c \in FatEntry
      BY <1>3, <1>4, <2>2, <3>1 DEF Linking, FatEntry
    <3>5. QED
      BY <3>1, <3>3, <3>4, <2>2
  <2>3. QED
    BY <2>1, <2>2
<1>7. ASSUME NEW s \in Slot, NEW i \in 1 .. Len(P[s])
      PROVE  g[P[s][i]] = NextIn(P[s], i)
  <2>1. CASE s # o
    <3>1. P[s] = Q[s] /\ i \in 1 .. Len(Q[s])
      BY <1>2, <2>1
    <3>2. n # 0 => Q[s][i] # Q[o][n]
      <4>1. n # 0 => n \in 1 .. Len(Q[o])
        BY <1>3, <1>4
      <4>2. QED
        BY <2>1, <3>1, <4>1 DEF Laid, Apart
    <3>3. g[Q[s][i]] = f[Q[s][i]] /\ f[Q[s][i]] = NextIn(Q[s], i)
      BY <1>5, <1>6, <3>1, <3>2
    <3>4. QED
      BY <3>1, <3>3
  <2>2. CASE s = o /\ i = n + 1
    <3>1. P[s][i] = c /\ Len(P[s]) = i
      BY <1>2, <1>3, <2>2
    <3>2. QED
      BY <1>6, <3>1 DEF NextIn
  <2>3. CASE s = o /\ i = n /\ n # 0
    <3>1. n \in 1 .. Len(Q[o]) /\ Len(P[o]) = n + 1 /\ P[o][n + 1] = c /\ P[o][n] = Q[o][n]
      BY <1>2, <1>3, <1>4, <2>3
    <3>2. NextIn(P[o], n) = c
      BY <3>1, <1>4 DEF NextIn
    <3>3. QED
      BY <1>6, <2>3, <3>1, <3>2
  <2>4. CASE s = o /\ i \in 1 .. n - 1
    <3>1. i \in 1 .. Len(Q[o]) /\ i + 1 \in 1 .. Len(Q[o]) /\ i # Len(Q[o]) /\ i # n + 1 /\ n # 0
      BY <1>3, <1>4, <2>4
    <3>2. Len(P[o]) = n + 1 /\ P[o][i] = Q[o][i] /\ P[o][i + 1] = Q[o][i + 1]
      BY <1>2, <1>3, <3>1
    <3>3. NextIn(P[o], i) = Q[o][i + 1] /\ NextIn(Q[o], i) = Q[o][i + 1]
      BY <3>1, <3>2 DEF NextIn
    <3>4. Q[o][i] # Q[o][n]
      <4>1. n \in 1 .. Len(Q[o]) /\ i # n
        BY <1>3, <1>4, <2>4
      <4>2. QED
        BY <3>1, <4>1 DEF Laid, Apart
    <3>5. QED
      BY <1>5, <1>6, <2>4, <3>1, <3>2, <3>3, <3>4
  <2>5. QED
    BY <1>2, <1>3, <1>4, <2>1, <2>2, <2>3, <2>4
<1>8. ASSUME NEW s \in Slot, NEW t \in Slot, NEW i \in 1 .. Len(P[s]), NEW j \in 1 .. Len(P[t]), P[s][i] = P[t][j]
      PROVE  s = t /\ i = j
  <2>1. ASSUME NEW x \in Slot, NEW k \in 1 .. Len(P[x])
        PROVE  \/ x = o /\ k = n + 1 /\ P[x][k] = c
               \/ k \in 1 .. Len(Q[x]) /\ P[x][k] = Q[x][k] /\ P[x][k] # c
    <3>1. CASE x = o /\ k = n + 1
      BY <1>2, <1>3, <3>1
    <3>2. CASE x = o /\ k # n + 1
      BY <1>2, <1>3, <1>4, <1>5, <3>2
    <3>3. CASE x # o
      BY <1>2, <1>5, <3>3
    <3>4. QED
      BY <3>1, <3>2, <3>3
  <2>2. CASE P[s][i] = c
    <3>1. s = o /\ i = n + 1
      BY <2>1, <2>2
    <3>2. P[t][j] = c
      BY <1>8, <2>2
    <3>3. t = o /\ j = n + 1
      BY <2>1, <3>2
    <3>4. QED
      BY <3>1, <3>3
  <2>3. CASE P[s][i] # c
    <3>1. i \in 1 .. Len(Q[s]) /\ j \in 1 .. Len(Q[t]) /\ Q[s][i] = Q[t][j]
      BY <1>8, <2>1, <2>3
    <3>2. QED
      BY <3>1 DEF Laid, Apart
  <2>4. QED
    BY <2>2, <2>3
<1>9. QED
  BY <1>1, <1>6, <1>7, <1>8 DEF Laid, Linked, Apart

(* A chain that is cut ends where it is cut. *)
LEMMA LaidCut ==
    ASSUME NEW f \in [Cluster -> FatEntry], NEW Q \in Owners, Laid(f, Q), NEW o \in Slot, NEW r \in 1 .. Len(Q[o])
    PROVE  /\ Linking(f, Q[o][r], LAST) \in [Cluster -> FatEntry]
           /\ Laid(Linking(f, Q[o][r], LAST), CutAfter(Q, o, r))
           /\ \A i \in r + 1 .. Len(Q[o]) : Outside(CutAfter(Q, o, r), Q[o][i])
<1>1. PICK P, g, u : P = CutAfter(Q, o, r) /\ u = Q[o][r] /\ g = Linking(f, u, LAST)
  OBVIOUS
<1>2. r \in 0 .. Len(Q[o]) /\ Len(Q[o]) \in Nat
  BY OwnerFacts
<1>3. /\ P \in Owners /\ \A s \in Slot : s # o => P[s] = Q[s]
      /\ Len(P[o]) = r /\ \A i \in 1 .. r : P[o][i] = Q[o][i]
  BY <1>1, <1>2, CutIs
<1>4. \A s \in Slot : \A i \in 1 .. Len(P[s]) : i \in 1 .. Len(Q[s]) /\ P[s][i] = Q[s][i]
  BY <1>2, <1>3
<1>5. u \in Cluster /\ LAST \in FatEntry
  BY <1>1, LaidFacts DEF FatEntry
<1>6. g \in [Cluster -> FatEntry] /\ g[u] = LAST /\ \A d \in Cluster : d # u => g[d] = f[d]
  BY <1>1, <1>5 DEF Linking
<1>7. ASSUME NEW s \in Slot, NEW i \in 1 .. Len(P[s])
      PROVE  g[P[s][i]] = NextIn(P[s], i)
  <2>1. i \in 1 .. Len(Q[s]) /\ P[s][i] = Q[s][i] /\ Q[s][i] \in Cluster /\ f[Q[s][i]] = NextIn(Q[s], i)
    BY <1>4, LaidFacts
  <2>2. Q[s][i] = u => s = o /\ i = r
    BY <1>1, <2>1 DEF Laid, Apart
  <2>3. CASE s = o /\ i = r
    BY <1>1, <1>3, <1>6, <2>1, <2>3 DEF NextIn
  <2>4. CASE ~(s = o /\ i = r)
    <3>1. NextIn(P[s], i) = NextIn(Q[s], i)
      <4>1. CASE s # o
        BY <1>3, <4>1
      <4>2. CASE s = o
        <5>1. i # r /\ i + 1 \in 1 .. r /\ i # Len(Q[o])
          BY <1>2, <1>3, <2>4, <4>2
        <5>2. QED
          BY <1>3, <4>2, <5>1 DEF NextIn
      <4>3. QED
        BY <4>1, <4>2
    <3>2. QED
      BY <1>6, <2>1, <2>2, <2>4, <3>1
  <2>5. QED
    BY <2>3, <2>4
<1>8. Apart(P)
  BY <1>4 DEF Laid, Apart
<1>9. ASSUME NEW i \in r + 1 .. Len(Q[o])
      PROVE  Outside(P, Q[o][i])
  <2>1. i \in 1 .. Len(Q[o]) /\ i \notin 1 .. r
    BY <1>2
  <2>2. ASSUME NEW s \in Slot, NEW j \in 1 .. Len(P[s]), P[s][j] = Q[o][i]
        PROVE  FALSE
    <3>1. j \in 1 .. Len(Q[s]) /\ Q[s][j] = Q[o][i]
      BY <1>4, <2>2
    <3>2. s = o /\ j = i
      BY <2>1, <3>1 DEF Laid, Apart
    <3>3. QED
      BY <1>3, <2>1, <3>2
  <2>3. QED
    BY <2>2 DEF Outside
<1>10. QED
  BY <1>1, <1>6, <1>7, <1>8, <1>9 DEF Laid, Linked

(* Chain follows links, LastCluster times. *)
IsWalk(f, c, n, w) == /\ w[0] = <<c>> /\ Chain(f, c) = w[n]
                      /\ \A i \in 0 .. n : w[i] \in Chains(c)
                      /\ \A i \in 1 .. n : w[i] = Follow(f, w[i - 1])
LEMMA ChainSteps ==
    ASSUME NEW f \in [Cluster -> FatEntry], NEW c \in Cluster
    PROVE  \E w : IsWalk(f, c, LastCluster, w)
<1> DEFINE T == Chains(c)
           x == <<c>>
           n == LastCluster
           F == [X \in T |-> Follow(f, X)]
           G(g) == [i \in 0 .. n |-> IF i = 0 THEN x ELSE Follow(f, g[i - 1])]
           w == CHOOSE g : g = G(g)
<1>1. ASSUME NEW X \in T PROVE Follow(f, X) \in T
  BY FollowType
<1>2. x \in T
  BY DEF Chains
<1>3. n \in Nat
  BY ClusterFacts
<1>4. Chain(f, c) = w[n]
  BY DEF Chain, Repeat
<1> HIDE DEF T, n, x
<1>5. F \in [T -> T]
  BY <1>1
<1>6. PICK g : Iteration(g, T, F, x, n)
  <2> HIDE DEF F
  <2> QED  BY <1>2, <1>3, <1>5, Iterates
<1>7. g = G(g)
  <2>1. ASSUME NEW i \in 1 .. n PROVE g[i] = Follow(f, g[i - 1])
    <3>1. g[i - 1] \in T
      BY <1>3, <1>6 DEF Iteration
    <3>2. QED
      BY <1>6, <3>1 DEF Iteration
  <2>2. \A i \in 0 .. n : g[i] = G(g)[i]
    BY <1>3, <1>6, <2>1 DEF Iteration
  <2>3. QED
    BY <1>6, <2>2 DEF Iteration
<1>8. w = G(w)
  <2> HIDE DEF G
  <2> QED  BY <1>7
<1>9. w[0] = x /\ \A i \in 1 .. n : w[i] = Follow(f, w[i - 1])
  <2> HIDE DEF w
  <2> QED  BY <1>3, <1>8
<1> HIDE DEF w
<1>10. ASSUME NEW m \in 0 .. n
       PROVE  w[m] \in T
  <2> DEFINE B == {i \in 0 .. m : w[i] \in T}
  <2>1. 0 \in B /\ \A i \in 1 .. m : i - 1 \in B => i \in B
    BY <1>1, <1>2, <1>3, <1>9
  <2> HIDE DEF B
  <2>2. m \in B
    BY <1>3, <2>1, UpTheSteps
  <2>3. QED
    BY <2>2 DEF B
<1>11. IsWalk(f, c, n, w)
  BY <1>4, <1>9, <1>10 DEF IsWalk, T, x
<1>12. QED
  BY <1>11 DEF n

(* wipe_out_clusters takes LastCluster steps. *)
LEMMA WipeSteps ==
    ASSUME NEW W \in Good, NEW c \in Int
    PROVE  \E w : /\ w[0] = [W EXCEPT !.got = c] /\ WipeFrom(W, c) = w[LastCluster]
                  /\ \A i \in 0 .. LastCluster : w[i] \in Good
                  /\ \A i \in 1 .. LastCluster : w[i] = WipeStep(w[i - 1])
<1> DEFINE T == Good
           x == [W EXCEPT !.got = c]
           n == LastCluster
           F == [X \in T |-> WipeStep(X)]
           G(g) == [i \in 0 .. n |-> IF i = 0 THEN x ELSE WipeStep(g[i - 1])]
           w == CHOOSE g : g = G(g)
<1>1. ASSUME NEW X \in T PROVE WipeStep(X) \in T
  BY WipeStepGood
<1>2. x \in T
  BY DEF Good, Work
<1>3. n \in Nat
  BY ClusterFacts
<1>4. WipeFrom(W, c) = w[n]
  BY DEF WipeFrom, Repeat
<1> HIDE DEF T, n, x
<1>5. F \in [T -> T]
  BY <1>1
<1>6. PICK g : Iteration(g, T, F, x, n)
  <2> HIDE DEF F
  <2> QED  BY <1>2, <1>3, <1>5, Iterates
<1>7. g = G(g)
  <2>1. ASSUME NEW i \in 1 .. n PROVE g[i] = WipeStep(g[i - 1])
    <3>1. g[i - 1] \in T
      BY <1>3, <1>6 DEF Iteration
    <3>2. QED
      BY <1>6, <3>1 DEF Iteration
  <2>2. \A i \in 0 .. n : g[i] = G(g)[i]
    BY <1>3, <1>6, <2>1 DEF Iteration
  <2>3. QED
    BY <1>6, <2>2 DEF Iteration
<1>8. w = G(w)
  <2> HIDE DEF G
  <2> QED  BY <1>7
<1>9. w[0] = x /\ \A i \in 1 .. n : w[i] = WipeStep(w[i - 1])
  <2> HIDE DEF w
  <2> QED  BY <1>3, <1>8
<1> HIDE DEF w
<1>10. ASSUME NEW m \in 0 .. n
       PROVE  w[m] \in T
  <2> DEFINE B == {i \in 0 .. m : w[i] \in T}
  <2>1. 0 \in B /\ \A i \in 1 .. m : i - 1 \in B => i \in B
    BY <1>1, <1>2, <1>3, <1>9
  <2> HIDE DEF B
  <2>2. m \in B
    BY <1>3, <2>1, UpTheSteps
  <2>3. QED
    BY <2>2 DEF B
<1>11. QED
  BY <1>4, <1>9, <1>10 DEF T, x, n

(* map_cluster takes a step for each cluster up to the bound of offsets. *)
LEMMA MapSteps ==
    ASSUME NEW W \in Good, NEW mode
    PROVE  \E w : /\ w[0] = Rewound(Entered(W, mode)) /\ MapCluster(W, mode) = w[MaxOffset \div ClusUnits]
                  /\ \A i \in 0 .. MaxOffset \div ClusUnits : w[i] \in Good
                  /\ \A i \in 1 .. MaxOffset \div ClusUnits : w[i] = Forward(w[i - 1], mode)
<1> DEFINE T == Good
           x == Rewound(Entered(W, mode))
           n == MaxOffset \div ClusUnits
           F == [X \in T |-> Forward(X, mode)]
           G(g) == [i \in 0 .. n |-> IF i = 0 THEN x ELSE Forward(g[i - 1], mode)]
           w == CHOOSE g : g = G(g)
<1>1. ASSUME NEW X \in T PROVE Forward(X, mode) \in T
  BY ForwardGood
<1>2. x \in T
  BY MapStarts
<1>3. n \in Nat
  BY FatAssumption
<1>4. MapCluster(W, mode) = w[n]
  BY DEF MapCluster, Repeat
<1> HIDE DEF T, n, x
<1>5. F \in [T -> T]
  BY <1>1
<1>6. PICK g : Iteration(g, T, F, x, n)
  <2> HIDE DEF F
  <2> QED  BY <1>2, <1>3, <1>5, Iterates
<1>7. g = G(g)
  <2>1. ASSUME NEW i \in 1 .. n PROVE g[i] = Forward(g[i - 1], mode)
    <3>1. g[i - 1] \in T
      BY <1>3, <1>6 DEF Iteration
    <3>2. QED
      BY <1>6, <3>1 DEF Iteration
  <2>2. \A i \in 0 .. n : g[i] = G(g)[i]
    BY <1>3, <1>6, <2>1 DEF Iteration
  <2>3. QED
    BY <1>6, <2>2 DEF Iteration
<1>8. w = G(w)
  <2> HIDE DEF G
  <2> QED  BY <1>7
<1>9. w[0] = x /\ \A i \in 1 .. n : w[i] = Forward(w[i - 1], mode)
  <2> HIDE DEF w
  <2> QED  BY <1>3, <1>8
<1> HIDE DEF w
<1>10. ASSUME NEW m \in 0 .. n
       PROVE  w[m] \in T
  <2> DEFINE B == {i \in 0 .. m : w[i] \in T}
  <2>1. 0 \in B /\ \A i \in 1 .. m : i - 1 \in B => i \in B
    BY <1>1, <1>2, <1>3, <1>9
  <2> HIDE DEF B
  <2>2. m \in B
    BY <1>3, <2>1, UpTheSteps
  <2>3. QED
    BY <2>2 DEF B
<1>11. QED
  BY <1>4, <1>9, <1>10 DEF T, x, n

(* A read takes a unit at a time. *)
LEMMA ReadSteps ==
    ASSUME NEW W \in Good, NEW k \in Nat
    PROVE  \E w : /\ w[0] = W /\ Reads(W, k) = w[k]
                  /\ \A i \in 0 .. k : w[i] \in Good
                  /\ \A i \in 1 .. k : w[i] = Then(w[i - 1], ReadUnit)
<1> DEFINE T == Good
           x == W
           n == k
           F == [X \in T |-> Then(X, ReadUnit)]
           G(g) == [i \in 0 .. n |-> IF i = 0 THEN x ELSE Then(g[i - 1], ReadUnit)]
           w == CHOOSE g : g = G(g)
<1>1. ASSUME NEW X \in T PROVE Then(X, ReadUnit) \in T
  BY ReadUnitGood
<1>2. x \in T
  OBVIOUS
<1>3. n \in Nat
  OBVIOUS
<1>4. Reads(W, k) = w[n]
  BY DEF Reads, Repeat
<1> HIDE DEF T, n, x
<1>5. F \in [T -> T]
  BY <1>1
<1>6. PICK g : Iteration(g, T, F, x, n)
  <2> HIDE DEF F
  <2> QED  BY <1>2, <1>3, <1>5, Iterates
<1>7. g = G(g)
  <2>1. ASSUME NEW i \in 1 .. n PROVE g[i] = Then(g[i - 1], ReadUnit)
    <3>1. g[i - 1] \in T
      BY <1>3, <1>6 DEF Iteration
    <3>2. QED
      BY <1>6, <3>1 DEF Iteration
  <2>2. \A i \in 0 .. n : g[i] = G(g)[i]
    BY <1>3, <1>6, <2>1 DEF Iteration
  <2>3. QED
    BY <1>6, <2>2 DEF Iteration
<1>8. w = G(w)
  <2> HIDE DEF G
  <2> QED  BY <1>7
<1>9. w[0] = x /\ \A i \in 1 .. n : w[i] = Then(w[i - 1], ReadUnit)
  <2> HIDE DEF w
  <2> QED  BY <1>3, <1>8
<1> HIDE DEF w
<1>10. ASSUME NEW m \in 0 .. n
       PROVE  w[m] \in T
  <2> DEFINE B == {i \in 0 .. m : w[i] \in T}
  <2>1. 0 \in B /\ \A i \in 1 .. m : i - 1 \in B => i \in B
    BY <1>1, <1>2, <1>3, <1>9
  <2> HIDE DEF B
  <2>2. m \in B
    BY <1>3, <2>1, UpTheSteps
  <2>3. QED
    BY <2>2 DEF B
<1>11. QED
  BY <1>4, <1>9, <1>10 DEF T, x, n

(* A write takes a unit at a time. *)
LEMMA WriteSteps ==
    ASSUME NEW W \in Good, NEW k \in Nat
    PROVE  \E w : /\ w[0] = W /\ Writes(W, k) = w[k]
                  /\ \A i \in 0 .. k : w[i] \in Good
                  /\ \A i \in 1 .. k : w[i] = Then(w[i - 1], WriteUnit)
<1> DEFINE T == Good
           x == W
           n == k
           F == [X \in T |-> Then(X, WriteUnit)]
           G(g) == [i \in 0 .. n |-> IF i = 0 THEN x ELSE Then(g[i - 1], WriteUnit)]
           w == CHOOSE g : g = G(g)
<1>1. ASSUME NEW X \in T PROVE Then(X, WriteUnit) \in T
  BY WriteUnitGood
<1>2. x \in T
  OBVIOUS
<1>3. n \in Nat
  OBVIOUS
<1>4. Writes(W, k) = w[n]
  BY DEF Writes, Repeat
<1> HIDE DEF T, n, x
<1>5. F \in [T -> T]
  BY <1>1
<1>6. PICK g : Iteration(g, T, F, x, n)
  <2> HIDE DEF F
  <2> QED  BY <1>2, <1>3, <1>5, Iterates
<1>7. g = G(g)
  <2>1. ASSUME NEW i \in 1 .. n PROVE g[i] = Then(g[i - 1], WriteUnit)
    <3>1. g[i - 1] \in T
      BY <1>3, <1>6 DEF Iteration
    <3>2. QED
      BY <1>6, <3>1 DEF Iteration
  <2>2. \A i \in 0 .. n : g[i] = G(g)[i]
    BY <1>3, <1>6, <2>1 DEF Iteration
  <2>3. QED
    BY <1>6, <2>2 DEF Iteration
<1>8. w = G(w)
  <2> HIDE DEF G
  <2> QED  BY <1>7
<1>9. w[0] = x /\ \A i \in 1 .. n : w[i] = Then(w[i - 1], WriteUnit)
  <2> HIDE DEF w
  <2> QED  BY <1>3, <1>8
<1> HIDE DEF w
<1>10. ASSUME NEW m \in 0 .. n
       PROVE  w[m] \in T
  <2> DEFINE B == {i \in 0 .. m : w[i] \in T}
  <2>1. 0 \in B /\ \A i \in 1 .. m : i - 1 \in B => i \in B
    BY <1>1, <1>2, <1>3, <1>9
  <2> HIDE DEF B
  <2>2. m \in B
    BY <1>3, <2>1, UpTheSteps
  <2>3. QED
    BY <2>2 DEF B
<1>11. QED
  BY <1>4, <1>9, <1>10 DEF T, x, n

(* A sequence of clusters without a repetition is no longer than the disk. *)
LEMMA NoLonger ==
    ASSUME NEW q \in Seq(Cluster), \A i, j \in 1 .. Len(q) : q[i] = q[j] => i = j
    PROVE  Len(q) < LastCluster
<1>1. PICK n : n = Len(q)
  OBVIOUS
<1>2. n \in Nat /\ \A i \in 1 .. n : q[i] \in Cluster
  BY <1>1, LenProperties, ElementOfSeq
<1>3. IsFiniteSet(1 .. n) /\ Cardinality(1 .. n) = n
  <2>1. 1 \in Int /\ n \in Int
    BY <1>2
  <2>2. IsFiniteSet(1 .. n) /\ Cardinality(1 .. n) = IF 1 > n THEN 0 ELSE n - 1 + 1
    BY <2>1, FS_Interval
  <2>3. QED
    BY <1>2, <2>2
<1>4. IsFiniteSet(Cluster) /\ Cardinality(Cluster) = LastCluster - 1
  <2>1. PICK m : m = LastCluster
    OBVIOUS
  <2>2. m \in Nat \ {0, 1} /\ 2 \in Int /\ m \in Int
    BY <2>1, FatAssumption
  <2>3. IsFiniteSet(2 .. m) /\ Cardinality(2 .. m) = IF 2 > m THEN 0 ELSE m - 2 + 1
    BY <2>2, FS_Interval
  <2>4. QED
    BY <2>1, <2>2, <2>3 DEF Cluster
<1>5. PICK f : f = [i \in 1 .. n |-> q[i]]
  OBVIOUS
<1>6. f \in [1 .. n -> Cluster] /\ \A i \in 1 .. n : f[i] = q[i]
  BY <1>2, <1>5
<1>7. ~(Cardinality(Cluster) < Cardinality(1 .. n))
  <2>1. SUFFICES ASSUME Cardinality(Cluster) < Cardinality(1 .. n)
                 PROVE  FALSE
    OBVIOUS
  <2>2. \E x, y \in 1 .. n : x # y /\ f[x] = f[y]
    <3>1. PICK A, B : A = 1 .. n /\ B = Cluster
      OBVIOUS
    <3>2. IsFiniteSet(A) /\ IsFiniteSet(B) /\ Cardinality(B) < Cardinality(A) /\ f \in [A -> B]
      BY <1>3, <1>4, <1>6, <2>1, <3>1
    <3>3. \E x, y \in A : x # y /\ f[x] = f[y]
      BY <3>2, FS_PigeonHole
    <3>4. QED
      BY <3>1, <3>3
  <2>3. QED
    BY <1>1, <1>6, <2>2
<1>8. QED
  BY <1>1, <1>2, <1>3, <1>4, <1>7, FatAssumption

(* Chain reads a chain of Q to its end. *)
LEMMA ChainIs ==
    ASSUME NEW f \in [Cluster -> FatEntry], NEW Q \in Owners, Laid(f, Q), NEW s \in Slot, Q[s] # <<>>
    PROVE  Chain(f, Q[s][1]) = Q[s] /\ Q[s][1] \in Cluster
<1>1. PICK q, m : q = Q[s] /\ m = Len(q)
  OBVIOUS
<1>2. q \in Seq(Cluster) /\ m \in Nat \ {0} /\ \A i \in 1 .. m : q[i] \in Cluster
  BY <1>1, OwnerFacts
<1>3. q[1] \in Cluster
  BY <1>2
<1>4. m < LastCluster
  <2>1. \A i, j \in 1 .. Len(q) : q[i] = q[j] => i = j
    BY <1>1 DEF Laid, Apart
  <2>2. QED
    BY <1>1, <1>2, <2>1, NoLonger
<1>5. \A i \in 1 .. m : NextCluster(f, q[i]) = NextIn(q, i) /\ f[q[i]] = NextIn(q, i)
  BY <1>1, LaidFacts
<1>6. LAST \notin Cluster
  BY ClusterFacts
<1>7. PICK n : n = LastCluster
  OBVIOUS
<1>8. n \in Nat /\ m < n
  BY <1>4, <1>7, ClusterFacts
<1>9. PICK w : /\ w[0] = <<q[1]>> /\ Chain(f, q[1]) = w[n]
               /\ \A i \in 0 .. n : w[i] \in Chains(q[1])
               /\ \A i \in 1 .. n : w[i] = Follow(f, w[i - 1])
  <2>1. PICK v : IsWalk(f, q[1], n, v)
    BY <1>3, <1>7, ChainSteps
  <2>2. QED
    BY <2>1 DEF IsWalk
<1> DEFINE P(i) == \E k \in 1 .. m : /\ Len(w[i]) = k /\ \A j \in 1 .. k : w[i][j] = q[j]
                                     /\ k = i + 1 \/ k = m
           B == {i \in 0 .. n : P(i)}
<1>10. 0 \in B
  <2>1. Len(w[0]) = 1 /\ w[0][1] = q[1] /\ 1 \in 1 .. m
    BY <1>2, <1>9
  <2>2. P(0)
    BY <2>1
  <2>3. QED
    BY <1>8, <2>2
<1>11. ASSUME NEW i \in 1 .. n, i - 1 \in B
       PROVE  i \in B
  <2>1. PICK k \in 1 .. m : /\ Len(w[i - 1]) = k /\ \A j \in 1 .. k : w[i - 1][j] = q[j]
                            /\ k = (i - 1) + 1 \/ k = m
    BY <1>11
  <2>2. PICK c : c = w[i - 1]
    OBVIOUS
  <2>3. i - 1 \in 0 .. n /\ c \in Seq(Cluster) /\ Len(c) = k /\ k \in Nat /\ k > 0
    BY <1>2, <1>8, <1>9, <2>1, <2>2 DEF Chains
  <2>4. Last(c) = q[k] /\ w[i] = Follow(f, c)
    BY <1>9, <2>1, <2>2, <2>3 DEF Last
  <2>5. CASE k = m
    <3>1. NextCluster(f, Last(c)) \notin Cluster
      BY <1>1, <1>5, <1>6, <2>1, <2>4, <2>5 DEF NextIn
    <3>2. w[i] = c
      BY <2>4, <3>1 DEF Follow
    <3>3. P(i)
      BY <2>1, <2>2, <2>5, <3>2
    <3>4. QED
      BY <3>3
  <2>6. CASE k # m
    <3>1. k + 1 \in 1 .. m /\ k = i
      BY <1>2, <2>1, <2>6
    <3>2. NextCluster(f, Last(c)) = q[k + 1] /\ f[Last(c)] = q[k + 1] /\ q[k + 1] \in Cluster
      BY <1>1, <1>2, <1>5, <2>1, <2>4, <2>6, <3>1 DEF NextIn
    <3>3. w[i] = Append(c, q[k + 1])
      BY <2>4, <3>2 DEF Follow
    <3>4. PICK e : e = q[k + 1]
      OBVIOUS
    <3>5. /\ Len(w[i]) = k + 1 /\ w[i][k + 1] = e /\ \A j \in 1 .. k : w[i][j] = c[j]
      BY <2>3, <3>2, <3>3, <3>4, AppendProperties
    <3>6. \A j \in 1 .. k + 1 : w[i][j] = q[j]
      BY <2>1, <2>2, <3>4, <3>5
    <3>7. P(i)
      BY <3>1, <3>5, <3>6
    <3>8. QED
      BY <3>7
  <2>7. QED
    BY <2>5, <2>6
<1>12. n \in B
  <2> HIDE DEF B
  <2> QED  BY <1>8, <1>10, <1>11, UpTheSteps
<1>13. Len(w[n]) = m /\ \A j \in 1 .. m : w[n][j] = q[j]
  <2>1. PICK k \in 1 .. m : /\ Len(w[n]) = k /\ \A j \in 1 .. k : w[n][j] = q[j]
                            /\ k = n + 1 \/ k = m
    BY <1>12
  <2>2. k = m
    BY <1>2, <1>8, <2>1
  <2>3. QED
    BY <2>1, <2>2
<1>14. w[n] \in Seq(Cluster)
  BY <1>8, <1>9 DEF Chains
<1>15. w[n] = q
  BY <1>1, <1>2, <1>13, <1>14, SeqEqual
<1>16. QED
  BY <1>1, <1>3, <1>9, <1>15

-----------------------------------------------------------------------------
(* Work of a call that leaves the directories and the file alone. *)
SameFile(X, W) ==
    /\ X.dirent = W.dirent /\ X.start = W.start /\ X.size = W.size /\ X.cu = W.cu
    /\ X.rel = W.rel /\ X.off = W.off /\ X.shared = W.shared
NotBroken(X, W) == X.broken = W.broken /\ X.ok = W.ok

(* link_fat writes the entry, or nothing. *)
LEMMA LinkIs ==
    ASSUME NEW W \in Good, NEW c \in Cluster, NEW n \in FatEntry
    PROVE  /\ LinkFat(W, c, n) \in Good /\ SameFile(LinkFat(W, c, n), W) /\ LinkFat(W, c, n).got = W.got
           /\ LinkFat(W, c, n).hint = W.hint
           /\ \/ ~LinkFat(W, c, n).ok /\ LinkFat(W, c, n).broken /\ LinkFat(W, c, n).fat = W.fat
              \/ LinkFat(W, c, n).fat = Linking(W.fat, c, n) /\ NotBroken(LinkFat(W, c, n), W)
<1>1. LinkFat(W, c, n) \in Good
  BY LinkGood
<1>2. CASE W.links = 0
  BY <1>1, <1>2 DEF LinkFat, SameFile, Good, Work
<1>3. CASE W.links # 0
  <2>1. PICK a, b, g : /\ a = (IF W.nfree = UNKNOWN THEN W.nfree ELSE W.nfree + FreeChange(W.fat[c], n))
                       /\ b = (IF W.links = Always THEN W.links ELSE W.links - 1)
                       /\ g = [W.fat EXCEPT ![c] = n]
    OBVIOUS
  <2>2. LinkFat(W, c, n) = [W EXCEPT !.fat = g, !.nfree = a, !.links = b]
    BY <1>3, <2>1 DEF LinkFat, Good, Work
  <2>3. PICK X : X = [W EXCEPT !.fat = g, !.nfree = a, !.links = b]
    OBVIOUS
  <2>4. /\ X.fat = g /\ X.got = W.got /\ X.hint = W.hint /\ X.ok = W.ok /\ X.broken = W.broken
        /\ X.dirent = W.dirent /\ X.start = W.start /\ X.size = W.size /\ X.cu = W.cu
        /\ X.rel = W.rel /\ X.off = W.off /\ X.shared = W.shared
    BY <2>3 DEF Good, Work
  <2>5. LinkFat(W, c, n) = X
    BY <2>2, <2>3
  <2>6. QED
    BY <1>1, <2>1, <2>4, <2>5 DEF SameFile, NotBroken, Linking
<1>4. QED
  BY <1>2, <1>3

(* wipe_out_clusters gives one cluster back, or its link fails. *)
LEMMA WipeStepIs ==
    ASSUME NEW W \in Good, W.ok, NEW c \in Cluster, W.got = c, NEW n \in {LAST} \cup Cluster, NextCluster(W.fat, c) = n
    PROVE  /\ SameFile(WipeStep(W), W)
           /\ \/ ~WipeStep(W).ok /\ WipeStep(W).broken /\ WipeStep(W).fat = W.fat
              \/ /\ WipeStep(W).fat = Linking(W.fat, c, FREE) /\ WipeStep(W).got = n
                 /\ NotBroken(WipeStep(W), W)
<1>1. LAST \notin {FREE, ERROR} /\ c # LAST /\ n \notin {FREE, ERROR} /\ FREE \in FatEntry
  BY ClusterFacts DEF FatEntry, FREE, ERROR, LAST
<1>2. PICK X : X = LinkFat(W, c, FREE)
  OBVIOUS
<1>3. /\ X \in Good /\ SameFile(X, W)
      /\ \/ ~X.ok /\ X.broken /\ X.fat = W.fat
         \/ X.fat = Linking(W.fat, c, FREE) /\ NotBroken(X, W)
  BY <1>1, <1>2, LinkIs
<1>4. PICK h : h = (IF X.hint = UNKNOWN \/ X.hint > W.got THEN W.got ELSE X.hint)
  OBVIOUS
<1>5. WipeStep(W) = IF X.ok THEN [X EXCEPT !.hint = h, !.got = n] ELSE X
  <2>1. [X EXCEPT !.hint = IF @ = UNKNOWN \/ @ > W.got THEN W.got ELSE @, !.got = n] = [X EXCEPT !.hint = h, !.got = n]
    BY <1>3, <1>4 DEF Good, Work
  <2>2. WipeStep(W) = Wiped(W, n)
    BY <1>1 DEF WipeStep
  <2>3. QED
    BY <1>1, <1>2, <2>1, <2>2 DEF Wiped, Then
<1>6. PICK Y : Y = [X EXCEPT !.hint = h, !.got = n]
  OBVIOUS
<1>7. /\ Y.fat = X.fat /\ Y.got = n /\ Y.ok = X.ok /\ Y.broken = X.broken
      /\ Y.dirent = X.dirent /\ Y.start = X.start /\ Y.size = X.size /\ Y.cu = X.cu
      /\ Y.rel = X.rel /\ Y.off = X.off /\ Y.shared = X.shared
  BY <1>3, <1>6 DEF Good, Work
<1>8. X.ok \in BOOLEAN
  BY <1>3 DEF Good, Work
<1>9. CASE X.ok
  <2>1. WipeStep(W) = Y
    BY <1>5, <1>6, <1>9
  <2>2. SameFile(Y, W) /\ NotBroken(Y, X)
    BY <1>3, <1>7 DEF SameFile, NotBroken
  <2>3. QED
    BY <1>3, <1>7, <1>9, <2>1, <2>2 DEF NotBroken
<1>10. CASE ~X.ok
  <2>1. WipeStep(W) = X
    BY <1>5, <1>10
  <2>2. ~NotBroken(X, W)
    BY <1>10 DEF NotBroken
  <2>3. QED
    BY <1>3, <2>1, <2>2
<1>11. QED
  BY <1>8, <1>9, <1>10

(* A tail of a chain: linked to its end in f, in no chain of Q. *)
Tailing(f, Q, t) ==
    /\ t \in Seq(Cluster) /\ Len(t) > 0
    /\ \A i \in 1 .. Len(t) : f[t[i]] = NextIn(t, i) /\ Outside(Q, t[i])
    /\ \A i, j \in 1 .. Len(t) : t[i] = t[j] => i = j

(* The first k clusters of it are given back. *)
FreedTo(g, f, t, k) ==
    /\ g \in [Cluster -> FatEntry]
    /\ \A c \in Cluster : g[c] = IF \E j \in 1 .. k : t[j] = c THEN FREE ELSE f[c]

(* Chains stay as long as their entries do. *)
LEMMA LaidSame ==
    ASSUME NEW f \in [Cluster -> FatEntry], NEW g, NEW Q \in Owners, Laid(f, Q),
           \A c \in Cluster : Outside(Q, c) \/ g[c] = f[c]
    PROVE  Laid(g, Q)
<1>1. ASSUME NEW s \in Slot, NEW i \in 1 .. Len(Q[s])
      PROVE  g[Q[s][i]] = NextIn(Q[s], i)
  <2>1. Q[s][i] \in Cluster /\ f[Q[s][i]] = NextIn(Q[s], i)
    BY LaidFacts
  <2>2. ~Outside(Q, Q[s][i])
    BY DEF Outside
  <2>3. QED
    BY <2>1, <2>2
<1>2. QED
  BY <1>1 DEF Laid, Linked

(* wipe_out_clusters from the head of a tail gives all of it back, unless *)
(* a link fails.                                                          *)
LEMMA WipeLaid ==
    ASSUME NEW W \in Good, W.ok, NEW Q \in Owners, NEW t, Tailing(W.fat, Q, t)
    PROVE  /\ SameFile(WipeFrom(W, t[1]), W) /\ t[1] \in Cluster
           /\ \E k \in 0 .. Len(t) :
                  /\ FreedTo(WipeFrom(W, t[1]).fat, W.fat, t, k)
                  /\ WipeFrom(W, t[1]).broken \/ (k = Len(t) /\ WipeFrom(W, t[1]).broken = W.broken)
           /\ W.broken => WipeFrom(W, t[1]).broken
<1>1. PICK m, f, n : m = Len(t) /\ f = W.fat /\ n = LastCluster
  OBVIOUS
<1>2. /\ t \in Seq(Cluster) /\ m \in Nat \ {0} /\ \A i \in 1 .. m : t[i] \in Cluster
      /\ \A i \in 1 .. m : f[t[i]] = NextIn(t, i)
      /\ \A i, j \in 1 .. m : t[i] = t[j] => i = j
  BY <1>1, LenProperties, ElementOfSeq DEF Tailing
<1>3. m < n /\ n \in Nat
  BY <1>1, <1>2, NoLonger, ClusterFacts
<1>4. f \in [Cluster -> FatEntry] /\ LAST \notin Cluster /\ FREE \notin Cluster /\ LAST # FREE
  BY <1>1, ClusterFacts DEF Good, Work
<1>5. t[1] \in Cluster /\ t[1] \in Int
  <2>1. 1 \in 1 .. m
    BY <1>2
  <2>2. t[1] \in Cluster
    BY <1>2, <2>1
  <2>3. \A u : u \in Cluster => u \in Int
    BY ClusterFacts
  <2>4. QED
    BY <2>2, <2>3
<1>6. PICK w : /\ w[0] = [W EXCEPT !.got = t[1]] /\ WipeFrom(W, t[1]) = w[n]
               /\ \A i \in 0 .. n : w[i] \in Good
               /\ \A i \in 1 .. n : w[i] = WipeStep(w[i - 1])
  BY <1>1, <1>5, WipeSteps
<1> DEFINE P(X, i) == \E k \in 0 .. m :
                       /\ SameFile(X, W) /\ FreedTo(X.fat, f, t, k)
                       /\ \/ ~X.ok /\ X.broken
                          \/ /\ X.ok = TRUE /\ X.broken = W.broken
                             /\ k = i \/ k = m
                             /\ X.got = IF k = m THEN LAST ELSE t[k + 1]
           B == {i \in 0 .. n : P(w[i], i)}
<1>7. 0 \in B
  <2>1. SameFile(w[0], W) /\ w[0].fat = f /\ w[0].ok = TRUE /\ w[0].broken = W.broken /\ w[0].got = t[1]
    BY <1>1, <1>6 DEF SameFile, Good, Work
  <2>2. FreedTo(f, f, t, 0)
    BY <1>4 DEF FreedTo
  <2>3. 0 \in 0 .. m /\ 0 # m /\ 0 + 1 = 1
    BY <1>2
  <2>4. P(w[0], 0)
    BY <2>1, <2>2, <2>3
  <2>5. QED
    BY <1>3, <2>4
<1>8. ASSUME NEW i \in 1 .. n, i - 1 \in B
      PROVE  i \in B
  <2>1. PICK X, Y : X = w[i - 1] /\ Y = w[i]
    OBVIOUS
  <2>2. i - 1 \in 0 .. n /\ X \in Good /\ Y \in Good /\ Y = WipeStep(X)
    BY <1>3, <1>6, <2>1
  <2>3. PICK k \in 0 .. m :
                       /\ SameFile(X, W) /\ FreedTo(X.fat, f, t, k)
                       /\ \/ ~X.ok /\ X.broken
                          \/ /\ X.ok = TRUE /\ X.broken = W.broken
                             /\ k = i - 1 \/ k = m
                             /\ X.got = IF k = m THEN LAST ELSE t[k + 1]
    BY <1>8, <2>1
  <2>4. CASE ~X.ok \/ X.got = LAST
    <3>1. Y = X
      BY <2>2, <2>4 DEF WipeStep
    <3>2. k = m \/ ~X.ok
      <4>1. k # m => t[k + 1] \in Cluster
        BY <1>2
      <4>2. QED
        BY <1>4, <2>3, <2>4, <4>1
    <3>3. P(Y, i)
      BY <2>3, <3>1, <3>2
    <3>4. QED
      BY <2>1, <3>3
  <2>5. CASE X.ok /\ X.got # LAST
    <3>1. k # m /\ k = i - 1 /\ k + 1 \in 1 .. m /\ k + 1 = i
      BY <1>2, <2>3, <2>5
    <3>2. PICK c, d : c = t[k + 1] /\ d = NextIn(t, k + 1)
      OBVIOUS
    <3>3. c \in Cluster /\ X.got = c /\ X.ok = TRUE /\ X.broken = W.broken
      BY <1>2, <2>3, <2>5, <3>1, <3>2
    <3>4. /\ d \in {LAST} \cup Cluster
          /\ d = IF k + 1 = m THEN LAST ELSE t[(k + 1) + 1]
      <4>1. k + 1 # m => (k + 1) + 1 \in 1 .. m
        BY <1>2, <3>1
      <4>2. k + 1 # m => t[(k + 1) + 1] \in Cluster
        BY <1>2, <4>1
      <4>3. d = IF k + 1 = m THEN LAST ELSE t[(k + 1) + 1]
        BY <1>1, <3>2 DEF NextIn
      <4>4. QED
        BY <4>2, <4>3
    <3>5. NextCluster(X.fat, c) = d
      <4>1. \A j \in k + 1 .. m : X.fat[t[j]] = f[t[j]] /\ f[t[j]] = NextIn(t, j)
        <5>1. ASSUME NEW j \in k + 1 .. m
              PROVE  X.fat[t[j]] = f[t[j]] /\ f[t[j]] = NextIn(t, j)
          <6>1. j \in 1 .. m /\ \A l \in 1 .. k : l # j /\ l \in 1 .. m
            BY <1>2
          <6>2. ~\E l \in 1 .. k : t[l] = t[j]
            BY <1>2, <6>1
          <6>3. QED
            BY <1>2, <2>3, <6>1, <6>2 DEF FreedTo
        <5>2. QED
          BY <5>1
      <4>2. X.fat[c] = d
        BY <1>2, <3>1, <3>2, <4>1
      <4>3. CASE k + 1 = m
        <5>1. d = LAST
          BY <3>4, <4>3
        <5>2. QED
          BY <1>4, <3>3, <4>2, <5>1 DEF NextCluster
      <4>4. CASE k + 1 # m
        <5>1. (k + 1) + 1 \in k + 1 .. m /\ (k + 1) + 1 \in 1 .. m
          BY <1>2, <3>1, <4>4
        <5>2. d = t[(k + 1) + 1] /\ d \in Cluster
          BY <1>2, <3>4, <4>4, <5>1
        <5>3. X.fat[d] = NextIn(t, (k + 1) + 1)
          BY <4>1, <5>1, <5>2
        <5>4. NextIn(t, (k + 1) + 1) # FREE
          <6>1. (k + 1) + 1 # Len(t) => ((k + 1) + 1) + 1 \in 1 .. m
            BY <1>1, <1>2, <5>1
          <6>2. QED
            BY <1>2, <1>4, <6>1 DEF NextIn
        <5>5. QED
          BY <3>3, <4>2, <5>2, <5>3, <5>4 DEF NextCluster
      <4>5. QED
        BY <4>3, <4>4
    <3>6. /\ SameFile(Y, X)
          /\ \/ ~Y.ok /\ Y.broken /\ Y.fat = X.fat
             \/ Y.fat = Linking(X.fat, c, FREE) /\ Y.got = d /\ NotBroken(Y, X)
      BY <2>2, <3>3, <3>4, <3>5, WipeStepIs
    <3>7. SameFile(Y, W)
      BY <2>3, <3>6 DEF SameFile
    <3>8. CASE ~Y.ok /\ Y.broken /\ Y.fat = X.fat
      <4>1. P(Y, i)
        BY <2>3, <3>7, <3>8
      <4>2. QED
        BY <2>1, <4>1
    <3>9. CASE Y.fat = Linking(X.fat, c, FREE) /\ Y.got = d /\ NotBroken(Y, X)
      <4>1. FreedTo(Y.fat, f, t, k + 1)
        <5>1. X.fat \in [Cluster -> FatEntry] /\ FREE \in FatEntry
          BY <2>3 DEF FreedTo, FatEntry
        <5>2. Y.fat \in [Cluster -> FatEntry] /\ \A e \in Cluster : Y.fat[e] = IF e = c THEN FREE ELSE X.fat[e]
          BY <3>3, <3>9, <5>1 DEF Linking
        <5>3. ASSUME NEW e \in Cluster
              PROVE  Y.fat[e] = IF \E j \in 1 .. k + 1 : t[j] = e THEN FREE ELSE f[e]
          <6>1. X.fat[e] = IF \E j \in 1 .. k : t[j] = e THEN FREE ELSE f[e]
            BY <2>3 DEF FreedTo
          <6>2. (\E j \in 1 .. k + 1 : t[j] = e) <=> (\E j \in 1 .. k : t[j] = e) \/ t[k + 1] = e
            <7>1. \A j : j \in 1 .. k + 1 <=> j \in 1 .. k \/ j = k + 1
              BY <1>2
            <7>2. QED
              BY <7>1
          <6>3. QED
            BY <3>2, <5>2, <6>1, <6>2
        <5>4. QED
          BY <5>2, <5>3 DEF FreedTo
      <4>2. Y.ok = TRUE /\ Y.broken = W.broken
        BY <3>3, <3>9 DEF NotBroken
      <4>3. k + 1 \in 0 .. m
        BY <1>2, <3>1
      <4>4. P(Y, i)
        BY <3>1, <3>4, <3>7, <3>9, <4>1, <4>2, <4>3
      <4>5. QED
        BY <2>1, <4>4
    <3>10. QED
      BY <3>6, <3>8, <3>9
  <2>6. QED
    BY <2>4, <2>5
<1>9. n \in B
  <2> HIDE DEF B
  <2> QED  BY <1>3, <1>7, <1>8, UpTheSteps
<1>10. PICK k \in 0 .. m :
                       /\ SameFile(w[n], W) /\ FreedTo(w[n].fat, f, t, k)
                       /\ \/ ~w[n].ok /\ w[n].broken
                          \/ w[n].ok = TRUE /\ w[n].broken = W.broken /\ (k = n \/ k = m)
  BY <1>9
<1>11. k = n => k = m
  BY <1>2, <1>3
<1>12. QED
  BY <1>1, <1>5, <1>6, <1>10, <1>11

(* Every cluster in use is in a chain. *)
Whole(f, Q) == \A c \in Cluster : f[c] # FREE => ~Outside(Q, c)

(* What a call has made of the chains: they are sound, and none is lost *)
(* unless a link has failed, in this call or before (b).                *)
Sound(W, Q, b) == Laid(W.fat, Q) /\ (b \/ W.broken \/ Whole(W.fat, Q))

(* The last of a chain, and the fnode that stands there. *)
AtEnd(W, Q, o) == IF Q[o] = <<>> THEN W.cu = FREE ELSE W.cu = Q[o][Len(Q[o])]

SameDirs(X, W) == X.dirent = W.dirent /\ X.size = W.size /\ X.off = W.off /\ X.shared = W.shared

(* A grown chain has the clusters it had, and one more. *)
LEMMA GrownHas ==
    ASSUME NEW Q \in Owners, NEW o \in Slot, NEW c \in Cluster
    PROVE  /\ ~Outside(Grown(Q, o, c), c)
           /\ \A d \in Cluster : ~Outside(Q, d) => ~Outside(Grown(Q, o, c), d)
<1>1. PICK P : P = Grown(Q, o, c)
  OBVIOUS
<1>2. /\ \A s \in Slot : s # o => P[s] = Q[s]
      /\ Len(P[o]) = Len(Q[o]) + 1 /\ P[o][Len(Q[o]) + 1] = c
      /\ \A i \in 1 .. Len(Q[o]) : P[o][i] = Q[o][i]
      /\ Len(Q[o]) \in Nat
  BY <1>1, GrownIs, OwnerFacts
<1>3. ~Outside(P, c)
  <2>1. Len(Q[o]) + 1 \in 1 .. Len(P[o])
    BY <1>2
  <2>2. QED
    BY <1>2, <2>1 DEF Outside
<1>4. ASSUME NEW d \in Cluster, ~Outside(Q, d)
      PROVE  ~Outside(P, d)
  <2>1. PICK s \in Slot : \E i \in 1 .. Len(Q[s]) : Q[s][i] = d
    BY <1>4 DEF Outside
  <2>2. PICK i \in 1 .. Len(Q[s]) : Q[s][i] = d
    BY <2>1
  <2>3. i \in 1 .. Len(P[s]) /\ P[s][i] = d
    BY <1>2, <2>2
  <2>4. QED
    BY <2>3 DEF Outside
<1>5. QED
  BY <1>1, <1>3, <1>4

(* extend: the chain grows by a cluster that was free, or does not. *)
LEMMA ExtendLays ==
    ASSUME NEW W \in Good, W.ok, NEW Q \in Owners, NEW b, Sound(W, Q, b), NEW o \in Slot, AtEnd(W, Q, o)
    PROVE  /\ Extend(W) \in Good /\ SameDirs(Extend(W), W) /\ Extend(W).cu = W.cu /\ Extend(W).rel = W.rel
           /\ \/ ~Extend(W).ok /\ Extend(W).start = W.start /\ Sound(Extend(W), Q, b)
              \/ /\ Extend(W).ok /\ Extend(W).got \in Cluster /\ Outside(Q, Extend(W).got)
                 /\ Sound(Extend(W), Grown(Q, o, Extend(W).got), b)
                 /\ Extend(W).start = IF Q[o] = <<>> THEN Extend(W).got ELSE W.start
<1>1. PICK c : c = FindFatFree(W.fat, W.hint)
  OBVIOUS
<1>2. W.fat \in [Cluster -> FatEntry] /\ (c = LAST \/ (c \in Cluster /\ W.fat[c] = FREE))
  <2>1. W.fat \in [Cluster -> FatEntry]
    BY DEF Good, Work
  <2>2. QED
    BY <1>1, <2>1, FindsFree
<1>3. Extend(W) \in Good /\ Extend(W) = ExtendWith(W, c)
  BY <1>1, ExtendGood DEF Extend
<1>4. LAST \notin Cluster /\ LAST # FREE /\ FREE \notin Cluster /\ LAST \in FatEntry /\ Cluster \subseteq FatEntry
  BY ClusterFacts DEF FatEntry
<1>5. CASE c = LAST
  <2>1. PICK X : X = [W EXCEPT !.hint = UNKNOWN, !.ok = FALSE]
    OBVIOUS
  <2>2. /\ X.fat = W.fat /\ X.ok = FALSE /\ X.broken = W.broken /\ X.start = W.start
        /\ X.cu = W.cu /\ X.rel = W.rel /\ SameDirs(X, W)
    BY <2>1 DEF Good, Work, SameDirs
  <2>3. Extend(W) = X
    BY <1>3, <1>5, <2>1 DEF ExtendWith
  <2>4. Sound(X, Q, b)
    BY <2>2 DEF Sound
  <2>5. QED
    BY <1>3, <2>2, <2>3, <2>4
<1>6. CASE c \in Cluster /\ W.fat[c] = FREE
  <2>1. PICK V, Y : V = [W EXCEPT !.hint = c] /\ Y = LinkFat(V, c, LAST)
    OBVIOUS
  <2>2. /\ V \in Good /\ V.fat = W.fat /\ V.ok = W.ok /\ V.broken = W.broken /\ V.start = W.start
        /\ V.cu = W.cu /\ V.rel = W.rel /\ SameDirs(V, W)
    BY <1>6, <2>1 DEF Good, Work, SameDirs
  <2>3. /\ Y \in Good /\ SameFile(Y, V)
        /\ \/ ~Y.ok /\ Y.broken /\ Y.fat = V.fat
           \/ Y.fat = Linking(V.fat, c, LAST) /\ NotBroken(Y, V)
    BY <1>4, <1>6, <2>1, <2>2, LinkIs, ZenonT(30)
  <2>4. Y.start = W.start /\ Y.cu = W.cu /\ Y.rel = W.rel /\ SameDirs(Y, W)
    BY <2>2, <2>3 DEF SameFile, SameDirs
  <2>5. Extend(W) = IF Y.ok THEN Append1(Y, c) ELSE Y
    BY <1>3, <1>4, <1>6, <2>1 DEF ExtendWith, Then
  <2>6. CASE ~Y.ok /\ Y.broken /\ Y.fat = V.fat
    <3>1. Extend(W) = Y
      BY <2>5, <2>6
    <3>2. Sound(Y, Q, b)
      BY <2>2, <2>6 DEF Sound
    <3>3. QED
      BY <1>3, <2>4, <2>6, <3>1, <3>2
  <2>7. CASE Y.fat = Linking(V.fat, c, LAST) /\ NotBroken(Y, V)
    <3>1. PICK g : g = Y.fat
      OBVIOUS
    <3>2. Y.ok /\ Y.broken = W.broken
      BY <2>2, <2>7 DEF NotBroken
    <3>3. Outside(Q, c) /\ Laid(W.fat, Q)
      BY <1>2, <1>6, FreeOutside DEF Sound
    <3>4. g \in [Cluster -> FatEntry] /\ Laid(g, Q)
      BY <1>2, <1>4, <1>6, <2>2, <2>7, <3>1, <3>3, LaidElsewhere
    <3>5. g[c] = LAST /\ \A d \in Cluster : d # c => g[d] = W.fat[d]
      BY <1>2, <1>6, <2>2, <2>7, <3>1 DEF Linking
    <3>6. Extend(W) = Append1(Y, c)
      BY <2>5, <3>2
    <3>7. PICK P : P = Grown(Q, o, c)
      OBVIOUS
    <3>8. P \in Owners /\ ~Outside(P, c) /\ \A d \in Cluster : ~Outside(Q, d) => ~Outside(P, d)
      BY <1>6, <3>7, GrownIs, GrownHas
    <3>9. CASE Q[o] = <<>>
      <4>1. W.cu = FREE /\ Y.cu = FREE
        BY <2>4, <3>9 DEF AtEnd
      <4>2. PICK X : X = [Y EXCEPT !.start = c, !.got = c]
        OBVIOUS
      <4>3. Extend(W) = X
        BY <3>6, <4>1, <4>2 DEF Append1
      <4>4. /\ X.fat = g /\ X.ok = Y.ok /\ X.broken = W.broken /\ X.start = c /\ X.got = c
            /\ X.cu = W.cu /\ X.rel = W.rel /\ SameDirs(X, W)
        BY <2>3, <2>4, <3>1, <3>2, <4>2 DEF Good, Work, SameDirs
      <4>5. Laid(g, P)
        BY <1>6, <3>3, <3>4, <3>5, <3>7, <3>9, LaidGrown
      <4>6. Whole(W.fat, Q) => Whole(g, P)
        BY <3>5, <3>8 DEF Whole
      <4>7. Sound(X, P, b)
        BY <4>4, <4>5, <4>6 DEF Sound
      <4>8. QED
        BY <1>3, <1>6, <3>2, <3>3, <3>7, <3>9, <4>3, <4>4, <4>7
    <3>10. CASE Q[o] # <<>>
      <4>1. PICK n, u : n = Len(Q[o]) /\ u = Q[o][n]
        OBVIOUS
      <4>2. n \in 1 .. Len(Q[o]) /\ W.cu = u /\ Y.cu = u
        BY <2>4, <3>10, <4>1, OwnerFacts DEF AtEnd
      <4>3. u \in Cluster /\ g[u] # FREE /\ NextCluster(g, u) = LAST
        BY <3>4, <4>1, <4>2, LaidFacts DEF NextIn
      <4>4. PICK Z, X : Z = LinkFat(Y, u, c) /\ X = [Z EXCEPT !.got = c]
        OBVIOUS
      <4>5. Extend(W) = X
        BY <1>4, <3>1, <3>6, <4>2, <4>3, <4>4 DEF Append1
      <4>6. /\ Z \in Good /\ SameFile(Z, Y)
            /\ \/ ~Z.ok /\ Z.broken /\ Z.fat = Y.fat
               \/ Z.fat = Linking(Y.fat, u, c) /\ NotBroken(Z, Y)
        BY <1>4, <1>6, <2>3, <4>3, <4>4, LinkIs
      <4>7. /\ X.fat = Z.fat /\ X.ok = Z.ok /\ X.broken = Z.broken /\ X.got = c /\ X.start = W.start
            /\ X.cu = W.cu /\ X.rel = W.rel /\ SameDirs(X, W)
        BY <2>4, <4>4, <4>6 DEF Good, Work, SameDirs, SameFile
      <4>8. CASE ~Z.ok /\ Z.broken /\ Z.fat = Y.fat
        <5>1. Sound(X, Q, b)
          BY <3>1, <3>4, <4>7, <4>8 DEF Sound
        <5>2. QED
          BY <1>3, <4>5, <4>7, <4>8, <5>1
      <4>9. CASE Z.fat = Linking(Y.fat, u, c) /\ NotBroken(Z, Y)
        <5>1. PICK k : k = Linking(g, u, c)
          OBVIOUS
        <5>2. Laid(k, P)
          BY <1>6, <3>3, <3>4, <3>5, <3>7, <3>10, <4>1, <5>1, LaidGrown
        <5>3. \A d \in Cluster : d # u => k[d] = g[d]
          BY <3>4, <5>1 DEF Linking
        <5>4. ~Outside(Q, u)
          BY <4>1, <4>2 DEF Outside
        <5>5. Whole(W.fat, Q) => Whole(k, P)
          BY <3>5, <3>8, <4>3, <5>3, <5>4 DEF Whole
        <5>6. Sound(X, P, b) /\ X.ok
          BY <3>1, <3>2, <4>7, <4>9, <5>1, <5>2, <5>5 DEF Sound, NotBroken
        <5>7. QED
          BY <1>3, <1>6, <3>3, <3>7, <3>10, <4>5, <4>7, <5>6
      <4>10. QED
        BY <4>6, <4>8, <4>9
    <3>11. QED
      BY <3>9, <3>10
  <2>8. QED
    BY <2>3, <2>6, <2>7
<1>7. QED
  BY <1>2, <1>5, <1>6

(* The fnode stands in the chain of its file; one that writes has the head *)
(* of it, one that reads may not have been told of it yet.                 *)
FileAt(W, Q, o) ==
    /\ W.start \in {FREE, StartIn(Q[o])} /\ (W.start = FREE => W.cu = FREE)
    /\ IF W.cu = FREE THEN W.rel = 0 ELSE W.rel < Len(Q[o]) /\ Q[o][W.rel + 1] = W.cu
WriterAt(W, Q, o) == FileAt(W, Q, o) /\ W.start = StartIn(Q[o]) /\ (W.cu = FREE => W.start = FREE)

(* P has the chains of Q, that of o perhaps longer. *)
Longer(P, Q, o) ==
    /\ P \in Owners /\ \A s \in Slot : s # o => P[s] = Q[s]
    /\ Len(Q[o]) <= Len(P[o]) /\ \A i \in 1 .. Len(Q[o]) : P[o][i] = Q[o][i]

Unit(W) == W.off \div ClusUnits

(* Where a fnode stands, as a place of the chain. *)
LEMMA PlaceOf ==
    ASSUME NEW W \in Good, NEW Q \in Owners, NEW o \in Slot, FileAt(W, Q, o), W.cu # FREE
    PROVE  /\ W.rel \in Nat /\ W.rel + 1 \in 1 .. Len(Q[o]) /\ W.cu = Q[o][W.rel + 1] /\ W.cu \in Cluster
           /\ W.start = Q[o][1] /\ W.start \in Cluster /\ Q[o] # <<>> /\ 1 \in 1 .. Len(Q[o])
<1>1. W.rel \in Nat /\ Len(Q[o]) \in Nat
  BY OwnerFacts DEF Good, Work
<1>2. W.rel + 1 \in 1 .. Len(Q[o]) /\ 1 \in 1 .. Len(Q[o])
  BY <1>1 DEF FileAt
<1>3. Q[o] # <<>>
  BY <1>2, OwnerFacts
<1>4. W.start = Q[o][1]
  BY <1>3 DEF FileAt, StartIn
<1>5. QED
  BY <1>1, <1>2, <1>3, <1>4, OwnerFacts DEF FileAt

(* Units and clusters. *)
LEMMA UnitFacts ==
    ASSUME NEW W \in Good
    PROVE  /\ Unit(W) \in Nat /\ MaxOffset \div ClusUnits \in Nat
           /\ W.off <= MaxOffset => Unit(W) <= MaxOffset \div ClusUnits
<1>1. W.off \in Nat /\ ClusUnits \in Nat \ {0} /\ MaxOffset \in Nat
  BY FatAssumption DEF Good, Work
<1>2. ASSUME NEW a \in Nat, NEW b \in Nat \ {0}, NEW c \in Nat
      PROVE  a \div b \in Nat /\ c \div b \in Nat /\ (a <= c => a \div b <= c \div b)
  <2>1. PICK q, r \in Int : q = a \div b /\ r = a % b /\ a = b * q + r /\ r \in 0 .. b - 1
    OBVIOUS
  <2>2. PICK p, t \in Int : p = c \div b /\ t = c % b /\ c = b * p + t /\ t \in 0 .. b - 1
    OBVIOUS
  <2>3. q >= 0 /\ p >= 0
    BY <2>1, <2>2
  <2>4. a <= c => q <= p
    <3>1. SUFFICES ASSUME a <= c, q >= p + 1
                   PROVE  FALSE
      BY <2>1, <2>2
    <3>2. b * q >= b * (p + 1)
      BY <3>1
    <3>3. b * (p + 1) = b * p + b
      OBVIOUS
    <3>4. QED
      BY <2>1, <2>2, <3>1, <3>2, <3>3
  <2>5. QED
    BY <2>1, <2>2, <2>3, <2>4
<1>3. QED
  BY <1>1, <1>2 DEF Unit

(* A file that is as long, or longer. *)
LEMMA LongerSame == \A Q \in Owners, o \in Slot : Longer(Q, Q, o)
  BY OwnerFacts DEF Longer

(* And longer again. *)
LEMMA LongerTwice ==
    ASSUME NEW Q \in Owners, NEW o \in Slot, NEW P, Longer(P, Q, o), NEW R, Longer(R, P, o)
    PROVE  Longer(R, Q, o)
<1>1. Len(Q[o]) \in Nat /\ Len(P[o]) \in Nat /\ Len(R[o]) \in Nat
  BY OwnerFacts DEF Longer
<1>2. \A i \in 1 .. Len(Q[o]) : i \in 1 .. Len(P[o]) /\ R[o][i] = Q[o][i]
  BY <1>1 DEF Longer
<1>3. QED
  BY <1>1, <1>2 DEF Longer

(* One more cluster. *)
LEMMA LongerGrown ==
    ASSUME NEW Q \in Owners, NEW o \in Slot, NEW c \in Cluster
    PROVE  Longer(Grown(Q, o, c), Q, o)
BY GrownIs, OwnerFacts DEF Longer

(* Where a fnode stands it stands when the chain is longer. *)
LEMMA LongerAt ==
    ASSUME NEW W \in Good, NEW Q \in Owners, NEW o \in Slot, FileAt(W, Q, o), NEW P, Longer(P, Q, o)
    PROVE  FileAt(W, P, o) /\ (W.start # FREE => W.start = StartIn(P[o]) /\ Q[o] # <<>>)
<1>1. /\ Len(Q[o]) \in Nat /\ Len(P[o]) \in Nat /\ W.rel \in Nat
      /\ Q[o] = <<>> <=> Len(Q[o]) = 0
      /\ P[o] = <<>> <=> Len(P[o]) = 0
  BY OwnerFacts DEF Longer, Good, Work
<1>2. W.start # FREE => W.start = StartIn(P[o]) /\ Q[o] # <<>>
  <2>1. SUFFICES ASSUME W.start # FREE
                 PROVE  W.start = StartIn(P[o]) /\ Q[o] # <<>>
    OBVIOUS
  <2>2. Q[o] # <<>> /\ W.start = Q[o][1]
    BY <2>1 DEF FileAt, StartIn
  <2>3. 1 \in 1 .. Len(Q[o]) /\ P[o] # <<>>
    BY <1>1, <2>2 DEF Longer
  <2>4. QED
    BY <2>2, <2>3 DEF Longer, StartIn
<1>3. W.cu # FREE => W.rel < Len(P[o]) /\ P[o][W.rel + 1] = W.cu
  <2>1. SUFFICES ASSUME W.cu # FREE
                 PROVE  W.rel < Len(P[o]) /\ P[o][W.rel + 1] = W.cu
    OBVIOUS
  <2>2. W.rel + 1 \in 1 .. Len(Q[o]) /\ Q[o][W.rel + 1] = W.cu
    BY <2>1, PlaceOf
  <2>3. QED
    BY <1>1, <2>2 DEF Longer
<1>4. QED
  BY <1>2, <1>3 DEF FileAt

(* The fnode moves on along its chain. *)
LEMMA MovesOn ==
    ASSUME NEW W \in Good, NEW Q \in Owners, NEW o \in Slot, FileAt(W, Q, o), W.cu # FREE, NEW c \in Cluster,
           W.rel + 2 \in 1 .. Len(Q[o]), c = Q[o][W.rel + 2]
    PROVE  /\ Moved(W, c) \in Good /\ SameDirs(Moved(W, c), W) /\ Moved(W, c).fat = W.fat
           /\ NotBroken(Moved(W, c), W) /\ Moved(W, c).start = W.start
           /\ Moved(W, c).rel = W.rel + 1 /\ Moved(W, c).cu = c /\ FileAt(Moved(W, c), Q, o)
<1>1. PICK X : X = Moved(W, c)
  OBVIOUS
<1>2. X \in Good
  BY <1>1, MovedGood
<1>3. /\ X.fat = W.fat /\ X.start = W.start /\ X.rel = W.rel + 1 /\ X.cu = c
      /\ SameDirs(X, W) /\ NotBroken(X, W)
  BY <1>1 DEF Moved, Good, Work, SameDirs, NotBroken
<1>4. W.rel \in Nat /\ Len(Q[o]) \in Nat /\ W.start # FREE /\ c # FREE
  BY PlaceOf, OwnerFacts, ClusterFacts
<1>5. X.rel < Len(Q[o]) /\ Q[o][X.rel + 1] = X.cu
  <2>1. X.rel + 1 = W.rel + 2
    BY <1>3, <1>4
  <2>2. QED
    BY <1>3, <1>4, <2>1
<1>6. FileAt(X, Q, o)
  BY <1>3, <1>4, <1>5 DEF FileAt
<1>7. QED
  BY <1>1, <1>2, <1>3, <1>6

(* Refused work differs in ok only. *)
LEMMA RefusedIs ==
    ASSUME NEW W \in Good
    PROVE  /\ Refused(W).fat = W.fat /\ Refused(W).ok = FALSE /\ Refused(W).broken = W.broken
           /\ Refused(W).start = W.start /\ Refused(W).cu = W.cu /\ Refused(W).rel = W.rel
           /\ SameDirs(Refused(W), W)
BY DEF Refused, Good, Work, SameDirs

(* What the work on a chain looks at. *)
SamePlace(X, W) == X.start = W.start /\ X.cu = W.cu /\ X.rel = W.rel

(* A fnode that stands where another does. *)
LEMMA PlaceStays ==
    ASSUME NEW W, NEW X, SamePlace(X, W), NEW Q, NEW o
    PROVE  /\ FileAt(W, Q, o) <=> FileAt(X, Q, o)
           /\ WriterAt(W, Q, o) <=> WriterAt(X, Q, o)
BY DEF SamePlace, FileAt, WriterAt

(* map_cluster goes back to the head when it must. *)
LEMMA RewoundIs ==
    ASSUME NEW W \in Good, NEW Q \in Owners, NEW o \in Slot, FileAt(W, Q, o), W.cu # FREE
    PROVE  /\ SameDirs(Rewound(W), W) /\ Rewound(W).fat = W.fat /\ NotBroken(Rewound(W), W)
           /\ Rewound(W).start = W.start /\ Rewound(W).cu # FREE
           /\ FileAt(Rewound(W), Q, o)
           /\ W.ok => Rewound(W).rel <= Unit(W)
<1>1. /\ W.rel \in Nat /\ Unit(W) \in Nat /\ W.start = Q[o][1] /\ W.start \in Cluster
      /\ 1 \in 1 .. Len(Q[o]) /\ Q[o] # <<>> /\ W.start # FREE /\ Len(Q[o]) \in Nat
  <2>1. /\ W.rel \in Nat /\ W.start = Q[o][1] /\ W.start \in Cluster
        /\ 1 \in 1 .. Len(Q[o]) /\ Q[o] # <<>>
    BY PlaceOf
  <2>2. Unit(W) \in Nat /\ FREE \notin Cluster /\ Len(Q[o]) \in Nat
    BY UnitFacts, ClusterFacts, OwnerFacts
  <2>3. QED
    BY <2>1, <2>2
<1>2. CASE W.ok /\ Unit(W) < W.rel
  <2>1. PICK X : X = [W EXCEPT !.cu = W.start, !.rel = 0]
    OBVIOUS
  <2>2. Rewound(W) = X
    BY <1>2, <2>1 DEF Rewound, Unit
  <2>3. /\ X.fat = W.fat /\ X.start = W.start /\ X.rel = 0 /\ X.cu = W.start
        /\ SameDirs(X, W) /\ NotBroken(X, W)
    BY <2>1 DEF Good, Work, SameDirs, NotBroken
  <2>4. FileAt(X, Q, o)
    BY <1>1, <2>3 DEF FileAt, StartIn
  <2>5. QED
    BY <1>1, <2>2, <2>3, <2>4
<1>3. CASE ~(W.ok /\ Unit(W) < W.rel)
  <2>1. Rewound(W) = W
    BY <1>3 DEF Rewound, Unit
  <2>2. QED
    BY <1>1, <1>3, <2>1 DEF SameDirs, NotBroken
<1>4. QED
  BY <1>2, <1>3

(* A step forward in a chain: to the next cluster, or beyond the last. *)
LEMMA ForwardIs ==
    ASSUME NEW W \in Good, NEW Q \in Owners, Laid(W.fat, Q), NEW o \in Slot, FileAt(W, Q, o), W.cu # FREE,
           W.ok, W.rel # Unit(W), NEW mode
    PROVE  \/ /\ W.rel + 2 \in 1 .. Len(Q[o]) /\ Q[o][W.rel + 2] \in Cluster
              /\ Forward(W, mode) = Moved(W, Q[o][W.rel + 2])
           \/ /\ W.rel + 1 = Len(Q[o])
              /\ Forward(W, mode) = IF mode = "read" THEN Refused(W)
                                    ELSE IF Extend(W).ok THEN Moved(Extend(W), Extend(W).got) ELSE Extend(W)
<1>1. PICK i, c : i = W.rel + 1 /\ c = NextIn(Q[o], i)
  OBVIOUS
<1>2. i \in 1 .. Len(Q[o]) /\ Q[o][i] = W.cu /\ W.rel \in Nat /\ Len(Q[o]) \in Nat
  BY <1>1, PlaceOf, OwnerFacts
<1>3. W.fat \in [Cluster -> FatEntry]
  BY DEF Good, Work
<1>4. NextCluster(W.fat, W.cu) = c
  BY <1>1, <1>2, <1>3, LaidFacts
<1>5. Forward(W, mode) = ForwardTo(W, mode, c)
  BY <1>4 DEF Forward, Unit
<1>6. LAST \notin {FREE, ERROR} /\ \A d \in Cluster : d \notin {FREE, ERROR} /\ d # LAST
  BY ClusterFacts DEF FREE, ERROR, LAST
<1>7. CASE i = Len(Q[o])
  <2>1. c = LAST
    BY <1>1, <1>7 DEF NextIn
  <2>2. Forward(W, mode) = IF mode = "read" THEN Refused(W) ELSE Then(Extend(W), LAMBDA X : Moved(X, X.got))
    BY <1>5, <1>6, <2>1 DEF ForwardTo
  <2>3. QED
    BY <1>1, <1>7, <2>2 DEF Then
<1>8. CASE i # Len(Q[o])
  <2>1. i + 1 \in 1 .. Len(Q[o]) /\ c = Q[o][i + 1] /\ i + 1 = W.rel + 2
    BY <1>1, <1>2, <1>8 DEF NextIn
  <2>2. c \in Cluster
    BY <2>1, OwnerFacts
  <2>3. Forward(W, mode) = Moved(W, c)
    BY <1>5, <1>6, <2>2 DEF ForwardTo
  <2>4. QED
    BY <2>1, <2>2, <2>3
<1>9. QED
  BY <1>7, <1>8

(* What reading leaves: the table, the head, and the place in the chain. *)
Looked(X, W, Q, o) ==
    /\ SameDirs(X, W) /\ X.fat = W.fat /\ X.broken = W.broken /\ X.start = W.start /\ FileAt(X, Q, o)
    /\ X.cu = FREE <=> W.cu = FREE

(* map_cluster in a read. *)
LEMMA MapReads ==
    ASSUME NEW W \in Good, NEW Q \in Owners, Laid(W.fat, Q), NEW o \in Slot, FileAt(W, Q, o)
    PROVE  /\ Looked(MapCluster(W, "read"), W, Q, o)
           /\ MapCluster(W, "read").ok /\ W.ok => MapCluster(W, "read").cu # FREE
           /\ MapCluster(W, "read").ok /\ W.ok /\ W.off <= MaxOffset => MapCluster(W, "read").rel = Unit(W)
           /\ W.ok /\ W.cu # FREE /\ Unit(W) < Len(Q[o]) => MapCluster(W, "read").ok
<1>1. PICK n, T : n = MaxOffset \div ClusUnits /\ T = Unit(W)
  OBVIOUS
<1>2. n \in Nat /\ T \in Nat /\ (W.off <= MaxOffset => T <= n)
  BY <1>1, UnitFacts
<1>3. PICK w : /\ w[0] = Rewound(Entered(W, "read")) /\ MapCluster(W, "read") = w[n]
               /\ \A i \in 0 .. n : w[i] \in Good
               /\ \A i \in 1 .. n : w[i] = Forward(w[i - 1], "read")
  BY <1>1, MapSteps
<1> DEFINE P(X, i) ==
        /\ X \in Good /\ Looked(X, W, Q, o)
        /\ X.ok /\ W.ok => X.cu # FREE /\ X.rel <= T /\ (X.rel = T \/ X.rel >= i)
        /\ W.ok /\ W.cu # FREE /\ T < Len(Q[o]) => X.ok
           B == {i \in 0 .. n : P(w[i], i)}
<1>4. P(w[0], 0)
  <2>1. CASE W.cu # FREE
    <3>1. Entered(W, "read") = W
      BY <2>1 DEF Entered
    <3>2. PICK X : X = Rewound(W)
      OBVIOUS
    <3>3. /\ SameDirs(X, W) /\ X.fat = W.fat /\ NotBroken(X, W) /\ X.start = W.start /\ X.cu # FREE
          /\ FileAt(X, Q, o) /\ (W.ok => X.rel <= Unit(W))
      BY <2>1, <3>2, RewoundIs
    <3>4. X = w[0] /\ X \in Good /\ X.rel \in Nat
      BY <1>2, <1>3, <3>1, <3>2, MapStarts DEF Good, Work
    <3>5. Looked(X, W, Q, o)
      BY <2>1, <3>3 DEF Looked, NotBroken
    <3>6. P(X, 0)
      BY <1>1, <1>2, <3>3, <3>4, <3>5 DEF NotBroken
    <3>7. QED
      BY <3>4, <3>6
  <2>2. CASE W.cu = FREE
    <3>1. PICK X : X = Refused(W)
      OBVIOUS
    <3>2. /\ X.fat = W.fat /\ X.ok = FALSE /\ X.broken = W.broken
          /\ X.start = W.start /\ X.cu = W.cu /\ X.rel = W.rel /\ SameDirs(X, W)
      BY <3>1, RefusedIs
    <3>3. Entered(W, "read") = X /\ Rewound(X) = X
      BY <2>2, <3>1, <3>2 DEF Entered, Rewound
    <3>4. X = w[0] /\ X \in Good
      BY <1>3, <3>3, MapStarts
    <3>5. FileAt(X, Q, o)
      BY <3>2, PlaceStays DEF SamePlace
    <3>6. Looked(X, W, Q, o)
      BY <3>2, <3>5 DEF Looked
    <3>7. P(X, 0)
      BY <2>2, <3>2, <3>4, <3>6
    <3>8. QED
      BY <3>4, <3>7
  <2>3. QED
    BY <2>1, <2>2
<1>5. 0 \in B
  BY <1>2, <1>4
<1>6. ASSUME NEW i \in 1 .. n, i - 1 \in B
      PROVE  i \in B
  <2>1. PICK V, X : V = w[i - 1] /\ X = w[i]
    OBVIOUS
  <2>2. /\ V \in Good /\ Looked(V, W, Q, o)
        /\ V.ok /\ W.ok => V.cu # FREE /\ V.rel <= T /\ (V.rel = T \/ V.rel >= i - 1)
        /\ W.ok /\ W.cu # FREE /\ T < Len(Q[o]) => V.ok
        /\ X = Forward(V, "read") /\ X \in Good
    BY <1>3, <1>6, <2>1
  <2>3. V.rel \in Nat /\ Unit(V) = T /\ V.ok \in BOOLEAN /\ W.ok \in BOOLEAN
    BY <1>1, <2>2 DEF Good, Work, Looked, SameDirs, Unit
  <2>4. CASE ~V.ok \/ V.rel = T
    <3>1. X = V
      BY <2>2, <2>3, <2>4 DEF Forward, Unit
    <3>2. P(X, i)
      BY <2>2, <2>4, <3>1
    <3>3. QED
      BY <2>1, <3>2
  <2>5. CASE V.ok /\ V.rel # T /\ V.cu = FREE
    <3>1. ~W.ok
      BY <2>2, <2>5
    <3>2. V.cu \notin Cluster
      BY <2>5, ClusterFacts
    <3>3. X = Refused(V)
      BY <2>2, <2>3, <2>5, <3>2 DEF Forward, NextCluster, ForwardTo, Unit
    <3>4. /\ X.fat = V.fat /\ X.ok = FALSE /\ X.broken = V.broken
          /\ X.start = V.start /\ X.cu = V.cu /\ X.rel = V.rel /\ SameDirs(X, V)
      BY <2>2, <3>3, RefusedIs
    <3>5. FileAt(X, Q, o)
      BY <2>2, <3>4, PlaceStays DEF SamePlace, Looked
    <3>6. Looked(X, W, Q, o)
      BY <2>2, <3>4, <3>5 DEF Looked, SameDirs
    <3>7. P(X, i)
      BY <2>2, <3>1, <3>4, <3>6
    <3>8. QED
      BY <2>1, <3>7
  <2>6. CASE V.ok /\ V.rel # T /\ V.cu # FREE
    <3>1. FileAt(V, Q, o) /\ Laid(V.fat, Q)
      BY <2>2 DEF Looked
    <3>2. \/ /\ V.rel + 2 \in 1 .. Len(Q[o]) /\ Q[o][V.rel + 2] \in Cluster
             /\ X = Moved(V, Q[o][V.rel + 2])
          \/ V.rel + 1 = Len(Q[o]) /\ X = Refused(V)
      BY <2>2, <2>3, <2>6, <3>1, ForwardIs
    <3>3. CASE /\ V.rel + 2 \in 1 .. Len(Q[o]) /\ Q[o][V.rel + 2] \in Cluster
               /\ X = Moved(V, Q[o][V.rel + 2])
      <4>1. PICK c \in Cluster : c = Q[o][V.rel + 2]
        BY <3>3
      <4>2. /\ SameDirs(X, V) /\ X.fat = V.fat /\ NotBroken(X, V) /\ X.start = V.start
            /\ X.rel = V.rel + 1 /\ X.cu = c /\ FileAt(X, Q, o)
        BY <2>2, <2>6, <3>1, <3>3, <4>1, MovesOn
      <4>3. Looked(X, W, Q, o) /\ X.ok = V.ok
        BY <2>2, <2>6, <4>2, ClusterFacts DEF Looked, SameDirs, NotBroken
      <4>4. X.cu # FREE
        BY <4>2, ClusterFacts
      <4>5. V.rel <= T => X.rel <= T
        BY <1>2, <2>3, <2>6, <4>2
      <4>6. V.rel >= i - 1 => X.rel >= i
        BY <2>3, <4>2
      <4>7. P(X, i)
        BY <2>2, <2>6, <4>3, <4>4, <4>5, <4>6
      <4>8. QED
        BY <2>1, <4>7
    <3>4. CASE V.rel + 1 = Len(Q[o]) /\ X = Refused(V)
      <4>1. /\ X.fat = V.fat /\ X.ok = FALSE /\ X.broken = V.broken
            /\ X.start = V.start /\ X.cu = V.cu /\ X.rel = V.rel /\ SameDirs(X, V)
        BY <2>2, <3>4, RefusedIs
      <4>2. FileAt(X, Q, o)
        BY <3>1, <4>1, PlaceStays DEF SamePlace
      <4>3. Looked(X, W, Q, o)
        BY <2>2, <4>1, <4>2 DEF Looked, SameDirs
      <4>4. W.ok => ~(T < Len(Q[o]))
        BY <1>2, <2>2, <2>3, <2>6, <3>4
      <4>5. P(X, i)
        BY <2>2, <4>1, <4>3, <4>4
      <4>6. QED
        BY <2>1, <4>5
    <3>5. QED
      BY <3>2, <3>3, <3>4
  <2>7. QED
    BY <2>3, <2>4, <2>5, <2>6
<1>7. n \in B
  <2> HIDE DEF B
  <2> QED  BY <1>2, <1>5, <1>6, UpTheSteps
<1>8. PICK X : X = w[n]
  OBVIOUS
<1>9. /\ X \in Good /\ Looked(X, W, Q, o)
      /\ X.ok /\ W.ok => X.cu # FREE /\ X.rel <= T /\ (X.rel = T \/ X.rel >= n)
      /\ W.ok /\ W.cu # FREE /\ T < Len(Q[o]) => X.ok
  BY <1>7, <1>8
<1>10. X.rel \in Nat
  BY <1>9 DEF Good, Work
<1>11. X.ok /\ W.ok /\ W.off <= MaxOffset => X.rel = T
  BY <1>2, <1>9, <1>10
<1>12. QED
  BY <1>1, <1>3, <1>8, <1>9, <1>11

(* What writing leaves: the chain of the file, perhaps longer, and the *)
(* place in it.                                                        *)
Wrote(X, W, P, Q, o, b) ==
    /\ X \in Good /\ SameDirs(X, W) /\ Longer(P, Q, o) /\ Sound(X, P, b) /\ WriterAt(X, P, o)

(* A file that writes and has no head is empty. *)
LEMMA EmptyFile ==
    ASSUME NEW W \in Good, NEW Q \in Owners, NEW o \in Slot, WriterAt(W, Q, o)
    PROVE  /\ W.cu = FREE <=> Q[o] = <<>>
           /\ W.cu = FREE => W.start = FREE /\ W.rel = 0 /\ AtEnd(W, Q, o)
<1>1. Q[o] # <<>> => StartIn(Q[o]) # FREE
  <2>1. SUFFICES ASSUME Q[o] # <<>>
                 PROVE  StartIn(Q[o]) # FREE
    OBVIOUS
  <2>2. 1 \in 1 .. Len(Q[o])
    BY <2>1, OwnerFacts
  <2>3. Q[o][1] \in Cluster
    BY <2>2, OwnerFacts
  <2>4. QED
    BY <2>1, <2>3, ClusterFacts DEF StartIn
<1>2. Q[o] = <<>> => StartIn(Q[o]) = FREE
  BY DEF StartIn
<1>3. QED
  BY <1>1, <1>2 DEF WriterAt, FileAt, AtEnd

(* map_cluster in a write begins. *)
LEMMA EntersWriting ==
    ASSUME NEW W \in Good, W.ok, NEW Q \in Owners, NEW b, Sound(W, Q, b), NEW o \in Slot, WriterAt(W, Q, o)
    PROVE  /\ \E P : Wrote(Rewound(Entered(W, "write")), W, P, Q, o, b)
           /\ Rewound(Entered(W, "write")).ok =>
                  Rewound(Entered(W, "write")).cu # FREE /\ Rewound(Entered(W, "write")).rel <= Unit(W)
<1>1. PICK Z : Z = Rewound(Entered(W, "write"))
  OBVIOUS
<1>2. Z \in Good
  BY <1>1, MapStarts
<1>3. CASE W.cu # FREE
  <2>1. Z = Rewound(W)
    BY <1>1, <1>3 DEF Entered
  <2>2. /\ SameDirs(Z, W) /\ Z.fat = W.fat /\ NotBroken(Z, W) /\ Z.start = W.start /\ Z.cu # FREE
        /\ FileAt(Z, Q, o) /\ Z.rel <= Unit(W)
    BY <1>3, <2>1, RewoundIs DEF WriterAt
  <2>3. WriterAt(Z, Q, o) /\ Sound(Z, Q, b)
    BY <2>2 DEF WriterAt, Sound, NotBroken
  <2>4. Wrote(Z, W, Q, Q, o, b)
    BY <1>2, <2>2, <2>3, LongerSame DEF Wrote
  <2>5. QED
    BY <1>1, <2>2, <2>4
<1>4. CASE W.cu = FREE
  <2>1. W.start = FREE /\ W.rel = 0 /\ AtEnd(W, Q, o) /\ Q[o] = <<>>
    BY <1>4, EmptyFile
  <2>2. PICK E : E = Extend(W)
    OBVIOUS
  <2>3. /\ E \in Good /\ SameDirs(E, W) /\ E.cu = W.cu /\ E.rel = W.rel
        /\ \/ ~E.ok /\ E.start = W.start /\ Sound(E, Q, b)
           \/ /\ E.ok /\ E.got \in Cluster /\ Outside(Q, E.got)
              /\ Sound(E, Grown(Q, o, E.got), b)
              /\ E.start = IF Q[o] = <<>> THEN E.got ELSE W.start
    BY <2>1, <2>2, ExtendLays
  <2>4. Entered(W, "write") = IF E.ok THEN [E EXCEPT !.cu = E.got] ELSE E
    BY <1>4, <2>2 DEF Entered, Then
  <2>5. CASE ~E.ok
    <3>1. Z = E
      BY <1>1, <2>4, <2>5 DEF Rewound
    <3>2. WriterAt(E, Q, o)
      BY <2>3, <2>5, PlaceStays DEF SamePlace
    <3>3. Wrote(E, W, Q, Q, o, b)
      BY <2>3, <2>5, <3>2, LongerSame DEF Wrote
    <3>4. QED
      BY <1>1, <2>5, <3>1, <3>3
  <2>6. CASE E.ok
    <3>1. PICK c \in Cluster : c = E.got
      BY <2>3, <2>6
    <3>2. PICK X, P : X = [E EXCEPT !.cu = c] /\ P = Grown(Q, o, c)
      OBVIOUS
    <3>3. /\ X.fat = E.fat /\ X.ok = E.ok /\ X.broken = E.broken /\ X.start = c /\ X.cu = c
          /\ X.rel = 0 /\ SameDirs(X, W) /\ X \in Good
      <4>1. /\ X.fat = E.fat /\ X.ok = E.ok /\ X.broken = E.broken /\ X.start = E.start /\ X.cu = c
            /\ X.rel = E.rel /\ SameDirs(X, E)
        <5>1. E \in Good /\ X = [E EXCEPT !.cu = c]
          BY <2>3, <3>2
        <5>2. /\ X.fat = E.fat /\ X.ok = E.ok /\ X.broken = E.broken /\ X.start = E.start /\ X.cu = c
              /\ X.rel = E.rel
          BY <5>1 DEF Good, Work
        <5>3. SameDirs(X, E)
          BY <5>1 DEF Good, Work, SameDirs
        <5>4. QED
          BY <5>2, <5>3
      <4>2. X \in Good
        <5>1. E \in Good /\ X = [E EXCEPT !.cu = c] /\ c \in Start
          BY <2>3, <3>2 DEF Start
        <5>2. QED
          BY <5>1 DEF Good, Work
      <4>3. E.start = c /\ E.rel = 0 /\ SameDirs(E, W)
        <5>1. E.start = IF Q[o] = <<>> THEN E.got ELSE W.start
          BY <2>3, <2>6
        <5>2. E.start = c
          BY <2>1, <3>1, <5>1
        <5>3. E.rel = 0 /\ SameDirs(E, W)
          BY <2>1, <2>3
        <5>4. QED
          BY <5>2, <5>3
      <4>4. SameDirs(X, W)
        BY <4>1, <4>3 DEF SameDirs
      <4>5. QED
        BY <4>1, <4>2, <4>3, <4>4
    <3>4. ~(Unit(X) < X.rel) /\ Unit(X) = Unit(W) /\ Unit(W) \in Nat
      BY <3>3, UnitFacts DEF Unit, SameDirs
    <3>5. Z = X
      BY <1>1, <2>4, <2>6, <3>1, <3>2, <3>4 DEF Rewound, Unit
    <3>6. P \in Owners /\ Len(P[o]) = 1 /\ P[o][1] = c /\ P[o] # <<>> /\ Longer(P, Q, o)
      <4>1. PICK z : z = Len(Q[o])
        OBVIOUS
      <4>2. z = 0
        BY <2>1, <4>1, OwnerFacts
      <4>3. P \in Owners /\ Len(P[o]) = z + 1 /\ P[o][z + 1] = c /\ P[o] # <<>> /\ Longer(P, Q, o)
        BY <3>2, <4>1, GrownIs, LongerGrown
      <4>4. z + 1 = 1
        BY <4>2
      <4>5. QED
        BY <4>3, <4>4
    <3>7. c # FREE
      BY ClusterFacts
    <3>8. WriterAt(X, P, o)
      BY <3>3, <3>6, <3>7 DEF WriterAt, FileAt, StartIn
    <3>9. Sound(X, P, b)
      BY <2>3, <2>6, <3>1, <3>2, <3>3 DEF Sound
    <3>10. Wrote(X, W, P, Q, o, b)
      BY <3>3, <3>6, <3>8, <3>9 DEF Wrote
    <3>11. QED
      BY <1>1, <3>3, <3>4, <3>5, <3>7, <3>10
  <2>7. QED
    BY <2>5, <2>6
<1>5. QED
  BY <1>3, <1>4

(* A step forward in a write. *)
LEMMA ForwardWrites ==
    ASSUME NEW W \in Good, NEW Q \in Owners, NEW b, Sound(W, Q, b), NEW o \in Slot, WriterAt(W, Q, o), W.cu # FREE,
           W.ok, W.rel # Unit(W)
    PROVE  /\ \E P : Wrote(Forward(W, "write"), W, P, Q, o, b)
           /\ Forward(W, "write").ok => Forward(W, "write").cu # FREE /\ Forward(W, "write").rel = W.rel + 1
<1>1. PICK X : X = Forward(W, "write")
  OBVIOUS
<1>2. FileAt(W, Q, o) /\ Laid(W.fat, Q) /\ W.start # FREE
  BY PlaceOf, ClusterFacts DEF WriterAt, Sound
<1>3. /\ W.rel + 1 \in 1 .. Len(Q[o]) /\ W.cu = Q[o][W.rel + 1] /\ Q[o] # <<>> /\ W.rel \in Nat
      /\ W.start = Q[o][1] /\ Len(Q[o]) \in Nat
  BY <1>2, PlaceOf, OwnerFacts
<1>4. \/ /\ W.rel + 2 \in 1 .. Len(Q[o]) /\ Q[o][W.rel + 2] \in Cluster
         /\ X = Moved(W, Q[o][W.rel + 2])
      \/ /\ W.rel + 1 = Len(Q[o])
         /\ X = IF Extend(W).ok THEN Moved(Extend(W), Extend(W).got) ELSE Extend(W)
  <2>1. "write" # "read"
    OBVIOUS
  <2>2. QED
    BY <1>1, <1>2, <2>1, ForwardIs
<1>5. CASE /\ W.rel + 2 \in 1 .. Len(Q[o]) /\ Q[o][W.rel + 2] \in Cluster
           /\ X = Moved(W, Q[o][W.rel + 2])
  <2>1. PICK c \in Cluster : c = Q[o][W.rel + 2]
    BY <1>5
  <2>2. /\ X \in Good /\ SameDirs(X, W) /\ X.fat = W.fat /\ NotBroken(X, W) /\ X.start = W.start
        /\ X.rel = W.rel + 1 /\ X.cu = c /\ FileAt(X, Q, o)
    BY <1>2, <1>5, <2>1, MovesOn
  <2>3. Sound(X, Q, b) /\ X.cu # FREE
    BY <2>2, ClusterFacts DEF Sound, NotBroken
  <2>4. WriterAt(X, Q, o)
    BY <2>2, <2>3 DEF WriterAt
  <2>5. Wrote(X, W, Q, Q, o, b)
    BY <2>2, <2>3, <2>4, LongerSame DEF Wrote
  <2>6. QED
    BY <1>1, <2>2, <2>3, <2>5
<1>6. CASE /\ W.rel + 1 = Len(Q[o])
           /\ X = IF Extend(W).ok THEN Moved(Extend(W), Extend(W).got) ELSE Extend(W)
  <2>1. PICK E : E = Extend(W)
    OBVIOUS
  <2>2. AtEnd(W, Q, o)
    BY <1>3, <1>6 DEF AtEnd
  <2>3. /\ E \in Good /\ SameDirs(E, W) /\ E.cu = W.cu /\ E.rel = W.rel
        /\ \/ ~E.ok /\ E.start = W.start /\ Sound(E, Q, b)
           \/ /\ E.ok /\ E.got \in Cluster /\ Outside(Q, E.got)
              /\ Sound(E, Grown(Q, o, E.got), b)
              /\ E.start = IF Q[o] = <<>> THEN E.got ELSE W.start
    BY <2>1, <2>2, ExtendLays
  <2>4. CASE ~E.ok
    <3>1. X = E
      BY <1>6, <2>1, <2>4
    <3>2. WriterAt(E, Q, o)
      BY <2>3, <2>4, PlaceStays DEF SamePlace
    <3>3. Wrote(E, W, Q, Q, o, b)
      BY <2>3, <2>4, <3>2, LongerSame DEF Wrote
    <3>4. QED
      BY <1>1, <2>4, <3>1, <3>3
  <2>5. CASE E.ok
    <3>1. PICK c \in Cluster : c = E.got
      BY <2>3, <2>5
    <3>2. PICK P : P = Grown(Q, o, c)
      OBVIOUS
    <3>3. Sound(E, P, b) /\ E.start = W.start /\ E.fat \in [Cluster -> FatEntry]
      BY <1>3, <2>3, <2>5, <3>1, <3>2 DEF Good, Work
    <3>4. P \in Owners /\ Len(P[o]) = Len(Q[o]) + 1 /\ P[o][Len(Q[o]) + 1] = c /\ Longer(P, Q, o)
      BY <3>2, GrownIs, LongerGrown
    <3>5. FileAt(E, P, o) /\ E.start = StartIn(P[o]) /\ E.cu # FREE
      <4>1. FileAt(E, Q, o)
        BY <1>2, <2>3, <3>3, PlaceStays DEF SamePlace
      <4>2. QED
        BY <1>2, <2>3, <3>3, <3>4, <4>1, LongerAt
    <3>6. X = Moved(E, c)
      BY <1>6, <2>1, <2>5, <3>1
    <3>7. E.rel + 2 \in 1 .. Len(P[o]) /\ c = P[o][E.rel + 2]
      <4>1. E.rel + 2 = Len(Q[o]) + 1
        BY <1>3, <1>6, <2>3
      <4>2. Len(Q[o]) + 1 \in 1 .. Len(P[o])
        BY <1>3, <3>4
      <4>3. QED
        BY <3>4, <4>1, <4>2
    <3>8. /\ X \in Good /\ SameDirs(X, E) /\ X.fat = E.fat /\ NotBroken(X, E) /\ X.start = E.start
          /\ X.rel = E.rel + 1 /\ X.cu = c /\ FileAt(X, P, o)
      BY <2>3, <3>4, <3>5, <3>6, <3>7, MovesOn
    <3>9. Sound(X, P, b) /\ X.cu # FREE /\ SameDirs(X, W)
      BY <2>3, <3>3, <3>8, ClusterFacts DEF Sound, NotBroken, SameDirs
    <3>10. WriterAt(X, P, o)
      BY <3>5, <3>8, <3>9 DEF WriterAt
    <3>11. Wrote(X, W, P, Q, o, b)
      BY <3>4, <3>8, <3>9, <3>10 DEF Wrote
    <3>12. QED
      BY <1>1, <2>3, <3>8, <3>9, <3>11
  <2>6. QED
    BY <2>4, <2>5
<1>7. QED
  BY <1>4, <1>5, <1>6

(* What is written after what was written. *)
LEMMA WroteOn ==
    ASSUME NEW W, NEW V, NEW X, NEW Q \in Owners, NEW P, NEW R, NEW o \in Slot, NEW b,
           Wrote(V, W, P, Q, o, b), Wrote(X, V, R, P, o, b)
    PROVE  Wrote(X, W, R, Q, o, b)
<1>1. Longer(R, Q, o)
  BY LongerTwice DEF Wrote
<1>2. SameDirs(X, W)
  BY DEF Wrote, SameDirs
<1>3. QED
  BY <1>1, <1>2 DEF Wrote

(* map_cluster in a write. *)
LEMMA MapWrites ==
    ASSUME NEW W \in Good, W.ok, NEW Q \in Owners, NEW b, Sound(W, Q, b), NEW o \in Slot, WriterAt(W, Q, o)
    PROVE  /\ \E P : Wrote(MapCluster(W, "write"), W, P, Q, o, b)
           /\ MapCluster(W, "write").ok =>
                /\ MapCluster(W, "write").cu # FREE
                /\ W.off <= MaxOffset => MapCluster(W, "write").rel = Unit(W)
<1>1. PICK n, T : n = MaxOffset \div ClusUnits /\ T = Unit(W)
  OBVIOUS
<1>2. n \in Nat /\ T \in Nat /\ (W.off <= MaxOffset => T <= n)
  BY <1>1, UnitFacts
<1>3. PICK w : /\ w[0] = Rewound(Entered(W, "write")) /\ MapCluster(W, "write") = w[n]
               /\ \A i \in 0 .. n : w[i] \in Good
               /\ \A i \in 1 .. n : w[i] = Forward(w[i - 1], "write")
  BY <1>1, MapSteps
<1> DEFINE P(X, i) ==
        /\ \E R : Wrote(X, W, R, Q, o, b)
        /\ X.ok => X.cu # FREE /\ X.rel <= T /\ (X.rel = T \/ X.rel >= i)
           B == {i \in 0 .. n : P(w[i], i)}
<1>4. P(w[0], 0)
  <2>1. PICK X : X = w[0]
    OBVIOUS
  <2>2. /\ \E R : Wrote(X, W, R, Q, o, b)
        /\ X.ok => X.cu # FREE /\ X.rel <= T
    BY <1>1, <1>3, <2>1, EntersWriting
  <2>3. X \in Good /\ X.rel \in Nat
    <3>1. 0 \in 0 .. n
      BY <1>2
    <3>2. X \in Good
      BY <1>3, <2>1, <3>1
    <3>3. QED
      BY <3>2 DEF Good, Work
  <2>4. P(X, 0)
    BY <2>2, <2>3
  <2>5. QED
    BY <2>1, <2>4
<1>5. 0 \in B
  BY <1>2, <1>4
<1>6. ASSUME NEW i \in 1 .. n, i - 1 \in B
      PROVE  i \in B
  <2>1. PICK V, X : V = w[i - 1] /\ X = w[i]
    OBVIOUS
  <2>2. /\ \E R : Wrote(V, W, R, Q, o, b)
        /\ V.ok => V.cu # FREE /\ V.rel <= T /\ (V.rel = T \/ V.rel >= i - 1)
        /\ X = Forward(V, "write") /\ X \in Good
    BY <1>3, <1>6, <2>1
  <2>3. PICK R : Wrote(V, W, R, Q, o, b)
    BY <2>2
  <2>4. V \in Good /\ V.rel \in Nat /\ Unit(V) = T /\ R \in Owners
    BY <1>1, <2>3 DEF Good, Work, Wrote, SameDirs, Unit, Longer
  <2>5. CASE ~V.ok \/ V.rel = T
    <3>1. X = V
      BY <2>2, <2>4, <2>5 DEF Forward, Unit
    <3>2. P(X, i)
      BY <2>2, <2>5, <3>1
    <3>3. QED
      BY <2>1, <3>2
  <2>6. CASE V.ok /\ V.rel # T
    <3>1. Sound(V, R, b) /\ WriterAt(V, R, o) /\ V.cu # FREE
      BY <2>2, <2>3, <2>6 DEF Wrote
    <3>2. /\ \E S : Wrote(X, V, S, R, o, b)
          /\ X.ok => X.cu # FREE /\ X.rel = V.rel + 1
      BY <2>2, <2>4, <2>6, <3>1, ForwardWrites
    <3>3. \E S : Wrote(X, W, S, Q, o, b)
      BY <2>3, <3>2, WroteOn
    <3>4. V.rel <= T => V.rel + 1 <= T
      BY <1>2, <2>4, <2>6
    <3>5. V.rel >= i - 1 => V.rel + 1 >= i
      BY <2>4
    <3>6. P(X, i)
      BY <2>2, <2>6, <3>2, <3>3, <3>4, <3>5
    <3>7. QED
      BY <2>1, <3>6
  <2>7. QED
    BY <2>5, <2>6
<1>7. n \in B
  <2> HIDE DEF B
  <2> QED  BY <1>2, <1>5, <1>6, UpTheSteps
<1>8. PICK X : X = w[n]
  OBVIOUS
<1>9. /\ \E R : Wrote(X, W, R, Q, o, b)
      /\ X.ok => X.cu # FREE /\ X.rel <= T /\ (X.rel = T \/ X.rel >= n)
  BY <1>7, <1>8
<1>10. X.rel \in Nat
  BY <1>9 DEF Wrote, Good, Work
<1>11. X.ok /\ W.off <= MaxOffset => X.rel = T
  BY <1>2, <1>9, <1>10
<1>12. QED
  BY <1>1, <1>3, <1>8, <1>9, <1>11

(* The size a file had (z) is the one it has, or the others are told. *)
Tells(W, z) == IF W.shared = <<>> THEN W.size = z
               ELSE W.shared = <<W.start, W.size>> /\ W.start # FREE

(* The work of a call on the file of o, for the directories D. *)
Filed(W, P, Q, o, b, z, D) ==
    /\ W \in Good /\ Longer(P, Q, o) /\ Sound(W, P, b) /\ WriterAt(W, P, o)
    /\ W.dirent = D /\ W.size <= MaxOffset /\ W.off <= MaxOffset /\ Tells(W, z)

(* map_cluster in such a call. *)
LEMMA MapFiled ==
    ASSUME NEW W, W.ok, NEW Q \in Owners, NEW P, NEW o \in Slot, NEW b, NEW z, NEW D, Filed(W, P, Q, o, b, z, D)
    PROVE  /\ \E R : Filed(MapCluster(W, "write"), R, Q, o, b, z, D)
           /\ MapCluster(W, "write").off = W.off /\ MapCluster(W, "write").size = W.size
           /\ MapCluster(W, "write").ok =>
                  MapCluster(W, "write").start # FREE /\ MapCluster(W, "write").cu # FREE
                  /\ MapCluster(W, "write").rel = Unit(W)
<1>1. W \in Good /\ P \in Owners /\ Sound(W, P, b) /\ WriterAt(W, P, o) /\ W.off <= MaxOffset
  BY DEF Filed, Longer
<1>2. PICK X : X = MapCluster(W, "write")
  OBVIOUS
<1>3. /\ \E R : Wrote(X, W, R, P, o, b)
      /\ X.ok => X.cu # FREE /\ X.rel = Unit(W)
  BY <1>1, <1>2, MapWrites
<1>4. PICK R : Wrote(X, W, R, P, o, b)
  BY <1>3
<1>5. X \in Good /\ SameDirs(X, W) /\ Longer(R, P, o) /\ Sound(X, R, b) /\ WriterAt(X, R, o)
  BY <1>4 DEF Wrote
<1>6. Longer(R, Q, o)
  BY <1>5, LongerTwice DEF Filed
<1>7. Tells(X, z)
  <2>1. X.shared = W.shared /\ X.size = W.size /\ Tells(W, z)
    BY <1>5 DEF SameDirs, Filed
  <2>2. W.start # FREE => X.start = W.start
    <3>1. W.start # FREE => W.start = StartIn(R[o])
      BY <1>1, <1>5, LongerAt DEF WriterAt
    <3>2. QED
      BY <1>5, <3>1 DEF WriterAt
  <2>3. QED
    BY <2>1, <2>2 DEF Tells
<1>8. Filed(X, R, Q, o, b, z, D)
  BY <1>5, <1>6, <1>7 DEF Filed, SameDirs
<1>9. X.off = W.off /\ X.size = W.size
  BY <1>5 DEF SameDirs
<1>10. X.cu # FREE => X.start # FREE
  BY <1>5 DEF WriterAt, FileAt
<1>11. QED
  BY <1>2, <1>3, <1>8, <1>9, <1>10

(* The others are told of what the file has become. *)
LEMMA MergeFiled ==
    ASSUME NEW W, NEW Q \in Owners, NEW P, NEW o \in Slot, NEW b, NEW z, NEW D, Filed(W, P, Q, o, b, z, D),
           W.start # FREE, NEW X \in Good, X.fat = W.fat, X.broken = W.broken, SamePlace(X, W), X.dirent = W.dirent,
           X.size <= MaxOffset, X.off <= MaxOffset
    PROVE  /\ Filed(Merge(X), P, Q, o, b, z, D) /\ Merge(X).ok = X.ok /\ Merge(X).off = X.off /\ Merge(X).size = X.size
           /\ SamePlace(Merge(X), W)
<1>1. PICK Y : Y = Merge(X)
  OBVIOUS
<1>2. Y \in Good
  BY <1>1, MergeGood
<1>3. /\ Y.fat = X.fat /\ Y.broken = X.broken /\ Y.start = X.start /\ Y.cu = X.cu /\ Y.rel = X.rel
      /\ Y.dirent = X.dirent /\ Y.size = X.size /\ Y.off = X.off /\ Y.ok = X.ok /\ Y.shared = <<X.start, X.size>>
  BY <1>1 DEF Merge, Good, Work
<1>4. SamePlace(Y, W)
  BY <1>3 DEF SamePlace
<1>5. WriterAt(Y, P, o)
  BY <1>4, PlaceStays DEF Filed
<1>6. Tells(Y, z)
  <2>1. Y.start # FREE /\ Y.shared = <<Y.start, Y.size>>
    BY <1>3, <1>4 DEF SamePlace
  <2>2. Y.shared # <<>>
    <3>1. Len(<<Y.start, Y.size>>) = 2 /\ Len(<<>>) = 0
      OBVIOUS
    <3>2. QED
      BY <2>1, <3>1
  <2>3. QED
    BY <2>1, <2>2 DEF Tells
<1>7. Filed(Y, P, Q, o, b, z, D)
  BY <1>2, <1>3, <1>5, <1>6 DEF Filed, Sound
<1>8. QED
  BY <1>1, <1>3, <1>4, <1>7

(* dos_extend: a file that is written beyond its end. *)
LEMMA ExtendFileLays ==
    ASSUME NEW W, W.ok, NEW Q \in Owners, NEW P, NEW o \in Slot, NEW b, NEW z, NEW D, Filed(W, P, Q, o, b, z, D)
    PROVE  /\ \E R : /\ Filed(dos_extend(W), R, Q, o, b, z, D)
                     /\ W.off > W.size /\ dos_extend(W).ok => dos_extend(W).cu # FREE /\ Unit(W) < Len(R[o])
           /\ W.off <= W.size => dos_extend(W) = W
           /\ dos_extend(W).off = W.off
<1>1. W.off \in Nat /\ W.size \in Nat /\ W.off <= MaxOffset
  BY DEF Filed, Good, Work
<1>2. CASE W.off <= W.size
  <2>1. dos_extend(W) = W
    BY <1>2 DEF dos_extend
  <2>2. ~(W.off > W.size)
    BY <1>1, <1>2
  <2>3. QED
    BY <2>1, <2>2
<1>3. CASE ~(W.off <= W.size)
  <2>1. PICK X : X = MapCluster(W, "write")
    OBVIOUS
  <2>2. /\ \E R : Filed(X, R, Q, o, b, z, D)
        /\ X.off = W.off /\ X.size = W.size
        /\ X.ok => X.start # FREE /\ X.cu # FREE /\ X.rel = Unit(W)
    BY <2>1, MapFiled
  <2>3. PICK R : Filed(X, R, Q, o, b, z, D)
    BY <2>2
  <2>4. dos_extend(W) = IF X.ok THEN Merge([X EXCEPT !.size = X.off]) ELSE X
    BY <1>3, <2>1 DEF dos_extend, Then
  <2>5. CASE ~X.ok
    BY <1>3, <2>2, <2>3, <2>4, <2>5
  <2>6. CASE X.ok
    <3>1. PICK Y : Y = [X EXCEPT !.size = X.off]
      OBVIOUS
    <3>2. /\ Y \in Good /\ Y.fat = X.fat /\ Y.broken = X.broken /\ SamePlace(Y, X) /\ Y.dirent = X.dirent
          /\ Y.size = X.off /\ Y.off = X.off /\ Y.ok = X.ok
      BY <2>3, <3>1 DEF Filed, Good, Work, SamePlace
    <3>3. Y.size <= MaxOffset /\ Y.off <= MaxOffset
      BY <2>3, <3>2 DEF Filed
    <3>4. /\ Filed(Merge(Y), R, Q, o, b, z, D) /\ Merge(Y).ok = Y.ok /\ Merge(Y).off = Y.off
          /\ SamePlace(Merge(Y), X)
      <4>1. X.start # FREE
        BY <2>2, <2>6
      <4>2. /\ Y \in Good /\ Y.fat = X.fat /\ Y.broken = X.broken /\ SamePlace(Y, X) /\ Y.dirent = X.dirent
        BY <3>2
      <4>3. QED
        BY <2>3, <3>3, <4>1, <4>2, MergeFiled
    <3>5. dos_extend(W) = Merge(Y)
      BY <2>4, <2>6, <3>1
    <3>6. Unit(W) < Len(R[o])
      BY <2>2, <2>3, <2>6 DEF Filed, WriterAt, FileAt
    <3>7. Merge(Y).cu # FREE /\ Merge(Y).off = W.off
      BY <2>2, <2>6, <3>2, <3>4 DEF SamePlace
    <3>8. QED
      BY <1>3, <3>4, <3>5, <3>6, <3>7
  <2>7. QED
    BY <2>5, <2>6
<1>4. QED
  BY <1>2, <1>3

(* A unit is written. *)
LEMMA WriteUnitLays ==
    ASSUME NEW W, W.ok, NEW Q \in Owners, NEW P, NEW o \in Slot, NEW b, NEW z, NEW D, Filed(W, P, Q, o, b, z, D),
           W.off + 1 <= MaxOffset
    PROVE  /\ \E R : Filed(WriteUnit(W), R, Q, o, b, z, D)
           /\ WriteUnit(W).off <= W.off + 1
<1>1. PICK X : X = MapCluster(W, "write")
  OBVIOUS
<1>2. /\ \E R : Filed(X, R, Q, o, b, z, D)
      /\ X.off = W.off /\ X.size = W.size
      /\ X.ok => X.start # FREE
  BY <1>1, MapFiled
<1>3. PICK R : Filed(X, R, Q, o, b, z, D)
  BY <1>2
<1>4. WriteUnit(W) = IF X.ok THEN Merge(Advanced(X)) ELSE X
  BY <1>1 DEF WriteUnit, Then
<1>5. W.off \in Nat /\ X.size \in Nat /\ X.size <= MaxOffset
  BY <1>3 DEF Filed, Good, Work
<1>6. CASE ~X.ok
  BY <1>2, <1>3, <1>4, <1>5, <1>6
<1>7. CASE X.ok
  <2>1. PICK Y : Y = Advanced(X)
    OBVIOUS
  <2>2. Y \in Good
    BY <1>3, <2>1, AdvancedGood DEF Filed
  <2>3. /\ Y.fat = X.fat /\ Y.broken = X.broken /\ SamePlace(Y, X) /\ Y.dirent = X.dirent
        /\ Y.size = Larger(X.size, X.off + 1) /\ Y.off = X.off + 1
    BY <1>3, <2>1 DEF Advanced, Filed, Good, Work, SamePlace
  <2>4. Y.size <= MaxOffset /\ Y.off <= MaxOffset
    BY <1>2, <1>5, <2>3 DEF Larger
  <2>5. Filed(Merge(Y), R, Q, o, b, z, D) /\ Merge(Y).off = Y.off
    BY <1>2, <1>3, <1>7, <2>2, <2>3, <2>4, MergeFiled
  <2>6. WriteUnit(W) = Merge(Y)
    BY <1>4, <1>7, <2>1
  <2>7. WriteUnit(W).off <= W.off + 1
    BY <1>2, <1>5, <2>3, <2>5, <2>6
  <2>8. QED
    BY <2>5, <2>6, <2>7
<1>8. QED
  BY <1>6, <1>7

(* The units of a write. *)
LEMMA WritesLay ==
    ASSUME NEW W, NEW k \in Nat, NEW Q \in Owners, NEW P, NEW o \in Slot, NEW b, NEW z, NEW D, Filed(W, P, Q, o, b, z, D),
           W.off + k <= MaxOffset
    PROVE  \E R : Filed(Writes(W, k), R, Q, o, b, z, D)
<1>1. PICK w : /\ w[0] = W /\ Writes(W, k) = w[k]
               /\ \A i \in 0 .. k : w[i] \in Good
               /\ \A i \in 1 .. k : w[i] = Then(w[i - 1], WriteUnit)
  BY WriteSteps DEF Filed
<1>2. W.off \in Nat /\ MaxOffset \in Nat
  BY FatAssumption DEF Filed, Good, Work
<1> DEFINE Ok(X, i) == (\E R : Filed(X, R, Q, o, b, z, D)) /\ X.off <= W.off + i
           B == {i \in 0 .. k : Ok(w[i], i)}
<1>3. 0 \in B
  BY <1>1, <1>2
<1>4. ASSUME NEW i \in 1 .. k, i - 1 \in B
      PROVE  i \in B
  <2>1. PICK V, X : V = w[i - 1] /\ X = w[i]
    OBVIOUS
  <2>2. /\ \E R : Filed(V, R, Q, o, b, z, D)
        /\ V.off <= W.off + (i - 1) /\ X = Then(V, WriteUnit) /\ V \in Good
    BY <1>1, <1>4, <2>1
  <2>3. PICK R : Filed(V, R, Q, o, b, z, D)
    BY <2>2
  <2>4. V.off \in Nat /\ V.ok \in BOOLEAN
    BY <2>2 DEF Good, Work
  <2>5. V.off + 1 <= MaxOffset /\ V.off + 1 <= W.off + i /\ V.off <= W.off + i
    BY <1>2, <2>2, <2>4
  <2>6. CASE ~V.ok
    <3>1. X = V
      BY <2>2, <2>6 DEF Then
    <3>2. Ok(X, i)
      BY <2>3, <2>5, <3>1
    <3>3. QED
      BY <2>1, <3>2
  <2>7. CASE V.ok
    <3>1. X = WriteUnit(V)
      BY <2>2, <2>7 DEF Then
    <3>2. (\E S : Filed(X, S, Q, o, b, z, D)) /\ X.off <= V.off + 1
      BY <2>3, <2>5, <2>7, <3>1, WriteUnitLays
    <3>3. X.off \in Nat
      BY <3>2 DEF Filed, Good, Work
    <3>4. X.off <= W.off + i
      BY <1>2, <2>4, <2>5, <3>2, <3>3
    <3>5. Ok(X, i)
      BY <3>2, <3>4
    <3>6. QED
      BY <2>1, <3>5
  <2>8. QED
    BY <2>4, <2>6, <2>7
<1>5. k \in B
  <2> HIDE DEF B
  <2> QED  BY <1>3, <1>4, UpTheSteps
<1>6. QED
  BY <1>1, <1>5

(* What a reader has done to its fnode. *)
HasRead(X, W, Q, o) ==
    /\ X \in Good /\ X.fat = W.fat /\ X.start = W.start /\ X.size = W.size /\ X.shared = W.shared
    /\ FileAt(X, Q, o) /\ (X.cu = FREE <=> W.cu = FREE)
    /\ X.off <= MaxOffset

(* The units of a read. *)
LEMMA ReadsLook ==
    ASSUME NEW W \in Good, NEW k \in Nat, NEW Q \in Owners, Laid(W.fat, Q), NEW o \in Slot, FileAt(W, Q, o),
           W.size <= MaxOffset, W.off <= MaxOffset
    PROVE  HasRead(Reads(W, k), W, Q, o)
<1>1. PICK w : /\ w[0] = W /\ Reads(W, k) = w[k]
               /\ \A i \in 0 .. k : w[i] \in Good
               /\ \A i \in 1 .. k : w[i] = Then(w[i - 1], ReadUnit)
  BY ReadSteps
<1>2. W.size \in Nat /\ MaxOffset \in Nat
  BY FatAssumption DEF Good, Work
<1> DEFINE B == {i \in 0 .. k : HasRead(w[i], W, Q, o)}
<1>3. 0 \in B
  BY <1>1 DEF HasRead
<1>4. ASSUME NEW i \in 1 .. k, i - 1 \in B
      PROVE  i \in B
  <2>1. PICK V, X : V = w[i - 1] /\ X = w[i]
    OBVIOUS
  <2>2. HasRead(V, W, Q, o) /\ X = Then(V, ReadUnit) /\ X \in Good
    BY <1>1, <1>4, <2>1
  <2>3. V \in Good /\ V.off \in Nat /\ V.size \in Nat /\ V.ok \in BOOLEAN /\ V.size = W.size
    BY <2>2 DEF HasRead, Good, Work
  <2>4. CASE ~V.ok
    <3>1. X = V
      BY <2>2, <2>4 DEF Then
    <3>2. HasRead(X, W, Q, o)
      BY <2>2, <3>1
    <3>3. QED
      BY <2>1, <3>2
  <2>5. CASE V.ok /\ V.off >= V.size
    <3>1. X = Refused(V)
      BY <2>2, <2>5 DEF Then, ReadUnit
    <3>2. /\ X.fat = V.fat /\ X.start = V.start /\ X.cu = V.cu /\ X.rel = V.rel /\ SameDirs(X, V)
      BY <2>3, <3>1, RefusedIs
    <3>3. FileAt(X, Q, o)
      BY <2>2, <3>2, PlaceStays DEF SamePlace, HasRead
    <3>4. HasRead(X, W, Q, o)
      BY <2>2, <3>2, <3>3 DEF HasRead, SameDirs
    <3>5. QED
      BY <2>1, <3>4
  <2>6. CASE V.ok /\ ~(V.off >= V.size)
    <3>1. PICK Y : Y = MapCluster(V, "read")
      OBVIOUS
    <3>2. Looked(Y, V, Q, o) /\ Y \in Good
      BY <2>2, <2>3, <3>1, MapReads, MapGood DEF HasRead
    <3>3. X = IF Y.ok THEN [Y EXCEPT !.off = @ + 1] ELSE Y
      BY <2>2, <2>6, <3>1 DEF Then, ReadUnit
    <3>4. HasRead(Y, W, Q, o)
      BY <2>2, <3>2 DEF HasRead, Looked, SameDirs
    <3>5. CASE ~Y.ok
      <4>1. X = Y
        BY <3>3, <3>5
      <4>2. HasRead(X, W, Q, o)
        BY <3>4, <4>1
      <4>3. QED
        BY <2>1, <4>2
    <3>6. CASE Y.ok
      <4>1. /\ X.fat = Y.fat /\ X.start = Y.start /\ X.cu = Y.cu /\ X.rel = Y.rel
            /\ X.size = Y.size /\ X.shared = Y.shared /\ X.off = Y.off + 1
        BY <3>2, <3>3, <3>6 DEF Good, Work
      <4>2. FileAt(X, Q, o)
        BY <3>4, <4>1, PlaceStays DEF SamePlace, HasRead
      <4>3. Y.off = V.off
        BY <3>2 DEF Looked, SameDirs
      <4>4. X.off <= MaxOffset
        BY <1>2, <2>3, <2>6, <4>1, <4>3
      <4>5. HasRead(X, W, Q, o)
        BY <2>2, <3>4, <4>1, <4>2, <4>4 DEF HasRead
      <4>6. QED
        BY <2>1, <4>5
    <3>7. QED
      BY <3>5, <3>6
  <2>7. QED
    BY <2>3, <2>4, <2>5, <2>6
<1>5. k \in B
  <2> HIDE DEF B
  <2> QED  BY <1>3, <1>4, UpTheSteps
<1>6. QED
  BY <1>1, <1>5

(* The clusters of a chain after the first r. *)
After(q, r) == [i \in 1 .. Len(q) - r |-> q[i + r]]

(* It is a sequence, and linked as it was. *)
LEMMA AfterIs ==
    ASSUME NEW Q \in Owners, NEW o \in Slot, NEW r \in 0 .. Len(Q[o])
    PROVE  /\ After(Q[o], r) \in Seq(Cluster) /\ Len(After(Q[o], r)) = Len(Q[o]) - r
           /\ \A i \in 1 .. Len(Q[o]) - r : /\ After(Q[o], r)[i] = Q[o][i + r]
                                            /\ NextIn(After(Q[o], r), i) = NextIn(Q[o], i + r)
<1>1. PICK n, m, t : n = Len(Q[o]) /\ m = n - r /\ t = After(Q[o], r)
  OBVIOUS
<1>2. n \in Nat /\ r \in 0 .. n /\ m \in Nat
  BY <1>1, OwnerFacts
<1>3. t = [i \in 1 .. m |-> Q[o][i + r]]
  BY <1>1 DEF After
<1>4. \A i \in 1 .. m : i + r \in 1 .. n /\ Q[o][i + r] \in Cluster
  <2>1. \A i \in 1 .. m : i + r \in 1 .. n
    BY <1>1, <1>2
  <2>2. QED
    BY <1>1, <2>1, OwnerFacts
<1>5. t \in [1 .. m -> Cluster] /\ \A i \in 1 .. m : t[i] = Q[o][i + r]
  BY <1>3, <1>4
<1>6. t \in Seq(Cluster) /\ Len(t) = m
  BY <1>2, <1>5, SeqDef, LenProperties
<1>7. ASSUME NEW i \in 1 .. m
      PROVE  NextIn(t, i) = NextIn(Q[o], i + r)
  <2>1. i = m <=> i + r = n
    BY <1>1, <1>2
  <2>2. i # m => i + 1 \in 1 .. m /\ (i + 1) + r = (i + r) + 1
    BY <1>2
  <2>3. i # m => t[i + 1] = Q[o][(i + r) + 1]
    BY <1>5, <2>2
  <2>4. QED
    BY <1>1, <1>6, <2>1, <2>3 DEF NextIn
<1>8. QED
  BY <1>1, <1>5, <1>6, <1>7

(* What follows a cut is a tail. *)
LEMMA TailingAfter ==
    ASSUME NEW f \in [Cluster -> FatEntry], NEW Q \in Owners, Laid(f, Q), NEW o \in Slot, NEW r \in 0 .. Len(Q[o]),
           r # Len(Q[o]), NEW R, NEW g,
           \A i \in r + 1 .. Len(Q[o]) : Outside(R, Q[o][i]) /\ g[Q[o][i]] = f[Q[o][i]]
    PROVE  Tailing(g, R, After(Q[o], r))
<1>1. PICK n, m, t : n = Len(Q[o]) /\ m = n - r /\ t = After(Q[o], r)
  OBVIOUS
<1>2. n \in Nat /\ r \in 0 .. n /\ m \in Nat /\ m > 0
  BY <1>1, OwnerFacts
<1>3. /\ t \in Seq(Cluster) /\ Len(t) = m
      /\ \A i \in 1 .. m : t[i] = Q[o][i + r] /\ NextIn(t, i) = NextIn(Q[o], i + r)
  BY <1>1, AfterIs
<1>4. ASSUME NEW i \in 1 .. m
      PROVE  g[t[i]] = NextIn(t, i) /\ Outside(R, t[i])
  <2>1. i + r \in r + 1 .. n /\ i + r \in 1 .. n
    BY <1>1, <1>2
  <2>2. f[Q[o][i + r]] = NextIn(Q[o], i + r)
    BY <1>1, <2>1, LaidFacts
  <2>3. QED
    BY <1>1, <1>3, <2>1, <2>2
<1>5. ASSUME NEW i \in 1 .. m, NEW j \in 1 .. m, t[i] = t[j]
      PROVE  i = j
  <2>1. i + r \in 1 .. n /\ j + r \in 1 .. n
    BY <1>1, <1>2
  <2>2. Q[o][i + r] = Q[o][j + r]
    BY <1>3, <1>5
  <2>3. i + r = j + r
    BY <1>1, <2>1, <2>2 DEF Laid, Apart
  <2>4. QED
    BY <1>2, <2>3
<1>6. QED
  BY <1>1, <1>2, <1>3, <1>4, <1>5 DEF Tailing

(* wipe_out_clusters of nothing. *)
LEMMA WipeNothing ==
    ASSUME NEW W \in Good
    PROVE  /\ SameFile(WipeFrom(W, LAST), W) /\ WipeFrom(W, LAST).fat = W.fat
           /\ WipeFrom(W, LAST).broken = W.broken
<1>1. LastCluster \in Nat /\ LAST \in Int
  BY ClusterFacts DEF LAST
<1>2. PICK w : /\ w[0] = [W EXCEPT !.got = LAST] /\ WipeFrom(W, LAST) = w[LastCluster]
               /\ \A i \in 0 .. LastCluster : w[i] \in Good
               /\ \A i \in 1 .. LastCluster : w[i] = WipeStep(w[i - 1])
  BY <1>1, WipeSteps
<1> DEFINE B == {i \in 0 .. LastCluster : w[i] = w[0]}
<1>3. 0 \in B
  BY <1>1
<1>4. w[0].got = LAST
  BY <1>2 DEF Good, Work
<1>5. ASSUME NEW i \in 1 .. LastCluster, i - 1 \in B
      PROVE  i \in B
  <2>1. w[i] = WipeStep(w[0])
    BY <1>2, <1>5
  <2>2. QED
    BY <1>4, <2>1 DEF WipeStep
<1>6. LastCluster \in B
  <2> HIDE DEF B
  <2> QED  BY <1>1, <1>3, <1>5, UpTheSteps
<1>7. PICK X : X = [W EXCEPT !.got = LAST]
  OBVIOUS
<1>8. WipeFrom(W, LAST) = X
  BY <1>2, <1>6, <1>7
<1>9. SameFile(X, W) /\ X.fat = W.fat /\ X.broken = W.broken
  BY <1>7 DEF SameFile, Good, Work
<1>10. QED
  BY <1>8, <1>9

(* A tail is given back: what is left is sound. *)
Tailed(W, R, t, b) ==
    /\ t = <<>> \/ Tailing(W.fat, R, t)
    /\ b \/ W.broken \/ \A c \in Cluster : W.fat[c] # FREE => ~Outside(R, c) \/ \E i \in 1 .. Len(t) : t[i] = c
(* wipe_out_clusters of a tail: what is left is sound. *)
LEMMA TailWiped ==
    ASSUME NEW W \in Good, W.ok, NEW R \in Owners, Laid(W.fat, R), NEW t, NEW b, Tailed(W, R, t, b),
           NEW n \in Int, n = IF t = <<>> THEN LAST ELSE t[1],
           NEW X, X = [WipeFrom(W, n) EXCEPT !.ok = TRUE]
    PROVE  X \in Good /\ X.ok = TRUE /\ SameFile(X, W) /\ Sound(X, R, b)
<1>1. PICK Y : Y = WipeFrom(W, n)
  OBVIOUS
<1>2. Y \in Good
  BY <1>1, WipeFromGood
<1>3. /\ X \in Good /\ X.ok = TRUE /\ X.fat = Y.fat /\ X.broken = Y.broken
      /\ SameFile(X, Y)
  <2>1. X = [Y EXCEPT !.ok = TRUE]
    BY <1>1
  <2>2. X \in Good /\ X.ok = TRUE
    BY <1>2, <2>1 DEF Good, Work
  <2>3. X.fat = Y.fat /\ X.broken = Y.broken /\ SameFile(X, Y)
    BY <1>2, <2>1 DEF Good, Work, SameFile
  <2>4. QED
    BY <2>2, <2>3
<1>4. CASE t = <<>>
  <2>1. SameFile(Y, W) /\ Y.fat = W.fat /\ Y.broken = W.broken
    BY <1>1, <1>4, WipeNothing
  <2>2. SameFile(X, W)
    BY <1>3, <2>1 DEF SameFile
  <2>3. ~\E i \in 1 .. Len(t) : TRUE
    BY <1>4
  <2>4. Sound(X, R, b)
    BY <1>3, <2>1, <2>3 DEF Sound, Tailed, Whole
  <2>5. QED
    BY <1>3, <2>2, <2>4
<1>5. CASE t # <<>>
  <2>1. Tailing(W.fat, R, t) /\ Y = WipeFrom(W, t[1])
    BY <1>1, <1>5 DEF Tailed
  <2>2. /\ SameFile(Y, W)
        /\ \E k \in 0 .. Len(t) :
               /\ FreedTo(Y.fat, W.fat, t, k)
               /\ Y.broken \/ (k = Len(t) /\ Y.broken = W.broken)
        /\ W.broken => Y.broken
    BY <2>1, WipeLaid
  <2>3. PICK k \in 0 .. Len(t) :
               /\ FreedTo(Y.fat, W.fat, t, k)
               /\ Y.broken \/ (k = Len(t) /\ Y.broken = W.broken)
    BY <2>2
  <2>4. SameFile(X, W)
    BY <1>3, <2>2 DEF SameFile
  <2>5. Len(t) \in Nat /\ \A j \in 1 .. k : j \in 1 .. Len(t)
    BY <2>1 DEF Tailing
  <2>6. \A c \in Cluster : Outside(R, c) \/ Y.fat[c] = W.fat[c]
    BY <2>1, <2>3, <2>5 DEF FreedTo, Tailing
  <2>7. W.fat \in [Cluster -> FatEntry]
    BY DEF Good, Work
  <2>8. Laid(Y.fat, R)
    BY <2>6, <2>7, LaidSame
  <2>9. k = Len(t) => (Tailed(W, R, t, b) => b \/ W.broken \/ Whole(Y.fat, R))
    BY <2>3 DEF FreedTo, Tailed, Whole
  <2>10. Sound(X, R, b)
    BY <1>3, <2>3, <2>8, <2>9 DEF Sound
  <2>11. QED
    BY <1>3, <2>4, <2>10
<1>6. QED
  BY <1>4, <1>5

(* What was in a chain is in what is left of it, or in the tail. *)
LEMMA WholeCut ==
    ASSUME NEW f, NEW Q \in Owners, Whole(f, Q), NEW o \in Slot, NEW r \in 0 .. Len(Q[o]),
           NEW R, \A s \in Slot : s # o => R[s] = Q[s], Len(R[o]) = r, \A i \in 1 .. r : R[o][i] = Q[o][i],
           NEW c \in Cluster, f[c] # FREE
    PROVE  ~Outside(R, c) \/ \E i \in 1 .. Len(After(Q[o], r)) : After(Q[o], r)[i] = c
<1>1. PICK s \in Slot : \E i \in 1 .. Len(Q[s]) : Q[s][i] = c
  BY DEF Whole, Outside
<1>2. PICK i \in 1 .. Len(Q[s]) : Q[s][i] = c
  BY <1>1
<1>3. CASE s # o
  <2>1. i \in 1 .. Len(R[s]) /\ R[s][i] = c
    BY <1>2, <1>3
  <2>2. QED
    BY <2>1 DEF Outside
<1>4. CASE s = o /\ i <= r
  <2>1. i \in 1 .. Len(R[s]) /\ R[s][i] = c
    BY <1>2, <1>4, OwnerFacts
  <2>2. QED
    BY <2>1 DEF Outside
<1>5. CASE s = o /\ ~(i <= r)
  <2>1. PICK n, j : n = Len(Q[o]) /\ j = i - r
    OBVIOUS
  <2>2. n \in Nat /\ i \in 1 .. n /\ r \in 0 .. n
    BY <1>5, <2>1, OwnerFacts
  <2>3. j \in 1 .. n - r /\ j + r = i
    BY <1>5, <2>1, <2>2
  <2>4. Len(After(Q[o], r)) = n - r /\ After(Q[o], r)[j] = Q[o][j + r]
    BY <2>1, <2>3, AfterIs
  <2>5. QED
    BY <1>2, <1>5, <2>3, <2>4
<1>6. QED
  BY <1>3, <1>4, <1>5

(* A unit that comes earlier is in no later cluster. *)
LEMMA UnitsInOrder ==
    ASSUME NEW a \in Nat, NEW c \in Nat, NEW b \in Nat \ {0}, a <= c
    PROVE  a \div b \in Nat /\ c \div b \in Nat /\ a \div b <= c \div b
<1>1. PICK q, r \in Int : q = a \div b /\ r = a % b /\ a = b * q + r /\ r \in 0 .. b - 1
  OBVIOUS
<1>2. PICK p, t \in Int : p = c \div b /\ t = c % b /\ c = b * p + t /\ t \in 0 .. b - 1
  OBVIOUS
<1>3. q >= 0 /\ p >= 0
  BY <1>1, <1>2
<1>4. q <= p
  <2>1. SUFFICES ASSUME q >= p + 1
                 PROVE  FALSE
    BY <1>1, <1>2
  <2>2. b * q >= b * (p + 1)
    BY <2>1
  <2>3. b * (p + 1) = b * p + b
    OBVIOUS
  <2>4. QED
    BY <1>1, <1>2, <2>1, <2>2, <2>3
<1>5. QED
  BY <1>1, <1>2, <1>3, <1>4

(* The fnode of shrink_file, one unit back. *)
Back(W) == [W EXCEPT !.off = Larger(@ - 1, 0)]
(* It differs in its offset only. *)
LEMMA BackIs ==
    ASSUME NEW W \in Good
    PROVE  /\ Back(W) \in Good /\ Back(W).fat = W.fat /\ NotBroken(Back(W), W) /\ SamePlace(Back(W), W)
           /\ Back(W).dirent = W.dirent /\ Back(W).size = W.size
           /\ Back(W).off \in Nat /\ Back(W).off <= W.off /\ Unit(Back(W)) <= Unit(W)
           /\ W.off = 0 => Unit(Back(W)) = 0
<1>1. PICK k : k = Larger(W.off - 1, 0)
  OBVIOUS
<1>2. W.off \in Nat /\ k \in Nat /\ k <= W.off
  BY <1>1 DEF Larger, Good, Work
<1>3. PICK V : V = [W EXCEPT !.off = k]
  OBVIOUS
<1>4. Back(W) = V
  BY <1>1, <1>3 DEF Back, Good, Work
<1>5. /\ V \in Good /\ V.fat = W.fat /\ NotBroken(V, W) /\ SamePlace(V, W)
      /\ V.dirent = W.dirent /\ V.size = W.size /\ V.off = k
  BY <1>2, <1>3 DEF Good, Work, NotBroken, SamePlace
<1>6. ClusUnits \in Nat \ {0}
  BY FatAssumption
<1>7. Unit(V) <= Unit(W)
  BY <1>2, <1>5, <1>6, UnitsInOrder DEF Unit
<1>8. k = 0 => Unit(V) = 0
  <2>1. 0 \div ClusUnits = 0
    BY <1>6
  <2>2. QED
    BY <1>5, <2>1 DEF Unit
<1>9. W.off = 0 => k = 0
  BY <1>2
<1>10. QED
  BY <1>2, <1>4, <1>5, <1>7, <1>8, <1>9

(* The cluster of the cut gets its new entry, or a link fails. *)
LEMMA CutLinkIs ==
    ASSUME NEW W \in Good, NEW last \in {FREE, LAST}, W.cu \in Cluster
    PROVE  /\ CutLink(W, last) \in Good
           /\ CutLink(W, last).dirent = W.dirent /\ CutLink(W, last).size = W.size
           /\ CutLink(W, last).rel = W.rel
           /\ CutLink(W, last).start = (IF last = FREE THEN FREE ELSE W.start)
           /\ CutLink(W, last).cu = (IF last = FREE THEN FREE ELSE W.cu)
           /\ \/ ~CutLink(W, last).ok /\ CutLink(W, last).broken /\ CutLink(W, last).fat = W.fat
              \/ CutLink(W, last).fat = Linking(W.fat, W.cu, last) /\ NotBroken(CutLink(W, last), W)
<1>1. PICK a, c : a = (IF last = FREE THEN FREE ELSE W.start) /\ c = (IF last = FREE THEN FREE ELSE W.cu)
  OBVIOUS
<1>2. PICK V : V = [W EXCEPT !.start = a, !.cu = c]
  OBVIOUS
<1>3. a \in Start /\ c \in Start /\ last \in FatEntry
  BY <1>1 DEF Good, Work, Start, FatEntry
<1>4. /\ V \in Good /\ V.start = a /\ V.cu = c /\ V.fat = W.fat /\ NotBroken(V, W) /\ V.rel = W.rel
      /\ V.dirent = W.dirent /\ V.size = W.size
  BY <1>2, <1>3 DEF Good, Work, NotBroken
<1>5. CutLink(W, last) = LinkFat(V, W.cu, last)
  <2>1. [W EXCEPT !.start = IF last = FREE THEN FREE ELSE @, !.cu = IF last = FREE THEN FREE ELSE @]
            = [W EXCEPT !.start = a, !.cu = c]
    BY <1>1 DEF Good, Work
  <2>2. QED
    BY <1>2, <2>1 DEF CutLink
<1>6. PICK X : X = LinkFat(V, W.cu, last)
  OBVIOUS
<1>7. /\ X \in Good /\ SameFile(X, V)
      /\ \/ ~X.ok /\ X.broken /\ X.fat = V.fat
         \/ X.fat = Linking(V.fat, W.cu, last) /\ NotBroken(X, V)
  BY <1>3, <1>4, <1>6, LinkIs
<1>8. X.dirent = W.dirent /\ X.size = W.size /\ X.rel = W.rel /\ X.start = a /\ X.cu = c
  BY <1>4, <1>7 DEF SameFile
<1>9. \/ ~X.ok /\ X.broken /\ X.fat = W.fat
      \/ X.fat = Linking(W.fat, W.cu, last) /\ NotBroken(X, W)
  BY <1>4, <1>7 DEF NotBroken
<1>10. QED
  BY <1>1, <1>5, <1>6, <1>7, <1>8, <1>9

(* A work that is as good as another but for ok. *)
Cuts(X, W, Q, o, b) ==
    /\ X \in Good /\ X.dirent = W.dirent /\ X.size = W.size
    /\ X.ok => \E R \in Owners : /\ \A s \in Slot : s # o => R[s] = Q[s]
                                 /\ Sound(X, R, b) /\ WriterAt(X, R, o)
    /\ ~X.ok => X.broken /\ X.fat = W.fat

(* The file becomes empty. *)
LEMMA CutAll ==
    ASSUME NEW W \in Good, W.ok, NEW Q \in Owners, NEW b, Sound(W, Q, b), NEW o \in Slot, WriterAt(W, Q, o), W.cu # FREE,
           W.rel = 0, W.size = 0, NEW n, n = NextIn(Q[o], 1)
    PROVE  Cuts(CutAt(W, n), W, Q, o, b)
<1>1. /\ W.cu = Q[o][1] /\ W.cu \in Cluster /\ 1 \in 1 .. Len(Q[o]) /\ Len(Q[o]) \in Nat
      /\ W.fat \in [Cluster -> FatEntry]
  <2>1. W.rel + 1 \in 1 .. Len(Q[o]) /\ W.cu = Q[o][W.rel + 1] /\ W.cu \in Cluster
    BY PlaceOf DEF WriterAt
  <2>2. W.rel + 1 = 1
    BY <2>1
  <2>3. QED
    BY <2>1, <2>2, OwnerFacts DEF Good, Work
<1>2. PICK m, t, R : m = Len(Q[o]) /\ t = After(Q[o], 1) /\ R = Without(Q, o)
  OBVIOUS
<1>3. m \in Nat /\ 1 \in 0 .. Len(Q[o]) /\ m >= 1 /\ 1 \in 1 .. m
  BY <1>1, <1>2
<1>4. Len(t) = m - 1 /\ t \in Seq(Cluster) /\ \A i \in 1 .. m - 1 : t[i] = Q[o][i + 1]
  <2>1. PICK r : r = 1
    OBVIOUS
  <2>2. r \in 0 .. Len(Q[o]) /\ t = After(Q[o], r)
    BY <1>2, <1>3, <2>1
  <2>3. /\ t \in Seq(Cluster) /\ Len(t) = m - r /\ \A i \in 1 .. m - r : t[i] = Q[o][i + r]
    <3>1. m = Len(Q[o])
      BY <1>2
    <3>2. r \in 0 .. m
      BY <2>2, <3>1
    <3>3. QED
      BY <2>2, <3>1, <3>2, AfterIs
  <2>4. QED
    BY <2>1, <2>3
<1>5. n = (IF t = <<>> THEN LAST ELSE t[1]) /\ n \in Int
  <2>1. t = <<>> <=> m = 1
    <3>1. t = <<>> <=> m - 1 = 0
      BY <1>3, <1>4, EmptySeq
    <3>2. QED
      BY <1>3, <3>1
  <2>2. CASE m = 1
    <3>1. n = LAST
      BY <1>2, <2>2 DEF NextIn
    <3>2. QED
      BY <2>1, <2>2, <3>1, ClusterFacts DEF LAST
  <2>3. CASE m # 1
    <3>1. 1 \in 1 .. m - 1 /\ 1 + 1 \in 1 .. m
      BY <1>3, <2>3
    <3>2. t[1] = Q[o][1 + 1] /\ Q[o][1 + 1] \in Cluster
      BY <1>2, <1>4, <3>1, OwnerFacts
    <3>3. n = Q[o][1 + 1]
      BY <1>2, <2>3 DEF NextIn
    <3>4. \A u \in Cluster : u \in Int
      BY ClusterFacts
    <3>5. n \in Cluster /\ n = t[1] /\ t # <<>>
      BY <2>1, <2>3, <3>2, <3>3
    <3>6. QED
      BY <3>4, <3>5
  <2>4. QED
    BY <2>2, <2>3
<1>6. PICK C : C = CutLink(W, FREE)
  OBVIOUS
<1>7. /\ C \in Good /\ C.dirent = W.dirent /\ C.size = W.size /\ C.rel = W.rel /\ C.start = FREE /\ C.cu = FREE
      /\ \/ ~C.ok /\ C.broken /\ C.fat = W.fat
         \/ C.fat = Linking(W.fat, W.cu, FREE) /\ NotBroken(C, W)
  BY <1>1, <1>6, CutLinkIs
<1>8. PICK X : X = CutAt(W, n)
  OBVIOUS
<1>9. X = IF C.ok THEN [WipeFrom(C, n) EXCEPT !.ok = TRUE] ELSE C
  BY <1>6, <1>8 DEF CutAt, Then
<1>10. CASE ~C.ok /\ C.broken /\ C.fat = W.fat
  <2>1. X = C
    BY <1>9, <1>10
  <2>2. QED
    BY <1>7, <1>8, <1>10, <2>1 DEF Cuts
<1>11. CASE C.fat = Linking(W.fat, W.cu, FREE) /\ NotBroken(C, W)
  <2>1. C.ok /\ C.broken = W.broken
    BY <1>11 DEF NotBroken
  <2>2. /\ R \in Owners /\ Laid(W.fat, R) /\ \A i \in 1 .. m : Outside(R, Q[o][i])
    BY <1>1, <1>2, LaidWithout DEF Sound
  <2>3. Outside(R, W.cu) /\ FREE \in FatEntry
    BY <1>1, <1>2, <2>2 DEF FatEntry
  <2>4. C.fat \in [Cluster -> FatEntry] /\ Laid(C.fat, R)
    BY <1>1, <1>11, <2>2, <2>3, LaidElsewhere
  <2>5. \A c \in Cluster : C.fat[c] = IF c = W.cu THEN FREE ELSE W.fat[c]
    BY <1>1, <1>11 DEF Linking
  <2>6. t = <<>> \/ Tailing(C.fat, R, t)
    <3>1. CASE m = 1
      BY <1>4, <3>1, EmptySeq
    <3>2. CASE m # 1
      <4>1. ASSUME NEW i \in 1 + 1 .. m
            PROVE  Outside(R, Q[o][i]) /\ C.fat[Q[o][i]] = W.fat[Q[o][i]]
        <5>1. i \in 1 .. m /\ i # 1
          BY <1>3
        <5>2. Q[o][i] \in Cluster /\ Q[o][i] # W.cu
          BY <1>1, <1>2, <5>1, OwnerFacts DEF Sound, Laid, Apart
        <5>3. QED
          BY <2>2, <2>5, <5>1, <5>2
      <4>2. QED
        BY <1>1, <1>2, <1>3, <3>2, <4>1, TailingAfter DEF Sound
    <3>3. QED
      BY <3>1, <3>2
  <2>7. b \/ C.broken \/ \A c \in Cluster : C.fat[c] # FREE => ~Outside(R, c) \/ \E i \in 1 .. Len(t) : t[i] = c
    <3>1. SUFFICES ASSUME Whole(W.fat, Q), NEW c \in Cluster, C.fat[c] # FREE
                   PROVE  ~Outside(R, c) \/ \E i \in 1 .. Len(t) : t[i] = c
      BY <2>1 DEF Sound
    <3>2. W.fat[c] # FREE /\ c # W.cu
      BY <2>5, <3>1
    <3>3. PICK s \in Slot, i \in Nat : i \in 1 .. Len(Q[s]) /\ Q[s][i] = c
      BY <3>1, <3>2, OwnerFacts DEF Whole, Outside
    <3>4. CASE s # o
      <4>1. R[s] = Q[s]
        BY <1>2, <3>4, WithoutIs
      <4>2. QED
        BY <3>3, <4>1 DEF Outside
    <3>5. CASE s = o
      <4>1. i # 1 /\ i \in 1 .. m
        BY <1>1, <1>2, <3>2, <3>3, <3>5
      <4>2. i - 1 \in 1 .. m - 1 /\ (i - 1) + 1 = i
        BY <1>3, <4>1
      <4>3. t[i - 1] = c
        BY <1>4, <3>3, <3>5, <4>2
      <4>4. QED
        BY <1>4, <4>2, <4>3
    <3>6. QED
      BY <3>4, <3>5
  <2>8. X = [WipeFrom(C, n) EXCEPT !.ok = TRUE]
    BY <1>9, <2>1
  <2>9. X \in Good /\ X.ok = TRUE /\ SameFile(X, C) /\ Sound(X, R, b)
    <3>1. Tailed(C, R, t, b)
      BY <2>6, <2>7 DEF Tailed
    <3>2. C \in Good /\ C.ok /\ R \in Owners /\ Laid(C.fat, R)
      BY <1>7, <2>1, <2>2, <2>4
    <3>3. QED
      BY <1>5, <2>8, <3>1, <3>2, TailWiped, ZenonT(30)
  <2>10. WriterAt(X, R, o)
    <3>1. X.start = FREE /\ X.cu = FREE /\ X.rel = 0
      BY <1>7, <2>9 DEF SameFile
    <3>2. StartIn(R[o]) = FREE
      BY <1>2, WithoutIs DEF StartIn
    <3>3. QED
      BY <3>1, <3>2 DEF WriterAt, FileAt
  <2>11. \A s \in Slot : s # o => R[s] = Q[s]
    BY <1>2, WithoutIs
  <2>12. QED
    BY <1>7, <1>8, <2>2, <2>9, <2>10, <2>11 DEF Cuts, SameFile
<1>12. QED
  BY <1>7, <1>10, <1>11

(* The file keeps its clusters up to the one the fnode stands on. *)
LEMMA CutHere ==
    ASSUME NEW W \in Good, W.ok, NEW Q \in Owners, NEW b, Sound(W, Q, b), NEW o \in Slot, WriterAt(W, Q, o), W.cu # FREE,
           W.size # 0, NEW n, n = NextIn(Q[o], W.rel + 1)
    PROVE  Cuts(CutAt(W, n), W, Q, o, b)
<1>1. PICK m, r : m = Len(Q[o]) /\ r = W.rel + 1
  OBVIOUS
<1>2. /\ r \in 1 .. m /\ m \in Nat /\ W.cu = Q[o][r] /\ W.cu \in Cluster /\ W.start = Q[o][1] /\ W.start \in Cluster
      /\ W.fat \in [Cluster -> FatEntry] /\ W.rel \in Nat
  BY <1>1, PlaceOf, OwnerFacts, SMTT(30) DEF WriterAt, Good, Work
<1>3. PICK X : X = CutAt(W, n)
  OBVIOUS
<1>4. CASE r = m
  <2>1. n = LAST
    BY <1>1, <1>4 DEF NextIn
  <2>2. X = W
    BY <1>3, <2>1 DEF CutAt
  <2>3. QED
    BY <1>3, <2>2 DEF Cuts
<1>5. CASE r # m
  <2>1. PICK t, R : t = After(Q[o], r) /\ R = CutAfter(Q, o, r)
    OBVIOUS
  <2>2. r \in 0 .. m /\ r + 1 \in 1 .. m /\ 1 \in 1 .. m - r /\ r + 1 = 1 + r
    BY <1>2, <1>5
  <2>3. Len(t) = m - r /\ t \in Seq(Cluster) /\ \A i \in 1 .. m - r : t[i] = Q[o][i + r]
    <3>1. r \in 0 .. Len(Q[o])
      BY <1>1, <2>2
    <3>2. /\ After(Q[o], r) \in Seq(Cluster) /\ Len(After(Q[o], r)) = Len(Q[o]) - r
          /\ \A i \in 1 .. Len(Q[o]) - r : After(Q[o], r)[i] = Q[o][i + r]
      BY <3>1, AfterIs
    <3>3. QED
      BY <1>1, <2>1, <3>2
  <2>4. n = Q[o][r + 1] /\ n \in Cluster /\ n \in Int /\ n # LAST
    <3>1. n = Q[o][r + 1]
      BY <1>1, <1>5 DEF NextIn
    <3>2. n \in Cluster
      BY <1>1, <2>2, <3>1, OwnerFacts
    <3>3. QED
      BY <3>1, <3>2, ClusterFacts
  <2>5. t # <<>> /\ n = t[1]
    <3>1. t # <<>>
      BY <1>2, <2>2, <2>3
    <3>2. QED
      BY <2>2, <2>3, <2>4, <3>1
  <2>6. PICK C : C = CutLink(W, LAST)
    OBVIOUS
  <2>7. /\ C \in Good /\ C.dirent = W.dirent /\ C.size = W.size /\ C.rel = W.rel /\ C.start = W.start /\ C.cu = W.cu
        /\ \/ ~C.ok /\ C.broken /\ C.fat = W.fat
           \/ C.fat = Linking(W.fat, W.cu, LAST) /\ NotBroken(C, W)
    <3>1. LAST # FREE
      BY ClusterFacts
    <3>2. QED
      BY <1>2, <2>6, <3>1, CutLinkIs
  <2>8. X = IF C.ok THEN [WipeFrom(C, n) EXCEPT !.ok = TRUE] ELSE C
    BY <1>3, <2>4, <2>6 DEF CutAt, Then
  <2>9. CASE ~C.ok /\ C.broken /\ C.fat = W.fat
    <3>1. X = C
      BY <2>8, <2>9
    <3>2. QED
      BY <1>3, <2>7, <2>9, <3>1 DEF Cuts
  <2>10. CASE C.fat = Linking(W.fat, W.cu, LAST) /\ NotBroken(C, W)
    <3>1. C.ok /\ C.broken = W.broken
      BY <2>10 DEF NotBroken
    <3>2. /\ C.fat \in [Cluster -> FatEntry] /\ Laid(C.fat, R)
          /\ \A i \in r + 1 .. m : Outside(R, Q[o][i])
      BY <1>1, <1>2, <2>1, <2>10, LaidCut DEF Sound
    <3>3. /\ R \in Owners /\ \A s \in Slot : s # o => R[s] = Q[s]
          /\ Len(R[o]) = r /\ \A i \in 1 .. r : R[o][i] = Q[o][i]
      BY <1>1, <2>1, <2>2, CutIs
    <3>4. \A c \in Cluster : C.fat[c] = IF c = W.cu THEN LAST ELSE W.fat[c]
      BY <1>2, <2>10 DEF Linking
    <3>5. Tailing(C.fat, R, t)
      <4>1. ASSUME NEW i \in r + 1 .. m
            PROVE  Outside(R, Q[o][i]) /\ C.fat[Q[o][i]] = W.fat[Q[o][i]]
        <5>1. i \in 1 .. m /\ i # r
          BY <1>2
        <5>2. Q[o][i] \in Cluster /\ Q[o][i] # W.cu
          BY <1>1, <1>2, <5>1, OwnerFacts DEF Sound, Laid, Apart
        <5>3. QED
          BY <3>2, <3>4, <5>2
      <4>2. QED
        BY <1>1, <1>2, <1>5, <2>1, <2>2, <4>1, TailingAfter DEF Sound
    <3>6. b \/ C.broken \/ \A c \in Cluster : C.fat[c] # FREE => ~Outside(R, c) \/ \E i \in 1 .. Len(t) : t[i] = c
      <4>1. SUFFICES ASSUME Whole(W.fat, Q), NEW c \in Cluster, C.fat[c] # FREE
                     PROVE  ~Outside(R, c) \/ \E i \in 1 .. Len(t) : t[i] = c
        BY <3>1 DEF Sound
      <4>2. W.fat[c] # FREE
        <5>1. W.fat[W.cu] # FREE
          BY <1>1, <1>2, LaidFacts DEF Sound
        <5>2. QED
          BY <3>4, <4>1, <5>1
      <4>3. QED
        <5>1. r \in 0 .. Len(Q[o]) /\ Len(R[o]) = r /\ \A i \in 1 .. r : R[o][i] = Q[o][i]
          BY <1>1, <2>2, <3>3
        <5>2. PICK f : f = W.fat
          OBVIOUS
        <5>3. ~Outside(R, c) \/ \E i \in 1 .. Len(After(Q[o], r)) : After(Q[o], r)[i] = c
          BY <3>3, <4>1, <4>2, <5>1, <5>2, WholeCut
        <5>4. QED
          BY <2>1, <5>3
    <3>7. X = [WipeFrom(C, n) EXCEPT !.ok = TRUE]
      BY <2>8, <3>1
    <3>8. X \in Good /\ X.ok = TRUE /\ SameFile(X, C) /\ Sound(X, R, b)
      <4>1. Tailed(C, R, t, b)
        BY <3>5, <3>6 DEF Tailed
      <4>2. C \in Good /\ C.ok /\ R \in Owners /\ Laid(C.fat, R)
        BY <2>7, <3>1, <3>2, <3>3
      <4>3. n = (IF t = <<>> THEN LAST ELSE t[1]) /\ n \in Int
        BY <2>4, <2>5
      <4>4. QED
        BY <3>7, <4>1, <4>2, <4>3, TailWiped
    <3>9. WriterAt(X, R, o)
      <4>1. X.start = W.start /\ X.cu = W.cu /\ X.rel = W.rel
        BY <2>7, <3>8 DEF SameFile
      <4>2. W.start # FREE /\ W.cu # FREE
        BY <1>2, ClusterFacts
      <4>3. R[o] # <<>> /\ R[o][1] = Q[o][1]
        BY <1>2, <3>3, OwnerFacts
      <4>4. W.rel < Len(R[o]) /\ R[o][W.rel + 1] = W.cu
        BY <1>1, <1>2, <3>3, SMTT(30)
      <4>5. QED
        BY <1>2, <4>1, <4>2, <4>3, <4>4 DEF WriterAt, FileAt, StartIn
    <3>10. QED
      BY <1>3, <2>7, <3>3, <3>8, <3>9 DEF Cuts, SameFile
  <2>11. QED
    BY <2>7, <2>9, <2>10
<1>6. QED
  BY <1>4, <1>5

(* The chain of a file has been cut, and the fnode is in what is left. *)
CutTo(X, Q, o, b) == \E R \in Owners : /\ \A s \in Slot : s # o => R[s] = Q[s]
                                       /\ Sound(X, R, b) /\ WriterAt(X, R, o)

(* shrink_file: the file ends where the fnode is, or nothing has changed; *)
(* in a file that reaches so far only a link can fail.                    *)
LEMMA ShrinkLays ==
    ASSUME NEW W \in Good, W.ok, NEW Q \in Owners, NEW b, Sound(W, Q, b), NEW o \in Slot, WriterAt(W, Q, o),
           W.size = W.off, W.off <= MaxOffset
    PROVE  /\ Shrunk(W) \in Good /\ Shrunk(W).dirent = W.dirent /\ Shrunk(W).size = W.size
           /\ Shrunk(W).ok => CutTo(Shrunk(W), Q, o, b)
           /\ ~Shrunk(W).ok => /\ Shrunk(W).fat = W.fat /\ (Shrunk(W).broken \/ Shrunk(W).broken = W.broken)
                               /\ W.cu # FREE /\ Unit(W) < Len(Q[o]) => Shrunk(W).broken
<1> USE DEF CutTo
<1>1. PICK X : X = Shrunk(W)
  OBVIOUS
<1>2. X \in Good /\ W.off \in Nat /\ Unit(W) \in Nat /\ W.fat \in [Cluster -> FatEntry]
  BY <1>1, ShrunkGood, UnitFacts DEF Good, Work
<1>3. CASE W.off = 0 /\ W.cu = FREE
  <2>1. X = W
    BY <1>1, <1>3 DEF Shrunk
  <2>2. QED
    BY <1>1, <2>1
<1>4. CASE ~(W.off = 0 /\ W.cu = FREE)
  <2>1. PICK V, A : V = Back(W) /\ A = MapCluster(V, "read")
    OBVIOUS
  <2>2. /\ V \in Good /\ V.fat = W.fat /\ NotBroken(V, W) /\ SamePlace(V, W)
        /\ V.dirent = W.dirent /\ V.size = W.size
        /\ V.off \in Nat /\ V.off <= W.off /\ Unit(V) <= Unit(W) /\ (W.off = 0 => Unit(V) = 0)
    BY <2>1, BackIs
  <2>3. V.ok /\ V.off <= MaxOffset /\ Laid(V.fat, Q) /\ FileAt(V, Q, o) /\ V.cu = W.cu /\ V.broken = W.broken
        /\ V.start = W.start
    <3>1. MaxOffset \in Nat
      BY FatAssumption
    <3>2. V.off <= MaxOffset
      BY <1>2, <2>2, <3>1
    <3>3. FileAt(V, Q, o)
      BY <2>2, PlaceStays DEF WriterAt
    <3>4. QED
      BY <2>2, <3>2, <3>3 DEF Sound, NotBroken, SamePlace
  <2>4. /\ Looked(A, V, Q, o) /\ A \in Good
        /\ A.ok => A.cu # FREE /\ A.rel = Unit(V)
        /\ V.cu # FREE /\ Unit(V) < Len(Q[o]) => A.ok
    BY <2>1, <2>2, <2>3, MapReads, MapGood
  <2>5. /\ A.fat = W.fat /\ A.broken = W.broken /\ A.start = W.start /\ A.dirent = W.dirent /\ A.size = W.size
        /\ FileAt(A, Q, o) /\ (A.cu = FREE <=> W.cu = FREE)
    BY <2>2, <2>3, <2>4 DEF Looked, SameDirs
  <2>6. X = IF A.ok THEN Cut(A, NextCluster(A.fat, A.cu)) ELSE A
    BY <1>1, <1>4, <2>1 DEF Shrunk, AtLast, Then, Back
  <2>7. CASE ~A.ok
    <3>1. X = A
      BY <2>6, <2>7
    <3>2. ~(W.cu # FREE /\ Unit(W) < Len(Q[o]))
      <4>1. Len(Q[o]) \in Nat /\ Unit(V) \in Nat
        BY <2>2, OwnerFacts, UnitFacts
      <4>2. Unit(W) < Len(Q[o]) => Unit(V) < Len(Q[o])
        BY <1>2, <2>2, <4>1
      <4>3. QED
        BY <2>3, <2>4, <2>7, <4>2
    <3>3. QED
      BY <1>1, <1>2, <2>5, <2>7, <3>1, <3>2
  <2>8. CASE A.ok
    <3>1. PICK n : n = NextCluster(A.fat, A.cu)
      OBVIOUS
    <3>2. A.cu # FREE /\ A.rel = Unit(V) /\ WriterAt(A, Q, o) /\ Sound(A, Q, b)
      BY <2>4, <2>5, <2>8 DEF WriterAt, Sound
    <3>3. n = NextIn(Q[o], A.rel + 1)
      <4>1. A.rel + 1 \in 1 .. Len(Q[o]) /\ A.cu = Q[o][A.rel + 1]
        BY <2>4, <2>5, <3>2, PlaceOf
      <4>2. QED
        BY <1>2, <2>5, <3>1, <4>1, LaidFacts DEF Sound
    <3>4. n \notin {FREE, ERROR}
      <4>1. A.rel + 1 \in 1 .. Len(Q[o]) /\ Len(Q[o]) \in Nat
        BY <2>4, <2>5, <3>2, PlaceOf, OwnerFacts
      <4>2. n # LAST => n \in Cluster
        <5>1. CASE A.rel + 1 = Len(Q[o])
          BY <3>3, <5>1 DEF NextIn
        <5>2. CASE A.rel + 1 # Len(Q[o])
          <6>1. (A.rel + 1) + 1 \in 1 .. Len(Q[o])
            BY <4>1, <5>2
          <6>2. Q[o][(A.rel + 1) + 1] \in Cluster
            BY <6>1, OwnerFacts
          <6>3. QED
            BY <3>3, <5>2, <6>2 DEF NextIn
        <5>3. QED
          BY <5>1, <5>2
      <4>3. LAST \notin {FREE, ERROR} /\ \A d \in Cluster : d \notin {FREE, ERROR}
        BY ClusterFacts
      <4>4. QED
        BY <4>2, <4>3
    <3>5. X = CutAt(A, n)
      BY <2>6, <2>8, <3>1, <3>4 DEF Cut
    <3>6. Cuts(X, A, Q, o, b)
      <4>1. CASE A.size # 0
        BY <2>4, <2>8, <3>2, <3>3, <3>5, <4>1, CutHere
      <4>2. CASE A.size = 0
        <5>1. A.rel = 0
          BY <2>2, <2>5, <3>2, <4>2
        <5>2. n = NextIn(Q[o], 1)
          <6>1. A.rel + 1 = 1
            BY <5>1
          <6>2. QED
            BY <3>3, <6>1
        <5>3. QED
          BY <2>4, <2>8, <3>2, <3>5, <4>2, <5>1, <5>2, CutAll
      <4>3. QED
        BY <4>1, <4>2
    <3>7. QED
      BY <1>1, <1>2, <2>5, <3>6 DEF Cuts
  <2>9. QED
    BY <2>7, <2>8
<1>5. QED
  BY <1>3, <1>4

(***************************************************************************)
(* The SFTs of the files.                                                  *)
(***************************************************************************)
At(t, s) == {h \in Fd : t[h].open /\ t[h].slot = s}

(* An SFT of the file of a slot. *)
InFile(x, Q, s) ==
    /\ FileAt(x, Q, s) /\ (x.mode = "rw" => WriterAt(x, Q, s))
    /\ (x.dirty => x.mode = "rw") /\ x.posit <= MaxOffset /\ x.size <= MaxOffset

(* All agree on the size, one writes, and the entry e of the directory is *)
(* what they have as long as none is dirty.                               *)
Agreeing(t, s) == \A h, k \in At(t, s) : /\ t[h].size = t[k].size
                                         /\ t[h].mode = "rw" /\ t[k].mode = "rw" => h = k
Written(t, e, Q, s) == (\A h \in At(t, s) : ~t[h].dirty) =>
                           /\ e.start = StartIn(Q[s]) /\ e.size <= MaxOffset
                           /\ \A h \in At(t, s) : t[h].start = e.start /\ t[h].size = e.size
FileOk(t, e, Q, s) == (\A h \in At(t, s) : InFile(t[h], Q, s)) /\ Agreeing(t, s) /\ Written(t, e, Q, s)

OpensFiles(t, D) == \A h \in Fd : t[h].open => t[h].slot \in Slot /\ D[t[h].slot].kind = "file"
FilesOk(t, D, Q) == OpensFiles(t, D) /\ \A s \in Slot : D[s].kind = "file" => FileOk(t, D[s], Q, s)

(* A file that a call leaves alone. *)
Kept(u, t, E, D, P, Q, s) ==
    /\ D[s].kind = "file" /\ E[s].start = D[s].start /\ E[s].size = D[s].size /\ P[s] = Q[s]
    /\ \A h \in Fd : h \in At(t, s) \/ h \in At(u, s) => u[h] = t[h]

(* It stays as it is. *)
LEMMA FileKept ==
    ASSUME NEW t, NEW u, NEW D, NEW E, NEW Q, NEW P, NEW s \in Slot, Kept(u, t, E, D, P, Q, s), FileOk(t, D[s], Q, s)
    PROVE  FileOk(u, E[s], P, s)
<1>1. At(u, s) = At(t, s) /\ \A h \in At(t, s) : u[h] = t[h]
  BY DEF Kept, At
<1>2. P[s] = Q[s] /\ E[s].start = D[s].start /\ E[s].size = D[s].size
  BY DEF Kept
<1>3. \A h \in At(t, s) : InFile(t[h], P, s)
  BY <1>2 DEF FileOk, InFile, FileAt, WriterAt
<1>4. Agreeing(u, s)
  BY <1>1 DEF FileOk, Agreeing
<1>5. Written(u, E[s], P, s)
  BY <1>1, <1>2 DEF FileOk, Written
<1>6. QED
  BY <1>1, <1>3, <1>4, <1>5 DEF FileOk

(* All files after a call: kept, or looked at by itself. *)
LEMMA FilesKept ==
    ASSUME NEW t, NEW u, NEW D, NEW E, NEW Q, NEW P, FilesOk(t, D, Q), OpensFiles(u, E),
           \A s \in Slot : E[s].kind = "file" => Kept(u, t, E, D, P, Q, s) \/ FileOk(u, E[s], P, s)
    PROVE  FilesOk(u, E, P)
<1>1. ASSUME NEW s \in Slot, E[s].kind = "file"
      PROVE  FileOk(u, E[s], P, s)
  <2>1. CASE Kept(u, t, E, D, P, Q, s)
    <3>1. FileOk(t, D[s], Q, s)
      BY <2>1 DEF Kept, FilesOk
    <3>2. QED
      BY <2>1, <3>1, FileKept
  <2>2. QED
    BY <1>1, <2>1
<1>2. QED
  BY <1>1 DEF FilesOk

(* A file nobody has open. *)
LEMMA FileUnopened ==
    ASSUME NEW t, NEW e, NEW Q, NEW s \in Slot, At(t, s) = {}, e.start = StartIn(Q[s]), e.size <= MaxOffset
    PROVE  FileOk(t, e, Q, s)
BY DEF FileOk, Agreeing, Written

(* An open SFT is one of its file. *)
LEMMA InItsFile ==
    ASSUME CountInv, NEW D, NEW Q \in Owners, FilesOk(sft, D, Q), NEW h \in Fd, sft[h].open
    PROVE  /\ sft[h] \in OpenFile /\ sft[h].slot \in Slot /\ D[sft[h].slot].kind = "file"
           /\ h \in At(sft, sft[h].slot)
           /\ FileOk(sft, D[sft[h].slot], Q, sft[h].slot) /\ InFile(sft[h], Q, sft[h].slot)
           /\ FileAt(sft[h], Q, sft[h].slot)
<1>1. sft[h] \in OpenFile
  BY OpenIsFile DEF CountInv
<1>2. sft[h].slot \in Slot /\ D[sft[h].slot].kind = "file" /\ h \in At(sft, sft[h].slot)
  BY DEF FilesOk, OpensFiles, At
<1>3. FileOk(sft, D[sft[h].slot], Q, sft[h].slot)
  BY <1>2 DEF FilesOk
<1>4. QED
  BY <1>1, <1>2, <1>3 DEF FileOk, InFile

(* Where an SFT stands in a chain that becomes longer. *)
LEMMA LongerPlace ==
    ASSUME NEW W, W.rel \in Nat, NEW Q \in Owners, NEW o \in Slot, FileAt(W, Q, o), NEW P, Longer(P, Q, o)
    PROVE  FileAt(W, P, o) /\ (W.start # FREE => W.start = StartIn(P[o]))
<1>1. /\ Len(Q[o]) \in Nat /\ Len(P[o]) \in Nat
      /\ Q[o] = <<>> <=> Len(Q[o]) = 0
      /\ P[o] = <<>> <=> Len(P[o]) = 0
  BY OwnerFacts DEF Longer
<1>2. W.start # FREE => W.start = StartIn(P[o])
  <2>1. SUFFICES ASSUME W.start # FREE
                 PROVE  W.start = StartIn(P[o])
    OBVIOUS
  <2>2. Q[o] # <<>> /\ W.start = Q[o][1]
    BY <2>1 DEF FileAt, StartIn
  <2>3. 1 \in 1 .. Len(Q[o]) /\ P[o] # <<>>
    BY <1>1, <2>2 DEF Longer
  <2>4. QED
    BY <2>2, <2>3 DEF Longer, StartIn
<1>3. W.cu # FREE => W.rel < Len(P[o]) /\ P[o][W.rel + 1] = W.cu
  <2>1. SUFFICES ASSUME W.cu # FREE
                 PROVE  W.rel < Len(P[o]) /\ P[o][W.rel + 1] = W.cu
    OBVIOUS
  <2>2. W.rel < Len(Q[o]) /\ Q[o][W.rel + 1] = W.cu
    BY <2>1 DEF FileAt
  <2>3. W.rel + 1 \in 1 .. Len(Q[o])
    BY <1>1, <2>2
  <2>4. QED
    BY <1>1, <2>2, <2>3 DEF Longer
<1>4. QED
  BY <1>2, <1>3 DEF FileAt

(* What the SFTs of a file are told. *)
SameFd(x, e) == /\ x.open = e.open /\ x.slot = e.slot /\ x.mode = e.mode /\ x.posit = e.posit
                /\ x.cu = e.cu /\ x.rel = e.rel /\ x.dirty = e.dirty
(* The others take start and size, and keep the rest. *)
LEMMA ToldIs ==
    ASSUME NEW W \in Good, NEW e \in OpenFile
    PROVE  /\ W.shared = <<>> => Told(e, W) = e
           /\ \A a, z : W.shared # <<>> /\ W.shared = <<a, z>> => Told(e, W).start = a /\ Told(e, W).size = z
           /\ SameFd(Told(e, W), e)
<1>1. CASE W.shared = <<>>
  BY <1>1 DEF Told, SameFd
<1>2. CASE W.shared # <<>>
  <2>1. PICK a, z : a = W.shared[1] /\ z = W.shared[2]
    OBVIOUS
  <2>2. Told(e, W) = [e EXCEPT !.start = a, !.size = z]
    BY <1>2, <2>1 DEF Told
  <2>3. PICK x : x = [e EXCEPT !.start = a, !.size = z]
    OBVIOUS
  <2>4. x.start = a /\ x.size = z /\ SameFd(x, e)
    BY <2>3 DEF OpenFile, SameFd
  <2>5. \A c, d : W.shared = <<c, d>> => c = a /\ d = z
    BY <2>1
  <2>6. QED
    BY <1>2, <2>2, <2>3, <2>4, <2>5
<1>3. QED
  BY <1>1, <1>2

(* What a call leaves in the SFTs when it saves its fnode. *)
LEMMA SaveIs ==
    ASSUME CountInv, NEW h \in Fd, sft[h].open, NEW W \in Good, NEW written \in BOOLEAN
    PROVE  /\ \A k \in Fd : k # h => Save(h, W, written)[k] = Distributed(W, h)[k]
           /\ Save(h, W, written)[h].open /\ Save(h, W, written)[h].slot = sft[h].slot
           /\ Save(h, W, written)[h].mode = sft[h].mode
           /\ Save(h, W, written)[h].start = W.start /\ Save(h, W, written)[h].size = W.size
           /\ Save(h, W, written)[h].posit = W.off
           /\ Save(h, W, written)[h].cu = W.cu /\ Save(h, W, written)[h].rel = W.rel
           /\ Save(h, W, written)[h].dirty = (sft[h].dirty \/ written)
<1> DEFINE G == Distributed(W, h)
           e == sft[h]
           p == W.start
           q == W.size
           r == W.off
           t == W.cu
           u == W.rel
           v == e.dirty \/ written
           w == e.fdate /\ ~written
           n == [e EXCEPT !.start = p, !.size = q, !.posit = r, !.cu = t, !.rel = u, !.dirty = v, !.fdate = w]
           S == [G EXCEPT ![h].start = p, ![h].size = q, ![h].posit = r, ![h].cu = t, ![h].rel = u,
                          ![h].dirty = @ \/ written, ![h].fdate = @ /\ ~written]
<1>1. G \in Sfts /\ G[h] = e
  BY DistributedType, DistributedSelf
<1>2. e \in OpenFile
  BY OpenIsFile DEF CountInv
<1>3. Save(h, W, written) = S
  BY DEF Save
<1>4. e.dirty = sft[h].dirty /\ e.slot = sft[h].slot /\ e.mode = sft[h].mode
  OBVIOUS
<1> HIDE DEF G, e, p, q, r, t, u
<1>5. S = [G EXCEPT ![h] = n]
  BY <1>1, <1>2, ZenonT(30) DEF Sfts, OpenFile
<1> HIDE DEF w, S
<1>6. /\ n.open /\ n.slot = e.slot /\ n.mode = e.mode /\ n.start = p /\ n.size = q /\ n.posit = r
      /\ n.cu = t /\ n.rel = u
  BY <1>2 DEF OpenFile
<1>7. n.dirty = (e.dirty \/ written)
  BY <1>2 DEF OpenFile
<1> HIDE DEF n, v
<1>8. S[h] = n /\ \A k \in Fd : k # h => S[k] = G[k]
  BY <1>1, <1>5 DEF Sfts
<1>9. Save(h, W, written)[h] = n /\ \A k \in Fd : k # h => Save(h, W, written)[k] = Distributed(W, h)[k]
  BY <1>3, <1>8 DEF G
<1>10. Save(h, W, written)[h].dirty = (sft[h].dirty \/ written)
  BY <1>9, <1>7, <1>4
<1>11. QED
  BY <1>4, <1>6, <1>9, <1>10 DEF p, q, r, t, u

(* The SFTs of a file as they stood, but for their places in it. *)
LEMMA FileAlike ==
    ASSUME NEW t, NEW u, NEW e, NEW Q, NEW s \in Slot, FileOk(t, e, Q, s), At(u, s) = At(t, s),
           \A k \in At(t, s) : /\ u[k].start = t[k].start /\ u[k].size = t[k].size /\ u[k].mode = t[k].mode
                               /\ u[k].dirty = t[k].dirty /\ InFile(u[k], Q, s)
    PROVE  FileOk(u, e, Q, s)
<1>1. \A k \in At(u, s) : InFile(u[k], Q, s)
  OBVIOUS
<1>2. Agreeing(u, s)
  BY DEF FileOk, Agreeing
<1>3. Written(u, e, Q, s)
  BY DEF FileOk, Written
<1>4. QED
  BY <1>1, <1>2, <1>3 DEF FileOk

(* The first SFT of a file that has no clusters. *)
LEMMA FileNew ==
    ASSUME NEW u, NEW h \in Fd, NEW e, NEW Q, NEW s \in Slot, At(u, s) = {h}, u[h] = NewFile(s, "rw", FREE, 0),
           Q[s] = <<>>, e.start = FREE, e.size = 0
    PROVE  FileOk(u, e, Q, s)
<1>1. /\ u[h].start = FREE /\ u[h].cu = FREE /\ u[h].rel = 0 /\ u[h].size = 0 /\ u[h].posit = 0
      /\ u[h].dirty = FALSE
  BY DEF NewFile
<1>2. 0 <= MaxOffset /\ StartIn(Q[s]) = FREE
  BY FatAssumption DEF StartIn
<1>3. InFile(u[h], Q, s)
  BY <1>1, <1>2 DEF InFile, WriterAt, FileAt
<1>4. Agreeing(u, s)
  BY DEF Agreeing
<1>5. Written(u, e, Q, s)
  BY <1>1, <1>2 DEF Written
<1>6. QED
  BY <1>3, <1>4, <1>5 DEF FileOk

(* One more SFT of a file. *)
LEMMA FileOpened ==
    ASSUME NEW t, NEW u, NEW h \in Fd, NEW e, NEW Q \in Owners, NEW s \in Slot, FileOk(t, e, Q, s), NEW m \in {"r", "rw"},
           NEW c, NEW z, u[h] = NewFile(s, m, c, z), At(u, s) = At(t, s) \cup {h}, h \notin At(t, s),
           \A k \in At(t, s) : u[k] = t[k],
           c = StartIn(Q[s]), z <= MaxOffset, \A k \in At(t, s) : t[k].size = z,
           (\A k \in At(t, s) : ~t[k].dirty) => e.start = c /\ e.size = z,
           m = "rw" => \A k \in At(t, s) : t[k].mode # "rw"
    PROVE  FileOk(u, e, Q, s)
<1>1. /\ u[h].start = c /\ u[h].cu = c /\ u[h].rel = 0 /\ u[h].size = z /\ u[h].posit = 0
      /\ u[h].dirty = FALSE /\ u[h].mode = m
  BY DEF NewFile
<1>2. 0 <= MaxOffset
  BY FatAssumption
<1>3. c # FREE => 0 < Len(Q[s]) /\ Q[s][0 + 1] = c
  BY OwnerFacts DEF StartIn
<1>4. FileAt(u[h], Q, s) /\ WriterAt(u[h], Q, s)
  BY <1>1, <1>3 DEF FileAt, WriterAt
<1>5. InFile(u[h], Q, s)
  BY <1>1, <1>2, <1>4 DEF InFile
<1>6. \A k \in At(u, s) : InFile(u[k], Q, s)
  BY <1>5 DEF FileOk
<1>7. Agreeing(u, s)
  BY <1>1 DEF FileOk, Agreeing
<1>8. Written(u, e, Q, s)
  BY <1>1 DEF FileOk, Written
<1>9. QED
  BY <1>6, <1>7, <1>8 DEF FileOk

(* The SFTs after a save: those of other files as before. *)
LEMMA SaveElsewhere ==
    ASSUME CountInv, NEW h \in Fd, sft[h].open, NEW W \in Good, NEW written \in BOOLEAN
    PROVE  /\ \A k \in Fd : /\ Save(h, W, written)[k].open <=> sft[k].open
                            /\ sft[k].open => Save(h, W, written)[k].slot = sft[k].slot
           /\ \A k \in Fd : k \notin At(sft, sft[h].slot) => Save(h, W, written)[k] = sft[k]
           /\ \A s : At(Save(h, W, written), s) = At(sft, s)
<1> DEFINE S == Save(h, W, written)
<1>1. /\ \A k \in Fd : k # h => S[k] = Distributed(W, h)[k]
      /\ S[h].open /\ S[h].slot = sft[h].slot
  BY SaveIs
<1>2. ASSUME NEW k \in Fd, k # h
      PROVE  /\ k \notin At(sft, sft[h].slot) => S[k] = sft[k]
             /\ S[k].open <=> sft[k].open
             /\ sft[k].open => S[k].slot = sft[k].slot
  <2>1. Distributed(W, h)[k] = IF k \in OpenAt(sft[h].slot) \ {h} THEN Told(sft[k], W) ELSE sft[k]
    BY DEF Distributed
  <2>2. CASE k \in At(sft, sft[h].slot)
    <3>1. sft[k].open /\ S[k] = Told(sft[k], W)
      BY <1>1, <1>2, <2>1, <2>2 DEF At, OpenAt, OpenFds
    <3>2. sft[k] \in OpenFile
      BY <3>1, OpenIsFile DEF CountInv
    <3>3. SameFd(Told(sft[k], W), sft[k])
      BY <3>2, ToldIs
    <3>4. QED
      BY <2>2, <3>1, <3>3 DEF SameFd
  <2>3. CASE k \notin At(sft, sft[h].slot)
    <3>1. S[k] = sft[k]
      BY <1>1, <1>2, <2>1, <2>3 DEF At, OpenAt, OpenFds
    <3>2. QED
      BY <3>1
  <2>4. QED
    BY <2>2, <2>3
<1> HIDE DEF S
<1>3. \A k \in Fd : (S[k].open <=> sft[k].open) /\ (sft[k].open => S[k].slot = sft[k].slot)
  BY <1>1, <1>2
<1>4. \A k \in Fd : k \notin At(sft, sft[h].slot) => S[k] = sft[k]
  BY <1>2 DEF At
<1>5. \A s : At(S, s) = At(sft, s)
  BY <1>3 DEF At
<1>6. QED
  BY <1>3, <1>4, <1>5 DEF S

(* The others of the file after a save. *)
LEMMA SaveTells ==
    ASSUME CountInv, NEW h \in Fd, sft[h].open, NEW W \in Good, NEW written \in BOOLEAN,
           NEW k \in Fd, k # h, k \in At(sft, sft[h].slot)
    PROVE  Save(h, W, written)[k] = Told(sft[k], W) /\ Distributed(W, h)[k] = Told(sft[k], W) /\ sft[k] \in OpenFile
<1>1. Save(h, W, written)[k] = Distributed(W, h)[k]
  BY SaveIs
<1>2. Distributed(W, h)[k] = Told(sft[k], W)
  BY DEF Distributed, At, OpenAt, OpenFds
<1>3. sft[k] \in OpenFile
  BY OpenIsFile DEF CountInv, At
<1>4. QED
  BY <1>1, <1>2, <1>3

(* An SFT that only reads, after it is told of what a write has made. *)
LEMMA ToldOk ==
    ASSUME NEW W \in Good, NEW e \in OpenFile, e.mode # "rw", NEW Q \in Owners, NEW o \in Slot, InFile(e, Q, o),
           NEW P, Longer(P, Q, o), WriterAt(W, P, o), W.size <= MaxOffset, NEW z, e.size = z, Tells(W, z)
    PROVE  InFile(Told(e, W), P, o) /\ Told(e, W).size = W.size
<1>1. e.rel \in Nat
  BY DEF OpenFile
<1>2. FileAt(e, P, o)
  BY <1>1, LongerPlace DEF InFile
<1>3. SameFd(Told(e, W), e)
  BY ToldIs
<1>4. CASE W.shared = <<>>
  <2>1. Told(e, W) = e /\ W.size = z
    BY <1>4, ToldIs DEF Tells
  <2>2. QED
    BY <2>1, <1>2 DEF InFile
<1>5. CASE W.shared # <<>>
  <2>1. W.shared = <<W.start, W.size>> /\ W.start # FREE
    BY <1>5 DEF Tells
  <2>2. Told(e, W).start = W.start /\ Told(e, W).size = W.size
    BY <1>5, <2>1, ToldIs
  <2>3. W.start = StartIn(P[o])
    BY DEF WriterAt
  <2>4. FileAt(Told(e, W), P, o)
    BY <1>2, <1>3, <2>1, <2>2, <2>3 DEF FileAt, SameFd
  <2>5. QED
    BY <1>3, <2>2, <2>4 DEF InFile, SameFd
<1>6. QED
  BY <1>4, <1>5

(* A file that has been written. *)
LEMMA SavedWrite ==
    ASSUME CountInv, NEW D, NEW Q \in Owners, FilesOk(sft, D, Q), NEW h \in Fd, sft[h].open, sft[h].mode = "rw",
           NEW W, NEW P, NEW b, NEW E, Filed(W, P, Q, sft[h].slot, b, sft[h].size, E), NEW e
    PROVE  FileOk(Save(h, W, TRUE), e, P, sft[h].slot)
<1>1. PICK o : o = sft[h].slot
  OBVIOUS
<1>2. /\ W \in Good /\ Longer(P, Q, o) /\ WriterAt(W, P, o) /\ W.size <= MaxOffset /\ W.off <= MaxOffset
      /\ Tells(W, sft[h].size)
  BY <1>1 DEF Filed
<1>3. o \in Slot /\ h \in At(sft, o) /\ FileOk(sft, D[o], Q, o)
  BY <1>1, InItsFile
<1>4. PICK S : S = Save(h, W, TRUE)
  OBVIOUS
<1>5. At(S, o) = At(sft, o)
  BY <1>2, <1>4, SaveElsewhere
<1>6. /\ S[h].mode = sft[h].mode /\ S[h].start = W.start /\ S[h].size = W.size /\ S[h].posit = W.off
      /\ S[h].cu = W.cu /\ S[h].rel = W.rel /\ S[h].dirty
  <2>1. TRUE \in BOOLEAN
    OBVIOUS
  <2>2. QED
    BY <1>2, <1>4, <2>1, SaveIs
<1>7. InFile(S[h], P, o) /\ S[h].size = W.size
  <2>1. SamePlace(S[h], W)
    BY <1>6 DEF SamePlace
  <2>2. FileAt(S[h], P, o) /\ WriterAt(S[h], P, o)
    BY <2>1, <1>2, PlaceStays DEF WriterAt
  <2>3. QED
    BY <2>2, <1>2, <1>6 DEF InFile
<1>8. ASSUME NEW k \in At(sft, o), k # h
      PROVE  InFile(S[k], P, o) /\ S[k].size = W.size /\ S[k].mode = sft[k].mode /\ sft[k].mode # "rw"
  <2>1. k \in Fd /\ TRUE \in BOOLEAN
    BY DEF At
  <2>2. S[k] = Told(sft[k], W) /\ sft[k] \in OpenFile
    BY <1>1, <1>2, <1>4, <1>8, <2>1, SaveTells
  <2>3. sft[k].mode # "rw" /\ sft[k].size = sft[h].size /\ InFile(sft[k], Q, o)
    BY <1>3, <1>8 DEF FileOk, Agreeing
  <2>4. SameFd(S[k], sft[k])
    BY <1>2, <2>2, ToldIs
  <2>5. InFile(S[k], P, o) /\ S[k].size = W.size
    BY <1>2, <1>3, <2>2, <2>3, ToldOk
  <2>6. QED
    BY <2>3, <2>4, <2>5 DEF SameFd
<1>9. Agreeing(S, o)
  BY <1>5, <1>7, <1>8 DEF Agreeing
<1>10. Written(S, e, P, o)
  BY <1>3, <1>5, <1>6 DEF Written
<1>11. QED
  BY <1>1, <1>4, <1>5, <1>7, <1>8, <1>9, <1>10 DEF FileOk

(* A file that one has open, and has cut. *)
LEMMA SavedCut ==
    ASSUME CountInv, NEW h \in Fd, sft[h].open, NEW o \in Slot, o = sft[h].slot, At(sft, o) = {h},
           NEW X \in Good, NEW R, WriterAt(X, R, o), X.size <= MaxOffset, X.off <= MaxOffset, NEW e,
           sft[h].mode = "rw"
    PROVE  FileOk(Save(h, X, TRUE), e, R, o)
<1>1. PICK S : S = Save(h, X, TRUE)
  OBVIOUS
<1>2. TRUE \in BOOLEAN
  OBVIOUS
<1>3. At(S, o) = {h}
  BY <1>1, <1>2, SaveElsewhere
<1>4. /\ S[h].mode = sft[h].mode /\ S[h].start = X.start /\ S[h].size = X.size /\ S[h].posit = X.off
      /\ S[h].cu = X.cu /\ S[h].rel = X.rel /\ S[h].dirty
  BY <1>1, <1>2, SaveIs, ZenonT(30)
<1>5. SamePlace(S[h], X)
  BY <1>4 DEF SamePlace
<1>6. FileAt(S[h], R, o) /\ WriterAt(S[h], R, o)
  BY <1>5, PlaceStays DEF WriterAt
<1>7. InFile(S[h], R, o)
  BY <1>4, <1>6 DEF InFile
<1>8. QED
  BY <1>1, <1>3, <1>4, <1>7 DEF FileOk, Agreeing, Written

(* An entry that names the same file, or none as before. *)
SameEntry(x, y) == (x.kind = "file" <=> y.kind = "file") /\ x.start = y.start /\ x.size = y.size

(* All other files, and the SFTs of them, are as they were. *)
SameFiles(E, D, P, Q, o) == \A s \in Slot : s # o => SameEntry(E[s], D[s]) /\ P[s] = Q[s]
SameSfts(u, t, o) ==
    \A k \in Fd : u[k] = t[k] \/ ((u[k].open => u[k].slot = o) /\ (t[k].open => t[k].slot = o))

(* A call that works on one file. *)
LEMMA OneFile ==
    ASSUME NEW t, NEW u, NEW D, NEW E, NEW Q, NEW P, NEW o \in Slot, FilesOk(t, D, Q), FileOk(u, E[o], P, o),
           E[o].kind = "file", SameFiles(E, D, P, Q, o), SameSfts(u, t, o)
    PROVE  FilesOk(u, E, P)
<1> USE DEF SameFiles, SameSfts
<1>1. OpensFiles(u, E)
  <2>1. ASSUME NEW k \in Fd, u[k].open
        PROVE  u[k].slot \in Slot /\ E[u[k].slot].kind = "file"
    <3>1. CASE u[k].slot = o
      BY <3>1
    <3>2. CASE u[k].slot # o
      <4>1. u[k] = t[k]
        BY <2>1, <3>2
      <4>2. u[k].slot \in Slot /\ D[u[k].slot].kind = "file"
        BY <4>1, <2>1 DEF FilesOk, OpensFiles
      <4>3. QED
        BY <4>2, <3>2 DEF SameEntry
    <3>3. QED
      BY <3>1, <3>2
  <2>2. QED
    BY <2>1 DEF OpensFiles
<1>2. ASSUME NEW s \in Slot, E[s].kind = "file", s # o
      PROVE  Kept(u, t, E, D, P, Q, s)
  <2>1. D[s].kind = "file" /\ E[s].start = D[s].start /\ E[s].size = D[s].size /\ P[s] = Q[s]
    BY <1>2 DEF SameEntry
  <2>2. \A k \in Fd : k \in At(t, s) \/ k \in At(u, s) => u[k] = t[k]
    BY <1>2 DEF At
  <2>3. QED
    BY <2>1, <2>2 DEF Kept
<1>3. \A s \in Slot : E[s].kind = "file" => Kept(u, t, E, D, P, Q, s) \/ FileOk(u, E[s], P, s)
  BY <1>2
<1>4. QED
  BY <1>1, <1>3, FilesKept

(* The same, for a call on the file of an SFT that leaves the directory. *)
LEMMA OneSft ==
    ASSUME CountInv, NEW D, NEW Q \in Owners, FilesOk(sft, D, Q), NEW h \in Fd, sft[h].open,
           NEW u, \A k \in Fd : k # h => u[k] = sft[k],
           u[h].open, u[h].slot = sft[h].slot, u[h].start = sft[h].start, u[h].size = sft[h].size,
           u[h].mode = sft[h].mode, u[h].dirty = sft[h].dirty, InFile(u[h], Q, sft[h].slot)
    PROVE  FilesOk(u, D, Q)
<1>1. PICK o : o = sft[h].slot
  OBVIOUS
<1>2. o \in Slot /\ D[o].kind = "file" /\ h \in At(sft, o) /\ FileOk(sft, D[o], Q, o)
  BY <1>1, InItsFile
<1>3. At(u, o) = At(sft, o)
  BY <1>1 DEF At
<1>4. \A k \in At(sft, o) : /\ u[k].start = sft[k].start /\ u[k].size = sft[k].size /\ u[k].mode = sft[k].mode
                            /\ u[k].dirty = sft[k].dirty /\ InFile(u[k], Q, o)
  <2>1. \A k \in At(sft, o) : k \in Fd /\ InFile(sft[k], Q, o)
    BY <1>2 DEF FileOk, At
  <2>2. QED
    BY <2>1, <1>1
<1>5. FileOk(u, D[o], Q, o)
  BY <1>2, <1>3, <1>4, FileAlike
<1>6. SameSfts(u, sft, o)
  BY <1>1 DEF SameSfts
<1>7. SameFiles(D, D, Q, Q, o)
  BY DEF SameFiles, SameEntry
<1>8. QED
  BY <1>2, <1>5, <1>6, <1>7, OneFile

(* A seek. *)
LEMMA SeekFiles ==
    ASSUME CountInv, NEW D, NEW Q \in Owners, FilesOk(sft, D, Q), NEW h \in Fd, NEW off \in Seeks, Seek(h, off)
    PROVE  FilesOk(sft', D, Q)
<1>1. sft[h].open /\ sft' = [sft EXCEPT ![h].posit = off] /\ off <= MaxOffset
  BY FatAssumption DEF Seek
<1>2. sft \in Sfts
  BY DEF CountInv, TypeInv, Sfts
<1>3. sft[h] \in OpenFile /\ InFile(sft[h], Q, sft[h].slot)
  BY <1>1, InItsFile
<1>4. PICK x : x = [sft[h] EXCEPT !.posit = off]
  OBVIOUS
<1>5. sft'[h] = x /\ \A k \in Fd : k # h => sft'[k] = sft[k]
  BY <1>1, <1>2, <1>4 DEF Sfts
<1>6. /\ x.open = sft[h].open /\ x.slot = sft[h].slot /\ x.mode = sft[h].mode /\ x.start = sft[h].start
      /\ x.size = sft[h].size /\ x.posit = off /\ x.cu = sft[h].cu /\ x.rel = sft[h].rel /\ x.dirty = sft[h].dirty
  BY <1>3, <1>4 DEF OpenFile
<1>7. SamePlace(x, sft[h])
  BY <1>6 DEF SamePlace
<1>8. InFile(x, Q, sft[h].slot)
  BY <1>1, <1>3, <1>6, <1>7, PlaceStays DEF InFile
<1>9. QED
  BY <1>1, <1>5, <1>6, <1>8, OneSft

(* A file date. *)
LEMMA SetFtimeFiles ==
    ASSUME CountInv, NEW D, NEW Q \in Owners, FilesOk(sft, D, Q), NEW h \in Fd, SetFtime(h)
    PROVE  FilesOk(sft', D, Q)
<1>1. sft[h].open /\ sft' = [sft EXCEPT ![h].fdate = TRUE]
  BY DEF SetFtime
<1>2. sft \in Sfts
  BY DEF CountInv, TypeInv, Sfts
<1>3. sft[h] \in OpenFile /\ InFile(sft[h], Q, sft[h].slot)
  BY <1>1, InItsFile
<1>4. PICK x : x = [sft[h] EXCEPT !.fdate = TRUE]
  OBVIOUS
<1>5. sft'[h] = x /\ \A k \in Fd : k # h => sft'[k] = sft[k]
  BY <1>1, <1>2, <1>4 DEF Sfts
<1>6. /\ x.open = sft[h].open /\ x.slot = sft[h].slot /\ x.mode = sft[h].mode /\ x.start = sft[h].start
      /\ x.size = sft[h].size /\ x.posit = sft[h].posit /\ x.cu = sft[h].cu /\ x.rel = sft[h].rel
      /\ x.dirty = sft[h].dirty
  BY <1>3, <1>4 DEF OpenFile
<1>7. SamePlace(x, sft[h])
  BY <1>6 DEF SamePlace
<1>8. InFile(x, Q, sft[h].slot)
  BY <1>3, <1>6, <1>7, PlaceStays DEF InFile
<1>9. QED
  BY <1>1, <1>5, <1>6, <1>8, OneSft

(* The fnode of a call is where the SFT is. *)
LEMMA LoadIs ==
    ASSUME CountInv, NEW D, NEW Q \in Owners, FilesOk(sft, D, Q), NEW h \in Fd, sft[h].open, NEW n \in Int
    PROVE  /\ Load(h, n) \in Good /\ SamePlace(Load(h, n), sft[h]) /\ Load(h, n).size = sft[h].size
           /\ Load(h, n).off = sft[h].posit /\ Load(h, n).fat = fat /\ Load(h, n).dirent = dirent
           /\ Load(h, n).ok = TRUE /\ Load(h, n).broken = FALSE /\ Load(h, n).shared = <<>>
           /\ Load(h, n).size <= MaxOffset /\ Load(h, n).off <= MaxOffset /\ FileAt(Load(h, n), Q, sft[h].slot)
           /\ sft[h].mode = "rw" => WriterAt(Load(h, n), Q, sft[h].slot)
<1>1. Load(h, n) \in Good
  BY LoadGood
<1>2. /\ SamePlace(Load(h, n), sft[h]) /\ Load(h, n).size = sft[h].size /\ Load(h, n).off = sft[h].posit
      /\ Load(h, n).fat = fat /\ Load(h, n).dirent = dirent
      /\ Load(h, n).ok = TRUE /\ Load(h, n).broken = FALSE /\ Load(h, n).shared = <<>>
  BY DEF Load, Table, SamePlace
<1>3. InFile(sft[h], Q, sft[h].slot)
  BY InItsFile
<1>4. FileAt(Load(h, n), Q, sft[h].slot) /\ (sft[h].mode = "rw" => WriterAt(Load(h, n), Q, sft[h].slot))
  BY <1>2, <1>3, PlaceStays DEF InFile
<1>5. QED
  BY <1>1, <1>2, <1>3, <1>4 DEF InFile

(* A read. *)
LEMMA ReadFiles ==
    ASSUME CountInv, NEW D, NEW Q \in Owners, Laid(fat, Q), FilesOk(sft, D, Q), NEW h \in Fd, NEW n \in WriteCounts, Read(h, n)
    PROVE  FilesOk(sft', D, Q)
<1>1. PICK V : V = Load(h, 0)
  OBVIOUS
<1>2. sft[h].open /\ sft' = Save(h, Reads(V, n), FALSE) /\ n \in Nat
  BY <1>1, FatAssumption DEF Read, Reads
<1>3. /\ V \in Good /\ SamePlace(V, sft[h]) /\ V.size = sft[h].size /\ V.fat = fat /\ V.shared = <<>>
      /\ V.size <= MaxOffset /\ V.off <= MaxOffset /\ FileAt(V, Q, sft[h].slot)
  <2>1. 0 \in Int
    OBVIOUS
  <2>2. QED
    BY <1>1, <1>2, <2>1, LoadIs
<1>4. sft[h].slot \in Slot /\ InFile(sft[h], Q, sft[h].slot)
  BY <1>2, InItsFile
<1>5. PICK X : X = Reads(V, n)
  OBVIOUS
<1>6. HasRead(X, V, Q, sft[h].slot)
  BY <1>2, <1>3, <1>4, <1>5, ReadsLook
<1>7. X \in Good /\ FALSE \in BOOLEAN
  BY <1>6 DEF HasRead
<1>8. /\ sft'[h].open /\ sft'[h].slot = sft[h].slot /\ sft'[h].mode = sft[h].mode
      /\ sft'[h].start = X.start /\ sft'[h].size = X.size /\ sft'[h].posit = X.off
      /\ sft'[h].cu = X.cu /\ sft'[h].rel = X.rel /\ sft'[h].dirty = sft[h].dirty
  <2>1. sft'[h].dirty = (sft[h].dirty \/ FALSE)
    BY <1>2, <1>5, <1>7, SaveIs
  <2>2. sft[h] \in OpenFile
    BY <1>2, InItsFile
  <2>3. sft[h].dirty \in BOOLEAN
    BY <2>2 DEF OpenFile
  <2>4. sft'[h].dirty = sft[h].dirty
    BY <2>1, <2>3
  <2>5. QED
    BY <1>2, <1>5, <1>7, <2>4, SaveIs
<1>9. \A k \in Fd : k # h => sft'[k] = sft[k]
  <2>1. ASSUME NEW k \in Fd, k # h
        PROVE  sft'[k] = sft[k]
    <3>1. CASE k \in At(sft, sft[h].slot)
      <4>1. sft'[k] = Told(sft[k], X) /\ sft[k] \in OpenFile
        BY <1>2, <1>5, <1>7, <2>1, <3>1, SaveTells
      <4>2. X.shared = <<>>
        BY <1>3, <1>6 DEF HasRead
      <4>3. QED
        BY <1>7, <4>1, <4>2, ToldIs
    <3>2. CASE k \notin At(sft, sft[h].slot)
      BY <1>2, <1>5, <1>7, <3>2, SaveElsewhere
    <3>3. QED
      BY <3>1, <3>2
  <2>2. QED
    BY <2>1
<1>10. X.start = sft[h].start /\ X.size = sft[h].size
  BY <1>3, <1>6 DEF HasRead, SamePlace
<1>11. InFile(sft'[h], Q, sft[h].slot)
  <2>1. SamePlace(sft'[h], X)
    BY <1>8 DEF SamePlace
  <2>2. FileAt(sft'[h], Q, sft[h].slot)
    BY <1>6, <2>1, PlaceStays DEF HasRead
  <2>3. X.cu = FREE <=> sft[h].cu = FREE
    BY <1>3, <1>6 DEF HasRead, SamePlace
  <2>4. sft'[h].mode = "rw" => WriterAt(sft'[h], Q, sft[h].slot)
    BY <1>4, <1>8, <1>10, <2>2, <2>3 DEF InFile, WriterAt
  <2>5. X.off <= MaxOffset
    BY <1>6 DEF HasRead
  <2>6. QED
    BY <1>4, <1>8, <1>10, <2>2, <2>4, <2>5 DEF InFile
<1>12. QED
  BY <1>2, <1>8, <1>9, <1>10, <1>11, OneSft

(* One who writes to a file. *)
LEMMA WriterIs ==
    ASSUME NEW s \in Slot, Writers(s) # {}
    PROVE  Lowest(Writers(s)) \in At(sft, s) /\ sft[Lowest(Writers(s))].mode = "rw"
<1>1. Writers(s) \subseteq Fd
  BY DEF Writers, OpenAt, OpenFds
<1>2. Writers(s) \subseteq Nat
  BY <1>1, FatAssumption
<1>3. Lowest(Writers(s)) \in Writers(s)
  BY <1>2, LowestIn
<1>4. QED
  BY <1>3 DEF Writers, OpenAt, OpenFds, At

(* The start and the size of a file, from one who writes or the directory. *)
LEMMA CollectIs ==
    ASSUME NEW Q, NEW s \in Slot, FileOk(sft, dirent[s], Q, s)
    PROVE  /\ CollectFrom(s).start = StartIn(Q[s]) /\ CollectFrom(s).size <= MaxOffset
           /\ \A k \in At(sft, s) : sft[k].size = CollectFrom(s).size
           /\ (\A k \in At(sft, s) : ~sft[k].dirty) =>
                  dirent[s].start = CollectFrom(s).start /\ dirent[s].size = CollectFrom(s).size
<1>1. CASE Writers(s) = {}
  <2>1. CollectFrom(s) = dirent[s]
    BY <1>1 DEF CollectFrom
  <2>2. \A k \in At(sft, s) : ~sft[k].dirty
    BY <1>1 DEF FileOk, InFile, Writers, OpenAt, OpenFds, At
  <2>3. /\ dirent[s].start = StartIn(Q[s]) /\ dirent[s].size <= MaxOffset
        /\ \A k \in At(sft, s) : sft[k].size = dirent[s].size
    BY <2>2 DEF FileOk, Written
  <2>4. QED
    BY <2>1, <2>3
<1>2. CASE Writers(s) # {}
  <2>1. PICK w : w = Lowest(Writers(s))
    OBVIOUS
  <2>2. w \in At(sft, s) /\ sft[w].mode = "rw"
    BY <1>2, <2>1, WriterIs
  <2>3. CollectFrom(s) = sft[w]
    BY <1>2, <2>1 DEF CollectFrom
  <2>4. sft[w].start = StartIn(Q[s]) /\ sft[w].size <= MaxOffset
    BY <2>2 DEF FileOk, InFile, WriterAt
  <2>5. \A k \in At(sft, s) : sft[k].size = sft[w].size
    BY <2>2 DEF FileOk, Agreeing
  <2>6. (\A k \in At(sft, s) : ~sft[k].dirty) => dirent[s].start = sft[w].start /\ dirent[s].size = sft[w].size
    BY <2>2 DEF FileOk, Written
  <2>7. QED
    BY <2>3, <2>4, <2>5, <2>6
<1>3. QED
  BY <1>1, <1>2

(* An open. *)
LEMMA OpenFiles ==
    ASSUME CountInv, NEW Q \in Owners, FilesOk(sft, dirent, Q), NEW h \in Fd, NEW p, NEW m \in {"r", "rw"}, Open(h, p, m),
           ~SharedWriters
    PROVE  FilesOk(sft', dirent, Q)
<1>1. PICK s : /\ s = find_fname(Table(0), p) /\ IsFile(s) /\ ShareAllows(s, m)
               /\ sft' = [sft EXCEPT ![h] = NewFile(s, m, CollectFrom(s).start, CollectFrom(s).size)]
  BY DEF Open
<1>2. s \in Slot /\ dirent[s].kind = "file"
  <2>1. 0 \in Int
    OBVIOUS
  <2>2. QED
    BY <1>1, <2>1, FoundIsSlot DEF IsFile
<1>3. ~sft[h].open
  BY DEF Open, get_free_sft
<1>4. FileOk(sft, dirent[s], Q, s)
  BY <1>2 DEF FilesOk
<1>5. PICK c, z : c = CollectFrom(s).start /\ z = CollectFrom(s).size
  OBVIOUS
<1>6. /\ c = StartIn(Q[s]) /\ z <= MaxOffset /\ \A k \in At(sft, s) : sft[k].size = z
      /\ (\A k \in At(sft, s) : ~sft[k].dirty) => dirent[s].start = c /\ dirent[s].size = z
  BY <1>4, <1>2, <1>5, CollectIs
<1>7. sft \in Sfts
  BY DEF CountInv, TypeInv, Sfts
<1>8. sft'[h] = NewFile(s, m, c, z) /\ \A k \in Fd : k # h => sft'[k] = sft[k]
  BY <1>1, <1>5, <1>7 DEF Sfts
<1>9. sft'[h].open /\ sft'[h].slot = s
  BY <1>8 DEF NewFile
<1>10. h \notin At(sft, s) /\ At(sft', s) = At(sft, s) \cup {h}
  BY <1>3, <1>8, <1>9 DEF At
<1>11. m = "rw" => \A k \in At(sft, s) : sft[k].mode # "rw"
  BY <1>1 DEF ShareAllows, Writers, OpenAt, OpenFds, At
<1>12. \A k \in At(sft, s) : sft'[k] = sft[k]
  BY <1>8, <1>10 DEF At
<1>13. FileOk(sft', dirent[s], Q, s)
  BY <1>2, <1>4, <1>6, <1>8, <1>10, <1>11, <1>12, FileOpened
<1>14. SameSfts(sft', sft, s)
  BY <1>3, <1>8, <1>9 DEF SameSfts
<1>15. SameFiles(dirent, dirent, Q, Q, s)
  BY DEF SameFiles, SameEntry
<1>16. QED
  BY <1>2, <1>13, <1>14, <1>15, OneFile

(* What a commit writes into the directory. *)
LEMMA FlushedIs ==
    ASSUME CountInv, NEW h \in Fd, sft[h].open, NEW o \in Slot, o = sft[h].slot
    PROVE  /\ Flushed(h) \in Good /\ Flushed(h).fat = fat /\ Flushed(h).broken = FALSE
           /\ Flushed(h).dirent \in [Slot -> DirEntry]
           /\ \A s \in Slot : s # o => Flushed(h).dirent[s] = dirent[s]
           /\ Flushed(h).dirent[o].kind = dirent[o].kind /\ Flushed(h).dirent[o].name = dirent[o].name
           /\ IF sft[h].dirty \/ sft[h].fdate
              THEN Flushed(h).dirent[o].start = sft[h].start /\ Flushed(h).dirent[o].size = sft[h].size
              ELSE Flushed(h).dirent[o] = dirent[o]
<1>1. dirent \in [Slot -> DirEntry] /\ dirent[o] \in DirEntry
  BY DEF CountInv, TypeInv
<1>2. sft[h] \in OpenFile
  BY OpenIsFile DEF CountInv
<1>3. PICK c, z : c = sft[h].start /\ z = sft[h].size
  OBVIOUS
<1>4. PICK e : e = [dirent[o] EXCEPT !.start = c, !.size = z]
  OBVIOUS
<1>5. /\ e.kind = dirent[o].kind /\ e.name = dirent[o].name /\ e.start = c /\ e.size = z
      /\ e = [kind |-> dirent[o].kind, name |-> dirent[o].name, start |-> c, size |-> z]
  BY <1>1, <1>4 DEF DirEntry
<1>6. c \in Start /\ z \in Nat
  BY <1>2, <1>3 DEF OpenFile
<1>7. e \in DirEntry
  BY <1>1, <1>5, <1>6 DEF DirEntry
<1>8. PICK x : x = IF sft[h].dirty \/ sft[h].fdate THEN e ELSE dirent[o]
  OBVIOUS
<1>9. Flushed(h) = dir_write(Table(0), o, x) /\ x \in DirEntry
  BY <1>1, <1>3, <1>4, <1>7, <1>8 DEF Flushed, Updated
<1>10. PICK T : T = Table(0)
  OBVIOUS
<1>11. T \in Good
  <2>1. 0 \in Int
    OBVIOUS
  <2>2. QED
    BY <1>10, <2>1, TableGood
<1>12. T.fat = fat /\ T.broken = FALSE /\ T.dirent = dirent
  BY <1>10 DEF Table
<1>13. PICK d : d = [dirent EXCEPT ![o] = x]
  OBVIOUS
<1>14. d \in [Slot -> DirEntry] /\ d[o] = x /\ \A s \in Slot : s # o => d[s] = dirent[s]
  BY <1>1, <1>9, <1>13
<1>15. Flushed(h) = [T EXCEPT !.dirent = d]
  BY <1>9, <1>10, <1>11, <1>12, <1>13 DEF dir_write, Good, Work
<1>16. /\ Flushed(h) \in Good /\ Flushed(h).fat = fat /\ Flushed(h).broken = FALSE /\ Flushed(h).dirent = d
  BY <1>11, <1>12, <1>14, <1>15, EntriesGood DEF Good, Work
<1>17. QED
  BY <1>3, <1>5, <1>8, <1>14, <1>16

(* The work of a commit tells the others what the SFT holds. *)
LEMMA TellsAll ==
    ASSUME CountInv, NEW Q \in Owners, FilesOk(sft, dirent, Q), NEW h \in Fd, sft[h].open, sft[h].dirty,
           NEW k \in At(sft, sft[h].slot), k # h
    PROVE  /\ AfterClose(h, Load(h, 0))[k].open /\ AfterClose(h, Load(h, 0))[k].slot = sft[h].slot
           /\ AfterClose(h, Load(h, 0))[k].mode # "rw" /\ ~AfterClose(h, Load(h, 0))[k].dirty
           /\ AfterClose(h, Load(h, 0))[k].start = sft[h].start /\ AfterClose(h, Load(h, 0))[k].size = sft[h].size
           /\ InFile(AfterClose(h, Load(h, 0))[k], Q, sft[h].slot)
<1>1. PICK o : o = sft[h].slot
  OBVIOUS
<1>2. PICK V : V = Load(h, 0)
  OBVIOUS
<1>3. /\ V \in Good /\ SamePlace(V, sft[h]) /\ V.size = sft[h].size
  <2>1. 0 \in Int
    OBVIOUS
  <2>2. QED
    BY <1>2, <2>1, LoadIs
<1>4. Merge(V) \in Good
  BY <1>3, MergeGood
<1>5. Merge(V).shared = <<V.start, V.size>> /\ Merge(V).shared # <<>>
  BY <1>3 DEF Merge, Good, Work
<1>6. k \in Fd /\ sft[k].open /\ sft[k].slot = o /\ sft[k] \in OpenFile
  BY <1>1, OpenIsFile DEF CountInv, At
<1>7. AfterClose(h, V)[k] = Told(sft[k], Merge(V))
  BY <1>6, <1>1 DEF AfterClose, Distributed, OpenAt, OpenFds
<1>8. PICK x : x = Told(sft[k], Merge(V))
  OBVIOUS
<1>9. x.start = V.start /\ x.size = V.size /\ SameFd(x, sft[k])
  <2>1. PICK M, a, z, e : M = Merge(V) /\ a = V.start /\ z = V.size /\ e = sft[k]
    OBVIOUS
  <2>2. M \in Good /\ M.shared = <<a, z>> /\ M.shared # <<>> /\ e \in OpenFile /\ x = Told(e, M)
    BY <2>1, <1>4, <1>5, <1>6, <1>8
  <2>3. Told(e, M).start = a /\ Told(e, M).size = z /\ SameFd(Told(e, M), e)
    BY <2>2, ToldIs
  <2>4. QED
    BY <2>1, <2>2, <2>3
<1>10. /\ o \in Slot /\ h \in At(sft, o) /\ FileOk(sft, dirent[o], Q, o) /\ InFile(sft[h], Q, o)
       /\ sft[h].mode = "rw"
  BY <1>1, InItsFile DEF InFile
<1>11. sft[k].mode # "rw" /\ InFile(sft[k], Q, o) /\ ~sft[k].dirty
  BY <1>1, <1>10 DEF FileOk, Agreeing, InFile
<1>12. V.start = StartIn(Q[o]) /\ V.size <= MaxOffset
  BY <1>3, <1>10 DEF InFile, WriterAt, SamePlace
<1>13. FileAt(x, Q, o)
  BY <1>9, <1>11, <1>12 DEF InFile, FileAt, SameFd
<1>14. InFile(x, Q, o)
  BY <1>9, <1>11, <1>12, <1>13 DEF InFile, SameFd
<1>15. QED
  BY <1>1, <1>2, <1>3, <1>6, <1>7, <1>8, <1>9, <1>11, <1>14, ZenonT(30) DEF SameFd, SamePlace

(* The SFTs after a commit. *)
LEMMA AfterCloseIs ==
    ASSUME CountInv, NEW h \in Fd, sft[h].open
    PROVE  /\ AfterClose(h, Load(h, 0)) \in Sfts /\ AfterClose(h, Load(h, 0))[h] = sft[h]
           /\ \A k \in Fd : k \notin At(sft, sft[h].slot) => AfterClose(h, Load(h, 0))[k] = sft[k]
           /\ ~sft[h].dirty => AfterClose(h, Load(h, 0)) = sft
<1>1. AfterClose(h, Load(h, 0)) \in Sfts
  BY AfterCloseType
<1>2. PICK M : M = Merge(Load(h, 0))
  OBVIOUS
<1>3. CASE sft[h].dirty
  <2>1. AfterClose(h, Load(h, 0)) = Distributed(M, h)
    BY <1>2, <1>3 DEF AfterClose
  <2>2. Distributed(M, h)[h] = sft[h]
    BY DistributedSelf
  <2>3. \A k \in Fd : k \notin At(sft, sft[h].slot) => Distributed(M, h)[k] = sft[k]
    BY DEF Distributed, At, OpenAt, OpenFds
  <2>4. QED
    BY <1>1, <1>3, <2>1, <2>2, <2>3
<1>4. CASE ~sft[h].dirty
  BY <1>1, <1>4 DEF AfterClose
<1>5. QED
  BY <1>3, <1>4

(* A file that is closed. *)
LEMMA ClosedFile ==
    ASSUME CountInv, NEW Q \in Owners, FilesOk(sft, dirent, Q), NEW h \in Fd, sft[h].open,
           NEW A, A = AfterClose(h, Load(h, 0)), NEW u, u = [A EXCEPT ![h] = Closed], NEW o \in Slot, o = sft[h].slot
    PROVE  FileOk(u, Flushed(h).dirent[o], Q, o)
<1>1. A \in Sfts /\ A[h] = sft[h] /\ (~sft[h].dirty => A = sft)
  BY AfterCloseIs
<1>2. ~u[h].open /\ \A k \in Fd : k # h => u[k] = A[k]
  BY <1>1 DEF Sfts, Closed
<1>3. h \in At(sft, o) /\ FileOk(sft, dirent[o], Q, o) /\ InFile(sft[h], Q, o)
  BY InItsFile
<1>4. PICK e : e = Flushed(h).dirent[o]
  OBVIOUS
<1>5. IF sft[h].dirty \/ sft[h].fdate THEN e.start = sft[h].start /\ e.size = sft[h].size ELSE e = dirent[o]
  BY <1>4, FlushedIs
<1>6. CASE sft[h].dirty
  <2>1. ASSUME NEW k \in Fd, k # h, k \in At(sft, o)
        PROVE  /\ u[k].open /\ u[k].slot = o /\ u[k].mode # "rw" /\ ~u[k].dirty /\ u[k].start = sft[h].start
               /\ u[k].size = sft[h].size /\ InFile(u[k], Q, o)
    BY <1>2, <1>6, <2>1, TellsAll
  <2>2. \A k \in At(u, o) : k \in Fd /\ k # h /\ k \in At(sft, o)
    <3>1. \A k \in Fd : k \notin At(sft, o) => A[k] = sft[k]
      BY AfterCloseIs
    <3>2. QED
      BY <1>2, <3>1 DEF At
  <2>3. \A k \in At(u, o) : InFile(u[k], Q, o)
    BY <2>1, <2>2
  <2>4. Agreeing(u, o)
    BY <2>1, <2>2 DEF Agreeing
  <2>5. e.start = StartIn(Q[o]) /\ e.size <= MaxOffset
    BY <1>3, <1>5, <1>6 DEF InFile, WriterAt
  <2>6. Written(u, e, Q, o)
    BY <1>5, <1>6, <2>1, <2>2, <2>5 DEF Written
  <2>7. QED
    BY <1>4, <2>3, <2>4, <2>6 DEF FileOk
<1>7. CASE ~sft[h].dirty
  <2>1. \A k \in Fd : k # h => u[k] = sft[k]
    BY <1>1, <1>2, <1>7
  <2>2. \A k \in At(u, o) : k \in At(sft, o) /\ k # h /\ u[k] = sft[k]
    BY <1>2, <2>1 DEF At
  <2>3. \A k \in At(sft, o) : k # h => k \in At(u, o)
    BY <2>1 DEF At
  <2>4. \A k \in At(u, o) : InFile(u[k], Q, o)
    BY <1>3, <2>2 DEF FileOk
  <2>5. Agreeing(u, o)
    BY <1>3, <2>2 DEF FileOk, Agreeing
  <2>6. ASSUME \A k \in At(u, o) : ~u[k].dirty
        PROVE  /\ e.start = StartIn(Q[o]) /\ e.size <= MaxOffset
               /\ \A k \in At(u, o) : u[k].start = e.start /\ u[k].size = e.size
    <3>1. \A k \in At(sft, o) : ~sft[k].dirty
      BY <1>7, <2>2, <2>3, <2>6
    <3>2. /\ dirent[o].start = StartIn(Q[o]) /\ dirent[o].size <= MaxOffset
          /\ \A k \in At(sft, o) : sft[k].start = dirent[o].start /\ sft[k].size = dirent[o].size
      BY <1>3, <3>1 DEF FileOk, Written
    <3>3. e.start = dirent[o].start /\ e.size = dirent[o].size
      BY <1>3, <1>5, <3>2
    <3>4. QED
      BY <2>2, <3>2, <3>3
  <2>7. Written(u, e, Q, o)
    BY <2>6 DEF Written
  <2>8. QED
    BY <1>4, <2>4, <2>5, <2>7 DEF FileOk
<1>8. QED
  BY <1>6, <1>7

(* A file that is committed. *)
LEMMA CommittedFile ==
    ASSUME CountInv, NEW Q \in Owners, FilesOk(sft, dirent, Q), NEW h \in Fd, sft[h].open, sft[h].dirty,
           NEW A, A = AfterClose(h, Load(h, 0)), NEW o \in Slot, o = sft[h].slot, NEW e
    PROVE  FileOk(A, e, Q, o)
<1>1. A[h] = sft[h]
  BY AfterCloseIs
<1>2. h \in At(sft, o) /\ FileOk(sft, dirent[o], Q, o) /\ InFile(sft[h], Q, o)
  BY InItsFile
<1>3. ASSUME NEW k \in Fd, k # h, k \in At(sft, o)
      PROVE  /\ A[k].open /\ A[k].slot = o /\ A[k].mode # "rw" /\ A[k].size = sft[h].size /\ InFile(A[k], Q, o)
  BY <1>3, TellsAll
<1>4. \A k \in At(A, o) : k \in Fd /\ k \in At(sft, o)
  <2>1. \A k \in Fd : k \notin At(sft, o) => A[k] = sft[k]
    BY AfterCloseIs
  <2>2. QED
    BY <2>1 DEF At
<1>5. h \in At(A, o)
  BY <1>1, <1>2 DEF At
<1>6. \A k \in At(A, o) : InFile(A[k], Q, o)
  BY <1>1, <1>2, <1>3, <1>4
<1>7. Agreeing(A, o)
  BY <1>1, <1>3, <1>4 DEF Agreeing
<1>8. Written(A, e, Q, o)
  BY <1>1, <1>5 DEF Written
<1>9. QED
  BY <1>6, <1>7, <1>8 DEF FileOk

(* A close and a commit. *)
LEMMA CloseFiles ==
    ASSUME CountInv, NEW Q \in Owners, FilesOk(sft, dirent, Q), NEW h \in Fd, Close(h) \/ DosCommit(h)
    PROVE  FilesOk(sft', Flushed(h).dirent, Q)
<1>1. sft[h].open
  BY DEF Close, DosCommit
<1>2. PICK o : o = sft[h].slot
  OBVIOUS
<1>3. o \in Slot /\ dirent[o].kind = "file"
  BY <1>1, <1>2, InItsFile
<1>4. PICK E : E = Flushed(h).dirent
  OBVIOUS
<1>5. E[o].kind = "file" /\ \A s \in Slot : s # o => E[s] = dirent[s]
  BY <1>1, <1>2, <1>3, <1>4, FlushedIs
<1>6. SameFiles(E, dirent, Q, Q, o)
  BY <1>5 DEF SameFiles, SameEntry
<1>7. PICK A : A = AfterClose(h, Load(h, 0))
  OBVIOUS
<1>8. A \in Sfts /\ A[h] = sft[h] /\ \A k \in Fd : k \notin At(sft, o) => A[k] = sft[k]
  BY <1>1, <1>2, <1>7, AfterCloseIs
<1>9. \A k \in Fd : k # h /\ k \in At(sft, o) /\ sft[h].dirty => A[k].slot = o
  BY <1>1, <1>2, <1>7, TellsAll
<1>10. \A k \in Fd : k \in At(sft, o) => A[k].slot = o /\ sft[k].slot = o
  <2>1. ~sft[h].dirty => A = sft
    BY <1>1, <1>7, AfterCloseIs
  <2>2. QED
    BY <1>2, <1>8, <1>9, <2>1 DEF At
<1>11. CASE Close(h)
  <2>1. sft' = [A EXCEPT ![h] = Closed]
    BY <1>7, <1>11 DEF Close
  <2>2. FileOk(sft', E[o], Q, o)
    BY <1>1, <1>2, <1>3, <1>4, <1>7, <2>1, ClosedFile
  <2>3. ~sft'[h].open /\ \A k \in Fd : k # h => sft'[k] = A[k]
    BY <1>8, <2>1 DEF Sfts, Closed
  <2>4. SameSfts(sft', sft, o)
    BY <1>2, <1>8, <1>10, <2>3 DEF SameSfts
  <2>5. QED
    BY <1>3, <1>4, <1>5, <1>6, <2>2, <2>4, OneFile
<1>12. CASE DosCommit(h)
  <2>1. sft' = A /\ sft[h].dirty
    BY <1>7, <1>12 DEF DosCommit
  <2>2. FileOk(sft', E[o], Q, o)
    BY <1>1, <1>2, <1>3, <1>7, <2>1, CommittedFile
  <2>3. SameSfts(sft', sft, o)
    BY <1>8, <1>10, <2>1 DEF SameSfts
  <2>4. QED
    BY <1>3, <1>4, <1>5, <1>6, <2>2, <2>3, OneFile
<1>13. QED
  BY <1>11, <1>12

(* All chains but one, and all that are not of files, are as they were. *)
SameBut(P, Q, o) == \A s \in Slot : s # o => P[s] = Q[s]
NoneMoved(P, Q)  == \A s \in Slot : dirent[s].kind # "file" => P[s] = Q[s]

(* What a call has made of the chains of the files; it left the directory. *)
FileWork(W, P, Q) ==
    /\ W \in Good /\ P \in Owners /\ Sound(W, P, failed) /\ W.dirent = dirent
    /\ NoneMoved(P, Q)

(* The chains and the files of the disk. *)
Holds(Q) == Laid(fat, Q) /\ (failed \/ Whole(fat, Q)) /\ FilesOk(sft, dirent, Q)

(* A call on a file begins. *)
LEMMA LoadFiled ==
    ASSUME CountInv, NEW Q \in Owners, Holds(Q), NEW h \in Fd, sft[h].open, sft[h].mode = "rw", NEW n \in Int
    PROVE  Filed(Load(h, n), Q, Q, sft[h].slot, failed, sft[h].size, dirent)
<1>1. FilesOk(sft, dirent, Q)
  BY DEF Holds
<1>2. PICK V : V = Load(h, n)
  OBVIOUS
<1>3. PICK o : o = sft[h].slot
  OBVIOUS
<1>4. /\ V \in Good /\ V.size = sft[h].size /\ V.fat = fat /\ V.dirent = dirent /\ V.shared = <<>>
      /\ V.size <= MaxOffset /\ V.off <= MaxOffset /\ WriterAt(V, Q, o)
  BY <1>1, <1>2, <1>3, LoadIs
<1>5. o \in Slot
  BY <1>1, <1>3, InItsFile
<1>6. Sound(V, Q, failed)
  BY <1>4 DEF Sound, Holds
<1>7. Longer(Q, Q, o)
  BY <1>5, LongerSame
<1>8. Tells(V, sft[h].size)
  BY <1>4 DEF Tells
<1>9. QED
  BY <1>2, <1>3, <1>4, <1>6, <1>7, <1>8 DEF Filed

(* A file that a call has made longer, or cut: the others are as they were. *)
LEMMA FileDone ==
    ASSUME CountInv, NEW Q \in Owners, Holds(Q), NEW h \in Fd, sft[h].open, NEW o \in Slot, o = sft[h].slot,
           NEW P \in Owners, SameBut(P, Q, o), NEW u, FileOk(u, dirent[o], P, o),
           \A k \in Fd : k \notin At(sft, o) => u[k] = sft[k],
           \A k \in Fd : k \in At(sft, o) /\ u[k].open => u[k].slot = o
    PROVE  FilesOk(u, dirent, P) /\ NoneMoved(P, Q)
<1>1. FilesOk(sft, dirent, Q)
  BY DEF Holds
<1>2. dirent[o].kind = "file"
  BY <1>1, InItsFile
<1>3. SameFiles(dirent, dirent, P, Q, o)
  BY DEF SameFiles, SameEntry, SameBut
<1>4. SameSfts(u, sft, o)
  BY DEF SameSfts, At
<1>5. FilesOk(u, dirent, P)
  BY <1>1, <1>2, <1>3, <1>4, OneFile
<1>6. QED
  BY <1>2, <1>5 DEF SameBut, NoneMoved

(* The SFTs after a save, for the file and the others. *)
LEMMA SavedDone ==
    ASSUME CountInv, NEW Q \in Owners, Holds(Q), NEW h \in Fd, sft[h].open, NEW o \in Slot, o = sft[h].slot,
           NEW W \in Good, NEW P \in Owners, SameBut(P, Q, o), FileOk(Save(h, W, TRUE), dirent[o], P, o)
    PROVE  FilesOk(Save(h, W, TRUE), dirent, P) /\ NoneMoved(P, Q)
<1>1. PICK S : S = Save(h, W, TRUE)
  OBVIOUS
<1>2. TRUE \in BOOLEAN
  OBVIOUS
<1>3. \A k \in Fd : k \notin At(sft, o) => S[k] = sft[k]
  BY <1>1, <1>2, SaveElsewhere, ZenonT(30)
<1>4. \A k \in Fd : k \in At(sft, o) /\ S[k].open => S[k].slot = o
  <2>1. \A k \in Fd : sft[k].open => S[k].slot = sft[k].slot
    BY <1>1, <1>2, SaveElsewhere
  <2>2. QED
    BY <2>1 DEF At
<1>5. FileOk(S, dirent[o], P, o)
  BY <1>1
<1>6. FilesOk(S, dirent, P) /\ NoneMoved(P, Q)
  BY <1>3, <1>4, <1>5, FileDone
<1>7. QED
  BY <1>1, <1>6

(* A write, done or not: the work and the SFTs it leaves. *)
LEMMA FiledDone ==
    ASSUME CountInv, NEW Q \in Owners, Holds(Q), NEW h \in Fd, sft[h].open, sft[h].mode = "rw",
           NEW W, NEW P, Filed(W, P, Q, sft[h].slot, failed, sft[h].size, dirent)
    PROVE  FileWork(W, P, Q) /\ FilesOk(Save(h, W, TRUE), dirent, P)
<1>1. PICK o : o = sft[h].slot
  OBVIOUS
<1>2. FilesOk(sft, dirent, Q)
  BY DEF Holds
<1>3. o \in Slot
  BY <1>1, <1>2, InItsFile
<1>4. W \in Good /\ P \in Owners /\ Sound(W, P, failed) /\ W.dirent = dirent /\ SameBut(P, Q, o)
  BY <1>1 DEF Filed, Longer, SameBut
<1>5. FileOk(Save(h, W, TRUE), dirent[o], P, o)
  <2>1. PICK D, e, z, b : D = dirent /\ e = dirent[o] /\ z = sft[h].size /\ b = failed
    OBVIOUS
  <2>2. FilesOk(sft, D, Q) /\ Filed(W, P, Q, sft[h].slot, b, sft[h].size, D)
    BY <1>2, <2>1
  <2>3. FileOk(Save(h, W, TRUE), e, P, sft[h].slot)
    BY <2>2, SavedWrite
  <2>4. QED
    BY <1>1, <2>1, <2>3
<1>6. FilesOk(Save(h, W, TRUE), dirent, P) /\ NoneMoved(P, Q)
  BY <1>1, <1>3, <1>4, <1>5, SavedDone
<1>7. QED
  BY <1>4, <1>6 DEF FileWork

(* A write. *)
LEMMA WriteFiles ==
    ASSUME CountInv, NEW Q \in Owners, Holds(Q), NEW h \in Fd, NEW count \in WriteCounts, NEW n \in LinkBounds,
           Write(h, count, n)
    PROVE  \E W, P : Commit(W) /\ FileWork(W, P, Q) /\ FilesOk(sft', dirent, P)
<1>1. PICK V : V = Load(h, n)
  OBVIOUS
<1>2. PICK X : X = dos_extend(V)
  OBVIOUS
<1>3. PICK W : W = Writes(X, count)
  OBVIOUS
<1>4. /\ sft[h].open /\ sft[h].mode = "rw" /\ sft[h].posit + count <= mix.max
      /\ Commit(W) /\ sft' = Save(h, W, TRUE)
  BY <1>1, <1>2, <1>3 DEF Write, Writes
<1>5. n \in Int /\ count \in Nat /\ mix.max <= MaxOffset /\ mix.max \in Int
  <2>1. mix \in Mixes
    BY DEF CountInv, TypeInv
  <2>2. mix.max \in 0 .. MaxOffset /\ MaxOffset \in Nat
    BY <2>1, FatAssumption
  <2>3. QED
    BY <2>2, BoundsAreNumbers, FatAssumption
<1>6. PICK o, b, z, D : o = sft[h].slot /\ b = failed /\ z = sft[h].size /\ D = dirent
  OBVIOUS
<1>7. Filed(V, Q, Q, o, b, z, D)
  BY <1>1, <1>4, <1>5, <1>6, LoadFiled
<1>8. FilesOk(sft, dirent, Q)
  BY DEF Holds
<1>9. o \in Slot /\ sft[h] \in OpenFile
  BY <1>4, <1>6, <1>8, InItsFile
<1>10. V.ok /\ V.off = sft[h].posit /\ V.off \in Nat
  BY <1>1, <1>4, <1>5, <1>8, <1>9, LoadIs DEF OpenFile
<1>11. PICK R : Filed(X, R, Q, o, b, z, D)
  BY <1>2, <1>7, <1>9, <1>10, ExtendFileLays
<1>12. X.off = V.off
  BY <1>2, <1>7, <1>9, <1>10, ExtendFileLays
<1>13. X.off + count <= MaxOffset
  BY <1>4, <1>5, <1>10, <1>12, FatAssumption
<1>14. PICK P : Filed(W, P, Q, o, b, z, D)
  BY <1>3, <1>5, <1>9, <1>11, <1>13, WritesLay
<1>15. FileWork(W, P, Q) /\ FilesOk(Save(h, W, TRUE), dirent, P)
  BY <1>4, <1>6, <1>14, FiledDone
<1>16. QED
  BY <1>4, <1>15

(* A cut that has failed: the SFT stays, and the chain is as long as it *)
(* was, or longer by clusters that nobody has been told of.             *)
LEMMA UncutFile ==
    ASSUME CountInv, NEW Q \in Owners, Holds(Q), NEW h \in Fd, sft[h].open, NEW o \in Slot, o = sft[h].slot,
           At(sft, o) = {h}, NEW P \in Owners, StartIn(P[o]) = StartIn(Q[o]),
           Longer(P, Q, o)
    PROVE  FilesOk(sft, dirent, P) /\ NoneMoved(P, Q)
<1>1. FilesOk(sft, dirent, Q)
  BY DEF Holds
<1>2. FileOk(sft, dirent[o], Q, o) /\ InFile(sft[h], Q, o) /\ sft[h] \in OpenFile
  BY <1>1, InItsFile
<1>3. sft[h].rel \in Nat /\ FileAt(sft[h], Q, o)
  BY <1>2 DEF OpenFile, InFile
<1>4. FileAt(sft[h], P, o)
  BY <1>3, LongerPlace
<1>5. InFile(sft[h], P, o)
  BY <1>2, <1>4 DEF InFile, WriterAt
<1>6. Agreeing(sft, o) /\ Written(sft, dirent[o], P, o)
  BY <1>2 DEF FileOk, Written
<1>7. FileOk(sft, dirent[o], P, o)
  BY <1>5, <1>6 DEF FileOk
<1>8. SameBut(P, Q, o)
  BY DEF Longer, SameBut
<1>9. \A k \in Fd : k \in At(sft, o) /\ sft[k].open => sft[k].slot = o
  BY DEF At
<1>10. QED
  BY <1>7, <1>8, <1>9, FileDone

(* The fnode of shrink_file before it begins, and after it ends. *)
LEMMA SizedIs ==
    ASSUME NEW W \in Good
    PROVE  /\ [W EXCEPT !.size = W.off] \in Good /\ [W EXCEPT !.size = W.off].size = W.off
           /\ [W EXCEPT !.size = W.off].off = W.off /\ [W EXCEPT !.size = W.off].fat = W.fat
           /\ [W EXCEPT !.size = W.off].dirent = W.dirent /\ NotBroken([W EXCEPT !.size = W.off], W)
           /\ SamePlace([W EXCEPT !.size = W.off], W)
<1>1. PICK z : z = W.off
  OBVIOUS
<1>2. z \in Nat
  BY <1>1 DEF Good, Work
<1>3. PICK X : X = [W EXCEPT !.size = z]
  OBVIOUS
<1>4. X \in Work /\ X.fat = W.fat /\ X.nfree = W.nfree
  BY <1>2, <1>3 DEF Good, Work
<1>5. X \in Good
  BY <1>4 DEF Good
<1>6. X.size = z /\ X.off = W.off /\ X.dirent = W.dirent /\ NotBroken(X, W) /\ SamePlace(X, W)
  BY <1>3 DEF Good, Work, NotBroken, SamePlace
<1>7. QED
  BY <1>1, <1>3, <1>4, <1>5, <1>6

(* The offset after it is set. *)
LEMMA OffIs ==
    ASSUME NEW W \in Good, NEW z \in Nat
    PROVE  /\ [W EXCEPT !.off = z] \in Good /\ [W EXCEPT !.off = z].size = W.size
           /\ [W EXCEPT !.off = z].off = z /\ SamePlace([W EXCEPT !.off = z], W)
<1>1. PICK X : X = [W EXCEPT !.off = z]
  OBVIOUS
<1>2. X \in Work /\ X.fat = W.fat /\ X.nfree = W.nfree
  BY <1>1 DEF Good, Work
<1>3. X \in Good
  BY <1>2 DEF Good
<1>4. X.off = z /\ X.size = W.size /\ SamePlace(X, W)
  BY <1>1 DEF Good, Work, SamePlace
<1>5. QED
  BY <1>1, <1>3, <1>4

(* dos_extend has failed in a truncation: the fnode is saved. *)
LEMMA ExtendFails ==
    ASSUME CountInv, NEW Q \in Owners, Holds(Q), NEW h \in Fd, sft[h].open, sft[h].mode = "rw", NEW n \in Int
    PROVE  \E R : /\ Filed(dos_extend(Load(h, n)), R, Q, sft[h].slot, failed, sft[h].size, dirent)
                  /\ Load(h, n).off > Load(h, n).size /\ dos_extend(Load(h, n)).ok =>
                         dos_extend(Load(h, n)).cu # FREE /\ Unit(Load(h, n)) < Len(R[sft[h].slot])
<1>1. PICK V : V = Load(h, n)
  OBVIOUS
<1>2. PICK o, b, z, D : o = sft[h].slot /\ b = failed /\ z = sft[h].size /\ D = dirent
  OBVIOUS
<1>3. Filed(V, Q, Q, o, b, z, D)
  BY <1>1, <1>2, LoadFiled
<1>4. FilesOk(sft, dirent, Q)
  BY DEF Holds
<1>5. o \in Slot /\ V.ok
  <2>1. o \in Slot
    BY <1>2, <1>4, InItsFile
  <2>2. V.ok = TRUE
    BY <1>1, <1>4, LoadIs
  <2>3. QED
    BY <2>1, <2>2
<1>6. PICK R : /\ Filed(dos_extend(V), R, Q, o, b, z, D)
               /\ V.off > V.size /\ dos_extend(V).ok => dos_extend(V).cu # FREE /\ Unit(V) < Len(R[o])
  BY <1>3, <1>5, ExtendFileLays
<1>7. QED
  BY <1>1, <1>2, <1>6

(* shrink_file has failed in a truncation. *)
LEMMA ShrinkFails ==
    ASSUME CountInv, NEW Q \in Owners, Holds(Q), NEW h \in Fd, sft[h].open, sft[h].mode = "rw", NEW n \in Int,
           NEW o \in Slot, o = sft[h].slot, At(sft, o) = {h},
           NEW W, W = dos_extend(Load(h, n)), W.ok, NEW Y, Y = [W EXCEPT !.size = W.off],
           NEW X, X = Shrunk(Y), ~X.ok
    PROVE  \E P : FileWork(X, P, Q) /\ FilesOk(sft, dirent, P)
<1>1. PICK V, b, z, D : V = Load(h, n) /\ b = failed /\ z = sft[h].size /\ D = dirent
  OBVIOUS
<1>2. PICK R : /\ Filed(W, R, Q, o, b, z, D)
               /\ V.off > V.size /\ W.ok => W.cu # FREE /\ Unit(V) < Len(R[o])
  BY <1>1, ExtendFails
<1>3. FilesOk(sft, dirent, Q)
  BY DEF Holds
<1>4. /\ V \in Good /\ V.ok /\ V.broken = FALSE /\ V.fat = fat /\ V.off \in Nat /\ V.size \in Nat
  <2>1. V \in Good /\ V.ok = TRUE /\ V.broken = FALSE /\ V.fat = fat
    BY <1>1, <1>3, LoadIs
  <2>2. QED
    BY <2>1 DEF Good, Work
<1>5. Filed(V, Q, Q, o, b, z, D)
  BY <1>1, LoadFiled
<1>6. (V.off <= V.size => W = V) /\ W.off = V.off
  BY <1>1, <1>4, <1>5, ExtendFileLays
<1>7. W \in Good /\ W.dirent = dirent /\ W.off <= MaxOffset /\ W.off \in Nat
  BY <1>1, <1>2 DEF Filed, Good, Work
<1>8. /\ Y \in Good /\ Y.size = W.off /\ Y.off = W.off /\ Y.fat = W.fat /\ Y.dirent = W.dirent
      /\ NotBroken(Y, W) /\ SamePlace(Y, W)
  BY <1>7, SizedIs
<1>9. Y.ok
  BY <1>8 DEF NotBroken
<1>10. Sound(Y, R, b) /\ WriterAt(Y, R, o) /\ R \in Owners /\ Longer(R, Q, o)
  <2>1. Sound(W, R, b) /\ WriterAt(W, R, o) /\ R \in Owners /\ Longer(R, Q, o)
    BY <1>2 DEF Filed, Longer
  <2>2. QED
    BY <1>8, <2>1, PlaceStays DEF Sound, NotBroken
<1>11. /\ X \in Good /\ X.dirent = Y.dirent /\ X.fat = Y.fat /\ (X.broken \/ X.broken = Y.broken)
       /\ Y.cu # FREE /\ Unit(Y) < Len(R[o]) => X.broken
  BY <1>7, <1>8, <1>9, <1>10, ShrinkLays
<1>12. CASE V.off <= V.size
  <2>1. X.fat = fat /\ X.dirent = dirent
    BY <1>4, <1>6, <1>7, <1>8, <1>11, <1>12
  <2>2. Sound(X, Q, failed)
    BY <2>1 DEF Sound, Holds
  <2>3. NoneMoved(Q, Q)
    BY DEF NoneMoved
  <2>4. FileWork(X, Q, Q)
    BY <1>11, <2>1, <2>2, <2>3 DEF FileWork
  <2>5. QED
    BY <1>3, <2>4
<1>13. CASE V.off > V.size
  <2>1. W.cu # FREE /\ Unit(V) < Len(R[o])
    BY <1>2, <1>13
  <2>2. Y.cu # FREE /\ Unit(Y) = Unit(V)
    BY <1>6, <1>8, <2>1 DEF SamePlace, Unit
  <2>3. X.broken
    BY <1>11, <2>1, <2>2
  <2>4. Laid(X.fat, R) /\ X.dirent = dirent /\ X.fat \in [Cluster -> FatEntry]
    BY <1>7, <1>8, <1>10, <1>11 DEF Sound, Good, Work
  <2>5. CASE Q[o] # <<>>
    <3>1. 1 \in 1 .. Len(Q[o])
      BY <2>5, OwnerFacts
    <3>2. R[o] # <<>> /\ R[o][1] = Q[o][1]
      <4>1. R[o] = <<>> <=> Len(R[o]) = 0
        BY <1>10, OwnerFacts
      <4>2. Len(R[o]) \in Nat /\ Len(Q[o]) \in Nat
        BY <1>10, OwnerFacts
      <4>3. QED
        BY <1>10, <3>1, <4>1, <4>2 DEF Longer
    <3>3. StartIn(R[o]) = StartIn(Q[o])
      BY <2>5, <3>2 DEF StartIn
    <3>4. FilesOk(sft, dirent, R) /\ NoneMoved(R, Q)
      BY <1>10, <3>3, UncutFile
    <3>5. Sound(X, R, failed)
      BY <2>3, <2>4 DEF Sound
    <3>6. FileWork(X, R, Q)
      BY <1>10, <1>11, <2>4, <3>4, <3>5 DEF FileWork
    <3>7. QED
      BY <3>4, <3>6
  <2>6. CASE Q[o] = <<>>
    <3>1. PICK P : P = Without(R, o)
      OBVIOUS
    <3>2. P \in Owners /\ Laid(X.fat, P)
      BY <1>10, <2>4, <3>1, LaidWithout
    <3>3. P[o] = <<>> /\ \A s \in Slot : s # o => P[s] = R[s]
      BY <1>10, <3>1, WithoutIs
    <3>4. \A s \in Slot : P[s] = Q[s]
      BY <1>10, <2>6, <3>3 DEF Longer
    <3>5. Longer(P, Q, o)
      BY <2>6, <3>2, <3>3, <3>4, OwnerFacts DEF Longer
    <3>6. StartIn(P[o]) = StartIn(Q[o])
      BY <3>4
    <3>7. FilesOk(sft, dirent, P) /\ NoneMoved(P, Q)
      BY <3>2, <3>5, <3>6, UncutFile
    <3>8. Sound(X, P, failed)
      BY <2>3, <3>2 DEF Sound
    <3>9. FileWork(X, P, Q)
      BY <1>11, <2>4, <3>2, <3>7, <3>8 DEF FileWork
    <3>10. QED
      BY <3>7, <3>9
  <2>7. QED
    BY <2>5, <2>6
<1>14. QED
  BY <1>4, <1>12, <1>13

(* shrink_file has cut the file. *)
LEMMA ShrinkDone ==
    ASSUME CountInv, NEW Q \in Owners, Holds(Q), NEW h \in Fd, sft[h].open, sft[h].mode = "rw", NEW n \in Int,
           NEW o \in Slot, o = sft[h].slot, At(sft, o) = {h},
           NEW W, W = dos_extend(Load(h, n)), W.ok, NEW Y, Y = [W EXCEPT !.size = W.off],
           NEW X, X = Shrunk(Y), X.ok, NEW Z, Z = [X EXCEPT !.off = W.off]
    PROVE  \E P : FileWork(X, P, Q) /\ FilesOk(Save(h, Z, TRUE), dirent, P)
<1>1. PICK b, z, D : b = failed /\ z = sft[h].size /\ D = dirent
  OBVIOUS
<1>2. PICK R : Filed(W, R, Q, o, b, z, D)
  BY <1>1, ExtendFails
<1>3. W \in Good /\ W.dirent = dirent /\ W.off <= MaxOffset /\ W.off \in Nat
  BY <1>1, <1>2 DEF Filed, Good, Work
<1>4. /\ Y \in Good /\ Y.size = W.off /\ Y.off = W.off /\ Y.fat = W.fat /\ Y.dirent = W.dirent
      /\ NotBroken(Y, W) /\ SamePlace(Y, W)
  BY <1>3, SizedIs
<1>5. Y.ok
  BY <1>4 DEF NotBroken
<1>6. Sound(Y, R, b) /\ WriterAt(Y, R, o) /\ R \in Owners /\ Longer(R, Q, o)
  <2>1. Sound(W, R, b) /\ WriterAt(W, R, o) /\ R \in Owners /\ Longer(R, Q, o)
    BY <1>2 DEF Filed, Longer
  <2>2. QED
    BY <1>4, <2>1, PlaceStays DEF Sound, NotBroken
<1>7. X \in Good /\ X.dirent = Y.dirent /\ X.size = Y.size
  BY <1>3, <1>4, <1>5, <1>6, ShrinkLays
<1>8. PICK P \in Owners : /\ \A s \in Slot : s # o => P[s] = R[s]
                          /\ Sound(X, P, b) /\ WriterAt(X, P, o)
  <2>1. Y.size = Y.off /\ Y.off <= MaxOffset /\ Shrunk(Y).ok
    BY <1>3, <1>4
  <2>2. CutTo(Shrunk(Y), R, o, b)
    BY <1>4, <1>5, <1>6, <2>1, ShrinkLays
  <2>3. QED
    BY <2>2 DEF CutTo
<1>9. Z \in Good /\ Z.size = X.size /\ Z.off = W.off /\ SamePlace(Z, X)
  BY <1>3, <1>7, OffIs
<1>10. WriterAt(Z, P, o)
  BY <1>8, <1>9, PlaceStays
<1>11. PICK e : e = dirent[o]
  OBVIOUS
<1>12. FileOk(Save(h, Z, TRUE), e, P, o)
  BY <1>3, <1>4, <1>7, <1>9, <1>10, SavedCut
<1>13. SameBut(P, Q, o)
  BY <1>6, <1>8 DEF Longer, SameBut
<1>14. FilesOk(Save(h, Z, TRUE), dirent, P) /\ NoneMoved(P, Q)
  BY <1>9, <1>11, <1>12, <1>13, SavedDone
<1>15. FileWork(X, P, Q)
  BY <1>1, <1>3, <1>4, <1>7, <1>8, <1>14 DEF FileWork
<1>16. QED
  BY <1>14, <1>15

(* A write of no bytes. *)
LEMMA TruncateFiles ==
    ASSUME CountInv, NEW Q \in Owners, Holds(Q), NEW h \in Fd, NEW n \in LinkBounds, Truncate(h, n), ~SharedTruncate
    PROVE  \E W, P : Commit(W) /\ FileWork(W, P, Q) /\ FilesOk(sft', dirent, P)
<1>1. PICK W : W = dos_extend(Load(h, n))
  OBVIOUS
<1>2. PICK Y : Y = [W EXCEPT !.size = W.off]
  OBVIOUS
<1>3. PICK X : X = Shrunk(Y)
  OBVIOUS
<1>4. PICK Z : Z = [X EXCEPT !.off = W.off]
  OBVIOUS
<1>5. /\ sft[h].open /\ sft[h].mode = "rw" /\ OpenAt(sft[h].slot) = {h}
      /\ \/ ~W.ok /\ Commit(W) /\ sft' = Save(h, W, TRUE)
         \/ W.ok /\ Commit(X) /\ sft' = IF X.ok THEN Save(h, Z, TRUE) ELSE Distributed(W, h)
  BY <1>1, <1>2, <1>3, <1>4 DEF Truncate
<1>6. FilesOk(sft, dirent, Q)
  BY DEF Holds
<1>7. PICK o : o = sft[h].slot
  OBVIOUS
<1>8. o \in Slot /\ At(sft, o) = {h} /\ n \in Int
  BY <1>5, <1>6, <1>7, InItsFile, BoundsAreNumbers DEF At, OpenAt, OpenFds
<1>9. CASE ~W.ok
  <2>1. PICK R : Filed(W, R, Q, o, failed, sft[h].size, dirent)
    BY <1>1, <1>5, <1>7, <1>8, ExtendFails
  <2>2. FileWork(W, R, Q) /\ FilesOk(Save(h, W, TRUE), dirent, R)
    BY <1>5, <1>7, <2>1, FiledDone
  <2>3. QED
    BY <1>5, <1>9, <2>2
<1>10. CASE W.ok /\ X.ok
  <2>1. PICK P : FileWork(X, P, Q) /\ FilesOk(Save(h, Z, TRUE), dirent, P)
    BY <1>1, <1>2, <1>3, <1>4, <1>5, <1>7, <1>8, <1>10, ShrinkDone
  <2>2. QED
    BY <1>5, <1>10, <2>1
<1>11. CASE W.ok /\ ~X.ok
  <2>1. PICK P : FileWork(X, P, Q) /\ FilesOk(sft, dirent, P)
    BY <1>1, <1>2, <1>3, <1>5, <1>7, <1>8, <1>11, ShrinkFails
  <2>2. Distributed(W, h) = [k \in Fd |-> sft[k]]
    BY <1>5 DEF Distributed
  <2>3. sft = [k \in Fd |-> sft[k]]
    BY DEF CountInv, TypeInv
  <2>4. sft' = sft
    BY <1>5, <1>11, <2>2, <2>3
  <2>5. QED
    BY <1>5, <1>11, <2>1, <2>4
<1>12. QED
  BY <1>9, <1>10, <1>11

(***************************************************************************)
(* Directories as tables of slots: the root, and one in the clusters of    *)
(* each directory.                                                         *)
(***************************************************************************)
RootSlots == [i \in 1 .. RootEnts |-> <<Root, i - 1>>]
Tab(Q, d) == IF d = NoSlot THEN RootSlots ELSE SlotsOf(Q[d])

(* Two numbers with the same quotient and remainder are the same. *)
LEMMA SameNumber ==
    ASSUME NEW a \in Nat, NEW c \in Nat, NEW b \in Nat \ {0}, a \div b = c \div b, a % b = c % b
    PROVE  a = c
<1>1. PICK q, r : q = a \div b /\ r = a % b
  OBVIOUS
<1>2. a = b * (a \div b) + (a % b) /\ c = b * (c \div b) + (c % b)
  OBVIOUS
<1>3. QED
  BY <1>1, <1>2

(* The slots of the clusters of a chain. *)
LEMMA SlotsOfIs ==
    ASSUME NEW q \in Seq(Cluster)
    PROVE  /\ SlotsOf(q) \in Seq(Slot) /\ Len(SlotsOf(q)) = Len(q) * ClusEnts /\ Len(SlotsOf(q)) \in Nat
           /\ \A i \in 1 .. Len(SlotsOf(q)) :
                  /\ (i - 1) \div ClusEnts + 1 \in 1 .. Len(q)
                  /\ SlotsOf(q)[i] = <<q[(i - 1) \div ClusEnts + 1], (i - 1) % ClusEnts>>
                  /\ SlotsOf(q)[i] \in Slot
<1>1. ClusEnts \in Nat \ {0} /\ Len(q) \in Nat
  BY FatAssumption
<1>2. PICK m, n : m = Len(q) * ClusEnts /\ n = Len(q)
  OBVIOUS
<1>3. m \in Nat
  BY <1>1, <1>2
<1>4. SlotsOf(q) = [i \in 1 .. m |-> <<q[(i - 1) \div ClusEnts + 1], (i - 1) % ClusEnts>>]
  BY <1>2 DEF SlotsOf
<1>5. ASSUME NEW i \in 1 .. m
      PROVE  (i - 1) \div ClusEnts + 1 \in 1 .. n /\ <<q[(i - 1) \div ClusEnts + 1], (i - 1) % ClusEnts>> \in Slot
  <2>1. PICK a \in Nat : a = i - 1
    BY <1>3
  <2>2. a < n * ClusEnts
    BY <1>2, <1>3, <2>1
  <2>3. PICK k, r : k = a \div ClusEnts /\ r = a % ClusEnts
    OBVIOUS
  <2>4. k \in 0 .. n - 1 /\ r \in 0 .. ClusEnts - 1
    BY <1>1, <1>2, <2>2, <2>3, Within
  <2>5. k + 1 \in 1 .. n
    BY <1>1, <1>2, <2>4
  <2>6. q[k + 1] \in Cluster
    BY <1>2, <2>5
  <2>7. <<q[k + 1], r>> \in Slot
    BY <2>4, <2>6 DEF Slot
  <2>8. QED
    BY <2>1, <2>3, <2>5, <2>7
<1>6. \A i \in 1 .. m : SlotsOf(q)[i] = <<q[(i - 1) \div ClusEnts + 1], (i - 1) % ClusEnts>>
  BY <1>4
<1>7. SlotsOf(q) \in [1 .. m -> Slot]
  BY <1>4, <1>5
<1>8. SlotsOf(q) \in Seq(Slot) /\ Len(SlotsOf(q)) = m
  <2>1. PICK w : w = SlotsOf(q)
    OBVIOUS
  <2>2. w \in [1 .. m -> Slot]
    BY <1>7, <2>1
  <2>3. w \in Seq(Slot) /\ Len(w) = m
    BY <1>3, <2>2
  <2>4. QED
    BY <2>1, <2>3
<1>9. QED
  BY <1>2, <1>3, <1>5, <1>6, <1>8

(* A slot of a chain: where it is. *)
LEMMA SlotsOfAt ==
    ASSUME NEW q \in Seq(Cluster), NEW i \in 1 .. Len(SlotsOf(q))
    PROVE  \E k \in 1 .. Len(q), r \in Nat : /\ SlotsOf(q)[i] = <<q[k], r>>
                                           /\ i \in Nat \ {0} /\ k = (i - 1) \div ClusEnts + 1 /\ r = (i - 1) % ClusEnts
<1>1. Len(SlotsOf(q)) \in Nat /\ ClusEnts \in Nat \ {0}
  BY SlotsOfIs, FatAssumption
<1>2. PICK k, r : k = (i - 1) \div ClusEnts + 1 /\ r = (i - 1) % ClusEnts
  OBVIOUS
<1>3. k \in 1 .. Len(q) /\ SlotsOf(q)[i] = <<q[k], r>>
  BY <1>2, SlotsOfIs
<1>4. PICK a \in Nat : a = i - 1
  BY <1>1
<1>5. a % ClusEnts \in Nat
  BY <1>1
<1>6. i \in Nat \ {0} /\ r \in Nat
  BY <1>1, <1>2, <1>4, <1>5
<1>7. QED
  BY <1>2, <1>3, <1>6

(* The slots of the root. *)
LEMMA RootSlotsAre ==
    /\ RootSlots \in Seq(Slot) /\ Len(RootSlots) = RootEnts /\ RootEnts \in Nat \ {0, 1}
    /\ \A i \in 1 .. RootEnts : RootSlots[i] = <<Root, i - 1>> /\ RootSlots[i] \in Slot
<1>1. RootEnts \in Nat \ {0, 1}
  BY FatAssumption
<1>2. ASSUME NEW i \in 1 .. RootEnts
      PROVE  RootSlots[i] = <<Root, i - 1>> /\ <<Root, i - 1>> \in Slot
  <2>1. PICK a : a = i - 1
    OBVIOUS
  <2>2. a \in 0 .. RootEnts - 1
    BY <1>1, <2>1
  <2>3. <<Root, a>> \in Slot
    BY <2>2 DEF Slot
  <2>4. QED
    BY <2>1, <2>3 DEF RootSlots
<1>3. RootSlots \in Seq(Slot) /\ Len(RootSlots) = RootEnts
  <2>1. PICK w : w = RootSlots
    OBVIOUS
  <2>2. w \in [1 .. RootEnts -> Slot]
    BY <1>2, <2>1 DEF RootSlots
  <2>3. w \in Seq(Slot) /\ Len(w) = RootEnts
    BY <1>1, <2>2
  <2>4. QED
    BY <2>1, <2>3
<1>4. QED
  BY <1>1, <1>2, <1>3

(* A table is a sequence of slots. *)
LEMMA TabIs ==
    ASSUME NEW Q \in Owners, NEW d \in {NoSlot} \cup Slot
    PROVE  /\ Tab(Q, d) \in Seq(Slot) /\ Len(Tab(Q, d)) \in Nat /\ DOMAIN Tab(Q, d) = 1 .. Len(Tab(Q, d))
           /\ \A i \in 1 .. Len(Tab(Q, d)) : Tab(Q, d)[i] \in Slot
<1>1. CASE d = NoSlot
  <2>1. Tab(Q, d) = RootSlots
    BY <1>1 DEF Tab
  <2>2. QED
    BY <2>1, RootSlotsAre
<1>2. CASE d # NoSlot
  <2>1. Tab(Q, d) = SlotsOf(Q[d]) /\ d \in Slot
    BY <1>2 DEF Tab
  <2>2. Q[d] \in Seq(Cluster)
    BY <2>1, OwnerFacts
  <2>3. SlotsOf(Q[d]) \in Seq(Slot)
    BY <2>2, SlotsOfIs
  <2>4. PICK w : w = Tab(Q, d)
    OBVIOUS
  <2>5. w \in Seq(Slot)
    BY <2>1, <2>3, <2>4
  <2>6. Len(w) \in Nat /\ DOMAIN w = 1 .. Len(w) /\ \A i \in 1 .. Len(w) : w[i] \in Slot
    BY <2>5
  <2>7. QED
    BY <2>4, <2>5, <2>6
<1>3. QED
  BY <1>1, <1>2

(* Two places of two tables, or of one, are two slots. *)
LEMMA TabApart ==
    ASSUME NEW Q \in Owners, Apart(Q), NEW d \in {NoSlot} \cup Slot, NEW e \in {NoSlot} \cup Slot,
           NEW i \in 1 .. Len(Tab(Q, d)), NEW j \in 1 .. Len(Tab(Q, e)), Tab(Q, d)[i] = Tab(Q, e)[j]
    PROVE  d = e /\ i = j
<1>1. ClusEnts \in Nat \ {0}
  BY FatAssumption
<1>2. ASSUME NEW x \in Slot, NEW m \in 1 .. Len(Tab(Q, x))
      PROVE  \E k \in 1 .. Len(Q[x]), r \in Nat : /\ Tab(Q, x)[m] = <<Q[x][k], r>> /\ Q[x][k] \in Cluster
                                                /\ m \in Nat \ {0} /\ k = (m - 1) \div ClusEnts + 1 /\ r = (m - 1) % ClusEnts
  <2>1. PICK q : q = Q[x]
    OBVIOUS
  <2>2. q \in Seq(Cluster) /\ Tab(Q, x) = SlotsOf(q)
    BY <2>1, OwnerFacts, SlotIsOne DEF Tab
  <2>3. m \in 1 .. Len(SlotsOf(q))
    BY <2>2
  <2>4. PICK k \in 1 .. Len(q), r \in Nat : /\ SlotsOf(q)[m] = <<q[k], r>>
                                           /\ m \in Nat \ {0} /\ k = (m - 1) \div ClusEnts + 1 /\ r = (m - 1) % ClusEnts
    BY <2>2, <2>3, SlotsOfAt
  <2>5. q[k] \in Cluster
    BY <2>2
  <2>6. QED
    BY <2>1, <2>2, <2>4, <2>5
<1>3. \A m \in 1 .. Len(Tab(Q, NoSlot)) : Tab(Q, NoSlot)[m] = <<Root, m - 1>> /\ m \in Nat
  BY RootSlotsAre DEF Tab
<1>4. Root \notin Cluster
  BY ClusterFacts DEF Root, FREE
<1>5. CASE d = NoSlot /\ e = NoSlot
  <2>1. <<Root, i - 1>> = <<Root, j - 1>> /\ i \in Nat /\ j \in Nat
    BY <1>3, <1>5
  <2>2. PICK a, b : a = i - 1 /\ b = j - 1
    OBVIOUS
  <2>3. a = b
    BY <2>1, <2>2
  <2>4. QED
    BY <1>5, <2>1, <2>2, <2>3
<1>6. CASE d # NoSlot /\ e # NoSlot
  <2>1. d \in Slot /\ e \in Slot
    BY <1>6
  <2>2. PICK k \in 1 .. Len(Q[d]), r \in Nat : /\ Tab(Q, d)[i] = <<Q[d][k], r>>
                                                /\ i \in Nat \ {0} /\ k = (i - 1) \div ClusEnts + 1 /\ r = (i - 1) % ClusEnts
    BY <1>2, <2>1
  <2>3. PICK l \in 1 .. Len(Q[e]), v \in Nat : /\ Tab(Q, e)[j] = <<Q[e][l], v>>
                                                /\ j \in Nat \ {0} /\ l = (j - 1) \div ClusEnts + 1 /\ v = (j - 1) % ClusEnts
    BY <1>2, <2>1
  <2>4. Q[d][k] = Q[e][l] /\ r = v
    <3>1. PICK x, y : x = Q[d][k] /\ y = Q[e][l]
      OBVIOUS
    <3>2. <<x, r>> = <<y, v>>
      BY <2>2, <2>3, <3>1
    <3>3. x = y /\ r = v
      BY <3>2
    <3>4. QED
      BY <3>1, <3>3
  <2>5. d = e /\ k = l
    BY <2>1, <2>4 DEF Apart
  <2>6. PICK a \in Nat, b \in Nat : a = i - 1 /\ b = j - 1
    BY <2>2, <2>3
  <2>7. a \div ClusEnts = b \div ClusEnts /\ a % ClusEnts = b % ClusEnts
    <3>1. PICK x, y : x = a \div ClusEnts /\ y = b \div ClusEnts
      OBVIOUS
    <3>2. x \in Int /\ y \in Int
      BY <1>1, <3>1
    <3>3. x + 1 = y + 1
      BY <2>2, <2>3, <2>5, <2>6, <3>1
    <3>4. x = y
      BY <3>2, <3>3
    <3>5. QED
      BY <2>2, <2>3, <2>4, <2>6, <3>1, <3>4
  <2>8. a = b
    BY <1>1, <2>7, SameNumber
  <2>9. QED
    BY <2>2, <2>3, <2>5, <2>6, <2>8
<1>7. ASSUME NEW x \in {NoSlot} \cup Slot, NEW y \in {NoSlot} \cup Slot, NEW a \in 1 .. Len(Tab(Q, x)), NEW b \in 1 .. Len(Tab(Q, y)),
             Tab(Q, x)[a] = Tab(Q, y)[b], x = NoSlot, y # NoSlot
      PROVE  FALSE
  <2>1. y \in Slot
    BY <1>7
  <2>2. PICK k \in 1 .. Len(Q[y]), r \in Nat : /\ Tab(Q, y)[b] = <<Q[y][k], r>> /\ Q[y][k] \in Cluster
                                                /\ b \in Nat \ {0} /\ k = (b - 1) \div ClusEnts + 1 /\ r = (b - 1) % ClusEnts
    BY <1>2, <2>1
  <2>3. PICK z : z = a - 1
    OBVIOUS
  <2>4. Tab(Q, x)[a] = <<Root, z>>
    BY <1>3, <1>7, <2>3
  <2>5. PICK w : w = Q[y][k]
    OBVIOUS
  <2>6. <<Root, z>> = <<w, r>>
    BY <1>7, <2>2, <2>4, <2>5
  <2>7. Root = w
    BY <2>6
  <2>8. QED
    BY <1>4, <2>2, <2>5, <2>7
<1>8. QED
  BY <1>5, <1>6, <1>7

(* The first slot of a table. *)
LEMMA TabHead ==
    ASSUME NEW Q \in Owners, NEW d \in Slot, Q[d] # <<>>
    PROVE  1 \in 1 .. Len(Tab(Q, d)) /\ Tab(Q, d)[1] = <<Q[d][1], 0>> /\ <<Q[d][1], 0>> \in Slot
<1>1. PICK q, r : q = Q[d] /\ r = 1
  OBVIOUS
<1>2. q \in Seq(Cluster) /\ Len(q) \in Nat /\ Len(q) # 0 /\ Tab(Q, d) = SlotsOf(q)
  BY <1>1, OwnerFacts, SlotIsOne DEF Tab
<1>3. ClusEnts \in Nat \ {0}
  BY FatAssumption
<1>4. Len(q) * ClusEnts \in Nat \ {0}
  BY <1>2, <1>3
<1>5. r \in 1 .. Len(SlotsOf(q))
  BY <1>1, <1>2, <1>4, SlotsOfIs
<1>6. SlotsOf(q)[r] = <<q[(r - 1) \div ClusEnts + 1], (r - 1) % ClusEnts>> /\ SlotsOf(q)[r] \in Slot
  BY <1>2, <1>5, SlotsOfIs
<1>7. (r - 1) \div ClusEnts = 0 /\ (r - 1) % ClusEnts = 0
  BY <1>1, <1>3
<1>8. q[(r - 1) \div ClusEnts + 1] = q[1]
  BY <1>7
<1>9. QED
  BY <1>1, <1>2, <1>5, <1>6, <1>7, <1>8

(* The clusters of a table: none, for the root. *)
LEMMA TabCluster ==
    ASSUME NEW Q \in Owners, NEW d \in {NoSlot} \cup Slot, NEW i \in 1 .. Len(Tab(Q, d))
    PROVE  \/ d = NoSlot /\ Tab(Q, d)[i][1] = Root
           \/ d \in Slot /\ \E k \in 1 .. Len(Q[d]) : Tab(Q, d)[i][1] = Q[d][k]
<1>1. CASE d = NoSlot
  <2>1. Tab(Q, d) = RootSlots /\ i \in 1 .. RootEnts
    BY <1>1, RootSlotsAre DEF Tab
  <2>2. PICK z : z = i - 1
    OBVIOUS
  <2>3. Tab(Q, d)[i] = <<Root, z>>
    BY <2>1, <2>2, RootSlotsAre
  <2>4. QED
    BY <1>1, <2>3
<1>2. CASE d # NoSlot
  <2>1. PICK q : q = Q[d]
    OBVIOUS
  <2>2. d \in Slot /\ q \in Seq(Cluster) /\ Tab(Q, d) = SlotsOf(q)
    BY <1>2, <2>1, OwnerFacts DEF Tab
  <2>3. i \in 1 .. Len(SlotsOf(q))
    BY <2>2
  <2>4. PICK k \in 1 .. Len(q), r \in Nat : /\ SlotsOf(q)[i] = <<q[k], r>>
                                           /\ i \in Nat \ {0} /\ k = (i - 1) \div ClusEnts + 1 /\ r = (i - 1) % ClusEnts
    BY <2>2, <2>3, SlotsOfAt
  <2>5. PICK x : x = q[k]
    OBVIOUS
  <2>6. <<x, r>>[1] = x
    OBVIOUS
  <2>7. QED
    BY <2>1, <2>2, <2>4, <2>5, <2>6
<1>3. QED
  BY <1>1, <1>2

(* The table of a directory that has grown by a cluster. *)
LEMMA TabGrown ==
    ASSUME NEW Q \in Owners, NEW d \in Slot, NEW c \in Cluster, NEW P, P = Grown(Q, d, c)
    PROVE  /\ \A e \in {NoSlot} \cup Slot : e # d => Tab(P, e) = Tab(Q, e)
           /\ Len(Tab(P, d)) > Len(Tab(Q, d))
           /\ \A i \in 1 .. Len(Tab(Q, d)) : Tab(P, d)[i] = Tab(Q, d)[i]
           /\ \A i \in 1 .. Len(Tab(P, d)) : i \notin 1 .. Len(Tab(Q, d)) => Tab(P, d)[i][1] = c
<1>1. /\ P \in Owners /\ \A s \in Slot : s # d => P[s] = Q[s]
      /\ Len(P[d]) = Len(Q[d]) + 1 /\ P[d][Len(Q[d]) + 1] = c
      /\ \A i \in 1 .. Len(Q[d]) : P[d][i] = Q[d][i]
  <2>1. Grown(Q, d, c) \in Owners /\ \A s \in Slot : s # d => Grown(Q, d, c)[s] = Q[s]
    BY GrownIs
  <2>2. /\ Len(Grown(Q, d, c)[d]) = Len(Q[d]) + 1 /\ Grown(Q, d, c)[d][Len(Q[d]) + 1] = c
        /\ \A i \in 1 .. Len(Q[d]) : Grown(Q, d, c)[d][i] = Q[d][i]
    BY GrownIs
  <2>3. QED
    BY <2>1, <2>2
<1>2. PICK p, q : p = P[d] /\ q = Q[d]
  OBVIOUS
<1>3. p \in Seq(Cluster) /\ q \in Seq(Cluster) /\ Tab(P, d) = SlotsOf(p) /\ Tab(Q, d) = SlotsOf(q) /\ Len(q) \in Nat
  BY <1>1, <1>2, OwnerFacts, SlotIsOne DEF Tab
<1>4. \A e \in {NoSlot} \cup Slot : e # d => Tab(P, e) = Tab(Q, e)
  BY <1>1 DEF Tab
<1>5. ClusEnts \in Nat \ {0}
  BY FatAssumption
<1>6. PICK n, m : n = Len(SlotsOf(q)) /\ m = Len(SlotsOf(p))
  OBVIOUS
<1>7. n \in Nat /\ m \in Nat /\ n = Len(q) * ClusEnts /\ m = Len(p) * ClusEnts /\ Len(p) = Len(q) + 1
  BY <1>1, <1>2, <1>3, <1>6, SlotsOfIs
<1>8. m = n + ClusEnts
  BY <1>3, <1>5, <1>7
<1>9. ASSUME NEW i \in 1 .. m
      PROVE  \E k \in 1 .. Len(p), r \in Nat : SlotsOf(p)[i] = <<p[k], r>> /\ k = (i - 1) \div ClusEnts + 1 /\ r = (i - 1) % ClusEnts
  BY <1>3, <1>6, SlotsOfAt
<1>10. ASSUME NEW i \in 1 .. n
       PROVE  SlotsOf(p)[i] = SlotsOf(q)[i]
  <2>1. i \in 1 .. m
    BY <1>5, <1>7, <1>8
  <2>2. PICK k \in 1 .. Len(p), r \in Nat : SlotsOf(p)[i] = <<p[k], r>> /\ k = (i - 1) \div ClusEnts + 1 /\ r = (i - 1) % ClusEnts
    BY <1>9, <2>1
  <2>3. PICK l \in 1 .. Len(q), v \in Nat : /\ SlotsOf(q)[i] = <<q[l], v>>
                                           /\ i \in Nat \ {0} /\ l = (i - 1) \div ClusEnts + 1 /\ v = (i - 1) % ClusEnts
    BY <1>3, <1>6, SlotsOfAt
  <2>4. k = l /\ r = v
    BY <2>2, <2>3
  <2>5. p[k] = q[k]
    BY <1>1, <1>2, <2>3, <2>4
  <2>6. QED
    BY <2>2, <2>3, <2>4, <2>5
<1>11. ASSUME NEW i \in 1 .. m, i \notin 1 .. n
       PROVE  SlotsOf(p)[i][1] = c
  <2>1. PICK k \in 1 .. Len(p), r \in Nat : SlotsOf(p)[i] = <<p[k], r>> /\ k = (i - 1) \div ClusEnts + 1 /\ r = (i - 1) % ClusEnts
    BY <1>9, <1>11
  <2>2. PICK a \in Nat : a = i - 1
    BY <1>7
  <2>3. a >= Len(q) * ClusEnts
    BY <1>7, <1>11, <2>2
  <2>4. a \div ClusEnts >= Len(q)
    <3>1. PICK x, y : x = a \div ClusEnts /\ y = a % ClusEnts
      OBVIOUS
    <3>2. x \in Nat /\ y \in 0 .. ClusEnts - 1 /\ a = ClusEnts * x + y
      BY <1>5, <3>1
    <3>3. ASSUME x < Len(q)
          PROVE  FALSE
      <4>1. PICK z \in Nat : Len(q) = x + 1 + z
        <5>1. Len(q) - x - 1 \in Nat /\ Len(q) = x + 1 + (Len(q) - x - 1)
          BY <1>3, <3>2, <3>3
        <5>2. QED
          BY <5>1
      <4>2. Len(q) * ClusEnts = ClusEnts * x + ClusEnts + z * ClusEnts /\ z * ClusEnts \in Nat /\ ClusEnts * x \in Nat
        BY <1>5, <3>2, <4>1
      <4>3. QED
        BY <1>5, <2>3, <3>2, <4>2
    <3>4. QED
      BY <1>3, <3>1, <3>2, <3>3
  <2>5. k = Len(q) + 1
    <3>1. PICK x : x = a \div ClusEnts
      OBVIOUS
    <3>2. x \in Nat /\ k = x + 1 /\ x >= Len(q)
      BY <1>5, <2>1, <2>2, <2>4, <3>1
    <3>3. QED
      BY <1>3, <1>7, <3>2
  <2>6. p[k] = c
    BY <1>1, <1>2, <2>5
  <2>7. <<c, r>>[1] = c
    OBVIOUS
  <2>8. QED
    BY <2>1, <2>6, <2>7
<1>12. m > n
  BY <1>5, <1>7, <1>8
<1>13. QED
  BY <1>3, <1>4, <1>6, <1>10, <1>11, <1>12

(* Entries of files and directories, and the tables that hold them. *)
Alive(e)   == e.kind \in {"file", "dir"}
Dirs(D)    == {s \in Slot : D[s].kind = "dir"}
Holders(D) == {NoSlot} \cup Dirs(D)

(* A directory has clusters, and "." comes first in them. *)
Rooted(D, Q) == \A s \in Dirs(D) : Q[s] # <<>> /\ D[s].start = Q[s][1] /\ D[<<Q[s][1], 0>>].kind = "dot"
(* What is alive is in a directory. *)
InTab(Q, d, s) == \E i \in 1 .. Len(Tab(Q, d)) : Tab(Q, d)[i] = s
Placed(D, Q)   == \A s \in Slot : Alive(D[s]) => \E d \in Holders(D) : InTab(Q, d, s)
(* Unused entries come last, and names are in a directory once. *)
Ordered(D, t)  == \A i, j \in 1 .. Len(t) : i < j /\ D[t[i]].kind = "unused" => D[t[j]].kind = "unused"
Distinct(D, t) == \A i, j \in 1 .. Len(t) : i # j /\ Alive(D[t[i]]) => D[t[i]].name # D[t[j]].name
Tables(D, Q)   == \A d \in Holders(D) : Ordered(D, Tab(Q, d)) /\ Distinct(D, Tab(Q, d))
(* Names, and only names, are of what is alive, and only this has a chain. *)
NameOk(e)      == (Alive(e) <=> e.name # NoName) /\ (e.kind = "dir" <=> e.name \in DirName)
Names(D)       == \A s \in Slot : NameOk(D[s])
Bare(D, Q)     == \A s \in Slot : ~Alive(D[s]) => Q[s] = <<>>

DirsOk(D, Q) == Rooted(D, Q) /\ Placed(D, Q) /\ Tables(D, Q) /\ Names(D) /\ Bare(D, Q)

(* Entries that stand for none have no name. *)
LEMMA NoNames ==
    /\ NameOk(Unused) /\ ~Alive(Unused) /\ NameOk(Deleted) /\ ~Alive(Deleted) /\ NameOk(Dot) /\ ~Alive(Dot)
    /\ Unused.kind = "unused" /\ Deleted.kind = "deleted" /\ Dot.kind = "dot"
    /\ Unused.name = NoName /\ Deleted.name = NoName /\ Dot.name = NoName
BY FatAssumption DEF NameOk, Alive, Unused, Deleted, Dot, Entry

(* Entries of long names become deleted entries. *)
LfnGone(E, D) == \A s \in Slot : E[s] = D[s] \/ (D[s].kind = "lfn" /\ E[s] = Deleted)
(* Directories stay sound when long names go. *)
LEMMA LfnOk ==
    ASSUME NEW D, NEW E, NEW Q \in Owners, DirsOk(D, Q), LfnGone(E, D)
    PROVE  DirsOk(E, Q)
<1> USE DEF LfnGone
<1>1. /\ \A s \in Slot : Alive(D[s]) \/ Alive(E[s]) \/ D[s].kind = "dot" => E[s] = D[s]
      /\ \A s \in Slot : E[s].kind = "unused" <=> D[s].kind = "unused"
  BY NoNames DEF Alive
<1>2. Dirs(E) = Dirs(D) /\ Holders(E) = Holders(D)
  BY <1>1 DEF Dirs, Holders, Alive
<1>3. Rooted(E, Q)
  <2>1. ASSUME NEW s \in Dirs(E)
        PROVE  Q[s] # <<>> /\ E[s].start = Q[s][1] /\ E[<<Q[s][1], 0>>].kind = "dot"
    <3>1. s \in Slot /\ Q[s] # <<>> /\ D[s].start = Q[s][1] /\ D[<<Q[s][1], 0>>].kind = "dot" /\ E[s] = D[s]
      BY <1>1, <1>2, <2>1 DEF DirsOk, Rooted, Dirs, Alive
    <3>2. <<Q[s][1], 0>> \in Slot
      BY <3>1, TabHead
    <3>3. QED
      BY <1>1, <3>1, <3>2
  <2>2. QED
    BY <2>1 DEF Rooted
<1>4. Placed(E, Q)
  BY <1>1, <1>2 DEF DirsOk, Placed
<1>5. ASSUME NEW d \in Holders(E)
      PROVE  Ordered(E, Tab(Q, d)) /\ Distinct(E, Tab(Q, d))
  <2>1. PICK t : t = Tab(Q, d)
    OBVIOUS
  <2>2. \A i \in 1 .. Len(t) : t[i] \in Slot
    BY <2>1, TabIs DEF Holders, Dirs
  <2>3. Ordered(D, t) /\ Distinct(D, t)
    BY <1>2, <2>1 DEF DirsOk, Tables
  <2>4. Ordered(E, t)
    BY <1>1, <2>2, <2>3 DEF Ordered
  <2>5. ASSUME NEW i \in 1 .. Len(t), NEW j \in 1 .. Len(t), i # j, Alive(E[t[i]])
        PROVE  E[t[i]].name # E[t[j]].name
    <3>1. E[t[i]] = D[t[i]] /\ D[t[i]].name # D[t[j]].name /\ D[t[i]].name # NoName
      BY <1>1, <2>2, <2>3, <2>5 DEF Distinct, DirsOk, Names, NameOk
    <3>2. E[t[j]] = D[t[j]] \/ E[t[j]].name = NoName
      BY <2>2, NoNames
    <3>3. QED
      BY <3>1, <3>2
  <2>6. QED
    BY <2>1, <2>4, <2>5 DEF Distinct
<1>6. Names(E) /\ Bare(E, Q)
  <2>1. ASSUME NEW s \in Slot
        PROVE  NameOk(E[s]) /\ (~Alive(E[s]) => Q[s] = <<>>)
    BY NoNames DEF DirsOk, Names, Bare, Alive
  <2>2. QED
    BY <2>1 DEF Names, Bare
<1>7. QED
  BY <1>3, <1>4, <1>5, <1>6 DEF DirsOk, Tables

(* The entry of a file with another start or size. *)
SameName(e, f) == e.kind = "file" /\ f.kind = "file" /\ e.name = f.name
(* Directories stay sound when entries of files are updated. *)
LEMMA EntryOk ==
    ASSUME NEW D, NEW E, NEW Q \in Owners, DirsOk(D, Q), NEW P \in Owners,
           \A s \in Slot : (E[s] = D[s] /\ P[s] = Q[s]) \/ SameName(E[s], D[s])
    PROVE  DirsOk(E, P)
<1>1. \A s \in Slot : E[s].kind = D[s].kind /\ E[s].name = D[s].name
  BY DEF SameName
<1>2. Dirs(E) = Dirs(D) /\ Holders(E) = Holders(D) /\ \A s \in Slot : Alive(E[s]) <=> Alive(D[s])
  BY <1>1 DEF Dirs, Holders, Alive
<1>3. \A s \in Dirs(D) : E[s] = D[s] /\ P[s] = Q[s]
  BY DEF Dirs, SameName
<1>4. \A d \in Holders(D) : Tab(P, d) = Tab(Q, d)
  BY <1>3 DEF Holders, Tab
<1>5. Rooted(E, P)
  <2>1. ASSUME NEW s \in Dirs(E)
        PROVE  P[s] # <<>> /\ E[s].start = P[s][1] /\ E[<<P[s][1], 0>>].kind = "dot"
    <3>1. s \in Slot /\ Q[s] # <<>> /\ D[s].start = Q[s][1] /\ D[<<Q[s][1], 0>>].kind = "dot" /\ E[s] = D[s] /\ P[s] = Q[s]
      BY <1>2, <1>3, <2>1 DEF DirsOk, Rooted, Dirs
    <3>2. <<Q[s][1], 0>> \in Slot
      BY <3>1, TabHead
    <3>3. QED
      BY <1>1, <3>1, <3>2
  <2>2. QED
    BY <2>1 DEF Rooted
<1>6. Placed(E, P)
  BY <1>2, <1>4 DEF DirsOk, Placed, InTab
<1>7. ASSUME NEW d \in Holders(E)
      PROVE  Ordered(E, Tab(P, d)) /\ Distinct(E, Tab(P, d))
  <2>1. PICK t : t = Tab(P, d)
    OBVIOUS
  <2>2. t = Tab(Q, d) /\ \A i \in 1 .. Len(t) : t[i] \in Slot
    BY <1>2, <1>4, <2>1, TabIs DEF Holders, Dirs
  <2>3. Ordered(D, t) /\ Distinct(D, t)
    BY <1>2, <2>2 DEF DirsOk, Tables
  <2>4. Ordered(E, t) /\ Distinct(E, t)
    BY <1>1, <1>2, <2>2, <2>3 DEF Ordered, Distinct
  <2>5. QED
    BY <2>1, <2>4
<1>8. Names(E) /\ Bare(E, P)
  <2>1. ASSUME NEW s \in Slot
        PROVE  NameOk(E[s]) /\ (~Alive(E[s]) => P[s] = <<>>)
    <3>1. NameOk(D[s])
      BY DEF DirsOk, Names
    <3>2. NameOk(E[s])
      BY <1>1, <1>2, <3>1 DEF NameOk
    <3>3. ~Alive(E[s]) => P[s] = <<>>
      BY DEF DirsOk, Bare, SameName, Alive
    <3>4. QED
      BY <3>2, <3>3
  <2>2. QED
    BY <2>1 DEF Names, Bare
<1>9. QED
  BY <1>5, <1>6, <1>7, <1>8 DEF DirsOk, Tables

(* All entries but one, and all chains but one. *)
OneEntry(E, D, P, Q, s) == \A x \in Slot : x # s => E[x] = D[x] /\ P[x] = Q[x]
(* A directory without files and directories. *)
NoneIn(D, Q, d) == \A i \in 1 .. Len(Tab(Q, d)) : ~Alive(D[Tab(Q, d)[i]])
NotNamed(D, t, n) == \A i \in 1 .. Len(t) : D[t[i]].name # n

(* A file, or an empty directory, is deleted. *)
LEMMA KillOk ==
    ASSUME NEW D, NEW E, NEW Q \in Owners, DirsOk(D, Q), NEW P \in Owners, NEW s \in Slot, OneEntry(E, D, P, Q, s),
           Alive(D[s]), D[s].kind = "dir" => NoneIn(D, Q, s), E[s] = Deleted, P[s] = <<>>
    PROVE  DirsOk(E, P)
<1>1. \A x \in Slot : x # s => E[x] = D[x] /\ P[x] = Q[x]
  BY DEF OneEntry
<1>2. ~Alive(E[s]) /\ NameOk(E[s]) /\ E[s].kind = "deleted" /\ E[s].name = NoName
  BY NoNames
<1>3. \A d \in Holders(E) : d \in Holders(D) /\ d # s /\ Tab(P, d) = Tab(Q, d)
  BY <1>1, <1>2, SlotIsOne DEF Holders, Dirs, Tab
<1>4. Rooted(E, P)
  <2>1. ASSUME NEW x \in Dirs(E)
        PROVE  P[x] # <<>> /\ E[x].start = P[x][1] /\ E[<<P[x][1], 0>>].kind = "dot"
    <3>1. x \in Slot /\ x # s /\ x \in Dirs(D)
      BY <1>1, <1>2, <2>1 DEF Dirs
    <3>2. Q[x] # <<>> /\ D[x].start = Q[x][1] /\ D[<<Q[x][1], 0>>].kind = "dot"
      BY <3>1 DEF DirsOk, Rooted
    <3>3. <<Q[x][1], 0>> \in Slot
      BY <3>1, <3>2, TabHead
    <3>4. <<Q[x][1], 0>> # s
      BY <3>2 DEF Alive
    <3>5. QED
      BY <1>1, <3>1, <3>2, <3>3, <3>4
  <2>2. QED
    BY <2>1 DEF Rooted
<1>5. Placed(E, P)
  <2>1. ASSUME NEW x \in Slot, Alive(E[x])
        PROVE  \E d \in Holders(E) : InTab(P, d, x)
    <3>1. x # s /\ Alive(D[x])
      BY <1>1, <1>2, <2>1
    <3>2. PICK d \in Holders(D) : InTab(Q, d, x)
      BY <3>1 DEF DirsOk, Placed
    <3>3. d # s
      <4>1. SUFFICES ASSUME d = s
                     PROVE  FALSE
        OBVIOUS
      <4>2. D[s].kind = "dir"
        BY <3>2, <4>1, SlotIsOne DEF Holders, Dirs
      <4>3. QED
        BY <3>1, <3>2, <4>1, <4>2 DEF NoneIn, InTab
    <3>4. d \in Holders(E)
      BY <1>1, <3>2, <3>3 DEF Holders, Dirs
    <3>5. QED
      BY <1>3, <3>2, <3>4 DEF InTab
  <2>2. QED
    BY <2>1 DEF Placed
<1>6. ASSUME NEW d \in Holders(E)
      PROVE  Ordered(E, Tab(P, d)) /\ Distinct(E, Tab(P, d))
  <2>1. PICK t : t = Tab(P, d)
    OBVIOUS
  <2>2. d \in Holders(D) /\ t = Tab(Q, d) /\ \A i \in 1 .. Len(t) : t[i] \in Slot
    BY <1>3, <2>1, TabIs DEF Holders, Dirs
  <2>3. Ordered(D, t) /\ Distinct(D, t)
    BY <2>2 DEF DirsOk, Tables
  <2>4. \A x \in Slot : E[x].kind = "unused" => D[x].kind = "unused"
    BY <1>1, <1>2
  <2>5. \A x \in Slot : D[x].kind = "unused" => E[x].kind = "unused"
    BY <1>1 DEF Alive
  <2>6. Ordered(E, t)
    BY <2>2, <2>3, <2>4, <2>5 DEF Ordered
  <2>7. ASSUME NEW i \in 1 .. Len(t), NEW j \in 1 .. Len(t), i # j, Alive(E[t[i]])
        PROVE  E[t[i]].name # E[t[j]].name
    <3>1. t[i] # s /\ t[i] \in Slot /\ t[j] \in Slot
      BY <1>2, <2>2, <2>7
    <3>2. E[t[i]] = D[t[i]] /\ D[t[i]].name # D[t[j]].name /\ D[t[i]].name # NoName
      BY <1>1, <2>3, <2>7, <3>1 DEF Distinct, DirsOk, Names, NameOk
    <3>3. QED
      BY <1>1, <1>2, <3>1, <3>2
  <2>8. QED
    BY <2>1, <2>6, <2>7 DEF Distinct
<1>7. Names(E) /\ Bare(E, P)
  <2>1. ASSUME NEW x \in Slot
        PROVE  NameOk(E[x]) /\ (~Alive(E[x]) => P[x] = <<>>)
    BY <1>1, <1>2 DEF DirsOk, Names, Bare
  <2>2. QED
    BY <2>1 DEF Names, Bare
<1>8. QED
  BY <1>4, <1>5, <1>6, <1>7 DEF DirsOk, Tables

(* A file is written into the first slot that is free. *)
LEMMA PutOk ==
    ASSUME NEW D, NEW E, NEW Q \in Owners, DirsOk(D, Q), Apart(Q), NEW P \in Owners, NEW s \in Slot, OneEntry(E, D, P, Q, s),
           NEW d \in Holders(D), NEW m \in 1 .. Len(Tab(Q, d)), Tab(Q, d)[m] = s,
           D[s].kind \in {"deleted", "unused"}, \A i \in 1 .. Len(Tab(Q, d)) : i < m => D[Tab(Q, d)[i]].kind # "unused",
           E[s].kind = "file", NameOk(E[s]), NotNamed(D, Tab(Q, d), E[s].name)
    PROVE  DirsOk(E, P)
<1>1. \A x \in Slot : x # s => E[x] = D[x] /\ P[x] = Q[x]
  BY DEF OneEntry
<1>2. Alive(E[s]) /\ ~Alive(D[s])
  BY DEF Alive
<1>3. Dirs(E) = Dirs(D) /\ Holders(E) = Holders(D) /\ s \notin Dirs(D)
  BY <1>1, <1>2 DEF Holders, Dirs, Alive
<1>4. \A x \in Holders(D) : x # s /\ Tab(P, x) = Tab(Q, x)
  BY <1>1, <1>3, SlotIsOne DEF Holders, Dirs, Tab
<1>5. Rooted(E, P)
  <2>1. ASSUME NEW x \in Dirs(E)
        PROVE  P[x] # <<>> /\ E[x].start = P[x][1] /\ E[<<P[x][1], 0>>].kind = "dot"
    <3>1. x \in Slot /\ x # s /\ x \in Dirs(D)
      BY <1>3, <2>1 DEF Dirs
    <3>2. Q[x] # <<>> /\ D[x].start = Q[x][1] /\ D[<<Q[x][1], 0>>].kind = "dot"
      BY <3>1 DEF DirsOk, Rooted
    <3>3. <<Q[x][1], 0>> \in Slot /\ <<Q[x][1], 0>> # s
      BY <3>1, <3>2, TabHead
    <3>4. QED
      BY <1>1, <3>1, <3>2, <3>3
  <2>2. QED
    BY <2>1 DEF Rooted
<1>6. Placed(E, P)
  <2>1. ASSUME NEW x \in Slot, Alive(E[x])
        PROVE  \E y \in Holders(E) : InTab(P, y, x)
    <3>1. CASE x = s
      BY <1>3, <1>4, <3>1 DEF InTab
    <3>2. CASE x # s
      <4>1. PICK y \in Holders(D) : InTab(Q, y, x)
        BY <1>1, <2>1, <3>2 DEF DirsOk, Placed
      <4>2. QED
        BY <1>3, <1>4, <4>1 DEF InTab
    <3>3. QED
      BY <3>1, <3>2
  <2>2. QED
    BY <2>1 DEF Placed
<1>7. ASSUME NEW x \in Holders(E)
      PROVE  Ordered(E, Tab(P, x)) /\ Distinct(E, Tab(P, x))
  <2>1. PICK t : t = Tab(P, x)
    OBVIOUS
  <2>2. x \in Holders(D) /\ t = Tab(Q, x) /\ \A i \in 1 .. Len(t) : t[i] \in Slot
    BY <1>3, <1>4, <2>1, TabIs DEF Holders, Dirs
  <2>3. Ordered(D, t) /\ Distinct(D, t)
    BY <2>2 DEF DirsOk, Tables
  <2>4. ASSUME NEW i \in 1 .. Len(t), t[i] = s
        PROVE  x = d /\ i = m
    BY <2>2, <2>4, TabApart DEF Holders, Dirs
  <2>5. ASSUME NEW i \in 1 .. Len(t), NEW j \in 1 .. Len(t), i < j, E[t[i]].kind = "unused"
        PROVE  E[t[j]].kind = "unused"
    <3>1. t[i] # s /\ t[i] \in Slot /\ t[j] \in Slot
      BY <2>2, <2>5
    <3>2. D[t[i]].kind = "unused" /\ D[t[j]].kind = "unused"
      BY <1>1, <2>3, <2>5, <3>1 DEF Ordered
    <3>3. t[j] # s
      BY <2>2, <2>4, <2>5, <3>2
    <3>4. QED
      BY <1>1, <3>1, <3>2, <3>3
  <2>6. ASSUME NEW i \in 1 .. Len(t), NEW j \in 1 .. Len(t), i # j, Alive(E[t[i]])
        PROVE  E[t[i]].name # E[t[j]].name
    <3>1. t[i] \in Slot /\ t[j] \in Slot
      BY <2>2
    <3>2. CASE t[i] = s
      <4>1. t[j] # s /\ t = Tab(Q, d)
        BY <2>2, <2>4, <2>6, <3>2
      <4>2. QED
        BY <1>1, <3>1, <3>2, <4>1 DEF NotNamed
    <3>3. CASE t[i] # s /\ t[j] = s
      <4>1. t = Tab(Q, d)
        BY <2>2, <2>4, <3>3
      <4>2. QED
        BY <1>1, <3>1, <3>3, <4>1 DEF NotNamed
    <3>4. CASE t[i] # s /\ t[j] # s
      BY <1>1, <2>3, <2>6, <3>1, <3>4 DEF Distinct
    <3>5. QED
      BY <3>2, <3>3, <3>4
  <2>7. QED
    BY <2>1, <2>5, <2>6 DEF Ordered, Distinct
<1>8. Names(E) /\ Bare(E, P)
  <2>1. ASSUME NEW x \in Slot
        PROVE  NameOk(E[x]) /\ (~Alive(E[x]) => P[x] = <<>>)
    BY <1>1, <1>2 DEF DirsOk, Names, Bare
  <2>2. QED
    BY <2>1 DEF Names, Bare
<1>9. QED
  BY <1>5, <1>6, <1>7, <1>8 DEF DirsOk, Tables

(* A file or a directory gets another name. *)
LEMMA RenamedOk ==
    ASSUME NEW D, NEW E, NEW Q \in Owners, DirsOk(D, Q), Apart(Q), NEW s \in Slot, OneEntry(E, D, Q, Q, s),
           NEW d \in Holders(D), NEW m \in 1 .. Len(Tab(Q, d)), Tab(Q, d)[m] = s,
           Alive(D[s]), E[s].kind = D[s].kind, E[s].start = D[s].start,
           NameOk(E[s]), NotNamed(D, Tab(Q, d), E[s].name)
    PROVE  DirsOk(E, Q)
<1>1. \A x \in Slot : x # s => E[x] = D[x]
  BY DEF OneEntry
<1>2. \A x \in Slot : E[x].kind = D[x].kind /\ E[x].start = D[x].start
  BY <1>1
<1>3. Dirs(E) = Dirs(D) /\ Holders(E) = Holders(D) /\ \A x \in Slot : Alive(E[x]) <=> Alive(D[x])
  BY <1>2 DEF Holders, Dirs, Alive
<1>4. Rooted(E, Q)
  <2>1. ASSUME NEW x \in Dirs(E)
        PROVE  Q[x] # <<>> /\ E[x].start = Q[x][1] /\ E[<<Q[x][1], 0>>].kind = "dot"
    <3>1. x \in Slot /\ Q[x] # <<>> /\ D[x].start = Q[x][1] /\ D[<<Q[x][1], 0>>].kind = "dot"
      BY <1>3, <2>1 DEF DirsOk, Rooted, Dirs
    <3>2. <<Q[x][1], 0>> \in Slot
      BY <3>1, TabHead
    <3>3. QED
      BY <1>2, <3>1, <3>2
  <2>2. QED
    BY <2>1 DEF Rooted
<1>5. Placed(E, Q)
  BY <1>3 DEF DirsOk, Placed
<1>6. ASSUME NEW x \in Holders(E)
      PROVE  Ordered(E, Tab(Q, x)) /\ Distinct(E, Tab(Q, x))
  <2>1. PICK t : t = Tab(Q, x)
    OBVIOUS
  <2>2. x \in Holders(D) /\ \A i \in 1 .. Len(t) : t[i] \in Slot
    BY <1>3, <2>1, TabIs DEF Holders, Dirs
  <2>3. Ordered(D, t) /\ Distinct(D, t)
    BY <2>1, <2>2 DEF DirsOk, Tables
  <2>4. ASSUME NEW i \in 1 .. Len(t), t[i] = s
        PROVE  x = d /\ i = m
    BY <2>1, <2>2, <2>4, TabApart DEF Holders, Dirs
  <2>5. Ordered(E, t)
    BY <1>2, <2>2, <2>3 DEF Ordered
  <2>6. ASSUME NEW i \in 1 .. Len(t), NEW j \in 1 .. Len(t), i # j, Alive(E[t[i]])
        PROVE  E[t[i]].name # E[t[j]].name
    <3>1. t[i] \in Slot /\ t[j] \in Slot
      BY <2>2
    <3>2. CASE t[i] = s
      <4>1. t[j] # s /\ t = Tab(Q, d)
        BY <2>1, <2>4, <2>6, <3>2
      <4>2. QED
        BY <1>1, <3>1, <3>2, <4>1 DEF NotNamed
    <3>3. CASE t[i] # s /\ t[j] = s
      <4>1. t = Tab(Q, d)
        BY <2>1, <2>4, <3>3
      <4>2. QED
        BY <1>1, <3>1, <3>3, <4>1 DEF NotNamed
    <3>4. CASE t[i] # s /\ t[j] # s
      BY <1>1, <2>3, <2>6, <3>1, <3>4 DEF Distinct
    <3>5. QED
      BY <3>2, <3>3, <3>4
  <2>7. QED
    BY <2>1, <2>5, <2>6 DEF Distinct
<1>7. Names(E) /\ Bare(E, Q)
  <2>1. ASSUME NEW x \in Slot
        PROVE  NameOk(E[x]) /\ (~Alive(E[x]) => Q[x] = <<>>)
    BY <1>1, <1>3 DEF DirsOk, Names, Bare
  <2>2. QED
    BY <2>1 DEF Names, Bare
<1>8. QED
  BY <1>4, <1>5, <1>6, <1>7 DEF DirsOk, Tables

(* Slots outside of all directories are cleared. *)
Faded(E, D, Q) == \A x \in Slot : E[x] = D[x] \/ (E[x] = Unused /\ \A d \in Holders(D) : ~InTab(Q, d, x))
(* Directories stay sound when such slots are cleared. *)
LEMMA FadedOk ==
    ASSUME NEW D, NEW E, NEW Q \in Owners, DirsOk(D, Q), Faded(E, D, Q)
    PROVE  DirsOk(E, Q) /\ Dirs(E) = Dirs(D) /\ \A x \in Slot : Alive(E[x]) \/ Alive(D[x]) => E[x] = D[x]
<1>1. \A d \in Holders(D) : \A x \in Slot : InTab(Q, d, x) => E[x] = D[x]
  BY DEF Faded
<1>2. \A x \in Slot : Alive(D[x]) \/ Alive(E[x]) => E[x] = D[x]
  BY <1>1, NoNames DEF Faded, DirsOk, Placed
<1>3. Dirs(E) = Dirs(D) /\ Holders(E) = Holders(D)
  BY <1>2 DEF Holders, Dirs, Alive
<1>4. Rooted(E, Q)
  <2>1. ASSUME NEW x \in Dirs(E)
        PROVE  Q[x] # <<>> /\ E[x].start = Q[x][1] /\ E[<<Q[x][1], 0>>].kind = "dot"
    <3>1. x \in Slot /\ x \in Holders(D) /\ Q[x] # <<>> /\ D[x].start = Q[x][1] /\ D[<<Q[x][1], 0>>].kind = "dot"
      BY <1>3, <2>1 DEF DirsOk, Rooted, Dirs, Holders
    <3>2. PICK y : y = <<Q[x][1], 0>>
      OBVIOUS
    <3>3. y \in Slot /\ InTab(Q, x, y)
      BY <3>1, <3>2, TabHead DEF InTab
    <3>4. E[y] = D[y] /\ E[x] = D[x]
      BY <1>1, <1>2, <2>1, <3>1, <3>3 DEF Dirs, Alive
    <3>5. QED
      BY <3>1, <3>2, <3>4
  <2>2. QED
    BY <2>1 DEF Rooted
<1>5. Placed(E, Q)
  BY <1>2, <1>3 DEF DirsOk, Placed
<1>6. ASSUME NEW x \in Holders(E)
      PROVE  Ordered(E, Tab(Q, x)) /\ Distinct(E, Tab(Q, x))
  <2>1. PICK t : t = Tab(Q, x)
    OBVIOUS
  <2>2. x \in Holders(D) /\ \A i \in 1 .. Len(t) : t[i] \in Slot
    BY <1>3, <2>1, TabIs DEF Holders, Dirs
  <2>3. Ordered(D, t) /\ Distinct(D, t)
    BY <2>1, <2>2 DEF DirsOk, Tables
  <2>4. \A i \in 1 .. Len(t) : E[t[i]] = D[t[i]]
    BY <1>1, <2>1, <2>2 DEF InTab
  <2>5. QED
    BY <2>1, <2>3, <2>4 DEF Ordered, Distinct
<1>7. Names(E) /\ Bare(E, Q)
  <2>1. ASSUME NEW x \in Slot
        PROVE  NameOk(E[x]) /\ (~Alive(E[x]) => Q[x] = <<>>)
    BY <1>2, NoNames DEF DirsOk, Names, Bare, Faded
  <2>2. QED
    BY <2>1 DEF Names, Bare
<1>8. QED
  BY <1>2, <1>3, <1>4, <1>5, <1>6, <1>7 DEF DirsOk, Tables

(* No directory reaches into a cluster outside of the chains. *)
LEMMA TabOutside ==
    ASSUME NEW Q \in Owners, NEW d \in {NoSlot} \cup Slot, NEW c \in Cluster, Outside(Q, c), NEW x, InTab(Q, d, x)
    PROVE  x[1] # c
<1>1. PICK i \in 1 .. Len(Tab(Q, d)) : Tab(Q, d)[i] = x
  BY DEF InTab
<1>2. CASE d = NoSlot /\ x[1] = Root
  BY <1>2, ClusterFacts DEF Root, FREE
<1>3. CASE d \in Slot /\ \E k \in 1 .. Len(Q[d]) : x[1] = Q[d][k]
  BY <1>3 DEF Outside
<1>4. QED
  BY <1>1, <1>2, <1>3, TabCluster

(* A directory grows by a cluster that is clear. *)
ClearIn(D, c) == \A x \in Slot : x[1] = c => D[x] = Unused
(* A directory stays sound when it has grown. *)
LEMMA GrownOk ==
    ASSUME NEW D, NEW Q \in Owners, DirsOk(D, Q), NEW c \in Cluster, ClearIn(D, c),
           NEW d \in Dirs(D), NEW P, P = Grown(Q, d, c)
    PROVE  DirsOk(D, P)
<1>1. d \in Slot /\ Alive(D[d])
  BY DEF Dirs, Alive
<1>2. P \in Owners /\ \A s \in Slot : s # d => P[s] = Q[s]
  BY <1>1, GrownIs
<1>3. Rooted(D, P)
  <2>1. ASSUME NEW x \in Dirs(D)
        PROVE  P[x] # <<>> /\ P[x][1] = Q[x][1]
    <3>1. x \in Slot /\ Q[x] # <<>>
      BY DEF DirsOk, Rooted, Dirs
    <3>2. CASE x = d
      <4>1. 1 \in 1 .. Len(Q[x])
        BY <3>1, OwnerFacts
      <4>2. P[d] # <<>> /\ \A i \in 1 .. Len(Q[d]) : P[d][i] = Q[d][i]
        BY <1>1, GrownIs
      <4>3. QED
        BY <3>2, <4>1, <4>2
    <3>3. QED
      BY <1>2, <3>1, <3>2
  <2>2. QED
    BY <2>1 DEF DirsOk, Rooted
<1>4. /\ \A e \in {NoSlot} \cup Slot : e # d => Tab(P, e) = Tab(Q, e)
      /\ Len(Tab(P, d)) > Len(Tab(Q, d))
      /\ \A i \in 1 .. Len(Tab(Q, d)) : Tab(P, d)[i] = Tab(Q, d)[i]
      /\ \A i \in 1 .. Len(Tab(P, d)) : i \notin 1 .. Len(Tab(Q, d)) => Tab(P, d)[i][1] = c
  BY <1>1, TabGrown
<1>5. PICK t, w : t = Tab(Q, d) /\ w = Tab(P, d)
  OBVIOUS
<1>6. /\ Len(t) \in Nat /\ Len(w) \in Nat /\ \A i \in 1 .. Len(w) : w[i] \in Slot
      /\ \A i \in 1 .. Len(t) : i \in 1 .. Len(w) /\ w[i] = t[i]
      /\ \A i \in 1 .. Len(w) : i \notin 1 .. Len(t) => D[w[i]] = Unused
  <2>1. Len(t) \in Nat /\ Len(w) \in Nat /\ \A i \in 1 .. Len(w) : w[i] \in Slot
    BY <1>1, <1>2, <1>5, TabIs
  <2>2. QED
    BY <1>4, <1>5, <2>1 DEF ClearIn
<1>7. Placed(D, P)
  <2>1. ASSUME NEW x \in Slot, NEW y \in Holders(D), InTab(Q, y, x)
        PROVE  InTab(P, y, x)
    <3>1. CASE y = d
      BY <1>5, <1>6, <2>1, <3>1 DEF InTab
    <3>2. CASE y # d
      BY <1>4, <2>1, <3>2 DEF InTab, Holders, Dirs
    <3>3. QED
      BY <3>1, <3>2
  <2>2. QED
    BY <2>1 DEF DirsOk, Placed
<1>8. ASSUME NEW x \in Holders(D)
      PROVE  Ordered(D, Tab(P, x)) /\ Distinct(D, Tab(P, x))
  <2>1. Ordered(D, Tab(Q, x)) /\ Distinct(D, Tab(Q, x))
    BY DEF DirsOk, Tables
  <2>2. CASE x # d
    BY <1>4, <2>1, <2>2 DEF Holders, Dirs
  <2>3. CASE x = d
    <3>1. Ordered(D, t) /\ Distinct(D, t)
      BY <1>5, <2>1, <2>3
    <3>2. ASSUME NEW i \in 1 .. Len(w), NEW j \in 1 .. Len(w), i < j, D[w[i]].kind = "unused"
          PROVE  D[w[j]].kind = "unused"
      <4>1. CASE j \in 1 .. Len(t)
        <5>1. i \in 1 .. Len(t)
          BY <1>6, <3>2, <4>1
        <5>2. QED
          BY <1>6, <3>1, <3>2, <4>1, <5>1 DEF Ordered
      <4>2. CASE j \notin 1 .. Len(t)
        BY <1>6, <4>2, NoNames
      <4>3. QED
        BY <4>1, <4>2
    <3>3. ASSUME NEW i \in 1 .. Len(w), NEW j \in 1 .. Len(w), i # j, Alive(D[w[i]])
          PROVE  D[w[i]].name # D[w[j]].name
      <4>1. i \in 1 .. Len(t)
        BY <1>6, <3>3, NoNames
      <4>2. D[w[i]].name # NoName
        BY <1>6, <3>3 DEF DirsOk, Names, NameOk
      <4>3. CASE j \in 1 .. Len(t)
        BY <1>6, <3>1, <3>3, <4>1, <4>3 DEF Distinct
      <4>4. CASE j \notin 1 .. Len(t)
        BY <1>6, <4>2, <4>4, NoNames
      <4>5. QED
        BY <4>3, <4>4
    <3>4. QED
      BY <1>5, <2>3, <3>2, <3>3 DEF Ordered, Distinct
  <2>4. QED
    BY <2>2, <2>3
<1>9. Bare(D, P)
  BY <1>1, <1>2 DEF DirsOk, Bare
<1>10. QED
  BY <1>3, <1>7, <1>8, <1>9 DEF DirsOk, Tables

(* The cluster number that stands for a directory. *)
HeadOf(Q, x) == IF x = NoSlot THEN Root ELSE Q[x][1]
(* The work of a call on a disk of sound chains and directories. *)
Fit(W, Q) == W \in Good /\ Q \in Owners /\ Laid(W.fat, Q) /\ DirsOk(W.dirent, Q)

(* What a table reads as, by the number of its directory. *)
LEMMA DirSlotsAre ==
    ASSUME NEW W, NEW Q, Fit(W, Q), NEW x \in Holders(W.dirent), NEW dc, dc = HeadOf(Q, x)
    PROVE  /\ DirSlots(W, dc) = Tab(Q, x) /\ dc \in Start /\ (x # NoSlot => dc \in Cluster)
           /\ (dc = Root <=> x = NoSlot)
<1>1. CASE x = NoSlot
  BY <1>1 DEF HeadOf, DirSlots, Tab, RootSlots, Start, Root, FREE
<1>2. CASE x # NoSlot
  <2>1. x \in Slot /\ x \in Dirs(W.dirent)
    BY <1>2 DEF Holders, Dirs
  <2>2. Q[x] # <<>>
    BY <2>1 DEF Fit, DirsOk, Rooted
  <2>3. W.fat \in [Cluster -> FatEntry]
    BY DEF Fit, Good, Work
  <2>4. Q \in Owners /\ Laid(W.fat, Q)
    BY DEF Fit
  <2>5. Chain(W.fat, Q[x][1]) = Q[x] /\ Q[x][1] \in Cluster
    BY <2>1, <2>2, <2>3, <2>4, ChainIs
  <2>6. dc = Q[x][1] /\ dc # Root
    BY <1>2, <2>5, ClusterFacts DEF HeadOf, Root, FREE
  <2>7. QED
    BY <1>2, <2>5, <2>6 DEF DirSlots, Tab, Start
<1>3. QED
  BY <1>1, <1>2

(* Two directories of a disk have two numbers. *)
LEMMA OneHolder ==
    ASSUME NEW W, NEW Q, Fit(W, Q), NEW x \in Holders(W.dirent), NEW y \in Holders(W.dirent), HeadOf(Q, x) = HeadOf(Q, y)
    PROVE  x = y
<1>1. CASE x = NoSlot \/ y = NoSlot
  BY <1>1, DirSlotsAre
<1>2. CASE x # NoSlot /\ y # NoSlot
  <2>1. x \in Slot /\ y \in Slot /\ Q[x] # <<>> /\ Q[y] # <<>>
    BY <1>2 DEF Holders, Dirs, Fit, DirsOk, Rooted
  <2>2. Q \in Owners /\ Apart(Q)
    BY DEF Fit, Laid
  <2>3. 1 \in 1 .. Len(Q[x]) /\ 1 \in 1 .. Len(Q[y])
    BY <2>1, <2>2, OwnerFacts
  <2>4. Q[x][1] = Q[y][1]
    BY <1>2 DEF HeadOf
  <2>5. QED
    BY <2>1, <2>2, <2>3, <2>4 DEF Apart
<1>3. QED
  BY <1>1, <1>2

(* dir_open finds the root or a directory. *)
LEMMA FindsDir ==
    ASSUME NEW W, NEW Q, Fit(W, Q), NEW d, DirOf(W, d) # ERROR
    PROVE  \E x \in Holders(W.dirent) : DirOf(W, d) = HeadOf(Q, x)
<1>1. CASE d = NoName
  BY <1>1 DEF DirOf, Holders, HeadOf
<1>2. CASE d # NoName
  <2> DEFINE s == SlotIn(W, Root, d)
  <2>1. DirOf(W, d) = StartOfDir(W, s)
    BY <1>2 DEF DirOf
  <2>2. s # NoSlot => s \in Slot
    BY SlotInIs DEF Fit
  <2> HIDE DEF s
  <2>3. s \in Slot /\ W.dirent[s].kind = "dir" /\ StartOfDir(W, s) = W.dirent[s].start
    BY <2>1, <2>2 DEF StartOfDir
  <2>4. s \in Dirs(W.dirent) /\ s # NoSlot
    BY <2>3, SlotIsOne DEF Dirs
  <2>5. W.dirent[s].start = Q[s][1]
    BY <2>4 DEF Fit, DirsOk, Rooted
  <2>6. QED
    BY <2>1, <2>3, <2>4, <2>5 DEF Holders, HeadOf
<1>3. QED
  BY <1>1, <1>2

(* dir_read stops at an unused entry, or reads all. *)
LEMMA DirReadAll ==
    ASSUME NEW W \in Good, NEW dc, NEW i \in 1 .. Len(DirSlots(W, dc)), Ordered(W.dirent, DirSlots(W, dc)),
           W.dirent[DirSlots(W, dc)[i]].kind # "unused"
    PROVE  i \in 1 .. Len(DirRead(W, dc)) /\ DirRead(W, dc)[i] = DirSlots(W, dc)[i]
<1> DEFINE slots == DirSlots(W, dc)
           I == Stops(W, dc)
           k == FirstIndex(I)
<1>1. slots \in Seq(Slot) /\ Len(slots) \in Nat
  BY SlotsType
<1>2. DirRead(W, dc) = UpTo(slots, k)
  BY DEF DirRead, Before, SelectInSeq, FirstIndex, Stops
<1>3. k \in 0 .. Len(slots) /\ (k # 0 => k \in I)
  <2>1. I \in SUBSET (1 .. Len(slots))
    BY DEF Stops
  <2> HIDE DEF I, slots
  <2>2. QED
    BY <1>1, <2>1, FirstIndexIs
<1>4. k # 0 => k \in 1 .. Len(slots) /\ W.dirent[slots[k]].kind = "unused"
  BY <1>3 DEF Stops
<1>5. PICK r : r = DirRead(W, dc)
  OBVIOUS
<1>6. \A j \in 1 .. Len(r) : r[j] = slots[j]
  BY <1>5, DirReadIs
<1>7. Ordered(W.dirent, slots) /\ i \in 1 .. Len(slots) /\ W.dirent[slots[i]].kind # "unused"
  OBVIOUS
<1> HIDE DEF I, k, slots
<1>8. CASE k = 0
  <2>1. r = slots
    BY <1>2, <1>5, <1>8 DEF UpTo
  <2>2. QED
    BY <1>5, <1>6, <1>7, <2>1 DEF slots
<1>9. CASE k # 0
  <2>1. PICK m \in Nat : m = k - 1 /\ m <= Len(slots) /\ k \in Nat /\ k = m + 1
    BY <1>1, <1>3, <1>9
  <2>2. r = SubSeq(slots, 1, m)
    BY <1>2, <1>5, <1>9, <2>1 DEF UpTo
  <2>3. Len(r) = m
    <3>1. \A j \in 1 .. m : slots[j] \in Slot
      BY <1>1, <2>1
    <3>2. Len(SubSeq(slots, 1, m)) = IF 1 <= m THEN m - 1 + 1 ELSE 0
      BY <2>1, <3>1, SubSeqProperties
    <3>3. QED
      BY <2>1, <2>2, <3>2
  <2>4. ~(k < i)
    BY <1>4, <1>7, <1>9 DEF Ordered
  <2>5. i # k
    BY <1>4, <1>7, <1>9
  <2>6. i \in 1 .. Len(r)
    BY <1>1, <1>7, <2>1, <2>3, <2>4, <2>5
  <2>7. QED
    BY <1>5, <1>6, <2>6 DEF slots
<1>10. QED
  BY <1>8, <1>9

(* A name that is not found is not in the directory. *)
LEMMA FindsNone ==
    ASSUME NEW W, NEW Q, Fit(W, Q), NEW x \in Holders(W.dirent), NEW dc, dc = HeadOf(Q, x),
           NEW n, n # NoName, SlotIn(W, dc, n) = NoSlot
    PROVE  NotNamed(W.dirent, Tab(Q, x), n)
<1>1. W \in Good /\ Ordered(W.dirent, Tab(Q, x)) /\ Names(W.dirent) /\ Q \in Owners
  BY DEF Fit, DirsOk, Tables
<1>2. PICK t : t = Tab(Q, x) /\ t = DirSlots(W, dc)
  BY DirSlotsAre
<1>3. \A i \in 1 .. Len(t) : t[i] \in Slot
  BY <1>1, <1>2, TabIs DEF Holders, Dirs
<1> DEFINE read == DirRead(W, dc)
           I == Named(W, dc, n)
           k == FirstIndex(I)
<1>4. /\ read \in Seq(Slot) /\ Len(read) \in Nat
      /\ \A i \in 1 .. Len(read) : read[i] \in Slot
  BY <1>1, DirReadIs
<1>5. SlotIn(W, dc, n) = IF k = 0 THEN NoSlot ELSE read[k]
  BY DEF SlotIn, FirstOf, NthOrNone, SelectInSeq, FirstIndex, Named
<1>6. k \in 0 .. Len(read) /\ (k = 0 => I = {})
  <2>1. I \in SUBSET (1 .. Len(read))
    BY DEF Named
  <2> HIDE DEF I, read
  <2>2. I # {} => FirstIndex(I) \in I
    BY <1>4, <2>1, FirstIndexIs
  <2>3. FirstIndex(I) \in 0 .. Len(read)
    BY <1>4, <2>1, FirstIndexIs
  <2>4. 0 \notin I
    BY <2>1
  <2>5. QED
    BY <2>2, <2>3, <2>4
<1>7. k = 0
  <2> HIDE DEF k, read
  <2>1. SUFFICES ASSUME k # 0
                 PROVE  FALSE
    OBVIOUS
  <2>2. read[k] \in Slot /\ read[k] = NoSlot
    BY <1>4, <1>5, <1>6, <2>1
  <2>3. QED
    BY <2>2, SlotIsOne
<1>8. I = {}
  BY <1>6, <1>7
<1>9. ASSUME NEW i \in 1 .. Len(t), W.dirent[t[i]].name = n
      PROVE  FALSE
  <2>1. Alive(W.dirent[t[i]])
    BY <1>1, <1>3, <1>9 DEF Names, NameOk
  <2>2. W.dirent[t[i]].kind # "unused"
    BY <2>1 DEF Alive
  <2>3. i \in 1 .. Len(DirRead(W, dc)) /\ DirRead(W, dc)[i] = t[i]
    BY <1>1, <1>2, <2>2, DirReadAll
  <2>4. i \in I
    BY <1>9, <2>3 DEF Named
  <2>5. QED
    BY <1>8, <2>4
<1>10. QED
  BY <1>2, <1>9 DEF NotNamed

(* find_free: the first slot of the table that is free. *)
LEMMA FreeAt ==
    ASSUME NEW W, NEW Q, Fit(W, Q), NEW x \in Holders(W.dirent), NEW dc, dc = HeadOf(Q, x), find_free(W, dc) # NoSlot
    PROVE  /\ find_free(W, dc) \in Slot /\ W.dirent[find_free(W, dc)].kind \in {"deleted", "unused"}
           /\ \E m \in 1 .. Len(Tab(Q, x)) :
                 /\ Tab(Q, x)[m] = find_free(W, dc)
                 /\ \A i \in 1 .. Len(Tab(Q, x)) : i < m => W.dirent[Tab(Q, x)[i]].kind # "unused"
<1>1. W \in Good
  BY DEF Fit
<1>2. PICK t : t = Tab(Q, x) /\ t = DirSlots(W, dc)
  BY DirSlotsAre
<1> DEFINE I == Usable(W, dc)
           k == FirstIndex(I)
<1>3. t \in Seq(Slot) /\ Len(t) \in Nat
  BY <1>1, <1>2, SlotsType
<1>4. find_free(W, dc) = IF k = 0 THEN NoSlot ELSE t[k]
  BY <1>2 DEF find_free, FirstOf, NthOrNone, SelectInSeq, FirstIndex, Usable
<1>5. k # 0 => k \in I /\ \A j \in I : k <= j
  <2>1. I \in SUBSET (1 .. Len(t))
    BY <1>2 DEF Usable
  <2> HIDE DEF I
  <2>2. QED
    BY <1>3, <2>1, FirstIndexIs
<1>6. \A i \in 1 .. Len(t) : i \in I <=> W.dirent[t[i]].kind \in {"deleted", "unused"}
  BY <1>2 DEF Usable
<1>7. I \subseteq 1 .. Len(t)
  BY <1>2 DEF Usable
<1> HIDE DEF k, I
<1>8. k # 0 /\ k \in 1 .. Len(t) /\ find_free(W, dc) = t[k]
  BY <1>4, <1>5, <1>7
<1>9. \A i \in 1 .. Len(t) : i < k => W.dirent[t[i]].kind # "unused"
  BY <1>3, <1>5, <1>6, <1>8
<1>10. find_free(W, dc) \in Slot /\ W.dirent[find_free(W, dc)].kind \in {"deleted", "unused"}
  BY <1>1, FindFreeIs
<1>11. QED
  BY <1>2, <1>8, <1>9, <1>10

(* And no cluster of it is lost, unless a link has failed. *)
Firm(W, Q, b) == Fit(W, Q) /\ (b \/ W.broken \/ Whole(W.fat, Q))
SameDisk(X, W) == X.fat = W.fat /\ X.broken = W.broken /\ X.ok = W.ok

(* An entry written. *)
LEMMA DirWriteIs ==
    ASSUME NEW W \in Good, NEW s \in Slot, NEW e \in DirEntry
    PROVE  /\ dir_write(W, s, e) \in Good /\ SameDisk(dir_write(W, s, e), W)
           /\ dir_write(W, s, e).dirent[s] = e
           /\ \A x \in Slot : x # s => dir_write(W, s, e).dirent[x] = W.dirent[x]
<1>1. dir_write(W, s, e) \in Good
  BY DirWriteGood
<1>2. W.dirent \in [Slot -> DirEntry] /\ W \in Work
  BY DEF Good, Work
<1>3. PICK d : d = [W.dirent EXCEPT ![s] = e]
  OBVIOUS
<1>4. dir_write(W, s, e) = [W EXCEPT !.dirent = d]
  BY <1>3 DEF dir_write
<1>5. d[s] = e /\ \A x \in Slot : x # s => d[x] = W.dirent[x]
  BY <1>2, <1>3
<1>6. [W EXCEPT !.dirent = d].dirent = d /\ SameDisk([W EXCEPT !.dirent = d], W)
  BY <1>2 DEF Work, SameDisk
<1>7. QED
  BY <1>1, <1>4, <1>5, <1>6

(* A cluster of entries cleared. *)
LEMMA ClearIs ==
    ASSUME NEW W \in Good, NEW c
    PROVE  /\ clear_dir(W, c) \in Good /\ SameDisk(clear_dir(W, c), W)
           /\ \A x \in Slot : clear_dir(W, c).dirent[x] = IF x[1] = c THEN Unused ELSE W.dirent[x]
<1>1. clear_dir(W, c) \in Good
  BY ClearGood
<1>2. W \in Work
  BY DEF Good
<1>3. PICK d : d = [x \in Slot |-> IF x[1] = c THEN Unused ELSE W.dirent[x]]
  OBVIOUS
<1>4. clear_dir(W, c) = [W EXCEPT !.dirent = d]
  BY <1>2, <1>3 DEF clear_dir, Work
<1>5. [W EXCEPT !.dirent = d].dirent = d /\ SameDisk([W EXCEPT !.dirent = d], W)
  BY <1>2 DEF Work, SameDisk
<1>6. QED
  BY <1>1, <1>3, <1>4, <1>5

(* The entries of a long name go. *)
LEMMA RemoveIs ==
    ASSUME NEW W \in Good, NEW dc, NEW s
    PROVE  /\ remove_lfn_entries(W, dc, s) \in Good /\ SameDisk(remove_lfn_entries(W, dc, s), W)
           /\ LfnGone(remove_lfn_entries(W, dc, s).dirent, W.dirent)
<1> DEFINE slots == DirSlots(W, dc)
           J == {i \in 1 .. Len(slots) : slots[i] = s}
           at == FirstIndex(J)
           run == LfnRun(W, slots, s)
<1>1. slots \in Seq(Slot) /\ Len(slots) \in Nat
  BY SlotsType
<1>2. run = LfnBefore(W, slots, at)
  BY DEF LfnRun, SelectInSeq, FirstIndex
<1>3. at \in Nat
  <2>1. J \in SUBSET (1 .. Len(slots))
    OBVIOUS
  <2> HIDE DEF J, slots
  <2>2. at \in 0 .. Len(slots)
    BY <1>1, <2>1, FirstIndexIs
  <2>3. QED
    BY <2>2
<1> HIDE DEF at
<1>4. \A x \in run : W.dirent[x].kind = "lfn"
  <2>1. TAKE x \in run
  <2>2. PICK k \in 1 .. at - 1 : x = slots[k] /\ \A m \in k .. at - 1 : W.dirent[slots[m]].kind = "lfn"
    BY <1>2 DEF LfnBefore
  <2>3. k \in k .. at - 1
    BY <1>3
  <2>4. QED
    BY <2>2, <2>3
<1>5. PICK R : R = remove_lfn_entries(W, dc, s)
  OBVIOUS
<1>6. R = DeletedAt(W, run)
  BY <1>5 DEF remove_lfn_entries
<1> HIDE DEF run, slots
<1>7. W \in Work /\ R \in Good
  BY <1>5, RemoveGood DEF Good
<1>8. PICK d : d = [x \in Slot |-> IF x \in run THEN Deleted ELSE W.dirent[x]]
  OBVIOUS
<1>9. R = [W EXCEPT !.dirent = d]
  BY <1>6, <1>7, <1>8 DEF DeletedAt, Work
<1>10. R.dirent = d /\ SameDisk(R, W)
  BY <1>7, <1>9 DEF Work, SameDisk
<1>11. LfnGone(R.dirent, W.dirent)
  BY <1>4, <1>8, <1>10 DEF LfnGone
<1>12. QED
  BY <1>5, <1>7, <1>10, <1>11

(* What is alive stays as it is, and so do the chains of the files. *)
Spread(E, D, P, Q) ==
    \A s \in Slot : (Alive(E[s]) \/ Alive(D[s]) => E[s] = D[s]) /\ (D[s].kind # "dir" => P[s] = Q[s])
(* A slot for a new entry in a directory x with the number dc. *)
Room(A, P, x, dc) == x \in Holders(A.dirent) /\ dc = HeadOf(P, x) /\ find_free(A, dc) # NoSlot
(* Names that were not in it are not in it. *)
NoneNamed(A, P, W, Q, x) ==
    \A n : n # NoName /\ NotNamed(W.dirent, Tab(Q, x), n) => NotNamed(A.dirent, Tab(P, x), n)

(* A directory of clusters grows by one that is clear, or does not. *)
LEMMA ExtendDirOk ==
    ASSUME NEW W, W.ok, NEW Q, NEW b, Firm(W, Q, b), NEW x \in Dirs(W.dirent), NEW dc, dc = HeadOf(Q, x), NEW A, A = extend_dir(W, dc)
    PROVE  \E P : /\ Firm(A, P, b) /\ Spread(A.dirent, W.dirent, P, Q)
                  /\ A.ok => Room(A, P, x, dc) /\ NoneNamed(A, P, W, Q, x)
<1>1. W \in Good /\ Q \in Owners /\ Laid(W.fat, Q) /\ DirsOk(W.dirent, Q) /\ Fit(W, Q) /\ W \in Work
      /\ W.fat \in [Cluster -> FatEntry]
  BY DEF Firm, Fit, Good, Work
<1>2. x \in Slot /\ x # NoSlot /\ x \in Holders(W.dirent) /\ Q[x] # <<>> /\ dc = Q[x][1]
  BY <1>1, SlotIsOne DEF Dirs, Holders, HeadOf, DirsOk, Rooted
<1> DEFINE l == Q[x][Len(Q[x])]
           V == [W EXCEPT !.cu = l]
           X == Extend(V)
<1>3. A = IF X.ok THEN clear_dir(X, X.got) ELSE X
  <2>1. Chain(W.fat, dc) = Q[x]
    BY <1>1, <1>2, ChainIs
  <2>2. QED
    BY <2>1 DEF extend_dir, Then, Last
<1>4. l \in Cluster
  BY <1>1, <1>2, OwnerFacts
<1> HIDE DEF l
<1>5. V \in Good /\ V.fat = W.fat /\ V.broken = W.broken /\ V.ok = W.ok /\ V.cu = l /\ V.dirent = W.dirent
  BY <1>1, <1>4 DEF Good, Work, Start
<1>6. Sound(V, Q, b) /\ AtEnd(V, Q, x) /\ V.ok
  BY <1>1, <1>2, <1>5 DEF Sound, AtEnd, Firm, l
<1> HIDE DEF V
<1>7. /\ X \in Good /\ SameDirs(X, V)
      /\ \/ ~X.ok /\ Sound(X, Q, b)
         \/ /\ X.ok /\ X.got \in Cluster /\ Outside(Q, X.got)
            /\ Sound(X, Grown(Q, x, X.got), b)
  BY <1>1, <1>2, <1>5, <1>6, ExtendLays
<1>8. X.dirent = W.dirent
  BY <1>5, <1>7 DEF SameDirs
<1> HIDE DEF X
<1>9. CASE ~X.ok
  <2>1. A = X /\ Sound(X, Q, b)
    BY <1>3, <1>7, <1>9
  <2>2. Firm(A, Q, b)
    BY <1>1, <1>7, <1>8, <2>1 DEF Firm, Fit, Sound
  <2>3. Spread(A.dirent, W.dirent, Q, Q)
    BY <1>8, <2>1 DEF Spread
  <2>4. QED
    BY <1>9, <2>1, <2>2, <2>3
<1>10. CASE X.ok
  <2>1. PICK c : c = X.got
    OBVIOUS
  <2>2. c \in Cluster /\ Outside(Q, c) /\ Sound(X, Grown(Q, x, c), b) /\ A = clear_dir(X, c)
    BY <1>3, <1>7, <1>10, <2>1
  <2>3. PICK P : P = Grown(Q, x, c)
    OBVIOUS
  <2>4. /\ A \in Good /\ SameDisk(A, X)
        /\ \A y \in Slot : A.dirent[y] = IF y[1] = c THEN Unused ELSE W.dirent[y]
    BY <1>7, <1>8, <2>2, ClearIs
  <2>5. Faded(A.dirent, W.dirent, Q)
    <3>1. ASSUME NEW y \in Slot, y[1] = c, NEW d \in Holders(W.dirent), InTab(Q, d, y)
          PROVE  FALSE
      BY <1>1, <2>2, <3>1, TabOutside DEF Holders, Dirs
    <3>2. QED
      BY <2>4, <3>1 DEF Faded
  <2>6. PICK D, E : D = W.dirent /\ E = A.dirent
    OBVIOUS
  <2>7. /\ DirsOk(E, Q) /\ Dirs(E) = Dirs(D)
        /\ \A y \in Slot : Alive(E[y]) \/ Alive(D[y]) => E[y] = D[y]
    <3>1. DirsOk(D, Q) /\ Faded(E, D, Q)
      BY <1>1, <2>5, <2>6
    <3>2. QED
      BY <1>1, <3>1, FadedOk
  <2>8. ClearIn(E, c)
    BY <2>4, <2>6 DEF ClearIn
  <2>9. DirsOk(E, P)
    <3>1. x \in Dirs(E)
      BY <2>6, <2>7
    <3>2. QED
      BY <1>1, <2>2, <2>3, <2>7, <2>8, <3>1, GrownOk
  <2>10. P \in Owners /\ \A s \in Slot : s # x => P[s] = Q[s]
    BY <1>1, <1>2, <2>2, <2>3, GrownIs
  <2>11. Firm(A, P, b)
    <3>1. A.fat = X.fat /\ A.broken = X.broken /\ Sound(X, P, b)
      BY <2>2, <2>3, <2>4 DEF SameDisk
    <3>2. QED
      BY <2>4, <2>6, <2>9, <2>10, <3>1 DEF Firm, Fit, Sound
  <2>12. Spread(E, D, P, Q)
    <3>1. D[x].kind = "dir"
      BY <2>6 DEF Dirs
    <3>2. QED
      BY <2>7, <2>10, <3>1 DEF Spread
  <2>13. dc = HeadOf(P, x) /\ x \in Holders(E)
    <3>1. 1 \in 1 .. Len(Q[x])
      BY <1>1, <1>2, OwnerFacts
    <3>2. \A i \in 1 .. Len(Q[x]) : P[x][i] = Q[x][i]
      BY <1>1, <1>2, <2>2, <2>3, GrownIs
    <3>3. QED
      BY <1>2, <2>6, <2>7, <3>1, <3>2 DEF HeadOf, Holders
  <2>14. PICK t, w : t = Tab(Q, x) /\ w = Tab(P, x)
    OBVIOUS
  <2>15. /\ Len(w) > Len(t) /\ Len(w) \in Nat /\ Len(t) \in Nat
         /\ \A i \in 1 .. Len(w) : w[i] \in Slot
         /\ \A i \in 1 .. Len(t) : w[i] = t[i]
         /\ \A i \in 1 .. Len(w) : i \notin 1 .. Len(t) => w[i][1] = c
    <3>1. Len(w) \in Nat /\ Len(t) \in Nat /\ \A i \in 1 .. Len(w) : w[i] \in Slot
      BY <1>1, <1>2, <2>10, <2>14, TabIs
    <3>2. /\ Len(w) > Len(t) /\ \A i \in 1 .. Len(t) : w[i] = t[i]
          /\ \A i \in 1 .. Len(w) : i \notin 1 .. Len(t) => w[i][1] = c
      BY <1>1, <1>2, <2>2, <2>3, <2>14, TabGrown
    <3>3. QED
      BY <3>1, <3>2
  <2>16. find_free(A, dc) # NoSlot
    <3>1. SUFFICES ASSUME find_free(A, dc) = NoSlot
                   PROVE  FALSE
      OBVIOUS
    <3>2. DirSlots(A, dc) = w
      <4>1. Fit(A, P) /\ x \in Holders(A.dirent) /\ dc = HeadOf(P, x)
        BY <2>6, <2>11, <2>13 DEF Firm
      <4>2. QED
        BY <2>14, <4>1, DirSlotsAre
    <3>3. \A i \in 1 .. Len(w) : A.dirent[w[i]].kind \notin {"deleted", "unused"}
      BY <2>4, <3>1, <3>2, FindFreeIs
    <3>4. Len(w) \in 1 .. Len(w) /\ Len(w) \notin 1 .. Len(t)
      BY <2>15
    <3>5. A.dirent[w[Len(w)]] = Unused
      BY <2>6, <2>8, <2>15, <3>4 DEF ClearIn
    <3>6. QED
      BY <3>3, <3>4, <3>5, NoNames
  <2>17. NoneNamed(A, P, W, Q, x)
    <3>1. ASSUME NEW n, n # NoName, NotNamed(D, t, n), NEW i \in 1 .. Len(w), E[w[i]].name = n
          PROVE  FALSE
      <4>1. w[i] \in Slot
        BY <2>15
      <4>2. Alive(E[w[i]])
        BY <2>7, <3>1, <4>1 DEF DirsOk, Names, NameOk
      <4>3. CASE i \in 1 .. Len(t)
        BY <2>7, <2>15, <3>1, <4>1, <4>2, <4>3 DEF NotNamed
      <4>4. CASE i \notin 1 .. Len(t)
        <5>1. E[w[i]] = Unused
          BY <2>8, <2>15, <4>1, <4>4 DEF ClearIn
        <5>2. QED
          BY <4>2, <5>1, NoNames
      <4>5. QED
        BY <4>3, <4>4
    <3>2. ASSUME NEW n, n # NoName, NotNamed(D, t, n)
          PROVE  NotNamed(E, w, n)
      BY <3>1, <3>2 DEF NotNamed
    <3>3. QED
      BY <2>6, <2>14, <3>2 DEF NoneNamed
  <2>18. QED
    BY <2>6, <2>11, <2>12, <2>13, <2>16, <2>17 DEF Room
<1>11. QED
  BY <1>9, <1>10

(* alloc_find_free: there is a free slot, or there is none and the call *)
(* fails.                                                               *)
LEMMA AllocOk ==
    ASSUME NEW W, W.ok, NEW Q, NEW b, Firm(W, Q, b), NEW x \in Holders(W.dirent), NEW dc, dc = HeadOf(Q, x), NEW A, A = alloc_find_free(W, dc)
    PROVE  \E P : /\ Firm(A, P, b) /\ Spread(A.dirent, W.dirent, P, Q)
                  /\ A.ok => Room(A, P, x, dc) /\ NoneNamed(A, P, W, Q, x)
<1>1. Spread(W.dirent, W.dirent, Q, Q) /\ W \in Good /\ Fit(W, Q)
  BY DEF Spread, Firm, Fit
<1>2. CASE find_free(W, dc) # NoSlot
  <2>1. A = W
    BY <1>2 DEF alloc_find_free
  <2>2. Room(A, Q, x, dc) /\ NoneNamed(A, Q, W, Q, x)
    BY <1>2, <2>1 DEF Room, NoneNamed
  <2>3. QED
    BY <1>1, <2>1, <2>2
<1>3. CASE find_free(W, dc) = NoSlot /\ dc = Root
  <2>1. A = Refused(W) /\ A \in Good
    <3>1. Refused(W) \in Good
      BY <1>1 DEF Refused, Good, Work
    <3>2. QED
      BY <1>3, <3>1 DEF alloc_find_free
  <2>2. A.fat = W.fat /\ A.broken = W.broken /\ A.dirent = W.dirent /\ A.ok = FALSE
    BY <1>1, <2>1, RefusedIs DEF SameDirs
  <2>3. Firm(A, Q, b)
    BY <2>1, <2>2 DEF Firm, Fit
  <2>4. QED
    BY <1>1, <2>2, <2>3
<1>4. CASE find_free(W, dc) = NoSlot /\ dc # Root
  <2>1. x \in Dirs(W.dirent) /\ A = extend_dir(W, dc)
    BY <1>1, <1>4, DirSlotsAre DEF alloc_find_free, Holders
  <2>2. QED
    BY <2>1, ExtendDirOk
<1>5. QED
  BY <1>2, <1>3, <1>4

(* A disk with the same FAT and other entries. *)
LEMMA FirmSame ==
    ASSUME NEW W, NEW Q, NEW b, Firm(W, Q, b), NEW X \in Good, SameDisk(X, W), DirsOk(X.dirent, Q)
    PROVE  Firm(X, Q, b)
BY DEF Firm, Fit, SameDisk

(* The entries of a long name go from a sound disk. *)
LEMMA RemoveOk ==
    ASSUME NEW W, NEW Q, NEW b, Firm(W, Q, b), NEW dc, NEW s, NEW R, R = remove_lfn_entries(W, dc, s)
    PROVE  Firm(R, Q, b) /\ SameDisk(R, W) /\ LfnGone(R.dirent, W.dirent)
<1>1. W \in Good /\ Q \in Owners /\ DirsOk(W.dirent, Q)
  BY DEF Firm, Fit
<1>2. R \in Good /\ SameDisk(R, W) /\ LfnGone(R.dirent, W.dirent)
  BY <1>1, RemoveIs
<1>3. PICK D, E : D = W.dirent /\ E = R.dirent
  OBVIOUS
<1>4. DirsOk(E, Q)
  BY <1>1, <1>2, <1>3, LfnOk
<1>5. QED
  BY <1>2, <1>3, <1>4, FirmSame

(* The chain of a slot is given back. *)
LEMMA WipesChain ==
    ASSUME NEW W \in Good, W.ok, NEW Q \in Owners, NEW b, Sound(W, Q, b), NEW s \in Slot, NEW c, c = StartIn(Q[s]),
           NEW X, X = WipeOut(W, c)
    PROVE  X \in Good /\ X.ok /\ X.dirent = W.dirent /\ Sound(X, Without(Q, s), b)
<1> DEFINE q == Q[s]
           R == Without(Q, s)
<1>1. q \in Seq(Cluster) /\ Len(q) \in Nat /\ (q = <<>> <=> Len(q) = 0)
      /\ \A i \in 1 .. Len(q) : q[i] \in Cluster
  BY OwnerFacts
<1>2. Laid(W.fat, Q) /\ W.fat \in [Cluster -> FatEntry]
  BY DEF Sound, Good, Work
<1>3. R \in Owners /\ Laid(W.fat, R) /\ \A i \in 1 .. Len(q) : Outside(R, q[i])
  BY <1>2, LaidWithout
<1>4. \A x \in Slot : x # s => R[x] = Q[x]
  BY WithoutIs
<1>5. \A d \in Cluster : ~Outside(Q, d) => ~Outside(R, d) \/ \E i \in 1 .. Len(q) : q[i] = d
  <2>1. ASSUME NEW d \in Cluster, NEW x \in Slot, NEW i \in 1 .. Len(Q[x]), Q[x][i] = d
        PROVE  ~Outside(R, d) \/ \E j \in 1 .. Len(q) : q[j] = d
    <3>1. CASE x = s
      BY <2>1, <3>1
    <3>2. CASE x # s
      BY <1>4, <2>1, <3>2 DEF Outside
    <3>3. QED
      BY <3>1, <3>2
  <2>2. QED
    BY <2>1 DEF Outside
<1>6. CASE q = <<>>
  <2>1. X = W
    BY <1>6 DEF WipeOut, StartIn
  <2>2. ~\E i \in 1 .. Len(q) : TRUE
    BY <1>1, <1>6
  <2>3. Whole(W.fat, Q) => Whole(W.fat, R)
    BY <1>5, <2>2 DEF Whole
  <2>4. QED
    BY <1>3, <2>1, <2>3 DEF Sound
<1>7. CASE q # <<>>
  <2>1. Tailing(W.fat, R, q)
    <3>1. Len(q) > 0
      BY <1>1, <1>7
    <3>2. \A i \in 1 .. Len(q) : W.fat[q[i]] = NextIn(q, i)
      BY <1>2 DEF Laid, Linked
    <3>3. \A i, j \in 1 .. Len(q) : q[i] = q[j] => i = j
      BY <1>2 DEF Laid, Apart
    <3> HIDE DEF q, R
    <3>4. QED
      BY <1>1, <1>3, <3>1, <3>2, <3>3 DEF Tailing
  <2>2. PICK t, P : t = q /\ P = R
    OBVIOUS
  <2>3. Tailed(W, P, t, b)
    <3>1. b \/ W.broken \/ \A d \in Cluster : W.fat[d] # FREE => ~Outside(P, d) \/ \E i \in 1 .. Len(t) : t[i] = d
      BY <1>5, <2>2 DEF Sound, Whole
    <3>2. QED
      BY <2>1, <2>2, <3>1 DEF Tailed
  <2>4. c = t[1] /\ c \in Cluster /\ c \in Int /\ c # FREE /\ t # <<>>
    <3>1. 1 \in 1 .. Len(q)
      BY <1>1, <1>7
    <3>2. c = q[1] /\ q[1] \in Cluster
      BY <1>1, <1>7, <3>1 DEF StartIn
    <3>3. c \in Cluster /\ t # <<>> /\ c = t[1]
      BY <1>7, <2>2, <3>2
    <3> HIDE DEF q, R
    <3>4. QED
      BY <3>3, ClusterFacts
  <2>5. X = [WipeFrom(W, c) EXCEPT !.ok = TRUE]
    BY <2>4 DEF WipeOut
  <2>6. P \in Owners /\ Laid(W.fat, P)
    BY <1>3, <2>2
  <2>7. X \in Good /\ X.ok = TRUE /\ SameFile(X, W) /\ Sound(X, P, b)
    <3>1. PICK n : n = c
      OBVIOUS
    <3>2. n = (IF t = <<>> THEN LAST ELSE t[1]) /\ n \in Int
      BY <2>4, <3>1
    <3>3. X = [WipeFrom(W, n) EXCEPT !.ok = TRUE]
      BY <2>5, <3>1
    <3>4. W \in Good /\ W.ok
      OBVIOUS
    <3> HIDE DEF q, R
    <3>5. QED
      BY <2>3, <2>6, <3>2, <3>3, <3>4, TailWiped
  <2>8. QED
    BY <2>2, <2>7 DEF SameFile
<1>8. QED
  BY <1>6, <1>7

(* All entries that are alive but one stay. *)
AllBut(E, D, s) == \A x \in Slot : x # s => (Alive(E[x]) \/ Alive(D[x]) => E[x] = D[x])

(* A file, or a directory without files, is deleted with its chain. *)
LEMMA DeleteOk ==
    ASSUME NEW W, W.ok, NEW Q, NEW b, Firm(W, Q, b), NEW s \in Slot, Alive(W.dirent[s]), W.dirent[s].start = StartIn(Q[s]),
           W.dirent[s].kind = "dir" => NoneIn(W.dirent, Q, s), NEW dc, NEW X, X = delete_dir_entry(W, dc, s)
    PROVE  /\ Firm(X, Without(Q, s), b) /\ AllBut(X.dirent, W.dirent, s)
           /\ X.dirent[s] = Deleted
<1>1. W \in Good /\ Q \in Owners /\ DirsOk(W.dirent, Q) /\ Laid(W.fat, Q)
  BY DEF Firm, Fit
<1>2. PICK c, R : c = W.dirent[s].start /\ R = remove_lfn_entries(W, dc, s)
  OBVIOUS
<1>3. PICK Y : Y = WipeOut(R, c)
  OBVIOUS
<1>4. X = dir_write(Y, s, Deleted)
  BY <1>2, <1>3 DEF delete_dir_entry
<1>5. Firm(R, Q, b) /\ SameDisk(R, W) /\ LfnGone(R.dirent, W.dirent)
  BY <1>2, RemoveOk
<1>6. R \in Good /\ R.ok /\ Sound(R, Q, b) /\ DirsOk(R.dirent, Q)
  BY <1>5 DEF Firm, Fit, SameDisk, Sound
<1>7. PICK P : P = Without(Q, s)
  OBVIOUS
<1>8. Y \in Good /\ Y.ok /\ Y.dirent = R.dirent /\ Sound(Y, P, b)
  <2>1. c = StartIn(Q[s])
    BY <1>2
  <2>2. QED
    BY <1>1, <1>3, <1>6, <1>7, <2>1, WipesChain
<1>9. /\ X \in Good /\ SameDisk(X, Y) /\ X.dirent[s] = Deleted
      /\ \A x \in Slot : x # s => X.dirent[x] = R.dirent[x]
  <2>1. PICK e : e = Deleted
    OBVIOUS
  <2>2. e \in DirEntry /\ X = dir_write(Y, s, e)
    BY <1>4, <2>1, NoEntryTypes
  <2>3. /\ X \in Good /\ SameDisk(X, Y) /\ X.dirent[s] = e
        /\ \A x \in Slot : x # s => X.dirent[x] = Y.dirent[x]
    BY <1>8, <2>2, DirWriteIs
  <2>4. QED
    BY <1>8, <2>1, <2>3
<1>10. P \in Owners /\ P[s] = <<>> /\ \A x \in Slot : x # s => P[x] = Q[x]
  BY <1>1, <1>7, WithoutIs
<1>11. PICK D, E, F : D = W.dirent /\ E = R.dirent /\ F = X.dirent
  OBVIOUS
<1>12. \A x \in Slot : Alive(E[x]) \/ Alive(D[x]) => E[x] = D[x]
  <2>1. \A x \in Slot : E[x] = D[x] \/ (D[x].kind = "lfn" /\ E[x] = Deleted)
    BY <1>5, <1>11 DEF LfnGone
  <2>2. QED
    BY <2>1, NoNames DEF Alive
<1>13. Alive(D[s]) /\ E[s] = D[s] /\ (D[s].kind = "dir" => NoneIn(D, Q, s))
  BY <1>11, <1>12
<1>14. E[s].kind = "dir" => NoneIn(E, Q, s)
  <2>1. ASSUME NoneIn(D, Q, s), NEW i \in 1 .. Len(Tab(Q, s))
        PROVE  ~Alive(E[Tab(Q, s)[i]])
    <3>1. Tab(Q, s)[i] \in Slot
      BY <1>1, TabIs
    <3>2. QED
      BY <1>12, <2>1, <3>1 DEF NoneIn
  <2>2. QED
    BY <1>13, <2>1 DEF NoneIn
<1>15. DirsOk(F, P)
  <2>1. OneEntry(F, E, P, Q, s)
    BY <1>9, <1>10, <1>11 DEF OneEntry
  <2>2. Alive(E[s]) /\ F[s] = Deleted /\ DirsOk(E, Q)
    BY <1>6, <1>9, <1>11, <1>13
  <2>3. QED
    BY <1>1, <1>10, <1>14, <2>1, <2>2, KillOk
<1>16. Firm(X, P, b)
  BY <1>8, <1>9, <1>10, <1>11, <1>15 DEF Firm, Fit, SameDisk, Sound
<1>17. AllBut(F, D, s)
  BY <1>9, <1>11, <1>12 DEF AllBut
<1>18. QED
  BY <1>7, <1>9, <1>11, <1>16, <1>17

(* A chain that goes from one slot to another that has none. *)
Handed(P, Q, s, t) == /\ \A x \in Slot : x # s /\ x # t => P[x] = Q[x]
                      /\ P[t] = Q[s] /\ P[s] = <<>>
(* Chains stay sound when one is handed over. *)
LEMMA LaidHanded ==
    ASSUME NEW f, NEW Q \in Owners, Laid(f, Q), NEW P \in Owners, NEW s \in Slot, NEW t \in Slot, s # t, Q[t] = <<>>,
           Handed(P, Q, s, t)
    PROVE  Laid(f, P) /\ (Whole(f, Q) => Whole(f, P))
<1> DEFINE own(x) == IF x = t THEN s ELSE x
<1>1. \A x \in Slot : P[x] # <<>> => P[x] = Q[own(x)] /\ own(x) \in Slot
  BY DEF Handed
<1>2. \A x \in Slot : \A i \in 1 .. Len(P[x]) : P[x] # <<>>
  OBVIOUS
<1>3. \A x, y \in Slot : P[x] # <<>> /\ P[y] # <<>> /\ own(x) = own(y) => x = y
  BY DEF Handed
<1>4. \A x \in Slot : \A i \in 1 .. Len(P[x]) : own(x) \in Slot /\ P[x] = Q[own(x)] /\ i \in 1 .. Len(Q[own(x)])
  BY <1>1, <1>2
<1> HIDE DEF own
<1>5. Linked(f, P)
  BY <1>4 DEF Linked, Laid
<1>6. Apart(P)
  <2>1. ASSUME NEW x \in Slot, NEW y \in Slot, NEW i \in 1 .. Len(P[x]), NEW j \in 1 .. Len(P[y]), P[x][i] = P[y][j]
        PROVE  x = y /\ i = j
    <3>1. own(x) = own(y) /\ i = j
      BY <1>4, <2>1 DEF Laid, Apart
    <3>2. QED
      BY <1>2, <1>3, <3>1
  <2>2. QED
    BY <2>1 DEF Apart
<1>7. ASSUME NEW d \in Cluster, ~Outside(Q, d)
      PROVE  ~Outside(P, d)
  <2>1. PICK x \in Slot : \E i \in 1 .. Len(Q[x]) : Q[x][i] = d
    BY <1>7 DEF Outside
  <2>2. x # t
    BY <2>1
  <2>3. CASE x = s
    BY <2>1, <2>3 DEF Handed, Outside
  <2>4. CASE x # s
    BY <2>1, <2>2, <2>4 DEF Handed, Outside
  <2>5. QED
    BY <2>3, <2>4
<1>8. QED
  BY <1>5, <1>6, <1>7 DEF Laid, Whole

(* The entry of a new directory, and "." in its cluster. *)
NewEntries(E, D, s, c) == /\ \A x \in Slot : x # s /\ x # <<c, 0>> => E[x] = D[x]
                          /\ E[<<c, 0>>] = Dot
(* A directory is made in the first slot of the root that is free. *)
LEMMA NewDirOk ==
    ASSUME NEW D, NEW E, NEW Q \in Owners, DirsOk(D, Q), Apart(Q), NEW c \in Cluster, ClearIn(D, c), Outside(Q, c),
           NEW s \in Slot, NEW P, P = Grown(Q, s, c), Apart(P),
           NEW m \in 1 .. Len(Tab(Q, NoSlot)), Tab(Q, NoSlot)[m] = s,
           D[s].kind \in {"deleted", "unused"},
           \A i \in 1 .. Len(Tab(Q, NoSlot)) : i < m => D[Tab(Q, NoSlot)[i]].kind # "unused",
           NewEntries(E, D, s, c), E[s].kind = "dir", E[s].start = c, NameOk(E[s]), NotNamed(D, Tab(Q, NoSlot), E[s].name)
    PROVE  DirsOk(E, P)
<1> DEFINE z == <<c, 0>>
<1>1. ~Alive(D[s]) /\ s \notin Dirs(D) /\ s # NoSlot /\ NoSlot \in Holders(D) /\ Alive(E[s]) /\ Q[s] = <<>>
  <2>1. ~Alive(D[s])
    BY DEF Alive
  <2>2. Q[s] = <<>>
    BY <2>1 DEF DirsOk, Bare
  <2>3. QED
    BY <2>1, <2>2, SlotIsOne DEF Dirs, Holders, Alive
<1>2. P \in Owners /\ P[s] # <<>> /\ Len(P[s]) = 1 /\ P[s][1] = c /\ \A x \in Slot : x # s => P[x] = Q[x]
  <2>1. Len(Q[s]) = 0
    BY <1>1, OwnerFacts
  <2>2. /\ P \in Owners /\ P[s] # <<>> /\ \A x \in Slot : x # s => P[x] = Q[x]
        /\ Len(P[s]) = Len(Q[s]) + 1 /\ P[s][Len(Q[s]) + 1] = c
    BY GrownIs
  <2>3. QED
    BY <2>1, <2>2
<1>3. z \in Slot /\ s[1] = Root /\ c # Root /\ s # z
  <2>1. z \in Slot
    BY <1>2, TabHead
  <2>2. NoSlot \in {NoSlot} \cup Slot /\ NoSlot \notin Slot
    BY SlotIsOne
  <2>3. s[1] = Root
    BY <2>2, TabCluster
  <2>4. c # Root
    BY ClusterFacts DEF Root, FREE
  <2>5. QED
    BY <2>1, <2>3, <2>4
<1>4. /\ \A x \in Slot : x # s /\ x # z => E[x] = D[x]
      /\ E[z] = Dot /\ D[z] = Unused
  BY <1>3 DEF NewEntries, ClearIn
<1>5. \A x \in Slot : x[1] = c /\ x # z => E[x] = Unused
  BY <1>3, <1>4 DEF ClearIn
<1>6. \A x \in Slot : x # s => (Alive(E[x]) <=> Alive(D[x])) /\ (Alive(D[x]) => E[x] = D[x])
  BY <1>3, <1>4, NoNames
<1>7. \A x \in Slot : x \in Dirs(E) <=> x = s \/ x \in Dirs(D)
  BY <1>1, <1>6 DEF Dirs, Alive
<1>8. \A d \in {NoSlot} \cup Slot : d # s => Tab(P, d) = Tab(Q, d)
  BY TabGrown
<1>9. Rooted(E, P)
  <2>1. ASSUME NEW x \in Dirs(E), x # s
        PROVE  P[x] # <<>> /\ E[x].start = P[x][1] /\ E[<<P[x][1], 0>>].kind = "dot"
    <3>1. x \in Slot /\ x \in Dirs(D) /\ E[x] = D[x] /\ P[x] = Q[x]
      BY <1>2, <1>6, <1>7, <2>1 DEF Dirs, Alive
    <3>2. Q[x] # <<>> /\ D[x].start = Q[x][1] /\ D[<<Q[x][1], 0>>].kind = "dot"
      BY <3>1 DEF DirsOk, Rooted
    <3>3. PICK w : w = <<Q[x][1], 0>>
      OBVIOUS
    <3>4. w \in Slot
      BY <3>1, <3>2, <3>3, TabHead
    <3>5. D[w].kind = "dot"
      BY <3>2, <3>3
    <3>6. w # s /\ w # z
      BY <1>4, <3>5, NoNames
    <3>7. E[w].kind = "dot"
      BY <1>4, <3>4, <3>5, <3>6
    <3>8. QED
      BY <3>1, <3>2, <3>3, <3>7
  <2>2. P[s] # <<>> /\ E[s].start = P[s][1] /\ E[<<P[s][1], 0>>].kind = "dot"
    BY <1>2, <1>4, NoNames
  <2>3. QED
    BY <2>1, <2>2 DEF Rooted
<1>10. Placed(E, P)
  <2>1. ASSUME NEW x \in Slot, Alive(E[x])
        PROVE  \E d \in Holders(E) : InTab(P, d, x)
    <3>1. CASE x = s
      <4>1. InTab(Q, NoSlot, s)
        BY DEF InTab
      <4>2. InTab(P, NoSlot, s)
        BY <1>1, <1>8, <4>1 DEF InTab
      <4>3. QED
        BY <3>1, <4>2 DEF Holders
    <3>2. CASE x # s
      <4>1. PICK d \in Holders(D) : InTab(Q, d, x)
        BY <1>6, <2>1, <3>2 DEF DirsOk, Placed
      <4>2. d # s /\ d \in {NoSlot} \cup Slot /\ d \in Holders(E)
        BY <1>1, <1>7 DEF Holders, Dirs
      <4>3. InTab(P, d, x)
        BY <1>8, <4>1, <4>2 DEF InTab
      <4>4. QED
        BY <4>2, <4>3
    <3>3. QED
      BY <3>1, <3>2
  <2>2. QED
    BY <2>1 DEF Placed
<1>11. Ordered(E, Tab(P, NoSlot)) /\ Distinct(E, Tab(P, NoSlot))
  <2>1. PICK t : t = Tab(Q, NoSlot)
    OBVIOUS
  <2>2. Tab(P, NoSlot) = t
    BY <1>1, <1>8, <2>1
  <2>3. Ordered(D, t) /\ Distinct(D, t) /\ NotNamed(D, t, E[s].name) /\ m \in 1 .. Len(t) /\ t[m] = s
    BY <1>1, <2>1 DEF DirsOk, Tables
  <2>4. \A i \in 1 .. Len(t) : i # m => E[t[i]] = D[t[i]] /\ t[i] \in Slot /\ t[i] # s
    <3>1. ASSUME NEW i \in 1 .. Len(t), i # m
          PROVE  E[t[i]] = D[t[i]] /\ t[i] \in Slot /\ t[i] # s
      <4>1. NoSlot \in {NoSlot} \cup Slot /\ NoSlot \notin Slot
        BY SlotIsOne
      <4>2. t[i] \in Slot /\ t[i][1] = Root
        BY <2>1, <4>1, TabIs, TabCluster
      <4>3. t[i] # z
        BY <1>3, <4>2
      <4>4. t[i] # s
        BY <2>1, <2>3, <3>1, <4>1, TabApart
      <4>5. QED
        BY <1>4, <4>2, <4>3, <4>4
    <3>2. QED
      BY <3>1
  <2>5. \A i \in 1 .. Len(t) : i < m => D[t[i]].kind # "unused"
    BY <2>1
  <2>6. Ordered(E, t)
    BY <1>1, <2>3, <2>4, <2>5 DEF Ordered, Alive
  <2>7. Distinct(E, t)
    BY <2>3, <2>4 DEF Distinct, NotNamed
  <2>8. QED
    BY <2>2, <2>6, <2>7
<1>12. ASSUME NEW d \in Dirs(D)
       PROVE  Ordered(E, Tab(P, d)) /\ Distinct(E, Tab(P, d))
  <2>1. d \in Slot /\ d # s /\ d # NoSlot /\ d \in Holders(D)
    BY <1>1, SlotIsOne DEF Dirs, Holders
  <2>2. PICK t : t = Tab(Q, d) /\ t = Tab(P, d)
    BY <1>8, <2>1
  <2>3. Ordered(D, t) /\ Distinct(D, t)
    BY <2>1, <2>2 DEF DirsOk, Tables
  <2>4. \A i \in 1 .. Len(t) : E[t[i]] = D[t[i]]
    <3>1. ASSUME NEW i \in 1 .. Len(t)
          PROVE  E[t[i]] = D[t[i]]
      <4>1. t[i] \in Slot
        BY <2>1, <2>2, TabIs
      <4>2. InTab(Q, d, t[i])
        BY <2>2 DEF InTab
      <4>3. t[i][1] # c
        BY <2>1, <4>2, TabOutside
      <4>4. t[i] # s
        <5>1. SUFFICES ASSUME t[i] = s
                       PROVE  FALSE
          OBVIOUS
        <5>2. Tab(Q, d)[i] = Tab(Q, NoSlot)[m] /\ i \in 1 .. Len(Tab(Q, d))
          BY <2>2, <5>1
        <5>3. NoSlot \in {NoSlot} \cup Slot /\ d \in {NoSlot} \cup Slot
          BY <2>1
        <5>4. d = NoSlot
          BY <5>2, <5>3, TabApart
        <5>5. QED
          BY <2>1, <5>4
      <4>5. QED
        BY <1>4, <4>1, <4>3, <4>4
    <3>2. QED
      BY <3>1
  <2>5. QED
    BY <2>2, <2>3, <2>4 DEF Ordered, Distinct
<1>13. Ordered(E, Tab(P, s)) /\ Distinct(E, Tab(P, s))
  <2>1. PICK t : t = Tab(P, s)
    OBVIOUS
  <2>2. 1 \in 1 .. Len(t) /\ t[1] = z
    <3>1. 1 \in 1 .. Len(Tab(P, s)) /\ Tab(P, s)[1] = <<P[s][1], 0>>
      BY <1>2, TabHead
    <3>2. <<P[s][1], 0>> = z
      BY <1>2
    <3>3. QED
      BY <2>1, <3>1, <3>2
  <2>3. Len(Tab(Q, s)) = 0
    <3>1. Tab(Q, s) = SlotsOf(Q[s])
      BY <1>1 DEF Tab
    <3>2. Q[s] \in Seq(Cluster) /\ Len(Q[s]) = 0
      BY <1>1, OwnerFacts
    <3>3. Len(SlotsOf(Q[s])) = Len(Q[s]) * ClusEnts
      BY <3>2, SlotsOfIs
    <3>4. QED
      BY <3>1, <3>2, <3>3, FatAssumption
  <2>4. Len(t) \in Nat /\ \A i \in 1 .. Len(t) : t[i] \in Slot
    BY <1>2, <2>1, TabIs
  <2>5. \A i \in 1 .. Len(t) : t[i][1] = c
    <3>1. \A i \in 1 .. Len(t) : i \notin 1 .. Len(Tab(Q, s)) => t[i][1] = c
      BY <2>1, TabGrown
    <3>2. QED
      BY <2>3, <3>1
  <2>6. \A i \in 1 .. Len(t) : i # 1 => E[t[i]] = Unused
    <3>1. ASSUME NEW i \in 1 .. Len(t), i # 1
          PROVE  E[t[i]] = Unused
      <4>1. t[i] # t[1]
        <5>1. SUFFICES ASSUME t[i] = t[1]
                       PROVE  FALSE
          OBVIOUS
        <5>2. s \in {NoSlot} \cup Slot /\ P \in Owners /\ Apart(P)
          BY <1>2
        <5>3. i \in 1 .. Len(Tab(P, s)) /\ 1 \in 1 .. Len(Tab(P, s)) /\ Tab(P, s)[i] = Tab(P, s)[1]
          BY <2>1, <2>2, <3>1, <5>1
        <5>4. i = 1
          BY <5>2, <5>3, TabApart
        <5>5. QED
          BY <3>1, <5>4
      <4>2. QED
        BY <1>5, <2>2, <2>4, <2>5, <4>1
    <3>2. QED
      BY <3>1
  <2>7. E[t[1]] = Dot
    BY <1>4, <2>2
  <2>8. \A i \in 1 .. Len(t) : ~Alive(E[t[i]])
    BY <2>6, <2>7, NoNames
  <2>9. Distinct(E, t)
    BY <2>8 DEF Distinct
  <2>10. Ordered(E, t)
    <3>1. ASSUME NEW i \in 1 .. Len(t), NEW j \in 1 .. Len(t), i < j
          PROVE  E[t[j]].kind = "unused"
      BY <2>6, <3>1, NoNames
    <3>2. QED
      BY <3>1 DEF Ordered
  <2>11. QED
    BY <2>1, <2>9, <2>10
<1>14. Tables(E, P)
  BY <1>7, <1>11, <1>12, <1>13 DEF Tables, Holders, Dirs
<1>15. Names(E)
  <2>1. \A x \in Slot : NameOk(D[x])
    BY DEF DirsOk, Names
  <2>2. QED
    BY <1>4, <2>1, NoNames DEF Names
<1>16. Bare(E, P)
  BY <1>1, <1>2, <1>6 DEF DirsOk, Bare
<1>17. QED
  BY <1>9, <1>10, <1>14, <1>15, <1>16 DEF DirsOk

(* The chains, the directories and the files of a disk are sound. *)
ChainsOk(f, D, t, b) ==
    \E Q \in Owners : Laid(f, Q) /\ (b \/ Whole(f, Q)) /\ DirsOk(D, Q) /\ FilesOk(t, D, Q)

(* Files are the same when what is alive is. *)
SameAlive(E, D) == \A x \in Slot : Alive(E[x]) \/ Alive(D[x]) => E[x] = D[x]
(* Files stay sound when all that is alive stays. *)
LEMMA AliveFiles ==
    ASSUME NEW t, NEW D, NEW E, NEW Q, FilesOk(t, D, Q), SameAlive(E, D)
    PROVE  FilesOk(t, E, Q)
<1>1. \A x \in Slot : E[x].kind = "file" \/ D[x].kind = "file" => E[x] = D[x]
  BY DEF SameAlive, Alive
<1>2. OpensFiles(t, E)
  BY <1>1 DEF FilesOk, OpensFiles
<1>3. QED
  BY <1>1, <1>2 DEF FilesOk

(* What a call leaves is sound: clusters that have been given back hold *)
(* nothing of a directory.                                              *)
LEMMA VisibleOk ==
    ASSUME NEW W, NEW P, NEW b, Firm(W, P, b), NEW t, FilesOk(t, W.dirent, P)
    PROVE  ChainsOk(W.fat, Visible(W), t, b \/ W.broken)
<1>1. P \in Owners /\ Laid(W.fat, P) /\ DirsOk(W.dirent, P) /\ W.fat \in [Cluster -> FatEntry]
  BY DEF Firm, Fit, Good, Work
<1>2. PICK D, E : D = W.dirent /\ E = Visible(W)
  OBVIOUS
<1>3. \A x \in Slot : E[x] = IF x[1] # Root /\ W.fat[x[1]] = FREE THEN Unused ELSE D[x]
  BY <1>2 DEF Visible
<1>4. Faded(E, D, P)
  <2>1. ASSUME NEW x \in Slot, x[1] # Root, W.fat[x[1]] = FREE, NEW d \in Holders(D), InTab(P, d, x)
        PROVE  FALSE
    <3>1. d \in {NoSlot} \cup Slot
      BY DEF Holders, Dirs
    <3>2. PICK i \in 1 .. Len(Tab(P, d)) : Tab(P, d)[i] = x
      BY <2>1 DEF InTab
    <3>3. d \in Slot /\ \E k \in 1 .. Len(P[d]) : x[1] = P[d][k]
      BY <1>1, <2>1, <3>1, <3>2, TabCluster
    <3>4. PICK k \in 1 .. Len(P[d]) : x[1] = P[d][k]
      BY <3>3
    <3>5. W.fat[P[d][k]] # FREE
      BY <1>1, <3>3, LaidFacts
    <3>6. QED
      BY <2>1, <3>4, <3>5
  <2>2. QED
    BY <1>3, <2>1 DEF Faded
<1>5. DirsOk(E, P) /\ \A x \in Slot : Alive(E[x]) \/ Alive(D[x]) => E[x] = D[x]
  <2>1. DirsOk(D, P)
    BY <1>1, <1>2
  <2>2. QED
    BY <1>1, <1>4, <2>1, FadedOk
<1>6. FilesOk(t, E, P)
  <2>1. FilesOk(t, D, P) /\ SameAlive(E, D)
    BY <1>2, <1>5 DEF SameAlive
  <2>2. QED
    BY <2>1, AliveFiles
<1>7. b \/ W.broken \/ Whole(W.fat, P)
  BY DEF Firm
<1>8. QED
  BY <1>1, <1>2, <1>5, <1>6, <1>7 DEF ChainsOk

(* A call commits its work. *)
LEMMA CommitOk ==
    ASSUME NEW W, NEW P, Firm(W, P, failed), Commit(W), NEW t, sft' = t, FilesOk(t, W.dirent, P)
    PROVE  ChainsOk(fat', dirent', sft', failed')
<1>1. ChainsOk(W.fat, Visible(W), t, failed \/ W.broken)
  BY VisibleOk
<1>2. fat' = W.fat /\ dirent' = Visible(W) /\ failed' = (failed \/ W.broken)
  BY DEF Commit
<1>3. QED
  BY <1>1, <1>2

(* The work of a call begins with the disk as it is. *)
LEMMA TableFirm ==
    ASSUME CountInv, NEW Q \in Owners, Holds(Q), DirsOk(dirent, Q), NEW n \in Int
    PROVE  /\ Firm(Table(n), Q, failed) /\ Table(n).dirent = dirent /\ Table(n).ok = TRUE
           /\ Table(n).fat = fat /\ Table(n).broken = FALSE
<1>1. Table(n) \in Good
  BY TableGood
<1>2. Table(n).dirent = dirent /\ Table(n).ok = TRUE /\ Table(n).fat = fat /\ Table(n).broken = FALSE
  BY DEF Table
<1>3. QED
  BY <1>1, <1>2 DEF Firm, Fit, Holds

(* A file or a directory that nobody has open: what its entry tells. *)
LEMMA Unopened ==
    ASSUME NEW D, NEW Q, FilesOk(sft, D, Q), DirsOk(D, Q), NEW s \in Slot, Alive(D[s]), OpenAt(s) = {}
    PROVE  /\ At(sft, s) = {} /\ D[s].start = StartIn(Q[s])
           /\ D[s].kind = "file" => D[s].size <= MaxOffset
           /\ \A h \in Fd : sft[h].open => sft[h].slot # s
<1>1. At(sft, s) = {} /\ \A h \in Fd : sft[h].open => sft[h].slot # s
  BY DEF At, OpenAt, OpenFds
<1>2. CASE D[s].kind = "file"
  BY <1>1, <1>2 DEF FilesOk, FileOk, Written
<1>3. CASE D[s].kind = "dir"
  BY <1>1, <1>3 DEF DirsOk, Rooted, Dirs, StartIn
<1>4. QED
  BY <1>1, <1>2, <1>3 DEF Alive

(* A file that is found is alive, with the name it is looked for. *)
LEMMA FoundAlive ==
    ASSUME NEW W, NEW Q, Fit(W, Q), NEW dc, NEW n, n # NoName, NEW s, s = SlotIn(W, dc, n), s # NoSlot
    PROVE  s \in Slot /\ Alive(W.dirent[s]) /\ W.dirent[s].name = n
<1>1. W \in Good /\ Names(W.dirent)
  BY DEF Fit, DirsOk
<1>2. s \in Slot /\ W.dirent[s].name = n
  BY <1>1, SlotInIs
<1>3. QED
  BY <1>1, <1>2 DEF Names, NameOk

(* A file nobody has open, or a directory without files, is deleted. *)
LEMMA KilledChains ==
    ASSUME CountInv, NEW Q \in Owners, Holds(Q), DirsOk(dirent, Q), NEW n \in Int, NEW s \in Slot, Alive(dirent[s]),
           OpenAt(s) = {}, dirent[s].kind = "dir" => NoneIn(dirent, Q, s), NEW dc, NEW X, X = delete_dir_entry(Table(n), dc, s),
           Commit(X), sft' = sft
    PROVE  ChainsOk(fat', dirent', sft', failed')
<1>1. PICK T : T = Table(n)
  OBVIOUS
<1>2. Firm(T, Q, failed) /\ T.dirent = dirent /\ T.ok = TRUE /\ X = delete_dir_entry(T, dc, s)
  BY <1>1, TableFirm
<1>3. PICK D, t : D = dirent /\ t = sft
  OBVIOUS
<1>4. FilesOk(t, D, Q) /\ DirsOk(D, Q) /\ Alive(D[s]) /\ OpensFiles(t, D)
  BY <1>3 DEF Holds, FilesOk
<1>5. D[s].start = StartIn(Q[s]) /\ \A h \in Fd : t[h].open => t[h].slot # s
  BY <1>3, <1>4, Unopened
<1>6. PICK P : P = Without(Q, s)
  OBVIOUS
<1>7. Firm(X, P, failed) /\ AllBut(X.dirent, T.dirent, s) /\ X.dirent[s] = Deleted
  <2>1. T.ok /\ Alive(T.dirent[s]) /\ T.dirent[s].start = StartIn(Q[s]) /\ (T.dirent[s].kind = "dir" => NoneIn(T.dirent, Q, s))
    BY <1>2, <1>3, <1>4, <1>5
  <2>2. Firm(T, Q, failed) /\ X = delete_dir_entry(T, dc, s)
    BY <1>2
  <2>3. QED
    BY <1>6, <2>1, <2>2, DeleteOk
<1>8. PICK E : E = X.dirent
  OBVIOUS
<1>9. AllBut(E, D, s) /\ E[s] = Deleted
  BY <1>2, <1>3, <1>7, <1>8
<1>10. FilesOk(t, E, P)
  <2>1. \A x \in Slot : x # s => P[x] = Q[x]
    BY <1>6, WithoutIs
  <2>2. \A x \in Slot : x # s => (E[x].kind = "file" \/ D[x].kind = "file" => E[x] = D[x])
    BY <1>9 DEF AllBut, Alive
  <2>3. OpensFiles(t, E)
    BY <1>4, <1>5, <2>2 DEF OpensFiles
  <2>4. ASSUME NEW x \in Slot, E[x].kind = "file"
        PROVE  Kept(t, t, E, D, P, Q, x)
    <3>1. x # s
      BY <1>9, <2>4, NoNames
    <3>2. E[x] = D[x] /\ P[x] = Q[x]
      BY <2>1, <2>2, <2>4, <3>1
    <3>3. QED
      BY <2>4, <3>2 DEF Kept
  <2>5. QED
    BY <1>4, <2>3, <2>4, FilesKept
<1>11. QED
  BY <1>3, <1>7, <1>8, <1>10, CommitOk

(* A delete. *)
LEMMA DeleteChains ==
    ASSUME CountInv, NEW Q \in Owners, Holds(Q), DirsOk(dirent, Q), NEW p \in FilePath, NEW n \in LinkBounds, Delete(p, n)
    PROVE  ChainsOk(fat', dirent', sft', failed')
<1>1. n \in Int
  BY BoundsAreNumbers
<1>2. PICK T, s, dc, X : T = Table(n) /\ s = find_fname(T, p) /\ dc = DirOf(T, p[1]) /\ X = delete_dir_entry(T, dc, s)
  OBVIOUS
<1>3. IsFile(s) /\ OpenAt(s) = {} /\ Commit(X) /\ sft' = sft
  BY <1>2 DEF Delete
<1>4. s \in Slot
  BY <1>1, <1>2, <1>3, FoundIsSlot DEF IsFile
<1>5. dirent[s].kind = "file" /\ Alive(dirent[s]) /\ dirent[s].kind # "dir"
  BY <1>3 DEF IsFile, Alive
<1>6. QED
  BY <1>1, <1>2, <1>3, <1>4, <1>5, KilledChains

(* A directory that is removed has no files. *)
LEMMA EmptyDir ==
    ASSUME NEW T, NEW Q, Fit(T, Q), NEW s \in Dirs(T.dirent),
           \A x \in ToSet(Tail(DirRead(T, T.dirent[s].start))) : T.dirent[x].kind \in {"deleted", "lfn"}
    PROVE  NoneIn(T.dirent, Q, s)
<1>1. T \in Good /\ Q \in Owners /\ DirsOk(T.dirent, Q) /\ s \in Slot
  BY DEF Fit, Dirs
<1>2. PICK dc, t, r : dc = T.dirent[s].start /\ t = Tab(Q, s) /\ r = DirRead(T, dc)
  OBVIOUS
<1>3. Q[s] # <<>> /\ dc = Q[s][1] /\ T.dirent[<<Q[s][1], 0>>].kind = "dot" /\ s \in Holders(T.dirent) /\ s # NoSlot
  BY <1>1, <1>2, SlotIsOne DEF DirsOk, Rooted, Holders
<1>4. DirSlots(T, dc) = t
  <2>1. dc = HeadOf(Q, s)
    BY <1>3 DEF HeadOf
  <2>2. QED
    BY <1>2, <1>3, <2>1, DirSlotsAre
<1>5. Ordered(T.dirent, DirSlots(T, dc))
  BY <1>1, <1>2, <1>3, <1>4 DEF DirsOk, Tables
<1>6. r \in Seq(Slot)
  BY <1>1, <1>2, DirReadIs
<1>7. ASSUME NEW i \in 1 .. Len(t), Alive(T.dirent[t[i]])
      PROVE  FALSE
  <2>1. T.dirent[t[i]].kind # "unused"
    BY <1>7 DEF Alive
  <2>2. i \in 1 .. Len(r) /\ r[i] = t[i]
    BY <1>1, <1>2, <1>4, <1>5, <2>1, DirReadAll
  <2>3. CASE i = 1
    <3>1. t[1] = <<Q[s][1], 0>>
      BY <1>1, <1>2, <1>3, TabHead
    <3>2. QED
      BY <1>3, <1>7, <2>3, <3>1 DEF Alive
  <2>4. CASE i # 1
    <3>1. PICK j : j = i - 1
      OBVIOUS
    <3>2. r # <<>> /\ j \in 1 .. Len(r) - 1 /\ j + 1 = i /\ Len(r) \in Nat
      BY <1>6, <2>2, <2>4, <3>1
    <3>3. Tail(r) \in Seq(Slot) /\ Len(Tail(r)) = Len(r) - 1 /\ \A k \in 1 .. Len(r) - 1 : Tail(r)[k] = r[k + 1]
      BY <1>6, <3>2
    <3>4. j \in DOMAIN Tail(r) /\ Tail(r)[j] = t[i]
      BY <2>2, <3>2, <3>3
    <3>5. t[i] \in ToSet(Tail(r))
      BY <3>4 DEF ToSet
    <3>6. T.dirent[t[i]].kind \in {"deleted", "lfn"}
      BY <1>2, <3>5
    <3>7. QED
      BY <1>7, <3>6 DEF Alive
  <2>5. QED
    BY <2>3, <2>4
<1>8. QED
  BY <1>2, <1>7 DEF NoneIn

(* A directory removed. *)
LEMMA RmDirChains ==
    ASSUME CountInv, NEW Q \in Owners, Holds(Q), DirsOk(dirent, Q), NEW d \in DirName, NEW n \in LinkBounds, RmDir(d, n)
    PROVE  ChainsOk(fat', dirent', sft', failed')
<1>1. n \in Int
  BY BoundsAreNumbers
<1>2. PICK T, p, s, X : T = Table(n) /\ p = <<NoName, d>> /\ s = find_fname(T, p) /\ X = delete_dir_entry(T, Root, s)
  OBVIOUS
<1>3. Firm(T, Q, failed) /\ T.dirent = dirent /\ Fit(T, Q)
  BY <1>1, <1>2, TableFirm DEF Firm
<1>4. /\ s # NoSlot /\ Commit(X) /\ sft' = sft
      /\ \A t \in ToSet(Tail(DirRead(T, dirent[s].start))) : dirent[t].kind \in {"deleted", "lfn"}
  BY <1>2 DEF RmDir
<1>5. s = SlotIn(T, DirOf(T, NoName), d)
  BY <1>2 DEF find_fname
<1>6. d # NoName
  BY FatAssumption
<1>7. s \in Slot /\ Alive(dirent[s]) /\ dirent[s].name = d
  BY <1>3, <1>4, <1>5, <1>6, FoundAlive
<1>8. dirent[s].kind = "dir"
  BY <1>7 DEF DirsOk, Names, NameOk
<1>9. NoneIn(dirent, Q, s)
  <2>1. s \in Dirs(T.dirent)
    BY <1>3, <1>7, <1>8 DEF Dirs
  <2>2. \A t \in ToSet(Tail(DirRead(T, T.dirent[s].start))) : T.dirent[t].kind \in {"deleted", "lfn"}
    BY <1>3, <1>4
  <2>3. NoneIn(T.dirent, Q, s)
    BY <1>3, <2>1, <2>2, EmptyDir
  <2>4. QED
    BY <1>3, <2>3
<1>10. OpenAt(s) = {}
  BY <1>8 DEF Holds, FilesOk, OpensFiles, OpenAt, OpenFds
<1>11. QED
  BY <1>1, <1>2, <1>4, <1>7, <1>9, <1>10, KilledChains

(* A name that is not in a directory is not when long names have gone. *)
LEMMA LfnNotNamed ==
    ASSUME NEW D, NEW E, LfnGone(E, D), NEW Q \in Owners, NEW x \in Holders(D), NEW n, n # NoName, NotNamed(D, Tab(Q, x), n)
    PROVE  NotNamed(E, Tab(Q, x), n)
<1>1. ASSUME NEW i \in 1 .. Len(Tab(Q, x))
      PROVE  E[Tab(Q, x)[i]].name # n
  <2>1. Tab(Q, x)[i] \in Slot
    BY TabIs DEF Holders, Dirs
  <2>2. QED
    BY <2>1, NoNames DEF LfnGone, NotNamed
<1>2. QED
  BY <1>1 DEF NotNamed

(* Paths of two files, or of two directories. *)
Paths(p1, p2) == (p1 \in FilePath /\ p2 \in FilePath) \/ (p1 \in DirPath /\ p2 \in DirPath)
(* An entry under another name. *)
Named2(e, n) == [e EXCEPT !.name = n]
(* It is an entry, and differs in its name only. *)
LEMMA Named2Is ==
    ASSUME NEW e \in DirEntry, NEW n, n \in FileName \cup DirName
    PROVE  /\ Named2(e, n) \in DirEntry /\ Named2(e, n).name = n /\ Named2(e, n).kind = e.kind
           /\ Named2(e, n).start = e.start /\ Named2(e, n).size = e.size
BY DEF Named2, DirEntry

(* A path that is found, and the name it gets. *)
LEMMA RenameNames ==
    ASSUME NEW T, NEW Q, Fit(T, Q), NEW p1, NEW p2, Paths(p1, p2), NEW s, s = find_fname(T, p1), s # NoSlot
    PROVE  /\ s \in Slot /\ Alive(T.dirent[s]) /\ T.dirent[s] \in DirEntry /\ p2[2] # NoName
           /\ p2[2] \in FileName \cup DirName /\ NameOk(Named2(T.dirent[s], p2[2]))
<1>1. PICK n, m, dc : n = p1[2] /\ m = p2[2] /\ dc = DirOf(T, p1[1])
  OBVIOUS
<1>2. (n \in FileName /\ m \in FileName) \/ (n \in DirName /\ m \in DirName)
  BY <1>1 DEF Paths, FilePath, DirPath
<1>3. /\ n # NoName /\ m # NoName /\ m \in FileName \cup DirName
      /\ n \in DirName <=> m \in DirName
  BY <1>2, FatAssumption
<1>4. s = SlotIn(T, dc, n)
  BY <1>1 DEF find_fname
<1>5. s \in Slot /\ Alive(T.dirent[s]) /\ T.dirent[s].name = n
  BY <1>3, <1>4, FoundAlive
<1>6. T.dirent[s] \in DirEntry /\ NameOk(T.dirent[s])
  BY <1>5 DEF Fit, Good, Work, DirsOk, Names
<1>7. NameOk(Named2(T.dirent[s], m))
  <2>1. PICK e, g : e = T.dirent[s] /\ g = Named2(e, m)
    OBVIOUS
  <2>2. g.name = m /\ g.kind = e.kind
    BY <1>3, <1>6, <2>1, Named2Is
  <2>3. QED
    BY <1>3, <1>5, <1>6, <2>1, <2>2 DEF NameOk, Alive
<1>8. QED
  BY <1>1, <1>3, <1>5, <1>6, <1>7

(* A rename in its directory. *)
LEMMA InPlaceChains ==
    ASSUME CountInv, NEW Q \in Owners, Holds(Q), DirsOk(dirent, Q), NEW p1, NEW p2, Paths(p1, p2), NEW n \in Int,
           NEW T, T = Table(n), NEW s, s = find_fname(T, p1), s # NoSlot, OpenAt(s) = {},
           NEW dc, dc = DirOf(T, p1[1]), dc = DirOf(T, p2[1]), dc # ERROR, find_fname(T, p2) = NoSlot,
           RenameInPlace(s, p2, remove_lfn_entries(T, dc, s)), sft' = sft
    PROVE  ChainsOk(fat', dirent', sft', failed')
<1>1. Firm(T, Q, failed) /\ T.dirent = dirent /\ Fit(T, Q) /\ T \in Good
  BY TableFirm DEF Firm, Fit
<1>2. PICK D, t, w : D = dirent /\ t = sft /\ w = p2[2]
  OBVIOUS
<1>3. FilesOk(t, D, Q) /\ DirsOk(D, Q) /\ OpensFiles(t, D) /\ Apart(Q)
  BY <1>2 DEF Holds, FilesOk, Laid
<1>4. PICK e : e = Named2(D[s], w)
  OBVIOUS
<1>5. s \in Slot /\ Alive(D[s]) /\ D[s] \in DirEntry /\ w # NoName /\ w \in FileName \cup DirName /\ NameOk(e)
  BY <1>1, <1>2, <1>4, RenameNames
<1>6. e \in DirEntry /\ e.name = w /\ e.kind = D[s].kind /\ e.start = D[s].start /\ e.size = D[s].size
  BY <1>4, <1>5, Named2Is
<1>7. PICK R : R = remove_lfn_entries(T, dc, s)
  OBVIOUS
<1>8. PICK X : X = dir_write(R, s, e)
  OBVIOUS
<1>9. Commit(X)
  BY <1>2, <1>4, <1>7, <1>8 DEF RenameInPlace, Named2
<1>10. Firm(R, Q, failed) /\ SameDisk(R, T) /\ LfnGone(R.dirent, T.dirent)
  BY <1>1, <1>7, RemoveOk
<1>11. R \in Good /\ DirsOk(R.dirent, Q)
  BY <1>10 DEF Firm, Fit
<1>12. /\ X \in Good /\ SameDisk(X, R) /\ X.dirent[s] = e
       /\ \A x \in Slot : x # s => X.dirent[x] = R.dirent[x]
  BY <1>5, <1>6, <1>8, <1>11, DirWriteIs
<1>13. PICK x \in Holders(D) : dc = HeadOf(Q, x)
  BY <1>1, <1>2, FindsDir
<1>14. DirSlots(T, dc) = Tab(Q, x)
  BY <1>1, <1>2, <1>13, DirSlotsAre
<1>15. PICK m \in 1 .. Len(Tab(Q, x)) : Tab(Q, x)[m] = s
  <2>1. PICK k : k = p1[2]
    OBVIOUS
  <2>2. s = SlotIn(T, dc, k)
    BY <2>1 DEF find_fname
  <2>3. \E i \in 1 .. Len(DirSlots(T, dc)) : s = DirSlots(T, dc)[i]
    BY <1>1, <2>2, SlotInIs
  <2>4. QED
    BY <1>14, <2>3
<1>16. NotNamed(D, Tab(Q, x), w)
  <2>1. SlotIn(T, dc, w) = NoSlot
    BY <1>2 DEF find_fname
  <2>2. QED
    BY <1>1, <1>2, <1>5, <1>13, <2>1, FindsNone
<1>17. PICK E, F : E = R.dirent /\ F = X.dirent
  OBVIOUS
<1>18. LfnGone(E, D)
  BY <1>1, <1>2, <1>10, <1>17
<1>19. E[s] = D[s] /\ \A y \in Slot : Alive(E[y]) \/ Alive(D[y]) => E[y] = D[y]
  BY <1>5, <1>18, NoNames DEF LfnGone, Alive
<1>20. x \in Holders(E)
  BY <1>19, SlotIsOne DEF Holders, Dirs, Alive
<1>21. DirsOk(F, Q)
  <2>1. OneEntry(F, E, Q, Q, s)
    BY <1>12, <1>17 DEF OneEntry
  <2>2. NotNamed(E, Tab(Q, x), F[s].name)
    <3>1. F[s].name = w
      BY <1>6, <1>12, <1>17
    <3>2. NotNamed(E, Tab(Q, x), w)
      BY <1>5, <1>13, <1>16, <1>18, LfnNotNamed
    <3>3. QED
      BY <3>1, <3>2
  <2>3. Alive(E[s]) /\ F[s].kind = E[s].kind /\ F[s].start = E[s].start /\ NameOk(F[s])
    BY <1>5, <1>6, <1>12, <1>17, <1>19
  <2>4. DirsOk(E, Q)
    BY <1>11, <1>17
  <2>5. QED
    BY <1>3, <1>5, <1>15, <1>20, <2>1, <2>2, <2>3, <2>4, RenamedOk
<1>22. Firm(X, Q, failed)
  BY <1>10, <1>12, <1>17, <1>21, FirmSame
<1>23. FilesOk(t, F, Q)
  <2>1. F[s] = e /\ \A y \in Slot : y # s => F[y] = E[y]
    BY <1>12, <1>17
  <2>2. \A y \in Slot : y # s => (F[y].kind = "file" \/ D[y].kind = "file" => F[y] = D[y])
    BY <1>19, <2>1 DEF Alive
  <2>3. ASSUME NEW y \in Slot, F[y].kind = "file"
        PROVE  Kept(t, t, F, D, Q, Q, y)
    <3>1. D[y].kind = "file" /\ F[y].start = D[y].start /\ F[y].size = D[y].size
      BY <1>6, <2>1, <2>2, <2>3
    <3>2. QED
      BY <3>1 DEF Kept
  <2>4. OpensFiles(t, F)
    BY <1>3, <1>6, <2>1, <2>2 DEF OpensFiles
  <2>5. QED
    BY <1>3, <2>3, <2>4, FilesKept
<1>24. QED
  BY <1>2, <1>9, <1>17, <1>22, <1>23, CommitOk

(* Chains after a move. *)
Handing(Q, s, t) == [Without(Q, s) EXCEPT ![t] = Q[s]]
(* One chain has been handed over. *)
LEMMA HandingIs ==
    ASSUME NEW Q \in Owners, NEW s \in Slot, NEW t \in Slot, s # t
    PROVE  /\ Handing(Q, s, t) \in Owners /\ Handed(Handing(Q, s, t), Q, s, t)
           /\ \A x \in Slot : x # t => Handing(Q, s, t)[x] = Without(Q, s)[x]
<1>1. Q[s] \in Seq(Cluster)
  BY OwnerFacts
<1>2. /\ Without(Q, s) \in Owners /\ \A x \in Slot : x # s => Without(Q, s)[x] = Q[x]
      /\ Without(Q, s)[s] = <<>>
  BY WithoutIs
<1>3. PICK R, q : R = Without(Q, s) /\ q = Q[s]
  OBVIOUS
<1>4. PICK P : P = [R EXCEPT ![t] = q]
  OBVIOUS
<1>5. P \in Owners /\ P[t] = q /\ \A x \in Slot : x # t => P[x] = R[x]
  BY <1>1, <1>2, <1>3, <1>4 DEF Owners
<1>6. Handing(Q, s, t) = P
  BY <1>3, <1>4 DEF Handing
<1>7. QED
  BY <1>2, <1>3, <1>5, <1>6 DEF Handed

(* A new entry of a file, in the first slot of a directory that is free. *)
PutHere(E, D, Q, d, m, s) ==
    /\ m \in 1 .. Len(Tab(Q, d)) /\ Tab(Q, d)[m] = s
    /\ D[s].kind \in {"deleted", "unused"} /\ \A i \in 1 .. Len(Tab(Q, d)) : i < m => D[Tab(Q, d)[i]].kind # "unused"
    /\ E[s].kind = "file" /\ NameOk(E[s]) /\ NotNamed(D, Tab(Q, d), E[s].name)
(* Directories stay sound when a file is put there. *)
LEMMA PutAt ==
    ASSUME NEW D, NEW E, NEW Q \in Owners, DirsOk(D, Q), Apart(Q), NEW P \in Owners, NEW s \in Slot, OneEntry(E, D, P, Q, s),
           NEW d \in Holders(D), NEW m, PutHere(E, D, Q, d, m, s)
    PROVE  DirsOk(E, P)
<1>1. /\ m \in 1 .. Len(Tab(Q, d)) /\ Tab(Q, d)[m] = s
      /\ D[s].kind \in {"deleted", "unused"} /\ \A i \in 1 .. Len(Tab(Q, d)) : i < m => D[Tab(Q, d)[i]].kind # "unused"
      /\ E[s].kind = "file" /\ NameOk(E[s]) /\ NotNamed(D, Tab(Q, d), E[s].name)
  BY DEF PutHere
<1>2. QED
  BY <1>1, PutOk

(* The entry of a file goes from one directory into another: what is alive *)
(* but at the two slots stays.                                             *)
MovedFrom(W, s, f, e, dc) == dir_write(dir_write(remove_lfn_entries(W, dc, s), s, Deleted), f, e)
(* The disk stays sound when a file is moved. *)
LEMMA MoveOk ==
    ASSUME NEW A, NEW Q, NEW b, Firm(A, Q, b), NEW s \in Slot, A.dirent[s].kind = "file", NEW dc,
           NEW x \in Holders(A.dirent), NEW dc2, dc2 = HeadOf(Q, x), NEW f, f = find_free(A, dc2), f # NoSlot,
           NEW e \in DirEntry, e.kind = "file", NameOk(e), NotNamed(A.dirent, Tab(Q, x), e.name),
           NEW X, X = MovedFrom(A, s, f, e, dc)
    PROVE  /\ Firm(X, Handing(Q, s, f), b) /\ f \in Slot /\ f # s /\ ~Alive(A.dirent[f])
           /\ X.dirent[f] = e /\ ~Alive(X.dirent[s])
           /\ \A y \in Slot : y # s /\ y # f => (Alive(X.dirent[y]) \/ Alive(A.dirent[y]) => X.dirent[y] = A.dirent[y])
<1>1. Fit(A, Q) /\ A \in Good /\ Q \in Owners /\ DirsOk(A.dirent, Q) /\ Laid(A.fat, Q) /\ A.fat \in [Cluster -> FatEntry]
      /\ (b \/ A.broken \/ Whole(A.fat, Q))
  BY DEF Firm, Fit, Good, Work
<1>2. PICK R : R = remove_lfn_entries(A, dc, s)
  OBVIOUS
<1>3. PICK Y : Y = dir_write(R, s, Deleted)
  OBVIOUS
<1>4. X = dir_write(Y, f, e)
  BY <1>2, <1>3 DEF MovedFrom
<1>5. PICK D : D = A.dirent
  OBVIOUS
<1>6. PICK m \in 1 .. Len(Tab(Q, x)) :
         Tab(Q, x)[m] = f /\ \A i \in 1 .. Len(Tab(Q, x)) : i < m => D[Tab(Q, x)[i]].kind # "unused"
  BY <1>1, <1>5, FreeAt
<1>7. f \in Slot /\ D[f].kind \in {"deleted", "unused"} /\ f # s /\ ~Alive(D[f]) /\ Q[f] = <<>>
  <2>1. f \in Slot /\ D[f].kind \in {"deleted", "unused"}
    BY <1>1, <1>5, FreeAt
  <2>2. ~Alive(D[f]) /\ f # s
    BY <1>5, <2>1 DEF Alive
  <2>3. QED
    BY <1>1, <1>5, <2>1, <2>2 DEF DirsOk, Bare
<1>8. Firm(R, Q, b) /\ SameDisk(R, A) /\ LfnGone(R.dirent, D) /\ R \in Good /\ DirsOk(R.dirent, Q)
  BY <1>2, <1>5, RemoveOk DEF Firm, Fit
<1>9. /\ Y \in Good /\ SameDisk(Y, R) /\ Y.dirent[s] = Deleted
      /\ \A y \in Slot : y # s => Y.dirent[y] = R.dirent[y]
  <2>1. PICK g : g = Deleted
    OBVIOUS
  <2>2. g \in DirEntry /\ Y = dir_write(R, s, g)
    BY <1>3, <2>1, NoEntryTypes
  <2>3. /\ Y \in Good /\ SameDisk(Y, R) /\ Y.dirent[s] = g
        /\ \A y \in Slot : y # s => Y.dirent[y] = R.dirent[y]
    BY <1>8, <2>2, DirWriteIs
  <2>4. QED
    BY <2>1, <2>3
<1>10. /\ X \in Good /\ SameDisk(X, Y) /\ X.dirent[f] = e
       /\ \A y \in Slot : y # f => X.dirent[y] = Y.dirent[y]
  BY <1>4, <1>7, <1>9, DirWriteIs
<1>11. PICK E, F, G : E = R.dirent /\ F = Y.dirent /\ G = X.dirent
  OBVIOUS
<1>12. \A y \in Slot : E[y] = D[y] \/ (D[y].kind = "lfn" /\ E[y] = Deleted)
  BY <1>8, <1>11 DEF LfnGone
<1>13. \A y \in Slot : Alive(E[y]) \/ Alive(D[y]) => E[y] = D[y]
  BY <1>12, NoNames DEF Alive
<1>14. PICK P, N : P = Without(Q, s) /\ N = Handing(Q, s, f)
  OBVIOUS
<1>15. P \in Owners /\ P[s] = <<>> /\ (\A y \in Slot : y # s => P[y] = Q[y]) /\ Apart(P)
  BY <1>1, <1>14, WithoutIs, LaidWithout DEF Laid
<1>16. N \in Owners /\ Handed(N, Q, s, f) /\ \A y \in Slot : y # f => N[y] = P[y]
  BY <1>1, <1>7, <1>14, HandingIs
<1>17. Alive(E[s]) /\ E[s] = D[s] /\ E[s].kind = "file"
  BY <1>5, <1>13 DEF Alive
<1>18. DirsOk(F, P)
  <2>1. OneEntry(F, E, P, Q, s) /\ F[s] = Deleted
    BY <1>9, <1>11, <1>15 DEF OneEntry
  <2>2. DirsOk(E, Q) /\ (E[s].kind = "dir" => NoneIn(E, Q, s))
    BY <1>8, <1>11, <1>17
  <2>3. QED
    BY <1>1, <1>15, <1>17, <2>1, <2>2, KillOk
<1>19. F[s] = Deleted /\ \A y \in Slot : y # s => F[y] = E[y]
  BY <1>9, <1>11
<1>20. x \in {NoSlot} \cup Slot /\ x # s /\ x \in Holders(D) /\ x \in Holders(F)
  <2>1. x \in Holders(D) /\ x \in {NoSlot} \cup Slot
    BY <1>5 DEF Holders, Dirs
  <2>2. x # s
    BY <1>5, <2>1, SlotIsOne DEF Holders, Dirs
  <2>3. QED
    BY <1>13, <1>19, <2>1, <2>2 DEF Holders, Dirs, Alive
<1>21. PICK t : t = Tab(Q, x)
  OBVIOUS
<1>22. Tab(P, x) = t
  <2>1. x # NoSlot => P[x] = Q[x]
    BY <1>15, <1>20
  <2>2. QED
    BY <1>21, <2>1 DEF Tab
<1>23. \A i \in 1 .. Len(t) : t[i] \in Slot
  BY <1>1, <1>20, <1>21, TabIs
<1>24. DirsOk(G, N)
  <2>1. OneEntry(G, F, N, P, f) /\ G[f] = e
    BY <1>10, <1>11, <1>16 DEF OneEntry
  <2>2. m \in 1 .. Len(t) /\ t[m] = f
    BY <1>6, <1>21
  <2>3. F[f].kind \in {"deleted", "unused"}
    BY <1>7, <1>12, <1>19
  <2>4. \A i \in 1 .. Len(t) : i < m => F[t[i]].kind # "unused"
    <3>1. ASSUME NEW i \in 1 .. Len(t), i < m
          PROVE  F[t[i]].kind # "unused"
      <4>1. D[t[i]].kind # "unused" /\ t[i] \in Slot
        BY <1>6, <1>21, <1>23, <3>1
      <4>2. QED
        BY <1>12, <1>19, <4>1, NoNames
    <3>2. QED
      BY <3>1
  <2>5. NotNamed(F, t, e.name)
    <3>1. NotNamed(D, t, e.name)
      BY <1>5, <1>21
    <3>2. e.name # NoName
      BY DEF NameOk, Alive
    <3>3. QED
      BY <1>12, <1>19, <1>23, <3>1, <3>2, NoNames DEF NotNamed
  <2>6. /\ m \in 1 .. Len(Tab(P, x)) /\ Tab(P, x)[m] = f
        /\ \A i \in 1 .. Len(Tab(P, x)) : i < m => F[Tab(P, x)[i]].kind # "unused"
        /\ G[f].kind = "file" /\ NameOk(G[f]) /\ NotNamed(F, Tab(P, x), G[f].name)
    BY <1>22, <2>1, <2>2, <2>4, <2>5
  <2>7. QED
    <3>1. PutHere(G, F, P, x, m, f)
      BY <2>3, <2>6 DEF PutHere
    <3>2. f \in Slot /\ P \in Owners /\ Apart(P) /\ N \in Owners /\ DirsOk(F, P) /\ x \in Holders(F)
      BY <1>7, <1>15, <1>16, <1>18, <1>20
    <3>3. QED
      BY <2>1, <3>1, <3>2, PutAt
<1>25. Laid(A.fat, N) /\ (Whole(A.fat, Q) => Whole(A.fat, N))
  <2>1. PICK g : g = A.fat
    OBVIOUS
  <2>2. Laid(g, N) /\ (Whole(g, Q) => Whole(g, N))
    BY <1>1, <1>7, <1>16, <2>1, LaidHanded
  <2>3. QED
    BY <2>1, <2>2
<1>26. Firm(X, N, b)
  <2>1. X.fat = A.fat /\ X.broken = A.broken
    BY <1>8, <1>9, <1>10 DEF SameDisk
  <2>2. QED
    BY <1>1, <1>10, <1>11, <1>16, <1>24, <1>25, <2>1 DEF Firm, Fit
<1>27. G[f] = e /\ ~Alive(G[s]) /\ \A y \in Slot : y # s /\ y # f => (Alive(G[y]) \/ Alive(D[y]) => G[y] = D[y])
  <2>1. G[f] = e /\ \A y \in Slot : y # f => G[y] = F[y]
    BY <1>10, <1>11
  <2>2. QED
    BY <1>7, <1>13, <1>19, <2>1, NoNames
<1>28. QED
  BY <1>5, <1>7, <1>11, <1>14, <1>26, <1>27

(* Files stay when only a directory grows. *)
LEMMA SpreadFiles ==
    ASSUME NEW t, NEW D, NEW E, NEW P, NEW Q, FilesOk(t, D, Q), Spread(E, D, P, Q)
    PROVE  FilesOk(t, E, P)
<1>1. \A x \in Slot : E[x].kind = "file" \/ D[x].kind = "file" => E[x] = D[x] /\ P[x] = Q[x]
  BY DEF Spread, Alive
<1>2. OpensFiles(t, E)
  BY <1>1 DEF FilesOk, OpensFiles
<1>3. \A x \in Slot : E[x].kind = "file" => Kept(t, t, E, D, P, Q, x)
  BY <1>1 DEF Kept
<1>4. QED
  BY <1>2, <1>3, FilesKept

(* A rename into another directory. *)
LEMMA MoveChains ==
    ASSUME CountInv, NEW Q \in Owners, Holds(Q), DirsOk(dirent, Q), NEW p1, NEW p2, Paths(p1, p2), NEW n \in Int,
           NEW T, T = Table(n), NEW s, s = find_fname(T, p1), IsFile(s), OpenAt(s) = {},
           NEW dc, NEW dc2, dc2 = DirOf(T, p2[1]), dc2 # ERROR, find_fname(T, p2) = NoSlot,
           MoveTo(s, dc, dc2, p2, alloc_find_free(T, dc2)), sft' = sft
    PROVE  ChainsOk(fat', dirent', sft', failed')
<1>1. Firm(T, Q, failed) /\ T.dirent = dirent /\ Fit(T, Q) /\ T \in Good /\ T.ok
  BY TableFirm DEF Firm, Fit
<1>2. PICK D, t, w, A : D = dirent /\ t = sft /\ w = p2[2] /\ A = alloc_find_free(T, dc2)
  OBVIOUS
<1>3. FilesOk(t, D, Q) /\ DirsOk(D, Q) /\ OpensFiles(t, D)
  BY <1>2 DEF Holds, FilesOk
<1>4. PICK e : e = Named2(D[s], w)
  OBVIOUS
<1>5. s \in Slot /\ Alive(D[s]) /\ D[s] \in DirEntry /\ w # NoName /\ w \in FileName \cup DirName /\ NameOk(e)
  <2>1. s # NoSlot
    BY DEF IsFile
  <2>2. QED
    BY <1>1, <1>2, <1>4, <2>1, RenameNames
<1>6. e \in DirEntry /\ e.name = w /\ e.kind = "file" /\ e.start = D[s].start /\ e.size = D[s].size /\ D[s].kind = "file"
  <2>1. D[s].kind = "file"
    BY <1>2 DEF IsFile
  <2>2. QED
    BY <1>4, <1>5, <2>1, Named2Is
<1>7. D[s].start = StartIn(Q[s]) /\ D[s].size <= MaxOffset /\ \A h \in Fd : t[h].open => t[h].slot # s
  BY <1>2, <1>3, <1>5, <1>6, Unopened
<1>8. PICK x \in Holders(D) : dc2 = HeadOf(Q, x)
  BY <1>1, <1>2, FindsDir
<1>9. NotNamed(D, Tab(Q, x), w)
  <2>1. SlotIn(T, dc2, w) = NoSlot
    BY <1>2 DEF find_fname
  <2>2. QED
    BY <1>1, <1>2, <1>5, <1>8, <2>1, FindsNone
<1>10. PICK P : /\ Firm(A, P, failed) /\ Spread(A.dirent, T.dirent, P, Q)
                /\ A.ok => Room(A, P, x, dc2) /\ NoneNamed(A, P, T, Q, x)
  BY <1>1, <1>2, <1>8, AllocOk
<1>11. PICK E : E = A.dirent
  OBVIOUS
<1>12. Spread(E, D, P, Q)
  BY <1>1, <1>2, <1>10, <1>11
<1>13. FilesOk(t, E, P)
  BY <1>3, <1>12, SpreadFiles
<1>14. A \in Good /\ P \in Owners
  BY <1>10 DEF Firm, Fit
<1>15. CASE ~A.ok
  <2>1. Commit(A)
    BY <1>2, <1>15 DEF MoveTo, Then
  <2>2. FilesOk(t, A.dirent, P)
    BY <1>11, <1>13
  <2>3. QED
    BY <1>2, <1>10, <2>1, <2>2, CommitOk
<1>16. CASE A.ok
  <2>1. PICK f : f = find_free(A, dc2)
    OBVIOUS
  <2>2. PICK X : X = MovedFrom(A, s, f, e, dc)
    OBVIOUS
  <2>3. Commit(X)
    BY <1>2, <1>4, <1>16, <2>1, <2>2 DEF MoveTo, Then, MovedFrom, Named2
  <2>4. x \in Holders(E) /\ dc2 = HeadOf(P, x) /\ f # NoSlot
    BY <1>10, <1>11, <1>16, <2>1 DEF Room
  <2>5. NotNamed(E, Tab(P, x), w)
    BY <1>1, <1>2, <1>5, <1>9, <1>10, <1>11, <1>16 DEF NoneNamed
  <2>6. E[s] = D[s] /\ P[s] = Q[s]
    BY <1>5, <1>6, <1>12 DEF Spread
  <2>7. /\ Firm(X, Handing(P, s, f), failed) /\ f \in Slot /\ f # s /\ ~Alive(E[f])
        /\ X.dirent[f] = e /\ ~Alive(X.dirent[s])
        /\ \A y \in Slot : y # s /\ y # f => (Alive(X.dirent[y]) \/ Alive(E[y]) => X.dirent[y] = E[y])
    <3>1. NotNamed(E, Tab(P, x), e.name) /\ E[s].kind = "file"
      BY <1>6, <2>5, <2>6
    <3>2. QED
      BY <1>5, <1>6, <1>10, <1>11, <2>1, <2>2, <2>4, <3>1, MoveOk
  <2>8. PICK N, F : N = Handing(P, s, f) /\ F = X.dirent
    OBVIOUS
  <2>9. N[f] = P[s] /\ \A y \in Slot : y # s /\ y # f => N[y] = P[y]
    <3>1. Handed(N, P, s, f)
      BY <1>5, <1>14, <2>7, <2>8, HandingIs
    <3>2. QED
      BY <3>1 DEF Handed
  <2>10. /\ \A h \in Fd : t[h].open => t[h].slot # f /\ t[h].slot # s
         /\ OpensFiles(t, E)
    BY <1>7, <1>13, <2>7 DEF FilesOk, OpensFiles, Alive
  <2>11. F[f] = e /\ ~Alive(F[s]) /\ \A y \in Slot : y # s /\ y # f => (F[y].kind = "file" \/ E[y].kind = "file" => F[y] = E[y])
    BY <2>7, <2>8 DEF Alive
  <2>12. FilesOk(t, F, N)
    <3>1. OpensFiles(t, F)
      BY <2>10, <2>11 DEF OpensFiles
    <3>2. FileOk(t, F[f], N, f)
      <4>1. At(t, f) = {}
        BY <2>10 DEF At
      <4>2. F[f].start = StartIn(N[f]) /\ F[f].size <= MaxOffset
        BY <1>6, <1>7, <2>6, <2>9, <2>11
      <4>3. QED
        BY <2>7, <4>1, <4>2, FileUnopened
    <3>3. ASSUME NEW y \in Slot, F[y].kind = "file", y # f
          PROVE  Kept(t, t, F, E, N, P, y)
      <4>1. y # s
        BY <2>11, <3>3 DEF Alive
      <4>2. F[y] = E[y] /\ N[y] = P[y]
        BY <2>9, <2>11, <3>3, <4>1
      <4>3. QED
        BY <3>3, <4>2 DEF Kept
    <3>4. QED
      BY <1>13, <3>1, <3>2, <3>3, FilesKept
  <2>13. Firm(X, N, failed) /\ FilesOk(t, X.dirent, N)
    BY <2>7, <2>8, <2>12
  <2>14. QED
    BY <1>2, <2>3, <2>13, CommitOk
<1>17. QED
  BY <1>15, <1>16

(* A rename. *)
LEMMA RenameChains ==
    ASSUME CountInv, NEW Q \in Owners, Holds(Q), DirsOk(dirent, Q), NEW p1, NEW p2, Paths(p1, p2), NEW n \in LinkBounds, Rename(p1, p2, n)
    PROVE  ChainsOk(fat', dirent', sft', failed')
<1>1. n \in Int
  BY BoundsAreNumbers
<1>2. PICK T, s, dc, dc2 : T = Table(n) /\ s = find_fname(T, p1) /\ dc = DirOf(T, p1[1]) /\ dc2 = DirOf(T, p2[1])
  OBVIOUS
<1>3. /\ s # NoSlot /\ OpenAt(s) = {} /\ dc2 # ERROR /\ find_fname(T, p2) = NoSlot /\ sft' = sft
      /\ \/ dc = dc2 /\ RenameInPlace(s, p2, remove_lfn_entries(T, dc, s))
         \/ dc # dc2 /\ IsFile(s) /\ MoveTo(s, dc, dc2, p2, alloc_find_free(T, dc2))
  BY <1>2 DEF Rename
<1>4. CASE dc = dc2 /\ RenameInPlace(s, p2, remove_lfn_entries(T, dc, s))
  BY <1>1, <1>2, <1>3, <1>4, InPlaceChains
<1>5. CASE IsFile(s) /\ MoveTo(s, dc, dc2, p2, alloc_find_free(T, dc2))
  BY <1>1, <1>2, <1>3, <1>5, MoveChains
<1>6. QED
  BY <1>3, <1>4, <1>5

(* The entry of a file that has become empty. *)
Emptied(e) == [e EXCEPT !.start = FREE, !.size = 0]
(* It is an entry, and differs in start and size only. *)
LEMMA EmptiedIs ==
    ASSUME NEW e \in DirEntry
    PROVE  /\ Emptied(e) \in DirEntry /\ Emptied(e).name = e.name /\ Emptied(e).kind = e.kind
           /\ Emptied(e).start = FREE /\ Emptied(e).size = 0
BY DEF Emptied, DirEntry, Start

(* The first SFT of a file that has no clusters, and the others as before. *)
NewAt(u, t, h, s) == u[h] = NewFile(s, "rw", FREE, 0) /\ \A k \in Fd : k # h => u[k] = t[k]
(* Files stay sound when one is created and opened. *)
LEMMA NewAtFiles ==
    ASSUME NEW t, NEW u, NEW D, NEW E, NEW Q, NEW P, FilesOk(t, D, Q), NEW s \in Slot, NEW h \in Fd, ~t[h].open,
           \A k \in Fd : t[k].open => t[k].slot # s, NewAt(u, t, h, s),
           E[s].kind = "file", E[s].start = FREE, E[s].size = 0, P[s] = <<>>,
           \A x \in Slot : x # s => (E[x].kind = "file" \/ D[x].kind = "file" => E[x] = D[x] /\ P[x] = Q[x])
    PROVE  FilesOk(u, E, P)
<1>1. u[h].open /\ u[h].slot = s /\ \A k \in Fd : k # h => u[k] = t[k]
  BY DEF NewAt, NewFile
<1>2. At(u, s) = {h}
  BY <1>1 DEF At
<1>3. FileOk(u, E[s], P, s)
  BY <1>2, FileNew DEF NewAt
<1>4. OpensFiles(u, E)
  <2>1. ASSUME NEW k \in Fd, u[k].open
        PROVE  u[k].slot \in Slot /\ E[u[k].slot].kind = "file"
    <3>1. CASE k = h
      BY <1>1, <3>1
    <3>2. CASE k # h
      BY <1>1, <2>1, <3>2 DEF FilesOk, OpensFiles
    <3>3. QED
      BY <3>1, <3>2
  <2>2. QED
    BY <2>1 DEF OpensFiles
<1>5. ASSUME NEW x \in Slot, E[x].kind = "file", x # s
      PROVE  Kept(u, t, E, D, P, Q, x)
  <2>1. E[x] = D[x] /\ P[x] = Q[x]
    BY <1>5
  <2>2. \A k \in Fd : k \in At(t, x) \/ k \in At(u, x) => u[k] = t[k]
    BY <1>1, <1>5 DEF At
  <2>3. QED
    BY <1>5, <2>1, <2>2 DEF Kept
<1>6. QED
  BY <1>3, <1>4, <1>5, FilesKept

(* A create of a file that is there. *)
LEMMA ReplaceChains ==
    ASSUME CountInv, NEW Q \in Owners, Holds(Q), DirsOk(dirent, Q), NEW h \in Fd, ~sft[h].open, NEW n \in Int,
           NEW s \in Slot, dirent[s].kind = "file", NEW W, W = WipeOut(Table(n), dirent[s].start), Replace(h, s, W),
           ~SharedTruncate
    PROVE  ChainsOk(fat', dirent', sft', failed')
<1>1. PICK T : T = Table(n)
  OBVIOUS
<1>2. Firm(T, Q, failed) /\ T.dirent = dirent /\ T.ok = TRUE /\ T \in Good
  BY <1>1, TableFirm DEF Firm, Fit
<1>3. PICK D, t, u, e : D = dirent /\ t = sft /\ u = sft' /\ e = Emptied(dirent[s])
  OBVIOUS
<1>4. PICK X : X = dir_write(W, s, e)
  OBVIOUS
<1>5. OpenAt(s) = {} /\ Commit(X) /\ \A k \in Fd : u[k] = IF k = h THEN NewFile(s, "rw", FREE, 0) ELSE t[k]
  <2>1. OpenAt(s) = {} /\ Commit(X)
    BY <1>3, <1>4 DEF Replace, Emptied
  <2>2. u = [k \in Fd |-> IF k = h THEN NewFile(s, "rw", FREE, 0)
                          ELSE IF k \in OpenAt(s) THEN Told(sft[k], Merge(W)) ELSE sft[k]]
    BY <1>3 DEF Replace
  <2>3. QED
    BY <1>3, <2>1, <2>2
<1>6. FilesOk(t, D, Q) /\ DirsOk(D, Q) /\ Alive(D[s])
  BY <1>3 DEF Holds, Alive
<1>7. D[s].start = StartIn(Q[s]) /\ \A k \in Fd : t[k].open => t[k].slot # s
  BY <1>3, <1>5, <1>6, Unopened
<1>8. PICK P : P = Without(Q, s)
  OBVIOUS
<1>9. W \in Good /\ W.ok /\ W.dirent = T.dirent /\ Sound(W, P, failed)
  <2>1. PICK c : c = D[s].start
    OBVIOUS
  <2>2. c = StartIn(Q[s]) /\ W = WipeOut(T, c) /\ Sound(T, Q, failed) /\ T.ok
    BY <1>1, <1>2, <1>3, <1>7, <2>1 DEF Firm, Fit, Sound
  <2>3. QED
    BY <1>2, <1>8, <2>2, WipesChain
<1>10. D[s] \in DirEntry
  BY <1>3 DEF CountInv, TypeInv
<1>11. e \in DirEntry /\ e.name = D[s].name /\ e.kind = "file" /\ e.start = FREE /\ e.size = 0
  BY <1>3, <1>10, EmptiedIs
<1>12. /\ X \in Good /\ SameDisk(X, W) /\ X.dirent[s] = e
       /\ \A x \in Slot : x # s => X.dirent[x] = W.dirent[x]
  BY <1>4, <1>9, <1>11, DirWriteIs
<1>13. PICK E : E = X.dirent
  OBVIOUS
<1>14. E[s] = e /\ \A x \in Slot : x # s => E[x] = D[x]
  BY <1>2, <1>3, <1>9, <1>12, <1>13
<1>15. P \in Owners /\ P[s] = <<>> /\ \A x \in Slot : x # s => P[x] = Q[x]
  BY <1>8, WithoutIs
<1>16. DirsOk(E, P)
  <2>1. \A x \in Slot : (E[x] = D[x] /\ P[x] = Q[x]) \/ SameName(E[x], D[x])
    BY <1>3, <1>11, <1>14, <1>15 DEF SameName
  <2>2. QED
    BY <1>6, <1>15, <2>1, EntryOk
<1>17. Firm(X, P, failed)
  BY <1>9, <1>12, <1>13, <1>15, <1>16 DEF Firm, Fit, Sound, SameDisk
<1>18. FilesOk(u, E, P)
  <2>1. NewAt(u, t, h, s) /\ ~t[h].open
    BY <1>3, <1>5 DEF NewAt
  <2>2. E[s].kind = "file" /\ E[s].start = FREE /\ E[s].size = 0
    BY <1>11, <1>14
  <2>3. \A x \in Slot : x # s => (E[x].kind = "file" \/ D[x].kind = "file" => E[x] = D[x] /\ P[x] = Q[x])
    BY <1>14, <1>15
  <2>4. QED
    BY <1>6, <1>7, <1>15, <2>1, <2>2, <2>3, NewAtFiles
<1>19. QED
  BY <1>3, <1>5, <1>13, <1>17, <1>18, CommitOk

(* A create of a file that is not. *)
LEMMA CreateNewChains ==
    ASSUME CountInv, NEW Q \in Owners, Holds(Q), DirsOk(dirent, Q), NEW h \in Fd, ~sft[h].open, NEW n \in Int, NEW p \in FilePath,
           NEW T, T = Table(n), NEW dc, dc = DirOf(T, p[1]), dc # ERROR, find_fname(T, p) = NoSlot,
           NEW A, A = alloc_find_free(T, dc), CreateNew(h, p, A, find_free(A, dc))
    PROVE  ChainsOk(fat', dirent', sft', failed')
<1>1. Firm(T, Q, failed) /\ T.dirent = dirent /\ Fit(T, Q) /\ T \in Good /\ T.ok
  BY TableFirm DEF Firm, Fit
<1>2. PICK D, t, u, w : D = dirent /\ t = sft /\ u = sft' /\ w = p[2]
  OBVIOUS
<1>3. FilesOk(t, D, Q) /\ DirsOk(D, Q) /\ w \in FileName /\ w # NoName /\ w \notin DirName
  BY <1>2, FatAssumption DEF Holds, FilePath
<1>4. PICK x \in Holders(D) : dc = HeadOf(Q, x)
  BY <1>1, <1>2, FindsDir
<1>5. NotNamed(D, Tab(Q, x), w)
  <2>1. SlotIn(T, dc, w) = NoSlot
    BY <1>2 DEF find_fname
  <2>2. QED
    BY <1>1, <1>2, <1>3, <1>4, <2>1, FindsNone
<1>6. PICK P : /\ Firm(A, P, failed) /\ Spread(A.dirent, T.dirent, P, Q)
               /\ A.ok => Room(A, P, x, dc) /\ NoneNamed(A, P, T, Q, x)
  BY <1>1, <1>2, <1>4, AllocOk
<1>7. PICK E : E = A.dirent
  OBVIOUS
<1>8. FilesOk(t, E, P) /\ OpensFiles(t, E)
  <2>1. Spread(E, D, P, Q)
    BY <1>1, <1>2, <1>6, <1>7
  <2>2. FilesOk(t, E, P)
    BY <1>3, <2>1, SpreadFiles
  <2>3. QED
    BY <2>2 DEF FilesOk
<1>9. A \in Good /\ P \in Owners /\ Fit(A, P) /\ DirsOk(E, P) /\ Apart(P) /\ (failed \/ A.broken \/ Whole(A.fat, P))
      /\ Laid(A.fat, P)
  BY <1>6, <1>7 DEF Firm, Fit, Laid
<1>10. CASE ~A.ok
  <2>1. Commit(A) /\ u = t
    BY <1>2, <1>10 DEF CreateNew
  <2>2. FilesOk(t, A.dirent, P)
    BY <1>7, <1>8
  <2>3. QED
    BY <1>2, <1>6, <2>1, <2>2, CommitOk
<1>11. CASE A.ok
  <2>1. PICK f, e : f = find_free(A, dc) /\ e = Entry("file", w, FREE, 0)
    OBVIOUS
  <2>2. PICK X : X = dir_write(A, f, e)
    OBVIOUS
  <2>3. Commit(X) /\ u = [t EXCEPT ![h] = NewFile(f, "rw", FREE, 0)]
    BY <1>2, <1>11, <2>1, <2>2 DEF CreateNew
  <2>4. x \in Holders(E) /\ dc = HeadOf(P, x) /\ f # NoSlot
    BY <1>6, <1>7, <1>11, <2>1 DEF Room
  <2>5. NotNamed(E, Tab(P, x), w)
    BY <1>1, <1>2, <1>3, <1>5, <1>6, <1>7, <1>11 DEF NoneNamed
  <2>6. f \in Slot /\ E[f].kind \in {"deleted", "unused"}
    BY <1>7, <1>9, <2>1, <2>4, FreeAt
  <2>7. PICK m \in 1 .. Len(Tab(P, x)) :
           Tab(P, x)[m] = f /\ \A i \in 1 .. Len(Tab(P, x)) : i < m => E[Tab(P, x)[i]].kind # "unused"
    BY <1>7, <1>9, <2>1, <2>4, FreeAt
  <2>8. e \in DirEntry /\ e.kind = "file" /\ e.name = w /\ e.start = FREE /\ e.size = 0
    <3>1. Entry("file", w, FREE, 0) \in DirEntry
      BY <1>3, EntryTypes DEF Kinds, Start
    <3>2. QED
      BY <2>1, <3>1 DEF Entry
  <2>9. NameOk(e)
    BY <1>3, <2>8 DEF NameOk, Alive
  <2>10. /\ X \in Good /\ SameDisk(X, A) /\ X.dirent[f] = e
         /\ \A y \in Slot : y # f => X.dirent[y] = A.dirent[y]
    BY <1>9, <2>2, <2>6, <2>8, DirWriteIs
  <2>11. PICK F : F = X.dirent
    OBVIOUS
  <2>12. F[f] = e /\ \A y \in Slot : y # f => F[y] = E[y]
    BY <1>7, <2>10, <2>11
  <2>13. ~Alive(E[f]) /\ P[f] = <<>>
    <3>1. ~Alive(E[f])
      BY <2>6 DEF Alive
    <3>2. QED
      BY <1>9, <2>6, <3>1 DEF DirsOk, Bare
  <2>14. DirsOk(F, P)
    <3>1. OneEntry(F, E, P, P, f)
      BY <2>12 DEF OneEntry
    <3>2. PutHere(F, E, P, x, m, f)
      BY <2>5, <2>6, <2>7, <2>8, <2>9, <2>12 DEF PutHere
    <3>3. QED
      BY <1>9, <2>4, <2>6, <3>1, <3>2, PutAt
  <2>15. Firm(X, P, failed)
    BY <1>9, <2>10, <2>11, <2>14 DEF Firm, Fit, SameDisk
  <2>16. FilesOk(u, F, P)
    <3>1. NewAt(u, t, h, f) /\ ~t[h].open
      BY <1>2, <2>3 DEF NewAt, CountInv, TypeInv
    <3>2. \A k \in Fd : t[k].open => t[k].slot # f
      BY <1>8, <2>13 DEF OpensFiles, Alive
    <3>3. F[f].kind = "file" /\ F[f].start = FREE /\ F[f].size = 0
      BY <2>8, <2>12
    <3>4. \A y \in Slot : y # f => (F[y].kind = "file" \/ E[y].kind = "file" => F[y] = E[y] /\ P[y] = P[y])
      BY <2>12
    <3>5. QED
      BY <1>8, <2>6, <2>13, <3>1, <3>2, <3>3, <3>4, NewAtFiles
  <2>17. QED
    BY <1>2, <2>3, <2>11, <2>15, <2>16, CommitOk
<1>12. QED
  BY <1>10, <1>11

(* A create. *)
LEMMA CreateChains ==
    ASSUME CountInv, NEW Q \in Owners, Holds(Q), DirsOk(dirent, Q), NEW h \in Fd, NEW p \in FilePath, NEW n \in LinkBounds,
           Create(h, p, n), ~SharedTruncate
    PROVE  ChainsOk(fat', dirent', sft', failed')
<1>1. n \in Int /\ ~sft[h].open
  BY BoundsAreNumbers DEF Create, get_free_sft
<1>2. PICK T, s, dc : T = Table(n) /\ s = find_fname(T, p) /\ dc = DirOf(T, p[1])
  OBVIOUS
<1>3. /\ dc # ERROR
      /\ \/ IsFile(s) /\ Replace(h, s, WipeOut(T, dirent[s].start))
         \/ /\ s = NoSlot
            /\ \E W \in {alloc_find_free(T, dc)} : CreateNew(h, p, W, find_free(W, dc))
  BY <1>2 DEF Create
<1>4. CASE IsFile(s) /\ Replace(h, s, WipeOut(T, dirent[s].start))
  <2>1. s \in Slot /\ dirent[s].kind = "file"
    BY <1>1, <1>2, <1>4, FoundIsSlot DEF IsFile
  <2>2. PICK W : W = WipeOut(T, dirent[s].start)
    OBVIOUS
  <2>3. Replace(h, s, W) /\ W = WipeOut(Table(n), dirent[s].start)
    BY <1>2, <1>4, <2>2
  <2>4. QED
    BY <1>1, <2>1, <2>3, ReplaceChains
<1>5. CASE s = NoSlot /\ \E W \in {alloc_find_free(T, dc)} : CreateNew(h, p, W, find_free(W, dc))
  <2>1. PICK A : A = alloc_find_free(T, dc) /\ CreateNew(h, p, A, find_free(A, dc))
    BY <1>5
  <2>2. find_fname(T, p) = NoSlot
    BY <1>2, <1>5
  <2>3. QED
    BY <1>1, <1>2, <1>3, <2>1, <2>2, CreateNewChains
<1>6. QED
  BY <1>3, <1>4, <1>5

(* All files, and their chains, stay. *)
FilesStay(E, D, P, Q) ==
    \A s \in Slot : E[s].kind = "file" \/ D[s].kind = "file" => E[s] = D[s] /\ P[s] = Q[s]
(* Files that stay are sound. *)
LEMMA StayFiles ==
    ASSUME NEW t, NEW D, NEW E, NEW P, NEW Q, FilesOk(t, D, Q), FilesStay(E, D, P, Q)
    PROVE  FilesOk(t, E, P)
<1>1. OpensFiles(t, E)
  BY DEF FilesOk, OpensFiles, FilesStay
<1>2. \A s \in Slot : E[s].kind = "file" => Kept(t, t, E, D, P, Q, s)
  BY DEF FilesStay, Kept
<1>3. QED
  BY <1>1, <1>2, FilesKept

(* The first slot of the root that is free is not in a cluster, and stays *)
(* when a cluster outside of all directories is cleared.                  *)
LEMMA RootStays ==
    ASSUME NEW P \in Owners, NEW D, NEW C, NEW c \in Cluster, \A x \in Slot : C[x] = IF x[1] = c THEN Unused ELSE D[x]
    PROVE  \A i \in 1 .. Len(Tab(P, NoSlot)) : Tab(P, NoSlot)[i] \in Slot /\ C[Tab(P, NoSlot)[i]] = D[Tab(P, NoSlot)[i]]
<1>1. NoSlot \in {NoSlot} \cup Slot /\ NoSlot \notin Slot /\ c # Root
  BY SlotIsOne, ClusterFacts DEF Root, FREE
<1>2. ASSUME NEW i \in 1 .. Len(Tab(P, NoSlot))
      PROVE  Tab(P, NoSlot)[i] \in Slot /\ Tab(P, NoSlot)[i][1] = Root
  BY <1>1, TabIs, TabCluster
<1>3. QED
  BY <1>1, <1>2

(* The entry of a new directory. *)
LEMMA DirEntryIs ==
    ASSUME NEW d \in DirName, NEW c \in Cluster, NEW e, e = Entry("dir", d, c, 0)
    PROVE  /\ e \in DirEntry /\ e.kind = "dir" /\ e.name = d /\ e.start = c /\ NameOk(e)
           /\ Alive(e)
<1>1. "dir" \in Kinds /\ d \in FileName \cup DirName \cup {NoName} /\ c \in Start /\ 0 \in Nat
  BY DEF Kinds, Start
<1>2. Entry("dir", d, c, 0) \in DirEntry
  BY <1>1, EntryTypes
<1>3. e.kind = "dir" /\ e.name = d /\ e.start = c
  BY DEF Entry
<1>4. d # NoName
  BY FatAssumption
<1>5. QED
  BY <1>2, <1>3, <1>4 DEF NameOk, Alive

(* The directory after its cluster is linked. *)
LEMMA NewDirFirm ==
    ASSUME NEW A, NEW P, Fit(A, P), NEW s, s = find_free(A, Root), s # NoSlot, NEW c \in Cluster, Outside(P, c),
           NEW d \in DirName, NotNamed(A.dirent, Tab(P, NoSlot), d), NEW R, R = Grown(P, s, c), Apart(R),
           NEW Y \in Good, Y.dirent = A.dirent, NEW X, X = NewDir(Y, c, s, d)
    PROVE  X \in Good /\ SameDisk(X, Y) /\ DirsOk(X.dirent, R) /\ FilesStay(X.dirent, A.dirent, R, P)
<1>1. PICK D : D = A.dirent
  OBVIOUS
<1>2. P \in Owners /\ DirsOk(D, P) /\ Apart(P)
  BY <1>1 DEF Fit, Laid
<1>3. NoSlot \in Holders(D) /\ HeadOf(P, NoSlot) = Root
  BY DEF Holders, HeadOf
<1>4. s \in Slot /\ D[s].kind \in {"deleted", "unused"}
  BY <1>1, <1>3, FreeAt
<1>5. PICK m \in 1 .. Len(Tab(P, NoSlot)) :
         Tab(P, NoSlot)[m] = s /\ \A i \in 1 .. Len(Tab(P, NoSlot)) : i < m => D[Tab(P, NoSlot)[i]].kind # "unused"
  BY <1>1, <1>3, FreeAt
<1>6. PICK Z, e, z : Z = clear_dir(Y, c) /\ e = Entry("dir", d, c, 0) /\ z = <<c, 0>>
  OBVIOUS
<1>7. Z \in Good /\ SameDisk(Z, Y) /\ \A x \in Slot : Z.dirent[x] = IF x[1] = c THEN Unused ELSE D[x]
  BY <1>1, <1>6, ClearIs
<1>8. PICK C : C = Z.dirent
  OBVIOUS
<1>9. \A x \in Slot : C[x] = IF x[1] = c THEN Unused ELSE D[x]
  BY <1>7, <1>8
<1>10. Faded(C, D, P)
  <2>1. ASSUME NEW x \in Slot, C[x] # D[x], NEW y \in Holders(D), InTab(P, y, x)
        PROVE  FALSE
    <3>1. x[1] = c /\ y \in {NoSlot} \cup Slot
      BY <1>9, <2>1 DEF Holders, Dirs
    <3>2. QED
      BY <1>2, <2>1, <3>1, TabOutside
  <2>2. \A x \in Slot : C[x] = D[x] \/ C[x] = Unused
    BY <1>9
  <2>3. QED
    BY <2>1, <2>2 DEF Faded
<1>11. DirsOk(C, P) /\ \A x \in Slot : Alive(C[x]) \/ Alive(D[x]) => C[x] = D[x]
  BY <1>2, <1>10, FadedOk
<1>12. ClearIn(C, c)
  BY <1>9 DEF ClearIn
<1>13. \A i \in 1 .. Len(Tab(P, NoSlot)) : Tab(P, NoSlot)[i] \in Slot /\ C[Tab(P, NoSlot)[i]] = D[Tab(P, NoSlot)[i]]
  BY <1>2, <1>9, RootStays
<1>14. /\ C[s].kind \in {"deleted", "unused"}
       /\ \A i \in 1 .. Len(Tab(P, NoSlot)) : i < m => C[Tab(P, NoSlot)[i]].kind # "unused"
  BY <1>4, <1>5, <1>13
<1>15. NotNamed(C, Tab(P, NoSlot), d)
  BY <1>1, <1>13 DEF NotNamed
<1>16. e \in DirEntry /\ e.kind = "dir" /\ e.name = d /\ e.start = c /\ NameOk(e)
  BY <1>6, DirEntryIs
<1>17. PICK U : U = dir_write(Z, s, e)
  OBVIOUS
<1>18. U \in Good /\ SameDisk(U, Z) /\ U.dirent[s] = e /\ \A x \in Slot : x # s => U.dirent[x] = C[x]
  BY <1>4, <1>7, <1>8, <1>16, <1>17, DirWriteIs
<1>19. z \in Slot /\ s # z
  <2>1. NoSlot \in {NoSlot} \cup Slot /\ NoSlot \notin Slot
    BY SlotIsOne
  <2>2. s[1] = Root
    BY <1>2, <1>5, <2>1, TabCluster
  <2>3. c # Root
    BY ClusterFacts DEF Root, FREE
  <2>4. z \in Slot
    <3>1. 0 \in 0 .. ClusEnts - 1
      BY FatAssumption
    <3>2. QED
      BY <1>6, <3>1 DEF Slot
  <2>5. QED
    BY <1>6, <2>2, <2>3, <2>4
<1>20. X = dir_write(U, z, Dot)
  BY <1>6, <1>17 DEF NewDir
<1>21. X \in Good /\ SameDisk(X, U) /\ X.dirent[z] = Dot /\ \A x \in Slot : x # z => X.dirent[x] = U.dirent[x]
  <2>1. PICK y : y = Dot
    OBVIOUS
  <2>2. y \in DirEntry /\ X = dir_write(U, z, y)
    BY <1>20, <2>1, NoEntryTypes
  <2>3. X \in Good /\ SameDisk(X, U) /\ X.dirent[z] = y /\ \A x \in Slot : x # z => X.dirent[x] = U.dirent[x]
    BY <1>18, <1>19, <2>2, DirWriteIs
  <2>4. QED
    BY <2>1, <2>3
<1>22. PICK E : E = X.dirent
  OBVIOUS
<1>23. E[z] = Dot /\ E[s] = e /\ \A x \in Slot : x # z /\ x # s => E[x] = C[x]
  BY <1>4, <1>18, <1>19, <1>21, <1>22
<1>24. NewEntries(E, C, s, c)
  BY <1>6, <1>23 DEF NewEntries
<1>25. DirsOk(E, R)
  <2>1. E[s].kind = "dir" /\ E[s].start = c /\ NameOk(E[s]) /\ NotNamed(C, Tab(P, NoSlot), E[s].name)
    BY <1>15, <1>16, <1>23
  <2>2. QED
    BY <1>2, <1>4, <1>5, <1>11, <1>12, <1>14, <1>24, <2>1, NewDirOk
<1>26. FilesStay(E, D, R, P)
  <2>1. ASSUME NEW x \in Slot, E[x].kind = "file" \/ D[x].kind = "file"
        PROVE  E[x] = D[x] /\ R[x] = P[x]
    <3>1. C[z] = Unused /\ ~Alive(D[z])
      BY <1>6, <1>9, <1>11, <1>19, NoNames
    <3>2. x # s
      BY <1>4, <1>16, <1>23, <2>1
    <3>3. x # z
      BY <1>23, <2>1, <3>1, NoNames DEF Alive
    <3>4. E[x] = C[x] /\ C[x] = D[x]
      BY <1>11, <1>23, <2>1, <3>2, <3>3 DEF Alive
    <3>5. R[x] = P[x]
      BY <1>2, <1>4, <3>2, GrownIs
    <3>6. QED
      BY <3>4, <3>5
  <2>2. QED
    BY <2>1 DEF FilesStay
<1>27. QED
  BY <1>1, <1>7, <1>18, <1>21, <1>22, <1>25, <1>26 DEF SameDisk

(* A directory is made, or the call fails. *)
LEMMA MadeDir ==
    ASSUME NEW A, A.ok, NEW P, NEW b, Firm(A, P, b), Room(A, P, NoSlot, Root), NEW d \in DirName,
           NotNamed(A.dirent, Tab(P, NoSlot), d), NEW X, X = MkDirAt(A, Root, d)
    PROVE  \E R : Firm(X, R, b) /\ FilesStay(X.dirent, A.dirent, R, P)
<1>1. A \in Good /\ P \in Owners /\ Laid(A.fat, P) /\ DirsOk(A.dirent, P) /\ Fit(A, P) /\ A.fat \in [Cluster -> FatEntry]
  BY DEF Firm, Fit, Good, Work
<1>2. PICK c, s : c = FindFatFree(A.fat, A.hint) /\ s = find_free(A, Root)
  OBVIOUS
<1>3. c = LAST \/ (c \in Cluster /\ A.fat[c] = FREE)
  BY <1>1, <1>2, FindsFree
<1>4. X = MkDirIn(A, c, s, d) /\ s # NoSlot
  BY <1>2 DEF MkDirAt, Then, Room
<1>5. FilesStay(A.dirent, A.dirent, P, P)
  BY DEF FilesStay
<1>6. CASE c = LAST
  <2>1. X = [A EXCEPT !.hint = UNKNOWN]
    BY <1>4, <1>6 DEF MkDirIn
  <2>2. X \in Good /\ SameDisk(X, A) /\ X.dirent = A.dirent
    BY <1>1, <2>1 DEF Good, Work, SameDisk
  <2>3. Firm(X, P, b)
    BY <1>1, <2>2, FirmSame
  <2>4. QED
    BY <1>5, <2>2, <2>3
<1>7. CASE c \in Cluster /\ A.fat[c] = FREE
  <2>1. PICK V, Y : V = [A EXCEPT !.hint = c] /\ Y = LinkFat(V, c, LAST)
    OBVIOUS
  <2>2. V \in Good /\ V.fat = A.fat /\ V.ok = A.ok /\ V.broken = A.broken /\ V.dirent = A.dirent
    BY <1>1, <1>7, <2>1 DEF Good, Work
  <2>3. LAST \notin Cluster /\ LAST \in FatEntry /\ LAST # FREE
    BY ClusterFacts DEF FatEntry
  <2>4. /\ Y \in Good /\ SameFile(Y, V)
        /\ \/ ~Y.ok /\ Y.broken /\ Y.fat = V.fat
           \/ Y.fat = Linking(V.fat, c, LAST) /\ NotBroken(Y, V)
    BY <1>7, <2>1, <2>2, <2>3, LinkIs
  <2>5. Y.dirent = A.dirent
    BY <2>2, <2>4 DEF SameFile
  <2>6. X = IF Y.ok THEN NewDir(Y, c, s, d) ELSE Y
    BY <1>4, <1>7, <2>1, <2>3 DEF MkDirIn, Then
  <2>7. CASE ~Y.ok /\ Y.broken /\ Y.fat = V.fat
    <3>1. X = Y
      BY <2>6, <2>7
    <3>2. Firm(X, P, b)
      BY <1>1, <2>2, <2>4, <2>5, <2>7, <3>1 DEF Firm, Fit
    <3>3. QED
      BY <1>5, <2>5, <3>1, <3>2
  <2>8. CASE Y.fat = Linking(V.fat, c, LAST) /\ NotBroken(Y, V)
    <3>1. PICK g, R : g = Y.fat /\ R = Grown(P, s, c)
      OBVIOUS
    <3>2. Y.ok /\ Y.broken = A.broken /\ X = NewDir(Y, c, s, d)
      BY <2>2, <2>6, <2>8 DEF NotBroken
    <3>3. Outside(P, c)
      BY <1>1, <1>7, FreeOutside
    <3>4. g \in [Cluster -> FatEntry] /\ Laid(g, P)
      BY <1>1, <1>7, <2>2, <2>3, <2>8, <3>1, <3>3, LaidElsewhere
    <3>5. g[c] = LAST /\ \A x \in Cluster : x # c => g[x] = A.fat[x]
      BY <1>1, <1>7, <2>2, <2>8, <3>1 DEF Linking
    <3>6. s \in Slot /\ P[s] = <<>>
      <4>1. NoSlot \in Holders(A.dirent) /\ Root = HeadOf(P, NoSlot)
        BY DEF Holders, HeadOf
      <4>2. s \in Slot /\ A.dirent[s].kind \in {"deleted", "unused"}
        BY <1>1, <1>2, <1>4, <4>1, FreeAt
      <4>3. QED
        BY <1>1, <4>2 DEF DirsOk, Bare, Alive
    <3>7. Laid(g, R)
      <4>1. IF P[s] = <<>> THEN g = g ELSE g = Linking(g, P[s][Len(P[s])], c)
        BY <3>6
      <4>2. QED
        BY <1>1, <1>7, <3>1, <3>3, <3>4, <3>5, <3>6, <4>1, LaidGrown
    <3>8. R \in Owners /\ ~Outside(R, c) /\ \A x \in Cluster : ~Outside(P, x) => ~Outside(R, x)
      BY <1>1, <1>7, <3>1, <3>6, GrownIs, GrownHas
    <3>9. b \/ Y.broken \/ Whole(g, R)
      BY <3>2, <3>5, <3>8 DEF Firm, Whole
    <3>10. X \in Good /\ SameDisk(X, Y) /\ DirsOk(X.dirent, R) /\ FilesStay(X.dirent, A.dirent, R, P)
      <4>1. Apart(R)
        BY <3>7 DEF Laid
      <4>2. QED
        BY <1>1, <1>2, <1>4, <1>7, <2>4, <2>5, <3>1, <3>2, <3>3, <4>1, NewDirFirm
    <3>11. Firm(X, R, b)
      BY <3>1, <3>7, <3>8, <3>9, <3>10 DEF Firm, Fit, SameDisk
    <3>12. QED
      BY <3>10, <3>11
  <2>9. QED
    BY <2>4, <2>7, <2>8
<1>8. QED
  BY <1>3, <1>6, <1>7

(* A directory made. *)
LEMMA MkDirChains ==
    ASSUME CountInv, NEW Q \in Owners, Holds(Q), DirsOk(dirent, Q), NEW d \in DirName, NEW n \in LinkBounds, MkDir(d, n)
    PROVE  ChainsOk(fat', dirent', sft', failed')
<1>1. n \in Int
  BY BoundsAreNumbers
<1>2. PICK T, A, X : T = Table(n) /\ A = alloc_find_free(T, Root) /\ X = MkDirAt(A, Root, d)
  OBVIOUS
<1>3. find_fname(T, <<NoName, d>>) = NoSlot /\ Commit(X) /\ sft' = sft
  BY <1>2 DEF MkDir
<1>4. Firm(T, Q, failed) /\ T.dirent = dirent /\ Fit(T, Q) /\ T \in Good /\ T.ok
  BY <1>1, <1>2, TableFirm DEF Firm, Fit
<1>5. PICK D, t : D = dirent /\ t = sft
  OBVIOUS
<1>6. FilesOk(t, D, Q) /\ DirsOk(D, Q) /\ d # NoName
  BY <1>5, FatAssumption DEF Holds
<1>7. NoSlot \in Holders(D) /\ Root = HeadOf(Q, NoSlot)
  BY DEF Holders, HeadOf
<1>8. NotNamed(D, Tab(Q, NoSlot), d)
  <2>1. SlotIn(T, Root, d) = NoSlot
    BY <1>3 DEF find_fname, DirOf
  <2>2. QED
    BY <1>4, <1>5, <1>6, <1>7, <2>1, FindsNone
<1>9. PICK P : /\ Firm(A, P, failed) /\ Spread(A.dirent, T.dirent, P, Q)
               /\ A.ok => Room(A, P, NoSlot, Root) /\ NoneNamed(A, P, T, Q, NoSlot)
  BY <1>2, <1>4, <1>5, <1>7, AllocOk
<1>10. FilesOk(t, A.dirent, P)
  <2>1. PICK E : E = A.dirent
    OBVIOUS
  <2>2. Spread(E, D, P, Q)
    BY <1>4, <1>5, <1>9, <2>1
  <2>3. FilesOk(t, E, P)
    BY <1>6, <2>2, SpreadFiles
  <2>4. QED
    BY <2>1, <2>3
<1>11. CASE ~A.ok
  <2>1. X = A
    BY <1>2, <1>11 DEF MkDirAt, Then
  <2>2. QED
    BY <1>3, <1>5, <1>9, <1>10, <2>1, CommitOk
<1>12. CASE A.ok
  <2>1. NotNamed(A.dirent, Tab(P, NoSlot), d)
    BY <1>4, <1>5, <1>6, <1>8, <1>9, <1>12 DEF NoneNamed
  <2>2. PICK R : Firm(X, R, failed) /\ FilesStay(X.dirent, A.dirent, R, P)
    BY <1>2, <1>9, <1>12, <2>1, MadeDir
  <2>3. FilesOk(t, X.dirent, R)
    <3>1. PICK E, F : E = A.dirent /\ F = X.dirent
      OBVIOUS
    <3>2. FilesOk(t, E, P) /\ FilesStay(F, E, R, P)
      BY <1>10, <2>2, <3>1
    <3>3. FilesOk(t, F, R)
      BY <3>2, StayFiles
    <3>4. QED
      BY <3>1, <3>3
  <2>4. QED
    BY <1>3, <1>5, <2>2, <2>3, CommitOk
<1>13. QED
  BY <1>11, <1>12

(* Calls that leave the disk alone. *)
LEMMA SftChains ==
    ASSUME NEW Q \in Owners, Holds(Q), DirsOk(dirent, Q), UNCHANGED <<fat, dirent, failed>>, FilesOk(sft', dirent, Q)
    PROVE  ChainsOk(fat', dirent', sft', failed')
<1>1. PICK f, D, t, b : f = fat' /\ D = dirent' /\ t = sft' /\ b = failed'
  OBVIOUS
<1>2. f = fat /\ D = dirent /\ b = failed
  BY <1>1
<1>3. Laid(f, Q) /\ (b \/ Whole(f, Q)) /\ DirsOk(D, Q) /\ FilesOk(t, D, Q)
  BY <1>1, <1>2 DEF Holds
<1>4. ChainsOk(f, D, t, b)
  BY <1>3 DEF ChainsOk
<1>5. QED
  BY <1>1, <1>4

(* Calls that leave the files alone, too. *)
LEMMA NothingChains ==
    ASSUME NEW Q \in Owners, Holds(Q), DirsOk(dirent, Q), UNCHANGED <<fat, dirent, failed, sft>>
    PROVE  ChainsOk(fat', dirent', sft', failed')
<1>1. PICK t : t = sft'
  OBVIOUS
<1>2. FilesOk(t, dirent, Q)
  BY <1>1 DEF Holds
<1>3. FilesOk(sft', dirent, Q)
  BY <1>1, <1>2
<1>4. QED
  BY <1>3, SftChains

(* A write or a cut. *)
LEMMA WorkChains ==
    ASSUME NEW Q \in Owners, Holds(Q), DirsOk(dirent, Q), NEW W, NEW P, Commit(W), FileWork(W, P, Q), FilesOk(sft', dirent, P)
    PROVE  ChainsOk(fat', dirent', sft', failed')
<1>1. PICK D, t : D = dirent /\ t = sft'
  OBVIOUS
<1>2. W \in Good /\ P \in Owners /\ Laid(W.fat, P) /\ (failed \/ W.broken \/ Whole(W.fat, P)) /\ W.dirent = D
  BY <1>1 DEF FileWork, Sound
<1>3. \A s \in Slot : (D[s] = D[s] /\ P[s] = Q[s]) \/ SameName(D[s], D[s])
  BY <1>1 DEF FileWork, NoneMoved, SameName
<1>4. DirsOk(D, P)
  BY <1>1, <1>2, <1>3, EntryOk
<1>5. Firm(W, P, failed)
  BY <1>2, <1>4 DEF Firm, Fit
<1>6. FilesOk(t, W.dirent, P)
  BY <1>1, <1>2
<1>7. QED
  BY <1>1, <1>5, <1>6, CommitOk

(* A close or a commit. *)
LEMMA CloseChains ==
    ASSUME CountInv, NEW Q \in Owners, Holds(Q), DirsOk(dirent, Q), NEW h \in Fd, Close(h) \/ DosCommit(h)
    PROVE  ChainsOk(fat', dirent', sft', failed')
<1>1. sft[h].open /\ Commit(Flushed(h))
  BY DEF Close, DosCommit
<1>2. FilesOk(sft, dirent, Q)
  BY DEF Holds
<1>3. FilesOk(sft', Flushed(h).dirent, Q)
  BY <1>2, CloseFiles
<1>4. PICK W, D, E, o, t : W = Flushed(h) /\ D = dirent /\ E = W.dirent /\ o = sft[h].slot /\ t = sft'
  OBVIOUS
<1>5. o \in Slot /\ D[o].kind = "file"
  BY <1>1, <1>2, <1>4 DEF FilesOk, OpensFiles
<1>6. /\ W \in Good /\ W.fat = fat /\ W.broken = FALSE
      /\ \A s \in Slot : s # o => E[s] = D[s]
      /\ E[o].kind = D[o].kind /\ E[o].name = D[o].name
  BY <1>1, <1>4, <1>5, FlushedIs
<1>7. DirsOk(E, Q)
  <2>1. \A s \in Slot : (E[s] = D[s] /\ Q[s] = Q[s]) \/ SameName(E[s], D[s])
    BY <1>5, <1>6 DEF SameName
  <2>2. DirsOk(D, Q)
    BY <1>4
  <2>3. QED
    BY <2>1, <2>2, EntryOk
<1>8. Firm(W, Q, failed)
  BY <1>4, <1>6, <1>7 DEF Firm, Fit, Holds
<1>9. FilesOk(t, W.dirent, Q) /\ Commit(W)
  BY <1>1, <1>3, <1>4
<1>10. QED
  BY <1>4, <1>8, <1>9, CommitOk

(***************************************************************************)
(* The invariant.                                                          *)
(***************************************************************************)
(* Programs share files for reading only.                                  *)
ReadersShare == SharedWriters = FALSE /\ SharedTruncate = FALSE
ChainInv == CountInv /\ ChainsOk(fat, dirent, sft, failed)

(* Calls on files. *)
LEMMA FileCallChains ==
    ASSUME ReadersShare, CountInv, NEW Q \in Owners, Holds(Q), DirsOk(dirent, Q), FileCall
    PROVE  ChainsOk(fat', dirent', sft', failed')
<1>1. PICK h \in Fd :
        \/ \E p \in FilePath : Open(h, p, "r") \/ Open(h, p, "rw")
        \/ \E p \in FilePath, n \in LinkBounds : Create(h, p, n)
        \/ Close(h) \/ DosCommit(h) \/ SetFtime(h)
        \/ \E off \in Seeks : Seek(h, off)
        \/ \E n \in LinkBounds : Truncate(h, n)
        \/ \E count \in WriteCounts : Read(h, count)
        \/ \E count \in WriteCounts, n \in LinkBounds : Write(h, count, n)
  BY DEF FileCall
<1>2. ~SharedWriters /\ ~SharedTruncate
  BY DEF ReadersShare
<1>3. FilesOk(sft, dirent, Q) /\ Laid(fat, Q)
  BY DEF Holds
<1>4. ASSUME NEW p \in FilePath, NEW m \in {"r", "rw"}, Open(h, p, m)
      PROVE  ChainsOk(fat', dirent', sft', failed')
  <2>1. FilesOk(sft', dirent, Q)
    BY <1>2, <1>3, <1>4, OpenFiles
  <2>2. UNCHANGED <<fat, dirent, failed>>
    BY <1>4 DEF Open
  <2>3. QED
    BY <2>1, <2>2, SftChains
<1>5. ASSUME NEW p \in FilePath, NEW n \in LinkBounds, Create(h, p, n)
      PROVE  ChainsOk(fat', dirent', sft', failed')
  BY <1>2, <1>5, CreateChains
<1>6. CASE Close(h) \/ DosCommit(h)
  BY <1>6, CloseChains
<1>7. CASE SetFtime(h)
  <2>1. FilesOk(sft', dirent, Q)
    BY <1>3, <1>7, SetFtimeFiles
  <2>2. UNCHANGED <<fat, dirent, failed>>
    BY <1>7 DEF SetFtime
  <2>3. QED
    BY <2>1, <2>2, SftChains
<1>8. ASSUME NEW off \in Seeks, Seek(h, off)
      PROVE  ChainsOk(fat', dirent', sft', failed')
  <2>1. FilesOk(sft', dirent, Q)
    BY <1>3, <1>8, SeekFiles
  <2>2. UNCHANGED <<fat, dirent, failed>>
    BY <1>8 DEF Seek
  <2>3. QED
    BY <2>1, <2>2, SftChains
<1>9. ASSUME NEW n \in LinkBounds, Truncate(h, n)
      PROVE  ChainsOk(fat', dirent', sft', failed')
  <2>1. \E W, P : Commit(W) /\ FileWork(W, P, Q) /\ FilesOk(sft', dirent, P)
    BY <1>2, <1>9, TruncateFiles
  <2>2. QED
    BY <2>1, WorkChains
<1>10. ASSUME NEW count \in WriteCounts, Read(h, count)
       PROVE  ChainsOk(fat', dirent', sft', failed')
  <2>1. FilesOk(sft', dirent, Q)
    BY <1>3, <1>10, ReadFiles
  <2>2. UNCHANGED <<fat, dirent, failed>>
    BY <1>10 DEF Read
  <2>3. QED
    BY <2>1, <2>2, SftChains
<1>11. ASSUME NEW count \in WriteCounts, NEW n \in LinkBounds, Write(h, count, n)
       PROVE  ChainsOk(fat', dirent', sft', failed')
  <2>1. \E W, P : Commit(W) /\ FileWork(W, P, Q) /\ FilesOk(sft', dirent, P)
    BY <1>11, WriteFiles
  <2>2. QED
    BY <2>1, WorkChains
<1>12. QED
  BY <1>1, <1>4, <1>5, <1>6, <1>7, <1>8, <1>9, <1>10, <1>11

(* Calls on names. *)
LEMMA NameCallChains ==
    ASSUME CountInv, NEW Q \in Owners, Holds(Q), DirsOk(dirent, Q), NameCall
    PROVE  ChainsOk(fat', dirent', sft', failed')
<1>1. ASSUME NEW p \in FilePath, NEW n \in LinkBounds, Delete(p, n)
      PROVE  ChainsOk(fat', dirent', sft', failed')
  BY <1>1, DeleteChains
<1>2. ASSUME NEW p1, NEW p2, Paths(p1, p2), NEW n \in LinkBounds, Rename(p1, p2, n)
      PROVE  ChainsOk(fat', dirent', sft', failed')
  BY <1>2, RenameChains
<1>3. ASSUME NEW p1 \in FilePath, NEW p2 \in FilePath, NEW n \in LinkBounds, Rename(p1, p2, n)
      PROVE  ChainsOk(fat', dirent', sft', failed')
  BY <1>2, <1>3 DEF Paths
<1>4. ASSUME NEW p1 \in DirPath, NEW p2 \in DirPath, NEW n \in LinkBounds, Rename(p1, p2, n)
      PROVE  ChainsOk(fat', dirent', sft', failed')
  BY <1>2, <1>4 DEF Paths
<1>5. ASSUME NEW d \in DirName, NEW n \in LinkBounds, MkDir(d, n) \/ RmDir(d, n)
      PROVE  ChainsOk(fat', dirent', sft', failed')
  BY <1>5, MkDirChains, RmDirChains
<1>6. ASSUME NEW d, FindFirst(d) \/ FindNext
      PROVE  ChainsOk(fat', dirent', sft', failed')
  <2>1. UNCHANGED <<fat, dirent, failed, sft>>
    BY <1>6 DEF FindFirst, FindNext
  <2>2. QED
    BY <2>1, NothingChains
<1>7. QED
  BY <1>1, <1>3, <1>4, <1>5, <1>6 DEF NameCall

(* Every step keeps the chains sound. *)
LEMMA StepChains == ReadersShare /\ ChainInv /\ [FatNext]_vars => ChainInv'
<1> SUFFICES ASSUME ReadersShare, ChainInv, [FatNext]_vars
             PROVE  ChainInv'
  OBVIOUS
<1>1. CountInv /\ ChainsOk(fat, dirent, sft, failed)
  BY DEF ChainInv
<1>2. CountInv'
  BY <1>1, StepCounts
<1>3. PICK Q \in Owners : Holds(Q) /\ DirsOk(dirent, Q)
  BY <1>1 DEF ChainsOk, Holds
<1>4. ChainsOk(fat', dirent', sft', failed')
  <2>1. CASE FileCall
    BY <1>1, <1>3, <2>1, FileCallChains
  <2>2. CASE NameCall
    BY <1>1, <1>3, <2>2, NameCallChains
  <2>3. CASE DosGetFree \/ MediaCheck
    <3>1. UNCHANGED <<fat, dirent, failed, sft>>
      BY <2>3 DEF DosGetFree, MediaCheck
    <3>2. QED
      BY <1>3, <3>1, NothingChains
  <2>4. CASE UNCHANGED vars
    <3>1. UNCHANGED <<fat, dirent, failed, sft>>
      BY <2>4 DEF vars
    <3>2. QED
      BY <1>3, <3>1, NothingChains
  <2>5. QED
    BY <2>1, <2>2, <2>3, <2>4 DEF FatNext
<1>5. ChainsOk(fat, dirent, sft, failed)'
  BY <1>4 DEF ChainsOk, Laid, Linked, Apart, Whole, Outside, DirsOk, Rooted, Placed, Tables, Names, Bare, FilesOk
<1>6. QED
  BY <1>2, <1>5 DEF ChainInv

(* The chains of the first disk: its file has cluster 2. *)
FirstSlot   == <<Root, 1>>
FirstChains == [s \in Slot |-> IF s = FirstSlot THEN <<2>> ELSE <<>>]
(* They are chains, and only one has a cluster. *)
LEMMA FirstChainsAre ==
    /\ FirstChains \in Owners /\ FirstSlot \in Slot /\ 2 \in Cluster
    /\ FirstChains[FirstSlot] = <<2>> /\ \A s \in Slot : s # FirstSlot => FirstChains[s] = <<>>
    /\ \A s \in Slot : \A i \in 1 .. Len(FirstChains[s]) : s = FirstSlot /\ i = 1 /\ FirstChains[s][i] = 2
    /\ Len(FirstChains[FirstSlot]) = 1
<1>1. 2 \in Cluster
  BY FatAssumption DEF Cluster
<1>2. 1 \in 0 .. RootEnts - 1 /\ 0 \in 0 .. RootEnts - 1
  BY FatAssumption
<1>3. FirstSlot \in Slot
  BY <1>2 DEF FirstSlot, Slot
<1>4. <<2>> \in Seq(Cluster) /\ <<>> \in Seq(Cluster)
  BY <1>1
<1>5. FirstChains \in Owners
  BY <1>4 DEF FirstChains, Owners
<1>6. FirstChains[FirstSlot] = <<2>> /\ \A s \in Slot : s # FirstSlot => FirstChains[s] = <<>>
  BY <1>3 DEF FirstChains
<1>7. Len(FirstChains[FirstSlot]) = 1 /\ FirstChains[FirstSlot][1] = 2
  BY <1>6
<1>8. ASSUME NEW s \in Slot, NEW i \in 1 .. Len(FirstChains[s])
      PROVE  s = FirstSlot /\ i = 1 /\ FirstChains[s][i] = 2
  <2>1. s = FirstSlot
    <3>1. Len(FirstChains[s]) # 0
      OBVIOUS
    <3>2. SUFFICES ASSUME s # FirstSlot PROVE FALSE
      OBVIOUS
    <3>3. FirstChains[s] = <<>>
      BY <1>6, <3>2
    <3>4. QED
      BY <3>1, <3>3
  <2>2. i = 1
    <3>1. Len(FirstChains[s]) = 1
      BY <1>7, <2>1
    <3>2. i \in 1 .. 1
      BY <3>1
    <3>3. QED
      BY <3>2
  <2>3. QED
    BY <1>7, <2>1, <2>2
<1>9. QED
  BY <1>1, <1>3, <1>5, <1>6, <1>7, <1>8

(* The FAT of the first disk. *)
LEMMA FirstLaid ==
    ASSUME FatInit
    PROVE  Laid(fat, FirstChains) /\ Whole(fat, FirstChains)
<1>1. fat = [c \in Cluster |-> IF c = 2 THEN LAST ELSE FREE]
  BY DEF FatInit
<1>2. fat[2] = LAST /\ \A c \in Cluster : fat[c] # FREE => c = 2
  BY <1>1, FirstChainsAre
<1>3. Linked(fat, FirstChains)
  <2>1. ASSUME NEW s \in Slot, NEW i \in 1 .. Len(FirstChains[s])
        PROVE  fat[FirstChains[s][i]] = NextIn(FirstChains[s], i)
    <3>1. s = FirstSlot /\ i = 1 /\ FirstChains[s][i] = 2 /\ Len(FirstChains[s]) = 1
      BY FirstChainsAre
    <3>2. NextIn(FirstChains[s], i) = LAST
      BY <3>1 DEF NextIn
    <3>3. QED
      BY <1>2, <3>1, <3>2
  <2>2. QED
    BY <2>1 DEF Linked
<1>4. Apart(FirstChains)
  BY FirstChainsAre DEF Apart
<1>5. Whole(fat, FirstChains)
  <2>1. 1 \in 1 .. Len(FirstChains[FirstSlot]) /\ FirstChains[FirstSlot][1] = 2 /\ FirstSlot \in Slot
    BY FirstChainsAre
  <2>2. QED
    BY <1>2, <2>1 DEF Whole, Outside
<1>6. QED
  BY <1>3, <1>4, <1>5 DEF Laid

(* Its entries. *)
LEMMA FirstEntries ==
    ASSUME FatInit
    PROVE  /\ dirent[FirstSlot].kind = "file" /\ dirent[FirstSlot].name \in FileName
           /\ dirent[FirstSlot].start = 2 /\ dirent[FirstSlot].size = 1
           /\ \A s \in Slot : s # FirstSlot =>
                  ~Alive(dirent[s]) /\ dirent[s].name = NoName /\ (dirent[s].kind = "unused" \/ s = <<Root, 0>>)
           /\ \A s \in Slot : dirent[s].kind = "unused" => s # FirstSlot /\ s # <<Root, 0>>
<1>1. PICK f \in FileName :
           dirent = [s \in Slot |-> CASE s = <<Root, 0>> -> Entry(FirstKind, NoName, FREE, 0)
                                     [] s = <<Root, 1>> -> Entry("file", f, 2, 1)
                                     [] OTHER           -> Unused]
  BY DEF FatInit
<1>2. PICK a, z, e : a = Entry(FirstKind, NoName, FREE, 0) /\ z = <<Root, 0>> /\ e = Entry("file", f, 2, 1)
  OBVIOUS
<1>3. \A s \in Slot : dirent[s] = IF s = z THEN a ELSE IF s = FirstSlot THEN e ELSE Unused
  <2>1. z # FirstSlot
    BY <1>2 DEF FirstSlot
  <2>2. dirent = [s \in Slot |-> CASE s = z -> a [] s = FirstSlot -> e [] OTHER -> Unused]
    BY <1>1, <1>2 DEF FirstSlot
  <2>3. QED
    BY <2>1, <2>2
<1>4. ~Alive(a) /\ a.name = NoName /\ a.kind # "unused"
  BY <1>2 DEF Entry, FirstKind, Alive
<1>5. e.kind = "file" /\ e.name = f /\ e.start = 2 /\ e.size = 1
  BY <1>2 DEF Entry
<1>6. FirstSlot # z /\ FirstSlot \in Slot
  BY <1>2, FirstChainsAre DEF FirstSlot
<1>7. QED
  BY <1>2, <1>3, <1>4, <1>5, <1>6, NoNames

(* Its root directory. *)
LEMMA FirstDirs ==
    ASSUME FatInit
    PROVE  DirsOk(dirent, FirstChains)
<1>1. PICK D, Q, z : D = dirent /\ Q = FirstChains /\ z = <<Root, 0>>
  OBVIOUS
<1>2. /\ D[FirstSlot].kind = "file" /\ D[FirstSlot].name \in FileName
      /\ \A s \in Slot : s # FirstSlot => ~Alive(D[s]) /\ D[s].name = NoName /\ (D[s].kind = "unused" \/ s = z)
      /\ \A s \in Slot : D[s].kind = "unused" => s # FirstSlot /\ s # z
  BY <1>1, FirstEntries
<1>3. Dirs(D) = {} /\ Holders(D) = {NoSlot}
  BY <1>2 DEF Dirs, Holders, Alive
<1>4. Rooted(D, Q)
  BY <1>3 DEF Rooted
<1>5. PICK t : t = Tab(Q, NoSlot)
  OBVIOUS
<1>6. /\ Len(t) = RootEnts /\ RootEnts \in Nat \ {0, 1}
      /\ \A i \in 1 .. Len(t) : t[i] = <<Root, i - 1>> /\ t[i] \in Slot
  BY <1>5, RootSlotsAre DEF Tab
<1>7. Alive(D[FirstSlot]) /\ NameOk(D[FirstSlot])
  BY <1>2, FatAssumption DEF Alive, NameOk
<1>8. Placed(D, Q)
  <2>1. 2 \in 1 .. Len(t) /\ t[2] = FirstSlot
    BY <1>6 DEF FirstSlot
  <2>2. InTab(Q, NoSlot, FirstSlot)
    BY <1>5, <2>1 DEF InTab
  <2>3. QED
    BY <1>2, <1>3, <2>2 DEF Placed
<1>9. Ordered(D, t)
  <2>1. ASSUME NEW i \in 1 .. Len(t), NEW j \in 1 .. Len(t), i < j, D[t[i]].kind = "unused"
        PROVE  D[t[j]].kind = "unused"
    <3>1. t[i] = <<Root, i - 1>> /\ t[j] = <<Root, j - 1>> /\ t[i] \in Slot /\ t[j] \in Slot
      BY <1>6
    <3>2. t[i] # FirstSlot /\ t[i] # z
      BY <1>2, <2>1, <3>1
    <3>3. i - 1 # 0 /\ i - 1 # 1
      BY <1>1, <3>1, <3>2 DEF FirstSlot
    <3>4. j - 1 # 0 /\ j - 1 # 1
      BY <1>6, <2>1, <3>3
    <3>5. t[j] # FirstSlot /\ t[j] # z
      BY <1>1, <3>1, <3>4 DEF FirstSlot
    <3>6. QED
      BY <1>2, <3>1, <3>5
  <2>2. QED
    BY <2>1 DEF Ordered
<1>10. Distinct(D, t)
  <2>1. ASSUME NEW i \in 1 .. Len(t), NEW j \in 1 .. Len(t), i # j, Alive(D[t[i]])
        PROVE  D[t[i]].name # D[t[j]].name
    <3>1. t[i] = <<Root, i - 1>> /\ t[j] = <<Root, j - 1>> /\ t[i] \in Slot /\ t[j] \in Slot
      BY <1>6
    <3>2. t[i] = FirstSlot
      BY <1>2, <2>1, <3>1
    <3>3. t[j] # FirstSlot
      <4>1. i - 1 # j - 1
        BY <1>6, <2>1
      <4>2. QED
        BY <3>1, <3>2, <4>1
    <3>4. D[t[j]].name = NoName
      BY <1>2, <3>1, <3>3
    <3>5. QED
      BY <1>2, <3>2, <3>4, FatAssumption
  <2>2. QED
    BY <2>1 DEF Distinct
<1>11. Tables(D, Q)
  BY <1>3, <1>5, <1>9, <1>10 DEF Tables
<1>12. Names(D)
  <2>1. ASSUME NEW s \in Slot, s # FirstSlot
        PROVE  NameOk(D[s])
    <3>1. ~Alive(D[s]) /\ D[s].name = NoName
      BY <1>2, <2>1
    <3>2. QED
      BY <3>1, FatAssumption DEF NameOk, Alive
  <2>2. QED
    BY <1>7, <2>1 DEF Names
<1>13. Bare(D, Q)
  BY <1>1, <1>7, FirstChainsAre DEF Bare
<1>14. QED
  BY <1>1, <1>4, <1>8, <1>11, <1>12, <1>13 DEF DirsOk

(* The first disk is sound. *)
LEMMA InitChains == FatInit => ChainInv
<1> SUFFICES ASSUME FatInit PROVE ChainInv
  OBVIOUS
<1>1. \A h \in Fd : ~sft[h].open
  BY DEF FatInit, Closed
<1>2. FilesOk(sft, dirent, FirstChains)
  <2>1. OpensFiles(sft, dirent)
    BY <1>1 DEF OpensFiles
  <2>2. ASSUME NEW s \in Slot, dirent[s].kind = "file"
        PROVE  FileOk(sft, dirent[s], FirstChains, s)
    <3>1. s = FirstSlot
      BY <2>2, FirstEntries DEF Alive
    <3>2. At(sft, s) = {}
      BY <1>1 DEF At
    <3>3. dirent[s].start = StartIn(FirstChains[s])
      BY <3>1, FirstEntries, FirstChainsAre DEF StartIn
    <3>4. dirent[s].size <= MaxOffset
      BY <3>1, FirstEntries, FatAssumption
    <3>5. QED
      BY <3>2, <3>3, <3>4, FileUnopened
  <2>3. QED
    BY <2>1, <2>2 DEF FilesOk
<1>3. QED
  BY <1>2, InitCounts, FirstLaid, FirstDirs, FirstChainsAre DEF ChainInv, ChainsOk

(* What is alive has its chain. *)
LEMMA ChainOfIs ==
    ASSUME CountInv, NEW Q \in Owners, Holds(Q), DirsOk(dirent, Q), NEW s \in Live
    PROVE  StartOf(s) = StartIn(Q[s]) /\ ChainOf(s) = Q[s] /\ s \in Slot
<1>1. s \in Slot /\ Alive(dirent[s])
  BY DEF Live, Alive
<1>2. StartOf(s) = StartIn(Q[s])
  <2>1. CASE dirent[s].kind = "file"
    <3>1. FileOk(sft, dirent[s], Q, s)
      BY <1>1, <2>1 DEF Holds, FilesOk
    <3>2. CollectFrom(s).start = StartIn(Q[s])
      BY <1>1, <3>1, CollectIs
    <3>3. QED
      BY <3>2 DEF CollectFrom, StartOf
  <2>2. CASE dirent[s].kind = "dir"
    <3>1. Writers(s) = {}
      BY <2>2 DEF Writers, OpenAt, OpenFds, Holds, FilesOk, OpensFiles
    <3>2. Q[s] # <<>> /\ dirent[s].start = Q[s][1]
      BY <1>1, <2>2 DEF DirsOk, Rooted, Dirs
    <3>3. QED
      BY <3>1, <3>2 DEF StartOf, StartIn
  <2>3. QED
    BY <1>1, <2>1, <2>2 DEF Alive
<1>3. ChainOf(s) = Q[s]
  <2>1. CASE Q[s] = <<>>
    <3>1. StartOf(s) \notin Cluster
      BY <1>2, <2>1, ClusterFacts DEF StartIn
    <3>2. QED
      BY <2>1, <3>1 DEF ChainOf, Chain
  <2>2. CASE Q[s] # <<>>
    <3>1. StartOf(s) = Q[s][1]
      BY <1>2, <2>2 DEF StartIn
    <3>2. fat \in [Cluster -> FatEntry] /\ Laid(fat, Q)
      BY DEF CountInv, TypeInv, Holds
    <3>3. Chain(fat, Q[s][1]) = Q[s]
      BY <1>1, <2>2, <3>2, ChainIs
    <3>4. QED
      BY <3>1, <3>3 DEF ChainOf
  <2>3. QED
    BY <2>1, <2>2
<1>4. QED
  BY <1>1, <1>2, <1>3

(* Chains in a row, apart, and ending. *)
LEMMA SoundChains == ChainInv => ChainsSound
<1> SUFFICES ASSUME ChainInv PROVE ChainsSound
  OBVIOUS
<1>1. PICK Q \in Owners : CountInv /\ Holds(Q) /\ DirsOk(dirent, Q) /\ Laid(fat, Q) /\ fat \in [Cluster -> FatEntry]
  BY DEF ChainInv, ChainsOk, Holds, CountInv, TypeInv
<1>2. \A s \in Live : StartOf(s) = StartIn(Q[s]) /\ ChainOf(s) = Q[s] /\ s \in Slot
  BY <1>1, ChainOfIs
<1>3. ASSUME NEW s \in Live, StartOf(s) # FREE
      PROVE  fat[StartOf(s)] # FREE /\ fat[Last(ChainOf(s))] = LAST
  <2>1. s \in Slot /\ Q[s] # <<>> /\ StartOf(s) = Q[s][1] /\ ChainOf(s) = Q[s]
    BY <1>2, <1>3 DEF StartIn
  <2>2. PICK n : n = Len(Q[s])
    OBVIOUS
  <2>3. n \in Nat \ {0} /\ 1 \in 1 .. Len(Q[s]) /\ n \in 1 .. Len(Q[s])
    BY <2>1, <2>2, OwnerFacts
  <2>4. fat[Q[s][1]] # FREE
    BY <1>1, <2>1, <2>3, LaidFacts
  <2>5. fat[Q[s][n]] = NextIn(Q[s], n)
    BY <1>1, <2>1, <2>3, LaidFacts
  <2>6. NextIn(Q[s], n) = LAST /\ Last(ChainOf(s)) = Q[s][n]
    BY <2>1, <2>2 DEF NextIn, Last
  <2>7. QED
    BY <2>1, <2>4, <2>5, <2>6
<1>4. ASSUME NEW s \in Live, NEW t \in Live, s # t
      PROVE  ToSet(ChainOf(s)) \cap ToSet(ChainOf(t)) = {}
  <2>1. s \in Slot /\ t \in Slot /\ ChainOf(s) = Q[s] /\ ChainOf(t) = Q[t]
    BY <1>2
  <2>2. DOMAIN Q[s] = 1 .. Len(Q[s]) /\ DOMAIN Q[t] = 1 .. Len(Q[t])
    BY <2>1, OwnerFacts
  <2>3. \A i \in 1 .. Len(Q[s]), j \in 1 .. Len(Q[t]) : Q[s][i] # Q[t][j]
    BY <1>1, <1>4, <2>1 DEF Laid, Apart
  <2>4. QED
    BY <2>1, <2>2, <2>3 DEF ToSet
<1>5. QED
  BY <1>3, <1>4 DEF ChainsSound

(* No cluster in use outside of the chains of what is alive. *)
LEMMA NoneLost == ChainInv => NoLostClusters
<1> SUFFICES ASSUME ChainInv, ~failed
             PROVE  {c \in Cluster : fat[c] # FREE} = UNION {ToSet(ChainOf(s)) : s \in Live}
  BY DEF NoLostClusters
<1>1. PICK Q \in Owners : /\ CountInv /\ Holds(Q) /\ DirsOk(dirent, Q) /\ Laid(fat, Q) /\ Whole(fat, Q)
                          /\ fat \in [Cluster -> FatEntry]
  BY DEF ChainInv, ChainsOk, Holds, CountInv, TypeInv
<1>2. \A s \in Live : ChainOf(s) = Q[s] /\ s \in Slot
  BY <1>1, ChainOfIs
<1>3. \A s \in Slot : DOMAIN Q[s] = 1 .. Len(Q[s])
  BY OwnerFacts
<1>4. ASSUME NEW c \in Cluster, fat[c] # FREE
      PROVE  \E s \in Live : c \in ToSet(ChainOf(s))
  <2>1. PICK s \in Slot : \E i \in 1 .. Len(Q[s]) : Q[s][i] = c
    BY <1>1, <1>4 DEF Whole, Outside
  <2>2. Q[s] # <<>>
    BY <2>1, OwnerFacts
  <2>3. s \in Live
    BY <1>1, <2>2 DEF DirsOk, Bare, Alive, Live
  <2>4. c \in ToSet(ChainOf(s))
    BY <1>2, <1>3, <2>1, <2>3 DEF ToSet
  <2>5. QED
    BY <2>3, <2>4
<1>5. ASSUME NEW s \in Live, NEW c \in ToSet(ChainOf(s))
      PROVE  c \in Cluster /\ fat[c] # FREE
  <2>1. PICK i \in 1 .. Len(Q[s]) : c = Q[s][i]
    BY <1>2, <1>3, <1>5 DEF ToSet
  <2>2. s \in Slot
    BY <1>2
  <2>3. QED
    BY <1>1, <2>1, <2>2, LaidFacts
<1>6. QED
  BY <1>4, <1>5

(* Everybody stands in the chain of the file. *)
LEMMA InTheirChains == ChainInv => PositionsInChain
<1> SUFFICES ASSUME ChainInv, NEW h \in OpenFds, sft[h].cu # FREE
             PROVE  /\ sft[h].rel < Len(Chain(fat, sft[h].start))
                    /\ Chain(fat, sft[h].start)[sft[h].rel + 1] = sft[h].cu
  BY DEF PositionsInChain
<1>1. PICK Q \in Owners : CountInv /\ FilesOk(sft, dirent, Q) /\ Laid(fat, Q) /\ fat \in [Cluster -> FatEntry]
  BY DEF ChainInv, ChainsOk, CountInv, TypeInv
<1>2. PICK o : o = sft[h].slot
  OBVIOUS
<1>3. h \in Fd /\ sft[h].open
  BY DEF OpenFds
<1>4. o \in Slot /\ FileAt(sft[h], Q, o) /\ sft[h].rel \in Nat
  BY <1>1, <1>2, <1>3, InItsFile DEF OpenFile
<1>5. /\ sft[h].rel < Len(Q[o]) /\ Q[o][sft[h].rel + 1] = sft[h].cu
      /\ sft[h].start = StartIn(Q[o])
  BY <1>4 DEF FileAt
<1>6. Q[o] # <<>>
  BY <1>4, <1>5, OwnerFacts
<1>7. Chain(fat, sft[h].start) = Q[o]
  <2>1. sft[h].start = Q[o][1]
    BY <1>5, <1>6 DEF StartIn
  <2>2. Chain(fat, Q[o][1]) = Q[o]
    BY <1>1, <1>4, <1>6, ChainIs
  <2>3. QED
    BY <2>1, <2>2
<1>8. QED
  BY <1>5, <1>7

(* Everybody knows the size of the file, and the first cluster or none. *)
LEMMA AllAgree == ChainInv => SharersAgree
<1> SUFFICES ASSUME ChainInv, NEW h \in OpenFds
             PROVE  sft[h].size = SizeOf(sft[h].slot) /\ sft[h].start \in {FREE, StartOf(sft[h].slot)}
  BY DEF SharersAgree
<1>1. PICK Q \in Owners : CountInv /\ Holds(Q) /\ DirsOk(dirent, Q) /\ FilesOk(sft, dirent, Q)
  BY DEF ChainInv, ChainsOk, Holds
<1>2. PICK o : o = sft[h].slot
  OBVIOUS
<1>3. h \in Fd /\ sft[h].open
  BY DEF OpenFds
<1>4. o \in Slot /\ dirent[o].kind = "file" /\ h \in At(sft, o) /\ FileOk(sft, dirent[o], Q, o) /\ FileAt(sft[h], Q, o)
  BY <1>1, <1>2, <1>3, InItsFile
<1>5. sft[h].size = CollectFrom(o).size
  BY <1>4, CollectIs
<1>6. CollectFrom(o).size = SizeOf(o)
  BY DEF CollectFrom, SizeOf
<1>7. StartOf(o) = StartIn(Q[o])
  <2>1. o \in Live
    BY <1>4 DEF Live
  <2>2. QED
    BY <1>1, <2>1, ChainOfIs
<1>8. sft[h].start \in {FREE, StartOf(o)}
  BY <1>4, <1>7 DEF FileAt
<1>9. QED
  BY <1>2, <1>5, <1>6, <1>8

(* Directories end once, and have a name once. *)
LEMMA WholeDirectories == ChainInv => DirectoriesWhole
<1> DEFINE Heads == {Root} \cup {dirent[s].start : s \in {t \in Live : dirent[t].kind = "dir"}}
<1> SUFFICES ASSUME ChainInv, NEW dc \in Heads, NEW slots, slots = DirSlots(Table(0), dc),
                    NEW i \in DOMAIN slots, NEW j \in DOMAIN slots, i < j
             PROVE  /\ dirent[slots[i]].kind = "unused" => dirent[slots[j]].kind = "unused"
                    /\ slots[i] \in Live => dirent[slots[i]].name # dirent[slots[j]].name
  BY DEF DirectoriesWhole
<1>1. PICK Q \in Owners : CountInv /\ Holds(Q) /\ DirsOk(dirent, Q)
  BY DEF ChainInv, ChainsOk, Holds
<1>2. PICK x \in Holders(dirent) : dc = HeadOf(Q, x)
  <2>1. CASE dc = Root
    BY <2>1 DEF Holders, HeadOf
  <2>2. CASE dc # Root
    <3>1. PICK s \in Live : dirent[s].kind = "dir" /\ dc = dirent[s].start
      BY <2>2
    <3>2. s \in Slot /\ s \in Dirs(dirent)
      BY <3>1 DEF Live, Dirs
    <3>3. dc = Q[s][1] /\ s # NoSlot
      BY <1>1, <3>1, <3>2, SlotIsOne DEF DirsOk, Rooted
    <3>4. QED
      BY <3>2, <3>3 DEF Holders, HeadOf
  <2>3. QED
    BY <2>1, <2>2
<1>3. PICK T, D : T = Table(0) /\ D = dirent
  OBVIOUS
<1>4. Fit(T, Q) /\ T.dirent = D
  <2>1. 0 \in Int
    OBVIOUS
  <2>2. QED
    BY <1>1, <1>3, <2>1, TableFirm DEF Firm
<1>5. slots = Tab(Q, x)
  BY <1>2, <1>3, <1>4, DirSlotsAre
<1>6. x \in {NoSlot} \cup Slot
  BY <1>2 DEF Holders, Dirs
<1>7. DOMAIN slots = 1 .. Len(slots) /\ Len(slots) \in Nat
  BY <1>5, <1>6, TabIs
<1>8. Ordered(D, slots) /\ Distinct(D, slots)
  BY <1>1, <1>2, <1>3, <1>5 DEF DirsOk, Tables
<1>9. dirent[slots[i]].kind = "unused" => dirent[slots[j]].kind = "unused"
  BY <1>3, <1>7, <1>8 DEF Ordered
<1>10. i # j
  BY <1>7
<1>11. slots[i] \in Live => dirent[slots[i]].name # dirent[slots[j]].name
  BY <1>3, <1>7, <1>8, <1>10 DEF Distinct, Live, Alive
<1>12. QED
  BY <1>9, <1>11

-----------------------------------------------------------------------------
(* The invariant of the chains: on disks and directories of every size, *)
(* with any number of open files, after every sequence of calls, and    *)
(* whichever write of an entry of the FAT fails.                        *)
LEMMA AlwaysChains ==
    ASSUME ReadersShare
    PROVE  FatSpec => []ChainInv
<1>1. ChainInv /\ [FatNext]_vars => ChainInv'
  BY StepChains
<1>2. FatInit => ChainInv
  BY InitChains
<1>3. QED
  BY <1>1, <1>2, PTL DEF FatSpec

(* No two files or directories share a cluster, and every chain ends with *)
(* the mark of the last cluster, whichever write of the FAT fails.        *)
THEOREM ChainsStaySound ==
    ASSUME ReadersShare
    PROVE  FatSpec => []ChainsSound
BY AlwaysChains, SoundChains, PTL

(* Unless a write of the FAT has failed, every cluster in use is in the *)
(* chain of a file or a directory, a full disk included.                *)
THEOREM NothingIsLost ==
    ASSUME ReadersShare
    PROVE  FatSpec => []NoLostClusters
BY AlwaysChains, NoneLost, PTL

(* The place an SFT keeps is in the chain of its file, where it says. *)
THEOREM PositionsStay ==
    ASSUME ReadersShare
    PROVE  FatSpec => []PositionsInChain
BY AlwaysChains, InTheirChains, PTL

(* All SFTs of a file have its size, and its first cluster or none. *)
THEOREM SharersStayAgreed ==
    ASSUME ReadersShare
    PROVE  FatSpec => []SharersAgree
BY AlwaysChains, AllAgree, PTL

(* Unused entries come last in the root and in every directory, and a name *)
(* is in it once.                                                          *)
THEOREM DirectoriesStayWhole ==
    ASSUME ReadersShare
    PROVE  FatSpec => []DirectoriesWhole
BY AlwaysChains, WholeDirectories, PTL
=============================================================================
