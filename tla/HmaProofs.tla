------------------------------ MODULE HmaProofs ------------------------------
(***************************************************************************)
(* Theorems about the high memory area, of every size and for any number   *)
(* of processes: its headers stay in a row that covers it, and what a      *)
(* process has in it stays as it is.                                       *)
(***************************************************************************)
EXTENDS HmaMgr, SequenceTheorems, WellFoundedInduction, TLAPS

Hdr   == [owner: {FREE, MSDOS} \cup Psp, size: Nat, next: Int]
Heads == [HmaPara -> Hdr]

(* Where the header behind p's block is.                                   *)
After(h, p) == p + h[p].size + 1

(* The header of p leads to the next one, or ends the area.                *)
Leads(h, L, p) ==
    /\ HmcbValid(h, p)
    /\ \/ After(h, p) = HmaTop /\ h[p].next = 0
       \/ After(h, p) \in L /\ h[p].next = After(h, p)

(* Remains of headers lead somewhere in the area, too.                     *)
Links(h)     == \A p \in HmaPara : HmcbValid(h, p) => h[p].next \in HmaPara
Apart(h, L)  == \A p, q \in L : q <= p \/ After(h, p) <= q
NoClaim(h, L) == \A p \in HmaPara \ L : HmcbFree(h, p)

(* The headers L cover the area, and no paragraph outside them claims to   *)
(* be a block in use.                                                      *)
Row(h, L) ==
    /\ h \in Heads /\ Links(h)
    /\ L \subseteq 1 .. HmaTop - 1 /\ FIRST_MCB \in L
    /\ \A p \in L : Leads(h, L, p)
    /\ Apart(h, L) /\ NoClaim(h, L)

(* The blocks in use, and those of them that hold anything.                *)
InUse(h, L)  == {p \in L : ~HmcbFree(h, p)}
Filled(h, L) == {p \in InUse(h, L) : h[p].size > 0}

(* The blocks S of h are blocks of g as well, as large and as much owned.  *)
Keeps(h, g, M, S) == \A p \in S : p \in M /\ g[p].owner = h[p].owner /\ g[p].size = h[p].size

(***************************************************************************)
(* Counting.                                                               *)
(***************************************************************************)
(* What holds at 0 and goes from each step to the next holds at n.         *)
LEMMA EveryStep ==
    ASSUME NEW n \in Nat, NEW B, 0 \in B, \A i \in 1 .. n : i - 1 \in B => i \in B
    PROVE  n \in B
<1> DEFINE S == {i \in 0 .. n : i \notin B}
<1>1. IsWellFoundedOn(OpToRel(<, Nat), Nat)
  BY NatLessThanWellFounded
<1> SUFFICES ASSUME S # {}
             PROVE  FALSE
  OBVIOUS
<1>2. PICK i \in S : \A j \in S : <<j, i>> \notin OpToRel(<, Nat)
  <2>1. S \subseteq Nat
    OBVIOUS
  <2> HIDE DEF S
  <2> QED  BY <1>1, <2>1, WFMin
<1>3. i \in 1 .. n
  <2>1. i \in 0 .. n /\ i # 0
    BY <1>2
  <2>2. QED
    BY <2>1
<1>4. i - 1 \notin S
  <2>1. i - 1 \in Nat /\ i \in Nat /\ i - 1 < i
    BY <1>3
  <2>2. <<i - 1, i>> \in OpToRel(<, Nat)
    BY <2>1 DEF OpToRel
  <2>3. QED
    BY <1>2, <2>2
<1>5. i - 1 \in B
  BY <1>3, <1>4
<1>6. QED
  BY <1>2, <1>3, <1>5

(* Some paragraphs have a highest one.                                     *)
LEMMA HighestOf ==
    ASSUME NEW S, S \subseteq HmaPara, S # {}
    PROVE  \E x \in S : \A y \in S : y <= x
<1> DEFINE R == {HmaTop - 1 - y : y \in S}
<1>1. IsWellFoundedOn(OpToRel(<, Nat), Nat)
  BY NatLessThanWellFounded
<1>2. HmaTop \in Nat /\ \A y \in S : y \in Nat /\ HmaTop - 1 - y \in Nat
  BY HmaAssumption DEF HmaPara
<1>3. PICK r \in R : \A j \in R : <<j, r>> \notin OpToRel(<, Nat)
  <2>1. R \subseteq Nat /\ R # {}
    BY <1>2
  <2> HIDE DEF R
  <2> QED  BY <1>1, <2>1, WFMin
<1>4. PICK x \in S : r = HmaTop - 1 - x
  BY <1>3
<1>5. ASSUME NEW y \in S
      PROVE  y <= x
  <2>1. <<HmaTop - 1 - y, r>> \notin OpToRel(<, Nat)
    BY <1>3
  <2>2. ~(HmaTop - 1 - y < r)
    BY <1>2, <1>4, <2>1 DEF OpToRel
  <2>3. QED
    BY <1>2, <1>4, <2>2
<1>6. QED
  BY <1>5

(* g holds the values of F applied again and again to x.                   *)
Applies(g, T, F, x, n) ==
    g \in [0 .. n -> T] /\ g[0] = x /\ \A i \in 1 .. n : g[i] = F[g[i - 1]]

(* A function can be applied n times.                                      *)
LEMMA CanApply ==
    ASSUME NEW T, NEW F \in [T -> T], NEW x \in T, NEW n \in Nat
    PROVE  \E g : Applies(g, T, F, x, n)
<1> DEFINE P(k, g) == g[0] = x /\ \A i \in 1 .. k : g[i] = F[g[i - 1]]
           B == {k \in 0 .. n : \E g \in [0 .. k -> T] : P(k, g)}
<1>1. 0 \in B
  <2>1. [i \in 0 .. 0 |-> x] \in [0 .. 0 -> T] /\ P(0, [i \in 0 .. 0 |-> x])
    OBVIOUS
  <2>2. \E g \in [0 .. 0 -> T] : P(0, g)
    BY <2>1
  <2>3. QED
    BY <2>2
<1>2. ASSUME NEW k \in 1 .. n, k - 1 \in B
      PROVE  k \in B
  <2>1. PICK g \in [0 .. k - 1 -> T] : P(k - 1, g)
    BY <1>2
  <2> DEFINE h == [i \in 0 .. k |-> IF i < k THEN g[i] ELSE F[g[k - 1]]]
  <2>2. h \in [0 .. k -> T]
    BY <2>1
  <2>3. P(k, h)
    BY <2>1
  <2>4. QED
    BY <2>2, <2>3
<1>3. n \in B
  <2> HIDE DEF B
  <2> QED  BY <1>1, <1>2, EveryStep
<1>4. QED
  BY <1>3 DEF Applies

(***************************************************************************)
(* Rows of headers.                                                        *)
(***************************************************************************)
(* What is known of a header of a row.                                     *)
LEMMA RowFacts ==
    ASSUME NEW h, NEW L, Row(h, L), NEW p \in L
    PROVE  /\ p \in HmaPara /\ p \in Nat /\ p > 0 /\ h[p] \in Hdr /\ h[p].size \in Nat /\ h[p].next \in HmaPara
           /\ HmcbValid(h, p) /\ Leads(h, L, p)
           /\ After(h, p) \in Nat /\ p < After(h, p) /\ After(h, p) <= HmaTop
           /\ HmcbLast(h, p) <=> After(h, p) = HmaTop
           /\ ~HmcbLast(h, p) => After(h, p) \in L /\ h[p].next = After(h, p)
<1>1. HmaTop \in Nat
  BY HmaAssumption
<1>2. p \in HmaPara /\ p \in Nat /\ p > 0
  BY <1>1 DEF Row, HmaPara
<1>3. h[p] \in Hdr
  BY <1>2 DEF Row, Heads
<1>4. h[p].size \in Nat
  BY <1>3 DEF Hdr
<1>5. Leads(h, L, p) /\ HmcbValid(h, p)
  BY DEF Row, Leads
<1>6. h[p].next \in HmaPara
  BY <1>2, <1>5 DEF Row, Links
<1>7. After(h, p) \in Nat /\ p < After(h, p)
  BY <1>2, <1>4 DEF After
<1>8. \/ After(h, p) = HmaTop /\ h[p].next = 0
      \/ After(h, p) \in L /\ h[p].next = After(h, p)
  BY <1>5 DEF Leads
<1>9. \A x \in L : x < HmaTop
  BY <1>1 DEF Row
<1>10. QED
  BY <1>1, <1>2, <1>3, <1>4, <1>5, <1>6, <1>7, <1>8, <1>9 DEF HmcbLast

(* Two headers of a row have a block each.                                 *)
LEMMA RowApart ==
    ASSUME NEW h, NEW L, Row(h, L), NEW p \in L, NEW q \in L
    PROVE  q <= p \/ After(h, p) <= q
BY DEF Row, Apart

(* What is kept twice is kept.                                             *)
LEMMA KeepsOn ==
    ASSUME NEW h, NEW g, NEW f, NEW M, NEW N, NEW S, NEW R,
           Keeps(h, g, M, S), Keeps(g, f, N, R), S \subseteq R
    PROVE  Keeps(h, f, N, S)
BY DEF Keeps

(* The blocks in use that are kept are in use.                             *)
LEMMA KeptInUse ==
    ASSUME NEW h, NEW L, NEW g, NEW M, NEW S, S \subseteq InUse(h, L), Keeps(h, g, M, S)
    PROVE  S \subseteq InUse(g, M) /\ (S \subseteq Filled(h, L) => S \subseteq Filled(g, M))
BY DEF Keeps, InUse, Filled, HmcbFree

(***************************************************************************)
(* Joining.                                                                *)
(***************************************************************************)
(* The result of joining blocks to p.                                      *)
Joined(h, L, p, g, M) ==
    Row(g, M) /\ M \subseteq L /\ p \in M /\ HmcbFree(g, p) /\ Keeps(h, g, M, InUse(h, L))

(* p and the block behind it, one block.                                   *)
Merged(h, p, q) == [owner |-> FREE, size |-> h[p].size + h[q].size + 1, next |-> h[q].next]
Faked(h, q)     == [owner |-> FREE, size |-> FAKE, next |-> h[q].next]
WithMerged(h, p, q) == [h EXCEPT ![p] = Merged(h, p, q), ![q] = Faked(h, q)]

(* The step of joinMCBs, by what it gives.                                 *)
LEMMA JoinNextIs ==
    ASSUME NEW h, NEW L, Row(h, L), NEW p \in L
    PROVE  IF HmcbLast(h, p) \/ ~HmcbFree(h, h[p].next) THEN joinNext(h, p) = h
           ELSE joinNext(h, p) = WithMerged(h, p, h[p].next)
<1>1. CASE HmcbLast(h, p) \/ ~HmcbFree(h, h[p].next)
  BY <1>1 DEF joinNext
<1>2. CASE ~(HmcbLast(h, p) \/ ~HmcbFree(h, h[p].next))
  <2>1. h[p].next \in L
    BY <1>2, RowFacts
  <2>2. HmcbValid(h, h[p].next)
    BY <2>1, RowFacts
  <2>3. QED
    BY <1>2, <2>2 DEF joinNext, WithMerged, Merged, Faked
<1>3. QED
  BY <1>1, <1>2

(* A header on which a block of its own, no more, depends.                 *)
LEMMA MergedRow ==
    ASSUME NEW h, NEW L, Row(h, L), NEW p \in L, HmcbFree(h, p), ~HmcbLast(h, p), HmcbFree(h, h[p].next)
    PROVE  Joined(h, L, p, WithMerged(h, p, h[p].next), L \ {h[p].next})
<1> DEFINE q == h[p].next
           g == WithMerged(h, p, q)
           M == L \ {q}
<1>1. q \in L /\ q = After(h, p) /\ p < q /\ p \in HmaPara /\ p \in Nat /\ p > 0 /\ h[p].size \in Nat
  BY RowFacts
<1>2. /\ q \in HmaPara /\ q \in Nat /\ HmcbValid(h, q) /\ h[q].size \in Nat /\ h[q].next \in HmaPara
      /\ After(h, q) \in Nat /\ q < After(h, q) /\ Leads(h, L, q)
  BY <1>1, RowFacts
<1>3. h \in Heads /\ Links(h) /\ HmaTop \in Nat /\ L \subseteq 1 .. HmaTop - 1 /\ FIRST_MCB \in L
  BY HmaAssumption DEF Row
<1>4. HmcbFree(h, q)
  OBVIOUS
<1> HIDE DEF q
<1>5. Merged(h, p, q) \in Hdr /\ Faked(h, q) \in Hdr
  BY <1>1, <1>2 DEF Merged, Faked, Hdr, FAKE, HmaPara
<1>6. /\ g[p] = Merged(h, p, q) /\ g[q] = Faked(h, q)
      /\ \A r \in HmaPara : r # p /\ r # q => g[r] = h[r]
  BY <1>1, <1>2, <1>3 DEF WithMerged, Heads
<1>7. g \in Heads
  BY <1>1, <1>2, <1>3, <1>5 DEF WithMerged, Heads
<1> HIDE DEF g
<1>8. g[p].owner = FREE /\ g[p].size = h[p].size + h[q].size + 1 /\ g[p].next = h[q].next /\ g[q].owner = FREE /\ g[q].next = h[q].next
  BY <1>6 DEF Merged, Faked
<1>9. Links(g)
  <2>1. ASSUME NEW r \in HmaPara, HmcbValid(g, r)
        PROVE  g[r].next \in HmaPara
    <3>1. CASE r = p \/ r = q
      BY <1>2, <1>8, <3>1
    <3>2. CASE r # p /\ r # q
      <4>1. g[r] = h[r] /\ HmcbValid(h, r)
        BY <1>6, <2>1, <3>2 DEF HmcbValid
      <4>2. QED
        BY <1>3, <4>1 DEF Links
    <3>3. QED
      BY <3>1, <3>2
  <2>2. QED
    BY <2>1 DEF Links
<1>10. After(g, p) = After(h, q) /\ \A r \in M : r # p => After(g, r) = After(h, r)
  <2>1. After(g, p) = After(h, q)
    BY <1>1, <1>2, <1>8 DEF After
  <2>2. ASSUME NEW r \in M, r # p PROVE After(g, r) = After(h, r)
    <3>1. r \in HmaPara /\ r # q
      BY RowFacts
    <3>2. QED
      BY <1>6, <2>2, <3>1 DEF After
  <2>3. QED
    BY <2>1, <2>2
<1>11. ASSUME NEW r \in M
       PROVE  Leads(g, M, r)
  <2>1. CASE r = p
    <3>1. HmcbValid(g, p)
      <4>1. g[p].next # NoHmcb.next
        BY <1>2, <1>3, <1>8 DEF NoHmcb, HmaPara
      <4>2. QED
        BY <4>1 DEF HmcbValid
    <3>2. (After(h, q) = HmaTop /\ h[q].next = 0) \/ (After(h, q) \in L /\ h[q].next = After(h, q))
      BY <1>2 DEF Leads
    <3>3. QED
      BY <1>2, <1>8, <1>10, <2>1, <3>1, <3>2 DEF Leads
  <2>2. CASE r # p
    <3>1. /\ r \in Nat /\ r \in L /\ r # q /\ r \in HmaPara /\ HmcbValid(h, r) /\ After(h, r) \in Nat /\ r < After(h, r)
          /\ \/ After(h, r) = HmaTop /\ h[r].next = 0
             \/ After(h, r) \in L /\ h[r].next = After(h, r)
      <4>1. r \in L /\ r # q
        OBVIOUS
      <4>2. QED
        BY <4>1, RowFacts DEF Leads
    <3>2. After(h, r) # q
      <4>1. (p <= r \/ After(h, r) <= p) /\ (r <= p \/ q <= r)
        BY <1>1, RowApart
      <4>2. QED
        BY <1>1, <2>2, <3>1, <4>1
    <3>3. g[r] = h[r] /\ After(g, r) = After(h, r)
      BY <1>6, <1>10, <2>2, <3>1
    <3>4. QED
      BY <3>1, <3>2, <3>3 DEF Leads, HmcbValid
  <2>3. QED
    BY <2>1, <2>2
<1>12. Apart(g, M)
  <2>1. ASSUME NEW a \in M, NEW b \in M
        PROVE  b <= a \/ After(g, a) <= b
    <3>1. b \in Nat /\ b # q /\ (b <= a \/ After(h, a) <= b) /\ (b <= q \/ After(h, q) <= b)
      BY <1>1, RowApart, RowFacts
    <3>2. CASE a = p
      BY <1>1, <1>2, <1>10, <3>1, <3>2
    <3>3. CASE a # p
      BY <1>10, <3>1, <3>3
    <3>4. QED
      BY <3>2, <3>3
  <2>2. QED
    BY <2>1 DEF Apart
<1>13. NoClaim(g, M)
  <2>1. ASSUME NEW r \in HmaPara \ M PROVE HmcbFree(g, r)
    <3>1. CASE r = p \/ r = q
      BY <1>8, <3>1 DEF HmcbFree
    <3>2. CASE r # p /\ r # q
      <4>1. g[r] = h[r] /\ r \in HmaPara \ L
        BY <1>6, <3>2
      <4>2. QED
        BY <4>1 DEF Row, NoClaim, HmcbFree
    <3>3. QED
      BY <3>1, <3>2
  <2>2. QED
    BY <2>1 DEF NoClaim
<1>14. Row(g, M)
  <2>1. M \subseteq 1 .. HmaTop - 1 /\ FIRST_MCB \in M
    <3>1. q # FIRST_MCB
      BY <1>1, <1>2 DEF FIRST_MCB
    <3>2. QED
      BY <1>3, <3>1
  <2>2. QED
    BY <1>7, <1>9, <1>11, <1>12, <1>13, <2>1 DEF Row
<1>15. Keeps(h, g, M, InUse(h, L))
  <2>1. ASSUME NEW r \in InUse(h, L)
        PROVE  r \in M /\ g[r] = h[r]
    <3>1. r \in L /\ r # q /\ r # p /\ r \in HmaPara
      BY <1>4, RowFacts DEF InUse
    <3>2. QED
      BY <1>6, <3>1
  <2>2. QED
    BY <2>1 DEF Keeps
<1>16. M \subseteq L /\ p \in M /\ HmcbFree(g, p)
  BY <1>1, <1>8 DEF HmcbFree
<1>17. QED
  BY <1>14, <1>15, <1>16 DEF Joined, g, q

(* joinMCBs of one block.                                                  *)
LEMMA JoinNextRow ==
    ASSUME NEW h, NEW L, Row(h, L), NEW p \in L, HmcbFree(h, p)
    PROVE  \E M : Joined(h, L, p, joinNext(h, p), M)
<1>1. CASE HmcbLast(h, p) \/ ~HmcbFree(h, h[p].next)
  <2>1. joinNext(h, p) = h
    BY <1>1, JoinNextIs
  <2>2. Keeps(h, h, L, InUse(h, L))
    BY DEF Keeps, InUse
  <2>3. Joined(h, L, p, h, L)
    BY <2>2 DEF Joined
  <2>4. QED
    BY <2>1, <2>3
<1>2. CASE ~(HmcbLast(h, p) \/ ~HmcbFree(h, h[p].next))
  <2>1. joinNext(h, p) = WithMerged(h, p, h[p].next)
    BY <1>2, JoinNextIs
  <2>2. Joined(h, L, p, WithMerged(h, p, h[p].next), L \ {h[p].next})
    BY <1>2, MergedRow
  <2>3. QED
    BY <2>1, <2>2
<1>3. QED
  BY <1>1, <1>2

(* Joining goes on from what joining gave.                                 *)
LEMMA JoinedOn ==
    ASSUME NEW h, NEW L, NEW p, NEW g, NEW M, NEW f, NEW N, Joined(h, L, p, g, M), Joined(g, M, p, f, N)
    PROVE  Joined(h, L, p, f, N)
<1>1. Keeps(h, g, M, InUse(h, L)) /\ Keeps(g, f, N, InUse(g, M))
  BY DEF Joined
<1>2. InUse(h, L) \subseteq InUse(g, M)
  BY <1>1, KeptInUse
<1>3. Keeps(h, f, N, InUse(h, L))
  BY <1>1, <1>2, KeepsOn
<1>4. QED
  BY <1>3 DEF Joined

(* joinMCBs.                                                               *)
LEMMA JoinRow ==
    ASSUME NEW h, NEW L, Row(h, L), NEW p \in L, HmcbFree(h, p)
    PROVE  \E M : Joined(h, L, p, joinHmcbs(h, p), M)
<1> DEFINE T == {g \in Heads : \E M : Joined(h, L, p, g, M)}
           F == [g \in T |-> joinNext(g, p)]
           G(w) == [i \in 0 .. HmaTop |-> IF i = 0 THEN h ELSE joinNext(w[i - 1], p)]
           w == CHOOSE f : f = G(f)
<1>1. ASSUME NEW g \in T PROVE joinNext(g, p) \in T
  <2>1. PICK M : Joined(h, L, p, g, M)
    OBVIOUS
  <2>2. Row(g, M) /\ p \in M /\ HmcbFree(g, p)
    BY <2>1 DEF Joined
  <2>3. PICK N : Joined(g, M, p, joinNext(g, p), N)
    BY <2>2, JoinNextRow
  <2>4. Joined(h, L, p, joinNext(g, p), N)
    BY <2>1, <2>3, JoinedOn
  <2>5. joinNext(g, p) \in Heads
    BY <2>4 DEF Joined, Row
  <2>6. QED
    BY <2>4, <2>5
<1>2. h \in T
  <2>1. Keeps(h, h, L, InUse(h, L))
    BY DEF Keeps, InUse
  <2>2. Joined(h, L, p, h, L) /\ h \in Heads
    BY <2>1 DEF Joined, Row
  <2>3. QED
    BY <2>2
<1>3. HmaTop \in Nat
  BY HmaAssumption
<1>4. joinHmcbs(h, p) = w[HmaTop]
  BY DEF joinHmcbs, Repeat
<1> HIDE DEF T
<1>5. F \in [T -> T]
  BY <1>1
<1>6. PICK g : Applies(g, T, F, h, HmaTop)
  <2> HIDE DEF F
  <2> QED  BY <1>2, <1>3, <1>5, CanApply
<1>7. g = G(g)
  <2>1. ASSUME NEW i \in 1 .. HmaTop PROVE g[i] = joinNext(g[i - 1], p)
    <3>1. g[i - 1] \in T
      BY <1>3, <1>6 DEF Applies
    <3>2. QED
      BY <1>6, <3>1 DEF Applies
  <2>2. \A i \in 0 .. HmaTop : g[i] = G(g)[i]
    BY <1>3, <1>6, <2>1 DEF Applies
  <2>3. QED
    BY <1>6, <2>2 DEF Applies
<1>8. w = G(w)
  <2> HIDE DEF G
  <2> QED  BY <1>7
<1>9. w[0] = h /\ \A i \in 1 .. HmaTop : w[i] = joinNext(w[i - 1], p)
  <2> HIDE DEF w
  <2> QED  BY <1>3, <1>8
<1> HIDE DEF w
<1>10. w[HmaTop] \in T
  <2> DEFINE B == {i \in 0 .. HmaTop : w[i] \in T}
  <2>1. 0 \in B /\ \A i \in 1 .. HmaTop : i - 1 \in B => i \in B
    BY <1>1, <1>2, <1>3, <1>9
  <2> HIDE DEF B
  <2>2. HmaTop \in B
    BY <1>3, <2>1, EveryStep
  <2>3. QED
    BY <2>2 DEF B
<1>11. QED
  BY <1>4, <1>10 DEF T

(***************************************************************************)
(* Cutting.                                                                *)
(***************************************************************************)
(* p with another owner, and no change of its extent.                      *)
LEMMA OwnedRow ==
    ASSUME NEW h, NEW L, Row(h, L), NEW p \in L, NEW o \in {FREE, MSDOS} \cup Psp, h[p].next \in HmaPara
    PROVE  Row([h EXCEPT ![p].owner = o], L)
<1> DEFINE u == [h[p] EXCEPT !.owner = o]
           g == [h EXCEPT ![p] = u]
<1>1. p \in HmaPara /\ h[p] \in Hdr /\ h \in Heads /\ HmaTop \in Nat
  BY HmaAssumption, RowFacts DEF Row
<1>2. u \in Hdr /\ u.size = h[p].size /\ u.next = h[p].next /\ u.owner = o
  BY <1>1 DEF Hdr
<1>3. g = [h EXCEPT ![p].owner = o]
  OBVIOUS
<1> HIDE DEF u
<1>4. g \in Heads /\ g[p] = u /\ \A r \in HmaPara : r # p => g[r] = h[r]
  BY <1>1, <1>2 DEF Heads
<1> HIDE DEF g
<1>5. \A r \in HmaPara : g[r].size = h[r].size /\ g[r].next = h[r].next /\ After(g, r) = After(h, r)
  BY <1>2, <1>4 DEF After
<1>6. \A r \in L : r \in HmaPara
  BY RowFacts
<1>7. \A r \in HmaPara : r = p \/ g[r] = h[r]
  BY <1>4
<1>8. HmcbValid(g, p)
  <2>1. u.next # NoHmcb.next
    BY <1>1, <1>2 DEF HmaPara, NoHmcb
  <2>2. QED
    BY <1>4, <2>1 DEF HmcbValid
<1>9. Links(g)
  BY <1>5, <1>7 DEF Links, HmcbValid, Row
<1>10. \A r \in L : Leads(g, L, r)
  BY <1>5, <1>6, <1>7, <1>8 DEF Leads, HmcbValid, Row
<1>11. Apart(g, L)
  BY <1>5, <1>6 DEF Apart, Row
<1>12. NoClaim(g, L)
  BY <1>7 DEF NoClaim, Row, HmcbFree
<1>13. QED
  BY <1>3, <1>4, <1>9, <1>10, <1>11, <1>12 DEF Row

(* p cut in two, the second half a block of its own.                       *)
Half(o, s, n)        == [owner |-> o, size |-> s, next |-> n]
WithHalves(h, p, q, u, v) == [h EXCEPT ![p] = u, ![q] = v]

(* The halves cover what p had.                                            *)
LEMMA HalvesRow ==
    ASSUME NEW h, NEW L, Row(h, L), NEW p \in L, NEW q \in Nat, NEW s \in Nat, NEW t \in Nat,
           NEW o \in {FREE, MSDOS} \cup Psp, NEW b \in {FREE, MSDOS} \cup Psp,
           q = p + s + 1, q + t + 1 = After(h, p)
    PROVE  /\ Row(WithHalves(h, p, q, Half(o, s, q), Half(b, t, h[p].next)), L \cup {q})
           /\ Keeps(h, WithHalves(h, p, q, Half(o, s, q), Half(b, t, h[p].next)), L \cup {q}, L \ {p})
<1> DEFINE n == h[p].next
           u == Half(o, s, q)
           v == Half(b, t, n)
           g == WithHalves(h, p, q, u, v)
           M == L \cup {q}
<1>1. h \in Heads /\ Links(h) /\ HmaTop \in Nat /\ L \subseteq 1 .. HmaTop - 1 /\ FIRST_MCB \in L
  BY HmaAssumption DEF Row
<1>2. /\ p \in HmaPara /\ p \in Nat /\ p > 0 /\ After(h, p) \in Nat /\ After(h, p) <= HmaTop /\ n \in HmaPara
      /\ Leads(h, L, p)
  BY RowFacts
<1>3. /\ (After(h, p) = HmaTop /\ n = 0) \/ (After(h, p) \in L /\ n = After(h, p))
  BY <1>2 DEF Leads
<1> HIDE DEF n
<1>4. p < q /\ q < After(h, p) /\ q \in 1 .. HmaTop - 1 /\ q \in HmaPara
  BY <1>1, <1>2 DEF HmaPara
<1>5. q \notin L
  <2>1. q \in L => (q <= p \/ After(h, p) <= q)
    BY RowApart
  <2>2. QED
    BY <1>2, <1>4, <2>1
<1>6. u \in Hdr /\ u.owner = o /\ u.size = s /\ u.next = q
  BY DEF Half, Hdr
<1>7. v \in Hdr /\ v.owner = b /\ v.size = t /\ v.next = n
  BY <1>2 DEF Half, Hdr, HmaPara
<1> HIDE DEF u, v
<1>8. g \in Heads /\ g[p] = u /\ g[q] = v /\ \A r \in HmaPara : r # p /\ r # q => g[r] = h[r]
  BY <1>1, <1>2, <1>4, <1>6, <1>7 DEF Heads, WithHalves
<1> HIDE DEF g
<1>9. HmcbValid(g, p) /\ HmcbValid(g, q)
  <2>1. u.next # NoHmcb.next /\ v.next # NoHmcb.next
    BY <1>1, <1>2, <1>6, <1>7 DEF NoHmcb, HmaPara
  <2>2. QED
    BY <1>8, <2>1 DEF HmcbValid
<1>10. /\ After(g, p) = q /\ After(g, q) = After(h, p)
       /\ \A r \in HmaPara : r # p /\ r # q => After(g, r) = After(h, r)
  BY <1>6, <1>7, <1>8 DEF After
<1>11. Links(g)
  <2>1. ASSUME NEW r \in HmaPara, HmcbValid(g, r)
        PROVE  g[r].next \in HmaPara
    <3>1. CASE r = p
      BY <1>4, <1>6, <1>8, <3>1
    <3>2. CASE r = q
      BY <1>2, <1>7, <1>8, <3>2
    <3>3. CASE r # p /\ r # q
      <4>1. g[r] = h[r] /\ HmcbValid(h, r)
        BY <1>8, <2>1, <3>3 DEF HmcbValid
      <4>2. QED
        BY <1>1, <4>1 DEF Links
    <3>4. QED
      BY <3>1, <3>2, <3>3
  <2>2. QED
    BY <2>1 DEF Links
<1>12. ASSUME NEW r \in M
       PROVE  Leads(g, M, r)
  <2>1. CASE r = p
    BY <1>6, <1>8, <1>9, <1>10, <2>1 DEF Leads
  <2>2. CASE r = q
    BY <1>3, <1>7, <1>8, <1>9, <1>10, <2>2 DEF Leads
  <2>3. CASE r # p /\ r # q
    <3>1. r \in L
      BY <2>3
    <3>2. r \in HmaPara /\ Leads(h, L, r)
      BY <3>1, RowFacts
    <3>3. g[r] = h[r] /\ After(g, r) = After(h, r)
      BY <1>8, <1>10, <2>3, <3>2
    <3>4. QED
      BY <3>2, <3>3 DEF Leads, HmcbValid
  <2>4. QED
    BY <2>1, <2>2, <2>3
<1>13. ASSUME NEW r \in L
       PROVE  r \in Nat /\ r \in HmaPara /\ After(h, r) \in Nat /\ r < After(h, r)
  BY RowFacts
<1>14. Apart(g, M)
  <2>1. ASSUME NEW x \in M, NEW y \in M
        PROVE  y <= x \/ After(g, x) <= y
    <3>1. CASE x \in L /\ y \in L
      <4>1. y <= x \/ After(h, x) <= y
        BY <3>1, RowApart
      <4>2. x # q /\ y # q
        BY <1>5, <3>1
      <4>3. CASE x = p
        BY <1>2, <1>4, <1>10, <1>13, <3>1, <4>1, <4>3
      <4>4. CASE x # p
        BY <1>10, <1>13, <3>1, <4>1, <4>2, <4>4
      <4>5. QED
        BY <4>3, <4>4
    <3>2. CASE x = q /\ y \in L
      <4>1. y <= p \/ After(h, p) <= y
        BY <3>2, RowApart
      <4>2. QED
        BY <1>2, <1>4, <1>10, <1>13, <3>2, <4>1
    <3>3. CASE x \in L /\ y = q
      <4>1. (p <= x \/ After(h, x) <= p)
        BY <3>3, RowApart
      <4>2. CASE x = p
        BY <1>10, <3>3, <4>2
      <4>3. CASE x # p
        <5>1. (x <= p \/ After(h, p) <= x)
          BY <3>3, RowApart
        <5>2. QED
          BY <1>2, <1>4, <1>5, <1>10, <1>13, <3>3, <4>1, <4>3, <5>1
      <4>4. QED
        BY <4>2, <4>3
    <3>4. CASE x = q /\ y = q
      BY <3>4
    <3>5. QED
      BY <3>1, <3>2, <3>3, <3>4
  <2>2. QED
    BY <2>1 DEF Apart
<1>15. NoClaim(g, M)
  <2>1. ASSUME NEW r \in HmaPara \ M PROVE HmcbFree(g, r)
    <3>1. g[r] = h[r] /\ r \in HmaPara \ L
      BY <1>8
    <3>2. QED
      BY <3>1 DEF Row, NoClaim, HmcbFree
  <2>2. QED
    BY <2>1 DEF NoClaim
<1>16. Row(g, M)
  <2>1. M \subseteq 1 .. HmaTop - 1 /\ FIRST_MCB \in M
    BY <1>1, <1>4
  <2>2. QED
    BY <1>8, <1>11, <1>12, <1>14, <1>15, <2>1 DEF Row
<1>17. Keeps(h, g, M, L \ {p})
  <2>1. ASSUME NEW r \in L \ {p}
        PROVE  r \in M /\ g[r] = h[r]
    BY <1>5, <1>8, <1>13
  <2>2. QED
    BY <2>1 DEF Keeps
<1>18. QED
  BY <1>16, <1>17 DEF g, u, v, n

(* The block that is found is cut, and no other changes.                   *)
LEMMA CutRow ==
    ASSUME NEW h, NEW L, Row(h, L), NEW p \in L, HmcbFree(h, p), NEW size \in Nat, size <= h[p].size,
           NEW topdown \in BOOLEAN, NEW owner \in Psp
    PROVE  \E M : Row(Cut(h, p, size, topdown, owner), M)
                  /\ Keeps(h, Cut(h, p, size, topdown, owner), M, InUse(h, L))
<1>1. p \in Nat /\ p \in HmaPara /\ h[p].size \in Nat /\ h[p].next \in HmaPara /\ h \in Heads /\ HmaTop \in Nat
  BY RowFacts, HmaAssumption DEF Row
<1>2. owner \in {FREE, MSDOS} \cup Psp /\ FREE \in {FREE, MSDOS} \cup Psp
  OBVIOUS
<1>3. InUse(h, L) \subseteq L \ {p}
  BY DEF InUse
<1>4. CASE size = h[p].size
  <2> DEFINE g == [h EXCEPT ![p].owner = owner]
  <2>1. Cut(h, p, size, topdown, owner) = g
    BY <1>4 DEF Cut
  <2>2. Row(g, L)
    BY <1>1, <1>2, OwnedRow
  <2>3. \A r \in InUse(h, L) : r \in L /\ r # p /\ g[r] = h[r]
    <3>1. \A r \in InUse(h, L) : r \in L /\ r # p /\ r \in HmaPara
      BY <1>3, RowFacts
    <3>2. QED
      BY <1>1, <3>1 DEF Heads
  <2>4. Keeps(h, g, L, InUse(h, L))
    BY <2>3 DEF Keeps
  <2> HIDE DEF g
  <2>5. QED
    BY <2>1, <2>2, <2>4
<1>5. CASE size # h[p].size
  <2> DEFINE q    == IF topdown THEN p + h[p].size - size ELSE p + size + 1
             rest == h[p].size - size - 1
             s    == IF topdown THEN rest ELSE size
             t    == IF topdown THEN size ELSE rest
             o    == IF topdown THEN FREE ELSE owner
             b    == IF topdown THEN owner ELSE FREE
             g    == WithHalves(h, p, q, Half(o, s, q), Half(b, t, h[p].next))
  <2>1. Cut(h, p, size, topdown, owner) = g
    <3>1. CASE topdown
      BY <1>5, <3>1 DEF Cut, WithHalves, Half
    <3>2. CASE ~topdown
      BY <1>5, <3>2 DEF Cut, WithHalves, Half
    <3>3. QED
      BY <3>1, <3>2
  <2>2. q \in Nat /\ s \in Nat /\ t \in Nat /\ q = p + s + 1 /\ q + t + 1 = After(h, p)
    <3>1. rest \in Nat
      BY <1>1, <1>5
    <3>2. CASE topdown
      BY <1>1, <3>1, <3>2 DEF After
    <3>3. CASE ~topdown
      BY <1>1, <3>1, <3>3 DEF After
    <3>4. QED
      BY <3>2, <3>3
  <2>3. o \in {FREE, MSDOS} \cup Psp /\ b \in {FREE, MSDOS} \cup Psp
    BY <1>2
  <2> HIDE DEF q, s, t, o, b
  <2>4. Row(g, L \cup {q}) /\ Keeps(h, g, L \cup {q}, L \ {p})
    BY <2>2, <2>3, HalvesRow
  <2> HIDE DEF g
  <2>5. Keeps(h, g, L \cup {q}, InUse(h, L))
    BY <1>3, <2>4 DEF Keeps
  <2>6. QED
    BY <2>1, <2>4, <2>5
<1>6. QED
  BY <1>4, <1>5

(***************************************************************************)
(* Allocating.                                                             *)
(***************************************************************************)
(* A row that has all that h has in use.                                   *)
Grown(h, L, g, M)    == Row(g, M) /\ Keeps(h, g, M, InUse(h, L))
Searched(h, L, s, M) == Grown(h, L, s.hmcb, M) /\ (s.at = 0 \/ s.at \in M)

(* What grows goes on to grow.                                             *)
LEMMA GrownOn ==
    ASSUME NEW h, NEW L, NEW g, NEW M, NEW f, NEW N, Grown(h, L, g, M), Grown(g, M, f, N)
    PROVE  Grown(h, L, f, N)
<1>1. Keeps(h, g, M, InUse(h, L)) /\ Keeps(g, f, N, InUse(g, M))
  BY DEF Grown
<1>2. InUse(h, L) \subseteq InUse(g, M)
  BY <1>1, KeptInUse
<1>3. Keeps(h, f, N, InUse(h, L))
  BY <1>1, <1>2, KeepsOn
<1>4. QED
  BY <1>3 DEF Grown

(* A block of the search.                                                  *)
LEMMA SearchRow ==
    ASSUME NEW h, NEW L, NEW s \in [hmcb : Heads, at : HmaPara], Searched(h, L, s, L), Row(h, L), s.hmcb = h,
           NEW size \in Nat, NEW topdown \in BOOLEAN, NEW owner \in Psp
    PROVE  /\ Search(s, size, topdown, owner) \in [hmcb : Heads, at : HmaPara]
           /\ \E M : Searched(h, L, Search(s, size, topdown, owner), M)
<1> DEFINE p == s.at
           g == IF HmcbFree(h, p) THEN joinHmcbs(h, p) ELSE h
           r == Search(s, size, topdown, owner)
<1>1. CASE p = 0 \/ ~HmcbValid(h, p)
  <2>1. r = s
    BY <1>1 DEF Search
  <2>2. QED
    BY <2>1
<1>2. CASE p # 0 /\ HmcbValid(h, p)
  <2>1. p \in L
    BY <1>2 DEF Searched
  <2>2. PICK M : Grown(h, L, g, M) /\ p \in M
    <3>1. CASE HmcbFree(h, p)
      <4>1. PICK M : Joined(h, L, p, joinHmcbs(h, p), M)
        BY <2>1, <3>1, JoinRow
      <4>2. QED
        BY <3>1, <4>1 DEF Joined, Grown
    <3>2. CASE ~HmcbFree(h, p)
      <4>1. Grown(h, L, h, L)
        BY DEF Searched
      <4>2. g = h
        BY <3>2
      <4>3. QED
        BY <2>1, <4>1, <4>2
    <3>3. QED
      BY <3>1, <3>2
  <2>3. r = IF HmcbFree(g, p) /\ g[p].size >= size
            THEN [hmcb |-> Cut(g, p, size, topdown, owner), at |-> 0]
            ELSE [hmcb |-> g, at |-> g[p].next]
    BY <1>2 DEF Search
  <2> HIDE DEF g
  <2>4. Row(g, M)
    BY <2>2 DEF Grown
  <2>5. CASE HmcbFree(g, p) /\ g[p].size >= size
    <3> DEFINE f == Cut(g, p, size, topdown, owner)
    <3>1. size <= g[p].size
      <4>1. g[p].size \in Nat
        BY <2>2, <2>4, RowFacts
      <4>2. QED
        BY <2>5, <4>1
    <3>2. PICK N : Row(f, N) /\ Keeps(g, f, N, InUse(g, M))
      BY <2>2, <2>4, <2>5, <3>1, CutRow
    <3>3. r = [hmcb |-> f, at |-> 0]
      BY <2>3, <2>5
    <3> HIDE DEF f
    <3>4. Grown(g, M, f, N)
      BY <3>2 DEF Grown
    <3>5. Grown(h, L, f, N)
      BY <2>2, <3>4, GrownOn
    <3>6. r.hmcb = f /\ r.at = 0
      BY <3>3
    <3>7. Searched(h, L, r, N)
      BY <3>5, <3>6 DEF Searched
    <3>8. f \in Heads /\ 0 \in HmaPara
      BY <3>2, HmaAssumption DEF Row, HmaPara
    <3>9. r \in [hmcb : Heads, at : HmaPara]
      BY <3>3, <3>8
    <3>10. QED
      BY <3>7, <3>9
  <2>6. CASE ~(HmcbFree(g, p) /\ g[p].size >= size)
    <3>1. r = [hmcb |-> g, at |-> g[p].next]
      BY <2>3, <2>6
    <3>2. g[p].next \in HmaPara /\ (g[p].next = 0 \/ g[p].next \in M)
      BY <2>2, <2>4, RowFacts DEF HmcbLast
    <3>3. r.hmcb = g /\ r.at = g[p].next
      BY <3>1
    <3>4. Searched(h, L, r, M)
      BY <2>2, <3>2, <3>3 DEF Searched
    <3>5. g \in Heads
      BY <2>4 DEF Row
    <3>6. r \in [hmcb : Heads, at : HmaPara]
      BY <3>1, <3>2, <3>5
    <3>7. QED
      BY <3>4, <3>6
  <2>7. QED
    BY <2>5, <2>6
<1>3. QED
  BY <1>1, <1>2

(* DosHMAAlloc.                                                            *)
LEMMA AllocRow ==
    ASSUME NEW h, NEW L, Row(h, L), NEW size \in Nat, NEW topdown \in BOOLEAN, NEW owner \in Psp
    PROVE  \E M : Grown(h, L, DosHMAAlloc(h, size, topdown, owner), M)
<1> DEFINE T == {s \in [hmcb : Heads, at : HmaPara] : \E M : Searched(h, L, s, M)}
           x == [hmcb |-> h, at |-> FIRST_MCB]
           F == [s \in T |-> Search(s, size, topdown, owner)]
           G(w) == [i \in 0 .. HmaTop |-> IF i = 0 THEN x ELSE Search(w[i - 1], size, topdown, owner)]
           w == CHOOSE f : f = G(f)
<1>1. ASSUME NEW s \in T PROVE Search(s, size, topdown, owner) \in T
  <2> DEFINE r == Search(s, size, topdown, owner)
  <2>1. s \in [hmcb : Heads, at : HmaPara]
    OBVIOUS
  <2>2. PICK M : Searched(h, L, s, M)
    OBVIOUS
  <2>3. PICK g : g = s.hmcb
    OBVIOUS
  <2>4. Row(g, M) /\ Searched(g, M, s, M)
    <3>1. Keeps(g, g, M, InUse(g, M))
      BY DEF Keeps, InUse
    <3>2. QED
      BY <2>2, <2>3, <3>1 DEF Searched, Grown
  <2>5. r \in [hmcb : Heads, at : HmaPara] /\ \E N : Searched(g, M, r, N)
    <3> HIDE DEF T
    <3> QED  BY <2>1, <2>3, <2>4, SearchRow
  <2> HIDE DEF r
  <2>6. PICK N : Searched(g, M, r, N)
    BY <2>5
  <2>7. Grown(h, L, g, M) /\ Grown(g, M, r.hmcb, N)
    BY <2>2, <2>3, <2>6 DEF Searched
  <2>8. Grown(h, L, r.hmcb, N)
    BY <2>7, GrownOn
  <2>9. Searched(h, L, r, N)
    BY <2>6, <2>8 DEF Searched
  <2>10. QED
    BY <2>5, <2>9 DEF r
<1>2. x \in T
  <2>1. h \in Heads /\ FIRST_MCB \in L /\ FIRST_MCB \in HmaPara
    BY HmaAssumption DEF Row, FIRST_MCB, HmaPara
  <2>2. Grown(h, L, h, L)
    BY DEF Grown, Keeps, InUse
  <2>3. x \in [hmcb : Heads, at : HmaPara] /\ x.hmcb = h /\ x.at = FIRST_MCB
    BY <2>1
  <2>4. Searched(h, L, x, L)
    BY <2>1, <2>2, <2>3 DEF Searched
  <2>5. QED
    BY <2>3, <2>4
<1>3. HmaTop \in Nat
  BY HmaAssumption
<1>4. DosHMAAlloc(h, size, topdown, owner) = w[HmaTop].hmcb
  BY DEF DosHMAAlloc, Repeat
<1> HIDE DEF T, x
<1>5. F \in [T -> T]
  BY <1>1
<1>6. PICK g : Applies(g, T, F, x, HmaTop)
  <2> HIDE DEF F
  <2> QED  BY <1>2, <1>3, <1>5, CanApply
<1>7. g = G(g)
  <2>1. ASSUME NEW i \in 1 .. HmaTop PROVE g[i] = Search(g[i - 1], size, topdown, owner)
    <3>1. g[i - 1] \in T
      BY <1>3, <1>6 DEF Applies
    <3>2. QED
      BY <1>6, <3>1 DEF Applies
  <2>2. \A i \in 0 .. HmaTop : g[i] = G(g)[i]
    BY <1>3, <1>6, <2>1 DEF Applies
  <2>3. QED
    BY <1>6, <2>2 DEF Applies
<1>8. w = G(w)
  <2> HIDE DEF G
  <2> QED  BY <1>7
<1>9. w[0] = x /\ \A i \in 1 .. HmaTop : w[i] = Search(w[i - 1], size, topdown, owner)
  <2> HIDE DEF w
  <2> QED  BY <1>3, <1>8
<1> HIDE DEF w
<1>10. w[HmaTop] \in T
  <2> DEFINE B == {i \in 0 .. HmaTop : w[i] \in T}
  <2>1. 0 \in B /\ \A i \in 1 .. HmaTop : i - 1 \in B => i \in B
    BY <1>1, <1>2, <1>3, <1>9
  <2> HIDE DEF B
  <2>2. HmaTop \in B
    BY <1>3, <2>1, EveryStep
  <2>3. QED
    BY <2>2 DEF B
<1>11. QED
  BY <1>4, <1>10 DEF T, Searched

(***************************************************************************)
(* Freeing.                                                                *)
(***************************************************************************)
(* DosHMAFree of the block whose header is p: no other block in use        *)
(* changes.                                                                *)
LEMMA FreeRow ==
    ASSUME NEW h, NEW L, Row(h, L), NEW p \in HmaPara
    PROVE  \E M : /\ Row(DosHMAFree(h, p + 1), M)
                  /\ Keeps(h, DosHMAFree(h, p + 1), M, InUse(h, L) \ {p})
                  /\ p \in InUse(h, L) => HmcbFree(DosHMAFree(h, p + 1), p)
<1> DEFINE g == [h EXCEPT ![p].owner = FREE]
<1>1. (p + 1) - 1 = p
  BY HmaAssumption DEF HmaPara
<1>2. DosHMAFree(h, p + 1) = IF ~HmcbValid(h, p) \/ HmcbFree(h, p) THEN h ELSE joinHmcbs(g, p)
  BY <1>1 DEF DosHMAFree
<1>3. CASE ~HmcbValid(h, p) \/ HmcbFree(h, p)
  <2>1. DosHMAFree(h, p + 1) = h
    BY <1>2, <1>3
  <2>2. p \notin InUse(h, L)
    BY <1>3, RowFacts DEF InUse
  <2>3. Keeps(h, h, L, InUse(h, L) \ {p})
    BY DEF Keeps, InUse
  <2>4. QED
    BY <2>1, <2>2, <2>3
<1>4. CASE HmcbValid(h, p) /\ ~HmcbFree(h, p)
  <2>1. p \in L
    BY <1>4 DEF Row, NoClaim
  <2>2. h \in Heads /\ h[p].next \in HmaPara
    BY <2>1, RowFacts DEF Row
  <2>3. Row(g, L)
    BY <2>1, <2>2, OwnedRow
  <2>4. HmcbFree(g, p) /\ \A r \in HmaPara : r # p => g[r] = h[r]
    BY <2>2 DEF Heads, HmcbFree
  <2>5. DosHMAFree(h, p + 1) = joinHmcbs(g, p)
    BY <1>2, <1>4
  <2> HIDE DEF g
  <2>6. PICK M : Joined(g, L, p, joinHmcbs(g, p), M)
    BY <2>1, <2>3, <2>4, JoinRow
  <2>7. Keeps(h, g, L, InUse(h, L) \ {p}) /\ InUse(h, L) \ {p} \subseteq InUse(g, L)
    <3>1. \A r \in InUse(h, L) \ {p} : r \in L /\ g[r] = h[r] /\ ~HmcbFree(h, r)
      BY <2>4, RowFacts DEF InUse
    <3>2. QED
      BY <3>1 DEF Keeps, InUse, HmcbFree
  <2>8. Keeps(h, joinHmcbs(g, p), M, InUse(h, L) \ {p})
    BY <2>6, <2>7, KeepsOn DEF Joined
  <2>9. QED
    BY <2>5, <2>6, <2>8 DEF Joined
<1>5. QED
  BY <1>3, <1>4

(***************************************************************************)
(* The end of a process.                                                   *)
(***************************************************************************)
(* A row that has all that h has in use and that holds anything.           *)
Tidied(h, L, g, M) == Row(g, M) /\ Keeps(h, g, M, Filled(h, L))
Passed(h, L, s, M) == Tidied(h, L, s.hmcb, M) /\ (s.at = 0 \/ s.at \in M)

(* What is tidied goes on to be tidied.                                    *)
LEMMA TidiedOn ==
    ASSUME NEW h, NEW L, NEW g, NEW M, NEW f, NEW N, Tidied(h, L, g, M), Tidied(g, M, f, N)
    PROVE  Tidied(h, L, f, N)
<1>1. Keeps(h, g, M, Filled(h, L)) /\ Keeps(g, f, N, Filled(g, M))
  BY DEF Tidied
<1>2. Filled(h, L) \subseteq InUse(h, L)
  BY DEF Filled
<1>3. Filled(h, L) \subseteq Filled(g, M)
  BY <1>1, <1>2, KeptInUse
<1>4. Keeps(h, f, N, Filled(h, L))
  BY <1>1, <1>3, KeepsOn
<1>5. QED
  BY <1>4 DEF Tidied

(* A block of the end of a process: what is freed is the block before a    *)
(* block of the process, and only if it is empty.                          *)
LEMMA FreeOwnedRow ==
    ASSUME NEW h, NEW L, NEW s \in [hmcb : Heads, at : HmaPara], Passed(h, L, s, L), Row(h, L), s.hmcb = h,
           NEW ps \in Psp
    PROVE  /\ FreeOwned(s, ps) \in [hmcb : Heads, at : HmaPara]
           /\ \E M : Passed(h, L, FreeOwned(s, ps), M)
<1> DEFINE a == s.at
           g == IF h[a].owner = ps THEN DosHMAFree(h, a) ELSE h
           r == FreeOwned(s, ps)
<1>1. CASE a = 0 \/ ~HmcbValid(h, a)
  <2>1. r = s
    BY <1>1 DEF FreeOwned
  <2>2. QED
    BY <2>1
<1>2. CASE a # 0 /\ HmcbValid(h, a)
  <2>1. a \in L
    BY <1>2 DEF Passed
  <2>2. PICK M : Tidied(h, L, g, M) /\ a \in M
    <3>1. CASE h[a].owner = ps
      <4> DEFINE p == a - 1
                 f == DosHMAFree(h, p + 1)
      <4>1. p \in HmaPara /\ p + 1 = a /\ p \in Nat /\ p # a /\ a \in Nat
        BY <2>1, RowFacts, HmaAssumption DEF HmaPara
      <4>2. PICK M : Row(f, M) /\ Keeps(h, f, M, InUse(h, L) \ {p})
        <5> HIDE DEF p
        <5> QED  BY <4>1, FreeRow
      <4>3. p \notin Filled(h, L)
        <5>1. SUFFICES ASSUME p \in L
                       PROVE  h[p].size = 0
          BY DEF Filled, InUse
        <5>2. a <= p \/ After(h, p) <= a
          BY <2>1, <5>1, RowApart
        <5>3. h[p].size \in Nat
          BY <5>1, RowFacts
        <5>4. QED
          BY <4>1, <5>2, <5>3 DEF After
      <4>4. Filled(h, L) \subseteq InUse(h, L) \ {p}
        BY <4>3 DEF Filled
      <4>5. a \in InUse(h, L) \ {p}
        <5>1. h[a].owner # FREE
          BY <3>1, HmaAssumption DEF FREE
        <5>2. QED
          BY <2>1, <4>1, <5>1 DEF InUse, HmcbFree
      <4>6. g = f
        BY <3>1, <4>1
      <4> HIDE DEF f, p, g
      <4>7. Tidied(h, L, f, M) /\ a \in M
        BY <4>2, <4>4, <4>5 DEF Tidied, Keeps
      <4>8. QED
        BY <4>6, <4>7
    <3>2. CASE h[a].owner # ps
      <4>1. Tidied(h, L, h, L)
        BY DEF Passed
      <4>2. g = h
        BY <3>2
      <4>3. QED
        BY <2>1, <4>1, <4>2
    <3>3. QED
      BY <3>1, <3>2
  <2>3. r = [hmcb |-> g, at |-> g[a].next]
    BY <1>2 DEF FreeOwned
  <2> HIDE DEF g
  <2>4. Row(g, M)
    BY <2>2 DEF Tidied
  <2>5. g[a].next \in HmaPara /\ (g[a].next = 0 \/ g[a].next \in M)
    BY <2>2, <2>4, RowFacts DEF HmcbLast
  <2>6. r.hmcb = g /\ r.at = g[a].next
    BY <2>3
  <2>7. Passed(h, L, r, M)
    BY <2>2, <2>5, <2>6 DEF Passed
  <2>8. g \in Heads
    BY <2>4 DEF Row
  <2>9. r \in [hmcb : Heads, at : HmaPara]
    BY <2>3, <2>5, <2>8
  <2>10. QED
    BY <2>7, <2>9
<1>3. QED
  BY <1>1, <1>2

(* FreeProcessHMA.                                                         *)
LEMMA FreeProcessRow ==
    ASSUME NEW h, NEW L, Row(h, L), NEW ps \in Psp
    PROVE  \E M : Tidied(h, L, FreeProcessHMA(h, ps), M)
<1> DEFINE T == {s \in [hmcb : Heads, at : HmaPara] : \E M : Passed(h, L, s, M)}
           x == [hmcb |-> h, at |-> FIRST_MCB]
           F == [s \in T |-> FreeOwned(s, ps)]
           G(w) == [i \in 0 .. HmaTop |-> IF i = 0 THEN x ELSE FreeOwned(w[i - 1], ps)]
           w == CHOOSE f : f = G(f)
<1>1. ASSUME NEW s \in T PROVE FreeOwned(s, ps) \in T
  <2> DEFINE r == FreeOwned(s, ps)
  <2>1. s \in [hmcb : Heads, at : HmaPara]
    OBVIOUS
  <2>2. PICK M : Passed(h, L, s, M)
    OBVIOUS
  <2>3. PICK g : g = s.hmcb
    OBVIOUS
  <2>4. Row(g, M) /\ Passed(g, M, s, M)
    <3>1. Keeps(g, g, M, Filled(g, M))
      BY DEF Keeps, Filled, InUse
    <3>2. QED
      BY <2>2, <2>3, <3>1 DEF Passed, Tidied
  <2>5. r \in [hmcb : Heads, at : HmaPara] /\ \E N : Passed(g, M, r, N)
    <3> HIDE DEF T
    <3> QED  BY <2>1, <2>3, <2>4, FreeOwnedRow
  <2> HIDE DEF r
  <2>6. PICK N : Passed(g, M, r, N)
    BY <2>5
  <2>7. Tidied(h, L, g, M) /\ Tidied(g, M, r.hmcb, N)
    BY <2>2, <2>3, <2>6 DEF Passed
  <2>8. Tidied(h, L, r.hmcb, N)
    BY <2>7, TidiedOn
  <2>9. Passed(h, L, r, N)
    BY <2>6, <2>8 DEF Passed
  <2>10. QED
    BY <2>5, <2>9 DEF r
<1>2. x \in T
  <2>1. h \in Heads /\ FIRST_MCB \in L /\ FIRST_MCB \in HmaPara
    BY HmaAssumption DEF Row, FIRST_MCB, HmaPara
  <2>2. Tidied(h, L, h, L)
    BY DEF Tidied, Keeps, Filled, InUse
  <2>3. x \in [hmcb : Heads, at : HmaPara] /\ x.hmcb = h /\ x.at = FIRST_MCB
    BY <2>1
  <2>4. Passed(h, L, x, L)
    BY <2>1, <2>2, <2>3 DEF Passed
  <2>5. QED
    BY <2>3, <2>4
<1>3. HmaTop \in Nat
  BY HmaAssumption
<1>4. FreeProcessHMA(h, ps) = w[HmaTop].hmcb
  BY DEF FreeProcessHMA, Repeat
<1> HIDE DEF T, x
<1>5. F \in [T -> T]
  BY <1>1
<1>6. PICK g : Applies(g, T, F, x, HmaTop)
  <2> HIDE DEF F
  <2> QED  BY <1>2, <1>3, <1>5, CanApply
<1>7. g = G(g)
  <2>1. ASSUME NEW i \in 1 .. HmaTop PROVE g[i] = FreeOwned(g[i - 1], ps)
    <3>1. g[i - 1] \in T
      BY <1>3, <1>6 DEF Applies
    <3>2. QED
      BY <1>6, <3>1 DEF Applies
  <2>2. \A i \in 0 .. HmaTop : g[i] = G(g)[i]
    BY <1>3, <1>6, <2>1 DEF Applies
  <2>3. QED
    BY <1>6, <2>2 DEF Applies
<1>8. w = G(w)
  <2> HIDE DEF G
  <2> QED  BY <1>7
<1>9. w[0] = x /\ \A i \in 1 .. HmaTop : w[i] = FreeOwned(w[i - 1], ps)
  <2> HIDE DEF w
  <2> QED  BY <1>3, <1>8
<1> HIDE DEF w
<1>10. w[HmaTop] \in T
  <2> DEFINE B == {i \in 0 .. HmaTop : w[i] \in T}
  <2>1. 0 \in B /\ \A i \in 1 .. HmaTop : i - 1 \in B => i \in B
    BY <1>1, <1>2, <1>3, <1>9
  <2> HIDE DEF B
  <2>2. HmaTop \in B
    BY <1>3, <2>1, EveryStep
  <2>3. QED
    BY <2>2 DEF B
<1>11. QED
  BY <1>4, <1>10 DEF T, Passed

(***************************************************************************)
(* The chain.                                                              *)
(***************************************************************************)
(* The headers that a chain through x has to have.                         *)
Goes(h, p)     == HmcbValid(h, p) /\ ~HmcbLast(h, p)
Closed(h, S)   == \A p \in S : Goes(h, p) => h[p].next \in S
Closure(h, x)  == {y \in HmaPara : \A S \in SUBSET HmaPara : x \in S /\ Closed(h, S) => y \in S}

(* The closure is a solution of what defines Chain.                        *)
LEMMA ClosureStep ==
    ASSUME NEW h, Links(h), NEW x \in HmaPara
    PROVE  Closure(h, x) = IF Goes(h, x) THEN {x} \cup Closure(h, h[x].next) ELSE {x}
<1>1. CASE Goes(h, x)
  <2> DEFINE n == h[x].next
             S == {x} \cup Closure(h, n)
  <2>1. n \in HmaPara
    BY <1>1 DEF Links, Goes
  <2> HIDE DEF n
  <2>2. ASSUME NEW y \in Closure(h, n)
        PROVE  y \in Closure(h, x)
    <3>1. ASSUME NEW R \in SUBSET HmaPara, x \in R, Closed(h, R)
          PROVE  y \in R
      <4>1. n \in R
        BY <1>1, <3>1 DEF Closed, n
      <4>2. QED
        BY <2>2, <3>1, <4>1 DEF Closure
    <3>2. QED
      BY <2>2, <3>1 DEF Closure
  <2>3. x \in Closure(h, x)
    BY DEF Closure
  <2>4. ASSUME NEW y \in Closure(h, n), Goes(h, y)
        PROVE  h[y].next \in Closure(h, n)
    <3>1. y \in HmaPara /\ h[y].next \in HmaPara
      BY <2>4 DEF Closure, Links, Goes
    <3>2. ASSUME NEW R \in SUBSET HmaPara, n \in R, Closed(h, R)
          PROVE  h[y].next \in R
      <4>1. y \in R
        BY <2>4, <3>2 DEF Closure
      <4>2. QED
        BY <2>4, <3>2, <4>1 DEF Closed
    <3>3. QED
      BY <3>1, <3>2 DEF Closure
  <2>5. n \in Closure(h, n)
    BY <2>1 DEF Closure
  <2>6. Closed(h, S) /\ S \in SUBSET HmaPara /\ x \in S
    <3>1. ASSUME NEW y \in S, Goes(h, y) PROVE h[y].next \in S
      BY <2>4, <2>5, <3>1 DEF n
    <3>2. S \subseteq HmaPara
      BY DEF Closure
    <3>3. QED
      BY <3>1, <3>2 DEF Closed
  <2>7. Closure(h, x) \subseteq S
    <3> HIDE DEF S
    <3> QED  BY <2>6 DEF Closure
  <2>8. Closure(h, x) = S
    BY <2>2, <2>3, <2>7
  <2>9. QED
    BY <1>1, <2>8 DEF n
<1>2. CASE ~Goes(h, x)
  <2>1. Closed(h, {x})
    BY <1>2 DEF Closed
  <2>2. Closure(h, x) \subseteq {x}
    BY <2>1 DEF Closure
  <2>3. x \in Closure(h, x)
    BY DEF Closure
  <2>4. QED
    BY <1>2, <2>2, <2>3
<1>3. QED
  BY <1>1, <1>2

(* Chain, in one step of its recursion.                                    *)
LEMMA ChainStep ==
    ASSUME NEW h, Links(h), NEW x \in HmaPara
    PROVE  Chain(h, x) = IF Goes(h, x) THEN {x} \cup Chain(h, h[x].next) ELSE {x}
<1> DEFINE F(f) == [y \in HmaPara |-> IF HmcbValid(h, y) /\ ~HmcbLast(h, y) THEN {y} \cup f[h[y].next] ELSE {y}]
           c == CHOOSE f : f = F(f)
           g == [y \in HmaPara |-> Closure(h, y)]
<1>1. g = F(g)
  <2>1. ASSUME NEW y \in HmaPara PROVE g[y] = F(g)[y]
    <3>1. Goes(h, y) => h[y].next \in HmaPara
      BY DEF Links, Goes
    <3>2. Closure(h, y) = IF Goes(h, y) THEN {y} \cup Closure(h, h[y].next) ELSE {y}
      BY ClosureStep
    <3>3. QED
      BY <3>1, <3>2 DEF Goes
  <2>2. QED
    BY <2>1
<1>2. c = F(c)
  <2> HIDE DEF g
  <2> QED  BY <1>1
<1>3. \A y : Chain(h, y) = c[y]
  BY DEF Chain
<1> HIDE DEF c
<1>4. c[x] = IF Goes(h, x) THEN {x} \cup c[h[x].next] ELSE {x}
  BY <1>2 DEF Goes
<1>5. QED
  BY <1>3, <1>4

(* The chain of a row is the row.                                          *)
LEMMA ChainIs ==
    ASSUME NEW h, NEW L, Row(h, L)
    PROVE  Chain(h, FIRST_MCB) = L
<1> DEFINE From(p) == {q \in L : q >= p}
           Wrong   == {p \in L : Chain(h, p) # From(p)}
<1>1. Links(h) /\ FIRST_MCB \in L /\ HmaTop \in Nat
  BY HmaAssumption DEF Row
<1>2. ASSUME NEW q \in L
      PROVE  q \in Nat /\ q \in HmaPara /\ q > 0 /\ q < HmaTop
  BY RowFacts, <1>1 DEF HmaPara
<1>3. ASSUME Wrong # {}
      PROVE  FALSE
  <2>1. PICK p \in Wrong : \A y \in Wrong : y <= p
    <3>1. Wrong \subseteq HmaPara
      BY <1>2
    <3> HIDE DEF Wrong
    <3> QED  BY <1>3, <3>1, HighestOf
  <2>2. p \in L /\ p \in HmaPara /\ p \in Nat
    BY <1>2, <2>1
  <2>3. Chain(h, p) = IF Goes(h, p) THEN {p} \cup Chain(h, h[p].next) ELSE {p}
    BY <1>1, <2>2, ChainStep
  <2>4. ASSUME NEW q \in L PROVE q <= p \/ After(h, p) <= q
    BY <2>2, RowApart
  <2>5. /\ p < After(h, p) /\ After(h, p) \in Nat /\ HmcbValid(h, p)
        /\ HmcbLast(h, p) <=> After(h, p) = HmaTop
        /\ ~HmcbLast(h, p) => After(h, p) \in L /\ h[p].next = After(h, p)
    BY <2>2, RowFacts
  <2>6. CASE HmcbLast(h, p)
    <3>1. ASSUME NEW q \in L PROVE q >= p <=> q = p
      <4>1. q \in Nat /\ q < HmaTop /\ (q <= p \/ HmaTop <= q)
        BY <1>2, <2>4, <2>5, <2>6
      <4>2. QED
        BY <1>1, <2>2, <4>1
    <3>2. From(p) = {p}
      BY <2>2, <3>1
    <3>3. QED
      BY <2>1, <2>3, <2>6, <3>2 DEF Goes
  <2>7. CASE ~HmcbLast(h, p)
    <3> DEFINE n == After(h, p)
    <3>1. n \in L /\ h[p].next = n /\ ~(n <= p) /\ n \in Nat
      BY <2>2, <2>5, <2>7
    <3>2. n \notin Wrong
      BY <2>1, <3>1
    <3>3. Chain(h, n) = From(n)
      BY <3>1, <3>2
    <3>4. From(p) = {p} \cup From(n)
      <4>1. ASSUME NEW q \in L PROVE q >= p <=> q = p \/ q >= n
        <5>1. q \in Nat /\ (q <= p \/ n <= q)
          BY <1>2, <2>4
        <5> HIDE DEF n
        <5>2. QED
          BY <2>2, <3>1, <5>1
      <4> HIDE DEF n
      <4>2. QED
        BY <2>2, <4>1
    <3>5. Chain(h, p) = From(p)
      BY <2>3, <2>5, <2>7, <3>1, <3>3, <3>4 DEF Goes
    <3>6. QED
      BY <2>1, <3>5
  <2>8. QED
    BY <2>6, <2>7
<1>4. Chain(h, FIRST_MCB) = From(FIRST_MCB)
  BY <1>1, <1>3
<1>5. From(FIRST_MCB) = L
  BY <1>2 DEF FIRST_MCB
<1>6. QED
  BY <1>4, <1>5

(* The chain has one last header.                                          *)
LEMMA LastIn ==
    ASSUME NEW h, NEW L, Row(h, L)
    PROVE  LastHmcb(h) \in L
<1>1. L \subseteq HmaPara /\ L # {}
  BY RowFacts DEF Row
<1>2. PICK x \in L : \A y \in L : y <= x
  BY <1>1, HighestOf
<1>3. HmcbLast(h, x)
  <2>1. ~HmcbLast(h, x) => After(h, x) \in L
    BY RowFacts
  <2>2. x < After(h, x) /\ x \in Nat /\ After(h, x) \in Nat
    BY RowFacts
  <2>3. QED
    BY <1>2, <2>1, <2>2
<1>4. Chain(h, FIRST_MCB) = L
  BY ChainIs
<1>5. QED
  BY <1>3, <1>4 DEF LastHmcb

(***************************************************************************)
(* The specification.                                                      *)
(***************************************************************************)
(* What stays true: until the area is claimed there is no header in it,    *)
(* and from then on its headers are a row.  The row is named apart from    *)
(* the chain: that the chain is that row is what ChainIs says.             *)
NoHeads(h) == h = [p \in HmaPara |-> NoHmcb]
InRow(h)   == \E L : Row(h, L)
HmaInv ==
    /\ HMAclaimed \in BOOLEAN
    /\ HMAclaimed => InRow(hmcb)
    /\ ~HMAclaimed => NoHeads(hmcb)
    /\ running \in Seq(Psp) /\ running # <<>>

(* The first headers are a row.                                            *)
LEMMA FirstRow ==
    ASSUME NEW off \in 1 .. HmaTop - 1, off # 2
    PROVE  Row(HMAInitFirstMcb(off), {FIRST_MCB, off})
<1> DEFINE h == HMAInitFirstMcb(off)
           L == {FIRST_MCB, off}
           u == [owner |-> FREE, size |-> HmaTop - off - 1, next |-> 0]
           v == [owner |-> MSDOS, size |-> off - 2, next |-> off]
<1>1. HmaTop \in Nat /\ HmaTop > 4 /\ off \in Nat /\ off < HmaTop /\ FIRST_MCB = 1 /\ off >= 1
  BY HmaAssumption DEF FIRST_MCB
<1>2. off \in HmaPara /\ FIRST_MCB \in HmaPara /\ L \subseteq 1 .. HmaTop - 1 /\ 0 \in HmaPara
  BY <1>1 DEF HmaPara
<1>3. HmaTop - off - 1 \in Nat
  BY <1>1
<1>4. u \in Hdr /\ NoHmcb \in Hdr /\ (off > 2 => v \in Hdr)
  <2>1. 0 \in Int /\ -1 \in Int /\ 0 \in Nat /\ off \in Int
    BY <1>1
  <2>2. off > 2 => off - 2 \in Nat
    BY <1>1
  <2>3. QED
    BY <1>3, <2>1, <2>2 DEF Hdr, NoHmcb
<1>5. u.next = 0 /\ u.size = HmaTop - off - 1 /\ u.owner = FREE /\ v.next = off /\ v.size = off - 2
  OBVIOUS
<1>6. NoHmcb.next = -1 /\ NoHmcb.owner = FREE
  BY DEF NoHmcb
<1> HIDE DEF u, v
<1>7. /\ h[off] = u
      /\ off > 2 => h[FIRST_MCB] = v
      /\ \A p \in HmaPara \ L : h[p] = NoHmcb
  BY <1>1, <1>2 DEF HMAInitFirstMcb, u, v
<1>8. off = 1 \/ off > 2
  BY <1>1
<1>9. h \in Heads
  <2>1. ASSUME NEW p \in HmaPara
        PROVE  h[p] \in Hdr
    <3>1. p = off \/ (p = FIRST_MCB /\ off > 2) \/ p \in HmaPara \ L
      BY <1>1, <1>8
    <3>2. QED
      BY <1>4, <1>7, <3>1
  <2>2. h = [p \in HmaPara |-> h[p]]
    BY DEF HMAInitFirstMcb
  <2> HIDE DEF h
  <2>3. QED
    BY <2>1, <2>2 DEF Heads
<1> HIDE DEF h
<1>10. After(h, off) = HmaTop /\ h[off].next = 0 /\ HmcbValid(h, off)
  <2>1. After(h, off) = HmaTop
    BY <1>1, <1>5, <1>7 DEF After
  <2>2. u.next # NoHmcb.next
    BY <1>5, <1>6
  <2>3. QED
    BY <1>5, <1>7, <2>1, <2>2 DEF HmcbValid
<1>11. off > 2 => After(h, FIRST_MCB) = off /\ h[FIRST_MCB].next = off /\ HmcbValid(h, FIRST_MCB)
  <2>1. off > 2 => After(h, FIRST_MCB) = off
    BY <1>1, <1>5, <1>7 DEF After
  <2>2. v.next # NoHmcb.next
    BY <1>1, <1>5, <1>6
  <2>3. QED
    BY <1>5, <1>7, <2>1, <2>2 DEF HmcbValid
<1>12. \A p \in L : p = off \/ (p = FIRST_MCB /\ off > 2)
  BY <1>1, <1>8
<1>13. \A p \in L : Leads(h, L, p)
  BY <1>10, <1>11, <1>12 DEF Leads
<1>14. Links(h)
  <2>1. ASSUME NEW p \in HmaPara, HmcbValid(h, p)
        PROVE  h[p].next \in HmaPara
    <3>1. p \in L
      BY <1>7, <2>1 DEF HmcbValid
    <3>2. QED
      BY <1>2, <1>10, <1>11, <1>12, <3>1
  <2>2. QED
    BY <2>1 DEF Links
<1>15. Apart(h, L)
  <2>1. ASSUME NEW p \in L, NEW q \in L
        PROVE  q <= p \/ After(h, p) <= q
    <3>1. CASE p = off
      BY <1>1, <3>1
    <3>2. CASE p = FIRST_MCB /\ off > 2
      BY <1>1, <1>11, <3>2
    <3>3. QED
      BY <1>12, <3>1, <3>2
  <2>2. QED
    BY <2>1 DEF Apart
<1>16. NoClaim(h, L)
  BY <1>6, <1>7 DEF NoClaim, HmcbFree
<1>17. FIRST_MCB \in L
  OBVIOUS
<1> HIDE DEF L
<1>18. Row(h, L)
  BY <1>2, <1>9, <1>13, <1>14, <1>15, <1>16, <1>17 DEF Row
<1>19. QED
  BY <1>18 DEF h, L

(* What a program finds when it claims the area is a row.                  *)
LEMMA ClaimedRow ==
    ASSUME HmaInv
    PROVE  /\ InRow(Claimed)
           /\ HMAclaimed => Claimed = hmcb
<1>1. CASE HMAclaimed
  BY <1>1 DEF HmaInv, Claimed
<1>2. CASE ~HMAclaimed
  <2>1. 1 \in 1 .. HmaTop - 1
    BY HmaAssumption
  <2>2. Row(HMAInitFirstMcb(1), {FIRST_MCB, 1})
    BY <2>1, FirstRow
  <2>3. Claimed = HMAInitFirstMcb(1)
    BY <1>2 DEF Claimed, FIRST_MCB
  <2>4. QED
    BY <1>2, <2>2, <2>3 DEF InRow
<1>3. QED
  BY <1>1, <1>2 DEF HmaInv

(* The process that runs is one.                                           *)
LEMMA RunsOne ==
    ASSUME HmaInv
    PROVE  cu_psp \in Psp
<1>1. Len(running) \in 1 .. Len(running) /\ running \in Seq(Psp)
  BY EmptySeq, LenProperties DEF HmaInv
<1>2. running[Len(running)] \in Psp
  BY <1>1, ElementOfSeq
<1>3. QED
  BY <1>2 DEF cu_psp, Last

(* The blocks of an area that has been claimed are a row.                  *)
LEMMA BlocksRow ==
    ASSUME HmaInv, HMAclaimed
    PROVE  Row(hmcb, HmaBlocks)
<1>1. PICK L : Row(hmcb, L)
  BY DEF HmaInv, InRow
<1>2. Chain(hmcb, FIRST_MCB) = L
  BY <1>1, ChainIs
<1>3. QED
  BY <1>1, <1>2 DEF HmaBlocks

(* Before the area is claimed there is no block in use.                    *)
LEMMA NoBlocks ==
    ASSUME HmaInv, ~HMAclaimed, NEW p \in HmaBlocks
    PROVE  HmcbFree(hmcb, p)
<1>1. hmcb = [x \in HmaPara |-> NoHmcb]
  BY DEF HmaInv, NoHeads
<1>2. Links(hmcb) /\ ~Goes(hmcb, FIRST_MCB) /\ FIRST_MCB \in HmaPara
  <2>1. FIRST_MCB \in HmaPara
    BY HmaAssumption DEF FIRST_MCB, HmaPara
  <2>2. QED
    BY <1>1, <2>1 DEF Links, Goes, HmcbValid
<1>3. Chain(hmcb, FIRST_MCB) = {FIRST_MCB}
  BY <1>2, ChainStep
<1>4. p = FIRST_MCB
  BY <1>3 DEF HmaBlocks
<1>5. QED
  BY <1>1, <1>2, <1>4 DEF HmcbFree, NoHmcb

(* A block that is kept changes no more than its link.                     *)
LEMMA Stays ==
    ASSUME NEW h, NEW L, Row(h, L), NEW g, NEW M, Row(g, M), NEW S, S \subseteq L, Keeps(h, g, M, S), NEW p \in S
    PROVE  g[p] = [h[p] EXCEPT !.next = g[p].next]
<1>1. p \in L /\ p \in M /\ g[p].owner = h[p].owner /\ g[p].size = h[p].size
  BY DEF Keeps
<1>2. h[p] \in Hdr /\ g[p] \in Hdr
  BY <1>1, RowFacts
<1>3. QED
  BY <1>1, <1>2 DEF Hdr

(* The block p stays as it is, or is freed by a call or with its process.  *)
Stay(p)   == hmcb'[p] = [hmcb[p] EXCEPT !.next = hmcb'[p].next]
Freed(p)  == HmcbFree(hmcb', p) /\ (running' = running \/ hmcb[p].owner = cu_psp)
AllStay   == \A p \in HmaBlocks : ~HmcbFree(hmcb, p) /\ hmcb[p].size > 0 => Stay(p) \/ Freed(p)

(* A step that keeps the blocks in use, or those that hold anything.       *)
LEMMA KeptStay ==
    ASSUME HmaInv, HMAclaimed, NEW h, NEW L, NEW g, NEW M, h = hmcb, L = HmaBlocks, g = hmcb',
           Row(g, M), Keeps(h, g, M, Filled(h, L))
    PROVE  AllStay
<1>1. Row(h, L)
  BY BlocksRow
<1>2. Filled(h, L) \subseteq L
  BY DEF Filled, InUse
<1>3. ASSUME NEW p \in L, ~HmcbFree(h, p), h[p].size > 0
      PROVE  g[p] = [h[p] EXCEPT !.next = g[p].next]
  <2>1. p \in Filled(h, L)
    BY <1>3 DEF Filled, InUse
  <2>2. QED
    BY <1>1, <1>2, <2>1, Stays
<1>4. ASSUME NEW p \in HmaBlocks, ~HmcbFree(hmcb, p), hmcb[p].size > 0
      PROVE  Stay(p)
  BY <1>3, <1>4 DEF Stay
<1>5. QED
  BY <1>4 DEF AllStay

(* All stay until the area is claimed.                                     *)
LEMMA UnclaimedStay ==
    ASSUME HmaInv, ~HMAclaimed
    PROVE  AllStay
BY NoBlocks DEF AllStay

(* A row that has all that is in use, as what follows.                     *)
LEMMA GrownStays ==
    ASSUME HmaInv, NEW h, NEW L, Row(h, L), HMAclaimed => h = hmcb, NEW M, NEW g, g = hmcb', Grown(h, L, g, M)
    PROVE  AllStay /\ InRow(hmcb')
<1>1. Row(g, M) /\ Keeps(h, g, M, InUse(h, L))
  BY DEF Grown
<1>2. CASE HMAclaimed
  <2>1. L = HmaBlocks
    <3>1. Chain(h, FIRST_MCB) = L
      BY ChainIs
    <3>2. QED
      BY <1>2, <3>1 DEF HmaBlocks
  <2>2. Keeps(h, g, M, Filled(h, L))
    BY <1>1 DEF Keeps, Filled
  <2>3. AllStay
    BY <1>1, <1>2, <2>1, <2>2, KeptStay
  <2>4. QED
    BY <1>1, <2>3 DEF InRow
<1>3. CASE ~HMAclaimed
  BY <1>1, <1>3, UnclaimedStay DEF InRow
<1>4. QED
  BY <1>2, <1>3 DEF HmaInv

(* INT 2Fh/4A02h.                                                          *)
LEMMA AllocSpaceStep ==
    ASSUME HmaInv, NEW n \in HmaSizes, AllocHmaSpace(n)
    PROVE  AllStay /\ InRow(hmcb')
<1> DEFINE avail == hmcb[LastHmcb(hmcb)].size
           asked == IF n > avail THEN avail ELSE n
           g     == DosHMAAlloc(hmcb, asked, FALSE, cu_psp)
<1>1. HMAclaimed /\ hmcb' = g
  BY DEF AllocHmaSpace
<1>2. Row(hmcb, HmaBlocks)
  BY <1>1, BlocksRow
<1>3. asked \in Nat
  <2>1. LastHmcb(hmcb) \in HmaBlocks
    BY <1>2, LastIn
  <2>2. avail \in Nat
    BY <1>2, <2>1, RowFacts
  <2>3. n \in Nat
    BY HmaAssumption
  <2>4. QED
    BY <2>2, <2>3
<1>4. cu_psp \in Psp
  BY RunsOne
<1> HIDE DEF asked
<1>5. \E M : Grown(hmcb, HmaBlocks, g, M)
  BY <1>2, <1>3, <1>4, AllocRow
<1> HIDE DEF g
<1>6. PICK M : Grown(hmcb, HmaBlocks, g, M)
  BY <1>5
<1>7. QED
  BY <1>1, <1>2, <1>6, GrownStays

(* INT 2Fh/4A03h that allocates.                                           *)
LEMMA AllocStep ==
    ASSUME HmaInv, NEW n \in HmaSizes, NEW topdown \in BOOLEAN, AllocHma(n, topdown)
    PROVE  AllStay /\ InRow(hmcb')
<1> DEFINE g == DosHMAAlloc(Claimed, n, topdown, cu_psp)
<1>1. hmcb' = g
  BY DEF AllocHma
<1>2. PICK L : Row(Claimed, L)
  BY ClaimedRow DEF InRow
<1>3. HMAclaimed => Claimed = hmcb
  BY ClaimedRow
<1>4. cu_psp \in Psp /\ n \in Nat
  BY RunsOne, HmaAssumption
<1>5. \E M : Grown(Claimed, L, g, M)
  BY <1>2, <1>4, AllocRow
<1> HIDE DEF g
<1>6. PICK M : Grown(Claimed, L, g, M)
  BY <1>5
<1>7. QED
  BY <1>1, <1>2, <1>3, <1>6, GrownStays

(* INT 2Fh/4A03h that frees.                                               *)
LEMMA FreeStep ==
    ASSUME HmaInv, NEW p \in HmaPara, FreeHma(p)
    PROVE  AllStay /\ InRow(hmcb')
<1> DEFINE g == DosHMAFree(Claimed, p + 1)
<1>1. hmcb' = g /\ running' = running
  BY DEF FreeHma
<1>2. PICK L : Row(Claimed, L)
  BY ClaimedRow DEF InRow
<1>3. HMAclaimed => Claimed = hmcb
  BY ClaimedRow
<1>4. \E M : /\ Row(g, M) /\ Keeps(Claimed, g, M, InUse(Claimed, L) \ {p})
             /\ p \in InUse(Claimed, L) => HmcbFree(g, p)
  BY <1>2, FreeRow
<1> HIDE DEF g
<1>5. PICK M : /\ Row(g, M) /\ Keeps(Claimed, g, M, InUse(Claimed, L) \ {p})
               /\ p \in InUse(Claimed, L) => HmcbFree(g, p)
  BY <1>4
<1>6. InRow(hmcb')
  BY <1>1, <1>5 DEF InRow
<1>7. CASE HMAclaimed
  <2>1. Row(hmcb, L) /\ Claimed = hmcb
    BY <1>2, <1>3, <1>7
  <2>2. L = HmaBlocks
    <3>1. Chain(hmcb, FIRST_MCB) = L
      BY <2>1, ChainIs
    <3>2. QED
      BY <3>1 DEF HmaBlocks
  <2>3. ASSUME NEW q \in HmaBlocks, ~HmcbFree(hmcb, q)
        PROVE  Stay(q) \/ Freed(q)
    <3>1. q \in InUse(hmcb, L)
      BY <2>2, <2>3 DEF InUse
    <3>2. CASE q = p
      <4>1. HmcbFree(g, p)
        BY <1>5, <2>1, <3>1, <3>2
      <4>2. QED
        BY <1>1, <3>2, <4>1 DEF Freed
    <3>3. CASE q # p
      <4>1. q \in InUse(hmcb, L) \ {p} /\ InUse(hmcb, L) \ {p} \subseteq L
        BY <3>1, <3>3 DEF InUse
      <4>2. g[q] = [hmcb[q] EXCEPT !.next = g[q].next]
        BY <1>5, <2>1, <4>1, Stays
      <4>3. QED
        BY <1>1, <4>2 DEF Stay
    <3>4. QED
      BY <3>2, <3>3
  <2>4. AllStay
    BY <2>3 DEF AllStay
  <2>5. QED
    BY <1>6, <2>4
<1>8. CASE ~HMAclaimed
  BY <1>6, <1>8, UnclaimedStay
<1>9. QED
  BY <1>7, <1>8 DEF HmaInv

(* INT 2Fh/4A04h.                                                          *)
LEMMA ChainStartStep ==
    ASSUME HmaInv, HmaChainStart
    PROVE  AllStay /\ InRow(hmcb')
<1>1. hmcb' = Claimed
  BY DEF HmaChainStart
<1>2. PICK L : Row(Claimed, L)
  BY ClaimedRow DEF InRow
<1>3. HMAclaimed => Claimed = hmcb
  BY ClaimedRow
<1>4. Grown(Claimed, L, Claimed, L)
  BY <1>2 DEF Grown, Keeps, InUse
<1>5. QED
  BY <1>1, <1>2, <1>3, <1>4, GrownStays

(* A step that leaves the area as it is.                                   *)
LEMMA SameStep ==
    ASSUME HmaInv, hmcb' = hmcb
    PROVE  AllStay /\ (HMAclaimed => InRow(hmcb'))
<1>1. CASE HMAclaimed
  <2>1. Row(hmcb, HmaBlocks)
    BY <1>1, BlocksRow
  <2>2. Grown(hmcb, HmaBlocks, hmcb, HmaBlocks)
    BY <2>1 DEF Grown, Keeps, InUse
  <2>3. QED
    BY <2>1, <2>2, GrownStays
<1>2. CASE ~HMAclaimed
  BY <1>2, UnclaimedStay
<1>3. QED
  BY <1>1, <1>2 DEF HmaInv

(* The end of a process.                                                   *)
LEMMA EndStep ==
    ASSUME HmaInv, NEW tsr \in BOOLEAN, EndProcess(tsr)
    PROVE  AllStay /\ (HMAclaimed => InRow(hmcb'))
<1>1. CASE HMAclaimed /\ ~tsr
  <2> DEFINE g == FreeProcessHMA(hmcb, cu_psp)
  <2>1. hmcb' = g
    BY <1>1 DEF EndProcess
  <2>2. Row(hmcb, HmaBlocks) /\ cu_psp \in Psp
    BY <1>1, BlocksRow, RunsOne
  <2>3. \E M : Tidied(hmcb, HmaBlocks, g, M)
    BY <2>2, FreeProcessRow
  <2> HIDE DEF g
  <2>4. PICK M : Tidied(hmcb, HmaBlocks, g, M)
    BY <2>3
  <2>5. Row(g, M) /\ Keeps(hmcb, g, M, Filled(hmcb, HmaBlocks))
    BY <2>4 DEF Tidied
  <2>6. AllStay
    BY <1>1, <2>1, <2>5, KeptStay
  <2>7. QED
    BY <2>1, <2>5, <2>6 DEF InRow
<1>2. CASE ~(HMAclaimed /\ ~tsr)
  <2>1. hmcb' = hmcb
    BY <1>2 DEF EndProcess
  <2>2. QED
    BY <2>1, SameStep
<1>3. QED
  BY <1>1, <1>2

(* What runs is a sequence of processes, the shell at its start.           *)
LEMMA RunStep ==
    ASSUME HmaInv, HmaNext
    PROVE  running' \in Seq(Psp) /\ running' # <<>>
<1>1. running \in Seq(Psp) /\ running # <<>>
  BY DEF HmaInv
<1>2. ASSUME NEW ps \in Psp, StartProcess(ps)
      PROVE  running' \in Seq(Psp) /\ running' # <<>>
  BY <1>1, <1>2, AppendProperties DEF StartProcess
<1>3. ASSUME NEW tsr \in BOOLEAN, EndProcess(tsr)
      PROVE  running' \in Seq(Psp) /\ running' # <<>>
  <2> DEFINE t == SubSeq(running, 1, Len(running) - 1)
  <2>1. running' = t /\ Len(running) > 1 /\ Len(running) \in Nat
    BY <1>1, <1>3, LenProperties DEF EndProcess, Front
  <2>2. 1 \in Int /\ Len(running) - 1 \in Int /\ 1 <= Len(running) - 1
        /\ \A i \in 1 .. Len(running) - 1 : running[i] \in Psp
    <3>1. \A i \in 1 .. Len(running) : running[i] \in Psp
      BY <1>1, ElementOfSeq
    <3>2. QED
      BY <2>1, <3>1
  <2>3. t \in Seq(Psp) /\ Len(t) = (Len(running) - 1) - 1 + 1
    <3>1. t \in Seq(Psp)
      BY <2>2, SubSeqProperties
    <3>2. Len(t) = IF 1 <= Len(running) - 1 THEN (Len(running) - 1) - 1 + 1 ELSE 0
      BY <2>2, SubSeqProperties
    <3>3. QED
      BY <2>2, <3>1, <3>2
  <2> HIDE DEF t
  <2>4. t # <<>>
    <3>1. t = <<>> => Len(t) = 0
      BY <2>3, EmptySeq
    <3>2. QED
      BY <2>1, <2>3, <3>1
  <2>5. QED
    BY <2>1, <2>3, <2>4
<1>4. CASE running' = running
  BY <1>1, <1>4
<1>5. QED
  BY <1>2, <1>3, <1>4 DEF HmaNext, AllocHmaSpace, AllocHma, FreeHma, HmaChainStart

(* The rows stay rows, and the blocks in use stay.                         *)
LEMMA HmaStep ==
    ASSUME HmaInv, [HmaNext]_hmaVars
    PROVE  HmaInv' /\ (HmaNext => AllStay)
<1>1. ASSUME NEW n \in HmaSizes, AllocHmaSpace(n)
      PROVE  AllStay /\ InRow(hmcb') /\ HMAclaimed' = TRUE
  BY <1>1, AllocSpaceStep DEF AllocHmaSpace, HmaInv
<1>2. ASSUME NEW n \in HmaSizes, NEW topdown \in BOOLEAN, AllocHma(n, topdown)
      PROVE  AllStay /\ InRow(hmcb') /\ HMAclaimed' = TRUE
  BY <1>2, AllocStep DEF AllocHma
<1>3. ASSUME NEW p \in HmaPara, FreeHma(p)
      PROVE  AllStay /\ InRow(hmcb') /\ HMAclaimed' = TRUE
  BY <1>3, FreeStep DEF FreeHma
<1>4. ASSUME HmaChainStart
      PROVE  AllStay /\ InRow(hmcb') /\ HMAclaimed' = TRUE
  BY <1>4, ChainStartStep DEF HmaChainStart
<1>5. ASSUME NEW ps \in Psp, StartProcess(ps)
      PROVE  AllStay /\ (HMAclaimed => InRow(hmcb')) /\ hmcb' = hmcb /\ HMAclaimed' = HMAclaimed
  BY <1>5, SameStep DEF StartProcess
<1>6. ASSUME NEW tsr \in BOOLEAN, EndProcess(tsr)
      PROVE  AllStay /\ (HMAclaimed => InRow(hmcb')) /\ (~HMAclaimed => hmcb' = hmcb) /\ HMAclaimed' = HMAclaimed
  BY <1>6, EndStep DEF EndProcess
<1>7. CASE UNCHANGED hmaVars
  <2>1. HmaInv'
    BY <1>7 DEF HmaInv, hmaVars, InRow, NoHeads
  <2>2. hmcb' = hmcb
    BY <1>7 DEF hmaVars
  <2>3. QED
    BY <2>1, <2>2, SameStep
<1>8. CASE HmaNext
  <2>1. AllStay
    BY <1>1, <1>2, <1>3, <1>4, <1>5, <1>6, <1>8 DEF HmaNext
  <2>2. \/ InRow(hmcb') /\ HMAclaimed' = TRUE
        \/ /\ HMAclaimed => InRow(hmcb')
           /\ ~HMAclaimed => hmcb' = hmcb
           /\ HMAclaimed' = HMAclaimed
    BY <1>1, <1>2, <1>3, <1>4, <1>5, <1>6, <1>8 DEF HmaNext
  <2>3. HMAclaimed \in BOOLEAN /\ (~HMAclaimed => NoHeads(hmcb))
    BY DEF HmaInv
  <2>4. HMAclaimed' \in BOOLEAN /\ (HMAclaimed' => InRow(hmcb')) /\ (~HMAclaimed' => NoHeads(hmcb'))
    <3>1. CASE InRow(hmcb') /\ HMAclaimed' = TRUE
      BY <3>1
    <3>2. CASE ~(InRow(hmcb') /\ HMAclaimed' = TRUE)
      <4>1. (HMAclaimed => InRow(hmcb')) /\ (~HMAclaimed => NoHeads(hmcb')) /\ HMAclaimed' = HMAclaimed
        BY <2>2, <2>3, <3>2 DEF NoHeads
      <4> HIDE DEF NoHeads, InRow
      <4>2. QED
        BY <2>3, <4>1
    <3>3. QED
      BY <3>1, <3>2
  <2>5. HmaInv'
    BY <1>8, <2>4, RunStep DEF HmaInv, InRow, NoHeads
  <2>6. QED
    BY <2>1, <2>5
<1>9. QED
  BY <1>7, <1>8

(* At the start the area is not claimed, or is a row with the kernel in it. *)
LEMMA HmaStarts ==
    ASSUME HmaInit
    PROVE  HmaInv
<1>1. running = <<Shell>> /\ Shell \in Psp
  BY HmaAssumption DEF HmaInit
<1>2. running \in Seq(Psp) /\ running # <<>>
  BY <1>1
<1>3. CASE HMAclaimed = FALSE /\ hmcb = [p \in HmaPara |-> NoHmcb]
  BY <1>2, <1>3 DEF HmaInv, NoHeads
<1>4. CASE HMAclaimed = TRUE /\ \E off \in HmaFree : hmcb = HMAInitFirstMcb(off)
  <2>1. PICK off \in HmaFree : hmcb = HMAInitFirstMcb(off)
    BY <1>4
  <2>2. off \in 1 .. HmaTop - 1 /\ off # 2
    BY HmaAssumption
  <2>3. InRow(hmcb)
    BY <2>1, <2>2, FirstRow DEF InRow
  <2>4. QED
    BY <1>2, <1>4, <2>3 DEF HmaInv
<1>5. QED
  BY <1>3, <1>4 DEF HmaInit

(* The invariant of the high memory area.                                  *)
THEOREM HmaInvHolds == HmaSpec => []HmaInv
<1>1. HmaInit => HmaInv
  BY HmaStarts
<1>2. HmaInv /\ [HmaNext]_hmaVars => HmaInv'
  BY HmaStep
<1>3. QED
  BY <1>1, <1>2, PTL DEF HmaSpec

(* The headers of the area cover it, whatever was allocated at either end, *)
(* freed in any order, joined and cut.                                     *)
THEOREM HmaIsCovered == HmaSpec => []HmaChainWhole
<1>1. HmaInv => HmaChainWhole
  <2>1. SUFFICES ASSUME HmaInv, HMAclaimed, NEW p \in HmaBlocks
                 PROVE  /\ HmcbValid(hmcb, p)
                        /\ p + hmcb[p].size + 1 = (IF HmcbLast(hmcb, p) THEN HmaTop ELSE hmcb[p].next)
    BY DEF HmaChainWhole
  <2>2. Row(hmcb, HmaBlocks)
    BY <2>1, BlocksRow
  <2>3. /\ HmcbValid(hmcb, p)
        /\ HmcbLast(hmcb, p) <=> After(hmcb, p) = HmaTop
        /\ ~HmcbLast(hmcb, p) => hmcb[p].next = After(hmcb, p)
    BY <2>2, RowFacts
  <2>4. QED
    BY <2>3 DEF After
<1>2. QED
  BY <1>1, HmaInvHolds, PTL

(* A block that holds anything stays its owner's, as large as it was, until *)
(* it is freed, and the end of a process frees none of another.            *)
THEOREM HmaIsKept == HmaSpec => HmaBlocksKept
<1> DEFINE Kept == \A p \in HmaBlocks : ~HmcbFree(hmcb, p) /\ hmcb[p].size > 0 =>
                      \/ hmcb'[p] = [hmcb[p] EXCEPT !.next = hmcb'[p].next]
                      \/ HmcbFree(hmcb', p) /\ (running' = running \/ hmcb[p].owner = cu_psp)
<1>1. HmaInv /\ [HmaNext]_hmaVars => [Kept]_hmaVars
  <2>1. AllStay => Kept
    BY DEF AllStay, Stay, Freed
  <2> HIDE DEF Kept
  <2>2. QED
    BY <2>1, HmaStep
<1>2. (HmaSpec => []HmaInv) => (HmaSpec => [][Kept]_hmaVars)
  BY <1>1, PTL DEF HmaSpec
<1>3. QED
  BY <1>2, HmaInvHolds, PTL DEF HmaBlocksKept

=============================================================================
