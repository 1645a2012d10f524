------------------------------ MODULE MemProofs ------------------------------
(***************************************************************************)
(* Theorems about the memory control blocks, for memory of every size and  *)
(* programs that ask for blocks of every size: the chain stays whole, no   *)
(* block is left without an owner, a process that waits for its child      *)
(* finds its memory as it left it, and the largest block that is reported  *)
(* can be had.                                                             *)
(*                                                                         *)
(* The operators of MemMgr take the headers as a function m and give a new *)
(* one back; the lemmas are about such functions, one per operator.        *)
(***************************************************************************)
EXTENDS MemMgr, SequenceTheorems, WellFoundedInduction, TLAPS

Mcb      == [type: {"none", "normal", "last"}, psp: Int, size: Nat]
Valid(m) == {p \in Para : mcbValid(m, p)}

(* The valid headers cover all of memory, one block after the other: so    *)
(* no header that was joined to another, or never was one, is valid.  The  *)
(* chain ends at the top, and before uppermem_root while the upper memory  *)
(* is not linked in; uppermem_root is never free.                          *)
NextIsOne(m, p)   == nxtMCB(m, p) \in Valid(m) \cup {Top}
NoneBetween(m, p) == \A q \in Valid(m) : q <= p \/ nxtMCB(m, p) <= q
EndIsLast(m, link, p) ==
    m[p].type = "last" <=> nxtMCB(m, p) = Top \/ (nxtMCB(m, p) = UpperRoot /\ ~link)

Tiled(m, link) ==
    /\ m \in [Para -> Mcb] /\ link \in BOOLEAN
    /\ First \in Valid(m) /\ UpperRoot \in Valid(m) /\ m[UpperRoot].psp = SYSTEM
    /\ \A p \in Valid(m) : NextIsOne(m, p) /\ NoneBetween(m, p) /\ EndIsLast(m, link, p)

(***************************************************************************)
(* Sets of paragraphs.                                                     *)
(***************************************************************************)
(* A set of naturals has a lowest member.                                  *)
LEMMA LowestOf ==
    ASSUME NEW S, S \subseteq Nat, S # {}
    PROVE  Lowest(S) \in S /\ \A x \in S : Lowest(S) <= x
<1> DEFINE R == {ss \in Nat \X Nat : ss[1] < ss[2]}
<1>1. IsWellFoundedOn(R, Nat)
  BY NatLessThanWellFounded DEF OpToRel
<1>2. PICK i \in S : \A j \in S : <<j, i>> \notin R
  <2> HIDE DEF R
  <2> QED  BY <1>1, WFMin
<1>3. ASSUME NEW j \in S
      PROVE  i <= j
  <2>1. <<j, i>> \in Nat \X Nat /\ <<j, i>> \notin R
    BY <1>2
  <2>2. ~(j < i)
    BY <2>1
  <2>3. QED
    BY <2>2
<1>4. QED
  BY <1>3 DEF Lowest

(* A set of naturals with an upper bound has a highest member.             *)
LEMMA HighestOf ==
    ASSUME NEW b \in Nat, NEW S, S \subseteq 0 .. b, S # {}
    PROVE  Highest(S) \in S /\ \A x \in S : x <= Highest(S)
<1> DEFINE T == {b - x : x \in S}
<1>1. T \subseteq Nat /\ T # {}
  <2>1. \A x \in S : x \in Nat /\ b - x \in Nat
    OBVIOUS
  <2>2. QED
    BY <2>1
<1>2. Lowest(T) \in T /\ \A t \in T : Lowest(T) <= t
  <2> HIDE DEF T
  <2> QED  BY <1>1, LowestOf
<1>3. PICK h \in S : Lowest(T) = b - h
  BY <1>2
<1>4. ASSUME NEW x \in S
      PROVE  x <= h
  <2>1. b - h <= b - x
    BY <1>2, <1>3
  <2>2. QED
    BY <2>1
<1>5. \A x \in S : h >= x
  BY <1>4
<1>6. QED
  BY <1>5 DEF Highest

(* The layout of memory: numbers in their order.                           *)
LEMMA Layout ==
    /\ First \in Nat \ {0} /\ UpperRoot \in Nat /\ Top \in Nat /\ Top <= 65536
    /\ First < UpperRoot /\ UpperRoot < Top
    /\ First \in Para /\ UpperRoot \in Para /\ Para \subseteq Nat /\ Para \subseteq 0 .. Top
BY LayoutAssumption DEF Para

(* Paragraphs have a highest one.                                          *)
LEMMA HighestPara ==
    ASSUME NEW S, S \subseteq 0 .. Top, S # {}
    PROVE  Highest(S) \in S /\ \A x \in S : x <= Highest(S)
<1>1. Top \in Nat
  BY Layout
<1>2. QED
  BY <1>1, HighestOf

(***************************************************************************)
(* The blocks of memory that is tiled.                                     *)
(***************************************************************************)
(* The valid headers are in memory.                                        *)
LEMMA ValidParas ==
    ASSUME NEW m
    PROVE  /\ Valid(m) \subseteq Para /\ Valid(m) \subseteq Nat /\ Valid(m) \subseteq 0 .. Top
           /\ \A p \in Valid(m) : First <= p /\ p < Top
BY Layout DEF Valid, Para

(* A valid header is one of a normal or of the last block, and its block   *)
(* ends in memory, before the next header.                                 *)
LEMMA ValidFacts ==
    ASSUME NEW m, NEW link, Tiled(m, link), NEW p \in Valid(m)
    PROVE  /\ p \in Para /\ m[p] \in Mcb /\ m[p].size \in Nat /\ m[p].type \in {"normal", "last"}
           /\ nxtMCB(m, p) \in Nat /\ p < nxtMCB(m, p) /\ nxtMCB(m, p) <= Top
           /\ nxtMCB(m, p) = p + m[p].size + 1
<1>1. p \in Para /\ m[p] \in Mcb /\ m[p].type \in {"normal", "last"}
  BY DEF Tiled, Valid, mcbValid, mcbFreeable
<1>2. m[p].size \in Nat
  BY <1>1 DEF Mcb
<1>3. nxtMCB(m, p) \in Valid(m) \cup {Top}
  BY DEF Tiled, NextIsOne
<1>4. nxtMCB(m, p) \in Para \cup {Top}
  BY <1>3 DEF Valid
<1>5. QED
  BY <1>1, <1>2, <1>4, Layout DEF nxtMCB, Para

(* What a Walk from p visits in memory that is tiled.                      *)
Reach(m, link, p) == {q \in Valid(m) : q >= p /\ (q < UpperRoot \/ link \/ p >= UpperRoot)}

(* The visits of a walk, in one step of its recursion.                     *)
LEMMA ReachStep ==
    ASSUME NEW m, NEW link, Tiled(m, link), NEW p \in Valid(m)
    PROVE  IF m[p].type = "normal"
           THEN nxtMCB(m, p) \in Valid(m) /\ Reach(m, link, p) = {p} \cup Reach(m, link, nxtMCB(m, p))
           ELSE Reach(m, link, p) = {p}
<1> DEFINE n == nxtMCB(m, p)
<1>1. /\ p \in Nat /\ n \in Nat /\ p < n /\ n <= Top /\ m[p].type \in {"normal", "last"}
      /\ \A q \in Valid(m) : q \in Nat /\ q < Top
  BY ValidFacts, ValidParas
<1>2. NextIsOne(m, p) /\ NoneBetween(m, p) /\ EndIsLast(m, link, p) /\ UpperRoot \in Valid(m) /\ link \in BOOLEAN
  BY DEF Tiled
<1>3. /\ n \in Valid(m) \cup {Top} /\ \A q \in Valid(m) : q <= p \/ n <= q
      /\ m[p].type = "last" <=> n = Top \/ (n = UpperRoot /\ ~link)
  BY <1>2 DEF NextIsOne, NoneBetween, EndIsLast
<1> HIDE DEF n
<1>4. p <= UpperRoot - 1 => n <= UpperRoot
  BY <1>1, <1>2, <1>3, Layout
<1>5. CASE m[p].type = "normal"
  <2>1. n \in Valid(m) /\ ~(n = UpperRoot /\ ~link)
    BY <1>3, <1>5
  <2>2. ASSUME NEW q \in Valid(m)
        PROVE  q \in Reach(m, link, p) <=> q = p \/ q \in Reach(m, link, n)
    <3>1. q \in Nat /\ (q >= p <=> q = p \/ q >= n)
      BY <1>1, <1>3
    <3>2. CASE p >= UpperRoot
      BY <1>1, <3>1, <3>2, Layout DEF Reach
    <3>3. CASE p < UpperRoot
      BY <1>1, <1>4, <2>1, <3>1, <3>3, Layout DEF Reach
    <3>4. QED
      BY <1>1, <3>2, <3>3, Layout
  <2>3. Reach(m, link, p) = {p} \cup Reach(m, link, n)
    BY <2>2 DEF Reach
  <2>4. QED
    BY <1>5, <2>1, <2>3 DEF n
<1>6. CASE m[p].type = "last"
  <2>1. n = Top \/ (n = UpperRoot /\ ~link)
    BY <1>3, <1>6
  <2>2. ASSUME NEW q \in Valid(m)
        PROVE  q \in Reach(m, link, p) <=> q = p
    <3>1. q \in Nat /\ q < Top /\ (q >= p <=> q = p \/ q >= n)
      BY <1>1, <1>3
    <3>2. CASE n = Top
      BY <1>1, <3>1, <3>2, <1>4, Layout DEF Reach
    <3>3. CASE n = UpperRoot /\ ~link
      BY <1>1, <3>1, <3>3, Layout DEF Reach
    <3>4. QED
      BY <2>1, <3>2, <3>3
  <2>3. Reach(m, link, p) = {p}
    BY <2>2 DEF Reach
  <2>4. QED
    BY <1>6, <2>3
<1>7. QED
  BY <1>1, <1>5, <1>6

(* The walk from a header of memory that is tiled.                         *)
LEMMA WalkIs ==
    ASSUME NEW m, NEW link, Tiled(m, link), NEW p \in Valid(m)
    PROVE  Walk(m, p) = Reach(m, link, p)
<1> DEFINE F(f) == [x \in Int |-> IF mcbValid(m, x) /\ m[x].type = "normal"
                                  THEN {x} \cup f[nxtMCB(m, x)] ELSE {x}]
           w == CHOOSE f : f = F(f)
           g == [x \in Int |-> IF x \in Valid(m) THEN Reach(m, link, x) ELSE {x}]
<1>1. \A x : mcbValid(m, x) <=> x \in Valid(m)
  BY DEF Valid, mcbValid
<1>2. \A x \in Valid(m) : x \in Int /\ nxtMCB(m, x) \in Int
  BY ValidFacts, ValidParas
<1>3. ASSUME NEW x \in Int
      PROVE  g[x] = F(g)[x]
  <2>1. CASE x \in Valid(m) /\ m[x].type = "normal"
    <3>1. nxtMCB(m, x) \in Valid(m) /\ Reach(m, link, x) = {x} \cup Reach(m, link, nxtMCB(m, x))
      BY <2>1, ReachStep
    <3>2. QED
      BY <1>1, <1>2, <2>1, <3>1
  <2>2. CASE x \in Valid(m) /\ m[x].type # "normal"
    <3>1. Reach(m, link, x) = {x}
      BY <2>2, ReachStep
    <3>2. QED
      BY <1>1, <2>2, <3>1
  <2>3. CASE x \notin Valid(m)
    BY <1>1, <2>3
  <2>4. QED
    BY <2>1, <2>2, <2>3
<1>4. g = F(g)
  BY <1>3
<1>5. w = F(w)
  <2> HIDE DEF g
  <2> QED  BY <1>4
<1>6. Walk(m, p) = w[p]
  BY DEF Walk
<1> HIDE DEF w
<1> DEFINE Wrong == {x \in Valid(m) : w[x] # Reach(m, link, x)}
<1>7. ASSUME Wrong # {}
      PROVE  FALSE
  <2> DEFINE x == Highest(Wrong)
  <2>1. Wrong \subseteq 0 .. Top
    BY ValidParas
  <2>2. x \in Wrong /\ \A y \in Wrong : y <= x
    <3> HIDE DEF Wrong
    <3> QED  BY <1>7, <2>1, HighestPara
  <2>3. x \in Valid(m) /\ x \in Int
    BY <1>2, <2>2
  <2> HIDE DEF x
  <2>4. w[x] = IF mcbValid(m, x) /\ m[x].type = "normal" THEN {x} \cup w[nxtMCB(m, x)] ELSE {x}
    BY <1>5, <2>3
  <2>5. CASE m[x].type = "normal"
    <3>1. nxtMCB(m, x) \in Valid(m) /\ Reach(m, link, x) = {x} \cup Reach(m, link, nxtMCB(m, x))
      BY <2>3, <2>5, ReachStep
    <3>2. nxtMCB(m, x) \in Int /\ x < nxtMCB(m, x)
      BY <2>3, ValidFacts
    <3>3. nxtMCB(m, x) \notin Wrong
      BY <2>2, <2>3, <3>2
    <3>4. w[nxtMCB(m, x)] = Reach(m, link, nxtMCB(m, x))
      BY <3>1, <3>3
    <3>5. QED
      BY <1>1, <2>2, <2>3, <2>4, <2>5, <3>1, <3>4
  <2>6. CASE m[x].type # "normal"
    <3>1. Reach(m, link, x) = {x}
      BY <2>3, <2>6, ReachStep
    <3>2. QED
      BY <2>2, <2>4, <2>6, <3>1
  <2>7. QED
    BY <2>5, <2>6
<1>8. QED
  BY <1>6, <1>7

(* A header other than the first follows another block.                    *)
LEMMA Before ==
    ASSUME NEW m, NEW link, Tiled(m, link), NEW q \in Valid(m), q # First
    PROVE  \E r \in Valid(m) : r < q /\ nxtMCB(m, r) = q
<1> DEFINE S == {x \in Valid(m) : x < q}
           r == Highest(S)
<1>1. First \in S /\ S \subseteq 0 .. Top
  BY ValidParas DEF Tiled
<1>2. r \in S /\ \A x \in S : x <= r
  <2> HIDE DEF S
  <2> QED  BY <1>1, HighestPara
<1>3. r \in Valid(m) /\ r < q
  BY <1>2
<1> HIDE DEF r
<1>4. nxtMCB(m, r) \in Valid(m) \cup {Top} /\ nxtMCB(m, r) <= q
  BY <1>3, ValidParas DEF Tiled, NextIsOne, NoneBetween
<1>5. nxtMCB(m, r) \in Nat /\ r < nxtMCB(m, r) /\ q \in Nat /\ q < Top
  BY <1>3, ValidFacts, ValidParas
<1>6. nxtMCB(m, r) \in Valid(m)
  BY <1>4, <1>5
<1>7. ~(nxtMCB(m, r) < q)
  <2>1. nxtMCB(m, r) < q => nxtMCB(m, r) \in S
    BY <1>6
  <2>2. QED
    BY <1>2, <1>3, <1>5, <2>1, ValidParas
<1>8. QED
  BY <1>3, <1>4, <1>5, <1>7

(* uppermem_root is a block of the system, and not free.                   *)
LEMMA RootFacts ==
    ASSUME NEW m, NEW link, Tiled(m, link)
    PROVE  UpperRoot \in Valid(m) /\ First \in Valid(m) /\ m[UpperRoot].psp # FREE_PSP
BY DEF Tiled, SYSTEM, FREE_PSP

(* The blocks joined to p: the unused ones right behind it.                *)
LEMMA JoinedFacts ==
    ASSUME NEW m, NEW link, Tiled(m, link), NEW p \in Valid(m)
    PROVE  /\ \A q \in Joined(m, p) : q \in Valid(m) /\ q > p /\ m[q].psp = FREE_PSP
           /\ \A q \in Joined(m, p), x \in Valid(m) : p < x /\ x <= q => x \in Joined(m, p)
           /\ UpperRoot \notin Joined(m, p) /\ First \notin Joined(m, p)
<1>1. Walk(m, p) = Reach(m, link, p)
  BY WalkIs
<1>2. \A x \in Valid(m) : mcbValid(m, x) /\ x \in Nat
  BY ValidParas DEF Valid
<1>3. ASSUME NEW q \in Joined(m, p)
      PROVE  q \in Valid(m) /\ q > p /\ m[q].psp = FREE_PSP
  <2>1. q \in Reach(m, link, p) /\ q # p /\ (q <= q => m[q].psp = FREE_PSP)
    BY <1>1 DEF Joined, mcbFree
  <2>2. QED
    BY <1>2, <2>1 DEF Reach
<1>4. ASSUME NEW q \in Joined(m, p), NEW x \in Valid(m), p < x, x <= q
      PROVE  x \in Joined(m, p)
  <2>1. q \in Reach(m, link, p) /\ q # p
    BY <1>1 DEF Joined
  <2>2. x \in Reach(m, link, p) /\ x # p
    BY <1>2, <1>4, <2>1, Layout DEF Reach
  <2>3. ASSUME NEW y \in Walk(m, p) \ {p}, y <= x
        PROVE  mcbValid(m, y) /\ mcbFree(m, y)
    <3>1. y \in Nat
      BY <1>1, <1>2 DEF Reach
    <3>2. y <= q
      BY <1>2, <1>3, <1>4, <2>3, <3>1
    <3>3. QED
      BY <3>2 DEF Joined
  <2>4. QED
    BY <1>1, <2>2, <2>3 DEF Joined
<1>5. First \notin Joined(m, p) /\ UpperRoot \notin Joined(m, p)
  BY <1>3, RootFacts, ValidParas, Layout
<1>6. QED
  BY <1>3, <1>4, <1>5

(* The last block joined to p.                                             *)
LastJoined(m, p) == Highest(Joined(m, p) \cup {p})

(* The last block joined to p lies behind p and all the others.            *)
LEMMA LastJoinedFacts ==
    ASSUME NEW m, NEW link, Tiled(m, link), NEW p \in Valid(m)
    PROVE  LET l == LastJoined(m, p)
           IN  /\ l \in Valid(m) /\ p <= l /\ (l = p \/ l \in Joined(m, p))
               /\ \A q \in Joined(m, p) : q <= l
<1>1. Joined(m, p) \subseteq Valid(m) /\ \A q \in Joined(m, p) : q > p
  BY JoinedFacts
<1>2. Joined(m, p) \cup {p} \subseteq 0 .. Top
  BY <1>1, ValidParas
<1>3. LastJoined(m, p) \in Joined(m, p) \cup {p} /\ \A x \in Joined(m, p) \cup {p} : x <= LastJoined(m, p)
  BY <1>2, HighestPara DEF LastJoined
<1>4. QED
  BY <1>1, <1>3

(* Working a table out leaves it what it is.                               *)
LEMMA ComputedIs == \A m : Computed(m) = m
BY DEF Computed

(***************************************************************************)
(* joinMCBs.                                                               *)
(***************************************************************************)
(* Headers none of which is joined to another.                             *)
Apart(m, P) == P \subseteq Valid(m) /\ \A p, q \in P : q \notin Joined(m, p)
AllJoined(m, P) == UNION {Joined(m, p) : p \in P}

(* The headers after a join, one by one.                                   *)
LEMMA JoinValues ==
    ASSUME NEW m, NEW link, Tiled(m, link), NEW P, Apart(m, P)
    PROVE  LET j == joinMCBs(m, P)
           IN  /\ DOMAIN j = Para /\ AllJoined(m, P) \subseteq Valid(m) /\ P \cap AllJoined(m, P) = {}
               /\ \A p \in P : j[p] = [type |-> m[LastJoined(m, p)].type, psp |-> m[p].psp,
                                       size |-> nxtMCB(m, LastJoined(m, p)) - p - 1]
               /\ \A q \in AllJoined(m, P) : j[q] = [m[q] EXCEPT !.size = FAKE]
               /\ \A x \in Para \ (P \cup AllJoined(m, P)) : j[x] = m[x]
<1> DEFINE j == joinMCBs(m, P)
<1>1. P \subseteq Valid(m) /\ P \subseteq Para /\ AllJoined(m, P) \subseteq Valid(m)
      /\ P \cap AllJoined(m, P) = {}
  BY JoinedFacts, ValidParas DEF Apart, AllJoined
<1>2. AllJoined(m, P) \subseteq Para
  BY <1>1, ValidParas
<1>3. j = [x \in Para |->
             CASE x \in P -> [m[x] EXCEPT !.type = m[LastJoined(m, x)].type,
                                         !.size = nxtMCB(m, LastJoined(m, x)) - x - 1]
               [] x \in AllJoined(m, P) -> [m[x] EXCEPT !.size = FAKE]
               [] OTHER -> m[x]]
  BY ComputedIs DEF joinMCBs, LastJoined, AllJoined
<1>4. ASSUME NEW p \in P
      PROVE  j[p] = [type |-> m[LastJoined(m, p)].type, psp |-> m[p].psp,
                     size |-> nxtMCB(m, LastJoined(m, p)) - p - 1]
  <2>1. m[p] \in Mcb
    BY <1>1 DEF Tiled
  <2>2. j[p] = [m[p] EXCEPT !.type = m[LastJoined(m, p)].type,
                            !.size = nxtMCB(m, LastJoined(m, p)) - p - 1]
    BY <1>1, <1>3
  <2>3. QED
    BY <2>1, <2>2 DEF Mcb
<1> HIDE DEF j
<1>5. \A q \in AllJoined(m, P) : j[q] = [m[q] EXCEPT !.size = FAKE]
  BY <1>1, <1>2, <1>3
<1>6. \A x \in Para \ (P \cup AllJoined(m, P)) : j[x] = m[x]
  BY <1>3
<1>7. QED
  BY <1>1, <1>3, <1>4, <1>5, <1>6 DEF j

(* A block in tiled memory is shorter than the size that marks a joined one. *)
LEMMA ShortBlock ==
    ASSUME NEW n \in Nat, NEW p \in Nat, First <= p, p < n, n <= Top
    PROVE  n - p - 1 \in Nat /\ n - p - 1 # FAKE
BY Layout DEF FAKE

(* The blocks after a join: those joined to others are gone.               *)
LEMMA JoinValid ==
    ASSUME NEW m, NEW link, Tiled(m, link), NEW P, Apart(m, P)
    PROVE  LET j == joinMCBs(m, P)
           IN  /\ j \in [Para -> Mcb] /\ Valid(j) = Valid(m) \ AllJoined(m, P)
               /\ \A p \in P : nxtMCB(j, p) = nxtMCB(m, LastJoined(m, p))
               /\ \A p \in Para \ (P \cup AllJoined(m, P)) : nxtMCB(j, p) = nxtMCB(m, p)
<1> DEFINE j == joinMCBs(m, P)
           U == AllJoined(m, P)
<1>1. /\ DOMAIN j = Para /\ U \subseteq Valid(m) /\ P \cap U = {}
      /\ \A p \in P : j[p] = [type |-> m[LastJoined(m, p)].type, psp |-> m[p].psp,
                              size |-> nxtMCB(m, LastJoined(m, p)) - p - 1]
      /\ \A q \in U : j[q] = [m[q] EXCEPT !.size = FAKE]
      /\ \A x \in Para \ (P \cup U) : j[x] = m[x]
  BY JoinValues
<1>2. j = [x \in Para |-> j[x]]
  BY ComputedIs DEF joinMCBs
<1>3. \A x \in Para : m[x] \in Mcb
  BY DEF Tiled
<1> HIDE DEF j, U
<1>4. ASSUME NEW p \in P
      PROVE  /\ p \in Valid(m) /\ j[p] \in Mcb /\ p \in Valid(j)
             /\ nxtMCB(j, p) = nxtMCB(m, LastJoined(m, p))
  <2> DEFINE l == LastJoined(m, p)
             n == nxtMCB(m, l)
  <2>1. p \in Valid(m) /\ p \in Para /\ p \in Nat /\ First <= p
    BY ValidParas DEF Apart
  <2>2. l \in Valid(m) /\ p <= l
    BY <2>1, LastJoinedFacts
  <2>3. l \in Nat /\ n \in Nat /\ l < n /\ n <= Top /\ m[l].type \in {"normal", "last"}
    BY <2>2, ValidFacts, ValidParas
  <2>4. j[p] = [type |-> m[l].type, psp |-> m[p].psp, size |-> n - p - 1]
    BY <1>1
  <2> HIDE DEF l, n
  <2>5. n - p - 1 \in Nat /\ n - p - 1 # FAKE
    BY <2>1, <2>2, <2>3, ShortBlock
  <2>6. j[p] \in Mcb
    BY <1>3, <2>1, <2>3, <2>4, <2>5 DEF Mcb
  <2>7. p \in Valid(j)
    BY <2>1, <2>3, <2>4, <2>5 DEF Valid, mcbValid, mcbFreeable
  <2>8. nxtMCB(j, p) = n
    BY <2>1, <2>3, <2>4 DEF nxtMCB
  <2>9. QED
    BY <2>1, <2>6, <2>7, <2>8 DEF n, l
<1>5. ASSUME NEW q \in U
      PROVE  j[q] \in Mcb /\ q \notin Valid(j)
  <2>1. m[q] \in Mcb /\ j[q] = [m[q] EXCEPT !.size = FAKE]
    BY <1>1, <1>3, ValidParas
  <2>2. j[q] \in Mcb /\ j[q].size = FAKE
    BY <2>1 DEF Mcb, FAKE
  <2>3. QED
    BY <2>2 DEF Valid, mcbValid
<1>6. ASSUME NEW x \in Para \ (P \cup U)
      PROVE  j[x] \in Mcb /\ (x \in Valid(j) <=> x \in Valid(m)) /\ nxtMCB(j, x) = nxtMCB(m, x)
  BY <1>1, <1>3 DEF Valid, mcbValid, mcbFreeable, nxtMCB
<1>7. \A x \in Para : j[x] \in Mcb
  BY <1>4, <1>5, <1>6
<1>8. j \in [Para -> Mcb]
  BY <1>2, <1>7
<1>9. Valid(j) = Valid(m) \ U
  <2>1. \A x \in Para : x \in Valid(j) <=> x \in Valid(m) /\ x \notin U
    BY <1>1, <1>4, <1>5, <1>6
  <2>2. QED
    BY <2>1, ValidParas
<1>10. QED
  BY <1>4, <1>6, <1>8, <1>9 DEF j, U

(* Joining blocks keeps memory tiled.                                      *)
LEMMA JoinTiled ==
    ASSUME NEW m, NEW link, Tiled(m, link), NEW P, Apart(m, P)
    PROVE  Tiled(joinMCBs(m, P), link)
<1> DEFINE j == joinMCBs(m, P)
           U == AllJoined(m, P)
<1>1. /\ j \in [Para -> Mcb] /\ Valid(j) = Valid(m) \ U
      /\ \A p \in P : nxtMCB(j, p) = nxtMCB(m, LastJoined(m, p))
      /\ \A p \in Para \ (P \cup U) : nxtMCB(j, p) = nxtMCB(m, p)
  BY JoinValid
<1>2. /\ P \cap U = {}
      /\ \A p \in P : j[p].psp = m[p].psp /\ j[p].type = m[LastJoined(m, p)].type
      /\ \A x \in Para \ (P \cup U) : j[x] = m[x]
  <2>1. /\ P \cap U = {}
        /\ \A p \in P : j[p] = [type |-> m[LastJoined(m, p)].type, psp |-> m[p].psp,
                                size |-> nxtMCB(m, LastJoined(m, p)) - p - 1]
        /\ \A x \in Para \ (P \cup U) : j[x] = m[x]
    BY JoinValues
  <2> HIDE DEF j, U
  <2>2. ASSUME NEW p \in P
        PROVE  j[p].psp = m[p].psp /\ j[p].type = m[LastJoined(m, p)].type
    <3>1. j[p] = [type |-> m[LastJoined(m, p)].type, psp |-> m[p].psp,
                  size |-> nxtMCB(m, LastJoined(m, p)) - p - 1]
      BY <2>1
    <3>2. QED
      BY <3>1
  <2>3. QED
    BY <2>1, <2>2
<1>3. /\ P \subseteq Valid(m) /\ Valid(m) \subseteq Para
      /\ \A q \in Valid(m) : q \in Nat /\ q < Top
  BY ValidParas DEF Apart
<1>4. /\ \A p \in P : \A q \in Joined(m, p) : q \in U /\ q \in Valid(m) /\ q > p
      /\ \A p \in P : \A q \in Joined(m, p), x \in Valid(m) : p < x /\ x <= q => x \in Joined(m, p)
      /\ \A q \in U : \E p \in P : q \in Joined(m, p)
  BY <1>3, JoinedFacts DEF AllJoined
<1>5. \A p, q \in P : q \notin Joined(m, p)
  BY DEF Apart
<1>6. /\ \A p \in Valid(m) : NextIsOne(m, p) /\ NoneBetween(m, p) /\ EndIsLast(m, link, p)
      /\ link \in BOOLEAN
  BY DEF Tiled
<1> HIDE DEF j, U
<1>7. First \in Valid(j) /\ UpperRoot \in Valid(j) /\ j[UpperRoot].psp = SYSTEM
  <2>1. First \notin U /\ UpperRoot \notin U
    BY <1>3, <1>4, JoinedFacts
  <2>2. First \in Valid(m) /\ UpperRoot \in Valid(m) /\ m[UpperRoot].psp = SYSTEM
    BY DEF Tiled
  <2>3. j[UpperRoot].psp = m[UpperRoot].psp
    BY <1>2, <1>3, <2>1, <2>2
  <2>4. QED
    BY <1>1, <2>1, <2>2, <2>3
<1>8. ASSUME NEW l \in Valid(m), NEW p \in Valid(j), nxtMCB(j, p) = nxtMCB(m, l), p <= l,
             j[p].type = m[l].type, p \in P => l = p \/ l \in Joined(m, p),
             p \in P => \A q \in Joined(m, p) : q <= l, p \notin P => l = p
      PROVE  NextIsOne(j, p) /\ NoneBetween(j, p) /\ EndIsLast(j, link, p)
  <2> DEFINE n == nxtMCB(m, l)
  <2>1. p \in Valid(m) /\ p \notin U /\ p \in Nat /\ l \in Nat
    BY <1>1, <1>3
  <2>2. n \in Nat /\ l < n
    BY ValidFacts
  <2>3. n \in Valid(m) \cup {Top} /\ \A q \in Valid(m) : q <= l \/ n <= q
    BY <1>6 DEF NextIsOne, NoneBetween
  <2>4. nxtMCB(j, p) = n
    BY <1>8
  <2> HIDE DEF n
  <2>5. n \notin U
    <3>1. ASSUME NEW p2 \in P, n \in Joined(m, p2)
          PROVE  FALSE
      <4>1. p2 \in Valid(m) /\ p2 \in Nat /\ p2 < n /\ n \in Valid(m)
        BY <1>3, <1>4, <3>1
      <4>2. p2 <= l
        BY <2>2, <2>3, <4>1, <2>1
      <4>3. CASE p2 > p
        <5>1. p \in P /\ l \in Joined(m, p)
          BY <1>8, <2>1, <4>1, <4>2, <4>3
        <5>2. p2 \in Joined(m, p)
          BY <1>4, <4>1, <4>2, <4>3, <5>1
        <5>3. QED
          BY <1>5, <5>1, <5>2
      <4>4. CASE p2 = p
        BY <1>8, <2>1, <2>2, <3>1, <4>4
      <4>5. CASE p2 < p
        <5>1. p <= n
          BY <1>8, <2>1, <2>2
        <5>2. p \in Joined(m, p2)
          BY <1>4, <2>1, <3>1, <4>5, <5>1
        <5>3. QED
          BY <1>4, <2>1, <5>2
      <4>6. QED
        BY <2>1, <4>1, <4>3, <4>4, <4>5
    <3>2. QED
      BY <1>4, <3>1
  <2>6. NextIsOne(j, p)
    BY <1>1, <2>3, <2>4, <2>5 DEF NextIsOne
  <2>7. ASSUME NEW q \in Valid(j), ~(q <= p)
        PROVE  n <= q
    <3>1. q \in Valid(m) /\ q \notin U /\ q \in Nat
      BY <1>1, <1>3
    <3>2. q <= l => q \in U
      <4>1. q <= l => l # p
        BY <2>1, <2>7, <3>1
      <4>2. l # p => p \in P /\ l \in Joined(m, p)
        BY <1>8
      <4>3. QED
        BY <1>4, <2>1, <2>7, <3>1, <4>1, <4>2
    <3>3. QED
      BY <2>3, <3>1, <3>2
  <2>8. NoneBetween(j, p)
    BY <2>4, <2>7 DEF NoneBetween
  <2>9. EndIsLast(j, link, p)
    <3>1. EndIsLast(m, link, l)
      BY <1>6
    <3>2. QED
      BY <1>8, <2>4, <3>1 DEF EndIsLast, n
  <2>10. QED
    BY <2>6, <2>8, <2>9
<1>9. ASSUME NEW p \in Valid(j)
      PROVE  NextIsOne(j, p) /\ NoneBetween(j, p) /\ EndIsLast(j, link, p)
  <2>1. p \in Valid(m) /\ p \notin U /\ p \in Para /\ p \in Nat
    BY <1>1, <1>3
  <2>2. CASE p \in P
    <3> DEFINE l == LastJoined(m, p)
    <3>1. l \in Valid(m) /\ p <= l /\ (l = p \/ l \in Joined(m, p)) /\ \A q \in Joined(m, p) : q <= l
      BY <2>1, LastJoinedFacts
    <3>2. nxtMCB(j, p) = nxtMCB(m, l) /\ j[p].type = m[l].type
      BY <1>1, <1>2, <2>2
    <3> HIDE DEF l
    <3>3. QED
      BY <1>8, <2>2, <3>1, <3>2
  <2>3. CASE p \notin P
    <3>1. nxtMCB(j, p) = nxtMCB(m, p) /\ j[p].type = m[p].type
      BY <1>1, <1>2, <2>1, <2>3
    <3>2. p <= p
      BY <2>1
    <3>3. QED
      BY <1>8, <2>1, <2>3, <3>1, <3>2
  <2>4. QED
    BY <2>2, <2>3
<1>10. Tiled(j, link)
  BY <1>1, <1>6, <1>7, <1>9 DEF Tiled
<1>11. QED
  BY <1>10 DEF j

(***************************************************************************)
(* What a call does to the blocks of others: the owned ones it keeps, but  *)
(* for some; the owners there are.                                         *)
(***************************************************************************)
KeepsBut(m, n, X) ==
    \A p \in Valid(m) \ X : m[p].psp # FREE_PSP =>
        p \in Valid(n) /\ n[p].psp = m[p].psp /\ n[p].size = m[p].size
Keeps(m, n) == KeepsBut(m, n, {})
KeepsAllBut(m, n, p) == KeepsBut(m, n, {p})
Owners(m) == {m[p].psp : p \in Valid(m)}

(* A join keeps the owned blocks, but for those that grow, and all owners. *)
LEMMA JoinKeeps ==
    ASSUME NEW m, NEW link, Tiled(m, link), NEW P, Apart(m, P)
    PROVE  LET j == joinMCBs(m, P)
           IN  /\ KeepsBut(m, j, P) /\ Owners(j) \subseteq Owners(m)
               /\ \A p \in P : p \in Valid(j) /\ j[p].psp = m[p].psp
<1> DEFINE j == joinMCBs(m, P)
           U == AllJoined(m, P)
<1>1. /\ P \cap U = {} /\ Valid(j) = Valid(m) \ U
      /\ \A x \in Para \ (P \cup U) : j[x] = m[x]
  BY JoinValues, JoinValid
<1>2. \A p \in P : j[p] = [type |-> m[LastJoined(m, p)].type, psp |-> m[p].psp,
                           size |-> nxtMCB(m, LastJoined(m, p)) - p - 1]
  BY JoinValues
<1>3. P \subseteq Valid(m) /\ Valid(m) \subseteq Para
  BY ValidParas DEF Apart
<1>4. \A q \in U : q \in Valid(m) /\ m[q].psp = FREE_PSP
  BY <1>3, JoinedFacts DEF AllJoined
<1> HIDE DEF j, U
<1>5. ASSUME NEW p \in P
      PROVE  p \in Valid(j) /\ j[p].psp = m[p].psp
  <2>1. j[p] = [type |-> m[LastJoined(m, p)].type, psp |-> m[p].psp,
                size |-> nxtMCB(m, LastJoined(m, p)) - p - 1]
    BY <1>2
  <2>2. QED
    BY <1>1, <1>3, <2>1
<1>6. \A p \in Valid(m) \ (P \cup U) : p \in Valid(j) /\ j[p] = m[p]
  BY <1>1, <1>3
<1>7. KeepsBut(m, j, P)
  BY <1>4, <1>6 DEF KeepsBut, KeepsAllBut
<1>8. \A p \in Valid(j) : p \in Valid(m) /\ j[p].psp = m[p].psp
  BY <1>1, <1>5, <1>6
<1>9. Owners(j) \subseteq Owners(m)
  BY <1>8 DEF Owners
<1>10. QED
  BY <1>5, <1>7, <1>9 DEF j

(* The blocks a search joins are free, and none of them joins another.     *)
LEMMA HeadsApart ==
    ASSUME NEW m, NEW link, Tiled(m, link), NEW p \in Valid(m)
    PROVE  LET H == FreeHeads(m, p)
           IN  Apart(m, H) /\ \A q \in H : q \in Valid(m) /\ m[q].psp = FREE_PSP
<1> DEFINE H == FreeHeads(m, p)
           F == {q \in Walk(m, p) : mcbFree(m, q)}
<1>1. F = {q \in Reach(m, link, p) : m[q].psp = FREE_PSP}
  BY WalkIs DEF mcbFree
<1>2. \A q \in Valid(m) : mcbValid(m, q) /\ q \in Nat
  BY ValidParas DEF Valid
<1>3. \A q \in H : q \in F /\ \A x \in F : nxtMCB(m, x) # q
  BY <1>1, <1>2 DEF FreeHeads, Reach
<1> HIDE DEF H
<1>4. \A q \in H : q \in Reach(m, link, p) /\ q \in Valid(m) /\ m[q].psp = FREE_PSP
  BY <1>1, <1>3 DEF Reach
<1>5. ASSUME NEW a \in H, NEW b \in H, b \in Joined(m, a)
      PROVE  FALSE
  <2>1. a \in Valid(m) /\ b \in Valid(m) /\ b > a /\ a \in Nat /\ b \in Nat
    BY <1>2, <1>4, <1>5, JoinedFacts
  <2>2. b # First
    BY <2>1, ValidParas, Layout
  <2>3. PICK r \in Valid(m) : r < b /\ nxtMCB(m, r) = b
    BY <2>1, <2>2, Before
  <2>4. a <= r
    BY <1>2, <2>1, <2>3 DEF Tiled, NoneBetween
  <2>5. m[r].psp = FREE_PSP
    <3>1. CASE r = a
      BY <1>4, <3>1
    <3>2. CASE r # a
      <4>1. a < r /\ r <= b
        BY <1>2, <2>1, <2>3, <2>4, <3>2
      <4>2. r \in Joined(m, a)
        BY <1>5, <2>1, <2>3, <4>1, JoinedFacts
      <4>3. QED
        BY <2>1, <4>2, JoinedFacts
    <3>3. QED
      BY <3>1, <3>2
  <2>6. r \in Reach(m, link, p)
    <3>1. a \in Reach(m, link, p) /\ b \in Reach(m, link, p)
      BY <1>4
    <3>2. QED
      BY <1>2, <2>1, <2>3, <2>4, <3>1, Layout DEF Reach
  <2>7. r \in F
    BY <1>1, <2>5, <2>6
  <2>8. QED
    BY <1>3, <2>3, <2>7
<1>6. Apart(m, H)
  BY <1>4, <1>5 DEF Apart
<1>7. QED
  BY <1>4, <1>6 DEF H

(* Changing owners, of any block but uppermem_root, keeps memory tiled.    *)
LEMMA SameShape ==
    ASSUME NEW m, NEW link, Tiled(m, link), NEW n \in [Para -> Mcb], n[UpperRoot].psp = SYSTEM,
           \A p \in Para : n[p].type = m[p].type /\ n[p].size = m[p].size
    PROVE  Tiled(n, link) /\ Valid(n) = Valid(m)
<1>1. Valid(n) = Valid(m)
  BY DEF Valid, mcbValid, mcbFreeable
<1>2. \A p \in Valid(m) : nxtMCB(n, p) = nxtMCB(m, p) /\ n[p].type = m[p].type
  BY ValidParas DEF nxtMCB
<1>3. First \in Valid(n) /\ UpperRoot \in Valid(n) /\ link \in BOOLEAN
  BY <1>1 DEF Tiled
<1>4. ASSUME NEW p \in Valid(n)
      PROVE  NextIsOne(n, p) /\ NoneBetween(n, p) /\ EndIsLast(n, link, p)
  <2>1. NextIsOne(m, p) /\ NoneBetween(m, p) /\ EndIsLast(m, link, p)
    BY <1>1 DEF Tiled
  <2>2. QED
    BY <1>1, <1>2, <2>1 DEF NextIsOne, NoneBetween, EndIsLast
<1>5. QED
  BY <1>1, <1>3, <1>4 DEF Tiled

(* One header changes its owner.                                           *)
WithOwner(m, p, a) == [m EXCEPT ![p].psp = a]

(* A change of owner leaves memory tiled and every other block alone.      *)
LEMMA SetOwner ==
    ASSUME NEW m, NEW link, Tiled(m, link), NEW p \in Int, p # UpperRoot, NEW a \in Int
    PROVE  LET n == WithOwner(m, p, a)
           IN  /\ Tiled(n, link) /\ Valid(n) = Valid(m) /\ KeepsAllBut(m, n, p)
               /\ Owners(n) \subseteq Owners(m) \cup {a}
               /\ \A q \in Para : n[q].size = m[q].size /\ (q # p => n[q].psp = m[q].psp)
               /\ p \in Para => n[p].psp = a
<1> DEFINE n == WithOwner(m, p, a)
<1>1. m \in [Para -> Mcb] /\ m[UpperRoot].psp = SYSTEM /\ UpperRoot \in Para
  BY Layout DEF Tiled
<1>2. \A q \in Para : n[q] = IF q = p THEN [m[q] EXCEPT !.psp = a] ELSE m[q]
  BY <1>1 DEF WithOwner
<1>3. \A q \in Para : [m[q] EXCEPT !.psp = a] \in Mcb
  BY <1>1 DEF Mcb
<1>4. n \in [Para -> Mcb]
  BY <1>1, <1>2, <1>3 DEF WithOwner
<1> HIDE DEF n
<1>5. ASSUME NEW q \in Para
      PROVE  /\ n[q].type = m[q].type /\ n[q].size = m[q].size
             /\ n[q].psp = IF q = p THEN a ELSE m[q].psp
  <2>1. m[q] \in Mcb
    BY <1>1
  <2>2. QED
    BY <1>2, <2>1 DEF Mcb
<1>6. Tiled(n, link) /\ Valid(n) = Valid(m)
  BY <1>1, <1>4, <1>5, SameShape
<1>7. KeepsAllBut(m, n, p)
  BY <1>5, <1>6, ValidParas DEF KeepsBut, KeepsAllBut
<1>8. \A q \in Valid(n) : n[q].psp \in Owners(m) \cup {a}
  BY <1>5, <1>6, ValidParas DEF Owners
<1>9. Owners(n) \subseteq Owners(m) \cup {a}
  BY <1>8 DEF Owners
<1>10. QED
  BY <1>5, <1>6, <1>7, <1>9 DEF n

(* Cutting a block in two, at a new header h.                              *)
Cut(m, p, h, a, b) ==
    [m EXCEPT ![p] = [type |-> "normal", psp |-> a, size |-> h - p - 1],
              ![h] = [type |-> m[p].type, psp |-> b, size |-> nxtMCB(m, p) - h - 1]]

(* A block cut in two: one header more, and memory stays tiled.            *)
LEMMA CutTiled ==
    ASSUME NEW m, NEW link, Tiled(m, link), NEW p \in Valid(m), p # UpperRoot,
           NEW h \in Nat, p < h, h < nxtMCB(m, p), NEW a \in Int, NEW b \in Int
    PROVE  LET c == Cut(m, p, h, a, b)
           IN  /\ Tiled(c, link) /\ Valid(c) = Valid(m) \cup {h} /\ h \notin Valid(m)
               /\ c[p].psp = a /\ c[h].psp = b
               /\ c[p].size = h - p - 1 /\ c[h].size = nxtMCB(m, p) - h - 1
               /\ KeepsAllBut(m, c, p) /\ Owners(c) \subseteq Owners(m) \cup {a, b}
<1> DEFINE c == Cut(m, p, h, a, b)
           n == nxtMCB(m, p)
<1>1. /\ p \in Para /\ p \in Nat /\ First <= p /\ n \in Nat /\ n <= Top /\ m[p].type \in {"normal", "last"}
      /\ \A q \in Valid(m) : q \in Para /\ q \in Nat /\ q < Top
  BY ValidFacts, ValidParas
<1>2. m \in [Para -> Mcb] /\ link \in BOOLEAN /\ First \in Valid(m) /\ UpperRoot \in Valid(m)
  BY DEF Tiled
<1>3. /\ n \in Valid(m) \cup {Top} /\ \A q \in Valid(m) : q <= p \/ n <= q
      /\ m[p].type = "last" <=> n = Top \/ (n = UpperRoot /\ ~link)
  BY DEF Tiled, NextIsOne, NoneBetween, EndIsLast
<1>4. h < n
  OBVIOUS
<1>5. /\ c = [m EXCEPT ![p] = [type |-> "normal", psp |-> a, size |-> h - p - 1],
                       ![h] = [type |-> m[p].type, psp |-> b, size |-> n - h - 1]]
  BY DEF Cut
<1> HIDE DEF c, n
<1>6. h \in Para /\ h # p /\ h \notin Valid(m) /\ h # UpperRoot
  BY <1>1, <1>2, <1>3, <1>4, Layout DEF Para
<1>7. /\ h - p - 1 \in Nat /\ h - p - 1 # FAKE /\ n - h - 1 \in Nat /\ n - h - 1 # FAKE
  BY <1>1, <1>4, Layout DEF FAKE
<1>8. /\ c[p] = [type |-> "normal", psp |-> a, size |-> h - p - 1]
      /\ c[h] = [type |-> m[p].type, psp |-> b, size |-> n - h - 1]
      /\ \A x \in Para \ {p, h} : c[x] = m[x]
      /\ DOMAIN c = Para /\ c = [x \in Para |-> c[x]]
  BY <1>1, <1>2, <1>5, <1>6
<1>9. c[p] \in Mcb /\ c[h] \in Mcb
  BY <1>1, <1>7, <1>8 DEF Mcb
<1>10. c \in [Para -> Mcb]
  BY <1>2, <1>8, <1>9
<1>11. /\ c[p].type = "normal" /\ c[p].psp = a /\ c[p].size = h - p - 1 /\ nxtMCB(c, p) = h
       /\ c[h].type = m[p].type /\ c[h].psp = b /\ c[h].size = n - h - 1 /\ nxtMCB(c, h) = n
       /\ \A x \in Para \ {p, h} : nxtMCB(c, x) = nxtMCB(m, x)
  BY <1>1, <1>4, <1>7, <1>8 DEF nxtMCB
<1>12. p \in Valid(c) /\ h \in Valid(c)
  BY <1>1, <1>6, <1>7, <1>11 DEF Valid, mcbValid, mcbFreeable
<1>13. \A x \in Para \ {p, h} : x \in Valid(c) <=> x \in Valid(m)
  BY <1>8 DEF Valid, mcbValid, mcbFreeable
<1>14. Valid(c) = Valid(m) \cup {h}
  BY <1>1, <1>6, <1>12, <1>13, ValidParas
<1>15. ASSUME NEW x \in Valid(c)
       PROVE  NextIsOne(c, x) /\ NoneBetween(c, x) /\ EndIsLast(c, link, x)
  <2>1. CASE x = p
    <3>1. NextIsOne(c, x)
      BY <1>11, <1>12, <2>1 DEF NextIsOne
    <3>2. NoneBetween(c, x)
      BY <1>1, <1>3, <1>4, <1>11, <1>14, <2>1 DEF NoneBetween
    <3>3. EndIsLast(c, link, x)
      BY <1>1, <1>4, <1>6, <1>11, <2>1 DEF EndIsLast
    <3>4. QED
      BY <3>1, <3>2, <3>3
  <2>2. CASE x = h
    <3>1. NextIsOne(c, x)
      BY <1>3, <1>11, <1>14, <2>2 DEF NextIsOne
    <3>2. NoneBetween(c, x)
      BY <1>1, <1>3, <1>4, <1>11, <1>14, <2>2 DEF NoneBetween
    <3>3. EndIsLast(c, link, x)
      BY <1>3, <1>11, <2>2 DEF EndIsLast
    <3>4. QED
      BY <3>1, <3>2, <3>3
  <2>3. CASE x # p /\ x # h
    <3>1. x \in Valid(m) /\ x \in Para \ {p, h} /\ x \in Nat
      BY <1>1, <1>14, <2>3
    <3>2. nxtMCB(c, x) = nxtMCB(m, x) /\ c[x].type = m[x].type
      BY <1>8, <1>11, <3>1
    <3>3. NextIsOne(m, x) /\ NoneBetween(m, x) /\ EndIsLast(m, link, x) /\ nxtMCB(m, x) \in Nat
      BY <3>1, ValidFacts DEF Tiled
    <3>4. NextIsOne(c, x) /\ EndIsLast(c, link, x)
      BY <1>14, <3>2, <3>3 DEF NextIsOne, EndIsLast
    <3>5. h <= x \/ nxtMCB(m, x) <= h
      BY <1>1, <1>3, <1>4, <2>3, <3>1, <3>3 DEF NoneBetween
    <3>6. NoneBetween(c, x)
      BY <1>14, <3>1, <3>2, <3>3, <3>5, <2>3 DEF NoneBetween
    <3>7. QED
      BY <3>4, <3>6
  <2>4. QED
    BY <2>1, <2>2, <2>3
<1>16. Tiled(c, link)
  <2>1. c[UpperRoot].psp = SYSTEM
    BY <1>1, <1>2, <1>6, <1>8 DEF Tiled
  <2>2. QED
    BY <1>2, <1>10, <1>14, <1>15, <2>1 DEF Tiled
<1>17. KeepsAllBut(m, c, p)
  BY <1>1, <1>6, <1>8, <1>14 DEF KeepsBut, KeepsAllBut
<1>18. Owners(c) \subseteq Owners(m) \cup {a, b}
  <2>1. \A x \in Valid(c) : c[x].psp \in Owners(m) \cup {a, b}
    BY <1>1, <1>8, <1>11, <1>14 DEF Owners
  <2>2. QED
    BY <2>1 DEF Owners
<1>19. QED
  BY <1>6, <1>11, <1>14, <1>16, <1>17, <1>18 DEF c, n

(* Owned blocks that two steps keep; the second may touch what was free.   *)
Unowned(m, p) == p \in Valid(m) => m[p].psp = FREE_PSP

(* Owned blocks stay through two steps.                                    *)
LEMMA KeepsThen ==
    ASSUME NEW m, NEW n, NEW o, NEW X, Keeps(m, n), KeepsBut(n, o, X), \A x \in X : Unowned(m, x)
    PROVE  Keeps(m, o)
BY DEF Keeps, KeepsBut, KeepsAllBut, Unowned

(* Memory after a search: tiled, the owned blocks where they were.         *)
Rearranged(m, n, link) == Tiled(n, link) /\ Keeps(m, n) /\ Owners(n) \subseteq Owners(m)

(* Two searches, one after the other.                                      *)
LEMMA RearrangedTwice ==
    ASSUME NEW m, NEW n, NEW o, NEW link, Rearranged(m, n, link), Rearranged(n, o, link)
    PROVE  Rearranged(m, o, link)
BY KeepsThen DEF Rearranged, Keeps

(* A search that joins nothing.                                            *)
LEMMA RearrangedNot ==
    ASSUME NEW m, NEW link, Tiled(m, link)
    PROVE  Rearranged(m, m, link)
BY DEF Rearranged, Keeps, KeepsBut, KeepsAllBut

(* A join of unused blocks.                                                *)
LEMMA JoinFree ==
    ASSUME NEW m, NEW link, Tiled(m, link), NEW P, Apart(m, P),
           \A p \in P : m[p].psp = FREE_PSP
    PROVE  LET j == joinMCBs(m, P)
           IN  /\ Rearranged(m, j, link)
               /\ \A p \in P : p \in Valid(j) /\ j[p].psp = FREE_PSP /\ j[p].size \in Nat
<1> DEFINE j == joinMCBs(m, P)
<1>1. KeepsBut(m, j, P) /\ Owners(j) \subseteq Owners(m)
      /\ \A p \in P : p \in Valid(j) /\ j[p].psp = m[p].psp
  BY JoinKeeps
<1>2. Tiled(j, link)
  BY JoinTiled
<1> HIDE DEF j
<1>3. Keeps(m, j)
  BY <1>1 DEF Keeps, KeepsBut, KeepsAllBut
<1>4. \A p \in P : j[p].size \in Nat
  BY <1>1, <1>2, ValidFacts
<1>5. QED
  BY <1>1, <1>2, <1>3, <1>4 DEF Rearranged, j

(***************************************************************************)
(* DosMemAlloc and DosMemLargest.                                          *)
(***************************************************************************)
(* What a search gives: an unused block of the size asked for, or none.    *)
Finds(m, s, size, link) ==
    /\ Rearranged(m, s.mcb, link) /\ s.max \in Nat
    /\ s.found # NONE => /\ s.found \in Valid(s.mcb) /\ s.mcb[s.found].psp = FREE_PSP
                         /\ Unowned(m, s.found) /\ s.mcb[s.found].size >= size

(* The choice of every strategy is an unused block that is large enough.   *)
LEMMA ChooseFinds ==
    ASSUME NEW m, NEW link, Tiled(m, link), NEW Heads, Apart(m, Heads),
           \A q \in Heads : m[q].psp = FREE_PSP, NEW size \in Nat, NEW mode
    PROVE  Finds(m, Choose(m, joinMCBs(m, Heads), Heads, size, mode), size, link)
<1> DEFINE j       == joinMCBs(m, Heads)
           Enough  == {p \in Heads : j[p].size >= size}
           Largest == {p \in Heads : \A q \in Heads : j[q].size <= j[p].size}
           Least   == {p \in Enough : \A q \in Enough : j[p].size <= j[q].size}
           fit     == CASE Fit(mode) = "first"   -> Lowest(Enough)
                        [] Fit(mode) = "best"    -> Lowest(Least)
                        [] Fit(mode) = "largest" -> Lowest(Largest)
                        [] OTHER                 -> Highest(Enough)
           found   == IF Enough = {} THEN NONE ELSE fit
           s == Choose(m, j, Heads, size, mode)
           P == {p \in Heads : p <= found}
<1>1. s = IF Enough # {} /\ Fit(mode) = "first"
          THEN [mcb |-> joinMCBs(m, P), found |-> found, max |-> 0]
          ELSE [mcb   |-> j,
                found |-> IF Enough # {} /\ j[found].size = 0 THEN NONE ELSE found,
                max   |-> IF Heads = {} THEN 0 ELSE j[Lowest(Largest)].size]
  BY DEF Choose
<1>2. Heads \subseteq Nat /\ Heads \subseteq 0 .. Top /\ Heads \subseteq Valid(m)
  BY ValidParas DEF Apart
<1>3. /\ Rearranged(m, j, link)
      /\ \A p \in Heads : p \in Valid(j) /\ j[p].psp = FREE_PSP /\ j[p].size \in Nat
  BY JoinFree
<1>4. \A p \in Heads : j[p] = [type |-> m[LastJoined(m, p)].type, psp |-> m[p].psp,
                               size |-> nxtMCB(m, LastJoined(m, p)) - p - 1]
  BY JoinValues
<1> HIDE DEF j
<1>5. ASSUME NEW S, S \subseteq Heads, S # {}
      PROVE  Lowest(S) \in S /\ Highest(S) \in S
  BY <1>2, <1>5, LowestOf, HighestPara
<1>6. ASSUME NEW S, S \subseteq Heads, S # {}
      PROVE  /\ \E p \in S : \A q \in S : j[p].size <= j[q].size
             /\ \E p \in S : \A q \in S : j[q].size <= j[p].size
  <2> DEFINE Z == {j[p].size : p \in S}
  <2>1. Z \subseteq Nat /\ Z # {}
    BY <1>3, <1>6
  <2>2. Z \subseteq 0 .. Top
    <3>1. ASSUME NEW p \in S
          PROVE  j[p].size \in 0 .. Top
      <4>1. p \in Valid(j) /\ p \in Nat /\ Tiled(j, link)
        BY <1>2, <1>3, <1>6 DEF Rearranged
      <4>2. j[p].size \in Nat /\ p + j[p].size + 1 <= Top
        BY <4>1, ValidFacts
      <4>3. QED
        BY <4>1, <4>2, Layout
    <3>2. QED
      BY <3>1
  <2>3. /\ Lowest(Z) \in Z /\ \A z \in Z : Lowest(Z) <= z
        /\ Highest(Z) \in Z /\ \A z \in Z : z <= Highest(Z)
    <3> HIDE DEF Z
    <3> QED  BY <2>1, <2>2, LowestOf, HighestPara
  <2>4. PICK a \in S : Lowest(Z) = j[a].size
    BY <2>3
  <2>5. PICK b \in S : Highest(Z) = j[b].size
    BY <2>3
  <2>6. (\A q \in S : j[a].size <= j[q].size) /\ (\A q \in S : j[q].size <= j[b].size)
    BY <2>3, <2>4, <2>5
  <2>7. QED
    BY <2>6
<1>7. Heads # {} => Lowest(Largest) \in Largest
  <2>1. Heads # {} => Largest # {}
    BY <1>6
  <2>2. QED
    BY <1>5, <2>1
<1>8. Enough # {} => found \in Enough
  <2>1. ASSUME Enough # {}
        PROVE  Lowest(Enough) \in Enough /\ Highest(Enough) \in Enough
    BY <1>5, <2>1
  <2>2. ASSUME Enough # {}
        PROVE  Lowest(Least) \in Enough
    <3>1. Least # {}
      BY <1>6, <2>2
    <3>2. Least \subseteq Heads
      OBVIOUS
    <3>3. Lowest(Least) \in Least
      <4> HIDE DEF Least
      <4> QED  BY <1>5, <3>1, <3>2
    <3>4. QED
      BY <3>3
  <2>3. ASSUME Enough # {}
        PROVE  Lowest(Largest) \in Enough
    <3>1. PICK e \in Heads : j[e].size >= size
      BY <2>3
    <3>2. Lowest(Largest) \in Heads /\ j[e].size <= j[Lowest(Largest)].size
      BY <1>7, <3>1
    <3>3. QED
      BY <1>3, <3>1, <3>2
  <2>4. QED
    BY <2>1, <2>2, <2>3
<1>9. Enough = {} => found = NONE
  OBVIOUS
<1> HIDE DEF found, s
<1>10. CASE Enough # {} /\ Fit(mode) = "first"
  <2> DEFINE k == joinMCBs(m, P)
  <2>1. s.mcb = k /\ s.found = found /\ s.max = 0
    BY <1>1, <1>10
  <2>2. found \in Enough /\ found \in Heads /\ found \in P /\ P \subseteq Heads
    <3>1. found \in Enough /\ found \in Heads /\ found \in Nat
      BY <1>2, <1>8, <1>10
    <3>2. found <= found
      BY <3>1
    <3>3. QED
      BY <3>1, <3>2
  <2>3. Apart(m, P) /\ \A p \in P : m[p].psp = FREE_PSP
    BY <2>2 DEF Apart
  <2> HIDE DEF P
  <2>4. /\ Rearranged(m, k, link)
        /\ \A p \in P : p \in Valid(k) /\ k[p].psp = FREE_PSP /\ k[p].size \in Nat
    BY <2>3, JoinFree
  <2>5. \A p \in P : k[p] = [type |-> m[LastJoined(m, p)].type, psp |-> m[p].psp,
                             size |-> nxtMCB(m, LastJoined(m, p)) - p - 1]
    BY <2>3, JoinValues
  <2> HIDE DEF k
  <2>6. k[found] = j[found]
    BY <1>4, <2>2, <2>5
  <2>7. k[found].size >= size
    BY <2>2, <2>6
  <2>8. Unowned(m, found)
    BY <2>2 DEF Unowned
  <2>9. Finds(m, s, size, link)
    BY <2>1, <2>2, <2>4, <2>7, <2>8 DEF Finds
  <2>10. QED
    BY <2>9 DEF s, j
<1>11. CASE ~(Enough # {} /\ Fit(mode) = "first")
  <2>1. /\ s.mcb = j
        /\ s.found = IF Enough # {} /\ j[found].size = 0 THEN NONE ELSE found
        /\ s.max = IF Heads = {} THEN 0 ELSE j[Lowest(Largest)].size
    BY <1>1, <1>11
  <2>2. s.max \in Nat
    BY <1>3, <1>7, <2>1
  <2>3. s.found # NONE => /\ s.found \in Valid(j) /\ j[s.found].psp = FREE_PSP
                          /\ Unowned(m, s.found) /\ j[s.found].size >= size
    BY <1>3, <1>8, <1>9, <2>1 DEF Unowned
  <2>4. Finds(m, s, size, link)
    BY <1>3, <2>1, <2>2, <2>3 DEF Finds
  <2>5. QED
    BY <2>4 DEF s, j
<1>12. QED
  BY <1>10, <1>11

(* A search joins unused blocks and finds one of them, or none.            *)
LEMMA SearchFinds ==
    ASSUME NEW m, NEW link, Tiled(m, link), NEW size \in Nat, NEW mode, NEW strat
    PROVE  Finds(m, Search(m, size, mode, link, strat), size, link)
<1> DEFINE p == SearchStart(size, mode, link, strat)
           H == FreeHeads(m, p)
<1>1. p \in Valid(m)
  BY RootFacts DEF SearchStart
<1> HIDE DEF p
<1>2. Apart(m, H) /\ \A q \in H : m[q].psp = FREE_PSP
  BY <1>1, HeadsApart
<1>3. Search(m, size, mode, link, strat) = Choose(m, joinMCBs(m, H), H, size, mode)
  BY DEF Search, p
<1> HIDE DEF H
<1>4. QED
  BY <1>2, <1>3, ChooseFinds

(* What an allocation gives: a block of the owner, where none was owned.   *)
Grants(m, a, owner, link) ==
    /\ Tiled(a.mcb, link) /\ Keeps(m, a.mcb)
    /\ Owners(a.mcb) \subseteq Owners(m) \cup {FREE_PSP, owner} /\ a.max \in Nat
    /\ a.seg # NONE => /\ a.seg \in Valid(a.mcb) /\ a.mcb[a.seg].psp = owner /\ Unowned(m, a.seg)

(* The block found, cut to the size asked for.                             *)
LEMMA SplitTiled ==
    ASSUME NEW m, NEW link, Tiled(m, link), NEW p \in Valid(m), m[p].psp = FREE_PSP,
           NEW size \in Nat, m[p].size >= size, NEW mode, NEW owner \in Nat \ {0}
    PROVE  LET c == Split(m, p, size, mode, owner)
           IN  /\ Tiled(c.mcb, link) /\ Keeps(m, c.mcb)
               /\ Owners(c.mcb) \subseteq Owners(m) \cup {FREE_PSP, owner}
               /\ c.seg \in Valid(c.mcb) /\ c.mcb[c.seg].psp = owner /\ Unowned(m, c.seg)
               /\ c.seg \in Nat
<1> DEFINE c == Split(m, p, size, mode, owner)
           rest == m[p].size - size - 1
           n == nxtMCB(m, p)
           h == IF Fit(mode) = "last" THEN p + rest + 1 ELSE p + size + 1
           a == IF Fit(mode) = "last" THEN FREE_PSP ELSE owner
           b == IF Fit(mode) = "last" THEN owner ELSE FREE_PSP
<1>1. p \in Nat /\ p \in Para /\ m[p].size \in Nat /\ n = p + m[p].size + 1 /\ p # UpperRoot
  BY ValidFacts, ValidParas, RootFacts
<1>2. owner \in Int /\ a \in Int /\ b \in Int
  BY DEF FREE_PSP
<1>3. m \in [Para -> Mcb]
  BY DEF Tiled
<1>4. CASE mode = LARGEST \/ size = m[p].size
  <2>1. c = [mcb |-> [m EXCEPT ![p].psp = owner], seg |-> p]
    BY <1>4 DEF Split
  <2>2. c.mcb = [m EXCEPT ![p].psp = owner] /\ c.seg = p
    BY <2>1
  <2> HIDE DEF c
  <2>3. /\ Tiled(c.mcb, link) /\ Valid(c.mcb) = Valid(m) /\ KeepsAllBut(m, c.mcb, p)
        /\ Owners(c.mcb) \subseteq Owners(m) \cup {owner} /\ c.mcb[p].psp = owner
    <3> DEFINE k == WithOwner(m, p, owner)
    <3>1. p \in Int /\ p # UpperRoot /\ owner \in Int
      BY <1>1, <1>2
    <3>2. /\ Tiled(k, link) /\ Valid(k) = Valid(m) /\ KeepsAllBut(m, k, p)
          /\ Owners(k) \subseteq Owners(m) \cup {owner}
          /\ p \in Para => k[p].psp = owner
      BY <3>1, SetOwner
    <3> HIDE DEF k
    <3>3. k[p].psp = owner
      BY <1>1, <3>2
    <3>4. QED
      BY <2>2, <3>2, <3>3 DEF k, WithOwner
  <2>4. Keeps(m, c.mcb)
    BY <2>3 DEF Keeps, KeepsBut, KeepsAllBut
  <2>5. QED
    BY <1>1, <2>2, <2>3, <2>4 DEF Unowned, c
<1>5. CASE ~(mode = LARGEST \/ size = m[p].size)
  <2>1. size < m[p].size /\ rest \in Nat
    BY <1>1, <1>5
  <2>2. h \in Nat /\ p < h /\ h < n /\ h # p
    BY <1>1, <2>1
  <2> DEFINE q == IF Fit(mode) = "last" THEN h ELSE p
             k == Cut(m, p, h, a, b)
  <2>3. c.mcb = k /\ c.seg = q
    <3>1. CASE Fit(mode) = "last"
      <4>1. c = [mcb |-> [m EXCEPT ![h] = [type |-> m[p].type, psp |-> owner, size |-> size],
                                  ![p] = [type |-> "normal", psp |-> FREE_PSP, size |-> rest]],
                 seg |-> h]
        BY <1>5, <2>2, <3>1 DEF Split
      <4>2. h - p - 1 = rest /\ n - h - 1 = size /\ a = FREE_PSP /\ b = owner
        BY <1>1, <2>1, <3>1
      <4>3. k = [m EXCEPT ![p] = [type |-> "normal", psp |-> FREE_PSP, size |-> rest],
                          ![h] = [type |-> m[p].type, psp |-> owner, size |-> size]]
        BY <4>2 DEF Cut
      <4>4. c.mcb = [m EXCEPT ![h] = [type |-> m[p].type, psp |-> owner, size |-> size],
                              ![p] = [type |-> "normal", psp |-> FREE_PSP, size |-> rest]]
            /\ c.seg = h
        BY <4>1
      <4> HIDE DEF h, c, k, rest
      <4>5. c.mcb = k
        BY <1>3, <2>2, <4>3, <4>4
      <4>6. QED
        BY <3>1, <4>4, <4>5
    <3>2. CASE Fit(mode) # "last"
      <4>1. c = [mcb |-> [m EXCEPT ![p] = [type |-> "normal", psp |-> owner, size |-> size],
                                  ![h] = [type |-> m[p].type, psp |-> FREE_PSP, size |-> rest]],
                 seg |-> p]
        BY <1>5, <2>2, <3>2 DEF Split
      <4>2. h - p - 1 = size /\ n - h - 1 = rest /\ a = owner /\ b = FREE_PSP
        BY <1>1, <2>1, <3>2
      <4>3. k = [m EXCEPT ![p] = [type |-> "normal", psp |-> owner, size |-> size],
                          ![h] = [type |-> m[p].type, psp |-> FREE_PSP, size |-> rest]]
        BY <4>2 DEF Cut
      <4>4. QED
        BY <3>2, <4>1, <4>3
    <3>3. QED
      BY <3>1, <3>2
  <2> HIDE DEF h, c, k, rest, n
  <2>4. /\ Tiled(k, link) /\ Valid(k) = Valid(m) \cup {h} /\ h \notin Valid(m)
        /\ k[p].psp = a /\ k[h].psp = b
        /\ KeepsAllBut(m, k, p) /\ Owners(k) \subseteq Owners(m) \cup {a, b}
    <3>1. h < nxtMCB(m, p)
      BY <2>2 DEF n
    <3> HIDE DEF a, b
    <3>2. /\ Tiled(Cut(m, p, h, a, b), link) /\ Valid(Cut(m, p, h, a, b)) = Valid(m) \cup {h}
          /\ h \notin Valid(m) /\ Cut(m, p, h, a, b)[p].psp = a /\ Cut(m, p, h, a, b)[h].psp = b
          /\ KeepsAllBut(m, Cut(m, p, h, a, b), p)
          /\ Owners(Cut(m, p, h, a, b)) \subseteq Owners(m) \cup {a, b}
      <4> HIDE DEF q
      <4>1. p # UpperRoot /\ p < h /\ h \in Nat /\ a \in Int /\ b \in Int
        BY <1>1, <1>2, <2>2
      <4>2. QED
        BY <3>1, <4>1, CutTiled
    <3>3. QED
      BY <3>2 DEF k
  <2>5. Keeps(m, k)
    BY <2>4 DEF Keeps, KeepsBut, KeepsAllBut
  <2>6. q \in Valid(k) /\ k[q].psp = owner /\ Unowned(m, q) /\ q \in Nat
    BY <1>1, <2>2, <2>4 DEF Unowned
  <2>7. QED
    BY <2>3, <2>4, <2>5, <2>6 DEF c
<1>6. QED
  BY <1>4, <1>5

(* What the search found becomes the owner's.                              *)
LEMMA TakeGrants ==
    ASSUME NEW m, NEW link, NEW s, NEW size \in Nat, Finds(m, s, size, link), NEW mode,
           NEW owner \in Nat \ {0}
    PROVE  Grants(m, TakeFound(s, size, mode, owner), owner, link)
<1> DEFINE t == TakeFound(s, size, mode, owner)
           c == Split(s.mcb, s.found, size, mode, owner)
<1>1. Rearranged(m, s.mcb, link) /\ s.max \in Nat /\ Tiled(s.mcb, link) /\ Keeps(m, s.mcb)
      /\ Owners(s.mcb) \subseteq Owners(m)
  BY DEF Finds, Rearranged
<1>2. CASE s.found = NONE
  <2>1. t = [mcb |-> s.mcb, seg |-> NONE, max |-> s.max]
    BY <1>2 DEF TakeFound
  <2>2. t.mcb = s.mcb /\ t.seg = NONE /\ t.max = s.max
    BY <2>1
  <2> HIDE DEF t
  <2>3. Grants(m, t, owner, link)
    BY <1>1, <2>2 DEF Grants
  <2>4. QED
    BY <2>3 DEF t
<1>3. CASE s.found # NONE
  <2>1. t = [mcb |-> c.mcb, seg |-> c.seg, max |-> c.mcb[c.seg].size]
    BY <1>3 DEF TakeFound, Taken
  <2>2. t.mcb = c.mcb /\ t.seg = c.seg /\ t.max = c.mcb[c.seg].size
    BY <2>1
  <2>3. s.found \in Valid(s.mcb) /\ s.mcb[s.found].psp = FREE_PSP /\ s.mcb[s.found].size >= size
    BY <1>3 DEF Finds
  <2>4. /\ Tiled(c.mcb, link) /\ Keeps(s.mcb, c.mcb)
        /\ Owners(c.mcb) \subseteq Owners(s.mcb) \cup {FREE_PSP, owner}
        /\ c.seg \in Valid(c.mcb) /\ c.mcb[c.seg].psp = owner /\ Unowned(s.mcb, c.seg)
    BY <1>1, <2>3, SplitTiled
  <2> HIDE DEF t, c
  <2>5. Keeps(m, c.mcb)
    BY <1>1, <2>4, KeepsThen DEF Keeps
  <2>6. Unowned(m, c.seg)
    BY <1>1, <2>4 DEF Unowned, Keeps, KeepsBut, KeepsAllBut
  <2>7. t.max \in Nat
    BY <2>2, <2>4, ValidFacts
  <2>8. Grants(m, t, owner, link)
    BY <1>1, <2>2, <2>4, <2>5, <2>6, <2>7 DEF Grants
  <2>9. QED
    BY <2>8 DEF t
<1>4. QED
  BY <1>2, <1>3

(* DosMemAlloc grants a block that nobody owned, or nothing.               *)
LEMMA AllocGrants ==
    ASSUME NEW m, NEW link, Tiled(m, link), NEW size \in Nat, NEW mode, NEW strat,
           NEW owner \in Nat \ {0}
    PROVE  Grants(m, DosMemAlloc(m, size, mode, link, strat, owner), owner, link)
<1> DEFINE one == Search(m, size, mode, link, strat)
           low == [mode EXCEPT !.u = FALSE]
           two == Search(one.mcb, size, low, link, strat)
           t   == TakeFound(two, size, low, owner)
<1>1. Finds(m, one, size, link)
  BY SearchFinds
<1>2. Grants(m, TakeFound(one, size, mode, owner), owner, link)
  <2> HIDE DEF one
  <2> QED  BY <1>1, TakeGrants
<1>3. Rearranged(m, one.mcb, link)
  BY <1>1 DEF Finds
<1> HIDE DEF one
<1>4. Finds(one.mcb, two, size, link)
  BY <1>3, SearchFinds DEF Rearranged
<1>5. Finds(m, two, size, link)
  <2> HIDE DEF two
  <2>1. Rearranged(m, two.mcb, link)
    BY <1>3, <1>4, RearrangedTwice DEF Finds
  <2>2. \A p : Unowned(one.mcb, p) => Unowned(m, p)
    BY <1>3 DEF Rearranged, Keeps, KeepsBut, KeepsAllBut, Unowned
  <2>3. QED
    BY <1>4, <2>1, <2>2 DEF Finds
<1>6. Grants(m, t, owner, link)
  <2> HIDE DEF two, low
  <2> QED  BY <1>5, TakeGrants
<1>7. DosMemAlloc(m, size, mode, link, strat, owner) =
        IF one.found = NONE /\ mode # LARGEST /\ mode.u /\ link THEN t
        ELSE TakeFound(one, size, mode, owner)
  BY DEF DosMemAlloc, Retry, one
<1> HIDE DEF t
<1>8. QED
  BY <1>2, <1>6, <1>7

(* DosMemLargest only joins unused blocks.                                 *)
LEMMA LargestKeeps ==
    ASSUME NEW m, NEW link, Tiled(m, link), NEW strat
    PROVE  LET l == DosMemLargest(m, link, strat)
           IN  Rearranged(m, l.mcb, link) /\ l.max \in Nat
<1> DEFINE high == Search(m, FAKE, LARGEST, link, strat)
           low  == Search(high.mcb, FAKE, LARGEST, link, [strat EXCEPT !.u = FALSE])
           l    == DosMemLargest(m, link, strat)
<1>1. FAKE \in Nat
  BY DEF FAKE
<1>2. Finds(m, high, FAKE, link)
  BY <1>1, SearchFinds
<1>3. Rearranged(m, high.mcb, link) /\ high.max \in Nat
  BY <1>2 DEF Finds
<1>4. l = IF strat.u THEN Larger(high, low) ELSE Larger(high, high)
  BY DEF DosMemLargest, LargestAfter
<1> HIDE DEF high
<1>5. Finds(high.mcb, low, FAKE, link)
  BY <1>1, <1>3, SearchFinds DEF Rearranged
<1>6. Rearranged(m, low.mcb, link) /\ low.max \in Nat
  BY <1>3, <1>5, RearrangedTwice DEF Finds
<1> HIDE DEF low, l
<1>7. CASE strat.u
  <2>1. l.mcb = low.mcb /\ l.max = IF low.max > high.max THEN low.max ELSE high.max
    BY <1>4, <1>7 DEF Larger
  <2>2. QED
    BY <1>3, <1>6, <2>1 DEF l
<1>8. CASE ~strat.u
  <2>1. l.mcb = high.mcb /\ l.max = IF high.max > high.max THEN high.max ELSE high.max
    BY <1>4, <1>8 DEF Larger
  <2>2. QED
    BY <1>3, <2>1 DEF l
<1>9. QED
  BY <1>7, <1>8

(***************************************************************************)
(* The largest block.                                                      *)
(***************************************************************************)
(* An unused block a walk comes to is one the search joins others to, or   *)
(* one that is joined.                                                     *)
LEMMA FreeAreHeads ==
    ASSUME NEW m, NEW link, Tiled(m, link), NEW p \in Reach(m, link, First), m[p].psp = FREE_PSP
    PROVE  p \in FreeHeads(m, First) \/ p \in AllJoined(m, FreeHeads(m, First))
<1> DEFINE F == {q \in Walk(m, First) : mcbFree(m, q)}
           Back == {x \in Reach(m, link, First) : x <= p /\ \A y \in Valid(m) : x <= y /\ y <= p => m[y].psp = FREE_PSP}
           h == Lowest(Back)
<1>1. Walk(m, First) = Reach(m, link, First) /\ F = {q \in Reach(m, link, First) : m[q].psp = FREE_PSP}
  BY WalkIs, RootFacts DEF mcbFree
<1>2. \A q \in Valid(m) : mcbValid(m, q) /\ q \in Nat /\ First <= q
  BY ValidParas DEF Valid
<1>3. p \in Valid(m) /\ p \in Nat /\ Reach(m, link, First) \subseteq Valid(m) /\ First \in Nat
      /\ \A x \in Reach(m, link, First) : x < UpperRoot \/ link \/ First >= UpperRoot
  BY <1>2, Layout DEF Reach
<1>4. Back \subseteq Nat /\ p \in Back
  <2>1. \A y \in Valid(m) : p <= y /\ y <= p => y = p
    BY <1>2, <1>3
  <2>2. p <= p
    BY <1>3
  <2>3. p \in Back
    BY <2>1, <2>2
  <2>4. Back \subseteq Valid(m)
    BY <1>3
  <2>5. QED
    BY <1>2, <2>3, <2>4
<1>5. h \in Back /\ \A x \in Back : h <= x
  <2> HIDE DEF Back
  <2> QED  BY <1>4, LowestOf
<1>6. h \in Reach(m, link, First) /\ h \in Valid(m) /\ h \in Nat /\ h <= p /\ m[h].psp = FREE_PSP
      /\ \A y \in Valid(m) : h <= y /\ y <= p => m[y].psp = FREE_PSP
  BY <1>2, <1>3, <1>5
<1>7. ASSUME NEW x \in F, nxtMCB(m, x) = h
      PROVE  FALSE
  <2>1. x \in Valid(m) /\ x \in Nat /\ m[x].psp = FREE_PSP /\ x < h /\ x \in Reach(m, link, First)
    BY <1>1, <1>2, <1>3, <1>7, ValidFacts
  <2>2. \A y \in Valid(m) : y <= x \/ h <= y
    BY <1>7, <2>1 DEF Tiled, NoneBetween
  <2>3. ASSUME NEW y \in Valid(m), x <= y, y <= p
        PROVE  m[y].psp = FREE_PSP
    <3>1. y = x \/ h <= y
      BY <1>2, <2>1, <2>2, <2>3
    <3>2. QED
      BY <1>6, <2>1, <2>3, <3>1
  <2>4. x \in Back
    BY <1>3, <1>6, <2>1, <2>3
  <2>5. QED
    BY <1>5, <1>6, <2>1, <2>4
<1>8. h \in FreeHeads(m, First)
  <2>1. h \in F /\ \A x \in F : nxtMCB(m, x) # h
    BY <1>1, <1>6, <1>7
  <2>2. QED
    BY <2>1 DEF FreeHeads
<1>9. CASE p = h
  BY <1>8, <1>9
<1>10. CASE p # h
  <2>1. Walk(m, h) = Reach(m, link, h)
    BY <1>6, WalkIs
  <2>2. p \in Reach(m, link, h) /\ p # h
    BY <1>3, <1>6, <1>10, Layout DEF Reach
  <2>3. ASSUME NEW x \in Walk(m, h) \ {h}, x <= p
        PROVE  mcbValid(m, x) /\ mcbFree(m, x)
    <3>1. x \in Valid(m) /\ h <= x
      BY <2>1 DEF Reach
    <3>2. QED
      BY <1>2, <1>6, <2>3, <3>1 DEF mcbFree
  <2>4. p \in Joined(m, h)
    BY <2>1, <2>2, <2>3 DEF Joined
  <2>5. QED
    BY <1>8, <2>4 DEF AllJoined
<1>11. QED
  BY <1>9, <1>10

(* A second search from the same place finds the blocks the first has left, *)
(* and joins nothing.                                                      *)
LEMMA SearchAgain ==
    ASSUME NEW m, NEW link, Tiled(m, link)
    PROVE  LET H == FreeHeads(m, First)
               j == joinMCBs(m, H)
               G == FreeHeads(j, First)
           IN  \A p \in G : p \in H /\ joinMCBs(j, G)[p].size = j[p].size
<1> DEFINE H == FreeHeads(m, First)
           j == joinMCBs(m, H)
           G == FreeHeads(j, First)
           k == joinMCBs(j, G)
<1>1. First \in Valid(m) /\ Apart(m, H) /\ \A q \in H : q \in Valid(m) /\ m[q].psp = FREE_PSP
  BY RootFacts, HeadsApart
<1>2. Tiled(j, link) /\ Keeps(m, j)
  <2> HIDE DEF H
  <2> QED  BY <1>1, JoinFree DEF Rearranged
<1>3. /\ Valid(j) = Valid(m) \ AllJoined(m, H)
      /\ \A p \in H : nxtMCB(j, p) = nxtMCB(m, LastJoined(m, p))
  <2> HIDE DEF H
  <2> QED  BY <1>1, JoinValid
<1>4. \A p \in Valid(j) : j[p].psp = m[p].psp
  <2> HIDE DEF H
  <2>1. /\ \A p \in H : j[p].psp = m[p].psp
        /\ \A x \in Para \ (H \cup AllJoined(m, H)) : j[x] = m[x]
    BY <1>1, JoinKeeps, JoinValues
  <2> HIDE DEF j
  <2>2. \A p \in Valid(j) : p \in Para /\ p \notin AllJoined(m, H)
    BY <1>3, ValidParas
  <2>3. QED
    BY <2>1, <2>2
<1>5. \A x \in FreeHeads(m, First) : \A y \in Reach(m, link, First) : m[y].psp = FREE_PSP => nxtMCB(m, y) # x
  <2>1. Walk(m, First) = Reach(m, link, First)
    BY <1>1, WalkIs
  <2>2. \A q \in Valid(m) : mcbValid(m, q)
    BY DEF Valid
  <2>3. QED
    BY <1>1, <2>1, <2>2 DEF FreeHeads, mcbFree
<1> HIDE DEF j
<1>6. First \in Valid(j) /\ Apart(j, G) /\ \A q \in G : q \in Valid(j) /\ j[q].psp = FREE_PSP
  BY <1>2, RootFacts, HeadsApart
<1>7. ASSUME NEW p \in Reach(j, link, First), j[p].psp = FREE_PSP
      PROVE  p \in H
  <2>1. p \in Valid(j) /\ p \in Valid(m) /\ m[p].psp = FREE_PSP
    BY <1>3, <1>4, <1>7 DEF Reach
  <2>2. p \in Reach(m, link, First)
    BY <1>7, <2>1 DEF Reach
  <2>3. p \in H \/ p \in AllJoined(m, H)
    BY <2>1, <2>2, FreeAreHeads
  <2>4. QED
    BY <1>3, <2>1, <2>3
<1>8. \A p \in G : p \in Reach(j, link, First) /\ j[p].psp = FREE_PSP
  BY <1>2, <1>6, WalkIs DEF FreeHeads, mcbFree
<1>9. ASSUME NEW p \in G
      PROVE  Joined(j, p) = {}
  <2>1. SUFFICES ASSUME NEW q \in Joined(j, p)
                 PROVE  FALSE
    OBVIOUS
  <2> DEFINE l == LastJoined(m, p)
             r == nxtMCB(j, p)
  <2>2. p \in Valid(j) /\ p \in H /\ p \in Valid(m) /\ p \in Nat /\ p \in Reach(j, link, First)
    BY <1>1, <1>6, <1>7, <1>8, ValidParas
  <2>3. q \in Valid(j) /\ q > p /\ q \in Nat
    BY <1>2, <2>2, JoinedFacts, ValidParas
  <2>4. r \in Valid(j) \cup {Top} /\ r > p /\ r \in Nat /\ r <= q
    <3>1. NextIsOne(j, p) /\ NoneBetween(j, p)
      BY <1>2, <2>2 DEF Tiled
    <3>2. r > p /\ r \in Nat
      BY <1>2, <2>2, ValidFacts
    <3>3. q <= p \/ r <= q
      BY <2>3, <3>1 DEF NoneBetween
    <3>4. QED
      BY <2>2, <2>3, <3>1, <3>2, <3>3 DEF NextIsOne
  <2>5. r \in Valid(j)
    BY <2>3, <2>4, ValidParas, Layout
  <2>6. r \in Joined(j, p) /\ j[r].psp = FREE_PSP /\ r # p
    BY <1>2, <2>2, <2>3, <2>4, <2>5, JoinedFacts
  <2>7. r \in Reach(j, link, p)
    BY <1>2, <2>2, <2>6, WalkIs DEF Joined
  <2>8. r \in Reach(j, link, First)
    BY <2>2, <2>5, <2>7, ValidParas, Layout DEF Reach
  <2>9. r \in H
    BY <1>7, <2>6, <2>8
  <2>10. l \in Valid(m) /\ m[l].psp = FREE_PSP /\ l \in Nat /\ p <= l
    BY <1>1, <2>2, LastJoinedFacts, JoinedFacts, ValidParas
  <2>11. l \in Reach(m, link, First)
    <3>1. CASE l = p
      BY <2>2, <2>10, <3>1 DEF Reach
    <3>2. CASE l # p
      <4>1. l \in Joined(m, p)
        BY <2>2, <3>2, LastJoinedFacts
      <4>2. l \in Reach(m, link, p)
        BY <2>2, <4>1, WalkIs DEF Joined
      <4>3. QED
        BY <2>2, <2>10, <4>2, ValidParas, Layout DEF Reach
    <3>3. QED
      BY <3>1, <3>2
  <2>12. nxtMCB(m, l) = r
    BY <1>3, <2>2
  <2>13. QED
    BY <1>5, <2>9, <2>10, <2>11, <2>12
<1>10. ASSUME NEW p \in G
       PROVE  k[p].size = j[p].size
  <2> HIDE DEF G
  <2>1. LastJoined(j, p) = p
    <3>1. p \in Valid(j) /\ Joined(j, p) = {}
      BY <1>6, <1>9, <1>10
    <3>2. QED
      BY <1>2, <3>1, LastJoinedFacts
  <2>2. nxtMCB(k, p) = nxtMCB(j, p)
    BY <1>2, <1>6, <1>10, <2>1, JoinValid
  <2>3. p \in Valid(k) /\ Tiled(k, link)
    BY <1>2, <1>6, <1>10, JoinFree DEF Rearranged
  <2> HIDE DEF k
  <2>4. p \in Nat /\ j[p].size \in Nat /\ k[p].size \in Nat
    BY <1>2, <1>6, <1>10, <2>3, ValidFacts, ValidParas
  <2>5. QED
    BY <2>2, <2>4 DEF nxtMCB
<1>11. \A p \in G : p \in H
  BY <1>7, <1>8
<1>12. QED
  BY <1>10, <1>11 DEF j

(* The size reported is that of the largest of the blocks a search has     *)
(* joined.                                                                 *)
Sees(j, Heads, max) ==
    /\ max \in Nat /\ \A p \in Heads : j[p].size <= max
    /\ max > 0 => \E p \in Heads : j[p].size = max
Enough(j, Heads, size) == \E p \in Heads : j[p].size >= size

(* The blocks a search joins are numbers, and the sizes come to be less    *)
(* than the size of a joined block.                                        *)
LEMMA JoinedHeads ==
    ASSUME NEW m, NEW link, Tiled(m, link), NEW Heads, Apart(m, Heads),
           \A q \in Heads : m[q].psp = FREE_PSP
    PROVE  LET j == joinMCBs(m, Heads)
           IN  /\ Heads \subseteq Nat /\ Heads \subseteq 0 .. Top /\ Tiled(j, link)
               /\ \A p \in Heads : j[p].size \in Nat /\ j[p].size < FAKE /\ j[p].size <= Top
<1> DEFINE j == joinMCBs(m, Heads)
<1>1. Tiled(j, link) /\ \A p \in Heads : p \in Valid(j)
  BY JoinFree DEF Rearranged
<1> HIDE DEF j
<1>2. \A p \in Heads : p \in Nat /\ p \in 0 .. Top /\ First <= p /\ j[p].size \in Nat
                       /\ p + j[p].size + 1 <= Top
  BY <1>1, ValidFacts, ValidParas
<1>3. \A p \in Heads : j[p].size < FAKE /\ j[p].size <= Top
  BY <1>2, Layout DEF FAKE
<1>4. QED
  BY <1>1, <1>2, <1>3 DEF j

(* DosMemLargest's search joins all blocks it passes and sees the largest. *)
LEMMA ChooseSees ==
    ASSUME NEW m, NEW link, Tiled(m, link), NEW Heads, Apart(m, Heads),
           \A q \in Heads : m[q].psp = FREE_PSP
    PROVE  LET j == joinMCBs(m, Heads)
               s == Choose(m, j, Heads, FAKE, LARGEST)
           IN  s.mcb = j /\ Sees(j, Heads, s.max)
<1> DEFINE j       == joinMCBs(m, Heads)
           Largest == {p \in Heads : \A q \in Heads : j[q].size <= j[p].size}
           Sizes   == {j[p].size : p \in Heads}
           s       == Choose(m, j, Heads, FAKE, LARGEST)
<1>1. Heads \subseteq Nat /\ \A p \in Heads : j[p].size \in Nat /\ j[p].size < FAKE /\ j[p].size <= Top
  BY JoinedHeads
<1> HIDE DEF j
<1>2. {p \in Heads : j[p].size >= FAKE} = {}
  <2>1. ASSUME NEW p \in Heads
        PROVE  ~(j[p].size >= FAKE) /\ j[p].size \in 0 .. Top
    BY <1>1, Layout DEF FAKE
  <2>2. QED
    BY <2>1
<1>3. s.mcb = j /\ s.max = IF Heads = {} THEN 0 ELSE j[Lowest(Largest)].size
  BY <1>2 DEF Choose
<1>4. ASSUME Heads # {}
      PROVE  Lowest(Largest) \in Largest
  <2>1. Sizes \subseteq 0 .. Top /\ Sizes # {}
    <3>1. ASSUME NEW p \in Heads
          PROVE  j[p].size \in 0 .. Top
      BY <1>1, Layout
    <3>2. QED
      BY <1>4, <3>1
  <2>2. Highest(Sizes) \in Sizes /\ \A z \in Sizes : z <= Highest(Sizes)
    <3> HIDE DEF Sizes
    <3> QED  BY <2>1, HighestPara
  <2>3. PICK b \in Heads : Highest(Sizes) = j[b].size
    BY <2>2
  <2>4. b \in Largest
    BY <2>2, <2>3
  <2>5. Largest \subseteq Nat /\ Largest # {}
    BY <1>1, <2>4
  <2>6. QED
    <3> HIDE DEF Largest
    <3> QED  BY <2>5, LowestOf
<1> HIDE DEF s
<1>5. Sees(j, Heads, s.max)
  <2>1. CASE Heads = {}
    BY <1>3, <2>1 DEF Sees
  <2>2. CASE Heads # {}
    <3> DEFINE t == Lowest(Largest)
    <3>1. t \in Heads /\ \A q \in Heads : j[q].size <= j[t].size
      BY <1>4, <2>2
    <3> HIDE DEF t
    <3>2. s.max = j[t].size
      BY <1>3, <2>2 DEF t
    <3>3. QED
      BY <1>1, <3>1, <3>2 DEF Sees
  <2>3. QED
    BY <2>1, <2>2
<1>6. QED
  BY <1>3, <1>5 DEF j, s

(* A search for some size finds a block exactly if there is one, and joins *)
(* all it has passed if there is none.                                     *)
LEMMA ChooseGets ==
    ASSUME NEW m, NEW link, Tiled(m, link), NEW Heads, Apart(m, Heads),
           \A q \in Heads : m[q].psp = FREE_PSP, NEW size \in Nat \ {0}, NEW mode,
           Fit(mode) \in Fits
    PROVE  LET j == joinMCBs(m, Heads)
               s == Choose(m, j, Heads, size, mode)
           IN  /\ s.found # NONE <=> Enough(j, Heads, size)
               /\ s.found = NONE => s.mcb = j
<1> DEFINE j     == joinMCBs(m, Heads)
           Big   == {p \in Heads : j[p].size >= size}
           Least == {p \in Big : \A q \in Big : j[p].size <= j[q].size}
           Sizes == {j[p].size : p \in Big}
           fit   == CASE Fit(mode) = "first"   -> Lowest(Big)
                      [] Fit(mode) = "best"    -> Lowest(Least)
                      [] Fit(mode) = "largest" -> Lowest({p \in Heads : \A q \in Heads : j[q].size <= j[p].size})
                      [] OTHER                 -> Highest(Big)
           found == IF Big = {} THEN NONE ELSE fit
           s     == Choose(m, j, Heads, size, mode)
<1>1. /\ Heads \subseteq Nat /\ Heads \subseteq 0 .. Top
      /\ \A p \in Heads : j[p].size \in Nat
  BY JoinedHeads
<1>2. s.found = IF Big # {} /\ Fit(mode) = "first" THEN found
                ELSE IF Big # {} /\ j[found].size = 0 THEN NONE ELSE found
  BY DEF Choose
<1>3. Big = {} => s.mcb = j
  BY DEF Choose
<1> HIDE DEF j, s
<1>4. Enough(j, Heads, size) <=> Big # {}
  BY DEF Enough
<1>5. ASSUME Big # {}
      PROVE  found \in Big
  <2>1. Big \subseteq Nat /\ Big \subseteq 0 .. Top
    BY <1>1
  <2>2. Lowest(Big) \in Big /\ Highest(Big) \in Big
    <3> HIDE DEF Big
    <3> QED  BY <1>5, <2>1, LowestOf, HighestPara
  <2>3. Lowest(Least) \in Big
    <3>1. Sizes \subseteq Nat /\ Sizes # {}
      BY <1>1, <1>5
    <3>2. Lowest(Sizes) \in Sizes /\ \A z \in Sizes : Lowest(Sizes) <= z
      <4> HIDE DEF Sizes
      <4> QED  BY <3>1, LowestOf
    <3>3. PICK b \in Big : Lowest(Sizes) = j[b].size
      BY <3>2
    <3>4. b \in Least
      BY <3>2, <3>3
    <3>5. Least \subseteq Nat /\ Least # {}
      BY <2>1, <3>4
    <3>6. Lowest(Least) \in Least
      <4> HIDE DEF Least
      <4> QED  BY <3>5, LowestOf
    <3>7. QED
      BY <3>6
  <2> HIDE DEF Big, Least
  <2>4. found = Lowest(Big) \/ found = Lowest(Least) \/ found = Highest(Big)
    BY <1>5 DEF Fits
  <2>5. QED
    BY <2>2, <2>3, <2>4
<1>6. Big # {} => s.found \in Nat
  <2>1. ASSUME Big # {}
        PROVE  found \in Nat /\ j[found].size # 0
    BY <1>1, <1>5, <2>1, SMTT(30)
  <2> HIDE DEF found, Big
  <2>2. QED
    BY <1>2, <2>1
<1>7. Big = {} => s.found = NONE
  BY <1>2
<1> HIDE DEF Big
<1>8. s.found # NONE <=> Enough(j, Heads, size)
  BY <1>4, <1>6, <1>7 DEF NONE
<1>9. QED
  BY <1>3, <1>4, <1>8 DEF j, s

(* The searches of DosMemLargest and DosMemAlloc start at the same place.   *)
Start(link, strat) == IF link /\ (strat.uo \/ strat.u) THEN UpperRoot ELSE First
Seen(m, p)         == joinMCBs(m, FreeHeads(m, p))

(* What a program may set as its strategy.                                 *)
Settable == {s \in Strategies : ~(s.uo /\ s.u)}

(* DosMemLargest sees all that the searches of DosMemAlloc may come to.    *)
LEMMA LargestSees ==
    ASSUME NEW m, NEW link, Tiled(m, link), NEW strat \in Settable
    PROVE  LET p    == Start(link, strat)
               j    == Seen(m, p)
               high == FreeHeads(m, p)
               low  == FreeHeads(j, First)
               max  == DosMemLargest(m, link, strat).max
           IN  /\ max \in Nat
               /\ \A q \in high : j[q].size <= max
               /\ strat.u => \A q \in low : Seen(j, First)[q].size <= max
               /\ max > 0 => \/ \E q \in high : j[q].size = max
                             \/ strat.u /\ \E q \in low : Seen(j, First)[q].size = max
<1> DEFINE p    == Start(link, strat)
           Hi   == FreeHeads(m, p)
           j    == joinMCBs(m, Hi)
           Lo   == FreeHeads(j, First)
           k    == joinMCBs(j, Lo)
           high == Search(m, FAKE, LARGEST, link, strat)
           down == [strat EXCEPT !.u = FALSE]
           low  == Search(high.mcb, FAKE, LARGEST, link, down)
           l    == DosMemLargest(m, link, strat)
<1>1. strat \in Strategies /\ down \in Strategies /\ ~down.u /\ down.uo = strat.uo /\ ~(strat.uo /\ strat.u)
  BY DEF Settable, Strategies
<1>2. SearchStart(FAKE, LARGEST, link, strat) = p
  BY DEF SearchStart, Start
<1>3. strat.u => SearchStart(FAKE, LARGEST, link, down) = First
  BY <1>1 DEF SearchStart
<1>4. l = IF strat.u THEN Larger(high, low) ELSE Larger(high, high)
  BY DEF DosMemLargest, LargestAfter
<1>5. p \in Valid(m) /\ Apart(m, Hi) /\ \A q \in Hi : m[q].psp = FREE_PSP
  <2>1. p \in Valid(m)
    BY RootFacts DEF Start
  <2> HIDE DEF p
  <2>2. QED
    BY <2>1, HeadsApart
<1>6. high = Choose(m, j, Hi, FAKE, LARGEST)
  BY <1>2 DEF Search
<1>7. high.mcb = j /\ Sees(j, Hi, high.max) /\ Tiled(j, link)
  <2> HIDE DEF Hi
  <2> QED  BY <1>5, <1>6, ChooseSees, JoinedHeads
<1> HIDE DEF high, j, Hi, p
<1>8. First \in Valid(j) /\ Apart(j, Lo) /\ \A q \in Lo : j[q].psp = FREE_PSP
  BY <1>7, RootFacts, HeadsApart
<1>9. strat.u => low = Choose(j, k, Lo, FAKE, LARGEST)
  BY <1>3, <1>7 DEF Search
<1>10. strat.u => Sees(k, Lo, low.max)
  <2> HIDE DEF Lo, low
  <2> QED  BY <1>7, <1>8, <1>9, ChooseSees
<1> HIDE DEF low, k, Lo, l
<1>11. strat.u => l.max = IF low.max > high.max THEN low.max ELSE high.max
  BY <1>4 DEF Larger
<1>12. ~strat.u => l.max = high.max
  BY <1>4 DEF Larger
<1>13. /\ l.max \in Nat
       /\ \A q \in Hi : j[q].size <= l.max
       /\ strat.u => \A q \in Lo : k[q].size <= l.max
       /\ l.max > 0 => \/ \E q \in Hi : j[q].size = l.max
                       \/ strat.u /\ \E q \in Lo : k[q].size = l.max
  <2>1. /\ high.max \in Nat /\ \A q \in Hi : j[q].size <= high.max
        /\ high.max > 0 => \E q \in Hi : j[q].size = high.max
    BY <1>7 DEF Sees
  <2>2. /\ \A q \in Hi : j[q].size \in Nat
        /\ \A q \in Lo : k[q].size \in Nat
    <3>1. \A q \in Hi : j[q].size \in Nat
      BY <1>5, JoinedHeads DEF j
    <3>2. \A q \in Lo : k[q].size \in Nat
      BY <1>7, <1>8, JoinedHeads DEF k
    <3>3. QED
      BY <3>1, <3>2
  <2>3. CASE ~strat.u
    BY <1>12, <2>1, <2>3
  <2>4. CASE strat.u
    <3>1. /\ low.max \in Nat /\ \A q \in Lo : k[q].size <= low.max
          /\ low.max > 0 => \E q \in Lo : k[q].size = low.max
      BY <1>10, <2>4 DEF Sees
    <3>2. l.max \in Nat /\ high.max <= l.max /\ low.max <= l.max /\ (l.max = low.max \/ l.max = high.max)
      BY <1>11, <2>1, <2>4, <3>1
    <3>3. ASSUME NEW q \in Hi
          PROVE  j[q].size <= l.max
      BY <2>1, <2>2, <3>2
    <3>4. ASSUME NEW q \in Lo
          PROVE  k[q].size <= l.max
      BY <2>2, <3>1, <3>2
    <3>5. QED
      BY <2>1, <2>4, <3>1, <3>2, <3>3, <3>4
  <2>5. QED
    BY <2>3, <2>4
<1>14. QED
  BY <1>13 DEF l, j, k, Hi, Lo, p, Seen

(* DosMemAlloc grants a block exactly if one of its searches comes to one  *)
(* of the size asked for.                                                  *)
LEMMA AllocGets ==
    ASSUME NEW m, NEW link, Tiled(m, link), NEW strat \in Settable, NEW n \in Nat \ {0},
           NEW owner \in Nat \ {0}
    PROVE  LET p == Start(link, strat)
               j == Seen(m, p)
           IN  DosMemAlloc(m, n, strat, link, strat, owner).seg # NONE <=>
                 \/ Enough(j, FreeHeads(m, p), n)
                 \/ strat.u /\ link /\ Enough(Seen(j, First), FreeHeads(j, First), n)
<1> DEFINE p    == Start(link, strat)
           Hi   == FreeHeads(m, p)
           j    == joinMCBs(m, Hi)
           Lo   == FreeHeads(j, First)
           k    == joinMCBs(j, Lo)
           one  == Search(m, n, strat, link, strat)
           down == [strat EXCEPT !.u = FALSE]
           two  == Search(one.mcb, n, down, link, strat)
           a    == DosMemAlloc(m, n, strat, link, strat, owner)
<1>1. /\ strat \in Strategies /\ down \in Strategies /\ ~down.u /\ down.uo = strat.uo
      /\ ~(strat.uo /\ strat.u) /\ strat # LARGEST /\ down # LARGEST
      /\ Fit(strat) \in Fits /\ Fit(down) \in Fits
  <2>1. strat \in Strategies /\ ~(strat.uo /\ strat.u) /\ strat.fit \in Fits
    BY DEF Settable, Strategies
  <2>2. down \in Strategies /\ ~down.u /\ down.uo = strat.uo /\ down.fit = strat.fit
    BY <2>1 DEF Strategies
  <2> HIDE DEF down
  <2>3. strat # LARGEST /\ down # LARGEST
    BY <2>1, <2>2 DEF LARGEST, Fits
  <2>4. Fit(strat) \in Fits /\ Fit(down) \in Fits
    BY <2>1, <2>2 DEF Fit
  <2>5. QED
    BY <2>1, <2>2, <2>3, <2>4
<1>2. SearchStart(n, strat, link, strat) = p
  BY <1>1 DEF SearchStart, Start
<1>3. strat.u => SearchStart(n, down, link, strat) = First
  BY <1>1 DEF SearchStart
<1>4. a = IF one.found = NONE /\ strat.u /\ link THEN TakeFound(two, n, down, owner)
          ELSE TakeFound(one, n, strat, owner)
  BY <1>1 DEF DosMemAlloc, Retry
<1>5. p \in Valid(m) /\ Apart(m, Hi) /\ \A q \in Hi : m[q].psp = FREE_PSP
  <2>1. p \in Valid(m)
    BY RootFacts DEF Start
  <2> HIDE DEF p
  <2>2. QED
    BY <2>1, HeadsApart
<1>6. one = Choose(m, j, Hi, n, strat)
  BY <1>2 DEF Search
<1>7. (one.found # NONE <=> Enough(j, Hi, n)) /\ (one.found = NONE => one.mcb = j) /\ Tiled(j, link)
  <2> HIDE DEF Hi, one
  <2> QED  BY <1>1, <1>5, <1>6, ChooseGets, JoinedHeads
<1>8. Finds(m, one, n, link)
  BY SearchFinds
<1> HIDE DEF one, j, Hi, p
<1>9. First \in Valid(j) /\ Apart(j, Lo) /\ \A q \in Lo : j[q].psp = FREE_PSP
  BY <1>7, RootFacts, HeadsApart
<1>10. strat.u /\ one.found = NONE => two = Choose(j, k, Lo, n, down)
  BY <1>3, <1>7 DEF Search
<1> HIDE DEF down
<1>11. strat.u /\ one.found = NONE => (two.found # NONE <=> Enough(k, Lo, n))
  <2> HIDE DEF Lo, two
  <2> QED  BY <1>1, <1>7, <1>9, <1>10, ChooseGets
<1>12. one.found = NONE => Finds(j, two, n, link)
  BY <1>7, SearchFinds
<1> HIDE DEF two, k, Lo, a
<1>13. ASSUME NEW s, NEW x, NEW mode, Finds(x, s, n, link)
       PROVE  TakeFound(s, n, mode, owner).seg # NONE <=> s.found # NONE
  <2>1. CASE s.found = NONE
    BY <2>1 DEF TakeFound
  <2>2. CASE s.found # NONE
    <3> DEFINE c == Split(s.mcb, s.found, n, mode, owner)
    <3>1. s.found \in Valid(s.mcb) /\ s.mcb[s.found].psp = FREE_PSP /\ s.mcb[s.found].size >= n /\ Tiled(s.mcb, link)
      BY <1>13, <2>2 DEF Finds, Rearranged
    <3>2. c.seg \in Nat
      BY <3>1, SplitTiled
    <3>3. TakeFound(s, n, mode, owner).seg = c.seg
      BY <2>2 DEF TakeFound, Taken
    <3>4. QED
      BY <2>2, <3>2, <3>3 DEF NONE
  <2>3. QED
    BY <2>1, <2>2
<1>14. a.seg # NONE <=> Enough(j, Hi, n) \/ (strat.u /\ link /\ Enough(k, Lo, n))
  <2>1. CASE one.found = NONE /\ strat.u /\ link
    <3>1. a.seg # NONE <=> two.found # NONE
      BY <1>4, <1>12, <1>13, <2>1
    <3>2. QED
      BY <1>7, <1>11, <2>1, <3>1
  <2>2. CASE ~(one.found = NONE /\ strat.u /\ link)
    <3>1. a.seg # NONE <=> one.found # NONE
      BY <1>4, <1>8, <1>13, <2>2
    <3>2. QED
      BY <1>7, <2>2, <3>1
  <2>3. QED
    BY <2>1, <2>2
<1>15. QED
  BY <1>14 DEF a, j, k, Hi, Lo, p, Seen

(* What DosMemLargest reports for tiled memory can be had, and no more.    *)
LEMMA LargestIs ==
    ASSUME NEW m, NEW link, Tiled(m, link), NEW strat \in Settable, NEW owner \in Nat \ {0}
    PROVE  LET L == DosMemLargest(m, link, strat).max
           IN  /\ L > 0 => DosMemAlloc(m, L, strat, link, strat, owner).seg # NONE
               /\ DosMemAlloc(m, L + 1, strat, link, strat, owner).seg = NONE
<1> DEFINE p    == Start(link, strat)
           j    == Seen(m, p)
           high == FreeHeads(m, p)
           low  == FreeHeads(j, First)
           k    == Seen(j, First)
           L    == DosMemLargest(m, link, strat).max
<1>1. /\ L \in Nat
      /\ \A q \in high : j[q].size <= L
      /\ strat.u => \A q \in low : k[q].size <= L
      /\ L > 0 => (\E q \in high : j[q].size = L) \/ (strat.u /\ \E q \in low : k[q].size = L)
  BY LargestSees
<1>2. ASSUME NEW n \in Nat \ {0}
      PROVE  DosMemAlloc(m, n, strat, link, strat, owner).seg # NONE <=>
               Enough(j, high, n) \/ (strat.u /\ link /\ Enough(k, low, n))
  BY AllocGets
<1>3. /\ p \in Valid(m) /\ Apart(m, high) /\ \A q \in high : m[q].psp = FREE_PSP
  <2>1. p \in Valid(m)
    BY RootFacts DEF Start
  <2> HIDE DEF p
  <2>2. QED
    BY <2>1, HeadsApart
<1>4. \A q \in high : j[q].size \in Nat
  BY <1>3, JoinedHeads DEF Seen
<1>5. Tiled(j, link)
  BY <1>3, JoinedHeads DEF Seen
<1>6. \A q \in low : k[q].size \in Nat
  <2> HIDE DEF j
  <2>1. First \in Valid(j) /\ Apart(j, low) /\ \A q \in low : j[q].psp = FREE_PSP
    BY <1>5, RootFacts, HeadsApart
  <2>2. QED
    BY <1>5, <2>1, JoinedHeads DEF Seen
<1>7. ~link => \A q \in low : q \in high /\ k[q].size = j[q].size
  BY SearchAgain DEF Seen, Start
<1> HIDE DEF L, k, low, j, high, p
<1>8. ASSUME L > 0
      PROVE  DosMemAlloc(m, L, strat, link, strat, owner).seg # NONE
  <2>1. CASE \E q \in high : j[q].size = L
    <3>1. Enough(j, high, L)
      BY <1>1, <2>1 DEF Enough
    <3>2. QED
      BY <1>1, <1>2, <1>8, <3>1
  <2>2. CASE strat.u /\ \E q \in low : k[q].size = L
    <3>1. Enough(k, low, L) /\ (~link => Enough(j, high, L))
      BY <1>1, <1>7, <2>2 DEF Enough
    <3>2. QED
      BY <1>1, <1>2, <1>8, <2>2, <3>1
  <2>3. QED
    BY <1>1, <1>8, <2>1, <2>2
<1>9. DosMemAlloc(m, L + 1, strat, link, strat, owner).seg = NONE
  <2>1. ~Enough(j, high, L + 1)
    BY <1>1, <1>4 DEF Enough
  <2>2. ~(strat.u /\ Enough(k, low, L + 1))
    BY <1>1, <1>6 DEF Enough
  <2>3. L + 1 \in Nat \ {0}
    BY <1>1
  <2>4. QED
    BY <1>2, <2>1, <2>2, <2>3
<1>10. QED
  BY <1>8, <1>9 DEF L

(***************************************************************************)
(* DosMemFree and DosMemChange.                                            *)
(***************************************************************************)
LEMMA FreeTiled ==
    ASSUME NEW m, NEW link, Tiled(m, link), NEW p \in Int, p # UpperRoot
    PROVE  LET f == DosMemFree(m, p)
           IN  /\ Tiled(f, link) /\ KeepsAllBut(m, f, p) /\ Valid(f) = Valid(m)
               /\ Owners(f) \subseteq Owners(m) \cup {FREE_PSP}
<1> DEFINE f == DosMemFree(m, p)
           w == WithOwner(m, p, FREE_PSP)
<1>1. f = w \/ f = m
  BY DEF DosMemFree, WithOwner
<1>2. FREE_PSP \in Int
  BY DEF FREE_PSP
<1>3. /\ Tiled(w, link) /\ KeepsAllBut(m, w, p) /\ Valid(w) = Valid(m)
      /\ Owners(w) \subseteq Owners(m) \cup {FREE_PSP}
  <2> HIDE DEF f
  <2>1. Tiled(w, link) /\ KeepsAllBut(m, w, p) /\ Valid(w) = Valid(m)
    BY <1>2, SetOwner
  <2>2. Owners(w) \subseteq Owners(m) \cup {FREE_PSP}
    BY <1>2, SetOwner
  <2>3. QED
    BY <2>1, <2>2
<1>4. KeepsAllBut(m, m, p)
  BY DEF KeepsAllBut, KeepsBut
<1> HIDE DEF f, w
<1>5. QED
  BY <1>1, <1>3, <1>4 DEF f

(* One block joins what is unused behind it.                               *)
LEMMA GrowTiled ==
    ASSUME NEW m, NEW link, Tiled(m, link), NEW p \in Valid(m)
    PROVE  LET j == joinMCBs(m, {p})
           IN  /\ Tiled(j, link) /\ KeepsAllBut(m, j, p) /\ Owners(j) \subseteq Owners(m)
               /\ p \in Valid(j) /\ j[p].psp = m[p].psp
<1> DEFINE P == {p}
           j == joinMCBs(m, P)
<1>1. p \in Nat /\ p \in P
  BY ValidParas
<1>2. Apart(m, P)
  <2>1. p \notin Joined(m, p)
    BY <1>1, JoinedFacts
  <2>2. QED
    BY <2>1 DEF Apart
<1> HIDE DEF P
<1>3. /\ KeepsBut(m, j, P) /\ Owners(j) \subseteq Owners(m)
      /\ \A x \in P : x \in Valid(j) /\ j[x].psp = m[x].psp
  BY <1>2, JoinKeeps
<1>4. Tiled(j, link)
  BY <1>2, JoinTiled
<1> HIDE DEF j
<1>5. KeepsAllBut(m, j, p)
  BY <1>3 DEF KeepsAllBut, P
<1>6. QED
  BY <1>1, <1>3, <1>4, <1>5 DEF j, P

(* DosMemChange changes one block, cut or grown over unused ones.          *)
LEMMA ChangeTiled ==
    ASSUME NEW m, NEW link, Tiled(m, link), NEW p \in Int, p # UpperRoot,
           NEW size \in Nat, NEW owner \in Nat \ {0}
    PROVE  LET d == DosMemChange(m, p, size, owner)
           IN  /\ Tiled(d, link) /\ KeepsAllBut(m, d, p)
               /\ Owners(d) \subseteq Owners(m) \cup {FREE_PSP, owner}
               /\ p \in Valid(m) => p \in Valid(d) /\ d[p].psp \in {m[p].psp, owner}
<1> DEFINE d == DosMemChange(m, p, size, owner)
           g == IF size > m[p].size THEN joinMCBs(m, {p}) ELSE m
           q == p + size + 1
           s == [g EXCEPT ![p] = [type |-> "normal", psp |-> owner, size |-> size],
                          ![q] = [type |-> g[p].type, psp |-> FREE_PSP, size |-> g[p].size - size - 1]]
<1>1. d = IF ~mcbValid(m, p) THEN m
          ELSE IF size > g[p].size THEN g
          ELSE IF size = g[p].size THEN WithOwner(g, p, owner)
          ELSE joinMCBs(s, {q})
  BY DEF DosMemChange, WithOwner
<1>2. KeepsAllBut(m, m, p)
  BY DEF KeepsAllBut, KeepsBut
<1>3. CASE p \notin Valid(m)
  <2>1. d = m
    <3> HIDE DEF d, g, s
    <3> QED  BY <1>1, <1>3 DEF Valid, mcbValid
  <2>2. QED
    BY <1>2, <1>3, <2>1
<1>4. CASE p \in Valid(m)
  <2>1. mcbValid(m, p)
    BY <1>4 DEF Valid
  <2>2. /\ Tiled(g, link) /\ KeepsAllBut(m, g, p) /\ Owners(g) \subseteq Owners(m)
        /\ p \in Valid(g) /\ g[p].psp = m[p].psp
    <3>1. CASE size > m[p].size
      <4>1. g = joinMCBs(m, {p})
        BY <3>1
      <4> HIDE DEF g
      <4>2. QED
        BY <1>4, <4>1, GrowTiled
    <3>2. CASE ~(size > m[p].size)
      <4>1. g = m
        BY <3>2
      <4> HIDE DEF g
      <4>2. QED
        BY <1>2, <1>4, <4>1
    <3>3. QED
      BY <3>1, <3>2
  <2> HIDE DEF g
  <2>3. /\ p \in Nat /\ p \in Para /\ g[p].size \in Nat /\ nxtMCB(g, p) = p + g[p].size + 1
        /\ owner \in Int /\ FREE_PSP \in Int
    BY <2>2, ValidFacts, ValidParas DEF FREE_PSP
  <2>4. CASE size > g[p].size
    <3>1. d = g
      BY <1>1, <2>1, <2>4
    <3> HIDE DEF d
    <3>2. QED
      BY <2>2, <3>1 DEF d
  <2>5. CASE size = g[p].size
    <3> HIDE DEF q, s
    <3> DEFINE w == WithOwner(g, p, owner)
    <3>1. d = w
      BY <1>1, <2>1, <2>3, <2>5
    <3>2. /\ Tiled(w, link) /\ Valid(w) = Valid(g) /\ KeepsAllBut(g, w, p)
          /\ Owners(w) \subseteq Owners(g) \cup {owner}
          /\ p \in Para => w[p].psp = owner
      <4> HIDE DEF d
      <4>1. Tiled(g, link) /\ owner \in Int
        BY <2>2, <2>3
      <4>2. QED
        BY <4>1, SetOwner
    <3> HIDE DEF w, d
    <3>3. w[p].psp = owner
      BY <2>3, <3>2
    <3>4. KeepsAllBut(m, w, p)
      BY <2>2, <3>2 DEF KeepsAllBut, KeepsBut
    <3>5. QED
      BY <2>2, <3>1, <3>2, <3>3, <3>4 DEF d
  <2>6. CASE size < g[p].size
    <3> DEFINE c == Cut(g, p, q, owner, FREE_PSP)
    <3>1. q \in Nat /\ p < q /\ q < nxtMCB(g, p)
      BY <2>3, <2>6
    <3>2. q - p - 1 = size /\ nxtMCB(g, p) - q - 1 = g[p].size - size - 1
      BY <2>3
    <3>3. c = s
      <4> HIDE DEF q
      <4> QED  BY <3>2 DEF Cut
    <3>4. d = joinMCBs(c, {q})
      <4>1. ~(size > g[p].size) /\ size # g[p].size
        BY <2>3, <2>6
      <4> HIDE DEF q, s, c, d
      <4>2. QED
        BY <1>1, <2>1, <3>3, <4>1
    <3> HIDE DEF q, s, d
    <3>5. /\ Tiled(c, link) /\ Valid(c) = Valid(g) \cup {q} /\ q \notin Valid(g)
          /\ c[p].psp = owner /\ c[q].psp = FREE_PSP
          /\ KeepsAllBut(g, c, p) /\ Owners(c) \subseteq Owners(g) \cup {owner, FREE_PSP}
      BY <2>2, <2>3, <3>1, CutTiled
    <3> HIDE DEF c
    <3>6. /\ Tiled(d, link) /\ KeepsAllBut(c, d, q) /\ Owners(d) \subseteq Owners(c)
      BY <3>4, <3>5, GrowTiled
    <3>7. Keeps(c, d)
      BY <3>5, <3>6 DEF Keeps, KeepsAllBut, KeepsBut
    <3>8. KeepsAllBut(m, d, p)
      BY <2>2, <3>5, <3>7 DEF Keeps, KeepsAllBut, KeepsBut
    <3>9. p \in Valid(d) /\ d[p].psp = owner
      <4>1. owner # FREE_PSP /\ p \in Valid(c)
        BY <2>2, <3>5 DEF FREE_PSP
      <4>2. QED
        BY <3>5, <3>7, <4>1 DEF Keeps, KeepsBut
    <3>10. Owners(d) \subseteq Owners(m) \cup {FREE_PSP, owner}
      BY <2>2, <3>5, <3>6
    <3>11. QED
      BY <3>6, <3>8, <3>9, <3>10 DEF d
  <2>7. QED
    BY <2>3, <2>4, <2>5, <2>6
<1>5. QED
  BY <1>3, <1>4

(***************************************************************************)
(* DosUmbLink and FreeProcessMem.                                          *)
(***************************************************************************)
(* One block changes from a last one to a normal one, or back.             *)
WithType(m, p, t) == [m EXCEPT ![p].type = t]

(* The chain linked or unlinked at the last block of low memory.           *)
LEMMA SetType ==
    ASSUME NEW m, NEW link, Tiled(m, link), NEW p \in Valid(m), NEW t \in {"normal", "last"},
           NEW n \in BOOLEAN, nxtMCB(m, p) = UpperRoot, t = "last" <=> ~n
    PROVE  LET c == WithType(m, p, t)
           IN  /\ Tiled(c, n) /\ Valid(c) = Valid(m)
               /\ \A x \in Para : c[x].psp = m[x].psp /\ c[x].size = m[x].size
<1> DEFINE c == WithType(m, p, t)
<1>1. /\ m \in [Para -> Mcb] /\ m[UpperRoot].psp = SYSTEM /\ First \in Valid(m)
      /\ UpperRoot \in Valid(m) /\ UpperRoot \in Para
  BY Layout DEF Tiled
<1>2. \A x \in Para : c[x] = IF x = p THEN [m[x] EXCEPT !.type = t] ELSE m[x]
  BY <1>1 DEF WithType
<1>3. \A x \in Para : [m[x] EXCEPT !.type = t] \in Mcb
  BY <1>1 DEF Mcb
<1>4. c \in [Para -> Mcb]
  BY <1>1, <1>2, <1>3 DEF WithType
<1> HIDE DEF c
<1>5. ASSUME NEW x \in Para
      PROVE  /\ c[x].psp = m[x].psp /\ c[x].size = m[x].size /\ nxtMCB(c, x) = nxtMCB(m, x)
             /\ c[x].type = IF x = p THEN t ELSE m[x].type
  <2>1. m[x] \in Mcb
    BY <1>1
  <2>2. c[x].psp = m[x].psp /\ c[x].size = m[x].size /\ c[x].type = IF x = p THEN t ELSE m[x].type
    BY <1>2, <2>1 DEF Mcb
  <2>3. QED
    BY <2>2 DEF nxtMCB
<1>6. p \in Para /\ m[p].type \in {"normal", "last"}
  BY ValidFacts
<1>7. Valid(c) = Valid(m)
  BY <1>5, <1>6 DEF Valid, mcbValid, mcbFreeable
<1>8. ASSUME NEW x \in Valid(m)
      PROVE  NextIsOne(c, x) /\ NoneBetween(c, x) /\ EndIsLast(c, n, x)
  <2>1. NextIsOne(m, x) /\ NoneBetween(m, x) /\ EndIsLast(m, link, x) /\ x \in Para
    BY ValidParas DEF Tiled
  <2>2. NextIsOne(c, x) /\ NoneBetween(c, x)
    BY <1>5, <1>7, <2>1 DEF NextIsOne, NoneBetween
  <2>3. EndIsLast(c, n, x)
    <3>1. CASE x = p
      BY <1>5, <2>1, <3>1, Layout DEF EndIsLast
    <3>2. CASE x # p
      <4>1. nxtMCB(m, x) # UpperRoot
        <5>1. NoneBetween(m, p) /\ p \in Nat /\ x \in Nat /\ nxtMCB(m, x) \in Nat /\ x < nxtMCB(m, x)
              /\ p < nxtMCB(m, p)
          BY ValidFacts, ValidParas DEF Tiled
        <5>2. QED
          BY <2>1, <3>2, <5>1 DEF NoneBetween
      <4>2. QED
        BY <1>5, <2>1, <3>2, <4>1 DEF EndIsLast
    <3>3. QED
      BY <3>1, <3>2
  <2>4. QED
    BY <2>2, <2>3
<1>9. Tiled(c, n)
  BY <1>1, <1>4, <1>5, <1>7, <1>8 DEF Tiled
<1>10. QED
  BY <1>5, <1>7, <1>9 DEF c

(* The same blocks with the same owners.                                   *)
SameBlocks(m, n) == Valid(n) = Valid(m) /\ \A x \in Para : n[x].psp = m[x].psp /\ n[x].size = m[x].size

(* DosUmbLink changes no size and no owner.                                *)
LEMMA UmbLinkTiled ==
    ASSUME NEW m, NEW link, Tiled(m, link), NEW n \in BOOLEAN
    PROVE  LET l == DosUmbLink(m, link, n)
           IN  Tiled(l.mcb, n) /\ l.link = n /\ SameBlocks(m, l.mcb)
<1> DEFINE l    == DosUmbLink(m, link, n)
           W    == Walk(m, First)
           L    == {x \in W : x < UpperRoot}
           last == Highest(W)
           prev == Highest(L)
<1>1. link \in BOOLEAN /\ First \in Valid(m) /\ UpperRoot \in Valid(m)
  BY DEF Tiled
<1>2. W = {q \in Valid(m) : q >= First /\ (q < UpperRoot \/ link \/ First >= UpperRoot)}
  BY <1>1, WalkIs DEF Reach
<1>3. /\ First < UpperRoot /\ \A q \in Valid(m) : q \in Nat /\ q >= First /\ First \in Nat /\ UpperRoot \in Nat
  BY ValidParas, Layout
<1>4. L = {q \in Valid(m) : q < UpperRoot} /\ (UpperRoot \in W <=> link) /\ (~link => W = L)
  BY <1>1, <1>2, <1>3
<1>5. PICK r \in Valid(m) : r < UpperRoot /\ nxtMCB(m, r) = UpperRoot
  BY <1>1, <1>3, Before
<1>6. prev = r
  <2>1. L \subseteq 0 .. Top /\ L # {} /\ r \in L
    BY <1>4, <1>5, ValidParas
  <2>2. prev \in L /\ \A x \in L : x <= prev
    <3> HIDE DEF L
    <3> QED  BY <2>1, HighestPara
  <2>3. \A q \in Valid(m) : q <= r \/ UpperRoot <= q
    BY <1>5 DEF Tiled, NoneBetween
  <2>4. prev \in Valid(m) /\ prev < UpperRoot /\ r <= prev
    BY <1>4, <2>1, <2>2
  <2> HIDE DEF prev
  <2>5. QED
    BY <1>3, <2>3, <2>4
<1>7. CASE link = n
  <2>1. l.mcb = m /\ l.link = n
    BY <1>7 DEF DosUmbLink
  <2>2. QED
    BY <1>7, <2>1 DEF SameBlocks
<1>8. CASE link # n
  <2> DEFINE t == IF n THEN "normal" ELSE "last"
             c == WithType(m, r, t)
  <2>1. l.mcb = c /\ l.link = n
    <3>1. CASE n
      <4>1. last = prev /\ UpperRoot \notin W
        BY <1>1, <1>4, <1>8, <3>1
      <4>2. l = [mcb |-> [m EXCEPT ![last].type = "normal"], link |-> n]
        BY <1>8, <3>1, <4>1 DEF DosUmbLink
      <4> HIDE DEF l, last, prev, W, L
      <4>3. QED
        BY <1>6, <3>1, <4>1, <4>2 DEF WithType
    <3>2. CASE ~n
      <4>1. UpperRoot \in W
        BY <1>1, <1>4, <1>8, <3>2
      <4>2. l = [mcb |-> [m EXCEPT ![prev].type = "last"], link |-> n]
        BY <1>8, <3>2, <4>1 DEF DosUmbLink
      <4> HIDE DEF l, last, prev, W, L
      <4>3. QED
        BY <1>6, <3>2, <4>1, <4>2 DEF WithType
    <3>3. QED
      BY <3>1, <3>2
  <2>2. t \in {"normal", "last"} /\ (t = "last" <=> ~n)
    OBVIOUS
  <2> HIDE DEF l, t
  <2>3. /\ Tiled(c, n) /\ Valid(c) = Valid(m)
        /\ \A x \in Para : c[x].psp = m[x].psp /\ c[x].size = m[x].size
    BY <1>5, <2>2, SetType
  <2> HIDE DEF c
  <2>4. QED
    BY <2>1, <2>3 DEF SameBlocks, l
<1>9. QED
  BY <1>7, <1>8

(* The blocks of a process that ends become free, linked in or not.        *)
LEMMA ProcessFreed ==
    ASSUME NEW m, NEW link, Tiled(m, link), NEW ps \in Nat \ {0}
    PROVE  LET f == FreeProcessMem(m, link, ps)
           IN  /\ Tiled(f.mcb, link) /\ f.link = link /\ Valid(f.mcb) = Valid(m)
               /\ \A p \in Valid(m) : /\ f.mcb[p].size = m[p].size
                                      /\ f.mcb[p].psp = IF m[p].psp = ps THEN FREE_PSP ELSE m[p].psp
<1> DEFINE l     == DosUmbLink(m, link, TRUE)
           owned == {p \in Walk(l.mcb, First) : l.mcb[p].psp = ps}
           g     == [p \in Para |-> IF p \in owned THEN [l.mcb[p] EXCEPT !.psp = FREE_PSP] ELSE l.mcb[p]]
           f     == DosUmbLink(g, l.link, link)
<1>1. FreeProcessMem(m, link, ps) = f
  BY ComputedIs DEF FreeProcessMem, Released
<1>2. link \in BOOLEAN /\ First \in Valid(m)
  BY DEF Tiled
<1>3. Tiled(l.mcb, TRUE) /\ l.link = TRUE /\ SameBlocks(m, l.mcb)
  BY UmbLinkTiled
<1> HIDE DEF l
<1>4. /\ l.mcb \in [Para -> Mcb] /\ l.mcb[UpperRoot].psp = SYSTEM /\ First \in Valid(l.mcb)
      /\ Valid(l.mcb) = Valid(m) /\ UpperRoot \in Para
  BY <1>3, Layout DEF Tiled, SameBlocks
<1>5. Walk(l.mcb, First) = Valid(m)
  <2>1. Walk(l.mcb, First) = Reach(l.mcb, TRUE, First)
    BY <1>3, <1>4, WalkIs
  <2>2. QED
    BY <1>4, <2>1, ValidParas DEF Reach
<1>6. owned = {p \in Valid(m) : l.mcb[p].psp = ps}
  BY <1>5
<1> HIDE DEF owned
<1>7. UpperRoot \notin owned
  BY <1>4, <1>6 DEF SYSTEM
<1>8. ASSUME NEW p \in Para
      PROVE  /\ g[p] \in Mcb /\ g[p].type = l.mcb[p].type /\ g[p].size = l.mcb[p].size
             /\ g[p].psp = IF p \in owned THEN FREE_PSP ELSE l.mcb[p].psp
  <2>1. l.mcb[p] \in Mcb /\ g[p] = IF p \in owned THEN [l.mcb[p] EXCEPT !.psp = FREE_PSP] ELSE l.mcb[p]
    BY <1>4
  <2> HIDE DEF g
  <2>2. QED
    BY <2>1 DEF Mcb, FREE_PSP
<1>9. g \in [Para -> Mcb]
  BY <1>8
<1> HIDE DEF g
<1>10. Tiled(g, TRUE) /\ Valid(g) = Valid(m)
  BY <1>3, <1>4, <1>7, <1>8, <1>9, SameShape
<1>11. Tiled(f.mcb, link) /\ f.link = link /\ SameBlocks(g, f.mcb)
  BY <1>2, <1>3, <1>10, UmbLinkTiled
<1> HIDE DEF f
<1>12. ASSUME NEW p \in Valid(m)
       PROVE  /\ f.mcb[p].size = m[p].size
              /\ f.mcb[p].psp = IF m[p].psp = ps THEN FREE_PSP ELSE m[p].psp
  <2>1. p \in Para
    BY ValidParas
  <2>2. f.mcb[p].size = m[p].size /\ f.mcb[p].psp = g[p].psp /\ l.mcb[p].psp = m[p].psp
    BY <1>3, <1>8, <1>11, <2>1 DEF SameBlocks
  <2>3. QED
    BY <1>6, <1>8, <2>1, <2>2
<1>13. QED
  BY <1>1, <1>10, <1>11, <1>12 DEF SameBlocks

(***************************************************************************)
(* The loaders.                                                            *)
(***************************************************************************)
(* Memory after several calls: tiled, the owned blocks kept, and no owners *)
(* but the old ones and those of O.                                        *)
Moved(m, n, link, O) == Tiled(n, link) /\ Keeps(m, n) /\ Owners(n) \subseteq Owners(m) \cup O

(* Several calls, then several more.                                       *)
LEMMA MovedTwice ==
    ASSUME NEW m, NEW n, NEW o, NEW link, NEW O, Moved(m, n, link, O), Moved(n, o, link, O)
    PROVE  /\ Moved(m, o, link, O)
           /\ \A p : Unowned(n, p) => Unowned(m, p)
           /\ \A p \in Valid(n) : n[p].psp # FREE_PSP => p \in Valid(o) /\ o[p].psp = n[p].psp
<1>1. Keeps(m, o)
  BY KeepsThen DEF Moved, Keeps
<1>2. Owners(o) \subseteq Owners(m) \cup O
  BY DEF Moved
<1>3. QED
  BY <1>1, <1>2 DEF Moved, Keeps, KeepsBut, Unowned

(* A block that was not owned before the calls gets an owner of O.         *)
LEMMA SetUnowned ==
    ASSUME NEW m, NEW n, NEW link, NEW O, Tiled(m, link), Moved(m, n, link, O),
           NEW p \in Int, Unowned(m, p), NEW a \in Int, a \in O
    PROVE  LET w == WithOwner(n, p, a)
           IN  /\ Moved(m, w, link, O) /\ Valid(w) = Valid(n)
               /\ \A q \in Para : q # p => w[q].psp = n[q].psp
               /\ p \in Para => w[p].psp = a
<1> DEFINE w == WithOwner(n, p, a)
<1>1. p # UpperRoot
  BY RootFacts DEF Unowned
<1>2. Tiled(n, link) /\ Keeps(m, n) /\ Owners(n) \subseteq Owners(m) \cup O
  BY DEF Moved
<1>3. /\ Tiled(w, link) /\ KeepsAllBut(n, w, p) /\ Valid(w) = Valid(n)
      /\ \A q \in Para : q # p => w[q].psp = n[q].psp
  BY <1>1, <1>2, SetOwner
<1>4. Owners(w) \subseteq Owners(n) \cup {a} /\ (p \in Para => w[p].psp = a)
  BY <1>1, <1>2, SetOwner
<1> HIDE DEF w
<1>5. Keeps(m, w)
  BY <1>2, <1>3 DEF Keeps, KeepsAllBut, KeepsBut, Unowned
<1>6. Owners(w) \subseteq Owners(m) \cup O
  BY <1>2, <1>4
<1>7. QED
  BY <1>3, <1>4, <1>5, <1>6 DEF Moved, w

(* Freeing a block that was unused before the calls.                       *)
LEMMA FreeUnowned ==
    ASSUME NEW m, NEW n, NEW link, NEW O, Tiled(m, link), Moved(m, n, link, O),
           NEW p \in Int, Unowned(m, p), FREE_PSP \in O
    PROVE  Moved(m, DosMemFree(n, p), link, O)
<1>1. DosMemFree(n, p) = WithOwner(n, p, FREE_PSP) \/ DosMemFree(n, p) = n
  BY DEF DosMemFree, WithOwner
<1>2. FREE_PSP \in Int
  BY DEF FREE_PSP
<1>3. Moved(m, WithOwner(n, p, FREE_PSP), link, O)
  BY <1>2, SetUnowned
<1>4. QED
  BY <1>1, <1>3

(* What an allocation or a search does, in these terms.                    *)
LEMMA GrantsMoved ==
    ASSUME NEW m, NEW a, NEW owner, NEW link, NEW O, O = {FREE_PSP, owner}
    PROVE  /\ Grants(m, a, owner, link) => Moved(m, a.mcb, link, O)
           /\ \A n : Rearranged(m, n, link) => Moved(m, n, link, O)
BY DEF Grants, Rearranged, Moved

(* ExecMemLargest only joins unused blocks.                                *)
LEMMA ExecLargestKeeps ==
    ASSUME NEW m, NEW link, Tiled(m, link), NEW strat, NEW threshold
    PROVE  LET l == ExecMemLargest(m, link, strat, threshold)
           IN  Rearranged(m, l.mcb, link) /\ l.max \in Nat
<1> DEFINE only == [strat EXCEPT !.u = FALSE, !.uo = TRUE]
           s1   == [only EXCEPT !.uo = FALSE]
           s2   == [only EXCEPT !.u = TRUE, !.uo = FALSE]
           one  == DosMemLargest(m, link, strat)
           high == DosMemLargest(m, link, only)
           low  == DosMemLargest(high.mcb, link, s1)
           l    == ExecMemLargest(m, link, strat, threshold)
<1>1. l = IF ~strat.u THEN MostOf(one, strat)
          ELSE IF high.max > 0 /\ high.max >= threshold THEN MostOf(high, only) ELSE MostOf(low, s2)
  BY DEF ExecMemLargest, MostOrAll
<1> HIDE DEF only, s1, s2, l
<1>2. Rearranged(m, one.mcb, link) /\ one.max \in Nat
  BY LargestKeeps
<1>3. Rearranged(m, high.mcb, link) /\ high.max \in Nat
  BY LargestKeeps
<1> HIDE DEF one, high
<1>4. Rearranged(high.mcb, low.mcb, link) /\ low.max \in Nat
  BY <1>3, LargestKeeps DEF Rearranged
<1> HIDE DEF low
<1>5. Rearranged(m, low.mcb, link)
  BY <1>3, <1>4, RearrangedTwice
<1>6. ASSUME NEW x, NEW s, l = MostOf(x, s)
      PROVE  l.mcb = x.mcb /\ l.max = x.max
  BY <1>6 DEF MostOf
<1>7. \/ l.mcb = one.mcb /\ l.max = one.max
      \/ l.mcb = high.mcb /\ l.max = high.max
      \/ l.mcb = low.mcb /\ l.max = low.max
  BY <1>1, <1>6
<1>8. QED
  BY <1>2, <1>3, <1>4, <1>5, <1>7 DEF l

(* ExecMemAlloc grants a block that nobody owned, or nothing.              *)
LEMMA ExecAllocGrants ==
    ASSUME NEW m, NEW link, Tiled(m, link), NEW size \in Nat, NEW strat, NEW owner \in Nat \ {0}
    PROVE  Grants(m, ExecMemAlloc(m, size, link, strat, owner), owner, link)
<1> DEFINE a == DosMemAlloc(m, size, strat, link, strat, owner)
           b == DosMemAlloc(a.mcb, 0, LARGEST, link, strat, owner)
           f == [mcb |-> DosMemFree(b.mcb, b.seg), seg |-> NONE, max |-> b.max]
           e == ExecMemAlloc(m, size, link, strat, owner)
           O == {FREE_PSP, owner}
<1>1. e = IF a.seg # NONE THEN a ELSE IF b.seg # NONE /\ b.max < size THEN f ELSE b
  BY DEF ExecMemAlloc, AsAskedOrLargest, LargestMustDo
<1>2. Grants(m, a, owner, link)
  BY AllocGrants
<1> HIDE DEF a, e
<1>3. Tiled(a.mcb, link) /\ 0 \in Nat
  BY <1>2 DEF Grants
<1>4. Grants(a.mcb, b, owner, link)
  BY <1>3, AllocGrants
<1> HIDE DEF b
<1>5. FREE_PSP \in O /\ Owners(a.mcb) \subseteq Owners(m) \cup O
  BY <1>2 DEF Grants
<1>6. Moved(m, a.mcb, link, O) /\ Moved(a.mcb, b.mcb, link, O)
  BY <1>2, <1>4 DEF Grants, Moved
<1> HIDE DEF O
<1>7. Moved(m, b.mcb, link, O) /\ \A p : Unowned(a.mcb, p) => Unowned(m, p)
  BY <1>6, MovedTwice
<1>8. Grants(m, b, owner, link)
  BY <1>4, <1>7 DEF Grants, Moved, O
<1>9. ASSUME b.seg # NONE
      PROVE  Grants(m, f, owner, link)
  <2> DEFINE g == DosMemFree(b.mcb, b.seg)
  <2>1. b.seg \in Int /\ Unowned(m, b.seg)
    BY <1>8, <1>9, ValidParas DEF Grants
  <2>2. Moved(m, g, link, O)
    BY <1>5, <1>7, <2>1, FreeUnowned
  <2>3. f.mcb = g /\ f.seg = NONE /\ f.max = b.max
    OBVIOUS
  <2> HIDE DEF f, g
  <2>4. QED
    BY <1>8, <2>2, <2>3 DEF Grants, Moved, O
<1>10. QED
  BY <1>1, <1>2, <1>8, <1>9 DEF e

(* What a load gives: the block of the new process, or none; owners of O.  *)
Loads(m, r, link, O) ==
    /\ Tiled(r.mcb, link)
    /\ r.seg = NONE => Owners(r.mcb) \subseteq Owners(m) \cup O
    /\ r.seg # NONE => /\ r.seg \in Valid(r.mcb) /\ r.mcb[r.seg].psp = r.seg + 1 /\ Unowned(m, r.seg)
                       /\ Owners(r.mcb) \subseteq Owners(m) \cup O \cup {r.seg + 1}

(* A load that fails leaves the owned blocks alone.                        *)
LEMMA FailedLoads ==
    ASSUME NEW m, NEW n, NEW link, NEW O, Moved(m, n, link, O), NEW strat
    PROVE  Loads(m, LoadFailed(n, strat), link, O) /\ Keeps(m, LoadFailed(n, strat).mcb)
BY DEF Moved, Loads, LoadFailed

(* A load into a block of the size asked for.                              *)
LEMMA InBlockLoads ==
    ASSUME NEW m, NEW n, NEW link, NEW O, Tiled(m, link), Moved(m, n, link, O),
           NEW owner \in Nat \ {0}, O = {FREE_PSP, owner},
           NEW env \in Int, Unowned(m, env), env \in Valid(n), n[env].psp = owner,
           NEW blk, Grants(n, blk, owner, link), NEW strat, NEW broken
    PROVE  LET r == LoadInBlock(env, blk, strat, broken)
           IN  Loads(m, r, link, O) /\ Keeps(m, r.mcb)
<1> DEFINE r == LoadInBlock(env, blk, strat, broken)
           k == blk.mcb
           s == blk.seg
           f1 == DosMemFree(k, env)
           f2 == DosMemFree(k, s)
           f3 == DosMemFree(f2, env)
<1>1. FREE_PSP \in O /\ Moved(n, k, link, O)
  BY GrantsMoved
<1>2. Moved(m, k, link, O) /\ \A p : Unowned(n, p) => Unowned(m, p)
  BY <1>1, MovedTwice
<1>3. s # NONE => s \in Valid(k) /\ s \in Nat /\ s \in Para /\ Unowned(m, s) /\ Unowned(n, s)
  BY <1>2, ValidParas DEF Grants
<1> HIDE DEF k, s
<1>4. CASE s = NONE
  <2>1. r = LoadFailed(f1, strat)
    BY <1>4 DEF LoadInBlock, k, s
  <2>2. Moved(m, f1, link, O)
    BY <1>1, <1>2, FreeUnowned
  <2> HIDE DEF f1, r
  <2>3. QED
    BY <2>1, <2>2, FailedLoads DEF r
<1>5. CASE s # NONE /\ broken
  <2>1. r = LoadFailed(f3, strat)
    BY <1>5 DEF LoadInBlock, k, s
  <2>2. s \in Int /\ Unowned(m, s)
    BY <1>3, <1>5
  <2>3. Moved(m, f2, link, O)
    BY <1>1, <1>2, <2>2, FreeUnowned
  <2> HIDE DEF f2
  <2>4. Moved(m, f3, link, O)
    BY <1>1, <2>3, FreeUnowned
  <2> HIDE DEF f3, r
  <2>5. QED
    BY <2>1, <2>4, FailedLoads DEF r
<1>6. CASE s # NONE /\ ~broken
  <2> DEFINE a  == s + 1
             w1 == WithOwner(k, env, a)
             w2 == WithOwner(w1, s, a)
             Q  == O \cup {a}
  <2>1. r = [mcb |-> [k EXCEPT ![env].psp = a, ![s].psp = a], strat |-> strat, seg |-> s]
    BY <1>6 DEF LoadInBlock, k, s
  <2>2. s \in Int /\ s \in Para /\ s \in Valid(k) /\ Unowned(m, s) /\ a \in Int /\ a \in Q /\ FREE_PSP \in Int
    BY <1>3, <1>6 DEF FREE_PSP
  <2>3. r.mcb = w2 /\ r.seg = s
    BY <2>1 DEF WithOwner
  <2>4. Moved(m, k, link, Q)
    BY <1>2 DEF Moved
  <2> HIDE DEF Q, r, a
  <2>5. Moved(m, w1, link, Q) /\ Valid(w1) = Valid(k)
    BY <2>2, <2>4, SetUnowned
  <2> HIDE DEF w1
  <2>6. Moved(m, w2, link, Q) /\ Valid(w2) = Valid(w1) /\ w2[s].psp = a
    BY <2>2, <2>5, SetUnowned
  <2> HIDE DEF w2
  <2>7. Tiled(r.mcb, link) /\ Keeps(m, r.mcb) /\ Owners(r.mcb) \subseteq Owners(m) \cup O \cup {r.seg + 1}
    BY <2>3, <2>6 DEF Moved, Q, a
  <2>8. r.seg \in Valid(r.mcb) /\ r.mcb[r.seg].psp = r.seg + 1 /\ Unowned(m, r.seg)
    BY <2>2, <2>3, <2>5, <2>6 DEF a
  <2>9. Loads(m, r, link, O)
    BY <1>6, <2>3, <2>7, <2>8 DEF Loads
  <2>10. QED
    BY <2>7, <2>9 DEF r
<1>7. QED
  BY <1>4, <1>5, <1>6

(* A load into the largest block.                                          *)
LEMMA InLargestLoads ==
    ASSUME NEW m, NEW n, NEW link, NEW O, Tiled(m, link), Moved(m, n, link, O),
           cu_psp \in Nat \ {0}, O = {FREE_PSP, cu_psp},
           NEW env \in Int, Unowned(m, env), env \in Valid(n), n[env].psp = cu_psp,
           NEW most, Rearranged(n, most.mcb, link), most.max \in Nat,
           NEW need, NEW want \in Nat, NEW broken
    PROVE  LET r == LoadInLargest(env, most, need, want, link, broken)
           IN  Loads(m, r, link, O) /\ Keeps(m, r.mcb)
<1> DEFINE r == LoadInLargest(env, most, need, want, link, broken)
           k == most.mcb
           size == IF want > most.max THEN most.max ELSE want
           owner == cu_psp
           blk == ExecMemAlloc(k, size, link, most.strat, owner)
           f == DosMemFree(k, env)
<1>1. FREE_PSP \in O /\ Moved(n, k, link, O) /\ owner # FREE_PSP
  BY GrantsMoved DEF FREE_PSP
<1>2. Moved(m, k, link, O) /\ env \in Valid(k) /\ k[env].psp = owner /\ Tiled(k, link)
  BY <1>1, MovedTwice DEF Moved
<1>3. size \in Nat /\ owner \in Nat \ {0} /\ O = {FREE_PSP, owner}
  OBVIOUS
<1>4. r = IF most.max < need THEN LoadFailed(f, most.strat) ELSE LoadInBlock(env, blk, most.strat, broken)
  BY DEF LoadInLargest
<1> HIDE DEF k, size, owner, r
<1>5. Moved(m, f, link, O)
  BY <1>1, <1>2, FreeUnowned
<1>6. Grants(k, blk, owner, link)
  BY <1>2, <1>3, ExecAllocGrants
<1> HIDE DEF f, blk
<1>7. Loads(m, LoadFailed(f, most.strat), link, O) /\ Keeps(m, LoadFailed(f, most.strat).mcb)
  BY <1>5, FailedLoads
<1>8. /\ Loads(m, LoadInBlock(env, blk, most.strat, broken), link, O)
      /\ Keeps(m, LoadInBlock(env, blk, most.strat, broken).mcb)
  BY <1>2, <1>3, <1>6, InBlockLoads
<1>9. QED
  BY <1>4, <1>7, <1>8 DEF r

(* A load keeps the owned blocks, unless it frees one with the garbage.    *)
LEMMA WithEnvLoads ==
    ASSUME NEW m, NEW link, NEW O, Tiled(m, link), cu_psp \in Nat \ {0}, O = {FREE_PSP, cu_psp},
           NEW env, Grants(m, env, cu_psp, link), NEW need, NEW want \in Nat, NEW strat,
           NEW garbage \in Int, garbage # UpperRoot, NEW broken
    PROVE  LET r == LoadWithEnv(env, need, want, link, strat, garbage, broken)
           IN  Loads(m, r, link, O) /\ (garbage \notin Para => Keeps(m, r.mcb))
<1> DEFINE r == LoadWithEnv(env, need, want, link, strat, garbage, broken)
           n == env.mcb
           most == ExecMemLargest(n, link, strat, need)
           f == DosMemFree(n, garbage)
           q == LoadInLargest(env.seg, most, need, want, link, broken)
<1>1. Moved(m, n, link, O) /\ Tiled(n, link) /\ FREE_PSP \in O
  BY GrantsMoved DEF Grants
<1>2. CASE env.seg = NONE
  <2>1. r = LoadFailed(f, strat)
    BY <1>2 DEF LoadWithEnv
  <2>2. r.mcb = f /\ r.seg = NONE
    BY <2>1 DEF LoadFailed
  <2>3. Tiled(f, link) /\ Owners(f) \subseteq Owners(n) \cup {FREE_PSP}
    BY <1>1, FreeTiled
  <2>4. garbage \notin Para => f = n
    BY DEF DosMemFree
  <2> HIDE DEF f, r, n
  <2>5. Loads(m, r, link, O)
    BY <1>1, <2>2, <2>3 DEF Loads, Moved
  <2>6. garbage \notin Para => Keeps(m, r.mcb)
    BY <1>1, <2>2, <2>4 DEF Moved
  <2>7. QED
    BY <2>5, <2>6 DEF r
<1>3. CASE env.seg # NONE
  <2>1. r = q
    BY <1>3 DEF LoadWithEnv
  <2>2. env.seg \in Valid(n) /\ n[env.seg].psp = cu_psp /\ Unowned(m, env.seg) /\ env.seg \in Int
    BY <1>3, ValidParas DEF Grants
  <2> HIDE DEF n, r
  <2>3. Rearranged(n, most.mcb, link) /\ most.max \in Nat
    BY <1>1, ExecLargestKeeps
  <2> HIDE DEF most
  <2>4. Loads(m, q, link, O) /\ Keeps(m, q.mcb)
    BY <1>1, <2>2, <2>3, InLargestLoads
  <2>5. QED
    BY <2>1, <2>4 DEF r
<1>4. QED
  BY <1>2, <1>3

(***************************************************************************)
(* The invariants.                                                         *)
(***************************************************************************)
(* Memory is tiled, no process has its PSP in uppermem_root, and the owner *)
(* of a block is the system, a process on the stack or a resident one.     *)
Running == {stack[i] : i \in 1 .. Len(stack)}
Psp     == Nat \ {0}

ChainInv ==
    /\ Tiled(mcb, uppermem_link) /\ mix \in Mixes
    /\ stack \in Seq(Psp) /\ stack # <<>> /\ resident \subseteq Psp
    /\ \A i \in 1 .. Len(stack) : stack[i] - 1 # UpperRoot
    /\ Owners(mcb) \subseteq {FREE_PSP, SYSTEM} \cup resident \cup Running

(* Each process on the stack owns the block its PSP is in, and no other     *)
(* process, on the stack or resident, has that PSP.                        *)
PspsOwned  == \A i \in 1 .. Len(stack) : stack[i] - 1 \in Valid(mcb) /\ mcb[stack[i] - 1].psp = stack[i]
PspsDiffer == \A i, j \in 1 .. Len(stack) : i # j => stack[i] # stack[j]

MemInv == ChainInv /\ PspsOwned /\ PspsDiffer /\ resident \cap Running = {}

(* What env may hold when a loader frees it before setting it is not       *)
(* uppermem_root; or it is no paragraph at all.                            *)
RootKept        == UpperRoot \notin StaleEnv
GarbageHarmless == StaleEnv \cap Para = {}

(* The running process is on the stack, and its PSP is not uppermem_root.   *)
LEMMA StackFacts ==
    ASSUME ChainInv
    PROVE  /\ Len(stack) \in Nat \ {0} /\ \A i \in 1 .. Len(stack) : stack[i] \in Psp
           /\ cu_psp \in Nat \ {0} /\ cu_psp \in Running /\ cu_psp - 1 # UpperRoot
<1>1. Len(stack) \in Nat \ {0}
  BY EmptySeq DEF ChainInv
<1>2. \A i \in 1 .. Len(stack) : stack[i] \in Psp
  BY ElementOfSeq DEF ChainInv
<1>3. Len(stack) \in 1 .. Len(stack)
  BY <1>1
<1>4. cu_psp \in Psp /\ cu_psp \in Running /\ cu_psp - 1 # UpperRoot
  BY <1>2, <1>3 DEF cu_psp, Running, ChainInv
<1>5. QED
  BY <1>1, <1>2, <1>4 DEF Psp

(* A process that starts is put on the stack.                              *)
LEMMA Pushed ==
    ASSUME NEW t \in Seq(Psp), NEW e \in Psp
    PROVE  /\ Append(t, e) \in Seq(Psp) /\ Len(t) \in Nat
           /\ Len(Append(t, e)) = Len(t) + 1 /\ Append(t, e)[Len(t) + 1] = e
           /\ \A i \in 1 .. Len(t) : Append(t, e)[i] = t[i]
           /\ Append(t, e) # <<>>
<1>1. Len(t) \in Nat
  BY LenProperties
<1>2. /\ Append(t, e) \in Seq(Psp) /\ Len(Append(t, e)) = Len(t) + 1
      /\ \A i \in 1 .. Len(t) : Append(t, e)[i] = t[i]
      /\ Append(t, e)[Len(t) + 1] = e
  OBVIOUS
<1>3. Append(t, e) # <<>>
  BY <1>1, <1>2, EmptySeq
<1>4. QED
  BY <1>1, <1>2, <1>3

(* A process that ends is taken off the stack.                             *)
LEMMA Popped ==
    ASSUME NEW t \in Seq(Psp), Len(t) > 1
    PROVE  LET u == SubSeq(t, 1, Len(t) - 1)
           IN  /\ u \in Seq(Psp) /\ Len(t) \in Nat /\ Len(u) = Len(t) - 1 /\ u # <<>>
               /\ \A i \in 1 .. Len(t) - 1 : u[i] = t[i]
<1> DEFINE n == Len(t) - 1
           m == 1
           u == SubSeq(t, m, n)
<1>1. Len(t) \in Nat
  BY LenProperties
<1>2. n \in Int /\ m \in Int /\ m = 1 /\ n \in Nat /\ n > 0
  BY <1>1
<1>3. \A i \in m .. n : t[i] \in Psp
  BY <1>1, ElementOfSeq
<1> HIDE DEF m, n, u
<1>4. /\ u \in Seq(Psp) /\ Len(u) = IF m <= n THEN n - m + 1 ELSE 0
      /\ \A i \in 1 .. n - m + 1 : u[i] = t[m + i - 1]
  BY <1>2, <1>3, SubSeqProperties DEF u
<1>5. Len(u) = n
  BY <1>2, <1>4
<1>6. ASSUME NEW i \in 1 .. n
      PROVE  u[i] = t[i]
  <2>1. i \in 1 .. n - m + 1 /\ m + i - 1 = i
    BY <1>2
  <2>2. QED
    BY <1>4, <2>1
<1>7. u # <<>>
  BY <1>2, <1>4, <1>5, EmptySeq
<1>8. QED
  BY <1>1, <1>4, <1>5, <1>6, <1>7 DEF u, m, n

(***************************************************************************)
(* What a step does.                                                       *)
(***************************************************************************)
Kept(p) == p \in Valid(mcb') /\ mcb'[p].psp = mcb[p].psp /\ mcb'[p].size = mcb[p].size

(* The current process goes on: it touches its own blocks, unused ones and *)
(* those of resident programs, but keeps its PSP.                          *)
Stays ==
    /\ UNCHANGED <<mix, stack, resident>> /\ Tiled(mcb', uppermem_link')
    /\ Owners(mcb') \subseteq Owners(mcb) \cup {FREE_PSP, cu_psp}
StaysOff ==
    /\ \A p \in Valid(mcb) : mcb[p].psp \notin {FREE_PSP, cu_psp} \cup resident => Kept(p)
    /\ \A p \in Valid(mcb) : PspMcb(p) /\ mcb[p].psp = cu_psp
                             => p \in Valid(mcb') /\ mcb'[p].psp = cu_psp

(* A new process runs, in the block s.                                     *)
Enters(s) ==
    /\ mix' = mix /\ stack' = Append(stack, s + 1) /\ resident' = resident \ {s + 1}
    /\ Tiled(mcb', uppermem_link')
    /\ s \in Valid(mcb') /\ mcb'[s].psp = s + 1 /\ Unowned(mcb, s)
    /\ Owners(mcb') \subseteq Owners(mcb) \cup {FREE_PSP, cu_psp} \cup {s + 1}

(* The current process ends: nothing is its own any more, or it is         *)
(* resident.                                                               *)
Leaves ==
    /\ Len(stack) > 1 /\ mix' = mix /\ stack' = SubSeq(stack, 1, Len(stack) - 1)
    /\ Tiled(mcb', uppermem_link')
    /\ Owners(mcb') \subseteq Owners(mcb) \cup {FREE_PSP, cu_psp}
    /\ resident' = resident \cup {cu_psp} \/ (resident' = resident /\ cu_psp \notin Owners(mcb'))
    /\ resident' \subseteq resident \cup {cu_psp}
LeavesOff ==
    \A p \in Valid(mcb) : p # cu_psp - 1 /\ mcb[p].psp \notin {FREE_PSP, cu_psp} => Kept(p)

(* Steps that keep every owned block.                                      *)
LEMMA StaysMoved ==
    ASSUME ChainInv, NEW O, O = {FREE_PSP, cu_psp}, Moved(mcb, mcb', uppermem_link', O),
           UNCHANGED <<mix, stack, resident>>
    PROVE  Stays /\ StaysOff
<1>1. cu_psp # FREE_PSP
  BY StackFacts DEF FREE_PSP
<1>2. Stays
  BY DEF Moved, Stays
<1>3. \A p \in Valid(mcb) : mcb[p].psp # FREE_PSP => Kept(p)
  BY DEF Moved, Keeps, KeepsBut, Kept
<1>4. StaysOff
  BY <1>1, <1>3 DEF StaysOff, Kept
<1>5. QED
  BY <1>2, <1>4

(* INT 21h/48h.                                                            *)
LEMMA AllocateStays ==
    ASSUME ChainInv, NEW n \in mix.sizes, Allocate(n)
    PROVE  Stays /\ StaysOff
<1> DEFINE owner == cu_psp
           a == DosMemAlloc(mcb, n, strategy, uppermem_link, strategy, owner)
           l == DosMemLargest(a.mcb, uppermem_link, strategy)
           O == {FREE_PSP, owner}
<1>1. n \in Nat
  BY LayoutAssumption DEF ChainInv
<1>2. owner \in Nat \ {0}
  BY StackFacts
<1>3. Tiled(mcb, uppermem_link) /\ uppermem_link' = uppermem_link /\ UNCHANGED <<mix, stack, resident>>
  BY DEF ChainInv, Allocate
<1>4. mcb' = IF a.seg # NONE THEN a.mcb ELSE l.mcb
  BY DEF Allocate, AllocOrLargest
<1>5. O = {FREE_PSP, cu_psp} /\ O = {FREE_PSP, owner}
  OBVIOUS
<1> HIDE DEF owner, O
<1>6. Grants(mcb, a, owner, uppermem_link)
  BY <1>1, <1>2, <1>3, AllocGrants
<1> HIDE DEF a
<1>7. Moved(mcb, a.mcb, uppermem_link, O) /\ Tiled(a.mcb, uppermem_link)
  BY <1>5, <1>6, GrantsMoved DEF Grants
<1>8. Rearranged(a.mcb, l.mcb, uppermem_link)
  BY <1>7, LargestKeeps
<1> HIDE DEF l
<1>9. Moved(a.mcb, l.mcb, uppermem_link, O)
  BY <1>8 DEF Rearranged, Moved
<1>10. Moved(mcb, l.mcb, uppermem_link, O)
  BY <1>7, <1>9, MovedTwice
<1>11. Moved(mcb, mcb', uppermem_link', O)
  BY <1>3, <1>4, <1>7, <1>10
<1>12. QED
  BY <1>3, <1>5, <1>11, StaysMoved

(* A block the program may free or resize is not uppermem_root.            *)
LEMMA MineFacts ==
    ASSUME ChainInv, NEW p, Mine(p)
    PROVE  p # UpperRoot
<1>1. cu_psp \in Nat /\ resident \subseteq Nat
  BY StackFacts DEF ChainInv, Psp
<1>2. mcb[p].psp # SYSTEM
  BY <1>1 DEF Mine, FREE_PSP, SYSTEM
<1>3. QED
  BY <1>2 DEF ChainInv, Tiled

(* INT 21h/49h.                                                            *)
LEMMA FreeStays ==
    ASSUME ChainInv, NEW p \in Para, Free(p)
    PROVE  Stays /\ StaysOff
<1> DEFINE f == DosMemFree(mcb, p)
<1>1. Mine(p) /\ ~PspMcb(p) /\ mcb' = f /\ uppermem_link' = uppermem_link /\ UNCHANGED <<mix, stack, resident>>
  BY DEF Free
<1>2. p \in Int /\ p # UpperRoot /\ Tiled(mcb, uppermem_link)
  BY <1>1, MineFacts, Layout DEF ChainInv
<1>3. /\ Tiled(f, uppermem_link) /\ KeepsAllBut(mcb, f, p) /\ Valid(f) = Valid(mcb)
      /\ Owners(f) \subseteq Owners(mcb) \cup {FREE_PSP}
  BY <1>2, FreeTiled
<1> HIDE DEF f
<1>4. cu_psp # FREE_PSP
  BY StackFacts DEF FREE_PSP
<1>5. \A x \in Valid(mcb) : x # p /\ mcb[x].psp # FREE_PSP => Kept(x)
  BY <1>1, <1>3 DEF KeepsAllBut, KeepsBut, Kept
<1>6. StaysOff
  BY <1>1, <1>4, <1>5 DEF StaysOff, Kept, Mine
<1>7. Stays
  BY <1>1, <1>3 DEF Stays
<1>8. QED
  BY <1>6, <1>7

(* INT 21h/4Ah.                                                            *)
LEMMA ChangeStays ==
    ASSUME ChainInv, NEW p \in Para, NEW n \in mix.sizes, Change(p, n)
    PROVE  Stays /\ StaysOff
<1> DEFINE owner == cu_psp
           d == DosMemChange(mcb, p, n, owner)
<1>1. Mine(p) /\ mcb' = d /\ uppermem_link' = uppermem_link /\ UNCHANGED <<mix, stack, resident>>
  BY DEF Change
<1>2. p \in Int /\ p # UpperRoot /\ Tiled(mcb, uppermem_link) /\ n \in Nat /\ owner \in Nat \ {0}
  BY <1>1, MineFacts, StackFacts, Layout, LayoutAssumption DEF ChainInv
<1> HIDE DEF owner
<1>3. /\ Tiled(d, uppermem_link) /\ KeepsAllBut(mcb, d, p)
      /\ Owners(d) \subseteq Owners(mcb) \cup {FREE_PSP, owner}
      /\ p \in Valid(mcb) => p \in Valid(d) /\ d[p].psp \in {mcb[p].psp, owner}
  BY <1>2, ChangeTiled
<1> HIDE DEF d
<1>4. owner # FREE_PSP
  BY <1>2 DEF FREE_PSP
<1>5. \A x \in Valid(mcb) : x # p /\ mcb[x].psp # FREE_PSP => Kept(x)
  BY <1>1, <1>3 DEF KeepsAllBut, KeepsBut, Kept
<1>6. StaysOff
  BY <1>1, <1>3, <1>4, <1>5 DEF StaysOff, Kept, Mine, owner
<1>7. Stays
  BY <1>1, <1>3 DEF Stays, owner
<1>8. QED
  BY <1>6, <1>7

(* The same blocks are owned and kept the same.                            *)
LEMMA SameBlocksFacts ==
    ASSUME NEW m, NEW n, SameBlocks(m, n)
    PROVE  Owners(n) = Owners(m) /\ Keeps(m, n) /\ \A p : Unowned(n, p) => Unowned(m, p)
<1>1. \A p \in Valid(m) : p \in Para /\ p \in Valid(n) /\ n[p].psp = m[p].psp /\ n[p].size = m[p].size
  BY ValidParas DEF SameBlocks
<1>2. Valid(n) = Valid(m)
  BY DEF SameBlocks
<1>3. QED
  BY <1>1, <1>2 DEF Owners, Keeps, KeepsBut, Unowned

(* INT 21h/5803h.                                                          *)
LEMMA SetUmbLinkStays ==
    ASSUME ChainInv, NEW n \in BOOLEAN, SetUmbLink(n)
    PROVE  Stays /\ StaysOff
<1> DEFINE l == DosUmbLink(mcb, uppermem_link, n)
           O == {FREE_PSP, cu_psp}
<1>1. mcb' = l.mcb /\ uppermem_link' = l.link /\ UNCHANGED <<mix, stack, resident>>
  BY DEF SetUmbLink
<1>2. Tiled(l.mcb, n) /\ l.link = n /\ SameBlocks(mcb, l.mcb)
  BY UmbLinkTiled DEF ChainInv
<1> HIDE DEF l
<1>3. Moved(mcb, mcb', uppermem_link', O)
  BY <1>1, <1>2, SameBlocksFacts DEF Moved
<1>4. O = {FREE_PSP, cu_psp}
  OBVIOUS
<1> HIDE DEF O
<1>5. QED
  BY <1>1, <1>3, <1>4, StaysMoved

(* INT 21h/5801h.                                                          *)
LEMMA SetStrategyStays ==
    ASSUME ChainInv, UNCHANGED <<mix, mcb, uppermem_link, stack, resident>>
    PROVE  Stays /\ StaysOff
<1>1. Stays
  BY DEF Stays, ChainInv
<1>2. StaysOff
  BY DEF StaysOff, Kept
<1>3. QED
  BY <1>1, <1>2

(* DosExec: the current process goes on, or a new one runs.                *)
LEMMA ExecSteps ==
    ASSUME ChainInv, RootKept, NEW need \in ExecSizes, NEW want \in ExecSizes \cup {FAKE},
           NEW high \in BOOLEAN, NEW broken \in BOOLEAN, NEW g \in StaleEnv,
           Exec(need, want, high, g, broken)
    PROVE  \/ Stays /\ (GarbageHarmless => StaysOff)
           \/ \E s \in Para : Enters(s) /\ (GarbageHarmless => Keeps(mcb, mcb'))
<1> DEFINE linked == IF high THEN DosUmbLink(mcb, uppermem_link, TRUE)
                             ELSE [mcb |-> mcb, link |-> uppermem_link]
           strat1 == [strategy EXCEPT !.u = @ \/ high]
           m      == linked.mcb
           link   == linked.link
           env    == DosMemAlloc(m, EnvSize, strat1, link, strat1, cu_psp)
           load   == LoadWithEnv(env, need, want, link, strat1, g, broken)
           down   == high \/ strategy.u
           reset  == IF down THEN DosUmbLink(load.mcb, link, FALSE) ELSE [mcb |-> load.mcb, link |-> link]
           O      == {FREE_PSP, cu_psp}
<1>1. /\ mcb' = reset.mcb /\ uppermem_link' = reset.link /\ mix' = mix
      /\ stack' = IF load.seg # NONE THEN Append(stack, load.seg + 1) ELSE stack
      /\ resident' = IF load.seg # NONE THEN resident \ {load.seg + 1} ELSE resident
  BY DEF Exec, Loaded
<1>2. cu_psp \in Nat \ {0} /\ Tiled(mcb, uppermem_link) /\ EnvSize \in Nat /\ FAKE \in Nat
  BY StackFacts, LayoutAssumption DEF ChainInv, FAKE
<1>3. want \in Nat /\ g \in Int /\ g # UpperRoot
  BY <1>2, LayoutAssumption DEF RootKept
<1> HIDE DEF strat1, down
<1>4. Tiled(m, link) /\ SameBlocks(mcb, m)
  <2>1. CASE high
    <3> DEFINE u == DosUmbLink(mcb, uppermem_link, TRUE)
    <3>1. linked = u
      BY <2>1
    <3>2. Tiled(u.mcb, TRUE) /\ u.link = TRUE /\ SameBlocks(mcb, u.mcb)
      BY <1>2, UmbLinkTiled
    <3> HIDE DEF linked, u
    <3>3. QED
      BY <3>1, <3>2
  <2>2. CASE ~high
    <3>1. m = mcb /\ link = uppermem_link
      BY <2>2
    <3> HIDE DEF linked
    <3>2. QED
      BY <1>2, <3>1 DEF SameBlocks
  <2>3. QED
    BY <2>1, <2>2
<1> HIDE DEF m, link, linked
<1>5. Grants(m, env, cu_psp, link)
  <2> DEFINE owner == cu_psp
  <2>1. owner \in Nat \ {0}
    BY <1>2
  <2> HIDE DEF owner
  <2>2. Grants(m, DosMemAlloc(m, EnvSize, strat1, link, strat1, owner), owner, link)
    BY <1>2, <1>4, <2>1, AllocGrants
  <2>3. QED
    BY <2>2 DEF owner
<1>6. O = {FREE_PSP, cu_psp}
  OBVIOUS
<1> HIDE DEF env, O
<1>7. Loads(m, load, link, O) /\ (g \notin Para => Keeps(m, load.mcb))
  BY <1>2, <1>3, <1>4, <1>5, <1>6, WithEnvLoads
<1> HIDE DEF load
<1>8. Tiled(mcb', uppermem_link') /\ SameBlocks(load.mcb, mcb')
  <2>1. Tiled(load.mcb, link)
    BY <1>7 DEF Loads
  <2>2. CASE down
    <3> DEFINE u == DosUmbLink(load.mcb, link, FALSE)
    <3>1. reset = u
      BY <2>2
    <3>2. Tiled(u.mcb, FALSE) /\ u.link = FALSE /\ SameBlocks(load.mcb, u.mcb)
      BY <2>1, UmbLinkTiled
    <3> HIDE DEF reset, u
    <3>3. QED
      BY <1>1, <3>1, <3>2
  <2>3. CASE ~down
    <3>1. reset.mcb = load.mcb /\ reset.link = link
      BY <2>3
    <3> HIDE DEF reset
    <3>2. QED
      BY <1>1, <2>1, <3>1 DEF SameBlocks
  <2>4. QED
    BY <2>2, <2>3
<1> HIDE DEF reset
<1>9. /\ Owners(m) = Owners(mcb) /\ Keeps(mcb, m) /\ \A p : Unowned(m, p) => Unowned(mcb, p)
      /\ Owners(mcb') = Owners(load.mcb) /\ Keeps(load.mcb, mcb')
  <2>1. Owners(m) = Owners(mcb) /\ Keeps(mcb, m) /\ \A p : Unowned(m, p) => Unowned(mcb, p)
    BY <1>4, SameBlocksFacts
  <2>2. Owners(mcb') = Owners(load.mcb) /\ Keeps(load.mcb, mcb')
    BY <1>8, SameBlocksFacts
  <2>3. QED
    BY <2>1, <2>2
<1>10. GarbageHarmless => Keeps(mcb, mcb')
  <2>1. GarbageHarmless => Keeps(m, load.mcb)
    BY <1>7 DEF GarbageHarmless
  <2>2. Keeps(m, load.mcb) => Keeps(mcb, mcb')
    BY <1>9 DEF Keeps, KeepsBut
  <2>3. QED
    BY <2>1, <2>2
<1>11. CASE load.seg = NONE
  <2>1. UNCHANGED <<mix, stack, resident>>
    BY <1>1, <1>11
  <2>2. Owners(mcb') \subseteq Owners(mcb) \cup O
    BY <1>7, <1>9, <1>11 DEF Loads
  <2>3. Stays
    BY <1>6, <1>8, <2>1, <2>2 DEF Stays
  <2>4. GarbageHarmless => StaysOff
    <3>1. GarbageHarmless => Moved(mcb, mcb', uppermem_link', O)
      BY <1>8, <1>10, <2>2 DEF Moved
    <3>2. QED
      BY <1>6, <2>1, <3>1, StaysMoved
  <2>5. QED
    BY <2>3, <2>4
<1>12. CASE load.seg # NONE
  <2> DEFINE s == load.seg
  <2>1. /\ s \in Valid(load.mcb) /\ load.mcb[s].psp = s + 1 /\ Unowned(m, s)
        /\ Owners(load.mcb) \subseteq Owners(m) \cup O \cup {s + 1}
    BY <1>7, <1>12 DEF Loads
  <2>2. mix' = mix /\ stack' = Append(stack, s + 1) /\ resident' = resident \ {s + 1}
    BY <1>1, <1>12
  <2> HIDE DEF s
  <2>3. s \in Para /\ s \in Valid(mcb') /\ mcb'[s].psp = s + 1 /\ Unowned(mcb, s)
    BY <1>8, <1>9, <2>1, ValidParas DEF SameBlocks
  <2>4. Owners(mcb') \subseteq Owners(mcb) \cup {FREE_PSP, cu_psp} \cup {s + 1}
    BY <1>6, <1>9, <2>1
  <2>5. Enters(s)
    BY <1>8, <2>2, <2>3, <2>4 DEF Enters
  <2>6. QED
    BY <1>10, <2>3, <2>5
<1>13. QED
  BY <1>11, <1>12

(* The end of a process.                                                   *)
LEMMA TerminateLeaves ==
    ASSUME ChainInv, Terminate
    PROVE  Leaves /\ LeavesOff
<1> DEFINE ps == cu_psp
           f  == FreeProcessMem(mcb, uppermem_link, ps)
<1>1. /\ Len(stack) > 1 /\ mcb' = f.mcb /\ uppermem_link' = f.link
      /\ stack' = SubSeq(stack, 1, Len(stack) - 1) /\ mix' = mix /\ resident' = resident
  BY DEF Terminate
<1>2. ps \in Nat \ {0} /\ Tiled(mcb, uppermem_link)
  BY StackFacts DEF ChainInv
<1> HIDE DEF ps
<1>3. /\ Tiled(f.mcb, uppermem_link) /\ f.link = uppermem_link /\ Valid(f.mcb) = Valid(mcb)
      /\ \A p \in Valid(mcb) : /\ f.mcb[p].size = mcb[p].size
                               /\ f.mcb[p].psp = IF mcb[p].psp = ps THEN FREE_PSP ELSE mcb[p].psp
  BY <1>2, ProcessFreed
<1> HIDE DEF f
<1>4. ps # FREE_PSP
  BY <1>2 DEF FREE_PSP
<1>5. ps \notin Owners(mcb') /\ Owners(mcb') \subseteq Owners(mcb) \cup {FREE_PSP}
  <2>1. ASSUME NEW p \in Valid(mcb')
        PROVE  mcb'[p].psp # ps /\ mcb'[p].psp \in Owners(mcb) \cup {FREE_PSP}
    <3>1. p \in Valid(mcb) /\ mcb'[p].psp = IF mcb[p].psp = ps THEN FREE_PSP ELSE mcb[p].psp
      BY <1>1, <1>3
    <3>2. QED
      BY <1>4, <3>1 DEF Owners
  <2>2. QED
    BY <2>1 DEF Owners
<1>6. \A p \in Valid(mcb) : mcb[p].psp # ps => Kept(p)
  BY <1>1, <1>3 DEF Kept
<1>7. Leaves
  BY <1>1, <1>3, <1>5 DEF Leaves, ps
<1>8. LeavesOff
  BY <1>6 DEF LeavesOff, ps
<1>9. QED
  BY <1>7, <1>8

(* Keep program.                                                           *)
LEMMA KeepProgramLeaves ==
    ASSUME ChainInv, NEW n \in mix.sizes, KeepProgram(n)
    PROVE  Leaves /\ LeavesOff
<1> DEFINE owner == cu_psp
           p == owner - 1
           d == DosMemChange(mcb, p, n, owner)
<1>1. /\ Len(stack) > 1 /\ mcb' = d /\ uppermem_link' = uppermem_link
      /\ stack' = SubSeq(stack, 1, Len(stack) - 1) /\ mix' = mix /\ resident' = resident \cup {owner}
  BY DEF KeepProgram
<1>2. p \in Int /\ p # UpperRoot /\ Tiled(mcb, uppermem_link) /\ n \in Nat /\ owner \in Nat \ {0}
  BY StackFacts, LayoutAssumption DEF ChainInv
<1>3. p = cu_psp - 1 /\ owner = cu_psp
  OBVIOUS
<1> HIDE DEF owner, p
<1>4. /\ Tiled(d, uppermem_link) /\ KeepsAllBut(mcb, d, p)
      /\ Owners(d) \subseteq Owners(mcb) \cup {FREE_PSP, owner}
  BY <1>2, ChangeTiled
<1> HIDE DEF d
<1>5. LeavesOff
  BY <1>1, <1>3, <1>4 DEF KeepsAllBut, KeepsBut, Kept, LeavesOff
<1>6. Leaves
  BY <1>1, <1>3, <1>4 DEF Leaves
<1>7. QED
  BY <1>5, <1>6

(* Every step, in these terms.                                             *)
Steps ==
    \/ Stays /\ (GarbageHarmless => StaysOff)
    \/ \E s \in Para : Enters(s) /\ (GarbageHarmless => Keeps(mcb, mcb'))
    \/ Leaves /\ LeavesOff

(* Every step of the model is one of the kinds of Steps.                   *)
LEMMA EveryStep ==
    ASSUME ChainInv, RootKept, [MemNext]_memVars
    PROVE  Steps
<1>1. ASSUME NEW n \in mix.sizes, Allocate(n)
      PROVE  Steps
  BY <1>1, AllocateStays DEF Steps
<1>2. ASSUME NEW n \in mix.sizes, KeepProgram(n)
      PROVE  Steps
  BY <1>2, KeepProgramLeaves DEF Steps
<1>3. ASSUME NEW p \in Para, Free(p)
      PROVE  Steps
  BY <1>3, FreeStays DEF Steps
<1>4. ASSUME NEW p \in Para, NEW n \in mix.sizes, Change(p, n)
      PROVE  Steps
  BY <1>4, ChangeStays DEF Steps
<1>5. ASSUME NEW s \in mix.strategies, SetStrategy(s)
      PROVE  Steps
  BY <1>5, SetStrategyStays DEF Steps, SetStrategy
<1>6. ASSUME NEW n \in BOOLEAN, SetUmbLink(n)
      PROVE  Steps
  BY <1>6, SetUmbLinkStays DEF Steps
<1>7. ASSUME NEW need \in ExecSizes, NEW want \in ExecSizes \cup {FAKE}, NEW high \in BOOLEAN,
             NEW broken \in BOOLEAN, NEW g \in StaleEnv, Exec(need, want, high, g, broken)
      PROVE  Steps
  BY <1>7, ExecSteps DEF Steps
<1>8. CASE Terminate
  BY <1>8, TerminateLeaves DEF Steps
<1>9. CASE UNCHANGED memVars
  BY <1>9, SetStrategyStays DEF Steps, memVars
<1>10. QED
  BY <1>1, <1>2, <1>3, <1>4, <1>5, <1>6, <1>7, <1>8, <1>9 DEF MemNext

(***************************************************************************)
(* The invariants are inductive.                                           *)
(***************************************************************************)
LEMMA MemStart ==
    MemInit => MemInv
<1> SUFFICES ASSUME MemInit
             PROVE  MemInv
  OBVIOUS
<1> DEFINE r == First + RootSize + 1
<1>1. /\ First \in Nat /\ RootSize \in Nat /\ UpperRoot \in Nat /\ UmbSeg \in Nat /\ Top \in Nat
      /\ First < r /\ r < UpperRoot /\ UpperRoot < UmbSeg /\ UmbSeg + 1 < Top /\ Top <= 65536 /\ 1 <= First
      /\ r = First + RootSize + 1 /\ r \in Nat
  BY LayoutAssumption
<1>2. mcb = [p \in Para |->
          CASE p = First  -> [type |-> "normal", psp |-> First + 1, size |-> RootSize]
            [] p = r -> [type |-> "last", psp |-> FREE_PSP, size |-> UpperRoot - First - RootSize - 2]
            [] p = UpperRoot -> [type |-> "normal", psp |-> SYSTEM, size |-> UmbSeg - UpperRoot - 1]
            [] p = UmbSeg    -> [type |-> "last", psp |-> FREE_PSP, size |-> Top - UmbSeg - 1]
            [] OTHER -> NoMcb]
  BY DEF MemInit
<1> HIDE DEF r
<1>3. First \in Para /\ r \in Para /\ UpperRoot \in Para /\ UmbSeg \in Para
  BY <1>1 DEF Para
<1>4. /\ mcb[First] = [type |-> "normal", psp |-> First + 1, size |-> RootSize]
      /\ mcb[r] = [type |-> "last", psp |-> FREE_PSP, size |-> UpperRoot - First - RootSize - 2]
      /\ mcb[UpperRoot] = [type |-> "normal", psp |-> SYSTEM, size |-> UmbSeg - UpperRoot - 1]
      /\ mcb[UmbSeg] = [type |-> "last", psp |-> FREE_PSP, size |-> Top - UmbSeg - 1]
      /\ \A p \in Para \ {First, r, UpperRoot, UmbSeg} : mcb[p] = NoMcb
  BY <1>1, <1>2, <1>3
<1>5. mcb \in [Para -> Mcb]
  <2>1. mcb[First] \in Mcb /\ mcb[r] \in Mcb /\ mcb[UpperRoot] \in Mcb /\ mcb[UmbSeg] \in Mcb
    BY <1>1, <1>4 DEF Mcb, FREE_PSP, SYSTEM
  <2>2. NoMcb \in Mcb
    BY DEF Mcb, NoMcb, FREE_PSP
  <2>3. \A p \in Para : mcb[p] \in Mcb
    BY <1>4, <2>1, <2>2
  <2>4. mcb = [p \in Para |-> mcb[p]]
    BY <1>2
  <2>5. QED
    BY <2>3, <2>4
<1>6. Valid(mcb) = {First, r, UpperRoot, UmbSeg}
  <2>1. First \in Valid(mcb) /\ r \in Valid(mcb) /\ UpperRoot \in Valid(mcb) /\ UmbSeg \in Valid(mcb)
    BY <1>1, <1>3, <1>4 DEF Valid, mcbValid, mcbFreeable, FAKE
  <2>2. \A p \in Para \ {First, r, UpperRoot, UmbSeg} : p \notin Valid(mcb)
    BY <1>4 DEF Valid, mcbValid, mcbFreeable, NoMcb
  <2>3. QED
    BY <2>1, <2>2, ValidParas
<1>7. /\ nxtMCB(mcb, First) = r /\ nxtMCB(mcb, r) = UpperRoot
      /\ nxtMCB(mcb, UpperRoot) = UmbSeg /\ nxtMCB(mcb, UmbSeg) = Top
  BY <1>1, <1>4 DEF nxtMCB
<1>8. uppermem_link = FALSE /\ stack = <<First + 1>> /\ resident = {} /\ mix \in Mixes
  BY DEF MemInit
<1>9. \A p \in Valid(mcb) : NextIsOne(mcb, p) /\ NoneBetween(mcb, p)
  BY <1>1, <1>6, <1>7 DEF NextIsOne, NoneBetween
<1>10. /\ mcb[First].type = "normal" /\ mcb[r].type = "last" /\ mcb[UpperRoot].type = "normal"
       /\ mcb[UmbSeg].type = "last" /\ mcb[UpperRoot].psp = SYSTEM /\ mcb[First].psp = First + 1
       /\ mcb[r].psp = FREE_PSP /\ mcb[UmbSeg].psp = FREE_PSP
  BY <1>4
<1>11. \A p \in Valid(mcb) : EndIsLast(mcb, uppermem_link, p)
  BY <1>1, <1>6, <1>7, <1>8, <1>10 DEF EndIsLast
<1>12. Tiled(mcb, uppermem_link)
  BY <1>5, <1>6, <1>8, <1>9, <1>10, <1>11 DEF Tiled
<1>13. /\ stack \in Seq(Psp) /\ stack # <<>> /\ Len(stack) = 1 /\ stack[1] = First + 1
       /\ Running = {First + 1} /\ First + 1 \in Psp /\ First + 1 - 1 = First
  BY <1>1, <1>8 DEF Running, Psp
<1>14. \A i \in 1 .. Len(stack) : i = 1
  BY <1>13
<1>15. Owners(mcb) \subseteq {FREE_PSP, SYSTEM} \cup resident \cup Running
  BY <1>6, <1>10, <1>13 DEF Owners
<1>16. \A i \in 1 .. Len(stack) : stack[i] - 1 # UpperRoot
  BY <1>1, <1>13, <1>14
<1>17. ChainInv
  BY <1>8, <1>12, <1>13, <1>15, <1>16 DEF ChainInv
<1>18. PspsOwned /\ PspsDiffer
  <2>1. stack[1] - 1 = First /\ First \in Valid(mcb) /\ mcb[First].psp = stack[1]
    <3>1. First \in Valid(mcb) /\ mcb[First].psp = stack[1]
      BY <1>6, <1>10, <1>13
    <3>2. stack[1] - 1 = First
      BY <1>1, <1>13
    <3>3. QED
      BY <3>1, <3>2
  <2>2. PspsOwned
    BY <1>14, <2>1 DEF PspsOwned
  <2>3. PspsDiffer
    BY <1>14 DEF PspsDiffer
  <2>4. QED
    BY <2>2, <2>3
<1>19. QED
  BY <1>8, <1>17, <1>18 DEF MemInv

(* ChainInv is kept by every kind of step.                                 *)
LEMMA ChainKept ==
    ASSUME ChainInv, Steps
    PROVE  ChainInv'
<1> DEFINE n == Len(stack)
<1>1. /\ n \in Nat \ {0} /\ cu_psp \in Running /\ \A i \in 1 .. n : stack[i] \in Psp
      /\ stack \in Seq(Psp) /\ resident \subseteq Psp /\ mix \in Mixes /\ cu_psp \in Psp
      /\ Owners(mcb) \subseteq {FREE_PSP, SYSTEM} \cup resident \cup Running
      /\ \A i \in 1 .. n : stack[i] - 1 # UpperRoot
  BY StackFacts DEF ChainInv, Psp
<1>2. CASE Stays
  <2>1. stack' = stack /\ mix' = mix /\ resident' = resident /\ Tiled(mcb', uppermem_link')
        /\ Owners(mcb') \subseteq Owners(mcb) \cup {FREE_PSP, cu_psp}
    BY <1>2 DEF Stays
  <2>2. Running' = Running
    BY <2>1 DEF Running
  <2>3. QED
    BY <1>1, <2>1, <2>2 DEF ChainInv, Owners
<1>3. ASSUME NEW s \in Para, Enters(s)
      PROVE  ChainInv'
  <2> DEFINE e == s + 1
  <2>1. /\ stack' = Append(stack, e) /\ mix' = mix /\ resident' = resident \ {e}
        /\ Tiled(mcb', uppermem_link') /\ Unowned(mcb, s)
        /\ Owners(mcb') \subseteq Owners(mcb) \cup {FREE_PSP, cu_psp} \cup {e}
    BY <1>3 DEF Enters
  <2>2. e \in Psp /\ e - 1 = s /\ s # UpperRoot
    <3>1. s \in Nat /\ s # UpperRoot
      BY <2>1, RootFacts, Layout DEF Unowned, ChainInv
    <3>2. QED
      BY <3>1 DEF Psp
  <2> HIDE DEF e
  <2>3. /\ stack' \in Seq(Psp) /\ stack' # <<>> /\ Len(stack') = n + 1
        /\ stack'[n + 1] = e /\ \A i \in 1 .. n : stack'[i] = stack[i]
    BY <1>1, <2>1, <2>2, Pushed
  <2>4. Running' = Running \cup {e}
    <3>1. 1 .. n + 1 = (1 .. n) \cup {n + 1}
      BY <1>1
    <3>2. Running' = {stack'[i] : i \in 1 .. n + 1}
      BY <2>3 DEF Running
    <3>3. QED
      BY <2>3, <3>1, <3>2 DEF Running
  <2>5. \A i \in 1 .. Len(stack') : stack'[i] - 1 # UpperRoot
    <3>1. ASSUME NEW i \in 1 .. n + 1
          PROVE  stack'[i] - 1 # UpperRoot
      <4>1. CASE i = n + 1
        BY <2>2, <2>3, <4>1
      <4>2. CASE i \in 1 .. n
        BY <1>1, <2>3, <4>2
      <4>3. QED
        BY <1>1, <4>1, <4>2
    <3>2. QED
      BY <2>3, <3>1
  <2>6. Owners(mcb') \subseteq {FREE_PSP, SYSTEM} \cup resident' \cup Running'
    BY <1>1, <2>1, <2>4
  <2>7. resident' \subseteq Psp /\ mix' \in Mixes
    BY <1>1, <2>1
  <2>8. QED
    BY <2>1, <2>3, <2>5, <2>6, <2>7 DEF ChainInv, Owners
<1>4. CASE Leaves
  <2>1. /\ n > 1 /\ mix' = mix /\ stack' = SubSeq(stack, 1, n - 1) /\ Tiled(mcb', uppermem_link')
        /\ Owners(mcb') \subseteq Owners(mcb) \cup {FREE_PSP, cu_psp}
        /\ resident' = resident \cup {cu_psp} \/ (resident' = resident /\ cu_psp \notin Owners(mcb'))
    BY <1>4 DEF Leaves
  <2>2. /\ stack' \in Seq(Psp) /\ Len(stack') = n - 1 /\ stack' # <<>>
        /\ \A i \in 1 .. n - 1 : stack'[i] = stack[i]
    BY <1>1, <2>1, Popped
  <2>3. Running \subseteq Running' \cup {cu_psp}
    <3>1. ASSUME NEW i \in 1 .. n
          PROVE  stack[i] \in Running' \cup {cu_psp}
      <4>1. CASE i = n
        BY <4>1 DEF cu_psp
      <4>2. CASE i \in 1 .. n - 1
        BY <2>2, <4>2 DEF Running
      <4>3. QED
        BY <1>1, <4>1, <4>2
    <3>2. QED
      BY <3>1 DEF Running
  <2>4. resident \subseteq resident' /\ resident' \subseteq Psp
    BY <1>1, <2>1
  <2>5. cu_psp \in resident' \/ cu_psp \notin Owners(mcb')
    BY <2>1
  <2>6. Owners(mcb') \subseteq {FREE_PSP, SYSTEM} \cup resident' \cup Running'
    BY <1>1, <2>1, <2>3, <2>4, <2>5
  <2>7. \A i \in 1 .. Len(stack') : stack'[i] - 1 # UpperRoot
    <3>1. ASSUME NEW i \in 1 .. n - 1
          PROVE  stack'[i] - 1 # UpperRoot
      <4>1. i \in 1 .. n
        BY <1>1
      <4>2. QED
        BY <1>1, <2>2, <4>1
    <3>2. QED
      BY <2>2, <3>1
  <2>8. QED
    BY <1>1, <2>1, <2>2, <2>4, <2>6, <2>7 DEF ChainInv, Owners
<1>5. QED
  BY <1>2, <1>3, <1>4 DEF Steps

(* Garbage that names no paragraph does not name uppermem_root.            *)
LEMMA HarmlessIsKept ==
    GarbageHarmless => RootKept
BY Layout DEF GarbageHarmless, RootKept

(* MemInv is kept by every kind of step, when the garbage is harmless.     *)
LEMMA MemKept ==
    ASSUME MemInv, GarbageHarmless, Steps
    PROVE  MemInv'
<1> DEFINE n == Len(stack)
<1>1. /\ ChainInv /\ n \in Nat \ {0} /\ cu_psp \in Running /\ \A i \in 1 .. n : stack[i] \in Psp
      /\ stack \in Seq(Psp) /\ cu_psp \in Psp /\ n \in 1 .. n /\ stack[n] = cu_psp
      /\ \A i \in 1 .. n : stack[i] \in Running /\ stack[i] # FREE_PSP
  BY StackFacts DEF MemInv, ChainInv, Psp, cu_psp, Running, FREE_PSP
<1>2. /\ \A i \in 1 .. n : stack[i] - 1 \in Valid(mcb) /\ mcb[stack[i] - 1].psp = stack[i]
      /\ \A i, j \in 1 .. n : i # j => stack[i] # stack[j]
      /\ \A i \in 1 .. n : stack[i] \notin resident
  BY <1>1 DEF MemInv, PspsOwned, PspsDiffer
<1>3. ChainInv'
  BY <1>1, ChainKept
<1>4. CASE Stays /\ StaysOff
  <2>1. stack' = stack /\ resident' = resident
    BY <1>4 DEF Stays
  <2>2. ASSUME NEW i \in 1 .. n
        PROVE  stack[i] - 1 \in Valid(mcb') /\ mcb'[stack[i] - 1].psp = stack[i]
    <3> DEFINE p == stack[i] - 1
    <3>1. p \in Valid(mcb) /\ mcb[p].psp = stack[i] /\ PspMcb(p)
      BY <1>2 DEF PspMcb
    <3> HIDE DEF p
    <3>2. p \in Valid(mcb') /\ mcb'[p].psp = stack[i]
      <4>1. CASE stack[i] = cu_psp
        BY <1>4, <3>1, <4>1 DEF StaysOff
      <4>2. CASE stack[i] # cu_psp
        BY <1>1, <1>2, <1>4, <3>1, <4>2 DEF StaysOff, Kept
      <4>3. QED
        BY <4>1, <4>2
    <3>3. QED
      BY <3>2 DEF p
  <2>3. PspsOwned'
    BY <2>1, <2>2 DEF PspsOwned
  <2>4. PspsDiffer' /\ (resident \cap Running = {})'
    BY <2>1 DEF MemInv, PspsDiffer, Running
  <2>5. QED
    BY <1>3, <2>3, <2>4 DEF MemInv
<1>5. ASSUME NEW s \in Para, Enters(s), Keeps(mcb, mcb')
      PROVE  MemInv'
  <2> DEFINE e == s + 1
  <2>1. /\ stack' = Append(stack, e) /\ resident' = resident \ {e} /\ Unowned(mcb, s)
        /\ s \in Valid(mcb') /\ mcb'[s].psp = e
    BY <1>5 DEF Enters
  <2>2. e \in Psp /\ e - 1 = s
    <3>1. s \in Nat
      BY Layout
    <3>2. QED
      BY <3>1 DEF Psp
  <2> HIDE DEF e
  <2>3. /\ Len(stack') = n + 1 /\ stack'[n + 1] = e /\ \A i \in 1 .. n : stack'[i] = stack[i]
    BY <1>1, <2>1, <2>2, Pushed
  <2>4. \A i \in 1 .. n : stack[i] # e
    BY <1>1, <1>2, <2>1, <2>2 DEF Unowned
  <2>5. \A i \in 1 .. n + 1 : i \in 1 .. n \/ i = n + 1
    BY <1>1
  <2>6. \A i \in 1 .. n : stack[i] - 1 \in Valid(mcb') /\ mcb'[stack[i] - 1].psp = stack[i]
    BY <1>1, <1>2, <1>5 DEF Keeps, KeepsBut
  <2>7. PspsOwned'
    BY <2>1, <2>2, <2>3, <2>5, <2>6 DEF PspsOwned
  <2>8. \A i, j \in 1 .. n + 1 : i # j => stack'[i] # stack'[j]
    BY <1>2, <2>3, <2>4, <2>5
  <2>9. PspsDiffer'
    BY <2>3, <2>8 DEF PspsDiffer
  <2>10. \A i \in 1 .. n + 1 : stack'[i] \notin resident'
    BY <1>2, <2>1, <2>3, <2>5
  <2>11. (resident \cap Running = {})'
    BY <2>3, <2>10 DEF Running
  <2>12. QED
    BY <1>3, <2>7, <2>9, <2>11 DEF MemInv
<1>6. CASE Leaves /\ LeavesOff
  <2>1. /\ n > 1 /\ stack' = SubSeq(stack, 1, n - 1) /\ resident' \subseteq resident \cup {cu_psp}
    BY <1>6 DEF Leaves
  <2>2. /\ Len(stack') = n - 1 /\ \A i \in 1 .. n - 1 : stack'[i] = stack[i]
    BY <1>1, <2>1, Popped
  <2>3. \A i \in 1 .. n - 1 : i \in 1 .. n /\ i # n
    BY <1>1
  <2>4. \A i \in 1 .. n - 1 : stack[i] # cu_psp
    BY <1>1, <1>2, <2>3
  <2>5. ASSUME NEW i \in 1 .. n - 1
        PROVE  stack'[i] - 1 \in Valid(mcb') /\ mcb'[stack'[i] - 1].psp = stack'[i]
    <3> DEFINE p == stack[i] - 1
    <3>1. p \in Valid(mcb) /\ mcb[p].psp = stack[i] /\ stack[i] # cu_psp /\ stack[i] # FREE_PSP
      BY <1>1, <1>2, <2>3, <2>4
    <3>2. p # cu_psp - 1
      <4>1. stack[i] \in Nat /\ cu_psp \in Nat
        BY <1>1, <2>3 DEF Psp
      <4>2. QED
        BY <3>1, <4>1
    <3> HIDE DEF p
    <3>3. p \in Valid(mcb') /\ mcb'[p].psp = stack[i]
      BY <1>6, <3>1, <3>2 DEF LeavesOff, Kept
    <3>4. QED
      BY <2>2, <3>3 DEF p
  <2>6. PspsOwned'
    BY <2>2, <2>5 DEF PspsOwned
  <2>7. \A i, j \in 1 .. n - 1 : i # j => stack'[i] # stack'[j]
    BY <1>2, <2>2, <2>3
  <2>8. PspsDiffer'
    BY <2>2, <2>7 DEF PspsDiffer
  <2>9. \A i \in 1 .. n - 1 : stack'[i] \notin resident'
    BY <1>2, <2>1, <2>2, <2>3, <2>4
  <2>10. (resident \cap Running = {})'
    BY <2>2, <2>9 DEF Running
  <2>11. QED
    BY <1>3, <2>6, <2>8, <2>10 DEF MemInv
<1>7. QED
  BY <1>4, <1>5, <1>6 DEF Steps

(***************************************************************************)
(* The theorems.                                                           *)
(***************************************************************************)
(* The blocks the two walks come to.                                       *)
LEMMA BlocksAre ==
    ASSUME NEW m, NEW link, Tiled(m, link)
    PROVE  /\ Walk(m, First) \cup Walk(m, UpperRoot) = Valid(m)
           /\ Walk(m, First) = IF link THEN Valid(m) ELSE {q \in Valid(m) : q < UpperRoot}
           /\ Walk(m, UpperRoot) = {q \in Valid(m) : q >= UpperRoot}
<1>1. First \in Valid(m) /\ UpperRoot \in Valid(m)
  BY RootFacts
<1>2. Walk(m, First) = Reach(m, link, First) /\ Walk(m, UpperRoot) = Reach(m, link, UpperRoot)
  BY <1>1, WalkIs
<1>3. \A q \in Valid(m) : q \in Nat /\ q >= First
  BY ValidParas, Layout
<1>4. UpperRoot \in Nat /\ First < UpperRoot /\ First \in Nat
  BY Layout
<1>5. Walk(m, First) = IF link THEN Valid(m) ELSE {q \in Valid(m) : q < UpperRoot}
  BY <1>2, <1>3, <1>4 DEF Reach
<1>6. Walk(m, UpperRoot) = {q \in Valid(m) : q >= UpperRoot}
  BY <1>2, <1>3, <1>4 DEF Reach
<1>7. \A q \in Valid(m) : q < UpperRoot \/ q >= UpperRoot
  BY <1>3, <1>4
<1>8. Walk(m, First) \cup Walk(m, UpperRoot) = Valid(m)
  BY <1>5, <1>6, <1>7
<1>9. QED
  BY <1>5, <1>6, <1>8

(* A chain that is tiled is whole, walked as the code walks it.            *)
LEMMA ChainFromInv ==
    ChainInv => ChainWhole
<1> SUFFICES ASSUME ChainInv
             PROVE  ChainWhole
  OBVIOUS
<1> DEFINE link == uppermem_link
<1>1. Tiled(mcb, link) /\ link \in BOOLEAN
  BY DEF ChainInv, Tiled
<1>2. /\ First \in Valid(mcb) /\ UpperRoot \in Valid(mcb) /\ First < UpperRoot /\ UpperRoot < Top
      /\ First \in Nat /\ UpperRoot \in Nat /\ Top \in Nat
      /\ \A q \in Valid(mcb) : q \in Nat /\ First <= q /\ q < Top
  BY <1>1, RootFacts, ValidParas, Layout
<1>3. \A p \in Valid(mcb) :
        /\ nxtMCB(mcb, p) \in Valid(mcb) \cup {Top} /\ nxtMCB(mcb, p) \in Nat /\ p < nxtMCB(mcb, p)
        /\ \A q \in Valid(mcb) : q <= p \/ nxtMCB(mcb, p) <= q
  BY <1>1, ValidFacts DEF Tiled, NextIsOne, NoneBetween
<1>4. /\ Blocks = Valid(mcb)
      /\ Conventional = IF link THEN Valid(mcb) ELSE {q \in Valid(mcb) : q < UpperRoot}
      /\ Upper = {q \in Valid(mcb) : q >= UpperRoot}
  BY <1>1, BlocksAre DEF Blocks, Conventional, Upper
<1>5. \A p \in Blocks : mcbValid(mcb, p)
  BY <1>4 DEF Valid
<1>6. ASSUME NEW S, S \subseteq Valid(mcb), S # {}
      PROVE  Highest(S) \in S /\ \A x \in S : x <= Highest(S)
  BY <1>6, HighestPara, ValidParas
<1>7. nxtMCB(mcb, Highest(Upper)) = Top
  <2> DEFINE h == Highest(Upper)
  <2>1. Upper \subseteq Valid(mcb) /\ UpperRoot \in Upper
    BY <1>2, <1>4
  <2>2. h \in Upper /\ \A x \in Upper : x <= h
    BY <1>6, <2>1
  <2> HIDE DEF h
  <2>3. nxtMCB(mcb, h) \notin Upper
    BY <1>2, <1>3, <2>1, <2>2
  <2>4. h \in Valid(mcb) /\ h >= UpperRoot
    BY <1>4, <2>2
  <2>5. nxtMCB(mcb, h) \notin Valid(mcb)
    BY <1>2, <1>3, <1>4, <2>3, <2>4
  <2>6. nxtMCB(mcb, h) = Top
    BY <1>3, <2>4, <2>5
  <2>7. QED
    BY <2>6 DEF h
<1>8. nxtMCB(mcb, Highest(Conventional)) = (IF link THEN Top ELSE UpperRoot)
  <2> DEFINE h == Highest(Conventional)
  <2>1. Conventional \subseteq Valid(mcb) /\ First \in Conventional
    BY <1>2, <1>4
  <2>2. h \in Conventional /\ \A x \in Conventional : x <= h
    BY <1>6, <2>1
  <2> HIDE DEF h
  <2>3. h \in Valid(mcb) /\ nxtMCB(mcb, h) \notin Conventional
    BY <1>2, <1>3, <2>1, <2>2
  <2>4. CASE link
    BY <1>3, <1>4, <2>3, <2>4 DEF h
  <2>5. CASE ~link
    <3>1. h < UpperRoot /\ nxtMCB(mcb, h) <= UpperRoot /\ nxtMCB(mcb, h) \in Valid(mcb)
      BY <1>2, <1>3, <1>4, <2>2, <2>3, <2>5
    <3>2. ~(nxtMCB(mcb, h) < UpperRoot)
      BY <1>4, <2>3, <2>5, <3>1
    <3>3. nxtMCB(mcb, h) = UpperRoot
      BY <1>2, <1>3, <2>3, <3>1, <3>2
    <3>4. QED
      BY <2>5, <3>3 DEF h
  <2>6. QED
    BY <2>4, <2>5
<1>9. \A p \in Blocks : mcb[p].type = "last" <=>
          nxtMCB(mcb, p) = Top \/ (nxtMCB(mcb, p) = UpperRoot /\ ~uppermem_link)
  BY <1>1, <1>4 DEF Tiled, EndIsLast
<1>10. QED
  BY <1>5, <1>7, <1>8, <1>9 DEF ChainWhole

(* Owners that are all running, resident or the system leave no orphan.    *)
LEMMA NoOrphansFromInv ==
    ChainInv => NoOrphans
<1> SUFFICES ASSUME ChainInv
             PROVE  NoOrphans
  OBVIOUS
<1>1. Blocks = Valid(mcb)
  BY BlocksAre DEF ChainInv, Blocks, Conventional, Upper
<1>2. \A p \in Valid(mcb) : mcb[p].psp \in {FREE_PSP, SYSTEM} \cup resident \cup Running
  BY DEF ChainInv, Owners
<1>3. QED
  BY <1>1, <1>2 DEF NoOrphans, Running

(* ChainInv holds in every state.                                          *)
LEMMA ChainIsInductive ==
    ASSUME RootKept
    PROVE  MemSpec => []ChainInv
<1>1. MemInit => ChainInv
  BY MemStart DEF MemInv
<1>2. ChainInv /\ [MemNext]_memVars => ChainInv'
  BY EveryStep, ChainKept
<1>3. QED
  BY <1>1, <1>2, PTL DEF MemSpec

(* ChainWhole: when no loader frees uppermem_root by the environment it never set, the chain that
   DosMemCheck walks is whole after every call, for memory of every size and layout. *)
THEOREM ChainStaysWhole == RootKept => (MemSpec => []ChainWhole)
<1> SUFFICES ASSUME RootKept
             PROVE  MemSpec => []ChainWhole
  OBVIOUS
<1>1. QED
  BY ChainIsInductive, ChainFromInv, PTL

(* NoOrphans: under the same condition every block has an owner that runs or stays resident, the
   system, or none, after every end of a process and every load that fails. *)
THEOREM NoBlockIsOrphaned == RootKept => (MemSpec => []NoOrphans)
<1> SUFFICES ASSUME RootKept
             PROVE  MemSpec => []NoOrphans
  OBVIOUS
<1>1. QED
  BY ChainIsInductive, NoOrphansFromInv, PTL

(* ParentsKeepMemory: when what the loaders free by the environment they never set is no block, no
   step moves, cuts or frees a block of a process that waits for its child. *)
THEOREM ParentsFindTheirMemory == GarbageHarmless => (MemSpec => ParentsKeepMemory)
<1> DEFINE Found == \A i \in 1 .. Len(stack) :
                      i < Len(stack) \/ Len(stack') > Len(stack) =>
                        \A p \in Blocks : mcb[p].psp = stack[i] =>
                          p \in Blocks' /\ mcb'[p].psp = mcb[p].psp /\ mcb'[p].size = mcb[p].size
<1> SUFFICES ASSUME GarbageHarmless
             PROVE  MemSpec => [][Found]_memVars
  BY DEF ParentsKeepMemory
<1>1. MemInit => MemInv
  BY MemStart
<1>2. MemInv /\ [MemNext]_memVars => Steps /\ MemInv'
  BY EveryStep, MemKept, HarmlessIsKept DEF MemInv
<1>3. MemInv /\ MemInv' /\ Steps => Found
  <2> SUFFICES ASSUME MemInv, MemInv', Steps, NEW i \in 1 .. Len(stack),
                      i < Len(stack) \/ Len(stack') > Len(stack),
                      NEW p \in Blocks, mcb[p].psp = stack[i]
               PROVE  p \in Blocks' /\ mcb'[p].psp = mcb[p].psp /\ mcb'[p].size = mcb[p].size
    OBVIOUS
  <2> DEFINE n == Len(stack)
  <2>1. Blocks = Valid(mcb)
    BY BlocksAre DEF MemInv, ChainInv, Blocks, Conventional, Upper
  <2>2. Blocks' = Valid(mcb')
    BY BlocksAre DEF MemInv, ChainInv, Blocks, Conventional, Upper
  <2>3. /\ n \in Nat \ {0} /\ stack \in Seq(Psp) /\ cu_psp = stack[n] /\ n \in 1 .. n /\ cu_psp \in Psp
        /\ stack[i] \in Running /\ stack[i] # FREE_PSP
    <3>1. ChainInv
      BY DEF MemInv
    <3>2. n \in Nat \ {0} /\ stack \in Seq(Psp)
      BY <3>1, StackFacts DEF ChainInv
    <3>3. cu_psp = stack[n] /\ n \in 1 .. n
      BY <3>2 DEF cu_psp
    <3>4. cu_psp \in Psp /\ stack[i] \in Psp
      BY <3>2, <3>3
    <3>5. stack[i] \in Running /\ stack[i] # FREE_PSP
      BY <3>4 DEF Psp, Running, FREE_PSP
    <3>6. QED
      BY <3>2, <3>3, <3>4, <3>5
  <2>4. /\ i # n => stack[i] # cu_psp
        /\ stack[i] \notin resident
        /\ mcb[cu_psp - 1].psp = cu_psp
    BY <2>3 DEF MemInv, PspsDiffer, PspsOwned
  <2>5. CASE Stays /\ StaysOff
    <3>1. i # n
      BY <2>3, <2>5 DEF Stays
    <3>2. Kept(p)
      BY <2>1, <2>3, <2>4, <2>5, <3>1 DEF StaysOff
    <3>3. QED
      BY <2>2, <3>2 DEF Kept
  <2>6. ASSUME NEW s \in Para, Enters(s), Keeps(mcb, mcb')
        PROVE  p \in Blocks' /\ mcb'[p].psp = mcb[p].psp /\ mcb'[p].size = mcb[p].size
    BY <2>1, <2>2, <2>3, <2>6 DEF Keeps, KeepsBut
  <2>7. CASE Leaves /\ LeavesOff
    <3>1. Len(stack') = n - 1
      BY <2>3, <2>7, Popped DEF Leaves
    <3>2. i # n
      BY <2>3, <3>1
    <3>3. Kept(p)
      BY <2>1, <2>3, <2>4, <2>7, <3>2 DEF LeavesOff
    <3>4. QED
      BY <2>2, <3>3 DEF Kept
  <2>8. QED
    BY <2>5, <2>6, <2>7 DEF Steps
<1>4. QED
  BY <1>1, <1>2, <1>3, PTL DEF MemSpec

(* The strategy is one a program may set, through loads that change it.     *)
LEMMA StrategyKept ==
    ASSUME ChainInv, strategy \in Settable, [MemNext]_memVars
    PROVE  strategy' \in Settable
<1>1. ASSUME UNCHANGED strategy
      PROVE  strategy' \in Settable
  BY <1>1
<1>2. ASSUME NEW s \in mix.strategies, SetStrategy(s)
      PROVE  strategy' \in Settable
  <2>1. s \in [fit: {"first", "best", "last"}, uo: BOOLEAN, u: BOOLEAN] /\ ~(s.uo /\ s.u)
    BY LayoutAssumption DEF ChainInv
  <2>2. QED
    BY <1>2, <2>1 DEF SetStrategy, Settable, Strategies, Fits
<1>3. ASSUME NEW need, NEW want, NEW high \in BOOLEAN, NEW g, NEW broken, Exec(need, want, high, g, broken)
      PROVE  strategy' \in Settable
  <2> DEFINE linked == IF high THEN DosUmbLink(mcb, uppermem_link, TRUE)
                               ELSE [mcb |-> mcb, link |-> uppermem_link]
             strat1 == [strategy EXCEPT !.u = @ \/ high]
             env    == DosMemAlloc(linked.mcb, EnvSize, strat1, linked.link, strat1, cu_psp)
             load   == LoadWithEnv(env, need, want, linked.link, strat1, g, broken)
             most   == ExecMemLargest(env.mcb, linked.link, strat1, need)
  <2>1. strategy \in Strategies /\ strategy.u \in BOOLEAN /\ ~(strategy.uo /\ strategy.u)
    BY DEF Settable, Strategies
  <2>2. strategy' = IF high \/ strategy.u THEN [strategy EXCEPT !.u = FALSE] ELSE load.strat
    BY <1>3 DEF Exec, Loaded
  <2>3. CASE high \/ strategy.u
    <3> DEFINE off == FALSE
    <3>1. strategy' = [strategy EXCEPT !.u = off]
      BY <2>2, <2>3
    <3>2. [strategy EXCEPT !.u = off] \in Settable
      BY <2>1 DEF Settable, Strategies
    <3>3. QED
      BY <3>1, <3>2
  <2>4. CASE ~(high \/ strategy.u)
    <3>1. strat1 = strategy
      BY <2>1, <2>4 DEF Strategies
    <3>2. load.strat = strat1 \/ load.strat = most.strat
      <4> HIDE DEF strat1, env, linked
      <4>1. load.strat = strat1 \/ load.strat = LoadInLargest(env.seg, most, need, want, linked.link, broken).strat
        BY DEF LoadWithEnv, LoadFailed
      <4> HIDE DEF most
      <4>2. LoadInLargest(env.seg, most, need, want, linked.link, broken).strat = most.strat
        BY DEF LoadInLargest, LoadFailed, LoadInBlock
      <4>3. QED
        BY <4>1, <4>2
    <3>3. most.strat = strat1
      <4> HIDE DEF env, linked
      <4>1. ~strat1.u
        BY <2>4, <3>1
      <4> HIDE DEF strat1
      <4>2. QED
        BY <4>1 DEF ExecMemLargest, MostOf
    <3>4. strategy' = load.strat
      BY <2>2, <2>4
    <3> HIDE DEF load, most, strat1
    <3>5. QED
      BY <3>1, <3>2, <3>3, <3>4
  <2>5. QED
    BY <2>3, <2>4
<1>4. QED
  BY <1>1, <1>2, <1>3
  DEF MemNext, memVars, Allocate, KeepProgram, Free, Change, SetUmbLink, Terminate

(* LargestExact: the size DosMemLargest reports can be allocated by the same call, and one more
   paragraph cannot, in memory of every size, with and without the upper memory, for every
   strategy a program may set. *)
THEOREM LargestIsExact == RootKept => (MemSpec => []LargestExact)
<1> SUFFICES ASSUME RootKept
             PROVE  MemSpec => []LargestExact
  OBVIOUS
<1> DEFINE Inv == ChainInv /\ strategy \in Settable
<1>1. MemInit => Inv
  <2>1. MemInit => ChainInv
    BY MemStart DEF MemInv
  <2>2. MemInit => strategy \in Settable
    BY DEF MemInit, Settable, Strategies, Fits
  <2>3. QED
    BY <2>1, <2>2
<1>2. Inv /\ [MemNext]_memVars => Inv'
  BY EveryStep, ChainKept, StrategyKept
<1>3. Inv => LargestExact
  BY StackFacts, LargestIs DEF ChainInv, LargestExact
<1>4. QED
  BY <1>1, <1>2, <1>3, PTL DEF MemSpec
=============================================================================
