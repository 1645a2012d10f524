------------------------------ MODULE StartMem ------------------------------
(***************************************************************************)
(* Memory at start-up (kernel/config.c, main.c, inithma.c): the first MCB,  *)
(* the drivers loaded at its end, the upper memory blocks an XMS driver     *)
(* brings, the tables PostConfig allocates low, in the UMBs or in the HMA,  *)
(* and the chain programs find when CONFIG.SYS is done.  A segment is a     *)
(* paragraph number; mcb[s] is what the header at s holds.                  *)
(***************************************************************************)
EXTENDS Integers, FiniteSets, SequencesExt

CONSTANTS LastSeg,   \* the last paragraph modelled
          First,     \* LoL->_first_mcb
          Top,       \* ram_top in paragraphs
          Layouts,   \* [umbs, heapHma]: what the XMS driver has, a sequence of [seg, size] with the
                     \* largest first, and whether the kernel's heap is in the HMA
          HeapUmb,   \* DynLastSeg() and DynRemained() when the heap is in the HMA
          Sizes,     \* paragraphs a driver or a table takes
          HmaText, HmaTop, \* paragraphs of the kernel's text, and of the HMA
          MaxDrivers \* bound: DEVICE lines that load

ASSUME MemAssumption == First \in Nat /\ Top \in Nat /\ First + 1 < Top /\ Top <= LastSeg

Seg     == 0 .. LastSeg
NORMAL  == "M"
LAST    == "Z"
System  == 8
NoMcb   == [type |-> "", psp |-> 0, size |-> 0]

mcb_init(m, s, size, type) == [m EXCEPT ![s] = [type |-> type, psp |-> 0, size |-> size]]
mumcb_init(m, s, size)     == [m EXCEPT ![s] = [type |-> NORMAL, psp |-> System, size |-> size]]

VARIABLES mem,     \* mcb and the variables base_seg, umb_base_seg, umb_start, umb_max, UmbState, ram_top
          xms,     \* UMBs the XMS driver still has, and whether a driver is there
          hma,     \* HMAState and HMAFree
          heapHma, \* FDPP_FL_HEAP_HMA
          phase, drivers,
          given, granted \* history: the regions KernelAlloc gave away; paragraphs taken from XMS

vars == <<mem, xms, hma, heapHma, phase, drivers, given, granted>>

-----------------------------------------------------------------------------
(* KernelAllocPara *)

(* The first allocation splits the block: the system's own header, then the free rest. *)
Split(m, b) == mumcb_init(mcb_init(m, b + 1, m[b].size - 1, m[b].type), b, 0)

(* A sub-block of n paragraphs at b; what is left is free, the system's block grows. *)
Carve(m, start, b, n) ==
  [mcb_init(m, b + n + 1, m[b].size - n - 1, m[b].type)
     EXCEPT ![start].size = @ + n + 1, ![b] = [type |-> "D", psp |-> System, size |-> n]]

FirstFree(start, base) == IF base = start THEN base + 1 ELSE base

High(M, mode)  == mode /\ M.umbState = 1
Start(M, mode) == IF High(M, mode) THEN M.umbStart ELSE First
Base(M, mode)  == IF High(M, mode) THEN M.umbBase ELSE M.base
Given(M, mode) == FirstFree(Start(M, mode), Base(M, mode)) + 1

KernelAllocPara(M, n, mode) ==
  LET m == IF Base(M, mode) = Start(M, mode) THEN Split(M.mcb, Base(M, mode)) ELSE M.mcb
      b == Given(M, mode) + n
  IN  [M EXCEPT !.mcb = Carve(m, Start(M, mode), Given(M, mode) - 1, n),
                !.umbBase = IF High(M, mode) THEN b ELSE @,
                !.base = IF High(M, mode) THEN @ ELSE b]

(* Nothing tests that the block is large enough: the requests modelled fit. *)
Room(M, n, mode) == M.mcb[Base(M, mode)].size > n + 1

-----------------------------------------------------------------------------
(* umb_init *)

(* prev_mcb: the last header before cur, from start on. *)
prev_mcb(m, cur, start) ==
  LET walk[s \in Seg] == IF m[s].type = LAST \/ s + m[s].size + 1 >= cur THEN s
                         ELSE walk[s + m[s].size + 1]
  IN  walk[start]

Root(M) == M.top - 1

(* Mutant: the last low block keeps the paragraph of the link. *)
UmbFirstWhole(M, u) ==
  [M EXCEPT !.mcb = mcb_init(mumcb_init([@ EXCEPT ![M.base].type = NORMAL], Root(M), u.seg - Root(M) - 1),
                             u.seg, u.size - 1, LAST),
            !.umbState = 1, !.umbBase = u.seg, !.umbStart = u.seg, !.umbMax = u.seg]

(* The first UMB, the largest: the last low block gives its last paragraph to the link. *)
UmbFirst(M, u) ==
  [M EXCEPT !.mcb = mcb_init(mumcb_init([@ EXCEPT ![M.base].type = NORMAL, ![M.base].size = @ - 1],
                                        Root(M), u.seg - Root(M) - 1),
                             u.seg, u.size - 1, LAST),
            !.umbState = 1, !.umbBase = u.seg, !.umbStart = u.seg, !.umbMax = u.seg]

(* Where a UMB meets the one above it the two become one; otherwise its last paragraph is
   the header of the link to the one above. *)
LinkAbove(m, u, next) ==
  IF next = u.seg + u.size
  THEN [m EXCEPT ![u.seg] = [type |-> NORMAL, psp |-> 0, size |-> u.size + m[next].size + 1]]
  ELSE mumcb_init([m EXCEPT ![u.seg] = [type |-> NORMAL, psp |-> 0, size |-> u.size - 2]],
                  u.seg + u.size - 1, next - u.seg - u.size)

(* The same below: the block below grows, or its last paragraph becomes the link. *)
LinkBelow(M, m, u, size, link) ==
  IF u.seg = link + 1 /\ link > M.top
  THEN [m EXCEPT ![prev_mcb(m, link, Root(M))].size = @ + size]
  ELSE mumcb_init(m, link, u.seg - link - 1)

UmbBetween(M, m, u, prev, next) ==
  LinkBelow(M, LinkAbove(m, u, next), u,
            IF next = u.seg + u.size THEN u.size + m[next].size + 1 ELSE u.size, prev)

(* Mutant: the block below stays whole. *)
UmbAtTopWhole(M, m, u, prev, next) ==
  LinkBelow(M, IF u.seg > next THEN [m EXCEPT ![prev].type = NORMAL] ELSE m, u, u.size, next - 1)

UmbAtTop(M, m, u, prev, next) ==
  LinkBelow(M, IF u.seg > next THEN [m EXCEPT ![prev].type = NORMAL, ![prev].size = @ - 1] ELSE m,
            u, u.size, next - 1)

UmbPlaced(M, m, u, prev) ==
  IF u.seg < M.umbMax THEN UmbBetween(M, m, u, prev, prev + m[prev].size + 1)
                      ELSE UmbAtTop(M, m, u, prev, prev + m[prev].size + 1)

UmbNew(M, u, m) ==
  [M EXCEPT !.mcb = UmbPlaced(M, m, u, prev_mcb(m, u.seg, Root(M))),
            !.umbMax = IF u.seg > @ THEN u.seg ELSE @]

UmbNext(M, u) == UmbNew(M, u, mcb_init(M.mcb, u.seg, u.size - 1, LAST))

(* The rest of the kernel's own upper heap, when the heap itself went to the HMA. *)
UmbHeap(M, next) ==
  [M EXCEPT !.mcb = mcb_init(mumcb_init([@ EXCEPT ![M.umbMax].type = NORMAL, ![M.umbMax].size = @ - 1],
                                        next, HeapUmb.seg - next - 1),
                             HeapUmb.seg, HeapUmb.size - 1, LAST)]

HeapAbove(M) == heapHma /\ HeapUmb.seg > M.umbMax

umb_init(M, umbs) ==
  LET all == FoldLeft(UmbNext, UmbFirst(M, umbs[1]), Tail(umbs))
  IN  IF HeapAbove(all) THEN UmbHeap(all, all.umbMax + all.mcb[all.umbMax].size) ELSE all

Paragraphs(u) == u.seg .. u.seg + u.size - 1

-----------------------------------------------------------------------------
Init ==
  /\ mem = [mcb |-> [s \in Seg |-> NoMcb], base |-> 0, umbBase |-> 0, umbStart |-> 0, umbMax |-> 0,
            umbState |-> 0, top |-> Top]
  /\ \E l \in Layouts, there \in BOOLEAN :
       /\ xms = [umbs |-> l.umbs, there |-> there]
       /\ heapHma = l.heapHma
  /\ hma \in [state : {"none", "req"}, free : {2}]
  /\ heapHma => hma.state = "none" /\ xms.there
  /\ phase = "config" /\ drivers = 0 /\ given = {} /\ granted = {}

Region(where, seg, size) == [where |-> where, seg |-> seg, size |-> size]

(* MoveKernelToHMA: the text goes above the first 0x20 bytes, and stays there. *)
HmaMoved(h) == IF h.state = "req" /\ xms.there THEN [state |-> "done", free |-> 2 + HmaText] ELSE h

(* DOS=UMB, DOS=HIGH in pass 1; then PreConfig2: one block from the end of the kernel to the top
   of memory, which part of the BIOS data area may have joined; that is put back below. *)
PreConfig2(wanted, ebda) ==
  /\ phase = "config"
  /\ hma' = IF heapHma THEN [hma EXCEPT !.free = 2 + HmaText] ELSE HmaMoved(hma)
  /\ LET M == [mem EXCEPT !.base = First, !.umbState = IF wanted THEN 2 ELSE 0, !.top = @ + ebda,
                          !.mcb = mcb_init(@, First, Top + ebda - First - 1, LAST)]
     IN  IF ebda = 0 THEN mem' = M /\ UNCHANGED given
         ELSE mem' = KernelAllocPara(M, ebda, FALSE) /\ given' = {Region("mem", Given(M, FALSE), ebda)}
  /\ phase' = "devices"
  /\ UNCHANGED <<xms, heapHma, drivers, granted>>

(* Mutant: the header the first allocation makes is forgotten. *)
LoadSegFirst(M, mode) == Base(M, mode) + 1

(* DEVICE or DEVICEHIGH: the driver is read in behind the block in use, and what it keeps is
   allocated there; it may be the XMS driver, whose UMBs are taken at once. *)
LoadSeg(M, mode) == IF Base(M, mode) = Start(M, mode) THEN Base(M, mode) + 2 ELSE Base(M, mode) + 1

LoadDevice(n, mode, himem) ==
  /\ phase = "devices" /\ drivers < MaxDrivers
  /\ Room(mem, n, mode)
  /\ himem => ~xms.there
  /\ given' = given \cup {Region("mem", LoadSeg(mem, mode), n)}
  /\ LET M == KernelAllocPara(mem, n, mode)
         taken == (xms.there \/ himem) /\ M.umbState = 2 /\ xms.umbs # <<>>
     IN  /\ mem' = IF taken THEN umb_init(M, xms.umbs) ELSE M
         /\ granted' = IF taken THEN UNION {Paragraphs(u) : u \in Range(xms.umbs)} \cup
                                     (IF HeapAbove(umb_init(M, xms.umbs)) THEN Paragraphs(HeapUmb) ELSE {})
                       ELSE granted
         /\ xms' = [umbs |-> IF taken THEN <<>> ELSE xms.umbs, there |-> xms.there \/ himem]
  /\ drivers' = drivers + 1
  /\ UNCHANGED <<hma, heapHma, phase>>

(* A driver that fails, or keeps no memory, changes nothing here. *)
EndDevices ==
  /\ phase = "devices"
  /\ hma' = HmaMoved(hma)
  /\ phase' = "buffers"
  /\ UNCHANGED <<mem, xms, heapHma, drivers, given, granted>>

(* KernelAlloc: what may be high goes to the HMA while it has room, else to the UMBs. *)
InHma(mode) == mode /\ (hma.state = "done" \/ heapHma) /\ xms.there
HmaRoom(n)  == hma.free + n <= HmaTop

KernelAlloc(n, mode) ==
  \/ /\ InHma(mode) /\ HmaRoom(n)
     /\ hma' = [hma EXCEPT !.free = @ + n]
     /\ given' = given \cup {Region("hma", hma.free, n)}
     /\ UNCHANGED mem
  \/ /\ ~(InHma(mode) /\ HmaRoom(n)) /\ Room(mem, n, mode)
     /\ mem' = KernelAllocPara(mem, n, mode)
     /\ given' = given \cup {Region("mem", Given(mem, mode), n)}
     /\ UNCHANGED hma

(* PostConfig's tables, in their order; files beyond the first and stacks need not be there. *)
Tables   == <<"buffers", "files", "cds", "stacks", "dosobj", "done">>
After(t) == Tables[(CHOOSE i \in DOMAIN Tables : Tables[i] = t) + 1]

PostConfig ==
  /\ phase \in {"buffers", "files", "cds", "stacks", "dosobj"}
  /\ \/ \E n \in Sizes, mode \in BOOLEAN : KernelAlloc(n, mode)
     \/ phase \in {"files", "stacks"} /\ UNCHANGED <<mem, hma, given>>
  /\ phase' = After(phase)
  /\ UNCHANGED <<xms, heapHma, drivers, granted>>

(* configDone: the low chain is ended before the UMBs, which programs link when they want. *)
configDone ==
  /\ phase = "done"
  /\ mem' = IF mem.umbState = 1 THEN [mem EXCEPT !.mcb[mem.base].type = LAST] ELSE mem
  /\ phase' = "running"
  /\ UNCHANGED <<xms, hma, heapHma, drivers, given, granted>>

Running == phase = "running" /\ UNCHANGED vars

Next ==
  \/ \E wanted \in BOOLEAN, ebda \in {0, 2} : PreConfig2(wanted, ebda)
  \/ \E n \in Sizes, mode, himem \in BOOLEAN : LoadDevice(n, mode, himem)
  \/ EndDevices \/ PostConfig \/ configDone \/ Running

Spec == Init /\ [][Next]_vars

-----------------------------------------------------------------------------
(* Properties *)

(* The headers met from s on. *)
Blocks(m, s) ==
  LET from[t \in Seg] == IF m[t].type # NORMAL \/ t + m[t].size + 1 \notin Seg THEN {t}
                         ELSE {t} \cup from[t + m[t].size + 1]
  IN  from[s]

Ends(m, s, last) ==
  \A b \in Blocks(m, s) : /\ m[b].type \in {NORMAL, LAST}
                          /\ m[b].type = LAST => b + m[b].size = last

UpperEnd == CHOOSE s \in granted : \A t \in granted : t <= s

(* The chain is whole from the first header to the last paragraph of memory, and, once the
   start-up is over, from the root of upper memory to the end of the last UMB. *)
ChainWhole ==
  phase # "config" =>
    IF mem.umbState # 1 THEN Ends(mem.mcb, First, mem.top - 1)
    ELSE IF phase = "running" THEN Ends(mem.mcb, First, mem.top - 2) /\ Ends(mem.mcb, Root(mem), UpperEnd)
    ELSE Ends(mem.mcb, First, UpperEnd)

(* No block offers memory that is neither below the top nor granted by the XMS driver, and no
   link hides memory that was granted: a link spans the hole between two UMBs and no more. *)
HolesLinked ==
  mem.umbState = 1 =>
    \A b \in Blocks(mem.mcb, Root(mem)) :
      LET h == mem.mcb[b]
      IN  IF h.psp = System /\ b # mem.umbStart
          THEN b \in granted \cup {Root(mem)} /\ (b + 1 .. b + h.size) \cap granted = {}
          ELSE b .. b + h.size \subseteq granted

(* The system's block is exactly the row of its sub-blocks, and what was given away is exactly
   those: a driver lies where its memory is allocated, and nothing is given twice. *)
GivenOnce ==
  LET Row(start, base) == {[seg |-> b + 1, size |-> mem.mcb[b].size] : b \in
                            {s \in start + 1 .. base - 1 : \E g \in given : g.where = "mem" /\ g.seg = s + 1}}
      Whole(start, base) ==
        base # start => /\ start + mem.mcb[start].size + 1 = base
                        /\ UNION {g.seg - 1 .. g.seg + g.size - 1 : g \in Row(start, base)} = start + 1 .. base - 1
  IN  /\ phase # "config" => Whole(First, mem.base)
      /\ mem.umbState = 1 => Whole(mem.umbStart, mem.umbBase)
      /\ \A g, h \in given : g.where = h.where /\ g # h => g.seg + g.size <= h.seg \/ h.seg + h.size <= g.seg
      /\ \A g \in given : IF g.where = "mem" THEN mem.mcb[g.seg - 1].size = g.size
                          ELSE g.seg >= 2 + HmaText /\ g.seg + g.size <= hma.free /\ hma.free <= HmaTop
=============================================================================
