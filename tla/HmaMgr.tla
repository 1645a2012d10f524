------------------------------- MODULE HmaMgr -------------------------------
(***************************************************************************)
(* The high memory area and its control blocks (HMCBs): kernel/hmamgr.c,   *)
(* the calls INT 2Fh/4A01h to 4A04h of inthndlr.c, and the end of a        *)
(* process.                                                                *)
(*                                                                         *)
(* The area is a row of paragraphs of 16 bytes, in segment FFFFh.  Both    *)
(* calls round sizes to paragraphs, so offsets and sizes are counted in    *)
(* them.  A header says where the next one is; a paragraph that is not in  *)
(* the chain may hold the remains of a header, signature and all.          *)
(***************************************************************************)
EXTENDS Integers, Sequences, SequencesExt

CONSTANTS
    HmaTop,         \* one past the last paragraph (4096)
    HmaFree,        \* bound: where the kernel's own part may end at start-up
    HmaSizes,       \* the sizes programs ask for
    Psp,            \* processes
    Shell           \* the first process, which never ends

ASSUME HmaAssumption ==
    /\ HmaTop \in Nat /\ HmaTop > 4
    /\ HmaFree \subseteq 3 .. HmaTop - 1
    /\ HmaSizes \subseteq Nat
    /\ Shell \in Psp /\ "free" \notin Psp /\ "msdos" \notin Psp

VARIABLES
    hmcb,           \* the header each paragraph holds, or holds the remains of
    HMAclaimed,     \* has the area been got from the XMS driver?
    running,        \* the running processes, each the parent of the next
    kept            \* the processes that stayed resident

hmaVars == <<hmcb, HMAclaimed, running, kept>>

HmaPara   == 0 .. HmaTop - 1
FIRST_MCB == 1
FREE      == "free"       \* owner 0
MSDOS     == "msdos"      \* owner 0xffff
FAKE      == 65535        \* the size of a header that was joined to another
NoHmcb    == [owner |-> FREE, size |-> 0, next |-> -1]     \* no signature

cu_psp == Last(running)

HmcbValid(h, p) == h[p] # NoHmcb
HmcbFree(h, p)  == h[p].owner = FREE
HmcbLast(h, p)  == h[p].next = 0

(* The headers from p on.                                                  *)
Chain(h, p) ==
    LET c[x \in HmaPara] == IF HmcbValid(h, x) /\ ~HmcbLast(h, x) THEN {x} \cup c[h[x].next] ELSE {x}
    IN  c[p]

LastHmcb(h) == CHOOSE p \in Chain(h, FIRST_MCB) : HmcbLast(h, p)

(* A loop along the chain, which has no more headers than paragraphs.      *)
Repeat(Op(_), x) ==
    LET done[i \in 0 .. HmaTop] == IF i = 0 THEN x ELSE Op(done[i - 1]) IN done[HmaTop]

(* Mutant: the header that grew keeps its own link.                        *)
joinNextUnlinked(h, p) ==
    LET q == h[p].next
    IN  IF HmcbLast(h, p) \/ ~HmcbFree(h, q) \/ ~HmcbValid(h, q) THEN h
        ELSE [h EXCEPT ![p].size = @ + h[q].size + 1, ![q].size = FAKE]

(* The next block, if it is unused, becomes part of p.  Its header keeps   *)
(* the signature; the size marks it as fake.                               *)
joinNext(h, p) ==
    LET q == h[p].next
    IN  IF HmcbLast(h, p) \/ ~HmcbFree(h, q) \/ ~HmcbValid(h, q) THEN h
        ELSE [h EXCEPT ![p] = [owner |-> FREE, size |-> h[p].size + h[q].size + 1, next |-> h[q].next],
                       ![q] = [owner |-> FREE, size |-> FAKE, next |-> h[q].next]]

(* joinMCBs: all the unused blocks that follow p.                          *)
joinHmcbs(h, p) == Repeat(LAMBDA g : joinNext(g, p), h)

(***************************************************************************)
(* Allocating and freeing.                                                 *)
(***************************************************************************)
(* The block found is cut when it is larger than asked for: the new block  *)
(* is its start, or its end when topdown is set.                           *)
Cut(h, p, size, topdown, owner) ==
    LET q    == IF topdown THEN p + h[p].size - size ELSE p + size + 1
        rest == h[p].size - size - 1
        at(o1, s1, o2, s2) == [h EXCEPT ![p] = [owner |-> o1, size |-> s1, next |-> q],
                                        ![q] = [owner |-> o2, size |-> s2, next |-> h[p].next]]
    IN  IF size = h[p].size THEN [h EXCEPT ![p].owner = owner]
        ELSE IF topdown THEN at(FREE, rest, owner, size) ELSE at(owner, size, FREE, rest)

(* A block of the search: an unused one is joined, and cut if it is large  *)
(* enough.  at is 0 when the search is over.                               *)
Search(s, size, topdown, owner) ==
    LET g == IF HmcbFree(s.hmcb, s.at) THEN joinHmcbs(s.hmcb, s.at) ELSE s.hmcb
    IN  IF s.at = 0 \/ ~HmcbValid(s.hmcb, s.at) THEN s
        ELSE IF HmcbFree(g, s.at) /\ g[s.at].size >= size
             THEN [hmcb |-> Cut(g, s.at, size, topdown, owner), at |-> 0]
             ELSE [hmcb |-> g, at |-> g[s.at].next]

(* DosHMAAlloc: the first block that is large enough, the unused ones up   *)
(* to it joined.                                                           *)
DosHMAAlloc(h, size, topdown, owner) ==
    Repeat(LAMBDA s : Search(s, size, topdown, owner), [hmcb |-> h, at |-> FIRST_MCB]).hmcb

(* DosHMAFree of the block at off: the header is the paragraph before it.  *)
DosHMAFree(h, off) ==
    LET p == off - 1
    IN  IF ~HmcbValid(h, p) \/ HmcbFree(h, p) THEN h
        ELSE joinHmcbs([h EXCEPT ![p].owner = FREE], p)

(* Mutant: the end of a process frees the blocks of every process.         *)
FreeOwnedOfAll(s, ps) ==
    LET g == IF s.hmcb[s.at].owner \in Psp THEN DosHMAFree(s.hmcb, s.at + 1) ELSE s.hmcb
    IN  IF s.at = 0 \/ ~HmcbValid(s.hmcb, s.at) THEN s ELSE [hmcb |-> g, at |-> g[s.at].next]

(* A block of the end of a process, which passes the offset of the header, *)
(* mcb2off(p), where DosHMAFree takes that of the block behind it.         *)
FreeOwned(s, ps) ==
    LET g == IF s.hmcb[s.at].owner = ps THEN DosHMAFree(s.hmcb, s.at) ELSE s.hmcb
    IN  IF s.at = 0 \/ ~HmcbValid(s.hmcb, s.at) THEN s ELSE [hmcb |-> g, at |-> g[s.at].next]

FreeProcessHMA(h, ps) ==
    Repeat(LAMBDA s : FreeOwned(s, ps), [hmcb |-> h, at |-> FIRST_MCB]).hmcb

(* HMAInitFirstMcb(off): what lies below off is a block of the kernel.     *)
HMAInitFirstMcb(off) ==
    [p \in HmaPara |->
        CASE p = off -> [owner |-> FREE, size |-> HmaTop - off - 1, next |-> 0]
          [] p = FIRST_MCB /\ off > 2 -> [owner |-> MSDOS, size |-> off - 2, next |-> off]
          [] OTHER -> NoHmcb]

(***************************************************************************)
(* The calls of programs.                                                  *)
(***************************************************************************)
Claimed == IF HMAclaimed THEN hmcb ELSE HMAInitFirstMcb(FIRST_MCB)

(* INT 2Fh/4A02h: no more than the last block has, in use or not.          *)
AllocHmaSpace(size) ==
    LET avail == hmcb[LastHmcb(hmcb)].size
        asked == IF size > avail THEN avail ELSE size
    IN  /\ HMAclaimed
        /\ hmcb' = DosHMAAlloc(hmcb, asked, FALSE, cu_psp)
        /\ UNCHANGED <<HMAclaimed, running, kept>>

(* INT 2Fh/4A03h with DL = 0 or 1, which claims the area if it must.       *)
AllocHma(size, topdown) ==
    /\ hmcb' = DosHMAAlloc(Claimed, size, topdown, cu_psp)
    /\ HMAclaimed' = TRUE
    /\ UNCHANGED <<running, kept>>

(* INT 2Fh/4A03h with DL = 2, of any block but the kernel's: a block that  *)
(* was freed before, too.                                                  *)
FreeHma(p) ==
    /\ HmcbValid(Claimed, p) /\ Claimed[p].owner # MSDOS
    /\ hmcb' = DosHMAFree(Claimed, p + 1)
    /\ HMAclaimed' = TRUE
    /\ UNCHANGED <<running, kept>>

(* INT 2Fh/4A04h: the start of the chain.                                  *)
HmaChainStart ==
    /\ hmcb' = Claimed
    /\ HMAclaimed' = TRUE
    /\ UNCHANGED <<running, kept>>

StartProcess(ps) ==
    /\ ps \notin kept /\ \A i \in DOMAIN running : running[i] # ps
    /\ running' = Append(running, ps)
    /\ UNCHANGED <<hmcb, HMAclaimed, kept>>

(* return_user; a process that stays resident keeps its blocks.            *)
EndProcess(tsr) ==
    /\ Len(running) > 1
    /\ hmcb' = IF HMAclaimed /\ ~tsr THEN FreeProcessHMA(hmcb, cu_psp) ELSE hmcb
    /\ kept' = IF tsr THEN kept \cup {cu_psp} ELSE kept
    /\ running' = Front(running)
    /\ UNCHANGED HMAclaimed

(* The area is not claimed yet, or the kernel is in it (DOS=HIGH).         *)
HmaInit ==
    /\ \/ HMAclaimed = FALSE /\ hmcb = [p \in HmaPara |-> NoHmcb]
       \/ HMAclaimed = TRUE /\ \E off \in HmaFree : hmcb = HMAInitFirstMcb(off)
    /\ running = <<Shell>>
    /\ kept = {}

HmaNext ==
    \/ \E n \in HmaSizes : AllocHmaSpace(n)
    \/ \E n \in HmaSizes, topdown \in BOOLEAN : AllocHma(n, topdown)
    \/ \E p \in HmaPara : FreeHma(p)
    \/ HmaChainStart
    \/ \E ps \in Psp : StartProcess(ps)
    \/ \E tsr \in BOOLEAN : EndProcess(tsr)

HmaSpec == HmaInit /\ [][HmaNext]_hmaVars

(***************************************************************************)
(* Properties                                                              *)
(***************************************************************************)
HmaBlocks == Chain(hmcb, FIRST_MCB)

(* The chain covers the area: each header is followed by its block and the *)
(* next header, the last block ends where the area ends, whatever was cut  *)
(* from either end, freed in any order and joined.                         *)
HmaChainWhole ==
    HMAclaimed => \A p \in HmaBlocks :
        /\ HmcbValid(hmcb, p)
        /\ p + hmcb[p].size + 1 = (IF HmcbLast(hmcb, p) THEN HmaTop ELSE hmcb[p].next)

(* A block in use that holds anything keeps its owner and its extent until *)
(* it is freed, and no end of a process frees one of another.  (An empty   *)
(* block can be: its header is where FreeProcessHMA looks for the one of   *)
(* the block behind it.)                                                   *)
HmaBlocksKept ==
    [][\A p \in HmaBlocks : ~HmcbFree(hmcb, p) /\ hmcb[p].size > 0 =>
          \/ hmcb'[p] = [hmcb[p] EXCEPT !.next = hmcb'[p].next]
          \/ HmcbFree(hmcb', p) /\ (running' = running \/ hmcb[p].owner = cu_psp)]_hmaVars

=============================================================================
