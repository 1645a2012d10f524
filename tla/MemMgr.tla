------------------------------- MODULE MemMgr -------------------------------
(***************************************************************************)
(* The memory control blocks (MCBs) of kernel/memmgr.c and the calls that  *)
(* allocate, free and resize blocks: INT 21h/48h, 49h, 4Ah, 58h, DosExec,  *)
(* Keep Program and the end of a process (inthndlr.c, task.c).             *)
(*                                                                         *)
(* Memory is a row of paragraphs.  An MCB is a header in the paragraph     *)
(* before its block; nothing but the walk from first_mcb tells a header    *)
(* from the remains of one.  Conventional memory ends at uppermem_root, an *)
(* MCB of the system that spans the gap below the upper memory (UMB); the  *)
(* UMB chain is reached through it, when it is linked in.                  *)
(***************************************************************************)
EXTENDS Integers, Sequences, FiniteSets, TLC

CONSTANTS
    First,          \* first_mcb: the MCB of the first process
    RootSize,       \* the size of its block
    UpperRoot,      \* uppermem_root
    UmbSeg,         \* the MCB of the upper memory
    Top,            \* one past the last paragraph of the upper memory
    Mixes,          \* the programs: [sizes, strategies, depth]: the sizes they ask for, the
                    \* strategies they set, and a bound: the deepest nesting of processes
    EnvSize,        \* size of an environment
    ExecSizes,      \* the sizes a program needs to be loaded
    KeepMin,        \* least size Keep Program leaves a process (6)
    StaleEnv        \* what the uninitialised env of the loaders may hold

ASSUME LayoutAssumption ==
    /\ First \in Nat \ {0} /\ RootSize \in Nat \ {0}
    /\ UpperRoot \in Nat /\ UmbSeg \in Nat /\ Top \in Nat /\ Top <= 65536
    /\ First + RootSize + 1 < UpperRoot /\ UpperRoot < UmbSeg /\ UmbSeg < Top - 1
    /\ ExecSizes \subseteq Nat \ {0} /\ EnvSize \in Nat \ {0}
    /\ KeepMin \in Nat 
    /\ StaleEnv \subseteq 0 .. Top - 1
    /\ \A m \in Mixes : /\ m.sizes \subseteq Nat /\ m.depth \in Nat \ {0}
                        /\ m.strategies \subseteq [fit: {"first", "best", "last"}, uo: BOOLEAN, u: BOOLEAN]
                        /\ \A s \in m.strategies : ~(s.uo /\ s.u)

VARIABLES
    mix,            \* the programs
    mcb,            \* the header each paragraph holds, or holds the remains of
    uppermem_link,  \* is the UMB chain linked in?
    strategy,       \* mem_access_mode: the fit (0x3f), 0x40 and 0x80 of it
    stack,          \* the running processes, each the parent of the next
    resident        \* the processes that stayed resident

memVars == <<mix, mcb, uppermem_link, strategy, stack, resident>>

Para     == First .. Top - 1
FREE_PSP == 0
SYSTEM   == -8          \* m_psp = 8: the system
FAKE     == 65535       \* m_size of an MCB that was joined to another
NoMcb    == [type |-> "none", psp |-> FREE_PSP, size |-> 0]   \* never a header
NONE     == -1

Fits       == {"first", "best", "last"}
Strategies == [fit: Fits, uo: BOOLEAN, u: BOOLEAN]
LARGEST    == [fit |-> "largest", uo |-> FALSE, u |-> FALSE]

cu_psp == stack[Len(stack)]

(***************************************************************************)
(* The chain.                                                              *)
(***************************************************************************)
mcbFree(m, p)     == m[p].psp = FREE_PSP
mcbFreeable(m, p) == m[p].type \in {"normal", "last"}
mcbValid(m, p)    == p \in Para /\ m[p].size # FAKE /\ mcbFreeable(m, p)
nxtMCB(m, p)      == p + m[p].size + 1

(* The MCBs the walk from p visits, up to a last or an invalid one.        *)
Walk(m, p) ==
    LET w[x \in Int] == IF mcbValid(m, x) /\ m[x].type = "normal"
                        THEN {x} \cup w[nxtMCB(m, x)] ELSE {x}
    IN  w[p]

Lowest(S)  == CHOOSE x \in S : \A y \in S : x <= y
Highest(S) == CHOOSE x \in S : \A y \in S : x >= y

(* The unused MCBs that joinMCBs(p) joins to p.                            *)
Joined(m, p) ==
    LET W == Walk(m, p) \ {p}
    IN  {q \in W : \A x \in W : x <= q => mcbValid(m, x) /\ mcbFree(m, x)}

(* A table of headers with its entries worked out, not one at each use.    *)
Computed(m) == CHOOSE f \in {m} : f = m

(* joinMCBs of every MCB in P, none of them joined to another.             *)
joinMCBs(m, P) ==
    LET last(p)  == Highest(Joined(m, p) \cup {p})
        grown(p) == [m[p] EXCEPT !.type = m[last(p)].type, !.size = nxtMCB(m, last(p)) - p - 1]
        fakes    == UNION {Joined(m, p) : p \in P}
    IN  Computed([q \in Para |-> CASE q \in P     -> grown(q)
                                    [] q \in fakes -> [m[q] EXCEPT !.size = FAKE]
                                    [] OTHER       -> m[q]])

(* The unused MCBs a search from p comes to, those it joins left out.      *)
FreeHeads(m, p) ==
    LET F == {q \in Walk(m, p) : mcbFree(m, q)}
    IN  {q \in F : mcbValid(m, q) => \A x \in F : nxtMCB(m, x) # q}

(***************************************************************************)
(* DosMemAlloc, DosMemLargest, DosMemFree, DosMemChange.                   *)
(***************************************************************************)
(* Where the search starts: in upper memory when it is linked and asked    *)
(* for.  mode LARGEST goes by the strategy, and only for the size 0xffff.  *)
SearchStart(size, mode, link, strat) ==
    LET tmp == IF mode = LARGEST THEN strat ELSE mode
    IN  IF link /\ (mode # LARGEST \/ size = FAKE) /\ (tmp.uo \/ tmp.u) THEN UpperRoot ELSE First

(* The switch on the mode: 0xc0 and its like are none of its cases.        *)
Fit(mode) == IF mode.uo /\ mode.u THEN "other" ELSE mode.fit

(* The choice among the unused blocks a search comes to, m before and j    *)
(* after joining them.  A first fit ends the search at once.               *)
Choose(m, j, Heads, size, mode) ==
    LET Enough  == {p \in Heads : j[p].size >= size}
        Largest == {p \in Heads : \A q \in Heads : j[q].size <= j[p].size}
        Least   == {p \in Enough : \A q \in Enough : j[p].size <= j[q].size}
        fit     == CASE Fit(mode) = "first"   -> Lowest(Enough)
                     [] Fit(mode) = "best"    -> Lowest(Least)
                     [] Fit(mode) = "largest" -> Lowest(Largest)
                     [] OTHER                 -> Highest(Enough)
        found   == IF Enough = {} THEN NONE ELSE fit
    IN  IF Enough # {} /\ Fit(mode) = "first"
        THEN [mcb |-> joinMCBs(m, {p \in Heads : p <= found}), found |-> found, max |-> 0]
        ELSE [mcb   |-> j,
              found |-> IF Enough # {} /\ j[found].size = 0 THEN NONE ELSE found,
              max   |-> IF Heads = {} THEN 0 ELSE j[Lowest(Largest)].size]

(* One search: the MCBs with the unused ones it passed joined, the MCB it  *)
(* found (NONE if none) and the size of the largest unused block it saw.   *)
Search(m, size, mode, link, strat) ==
    LET Heads == FreeHeads(m, SearchStart(size, mode, link, strat))
    IN  Choose(m, joinMCBs(m, Heads), Heads, size, mode)

(* Mutant: the rest of the block has no room left for its own header.      *)
SplitAtSize(m, p, size, mode, owner) ==
    LET rest == m[p].size - size
        type(x) == IF x = p THEN "normal" ELSE m[p].type
    IN  IF mode = LARGEST \/ size = m[p].size
        THEN [mcb |-> [m EXCEPT ![p].psp = owner], seg |-> p]
        ELSE [mcb |-> [m EXCEPT ![p] = [type |-> "normal", psp |-> owner, size |-> size],
                                ![p + size + 1] = [type |-> m[p].type, psp |-> FREE_PSP, size |-> rest]],
              seg |-> p]

(* Cutting the block found: the last fit takes its end, the others its     *)
(* start.  The result is the MCBs and the one of the allocated block.      *)
Split(m, p, size, mode, owner) ==
    LET rest == m[p].size - size - 1
        q    == IF Fit(mode) = "last" THEN p + rest + 1 ELSE p
        r    == IF Fit(mode) = "last" THEN p ELSE p + size + 1
        type(x) == IF x = p THEN "normal" ELSE m[p].type
    IN  IF mode = LARGEST \/ size = m[p].size
        THEN [mcb |-> [m EXCEPT ![p].psp = owner], seg |-> p]
        ELSE [mcb |-> [m EXCEPT ![q] = [type |-> type(q), psp |-> owner, size |-> size],
                                ![r] = [type |-> type(r), psp |-> FREE_PSP, size |-> rest]],
              seg |-> q]

(* seg = NONE: DE_NOMEM, with the largest block of the last search in max. *)
Taken(c) == [mcb |-> c.mcb, seg |-> c.seg, max |-> c.mcb[c.seg].size]
TakeFound(s, size, mode, owner) ==
    IF s.found = NONE THEN [mcb |-> s.mcb, seg |-> NONE, max |-> s.max]
    ELSE Taken(Split(s.mcb, s.found, size, mode, owner))

(* What upper memory does not have is searched for in all of it.           *)
Retry(one, size, mode, link, strat, owner) ==
    LET low == [mode EXCEPT !.u = FALSE]
    IN  IF one.found = NONE /\ mode # LARGEST /\ mode.u /\ link
        THEN TakeFound(Search(one.mcb, size, low, link, strat), size, low, owner)
        ELSE TakeFound(one, size, mode, owner)

DosMemAlloc(m, size, mode, link, strat, owner) ==
    Retry(Search(m, size, mode, link, strat), size, mode, link, strat, owner)

(* Mutant: only where the strategy looks first.                            *)
DosMemLargestHigh(m, link, strat) ==
    LET high == Search(m, FAKE, LARGEST, link, strat)
    IN  [mcb |-> high.mcb, max |-> high.max]

Larger(high, low) == [mcb |-> low.mcb, max |-> IF low.max > high.max THEN low.max ELSE high.max]
LargestAfter(high, link, strat) ==
    IF strat.u THEN Larger(high, Search(high.mcb, FAKE, LARGEST, link, [strat EXCEPT !.u = FALSE]))
    ELSE Larger(high, high)

DosMemLargest(m, link, strat) == LargestAfter(Search(m, FAKE, LARGEST, link, strat), link, strat)

(* DosMemFree(para): nothing for para = 0 and where no MCB is or was.      *)
DosMemFree(m, p) ==
    IF p \in Para /\ mcbFreeable(m, p) THEN [m EXCEPT ![p].psp = FREE_PSP] ELSE m

(* DosMemChange: growing joins what is unused behind the block, also when  *)
(* that is too little; a change makes the current process the owner.       *)
DosMemChange(m, p, size, owner) ==
    LET g == IF size > m[p].size THEN joinMCBs(m, {p}) ELSE m
        q == p + size + 1
        s == [g EXCEPT ![p] = [type |-> "normal", psp |-> owner, size |-> size],
                       ![q] = [type |-> g[p].type, psp |-> FREE_PSP, size |-> g[p].size - size - 1]]
    IN  IF ~mcbValid(m, p) THEN m
        ELSE IF size > g[p].size THEN g
        ELSE IF size = g[p].size THEN [g EXCEPT ![p].psp = owner]
        ELSE joinMCBs(s, {q})

(***************************************************************************)
(* DosUmbLink and FreeProcessMem.                                          *)
(***************************************************************************)
(* Linking turns the last MCB of conventional memory into a normal one;    *)
(* unlinking makes the MCB before uppermem_root the last one again.        *)
DosUmbLink(m, link, n) ==
    LET W    == Walk(m, First)
        last == Highest(W)
        prev == Highest({x \in W : x < UpperRoot})
    IN  IF link = n THEN [mcb |-> m, link |-> link]
        ELSE IF ~n
        THEN [mcb |-> IF UpperRoot \in W THEN [m EXCEPT ![prev].type = "last"] ELSE m, link |-> n]
        ELSE IF UpperRoot \in W THEN [mcb |-> m, link |-> link]
        ELSE [mcb |-> [m EXCEPT ![last].type = "normal"], link |-> n]

(* The blocks of ps that the walk comes to made free.                      *)
Released(m, ps) ==
    LET owned == {p \in Walk(m, First) : m[p].psp = ps}
    IN  Computed([p \in Para |-> IF p \in owned THEN [m[p] EXCEPT !.psp = FREE_PSP] ELSE m[p]])

(* Mutant: upper memory is not linked in for it.                           *)
FreeProcessMemLow(m, link, ps) == [mcb |-> Released(m, ps), link |-> link]

FreeProcessMem(m, link, ps) ==
    LET l == DosUmbLink(m, link, TRUE)
    IN  DosUmbLink(Released(l.mcb, ps), l.link, link)

(***************************************************************************)
(* The calls.  A program frees and resizes its own blocks, those of        *)
(* resident programs (to unload them), and what it has freed before.       *)
(***************************************************************************)
Mine(p)  == mcb[p].psp \in {cu_psp, FREE_PSP} \cup resident
PspMcb(p) == \E i \in 1 .. Len(stack) : p = stack[i] - 1

AllocOrLargest(a) ==
    IF a.seg # NONE THEN a.mcb ELSE DosMemLargest(a.mcb, uppermem_link, strategy).mcb

(* INT 21h/48h: a failed call reports the largest block of all.            *)
Allocate(size) ==
    /\ mcb' = AllocOrLargest(DosMemAlloc(mcb, size, strategy, uppermem_link, strategy, cu_psp))
    /\ UNCHANGED <<mix, uppermem_link, strategy, stack, resident>>

(* INT 21h/49h of any MCB there is or was, so also a second time.          *)
Free(p) ==
    /\ mcbFreeable(mcb, p) /\ Mine(p) /\ ~PspMcb(p)
    /\ mcb' = DosMemFree(mcb, p)
    /\ UNCHANGED <<mix, uppermem_link, strategy, stack, resident>>

(* INT 21h/4Ah of any MCB there is or was; a program keeps its PSP.         *)
Change(p, size) ==
    /\ mcbFreeable(mcb, p) /\ Mine(p) /\ (PspMcb(p) => size > 0)
    /\ mcb' = DosMemChange(mcb, p, size, cu_psp)
    /\ UNCHANGED <<mix, uppermem_link, strategy, stack, resident>>

(* INT 21h/5801h and 5803h.                                                *)
SetStrategy(s) ==
    /\ strategy' = s
    /\ UNCHANGED <<mix, mcb, uppermem_link, stack, resident>>

SetUmbLink(n) ==
    LET l == DosUmbLink(mcb, uppermem_link, n)
    IN  /\ mcb' = l.mcb /\ uppermem_link' = l.link
        /\ UNCHANGED <<mix, strategy, stack, resident>>

(***************************************************************************)
(* DosExec: DosExeLoader and DosComLoader.                                 *)
(***************************************************************************)
(* ExecMemLargest tries upper memory alone, then all of it.                *)
MostOf(l, strat) == [mcb |-> l.mcb, max |-> l.max, strat |-> strat]
MostOrAll(high, link, only, threshold) ==
    IF high.max > 0 /\ high.max >= threshold THEN MostOf(high, only)
    ELSE MostOf(DosMemLargest(high.mcb, link, [only EXCEPT !.uo = FALSE]),
                [only EXCEPT !.u = TRUE, !.uo = FALSE])

ExecMemLargest(m, link, strat, threshold) ==
    LET only == [strat EXCEPT !.u = FALSE, !.uo = TRUE]
    IN  IF ~strat.u THEN MostOf(DosMemLargest(m, link, strat), strat)
        ELSE MostOrAll(DosMemLargest(m, link, only), link, only, threshold)

(* ExecMemAlloc: as asked, else the largest block, which must do (asked    *)
(* again without 0x80 when there is none: the search is the same one).     *)
LargestMustDo(b, size) ==
    IF b.seg # NONE /\ b.max < size THEN [mcb |-> DosMemFree(b.mcb, b.seg), seg |-> NONE, max |-> b.max]
    ELSE b
AsAskedOrLargest(a, size, link, strat, owner) ==
    IF a.seg # NONE THEN a
    ELSE LargestMustDo(DosMemAlloc(a.mcb, 0, LARGEST, link, strat, owner), size)

ExecMemAlloc(m, size, link, strat, owner) ==
    AsAskedOrLargest(DosMemAlloc(m, size, strat, link, strat, owner), size, link, strat, owner)

(* The loaders up to the new process: an environment, then a block of      *)
(* size paragraphs, or of all there are (want = FAKE).  A load is a record *)
(* of the MCBs, the strategy and the block of the new process, or NONE.    *)
(* garbage is what env holds when ChildEnv fails before it sets it; broken, *)
(* that the file ends before its relocations do.                           *)
LoadFailed(m, strat) == [mcb |-> m, strat |-> strat, seg |-> NONE]

LoadInBlock(env, blk, strat, broken) ==
    IF blk.seg = NONE THEN LoadFailed(DosMemFree(blk.mcb, env), strat)
    ELSE IF broken THEN LoadFailed(DosMemFree(DosMemFree(blk.mcb, blk.seg), env), strat)
    ELSE [mcb |-> [blk.mcb EXCEPT ![env].psp = blk.seg + 1, ![blk.seg].psp = blk.seg + 1],
          strat |-> strat, seg |-> blk.seg]

LoadInLargest(env, most, need, want, link, broken) ==
    LET size == IF want > most.max THEN most.max ELSE want
    IN  IF most.max < need THEN LoadFailed(DosMemFree(most.mcb, env), most.strat)
        ELSE LoadInBlock(env, ExecMemAlloc(most.mcb, size, link, most.strat, cu_psp), most.strat, broken)

LoadWithEnv(env, need, want, link, strat, garbage, broken) ==
    IF env.seg = NONE THEN LoadFailed(DosMemFree(env.mcb, garbage), strat)
    ELSE LoadInLargest(env.seg, ExecMemLargest(env.mcb, link, strat, need), need, want, link, broken)

(* Back from the load: loading high ends with the UMB chain not linked in. *)
Loaded(load, link, high) ==
    LET reset == IF high THEN DosUmbLink(load.mcb, link, FALSE) ELSE [mcb |-> load.mcb, link |-> link]
    IN  /\ mcb' = reset.mcb /\ uppermem_link' = reset.link
        /\ strategy' = IF high THEN [strategy EXCEPT !.u = FALSE] ELSE load.strat
        /\ stack' = IF load.seg # NONE THEN Append(stack, load.seg + 1) ELSE stack
        /\ resident' = IF load.seg # NONE THEN resident \ {load.seg + 1} ELSE resident
        /\ UNCHANGED mix

(* high is mode 0x80, LoadHigh.                                            *)
Exec(need, want, high, garbage, broken) ==
    LET linked == IF high THEN DosUmbLink(mcb, uppermem_link, TRUE)
                          ELSE [mcb |-> mcb, link |-> uppermem_link]
        strat1 == [strategy EXCEPT !.u = @ \/ high]
        env    == DosMemAlloc(linked.mcb, EnvSize, strat1, linked.link, strat1, cu_psp)
    IN  /\ Len(stack) < mix.depth
        /\ Loaded(LoadWithEnv(env, need, want, linked.link, strat1, garbage, broken),
                  linked.link, high \/ strategy.u)

(***************************************************************************)
(* The end of a process: return_user, and Keep Program before it.          *)
(***************************************************************************)
(* Mutant: cu_psp is the parent's already when the memory is freed.        *)
TerminateLate ==
    LET f == FreeProcessMem(mcb, uppermem_link, stack[Len(stack) - 1])
    IN  /\ Len(stack) > 1
        /\ mcb' = f.mcb /\ uppermem_link' = f.link
        /\ stack' = SubSeq(stack, 1, Len(stack) - 1)
        /\ UNCHANGED <<mix, strategy, resident>>

Terminate ==
    LET f == FreeProcessMem(mcb, uppermem_link, cu_psp)
    IN  /\ Len(stack) > 1
        /\ mcb' = f.mcb /\ uppermem_link' = f.link
        /\ stack' = SubSeq(stack, 1, Len(stack) - 1)
        /\ UNCHANGED <<mix, strategy, resident>>

KeepProgram(size) ==
    /\ Len(stack) > 1 /\ size >= KeepMin
    /\ mcb' = DosMemChange(mcb, cu_psp - 1, size, cu_psp)
    /\ stack' = SubSeq(stack, 1, Len(stack) - 1)
    /\ resident' = resident \cup {cu_psp}
    /\ UNCHANGED <<mix, uppermem_link, strategy>>

(* configDone: the last MCB of conventional memory is the one below        *)
(* uppermem_root, and the UMB chain is not linked in.                      *)
MemInit ==
    /\ mcb = [p \in Para |->
          CASE p = First  -> [type |-> "normal", psp |-> First + 1, size |-> RootSize]
            [] p = First + RootSize + 1 ->
                 [type |-> "last", psp |-> FREE_PSP, size |-> UpperRoot - First - RootSize - 2]
            [] p = UpperRoot -> [type |-> "normal", psp |-> SYSTEM, size |-> UmbSeg - UpperRoot - 1]
            [] p = UmbSeg    -> [type |-> "last", psp |-> FREE_PSP, size |-> Top - UmbSeg - 1]
            [] OTHER -> NoMcb]
    /\ mix \in Mixes
    /\ uppermem_link = FALSE
    /\ strategy = [fit |-> "first", uo |-> FALSE, u |-> FALSE]
    /\ stack = <<First + 1>>
    /\ resident = {}

MemNext ==
    \/ \E n \in mix.sizes : Allocate(n) \/ KeepProgram(n)
    \/ \E p \in Para : Free(p)
    \/ \E p \in Para, n \in mix.sizes : Change(p, n)
    \/ \E s \in mix.strategies : SetStrategy(s)
    \/ \E n \in BOOLEAN : SetUmbLink(n)
    \/ \E need \in ExecSizes, want \in ExecSizes \cup {FAKE}, high, broken \in BOOLEAN, g \in StaleEnv :
            need <= want /\ Exec(need, want, high, g, broken)
    \/ Terminate

MemSpec == MemInit /\ [][MemNext]_memVars

(***************************************************************************)
(* Properties                                                              *)
(***************************************************************************)
Conventional == Walk(mcb, First)
Upper        == Walk(mcb, UpperRoot)
Blocks       == Conventional \cup Upper

(* The chain is whole (what DosMemCheck panics about): each MCB it comes to *)
(* is one, it covers all of memory up to its end, the UMB chain as well,    *)
(* and it passes into upper memory exactly when uppermem_link says so.     *)
ChainWhole ==
    /\ \A p \in Blocks : mcbValid(mcb, p)
    /\ nxtMCB(mcb, Highest(Conventional)) = (IF uppermem_link THEN Top ELSE UpperRoot)
    /\ nxtMCB(mcb, Highest(Upper)) = Top
    /\ \A p \in Blocks : mcb[p].type = "last" <=>
          nxtMCB(mcb, p) = Top \/ (nxtMCB(mcb, p) = UpperRoot /\ ~uppermem_link)

(* A process that waits for its child finds its memory as it left it: no   *)
(* call, load or end of another process moves, cuts or frees its blocks.   *)
ParentsKeepMemory ==
    [][\A i \in 1 .. Len(stack) :
          i < Len(stack) \/ Len(stack') > Len(stack) =>
            \A p \in Blocks : mcb[p].psp = stack[i] =>
              p \in Blocks' /\ mcb'[p].psp = mcb[p].psp /\ mcb'[p].size = mcb[p].size]_memVars

(* Every block has an owner that can still free it: no end of a process    *)
(* and no load that fails leaves a block behind, linked in or not.         *)
NoOrphans ==
    \A p \in Blocks : mcb[p].psp \in {FREE_PSP, SYSTEM} \cup resident \cup {stack[i] : i \in 1 .. Len(stack)}

(* The size DosMemLargest reports to a program is the largest it can get:  *)
(* the same call with that size succeeds, and one more fails.              *)
LargestExact ==
    LET L == DosMemLargest(mcb, uppermem_link, strategy).max
        Gets(n) == DosMemAlloc(mcb, n, strategy, uppermem_link, strategy, cu_psp).seg # NONE
    IN  (L > 0 => Gets(L)) /\ ~Gets(L + 1)
=============================================================================
