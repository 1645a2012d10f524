----------------------------- MODULE FarObjects -----------------------------
(***************************************************************************)
(* The objects the kernel lends to real mode (fdpp/farobj.hpp, objtrace.cpp,*)
(* objhlp.cpp, dosobj.cc, smalloc.c) under the nesting of its calls         *)
(* (fdpp/thunks.cc).                                                        *)
(*                                                                         *)
(* A variable of the C++ side whose far address real mode is to use is     *)
(* copied into a small pool in DOS memory for the time of a call: a FarObj *)
(* takes a block of the pool and gives it back when its scope is left.     *)
(* Real mode enters the kernel by FdppCall, the kernel calls real mode by  *)
(* asm_call, and so they nest; a jump that does not return, and a reset,   *)
(* leave scopes by an exception instead.                                   *)
(***************************************************************************)
EXTENDS Integers, FiniteSets, Sequences, SequencesExt, FiniteSetsExt

CONSTANTS
    InitPool,   \* DOSOBJ_POOL: size of the pool of the start-up
    BootPool,   \* DOSOBJ_POOL2: size of the pool after CONFIG.SYS
    Sizes,      \* sizes of objects
    MaxDepth,   \* bound: nested FdppCalls
    MaxObjs     \* bound: FarObjs in the scopes of one call

ASSUME FarAssumption ==
    /\ InitPool \in Nat \ {0} /\ BootPool \in Nat \ {0}
    /\ Sizes \subseteq Nat \ {0}
    /\ MaxDepth \in Nat \ {0} /\ MaxObjs \in Nat

VARIABLES
    pool,       \* the list of memnodes and avail
    frames,     \* the FdppCalls under way, each with its FarObjs in their order
    shmap,      \* the strings of Config that no FarObj of Config owns yet
    deferred,   \* gc.list
    boot,       \* where FreeDOSmain is: "config", "kernel", "stepped" or "over"
    cpu,        \* who runs: "kernel", "real", "reset" (the host is resetting), "off"
    given,      \* the blocks the last jump out of the kernel was given
    calls,      \* whether the code jumped to enters the kernel before it returns
    hung,       \* whether a hang-up has ended a program and no call was made since
    leaked      \* whether dosobj_reinit has found a block in use

vars == <<pool, frames, shmap, deferred, boot, cpu, given, calls, hung, leaked>>

-----------------------------------------------------------------------------
(* The pool.                                                               *)

Block(at, size)      == [at |-> at, size |-> size]
Node(at, size, used) == [at |-> at, size |-> size, used |-> used]
sminit(size)         == [nodes |-> <<Node(0, size, FALSE)>>, avail |-> size]

FreeAt(ns, i) == i \in DOMAIN ns /\ ~ns[i].used

(* mntruncate: what node i loses goes to a free neighbour or a new node,   *)
(* what it gains comes from the neighbour, which may vanish.               *)
mntruncate(ns, i, size) ==
    LET delta == ns[i].size - size
        cut   == [ns EXCEPT ![i].size = size]
    IN  IF delta = 0 THEN ns
        ELSE IF ~FreeAt(ns, i + 1) THEN InsertAt(cut, i + 1, Node(ns[i].at + size, delta, FALSE))
        ELSE IF ns[i + 1].size + delta = 0 THEN RemoveAt(cut, i + 1)
        ELSE [cut EXCEPT ![i + 1].size = @ + delta, ![i + 1].at = @ - delta]

Fitting(p, size) == {i \in DOMAIN p.nodes : ~p.nodes[i].used /\ p.nodes[i].size >= size}
Found(p, size)   == Block(p.nodes[Min(Fitting(p, size))].at, size)
smalloc(p, size) ==
    LET i == Min(Fitting(p, size))
    IN  [nodes |-> mntruncate([p.nodes EXCEPT ![i].used = TRUE], i, size), avail |-> p.avail - size]

Joined(ns, i) ==
    IF FreeAt(ns, i) /\ FreeAt(ns, i + 1) THEN mntruncate(ns, i, ns[i].size + ns[i + 1].size) ELSE ns

(* Mutant: a freed block is not joined with the one before it. *)
JoinedBothNext(ns, i) == Joined(ns, i)
JoinedBoth(ns, i)     == Joined(Joined(ns, i), i - 1)

(* smfree refuses an address where no used block starts. *)
smfree(p, b) ==
    LET at == {i \in DOMAIN p.nodes : p.nodes[i].at = b.at /\ p.nodes[i].used}
    IN  IF at = {} THEN p
        ELSE LET i == Min(at)
             IN  [nodes |-> JoinedBoth([p.nodes EXCEPT ![i].used = FALSE], i),
                  avail |-> p.avail + p.nodes[i].size]

FreeBlocks(p, blocks) == FoldSet(LAMBDA b, q : smfree(q, b), p, blocks)

-----------------------------------------------------------------------------
(* FarObjs.                                                                *)

Top         == frames[Len(frames)]
BlocksOf(o) == {o.block} \cup o.parts
BlocksIn(f) == UNION {BlocksOf(o) : o \in ToSet(f.objs)}
InKernel    == cpu = "kernel"
Serving     == InKernel /\ ~Top.boot
InConfig    == InKernel /\ (Top.boot => boot = "config")

(* The destructors of a scope: RmObj gives the block of an object and then *)
(* those of its parts to objtrace_gc, which keeps them for the next call   *)
(* when the scope is left by a jump.                                       *)
(* Mutant: the mark is not looked at.                                      *)
DestroyedAtOnce(blocks, mark) == pool' = FreeBlocks(pool, blocks) /\ UNCHANGED deferred
Destroyed(blocks, mark) ==
    IF mark THEN deferred' = deferred \cup blocks /\ UNCHANGED pool
    ELSE pool' = FreeBlocks(pool, blocks) /\ UNCHANGED deferred

(* objtrace_enter. Mutant: the list is cleared only. *)
CollectedLost(p) == p
Collected(p)     == FreeBlocks(p, deferred)

Push(boots)   == Append(frames, [objs |-> <<>>, boot |-> boots])
WithTop(objs) == [frames EXCEPT ![Len(frames)].objs = objs]

(* MK_FAR_SCP and the like. A pool without room is the end of the program  *)
(* (_fail).                                                                *)
MakeObj(size) ==
    /\ InConfig /\ Len(Top.objs) < MaxObjs /\ Fitting(pool, size) # {}
    /\ pool' = smalloc(pool, size)
    /\ frames' = WithTop(Append(Top.objs, [block |-> Found(pool, size), parts |-> {}]))
    /\ UNCHANGED <<shmap, deferred, boot, cpu, given, calls, hung, leaked>>

(* MK_FAR_SZ_OBJ for a member (a command line), then MK_FAR_SCP for its    *)
(* owner (the exec block of INSTALL=, the request to a driver), which takes*)
(* the part over. Only the start-up does so.                               *)
MakeWithPart(size, part) ==
    /\ InKernel /\ Top.boot /\ boot = "config" /\ Len(Top.objs) < MaxObjs /\ Fitting(pool, part) # {}
    /\ \E p \in {smalloc(pool, part)} :
           /\ Fitting(p, size) # {}
           /\ pool' = smalloc(p, size)
           /\ frames' = WithTop(Append(Top.objs, [block |-> Found(p, size), parts |-> {Found(pool, part)}]))
    /\ UNCHANGED <<shmap, deferred, boot, cpu, given, calls, hung, leaked>>

(* The end of the youngest scope. *)
DropObj ==
    /\ InKernel /\ Top.objs # <<>>
    /\ Destroyed(BlocksOf(Last(Top.objs)), FALSE)
    /\ frames' = WithTop(Front(Top.objs))
    /\ UNCHANGED <<shmap, boot, cpu, given, calls, hung, leaked>>

-----------------------------------------------------------------------------
(* Calls between the two worlds.                                           *)

(* FdppCall, objtrace_enter: real mode, perhaps called by the kernel,      *)
(* calls the kernel.                                                       *)
FdppCall ==
    /\ cpu = "real" /\ Len(frames) < MaxDepth
    /\ pool' = Collected(pool) /\ deferred' = {}
    /\ frames' = Push(FALSE) /\ cpu' = "kernel"
    /\ given' = {} /\ calls' = FALSE /\ hung' = FALSE
    /\ UNCHANGED <<shmap, boot, leaked>>

(* objtrace_leave after a call that returns. *)
Leave ==
    /\ Serving /\ Top.objs = <<>>
    /\ frames' = Front(frames) /\ cpu' = "real"
    /\ UNCHANGED <<pool, shmap, deferred, boot, given, calls, hung, leaked>>

(* asm_call: the kernel calls real mode, and its return.                   *)
AsmCall ==
    /\ InConfig
    /\ cpu' = "real"
    /\ UNCHANGED <<pool, frames, shmap, deferred, boot, given, calls, hung, leaked>>

AsmReturn ==
    /\ cpu = "real" /\ frames # <<>> /\ ~calls
    /\ cpu' = "kernel" /\ given' = {}
    /\ UNCHANGED <<pool, frames, shmap, deferred, boot, calls, hung, leaked>>

(* asm_call_noret: the jump is prepared and the scopes of the call are left*)
(* by an exception, with the mark set until objtrace_leave.                *)
Jumped(blocks, enters) ==
    /\ Destroyed(blocks, TRUE)
    /\ frames' = Front(frames) /\ cpu' = "real"
    /\ given' = blocks /\ calls' = enters

(* exec_user, spawn_int23, dispatch_sig: the code jumped to is a program,  *)
(* or jumps to int21_handler itself.                                       *)
JumpToUser ==
    /\ Serving
    /\ Jumped(BlocksIn(Top), TRUE)
    /\ UNCHANGED <<shmap, boot, hung, leaked>>

(* ret_user: the end of a program. What it goes back to may be the call of *)
(* the kernel that started the program. When the console hangs up and the  *)
(* program left that signal to the default, it ends in the midst of a read,*)
(* whose one FarObj is the character (read_char).                          *)
ReturnToParent ==
    /\ Serving /\ Len(Top.objs) <= 1
    /\ Jumped(BlocksIn(Top), FALSE)
    /\ hung' = (hung \/ Top.objs # <<>>)
    /\ UNCHANGED <<shmap, boot, leaked>>

(* ASM_CALL_ABORT, ping and cpu_relax of the host: each call under way ends*)
(* with an exception, the innermost first.                                 *)
Reset ==
    /\ cpu \in {"kernel", "real"}
    /\ cpu' = IF frames = <<>> THEN "off" ELSE "reset"
    /\ given' = {} /\ calls' = FALSE
    /\ UNCHANGED <<pool, frames, shmap, deferred, boot, hung, leaked>>

Unwind ==
    /\ cpu = "reset"
    /\ Destroyed(BlocksIn(Top), FALSE)
    /\ frames' = Front(frames)
    /\ cpu' = IF Len(frames) = 1 THEN "off" ELSE "reset"
    /\ UNCHANGED <<shmap, boot, given, calls, hung, leaked>>

-----------------------------------------------------------------------------
(* The start-up.                                                           *)

(* FreeDOSmain up to dosobj_init: what is left of an earlier life goes with*)
(* its pool.                                                               *)
FreeDOSmain ==
    /\ cpu = "off"
    /\ pool' = sminit(InitPool) /\ deferred' = {} /\ shmap' = <<>>
    /\ frames' = Push(TRUE) /\ cpu' = "kernel" /\ boot' = "config"
    /\ hung' = FALSE /\ leaked' = FALSE
    /\ UNCHANGED <<given, calls>>

(* configPreBoot: the pool is made anew, with the two strings of Config.   *)
configPreBoot(init, tail) ==
    /\ InKernel /\ Top.boot /\ boot = "config" /\ Top.objs = <<>> /\ pool.avail = InitPool
    /\ Fitting(sminit(BootPool), init) # {}
    /\ \E p \in {smalloc(sminit(BootPool), init)} :
           /\ Fitting(p, tail) # {}
           /\ pool' = smalloc(p, tail)
           /\ shmap' = <<Found(sminit(BootPool), init), Found(p, tail)>>
    /\ boot' = "kernel"
    /\ UNCHANGED <<frames, deferred, cpu, given, calls, hung, leaked>>

(* dosobj_reinit has a block in use, and assert(!leaked) ends the host.    *)
dosobj_reinit ==
    /\ InKernel /\ Top.boot /\ boot = "config" /\ Top.objs = <<>> /\ pool.avail < InitPool
    /\ leaked' = TRUE /\ cpu' = "off" /\ frames' = <<>>
    /\ UNCHANGED <<pool, shmap, deferred, boot, given, calls, hung>>

(* kernel: the string for the shell is replaced when CONFIG.SYS was        *)
(* stepped through; track_owner_sh drops the old one.                      *)
ReplaceTail(tail) ==
    /\ InKernel /\ Top.boot /\ boot = "kernel" /\ Fitting(pool, tail) # {}
    /\ pool' = smfree(smalloc(pool, tail), shmap[2])
    /\ shmap' = <<shmap[1], Found(pool, tail)>>
    /\ boot' = "stepped"
    /\ UNCHANGED <<frames, deferred, cpu, given, calls, hung, leaked>>

(* call_p_0(MK_FAR_SCP(Config)): the FarObj of Config owns the strings.    *)
JumpToShell(size) ==
    /\ InKernel /\ Top.boot /\ boot \in {"kernel", "stepped"} /\ Fitting(pool, size) # {}
    /\ pool' = smalloc(pool, size) /\ boot' = "over" /\ shmap' = <<>>
    /\ \E blocks \in {{Found(pool, size)} \cup ToSet(shmap)} :
           deferred' = deferred \cup blocks /\ given' = blocks
    /\ frames' = Front(frames) /\ cpu' = "real" /\ calls' = TRUE
    /\ UNCHANGED <<hung, leaked>>

FarInit ==
    /\ pool = sminit(InitPool) /\ frames = <<>> /\ shmap = <<>> /\ deferred = {}
    /\ boot = "over" /\ cpu = "off" /\ given = {} /\ calls = FALSE
    /\ hung = FALSE /\ leaked = FALSE

FarNext ==
    \/ FdppCall \/ Leave \/ AsmCall \/ AsmReturn \/ JumpToUser \/ ReturnToParent
    \/ DropObj \/ Reset \/ Unwind \/ FreeDOSmain \/ dosobj_reinit
    \/ \E size \in Sizes : MakeObj(size) \/ ReplaceTail(size) \/ JumpToShell(size)
    \/ \E size, part \in Sizes : MakeWithPart(size, part) \/ configPreBoot(size, part)

FarSpec == FarInit /\ [][FarNext]_vars

-----------------------------------------------------------------------------
(* Properties.                                                             *)

Used  == {Block(n.at, n.size) : n \in {m \in ToSet(pool.nodes) : m.used}}
Held  == (UNION {BlocksIn(frames[i]) : i \in DOMAIN frames}) \cup ToSet(shmap) \cup deferred

(* The blocks in use are those of the objects in the scopes of all calls   *)
(* under way, of their parts, of the strings not yet owned and of what is  *)
(* kept for the next call: nothing is freed twice, and nothing is lost by  *)
(* a jump or a reset. The blocks lie side by side, free ones are joined,   *)
(* and avail is their sum.                                                 *)
PoolExact ==
    LET ns == pool.nodes
    IN  /\ cpu # "off" => Used = Held
        /\ \A i \in DOMAIN ns : ns[i].size > 0
        /\ \A i \in DOMAIN ns \ {1} :
               ns[i].at = ns[i - 1].at + ns[i - 1].size /\ (ns[i].used \/ ns[i - 1].used)
        /\ pool.avail = FoldSet(LAMBDA n, sum : sum + n.size, 0, {n \in ToSet(ns) : ~n.used})

(* What a jump out of the kernel was given stays in the pool until the     *)
(* kernel is called again.                                                 *)
JumpArgsKept == given \subseteq Used

(* dosobj_reinit finds no block in use ("assert(!leaked)"), whatever the   *)
(* INSTALL= programs and the drivers have done, unless the last of them was*)
(* ended by a hang-up in the midst of a read, as README.md says.           *)
NothingLeaked == leaked => hung
=============================================================================
