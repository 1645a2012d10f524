------------------------------ MODULE Handles ------------------------------
(***************************************************************************)
(* File handles: the per-process tables of a PSP (ps_filetab), the system  *)
(* file table (SFT) with its reference counts, the SHARE entry each open   *)
(* of a local file holds, and the processes that inherit and drop handles  *)
(* (kernel/dosfns.c, fcbfns.c, task.c, newstuff.c over share.c).           *)
(*                                                                         *)
(* A DOS call of the current process is one step.  The programs of a run   *)
(* are one of Mixes: they make certain calls, with certain faults below.   *)
(***************************************************************************)
EXTENDS Share

CONSTANTS
    Device,         \* character devices
    NoPsp,          \* no process
    Root,           \* the process that is its own parent
    SftCount,       \* number of SFTs
    DefaultFiles,   \* ps_maxfiles of a new process (20)
    MaxFiles,       \* bound: the largest handle table a program asks for
    JftSizes,       \* bound: the sizes a program asks for
    Mixes           \* the programs: [calls, faults, procs, names, bound]: the DOS calls they
                    \* make, what may fail below, the processes and the files and devices there
                    \* are, and the bound of every sft_count (a WORD)

ASSUME HandlesAssumption ==
    /\ Root \in Psp /\ NoPsp \notin Psp
    /\ NoFile \notin Device /\ File \cap Device = {}
    /\ SftCount \in Nat \ {0}
    /\ DefaultFiles \in Nat /\ MaxFiles \in Nat /\ DefaultFiles <= MaxFiles
    /\ JftSizes \subseteq 0 .. MaxFiles
    /\ \A m \in Mixes :
          /\ m.calls \subseteq {"open", "close", "dup", "forcedup", "forcedup_self", "fcb", "exec",
                               "tsr", "jftsize", "setfattr", "lock"}
          /\ m.faults \subseteq {"dos_close", "c_open"}
          /\ Root \in m.procs /\ m.procs \subseteq Psp /\ m.names \subseteq File \cup Device
          /\ m.bound \in Nat \ {0}

VARIABLES
    mix,            \* the programs
    cu_psp,         \* the current process
    parent,         \* ps_parent of each process, NoPsp if there is no such process
    jft,            \* ps_filetab
    maxfiles,       \* ps_maxfiles
    sft             \* the SFTs

handleVars == <<mix, cu_psp, parent, jft, maxfiles, sft>>
allVars    == <<shareVars, handleVars>>

SftNo  == 0 .. SftCount - 1
Handle == 0 .. MaxFiles - 1
NoSft  == -1            \* 0xff in a handle table

(* A closed SFT: get_free_sft's caller clears it before use.               *)
FreeSft == [count |-> 0, file |-> NoFile, shroff |-> -1, psp |-> NoPsp,
            noinherit |-> FALSE, fcb |-> FALSE]

Live       == {p \in Psp : parent[p] # NoPsp}
OpenSfts   == {s \in SftNo : sft[s].count > 0}
FreeSfts   == SftNo \ OpenSfts

(* get_sft_idx then idx_to_sft: the open SFT of a handle of process p.     *)
Valid(p, h)  == h < maxfiles[p] /\ jft[p][h] \in OpenSfts
FreeHandles  == {h \in Handle : h < maxfiles[cu_psp] /\ jft[cu_psp][h] = NoSft}
Refs(s)      == {r \in Live \X Handle : r[2] < maxfiles[r[1]] /\ jft[r[1]][r[2]] = s}

(***************************************************************************)
(* Opening and closing an SFT.                                             *)
(***************************************************************************)
NewSft(f, shroff, noinherit, fcb) ==
    [count |-> 1, file |-> f, shroff |-> shroff, psp |-> cu_psp,
     noinherit |-> noinherit, fcb |-> fcb]

(* DosOpenSft of a local file: an SFT and a SHARE entry, or nothing at all *)
(* when SHARE or dos_open refuses (dos_open's refusal undoes both).        *)
OpenLocal(s, f, mode, noinherit, fcb) ==
    LET n == share_open_ret(f, cu_psp, mode[1], mode[2])
    IN  /\ n >= 0
        /\ share_open_file(f, cu_psp, mode[1], mode[2])
        /\ sft' = [sft EXCEPT ![s] = NewSft(f, n, noinherit, fcb)]

(* DosOpenSft of a device: DeviceOpenSft counts the SFT before it asks the *)
(* driver, and a driver that refuses does not undo the count.              *)
OpenDevice(s, d, noinherit) ==
    /\ sft' = [sft EXCEPT ![s] = NewSft(d, -1, noinherit, FALSE)]
    /\ UNCHANGED shareVars

(* Mutant: the count is not looked at.                                     *)
CloseSftsAtOnce(dec) ==
    LET Closed == {s \in OpenSfts : dec[s] > 0}
        Freed  == {sft[s].shroff : s \in Closed} \ {-1}
    IN  /\ sft' = [s \in SftNo |-> IF s \in Closed THEN FreeSft
                                   ELSE [sft[s] EXCEPT !.count = @ - dec[s]]]
        /\ fileTable' = [n \in FileNo |-> IF n \in Freed THEN FreeEntry ELSE fileTable[n]]
        /\ lockTable' = [k \in LockNo |-> IF lockTable[k].fileno \in Freed THEN FreeLock
                                          ELSE lockTable[k]]

(* Mutant: the SHARE entry stays.                                          *)
CloseSftsOnly(dec) ==
    /\ sft' = [s \in SftNo |-> IF s \in OpenSfts /\ dec[s] = sft[s].count THEN FreeSft
                               ELSE [sft[s] EXCEPT !.count = @ - dec[s]]]
    /\ UNCHANGED shareVars

(* Mutant: the SHARE entry goes with every close, not with the last.       *)
CloseSftsShareFirst(dec) ==
    LET Freed == {sft[s].shroff : s \in {t \in OpenSfts : dec[t] > 0}} \ {-1}
    IN  /\ sft' = [s \in SftNo |-> IF s \in OpenSfts /\ dec[s] = sft[s].count THEN FreeSft
                                   ELSE [sft[s] EXCEPT !.count = @ - dec[s]]]
        /\ fileTable' = [n \in FileNo |-> IF n \in Freed THEN FreeEntry ELSE fileTable[n]]
        /\ lockTable' = [k \in LockNo |-> IF lockTable[k].fileno \in Freed THEN FreeLock
                                          ELSE lockTable[k]]

(* dec[s] successful calls of DosCloseSft(s, FALSE), for every s: an SFT   *)
(* whose count drops to zero gives its SHARE entry and its locks back.     *)
CloseSfts(dec) ==
    LET Closed == {s \in OpenSfts : dec[s] = sft[s].count}
        Freed  == {sft[s].shroff : s \in Closed} \ {-1}
    IN  /\ sft' = [s \in SftNo |-> IF s \in Closed THEN FreeSft
                                   ELSE [sft[s] EXCEPT !.count = @ - dec[s]]]
        /\ fileTable' = [n \in FileNo |-> IF n \in Freed THEN FreeEntry ELSE fileTable[n]]
        /\ lockTable' = [k \in LockNo |-> IF lockTable[k].fileno \in Freed THEN FreeLock
                                          ELSE lockTable[k]]

Once(S) == [s \in SftNo |-> IF s \in S THEN 1 ELSE 0]

(* dos_close, or the driver's C_CLOSE, may fail; DosCloseSft then returns  *)
(* before it counts down.                                                  *)
CloseMayFail == "dos_close" \in mix.faults

(***************************************************************************)
(* The DOS calls of the current process.                                   *)
(***************************************************************************)
Process == UNCHANGED <<mix, cu_psp, parent, maxfiles>>

(* DosOpen: the first free handle, the first free SFT.                     *)
DosOpen(f, mode, noinherit) ==
    /\ "open" \in mix.calls
    /\ FreeHandles # {} /\ FreeSfts # {}
    /\ IF f \in File THEN OpenLocal(FirstOf(FreeSfts), f, mode, noinherit, FALSE)
                     ELSE OpenDevice(FirstOf(FreeSfts), f, noinherit)
    /\ jft' = [jft EXCEPT ![cu_psp][FirstOf(FreeHandles)] = FirstOf(FreeSfts)]
    /\ Process

DosOpenDeviceFails(d) ==
    /\ "open" \in mix.calls /\ "c_open" \in mix.faults
    /\ FreeHandles # {} /\ FreeSfts # {}
    /\ OpenDevice(FirstOf(FreeSfts), d, FALSE)
    /\ UNCHANGED jft
    /\ Process

(* DosClose drops the handle before it closes the SFT.                     *)
DosClose(h) ==
    /\ "close" \in mix.calls
    /\ Valid(cu_psp, h)
    /\ jft' = [jft EXCEPT ![cu_psp][h] = NoSft]
    /\ \/ CloseSfts(Once({jft[cu_psp][h]}))
       \/ CloseMayFail /\ UNCHANGED <<sft, shareVars>>
    /\ Process

(* Mutant: a second handle is not counted.                                 *)
CountNot(s) == UNCHANGED sft

CountUp(s) ==
    /\ sft[s].count < mix.bound
    /\ sft' = [sft EXCEPT ![s].count = @ + 1]

(* DosDup: DosForceDup to the first free handle.                           *)
DosDup(h) ==
    /\ "dup" \in mix.calls
    /\ Valid(cu_psp, h) /\ FreeHandles # {}
    /\ jft' = [jft EXCEPT ![cu_psp][FirstOf(FreeHandles)] = jft[cu_psp][h]]
    /\ CountUp(jft[cu_psp][h])
    /\ UNCHANGED shareVars
    /\ Process

(* DosForceDup onto an open handle closes that one first; the SFT of the   *)
(* old handle is counted up afterwards, also when the close was its last.  *)
DosForceDup(old, new) ==
    LET s == jft[cu_psp][old]
        t == jft[cu_psp][new]
        Moved == jft' = [jft EXCEPT ![cu_psp][new] = IF new = old THEN NoSft ELSE s]
    IN  /\ IF new = old THEN "forcedup_self" \in mix.calls ELSE "forcedup" \in mix.calls
        /\ Valid(cu_psp, old) /\ new < maxfiles[cu_psp]
        /\ \/ /\ t = NoSft
              /\ Moved /\ CountUp(s) /\ UNCHANGED shareVars
           \/ /\ t \in OpenSfts \ {s} /\ sft[s].count < mix.bound
              /\ Moved /\ CloseSfts([i \in SftNo |-> IF i = t THEN 1 ELSE IF i = s THEN -1 ELSE 0])
           \/ /\ t = s /\ sft[s].count > 1
              /\ Moved /\ UNCHANGED <<sft, shareVars>>
           \/ /\ t = s /\ sft[s].count = 1
              /\ Moved /\ sft' = [sft EXCEPT ![s].shroff = -1]
              /\ IF sft[s].shroff >= 0 THEN share_close_file(sft[s].shroff)
                                       ELSE UNCHANGED shareVars
           \/ /\ t \in OpenSfts /\ CloseMayFail
              /\ jft' = [jft EXCEPT ![cu_psp][new] = NoSft]
              /\ UNCHANGED <<sft, shareVars>>
        /\ Process

(* SetJFTSize: a smaller size hides the handles above it; a larger one     *)
(* copies the visible ones to a new table.                                 *)
SetJFTSize(n) ==
    /\ "jftsize" \in mix.calls
    /\ maxfiles' = [maxfiles EXCEPT ![cu_psp] = n]
    /\ IF n <= maxfiles[cu_psp] THEN UNCHANGED jft
       ELSE jft' = [jft EXCEPT ![cu_psp] =
                       [h \in Handle |-> IF h < maxfiles[cu_psp] THEN @[h] ELSE NoSft]]
    /\ UNCHANGED <<mix, cu_psp, parent, sft, shareVars>>

(* FcbOpen and FcbClose: an SFT without a handle, found by its sft_psp.    *)
FcbOpen(f, mode) ==
    /\ "fcb" \in mix.calls
    /\ FreeSfts # {}
    /\ OpenLocal(FirstOf(FreeSfts), f, mode, FALSE, TRUE)
    /\ UNCHANGED jft
    /\ Process

OwnFcbs == {s \in OpenSfts : sft[s].fcb /\ sft[s].psp = cu_psp}

FcbClose(s) ==
    /\ "fcb" \in mix.calls
    /\ s \in OwnFcbs
    /\ CloseSfts(Once({s}))
    /\ UNCHANGED jft
    /\ Process

(* DosLockUnlock through a handle of a local file.                         *)
DosLockUnlock(h, ofs, len) ==
    /\ "lock" \in mix.calls
    /\ Valid(cu_psp, h) /\ sft[jft[cu_psp][h]].shroff >= 0
    /\ LET n == sft[jft[cu_psp][h]].shroff
       IN  share_lock(n, ofs, len) \/ share_unlock(n, ofs, len)
    /\ UNCHANGED handleVars

(* DosSetFattr: SHARE is asked about the first open it finds; if that does *)
(* not refuse, dos_setfattr closes every SFT of the file once              *)
(* (merge_file_changes with collect = -1), up to one that fails to close.  *)
ShareRefuses(f) ==
    /\ share_is_file_open(f)
    /\ OpenReport(f).sharemode # 0 \/ OpenReport(f).psp # cu_psp

DosSetFattr(f) ==
    /\ "setfattr" \in mix.calls
    /\ ~ShareRefuses(f)
    /\ \E fails \in SftNo \cup {SftCount} :
          /\ fails < SftCount => CloseMayFail
          /\ CloseSfts(Once({s \in OpenSfts : sft[s].file = f /\ s < fails}))
    /\ UNCHANGED jft
    /\ Process

(***************************************************************************)
(* Processes: DosExec of a new process and return_user.                    *)
(***************************************************************************)
(* child_psp: the child inherits what CloneHandle accepts.  The program    *)
(* file itself is opened in compatibility mode, read and closed again.     *)
Inherited == {h \in Handle : /\ h < DefaultFiles
                             /\ Valid(cu_psp, h)
                             /\ ~sft[jft[cu_psp][h]].noinherit}

DosExec(p, f) ==
    /\ "exec" \in mix.calls
    /\ p \notin Live /\ p \in mix.procs
    /\ FreeSfts # {} /\ share_open_ret(f, cu_psp, 0, 0) >= 0
    /\ cu_psp' = p
    /\ parent' = [parent EXCEPT ![p] = cu_psp]
    /\ maxfiles' = [maxfiles EXCEPT ![p] = DefaultFiles]
    /\ jft' = [jft EXCEPT ![p] = [h \in Handle |-> IF h \in Inherited THEN jft[cu_psp][h] ELSE NoSft]]
    /\ sft' = [s \in SftNo |-> [sft[s] EXCEPT !.count =
                                  @ + Cardinality({h \in Inherited : jft[cu_psp][h] = s})]]
    /\ \A s \in SftNo : sft'[s].count <= mix.bound
    /\ UNCHANGED <<mix, shareVars>>

(* FcbCloseAll walks the SFTs from 0 and stops at the first closed one.    *)
(* cnt is the count of each SFT at that moment.                            *)
FcbCloseAll(cnt) == {s \in OwnFcbs : \A i \in 0 .. s : cnt[i] > 0}

(* return_user of a process that does not stay resident: DosClose of every *)
(* handle, then FcbCloseAll.  Nobody looks at the closes that fail, those  *)
(* of the handles in failed and of the FCB files in kept.                  *)
Exit(failed, kept) ==
    LET Mine == {h \in Handle : Valid(cu_psp, h)} \ failed
        n    == [s \in SftNo |-> Cardinality({h \in Mine : jft[cu_psp][h] = s})]
        dec1 == [s \in SftNo |-> IF n[s] < sft[s].count THEN n[s] ELSE sft[s].count]
        Fcbs == FcbCloseAll([s \in SftNo |-> sft[s].count - dec1[s]])
    IN  /\ "exec" \in mix.calls
        /\ cu_psp # Root
        /\ failed \cup kept # {} => CloseMayFail
        /\ CloseSfts([s \in SftNo |-> dec1[s] + Once(Fcbs \ kept)[s]])
        /\ jft' = [jft EXCEPT ![cu_psp] = [h \in Handle |-> NoSft]]
        /\ maxfiles' = [maxfiles EXCEPT ![cu_psp] = 0]
        /\ parent' = [parent EXCEPT ![cu_psp] = NoPsp]
        /\ cu_psp' = parent[cu_psp]
        /\ UNCHANGED mix

(* Keep program: a resident process keeps its handles and its PSP.         *)
KeepProgram ==
    /\ "tsr" \in mix.calls
    /\ cu_psp # Root
    /\ cu_psp' = parent[cu_psp]
    /\ UNCHANGED <<mix, parent, jft, maxfiles, sft, shareVars>>

HandlesInit ==
    /\ ShareInit
    /\ mix \in Mixes
    /\ cu_psp = Root
    /\ parent = [p \in Psp |-> IF p = Root THEN Root ELSE NoPsp]
    /\ maxfiles = [p \in Psp |-> IF p = Root THEN DefaultFiles ELSE 0]
    /\ jft = [p \in Psp |-> [h \in Handle |-> NoSft]]
    /\ sft = [s \in SftNo |-> FreeSft]

HandlesNext ==
    \/ \E f \in mix.names, m \in OpenArgs, b \in BOOLEAN : DosOpen(f, m, b)
    \/ \E d \in Device \cap mix.names : DosOpenDeviceFails(d)
    \/ \E h \in Handle : DosClose(h) \/ DosDup(h)
    \/ \E old, new \in Handle : DosForceDup(old, new)
    \/ \E n \in JftSizes : SetJFTSize(n)
    \/ \E f \in File \cap mix.names, m \in OpenArgs : FcbOpen(f, m)
    \/ \E s \in SftNo : FcbClose(s)
    \/ \E h \in Handle, ofs, len \in Offset : DosLockUnlock(h, ofs, len)
    \/ \E f \in File \cap mix.names : DosSetFattr(f)
    \/ \E p \in Psp, f \in File \cap mix.names : DosExec(p, f)
    \/ \E failed \in SUBSET Handle, kept \in SUBSET OwnFcbs : Exit(failed, kept)
    \/ KeepProgram

HandlesSpec == HandlesInit /\ [][HandlesNext]_allVars

(***************************************************************************)
(* Properties                                                              *)
(***************************************************************************)
(* No program changes the attributes of an open file: dos_setfattr closes  *)
(* every SFT of the file, under the handles of whoever has it open.        *)
KeepsAttributes == "setfattr" \notin mix.calls

(* sft.h: sft_count is the "reference count": no reference, no open SFT,   *)
(* for programs whose closes do not fail, that do not force a handle onto  *)
(* itself, hide no handle by a smaller table and leave the attributes of   *)
(* open files alone: each of these leaves a count without its reference.   *)
Plain == mix.faults = {} /\ mix.calls \cap {"forcedup_self", "jftsize", "setfattr"} = {}
CountsExact ==
    Plain => \A s \in SftNo : sft[s].count = Cardinality(Refs(s)) + (IF sft[s].fcb THEN 1 ELSE 0)

(* Every open local SFT has a SHARE entry of its own for its file, and     *)
(* every SHARE entry belongs to an open SFT: none is lost or shared.       *)
ShareOneToOne ==
    /\ \A s \in OpenSfts : sft[s].shroff >= 0 => fileTable[sft[s].shroff].filename = sft[s].file
    /\ \A s, t \in OpenSfts : s # t /\ sft[s].shroff >= 0 => sft[s].shroff # sft[t].shroff
    /\ \A n \in UsedFiles : \E s \in OpenSfts : sft[s].shroff = n

(* A handle a process does not itself close or redirect keeps naming the   *)
(* same open file and the same SHARE entry, whatever the other processes   *)
(* and the other handles do (ends of processes and failed closes too), as   *)
(* long as no program changes the attributes of an open file.              *)
HandlesStayOpen ==
    [][KeepsAttributes => \A p \in Live, h \in Handle :
          /\ Valid(p, h) /\ jft'[p][h] = jft[p][h] /\ p \in Live'
          => LET s == jft[p][h] IN
             sft'[s].count > 0 /\ sft'[s].file = sft[s].file /\ sft'[s].shroff = sft[s].shroff]_allVars

(* What a step does with a lock: a lock that goes has gone by an unlock    *)
(* through a handle of the SFT that holds it, or with that SFT.            *)
LockKeptOrGone ==
    \A k \in UsedLocks : lockTable'[k] # lockTable[k] =>
        LET n == lockTable[k].fileno IN
        \/ \A s \in SftNo : sft'[s].count > 0 => sft'[s].shroff # n
        \/ /\ UNCHANGED handleVars
           /\ \E h \in Handle : Valid(cu_psp, h) /\ sft[jft[cu_psp][h]].shroff = n

(* A lock goes only by an unlock through a handle of the SFT that holds it, *)
(* or with that SFT when its last reference is closed: closing one of      *)
(* several handles, or the end of one of several processes, keeps it.      *)
LocksKept == [][LockKeptOrGone]_allVars
=============================================================================
