----------------------------- MODULE ByteLocks -----------------------------
(***************************************************************************)
(* What SHARE promises about locked regions: a set of half-open regions,   *)
(* each held by an open of a file; no two regions of a file meet; a region *)
(* goes only when its holder unlocks it or closes the file.                *)
(***************************************************************************)
EXTENDS Integers

CONSTANTS Holder, LockedFile, Bound

VARIABLES
    held,       \* the locked regions
    opens       \* the opens there are, [holder, file]

Region == {r \in [holder: Holder, file: LockedFile, from: 0 .. Bound, to: 0 .. Bound] :
              r.from < r.to}

Meet(r, s) == r.file = s.file /\ r.from < s.to /\ s.from < r.to

BLInit == held = {} /\ opens = {}

BLOpen(o) ==
    /\ \A p \in opens : p.holder # o.holder
    /\ opens' = opens \cup {o}
    /\ UNCHANGED held

BLClose(o) ==
    /\ opens' = opens \ {o}
    /\ held' = {r \in held : r.holder # o.holder}

BLLock(r) ==
    /\ [holder |-> r.holder, file |-> r.file] \in opens
    /\ \A s \in held : ~Meet(r, s)
    /\ held' = held \cup {r}
    /\ UNCHANGED opens

BLUnlock(r) ==
    /\ held' = held \ {r}
    /\ UNCHANGED opens

BLNext ==
    \/ \E o \in [holder: Holder, file: LockedFile] : BLOpen(o)
    \/ \E o \in opens : BLClose(o)
    \/ \E r \in Region : BLLock(r)
    \/ \E r \in held : BLUnlock(r)

BLSpec == BLInit /\ [][BLNext]_<<held, opens>>
=============================================================================
