----------------------------- MODULE MCHandles -----------------------------
(* Handles for a few processes that open one or two files and a device:     *)
(* programs that share and lock files, programs whose opens and closes fail *)
(* and that resize their tables, programs that use FCBs and attributes.     *)
EXTENDS Handles, TLC
CONSTANTS p1, p2, f1, f2, con
CompatOnly == {<<2, 0>>}
Ordinary == [calls  |-> {"open", "close", "dup", "forcedup", "exec", "tsr", "lock"},
             faults |-> {}, procs |-> Psp, names |-> {f1, con}, bound |-> 6]
Faulty   == [calls  |-> {"open", "close", "dup", "forcedup", "forcedup_self", "exec", "jftsize"},
             faults |-> {"dos_close", "c_open"}, procs |-> {Root, p1}, names |-> {f1, con}, bound |-> 3]
Sharing  == [calls  |-> {"open", "close", "fcb", "exec", "setfattr"},
             faults |-> {"dos_close"}, procs |-> {Root, p1}, names |-> {f1, f2}, bound |-> 3]
Fcbs     == [calls  |-> {"open", "close", "dup", "forcedup", "fcb", "exec"},
             faults |-> {}, procs |-> {Root, p1}, names |-> {f1, f2}, bound |-> 4]
AllMixes == {Ordinary, Faulty, Sharing, Fcbs}
=============================================================================
