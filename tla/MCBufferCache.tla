--------------------------- MODULE MCBufferCache ---------------------------
(* BufferCache with the least number of buffers, three, for a disk of one   *)
(* or two FAT blocks, their mirrors, and three blocks of files: writes of    *)
(* the FAT or of data that may be refused; and, with less to tell apart, reads that may be refused, *)
(* entries that straddle two FAT blocks, and programs that write past it.   *)
EXTENDS BufferCache, TLC
CONSTANTS f1, f2, m1, m2, da, db, dc, hd, d0, d1, d2
OneDisk    == [x \in Block |-> hd]
TwoMirrors == (f1 :> m1) @@ (f2 :> m2)
None       == {{}}
SinglesAndAll == {{x} : x \in {f1} \cup DataBlock} \cup {DataBlock}
FatFaults  == [calls |-> {}, fats |-> {f1}, data |-> {d0, d1}, reads |-> None, writes |-> {{}, {m1}}]
DataFaults == [calls |-> {}, fats |-> {}, data |-> {d0, d1}, reads |-> None,
               writes |-> {{}} \cup {{x} : x \in DataBlock}]
Direct == [calls |-> {"int26", "int7305"}, fats |-> {f1, f2}, data |-> {d2},
           reads |-> {{}, {f1}}, writes |-> {{}, {f1}}]
AllMixes == {FatFaults, DataFaults, Direct}
DataSymmetry == Permutations({da, db, dc}) \cup Permutations({d0, d1}) \cup Permutations(Buf)
=============================================================================
