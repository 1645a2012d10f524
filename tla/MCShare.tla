------------------------------ MODULE MCShare ------------------------------
(* Share on small tables that fill up.  The opens ask for compatibility     *)
(* and every deny mode, for reading and for writing; <<3, 6>> is invalid,   *)
(* and share_open_file takes it for <<0, 0>>.  Offsets are 0 to 2 and an    *)
(* end past that wraps.                                                    *)
EXTENDS Share, TLC
FileSymmetry == Permutations(File)
MixedOpenArgs == {<<3, 6>>, <<2, 0>>, <<0, 1>>, <<0, 2>>, <<1, 2>>, <<1, 3>>,
                  <<2, 3>>, <<2, 4>>}
=============================================================================
