------------------------------ MODULE MCFatFs ------------------------------
(* Programs that share files (with links that fail, or with a disk that is   *)
(* changed), and programs that change directories during a search.           *)
EXTENDS FatFs

Names == Permutations(FileName) \cup Permutations(DirName)

Files(calls)       == [calls |-> calls \cup {"io", "seek"}, fds |-> {0, 1}, max |-> 2]
Directories(calls) == [calls |-> calls \cup {"delete", "rename", "dirs"}, fds |-> {0}, max |-> 1]
AllMixes == {Files({"truncate", "delete", "faults"}), Files({"ftime", "media"}),
             Directories({"find"}), Directories({"renamedir", "io"})}
=============================================================================
