----------------------------- MODULE MCStartMem -----------------------------
(* Up to four UMBs of different sizes, in every order the driver may have them in memory. *)
EXTENDS StartMem

U(seg, size) == [seg |-> seg, size |-> size]
Heap == U(70, 3)

Apart == {<<>>, <<U(40, 8)>>, <<U(40, 9), U(54, 6)>>, <<U(50, 8), U(40, 6)>>,
          <<U(50, 9), U(62, 7), U(40, 5)>>, <<U(40, 9), U(62, 6), U(53, 5)>>}
(* Pieces that meet: above an earlier one, and between two earlier ones. *)
Meeting == {<<U(40, 8), U(48, 6)>>, <<U(40, 9), U(60, 5), U(49, 3), U(65, 3)>>}
(* A piece that meets the earlier one from below. *)
MeetingBelow == {<<U(50, 8), U(44, 6)>>}

Layout(set, flags) == [umbs : set, heapHma : flags]
Usual == Layout(Apart, BOOLEAN) \cup Layout(Meeting, {FALSE})
Below == Layout(MeetingBelow, {FALSE})
=============================================================================
