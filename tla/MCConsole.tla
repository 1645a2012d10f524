----------------------------- MODULE MCConsole -----------------------------
(* Console calls with a kb_buf of four characters: calls of every kind with  *)
(* few keys, lines edited and handed over in pieces, reads of AUX.            *)
EXTENDS Console

MCUses == {[keys |-> {"a", "CR", "^C", "^S", "F3"}, ops |-> {"01", "07", "0A", "3F"},
            other |-> {"break", "gone"}, ahead |-> 3, max |-> 3],
           [keys |-> {"a", "HT", "CR", "BS", "F3", "F5"}, ops |-> {"3F"}, other |-> {}, ahead |-> 1, max |-> 6],
           [keys |-> {"a", "b", "F5", "F2", "F4", "DEL", "INS"}, ops |-> {"3F"}, other |-> {}, ahead |-> 1, max |-> 5],
           [keys |-> {"a", "CR", "^S", "^Z"}, ops |-> {"0A", "3F"}, other |-> {}, ahead |-> 1, max |-> 5],
           [keys |-> {"a", "^C", "F3", "^Z"}, ops |-> {"02", "03", "06", "3FA"},
            other |-> {"aux", "break"}, ahead |-> 2, max |-> 3]}

(* Lines edited from a stored line. *)
MCTemplate == {[keys |-> {"a", "F2", "F5"}, ops |-> {"3F"}, other |-> {}, ahead |-> 1, max |-> 8]}
=============================================================================
