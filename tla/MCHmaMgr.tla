------------------------------ MODULE MCHmaMgr ------------------------------
(* HmaMgr on an area of eight paragraphs, claimed by the kernel or not yet, *)
(* with a shell and a program it starts again and again.                    *)
EXTENDS HmaMgr
=============================================================================
