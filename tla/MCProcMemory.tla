---------------------------- MODULE MCProcMemory ----------------------------
(* Instances of ProcMemory for TLC: pages of 4 bytes, blocks of 3 pages. *)
EXTENDS ProcMemory

MCDevicePages == {0, 2}
\* Nothing, part of a page, a page, a page and a byte, three pages.
MCSizes == {0, 3, 4, 5, 12}
=============================================================================
