----------------------------- MODULE MCTempHeap -----------------------------
(* A small instance of TempHeap for TLC: requests below, of exactly and      *)
(* (those that are kept) above a page, with pages of 8 bytes, because        *)
(* NothingLost looks at every byte.                                          *)
EXTENDS TempHeap
=============================================================================
