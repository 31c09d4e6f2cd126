------------------------------- MODULE MCPmm -------------------------------
(* Small instances of Pmm and PmmScan: pages of four bytes; RAM that is     *)
(* aligned, that is not, that starts at 0, that vanishes on alignment, that *)
(* is missing and that is larger than the bitmap; ranges that straddle the  *)
(* ends of RAM and of pages.                                                *)
EXTENDS PmmScan

MCRams == {<<4, 24>>, <<6, 21>>, <<5, 5>>, <<9, 0>>, <<0, 40>>}
MCFallback == <<8, 12>>
MCRanges == {<<1, 5>>, <<10, 3>>, <<15, 1>>, <<26, 9>>, <<12, 0>>}
=============================================================================
