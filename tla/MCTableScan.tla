---------------------------- MODULE MCTableScan ----------------------------
(***************************************************************************)
(* Files of up to four pages with no record or two on each, and two        *)
(* frames: prefetches evict, run out of frames, and outlive the scan; a    *)
(* table of three pages is the largest one that can not starve the scan,   *)
(* one of four pages can.                                                  *)
(***************************************************************************)
EXTENDS TableScan

=============================================================================
