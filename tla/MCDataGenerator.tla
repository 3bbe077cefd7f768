-------------------------- MODULE MCDataGenerator --------------------------
(***************************************************************************)
(* Up to three pages generated through two frames: a page can be evicted,  *)
(* and so written to the file, before the process ends.                    *)
(***************************************************************************)
EXTENDS DataGenerator

=============================================================================
