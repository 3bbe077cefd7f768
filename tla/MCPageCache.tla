---------------------------- MODULE MCPageCache ----------------------------
(***************************************************************************)
(* Three pages, two frames, two handles: both handles can pin the whole    *)
(* pool (fetch_throw), share a page, or leave one page to evict.           *)
(***************************************************************************)
EXTENDS PageCache

=============================================================================
