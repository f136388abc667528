------------------------------ MODULE MCPosting ------------------------------
(* One page and its member: two texts, one of them with a handle, one more *)
(* key than texts for a conflict, and two requests under way at once.      *)
EXTENDS Posting

CONSTANTS plain, handle

ThreeKeys == 1..3
=============================================================================
