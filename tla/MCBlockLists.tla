---------------------------- MODULE MCBlockLists ----------------------------
(* A small instance of BlockLists: four blocks of three bytes, three lists.  *)
EXTENDS BlockLists

CONSTANTS h1, h2, h3

MCItems == 0..3
MCHeads == {h1, h2, h3}
MCNull  == -1
=============================================================================
