------------------------- MODULE MCTokenLRUCache -------------------------
(* Model values and bounds for TokenLRUCache. *)
EXTENDS TokenLRUCache

MCSizes == {0, 1, 2}

=============================================================================
