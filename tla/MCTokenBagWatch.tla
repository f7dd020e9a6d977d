--------------------------- MODULE MCTokenBagWatch ---------------------------
(* The instance of TokenBagWatch for TLC: phones share nothing but the ticks *)
(* of Publish, so one phone, any number of other writers and their publishes *)
(* show every interleaving of its own.  The storyteller may have the Drunk   *)
(* hold the Chef's token, and take that back.                                *)
EXTENDS TokenBagWatch

CONSTANTS phone1, drunk, chef

OnePhone == {phone1}
InPlay == {drunk}
TwoTokens == {drunk, chef}
DrunkSubs == {[t \in TwoTokens |-> t], [t \in TwoTokens |-> chef]}
=============================================================================
