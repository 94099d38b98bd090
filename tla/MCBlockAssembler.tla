------------------------- MODULE MCBlockAssembler -------------------------
EXTENDS BlockAssembler
=============================================================================
