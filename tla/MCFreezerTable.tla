--------------------------- MODULE MCFreezerTable ---------------------------
EXTENDS FreezerTable
MCBlobs == {<<1>>, <<2, 3>>}
=============================================================================
