----------------------------- MODULE MCFraming -----------------------------
EXTENDS Framing

MCSize == <<5, 7, 3, 12, 4, 9>>
=============================================================================
