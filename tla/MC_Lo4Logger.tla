------------------------------ MODULE MC_Lo4Logger ------------------------------
EXTENDS Lo4Logger

AnyFile == { <<>>, <<0, 0, 0>> }   \* 0: a section of an older download
=============================================================================
