----------------------------- MODULE MCAppmain -----------------------------
EXTENDS Appmain

MCHardware == <<"TPMEK">>
=============================================================================
