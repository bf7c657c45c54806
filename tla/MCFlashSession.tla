---------------------------- MODULE MCFlashSession ----------------------------
EXTENDS FlashSession
=============================================================================
