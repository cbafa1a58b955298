---------------------------- MODULE MCFlashPath ----------------------------
\* FlashPath for TLC.
EXTENDS FlashPath
=============================================================================
