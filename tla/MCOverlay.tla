------------------------------ MODULE MCOverlay ------------------------------
EXTENDS Overlay
=============================================================================
