------------------------------- MODULE MCAdmin -------------------------------
EXTENDS EnaAdmin, TLC

=============================================================================
