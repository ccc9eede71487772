------------------------------ MODULE MCTransfer ------------------------------
EXTENDS Transfer

\* Four pages of four bytes; the user area is pages 1 and 2.
MCPermChoices == {{}, {"R", "U"}, {"R", "W", "U"}, {"R", "W", "X", "U"}, {"R", "W"}}

=============================================================================
