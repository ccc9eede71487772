--------------------------- MODULE MCTransferString ---------------------------
EXTENDS TransferString

\* Four pages of four bytes; the user area is pages 1 and 2.  A user page
\* is unmapped, read-only, read-write, read-write-exec, or kernel-only.
MCPermChoices == {{}, {"R", "U"}, {"R", "W", "U"}, {"R", "W", "X", "U"}, {"R", "W"}}

=============================================================================
