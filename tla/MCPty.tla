-------------------------------- MODULE MCPty --------------------------------
EXTENDS Pty

CONSTANTS a, b

MCKeys == {a, b, BS, NL, ETX}
MCKeysLong == {a, NL}

=============================================================================
