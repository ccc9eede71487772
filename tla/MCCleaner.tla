------------------------------ MODULE MCCleaner ------------------------------
EXTENDS Cleaner

CONSTANTS w1, w2, w3

MCWorkers == {w1, w2, w3}
MCWorkersLiveness == {w1, w2}

=============================================================================
