------------------------------ MODULE MCOutbox ------------------------------
EXTENDS Outbox

CONSTANTS m1, m2, w1, c1

MCMessages == {m1, m2}
MCWorkers == {w1}
MCCallers == {c1}
=============================================================================
