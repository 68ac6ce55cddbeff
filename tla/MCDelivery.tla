----------------------------- MODULE MCDelivery -----------------------------
EXTENDS Delivery

CONSTANTS m1, m2

MCMessages == {m1, m2}
=============================================================================
