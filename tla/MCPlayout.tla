----------------------------- MODULE MCPlayout -----------------------------
EXTENDS Playout
MCLengths == {[min |-> 160, max |-> 160], [min |-> 100, max |-> 100], [min |-> 0, max |-> 320]}
MCSpeech == {1, 2, 4}
=============================================================================
