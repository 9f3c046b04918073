------------------------------ MODULE MCWatch ------------------------------
\* An interval of 2 s and ten polls, so that the panel's cap of eight is
\* passed; probes leave a rest of half a second, a rest that is rounded up, or
\* overrun the interval.
EXTENDS Watch
=============================================================================
