------------------------------- MODULE MCRpc -------------------------------
EXTENDS Rpc

\* g1 has both mds, g2 the second only, g3 no endpoint.
MCAddrs == [g1 |-> <<"a1", "a2">>, g2 |-> <<"a2">>, g3 |-> <<>>]
=============================================================================
