----------------------------- MODULE MCTLSProbe -----------------------------
(* TLSProbe with endpoints that serve one wildcard certificate behind one     *)
(* intermediate, a root among the certificates they send, and a chain of      *)
(* their own.                                                                 *)
EXTENDS TLSProbe

Cert(serial, expires, root) ==
    [serial |-> serial, expires |-> expires, root |-> root]

Wildcard == Cert("wildcard", 2, FALSE)
CA       == Cert("ca", 3, FALSE)
OldCA    == Cert("old ca", 1, FALSE)
Root     == Cert("root", 4, TRUE)

MCChains ==
    [i \in Endpoints |->
        IF i = 1 THEN {<<Wildcard, CA, Root>>, <<Wildcard>>}
        ELSE {<<Wildcard, CA>>, <<Cert("own", i, FALSE), OldCA, CA>>}]
=============================================================================
