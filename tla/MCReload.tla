------------------------------ MODULE MCReload ------------------------------
(* Three versions of a config: a wildcard and a name under it, then that name *)
(* with an OCSP response, then no [tls] section.                              *)
EXTENDS Reload

Name(labels) == [labels |-> labels, upper |-> FALSE]
Shouted(labels) == [labels |-> labels, upper |-> TRUE]
Entry(sni, ocsp) == [sni |-> sni, cert |-> "crt", key |-> "key", ocsp |-> ocsp]

MCCertSpecs ==
  [v \in 0..MaxVersion |->
     CASE v = 0 -> <<Entry(Shouted(<<"*", "b">>), <<>>), Entry(Name(<<"a", "b">>), <<>>)>>
       [] v = 1 -> <<Entry(Name(<<"a", "b">>), <<"ocsp">>)>>
       [] OTHER -> <<>>]

MCNames ==
  {Name(<<"a", "b">>), Shouted(<<"a", "b">>), Name(<<"c", "b">>), Name(<<"x", "a", "b">>),
   Name(<<"b">>), Name(<<>>)}
=============================================================================
