------------------------------ MODULE MCMarket ------------------------------
(* Market with two servers that may list the same tool.                     *)
EXTENDS Market

TwoServers == <<"s1", "s2">>
=============================================================================
