----------------------------- MODULE MCSessions ------------------------------
(***************************************************************************)
(* An instance of Sessions for TLC: a tab with two requests in flight and  *)
(* one with a single request.                                              *)
(***************************************************************************)
EXTENDS Sessions

CONSTANTS t1, t2

MCTab == {t1, t2}
MCCall == {<<t1, 1>>, <<t1, 2>>, <<t2, 1>>}

=============================================================================
