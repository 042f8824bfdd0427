------------------------------ MODULE MCSession ------------------------------
(* Session for TLC: transactions with one write, ended both ways or begun     *)
(* twice, and lines outside a transaction.                                    *)
EXTENDS Session

MCScripts ==
  {<<"begin", "write", "commit">>, <<"begin", "write", "abort">>,
   <<"begin", "begin", "commit">>, <<"write", "commit">>}
==============================================================================
