------------------------------ MODULE MCAccounting ------------------------------
(* Accounting for TLC.  The code's gap is ten minutes and its slack is one    *)
(* minute; here each is one tick.                                             *)
EXTENDS Accounting
===============================================================================
