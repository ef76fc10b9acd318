---------------------------- MODULE MCSnmpClient ----------------------------
(* A small instance of SnmpClient: the values of the parameter retry.      *)
EXTENDS SnmpClient

\* Not given, negative, none and one; the default is 0.
SomeRetries == {None, -1, 0, 1}
=============================================================================
