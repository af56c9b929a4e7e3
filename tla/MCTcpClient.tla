---------------------------- MODULE MCTcpClient ----------------------------
(* Cases for TLC.  A Stop of the caller and one of the timer overlap when  *)
(* there is no keep-alive timeout, since Discover then ends with a Stop.   *)
EXTENDS TcpClient

Case(k, s) == [kato |-> k, stop |-> s]
MCSession == {Case(TRUE, {}), Case(FALSE, {}), Case(FALSE, {"timer"})}
MCStop == {Case(TRUE, {"main"}), Case(TRUE, {"timer"}), Case(FALSE, {"timer"})}
============================================================================
