---------------------------- MODULE MCThreadPool ----------------------------
(* Instances of ThreadPool for TLC. *)
EXTENDS ThreadPool

\* Eight ports: the second thread's is 0, the third's the listener's; the
\* first one's may be somebody else's.
OtherPorts == {7}
=============================================================================
