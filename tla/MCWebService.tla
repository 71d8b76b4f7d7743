---------------------------- MODULE MCWebService ----------------------------
(***************************************************************************)
(* A small WebService: one server, two connections, a request of each      *)
(* shape of handler.                                                       *)
(***************************************************************************)
EXTENDS WebService

Plain(a) == [api |-> a, data |-> "none", provider |-> "maa", decode |-> FALSE]

MCRequests ==
  {Plain(a) : a \in {"diagnose", "cvm", "verify", "platform"}}
  \cup {[Plain("cvm") EXCEPT !.data = d] : d \in {"longB", "odd"}}
  \cup {[Plain("guest") EXCEPT !.decode = TRUE], [Plain("teeattest") EXCEPT !.decode = TRUE]}
=============================================================================
