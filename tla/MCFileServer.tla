---------------------------- MODULE MCFileServer ----------------------------
(* Three clients that name the same file: one uploads it, the others make  *)
(* any requests.                                                           *)
EXTENDS FileServer

CONSTANTS c1, f
AnyVerbs == {v \in [Clients -> {"GET", "PUT", "DELETE", "LIST"}] : v[c1] = "PUT"}
OneName == [c \in Clients |-> f]
=============================================================================
