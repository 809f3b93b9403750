------------------------------- MODULE MCMdnsTx -------------------------------
(* Instances of MdnsTx for TLC. *)
EXTENDS MdnsTx

\* Two instances of one service type.
MCTypeOf == [s \in Services |-> "_http._tcp"]
=============================================================================
