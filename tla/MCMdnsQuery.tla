------------------------------ MODULE MCMdnsQuery ------------------------------
(* Instances of MdnsQuery for TLC. *)
EXTENDS MdnsQuery
=============================================================================
