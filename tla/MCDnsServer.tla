---------------------------- MODULE MCDnsServer -----------------------------
(* Instances of DnsServer for TLC. *)
EXTENDS DnsServer

CONSTANTS a, b, c

MCTwoQuestions == {a, b}
MCThreeQuestions == {a, b, c}
\* One second: read one byte late it is Byte seconds, and at the end of the clock
\* its sum with the uptime wraps around.
MCTtls == {1}
=============================================================================
