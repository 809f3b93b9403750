--------------------------- MODULE MCConfigStore ----------------------------
(* Instances of ConfigStore for TLC: two names that the probe may choose and  *)
(* one that a user types, two addresses, and a flash that is empty, holds the *)
(* settings of an earlier version, or a saved configuration.                  *)
EXTENDS ConfigStore, TLC

CONSTANTS u1, u2, ip1, ip2, none

MCProbed == {"faroldns1", "faroldns2"}
MCChosen == {"faroldns-teste"}
MCFirstStores ==
    {Absent,
     [version |-> "other", host |-> "faroldns2", dhcp |-> "off", ip |-> ip2, user |-> u2],
     [version |-> Current, host |-> "faroldns2", dhcp |-> "on", ip |-> none, user |-> u2]}
\* The whole form, with DHCP or with a fixed address; only one field.
MCPosts ==
    [host : MCChosen, dhcp : {"on", "off"}, ip : {ip2}, user : {u1}]
      \cup [host : {Unsent}, dhcp : {Unsent}, ip : {Unsent}, user : {u1, u2}]
=============================================================================
