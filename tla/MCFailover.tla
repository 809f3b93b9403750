----------------------------- MODULE MCFailover -----------------------------
(* Instances of Failover for TLC. *)
EXTENDS Failover

\* Every mode, with and without a stored network, with DHCP or a fixed address.
MCAllConfigs == [net_mode : NetModes, ssid : BOOLEAN, dhcp : BOOLEAN]

MCAllSites == [w5500 : Chips, dhcpServer : BOOLEAN]
=============================================================================
