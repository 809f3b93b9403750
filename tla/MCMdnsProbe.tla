----------------------------- MODULE MCMdnsProbe -----------------------------
EXTENDS MdnsProbe
MCDevices == 1 .. 2
=============================================================================
