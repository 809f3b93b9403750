----------------------------- MODULE MCMdnsExchange -----------------------------
EXTENDS MdnsExchange

MCLong == {"i1", "i2"}

Txt(k, v) == [key |-> k, value |-> v]
Service(inst, type, host, port, txt, subs) ==
    [inst |-> inst, type |-> type, host |-> host, port |-> port, txt |-> txt, subs |-> subs]
Ip(type, ip) == [type |-> type, ip |-> ip]
TwoHosts == [h \in {"h1", "h2"} |-> IF h = "h1" THEN <<Ip("A", "a1"), Ip("AAAA", "s1")>>
                                    ELSE <<Ip("A", "a2")>>]
I1 == Service("i1", "_http", "h1", 80, <<Txt("k", "v")>>, <<"p1">>)
I2 == Service("i2", "_http", "h2", 81, <<Txt("", "v"), Txt("k", "w")>>, <<>>)
Own == Service("", "_http", "h1", 82, <<>>, <<>>)
Printer == Service("i1", "_ipp", "h1", 83, <<Txt("k", "x")>>, <<>>)
Device(services) ==
    [self |-> "h1", delegates |-> <<"h2">>, services |-> services, hosts |-> TwoHosts]

MCResponders == {Device(<<I1, I2>>), Device(<<Printer, I2, I1>>), Device(<<I2, Own>>)}

Bare == [self |-> "h3", delegates |-> <<>>, services |-> <<>>, hosts |-> [h \in {"h3"} |-> <<>>]]
Host == [Bare EXCEPT !.services = <<Service("i3", "_http", "h3", 84, <<>>, <<>>)>>]
MCQueriers == {Bare, Host}

Search(type, inst, svc, max) ==
    [type |-> type, inst |-> inst, svc |-> svc, max |-> max,
     proto |-> IF svc = <<"_services", "_dns-sd">> THEN "_udp" ELSE "_tcp"]
MCQueries ==
    {Search("PTR", "", <<"_http">>, 0), Search("PTR", "", <<"_http">>, 1),
     Search("PTR", "", <<"_services", "_dns-sd">>, 2),
     Search("SRV", "i2", <<"_http">>, 0), Search("TXT", "i2", <<"_http">>, 0),
     Search("ANY", "i2", <<"_http">>, 0), Search("A", "h2", <<>>, 0),
     Search("AAAA", "h1", <<>>, 0), Search("ANY", "h1", <<>>, 0)}
=============================================================================
