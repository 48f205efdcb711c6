------------------------------ MODULE MCConnect ------------------------------
(* Instances of Connect for TLC.                                            *)
EXTENDS Connect

Srv(prio, weight, port, target) ==
    [type |-> "SRV", prio |-> prio, weight |-> weight, port |-> port, target |-> target]
Unreadable == [type |-> "bad"]
Cname      == [type |-> "CNAME"]

V4(n) == [type |-> "ipv4", ip |-> n]
V6(n) == [type |-> "ipv6", ip |-> n]
Hosts == [h \in {"dom", "a", "b"} |->
            CASE h = "dom" -> <<V4(1)>>
              [] h = "a"   -> <<V6(2), [type |-> "unix", ip |-> 0]>>
              [] h = "b"   -> <<V4(3)>>]

Query(proto) == <<"xmpp-client", proto, "dom">>
Answer(proto, records) == [q \in {Query(proto)} |-> records]

Cfg(port, protocol, disable_srv) ==
    [domain |-> "dom", server |-> "", port |-> port, protocol |-> protocol,
     disable_srv |-> disable_srv]
World(cfg, srv) == [cfg |-> cfg, dns |-> [srv |-> srv, host |-> Hosts]]

(* Two weights of one priority; priorities against weights, with records     *)
(* that are not SRV or not readable; an answer for a later protocol only; no  *)
(* service; a server that cannot be resolved.                                *)
AllWorlds ==
    {World(Cfg(0, "tcp", FALSE), Answer("tcp", <<Srv(1, 1, 5222, "a"), Srv(1, 2, 443, "b")>>)),
     World(Cfg(80, "tcp", FALSE),
           Answer("tcp", <<Srv(2, 9, 5222, "b"), Cname, Srv(1, 0, 443, "a"), Unreadable,
                           Srv(0, 0, 1, "b")>>)),
     World(Cfg(0, "any", FALSE), Answer("tls", <<Srv(1, 1, 5223, "a")>>)),
     World(Cfg(0, "tcp", FALSE), Answer("tcp", <<Srv(1, 1, 5222, ".")>>)),
     World(Cfg(0, "udp", TRUE), Answer("udp", <<Srv(1, 1, 5222, "a")>>)),
     World([Cfg(0, "any", FALSE) EXCEPT !.server = "nowhere"], Answer("tcp", <<>>))}

OneWorld == {World(Cfg(0, "tcp", TRUE), Answer("tcp", <<>>))}
TwoAddresses ==
    {World(Cfg(0, "tcp", FALSE), Answer("tcp", <<Srv(1, 1, 5222, "a"), Srv(1, 2, 443, "b")>>))}

Unbound == {[type |-> "ipv4", ip |-> 0, port |-> 0]}
Bound   == Unbound \cup {[type |-> "any", ip |-> 0, port |-> 7]}
=============================================================================
