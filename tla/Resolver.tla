------------------------------ MODULE Resolver ------------------------------
(****************************************************************************)
(* The addresses a session tries to connect to: get_server_address_list of  *)
(* src/src/uxmpp/Session.cpp over BsdResolver (src/src/uxmpp/io).            *)
(*                                                                          *)
(* A name server is a record: srv maps queries to answers, host maps names  *)
(* to what getaddrinfo returns for them; a query or a name outside the       *)
(* domains is not answered. An SRV answer is a sequence of records of any    *)
(* type, "bad" being one that dn_expand cannot read. Ports are 16 bit        *)
(* numbers, in host byte order in an answer and in the configuration, and in *)
(* network byte order in an address.                                        *)
(****************************************************************************)
EXTENDS Integers, Sequences, SequencesExt

(* Host and network byte order of a port, on a little-endian machine.       *)
Htons(port) == (port % 256) * 256 + port \div 256

(* The elements of a list that are in a set, in their order.                *)
Only(s, S) ==
    LET only[n \in 0..Len(s)] ==
            IF n = 0 THEN <<>>
            ELSE IF s[n] \in S THEN Append(only[n - 1], s[n]) ELSE only[n - 1]
    IN only[Len(s)]

(* do_srv_query: the SRV records that precede the first unreadable record.  *)
DoSrvQuery(dns, query) ==
    LET answer == IF query \in DOMAIN dns.srv THEN dns.srv[query] ELSE <<>>
        bad    == SelectInSeq(answer, LAMBDA r : r.type = "bad")
    IN Only(IF bad = 0 THEN answer ELSE SubSeq(answer, 1, bad - 1),
            {r \in ToSet(answer) : r.type = "SRV"})

(* do_host_query: the addresses of the two families it knows.               *)
DoHostQuery(dns, name) ==
    IF name \in DOMAIN dns.host
    THEN Only(dns.host[name], {a \in ToSet(dns.host[name]) : a.type \in {"ipv4", "ipv6"}})
    ELSE <<>>

(* Bug: among records of one priority, the lightest first.                  *)
BugBefore(r1, r2) ==
    IF r1.prio # r2.prio THEN r1.prio < r2.prio ELSE r1.weight < r2.weight

(* The order of std::sort in lookup_srv.                                    *)
Before(r1, r2) ==
    IF r1.prio # r2.prio THEN r1.prio < r2.prio ELSE r1.weight > r2.weight

(* std::sort is not stable: any sorted permutation may be the result.       *)
Sorted(records) ==
    LET positions == DOMAIN records
        orders    == {[i \in positions |-> records[p[i]]] :
                        p \in {p \in [positions -> positions] :
                                 \A i, j \in positions : p[i] = p[j] => i = j}}
    IN {s \in orders : \A i, j \in positions : i < j => ~Before(s[j], s[i])}

Address(name, proto, port, a) ==
    [hostname |-> name, proto |-> proto, port |-> Htons(port),
     type |-> a.type, ip |-> a.ip]

LookupHost(dns, name, port, proto) ==
    LET found == DoHostQuery(dns, name)
    IN [i \in DOMAIN found |-> Address(name, proto, port, found[i])]

(* The results lookup_srv may have.                                         *)
LookupSrv(dns, domain, proto, service, fallback) ==
    LET all     == DoSrvQuery(dns, <<service, proto, domain>>)
        records == IF Len(all) = 1 /\ all[1].target = "." THEN <<>> ELSE all
        Targets(s) == [i \in DOMAIN s |->
                         LookupHost(dns, s[i].target, s[i].port, proto)]
    IN IF records = <<>> /\ fallback
       THEN {LookupHost(dns, domain,
                        IF service = "xmpp-client" THEN 5222 ELSE 5269, proto)}
       ELSE {FlattenSeq(Targets(s)) : s \in Sorted(records)}

Server(cfg) == IF cfg.server = "" THEN cfg.domain ELSE cfg.server

(* The protocols an SRV query is made for, in order.                        *)
ProtocolsToTest(cfg) ==
    IF cfg.disable_srv THEN <<>>
    ELSE IF cfg.protocol = "any" THEN <<"tcp", "udp", "tls", "dtls">>
    ELSE <<cfg.protocol>>

SrvLists(cfg, dns, proto) == LookupSrv(dns, Server(cfg), proto, "xmpp-client", FALSE)

(* Those for which the query gives addresses.                               *)
Answered(cfg, dns) ==
    Only(ProtocolsToTest(cfg),
         {p \in ToSet(ProtocolsToTest(cfg)) : <<>> \notin SrvLists(cfg, dns, p)})

(* The results get_server_address_list may have.                            *)
ServerAddressLists(cfg, dns) ==
    IF Answered(cfg, dns) # <<>>
    THEN SrvLists(cfg, dns, Head(Answered(cfg, dns)))
    ELSE {LookupHost(dns, Server(cfg),
                     IF cfg.port = 0 THEN 5222 ELSE cfg.port,
                     IF cfg.protocol = "any" THEN "tcp" ELSE cfg.protocol)}

(* The port a configuration imposes on every address.                       *)
WithPort(cfg, addr) ==
    IF cfg.port = 0 THEN addr ELSE [addr EXCEPT !.port = Htons(cfg.port)]
=============================================================================
