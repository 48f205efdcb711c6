------------------------------ MODULE MCModules ------------------------------
(* Instances of Modules for TLC.                                            *)
EXTENDS Modules

(* What an application that sends messages registers.                        *)
TextSetups == {<<"core", "message">>}

(* What applications register: each one the modules that could take each     *)
(* other's answers, or meet in the same session.                             *)
AllSetups == {<<"core", "message", "register", "search">>, <<"core", "vcard", "private">>,
              <<"core", "ping", "presence", "version">>, <<"core", "session", "disco">>,
              <<"core", "keepalive">>, <<"core", "message", "roster">>} \cup TextSetups

(* A bare JID and a resource of it.                                          *)
Bare  == <<"a", "@", "d", "e">>
BareAndFull == {Bare, Bare \o <<"/", "r">>}

(* A JID without "@", as that of a gateway, and a resource of it.            *)
OfDomain == {<<"d", "e">>, <<"d", "e", "/", "r">>}

(* "bind", "session" and "disco" are asked by the modules themselves;         *)
(* "unregister" and "password" are as "register", "announce" and             *)
(* "subscription" as "probe".                                               *)
AllKinds == Kind \ {"bind", "session", "disco", "unregister", "password",
                    "announce", "subscription"}
Again == {"info", "fields", "private_get", "version"}

GivenIds == [k \in Kinds("private") |-> IF k = "private_get" THEN {PushId + 1} ELSE {}]

Told(tag, query, from) ==
    [tag |-> tag, type |-> "none", id |-> 0, query |-> query, from |-> from,
     items |-> <<>>, re |-> "none", of |-> 0]

Asked(type, query, from, items) ==
    [tag |-> "iq", type |-> type, id |-> PushId + 2, query |-> query, from |-> from,
     items |-> items, re |-> "none", of |-> 0]

(* A session without SessionModule and DiscoModule is asked with an id, one    *)
(* with them also without.                                                  *)
PeerAny == [mod \in Module |->
    CASE mod = "ping"    -> {Asked("get", "ping", "none", <<>>)}
      [] mod = "version" -> {Asked("get", "version", "none", <<>>)}
      [] mod = "roster"  -> {Asked("set", "roster", "other", <<[jid |-> "a", sub |-> "both"]>>)}
      [] mod = "vcard"   -> {Asked("set", "none", "none", <<>>)}
      [] mod = "message" -> {Told("message", query, "a") : query \in {"request", "received"}}
      [] mod = "disco"   -> {[Asked("get", "none", "none", <<>>) EXCEPT !.id = id] :
                                id \in {0, PushId + 2}}
      [] mod = "presence" -> {Told("presence", "none", "a")}
      [] OTHER           -> {}]

FewRosters == {{"a"}}
=============================================================================
