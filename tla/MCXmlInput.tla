------------------------------ MODULE MCXmlInput ------------------------------
(* Instances of XmlInput for TLC.                                            *)
EXTENDS XmlInput

Ab == <<"a", "<", "&">>     \* a text with characters to escape
Hi == <<"h">>

Body(text, lang) == [op |-> "body", text |-> text, lang |-> lang]
Thread(text, parent) == [op |-> "thread", text |-> text, parent |-> parent]
Delay(stamp) == [op |-> "delay", from |-> "srv", stamp |-> stamp, text |-> Hi]
Failed(condition, text) == [op |-> "failed", type |-> "cancel", condition |-> condition, text |-> text]
Show(text, seconds) == [op |-> "show", text |-> text, last |-> seconds]
Status(text) == [op |-> "status", text |-> text]
Priority(n) == [op |-> "priority", n |-> n]

MessageCalls ==
    {Body(Ab, ""), Body(Hi, "sv"), Body(<<>>, ""), Thread(Hi, "p"), Thread(<<>>, ""),
     [op |-> "parent", parent |-> "q"], [op |-> "chat", state |-> "active"],
     [op |-> "hint", hint |-> "no-store"], [op |-> "unhint", hint |-> "no-store"],
     [op |-> "hint", hint |-> "no-copy"], Delay("now"), Delay(""), Failed("gone", Hi)}
PresenceCalls ==
    {Show(Hi, 0), Show(<<>>, 3), Show(Ab, 5), Priority(200), Priority(-3), Priority(0),
     Delay("now"), Failed("gone", <<>>)}
IqCalls == {Failed("gone", Ab), Failed("conflict", <<>>), Delay("now")}
ErrorCalls ==
    {[op |-> "name", name |-> "reset", text |-> Hi], [op |-> "app", name |-> "mine", text |-> Ab],
     [op |-> "text", text |-> Hi]}

AllCalls == [message |-> MessageCalls, presence |-> PresenceCalls, iq |-> IqCalls,
             error |-> ErrorCalls]
NoCalls == [message |-> {}]
ChatCalls == [message |-> {[op |-> "chat", state |-> "active"]}]
StatusCalls == [presence |-> {Show(Hi, 0), Status(Ab)}]

OurHeader == StreamXmlObj("to", "from", "en")
(* The stream element with another prefix.                                   *)
OtherHeader == [OurHeader EXCEPT !.xml_namespace = "s", !.namespace_alias = ("s" :> Streams)]
AnyHeader == {OurHeader, OtherHeader, set_part(XmlNode("html", Client), "start")}

Features == add_node(StreamTag("features"), XmlNode("starttls", "urn:ietf:params:xml:ns:xmpp-tls"))
Query == add_node(XmlNode("iq", Client),
                  add_node(XmlNode("query", "jabber:iq:roster"),
                           add_node(XmlObject("item", "", FALSE, TRUE),
                                    set_content(XmlObject("group", "", FALSE, TRUE), Ab))))
(* A prefix that an outer element declares.                                  *)
Prefixed == add_namespace_alias(add_node(XmlObject("iq", "", FALSE, TRUE),
                                         XmlObject("x", "p", FALSE, FALSE)), "p", "urn:p")
(* A prefix that the element itself declares.                                *)
SelfPrefixed == add_namespace_alias(XmlObject("x", "p", FALSE, FALSE), "p", "urn:p")
Forged == set_content(XmlNode("timeout", InternalTimerNs), Hi)
ForgedError == XmlObject("parse-error", InternalErrorNs, TRUE, TRUE)

SomeForeign == {Features, Query, Prefixed, Forged, ForgedError}
SelfForeign == {SelfPrefixed}
NoForeign == {}
OneForeign == {Features}
JunkTokens == {[kind |-> "junk"], [kind |-> "char", char |-> "&"], [kind |-> "end", prefix |-> "", tag |-> "x"]}
SomeInside == {XmlNode("timeout", InternalTimerNs)}
=============================================================================
