-------------------------------- MODULE Stanza --------------------------------
(* Stanza, IqStanza, MessageStanza, PresenceStanza, StanzaError, StreamError  *)
(* and StreamXmlObj: an XmlObject each, built and read by the operations of   *)
(* its class. A setter returns the object it changes; its name says whose it  *)
(* is where two classes have one of that name.                                *)
EXTENDS XmlObject, Integers

Client  == "jabber:client"
Streams == "http://etherx.jabber.org/streams"
StreamErrorNs == "urn:ietf:params:xml:ns:xmpp-streams"
StanzaErrorNs == "urn:ietf:params:xml:ns:xmpp-stanzas"
InternalErrorNs == "http://ultramarin.se/uxmpp#internal-error"
InternalTimerNs == "http://ultramarin.se/uxmpp#internal-timer"
DelayNs == "urn:xmpp:delay"
HintsNs == "urn:xmpp:hints"
LastNs  == "jabber:iq:last"
ChatStateNs == "http://jabber.org/protocol/chatstates"

(* A child in the namespace of its stanza, written without an xmlns of its   *)
(* own.                                                                      *)
ClientNode(tag) == XmlObject(tag, Client, FALSE, TRUE)

-----------------------------------------------------------------------------
(* Stanza.                                                                   *)

(* An empty Jid has an empty string, and sets nothing.                       *)
set_to(o, jid) == IF jid = "" THEN o ELSE set_attribute(o, "to", jid)
set_from(o, jid) == IF jid = "" THEN o ELSE set_attribute(o, "from", jid)
set_id(o, id) == set_attribute(o, "id", id)
set_type(o, type) == set_attribute(o, "type", type)

(* "Set a random ID if none is provided" (Stanza.cpp:45): make_id().          *)
Stanza(tag, to, from, id) ==
    set_id(set_from(set_to(ClientNode(tag), to), from), IF id = "" THEN "uuid" ELSE id)

IsError(n) == get_full_name(n) = <<Client, "error">>
have_error(o) == get_attribute(o, "type") = "error"
get_error(o) == Found(o, IsError)
BugSetError(o, error) == add_node(o, error)
set_error(o, error) == LET Change(n) == error IN AddOrChange(o, IsError, Change, error)

IsDelay(n) == get_full_name(n) = <<DelayNs, "delay">>
set_delay(o, from, stamp, reason) ==
    LET Stamped(n) ==
            set_content(set_attribute(set_attribute(n, "from", from), "stamp", stamp), reason)
    IN  IF stamp = "" THEN EraseNodes(o, IsDelay)
        ELSE AddOrChange(o, IsDelay, Stamped, Stamped(XmlNode("delay", DelayNs)))
get_delay(o) ==
    LET delay == find_full_node(o, <<DelayNs, "delay">>)
    IN  [from |-> get_attribute(delay, "from"), stamp |-> get_attribute(delay, "stamp"),
         reason |-> delay.content]

-----------------------------------------------------------------------------
(* StanzaError.                                                              *)

IsCondition(n) == n.xml_namespace = StanzaErrorNs /\ n.tag_name # "text"
IsErrorText(n) == get_full_name(n) = <<StanzaErrorNs, "text">>

get_condition(e) == Found(e, IsCondition).tag_name
set_condition(e, condition) ==
    LET Change(n) == set_tag_name(n, condition)
    IN  AddOrChange(e, IsCondition, Change, XmlNode(condition, StanzaErrorNs))
get_error_text(e) == Found(e, IsErrorText).content
set_error_text(e, text) ==
    LET Change(n) == set_content(n, text)
    IN  AddOrChange(e, IsErrorText, Change, Change(XmlNode("text", StanzaErrorNs)))

StanzaError(type, condition, text) ==
    LET e == set_condition(set_type(ClientNode("error"), type), condition)
    IN  IF text = <<>> THEN e ELSE set_error_text(e, text)

-----------------------------------------------------------------------------
(* IqStanza: every type that is not one of three is "error".                 *)

IqType(type) == IF type \in {"get", "set", "result"} THEN type ELSE "error"
IqStanza(type, to, from, id) == set_type(Stanza("iq", to, from, id), IqType(type))
get_iq_type(o) == IqType(get_attribute(o, "type"))

-----------------------------------------------------------------------------
(* MessageStanza.                                                            *)

MessageType(type) ==
    IF type \in {"chat", "error", "groupchat", "headline"} THEN type ELSE "normal"
get_message_type(o) == MessageType(get_attribute(o, "type"))

IsThread(n) == n.tag_name = "thread"
Parented(n, parent) == IF parent = "" THEN remove_attribute(n, "parent")
                       ELSE set_attribute(n, "parent", parent)
set_thread(o, thread, parent) ==
    LET Change(n) == Parented(set_content(n, thread), parent)
    IN  IF thread = <<>> THEN EraseFirst(o, IsThread)
        ELSE AddOrChange(o, IsThread, Change, Change(ClientNode("thread")))
set_parent_thread(o, parent) ==
    LET i == SelectInSeq(o.nodes, IsThread)
    IN  IF i = 0 THEN o ELSE [o EXCEPT !.nodes[i] = Parented(o.nodes[i], parent)]
get_thread(o) == find_node(o, "thread").content
get_parent_thread(o) == get_attribute(find_node(o, "thread"), "parent")

(* Does a body or status with node_lang answer a question for lang, in a      *)
(* stanza whose own language is configured?                                   *)
LangFits(node, lang, configured) ==
    LET node_lang == get_attribute(node, "xml:lang")
    IN  IF lang = "" THEN node_lang \in {"", configured}
        ELSE node_lang = lang \/ (node_lang = "" /\ lang = configured)

TextFor(o, tag, lang) ==
    LET Is(n) == n.tag_name = tag /\ LangFits(n, lang, get_attribute(o, "xml:lang"))
    IN  Found(o, Is).content

(* The text of a node and its language, which the language of the stanza     *)
(* makes superfluous.                                                        *)
Worded(o, node, text, lang) ==
    set_content(IF lang \in {"", get_attribute(o, "xml:lang")}
                THEN remove_attribute(node, "xml:lang")
                ELSE set_attribute(node, "xml:lang", lang), text)

IsBody(n) == n.tag_name = "body"
get_body(o, lang) == TextFor(o, "body", lang)

(* The first body, in whatever language, is overwritten.                     *)
set_body(o, body, lang) ==
    LET Change(n) == Worded(o, n, body, lang)
    IN  IF body = <<>> THEN EraseNodes(o, IsBody)
        ELSE OnlyOne(o, IsBody, Change, Change(ClientNode("body")))

IsChatState(n) == n.xml_namespace = ChatStateNs
ChatState(name) ==
    IF name \in {"active", "composing", "paused", "inactive", "gone"} THEN name ELSE ""
get_chat_state(o) == ChatState(find_node_by_namespace(o, ChatStateNs).tag_name)

(* ChatState::none is the empty name: a node that to_string does not write.   *)
set_chat_state(o, state) ==
    LET Change(n) == set_tag_name(n, state)
    IN  AddOrChange(o, IsChatState, Change, XmlNode(state, ChatStateNs))

(* The constructor leaves the type out when it is normal.                    *)
MessageStanza(to, from, body, type, state, id, lang) ==
    LET bare  == Stanza("message", to, from, id)
        typed == IF type = "normal" THEN bare ELSE set_type(bare, MessageType(type))
    IN  set_body(set_chat_state(typed, state), body, lang)

(* no_permanent_storage, no_store, no_copy.                                   *)
Hint == {"no-permanent-storage", "no-store", "no-copy"}
get_hint(o, hint) == Valid(find_full_node(o, <<HintsNs, hint>>))
set_hint(o, hint) == IF get_hint(o, hint) THEN o ELSE add_node(o, XmlNode(hint, HintsNs))

(* The loop that removes a hint erases inside "for (...; ++i)": it steps over *)
(* the end when the hint is the last node, which C++ leaves undefined. (Of two *)
(* equal hints in a row it leaves one, but set_hint never makes two.)         *)
UnsetIsDefined(o, hint) ==
    o.nodes = <<>> \/ get_full_name(Last(o.nodes)) # <<HintsNs, hint>>
unset_hint(o, hint) ==
    LET Is(n) == get_full_name(n) = <<HintsNs, hint>> IN EraseNodes(o, Is)

-----------------------------------------------------------------------------
(* PresenceStanza.                                                           *)

(* std::to_string and stoi of a number: one symbol of a content.             *)
Digits(n) == <<ToString(n)>>
Number(text) ==
    LET Is(n) == Digits(n) = text
    IN  IF text # <<>> /\ \E n \in -128..127 : Is(n) THEN CHOOSE n \in -128..127 : Is(n) ELSE 0

IsShow(n) == n.tag_name = "show"
IsLast(n) == get_full_name(n) = <<LastNs, "query">>
LastQuery(n, seconds) == set_attribute(n, "seconds", ToString(seconds))
PresenceStanza(to, from, last_active, id) ==
    LET bare == Stanza("presence", to, from, id)
    IN  IF last_active = 0 THEN bare
        ELSE add_node(bare, LastQuery(XmlNode("query", LastNs), last_active))

(* One loop over the nodes changes both kinds; what is missing is added after *)
(* it, the show element first.                                               *)
set_show(o, show, last_active) ==
    LET Shown(n)  == set_content(n, show)
        Active(n) == LastQuery(n, last_active)
        shown == IF show = <<>> THEN EraseNodes(o, IsShow)
                 ELSE OnlyOne(o, IsShow, Shown, Shown(ClientNode("show")))
        all == [i \in DOMAIN shown.nodes |->
                    IF IsLast(shown.nodes[i]) THEN Active(shown.nodes[i]) ELSE shown.nodes[i]]
    IN  IF last_active = 0 THEN EraseNodes(shown, IsLast)
        ELSE IF \E i \in DOMAIN all : IsLast(all[i]) THEN [shown EXCEPT !.nodes = all]
        ELSE add_node(shown, Active(XmlNode("query", LastNs)))
get_show(o) == find_node(o, "show").content
get_last_active(o) == get_attribute(find_full_node(o, <<LastNs, "query">>), "seconds")

get_status(o, lang) == TextFor(o, "status", lang)

(* The loop passes over the status elements and looks at the languages of all *)
(* the others: the first of them that fits is overwritten, or every one of    *)
(* them that fits is removed.                                                 *)
set_status(o, status, lang) ==
    LET Is(n) == n.tag_name # "status" /\ LangFits(n, lang, get_attribute(o, "xml:lang"))
        Change(n) == set_content(n, status)
    IN  IF status = <<>> THEN EraseNodes(o, Is)
        ELSE AddOrChange(o, Is, Change, Worded(o, ClientNode("status"), status, lang))

Clamp(n) == IF n > 127 THEN 127 ELSE IF n < -128 THEN -128 ELSE n
IsPriority(n) == n.tag_name = "priority"
get_priority(o) == Number(find_node(o, "priority").content)
set_priority(o, prio) ==
    LET Change(n) == set_content(n, Digits(Clamp(prio)))
    IN  IF Clamp(prio) = 0 THEN EraseFirst(o, IsPriority)
        ELSE AddOrChange(o, IsPriority, Change, Change(ClientNode("priority")))

-----------------------------------------------------------------------------
(* StreamError and StreamXmlObj: objects written with the prefix "stream".   *)

StreamTag(tag) == XmlObject(tag, "stream", FALSE, FALSE)
StreamError == StreamTag("error")

(* StreamError (XmlObject&): the nodes and the content of what was received. *)
ReadStreamError(o) == [StreamError EXCEPT !.nodes = o.nodes, !.content = o.content]
set_error_name(e, name) ==
    [e EXCEPT !.nodes = IF name = "" THEN <<>> ELSE <<XmlNode(name, StreamErrorNs)>>]
get_error_name(e) == IF e.nodes = <<>> THEN "" ELSE e.nodes[1].tag_name
get_error_content(e) == IF e.nodes = <<>> THEN <<>> ELSE e.nodes[1].content
set_error_content(e, text) ==
    IF e.nodes = <<>> THEN e ELSE [e EXCEPT !.nodes[1] = set_content(e.nodes[1], text)]

IsText(n) == n.tag_name = "text"
get_text(e) == Found(e, IsText).content
set_text(e, text) ==
    LET Change(n) == set_content(n, text)
    IN  AddOrChange(e, IsText, Change, Change(XmlNode("text", StreamErrorNs)))
set_app_error(e, app_error, text) ==
    set_text(add_node(set_error_name(e, "undefined-condition"),
                      XmlNode(app_error, InternalErrorNs)), text)
get_app_error(e) ==
    LET Is(n) == ~IsText(n)
    IN  IF Len(e.nodes) < 2 THEN "" ELSE Found([e EXCEPT !.nodes = Tail(e.nodes)], Is).tag_name

StreamXmlObj(to, from, lang) ==
    LET bare == add_namespace_alias(StreamTag("stream"), "stream", Streams)
        attrs == ("version" :> "1.0") @@ ("xml:lang" :> lang) @@ ("to" :> to) @@ ("from" :> from)
    IN  [bare EXCEPT !.default_namespace = Client, !.part = "start", !.attributes = attrs]
=============================================================================
