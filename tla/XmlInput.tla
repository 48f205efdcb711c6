------------------------------- MODULE XmlInput -------------------------------
(* XmlInputStream: from the bytes of a connection to the objects of a stream. *)
(*                                                                           *)
(* A peer writes a stream header, stanzas and the end of the stream; the      *)
(* worker thread of the connection manager hands what arrives to XML_Parse in *)
(* pieces (operator<<), whose handlers build the objects and hand them to     *)
(* rx_func. The mutex is held during XML_Parse, but released around rx_func   *)
(* and err_func; other threads insert objects of their own meanwhile          *)
(* (operator<< of an XmlObject) or reset the stream.                          *)
(*                                                                           *)
(* Expat is modelled by the calls it makes: it keeps the open tags, calls the *)
(* handlers for start tags, end tags and (decoded) characters, and fails for   *)
(* text that is not well-formed. Two terms name its inputs: what a peer of     *)
(* this library says (Calls: the objects its operations build in up to MaxCall *)
(* calls), and what other software says (Foreign).                            *)
EXTENDS XmlText

CONSTANTS
    Calls,          \* of each kind of stanza, the calls of its operations
    MaxCall,        \* calls made on a stanza before it is sent
    Headers,        \* stream headers and other root elements
    Foreign,        \* objects other software writes
    Junk,           \* tokens that are not XML
    Inside,         \* objects the program inserts
    MaxSay,         \* what the peer says between two resets
    MaxInsert, MaxReset,
    Overlap         \* may reset() get the mutex while XML_Parse is in a handler?

VARIABLES
    parse_data,     \* XmlParseData and what expat remembers
    worker,         \* the thread in operator<<
    wire,           \* tokens that were sent and not parsed yet
    said,           \* what the peer said since the last reset
    peer,           \* how far its document is
    heard,          \* the objects handed to rx_func since the last reset
    count,          \* objects inserted, resets made
    crashed         \* the parser was used after it was freed

vars == <<parse_data, worker, wire, said, peer, heard, count, crashed>>

TopNode == XmlObject("stream", Streams, FALSE, FALSE)

-----------------------------------------------------------------------------
(* Namespaces: the parser has none (XML_ParserCreate), the handlers look them *)
(* up.                                                                       *)

NewParser ==
    [handler |-> "stream", error |-> FALSE, top_element_found |-> FALSE,
     element_stack |-> <<>>, default_namespace |-> "", namespace_aliases |-> NoEntry,
     open |-> <<>>, root_seen |-> FALSE]

(* parse_xml_attributes for an object that has its name.                      *)
parse_xml_attributes(t, o) ==
    LET ns == IF o.xml_namespace = "" THEN t.xmlns ELSE o.xml_namespace
        named == IF t.xmlns = "" THEN o
                 ELSE [o EXCEPT !.default_namespace = t.xmlns, !.xml_namespace = ns,
                                !.namespace_is_default = t.xmlns = ns]
    IN  [named EXCEPT !.attributes = t.attrs]

BugDefaultNamespace(pd) == pd.default_namespace

(* The innermost default namespace of the open elements.                     *)
DefaultNamespace(pd) ==
    LET Has(e) == e.default_namespace # ""
        i == SelectInSeq(pd.element_stack, Has)
    IN  IF i = 0 THEN pd.default_namespace ELSE pd.element_stack[i].default_namespace

AliasValue(pd, alias) ==
    LET Has(e) == Get(e.namespace_aliases, alias) # ""
        i == SelectInSeq(pd.element_stack, Has)
    IN  Get(IF i = 0 THEN pd.namespace_aliases ELSE pd.element_stack[i].namespace_aliases, alias)

(* The element is not on the stack yet: it sees the declarations of the       *)
(* elements around it, and of its own only what parse_xml_attributes did.      *)
normalize_namespace(pd, o) ==
    LET ns == o.xml_namespace
        dflt == DefaultNamespace(pd)
        alias_value == AliasValue(pd, ns)
    IN  CASE ns = "" /\ dflt = "" -> o
          [] ns = "" /\ dflt # "" -> set_namespace(o, dflt, TRUE)
          [] ns # "" /\ alias_value = "" -> o
          [] ns # "" /\ alias_value # "" ->
                set_namespace(o, alias_value, o.namespace_is_default
                                              \/ (dflt # "" /\ dflt = o.default_namespace))

(* parse_xml_tag_name splits the name at its last colon.                     *)
Named(t) == XmlObject(t.tag, t.prefix, FALSE, FALSE)

-----------------------------------------------------------------------------
(* The handlers: what they make of parse_data, and the object they hand to    *)
(* rx_func, if any.                                                          *)

Result(pd, obj) == [pd |-> pd, obj |-> obj]

(* For as long as no stream element was found, every start tag comes here.    *)
start_stream_element(pd, t) ==
    LET scoped == [pd EXCEPT !.default_namespace = t.xmlns, !.namespace_aliases = t.alias]
        o == normalize_namespace(scoped, parse_xml_attributes(t, Named(t)))
        full_name == <<o.xml_namespace, o.tag_name>>
    IN  IF get_full_name(TopNode) # full_name THEN Result(scoped, NoObject)
        ELSE Result([scoped EXCEPT !.handler = "node", !.top_element_found = TRUE],
                    set_part(o, "start"))

start_xml_node(pd, t) ==
    LET o == normalize_namespace(pd, parse_xml_attributes(t, Named(t)))
        element == [xml_obj |-> o, default_namespace |-> t.xmlns, namespace_aliases |-> t.alias]
    IN  Result([pd EXCEPT !.element_stack = <<element>> \o pd.element_stack], NoObject)

BugEndXmlNode(pd) ==
    IF pd.element_stack = <<>>
    THEN Result([pd EXCEPT !.handler = "stream", !.top_element_found = FALSE],
                set_part(TopNode, "end"))
    ELSE LET o == Head(pd.element_stack).xml_obj
             rest == [pd EXCEPT !.element_stack = Tail(pd.element_stack)]
         IN  IF rest.element_stack = <<>> THEN Result(rest, o)
             ELSE Result([rest EXCEPT !.element_stack[1].xml_obj =
                              add_node(rest.element_stack[1].xml_obj, o)], NoObject)

BugEndNoPop(pd) ==
    IF pd.element_stack = <<>>
    THEN Result([pd EXCEPT !.handler = "stream", !.top_element_found = FALSE],
                set_part(TopNode, "end"))
    ELSE Result(pd, IF Len(pd.element_stack) = 1 THEN Head(pd.element_stack).xml_obj ELSE NoObject)

(* The end of the stream, of an object of the stream, or of a node of one.    *)
(* Internal namespaces "are only allowed from internal sources"               *)
(* (XmlInputStream.cpp:321-326).                                             *)
end_xml_node(pd) ==
    IF pd.element_stack = <<>>
    THEN IF pd.top_element_found
         THEN Result([pd EXCEPT !.handler = "stream", !.top_element_found = FALSE],
                     set_part(TopNode, "end"))
         ELSE Result(pd, NoObject)
    ELSE LET o == Head(pd.element_stack).xml_obj
             rest == [pd EXCEPT !.element_stack = Tail(pd.element_stack)]
         IN  IF rest.element_stack = <<>>
             THEN Result(rest, IF o.xml_namespace \in {InternalErrorNs, InternalTimerNs}
                               THEN NoObject ELSE o)
             ELSE Result([rest EXCEPT !.element_stack[1].xml_obj =
                              add_node(rest.element_stack[1].xml_obj, o)], NoObject)

(* Expat has decoded the character.                                          *)
xml_character_data(pd, char) ==
    IF pd.element_stack = <<>> THEN Result(pd, NoObject)
    ELSE Result([pd EXCEPT !.element_stack[1].xml_obj.content = Append(@, char)], NoObject)

-----------------------------------------------------------------------------
(* Expat.                                                                    *)

Decoded(char) ==
    IF \E c \in DOMAIN EscapeOf : EscapeOf[c] = char
    THEN CHOOSE c \in DOMAIN EscapeOf : EscapeOf[c] = char ELSE char

Name(t) == <<t.prefix, t.tag>>

WellFormed(pd, t) ==
    /\ ~pd.error
    /\ \/ t.kind = "start" /\ (pd.open # <<>> \/ ~pd.root_seen)
       \/ t.kind = "end" /\ pd.open # <<>> /\ Head(pd.open) = Name(t)
       \/ t.kind = "char" /\ pd.open # <<>> /\ t.char \notin {"&", "<"}

(* The handler of one well-formed token, and the open tags after it. No        *)
(* handler for end tags and characters is set before the stream element.       *)
Handled(pd, t) ==
    CASE t.kind = "start" ->
            LET p == [pd EXCEPT !.open = <<Name(t)>> \o pd.open, !.root_seen = TRUE]
            IN  IF pd.handler = "stream" THEN start_stream_element(p, t)
                ELSE start_xml_node(p, t)
      [] t.kind = "end" ->
            LET p == [pd EXCEPT !.open = Tail(pd.open)]
            IN  IF pd.handler = "stream" THEN Result(p, NoObject) ELSE end_xml_node(p)
      [] t.kind = "char" -> xml_character_data(pd, Decoded(t.char))
-----------------------------------------------------------------------------
(* The worker. "parsing" holds the mutex; in "handler", "relock" and "error"   *)
(* it is free.                                                               *)

NewPeer == [doc |-> "new", prefix |-> ""]
Idle == [pc |-> "idle", obj |-> NoObject, freed |-> FALSE]
WorkerPc == {"idle", "parsing", "handler", "relock", "error"}
MutexFree == worker.pc # "parsing"

Init ==
    /\ parse_data = NewParser
    /\ worker = Idle
    /\ wire = <<>>
    /\ said = <<>>
    /\ peer = NewPeer
    /\ heard = <<>>
    /\ count = [insert |-> 0, reset |-> 0]
    /\ crashed = FALSE

Inserted(o) == [from |-> "inserted", obj |-> o]
ParseErrorObj == XmlNode("parse-error", InternalErrorNs)

BugRead ==
    /\ worker.pc = "idle"
    /\ wire # <<>>
    /\ worker' = [worker EXCEPT !.pc = "parsing"]
    /\ UNCHANGED <<parse_data, wire, said, peer, heard, count, crashed>>

(* operator<< (const std::string&): what comes after an error is ignored.     *)
Read ==
    /\ worker.pc = "idle"
    /\ wire # <<>>
    /\ IF parse_data.error THEN wire' = <<>> /\ UNCHANGED worker
       ELSE worker' = [worker EXCEPT !.pc = "parsing"] /\ UNCHANGED wire
    /\ UNCHANGED <<parse_data, said, peer, heard, count, crashed>>

(* XML_Parse takes the next token: a handler runs, or the text is wrong.      *)
Parse ==
    /\ worker.pc = "parsing"
    /\ wire # <<>>
    /\ LET t == Head(wire)
           r == Handled(parse_data, t)
       IN  IF WellFormed(parse_data, t)
           THEN /\ parse_data' = r.pd
                /\ worker' = IF Valid(r.obj) THEN [worker EXCEPT !.pc = "handler", !.obj = r.obj]
                             ELSE worker
           ELSE /\ parse_data' = [parse_data EXCEPT !.error = TRUE, !.element_stack = <<>>]
                /\ worker' = [worker EXCEPT !.pc = "error"]
    /\ wire' = Tail(wire)
    /\ UNCHANGED <<said, peer, heard, count, crashed>>

(* The piece that was read is used up: XML_Parse and operator<< return.       *)
ParseEnd ==
    /\ worker.pc = "parsing"
    /\ worker' = [worker EXCEPT !.pc = "idle"]
    /\ UNCHANGED <<parse_data, wire, said, peer, heard, count, crashed>>

(* rx_func, with the mutex released.                                         *)
Deliver ==
    /\ worker.pc = "handler"
    /\ heard' = Append(heard, [from |-> "parsed", obj |-> worker.obj])
    /\ worker' = [worker EXCEPT !.pc = "relock", !.obj = NoObject]
    /\ UNCHANGED <<parse_data, wire, said, peer, count, crashed>>

(* The handler returns into expat.                                           *)
Relock ==
    /\ worker.pc = "relock"
    /\ crashed' = worker.freed
    /\ worker' = IF worker.freed THEN Idle ELSE [worker EXCEPT !.pc = "parsing"]
    /\ UNCHANGED <<parse_data, wire, said, peer, heard, count>>

(* err_func: the error becomes an object that is inserted (XmlStream.cpp:72-79).*)
ParseError ==
    /\ worker.pc = "error"
    /\ heard' = Append(heard, Inserted(ParseErrorObj))
    /\ worker' = Idle
    /\ UNCHANGED <<parse_data, wire, said, peer, count, crashed>>

(* operator<< (const XmlObject&): another thread's object goes to rx_func.    *)
Insert(o) ==
    /\ MutexFree
    /\ count.insert < MaxInsert
    /\ Valid(o)
    /\ heard' = Append(heard, Inserted(o))
    /\ count' = [count EXCEPT !.insert = @ + 1]
    /\ UNCHANGED <<parse_data, worker, wire, said, peer, crashed>>

(* reset(): free_resources and a new parser. The stream that is restarted has  *)
(* been heard to its end, or was in error; what is in the wire is lost.        *)
Reset ==
    /\ MutexFree
    /\ Overlap \/ worker.pc = "idle"
    /\ count.reset < MaxReset
    /\ wire = <<>> \/ parse_data.error
    /\ parse_data' = NewParser
    /\ worker' = IF worker.pc = "idle" THEN worker ELSE [worker EXCEPT !.freed = TRUE]
    /\ wire' = <<>> /\ said' = <<>> /\ heard' = <<>> /\ peer' = NewPeer
    /\ count' = [count EXCEPT !.reset = @ + 1]
    /\ UNCHANGED crashed

-----------------------------------------------------------------------------
(* The peer. What it said is remembered as the text's meaning and, of a        *)
(* stanza it built with the library, what the calls were for.                 *)

StreamScope == [dflt |-> Client, alias |-> (peer.prefix :> Streams)]
RootScope == [dflt |-> "", alias |-> NoEntry]

Internal(o) == Head(Meaning(o, StreamScope)).ns \in {InternalErrorNs, InternalTimerNs}

Saying(tokens, sentences) ==
    /\ wire' = wire \o tokens
    /\ said' = said \o sentences
    /\ UNCHANGED <<parse_data, worker, heard, count, crashed>>

(* Only a root element that is a stream is heard of.                         *)
SayHeader(h) ==
    /\ peer.doc = "new"
    /\ LET m == Meaning(h, RootScope)
           ours == <<Head(m).ns, Head(m).tag>> = get_full_name(TopNode)
       IN  /\ peer' = [doc |-> IF ours THEN "open" ELSE "other", prefix |-> Prefix(h)]
           /\ Saying(ToString_(h), IF ours THEN <<[meaning |-> m, reading |-> NoEntry]>> ELSE <<>>)

SayEnd ==
    /\ peer.doc = "open"
    /\ peer' = [peer EXCEPT !.doc = "closed"]
    /\ Saying(<<[kind |-> "end", prefix |-> peer.prefix, tag |-> "stream"]>>,
              <<[meaning |-> Parsed(TopNode), reading |-> NoEntry]>>)

SayObject(o, reading) ==
    /\ peer.doc \in {"open", "other", "junk"}
    /\ Len(said) < MaxSay
    /\ wire = <<>>
    /\ UNCHANGED peer
    /\ Saying(ToString_(o), IF peer.doc # "open" \/ Internal(o) THEN <<>>
                            ELSE <<[meaning |-> Meaning(o, StreamScope), reading |-> reading]>>)

SayJunk(t) ==
    /\ peer.doc \in {"open", "closed"}
    /\ peer' = [peer EXCEPT !.doc = "junk"]
    /\ Saying(<<t>>, <<>>)
-----------------------------------------------------------------------------
(* What a stanza of this library is made of: its constructor, then calls.     *)

Constructed(kind) ==
    CASE kind = "message"  -> set_hint(MessageStanza("to", "", <<"b">>, "chat", "", "", ""), "no-store")
      [] kind = "presence" -> PresenceStanza("", "me", 7, "id")
      [] kind = "iq"       -> IqStanza("get", "to", "me", "id")
      [] kind = "error"    -> set_error_name(StreamError, "conflict")

Called(o, c) ==
    CASE c.op = "body"     -> set_body(o, c.text, c.lang)
      [] c.op = "thread"   -> set_thread(o, c.text, c.parent)
      [] c.op = "parent"   -> set_parent_thread(o, c.parent)
      [] c.op = "chat"     -> set_chat_state(o, c.state)
      [] c.op = "hint"     -> set_hint(o, c.hint)
      [] c.op = "unhint"   -> IF UnsetIsDefined(o, c.hint) THEN unset_hint(o, c.hint) ELSE NoObject
      [] c.op = "delay"    -> set_delay(o, c.from, c.stamp, c.text)
      [] c.op = "failed"   -> set_error(set_type(o, "error"), StanzaError(c.type, c.condition, c.text))
      [] c.op = "show"     -> set_show(o, c.text, c.last)
      [] c.op = "status"   -> set_status(o, c.text, "")
      [] c.op = "priority" -> set_priority(o, c.n)
      [] c.op = "name"     -> set_error_content(set_error_name(o, c.name), c.text)
      [] c.op = "app"      -> set_app_error(o, c.name, c.text)
      [] c.op = "text"     -> set_text(o, c.text)

(* What the operations that read an object say of it.                        *)
Reading(o) ==
    IF o.tag_name = "error" THEN
        [name |-> get_error_name(ReadStreamError(o)), app |-> get_app_error(ReadStreamError(o)),
         content |-> get_error_content(ReadStreamError(o)), text |-> get_text(ReadStreamError(o))]
    ELSE
        [to |-> get_attribute(o, "to"), from |-> get_attribute(o, "from"),
         iq |-> get_iq_type(o), message |-> get_message_type(o), failed |-> have_error(o),
         error |-> [type |-> get_attribute(get_error(o), "type"),
                    condition |-> get_condition(get_error(o)), text |-> get_error_text(get_error(o))],
         body |-> get_body(o, ""), sv |-> get_body(o, "sv"), delay |-> get_delay(o),
         thread |-> get_thread(o), parent |-> get_parent_thread(o),
         hints |-> {h \in Hint : get_hint(o, h)}, show |-> get_show(o),
         last |-> get_last_active(o), status |-> get_status(o, ""), priority |-> get_priority(o)]

(* What they should say: of a new object, and after one more call.           *)
Unset == [to |-> "", from |-> "", iq |-> "error", message |-> "normal", failed |-> FALSE,
          error |-> [type |-> "", condition |-> "", text |-> <<>>],
          body |-> <<>>, sv |-> <<>>, delay |-> [from |-> "", stamp |-> "", reason |-> <<>>],
          thread |-> <<>>, parent |-> "", hints |-> {}, show |-> <<>>, last |-> "",
          status |-> <<>>, priority |-> 0]

Meant(kind) ==
    CASE kind = "message"  -> [Unset EXCEPT !.to = "to", !.body = <<"b">>, !.message = "chat",
                                               !.hints = {"no-store"}]
      [] kind = "presence" -> [Unset EXCEPT !.from = "me", !.last = "7"]
      [] kind = "iq"       -> [Unset EXCEPT !.to = "to", !.from = "me", !.iq = "get"]
      [] kind = "error"    -> [name |-> "conflict", app |-> "", content |-> <<>>, text |-> <<>>]

MeantBy(w, c) ==
    CASE c.op = "body"     -> [w EXCEPT !.body = IF c.lang = "" THEN c.text ELSE <<>>,
                                        !.sv = IF c.lang = "sv" THEN c.text ELSE <<>>]
      [] c.op = "thread"   -> [w EXCEPT !.thread = c.text,
                                        !.parent = IF c.text = <<>> THEN "" ELSE c.parent]
      [] c.op = "parent"   -> IF w.thread = <<>> THEN w ELSE [w EXCEPT !.parent = c.parent]
      [] c.op = "chat"     -> w
      [] c.op = "hint"     -> [w EXCEPT !.hints = @ \cup {c.hint}]
      [] c.op = "unhint"   -> [w EXCEPT !.hints = @ \ {c.hint}]
      [] c.op = "delay"    -> [w EXCEPT !.delay = IF c.stamp = "" THEN Unset.delay
                                   ELSE [from |-> c.from, stamp |-> c.stamp, reason |-> c.text]]
      [] c.op = "failed"   -> [w EXCEPT !.iq = "error", !.message = "error", !.failed = TRUE,
                                   !.error = [type |-> c.type, condition |-> c.condition,
                                              text |-> c.text]]
      [] c.op = "show"     -> [w EXCEPT !.show = c.text,
                                        !.last = IF c.last = 0 THEN "" ELSE ToString(c.last)]
      [] c.op = "status"   -> [w EXCEPT !.status = c.text]
      [] c.op = "priority" -> [w EXCEPT !.priority = Clamp(c.n)]
      [] c.op = "name"     -> [name |-> c.name, app |-> "", text |-> <<>>,
                               content |-> IF c.name = "" THEN <<>> ELSE c.text]
      [] c.op = "app"      -> [name |-> "undefined-condition", app |-> c.name,
                               content |-> <<>>, text |-> c.text]
      [] c.op = "text"     -> [w EXCEPT !.text = c.text]

(* Calls whose outcome C++ leaves undefined are left out: they make no object. *)
SayStanza(kind, calls) ==
    /\ peer.doc = "open" /\ Len(said) < MaxSay /\ wire = <<>>
    /\ LET o == FoldLeft(Called, Constructed(kind), calls)
       IN  Valid(o) /\ SayObject(o, FoldLeft(MeantBy, Meant(kind), calls))

CallSequences(kind) == UNION {[1..n -> Calls[kind]] : n \in 0..MaxCall}

Next ==
    \/ Read \/ Parse \/ ParseEnd \/ Deliver \/ Relock \/ ParseError \/ Reset
    \/ \E o \in Inside : Insert(o)
    \/ \E h \in Headers : SayHeader(h)
    \/ SayEnd
    \/ \E o \in Foreign : SayObject(o, NoEntry)
    \/ \E t \in Junk : SayJunk(t)
    \/ \E kind \in DOMAIN Calls : \E calls \in CallSequences(kind) : SayStanza(kind, calls)

Spec == Init /\ [][Next]_vars
-----------------------------------------------------------------------------
(* Properties.                                                               *)

FromWire(h) == h.from = "parsed"
HeardOfPeer == SelectSeq(heard, FromWire)

(* The peer was just heard; what was heard and what should have been.        *)
JustHeard == worker.pc = "relock" /\ Len(HeardOfPeer) \in DOMAIN said
LastHeard == Last(HeardOfPeer).obj
LastSaid  == said[Len(HeardOfPeer)]

(* Types; and what the parser keeps belongs together: expat has one open tag   *)
(* for every element on the stack, one for the stream element, and those that  *)
(* were ignored before it.                                                   *)
TypeOK ==
    /\ worker.pc \in WorkerPc /\ worker.freed \in BOOLEAN /\ crashed \in BOOLEAN
    /\ peer.doc \in {"new", "open", "other", "closed", "junk"}
    /\ \A i \in DOMAIN heard : heard[i].from \in {"parsed", "inserted"} /\ Valid(heard[i].obj)
    /\ parse_data.handler = "stream" => parse_data.element_stack = <<>>
    /\ parse_data.top_element_found /\ ~parse_data.error =>
           Len(parse_data.open) > Len(parse_data.element_stack)

(* The program hears what the peer said and in the order it was said, with    *)
(* every name in the namespace the text puts it in, however the bytes are cut  *)
(* up and whatever is inserted between (normalize_namespace, end_xml_node).    *)
HeardAsSaid ==
    /\ Len(HeardOfPeer) <= Len(said)
    /\ JustHeard => Parsed(LastHeard) = LastSaid.meaning

(* Nothing that was said is left unheard when all of it was read, and nothing  *)
(* but bad XML ends the parsing (xml_escape, operator<<).                      *)
AllHeard ==
    worker.pc = "idle" /\ wire = <<>> /\ peer.doc # "junk" =>
        Len(HeardOfPeer) = Len(said) /\ ~parse_data.error

(* The operations that read a stanza give the receiver what the sender's       *)
(* calls set, and no call disturbs what another one set (Stanza.cpp,           *)
(* MessageStanza.cpp, PresenceStanza.cpp, StanzaError.cpp, StreamError.cpp).   *)
ReadAsMeant ==
    JustHeard /\ LastSaid.reading # NoEntry => Reading(LastHeard) = LastSaid.reading

(* "Otherwise an attacker could send those XML objects to make the app believe *)
(* a timer expired or an internal error occurred." (XmlInputStream.cpp:325)    *)
InternalFromInside ==
    \A i \in DOMAIN heard : FromWire(heard[i]) =>
        heard[i].obj.xml_namespace \notin {InternalErrorNs, InternalTimerNs}

(* "Ignore incoming data on error." (XmlInputStream.cpp:586): a parse error is *)
(* told once, and nothing of the peer is heard after it until the stream is    *)
(* reset, whatever is still read.                                            *)
ErrorIsLast ==
    \A i \in DOMAIN heard : heard[i] = Inserted(ParseErrorObj) =>
        \A j \in i + 1 .. Len(heard) :
            heard[j].from = "inserted" /\ heard[j].obj # ParseErrorObj

(* The parser is not used after reset() freed it ("mutex assumed to be         *)
(* locked", XmlInputStream.cpp:520: it is not while a handler runs).           *)
ParserAlive == ~crashed

(* "Return the chat state (XEP-0085)." (MessageStanza.hpp:205): the state a    *)
(* message was sent with.                                                    *)
ChatStateRead ==
    JustHeard => get_chat_state(LastHeard) = ChatState(Found(LastHeard, IsChatState).tag_name)
=============================================================================
