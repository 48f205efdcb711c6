------------------------------- MODULE XmlText -------------------------------
(* to_string of an XmlObject: the text that goes over a connection, as the    *)
(* tokens an XML parser will see in it; and what such a text means by the     *)
(* namespace rules of XML, the reference for what XmlInputStream makes of it. *)
EXTENDS Stanza

CONSTANT MaxDepth   \* of a tree of objects

(* xml_escape: one symbol for an escaped character.                          *)
EscapeOf == "&" :> "&amp;" @@ "<" :> "&lt;" @@ ">" :> "&gt;" @@ "'" :> "&apos;" @@ "\"" :> "&quot;"

BugXmlEscape(text) ==
    [i \in DOMAIN text |-> IF text[i] \in DOMAIN EscapeOf \ {"&"} THEN EscapeOf[text[i]] ELSE text[i]]

XmlEscape(text) ==
    [i \in DOMAIN text |-> IF text[i] \in DOMAIN EscapeOf THEN EscapeOf[text[i]] ELSE text[i]]

Text(content) == [i \in DOMAIN content |-> [kind |-> "char", char |-> content[i]]]

(* An object in a namespace that is not the default one is written with its  *)
(* namespace for a prefix.                                                   *)
Prefix(o) == IF o.namespace_is_default THEN "" ELSE o.xml_namespace
StartTag(o) == [kind |-> "start", prefix |-> Prefix(o), tag |-> o.tag_name,
                alias |-> o.namespace_alias, xmlns |-> o.default_namespace,
                attrs |-> o.attributes]
EndTag(o) == [kind |-> "end", prefix |-> Prefix(o), tag |-> o.tag_name]

(* What is told of a tree is told of its objects, each before its nodes: an   *)
(* object that is still to be told stands for itself in the sequence.          *)
Todo(o, scope, level) == [kind |-> "object", obj |-> o, scope |-> scope, level |-> level]
Told(o, scope, Tell(_)) ==
    LET One(item) == IF item.kind = "object" THEN Tell(item) ELSE <<item>>
        Deeper(items, n) == FlattenSeq([i \in DOMAIN items |-> One(items[i])])
    IN  FoldLeft(Deeper, <<Todo(o, scope, 1)>>, [n \in 1..MaxDepth |-> n])

(* The nodes come first and the content after them; an empty element is a     *)
(* start tag and an end tag for a parser.                                    *)
Written(o) ==
    IF ~Valid(o) THEN <<>>
    ELSE CASE o.part = "body"  -> Text(XmlEscape(o.content))
           [] o.part = "end"   -> <<EndTag(o)>>
           [] o.part = "start" -> <<StartTag(o)>>
           [] o.part = "all"   -> <<StartTag(o)>>
                                  \o [i \in DOMAIN o.nodes |-> Todo(o.nodes[i], NoEntry, 1)]
                                  \o Text(XmlEscape(o.content)) \o <<EndTag(o)>>

ToString_(o) == LET Tell(item) == Written(item.obj) IN Told(o, NoEntry, Tell)

-----------------------------------------------------------------------------
(* The reference. A declaration holds for the element that carries it and for *)
(* everything inside, up to the next one of the same prefix.                  *)
Scope(o, outer) ==
    [dflt  |-> IF o.default_namespace # "" THEN o.default_namespace ELSE outer.dflt,
     alias |-> o.namespace_alias @@ outer.alias]

NamespaceIn(prefix, scope) ==
    CASE prefix = ""                  -> scope.dflt
      [] prefix \in DOMAIN scope.alias -> scope.alias[prefix]
      [] OTHER                        -> prefix

(* What the text says of an object: names, attributes, content, nodes.         *)
Said(item, ns, scope, nodes) ==
    <<[kind |-> "said", level |-> item.level, ns |-> ns, tag |-> item.obj.tag_name,
       attrs |-> item.obj.attributes, content |-> item.obj.content]>>
    \o [i \in DOMAIN nodes |-> Todo(nodes[i], scope, item.level + 1)]

Meaning(o, outer) ==
    LET Tell(item) ==
            LET scope == Scope(item.obj, item.scope)
            IN  Said(item, NamespaceIn(Prefix(item.obj), scope), scope,
                     SelectSeq(item.obj.nodes, Valid))
    IN  Told(o, outer, Tell)

(* The same of an object that was parsed.                                    *)
Parsed(o) ==
    LET Tell(item) == Said(item, item.obj.xml_namespace, NoEntry, item.obj.nodes)
    IN  Told(o, NoEntry, Tell)
=============================================================================
