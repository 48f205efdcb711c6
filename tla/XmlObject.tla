------------------------------ MODULE XmlObject ------------------------------
(* XmlObject.hpp, XmlObject.cpp: the tree that every stanza and every stream *)
(* element is, and the operations the other classes build it with.           *)
(*                                                                           *)
(* A name, a namespace and the value of an attribute are strings that no     *)
(* operation looks into. A content is a sequence of characters, because the  *)
(* parser gets it in pieces and to_string escapes it (XmlText). A full name   *)
(* "ns:tag" is the pair <<ns, tag>>. Copying and moving an object are the     *)
(* copying of a value here.                                                   *)
EXTENDS SequencesExt

(* A map<string, string> is a function; "" is read where nothing is mapped.  *)
NoEntry == [k \in {} |-> ""]
Get(map, k) == IF k \in DOMAIN map THEN map[k] ELSE ""
Put(map, k, v) == (k :> v) @@ map
Erase(map, k) == [x \in DOMAIN map \ {k} |-> map[x]]

XmlObject(tag, ns, set_attr, is_default) ==
    [tag_name |-> tag, xml_namespace |-> ns, namespace_is_default |-> is_default,
     namespace_alias |-> NoEntry, default_namespace |-> IF set_attr THEN ns ELSE "",
     attributes |-> NoEntry, nodes |-> <<>>, content |-> <<>>, part |-> "all"]

(* The constructor with its default arguments (XmlObject.hpp:88-91).         *)
XmlNode(tag, ns) == XmlObject(tag, ns, TRUE, TRUE)

NoObject == XmlObject("", "", FALSE, FALSE)

(* operator bool (XmlObject.hpp:135-137).                                    *)
Valid(o) == o.tag_name # ""

set_attribute(o, name, value) == [o EXCEPT !.attributes = Put(o.attributes, name, value)]
remove_attribute(o, name) == [o EXCEPT !.attributes = Erase(o.attributes, name)]
get_attribute(o, name) == Get(o.attributes, name)
add_namespace_alias(o, alias, ns) ==
    [o EXCEPT !.namespace_alias = Put(o.namespace_alias, alias, ns)]
set_namespace(o, ns, is_default) ==
    [o EXCEPT !.xml_namespace = ns, !.namespace_is_default = is_default]
set_tag_name(o, name) == [o EXCEPT !.tag_name = name]
set_content(o, text) == [o EXCEPT !.content = text]
set_part(o, part) == [o EXCEPT !.part = part]
add_node(o, node) == [o EXCEPT !.nodes = Append(o.nodes, node)]

get_full_name(o) ==
    <<IF o.xml_namespace # "" THEN o.xml_namespace ELSE o.default_namespace, o.tag_name>>

(* Nodes are searched from the first on; an empty object stands for "none".   *)
Found(o, Is(_)) ==
    LET i == SelectInSeq(o.nodes, Is) IN IF i = 0 THEN NoObject ELSE o.nodes[i]
find_node(o, name) == LET Is(n) == n.tag_name = name IN Found(o, Is)
find_full_node(o, full_name) == LET Is(n) == get_full_name(n) = full_name IN Found(o, Is)

(* The comparison is with the namespace of the object, not of the node.      *)
find_node_by_namespace(o, ns) == LET Is(n) == ns = o.xml_namespace IN Found(o, Is)

(* "Add/replace the error node" (Stanza.cpp:195) and its like: the first      *)
(* node that is meant is changed, else a new one is added at the end.         *)
AddOrChange(o, Is(_), Change(_), new) ==
    LET i == SelectInSeq(o.nodes, Is)
    IN  IF i = 0 THEN add_node(o, new) ELSE [o EXCEPT !.nodes[i] = Change(o.nodes[i])]

(* "There can be only one!" (MessageStanza.cpp:288): and the others go.       *)
OnlyOne(o, Is(_), Change(_), new) ==
    LET i == SelectInSeq(o.nodes, Is)
        Other(n) == ~Is(n)
        rest == SelectSeq(SubSeq(o.nodes, i + 1, Len(o.nodes)), Other)
    IN  IF i = 0 THEN add_node(o, new)
        ELSE [o EXCEPT !.nodes = SubSeq(o.nodes, 1, i - 1) \o <<Change(o.nodes[i])>> \o rest]

EraseNodes(o, Is(_)) ==
    LET Other(n) == ~Is(n) IN [o EXCEPT !.nodes = SelectSeq(o.nodes, Other)]
EraseFirst(o, Is(_)) ==
    LET i == SelectInSeq(o.nodes, Is)
    IN  IF i = 0 THEN o ELSE [o EXCEPT !.nodes = RemoveAt(o.nodes, i)]
=============================================================================
