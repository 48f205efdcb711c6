---------------------------- MODULE XmlInput_proofs ----------------------------
(* What holds of XmlInput whatever a peer writes and a program inserts: the    *)
(* parser's own state belongs together, no object of a peer claims a namespace *)
(* of the library, and a parse error is the last thing the parser tells.       *)
EXTENDS XmlInput, TLAPS

(* The values of tokens, objects and contents are nobody's business here: a    *)
(* sequence is one whatever is in it.                                        *)
IsSequence(s) == Len(s) \in Nat /\ s = [i \in 1..Len(s) |-> s[i]]
Values(s) == {s[i] : i \in 1..Len(s)}

LEMMA SequenceOfValues ==
    ASSUME NEW s, IsSequence(s)
    PROVE  s \in Seq(Values(s))
<1>1. [i \in 1..Len(s) |-> s[i]] \in [1..Len(s) -> Values(s)]
    BY DEF Values
<1>2. QED
    BY <1>1 DEF IsSequence

LEMMA SequenceIs ==
    ASSUME NEW S, NEW s \in Seq(S)
    PROVE  IsSequence(s) /\ DOMAIN s = 1..Len(s)
BY DEF IsSequence

LEMMA Indices ==
    ASSUME NEW s, IsSequence(s)
    PROVE  DOMAIN s = 1..Len(s)
BY SequenceOfValues, SequenceIs

LEMMA EmptyIs ==
    IsSequence(<<>>) /\ Len(<<>>) = 0
<1>1. <<>> \in Seq({}) /\ Len(<<>>) = 0
    OBVIOUS
<1>2. QED
    BY <1>1, SequenceIs

(* What the model does to sequences.                                         *)
LEMMA Pushed ==
    ASSUME NEW s, NEW x, IsSequence(s)
    PROVE  /\ IsSequence(<<x>> \o s)
           /\ Len(<<x>> \o s) = Len(s) + 1
<1> DEFINE S == Values(s) \cup {x}
<1>1. s \in Seq(S) /\ <<x>> \in Seq(S)
    BY SequenceOfValues
<1>2. <<x>> \o s \in Seq(S) /\ Len(<<x>> \o s) = Len(s) + 1
    BY <1>1
<1>3. QED
    BY <1>2, SequenceIs

LEMMA Popped ==
    ASSUME NEW s, IsSequence(s), s # <<>>
    PROVE  /\ IsSequence(Tail(s))
           /\ Len(s) > 0
           /\ Len(Tail(s)) = Len(s) - 1
<1>1. s \in Seq(Values(s))
    BY SequenceOfValues
<1>2. Tail(s) \in Seq(Values(s)) /\ Len(s) > 0 /\ Len(Tail(s)) = Len(s) - 1
    BY <1>1
<1>3. QED
    BY <1>2, SequenceIs

LEMMA FirstReplaced ==
    ASSUME NEW s, NEW x, IsSequence(s)
    PROVE  /\ IsSequence([s EXCEPT ![1] = x])
           /\ Len([s EXCEPT ![1] = x]) = Len(s)
<1> DEFINE S == Values(s) \cup {x}
<1>1. s \in Seq(S)
    BY SequenceOfValues
<1> DEFINE r == [s EXCEPT ![1] = x]
<1>2. s \in [1..Len(s) -> S] /\ Len(s) \in Nat
    BY <1>1
<1>3. r \in [1..Len(s) -> S]
    BY <1>2
<1>4. r \in Seq(S) /\ Len(r) = Len(s)
    BY <1>2, <1>3
<1>5. QED
    BY <1>4, SequenceIs

LEMMA Appended ==
    ASSUME NEW s, NEW x, IsSequence(s)
    PROVE  /\ IsSequence(Append(s, x))
           /\ DOMAIN Append(s, x) = 1..Len(s) + 1
           /\ Len(Append(s, x)) = Len(s) + 1
           /\ \A i \in 1..Len(s) : Append(s, x)[i] = s[i]
           /\ Append(s, x)[Len(s) + 1] = x
<1> DEFINE S == Values(s) \cup {x}
<1>1. s \in Seq(S)
    BY SequenceOfValues
<1>2. Append(s, x) \in Seq(S) /\ Len(Append(s, x)) = Len(s) + 1
    BY <1>1
<1>3. /\ \A i \in 1..Len(s) : Append(s, x)[i] = s[i]
      /\ Append(s, x)[Len(s) + 1] = x
    BY <1>1
<1>4. QED
    BY <1>2, <1>3, SequenceIs

-----------------------------------------------------------------------------
(* What parse_data always is. After an error the handlers no longer run, and   *)
(* the stack is empty whatever is open.                                      *)
ParserForm(pd) ==
    /\ \A field \in {"handler", "error", "top_element_found", "element_stack", "open"} :
           field \in DOMAIN pd
    /\ pd.handler \in {"stream", "node"}
    /\ pd.handler = "stream" => pd.top_element_found = FALSE
    /\ pd.handler = "node" => pd.top_element_found = TRUE
    /\ IsSequence(pd.element_stack)
    /\ IsSequence(pd.open)
    /\ pd.handler = "stream" => pd.element_stack = <<>>

ParserOK(pd) ==
    /\ ParserForm(pd)
    /\ pd.top_element_found /\ ~pd.error => Len(pd.open) > Len(pd.element_stack)

(* What a handler may give to rx_func.                                       *)
Ours == {InternalErrorNs, InternalTimerNs}
FromPeer(o) == Valid(o) => o.xml_namespace \notin Ours

IsObject(o) == "xml_namespace" \in DOMAIN o

LEMMA NewObject ==
    ASSUME NEW tag, NEW ns, NEW a, NEW d
    PROVE  /\ IsObject(XmlObject(tag, ns, a, d))
           /\ XmlObject(tag, ns, a, d).tag_name = tag
           /\ XmlObject(tag, ns, a, d).xml_namespace = ns
BY DEF XmlObject, IsObject

LEMMA AttributesRead ==
    ASSUME NEW t, NEW o, IsObject(o)
    PROVE  IsObject(parse_xml_attributes(t, o))
BY DEF parse_xml_attributes, IsObject

LEMMA NamespaceSet ==
    ASSUME NEW o, NEW ns, NEW d, IsObject(o)
    PROVE  IsObject(set_namespace(o, ns, d))
BY DEF set_namespace, IsObject

LEMMA Normalized ==
    ASSUME NEW pd, NEW o, IsObject(o)
    PROVE  IsObject(normalize_namespace(pd, o))
<1> DEFINE dflt == DefaultNamespace(pd)
           value == AliasValue(pd, o.xml_namespace)
<1>1. IsObject(set_namespace(o, dflt, TRUE))
    BY NamespaceSet
<1>2. \A d : IsObject(set_namespace(o, value, d))
    BY NamespaceSet
<1> HIDE DEF dflt, value
<1>3. CASE o.xml_namespace = "" /\ dflt = ""
    BY <1>3 DEF normalize_namespace, dflt, value
<1>4. CASE o.xml_namespace = "" /\ dflt # ""
    BY <1>1, <1>4 DEF normalize_namespace, dflt, value
<1>5. CASE o.xml_namespace # "" /\ value = ""
    BY <1>5 DEF normalize_namespace, dflt, value
<1>6. CASE o.xml_namespace # "" /\ value # ""
    BY <1>2, <1>6 DEF normalize_namespace, dflt, value
<1>7. QED
    BY <1>3, <1>4, <1>5, <1>6

LEMMA PartSet ==
    ASSUME NEW o, NEW part, IsObject(o)
    PROVE  set_part(o, part).xml_namespace = o.xml_namespace
BY DEF set_part, IsObject

LEMMA NothingToTell ==
    FromPeer(NoObject)
BY DEF FromPeer, Valid, NoObject, XmlObject

-----------------------------------------------------------------------------
(* What each handler makes of parse_data, when it may run.                   *)
Kept(r) == ParserOK(r.pd) /\ FromPeer(r.obj) /\ ~r.pd.error

LEMMA ResultKept ==
    ASSUME NEW p, NEW o, ParserOK(p), ~p.error, FromPeer(o)
    PROVE  Kept(Result(p, o))
<1>1. Result(p, o).pd = p /\ Result(p, o).obj = o
    BY DEF Result
<1> HIDE DEF Result
<1>2. QED
    BY <1>1 DEF Kept

LEMMA StreamStarts ==
    ASSUME NEW pd, NEW t, ParserOK(pd), ~pd.error, pd.handler = "stream",
           Len(pd.open) > 0
    PROVE  Kept(start_stream_element(pd, t))
<1> DEFINE scoped == [pd EXCEPT !.default_namespace = t.xmlns, !.namespace_aliases = t.alias]
           o == normalize_namespace(scoped, parse_xml_attributes(t, Named(t)))
           found == [scoped EXCEPT !.handler = "node", !.top_element_found = TRUE]
<1>1. IsObject(o)
    BY NewObject, AttributesRead, Normalized DEF Named
<1>2. ParserOK(scoped) /\ ~scoped.error /\ scoped.handler = "stream" /\ scoped.open = pd.open
    BY DEF ParserOK, ParserForm
<1>3. ParserOK(found) /\ ~found.error
    BY <1>2, EmptyIs DEF ParserOK, ParserForm
<1>4. get_full_name(TopNode) = <<Streams, "stream">>
    BY DEF get_full_name, TopNode, XmlObject, Streams
<1>5. set_part(o, "start").xml_namespace = o.xml_namespace
    BY <1>1, PartSet
<1> HIDE DEF o
<1>6. CASE <<o.xml_namespace, o.tag_name>> = get_full_name(TopNode)
    <2>1. start_stream_element(pd, t) = Result(found, set_part(o, "start"))
        BY <1>6 DEF start_stream_element, o
    <2>2. o.xml_namespace = Streams
        BY <1>4, <1>6
    <2>3. FromPeer(set_part(o, "start"))
        BY <1>5, <2>2 DEF FromPeer, Ours, Streams, InternalErrorNs, InternalTimerNs
    <2>4. QED
        BY <1>3, <2>1, <2>3, ResultKept
<1>7. CASE <<o.xml_namespace, o.tag_name>> # get_full_name(TopNode)
    <2>1. start_stream_element(pd, t) = Result(scoped, NoObject)
        BY <1>7 DEF start_stream_element, o
    <2>2. QED
        BY <1>2, <2>1, NothingToTell, ResultKept
<1>8. QED
    BY <1>6, <1>7

LEMMA NodeStarts ==
    ASSUME NEW pd, NEW t, ParserOK(pd), ~pd.error, pd.handler = "node",
           Len(pd.open) > Len(pd.element_stack) + 1
    PROVE  Kept(start_xml_node(pd, t))
<1> DEFINE o == normalize_namespace(pd, parse_xml_attributes(t, Named(t)))
           element == [xml_obj |-> o, default_namespace |-> t.xmlns,
                       namespace_aliases |-> t.alias]
           stacked == [pd EXCEPT !.element_stack = <<element>> \o pd.element_stack]
<1>1. start_xml_node(pd, t) = Result(stacked, NoObject)
    BY DEF start_xml_node
<1> HIDE DEF element
<1>2. /\ IsSequence(<<element>> \o pd.element_stack)
      /\ Len(<<element>> \o pd.element_stack) = Len(pd.element_stack) + 1
    BY Pushed DEF ParserOK, ParserForm
<1>3. ParserOK(stacked) /\ ~stacked.error
    BY <1>2 DEF ParserOK, ParserForm
<1>4. QED
    BY <1>1, <1>3, NothingToTell, ResultKept

LEMMA NodeEnds ==
    ASSUME NEW pd, ParserForm(pd), ~pd.error, pd.handler = "node",
           Len(pd.open) >= Len(pd.element_stack)
    PROVE  Kept(end_xml_node(pd))
<1>1. CASE pd.element_stack = <<>>
    <2> DEFINE ended == [pd EXCEPT !.handler = "stream", !.top_element_found = FALSE]
    <2>1. end_xml_node(pd) = Result(ended, set_part(TopNode, "end"))
        BY <1>1 DEF end_xml_node, ParserForm
    <2>9. /\ ended.handler = "stream" /\ ~ended.error /\ ~ended.top_element_found
          /\ ended.element_stack = pd.element_stack /\ ended.open = pd.open
          /\ DOMAIN ended = DOMAIN pd /\ ended.top_element_found = FALSE
        BY DEF ParserOK, ParserForm
    <2> HIDE DEF ended
    <2>2. ParserOK(ended) /\ ~ended.error
        BY <1>1, <2>9 DEF ParserOK, ParserForm
    <2>3. IsObject(TopNode) /\ TopNode.xml_namespace = Streams
        BY DEF TopNode, XmlObject, IsObject
    <2>4. set_part(TopNode, "end").xml_namespace = Streams
        BY <2>3, PartSet
    <2>5. FromPeer(set_part(TopNode, "end"))
        BY <2>4 DEF FromPeer, Ours, Streams, InternalErrorNs, InternalTimerNs
    <2>6. QED
        BY <2>1, <2>2, <2>5, ResultKept
<1>2. CASE pd.element_stack # <<>>
    <2> DEFINE o == Head(pd.element_stack).xml_obj
               stack == Tail(pd.element_stack)
               rest == [pd EXCEPT !.element_stack = stack]
    <2>1. IsSequence(stack) /\ Len(stack) = Len(pd.element_stack) - 1
        BY <1>2, Popped DEF ParserOK, ParserForm
    <2>2. ParserOK(rest) /\ ~rest.error /\ rest.element_stack = stack
        BY <1>2, <2>1 DEF ParserOK, ParserForm
    <2>3. CASE stack = <<>>
        <3>1. end_xml_node(pd) = Result(rest, IF o.xml_namespace \in Ours THEN NoObject ELSE o)
            BY <1>2, <2>2, <2>3 DEF end_xml_node, Ours
        <3>2. FromPeer(IF o.xml_namespace \in Ours THEN NoObject ELSE o)
            BY NothingToTell DEF FromPeer
        <3>3. QED
            BY <2>2, <3>1, <3>2, ResultKept
    <2>4. CASE stack # <<>>
        <3> DEFINE outer == add_node(stack[1].xml_obj, o)
                   grown == [stack EXCEPT ![1].xml_obj = outer]
                   told == [rest EXCEPT !.element_stack = grown]
        <3>1. end_xml_node(pd) = Result(told, NoObject)
            BY <1>2, <2>2, <2>4 DEF end_xml_node
        <3>2. IsSequence(grown) /\ Len(grown) = Len(stack)
            BY <2>1, FirstReplaced
        <3> HIDE DEF grown
        <3>3. ParserOK(told) /\ ~told.error
            BY <2>2, <2>4, <3>2 DEF ParserOK, ParserForm
        <3>4. QED
            BY <3>1, <3>3, NothingToTell, ResultKept
    <2>5. QED
        BY <2>3, <2>4
<1>3. QED
    BY <1>1, <1>2

LEMMA CharacterComes ==
    ASSUME NEW pd, NEW char, ParserOK(pd), ~pd.error
    PROVE  Kept(xml_character_data(pd, char))
<1>1. CASE pd.element_stack = <<>>
    BY <1>1, NothingToTell, ResultKept DEF xml_character_data
<1>2. CASE pd.element_stack # <<>>
    <2> DEFINE stack == pd.element_stack
               grown == [stack EXCEPT ![1].xml_obj.content = Append(@, char)]
               read == [pd EXCEPT !.element_stack = grown]
    <2>1. xml_character_data(pd, char) = Result(read, NoObject)
        BY <1>2 DEF xml_character_data
    <2>2. IsSequence(grown) /\ Len(grown) = Len(stack)
        BY FirstReplaced DEF ParserOK, ParserForm
    <2> HIDE DEF grown
    <2>3. ParserOK(read) /\ ~read.error
        BY <1>2, <2>2 DEF ParserOK, ParserForm
    <2>4. QED
        BY <2>1, <2>3, NothingToTell, ResultKept
<1>3. QED
    BY <1>1, <1>2

LEMMA TokenHandled ==
    ASSUME NEW pd, NEW t, ParserOK(pd), WellFormed(pd, t)
    PROVE  Kept(Handled(pd, t))
<1>1. ~pd.error
    BY DEF WellFormed
<1>2. CASE t.kind = "start"
    <2> DEFINE p == [pd EXCEPT !.open = <<Name(t)>> \o pd.open, !.root_seen = TRUE]
    <2>1. /\ IsSequence(<<Name(t)>> \o pd.open)
          /\ Len(<<Name(t)>> \o pd.open) = Len(pd.open) + 1
          /\ Len(pd.open) \in Nat
        BY Pushed DEF ParserOK, ParserForm, IsSequence
    <2>2. /\ p.handler = pd.handler /\ p.error = pd.error
          /\ p.top_element_found = pd.top_element_found
          /\ p.element_stack = pd.element_stack
          /\ p.open = <<Name(t)>> \o pd.open
          /\ DOMAIN p = DOMAIN pd
        BY DEF ParserOK, ParserForm
    <2>3. Handled(pd, t) = IF pd.handler = "stream" THEN start_stream_element(p, t)
                           ELSE start_xml_node(p, t)
        BY <1>2 DEF Handled
    <2> HIDE DEF p
    <2>4. Len(pd.element_stack) \in Nat
        BY DEF ParserOK, ParserForm, IsSequence
    <2>5. ParserOK(p) /\ ~p.error /\ Len(p.open) > 0
        BY <1>1, <2>1, <2>2, <2>4 DEF ParserOK, ParserForm
    <2>6. CASE pd.handler = "stream"
        BY <2>2, <2>3, <2>5, <2>6, StreamStarts
    <2>7. CASE pd.handler # "stream"
        <3>1. p.handler = "node" /\ Len(p.open) > Len(p.element_stack) + 1
            BY <1>1, <2>1, <2>2, <2>4, <2>7 DEF ParserOK, ParserForm
        <3>2. QED
            BY <2>3, <2>5, <2>7, <3>1, NodeStarts
    <2>8. QED
        BY <2>6, <2>7
<1>3. CASE t.kind = "end"
    <2> DEFINE p == [pd EXCEPT !.open = Tail(pd.open)]
    <2>1. pd.open # <<>>
        BY <1>1, <1>3 DEF WellFormed
    <2>2. /\ IsSequence(Tail(pd.open)) /\ Len(Tail(pd.open)) = Len(pd.open) - 1
          /\ Len(pd.open) \in Nat
        BY <2>1, Popped DEF ParserOK, ParserForm, IsSequence
    <2>3. /\ p.handler = pd.handler /\ p.error = pd.error
          /\ p.top_element_found = pd.top_element_found
          /\ p.element_stack = pd.element_stack
          /\ p.open = Tail(pd.open)
          /\ DOMAIN p = DOMAIN pd
        BY DEF ParserOK, ParserForm
    <2>4. Handled(pd, t) = IF pd.handler = "stream" THEN Result(p, NoObject)
                           ELSE end_xml_node(p)
        BY <1>3 DEF Handled
    <2> HIDE DEF p
    <2>5. CASE pd.handler = "stream"
        <3>1. ParserOK(p) /\ ~p.error
            BY <1>1, <2>2, <2>3, <2>5 DEF ParserOK, ParserForm
        <3>2. QED
            BY <2>4, <2>5, <3>1, NothingToTell, ResultKept
    <2>6. CASE pd.handler # "stream"
        <3>1. ParserForm(p) /\ ~p.error /\ p.handler = "node"
            BY <1>1, <2>2, <2>3, <2>6 DEF ParserOK, ParserForm
        <3>2. Len(pd.open) > Len(pd.element_stack) /\ Len(pd.element_stack) \in Nat
            BY <1>1, <2>6 DEF ParserOK, ParserForm, IsSequence
        <3>3. Len(p.open) >= Len(p.element_stack)
            BY <2>2, <2>3, <3>2
        <3>4. QED
            BY <2>4, <2>6, <3>1, <3>3, NodeEnds
    <2>7. QED
        BY <2>5, <2>6
<1>4. CASE t.kind = "char"
    <2>1. Handled(pd, t) = xml_character_data(pd, Decoded(t.char))
        BY <1>4 DEF Handled
    <2>2. QED
        BY <1>1, <2>1, CharacterComes
<1>5. QED
    BY <1>1, <1>2, <1>3, <1>4 DEF WellFormed

-----------------------------------------------------------------------------
(* The inductive invariant. An object on its way to rx_func may be given to it; *)
(* what a parse error leaves behind is a worker that parses no more.           *)
WorkerOK ==
    /\ worker = [pc |-> worker.pc, obj |-> worker.obj, freed |-> worker.freed]
    /\ worker.pc \in WorkerPc /\ worker.freed \in BOOLEAN /\ crashed \in BOOLEAN
    /\ worker.pc = "handler" => Valid(worker.obj) /\ FromPeer(worker.obj)

HeardOK ==
    /\ IsSequence(heard)
    /\ \A i \in 1..Len(heard) :
           /\ heard[i].from \in {"parsed", "inserted"}
           /\ Valid(heard[i].obj)
           /\ heard[i].from = "parsed" => FromPeer(heard[i].obj)

PeerOK == peer.doc \in {"new", "open", "other", "closed", "junk"}

TypeInv == ParserOK(parse_data) /\ WorkerOK /\ HeardOK /\ PeerOK

(* When nothing else may reset the stream than the one who heard its error.   *)
ErrorInv ==
    /\ worker.pc = "error" => parse_data.error = TRUE
    /\ \A i \in 1..Len(heard) : heard[i] = Inserted(ParseErrorObj) =>
           /\ parse_data.error = TRUE
           /\ worker.pc = "idle"
           /\ \A j \in i + 1 .. Len(heard) :
                  heard[j].from = "inserted" /\ heard[j].obj # ParseErrorObj

LEMMA ErrorObject ==
    Valid(ParseErrorObj)
BY DEF ParseErrorObj, XmlNode, XmlObject, Valid

LEMMA TypeInit ==
    Init => TypeInv
<1> SUFFICES ASSUME Init PROVE TypeInv
    OBVIOUS
<1>1. ParserOK(parse_data)
    BY EmptyIs DEF Init, NewParser, ParserOK, ParserForm
<1>2. WorkerOK
    BY DEF Init, Idle, WorkerOK, WorkerPc
<1>3. HeardOK
    BY EmptyIs DEF Init, HeardOK
<1>4. PeerOK
    BY DEF Init, NewPeer, PeerOK
<1>5. QED
    BY <1>1, <1>2, <1>3, <1>4 DEF TypeInv

(* One more object is heard.                                                 *)
LEMMA OneMoreHeard ==
    ASSUME HeardOK, NEW h, heard' = Append(heard, h),
           h.from \in {"parsed", "inserted"}, Valid(h.obj),
           h.from = "parsed" => FromPeer(h.obj)
    PROVE  HeardOK'
<1>1. /\ IsSequence(heard') /\ Len(heard') = Len(heard) + 1 /\ Len(heard) \in Nat
      /\ \A i \in 1..Len(heard) : heard'[i] = heard[i]
      /\ heard'[Len(heard) + 1] = h
    BY Appended DEF HeardOK, IsSequence
<1>2. ASSUME NEW i \in 1..Len(heard')
      PROVE  /\ heard'[i].from \in {"parsed", "inserted"}
             /\ Valid(heard'[i].obj)
             /\ heard'[i].from = "parsed" => FromPeer(heard'[i].obj)
    <2>1. CASE i \in 1..Len(heard)
        BY <1>1, <2>1 DEF HeardOK
    <2>2. CASE i = Len(heard) + 1
        BY <1>1, <2>2
    <2>3. QED
        BY <1>1, <2>1, <2>2
<1>3. QED
    BY <1>1, <1>2 DEF HeardOK

LEMMA SayingChanges ==
    ASSUME NEW tokens, NEW sentences, Saying(tokens, sentences)
    PROVE  UNCHANGED <<parse_data, worker, heard, crashed>>
BY DEF Saying

LEMMA PeerSteps ==
    ASSUME PeerOK,
           \/ \E h \in Headers : SayHeader(h)
           \/ SayEnd
           \/ \E o \in Foreign : SayObject(o, NoEntry)
           \/ \E t \in Junk : SayJunk(t)
           \/ \E kind \in DOMAIN Calls : \E calls \in CallSequences(kind) : SayStanza(kind, calls)
    PROVE  PeerOK' /\ UNCHANGED <<parse_data, worker, heard, crashed>>
<1>1. ASSUME NEW h \in Headers, SayHeader(h)
      PROVE  PeerOK' /\ UNCHANGED <<parse_data, worker, heard, crashed>>
    BY <1>1, SayingChanges DEF SayHeader, PeerOK
<1>2. CASE SayEnd
    BY <1>2, SayingChanges DEF SayEnd, PeerOK
<1>3. ASSUME NEW o, NEW reading, SayObject(o, reading)
      PROVE  PeerOK' /\ UNCHANGED <<parse_data, worker, heard, crashed>>
    BY <1>3, SayingChanges DEF SayObject, PeerOK
<1>4. ASSUME NEW t \in Junk, SayJunk(t)
      PROVE  PeerOK' /\ UNCHANGED <<parse_data, worker, heard, crashed>>
    BY <1>4, SayingChanges DEF SayJunk, PeerOK
<1>5. ASSUME NEW kind, NEW calls, SayStanza(kind, calls)
      PROVE  PeerOK' /\ UNCHANGED <<parse_data, worker, heard, crashed>>
    BY <1>3, <1>5 DEF SayStanza
<1>6. QED
    BY <1>1, <1>2, <1>3, <1>4, <1>5

Talking ==
    \/ \E h \in Headers : SayHeader(h)
    \/ SayEnd
    \/ \E o \in Foreign : SayObject(o, NoEntry)
    \/ \E t \in Junk : SayJunk(t)
    \/ \E kind \in DOMAIN Calls : \E calls \in CallSequences(kind) : SayStanza(kind, calls)

LEMMA ParseMoves ==
    ASSUME TypeInv, Parse
    PROVE  /\ ParserOK(parse_data')
           /\ WorkerOK'
           /\ worker.pc = "parsing"
           /\ worker'.pc \in {"handler", "parsing", "error"}
           /\ worker'.pc = "error" => parse_data'.error = TRUE
           /\ UNCHANGED <<heard, peer, crashed>>
<1> DEFINE t == Head(wire)
           r == Handled(parse_data, t)
           failed == [parse_data EXCEPT !.error = TRUE, !.element_stack = <<>>]
<1>1. /\ worker.pc = "parsing"
      /\ UNCHANGED <<heard, peer, crashed>>
      /\ IF WellFormed(parse_data, t)
         THEN /\ parse_data' = r.pd
              /\ worker' = IF Valid(r.obj) THEN [worker EXCEPT !.pc = "handler", !.obj = r.obj]
                           ELSE worker
         ELSE /\ parse_data' = failed
              /\ worker' = [worker EXCEPT !.pc = "error"]
    BY DEF Parse
<1> HIDE DEF t
<1>2. CASE WellFormed(parse_data, t)
    <2>1. ParserOK(r.pd) /\ FromPeer(r.obj)
        BY <1>2, TokenHandled DEF TypeInv, Kept
    <2> HIDE DEF r
    <2>2. CASE Valid(r.obj)
        <3>1. /\ worker'.pc = "handler" /\ worker'.obj = r.obj
              /\ worker' = [pc |-> "handler", obj |-> r.obj, freed |-> worker.freed]
            BY <1>1, <1>2, <2>2 DEF TypeInv, WorkerOK
        <3>2. WorkerOK'
            BY <1>1, <2>1, <2>2, <3>1 DEF TypeInv, WorkerOK, WorkerPc
        <3>3. QED
            BY <1>1, <1>2, <2>1, <3>1, <3>2
    <2>3. CASE ~Valid(r.obj)
        <3>1. worker' = worker
            BY <1>1, <1>2, <2>3
        <3>2. WorkerOK'
            BY <1>1, <3>1 DEF TypeInv, WorkerOK
        <3>3. QED
            BY <1>1, <1>2, <2>1, <3>1, <3>2
    <2>4. QED
        BY <2>2, <2>3
<1>3. CASE ~WellFormed(parse_data, t)
    <2>1. /\ failed.error = TRUE /\ failed.element_stack = <<>>
          /\ failed.handler = parse_data.handler /\ failed.open = parse_data.open
          /\ failed.top_element_found = parse_data.top_element_found
          /\ DOMAIN failed = DOMAIN parse_data
        BY DEF TypeInv, ParserOK, ParserForm
    <2> HIDE DEF failed
    <2>2. ParserOK(failed)
        BY <2>1, EmptyIs DEF TypeInv, ParserOK, ParserForm
    <2>3. worker' = [pc |-> "error", obj |-> worker.obj, freed |-> worker.freed]
        BY <1>1, <1>3 DEF TypeInv, WorkerOK
    <2>4. WorkerOK'
        BY <1>1, <2>3 DEF TypeInv, WorkerOK, WorkerPc
    <2>5. QED
        BY <1>1, <1>3, <2>1, <2>2, <2>3, <2>4
<1>4. QED
    BY <1>2, <1>3

LEMMA TypeStep ==
    ASSUME TypeInv, [Next]_vars
    PROVE  TypeInv'
<1> USE DEF TypeInv
<1>1. CASE Read
    BY <1>1 DEF Read, WorkerOK, WorkerPc, HeardOK, PeerOK
<1>2. CASE Parse
    BY <1>2, ParseMoves DEF HeardOK, PeerOK
<1>3. CASE ParseEnd
    BY <1>3 DEF ParseEnd, WorkerOK, WorkerPc, HeardOK, PeerOK
<1>4. CASE Deliver
    <2>1. HeardOK'
        BY <1>4, OneMoreHeard DEF Deliver, WorkerOK
    <2>2. WorkerOK'
        BY <1>4 DEF Deliver, WorkerOK, WorkerPc
    <2>3. QED
        BY <1>4, <2>1, <2>2 DEF Deliver, PeerOK
<1>5. CASE Relock
    <2>1. WorkerOK'
        BY <1>5 DEF Relock, WorkerOK, WorkerPc, Idle
    <2>2. QED
        BY <1>5, <2>1 DEF Relock, HeardOK, PeerOK
<1>6. CASE ParseError
    <2>1. HeardOK'
        BY <1>6, OneMoreHeard, ErrorObject DEF ParseError, Inserted
    <2>2. WorkerOK'
        BY <1>6 DEF ParseError, WorkerOK, WorkerPc, Idle
    <2>3. QED
        BY <1>6, <2>1, <2>2 DEF ParseError, PeerOK
<1>7. CASE Reset
    <2>1. ParserOK(parse_data')
        BY <1>7, EmptyIs DEF Reset, NewParser, ParserOK, ParserForm
    <2>2. WorkerOK'
        BY <1>7 DEF Reset, WorkerOK, WorkerPc
    <2>3. HeardOK'
        BY <1>7, EmptyIs DEF Reset, HeardOK
    <2>4. QED
        BY <1>7, <2>1, <2>2, <2>3 DEF Reset, NewPeer, PeerOK
<1>8. ASSUME NEW o \in Inside, Insert(o)
      PROVE  TypeInv'
    <2>1. HeardOK'
        BY <1>8, OneMoreHeard DEF Insert, Inserted
    <2>2. QED
        BY <1>8, <2>1 DEF Insert, WorkerOK, PeerOK
<1>9. CASE Talking
    <2>1. PeerOK' /\ UNCHANGED <<parse_data, worker, heard, crashed>>
        BY <1>9, PeerSteps DEF Talking
    <2>2. QED
        BY <2>1 DEF WorkerOK, HeardOK
<1>10. CASE UNCHANGED vars
    BY <1>10 DEF vars, WorkerOK, HeardOK, PeerOK
<1>11. QED
    BY <1>1, <1>2, <1>3, <1>4, <1>5, <1>6, <1>7, <1>8, <1>9, <1>10 DEF Next, Talking

-----------------------------------------------------------------------------
(* After an error. The objects that other threads insert are not the parser's. *)
Foretold == ~Overlap /\ ParseErrorObj \notin Inside

LEMMA NotParsed ==
    ASSUME NEW o
    PROVE  [from |-> "parsed", obj |-> o] # Inserted(ParseErrorObj)
<1>1. Inserted(ParseErrorObj).from = "inserted"
    BY DEF Inserted
<1>2. [from |-> "parsed", obj |-> o].from = "parsed"
    OBVIOUS
<1>3. QED
    BY <1>1, <1>2

LEMMA ErrorInit ==
    Init => ErrorInv
BY EmptyIs DEF Init, Idle, ErrorInv

(* An object is heard, and the worker may go on.                             *)
LEMMA HeardAfterError ==
    ASSUME TypeInv, ErrorInv, NEW h, heard' = Append(heard, h),
           parse_data.error = TRUE => parse_data'.error = TRUE,
           worker.pc = "idle" => worker'.pc = "idle",
           worker.pc = "idle" => h.from = "inserted" /\ h.obj # ParseErrorObj,
           h = Inserted(ParseErrorObj) => parse_data'.error = TRUE /\ worker'.pc = "idle",
           worker'.pc = "error" => parse_data'.error = TRUE
    PROVE  ErrorInv'
<1>1. /\ Len(heard') = Len(heard) + 1 /\ Len(heard) \in Nat
      /\ \A i \in 1..Len(heard) : heard'[i] = heard[i]
      /\ heard'[Len(heard) + 1] = h
    BY Appended DEF TypeInv, HeardOK, IsSequence
<1> SUFFICES ASSUME NEW i \in 1..Len(heard'), heard'[i] = Inserted(ParseErrorObj)
             PROVE  /\ parse_data'.error = TRUE
                    /\ worker'.pc = "idle"
                    /\ \A j \in i + 1 .. Len(heard') :
                           heard'[j].from = "inserted" /\ heard'[j].obj # ParseErrorObj
    BY DEF ErrorInv, Inserted, ParseErrorObj
<1>2. CASE i \in 1..Len(heard)
    <2>1. /\ parse_data.error = TRUE
          /\ worker.pc = "idle"
          /\ \A j \in i + 1 .. Len(heard) :
                 heard[j].from = "inserted" /\ heard[j].obj # ParseErrorObj
        BY <1>1, <1>2 DEF ErrorInv
    <2>2. ASSUME NEW j \in i + 1 .. Len(heard')
          PROVE  heard'[j].from = "inserted" /\ heard'[j].obj # ParseErrorObj
        <3>1. CASE j \in i + 1 .. Len(heard)
            <4>1. heard'[j] = heard[j]
                BY <1>1, <1>2, <3>1
            <4>2. QED
                BY <2>1, <3>1, <4>1
        <3>2. CASE j = Len(heard) + 1
            BY <1>1, <2>1, <3>2
        <3>3. QED
            BY <1>1, <1>2, <3>1, <3>2
    <2>3. QED
        BY <2>1, <2>2
<1>3. CASE i = Len(heard) + 1
    BY <1>1, <1>3
<1>4. i \in 1..Len(heard) \/ i = Len(heard) + 1
    <2> HIDE DEF ErrorInv
    <2>1. QED
        BY <1>1
<1>5. QED
    BY <1>2, <1>3, <1>4

LEMMA ErrorStep ==
    ASSUME Foretold, TypeInv, ErrorInv, [Next]_vars
    PROVE  ErrorInv'
<1>1. CASE Read
    BY <1>1 DEF Read, ErrorInv, Inserted, ParseErrorObj, TypeInv, WorkerOK
<1>2. CASE Parse
    <2>1. /\ worker.pc = "parsing" /\ worker'.pc = "error" => parse_data'.error = TRUE
          /\ heard' = heard
        BY <1>2, ParseMoves
    <2>2. \A i \in 1..Len(heard) : heard[i] # Inserted(ParseErrorObj)
        BY <1>2, ParseMoves DEF ErrorInv
    <2>3. QED
        BY <1>2, <2>1, <2>2, ParseMoves DEF ErrorInv, Inserted, ParseErrorObj
<1>3. CASE ParseEnd
    BY <1>3 DEF ParseEnd, ErrorInv, Inserted, ParseErrorObj, TypeInv, WorkerOK
<1>4. CASE Deliver
    <2> DEFINE h == [from |-> "parsed", obj |-> worker.obj]
    <2>1. h # Inserted(ParseErrorObj)
        BY NotParsed
    <2>2. /\ heard' = Append(heard, h) /\ parse_data' = parse_data
          /\ worker.pc = "handler" /\ worker'.pc = "relock"
        BY <1>4 DEF Deliver, TypeInv, WorkerOK
    <2> HIDE DEF h
    <2>3. QED
        BY <2>1, <2>2, HeardAfterError
<1>5. CASE Relock
    BY <1>5 DEF Relock, Idle, ErrorInv, Inserted, ParseErrorObj, TypeInv, WorkerOK
<1>6. CASE ParseError
    <2>1. /\ heard' = Append(heard, Inserted(ParseErrorObj)) /\ parse_data' = parse_data
          /\ worker.pc = "error" /\ worker'.pc = "idle" /\ parse_data.error = TRUE
        BY <1>6 DEF ParseError, Idle, ErrorInv
    <2>2. QED
        BY <2>1, HeardAfterError
<1>7. CASE Reset
    <2>1. worker.pc = "idle" /\ worker' = worker /\ heard' = <<>>
        BY <1>7 DEF Reset, Foretold
    <2>2. QED
        BY <2>1, EmptyIs DEF ErrorInv
<1>8. ASSUME NEW o \in Inside, Insert(o)
      PROVE  ErrorInv'
    <2> DEFINE h == Inserted(o)
    <2>1. h.from = "inserted" /\ h.obj = o /\ o # ParseErrorObj
        BY <1>8 DEF Inserted, Foretold
    <2>2. Inserted(ParseErrorObj).obj = ParseErrorObj
        BY DEF Inserted
    <2>3. heard' = Append(heard, h) /\ parse_data' = parse_data /\ worker' = worker
        BY <1>8 DEF Insert
    <2> HIDE DEF h
    <2>4. QED
        BY <2>1, <2>2, <2>3, HeardAfterError DEF ErrorInv
<1>9. CASE Talking
    <2>1. UNCHANGED <<parse_data, worker, heard, crashed>>
        BY <1>9, PeerSteps DEF Talking, TypeInv
    <2>2. QED
        BY <2>1 DEF ErrorInv, Inserted, ParseErrorObj
<1>10. CASE UNCHANGED vars
    BY <1>10 DEF vars, ErrorInv, Inserted, ParseErrorObj
<1>11. QED
    BY <1>1, <1>2, <1>3, <1>4, <1>5, <1>6, <1>7, <1>8, <1>9, <1>10 DEF Next, Talking

-----------------------------------------------------------------------------
LEMMA TypeAlways ==
    Spec => []TypeInv
<1>1. Init => TypeInv
    BY TypeInit
<1>2. TypeInv /\ [Next]_vars => TypeInv'
    BY TypeStep
<1>3. QED
    BY <1>1, <1>2, PTL DEF Spec

(* What the parser keeps belongs together: the open tags and the stack of      *)
(* elements, whatever text it was given (XmlInputStream.cpp:163-338).          *)
THEOREM TypeCorrect == Spec => []TypeOK
<1>1. TypeInv => TypeOK
    <2> SUFFICES ASSUME TypeInv PROVE TypeOK
        OBVIOUS
    <2>1. DOMAIN heard = 1..Len(heard)
        BY Indices DEF TypeInv, HeardOK
    <2>2. \A i \in DOMAIN heard : heard[i].from \in {"parsed", "inserted"} /\ Valid(heard[i].obj)
        BY <2>1 DEF TypeInv, HeardOK
    <2>3. QED
        BY <2>2 DEF TypeInv, WorkerOK, PeerOK, ParserOK, ParserForm, TypeOK
<1>2. QED
    BY <1>1, TypeAlways, PTL

(* No object of a peer is in a namespace of the library, whatever the peer     *)
(* writes and however reset() is called (XmlInputStream.cpp:321-331).          *)
THEOREM InternalCorrect == Spec => []InternalFromInside
<1>1. TypeInv => InternalFromInside
    <2> SUFFICES ASSUME TypeInv PROVE InternalFromInside
        OBVIOUS
    <2>1. DOMAIN heard = 1..Len(heard)
        BY Indices DEF TypeInv, HeardOK
    <2>2. QED
        BY <2>1 DEF TypeInv, HeardOK, FromPeer, Ours, InternalFromInside, FromWire
<1>2. QED
    BY <1>1, TypeAlways, PTL

(* A parse error is told once and is the last the peer is heard of, when the   *)
(* stream is reset outside the handlers and nobody forges the error's object   *)
(* (XmlInputStream.cpp:575-610).                                             *)
THEOREM ErrorCorrect == Foretold => (Spec => []ErrorIsLast)
<1> SUFFICES ASSUME Foretold PROVE Spec => []ErrorIsLast
    OBVIOUS
<1>1. Init => ErrorInv
    BY ErrorInit
<1>2. TypeInv /\ ErrorInv /\ [Next]_vars => ErrorInv'
    BY ErrorStep
<1>3. TypeInv /\ ErrorInv => ErrorIsLast
    <2> SUFFICES ASSUME TypeInv, ErrorInv PROVE ErrorIsLast
        OBVIOUS
    <2>1. DOMAIN heard = 1..Len(heard)
        BY Indices DEF TypeInv, HeardOK
    <2>2. QED
        BY <2>1 DEF ErrorInv, ErrorIsLast
<1>4. QED
    BY <1>1, <1>2, <1>3, TypeAlways, PTL DEF Spec
=============================================================================
