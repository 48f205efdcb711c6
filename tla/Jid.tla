---------------------------------- MODULE Jid ----------------------------------
(****************************************************************************)
(* JIDs and their textual form (src/src/uxmpp/Jid.cpp). Text is a sequence   *)
(* of characters, of which only "@" and "/" matter.                          *)
(****************************************************************************)
EXTENDS Naturals, SequencesExt

CONSTANT MaxPart  \* the longest local, domain or resource part: 1023

ASSUME JidAssumption == MaxPart \in Nat

(* set_local, set_domain, set_resource: of what is too long, the rest of the  *)
(* text is kept, not the beginning.                                          *)
Part(text) == IF Len(text) > MaxPart THEN SubSeq(text, MaxPart + 1, Len(text)) ELSE text

JidOf(local, domain, resource) ==
    [local |-> Part(local), domain |-> Part(domain), resource |-> Part(resource)]

Upto(text, i) == SubSeq(text, 1, i - 1)
After(text, i) == SubSeq(text, i + 1, Len(text))

(* Jid::Jid(text). Without "@" it is a local part, whatever else it has; a    *)
(* single character after the "@" is ignored.                                *)
Jid(text) ==
    LET at    == SelectInSeq(text, LAMBDA c : c = "@")
        rest  == After(text, at)
        slash == SelectInSeq(rest, LAMBDA c : c = "/") IN
    IF at = 0 THEN JidOf(text, <<>>, <<>>)
    ELSE IF Len(rest) <= 1 THEN JidOf(Upto(text, at), <<>>, <<>>)
    ELSE IF slash = 0 THEN JidOf(Upto(text, at), rest, <<>>)
    ELSE JidOf(Upto(text, at), Upto(rest, slash), After(rest, slash))

bare(jid) == JidOf(jid.local, jid.domain, <<>>)
is_bare(jid) == jid.resource = <<>>

(* to_string                                                                *)
to_string(jid) ==
    jid.local
    \o (IF jid.domain = <<>> THEN <<>> ELSE <<"@">> \o jid.domain)
    \o (IF jid.resource = <<>> THEN <<>>
        ELSE (IF jid.domain = <<>> THEN <<"@">> ELSE <<>>) \o <<"/">> \o jid.resource)
=============================================================================
