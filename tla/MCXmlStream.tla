----------------------------- MODULE MCXmlStream -----------------------------
(* Instances of XmlStream for TLC.                                          *)
EXTENDS XmlStream, TLC

(* Buffer addresses are interchangeable.                                    *)
BufSymmetry == Permutations(Buf)
=============================================================================
