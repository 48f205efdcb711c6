------------------------------ MODULE MCSession ------------------------------
(* Instances of Session for TLC.                                            *)
EXTENDS Session

(* What a peer sends that never restarts the stream.                        *)
PlainPeer == {"stream", "bind", "bound", "iq", "error", "end"}

(* What changes the state of a session or restarts its stream.              *)
CorePeer == {"stream", "bound", "success", "end"}

AnyPeer == Kind
=============================================================================
