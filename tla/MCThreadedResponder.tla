------------------------ MODULE MCThreadedResponder ------------------------
(* Small instances of ThreadedResponder for TLC. *)
EXTENDS ThreadedResponder
=============================================================================
