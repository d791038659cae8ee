---------------------------- MODULE MCWebEngine ----------------------------
(* Two sizes of pictures and two orders, three calls and two error events. *)
EXTENDS WebEngine
=============================================================================
