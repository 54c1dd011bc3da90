---------------------------- MODULE MCScanTyping ----------------------------
(* ScanTyping for TLC. *)
EXTENDS ScanTyping
=============================================================================
