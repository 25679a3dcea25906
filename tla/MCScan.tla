------------------------------- MODULE MCScan -------------------------------
(* Instances of Scan for TLC.                                               *)
EXTENDS Scan

AllCalls == {"scan", "deploy", "enable", "link", "suppress", "abort"}
=============================================================================
