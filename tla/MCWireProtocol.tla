--------------------------- MODULE MCWireProtocol ---------------------------
(* Small instances of WireProtocol for TLC. *)
EXTENDS WireProtocol

\* Every script of up to four events: enough for two separate runs of packets
\* with a local event before, between and after, and for a run of two.
MCScripts == UNION {[1..n -> EventKinds] : n \in 1..4}

=============================================================================
