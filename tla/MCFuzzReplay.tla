---------------------------- MODULE MCFuzzReplay ----------------------------
(* Small instances of FuzzReplay for TLC. *)
EXTENDS FuzzReplay

\* 0, 60 and 200 take every branch of the code: skip, error or repeat the
\* packet; inject an error or not; make the call or not; fuzz now or later.
MCInputs == UNION {[1..k -> {0, 60, 200}] : k \in {0, 5}}

MCTable == <<"sized", "noop", "plain">>

\* The command lines of the scripts under scripts/tldk, --fuzz_once apart.
MCConfigs == {{"packet", "syscall"}, {"packet"}, {"syscall"},
              {"packet", "syscall", "free"}}

MCOnceConfigs == {c \cup {"once"} : c \in MCConfigs}
=============================================================================
