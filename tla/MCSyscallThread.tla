--------------------------- MODULE MCSyscallThread ---------------------------
(* Small instances of SyscallThread for TLC. *)
EXTENDS SyscallThread

\* Every script of up to MaxEvents events of the given kinds.
ScriptsOf(kinds, maxEvents) ==
    UNION {[1..n -> kinds] : n \in 1..maxEvents}

\* Every kind of event whose handler calls begin_syscall().
MCScripts == ScriptsOf(EventKinds \ {"splice"}, 3)

\* A blocking splice().
MCSpliceScripts == ScriptsOf({"splice", "timed"}, 2)
=============================================================================
