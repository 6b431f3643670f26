---------------------------- MODULE MCRipLifecycle ----------------------------
(***************************************************************************)
(* RipLifecycle for TLC: which connections scan and identify.              *)
(***************************************************************************)
EXTENDS RipLifecycle

CONSTANTS p1, p2

\* The desktop application scans and identifies in its worker only.
Desktop == {<<p1, "worker">>}

\* The command line does it in the session's connection, while the worker
\* thread that LibrarySession::open spawned is still recovering.
CommandLine == {<<p1, "session">>}

\* The command line beside an open desktop application.
Both == {<<p1, "worker">>, <<p2, "session">>}
=============================================================================
