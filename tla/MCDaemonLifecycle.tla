------------------------- MODULE MCDaemonLifecycle -------------------------
(* Small instances of DaemonLifecycle for TLC.                               *)
EXTENDS DaemonLifecycle, TLC

CONSTANTS t1, t2, t3

\* One terminal: every command after every other, never two at a time.
OneUser == t1 :> <<"start", "restart", "stop", "start">> @@ t2 :> <<>> @@ t3 :> <<>>

\* Three terminals start a daemon at once, one of them twice.
Starters == t1 :> <<"start", "start">> @@ t2 :> <<"start">> @@ t3 :> <<"start">>

\* Three terminals stop the same daemon.
Stoppers == t1 :> <<"start", "stop">> @@ t2 :> <<"stop">> @@ t3 :> <<"stop">>

MCScripts == {OneUser, Starters, Stoppers}

\* A start while another terminal stops the daemon.
StopAndStart == {t1 :> <<"start", "stop">> @@ t2 :> <<"start">>}

Symmetry == Permutations(Processes)
=============================================================================
