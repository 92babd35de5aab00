----------------------------- MODULE MCReactor ------------------------------
(* Reactor for TLC *)
EXTENDS Reactor

CONSTANTS s1, s2, t1

OneStream == {s1}
TwoStreams == {s1, s2}
OneThread == {t1}
NoThreads == {}
Tcp == {"tcp"}
TcpAndTls == {"tcp", "tls"}

\* One session in depth: its client sends and may reset the connection.
SessionEvents == {"data", "reset"}
\* The pool of workers: the clients only come and go, everything may fail.
PoolEvents == {"half", "shutdown", "poll", "accept", "register", "spawn"}
=============================================================================
