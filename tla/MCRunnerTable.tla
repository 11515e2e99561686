--------------------------- MODULE MCRunnerTable ---------------------------
(* A small runner: fewer pids than a busy host, so that they are recycled. *)
EXTENDS RunnerTable

\* Pids are data of the request and of the table, so numbers; the rest are
\* model values of the cfg.
MCPids == 1..2
=============================================================================
