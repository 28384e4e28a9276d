----------------------------- MODULE MCThreadPool -----------------------------
(* The four workers of main, three connections, and a panic for each worker. *)
EXTENDS ThreadPool
===============================================================================
