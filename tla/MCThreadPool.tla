---------------------------- MODULE MCThreadPool ----------------------------
(* A pool of up to three worker threads and the owner, three runs. *)
EXTENDS ThreadPool
=============================================================================
