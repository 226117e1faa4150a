----------------------------- MODULE MCNewsRefresh -----------------------------
(***************************************************************************)
(* An instance of NewsRefresh: the worker of the server and the news page. *)
(***************************************************************************)
EXTENDS NewsRefresh

CONSTANTS worker, page
================================================================================
