---------------------------- MODULE MCHttpClient ----------------------------
(* Two calls that ask for more time than the budget for retries gives. *)
EXTENDS HttpClient

CONSTANTS c1, c2

AskedLong == [c \in Call |-> 4]
=============================================================================
