--------------------------- MODULE MCApiCallRetry ---------------------------
(* One sync job and the retry task, which share the client and the token. *)
EXTENDS ApiCallRetry
=============================================================================
