------------------------------ MODULE WebhookRequests ------------------------------
(***************************************************************************)
(* The requests posted to the completion webhook, each once: a client that *)
(* tries again posts another.                                              *)
(***************************************************************************)
CONSTANT Requests
================================================================================
