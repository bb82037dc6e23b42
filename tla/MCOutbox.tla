------------------------------ MODULE MCOutbox ------------------------------
(* A small instance of Outbox for TLC: two rows, one of which enqueues a    *)
(* generation task, and relays beside the API.                              *)
EXTENDS Outbox
=============================================================================
