------------------------------ MODULE MCLlmReview ------------------------------
(* Three turns: tool calls, a reminder and its answer, in any order.       *)
EXTENDS LlmReview
=============================================================================
