------------------------------ MODULE MCLifespan ------------------------------
(* The instances of MCCodeIndex inside a process that stops and restarts.  *)
EXTENDS MCCodeIndex, Lifespan
=============================================================================
