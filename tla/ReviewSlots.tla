------------------------------ MODULE ReviewSlots ------------------------------
(***************************************************************************)
(* What the review queue promises, without its coroutines, locks and maps: *)
(* every pull request has one slot, which holds the newest accepted job or *)
(* nothing once the PR is closed; only the job in the slot may start, one  *)
(* job runs at a time, and a job that lost its slot is dropped unstarted.  *)
(***************************************************************************)
CONSTANTS Jobs, PRs, NoJob, prOf

Phases == {"new", "rejected", "waiting", "running", "over"}

VARIABLES phase,   \* the progress of each job
          wanted,  \* the slot of each PR
          open     \* the program is not shutting down

vars == <<phase, wanted, open>>

Init ==
  /\ phase = [j \in Jobs |-> "new"]
  /\ wanted = [p \in PRs |-> NoJob]
  /\ open = TRUE

Move(j, from, to) == phase[j] = from /\ phase' = [phase EXCEPT ![j] = to]

\* A new job takes the slot of its PR, whoever held it.
Accept(j) ==
  /\ open
  /\ Move(j, "new", "waiting")
  /\ wanted' = [wanted EXCEPT ![prOf[j]] = j]
  /\ UNCHANGED open

Reject(j) == Move(j, "new", "rejected") /\ UNCHANGED <<wanted, open>>

Close(p) ==
  /\ open
  /\ wanted' = [wanted EXCEPT ![p] = NoJob]
  /\ UNCHANGED <<phase, open>>

Start(j) ==
  /\ wanted[prOf[j]] = j
  /\ \A i \in Jobs : phase[i] # "running"
  /\ Move(j, "waiting", "running")
  /\ UNCHANGED <<wanted, open>>

Finish(j) == Move(j, "running", "over") /\ UNCHANGED <<wanted, open>>

Drop(j) ==
  /\ wanted[prOf[j]] # j \/ ~open
  /\ Move(j, "waiting", "over")
  /\ UNCHANGED <<wanted, open>>

Shut == open /\ open' = FALSE /\ UNCHANGED <<phase, wanted>>

Next ==
  \/ \E j \in Jobs : Accept(j) \/ Reject(j) \/ Start(j) \/ Finish(j) \/ Drop(j)
  \/ \E p \in PRs : Close(p)
  \/ Shut

\* A job that has started ends.
Spec == Init /\ [][Next]_vars /\ \A j \in Jobs : WF_vars(Finish(j))

=============================================================================
