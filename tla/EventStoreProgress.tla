------------------------- MODULE EventStoreProgress -------------------------
(***************************************************************************)
(* What the event store must do in the end, once failures are over.        *)
(***************************************************************************)
EXTENDS EventStore

VARIABLE failing    \* whether jobs and destinations still fail

progressVars == <<vars, failing>>

\* The last failure is over.
Mend == failing /\ failing' = FALSE /\ UNCHANGED vars

ProgressNext ==
  \/ Works /\ UNCHANGED failing
  \/ failing /\ Fails /\ UNCHANGED failing
  \/ Mend

(***************************************************************************)
(* The scheduler starts the jobs again and again and lets them run, a      *)
(* request ends, time passes, and there is a last failure.                 *)
(***************************************************************************)
Fairness ==
  /\ SF_vars(Tick)
  /\ WF_progressVars(Mend)
  /\ \A r \in Requests : WF_vars(Commit(r) \/ Drop(r))
  /\ \A j \in Jobs : WF_vars(Rotation(j))
  /\ \A p \in Deliverers : WF_vars(Delivery(p))

ProgressSpec ==
  /\ Init /\ failing = TRUE
  /\ [][ProgressNext]_progressVars
  /\ Fairness

\* The events received early enough to leave the lag within the bound on time.
Old(m) == stored[m] # Never /\ stored[m] + Lag <= MaxTime

\* Every accepted event reaches the chunks, or its actor is erased: a rotation
\* goes on where the last one stopped, also behind a full page.
EventuallyRotated ==
  \A m \in Messages : Old(m) ~> matrix[m] > 0 \/ stored[m] = Never

\* Every accepted event reaches every destination, or its actor is erased:
\* one destination that fails does not keep the others from their turn.
EventuallyForwarded ==
  \A m \in Messages, d \in Range(Destinations) :
    Old(m) ~> m \in forwarded[d] \/ stored[m] = Never

\* "Raw rows live only as long as deduplication needs them" (STORAGE.md): one
\* that is out of the window is deleted once the slowest destination passed it.
RawIsPruned ==
  \A m \in Messages, t \in {u \in Time : u + DedupWindow < MaxTime} :
    raw[m] = t ~> raw[m] # t

=============================================================================
