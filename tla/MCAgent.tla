------------------------------ MODULE MCAgent -------------------------------
(* Small instances of Agent.                                               *)
EXTENDS Agent

\* Requests reach the first instance, or instances follow each other without
\* any: a state of neither kind is not followed any further.
RequestsOrSuccessors ==
  \/ \A i \in Instances \ {1} : at[i]["starter"] = "none"
  \/ \A i \in Instances, r \in Requests : job[i][r] = "none"
=============================================================================
