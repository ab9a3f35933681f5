\* One instance with two tunnels and every feature, or three instances that
\* fail in one goroutine or in both, without requests.
\* The network may stay down and the last instance is followed by none: hence
\* no deadlock check.
CONSTANTS
  MaxInstances = 3
  Forwards = {f1, f2}
  Features = {"novnc", "filebrowser", "gotty"}
SPECIFICATION Spec
CONSTRAINT RequestsOrSuccessors
INVARIANTS
  TypeOK
  Recorded
  OnlyLateSurvives
  OneRequestOvertime
  AgentsConserved
CHECK_DEADLOCK FALSE
