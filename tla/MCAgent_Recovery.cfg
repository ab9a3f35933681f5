\* One instance with two tunnels and two features.
\* The network may stay down and the last instance is followed by none: hence
\* no deadlock check.
CONSTANTS
  MaxInstances = 1
  Forwards = {f1, f2}
  Features = {"filebrowser", "gotty"}
SPECIFICATION FairSpec
PROPERTIES
  Reconnects
  StoppedCleansUp
CHECK_DEADLOCK FALSE
