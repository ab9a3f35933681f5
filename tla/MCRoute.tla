-------------------------------- MODULE MCRoute --------------------------------
\* A small instance of GostRoute on its own.
EXTENDS GostRoute
================================================================================
