-------------------------------- MODULE Pointers --------------------------------
(* The null pointer, and the value of a variable that stands for nothing.   *)
CONSTANT NULL
================================================================================
