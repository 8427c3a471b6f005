------------------------------ MODULE FileLife ------------------------------
(***************************************************************************)
(* What the file reference count promises to its callers, with no counter  *)
(* in it: a struct file starts with one reference, references come and go  *)
(* while the object exists, and the object is torn down once, at a moment  *)
(* when nobody holds a reference, after which nobody ever gets one.        *)
(***************************************************************************)
EXTENDS Naturals

VARIABLES
  refs,    \* references handed out and not yet given back
  freed    \* how many times the object was torn down

Init == refs = 1 /\ freed = 0

Get == freed = 0 /\ refs' = refs + 1 /\ UNCHANGED freed

Put == refs > 0 /\ refs' = refs - 1 /\ UNCHANGED freed

Free == refs = 0 /\ freed = 0 /\ freed' = 1 /\ UNCHANGED refs

Next == Get \/ Put \/ Free

Spec == Init /\ [][Next]_<<refs, freed>>

=============================================================================
