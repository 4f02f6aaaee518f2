---------------------------- MODULE TrailerFields ----------------------------
(***************************************************************************)
(* An image trailer as BootGo and Harness see it: three fields, magic,     *)
(* image_ok and copy_done, each erased or written.  Writing a field that   *)
(* is already written is a write to an unerased location, which the        *)
(* simulator (verifying writes) turns into a panic; erasing the sector     *)
(* clears all three.                                                       *)
(***************************************************************************)
VARIABLES
    fields,     \* [magic, image_ok, copy_done |-> "E" or "Set"]
    fault,      \* "none", or the panic that stopped the process
    step        \* the field the last step set, "erase" or "none"

vars == <<fields, fault, step>>

Names == {"magic", "image_ok", "copy_done"}
Blank == [f \in Names |-> "E"]

Init == fields = Blank /\ fault = "none" /\ step = "none"

SetField(f) ==
    /\ fault = "none"
    /\ step' = f
    /\ IF fields[f] = "Set"
       THEN fault' = "Write to unerased location" /\ UNCHANGED fields
       ELSE fields' = [fields EXCEPT ![f] = "Set"] /\ UNCHANGED fault

EraseAll ==
    /\ fault = "none"
    /\ fields' = Blank
    /\ step' = "erase"
    /\ UNCHANGED fault

Next == (\E f \in Names : SetField(f)) \/ EraseAll

Spec == Init /\ [][Next]_vars
=============================================================================
