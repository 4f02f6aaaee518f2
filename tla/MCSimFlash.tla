----------------------------- MODULE MCSimFlash -----------------------------
(***************************************************************************)
(* SimFlash on a four-byte device with non-uniform sectors (one of two     *)
(* bytes, two of one byte), write alignment 2, payloads of up to two bytes *)
(* mixing 0x00 and 0xff, and up to two bad regions of rates 0, 0.5, 1 and  *)
(* the invalid 1.5.                                                        *)
(*                                                                         *)
(* The history variable programmed records, from the operations and their *)
(* results alone, which bytes an Ok write has programmed since the last Ok *)
(* erase covering them.  It is not read by any SimFlash action, so the     *)
(* behaviours of HSpec are those of Spec.                                  *)
(***************************************************************************)
EXTENDS SimFlash

VARIABLE programmed

MCSectors == <<2, 1, 1>>

\* The bytes of the operation just recorded in last'.
Touched == last'.off .. last'.off + last'.len - 1

HInit == Init /\ programmed = [i \in Addr |-> FALSE]

HNext ==
    /\ Next
    /\ programmed' =
         [i \in Addr |->
            CASE ret' = "Ok" /\ last'.op = "erase" /\ i \in Touched -> FALSE
              [] ret' = "Ok" /\ last'.op = "write" /\ i \in Touched -> TRUE
              [] OTHER -> programmed[i]]

HSpec == HInit /\ [][HNext]_<<vars, programmed>>

(***************************************************************************)
(* NOR erase-before-write, over the history: while verify_writes is on, a  *)
(* write never succeeds on a byte that an earlier successful write         *)
(* programmed after the byte's last successful erase, whatever writes      *)
(* were made with verify_writes off in between (write's loop clears        *)
(* write_safe for every write, checked or not, and only erase sets it).    *)
(***************************************************************************)
ErasedBeforeProgrammed ==
    [][(last'.op = "write" /\ ret' = "Ok" /\ verify_writes) =>
          \A i \in Touched : ~programmed[i]]_<<vars, programmed>>
=============================================================================
