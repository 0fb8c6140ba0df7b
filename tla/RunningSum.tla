------------------------------- MODULE RunningSum -------------------------------
(***************************************************************************)
(* What the user of a client is promised, whatever network and servers do  *)
(* (client/processing.py: enviar_valor_stop_and_wait): the values typed    *)
(* are added up one after the other, and the totals right after each are   *)
(* printed before the next one is added.                                   *)
(***************************************************************************)
EXTENDS Naturals, Sequences

CONSTANT Inputs    \* the values typed

VARIABLES
    count, total,  \* the values added, and their sum
    printed        \* the totals printed

sumVars == <<count, total, printed>>

Init == count = 0 /\ total = 0 /\ printed = <<>>

Add ==
    /\ count = Len(printed) /\ count < Len(Inputs)
    /\ count' = count + 1
    /\ total' = total + Inputs[count + 1]
    /\ UNCHANGED printed

Report ==
    /\ count = Len(printed) + 1
    /\ printed' = Append(printed, [num_reqs |-> count, total_sum |-> total])
    /\ UNCHANGED <<count, total>>

Next == Add \/ Report

Spec == Init /\ [][Next]_sumVars

================================================================================
