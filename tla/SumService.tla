------------------------------- MODULE SumService -------------------------------
(***************************************************************************)
(* What the service promises its clients, whatever the number of servers:  *)
(* "entrega logica exatamente uma vez por (client_id, request_id)"         *)
(* (README.md:6).  Requests enter one history, each client's in the order  *)
(* of its identifiers and each once; an answer carries the position of the *)
(* request in the history and the running sum there.                       *)
(***************************************************************************)
EXTENDS Naturals, Sequences

CONSTANTS Clients, Values, MaxUint64

VARIABLES
    history,    \* sequence of [client, req, value, total_sum]
    answers     \* set of [client, req, num_reqs, total_sum] given to clients

serviceVars == <<history, answers>>

Answered(i) == [client    |-> history[i].client,
                req       |-> history[i].req,
                num_reqs  |-> i,
                total_sum |-> history[i].total_sum]

Total == IF history = <<>> THEN 0 ELSE history[Len(history)].total_sum

\* r is the identifier that follows the last one c has in the history.
NextRequest(c, r) ==
    /\ \A i \in DOMAIN history : history[i].client = c => history[i].req < r
    /\ r = 1 \/ \E i \in DOMAIN history : history[i].client = c /\ history[i].req = r - 1

Init == history = <<>> /\ answers = {}

Commit(c, r, v) ==
    /\ NextRequest(c, r)
    /\ Total + v <= MaxUint64
    /\ history' = Append(history, [client |-> c, req |-> r, value |-> v,
                                   total_sum |-> Total + v])
    /\ UNCHANGED answers

Answer(i) ==
    /\ answers' = answers \cup {Answered(i)}
    /\ UNCHANGED history

\* The identifiers that are the first one or follow a recorded one.
Successors == {1} \cup {history[i].req + 1 : i \in DOMAIN history}

Next ==
    \/ \E c \in Clients, r \in Successors, v \in Values : Commit(c, r, v)
    \/ \E i \in DOMAIN history : Answer(i)

Spec == Init /\ [][Next]_serviceVars

================================================================================
