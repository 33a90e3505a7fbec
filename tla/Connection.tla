----------------------------- MODULE Connection -----------------------------
(***************************************************************************)
(* What the load balancer promises of a client connection: it passes from  *)
(* the listening queue through the main thread and the pipe to one worker, *)
(* which keeps it until it is closed. What one read() takes beside the     *)
(* first notice is lost. No connection goes back, or from one worker to another. *)
(***************************************************************************)
CONSTANTS Clients, Workers

VARIABLE place   \* where each client's connection is

\* The places other than with a worker.
Elsewhere == {"away", "queued", "listener", "pipe", "lost", "closed"}

ConnInit == place = [c \in Clients |-> "away"]

Moves(c, from, to) ==
    /\ place[c] \in from
    /\ place' = [place EXCEPT ![c] = to]

Arrive(c) == Moves(c, {"away"}, "queued")
Accepted(c) == Moves(c, {"queued"}, "listener")
Handed(c) == Moves(c, {"listener"}, "pipe")
Drop(c) == Moves(c, Workers, "closed")

\* Worker w reads the pipe: it gets one connection; others there may be lost.
Take(c, w) ==
    /\ place[c] = "pipe"
    /\ \E lost \in SUBSET {d \in Clients \ {c} : place[d] = "pipe"} :
          place' = [d \in Clients |-> IF d = c THEN w
                                     ELSE IF d \in lost THEN "lost" ELSE place[d]]

ConnNext == \E c \in Clients :
    \/ Arrive(c) \/ Accepted(c) \/ Handed(c) \/ Drop(c)
    \/ \E w \in Workers : Take(c, w)

ConnSpec == ConnInit /\ [][ConnNext]_place

=============================================================================
