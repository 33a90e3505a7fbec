------------------------------ MODULE Mailbox ------------------------------
(***************************************************************************)
(* What the chat servers do with a chat message: one server takes it, and  *)
(* passes it on, or stores it, or loses it; a stored one stays until it is *)
(* fetched, together with others. No message is both passed on and stored, *)
(* and none comes back. Messages that are over were fetched or lost.       *)
(***************************************************************************)
CONSTANT Messages

VARIABLE place   \* where each message is

Places == {"away", "taken", "sent", "stored", "over"}

MailInit == place = [n \in Messages |-> "away"]

Moves(S, from, to) ==
    /\ \A n \in S : place[n] = from
    /\ place' = [n \in Messages |-> IF n \in S THEN to ELSE place[n]]

\* One is taken, others that came with it are not seen.
Receive(n, S) ==
    /\ \A m \in S \cup {n} : place[m] = "away"
    /\ place' = [m \in Messages |-> IF m = n THEN "taken"
                                    ELSE IF m \in S THEN "over" ELSE place[m]]

Pass(n)  == Moves({n}, "taken", "sent")
Store(n) == Moves({n}, "taken", "stored")
Lose(n)  == Moves({n}, "taken", "over")
Miss(S)  == Moves(S, "away", "over")
Fetch(S) == Moves(S, "stored", "over")

MailNext ==
    \/ \E n \in Messages : Pass(n) \/ Store(n) \/ Lose(n)
    \/ \E S \in SUBSET Messages : Miss(S) \/ Fetch(S)
    \/ \E n \in Messages, S \in SUBSET Messages : Receive(n, S)

MailSpec == MailInit /\ [][MailNext]_place

=============================================================================
