---------------------------- MODULE MCChatSystem ----------------------------
(* Instances of ChatSystem for TLC. *)
EXTENDS ChatSystem, TLC

CONSTANTS s1, s2, u1, u2, w1, w2

Asks(type, names, fds, rights) == [type : {type}, name : names, right : rights, fd : fds]

\* Under number 4 u1 logs in or somebody guesses its password, and writes to u1;
\* under 5 u2 is registered and logs in, and a client leaves. Either number may
\* be one client's after the other.
Talk == Asks("login", {u1}, {4}, BOOLEAN) \cup Asks("chat", {u1}, {4}, {TRUE})
        \cup Asks("register", {u2}, {5}, {TRUE}) \cup Asks("login", {u2}, {5}, {TRUE})
        \cup Asks("offline", {u2}, {5}, {TRUE})

AllToOne == [c \in 1..MaxClients |-> s1]

=============================================================================
