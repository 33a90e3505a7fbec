---------------------------- MODULE MCChatServer ----------------------------
(* Instances of ChatServer for TLC. *)
EXTENDS ChatServer, TLC

CONSTANTS s1, s2, u1, u2

Asks(type, names, fds, rights) == [type : {type}, name : names, right : rights, fd : fds]

\* u1 is registered and logs in through 4, somebody through 5 guesses its
\* password; u2 registers first.
Mixed == Asks("login", {u1}, {4}, {TRUE}) \cup Asks("login", {u1}, {5}, {FALSE})
         \cup Asks("login", {u2}, {5}, {TRUE}) \cup Asks("register", {u2}, {5}, {TRUE})
         \cup Asks("chat", {u1}, {5}, {TRUE}) \cup Asks("chat", {u2}, {4}, {TRUE})
         \cup Asks("offline", {u1}, {4}, {TRUE})

\* u1 logs in while somebody writes to it.
Meet == Asks("login", {u1}, {4}, {TRUE}) \cup Asks("chat", {u1}, {5}, {TRUE})

=============================================================================
