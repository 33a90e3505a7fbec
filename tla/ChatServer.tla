----------------------------- MODULE ChatServer -----------------------------
(***************************************************************************)
(* The chat servers (server1.cpp, server2.cpp) and the tables they share   *)
(* (mysql.cpp). Every server has one connection, to the balancer, and so   *)
(* one ReadThread; what runs concurrently are the servers, query by query. *)
(*                                                                         *)
(* Requests arrive through the balancer, which has stamped each with the   *)
(* descriptor fd its answer goes to. Names, texts and passwords are        *)
(* abstracted to who asks, for whom, and whether the password is right.    *)
(***************************************************************************)
EXTENDS Integers, Sequences, FiniteSets

CONSTANTS
    Servers,      \* the server processes
    Users,        \* names
    Fds,          \* the balancer's descriptors for clients
    Registered,   \* rows of table user when the servers start
    Inputs,       \* what clients may ask: records of Ask
    MaxRequests,  \* bound: requests in all
    Failing,      \* whether queries may fail
    NoReq         \* no request at hand

ASSUME ChatAssumption ==
    /\ Registered \subseteq Users
    /\ Fds \subseteq Nat /\ Fds # {}
    /\ MaxRequests \in Nat
    /\ Failing \in BOOLEAN

\* name is "name" or "to"; right says whether "pwd" is the user's password.
Types == {"login", "register", "chat", "offline"}
Ask   == [type : Types, name : Users, right : BOOLEAN, fd : Fds]

\* A request is what a client asks, numbered.
Request == [n : 1..MaxRequests, ask : Ask]

ASSUME RequestAssumption == Inputs \subseteq Ask /\ NoReq \notin Request

VARIABLES
    user,      \* table user: the names
    state,     \* table state: rows <<name, socket>>
    message,   \* table message: the requests stored
    recvd,     \* per server, received and not yet taken by recv()
    asked,     \* all requests so far
    pc, root, tempfd, result,
    answers,   \* all that was sent to the balancer
    linked     \* whether the balancer is there

tables  == <<user, state, message>>
locals  == <<pc, root, tempfd, result>>
vars    == <<tables, recvd, asked, locals, answers, linked>>

Offline == -1   \* getStates found no row
Error   == -2   \* the query failed

Init ==
    /\ user = Registered /\ state = {} /\ message = {}
    /\ recvd = [s \in Servers |-> << >>]
    /\ asked = {}
    /\ pc = [s \in Servers |-> "recv"]
    /\ root = [s \in Servers |-> NoReq]
    /\ tempfd = [s \in Servers |-> 0]
    /\ result = [s \in Servers |-> FALSE]
    /\ answers = {}
    /\ linked = TRUE

-----------------------------------------------------------------------------
Goto(s, l) == pc' = [pc EXCEPT ![s] = l]

\* Back to recv(); root, response and tempfd are locals of the loop.
Again(s) ==
    /\ Goto(s, "recv")
    /\ root' = [root EXCEPT ![s] = NoReq]
    /\ tempfd' = [tempfd EXCEPT ![s] = 0]
    /\ result' = [result EXCEPT ![s] = FALSE]

Send(s, what, fd) ==
    answers' = answers \cup {[what |-> what, n |-> root[s].n, fd |-> fd]}

\* A query that may fail leaves its table as it is.
Becomes(table, new) == {new} \cup (IF Failing THEN {table} ELSE {})

\* recv(): all that is there, of which one request is parsed.
Recv(s) ==
    /\ pc[s] = "recv"
    /\ \E upto \in DOMAIN recvd[s] :
          recvd' = [recvd EXCEPT ![s] = SubSeq(@, upto + 1, Len(@))]
    /\ root' = [root EXCEPT ![s] = Head(recvd[s])]
    /\ Goto(s, Head(recvd[s]).ask.type)
    /\ UNCHANGED <<tables, asked, tempfd, result, answers>>

\* Mutant: the password is not looked at.
PasswordIgnored(r) == r.ask.name \in user

PasswordRight(r) == r.ask.name \in user /\ r.ask.right

\* Mutant: a failed login is not answered.
AfterQueryQuiet(ok) == IF ok THEN "insert" ELSE "find"

AfterQuery(ok) == IF ok THEN "insert" ELSE "ack"

\* EN_MSG_LOGIN: queryPasswd
QueryPasswd(s) ==
    /\ pc[s] = "login"
    /\ \E ok \in {PasswordRight(root[s])} \cup (IF Failing THEN {FALSE} ELSE {}) :
          /\ result' = [result EXCEPT ![s] = ok]
          /\ Goto(s, AfterQuery(ok))
    /\ UNCHANGED <<tables, recvd, asked, root, tempfd, answers>>

\* insertIntoStates, whose failure is only logged
InsertIntoStates(s) ==
    /\ pc[s] = "insert"
    /\ state' \in Becomes(state, state \cup {<<root[s].ask.name, root[s].ask.fd>>})
    /\ Goto(s, "ack")
    /\ UNCHANGED <<user, message, recvd, asked, root, tempfd, result, answers>>

AckLogin(s) ==
    /\ pc[s] = "ack"
    /\ Send(s, IF result[s] THEN "ok" ELSE "error", root[s].ask.fd)
    /\ Goto(s, "find")
    /\ UNCHANGED <<tables, recvd, asked, root, tempfd, result>>

Waiting(r) == {m \in message : m.ask.name = r.ask.name}

\* sendMesgFromDb, after a login that failed too: findMesgByName
FindMesg(s) ==
    /\ pc[s] = "find"
    /\ \/ /\ Waiting(root[s]) # {}
          /\ Goto(s, "delete")
          /\ UNCHANGED <<root, tempfd, result>>
       \/ /\ Waiting(root[s]) = {} \/ Failing
          /\ Again(s)
    /\ UNCHANGED <<tables, recvd, asked, answers>>

\* delSendedMsg: one message was fetched, all are deleted, none was sent.
DelSendedMsg(s) ==
    /\ pc[s] = "delete"
    /\ message' \in Becomes(message, message \ Waiting(root[s]))
    /\ Goto(s, "strtok")
    /\ UNCHANGED <<user, state, recvd, asked, root, tempfd, result, answers>>

\* strtok() of a pointer that was never set: the process ends, or goes on and
\* sends a text that is not the message.
SendStored(s) ==
    /\ pc[s] = "strtok"
    /\ \/ /\ Send(s, "stored", root[s].ask.fd)
          /\ Again(s)
       \/ /\ Goto(s, "crashed")
          /\ UNCHANGED <<root, tempfd, result, answers>>
    /\ UNCHANGED <<tables, recvd, asked>>

\* Mutant: any descriptor there is.
RowsOfAnyone(name) == {row[2] : row \in state}

RowsOf(name) == {row[2] : row \in {r \in state : r[1] = name}}

\* Mutant: the other of the two codes.
IsAwayOnError(f) == f = Error

IsAway(f) == f = Offline

\* EN_MSG_CHAT: getStates gives the first row of as many as there are.
GetStates(s) ==
    /\ pc[s] = "chat"
    /\ \E f \in RowsOf(root[s].ask.name) \cup (IF RowsOf(root[s].ask.name) = {} THEN {Offline} ELSE {})
                \cup (IF Failing THEN {Offline, Error} ELSE {}) :
          /\ tempfd' = [tempfd EXCEPT ![s] = f]
          /\ Goto(s, IF IsAway(f) THEN "store" ELSE "forward")
    /\ UNCHANGED <<tables, recvd, asked, root, result, answers>>

\* Mutant: the branch falls through to the one that forwards.
AfterStoreForward == "forward"

AfterStore == "absent"

\* insertIntoMessage, whose failure is only logged
InsertIntoMessage(s) ==
    /\ pc[s] = "store"
    /\ message' \in Becomes(message, message \cup {root[s]})
    /\ Goto(s, AfterStore)
    /\ UNCHANGED <<user, state, recvd, asked, root, tempfd, result, answers>>

TellAbsent(s) ==
    /\ pc[s] = "absent"
    /\ Send(s, "absent", root[s].ask.fd)
    /\ Again(s)
    /\ UNCHANGED <<tables, recvd, asked>>

ForwardChat(s) ==
    /\ pc[s] = "forward"
    /\ Send(s, "chat", tempfd[s])
    /\ Again(s)
    /\ UNCHANGED <<tables, recvd, asked>>

\* EN_MSG_REGISTER: insertIntoUser; whether a name may be there twice is up to
\* the table.
InsertIntoUser(s) ==
    /\ pc[s] = "register"
    /\ \E ok \in {TRUE} \cup (IF Failing \/ root[s].ask.name \in user THEN {FALSE} ELSE {}) :
          /\ user' = IF ok THEN user \cup {root[s].ask.name} ELSE user
          /\ result' = [result EXCEPT ![s] = ok]
    /\ Goto(s, "registered")
    /\ UNCHANGED <<state, message, recvd, asked, root, tempfd, answers>>

AckRegister(s) ==
    /\ pc[s] = "registered"
    /\ Send(s, IF result[s] THEN "yes" ELSE "no", root[s].ask.fd)
    /\ Again(s)
    /\ UNCHANGED <<tables, recvd, asked>>

\* EN_MSG_OFFLINE: close(clientfd), which is the connection to the balancer.
CloseLink(s) ==
    /\ pc[s] = "offline"
    /\ recvd' = [recvd EXCEPT ![s] = << >>]
    /\ Goto(s, "deletestate")
    /\ UNCHANGED <<tables, asked, root, tempfd, result, answers>>

\* delStateByfd calls deleteElemBySocket(1, fd): its arguments are swapped, and
\* with a tag other than 1 all rows are deleted. recv() fails for ever after.
DelState(s) ==
    /\ pc[s] = "deletestate"
    /\ state' \in Becomes(state, {})
    /\ Goto(s, "spin")
    /\ UNCHANGED <<user, message, recvd, asked, root, tempfd, result, answers>>

Loop(s) ==
    \/ Recv(s) \/ QueryPasswd(s) \/ InsertIntoStates(s) \/ AckLogin(s)
    \/ FindMesg(s) \/ DelSendedMsg(s) \/ SendStored(s)
    \/ GetStates(s) \/ InsertIntoMessage(s) \/ TellAbsent(s) \/ ForwardChat(s)
    \/ InsertIntoUser(s) \/ AckRegister(s)
    \/ CloseLink(s) \/ DelState(s)

\* The balancer has ended, and recv() gives 0: ReadThread returns.
LeaveLoop(s) ==
    /\ ~linked /\ pc[s] = "recv" /\ recvd[s] = << >>
    /\ Goto(s, "ended")
    /\ UNCHANGED <<tables, recvd, asked, root, tempfd, result, answers>>

\* The balancer has ended, and send() ends the process with SIGPIPE, at the
\* latest when it is the second.
Killed(s) ==
    /\ ~linked /\ pc[s] \in {"ack", "strtok", "absent", "forward", "registered"}
    /\ Goto(s, "crashed")
    /\ UNCHANGED <<tables, recvd, asked, root, tempfd, result, answers>>

ReadThread(s) == (Loop(s) \/ LeaveLoop(s) \/ Killed(s)) /\ UNCHANGED linked

-----------------------------------------------------------------------------
\* The balancer

Serves(s) == pc[s] \notin {"crashed", "deletestate", "spin", "ended"}

Arrive(s, a) ==
    /\ linked /\ Serves(s) /\ Cardinality(asked) < MaxRequests
    /\ LET r == [n |-> Cardinality(asked) + 1, ask |-> a]
       IN  /\ recvd' = [recvd EXCEPT ![s] = Append(@, r)]
           /\ asked' = asked \cup {r}
    /\ UNCHANGED <<tables, locals, answers, linked>>

\* A client left: deleteElemBySocket(fd, 1)
PurgeRow(f) ==
    /\ linked /\ \E row \in state : row[2] = f
    /\ state' = {row \in state : row[2] # f}
    /\ UNCHANGED <<user, message, recvd, asked, locals, answers, linked>>

\* Its process ends. What the servers have received they have.
BalancerEnds ==
    /\ linked /\ linked' = FALSE
    /\ UNCHANGED <<tables, recvd, asked, locals, answers>>

\* It starts again, when no server is at work for the old one (bound), and
\* finds a ReadThread where the process runs. After an OFFLINE accept() gives
\* the number that was closed, so the thread that spins reads again too, beside
\* the new one: the two are one here, as two they are like two servers. Nobody
\* empties the tables.
BalancerStarts ==
    /\ ~linked /\ linked' = TRUE
    /\ \A s \in Servers : pc[s] \in {"ended", "spin", "crashed"}
    /\ pc' = [s \in Servers |-> IF pc[s] = "crashed" THEN pc[s] ELSE "recv"]
    /\ UNCHANGED <<tables, recvd, asked, root, tempfd, result, answers>>

Balancer ==
    \/ \E s \in Servers, a \in Inputs : Arrive(s, a)
    \/ \E f \in Fds : PurgeRow(f)
    \/ BalancerEnds \/ BalancerStarts

Next == Balancer \/ \E s \in Servers : ReadThread(s)

Spec == Init /\ [][Next]_vars

-----------------------------------------------------------------------------
\* Properties

Lines == Types \cup {"recv", "insert", "ack", "find", "delete", "strtok", "store", "forward",
                     "absent", "registered", "deletestate", "spin", "ended", "crashed"}

\* Every variable stays in its set; nothing is sent to descriptor -1, though
\* getStates may give it.
TypeOK ==
    /\ user \subseteq Users
    /\ state \subseteq Users \X Fds
    /\ message \subseteq Request
    /\ recvd \in [Servers -> Seq(Request)]
    /\ asked \subseteq Request
    /\ pc \in [Servers -> Lines]
    /\ root \in [Servers -> Request \cup {NoReq}]
    /\ tempfd \in [Servers -> Fds \cup {0, Offline, Error}]
    /\ result \in [Servers -> BOOLEAN]
    /\ answers \subseteq [what : {"ok", "error", "stored", "chat", "absent", "yes", "no"},
                          n : 1..MaxRequests, fd : Fds \cup {Error}]
    /\ linked \in BOOLEAN

LoggedIn(name, f) ==
    \E r \in asked : r.ask.type = "login" /\ r.ask.name = name /\ r.ask.fd = f /\ r.ask.right

\* Nobody is in the state table but registered users who logged in, with the
\* right password and through that descriptor.
RowsOfLogins == \A row \in state : row[1] \in user /\ LoggedIn(row[1], row[2])

\* A chat message goes to a descriptor through which its addressee, and not
\* somebody else, logged in, or to nobody after an error; every other answer
\* goes to the descriptor its request came with, and "ok" to right logins only.
SentToLogins ==
    \A a \in answers : \E r \in asked :
        /\ r.n = a.n
        /\ a.what = "ok" => r.ask.type = "login" /\ r.ask.right
        /\ IF a.what = "chat" THEN a.fd = Error \/ LoggedIn(r.ask.name, a.fd) ELSE a.fd = r.ask.fd

\* Why these hold, as an inductive invariant: what is under way was asked, what
\* a server is about to insert or to send was looked up before, and is still
\* true, whatever the other servers did since.
Idle == {"recv", "spin", "ended", "crashed"}

UnderWayAt(s) ==
    /\ \A i \in DOMAIN recvd[s] : recvd[s][i] \in asked
    /\ pc[s] \notin Idle => root[s] \in asked
    /\ pc[s] \in {"login", "insert"} => root[s].ask.type = "login"
    /\ pc[s] = "insert" => PasswordRight(root[s])
    /\ pc[s] = "ack" => root[s].ask.type = "login" /\ (result[s] => PasswordRight(root[s]))
    /\ pc[s] = "forward" => tempfd[s] = Error \/ LoggedIn(root[s].ask.name, tempfd[s])
    /\ pc[s] \in {"find", "delete", "strtok"} => \E a \in answers : a.n = root[s].n

IInv == IsFiniteSet(asked) /\ (\A s \in Servers : UnderWayAt(s)) /\ RowsOfLogins /\ SentToLogins

\* Where a chat message is, in the terms of Mailbox.
PlaceOf(n) ==
    IF ~\E r \in asked : r.n = n /\ r.ask.type = "chat" THEN "away"
    ELSE IF \E a \in answers : a.n = n /\ a.what = "chat" THEN "sent"
    ELSE IF \E m \in message : m.n = n THEN "stored"
    ELSE IF \E s \in Servers : root[s] # NoReq /\ root[s].n = n /\ pc[s] \in {"chat", "store", "forward"}
    THEN "taken"
    ELSE IF \E s \in Servers : \E i \in DOMAIN recvd[s] : recvd[s][i].n = n THEN "away"
    ELSE "over"

Mail == INSTANCE Mailbox WITH Messages <- 1..MaxRequests,
                              place <- [n \in 1..MaxRequests |-> PlaceOf(n)]

\* The servers treat messages as Mailbox says: a message is stored or passed
\* on, by one server, once.
ImplementsMailbox == Mail!MailSpec

\* A message is stored for who is not online, so that none lies in the table for
\* a user who is there while no server has work to do (server2.cpp:41-42).
StoredForAbsent ==
    (\A s \in Servers : pc[s] = "recv") => \A m \in message : RowsOf(m.ask.name) = {}

\* No server asks for more before it has sent something for the request at
\* hand, whatever queries fail.
AnsweredFirst ==
    [][\A s \in Servers :
          pc[s] \notin Idle /\ pc'[s] = "recv" => \E a \in answers' : a.n = root[s].n]_vars

=============================================================================
