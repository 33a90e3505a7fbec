------------------------- MODULE ChatServer_proofs -------------------------
(***************************************************************************)
(* What holds of ChatServer for every number of servers, users, descriptors *)
(* and requests, whether queries fail or not.                              *)
(***************************************************************************)
EXTENDS ChatServer, FiniteSetTheorems, SequenceTheorems, TLAPS

Good == TypeOK /\ IInv

Whats == {"ok", "error", "stored", "chat", "absent", "yes", "no"}

\* Neither code of getStates is a descriptor, and they differ.
LEMMA Codes == Offline \notin Fds /\ Error \notin Fds /\ Offline # Error
BY ChatAssumption DEF Offline, Error

\* The initial state satisfies the invariant.
LEMMA GoodInit == Init => Good
<1> SUFFICES ASSUME Init PROVE Good
  OBVIOUS
<1>1. TypeOK
  BY ChatAssumption DEF Init, TypeOK, Lines
<1>2. IsFiniteSet(asked)
  BY FS_EmptySet DEF Init
<1>3. (\A s \in Servers : UnderWayAt(s)) /\ RowsOfLogins /\ SentToLogins
  BY DEF Init, UnderWayAt, Idle, RowsOfLogins, SentToLogins
<1>4. QED
  BY <1>1, <1>2, <1>3 DEF Good, IInv

-----------------------------------------------------------------------------
\* The parts a request is made of.
LEMMA RequestParts ==
    ASSUME NEW r \in Request
    PROVE  /\ r.n \in 1..MaxRequests /\ r.ask \in Ask
           /\ r.ask.type \in Types /\ r.ask.name \in Users /\ r.ask.fd \in Fds
BY DEF Request, Ask

\* Who logged in did so through a descriptor of the balancer.
LEMMA LoggedInFd ==
    ASSUME TypeOK, NEW name, NEW f, LoggedIn(name, f)
    PROVE  name \in Users /\ f \in Fds
BY RequestParts DEF TypeOK, LoggedIn

\* The outcome of queryPasswd is one of two.
LEMMA PasswordBoolean == ASSUME NEW r PROVE PasswordRight(r) \in BOOLEAN
BY Zenon DEF PasswordRight

\* The end of a round of the loop keeps the types.
LEMMA AgainType ==
    ASSUME TypeOK, NEW s \in Servers, Again(s)
    PROVE  /\ pc' \in [Servers -> Lines]
           /\ root' \in [Servers -> Request \cup {NoReq}]
           /\ tempfd' \in [Servers -> Fds \cup {0, Offline, Error}]
           /\ result' \in [Servers -> BOOLEAN]
BY DEF TypeOK, Again, Goto, Lines

\* send() keeps the type of answers.
LEMMA SendType ==
    ASSUME TypeOK, NEW s \in Servers, root[s] \in Request, NEW what \in Whats,
           NEW f \in Fds \cup {Error}, Send(s, what, f)
    PROVE  answers' \subseteq [what : Whats, n : 1..MaxRequests, fd : Fds \cup {Error}]
BY RequestParts DEF TypeOK, Send, Whats

\* send() sends for the request at hand.
LEMMA SomethingSent ==
    ASSUME NEW s, NEW what, NEW f, Send(s, what, f)
    PROVE  \E a \in answers' : a.n = root[s].n
<1> DEFINE a == [what |-> what, n |-> root[s].n, fd |-> f]
<1>1. a \in answers' /\ a.n = root[s].n
  BY DEF Send
<1>2. QED
  BY <1>1

\* Every step of a server keeps the types.
LEMMA ServerType == ASSUME Good, NEW s \in Servers, ReadThread(s) PROVE TypeOK'
<1> USE DEF TypeOK, Goto, tables, Whats
<1>0. TypeOK /\ UnderWayAt(s) /\ linked' = linked
  BY DEF Good, IInv, ReadThread
<1>1. pc[s] \notin Idle => root[s] \in Request /\ root[s].ask.name \in Users /\ root[s].ask.fd \in Fds
  BY <1>0, RequestParts DEF UnderWayAt
<1>2. CASE Recv(s)
  <2>1. PICK upto \in DOMAIN recvd[s] : recvd' = [recvd EXCEPT ![s] = SubSeq(@, upto + 1, Len(@))]
    BY <1>2 DEF Recv
  <2>2. recvd[s] \in Seq(Request) /\ Head(recvd[s]) \in Request
    BY <1>0, <2>1
  <2>3. SubSeq(recvd[s], upto + 1, Len(recvd[s])) \in Seq(Request)
    BY <2>1, <2>2, SubSeqProperties
  <2>4. Head(recvd[s]).ask.type \in Lines
    BY <2>2, RequestParts DEF Lines
  <2>5. QED
    BY <1>0, <1>2, <2>1, <2>2, <2>3, <2>4 DEF Recv
<1>3. CASE QueryPasswd(s)
  <2>1. PICK ok \in {PasswordRight(root[s])} \cup (IF Failing THEN {FALSE} ELSE {}) :
           result' = [result EXCEPT ![s] = ok] /\ Goto(s, AfterQuery(ok))
    BY <1>3 DEF QueryPasswd
  <2>2. ok \in BOOLEAN
    BY <2>1, PasswordBoolean, ChatAssumption
  <2>3. result' \in [Servers -> BOOLEAN]
    BY <1>0, <2>1, <2>2
  <2>4. pc' \in [Servers -> Lines]
    BY <1>0, <2>1 DEF AfterQuery, Lines
  <2>5. QED
    BY <1>0, <1>3, <2>3, <2>4 DEF QueryPasswd
<1>4. CASE InsertIntoStates(s)
  BY <1>0, <1>1, <1>4 DEF InsertIntoStates, Becomes, Lines, Idle
<1>5. CASE AckLogin(s)
  BY <1>0, <1>1, <1>5, SendType DEF AckLogin, Lines, Idle
<1>6. CASE FindMesg(s)
  BY <1>0, <1>6, AgainType DEF FindMesg, Lines
<1>7. CASE DelSendedMsg(s)
  BY <1>0, <1>7 DEF DelSendedMsg, Becomes, Lines
<1>8. CASE SendStored(s)
  BY <1>0, <1>1, <1>8, SendType, AgainType DEF SendStored, Lines, Idle
<1>9. CASE GetStates(s)
  <2>1. RowsOf(root[s].ask.name) \subseteq Fds
    BY <1>0 DEF RowsOf
  <2>2. QED
    BY <1>0, <1>9, <2>1 DEF GetStates, Lines
<1>10. CASE InsertIntoMessage(s)
  BY <1>0, <1>1, <1>10 DEF InsertIntoMessage, Becomes, AfterStore, Lines, Idle
<1>11. CASE TellAbsent(s)
  BY <1>0, <1>1, <1>11, SendType, AgainType DEF TellAbsent, Idle
<1>12. CASE ForwardChat(s)
  <2>1. tempfd[s] \in Fds \cup {Error}
    BY <1>0, <1>12, LoggedInFd DEF ForwardChat, UnderWayAt
  <2>2. QED
    BY <1>0, <1>1, <1>12, <2>1, SendType, AgainType DEF ForwardChat, Idle
<1>13. CASE InsertIntoUser(s)
  BY <1>0, <1>1, <1>13 DEF InsertIntoUser, Lines, Idle
<1>14. CASE AckRegister(s)
  BY <1>0, <1>1, <1>14, SendType, AgainType DEF AckRegister, Idle
<1>15. CASE CloseLink(s)
  BY <1>0, <1>15 DEF CloseLink, Lines
<1>16. CASE DelState(s)
  BY <1>0, <1>16 DEF DelState, Becomes, Lines
<1>17. CASE LeaveLoop(s) \/ Killed(s)
  BY <1>0, <1>17 DEF LeaveLoop, Killed, Lines
<1>18. QED
  BY <1>2, <1>3, <1>4, <1>5, <1>6, <1>7, <1>8, <1>9, <1>10, <1>11, <1>12, <1>13,
     <1>14, <1>15, <1>16, <1>17 DEF ReadThread, Loop

\* So do the steps of the balancer; it also counts what it has sent.
LEMMA BalancerType ==
    ASSUME Good, Balancer
    PROVE  TypeOK' /\ IsFiniteSet(asked')
<1>0. TypeOK /\ IsFiniteSet(asked)
  BY DEF Good, IInv
<1>1. ASSUME NEW s \in Servers, NEW a \in Inputs, Arrive(s, a) PROVE TypeOK' /\ IsFiniteSet(asked')
  <2> DEFINE r == [n |-> Cardinality(asked) + 1, ask |-> a]
  <2>1. recvd' = [recvd EXCEPT ![s] = Append(@, r)] /\ asked' = asked \cup {r}
    BY <1>1 DEF Arrive
  <2>2. Cardinality(asked) \in Nat /\ Cardinality(asked) < MaxRequests
    BY <1>0, <1>1, FS_CardinalityType DEF Arrive
  <2>3. r \in Request
    BY <2>2, RequestAssumption, ChatAssumption DEF Request
  <2>4. IsFiniteSet(asked')
    BY <1>0, <2>1, FS_AddElement
  <2> HIDE DEF r
  <2>5. recvd' \in [Servers -> Seq(Request)] /\ asked' \subseteq Request
    BY <1>0, <2>1, <2>3 DEF TypeOK, r
  <2>6. QED
    BY <1>0, <1>1, <2>4, <2>5 DEF Arrive, TypeOK, tables, locals
<1>2. ASSUME NEW f \in Fds, PurgeRow(f) PROVE TypeOK' /\ IsFiniteSet(asked')
  BY <1>0, <1>2 DEF PurgeRow, TypeOK, locals
<1>3. CASE BalancerEnds
  BY <1>0, <1>3 DEF BalancerEnds, TypeOK, tables, locals
<1>4. CASE BalancerStarts
  <2>1. pc' \in [Servers -> Lines]
    BY <1>0, <1>4 DEF BalancerStarts, TypeOK, Lines
  <2>2. QED
    BY <1>0, <1>4, <2>1 DEF BalancerStarts, TypeOK, tables
<1>5. QED
  BY <1>1, <1>2, <1>3, <1>4 DEF Balancer

-----------------------------------------------------------------------------
\* Who logged in has logged in for good, and a right password stays right.
LEMMA Lasting ==
    ASSUME asked \subseteq asked', user \subseteq user'
    PROVE  /\ \A name, f : LoggedIn(name, f) => LoggedIn(name, f)'
           /\ \A r : PasswordRight(r) => PasswordRight(r)'
BY DEF LoggedIn, PasswordRight

\* A server's step changes no other server's locals, and forgets nothing.
LEMMA OwnLocals ==
    ASSUME Good, NEW s \in Servers, ReadThread(s)
    PROVE  /\ \A t \in Servers \ {s} : recvd'[t] = recvd[t] /\ pc'[t] = pc[t]
                                       /\ root'[t] = root[t] /\ tempfd'[t] = tempfd[t]
                                       /\ result'[t] = result[t]
           /\ asked' = asked /\ user \subseteq user' /\ answers \subseteq answers'
<1> USE DEF Good, TypeOK, Goto, Again, Send, tables, locals
<1>1. CASE Recv(s) \/ QueryPasswd(s) \/ InsertIntoStates(s) \/ AckLogin(s)
  BY <1>1 DEF Recv, QueryPasswd, InsertIntoStates, AckLogin
<1>2. CASE FindMesg(s) \/ DelSendedMsg(s) \/ SendStored(s)
  BY <1>2 DEF FindMesg, DelSendedMsg, SendStored
<1>3. CASE GetStates(s) \/ InsertIntoMessage(s) \/ TellAbsent(s) \/ ForwardChat(s)
  BY <1>3 DEF GetStates, InsertIntoMessage, TellAbsent, ForwardChat
<1>4. CASE InsertIntoUser(s) \/ AckRegister(s) \/ CloseLink(s) \/ DelState(s)
  BY <1>4 DEF InsertIntoUser, AckRegister, CloseLink, DelState
<1>5. CASE LeaveLoop(s) \/ Killed(s)
  BY <1>5 DEF LeaveLoop, Killed
<1>7. QED
  BY <1>1, <1>2, <1>3, <1>4, <1>5 DEF ReadThread, Loop

\* What the other servers have under way stays as it was.
LEMMA OthersUnderWay ==
    ASSUME Good, NEW s \in Servers, ReadThread(s), NEW t \in Servers \ {s}
    PROVE  UnderWayAt(t)'
<1>1. UnderWayAt(t)
  BY DEF Good, IInv
<1>2. /\ recvd'[t] = recvd[t] /\ pc'[t] = pc[t] /\ root'[t] = root[t] /\ tempfd'[t] = tempfd[t]
      /\ result'[t] = result[t]
      /\ asked' = asked /\ user \subseteq user' /\ answers \subseteq answers'
  BY OwnLocals
<1>3. /\ LoggedIn(root[t].ask.name, tempfd[t]) => LoggedIn(root[t].ask.name, tempfd[t])'
      /\ PasswordRight(root[t]) => PasswordRight(root[t])'
  BY <1>2, Lasting
<1>4. QED
  BY <1>1, <1>2, <1>3 DEF UnderWayAt, LoggedIn, PasswordRight

\* At the head of the loop only what is received matters.
LEMMA IdleUnderWay ==
    ASSUME Good, NEW s \in Servers, recvd' = recvd, asked' = asked, pc'[s] \in Idle
    PROVE  UnderWayAt(s)'
BY DEF Good, IInv, UnderWayAt, Idle

\* What a server has under way after a step of its own.
LEMMA OwnUnderWay == ASSUME Good, NEW s \in Servers, ReadThread(s) PROVE UnderWayAt(s)'
<1> USE DEF TypeOK, Goto, Again, tables, Idle
<1>0. TypeOK /\ UnderWayAt(s)
  BY DEF Good, IInv
<1>2. CASE Recv(s)
  <2>1. PICK upto \in DOMAIN recvd[s] : recvd' = [recvd EXCEPT ![s] = SubSeq(@, upto + 1, Len(@))]
    BY <1>2 DEF Recv
  <2>2. recvd[s] \in Seq(Request) /\ upto \in 1..Len(recvd[s]) /\ Head(recvd[s]) = recvd[s][1]
    BY <1>0, <2>1
  <2>3. \A i \in DOMAIN recvd'[s] : recvd'[s][i] \in asked
    <3>1. recvd'[s] = SubSeq(recvd[s], upto + 1, Len(recvd[s]))
      BY <1>0, <2>1
    <3>2. \A i \in (upto + 1)..Len(recvd[s]) : recvd[s][i] \in asked
      BY <1>0, <2>2 DEF UnderWayAt
    <3>3. recvd'[s] \in Seq(asked)
      BY <2>2, <3>1, <3>2, SubSeqProperties
    <3>4. QED
      BY <3>3
  <2>4. Head(recvd[s]) \in asked
    BY <1>0, <2>2 DEF UnderWayAt
  <2>5. root'[s] = Head(recvd[s]) /\ pc'[s] = Head(recvd[s]).ask.type
    BY <1>0, <1>2 DEF Recv
  <2>6. pc'[s] \in Types
    BY <1>0, <2>4, <2>5, RequestParts
  <2>7. QED
    BY <1>2, <2>3, <2>4, <2>5, <2>6 DEF Recv, UnderWayAt, Types
<1>3. CASE QueryPasswd(s)
  <2>1. PICK ok \in {PasswordRight(root[s])} \cup (IF Failing THEN {FALSE} ELSE {}) :
           pc'[s] = AfterQuery(ok) /\ result'[s] = ok
    BY <1>0, <1>3 DEF QueryPasswd
  <2>2. (pc'[s] = "insert" => PasswordRight(root[s])) /\ (result'[s] => PasswordRight(root[s]))
    <3>1. ok => PasswordRight(root[s])
      BY <2>1
    <3>2. pc'[s] = "insert" => ok
      BY <2>1 DEF AfterQuery
    <3>3. QED
      BY <2>1, <3>1, <3>2
  <2>3. pc'[s] \in {"insert", "ack"}
    BY <2>1 DEF AfterQuery
  <2>4. PasswordRight(root[s]) => PasswordRight(root[s])'
    BY <1>3 DEF QueryPasswd, PasswordRight
  <2>5. QED
    BY <1>0, <1>3, <2>2, <2>3, <2>4 DEF QueryPasswd, UnderWayAt
<1>4. CASE InsertIntoStates(s)
  BY <1>0, <1>4 DEF InsertIntoStates, UnderWayAt, PasswordRight
<1>5. CASE AckLogin(s)
  <2>2. \E a \in answers' : a.n = root[s].n
    BY <1>5, SomethingSent DEF AckLogin
  <2>3. QED
    BY <1>0, <1>5, <2>2 DEF AckLogin, UnderWayAt
<1>6. CASE FindMesg(s)
  <2>1. CASE Goto(s, "delete") /\ UNCHANGED <<root, tempfd, result>>
    BY <1>0, <1>6, <2>1 DEF FindMesg, UnderWayAt
  <2>2. CASE Again(s)
    BY <1>0, <1>6, <2>2, IdleUnderWay DEF FindMesg
  <2>3. QED
    BY <1>6, <2>1, <2>2 DEF FindMesg
<1>7. CASE DelSendedMsg(s)
  BY <1>0, <1>7 DEF DelSendedMsg, UnderWayAt
<1>8. CASE SendStored(s)
  BY <1>0, <1>8, IdleUnderWay DEF SendStored
<1>9. CASE GetStates(s)
  <2>1. PICK f \in RowsOf(root[s].ask.name)
                   \cup (IF RowsOf(root[s].ask.name) = {} THEN {Offline} ELSE {})
                   \cup (IF Failing THEN {Offline, Error} ELSE {}) :
           tempfd'[s] = f /\ pc'[s] = IF IsAway(f) THEN "store" ELSE "forward"
    BY <1>0, <1>9 DEF GetStates
  <2>2. f \in RowsOf(root[s].ask.name) => LoggedIn(root[s].ask.name, f)
    BY DEF Good, IInv, RowsOfLogins, RowsOf
  <2>3. pc'[s] = "forward" => f = Error \/ LoggedIn(root[s].ask.name, f)
    BY <2>1, <2>2 DEF IsAway
  <2>4. root' = root /\ recvd' = recvd /\ asked' = asked /\ root[s] \in asked
    BY <1>0, <1>9 DEF GetStates, UnderWayAt
  <2>5. LoggedIn(root[s].ask.name, f) => LoggedIn(root[s].ask.name, tempfd[s])'
    BY <2>1, <2>4 DEF LoggedIn
  <2>6. QED
    BY <1>0, <2>1, <2>3, <2>4, <2>5 DEF UnderWayAt
<1>10. CASE InsertIntoMessage(s)
  BY <1>0, <1>10 DEF InsertIntoMessage, AfterStore, UnderWayAt
<1>11. CASE TellAbsent(s) \/ ForwardChat(s) \/ AckRegister(s)
  BY <1>0, <1>11, IdleUnderWay DEF TellAbsent, ForwardChat, AckRegister
<1>13. CASE InsertIntoUser(s)
  BY <1>0, <1>13 DEF InsertIntoUser, UnderWayAt
<1>15. CASE CloseLink(s)
  BY <1>0, <1>15 DEF CloseLink, UnderWayAt
<1>16. CASE DelState(s)
  BY <1>0, <1>16, IdleUnderWay DEF DelState
<1>17. CASE LeaveLoop(s) \/ Killed(s)
  BY <1>0, <1>17, IdleUnderWay DEF LeaveLoop, Killed
<1>18. QED
  BY <1>2, <1>3, <1>4, <1>5, <1>6, <1>7, <1>8, <1>9, <1>10, <1>11, <1>13, <1>15, <1>16, <1>17
     DEF ReadThread, Loop

\* The balancer adds requests, and takes no one's login back.
LEMMA BalancerUnderWay ==
    ASSUME Good, NEW t \in Servers,
           Balancer
    PROVE  UnderWayAt(t)' /\ asked \subseteq asked'
<1>0. TypeOK /\ UnderWayAt(t)
  BY DEF Good, IInv
<1>1. ASSUME NEW s \in Servers, NEW a \in Inputs, Arrive(s, a)
      PROVE  UnderWayAt(t)' /\ asked \subseteq asked'
  <2>1. PICK r : recvd' = [recvd EXCEPT ![s] = Append(@, r)] /\ asked' = asked \cup {r}
    BY <1>1 DEF Arrive
  <2>2. UNCHANGED <<user, pc, root, tempfd, result, answers>>
    BY <1>1 DEF Arrive, tables, locals
  <2>3. recvd[t] \in Seq(Request) /\ recvd'[t] \in {recvd[t], Append(recvd[t], r)}
    BY <1>0, <2>1 DEF TypeOK
  <2>4. \A i \in DOMAIN recvd'[t] : recvd'[t][i] \in asked'
    BY <1>0, <2>1, <2>3 DEF UnderWayAt
  <2>5. /\ LoggedIn(root[t].ask.name, tempfd[t]) => LoggedIn(root[t].ask.name, tempfd[t])'
        /\ PasswordRight(root[t]) => PasswordRight(root[t])'
    BY <2>1, <2>2 DEF LoggedIn, PasswordRight
  <2>6. QED
    BY <1>0, <2>1, <2>2, <2>4, <2>5 DEF UnderWayAt
<1>2. ASSUME NEW f \in Fds, PurgeRow(f) PROVE UnderWayAt(t)' /\ asked \subseteq asked'
  BY <1>0, <1>2 DEF PurgeRow, locals, UnderWayAt, LoggedIn, PasswordRight
<1>3. CASE BalancerEnds
  BY <1>0, <1>3 DEF BalancerEnds, tables, locals, UnderWayAt, LoggedIn, PasswordRight
<1>4. CASE BalancerStarts
  <2>1. pc'[t] \in Idle /\ pc'[t] \notin {"login", "insert", "ack", "forward", "find", "delete", "strtok"}
    BY <1>0, <1>4 DEF BalancerStarts, Idle, TypeOK
  <2>2. QED
    BY <1>0, <1>4, <2>1 DEF BalancerStarts, UnderWayAt
<1>5. QED
  BY <1>1, <1>2, <1>3, <1>4 DEF Balancer

-----------------------------------------------------------------------------
\* A row is added by insertIntoStates only, for the request at hand.
LEMMA RowsGrow ==
    ASSUME Good, [Next]_vars
    PROVE  /\ user \subseteq user' /\ asked \subseteq asked'
           /\ \A row \in state' \ state : \E s \in Servers :
                 pc[s] = "insert" /\ row = <<root[s].ask.name, root[s].ask.fd>>
<1> USE DEF Again, tables, locals
<1>1. ASSUME NEW s \in Servers, ReadThread(s)
      PROVE  \A row \in state' \ state :
                pc[s] = "insert" /\ row = <<root[s].ask.name, root[s].ask.fd>>
  <2>1. CASE Recv(s) \/ QueryPasswd(s) \/ AckLogin(s) \/ FindMesg(s)
    BY <2>1 DEF Recv, QueryPasswd, AckLogin, FindMesg
  <2>2. CASE DelSendedMsg(s) \/ SendStored(s) \/ GetStates(s) \/ InsertIntoMessage(s)
    BY <2>2 DEF DelSendedMsg, SendStored, GetStates, InsertIntoMessage
  <2>3. CASE TellAbsent(s) \/ ForwardChat(s) \/ InsertIntoUser(s) \/ AckRegister(s)
    BY <2>3 DEF TellAbsent, ForwardChat, InsertIntoUser, AckRegister
  <2>4. CASE CloseLink(s) \/ DelState(s) \/ LeaveLoop(s) \/ Killed(s)
    BY <2>4 DEF CloseLink, DelState, LeaveLoop, Killed, Becomes
  <2>5. CASE InsertIntoStates(s)
    BY <2>5 DEF InsertIntoStates, Becomes
  <2>6. QED
    BY <1>1, <2>1, <2>2, <2>3, <2>4, <2>5 DEF ReadThread, Loop
<1>2. ASSUME Balancer
      PROVE  state' \subseteq state /\ user' = user /\ asked \subseteq asked'
  BY <1>2 DEF Balancer, Arrive, PurgeRow, BalancerEnds, BalancerStarts
<1>3. CASE UNCHANGED vars
  BY <1>3 DEF vars
<1>4. QED
  BY <1>1, <1>2, <1>3, OwnLocals DEF Next

\* Rows stay those of users who logged in.
LEMMA RowsStep == ASSUME Good, [Next]_vars PROVE RowsOfLogins'
<1>1. SUFFICES ASSUME NEW row \in state' PROVE row[1] \in user' /\ LoggedIn(row[1], row[2])'
  BY DEF RowsOfLogins
<1>2. user \subseteq user' /\ asked \subseteq asked'
  BY RowsGrow
<1>3. CASE row \in state
  <2>1. row[1] \in user /\ LoggedIn(row[1], row[2])
    BY <1>3 DEF Good, IInv, RowsOfLogins
  <2>2. LoggedIn(row[1], row[2])'
    BY <1>2, <2>1 DEF LoggedIn
  <2>3. QED
    BY <1>2, <2>1, <2>2
<1>4. CASE row \notin state
  <2>1. PICK s \in Servers : pc[s] = "insert" /\ row = <<root[s].ask.name, root[s].ask.fd>>
    BY <1>4, RowsGrow
  <2>2. root[s] \in asked /\ root[s].ask.type = "login" /\ PasswordRight(root[s])
    BY <2>1 DEF Good, IInv, UnderWayAt, Idle
  <2>3. LoggedIn(row[1], row[2])'
    BY <1>2, <2>1, <2>2 DEF LoggedIn, PasswordRight
  <2>4. QED
    BY <1>2, <2>1, <2>2, <2>3 DEF PasswordRight
<1>5. QED
  BY <1>3, <1>4

\* An answer is sent for the request at hand: a chat message to the descriptor
\* that getStates gave, anything else to the one the request came with.
LEMMA AnswersGrow ==
    ASSUME Good, [Next]_vars
    PROVE  \A a \in answers' \ answers : \E s \in Servers :
              /\ pc[s] \notin Idle /\ a.n = root[s].n
              /\ a.what = "ok" => pc[s] = "ack" /\ result[s]
              /\ \/ a.what # "chat" /\ a.fd = root[s].ask.fd
                 \/ a.what = "chat" /\ pc[s] = "forward" /\ a.fd = tempfd[s]
<1> USE DEF Again, tables, locals, Idle
<1>1. ASSUME NEW s \in Servers, ReadThread(s), NEW a \in answers' \ answers
      PROVE  /\ pc[s] \notin Idle /\ a.n = root[s].n
             /\ a.what = "ok" => pc[s] = "ack" /\ result[s]
             /\ \/ a.what # "chat" /\ a.fd = root[s].ask.fd
                \/ a.what = "chat" /\ pc[s] = "forward" /\ a.fd = tempfd[s]
  <2>1. CASE Recv(s) \/ QueryPasswd(s) \/ InsertIntoStates(s) \/ FindMesg(s)
    BY <1>1, <2>1 DEF Recv, QueryPasswd, InsertIntoStates, FindMesg
  <2>2. CASE DelSendedMsg(s) \/ GetStates(s) \/ InsertIntoMessage(s) \/ InsertIntoUser(s)
    BY <1>1, <2>2 DEF DelSendedMsg, GetStates, InsertIntoMessage, InsertIntoUser
  <2>3. CASE CloseLink(s) \/ DelState(s) \/ LeaveLoop(s) \/ Killed(s)
    BY <1>1, <2>3 DEF CloseLink, DelState, LeaveLoop, Killed
  <2>4. CASE AckLogin(s) \/ AckRegister(s)
    BY <1>1, <2>4 DEF AckLogin, AckRegister, Send
  <2>5. CASE SendStored(s) \/ TellAbsent(s)
    BY <1>1, <2>5 DEF SendStored, TellAbsent, Send
  <2>6. CASE ForwardChat(s)
    BY <1>1, <2>6 DEF ForwardChat, Send
  <2>7. QED
    BY <1>1, <2>1, <2>2, <2>3, <2>4, <2>5, <2>6 DEF ReadThread, Loop
<1>2. ASSUME Balancer
      PROVE  answers' = answers
  BY <1>2 DEF Balancer, Arrive, PurgeRow, BalancerEnds, BalancerStarts
<1>3. CASE UNCHANGED vars
  BY <1>3 DEF vars
<1>4. QED
  BY <1>1, <1>2, <1>3 DEF Next

\* Answers go where they should.
LEMMA SentStep == ASSUME Good, [Next]_vars PROVE SentToLogins'
<1> DEFINE Right(a, r) ==
       /\ r.n = a.n
       /\ a.what = "ok" => r.ask.type = "login" /\ r.ask.right
       /\ IF a.what = "chat" THEN a.fd = Error \/ LoggedIn(r.ask.name, a.fd) ELSE a.fd = r.ask.fd
<1>1. user \subseteq user' /\ asked \subseteq asked'
  BY RowsGrow
<1>2. ASSUME NEW a, NEW r \in asked, Right(a, r) PROVE r \in asked' /\ Right(a, r)'
  BY <1>1, <1>2 DEF LoggedIn
<1>3. ASSUME NEW a \in answers' PROVE \E r \in asked : Right(a, r)
  <2>1. CASE a \in answers
    BY <2>1 DEF Good, IInv, SentToLogins
  <2>2. CASE a \notin answers
    <3>1. PICK s \in Servers :
              /\ pc[s] \notin Idle /\ a.n = root[s].n
              /\ a.what = "ok" => pc[s] = "ack" /\ result[s]
              /\ \/ a.what # "chat" /\ a.fd = root[s].ask.fd
                 \/ a.what = "chat" /\ pc[s] = "forward" /\ a.fd = tempfd[s]
      BY <1>3, <2>2, AnswersGrow
    <3>2. root[s] \in asked /\ Right(a, root[s])
      BY <3>1 DEF Good, IInv, UnderWayAt, PasswordRight
    <3>3. QED
      BY <3>2
  <2>3. QED
    BY <2>1, <2>2
<1>4. QED
  BY <1>2, <1>3 DEF SentToLogins

-----------------------------------------------------------------------------
\* Every step keeps the invariant.
LEMMA GoodStep == Good /\ [Next]_vars => Good'
<1> SUFFICES ASSUME Good, [Next]_vars PROVE Good'
  OBVIOUS
<1>1. RowsOfLogins' /\ SentToLogins'
  BY RowsStep, SentStep
<1>2. CASE \E s \in Servers : ReadThread(s)
  <2>1. PICK s \in Servers : ReadThread(s)
    BY <1>2
  <2>2. TypeOK' /\ \A t \in Servers : UnderWayAt(t)'
    BY <2>1, ServerType, OwnUnderWay, OthersUnderWay
  <2>3. IsFiniteSet(asked')
    BY <2>1, OwnLocals DEF Good, IInv
  <2>4. QED
    BY <1>1, <2>2, <2>3 DEF Good, IInv
<1>3. CASE Balancer
  <2>1. TypeOK' /\ IsFiniteSet(asked')
    BY <1>3, BalancerType
  <2>2. \A t \in Servers : UnderWayAt(t)'
    BY <1>3, BalancerUnderWay
  <2>3. QED
    BY <1>1, <2>1, <2>2 DEF Good, IInv
<1>4. CASE UNCHANGED vars
  BY <1>4 DEF vars, tables, locals, Good, TypeOK, IInv, UnderWayAt, RowsOfLogins, SentToLogins,
     LoggedIn, PasswordRight
<1>5. QED
  BY <1>2, <1>3, <1>4 DEF Next

\* The invariant holds throughout.
THEOREM GoodInvariant == Spec => []Good
BY GoodInit, GoodStep, PTL DEF Spec

\* The types of all variables, and that nothing is sent to descriptor -1.
THEOREM TypeCorrect == Spec => []TypeOK
<1>1. Good => TypeOK
  BY DEF Good
<1>2. QED
  BY <1>1, GoodInvariant, PTL

\* What is under way was asked for and looked up (IInv).
THEOREM LookedUp == Spec => []IInv
<1>1. Good => IInv
  BY DEF Good
<1>2. QED
  BY <1>1, GoodInvariant, PTL

\* Only who logged in with the right password is in the state table.
THEOREM OnlyLoginsInState == Spec => []RowsOfLogins
<1>1. Good => RowsOfLogins
  BY DEF Good, IInv
<1>2. QED
  BY <1>1, GoodInvariant, PTL

\* Chat messages go to descriptors of their addressees only (SentToLogins).
THEOREM ChatReachesAddressee == Spec => []SentToLogins
<1>1. Good => SentToLogins
  BY DEF Good, IInv
<1>2. QED
  BY <1>1, GoodInvariant, PTL

-----------------------------------------------------------------------------
\* The step behind AnsweredFirst.
AnswersFirst ==
    \A s \in Servers :
        pc[s] \notin Idle /\ pc'[s] = "recv" => \E a \in answers' : a.n = root[s].n

\* Whoever goes back to recv() has sent something, now or before.
LEMMA FirstStep == ASSUME Good, [Next]_vars PROVE AnswersFirst
<1> SUFFICES ASSUME NEW s \in Servers, pc[s] \notin Idle, pc'[s] = "recv"
             PROVE  \E a \in answers' : a.n = root[s].n
  BY DEF AnswersFirst
<1> USE DEF Goto
<1>0. TypeOK /\ UnderWayAt(s)
  BY DEF Good, IInv
<1>1. ASSUME NEW t \in Servers, ReadThread(t) PROVE t = s
  BY <1>1, OwnLocals DEF Idle
<1>2. CASE ReadThread(s)
  <2>1. CASE Recv(s)
    BY <2>1 DEF Recv, Idle
  <2>2. CASE QueryPasswd(s) \/ InsertIntoStates(s) \/ AckLogin(s) \/ DelSendedMsg(s) \/ GetStates(s)
    BY <1>0, <2>2 DEF QueryPasswd, AfterQuery, InsertIntoStates, AckLogin, DelSendedMsg, GetStates, TypeOK
  <2>3. CASE InsertIntoMessage(s) \/ InsertIntoUser(s)
    BY <1>0, <2>3 DEF InsertIntoMessage, AfterStore, InsertIntoUser, TypeOK
  <2>4. CASE CloseLink(s) \/ DelState(s) \/ LeaveLoop(s) \/ Killed(s)
    BY <1>0, <2>4 DEF CloseLink, DelState, LeaveLoop, Killed, TypeOK
  <2>5. CASE FindMesg(s)
    BY <1>0, <2>5 DEF FindMesg, UnderWayAt
  <2>6. CASE SendStored(s)
    <3>1. CASE Send(s, "stored", root[s].ask.fd)
      BY <3>1, SomethingSent
    <3>2. CASE Goto(s, "crashed")
      BY <1>0, <3>2 DEF TypeOK
    <3>3. QED
      BY <2>6, <3>1, <3>2 DEF SendStored
  <2>7. CASE TellAbsent(s) \/ ForwardChat(s) \/ AckRegister(s)
    BY <2>7, SomethingSent DEF TellAbsent, ForwardChat, AckRegister
  <2>8. QED
    BY <1>2, <2>1, <2>2, <2>3, <2>4, <2>5, <2>6, <2>7 DEF ReadThread, Loop
<1>3. CASE Balancer
  <2>1. pc'[s] = pc[s]
    BY <1>0, <1>3 DEF Balancer, Arrive, PurgeRow, BalancerEnds, BalancerStarts, locals, TypeOK, Idle
  <2>2. QED
    BY <2>1 DEF Idle
<1>4. CASE UNCHANGED vars
  BY <1>4 DEF vars, locals, Idle
<1>5. QED
  BY <1>1, <1>2, <1>3, <1>4 DEF Next

\* No server asks for more before it has sent something for the request it has.
THEOREM NoneUnanswered == Spec => AnsweredFirst
<1>1. Good /\ [Next]_vars => [AnswersFirst]_vars
  BY FirstStep
<1>2. QED
  BY <1>1, GoodInvariant, PTL DEF Spec, AnsweredFirst, AnswersFirst

-----------------------------------------------------------------------------
\* Requests stay in order and with one server, and the servers implement Mailbox.


\* What has number n at server s: a request that waits, or the one at hand.
Waits(s, n)  == \E i \in DOMAIN recvd[s] : recvd[s][i].n = n
AtHand(s, n) == pc[s] \notin Idle /\ root[s].n = n
Has(s, n)    == AtHand(s, n) \/ Waits(s, n)

\* Numbers count the requests.
Numbered == \A r \in asked : r.n <= Cardinality(asked)

\* A server has its requests in the order they were made.
Sorted(s) ==
    /\ \A i, j \in DOMAIN recvd[s] : i < j => recvd[s][i].n < recvd[s][j].n
    /\ pc[s] \notin Idle => \A i \in DOMAIN recvd[s] : root[s].n < recvd[s][i].n

\* No two servers have the same one.
OneServer == \A s, t \in Servers : \A n : Has(s, n) /\ Has(t, n) => s = t

\* What was answered waits nowhere; a login may still fetch messages.
Answered ==
    \A a \in answers, s \in Servers :
        /\ ~Waits(s, a.n)
        /\ AtHand(s, a.n) => pc[s] \in {"find", "delete", "strtok"}

\* What is stored is a chat message, not passed on, and done with but for the
\* word to its sender.
StoredOnce ==
    \A m \in message :
        /\ m \in asked /\ m.ask.type = "chat"
        /\ \A a \in answers : a.n = m.n => a.what # "chat"
        /\ \A s \in Servers : ~Waits(s, m.n) /\ (AtHand(s, m.n) => pc[s] = "absent")

ChatAt(s) == pc[s] \in {"chat", "store", "forward", "absent"} => root[s].ask.type = "chat"

Orderly == /\ Good /\ Numbered /\ OneServer /\ Answered /\ StoredOnce
           /\ \A s \in Servers : Sorted(s) /\ ChatAt(s)

-----------------------------------------------------------------------------
\* From one line of ReadThread to the next.
LEMMA LineMoves ==
    ASSUME Good, NEW s \in Servers, ReadThread(s)
    PROVE  /\ pc[s] \in {"find", "delete", "strtok"} => pc'[s] \in {"delete", "strtok"} \cup Idle
           /\ pc[s] = "absent" => pc'[s] \in Idle
           /\ pc'[s] \in {"store", "forward"} => pc[s] = "chat"
           /\ pc'[s] = "absent" => pc[s] = "store"
           /\ pc'[s] = "chat" => Recv(s)
<1> USE DEF Goto, Again, Idle
<1>0. pc \in [Servers -> Lines]
  BY DEF Good, TypeOK
<1>1. CASE Recv(s)
  <2>1. pc'[s] = Head(recvd[s]).ask.type /\ pc[s] = "recv"
    BY <1>0, <1>1 DEF Recv
  <2>2. Head(recvd[s]) \in Request
    BY <1>1 DEF Recv, Good, TypeOK
  <2>3. Head(recvd[s]).ask.type \in Types
    BY <2>2, RequestParts
  <2>4. QED
    BY <1>1, <2>1, <2>3 DEF Types
<1>2. CASE QueryPasswd(s) \/ InsertIntoStates(s) \/ AckLogin(s) \/ InsertIntoUser(s)
  BY <1>0, <1>2 DEF QueryPasswd, AfterQuery, InsertIntoStates, AckLogin, InsertIntoUser
<1>3. CASE FindMesg(s) \/ DelSendedMsg(s) \/ SendStored(s)
  BY <1>0, <1>3 DEF FindMesg, DelSendedMsg, SendStored
<1>4. CASE GetStates(s)
  BY <1>0, <1>4 DEF GetStates
<1>5. CASE InsertIntoMessage(s) \/ TellAbsent(s) \/ ForwardChat(s) \/ AckRegister(s)
  BY <1>0, <1>5 DEF InsertIntoMessage, AfterStore, TellAbsent, ForwardChat, AckRegister
<1>6. CASE CloseLink(s) \/ DelState(s) \/ LeaveLoop(s) \/ Killed(s)
  BY <1>0, <1>6 DEF CloseLink, DelState, LeaveLoop, Killed
<1>7. QED
  BY <1>1, <1>2, <1>3, <1>4, <1>5, <1>6 DEF ReadThread, Loop

\* Only recv() brings a server another request.
LEMMA WorkMoves ==
    ASSUME Good, NEW s \in Servers, ReadThread(s), ~Recv(s)
    PROVE  /\ recvd'[s] = recvd[s] \/ (recvd'[s] = << >> /\ answers' = answers /\ message' = message
                                       /\ CloseLink(s))
           /\ pc'[s] \notin Idle => root'[s] = root[s] /\ pc[s] \notin Idle
<1> USE DEF Goto, Again, Idle, tables
<1>0. pc \in [Servers -> Lines] /\ root \in [Servers -> Request \cup {NoReq}]
      /\ recvd \in [Servers -> Seq(Request)]
  BY DEF Good, TypeOK
<1>2. CASE QueryPasswd(s) \/ InsertIntoStates(s) \/ AckLogin(s) \/ InsertIntoUser(s)
  BY <1>0, <1>2 DEF QueryPasswd, AfterQuery, InsertIntoStates, AckLogin, InsertIntoUser
<1>3. CASE FindMesg(s) \/ DelSendedMsg(s) \/ SendStored(s)
  BY <1>0, <1>3 DEF FindMesg, DelSendedMsg, SendStored
<1>4. CASE GetStates(s)
  BY <1>0, <1>4 DEF GetStates
<1>5. CASE InsertIntoMessage(s) \/ TellAbsent(s) \/ ForwardChat(s) \/ AckRegister(s)
  BY <1>0, <1>5 DEF InsertIntoMessage, AfterStore, TellAbsent, ForwardChat, AckRegister
<1>6. CASE CloseLink(s) \/ DelState(s) \/ LeaveLoop(s) \/ Killed(s)
  BY <1>0, <1>6 DEF CloseLink, DelState, LeaveLoop, Killed
<1>7. QED
  BY <1>2, <1>3, <1>4, <1>5, <1>6 DEF ReadThread, Loop

\* recv() takes some from the front; the first of them is at hand then.
LEMMA RecvMoves ==
    ASSUME Good, NEW s \in Servers, Recv(s)
    PROVE  /\ pc[s] \in Idle /\ root'[s] = recvd[s][1] /\ 1 \in DOMAIN recvd[s]
           /\ pc'[s] = recvd[s][1].ask.type
           /\ UNCHANGED <<answers, message, asked>>
           /\ \E k \in DOMAIN recvd[s] :
                 /\ \A i \in DOMAIN recvd'[s] : i + k \in DOMAIN recvd[s] /\ recvd'[s][i] = recvd[s][i + k]
                 /\ \A i \in DOMAIN recvd[s] : i > k => i - k \in DOMAIN recvd'[s]
<1>0. /\ pc \in [Servers -> Lines] /\ root \in [Servers -> Request \cup {NoReq}]
      /\ recvd \in [Servers -> Seq(Request)]
  BY DEF Good, TypeOK
<1>1. PICK upto \in DOMAIN recvd[s] : recvd' = [recvd EXCEPT ![s] = SubSeq(@, upto + 1, Len(@))]
  BY DEF Recv
<1>2. recvd[s] \in Seq(Request) /\ upto \in 1..Len(recvd[s]) /\ Head(recvd[s]) = recvd[s][1]
      /\ Len(recvd[s]) \in Nat /\ DOMAIN recvd[s] = 1..Len(recvd[s])
  BY <1>0, <1>1
<1>3. recvd'[s] = SubSeq(recvd[s], upto + 1, Len(recvd[s]))
  BY <1>0, <1>1
<1>4. /\ \A i \in DOMAIN recvd'[s] : i + upto \in DOMAIN recvd[s] /\ recvd'[s][i] = recvd[s][i + upto]
      /\ \A i \in DOMAIN recvd[s] : i > upto => i - upto \in DOMAIN recvd'[s]
  <2> DEFINE l == Len(recvd[s])
             q == SubSeq(recvd[s], upto + 1, l)
  <2>1. upto + 1 \in 1..(l + 1) /\ l \in upto..l /\ (l - (upto + 1)) + 1 = l - upto
    BY <1>2
  <2>2. \A i \in (upto + 1)..l : recvd[s][i] \in Request
    BY <1>2
  <2>3. q \in Seq(Request) /\ Len(q) = l - upto /\ \A i \in 1..(l - upto) : q[i] = recvd[s][upto + i]
    BY <1>2, <2>1, <2>2, SubSeqProperties
  <2>4. DOMAIN q = 1..(l - upto)
    BY <2>3
  <2>5. recvd'[s] = q /\ l \in Nat /\ upto \in 1..l /\ DOMAIN recvd[s] = 1..l
    BY <1>2, <1>3
  <2> HIDE DEF q, l
  <2>6. ASSUME NEW i \in 1..(l - upto) PROVE i + upto \in 1..l /\ q[i] = recvd[s][i + upto]
    <3>1. upto + i = i + upto /\ i + upto \in 1..l
      BY <2>5
    <3>2. QED
      BY <2>3, <3>1
  <2>7. \A i \in 1..l : i > upto => i - upto \in 1..(l - upto)
    BY <2>5
  <2>8. QED
    BY <2>4, <2>5, <2>6, <2>7
<1>5. QED
  BY <1>0, <1>2, <1>4 DEF Recv, Goto, Idle, tables

\* What a server has after a step of its own, it had before.
LEMMA HasShrinks ==
    ASSUME Good, NEW s \in Servers, ReadThread(s), NEW n
    PROVE  /\ Waits(s, n)' => Waits(s, n)
           /\ AtHand(s, n)' => \/ AtHand(s, n) /\ ~Recv(s)
                               \/ Recv(s) /\ Waits(s, n)
<1>1. CASE Recv(s)
  <2>1. Waits(s, n)' => Waits(s, n)
    BY <1>1, RecvMoves DEF Waits
  <2>2. AtHand(s, n)' => Waits(s, n)
    BY <1>1, RecvMoves DEF Waits, AtHand
  <2>3. QED
    BY <1>1, <2>1, <2>2
<1>2. CASE ~Recv(s)
  <2>1. DOMAIN << >> = {}
    OBVIOUS
  <2>2. QED
    BY <1>2, <2>1, WorkMoves DEF Waits, AtHand
<1>3. QED
  BY <1>1, <1>2

\* What another server has, it keeps.
LEMMA OthersHave ==
    ASSUME Good, NEW s \in Servers, ReadThread(s), NEW t \in Servers \ {s}, NEW n
    PROVE  (Waits(t, n)' <=> Waits(t, n)) /\ (AtHand(t, n)' <=> AtHand(t, n))
BY OwnLocals DEF Waits, AtHand

\* What a server has was asked, and has a number that was given.
LEMMA HasAsked ==
    ASSUME Good, Numbered, NEW s \in Servers, NEW n, Has(s, n)
    PROVE  n \in Nat /\ n <= Cardinality(asked)
<1>1. \E r \in asked : r.n = n
  BY DEF Has, Waits, AtHand, Good, IInv, UnderWayAt
<1>2. QED
  BY <1>1, RequestParts DEF Numbered, Good, TypeOK

-----------------------------------------------------------------------------
\* send() is for the request at hand, which has got no other answer.
LEMMA SendMoves ==
    ASSUME Good, NEW s \in Servers, ReadThread(s), NEW a \in answers' \ answers
    PROVE  /\ ~Recv(s) /\ pc[s] \notin Idle /\ a.n = root[s].n
           /\ pc'[s] \in {"find", "recv"} /\ recvd'[s] = recvd[s] /\ message' = message
           /\ a.what = "chat" => pc[s] = "forward"
           /\ answers' = answers \cup {a}
<1> USE DEF Goto, Again, Idle, tables
<1>0. pc \in [Servers -> Lines]
  BY DEF Good, TypeOK
<1>2. CASE Recv(s) \/ QueryPasswd(s) \/ InsertIntoStates(s) \/ InsertIntoUser(s) \/ FindMesg(s)
  BY <1>2 DEF Recv, QueryPasswd, InsertIntoStates, InsertIntoUser, FindMesg
<1>3. CASE DelSendedMsg(s) \/ GetStates(s) \/ InsertIntoMessage(s)
  BY <1>3 DEF DelSendedMsg, GetStates, InsertIntoMessage
<1>4. CASE CloseLink(s) \/ DelState(s) \/ LeaveLoop(s) \/ Killed(s)
  BY <1>4 DEF CloseLink, DelState, LeaveLoop, Killed
<1>5. CASE AckLogin(s) \/ AckRegister(s)
  BY <1>0, <1>5 DEF AckLogin, AckRegister, Send, Recv
<1>6. CASE SendStored(s) \/ TellAbsent(s) \/ ForwardChat(s)
  BY <1>0, <1>6 DEF SendStored, TellAbsent, ForwardChat, Send, Recv
<1>7. QED
  BY <1>2, <1>3, <1>4, <1>5, <1>6 DEF ReadThread, Loop

\* What is stored is the request at hand.
LEMMA StoreMoves ==
    ASSUME Good, NEW s \in Servers, ReadThread(s), NEW m \in message' \ message
    PROVE  /\ ~Recv(s) /\ m = root[s] /\ pc[s] = "store" /\ pc'[s] = "absent"
           /\ recvd'[s] = recvd[s] /\ answers' = answers
<1> USE DEF Goto, Again, tables
<1>0. pc \in [Servers -> Lines]
  BY DEF Good, TypeOK
<1>2. CASE Recv(s) \/ QueryPasswd(s) \/ InsertIntoStates(s) \/ InsertIntoUser(s) \/ FindMesg(s)
  BY <1>2 DEF Recv, QueryPasswd, InsertIntoStates, InsertIntoUser, FindMesg
<1>3. CASE DelSendedMsg(s) \/ GetStates(s) \/ AckLogin(s) \/ AckRegister(s)
  BY <1>3 DEF DelSendedMsg, GetStates, AckLogin, AckRegister, Becomes
<1>4. CASE CloseLink(s) \/ DelState(s) \/ LeaveLoop(s) \/ Killed(s)
  BY <1>4 DEF CloseLink, DelState, LeaveLoop, Killed
<1>5. CASE SendStored(s) \/ TellAbsent(s) \/ ForwardChat(s)
  BY <1>5 DEF SendStored, TellAbsent, ForwardChat
<1>6. CASE InsertIntoMessage(s)
  BY <1>0, <1>6 DEF InsertIntoMessage, Becomes, AfterStore, Recv
<1>7. QED
  BY <1>2, <1>3, <1>4, <1>5, <1>6 DEF ReadThread, Loop

\* A server takes its requests in turn.
LEMMA SortedStep ==
    ASSUME Orderly, NEW s \in Servers, ReadThread(s), NEW t \in Servers PROVE Sorted(t)'
<1>0. Good /\ Sorted(t) /\ recvd \in [Servers -> Seq(Request)]
  BY DEF Orderly, Good, TypeOK
<1>1. CASE t # s
  BY <1>0, <1>1, OwnLocals DEF Sorted
<1>2. CASE t = s /\ Recv(s)
  <2>1. PICK k \in DOMAIN recvd[s] :
            \A i \in DOMAIN recvd'[s] : i + k \in DOMAIN recvd[s] /\ recvd'[s][i] = recvd[s][i + k]
    BY <1>0, <1>2, RecvMoves
  <2>2. k \in Nat \ {0} /\ DOMAIN recvd[s] \subseteq Nat
    BY <1>0
  <2>3. DOMAIN recvd'[s] \subseteq Nat \ {0}
    <3>1. TypeOK'
      BY <1>0, ServerType
    <3>2. recvd'[s] \in Seq(Request)
      BY <3>1 DEF TypeOK
    <3>3. QED
      BY <3>2
  <2>4. root'[s] = recvd[s][1] /\ 1 \in DOMAIN recvd[s]
    BY <1>0, <1>2, RecvMoves
  <2>5. \A i, j \in DOMAIN recvd'[s] : i < j => recvd'[s][i].n < recvd'[s][j].n
    <3> SUFFICES ASSUME NEW i \in DOMAIN recvd'[s], NEW j \in DOMAIN recvd'[s], i < j
                 PROVE  recvd'[s][i].n < recvd'[s][j].n
      OBVIOUS
    <3>1. i + k < j + k
      BY <2>2, <2>3
    <3>2. QED
      BY <1>0, <1>2, <2>1, <3>1 DEF Sorted
  <2>6. \A i \in DOMAIN recvd'[s] : recvd[s][1].n < recvd'[s][i].n
    <3> SUFFICES ASSUME NEW i \in DOMAIN recvd'[s] PROVE recvd[s][1].n < recvd'[s][i].n
      OBVIOUS
    <3>1. 1 < i + k
      BY <2>2, <2>3
    <3>2. QED
      BY <1>0, <1>2, <2>1, <2>4, <3>1 DEF Sorted
  <2>7. QED
    BY <1>2, <2>4, <2>5, <2>6 DEF Sorted
<1>3. CASE t = s /\ ~Recv(s)
  <2>1. DOMAIN << >> = {}
    OBVIOUS
  <2>2. QED
    BY <1>0, <1>3, <2>1, WorkMoves DEF Sorted
<1>4. QED
  BY <1>1, <1>2, <1>3

\* What waits is not at hand too.
LEMMA HandIsFirst ==
    ASSUME Orderly, NEW s \in Servers, NEW n, AtHand(s, n) PROVE ~Waits(s, n)
<1>1. Sorted(s) /\ Good
  BY DEF Orderly
<1>2. ASSUME NEW i \in DOMAIN recvd[s], recvd[s][i].n = n PROVE FALSE
  <2>1. root[s].n = n /\ root[s].n < recvd[s][i].n
    BY <1>1 DEF Sorted, AtHand
  <2>2. recvd[s][i].n \in Int
    BY <1>1, RequestParts DEF Good, TypeOK
  <2>3. QED
    BY <1>2, <2>1, <2>2
<1>3. QED
  BY <1>2 DEF Waits

\* A request stays with the server that has it.
LEMMA OneServerStep == ASSUME Orderly, NEW s \in Servers, ReadThread(s) PROVE OneServer'
<1>0. Good /\ OneServer
  BY DEF Orderly
<1>1. ASSUME NEW t \in Servers, NEW n, Has(t, n)' PROVE Has(t, n)
  <2>1. CASE t = s
    BY <1>0, <1>1, <2>1, HasShrinks DEF Has
  <2>2. CASE t # s
    BY <1>0, <1>1, <2>2, OthersHave DEF Has
  <2>3. QED
    BY <2>1, <2>2
<1>2. QED
  BY <1>0, <1>1 DEF OneServer

\* An answer ends the turn of its request.
LEMMA AnsweredStep == ASSUME Orderly, NEW s \in Servers, ReadThread(s) PROVE Answered'
<1> SUFFICES ASSUME NEW a \in answers', NEW t \in Servers
             PROVE  ~Waits(t, a.n)' /\ (AtHand(t, a.n)' => pc'[t] \in {"find", "delete", "strtok"})
  BY DEF Answered
<1>0. Good /\ OneServer /\ Answered
  BY DEF Orderly
<1>1. CASE a \in answers
  <2>1. ~Waits(t, a.n) /\ (AtHand(t, a.n) => pc[t] \in {"find", "delete", "strtok"})
    BY <1>0, <1>1 DEF Answered
  <2>2. CASE t # s
    BY <1>0, <2>1, <2>2, OthersHave, OwnLocals
  <2>3. CASE t = s
    <3>1. ~Waits(s, a.n)' /\ (AtHand(s, a.n)' => AtHand(s, a.n))
      BY <1>0, <2>1, <2>3, HasShrinks
    <3>2. AtHand(s, a.n)' => pc'[s] \in {"delete", "strtok"}
      BY <1>0, <2>1, <2>3, <3>1, LineMoves DEF AtHand
    <3>3. QED
      BY <2>3, <3>1, <3>2
  <2>4. QED
    BY <2>2, <2>3
<1>2. CASE a \notin answers
  <2>1. /\ ~Recv(s) /\ AtHand(s, a.n) /\ pc'[s] \in {"find", "recv"} /\ recvd'[s] = recvd[s]
    BY <1>0, <1>2, SendMoves DEF AtHand
  <2>2. CASE t # s
    <3>1. ~Has(t, a.n)
      BY <1>0, <2>1, <2>2 DEF OneServer, Has
    <3>2. QED
      BY <1>0, <2>2, <3>1, OthersHave DEF Has
  <2>3. CASE t = s
    <3>1. ~Waits(s, a.n)
      BY <2>1, HandIsFirst
    <3>2. ~Waits(s, a.n)'
      BY <2>1, <3>1 DEF Waits
    <3>3. AtHand(s, a.n)' => pc'[s] = "find"
      BY <2>1 DEF AtHand, Idle
    <3>4. QED
      BY <2>3, <3>2, <3>3
  <2>4. QED
    BY <2>2, <2>3
<1>3. QED
  BY <1>1, <1>2

\* What is stored is not passed on, and what was answered is not stored.
LEMMA StoredStep == ASSUME Orderly, NEW s \in Servers, ReadThread(s) PROVE StoredOnce'
<1> SUFFICES ASSUME NEW m \in message'
             PROVE  /\ m \in asked' /\ m.ask.type = "chat"
                    /\ \A a \in answers' : a.n = m.n => a.what # "chat"
                    /\ \A t \in Servers : ~Waits(t, m.n)' /\ (AtHand(t, m.n)' => pc'[t] = "absent")
  BY DEF StoredOnce
<1>0. Good /\ OneServer /\ Answered /\ StoredOnce /\ ChatAt(s) /\ UnderWayAt(s)
  BY DEF Orderly, Good, IInv
<1>1. asked' = asked
  BY <1>0, OwnLocals
<1>2. CASE m \in message
  <2>1. /\ m \in asked /\ m.ask.type = "chat"
        /\ \A a \in answers : a.n = m.n => a.what # "chat"
        /\ \A t \in Servers : ~Waits(t, m.n) /\ (AtHand(t, m.n) => pc[t] = "absent")
    BY <1>0, <1>2 DEF StoredOnce
  <2>2. ASSUME NEW a \in answers' \ answers, a.n = m.n PROVE a.what # "chat"
    <3>1. AtHand(s, m.n) /\ (a.what = "chat" => pc[s] = "forward")
      BY <1>0, <2>2, SendMoves DEF AtHand
    <3>2. QED
      BY <2>1, <3>1
  <2>3. ASSUME NEW t \in Servers PROVE ~Waits(t, m.n)' /\ (AtHand(t, m.n)' => pc'[t] = "absent")
    <3>1. CASE t # s
      BY <1>0, <2>1, <3>1, OthersHave, OwnLocals
    <3>2. CASE t = s
      <4>1. ~Waits(s, m.n)' /\ (AtHand(s, m.n)' => AtHand(s, m.n))
        BY <1>0, <2>1, HasShrinks
      <4>2. ~AtHand(s, m.n)'
        BY <1>0, <2>1, <4>1, LineMoves DEF AtHand
      <4>3. QED
        BY <3>2, <4>1, <4>2
    <3>3. QED
      BY <3>1, <3>2
  <2>4. QED
    BY <1>1, <2>1, <2>2, <2>3
<1>3. CASE m \notin message
  <2>1. /\ ~Recv(s) /\ m = root[s] /\ pc[s] = "store" /\ pc'[s] = "absent"
        /\ recvd'[s] = recvd[s] /\ answers' = answers
    BY <1>0, <1>3, StoreMoves
  <2>2. AtHand(s, m.n) /\ m \in asked /\ m.ask.type = "chat"
    BY <1>0, <2>1 DEF AtHand, Idle, UnderWayAt, ChatAt
  <2>3. \A a \in answers' : a.n # m.n
    BY <1>0, <2>1, <2>2 DEF Answered
  <2>4. ASSUME NEW t \in Servers PROVE ~Waits(t, m.n)' /\ (AtHand(t, m.n)' => pc'[t] = "absent")
    <3>1. CASE t # s
      <4>1. ~Has(t, m.n)
        BY <1>0, <2>2, <3>1 DEF OneServer, Has
      <4>2. QED
        BY <1>0, <3>1, <4>1, OthersHave DEF Has
    <3>2. CASE t = s
      <4>1. ~Waits(s, m.n)
        BY <2>2, HandIsFirst
      <4>2. ~Waits(s, m.n)'
        BY <2>1, <4>1 DEF Waits
      <4>3. QED
        BY <2>1, <3>2, <4>2
    <3>3. QED
      BY <3>1, <3>2
  <2>5. QED
    BY <1>1, <2>2, <2>3, <2>4
<1>4. QED
  BY <1>2, <1>3

\* Chat messages are at hand where chat messages are treated.
LEMMA ChatAtStep ==
    ASSUME Orderly, NEW s \in Servers, ReadThread(s), NEW t \in Servers PROVE ChatAt(t)'
<1>0. Good /\ ChatAt(t)
  BY DEF Orderly
<1>1. CASE t # s
  BY <1>0, <1>1, OwnLocals DEF ChatAt
<1>2. CASE t = s /\ Recv(s)
  <2>1. root'[s] = recvd[s][1] /\ pc'[s] = recvd[s][1].ask.type
    BY <1>0, <1>2, RecvMoves
  <2>2. recvd[s][1] \in Request
    BY <1>0, <1>2, RecvMoves DEF Good, TypeOK
  <2>3. pc'[s] \in Types
    BY <2>1, <2>2, RequestParts
  <2>4. QED
    BY <1>2, <2>1, <2>3 DEF ChatAt, Types
<1>3. CASE t = s /\ ~Recv(s)
  <2>1. pc'[s] \notin Idle => root'[s] = root[s]
    BY <1>0, <1>3, WorkMoves
  <2>2. pc'[s] \in {"chat", "store", "forward", "absent"} => pc[s] \in {"chat", "store"}
    BY <1>0, <1>3, LineMoves
  <2>3. QED
    BY <1>0, <1>3, <2>1, <2>2 DEF ChatAt, Idle
<1>4. QED
  BY <1>1, <1>2, <1>3

-----------------------------------------------------------------------------
\* A request that arrives has a number of its own and waits behind the others.
LEMMA ArriveMoves ==
    ASSUME Orderly, NEW s \in Servers, NEW a, Arrive(s, a)
    PROVE  \E r : /\ r.ask = a /\ r.n = Cardinality(asked) + 1 /\ r.n \in Nat
                  /\ asked' = asked \cup {r}
                  /\ Cardinality(asked') = r.n
                  /\ recvd'[s] = Append(recvd[s], r)
                  /\ \A t \in Servers \ {s} : recvd'[t] = recvd[t]
                  /\ \A n : Waits(s, n)' <=> Waits(s, n) \/ n = r.n
                  /\ \A t \in Servers : \A n : AtHand(t, n)' <=> AtHand(t, n)
                  /\ \A t \in Servers \ {s} : \A n : Waits(t, n)' <=> Waits(t, n)
                  /\ \A t \in Servers : ~Has(t, r.n)
                  /\ r \notin asked
<1> DEFINE r == [n |-> Cardinality(asked) + 1, ask |-> a]
<1>0. Good /\ Numbered /\ recvd \in [Servers -> Seq(Request)] /\ IsFiniteSet(asked)
  BY DEF Orderly, Good, TypeOK, IInv
<1>1. recvd' = [recvd EXCEPT ![s] = Append(@, r)] /\ asked' = asked \cup {r}
      /\ UNCHANGED <<pc, root>>
  BY DEF Arrive, locals
<1>2. r.ask = a /\ r.n = Cardinality(asked) + 1 /\ Cardinality(asked) \in Nat
  BY <1>0, FS_CardinalityType
<1> HIDE DEF r
<1>3. \A q \in asked : q.n \in Nat /\ q.n # r.n
  BY <1>0, <1>2, RequestParts DEF Numbered, Good, TypeOK
<1>4. Cardinality(asked') = r.n
  BY <1>0, <1>1, <1>2, <1>3, FS_AddElement
<1>5. recvd'[s] = Append(recvd[s], r) /\ \A t \in Servers \ {s} : recvd'[t] = recvd[t]
  BY <1>0, <1>1
<1>6. \A n : Waits(s, n)' <=> Waits(s, n) \/ n = r.n
  <2>1. /\ DOMAIN recvd'[s] = DOMAIN recvd[s] \cup {Len(recvd[s]) + 1}
        /\ recvd'[s][Len(recvd[s]) + 1] = r
        /\ \A i \in DOMAIN recvd[s] : recvd'[s][i] = recvd[s][i]
    BY <1>0, <1>5
  <2>2. QED
    BY <2>1 DEF Waits
<1>7. \A t \in Servers : \A n : AtHand(t, n)' <=> AtHand(t, n)
  BY <1>1 DEF AtHand
<1>8. \A t \in Servers \ {s} : \A n : Waits(t, n)' <=> Waits(t, n)
  BY <1>5 DEF Waits
<1>9. \A t \in Servers : ~Has(t, r.n)
  <2> SUFFICES ASSUME NEW t \in Servers, Has(t, r.n) PROVE FALSE
    OBVIOUS
  <2>1. r.n <= Cardinality(asked)
    BY <1>0, HasAsked
  <2>2. QED
    BY <1>2, <2>1
<1>10. r \notin asked
  BY <1>3
<1>11. QED
  BY <1>1, <1>2, <1>4, <1>5, <1>6, <1>7, <1>8, <1>9, <1>10

\* The order is kept when a request arrives.
LEMMA ArriveOrder ==
    ASSUME Orderly, NEW s \in Servers, NEW a, Arrive(s, a)
    PROVE  /\ Numbered' /\ OneServer' /\ Answered' /\ StoredOnce'
           /\ \A t \in Servers : Sorted(t)' /\ ChatAt(t)'
<1>0. /\ Good /\ Numbered /\ OneServer /\ Answered /\ StoredOnce
      /\ \A t \in Servers : Sorted(t) /\ ChatAt(t)
      /\ recvd \in [Servers -> Seq(Request)] /\ IsFiniteSet(asked) /\ Cardinality(asked) \in Nat
  BY FS_CardinalityType DEF Orderly, Good, TypeOK, IInv
<1>1. PICK r : /\ r.n = Cardinality(asked) + 1 /\ r.n \in Nat
               /\ asked' = asked \cup {r}
               /\ Cardinality(asked') = r.n
               /\ recvd'[s] = Append(recvd[s], r)
               /\ \A t \in Servers \ {s} : recvd'[t] = recvd[t]
               /\ \A n : Waits(s, n)' <=> Waits(s, n) \/ n = r.n
               /\ \A t \in Servers : \A n : AtHand(t, n)' <=> AtHand(t, n)
               /\ \A t \in Servers \ {s} : \A n : Waits(t, n)' <=> Waits(t, n)
               /\ \A t \in Servers : ~Has(t, r.n)
  BY ArriveMoves
<1>2. UNCHANGED <<pc, root, answers, message>>
  BY DEF Arrive, tables, locals
<1>3. Numbered'
  <2>1. \A q \in asked : q.n \in Nat /\ q.n <= Cardinality(asked)
    BY <1>0, RequestParts DEF Numbered, Good, TypeOK
  <2>2. QED
    BY <1>0, <1>1, <2>1 DEF Numbered
<1>4. OneServer'
  <2>1. \A t \in Servers : \A n : Has(t, n)' => Has(t, n) \/ (t = s /\ n = r.n)
    BY <1>1 DEF Has
  <2>2. QED
    BY <1>0, <1>1, <2>1 DEF OneServer
<1>5. \A b \in answers : b.n <= Cardinality(asked) /\ b.n # r.n
  <2> SUFFICES ASSUME NEW b \in answers PROVE b.n <= Cardinality(asked) /\ b.n # r.n
    OBVIOUS
  <2>1. PICK q \in asked : q.n = b.n
    BY <1>0 DEF Good, IInv, SentToLogins
  <2>2. q.n \in Nat /\ q.n <= Cardinality(asked)
    BY <1>0, RequestParts DEF Numbered, Good, TypeOK
  <2>3. QED
    BY <1>0, <1>1, <2>1, <2>2
<1>6. Answered'
  <2>1. ASSUME NEW b \in answers, NEW t \in Servers
        PROVE  ~Waits(t, b.n)' /\ (AtHand(t, b.n)' => pc[t] \in {"find", "delete", "strtok"})
    BY <1>0, <1>1, <1>5, <2>1 DEF Answered
  <2>2. QED
    BY <1>2, <2>1 DEF Answered
<1>7. StoredOnce'
  <2>1. ASSUME NEW m \in message
        PROVE  /\ m \in asked /\ m.ask.type = "chat" /\ m.n # r.n
               /\ \A b \in answers : b.n = m.n => b.what # "chat"
               /\ \A t \in Servers : ~Waits(t, m.n) /\ (AtHand(t, m.n) => pc[t] = "absent")
    <3>1. m \in asked /\ m.n \in Nat /\ m.n <= Cardinality(asked)
      BY <1>0, <2>1, RequestParts DEF StoredOnce, Numbered, Good, TypeOK
    <3>2. QED
      BY <1>0, <1>1, <2>1, <3>1 DEF StoredOnce
  <2>2. ASSUME NEW m \in message, NEW t \in Servers
        PROVE  ~Waits(t, m.n)' /\ (AtHand(t, m.n)' => pc[t] = "absent")
    BY <1>1, <2>1, <2>2
  <2>3. QED
    BY <1>1, <1>2, <2>1, <2>2 DEF StoredOnce
<1>8. ASSUME NEW t \in Servers PROVE Sorted(t)'
  <2>1. CASE t # s
    BY <1>0, <1>1, <1>2, <2>1 DEF Sorted
  <2>2. CASE t = s
    <3> DEFINE l == Len(recvd[s])
    <3>1. /\ DOMAIN recvd'[s] = (1..l) \cup {l + 1} /\ DOMAIN recvd[s] = 1..l /\ l \in Nat
          /\ recvd'[s][l + 1] = r
          /\ \A i \in 1..l : recvd'[s][i] = recvd[s][i]
      BY <1>0, <1>1
    <3>2. \A i \in 1..l : recvd[s][i].n \in Nat /\ recvd[s][i].n < r.n
      <4> SUFFICES ASSUME NEW i \in 1..l PROVE recvd[s][i].n \in Nat /\ recvd[s][i].n < r.n
        OBVIOUS
      <4>1. Has(s, recvd[s][i].n)
        BY <3>1 DEF Has, Waits
      <4>2. QED
        BY <1>0, <1>1, <4>1, HasAsked
    <3>3. pc[s] \notin Idle => root[s].n \in Nat /\ root[s].n < r.n
      <4>1. pc[s] \notin Idle => Has(s, root[s].n)
        BY DEF Has, AtHand
      <4>2. QED
        BY <1>0, <1>1, <4>1, HasAsked
    <3> HIDE DEF l
    <3>4. ASSUME NEW i \in DOMAIN recvd'[s], NEW j \in DOMAIN recvd'[s], i < j
          PROVE  recvd'[s][i].n < recvd'[s][j].n
      <4>1. i \in 1..l /\ (j \in 1..l \/ j = l + 1)
        BY <3>1, <3>4
      <4>2. CASE j \in 1..l
        BY <1>0, <3>1, <3>4, <4>1, <4>2 DEF Sorted
      <4>3. CASE j = l + 1
        BY <3>1, <3>2, <4>1, <4>3
      <4>4. QED
        BY <4>1, <4>2, <4>3
    <3>5. pc[s] \notin Idle => \A i \in DOMAIN recvd'[s] : root[s].n < recvd'[s][i].n
      BY <1>0, <3>1, <3>3 DEF Sorted
    <3>6. QED
      BY <1>2, <2>2, <3>4, <3>5 DEF Sorted
  <2>3. QED
    BY <2>1, <2>2
<1>9. \A t \in Servers : ChatAt(t)'
  BY <1>0, <1>2 DEF ChatAt
<1>10. QED
  BY <1>3, <1>4, <1>6, <1>7, <1>8, <1>9

\* The balancer's other steps take no request and give none.
LEMMA RestOrder ==
    ASSUME Orderly, UNCHANGED <<recvd, asked, answers, message, root>>,
           \A s \in Servers : pc'[s] = pc[s] \/ (pc[s] \in Idle /\ pc'[s] \in Idle)
    PROVE  /\ Numbered' /\ OneServer' /\ Answered' /\ StoredOnce'
           /\ \A t \in Servers : Sorted(t)' /\ ChatAt(t)'
<1>0. /\ Numbered /\ OneServer /\ Answered /\ StoredOnce
      /\ \A t \in Servers : Sorted(t) /\ ChatAt(t)
  BY DEF Orderly
<1>1. \A t \in Servers : \A n : /\ Waits(t, n)' <=> Waits(t, n)
                                /\ AtHand(t, n)' <=> AtHand(t, n)
                                /\ Has(t, n)' <=> Has(t, n)
                                /\ AtHand(t, n) => pc'[t] = pc[t]
  BY DEF Waits, AtHand, Has
<1>2. Numbered' /\ OneServer'
  BY <1>0, <1>1 DEF Numbered, OneServer
<1>3. Answered' /\ StoredOnce'
  BY <1>0, <1>1 DEF Answered, StoredOnce
<1>4. \A t \in Servers : Sorted(t)' /\ ChatAt(t)'
  BY <1>0 DEF Sorted, ChatAt, Idle
<1>5. QED
  BY <1>2, <1>3, <1>4

\* Every step keeps the order.
LEMMA OrderlyStep == Orderly /\ [Next]_vars => Orderly'
<1> SUFFICES ASSUME Orderly, [Next]_vars PROVE Orderly'
  OBVIOUS
<1>0. Good /\ Good' /\ Numbered
  BY GoodStep DEF Orderly
<1>1. ASSUME NEW s \in Servers, ReadThread(s) PROVE Orderly'
  <2>1. Numbered'
    BY <1>0, <1>1, OwnLocals DEF Numbered
  <2>2. QED
    BY <1>0, <1>1, <2>1, SortedStep, OneServerStep, AnsweredStep, StoredStep, ChatAtStep DEF Orderly
<1>2. ASSUME NEW s \in Servers, NEW a \in Inputs, Arrive(s, a) PROVE Orderly'
  BY <1>0, <1>2, ArriveOrder DEF Orderly
<1>3. CASE (\E f \in Fds : PurgeRow(f)) \/ BalancerEnds \/ BalancerStarts \/ UNCHANGED vars
  <2>1. UNCHANGED <<recvd, asked, answers, message, root>>
    BY <1>3 DEF PurgeRow, BalancerEnds, BalancerStarts, vars, tables, locals
  <2>2. \A s \in Servers : pc'[s] = pc[s] \/ (pc[s] \in Idle /\ pc'[s] \in Idle)
    BY <1>3 DEF PurgeRow, BalancerEnds, BalancerStarts, vars, locals, Idle
  <2>3. QED
    BY <1>0, <2>1, <2>2, RestOrder DEF Orderly
<1>4. QED
  BY <1>1, <1>2, <1>3 DEF Next, Balancer

\* At the start nothing was asked.
LEMMA OrderlyInit == Init => Orderly
<1> SUFFICES ASSUME Init PROVE Orderly
  OBVIOUS
<1>1. Good
  BY GoodInit
<1>2. DOMAIN << >> = {}
  OBVIOUS
<1>3. \A s \in Servers : \A n : ~Has(s, n)
  BY <1>2 DEF Init, Has, Waits, AtHand, Idle
<1>4. Numbered /\ OneServer /\ Answered /\ StoredOnce
  BY <1>3 DEF Init, Numbered, OneServer, Answered, StoredOnce
<1>5. \A s \in Servers : Sorted(s) /\ ChatAt(s)
  BY <1>2 DEF Init, Sorted, ChatAt, Idle
<1>6. QED
  BY <1>1, <1>4, <1>5 DEF Orderly

\* Requests stay in order, each with one server, answered once.
LEMMA OrderlyAlways == Spec => []Orderly
BY OrderlyInit, OrderlyStep, PTL DEF Spec

-----------------------------------------------------------------------------
\* What decides where message n is.
Chat(n)       == \E r \in asked : r.n = n /\ r.ask.type = "chat"
Passed(n)     == \E a \in answers : a.n = n /\ a.what = "chat"
Kept(n)       == \E m \in message : m.n = n
TakenBy(s, n) == root[s] # NoReq /\ root[s].n = n /\ pc[s] \in {"chat", "store", "forward"}
Held(n)      == \E s \in Servers : TakenBy(s, n)
Queued(n)     == \E s \in Servers : Waits(s, n)

\* PlaceOf looks at these, in that order.
LEMMA PlaceIs ==
    ASSUME NEW n
    PROVE  /\ ~Chat(n) => PlaceOf(n) = "away"
           /\ Chat(n) /\ Passed(n) => PlaceOf(n) = "sent"
           /\ Chat(n) /\ ~Passed(n) /\ Kept(n) => PlaceOf(n) = "stored"
           /\ Chat(n) /\ ~Passed(n) /\ ~Kept(n) /\ Held(n) => PlaceOf(n) = "taken"
           /\ Chat(n) /\ ~Passed(n) /\ ~Kept(n) /\ ~Held(n) /\ Queued(n) => PlaceOf(n) = "away"
           /\ Chat(n) /\ ~Passed(n) /\ ~Kept(n) /\ ~Held(n) /\ ~Queued(n) => PlaceOf(n) = "over"
BY DEF PlaceOf, Chat, Passed, Kept, TakenBy, Held, Waits, Queued

\* The same of the next state.
LEMMA PlaceIsNext ==
    ASSUME NEW n
    PROVE  /\ ~Chat(n)' => PlaceOf(n)' = "away"
           /\ Chat(n)' /\ Passed(n)' => PlaceOf(n)' = "sent"
           /\ Chat(n)' /\ ~Passed(n)' /\ Kept(n)' => PlaceOf(n)' = "stored"
           /\ Chat(n)' /\ ~Passed(n)' /\ ~Kept(n)' /\ Held(n)' => PlaceOf(n)' = "taken"
           /\ Chat(n)' /\ ~Passed(n)' /\ ~Kept(n)' /\ ~Held(n)' /\ Queued(n)' => PlaceOf(n)' = "away"
           /\ Chat(n)' /\ ~Passed(n)' /\ ~Kept(n)' /\ ~Held(n)' /\ ~Queued(n)' => PlaceOf(n)' = "over"
BY DEF PlaceOf, Chat, Passed, Kept, TakenBy, Held, Waits, Queued

\* They exclude each other.
LEMMA Apart ==
    ASSUME Orderly, NEW n
    PROVE  /\ \A s \in Servers : TakenBy(s, n) <=>
                  AtHand(s, n) /\ pc[s] \in {"chat", "store", "forward"}
           /\ \A s \in Servers : TakenBy(s, n) => Chat(n) /\ n \in 1..MaxRequests
           /\ \A s, t \in Servers : TakenBy(s, n) /\ AtHand(t, n) => s = t
           /\ Passed(n) => ~Kept(n) /\ ~Held(n) /\ ~Queued(n)
           /\ Kept(n) => ~Held(n) /\ ~Queued(n)
           /\ Held(n) => ~Queued(n)
<1>0. Good /\ OneServer /\ Answered /\ StoredOnce /\ \A s \in Servers : ChatAt(s) /\ UnderWayAt(s)
  BY DEF Orderly, Good, IInv
<1>1. ASSUME NEW s \in Servers, pc[s] \notin Idle PROVE root[s] \in asked /\ root[s] # NoReq
  BY <1>0, <1>1, RequestAssumption DEF UnderWayAt, Good, TypeOK
<1>2. \A s \in Servers : TakenBy(s, n) <=>
          AtHand(s, n) /\ pc[s] \in {"chat", "store", "forward"}
  BY <1>1 DEF TakenBy, AtHand, Idle
<1>3. ASSUME NEW s \in Servers, TakenBy(s, n) PROVE Chat(n) /\ n \in 1..MaxRequests
  <2>1. root[s] \in asked /\ root[s].ask.type = "chat" /\ root[s].n = n
    BY <1>0, <1>1, <1>2, <1>3 DEF ChatAt, AtHand
  <2>2. QED
    BY <1>0, <2>1, RequestParts DEF Chat, Good, TypeOK
<1>4. \A s, t \in Servers : TakenBy(s, n) /\ AtHand(t, n) => s = t
  BY <1>0, <1>2 DEF OneServer, Has
<1>5. Passed(n) => ~Kept(n) /\ ~Held(n) /\ ~Queued(n)
  BY <1>0, <1>2 DEF Passed, Kept, Held, Queued, Answered, StoredOnce
<1>6. Kept(n) => ~Held(n) /\ ~Queued(n)
  BY <1>0, <1>2 DEF Kept, Held, Queued, StoredOnce
<1>7. Held(n) => ~Queued(n)
  BY <1>0, <1>2, HandIsFirst DEF Held, Queued, OneServer, Has
<1>8. QED
  BY <1>2, <1>3, <1>4, <1>5, <1>6, <1>7

\* A message that nothing happens to stays where it is.
LEMMA PlaceStays ==
    ASSUME NEW n, Chat(n)' <=> Chat(n), Passed(n)' <=> Passed(n), Kept(n)' <=> Kept(n),
           Held(n)' <=> Held(n), Queued(n)' <=> Queued(n)
    PROVE  PlaceOf(n)' = PlaceOf(n)
BY PlaceIs, PlaceIsNext

Messages == 1..MaxRequests

\* A step that moves some from one place to another, and no others.
LEMMA SomeMove ==
    ASSUME NEW from, NEW to,
           \A n \in Messages : PlaceOf(n)' = PlaceOf(n) \/ (PlaceOf(n) = from /\ PlaceOf(n)' = to)
    PROVE  \E S \in SUBSET Messages : Mail!Moves(S, from, to)
<1> DEFINE S == {n \in Messages : PlaceOf(n) = from /\ PlaceOf(n)' = to}
<1>1. [n \in Messages |-> PlaceOf(n)]'
         = [n \in Messages |-> IF n \in S THEN to ELSE [m \in Messages |-> PlaceOf(m)][n]]
  OBVIOUS
<1>2. \A n \in S : [m \in Messages |-> PlaceOf(m)][n] = from
  OBVIOUS
<1>3. Mail!Moves(S, from, to)
  BY <1>1, <1>2 DEF Mail!Moves, Messages
<1>4. QED
  BY <1>3

\* A step that moves one.
LEMMA OneMoves ==
    ASSUME NEW n \in Messages, NEW from, NEW to, PlaceOf(n) = from, PlaceOf(n)' = to,
           \A m \in Messages \ {n} : PlaceOf(m)' = PlaceOf(m)
    PROVE  Mail!Moves({n}, from, to)
BY DEF Mail!Moves, Messages

\* A step that moves none.
LEMMA NoneMoves ==
    ASSUME \A n \in Messages : PlaceOf(n)' = PlaceOf(n)
    PROVE  UNCHANGED [n \in Messages |-> PlaceOf(n)]
OBVIOUS

-----------------------------------------------------------------------------
\* A server's step leaves alone what other servers have.
LEMMA HeldMoves ==
    ASSUME Orderly, NEW s \in Servers, ReadThread(s), NEW n
    PROVE  /\ Chat(n)' <=> Chat(n)
           /\ Held(n)' <=> TakenBy(s, n)' \/ (Held(n) /\ ~TakenBy(s, n))
           /\ Queued(n)' => Queued(n)
           /\ recvd'[s] = recvd[s] => (Queued(n)' <=> Queued(n))
<1>0. Good
  BY DEF Orderly
<1>1. \A t \in Servers \ {s} : /\ recvd'[t] = recvd[t] /\ pc'[t] = pc[t] /\ root'[t] = root[t]
                               /\ TakenBy(t, n)' <=> TakenBy(t, n)
                               /\ Waits(t, n)' <=> Waits(t, n)
  BY <1>0, OwnLocals DEF TakenBy, Waits
<1>2. Chat(n)' <=> Chat(n)
  BY <1>0, OwnLocals DEF Chat
<1>3. Held(n)' <=> TakenBy(s, n)' \/ (Held(n) /\ ~TakenBy(s, n))
  <2>1. \A t \in Servers : TakenBy(s, n) /\ TakenBy(t, n) => t = s
    BY Apart
  <2>2. QED
    BY <1>1, <2>1 DEF Held
<1>4. Queued(n)' => Queued(n)
  BY <1>0, <1>1, HasShrinks DEF Queued
<1>5. recvd'[s] = recvd[s] => (Queued(n)' <=> Queued(n))
  BY <1>1 DEF Queued, Waits
<1>6. QED
  BY <1>2, <1>3, <1>4, <1>5

\* recv() brings one message to hand, and others that came with it are gone.
LEMMA RecvMail ==
    ASSUME Orderly, NEW s \in Servers, ReadThread(s), Recv(s)
    PROVE  [Mail!MailNext]_([n \in Messages |-> PlaceOf(n)])
<1>0. Good /\ recvd \in [Servers -> Seq(Request)]
  BY DEF Orderly, Good, TypeOK
<1>1. PICK r \in Request : /\ r = recvd[s][1] /\ Waits(s, r.n) /\ r \in asked
                           /\ root'[s] = r /\ pc'[s] = r.ask.type
  <2>1. recvd[s][1] \in Request /\ recvd[s][1] \in asked
    BY <1>0, RecvMoves DEF Good, IInv, UnderWayAt
  <2>2. QED
    BY <1>0, <2>1, RecvMoves DEF Waits
<1>2. r.ask.type \in Types /\ r.n \in Messages /\ r # NoReq
  BY RequestParts, RequestAssumption DEF Messages
<1>3. /\ UNCHANGED <<answers, message>> /\ pc[s] \in Idle
      /\ \A n : ~TakenBy(s, n)
  BY <1>0, RecvMoves DEF TakenBy, Idle
<1>4. \A n : (Passed(n)' <=> Passed(n)) /\ (Kept(n)' <=> Kept(n))
  BY <1>3 DEF Passed, Kept
<1>5. \A n : TakenBy(s, n)' <=> n = r.n /\ r.ask.type = "chat"
  BY <1>1, <1>2 DEF TakenBy, Types
<1>6. ASSUME NEW n \in Messages, ~TakenBy(s, n)'
      PROVE  PlaceOf(n)' = PlaceOf(n) \/ (PlaceOf(n) = "away" /\ PlaceOf(n)' = "over")
  <2>1. Queued(n)' => Queued(n)
    BY HeldMoves
  <2>2. CASE Queued(n)' <=> Queued(n)
    <3>1. PlaceOf(n)' = PlaceOf(n)
      BY <1>3, <1>4, <1>6, <2>2, HeldMoves, PlaceStays
    <3>2. QED
      BY <3>1
  <2>3. CASE Queued(n) /\ ~Queued(n)' /\ Chat(n)
    <3>1. ~Passed(n) /\ ~Kept(n) /\ ~Held(n)
      BY <2>3, Apart
    <3>2. PlaceOf(n) = "away"
      BY <2>3, <3>1, PlaceIs
    <3>3. Chat(n)' /\ ~Passed(n)' /\ ~Kept(n)' /\ ~Held(n)' /\ ~Queued(n)'
      BY <1>3, <1>4, <1>6, <2>3, <3>1, HeldMoves
    <3>4. PlaceOf(n)' = "over"
      BY <3>3, PlaceIsNext
    <3>5. QED
      BY <3>2, <3>4
  <2>4. CASE ~Chat(n)
    <3>1. PlaceOf(n) = "away"
      BY <2>4, PlaceIs
    <3>2. ~Chat(n)'
      BY <2>4, HeldMoves
    <3>3. PlaceOf(n)' = "away"
      BY <3>2, PlaceIsNext
    <3>4. QED
      BY <3>1, <3>3
  <2>5. (Queued(n)' <=> Queued(n)) \/ (Queued(n) /\ ~Queued(n)')
    BY <2>1
  <2>6. QED
    BY <2>2, <2>3, <2>4, <2>5
<1>7. CASE r.ask.type = "chat"
  <2>1. Queued(r.n) /\ Chat(r.n)
    BY <1>1, <1>7 DEF Queued, Chat
  <2>2. ~Passed(r.n) /\ ~Kept(r.n) /\ ~Held(r.n)
    BY <2>1, Apart
  <2>3. PlaceOf(r.n) = "away"
    BY <2>1, <2>2, PlaceIs
  <2>4. TakenBy(s, r.n)'
    BY <1>5, <1>7
  <2>5. Chat(r.n)' /\ ~Passed(r.n)' /\ ~Kept(r.n)' /\ Held(r.n)'
    BY <1>4, <2>1, <2>2, <2>4, HeldMoves
  <2>6. PlaceOf(r.n)' = "taken"
    BY <2>5, PlaceIsNext
  <2> DEFINE S == {n \in Messages : PlaceOf(n) = "away" /\ PlaceOf(n)' = "over"}
  <2>7. ASSUME NEW n \in Messages
        PROVE  PlaceOf(n)' = IF n = r.n THEN "taken" ELSE IF n \in S THEN "over" ELSE PlaceOf(n)
    BY <1>5, <1>6, <2>6, <2>7
  <2>8. \A n \in S \cup {r.n} : n \in Messages /\ PlaceOf(n) = "away"
    BY <1>2, <2>3
  <2> HIDE DEF S
  <2>9. Mail!Receive(r.n, S)
    BY <2>7, <2>8 DEF Mail!Receive, Messages
  <2>10. S \in SUBSET Messages
    BY DEF S
  <2>11. QED
    BY <1>2, <2>9, <2>10 DEF Mail!MailNext, Messages
<1>8. CASE r.ask.type # "chat"
  <2>1. \E S \in SUBSET Messages : Mail!Moves(S, "away", "over")
    BY <1>5, <1>6, <1>8, SomeMove
  <2>2. QED
    BY <2>1 DEF Mail!MailNext, Mail!Miss, Messages
<1>9. QED
  BY <1>7, <1>8

\* close() of the connection: what waits is never read.
LEMMA CloseMail ==
    ASSUME Orderly, NEW s \in Servers, ReadThread(s), CloseLink(s)
    PROVE  [Mail!MailNext]_([n \in Messages |-> PlaceOf(n)])
<1>0. Good /\ pc \in [Servers -> Lines]
  BY DEF Orderly, Good, TypeOK
<1>1. UNCHANGED <<answers, message, root>> /\ pc[s] = "offline" /\ pc'[s] = "deletestate"
  BY <1>0 DEF CloseLink, Goto, tables
<1>2. ASSUME NEW n \in Messages
      PROVE  PlaceOf(n)' = PlaceOf(n) \/ (PlaceOf(n) = "away" /\ PlaceOf(n)' = "over")
  <2>1. /\ Passed(n)' <=> Passed(n)
        /\ Kept(n)' <=> Kept(n)
        /\ Chat(n)' <=> Chat(n)
        /\ Held(n)' <=> Held(n)
        /\ Queued(n)' => Queued(n)
    <3>1. ~TakenBy(s, n) /\ ~TakenBy(s, n)'
      BY <1>1 DEF TakenBy
    <3>2. QED
      BY <1>1, <3>1, HeldMoves DEF Passed, Kept
  <2>2. CASE Queued(n)' <=> Queued(n)
    <3>1. PlaceOf(n)' = PlaceOf(n)
      BY <2>1, <2>2, PlaceStays
    <3>2. QED
      BY <3>1
  <2>3. CASE Queued(n) /\ ~Queued(n)' /\ Chat(n)
    <3>1. ~Passed(n) /\ ~Kept(n) /\ ~Held(n)
      BY <2>3, Apart
    <3>2. PlaceOf(n) = "away"
      BY <2>3, <3>1, PlaceIs
    <3>3. PlaceOf(n)' = "over"
      BY <2>1, <2>3, <3>1, PlaceIsNext
    <3>4. QED
      BY <3>2, <3>3
  <2>4. CASE ~Chat(n)
    <3>1. PlaceOf(n) = "away" /\ PlaceOf(n)' = "away"
      BY <2>1, <2>4, PlaceIs, PlaceIsNext
    <3>2. QED
      BY <3>1
  <2>5. QED
    BY <2>1, <2>2, <2>3, <2>4
<1>3. \E S \in SUBSET Messages : Mail!Moves(S, "away", "over")
  BY <1>2, SomeMove
<1>4. QED
  BY <1>3 DEF Mail!MailNext, Mail!Miss, Messages

\* delSendedMsg: stored messages go, if the query does not fail.
LEMMA FetchMail ==
    ASSUME Orderly, NEW s \in Servers, ReadThread(s), DelSendedMsg(s)
    PROVE  [Mail!MailNext]_([n \in Messages |-> PlaceOf(n)])
<1>0. Good /\ pc \in [Servers -> Lines]
  BY DEF Orderly, Good, TypeOK
<1>1. /\ UNCHANGED <<answers, recvd, root>> /\ message' \subseteq message
      /\ pc[s] = "delete" /\ pc'[s] = "strtok"
  BY <1>0 DEF DelSendedMsg, Goto, Becomes
<1>2. ASSUME NEW n \in Messages
      PROVE  PlaceOf(n)' = PlaceOf(n) \/ (PlaceOf(n) = "stored" /\ PlaceOf(n)' = "over")
  <2>1. /\ Passed(n)' <=> Passed(n)
        /\ Kept(n)' => Kept(n)
        /\ Chat(n)' <=> Chat(n)
        /\ Held(n)' <=> Held(n)
        /\ Queued(n)' <=> Queued(n)
    <3>1. ~TakenBy(s, n) /\ ~TakenBy(s, n)'
      BY <1>1 DEF TakenBy
    <3>2. QED
      BY <1>1, <3>1, HeldMoves DEF Passed, Kept
  <2>2. CASE Kept(n)' <=> Kept(n)
    <3>1. PlaceOf(n)' = PlaceOf(n)
      BY <2>1, <2>2, PlaceStays
    <3>2. QED
      BY <3>1
  <2>3. CASE Kept(n) /\ ~Kept(n)' /\ Chat(n)
    <3>1. ~Passed(n) /\ ~Held(n) /\ ~Queued(n)
      BY <2>3, Apart
    <3>2. PlaceOf(n) = "stored"
      BY <2>3, <3>1, PlaceIs
    <3>3. PlaceOf(n)' = "over"
      BY <2>1, <2>3, <3>1, PlaceIsNext
    <3>4. QED
      BY <3>2, <3>3
  <2>4. CASE ~Chat(n)
    <3>1. PlaceOf(n) = "away" /\ PlaceOf(n)' = "away"
      BY <2>1, <2>4, PlaceIs, PlaceIsNext
    <3>2. QED
      BY <3>1
  <2>5. QED
    BY <2>1, <2>2, <2>3, <2>4
<1>3. \E S \in SUBSET Messages : Mail!Moves(S, "stored", "over")
  BY <1>2, SomeMove
<1>4. QED
  BY <1>3 DEF Mail!MailNext, Mail!Fetch, Messages

\* The server that has a message at hand stores it, passes it on or loses it,
\* and nothing happens to the others.
LEMMA HandMail ==
    ASSUME Orderly, NEW s \in Servers, ReadThread(s),
           pc[s] \in {"store", "forward"}
    PROVE  [Mail!MailNext]_([n \in Messages |-> PlaceOf(n)])
<1>0. Good /\ pc \in [Servers -> Lines] /\ UnderWayAt(s) /\ ChatAt(s)
  BY DEF Orderly, Good, TypeOK, IInv
<1>1. PICK r \in asked : r = root[s] /\ r.ask.type = "chat" /\ r \in Request /\ r # NoReq
  BY <1>0, RequestAssumption DEF UnderWayAt, ChatAt, Idle, Good, TypeOK
<1>2. r.n \in Messages /\ Chat(r.n) /\ TakenBy(s, r.n)
  BY <1>1, RequestParts DEF Messages, Chat, TakenBy
<1>3. ~Passed(r.n) /\ ~Kept(r.n) /\ Held(r.n) /\ ~Queued(r.n)
  <2>1. Held(r.n)
    BY <1>2 DEF Held
  <2>2. QED
    BY <2>1, Apart
<1>4. PlaceOf(r.n) = "taken"
  BY <1>2, <1>3, PlaceIs
<1>5. /\ ForwardChat(s) \/ Killed(s) \/ InsertIntoMessage(s)
      /\ recvd' = recvd /\ pc'[s] \notin {"chat", "store", "forward"}
      /\ \A a \in answers' : a \in answers \/ a.n = r.n
      /\ \A m \in message' : m \in message \/ m = r
      /\ message \subseteq message' /\ answers \subseteq answers'
  <2> USE DEF Goto, Again, tables
  <2>1. ~Recv(s) /\ ~QueryPasswd(s) /\ ~InsertIntoStates(s) /\ ~AckLogin(s)
        /\ ~FindMesg(s) /\ ~DelSendedMsg(s) /\ ~SendStored(s) /\ ~GetStates(s) /\ ~TellAbsent(s)
    BY DEF Recv, QueryPasswd, InsertIntoStates, AckLogin, FindMesg, DelSendedMsg, SendStored,
           GetStates, TellAbsent
  <2>2. ~InsertIntoUser(s) /\ ~AckRegister(s) /\ ~CloseLink(s) /\ ~DelState(s) /\ ~LeaveLoop(s)
    BY DEF InsertIntoUser, AckRegister, CloseLink, DelState, LeaveLoop
  <2>3. CASE ForwardChat(s)
    BY <1>0, <1>1, <2>3 DEF ForwardChat, Send
  <2>4. CASE Killed(s)
    BY <1>0, <2>4 DEF Killed
  <2>5. CASE InsertIntoMessage(s)
    BY <1>0, <1>1, <2>5 DEF InsertIntoMessage, AfterStore, Becomes
  <2>6. QED
    BY <2>1, <2>2, <2>3, <2>4, <2>5 DEF ReadThread, Loop
<1>6. \A n : /\ Chat(n)' <=> Chat(n)
             /\ Queued(n)' <=> Queued(n)
             /\ Held(n)' <=> Held(n) /\ n # r.n
  <2>1. \A n : ~TakenBy(s, n)'
    BY <1>5 DEF TakenBy
  <2>2. \A n : TakenBy(s, n) <=> n = r.n
    BY <1>1, <1>2 DEF TakenBy
  <2>3. QED
    BY <1>5, <2>1, <2>2, HeldMoves
<1>7. ASSUME NEW n \in Messages \ {r.n} PROVE PlaceOf(n)' = PlaceOf(n)
  <2>1. (Passed(n)' <=> Passed(n)) /\ (Kept(n)' <=> Kept(n))
    BY <1>5, <1>7 DEF Passed, Kept
  <2>2. QED
    BY <1>6, <1>7, <2>1, PlaceStays
<1>8. CASE Passed(r.n)'
  <2>1. PlaceOf(r.n)' = "sent"
    BY <1>2, <1>6, <1>8, PlaceIsNext
  <2>2. Mail!Moves({r.n}, "taken", "sent")
    BY <1>2, <1>4, <1>7, <2>1, OneMoves
  <2>3. QED
    BY <1>2, <2>2 DEF Mail!MailNext, Mail!Pass, Messages
<1>9. CASE ~Passed(r.n)' /\ Kept(r.n)'
  <2>1. PlaceOf(r.n)' = "stored"
    BY <1>2, <1>6, <1>9, PlaceIsNext
  <2>2. Mail!Moves({r.n}, "taken", "stored")
    BY <1>2, <1>4, <1>7, <2>1, OneMoves
  <2>3. QED
    BY <1>2, <2>2 DEF Mail!MailNext, Mail!Store, Messages
<1>10. CASE ~Passed(r.n)' /\ ~Kept(r.n)'
  <2>1. PlaceOf(r.n)' = "over"
    BY <1>2, <1>3, <1>6, <1>10, PlaceIsNext
  <2>2. Mail!Moves({r.n}, "taken", "over")
    BY <1>2, <1>4, <1>7, <2>1, OneMoves
  <2>3. QED
    BY <1>2, <2>2 DEF Mail!MailNext, Mail!Lose, Messages
<1>11. QED
  BY <1>8, <1>9, <1>10

\* Every other step of a server leaves all messages where they are.
LEMMA OtherMail ==
    ASSUME Orderly, NEW s \in Servers, ReadThread(s), ~Recv(s), ~CloseLink(s), ~DelSendedMsg(s),
           pc[s] \notin {"store", "forward"}, NEW n
    PROVE  PlaceOf(n)' = PlaceOf(n)
<1>0. Good /\ pc \in [Servers -> Lines]
  BY DEF Orderly, Good, TypeOK
<1>1. /\ recvd' = recvd /\ message' = message
      /\ pc'[s] \in {"chat", "store", "forward"} <=> pc[s] \in {"chat", "store", "forward"}
      /\ pc[s] \in {"chat", "store", "forward"} => root'[s] = root[s]
  <2> USE DEF Goto, Again, tables
  <2>1. CASE QueryPasswd(s) \/ InsertIntoStates(s) \/ AckLogin(s) \/ FindMesg(s) \/ SendStored(s)
    BY <1>0, <2>1 DEF QueryPasswd, AfterQuery, InsertIntoStates, AckLogin, FindMesg, SendStored
  <2>2. CASE GetStates(s)
    BY <1>0, <2>2 DEF GetStates
  <2>3. CASE TellAbsent(s) \/ InsertIntoUser(s) \/ AckRegister(s)
    BY <1>0, <2>3 DEF TellAbsent, InsertIntoUser, AckRegister
  <2>4. CASE DelState(s) \/ LeaveLoop(s) \/ Killed(s)
    BY <1>0, <2>4 DEF DelState, LeaveLoop, Killed
  <2>5. ~InsertIntoMessage(s) /\ ~ForwardChat(s)
    BY DEF InsertIntoMessage, ForwardChat
  <2>6. QED
    BY <2>1, <2>2, <2>3, <2>4, <2>5 DEF ReadThread, Loop
<1>2. TakenBy(s, n)' <=> TakenBy(s, n)
  BY <1>1 DEF TakenBy
<1>3. /\ Chat(n)' <=> Chat(n)
      /\ Held(n)' <=> Held(n)
      /\ Queued(n)' <=> Queued(n)
  BY <1>1, <1>2, HeldMoves DEF Held
<1>4. Kept(n)' <=> Kept(n)
  BY <1>1 DEF Kept
<1>5. Passed(n)' <=> Passed(n)
  <2>1. answers \subseteq answers' /\ \A a \in answers' \ answers : a.what # "chat"
    BY <1>0, OwnLocals, SendMoves
  <2>2. QED
    BY <2>1 DEF Passed
<1>6. QED
  BY <1>3, <1>4, <1>5, PlaceStays

\* What arrives is away until a server takes it.
LEMMA ArriveMail ==
    ASSUME Orderly, NEW s \in Servers, NEW a, Arrive(s, a), NEW n
    PROVE  PlaceOf(n)' = PlaceOf(n)
<1>0. Good /\ Numbered /\ IsFiniteSet(asked) /\ Cardinality(asked) \in Nat
  BY FS_CardinalityType DEF Orderly, Good, IInv
<1>1. PICK r : /\ r.n = Cardinality(asked) + 1
               /\ asked' = asked \cup {r}
               /\ \A m : Waits(s, m)' <=> Waits(s, m) \/ m = r.n
               /\ \A t \in Servers \ {s} : \A m : Waits(t, m)' <=> Waits(t, m)
               /\ \A t \in Servers : ~Has(t, r.n)
  BY ArriveMoves
<1>2. UNCHANGED <<pc, root, answers, message>>
  BY DEF Arrive, tables, locals
<1>3. /\ Passed(n)' <=> Passed(n)
      /\ Kept(n)' <=> Kept(n)
      /\ Held(n)' <=> Held(n)
  BY <1>2 DEF Passed, Kept, Held, TakenBy
<1>4. CASE n # r.n
  <2>1. (Chat(n)' <=> Chat(n)) /\ (Queued(n)' <=> Queued(n))
    BY <1>1, <1>4 DEF Chat, Queued
  <2>2. QED
    BY <1>3, <2>1, PlaceStays
<1>5. CASE n = r.n
  <2>1. \A q \in asked : q.n # n
    BY <1>0, <1>1, <1>5, RequestParts DEF Numbered, Good, TypeOK
  <2>2. ~Chat(n) /\ ~Passed(n) /\ ~Kept(n)
    BY <1>0, <2>1 DEF Chat, Passed, Kept, Orderly, StoredOnce, Good, IInv, SentToLogins
  <2>3. ~Held(n)
    BY <1>1, <1>5, Apart DEF Held, Has
  <2>4. Queued(n)'
    BY <1>1, <1>5 DEF Queued
  <2>5. PlaceOf(n) = "away"
    BY <2>2, PlaceIs
  <2>6. ~Passed(n)' /\ ~Kept(n)' /\ ~Held(n)'
    BY <1>3, <2>2, <2>3
  <2>7. PlaceOf(n)' = "away"
    BY <2>4, <2>6, PlaceIsNext
  <2>8. QED
    BY <2>5, <2>7
<1>6. QED
  BY <1>4, <1>5

\* Each step of the servers and the balancer is a step of Mailbox, or moves
\* no message.
LEMMA MailStep == ASSUME Orderly, [Next]_vars PROVE [Mail!MailNext]_([n \in Messages |-> PlaceOf(n)])
<1>1. ASSUME NEW s \in Servers, ReadThread(s)
      PROVE  [Mail!MailNext]_([n \in Messages |-> PlaceOf(n)])
  <2>1. CASE Recv(s)
    BY <1>1, <2>1, RecvMail
  <2>2. CASE CloseLink(s)
    BY <1>1, <2>2, CloseMail
  <2>3. CASE DelSendedMsg(s)
    BY <1>1, <2>3, FetchMail
  <2>4. CASE pc[s] \in {"store", "forward"}
    BY <1>1, <2>4, HandMail
  <2>5. CASE ~Recv(s) /\ ~CloseLink(s) /\ ~DelSendedMsg(s) /\ pc[s] \notin {"store", "forward"}
    <3>1. \A n \in Messages : PlaceOf(n)' = PlaceOf(n)
      BY <1>1, <2>5, OtherMail
    <3>2. QED
      BY <3>1, NoneMoves
  <2>6. QED
    BY <2>1, <2>2, <2>3, <2>4, <2>5
<1>2. ASSUME NEW s \in Servers, NEW a \in Inputs, Arrive(s, a)
      PROVE  [Mail!MailNext]_([n \in Messages |-> PlaceOf(n)])
  <2>1. \A n \in Messages : PlaceOf(n)' = PlaceOf(n)
    BY <1>2, ArriveMail
  <2>2. QED
    BY <2>1, NoneMoves
<1>3. CASE (\E f \in Fds : PurgeRow(f)) \/ BalancerEnds \/ BalancerStarts \/ UNCHANGED vars
  <2>1. /\ UNCHANGED <<recvd, asked, answers, message, root>>
        /\ \A s \in Servers : pc'[s] \in {"chat", "store", "forward"}
                                <=> pc[s] \in {"chat", "store", "forward"}
    BY <1>3 DEF PurgeRow, BalancerEnds, BalancerStarts, vars, tables, locals
  <2>2. ASSUME NEW n \in Messages PROVE PlaceOf(n)' = PlaceOf(n)
    <3>1. /\ Chat(n)' <=> Chat(n)
          /\ Passed(n)' <=> Passed(n)
          /\ Kept(n)' <=> Kept(n)
      BY <2>1 DEF Chat, Passed, Kept
    <3>2. /\ Held(n)' <=> Held(n)
          /\ Queued(n)' <=> Queued(n)
      BY <2>1 DEF Held, TakenBy, Queued, Waits
    <3>3. QED
      BY <3>1, <3>2, PlaceStays
  <2>3. QED
    BY <2>2, NoneMoves
<1>4. QED
  BY <1>1, <1>2, <1>3 DEF Next, Balancer

\* At the start no message was sent.
LEMMA MailStart == Init => Mail!MailInit
<1> SUFFICES ASSUME Init, NEW n \in Messages PROVE PlaceOf(n) = "away"
  BY DEF Mail!MailInit, Messages
<1>1. ~Chat(n)
  BY DEF Init, Chat
<1>2. QED
  BY <1>1, PlaceIs

(***************************************************************************)
(* A chat message is taken by one server, and passed on, or stored, or     *)
(* lost; what is stored stays until it is fetched; nothing comes back      *)
(* (ReadThread and the queries on table message, server2.cpp, mysql.cpp).  *)
(***************************************************************************)
THEOREM ImplementsTheMailbox == Spec => ImplementsMailbox
<1>1. Orderly /\ [Next]_vars => [Mail!MailNext]_([n \in 1..MaxRequests |-> PlaceOf(n)])
  BY MailStep DEF Messages
<1>2. QED
  BY <1>1, OrderlyAlways, MailStart, PTL DEF Spec, ImplementsMailbox, Mail!MailSpec

=============================================================================
