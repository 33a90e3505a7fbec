---------------------- MODULE LoadBalancerOrder_proofs ----------------------
(***************************************************************************)
(* What the balancer owes its clients, for every number of workers,        *)
(* clients, servers and descriptors: a worker never blocks in recv() on a  *)
(* client, counts its clients right, sends a request to the server the     *)
(* hash names and a client's requests in the order they were written; and  *)
(* that it implements Connection, each step moving one connection as       *)
(* Connection allows, or none.                                             *)
(***************************************************************************)
EXTENDS LoadBalancer_proofs, FiniteSetTheorems

\* A client has at most one descriptor, and one place in the queue before that.
OneFd ==
    /\ \A f, g \in Fds : file[f] \in Clients /\ file[f] = file[g] => f = g
    /\ \A i, j \in DOMAIN backlog : backlog[i] = backlog[j] => i = j
    /\ \A i \in DOMAIN backlog : link[backlog[i]] # "absent"
    /\ \A i \in DOMAIN backlog : \A f \in Fds : file[f] # backlog[i]
    /\ \A f \in ClientFds : link[file[f]] # "absent"
    /\ \A c \in Clients : link[c] # "refused"

\* send() moves a connection on as far as its states go.
LEMMA SendToLinks ==
    ASSUME Good, NEW f, NEW m, SendTo(f, m), NEW c \in Clients
    PROVE  \/ link'[c] = link[c]
           \/ link[c] \in {"fin", "probed"} /\ link'[c] = "probed"
           \/ link[c] = "reset" /\ link'[c] = "dead"
BY Distinct DEF Good, TypeInv, TypeOK, SendTo

\* A client connects once, and once its connection has ended or been reset it
\* stays so.
LEMMA LinkMoves ==
    ASSUME Good, [Next]_vars, NEW c \in Clients
    PROVE  \/ link'[c] = link[c]
           \/ link[c] = "absent" /\ link'[c] = "up" /\ ClientConnect(c)
           \/ link[c] = "up" /\ link'[c] \in {"fin", "reset"}
           \/ link[c] \in {"fin", "probed"} /\ link'[c] \in {"probed", "dead"}
           \/ link[c] = "reset" /\ link'[c] = "dead"
<1> USE Distinct
<1>0. link \in [Socks -> Links]
  BY DEF Good, TypeInv, TypeOK
<1>1. ASSUME NEW w \in Workers, Forward(w)
      PROVE  \/ link'[c] = link[c]
             \/ link[c] \in {"fin", "probed"} /\ link'[c] = "probed"
             \/ link[c] = "reset" /\ link'[c] = "dead"
  BY <1>1, SendToLinks DEF Forward
<1>2. ASSUME NEW w \in Workers, Reply(w)
      PROVE  \/ link'[c] = link[c]
             \/ link[c] \in {"fin", "probed"} /\ link'[c] = "probed"
             \/ link[c] = "reset" /\ link'[c] = "dead"
  BY <1>2, SendToLinks DEF Reply
<1>3. ASSUME NEW w \in Workers, RecvError(w)
      PROVE  link'[c] = link[c] \/ (link[c] = "reset" /\ link'[c] = "dead")
  BY <1>0, <1>3 DEF RecvError
<1>4. ASSUME NEW w \in Workers, \/ EpollWait(w) \/ NextEvent(w) \/ ReadPipe(w)
                                \/ RecvData(w) \/ RecvEof(w) \/ SelectServer(w) \/ LookupNull(w)
                                \/ BumpTag(w) \/ CloseClient(w) \/ Purge(w) \/ CloseServer(w)
      PROVE  link' = link
  BY <1>4 DEF EpollWait, NextEvent, ReadPipe, RecvData, RecvEof, SelectServer, LookupNull, BumpTag,
     CloseClient, Purge, CloseServer, kernelVars
<1>5. ASSUME Main PROVE link' = link
  BY <1>5 DEF Main, OpenDb, Accept, OutOfFds, WritePipe, kernelVars
<1>6. ASSUME NEW d \in Clients, ClientConnect(d)
      PROVE  \/ link'[c] = link[c]
             \/ link[c] = "absent" /\ link'[c] = "up" /\ ClientConnect(c)
  BY <1>0, <1>6 DEF ClientConnect
<1>7. ASSUME NEW k \in Socks, HangUp(k)
      PROVE  link'[c] = link[c] \/ (link[c] = "up" /\ link'[c] \in {"fin", "reset"})
  BY <1>0, <1>7 DEF HangUp
<1>8. ASSUME NEW k \in Socks, Probed(k)
      PROVE  link'[c] = link[c] \/ (link[c] = "probed" /\ link'[c] = "dead")
  BY <1>0, <1>8 DEF Probed
<1>9. ASSUME NEW d \in Clients, ClientSend(d) PROVE link' = link
  BY <1>9 DEF ClientSend
<1>10. ASSUME NEW s \in Servers, ServerAck(s) \/ ServerChat(s) PROVE link' = link
  BY <1>10 DEF ServerAck, ServerChat, ServerSends
<1>11. ASSUME UNCHANGED vars PROVE link' = link
  BY <1>11 DEF vars, kernelVars
<1>12. ASSUME NEW w \in Workers, Worker(w)
       PROVE  \/ link'[c] = link[c]
              \/ link[c] \in {"fin", "probed"} /\ link'[c] = "probed"
              \/ link[c] = "reset" /\ link'[c] = "dead"
  BY <1>1, <1>2, <1>3, <1>4, <1>12 DEF Worker
<1>13. QED
  BY <1>5, <1>6, <1>7, <1>8, <1>9, <1>10, <1>11, <1>12 DEF Next, Environment

\* Descriptors are opened by the main thread and closed by the worker that
\* watches them; the queue is filled by connect() and emptied by accept().
LEMMA FileMoves ==
    ASSUME Good, [Next]_vars
    PROVE  \/ UNCHANGED <<file, backlog>>
           \/ OpenDb \/ Accept
           \/ \E w \in Workers : CloseClient(w)
           \/ \E c \in Clients : ClientConnect(c)
<1>1. ASSUME NEW w \in Workers, Worker(w), ~CloseClient(w) PROVE UNCHANGED <<file, backlog>>
  <2>1. ~CloseServer(w)
    BY DEF Good, IInv, BusyOwner, CloseServer
  <2>2. QED
    BY <1>1, <2>1 DEF Worker, EpollWait, NextEvent, ReadPipe, RecvData, RecvEof, RecvError,
       SelectServer, LookupNull, BumpTag, Forward, Reply, Purge, kernelVars
<1>2. ASSUME NEW k \in Socks, HangUp(k) \/ Probed(k) PROVE UNCHANGED <<file, backlog>>
  BY <1>2 DEF HangUp, Probed
<1>3. ASSUME NEW c \in Clients, ClientSend(c) PROVE UNCHANGED <<file, backlog>>
  BY <1>3 DEF ClientSend
<1>4. ASSUME NEW s \in Servers, ServerAck(s) \/ ServerChat(s) PROVE UNCHANGED <<file, backlog>>
  BY <1>4 DEF ServerAck, ServerChat, ServerSends
<1>5. ASSUME OutOfFds \/ WritePipe PROVE UNCHANGED <<file, backlog>>
  BY <1>5 DEF OutOfFds, WritePipe, kernelVars
<1>6. ASSUME UNCHANGED vars PROVE UNCHANGED <<file, backlog>>
  BY <1>6 DEF vars, kernelVars
<1>7. QED
  BY <1>1, <1>2, <1>3, <1>4, <1>5, <1>6 DEF Next, Main, Environment

-----------------------------------------------------------------------------
\* At first there are servers only, and nobody in the queue.
LEMMA OneFdInit == Init => OneFd
<1> SUFFICES ASSUME Init PROVE OneFd
  OBVIOUS
<1> USE Distinct
<1>1. \A f \in Fds : file[f] \notin Clients
  <2> SUFFICES ASSUME NEW f \in Fds PROVE file[f] \notin Clients
    OBVIOUS
  <2>1. CASE judge(f)
    <3>1. PICK s \in Servers : f = FirstFd + s
      BY <2>1 DEF judge, serverfd
    <3>2. file[f] = s
      BY <2>1, <3>1, ConstAssumption DEF Init, Servers
    <3>3. QED
      BY <3>2
  <2>2. CASE ~judge(f)
    BY <2>2 DEF Init
  <2>3. QED
    BY <2>1, <2>2
<1>2. DOMAIN backlog = {}
  BY DEF Init
<1>3. \A c \in Clients : link[c] = "absent"
  BY DEF Init
<1>4. QED
  BY <1>1, <1>2, <1>3 DEF OneFd, ClientFds

\* Accepting gives a descriptor to a client that has none, and connecting puts
\* in the queue one that is not there.
LEMMA OneFdStep == Good /\ OneFd /\ [Next]_vars => OneFd'
<1> SUFFICES ASSUME Good, OneFd, [Next]_vars PROVE OneFd'
  OBVIOUS
<1> USE Distinct
<1>0. /\ file \in [Fds -> Socks \cup {Db, Closed}] /\ link \in [Socks -> Links]
      /\ backlog \in Seq(Clients)
  BY DEF Good, TypeInv, TypeOK
<1>1. \A c \in Clients : /\ link[c] # "absent" => link'[c] # "absent"
                         /\ link'[c] # "refused"
  BY LinkMoves DEF OneFd
<1>2. CASE UNCHANGED <<file, backlog>>
  BY <1>0, <1>1, <1>2 DEF OneFd, ClientFds
<1>3. CASE OpenDb
  <2>1. PICK g \in Fds : file[g] = Closed /\ file' = [file EXCEPT ![g] = Db]
    BY <1>3 DEF OpenDb, Lowest, FreeFds
  <2>2. backlog' = backlog /\ \A f \in Fds : file'[f] \in Clients => file'[f] = file[f]
    BY <1>0, <1>3, <2>1 DEF OpenDb
  <2>3. QED
    BY <1>0, <1>1, <2>2 DEF OneFd, ClientFds
<1>4. CASE Accept
  <2>1. PICK g \in Fds : file[g] = Closed /\ file' = [file EXCEPT ![g] = Head(backlog)]
    BY <1>4 DEF Accept, Lowest, FreeFds
  <2>2. backlog # << >>
    BY <1>4 DEF Accept, Good, TypeInv, LocalsOK
  <2>3. /\ Head(backlog) = backlog[1] /\ 1 \in DOMAIN backlog
        /\ \A i \in DOMAIN Tail(backlog) : i + 1 \in DOMAIN backlog /\ Tail(backlog)[i] = backlog[i + 1]
                                           /\ i \in Nat \ {0}
    BY <1>0, <2>2
  <2>4. /\ backlog' = Tail(backlog)
        /\ \A f \in Fds : file'[f] = IF f = g THEN backlog[1] ELSE file[f]
    BY <1>0, <1>4, <2>1, <2>3 DEF Accept
  <2>5. backlog[1] \in Clients /\ link[backlog[1]] # "absent" /\ \A f \in Fds : file[f] # backlog[1]
    BY <1>0, <2>3 DEF OneFd
  <2>6. \A f, h \in Fds : file'[f] \in Clients /\ file'[f] = file'[h] => f = h
    BY <2>4, <2>5 DEF OneFd
  <2>7. \A i, j \in DOMAIN backlog' : backlog'[i] = backlog'[j] => i = j
    <3> SUFFICES ASSUME NEW i \in DOMAIN backlog', NEW j \in DOMAIN backlog', backlog'[i] = backlog'[j]
                 PROVE  i = j
      OBVIOUS
    <3>1. i + 1 = j + 1
      BY <2>3, <2>4 DEF OneFd
    <3>2. QED
      BY <2>3, <2>4, <3>1
  <2>8. \A i \in DOMAIN backlog' : backlog'[i] # backlog[1]
    <3> SUFFICES ASSUME NEW i \in DOMAIN backlog', backlog'[i] = backlog[1] PROVE FALSE
      OBVIOUS
    <3>1. i + 1 = 1
      BY <2>3, <2>4 DEF OneFd
    <3>2. QED
      BY <2>3, <2>4, <3>1
  <2>9. \A i \in DOMAIN backlog' : /\ backlog'[i] \in Clients /\ link'[backlog'[i]] # "absent"
                                   /\ \A f \in Fds : file'[f] # backlog'[i]
    BY <1>0, <1>1, <2>3, <2>4, <2>8 DEF OneFd
  <2>10. \A f \in ClientFds' : link'[file'[f]] # "absent"
    BY <1>0, <1>1, <2>4, <2>5 DEF OneFd, ClientFds
  <2>11. QED
    BY <1>1, <2>6, <2>7, <2>9, <2>10 DEF OneFd
<1>5. ASSUME NEW w \in Workers, CloseClient(w) PROVE OneFd'
  <2>1. \A f \in Fds : file'[f] = Closed \/ file'[f] = file[f]
    BY <1>5 DEF CloseClient, CloseFd
  <2>2. backlog' = backlog
    BY <1>5 DEF CloseClient
  <2>3. QED
    BY <1>0, <1>1, <2>1, <2>2 DEF OneFd, ClientFds
<1>6. ASSUME NEW c \in Clients, ClientConnect(c) PROVE OneFd'
  <2>1. file' = file /\ link[c] = "absent" /\ link'[c] # "absent" /\ backlog' = Append(backlog, c)
    BY <1>0, <1>6 DEF ClientConnect
  <2>2. \A i \in DOMAIN backlog' : \/ i \in DOMAIN backlog /\ backlog'[i] = backlog[i]
                                   \/ i = Len(backlog) + 1 /\ backlog'[i] = c
    BY <1>0, <2>1
  <2>3. \A i \in DOMAIN backlog : backlog[i] # c /\ backlog[i] \in Clients
    BY <1>0, <2>1 DEF OneFd
  <2>4. \A f \in Fds : file[f] # c
    BY <2>1 DEF OneFd, ClientFds
  <2>5. QED
    BY <1>0, <1>1, <2>1, <2>2, <2>3, <2>4 DEF OneFd, ClientFds
<1>7. QED
  BY <1>2, <1>3, <1>4, <1>5, <1>6, FileMoves

-----------------------------------------------------------------------------
\* A worker's locals, its events and its count change by its own steps only.
LEMMA OthersKeep ==
    ASSUME Good, [Next]_vars, NEW w \in Workers, ~Worker(w)
    PROVE  /\ pc'[w] = pc[w] /\ events'[w] = events[w] /\ fd'[w] = fd[w] /\ sock'[w] = sock[w]
           /\ msg'[w] = msg[w] /\ index'[w] = index[w]
           /\ acceptCientNum'[w] = acceptCientNum[w]
<1>0. /\ pc = [v \in Workers |-> pc[v]] /\ events = [v \in Workers |-> events[v]]
      /\ fd = [v \in Workers |-> fd[v]] /\ sock = [v \in Workers |-> sock[v]]
      /\ msg = [v \in Workers |-> msg[v]] /\ index = [v \in Workers |-> index[v]]
      /\ acceptCientNum = [v \in Workers |-> acceptCientNum[v]]
  BY DEF Good, TypeInv, TypeOK
<1>1. ASSUME UNCHANGED workVars
      PROVE  /\ pc'[w] = pc[w] /\ events'[w] = events[w] /\ fd'[w] = fd[w] /\ sock'[w] = sock[w]
             /\ msg'[w] = msg[w] /\ index'[w] = index[w]
             /\ acceptCientNum'[w] = acceptCientNum[w]
  BY <1>1 DEF workVars
<1>2. CASE Main
  BY <1>1, <1>2 DEF Main, OpenDb, Accept, OutOfFds, WritePipe
<1>3. CASE Environment
  <2>1. UNCHANGED workVars
    BY <1>3 DEF Environment, ClientConnect, ClientSend, HangUp, Probed, ServerAck, ServerChat,
       ServerSends
  <2>2. QED
    BY <1>1, <2>1
<1>4. CASE UNCHANGED vars
  BY <1>1, <1>4 DEF vars
<1>5. ASSUME NEW v \in Workers, v # w, Worker(v)
      PROVE  /\ pc'[w] = pc[w] /\ events'[w] = events[w] /\ fd'[w] = fd[w] /\ sock'[w] = sock[w]
             /\ msg'[w] = msg[w] /\ index'[w] = index[w]
             /\ acceptCientNum'[w] = acceptCientNum[w]
  <2>1. CASE EpollWait(v) \/ NextEvent(v)
    BY <1>0, <1>5, <2>1 DEF EpollWait, NextEvent
  <2>2. CASE ReadPipe(v) \/ Purge(v) \/ CloseServer(v)
    BY <1>0, <1>5, <2>2 DEF ReadPipe, Purge, CountedOut, CloseServer, Loop
  <2>3. CASE RecvData(v) \/ RecvEof(v) \/ RecvError(v)
    BY <1>0, <1>5, <2>3 DEF RecvData, RecvEof, RecvError, Loop
  <2>4. CASE SelectServer(v) \/ BumpTag(v) \/ LookupNull(v)
    BY <1>0, <1>5, <2>4 DEF SelectServer, BumpTag, LookupNull, workVars
  <2>5. CASE Forward(v) \/ Reply(v) \/ CloseClient(v)
    BY <1>0, <1>5, <2>5 DEF Forward, Reply, CloseClient, Loop
  <2>6. QED
    BY <1>5, <2>1, <2>2, <2>3, <2>4, <2>5 DEF Worker
<1>6. QED
  BY <1>2, <1>3, <1>4, <1>5 DEF Next

\* What a client wrote leaves its socket in one way only: a worker reads it.
LEMMA RxMoves ==
    ASSUME Good, [Next]_vars, NEW c \in Clients
    PROVE  \/ rx'[c] = rx[c]
           \/ ClientSend(c)
           \/ \E w \in Workers : RecvData(w) /\ sock[w] = c
<1> USE Distinct
<1>0. rx \in [Socks -> Seq(Packet)]
  BY DEF Good, TypeInv, TypeOK
<1>1. ASSUME NEW w \in Workers, Worker(w), ~RecvData(w) PROVE rx' = rx
  BY <1>1 DEF Worker, EpollWait, NextEvent, ReadPipe, RecvEof, RecvError, SelectServer, LookupNull,
     BumpTag, Forward, Reply, CloseClient, Purge, CloseServer, kernelVars
<1>2. ASSUME NEW w \in Workers, RecvData(w), sock[w] # c PROVE rx'[c] = rx[c]
  BY <1>0, <1>2 DEF RecvData
<1>3. ASSUME Main PROVE rx' = rx
  BY <1>3 DEF Main, OpenDb, Accept, OutOfFds, WritePipe, kernelVars
<1>4. ASSUME NEW d \in Clients, ClientConnect(d) \/ (ClientSend(d) /\ d # c) PROVE rx'[c] = rx[c]
  BY <1>0, <1>4 DEF ClientConnect, ClientSend
<1>5. ASSUME NEW k \in Socks, HangUp(k) \/ Probed(k) PROVE rx' = rx
  BY <1>5 DEF HangUp, Probed
<1>6. ASSUME NEW s \in Servers, ServerAck(s) \/ ServerChat(s) PROVE rx'[c] = rx[c]
  <2>1. PICK m : rx' = [rx EXCEPT ![s] = Append(@, m)]
    BY <1>6 DEF ServerAck, ServerChat, ServerSends
  <2>2. QED
    BY <1>0, <2>1
<1>7. ASSUME UNCHANGED vars PROVE rx' = rx
  BY <1>7 DEF vars, kernelVars
<1>8. QED
  BY <1>1, <1>2, <1>3, <1>4, <1>5, <1>6, <1>7 DEF Next, Environment

\* A client that can be read stays so until a worker reads it.
LEMMA ReadableStays ==
    ASSUME Good, [Next]_vars, NEW c \in Clients, Readable(c),
           \A w \in Workers : ~(RecvData(w) /\ sock[w] = c)
    PROVE  Readable(c)'
<1>1. link[c] \notin {"absent", "up"} => link'[c] \notin {"absent", "up"}
  BY LinkMoves
<1>2. rx[c] # << >> => rx'[c] # << >>
  <2>1. CASE ClientSend(c)
    <3>1. rx[c] \in Seq(Packet) /\ rx \in [Socks -> Seq(Packet)] /\ c \in Socks
      BY Distinct DEF Good, TypeInv, TypeOK
    <3>2. PICK m : rx'[c] = Append(rx[c], m)
      BY <2>1, <3>1 DEF ClientSend
    <3>3. QED
      BY <3>1, <3>2
  <2>2. QED
    BY <2>1, RxMoves
<1>3. QED
  BY <1>1, <1>2 DEF Readable

\* Two workers never watch one client, under one descriptor or two.
LEMMA OneWatcher ==
    ASSUME Good, OneFd, NEW w \in Workers, NEW v \in Workers, NEW f \in epoll[w], NEW g \in epoll[v],
           file[f] \in Clients, file[f] = file[g]
    PROVE  f = g /\ v = w
<1>1. f \in Fds /\ g \in Fds
  BY DEF Good, TypeInv, TypeOK
<1>2. f = g
  BY <1>1 DEF OneFd
<1>3. QED
  BY <1>1, <1>2 DEF Good, IInv, OneOwner, ClientFds

\* A number that stays open stays on its socket.
LEMMA FileStays ==
    ASSUME Good, [Next]_vars, NEW f \in Fds, file[f] \in Socks
    PROVE  \/ file'[f] = file[f]
           \/ file'[f] = Closed /\ \E w \in Workers : CloseClient(w) /\ fd[w] = f
<1> USE Distinct
<1>0. file \in [Fds -> Socks \cup {Db, Closed}]
  BY DEF Good, TypeInv, TypeOK
<1>1. CASE OpenDb
  BY <1>0, <1>1 DEF OpenDb, Lowest, FreeFds
<1>2. CASE Accept
  BY <1>0, <1>2 DEF Accept, Lowest, FreeFds
<1>3. ASSUME NEW w \in Workers, CloseClient(w)
      PROVE  file'[f] = file[f] \/ (file'[f] = Closed /\ fd[w] = f)
  BY <1>3 DEF CloseClient, CloseFd
<1>4. ASSUME NEW c \in Clients, ClientConnect(c) PROVE file' = file
  BY <1>4 DEF ClientConnect
<1>5. QED
  BY <1>1, <1>2, <1>3, <1>4, FileMoves

-----------------------------------------------------------------------------
\* What epoll announced of a client is still there to be read.
EventsReady == \A w \in Workers : \A f \in events[w] \cap ClientFds : Readable(file[f])

\* No other worker can read what epoll_wait() announced to this one.
LEMMA EventsReadyStep == Good /\ OneFd /\ EventsReady /\ [Next]_vars => EventsReady'
<1> SUFFICES ASSUME Good, OneFd, EventsReady, [Next]_vars,
                    NEW w \in Workers, NEW f \in events'[w], f \in Fds,
                    NEW c \in Clients, file'[f] = c
             PROVE  rx'[c] # << >> \/ link'[c] \notin {"absent", "up"}
  BY DEF EventsReady, ClientFds, Readable
<1> USE Distinct
<1>0. events = [v \in Workers |-> events[v]]
  BY DEF Good, TypeInv, TypeOK
<1>1. CASE EpollWait(w)
  <2>1. events'[w] = ReadyFds(w) /\ UNCHANGED <<file, rx, link>>
    BY <1>0, <1>1 DEF EpollWait, kernelVars
  <2>2. file[f] = c /\ Readable(file[f])
    BY <2>1 DEF ReadyFds
  <2>3. QED
    BY <2>1, <2>2 DEF Readable
<1>2. CASE ~EpollWait(w)
  <2>1. events'[w] \subseteq events[w]
    <3>1. CASE Worker(w)
      BY <1>0, <1>2, <3>1 DEF Worker, NextEvent, ReadPipe, RecvData, RecvEof, RecvError, SelectServer,
         LookupNull, BumpTag, Forward, Reply, CloseClient, Purge, CloseServer, workVars
    <3>2. CASE ~Worker(w)
      BY <3>2, OthersKeep
    <3>3. QED
      BY <3>1, <3>2
  <2>2. f \in events[w] /\ f \in epoll[w] /\ file[f] \in Socks
    BY <2>1 DEF Good, IInv, EventsWatched, EpollOpen
  <2>3. file[f] = c
    BY <2>2, FileStays
  <2>4. Readable(c)
    BY <2>2, <2>3 DEF EventsReady, ClientFds
  <2>5. ASSUME NEW v \in Workers, RecvData(v), sock[v] = c PROVE FALSE
    <3>1. fd[v] \in epoll[v] \ events[v] /\ sock[v] = file[fd[v]]
      BY <2>5 DEF RecvData, Good, IInv, BusyOwner, Busy
    <3>2. fd[v] = f /\ v = w
      BY <2>2, <2>3, <2>5, <3>1, OneWatcher
    <3>3. QED
      BY <2>2, <3>1, <3>2
  <2>6. Readable(c)'
    BY <2>4, <2>5, ReadableStays
  <2>7. QED
    BY <2>6 DEF Readable
<1>3. QED
  BY <1>1, <1>2

\* Nor once it is about to call recv().
LEMMA RecvReadyStep ==
    Good /\ OneFd /\ EventsReady /\ ClientRecvReady /\ [Next]_vars => ClientRecvReady'
<1> SUFFICES ASSUME Good, OneFd, EventsReady, ClientRecvReady, [Next]_vars,
                    NEW w \in Workers, pc'[w] = "recv", NEW c \in Clients, sock'[w] = c
             PROVE  rx'[c] # << >> \/ link'[c] \notin {"absent", "up"}
  BY DEF ClientRecvReady, Readable
<1> USE Distinct
<1>0. /\ pc = [v \in Workers |-> pc[v]] /\ sock = [v \in Workers |-> sock[v]]
      /\ rx \in [Socks -> Seq(Packet)]
  BY DEF Good, TypeInv, TypeOK
<1>1. CASE NextEvent(w) /\ pc' # pc
  <2>1. PICK f \in events[w] : /\ pc' = [pc EXCEPT ![w] = IF f = PipeFd THEN "pipe" ELSE "recv"]
                               /\ sock' = [sock EXCEPT ![w] = FileOf(f)]
    BY <1>1 DEF NextEvent
  <2>2. f # PipeFd /\ sock'[w] = FileOf(f)
    BY <1>0, <2>1
  <2>3. f \in epoll[w] /\ f \in Fds /\ file[f] = c
    BY <2>2 DEF Good, IInv, EventsWatched, TypeInv, TypeOK, FileOf
  <2>4. Readable(c)
    BY <2>3 DEF EventsReady, ClientFds
  <2>5. QED
    BY <1>1, <2>4 DEF NextEvent, kernelVars, Readable
<1>2. CASE ~(NextEvent(w) /\ pc' # pc)
  <2>1. pc[w] = "recv" /\ sock[w] = c /\ ~RecvData(w)
    <3>1. CASE NextEvent(w)
      BY <1>2, <3>1 DEF NextEvent
    <3>2. CASE Worker(w) /\ ~NextEvent(w)
      BY <1>0, <3>2 DEF Worker, EpollWait, ReadPipe, RecvData, RecvEof, RecvError, SelectServer,
         LookupNull, BumpTag, AfterSelect, Forward, Reply, CloseClient, Purge, CloseServer, workVars, Loop
    <3>3. CASE ~Worker(w)
      BY <3>3, OthersKeep DEF Worker
    <3>4. QED
      BY <3>1, <3>2, <3>3
  <2>2. fd[w] \in epoll[w] /\ file[fd[w]] = c /\ Readable(c)
    BY <2>1 DEF Good, IInv, BusyOwner, Busy, ClientRecvReady
  <2>3. ASSUME NEW v \in Workers, RecvData(v), sock[v] = c PROVE FALSE
    <3>1. fd[v] \in epoll[v] /\ sock[v] = file[fd[v]]
      BY <2>3 DEF RecvData, Good, IInv, BusyOwner, Busy
    <3>2. v = w
      BY <2>1, <2>2, <2>3, <3>1, OneWatcher
    <3>3. QED
      BY <2>1, <2>3, <3>2
  <2>4. Readable(c)'
    BY <2>2, <2>3, ReadableStays
  <2>5. QED
    BY <2>4 DEF Readable
<1>3. QED
  BY <1>1, <1>2

\* One descriptor for one client, read by the worker that was told of it.
Ready == Good /\ OneFd /\ EventsReady /\ ClientRecvReady

\* They hold in every behaviour.
LEMMA ReadyInvariant == ASSUME ServersKeep PROVE Spec /\ []NoticesWhole => []Ready
<1>1. Init => Ready
  <2>1. Init => EventsReady /\ ClientRecvReady
    BY DEF Init, EventsReady, ClientRecvReady
  <2>2. QED
    BY <2>1, TypeInit, IInvInit, OneFdInit DEF Ready, Good
<1>2. Ready /\ NoticesWhole /\ [Next]_vars => Ready'
  BY GoodStep, OneFdStep, EventsReadyStep, RecvReadyStep DEF Ready
<1>3. QED
  BY <1>1, <1>2, PTL DEF Spec

\* A client has one descriptor at most, from accept() to close() (OneFd).
THEOREM ClientHasOneFd == ASSUME ServersKeep PROVE Spec /\ []NoticesWhole => []OneFd
<1>1. Ready => OneFd
  BY DEF Ready
<1>2. QED
  BY <1>1, ReadyInvariant, PTL

\* A worker that epoll told of a client finds something to receive, so that it
\* never blocks in recv() on one (ClientRecvReady).
THEOREM RecvNeverBlocks == ASSUME ServersKeep PROVE Spec /\ []NoticesWhole => []ClientRecvReady
<1>1. Ready => ClientRecvReady
  BY DEF Ready
<1>2. QED
  BY <1>1, ReadyInvariant, PTL

-----------------------------------------------------------------------------
\* The descriptors are finitely many.
LEMMA FiniteFds == ASSUME NEW S, S \subseteq Fds PROVE IsFiniteSet(S)
<1>1. /\ FirstFd \in Int /\ FirstFd + FD_NUM - 1 \in Int
      /\ FreeFrom \in Int /\ LastFd \in Int
  BY ConstAssumption
<1>2. IsFiniteSet(Fds)
  BY <1>1, FS_Interval, FS_Union DEF Fds
<1>3. S \in SUBSET Fds
  OBVIOUS
<1>4. QED
  BY <1>2, <1>3, FS_Subset

\* The clients a worker watches and the departures under way change together
\* with its count.
LEMMA CountStep == Good /\ NoticesWhole /\ CountMatches /\ [Next]_vars => CountMatches'
<1> SUFFICES ASSUME Good, NoticesWhole, CountMatches, [Next]_vars, NEW w \in Workers
             PROVE  acceptCientNum'[w] = Cardinality(epoll'[w] \cap ClientFds')
                                         + (IF pc'[w] = "purge" THEN 1 ELSE 0)
  BY DEF CountMatches
<1> USE Distinct
<1>0. /\ file \in [Fds -> Socks \cup {Db, Closed}]
      /\ pc = [v \in Workers |-> pc[v]] /\ epoll = [v \in Workers |-> epoll[v]]
      /\ epoll[w] \subseteq Fds
      /\ acceptCientNum = [v \in Workers |-> acceptCientNum[v]] /\ acceptCientNum[w] \in Int
      /\ \A v \in Workers : \A f \in epoll[v] : f \in Fds /\ file[f] \in Socks
  BY DEF Good, TypeInv, TypeOK, IInv, EpollOpen
<1> DEFINE Mine == epoll[w] \cap ClientFds
<1>a. IsFiniteSet(Mine) /\ Cardinality(Mine) \in Nat
  <2>1. IsFiniteSet(Mine)
    BY FiniteFds DEF ClientFds, Mine
  <2>2. QED
    BY <2>1, FS_CardinalityType
<1>b. acceptCientNum[w] = Cardinality(Mine) + (IF pc[w] = "purge" THEN 1 ELSE 0)
  BY DEF CountMatches
<1> HIDE DEF Mine
<1>1. ASSUME epoll'[w] \cap ClientFds' = Mine, pc'[w] = "purge" <=> pc[w] = "purge",
             acceptCientNum'[w] = acceptCientNum[w]
      PROVE  acceptCientNum'[w] = Cardinality(epoll'[w] \cap ClientFds')
                                  + (IF pc'[w] = "purge" THEN 1 ELSE 0)
  BY <1>1, <1>b
<1>2. CASE Main
  <2>1. UNCHANGED <<epoll, pc, acceptCientNum>>
    BY <1>2 DEF Main, OpenDb, Accept, OutOfFds, WritePipe, workVars
  <2>2. \A f \in epoll[w] : f \in Fds /\ file'[f] = file[f]
    BY <1>0, <1>2 DEF Main, OpenDb, Accept, OutOfFds, WritePipe, kernelVars, Lowest, FreeFds
  <2>3. epoll[w] \cap ClientFds' = Mine
    BY <2>2 DEF ClientFds, Mine
  <2>4. QED
    BY <1>1, <2>1, <2>3
<1>3. CASE Environment \/ UNCHANGED vars
  <2>1. UNCHANGED <<file, epoll, pc, acceptCientNum>>
    BY <1>3 DEF Environment, ClientConnect, ClientSend, HangUp, Probed, ServerAck, ServerChat,
       ServerSends, workVars, vars, kernelVars
  <2>2. QED
    BY <1>1, <2>1 DEF ClientFds, Mine
<1>4. ASSUME NEW v \in Workers, CloseClient(v)
      PROVE  acceptCientNum'[w] = Cardinality(epoll'[w] \cap ClientFds')
                                  + (IF pc'[w] = "purge" THEN 1 ELSE 0)
  <2> DEFINE f == fd[v]
  <2>1. /\ pc[v] = "close" /\ f \in epoll[v] /\ file[f] = sock[v] /\ sock[v] \in Clients
        /\ f \in ClientFds
    BY <1>0, <1>4 DEF CloseClient, Good, IInv, BusyOwner, Busy, Socks, ClientFds
  <2>2. /\ file' = [file EXCEPT ![f] = Closed] /\ epoll'[w] = epoll[w] \ {f}
        /\ pc' = [pc EXCEPT ![v] = "purge"] /\ acceptCientNum' = acceptCientNum
    BY <1>0, <1>4 DEF CloseClient, CloseFd
  <2> HIDE DEF f
  <2>3. ClientFds' = ClientFds \ {f}
    BY <1>0, <2>1, <2>2 DEF ClientFds
  <2>4. epoll'[w] \cap ClientFds' = Mine \ {f}
    BY <2>2, <2>3 DEF Mine
  <2>5. CASE v = w
    <3>1. f \in Mine
      BY <2>1, <2>5 DEF Mine
    <3>2. Cardinality(Mine \ {f}) = Cardinality(Mine) - 1
      BY <1>a, <3>1, FS_RemoveElement
    <3>3. pc'[w] = "purge" /\ pc[w] # "purge"
      BY <1>0, <2>1, <2>2, <2>5
    <3>4. acceptCientNum[w] = Cardinality(Mine)
      BY <1>a, <1>b, <3>3
    <3>5. Cardinality(epoll'[w] \cap ClientFds') = Cardinality(Mine) - 1
      BY <2>4, <3>2
    <3>6. QED
      BY <1>a, <2>2, <3>3, <3>4, <3>5
  <2>6. CASE v # w
    <3>1. f \notin epoll[w]
      BY <2>1, <2>6 DEF Good, IInv, OneOwner
    <3>2. epoll'[w] \cap ClientFds' = Mine
      BY <2>4, <3>1 DEF Mine
    <3>3. pc'[w] = pc[w] /\ acceptCientNum'[w] = acceptCientNum[w]
      BY <1>0, <2>2, <2>6
    <3>4. QED
      BY <1>1, <3>2, <3>3
  <2>7. QED
    BY <2>5, <2>6
<1>5. CASE ReadPipe(w)
  <2> DEFINE f == Head(pipe)
  <2>1. f \in ClientFds /\ f \notin epoll[w] /\ epoll' = [epoll EXCEPT ![w] = @ \cup {f}]
    BY <1>5, TakesFirst
  <2>2. /\ epoll'[w] = epoll[w] \cup {f} /\ file' = file /\ pc'[w] = "loop" /\ pc[w] # "purge"
        /\ acceptCientNum'[w] = acceptCientNum[w] + 1
    <3> HIDE DEF f
    <3>1. file' = file /\ pc' = [pc EXCEPT ![w] = "loop"] /\ pc[w] = "pipe"
          /\ acceptCientNum' = [acceptCientNum EXCEPT ![w] = @ + 1]
      BY <1>5 DEF ReadPipe, Loop
    <3>2. QED
      <4>1. epoll'[w] = epoll[w] \cup {f} /\ file' = file
        BY <1>0, <2>1, <3>1
      <4>2. pc'[w] = "loop" /\ pc[w] # "purge" /\ acceptCientNum'[w] = acceptCientNum[w] + 1
        BY <1>0, <3>1
      <4>3. QED
        BY <4>1, <4>2
  <2> HIDE DEF f
  <2>3. epoll'[w] \cap ClientFds' = Mine \cup {f} /\ f \notin Mine
    BY <2>1, <2>2 DEF ClientFds, Mine
  <2>4. Cardinality(Mine \cup {f}) = Cardinality(Mine) + 1
    BY <1>a, <2>3, FS_AddElement
  <2>5. acceptCientNum[w] = Cardinality(Mine) + 0
    BY <1>b, <2>2
  <2>6. pc'[w] # "purge"
    BY <2>2
  <2>7. Cardinality(epoll'[w] \cap ClientFds') = Cardinality(Mine) + 1
    BY <2>3, <2>4
  <2>8. QED
    BY <1>a, <2>2, <2>5, <2>6, <2>7
<1>6. CASE Purge(w)
  <2>1. fd[w] \notin epoll[w] /\ pc[w] = "purge"
    BY <1>6 DEF Purge, Good, IInv, BusyOwner
  <2>2. /\ epoll'[w] = epoll[w] \ {fd[w]} /\ file' = file /\ pc'[w] = "loop"
        /\ acceptCientNum'[w] = acceptCientNum[w] - 1
    BY <1>0, <1>6 DEF Purge, CountedOut, Loop, kernelVars
  <2>3. epoll'[w] \cap ClientFds' = Mine
    BY <2>1, <2>2 DEF ClientFds, Mine
  <2>4. acceptCientNum[w] = Cardinality(Mine) + 1
    BY <1>b, <2>1
  <2>5. Cardinality(epoll'[w] \cap ClientFds') = Cardinality(Mine)
    BY <2>3
  <2>6. QED
    BY <1>a, <2>2, <2>4, <2>5
<1>7. CASE /\ Worker(w)
           /\ ~ReadPipe(w) /\ ~Purge(w) /\ ~CloseClient(w)
  <2>1. ~CloseServer(w)
    BY DEF Good, IInv, BusyOwner, CloseServer
  <2>2. UNCHANGED <<file, epoll, acceptCientNum>> /\ (pc'[w] = "purge" <=> pc[w] = "purge")
    BY <1>0, <1>7, <2>1 DEF Worker, EpollWait, NextEvent, RecvData, RecvEof, RecvError, SelectServer,
       LookupNull, BumpTag, AfterSelect, Forward, Reply, kernelVars, workVars, Loop
  <2>3. QED
    BY <1>1, <2>2 DEF ClientFds, Mine
<1>8. ASSUME NEW v \in Workers, v # w, Worker(v), ~CloseClient(v)
      PROVE  acceptCientNum'[w] = Cardinality(epoll'[w] \cap ClientFds')
                                  + (IF pc'[w] = "purge" THEN 1 ELSE 0)
  <2>1. ~CloseServer(v)
    BY DEF Good, IInv, BusyOwner, CloseServer
  <2>2. file' = file /\ epoll'[w] = epoll[w]
    <3>1. CASE ReadPipe(v)
      <4>1. file' = file /\ \E f : epoll' = [epoll EXCEPT ![v] = @ \cup {f}]
        BY <3>1, TakesFirst DEF ReadPipe
      <4>2. QED
        BY <1>0, <1>8, <4>1
    <3>2. CASE ~ReadPipe(v)
      BY <1>0, <1>8, <2>1, <3>2 DEF Worker, EpollWait, NextEvent, RecvData, RecvEof, RecvError,
         SelectServer, LookupNull, BumpTag, Forward, Reply, Purge, kernelVars, workVars
    <3>3. QED
      BY <3>1, <3>2
  <2>3. pc'[w] = pc[w] /\ acceptCientNum'[w] = acceptCientNum[w]
    <3>1. CASE ReadPipe(v) \/ Purge(v)
      BY <1>0, <1>8, <3>1 DEF ReadPipe, Purge, CountedOut, Loop
    <3>2. CASE ~ReadPipe(v) /\ ~Purge(v)
      BY <1>0, <1>8, <2>1, <3>2 DEF Worker, EpollWait, NextEvent, RecvData, RecvEof, RecvError,
         SelectServer, LookupNull, BumpTag, Forward, Reply, workVars, Loop
    <3>3. QED
      BY <3>1, <3>2
  <2>4. QED
    BY <1>1, <2>2, <2>3 DEF ClientFds, Mine
<1>9. QED
  BY <1>2, <1>3, <1>4, <1>5, <1>6, <1>7, <1>8 DEF Next

\* acceptCientNum is the number of the clients a worker watches, one more while
\* a departure is under way (CountMatches).
THEOREM CountIsRight == ASSUME ServersKeep PROVE Spec /\ []NoticesWhole => []CountMatches
<1>1. Init => CountMatches
  <2> SUFFICES ASSUME Init, NEW w \in Workers
               PROVE  acceptCientNum[w] = Cardinality(epoll[w] \cap ClientFds)
                                          + (IF pc[w] = "purge" THEN 1 ELSE 0)
    BY DEF CountMatches
  <2>1. \A f \in epoll[w] : f \in Fds /\ file[f] \in Servers
    <3> SUFFICES ASSUME NEW s \in Servers PROVE serverfd[s] \in Fds /\ file[serverfd[s]] \in Servers
      BY DEF Init
    <3>1. serverfd[s] \in Fds /\ judge(serverfd[s]) /\ serverfd[s] = FirstFd + s
      BY ServerFds DEF serverfd
    <3>2. file[serverfd[s]] = s
      BY <3>1, ConstAssumption DEF Init, Servers
    <3>3. QED
      BY <3>1, <3>2
  <2>2. epoll[w] \cap ClientFds = {}
    BY <2>1, Distinct DEF ClientFds
  <2>3. Cardinality(epoll[w] \cap ClientFds) = 0
    BY <2>2, FS_EmptySet
  <2>4. QED
    BY <2>3 DEF Init
<1>2. QED
  BY <1>1, CountStep, GoodInvariant, PTL DEF Spec

-----------------------------------------------------------------------------
\* What reaches a server was forwarded by a worker that selected it.
LEMMA TxMoves ==
    ASSUME Named, [Next]_vars, NEW s \in Servers
    PROVE  \/ tx'[s] = tx[s]
           \/ \E w \in Workers : /\ Forward(w) /\ index[w] = s
                                 /\ tx'[s] = Append(tx[s], Stamped(w))
<1> SUFFICES ASSUME tx'[s] # tx[s]
             PROVE  \E w \in Workers : /\ Forward(w) /\ index[w] = s
                                       /\ tx'[s] = Append(tx[s], Stamped(w))
  OBVIOUS
<1> USE Distinct
<1>1. Good /\ FdsNameClients /\ s \in Socks
  BY DEF Named
<1>2. PICK w \in Workers : Forward(w) \/ Reply(w)
  BY DEF Next, vars, kernelVars, envVars, workVars, mainVars, Main, OpenDb, Accept, OutOfFds,
     WritePipe, Worker, EpollWait, NextEvent, ReadPipe, RecvData, RecvEof, RecvError, SelectServer,
     LookupNull, BumpTag, CloseClient, Purge, CloseServer, Environment, ClientConnect, ClientSend,
     HangUp, Probed, ServerAck, ServerChat, ServerSends
<1>3. CASE Forward(w)
  <2>1. index[w] \in Servers
    BY <1>1 DEF Good, TypeInv, TypeOK
  <2>2. FileOf(serverfd[index[w]]) = index[w]
    BY <1>1, <2>1, ServerFds DEF FileOf, Good, IInv, ServersStay
  <2>3. Stamped(w) \in Packet
    BY <1>1, <1>3, StampNamesClient, StampedPacket DEF Forward
  <2>4. index[w] = s /\ tx'[s] = Append(tx[s], Stamped(w))
    BY <1>1, <1>3, <2>2, <2>3, SendToAppends DEF Forward
  <2>5. QED
    BY <1>3, <2>4
<1>4. CASE Reply(w)
  <2>1. msg[w] \in Packet /\ ~judge(msg[w].fd)
    BY <1>1, <1>4, PacketAssumption DEF Reply, Good, TypeInv, LocalsOK, FdsNameClients
  <2>2. FileOf(msg[w].fd) # s
    BY <1>1, <2>1, ServerFds DEF FileOf, Good, IInv, ServersStay, judge
  <2>3. QED
    BY <1>1, <1>4, <2>1, <2>2, SendToAppends DEF Reply
<1>5. QED
  BY <1>2, <1>3, <1>4

\* Past the choice of a server a worker serves a client, whose descriptor it
\* watches.
LEMMA Serving ==
    ASSUME Good, NEW w \in Workers, pc[w] \in {"select", "bump", "send", "close"}
    PROVE  sock[w] \in Clients /\ fd[w] \in epoll[w] /\ file[fd[w]] = sock[w] /\ fd[w] \in Fds
BY Distinct DEF Good, TypeInv, TypeOK, IInv, BusyOwner, Busy, EpollOpen, Socks

\* A worker about to send has the server the hash names, or the client has no
\* address any more.
Unaddressed(c) == link[c] \in {"reset", "dead"}
Chosen ==
    \A w \in Workers :
        /\ pc[w] = "send" => index[w] = Home[sock[w]] \/ Unaddressed(sock[w])
        /\ pc[w] = "bump" => Unaddressed(sock[w])

\* A client without an address never gets one back.
LEMMA UnaddressedStays ==
    ASSUME Good, [Next]_vars, NEW c \in Clients, Unaddressed(c) PROVE Unaddressed(c)'
BY LinkMoves DEF Unaddressed

\* select_server follows the hash whenever getpeername() gives it an address.
LEMMA ChosenStep == Good /\ OneFd /\ Chosen /\ [Next]_vars => Chosen'
<1> SUFFICES ASSUME Good, OneFd, Chosen, [Next]_vars, NEW w \in Workers,
                    pc'[w] \in {"send", "bump"}
             PROVE  \/ link'[sock'[w]] \in {"reset", "dead"}
                    \/ pc'[w] = "send" /\ index'[w] = Home[sock'[w]]
  BY DEF Chosen, Unaddressed
<1> USE Distinct
<1>0. /\ pc = [v \in Workers |-> pc[v]] /\ index = [v \in Workers |-> index[v]]
      /\ link \in [Socks -> Links]
  BY DEF Good, TypeInv, TypeOK
<1>1. CASE SelectServer(w)
  <2>1. sock[w] \in Clients /\ fd[w] \in Fds /\ FileOf(fd[w]) = sock[w]
    BY <1>1, Serving DEF SelectServer, FileOf
  <2>2. sock' = sock /\ link' = link
    BY <1>1 DEF SelectServer, kernelVars
  <2>3. CASE PeerKnown(fd[w])
    <3>1. index'[w] = Home[sock[w]]
      BY <1>0, <1>1, <2>1, <2>3 DEF SelectServer, HashNames
    <3>2. pc'[w] = AfterSelect(w)
      BY <1>0, <1>1, <2>3 DEF SelectServer
    <3>3. pc'[w] = "send"
      BY <3>2 DEF AfterSelect
    <3>4. QED
      BY <2>2, <3>1, <3>3
  <2>4. CASE ~PeerKnown(fd[w])
    <3>1. link[sock[w]] \notin {"up", "fin", "probed"}
      BY <2>1, <2>4 DEF PeerKnown
    <3>2. link[sock[w]] \notin {"absent", "refused"}
      BY <2>1, Serving, <1>1 DEF SelectServer, OneFd, ClientFds
    <3>3. link[sock[w]] \in Links
      BY <1>0, <2>1
    <3>4. QED
      BY <2>2, <3>1, <3>2, <3>3 DEF Links
  <2>5. QED
    BY <2>3, <2>4
<1>2. CASE BumpTag(w)
  <2>1. sock' = sock /\ link' = link /\ pc[w] = "bump"
    BY <1>2 DEF BumpTag, kernelVars
  <2>2. QED
    BY <2>1 DEF Chosen, Unaddressed
<1>3. CASE ~SelectServer(w) /\ ~BumpTag(w)
  <2>1. pc[w] = pc'[w] /\ sock'[w] = sock[w] /\ index'[w] = index[w]
    <3>1. CASE Worker(w)
      BY <1>0, <1>3, <3>1 DEF Worker, EpollWait, NextEvent, ReadPipe, RecvData, RecvEof, RecvError,
         LookupNull, Forward, Reply, CloseClient, Purge, CloseServer, workVars, Loop
    <3>2. CASE ~Worker(w)
      BY <3>2, OthersKeep
    <3>3. QED
      BY <3>1, <3>2
  <2>2. sock[w] \in Clients
    BY <2>1, Serving
  <2>3. Unaddressed(sock[w]) => link'[sock[w]] \in {"reset", "dead"}
    <3> SUFFICES ASSUME NEW c \in Clients, Unaddressed(c) PROVE link'[c] \in {"reset", "dead"}
      BY <2>2
    <3>1. QED
      BY UnaddressedStays DEF Unaddressed
  <2>4. QED
    BY <2>1, <2>3 DEF Chosen
<1>4. QED
  BY <1>1, <1>2, <1>3

\* What a server has was sent to it by a worker that had chosen it.
LEMMA AffinityStep == Named /\ Chosen /\ Affinity /\ [Next]_vars => Affinity'
<1> SUFFICES ASSUME Named, Chosen, Affinity, [Next]_vars,
                    NEW s \in Servers, NEW i \in DOMAIN tx'[s],
                    NEW c, tx'[s][i].client = c, Home[c] # s
             PROVE  link'[c] \in {"reset", "dead"}
  BY DEF Affinity
<1> USE Distinct
<1>1. Good /\ tx[s] \in Seq(Packet)
  BY DEF Named, Good, TypeInv, TypeOK
<1>2. CASE i \in DOMAIN tx[s] /\ tx'[s][i] = tx[s][i]
  <2>1. tx[s][i] \in Packet
    BY <1>1, <1>2
  <2>2. tx[s][i].client = c /\ c \in Clients
    BY <1>2, <2>1 DEF Packet
  <2>3. Unaddressed(c)
    BY <1>2, <2>2 DEF Affinity, Unaddressed
  <2>4. QED
    BY <1>1, <2>2, <2>3, UnaddressedStays DEF Unaddressed
<1>3. ASSUME NEW w \in Workers, Forward(w), index[w] = s, tx'[s][i] = Stamped(w)
      PROVE  link'[c] \in {"reset", "dead"}
  <2>1. pc[w] = "send" /\ c = sock[w] /\ c \in Clients
    BY <1>1, <1>3, StampNamesClient, StampedPacket DEF Forward
  <2>2. Unaddressed(c)
    BY <1>3, <2>1 DEF Chosen
  <2>3. QED
    BY <1>1, <2>1, <2>2, UnaddressedStays DEF Unaddressed
<1>4. CASE tx'[s] = tx[s]
  BY <1>2, <1>4
<1>5. ASSUME NEW w \in Workers, Forward(w), index[w] = s, tx'[s] = Append(tx[s], Stamped(w))
      PROVE  link'[c] \in {"reset", "dead"}
  <2>1. Stamped(w) \in Packet
    BY <1>1, <1>5, StampNamesClient, StampedPacket DEF Forward
  <2>2. \/ i \in DOMAIN tx[s] /\ tx'[s][i] = tx[s][i]
        \/ tx'[s][i] = Stamped(w)
    BY <1>1, <1>5, <2>1, Appended
  <2>3. QED
    BY <1>2, <1>3, <1>5, <2>2
<1>6. QED
  BY <1>4, <1>5, TxMoves

\* A request reaches the server the hash names for its client's address,
\* unless the client reset its connection (Affinity).
THEOREM HashIsFollowed == ASSUME ServersKeep PROVE Spec /\ []NoticesWhole => []Affinity
<1>1. Init => Chosen /\ Affinity
  BY Distinct DEF Init, Chosen, Affinity
<1>2. Named /\ Ready /\ Chosen /\ Affinity /\ [Next]_vars => (Chosen /\ Affinity)'
  BY ChosenStep, AffinityStep DEF Ready
<1>3. QED
  BY <1>1, <1>2, NamedInvariant, ReadyInvariant, PTL DEF Spec

-----------------------------------------------------------------------------
\* A request in the hand of a worker.
Held(w) == pc[w] \in {"select", "bump", "send"} /\ msg[w] # NoMsg

\* Number n of a client lies before whatever is still to be read from it.
Below(c, n) ==
    /\ n <= sent[c]
    /\ \A j \in DOMAIN rx[c] : n < rx[c][j].n

\* A client's requests keep their order in its socket; what a worker holds lies
\* before them, and what any server has before both.
Queued ==
    /\ \A c \in Clients : \A j \in DOMAIN rx[c] : rx[c][j].n <= sent[c]
    /\ \A c \in Clients : \A i, j \in DOMAIN rx[c] : i < j => rx[c][i].n < rx[c][j].n
    /\ \A w \in Workers : Held(w) => Below(sock[w], msg[w].n)
Passed ==
    \A s \in Servers : \A i \in DOMAIN tx[s] :
        /\ Below(tx[s][i].client, tx[s][i].n)
        /\ \A w \in Workers : Held(w) /\ sock[w] = tx[s][i].client => tx[s][i].n < msg[w].n

\* The number a client has reached goes up with each request it writes.
LEMMA SentMoves ==
    ASSUME Good, [Next]_vars, NEW c \in Clients
    PROVE  \/ sent'[c] = sent[c]
           \/ ClientSend(c) /\ sent'[c] = sent[c] + 1
                            /\ rx'[c] = Append(rx[c], [client |-> c, n |-> sent[c] + 1, fd |-> 0])
<1> USE Distinct
<1>0. sent \in [Clients -> 0..MaxSend] /\ rx \in [Socks -> Seq(Packet)]
  BY DEF Good, TypeInv, TypeOK
<1>1. CASE Main \/ UNCHANGED vars
  BY <1>1 DEF Main, OpenDb, Accept, OutOfFds, WritePipe, vars, envVars
<1>2. ASSUME NEW w \in Workers, Worker(w) PROVE sent' = sent
  BY <1>2 DEF Worker, EpollWait, NextEvent, ReadPipe, RecvData, RecvEof, RecvError, SelectServer,
     LookupNull, BumpTag, Forward, Reply, CloseClient, Purge, CloseServer, envVars
<1>3. ASSUME NEW d \in Clients, ClientSend(d), d # c PROVE sent'[c] = sent[c]
  BY <1>0, <1>3 DEF ClientSend
<1>4. CASE ClientSend(c)
  BY <1>0, <1>4 DEF ClientSend
<1>5. CASE /\ Environment
           /\ \A d \in Clients : ~ClientSend(d)
  BY <1>5 DEF Environment, ClientConnect, HangUp, Probed, ServerAck, ServerChat, ServerTakes,
     ServerSends, envVars
<1>6. QED
  BY <1>1, <1>2, <1>3, <1>4, <1>5 DEF Next, Environment

\* What was behind stays behind.
LEMMA BelowStays ==
    ASSUME Good, [Next]_vars, NEW c \in Clients, NEW n \in Int, Below(c, n)
    PROVE  Below(c, n)'
<1> USE Distinct
<1>0. rx[c] \in Seq(Packet) /\ sent[c] \in Int /\ c \in Socks
  BY DEF Good, TypeInv, TypeOK
<1>1. n <= sent'[c]
  <2>1. sent'[c] = sent[c] \/ sent'[c] = sent[c] + 1
    BY SentMoves
  <2>2. QED
    BY <1>0, <2>1 DEF Below
<1>2. \A j \in DOMAIN rx'[c] : n < rx'[c][j].n
  <2>1. CASE ClientSend(c)
    <3> DEFINE m == [client |-> c, n |-> sent[c] + 1, fd |-> 0]
    <3>1. rx'[c] = Append(rx[c], m)
      BY <2>1 DEF ClientSend, Good, TypeInv, TypeOK
    <3>2. m \in Packet
      BY <2>1, ConstAssumption DEF ClientSend, Packet, Good, TypeInv, TypeOK
    <3>3. n < m.n
      BY <1>0 DEF Below
    <3> HIDE DEF m
    <3>4. QED
      BY <1>0, <3>1, <3>2, <3>3, Appended DEF Below
  <2>2. ASSUME NEW w \in Workers, RecvData(w), sock[w] = c PROVE DOMAIN rx'[c] = {}
    <3>1. rx'[c] = << >>
      BY <2>2 DEF RecvData, Good, TypeInv, TypeOK
    <3>2. DOMAIN << >> = {}
      OBVIOUS
    <3>3. QED
      BY <3>1, <3>2
  <2>3. QED
    BY <2>1, <2>2, RxMoves DEF Below
<1>3. QED
  BY <1>1, <1>2 DEF Below

\* A worker comes to hold a request by reading it, and holds it until it is sent.
LEMMA HeldMoves ==
    ASSUME Good, [Next]_vars, NEW w \in Workers,
           pc'[w] \in {"select", "bump", "send"}, msg'[w] # NoMsg
    PROVE  /\ sock'[w] = sock[w] /\ sock[w] \in Clients
           /\ fd[w] \in epoll[w] /\ file[fd[w]] = sock[w]
           /\ \/ RecvData(w) /\ rx[sock[w]] # << >> /\ msg'[w] = Head(rx[sock[w]])
              \/ Held(w) /\ msg'[w] = msg[w] /\ msg[w] \in Packet
<1> USE Distinct
<1>0. /\ pc = [v \in Workers |-> pc[v]] /\ msg = [v \in Workers |-> msg[v]]
      /\ msg \in [Workers -> Packet \cup {NoMsg}]
  BY DEF Good, TypeInv, TypeOK
<1>1. CASE RecvData(w)
  <2>1. /\ pc[w] = "recv" /\ ~judge(fd[w]) /\ sock' = sock /\ rx[sock[w]] # << >>
        /\ msg'[w] = Head(rx[sock[w]])
    BY <1>0, <1>1 DEF RecvData
  <2>2. sock[w] \in Clients /\ fd[w] \in epoll[w] /\ file[fd[w]] = sock[w]
    BY <2>1 DEF Good, IInv, BusyOwner, Busy, EpollOpen, Socks
  <2>3. QED
    BY <1>1, <2>1, <2>2
<1>2. CASE ~RecvData(w)
  <2>1. pc[w] \in {"select", "bump", "send"} /\ sock'[w] = sock[w] /\ msg'[w] = msg[w]
    <3>1. CASE Worker(w)
      BY <1>0, <1>2, <3>1 DEF Worker, EpollWait, NextEvent, ReadPipe, RecvEof, RecvError,
         SelectServer, BumpTag, LookupNull, Forward, Reply, CloseClient, Purge, CloseServer, workVars,
         Loop
    <3>2. CASE ~Worker(w)
      BY <3>2, OthersKeep
    <3>3. QED
      BY <3>1, <3>2
  <2>2. QED
    BY <1>0, <2>1, Serving DEF Held
<1>3. QED
  BY <1>1, <1>2

\* Reading takes the first of what is there, and all of it.
LEMMA ReadTakesAll ==
    ASSUME Good, NEW w \in Workers, RecvData(w)
    PROVE  /\ DOMAIN rx'[sock[w]] = {} /\ sent' = sent
           /\ rx[sock[w]] \in Seq(Packet) /\ 1 \in DOMAIN rx[sock[w]]
           /\ Head(rx[sock[w]]) = rx[sock[w]][1] /\ rx[sock[w]][1] \in Packet
<1>0. rx \in [Socks -> Seq(Packet)]
  BY DEF Good, TypeInv, TypeOK
<1>1. rx'[sock[w]] = << >> /\ sent' = sent
  BY <1>0 DEF RecvData, envVars
<1>2. DOMAIN << >> = {}
  OBVIOUS
<1>3. rx[sock[w]] \in Seq(Packet) /\ rx[sock[w]] # << >>
  BY <1>0 DEF RecvData
<1>4. QED
  BY <1>1, <1>2, <1>3

\* A client writes above what it has written, and what is read is below the rest.
LEMMA QueuedStep == Good /\ Queued /\ [Next]_vars => Queued'
<1> SUFFICES ASSUME Good, Queued, [Next]_vars PROVE Queued'
  OBVIOUS
<1> USE Distinct
<1>1. ASSUME NEW c \in Clients
      PROVE  /\ \A j \in DOMAIN rx'[c] : rx'[c][j].n <= sent'[c]
             /\ \A i, j \in DOMAIN rx'[c] : i < j => rx'[c][i].n < rx'[c][j].n
  <2>0. rx[c] \in Seq(Packet) /\ sent[c] \in Int /\ c \in Socks
        /\ \A j \in DOMAIN rx[c] : rx[c][j].n \in Int
    <3>1. rx[c] \in Seq(Packet) /\ sent[c] \in Int /\ c \in Socks
      BY DEF Good, TypeInv, TypeOK
    <3>2. \A j \in DOMAIN rx[c] : rx[c][j] \in Packet
      BY <3>1
    <3>3. QED
      BY <3>1, <3>2 DEF Packet
  <2>1. CASE rx'[c] = rx[c]
    <3>1. sent'[c] = sent[c] \/ sent'[c] = sent[c] + 1
      BY SentMoves
    <3>2. QED
      BY <2>0, <2>1, <3>1 DEF Queued
  <2>2. CASE ClientSend(c)
    <3> DEFINE m == [client |-> c, n |-> sent[c] + 1, fd |-> 0]
    <3>1. rx'[c] = Append(rx[c], m) /\ sent'[c] = sent[c] + 1
      BY <2>2 DEF ClientSend, Good, TypeInv, TypeOK
    <3>2. m \in Packet
      <4>1. sent[c] \in 0..MaxSend /\ sent[c] < MaxSend /\ MaxSend \in Nat
        BY <2>2, ConstAssumption DEF ClientSend, Good, TypeInv, TypeOK
      <4>2. QED
        BY <4>1 DEF Packet
    <3>3. m.n = sent[c] + 1
      OBVIOUS
    <3> HIDE DEF m
    <3>4. \A i \in DOMAIN rx'[c] : \/ i = Len(rx[c]) + 1 /\ rx'[c][i] = m
                                   \/ i \in DOMAIN rx[c] /\ rx'[c][i] = rx[c][i]
      BY <2>0, <3>1, <3>2, Appended
    <3>5. \A i \in DOMAIN rx[c] : i < Len(rx[c]) + 1 /\ i \in Int
      BY <2>0
    <3>6. Len(rx[c]) \in Int
      BY <2>0
    <3>7. ASSUME NEW j \in DOMAIN rx'[c] PROVE rx'[c][j].n <= sent'[c]
      BY <2>0, <3>1, <3>3, <3>4, <3>7 DEF Queued
    <3>8. ASSUME NEW i \in DOMAIN rx'[c], NEW j \in DOMAIN rx'[c], i < j
          PROVE  rx'[c][i].n < rx'[c][j].n
      <4>1. i \in DOMAIN rx[c] /\ rx'[c][i] = rx[c][i]
        BY <3>4, <3>5, <3>6, <3>8
      <4>2. CASE j \in DOMAIN rx[c] /\ rx'[c][j] = rx[c][j]
        BY <3>8, <4>1, <4>2 DEF Queued
      <4>3. CASE rx'[c][j] = m
        <5>1. rx[c][i].n <= sent[c]
          BY <4>1 DEF Queued
        <5>2. QED
          BY <2>0, <3>3, <4>1, <4>3, <5>1
      <4>4. QED
        BY <3>4, <4>2, <4>3
    <3>9. QED
      BY <3>7, <3>8
  <2>3. ASSUME NEW w \in Workers, RecvData(w), sock[w] = c PROVE DOMAIN rx'[c] = {}
    BY <2>3, ReadTakesAll
  <2>4. QED
    BY <2>1, <2>2, <2>3, RxMoves
<1>2. ASSUME NEW w \in Workers, pc'[w] \in {"select", "bump", "send"}, msg'[w] # NoMsg,
             NEW c, sock'[w] = c, NEW n, msg'[w].n = n
      PROVE  Below(c, n)'
  <2>1. sock[w] = c /\ c \in Clients
    BY <1>2, HeldMoves
  <2>2. CASE RecvData(w) /\ msg'[w] = Head(rx[c])
    <3>1. /\ DOMAIN rx'[c] = {} /\ sent' = sent /\ 1 \in DOMAIN rx[c] /\ n = rx[c][1].n
      BY <1>2, <2>1, <2>2, ReadTakesAll
    <3>2. n <= sent[c]
      BY <2>1, <3>1 DEF Queued
    <3>3. QED
      BY <3>1, <3>2 DEF Below
  <2>3. CASE Held(w) /\ msg'[w] = msg[w] /\ msg[w] \in Packet
    <3>1. n \in Int /\ Below(c, n)
      BY <1>2, <2>1, <2>3, ConstAssumption DEF Queued, Packet
    <3>2. QED
      BY <2>1, <3>1, BelowStays
  <2>4. QED
    BY <1>2, <2>1, <2>2, <2>3, HeldMoves
<1>3. QED
  BY <1>1, <1>2 DEF Queued, Held, Below

\* A server has, of each client, only what precedes the request in hand; the
\* worker that sends one holds no other, and no other worker holds one.
LEMMA PassedStep == Named /\ OneFd /\ Queued /\ Passed /\ [Next]_vars => Passed'
<1> SUFFICES ASSUME Named, OneFd, Queued, Passed, [Next]_vars,
                    NEW s \in Servers, NEW i \in DOMAIN tx'[s],
                    NEW c, tx'[s][i].client = c, NEW n, tx'[s][i].n = n
             PROVE  /\ Below(c, n)'
                    /\ \A w \in Workers : /\ pc'[w] \in {"select", "bump", "send"}
                                          /\ msg'[w] # NoMsg /\ sock'[w] = c
                                          => n < msg'[w].n
  BY DEF Passed, Held, Below
<1> USE Distinct
<1>1. Good /\ tx[s] \in Seq(Packet)
  BY DEF Named, Good, TypeInv, TypeOK
<1>2. CASE i \in DOMAIN tx[s] /\ tx'[s][i] = tx[s][i]
  <2>1. tx[s][i] \in Packet
    BY <1>1, <1>2
  <2>2. c \in Clients /\ n \in Int /\ tx[s][i].client = c /\ tx[s][i].n = n
    BY <1>2, <2>1, ConstAssumption DEF Packet
  <2>3. Below(c, n) /\ \A w \in Workers : Held(w) /\ sock[w] = c => n < msg[w].n
    BY <1>2, <2>2 DEF Passed
  <2>4. Below(c, n)'
    BY <1>1, <2>2, <2>3, BelowStays
  <2>5. ASSUME NEW w \in Workers, pc'[w] \in {"select", "bump", "send"}, msg'[w] # NoMsg, sock'[w] = c
        PROVE  n < msg'[w].n
    <3>1. CASE RecvData(w) /\ msg'[w] = Head(rx[sock[w]])
      <4>1. sock[w] = c
        BY <1>1, <2>5, HeldMoves
      <4>2. msg'[w] = rx[c][1] /\ 1 \in DOMAIN rx[c]
        BY <1>1, <3>1, <4>1, ReadTakesAll
      <4>3. QED
        BY <2>3, <4>2 DEF Below
    <3>2. CASE Held(w) /\ msg'[w] = msg[w]
      BY <1>1, <2>3, <2>5, <3>2, HeldMoves
    <3>3. QED
      BY <1>1, <2>5, <3>1, <3>2, HeldMoves
  <2>6. QED
    BY <2>4, <2>5
<1>3. ASSUME NEW w \in Workers, Forward(w), tx'[s][i] = Stamped(w)
      PROVE  /\ Below(c, n)'
             /\ \A v \in Workers : /\ pc'[v] \in {"select", "bump", "send"}
                                   /\ msg'[v] # NoMsg /\ sock'[v] = c
                                   => n < msg'[v].n
  <2>1. /\ pc[w] = "send" /\ msg[w] \in Packet /\ c = sock[w] /\ c \in Clients
        /\ msg[w] # NoMsg
    BY <1>1, <1>3, StampNamesClient, StampedPacket, PacketAssumption DEF Forward
  <2>2. n = msg[w].n /\ n \in Int
    BY <1>3, <2>1, ConstAssumption DEF Stamped, Packet
  <2>3. Below(c, n)
    BY <2>1, <2>2 DEF Queued, Held
  <2>4. Below(c, n)'
    BY <1>1, <2>1, <2>2, <2>3, BelowStays
  <2>5. ASSUME NEW v \in Workers, pc'[v] \in {"select", "bump", "send"}, msg'[v] # NoMsg, sock'[v] = c
        PROVE  FALSE
    <3>1. pc'[w] = "loop"
      BY <1>1, <1>3 DEF Forward, Loop, Good, TypeInv, TypeOK
    <3>2. fd[v] \in epoll[v] /\ file[fd[v]] = c
      BY <1>1, <2>5, HeldMoves
    <3>3. fd[w] \in epoll[w] /\ file[fd[w]] = c
      BY <1>1, <2>1, Serving
    <3>4. v = w
      BY <1>1, <2>1, <3>2, <3>3, OneWatcher
    <3>5. QED
      BY <2>5, <3>1, <3>4
  <2>6. QED
    BY <2>4, <2>5
<1>4. ASSUME NEW w \in Workers, Forward(w), tx'[s] = Append(tx[s], Stamped(w))
      PROVE  (i \in DOMAIN tx[s] /\ tx'[s][i] = tx[s][i]) \/ tx'[s][i] = Stamped(w)
  <2>1. Stamped(w) \in Packet
    BY <1>1, <1>4, StampNamesClient, StampedPacket DEF Forward
  <2>2. QED
    BY <1>1, <1>4, <2>1, Appended
<1>5. CASE tx'[s] = tx[s]
  BY <1>2, <1>5
<1>6. QED
  BY <1>2, <1>3, <1>4, <1>5, TxMoves

\* So what a worker sends comes after all that its server has of that client.
LEMMA InOrderStep == Named /\ Passed /\ InOrder /\ [Next]_vars => InOrder'
<1> SUFFICES ASSUME Named, Passed, InOrder, [Next]_vars,
                    NEW s \in Servers, NEW i \in DOMAIN tx'[s], NEW j \in DOMAIN tx'[s], i < j,
                    tx'[s][i].client = tx'[s][j].client
             PROVE  tx'[s][i].n < tx'[s][j].n
  BY DEF InOrder
<1> USE Distinct
<1>1. Good /\ tx[s] \in Seq(Packet)
  BY DEF Named, Good, TypeInv, TypeOK
<1>2. CASE tx'[s] = tx[s]
  BY <1>2 DEF InOrder
<1>3. ASSUME NEW w \in Workers, Forward(w), tx'[s] = Append(tx[s], Stamped(w))
      PROVE  tx'[s][i].n < tx'[s][j].n
  <2>1. /\ pc[w] = "send" /\ msg[w] \in Packet /\ Stamped(w) \in Packet
        /\ Stamped(w).client = sock[w] /\ Stamped(w).n = msg[w].n /\ msg[w] # NoMsg
    BY <1>1, <1>3, StampNamesClient, StampedPacket, PacketAssumption DEF Forward, Stamped, Packet
  <2>2. \A h \in DOMAIN tx'[s] : \/ h = Len(tx[s]) + 1 /\ tx'[s][h] = Stamped(w)
                                 \/ h \in DOMAIN tx[s] /\ tx'[s][h] = tx[s][h]
    BY <1>1, <1>3, <2>1, Appended
  <2>3. (\A h \in DOMAIN tx[s] : h < Len(tx[s]) + 1 /\ h \in Int) /\ Len(tx[s]) \in Int
    BY <1>1
  <2>4. i \in DOMAIN tx[s] /\ tx'[s][i] = tx[s][i]
    BY <2>2, <2>3
  <2>5. CASE j \in DOMAIN tx[s] /\ tx'[s][j] = tx[s][j]
    BY <2>4, <2>5 DEF InOrder
  <2>6. CASE tx'[s][j] = Stamped(w)
    <3>1. Held(w) /\ sock[w] = tx[s][i].client
      BY <2>1, <2>4, <2>6 DEF Held
    <3>2. tx[s][i].n < msg[w].n
      BY <2>4, <3>1 DEF Passed
    <3>3. QED
      BY <2>1, <2>4, <2>6, <3>2
  <2>7. QED
    BY <2>2, <2>5, <2>6
<1>4. QED
  BY <1>2, <1>3, TxMoves

\* A client's requests reach a server in the order it wrote them, however many
\* workers there are (InOrder).
THEOREM OrderIsKept == ASSUME ServersKeep PROVE Spec /\ []NoticesWhole => []InOrder
<1>1. Init => Queued /\ Passed /\ InOrder
  <2>1. DOMAIN << >> = {}
    OBVIOUS
  <2>2. QED
    BY <2>1, Distinct DEF Init, Queued, Passed, InOrder, Held
<1>2. Named /\ Ready /\ Queued /\ Passed /\ InOrder /\ [Next]_vars => (Queued /\ Passed /\ InOrder)'
  <2>1. Named => Good
    BY DEF Named
  <2>2. QED
    BY <2>1, QueuedStep, PassedStep, InOrderStep DEF Ready
<1>3. QED
  BY <1>1, <1>2, NamedInvariant, ReadyInvariant, PTL DEF Spec

-----------------------------------------------------------------------------
\* The descriptor whose notice the main thread is about to write.
Writing(f) == mainpc = "write" /\ clientfd = f
InPipe(f) == \E i \in DOMAIN pipe : pipe[i] = f
InQueue(c) == \E i \in DOMAIN backlog : backlog[i] = c

\* Where a connection is, case by case: the choices of PlaceOf are forced.
Places ==
    /\ \A c \in Clients : link[c] = "absent" => PlaceOf(c) = "away"
    /\ \A c \in Clients : InQueue(c) => link[c] # "absent" /\ PlaceOf(c) = "queued"
    /\ \A c \in Clients, f \in Fds : file[f] = c =>
          /\ link[c] # "absent" /\ ~InQueue(c)
          /\ Writing(f) => PlaceOf(c) = "listener"
          /\ InPipe(f) => ~Writing(f) /\ PlaceOf(c) = "pipe"
          /\ \A w \in Workers : f \in epoll[w] => ~Writing(f) /\ ~InPipe(f) /\ PlaceOf(c) = w
          /\ ~Writing(f) /\ ~InPipe(f) /\ (\A w \in Workers : f \notin epoll[w]) => PlaceOf(c) = "lost"
    /\ \A c \in Clients :
          link[c] # "absent" /\ ~InQueue(c) /\ (\A f \in Fds : file[f] # c) => PlaceOf(c) = "closed"

\* One owner and one descriptor leave PlaceOf no choice.
LEMMA PlacesNow == Ready => Places
<1> SUFFICES ASSUME Ready PROVE Places
  OBVIOUS
<1> USE Distinct
<1>0. /\ Good /\ OneFd /\ OneOwner
      /\ backlog \in Seq(Clients) /\ epoll \in [Workers -> SUBSET Fds]
  BY DEF Ready, Good, TypeInv, TypeOK, IInv
<1>1. ASSUME NEW c \in Clients, link[c] = "absent" PROVE PlaceOf(c) = "away"
  BY <1>1 DEF PlaceOf
<1>2. ASSUME NEW c \in Clients, InQueue(c) PROVE link[c] # "absent" /\ PlaceOf(c) = "queued"
  BY <1>0, <1>2 DEF PlaceOf, InQueue, OneFd
<1>3. ASSUME NEW c \in Clients, NEW f \in Fds, file[f] = c
      PROVE  /\ link[c] # "absent" /\ ~InQueue(c)
             /\ Writing(f) => PlaceOf(c) = "listener"
             /\ InPipe(f) => ~Writing(f) /\ PlaceOf(c) = "pipe"
             /\ \A w \in Workers : f \in epoll[w] => ~Writing(f) /\ ~InPipe(f) /\ PlaceOf(c) = w
             /\ ~Writing(f) /\ ~InPipe(f) /\ (\A w \in Workers : f \notin epoll[w]) => PlaceOf(c) = "lost"
  <2>1. f \in ClientFds
    BY <1>3 DEF ClientFds
  <2>2. link[c] # "absent" /\ ~InQueue(c)
    BY <1>0, <1>3, <2>1 DEF OneFd, InQueue
  <2>3. (CHOOSE g \in Fds : file[g] = c) = f
    <3>1. \A g \in Fds : file[g] = c => g = f
      BY <1>0, <1>3 DEF OneFd
    <3>2. \E g \in Fds : file[g] = c
      BY <1>3
    <3>3. QED
      BY <3>1, <3>2
  <2>4. PlaceOf(c) = PlaceOfFd(f)
    BY <1>3, <2>2, <2>3 DEF PlaceOf, InQueue
  <2>5. Writing(f) => PlaceOfFd(f) = "listener"
    BY DEF Writing, PlaceOfFd
  <2>6. InPipe(f) => ~Writing(f) /\ PlaceOfFd(f) = "pipe"
    BY <1>0 DEF Writing, InPipe, PlaceOfFd, OneOwner
  <2>7. ASSUME NEW w \in Workers, f \in epoll[w]
        PROVE  ~Writing(f) /\ ~InPipe(f) /\ PlaceOfFd(f) = w
    <3>1. ~Writing(f) /\ ~InPipe(f)
      BY <1>0, <2>7 DEF Writing, InPipe, OneOwner
    <3>2. Watchers(f) = {w}
      BY <1>0, <2>1, <2>7 DEF Watchers, OneOwner
    <3>3. (CHOOSE v \in Watchers(f) : TRUE) = w
      BY <3>2
    <3>4. QED
      BY <3>1, <3>2, <3>3 DEF PlaceOfFd, Writing, InPipe
  <2>8. ~Writing(f) /\ ~InPipe(f) /\ (\A w \in Workers : f \notin epoll[w]) => PlaceOfFd(f) = "lost"
    BY DEF Writing, InPipe, PlaceOfFd, Watchers
  <2>9. QED
    BY <2>2, <2>4, <2>5, <2>6, <2>7, <2>8
<1>4. ASSUME NEW c \in Clients, link[c] # "absent", ~InQueue(c), \A f \in Fds : file[f] # c
      PROVE  PlaceOf(c) = "closed"
  BY <1>4 DEF PlaceOf, InQueue
<1>5. QED
  BY <1>1, <1>2, <1>3, <1>4 DEF Places

\* The same of the next state.
LEMMA PlacesNext == Ready' => Places'
BY PlacesNow, PTL

\* A connection that nothing happens to stays where it is.
LEMMA SamePlace ==
    ASSUME Places, Places', NEW c \in Clients,
           link'[c] = "absent" <=> link[c] = "absent",
           InQueue(c)' <=> InQueue(c),
           \A f \in Fds : file'[f] = c <=> file[f] = c,
           \A f \in Fds : file[f] = c => /\ Writing(f)' <=> Writing(f)
                                         /\ InPipe(f)' <=> InPipe(f)
                                         /\ \A w \in Workers : f \in epoll'[w] <=> f \in epoll[w]
    PROVE  PlaceOf(c)' = PlaceOf(c)
<1> DEFINE p == PlaceOf(c)
           q == PlaceOf(c)'
<1>1. CASE link[c] = "absent"
  <2>1. p = "away" /\ q = "away"
    BY <1>1 DEF Places
  <2>2. QED
    BY <2>1
<1>2. CASE InQueue(c)
  <2>1. p = "queued" /\ q = "queued"
    BY <1>2 DEF Places
  <2>2. QED
    BY <2>1
<1>3. ASSUME NEW f \in Fds, file[f] = c PROVE q = p
  <2>0. file'[f] = c
    BY <1>3
  <2>1. CASE Writing(f)
    BY <1>3, <2>0, <2>1 DEF Places
  <2>2. CASE InPipe(f)
    BY <1>3, <2>0, <2>2 DEF Places
  <2>3. ASSUME NEW w \in Workers, f \in epoll[w] PROVE q = p
    BY <1>3, <2>0, <2>3 DEF Places
  <2>4. CASE ~Writing(f) /\ ~InPipe(f) /\ \A w \in Workers : f \notin epoll[w]
    BY <1>3, <2>0, <2>4 DEF Places
  <2>5. QED
    BY <2>1, <2>2, <2>3, <2>4
<1>4. CASE link[c] # "absent" /\ ~InQueue(c) /\ \A f \in Fds : file[f] # c
  BY <1>4 DEF Places
<1>5. QED
  BY <1>1, <1>2, <1>3, <1>4

-----------------------------------------------------------------------------
\* A step that moves connection c alone, from where it is to place p.
LEMMA OneMoves ==
    ASSUME NEW c \in Clients, NEW p, PlaceOf(c)' = p,
           \A d \in Clients \ {c} : PlaceOf(d)' = PlaceOf(d)
    PROVE  [d \in Clients |-> PlaceOf(d)]' = [[d \in Clients |-> PlaceOf(d)] EXCEPT ![c] = p]
OBVIOUS

\* A step that moves none.
LEMMA NoneMoves ==
    ASSUME \A d \in Clients : PlaceOf(d)' = PlaceOf(d)
    PROVE  [d \in Clients |-> PlaceOf(d)]' = [d \in Clients |-> PlaceOf(d)]
OBVIOUS

\* A step that opens, queues and hands over nothing moves nothing.
LEMMA Unmoved ==
    ASSUME Ready, Places, Places', [Next]_vars, UNCHANGED <<file, backlog, mainpc, clientfd, pipe, epoll>>,
           \A c \in Clients : ~ClientConnect(c)
    PROVE  \A c \in Clients : PlaceOf(c)' = PlaceOf(c)
<1> SUFFICES ASSUME NEW c \in Clients PROVE PlaceOf(c)' = PlaceOf(c)
  OBVIOUS
<1>1. link'[c] = "absent" <=> link[c] = "absent"
  BY LinkMoves DEF Ready
<1>2. /\ InQueue(c)' <=> InQueue(c)
      /\ \A f \in Fds : /\ file'[f] = c <=> file[f] = c
                        /\ Writing(f)' <=> Writing(f)
                        /\ InPipe(f)' <=> InPipe(f)
                        /\ \A w \in Workers : f \in epoll'[w] <=> f \in epoll[w]
  BY DEF InQueue, Writing, InPipe
<1>3. QED
  BY <1>1, <1>2, SamePlace

\* accept(): the first in the queue comes to the main thread.
LEMMA AcceptMoves ==
    ASSUME Ready, Places, Places', [Next]_vars, Accept PROVE \E c \in Clients : Conn!Accepted(c)
<1> USE Distinct
<1>0. /\ Good /\ file \in [Fds -> Socks \cup {Db, Closed}] /\ backlog \in Seq(Clients)
      /\ backlog # << >>
  BY DEF Ready, Good, TypeInv, TypeOK, LocalsOK, Accept
<1>1. PICK g \in Fds : /\ file[g] = Closed /\ file' = [file EXCEPT ![g] = Head(backlog)]
                       /\ clientfd' = g
  BY DEF Accept, Lowest, FreeFds
<1>2. PICK c \in Clients : c = Head(backlog) /\ InQueue(c) /\ c = backlog[1] /\ 1 \in DOMAIN backlog
  BY <1>0 DEF InQueue
<1>3. PlaceOf(c) = "queued"
  BY <1>2 DEF Places
<1>4. /\ mainpc' = "write" /\ mainpc = "accept" /\ pipe' = pipe /\ epoll' = epoll /\ link' = link
      /\ backlog' = Tail(backlog)
  BY DEF Accept, workVars
<1>5. /\ file'[g] = c /\ \A f \in Fds \ {g} : file'[f] = file[f]
  BY <1>0, <1>1, <1>2
<1>6. PlaceOf(c)' = "listener"
  <2>1. Writing(g)'
    BY <1>1, <1>4 DEF Writing
  <2>2. QED
    BY <1>2, <1>5, <2>1 DEF Places
<1>7. ASSUME NEW d \in Clients \ {c} PROVE PlaceOf(d)' = PlaceOf(d)
  <2>1. /\ \A i \in DOMAIN Tail(backlog) : i + 1 \in DOMAIN backlog /\ Tail(backlog)[i] = backlog[i + 1]
        /\ \A i \in DOMAIN backlog : i # 1 => i - 1 \in DOMAIN Tail(backlog)
                                              /\ Tail(backlog)[i - 1] = backlog[i]
    BY <1>0
  <2>2. InQueue(d)' <=> InQueue(d)
    <3>1. InQueue(d)' => InQueue(d)
      BY <1>4, <2>1 DEF InQueue
    <3>2. ASSUME NEW i \in DOMAIN backlog, backlog[i] = d PROVE InQueue(d)'
      <4>1. i # 1
        BY <1>2, <1>7, <3>2
      <4>2. QED
        BY <1>4, <2>1, <3>2, <4>1 DEF InQueue
    <3>3. QED
      BY <3>1, <3>2 DEF InQueue
  <2>3. \A f \in Fds : file'[f] = d <=> file[f] = d
    BY <1>1, <1>5, <1>7
  <2>4. \A f \in Fds : file[f] = d => /\ Writing(f)' <=> Writing(f)
                                      /\ InPipe(f)' <=> InPipe(f)
                                      /\ \A w \in Workers : f \in epoll'[w] <=> f \in epoll[w]
    BY <1>1, <1>4 DEF Writing, InPipe
  <2>5. QED
    BY <1>4, <2>2, <2>3, <2>4, SamePlace
<1>8. QED
  BY <1>2, <1>3, <1>6, <1>7, OneMoves DEF Conn!Accepted, Conn!Moves

\* write(): from the main thread to the pipe.
LEMMA WriteMoves ==
    ASSUME Ready, Places, Places', [Next]_vars, WritePipe PROVE \E c \in Clients : Conn!Handed(c)
<1> USE Distinct
<1>0. /\ Good /\ OneFd /\ file \in [Fds -> Socks \cup {Db, Closed}] /\ pipe \in Seq(Fds)
      /\ clientfd \in Fds /\ clientfd \in ClientFds
  BY DEF Ready, Good, TypeInv, TypeOK, LocalsOK, WritePipe, IInv, OneOwner
<1>1. PICK g \in Fds, c \in Clients : g = clientfd /\ file[g] = c /\ Writing(g)
  BY <1>0 DEF ClientFds, WritePipe, Writing
<1>2. PlaceOf(c) = "listener"
  BY <1>1 DEF Places
<1>3. /\ mainpc' = "dispatch" /\ clientfd' = clientfd /\ epoll' = epoll /\ link' = link
      /\ file' = file /\ backlog' = backlog
      /\ pipe' = Append(pipe, g)
  BY <1>1 DEF WritePipe, workVars
<1>4. \A f \in Fds : InPipe(f)' <=> InPipe(f) \/ f = g
  <2>1. DOMAIN pipe' = DOMAIN pipe \cup {Len(pipe) + 1} /\ pipe'[Len(pipe) + 1] = g
        /\ \A i \in DOMAIN pipe : pipe'[i] = pipe[i]
    BY <1>0, <1>3
  <2>2. QED
    BY <2>1 DEF InPipe
<1>5. PlaceOf(c)' = "pipe"
  BY <1>1, <1>3, <1>4 DEF Places
<1>6. \A f \in Fds : Writing(f) <=> f = g
  BY <1>1 DEF Writing
<1>7. ASSUME NEW d \in Clients \ {c} PROVE PlaceOf(d)' = PlaceOf(d)
  <2>1. InQueue(d)' <=> InQueue(d)
    BY <1>3 DEF InQueue
  <2>2. \A f \in Fds : file[f] = d => /\ Writing(f)' <=> Writing(f)
                                      /\ InPipe(f)' <=> InPipe(f)
                                      /\ \A w \in Workers : f \in epoll'[w] <=> f \in epoll[w]
    BY <1>1, <1>3, <1>4, <1>7, <1>6 DEF Writing
  <2>3. QED
    BY <1>3, <2>1, <2>2, SamePlace
<1>8. QED
  BY <1>1, <1>2, <1>5, <1>7, OneMoves DEF Conn!Handed, Conn!Moves

\* read(): the first in the pipe comes to the worker, others are lost or stay.
LEMMA ReadMoves ==
    ASSUME Ready, NoticesWhole, Places, Places', [Next]_vars, NEW w \in Workers, ReadPipe(w)
    PROVE  \E c \in Clients : Conn!Take(c, w)
<1> USE Distinct
<1>0. /\ Good /\ OneFd /\ OneOwner /\ file \in [Fds -> Socks \cup {Db, Closed}] /\ pipe \in Seq(Fds)
      /\ epoll \in [Workers -> SUBSET Fds]
  BY DEF Ready, Good, TypeInv, TypeOK, IInv
<1>1. Head(pipe) = pipe[1] /\ 1 \in DOMAIN pipe
  BY <1>0, TakesFirst
<1>2. PICK g \in Fds, c \in Clients : g = Head(pipe) /\ file[g] = c /\ InPipe(g)
  BY <1>0, <1>1 DEF OneOwner, ClientFds, InPipe
<1>3. PlaceOf(c) = "pipe"
  BY <1>2 DEF Places
<1>4. /\ epoll' = [epoll EXCEPT ![w] = @ \cup {g}]
      /\ mainpc' = mainpc /\ clientfd' = clientfd /\ link' = link
      /\ file' = file /\ backlog' = backlog
  BY <1>0, <1>2, TakesFirst DEF ReadPipe, mainVars
<1>5. \A i \in DOMAIN pipe' : pipe'[i] # g /\ InPipe(pipe'[i])
  BY <1>0, <1>1, <1>2, TakesFirst DEF OneOwner, InPipe
<1>6. \A f \in Fds : /\ Writing(f)' <=> Writing(f)
                     /\ InPipe(f)' => InPipe(f) /\ f # g
                     /\ \A v \in Workers : f \in epoll'[v] <=> f \in epoll[v] \/ (v = w /\ f = g)
  BY <1>0, <1>4, <1>5 DEF Writing, InPipe
<1>7. file'[g] = c /\ file[g] = c
  BY <1>2, <1>4
<1>8. PlaceOf(c)' = w
  BY <1>2, <1>6, <1>7 DEF Places
<1>9. ASSUME NEW d \in Clients \ {c}
      PROVE  PlaceOf(d)' = PlaceOf(d) \/ (PlaceOf(d) = "pipe" /\ PlaceOf(d)' = "lost")
  <2>1. ASSUME NEW f \in Fds, file[f] = d, InPipe(f)
        PROVE  PlaceOf(d) = "pipe" /\ (PlaceOf(d)' = "lost" \/ PlaceOf(d)' = "pipe")
    <3>1. PlaceOf(d) = "pipe" /\ ~Writing(f) /\ \A v \in Workers : f \notin epoll[v]
      BY <1>9, <2>1 DEF Places
    <3>2. f # g /\ file'[f] = d
      BY <1>4, <1>7, <1>9, <2>1
    <3>3. ~Writing(f)' /\ \A v \in Workers : f \notin epoll'[v]
      BY <1>6, <3>1, <3>2
    <3>4. QED
      BY <1>9, <3>1, <3>2, <3>3 DEF Places
  <2>2. ASSUME \A f \in Fds : file[f] = d => ~InPipe(f)
        PROVE  PlaceOf(d)' = PlaceOf(d)
    <3>1. InQueue(d)' <=> InQueue(d)
      BY <1>4 DEF InQueue
    <3>2. \A f \in Fds : file[f] = d => /\ Writing(f)' <=> Writing(f)
                                        /\ InPipe(f)' <=> InPipe(f)
                                        /\ \A v \in Workers : f \in epoll'[v] <=> f \in epoll[v]
      BY <1>6, <1>7, <1>9, <2>2
    <3>3. QED
      BY <1>4, <1>9, <3>1, <3>2, SamePlace
  <2>3. QED
    BY <2>1, <2>2
<1> DEFINE L == {d \in Clients \ {c} : PlaceOf(d) = "pipe" /\ PlaceOf(d)' = "lost"}
<1>10. [d \in Clients |-> PlaceOf(d)]'
         = [d \in Clients |-> IF d = c THEN w
                              ELSE IF d \in L THEN "lost" ELSE PlaceOf(d)]
  BY <1>8, <1>9
<1>11. L \in SUBSET {d \in Clients \ {c} : [e \in Clients |-> PlaceOf(e)][d] = "pipe"}
  OBVIOUS
<1> HIDE DEF L
<1>12. QED
  BY <1>2, <1>3, <1>10, <1>11 DEF Conn!Take

\* close(): only the worker that watches a connection closes it.
LEMMA CloseMoves ==
    ASSUME Ready, Places, Places', [Next]_vars, NEW w \in Workers, CloseClient(w)
    PROVE  \E c \in Clients : Conn!Drop(c)
<1> USE Distinct
<1>0. /\ Good /\ OneFd /\ file \in [Fds -> Socks \cup {Db, Closed}]
      /\ epoll \in [Workers -> SUBSET Fds]
  BY DEF Ready, Good, TypeInv, TypeOK
<1>1. PICK g \in Fds, c \in Clients : g = fd[w] /\ g \in epoll[w] /\ file[g] = c
  BY <1>0, Serving DEF CloseClient
<1>2. PlaceOf(c) = w
  BY <1>1 DEF Places
<1>3. /\ \A f \in Fds : file'[f] = IF f = g THEN Closed ELSE file[f]
      /\ \A v \in Workers : epoll'[v] = epoll[v] \ {g}
      /\ mainpc' = mainpc /\ clientfd' = clientfd /\ link' = link
      /\ backlog' = backlog /\ pipe' = pipe
  BY <1>1 DEF CloseClient, CloseFd, mainVars
<1>4. \A f \in Fds : file'[f] # c
  BY <1>0, <1>1, <1>3 DEF OneFd
<1>5. PlaceOf(c)' = "closed"
  <2>1. link[c] # "absent" /\ ~InQueue(c)
    BY <1>1 DEF Places
  <2>2. link'[c] # "absent" /\ ~InQueue(c)'
    BY <1>3, <2>1 DEF InQueue
  <2>3. QED
    BY <1>1, <1>4, <2>2 DEF Places
<1>6. ASSUME NEW d \in Clients \ {c} PROVE PlaceOf(d)' = PlaceOf(d)
  <2>1. InQueue(d)' <=> InQueue(d)
    BY <1>3 DEF InQueue
  <2>2. \A f \in Fds : file'[f] = d <=> file[f] = d
    BY <1>1, <1>3, <1>6
  <2>3. \A f \in Fds : file[f] = d => /\ Writing(f)' <=> Writing(f)
                                      /\ InPipe(f)' <=> InPipe(f)
                                      /\ \A v \in Workers : f \in epoll'[v] <=> f \in epoll[v]
    BY <1>1, <1>3, <1>6 DEF Writing, InPipe
  <2>4. QED
    BY <1>3, <2>1, <2>2, <2>3, SamePlace
<1>7. QED
  BY <1>1, <1>2, <1>5, <1>6, OneMoves DEF Conn!Drop, Conn!Moves

\* connect(): into the queue.
LEMMA ConnectMoves ==
    ASSUME Ready, Places, Places', [Next]_vars, NEW c \in Clients, ClientConnect(c)
    PROVE  Conn!Arrive(c)
<1> USE Distinct
<1>0. Good /\ link \in [Socks -> Links] /\ backlog \in Seq(Clients)
  BY DEF Ready, Good, TypeInv, TypeOK
<1>1. PlaceOf(c) = "away"
  BY DEF ClientConnect, Places
<1>2. /\ mainpc' = mainpc /\ clientfd' = clientfd /\ file' = file /\ epoll' = epoll /\ pipe' = pipe
      /\ backlog' = Append(backlog, c)
  BY DEF ClientConnect, mainVars, workVars
<1>3. \A d \in Clients \ {c} : link'[d] = link[d]
  BY <1>0 DEF ClientConnect
<1>4. \A d \in Clients : InQueue(d)' <=> InQueue(d) \/ d = c
  <2>1. DOMAIN backlog' = DOMAIN backlog \cup {Len(backlog) + 1} /\ backlog'[Len(backlog) + 1] = c
        /\ \A i \in DOMAIN backlog : backlog'[i] = backlog[i]
    BY <1>0, <1>2
  <2>2. QED
    BY <2>1 DEF InQueue
<1>5. PlaceOf(c)' = "queued"
  BY <1>4 DEF Places
<1>6. ASSUME NEW d \in Clients \ {c} PROVE PlaceOf(d)' = PlaceOf(d)
  <2>1. \A f \in Fds : /\ Writing(f)' <=> Writing(f)
                       /\ InPipe(f)' <=> InPipe(f)
    BY <1>2 DEF Writing, InPipe
  <2>2. QED
    BY <1>2, <1>3, <1>4, <1>6, <2>1, SamePlace
<1>7. QED
  BY <1>1, <1>5, <1>6, OneMoves DEF Conn!Arrive, Conn!Moves

\* A connection to the database takes a free descriptor: no client's.
LEMMA OpenDbMoves ==
    ASSUME Ready, Places, Places', OpenDb
    PROVE  \A c \in Clients : PlaceOf(c)' = PlaceOf(c)
<1> USE Distinct
<1> SUFFICES ASSUME NEW c \in Clients PROVE PlaceOf(c)' = PlaceOf(c)
  OBVIOUS
<1>0. file \in [Fds -> Socks \cup {Db, Closed}] /\ mainpc = "dispatch" /\ mainpc' = "accept"
      /\ UNCHANGED <<link, backlog, pipe, epoll>>
  BY DEF Ready, Good, TypeInv, TypeOK, OpenDb, workVars
<1>1. PICK g \in Fds : file[g] = Closed /\ file' = [file EXCEPT ![g] = Db]
  BY DEF OpenDb, Lowest, FreeFds
<1>2. c # Closed /\ c # Db
  BY DEF Socks
<1>3. \A f \in Fds : file'[f] = c <=> file[f] = c
  BY <1>0, <1>1, <1>2
<1>4. /\ InQueue(c)' <=> InQueue(c)
      /\ \A f \in Fds : /\ Writing(f)' <=> Writing(f)
                        /\ InPipe(f)' <=> InPipe(f)
  BY <1>0 DEF InQueue, Writing, InPipe
<1>5. QED
  BY <1>0, <1>3, <1>4, SamePlace

\* Every other step leaves the descriptors, the queue and the pipe alone; the
\* descriptor that Purge takes off epoll, close() has taken off before.
LEMMA OthersUnmoved ==
    ASSUME Ready, Places, Places', [Next]_vars,
           ~OpenDb, ~Accept, ~WritePipe, \A c \in Clients : ~ClientConnect(c),
           \A w \in Workers : ~ReadPipe(w) /\ ~CloseClient(w)
    PROVE  \A c \in Clients : PlaceOf(c)' = PlaceOf(c)
<1> USE Distinct
<1>0. Good /\ epoll \in [Workers -> SUBSET Fds] /\ BusyOwner
  BY DEF Ready, Good, TypeInv, TypeOK, IInv
<1>1. UNCHANGED <<file, backlog, mainpc, clientfd, pipe, epoll>>
  <2>1. CASE UNCHANGED vars
    BY <2>1 DEF vars, kernelVars, mainVars, workVars
  <2>2. CASE OutOfFds
    BY <2>2 DEF OutOfFds, kernelVars, mainVars, workVars
  <2>3. CASE Environment
    BY <2>3 DEF Environment, ClientSend, HangUp, Probed, ServerAck, ServerChat, ServerSends,
                mainVars, workVars
  <2>4. ASSUME NEW w \in Workers, Worker(w)
        PROVE  UNCHANGED <<file, backlog, mainpc, clientfd, pipe, epoll>>
    <3>1. CASE Purge(w)
      <4>1. fd[w] \notin epoll[w]
        BY <1>0, <3>1 DEF Purge, BusyOwner
      <4>2. epoll' = epoll
        BY <1>0, <3>1, <4>1 DEF Purge
      <4>3. QED
        BY <3>1, <4>2 DEF Purge, kernelVars, mainVars
    <3>2. ~CloseServer(w)
      BY <1>0 DEF CloseServer, BusyOwner
    <3>3. CASE EpollWait(w) \/ NextEvent(w) \/ RecvData(w) \/ RecvEof(w) \/ RecvError(w)
      BY <3>3 DEF EpollWait, NextEvent, RecvData, RecvEof, RecvError, Loop, kernelVars, mainVars
    <3>4. CASE SelectServer(w) \/ LookupNull(w) \/ BumpTag(w) \/ Forward(w) \/ Reply(w)
      BY <3>4 DEF SelectServer, LookupNull, BumpTag, Forward, Reply, Loop,
                  kernelVars, mainVars, workVars
    <3>5. QED
      BY <2>4, <3>1, <3>2, <3>3, <3>4 DEF Worker
  <2>5. QED
    BY <2>1, <2>2, <2>3, <2>4 DEF Next, Main
<1>2. QED
  BY <1>1, Unmoved

\* Each step of the balancer is a step of Connection or moves nothing.
LEMMA ConnStep ==
    ASSUME Ready, NoticesWhole, Places, Places', [Next]_vars
    PROVE  [Conn!ConnNext]_([c \in Clients |-> PlaceOf(c)])
<1>1. CASE OpenDb
  BY <1>1, OpenDbMoves, NoneMoves
<1>2. CASE Accept
  BY <1>2, AcceptMoves DEF Conn!ConnNext
<1>3. CASE WritePipe
  BY <1>3, WriteMoves DEF Conn!ConnNext
<1>4. ASSUME NEW w \in Workers, ReadPipe(w) PROVE Conn!ConnNext
  BY <1>4, ReadMoves DEF Conn!ConnNext
<1>5. ASSUME NEW w \in Workers, CloseClient(w) PROVE Conn!ConnNext
  BY <1>5, CloseMoves DEF Conn!ConnNext
<1>6. ASSUME NEW c \in Clients, ClientConnect(c) PROVE Conn!ConnNext
  BY <1>6, ConnectMoves DEF Conn!ConnNext
<1>7. CASE /\ ~OpenDb /\ ~Accept /\ ~WritePipe /\ \A c \in Clients : ~ClientConnect(c)
           /\ \A w \in Workers : ~ReadPipe(w) /\ ~CloseClient(w)
  BY <1>7, OthersUnmoved, NoneMoves
<1>8. QED
  BY <1>1, <1>2, <1>3, <1>4, <1>5, <1>6, <1>7

\* At the start nobody has connected.
LEMMA ConnStart == Init => Conn!ConnInit
BY Distinct DEF Init, Conn!ConnInit, PlaceOf, Socks

(***************************************************************************)
(* Accepting, handing over, serving and closing follow the life of a       *)
(* connection: queue, main thread, pipe, one worker, closed; never back,   *)
(* never from one worker to another (main, Listenfd, thread_func).         *)
(***************************************************************************)
THEOREM ImplementsTheConnection == ASSUME ServersKeep PROVE Spec /\ []NoticesWhole => ImplementsConnection
<1>1. Ready /\ NoticesWhole /\ Ready' /\ [Next]_vars => [Conn!ConnNext]_([c \in Clients |-> PlaceOf(c)])
  BY PlacesNow, PlacesNext, ConnStep
<1>2. Spec /\ []NoticesWhole => []Ready
  BY ReadyInvariant
<1>3. QED
  BY <1>1, <1>2, ConnStart, PTL DEF Spec, ImplementsConnection, Conn!ConnSpec

=============================================================================
