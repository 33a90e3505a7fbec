------------------------ MODULE LoadBalancer_proofs ------------------------
(***************************************************************************)
(* What holds of LoadBalancer for every number of workers, clients,        *)
(* servers and descriptors.                                                *)
(***************************************************************************)
EXTENDS LoadBalancer, TLAPS

\* The descriptors of the servers are among those the process may use.
LEMMA ServerFds == \A s \in Servers : serverfd[s] \in Fds /\ judge(serverfd[s])
BY ConstAssumption DEF Servers, serverfd, Fds, judge

\* The fallback of select_server stays a valid index.
LEMMA TagRange == ASSUME tag \in Servers PROVE NextTag \in Servers
BY ConstAssumption DEF Servers, NextTag

\* A request stamped with a descriptor is still a packet.
LEMMA StampedPacket ==
    ASSUME NEW w \in Workers, msg[w] \in Packet, fd[w] \in Fds
    PROVE  /\ Stamped(w) \in Packet
           /\ Stamped(w).fd = fd[w]
           /\ Stamped(w).client = msg[w].client
BY DEF Packet, Stamped

TypeInv == TypeOK /\ LocalsOK

\* The initial state has the types, locals included.
LEMMA TypeInit == Init => TypeInv
<1> SUFFICES ASSUME Init PROVE TypeInv
  OBVIOUS
<1> USE ConstAssumption, PacketAssumption
<1>1. file \in [Fds -> Socks \cup {Db, Closed}]
  BY DEF Init, Fds, Socks, Servers, judge, serverfd
<1>2. link \in [Socks -> Links]
  BY DEF Init, Links
<1>3. /\ rx \in [Socks -> Seq(Packet)] /\ tx \in [Socks -> Seq(Packet)]
      /\ backlog \in Seq(Clients) /\ pipe \in Seq(Fds)
  BY DEF Init
<1>4. /\ sent \in [Clients -> 0..MaxSend] /\ handled \in [Servers -> Nat]
      /\ online \subseteq Clients \X (Fds \cup {0})
  BY DEF Init
<1>5. epoll \in [Workers -> SUBSET Fds]
  BY ServerFds DEF Init
<1>6. index \in [Workers -> Servers] /\ tag \in Servers
  BY DEF Init, Servers
<1>7. QED
  BY <1>1, <1>2, <1>3, <1>4, <1>5, <1>6 DEF Init, TypeInv, TypeOK, LocalsOK, HasFd

-----------------------------------------------------------------------------
\* send() keeps the types of what it touches.
LEMMA SendToType ==
    ASSUME TypeOK, NEW f, NEW m \in Packet, SendTo(f, m)
    PROVE  /\ tx' \in [Socks -> Seq(Packet)]
           /\ link' \in [Socks -> Links]
           /\ status' \in {"running", "emfile", "addEvent", "sigpipe", "segv"}
<1> USE DEF TypeOK
<1>1. ASSUME NEW k \in Socks, tx' = [tx EXCEPT ![k] = Append(@, m)]
      PROVE  tx' \in [Socks -> Seq(Packet)]
  BY <1>1
<1>2. ASSUME NEW k \in Socks, NEW l \in Links, link' = [link EXCEPT ![k] = l]
      PROVE  link' \in [Socks -> Links]
  BY <1>2
<1>3. \A k \in Socks : link[k] \in Links
                       /\ (IF link[k] = "up" THEN link[k] ELSE "probed") \in Links
                       /\ "dead" \in Links
  BY DEF Links
<1>4. CASE FileOf(f) \notin Socks /\ UNCHANGED <<tx, link, status>>
  BY <1>4
<1>5. ASSUME NEW k \in Socks,
             tx' = [tx EXCEPT ![k] = Append(@, m)],
             link' = [link EXCEPT ![k] = IF @ = "up" THEN @ ELSE "probed"],
             UNCHANGED status
      PROVE  /\ tx' \in [Socks -> Seq(Packet)]
             /\ link' \in [Socks -> Links]
             /\ status' \in {"running", "emfile", "addEvent", "sigpipe", "segv"}
  BY <1>1, <1>2, <1>3, <1>5
<1>6. ASSUME NEW k \in Socks,
             link' = [link EXCEPT ![k] = "dead"],
             UNCHANGED <<tx, status>>
      PROVE  /\ tx' \in [Socks -> Seq(Packet)]
             /\ link' \in [Socks -> Links]
             /\ status' \in {"running", "emfile", "addEvent", "sigpipe", "segv"}
  BY <1>2, <1>3, <1>6
<1>7. QED
  BY <1>4, <1>5, <1>6 DEF SendTo

\* close() keeps the types of what it touches.
LEMMA CloseFdType ==
    ASSUME TypeOK, NEW f, CloseFd(f)
    PROVE  /\ file' \in [Fds -> Socks \cup {Db, Closed}]
           /\ epoll' \in [Workers -> SUBSET Fds]
BY DEF TypeOK, CloseFd

\* The cleared locals have their types.
LEMMA LoopType ==
    ASSUME TypeInv, NEW w \in Workers, Loop(w)
    PROVE  /\ pc' \in [Workers -> {"loop", "pipe", "recv", "select", "bump", "send", "reply",
                                   "close", "purge", "serverclose"}]
           /\ fd' \in [Workers -> Fds \cup {0, PipeFd}]
           /\ sock' \in [Workers -> Socks \cup {Db, Closed}]
           /\ msg' \in [Workers -> Packet \cup {NoMsg}]
           /\ index' \in [Workers -> Servers]
           /\ \A v \in Workers : /\ pc'[v] \in HasFd => fd'[v] \in Fds
                                 /\ pc'[v] \in {"send", "reply"} => msg'[v] \in Packet
<1>1. 0 \in Servers
  BY ConstAssumption DEF Servers
<1>2. QED
  BY <1>1 DEF TypeInv, TypeOK, LocalsOK, Loop, HasFd

\* Every step of the main thread keeps the types.
LEMMA MainType == TypeInv /\ Main => TypeInv'
<1> SUFFICES ASSUME TypeInv, Main PROVE TypeInv'
  OBVIOUS
<1> USE DEF TypeInv, TypeOK, LocalsOK, HasFd
<1>1. CASE OpenDb
  BY <1>1 DEF OpenDb, Lowest, FreeFds, envVars, workVars
<1>2. CASE Accept
  <2>1. Head(backlog) \in Clients /\ Tail(backlog) \in Seq(Clients)
    BY <1>2 DEF Accept
  <2>2. PICK f \in Fds : file' = [file EXCEPT ![f] = Head(backlog)] /\ clientfd' = f
    BY <1>2 DEF Accept, Lowest, FreeFds
  <2>3. file' \in [Fds -> Socks \cup {Db, Closed}] /\ clientfd' \in Fds
    BY <2>1, <2>2 DEF Socks
  <2>4. QED
    BY <1>2, <2>1, <2>3 DEF Accept, envVars, workVars
<1>3. CASE OutOfFds
  BY <1>3 DEF OutOfFds, kernelVars, envVars, mainVars, workVars
<1>4. CASE WritePipe
  BY <1>4 DEF WritePipe, envVars, workVars
<1>5. QED
  BY <1>1, <1>2, <1>3, <1>4 DEF Main

\* Every step of a worker keeps the types.
LEMMA WorkerType == ASSUME TypeInv, NEW w \in Workers, Worker(w) PROVE TypeInv'
<1> USE DEF TypeInv, TypeOK, LocalsOK
<1> USE DEF kernelVars, envVars, mainVars, HasFd
<1>1. CASE EpollWait(w)
  BY <1>1 DEF EpollWait, ReadyFds
<1>2. CASE NextEvent(w)
  <2>1. PICK f \in events[w] :
           /\ events' = [events EXCEPT ![w] = @ \ {f}]
           /\ IF f # PipeFd /\ FileOf(f) = Closed
              THEN UNCHANGED <<pc, fd, sock>>
              ELSE /\ fd' = [fd EXCEPT ![w] = f]
                   /\ sock' = [sock EXCEPT ![w] = FileOf(f)]
                   /\ pc' = [pc EXCEPT ![w] = IF f = PipeFd THEN "pipe" ELSE "recv"]
    BY <1>2 DEF NextEvent
  <2>2. f \in Fds \cup {PipeFd} /\ FileOf(f) \in Socks \cup {Db, Closed}
    BY DEF FileOf
  <2>3. events' \in [Workers -> SUBSET (Fds \cup {PipeFd})]
    BY <2>1
  <2>4. CASE UNCHANGED <<pc, fd, sock>>
    BY <1>2, <2>3, <2>4 DEF NextEvent
  <2>5. CASE /\ fd' = [fd EXCEPT ![w] = f]
             /\ sock' = [sock EXCEPT ![w] = FileOf(f)]
             /\ pc' = [pc EXCEPT ![w] = IF f = PipeFd THEN "pipe" ELSE "recv"]
    BY <1>2, <2>2, <2>3, <2>5 DEF NextEvent
  <2>6. QED
    BY <2>1, <2>4, <2>5
<1>3. CASE ReadPipe(w)
  <2>1. PICK k \in DOMAIN pipe, c \in 0..9 : pipe' = PipeRest(k) /\ cut' = c
    BY <1>3 DEF ReadPipe
  <2>2. pipe' \in Seq(Fds) /\ cut' \in 0..9
    BY <2>1 DEF PipeRest
  <2> DEFINE f == atoi
  <2>3. epoll' \in [Workers -> SUBSET Fds] /\ status' \in {status, "addEvent"}
    <3>1. addEvent(w, f)
      BY <1>3 DEF ReadPipe
    <3> HIDE DEF f
    <3>2. CASE epoll' = [epoll EXCEPT ![w] = @ \cup {f}] /\ f \in Fds /\ UNCHANGED status
      BY <3>2
    <3>3. QED
      BY <3>1, <3>2 DEF addEvent
  <2>4. acceptCientNum' \in [Workers -> Int]
    BY <1>3 DEF ReadPipe
  <2>5. QED
    BY <1>3, <2>2, <2>3, <2>4, LoopType DEF ReadPipe
<1>4. CASE RecvData(w)
  <2>1. Head(rx[sock[w]]) \in Packet
    BY <1>4 DEF RecvData
  <2>2. QED
    BY <1>4, <2>1 DEF RecvData
<1>5. CASE RecvEof(w)
  BY <1>5 DEF RecvEof
<1>6. CASE RecvError(w)
  BY <1>6, LoopType DEF RecvError, Links
<1>7. CASE SelectServer(w)
  <2>1. NextTag \in Servers
    BY TagRange
  <2>2. index' \in [Workers -> Servers]
    BY <1>7, <2>1 DEF SelectServer
  <2>3. QED
    BY <1>7, <2>2 DEF SelectServer, AfterSelect
<1>8. CASE BumpTag(w)
  BY <1>8 DEF BumpTag, AfterSelect
<1>9. CASE Forward(w)
  <2>1. Stamped(w) \in Packet
    BY <1>9, StampedPacket DEF Forward
  <2>2. QED
    BY <1>9, <2>1, SendToType, LoopType DEF Forward
<1>10. CASE Reply(w)
  BY <1>10, SendToType, LoopType DEF Reply
<1>11. CASE CloseClient(w)
  BY <1>11, CloseFdType DEF CloseClient
<1>12. CASE Purge(w)
  <2>1. online' \subseteq Clients \X (Fds \cup {0})
    BY <1>12 DEF Purge
  <2>2. epoll' \in [Workers -> SUBSET Fds] /\ acceptCientNum' \in [Workers -> Int]
    BY <1>12 DEF Purge, CountedOut
  <2>3. QED
    BY <1>12, <2>1, <2>2, LoopType DEF Purge
<1>13. CASE CloseServer(w)
  BY <1>13, CloseFdType, LoopType DEF CloseServer
<1>14. CASE LookupNull(w)
  BY <1>14 DEF LookupNull, workVars
<1>15. QED
  BY <1>1, <1>2, <1>3, <1>4, <1>5, <1>6, <1>7, <1>8, <1>9, <1>10, <1>11, <1>12, <1>13, <1>14
  DEF Worker

\* Every step of the environment keeps the types.
LEMMA EnvironmentType == TypeInv /\ Environment => TypeInv'
<1> SUFFICES ASSUME TypeInv, Environment PROVE TypeInv'
  OBVIOUS
<1> USE DEF TypeInv, TypeOK, LocalsOK, HasFd, envVars, mainVars, workVars
<1>1. ASSUME NEW c \in Clients, ClientConnect(c) PROVE TypeInv'
  <2>1. link' \in [Socks -> Links]
    BY <1>1 DEF ClientConnect, Links
  <2>2. backlog' \in Seq(Clients) /\ backlog' # << >>
    <3>1. backlog' = Append(backlog, c)
      BY <1>1 DEF ClientConnect
    <3>2. Append(backlog, c) \in Seq(Clients) /\ Len(Append(backlog, c)) = Len(backlog) + 1
      OBVIOUS
    <3>3. Len(backlog) \in Nat /\ Len(<< >>) = 0
      OBVIOUS
    <3>4. QED
      BY <3>1, <3>2, <3>3
  <2>3. QED
    BY <1>1, <2>1, <2>2 DEF ClientConnect
<1>2. ASSUME NEW c \in Clients, ClientSend(c) PROVE TypeInv'
  <2>1. [client |-> c, n |-> sent[c] + 1, fd |-> 0] \in Packet
    BY <1>2, ConstAssumption DEF ClientSend, Packet
  <2>2. sent' \in [Clients -> 0..MaxSend]
    BY <1>2, ConstAssumption DEF ClientSend
  <2>3. rx' \in [Socks -> Seq(Packet)]
    BY <1>2, <2>1 DEF ClientSend, Socks
  <2>4. QED
    BY <1>2, <2>2, <2>3 DEF ClientSend
<1>3. ASSUME NEW k \in Socks, HangUp(k) PROVE TypeInv'
  BY <1>3 DEF HangUp, Links
<1>4. ASSUME NEW k \in Socks, Probed(k) PROVE TypeInv'
  BY <1>4 DEF Probed, Links
<1>5. ASSUME NEW s \in Servers, NEW c \in Clients, NEW f \in Fds \cup {0},
             NEW upto \in 1..Len(tx[s]), ServerTakes(s, upto), ServerSends(s, c, f),
             online' \subseteq Clients \X (Fds \cup {0})
      PROVE  TypeInv'
  <2>1. [client |-> c, n |-> 0, fd |-> f] \in Packet
    BY ConstAssumption DEF Packet
  <2>2. rx' \in [Socks -> Seq(Packet)]
    BY <1>5, <2>1 DEF ServerSends, Socks
  <2>3. handled' \in [Servers -> Nat]
    BY <1>5 DEF ServerTakes, Socks
  <2>4. QED
    BY <1>5, <2>2, <2>3 DEF ServerSends
<1>6. ASSUME NEW s \in Servers, ServerAck(s) PROVE TypeInv'
  <2>1. PICK upto \in 1..Len(tx[s]) :
           LET req == tx[s][handled[s] + 1]
           IN  /\ ServerTakes(s, upto)
               /\ ServerSends(s, req.client, req.fd)
               /\ online' \in {online, online \cup {<<req.client, req.fd>>}}
    BY <1>6 DEF ServerAck
  <2> DEFINE req == tx[s][handled[s] + 1]
  <2>2. tx[s] \in Seq(Packet) /\ handled[s] \in Nat
    BY DEF Socks
  <2>3. handled[s] + 1 \in 1..Len(tx[s])
    BY <2>1, <2>2 DEF ServerTakes
  <2>4. req \in Packet
    BY <2>2, <2>3
  <2>5. req.client \in Clients /\ req.fd \in Fds \cup {0}
    BY <2>4 DEF Packet
  <2> HIDE DEF req
  <2>6. online' \subseteq Clients \X (Fds \cup {0})
    BY <2>1, <2>5, SMTT(20) DEF req
  <2>7. QED
    BY <2>1, <2>5, <2>6, <1>5 DEF req
<1>7. ASSUME NEW s \in Servers, ServerChat(s) PROVE TypeInv'
  <2>1. PICK upto \in 1..Len(tx[s]), row \in online :
           /\ ServerTakes(s, upto)
           /\ ServerSends(s, row[1], row[2])
           /\ UNCHANGED online
    BY <1>7 DEF ServerChat
  <2>2. row[1] \in Clients /\ row[2] \in Fds \cup {0}
    OBVIOUS
  <2>3. QED
    BY <2>1, <2>2, <1>5
<1>8. QED
  BY <1>1, <1>2, <1>3, <1>4, <1>6, <1>7 DEF Environment

\* Every step keeps the types.
LEMMA TypeStep == TypeInv /\ [Next]_vars => TypeInv'
<1> SUFFICES ASSUME TypeInv, [Next]_vars PROVE TypeInv'
  OBVIOUS
<1>1. CASE Next
  BY <1>1, MainType, WorkerType, EnvironmentType DEF Next
<1>2. CASE UNCHANGED vars
  BY <1>2 DEF vars, kernelVars, envVars, mainVars, workVars, TypeInv, TypeOK, LocalsOK
<1>3. QED
  BY <1>1, <1>2

\* The types hold in every state of every behaviour (TypeOK).
THEOREM TypeCorrect == Spec => []TypeOK
<1>1. TypeInv => TypeOK
  BY DEF TypeInv
<1>2. QED
  BY <1>1, TypeInit, TypeStep, PTL DEF Spec

-----------------------------------------------------------------------------
\* The rest holds as long as no chat server hangs up (README: a server that
\* does is closed by every worker that reads its end of file) and no read() of
\* the pipe ends in the middle of a notice (NoticesWhole).
ServersKeep == Leavers \cap Servers = {}

Good == TypeInv /\ IInv /\ ServersKeep

\* The names of far ends, of descriptors and of nothing do not overlap.
LEMMA Distinct ==
    /\ Clients \cap Servers = {} /\ Clients \subseteq Socks /\ Servers \subseteq Socks
    /\ Closed \notin Socks /\ Db \notin Socks /\ PipeFd \notin Fds /\ 0 \notin Fds
BY ConstAssumption, PacketAssumption DEF Socks

\* The initial state: nothing accepted, every worker watching the servers only.
LEMMA IInvInit == Init => IInv
<1> SUFFICES ASSUME Init PROVE IInv
  OBVIOUS
<1>1. \A f \in Fds, s \in Servers : file[f] = s <=> f = serverfd[s]
  <2> SUFFICES ASSUME NEW f \in Fds, NEW s \in Servers
               PROVE  file[f] = s <=> f = serverfd[s]
    OBVIOUS
  <2>1. FirstFd \in Nat /\ s \in Nat /\ f \in Int /\ serverfd[s] = FirstFd + s
    BY ConstAssumption DEF Fds, Servers, serverfd
  <2>2. CASE judge(f)
    <3>1. file[f] = f - FirstFd
      BY <2>2 DEF Init
    <3>2. QED
      BY <2>1, <3>1
  <2>3. CASE ~judge(f)
    <3>1. file[f] = Closed
      BY <2>3 DEF Init
    <3>2. QED
      BY <2>3, <3>1, Distinct DEF judge
  <2>4. QED
    BY <2>2, <2>3
<1>2. \A w \in Workers : \A f \in epoll[w] : file[f] \in Servers
  BY <1>1, ServerFds DEF Init
<1>3. OneOwner
  <2>1. DOMAIN pipe = {} /\ mainpc # "write"
    BY DEF Init
  <2>2. \A w \in Workers : epoll[w] \cap ClientFds = {}
    BY <1>2, Distinct DEF ClientFds
  <2>3. QED
    BY <2>1, <2>2 DEF OneOwner
<1>4. ServersStay
  BY <1>1, Distinct DEF Init, ServersStay
<1>5. EventsWatched /\ BusyOwner
  BY DEF Init, EventsWatched, BusyOwner, Busy
<1>6. EpollOpen
  BY <1>2, Distinct DEF EpollOpen
<1>7. OwnPackets /\ status # "addEvent"
  BY Distinct DEF Init, OwnPackets
<1>8. QED
  BY <1>3, <1>4, <1>5, <1>6, <1>7 DEF IInv

\* What a step that leaves descriptors alone keeps.
LEMMA SameFiles ==
    ASSUME Good, UNCHANGED <<file, epoll, pipe, mainpc, clientfd>>
    PROVE  OneOwner' /\ EpollOpen'
BY DEF Good, IInv, OneOwner, ClientFds, EpollOpen

\* What a step of no worker keeps of the workers' part.
LEMMA SameWorkers ==
    ASSUME Good, UNCHANGED workVars, \A w \in Workers : \A f \in epoll[w] : file'[f] = file[f]
    PROVE  EventsWatched' /\ BusyOwner' /\ EpollOpen'
BY DEF Good, IInv, workVars, EventsWatched, BusyOwner, EpollOpen, Busy

\* Every step of the main thread keeps the invariant: a number it takes is free,
\* so nobody holds it, and the one it writes to the pipe is held by it alone.
LEMMA MainIInv == Good /\ Main => IInv'
<1> SUFFICES ASSUME Good, Main PROVE IInv'
  OBVIOUS
<1> USE Distinct
<1>0. /\ file \in [Fds -> Socks \cup {Db, Closed}] /\ pipe \in Seq(Fds)
      /\ \A w \in Workers : \A f \in epoll[w] : f \in Fds /\ file[f] \in Socks
  BY DEF Good, TypeInv, TypeOK, IInv, EpollOpen
<1>1. CASE OpenDb
  <2>1. PICK g \in Fds : file[g] = Closed /\ file' = [file EXCEPT ![g] = Db]
    BY <1>1 DEF OpenDb, Lowest, FreeFds
  <2>2. ClientFds' = ClientFds
    BY <2>1, <1>0 DEF ClientFds
  <2>3. OneOwner'
    BY <2>2, <1>1 DEF OpenDb, workVars, Good, IInv, OneOwner
  <2>4. ServersStay'
    BY <2>1, <1>0, <1>1 DEF OpenDb, Good, IInv, ServersStay
  <2>5. EventsWatched' /\ BusyOwner' /\ EpollOpen'
    BY <2>1, <1>0, <1>1, SameWorkers DEF OpenDb
  <2>6. OwnPackets' /\ status' # "addEvent"
    BY <1>1 DEF OpenDb, workVars, Good, IInv, OwnPackets
  <2>7. QED
    BY <2>3, <2>4, <2>5, <2>6 DEF IInv
<1>2. CASE Accept
  <2>1. PICK g \in Fds : /\ file[g] = Closed /\ file' = [file EXCEPT ![g] = Head(backlog)]
                         /\ clientfd' = g
    BY <1>2 DEF Accept, Lowest, FreeFds
  <2>2. Head(backlog) \in Clients
    BY <1>2 DEF Accept, Good, TypeInv, TypeOK, LocalsOK
  <2>3. ClientFds' = ClientFds \cup {g} /\ g \notin ClientFds
    BY <2>1, <2>2, <1>0 DEF ClientFds
  <2>4. \A w \in Workers : g \notin epoll[w]
    BY <2>1, <1>0
  <2>5. OneOwner'
    BY <2>1, <2>3, <2>4, <1>2 DEF Accept, workVars, Good, IInv, OneOwner
  <2>6. ServersStay'
    BY <2>1, <2>2, <1>0, <1>2 DEF Accept, Good, IInv, ServersStay
  <2>7. EventsWatched' /\ BusyOwner' /\ EpollOpen'
    BY <2>1, <2>4, <1>0, <1>2, SameWorkers DEF Accept
  <2>8. OwnPackets' /\ status' # "addEvent"
    BY <1>2 DEF Accept, workVars, Good, IInv, OwnPackets
  <2>9. QED
    BY <2>5, <2>6, <2>7, <2>8 DEF IInv
<1>3. CASE OutOfFds
  <2>1. OneOwner' /\ EventsWatched' /\ BusyOwner' /\ EpollOpen'
    BY <1>3, SameFiles, SameWorkers DEF OutOfFds, kernelVars, mainVars, workVars
  <2>2. ServersStay' /\ OwnPackets' /\ status' # "addEvent"
    BY <1>3 DEF OutOfFds, kernelVars, workVars, Good, IInv, ServersStay, OwnPackets
  <2>3. QED
    BY <2>1, <2>2 DEF IInv
<1>4. CASE WritePipe
  <2>1. clientfd \in Fds
    BY <1>4 DEF WritePipe, Good, TypeInv, LocalsOK
  <2>2. /\ Len(pipe') = Len(pipe) + 1
        /\ \A i \in DOMAIN pipe' : IF i = Len(pipe) + 1 THEN pipe'[i] = clientfd
                                   ELSE i \in DOMAIN pipe /\ pipe'[i] = pipe[i]
    BY <1>0, <1>4, <2>1 DEF WritePipe
  <2>3. OneOwner'
    BY <1>4, <2>2 DEF WritePipe, workVars, Good, IInv, OneOwner, ClientFds
  <2>4. EventsWatched' /\ BusyOwner' /\ EpollOpen'
    BY <1>4, SameWorkers DEF WritePipe
  <2>5. ServersStay' /\ OwnPackets' /\ status' # "addEvent"
    BY <1>4 DEF WritePipe, workVars, Good, IInv, ServersStay, OwnPackets
  <2>6. QED
    BY <2>3, <2>4, <2>5 DEF IInv
<1>5. QED
  BY <1>1, <1>2, <1>3, <1>4 DEF Main

\* What a worker's step that only moves it on keeps; BusyOwner and OwnPackets
\* of that worker are left to the caller.
BusyOwnerOf(w) ==
    /\ pc[w] # "serverclose"
    /\ pc[w] \in Busy =>
          /\ fd[w] \in epoll[w] \ events[w]
          /\ sock[w] = file[fd[w]]
          /\ sock[w] \in Servers <=> pc[w] = "reply" \/ (pc[w] = "recv" /\ judge(fd[w]))
    /\ pc[w] = "purge" => fd[w] \notin epoll[w]

OwnMsgOf(w) ==
    pc[w] \in {"select", "bump", "send"} /\ msg[w] # NoMsg => msg[w].client = sock[w]

\* A step that moves one worker keeps what holds of it and the others apart.
LEMMA OneWorker ==
    ASSUME Good, NEW w \in Workers, UNCHANGED <<file, epoll>>,
           \A v \in Workers \ {w} : /\ pc'[v] = pc[v] /\ fd'[v] = fd[v] /\ sock'[v] = sock[v]
                                    /\ msg'[v] = msg[v] /\ events'[v] = events[v],
           BusyOwnerOf(w)', OwnMsgOf(w)'
    PROVE  /\ BusyOwner'
           /\ \A v \in Workers : OwnMsgOf(v)'
BY DEF Good, IInv, BusyOwner, OwnPackets, BusyOwnerOf, OwnMsgOf

\* A worker back in the loop holds nothing.
LEMMA LoopHolds ==
    ASSUME Good, NEW w \in Workers, Loop(w)
    PROVE  /\ \A v \in Workers \ {w} : /\ pc'[v] = pc[v] /\ fd'[v] = fd[v]
                                       /\ sock'[v] = sock[v] /\ msg'[v] = msg[v]
           /\ BusyOwnerOf(w)' /\ OwnMsgOf(w)'
           /\ pc'[w] = "loop"
BY DEF Good, TypeInv, TypeOK, Loop, BusyOwnerOf, OwnMsgOf, Busy

\* send() takes no server's connection down and ends the process by SIGPIPE only.
LEMMA SendToServers ==
    ASSUME Good, NEW f, NEW m, SendTo(f, m)
    PROVE  /\ \A s \in Servers : link'[s] \in {"up", "refused"}
           /\ status' # "addEvent"
<1> USE Distinct
<1>1. /\ \A s \in Servers : link[s] \in {"up", "refused"}
      /\ status # "addEvent" /\ link \in [Socks -> Links]
  BY DEF Good, TypeInv, TypeOK, IInv, ServersStay
<1>2. ASSUME NEW k \in Socks, link[k] \in {"up", "fin", "probed"},
             link' = [link EXCEPT ![k] = IF @ = "up" THEN @ ELSE "probed"], UNCHANGED status
      PROVE  (\A s \in Servers : link'[s] \in {"up", "refused"}) /\ status' # "addEvent"
  BY <1>1, <1>2
<1>3. ASSUME NEW k \in Socks, link[k] = "reset", link' = [link EXCEPT ![k] = "dead"],
             UNCHANGED status
      PROVE  (\A s \in Servers : link'[s] \in {"up", "refused"}) /\ status' # "addEvent"
  BY <1>1, <1>3
<1>4. QED
  BY <1>1, <1>2, <1>3 DEF SendTo

\* A worker that reads the pipe gets its first descriptor, and what stays in
\* the pipe was behind it.
LEMMA TakesFirst ==
    ASSUME Good, NoticesWhole, NEW w \in Workers, ReadPipe(w)
    PROVE  LET f == Head(pipe)
           IN  /\ f = pipe[1] /\ 1 \in DOMAIN pipe
               /\ f \in ClientFds /\ file[f] \in Clients /\ f \in Fds
               /\ \A v \in Workers : f \notin epoll[v]
               /\ status' = status
               /\ epoll' = [epoll EXCEPT ![w] = @ \cup {f}]
               /\ \A i \in DOMAIN pipe' : \E j \in DOMAIN pipe : j # 1 /\ pipe'[i] = pipe[j]
               /\ \A i, j \in DOMAIN pipe' : pipe'[i] = pipe'[j] => i = j
<1> DEFINE f == Head(pipe)
<1>0. pipe \in Seq(Fds) /\ OneOwner
  BY DEF Good, TypeInv, TypeOK, IInv
<1>1. PICK k \in DOMAIN pipe : pipe' = SubSeq(pipe, k + 1, Len(pipe))
  BY DEF ReadPipe, PipeRest
<1>2. f = pipe[1] /\ 1 \in DOMAIN pipe
  BY <1>0, <1>1
<1>3. f \in ClientFds /\ file[f] \in Clients /\ f \in Fds /\ \A v \in Workers : f \notin epoll[v]
  BY <1>0, <1>2 DEF OneOwner, ClientFds
<1>4. atoi = f
  BY DEF atoi, NoticesWhole
<1>5. FileOf(f) # Closed
  BY <1>3, Distinct DEF FileOf, Socks
<1> HIDE DEF f
<1>6. addEvent(w, f)
  BY <1>4 DEF ReadPipe
<1>7. status' = status /\ epoll' = [epoll EXCEPT ![w] = @ \cup {f}]
  BY <1>3, <1>5, <1>6 DEF addEvent
<1>8. \A i \in DOMAIN pipe' : /\ i \in Nat /\ k \in Nat /\ i + k \in DOMAIN pipe /\ i + k # 1
                              /\ pipe'[i] = pipe[i + k]
  BY <1>0, <1>1
<1>9. ASSUME NEW i \in DOMAIN pipe', NEW j \in DOMAIN pipe', pipe'[i] = pipe'[j] PROVE i = j
  <2>1. i + k = j + k
    BY <1>0, <1>8, <1>9 DEF OneOwner
  <2>2. QED
    BY <1>8, <2>1
<1>10. QED
  BY <1>2, <1>3, <1>7, <1>8, <1>9 DEF f

\* Every step of a worker keeps the invariant: it touches descriptors it watches,
\* and drops the number with the socket.
LEMMA WorkerIInv == ASSUME Good, NoticesWhole, NEW w \in Workers, Worker(w) PROVE IInv'
<1> USE Distinct
<1>0. /\ file \in [Fds -> Socks \cup {Db, Closed}] /\ pipe \in Seq(Fds)
      /\ link \in [Socks -> Links] /\ rx \in [Socks -> Seq(Packet)]
      /\ sock \in [Workers -> Socks \cup {Db, Closed}]
      /\ msg \in [Workers -> Packet \cup {NoMsg}]
      /\ fd \in [Workers -> Fds \cup {0, PipeFd}]
      /\ index \in [Workers -> Servers]
      /\ pc = [v \in Workers |-> pc[v]]
      /\ events = [v \in Workers |-> events[v]] /\ epoll = [v \in Workers |-> epoll[v]]
      /\ \A v \in Workers : \A f \in epoll[v] : f \in Fds /\ file[f] \in Socks
  BY DEF Good, TypeInv, TypeOK, IInv, EpollOpen
<1>a. /\ OneOwner /\ ServersStay /\ EventsWatched /\ BusyOwner /\ EpollOpen /\ OwnPackets
      /\ status # "addEvent"
      /\ BusyOwnerOf(w) /\ OwnMsgOf(w)
  BY DEF Good, IInv, BusyOwner, BusyOwnerOf, OwnPackets, OwnMsgOf
<1>1. CASE EpollWait(w)
  <2>1. OneOwner' /\ EpollOpen'
    BY <1>1, SameFiles DEF EpollWait, kernelVars, mainVars
  <2>2. EventsWatched'
    BY <1>0, <1>1, <1>a DEF EpollWait, ReadyFds, EventsWatched
  <2>3. BusyOwnerOf(w)' /\ OwnMsgOf(w)'
    BY <1>0, <1>1, <1>a DEF EpollWait, BusyOwnerOf, OwnMsgOf, Busy
  <2>4. BusyOwner' /\ \A v \in Workers : OwnMsgOf(v)'
    BY <1>0, <1>1, <2>3, OneWorker DEF EpollWait, kernelVars
  <2>5. ServersStay' /\ OwnPackets' /\ status' # "addEvent"
    BY <1>1, <1>a DEF EpollWait, kernelVars, ServersStay, OwnPackets
  <2>6. QED
    BY <2>1, <2>2, <2>4, <2>5 DEF IInv
<1>2. CASE NextEvent(w)
  <2>1. PICK f \in events[w] :
           /\ events' = [events EXCEPT ![w] = @ \ {f}]
           /\ IF f # PipeFd /\ FileOf(f) = Closed
              THEN UNCHANGED <<pc, fd, sock>>
              ELSE /\ fd' = [fd EXCEPT ![w] = f]
                   /\ sock' = [sock EXCEPT ![w] = FileOf(f)]
                   /\ pc' = [pc EXCEPT ![w] = IF f = PipeFd THEN "pipe" ELSE "recv"]
    BY <1>2 DEF NextEvent
  <2>2. f = PipeFd \/ (f # PipeFd /\ f \in epoll[w] /\ f \in Fds /\ FileOf(f) = file[f] /\ file[f] \in Socks)
    BY <1>0, <1>a DEF EventsWatched, FileOf
  <2>3. OneOwner' /\ EpollOpen'
    BY <1>2, SameFiles DEF NextEvent, kernelVars, mainVars
  <2>4. EventsWatched'
    BY <1>0, <1>2, <1>a, <2>1 DEF NextEvent, EventsWatched
  <2>5. f \in Fds => (file[f] \in Servers <=> judge(f))
    BY <1>a DEF ServersStay, judge
  <2>6. BusyOwnerOf(w)' /\ OwnMsgOf(w)'
    <3>1. CASE f = PipeFd
      BY <1>0, <1>2, <2>1, <3>1 DEF NextEvent, BusyOwnerOf, OwnMsgOf, Busy
    <3>2. CASE f # PipeFd
      <4>1. /\ pc'[w] = "recv" /\ fd'[w] = f /\ sock'[w] = file[f]
            /\ events'[w] = events[w] \ {f} /\ epoll' = epoll /\ file' = file
        BY <1>0, <1>2, <2>1, <2>2, <3>2 DEF NextEvent, kernelVars
      <4>2. QED
        BY <4>1, <2>2, <2>5, <3>2 DEF BusyOwnerOf, OwnMsgOf, Busy, judge
    <3>3. QED
      BY <3>1, <3>2
  <2>7. BusyOwner' /\ \A v \in Workers : OwnMsgOf(v)'
    BY <1>0, <1>2, <2>1, <2>6, OneWorker DEF NextEvent, kernelVars
  <2>8. ServersStay' /\ status' # "addEvent"
    BY <1>2, <1>a DEF NextEvent, kernelVars, ServersStay
  <2>9. OwnPackets'
    BY <1>2, <1>a, <2>7 DEF NextEvent, kernelVars, OwnPackets, OwnMsgOf
  <2>10. QED
    BY <2>3, <2>4, <2>7, <2>8, <2>9 DEF IInv
<1>3. CASE ReadPipe(w)
  <2> DEFINE f == Head(pipe)
  <2>1. /\ f \in ClientFds /\ file[f] \in Clients /\ f \in Fds
        /\ f = pipe[1] /\ 1 \in DOMAIN pipe
        /\ \A v \in Workers : f \notin epoll[v]
    BY <1>3, TakesFirst
  <2>2. status' = status /\ epoll' = [epoll EXCEPT ![w] = @ \cup {f}]
    BY <1>3, TakesFirst
  <2>3. /\ \A i \in DOMAIN pipe' : \E j \in DOMAIN pipe : j # 1 /\ pipe'[i] = pipe[j]
        /\ \A i, j \in DOMAIN pipe' : pipe'[i] = pipe'[j] => i = j
    BY <1>3, TakesFirst
  <2> HIDE DEF f
  <2>4. ClientFds' = ClientFds /\ file' = file
    BY <1>3 DEF ReadPipe, ClientFds
  <2>5. OneOwner'
    <3>1. /\ mainpc' = mainpc /\ clientfd' = clientfd
          /\ \A v \in Workers : epoll'[v] = IF v = w THEN epoll[v] \cup {f} ELSE epoll[v]
      BY <1>0, <1>3, <2>2 DEF ReadPipe, mainVars
    <3>2. \A i \in DOMAIN pipe' : /\ pipe'[i] \in ClientFds /\ pipe'[i] # f
                                  /\ \A v \in Workers : pipe'[i] \notin epoll[v]
      BY <1>a, <2>1, <2>3 DEF OneOwner
    <3>3. \A u, v \in Workers : u # v => epoll'[u] \cap epoll'[v] \cap ClientFds = {}
      <4>1. \A u, v \in Workers : u # v => epoll[u] \cap epoll[v] \cap ClientFds = {}
        BY <1>a DEF OneOwner
      <4>2. SUFFICES ASSUME NEW u \in Workers, NEW v \in Workers, u # v,
                            NEW x, x \in epoll'[u], x \in epoll'[v], x \in ClientFds
                     PROVE  FALSE
        OBVIOUS
      <4>3. x = f \/ x # f
        OBVIOUS
      <4>4. (x \in epoll[u] \/ (x = f /\ u = w)) /\ (x \in epoll[v] \/ (x = f /\ v = w))
        BY <3>1, <4>2
      <4>5. QED
        BY <2>1, <4>1, <4>2, <4>4
    <3>4. ASSUME mainpc = "write"
          PROVE  /\ clientfd \in ClientFds /\ clientfd # f
                 /\ \A i \in DOMAIN pipe' : pipe'[i] # clientfd
                 /\ \A v \in Workers : clientfd \notin epoll[v]
      <4>1. /\ clientfd \in ClientFds
            /\ \A i \in DOMAIN pipe : pipe[i] # clientfd
            /\ \A v \in Workers : clientfd \notin epoll[v]
        BY <1>a, <3>4 DEF OneOwner
      <4>2. QED
        BY <2>1, <2>3, <4>1
    <3>5. \A i \in DOMAIN pipe' : \A v \in Workers : pipe'[i] \notin epoll'[v]
      BY <3>1, <3>2
    <3>6. mainpc = "write" => \A v \in Workers : clientfd \notin epoll'[v]
      BY <3>1, <3>4
    <3>7. QED
      BY <2>3, <2>4, <3>1, <3>2, <3>3, <3>4, <3>5, <3>6 DEF OneOwner
  <2>6. EpollOpen' /\ EventsWatched'
    BY <1>0, <1>3, <1>a, <2>1, <2>2, <2>4 DEF ReadPipe, EpollOpen, EventsWatched
  <2>7. BusyOwner' /\ \A v \in Workers : OwnMsgOf(v)'
    <3>1. \A v \in Workers \ {w} : BusyOwnerOf(v)' /\ OwnMsgOf(v)'
      BY <1>0, <1>3, <1>a, <2>2, <2>4, LoopHolds
      DEF ReadPipe, BusyOwnerOf, OwnMsgOf, BusyOwner, OwnPackets
    <3>2. BusyOwnerOf(w)' /\ OwnMsgOf(w)'
      BY <1>3, LoopHolds DEF ReadPipe
    <3>3. QED
      BY <3>1, <3>2 DEF BusyOwner, BusyOwnerOf
  <2>8. ServersStay' /\ status' # "addEvent"
    BY <1>3, <1>a, <2>2 DEF ReadPipe, ServersStay
  <2>9. OwnPackets'
    BY <1>3, <1>a, <2>7 DEF ReadPipe, OwnPackets, OwnMsgOf
  <2>10. QED
    BY <2>5, <2>6, <2>7, <2>8, <2>9 DEF IInv

<1>4. CASE RecvData(w)
  <2>1. OneOwner' /\ EpollOpen'
    BY <1>4, SameFiles DEF RecvData, mainVars
  <2>2. /\ pc[w] = "recv" /\ fd' = fd /\ sock' = sock /\ events' = events
        /\ epoll' = epoll /\ file' = file
        /\ pc'[w] = IF judge(fd[w]) THEN "reply" ELSE "select"
        /\ msg'[w] = Head(rx[sock[w]])
    BY <1>0, <1>4 DEF RecvData
  <2>3. BusyOwnerOf(w)'
    BY <2>2, <1>a DEF BusyOwnerOf, Busy
  <2>4. OwnMsgOf(w)'
    <3>1. ~judge(fd[w]) => sock[w] \in Clients
      BY <1>4, <2>2, <1>a DEF RecvData, BusyOwnerOf, Busy, Socks
    <3>2. sock[w] \in Clients => Head(rx[sock[w]]).client = sock[w]
      BY <1>0, <1>4, <1>a DEF RecvData, OwnPackets
    <3>3. QED
      BY <2>2, <3>1, <3>2 DEF OwnMsgOf
  <2>5. BusyOwner' /\ \A v \in Workers : OwnMsgOf(v)'
    BY <1>0, <1>4, <2>3, <2>4, OneWorker DEF RecvData
  <2>6. \A c \in Clients : \A i \in DOMAIN rx'[c] : rx'[c][i].client = c
    <3> SUFFICES ASSUME NEW c \in Clients, NEW i \in DOMAIN rx'[c]
                 PROVE  rx'[c][i].client = c
      OBVIOUS
    <3>1. DOMAIN << >> = {}
      OBVIOUS
    <3>2. rx'[c] = IF c = sock[w] THEN << >> ELSE rx[c]
      BY <1>0, <1>4 DEF RecvData
    <3>3. QED
      BY <3>1, <3>2, <1>a DEF OwnPackets
  <2>7. OwnPackets'
    BY <2>5, <2>6 DEF OwnPackets, OwnMsgOf
  <2>8. ServersStay' /\ EventsWatched' /\ status' # "addEvent"
    BY <1>4, <1>a DEF RecvData, ServersStay, EventsWatched
  <2>9. QED
    BY <2>1, <2>5, <2>7, <2>8 DEF IInv
<1>5. CASE RecvEof(w)
  <2>1. OneOwner' /\ EpollOpen'
    BY <1>5, SameFiles DEF RecvEof, kernelVars, mainVars
  <2>2. /\ pc[w] = "recv" /\ fd' = fd /\ sock' = sock /\ events' = events
        /\ epoll' = epoll /\ file' = file
        /\ pc'[w] = IF judge(fd[w]) THEN "serverclose" ELSE "select"
        /\ msg'[w] = NoMsg /\ link[sock[w]] \in {"fin", "probed", "dead"}
    BY <1>0, <1>5 DEF RecvEof, kernelVars
  <2>3. sock[w] \notin Servers
    BY <2>2, <1>a DEF ServersStay
  <2>4. ~judge(fd[w])
    BY <2>2, <2>3, <1>a DEF BusyOwnerOf, Busy
  <2>5. BusyOwnerOf(w)' /\ OwnMsgOf(w)'
    BY <2>2, <2>3, <2>4, <1>a DEF BusyOwnerOf, OwnMsgOf, Busy
  <2>6. BusyOwner' /\ \A v \in Workers : OwnMsgOf(v)'
    BY <1>0, <1>5, <2>5, OneWorker DEF RecvEof, kernelVars
  <2>7. ServersStay' /\ EventsWatched' /\ status' # "addEvent"
    BY <1>5, <1>a DEF RecvEof, kernelVars, ServersStay, EventsWatched
  <2>8. OwnPackets'
    BY <1>5, <1>a, <2>6 DEF RecvEof, kernelVars, OwnPackets, OwnMsgOf
  <2>9. QED
    BY <2>1, <2>6, <2>7, <2>8 DEF IInv
<1>6. CASE RecvError(w)
  <2>1. OneOwner' /\ EpollOpen'
    BY <1>6, SameFiles DEF RecvError, mainVars
  <2>2. BusyOwner' /\ \A v \in Workers : OwnMsgOf(v)'
    BY <1>6, LoopHolds, OneWorker DEF RecvError
  <2>3. ServersStay'
    BY <1>0, <1>6, <1>a DEF RecvError, ServersStay
  <2>4. EventsWatched' /\ status' # "addEvent"
    BY <1>6, <1>a DEF RecvError, EventsWatched
  <2>5. OwnPackets'
    BY <1>6, <1>a, <2>2 DEF RecvError, OwnPackets, OwnMsgOf
  <2>6. QED
    BY <2>1, <2>2, <2>3, <2>4, <2>5 DEF IInv
<1>7. CASE SelectServer(w)
  <2>1. OneOwner' /\ EpollOpen'
    BY <1>7, SameFiles DEF SelectServer, kernelVars, mainVars
  <2>2. /\ pc[w] = "select" /\ fd' = fd /\ sock' = sock /\ events' = events /\ msg' = msg
        /\ epoll' = epoll /\ file' = file
        /\ pc'[w] \in {"bump", AfterSelect(w)}
        /\ \A v \in Workers \ {w} : pc'[v] = pc[v]
    BY <1>0, <1>7 DEF SelectServer, kernelVars
  <2>3. AfterSelect(w) \in {"send", "close"}
    BY DEF AfterSelect
  <2>4. BusyOwnerOf(w)' /\ OwnMsgOf(w)'
    BY <2>2, <2>3, <1>a DEF BusyOwnerOf, OwnMsgOf, Busy
  <2>5. BusyOwner' /\ \A v \in Workers : OwnMsgOf(v)'
    BY <2>2, <2>4, OneWorker
  <2>6. ServersStay' /\ EventsWatched' /\ status' # "addEvent"
    BY <1>7, <1>a DEF SelectServer, kernelVars, ServersStay, EventsWatched
  <2>7. OwnPackets'
    BY <1>7, <1>a, <2>5 DEF SelectServer, kernelVars, OwnPackets, OwnMsgOf
  <2>8. QED
    BY <2>1, <2>5, <2>6, <2>7 DEF IInv
<1>8. CASE BumpTag(w)
  <2>1. OneOwner' /\ EpollOpen'
    BY <1>8, SameFiles DEF BumpTag, kernelVars, mainVars
  <2>2. /\ pc[w] = "bump" /\ fd' = fd /\ sock' = sock /\ events' = events /\ msg' = msg
        /\ epoll' = epoll /\ file' = file
        /\ pc'[w] = AfterSelect(w)
        /\ \A v \in Workers \ {w} : pc'[v] = pc[v]
    BY <1>0, <1>8 DEF BumpTag, kernelVars
  <2>3. AfterSelect(w) \in {"send", "close"}
    BY DEF AfterSelect
  <2>4. BusyOwnerOf(w)' /\ OwnMsgOf(w)'
    BY <2>2, <2>3, <1>a DEF BusyOwnerOf, OwnMsgOf, Busy
  <2>5. BusyOwner' /\ \A v \in Workers : OwnMsgOf(v)'
    BY <2>2, <2>4, OneWorker
  <2>6. ServersStay' /\ EventsWatched' /\ status' # "addEvent"
    BY <1>8, <1>a DEF BumpTag, kernelVars, ServersStay, EventsWatched
  <2>7. OwnPackets'
    BY <1>8, <1>a, <2>5 DEF BumpTag, kernelVars, OwnPackets, OwnMsgOf
  <2>8. QED
    BY <2>1, <2>5, <2>6, <2>7 DEF IInv
<1>9. ASSUME NEW f, NEW m, SendTo(f, m), Loop(w),
             UNCHANGED <<file, rx, backlog, pipe, envVars, mainVars,
                         events, epoll, acceptCientNum, tag>>
      PROVE  IInv'
  <2>1. OneOwner' /\ EpollOpen'
    BY <1>9, SameFiles DEF mainVars
  <2>2. BusyOwner' /\ \A v \in Workers : OwnMsgOf(v)'
    BY <1>9, LoopHolds, OneWorker
  <2>3. ServersStay' /\ status' # "addEvent"
    BY <1>9, <1>a, SendToServers DEF ServersStay
  <2>4. EventsWatched'
    BY <1>9, <1>a DEF EventsWatched
  <2>5. OwnPackets'
    BY <1>9, <1>a, <2>2 DEF OwnPackets, OwnMsgOf
  <2>6. QED
    BY <2>1, <2>2, <2>3, <2>4, <2>5 DEF IInv
<1>10. CASE Forward(w)
  BY <1>9, <1>10 DEF Forward
<1>11. CASE Reply(w)
  BY <1>9, <1>11 DEF Reply
<1>12. CASE CloseClient(w)
  <2> DEFINE f == fd[w]
  <2>1. /\ pc[w] = "close" /\ f \in epoll[w] /\ f \notin events[w] /\ f \in Fds
        /\ file[f] = sock[w] /\ sock[w] \in Clients /\ f \in ClientFds /\ f # PipeFd
    BY <1>0, <1>12, <1>a DEF CloseClient, BusyOwnerOf, Busy, Socks, ClientFds
  <2>2. /\ file' = [file EXCEPT ![f] = Closed]
        /\ \A v \in Workers : epoll'[v] = epoll[v] \ {f}
    BY <1>0, <1>12 DEF CloseClient, CloseFd
  <2>3. \A v \in Workers \ {w} : f \notin epoll[v]
    BY <2>1, <1>a DEF OneOwner
  <2>4. ClientFds' = ClientFds \ {f}
    BY <1>0, <2>1, <2>2 DEF ClientFds
  <2>5. /\ pc' = [pc EXCEPT ![w] = "purge"] /\ fd' = fd /\ sock' = sock /\ msg' = msg
        /\ events' = events /\ pipe' = pipe /\ mainpc' = mainpc /\ clientfd' = clientfd
        /\ link' = link /\ rx' = rx /\ status' = status
    BY <1>12 DEF CloseClient, mainVars
  <2> HIDE DEF f
  <2>6. OneOwner'
    BY <1>a, <2>1, <2>2, <2>4, <2>5 DEF OneOwner
  <2>7. EpollOpen'
    BY <1>0, <2>2 DEF EpollOpen
  <2>8. EventsWatched'
    BY <1>a, <2>1, <2>2, <2>3, <2>5 DEF EventsWatched
  <2>9. BusyOwnerOf(w)' /\ OwnMsgOf(w)'
    BY <1>0, <2>2, <2>5 DEF BusyOwnerOf, OwnMsgOf, Busy, f
  <2>10. \A v \in Workers \ {w} : BusyOwnerOf(v)' /\ OwnMsgOf(v)'
    <3> SUFFICES ASSUME NEW v \in Workers \ {w} PROVE BusyOwnerOf(v)' /\ OwnMsgOf(v)'
      OBVIOUS
    <3>1. /\ pc'[v] = pc[v] /\ epoll'[v] = epoll[v]
          /\ \A g \in epoll[v] : file'[g] = file[g]
      <4>1. epoll[v] \ {f} = epoll[v]
        BY <2>3
      <4>2. epoll'[v] = epoll[v]
        BY <2>2, <4>1
      <4>3. \A g \in epoll[v] : g # f /\ g \in Fds
        BY <1>0, <2>3
      <4>4. \A g \in epoll[v] : file'[g] = file[g]
        BY <1>0, <2>2, <4>3
      <4>5. pc'[v] = pc[v]
        BY <1>0, <2>5
      <4>6. QED
        BY <4>2, <4>4, <4>5
    <3>2. BusyOwnerOf(v) /\ OwnMsgOf(v)
      BY <1>a DEF BusyOwner, BusyOwnerOf, OwnPackets, OwnMsgOf
    <3>3. QED
      BY <3>1, <3>2, <2>5 DEF BusyOwnerOf, OwnMsgOf
  <2>11. BusyOwner'
    BY <2>9, <2>10 DEF BusyOwner, BusyOwnerOf
  <2>12. OwnPackets'
    BY <1>a, <2>5, <2>9, <2>10 DEF OwnPackets, OwnMsgOf
  <2>13. ServersStay' /\ status' # "addEvent"
    BY <1>0, <1>a, <2>1, <2>2, <2>5 DEF ServersStay
  <2>14. QED
    BY <2>6, <2>7, <2>8, <2>11, <2>12, <2>13 DEF IInv
<1>13. CASE Purge(w)
  <2>1. fd[w] \notin epoll[w]
    BY <1>13, <1>a DEF Purge, BusyOwnerOf
  <2>2. epoll' = epoll
    <3>1. epoll[w] \ {fd[w]} = epoll[w]
      BY <2>1
    <3>2. epoll' = [epoll EXCEPT ![w] = epoll[w] \ {fd[w]}]
      BY <1>13 DEF Purge
    <3>3. QED
      BY <1>0, <3>1, <3>2
  <2>3. OneOwner' /\ EpollOpen'
    BY <1>13, <2>2, SameFiles DEF Purge, kernelVars, mainVars
  <2>4. BusyOwner' /\ \A v \in Workers : OwnMsgOf(v)'
    BY <1>13, <2>2, LoopHolds, OneWorker DEF Purge, kernelVars
  <2>5. ServersStay' /\ EventsWatched' /\ status' # "addEvent"
    BY <1>13, <1>a, <2>2 DEF Purge, kernelVars, ServersStay, EventsWatched
  <2>6. OwnPackets'
    BY <1>13, <1>a, <2>4 DEF Purge, kernelVars, OwnPackets, OwnMsgOf
  <2>7. QED
    BY <2>3, <2>4, <2>5, <2>6 DEF IInv
<1>14. ~CloseServer(w)
  BY <1>a DEF CloseServer, BusyOwnerOf
<1>15. CASE LookupNull(w)
  <2>1. OneOwner' /\ EventsWatched' /\ BusyOwner' /\ EpollOpen'
    BY <1>15, SameFiles, SameWorkers DEF LookupNull, kernelVars, mainVars, workVars
  <2>2. ServersStay' /\ OwnPackets' /\ status' # "addEvent"
    BY <1>15, <1>a DEF LookupNull, kernelVars, workVars, ServersStay, OwnPackets
  <2>3. QED
    BY <2>1, <2>2 DEF IInv
<1>16. QED
  BY <1>1, <1>2, <1>3, <1>4, <1>5, <1>6, <1>7, <1>8, <1>10, <1>11, <1>12, <1>13, <1>14, <1>15
  DEF Worker

\* Clients and servers cannot disturb it: they change no descriptor.
LEMMA EnvironmentIInv == Good /\ Environment => IInv'
<1> SUFFICES ASSUME Good, Environment PROVE IInv'
  OBVIOUS
<1> USE Distinct
<1>0. /\ link \in [Socks -> Links] /\ rx \in [Socks -> Seq(Packet)]
      /\ OneOwner /\ ServersStay /\ EventsWatched /\ BusyOwner /\ EpollOpen /\ OwnPackets
      /\ status # "addEvent" /\ ServersKeep
  BY DEF Good, TypeInv, TypeOK, IInv
<1>1. ASSUME UNCHANGED <<file, pipe, mainVars, workVars, status>>,
             \A s \in Servers : link'[s] \in {"up", "refused"},
             \A c \in Clients : \A i \in DOMAIN rx'[c] : rx'[c][i].client = c
      PROVE  IInv'
  <2>1. OneOwner' /\ EventsWatched' /\ BusyOwner' /\ EpollOpen'
    BY <1>1, SameFiles, SameWorkers DEF mainVars, workVars
  <2>2. ServersStay' /\ OwnPackets' /\ status' # "addEvent"
    BY <1>0, <1>1 DEF workVars, ServersStay, OwnPackets
  <2>3. QED
    BY <2>1, <2>2 DEF IInv
<1>2. ASSUME NEW k \in Socks \ Servers, NEW l, link' = [link EXCEPT ![k] = l],
             UNCHANGED <<file, pipe, rx, mainVars, workVars, status>>
      PROVE  IInv'
  BY <1>0, <1>1, <1>2 DEF ServersStay, OwnPackets
<1>3. ASSUME NEW c \in Clients, ClientConnect(c) PROVE IInv'
  BY <1>2, <1>3 DEF ClientConnect
<1>4. ASSUME NEW c \in Clients, ClientSend(c) PROVE IInv'
  <2> DEFINE m == [client |-> c, n |-> sent[c] + 1, fd |-> 0]
  <2>1. rx' = [rx EXCEPT ![c] = Append(rx[c], m)]
    BY <1>4 DEF ClientSend
  <2>2. m.client = c
    OBVIOUS
  <2> HIDE DEF m
  <2>3. ASSUME NEW d \in Clients, NEW i \in DOMAIN rx'[d]
        PROVE  rx'[d][i].client = d
    <3>1. CASE d = c
      <4>1. rx'[d] = Append(rx[c], m) /\ rx[c] \in Seq(Packet)
        BY <1>0, <2>1, <3>1
      <4>2. IF i = Len(rx[c]) + 1 THEN rx'[d][i] = m
            ELSE i \in DOMAIN rx[c] /\ rx'[d][i] = rx[c][i]
        BY <2>3, <4>1
      <4>3. QED
        BY <1>0, <2>2, <3>1, <4>2 DEF OwnPackets
    <3>2. CASE d # c
      BY <1>0, <2>1, <2>3, <3>2 DEF OwnPackets
    <3>3. QED
      BY <3>1, <3>2
  <2>4. QED
    BY <1>0, <1>1, <1>4, <2>3 DEF ClientSend, ServersStay
<1>5. ASSUME NEW k \in Socks, HangUp(k) PROVE IInv'
  <2>1. k \notin Servers
    BY <1>0, <1>5 DEF HangUp, ServersKeep
  <2>2. PICK l : link' = [link EXCEPT ![k] = l]
    BY <1>5 DEF HangUp
  <2>3. QED
    BY <1>2, <1>5, <2>1, <2>2 DEF HangUp
<1>6. ASSUME NEW k \in Socks, Probed(k) PROVE IInv'
  <2>1. k \notin Servers
    BY <1>0, <1>6 DEF Probed, ServersStay
  <2>2. QED
    BY <1>2, <1>6, <2>1 DEF Probed
<1>7. ASSUME NEW s \in Servers, NEW c, NEW f, ServerSends(s, c, f) PROVE IInv'
  <2>1. \A d \in Clients : rx'[d] = rx[d]
    BY <1>0, <1>7 DEF ServerSends
  <2>2. QED
    BY <1>0, <1>1, <1>7, <2>1 DEF ServerSends, ServersStay, OwnPackets
<1>8. ASSUME NEW s \in Servers, ServerAck(s) PROVE IInv'
  BY <1>7, <1>8 DEF ServerAck
<1>9. ASSUME NEW s \in Servers, ServerChat(s) PROVE IInv'
  BY <1>7, <1>9 DEF ServerChat
<1>10. QED
  BY <1>3, <1>4, <1>5, <1>6, <1>8, <1>9 DEF Environment

\* Types and invariant together are inductive.
LEMMA GoodStep == Good /\ NoticesWhole /\ [Next]_vars => Good'
<1> SUFFICES ASSUME Good, NoticesWhole, [Next]_vars PROVE Good'
  OBVIOUS
<1>1. TypeInv'
  BY TypeStep DEF Good
<1>2. IInv'
  <2>1. CASE Next
    BY <2>1, MainIInv, WorkerIInv, EnvironmentIInv DEF Next
  <2>2. CASE UNCHANGED vars
    BY <2>2, SameFiles, SameWorkers
    DEF vars, kernelVars, mainVars, workVars, Good, IInv, ServersStay, OwnPackets
  <2>3. QED
    BY <2>1, <2>2
<1>3. QED
  BY <1>1, <1>2 DEF Good, ServersKeep

\* They hold in every behaviour.
LEMMA GoodInvariant == ASSUME ServersKeep PROVE Spec /\ []NoticesWhole => []Good
<1>1. Init => Good
  BY TypeInit, IInvInit DEF Good
<1>2. QED
  BY <1>1, GoodStep, PTL DEF Spec

\* What a worker is about to do with a descriptor agrees with its books, and
\* the files behind the numbers are those it called on (IInv).
THEOREM BooksAgree == ASSUME ServersKeep PROVE Spec /\ []NoticesWhole => []IInv
<1>1. Good => IInv
  BY DEF Good
<1>2. QED
  BY <1>1, GoodInvariant, PTL

\* Every descriptor of a client is with the main thread, in the pipe, or with
\* one worker, for any number of each (OneOwner).
THEOREM ClientHasOneOwner == ASSUME ServersKeep PROVE Spec /\ []NoticesWhole => []OneOwner
<1>1. Good => OneOwner
  BY DEF Good, IInv
<1>2. QED
  BY <1>1, GoodInvariant, PTL

-----------------------------------------------------------------------------
\* What send() appends, and to whom.
LEMMA SendToAppends ==
    ASSUME Good, NEW f, NEW m \in Packet, SendTo(f, m)
    PROVE  \A k \in Socks : \/ tx'[k] = tx[k]
                            \/ FileOf(f) = k /\ tx'[k] = Append(tx[k], m)
BY DEF Good, TypeInv, TypeOK, SendTo

\* A sequence and one more element.
LEMMA Appended ==
    ASSUME NEW q \in Seq(Packet), NEW m \in Packet
    PROVE  /\ Len(Append(q, m)) = Len(q) + 1
           /\ Append(q, m)[Len(q) + 1] = m
           /\ \A i \in DOMAIN Append(q, m) :
                 \/ i = Len(q) + 1 /\ Append(q, m)[i] = m
                 \/ i \in DOMAIN q /\ Append(q, m)[i] = q[i]
OBVIOUS

\* A packet without a descriptor names no server.
LEMMA ZeroNamesNobody == ~judge(0)
BY ServerFds, Distinct DEF judge

\* The descriptor a worker stamps is a client's.
LEMMA StampNamesClient ==
    ASSUME Good, NEW w \in Workers, pc[w] = "send"
    PROVE  /\ msg[w] \in Packet /\ fd[w] \in Fds
           /\ ~judge(fd[w]) /\ sock[w] \in Clients /\ file[fd[w]] = sock[w]
           /\ msg[w].client = sock[w]
<1> USE Distinct
<1>1. msg[w] \in Packet /\ fd[w] \in Fds
  BY DEF Good, TypeInv, LocalsOK, HasFd
<1>2. msg[w] # NoMsg
  BY <1>1, PacketAssumption
<1>3. sock[w] = file[fd[w]] /\ sock[w] \notin Servers /\ fd[w] \in epoll[w]
  BY DEF Good, IInv, BusyOwner, Busy
<1>4. sock[w] \in Clients
  BY <1>3 DEF Good, IInv, EpollOpen, Socks
<1>5. ~judge(fd[w])
  BY <1>1, <1>3 DEF Good, IInv, ServersStay, judge
<1>6. msg[w].client = sock[w]
  BY <1>2 DEF Good, IInv, OwnPackets
<1>7. QED
  BY <1>1, <1>3, <1>4, <1>5, <1>6

\* Going back to the loop leaves other workers' messages alone.
LEMMA LoopMsg ==
    ASSUME Good, FdsNameClients, NEW w \in Workers, Loop(w)
    PROVE  \A v \in Workers : msg'[v] # NoMsg => ~judge(msg'[v].fd)
BY DEF Good, TypeInv, TypeOK, Loop, FdsNameClients

\* No step of a worker puts a server's descriptor into a packet: the one it
\* stamps is a client's.
LEMMA WorkerNames ==
    ASSUME Good, FdsNameClients, NEW w \in Workers, Worker(w) PROVE FdsNameClients'
<1>0. /\ rx \in [Socks -> Seq(Packet)] /\ tx \in [Socks -> Seq(Packet)]
      /\ msg \in [Workers -> Packet \cup {NoMsg}]
  BY DEF Good, TypeInv, TypeOK
<1>1. ASSUME UNCHANGED <<rx, tx, online, msg>> PROVE FdsNameClients'
  BY <1>1 DEF FdsNameClients, judge
<1>2. ASSUME UNCHANGED <<rx, tx>>, online' \subseteq online, Loop(w) PROVE FdsNameClients'
  BY <1>2, LoopMsg DEF FdsNameClients
<1>3. CASE RecvData(w)
  <2>1. rx[sock[w]] \in Seq(Packet) /\ rx[sock[w]] # << >> /\ sock[w] \in Socks
    BY <1>0, <1>3 DEF RecvData
  <2>2. Head(rx[sock[w]]) = rx[sock[w]][1] /\ 1 \in DOMAIN rx[sock[w]]
    BY <2>1
  <2>3. ~judge(Head(rx[sock[w]]).fd)
    BY <2>1, <2>2 DEF FdsNameClients
  <2>4. \A v \in Workers : msg'[v] # NoMsg => ~judge(msg'[v].fd)
    BY <1>0, <1>3, <2>3 DEF RecvData, FdsNameClients
  <2>5. \A k \in Socks : \A i \in DOMAIN rx'[k] : ~judge(rx'[k][i].fd)
    <3> SUFFICES ASSUME NEW k \in Socks, NEW i \in DOMAIN rx'[k] PROVE ~judge(rx'[k][i].fd)
      OBVIOUS
    <3>1. DOMAIN << >> = {}
      OBVIOUS
    <3>2. rx'[k] = IF k = sock[w] THEN << >> ELSE rx[k]
      BY <1>0, <1>3 DEF RecvData
    <3>3. QED
      BY <3>1, <3>2 DEF FdsNameClients
  <2>6. QED
    BY <1>3, <2>4, <2>5 DEF RecvData, FdsNameClients, envVars
<1>4. CASE RecvEof(w)
  BY <1>0, <1>4 DEF RecvEof, kernelVars, envVars, FdsNameClients
<1>5. ASSUME NEW f, NEW m \in Packet, ~judge(m.fd), SendTo(f, m), Loop(w), UNCHANGED <<rx, online>>
      PROVE  FdsNameClients'
  <2>1. ASSUME NEW k \in Socks, NEW i \in DOMAIN tx'[k] PROVE ~judge(tx'[k][i].fd)
    <3>1. CASE tx'[k] = tx[k]
      BY <2>1, <3>1 DEF FdsNameClients
    <3>2. CASE tx'[k] = Append(tx[k], m)
      <4>1. tx[k] \in Seq(Packet)
        BY <1>0
      <4>2. tx'[k][i] = m \/ (i \in DOMAIN tx[k] /\ tx'[k][i] = tx[k][i])
        BY <2>1, <3>2, <4>1, Appended
      <4>3. QED
        BY <1>5, <4>2 DEF FdsNameClients
    <3>3. QED
      BY <1>5, <3>1, <3>2, SendToAppends
  <2>2. QED
    BY <1>5, <2>1, LoopMsg DEF FdsNameClients
<1>6. CASE Forward(w)
  <2>1. Stamped(w) \in Packet /\ Stamped(w).fd = fd[w] /\ ~judge(fd[w])
    BY <1>6, StampNamesClient, StampedPacket DEF Forward
  <2>2. QED
    BY <1>5, <1>6, <2>1 DEF Forward, envVars
<1>7. CASE Reply(w)
  <2>1. msg[w] \in Packet
    BY <1>7 DEF Reply, Good, TypeInv, LocalsOK
  <2>2. ~judge(msg[w].fd)
    BY <2>1, PacketAssumption DEF FdsNameClients
  <2>3. QED
    BY <1>5, <1>7, <2>1, <2>2 DEF Reply, envVars
<1>8. CASE Purge(w)
  BY <1>2, <1>8 DEF Purge, kernelVars
<1>9. CASE ReadPipe(w) \/ RecvError(w) \/ CloseServer(w)
  BY <1>2, <1>9 DEF ReadPipe, RecvError, CloseServer, envVars
<1>10. CASE \/ EpollWait(w) \/ NextEvent(w) \/ SelectServer(w) \/ LookupNull(w)
           \/ BumpTag(w) \/ CloseClient(w)
  BY <1>1, <1>10 DEF EpollWait, NextEvent, SelectServer, LookupNull, BumpTag, CloseClient,
                     kernelVars, envVars, workVars
<1>11. QED
  BY <1>3, <1>4, <1>6, <1>7, <1>8, <1>9, <1>10 DEF Worker

\* Servers only copy descriptors that they were sent.
LEMMA EnvironmentNames == Good /\ FdsNameClients /\ Environment => FdsNameClients'
<1> SUFFICES ASSUME Good, FdsNameClients, Environment PROVE FdsNameClients'
  OBVIOUS
<1>0. rx \in [Socks -> Seq(Packet)] /\ tx \in [Socks -> Seq(Packet)] /\ handled \in [Servers -> Nat]
  BY DEF Good, TypeInv, TypeOK
<1>1. ASSUME UNCHANGED <<rx, tx, online, msg>> PROVE FdsNameClients'
  BY <1>1 DEF FdsNameClients
<1>2. ASSUME NEW k \in Socks, NEW m \in Packet, ~judge(m.fd), rx' = [rx EXCEPT ![k] = Append(@, m)],
             UNCHANGED <<tx, msg>>, \A row \in online' : ~judge(row[2])
      PROVE  FdsNameClients'
  <2>1. ASSUME NEW j \in Socks, NEW i \in DOMAIN rx'[j] PROVE ~judge(rx'[j][i].fd)
    <3>1. CASE j # k
      BY <1>0, <1>2, <2>1, <3>1 DEF FdsNameClients
    <3>2. CASE j = k
      <4>1. rx'[j] = Append(rx[k], m) /\ rx[k] \in Seq(Packet)
        BY <1>0, <1>2, <3>2
      <4>2. rx'[j][i] = m \/ (i \in DOMAIN rx[k] /\ rx'[j][i] = rx[k][i])
        BY <2>1, <4>1, Appended
      <4>3. QED
        BY <1>2, <4>2 DEF FdsNameClients
    <3>3. QED
      BY <3>1, <3>2
  <2>2. QED
    BY <1>2, <2>1 DEF FdsNameClients
<1>3. ASSUME NEW c \in Clients, ClientConnect(c) \/ HangUp(c) \/ Probed(c) PROVE FdsNameClients'
  BY <1>1, <1>3 DEF ClientConnect, HangUp, Probed, envVars, workVars
<1>4. ASSUME NEW k \in Socks, HangUp(k) \/ Probed(k) PROVE FdsNameClients'
  BY <1>1, <1>4 DEF HangUp, Probed, envVars, workVars
<1>5. ASSUME NEW c \in Clients, ClientSend(c) PROVE FdsNameClients'
  <2> DEFINE m == [client |-> c, n |-> sent[c] + 1, fd |-> 0]
  <2>1. m \in Packet
    BY <1>5, ConstAssumption DEF ClientSend, Packet, Good, TypeInv, TypeOK
  <2>2. ~judge(m.fd)
    BY ZeroNamesNobody
  <2>3. rx' = [rx EXCEPT ![c] = Append(@, m)] /\ UNCHANGED <<tx, msg, online>>
    BY <1>5 DEF ClientSend, workVars
  <2> HIDE DEF m
  <2>4. QED
    BY <1>2, <2>1, <2>2, <2>3, Distinct DEF FdsNameClients
<1>6. ASSUME NEW s \in Servers, NEW c \in Clients, NEW f \in Fds \cup {0}, ~judge(f),
             ServerSends(s, c, f), \A row \in online' : ~judge(row[2])
      PROVE  FdsNameClients'
  <2> DEFINE m == [client |-> c, n |-> 0, fd |-> f]
  <2>1. m \in Packet
    BY ConstAssumption DEF Packet
  <2>2. ~judge(m.fd)
    BY <1>6
  <2>3. rx' = [rx EXCEPT ![s] = Append(@, m)] /\ UNCHANGED <<tx, msg>>
    BY <1>6 DEF ServerSends, workVars
  <2> HIDE DEF m
  <2>4. QED
    BY <1>2, <1>6, <2>1, <2>2, <2>3, Distinct
<1>7. ASSUME NEW s \in Servers, ServerAck(s) PROVE FdsNameClients'
  <2> DEFINE req == tx[s][handled[s] + 1]
  <2>1. PICK upto \in 1..Len(tx[s]) :
           /\ ServerTakes(s, upto)
           /\ ServerSends(s, req.client, req.fd)
           /\ online' \in {online, online \cup {<<req.client, req.fd>>}}
    BY <1>7 DEF ServerAck
  <2>2. tx[s] \in Seq(Packet) /\ handled[s] \in Nat
    BY <1>0, Distinct
  <2>3. handled[s] + 1 \in DOMAIN tx[s]
    BY <2>1, <2>2 DEF ServerTakes
  <2>4. req \in Packet /\ ~judge(req.fd)
    BY <2>2, <2>3, Distinct DEF FdsNameClients
  <2>5. req.client \in Clients /\ req.fd \in Fds \cup {0}
    BY <2>4 DEF Packet
  <2> HIDE DEF req
  <2>6. \A row \in online' : ~judge(row[2])
    BY <2>1, <2>4 DEF FdsNameClients
  <2>7. QED
    BY <1>6, <2>1, <2>4, <2>5, <2>6
<1>8. ASSUME NEW s \in Servers, ServerChat(s) PROVE FdsNameClients'
  <2>1. PICK row \in online : ServerSends(s, row[1], row[2]) /\ UNCHANGED online
    BY <1>8 DEF ServerChat
  <2>2. row[1] \in Clients /\ row[2] \in Fds \cup {0} /\ ~judge(row[2])
    BY DEF Good, TypeInv, TypeOK, FdsNameClients
  <2>3. QED
    BY <1>6, <2>1, <2>2 DEF FdsNameClients
<1>9. QED
  BY <1>3, <1>4, <1>5, <1>7, <1>8 DEF Environment

Named == Good /\ FdsNameClients

\* Nothing names a descriptor at first.
LEMMA NamedInit == ASSUME ServersKeep PROVE Init => Named
<1> SUFFICES ASSUME Init PROVE Named
  OBVIOUS
<1>1. FdsNameClients
  BY DEF Init, FdsNameClients
<1>2. QED
  BY <1>1, TypeInit, IInvInit DEF Named, Good

\* Every step keeps it.
LEMMA NamedStep == Named /\ NoticesWhole /\ [Next]_vars => Named'
<1> SUFFICES ASSUME Named, NoticesWhole, [Next]_vars PROVE Named'
  OBVIOUS
<1>1. Good'
  BY GoodStep DEF Named
<1>2. ASSUME Main PROVE FdsNameClients'
  BY <1>2 DEF Main, OpenDb, Accept, OutOfFds, WritePipe, kernelVars, envVars, workVars,
              Named, FdsNameClients
<1>3. ASSUME UNCHANGED vars PROVE FdsNameClients'
  BY <1>3 DEF vars, kernelVars, envVars, workVars, Named, FdsNameClients
<1>4. FdsNameClients'
  BY <1>2, <1>3, WorkerNames, EnvironmentNames DEF Next, Named
<1>5. QED
  BY <1>1, <1>4 DEF Named

\* It holds in every behaviour.
LEMMA NamedInvariant == ASSUME ServersKeep PROVE Spec /\ []NoticesWhole => []Named
BY NamedInit, NamedStep, PTL DEF Spec

\* No reply is ever sent to a server (FdsNameClients).
THEOREM RepliesNameClients == ASSUME ServersKeep PROVE Spec /\ []NoticesWhole => []FdsNameClients
<1>1. Named => FdsNameClients
  BY DEF Named
<1>2. QED
  BY <1>1, NamedInvariant, PTL

\* The step behind StampFaithful.
Stamps == \A s \in Servers : Len(tx'[s]) > Len(tx[s]) =>
             LET m == tx'[s][Len(tx'[s])] IN FileOf(m.fd) = m.client

\* Every step that adds to what a server receives is a Forward, whose stamp is
\* right; a Reply never goes to a server.
LEMMA StampStep == Named /\ [Next]_vars => Stamps
<1> SUFFICES ASSUME Named, [Next]_vars, NEW s \in Servers, Len(tx'[s]) > Len(tx[s])
             PROVE  FileOf(tx'[s][Len(tx'[s])].fd) = tx'[s][Len(tx'[s])].client
  BY DEF Stamps
<1>1. tx[s] \in Seq(Packet) /\ Good /\ FdsNameClients
  BY Distinct DEF Named, Good, TypeInv, TypeOK
<1>2. tx' # tx
  <2>1. Len(tx[s]) \in Nat
    BY <1>1
  <2>2. QED
    BY <2>1
<1>3. PICK w \in Workers : Forward(w) \/ Reply(w)
  BY <1>2 DEF Next, vars, kernelVars, envVars, workVars, mainVars, Main, OpenDb, Accept, OutOfFds,
     WritePipe, Worker, EpollWait, NextEvent, ReadPipe, RecvData, RecvEof, RecvError, SelectServer,
     LookupNull, BumpTag, CloseClient, Purge, CloseServer, Environment, ClientConnect, ClientSend, HangUp,
     Probed, ServerAck, ServerChat, ServerSends
<1>4. CASE Forward(w)
  <2>1. Stamped(w) \in Packet /\ Stamped(w).fd = fd[w] /\ Stamped(w).client = sock[w]
        /\ FileOf(fd[w]) = sock[w]
    BY <1>1, <1>4, StampNamesClient, StampedPacket DEF Forward, FileOf
  <2>2. tx'[s] = Append(tx[s], Stamped(w))
    BY <1>1, <1>4, <2>1, SendToAppends, Distinct DEF Forward
  <2>3. tx'[s][Len(tx'[s])] = Stamped(w)
    BY <1>1, <2>1, <2>2, Appended
  <2>4. QED
    BY <2>1, <2>3
<1>5. CASE Reply(w)
  <2>1. msg[w] \in Packet /\ ~judge(msg[w].fd)
    BY <1>1, <1>5, PacketAssumption DEF Reply, Good, TypeInv, LocalsOK, FdsNameClients
  <2>2. FileOf(msg[w].fd) # s
    BY <1>1, <2>1, ServerFds, Distinct DEF FileOf, Good, IInv, ServersStay, judge
  <2>3. tx'[s] = tx[s]
    BY <1>1, <1>5, <2>1, <2>2, SendToAppends, Distinct DEF Reply
  <2>4. QED
    BY <1>1, <2>3
<1>6. QED
  BY <1>3, <1>4, <1>5

\* A request reaches its server stamped with the descriptor of the client that
\* wrote it (StampFaithful).
THEOREM StampsAreFaithful == ASSUME ServersKeep PROVE Spec /\ []NoticesWhole => StampFaithful
<1>1. Named /\ [Next]_vars => [Stamps]_vars
  BY StampStep
<1>2. QED
  BY <1>1, NamedInvariant, PTL DEF Spec, StampFaithful, Stamps

=============================================================================
