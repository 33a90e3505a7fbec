---------------------------- MODULE LoadBalancer ----------------------------
(***************************************************************************)
(* The load-balancer process (lode1.cpp, lode2.cpp): the main thread takes *)
(* clients off the listening socket and hands their descriptors through a  *)
(* pipe to worker threads; each worker polls the pipe, every connection to *)
(* a chat server and the clients it took, forwards requests to the server  *)
(* the consistent hash names and replies to the descriptor a reply names.  *)
(*                                                                         *)
(* A socket is named by its far end: a client or the index of a server.    *)
(* The kernel's part (descriptor table, socket states, epoll, pipe) is     *)
(* here because every hard behaviour of the code comes from it; clients,   *)
(* chat servers and the state table are an environment that may do at any  *)
(* time whatever those programs can do.                                    *)
(***************************************************************************)
EXTENDS Integers, Sequences, FiniteSets

CONSTANTS
    Workers,     \* the threads of pthread_pool
    Clients,     \* the client programs; each connects at most once
    FD_NUM,      \* number of chat servers
    FirstFd,     \* descriptor of server 0; server i has FirstFd + i
    FreeFrom,    \* the program itself has the numbers below, but for the servers'
    LastFd,      \* RLIMIT_NOFILE: no descriptor above it
    Home,        \* Home[c]: index of the server the hash names for c's address
    Down,        \* servers whose connect() failed when the program started
    Leavers,     \* far ends that may hang up
    MaxSend,     \* bound: requests one client sends
    PipeFd,      \* ppfd[0]
    PipeBuff,    \* what one read() takes from the pipe at most, 10 bytes
    Unrouted,    \* the hash names no server: lookupNode_s returns NULL
    Closed,      \* no open file
    Db,          \* a connection to MySQL
    NoMsg        \* nothing was received

Servers == 0..(FD_NUM - 1)
Socks   == Clients \cup Servers
Fds     == FirstFd..(FirstFd + FD_NUM - 1) \cup FreeFrom..LastFd

ASSUME ConstAssumption ==
    /\ FD_NUM \in Nat \ {0}
    /\ FirstFd \in Nat /\ FreeFrom \in Nat /\ LastFd \in Nat
    /\ FirstFd + FD_NUM <= FreeFrom /\ FreeFrom <= LastFd
    /\ Clients \cap Servers = {}
    /\ Home \in [Clients -> Servers \cup {Unrouted}] /\ Unrouted \notin Servers
    /\ Down \subseteq Servers
    /\ Leavers \subseteq Socks
    /\ MaxSend \in Nat
    /\ PipeBuff \in Nat
    /\ {Closed, Db} \cap Socks = {} /\ Closed # Db
    /\ PipeFd \notin Fds
    /\ IsFiniteSet(Clients)

\* A request (fd is 0, "no FD member", until the balancer stamps it) or a reply.
Packet == [client : Clients, n : 0..MaxSend, fd : Fds \cup {0}]

ASSUME PacketAssumption == NoMsg \notin Packet /\ 0 \notin Fds

serverfd == [s \in Servers |-> FirstFd + s]
judge(f) == \E s \in Servers : serverfd[s] = f

VARIABLES
    \* the kernel's view
    file,      \* descriptor -> far end, Db or Closed
    link,      \* state of each socket
    rx,        \* received by the kernel, not yet by the balancer
    tx,        \* all that send() accepted for a far end, in order
    backlog,   \* connected, not accepted
    pipe,      \* descriptors written to ppfd[1], not all of each read
    cut,       \* bytes of the first of them that a read() has taken
    \* the environment
    sent,      \* requests each client has sent
    handled,   \* packets of tx each server has taken
    online,    \* the state table: rows <<client, socket>>
    \* main thread
    mainpc, clientfd,
    \* workers
    pc, events, fd, sock, msg, index, epoll, acceptCientNum,
    \* shared by the workers
    tag, status

kernelVars == <<file, link, rx, tx, backlog, pipe, cut>>
envVars    == <<sent, handled, online>>
mainVars   == <<mainpc, clientfd>>
workVars   == <<pc, events, fd, sock, msg, index, epoll, acceptCientNum>>
vars == <<kernelVars, envVars, mainVars, workVars, tag, status>>

Links == {"absent", "up", "fin", "probed", "reset", "dead", "refused"}
    \* fin: the far end closed; probed: and the balancer sent to it since;
    \* reset: RST received, the error not yet reported; dead: reported.

Init ==
    /\ file = [f \in Fds |-> IF judge(f) THEN f - FirstFd ELSE Closed]
    /\ link = [k \in Socks |-> IF k \in Clients THEN "absent"
                               ELSE IF k \in Down THEN "refused" ELSE "up"]
    /\ rx = [k \in Socks |-> << >>]
    /\ tx = [k \in Socks |-> << >>]
    /\ backlog = << >>
    /\ pipe = << >> /\ cut = 0
    /\ sent = [c \in Clients |-> 0]
    /\ handled = [s \in Servers |-> 0]
    /\ online = {}
    /\ mainpc = "dispatch"
    /\ clientfd = 0
    /\ pc = [w \in Workers |-> "loop"]
    /\ events = [w \in Workers |-> {}]
    /\ fd = [w \in Workers |-> 0]
    /\ sock = [w \in Workers |-> Closed]
    /\ msg = [w \in Workers |-> NoMsg]
    /\ index = [w \in Workers |-> 0]
    /\ epoll = [w \in Workers |-> {serverfd[s] : s \in Servers}]
    /\ acceptCientNum = [w \in Workers |-> 0]
    /\ tag = 0
    /\ status = "running"

Running == status = "running"

-----------------------------------------------------------------------------
\* What the kernel does for the calls below

Readable(k) == rx[k] # << >> \/ link[k] \notin {"absent", "up"}

FreeFds == {f \in Fds : file[f] = Closed}
Lowest(S) == {f \in S : \A g \in S : f <= g}

FileOf(f) == IF f \in Fds THEN file[f] ELSE Closed

\* close(): the number is free at once and leaves every epoll set.
CloseFd(f) ==
    /\ file' = [g \in Fds |-> IF g = f THEN Closed ELSE file[g]]
    /\ epoll' = [w \in Workers |-> epoll[w] \ {f}]

\* send(): accepted, refused with an error, or (no handler for SIGPIPE, no
\* MSG_NOSIGNAL) the end of the process.
SendTo(f, m) ==
    \/ /\ FileOf(f) \notin Socks
       /\ UNCHANGED <<tx, link, status>>
    \/ \E k \in Socks :
          /\ FileOf(f) = k /\ link[k] \in {"up", "fin", "probed"}
          /\ tx' = [tx EXCEPT ![k] = Append(@, m)]
          /\ link' = [link EXCEPT ![k] = IF @ = "up" THEN @ ELSE "probed"]
          /\ UNCHANGED status
    \/ \E k \in Socks :
          /\ FileOf(f) = k /\ link[k] = "reset"
          /\ link' = [link EXCEPT ![k] = "dead"]
          /\ UNCHANGED <<tx, status>>
    \/ \E k \in Socks :
          /\ FileOf(f) = k /\ link[k] \in {"dead", "refused"}
          /\ status' = "sigpipe"
          /\ UNCHANGED <<tx, link>>

\* Mutant: getpeername() always fails.
PeerUnknown(f) == FALSE

\* getpeername() on a client's descriptor
PeerKnown(f) ==
    \/ FileOf(f) = Db
    \/ FileOf(f) \in Socks /\ link[FileOf(f)] \in {"up", "fin", "probed"}

-----------------------------------------------------------------------------
\* The main thread: event_base_dispatch calls Listenfd

\* CMysql db: a new connection, which has no destructor to close it.
OpenDb ==
    /\ Running /\ mainpc = "dispatch" /\ backlog # << >>
    /\ \E f \in Lowest(FreeFds) : file' = [file EXCEPT ![f] = Db]
    /\ mainpc' = "accept"
    /\ UNCHANGED <<link, rx, tx, backlog, pipe, cut, envVars, clientfd, workVars, tag, status>>

Accept ==
    /\ Running /\ mainpc = "accept"
    /\ \E f \in Lowest(FreeFds) : /\ file' = [file EXCEPT ![f] = Head(backlog)]
                                  /\ clientfd' = f
    /\ backlog' = Tail(backlog)
    /\ mainpc' = "write"
    /\ UNCHANGED <<link, rx, tx, pipe, cut, envVars, workVars, tag, status>>

\* exit(-1) in CMysql or assert(clientfd != -1)
OutOfFds ==
    /\ Running /\ mainpc \in {"dispatch", "accept"} /\ backlog # << >>
    /\ FreeFds = {}
    /\ status' = "emfile"
    /\ UNCHANGED <<kernelVars, envVars, mainVars, workVars, tag>>

WritePipe ==
    /\ Running /\ mainpc = "write"
    /\ pipe' = Append(pipe, clientfd)
    /\ mainpc' = "dispatch"
    /\ UNCHANGED <<file, link, rx, tx, backlog, cut, envVars, clientfd, workVars, tag, status>>

Main == OpenDb \/ Accept \/ OutOfFds \/ WritePipe

-----------------------------------------------------------------------------
\* A worker: thread_func

\* Back to the event loop; locals nobody reads any more are cleared.
Loop(w) ==
    /\ pc' = [pc EXCEPT ![w] = "loop"]
    /\ fd' = [fd EXCEPT ![w] = 0]
    /\ sock' = [sock EXCEPT ![w] = Closed]
    /\ msg' = [msg EXCEPT ![w] = NoMsg]
    /\ index' = [index EXCEPT ![w] = 0]

\* Mutant: the pipe is read in every round, notice or not.
ReadyFdsWithPipe(w) == {f \in epoll[w] : file[f] \in Socks /\ Readable(file[f])} \cup {PipeFd}

ReadyFds(w) == {f \in epoll[w] : file[f] \in Socks /\ Readable(file[f])}
               \cup (IF pipe # << >> THEN {PipeFd} ELSE {})

\* epoll_wait() returns all that is ready; events are taken in any order.
EpollWait(w) ==
    /\ Running /\ pc[w] = "loop" /\ events[w] = {}
    /\ ReadyFds(w) # {}
    /\ events' = [events EXCEPT ![w] = ReadyFds(w)]
    /\ UNCHANGED <<kernelVars, envVars, mainVars, pc, fd, sock, msg, index, epoll,
                   acceptCientNum, tag, status>>

\* The call that reads the event's descriptor is entered here: from then on
\* it works on the file open at that moment. A closed descriptor is an error.
NextEvent(w) ==
    /\ Running /\ pc[w] = "loop"
    /\ \E f \in events[w] :
          /\ events' = [events EXCEPT ![w] = @ \ {f}]
          /\ IF f # PipeFd /\ FileOf(f) = Closed
             THEN UNCHANGED <<pc, fd, sock>>
             ELSE /\ fd' = [fd EXCEPT ![w] = f]
                  /\ sock' = [sock EXCEPT ![w] = FileOf(f)]
                  /\ pc' = [pc EXCEPT ![w] = IF f = PipeFd THEN "pipe" ELSE "recv"]
    /\ UNCHANGED <<kernelVars, envVars, mainVars, msg, index, epoll,
                   acceptCientNum, tag, status>>

\* A notice is sprintf("%d") of a descriptor with its NUL.
Width(f) == CHOOSE n \in 2..10 : f < 10^(n - 1) /\ (n > 2 => f >= 10^(n - 2))

\* The bytes in the pipe up to the end of notice i
Bytes == LET b[i \in 0..Len(pipe)] == IF i = 0 THEN 0 - cut ELSE b[i - 1] + Width(pipe[i])
         IN  b

\* A read() takes k notices to their end, and c bytes of the one after them.
Taken(k, c) ==
    \/ k = Len(pipe) /\ c = 0 /\ Bytes[k] <= PipeBuff
    \/ k < Len(pipe) /\ c < Width(pipe[k + 1]) /\ Bytes[k] + c = PipeBuff

\* atoi() sees the first notice only: its number, or the digits left of it.
atoi == IF cut = 0 THEN Head(pipe) ELSE Head(pipe) % 10^(Width(Head(pipe)) - 1 - cut)

\* Mutant: the notices stay in the pipe.
PipePeeked(k) == pipe

PipeRest(k) == SubSeq(pipe, k + 1, Len(pipe))

\* epoll_ctl() fails for a number that is closed or watched already, and the
\* process exits. It may fail for a number that is not a socket's; events of
\* such a file lead to no call that does anything here.
addEvent(w, f) ==
    LET can == f \in Fds /\ FileOf(f) # Closed /\ f \notin epoll[w]
    IN  \/ can /\ epoll' = [epoll EXCEPT ![w] = @ \cup {f}] /\ UNCHANGED status
        \/ ~can /\ status' = "addEvent" /\ UNCHANGED epoll
        \/ f \notin Fds \cup {PipeFd} /\ UNCHANGED <<epoll, status>>

\* read(ppfd[0], pipebuff, 10) blocks on an empty pipe; it takes what is there,
\* notices framed or not.
ReadPipe(w) ==
    /\ Running /\ pc[w] = "pipe"
    /\ \E k \in DOMAIN pipe, c \in 0..9 :
          Taken(k, c) /\ pipe' = PipeRest(k) /\ cut' = c
    /\ addEvent(w, atoi)
    /\ acceptCientNum' = [acceptCientNum EXCEPT ![w] = @ + 1]
    /\ Loop(w)
    /\ UNCHANGED <<file, link, rx, tx, backlog, envVars, mainVars,
                   events, tag>>

\* recv(fd, buff, 1024, 0): all that is there; the parser stops at the first NUL.
RecvData(w) ==
    /\ Running /\ pc[w] = "recv"
    /\ sock[w] \in Socks /\ rx[sock[w]] # << >>
    /\ msg' = [msg EXCEPT ![w] = Head(rx[sock[w]])]
    /\ rx' = [rx EXCEPT ![sock[w]] = << >>]
    /\ pc' = [pc EXCEPT ![w] = IF judge(fd[w]) THEN "reply" ELSE "select"]
    /\ UNCHANGED <<file, link, tx, backlog, pipe, cut, envVars, mainVars,
                   events, fd, sock, index, epoll, acceptCientNum, tag, status>>

\* Mutant: the end of the stream is treated like an error.
RecvEofIgnored(w) ==
    /\ Running /\ pc[w] = "recv"
    /\ sock[w] \in Socks /\ rx[sock[w]] = << >> /\ link[sock[w]] \in {"fin", "probed", "dead"}
    /\ Loop(w)
    /\ UNCHANGED <<kernelVars, envVars, mainVars,
                   events, epoll, acceptCientNum, tag, status>>

RecvEof(w) ==
    /\ Running /\ pc[w] = "recv"
    /\ sock[w] \in Socks /\ rx[sock[w]] = << >> /\ link[sock[w]] \in {"fin", "probed", "dead"}
    /\ msg' = [msg EXCEPT ![w] = NoMsg]
    /\ pc' = [pc EXCEPT ![w] = IF judge(fd[w]) THEN "serverclose" ELSE "select"]
    /\ UNCHANGED <<kernelVars, envVars, mainVars,
                   events, fd, sock, index, epoll, acceptCientNum, tag, status>>

RecvError(w) ==
    /\ Running /\ pc[w] = "recv"
    /\ sock[w] \in Socks /\ rx[sock[w]] = << >> /\ link[sock[w]] \in {"reset", "refused"}
    /\ link' = [link EXCEPT ![sock[w]] = IF @ = "reset" THEN "dead" ELSE @]
    /\ Loop(w)
    /\ UNCHANGED <<file, rx, tx, backlog, pipe, cut, envVars, mainVars,
                   events, epoll, acceptCientNum, tag, status>>

\* select_server: the hash of the peer's address, or (tag+1)%3 without a peer;
\* tag is read here and written in BumpTag, other workers may come between.
NextTagUnwrapped == tag + 1   \* mutant: no modulus
NextTag == (tag + 1) % FD_NUM

AfterSelect(w) == IF msg[w] = NoMsg THEN "close" ELSE "send"

HashNames(f) == IF FileOf(f) \in Clients THEN {Home[FileOf(f)]} ELSE Servers \cup {Unrouted}

SelectServer(w) ==
    /\ Running /\ pc[w] = "select"
    /\ IF PeerKnown(fd[w])
       THEN /\ \E s \in HashNames(fd[w]) \cap Servers : index' = [index EXCEPT ![w] = s]
            /\ pc' = [pc EXCEPT ![w] = AfterSelect(w)]
       ELSE /\ index' = [index EXCEPT ![w] = NextTag]
            /\ pc' = [pc EXCEPT ![w] = "bump"]
    /\ UNCHANGED <<kernelVars, envVars, mainVars,
                   events, fd, sock, msg, epoll, acceptCientNum, tag, status>>

\* node->getIden() on the NULL that lookupNode_s returned
LookupNull(w) ==
    /\ Running /\ pc[w] = "select"
    /\ PeerKnown(fd[w]) /\ Unrouted \in HashNames(fd[w])
    /\ status' = "segv"
    /\ UNCHANGED <<kernelVars, envVars, mainVars, workVars, tag>>

BumpTag(w) ==
    /\ Running /\ pc[w] = "bump"
    /\ tag' = index[w]
    /\ pc' = [pc EXCEPT ![w] = AfterSelect(w)]
    /\ UNCHANGED <<kernelVars, envVars, mainVars,
                   events, fd, sock, msg, index, epoll, acceptCientNum, status>>

\* Mutant: the server's descriptor instead of the client's.
StampedSerfd(w) == [msg[w] EXCEPT !.fd = serverfd[index[w]]]

\* response["FD"] = fd
Stamped(w) == [msg[w] EXCEPT !.fd = fd[w]]

\* send(serfd, ...)
Forward(w) ==
    /\ Running /\ pc[w] = "send"
    /\ SendTo(serverfd[index[w]], Stamped(w))
    /\ Loop(w)
    /\ UNCHANGED <<file, rx, backlog, pipe, cut, envVars, mainVars,
                   events, epoll, acceptCientNum, tag>>

\* fd = root["FD"].asInt(); send(fd, ...)
Reply(w) ==
    /\ Running /\ pc[w] = "reply"
    /\ SendTo(msg[w].fd, msg[w])
    /\ Loop(w)
    /\ UNCHANGED <<file, rx, backlog, pipe, cut, envVars, mainVars,
                   events, epoll, acceptCientNum, tag>>

\* The client is gone: close, then (Purge) delete its row of the state table,
\* take it off epoll, count it out.
CloseClient(w) ==
    /\ Running /\ pc[w] = "close"
    /\ CloseFd(fd[w])
    /\ pc' = [pc EXCEPT ![w] = "purge"]
    /\ UNCHANGED <<link, rx, tx, backlog, pipe, cut, envVars, mainVars,
                   events, fd, sock, msg, index, acceptCientNum, tag, status>>

\* Mutant: --acceptCientNum is skipped.
NotCountedOut(w) == acceptCientNum

CountedOut(w) == [acceptCientNum EXCEPT ![w] = @ - 1]

Purge(w) ==
    /\ Running /\ pc[w] = "purge"
    /\ online' = {row \in online : row[2] # fd[w]}
    /\ epoll' = [epoll EXCEPT ![w] = @ \ {fd[w]}]
    /\ acceptCientNum' = CountedOut(w)
    /\ Loop(w)
    /\ UNCHANGED <<kernelVars, sent, handled, mainVars,
                   events, tag, status>>

\* The server is gone: close and deleteEvent, which finds nothing left to
\* delete. serverfd keeps the number.
CloseServer(w) ==
    /\ Running /\ pc[w] = "serverclose"
    /\ CloseFd(fd[w])
    /\ Loop(w)
    /\ UNCHANGED <<link, rx, tx, backlog, pipe, cut, envVars, mainVars,
                   events, acceptCientNum, tag, status>>

Worker(w) ==
    \/ EpollWait(w) \/ NextEvent(w) \/ ReadPipe(w)
    \/ RecvData(w) \/ RecvEof(w) \/ RecvError(w)
    \/ SelectServer(w) \/ LookupNull(w) \/ BumpTag(w) \/ Forward(w) \/ Reply(w)
    \/ CloseClient(w) \/ Purge(w) \/ CloseServer(w)

-----------------------------------------------------------------------------
\* The environment

ClientConnect(c) ==
    /\ Running /\ link[c] = "absent"
    /\ link' = [link EXCEPT ![c] = "up"]
    /\ backlog' = Append(backlog, c)
    /\ UNCHANGED <<file, rx, tx, pipe, cut, envVars, mainVars, workVars, tag, status>>

ClientSend(c) ==
    /\ Running /\ link[c] = "up"
    /\ sent[c] < MaxSend
    /\ sent' = [sent EXCEPT ![c] = @ + 1]
    /\ rx' = [rx EXCEPT ![c] = Append(@, [client |-> c, n |-> sent[c] + 1, fd |-> 0])]
    /\ UNCHANGED <<file, link, tx, backlog, pipe, cut, handled, online, mainVars, workVars, tag, status>>

\* A far end closes its socket; with data it has not read, that is a reset.
HangUp(k) ==
    /\ Running /\ k \in Leavers
    /\ link[k] = "up"
    /\ \E l \in {"fin", "reset"} : link' = [link EXCEPT ![k] = l]
    /\ UNCHANGED <<file, rx, tx, backlog, pipe, cut, envVars, mainVars, workVars, tag, status>>

\* What was sent to a closed far end is answered with a reset.
Probed(k) ==
    /\ Running /\ link[k] = "probed"
    /\ link' = [link EXCEPT ![k] = "dead"]
    /\ UNCHANGED <<file, rx, tx, backlog, pipe, cut, envVars, mainVars, workVars, tag, status>>

\* A server takes some of what has reached it, parses the first packet and
\* answers: the sender (after a login, with a new row), or another user's row.
ServerTakes(s, upto) ==
    /\ Running /\ link[s] = "up"
    /\ upto \in (handled[s] + 1)..Len(tx[s])
    /\ handled' = [handled EXCEPT ![s] = upto]

ServerSends(s, c, f) ==
    /\ rx' = [rx EXCEPT ![s] = Append(@, [client |-> c, n |-> 0, fd |-> f])]
    /\ UNCHANGED <<file, link, tx, backlog, pipe, cut, sent, mainVars, workVars, tag, status>>

ServerAck(s) ==
    \E upto \in 1..Len(tx[s]) :
       LET req == tx[s][handled[s] + 1]
       IN  /\ ServerTakes(s, upto)
           /\ ServerSends(s, req.client, req.fd)
           /\ online' \in {online, online \cup {<<req.client, req.fd>>}}

ServerChat(s) ==
    \E upto \in 1..Len(tx[s]), row \in online :
       /\ ServerTakes(s, upto)
       /\ ServerSends(s, row[1], row[2])
       /\ UNCHANGED online

Environment ==
    \/ \E c \in Clients : ClientConnect(c) \/ ClientSend(c)
    \/ \E k \in Socks : HangUp(k) \/ Probed(k)
    \/ \E s \in Servers : ServerAck(s) \/ ServerChat(s)

-----------------------------------------------------------------------------
Next ==
    \/ Main
    \/ \E w \in Workers : Worker(w)
    \/ Environment

Spec == Init /\ [][Next]_vars

\* Threads run; nothing is assumed of clients, servers or the network.
Fairness == /\ WF_vars(Main)
            /\ \A w \in Workers : WF_vars(Worker(w))

FairSpec == Spec /\ Fairness

-----------------------------------------------------------------------------
\* Properties

ClientFds == {f \in Fds : file[f] \in Clients}

\* Every variable stays in the set of values the code's types and calls allow.
TypeOK ==
    /\ file \in [Fds -> Socks \cup {Db, Closed}]
    /\ link \in [Socks -> Links]
    /\ rx \in [Socks -> Seq(Packet)]
    /\ tx \in [Socks -> Seq(Packet)]
    /\ backlog \in Seq(Clients)
    /\ pipe \in Seq(Fds) /\ cut \in 0..9
    /\ sent \in [Clients -> 0..MaxSend]
    /\ handled \in [Servers -> Nat]
    /\ online \subseteq Clients \X (Fds \cup {0})
    /\ mainpc \in {"dispatch", "accept", "write"}
    /\ clientfd \in Fds \cup {0}
    /\ pc \in [Workers -> {"loop", "pipe", "recv", "select", "bump", "send", "reply",
                           "close", "purge", "serverclose"}]
    /\ events \in [Workers -> SUBSET (Fds \cup {PipeFd})]
    /\ fd \in [Workers -> Fds \cup {0, PipeFd}]
    /\ sock \in [Workers -> Socks \cup {Db, Closed}]
    /\ msg \in [Workers -> Packet \cup {NoMsg}]
    /\ index \in [Workers -> Servers]
    /\ epoll \in [Workers -> SUBSET Fds]
    /\ acceptCientNum \in [Workers -> Int]
    /\ tag \in Servers
    /\ status \in {"running", "emfile", "addEvent", "sigpipe", "segv"}

\* What the locals hold at each point of the threads; it makes TypeOK inductive.
HasFd  == {"recv", "select", "bump", "send", "reply", "close", "purge", "serverclose"}
LocalsOK ==
    /\ mainpc = "accept" => backlog # << >>
    /\ mainpc = "write" => clientfd \in Fds
    /\ \A w \in Workers :
          /\ pc[w] \in HasFd => fd[w] \in Fds
          /\ pc[w] \in {"send", "reply"} => msg[w] \in Packet

\* A client's descriptor is in one place: with the main thread, in the pipe
\* once, or in the epoll set of one worker, and it is that client's own.
OneOwner ==
    /\ \A v, w \in Workers : v # w => epoll[v] \cap epoll[w] \cap ClientFds = {}
    /\ \A i, j \in DOMAIN pipe : pipe[i] = pipe[j] => i = j
    /\ \A i \in DOMAIN pipe : pipe[i] \in ClientFds /\ \A w \in Workers : pipe[i] \notin epoll[w]
    /\ mainpc = "write" =>
          /\ clientfd \in ClientFds
          /\ \A i \in DOMAIN pipe : pipe[i] # clientfd
          /\ \A w \in Workers : clientfd \notin epoll[w]

\* What keeps a client with its worker: servers hold their descriptors, events
\* announce only what the worker watches, and the descriptor a worker is busy
\* with is one it watches, open on the same socket as when recv() was called.
Busy == {"recv", "select", "bump", "send", "reply", "close"}

ServersStay ==
    /\ \A s \in Servers : link[s] \in {"up", "refused"}
    /\ \A f \in Fds, s \in Servers : file[f] = s <=> f = serverfd[s]

EventsWatched == \A w \in Workers : events[w] \subseteq epoll[w] \cup {PipeFd}

BusyOwner ==
    \A w \in Workers :
        /\ pc[w] # "serverclose"
        /\ pc[w] \in Busy =>
              /\ fd[w] \in epoll[w] \ events[w]
              /\ sock[w] = file[fd[w]]
              /\ sock[w] \in Servers <=> pc[w] = "reply" \/ (pc[w] = "recv" /\ judge(fd[w]))
        /\ pc[w] = "purge" => fd[w] \notin epoll[w]

EpollOpen == \A w \in Workers : \A f \in epoll[w] : file[f] \in Socks

\* Packets are read and forwarded under the name of the client that wrote them.
OwnPackets ==
    /\ \A c \in Clients : \A i \in DOMAIN rx[c] : rx[c][i].client = c
    /\ \A w \in Workers : pc[w] \in {"select", "bump", "send"} /\ msg[w] # NoMsg
                           => msg[w].client = sock[w]

\* The invariant from which OneOwner is proved when no server hangs up.
IInv == OneOwner /\ ServersStay /\ EventsWatched /\ BusyOwner /\ EpollOpen
        /\ OwnPackets /\ status # "addEvent"

\* No request, reply or row names the descriptor of a server: a reply can
\* reach the wrong client, but the balancer never sends one to a server.
FdsNameClients ==
    /\ \A k \in Socks : \A i \in DOMAIN rx[k] : ~judge(rx[k][i].fd)
    /\ \A k \in Socks : \A i \in DOMAIN tx[k] : ~judge(tx[k][i].fd)
    /\ \A row \in online : ~judge(row[2])
    /\ \A w \in Workers : msg[w] # NoMsg => ~judge(msg[w].fd)

\* No read() of the pipe ended in the middle of a notice.
NoticesWhole == cut = 0

\* A worker adds the new descriptor to its epoll set (the comment at
\* lode1.cpp:147): addEvent's exit(-1) (lode2.cpp:114) is not reached.
AddEventWorks == status # "addEvent"

\* acceptCientNum is the number of clients the worker watches, one more while a
\* departure is under way.
CountMatches ==
    \A w \in Workers : acceptCientNum[w] =
        Cardinality(epoll[w] \cap ClientFds) + (IF pc[w] = "purge" THEN 1 ELSE 0)

\* A worker that polled a client is never stuck in recv() on it: no other
\* thread can have taken the data the poll announced.
ClientRecvReady ==
    \A w \in Workers : pc[w] = "recv" /\ sock[w] \in Clients => Readable(sock[w])

\* What reaches a server from one client is in the order the client sent it.
InOrder ==
    \A s \in Servers : \A i, j \in DOMAIN tx[s] :
        i < j /\ tx[s][i].client = tx[s][j].client => tx[s][i].n < tx[s][j].n

\* A request goes to the server the hash names, unless the client reset its
\* connection and has no address any more.
Affinity ==
    \A s \in Servers : \A i \in DOMAIN tx[s] :
        Home[tx[s][i].client] # s => link[tx[s][i].client] \in {"reset", "dead"}

\* The FD a request is stamped with is, when the server gets it, the
\* descriptor of the client that wrote it.
StampFaithful ==
    [][\A s \in Servers : Len(tx'[s]) > Len(tx[s]) =>
          LET m == tx'[s][Len(tx'[s])] IN FileOf(m.fd) = m.client]_vars

\* A departing client takes its own row of the state table with it and no other.
PurgeOnlyOwn ==
    [][\A row \in online \ online' : \E w \in Workers : pc[w] = "purge" /\ sock[w] = row[1]]_vars

\* Where a client's connection is, in the terms of Connection.
Watchers(f) == {w \in Workers : f \in epoll[w]}
PlaceOfFd(f) ==
    IF mainpc = "write" /\ clientfd = f THEN "listener"
    ELSE IF \E i \in DOMAIN pipe : pipe[i] = f THEN "pipe"
    ELSE IF Watchers(f) # {} THEN CHOOSE w \in Watchers(f) : TRUE
    ELSE "lost"
PlaceOf(c) ==
    IF link[c] = "absent" THEN "away"
    ELSE IF \E i \in DOMAIN backlog : backlog[i] = c THEN "queued"
    ELSE IF \E f \in Fds : file[f] = c THEN PlaceOfFd(CHOOSE f \in Fds : file[f] = c)
    ELSE "closed"

Conn == INSTANCE Connection WITH place <- [c \in Clients |-> PlaceOf(c)]

\* A worker is not named like one of the other places.
ASSUME PlaceAssumption == Workers \cap Conn!Elsewhere = {}

\* Accepting, handing over, serving and closing follow the life of a
\* connection that Connection describes: one worker from first to last.
ImplementsConnection == Conn!ConnSpec

Watched(c) == \E w \in Workers, f \in Fds : f \in epoll[w] /\ file[f] = c

\* What a watched client sends is read, as long as the process runs.
WatchedServed ==
    \A c \in Clients : Watched(c) /\ rx[c] # << >> ~> rx[c] = << >> \/ ~Running

\* A watched client that hung up is closed.
WatchedClosed ==
    \A c \in Clients : Watched(c) /\ link[c] \in {"fin", "reset"}
                       ~> (\A f \in Fds : file[f] # c) \/ ~Running

=============================================================================
