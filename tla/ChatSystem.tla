----------------------------- MODULE ChatSystem -----------------------------
(***************************************************************************)
(* Clients (client.cpp), the workers of the balancer (lode1.cpp) and the   *)
(* chat servers (ChatServer) together, from what a client asks to what it  *)
(* is told.                                                                *)
(*                                                                         *)
(* A client is known by the descriptor the balancer has for it, and when   *)
(* it left, the next client may get that number. How a notice reaches a    *)
(* worker, and what becomes of a server's number, is in LoadBalancer.      *)
(* Requests and answers are sent one by one, but a recv() takes what has   *)
(* arrived, as much as there is room for, and the parser stops after the   *)
(* first.                                                                  *)
(***************************************************************************)
EXTENDS ChatServer

CONSTANTS
    Workers,     \* the threads of pthread_pool
    Nobody,      \* no worker
    MaxClients,  \* bound: clients in all
    Hash         \* the server each client's address hashes to (select_server)

ASSUME SystemAssumption ==
    /\ Nobody \notin Workers
    /\ MaxClients \in Nat \ {0}
    /\ Hash \in [1..MaxClients -> Servers]

VARIABLES
    \* the balancer
    open,      \* numbers that are clients'
    owner,     \* per number, the worker that watches it
    home,      \* per number, the server its client's address hashes to
    at,        \* where a worker is
    hold,      \* what it has in hand there
    accepted,  \* how many clients there were
    \* per number, the client that has it, or had it last
    up,        \* what it sent and the balancer has not received
    inbox,     \* what the balancer sent and it has not received
    phase,     \* where it is: its menu, doLogin, registe, or chatting
    link,      \* its connection, as it will find it
    recvbuf,   \* the buffer of its ReadThread
    told,      \* the answers it parsed, in order
    \* all together
    down,      \* per server, what it sent and the balancer has not received
    lost,      \* numbers a request or answer of which was not parsed
    sent       \* how many requests the balancer was sent

places  == <<open, owner, home, accepted>>
workers == <<at, hold>>
clients == <<up, inbox, phase, link, recvbuf, told, sent>>
sysvars == <<vars, places, workers, clients, down, lost>>

Nothing == [what |-> "nothing"]

SysInit ==
    /\ Init
    /\ open = {} /\ accepted = 0
    /\ owner = [f \in Fds |-> Nobody]
    /\ home = [f \in Fds |-> Hash[1]]
    /\ at = [w \in Workers |-> "loop"]
    /\ hold = [w \in Workers |-> Nothing]
    /\ up = [f \in Fds |-> << >>]
    /\ inbox = [f \in Fds |-> << >>]
    /\ phase = [f \in Fds |-> "ended"]
    /\ link = [f \in Fds |-> "closed"]
    /\ recvbuf = [f \in Fds |-> Nothing]
    /\ told = [f \in Fds |-> << >>]
    /\ down = [s \in Servers |-> << >>]
    /\ lost = {}
    /\ sent = 0

-----------------------------------------------------------------------------
\* The client

\* A request as the client sends it, without FD
Bare(a) == [type |-> a.type, name |-> a.name, right |-> a.right]

\* The menu leads to doLogin and registe, the loop after it to chat messages;
\* both to offline(), close() and exit().
MayAsk(f, type) ==
    \/ phase[f] = "menu" /\ type \in {"login", "register", "offline"}
    \/ phase[f] = "online" /\ type \in {"chat", "offline"}

AfterSend(type) == [login |-> "login", register |-> "register",
                    chat |-> "online", offline |-> "ended"][type]

AfterError(type) == IF type = "register" THEN "ended" ELSE AfterSend(type)

MoveTo(f, p) == phase' = [phase EXCEPT ![f] = p]
LinkIs(f, l) == link' = [link EXCEPT ![f] = l]

\* send(). A connection whose other end has closed takes what is sent, and is
\* reset; then send() gives an error once, or SIGPIPE ends the process.
Sends(f, a) ==
    /\ MayAsk(f, a.type)
    /\ \/ /\ link[f] = "open" /\ MoveTo(f, AfterSend(a.type))
          /\ up' = [up EXCEPT ![f] = Append(@, Bare(a))]
          /\ sent < MaxRequests /\ sent' = sent + 1
          /\ UNCHANGED link
       \/ /\ link[f] = "fin" /\ MoveTo(f, AfterSend(a.type)) /\ LinkIs(f, "reset")
          /\ UNCHANGED <<up, sent>>
       \/ /\ link[f] \in {"reset", "dead"} /\ MoveTo(f, "ended")
          /\ UNCHANGED <<up, sent, link>>
       \/ /\ link[f] = "reset" /\ MoveTo(f, AfterError(a.type)) /\ LinkIs(f, "dead")
          /\ UNCHANGED <<up, sent>>
       \/ /\ link[f] = "closed" /\ MoveTo(f, AfterError(a.type))
          /\ UNCHANGED <<up, sent, link>>
    /\ UNCHANGED <<vars, places, workers, down, inbox, recvbuf, told, lost>>

Reading(f) == phase[f] \in {"login", "register", "online"} /\ link[f] # "closed"

\* Mutant: every acknowledgement is taken for "ok".
AfterAnyAck(p, what) == IF p = "login" THEN "online" ELSE p

\* What an answer does to a client: a chat message while it waits for an
\* acknowledgement makes it exit.
AfterAnswer(p, what) ==
    IF p = "online" THEN "online"
    ELSE IF what = "chat" THEN "ended"
    ELSE IF p = "login" /\ what = "ok" THEN "online" ELSE "menu"

\* recv() in doLogin, registe and ReadThread
Receives(f) ==
    /\ Reading(f)
    /\ \E upto \in DOMAIN inbox[f] :
          /\ inbox' = [inbox EXCEPT ![f] = SubSeq(@, upto + 1, Len(@))]
          /\ lost' = IF upto > 1 THEN lost \cup {f} ELSE lost
    /\ told' = [told EXCEPT ![f] = Append(@, Head(inbox[f]))]
    /\ MoveTo(f, AfterAnswer(phase[f], Head(inbox[f]).what))
    /\ recvbuf' = IF phase[f] = "online" THEN [recvbuf EXCEPT ![f] = Head(inbox[f])] ELSE recvbuf
    /\ UNCHANGED <<vars, places, workers, up, down, link, sent>>

\* Mutant: the error stays.
AfterFailureSame(l) == l

AfterFailure(l) == "dead"

\* Mutant: whether there is anything in it is not looked at.
ParsedAny(buf) == <<buf>>

Parsed(buf) == IF buf = Nothing THEN << >> ELSE <<buf>>

\* recv() < 0: doLogin and registe give up, ReadThread parses its buffer again.
ReceiveFails(f) ==
    /\ Reading(f) /\ inbox[f] = << >> /\ link[f] = "reset"
    /\ LinkIs(f, AfterFailure(link[f]))
    /\ IF phase[f] = "online"
       THEN told' = [told EXCEPT ![f] = @ \o Parsed(recvbuf[f])] /\ UNCHANGED phase
       ELSE MoveTo(f, "menu") /\ UNCHANGED told
    /\ UNCHANGED <<vars, places, workers, up, down, inbox, recvbuf, lost, sent>>

\* recv() = 0: doLogin and registe exit, ReadThread closes the descriptor that
\* main goes on to use.
ReceivesEnd(f) ==
    /\ Reading(f) /\ inbox[f] = << >> /\ link[f] \in {"fin", "dead"}
    /\ IF phase[f] = "online" THEN LinkIs(f, "closed") /\ UNCHANGED phase
       ELSE MoveTo(f, "ended") /\ UNCHANGED link
    /\ UNCHANGED <<vars, places, workers, up, down, inbox, recvbuf, told, lost, sent>>

\* The process is ended from outside, and says nothing.
Dies(f) ==
    /\ phase[f] # "ended" /\ MoveTo(f, "ended")
    /\ UNCHANGED <<vars, places, workers, up, down, inbox, link, recvbuf, told, lost, sent>>

Client(f) ==
    \/ \E a \in Inputs : a.fd = f /\ Sends(f, a)
    \/ Receives(f) \/ ReceiveFails(f) \/ ReceivesEnd(f) \/ Dies(f)

-----------------------------------------------------------------------------
\* The balancer

Works(w, l, h) ==
    /\ at' = [at EXCEPT ![w] = l]
    /\ hold' = [hold EXCEPT ![w] = h]

\* w is at work; those of others that polled the same and come too late are
\* blocked in the call until there is more.
WorksAlone(w, l, h, others, call, what) ==
    /\ others \subseteq {v \in Workers \ {w} : at[v] = "loop"}
    /\ at' = [v \in Workers |-> IF v = w THEN l ELSE IF v \in others THEN call ELSE at[v]]
    /\ hold' = [v \in Workers |-> IF v = w THEN h ELSE IF v \in others THEN what ELSE hold[v]]

\* A client connects, is accepted under a number that is free, and one worker
\* reads the notice, or nobody sees it because it was read with another.
Accept(f) ==
    /\ linked /\ f \notin open /\ accepted < MaxClients
    /\ open' = open \cup {f}
    /\ accepted' = accepted + 1
    /\ home' = [home EXCEPT ![f] = Hash[accepted']]
    /\ \E w \in {v \in Workers : at[v] \in {"loop", "pipe"}}, others \in SUBSET Workers,
          o \in Workers \cup {Nobody} :
          /\ o \in {w, Nobody}
          /\ owner' = [owner EXCEPT ![f] = o]
          /\ WorksAlone(w, "loop", Nothing, others, "pipe", Nothing)
    /\ up' = [up EXCEPT ![f] = << >>]
    /\ inbox' = [inbox EXCEPT ![f] = << >>]
    /\ MoveTo(f, "menu") /\ LinkIs(f, "open")
    /\ recvbuf' = [recvbuf EXCEPT ![f] = Nothing]
    /\ told' = [told EXCEPT ![f] = << >>]
    /\ lost' = lost \ {f}
    /\ UNCHANGED <<vars, down, sent>>

\* recv() from a client
FromClient(w, f) ==
    /\ linked /\ at[w] = "loop" /\ owner[f] = w
    /\ \E upto \in DOMAIN up[f] :
          /\ up' = [up EXCEPT ![f] = SubSeq(@, upto + 1, Len(@))]
          /\ lost' = IF upto > 1 THEN lost \cup {f} ELSE lost
    /\ Works(w, "forward", [fd |-> f, ask |-> Head(up[f])])
    /\ UNCHANGED <<vars, places, inbox, phase, link, recvbuf, told, sent, down>>

\* response["FD"] = fd
Stamped(f, b) == [type |-> b.type, name |-> b.name, right |-> b.right, fd |-> f]

\* send() to its server. What is sent to one that does not read is gone.
Forward(w) ==
    /\ linked /\ at[w] = "forward"
    /\ LET f == hold[w].fd
       IN  \/ Arrive(home[f], Stamped(f, hold[w].ask))
           \/ ~Serves(home[f]) /\ UNCHANGED vars
    /\ Works(w, "loop", Nothing)
    /\ UNCHANGED <<places, clients, down, lost>>

\* recv() = 0: close(fd), and the number is free.
ClientLeft(w, f) ==
    /\ linked /\ at[w] = "loop" /\ owner[f] = w
    /\ phase[f] = "ended" /\ up[f] = << >>
    /\ open' = open \ {f}
    /\ owner' = [owner EXCEPT ![f] = Nobody]
    /\ LinkIs(f, "closed")
    /\ Works(w, "purge", [fd |-> f])
    /\ UNCHANGED <<vars, home, accepted, up, inbox, phase, recvbuf, told, sent, down, lost>>

\* deleteElemBySocket(fd, 1), whoever has the number now
Purge(w) ==
    /\ linked /\ at[w] = "purge"
    /\ IF \E row \in state : row[2] = hold[w].fd THEN PurgeRow(hold[w].fd) ELSE UNCHANGED vars
    /\ Works(w, "loop", Nothing)
    /\ UNCHANGED <<places, clients, down, lost>>

\* recv() from a server, by a worker that was blocked in it or not
FromServer(w, s) ==
    /\ linked
    /\ at[w] = "loop" \/ (at[w] = "recv" /\ hold[w] = s)
    /\ \E upto \in DOMAIN down[s] :
          /\ down' = [down EXCEPT ![s] = SubSeq(@, upto + 1, Len(@))]
          /\ lost' = lost \cup {down[s][i].fd : i \in 2..upto}
    /\ \E others \in SUBSET Workers : WorksAlone(w, "reply", Head(down[s]), others, "recv", s)
    /\ UNCHANGED <<vars, places, clients>>

\* recv() = 0 from a server that closed its connection: close(fd), deleteEvent
ServerLeft(w) ==
    /\ linked /\ at[w] = "recv" /\ down[hold[w]] = << >> /\ ~Serves(hold[w])
    /\ Works(w, "loop", Nothing)
    /\ UNCHANGED <<vars, places, clients, down, lost>>

\* Mutant: replies go to the descriptor the balancer read them from.
ReaderOf(a) == CHOOSE f \in Fds : TRUE

\* root["FD"], which is a client's descriptor unless getStates failed
AddresseeOf(a) == a.fd

\* send() to who has the number now. What is sent to a client that has gone,
\* or to a number that is nobody's, is gone.
Reply(w) ==
    /\ linked /\ at[w] = "reply"
    /\ LET f == AddresseeOf(hold[w])
       IN  inbox' = IF f \in open /\ phase[f] # "ended" THEN [inbox EXCEPT ![f] = Append(@, hold[w])]
                    ELSE inbox
    /\ Works(w, "loop", Nothing)
    /\ UNCHANGED <<vars, places, up, phase, link, recvbuf, told, sent, down, lost>>

Worker(w) ==
    \/ \E f \in Fds : FromClient(w, f) \/ ClientLeft(w, f)
    \/ \E s \in Servers : FromServer(w, s)
    \/ Forward(w) \/ Purge(w) \/ ServerLeft(w) \/ Reply(w)

\* The process ends, for a reason LoadBalancer knows. A client whose request
\* was not read finds its connection reset, the others find it closed.
EndOfBalancer ==
    /\ BalancerEnds
    /\ link' = [f \in Fds |-> IF link[f] # "open" THEN link[f]
                              ELSE IF up[f] # << >> THEN "reset" ELSE "fin"]
    /\ up' = [f \in Fds |-> << >>]
    /\ down' = [s \in Servers |-> << >>]
    /\ open' = {} /\ owner' = [f \in Fds |-> Nobody]
    /\ at' = [w \in Workers |-> "loop"] /\ hold' = [w \in Workers |-> Nothing]
    /\ UNCHANGED <<home, accepted, inbox, phase, recvbuf, told, sent, lost>>

-----------------------------------------------------------------------------
\* The servers: what they send is on its way to the balancer, if that is there.
Server(s) ==
    /\ ReadThread(s)
    /\ down' = IF linked /\ answers' # answers
               THEN [down EXCEPT ![s] = Append(@, CHOOSE a \in answers' : a \notin answers)]
               ELSE down
    /\ lost' = IF pc[s] = "recv" /\ recvd[s] # << >>
               THEN lost \cup {recvd[s][i].ask.fd : i \in 2..(Len(recvd[s]) - Len(recvd'[s]))}
               ELSE lost
    /\ UNCHANGED <<places, workers, clients>>

SysNext ==
    \/ \E f \in Fds : Client(f) \/ Accept(f)
    \/ \E w \in Workers : Worker(w)
    \/ \E s \in Servers : Server(s)
    \/ EndOfBalancer

SysSpec == SysInit /\ [][SysNext]_sysvars

\* Every process that can go on does. A worker that comes back to epoll_wait
\* gets all that is ready, so that what stays ready is taken by the worker that
\* watches it or, from a server, by some worker. None of this frees a worker
\* that is blocked; a user may stop typing.
SysFairSpec ==
    /\ SysSpec
    /\ \A s \in Servers : WF_sysvars(Server(s)) /\ SF_sysvars(\E w \in Workers : FromServer(w, s))
    /\ \A f \in Fds : SF_sysvars(\E w \in Workers : FromClient(w, f))
    /\ \A w \in Workers : WF_sysvars(Forward(w) \/ Purge(w) \/ ServerLeft(w) \/ Reply(w))
    /\ \A f \in Fds : WF_sysvars(Receives(f) \/ ReceiveFails(f) \/ ReceivesEnd(f))

-----------------------------------------------------------------------------
\* Properties

Bares == [type : Types, name : Users, right : BOOLEAN]

\* What a worker has in hand at each place
Holds(l, h) ==
    CASE l \in {"loop", "pipe"} -> h = Nothing
      [] l = "recv"    -> h \in Servers
      [] l = "reply"   -> h \in answers
      [] l = "purge"   -> h \in [fd : Fds]
      [] l = "forward" -> h \in [fd : Fds, ask : Bares]
      [] OTHER -> FALSE

\* Every variable stays in its set; what arrives was sent.
SysTypeOK ==
    /\ open \subseteq Fds
    /\ owner \in [Fds -> Workers \cup {Nobody}]
    /\ home \in [Fds -> Servers]
    /\ \A w \in Workers : Holds(at[w], hold[w])
    /\ accepted \in 0..MaxClients
    /\ up \in [Fds -> Seq(Bares)]
    /\ inbox \in [Fds -> Seq(answers)]
    /\ phase \in [Fds -> {"menu", "login", "register", "online", "ended"}]
    /\ link \in [Fds -> {"open", "fin", "reset", "dead", "closed"}]
    /\ recvbuf \in [Fds -> answers \cup {Nothing}]
    /\ told \in [Fds -> Seq(answers)]
    /\ down \in [Servers -> Seq(answers)]
    /\ lost \subseteq Fds \cup {Error}
    /\ sent \in 0..MaxRequests

\* What a client is told answers a request made under its number, its own or
\* that of a client that had the number before, or is a chat message for a name
\* that logged in under it (from send() in client.cpp to the parser there, by
\* way of FD, whichever workers forward and reply).
ToldItsOwn ==
    \A f \in Fds : \A i \in DOMAIN told[f] : \E r \in asked :
        /\ r.n = told[f][i].n
        /\ IF told[f][i].what = "chat" THEN LoggedIn(r.ask.name, f) ELSE r.ask.fd = f

\* Under the number of a client that chats somebody did log in with the right
\* password, though perhaps in another name than the client thinks, or before
\* it had the number, when answers were late.
OnlineLoggedIn == \A f \in Fds : phase[f] = "online" => \E name \in Users : LoggedIn(name, f)

\* No answer is parsed twice, but the last one, once more, after the connection
\* was reset (client.cpp:148).
ToldOnce ==
    \A f \in Fds : \A i, j \in DOMAIN told[f] :
        i < j /\ told[f][i] = told[f][j] => ~linked /\ j = i + 1 /\ j = Len(told[f])

\* A worker in read() or recv() with nothing to read
Stuck(w) == at[w] = "pipe" \/ (at[w] = "recv" /\ down[hold[w]] = << >>)

Awaits(f) == phase[f] \in {"login", "register"}

\* Why an answer may never come: a request or answer was swallowed by a recv()
\* together with another, the client's server has closed its connection to the
\* balancer or crashed, or the worker that should read the request is blocked
\* or there is none.
Excused(f) ==
    \/ f \in lost \/ ~Serves(home[f])
    \/ up[f] # << >> /\ (owner[f] = Nobody \/ Stuck(owner[f]))

\* doLogin and registe come back, with these exceptions.
WaitEnds == \A f \in Fds : []<>(~Awaits(f) \/ Excused(f))

=============================================================================
