------------------------- MODULE ChatSystem_proofs -------------------------
(***************************************************************************)
(* What a client is told, proved from its send() to its parser for every   *)
(* number of clients, servers, users and requests: the servers behind the  *)
(* balancer behave as ChatServer says, so that what is proved of them      *)
(* there holds here, and every answer goes back under the number it names. *)
(***************************************************************************)
EXTENDS ChatSystem, ChatServer_proofs

\* What was sent to f, and what f may ask.
AnswersOf(f) == {a \in answers : a.fd = f}
BaresOf(f)   == {Bare(a) : a \in {b \in Inputs : b.fd = f}}

Own(f) ==
    /\ up[f] \in Seq(BaresOf(f))
    /\ inbox[f] \in Seq(AnswersOf(f))
    /\ told[f] \in Seq(AnswersOf(f))
    /\ recvbuf[f] \in AnswersOf(f) \cup {Nothing}

Online(f) == phase[f] = "online" => \E name \in Users : LoggedIn(name, f)

\* What a worker has in hand, and where it came from.
HandIs(l, h) == Holds(l, h) /\ (l = "forward" => h.ask \in BaresOf(h.fd))

Hands ==
    /\ DOMAIN at = Workers /\ DOMAIN hold = Workers
    /\ \A w \in Workers : HandIs(at[w], hold[w])

SysKept == SysTypeOK /\ Hands /\ \A f \in Fds : Own(f) /\ Online(f)

SysGood == Good /\ SysKept

-----------------------------------------------------------------------------
\* recv() takes some from the front and leaves the rest.
LEMMA Taken ==
    ASSUME NEW S, NEW q \in Seq(S), NEW k \in DOMAIN q
    PROVE  /\ Head(q) \in S /\ Len(q) \in Nat
           /\ SubSeq(q, k + 1, Len(q)) \in Seq(S)
           /\ Len(SubSeq(q, k + 1, Len(q))) = Len(q) - k
<1>1. Len(q) \in Nat /\ k \in 1..Len(q) /\ \A i \in 1..Len(q) : q[i] \in S
  BY LenProperties, ElementOfSeq
<1>2. \A i \in (k + 1)..Len(q) : q[i] \in S
  BY <1>1
<1>3. SubSeq(q, k + 1, Len(q)) \in Seq(S)
  BY <1>1, <1>2, SubSeqProperties
<1>4. Len(SubSeq(q, k + 1, Len(q))) = Len(q) - k
  BY <1>1, <1>2, SubSeqProperties
<1>5. Head(q) \in S
  BY <1>1
<1> QED BY <1>1, <1>3, <1>4, <1>5

\* What client f asks is a request of Inputs again when FD is added.
LEMMA StampedIs ==
    ASSUME NEW f \in Fds, NEW b \in BaresOf(f)
    PROVE  Stamped(f, b) \in Inputs
<1>1. PICK a \in Inputs : a.fd = f /\ b = Bare(a)
  BY DEF BaresOf
<1>2. a \in Ask
  BY RequestAssumption
<1>3. a = [type |-> a.type, name |-> a.name, right |-> a.right, fd |-> a.fd]
  BY <1>2 DEF Ask
<1> QED BY <1>1, <1>3 DEF Stamped, Bare

\* Nobody takes back a request or an answer.
LEMMA NothingTaken ==
    ASSUME Good, [Next]_vars
    PROVE  answers \subseteq answers' /\ asked \subseteq asked'
<1>1. asked \subseteq asked'
  BY RowsGrow
<1>2. CASE \E s \in Servers : ReadThread(s)
  BY <1>1, <1>2, OwnLocals
<1>3. CASE Balancer
  BY <1>1, <1>3 DEF Balancer, Arrive, PurgeRow, BalancerEnds, BalancerStarts
<1>4. CASE UNCHANGED vars
  BY <1>4 DEF vars
<1> QED BY <1>2, <1>3, <1>4 DEF Next

-----------------------------------------------------------------------------
\* The servers of the system take steps of ChatServer, or none.
LEMMA ServersStep == ASSUME SysGood, [SysNext]_sysvars PROVE [Next]_vars
<1>1. ASSUME NEW f \in Fds, Client(f) \/ Accept(f) PROVE UNCHANGED vars
  BY <1>1 DEF Client, Sends, Receives, ReceiveFails, ReceivesEnd, Dies, Accept
<1>2. ASSUME NEW w \in Workers, Forward(w) PROVE [Next]_vars
  <2>1. CASE UNCHANGED vars
    BY <2>1
  <2>2. CASE Arrive(home[hold[w].fd], Stamped(hold[w].fd, hold[w].ask))
    <3>1. hold[w].fd \in Fds /\ hold[w].ask \in BaresOf(hold[w].fd)
      BY <1>2 DEF SysGood, SysKept, Hands, HandIs, Holds, Forward
    <3>2. home[hold[w].fd] \in Servers
      BY <3>1 DEF SysGood, SysKept, SysTypeOK
    <3>3. Stamped(hold[w].fd, hold[w].ask) \in Inputs
      BY <3>1, StampedIs
    <3> QED BY <2>2, <3>2, <3>3 DEF Next, Balancer
  <2> QED BY <1>2, <2>1, <2>2 DEF Forward
<1>3. ASSUME NEW w \in Workers, Purge(w) PROVE [Next]_vars
  <2>1. hold[w].fd \in Fds
    BY <1>3 DEF SysGood, SysKept, Hands, HandIs, Holds, Purge
  <2> QED BY <1>3, <2>1 DEF Purge, Next, Balancer
<1>4. ASSUME NEW w \in Workers, ServerLeft(w) \/ Reply(w) PROVE UNCHANGED vars
  BY <1>4 DEF ServerLeft, Reply
<1>5. ASSUME NEW w \in Workers, NEW f \in Fds, FromClient(w, f) \/ ClientLeft(w, f) PROVE UNCHANGED vars
  BY <1>5 DEF FromClient, ClientLeft
<1>6. ASSUME NEW w \in Workers, NEW s \in Servers, FromServer(w, s) PROVE UNCHANGED vars
  BY <1>6 DEF FromServer
<1>7. ASSUME NEW s \in Servers, Server(s) PROVE [Next]_vars
  BY <1>7 DEF Server, Next
<1>8. CASE EndOfBalancer
  BY <1>8 DEF EndOfBalancer, Next, Balancer
<1>9. CASE UNCHANGED sysvars
  BY <1>9 DEF sysvars
<1> QED BY <1>1, <1>2, <1>3, <1>4, <1>5, <1>6, <1>7, <1>8, <1>9 DEF SysNext, Worker

-----------------------------------------------------------------------------
\* A hand stays as it should while answers are added.
LEMMA HandStays ==
    ASSUME NEW l, NEW h, HandIs(l, h), answers \subseteq answers' PROVE HandIs(l, h)'
BY DEF HandIs, Holds, BaresOf

\* The workers at their places when others move.
LEMMA HandsStay ==
    ASSUME Hands, UNCHANGED workers, answers \subseteq answers' PROVE Hands'
<1>1. UNCHANGED <<at, hold>>
  BY DEF workers
<1>2. ASSUME NEW w \in Workers PROVE HandIs(at[w], hold[w])'
  BY <1>1, HandStays DEF Hands
<1> QED BY <1>1, <1>2 DEF Hands

\* A worker that goes to a place with what belongs there.
LEMMA HandsWork ==
    ASSUME Hands, NEW w \in Workers, NEW l, NEW h, Works(w, l, h), HandIs(l, h),
           answers \subseteq answers'
    PROVE  Hands'
<1>1. DOMAIN at' = Workers /\ DOMAIN hold' = Workers
  BY DEF Hands, Works
<1>2. ASSUME NEW v \in Workers PROVE HandIs(at[v], hold[v])'
  <2>1. \/ at'[v] = at[v] /\ hold'[v] = hold[v]
        \/ at'[v] = l /\ hold'[v] = h
    BY DEF Hands, Works
  <2> QED BY <2>1, HandStays DEF Hands
<1> QED BY <1>1, <1>2 DEF Hands

\* The same with others that block.
LEMMA HandsWorkAlone ==
    ASSUME Hands, NEW w \in Workers, NEW l, NEW h, NEW others, NEW call, NEW what,
           WorksAlone(w, l, h, others, call, what), HandIs(l, h), HandIs(call, what),
           answers \subseteq answers'
    PROVE  Hands'
<1>1. DOMAIN at' = Workers /\ DOMAIN hold' = Workers
  BY DEF WorksAlone
<1>2. ASSUME NEW v \in Workers PROVE HandIs(at[v], hold[v])'
  <2>1. \/ at'[v] = at[v] /\ hold'[v] = hold[v]
        \/ at'[v] = l /\ hold'[v] = h
        \/ at'[v] = call /\ hold'[v] = what
    BY DEF WorksAlone
  <2> QED BY <2>1, HandStays DEF Hands
<1> QED BY <1>1, <1>2 DEF Hands

\* The types of the workers' part are in Hands.
LEMMA HandsAre == ASSUME Hands' PROVE \A w \in Workers : Holds(at[w], hold[w])'
BY DEF Hands, HandIs

-----------------------------------------------------------------------------
Phases == {"menu", "login", "register", "online", "ended"}

\* Only a chat message leaves a client online.
LEMMA AfterSendIs ==
    ASSUME NEW type \in Types
    PROVE  /\ AfterSend(type) \in Phases /\ AfterError(type) \in Phases
           /\ AfterSend(type) = "online" => type = "chat"
           /\ AfterError(type) = "online" => type = "chat"
BY DEF Types, AfterSend, AfterError, Phases

\* send() adds a request of the client, and nobody is told or logged in.
LEMMA SendsStep ==
    ASSUME SysGood, NEW f \in Fds, NEW a \in Inputs, a.fd = f, Sends(f, a)
    PROVE  SysKept'
<1>0. /\ SysTypeOK /\ Hands /\ \A g \in Fds : Own(g) /\ Online(g)
      /\ a \in Ask /\ a.type \in Types /\ MaxRequests \in Nat
  BY RequestAssumption, ChatAssumption DEF SysGood, SysKept, Ask
<1>1. UNCHANGED <<vars, places, workers, down, inbox, recvbuf, told, lost>>
  BY DEF Sends
<1>2. UNCHANGED <<answers, asked, open, owner, home, accepted>> /\ Hands'
  BY <1>0, <1>1, HandsStay DEF vars, places
<1>3. sent' \in 0..MaxRequests
  BY <1>0 DEF Sends, SysTypeOK
<1>4. up' = up \/ up' = [up EXCEPT ![f] = Append(@, Bare(a))]
  BY DEF Sends
<1>5. /\ up' \in [Fds -> Seq(Bares)]
      /\ \A g \in Fds : up'[g] \in Seq(BaresOf(g))
  <2>1. Bare(a) \in Bares /\ Bare(a) \in BaresOf(f)
    BY <1>0 DEF Bare, Bares, Ask, BaresOf
  <2>2. \A g \in Fds : up[g] \in Seq(BaresOf(g))
    BY <1>0 DEF Own
  <2>3. up \in [Fds -> Seq(Bares)]
    BY <1>0 DEF SysTypeOK
  <2>4. Append(up[f], Bare(a)) \in Seq(BaresOf(f))
    BY <2>1, <2>2, AppendProperties
  <2>5. Append(up[f], Bare(a)) \in Seq(Bares)
    BY <2>1, <2>3, AppendProperties
  <2> QED BY <1>4, <2>2, <2>3, <2>4, <2>5
<1>6. /\ phase' \in [Fds -> Phases]
      /\ \A g \in Fds : phase'[g] = "online" => phase[g] = "online"
  <2>1. PICK p \in {AfterSend(a.type), AfterError(a.type), "ended"} : MoveTo(f, p)
    BY DEF Sends
  <2>2. p \in Phases /\ (p = "online" => a.type = "chat")
    BY <1>0, <2>1, AfterSendIs DEF Phases
  <2>3. p = "online" => phase[f] = "online"
    BY <2>2 DEF Sends, MayAsk
  <2>4. phase \in [Fds -> Phases]
    BY <1>0 DEF SysTypeOK, Phases
  <2> QED BY <2>1, <2>2, <2>3, <2>4 DEF MoveTo
<1>7. link' \in [Fds -> {"open", "fin", "reset", "dead", "closed"}]
  <2>1. link' = link \/ LinkIs(f, "reset") \/ LinkIs(f, "dead")
    BY DEF Sends
  <2>2. link \in [Fds -> {"open", "fin", "reset", "dead", "closed"}]
    BY <1>0 DEF SysTypeOK
  <2> QED BY <2>1, <2>2 DEF LinkIs
<1>8. \A g \in Fds : Own(g)' /\ Online(g)'
  <2> SUFFICES ASSUME NEW g \in Fds PROVE Own(g)' /\ Online(g)'
    OBVIOUS
  <2>1. Own(g)'
    BY <1>0, <1>1, <1>2, <1>5 DEF Own, AnswersOf, BaresOf
  <2>2. Online(g)'
    BY <1>0, <1>2, <1>6 DEF Online, LoggedIn
  <2> QED BY <2>1, <2>2
<1>9. SysTypeOK'
  <2>1. UNCHANGED <<open, owner, home, accepted, down, inbox, recvbuf, told, lost>>
    BY <1>1, <1>2
  <2>2. up' \in [Fds -> Seq(Bares)]
    BY <1>5
  <2>3. phase' \in [Fds -> {"menu", "login", "register", "online", "ended"}]
    BY <1>6 DEF Phases
  <2>4. SysTypeOK /\ answers' = answers /\ \A w \in Workers : Holds(at[w], hold[w])'
    BY <1>0, <1>2, HandsAre
  <2> QED BY <2>1, <2>2, <2>3, <2>4, <1>3, <1>7 DEF SysTypeOK
<1> QED BY <1>2, <1>8, <1>9 DEF SysKept

\* Who is told "ok" has logged in.
LEMMA OkIs ==
    ASSUME SysGood, NEW f \in Fds, NEW a \in AnswersOf(f), a.what = "ok"
    PROVE  \E name \in Users : LoggedIn(name, f)
<1>1. PICK r \in asked :
         /\ r.n = a.n
         /\ a.what = "ok" => r.ask.type = "login" /\ r.ask.right
         /\ IF a.what = "chat" THEN a.fd = Error \/ LoggedIn(r.ask.name, a.fd) ELSE a.fd = r.ask.fd
  BY DEF SysGood, Good, IInv, SentToLogins, AnswersOf
<1>2. r.ask.name \in Users /\ LoggedIn(r.ask.name, f)
  BY <1>1, RequestParts DEF AnswersOf, LoggedIn, SysGood, Good, TypeOK
<1> QED BY <1>2

\* recv() of a client tells it what was sent to it.
LEMMA ReceivesStep ==
    ASSUME SysGood, NEW f \in Fds, Receives(f)
    PROVE  SysKept'
<1> DEFINE a == Head(inbox[f])
<1>0. SysTypeOK /\ Hands /\ \A g \in Fds : Own(g) /\ Online(g)
  BY DEF SysGood, SysKept
<1>1. UNCHANGED <<vars, places, workers, up, down, link, sent>>
  BY DEF Receives
<1>2. UNCHANGED <<answers, asked, open, owner, home, accepted>> /\ Hands'
  BY <1>0, <1>1, HandsStay DEF vars, places
<1>3. PICK upto \in DOMAIN inbox[f] :
         /\ inbox' = [inbox EXCEPT ![f] = SubSeq(@, upto + 1, Len(@))]
         /\ lost' = IF upto > 1 THEN lost \cup {f} ELSE lost
  BY DEF Receives
<1>4. \A g \in Fds : /\ inbox[g] \in Seq(AnswersOf(g)) /\ told[g] \in Seq(AnswersOf(g))
                      /\ inbox[g] \in Seq(answers) /\ told[g] \in Seq(answers)
  BY <1>0 DEF SysTypeOK, Own
<1>5. a \in AnswersOf(f) /\ SubSeq(inbox[f], upto + 1, Len(inbox[f])) \in Seq(AnswersOf(f))
  BY <1>4, Taken
<1>6. a \in answers /\ SubSeq(inbox[f], upto + 1, Len(inbox[f])) \in Seq(answers)
  BY <1>4, Taken
<1>7. Append(told[f], a) \in Seq(AnswersOf(f)) /\ Append(told[f], a) \in Seq(answers)
  BY <1>4, <1>5, <1>6, AppendProperties
<1>8. told' = [told EXCEPT ![f] = Append(@, a)] /\ MoveTo(f, AfterAnswer(phase[f], a.what))
  BY DEF Receives
<1>9. recvbuf' = recvbuf \/ recvbuf' = [recvbuf EXCEPT ![f] = a]
  BY DEF Receives
<1> HIDE DEF a
<1>10. AfterAnswer(phase[f], a.what) \in Phases
       /\ (AfterAnswer(phase[f], a.what) = "online" => phase[f] = "online" \/ a.what = "ok")
  BY DEF AfterAnswer, Phases
<1>11. SysTypeOK'
  <2>1. inbox' \in [Fds -> Seq(answers)] /\ told' \in [Fds -> Seq(answers)]
    BY <1>0, <1>3, <1>6, <1>7, <1>8 DEF SysTypeOK
  <2>2. recvbuf' \in [Fds -> answers \cup {Nothing}] /\ lost' \subseteq Fds \cup {Error}
    BY <1>0, <1>3, <1>6, <1>9 DEF SysTypeOK
  <2>3. phase' \in [Fds -> {"menu", "login", "register", "online", "ended"}]
    BY <1>0, <1>8, <1>10 DEF SysTypeOK, MoveTo, Phases
  <2> QED BY <1>0, <1>1, <1>2, <2>1, <2>2, <2>3, HandsAre DEF SysTypeOK
<1>12. ASSUME NEW g \in Fds PROVE Own(g)'
  <2>1. inbox'[g] \in Seq(AnswersOf(g)) /\ told'[g] \in Seq(AnswersOf(g))
    BY <1>0, <1>3, <1>4, <1>5, <1>7, <1>8 DEF SysTypeOK
  <2>2. recvbuf'[g] \in AnswersOf(g) \cup {Nothing}
    BY <1>0, <1>5, <1>9 DEF SysTypeOK, Own
  <2> QED BY <1>0, <1>1, <1>2, <2>1, <2>2 DEF Own, AnswersOf, BaresOf
<1>13. ASSUME NEW g \in Fds PROVE Online(g)'
  <2>1. CASE g = f /\ phase[f] # "online" /\ phase'[f] = "online"
    <3>1. a.what = "ok"
      BY <1>0, <1>8, <1>10, <2>1 DEF SysTypeOK, MoveTo
    <3>2. \E name \in Users : LoggedIn(name, f)
      BY <1>5, <3>1, OkIs
    <3> QED BY <1>2, <2>1, <3>2 DEF Online, LoggedIn
  <2>2. CASE ~(g = f /\ phase[f] # "online" /\ phase'[f] = "online")
    <3>1. phase'[g] = "online" => phase[g] = "online"
      BY <1>0, <1>8, <2>2 DEF SysTypeOK, MoveTo
    <3> QED BY <1>0, <1>2, <3>1 DEF Online, LoggedIn
  <2> QED BY <2>1, <2>2
<1> QED BY <1>2, <1>11, <1>12, <1>13 DEF SysKept

\* What a failed recv() shows is the buffer of ReadThread, if it ever had any.
LEMMA FailsTold ==
    ASSUME SysTypeOK, NEW f \in Fds, ReceiveFails(f)
    PROVE  \/ told' = told
           \/ recvbuf[f] # Nothing /\ phase[f] = "online" /\ told' = [told EXCEPT ![f] = Append(@, recvbuf[f])]
<1>1. told' = told \/ (phase[f] = "online" /\ told' = [told EXCEPT ![f] = @ \o Parsed(recvbuf[f])])
  BY DEF ReceiveFails
<1>2. told[f] \o << >> = told[f]
  BY ConcatEmptySeq DEF SysTypeOK
<1>3. told \in [Fds -> Seq(answers)]
  BY DEF SysTypeOK
<1>4. CASE recvbuf[f] = Nothing
  <2>1. told' = told \/ told' = [told EXCEPT ![f] = told[f]]
    BY <1>1, <1>2, <1>4 DEF Parsed
  <2> QED BY <1>3, <2>1
<1>5. CASE recvbuf[f] # Nothing
  <2>1. told' = told \/ (phase[f] = "online" /\ told' = [told EXCEPT ![f] = told[f] \o <<recvbuf[f]>>])
    BY <1>1, <1>5 DEF Parsed
  <2>2. told[f] \o <<recvbuf[f]>> = Append(told[f], recvbuf[f])
    BY <1>3
  <2> QED BY <1>5, <2>1, <2>2
<1> QED BY <1>4, <1>5

\* A failed recv() shows again what was shown.
LEMMA ReceiveFailsStep ==
    ASSUME SysGood, NEW f \in Fds, ReceiveFails(f)
    PROVE  SysKept'
<1>0. SysTypeOK /\ Hands /\ \A g \in Fds : Own(g) /\ Online(g)
  BY DEF SysGood, SysKept
<1>1. UNCHANGED <<vars, places, workers, up, down, inbox, recvbuf, lost, sent>>
  BY DEF ReceiveFails
<1>2. UNCHANGED <<answers, asked, open, owner, home, accepted>> /\ Hands'
  BY <1>0, <1>1, HandsStay DEF vars, places
<1>3. told' = told \/ (recvbuf[f] # Nothing /\ told' = [told EXCEPT ![f] = Append(@, recvbuf[f])])
  BY <1>0, FailsTold
<1>4. ASSUME recvbuf[f] # Nothing
      PROVE  Append(told[f], recvbuf[f]) \in Seq(AnswersOf(f)) /\ Append(told[f], recvbuf[f]) \in Seq(answers)
  <2>1. recvbuf[f] \in AnswersOf(f) /\ recvbuf[f] \in answers
    BY <1>0, <1>4 DEF Own, AnswersOf
  <2>2. told[f] \in Seq(AnswersOf(f)) /\ told[f] \in Seq(answers)
    BY <1>0 DEF Own, SysTypeOK
  <2> QED BY <2>1, <2>2, AppendProperties
<1>5. /\ phase' \in [Fds -> {"menu", "login", "register", "online", "ended"}]
      /\ \A g \in Fds : phase'[g] = "online" => phase[g] = "online"
  BY <1>0 DEF ReceiveFails, SysTypeOK, MoveTo
<1>6. link' \in [Fds -> {"open", "fin", "reset", "dead", "closed"}]
  BY <1>0 DEF ReceiveFails, SysTypeOK, LinkIs, AfterFailure
<1>7. SysTypeOK'
  <2>1. told' \in [Fds -> Seq(answers)]
    BY <1>0, <1>3, <1>4 DEF SysTypeOK
  <2> QED BY <2>1, <1>0, <1>1, <1>2, <1>5, <1>6, HandsAre DEF SysTypeOK
<1>8. ASSUME NEW g \in Fds PROVE Own(g)'
  <2>1. told'[g] \in Seq(AnswersOf(g))
    BY <1>0, <1>3, <1>4 DEF SysTypeOK, Own
  <2> QED BY <1>0, <1>1, <1>2, <2>1 DEF Own, AnswersOf, BaresOf
<1>9. ASSUME NEW g \in Fds PROVE Online(g)'
  BY <1>0, <1>2, <1>5 DEF Online, LoggedIn
<1> QED BY <1>2, <1>7, <1>8, <1>9 DEF SysKept

\* The other steps of a client change neither what it is told nor its trust.
LEMMA EndsStep ==
    ASSUME SysGood, NEW f \in Fds, ReceivesEnd(f) \/ Dies(f)
    PROVE  SysKept'
<1>0. SysTypeOK /\ Hands /\ \A g \in Fds : Own(g) /\ Online(g)
  BY DEF SysGood, SysKept
<1>1. UNCHANGED <<vars, places, workers, up, down, inbox, recvbuf, told, lost, sent>>
  BY DEF ReceivesEnd, Dies
<1>2. UNCHANGED <<answers, asked, open, owner, home, accepted>> /\ Hands'
  BY <1>0, <1>1, HandsStay DEF vars, places
<1>3. /\ phase' \in [Fds -> {"menu", "login", "register", "online", "ended"}]
      /\ \A g \in Fds : phase'[g] = "online" => phase[g] = "online"
  BY <1>0 DEF ReceivesEnd, Dies, SysTypeOK, MoveTo
<1>4. link' \in [Fds -> {"open", "fin", "reset", "dead", "closed"}]
  BY <1>0 DEF ReceivesEnd, Dies, SysTypeOK, LinkIs
<1>5. SysTypeOK'
  BY <1>0, <1>1, <1>2, <1>3, <1>4, HandsAre DEF SysTypeOK
<1>6. ASSUME NEW g \in Fds PROVE Own(g)'
  BY <1>0, <1>1, <1>2 DEF Own, AnswersOf, BaresOf
<1>7. ASSUME NEW g \in Fds PROVE Online(g)'
  BY <1>0, <1>2, <1>3 DEF Online, LoggedIn
<1> QED BY <1>2, <1>5, <1>6, <1>7 DEF SysKept

-----------------------------------------------------------------------------
\* What grows does not spoil what clients have.
LEMMA Grown ==
    ASSUME SysGood, answers \subseteq answers', asked \subseteq asked', NEW g \in Fds
    PROVE  /\ \A q : q \in Seq(AnswersOf(g)) => q \in Seq(AnswersOf(g)')
           /\ \A q : q \in Seq(answers) => q \in Seq(answers')
           /\ AnswersOf(g) \subseteq AnswersOf(g)'
           /\ \A name : LoggedIn(name, g) => LoggedIn(name, g)'
<1>1. AnswersOf(g) \subseteq AnswersOf(g)'
  BY DEF AnswersOf
<1>2. \A name : LoggedIn(name, g) => LoggedIn(name, g)'
  BY DEF LoggedIn
<1> QED BY <1>1, <1>2, SeqMonotonic

\* A step of the workers' that concerns only their hands and some queues.
LEMMA StillKept ==
    ASSUME SysGood, answers \subseteq answers', asked \subseteq asked', Hands',
           UNCHANGED <<places, up, inbox, down, phase, link, recvbuf, told, lost, sent>>
    PROVE  SysKept'
<1>0. SysTypeOK /\ Hands /\ \A g \in Fds : Own(g) /\ Online(g)
  BY DEF SysGood, SysKept
<1>1. UNCHANGED <<open, owner, home, accepted, up, inbox, down, phase, link, recvbuf, told, lost, sent>>
  BY DEF places
<1>2. \A q : q \in Seq(answers) => q \in Seq(answers')
  BY SeqMonotonic
<1>3. SysTypeOK'
  <2>1. /\ inbox' \in [Fds -> Seq(answers')] /\ told' \in [Fds -> Seq(answers')]
        /\ down' \in [Servers -> Seq(answers')]
    BY <1>0, <1>1, <1>2 DEF SysTypeOK
  <2>2. recvbuf' \in [Fds -> answers' \cup {Nothing}]
    BY <1>0, <1>1 DEF SysTypeOK
  <2> QED BY <1>0, <1>1, <2>1, <2>2, HandsAre DEF SysTypeOK
<1>4. ASSUME NEW g \in Fds PROVE Own(g)' /\ Online(g)'
  <2>1. /\ \A q : q \in Seq(AnswersOf(g)) => q \in Seq(AnswersOf(g)')
        /\ AnswersOf(g) \subseteq AnswersOf(g)'
        /\ \A name : LoggedIn(name, g) => LoggedIn(name, g)'
    BY Grown
  <2>2. Own(g)'
    BY <1>0, <1>1, <2>1 DEF Own, BaresOf
  <2>3. Online(g)'
    BY <1>0, <1>1, <2>1 DEF Online
  <2> QED BY <2>2, <2>3
<1> QED BY <1>3, <1>4 DEF SysKept

\* A worker takes a request, and has it in hand as its client's.
LEMMA FromClientStep ==
    ASSUME SysGood, NEW w \in Workers, NEW f \in Fds, FromClient(w, f)
    PROVE  SysKept'
<1>0. SysTypeOK /\ Hands /\ \A g \in Fds : Own(g) /\ Online(g)
  BY DEF SysGood, SysKept
<1>1. /\ UNCHANGED <<answers, asked, open, owner, home, accepted>>
      /\ UNCHANGED <<down, inbox, phase, link, recvbuf, told, sent>>
  BY DEF FromClient, vars, places
<1>2. PICK upto \in DOMAIN up[f] :
         /\ up' = [up EXCEPT ![f] = SubSeq(@, upto + 1, Len(@))]
         /\ lost' = IF upto > 1 THEN lost \cup {f} ELSE lost
  BY DEF FromClient
<1>3. up[f] \in Seq(BaresOf(f)) /\ up[f] \in Seq(Bares)
  BY <1>0 DEF Own, SysTypeOK
<1>4. Head(up[f]) \in BaresOf(f) /\ SubSeq(up[f], upto + 1, Len(up[f])) \in Seq(BaresOf(f))
  BY <1>3, Taken
<1>5. Head(up[f]) \in Bares /\ SubSeq(up[f], upto + 1, Len(up[f])) \in Seq(Bares)
  BY <1>3, Taken
<1>6. Hands'
  <2> DEFINE h == [fd |-> f, ask |-> Head(up[f])]
  <2>1. HandIs("forward", h)
    BY <1>4, <1>5 DEF HandIs, Holds
  <2>2. Works(w, "forward", h)
    BY DEF FromClient
  <2> HIDE DEF h
  <2> QED BY <1>0, <1>1, <2>1, <2>2, HandsWork
<1>7. SysTypeOK'
  <2>1. up' \in [Fds -> Seq(Bares)]
    BY <1>0, <1>2, <1>5 DEF SysTypeOK
  <2>2. lost' \subseteq Fds \cup {Error}
    BY <1>0, <1>2 DEF SysTypeOK
  <2> QED BY <1>0, <1>1, <1>6, <2>1, <2>2, HandsAre DEF SysTypeOK
<1>8. ASSUME NEW g \in Fds PROVE Own(g)'
  <2>1. up'[g] \in Seq(BaresOf(g))
    BY <1>0, <1>2, <1>4 DEF Own, SysTypeOK
  <2> QED BY <1>0, <1>1, <2>1 DEF Own, AnswersOf, BaresOf
<1>9. ASSUME NEW g \in Fds PROVE Online(g)'
  BY <1>0, <1>1 DEF Online, LoggedIn
<1> QED BY <1>6, <1>7, <1>8, <1>9 DEF SysKept

\* It passes the request on, or deletes rows, and its hand is empty.
LEMMA HandOverStep ==
    ASSUME SysGood, NEW w \in Workers, Forward(w) \/ Purge(w) \/ ServerLeft(w),
           answers \subseteq answers', asked \subseteq asked'
    PROVE  SysKept'
<1>1. /\ UNCHANGED <<places, up, inbox, phase, link, recvbuf, told, sent, down, lost>>
      /\ Works(w, "loop", Nothing)
  BY DEF Forward, Purge, ServerLeft, clients
<1>2. HandIs("loop", Nothing) /\ Hands
  BY DEF HandIs, Holds, SysGood, SysKept
<1>3. Hands'
  BY <1>1, <1>2, HandsWork
<1> QED BY <1>1, <1>3, StillKept

\* A number of a client that left has no owner.
LEMMA ClientLeftStep ==
    ASSUME SysGood, NEW w \in Workers, NEW f \in Fds, ClientLeft(w, f) PROVE SysKept'
<1>0. SysTypeOK /\ Hands /\ \A g \in Fds : Own(g) /\ Online(g)
  BY DEF SysGood, SysKept
<1>1. /\ UNCHANGED <<answers, asked, home, accepted, up, inbox, down, phase, recvbuf, told, lost, sent>>
      /\ open' = open \ {f} /\ owner' = [owner EXCEPT ![f] = Nobody] /\ LinkIs(f, "closed")
  BY DEF ClientLeft, vars
<1>2. Hands'
  <2>1. HandIs("purge", [fd |-> f]) /\ Works(w, "purge", [fd |-> f])
    BY DEF ClientLeft, HandIs, Holds
  <2> QED BY <1>0, <1>1, <2>1, HandsWork
<1>3. SysTypeOK'
  <2>1. /\ link' \in [Fds -> {"open", "fin", "reset", "dead", "closed"}]
        /\ owner' \in [Fds -> Workers \cup {Nobody}] /\ open' \subseteq Fds
    BY <1>0, <1>1 DEF SysTypeOK, LinkIs
  <2> QED BY <1>0, <1>1, <1>2, <2>1, HandsAre DEF SysTypeOK
<1>4. ASSUME NEW g \in Fds PROVE Own(g)'
  BY <1>0, <1>1 DEF Own, AnswersOf, BaresOf
<1>5. ASSUME NEW g \in Fds PROVE Online(g)'
  BY <1>0, <1>1 DEF Online, LoggedIn
<1> QED BY <1>2, <1>3, <1>4, <1>5 DEF SysKept

\* Who gets a number starts with nothing sent, nothing told and no trust.
LEMMA AcceptStep ==
    ASSUME SysGood, NEW f \in Fds, Accept(f) PROVE SysKept'
<1>0. SysTypeOK /\ Hands /\ \A g \in Fds : Own(g) /\ Online(g)
  BY DEF SysGood, SysKept
<1>1. /\ UNCHANGED <<answers, asked, down, sent>>
      /\ up' = [up EXCEPT ![f] = << >>] /\ inbox' = [inbox EXCEPT ![f] = << >>]
      /\ told' = [told EXCEPT ![f] = << >>] /\ recvbuf' = [recvbuf EXCEPT ![f] = Nothing]
      /\ MoveTo(f, "menu") /\ LinkIs(f, "open")
      /\ open' = open \cup {f} /\ lost' = lost \ {f}
  BY DEF Accept, vars
<1>2. PICK w \in Workers, others \in SUBSET Workers, o \in Workers \cup {Nobody} :
         /\ owner' = [owner EXCEPT ![f] = o]
         /\ WorksAlone(w, "loop", Nothing, others, "pipe", Nothing)
  BY DEF Accept
<1>3. Hands'
  <2>1. HandIs("loop", Nothing) /\ HandIs("pipe", Nothing)
    BY DEF HandIs, Holds
  <2> QED BY <1>0, <1>1, <1>2, <2>1, HandsWorkAlone
<1>4. /\ accepted' \in 0..MaxClients /\ home' \in [Fds -> Servers]
  <2>1. accepted' = accepted + 1 /\ accepted < MaxClients /\ home' = [home EXCEPT ![f] = Hash[accepted']]
    BY DEF Accept
  <2>2. accepted' \in 1..MaxClients
    BY <1>0, <2>1, SystemAssumption DEF SysTypeOK
  <2>3. Hash[accepted'] \in Servers
    BY <2>2, SystemAssumption
  <2> QED BY <1>0, <2>1, <2>2, <2>3 DEF SysTypeOK
<1>5. SysTypeOK'
  <2>1. /\ up' \in [Fds -> Seq(Bares)] /\ inbox' \in [Fds -> Seq(answers)] /\ told' \in [Fds -> Seq(answers)]
        /\ recvbuf' \in [Fds -> answers \cup {Nothing}]
    BY <1>0, <1>1 DEF SysTypeOK
  <2>2. /\ phase' \in [Fds -> {"menu", "login", "register", "online", "ended"}]
        /\ link' \in [Fds -> {"open", "fin", "reset", "dead", "closed"}]
        /\ owner' \in [Fds -> Workers \cup {Nobody}]
        /\ open' \subseteq Fds /\ lost' \subseteq Fds \cup {Error}
    BY <1>0, <1>1, <1>2 DEF SysTypeOK, MoveTo, LinkIs
  <2> QED BY <1>0, <1>1, <1>3, <1>4, <2>1, <2>2, HandsAre DEF SysTypeOK
<1>6. ASSUME NEW g \in Fds PROVE Own(g)'
  <2>1. /\ up'[g] = up[g] \/ up'[g] = << >>
        /\ inbox'[g] = inbox[g] \/ inbox'[g] = << >>
        /\ told'[g] = told[g] \/ told'[g] = << >>
        /\ recvbuf'[g] = recvbuf[g] \/ recvbuf'[g] = Nothing
    BY <1>0, <1>1 DEF SysTypeOK
  <2>2. Own(g)
    BY <1>0
  <2> QED BY <1>1, <2>1, <2>2 DEF Own, AnswersOf, BaresOf
<1>7. ASSUME NEW g \in Fds PROVE Online(g)'
  BY <1>0, <1>1 DEF Online, LoggedIn, MoveTo, SysTypeOK
<1> QED BY <1>3, <1>5, <1>6, <1>7 DEF SysKept

\* A worker takes an answer, and has it in hand.
LEMMA FromServerStep ==
    ASSUME SysGood, NEW w \in Workers, NEW s \in Servers, FromServer(w, s) PROVE SysKept'
<1> DEFINE a == Head(down[s])
<1>0. SysTypeOK /\ TypeOK /\ Hands /\ \A g \in Fds : Own(g) /\ Online(g)
  BY DEF SysGood, SysKept, Good
<1>1. /\ UNCHANGED <<answers, asked, open, owner, home, accepted>>
      /\ UNCHANGED <<up, inbox, phase, link, recvbuf, told, sent>>
  BY DEF FromServer, vars, places, clients
<1>2. PICK upto \in DOMAIN down[s] :
         /\ down' = [down EXCEPT ![s] = SubSeq(@, upto + 1, Len(@))]
         /\ lost' = lost \cup {down[s][i].fd : i \in 2..upto}
  BY DEF FromServer
<1>3. down[s] \in Seq(answers)
  BY <1>0 DEF SysTypeOK
<1>4. a \in answers /\ SubSeq(down[s], upto + 1, Len(down[s])) \in Seq(answers)
  BY <1>3, Taken
<1>5. lost' \subseteq Fds \cup {Error}
  <2>1. \A i \in 2..upto : down[s][i] \in answers
    <3>1. upto \in 1..Len(down[s]) /\ Len(down[s]) \in Nat
      BY <1>3, LenProperties
    <3> QED BY <1>3, <3>1, ElementOfSeq
  <2>2. \A b \in answers : b.fd \in Fds \cup {Error}
    BY <1>0 DEF TypeOK
  <2> QED BY <1>0, <1>2, <2>1, <2>2 DEF SysTypeOK
<1>6. Hands'
  <2>1. PICK others \in SUBSET Workers : WorksAlone(w, "reply", a, others, "recv", s)
    BY DEF FromServer
  <2>2. HandIs("reply", a) /\ HandIs("recv", s)
    BY <1>4 DEF HandIs, Holds
  <2> HIDE DEF a
  <2> QED BY <1>0, <1>1, <2>1, <2>2, HandsWorkAlone
<1>7. SysTypeOK'
  <2>1. down' \in [Servers -> Seq(answers)]
    BY <1>0, <1>2, <1>4 DEF SysTypeOK
  <2> QED BY <1>0, <1>1, <1>5, <1>6, <2>1, HandsAre DEF SysTypeOK
<1>8. ASSUME NEW g \in Fds PROVE Own(g)' /\ Online(g)'
  <2>1. Own(g)'
    BY <1>0, <1>1 DEF Own, AnswersOf, BaresOf
  <2>2. Online(g)'
    BY <1>0, <1>1 DEF Online, LoggedIn
  <2> QED BY <2>1, <2>2
<1> QED BY <1>6, <1>7, <1>8 DEF SysKept

\* An answer goes on to the number it names.
LEMMA ReplyStep ==
    ASSUME SysGood, NEW w \in Workers, Reply(w) PROVE SysKept'
<1> DEFINE a == hold[w]
<1>0. SysTypeOK /\ Hands /\ \A g \in Fds : Own(g) /\ Online(g)
  BY DEF SysGood, SysKept
<1>1. /\ UNCHANGED <<answers, asked, open, owner, home, accepted>>
      /\ UNCHANGED <<up, down, phase, link, recvbuf, told, sent, lost>>
  BY DEF Reply, vars, places
<1>2. a \in answers
  BY <1>0 DEF Reply, Hands, HandIs, Holds
<1>3. inbox' = inbox \/ (a.fd \in Fds /\ inbox' = [inbox EXCEPT ![a.fd] = Append(@, a)])
  BY <1>0 DEF Reply, AddresseeOf, SysTypeOK
<1>4. Hands'
  <2>1. Works(w, "loop", Nothing) /\ HandIs("loop", Nothing)
    BY DEF Reply, HandIs, Holds
  <2> QED BY <1>0, <1>1, <2>1, HandsWork
<1> HIDE DEF a
<1>5. ASSUME NEW g \in Fds, a.fd = g
      PROVE  Append(inbox[g], a) \in Seq(AnswersOf(g)) /\ Append(inbox[g], a) \in Seq(answers)
  <2>1. a \in AnswersOf(g)
    BY <1>2, <1>5 DEF AnswersOf
  <2>2. inbox[g] \in Seq(AnswersOf(g)) /\ inbox[g] \in Seq(answers)
    BY <1>0, <1>5 DEF Own, SysTypeOK
  <2> QED BY <2>1, <2>2, <1>2, AppendProperties
<1>6. SysTypeOK'
  <2>1. inbox' \in [Fds -> Seq(answers)]
    <3>1. inbox \in [Fds -> Seq(answers)]
      BY <1>0 DEF SysTypeOK
    <3>2. a.fd \in Fds => Append(inbox[a.fd], a) \in Seq(answers)
      BY <1>5
    <3> QED BY <1>3, <3>1, <3>2
  <2> QED BY <1>0, <1>1, <1>4, <2>1, HandsAre DEF SysTypeOK
<1>7. ASSUME NEW g \in Fds PROVE Own(g)'
  <2>1. inbox'[g] \in Seq(AnswersOf(g))
    BY <1>0, <1>3, <1>5, ZenonT(40) DEF SysTypeOK, Own
  <2> QED BY <1>0, <1>1, <2>1 DEF Own, AnswersOf, BaresOf
<1>8. ASSUME NEW g \in Fds PROVE Online(g)'
  BY <1>0, <1>1 DEF Online, LoggedIn
<1> QED BY <1>4, <1>6, <1>7, <1>8 DEF SysKept

\* When the balancer ends, what was under way is gone.
LEMMA EndOfBalancerStep ==
    ASSUME SysGood, EndOfBalancer PROVE SysKept'
<1>0. SysTypeOK /\ Hands /\ \A g \in Fds : Own(g) /\ Online(g)
  BY DEF SysGood, SysKept
<1>1. UNCHANGED <<answers, asked, home, accepted, inbox, phase, recvbuf, told, lost, sent>>
  BY DEF EndOfBalancer, BalancerEnds
<1>2. /\ up' = [f \in Fds |-> << >>] /\ down' = [s \in Servers |-> << >>]
      /\ open' = {} /\ owner' = [f \in Fds |-> Nobody]
      /\ link' \in [Fds -> {"open", "fin", "reset", "dead", "closed"}]
  BY <1>0 DEF EndOfBalancer, SysTypeOK
<1>3. Hands'
  <2>1. at' = [w \in Workers |-> "loop"] /\ hold' = [w \in Workers |-> Nothing]
    BY DEF EndOfBalancer
  <2> QED BY <2>1 DEF Hands, HandIs, Holds
<1>4. SysTypeOK'
  BY <1>0, <1>1, <1>2, <1>3, HandsAre DEF SysTypeOK
<1>5. ASSUME NEW g \in Fds PROVE Own(g)'
  <2>1. up'[g] \in Seq(BaresOf(g))
    BY <1>2
  <2> QED BY <1>0, <1>1, <2>1 DEF Own, AnswersOf, BaresOf
<1>6. ASSUME NEW g \in Fds PROVE Online(g)'
  BY <1>0, <1>1 DEF Online, LoggedIn
<1> QED BY <1>3, <1>4, <1>5, <1>6 DEF SysKept

\* A server sends towards the balancer.
LEMMA ServerStep ==
    ASSUME SysGood, NEW s \in Servers, Server(s), answers \subseteq answers', asked \subseteq asked'
    PROVE  SysKept'
<1>0. SysTypeOK /\ Hands /\ Good /\ \A g \in Fds : Own(g) /\ Online(g)
  BY DEF SysGood, SysKept
<1>1. /\ UNCHANGED <<open, owner, home, accepted, up, inbox, phase, link, recvbuf, told, sent>>
      /\ Hands'
  BY <1>0, HandsStay DEF Server, clients, places
<1>2. \A q : q \in Seq(answers) => q \in Seq(answers')
  BY SeqMonotonic
<1>3. down' \in [Servers -> Seq(answers')]
  <2> DEFINE a == CHOOSE x \in answers' : x \notin answers
  <2>1. down \in [Servers -> Seq(answers')]
    BY <1>0, <1>2 DEF SysTypeOK
  <2>2. CASE down' = down
    BY <2>1, <2>2
  <2>3. CASE answers' # answers /\ down' = [down EXCEPT ![s] = Append(@, a)]
    <3>1. a \in answers'
      BY <2>3
    <3> HIDE DEF a
    <3>2. Append(down[s], a) \in Seq(answers')
      BY <2>1, <3>1, AppendProperties
    <3> QED BY <2>1, <2>3, <3>2
  <2> QED BY <2>2, <2>3 DEF Server
<1>4. lost' \subseteq Fds \cup {Error}
  <2>1. lost \subseteq Fds \cup {Error} /\ recvd[s] \in Seq(Request)
    BY <1>0 DEF SysTypeOK, Good, TypeOK
  <2>2. CASE lost' = lost
    BY <2>1, <2>2
  <2>3. CASE /\ pc[s] = "recv" /\ recvd[s] # << >>
             /\ lost' = lost \cup {recvd[s][i].ask.fd : i \in 2..(Len(recvd[s]) - Len(recvd'[s]))}
    <3>1. Len(recvd[s]) \in Nat /\ Len(recvd'[s]) \in Nat
      BY <1>0, <2>1, ServerType, LenProperties DEF Server, TypeOK
    <3>2. \A i \in 2..(Len(recvd[s]) - Len(recvd'[s])) : recvd[s][i] \in Request
      BY <2>1, <3>1, ElementOfSeq
    <3> QED BY <2>1, <2>3, <3>2, RequestParts
  <2> QED BY <2>2, <2>3 DEF Server
<1>5. SysTypeOK'
  <2>1. inbox' \in [Fds -> Seq(answers')] /\ told' \in [Fds -> Seq(answers')]
    BY <1>0, <1>1, <1>2 DEF SysTypeOK
  <2>2. recvbuf' \in [Fds -> answers' \cup {Nothing}]
    BY <1>0, <1>1 DEF SysTypeOK
  <2> QED BY <1>0, <1>1, <1>3, <1>4, <2>1, <2>2, HandsAre DEF SysTypeOK
<1>6. ASSUME NEW g \in Fds PROVE Own(g)' /\ Online(g)'
  <2>1. /\ \A q : q \in Seq(AnswersOf(g)) => q \in Seq(AnswersOf(g)')
        /\ AnswersOf(g) \subseteq AnswersOf(g)'
        /\ \A name : LoggedIn(name, g) => LoggedIn(name, g)'
    BY Grown
  <2>2. Own(g)'
    BY <1>0, <1>1, <2>1 DEF Own, BaresOf
  <2>3. Online(g)'
    BY <1>0, <1>1, <2>1 DEF Online
  <2> QED BY <2>2, <2>3
<1> QED BY <1>1, <1>5, <1>6 DEF SysKept

-----------------------------------------------------------------------------
\* The invariant holds at the start.
LEMMA SysGoodInit == SysInit => SysGood
<1> SUFFICES ASSUME SysInit PROVE SysGood
  OBVIOUS
<1>1. Good
  BY GoodInit DEF SysInit
<1>2. Hands
  BY DEF SysInit, Hands, HandIs, Holds
<1>3. SysTypeOK
  <2>1. \A w \in Workers : Holds(at[w], hold[w])
    BY <1>2 DEF Hands, HandIs
  <2>2. Hash[1] \in Servers /\ 0 \in 0..MaxClients /\ 0 \in 0..MaxRequests
    BY ChatAssumption, SystemAssumption
  <2> QED BY <2>1, <2>2 DEF SysInit, SysTypeOK
<1>4. \A f \in Fds : Own(f) /\ Online(f)
  BY DEF SysInit, Own, Online
<1> QED BY <1>1, <1>2, <1>3, <1>4 DEF SysGood, SysKept

\* Every step of the system keeps it.
LEMMA SysGoodStep == SysGood /\ [SysNext]_sysvars => SysGood'
<1> SUFFICES ASSUME SysGood, [SysNext]_sysvars PROVE SysGood'
  OBVIOUS
<1>1. [Next]_vars
  BY ServersStep
<1>2. Good' /\ answers \subseteq answers' /\ asked \subseteq asked'
  BY <1>1, GoodStep, NothingTaken DEF SysGood
<1>3. ASSUME NEW f \in Fds, Client(f) PROVE SysKept'
  BY <1>3, SendsStep, ReceivesStep, ReceiveFailsStep, EndsStep DEF Client
<1>4. ASSUME NEW f \in Fds, Accept(f) PROVE SysKept'
  BY <1>4, AcceptStep
<1>5. ASSUME NEW w \in Workers, Worker(w) PROVE SysKept'
  <2>1. ASSUME NEW f \in Fds, FromClient(w, f) \/ ClientLeft(w, f) PROVE SysKept'
    BY <2>1, FromClientStep, ClientLeftStep
  <2>2. ASSUME NEW s \in Servers, FromServer(w, s) PROVE SysKept'
    BY <2>2, FromServerStep
  <2>3. CASE Forward(w) \/ Purge(w) \/ ServerLeft(w)
    BY <1>2, <2>3, HandOverStep
  <2>4. CASE Reply(w)
    BY <2>4, ReplyStep
  <2> QED BY <1>5, <2>1, <2>2, <2>3, <2>4 DEF Worker
<1>6. ASSUME NEW s \in Servers, Server(s) PROVE SysKept'
  BY <1>2, <1>6, ServerStep
<1>7. CASE EndOfBalancer
  BY <1>2, <1>7, EndOfBalancerStep DEF SysGood
<1>8. CASE UNCHANGED sysvars
  <2>1. UNCHANGED <<places, up, inbox, down, phase, link, recvbuf, told, lost, sent>> /\ UNCHANGED workers
    BY <1>8 DEF sysvars, clients
  <2>2. Hands'
    BY <1>2, <2>1, HandsStay DEF SysGood, SysKept
  <2> QED BY <1>2, <2>1, <2>2, StillKept DEF SysGood
<1> QED BY <1>2, <1>3, <1>4, <1>5, <1>6, <1>7, <1>8 DEF SysNext, SysGood

\* The invariant holds throughout.
LEMMA SysGoodAlways == SysSpec => []SysGood
BY SysGoodInit, SysGoodStep, PTL DEF SysSpec

\* Behind the balancer the servers behave as ChatServer says, so that every
\* theorem about Spec is one about the system.
THEOREM ServersAsSpecified == SysSpec => Spec
<1>1. SysInit => Init
  BY DEF SysInit
<1>2. SysGood /\ [SysNext]_sysvars => [Next]_vars
  BY ServersStep
<1> QED BY <1>1, <1>2, SysGoodAlways, PTL DEF SysSpec, Spec

\* The types, and that what arrives anywhere was sent.
THEOREM SystemTypes == SysSpec => []SysTypeOK
<1>1. SysGood => SysTypeOK
  BY DEF SysGood, SysKept
<1> QED BY <1>1, SysGoodAlways, PTL

\* A client is told only what answers a request made under its number, or what
\* was written to a name that logged in under it: no answer reaches another
\* number, whichever workers forward and reply, and whatever is coalesced, fails
\* or ends (ToldItsOwn).
THEOREM NoStrangersAnswers == SysSpec => []ToldItsOwn
<1>1. SysGood => ToldItsOwn
  <2> SUFFICES ASSUME SysGood, NEW f \in Fds, NEW i \in DOMAIN told[f]
               PROVE  \E r \in asked :
                        /\ r.n = told[f][i].n
                        /\ IF told[f][i].what = "chat" THEN LoggedIn(r.ask.name, f) ELSE r.ask.fd = f
    BY DEF ToldItsOwn
  <2> DEFINE a == told[f][i]
  <2>1. told[f] \in Seq(AnswersOf(f))
    BY DEF SysGood, SysKept, Own
  <2>2. a \in AnswersOf(f)
    BY <2>1, ElementOfSeq
  <2> HIDE DEF a
  <2>3. PICK r \in asked :
           /\ r.n = a.n
           /\ IF a.what = "chat" THEN a.fd = Error \/ LoggedIn(r.ask.name, a.fd) ELSE a.fd = r.ask.fd
    BY <2>2 DEF SysGood, Good, IInv, SentToLogins, AnswersOf
  <2>4. a.fd = f /\ f # Error
    BY <2>2, Codes DEF AnswersOf
  <2> QED BY <2>3, <2>4 DEF a
<1> QED BY <1>1, SysGoodAlways, PTL

\* Under the number of whoever chats somebody has logged in with a right
\* password (OnlineLoggedIn).
THEOREM OnlineByLogin == SysSpec => []OnlineLoggedIn
<1>1. SysGood => OnlineLoggedIn
  BY DEF SysGood, SysKept, Online, OnlineLoggedIn
<1> QED BY <1>1, SysGoodAlways, PTL

-----------------------------------------------------------------------------
\* What is in a queue, and queues without repetition.
In(a, q)  == \E i \in DOMAIN q : q[i] = a
NoTwice(q) == \A i, j \in DOMAIN q : q[i] = q[j] => i = j

\* Indices in what a recv() leaves.
LEMMA RestIs ==
    ASSUME NEW S, NEW q \in Seq(S), NEW k \in DOMAIN q
    PROVE  LET r == SubSeq(q, k + 1, Len(q))
           IN  /\ \A i \in DOMAIN r : i + k \in DOMAIN q /\ r[i] = q[i + k]
               /\ DOMAIN r \subseteq Nat \ {0} /\ k \in Nat \ {0}
               /\ 1 \in DOMAIN q /\ Head(q) = q[1]
<1> DEFINE r == SubSeq(q, k + 1, Len(q))
           l == Len(q)
<1>1. l \in Nat /\ k \in 1..l /\ DOMAIN q = 1..l /\ \A i \in 1..l : q[i] \in S
  BY LenProperties, ElementOfSeq
<1>2. k + 1 \in Int /\ l \in Int /\ \A i \in (k + 1)..l : q[i] \in S
  BY <1>1
<1>3. r \in Seq(S) /\ \A i \in 1..(l - (k + 1) + 1) : r[i] = q[(k + 1) + i - 1]
  BY <1>2, SubSeqProperties
<1>4. Len(r) = l - k
  BY Taken
<1>5. DOMAIN r = 1..(l - k)
  BY <1>3, <1>4
<1>6. Head(q) = q[1] /\ 1 \in DOMAIN q
  BY <1>1
<1> HIDE DEF r, l
<1>7. ASSUME NEW i \in 1..(l - k) PROVE i + k \in 1..l /\ r[i] = q[i + k]
  <2>1. i \in 1..(l - (k + 1) + 1) /\ (k + 1) + i - 1 = i + k /\ i + k \in 1..l
    BY <1>1
  <2> QED BY <1>3, <2>1
<1>8. DOMAIN r \subseteq Nat \ {0} /\ k \in Nat \ {0}
  BY <1>1, <1>5
<1>9. \A i \in DOMAIN r : i + k \in DOMAIN q /\ r[i] = q[i + k]
  BY <1>1, <1>5, <1>7
<1> QED BY <1>6, <1>8, <1>9 DEF r, l

\* What recv() leaves was there, behind the first.
LEMMA RestKeeps ==
    ASSUME NEW S, NEW q \in Seq(S), NEW k \in DOMAIN q
    PROVE  LET r == SubSeq(q, k + 1, Len(q))
           IN  /\ \A a : In(a, r) => In(a, q)
               /\ In(Head(q), q)
               /\ NoTwice(q) => NoTwice(r) /\ ~In(Head(q), r)
<1> DEFINE r == SubSeq(q, k + 1, Len(q))
<1>1. /\ \A i \in DOMAIN r : i + k \in DOMAIN q /\ r[i] = q[i + k]
      /\ DOMAIN r \subseteq Nat \ {0} /\ k \in Nat \ {0}
      /\ 1 \in DOMAIN q /\ Head(q) = q[1]
  BY RestIs
<1> HIDE DEF r
<1>2. \A i \in DOMAIN r : 1 < i + k /\ 1 # i + k
  BY <1>1
<1>3. \A i, j \in DOMAIN r : /\ i < j => i + k < j + k
                             /\ i + k = j + k => i = j
  BY <1>1
<1>4. (\A a : In(a, r) => In(a, q)) /\ In(Head(q), q)
  BY <1>1 DEF In
<1>5. NoTwice(q) => NoTwice(r) /\ ~In(Head(q), r)
  BY <1>1, <1>2, <1>3 DEF NoTwice, In
<1> QED BY <1>4, <1>5 DEF r

\* What is sent comes last.
LEMMA AppendKeeps ==
    ASSUME NEW S, NEW q \in Seq(S), NEW a \in S
    PROVE  LET r == Append(q, a)
           IN  /\ \A b : In(b, r) <=> In(b, q) \/ b = a
               /\ NoTwice(q) /\ ~In(a, q) => NoTwice(r)
<1> DEFINE r == Append(q, a)
           l == Len(q)
<1>1. /\ l \in Nat /\ DOMAIN q = 1..l /\ DOMAIN r = 1..(l + 1)
      /\ r[l + 1] = a /\ \A i \in 1..l : r[i] = q[i]
  BY AppendProperties, LenProperties
<1> HIDE DEF r, l
<1>2. \A i \in 1..(l + 1) : i \in 1..l \/ i = l + 1
  BY <1>1
<1>3. \A i \in 1..l : i \in 1..(l + 1) /\ i # l + 1 /\ ~(l + 1 < i)
  BY <1>1
<1>4. l + 1 \in 1..(l + 1) /\ ~(l + 1 < l + 1)
  BY <1>1
<1>5. \A b : In(b, r) <=> In(b, q) \/ b = a
  BY <1>1, <1>2, <1>3, <1>4 DEF In
<1>6. NoTwice(q) /\ ~In(a, q) => NoTwice(r)
  BY <1>1, <1>2, <1>3, <1>4 DEF NoTwice, In
<1> QED BY <1>5, <1>6 DEF r

\* An empty queue.
LEMMA NoneIn == NoTwice(<< >>) /\ \A a : ~In(a, << >>)
<1>1. DOMAIN << >> = {}
  OBVIOUS
<1> QED BY <1>1 DEF In, NoTwice

-----------------------------------------------------------------------------
\* Why no answer is parsed twice, as an inductive invariant: an answer lies in
\* one place on its way from a server to the client's parser, a connection is
\* reset only when the balancer has ended, and what ReadThread has in its buffer
\* is what it parsed last.
Lies(a, kind, x) ==
    \/ kind = "down"  /\ x \in Servers /\ In(a, down[x])
    \/ kind = "hand"  /\ x \in Workers /\ at[x] = "reply" /\ hold[x] = a
    \/ kind = "inbox" /\ x \in Fds /\ In(a, inbox[x])
    \/ kind = "told"  /\ x \in Fds /\ In(a, told[x])

OnePlace ==
    /\ \A s \in Servers : NoTwice(down[s])
    /\ \A f \in Fds : NoTwice(inbox[f])
    /\ \A a, k, x, l, y : Lies(a, k, x) /\ Lies(a, l, y) => k = l /\ x = y

Unlinked(f) == link[f] \in {"fin", "reset", "dead"} => ~linked

Buffered(f) ==
    recvbuf[f] # Nothing =>
        /\ Len(told[f]) \in DOMAIN told[f] /\ recvbuf[f] = told[f][Len(told[f])]
        /\ phase[f] \in {"online", "ended"}

SeenTwice(f) ==
    \A i, j \in DOMAIN told[f] :
        i < j /\ told[f][i] = told[f][j] =>
            /\ j = i + 1 /\ j = Len(told[f])
            /\ ~linked /\ inbox[f] = << >> /\ link[f] \in {"dead", "closed"}

Single == OnePlace /\ \A f \in Fds : Unlinked(f) /\ Buffered(f) /\ SeenTwice(f)

\* Where there is more to read, nothing was parsed twice.
LEMMA SeenOnce ==
    ASSUME SysGood, NEW f \in Fds, SeenTwice(f),
           linked \/ inbox[f] # << >> \/ link[f] \notin {"dead", "closed"}
    PROVE  NoTwice(told[f])
<1>1. Len(told[f]) \in Nat /\ DOMAIN told[f] = 1..Len(told[f])
  BY LenProperties DEF SysGood, SysKept, SysTypeOK
<1>2. \A i, j \in DOMAIN told[f] : i < j => told[f][i] # told[f][j]
  BY DEF SeenTwice
<1>3. \A i, j \in DOMAIN told[f] : i = j \/ i < j \/ j < i
  BY <1>1
<1> QED BY <1>2, <1>3 DEF NoTwice

\* No two indices, no repetition.
LEMMA NoneSeenTwice ==
    ASSUME NEW f \in Fds, SysTypeOK', NoTwice(told'[f]) PROVE SeenTwice(f)'
<1>1. Len(told'[f]) \in Nat /\ DOMAIN told'[f] = 1..Len(told'[f])
  BY LenProperties DEF SysTypeOK
<1>2. \A i, j \in DOMAIN told'[f] : i < j => i # j
  BY <1>1
<1> QED BY <1>2 DEF NoTwice, SeenTwice

\* One answer moves to a place, and is nowhere else then.
LEMMA OneMovesTo ==
    ASSUME OnePlace, NEW a, NEW k, NEW x,
           \A b, l, y : Lies(b, l, y)' => IF b = a THEN l = k /\ y = x ELSE Lies(b, l, y)
    PROVE  \A b, m, z, l, y : Lies(b, m, z)' /\ Lies(b, l, y)' => m = l /\ z = y
<1> SUFFICES ASSUME NEW b, NEW m, NEW z, NEW l, NEW y, Lies(b, m, z)', Lies(b, l, y)'
             PROVE  m = l /\ z = y
  OBVIOUS
<1>1. CASE b = a
  BY <1>1
<1>2. CASE b # a
  <2>1. Lies(b, m, z) /\ Lies(b, l, y)
    BY <1>2
  <2> QED BY <2>1 DEF OnePlace
<1> QED BY <1>1, <1>2

\* A step in which no answer moves to another place, though some may get lost.
LEMMA NoneMovesTo ==
    ASSUME OnePlace, \A b, l, y : Lies(b, l, y)' => Lies(b, l, y)
    PROVE  \A b, m, z, l, y : Lies(b, m, z)' /\ Lies(b, l, y)' => m = l /\ z = y
<1> SUFFICES ASSUME NEW b, NEW m, NEW z, NEW l, NEW y, Lies(b, m, z)', Lies(b, l, y)'
             PROVE  m = l /\ z = y
  OBVIOUS
<1>1. Lies(b, m, z) /\ Lies(b, l, y)
  OBVIOUS
<1> QED BY <1>1 DEF OnePlace

\* What workers have in hand for a client, when they do not reply.
LEMMA HandsEmptied ==
    ASSUME Hands, NEW w \in Workers, NEW l, NEW h, Works(w, l, h), l # "reply"
    PROVE  \A v \in Workers : at'[v] = "reply" => v # w /\ at[v] = "reply" /\ hold'[v] = hold[v]
BY DEF Hands, Works

\* The buffers and connections of the clients in a step in which they are told
\* nothing.
LEMMA NothingTold ==
    ASSUME Single, UNCHANGED <<inbox, told, recvbuf>>, linked' => linked, NEW f \in Fds,
           link'[f] \in {"fin", "reset", "dead"} => ~linked',
           link[f] \in {"dead", "closed"} => link'[f] \in {"dead", "closed"},
           recvbuf[f] # Nothing => phase'[f] \in {"online", "ended"}
    PROVE  Unlinked(f)' /\ Buffered(f)' /\ SeenTwice(f)'
<1>1. Unlinked(f) /\ Buffered(f) /\ SeenTwice(f)
  BY DEF Single
<1>2. Unlinked(f)'
  BY DEF Unlinked
<1>3. Buffered(f)'
  BY <1>1 DEF Buffered
<1>4. SeenTwice(f)'
  BY <1>1 DEF SeenTwice
<1> QED BY <1>2, <1>3, <1>4

\* A step in which queues stay and workers at most empty their hands.
LEMMA QueuesStay ==
    ASSUME Single, UNCHANGED <<down, inbox, told>>,
           \A v \in Workers : at'[v] = "reply" => at[v] = "reply" /\ hold'[v] = hold[v]
    PROVE  OnePlace'
<1>1. OnePlace
  BY DEF Single
<1>2. ASSUME NEW b, NEW l, NEW y, Lies(b, l, y)' PROVE Lies(b, l, y)
  BY <1>2 DEF Lies, In
<1>3. \A b, m, z, l, y : Lies(b, m, z)' /\ Lies(b, l, y)' => m = l /\ z = y
  BY <1>1, <1>2, NoneMovesTo
<1>4. /\ \A s \in Servers : NoTwice(down[s])'
      /\ \A f \in Fds : NoTwice(inbox[f])'
  BY <1>1 DEF OnePlace, NoTwice
<1> QED BY <1>3, <1>4 DEF OnePlace

\* What a recv() of a client moves.
LEMMA ReceivesMoves ==
    ASSUME SysGood, NEW f \in Fds, Receives(f)
    PROVE  \E a \in answers :
              /\ UNCHANGED <<vars, workers, down, link>>
              /\ \A g \in Fds \ {f} : /\ inbox'[g] = inbox[g] /\ told'[g] = told[g]
                                      /\ recvbuf'[g] = recvbuf[g] /\ phase'[g] = phase[g]
              /\ told'[f] = Append(told[f], a) /\ a = Head(inbox[f])
              /\ inbox[f] \in Seq(answers) /\ inbox[f] # << >>
              /\ \E k \in DOMAIN inbox[f] : inbox'[f] = SubSeq(inbox[f], k + 1, Len(inbox[f]))
              /\ \/ recvbuf'[f] = a /\ phase'[f] = "online"
                 \/ recvbuf'[f] = recvbuf[f] /\ phase[f] \in {"login", "register"}
<1> DEFINE a == Head(inbox[f])
<1>1. SysTypeOK
  BY DEF SysGood, SysKept
<1>2. PICK k \in DOMAIN inbox[f] : inbox' = [inbox EXCEPT ![f] = SubSeq(@, k + 1, Len(@))]
  BY DEF Receives
<1>3. inbox[f] \in Seq(answers) /\ inbox \in [Fds -> Seq(answers)] /\ told \in [Fds -> Seq(answers)]
  BY <1>1 DEF SysTypeOK
<1>4. a \in answers /\ inbox[f] # << >>
  BY <1>2, <1>3, Taken
<1>5. UNCHANGED <<vars, workers, down, link>>
  BY DEF Receives
<1>6. /\ told' = [told EXCEPT ![f] = Append(@, a)]
      /\ phase' = [phase EXCEPT ![f] = AfterAnswer(phase[f], a.what)]
      /\ phase[f] \in {"login", "register", "online"}
      /\ recvbuf' = IF phase[f] = "online" THEN [recvbuf EXCEPT ![f] = a] ELSE recvbuf
  BY DEF Receives, MoveTo, Reading
<1> HIDE DEF a
<1>7. phase \in [Fds -> Phases] /\ recvbuf \in [Fds -> answers \cup {Nothing}]
  BY <1>1 DEF SysTypeOK, Phases
<1>8. phase[f] = "online" => AfterAnswer(phase[f], a.what) = "online"
  BY DEF AfterAnswer
<1>9. \/ recvbuf'[f] = a /\ phase'[f] = "online"
      \/ recvbuf'[f] = recvbuf[f] /\ phase[f] \in {"login", "register"}
  BY <1>6, <1>7, <1>8
<1>10. \A g \in Fds \ {f} : /\ inbox'[g] = inbox[g] /\ told'[g] = told[g]
                            /\ recvbuf'[g] = recvbuf[g] /\ phase'[g] = phase[g]
  BY <1>2, <1>3, <1>6, <1>7
<1>11. told'[f] = Append(told[f], a) /\ inbox'[f] = SubSeq(inbox[f], k + 1, Len(inbox[f]))
  BY <1>2, <1>3, <1>6
<1> QED BY <1>3, <1>4, <1>5, <1>9, <1>10, <1>11 DEF a

\* A client takes its answers from its queue, and parses the first.
LEMMA SingleReceives ==
    ASSUME SysGood, SysGood', Single, NEW f \in Fds, Receives(f) PROVE Single'
<1>1. PICK a \in answers :
         /\ UNCHANGED <<vars, workers, down, link>>
         /\ \A g \in Fds \ {f} : /\ inbox'[g] = inbox[g] /\ told'[g] = told[g]
                                 /\ recvbuf'[g] = recvbuf[g] /\ phase'[g] = phase[g]
         /\ told'[f] = Append(told[f], a) /\ a = Head(inbox[f])
         /\ inbox[f] \in Seq(answers) /\ inbox[f] # << >>
         /\ \E k \in DOMAIN inbox[f] : inbox'[f] = SubSeq(inbox[f], k + 1, Len(inbox[f]))
         /\ \/ recvbuf'[f] = a /\ phase'[f] = "online"
            \/ recvbuf'[f] = recvbuf[f] /\ phase[f] \in {"login", "register"}
  BY ReceivesMoves
<1>2. PICK k \in DOMAIN inbox[f] : inbox'[f] = SubSeq(inbox[f], k + 1, Len(inbox[f]))
  BY <1>1
<1>3. /\ \A b : In(b, inbox'[f]) => In(b, inbox[f])
      /\ In(a, inbox[f])
      /\ NoTwice(inbox[f]) => NoTwice(inbox'[f]) /\ ~In(a, inbox'[f])
  BY <1>1, <1>2, RestKeeps
<1>4. told[f] \in Seq(answers) /\ linked' = linked
  BY <1>1 DEF SysGood, SysKept, SysTypeOK, vars
<1>5. /\ \A b : In(b, told'[f]) <=> In(b, told[f]) \/ b = a
      /\ NoTwice(told[f]) /\ ~In(a, told[f]) => NoTwice(told'[f])
      /\ Len(told'[f]) \in DOMAIN told'[f] /\ told'[f][Len(told'[f])] = a
  <2>1. /\ DOMAIN Append(told[f], a) = 1..(Len(told[f]) + 1) /\ Len(told[f]) \in Nat
        /\ Len(Append(told[f], a)) = Len(told[f]) + 1
        /\ Append(told[f], a)[Len(told[f]) + 1] = a
    BY <1>4, AppendProperties, LenProperties
  <2>2. Len(told[f]) + 1 \in 1..(Len(told[f]) + 1)
    BY <2>1
  <2> QED BY <1>1, <1>4, <2>1, <2>2, AppendKeeps
<1>6. OnePlace /\ \A g \in Fds : Unlinked(g) /\ Buffered(g) /\ SeenTwice(g)
  BY DEF Single
<1>7. \A l, y : Lies(a, l, y) => l = "inbox" /\ y = f
  <2>1. Lies(a, "inbox", f)
    BY <1>3 DEF Lies
  <2> QED BY <1>6, <2>1 DEF OnePlace
<1>8. ~In(a, told[f]) /\ NoTwice(told[f]) /\ NoTwice(inbox[f])
  <2>1. ~Lies(a, "told", f)
    BY <1>7
  <2> QED BY <1>1, <1>6, <2>1, SeenOnce DEF OnePlace, Lies
<1>9. OnePlace'
  <2>1. ASSUME NEW g \in Fds PROVE NoTwice(inbox'[g])
    BY <1>1, <1>3, <1>6 DEF OnePlace
  <2>2. ASSUME NEW b, NEW l, NEW y, Lies(b, l, y)'
        PROVE  IF b = a THEN l = "told" /\ y = f ELSE Lies(b, l, y)
    <3>1. CASE l = "down" /\ y \in Servers /\ In(b, down'[y])
      <4>1. Lies(b, l, y)
        BY <1>1, <3>1 DEF Lies
      <4> QED BY <1>7, <3>1, <4>1
    <3>2. CASE l = "hand" /\ y \in Workers /\ at'[y] = "reply" /\ hold'[y] = b
      <4>1. Lies(b, l, y)
        BY <1>1, <3>2 DEF Lies, workers
      <4> QED BY <1>7, <3>2, <4>1
    <3>3. CASE l = "inbox" /\ y \in Fds /\ In(b, inbox'[y])
      <4>1. Lies(b, l, y)
        BY <1>1, <1>3, <3>3 DEF Lies
      <4>2. b # a
        BY <1>3, <1>7, <1>8, <3>3, <4>1
      <4> QED BY <4>1, <4>2
    <3>4. CASE l = "told" /\ y \in Fds /\ In(b, told'[y])
      <4>1. CASE y = f
        BY <1>5, <3>4, <4>1 DEF Lies
      <4>2. CASE y # f
        <5>1. Lies(b, l, y)
          BY <1>1, <3>4, <4>2 DEF Lies
        <5> QED BY <1>7, <3>4, <5>1
      <4> QED BY <4>1, <4>2
    <3> QED BY <2>2, <3>1, <3>2, <3>3, <3>4 DEF Lies, In
  <2>3. \A b, m, z, l, y : Lies(b, m, z)' /\ Lies(b, l, y)' => m = l /\ z = y
    BY <1>6, <2>2, OneMovesTo
  <2>4. \A s \in Servers : NoTwice(down'[s])
    BY <1>1, <1>6 DEF OnePlace
  <2> QED BY <2>1, <2>3, <2>4 DEF OnePlace, NoTwice
<1>10. ASSUME NEW g \in Fds PROVE Unlinked(g)' /\ Buffered(g)' /\ SeenTwice(g)'
  <2>1. Unlinked(g)'
    BY <1>1, <1>4, <1>6 DEF Unlinked
  <2>2. CASE g = f
    <3>1. Buffered(g)'
      BY <1>1, <1>5, <1>6, <2>2 DEF Buffered
    <3>2. SeenTwice(g)'
      BY <1>5, <1>8, <2>2, NoneSeenTwice DEF SysGood, SysKept
    <3> QED BY <2>1, <3>1, <3>2
  <2>3. CASE g # f
    <3>1. Buffered(g)'
      BY <1>1, <1>6, <2>3 DEF Buffered
    <3>2. SeenTwice(g)'
      BY <1>1, <1>4, <1>6, <2>3, SMTT(20) DEF SeenTwice
    <3> QED BY <2>1, <3>1, <3>2
  <2> QED BY <2>2, <2>3
<1> QED BY <1>9, <1>10 DEF Single

\* ReadThread parses its buffer again, once: the error does not come back.
LEMMA SingleFails ==
    ASSUME SysGood, SysGood', Single, NEW f \in Fds, ReceiveFails(f) PROVE Single'
<1>0. /\ SysTypeOK
      /\ OnePlace /\ \A g \in Fds : Unlinked(g) /\ Buffered(g) /\ SeenTwice(g)
  BY DEF SysGood, SysKept, Single
<1>1. /\ UNCHANGED <<vars, workers, up, down, inbox, recvbuf, lost, sent>>
      /\ link[f] = "reset" /\ link' = [link EXCEPT ![f] = "dead"] /\ inbox[f] = << >>
      /\ phase' = phase \/ (phase[f] # "online" /\ phase[f] # "ended" /\ phase' = [phase EXCEPT ![f] = "menu"])
  BY DEF ReceiveFails, LinkIs, AfterFailure, MoveTo, Reading
<1>2. linked' = linked /\ ~linked
  BY <1>0, <1>1 DEF vars, Unlinked
<1>3. ASSUME NEW g \in Fds
      PROVE  /\ link'[g] \in {"fin", "reset", "dead"} => ~linked'
             /\ link[g] \in {"dead", "closed"} => link'[g] \in {"dead", "closed"}
             /\ recvbuf[g] # Nothing => phase'[g] \in {"online", "ended"}
  BY <1>0, <1>1, <1>2 DEF SysTypeOK, Buffered
<1>4. CASE told' = told
  <2>1. \A g \in Fds : Unlinked(g)' /\ Buffered(g)' /\ SeenTwice(g)'
    BY <1>1, <1>2, <1>3, <1>4, NothingTold
  <2>2. OnePlace'
    BY <1>1, <1>4, QueuesStay DEF workers
  <2> QED BY <2>1, <2>2 DEF Single
<1>5. CASE recvbuf[f] # Nothing /\ told' = [told EXCEPT ![f] = Append(@, recvbuf[f])]
  <2> DEFINE l == Len(told[f])
  <2>1. /\ l \in Nat /\ DOMAIN told[f] = 1..l /\ l \in 1..l /\ told[f][l] = recvbuf[f]
    BY <1>0, <1>5, LenProperties DEF SysTypeOK, Buffered
  <2>2. NoTwice(told[f])
    BY <1>0, <1>1, SeenOnce
  <2>3. /\ told'[f] = Append(told[f], recvbuf[f])
        /\ \A g \in Fds \ {f} : told'[g] = told[g]
        /\ link'[f] = "dead"
    BY <1>0, <1>1, <1>5 DEF SysTypeOK
  <2>4. /\ DOMAIN told'[f] = 1..(l + 1) /\ Len(told'[f]) = l + 1 /\ told'[f][l + 1] = recvbuf[f]
        /\ \A i \in 1..l : told'[f][i] = told[f][i]
    <3>1. recvbuf[f] \in answers /\ told[f] \in Seq(answers)
      BY <1>0, <1>5 DEF SysTypeOK
    <3> QED BY <2>3, <3>1, AppendProperties, LenProperties
  <2> HIDE DEF l
  <2>5. \A i \in 1..(l + 1) : i \in 1..l \/ i = l + 1
    BY <2>1
  <2>6. \A b : In(b, told'[f]) => In(b, told[f])
    BY <2>1, <2>4, <2>5 DEF In
  <2>7. OnePlace'
    <3>1. \A g \in Fds : \A b : In(b, told'[g]) => In(b, told[g])
      BY <2>3, <2>6
    <3>2. UNCHANGED <<down, inbox, at, hold>>
      BY <1>1 DEF workers
    <3>3. ASSUME NEW b, NEW m, NEW z, Lies(b, m, z)' PROVE Lies(b, m, z)
      <4>1. CASE m = "told" /\ z \in Fds /\ In(b, told'[z])
        BY <3>1, <4>1 DEF Lies
      <4>2. CASE ~(m = "told" /\ z \in Fds /\ In(b, told'[z]))
        BY <3>2, <3>3, <4>2 DEF Lies, In
      <4> QED BY <4>1, <4>2
    <3>4. \A b, m, z, n, y : Lies(b, m, z)' /\ Lies(b, n, y)' => m = n /\ z = y
      BY <1>0, <3>3, NoneMovesTo
    <3>5. /\ \A s \in Servers : NoTwice(down[s])'
          /\ \A g \in Fds : NoTwice(inbox[g])'
      BY <1>0, <3>2 DEF OnePlace, NoTwice
    <3> QED BY <3>4, <3>5 DEF OnePlace
  <2>8. SeenTwice(f)'
    <3> SUFFICES ASSUME NEW i \in 1..(l + 1), NEW j \in 1..(l + 1), i < j, told'[f][i] = told'[f][j]
                 PROVE  j = i + 1 /\ j = l + 1
      BY <1>1, <1>2, <2>3, <2>4 DEF SeenTwice
    <3>1. i \in 1..l
      BY <2>1
    <3>2. j \notin 1..l
      <4>1. SUFFICES ASSUME j \in 1..l PROVE FALSE
        OBVIOUS
      <4>2. i = j
        BY <2>1, <2>2, <2>4, <3>1, <4>1 DEF NoTwice
      <4> QED BY <4>2, <2>1
    <3>3. j = l + 1
      BY <2>5, <3>2
    <3>4. i = l
      BY <2>1, <2>2, <2>4, <3>1, <3>3 DEF NoTwice
    <3> QED BY <3>3, <3>4
  <2>9. Buffered(f)'
    <3>1. l + 1 \in 1..(l + 1)
      BY <2>1
    <3> QED BY <1>1, <1>3, <2>4, <3>1 DEF Buffered
  <2>10. ASSUME NEW g \in Fds PROVE Unlinked(g)' /\ Buffered(g)' /\ SeenTwice(g)'
    <3>1. Unlinked(g)'
      BY <1>3 DEF Unlinked
    <3>2. CASE g = f
      BY <2>8, <2>9, <3>1, <3>2
    <3>3. CASE g # f
      <4>1. Buffered(g)'
        BY <1>0, <1>1, <1>3, <2>3, <3>3 DEF Buffered
      <4>2. SeenTwice(g)'
        BY <1>0, <1>1, <1>2, <1>3, <2>3, <3>3 DEF SeenTwice
      <4> QED BY <3>1, <4>1, <4>2
    <3> QED BY <3>2, <3>3
  <2> QED BY <2>7, <2>10 DEF Single
<1>6. told' = told \/ (recvbuf[f] # Nothing /\ told' = [told EXCEPT ![f] = Append(@, recvbuf[f])])
  BY <1>0, FailsTold
<1> QED BY <1>4, <1>5, <1>6

\* The other steps of a client move no answer.
LEMMA SingleQuiet ==
    ASSUME SysGood, Single, NEW f \in Fds,
           (\E a \in Inputs : Sends(f, a)) \/ ReceivesEnd(f) \/ Dies(f)
    PROVE  Single'
<1>0. /\ SysTypeOK /\ \A g \in Fds : Unlinked(g) /\ Buffered(g)
  BY DEF SysGood, SysKept, Single
<1>1. UNCHANGED <<down, inbox, told, recvbuf, linked, at, hold>>
  BY DEF Sends, ReceivesEnd, Dies, vars, workers
<1>2. \A g \in Fds : recvbuf[g] # Nothing => phase'[g] \in {"online", "ended"}
  <2>1. ASSUME NEW a \in Inputs, Sends(f, a)
        PROVE  \A g \in Fds : recvbuf[g] # Nothing => phase'[g] \in {"online", "ended"}
    <3>1. a.type \in Types
      BY RequestAssumption DEF Ask
    <3>2. /\ phase' \in {[phase EXCEPT ![f] = p] : p \in {AfterSend(a.type), AfterError(a.type), "ended"}}
          /\ MayAsk(f, a.type)
      BY <2>1 DEF Sends, MoveTo
    <3>3. phase[f] = "online" =>
            AfterSend(a.type) \in {"online", "ended"} /\ AfterError(a.type) \in {"online", "ended"}
      BY <3>1, <3>2 DEF MayAsk, AfterSend, AfterError
    <3>4. recvbuf[f] # Nothing => phase[f] = "online"
      BY <1>0, <3>2 DEF Buffered, MayAsk
    <3> QED BY <1>0, <3>2, <3>3, <3>4 DEF Buffered, SysTypeOK
  <2>2. CASE ReceivesEnd(f) \/ Dies(f)
    BY <1>0, <2>2 DEF ReceivesEnd, Dies, MoveTo, Buffered, SysTypeOK
  <2> QED BY <2>1, <2>2
<1>3. \/ link' = link
      \/ link[f] = "fin" /\ link' = [link EXCEPT ![f] = "reset"]
      \/ link[f] = "reset" /\ link' = [link EXCEPT ![f] = "dead"]
      \/ link' = [link EXCEPT ![f] = "closed"]
  BY DEF Sends, ReceivesEnd, Dies, LinkIs
<1>4. \A g \in Fds : /\ link'[g] \in {"fin", "reset", "dead"} => ~linked'
                     /\ link[g] \in {"dead", "closed"} => link'[g] \in {"dead", "closed"}
  BY <1>0, <1>1, <1>3 DEF SysTypeOK, Unlinked
<1>5. \A g \in Fds : Unlinked(g)' /\ Buffered(g)' /\ SeenTwice(g)'
  BY <1>1, <1>2, <1>4, NothingTold
<1>6. OnePlace'
  BY <1>1, QueuesStay
<1> QED BY <1>5, <1>6 DEF Single

\* What a worker does with its clients' requests moves no answer.
LEMMA SingleRequests ==
    ASSUME SysGood, Single, NEW w \in Workers,
           \/ \E f \in Fds : FromClient(w, f) \/ ClientLeft(w, f)
           \/ Forward(w) \/ Purge(w) \/ ServerLeft(w)
    PROVE  Single'
<1>0. SysTypeOK /\ Hands /\ \A g \in Fds : Unlinked(g) /\ Buffered(g)
  BY DEF SysGood, SysKept, Single
<1>1. UNCHANGED <<down, inbox, told, recvbuf, phase, linked>>
  BY DEF FromClient, ClientLeft, Forward, Purge, ServerLeft, Arrive, PurgeRow, vars, clients
<1>2. link' = link \/ \E f \in Fds : link' = [link EXCEPT ![f] = "closed"]
  BY DEF FromClient, ClientLeft, Forward, Purge, ServerLeft, LinkIs, clients
<1>3. PICK l, h : l \in {"loop", "forward", "purge"} /\ Works(w, l, h)
  <2>1. CASE \E f \in Fds : FromClient(w, f)
    <3>1. PICK f \in Fds : Works(w, "forward", [fd |-> f, ask |-> Head(up[f])])
      BY <2>1 DEF FromClient
    <3> QED BY <3>1
  <2>2. CASE \E f \in Fds : ClientLeft(w, f)
    <3>1. PICK f \in Fds : Works(w, "purge", [fd |-> f])
      BY <2>2 DEF ClientLeft
    <3> QED BY <3>1
  <2>3. CASE Forward(w) \/ Purge(w) \/ ServerLeft(w)
    <3>1. Works(w, "loop", Nothing)
      BY <2>3 DEF Forward, Purge, ServerLeft
    <3> QED BY <3>1
  <2> QED BY <2>1, <2>2, <2>3
<1>4. \A v \in Workers : at'[v] = "reply" => at[v] = "reply" /\ hold'[v] = hold[v]
  BY <1>0, <1>3, HandsEmptied
<1>5. ASSUME NEW g \in Fds PROVE Unlinked(g)' /\ Buffered(g)' /\ SeenTwice(g)'
  <2>1. /\ link'[g] \in {"fin", "reset", "dead"} => ~linked'
        /\ link[g] \in {"dead", "closed"} => link'[g] \in {"dead", "closed"}
    BY <1>0, <1>1, <1>2 DEF SysTypeOK, Unlinked
  <2>2. recvbuf[g] # Nothing => phase'[g] \in {"online", "ended"}
    BY <1>0, <1>1 DEF Buffered
  <2> QED BY <1>1, <2>1, <2>2, NothingTold
<1>6. OnePlace'
  BY <1>1, <1>4, QueuesStay
<1> QED BY <1>5, <1>6 DEF Single

\* Who gets a number has been told nothing.
LEMMA SingleAccept ==
    ASSUME SysGood, Single, NEW f \in Fds, Accept(f) PROVE Single'
<1>0. /\ SysTypeOK /\ Hands /\ OnePlace
      /\ \A g \in Fds : Unlinked(g) /\ Buffered(g) /\ SeenTwice(g)
  BY DEF SysGood, SysKept, Single
<1>1. /\ UNCHANGED <<down, linked>> /\ linked
      /\ inbox' = [inbox EXCEPT ![f] = << >>] /\ told' = [told EXCEPT ![f] = << >>]
      /\ recvbuf' = [recvbuf EXCEPT ![f] = Nothing]
      /\ phase' = [phase EXCEPT ![f] = "menu"] /\ link' = [link EXCEPT ![f] = "open"]
  BY DEF Accept, vars, MoveTo, LinkIs
<1>2. PICK w \in Workers, others \in SUBSET Workers : WorksAlone(w, "loop", Nothing, others, "pipe", Nothing)
  BY DEF Accept
<1>3. \A v \in Workers : at'[v] = "reply" => at[v] = "reply" /\ hold'[v] = hold[v]
  BY <1>2 DEF WorksAlone
<1>4. \A g \in Fds : /\ inbox'[g] = inbox[g] \/ inbox'[g] = << >>
                     /\ told'[g] = told[g] \/ told'[g] = << >>
  BY <1>0, <1>1 DEF SysTypeOK
<1>5. OnePlace'
  <2>1. ASSUME NEW b, NEW l, NEW y, Lies(b, l, y)' PROVE Lies(b, l, y)
    <3>1. CASE l \in {"down", "hand"}
      BY <1>1, <1>3, <2>1, <3>1 DEF Lies, In
    <3>2. CASE l = "inbox" /\ y \in Fds /\ In(b, inbox'[y])
      BY <1>4, <3>2, NoneIn DEF Lies
    <3>3. CASE l = "told" /\ y \in Fds /\ In(b, told'[y])
      BY <1>4, <3>3, NoneIn DEF Lies
    <3> QED BY <2>1, <3>1, <3>2, <3>3 DEF Lies, In
  <2>2. \A b, m, z, l, y : Lies(b, m, z)' /\ Lies(b, l, y)' => m = l /\ z = y
    BY <1>0, <2>1, NoneMovesTo
  <2>3. \A s \in Servers : NoTwice(down'[s])
    BY <1>0, <1>1 DEF OnePlace
  <2>4. \A g \in Fds : NoTwice(inbox'[g])
    BY <1>0, <1>4, NoneIn DEF OnePlace
  <2> QED BY <2>2, <2>3, <2>4 DEF OnePlace, NoTwice
<1>6. ASSUME NEW g \in Fds PROVE Unlinked(g)' /\ Buffered(g)' /\ SeenTwice(g)'
  <2>1. CASE g = f
    <3>1. told'[f] = << >> /\ recvbuf'[f] = Nothing /\ link'[f] = "open"
      BY <1>0, <1>1 DEF SysTypeOK
    <3>2. DOMAIN << >> = {}
      OBVIOUS
    <3> QED BY <2>1, <3>1, <3>2 DEF Unlinked, Buffered, SeenTwice
  <2>2. CASE g # f
    <3>1. /\ inbox'[g] = inbox[g] /\ told'[g] = told[g] /\ recvbuf'[g] = recvbuf[g]
          /\ phase'[g] = phase[g] /\ link'[g] = link[g]
      BY <1>0, <1>1, <2>2 DEF SysTypeOK
    <3>2. Unlinked(g) /\ Buffered(g) /\ SeenTwice(g)
      BY <1>0
    <3>3. Unlinked(g)'
      BY <1>1, <3>1, <3>2 DEF Unlinked
    <3>4. Buffered(g)'
      BY <3>1, <3>2 DEF Buffered
    <3>5. SeenTwice(g)'
      BY <1>1, <3>1, <3>2 DEF SeenTwice
    <3> QED BY <3>3, <3>4, <3>5
  <2> QED BY <2>1, <2>2
<1> QED BY <1>5, <1>6 DEF Single

\* The end of the balancer takes away what was on its way to it.
LEMMA SingleEnd == ASSUME SysGood, Single, EndOfBalancer PROVE Single'
<1>0. /\ SysTypeOK /\ OnePlace /\ \A g \in Fds : Unlinked(g) /\ Buffered(g)
  BY DEF SysGood, SysKept, Single
<1>1. /\ UNCHANGED <<inbox, told, recvbuf, phase>> /\ ~linked'
      /\ down' = [s \in Servers |-> << >>] /\ at' = [w \in Workers |-> "loop"]
      /\ \A g \in Fds : link[g] \in {"dead", "closed"} => link'[g] \in {"dead", "closed"}
  BY <1>0 DEF EndOfBalancer, BalancerEnds
<1>2. ASSUME NEW g \in Fds PROVE Unlinked(g)' /\ Buffered(g)' /\ SeenTwice(g)'
  <2>1. recvbuf[g] # Nothing => phase'[g] \in {"online", "ended"}
    BY <1>0, <1>1 DEF Buffered
  <2> QED BY <1>1, <2>1, NothingTold
<1>3. OnePlace'
  <2>1. \A s \in Servers : NoTwice(down'[s]) /\ \A b : ~In(b, down'[s])
    BY <1>1, NoneIn
  <2>2. ASSUME NEW b, NEW l, NEW y, Lies(b, l, y)' PROVE Lies(b, l, y)
    <3>1. l # "down" /\ l # "hand"
      <4>1. l = "down" => y \in Servers /\ In(b, down'[y])
        BY <2>2 DEF Lies, In
      <4>2. l = "hand" => y \in Workers /\ at'[y] = "reply"
        BY <2>2 DEF Lies
      <4> QED BY <1>1, <2>1, <4>1, <4>2
    <3> QED BY <1>1, <2>2, <3>1 DEF Lies, In
  <2>3. \A b, m, z, l, y : Lies(b, m, z)' /\ Lies(b, l, y)' => m = l /\ z = y
    BY <1>0, <2>2, NoneMovesTo
  <2>4. \A g \in Fds : NoTwice(inbox[g])'
    BY <1>0, <1>1 DEF OnePlace, NoTwice
  <2> QED BY <2>1, <2>3, <2>4 DEF OnePlace, NoTwice
<1> QED BY <1>2, <1>3 DEF Single

\* A worker takes answers from a server's connection, and has the first in hand.
LEMMA SingleFromServer ==
    ASSUME SysGood, Single, NEW w \in Workers, NEW s \in Servers, FromServer(w, s) PROVE Single'
<1> DEFINE a == Head(down[s])
<1>0. /\ SysTypeOK /\ OnePlace /\ \A g \in Fds : Unlinked(g) /\ Buffered(g) /\ SeenTwice(g)
  BY DEF SysGood, SysKept, Single
<1>1. UNCHANGED <<linked, inbox, told, recvbuf, phase, link>>
  BY DEF FromServer, vars, clients
<1>2. PICK k \in DOMAIN down[s] : down' = [down EXCEPT ![s] = SubSeq(@, k + 1, Len(@))]
  BY DEF FromServer
<1>3. down[s] \in Seq(answers) /\ down \in [Servers -> Seq(answers)]
  BY <1>0 DEF SysTypeOK
<1>4. /\ \A b : In(b, down'[s]) => In(b, down[s])
      /\ In(a, down[s])
      /\ NoTwice(down[s]) => NoTwice(down'[s]) /\ ~In(a, down'[s])
  <2>1. down'[s] = SubSeq(down[s], k + 1, Len(down[s]))
    BY <1>2, <1>3
  <2> QED BY <1>3, <2>1, RestKeeps
<1>5. PICK others \in SUBSET Workers : WorksAlone(w, "reply", a, others, "recv", s)
  BY DEF FromServer
<1> HIDE DEF a
<1>6. \A l, y : Lies(a, l, y) => l = "down" /\ y = s
  <2>1. Lies(a, "down", s)
    BY <1>4 DEF Lies
  <2> QED BY <1>0, <2>1 DEF OnePlace
<1>7. \A t \in Servers \ {s} : down'[t] = down[t]
  BY <1>2, <1>3
<1>8. OnePlace'
  <2>1. ASSUME NEW b, NEW l, NEW y, Lies(b, l, y)'
        PROVE  IF b = a THEN l = "hand" /\ y = w ELSE Lies(b, l, y)
    <3>1. CASE l = "down" /\ y \in Servers /\ In(b, down'[y])
      <4>1. Lies(b, l, y)
        BY <1>4, <1>7, <3>1 DEF Lies
      <4>2. b # a
        BY <1>0, <1>4, <1>6, <3>1, <4>1 DEF OnePlace
      <4> QED BY <4>1, <4>2
    <3>2. CASE l = "hand" /\ y \in Workers /\ at'[y] = "reply" /\ hold'[y] = b
      <4>1. CASE y = w
        BY <1>5, <3>2, <4>1 DEF WorksAlone
      <4>2. CASE y # w
        <5>1. Lies(b, l, y)
          BY <1>5, <3>2, <4>2 DEF Lies, WorksAlone
        <5> QED BY <1>6, <3>2, <5>1
      <4> QED BY <4>1, <4>2
    <3>3. CASE l \in {"inbox", "told"}
      <4>1. Lies(b, l, y)
        BY <1>1, <2>1, <3>3 DEF Lies, In
      <4> QED BY <1>6, <3>3, <4>1
    <3> QED BY <2>1, <3>1, <3>2, <3>3 DEF Lies, In
  <2>2. \A b, m, z, l, y : Lies(b, m, z)' /\ Lies(b, l, y)' => m = l /\ z = y
    BY <1>0, <2>1, OneMovesTo
  <2>3. \A t \in Servers : NoTwice(down'[t])
    BY <1>0, <1>4, <1>7 DEF OnePlace
  <2>4. \A g \in Fds : NoTwice(inbox[g])'
    BY <1>0, <1>1 DEF OnePlace, NoTwice
  <2> QED BY <2>2, <2>3, <2>4 DEF OnePlace, NoTwice
<1>9. ASSUME NEW g \in Fds PROVE Unlinked(g)' /\ Buffered(g)' /\ SeenTwice(g)'
  <2>1. Unlinked(g) /\ Buffered(g) /\ SeenTwice(g)
    BY <1>0
  <2> QED BY <1>1, <2>1 DEF Unlinked, Buffered, SeenTwice
<1> QED BY <1>8, <1>9 DEF Single

\* A worker passes an answer on, or loses it.
LEMMA SingleReply ==
    ASSUME SysGood, Single, NEW w \in Workers, Reply(w) PROVE Single'
<1> DEFINE a == hold[w]
<1>0. /\ SysTypeOK /\ Hands /\ OnePlace /\ \A g \in Fds : Unlinked(g) /\ Buffered(g) /\ SeenTwice(g)
  BY DEF SysGood, SysKept, Single
<1>1. UNCHANGED <<linked, down, told, recvbuf, phase, link>> /\ at[w] = "reply"
  BY DEF Reply, vars
<1>2. a \in answers
  BY <1>0, <1>1 DEF Hands, HandIs, Holds
<1>3. inbox' = inbox \/ (a.fd \in open /\ inbox' = [inbox EXCEPT ![a.fd] = Append(@, a)])
  BY DEF Reply, AddresseeOf
<1>4. \A v \in Workers : at'[v] = "reply" => v # w /\ at[v] = "reply" /\ hold'[v] = hold[v]
  <2>1. Works(w, "loop", Nothing)
    BY DEF Reply
  <2> QED BY <1>0, <2>1, HandsEmptied
<1>5. \A l, y : Lies(a, l, y) => l = "hand" /\ y = w
  <2>1. Lies(a, "hand", w)
    BY <1>1 DEF Lies
  <2> QED BY <1>0, <2>1 DEF OnePlace
<1> HIDE DEF a
<1>6. CASE inbox' = inbox
  <2>1. OnePlace'
    BY <1>1, <1>4, <1>6, QueuesStay
  <2>2. ASSUME NEW g \in Fds PROVE Unlinked(g)' /\ Buffered(g)' /\ SeenTwice(g)'
    <3>1. Unlinked(g) /\ Buffered(g) /\ SeenTwice(g)
      BY <1>0
    <3> QED BY <1>1, <1>6, <3>1 DEF Unlinked, Buffered, SeenTwice
  <2> QED BY <2>1, <2>2 DEF Single
<1>7. CASE a.fd \in open /\ inbox' = [inbox EXCEPT ![a.fd] = Append(@, a)]
  <2> DEFINE f == a.fd
  <2>1. f \in Fds /\ inbox[f] \in Seq(answers) /\ inbox'[f] = Append(inbox[f], a)
        /\ \A g \in Fds \ {f} : inbox'[g] = inbox[g]
    BY <1>0, <1>7 DEF SysTypeOK
  <2> HIDE DEF f
  <2>2. ~In(a, inbox[f])
    <3>1. In(a, inbox[f]) => Lies(a, "inbox", f)
      BY <2>1 DEF Lies
    <3>2. ~Lies(a, "inbox", f)
      BY <1>5
    <3> QED BY <3>1, <3>2
  <2>3. /\ \A b : In(b, inbox'[f]) <=> In(b, inbox[f]) \/ b = a
        /\ NoTwice(inbox'[f])
    <3>1. NoTwice(inbox[f])
      BY <1>0, <2>1 DEF OnePlace
    <3> QED BY <1>2, <2>1, <2>2, <3>1, AppendKeeps
  <2>4. OnePlace'
    <3>1. ASSUME NEW b, NEW l, NEW y, Lies(b, l, y)'
          PROVE  IF b = a THEN l = "inbox" /\ y = f ELSE Lies(b, l, y)
      <4>1. CASE l \in {"down", "told"}
        <5>1. Lies(b, l, y)
          BY <1>1, <3>1, <4>1 DEF Lies, In
        <5> QED BY <1>5, <4>1, <5>1
      <4>2. CASE l = "hand" /\ y \in Workers /\ at'[y] = "reply" /\ hold'[y] = b
        <5>1. Lies(b, l, y) /\ y # w
          BY <1>4, <4>2 DEF Lies
        <5> QED BY <1>5, <5>1
      <4>3. CASE l = "inbox" /\ y \in Fds /\ In(b, inbox'[y])
        <5>1. CASE y = f
          BY <2>3, <4>3, <5>1 DEF Lies
        <5>2. CASE y # f
          <6>1. Lies(b, l, y)
            BY <2>1, <4>3, <5>2 DEF Lies
          <6> QED BY <1>5, <4>3, <6>1
        <5> QED BY <5>1, <5>2
      <4> QED BY <3>1, <4>1, <4>2, <4>3 DEF Lies, In
    <3>2. \A b, m, z, l, y : Lies(b, m, z)' /\ Lies(b, l, y)' => m = l /\ z = y
      BY <1>0, <3>1, OneMovesTo
    <3>3. \A g \in Fds : NoTwice(inbox'[g])
      BY <1>0, <2>1, <2>3 DEF OnePlace
    <3>4. \A s \in Servers : NoTwice(down[s])'
      BY <1>0, <1>1 DEF OnePlace, NoTwice
    <3> QED BY <3>2, <3>3, <3>4 DEF OnePlace, NoTwice
  <2>5. ASSUME NEW g \in Fds PROVE Unlinked(g)' /\ Buffered(g)' /\ SeenTwice(g)'
    <3>1. Unlinked(g) /\ Buffered(g) /\ SeenTwice(g)
      BY <1>0
    <3>2. linked
      BY DEF Reply
    <3>3. Unlinked(g)' /\ Buffered(g)'
      BY <1>1, <3>1 DEF Unlinked, Buffered
    <3>4. SeenTwice(g)'
      BY <1>1, <3>1, <3>2 DEF SeenTwice
    <3> QED BY <3>3, <3>4
  <2> QED BY <2>4, <2>5 DEF Single
<1> QED BY <1>3, <1>6, <1>7

\* What a server's step moves.
LEMMA ServerMoves ==
    ASSUME SysGood, NEW s \in Servers, Server(s)
    PROVE  /\ ReadThread(s) /\ UNCHANGED <<workers, clients, linked>>
           /\ \A t \in Servers \ {s} : down'[t] = down[t]
           /\ down'[s] = down[s] \/ \E a \in answers' \ answers : down'[s] = Append(down[s], a)
<1> DEFINE a == CHOOSE x \in answers' : x \notin answers
<1>0. SysTypeOK /\ Good
  BY DEF SysGood, SysKept
<1>1. ReadThread(s) /\ UNCHANGED <<workers, clients, linked>>
  BY DEF Server, ReadThread
<1>2. down \in [Servers -> Seq(answers)]
  BY <1>0 DEF SysTypeOK
<1>3. CASE down' = down
  BY <1>1, <1>3
<1>4. CASE answers' # answers /\ down' = [down EXCEPT ![s] = Append(@, a)]
  <2>1. answers \subseteq answers'
    BY <1>0, <1>1, OwnLocals
  <2>2. a \in answers' \ answers
    BY <1>4, <2>1
  <2> HIDE DEF a
  <2> QED BY <1>1, <1>2, <1>4, <2>2
<1>5. down' = down \/ (answers' # answers /\ down' = [down EXCEPT ![s] = Append(@, a)])
  BY DEF Server
<1> QED BY <1>3, <1>4, <1>5

\* A server sends what is new.
LEMMA SingleServer ==
    ASSUME SysGood, Single, NEW s \in Servers, Server(s) PROVE Single'
<1>0. /\ SysTypeOK /\ Hands /\ Good
      /\ OnePlace /\ \A g \in Fds : Unlinked(g) /\ Buffered(g) /\ SeenTwice(g)
  BY DEF SysGood, SysKept, Single
<1>1. /\ ReadThread(s) /\ UNCHANGED <<workers, clients, linked>>
      /\ \A t \in Servers \ {s} : down'[t] = down[t]
      /\ down'[s] = down[s] \/ \E a \in answers' \ answers : down'[s] = Append(down[s], a)
  BY ServerMoves
<1>2. UNCHANGED <<inbox, told, recvbuf, phase, link, at, hold>>
  BY <1>1 DEF clients, workers
<1>3. ASSUME NEW g \in Fds PROVE Unlinked(g)' /\ Buffered(g)' /\ SeenTwice(g)'
  <2>1. Unlinked(g) /\ Buffered(g) /\ SeenTwice(g)
    BY <1>0
  <2> QED BY <1>1, <1>2, <2>1 DEF Unlinked, Buffered, SeenTwice
<1>4. \A g \in Fds : NoTwice(inbox[g])'
  BY <1>0, <1>2 DEF OnePlace, NoTwice
<1>5. CASE down'[s] = down[s]
  <2>1. \A t \in Servers : down'[t] = down[t]
    BY <1>1, <1>5
  <2>2. ASSUME NEW b, NEW l, NEW y, Lies(b, l, y)' PROVE Lies(b, l, y)
    BY <1>2, <2>1, <2>2 DEF Lies, In
  <2>3. \A b, m, z, l, y : Lies(b, m, z)' /\ Lies(b, l, y)' => m = l /\ z = y
    BY <1>0, <2>2, NoneMovesTo
  <2>4. \A t \in Servers : NoTwice(down'[t])
    BY <1>0, <2>1 DEF OnePlace
  <2>5. OnePlace'
    BY <1>4, <2>3, <2>4 DEF OnePlace, NoTwice
  <2> QED BY <1>3, <2>5 DEF Single
<1>6. ASSUME NEW a \in answers' \ answers, down'[s] = Append(down[s], a) PROVE Single'
  <2>1. ASSUME NEW q \in Seq(answers) PROVE ~In(a, q)
    BY <1>6, <2>1, ElementOfSeq, LenProperties DEF In
  <2>2. \A l, y : ~Lies(a, l, y)
    <3>1. /\ \A t \in Servers : ~In(a, down[t])
          /\ \A g \in Fds : ~In(a, inbox[g]) /\ ~In(a, told[g])
      BY <1>0, <2>1 DEF SysTypeOK
    <3>2. \A v \in Workers : at[v] = "reply" => hold[v] # a
      BY <1>0 DEF Hands, HandIs, Holds
    <3> QED BY <3>1, <3>2 DEF Lies
  <2>3. down[s] \in Seq(answers') /\ a \in answers'
    BY <1>0, <1>1, SeqMonotonic, OwnLocals DEF SysTypeOK
  <2>4. /\ \A b : In(b, down'[s]) <=> In(b, down[s]) \/ b = a
        /\ NoTwice(down[s]) /\ ~In(a, down[s]) => NoTwice(down'[s])
    BY <1>6, <2>3, AppendKeeps
  <2>5. ASSUME NEW b, NEW l, NEW y, Lies(b, l, y)'
        PROVE  IF b = a THEN l = "down" /\ y = s ELSE Lies(b, l, y)
    <3>1. CASE l = "down" /\ y \in Servers /\ In(b, down'[y])
      <4>1. CASE y = s
        BY <2>4, <3>1, <4>1 DEF Lies
      <4>2. CASE y # s
        <5>1. Lies(b, l, y)
          BY <1>1, <3>1, <4>2 DEF Lies
        <5> QED BY <2>2, <5>1
      <4> QED BY <4>1, <4>2
    <3>2. CASE ~(l = "down" /\ y \in Servers /\ In(b, down'[y]))
      <4>1. Lies(b, l, y)
        BY <1>2, <2>5, <3>2 DEF Lies, In
      <4> QED BY <2>2, <4>1
    <3> QED BY <3>1, <3>2
  <2>6. \A b, m, z, l, y : Lies(b, m, z)' /\ Lies(b, l, y)' => m = l /\ z = y
    BY <1>0, <2>5, OneMovesTo
  <2>7. \A t \in Servers : NoTwice(down'[t])
    <3>1. ~In(a, down[s])
      BY <2>2 DEF Lies
    <3> QED BY <1>0, <1>1, <2>4, <3>1 DEF OnePlace
  <2>8. OnePlace'
    BY <1>4, <2>6, <2>7 DEF OnePlace, NoTwice
  <2> QED BY <1>3, <2>8 DEF Single
<1> QED BY <1>1, <1>5, <1>6

\* The invariant holds at the start.
LEMMA SingleInit == SysInit => Single
<1> SUFFICES ASSUME SysInit PROVE Single
  OBVIOUS
<1>1. /\ \A s \in Servers : down[s] = << >>
      /\ \A f \in Fds : inbox[f] = << >> /\ told[f] = << >> /\ recvbuf[f] = Nothing /\ link[f] = "closed"
      /\ \A w \in Workers : at[w] = "loop"
  BY DEF SysInit
<1>2. OnePlace
  <2>1. \A a, l, x : ~Lies(a, l, x)
    BY <1>1, NoneIn DEF Lies
  <2> QED BY <1>1, <2>1, NoneIn DEF OnePlace
<1>3. DOMAIN << >> = {}
  OBVIOUS
<1>4. \A f \in Fds : Unlinked(f) /\ Buffered(f) /\ SeenTwice(f)
  BY <1>1, <1>3 DEF Unlinked, Buffered, SeenTwice
<1> QED BY <1>2, <1>4 DEF Single

\* Every step keeps it.
LEMMA SingleStep == SysGood /\ SysGood' /\ Single /\ [SysNext]_sysvars => Single'
<1> SUFFICES ASSUME SysGood, SysGood', Single, [SysNext]_sysvars PROVE Single'
  OBVIOUS
<1>1. ASSUME NEW f \in Fds, Client(f) \/ Accept(f) PROVE Single'
  BY <1>1, SingleReceives, SingleFails, SingleQuiet, SingleAccept DEF Client
<1>2. ASSUME NEW w \in Workers, Worker(w) PROVE Single'
  BY <1>2, SingleRequests, SingleFromServer, SingleReply DEF Worker
<1>3. ASSUME NEW s \in Servers, Server(s) PROVE Single'
  BY <1>3, SingleServer
<1>4. CASE EndOfBalancer
  BY <1>4, SingleEnd
<1>5. CASE UNCHANGED sysvars
  <2>1. UNCHANGED <<down, inbox, told, recvbuf, phase, link, linked, at, hold>>
    BY <1>5 DEF sysvars, clients, workers, vars
  <2>2. OnePlace'
    BY <2>1, QueuesStay
  <2>3. ASSUME NEW g \in Fds PROVE Unlinked(g)' /\ Buffered(g)' /\ SeenTwice(g)'
    <3>1. Unlinked(g) /\ Buffered(g) /\ SeenTwice(g)
      BY DEF Single
    <3> QED BY <2>1, <3>1 DEF Unlinked, Buffered, SeenTwice
  <2> QED BY <2>2, <2>3 DEF Single
<1> QED BY <1>1, <1>2, <1>3, <1>4, <1>5 DEF SysNext

\* No answer is parsed twice, but the last one once more after a reset, for
\* every number of clients, workers, servers and requests, however numbers are
\* used again, and whatever recv() takes at a time (ToldOnce).
THEOREM NothingToldTwice == SysSpec => []ToldOnce
<1>1. Single => ToldOnce
  BY DEF Single, SeenTwice, ToldOnce
<1> QED BY <1>1, SingleInit, SingleStep, SysGoodAlways, PTL DEF SysSpec

=============================================================================
