# A TLA+ model of lodeBalancer

lodeBalancer is a chat system: clients connect to a load balancer, the balancer
forwards what they send to one of three chat servers over a connection it keeps
to each, and passes the servers' answers back. Users, stored messages and the
table of who is online ("state") are in MySQL. All paths below are relative to
`src/lodeBalancer`.

## The system

| Component | Source | State | Operations | Talks to |
|---|---|---|---|---|
| listener | `lode1.cpp` 42-97, 234-249 | listening queue, descriptor table | `Listenfd`: open a `CMysql`, accept, write the descriptor's number to a pipe | workers, by the pipe |
| worker pool | `lode1.cpp` 100-232, `lode2.cpp` | per thread: epoll set, ready events, `acceptCientNum`, locals; shared: `serverfd[]`, `tag`, descriptors | read the pipe, forward a request, pass a reply on, close a client or a server | clients, chat servers, MySQL |
| upstream connections | `connectSer.cpp`, `server_start` | `serverfd[]` | connect three times at start, errors logged only | chat servers |
| consistent hash | `conhash/CConHash.cpp`, `CNode_s`, `CVirtualNode_s` | `mVirtualNodeSet`, `vNodes`, `vnode_tree` | `addNode_s`, `delNode_s`, `lookupNode_s` | called by every worker |
| MD5 hash function | `conhash/CMD5HashFun.cpp`, `CMd5.cpp` | none between calls | `getHashVal` | the consistent hash |
| red-black tree | `conhash/CRBTree.cpp` | nodes linked by pointers | insert, delete, search, lookup, check, travel | `vnode_tree` only |
| chat server | `server1.cpp`, `server2.cpp` | one thread per connection, all state in MySQL | login, chat, register, offline | balancer, MySQL |
| MySQL wrapper | `mysql.cpp` | tables user, state, message | one query per operation | balancer, servers |
| client | `client.cpp` | one socket, a reading thread | login, register, chat, offline | balancer |
| accept mutex | `mutex.cpp` | a mutex and a counter | take and give back the right to poll the pipe | not called (commented out) |
| memcached wrapper, sketches, demos | `memcached.*`, `mem/`, `lb.h`, `Main.cpp` ... | | | not part of the program |

**What is hard.** The workers share the pipe, all server connections, the
descriptor numbers and `tag`, and no lock is taken. Epoll wakes every worker
that polls a descriptor, `read` and `recv` block, the pipe and the server
connections are byte streams whose messages may arrive together, a closed
number is given out again at once, and rows of the state table and replies name
clients by such numbers. In the hash, widths of integers and equal values
matter. The chat servers work on the same tables, several queries per request,
without transactions, and look at few of the errors. The tree is a long case distinction over pointers.

**What makes each part correct.** A client belongs to one worker from the time
it is accepted; its requests reach, in order and under its own number, the
server its address hashes to; its departure takes away its own row and no other;
the balancer knows servers from clients; a watched client is served and a
departed one closed. The ring has each virtual node once, and a lookup moves
only to a node that was added. On the chat servers, rows of the state table and
forwarded messages belong to users who logged in, and a message is passed on, or
stored until its addressee logs in, once. A client is told what answers its own
requests, once, and does not wait for ever. However a string is split, MD5 is given its bytes once
and padded. The tree stays a red-black tree of the right nodes. Not all of this is so: the runs that
expect a violation show where it is not, and the sections below say what of the rest had to be stated
more weakly. `PROJECT.json` lists the hazards line by line.

## The modules

### LoadBalancer (with Connection)

The balancer's process at the grain of its system calls. A socket is named by its far end, a client
or the index of a server; `file` is the descriptor table, `link` and `rx` what
the kernel knows of each socket, `tx` all that was sent to a far end. `pc[w]`
says which call worker `w` makes next:

| pc | code | action |
|---|---|---|
| loop | `epoll_wait`, next event | `EpollWait`, `NextEvent` |
| pipe | `read(ppfd[0])`, `atoi`, `addEvent` | `ReadPipe` |
| recv | `recv` on a client or a server | `RecvData`, `RecvEof`, `RecvError` |
| select, bump | `select_server` | `SelectServer`, `LookupNull`, `BumpTag` |
| send, reply | `send` to a server, to a client | `Forward`, `Reply` |
| close, purge | `close`; delete the row, leave epoll, count down | `CloseClient`, `Purge` |
| serverclose | `close` a server | `CloseServer` |

The main thread has `OpenDb`, `Accept`, `WritePipe` and `OutOfFds`. Calls that
block are actions that are not enabled. What ends the process sets `status`:
`exit(-1)` in `addEvent`, no descriptor left, SIGPIPE, a NULL from the hash.
Nothing happens after that.

- `recv` works on the file that was open under the number when it was entered
  (`sock`), everything later on the number (`fd`): that is how a thread sees
  a number change its owner.
- One `recv` takes all that is there, and the JSON parser stops at the NUL after
  the first message.
- Where a server's end is concerned the model is an environment: it takes any
  part of what has reached it, parses the first message, answers the sender or
  some row of the state table, may add the sender's row, and may hang up if it
  is among `Leavers`.
- `search_cli_to_ser_fd` always returns -1, since nothing calls
  `insert_clifd_serfd`; `serfd == -1` on line 193 is never true, as
  `select_server` returns an index and a failed connect still has a descriptor.
- `serverfd[]` keeps the number of a server whose connection was closed
  (`lode1.cpp` 162). A client that gets it is taken for a server by `judge`; so it
  is in the model, and the properties that exclude it (`OneOwner`,
  `FdsNameClients`) are claimed only while the servers stay up.
- Messages that do not parse, user names, text and credentials are left out.
- The pipe is a stream of bytes, of which each notice has as many as its number has digits, and a NUL (`Width`).
  A `read` takes up to `PipeBuff` (10) of them and `atoi` sees what comes before the first NUL: other notices in the
  same `read` are lost, and one that is cut (`cut` bytes of it are gone) gives the next `read` another number. Three
  notices of two digits fit, a fourth, or a third of three digits, does not; nothing bounds how many wait.
  `addEvent` ends the process when that number is watched already or not open (`AddEventWorks`, run `torn`). When it is
  a file of another kind (standard input, the listening socket), `epoll_ctl` may take it, and what events of it then
  do in a worker is not followed. A buffer is never without a NUL: no number has ten digits.
- `CountMatches` is about a counter that nothing reads: the load factor is computed from it once, before anything is counted
  (`lode1.cpp` 103), and the mutex it was meant for is commented out.
- `Home` gives for each client what `lookupNode_s` returns, any server or NULL
  (`Unrouted`); `ConHash` is about how it comes to that.

`Connection` is the abstract specification: a connection goes from the
listening queue to the main thread, the pipe and one worker, where it stays until
it is closed, or is lost in the pipe. `LoadBalancer` implements it
(`ImplementsConnection`) under the mapping `PlaceOf`.

### ConHash

The ring. MD5 is not modelled: `Init` chooses any digest for every string, and
all results hold for every choice, collisions included. What the code makes of a
digest is there: four words are summed in a `long` (`getHashVal`, wraps at
`LongSpan`), stored as `long`, narrowed to `int` for a lookup (`Key`, wraps at
`IntSpan`). The makefiles build natively, so that a `long` has 64 bits and no sum of four words wraps, but most of
the ring lies where no key of a lookup does. That an object goes to the next virtual node above its own hash value
(the comment at `CConHash.cpp` 127) does not hold there and is not claimed; that adding a node moves objects
only to that node (`MovesOnlyToNew`) does. `delNode_s` looks in the
empty `vnode_tree`, returns 0 and changes nothing; so does the model's, against `CConHash.h` 22-23 ("delete the entity
node"): what a deletion should move it does not, and `MovesOnlyToNew` is silent about it.
`members` is a history variable: what callers believe from the return values.

### RBTree (with RBSteps and RBCheck)

The tree, field by field. The code's two mirrored halves are one definition with
the side as a parameter. `RBSteps` has what one pass of a loop does: rotations and the cases
of both fixups. `RBTree` is the machine that a call runs, one pass of a loop per step:

| pc | code | action |
|---|---|---|
| place | loop of `util_rbtree_insert` | `PlaceBelow`, `PlaceHere` |
| insert_fixup | `rbtree_insert_fixup` | `InsertFixupRecolours`, `InsertFixupTurns`, `InsertFixupEnds`, `InsertFixupLost` |
| min | `util_rbsubtree_min` in a deletion | `MinBelow`, `MinFound` |
| unlink | 177-247 of `util_rbtree_delete` | `Unlink` |
| delete_fixup | `rbtree_delete_fixup` | `DeleteFixupLowers`, `DeleteFixupRefills`, `DeleteFixupEnds` |
| search, searched | `util_rbtree_search` | `SearchBelow`, `SearchEnds`, `Returned` |
| lookup, least, looked_up | `util_rbtree_lookup`, `util_rbtree_min` | `LookupBelow`, `LookupEnds`, `MinBelow`, `LookupLeast`, `Returned` |

A call begins at `idle` (`util_rbtree_insert` ...) and no other runs before it ends; the steps are small so that what a pass
keeps can be said, checked and proved, not because anything comes in between. `RBCheck` has the two recursions that
read a whole tree, `util_rbtree_check` and `util_rbtree_mid_travel`, as recursive functions: the check is modelled with
its shortcut (a node without a left child ends the check) and with the answer of one call handed to the next.

A node may be inserted again that was deleted. To the tree that is what happens when the caller frees a node
(`delete rbNode`, `CConHash.cpp` 103) and allocates the next (`new`, 146), which normally gives the same address. It matters in one
place: when a root with one child at most is deleted, its child becomes the root and keeps the deleted node as its
parent (`CRBTree.cpp` 177-183), and `rbtree_insert_fixup` has no other test for the root than the colour of its parent.
- While that node is not in the tree its memory is the allocator's and its colour anything: the loop ends at the root, as it should,
  or goes on where nobody can say what it does (`Stale`; `InsertFixupLost`, pc `lost`, where the model stops).
- When it is in the tree again and red, the loop takes it for the root's parent and goes on from there: rotations and colours are applied as the code
  does. `strayed` records that. No insertion or deletion is begun afterwards (a bound; searches and lookups are); `AlwaysAccepted`, what
  `util_rbtree_check` is there for, is violated by the first such call (run `tree_reuse`). `RedBlack` and `CheckAccepts` are
  stated while it has not happened.

### Md5Stream

`md5_init`, `md5_append` and `md5_finish`, with the state they keep: `count`, two
words that wrap, and `buf`, which nobody clears. `md5_process` is abstracted to
the sequence of bytes it has been given (`absorbed`), of which the digest is a
function. The sizes are constants (64, 8, 256 and 2^32 in the code), so that TLC
can wrap a word after eight bytes. `msg` and `finished` are history variables.

### ChatServer (with Mailbox)

The chat servers and the three tables they share. A server has one connection,
to the balancer, so one `ReadThread`; what interleaves are the servers, and the grain
is one query or one `send` per step:

| pc | code | action |
|---|---|---|
| recv | `recv`, parse, `switch` | `Recv` |
| login, insert, ack | `queryPasswd`, `insertIntoStates`, `send` | `QueryPasswd`, `InsertIntoStates`, `AckLogin` |
| find, delete, strtok | `sendMesgFromDb` | `FindMesg`, `DelSendedMsg`, `SendStored` |
| chat, store, absent, forward | `getStates`, `insertIntoMessage`, `send` | `GetStates`, `InsertIntoMessage`, `TellAbsent`, `ForwardChat` |
| register, registered | `insertIntoUser`, `send` | `InsertIntoUser`, `AckRegister` |
| offline, deletestate | `close`, `delStateByfd` | `CloseLink`, `DelState` |

- Each query may fail (`Failing`) and then changes nothing; what the code does with
  the failure is in the model: most are logged only, `getStates` returns -2.
- `recv` may return several requests, of which the first is parsed; the rest is
  gone.
- `strtok` works on a pointer that was never set (`server1.cpp` 193, 209): the
  process ends (`crashed`) or goes on and sends a constant text.
- `delStateByfd` passes its arguments in the wrong order, so all rows go; the
  thread then loops over a `recv` that fails (`spin`).
- A request is numbered, with who asks or is asked for (`name`), whether the
  password is right and the descriptor the balancer stamped on it. `asked` and
  `answers` are history variables. `PurgeRow` is the balancer's query for a client that
  left, at any time.
- The balancer may end at any time (`BalancerEnds`). A `ReadThread` takes what it has received, then its
  `recv` returns 0 and it returns (`LeaveLoop`, pc `ended`); a `send` meanwhile may be
  SIGPIPE (`Killed`). When the balancer starts again (`BalancerStarts`), `ProcListenfd` makes a new thread, also
  in a process one thread of which loops after an OFFLINE. That one reads again, as `accept` gives the number it uses; the two
  are taken as one, since with each request at one of them they are what two servers are. The tables
  are as they were: `delAllStateInfo`, which would empty the state table, is
  called by nothing. Bound: it starts again only when no server is at work for the old one.
- Left out: lengths of names (the queries are built in 100 bytes), texts, e-mail,
  and connections other than the balancer's.

`Mailbox` is the abstract specification: a message is away, taken by a server,
then sent on, stored or lost; stored ones go when they are fetched. `ChatServer`
implements it (`ImplementsMailbox`) by the mapping `PlaceOf`, with queries that
fail and all interleavings of the servers.

### ChatSystem

Composes `ChatServer` (by `EXTENDS`: its steps are the steps of the servers), the
workers of the balancer and the clients, from a client's `send` to its parser.

| actor | code | actions |
|---|---|---|
| client | `main`, `doLogin`, `registe`, `ReadThread` of `client.cpp` | `Sends`, `Receives`, `ReceiveFails`, `ReceivesEnd`, `Dies` |
| main thread, with the worker that reads its notice | `lode1.cpp` 234-249, 139-148 | `Accept` |
| worker, with a client | 184-228 | `FromClient` (`recv`), `Forward` (`send`), `ClientLeft` (`close`), `Purge` (the row) |
| worker, with a server | 153-182 | `FromServer` (`recv`), `Reply` (`send`), `ServerLeft` |
| server | `ReadThread` of `server1.cpp` | `Server`, which is `ReadThread` of `ChatServer` and puts what is sent on its way |
| balancer's process | see `LoadBalancer` | `EndOfBalancer` |

- A worker holds what it has received (`hold`) from one step to the next, and others come between: answers that two workers
  took from one server may be sent in the other order, and a row is deleted when its number may be another client's.
- A client is its descriptor. `ClientLeft` frees it, `Accept` gives it to the next client, and a late answer (`Reply`) goes to
  whoever has it then. So `ToldItsOwn` and `OnlineLoggedIn` are stated of the number: `FD` is all that an answer carries.
- Workers that poll the same pipe or server wake together, and the ones that come too late are blocked in `read` or `recv`
  (`WorksAlone`, at `pipe` or `recv`) until there is more. A notice that was read together with another leaves its client without
  an owner (`Nobody`). Cut notices, and a server's number that goes to a client, are in `LoadBalancer` only.
- `up`, `down` and `inbox` are the streams between them. A `recv` takes any number
  of the messages there and parses the first; under which number one was lost by that is recorded
  in `lost`.
- `phase` is where a client is: the menu, `doLogin`, `registe`, the chat loop
  with its reading thread, or ended. `link` is what its next call finds:
  `open`; `fin` (the other end closed); `reset` (a pending error, given to one call); `dead` (after
  it, `recv` gives 0 and `send` SIGPIPE); `closed` (its own `close`, after which
  the main thread goes on sending to the closed number).
- After a failed `recv`, `ReadThread` parses its buffer again: what it held is told
  once more. Its buffer is not initialised; what it holds before the first
  message is taken not to parse.
- A client takes any acknowledgement for its own. After an error, or when the number had another client before, a late answer
  may make it believe it is online under the name it gave last;
  `OnlineLoggedIn` says as much as is true. In which order a client is told is not stated: nothing keeps it.
- `quit` sends, closes and exits in one step. A balancer that has ended does not come back here; what its servers do then is in `ChatServer`.

## Runs

| Run | Instance | Shows |
|---|---|---|
| `calm` | 2 workers, 2 clients, 2 servers that stay up, 6 descriptors, one request each, one client may leave | one owner per client, right stamp, right server, exact count, refinement of `Connection` |
| `order` | 2 workers, 2 clients of one server, 2 requests each | each client's order is kept though both workers may write to that server |
| `live` | 1 worker, 2 clients, a server that is down, one that may leave, an address with no server, 5 descriptors, a pipe buffer of 4 | requests read and departed clients closed, or the process ended |
| `torn` | 1 worker, 4 clients | violation: a notice is cut, and `addEvent` ends the process |
| `purge` | descriptors are reused | violation: another client's row is deleted |
| `ring` | 3 nodes (2, 1, 1 virtual nodes), 1 object, an `int` of 4 values, a `long` of 32, sums up to 7 | all digests, with collisions: nothing is missing or counted twice, additions are consistent |
| `tree` | 6 nodes, two with equal keys | all sequences of insertions and deletions, with searches and lookups of all keys; the right nodes hang in the tree also in the middle of calls |
| `tree_reuse` | 4 nodes | violation: the check refuses a tree after a node came back |
| `chat` | 2 servers, 2 users, 3 requests out of 7 kinds, queries may fail, the balancer ends and starts | rows and forwarded messages belong to who logged in; refinement of `Mailbox`; no server asks for more before it has answered |
| `chat_race` | 2 servers, a login and a chat message, no failures | violation: a message is stored while its addressee logs in, and stays |
| `system` | 2 workers, 1 server, 2 clients that may have one number after the other or two, 2 requests out of 6 kinds, queries succeed | what is told under a number was asked under it, once; who chats has logged in; waiting ends |
| `md5` | blocks of 8 bytes, a length of 2 bytes of 6 bits, messages up to 18 bytes in pieces of 0, 1, 2, 5, 8 or 9 | every splitting is padded and hashed alike |

**Bounds.** Two workers and two clients give every race on a number: one closes,
one accepts, one still holds the old value; a third worker behaves like the
second, the code treating all alike (in `calm` and `order` they are symmetric). Each
accept uses two descriptors (MySQL's and the client's), so that six leave room
for both clients beside two servers and the five of `live` do not: there
`OutOfFds` happens. A client connects once: a number is reused by the other client or
by a MySQL connection. Numbers have two digits, so that two clients never cut a notice and four may; `live` has a
buffer of four bytes instead, in which the second of two notices is cut. `MaxSend` bounds requests; in `order` two of each
client meet two of the other, and one may be dropped with one that is parsed. In `ring` a key has four values and the ring up to
eight, above and among the keys, so that keys lose a bit and both collide and miss. Six nodes give trees with three
black nodes on a path and all cases of rebalancing on both sides, and two equal
keys the case in which order alone does not tell nodes apart. Three requests are what it takes for a
message to be stored by one server while two logins go on, or for a row to be
purged between; which kinds there are is in `MCChatServer` (one user is
registered, the other must register first; a password is right or wrong).
In `system` two requests (`sent` counts those that the balancer was sent; what is sent to a connection that is closed has no bound) are what it takes for an answer to
come when its number is another client's, for one to overtake another, and for two to be taken together; more servers
only share the workers. Queries that fail are in `chat`, where the servers' part of the state is all
there is. In `md5`, 18 bytes are two blocks and a piece: every offset meets
every size below, at and above a block, the padding fits in the last
block or needs another, and the low word wraps at the eighth byte, the high one
never, being there for the carry. Runs do not check for deadlock, `ring` and `md5` excepted, where some call can always be made: the process
blocks in `epoll_wait` when there is nothing to do, the system is done once
all messages are sent, and a call of the tree is not followed at `lost`.

**Fairness.** Weak fairness of the main thread and of each worker: the scheduler
runs threads that can run. Nothing is assumed of clients, servers or the network,
not even that an `epoll_wait` returns events in some order (`NextEvent` takes any
of them). `WatchedServed` and `WatchedClosed` need no more with one worker; with two, one may be blocked for ever in `read` or
`recv` on what another has taken.
In `system` (`SysFairSpec`) each server, the `recv`s of a client, and the steps of a worker that do not
wait for anything are weakly fair, as threads that run. What waits is strongly fair: the `recv` from a client by its worker (`FromClient`), and from a
server by any of them (`FromServer`). A worker is not always back at `epoll_wait`, but when it is, that returns up to `MAX` events and
the loop serves all of them, so what stays ready is taken by a worker that comes back again and again. That one does is not assumed: nothing
frees a worker that is blocked. Nor is anything assumed of a user, who may stop typing. `WaitEnds` has four
exceptions, each needed (TLC refutes it without): the request or the answer
was swallowed by a `recv` together with another (`lost`); the server
is gone, crashed or after an OFFLINE; the request was not read and the worker that watches its client is blocked (`Stuck`), or there
is none (`Nobody`).

## Proofs

For every value of the constants that meets their `ASSUME`s. A component's first proof module has
its types and its main invariant, the others build on that:

| Module | Theorems | Beside the `ASSUME`s |
|---|---|---|
| `LoadBalancer_proofs` | `TypeCorrect`, `BooksAgree`, `ClientHasOneOwner`, `RepliesNameClients`, `StampsAreFaithful` | `ServersKeep`, `NoticesWhole`, but for the first |
| `LoadBalancerOrder_proofs` | `ClientHasOneFd`, `RecvNeverBlocks`, `CountIsRight`, `HashIsFollowed`, `OrderIsKept`, `ImplementsTheConnection` | `ServersKeep`, `NoticesWhole` |
| `ChatServer_proofs` | `TypeCorrect`, `LookedUp`, `OnlyLoginsInState`, `ChatReachesAddressee`, `NoneUnanswered`, `ImplementsTheMailbox` | |
| `ChatSystem_proofs` | `ServersAsSpecified`, `SystemTypes`, `NoStrangersAnswers`, `OnlineByLogin`, `NothingToldTwice` | |
| `ConHash_proofs` | `TypeCorrect`, `CountCorrect`, `NothingMissing`, `Consistent` | |
| `Md5Stream_proofs` | `TypeCorrect`, `NothingLost`, `PaddedAlike` | `RealSizes` |
| `RBSteps_proofs` | `RotateKeepsTree`, `InsertFixupPass`, `DeleteFixupPass` | |
| `RBTree_proofs` | `TypeCorrect`, `TreeHoldsInside`, `StaysRedBlack`, `SearchIsRight`, `LookupIsRight`, `CheckIsContent`, `WalkIsRight` | `~strayed` |

`ServersKeep` says that no server is among `Leavers`: once a server's number is reused the claims are
false. `NoticesWhole` says that no `read` of the pipe has ended within a notice, as a condition on the behaviour
(`[]NoticesWhole`): when one has, the worker that reads next may watch a client that is another's, or end the process (run `torn`). `RealSizes` gives the sizes the code has, and the values of `Place(0)` to `Place(7)`,
powers of 256, which no prover here computes. `~strayed` says that no insertion has climbed past the root by its stale link, which is
part of `RedBlack` and `CheckAccepts` and a condition on the state in the other theorems (`[](~strayed => ...)`); nodes may be inserted again, and `RBTree` above says
why more is not so. `PlaceAssumption` of `LoadBalancer` only says that the
names of workers are not those of the other places of `Connection`.

**LoadBalancer.**
- `TypeCorrect` rests on `TypeInv`, type correctness with `LocalsOK`, which says
  what each thread's locals hold at each point: without it `Accept` could take
  the head of an empty queue, and a worker could send `NoMsg`.
- `OneOwner` is not inductive: that the number a worker is about to close is
  its own client's needs `BusyOwner` (it still watches it, no event of it is
  pending, the file is the one it called `recv` on); that in turn needs
  `EventsWatched`, `EpollOpen` and `ServersStay`. The conjunction is `IInv`, which
  `calm` checks and `BooksAgree` states, and `Good` adds `TypeInv`. The proof has one lemma per group of
  actions.
- `RepliesNameClients` and `StampsAreFaithful` build on `Good`: numbers travel
  from the stamp through the server's queue, its answer and the state table, and
  no place on the way holds a server's number.
- `ClientRecvReady` needs two things more (`Ready`): a client is behind one descriptor only (`OneFd`), so that
  no other worker receives from it, and what epoll announced is still there (`EventsReady`), as only
  the owner takes it away.
- `CountMatches` is about cardinalities: each action adds at most one descriptor to an epoll set, or
  takes one.
- `Affinity` needs `Chosen`: between `select_server` and `send` a worker has the index the hash
  named, or a client whose address is gone, and an address does not come back. `InOrder` needs that numbers grow from
  what servers have (`Passed`) over what a worker holds to what waits in the socket (`Queued`): with one
  worker per client, a request it holds was read before those that wait.
- The refinement of `Connection`: `PlaceOf` is defined by cases, and `Places` says that under `Ready` they
  do not overlap, so that it is known where a connection is when one variable is. Each action is then one move, or none.

**ChatServer.**
- `RowsOfLogins` and `SentToLogins` are not inductive: a
  password is checked one query before the row is inserted and a descriptor
  looked up one step before the message is sent, with other servers in between.
  `IInv` adds `UnderWayAt`: what a server is about to insert or send is backed by what
  was asked, and as users, once registered, stay, and requests are never unasked
  (`Lasting`), the others' steps do not change that (`OthersUnderWay`). No
  property of the number of servers or of failures is used. `NoneUnanswered` rests on the part of `UnderWayAt` that says that a
  server that looks for stored messages has acknowledged the login.
- The refinement of `Mailbox` needs `Orderly`: a request has a number of its own and is at one server,
  where it waits in the order of asking (`Numbered`, `OneServer`, `Sorted`); what was answered waits
  no longer (`Answered`); what is stored was not passed on, and its sender at most still has to be told
  (`StoredOnce`). Without it a message could be stored after it was forwarded.

**ChatSystem.**
- `ServersAsSpecified` shows that the system, seen from the servers, is a
  behaviour of `ChatServer`, so that its theorems carry over; that needs `Own`: what is
  on its way from under a number is a request that may be made there, and `Hands`: what a worker has in hand to forward is
  such a request still (`HandIs`), though the number may be another client's by then. `SysGood` is the servers' `Good` and `Kept`, which adds that
  what is on its way to a number, in the buffer or told there is addressed to it (`Own`),
  and that under the number of who is online somebody logged in (`Online`). `NoStrangersAnswers` and `OnlineByLogin` follow with
  `SentToLogins`. Whatever is lost on the way, overtakes or comes late does no harm to these.
- `NothingToldTwice` needs `Single`: an answer lies in one place between the server and the parser, a worker's
  hand included (`Lies`, `OnePlace`; a step moves one answer from one place to another, `OneMovesTo`, or takes some away, `NoneMovesTo`), a
  buffer that is parsed again holds what was parsed last (`Buffered`), and that happens only on a
  connection which the end of the balancer has closed for good (`Unlinked`, `SeenTwice`).

**ConHash.** `HashInv` adds to the claims that the ring is finite, which is
what makes `vNodes` its cardinality. `Consistent` compares the least virtual
node above a key before and after a call, wherever narrowing has put the key: when it differs it is a new one
(`LeastExists`, `NodeAfterIs`, `GrowMoves`), and new ones are the added node's.

**Md5Stream.** `IInv` says what `Absorbs` does byte by byte and adds `CountedLow`: `count[0]`
is the length in bits modulo 2^32, so that the offset derived from it stays
right when it wraps. `PaddedAlike` adds `CountedHigh`, the same of `count[1]`: the test `low < nbits`
finds every carry (`Carries`), the eight bytes are those of the length modulo 2^64
(`LowBytes`, `HighBytes`, `LengthIs`), and what is appended makes the last block full
(`PaddingOf`), so that nothing stays in `buf`.

**The red-black tree.** A tree in memory is pointers, and the claims are about what hangs where, which is a recursion over
them. Induction over trees is out of the provers' reach, so the recursion is replaced by a witness:
- `Under(t, S, U)` says that a function `U` gives for each node what hangs there: itself and what hangs at its
  children, nothing twice, smaller keys on the left. With `Linked` (every link to a child has its link to the parent)
  that is `Tree(t, S)`. `Heights(t, S, h, Short)` does the same for black nodes, one fewer where `Short` says.
  A step is proved to keep a tree by naming the new `U` and `h`: a rotation changes both at two nodes (`RotateUnder`, `RotateHeights`).
- `Lowest`: a set of nodes of a finite tree has one whose children are outside of the set, as sets of nodes are well-founded
  by inclusion. It stands for induction: `Below`, `BlackHeight`, `rbtree_check_subtree` and `MidTravel` are what `U`, `h` and a formula say, since
  a lowest node where they differ would have children where they agree (`BelowIs`, `BlackHeightIs`, `CheckIs`, `TravelIs`); that a walk
  exists is proved alike (`WalkExists`).
- `InsertLoop(t, S, sz, x)` is what `rbtree_insert_fixup` has at the head of its loop: a red-black tree but for `x`, red, which
  may be the root or hang below a red node. `DeleteLoop` is what `rbtree_delete_fixup` has: one black node too few on the ways through `x`.
  `InsertFixupPass` and `DeleteFixupPass` say that a pass moves that fault up or leaves a red-black tree, of the same nodes.
- `IInv` of `RBTree_proofs` has three parts. `Members`: the sets of nodes are finite and apart. `Shape`: for each `pc` the tree
  is a red-black tree, or one of the two loops'; where the link of the root to its parent leads is left open (`Standing`), since it may be stale. `Progress`: a way down has left out nothing,
  `PlaceFor` for the place of a new node, `LeastOf`, `SearchAt`, `LookupAt` for the others. None of the seven claims is inductive without
  all three: a loop in `rbtree_delete_fixup` reads the sibling's children, which are nodes because of the heights.
- A step keeps `IInv` unless it is one by which an insertion strays, and no step takes `strayed` back (`StrayedStays`): so
  `~strayed => IInv` holds for ever, though nodes come back.
- `rbtree_insert_fixup` and `rbtree_delete_fixup` go round once more after the last rotation, to find a black node
  (or the root) and paint the root again; `InsertFixupAt` and `DeleteLoop` allow for that.
- `CheckAnswer` is what the check returns for a subtree, whatever it was handed: it goes on with the first number of black
  nodes it met, and with heights that agree no other comes up. The theorem says that it accepts what it should, not that it refuses the rest, which it does not.

**Only model-checked:** liveness (`WatchedServed`, `WatchedClosed`, `WaitEnds`), which the prover
does not do. That each call of the tree ends would be one more and is stated nowhere yet. The refutations are finite behaviours or lassos found by
TLC. Every other property of a passing run is the statement of a theorem.

## Not modelled

- The rounds of `md5_process`: the digest is any function of the bytes.
- The accept mutex (`mutex.cpp`), whose calls are commented out.
- The memcached wrapper, used by nothing; `lb.h` and both copies of
  `lode1--nginx`, which nothing includes or calls and the latter of which do not compile (`accept()`
  and `getAcceptMutex()` without arguments); demos and tests.
- `connect` sequences at start, of the balancer and of clients: they are the
  initial states, the failed ones included (`Down`).
- The signal thread, which prints and does nothing else.
- Messages that do not parse or are longer than the buffers, and the texts of messages.
- What a worker does with a file that is no socket and that a cut notice made it watch.
- What a loop of the tree does in memory that was freed, and calls that change the tree after one has strayed.

## Plan

Proof: what `delStateByfd`, a crash and a new start leave in the tables (`ChatServer`), as action properties;
that each call of `RBTree` ends, by a measure on the loops (the distance to the root, the height below `cur`);
which numbers a cut notice can give, so that the theorems about `LoadBalancer` need `NoticesWhole` for fewer of their parts.

Of the model: `LoadBalancer` with `Home` given by a ring of `ConHash`; the deletion of `ConHash` and the order of its narrowed keys as
runs that expect a violation, once a run whose question is settled makes room (`chat_race` or `purge`).
