------------------------------- MODULE Proxy -------------------------------
(***************************************************************************)
(* The connections of the proxy (proxylab-handout/proxy.c and the wrappers *)
(* of csapp.c it calls): one detached thread per client, all on one        *)
(* descriptor table, in one process that any wrapper's error ends.         *)
(*                                                                         *)
(* A thread knows its sockets by number only; a number that was closed is  *)
(* given to the next socket of any thread.  Lines are what the client or   *)
(* the server sends up to a newline; only their lengths matter here.       *)
(* There is one uri, and the cache is the atomic one that ProxyCache       *)
(* implements: a hit finds its block, and the objects of other uris, which *)
(* take up room, show only in whether a store overflows.  (The block that  *)
(* is out of the list while another hit moves it, and the NULL that        *)
(* adjust_cache then reads, need the steps of a move and are in            *)
(* ProxyCache; they end the process, as Exit does.)                        *)
(***************************************************************************)
EXTENDS Integers, Sequences, FiniteSets, FiniteSetsExt, SequencesExt

CONSTANTS
  Conn,             \* the clients that connect (a bound), and their threads
  Fd,               \* the numbers left for connections
  LineLength,       \* the lengths of the lines of a response
  LINES,            \* the lines in a response (a bound)
  MAX_OBJECT_SIZE,
  Faults            \* what may go wrong outside of the connections

ASSUME ProxyConstantsOK ==
  /\ Fd \subseteq Nat /\ IsFiniteSet(Fd)
  /\ LineLength \subseteq Nat \ {0}
  /\ LINES \in Nat /\ MAX_OBJECT_SIZE \in Nat
  /\ Faults \subseteq {"client", "port", "resolve", "connect", "server", "full"}

VARIABLES
  up,          \* FALSE once the process has called exit
  fds,         \* the descriptor table: the socket at each number
  gone,        \* clients that have closed or reset their connection
  pc,          \* where each thread is
  connfd,      \* connfd_client
  server_fd,
  response,    \* the lines the thread has read from the server
  object,      \* those of them that it keeps for the cache
  unresolved,  \* (history) threads whose server's name was not found
  page,        \* what each client has received: which pages, from which thread
  cached       \* the cached object of the uri, if any (a sequence of at most one)

sockets == <<fds, connfd, server_fd, unresolved>>
vars == <<up, sockets, gone, pc, response, object, page, cached>>

Client(c) == [peer |-> "client", of |-> c]
Server(c) == [peer |-> "server", of |-> c]
CLOSED == [peer |-> "none"]

FreeFds == {f \in Fd : fds[f] = CLOSED}

Init ==
  /\ up = TRUE
  /\ fds = [f \in Fd |-> CLOSED]
  /\ gone = {}
  /\ pc = [c \in Conn |-> "none"]
  /\ connfd = [c \in Conn |-> -1] /\ server_fd = [c \in Conn |-> -1]
  /\ response = [c \in Conn |-> << >>] /\ object = [c \in Conn |-> << >>]
  /\ unresolved = {}
  /\ page = [c \in Conn |-> {}]
  /\ cached = << >>

Goto(c, l) == pc' = [pc EXCEPT ![c] = l]

-----------------------------------------------------------------------------
(* Descriptors. *)

\* exit(0): unix_error, or thread_pro's own.
Exit == up' = FALSE /\ UNCHANGED <<sockets, gone, pc, response, object, page, cached>>

\* Close(f) in thread c, which goes on at l; closing a closed number is an error.
Close(c, f, l) ==
  IF fds[f] = CLOSED THEN Exit
  ELSE /\ fds' = [fds EXCEPT ![f] = CLOSED]
       /\ Goto(c, l)
       /\ UNCHANGED <<up, connfd, server_fd, unresolved, gone, response, object, page, cached>>

\* A read from number f fails with ECONNRESET or EBADF.
ReadFails(f) ==
  \/ fds[f] = CLOSED
  \/ fds[f].peer = "client" /\ fds[f].of \in gone
  \/ fds[f].peer = "server" /\ "server" \in Faults

\* A read from number f returns data, or the end of file.
Readable(f) == fds[f] # CLOSED

WriteFails(f) == ReadFails(f)

\* rio_writen(f, ...) in thread c succeeds: whoever is at f receives a part of a
\* page, unless it is gone and its reset is still to come.
Deliver(c, f, part) ==
  /\ fds[f] # CLOSED
  /\ page' = IF fds[f].peer = "client" /\ fds[f].of \notin gone
             THEN [page EXCEPT ![fds[f].of] = @ \cup {[from |-> c, part |-> part]}]
             ELSE page

-----------------------------------------------------------------------------
(* main *)

Accept(c) ==
  /\ pc[c] = "none"
  /\ FreeFds # {}
  /\ fds' = [fds EXCEPT ![Min(FreeFds)] = Client(c)]
  /\ connfd' = [connfd EXCEPT ![c] = Min(FreeFds)]
  /\ Goto(c, "request")
  /\ UNCHANGED <<up, gone, server_fd, unresolved, response, object, page, cached>>

AcceptFails(c) == pc[c] = "none" /\ FreeFds = {} /\ Exit

-----------------------------------------------------------------------------
(* thread_pro *)

\* Steps that change nothing but the place of the thread.
Moves(c, from, l) ==
  /\ pc[c] = from
  /\ Goto(c, l)
  /\ UNCHANGED <<up, sockets, gone, response, object, page, cached>>

Fails(c, from, f) == pc[c] = from /\ ReadFails(f) /\ Exit

\* The request line is read; at the end of file the buffer is uninitialised
\* and its method may be anything.
ReadRequest(c) ==
  \/ (\E l \in {"501", "lookup"} : Moves(c, "request", l)) /\ Readable(connfd[c])
  \/ Fails(c, "request", connfd[c])

\* The pages: a response, and the two of error_msg, with the places of its four
\* calls of Rio_writen.
Page == {"response", "501", "999"}
NotImplemented == <<"501", "501_type", "501_length", "501_body">>
ConnectionError == <<"refuse", "refuse_type", "refuse_length", "refuse_body">>

\* One Rio_writen of error_msg, which ends the process if it fails.
ErrorLine(c, from, part, l) ==
  \/ /\ pc[c] = from
     /\ Deliver(c, connfd[c], part)
     /\ Goto(c, l)
     /\ UNCHANGED <<up, sockets, gone, response, object, cached>>
  \/ Fails(c, from, connfd[c])

ErrorMsg(c, places, part, l) ==
  \E k \in 1 .. 4 : ErrorLine(c, places[k], part, IF k = 4 THEN l ELSE places[k + 1])

\* cache_check; on a miss the port may be out of range, which ends the process.
Lookup(c) ==
  \/ cached # << >> /\ Moves(c, "lookup", "hit")
  \/ cached = << >> /\ Moves(c, "lookup", "socket")
  \/ cached = << >> /\ pc[c] = "lookup" /\ "port" \in Faults /\ Exit

\* A store has overflowed the cache: its thread holds the semaphore for ever.
Overflowed == \E d \in Conn : pc[d] = "store"

\* adjust_cache, whose cache_get needs the semaphore.  An empty object takes no
\* write; EPIPE is one of the errors of one.
AdjustCache(c) ==
  \/ /\ ~ Overflowed
     /\ \/ /\ pc[c] = "hit"
           /\ cached[1] # << >>
           /\ Deliver(c, connfd[c], "response")
           /\ Goto(c, "close")
           /\ UNCHANGED <<up, sockets, gone, response, object, cached>>
        \/ Moves(c, "hit", "close") /\ (cached[1] = << >> \/ WriteFails(connfd[c]))
        \/ /\ Moves(c, "hit", "epipe")
           /\ cached[1] # << >> /\ WriteFails(connfd[c]) /\ fds[connfd[c]] # CLOSED
  \/ pc[c] = "epipe" /\ Close(c, connfd[c], "close")

\* open_clientfd_r: socket
OpenSocket(c) ==
  \/ /\ pc[c] = "socket"
     /\ FreeFds # {}
     /\ fds' = [fds EXCEPT ![Min(FreeFds)] = Server(c)]
     /\ server_fd' = [server_fd EXCEPT ![c] = Min(FreeFds)]
     /\ Goto(c, "connect")
     /\ UNCHANGED <<up, gone, connfd, unresolved, response, object, page, cached>>
  \/ FreeFds = {} /\ Moves(c, "socket", "refuse")

\* A number connect can succeed on.  (If two threads came to share a socket,
\* the second connect would fail: that much is left out.)
Unconnected(f) == \E d \in Conn : fds[f] = Server(d) /\ pc[d] = "connect"

\* The name of the server is not found: the socket stays open.
LookupFails(c) ==
  /\ pc[c] = "connect" /\ "resolve" \in Faults
  /\ unresolved' = unresolved \cup {c}
  /\ Goto(c, "refuse")
  /\ UNCHANGED <<up, fds, connfd, server_fd, gone, response, object, page, cached>>

\* Mutant: the socket of a connect that fails is left open as well.
ConnectFails_Leaks(c) ==
  /\ Moves(c, "connect", "refuse")
  /\ "connect" \in Faults \/ ~ Unconnected(server_fd[c])

\* No address of the server answers, and the socket is closed.
ConnectFails(c) ==
  /\ pc[c] = "connect"
  /\ "connect" \in Faults \/ ~ Unconnected(server_fd[c])
  /\ fds' = [fds EXCEPT ![server_fd[c]] = CLOSED]
  /\ Goto(c, "refuse")
  /\ UNCHANGED <<up, gone, connfd, server_fd, unresolved, response, object, page, cached>>

\* open_clientfd_r: getaddrinfo and connect
Connect(c) ==
  \/ Moves(c, "connect", "header") /\ Unconnected(server_fd[c])
  \/ LookupFails(c)
  \/ ConnectFails(c)

\* No server: the client is told and closed, and thread_wrapper closes it again.
Refuse(c) ==
  \/ ErrorMsg(c, ConnectionError, "999", "refused")
  \/ pc[c] = "refused" /\ Close(c, connfd[c], "close")

\* Mutant: the loop waits for an empty line that ends in a newline alone.
AssembleHeader_NeverEnds(c) == Moves(c, "header", "spin")

\* assemble_header, whose lines may be in the buffer already; at the end of
\* file the loop never leaves the last line.
AssembleHeader(c) ==
  \/ Moves(c, "header", "send")
  \/ /\ Moves(c, "header", "spin")
     /\ fds[connfd[c]].peer = "client" /\ fds[connfd[c]].of \in gone
  \/ Fails(c, "header", connfd[c])

\* The request goes out.  An error other than EPIPE is ignored.
SendRequest(c) ==
  \/ Moves(c, "send", "relay")
  \/ /\ Moves(c, "send", "close_server")
     /\ WriteFails(server_fd[c]) /\ fds[server_fd[c]] # CLOSED

SizeOf(o) == SumFunction(o)

\* Mutant: an object of just the largest size is not kept.
Kept_Less(o, n) == IF SizeOf(o) + n < MAX_OBJECT_SIZE THEN Append(o, n) ELSE o

\* Mutant: the test is made before the line is counted.
Kept_TestsFirst(o, n) == IF SizeOf(o) < MAX_OBJECT_SIZE THEN Append(o, n) ELSE o

\* What is kept for the cache: a line that does not fit is left out.
Kept(o, n) ==
  IF SizeOf(o) + n <= MAX_OBJECT_SIZE THEN Append(o, n) ELSE o

\* One turn of the loop; some lines may be in the buffer; an error of the write to the client is ignored.
RelayLine(c) ==
  /\ pc[c] = "relay"
  /\ Readable(server_fd[c]) \/ response[c] # << >>
  /\ Len(response[c]) < LINES
  /\ \E n \in LineLength :
       /\ response' = [response EXCEPT ![c] = Append(@, n)]
       /\ object' = [object EXCEPT ![c] = Kept(@, n)]
       /\ \/ Deliver(c, connfd[c], "response")
          \/ WriteFails(connfd[c]) /\ page' = page
  /\ UNCHANGED <<up, sockets, gone, pc, cached>>

\* The server has closed, and the object, unless it is empty, does not fit in the
\* cache: cache_control waits for the semaphore that cache_update holds.  Every
\* later store waits for it, too.
Overflows(c) ==
  /\ Moves(c, "relay", "store")
  /\ Readable(server_fd[c])
  /\ Overflowed \/ ("full" \in Faults /\ object[c] # << >>)

\* Mutant: the object is added to the cached one of the uri.
RelayEnds_Adds(c) ==
  \/ /\ pc[c] = "relay"
     /\ Readable(server_fd[c]) /\ ~ Overflowed
     /\ cached' = Append(cached, object[c])
     /\ Goto(c, "close_server")
     /\ UNCHANGED <<up, sockets, gone, response, object, page>>
  \/ Overflows(c)
  \/ Fails(c, "relay", server_fd[c])

\* The server has closed: the object is cached, whatever was left out.
RelayEnds(c) ==
  \/ /\ pc[c] = "relay"
     /\ Readable(server_fd[c]) /\ ~ Overflowed
     /\ cached' = <<object[c]>>
     /\ Goto(c, "close_server")
     /\ UNCHANGED <<up, sockets, gone, response, object, page>>
  \/ Overflows(c)
  \/ Fails(c, "relay", server_fd[c])

\* Mutant: the wrong one of two numbers.
CloseServer_ClosesClient(c) == pc[c] = "close_server" /\ Close(c, connfd[c], "close")

\* Mutant: thread_wrapper leaves the closing to thread_pro.
CloseClient_Never(c) == Moves(c, "close", "done")

\* thread_pro closes the server, thread_wrapper the client.
CloseServer(c) == pc[c] = "close_server" /\ Close(c, server_fd[c], "close")

CloseClient(c) == pc[c] = "close" /\ Close(c, connfd[c], "done")

Thread(c) ==
  \/ ReadRequest(c) \/ ErrorMsg(c, NotImplemented, "501", "close")
  \/ Lookup(c) \/ AdjustCache(c)
  \/ OpenSocket(c) \/ Connect(c) \/ Refuse(c) \/ AssembleHeader(c) \/ SendRequest(c)
  \/ RelayLine(c) \/ RelayEnds(c) \/ CloseServer(c) \/ CloseClient(c)

\* A client closes or resets its connection.
ClientLeaves(c) ==
  /\ "client" \in Faults
  /\ pc[c] \notin {"none", "done"} /\ c \notin gone
  /\ gone' = gone \cup {c}
  /\ UNCHANGED <<up, sockets, pc, response, object, page, cached>>

Next ==
  up /\ \E c \in Conn : Accept(c) \/ AcceptFails(c) \/ Thread(c) \/ ClientLeaves(c)

Spec == Init /\ [][Next]_vars

\* The kernel runs every thread; servers and clients send what is waited for.
FairSpec == Spec /\ \A c \in Conn : WF_vars(up /\ Thread(c))

-----------------------------------------------------------------------------
(* Properties. *)

Location ==
  {"none", "request", "501", "501_type", "501_length", "501_body", "lookup", "hit", "epipe",
   "socket", "connect", "refuse", "refuse_type", "refuse_length", "refuse_body", "refused",
   "header", "spin", "send", "relay", "store", "close_server", "close", "done"}

TypeOK ==
  /\ up \in BOOLEAN
  /\ fds \in [Fd -> {CLOSED} \cup {Client(c) : c \in Conn} \cup {Server(c) : c \in Conn}]
  /\ gone \subseteq Conn
  /\ pc \in [Conn -> Location]
  /\ connfd \in [Conn -> Fd \cup {-1}] /\ server_fd \in [Conn -> Fd \cup {-1}]
  /\ unresolved \subseteq Conn
  /\ response \in [Conn -> Seq(LineLength)] /\ object \in [Conn -> Seq(LineLength)]
  /\ page \in [Conn -> SUBSET [from : Conn, part : Page]]
  /\ cached \in Seq(Seq(LineLength)) /\ Len(cached) <= 1

InServer == {"connect", "header", "spin", "send", "relay", "store", "close_server"}

\* A client was told that its server cannot be reached, and is closed twice.
SomeRefused ==
  \E c \in Conn : \E p \in page[c] : p.part = "999"

\* As long as no client was refused or has hung up, every number a thread still
\* uses leads to its own socket, also when threads end while others start.
OwnDescriptors ==
  gone = {} /\ ~ SomeRefused =>
    \A c \in Conn :
      /\ pc[c] \notin {"none", "done"} => fds[connfd[c]] = Client(c)
      /\ pc[c] \in InServer => fds[server_fd[c]] = Server(c)

\* Whatever fails, and whoever closes whose numbers: when a thread ends, the
\* connection it was started for is closed.
ClientsClosed ==
  \A f \in Fd, c \in Conn : fds[f] = Client(c) => pc[c] # "done"

\* The same of the connection to the server, unless its name was not found.
ServersClosed ==
  \A f \in Fd, c \in Conn :
    fds[f] = Server(c) => pc[c] \in InServer \/ c \in unresolved

\* What is copied to object fits in it, however the lines fall.
ObjectFits == \A c \in Conn : SizeOf(object[c]) <= MAX_OBJECT_SIZE

\* A response that fits in the cache is cached as it came, to the last line.
SmallObjectsWhole ==
  \A c \in Conn :
    pc[c] \in {"store", "close_server"} /\ SizeOf(response[c]) <= MAX_OBJECT_SIZE =>
      object[c] = response[c]

\* As long as no client hangs up, every connection is served or refused in the
\* end, and closed, or the process ends: no thread waits for a descriptor, and none
\* for another thread until a store overflows the cache.  Even then only those wait
\* that hit or store: the rest, refused or failing, come to their end.
ConnectionsEnd ==
  \A c \in Conn :
    pc[c] = "request" ~>
      \/ pc[c] = "done" \/ ~ up \/ gone # {}
      \/ Overflowed /\ pc[c] \in {"hit", "store"}

-----------------------------------------------------------------------------
(* What the comments promise and the code does not do. *)

\* "provide feedback from server to client": what a client receives was
\* fetched by its own thread.
FeedbackToClient ==
  \A c \in Conn : \A p \in page[c] : p.from = c
=============================================================================
