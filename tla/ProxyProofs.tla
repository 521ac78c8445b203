---------------------------- MODULE ProxyProofs ----------------------------
(***************************************************************************)
(* Proofs about Proxy, for any number of connections and descriptors and   *)
(* whatever fails: types; no client's socket outlives its thread, and no   *)
(* server's its use unless its name was not found; until a client is       *)
(* refused or hangs up every thread keeps its own sockets; and what is     *)
(* kept of a response fits, and is all of it when it is small.             *)
(*                                                                         *)
(* A number may lead a thread to a foreign socket, but a socket is never   *)
(* at a number other than the one its own thread knows: that is the        *)
(* invariant of the second part, and what the thread's last Close needs.   *)
(* Two closes of one number need a thread at "refused" or "epipe": that    *)
(* no thread gets there undisturbed is the invariant of the third part.    *)
(* The fourth part is about the loop that reads a response: what it keeps  *)
(* for the cache fits, and is all of the response when that fits.          *)
(***************************************************************************)
EXTENDS Proxy, DataLemmas

\* The lowest free number is free.
LEMMA LowestFree == ASSUME FreeFds # {} PROVE Min(FreeFds) \in FreeFds
<1>1. FreeFds \subseteq Nat
  BY ProxyConstantsOK DEF FreeFds
<1> DEFINE R == {p \in Nat \X Nat : p[1] < p[2]}
<1>2. IsWellFoundedOn(R, Nat)
  BY NatLessThanWellFounded DEF OpToRel
<1>3. \A g, f \in Nat : g < f => <<g, f>> \in R
  OBVIOUS
<1> HIDE DEF R
<1>4. \E f \in FreeFds : \A g \in FreeFds : ~ (<<g, f>> \in R)
  BY <1>1, <1>2, WFMin
<1>5. \E f \in FreeFds : \A g \in FreeFds : f <= g
  <2>1. PICK f \in FreeFds : \A g \in FreeFds : ~ (<<g, f>> \in R)
    BY <1>4
  <2>2. ASSUME NEW g \in FreeFds PROVE f <= g
    <3>1. f \in Nat /\ g \in Nat
      BY <1>1
    <3>2. ~ g < f
      BY <1>3, <2>1, <3>1
    <3> QED
      BY <3>1, <3>2
  <2> QED
    BY <2>2
<1> QED
  BY <1>5 DEF Min

\* The same, of the table.
LEMMA FreeNumber ==
  ASSUME FreeFds # {} PROVE Min(FreeFds) \in Fd /\ fds[Min(FreeFds)] = CLOSED
BY LowestFree DEF FreeFds

\* Sockets of different threads, or ends, are different.
LEMMA Sockets ==
  \A c, d \in Conn :
    /\ Client(c) # CLOSED /\ Server(c) # CLOSED /\ Client(c) # Server(d)
    /\ Client(c) = Client(d) => c = d
    /\ Server(c) = Server(d) => c = d
BY DEF Client, Server, CLOSED

-----------------------------------------------------------------------------
(* Types. *)

\* A thread that found the object will find it.
HitsCached == \A c \in Conn : pc[c] = "hit" => cached # << >>

Pages == [Conn -> SUBSET [from : Conn, part : Page]]

\* What is delivered is a part of a page.
LEMMA DeliverTyped ==
  ASSUME TypeOK, NEW c \in Conn, NEW f, NEW part \in Page, Deliver(c, f, part)
  PROVE  page' \in Pages
<1>1. page \in Pages
  BY DEF TypeOK, Pages
<1>2. CASE page' = page
  BY <1>1, <1>2
<1>3. CASE page' = [page EXCEPT ![fds[f].of] = @ \cup {[from |-> c, part |-> part]}]
  <2>1. \A d \in Conn : page[d] \cup {[from |-> c, part |-> part]} \in SUBSET [from : Conn, part : Page]
    BY <1>1 DEF Pages
  <2> QED
    BY <1>1, <1>3, <2>1 DEF Pages
<1> QED
  BY <1>2, <1>3 DEF Deliver

\* A step that leaves all but the place of a thread and the pages alone.
LEMMA MoveTyped ==
  ASSUME TypeOK, NEW c \in Conn, NEW l \in Location, Goto(c, l),
         page' \in Pages,
         UNCHANGED <<up, sockets, gone, response, object, cached>>
  PROVE  TypeOK'
BY DEF TypeOK, Goto, sockets, Pages

\* The end of the process.
LEMMA ExitTyped == ASSUME TypeOK, Exit PROVE TypeOK'
BY DEF TypeOK, Exit, sockets

\* A number is closed.
LEMMA CloseTyped ==
  ASSUME TypeOK, NEW c \in Conn, NEW l \in Location, NEW f, Close(c, f, l)
  PROVE  TypeOK'
<1>1. CASE fds[f] = CLOSED
  BY <1>1, ExitTyped DEF Close
<1>2. CASE fds[f] # CLOSED
  BY <1>2 DEF Close, Goto, TypeOK
<1> QED
  BY <1>1, <1>2

\* The calls of Rio_writen that make up the pages of error_msg.
LEMMA ErrorLines ==
  ASSUME NEW c \in Conn, NEW part, NEW l
  PROVE  /\ ErrorMsg(c, NotImplemented, part, l) =>
              \/ ErrorLine(c, "501", part, "501_type")
              \/ ErrorLine(c, "501_type", part, "501_length")
              \/ ErrorLine(c, "501_length", part, "501_body")
              \/ ErrorLine(c, "501_body", part, l)
         /\ ErrorMsg(c, ConnectionError, part, l) =>
              \/ ErrorLine(c, "refuse", part, "refuse_type")
              \/ ErrorLine(c, "refuse_type", part, "refuse_length")
              \/ ErrorLine(c, "refuse_length", part, "refuse_body")
              \/ ErrorLine(c, "refuse_body", part, l)
<1>1. ASSUME NEW places, ErrorMsg(c, places, part, l)
      PROVE  \/ ErrorLine(c, places[1], part, places[2])
             \/ ErrorLine(c, places[2], part, places[3])
             \/ ErrorLine(c, places[3], part, places[4])
             \/ ErrorLine(c, places[4], part, l)
  <2>1. PICK k \in 1 .. 4 :
          ErrorLine(c, places[k], part, IF k = 4 THEN l ELSE places[k + 1])
    BY <1>1 DEF ErrorMsg
  <2>2. k = 1 \/ k = 2 \/ k = 3 \/ k = 4
    OBVIOUS
  <2>3. CASE k = 1
    BY <2>1, <2>3
  <2>4. CASE k = 2
    BY <2>1, <2>4
  <2>5. CASE k = 3
    BY <2>1, <2>5
  <2>6. CASE k = 4
    BY <2>1, <2>6
  <2> QED
    BY <2>2, <2>3, <2>4, <2>5, <2>6
<1>2. /\ NotImplemented[1] = "501" /\ NotImplemented[2] = "501_type"
      /\ NotImplemented[3] = "501_length" /\ NotImplemented[4] = "501_body"
      /\ ConnectionError[1] = "refuse" /\ ConnectionError[2] = "refuse_type"
      /\ ConnectionError[3] = "refuse_length" /\ ConnectionError[4] = "refuse_body"
  BY DEF NotImplemented, ConnectionError
<1>3. ASSUME ErrorMsg(c, NotImplemented, part, l)
      PROVE  \/ ErrorLine(c, "501", part, "501_type")
             \/ ErrorLine(c, "501_type", part, "501_length")
             \/ ErrorLine(c, "501_length", part, "501_body")
             \/ ErrorLine(c, "501_body", part, l)
  BY <1>1, <1>2, <1>3
<1>4. ASSUME ErrorMsg(c, ConnectionError, part, l)
      PROVE  \/ ErrorLine(c, "refuse", part, "refuse_type")
             \/ ErrorLine(c, "refuse_type", part, "refuse_length")
             \/ ErrorLine(c, "refuse_length", part, "refuse_body")
             \/ ErrorLine(c, "refuse_body", part, l)
  BY <1>1, <1>2, <1>4
<1> QED
  BY <1>3, <1>4

\* One of these calls.
LEMMA ErrorLineTyped ==
  ASSUME TypeOK, NEW c \in Conn, NEW from, NEW l \in Location, NEW part \in Page,
         ErrorLine(c, from, part, l)
  PROVE  TypeOK'
<1>1. CASE Fails(c, from, connfd[c])
  BY <1>1, ExitTyped DEF Fails
<1>2. CASE /\ Deliver(c, connfd[c], part) /\ Goto(c, l)
           /\ UNCHANGED <<up, sockets, gone, response, object, cached>>
  BY <1>2, DeliverTyped, MoveTyped
<1> QED
  BY <1>1, <1>2 DEF ErrorLine

\* Types are kept by every step of a thread.
LEMMA ThreadTyped == ASSUME TypeOK, HitsCached, NEW c \in Conn, Thread(c) PROVE TypeOK'
<1> USE DEF Location, Page
<1>0. page \in Pages
  BY DEF TypeOK, Pages
<1>a. ASSUME NEW from, NEW l \in Location, Moves(c, from, l) PROVE TypeOK'
  BY <1>0, <1>a, MoveTyped DEF Moves
<1>b. ASSUME NEW from, NEW f, Fails(c, from, f) PROVE TypeOK'
  BY <1>b, ExitTyped DEF Fails
<1>1. CASE ReadRequest(c)
  BY <1>1, <1>a, <1>b DEF ReadRequest
<1>2. CASE ErrorMsg(c, NotImplemented, "501", "close")
  BY <1>2, ErrorLines, ErrorLineTyped
<1>3. CASE Lookup(c)
  BY <1>3, <1>a, ExitTyped DEF Lookup
<1>4. CASE AdjustCache(c)
  <2>1. CASE /\ pc[c] = "hit" /\ Deliver(c, connfd[c], "response") /\ Goto(c, "close")
             /\ UNCHANGED <<up, sockets, gone, response, object, cached>>
    BY <2>1, DeliverTyped, MoveTyped
  <2> QED
    BY <1>4, <2>1, <1>a, CloseTyped DEF AdjustCache
<1>5. CASE OpenSocket(c)
  <2>1. CASE Moves(c, "socket", "refuse")
    BY <2>1, <1>a
  <2>2. CASE /\ FreeFds # {}
             /\ fds' = [fds EXCEPT ![Min(FreeFds)] = Server(c)]
             /\ server_fd' = [server_fd EXCEPT ![c] = Min(FreeFds)]
             /\ Goto(c, "connect")
             /\ UNCHANGED <<up, gone, connfd, unresolved, response, object, page, cached>>
    BY <2>2, FreeNumber DEF TypeOK, Goto
  <2> QED
    BY <1>5, <2>1, <2>2 DEF OpenSocket
<1>6. CASE Connect(c)
  BY <1>6, <1>a DEF Connect, LookupFails, ConnectFails, TypeOK, Goto
<1>7. CASE Refuse(c)
  <2>1. CASE ErrorMsg(c, ConnectionError, "999", "refused")
    BY <2>1, ErrorLines, ErrorLineTyped
  <2> QED
    BY <1>7, <2>1, CloseTyped DEF Refuse
<1>8. CASE AssembleHeader(c)
  BY <1>8, <1>a, <1>b DEF AssembleHeader
<1>9. CASE SendRequest(c)
  BY <1>9, <1>a DEF SendRequest
<1>10. CASE RelayLine(c)
  <2>1. PICK n \in LineLength :
          /\ response' = [response EXCEPT ![c] = Append(@, n)]
          /\ object' = [object EXCEPT ![c] = Kept(@, n)]
          /\ Deliver(c, connfd[c], "response") \/ page' = page
    BY <1>10 DEF RelayLine
  <2>2. page' \in Pages
    BY <2>1, <1>0, DeliverTyped
  <2>3. response' \in [Conn -> Seq(LineLength)] /\ object' \in [Conn -> Seq(LineLength)]
    BY <2>1 DEF TypeOK, Kept
  <2>4. UNCHANGED <<up, sockets, gone, pc, cached>>
    BY <1>10 DEF RelayLine
  <2> QED
    BY <2>2, <2>3, <2>4 DEF TypeOK, sockets, Pages
<1>11. CASE RelayEnds(c)
  <2>1. CASE /\ cached' = <<object[c]>> /\ Goto(c, "close_server")
             /\ UNCHANGED <<up, sockets, gone, response, object, page>>
    <3>1. object[c] \in Seq(LineLength)
      BY DEF TypeOK
    <3>2. cached' \in Seq(Seq(LineLength)) /\ Len(cached') <= 1
      BY <2>1, <3>1
    <3> QED
      BY <2>1, <3>2 DEF TypeOK, Goto, sockets
  <2> QED
    BY <1>11, <2>1, <1>a, <1>b DEF RelayEnds, Overflows
<1>12. CASE CloseServer(c)
  BY <1>12, CloseTyped DEF CloseServer
<1>13. CASE CloseClient(c)
  BY <1>13, CloseTyped DEF CloseClient
<1> QED
  BY <1>1, <1>2, <1>3, <1>4, <1>5, <1>6, <1>7, <1>8, <1>9, <1>10, <1>11, <1>12, <1>13
     DEF Thread

\* The cache never loses its object.
LEMMA HitsStayCached ==
  ASSUME TypeOK, HitsCached, [Next]_vars
  PROVE  HitsCached'
<1> USE DEF HitsCached, TypeOK, Goto
<1>1. ASSUME NEW c \in Conn, Thread(c) PROVE HitsCached'
  <2>1. CASE Lookup(c)
    BY <2>1 DEF Lookup, Moves, Exit
  <2>2. CASE RelayEnds(c)
    BY <2>2 DEF RelayEnds, Overflows, Moves, Fails, Exit
  <2>3. CASE ErrorMsg(c, NotImplemented, "501", "close") \/ Refuse(c)
    <3>1. ASSUME NEW from, NEW part, NEW l, l # "hit", ErrorLine(c, from, part, l)
          PROVE  HitsCached'
      BY <3>1 DEF ErrorLine, Fails, Exit
    <3>2. CASE ErrorMsg(c, NotImplemented, "501", "close")
      BY <3>1, <3>2, ErrorLines
    <3>3. CASE ErrorMsg(c, ConnectionError, "999", "refused")
      BY <3>1, <3>3, ErrorLines
    <3>4. CASE pc[c] = "refused" /\ Close(c, connfd[c], "close")
      BY <3>4 DEF Close, Exit
    <3> QED
      BY <2>3, <3>2, <3>3, <3>4 DEF Refuse
  <2>4. CASE ReadRequest(c) \/ AdjustCache(c) \/ OpenSocket(c) \/ Connect(c)
              \/ AssembleHeader(c) \/ SendRequest(c) \/ RelayLine(c) \/ CloseServer(c)
              \/ CloseClient(c)
    BY <2>4 DEF ReadRequest, AdjustCache, OpenSocket, Connect, LookupFails, ConnectFails,
      AssembleHeader, SendRequest, RelayLine, CloseServer, CloseClient, Moves, Fails, Close, Exit
  <2> QED
    BY <1>1, <2>1, <2>2, <2>3, <2>4 DEF Thread
<1>2. ASSUME NEW c \in Conn, Accept(c) \/ AcceptFails(c) \/ ClientLeaves(c) PROVE HitsCached'
  BY <1>2 DEF Accept, AcceptFails, ClientLeaves, Exit
<1>3. CASE UNCHANGED vars
  BY <1>3 DEF vars
<1> QED
  BY <1>1, <1>2, <1>3 DEF Next

\* Types are kept by every step.
LEMMA NextTyped == ASSUME TypeOK, HitsCached, [Next]_vars PROVE TypeOK'
<1>1. ASSUME NEW c \in Conn, Accept(c) PROVE TypeOK'
  BY <1>1, FreeNumber DEF Accept, Goto, TypeOK, Location
<1>2. ASSUME NEW c \in Conn, AcceptFails(c) PROVE TypeOK'
  BY <1>2, ExitTyped DEF AcceptFails
<1>3. ASSUME NEW c \in Conn, Thread(c) PROVE TypeOK'
  BY <1>3, ThreadTyped
<1>4. ASSUME NEW c \in Conn, ClientLeaves(c) PROVE TypeOK'
  BY <1>4 DEF ClientLeaves, sockets, TypeOK
<1>5. CASE UNCHANGED vars
  BY <1>5 DEF vars, sockets, TypeOK
<1> QED
  BY <1>1, <1>2, <1>3, <1>4, <1>5 DEF Next

\* The state of the proxy is what its declarations say, for any number of
\* connections.
THEOREM TypeCorrect == Spec => []TypeOK
<1>1. Init => TypeOK /\ HitsCached
  BY DEF Init, TypeOK, HitsCached, Location
<1> QED
  BY <1>1, NextTyped, HitsStayCached, PTL DEF Spec

-----------------------------------------------------------------------------
(* Whoever closes whose numbers. *)

\* A client's socket is at the number its thread holds, until the thread ends.
ClientsKnown ==
  \A f \in Fd, c \in Conn :
    fds[f] = Client(c) => pc[c] \notin {"none", "done"} /\ f = connfd[c]

\* A server's socket is at the number its thread holds, while it needs it.
ServersKnown ==
  \A f \in Fd, c \in Conn :
    fds[f] = Server(c) => \/ pc[c] \in InServer /\ f = server_fd[c]
                          \/ c \in unresolved

Inv == TypeOK /\ HitsCached /\ ClientsKnown /\ ServersKnown

Known == ClientsKnown /\ ServersKnown

\* The end of the process leaves the table as it is.
LEMMA ExitKeeps == ASSUME Inv, Exit PROVE Known'
BY DEF Exit, sockets, Inv, Known, ClientsKnown, ServersKnown

\* A thread may go from a place inside thread_pro to another, unless it forgets
\* a server it is connected to.
LEMMA GoingKeeps ==
  ASSUME Inv, NEW c \in Conn, NEW l \in Location \ {"none", "done"},
         pc[c] \notin {"none", "done"},
         pc[c] \in InServer => l \in InServer,
         Goto(c, l), UNCHANGED sockets
  PROVE  Known'
BY DEF Goto, sockets, Inv, TypeOK, Known, ClientsKnown, ServersKnown

\* A thread may close any number, its own or not, if it closes what it knows
\* before it forgets it.
LEMMA CloseKeeps ==
  ASSUME Inv, NEW c \in Conn, NEW l \in Location \ {"none"}, NEW f,
         pc[c] \notin {"none", "done"},
         l = "done" => f = connfd[c],
         pc[c] \in InServer => l \in InServer \/ f = server_fd[c],
         Close(c, f, l)
  PROVE  Known'
<1>1. CASE fds[f] = CLOSED
  BY <1>1, ExitKeeps DEF Close
<1>2. CASE fds[f] # CLOSED
  <2>1. /\ fds' = [fds EXCEPT ![f] = CLOSED]
        /\ pc' = [pc EXCEPT ![c] = l]
        /\ connfd' = connfd /\ server_fd' = server_fd /\ unresolved' = unresolved
    BY <1>2 DEF Close, Goto
  <2>2. ClientsKnown'
    BY <2>1, Sockets DEF Inv, TypeOK, ClientsKnown
  <2>3. ServersKnown'
    BY <2>1, Sockets DEF Inv, TypeOK, ServersKnown
  <2> QED
    BY <2>2, <2>3 DEF Known
<1> QED
  BY <1>1, <1>2

\* A new socket, at a number that was closed, is known to its thread.
LEMMA AcceptKeeps ==
  ASSUME Inv, NEW c \in Conn, Accept(c)
  PROVE  Known'
<1> DEFINE n == Min(FreeFds)
<1>1. /\ pc[c] = "none"
      /\ fds' = [fds EXCEPT ![n] = Client(c)]
      /\ connfd' = [connfd EXCEPT ![c] = n]
      /\ server_fd' = server_fd /\ unresolved' = unresolved
      /\ pc' = [pc EXCEPT ![c] = "request"]
  BY DEF Accept, Goto
<1> HIDE DEF n
<1>2. ClientsKnown'
  BY <1>1, Sockets DEF Inv, TypeOK, ClientsKnown
<1>3. ServersKnown'
  BY <1>1, Sockets DEF Inv, TypeOK, ServersKnown, InServer
<1> QED
  BY <1>2, <1>3 DEF Known

\* The same of the socket for the server.
LEMMA OpenSocketKeeps ==
  ASSUME Inv, NEW c \in Conn, OpenSocket(c)
  PROVE  Known'
<1> DEFINE n == Min(FreeFds)
<1>1. CASE /\ pc[c] = "socket"
           /\ fds' = [fds EXCEPT ![n] = Server(c)]
           /\ server_fd' = [server_fd EXCEPT ![c] = n]
           /\ connfd' = connfd /\ unresolved' = unresolved
           /\ pc' = [pc EXCEPT ![c] = "connect"]
  <2> HIDE DEF n
  <2>1. ClientsKnown'
    BY <1>1, Sockets DEF Inv, TypeOK, ClientsKnown
  <2>2. ServersKnown'
    BY <1>1, Sockets DEF Inv, TypeOK, ServersKnown, InServer
  <2> QED
    BY <2>1, <2>2 DEF Known
<1>2. CASE Moves(c, "socket", "refuse")
  BY <1>2, GoingKeeps DEF Moves, Location, InServer
<1> QED
  BY <1>1, <1>2 DEF OpenSocket, Goto

\* A failed connect closes the socket before the thread forgets it; a name that
\* is not found leaves it open, and the thread is marked.
LEMMA ConnectKeeps ==
  ASSUME Inv, NEW c \in Conn, Connect(c)
  PROVE  Known'
<1>1. CASE Moves(c, "connect", "header")
  BY <1>1, GoingKeeps DEF Moves, Location, InServer
<1>2. CASE LookupFails(c)
  BY <1>2 DEF LookupFails, Goto, Inv, TypeOK, Known, ClientsKnown, ServersKnown
<1>3. CASE ConnectFails(c)
  <2>1. /\ pc[c] = "connect"
        /\ fds' = [fds EXCEPT ![server_fd[c]] = CLOSED]
        /\ pc' = [pc EXCEPT ![c] = "refuse"]
        /\ connfd' = connfd /\ server_fd' = server_fd /\ unresolved' = unresolved
    BY <1>3 DEF ConnectFails, Goto
  <2>2. ClientsKnown'
    BY <2>1, Sockets DEF Inv, TypeOK, ClientsKnown
  <2>3. ServersKnown'
    BY <2>1, Sockets DEF Inv, TypeOK, ServersKnown
  <2> QED
    BY <2>2, <2>3 DEF Known
<1> QED
  BY <1>1, <1>2, <1>3 DEF Connect

\* Every step of a thread keeps the table known.
LEMMA ThreadKeeps ==
  ASSUME Inv, NEW c \in Conn, Thread(c)
  PROVE  Known'
<1> USE DEF Location, InServer
<1>1. CASE ReadRequest(c)
  BY <1>1, GoingKeeps, ExitKeeps DEF ReadRequest, Moves, Fails
<1>a. ASSUME NEW from \in Location \ ({"none", "done"} \cup InServer), NEW part,
             NEW l \in Location \ {"none", "done"}, ErrorLine(c, from, part, l)
      PROVE  Known'
  BY <1>a, GoingKeeps, ExitKeeps DEF ErrorLine, Fails
<1>2. CASE ErrorMsg(c, NotImplemented, "501", "close")
  BY <1>2, <1>a, ErrorLines
<1>3. CASE Lookup(c)
  BY <1>3, GoingKeeps, ExitKeeps DEF Lookup, Moves
<1>4. CASE AdjustCache(c)
  BY <1>4, GoingKeeps, CloseKeeps DEF AdjustCache, Moves
<1>5. CASE OpenSocket(c)
  BY <1>5, OpenSocketKeeps
<1>6. CASE Connect(c)
  BY <1>6, ConnectKeeps
<1>7. CASE Refuse(c)
  <2>1. CASE ErrorMsg(c, ConnectionError, "999", "refused")
    BY <2>1, <1>a, ErrorLines
  <2> QED
    BY <1>7, <2>1, CloseKeeps DEF Refuse
<1>8. CASE AssembleHeader(c)
  BY <1>8, GoingKeeps, ExitKeeps DEF AssembleHeader, Moves, Fails
<1>9. CASE SendRequest(c)
  BY <1>9, GoingKeeps DEF SendRequest, Moves
<1>10. CASE RelayLine(c)
  BY <1>10 DEF RelayLine, sockets, Inv, Known, ClientsKnown, ServersKnown
<1>11. CASE RelayEnds(c)
  BY <1>11, GoingKeeps, ExitKeeps DEF RelayEnds, Overflows, Moves, Fails
<1>12. CASE CloseServer(c)
  BY <1>12, CloseKeeps DEF CloseServer
<1>13. CASE CloseClient(c)
  BY <1>13, CloseKeeps DEF CloseClient
<1> QED
  BY <1>1, <1>2, <1>3, <1>4, <1>5, <1>6, <1>7, <1>8, <1>9, <1>10, <1>11, <1>12, <1>13
     DEF Thread

\* Every step keeps the table known.
LEMMA NextKeeps == ASSUME Inv, [Next]_vars PROVE Inv'
<1>1. ASSUME NEW c \in Conn, Accept(c) PROVE Known'
  BY <1>1, AcceptKeeps
<1>2. ASSUME NEW c \in Conn, AcceptFails(c) PROVE Known'
  BY <1>2, ExitKeeps DEF AcceptFails
<1>3. ASSUME NEW c \in Conn, Thread(c) PROVE Known'
  BY <1>3, ThreadKeeps
<1>4. ASSUME NEW c \in Conn, ClientLeaves(c) PROVE Known'
  BY <1>4 DEF ClientLeaves, sockets, Inv, Known, ClientsKnown, ServersKnown
<1>5. ASSUME UNCHANGED vars PROVE Known'
  <2>1. UNCHANGED <<fds, pc, connfd, server_fd, unresolved>>
    BY <1>5 DEF vars, sockets
  <2> QED
    BY <2>1 DEF Inv, Known, ClientsKnown, ServersKnown
<1>6. Known'
  BY <1>1, <1>2, <1>3, <1>4, <1>5 DEF Next
<1> QED
  BY <1>6, NextTyped, HitsStayCached DEF Inv, Known

\* The invariant holds in every behaviour.
THEOREM Invariance == Spec => []Inv
<1>1. Init => Inv
  BY Sockets DEF Init, Inv, TypeOK, HitsCached, ClientsKnown, ServersKnown, Location
<1> QED
  BY <1>1, NextKeeps, PTL DEF Spec

\* Whatever fails and whoever closes whose numbers, the client of a thread
\* that has ended is closed (thread_wrapper, thread_pro and adjust_cache).
THEOREM NoClientLeaks == Spec => []ClientsClosed
<1>1. Inv => ClientsClosed
  BY DEF Inv, ClientsKnown, ClientsClosed
<1> QED
  BY Invariance, <1>1, PTL

\* The same of the server, unless getaddrinfo failed (open_clientfd_r returns
\* without closing its socket when it does).
THEOREM NoServerLeaks == Spec => []ServersClosed
<1>1. Inv => ServersClosed
  BY DEF Inv, ServersKnown, ServersClosed
<1> QED
  BY Invariance, <1>1, PTL

-----------------------------------------------------------------------------
(* Before anything is refused. *)

Calm == gone = {} /\ ~ SomeRefused

\* A thread uses its own sockets, and will not close a number twice.
Own(c) ==
  /\ pc[c] \notin {"none", "done"} => connfd[c] \in Fd /\ fds[connfd[c]] = Client(c)
  /\ pc[c] \in InServer => server_fd[c] \in Fd /\ fds[server_fd[c]] = Server(c)
  /\ pc[c] \notin {"refuse_type", "refuse_length", "refuse_body", "refused", "epipe"}

Undisturbed == Calm => \A c \in Conn : Own(c)

\* What a client has received it keeps.
PagesGrow == \A d \in Conn : page[d] \subseteq page'[d]

\* What is delivered is added.
LEMMA DeliverGrows ==
  ASSUME TypeOK, NEW c \in Conn, NEW f, NEW part, Deliver(c, f, part)
  PROVE  PagesGrow
BY DEF Deliver, PagesGrow, TypeOK

\* No step takes a page back.
LEMMA NextGrows == ASSUME TypeOK, HitsCached, [Next]_vars PROVE PagesGrow
<1>1. ASSUME page' = page PROVE PagesGrow
  BY <1>1 DEF PagesGrow
<1>2. ASSUME NEW c \in Conn, Thread(c), page' # page PROVE PagesGrow
  <2>1. \E part : Deliver(c, connfd[c], part)
    <3>0. ASSUME NEW from, NEW part, NEW l, ErrorLine(c, from, part, l)
          PROVE  Deliver(c, connfd[c], part)
      BY <1>2, <3>0 DEF ErrorLine, Fails, Exit
    <3>1. CASE ErrorMsg(c, NotImplemented, "501", "close")
      BY <3>0, <3>1, ErrorLines
    <3>2. CASE AdjustCache(c)
      BY <1>2, <3>2 DEF AdjustCache, Moves, Close, Exit
    <3>3. CASE RelayLine(c)
      BY <1>2, <3>3 DEF RelayLine
    <3>4. CASE ReadRequest(c) \/ Lookup(c) \/ OpenSocket(c) \/ Connect(c)
               \/ AssembleHeader(c) \/ SendRequest(c) \/ RelayEnds(c)
      BY <1>2, <3>4 DEF ReadRequest, Lookup, OpenSocket, Connect, LookupFails, ConnectFails,
        AssembleHeader, SendRequest, RelayEnds, Overflows, Moves, Fails, Exit
    <3>5. CASE CloseServer(c) \/ CloseClient(c)
      BY <1>2, <3>5 DEF CloseServer, CloseClient, Close, Exit
    <3>6. CASE pc[c] = "refused" /\ Close(c, connfd[c], "close")
      BY <1>2, <3>6 DEF Close, Exit
    <3>7. CASE ErrorMsg(c, ConnectionError, "999", "refused")
      BY <3>0, <3>7, ErrorLines
    <3> QED
      BY <1>2, <3>1, <3>2, <3>3, <3>4, <3>5, <3>6, <3>7 DEF Thread, Refuse
  <2> QED
    BY <2>1, DeliverGrows
<1>3. ASSUME NEW c \in Conn, Accept(c) \/ AcceptFails(c) \/ ClientLeaves(c) PROVE page' = page
  BY <1>3 DEF Accept, AcceptFails, ClientLeaves, Exit
<1>4. CASE UNCHANGED vars
  BY <1>1, <1>4 DEF vars
<1> QED
  BY <1>1, <1>2, <1>3, <1>4 DEF Next

\* It is never calm again.
LEMMA CalmBefore ==
  ASSUME TypeOK, HitsCached, [Next]_vars, Calm'
  PROVE  Calm
<1>1. gone \subseteq gone'
  <2>1. ASSUME NEW c \in Conn, Thread(c) PROVE gone' = gone
    BY <2>1 DEF Thread, ReadRequest, ErrorMsg, ErrorLine, Lookup, AdjustCache, OpenSocket,
      Connect, LookupFails, ConnectFails, Refuse, AssembleHeader, SendRequest, RelayLine,
      RelayEnds, Overflows, CloseServer, CloseClient, Moves, Fails, Close, Exit
  <2>2. ASSUME NEW c \in Conn, Accept(c) \/ AcceptFails(c) PROVE gone' = gone
    BY <2>2 DEF Accept, AcceptFails, Exit
  <2> QED
    BY <2>1, <2>2 DEF Next, ClientLeaves, vars
<1>2. PagesGrow
  BY NextGrows
<1>3. SomeRefused => SomeRefused'
  BY <1>2 DEF PagesGrow, SomeRefused
<1> QED
  BY <1>1, <1>3 DEF Calm

\* The process ends and the table stays.
LEMMA ExitOwn ==
  ASSUME \A d \in Conn : Own(d), Exit
  PROVE  \A d \in Conn : Own(d)'
BY DEF Exit, sockets, Own

\* A thread goes on.
LEMMA GoingOwn ==
  ASSUME TypeOK, \A d \in Conn : Own(d), NEW c \in Conn,
         NEW l \in Location \ {"none", "refuse_type", "refuse_length", "refuse_body", "refused",
                            "epipe"},
         pc[c] \notin {"none", "done"}, l \in InServer => pc[c] \in InServer,
         Goto(c, l), UNCHANGED <<fds, connfd, server_fd>>
  PROVE  \A d \in Conn : Own(d)'
BY DEF Goto, TypeOK, Own

\* A thread closes a socket of its own that it needs no more.
LEMMA CloseOwn ==
  ASSUME TypeOK, \A d \in Conn : Own(d), NEW c \in Conn, NEW l, NEW f,
         \/ f = connfd[c] /\ pc[c] = "close" /\ l = "done"
         \/ f = server_fd[c] /\ pc[c] \in InServer /\ l \in {"close", "refuse"},
         fds' = [fds EXCEPT ![f] = CLOSED], Goto(c, l), UNCHANGED <<connfd, server_fd>>
  PROVE  \A d \in Conn : Own(d)'
<1>1. ASSUME NEW d \in Conn, d # c PROVE Own(d)'
  <2>1. pc'[d] = pc[d] /\ (fds[f] = Client(c) \/ fds[f] = Server(c))
    BY <1>1 DEF Goto, TypeOK, Own, InServer
  <2>2. \A g \in Fd : fds[g] = Client(d) \/ fds[g] = Server(d) => fds'[g] = fds[g]
    BY <1>1, <2>1, Sockets DEF TypeOK
  <2> QED
    BY <2>1, <2>2 DEF Own
<1>2. Own(c)'
  BY Sockets DEF Goto, TypeOK, Own, InServer
<1> QED
  BY <1>1, <1>2

\* A new socket takes no number that another thread uses.
LEMMA NewOwn ==
  ASSUME TypeOK, \A d \in Conn : Own(d), NEW c \in Conn, NEW n \in Fd, fds[n] = CLOSED,
         \/ /\ fds' = [fds EXCEPT ![n] = Client(c)] /\ connfd' = [connfd EXCEPT ![c] = n]
            /\ server_fd' = server_fd /\ pc[c] = "none" /\ Goto(c, "request")
         \/ /\ fds' = [fds EXCEPT ![n] = Server(c)] /\ server_fd' = [server_fd EXCEPT ![c] = n]
            /\ connfd' = connfd /\ pc[c] = "socket" /\ Goto(c, "connect")
  PROVE  \A d \in Conn : Own(d)'
<1>1. \A g \in Fd : fds[g] # CLOSED => fds'[g] = fds[g]
  BY DEF TypeOK
<1>2. ASSUME NEW d \in Conn, d # c PROVE Own(d)'
  BY <1>1, <1>2, Sockets DEF Goto, TypeOK, Own
<1>3. Own(c)'
  BY <1>1, Sockets DEF Goto, TypeOK, Own, InServer
<1> QED
  BY <1>2, <1>3

\* Every thread keeps its sockets as long as it stays calm.
LEMMA ThreadOwn ==
  ASSUME TypeOK, HitsCached, gone = {}, \A d \in Conn : Own(d),
         NEW c \in Conn, Thread(c), ~ SomeRefused'
  PROVE  \A d \in Conn : Own(d)'
<1> USE DEF Location, InServer
<1>a. ASSUME NEW from \in Location \ {"none", "done"},
             NEW l \in Location \ {"none", "refuse_type", "refuse_length", "refuse_body", "refused",
                            "epipe"},
             l \in InServer => from \in InServer, Moves(c, from, l)
      PROVE  \A d \in Conn : Own(d)'
  BY <1>a, GoingOwn DEF Moves, sockets
<1>b. ASSUME NEW from, NEW f, Fails(c, from, f) PROVE \A d \in Conn : Own(d)'
  BY <1>b, ExitOwn DEF Fails
<1>1. CASE ReadRequest(c)
  BY <1>1, <1>a, <1>b DEF ReadRequest
<1>2. CASE ErrorMsg(c, NotImplemented, "501", "close")
  <2>1. ASSUME NEW from \in Location \ ({"none", "done"} \cup InServer),
               NEW l \in {"501_type", "501_length", "501_body", "close"},
               ErrorLine(c, from, "501", l)
        PROVE  \A d \in Conn : Own(d)'
    BY <2>1, <1>b, GoingOwn DEF ErrorLine, sockets
  <2> QED
    BY <1>2, <2>1, ErrorLines
<1>3. CASE Lookup(c)
  BY <1>3, <1>a, ExitOwn DEF Lookup
<1>4. CASE AdjustCache(c)
  <2>1. ASSUME pc[c] = "hit" PROVE ~ WriteFails(connfd[c])
    <3>1. fds[connfd[c]] = Client(c)
      BY <2>1 DEF Own
    <3> QED
      BY <3>1, Sockets DEF WriteFails, ReadFails, Client
  <2>2. pc[c] # "epipe"
    BY DEF Own
  <2>3. CASE /\ pc[c] = "hit" /\ Goto(c, "close")
             /\ UNCHANGED <<up, sockets, gone, response, object, cached>>
    BY <2>3, GoingOwn DEF sockets
  <2> QED
    BY <1>4, <2>1, <2>2, <2>3 DEF AdjustCache, Moves
<1>5. CASE OpenSocket(c)
  <2>1. CASE Moves(c, "socket", "refuse")
    BY <2>1, <1>a
  <2> QED
    BY <1>5, <2>1, FreeNumber, NewOwn DEF OpenSocket
<1>6. CASE Connect(c)
  <2>1. CASE LookupFails(c)
    BY <2>1, GoingOwn DEF LookupFails
  <2>2. CASE ConnectFails(c)
    BY <2>2, CloseOwn DEF ConnectFails
  <2> QED
    BY <1>6, <1>a, <2>1, <2>2 DEF Connect
<1>7. CASE Refuse(c)
  <2>1. pc[c] \notin {"refuse_type", "refuse_length", "refuse_body", "refused"}
    BY DEF Own
  <2>2. CASE Fails(c, "refuse", connfd[c])
    BY <2>2, <1>b
  <2>3. CASE pc[c] = "refuse" /\ Deliver(c, connfd[c], "999")
    <3>1. connfd[c] \in Fd /\ fds[connfd[c]] = Client(c)
      BY <2>3 DEF Own
    <3>2. page' = [page EXCEPT ![c] = @ \cup {[from |-> c, part |-> "999"]}]
      BY <2>3, <3>1 DEF Deliver, Client
    <3>3. [from |-> c, part |-> "999"] \in page'[c]
      BY <3>2 DEF TypeOK
    <3>4. SomeRefused'
      BY <3>3 DEF SomeRefused
    <3> QED
      BY <3>4
  <2>4. pc[c] = "refuse"
    BY <1>7, <2>1, ErrorLines DEF Refuse, ErrorLine, Fails
  <2>5. ErrorLine(c, "refuse", "999", "refuse_type")
    BY <1>7, <2>1, ErrorLines DEF Refuse, ErrorLine, Fails
  <2> QED
    BY <2>2, <2>3, <2>5 DEF ErrorLine
<1>8. CASE AssembleHeader(c)
  BY <1>8, <1>a, <1>b DEF AssembleHeader
<1>9. CASE SendRequest(c)
  BY <1>9, <1>a DEF SendRequest
<1>10. CASE RelayLine(c)
  <2>1. UNCHANGED <<fds, connfd, server_fd, pc>>
    BY <1>10 DEF RelayLine, sockets
  <2> QED
    BY <2>1 DEF Own
<1>11. CASE RelayEnds(c)
  BY <1>11, <1>a, <1>b, GoingOwn DEF RelayEnds, Overflows, sockets
<1>12. CASE CloseServer(c)
  BY <1>12, CloseOwn, ExitOwn DEF CloseServer, Close
<1>13. CASE CloseClient(c)
  BY <1>13, CloseOwn, ExitOwn DEF CloseClient, Close
<1> QED
  BY <1>1, <1>2, <1>3, <1>4, <1>5, <1>6, <1>7, <1>8, <1>9, <1>10, <1>11, <1>12, <1>13
     DEF Thread

\* No step disturbs what was calm.
LEMMA NextUndisturbed ==
  ASSUME TypeOK, HitsCached, Undisturbed, [Next]_vars
  PROVE  Undisturbed'
<1> SUFFICES ASSUME Calm' PROVE \A d \in Conn : Own(d)'
  BY DEF Undisturbed
<1>1. gone = {} /\ (\A d \in Conn : Own(d)) /\ ~ SomeRefused' /\ gone' = {}
  BY CalmBefore DEF Undisturbed, Calm
<1>2. ASSUME NEW c \in Conn, Accept(c) PROVE \A d \in Conn : Own(d)'
  BY <1>1, <1>2, FreeNumber, NewOwn DEF Accept
<1>3. ASSUME NEW c \in Conn, AcceptFails(c) PROVE \A d \in Conn : Own(d)'
  BY <1>1, <1>3, ExitOwn DEF AcceptFails
<1>4. ASSUME NEW c \in Conn, Thread(c) PROVE \A d \in Conn : Own(d)'
  BY <1>1, <1>4, ThreadOwn
<1>5. ASSUME NEW c \in Conn PROVE ~ ClientLeaves(c)
  BY <1>1 DEF ClientLeaves
<1>6. ASSUME UNCHANGED vars PROVE \A d \in Conn : Own(d)'
  <2>1. UNCHANGED <<fds, connfd, server_fd, pc>>
    BY <1>6 DEF vars, sockets
  <2> QED
    BY <1>1, <2>1 DEF Own
<1> QED
  BY <1>2, <1>3, <1>4, <1>5, <1>6 DEF Next

\* Until a client is refused or hangs up, threads that end while others start
\* never use each other's sockets.
THEOREM OwnSockets == Spec => []OwnDescriptors
<1>1. Init => TypeOK /\ HitsCached /\ Undisturbed
  BY DEF Init, TypeOK, HitsCached, Undisturbed, Own, Location, InServer
<1>2. Undisturbed => OwnDescriptors
  BY DEF Undisturbed, Own, OwnDescriptors, Calm
<1> QED
  BY <1>1, <1>2, NextTyped, HitsStayCached, NextUndisturbed, PTL DEF Spec

-----------------------------------------------------------------------------
(* What is kept of a response. *)

\* An object that was cached fits, too.
CachedFits == cached # << >> => SizeOf(cached[1]) <= MAX_OBJECT_SIZE

\* The two properties of the run, the second one wherever the thread is: as
\* long as the lines that came fit, none of them has been left out.
Objects ==
  /\ \A c \in Conn :
       /\ SizeOf(object[c]) <= MAX_OBJECT_SIZE
       /\ SizeOf(response[c]) <= MAX_OBJECT_SIZE => object[c] = response[c]
  /\ CachedFits

\* The size of a line more.
LEMMA SizeOfLine ==
  ASSUME NEW o \in Seq(LineLength), NEW n \in LineLength
  PROVE  /\ SizeOf(Append(o, n)) = SizeOf(o) + n
         /\ SizeOf(o) \in Int /\ n \in Nat
<1>1. LineLength \subseteq Int /\ n \in Nat
  BY ProxyConstantsOK
<1>2. o \in Seq(Int)
  BY <1>1, SeqMonotonic
<1>. QED BY <1>1, <1>2, SumAppend DEF SizeOf

\* One turn of the loop: a line that fits is kept by a thread that has kept
\* them all, and one that does not fit makes the response too large for good.
LEMMA RelayKeepsObjects ==
  ASSUME TypeOK, Objects, NEW c \in Conn, RelayLine(c)
  PROVE  Objects'
<1>1. PICK n \in LineLength :
        /\ response' = [response EXCEPT ![c] = Append(@, n)]
        /\ object' = [object EXCEPT ![c] = Kept(@, n)]
  BY DEF RelayLine
<1>2. cached' = cached
  BY DEF RelayLine
<1>3. /\ response \in [Conn -> Seq(LineLength)] /\ object \in [Conn -> Seq(LineLength)]
      /\ MAX_OBJECT_SIZE \in Nat
  BY ProxyConstantsOK DEF TypeOK
<1>4. /\ SizeOf(Append(object[c], n)) = SizeOf(object[c]) + n
      /\ SizeOf(Append(response[c], n)) = SizeOf(response[c]) + n
      /\ SizeOf(object[c]) \in Int /\ SizeOf(response[c]) \in Int /\ n \in Nat
  BY <1>3, SizeOfLine
<1>5. /\ SizeOf(object[c]) <= MAX_OBJECT_SIZE
      /\ SizeOf(response[c]) <= MAX_OBJECT_SIZE => object[c] = response[c]
  BY DEF Objects
<1>6. SizeOf(Kept(object[c], n)) <= MAX_OBJECT_SIZE
  BY <1>3, <1>4, <1>5 DEF Kept
<1>7. SizeOf(Append(response[c], n)) <= MAX_OBJECT_SIZE =>
        Kept(object[c], n) = Append(response[c], n)
  <2>. SUFFICES ASSUME SizeOf(Append(response[c], n)) <= MAX_OBJECT_SIZE
                PROVE  Kept(object[c], n) = Append(response[c], n)
    OBVIOUS
  <2>1. SizeOf(response[c]) <= MAX_OBJECT_SIZE
    BY <1>3, <1>4
  <2>. QED BY <1>4, <1>5, <2>1 DEF Kept
<1>8. ASSUME NEW d \in Conn
      PROVE  /\ SizeOf(object'[d]) <= MAX_OBJECT_SIZE
             /\ SizeOf(response'[d]) <= MAX_OBJECT_SIZE => object'[d] = response'[d]
  <2>1. CASE d = c
    BY <1>1, <1>3, <1>6, <1>7, <2>1
  <2>2. CASE d # c
    <3>1. object'[d] = object[d] /\ response'[d] = response[d]
      BY <1>1, <1>3, <2>2
    <3>. QED BY <3>1 DEF Objects
  <2>. QED BY <2>1, <2>2
<1>. QED BY <1>2, <1>8 DEF Objects, CachedFits

\* No other step touches a response or what is kept of it; only the end of the
\* loop changes what is cached, to an object that fits.
LEMMA NextObjects ==
  ASSUME TypeOK, Objects, [Next]_vars
  PROVE  Objects'
<1>1. ASSUME UNCHANGED <<response, object, cached>> PROVE Objects'
  BY <1>1 DEF Objects, CachedFits
<1>2. ASSUME NEW c \in Conn, Accept(c) \/ AcceptFails(c) \/ ClientLeaves(c) PROVE Objects'
  BY <1>1, <1>2 DEF Accept, AcceptFails, ClientLeaves, Exit
<1>3. ASSUME NEW c \in Conn, RelayEnds(c) PROVE Objects'
  <2>1. CASE cached' = <<object[c]>> /\ UNCHANGED <<response, object>>
    <3>1. cached'[1] = object[c]
      BY <2>1
    <3>. QED BY <2>1, <3>1 DEF Objects, CachedFits
  <2>. QED BY <1>1, <1>3, <2>1 DEF RelayEnds, Overflows, Moves, Fails, Exit
<1>4. ASSUME NEW c \in Conn, Thread(c), ~ RelayLine(c), ~ RelayEnds(c) PROVE Objects'
  <2>1. UNCHANGED <<response, object, cached>>
    BY <1>4 DEF Thread, ReadRequest, ErrorMsg, ErrorLine, Lookup, AdjustCache, OpenSocket, Connect,
       LookupFails, ConnectFails, Refuse, AssembleHeader, SendRequest, CloseServer,
       CloseClient, Moves, Fails, Exit, Close
  <2>. QED BY <1>1, <2>1
<1>5. CASE UNCHANGED vars
  BY <1>1, <1>5 DEF vars
<1>. QED BY <1>2, <1>3, <1>4, <1>5, RelayKeepsObjects DEF Next

\* Nothing has come at first, and nothing is the whole of nothing.
THEOREM ObjectsInvariance == Spec => []Objects
<1>1. Init => Objects
  <2>. SUFFICES ASSUME Init PROVE Objects
    OBVIOUS
  <2>1. SizeOf(<< >>) = 0
    BY SumNothing DEF SizeOf
  <2>. QED BY <2>1, ProxyConstantsOK DEF Init, Objects, CachedFits
<1>. QED BY <1>1, TypeCorrect, NextObjects, PTL DEF Spec

\* What thread_pro copies to object never passes its end, whatever lines come.
THEOREM ObjectsFit == Spec => []ObjectFits
<1>1. Objects => ObjectFits
  BY DEF Objects, ObjectFits
<1>. QED BY <1>1, ObjectsInvariance, PTL

\* A response no larger than an object may be is handed to the cache whole.
THEOREM SmallWhole == Spec => []SmallObjectsWhole
<1>1. Objects => SmallObjectsWhole
  BY DEF Objects, SmallObjectsWhole
<1>. QED BY <1>1, ObjectsInvariance, PTL

\* What is cached is no larger than an object may be, which is what ProxyCache
\* takes for granted of the sizes it is given.
THEOREM CacheGetsObjects == Spec => []CachedFits
<1>1. Objects => CachedFits
  BY DEF Objects
<1>. QED BY <1>1, ObjectsInvariance, PTL
=============================================================================
