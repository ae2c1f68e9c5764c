---------------------------- MODULE ProtocolProofs ----------------------------
(***************************************************************************)
(* Theorems about Protocol, for any number of clients and addresses, any   *)
(* arguments, any number of faults and any way to cut reads and writes.    *)
(***************************************************************************)
EXTENDS Protocol, PipeProofs, FiniteSetTheorems, TLAPS

-----------------------------------------------------------------------------
(* What the proofs need to know of a state: which sockets there are.       *)

Stages ==
    {"unstarted", "lookup", "socket", "establish", "close", "listen", "open",
     "failed", "ended"}

Holding == {"establish", "close", "listen", "open"}
Serving == {"read", "write", "last"}

SocketsTyped ==
    /\ opening \in [Processes -> [at : Stages, address : 1 .. Addresses]]
    /\ fds \in [Processes -> Int]
    /\ DOMAIN link = Clients
    /\ DOMAIN sessions = Clients
    /\ \A c \in Clients : "pc" \in DOMAIN sessions[c]

\* Only a connection that has been accepted has a thread, and only a client
\* that has, or has had, a socket has a connection.
LinksOK ==
    \A c \in Clients :
        /\ c \in Live => link[c] = "accepted"
        /\ link[c] # "none" => At(c, {"open", "ended"})

Own(p) == IF At(p, Holding) THEN 1 ELSE 0

FdsOK ==
    /\ \A c \in Clients : fds[c] = Own(c)
    /\ fds[Server] = Own(Server) + Cardinality(Live)

SocketInv == SocketsTyped /\ LinksOK /\ FdsOK

LEMMA LiveIsFinite == IsFiniteSet(Live) /\ Cardinality(Live) \in Nat
<1>1. Live \subseteq Clients
  BY DEF Live
<1> QED
  BY <1>1, ClientsAssumption, FS_Subset, FS_CardinalityType

LEMMA InitSockets == Init => SocketInv
<1> SUFFICES ASSUME Init PROVE SocketInv
  OBVIOUS
<1>1. SocketsTyped
  BY AddressesAssumption DEF Init, SocketsTyped, Stages
<1>2. Live = {}
  BY DEF Init, Live
<1>3. LinksOK
  BY <1>2 DEF Init, LinksOK
<1>4. \A p \in Processes : Own(p) = 0 /\ fds[p] = 0
  BY DEF Init, Own, At, Holding
<1>5. Cardinality(Live) = 0
  BY <1>2, FS_EmptySet
<1>6. FdsOK
  BY <1>4, <1>5 DEF FdsOK, Processes
<1> QED
  BY <1>1, <1>3, <1>6 DEF SocketInv

-----------------------------------------------------------------------------
(* Steps by what they do to sockets.                                       *)

\* Nothing: data moves, and threads change their places.
LEMMA NoSocketStep ==
    ASSUME SocketInv, UNCHANGED <<opening, fds, link>>, Live' = Live,
           DOMAIN sessions' = Clients,
           \A c \in Clients : "pc" \in DOMAIN sessions'[c]
    PROVE  SocketInv'
<1>1. SocketsTyped'
  BY DEF SocketInv, SocketsTyped
<1>2. LinksOK' /\ FdsOK'
  BY DEF SocketInv, LinksOK, FdsOK, Own, At
<1> QED
  BY <1>1, <1>2 DEF SocketInv

\* One process moves from stage to stage and opens or closes a socket.
Staged(p, at, a) ==
    /\ opening' = [opening EXCEPT ![p] = [at |-> at, address |-> a]]
    /\ fds' \in [Processes -> Int]
    /\ \A q \in Processes : q # p => fds'[q] = fds[q]
    /\ fds'[p] = fds[p] + (IF at \in Holding THEN 1 ELSE 0) - Own(p)
    /\ \/ link' = link
       \/ at = "open" /\ p \in Clients /\ link' = [link EXCEPT ![p] = "queued"]
    /\ p \in Clients => link[p] = "none" \/ at = "ended"
    /\ UNCHANGED sessions

LEMMA StageStep ==
    ASSUME SocketInv, NEW p \in Processes, NEW at \in Stages,
           NEW a \in 1 .. Addresses, Staged(p, at, a)
    PROVE  SocketInv'
<1> USE DEF Staged
<1>1. SocketsTyped'
  BY DEF SocketInv, SocketsTyped
<1>2. Live' = Live
  BY DEF Live
<1>3. \A q \in Processes : q # p => opening'[q] = opening[q] /\ fds'[q] = fds[q]
  BY DEF SocketInv, SocketsTyped
<1>4. /\ opening'[p].at = at
      /\ fds'[p] = fds[p] + (IF at \in Holding THEN 1 ELSE 0) - Own(p)
  BY DEF SocketInv, SocketsTyped
<1>5. LinksOK'
  BY <1>2, <1>3, <1>4 DEF SocketInv, SocketsTyped, LinksOK, At, Processes
<1>6. \A q \in Processes : q # p => Own(q)' = Own(q)
  BY <1>3 DEF Own, At
<1>7. Own(p)' = IF at \in Holding THEN 1 ELSE 0
  BY <1>4 DEF Own, At
<1>8. FdsOK'
  <2>1. Own(p) \in Int /\ Own(p)' \in Int /\ Cardinality(Live) \in Int
    BY LiveIsFinite DEF Own
  <2>2. \A c \in Clients : fds'[c] = Own(c)'
    BY <1>3, <1>4, <1>6, <1>7, <2>1 DEF SocketInv, FdsOK, Processes
  <2>3. fds'[Server] = Own(Server)' + Cardinality(Live)
    BY <1>3, <1>4, <1>6, <1>7, <2>1 DEF SocketInv, FdsOK, Processes
  <2> QED
    BY <1>2, <2>2, <2>3 DEF FdsOK
<1> QED
  BY <1>1, <1>5, <1>8 DEF SocketInv

LEMMA GotoStage ==
    ASSUME SocketInv, NEW p \in Processes, NEW at \in Stages, Goto(p, at)
    PROVE  \E a \in 1 .. Addresses :
               opening' = [opening EXCEPT ![p] = [at |-> at, address |-> a]]
<1>1. opening[p].address \in 1 .. Addresses /\ 1 \in 1 .. Addresses
  BY AddressesAssumption DEF SocketInv, SocketsTyped
<1> QED
  BY <1>1 DEF Goto

LEMMA TryNextStage ==
    ASSUME SocketInv, NEW p \in Processes, TryNext(p)
    PROVE  \E at \in {"socket", "failed"}, a \in 1 .. Addresses :
               opening' = [opening EXCEPT ![p] = [at |-> at, address |-> a]]
<1>1. opening[p].address \in 1 .. Addresses
  BY DEF SocketInv, SocketsTyped
<1>2. CASE opening[p].address < Addresses
  BY <1>1, <1>2, AddressesAssumption DEF TryNext
<1>3. CASE ~ (opening[p].address < Addresses)
  <2>1. Goto(p, "failed") /\ "failed" \in Stages
    BY <1>3 DEF TryNext, Stages
  <2> QED
    BY <2>1, GotoStage
<1> QED
  BY <1>2, <1>3

\* A client that is looking for a server has no connection yet.
LEMMA Unconnected ==
    ASSUME SocketInv, NEW c \in Clients, ~ At(c, {"open", "ended"})
    PROVE  link[c] = "none"
BY DEF SocketInv, LinksOK

LEMMA OpensKeeps ==
    ASSUME SocketInv, NEW p \in Processes, Opens(p)
    PROVE  SocketInv'
<1>0. /\ UNCHANGED sessions
      /\ fds \in [Processes -> Int] /\ fds[p] \in Int
  BY DEF Opens, SocketInv, SocketsTyped
<1>1. CASE Lookup(p)
  <2>1. PICK at \in {"socket", "failed"} : Goto(p, at)
    BY <1>1 DEF Lookup
  <2>2. at \in Stages /\ at \notin Holding
    BY DEF Stages, Holding
  <2>3. PICK a \in 1 .. Addresses :
          opening' = [opening EXCEPT ![p] = [at |-> at, address |-> a]]
    BY <2>1, <2>2, GotoStage
  <2>4. Own(p) = 0 /\ (p \in Clients => link[p] = "none") /\ UNCHANGED <<fds, link>>
    BY <1>1, Unconnected DEF Lookup, At, Own, Holding
  <2>9. Staged(p, at, a)
    BY <1>0, <2>2, <2>3, <2>4 DEF Staged
  <2> QED
    BY <1>0, <2>2, <2>3, <2>4, <2>9, StageStep
<1>2. CASE Socket(p)
  <2>1. Own(p) = 0 /\ (p \in Clients => link[p] = "none") /\ UNCHANGED link
    BY <1>2, Unconnected DEF Socket, At, Own, Holding
  <2>2. CASE TryNext(p) /\ UNCHANGED fds
    <3>1. PICK at \in {"socket", "failed"}, a \in 1 .. Addresses :
            opening' = [opening EXCEPT ![p] = [at |-> at, address |-> a]]
      BY <2>2, TryNextStage
    <3>2. at \in Stages /\ at \notin Holding
      BY DEF Stages, Holding
    <3>9. Staged(p, at, a)
      BY <1>0, <2>1, <2>2, <3>1, <3>2 DEF Staged
    <3> QED
      BY <1>0, <2>1, <2>2, <3>1, <3>2, <3>9, StageStep
  <2>3. CASE Goto(p, "establish") /\ OpenFds(p, 1)
    <3>1. "establish" \in Stages /\ "establish" \in Holding
      BY DEF Stages, Holding
    <3>2. PICK a \in 1 .. Addresses :
            opening' = [opening EXCEPT ![p] = [at |-> "establish", address |-> a]]
      BY <2>3, <3>1, GotoStage
    <3>3. /\ fds' \in [Processes -> Int]
          /\ \A q \in Processes : q # p => fds'[q] = fds[q]
          /\ fds'[p] = fds[p] + 1
      BY <1>0, <2>3 DEF OpenFds
    <3>9. Staged(p, "establish", a)
      BY <1>0, <2>1, <3>1, <3>2, <3>3 DEF Staged
    <3> QED
      BY <1>0, <2>1, <3>1, <3>2, <3>3, <3>9, StageStep
  <2> QED
    BY <1>2, <2>2, <2>3 DEF Socket
<1>3. CASE Establish(p)
  <2>1. /\ Own(p) = 1 /\ (p \in Clients => link[p] = "none") /\ UNCHANGED fds
    BY <1>3, Unconnected DEF Establish, At, Own, Holding
  <2>2. PICK at \in {"close", "listen", "open"} :
          /\ Goto(p, at)
          /\ \/ link' = link
             \/ at = "open" /\ p \in Clients /\ link' = [link EXCEPT ![p] = "queued"]
    BY <1>3 DEF Establish
  <2>3. at \in Stages /\ at \in Holding
    BY DEF Stages, Holding
  <2>4. PICK a \in 1 .. Addresses :
          opening' = [opening EXCEPT ![p] = [at |-> at, address |-> a]]
    BY <2>2, <2>3, GotoStage
  <2>9. Staged(p, at, a)
    BY <1>0, <2>1, <2>2, <2>3, <2>4 DEF Staged
  <2> QED
    BY <1>0, <2>1, <2>2, <2>3, <2>4, <2>9, StageStep
<1>4. CASE CloseFailed(p)
  <2>1. /\ Own(p) = 1 /\ (p \in Clients => link[p] = "none") /\ UNCHANGED link
    BY <1>4, Unconnected DEF CloseFailed, At, Own, Holding
  <2>2. /\ fds' \in [Processes -> Int]
        /\ \A q \in Processes : q # p => fds'[q] = fds[q]
        /\ fds'[p] = fds[p] - 1
    BY <1>0, <1>4 DEF CloseFailed, OpenFds
  <2>3. PICK at \in {"socket", "failed"}, a \in 1 .. Addresses :
          opening' = [opening EXCEPT ![p] = [at |-> at, address |-> a]]
    <3>1. "failed" \in Stages
      BY DEF Stages
    <3> QED
      BY <1>4, <3>1, TryNextStage, GotoStage DEF CloseFailed
  <2>4. at \in Stages /\ at \notin Holding
    BY DEF Stages, Holding
  <2>9. Staged(p, at, a)
    BY <1>0, <2>1, <2>2, <2>3, <2>4 DEF Staged
  <2> QED
    BY <1>0, <2>1, <2>2, <2>3, <2>4, <2>9, StageStep
<1>5. CASE p = Server /\ Listen
  <2>1. Own(p) = 1 /\ p \notin Clients /\ UNCHANGED link
    BY <1>5, ClientsAssumption DEF Listen, At, Own, Holding
  <2>2. CASE Goto(p, "open") /\ UNCHANGED fds
    <3>1. "open" \in Stages /\ "open" \in Holding
      BY DEF Stages, Holding
    <3>2. PICK a \in 1 .. Addresses :
            opening' = [opening EXCEPT ![p] = [at |-> "open", address |-> a]]
      BY <2>2, <3>1, GotoStage
    <3>9. Staged(p, "open", a)
      BY <1>0, <2>1, <2>2, <3>1, <3>2 DEF Staged
    <3> QED
      BY <1>0, <2>1, <2>2, <3>1, <3>2, <3>9, StageStep
  <2>3. CASE Goto(p, "failed") /\ OpenFds(p, -1)
    <3>1. "failed" \in Stages /\ "failed" \notin Holding
      BY DEF Stages, Holding
    <3>2. PICK a \in 1 .. Addresses :
            opening' = [opening EXCEPT ![p] = [at |-> "failed", address |-> a]]
      BY <2>3, <3>1, GotoStage
    <3>3. /\ fds' \in [Processes -> Int]
          /\ \A q \in Processes : q # p => fds'[q] = fds[q]
          /\ fds'[p] = fds[p] - 1
      BY <1>0, <2>3 DEF OpenFds
    <3>9. Staged(p, "failed", a)
      BY <1>0, <2>1, <3>1, <3>2, <3>3 DEF Staged
    <3> QED
      BY <1>0, <2>1, <3>1, <3>2, <3>3, <3>9, StageStep
  <2> QED
    BY <1>5, <2>2, <2>3 DEF Listen
<1> QED
  BY <1>1, <1>2, <1>3, <1>4, <1>5 DEF Opens

LEMMA StartKeeps ==
    ASSUME SocketInv, NEW c \in Clients, Start(c)
    PROVE  SocketInv'
<1>1. c \in Processes /\ "lookup" \in Stages /\ "lookup" \notin Holding
  BY DEF Processes, Stages, Holding
<1>2. /\ Own(c) = 0 /\ link[c] = "none" /\ UNCHANGED <<fds, link, sessions>>
      /\ Goto(c, "lookup")
  BY Unconnected DEF Start, ClientDoes, At, Own, Holding
<1>3. PICK a \in 1 .. Addresses :
        opening' = [opening EXCEPT ![c] = [at |-> "lookup", address |-> a]]
  BY <1>1, <1>2, GotoStage
<1>4. fds \in [Processes -> Int] /\ fds[c] \in Int
  BY <1>1 DEF SocketInv, SocketsTyped
<1>9. Staged(c, "lookup", a)
  BY <1>1, <1>2, <1>3, <1>4 DEF Staged
<1> QED
  BY <1>1, <1>2, <1>3, <1>4, <1>9, StageStep

\* However a client ends, its socket goes.
LEMMA ExitKeeps ==
    ASSUME SocketInv, NEW c \in Clients, NEW result, Exit(c, result),
           UNCHANGED <<link, sessions>>
    PROVE  SocketInv'
<1>1. c \in Processes /\ "ended" \in Stages /\ "ended" \notin Holding
  BY DEF Processes, Stages, Holding
<1>2. PICK a \in 1 .. Addresses :
        opening' = [opening EXCEPT ![c] = [at |-> "ended", address |-> a]]
  BY <1>1, GotoStage DEF Exit
<1>3. fds \in [Processes -> Int] /\ fds[c] = Own(c) /\ Own(c) \in Int
  BY <1>1 DEF SocketInv, SocketsTyped, FdsOK, Own
<1>4. /\ fds' \in [Processes -> Int]
      /\ \A q \in Processes : q # c => fds'[q] = fds[q]
      /\ fds'[c] = fds[c] + 0 - Own(c)
  BY <1>1, <1>3 DEF Exit
<1>9. Staged(c, "ended", a)
  BY <1>1, <1>2, <1>4 DEF Staged
<1> QED
  BY <1>1, <1>2, <1>4, <1>9, StageStep

LEMMA ClientKeeps ==
    ASSUME SocketInv, NEW c \in Clients, Client(c)
    PROVE  SocketInv'
<1>1. c \in Processes
  BY DEF Processes
<1>2. CASE Opens(c)
  BY <1>1, <1>2, OpensKeeps
<1>3. CASE \/ Unencodable(c) \/ NoConnection(c) \/ ClientBreaksPipe(c) \/ Bye(c)
           \/ GiveUp(c) \/ Abort(c) \/ ReadFails(c)
  <2>1. UNCHANGED <<link, sessions>> /\ \E result : Exit(c, result)
    BY <1>3 DEF Unencodable, NoConnection, ClientBreaksPipe, Bye, GiveUp, Abort,
                ReadFails, ClientDoes
  <2> QED
    BY <2>1, ExitKeeps
<1>4. CASE SendRequest(c) \/ ClientWrites(c) \/ AwaitReply(c) \/ ClientReads(c) \/ Go(c)
  <2>1. UNCHANGED <<opening, fds, link, sessions>>
    BY <1>4 DEF SendRequest, ClientWrites, AwaitReply, ClientReads, Go, ClientDoes,
                sockets
  <2>2. Live' = Live
    BY <2>1 DEF Live
  <2> QED
    BY <2>1, <2>2, NoSocketStep DEF SocketInv, SocketsTyped
<1> QED
  BY <1>2, <1>3, <1>4 DEF Client
-----------------------------------------------------------------------------
(* Steps of the server.                                                    *)

\* A thread goes from place to place, and perhaps changes other fields.
LEMMA ThreadMoves ==
    ASSUME SocketInv, NEW c \in Clients, c \in Live, NEW session,
           DOMAIN session = DOMAIN sessions[c], NEW pc \in Serving,
           sessions' = [sessions EXCEPT ![c] = [session EXCEPT !.pc = pc]],
           UNCHANGED <<opening, fds, link>>
    PROVE  SocketInv'
<1>1. /\ DOMAIN sessions = Clients
      /\ \A d \in Clients : "pc" \in DOMAIN sessions[d]
  BY DEF SocketInv, SocketsTyped
<1>2. sessions'[c] = [session EXCEPT !.pc = pc]
  BY <1>1
<1>3. sessions'[c].pc = pc /\ "pc" \in DOMAIN sessions'[c]
  BY <1>1, <1>2
<1>4. \A d \in Clients : d # c => sessions'[d] = sessions[d]
  BY <1>1
<1>5. Live' = Live
  BY <1>3, <1>4 DEF Live, Serving
<1>6. /\ DOMAIN sessions' = Clients
      /\ \A d \in Clients : "pc" \in DOMAIN sessions'[d]
  BY <1>1, <1>3, <1>4
<1> QED
  BY <1>5, <1>6, NoSocketStep

\* exit() closes everything at once.
LEMMA ServerExitKeeps ==
    ASSUME SocketInv, NEW why, ServerExit(why)
    PROVE  SocketInv'
<1>1. Server \in Processes /\ Server \notin Clients /\ "ended" \in Stages
  BY ClientsAssumption DEF Processes, Stages
<1>2. Goto(Server, "ended")
  BY DEF ServerExit
<1>3. PICK a \in 1 .. Addresses :
        opening' = [opening EXCEPT ![Server] = [at |-> "ended", address |-> a]]
  BY <1>1, <1>2, GotoStage
<1>4. /\ opening \in [Processes -> [at : Stages, address : 1 .. Addresses]]
      /\ fds \in [Processes -> Int] /\ Clients \subseteq Processes
      /\ DOMAIN link = Clients
      /\ \A c \in Clients : "pc" \in DOMAIN sessions[c]
  BY DEF SocketInv, SocketsTyped, Processes
<1>5. /\ fds' = [fds EXCEPT ![Server] = 0] /\ link' = link
      /\ sessions' = [c \in Clients |-> [sessions[c] EXCEPT !.pc = "ended"]]
  BY DEF ServerExit
<1>6. \A c \in Clients : sessions'[c].pc = "ended" /\ "pc" \in DOMAIN sessions'[c]
  BY <1>4, <1>5
<1>7. SocketsTyped'
  BY <1>1, <1>3, <1>4, <1>5, <1>6 DEF SocketsTyped
<1>8. Live' = {}
  BY <1>6 DEF Live
<1>9. \A c \in Clients : opening'[c] = opening[c] /\ fds'[c] = fds[c]
  BY <1>1, <1>3, <1>4, <1>5
<1>10. LinksOK'
  BY <1>5, <1>8, <1>9 DEF SocketInv, LinksOK, At
<1>11. fds'[Server] = 0 /\ Own(Server)' = 0
  BY <1>1, <1>3, <1>4, <1>5 DEF Own, At, Holding
<1>12. \A c \in Clients : fds'[c] = Own(c)'
  BY <1>9 DEF SocketInv, FdsOK, Own, At
<1>13. Cardinality(Live') = 0
  BY <1>8, FS_EmptySet
<1>14. FdsOK'
  BY <1>11, <1>12, <1>13 DEF FdsOK
<1> QED
  BY <1>7, <1>10, <1>14 DEF SocketInv

\* A thread that starts brings its socket, and only it.
LEMMA AcceptKeeps ==
    ASSUME SocketInv, NEW c \in Clients, Accept(c)
    PROVE  SocketInv'
<1>1. Server \in Processes /\ Server \notin Clients
  BY ClientsAssumption DEF Processes
<1>2. /\ opening' = opening /\ link[c] = "queued"
      /\ link' = [link EXCEPT ![c] = "accepted"]
      /\ fds' = [fds EXCEPT ![Server] = @ + 1]
      /\ sessions' = [sessions EXCEPT ![c].pc = "read"]
  BY DEF Accept, OpenFds
<1>3. /\ fds \in [Processes -> Int] /\ Clients \subseteq Processes
      /\ DOMAIN link = Clients /\ DOMAIN sessions = Clients
      /\ \A d \in Clients : "pc" \in DOMAIN sessions[d]
  BY DEF SocketInv, SocketsTyped, Processes
<1>4. /\ sessions'[c].pc = "read" /\ DOMAIN sessions' = Clients
      /\ \A d \in Clients : "pc" \in DOMAIN sessions'[d]
      /\ \A d \in Clients : d # c => sessions'[d] = sessions[d]
  BY <1>2, <1>3
<1>5. fds[Server] \in Int /\ fds' \in [Processes -> Int] /\ fds'[Server] = fds[Server] + 1
  BY <1>1, <1>2, <1>3
<1>6. \A d \in Clients : fds'[d] = fds[d]
  BY <1>1, <1>2, <1>3
<1>7. SocketsTyped'
  BY <1>2, <1>3, <1>4, <1>5 DEF SocketInv, SocketsTyped
<1>8. c \notin Live
  BY <1>2 DEF SocketInv, LinksOK
<1>9. Live' = Live \cup {c}
  BY <1>4 DEF Live
<1>10. LinksOK'
  BY <1>2, <1>3, <1>9 DEF SocketInv, LinksOK, At
<1>11. Cardinality(Live') = Cardinality(Live) + 1
  BY <1>8, <1>9, LiveIsFinite, FS_AddElement
<1>12. \A p \in Processes : Own(p)' = Own(p)
  BY <1>2 DEF Own, At
<1>13. Own(Server) \in Int /\ Cardinality(Live) \in Int
  BY LiveIsFinite DEF Own
<1>14. fds'[Server] = Own(Server)' + Cardinality(Live')
  BY <1>1, <1>5, <1>11, <1>12, <1>13 DEF SocketInv, FdsOK
<1>15. FdsOK'
  BY <1>3, <1>6, <1>12, <1>14 DEF SocketInv, FdsOK
<1> QED
  BY <1>7, <1>10, <1>15 DEF SocketInv

\* A thread that ends takes its socket with it.
LEMMA CloseKeeps ==
    ASSUME SocketInv, NEW c \in Clients, c \in Live, Close(c)
    PROVE  SocketInv'
<1>1. Server \in Processes /\ Server \notin Clients
  BY ClientsAssumption DEF Processes
<1>2. /\ opening' = opening /\ link' = link
      /\ fds' = [fds EXCEPT ![Server] = @ - 1]
      /\ sessions' = [sessions EXCEPT ![c].pc = "ended"]
  <2>1. fds' = [fds EXCEPT ![Server] = @ + (-1)] /\ fds[Server] \in Int
    BY <1>1 DEF Close, OpenFds, SocketInv, SocketsTyped
  <2> QED
    BY <2>1 DEF Close
<1>3. /\ fds \in [Processes -> Int] /\ Clients \subseteq Processes
      /\ DOMAIN sessions = Clients
      /\ \A d \in Clients : "pc" \in DOMAIN sessions[d]
  BY DEF SocketInv, SocketsTyped, Processes
<1>4. /\ sessions'[c].pc = "ended" /\ DOMAIN sessions' = Clients
      /\ \A d \in Clients : "pc" \in DOMAIN sessions'[d]
      /\ \A d \in Clients : d # c => sessions'[d] = sessions[d]
  BY <1>2, <1>3
<1>5. fds[Server] \in Int /\ fds' \in [Processes -> Int] /\ fds'[Server] = fds[Server] - 1
  BY <1>1, <1>2, <1>3
<1>6. \A d \in Clients : fds'[d] = fds[d]
  BY <1>1, <1>2, <1>3
<1>7. SocketsTyped'
  BY <1>2, <1>4, <1>5 DEF SocketInv, SocketsTyped
<1>8. Live' = Live \ {c}
  BY <1>4 DEF Live
<1>9. LinksOK'
  BY <1>2, <1>8 DEF SocketInv, LinksOK, At
<1>10. Cardinality(Live') = Cardinality(Live) - 1
  BY <1>8, LiveIsFinite, FS_RemoveElement
<1>11. \A p \in Processes : Own(p)' = Own(p)
  BY <1>2 DEF Own, At
<1>12. Own(Server) \in Int /\ Cardinality(Live) \in Int
  BY LiveIsFinite DEF Own
<1>13. fds'[Server] = Own(Server)' + Cardinality(Live')
  BY <1>1, <1>5, <1>10, <1>11, <1>12 DEF SocketInv, FdsOK
<1>14. FdsOK'
  BY <1>3, <1>6, <1>11, <1>13 DEF SocketInv, FdsOK
<1> QED
  BY <1>7, <1>9, <1>14 DEF SocketInv

\* pthread_create fails: the socket is closed as soon as it is open.
LEMMA ThreadFailsKeeps ==
    ASSUME SocketInv, NEW c \in Clients, ThreadFails(c)
    PROVE  SocketInv'
<1>1. /\ opening' = opening /\ fds' = fds /\ link[c] = "queued"
      /\ link' = [link EXCEPT ![c] = "accepted"]
      /\ sessions' = [sessions EXCEPT ![c].pc = "ended"]
  BY DEF ThreadFails, sockets
<1>2. /\ DOMAIN link = Clients /\ DOMAIN sessions = Clients
      /\ \A d \in Clients : "pc" \in DOMAIN sessions[d]
  BY DEF SocketInv, SocketsTyped
<1>3. /\ sessions'[c].pc = "ended" /\ DOMAIN sessions' = Clients
      /\ \A d \in Clients : "pc" \in DOMAIN sessions'[d]
      /\ \A d \in Clients : d # c => sessions'[d] = sessions[d]
  BY <1>1, <1>2
<1>4. c \notin Live
  BY <1>1 DEF SocketInv, LinksOK
<1>5. Live' = Live
  BY <1>3, <1>4 DEF Live
<1>6. SocketsTyped'
  BY <1>1, <1>2, <1>3 DEF SocketInv, SocketsTyped
<1>7. LinksOK'
  BY <1>1, <1>2, <1>5 DEF SocketInv, LinksOK, At
<1>8. FdsOK'
  BY <1>1, <1>5 DEF SocketInv, FdsOK, Own, At
<1> QED
  BY <1>6, <1>7, <1>8 DEF SocketInv

LEMMA HandleKeeps ==
    ASSUME SocketInv, NEW c \in Clients, Handle(c)
    PROVE  SocketInv'
<1>1. c \in Live
  BY DEF Handle, Live
<1>2. PICK m : \/ Login(c, m) \/ Push(c, m) \/ Set(c, m) \/ Get(c, m) \/ Top(c, m)
               \/ LogOut(c, m) \/ Refuse(c, m)
  BY DEF Handle
<1>3. ASSUME NEW reply, NEW session, NEW pc \in {"write", "last"},
             DOMAIN session = DOMAIN sessions[c], Answer(c, reply, session, pc)
      PROVE  SocketInv'
  <2>1. /\ sessions' = [sessions EXCEPT ![c] = [session EXCEPT !.pc = pc]]
        /\ UNCHANGED <<opening, fds, link>>
    BY <1>3 DEF Answer, sockets
  <2>2. pc \in Serving
    BY DEF Serving
  <2> QED
    BY <1>1, <1>3, <2>1, <2>2, ThreadMoves
<1>4. ASSUME NEW value
      PROVE  DOMAIN Pushed(sessions[c], value) = DOMAIN sessions[c]
  BY DEF Pushed
<1>5. CASE Login(c, m) \/ Push(c, m) \/ LogOut(c, m) \/ Refuse(c, m)
  BY <1>3, <1>4, <1>5 DEF Login, Push, LogOut, Refuse
<1>6. CASE Get(c, m)
  BY <1>3, <1>4, <1>6 DEF Get
<1>7. CASE Set(c, m) \/ Top(c, m)
  BY <1>3, <1>7 DEF Set, Top
<1> QED
  BY <1>2, <1>5, <1>6, <1>7

LEMMA ThreadKeeps ==
    ASSUME SocketInv, NEW c \in Clients, Thread(c)
    PROVE  SocketInv'
<1>1. CASE SessionReadFails(c) \/ SessionBreaksPipe(c)
  BY <1>1, ServerExitKeeps DEF SessionReadFails, SessionBreaksPipe
<1>2. CASE EndOfFile(c) \/ Return(c)
  <2>1. c \in Live /\ Close(c)
    BY <1>2 DEF EndOfFile, Return, Live
  <2> QED
    BY <2>1, CloseKeeps
<1>3. CASE SessionReads(c) \/ SessionWrites(c)
  <2>1. UNCHANGED <<opening, fds, link, sessions>>
    BY <1>3 DEF SessionReads, SessionWrites, sockets
  <2>2. Live' = Live
    BY <2>1 DEF Live
  <2> QED
    BY <2>1, <2>2, NoSocketStep DEF SocketInv, SocketsTyped
<1>4. CASE AwaitRequest(c)
  <2>1. /\ c \in Live /\ "read" \in Serving
        /\ UNCHANGED <<opening, fds, link>>
        /\ sessions' = [sessions EXCEPT ![c] = [sessions[c] EXCEPT !.pc = "read"]]
    BY <1>4 DEF AwaitRequest, Live, Serving, sockets
  <2> QED
    BY <2>1, ThreadMoves
<1>5. CASE Handle(c)
  BY <1>5, HandleKeeps
<1> QED
  BY <1>1, <1>2, <1>3, <1>4, <1>5 DEF Thread

LEMMA FaultsKeep ==
    ASSUME SocketInv, Faults
    PROVE  SocketInv'
<1>1. CASE KillServer \/ AcceptFails
  BY <1>1, ServerExitKeeps DEF KillServer, AcceptFails
<1>2. ASSUME NEW c \in Clients, Kill(c)
      PROVE  SocketInv'
  <2>1. Exit(c, "killed") /\ UNCHANGED <<link, sessions>>
    BY <1>2 DEF Kill
  <2> QED
    BY <2>1, ExitKeeps
<1>3. ASSUME NEW c \in Clients, ThreadFails(c)
      PROVE  SocketInv'
  BY <1>3, ThreadFailsKeeps
<1> QED
  BY <1>1, <1>2, <1>3 DEF Faults

LEMMA RunsKeep ==
    ASSUME SocketInv, Runs
    PROVE  SocketInv'
<1>1. Server \in Processes
  BY DEF Processes
<1>2. CASE Opens(Server)
  BY <1>1, <1>2, OpensKeeps
<1>3. CASE CannotListen
  BY <1>3, ServerExitKeeps DEF CannotListen
<1>4. ASSUME NEW c \in Clients, Accept(c)
      PROVE  SocketInv'
  BY <1>4, AcceptKeeps
<1>5. ASSUME NEW c \in Clients, Client(c) \/ Thread(c)
      PROVE  SocketInv'
  BY <1>5, ClientKeeps, ThreadKeeps
<1> QED
  BY <1>2, <1>3, <1>4, <1>5 DEF Runs, Main

LEMMA NextKeepsSockets ==
    ASSUME SocketInv, [Next]_vars
    PROVE  SocketInv'
<1>1. CASE Runs
  BY <1>1, RunsKeep
<1>2. CASE Faults
  BY <1>2, FaultsKeep
<1>3. ASSUME NEW c \in Clients, Start(c)
      PROVE  SocketInv'
  BY <1>3, StartKeeps
<1>4. CASE UNCHANGED vars
  <2>1. UNCHANGED <<opening, fds, link, sessions>> /\ Live' = Live
    BY <1>4 DEF vars, Live
  <2> QED
    BY <2>1, NoSocketStep DEF SocketInv, SocketsTyped
<1> QED
  BY <1>1, <1>2, <1>3, <1>4 DEF Next

-----------------------------------------------------------------------------
\* Whatever fails, whoever is killed and however reads and writes are cut:
\* only the connections that were accepted and not yet closed have threads.
THEOREM SocketsInvariant == Spec => []SocketInv
BY InitSockets, NextKeepsSockets, PTL DEF Spec

\* open_listenfd and open_clientfd (csapp.c) leave no descriptor behind on any
\* of their error paths, and the server has one for each live thread and no
\* other, so that no sequence of connections exhausts its descriptors.
THEOREM NoDescriptorLeaks == Spec => []DescriptorsAccounted
<1>1. SocketInv => DescriptorsAccounted
  <2> SUFFICES ASSUME SocketInv, NEW p \in Processes
               PROVE  fds[p] = (IF At(p, Holding) THEN 1 ELSE 0)
                               + (IF p = Server THEN Cardinality(Live) ELSE 0)
    BY DEF DescriptorsAccounted, Holding
  <2>1. CASE p = Server
    BY <2>1 DEF SocketInv, FdsOK, Own
  <2>2. CASE p # Server
    <3>1. p \in Clients /\ fds[p] = Own(p)
      BY <2>2 DEF SocketInv, FdsOK, Processes
    <3> QED
      BY <2>2, <3>1 DEF Own
  <2> QED
    BY <2>1, <2>2
<1> QED
  BY <1>1, SocketsInvariant, PTL

-----------------------------------------------------------------------------
(* Recursion over data whose size goes down.                               *)

\* Induction on the size m of the elements of D, with a set in place of a
\* predicate.
LEMMA BySize ==
    ASSUME NEW D, NEW m, \A d \in D : m[d] \in Nat, NEW S,
           \A d \in D : (\A e \in D : m[e] < m[d] => e \in S) => d \in S
    PROVE  \A d \in D : d \in S
<1> SUFFICES ASSUME NEW d \in D, d \notin S PROVE FALSE
  OBVIOUS
<1> DEFINE Bad == {n \in 0 .. m[d] : \E e \in D : e \notin S /\ m[e] = n}
<1>1. m[d] \in Nat /\ Bad \subseteq 0 .. m[d] /\ m[d] \in Bad
  OBVIOUS
<1> HIDE DEF Bad
<1>2. PICK k \in Bad : \A j \in Bad : k <= j
  BY <1>1, LeastIn
<1>3. PICK e \in D : e \notin S /\ m[e] = k
  BY <1>2 DEF Bad
<1>4. k \in 0 .. m[d]
  BY <1>1, <1>2
<1>5. \A x \in D : m[x] < m[e] => x \in S
  <2> SUFFICES ASSUME NEW x \in D, m[x] < m[e], x \notin S PROVE FALSE
    OBVIOUS
  <2>1. m[x] \in 0 .. m[d]
    BY <1>3, <1>4
  <2>2. m[x] \in Bad
    BY <2>1 DEF Bad
  <2> QED
    BY <1>2, <1>3, <1>4, <2>1, <2>2
<1> QED
  BY <1>3, <1>5

\* If "step" looks only at what is smaller, a function with that recursion
\* exists.
Local(D, m, V, step) ==
    \A d \in D, f \in [D -> V], g \in [D -> V] :
        (\A e \in D : m[e] < m[d] => f[e] = g[e]) => step[<<d, f>>] = step[<<d, g>>]

Recursive(D, V, step) == \E f \in [D -> V] : \A d \in D : f[d] = step[<<d, f>>]

LEMMA RecursionExists ==
    ASSUME NEW D, NEW m, \A d \in D : m[d] \in Nat, NEW V, NEW v \in V,
           NEW step \in [D \X [D -> V] -> V], Local(D, m, V, step)
    PROVE  Recursive(D, V, step)
<1> DEFINE Upto(k, g) == \A d \in D : m[d] < k => g[d] = step[<<d, g>>]
           S == {k \in Nat : \E g \in [D -> V] : Upto(k, g)}
<1>1. \A d \in D, f \in [D -> V] : step[<<d, f>>] \in V
  OBVIOUS
<1>2. \A k \in Nat : k \in S
  <2>1. ASSUME NEW k \in Nat, \A j \in Nat : j < k => j \in S
        PROVE  k \in S
    <3>1. CASE k = 0
      <4>1. [d \in D |-> v] \in [D -> V] /\ Upto(0, [d \in D |-> v])
        OBVIOUS
      <4> QED
        BY <3>1, <4>1
    <3>2. CASE k # 0
      <4>1. k - 1 \in Nat /\ k - 1 < k
        BY <3>2
      <4>2. PICK g \in [D -> V] : Upto(k - 1, g)
        BY <2>1, <4>1
      <4> DEFINE h == [d \in D |-> step[<<d, g>>]]
      <4>3. h \in [D -> V]
        BY <1>1
      <4>4. \A d \in D : m[d] < k - 1 => h[d] = g[d]
        BY <4>2
      <4>5. Upto(k, h)
        <5> SUFFICES ASSUME NEW d \in D, m[d] < k PROVE h[d] = step[<<d, h>>]
          OBVIOUS
        <5>1. \A e \in D : m[e] < m[d] => h[e] = g[e]
          BY <4>4
        <5>2. h[d] = step[<<d, g>>]
          OBVIOUS
        <5> HIDE DEF h
        <5> QED
          BY <4>3, <5>1, <5>2 DEF Local
      <4> HIDE DEF h
      <4> QED
        BY <4>3, <4>5
    <3> QED
      BY <3>1, <3>2
  <2> DEFINE size == [k \in Nat |-> k]
  <2>2. \A k \in Nat : size[k] \in Nat
    OBVIOUS
  <2>3. \A k \in Nat : (\A j \in Nat : size[j] < size[k] => j \in S) => k \in S
    <3> HIDE DEF S
    <3> QED
      BY <2>1
  <2> HIDE DEF S, size
  <2> QED
    BY <2>2, <2>3, BySize
<1>3. ASSUME NEW g \in [D -> V], NEW h \in [D -> V], NEW j \in Nat, NEW k \in Nat,
             Upto(j, g), Upto(k, h)
      PROVE  \A d \in D : m[d] < j /\ m[d] < k => g[d] = h[d]
  <2> DEFINE Same == {d \in D : m[d] < j /\ m[d] < k => g[d] = h[d]}
  <2>1. \A d \in D : (\A e \in D : m[e] < m[d] => e \in Same) => d \in Same
    <3> SUFFICES ASSUME NEW d \in D, \A e \in D : m[e] < m[d] => e \in Same,
                        m[d] < j, m[d] < k
                 PROVE  g[d] = h[d]
      OBVIOUS
    <3>1. \A e \in D : m[e] < m[d] => g[e] = h[e]
      OBVIOUS
    <3>2. step[<<d, g>>] = step[<<d, h>>]
      BY <3>1 DEF Local
    <3> QED
      BY <1>3, <3>2
  <2>2. \A d \in D : d \in Same
    <3> HIDE DEF Same
    <3> QED
      BY <2>1, BySize
  <2> QED
    BY <2>2
<1> DEFINE G(k) == CHOOSE g \in [D -> V] : Upto(k, g)
<1>4. \A k \in Nat : G(k) \in [D -> V] /\ Upto(k, G(k))
  <2>1. \A k \in Nat : \E g \in [D -> V] : Upto(k, g)
    BY <1>2
  <2> HIDE DEF Upto
  <2> QED
    BY <2>1, Zenon
<1> DEFINE f == [d \in D |-> G(m[d] + 1)[d]]
<1> HIDE DEF G
<1>5. f \in [D -> V]
  <2> SUFFICES ASSUME NEW d \in D PROVE G(m[d] + 1)[d] \in V
    OBVIOUS
  <2>1. m[d] + 1 \in Nat
    OBVIOUS
  <2>2. G(m[d] + 1) \in [D -> V]
    BY <1>4, <2>1
  <2> QED
    BY <2>2
<1>6. ASSUME NEW d \in D
      PROVE  f[d] = step[<<d, f>>]
  <2> DEFINE n == m[d] + 1
             g == G(n)
  <2>1. n \in Nat /\ g \in [D -> V] /\ Upto(n, g)
    <3>1. n \in Nat
      OBVIOUS
    <3> HIDE DEF n, Upto
    <3> QED
      BY <1>4, <3>1
  <2>2. \A e \in D : m[e] < m[d] => f[e] = g[e]
    <3> SUFFICES ASSUME NEW e \in D, m[e] < m[d] PROVE f[e] = g[e]
      OBVIOUS
    <3> DEFINE l == m[e] + 1
               h == G(l)
    <3>1. l \in Nat /\ h \in [D -> V] /\ Upto(l, h) /\ m[e] < l /\ m[e] < n /\ f[e] = h[e]
      <4>1. l \in Nat /\ m[e] < l /\ m[e] < n /\ f[e] = h[e]
        OBVIOUS
      <4> HIDE DEF l, Upto
      <4> QED
        BY <1>4, <4>1
    <3> HIDE DEF h, g, l, n, f, Upto
    <3> QED
      BY <1>3, <2>1, <3>1
  <2>3. f[d] = g[d] /\ m[d] < n
    OBVIOUS
  <2> HIDE DEF f, g, n
  <2>4. step[<<d, f>>] = step[<<d, g>>]
    BY <1>5, <2>1, <2>2 DEF Local
  <2> QED
    BY <2>1, <2>3, <2>4
<1> HIDE DEF f
<1> QED
  BY <1>5, <1>6 DEF Recursive

-----------------------------------------------------------------------------
(* Messages as lines of text.                                              *)

Strings == Seq(Bytes)

LEMMA LastOf ==
    ASSUME NEW S, NEW s \in Seq(S), s # <<>>
    PROVE  /\ Last(s) \in S /\ Last(s) = s[Len(s)]
           /\ Front(s) \in Seq(S) /\ Len(Front(s)) = Len(s) - 1
           /\ \A i \in 1 .. Len(s) - 1 : Front(s)[i] = s[i]
           /\ Len(s) \in Nat \ {0}
<1>1. Len(s) \in Nat \ {0}
  BY EmptySeq
<1>2. \A i \in 1 .. Len(s) : s[i] \in S
  BY ElementOfSeq
<1>3. Last(s) = s[Len(s)] /\ Last(s) \in S
  BY <1>1, <1>2 DEF Last
<1>4. \A i \in 1 .. Len(s) - 1 : s[i] \in S
  BY <1>1, <1>2
<1>5. /\ SubSeq(s, 1, Len(s) - 1) \in Seq(S)
      /\ Len(SubSeq(s, 1, Len(s) - 1)) = IF 1 <= Len(s) - 1 THEN Len(s) - 1 - 1 + 1 ELSE 0
      /\ \A i \in 1 .. Len(s) - 1 - 1 + 1 : SubSeq(s, 1, Len(s) - 1)[i] = s[1 + i - 1]
  BY <1>1, <1>4, SubSeqProperties
<1>6. Front(s) = SubSeq(s, 1, Len(s) - 1)
  BY DEF Front
<1>7. Len(Front(s)) = Len(s) - 1
  <2> DEFINE n == Len(s) - 1
  <2>1. n \in Nat
    BY <1>1
  <2>2. Len(Front(s)) = IF 1 <= n THEN n - 1 + 1 ELSE 0
    BY <1>5, <1>6
  <2> HIDE DEF n
  <2>3. Len(Front(s)) = n
    BY <2>1, <2>2
  <2> QED
    BY <2>3 DEF n
<1>8. \A i \in 1 .. Len(s) - 1 : Front(s)[i] = s[i]
  <2>1. \A i \in 1 .. Len(s) - 1 : i \in 1 .. Len(s) - 1 - 1 + 1 /\ 1 + i - 1 = i
    BY <1>1
  <2> QED
    BY <1>5, <1>6, <2>1
<1> QED
  BY <1>1, <1>3, <1>5, <1>6, <1>7, <1>8

LEMMA AppendOf ==
    ASSUME NEW S, NEW s \in Seq(S), NEW x \in S
    PROVE  /\ Append(s, x) \in Seq(S) /\ Append(s, x) # <<>>
           /\ Len(Append(s, x)) = Len(s) + 1
           /\ Last(Append(s, x)) = x /\ Front(Append(s, x)) = s
<1>1. /\ Append(s, x) \in Seq(S) /\ Len(Append(s, x)) = Len(s) + 1
      /\ \A i \in 1 .. Len(s) : Append(s, x)[i] = s[i]
      /\ Append(s, x)[Len(s) + 1] = x
  BY AppendProperties
<1>2. Len(s) \in Nat
  BY LenProperties
<1>3. Append(s, x) # <<>>
  BY <1>1, <1>2, EmptySeq
<1>4. Last(Append(s, x)) = x
  BY <1>1 DEF Last
<1>5. /\ Front(Append(s, x)) \in Seq(S) /\ Len(Front(Append(s, x))) = Len(s)
      /\ \A i \in 1 .. Len(s) : Front(Append(s, x))[i] = s[i]
  <2> DEFINE t == Append(s, x)
  <2> HIDE DEF t
  <2>1. /\ Front(t) \in Seq(S) /\ Len(Front(t)) = Len(t) - 1
        /\ \A i \in 1 .. Len(t) - 1 : Front(t)[i] = t[i]
    BY <1>1, <1>3, LastOf DEF t
  <2>2. Len(t) - 1 = Len(s)
    BY <1>1, <1>2 DEF t
  <2> QED
    BY <1>1, <2>1, <2>2 DEF t
<1>6. Front(Append(s, x)) = s
  BY <1>5, SeqEqual
<1> QED
  BY <1>1, <1>3, <1>4, <1>6

LEMMA SplitLast ==
    ASSUME NEW S, NEW s \in Seq(S), s # <<>>
    PROVE  s = Append(Front(s), Last(s))
<1>1. /\ Last(s) \in S /\ Last(s) = s[Len(s)]
      /\ Front(s) \in Seq(S) /\ Len(Front(s)) = Len(s) - 1
      /\ \A i \in 1 .. Len(s) - 1 : Front(s)[i] = s[i]
      /\ Len(s) \in Nat \ {0}
  BY LastOf
<1> DEFINE t == Append(Front(s), Last(s))
<1>2. /\ t \in Seq(S) /\ Len(t) = Len(Front(s)) + 1
      /\ \A i \in 1 .. Len(Front(s)) : t[i] = Front(s)[i]
      /\ t[Len(Front(s)) + 1] = Last(s)
  BY <1>1, AppendProperties
<1> HIDE DEF t
<1>3. Len(t) = Len(s) /\ \A i \in 1 .. Len(s) : t[i] = s[i]
  BY <1>1, <1>2
<1>4. t = s
  BY <1>2, <1>3, SeqEqual
<1> QED
  BY <1>4 DEF t

WordsStep(f, s) ==
    LET words == f[Front(s)]
        begins == words = <<>> \/ s[Len(s) - 1] = Blank
    IN  IF s = <<>> THEN <<>>
        ELSE IF Last(s) = Blank THEN words
        ELSE IF begins THEN Append(words, <<Last(s)>>)
        ELSE Append(Front(words), Append(Last(words), Last(s)))

LEMMA Single == ASSUME NEW S, NEW x \in S PROVE <<x>> \in Seq(S) /\ Len(<<x>>) = 1
OBVIOUS

LEMMA WordsStepType ==
    ASSUME NEW f \in [Strings -> Seq(Strings)], NEW s \in Strings
    PROVE  WordsStep(f, s) \in Seq(Strings)
<1>1. CASE s = <<>>
  BY <1>1, EmptySeq DEF WordsStep
<1>2. CASE s # <<>>
  <2>1. Last(s) \in Bytes /\ Front(s) \in Strings
    BY <1>2, LastOf DEF Strings
  <2>2. f[Front(s)] \in Seq(Strings)
    BY <2>1
  <2>3. Append(f[Front(s)], <<Last(s)>>) \in Seq(Strings)
    BY <2>1, <2>2, Single, AppendOf DEF Strings
  <2>4. ASSUME f[Front(s)] # <<>>
        PROVE  Append(Front(f[Front(s)]), Append(Last(f[Front(s)]), Last(s))) \in Seq(Strings)
    <3>1. Front(f[Front(s)]) \in Seq(Strings) /\ Last(f[Front(s)]) \in Strings
      BY <2>2, <2>4, LastOf
    <3>2. Append(Last(f[Front(s)]), Last(s)) \in Strings
      BY <2>1, <3>1, AppendOf DEF Strings
    <3> QED
      BY <3>1, <3>2, AppendOf
  <2> QED
    BY <1>2, <2>2, <2>3, <2>4 DEF WordsStep
<1> QED
  BY <1>1, <1>2

\* There is a function with the recursion of Words, so Words has it.
LEMMA WordsIs ==
    /\ Words \in [Strings -> Seq(Strings)]
    /\ \A s \in Strings : Words[s] = WordsStep(Words, s)
<1> DEFINE D == Strings
           V == Seq(Strings)
           m == [s \in D |-> Len(s)]
           step == [x \in D \X [D -> V] |-> WordsStep(x[2], x[1])]
<1>1. \A s \in D : m[s] \in Nat
  BY LenProperties DEF Strings
<1>2. step \in [D \X [D -> V] -> V]
  BY WordsStepType
<1>3. \A s \in D, f \in [D -> V] : step[<<s, f>>] = WordsStep(f, s)
  OBVIOUS
<1>4. ASSUME NEW s \in D, NEW f, NEW g, \A e \in D : m[e] < m[s] => f[e] = g[e]
      PROVE  WordsStep(f, s) = WordsStep(g, s)
  <2>1. CASE s = <<>>
    BY <2>1 DEF WordsStep
  <2>2. CASE s # <<>>
    <3>1. Front(s) \in D /\ Len(Front(s)) = Len(s) - 1 /\ Len(s) \in Nat
      BY <2>2, LastOf DEF Strings
    <3>2. m[Front(s)] < m[s]
      BY <3>1
    <3>3. f[Front(s)] = g[Front(s)]
      BY <1>4, <3>1, <3>2
    <3> QED
      BY <3>3 DEF WordsStep
  <2> QED
    BY <2>1, <2>2
<1>5. <<>> \in V
  BY EmptySeq
<1>6. PICK f \in [D -> V] : \A s \in D : f[s] = WordsStep(f, s)
  <2>1. Local(D, m, V, step)
    <3> HIDE DEF D, V, m, step
    <3> QED
      BY <1>3, <1>4 DEF Local
  <2>2. \E f \in [D -> V] : \A s \in D : f[s] = step[<<s, f>>]
    <3>1. Recursive(D, V, step)
      <4> HIDE DEF D, V, m, step
      <4> QED
        BY <1>1, <1>2, <1>5, <2>1, RecursionExists
    <3> HIDE DEF D, V, step
    <3> QED
      BY <3>1 DEF Recursive
  <2> HIDE DEF D, V, step
  <2> QED
    BY <1>3, <2>2
<1> DEFINE IsWords(h) == h = [s \in D |-> WordsStep(h, s)]
<1>7. IsWords(f)
  <2>1. f = [s \in D |-> f[s]]
    OBVIOUS
  <2> QED
    BY <1>6, <2>1
<1>8. Words = CHOOSE h : IsWords(h)
  BY DEF Words, WordsStep, Strings
<1>9. IsWords(Words)
  <2> HIDE DEF IsWords
  <2> QED
    BY <1>7, <1>8, Zenon
<1>10. \A s \in D : Words[s] = WordsStep(Words, s)
  <2>1. Words = [s \in D |-> WordsStep(Words, s)]
    BY <1>9
  <2> HIDE DEF D
  <2> QED
    BY <2>1
<1>11. \A s \in D : Words[s] = f[s]
  <2> DEFINE Same == {s \in D : Words[s] = f[s]}
  <2>1. \A s \in D : (\A e \in D : m[e] < m[s] => e \in Same) => s \in Same
    <3> SUFFICES ASSUME NEW s \in D, \A e \in D : m[e] < m[s] => e \in Same
                 PROVE  Words[s] = f[s]
      OBVIOUS
    <3>1. \A e \in D : m[e] < m[s] => Words[e] = f[e]
      OBVIOUS
    <3> HIDE DEF D, m, Same
    <3>2. WordsStep(Words, s) = WordsStep(f, s)
      BY <1>4, <3>1
    <3> QED
      BY <1>6, <1>10, <3>2
  <2>2. \A s \in D : s \in Same
    <3> HIDE DEF D, m, Same
    <3> QED
      BY <1>1, <2>1, BySize
  <2> QED
    BY <2>2
<1>12. Words = f
  <2>1. Words = [s \in D |-> Words[s]]
    <3>1. Words = [s \in D |-> WordsStep(Words, s)]
      BY <1>9
    <3> QED
      BY <1>10, <3>1
  <2>2. f = [s \in D |-> f[s]]
    OBVIOUS
  <2> HIDE DEF D, V
  <2> QED
    BY <1>11, <2>1, <2>2
<1> QED
  BY <1>10, <1>12

\* FlattenSeq is the last of the sequences flat[1], flat[2], ...
Flattens(flat, seqs) ==
    \A i \in 1 .. Len(seqs) :
        flat[i] = IF i = 1 THEN seqs[i] ELSE flat[i - 1] \o seqs[i]

LEMMA FlattenIs ==
    ASSUME NEW S, NEW seqs \in Seq(Seq(S)), seqs # <<>>
    PROVE  \E flat \in [1 .. Len(seqs) -> Seq(S)] :
              Flattens(flat, seqs) /\ FlattenSeq(seqs) = flat[Len(seqs)]
<1>1. Len(seqs) \in Nat /\ Len(seqs) # 0
  BY EmptySeq
<1> DEFINE n == Len(seqs)
           D == 1 .. n
           V == Seq(S)
           m == [i \in D |-> i]
           Step(f, i) == IF i = 1 THEN seqs[i] ELSE f[i - 1] \o seqs[i]
           step == [x \in D \X [D -> V] |-> Step(x[2], x[1])]
<1>2. \A i \in D : seqs[i] \in V /\ m[i] \in Nat
  BY ElementOfSeq
<1>3. \A i \in D : \A f : (i # 1 => f[i - 1] \in V) => Step(f, i) \in V
  <2> SUFFICES ASSUME NEW i \in D, NEW f, i # 1 => f[i - 1] \in V PROVE Step(f, i) \in V
    OBVIOUS
  <2>1. CASE i = 1
    BY <1>2, <2>1
  <2>2. CASE i # 1
    <3>1. f[i - 1] \in V /\ seqs[i] \in V
      BY <1>2, <2>2
    <3>2. f[i - 1] \o seqs[i] \in V
      BY <3>1, ConcatProperties
    <3> QED
      BY <2>2, <3>2
  <2> QED
    BY <2>1, <2>2
<1>4. \A i \in D : i # 1 => i - 1 \in D /\ m[i - 1] < m[i]
  BY <1>1
<1>5. step \in [D \X [D -> V] -> V]
  <2>1. \A i \in D, f \in [D -> V] : Step(f, i) \in V
    <3> HIDE DEF Step, V, m
    <3> QED
      BY <1>3, <1>4
  <2> HIDE DEF Step, D, V
  <2> QED
    BY <2>1
<1>6. \A i \in D, f \in [D -> V] : step[<<i, f>>] = Step(f, i)
  <2> HIDE DEF Step, D, V
  <2> QED
    OBVIOUS
<1>7. Local(D, m, V, step)
  <2>1. ASSUME NEW i \in D, NEW f \in [D -> V], NEW g \in [D -> V],
               \A e \in D : m[e] < m[i] => f[e] = g[e]
        PROVE  Step(f, i) = Step(g, i)
    <3>1. i # 1 => f[i - 1] = g[i - 1]
      BY <1>4, <2>1
    <3> QED
      BY <3>1
  <2> HIDE DEF Step, D, V, m, step
  <2>2. \A i \in D, f \in [D -> V], g \in [D -> V] :
           (\A e \in D : m[e] < m[i] => f[e] = g[e]) => Step(f, i) = Step(g, i)
    BY <2>1
  <2>3. \A i \in D, f \in [D -> V], g \in [D -> V] :
           (\A e \in D : m[e] < m[i] => f[e] = g[e]) => step[<<i, f>>] = step[<<i, g>>]
    <3> SUFFICES ASSUME NEW i \in D, NEW f \in [D -> V], NEW g \in [D -> V],
                        \A e \in D : m[e] < m[i] => f[e] = g[e]
                 PROVE  step[<<i, f>>] = step[<<i, g>>]
      BY Zenon
    <3>1. step[<<i, f>>] = Step(f, i)
      BY <1>6
    <3>2. step[<<i, g>>] = Step(g, i)
      BY <1>6
    <3>3. Step(f, i) = Step(g, i)
      BY <2>1
    <3> QED
      BY <3>1, <3>2, <3>3
  <2> QED
    BY <2>3 DEF Local
<1>8. Recursive(D, V, step)
  <2>1. <<>> \in V
    BY EmptySeq
  <2> HIDE DEF D, V, m, step
  <2> QED
    BY <1>2, <1>5, <1>7, <2>1, RecursionExists
<1>9. PICK f \in [D -> V] : \A i \in D : f[i] = Step(f, i)
  <2>1. \E f \in [D -> V] : \A i \in D : f[i] = step[<<i, f>>]
    <3> HIDE DEF D, V, step
    <3> QED
      BY <1>8 DEF Recursive
  <2> HIDE DEF D, V, step, Step
  <2> QED
    BY <1>6, <2>1
<1> DEFINE IsFlat(h) == h = [i \in D |-> Step(h, i)]
           flat == CHOOSE h : IsFlat(h)
<1>10. IsFlat(f)
  <2>1. f = [i \in D |-> f[i]]
    OBVIOUS
  <2> QED
    BY <1>9, <2>1
<1>11. IsFlat(flat)
  <2> HIDE DEF IsFlat
  <2> QED
    BY <1>10, Zenon
<1>12. FlattenSeq(seqs) = flat[n]
  BY <1>1 DEF FlattenSeq
<1>13. flat = [i \in D |-> flat[i]] /\ \A i \in D : flat[i] = Step(flat, i)
  <2>1. flat = [i \in D |-> Step(flat, i)]
    BY <1>11
  <2> HIDE DEF flat, Step
  <2> QED
    BY <2>1
<1> DEFINE Typed == {i \in D : flat[i] \in V}
<1> HIDE DEF flat
<1>14. \A i \in D : (\A e \in D : m[e] < m[i] => e \in Typed) => i \in Typed
  <2> SUFFICES ASSUME NEW i \in D, \A e \in D : m[e] < m[i] => e \in Typed
               PROVE  flat[i] \in V
    OBVIOUS
  <2>1. i # 1 => flat[i - 1] \in V
    BY <1>4
  <2> HIDE DEF Step, V
  <2> QED
    BY <1>3, <1>13, <2>1
<1>15. \A i \in D : i \in Typed
  <2> HIDE DEF D, m, Typed
  <2> QED
    BY <1>2, <1>14, BySize
<1>16. flat \in [D -> V]
  <2> HIDE DEF V
  <2> QED
    BY <1>13, <1>15
<1> QED
  BY <1>12, <1>13, <1>16 DEF Flattens

LEMMA FlattenEmpty == FlattenSeq(<<>>) = <<>>
BY DEF FlattenSeq

LEMMA FlattenType ==
    ASSUME NEW S, NEW seqs \in Seq(Seq(S))
    PROVE  FlattenSeq(seqs) \in Seq(S)
<1>1. CASE seqs = <<>>
  <2>1. <<>> \in Seq(S)
    BY EmptySeq
  <2> QED
    BY <1>1, <2>1, FlattenEmpty
<1>2. CASE seqs # <<>>
  <2>1. Len(seqs) \in 1 .. Len(seqs)
    BY <1>2, EmptySeq
  <2>2. PICK flat \in [1 .. Len(seqs) -> Seq(S)] : FlattenSeq(seqs) = flat[Len(seqs)]
    <3>1. \E flat \in [1 .. Len(seqs) -> Seq(S)] :
              Flattens(flat, seqs) /\ FlattenSeq(seqs) = flat[Len(seqs)]
      BY <1>2, FlattenIs
    <3> QED
      BY <3>1
  <2>3. flat[Len(seqs)] \in Seq(S)
    BY <2>1, <2>2
  <2> QED
    BY <2>2, <2>3
<1> QED
  BY <1>1, <1>2

\* Induction on the natural numbers up to n.
LEMMA Induction ==
    ASSUME NEW n \in Nat, NEW S, 0 \in S,
           \A i \in 0 .. n - 1 : i \in S => i + 1 \in S
    PROVE  \A i \in 0 .. n : i \in S
<1> DEFINE D == 0 .. n
           m == [i \in D |-> i]
<1>1. \A d \in D : m[d] \in Nat
  OBVIOUS
<1>2. \A d \in D : (\A e \in D : m[e] < m[d] => e \in S) => d \in S
  <2> SUFFICES ASSUME NEW d \in D, \A e \in D : m[e] < m[d] => e \in S, d # 0
               PROVE  d \in S
    OBVIOUS
  <2> DEFINE e == d - 1
  <2>1. e \in 0 .. n - 1 /\ e \in D /\ m[e] < m[d] /\ d = e + 1
    OBVIOUS
  <2> HIDE DEF e
  <2> QED
    BY <2>1
<1> HIDE DEF D, m
<1>3. \A d \in D : d \in S
  BY <1>1, <1>2, BySize
<1> QED
  BY <1>3 DEF D

LEMMA FlattenAppend ==
    ASSUME NEW S, NEW seqs \in Seq(Seq(S)), NEW s \in Seq(S)
    PROVE  FlattenSeq(Append(seqs, s)) = FlattenSeq(seqs) \o s
<1> DEFINE more == Append(seqs, s)
           n == Len(seqs)
<1>1. /\ more \in Seq(Seq(S)) /\ more # <<>> /\ Len(more) = n + 1 /\ n \in Nat
      /\ \A i \in 1 .. n : more[i] = seqs[i]
      /\ more[n + 1] = s
  <2>1. more # <<>>
    BY AppendOf
  <2> QED
    BY <2>1, AppendProperties, LenProperties
<1> HIDE DEF more
<1>2. PICK g \in [1 .. Len(more) -> Seq(S)] :
        Flattens(g, more) /\ FlattenSeq(more) = g[Len(more)]
  BY <1>1, FlattenIs
<1>3. CASE seqs = <<>>
  <2>1. Len(more) = 1 /\ more[1] = s
    BY <1>1, <1>3
  <2>2. FlattenSeq(more) = s
    BY <1>2, <2>1 DEF Flattens
  <2>3. FlattenSeq(seqs) = <<>> /\ <<>> \o s = s
    BY <1>3, FlattenEmpty, ConcatEmptySeq
  <2> QED
    BY <2>2, <2>3 DEF more
<1>4. CASE seqs # <<>>
  <2>1. n \in 1 .. n
    BY <1>4, EmptySeq
  <2>2. PICK f \in [1 .. n -> Seq(S)] : Flattens(f, seqs) /\ FlattenSeq(seqs) = f[n]
    BY <1>4, FlattenIs
  <2> DEFINE Same == {i \in 0 .. n : i = 0 \/ f[i] = g[i]}
  <2>3. \A i \in 0 .. n - 1 : i \in Same => i + 1 \in Same
    <3> SUFFICES ASSUME NEW i \in 0 .. n - 1, i \in Same PROVE f[i + 1] = g[i + 1]
      BY <1>1
    <3> DEFINE j == i + 1
    <3>1. j \in 1 .. n /\ j \in 1 .. Len(more) /\ j - 1 = i
      BY <1>1
    <3>2. /\ f[j] = IF j = 1 THEN seqs[j] ELSE f[j - 1] \o seqs[j]
          /\ g[j] = IF j = 1 THEN more[j] ELSE g[j - 1] \o more[j]
      BY <1>2, <2>2, <3>1 DEF Flattens
    <3>3. j # 1 => f[i] = g[i]
      <4>1. j # 1 => i # 0
        BY <3>1
      <4> QED
        BY <4>1
    <3> HIDE DEF j
    <3>4. f[j] = g[j]
      BY <1>1, <3>1, <3>2, <3>3
    <3> QED
      BY <3>4 DEF j
  <2>4. \A i \in 0 .. n : i \in Same
    <3>1. 0 \in Same
      BY <1>1
    <3> HIDE DEF Same
    <3> QED
      BY <1>1, <2>3, <3>1, Induction
  <2>5. f[n] = g[n]
    <3>1. n \in 0 .. n /\ n # 0
      BY <1>1, <2>1
    <3>2. n \in Same
      BY <2>4, <3>1
    <3> QED
      BY <3>1, <3>2
  <2>6. g[n + 1] = g[n] \o s
    <3> DEFINE l == n + 1
    <3>1. l \in 1 .. Len(more) /\ l # 1 /\ l - 1 = n
      BY <1>1, <2>1
    <3>2. g[l] = g[l - 1] \o more[l]
      BY <1>2, <3>1 DEF Flattens
    <3> QED
      BY <1>1, <3>1, <3>2
  <2> QED
    BY <1>1, <1>2, <2>2, <2>5, <2>6 DEF more
<1> QED
  BY <1>3, <1>4

LEMMA TailOf ==
    ASSUME NEW S, NEW s \in Seq(S), s # <<>>
    PROVE  /\ Head(s) \in S /\ Head(s) = s[1] /\ Tail(s) \in Seq(S)
           /\ Len(s) \in Nat \ {0} /\ Len(Tail(s)) = Len(s) - 1
<1>1. Len(s) \in Nat \ {0}
  BY EmptySeq
<1> QED
  BY <1>1, HeadTailProperties

LEMMA PartOf ==
    ASSUME NEW S, NEW s \in Seq(S), NEW a \in Int, NEW b \in Int, 1 <= a, b <= Len(s)
    PROVE  /\ SubSeq(s, a, b) \in Seq(S)
           /\ Len(SubSeq(s, a, b)) = IF a <= b THEN b - a + 1 ELSE 0
<1>1. Len(s) \in Nat /\ \A i \in 1 .. Len(s) : s[i] \in S
  BY LenProperties, ElementOfSeq
<1>2. \A i \in a .. b : s[i] \in S
  BY <1>1
<1> QED
  BY <1>2, SubSeqProperties

LEMMA UnquotedType == ASSUME NEW S, NEW t \in Seq(S) PROVE Unquoted(t) \in Seq(S)
<1>1. Len(t) \in Nat
  BY LenProperties
<1>2. SubSeq(t, 2, Len(t) - 1) \in Seq(S)
  <2> DEFINE b == Len(t) - 1
  <2>1. b \in Int /\ b <= Len(t)
    BY <1>1
  <2> HIDE DEF b
  <2>2. SubSeq(t, 2, b) \in Seq(S)
    BY <2>1, PartOf
  <2> QED
    BY <2>2 DEF b
<1> QED
  BY <1>2 DEF Unquoted

Closing(words) == {j \in DOMAIN words : Last(words[j]) = Quote}
EndOf(words) == IF Closing(words) = {} THEN Len(words) ELSE Min(Closing(words))
Joined(words) ==
    Head(words) \o FlattenSeq([k \in 1 .. EndOf(words) - 1 |-> <<Blank>> \o words[k + 1]])

LEMMA EndIs ==
    ASSUME NEW V, NEW words \in Seq(V), words # <<>>
    PROVE  EndOf(words) \in 1 .. Len(words)
<1>1. Len(words) \in Nat \ {0} /\ DOMAIN words = 1 .. Len(words)
  BY TailOf
<1>2. CASE Closing(words) = {}
  BY <1>1, <1>2 DEF EndOf
<1>3. CASE Closing(words) # {}
  <2>1. PICK j \in Closing(words) : TRUE
    BY <1>3
  <2>2. Closing(words) \subseteq 1 .. Len(words)
    BY <1>1 DEF Closing
  <2> DEFINE IsMin(k) == k \in Closing(words) /\ \A y \in Closing(words) : k <= y
  <2>3. \E k : IsMin(k)
    <3>0. Closing(words) \cap (0 .. j) \subseteq 0 .. j /\ j \in Closing(words) \cap (0 .. j)
      BY <2>1, <2>2
    <3> DEFINE B == Closing(words) \cap (0 .. j)
    <3>1. PICK k \in B : \A y \in B : k <= y
      <4> HIDE DEF B
      <4>1. B \subseteq 0 .. j /\ j \in B /\ j \in Nat
        BY <2>1, <2>2, <3>0 DEF B
      <4> QED
        BY <4>1, LeastIn
    <3>2. \A y \in Closing(words) : k <= y
      BY <2>1, <2>2, <3>1
    <3> QED
      BY <3>1, <3>2
  <2>4. Min(Closing(words)) = CHOOSE k \in Closing(words) : \A y \in Closing(words) : k <= y
    BY DEF Min
  <2>5. Min(Closing(words)) \in Closing(words)
    <3>1. \E k \in Closing(words) : \A y \in Closing(words) : k <= y
      BY <2>3
    <3> DEFINE M == CHOOSE k \in Closing(words) : \A y \in Closing(words) : k <= y
    <3>2. M \in Closing(words)
      BY <3>1, Zenon
    <3> QED
      BY <2>4, <3>2
  <2> QED
    BY <1>3, <2>2, <2>5 DEF EndOf
<1> QED
  BY <1>2, <1>3

LEMMA JoinedType ==
    ASSUME NEW S, Blank \in S, NEW words \in Seq(Seq(S)), words # <<>>
    PROVE  Joined(words) \in Seq(S)
<1>1. Head(words) \in Seq(S)
  BY TailOf
<1> DEFINE e == EndOf(words)
<1>2. /\ e \in 1 .. Len(words) /\ Len(words) \in Nat
      /\ \A i \in 1 .. Len(words) : words[i] \in Seq(S)
  BY EndIs, LenProperties, ElementOfSeq
<1> HIDE DEF e
<1>3. <<Blank>> \in Seq(S)
  BY Single
<1> DEFINE F == [k \in 1 .. e - 1 |-> <<Blank>> \o words[k + 1]]
<1>4. F \in Seq(Seq(S))
  <2>1. \A k \in 1 .. e - 1 : <<Blank>> \o words[k + 1] \in Seq(S)
    <3> SUFFICES ASSUME NEW k \in 1 .. e - 1 PROVE <<Blank>> \o words[k + 1] \in Seq(S)
      OBVIOUS
    <3>1. k + 1 \in 1 .. Len(words)
      BY <1>2
    <3>2. words[k + 1] \in Seq(S)
      BY <1>2, <3>1
    <3> QED
      BY <1>3, <3>2, ConcatProperties
  <2> DEFINE n == e - 1
  <2>2. n \in Nat
    BY <1>2
  <2>3. F \in [1 .. n -> Seq(S)]
    BY <2>1
  <2> HIDE DEF n, F
  <2> QED
    BY <2>2, <2>3
<1> HIDE DEF F
<1>5. FlattenSeq(F) \in Seq(S)
  BY <1>4, FlattenType
<1>6. Head(words) \o FlattenSeq(F) \in Seq(S)
  BY <1>1, <1>5, ConcatProperties
<1> QED
  BY <1>6 DEF F, e, Joined

TokensStep(f, words) ==
    CASE words = <<>> -> <<>>
      [] words # <<>> /\ words[1][1] # Quote -> <<Head(words)>> \o f[Tail(words)]
      [] OTHER -> <<Unquoted(Joined(words))>> \o
                      f[SubSeq(words, EndOf(words) + 1, Len(words))]

LEMMA Shorter ==
    ASSUME NEW V, NEW words \in Seq(V), words # <<>>
    PROVE  /\ Tail(words) \in Seq(V) /\ Len(Tail(words)) < Len(words)
           /\ SubSeq(words, EndOf(words) + 1, Len(words)) \in Seq(V)
           /\ Len(SubSeq(words, EndOf(words) + 1, Len(words))) < Len(words)
<1>1. /\ Tail(words) \in Seq(V) /\ Len(words) \in Nat \ {0}
      /\ Len(Tail(words)) = Len(words) - 1
  BY TailOf
<1> DEFINE a == EndOf(words) + 1
           b == Len(words)
<1>2. a \in Int /\ b \in Int /\ 2 <= a /\ b <= Len(words) /\ 1 <= a
  BY <1>1, EndIs
<1> HIDE DEF a, b
<1>3. SubSeq(words, a, b) \in Seq(V)
  BY <1>2, PartOf
<1>4. Len(SubSeq(words, a, b)) = IF a <= b THEN b - a + 1 ELSE 0
  BY <1>2, PartOf
<1> QED
  BY <1>1, <1>2, <1>3, <1>4 DEF a, b

LEMMA TokensStepType ==
    ASSUME NEW f \in [Seq(Strings) -> Seq(Strings)], NEW w \in Seq(Strings)
    PROVE  TokensStep(f, w) \in Seq(Strings)
<1>1. CASE w = <<>>
  BY <1>1, EmptySeq DEF TokensStep
<1>2. CASE w # <<>>
  <2>1. <<Head(w)>> \in Seq(Strings) /\ <<Unquoted(Joined(w))>> \in Seq(Strings)
    <3>1. Head(w) \in Strings
      BY <1>2, TailOf
    <3>2. Unquoted(Joined(w)) \in Strings
      BY <1>2, BytesAssumption, JoinedType, UnquotedType DEF Strings
    <3> QED
      BY <3>1, <3>2, Single
  <2>2. /\ f[Tail(w)] \in Seq(Strings)
        /\ f[SubSeq(w, EndOf(w) + 1, Len(w))] \in Seq(Strings)
    BY <1>2, Shorter
  <2>3. <<Head(w)>> \o f[Tail(w)] \in Seq(Strings)
    BY <2>1, <2>2, ConcatProperties
  <2>4. <<Unquoted(Joined(w))>> \o f[SubSeq(w, EndOf(w) + 1, Len(w))] \in Seq(Strings)
    BY <2>1, <2>2, ConcatProperties
  <2> QED
    BY <1>2, <2>3, <2>4 DEF TokensStep
<1> QED
  BY <1>1, <1>2

LEMMA TokensIs ==
    /\ Tokens \in [Seq(Strings) -> Seq(Strings)]
    /\ \A w \in Seq(Strings) : Tokens[w] = TokensStep(Tokens, w)
<1> DEFINE D == Seq(Strings)
           V == Seq(Strings)
           m == [s \in D |-> Len(s)]
           step == [x \in D \X [D -> V] |-> TokensStep(x[2], x[1])]
<1>1. \A s \in D : m[s] \in Nat
  BY LenProperties
<1>2. step \in [D \X [D -> V] -> V]
  BY TokensStepType
<1>3. \A s \in D, f \in [D -> V] : step[<<s, f>>] = TokensStep(f, s)
  OBVIOUS
<1>4. ASSUME NEW s \in D, NEW f, NEW g, \A e \in D : m[e] < m[s] => f[e] = g[e]
      PROVE  TokensStep(f, s) = TokensStep(g, s)
  <2>1. CASE s = <<>>
    BY <2>1 DEF TokensStep
  <2>2. CASE s # <<>>
    <3> DEFINE t == Tail(s)
               r == SubSeq(s, EndOf(s) + 1, Len(s))
    <3>1. t \in D /\ r \in D /\ Len(t) < Len(s) /\ Len(r) < Len(s)
      BY <2>2, Shorter
    <3> HIDE DEF t, r
    <3>2. m[t] < m[s] /\ m[r] < m[s]
      BY <3>1
    <3>3. f[t] = g[t] /\ f[r] = g[r]
      BY <1>4, <3>1, <3>2
    <3> QED
      BY <3>3 DEF TokensStep, t, r
  <2> QED
    BY <2>1, <2>2
<1>5. <<>> \in V
  BY EmptySeq
<1>6. PICK f \in [D -> V] : \A s \in D : f[s] = TokensStep(f, s)
  <2>1. Local(D, m, V, step)
    <3> HIDE DEF D, V, m, step
    <3> QED
      BY <1>3, <1>4 DEF Local
  <2>2. \E f \in [D -> V] : \A s \in D : f[s] = step[<<s, f>>]
    <3>1. Recursive(D, V, step)
      <4> HIDE DEF D, V, m, step
      <4> QED
        BY <1>1, <1>2, <1>5, <2>1, RecursionExists
    <3> HIDE DEF D, V, step
    <3> QED
      BY <3>1 DEF Recursive
  <2> HIDE DEF D, V, step
  <2> QED
    BY <1>3, <2>2
<1> DEFINE IsTokens(h) == h = [s \in D |-> TokensStep(h, s)]
<1>7. IsTokens(f)
  <2>1. f = [s \in D |-> f[s]]
    OBVIOUS
  <2> QED
    BY <1>6, <2>1
<1>8. Tokens = CHOOSE h : IsTokens(h)
  BY DEF Tokens, TokensStep, Strings, Joined, EndOf, Closing
<1>9. IsTokens(Tokens)
  <2> HIDE DEF IsTokens
  <2> QED
    BY <1>7, <1>8, Zenon
<1>10. \A s \in D : Tokens[s] = TokensStep(Tokens, s)
  <2>1. Tokens = [s \in D |-> TokensStep(Tokens, s)]
    BY <1>9
  <2> HIDE DEF D
  <2> QED
    BY <2>1
<1>11. \A s \in D : Tokens[s] = f[s]
  <2> DEFINE Same == {s \in D : Tokens[s] = f[s]}
  <2>1. \A s \in D : (\A e \in D : m[e] < m[s] => e \in Same) => s \in Same
    <3> SUFFICES ASSUME NEW s \in D, \A e \in D : m[e] < m[s] => e \in Same
                 PROVE  Tokens[s] = f[s]
      OBVIOUS
    <3>1. \A e \in D : m[e] < m[s] => Tokens[e] = f[e]
      OBVIOUS
    <3> HIDE DEF D, m, Same
    <3>2. TokensStep(Tokens, s) = TokensStep(f, s)
      BY <1>4, <3>1
    <3> QED
      BY <1>6, <1>10, <3>2
  <2>2. \A s \in D : s \in Same
    <3> HIDE DEF D, m, Same
    <3> QED
      BY <1>1, <2>1, BySize
  <2> QED
    BY <2>2
<1>12. Tokens = f
  <2>1. Tokens = [s \in D |-> Tokens[s]]
    <3>1. Tokens = [s \in D |-> TokensStep(Tokens, s)]
      BY <1>9
    <3> QED
      BY <1>10, <3>1
  <2>2. f = [s \in D |-> f[s]]
    OBVIOUS
  <2> HIDE DEF D, V
  <2> QED
    BY <1>11, <2>1, <2>2
<1> QED
  BY <1>10, <1>12

Messages == [type : Types \union {"invalid"}, args : Seq(Strings)]

LEMMA DecodeType == ASSUME NEW line \in Strings PROVE Decode(line) \in Messages
<1> DEFINE tokens == Tokens[Words[Front(line)]]
           bad == \/ line = <<>> \/ Last(line) # Newline \/ tokens = <<>>
                  \/ tokens[1] \notin {<<t>> : t \in Types}
<1>1. Decode(line) = IF bad THEN Invalid ELSE Message(tokens[1][1], Tail(tokens))
  BY DEF Decode
<1>2. CASE bad
  <2>1. Decode(line) = Invalid
    BY <1>1, <1>2
  <2>2. <<>> \in Seq(Strings)
    BY EmptySeq
  <2> QED
    BY <2>1, <2>2 DEF Invalid, Message, Messages
<1>3. CASE ~bad
  <2>1. Front(line) \in Strings
    BY <1>3, LastOf DEF Strings
  <2>2. tokens \in Seq(Strings)
    BY <2>1, WordsIs, TokensIs
  <2>3. tokens # <<>> /\ tokens[1] \in {<<t>> : t \in Types}
    BY <1>3
  <2>4. Decode(line) = Message(tokens[1][1], Tail(tokens))
    BY <1>1, <1>3
  <2> HIDE DEF tokens
  <2>5. Tail(tokens) \in Seq(Strings)
    BY <2>2, <2>3, TailOf
  <2>6. tokens[1][1] \in Types
    BY <2>3
  <2> QED
    BY <2>4, <2>5, <2>6 DEF Message, Messages
<1> HIDE DEF bad
<1> QED
  BY <1>2, <1>3

LEMMA EncodeType ==
    ASSUME NEW m, m.type \in Types, m.args \in Seq(Strings)
    PROVE  Encode(m) \in Strings
<1> DEFINE Argument(i) == IF m.type \in {"FAILED", "ERROR"} /\ i = 1
                            THEN Quoted(m.args[i]) ELSE m.args[i]
           F == [i \in DOMAIN m.args |-> <<Blank>> \o Argument(i)]
<1>1. <<Blank>> \in Strings /\ <<Quote>> \in Strings /\ <<Newline>> \in Strings
      /\ <<m.type>> \in Strings
  BY BytesAssumption, Single DEF Strings
<1>2. \A i \in DOMAIN m.args : m.args[i] \in Strings
  BY ElementOfSeq
<1>3. \A s \in Strings : Quoted(s) \in Strings
  BY <1>1, ConcatProperties DEF Strings, Quoted
<1>4. \A i \in DOMAIN m.args : Argument(i) \in Strings
  BY <1>2, <1>3
<1> HIDE DEF Argument
<1>5. \A i \in DOMAIN m.args : <<Blank>> \o Argument(i) \in Strings
  BY <1>1, <1>4, ConcatProperties DEF Strings
<1>6. F \in Seq(Strings)
  <2>1. DOMAIN m.args = 1 .. Len(m.args) /\ Len(m.args) \in Nat
    BY LenProperties
  <2>2. F \in [1 .. Len(m.args) -> Strings]
    BY <1>5, <2>1
  <2> QED
    BY <2>1, <2>2
<1>7. Encode(m) = <<m.type>> \o FlattenSeq(F) \o <<Newline>>
  BY DEF Encode, Argument
<1> HIDE DEF F
<1>8. FlattenSeq(F) \in Strings
  BY <1>6, FlattenType DEF Strings
<1>9. <<m.type>> \o FlattenSeq(F) \in Strings
  BY <1>1, <1>8, ConcatProperties DEF Strings
<1>10. (<<m.type>> \o FlattenSeq(F)) \o <<Newline>> \in Strings
  <2> DEFINE h == <<m.type>> \o FlattenSeq(F)
  <2> HIDE DEF h
  <2>1. h \o <<Newline>> \in Strings
    BY <1>1, <1>9, ConcatProperties DEF Strings, h
  <2> QED
    BY <2>1 DEF h
<1> QED
  BY <1>7, <1>10

-----------------------------------------------------------------------------
(* How much text there is in a list of words: each with a separator.       *)

W(words) == Len(FlattenSeq(words)) + Len(words)

LEMMA ConcatAppend ==
    ASSUME NEW S, NEW a \in Seq(S), NEW b \in Seq(S), NEW z \in S
    PROVE  a \o Append(b, z) = Append(a \o b, z)
<1> DEFINE u == <<z>>
<1>1. u \in Seq(S) /\ a \o b \in Seq(S)
  BY Single, ConcatProperties
<1>2. Append(b, z) = b \o u /\ Append(a \o b, z) = (a \o b) \o u
  BY <1>1, AppendIsConcat
<1> HIDE DEF u
<1>3. (a \o b) \o u = a \o (b \o u)
  BY <1>1, ConcatAssociative
<1> QED
  BY <1>2, <1>3

LEMMA FlattenConcat ==
    ASSUME NEW S, NEW a \in Seq(Seq(S)), NEW b \in Seq(Seq(S))
    PROVE  FlattenSeq(a \o b) = FlattenSeq(a) \o FlattenSeq(b)
<1> DEFINE D == Seq(Seq(S))
           m == [x \in D |-> Len(x)]
           Good == {x \in D : FlattenSeq(a \o x) = FlattenSeq(a) \o FlattenSeq(x)}
<1>1. \A x \in D : m[x] \in Nat
  BY LenProperties
<1>2. ASSUME NEW x \in D, \A e \in D : m[e] < m[x] => e \in Good
      PROVE  x \in Good
  <2>1. CASE x = <<>>
    <3>1. a \o x = a /\ FlattenSeq(a) \o FlattenSeq(x) = FlattenSeq(a)
      BY <2>1, ConcatEmptySeq, FlattenEmpty, FlattenType
    <3> QED
      BY <3>1
  <2>2. CASE x # <<>>
    <3> DEFINE y == Front(x)
               z == Last(x)
    <3>1. y \in D /\ z \in Seq(S) /\ Len(y) < Len(x)
      <4>1. /\ Last(x) \in Seq(S) /\ Front(x) \in Seq(Seq(S))
            /\ Len(Front(x)) = Len(x) - 1 /\ Len(x) \in Nat
        BY <2>2, LastOf
      <4> QED
        BY <4>1
    <3>2. x = Append(y, z)
      BY <2>2, SplitLast
    <3>3. m[y] < m[x]
      BY <3>1
    <3>4. FlattenSeq(a \o y) = FlattenSeq(a) \o FlattenSeq(y)
      BY <1>2, <3>1, <3>3
    <3> HIDE DEF y, z, m, Good
    <3>5. a \o x = Append(a \o y, z)
      BY <3>1, <3>2, ConcatAppend
    <3>6. FlattenSeq(a \o x) = FlattenSeq(a \o y) \o z
      <4>1. a \o y \in Seq(Seq(S))
        BY <3>1, ConcatProperties
      <4> QED
        BY <3>1, <3>5, <4>1, FlattenAppend
    <3>7. FlattenSeq(x) = FlattenSeq(y) \o z
      BY <3>1, <3>2, FlattenAppend
    <3>8. (FlattenSeq(a) \o FlattenSeq(y)) \o z = FlattenSeq(a) \o (FlattenSeq(y) \o z)
      <4>1. FlattenSeq(a) \in Seq(S) /\ FlattenSeq(y) \in Seq(S)
        BY <3>1, FlattenType
      <4> QED
        BY <3>1, <4>1, ConcatAssociative
    <3> QED
      BY <3>4, <3>6, <3>7, <3>8 DEF Good
  <2> QED
    BY <2>1, <2>2
<1>3. \A x \in D : x \in Good
  <2> HIDE DEF D, m, Good
  <2> QED
    BY <1>1, <1>2, BySize
<1> QED
  BY <1>3

LEMMA FlattenOne ==
    ASSUME NEW S, NEW s \in Seq(S) PROVE FlattenSeq(<<s>>) = s
<1>1. <<>> \in Seq(Seq(S))
  BY EmptySeq
<1>2. FlattenSeq(Append(<<>>, s)) = FlattenSeq(<<>>) \o s
  BY <1>1, FlattenAppend
<1>3. Append(<<>>, s) = <<s>> /\ <<>> \o s = s
  BY ConcatEmptySeq
<1> QED
  BY <1>2, <1>3, FlattenEmpty

LEMMA WeightIs ==
    ASSUME NEW S, NEW words \in Seq(Seq(S)), NEW w \in Seq(S)
    PROVE  /\ W(words) \in Nat /\ W(<<>>) = 0
           /\ W(<<w>>) = Len(w) + 1
           /\ W(Append(words, w)) = W(words) + Len(w) + 1
<1>1. FlattenSeq(words) \in Seq(S)
  BY FlattenType
<1>2. Len(FlattenSeq(words)) \in Nat /\ Len(words) \in Nat /\ Len(w) \in Nat
  BY <1>1, LenProperties
<1>3. Len(FlattenSeq(words) \o w) = Len(FlattenSeq(words)) + Len(w)
  BY <1>1, ConcatProperties
<1>4. FlattenSeq(Append(words, w)) = FlattenSeq(words) \o w
  BY FlattenAppend
<1>5. Len(Append(words, w)) = Len(words) + 1
  BY AppendProperties
<1>6. W(<<>>) = 0
  BY FlattenEmpty DEF W
<1>7. W(<<w>>) = Len(w) + 1
  BY FlattenOne DEF W
<1> QED
  BY <1>2, <1>3, <1>4, <1>5, <1>6, <1>7 DEF W

LEMMA WeightConcat ==
    ASSUME NEW S, NEW a \in Seq(Seq(S)), NEW b \in Seq(Seq(S))
    PROVE  W(a \o b) = W(a) + W(b) /\ W(a) \in Nat /\ W(b) \in Nat
<1>1. FlattenSeq(a) \in Seq(S) /\ FlattenSeq(b) \in Seq(S)
  BY FlattenType
<1>2. Len(FlattenSeq(a) \o FlattenSeq(b)) = Len(FlattenSeq(a)) + Len(FlattenSeq(b))
  BY <1>1, ConcatProperties
<1>3. Len(a \o b) = Len(a) + Len(b)
  BY ConcatProperties
<1>4. /\ Len(FlattenSeq(a)) \in Nat /\ Len(a) \in Nat
      /\ Len(FlattenSeq(b)) \in Nat /\ Len(b) \in Nat
  BY <1>1, LenProperties
<1>5. FlattenSeq(a \o b) = FlattenSeq(a) \o FlattenSeq(b)
  BY FlattenConcat
<1> QED
  BY <1>2, <1>3, <1>4, <1>5 DEF W

-----------------------------------------------------------------------------
(* What the words of a text are, and the tokens.                           *)

WordsFit(S, s) ==
    /\ Words[s] \in Seq(Seq(S)) /\ W(Words[s]) <= Len(s) + 1
    /\ s = <<>> \/ Last(s) = Blank => W(Words[s]) <= Len(s)

LEMMA WordsOf ==
    ASSUME NEW S, S \subseteq Bytes, NEW s \in Seq(S)
    PROVE  WordsFit(S, s)
<1> DEFINE D == Seq(S)
           m == [x \in D |-> Len(x)]
           Good == {x \in D : WordsFit(S, x)}
<1>1. \A x \in D : m[x] \in Nat
  BY LenProperties
<1>2. ASSUME NEW x \in D, \A e \in D : m[e] < m[x] => e \in Good
      PROVE  WordsFit(S, x)
  <2>0. Words[x] = WordsStep(Words, x)
    <3>1. x \in Strings
      BY SeqMonotonic DEF Strings
    <3> QED
      BY <3>1, WordsIs
  <2>1. CASE x = <<>>
    <3>1. Words[x] = <<>> /\ Len(x) = 0
      BY <2>0, <2>1 DEF WordsStep
    <3>2. <<>> \in Seq(Seq(S)) /\ W(<<>>) = 0
      BY EmptySeq, WeightIs
    <3> QED
      BY <3>1, <3>2 DEF WordsFit
  <2>2. CASE x # <<>>
    <3> DEFINE y == Front(x)
               z == Last(x)
               words == Words[y]
    <3>1. /\ y \in D /\ z \in S /\ Len(y) = Len(x) - 1 /\ Len(x) \in Nat \ {0}
          /\ \A i \in 1 .. Len(x) - 1 : y[i] = x[i]
      BY <2>2, LastOf
    <3>2. WordsFit(S, y)
      <4>1. m[y] < m[x]
        BY <3>1
      <4> QED
        BY <1>2, <3>1, <4>1
    <3>3. /\ words \in Seq(Seq(S)) /\ W(words) <= Len(y) + 1 /\ W(words) \in Nat
          /\ y = <<>> \/ Last(y) = Blank => W(words) <= Len(y)
      <4>1. words \in Seq(Seq(S))
        BY <3>2 DEF WordsFit
      <4>2. <<>> \in Seq(S)
        BY EmptySeq
      <4>3. W(words) \in Nat
        BY <4>1, <4>2, WeightIs
      <4> QED
        BY <3>2, <4>1, <4>3 DEF WordsFit
    <3> DEFINE begins == words = <<>> \/ x[Len(x) - 1] = Blank
    <3>4. Words[x] = IF z = Blank THEN words
                     ELSE IF begins THEN Append(words, <<z>>)
                     ELSE Append(Front(words), Append(Last(words), z))
      BY <2>0, <2>2 DEF WordsStep
    <3>5. begins => W(words) <= Len(y)
      <4>1. CASE words = <<>>
        <5>1. W(words) = 0
          BY <4>1, <3>3, FlattenEmpty DEF W
        <5> QED
          BY <3>1, <5>1
      <4>2. CASE y = <<>>
        BY <3>3, <4>2
      <4>3. CASE y # <<>> /\ x[Len(x) - 1] = Blank
        <5>1. Len(y) \in Nat \ {0} /\ Last(y) = y[Len(y)]
          BY <3>1, <4>3, LastOf
        <5> DEFINE l == Len(y)
        <5>2. l \in 1 .. Len(x) - 1 /\ l = Len(x) - 1
          BY <3>1, <5>1
        <5>3. y[l] = x[l]
          BY <3>1, <5>2
        <5>4. Last(y) = Blank
          BY <4>3, <5>1, <5>2, <5>3
        <5> QED
          BY <3>3, <5>4
      <4> QED
        BY <4>1, <4>2, <4>3
    <3> HIDE DEF y, z, words, begins, m, Good
    <3>6. CASE z = Blank
      BY <3>1, <3>3, <3>4, <3>6 DEF WordsFit, z
    <3>7. CASE z # Blank /\ begins
      <4>1. <<z>> \in Seq(S) /\ Len(<<z>>) = 1
        BY <3>1, Single
      <4>2. Append(words, <<z>>) \in Seq(Seq(S))
        BY <3>3, <4>1, AppendProperties
      <4>3. W(Append(words, <<z>>)) = W(words) + 2
        <5>1. W(Append(words, <<z>>)) = W(words) + Len(<<z>>) + 1
          BY <3>3, <4>1, WeightIs
        <5> QED
          BY <3>3, <4>1, <5>1
      <4> QED
        BY <2>2, <3>1, <3>3, <3>4, <3>5, <3>7, <4>2, <4>3 DEF WordsFit, z
    <3>8. CASE z # Blank /\ ~begins
      <4> DEFINE f == Front(words)
                 l == Last(words)
      <4>0. words # <<>>
        BY <3>8 DEF begins
      <4>1. f \in Seq(Seq(S)) /\ l \in Seq(S)
        BY <3>3, <4>0, LastOf
      <4>2. words = Append(f, l)
        BY <3>3, <4>0, SplitLast
      <4> HIDE DEF f, l
      <4>3. Append(l, z) \in Seq(S) /\ Len(Append(l, z)) = Len(l) + 1 /\ Len(l) \in Nat
        BY <3>1, <4>1, AppendProperties, LenProperties
      <4>4. W(words) = W(f) + Len(l) + 1 /\ W(f) \in Nat
        BY <4>1, <4>2, WeightIs
      <4> DEFINE t == Append(l, z)
      <4>5. t \in Seq(S) /\ Len(t) = Len(l) + 1
        BY <4>3
      <4> HIDE DEF t
      <4>6. W(Append(f, t)) = W(f) + Len(t) + 1 /\ Append(f, t) \in Seq(Seq(S))
        BY <4>1, <4>5, WeightIs, AppendProperties
      <4>7. Words[x] = Append(f, t)
        BY <3>4, <3>8 DEF f, l, t
      <4>8. W(Words[x]) = W(words) + 1
        BY <4>3, <4>4, <4>5, <4>6, <4>7
      <4> QED
        BY <2>2, <3>1, <3>3, <3>8, <4>6, <4>7, <4>8 DEF WordsFit, z
    <3> QED
      BY <3>6, <3>7, <3>8
  <2> QED
    BY <2>1, <2>2
<1>3. \A x \in D : x \in Good
  <2>1. \A x \in D : (\A e \in D : m[e] < m[x] => e \in Good) => x \in Good
    BY <1>2
  <2> HIDE DEF D, m, Good
  <2> QED
    BY <1>1, <2>1, BySize
<1> QED
  BY <1>3

\* The words from the second to the one after the n-th, with their blanks.
Followers(words, n) == [k \in 1 .. n |-> <<Blank>> \o words[k + 1]]

LEMMA FollowersAre ==
    ASSUME NEW S, Blank \in S, NEW words \in Seq(Seq(S)), NEW n \in Nat, n < Len(words)
    PROVE  /\ Followers(words, n) \in Seq(Seq(S)) /\ Len(Followers(words, n)) = n
           /\ \A k \in 1 .. n : Followers(words, n)[k] = <<Blank>> \o words[k + 1]
<1>1. \A k \in 1 .. n : <<Blank>> \o words[k + 1] \in Seq(S)
  <2> SUFFICES ASSUME NEW k \in 1 .. n PROVE <<Blank>> \o words[k + 1] \in Seq(S)
    OBVIOUS
  <2> DEFINE l == k + 1
             u == <<Blank>>
  <2>1. l \in 1 .. Len(words)
    BY LenProperties
  <2>2. u \in Seq(S)
    BY Single
  <2> HIDE DEF l, u
  <2>3. words[l] \in Seq(S)
    BY <2>1, ElementOfSeq
  <2>4. u \o words[l] \in Seq(S)
    BY <2>2, <2>3, ConcatProperties
  <2> QED
    BY <2>4 DEF l, u
<1>2. Followers(words, n) \in [1 .. n -> Seq(S)]
  BY <1>1 DEF Followers
<1>3. \A k \in 1 .. n : Followers(words, n)[k] = <<Blank>> \o words[k + 1]
  BY DEF Followers
<1> QED
  BY <1>2, <1>3

LEMMA FollowersMore ==
    ASSUME NEW S, Blank \in S, NEW words \in Seq(Seq(S)), NEW n \in Nat, n + 1 < Len(words)
    PROVE  /\ <<Blank>> \o words[n + 2] \in Seq(S)
           /\ Followers(words, n + 1) = Append(Followers(words, n), <<Blank>> \o words[n + 2])
<1> DEFINE l == n + 1
           u == <<Blank>> \o words[l + 1]
           f == Followers(words, n)
           g == Followers(words, l)
           h == Append(f, u)
<1>0. Len(words) \in Nat
  BY LenProperties
<1>1. /\ f \in Seq(Seq(S)) /\ Len(f) = n /\ l \in Nat /\ l < Len(words)
      /\ \A k \in 1 .. n : f[k] = <<Blank>> \o words[k + 1]
  <2>1. n < Len(words) /\ l \in Nat /\ l < Len(words)
    BY <1>0
  <2> HIDE DEF l
  <2> QED
    BY <2>1, FollowersAre
<1>2. /\ g \in Seq(Seq(S)) /\ Len(g) = l
      /\ \A k \in 1 .. l : g[k] = <<Blank>> \o words[k + 1]
  <2> HIDE DEF l
  <2> QED
    BY <1>1, FollowersAre
<1>3. u \in Seq(S)
  <2>1. g[l] = u /\ l \in 1 .. Len(g)
    BY <1>1, <1>2
  <2> HIDE DEF g, u, l
  <2> QED
    BY <1>2, <2>1, ElementOfSeq
<1> HIDE DEF f, g, u
<1>4. /\ h \in Seq(Seq(S)) /\ Len(h) = n + 1 /\ h[n + 1] = u
      /\ \A k \in 1 .. n : h[k] = f[k]
  BY <1>1, <1>3, AppendProperties
<1>5. \A k \in 1 .. l : g[k] = h[k]
  <2> HIDE DEF h
  <2> SUFFICES ASSUME NEW k \in 1 .. l PROVE g[k] = h[k]
    OBVIOUS
  <2>1. CASE k = l
    BY <1>2, <1>4, <2>1 DEF u
  <2>2. CASE k # l
    <3>1. k \in 1 .. n
      BY <1>1, <2>2
    <3>2. g[k] = <<Blank>> \o words[k + 1]
      BY <1>2
    <3>3. f[k] = <<Blank>> \o words[k + 1] /\ h[k] = f[k]
      BY <1>1, <1>4, <3>1
    <3> QED
      BY <3>2, <3>3
  <2> QED
    BY <2>1, <2>2
<1>6. g = h
  <2> HIDE DEF h, l
  <2>1. Len(h) = l
    BY <1>4 DEF l
  <2> QED
    BY <1>2, <1>4, <1>5, <2>1, SeqEqual
<1> QED
  <2>1. l + 1 = n + 2
    OBVIOUS
  <2>2. <<Blank>> \o words[n + 2] = u
    BY <2>1 DEF u
  <2> QED
    BY <1>3, <1>6, <2>2 DEF f, g

LEMMA JoinedLength ==
    ASSUME NEW S, Blank \in S, NEW words \in Seq(Seq(S)), words # <<>>
    PROVE  Len(Joined(words)) + 1 = W(SubSeq(words, 1, EndOf(words)))
<1> DEFINE L(n) == Len(words[1]) + Len(FlattenSeq(Followers(words, n))) + 1
           n0 == Len(words) - 1
           Same == {n \in 0 .. n0 : L(n) = W(SubSeq(words, 1, n + 1))}
<1>1. /\ Len(words) \in Nat \ {0} /\ n0 \in Nat /\ Head(words) = words[1]
      /\ words[1] \in Seq(S)
  BY TailOf
<1>2. \A n \in 0 .. n0 : /\ SubSeq(words, 1, n + 1) \in Seq(Seq(S))
                         /\ words[n + 1] \in Seq(S)
                         /\ SubSeq(words, 1, n + 1) =
                               Append(SubSeq(words, 1, n), words[n + 1])
                         /\ SubSeq(words, 1, n) \in Seq(Seq(S))
  <2> SUFFICES ASSUME NEW n \in 0 .. n0
               PROVE  /\ SubSeq(words, 1, n + 1) \in Seq(Seq(S))
                      /\ words[n + 1] \in Seq(S)
                      /\ SubSeq(words, 1, n + 1) =
                               Append(SubSeq(words, 1, n), words[n + 1])
                      /\ SubSeq(words, 1, n) \in Seq(Seq(S))
    OBVIOUS
  <2> DEFINE l == n + 1
  <2>1. l \in 1 .. Len(words) /\ l - 1 = n
    BY <1>1
  <2> HIDE DEF l
  <2>2. SubSeq(words, 1, l) = SubSeq(words, 1, l - 1) \o <<words[l]>>
    <3>1. 1 \in 1 .. Len(words)
      BY <1>1
    <3> QED
      BY <2>1, <3>1, SubSeqRecursiveSecond
  <2>3. words[l] \in Seq(S)
    BY <2>1, ElementOfSeq
  <2>4. SubSeq(words, 1, l) \in Seq(Seq(S)) /\ SubSeq(words, 1, n) \in Seq(Seq(S))
    <3>1. l \in Int /\ n \in Int /\ l <= Len(words) /\ n <= Len(words)
      BY <1>1, <2>1
    <3> QED
      BY <3>1, PartOf
  <2>5. Append(SubSeq(words, 1, n), words[l]) = SubSeq(words, 1, n) \o <<words[l]>>
    BY <2>3, <2>4, AppendIsConcat
  <2> QED
    BY <2>1, <2>2, <2>3, <2>4, <2>5 DEF l
<1>3. 0 \in Same
  <2>1. Followers(words, 0) = <<>>
    BY DEF Followers
  <2>2. L(0) = Len(words[1]) + 1
    <3>1. Len(words[1]) \in Nat
      BY <1>1, LenProperties
    <3>2. Len(FlattenSeq(<<>>)) = 0
      BY FlattenEmpty
    <3> QED
      BY <2>1, <3>1, <3>2
  <2>3. SubSeq(words, 1, 1) = <<words[1]>>
    <3>1. SubSeq(words, 1, 0 + 1) = Append(SubSeq(words, 1, 0), words[0 + 1])
      BY <1>1, <1>2
    <3>2. SubSeq(words, 1, 0) = <<>>
      BY SubSeqEmpty
    <3>3. 0 + 1 = 1
      OBVIOUS
    <3>4. SubSeq(words, 1, 1) = Append(<<>>, words[1])
      BY <3>1, <3>2, <3>3
    <3> QED
      BY <3>4
  <2>4. W(<<words[1]>>) = Len(words[1]) + 1
    <3>1. <<>> \in Seq(Seq(S))
      BY EmptySeq
    <3> QED
      BY <1>1, <3>1, WeightIs
  <2>5. L(0) = W(SubSeq(words, 1, 1)) /\ 0 + 1 = 1 /\ 0 \in 0 .. n0
    <3>1. 0 \in 0 .. n0
      BY <1>1
    <3>2. W(SubSeq(words, 1, 1)) = Len(words[1]) + 1
      BY <2>3, <2>4
    <3> HIDE DEF L, n0
    <3> QED
      BY <2>2, <3>1, <3>2
  <2> HIDE DEF L, n0
  <2> QED
    BY <2>5
<1>4. \A n \in 0 .. n0 - 1 : n \in Same => n + 1 \in Same
  <2> SUFFICES ASSUME NEW n \in 0 .. n0 - 1, L(n) = W(SubSeq(words, 1, n + 1))
               PROVE  L(n + 1) = W(SubSeq(words, 1, n + 2))
    <3>1. \A n \in 0 .. n0 - 1 : n \in 0 .. n0 /\ n + 1 \in 0 .. n0 /\ (n + 1) + 1 = n + 2
      BY <1>1
    <3> HIDE DEF L, n0
    <3> QED
      BY <3>1
  <2> DEFINE l == n + 1
             w == words[l + 1]
             u == <<Blank>> \o w
             f == Followers(words, n)
             p == SubSeq(words, 1, l)
  <2>1. n \in Nat /\ n + 1 < Len(words) /\ l \in 0 .. n0 /\ n < Len(words)
    BY <1>1
  <2>2. /\ u \in Seq(S) /\ Followers(words, l) = Append(f, u)
    <3>1. l + 1 = n + 2
      BY <2>1
    <3>2. /\ <<Blank>> \o words[n + 2] \in Seq(S)
          /\ Followers(words, n + 1) = Append(Followers(words, n), <<Blank>> \o words[n + 2])
      BY <2>1, FollowersMore
    <3> QED
      BY <3>1, <3>2
  <2>3. f \in Seq(Seq(S))
    BY <2>1, FollowersAre
  <2>4. w \in Seq(S) /\ p \in Seq(Seq(S)) /\ SubSeq(words, 1, l + 1) = Append(p, w)
    <3> HIDE DEF l
    <3> QED
      BY <1>2, <2>1
  <2>5. Len(u) = Len(w) + 1 /\ Len(w) \in Nat
    <3>1. <<Blank>> \in Seq(S) /\ Len(<<Blank>>) = 1
      BY Single
    <3> HIDE DEF w
    <3> QED
      BY <2>4, <3>1, ConcatProperties, LenProperties
  <2> HIDE DEF u, f, p, w
  <2>6. W(Append(p, w)) = W(p) + Len(w) + 1 /\ W(p) \in Nat
    BY <2>4, WeightIs
  <2>7. FlattenSeq(Append(f, u)) = FlattenSeq(f) \o u /\ FlattenSeq(f) \in Seq(S)
    BY <2>2, <2>3, FlattenAppend, FlattenType
  <2>8. Len(FlattenSeq(Append(f, u))) = Len(FlattenSeq(f)) + Len(u)
        /\ Len(FlattenSeq(f)) \in Nat
    BY <2>2, <2>7, ConcatProperties, LenProperties
  <2>9. Len(words[1]) \in Nat
    BY <1>1, LenProperties
  <2>10. L(l) = Len(words[1]) + Len(FlattenSeq(Append(f, u))) + 1
    BY <2>2
  <2>11. Len(words[1]) + Len(FlattenSeq(f)) + 1 = W(p)
    BY DEF f, p
  <2>12. L(l) = W(p) + Len(w) + 1
    <3> DEFINE x == Len(words[1])
               y == Len(FlattenSeq(f))
               z == Len(FlattenSeq(Append(f, u)))
    <3>1. /\ x \in Nat /\ y \in Nat /\ z = y + Len(u) /\ L(l) = x + z + 1
          /\ x + y + 1 = W(p) /\ Len(u) = Len(w) + 1 /\ Len(w) \in Nat
      BY <2>5, <2>8, <2>9, <2>10, <2>11
    <3> HIDE DEF L, x, y, z
    <3> QED
      BY <3>1
  <2>13. L(l) = W(SubSeq(words, 1, l + 1))
    BY <2>4, <2>6, <2>12
  <2>14. l + 1 = n + 2
    BY <2>1
  <2> QED
    BY <2>13, <2>14
<1>5. \A n \in 0 .. n0 : n \in Same
  <2> HIDE DEF Same, n0
  <2> QED
    BY <1>1, <1>3, <1>4, Induction
<1> DEFINE e == EndOf(words) - 1
<1>6. e \in 0 .. n0 /\ e + 1 = EndOf(words) /\ e \in Nat /\ e < Len(words)
  BY <1>1, EndIs
<1> HIDE DEF e
<1>7. L(e) = W(SubSeq(words, 1, EndOf(words)))
  BY <1>5, <1>6
<1>8. Joined(words) = words[1] \o FlattenSeq(Followers(words, e))
  BY <1>1 DEF Joined, Followers, e
<1>9. Followers(words, e) \in Seq(Seq(S))
  BY <1>6, FollowersAre
<1>10. FlattenSeq(Followers(words, e)) \in Seq(S)
  BY <1>9, FlattenType
<1>11. Len(Joined(words)) = Len(words[1]) + Len(FlattenSeq(Followers(words, e)))
  BY <1>1, <1>8, <1>10, ConcatProperties
<1> QED
  BY <1>7, <1>11
-----------------------------------------------------------------------------
TokensFit(S, words) ==
    Tokens[words] \in Seq(Seq(S)) /\ W(Tokens[words]) <= W(words)

LEMMA UnquotedLength ==
    ASSUME NEW S, NEW t \in Seq(S) PROVE Len(Unquoted(t)) <= Len(t)
<1> DEFINE b == Len(t) - 1
<1>1. Len(t) \in Nat /\ b \in Int /\ b <= Len(t)
  BY LenProperties
<1> HIDE DEF b
<1>2. Len(SubSeq(t, 2, b)) = IF 2 <= b THEN b - 2 + 1 ELSE 0
  BY <1>1, PartOf
<1>3. Len(SubSeq(t, 2, Len(t) - 1)) <= Len(t)
  BY <1>1, <1>2 DEF b
<1> QED
  BY <1>1, <1>3 DEF Unquoted

LEMMA TokensOf ==
    ASSUME NEW S, S \subseteq Bytes, Blank \in S, NEW words \in Seq(Seq(S))
    PROVE  TokensFit(S, words)
<1> DEFINE D == Seq(Seq(S))
           m == [x \in D |-> Len(x)]
           Good == {x \in D : TokensFit(S, x)}
<1>1. \A x \in D : m[x] \in Nat
  BY LenProperties
<1>2. ASSUME NEW x \in D, \A e \in D : m[e] < m[x] => e \in Good
      PROVE  TokensFit(S, x)
  <2>0. Tokens[x] = TokensStep(Tokens, x)
    <3>1. Seq(S) \subseteq Strings
      BY SeqMonotonic DEF Strings
    <3>2. x \in Seq(Strings)
      BY <3>1, SeqMonotonic
    <3> QED
      BY <3>2, TokensIs
  <2>1. CASE x = <<>>
    <3>1. Tokens[x] = <<>>
      BY <2>0, <2>1 DEF TokensStep
    <3>2. <<>> \in Seq(Seq(S)) /\ <<>> \in Seq(S)
      BY EmptySeq
    <3>3. W(<<>>) = 0
      BY <3>2, WeightIs
    <3> QED
      BY <2>1, <3>1, <3>2, <3>3 DEF TokensFit
  <2>2. CASE x # <<>> /\ x[1][1] # Quote
    <3> DEFINE h == Head(x)
               u == <<h>>
               t == Tail(x)
    <3>1. h \in Seq(S) /\ t \in D /\ Len(t) < Len(x) /\ h = x[1]
      BY <2>2, TailOf
    <3>2. TokensFit(S, t)
      <4>1. m[t] < m[x]
        BY <3>1
      <4> QED
        BY <1>2, <3>1, <4>1
    <3>3. u \in Seq(Seq(S)) /\ x = u \o t
      <4>1. Len(x) \in Nat \ {0}
        BY <2>2, EmptySeq
      <4>2. Tail(x) = SubSeq(x, 2, Len(x)) /\ SubSeq(x, 1, Len(x)) = x
        BY <2>2, TailIsSubSeq, SubSeqFull
      <4>3. SubSeq(x, 1, Len(x)) = <<x[1]>> \o SubSeq(x, 1 + 1, Len(x))
        <5>1. 1 \in 1 .. Len(x) /\ Len(x) \in 1 .. Len(x)
          BY <4>1
        <5> QED
          BY <5>1, SubSeqRecursiveFirst
      <4>4. x = u \o t
        BY <3>1, <4>2, <4>3
      <4>5. u \in Seq(Seq(S))
        BY <3>1
      <4> QED
        BY <4>4, <4>5
    <3>4. Tokens[x] = u \o Tokens[t]
      BY <2>0, <2>2 DEF TokensStep
    <3> HIDE DEF h, u, t, m, Good
    <3>5. Tokens[t] \in D /\ W(Tokens[t]) <= W(t)
      BY <3>2 DEF TokensFit
    <3>6. u \o Tokens[t] \in D
      BY <3>3, <3>5, ConcatProperties
    <3>7. /\ W(u \o Tokens[t]) = W(u) + W(Tokens[t])
          /\ W(u) \in Nat /\ W(Tokens[t]) \in Nat
      BY <3>3, <3>5, WeightConcat
    <3>8. W(u \o t) = W(u) + W(t) /\ W(t) \in Nat
      BY <3>1, <3>3, WeightConcat
    <3> QED
      BY <3>3, <3>4, <3>5, <3>6, <3>7, <3>8 DEF TokensFit
  <2>3. CASE x # <<>> /\ x[1][1] = Quote
    <3> DEFINE e == EndOf(x)
               j == Joined(x)
               q == Unquoted(j)
               u == <<q>>
               a == SubSeq(x, 1, e)
               t == SubSeq(x, e + 1, Len(x))
    <3>1. /\ t \in D /\ Len(t) < Len(x) /\ j \in Seq(S) /\ q \in Seq(S)
          /\ Len(q) <= Len(j)
      BY <2>3, Shorter, JoinedType, UnquotedType, UnquotedLength
    <3>2. TokensFit(S, t)
      <4>1. m[t] < m[x]
        BY <3>1
      <4> QED
        BY <1>2, <3>1, <4>1
    <3>3. Len(j) + 1 = W(a)
      BY <2>3, JoinedLength
    <3>4. e \in 1 .. Len(x) /\ Len(x) \in Nat
      BY <2>3, EndIs, LenProperties
    <3>5. a \in D /\ a \o t = x
      <4> HIDE DEF e
      <4>1. SubSeq(x, 1, e) \in Seq(Seq(S))
        <5>1. e \in Int /\ e <= Len(x)
          BY <3>4
        <5> QED
          BY <5>1, PartOf
      <4>2. SubSeq(x, 1, e) \o SubSeq(x, e + 1, Len(x)) = SubSeq(x, 1, Len(x))
        <5>1. 1 \in 1 .. Len(x) + 1 /\ e \in 1 - 1 .. Len(x) /\ Len(x) \in e .. Len(x)
          BY <3>4
        <5> QED
          BY <5>1, ConcatAdjacentSubSeq
      <4> QED
        BY <4>1, <4>2, SubSeqFull
    <3>6. Tokens[x] = u \o Tokens[t]
      BY <2>0, <2>3 DEF TokensStep
    <3>7. u \in Seq(Seq(S)) /\ W(u) = Len(q) + 1
      <4>1. <<>> \in Seq(Seq(S))
        BY EmptySeq
      <4> HIDE DEF q
      <4> QED
        BY <3>1, <4>1, WeightIs, SMTT(30)
    <3> HIDE DEF e, j, q, u, a, t, m, Good
    <3>8. Tokens[t] \in D /\ W(Tokens[t]) <= W(t)
      BY <3>2 DEF TokensFit
    <3>9. u \o Tokens[t] \in D
      BY <3>7, <3>8, ConcatProperties
    <3>10. /\ W(u \o Tokens[t]) = W(u) + W(Tokens[t])
           /\ W(u) \in Nat /\ W(Tokens[t]) \in Nat
      BY <3>7, <3>8, WeightConcat
    <3>11. W(a \o t) = W(a) + W(t) /\ W(t) \in Nat /\ W(a) \in Nat
      BY <3>1, <3>5, WeightConcat
    <3>12. Len(q) \in Nat /\ Len(j) \in Nat
      BY <3>1, LenProperties
    <3>13. W(u) <= W(a)
      BY <3>1, <3>3, <3>7, <3>12
    <3> QED
      BY <3>5, <3>6, <3>8, <3>9, <3>10, <3>11, <3>13 DEF TokensFit
  <2> QED
    BY <2>1, <2>2, <2>3
<1>3. \A x \in D : x \in Good
  <2>1. \A x \in D : (\A e \in D : m[e] < m[x] => e \in Good) => x \in Good
    BY <1>2
  <2> HIDE DEF D, m, Good
  <2> QED
    BY <1>1, <2>1, BySize
<1> QED
  BY <1>3

-----------------------------------------------------------------------------
(* Lines                                                                   *)

\* Bytes of a line but its last.
Plains == Bytes \ {Newline}
OneLine(s) == \A i \in 1 .. Len(s) - 1 : s[i] # Newline
WholeLine(s) == s \in Strings /\ s # <<>> /\ OneLine(s) /\ s[Len(s)] = Newline

\* What a DATA message can carry.
Short == {y \in Seq(Plains) : Len(y) + 3 < MaxLine}

LEMMA PlainBytes ==
    /\ Plains \subseteq Bytes /\ Blank \in Plains /\ Quote \in Plains
    /\ Types \subseteq Plains /\ Text \in Seq(Plains)
BY BytesAssumption, SeparatorAssumption, TextAssumption DEF Plains

LEMMA ShortStrings == Short \subseteq Strings /\ <<>> \in Short
<1>1. Short \subseteq Strings
  <2>1. \A y \in Seq(Plains) : y \in Seq(Bytes)
    BY PlainBytes, SeqMonotonic
  <2> QED
    BY <2>1 DEF Short, Strings
<1>2. <<>> \in Seq(Plains) /\ Len(<<>>) = 0
  BY EmptySeq
<1>3. 3 < MaxLine
  <2>1. Len(Text) \in Nat
    BY PlainBytes, LenProperties
  <2> QED
    BY <2>1, TextAssumption, MaxLineAssumption
<1> QED
  BY <1>1, <1>2, <1>3 DEF Short

\* What is decoded is in the line.
LEMMA DecodeFits ==
    ASSUME NEW S, S \subseteq Bytes, Blank \in S, NEW line \in Strings, line # <<>>,
           Front(line) \in Seq(S), Decode(line) # Invalid
    PROVE  /\ Last(line) = Newline /\ Decode(line).type \in S \cap Types
           /\ Decode(line).args \in Seq(Seq(S))
           /\ Len(Decode(line).args) = 1 => Len(Decode(line).args[1]) + 3 <= Len(line)
<1> DEFINE s == Front(line)
           words == Words[s]
           tokens == Tokens[words]
           bad == \/ line = <<>> \/ Last(line) # Newline \/ tokens = <<>>
                  \/ tokens[1] \notin {<<t>> : t \in Types}
           h == tokens[1]
           u == <<h>>
           t == Tail(tokens)
<1>1. Decode(line) = IF bad THEN Invalid ELSE Message(tokens[1][1], Tail(tokens))
  BY DEF Decode
<1>2. ~bad
  BY <1>1
<1>3. Decode(line).type = h[1] /\ Decode(line).args = t
  BY <1>1, <1>2 DEF Message
<1>4. Len(s) = Len(line) - 1 /\ Len(line) \in Nat
  BY LastOf, LenProperties DEF Strings
<1>5. words \in Seq(Seq(S)) /\ W(words) <= Len(s) + 1 /\ W(words) \in Nat
  <2>1. WordsFit(S, s)
    BY WordsOf
  <2>2. words \in Seq(Seq(S))
    BY <2>1 DEF WordsFit
  <2>3. W(words) \in Nat
    <3>1. <<>> \in Seq(S)
      BY EmptySeq
    <3> HIDE DEF words
    <3> QED
      BY <2>2, <3>1, WeightIs
  <2> QED
    BY <2>1, <2>2, <2>3 DEF WordsFit
<1>6. tokens \in Seq(Seq(S)) /\ W(tokens) <= W(words)
  <2>1. TokensFit(S, words)
    <3> HIDE DEF words
    <3> QED
      BY <1>5, TokensOf
  <2> QED
    BY <2>1 DEF TokensFit
<1>7. tokens # <<>> /\ \E y \in Types : h = <<y>>
  BY <1>2
<1>8. Last(line) = Newline
  BY <1>2
<1> HIDE DEF s, words, tokens, bad
<1>9. h \in Seq(S) /\ t \in Seq(Seq(S)) /\ Len(tokens) \in Nat \ {0}
  <2>1. /\ Head(tokens) \in Seq(S) /\ Head(tokens) = tokens[1]
        /\ Tail(tokens) \in Seq(Seq(S)) /\ Len(tokens) \in Nat \ {0}
    BY <1>6, <1>7, TailOf
  <2> QED
    BY <2>1
<1>10. h[1] \in S \cap Types /\ Len(h) = 1
  <2>1. PICK y \in Types : h = <<y>>
    BY <1>7
  <2>2. h[1] = y /\ Len(h) = 1
    BY <2>1
  <2>3. h[1] \in S
    <3>1. 1 \in 1 .. Len(h)
      BY <2>2
    <3> HIDE DEF h
    <3> QED
      BY <1>9, <3>1, ElementOfSeq
  <2> QED
    BY <2>2, <2>3
<1>11. tokens = u \o t
  <2>1. Tail(tokens) = SubSeq(tokens, 2, Len(tokens)) /\ SubSeq(tokens, 1, Len(tokens)) = tokens
    BY <1>6, <1>7, TailIsSubSeq, SubSeqFull
  <2>2. SubSeq(tokens, 1, Len(tokens)) = <<tokens[1]>> \o SubSeq(tokens, 1 + 1, Len(tokens))
    <3>1. 1 \in 1 .. Len(tokens) /\ Len(tokens) \in 1 .. Len(tokens)
      BY <1>9
    <3> QED
      BY <1>6, <3>1, SubSeqRecursiveFirst
  <2> QED
    BY <2>1, <2>2
<1>12. ASSUME Len(t) = 1
       PROVE  Len(t[1]) + 3 <= Len(line)
  <2> HIDE DEF t
  <2> DEFINE a == t[1]
             r == <<a>>
  <2>1. t = <<t[1]>>
    BY <1>9, <1>12
  <2>2. a \in Seq(S)
    <3>1. 1 \in 1 .. Len(t)
      BY <1>12
    <3> QED
      BY <1>9, <3>1, ElementOfSeq
  <2>3. t = r
    BY <2>1
  <2> HIDE DEF a, h
  <2>4. u \in Seq(Seq(S)) /\ r \in Seq(Seq(S)) /\ Len(a) \in Nat
    BY <1>9, <2>2, LenProperties
  <2>5. W(u) = Len(h) + 1 /\ W(r) = Len(a) + 1
    <3>1. <<>> \in Seq(Seq(S))
      BY EmptySeq
    <3> QED
      BY <1>9, <2>2, <3>1, WeightIs
  <2> HIDE DEF u, r
  <2>6. W(u \o r) = W(u) + W(r)
    BY <2>4, WeightConcat
  <2>7. W(tokens) = Len(a) + 3
    BY <1>10, <1>11, <2>3, <2>4, <2>5, <2>6
  <2>8. Len(a) + 3 <= Len(line)
    BY <1>4, <1>5, <1>6, <2>4, <2>7
  <2> QED
    BY <2>8 DEF a
<1> QED
  BY <1>3, <1>8, <1>9, <1>10, <1>12

LEMMA WordFirst ==
    ASSUME NEW line \in Strings, line # <<>>, OneLine(line)
    PROVE  Front(line) \in Seq(Plains)
<1>1. /\ Front(line) \in Seq(Bytes) /\ Len(Front(line)) = Len(line) - 1
      /\ \A i \in 1 .. Len(line) - 1 : Front(line)[i] = line[i]
  BY LastOf DEF Strings
<1> DEFINE f == Front(line)
           n == Len(f)
<1>2. n \in Nat /\ f \in [1 .. n -> Bytes]
  BY <1>1, LenProperties
<1>3. \A i \in 1 .. n : f[i] # Newline
  BY <1>1 DEF OneLine
<1> HIDE DEF f, n
<1>4. f \in [1 .. n -> Plains]
  BY <1>2, <1>3 DEF Plains
<1> QED
  BY <1>2, <1>4 DEF f

\* A value that came in a line can go out in one.
LEMMA ValueShort ==
    ASSUME NEW line \in Strings, line # <<>>, OneLine(line), Len(line) < MaxLine
    PROVE  GetValue(Decode(line)) \in Short
<1> DEFINE m == Decode(line)
<1>1. CASE m # Invalid /\ m.type \in {"PUSH", "DATA"} /\ Len(m.args) = 1
  <2>1. m.args \in Seq(Seq(Plains)) /\ Len(m.args[1]) + 3 <= Len(line)
    <3>1. Plains \subseteq Bytes /\ Blank \in Plains /\ Front(line) \in Seq(Plains)
      BY PlainBytes, WordFirst
    <3> QED
      BY <1>1, <3>1, DecodeFits
  <2>2. m.args[1] \in Seq(Plains)
    <3>1. 1 \in 1 .. Len(m.args)
      BY <1>1
    <3> HIDE DEF m
    <3> QED
      BY <2>1, <3>1, ElementOfSeq
  <2>3. Len(m.args[1]) \in Nat /\ Len(line) \in Nat
    <3> HIDE DEF m
    <3> QED
      BY <2>2, LenProperties DEF Strings
  <2>4. Len(m.args[1]) + 3 < MaxLine
    BY <2>1, <2>3, MaxLineAssumption
  <2>5. GetValue(m) = m.args[1]
    BY <1>1 DEF GetValue, ArgumentIf
  <2> HIDE DEF m
  <2>6. GetValue(m) \in Short
    BY <2>2, <2>4, <2>5 DEF Short
  <2> QED
    BY <2>6 DEF m
<1>2. CASE ~(m # Invalid /\ m.type \in {"PUSH", "DATA"} /\ Len(m.args) = 1)
  <2>1. GetValue(m) = <<>>
    BY <1>2 DEF GetValue, ArgumentIf, Invalid, Message
  <2> QED
    BY <2>1, ShortStrings
<1> QED
  BY <1>1, <1>2

-----------------------------------------------------------------------------
(* Messages as lines                                                       *)

\* What a message is before its newline.
Body(m) ==
    LET Argument(i) == IF m.type \in {"FAILED", "ERROR"} /\ i = 1
                         THEN Quoted(m.args[i]) ELSE m.args[i]
    IN  <<m.type>> \o FlattenSeq([i \in DOMAIN m.args |-> <<Blank>> \o Argument(i)])

LEMMA BodyType ==
    ASSUME NEW S, Blank \in S, Quote \in S, NEW m, m.type \in S, m.args \in Seq(Seq(S))
    PROVE  Body(m) \in Seq(S) /\ Encode(m) = Body(m) \o <<Newline>>
<1> DEFINE Argument(i) == IF m.type \in {"FAILED", "ERROR"} /\ i = 1
                            THEN Quoted(m.args[i]) ELSE m.args[i]
           F == [i \in DOMAIN m.args |-> <<Blank>> \o Argument(i)]
<1>1. <<Blank>> \in Seq(S) /\ <<Quote>> \in Seq(S) /\ <<m.type>> \in Seq(S)
  BY Single
<1>2. \A i \in DOMAIN m.args : m.args[i] \in Seq(S)
  BY ElementOfSeq
<1>3. \A s \in Seq(S) : Quoted(s) \in Seq(S)
  BY <1>1, ConcatProperties DEF Quoted
<1>4. \A i \in DOMAIN m.args : Argument(i) \in Seq(S)
  BY <1>2, <1>3
<1> HIDE DEF Argument
<1>5. \A i \in DOMAIN m.args : <<Blank>> \o Argument(i) \in Seq(S)
  BY <1>1, <1>4, ConcatProperties
<1>6. F \in Seq(Seq(S))
  <2>1. DOMAIN m.args = 1 .. Len(m.args) /\ Len(m.args) \in Nat
    BY LenProperties
  <2>2. F \in [1 .. Len(m.args) -> Seq(S)]
    BY <1>5, <2>1
  <2> QED
    BY <2>1, <2>2
<1>7. Body(m) = <<m.type>> \o FlattenSeq(F) /\ Encode(m) = Body(m) \o <<Newline>>
  BY DEF Encode, Body, Argument
<1> HIDE DEF F
<1>8. FlattenSeq(F) \in Seq(S)
  BY <1>6, FlattenType
<1>9. <<m.type>> \o FlattenSeq(F) \in Seq(S)
  BY <1>1, <1>8, ConcatProperties
<1> QED
  BY <1>7, <1>9

LEMMA LineIs ==
    ASSUME NEW S, S \subseteq Plains, NEW h \in Seq(S)
    PROVE  /\ h \o <<Newline>> \in Strings /\ h \o <<Newline>> # <<>>
           /\ WholeLine(h \o <<Newline>>)
           /\ Front(h \o <<Newline>>) = h /\ Len(h \o <<Newline>>) = Len(h) + 1
<1> DEFINE u == h \o <<Newline>>
<1>1. h \in Seq(Bytes) /\ h \in Seq(Plains)
  BY SeqMonotonic DEF Plains
<1>2. u = Append(h, Newline)
  BY <1>1, NewlineAssumption, AppendIsConcat
<1>3. /\ u \in Seq(Bytes) /\ u # <<>> /\ Len(u) = Len(h) + 1
      /\ Last(u) = Newline /\ Front(u) = h
  BY <1>1, <1>2, NewlineAssumption, AppendOf
<1>4. Len(h) \in Nat /\ \A i \in 1 .. Len(h) : u[i] = h[i] /\ h[i] # Newline
  <2>1. \A i \in 1 .. Len(h) : h[i] \in Plains
    BY <1>1, ElementOfSeq
  <2>2. \A i \in 1 .. Len(h) : Append(h, Newline)[i] = h[i]
    BY <1>1, NewlineAssumption, AppendProperties
  <2>3. Len(h) \in Nat
    BY <1>1, LenProperties
  <2> HIDE DEF u
  <2> QED
    BY <1>2, <2>1, <2>2, <2>3 DEF Plains
<1> HIDE DEF u
<1>5. u[Len(u)] = Newline
  BY <1>3, LastOf
<1>6. WholeLine(u)
  BY <1>3, <1>4, <1>5 DEF WholeLine, OneLine, Strings
<1> QED
  BY <1>3, <1>6 DEF u, Strings

LEMMA EncodeWhole ==
    ASSUME NEW m, m.type \in Types, m.args \in Seq(Seq(Plains))
    PROVE  WholeLine(Encode(m))
<1>1. Body(m) \in Seq(Plains) /\ Encode(m) = Body(m) \o <<Newline>>
  BY PlainBytes, BodyType
<1> QED
  BY <1>1, LineIs

LEMMA EncodeLength ==
    ASSUME NEW m, m.type \in Types, m.args \in Seq(Seq(Plains))
    PROVE  /\ m.args = <<>> => Len(Encode(m)) = 2
           /\ Len(m.args) = 1 =>
                 Len(Encode(m)) = IF m.type \in {"FAILED", "ERROR"}
                                    THEN Len(m.args[1]) + 5 ELSE Len(m.args[1]) + 3
<1>1. Body(m) \in Seq(Plains) /\ Encode(m) = Body(m) \o <<Newline>>
  BY PlainBytes, BodyType
<1>2. Len(Encode(m)) = Len(Body(m)) + 1
  BY <1>1, LineIs
<1> DEFINE Argument(i) == IF m.type \in {"FAILED", "ERROR"} /\ i = 1
                            THEN Quoted(m.args[i]) ELSE m.args[i]
           F == [i \in DOMAIN m.args |-> <<Blank>> \o Argument(i)]
<1>3. Body(m) = <<m.type>> \o FlattenSeq(F)
  BY DEF Body
<1>4. /\ <<m.type>> \in Seq(Plains) /\ Len(<<m.type>>) = 1
      /\ <<Blank>> \in Seq(Plains) /\ Len(<<Blank>>) = 1
      /\ <<Quote>> \in Seq(Plains) /\ Len(<<Quote>>) = 1
  BY PlainBytes, Single
<1>5. ASSUME m.args = <<>>
      PROVE  Len(Encode(m)) = 2
  <2>1. F = <<>>
    BY <1>5
  <2> HIDE DEF F
  <2>2. FlattenSeq(F) = <<>> /\ <<m.type>> \o <<>> = <<m.type>>
    BY <1>4, <2>1, FlattenEmpty, ConcatEmptySeq
  <2>3. Body(m) = <<m.type>>
    BY <1>3, <2>2
  <2> QED
    BY <1>2, <1>4, <2>3
<1>6. ASSUME Len(m.args) = 1
      PROVE  Len(Encode(m)) = IF m.type \in {"FAILED", "ERROR"}
                                THEN Len(m.args[1]) + 5 ELSE Len(m.args[1]) + 3
  <2> DEFINE a == m.args[1]
             x == Argument(1)
             u == <<Blank>> \o x
  <2>1. DOMAIN m.args = 1 .. 1
    BY <1>6, LenProperties
  <2>2. a \in Seq(Plains) /\ Len(a) \in Nat
    <3>1. 1 \in 1 .. Len(m.args)
      BY <1>6
    <3>2. a \in Seq(Plains)
      BY <3>1, ElementOfSeq
    <3> QED
      BY <3>2, LenProperties
  <2>3. /\ Quoted(a) \in Seq(Plains) /\ Len(Quoted(a)) = Len(a) + 2
    <3> DEFINE q == <<Quote>> \o a
    <3>1. q \in Seq(Plains) /\ Len(q) = 1 + Len(a)
      BY <1>4, <2>2, ConcatProperties
    <3> HIDE DEF q
    <3>2. q \o <<Quote>> \in Seq(Plains) /\ Len(q \o <<Quote>>) = Len(q) + 1
      BY <1>4, <3>1, ConcatProperties
    <3>3. Quoted(a) = q \o <<Quote>>
      BY DEF Quoted, q
    <3> QED
      BY <2>2, <3>1, <3>2, <3>3
  <2>4. /\ x \in Seq(Plains)
        /\ Len(x) = IF m.type \in {"FAILED", "ERROR"} THEN Len(a) + 2 ELSE Len(a)
    BY <2>2, <2>3
  <2> HIDE DEF x
  <2>5. u \in Seq(Plains) /\ Len(u) = Len(x) + 1 /\ Len(x) \in Nat
    <3>1. Len(<<Blank>> \o x) = Len(<<Blank>>) + Len(x) /\ <<Blank>> \o x \in Seq(Plains)
      BY <1>4, <2>4, ConcatProperties
    <3>2. Len(x) \in Nat
      BY <2>4, LenProperties
    <3> QED
      BY <1>4, <3>1, <3>2
  <2>6. F = <<u>>
    <3>1. F = [i \in 1 .. 1 |-> <<Blank>> \o Argument(i)]
      BY <2>1
    <3>2. \A i \in 1 .. 1 : <<Blank>> \o Argument(i) = u
      BY DEF x
    <3> HIDE DEF Argument, F, u
    <3>3. F = [i \in 1 .. 1 |-> u]
      BY <3>1, <3>2
    <3> QED
      BY <3>3
  <2> HIDE DEF u, F
  <2>7. FlattenSeq(F) = u
    BY <2>5, <2>6, FlattenOne
  <2>8. Len(<<m.type>> \o u) = 1 + Len(u)
    BY <1>4, <2>5, ConcatProperties
  <2> HIDE DEF a
  <2>9. Len(Encode(m)) = Len(x) + 3
    BY <1>2, <1>3, <2>5, <2>7, <2>8
  <2>10. Len(Encode(m)) = IF m.type \in {"FAILED", "ERROR"} THEN Len(a) + 5 ELSE Len(a) + 3
    BY <2>2, <2>4, <2>9
  <2> QED
    BY <2>10 DEF a
<1> QED
  BY <1>5, <1>6

-----------------------------------------------------------------------------
\* A request BYE is read as BYE or not at all.
LEMMA ByeIsRead ==
    LET line == Encode(Message("BYE", <<>>))
    IN  Decode(line) # Invalid => Decode(line).type = "BYE"
<1> DEFINE m == Message("BYE", <<>>)
           line == Encode(m)
           S == {"BYE", Blank, Quote}
<1>1. "BYE" \in S /\ Blank \in S /\ Quote \in S /\ S \subseteq Plains /\ S \subseteq Bytes
  BY PlainBytes DEF Types, Requests
<1>2. m.type = "BYE" /\ m.args = <<>>
  BY DEF Message
<1>3. S \cap Types = {"BYE"}
  BY DEF Types, Requests, Blank, Quote
<1> HIDE DEF S
<1>4. Body(m) \in Seq(S) /\ Encode(m) = Body(m) \o <<Newline>>
  <2> HIDE DEF m
  <2>1. m.args \in Seq(Seq(S))
    BY <1>2, EmptySeq
  <2> QED
    BY <1>1, <1>2, <2>1, BodyType
<1>5. line \in Strings /\ line # <<>> /\ Front(line) = Body(m)
  <2> HIDE DEF m
  <2> QED
    BY <1>1, <1>4, LineIs
<1>6. Decode(line) # Invalid => Decode(line).type \in S \cap Types
  <2> HIDE DEF line
  <2> QED
    BY <1>1, <1>4, <1>5, DecodeFits
<1> QED
  BY <1>3, <1>6

-----------------------------------------------------------------------------
(* What the calls leave in a pipe.                                         *)

\* A line that has been returned ends as lines do, or is the last one; at the
\* end of the file or after an error nothing is left.
LineOK(p) ==
    /\ p.reader = "line" =>
          /\ Len(p.line) \in 1 .. MaxLine - 1
          /\ \A i \in 1 .. Len(p.line) - 1 : p.line[i] # Newline
          /\ \/ p.line[Len(p.line)] = Newline
             \/ Len(p.line) = MaxLine - 1
             \/ p.writer # "open" /\ p.wire = <<>> /\ p.rbuf = <<>>
    /\ p.reader \in {"eof", "error"} =>
          p.writer # "open" /\ p.wire = <<>> /\ p.rbuf = <<>>
    /\ p.reader = "error" => p.writer = "reset"

FlowOK(p) == PipeOK(p) /\ LineOK(p)

Flows(p, q) == q = p \/ Sends(p, q) \/ Receives(p, q)

LEMMA FilledFlows ==
    ASSUME NEW p \in Pipe, Unfinished(p.line) PROVE LineOK(Filled(p))
BY FilledIs DEF LineOK, Finished

LEMMA FlowKeepsOK ==
    ASSUME NEW p, NEW q, FlowOK(p), Flows(p, q)
    PROVE  FlowOK(q)
<1>0. CASE q = p
  BY <1>0
<1>1. ASSUME NEW msg \in Seq(Bytes), CanCallWrite(p), q = CallWrite(p, msg)
      PROVE  LineOK(q)
  BY <1>1 DEF FlowOK, PipeOK, LineOK, Pipe, CanCallWrite, CallWrite
<1>2. ASSUME NEW n \in 1 .. Len(p.out), CanWrite(p, n), q = Write(p, n)
      PROVE  LineOK(q)
  BY <1>2 DEF FlowOK, PipeOK, LineOK, Pipe, CanWrite, Write
<1>3. ASSUME CanWriteInVain(p), q = WriteInVain(p)
      PROVE  LineOK(q)
  BY <1>3 DEF FlowOK, PipeOK, LineOK, Pipe, WriteInVain
<1>4. ASSUME NEW how \in {"closed", "reset"}, p.writer = "open", q = Hung(p, how)
      PROVE  LineOK(q)
  BY <1>4 DEF FlowOK, PipeOK, LineOK, Pipe, Hung
<1>5. ASSUME CanReadLine(p), q = ReadLine(p)
      PROVE  LineOK(q)
  BY <1>5, StartsReading, FilledFlows DEF ReadLine, FlowOK
<1>6. ASSUME NEW n \in 1 .. Len(p.wire), CanRefill(p, n), q = Refill(p, n)
      PROVE  LineOK(q)
  BY <1>6, GoesOnReading, FilledFlows DEF Refill, FlowOK
<1>7. ASSUME MeetsEnd(p), q = MeetEnd(p)
      PROVE  LineOK(q)
  <2>1. /\ p \in Pipe /\ p.rbuf = <<>> /\ p.wire = <<>> /\ p.writer # "open"
        /\ Unfinished(p.line) /\ p.line \in Seq(Bytes)
    BY <1>7 DEF FlowOK, PipeOK, MeetsEnd, Pipe
  <2>2. /\ q.rbuf = <<>> /\ q.wire = <<>> /\ q.writer # "open" /\ q.line = p.line
        /\ q.reader = "line" => p.line # <<>>
        /\ q.reader = "error" => q.writer = "reset"
    BY <1>7, <2>1 DEF MeetEnd, Pipe
  <2>3. p.line # <<>> => Len(p.line) \in Nat \ {0}
    BY <2>1, EmptySeq
  <2>4. Len(p.line) < MaxLine - 1 /\ \A i \in 1 .. Len(p.line) : p.line[i] # Newline
    BY <2>1 DEF Unfinished
  <2>5. p.line # <<>> => /\ Len(p.line) \in 1 .. MaxLine - 1
                         /\ \A i \in 1 .. Len(p.line) - 1 : p.line[i] # Newline
    BY <2>3, <2>4, MaxLineAssumption
  <2> QED
    BY <2>2, <2>5 DEF LineOK
<1>8. ASSUME q = Left(p)
      PROVE  LineOK(q)
  BY <1>8 DEF FlowOK, PipeOK, LineOK, Pipe, Left
<1>9. CASE Sends(p, q) \/ Receives(p, q)
  <2>1. LineOK(q)
    BY <1>9, <1>1, <1>2, <1>3, <1>4, <1>5, <1>6, <1>7, <1>8 DEF Sends, Receives
  <2>2. PipeOK(q)
    BY <1>9, StepKeepsOK DEF FlowOK
  <2> QED
    BY <2>1, <2>2 DEF FlowOK
<1> QED
  BY <1>0, <1>9 DEF Flows

\* Copying the rio_t forgets what it has in its buffer.
LEMMA ForgetOK ==
    ASSUME NEW p, FlowOK(p) PROVE FlowOK([p EXCEPT !.rbuf = <<>>])
BY EmptyIsSeq DEF FlowOK, PipeOK, LineOK, Pipe

-----------------------------------------------------------------------------
(* A connection: everything about one client and its thread.               *)

Results == {"none", "aborted", "io error", "killed", "done", "failed"}

ClientRecord ==
    [pc : {"send", "write", "read"}, step : 1 .. 4, printed : Strings \union {NoLine},
     result : Results, stale : BOOLEAN]

SessionRecord ==
    [pc : {"none", "read", "write", "last", "ended"}, loggedIn : BOOLEAN,
     hasStack : BOOLEAN, stack : Seq(Short)]

Conn(c) == [client |-> clients[c], link |-> link[c], session |-> sessions[c],
            up |-> up[c], down |-> down[c]]

\* The client's end of a connection, and the server's.
Alive(w) == w.client.result = "none"
Attached(w) ==
    w.session.pc \in Serving \/ (w.link = "queued" /\ w.session.pc = "none")

TypesOK(w) ==
    /\ w.client \in ClientRecord /\ w.session \in SessionRecord
    /\ w.link \in {"none", "queued", "accepted"}
    /\ FlowOK(w.up) /\ FlowOK(w.down)

\* A connection fits its ends: who has a place has a connection, and an end
\* that has gone has closed its descriptor.
EndsOK(w) ==
    /\ w.link = "none" =>
          /\ w.up = NewPipe /\ w.down = NewPipe /\ w.session.pc \in {"none", "ended"}
          /\ Alive(w) => w.client.pc = "send"
    /\ w.link = "queued" => w.session.pc \in {"none", "ended"}
    /\ w.link = "accepted" => w.session.pc # "none"
    /\ w.link # "none" =>
          /\ (Alive(w) <=> w.up.writer = "open") /\ (Alive(w) <=> ~Deserted(w.down))
          /\ (Attached(w) <=> w.down.writer = "open") /\ (Attached(w) <=> ~Deserted(w.up))

PlacesOK(w) ==
    /\ w.client.pc = "read" => w.client.step <= 3
    /\ w.session.pc = "read" =>
          w.down.out = <<>> /\ w.up.reader \in {"reading", "line", "eof", "error"}
    /\ w.session.pc \in {"write", "last"} => w.up.reader = "line"
    /\ w.session.pc = "none" => w.down.out = <<>>
    /\ w.link = "queued" /\ w.session.pc = "none" => w.up.reader = "idle"

ConnOK(w) == TypesOK(w) /\ EndsOK(w) /\ PlacesOK(w)

RequestOf(k, n) ==
    LET tuple == <<k.table, k.key>>
    IN  IF k.program = "set"
          THEN << Message("LOGIN", <<k.user>>), Message("PUSH", <<k.value>>),
                  Message("SET", tuple), Message("BYE", <<>>) >>[n]
          ELSE << Message("LOGIN", <<k.user>>), Message("GET", tuple),
                  Message("TOP", <<>>), Message("BYE", <<>>) >>[n]

LEMMA RequestIs == \A c : Request(c) = RequestOf(commands[c], clients[c].step)
BY DEF Request, Program, RequestOf

WantedOf(k, n) == IF RequestOf(k, n).type = "TOP" THEN "DATA" ELSE "OK"

RepliesOf(k, w) ==
    CASE w.down.reader = "line" -> {Decode(w.down.line)}
      [] w.down.reader = "eof" ->
            IF w.client.step > 1 /\ RequestOf(k, w.client.step).type # "TOP"
              THEN {Message("OK", <<>>), Invalid} ELSE {Invalid}
      [] OTHER -> {}

-----------------------------------------------------------------------------
(* What becomes of a connection w, of a client with arguments k: v.        *)

ServerStays(w, v) == v.link = w.link /\ v.session = w.session
ClientStays(w, v) == v.client = w.client

Dials(w, v) ==
    /\ w.link = "none" /\ Alive(w) /\ w.session.pc = "none"
    /\ v.link = "queued" /\ v.session = w.session
    /\ ClientStays(w, v) /\ v.up = w.up /\ v.down = w.down

\* Why a client ends.
Quits(w, result) ==
    \/ w.client.pc = "send" /\ result \in {"aborted", "io error"}
    \/ w.client.pc = "write" /\ w.client.step = 4 /\ w.up.out = <<>> /\ result = "done"
    \/ /\ w.client.pc = "read" /\ w.down.reader \in {"line", "eof", "error"}
       /\ result \in {"failed", "aborted", "io error"}
    \/ result = "killed"

Exits(w, v) ==
    /\ Alive(w)
    /\ \E result \in Results \ {"none"} :
          Quits(w, result) /\ v.client = [w.client EXCEPT !.result = result]
    /\ IF w.link = "none"
         THEN v.up = w.up /\ v.down = w.down
         ELSE v.up = Hung(w.up, Reset(w.down)) /\ v.down = Left(w.down)
    /\ ServerStays(w, v)

SendsRequest(k, w, v) ==
    /\ Alive(w) /\ w.link # "none" /\ w.client.pc = "send"
    /\ ~IsTooLong(RequestOf(k, w.client.step)) /\ CanCallWrite(w.up)
    /\ v.up = CallWrite(w.up, Encode(RequestOf(k, w.client.step)))
    /\ v.client = [w.client EXCEPT !.pc = "write"]
    /\ ServerStays(w, v) /\ v.down = w.down

\* What rio_writen and rio_readlineb do to a pipe.
GoesOnWriting(p, q) ==
    \/ \E n \in 1 .. Len(p.out) : CanWrite(p, n) /\ q = Write(p, n)
    \/ CanWriteInVain(p) /\ q = WriteInVain(p)

Reads(p, q) ==
    \/ \E n \in 1 .. Len(p.wire) : CanRefill(p, n) /\ q = Refill(p, n)
    \/ MeetsEnd(p) /\ q = MeetEnd(p)

ClientMoves(w, v) ==
    /\ Alive(w) /\ ClientStays(w, v) /\ ServerStays(w, v)
    /\ \/ w.client.pc = "write" /\ GoesOnWriting(w.up, v.up) /\ v.down = w.down
       \/ w.client.pc = "read" /\ Reads(w.down, v.down) /\ v.up = w.up

AwaitsReply(w, v) ==
    /\ Alive(w) /\ w.client.pc = "write" /\ w.client.step <= 3 /\ w.up.out = <<>>
    /\ CanReadLine(w.down) /\ v.down = ReadLine(w.down)
    /\ v.client = [w.client EXCEPT !.pc = "read"]
    /\ ServerStays(w, v) /\ v.up = w.up

Goes(k, w, v) ==
    /\ Alive(w) /\ w.client.pc = "read"
    /\ \E m \in RepliesOf(k, w) :
          /\ m.type = WantedOf(k, w.client.step)
          /\ v.client = Advanced(w.client, m, w.down.reader = "eof")
    /\ v.down = IF WantedOf(k, w.client.step) = "OK"
                  THEN [w.down EXCEPT !.rbuf = <<>>] ELSE w.down
    /\ ServerStays(w, v) /\ v.up = w.up

ServerLeaves(w, v) == v.up = Left(w.up) /\ v.down = Hung(w.down, Reset(w.up))

Accepts(w, v) ==
    /\ w.link = "queued" /\ w.session.pc = "none"
    /\ v.link = "accepted" /\ ClientStays(w, v)
    /\ \/ /\ v.session = [w.session EXCEPT !.pc = "read"]
          /\ v.up = ReadLine(w.up) /\ v.down = w.down
       \/ v.session = [w.session EXCEPT !.pc = "ended"] /\ ServerLeaves(w, v)

SessionMoves(w, v) ==
    /\ ClientStays(w, v) /\ ServerStays(w, v)
    /\ \/ w.session.pc = "read" /\ Reads(w.up, v.up) /\ v.down = w.down
       \/ /\ w.session.pc \in {"write", "last"}
          /\ GoesOnWriting(w.down, v.down) /\ v.up = w.up

Closes(w, v) ==
    /\ \/ w.session.pc = "read" /\ w.up.reader = "eof"
       \/ w.session.pc = "last" /\ w.down.out = <<>>
    /\ v.session = [w.session EXCEPT !.pc = "ended"] /\ v.link = w.link
    /\ ClientStays(w, v) /\ ServerLeaves(w, v)

Data(y) == Message("DATA", <<y>>)
Answers == {Ok, Failed, Error} \union {Data(y) : y \in Short}

\* m is the request, a the answer.
Answered(w, v, m, a) ==
    /\ w.session.pc = "read" /\ w.up.reader = "line" /\ a \in Answers
    /\ v.down = CallWrite(w.down, Encode(a))
    /\ v.session \in SessionRecord /\ v.session.pc \in {"write", "last"}
    /\ a = Error \/ m.type = "BYE" => v.session.pc = "last"
    /\ m = Invalid => a = Error
    /\ ClientStays(w, v) /\ v.link = w.link /\ v.up = w.up

Handles(w, v) == \E a : Answered(w, v, Decode(w.up.line), a)

AwaitsRequest(w, v) ==
    /\ w.session.pc = "write" /\ w.down.out = <<>>
    /\ v.session = [w.session EXCEPT !.pc = "read"] /\ v.link = w.link
    /\ v.up = ReadLine(w.up) /\ ClientStays(w, v) /\ v.down = w.down

ServerGoes(w, v) ==
    /\ v.session = [w.session EXCEPT !.pc = "ended"] /\ v.link = w.link
    /\ IF Attached(w) THEN ServerLeaves(w, v) ELSE v.up = w.up /\ v.down = w.down
    /\ ClientStays(w, v)

Evolves(k, w, v) ==
    \/ v = w \/ Dials(w, v) \/ Exits(w, v) \/ SendsRequest(k, w, v)
    \/ ClientMoves(w, v) \/ AwaitsReply(w, v) \/ Goes(k, w, v)
    \/ Accepts(w, v) \/ SessionMoves(w, v) \/ Closes(w, v) \/ Handles(w, v)
    \/ AwaitsRequest(w, v) \/ ServerGoes(w, v)

Command == [program : {"set", "get"}, user : Strings, table : Strings, key : Strings,
            value : Strings]

-----------------------------------------------------------------------------
(* What a connection is stays so.                                          *)

LEMMA RequestTyped ==
    ASSUME NEW k \in Command, NEW n \in 1 .. 4
    PROVE  /\ RequestOf(k, n).type \in {"LOGIN", "PUSH", "SET", "GET", "TOP", "BYE"}
           /\ RequestOf(k, n).args \in Seq(Strings)
           /\ RequestOf(k, n).type = "BYE" <=> n = 4
           /\ Encode(RequestOf(k, n)) \in Strings
<1>1. n \in {1, 2, 3, 4}
  OBVIOUS
<1>2. /\ <<>> \in Seq(Strings) /\ <<k.user>> \in Seq(Strings)
      /\ <<k.value>> \in Seq(Strings) /\ <<k.table, k.key>> \in Seq(Strings)
  BY EmptySeq, Single DEF Command
<1>3. PICK args : /\ RequestOf(k, n).args = args
                  /\ args \in {<<>>, <<k.user>>, <<k.value>>, <<k.table, k.key>>}
  <2>1. CASE n = 1
    BY <2>1 DEF RequestOf, Message
  <2>2. CASE n = 2
    BY <2>2 DEF RequestOf, Message
  <2>3. CASE n = 3
    BY <2>3 DEF RequestOf, Message
  <2>4. CASE n = 4
    BY <2>4 DEF RequestOf, Message
  <2> QED
    BY <1>1, <2>1, <2>2, <2>3, <2>4
<1>4. /\ RequestOf(k, n).type \in {"LOGIN", "PUSH", "SET", "GET", "TOP", "BYE"}
      /\ RequestOf(k, n).args \in Seq(Strings)
      /\ RequestOf(k, n).type = "BYE" <=> n = 4
  <2> DEFINE Type == /\ RequestOf(k, n).type \in {"LOGIN", "PUSH", "SET", "GET", "TOP", "BYE"}
                     /\ (RequestOf(k, n).type = "BYE" <=> n = 4)
  <2>1. n = 1 => Type
    BY DEF RequestOf, Message
  <2>2. n = 2 => Type
    BY DEF RequestOf, Message
  <2>3. n = 3 => Type
    BY DEF RequestOf, Message
  <2>4. n = 4 => Type
    BY DEF RequestOf, Message
  <2>5. RequestOf(k, n).args \in Seq(Strings)
    BY <1>2, <1>3
  <2> QED
    BY <1>1, <2>1, <2>2, <2>3, <2>4, <2>5
<1>5. Encode(RequestOf(k, n)) \in Strings
  <2> DEFINE m == RequestOf(k, n)
  <2>1. m.type \in Types /\ m.args \in Seq(Strings)
    BY <1>4 DEF Types, Requests
  <2> HIDE DEF m
  <2>2. Encode(m) \in Strings
    BY <2>1, EncodeType
  <2> QED
    BY <2>2 DEF m
<1> QED
  BY <1>4, <1>5

LEMMA PartsTyped == ASSUME NEW T, NEW S \in SUBSET T, NEW s \in Seq(S) PROVE s \in Seq(T)
<1>1. Len(s) \in Nat /\ s \in [1 .. Len(s) -> S]
  BY LenProperties
<1>2. s \in [1 .. Len(s) -> T]
  BY <1>1
<1> QED
  BY <1>1, <1>2

LEMMA AnswerTyped == ASSUME NEW a \in Answers PROVE Encode(a) \in Strings
<1>1. a.type \in Types /\ a.args \in Seq(Strings)
  <2>0. Text \in Strings
    BY TextAssumption, PartsTyped DEF Strings
  <2>1. <<>> \in Seq(Strings) /\ <<Text>> \in Seq(Strings)
    BY <2>0, EmptySeq, Single
  <2>2. \A y \in Short : <<y>> \in Seq(Strings)
    BY ShortStrings, Single
  <2>3. CASE \E y \in Short : a = Data(y)
    BY <2>2, <2>3 DEF Data, Message, Types
  <2>4. CASE a \in {Ok, Failed, Error}
    <3>1. a.type \in Types
      BY <2>4 DEF Ok, Failed, Error, Message, Types
    <3>2. a.args = <<>> \/ a.args = <<Text>>
      BY <2>4 DEF Ok, Failed, Error, Message
    <3> QED
      BY <2>1, <3>1, <3>2
  <2> QED
    BY <2>3, <2>4 DEF Answers
<1> QED
  BY <1>1, EncodeType

\* Which pipe moves how.
LEMMA PipesFlow ==
    ASSUME NEW k \in Command, NEW w, NEW v, ConnOK(w), Evolves(k, w, v)
    PROVE  /\ Flows(w.up, v.up)
           /\ Flows(w.down, v.down) \/ Goes(k, w, v)
<1> USE DEF Flows
<1>1. CASE v = w \/ Dials(w, v) \/ Goes(k, w, v)
  BY <1>1 DEF Dials, Goes
<1>2. CASE Exits(w, v)
  <2>1. CASE w.link = "none"
    BY <1>2, <2>1 DEF Exits
  <2>2. CASE w.link # "none"
    <3>1. /\ w.up.writer = "open" /\ ~Deserted(w.down)
          /\ v.up = Hung(w.up, Reset(w.down)) /\ v.down = Left(w.down)
      BY <1>2, <2>2 DEF Exits, ConnOK, EndsOK
    <3>2. Reset(w.down) \in {"closed", "reset"}
      BY DEF Reset
    <3> QED
      BY <3>1, <3>2 DEF Sends, Receives
  <2> QED
    BY <2>1, <2>2
<1>3. CASE SendsRequest(k, w, v)
  <2>1. w.client.step \in 1 .. 4
    BY DEF ConnOK, TypesOK, ClientRecord
  <2>2. Encode(RequestOf(k, w.client.step)) \in Seq(Bytes)
    BY <2>1, RequestTyped DEF Strings
  <2> QED
    BY <1>3, <2>2 DEF SendsRequest, Sends
<1>4. CASE ClientMoves(w, v)
  BY <1>4 DEF ClientMoves, GoesOnWriting, Reads, Sends, Receives
<1>5. CASE AwaitsReply(w, v)
  BY <1>5 DEF AwaitsReply, Receives
<1>6. CASE Accepts(w, v)
  <2>1. /\ w.up.reader = "idle" /\ ~Deserted(w.up) /\ w.down.writer = "open"
    BY <1>6 DEF Accepts, ConnOK, EndsOK, PlacesOK, Attached
  <2>2. Reset(w.up) \in {"closed", "reset"}
    BY DEF Reset
  <2> QED
    BY <1>6, <2>1, <2>2 DEF Accepts, ServerLeaves, Sends, Receives, CanReadLine
<1>7. CASE SessionMoves(w, v)
  BY <1>7 DEF SessionMoves, GoesOnWriting, Reads, Sends, Receives
<1>8. CASE Closes(w, v) \/ ServerGoes(w, v)
  <2>1. CASE ~Attached(w)
    BY <1>8, <2>1 DEF Closes, ServerGoes, Attached, Serving
  <2>2. CASE Attached(w)
    <3>1. w.link # "none"
      BY <2>2 DEF ConnOK, EndsOK, Attached, Serving
    <3>2. ~Deserted(w.up) /\ w.down.writer = "open" /\ ServerLeaves(w, v)
      BY <1>8, <2>2, <3>1 DEF ConnOK, EndsOK, Closes, ServerGoes
    <3>3. Reset(w.up) \in {"closed", "reset"}
      BY DEF Reset
    <3> QED
      BY <3>2, <3>3 DEF ServerLeaves, Sends, Receives
  <2> QED
    BY <2>1, <2>2
<1>9. CASE Handles(w, v)
  <2>1. PICK a : Answered(w, v, Decode(w.up.line), a)
    BY <1>9 DEF Handles
  <2>2. /\ Encode(a) \in Seq(Bytes) /\ v.up = w.up
        /\ v.down = CallWrite(w.down, Encode(a)) /\ w.session.pc = "read"
    BY <2>1, AnswerTyped DEF Answered, Strings
  <2>3. CanCallWrite(w.down)
    BY <2>2 DEF ConnOK, EndsOK, PlacesOK, Attached, Serving, CanCallWrite
  <2> QED
    BY <2>2, <2>3 DEF Sends
<1>10. CASE AwaitsRequest(w, v)
  <2>1. CanReadLine(w.up)
    BY <1>10 DEF AwaitsRequest, ConnOK, PlacesOK, CanReadLine
  <2> QED
    BY <1>10, <2>1 DEF AwaitsRequest, Receives
<1> QED
  BY <1>1, <1>2, <1>3, <1>4, <1>5, <1>6, <1>7, <1>8, <1>9, <1>10 DEF Evolves

LEMMA EvolvesTyped ==
    ASSUME NEW k \in Command, NEW w, NEW v, ConnOK(w), Evolves(k, w, v)
    PROVE  TypesOK(v)
<1>1. FlowOK(v.up)
  BY PipesFlow, FlowKeepsOK DEF ConnOK, TypesOK
<1>2. FlowOK(v.down)
  <2>1. CASE Flows(w.down, v.down)
    BY <2>1, FlowKeepsOK DEF ConnOK, TypesOK
  <2>2. CASE Goes(k, w, v)
    BY <2>2, ForgetOK DEF Goes, ConnOK, TypesOK
  <2> QED
    BY <2>1, <2>2, PipesFlow
<1>3. w.client \in ClientRecord /\ w.session \in SessionRecord
      /\ w.link \in {"none", "queued", "accepted"}
  BY DEF ConnOK, TypesOK
<1>9. /\ v.client \in ClientRecord /\ v.session \in SessionRecord
      /\ v.link \in {"none", "queued", "accepted"}
  <2>4. CASE v = w \/ Dials(w, v) \/ ClientMoves(w, v) \/ SessionMoves(w, v)
    BY <1>3, <2>4 DEF Dials, ClientMoves, SessionMoves, ServerStays, ClientStays
  <2>5. CASE Exits(w, v) \/ SendsRequest(k, w, v) \/ AwaitsReply(w, v)
    BY <1>3, <2>5 DEF Exits, SendsRequest, AwaitsReply, ServerStays, ClientRecord
  <2>6. CASE Goes(k, w, v)
    <3>1. PICK m \in RepliesOf(k, w) :
            v.client = Advanced(w.client, m, w.down.reader = "eof")
      BY <2>6 DEF Goes
    <3>2. w.client.step \in 1 .. 3 /\ w.client.pc = "read"
      BY <1>3, <2>6 DEF Goes, ConnOK, PlacesOK, ClientRecord
    <3>3. m.args \in Seq(Strings)
      <4>1. CASE w.down.reader = "line"
        <5>1. w.down.line \in Strings
          BY DEF ConnOK, TypesOK, FlowOK, PipeOK, Pipe, Strings
        <5>2. m = Decode(w.down.line)
          BY <3>1, <4>1 DEF RepliesOf
        <5> QED
          BY <5>1, <5>2, DecodeType DEF Messages
      <4>2. CASE w.down.reader # "line"
        <5>1. <<>> \in Seq(Strings)
          BY EmptySeq
        <5>2. m.args = <<>>
          BY <3>1, <4>2 DEF RepliesOf, Message, Invalid
        <5> QED
          BY <5>1, <5>2
      <4> QED
        BY <4>1, <4>2
    <3>4. GetValue(m) \in Strings
      <4>1. CASE m.type \in {"PUSH", "DATA"} /\ Len(m.args) = 1
        <5>1. m.args[1] \in Strings
          BY <3>3, <4>1, ElementOfSeq
        <5> QED
          BY <4>1, <5>1 DEF GetValue, ArgumentIf
      <4>2. CASE ~(m.type \in {"PUSH", "DATA"} /\ Len(m.args) = 1)
        BY <4>2, EmptySeq DEF GetValue, ArgumentIf, Strings
      <4> QED
        BY <4>1, <4>2
    <3> DEFINE printed == IF m.type = "DATA" THEN GetValue(m) ELSE w.client.printed
               stale == w.client.stale \/ w.down.reader = "eof"
    <3>5. printed \in Strings \union {NoLine} /\ stale \in BOOLEAN
      BY <1>3, <3>4 DEF ClientRecord
    <3>6. v.client = [w.client EXCEPT !.pc = "send", !.step = @ + 1,
                                      !.stale = stale, !.printed = printed]
      BY <3>1 DEF Advanced
    <3> HIDE DEF printed, stale
    <3>7. v.client \in ClientRecord
      <4>1. w.client.step + 1 \in 1 .. 4
        BY <3>2
      <4> QED
        BY <1>3, <3>5, <3>6, <4>1 DEF ClientRecord
    <3> QED
      BY <1>3, <2>6, <3>7 DEF Goes, ServerStays
  <2>7. CASE Accepts(w, v) \/ Closes(w, v) \/ AwaitsRequest(w, v) \/ ServerGoes(w, v)
    BY <1>3, <2>7 DEF Accepts, Closes, AwaitsRequest, ServerGoes, ClientStays, SessionRecord
  <2>8. CASE Handles(w, v)
    BY <1>3, <2>8 DEF Handles, Answered, ClientStays
  <2> QED
    BY <2>4, <2>5, <2>6, <2>7, <2>8 DEF Evolves
<1> QED
  BY <1>1, <1>2, <1>9 DEF TypesOK

-----------------------------------------------------------------------------
(* The ends of the pipes after a call.                                     *)

SameEnds(p, q) == q.writer = p.writer /\ (Deserted(q) <=> Deserted(p))

LEMMA CallEnds ==
    ASSUME NEW p \in Pipe, NEW msg \in Strings
    PROVE  /\ SameEnds(p, CallWrite(p, msg)) /\ CallWrite(p, msg).out = msg
           /\ CallWrite(p, msg).reader = p.reader
BY DEF Pipe, CallWrite, SameEnds, Deserted

LEMMA WritingEnds ==
    ASSUME NEW p \in Pipe, NEW q, GoesOnWriting(p, q)
    PROVE  /\ SameEnds(p, q) /\ p.writer = "open" /\ p.out # <<>>
           /\ ~Deserted(p) => q.reader = p.reader
<1>1. ASSUME NEW n \in 1 .. Len(p.out), CanWrite(p, n), q = Write(p, n)
      PROVE  /\ SameEnds(p, q) /\ p.writer = "open" /\ q.reader = p.reader /\ p.out # <<>>
  <2>1. p.out # <<>>
    BY EmptyIsSeq
  <2> QED
    BY <1>1, <2>1 DEF Pipe, CanWrite, Write, SameEnds, Deserted
<1>2. ASSUME CanWriteInVain(p), q = WriteInVain(p)
      PROVE  SameEnds(p, q) /\ p.writer = "open" /\ Deserted(p) /\ p.out # <<>>
  BY <1>2 DEF Pipe, CanWriteInVain, WriteInVain, SameEnds, Deserted
<1> QED
  BY <1>1, <1>2 DEF GoesOnWriting

LEMMA HungEnds ==
    ASSUME NEW p \in Pipe, NEW how
    PROVE  /\ Hung(p, how).writer = how /\ Hung(p, how).out = <<>>
           /\ Hung(p, how).reader = p.reader
           /\ (Deserted(Hung(p, how)) <=> Deserted(p))
BY DEF Pipe, Hung, Deserted

LEMMA LeftEnds ==
    ASSUME NEW p \in Pipe
    PROVE  Deserted(Left(p)) /\ Left(p).writer = p.writer /\ Left(p).out = p.out
BY DEF Pipe, Left, Deserted

LEMMA ReadLineEnds ==
    ASSUME NEW p, FlowOK(p), CanReadLine(p)
    PROVE  /\ SameEnds(p, ReadLine(p)) /\ ReadLine(p).out = p.out
           /\ ReadLine(p).reader \in {"reading", "line"}
<1> DEFINE q == [p EXCEPT !.line = <<>>]
<1>1. q \in Pipe /\ Unfinished(q.line) /\ q.out = p.out /\ q.writer = p.writer
  BY StartsReading DEF FlowOK, PipeOK, Pipe
<1>2. ReadLine(p) = Filled(q)
  BY DEF ReadLine
<1> HIDE DEF q
<1>3. /\ Filled(q).out = q.out /\ Filled(q).writer = q.writer
      /\ Filled(q).reader \in {"reading", "line"}
  BY <1>1, FilledIs
<1> QED
  BY <1>1, <1>2, <1>3 DEF CanReadLine, SameEnds, Deserted

LEMMA ReadsEnds ==
    ASSUME NEW p, FlowOK(p), NEW q, Reads(p, q)
    PROVE  /\ SameEnds(p, q) /\ q.out = p.out /\ p.reader = "reading"
           /\ q.reader \in {"reading", "line", "eof", "error"}
<1>1. ASSUME NEW n \in 1 .. Len(p.wire), CanRefill(p, n), q = Refill(p, n)
      PROVE  /\ SameEnds(p, q) /\ q.out = p.out /\ p.reader = "reading"
             /\ q.reader \in {"reading", "line"}
  <2> DEFINE r == [p EXCEPT !.rbuf = First(p.wire, n), !.wire = Rest(@, n)]
  <2>1. r \in Pipe /\ Unfinished(r.line) /\ r.out = p.out /\ r.writer = p.writer
    BY <1>1, GoesOnReading DEF FlowOK, PipeOK, Pipe
  <2>2. q = Filled(r)
    BY <1>1 DEF Refill
  <2> HIDE DEF r
  <2>3. /\ Filled(r).out = r.out /\ Filled(r).writer = r.writer
        /\ Filled(r).reader \in {"reading", "line"}
    BY <2>1, FilledIs
  <2> QED
    BY <1>1, <2>1, <2>2, <2>3 DEF CanRefill, SameEnds, Deserted
<1>2. ASSUME MeetsEnd(p), q = MeetEnd(p)
      PROVE  /\ SameEnds(p, q) /\ q.out = p.out /\ p.reader = "reading"
             /\ q.reader \in {"line", "eof", "error"}
  BY <1>2 DEF MeetsEnd, MeetEnd, SameEnds, Deserted, FlowOK, PipeOK, Pipe
<1> QED
  BY <1>1, <1>2 DEF Reads

LEMMA ConnPipes ==
    ASSUME NEW w, ConnOK(w)
    PROVE  /\ w.up \in Pipe /\ w.down \in Pipe /\ FlowOK(w.up) /\ FlowOK(w.down)
           /\ w.client \in ClientRecord /\ w.session \in SessionRecord
           /\ w.link \in {"none", "queued", "accepted"} /\ EndsOK(w) /\ PlacesOK(w)
BY DEF ConnOK, TypesOK, FlowOK, PipeOK

LEMMA NewPipeEnds ==
    /\ NewPipe.writer = "open" /\ ~Deserted(NewPipe)
    /\ NewPipe.reader = "idle" /\ NewPipe.out = <<>>
BY DEF NewPipe, Deserted

LEMMA EvolvesEnds ==
    ASSUME NEW k \in Command, NEW w, NEW v, ConnOK(w), Evolves(k, w, v)
    PROVE  EndsOK(v) /\ PlacesOK(v)
<1>0. /\ w.up \in Pipe /\ w.down \in Pipe /\ FlowOK(w.up) /\ FlowOK(w.down)
      /\ w.client \in ClientRecord /\ w.session \in SessionRecord
      /\ w.link \in {"none", "queued", "accepted"} /\ EndsOK(w) /\ PlacesOK(w)
  BY ConnPipes
<1>1. CASE v = w
  BY <1>0, <1>1
<1>2. CASE Dials(w, v)
  BY <1>0, <1>2, NewPipeEnds
  DEF Dials, EndsOK, PlacesOK, Alive, Attached, ClientStays, Serving
<1>3. CASE Exits(w, v)
  <2>1. /\ v.client.result # "none" /\ v.client.pc = w.client.pc
        /\ v.client.step = w.client.step /\ v.link = w.link /\ v.session = w.session
    BY <1>0, <1>3 DEF Exits, ServerStays, ClientRecord
  <2>2. CASE w.link = "none"
    BY <1>0, <1>3, <2>1, <2>2 DEF Exits, EndsOK, PlacesOK, Alive, Attached
  <2>3. CASE w.link # "none"
    <3>1. /\ v.up.writer \in {"closed", "reset"} /\ v.up.reader = w.up.reader
          /\ (Deserted(v.up) <=> Deserted(w.up))
          /\ Deserted(v.down) /\ v.down.writer = w.down.writer
          /\ v.down.out = w.down.out
      BY <1>0, <1>3, <2>3, HungEnds, LeftEnds DEF Exits, Reset
    <3> QED
      BY <1>0, <2>1, <2>3, <3>1 DEF EndsOK, PlacesOK, Alive, Attached
  <2> QED
    BY <2>2, <2>3
<1>4. CASE SendsRequest(k, w, v)
  <2>1. Encode(RequestOf(k, w.client.step)) \in Strings
    BY <1>0, RequestTyped DEF ClientRecord
  <2>2. SameEnds(w.up, v.up) /\ v.up.reader = w.up.reader
    BY <1>0, <1>4, <2>1, CallEnds DEF SendsRequest
  <2>3. /\ v.client.result = w.client.result /\ v.client.pc = "write"
        /\ v.link = w.link /\ v.session = w.session /\ v.down = w.down /\ w.link # "none"
    BY <1>0, <1>4 DEF SendsRequest, ServerStays, ClientRecord
  <2> QED
    BY <1>0, <2>2, <2>3 DEF EndsOK, PlacesOK, Alive, Attached, SameEnds
<1>5. CASE ClientMoves(w, v)
  <2>1. /\ v.client = w.client /\ v.link = w.link /\ v.session = w.session
        /\ Alive(w) /\ w.link # "none"
    BY <1>0, <1>5 DEF ClientMoves, ServerStays, ClientStays, EndsOK
  <2>2. CASE w.client.pc = "write" /\ GoesOnWriting(w.up, v.up) /\ v.down = w.down
    <3>1. SameEnds(w.up, v.up) /\ (~Deserted(w.up) => v.up.reader = w.up.reader)
      BY <1>0, <2>2, WritingEnds
    <3>2. Attached(w) => ~Deserted(w.up)
      BY <1>0, <2>1 DEF EndsOK
    <3>3. w.session.pc \in {"read", "write", "last"} => Attached(w)
      BY DEF Attached, Serving
    <3>4. w.link = "queued" /\ w.session.pc = "none" => Attached(w)
      BY DEF Attached
    <3> QED
      BY <1>0, <2>1, <2>2, <3>1, <3>2, <3>3, <3>4
      DEF EndsOK, PlacesOK, Alive, Attached, SameEnds
  <2>3. CASE w.client.pc = "read" /\ Reads(w.down, v.down) /\ v.up = w.up
    <3>1. SameEnds(w.down, v.down) /\ v.down.out = w.down.out
      BY <1>0, <2>3, ReadsEnds
    <3> QED
      BY <1>0, <2>1, <2>3, <3>1 DEF EndsOK, PlacesOK, Alive, Attached, SameEnds
  <2> QED
    BY <1>5, <2>2, <2>3 DEF ClientMoves
<1>6. CASE AwaitsReply(w, v)
  <2>1. SameEnds(w.down, v.down) /\ v.down.out = w.down.out
    BY <1>0, <1>6, ReadLineEnds DEF AwaitsReply
  <2>2. /\ v.client.result = w.client.result /\ v.client.pc = "read"
        /\ v.client.step = w.client.step /\ v.client.step <= 3
        /\ v.link = w.link /\ v.session = w.session /\ v.up = w.up /\ w.link # "none"
    BY <1>0, <1>6 DEF AwaitsReply, ServerStays, ClientRecord, EndsOK
  <2> QED
    BY <1>0, <2>1, <2>2 DEF EndsOK, PlacesOK, Alive, Attached, SameEnds
<1>7. CASE Goes(k, w, v)
  <2>1. /\ v.client.result = w.client.result /\ v.client.pc = "send"
        /\ v.link = w.link /\ v.session = w.session /\ v.up = w.up /\ w.link # "none"
    BY <1>0, <1>7 DEF Goes, Advanced, ServerStays, ClientRecord, EndsOK, Alive
  <2>2. SameEnds(w.down, v.down) /\ v.down.out = w.down.out
    BY <1>0, <1>7 DEF Goes, SameEnds, Deserted, Pipe
  <2> QED
    BY <1>0, <2>1, <2>2 DEF EndsOK, PlacesOK, Alive, Attached, SameEnds
<1>8. CASE Accepts(w, v)
  <2>1. CASE /\ v.session = [w.session EXCEPT !.pc = "read"]
             /\ v.up = ReadLine(w.up) /\ v.down = w.down
    <3>1. CanReadLine(w.up)
      BY <1>0, <1>8 DEF Accepts, PlacesOK, CanReadLine
    <3>2. SameEnds(w.up, v.up) /\ v.up.reader \in {"reading", "line"}
      BY <1>0, <2>1, <3>1, ReadLineEnds
    <3>3. v.session.pc = "read" /\ v.client = w.client /\ v.link = "accepted"
      BY <1>0, <1>8, <2>1 DEF Accepts, ClientStays, SessionRecord
    <3> QED
      BY <1>0, <1>8, <2>1, <3>2, <3>3
      DEF Accepts, EndsOK, PlacesOK, Alive, Attached, SameEnds, Serving
  <2>2. CASE v.session = [w.session EXCEPT !.pc = "ended"] /\ ServerLeaves(w, v)
    <3>1. /\ Deserted(v.up) /\ v.up.writer = w.up.writer
          /\ v.down.writer \in {"closed", "reset"} /\ v.down.reader = w.down.reader
          /\ (Deserted(v.down) <=> Deserted(w.down))
      BY <1>0, <2>2, HungEnds, LeftEnds DEF ServerLeaves, Reset
    <3>2. v.session.pc = "ended" /\ v.client = w.client /\ v.link = "accepted"
      BY <1>0, <1>8, <2>2 DEF Accepts, ClientStays, SessionRecord
    <3> QED
      BY <1>0, <1>8, <3>1, <3>2 DEF Accepts, EndsOK, PlacesOK, Alive, Attached, Serving
  <2> QED
    BY <1>8, <2>1, <2>2 DEF Accepts
<1>9. CASE SessionMoves(w, v)
  <2>1. /\ v.client = w.client /\ v.link = w.link /\ v.session = w.session
        /\ w.link # "none"
    BY <1>0, <1>9 DEF SessionMoves, ServerStays, ClientStays, EndsOK
  <2>2. CASE w.session.pc = "read" /\ Reads(w.up, v.up) /\ v.down = w.down
    <3>1. /\ SameEnds(w.up, v.up)
          /\ v.up.reader \in {"reading", "line", "eof", "error"}
      BY <1>0, <2>2, ReadsEnds
    <3> QED
      BY <1>0, <2>1, <2>2, <3>1 DEF EndsOK, PlacesOK, Alive, Attached, SameEnds
  <2>3. CASE /\ w.session.pc \in {"write", "last"}
             /\ GoesOnWriting(w.down, v.down) /\ v.up = w.up
    <3>1. SameEnds(w.down, v.down)
      BY <1>0, <2>3, WritingEnds
    <3> QED
      BY <1>0, <2>1, <2>3, <3>1 DEF EndsOK, PlacesOK, Alive, Attached, SameEnds
  <2> QED
    BY <1>9, <2>2, <2>3 DEF SessionMoves
<1>10. CASE Closes(w, v) \/ ServerGoes(w, v)
  <2>1. /\ v.session.pc = "ended" /\ v.client = w.client /\ v.link = w.link
    BY <1>0, <1>10 DEF Closes, ServerGoes, ClientStays, SessionRecord
  <2>2. CASE Attached(w)
    <3>0. ServerLeaves(w, v) /\ w.link # "none"
      BY <1>0, <1>10, <2>2 DEF Closes, ServerGoes, Attached, EndsOK, Serving
    <3>1. /\ Deserted(v.up) /\ v.up.writer = w.up.writer
          /\ v.down.writer \in {"closed", "reset"} /\ v.down.reader = w.down.reader
          /\ (Deserted(v.down) <=> Deserted(w.down))
      BY <1>0, <3>0, HungEnds, LeftEnds DEF ServerLeaves, Reset
    <3> QED
      BY <1>0, <2>1, <3>0, <3>1 DEF EndsOK, PlacesOK, Alive, Attached, Serving
  <2>3. CASE ~Attached(w)
    <3>1. v.up = w.up /\ v.down = w.down
      BY <1>10, <2>3 DEF Closes, ServerGoes, Attached, Serving
    <3> QED
      BY <1>0, <2>1, <2>3, <3>1 DEF EndsOK, PlacesOK, Alive, Attached, Serving
  <2> QED
    BY <2>2, <2>3
<1>11. CASE Handles(w, v)
  <2>1. PICK a : Answered(w, v, Decode(w.up.line), a)
    BY <1>11 DEF Handles
  <2>2. Encode(a) \in Strings
    BY <2>1, AnswerTyped DEF Answered
  <2>3. SameEnds(w.down, v.down)
    BY <1>0, <2>1, <2>2, CallEnds DEF Answered
  <2>4. /\ v.session.pc \in {"write", "last"} /\ w.session.pc = "read" /\ v.up = w.up
        /\ v.client = w.client /\ v.link = w.link /\ w.up.reader = "line"
    BY <2>1 DEF Answered, ClientStays
  <2> QED
    BY <1>0, <2>3, <2>4 DEF EndsOK, PlacesOK, Alive, Attached, SameEnds, Serving
<1>12. CASE AwaitsRequest(w, v)
  <2>1. CanReadLine(w.up)
    BY <1>0, <1>12 DEF AwaitsRequest, PlacesOK, CanReadLine
  <2>2. SameEnds(w.up, v.up) /\ v.up.reader \in {"reading", "line"}
    BY <1>0, <1>12, <2>1, ReadLineEnds DEF AwaitsRequest
  <2>3. /\ v.session.pc = "read" /\ w.session.pc = "write" /\ v.client = w.client
        /\ v.link = w.link /\ v.down = w.down /\ w.down.out = <<>>
    BY <1>0, <1>12 DEF AwaitsRequest, ClientStays, SessionRecord
  <2> QED
    BY <1>0, <2>2, <2>3 DEF EndsOK, PlacesOK, Alive, Attached, SameEnds, Serving
<1> QED
  BY <1>1, <1>2, <1>3, <1>4, <1>5, <1>6, <1>7, <1>8, <1>9, <1>10, <1>11, <1>12 DEF Evolves

LEMMA ConnStep ==
    ASSUME NEW k \in Command, NEW w, NEW v, ConnOK(w), Evolves(k, w, v)
    PROVE  ConnOK(v)
BY EvolvesTyped, EvolvesEnds DEF ConnOK

-----------------------------------------------------------------------------
(* The invariant of the whole system, as far as shapes go.                 *)

StagesFit ==
    \A c \in Clients :
        /\ At(c, {"ended"}) <=> ~Alive(Conn(c))
        /\ At(c, {"open"}) => link[c] # "none"
        /\ sessions[c].pc = "ended" /\ ~At(Server, {"ended"}) => link[c] = "accepted"

DataOK ==
    /\ commands \in CommandLines
    /\ DOMAIN clients = Clients /\ DOMAIN up = Clients /\ DOMAIN down = Clients
    /\ \A t \in DOMAIN store : store[t] \in Short
    /\ spent \in [faults : 0 .. MaxFaults, cuts : 0 .. MaxCuts]

ConnsOK == \A c \in Clients : ConnOK(Conn(c))

ConnInv == SocketInv /\ StagesFit /\ DataOK /\ ConnsOK

\* Every step is one of these for each connection.
Evolve(c) == Evolves(commands[c], Conn(c), Conn(c)')

OthersStay(c) == \A d \in Clients \ {c} : Conn(d)' = Conn(d)

LEMMA CommandIs == ASSUME DataOK, NEW c \in Clients PROVE commands[c] \in Command
BY CommandsAssumption DEF DataOK, Command, Strings

LEMMA ByOne ==
    ASSUME NEW c \in Clients, OthersStay(c), Evolve(c)
    PROVE  \A d \in Clients : Evolve(d)
BY DEF OthersStay, Evolve, Evolves

LEMMA ConnIs ==
    \A c : /\ Conn(c).client = clients[c] /\ Conn(c).link = link[c]
           /\ Conn(c).session = sessions[c] /\ Conn(c).up = up[c] /\ Conn(c).down = down[c]
           /\ Conn(c)'.client = clients'[c] /\ Conn(c)'.link = link'[c]
           /\ Conn(c)'.session = sessions'[c] /\ Conn(c)'.up = up'[c]
           /\ Conn(c)'.down = down'[c]
BY DEF Conn

LEMMA Domains ==
    ASSUME ConnInv
    PROVE  /\ DOMAIN clients = Clients /\ DOMAIN up = Clients /\ DOMAIN down = Clients
           /\ DOMAIN link = Clients /\ DOMAIN sessions = Clients
           /\ \A c \in Clients : ConnOK(Conn(c)) /\ commands[c] \in Command
BY CommandIs DEF ConnInv, DataOK, SocketInv, SocketsTyped, ConnsOK

LEMMA OpensEvolve ==
    ASSUME ConnInv, NEW p \in Processes, Opens(p)
    PROVE  \A d \in Clients : Evolve(d)
<1>1. UNCHANGED <<clients, sessions, up, down>>
  BY DEF Opens
<1>2. CASE link' = link
  BY <1>1, <1>2 DEF Evolve, Evolves, Conn
<1>3. CASE link' # link
  <2>1. /\ p \in Clients /\ At(p, {"establish"}) /\ At(Server, {"open"})
        /\ link' = [link EXCEPT ![p] = "queued"]
    BY <1>3 DEF Opens, Lookup, Socket, Establish, CloseFailed, Listen
  <2>2. link[p] = "none"
    BY <2>1, Unconnected DEF At, ConnInv
  <2>3. ~At(p, {"ended"}) /\ ~At(Server, {"ended"})
    BY <2>1 DEF At
  <2>4. Alive(Conn(p)) /\ sessions[p].pc # "ended"
    BY <2>1, <2>2, <2>3 DEF ConnInv, StagesFit
  <2>5. sessions[p].pc = "none"
    BY <2>1, <2>2, <2>4, ConnIs, Domains DEF ConnOK, EndsOK
  <2>6. Dials(Conn(p), Conn(p)')
    BY <1>1, <2>1, <2>2, <2>4, <2>5, ConnIs, Domains DEF Dials, ClientStays
  <2>7. OthersStay(p)
    BY <1>1, <2>1, Domains DEF OthersStay, Conn
  <2> QED
    BY <2>1, <2>6, <2>7, ByOne DEF Evolve, Evolves
<1> QED
  BY <1>2, <1>3

LEMMA ExitsEvolve ==
    ASSUME ConnInv, NEW c \in Clients, NEW result \in Results \ {"none"}, Exit(c, result),
           Quits(Conn(c), result), Alive(Conn(c)), UNCHANGED <<link, sessions>>
    PROVE  \A d \in Clients : Evolve(d)
<1>1. clients' = [clients EXCEPT ![c] = [clients[c] EXCEPT !.result = result]]
  BY DEF Exit
<1>2. OthersStay(c)
  BY <1>1, Domains DEF OthersStay, Conn, Exit
<1>3. Exits(Conn(c), Conn(c)')
  <2>1. clients'[c] = [clients[c] EXCEPT !.result = result]
    BY <1>1, Domains
  <2>2. CASE link[c] = "none"
    <3>1. Conn(c)'.client = [Conn(c).client EXCEPT !.result = result]
      BY <2>1, ConnIs
    <3>2. Conn(c)'.link = Conn(c).link /\ Conn(c)'.session = Conn(c).session
      BY ConnIs
    <3>3. Conn(c)'.up = Conn(c).up /\ Conn(c)'.down = Conn(c).down
      BY <2>2, ConnIs DEF Exit
    <3> QED
      BY <2>2, <3>1, <3>2, <3>3, ConnIs DEF Exits, ServerStays
  <2>3. CASE link[c] # "none"
    <3>1. up'[c] = Hung(up[c], Reset(down[c])) /\ down'[c] = Left(down[c])
      BY <2>3, Domains DEF Exit
    <3>2. Conn(c)'.client = [Conn(c).client EXCEPT !.result = result]
      BY <2>1, ConnIs
    <3>3. Conn(c)'.link = Conn(c).link /\ Conn(c)'.session = Conn(c).session
      BY ConnIs
    <3>4. /\ Conn(c)'.up = Hung(Conn(c).up, Reset(Conn(c).down))
          /\ Conn(c)'.down = Left(Conn(c).down)
      BY <3>1, ConnIs
    <3> QED
      BY <2>3, <3>2, <3>3, <3>4, ConnIs DEF Exits, ServerStays
  <2> QED
    BY <2>2, <2>3
<1> QED
  BY <1>2, <1>3, ByOne DEF Evolve, Evolves

LEMMA RepliesAre == \A c : Replies(c) = RepliesOf(commands[c], Conn(c))
BY RequestIs DEF Replies, RepliesOf, Conn

LEMMA ClientsEvolve ==
    ASSUME ConnInv, NEW c \in Clients, Client(c)
    PROVE  \A d \in Clients : Evolve(d)
<1> DEFINE k == commands[c]
           w == Conn(c)
           v == Conn(c)'
<1>0. /\ k \in Command /\ ConnOK(w) /\ w.client \in ClientRecord /\ EndsOK(w) /\ PlacesOK(w)
      /\ w.client.step \in 1 .. 4
  BY Domains, ConnPipes DEF ClientRecord
<1>1. CASE Opens(c)
  BY <1>1, OpensEvolve DEF Processes
<1>2. ASSUME NEW pc, Running(c, pc)
      PROVE  Alive(w) /\ w.client.pc = pc /\ (pc # "send" => link[c] # "none")
  BY <1>0, <1>2, ConnIs DEF Running, Alive, EndsOK
<1>3. ASSUME NEW r \in Results \ {"none"}, Exit(c, r), Quits(w, r), Alive(w), ClientDoes
      PROVE  \A d \in Clients : Evolve(d)
  BY <1>3, ExitsEvolve DEF ClientDoes
<1>4. CASE Unencodable(c) \/ NoConnection(c) \/ ClientBreaksPipe(c)
  <2>1. PICK r \in {"aborted", "io error", "killed"} :
          /\ Exit(c, r) /\ ClientDoes /\ (r # "killed" => Running(c, "send"))
          /\ Running(c, "send") \/ Running(c, "write")
    BY <1>4 DEF Unencodable, NoConnection, ClientBreaksPipe
  <2>2. Quits(w, r) /\ Alive(w) /\ r \in Results \ {"none"}
    BY <1>2, <2>1 DEF Quits, Results
  <2> QED
    BY <1>3, <2>1, <2>2
<1>5. CASE Bye(c)
  <2>1. /\ w.client.pc = "write" /\ w.up.out = <<>> /\ Alive(w)
        /\ RequestOf(k, w.client.step).type = "BYE" /\ Exit(c, "done") /\ ClientDoes
    BY <1>2, <1>5, RequestIs, ConnIs DEF Bye
  <2>2. w.client.step = 4
    BY <1>0, <2>1, RequestTyped
  <2>3. Quits(w, "done") /\ "done" \in Results \ {"none"}
    BY <2>1, <2>2 DEF Quits, Results
  <2> QED
    BY <1>3, <2>1, <2>3
<1>6. CASE GiveUp(c) \/ Abort(c) \/ ReadFails(c)
  <2>1. PICK r \in {"failed", "aborted", "io error"} :
          /\ Exit(c, r) /\ ClientDoes /\ Running(c, "read")
          /\ Replies(c) # {} \/ down[c].reader = "error"
    BY <1>6 DEF GiveUp, Abort, ReadFails
  <2>2. w.down.reader \in {"line", "eof", "error"}
    BY <2>1, ConnIs DEF Replies
  <2>3. Quits(w, r) /\ Alive(w) /\ r \in Results \ {"none"}
    BY <1>2, <2>1, <2>2 DEF Quits, Results
  <2> QED
    BY <1>3, <2>1, <2>3
<1>7. CASE SendRequest(c)
  <2>1. link[c] # "none"
    BY <1>7 DEF SendRequest, ConnInv, StagesFit
  <2>2. SendsRequest(k, w, v)
    BY <1>2, <1>7, <2>1, RequestIs, ConnIs, Domains
    DEF SendRequest, SendsRequest, ServerStays, ClientDoes, sockets
  <2>3. OthersStay(c)
    BY <1>7, Domains DEF SendRequest, OthersStay, Conn, ClientDoes, sockets
  <2> QED
    BY <2>2, <2>3, ByOne DEF Evolve, Evolves
<1>8. CASE ClientWrites(c)
  <2>1. GoesOnWriting(up[c], up'[c])
    BY <1>8, Domains DEF ClientWrites, GoesOnWriting
  <2>2. ClientMoves(w, v)
    BY <1>2, <1>8, <2>1, ConnIs
    DEF ClientWrites, ClientMoves, ServerStays, ClientStays, ClientDoes
  <2>3. OthersStay(c)
    BY <1>8, Domains DEF ClientWrites, OthersStay, Conn, ClientDoes, sockets
  <2> QED
    BY <2>2, <2>3, ByOne DEF Evolve, Evolves
<1>9. CASE AwaitReply(c)
  <2>1. w.client.step <= 3
    <3>1. RequestOf(k, w.client.step).type # "BYE"
      BY <1>9, RequestIs, ConnIs DEF AwaitReply
    <3> QED
      BY <1>0, <3>1, RequestTyped
  <2>2. AwaitsReply(w, v)
    BY <1>2, <1>9, <2>1, ConnIs, Domains DEF AwaitReply, AwaitsReply, ServerStays, ClientDoes
  <2>3. OthersStay(c)
    BY <1>9, Domains DEF AwaitReply, OthersStay, Conn, ClientDoes, sockets
  <2> QED
    BY <2>2, <2>3, ByOne DEF Evolve, Evolves
<1>10. CASE ClientReads(c)
  <2>1. Reads(down[c], down'[c])
    BY <1>10, Domains DEF ClientReads, Reads
  <2>2. ClientMoves(w, v)
    BY <1>2, <1>10, <2>1, ConnIs
    DEF ClientReads, ClientMoves, ServerStays, ClientStays, ClientDoes
  <2>3. OthersStay(c)
    BY <1>10, Domains DEF ClientReads, OthersStay, Conn, ClientDoes, sockets
  <2> QED
    BY <2>2, <2>3, ByOne DEF Evolve, Evolves
<1>11. CASE Go(c)
  <2>1. Wanted(c) = WantedOf(k, w.client.step)
    BY RequestIs, ConnIs DEF Wanted, WantedOf
  <2>2. PICK m \in Replies(c) :
          /\ m.type = Wanted(c)
          /\ clients' = [clients EXCEPT ![c] = Advanced(@, m, down[c].reader = "eof")]
    BY <1>11 DEF Go
  <2>3. clients'[c] = Advanced(clients[c], m, down[c].reader = "eof")
    BY <2>2, Domains
  <2>4. down'[c] = IF Wanted(c) = "OK" THEN [down[c] EXCEPT !.rbuf = <<>>] ELSE down[c]
    <3>1. down' = [down EXCEPT ![c] = [down[c] EXCEPT
                       !.rbuf = IF Wanted(c) = "OK" THEN <<>> ELSE down[c].rbuf]]
      BY <1>11 DEF Go
    <3>2. down'[c] = [down[c] EXCEPT !.rbuf = IF Wanted(c) = "OK" THEN <<>> ELSE down[c].rbuf]
      BY <3>1, Domains
    <3>3. [down[c] EXCEPT !.rbuf = down[c].rbuf] = down[c]
      BY <1>0, ConnIs, ConnPipes DEF Pipe
    <3> QED
      BY <3>2, <3>3
  <2>5. m \in RepliesOf(k, w) /\ Alive(w) /\ w.client.pc = "read"
    BY <1>2, <1>11, <2>2, RepliesAre DEF Go
  <2>6. Goes(k, w, v)
    <3>1. v.client = Advanced(w.client, m, w.down.reader = "eof")
      BY <2>3, ConnIs
    <3>2. /\ v.down = IF WantedOf(k, w.client.step) = "OK"
                        THEN [w.down EXCEPT !.rbuf = <<>>] ELSE w.down
          /\ m.type = WantedOf(k, w.client.step)
      BY <2>1, <2>2, <2>4, ConnIs
    <3>3. ServerStays(w, v) /\ v.up = w.up
      BY <1>11, ConnIs DEF Go, ServerStays, ClientDoes
    <3> HIDE DEF k, w, v
    <3> QED
      BY <2>5, <3>1, <3>2, <3>3 DEF Goes
  <2>7. OthersStay(c)
    BY <1>11, Domains DEF Go, OthersStay, Conn, ClientDoes, sockets
  <2> QED
    BY <2>6, <2>7, ByOne DEF Evolve, Evolves
<1> QED
  BY <1>1, <1>4, <1>5, <1>6, <1>7, <1>8, <1>9, <1>10, <1>11 DEF Client

-----------------------------------------------------------------------------
(* Steps of the server.                                                    *)

LEMMA ServerExitEvolves ==
    ASSUME ConnInv, NEW why, ServerExit(why)
    PROVE  \A d \in Clients : Evolve(d)
<1> SUFFICES ASSUME NEW c \in Clients PROVE ServerGoes(Conn(c), Conn(c)')
  BY DEF Evolve, Evolves
<1> DEFINE conns == Live \union {d \in Clients : link[d] = "queued"
                                                  /\ sessions[d].pc = "none"}
<1>1. c \in conns <=> Attached(Conn(c))
  BY ConnIs DEF Live, Attached, Serving
<1>2. HangUp(conns)
  BY DEF ServerExit
<1>5. sessions'[c] = [sessions[c] EXCEPT !.pc = "ended"] /\ UNCHANGED <<clients, link>>
  BY DEF ServerExit
<1> HIDE DEF conns
<1>3. CASE c \in conns
  <2>1. up'[c] = Left(up[c]) /\ down'[c] = Hung(down[c], Reset(up[c]))
    BY <1>2, <1>3 DEF HangUp
  <2> QED
    BY <1>1, <1>3, <1>5, <2>1, ConnIs DEF ServerGoes, ServerLeaves, ClientStays
<1>4. CASE c \notin conns
  <2>1. up'[c] = up[c] /\ down'[c] = down[c]
    BY <1>2, <1>4 DEF HangUp
  <2> QED
    BY <1>1, <1>4, <1>5, <2>1, ConnIs DEF ServerGoes, ClientStays
<1> QED
  BY <1>3, <1>4

LEMMA HangUpOne ==
    ASSUME ConnInv, NEW c \in Clients, HangUp({c})
    PROVE  /\ up'[c] = Left(up[c]) /\ down'[c] = Hung(down[c], Reset(up[c]))
           /\ \A d \in Clients \ {c} : up'[d] = up[d] /\ down'[d] = down[d]
BY DEF HangUp

LEMMA AcceptEvolves ==
    ASSUME ConnInv, NEW c \in Clients, Accept(c) \/ ThreadFails(c)
    PROVE  \A d \in Clients : Evolve(d)
<1>1. /\ link[c] = "queued" /\ link' = [link EXCEPT ![c] = "accepted"]
      /\ UNCHANGED clients /\ At(Server, {"open"})
  BY DEF Accept, ThreadFails, ServerDoes
<1>2. sessions[c].pc = "none"
  <2>1. sessions[c].pc \in {"none", "ended"}
    BY <1>1, ConnIs, Domains DEF ConnOK, EndsOK
  <2>2. ~At(Server, {"ended"})
    BY <1>1 DEF At
  <2> QED
    BY <1>1, <2>1, <2>2 DEF ConnInv, StagesFit
<1>3. CASE Accept(c)
  <2>1. /\ sessions'[c] = [sessions[c] EXCEPT !.pc = "read"]
        /\ up'[c] = ReadLine(up[c]) /\ down' = down
    BY <1>3, Domains DEF Accept
  <2>2. Accepts(Conn(c), Conn(c)')
    BY <1>1, <1>2, <2>1, ConnIs, Domains DEF Accepts, ClientStays
  <2>3. OthersStay(c)
    BY <1>1, <1>3, Domains DEF Accept, OthersStay, Conn
  <2> QED
    BY <2>2, <2>3, ByOne DEF Evolve, Evolves
<1>4. CASE ThreadFails(c)
  <2>1. /\ sessions'[c] = [sessions[c] EXCEPT !.pc = "ended"]
        /\ up'[c] = Left(up[c]) /\ down'[c] = Hung(down[c], Reset(up[c]))
        /\ \A d \in Clients \ {c} : up'[d] = up[d] /\ down'[d] = down[d]
    BY <1>4, HangUpOne, Domains DEF ThreadFails
  <2>2. Accepts(Conn(c), Conn(c)')
    <3>1. Conn(c).link = "queued" /\ Conn(c).session.pc = "none"
      BY <1>1, <1>2, ConnIs
    <3>2. Conn(c)'.link = "accepted" /\ Conn(c)'.client = Conn(c).client
      BY <1>1, ConnIs, Domains
    <3>3. Conn(c)'.session = [Conn(c).session EXCEPT !.pc = "ended"]
      BY <2>1, ConnIs
    <3>4. /\ Conn(c)'.up = Left(Conn(c).up)
          /\ Conn(c)'.down = Hung(Conn(c).down, Reset(Conn(c).up))
      BY <2>1, ConnIs
    <3> QED
      BY <3>1, <3>2, <3>3, <3>4 DEF Accepts, ClientStays, ServerLeaves
  <2>3. OthersStay(c)
    BY <1>1, <1>4, <2>1, Domains DEF ThreadFails, OthersStay, Conn
  <2> QED
    BY <2>2, <2>3, ByOne DEF Evolve, Evolves
<1> QED
  BY <1>3, <1>4

LEMMA CloseEvolves ==
    ASSUME ConnInv, NEW c \in Clients, EndOfFile(c) \/ Return(c)
    PROVE  \A d \in Clients : Evolve(d)
<1>1. Close(c)
  BY DEF EndOfFile, Return
<1>2. /\ sessions'[c] = [sessions[c] EXCEPT !.pc = "ended"]
      /\ up'[c] = Left(up[c]) /\ down'[c] = Hung(down[c], Reset(up[c]))
      /\ \A d \in Clients \ {c} : up'[d] = up[d] /\ down'[d] = down[d]
      /\ UNCHANGED <<clients, link>>
  BY <1>1, HangUpOne, Domains DEF Close, ServerDoes
<1>3. Closes(Conn(c), Conn(c)')
  BY <1>2, ConnIs DEF Closes, ClientStays, ServerLeaves, EndOfFile, Return
<1>4. OthersStay(c)
  BY <1>1, <1>2, Domains DEF Close, OthersStay, Conn
<1> QED
  BY <1>3, <1>4, ByOne DEF Evolve, Evolves

\* What a handler answers, and what becomes of the session.
LEMMA StackOf ==
    ASSUME ConnInv, NEW c \in Clients
    PROVE  /\ sessions[c] \in SessionRecord /\ sessions[c].stack \in Seq(Short)
           /\ sessions[c].stack # <<>> =>
                 /\ Last(sessions[c].stack) \in Short
                 /\ Front(sessions[c].stack) \in Seq(Short)
<1>1. sessions[c] \in SessionRecord /\ sessions[c].stack \in Seq(Short)
  BY ConnIs, Domains DEF ConnOK, TypesOK, SessionRecord
<1> QED
  BY <1>1, LastOf

\* A request that has been read.
LEMMA RequestRead ==
    ASSUME ConnInv, NEW c \in Clients, up[c].reader = "line"
    PROVE  /\ Decode(up[c].line) \in Messages
           /\ GetValue(Decode(up[c].line)) \in Short
<1>1. up[c].line \in Strings /\ LineOK(up[c])
  BY ConnIs, ConnPipes, Domains DEF Pipe, Strings, FlowOK
<1>2. /\ Len(up[c].line) \in 1 .. MaxLine - 1
      /\ \A i \in 1 .. Len(up[c].line) - 1 : up[c].line[i] # Newline
  BY <1>1 DEF LineOK
<1>3. up[c].line # <<>> /\ Len(up[c].line) < MaxLine
  <2>1. Len(<<>>) = 0
    BY EmptyIsSeq
  <2> QED
    BY <1>2, <2>1, MaxLineAssumption
<1> QED
  BY <1>1, <1>2, <1>3, DecodeType, ValueShort DEF OneLine

LEMMA PushedTyped ==
    ASSUME NEW s \in SessionRecord, NEW y \in Short
    PROVE  Pushed(s, y) \in SessionRecord
<1>1. Append(s.stack, y) \in Seq(Short)
  BY AppendOf DEF SessionRecord
<1> QED
  BY <1>1 DEF Pushed, SessionRecord

\* The kinds of answers a message m gets.
LEMMA HandleIs ==
    ASSUME ConnInv, NEW c \in Clients, NEW m \in Messages, GetValue(m) \in Short,
           \/ Login(c, m) \/ Push(c, m) \/ Set(c, m) \/ Get(c, m) \/ Top(c, m)
           \/ LogOut(c, m) \/ Refuse(c, m)
    PROVE  \E a \in Answers, session \in SessionRecord, pc \in {"write", "last"} :
              /\ Answer(c, a, session, pc)
              /\ a = Error \/ m.type = "BYE" => pc = "last"
              /\ m = Invalid => a = Error
<1>0. /\ sessions[c] \in SessionRecord /\ sessions[c].stack \in Seq(Short)
      /\ sessions[c].stack # <<>> =>
            /\ Last(sessions[c].stack) \in Short
            /\ Front(sessions[c].stack) \in Seq(Short)
  BY StackOf
<1>1. Ok \in Answers /\ Failed \in Answers /\ Error \in Answers
      /\ Ok # Error /\ Failed # Error /\ \A y : Data(y) # Error
  BY DEF Answers, Ok, Failed, Error, Data, Message
<1>2. Invalid.type \notin Requests /\ Invalid.type = "invalid"
  BY DEF Invalid, Message, Requests
<1>3. CASE Login(c, m)
  <2>1. [sessions[c] EXCEPT !.loggedIn = TRUE] \in SessionRecord
    BY <1>0 DEF SessionRecord
  <2>2. /\ Answer(c, Ok, [sessions[c] EXCEPT !.loggedIn = TRUE], "write")
        /\ m.type = "LOGIN"
    BY <1>3 DEF Login, Asks
  <2> QED
    BY <1>1, <1>2, <2>1, <2>2
<1>4. CASE Push(c, m)
  <2>1. Pushed(sessions[c], GetValue(m)) \in SessionRecord
    BY <1>0, PushedTyped
  <2>2. Answer(c, Ok, Pushed(sessions[c], GetValue(m)), "write") /\ m.type = "PUSH"
    BY <1>4 DEF Push, Asks
  <2> QED
    BY <1>1, <1>2, <2>1, <2>2
<1>5. CASE Set(c, m)
  <2>1. m.type = "SET"
    BY <1>5 DEF Set, Asks
  <2>2. CASE Answer(c, Failed, sessions[c], "write")
    BY <1>0, <1>1, <1>2, <2>1, <2>2
  <2>3. CASE /\ sessions[c].stack # <<>>
             /\ Answer(c, Ok, [sessions[c] EXCEPT !.stack = Front(@)], "write")
    <3>1. [sessions[c] EXCEPT !.stack = Front(@)] \in SessionRecord
      BY <1>0, <2>3 DEF SessionRecord
    <3> QED
      BY <1>1, <1>2, <2>1, <2>3, <3>1
  <2> QED
    BY <1>5, <2>2, <2>3 DEF Set
<1>6. CASE Get(c, m)
  <2>1. m.type = "GET"
    BY <1>6 DEF Get, Asks
  <2>2. CASE Answer(c, Failed, sessions[c], "write")
    BY <1>0, <1>1, <1>2, <2>1, <2>2
  <2>3. CASE /\ Tuple(m) \in DOMAIN store
             /\ Answer(c, Ok, Pushed(sessions[c], store[Tuple(m)]), "write")
    <3>1. Pushed(sessions[c], store[Tuple(m)]) \in SessionRecord
      BY <1>0, <2>3, PushedTyped DEF ConnInv, DataOK
    <3> QED
      BY <1>1, <1>2, <2>1, <2>3, <3>1
  <2> QED
    BY <1>6, <2>2, <2>3 DEF Get
<1>7. CASE Top(c, m)
  <2>1. m.type = "TOP"
    BY <1>7 DEF Top, Asks
  <2>2. CASE Answer(c, Failed, sessions[c], "write")
    BY <1>0, <1>1, <1>2, <2>1, <2>2
  <2>3. CASE /\ sessions[c].stack # <<>>
             /\ Answer(c, Data(Last(sessions[c].stack)), sessions[c], "write")
    <3>1. Data(Last(sessions[c].stack)) \in Answers
      BY <1>0, <2>3 DEF Answers
    <3> QED
      BY <1>0, <1>1, <1>2, <2>1, <2>3, <3>1
  <2> QED
    BY <1>7, <2>2, <2>3 DEF Top, Data
<1>8. CASE LogOut(c, m)
  BY <1>0, <1>1, <1>2, <1>8 DEF LogOut, Asks
<1>9. CASE Refuse(c, m)
  BY <1>0, <1>1, <1>9 DEF Refuse
<1> QED
  BY <1>3, <1>4, <1>5, <1>6, <1>7, <1>8, <1>9

LEMMA HandlesEvolve ==
    ASSUME ConnInv, NEW c \in Clients, Handle(c)
    PROVE  \A d \in Clients : Evolve(d)
<1> DEFINE m == Decode(up[c].line)
<1>1. m \in Messages /\ GetValue(m) \in Short
  BY RequestRead DEF Handle
<1>2. \/ Login(c, m) \/ Push(c, m) \/ Set(c, m) \/ Get(c, m) \/ Top(c, m)
      \/ LogOut(c, m) \/ Refuse(c, m)
  BY DEF Handle
<1> HIDE DEF m
<1>3. PICK a \in Answers, session \in SessionRecord, pc \in {"write", "last"} :
          /\ Answer(c, a, session, pc)
          /\ a = Error \/ m.type = "BYE" => pc = "last"
          /\ m = Invalid => a = Error
  BY <1>1, <1>2, HandleIs
<1>4. /\ down'[c] = CallWrite(down[c], Encode(a))
      /\ sessions'[c] = [session EXCEPT !.pc = pc]
      /\ UNCHANGED <<clients, link, up>>
  BY <1>3, Domains DEF Answer
<1>5. sessions'[c] \in SessionRecord /\ sessions'[c].pc = pc
  BY <1>4 DEF SessionRecord
<1>6. Answered(Conn(c), Conn(c)', m, a)
  <2>1. sessions[c].pc = "read" /\ up[c].reader = "line"
    BY DEF Handle
  <2>2. /\ (a = Error \/ m.type = "BYE" => sessions'[c].pc = "last")
        /\ (m = Invalid => a = Error)
    BY <1>3, <1>5
  <2> DEFINE w == Conn(c)
             v == Conn(c)'
  <2>3. /\ w.session.pc = "read" /\ w.up.reader = "line" /\ a \in Answers
        /\ v.down = CallWrite(w.down, Encode(a))
        /\ v.session \in SessionRecord /\ v.session.pc \in {"write", "last"}
    BY <1>3, <1>4, <1>5, <2>1, ConnIs
  <2>4. v.client = w.client /\ v.link = w.link /\ v.up = w.up
    BY <1>4, ConnIs
  <2>6. v.session = sessions'[c]
    BY ConnIs
  <2> HIDE DEF w, v
  <2>5. Answered(w, v, m, a)
    BY <2>2, <2>3, <2>4, <2>6 DEF Answered, ClientStays
  <2> QED
    BY <2>5 DEF w, v
<1>7. Handles(Conn(c), Conn(c)')
  BY <1>6, ConnIs DEF Handles, m
<1>8. OthersStay(c)
  BY <1>3, Domains DEF Answer, OthersStay, Conn
<1> QED
  BY <1>7, <1>8, ByOne DEF Evolve, Evolves

LEMMA ThreadsEvolve ==
    ASSUME ConnInv, NEW c \in Clients, Thread(c)
    PROVE  \A d \in Clients : Evolve(d)
<1>1. CASE SessionReads(c)
  <2>1. Reads(up[c], up'[c])
    BY <1>1, Domains DEF SessionReads, Reads
  <2>2. SessionMoves(Conn(c), Conn(c)')
    BY <1>1, <2>1, ConnIs DEF SessionReads, SessionMoves, ServerStays, ClientStays, ServerDoes
  <2>3. OthersStay(c)
    BY <1>1, Domains DEF SessionReads, OthersStay, Conn, ServerDoes
  <2> QED
    BY <2>2, <2>3, ByOne DEF Evolve, Evolves
<1>2. CASE SessionWrites(c)
  <2>1. GoesOnWriting(down[c], down'[c])
    BY <1>2, Domains DEF SessionWrites, GoesOnWriting
  <2>2. SessionMoves(Conn(c), Conn(c)')
    BY <1>2, <2>1, ConnIs DEF SessionWrites, SessionMoves, ServerStays, ClientStays, ServerDoes
  <2>3. OthersStay(c)
    BY <1>2, Domains DEF SessionWrites, OthersStay, Conn, ServerDoes
  <2> QED
    BY <2>2, <2>3, ByOne DEF Evolve, Evolves
<1>3. CASE SessionReadFails(c) \/ SessionBreaksPipe(c)
  BY <1>3, ServerExitEvolves DEF SessionReadFails, SessionBreaksPipe
<1>4. CASE EndOfFile(c) \/ Return(c)
  BY <1>4, CloseEvolves
<1>5. CASE Handle(c)
  BY <1>5, HandlesEvolve
<1>6. CASE AwaitRequest(c)
  <2>1. AwaitsRequest(Conn(c), Conn(c)')
    BY <1>6, ConnIs, Domains DEF AwaitRequest, AwaitsRequest, ClientStays, ServerDoes
  <2>2. OthersStay(c)
    BY <1>6, Domains DEF AwaitRequest, OthersStay, Conn, ServerDoes
  <2> QED
    BY <2>1, <2>2, ByOne DEF Evolve, Evolves
<1> QED
  BY <1>1, <1>2, <1>3, <1>4, <1>5, <1>6 DEF Thread

LEMMA FaultsEvolve ==
    ASSUME ConnInv, Faults
    PROVE  \A d \in Clients : Evolve(d)
<1>1. CASE KillServer \/ AcceptFails
  BY <1>1, ServerExitEvolves DEF KillServer, AcceptFails
<1>2. ASSUME NEW c \in Clients, Kill(c)
      PROVE  \A d \in Clients : Evolve(d)
  <2>1. Exit(c, "killed") /\ UNCHANGED <<link, sessions>> /\ ~At(c, {"ended"})
    BY <1>2 DEF Kill, At
  <2>2. Alive(Conn(c)) /\ Quits(Conn(c), "killed") /\ "killed" \in Results \ {"none"}
    BY <2>1 DEF ConnInv, StagesFit, Quits, Results
  <2> QED
    BY <2>1, <2>2, ExitsEvolve
<1>3. ASSUME NEW c \in Clients, ThreadFails(c)
      PROVE  \A d \in Clients : Evolve(d)
  BY <1>3, AcceptEvolves
<1> QED
  BY <1>1, <1>2, <1>3 DEF Faults

LEMMA NextEvolves ==
    ASSUME ConnInv, [Next]_vars
    PROVE  \A d \in Clients : Evolve(d)
<1>1. CASE Opens(Server)
  BY <1>1, OpensEvolve DEF Processes
<1>2. CASE CannotListen
  BY <1>2, ServerExitEvolves DEF CannotListen
<1>3. ASSUME NEW c \in Clients, Accept(c) \/ Client(c) \/ Thread(c)
      PROVE  \A d \in Clients : Evolve(d)
  BY <1>3, AcceptEvolves, ClientsEvolve, ThreadsEvolve
<1>4. CASE Faults
  BY <1>4, FaultsEvolve
<1>5. ASSUME NEW c \in Clients, Start(c)
      PROVE  \A d \in Clients : Evolve(d)
  BY <1>5 DEF Start, ClientDoes, Evolve, Evolves, Conn
<1>6. CASE UNCHANGED vars
  BY <1>6 DEF vars, Evolve, Evolves, Conn
<1> QED
  BY <1>1, <1>2, <1>3, <1>4, <1>5, <1>6 DEF Next, Runs, Main

-----------------------------------------------------------------------------
(* The invariant is kept.                                                  *)

LEMMA ConnsKept ==
    ASSUME ConnInv, [Next]_vars PROVE ConnsOK'
<1>1. \A c \in Clients : commands[c] \in Command /\ ConnOK(Conn(c)) /\ Evolve(c)
  BY Domains, NextEvolves
<1>2. \A c \in Clients : ConnOK(Conn(c)')
  BY <1>1, ConnStep DEF Evolve
<1> QED
  BY <1>2 DEF ConnsOK

\* A process goes on in open_listenfd or open_clientfd, or starts.
Walks(p) ==
    \E at \in Stages \ {"unstarted", "ended"} :
        /\ \E a \in 1 .. Addresses :
              opening' = [opening EXCEPT ![p] = [at |-> at, address |-> a]]
        /\ ~At(p, {"ended"})
        /\ p \in Clients /\ at = "open" => link'[p] # "none"
        /\ \A c \in Clients : link[c] # "none" => link'[c] = link[c]
        /\ UNCHANGED <<clients, sessions>>

LEMMA OpensWalks ==
    ASSUME ConnInv, NEW p \in Processes, Opens(p)
    PROVE  Walks(p)
<1>1. SocketInv /\ DOMAIN link = Clients
  BY Domains DEF ConnInv
<1>2. PICK at \in Stages \ {"unstarted", "ended"} :
          /\ Goto(p, at) \/ (TryNext(p) /\ at = "socket")
          /\ p \in Clients /\ at = "open" => link'[p] # "none"
          /\ \A c \in Clients : link[c] # "none" => link'[c] = link[c]
  <2>1. CASE Lookup(p)
    BY <2>1 DEF Lookup, Stages
  <2>2. CASE Socket(p)
    BY <2>2 DEF Socket, Stages
  <2>3. CASE Establish(p)
    <3>1. p \in Clients => link[p] = "none"
      BY <1>1, <2>3, Unconnected DEF Establish, At
    <3>2. CASE Goto(p, "close") /\ UNCHANGED link
      BY <3>2 DEF Stages
    <3>3. CASE p = Server /\ Goto(p, "listen") /\ UNCHANGED link
      BY <3>3 DEF Stages
    <3>4. CASE /\ p \in Clients /\ Goto(p, "open")
               /\ link' = [link EXCEPT ![p] = "queued"]
      BY <1>1, <3>1, <3>4 DEF Stages
    <3> QED
      BY <2>3, <3>2, <3>3, <3>4 DEF Establish
  <2>4. CASE CloseFailed(p)
    BY <2>4 DEF CloseFailed, Stages
  <2>5. CASE p = Server /\ Listen
    BY <2>5, ClientsAssumption DEF Listen, Stages
  <2> QED
    BY <2>1, <2>2, <2>3, <2>4, <2>5 DEF Opens
<1>3. ~At(p, {"ended"}) /\ UNCHANGED <<clients, sessions>>
  BY DEF Opens, Lookup, Socket, Establish, CloseFailed, Listen, At
<1>4. CASE Goto(p, at)
  BY <1>1, <1>2, <1>3, <1>4, GotoStage DEF Walks
<1>5. CASE TryNext(p) /\ at = "socket"
  <2>1. PICK to \in {"socket", "failed"}, a \in 1 .. Addresses :
            opening' = [opening EXCEPT ![p] = [at |-> to, address |-> a]]
    BY <1>1, <1>5, TryNextStage
  <2>2. to \in Stages \ {"unstarted", "ended"} /\ to # "open"
    BY DEF Stages
  <2> QED
    BY <1>2, <1>3, <2>1, <2>2 DEF Walks
<1> QED
  BY <1>2, <1>4, <1>5

LEMMA WalkFits ==
    ASSUME ConnInv, NEW p \in Processes, Walks(p)
    PROVE  StagesFit'
<1>1. PICK at \in Stages \ {"unstarted", "ended"}, a \in 1 .. Addresses :
        /\ opening' = [opening EXCEPT ![p] = [at |-> at, address |-> a]]
        /\ ~At(p, {"ended"})
        /\ p \in Clients /\ at = "open" => link'[p] # "none"
        /\ \A c \in Clients : link[c] # "none" => link'[c] = link[c]
        /\ UNCHANGED <<clients, sessions>>
  BY DEF Walks
<1>2. /\ \A q \in Processes : q # p => opening'[q] = opening[q]
      /\ opening'[p].at = at
  BY <1>1 DEF ConnInv, SocketInv, SocketsTyped
<1>3. \A q \in Processes : At(q, {"ended"})' <=> At(q, {"ended"})
  BY <1>1, <1>2 DEF At
<1> SUFFICES ASSUME NEW c \in Clients
             PROVE  /\ At(c, {"ended"})' <=> ~Alive(Conn(c)')
                    /\ At(c, {"open"})' => link'[c] # "none"
                    /\ sessions'[c].pc = "ended" /\ ~At(Server, {"ended"})'
                          => link'[c] = "accepted"
  BY DEF StagesFit
<1>4. c \in Processes /\ Server \in Processes
  BY DEF Processes
<1>5. At(c, {"open"})' => link'[c] # "none"
  <2>1. CASE c = p
    BY <1>1, <1>2, <2>1 DEF At
  <2>2. CASE c # p
    BY <1>1, <1>2, <1>4, <2>2 DEF At, ConnInv, StagesFit
  <2> QED
    BY <2>1, <2>2
<1> QED
  BY <1>1, <1>3, <1>4, <1>5, ConnIs DEF ConnInv, StagesFit, Alive

LEMMA ExitFits ==
    ASSUME ConnInv, NEW c \in Clients, NEW result \in Results \ {"none"}, Exit(c, result),
           UNCHANGED <<link, sessions>>
    PROVE  StagesFit'
<1>1. c \in Processes /\ "ended" \in Stages /\ Server \in Processes /\ c # Server
  BY ClientsAssumption DEF Processes, Stages
<1>2. PICK a \in 1 .. Addresses :
        opening' = [opening EXCEPT ![c] = [at |-> "ended", address |-> a]]
  BY <1>1, GotoStage DEF Exit, ConnInv
<1>3. /\ \A q \in Processes : q # c => opening'[q] = opening[q]
      /\ opening'[c].at = "ended"
  BY <1>1, <1>2 DEF ConnInv, SocketInv, SocketsTyped
<1>4. /\ clients'[c].result = result
      /\ \A d \in Clients \ {c} : clients'[d] = clients[d]
  <2>1. clients' = [clients EXCEPT ![c] = [clients[c] EXCEPT !.result = result]]
    BY DEF Exit
  <2>2. clients[c] \in ClientRecord
    BY ConnIs, Domains DEF ConnOK, TypesOK
  <2> QED
    BY <2>1, <2>2, Domains DEF ClientRecord
<1>5. At(c, {"ended"})' /\ ~Alive(Conn(c)') /\ ~At(c, {"open"})'
  BY <1>3, <1>4, ConnIs DEF At, Alive
<1>6. \A d \in Clients \ {c} : (At(d, {"ended"})' <=> At(d, {"ended"}))
                               /\ (At(d, {"open"})' <=> At(d, {"open"}))
                               /\ (Alive(Conn(d)') <=> Alive(Conn(d)))
  BY <1>3, <1>4, ConnIs DEF At, Alive, Processes
<1>7. At(Server, {"ended"})' <=> At(Server, {"ended"})
  BY <1>1, <1>3 DEF At
<1> QED
  BY <1>5, <1>6, <1>7 DEF ConnInv, StagesFit

LEMMA ServerExitFits ==
    ASSUME ConnInv, NEW why, ServerExit(why)
    PROVE  StagesFit'
<1>1. Server \in Processes /\ Server \notin Clients /\ "ended" \in Stages
  BY ClientsAssumption DEF Processes, Stages
<1>2. PICK a \in 1 .. Addresses :
        opening' = [opening EXCEPT ![Server] = [at |-> "ended", address |-> a]]
  BY <1>1, GotoStage DEF ServerExit, ConnInv
<1>3. /\ \A c \in Clients : opening'[c] = opening[c]
      /\ opening'[Server].at = "ended" /\ UNCHANGED <<clients, link>>
  BY <1>1, <1>2 DEF ConnInv, SocketInv, SocketsTyped, Processes, ServerExit
<1>4. At(Server, {"ended"})'
  BY <1>3 DEF At
<1> QED
  BY <1>3, <1>4, ConnIs DEF ConnInv, StagesFit, At, Alive

LEMMA OtherFits ==
    ASSUME ConnInv, UNCHANGED opening,
           \A c \in Clients : /\ clients'[c].result = clients[c].result
                              /\ link'[c] = link[c] \/ link'[c] = "accepted"
                              /\ sessions'[c].pc = "ended" =>
                                    sessions[c].pc = "ended" \/ link'[c] = "accepted"
    PROVE  StagesFit'
BY ConnIs DEF ConnInv, StagesFit, At, Alive

LEMMA StagesKept ==
    ASSUME ConnInv, [Next]_vars PROVE StagesFit'
<1>0. /\ DOMAIN clients = Clients /\ DOMAIN sessions = Clients /\ DOMAIN link = Clients
      /\ \A c \in Clients : clients[c] \in ClientRecord /\ sessions[c] \in SessionRecord
  BY ConnIs, Domains DEF ConnOK, TypesOK
<1>1. CASE Opens(Server)
  BY <1>1, OpensWalks, WalkFits DEF Processes
<1>2. ASSUME NEW c \in Clients, Start(c)
      PROVE  StagesFit'
  <2>1. Goto(c, "lookup") /\ UNCHANGED <<clients, sessions, link>> /\ ~At(c, {"ended"})
    BY <1>2 DEF Start, ClientDoes, At
  <2>2. Walks(c)
    BY <2>1, GotoStage DEF Walks, ConnInv, Stages, Processes
  <2> QED
    BY <2>2, WalkFits DEF Processes
<1>3. CASE CannotListen \/ KillServer \/ AcceptFails
  BY <1>3, ServerExitFits DEF CannotListen, KillServer, AcceptFails
<1>4. ASSUME NEW c \in Clients, Accept(c) \/ ThreadFails(c)
      PROVE  StagesFit'
  <2>1. /\ UNCHANGED <<opening, clients>> /\ link' = [link EXCEPT ![c] = "accepted"]
        /\ \/ sessions' = [sessions EXCEPT ![c].pc = "read"]
           \/ sessions' = [sessions EXCEPT ![c].pc = "ended"]
    BY <1>4 DEF Accept, ThreadFails, ServerDoes, sockets
  <2> QED
    BY <1>0, <2>1, OtherFits
<1>5. ASSUME NEW c \in Clients, Client(c)
      PROVE  StagesFit'
  <2>1. CASE Opens(c)
    BY <2>1, OpensWalks, WalkFits DEF Processes
  <2>2. CASE \/ Unencodable(c) \/ NoConnection(c) \/ ClientBreaksPipe(c) \/ Bye(c)
             \/ GiveUp(c) \/ Abort(c) \/ ReadFails(c)
    <3>1. UNCHANGED <<link, sessions>> /\ \E result \in Results \ {"none"} : Exit(c, result)
      BY <2>2 DEF Unencodable, NoConnection, ClientBreaksPipe, Bye, GiveUp, Abort,
                  ReadFails, ClientDoes, Results
    <3> QED
      BY <3>1, ExitFits
  <2>3. CASE SendRequest(c) \/ ClientWrites(c) \/ AwaitReply(c) \/ ClientReads(c) \/ Go(c)
    <3>1. UNCHANGED <<opening, link, sessions>>
      BY <2>3 DEF SendRequest, ClientWrites, AwaitReply, ClientReads, Go, ClientDoes, sockets
    <3>2. \A d \in Clients : clients'[d].result = clients[d].result
      <4>1. CASE \E pc \in {"write", "read"} : clients' = [clients EXCEPT ![c].pc = pc]
        BY <1>0, <4>1 DEF ClientRecord
      <4>2. CASE UNCHANGED clients
        BY <4>2
      <4>3. CASE Go(c)
        <5>1. PICK m : clients' = [clients EXCEPT ![c] = Advanced(@, m, down[c].reader = "eof")]
          BY <4>3 DEF Go
        <5>2. Advanced(clients[c], m, down[c].reader = "eof").result = clients[c].result
          BY <1>0 DEF Advanced, ClientRecord
        <5> QED
          BY <1>0, <5>1, <5>2
      <4> QED
        BY <2>3, <4>1, <4>2, <4>3 DEF SendRequest, ClientWrites, AwaitReply, ClientReads
    <3> QED
      BY <3>1, <3>2, OtherFits
  <2> QED
    BY <1>5, <2>1, <2>2, <2>3 DEF Client
<1>6. ASSUME NEW c \in Clients, Thread(c)
      PROVE  StagesFit'
  <2>1. CASE SessionReadFails(c) \/ SessionBreaksPipe(c)
    BY <2>1, ServerExitFits DEF SessionReadFails, SessionBreaksPipe
  <2>2. CASE EndOfFile(c) \/ Return(c)
    <3>1. sessions[c].pc \in {"read", "last"}
      BY <2>2 DEF EndOfFile, Return
    <3>2. link[c] = "accepted"
      BY <3>1 DEF ConnInv, SocketInv, LinksOK, Live
    <3>3. /\ UNCHANGED <<opening, clients, link>>
          /\ sessions' = [sessions EXCEPT ![c].pc = "ended"]
      BY <2>2 DEF EndOfFile, Return, Close, ServerDoes
    <3> QED
      BY <1>0, <3>2, <3>3, OtherFits
  <2>3. CASE SessionReads(c) \/ SessionWrites(c) \/ AwaitRequest(c)
    <3>1. /\ UNCHANGED <<opening, clients, link>>
          /\ UNCHANGED sessions \/ sessions' = [sessions EXCEPT ![c].pc = "read"]
      BY <2>3 DEF SessionReads, SessionWrites, AwaitRequest, ServerDoes, sockets
    <3> QED
      BY <1>0, <3>1, OtherFits DEF SessionRecord
  <2>4. CASE Handle(c)
    <3> DEFINE m == Decode(up[c].line)
    <3>1. m \in Messages /\ GetValue(m) \in Short
      BY <2>4, RequestRead DEF Handle
    <3>2. \/ Login(c, m) \/ Push(c, m) \/ Set(c, m) \/ Get(c, m) \/ Top(c, m)
          \/ LogOut(c, m) \/ Refuse(c, m)
      BY <2>4 DEF Handle
    <3> HIDE DEF m
    <3>3. PICK a \in Answers, session \in SessionRecord, pc \in {"write", "last"} :
              Answer(c, a, session, pc)
      BY <3>1, <3>2, HandleIs
    <3>4. /\ UNCHANGED <<opening, clients, link>>
          /\ sessions' = [sessions EXCEPT ![c] = [session EXCEPT !.pc = pc]]
      BY <3>3 DEF Answer, sockets
    <3>5. \A d \in Clients : sessions'[d].pc = "ended" => sessions[d].pc = "ended"
      BY <1>0, <3>3, <3>4 DEF SessionRecord
    <3> QED
      BY <3>4, <3>5, OtherFits
  <2> QED
    BY <1>6, <2>1, <2>2, <2>3, <2>4 DEF Thread
<1>7. ASSUME NEW c \in Clients, Kill(c)
      PROVE  StagesFit'
  BY <1>7, ExitFits DEF Kill, Results
<1>8. CASE UNCHANGED vars
  BY <1>8, OtherFits DEF vars
<1> QED
  BY <1>1, <1>2, <1>3, <1>4, <1>5, <1>6, <1>7, <1>8 DEF Next, Runs, Main, Faults

LEMMA StoreTyped ==
    ASSUME ConnInv, NEW c \in Clients, NEW m \in Messages, Set(c, m)
    PROVE  \A t \in DOMAIN store' : store'[t] \in Short
<1>1. CASE UNCHANGED store
  BY <1>1 DEF ConnInv, DataOK
<1>2. CASE sessions[c].stack # <<>> /\ store' = Stored(Tuple(m), Last(sessions[c].stack))
  <2>1. Last(sessions[c].stack) \in Short
    BY <1>2, StackOf
  <2> QED
    BY <1>2, <2>1 DEF Stored, ConnInv, DataOK
<1> QED
  BY <1>1, <1>2 DEF Set

\* Counters of faults and of partial moves keep their bounds.
LEMMA SpentTyped ==
    ASSUME ConnInv, [Next]_vars
    PROVE  spent' \in [faults : 0 .. MaxFaults, cuts : 0 .. MaxCuts]
<1>0. spent \in [faults : 0 .. MaxFaults, cuts : 0 .. MaxCuts]
  BY DEF ConnInv, DataOK
<1>1. ASSUME NEW n, NEW bytes, Moves(n, bytes)
      PROVE  spent' \in [faults : 0 .. MaxFaults, cuts : 0 .. MaxCuts]
  BY <1>0, <1>1, MaxFaultsAssumption DEF Moves
<1>2. CASE Fault
  BY <1>0, <1>2, MaxFaultsAssumption DEF Fault
<1>3. CASE UNCHANGED spent
  BY <1>0, <1>3
<1>4. ASSUME NEW c \in Clients, Client(c)
      PROVE  UNCHANGED spent \/ \E n, bytes : Moves(n, bytes)
  BY <1>4 DEF Client, Opens, Unencodable, NoConnection, SendRequest, ClientWrites,
              ClientBreaksPipe, Bye, AwaitReply, ClientReads, Go, GiveUp, Abort, ReadFails
<1>5. ASSUME NEW c \in Clients, Thread(c)
      PROVE  UNCHANGED spent \/ \E n, bytes : Moves(n, bytes)
  <2>1. CASE Handle(c)
    BY <2>1 DEF Handle, Login, Push, Set, Get, Top, LogOut, Refuse, Answer
  <2>2. CASE ~Handle(c)
    BY <1>5, <2>2 DEF Thread, SessionReads, SessionReadFails, EndOfFile, Close, ServerDoes,
                      SessionWrites, SessionBreaksPipe, AwaitRequest, Return
  <2> QED
    BY <2>1, <2>2
<1>6. UNCHANGED spent \/ Fault \/ \E n, bytes : Moves(n, bytes)
  BY <1>4, <1>5 DEF Next, Runs, Main, Faults, Opens, CannotListen, Accept, Kill, KillServer,
                    AcceptFails, ThreadFails, Start, vars
<1> QED
  BY <1>1, <1>2, <1>3, <1>6

\* The maps stay maps of the clients, and arguments are not changed.
LEMMA DomainsKept ==
    ASSUME ConnInv, [Next]_vars
    PROVE  /\ commands' = commands
           /\ DOMAIN clients' = Clients /\ DOMAIN up' = Clients /\ DOMAIN down' = Clients
           /\ UNCHANGED store \/ \E c \in Clients : \E m \in Messages : Set(c, m)
<1>0. DOMAIN clients = Clients /\ DOMAIN up = Clients /\ DOMAIN down = Clients
  BY Domains
<1> DEFINE Same == /\ UNCHANGED <<commands, store>>
                   /\ DOMAIN clients' = Clients /\ DOMAIN up' = Clients
                   /\ DOMAIN down' = Clients
<1>1. ASSUME NEW why, ServerExit(why)
      PROVE  Same
  BY <1>0, <1>1 DEF ServerExit, HangUp
<1>2. ASSUME NEW c \in Clients, NEW result, Exit(c, result), UNCHANGED <<commands, store>>
      PROVE  Same
  BY <1>0, <1>2 DEF Exit
<1>3. ASSUME NEW c \in Clients, Client(c)
      PROVE  Same
  <2>1. CASE \/ Unencodable(c) \/ NoConnection(c) \/ ClientBreaksPipe(c) \/ Bye(c)
             \/ GiveUp(c) \/ Abort(c) \/ ReadFails(c)
    <3>1. UNCHANGED <<commands, store>> /\ \E result : Exit(c, result)
      BY <2>1 DEF Unencodable, NoConnection, ClientBreaksPipe, Bye, GiveUp, Abort, ReadFails,
                  ClientDoes
    <3> QED
      BY <1>2, <3>1
  <2>2. CASE Opens(c) \/ SendRequest(c) \/ ClientWrites(c)
    BY <1>0, <2>2 DEF Opens, SendRequest, ClientWrites, ClientDoes, sockets
  <2>3. CASE AwaitReply(c) \/ ClientReads(c) \/ Go(c)
    BY <1>0, <2>3 DEF AwaitReply, ClientReads, Go, ClientDoes, sockets
  <2> QED
    BY <1>3, <2>1, <2>2, <2>3 DEF Client
<1>4. ASSUME NEW c \in Clients, Thread(c), ~Handle(c)
      PROVE  Same
  <2>1. CASE SessionReadFails(c) \/ SessionBreaksPipe(c)
    BY <1>1, <2>1 DEF SessionReadFails, SessionBreaksPipe
  <2>2. CASE SessionReads(c) \/ EndOfFile(c) \/ SessionWrites(c) \/ AwaitRequest(c) \/ Return(c)
    BY <1>0, <2>2 DEF SessionReads, EndOfFile, SessionWrites, AwaitRequest, Return, Close,
                      HangUp, ServerDoes, sockets
  <2> QED
    BY <1>4, <2>1, <2>2 DEF Thread
<1>5. ASSUME NEW c \in Clients, Handle(c)
      PROVE  /\ commands' = commands
             /\ DOMAIN clients' = Clients /\ DOMAIN up' = Clients /\ DOMAIN down' = Clients
             /\ UNCHANGED store \/ \E m \in Messages : Set(c, m)
  <2> DEFINE m == Decode(up[c].line)
  <2>1. m \in Messages /\ GetValue(m) \in Short
    BY <1>5, RequestRead DEF Handle
  <2>2. \/ Login(c, m) \/ Push(c, m) \/ Set(c, m) \/ Get(c, m) \/ Top(c, m)
        \/ LogOut(c, m) \/ Refuse(c, m)
    BY <1>5 DEF Handle
  <2> HIDE DEF m
  <2>3. UNCHANGED store \/ Set(c, m)
    BY <2>2 DEF Login, Push, Get, Top, LogOut, Refuse
  <2>4. PICK a \in Answers, session \in SessionRecord, pc \in {"write", "last"} :
            Answer(c, a, session, pc)
    BY <2>1, <2>2, HandleIs
  <2>5. /\ commands' = commands
        /\ DOMAIN clients' = Clients /\ DOMAIN up' = Clients /\ DOMAIN down' = Clients
    BY <1>0, <2>4 DEF Answer
  <2> QED
    BY <2>1, <2>3, <2>5
<1>6. CASE CannotListen \/ KillServer \/ AcceptFails
  BY <1>1, <1>6 DEF CannotListen, KillServer, AcceptFails
<1>7. ASSUME NEW c \in Clients, Kill(c) \/ Accept(c) \/ ThreadFails(c) \/ Start(c)
      PROVE  Same
  <2>1. CASE Kill(c)
    BY <1>2, <2>1 DEF Kill
  <2>2. CASE Accept(c) \/ ThreadFails(c) \/ Start(c)
    BY <1>0, <2>2 DEF Accept, ThreadFails, Start, HangUp, ServerDoes, ClientDoes
  <2> QED
    BY <1>7, <2>1, <2>2
<1>8. CASE Opens(Server) \/ UNCHANGED vars
  BY <1>0, <1>8 DEF Opens, vars
<1> QED
  BY <1>3, <1>4, <1>5, <1>6, <1>7, <1>8 DEF Next, Runs, Main, Faults

LEMMA DataKept == ASSUME ConnInv, [Next]_vars PROVE DataOK'
BY DomainsKept, SpentTyped, StoreTyped DEF ConnInv, DataOK

LEMMA InitConn == Init => ConnInv
<1> SUFFICES ASSUME Init PROVE ConnInv
  OBVIOUS
<1>1. SocketInv
  BY InitSockets
<1>2. StagesFit
  BY ConnIs, ClientsAssumption DEF Init, StagesFit, At, Alive, Processes
<1>3. DataOK
  BY MaxFaultsAssumption DEF Init, DataOK
<1>4. ASSUME NEW c \in Clients
      PROVE  ConnOK(Conn(c))
  <2>1. FlowOK(NewPipe)
    BY EmptyIsSeq, MaxLineAssumption DEF FlowOK, PipeOK, Pipe, Unfinished, LineOK, NewPipe
  <2>2. /\ clients[c] = [pc |-> "send", step |-> 1, printed |-> NoLine,
                         result |-> "none", stale |-> FALSE]
        /\ sessions[c] = [pc |-> "none", loggedIn |-> FALSE, hasStack |-> FALSE,
                          stack |-> <<>>]
        /\ link[c] = "none" /\ up[c] = NewPipe /\ down[c] = NewPipe
    BY DEF Init
  <2>3. clients[c] \in ClientRecord
    BY <2>2 DEF ClientRecord, Results
  <2>4. sessions[c] \in SessionRecord
    BY <2>2, EmptySeq DEF SessionRecord
  <2>5. TypesOK(Conn(c))
    BY <2>1, <2>2, <2>3, <2>4, ConnIs DEF TypesOK
  <2> QED
    BY <2>2, <2>5, ConnIs DEF ConnOK, EndsOK, PlacesOK, Alive, NewPipe
<1> QED
  BY <1>1, <1>2, <1>3, <1>4 DEF ConnInv, ConnsOK

-----------------------------------------------------------------------------
LEMMA NextKeepsConns == ConnInv /\ [Next]_vars => ConnInv'
<1> SUFFICES ASSUME ConnInv, [Next]_vars PROVE ConnInv'
  OBVIOUS
<1>1. SocketInv'
  BY NextKeepsSockets DEF ConnInv
<1>2. StagesFit' /\ DataOK' /\ ConnsOK'
  BY StagesKept, DataKept, ConnsKept
<1> QED
  BY <1>1, <1>2 DEF ConnInv

\* Processes, connections and pipes fit each other, in every state there is.
THEOREM ConnectionsInvariant == Spec => []ConnInv
BY InitConn, NextKeepsConns, PTL DEF Spec

\* The states of the processes fit each other.
THEOREM ProtocolTypes == Spec => []ProtocolTypeOK
<1>1. ConnInv => ProtocolTypeOK
  <2> SUFFICES ASSUME ConnInv PROVE ProtocolTypeOK
    OBVIOUS
  <2>1. ASSUME NEW c \in Clients
        PROVE  /\ up[c] \in Pipe /\ down[c] \in Pipe
               /\ clients[c].step \in 1 .. 4
               /\ sessions[c].pc \in {"read", "write", "last"} => link[c] = "accepted"
               /\ At(c, {"open"}) => link[c] # "none"
               /\ At(c, {"ended"}) <=> clients[c].result # "none"
    <3>1. up[c] \in Pipe /\ down[c] \in Pipe /\ clients[c].step \in 1 .. 4
      BY ConnIs, Domains DEF ConnOK, TypesOK, FlowOK, PipeOK, ClientRecord
    <3>2. sessions[c].pc \in {"read", "write", "last"} => link[c] = "accepted"
      BY DEF ConnInv, SocketInv, LinksOK, Live
    <3>3. /\ At(c, {"open"}) => link[c] # "none"
          /\ At(c, {"ended"}) <=> clients[c].result # "none"
      BY ConnIs DEF ConnInv, StagesFit, Alive
    <3> QED
      BY <3>1, <3>2, <3>3
  <2>2. opening \in [Processes ->
            [at : {"unstarted", "lookup", "socket", "establish", "close", "listen",
                   "open", "failed", "ended"},
             address : 1 .. Addresses]]
    BY DEF ConnInv, SocketInv, SocketsTyped, Stages
  <2>3. fds \in [Processes -> Nat]
    <3>1. \A p \in Processes : fds[p] \in Nat
      BY LiveIsFinite DEF ConnInv, SocketInv, FdsOK, Own, Processes
    <3> QED
      BY <3>1 DEF ConnInv, SocketInv, SocketsTyped
  <2>4. spent \in [faults : 0 .. MaxFaults, cuts : 0 .. MaxCuts]
    BY DEF ConnInv, DataOK
  <2> QED
    BY <2>1, <2>2, <2>3, <2>4 DEF ProtocolTypeOK
<1> QED
  BY <1>1, ConnectionsInvariant, PTL

-----------------------------------------------------------------------------
(* What has been sent and not been dealt with: a line that has been read   *)
(* is part of it as long as its reader looks at it.                        *)

Ahead(p) == IF p.reader = "line" THEN p.line \o Unread(p) ELSE Pending(p)

ToClient(w) == IF w.client.pc = "read" THEN Ahead(w.down) ELSE Pending(w.down)
ToServer(w) == IF w.session.pc = "read" THEN Ahead(w.up) ELSE Pending(w.up)

LEMMA AheadTyped ==
    ASSUME NEW p \in Pipe
    PROVE  /\ Ahead(p) \in Strings /\ Pending(p) \in Strings
           /\ Unread(p) \in Strings /\ p.line \in Strings
<1>1. Pending(p) \in Seq(Bytes) /\ Unread(p) \in Seq(Bytes) /\ p.line \in Seq(Bytes)
  BY Fields
<1>2. p.line \o Unread(p) \in Seq(Bytes)
  BY <1>1, ConcatProperties
<1> QED
  BY <1>1, <1>2 DEF Ahead, Strings

LEMMA WritingKeeps ==
    ASSUME NEW p \in Pipe, NEW q, GoesOnWriting(p, q)
    PROVE  Pending(q) = Pending(p) /\ Ahead(q) = Ahead(p)
<1>1. ASSUME NEW n \in 1 .. Len(p.out), CanWrite(p, n), q = Write(p, n)
      PROVE  Pending(q) = Pending(p) /\ Ahead(q) = Ahead(p)
  <2>1. Pending(q) = Pending(p) /\ ~Deserted(p)
    BY <1>1, WriteKeeps DEF CanWrite
  <2>2. q.reader = p.reader /\ q.line = p.line
    BY <1>1 DEF Write, Pipe
  <2>3. p.reader = "line" => Unread(q) = Unread(p)
    BY <2>1, <2>2 DEF Pending, Deserted
  <2> QED
    BY <2>1, <2>2, <2>3 DEF Ahead
<1>2. ASSUME CanWriteInVain(p), q = WriteInVain(p)
      PROVE  Pending(q) = Pending(p) /\ Ahead(q) = Ahead(p)
  <2>1. Deserted(p) /\ Deserted(q)
    BY <1>2 DEF CanWriteInVain, WriteInVain, Deserted, Pipe
  <2> QED
    BY <2>1 DEF Pending, Ahead, Deserted
<1> QED
  BY <1>1, <1>2 DEF GoesOnWriting

LEMMA FilledAhead ==
    ASSUME NEW p \in Pipe, Unfinished(p.line)
    PROVE  Ahead(Filled(p)) = p.line \o Unread(p)
<1>1. Filled(p).reader \in {"line", "reading"}
  BY FilledIs
<1>2. Filled(p).line \o Unread(Filled(p)) = p.line \o Unread(p)
  BY FilledKeeps
<1> QED
  BY <1>1, <1>2 DEF Ahead, Pending, Deserted

LEMMA ReadLineAhead ==
    ASSUME NEW p, FlowOK(p), CanReadLine(p)
    PROVE  Ahead(ReadLine(p)) = Pending(p)
<1> DEFINE r == [p EXCEPT !.line = <<>>]
<1>1. r \in Pipe /\ Unfinished(r.line) /\ ReadLine(p) = Filled(r)
  BY StartsReading DEF FlowOK, PipeOK, ReadLine
<1>2. Pending(p) = Unread(p)
  BY DEF CanReadLine, Deserted, Pending
<1>3. r.line = <<>> /\ Unread(r) = Unread(p) /\ Unread(p) \in Seq(Bytes)
  BY Fields DEF FlowOK, PipeOK, Pipe, Unread
<1> HIDE DEF r
<1>4. r.line \o Unread(r) = Unread(p)
  BY <1>3, NoBytes
<1> QED
  BY <1>1, <1>2, <1>4, FilledAhead

\* At the end of the file nothing comes any more.
LEMMA ReadsAhead ==
    ASSUME NEW p, NEW q, FlowOK(p), Reads(p, q)
    PROVE  Ahead(q) = Ahead(p) \/ (Ahead(q) = <<>> /\ p.writer # "open")
<1>0. p \in Pipe /\ p.reader = "reading" /\ p.rbuf = <<>> /\ Unfinished(p.line)
  BY DEF FlowOK, PipeOK, Reads, CanRefill, MeetsEnd
<1>1. Ahead(p) = p.line \o Unread(p)
  BY <1>0 DEF Ahead, Pending, Deserted
<1>2. ASSUME NEW n \in 1 .. Len(p.wire), CanRefill(p, n), q = Refill(p, n)
      PROVE  Ahead(q) = Ahead(p)
  <2> DEFINE r == [p EXCEPT !.rbuf = First(p.wire, n), !.wire = Rest(@, n)]
  <2>1. r \in Pipe /\ Unfinished(r.line) /\ q = Filled(r)
    BY <1>2, GoesOnReading DEF FlowOK, PipeOK, Refill
  <2>2. Unread(r) = Unread(p)
    <3>0. p.wire \in Seq(Bytes)
      BY <1>0 DEF Pipe
    <3>1. n \in 0 .. Len(p.wire)
      BY <3>0, LenProperties
    <3>2. First(p.wire, n) \o Rest(p.wire, n) = p.wire
      BY <3>0, <3>1, Split
    <3>3. p.rbuf \o p.wire = p.wire
      BY <1>0, <3>0, NoBytes
    <3>4. /\ r.rbuf = First(p.wire, n) /\ r.wire = Rest(p.wire, n)
          /\ r.out = p.out
      BY <1>0 DEF Pipe
    <3> QED
      BY <3>2, <3>3, <3>4 DEF Unread
  <2>3. r.line = p.line
    BY <1>0 DEF Pipe
  <2> HIDE DEF r
  <2> QED
    BY <1>1, <2>1, <2>2, <2>3, FilledAhead
<1>3. ASSUME MeetsEnd(p), q = MeetEnd(p)
      PROVE  p.writer # "open" /\ (Ahead(q) = Ahead(p) \/ Ahead(q) = <<>>)
  <2>1. /\ p.writer # "open" /\ p.wire = <<>> /\ p.out = <<>>
    BY <1>3 DEF MeetsEnd, FlowOK, PipeOK
  <2>2. /\ q.reader \in {"error", "eof", "line"} /\ q.line = p.line
        /\ q.rbuf = <<>> /\ q.wire = <<>> /\ q.out = <<>>
    BY <1>0, <1>3, <2>1 DEF MeetEnd, Pipe
  <2>3. Unread(p) = <<>> /\ Unread(q) = <<>>
    BY <1>0, <2>1, <2>2, EmptyIsSeq, NoBytes DEF Unread
  <2> QED
    BY <1>1, <2>1, <2>2, <2>3 DEF Ahead, Pending, Deserted
<1> QED
  BY <1>2, <1>3 DEF Reads

LEMMA CallAhead ==
    ASSUME NEW p \in Pipe, p.out = <<>>, NEW msg \in Strings
    PROVE  /\ Deserted(p) => Pending(CallWrite(p, msg)) = <<>>
           /\ ~Deserted(p) => Pending(CallWrite(p, msg)) = Pending(p) \o msg
<1>1. CASE Deserted(p)
  BY <1>1 DEF Deserted, CallWrite, Pending, Pipe
<1>2. CASE ~Deserted(p)
  <2>1. [p EXCEPT !.out = <<>>] = p
    BY DEF Pipe
  <2> QED
    BY <1>2, <2>1, OutIsLast DEF CallWrite, Strings
<1> QED
  BY <1>1, <1>2

\* A line that is being read when a message is added to what comes after it.
LEMMA CallReading ==
    ASSUME NEW p \in Pipe, p.out = <<>>, NEW msg \in Strings, Ahead(p) = <<>>,
           ~Deserted(p), p.reader # "line"
    PROVE  Ahead(CallWrite(p, msg)) = msg
<1>1. Pending(p) = <<>>
  BY DEF Ahead
<1>2. Pending(CallWrite(p, msg)) = <<>> \o msg
  BY <1>1, CallAhead
<1>3. CallWrite(p, msg).reader = p.reader
  BY DEF CallWrite, Pipe
<1> QED
  BY <1>2, <1>3, NoBytes DEF Ahead, Strings

LEMMA LeftAhead ==
    ASSUME NEW p \in Pipe PROVE Pending(Left(p)) = <<>> /\ Ahead(Left(p)) = <<>>
BY LeftEnds DEF Pending, Ahead, Deserted

\* What is left of s.
IsStart(t, s) == \E u \in Strings : s = t \o u

LEMMA HungAhead ==
    ASSUME NEW p \in Pipe, NEW how
    PROVE  IsStart(Pending(Hung(p, how)), Pending(p)) /\ IsStart(Ahead(Hung(p, how)), Ahead(p))
<1> DEFINE q == Hung(p, how)
           head == p.rbuf \o p.wire
<1>1. /\ q.rbuf = p.rbuf /\ q.wire = p.wire /\ q.out = <<>> /\ q.line = p.line
      /\ q.reader = p.reader
  BY DEF Hung, Pipe
<1>2. head \in Seq(Bytes) /\ p.out \in Seq(Bytes) /\ p.line \in Seq(Bytes)
  BY Fields
<1> HIDE DEF q
<1>3. Unread(p) = head \o p.out /\ Unread(q) = head
  <2>1. head \o <<>> = head
    BY <1>2, NoBytes
  <2> QED
    BY <1>1, <2>1 DEF Unread
<1> HIDE DEF head
<1>4. p.line \o Unread(p) = (p.line \o Unread(q)) \o p.out
  <2>1. (p.line \o head) \o p.out = p.line \o (head \o p.out)
    BY <1>2, Assoc
  <2> QED
    BY <1>3, <2>1
<1>5. <<>> = <<>> \o <<>> /\ <<>> \in Strings /\ p.out \in Strings
  BY <1>2, EmptyIsSeq, NoBytes DEF Strings
<1>6. IsStart(p.line \o Unread(q), p.line \o Unread(p)) /\ IsStart(Unread(q), Unread(p))
      /\ IsStart(<<>>, <<>>)
  BY <1>3, <1>4, <1>5 DEF IsStart
<1>7. IsStart(Pending(q), Pending(p))
  <2>1. CASE Deserted(p)
    BY <1>1, <1>6, <2>1 DEF Pending, Deserted
  <2>2. CASE ~Deserted(p) /\ p.reader = "reading"
    BY <1>1, <1>6, <2>2 DEF Pending, Deserted
  <2>3. CASE ~Deserted(p) /\ p.reader # "reading"
    BY <1>1, <1>6, <2>3 DEF Pending, Deserted
  <2> QED
    BY <2>1, <2>2, <2>3
<1>8. IsStart(Ahead(q), Ahead(p))
  BY <1>1, <1>6, <1>7 DEF Ahead
<1> QED
  BY <1>7, <1>8 DEF q

-----------------------------------------------------------------------------
Brief(s) == OneLine(s) /\ Len(s) < MaxLine

LEMMA StartOfBrief ==
    ASSUME NEW s \in Strings, NEW t \in Strings, IsStart(t, s)
    PROVE  (Brief(s) => Brief(t)) /\ (s = <<>> => t = <<>>)
<1>1. PICK u \in Strings : s = t \o u
  BY DEF IsStart
<1>2. /\ Len(s) = Len(t) + Len(u) /\ \A i \in 1 .. Len(t) : s[i] = t[i]
      /\ Len(t) \in Nat /\ Len(u) \in Nat
  BY <1>1, Unjoin, LenProperties DEF Strings
<1>3. Brief(s) => Brief(t)
  BY <1>2, MaxLineAssumption DEF Brief, OneLine
<1>4. s = <<>> => t = <<>>
  <2>1. s = <<>> => Len(s) = 0
    BY EmptyIsSeq
  <2>2. Len(t) = 0 => t = <<>>
    BY EmptySeq DEF Strings
  <2> QED
    BY <1>2, <2>1, <2>2
<1> QED
  BY <1>3, <1>4

LEMMA EmptyBrief == Brief(<<>>) /\ <<>> \in Strings
BY EmptyIsSeq, MaxLineAssumption DEF Brief, OneLine, Strings

\* A whole line that has been read leaves nothing of what was one line.
LEMMA NothingBehind ==
    ASSUME NEW line \in Strings, NEW rest \in Strings, line # <<>>, OneLine(line \o rest),
           line[Len(line)] = Newline
    PROVE  rest = <<>>
<1> SUFFICES ASSUME rest # <<>> PROVE FALSE
  OBVIOUS
<1> DEFINE n == Len(line)
<1>1. /\ n \in Nat \ {0} /\ Len(rest) \in Nat \ {0}
      /\ Len(line \o rest) = n + Len(rest) /\ (line \o rest)[n] = line[n]
  <2>1. n \in Nat \ {0} /\ Len(rest) \in Nat \ {0}
    BY EmptySeq DEF Strings
  <2>2. Len(line \o rest) = n + Len(rest) /\ \A i \in 1 .. n : (line \o rest)[i] = line[i]
    BY Unjoin DEF Strings
  <2> QED
    BY <2>1, <2>2
<1>2. n \in 1 .. Len(line \o rest) - 1
  <2> HIDE DEF n
  <2> QED
    BY <1>1
<1> QED
  BY <1>1, <1>2 DEF OneLine

LEMMA BriefBehind ==
    ASSUME NEW p, FlowOK(p), p.reader = "line", Brief(Ahead(p))
    PROVE  Unread(p) = <<>>
<1>0. p \in Pipe /\ p.line \in Strings /\ Unread(p) \in Strings
  BY AheadTyped DEF FlowOK, PipeOK
<1>1. Ahead(p) = p.line \o Unread(p)
  BY DEF Ahead
<1>2. /\ Len(p.line) \in 1 .. MaxLine - 1
      /\ \/ p.line[Len(p.line)] = Newline \/ Len(p.line) = MaxLine - 1
         \/ p.writer # "open" /\ p.wire = <<>> /\ p.rbuf = <<>>
  BY DEF FlowOK, LineOK
<1>3. p.line # <<>>
  BY <1>2, EmptyIsSeq
<1>4. CASE p.line[Len(p.line)] = Newline
  BY <1>0, <1>1, <1>3, <1>4, NothingBehind DEF Brief
<1>5. CASE Len(p.line) = MaxLine - 1
  <2>1. Len(p.line \o Unread(p)) = Len(p.line) + Len(Unread(p))
    BY <1>0, Unjoin DEF Strings
  <2>2. Len(Unread(p)) \in Nat
    BY <1>0, LenProperties DEF Strings
  <2>3. Len(Unread(p)) = 0
    BY <1>1, <1>5, <2>1, <2>2, MaxLineAssumption DEF Brief
  <2> QED
    BY <1>0, <2>3, EmptySeq DEF Strings
<1>6. CASE p.writer # "open" /\ p.wire = <<>> /\ p.rbuf = <<>>
  <2>1. p.out = <<>>
    BY <1>6 DEF FlowOK, PipeOK
  <2> QED
    BY <1>6, <2>1, EmptyIsSeq, NoBytes DEF Unread
<1> QED
  BY <1>2, <1>4, <1>5, <1>6

-----------------------------------------------------------------------------
(* What a client and its thread say to each other: one line at a time.     *)

\* Whatever the programs send is a line of its own, if no argument has a
\* newline in it.
Plainly(k) ==
    /\ k \in Command
    /\ k.user \in Seq(Plains) /\ k.table \in Seq(Plains)
    /\ k.key \in Seq(Plains) /\ k.value \in Seq(Plains)

Serves(w) == w.session.pc \notin {"last", "ended"}

Sent(k, w) == Encode(RequestOf(k, w.client.step))

\* At most one line is on its way, and to the client only a brief one.
TurnsOK(k, w) ==
    /\ Alive(w) =>
          /\ w.client.pc = "send" => ToClient(w) = <<>>
          /\ Brief(ToClient(w))
    /\ Alive(w) /\ Serves(w) =>
          /\ ToServer(w) \in {<<>>, Sent(k, w)}
          /\ w.client.pc = "send" => ToServer(w) = <<>>
          /\ ToClient(w) = <<>> \/ ToServer(w) = <<>>
          /\ w.client.step = 4 => ToClient(w) = <<>>

\* Who ends without being killed has read what was sent to it, or the server
\* will not read again; who ends before the end leaves no question.
EndingOK(w) ==
    /\ ~Alive(w) /\ w.client.result # "killed" /\ Attached(w) =>
          w.up.writer = "closed" \/ w.session.pc = "last"
    /\ w.client.result \in {"aborted", "io error", "failed"} /\ Attached(w) =>
          /\ w.down.out = <<>>
          /\ w.session.pc = "last" \/ ToServer(w) = <<>>

Converses(k, w) == w.link # "none" => TurnsOK(k, w) /\ EndingOK(w)

LEMMA RequestWhole ==
    ASSUME NEW k, Plainly(k), NEW n \in 1 .. 4
    PROVE  WholeLine(Encode(RequestOf(k, n)))
<1>1. n \in {1, 2, 3, 4}
  OBVIOUS
<1>2. RequestOf(k, n).type \in Types
  BY RequestTyped DEF Plainly, Types, Requests
<1>3. /\ <<>> \in Seq(Seq(Plains)) /\ <<k.user>> \in Seq(Seq(Plains))
      /\ <<k.value>> \in Seq(Seq(Plains)) /\ <<k.table, k.key>> \in Seq(Seq(Plains))
  BY EmptySeq, Single DEF Plainly
<1>4. RequestOf(k, n).args \in {<<>>, <<k.user>>, <<k.value>>, <<k.table, k.key>>}
  <2>1. CASE n = 1
    BY <2>1 DEF RequestOf, Message
  <2>2. CASE n = 2
    BY <2>2 DEF RequestOf, Message
  <2>3. CASE n = 3
    BY <2>3 DEF RequestOf, Message
  <2>4. CASE n = 4
    BY <2>4 DEF RequestOf, Message
  <2> QED
    BY <1>1, <2>1, <2>2, <2>3, <2>4
<1>5. RequestOf(k, n).args \in Seq(Seq(Plains))
  <2> DEFINE args == RequestOf(k, n).args
  <2>1. args \in {<<>>, <<k.user>>, <<k.value>>, <<k.table, k.key>>}
    BY <1>4
  <2> HIDE DEF args
  <2>2. args \in Seq(Seq(Plains))
    BY <1>3, <2>1
  <2> QED
    BY <2>2 DEF args
<1> QED
  BY <1>2, <1>5, EncodeWhole

LEMMA AnswerBrief ==
    ASSUME NEW a \in Answers
    PROVE  Brief(Encode(a)) /\ Encode(a) \in Strings
<1>1. /\ a.type \in Types /\ a.args \in Seq(Seq(Plains))
      /\ a.args = <<>> \/ Len(a.args) = 1
      /\ Len(a.args) = 1 => /\ Len(a.args[1]) \in Nat
                            /\ IF a.type \in {"FAILED", "ERROR"}
                                 THEN Len(a.args[1]) + 5 < MaxLine
                                 ELSE Len(a.args[1]) + 3 < MaxLine
  <2>1. CASE a = Ok
    <3>1. a.type = "OK" /\ a.args = <<>>
      BY <2>1 DEF Ok, Message
    <3> QED
      BY <3>1, EmptySeq DEF Types
  <2>2. CASE a \in {Failed, Error}
    <3>1. a.type \in {"FAILED", "ERROR"} /\ a.args = <<Text>>
      BY <2>2 DEF Failed, Error, Message
    <3>2. <<Text>> \in Seq(Seq(Plains)) /\ Len(<<Text>>) = 1 /\ <<Text>>[1] = Text
      BY PlainBytes, Single
    <3>3. Len(Text) \in Nat /\ Len(Text) + 5 < MaxLine
      BY TextAssumption, PlainBytes, LenProperties
    <3> QED
      BY <3>1, <3>2, <3>3 DEF Types
  <2>3. ASSUME NEW y \in Short, a = Data(y)
        PROVE  <1>1
    <3>1. a.type = "DATA" /\ a.args = <<y>> /\ y \in Seq(Plains) /\ Len(y) + 3 < MaxLine
      BY <2>3 DEF Data, Message, Short
    <3>2. <<y>> \in Seq(Seq(Plains)) /\ Len(<<y>>) = 1 /\ <<y>>[1] = y
      BY <3>1, Single
    <3>3. Len(y) \in Nat
      BY <3>1, LenProperties
    <3> QED
      BY <3>1, <3>2, <3>3 DEF Types
  <2> QED
    BY <2>1, <2>2, <2>3 DEF Answers
<1>2. WholeLine(Encode(a))
  BY <1>1, EncodeWhole
<1>3. Len(Encode(a)) < MaxLine
  <2>0. 2 < MaxLine
    <3>1. Len(Text) \in Nat /\ Len(Text) + 5 < MaxLine
      BY TextAssumption, PlainBytes, LenProperties
    <3> QED
      BY <3>1, MaxLineAssumption
  <2>1. CASE a.args = <<>>
    BY <1>1, <2>0, <2>1, EncodeLength
  <2>2. CASE Len(a.args) = 1
    BY <1>1, <2>2, EncodeLength
  <2> QED
    BY <1>1, <2>1, <2>2
<1> QED
  BY <1>2, <1>3 DEF Brief, WholeLine

-----------------------------------------------------------------------------
LEMMA ConnParts ==
    ASSUME NEW w, ConnOK(w), w.link # "none"
    PROVE  /\ w.up \in Pipe /\ w.down \in Pipe /\ FlowOK(w.up) /\ FlowOK(w.down)
           /\ w.client \in ClientRecord /\ w.session \in SessionRecord
           /\ ToClient(w) \in Strings /\ ToServer(w) \in Strings
           /\ (Alive(w) <=> ~Deserted(w.down)) /\ (Alive(w) <=> w.up.writer = "open")
           /\ (Attached(w) <=> ~Deserted(w.up)) /\ (Attached(w) <=> w.down.writer = "open")
           /\ (Serves(w) => Attached(w)) /\ (Attached(w) => Serves(w) \/ w.session.pc = "last")
<1>1. /\ w.up \in Pipe /\ w.down \in Pipe /\ FlowOK(w.up) /\ FlowOK(w.down)
      /\ w.client \in ClientRecord /\ w.session \in SessionRecord
      /\ w.link \in {"none", "queued", "accepted"} /\ EndsOK(w)
  BY ConnPipes
<1>2. ToClient(w) \in Strings /\ ToServer(w) \in Strings
  BY <1>1, AheadTyped DEF ToClient, ToServer
<1>3. /\ (Alive(w) <=> ~Deserted(w.down)) /\ (Alive(w) <=> w.up.writer = "open")
      /\ (Attached(w) <=> ~Deserted(w.up)) /\ (Attached(w) <=> w.down.writer = "open")
  BY <1>1 DEF EndsOK
<1>4. (Serves(w) => Attached(w)) /\ (Attached(w) => Serves(w) \/ w.session.pc = "last")
  BY <1>1 DEF EndsOK, Serves, Attached, Serving, SessionRecord
<1> QED
  BY <1>1, <1>2, <1>3, <1>4

LEMMA EmptyParts ==
    ASSUME NEW p \in Pipe, Unread(p) = <<>>
    PROVE  p.rbuf = <<>> /\ p.wire = <<>> /\ p.out = <<>>
<1> DEFINE head == p.rbuf \o p.wire
<1>1. /\ p.rbuf \in Seq(Bytes) /\ p.wire \in Seq(Bytes) /\ p.out \in Seq(Bytes)
      /\ head \in Seq(Bytes)
  BY Fields, ConcatProperties
<1>2. Len(head) = Len(p.rbuf) + Len(p.wire)
  BY <1>1, Unjoin
<1>3. Unread(p) = head \o p.out
  BY DEF Unread
<1> HIDE DEF head
<1>4. Len(head \o p.out) = Len(head) + Len(p.out)
  BY <1>1, Unjoin
<1>5. Len(head \o p.out) = 0
  BY <1>3, EmptyIsSeq
<1>6. Len(p.rbuf) \in Nat /\ Len(p.wire) \in Nat /\ Len(p.out) \in Nat
  BY <1>1, LenProperties
<1> DEFINE a == Len(p.rbuf)
           b == Len(p.wire)
           c == Len(p.out)
           h == Len(head)
<1>7. a \in Nat /\ b \in Nat /\ c \in Nat /\ h = a + b /\ 0 = h + c
  BY <1>2, <1>4, <1>5, <1>6
<1> HIDE DEF a, b, c, h
<1>8. a = 0 /\ b = 0 /\ c = 0
  BY <1>7
<1>9. Len(p.rbuf) = 0 /\ Len(p.wire) = 0 /\ Len(p.out) = 0
  BY <1>8 DEF a, b, c
<1> QED
  BY <1>1, <1>9, EmptySeq

\* A line that has been returned is not empty.
LEMMA LineBehind ==
    ASSUME NEW p, FlowOK(p), p.reader = "line"
    PROVE  /\ p.line # <<>> /\ p.line \in Strings /\ Ahead(p) # <<>>
           /\ Ahead(p) = p.line \o Unread(p)
<1>1. p \in Pipe /\ p.line \in Strings /\ Unread(p) \in Strings
  BY AheadTyped DEF FlowOK, PipeOK
<1>2. Len(p.line) \in 1 .. MaxLine - 1 /\ Ahead(p) = p.line \o Unread(p)
  BY DEF FlowOK, LineOK, Ahead
<1>3. Len(p.line \o Unread(p)) = Len(p.line) + Len(Unread(p)) /\ Len(Unread(p)) \in Nat
  BY <1>1, Unjoin, LenProperties DEF Strings
<1>4. Len(<<>>) = 0
  BY EmptyIsSeq
<1>5. Len(p.line) # 0 /\ Len(Ahead(p)) # 0
  BY <1>2, <1>3, MaxLineAssumption
<1> QED
  BY <1>1, <1>2, <1>4, <1>5

LEMMA NothingAhead ==
    ASSUME NEW p, FlowOK(p), ~Deserted(p), Ahead(p) = <<>>
    PROVE  p.reader # "line" /\ Pending(p) = <<>>
BY LineBehind DEF Ahead

LEMMA NothingPending ==
    ASSUME NEW p \in Pipe, ~Deserted(p), Pending(p) = <<>>
    PROVE  p.rbuf = <<>> /\ p.wire = <<>> /\ p.out = <<>>
<1>1. CASE p.reader = "reading"
  <2>1. p.line \in Seq(Bytes) /\ Unread(p) \in Seq(Bytes)
    BY Fields
  <2>2. p.line \o Unread(p) = <<>>
    BY <1>1 DEF Pending
  <2>3. Len(p.line \o Unread(p)) = Len(p.line) + Len(Unread(p))
    BY <2>1, Unjoin
  <2>4. Len(p.line) \in Nat /\ Len(Unread(p)) \in Nat /\ Len(<<>>) = 0
    BY <2>1, LenProperties, EmptyIsSeq
  <2>5. Len(Unread(p)) = 0
    BY <2>2, <2>3, <2>4
  <2> QED
    BY <2>1, <2>5, EmptySeq, EmptyParts
<1>2. CASE p.reader # "reading"
  BY <1>2, EmptyParts DEF Pending
<1> QED
  BY <1>1, <1>2

\* Who has read a brief line has read everything.
LEMMA ReadItAll ==
    ASSUME NEW p, FlowOK(p), p.reader \in {"line", "eof", "error"}, Brief(Ahead(p))
    PROVE  p.rbuf = <<>> /\ p.wire = <<>> /\ p.out = <<>> /\ Unread(p) = <<>>
<1>1. CASE p.reader = "line"
  BY <1>1, BriefBehind, EmptyParts DEF FlowOK, PipeOK
<1>2. CASE p.reader \in {"eof", "error"}
  <2>1. p.rbuf = <<>> /\ p.wire = <<>> /\ p.out = <<>>
    BY <1>2 DEF FlowOK, PipeOK, LineOK
  <2> QED
    BY <2>1, EmptyIsSeq, NoBytes DEF Unread
<1> QED
  BY <1>1, <1>2

-----------------------------------------------------------------------------
(* What leaves the turns as they are. *)

LEMMA StartOfItself == ASSUME NEW s \in Strings PROVE IsStart(s, s)
<1>1. s = s \o <<>> /\ <<>> \in Strings
  BY NoBytes, EmptyIsSeq DEF Strings
<1> QED
  BY <1>1 DEF IsStart

LEMMA TurnsStay ==
    ASSUME NEW k, NEW w, NEW v, TurnsOK(k, w),
           Alive(v) => Alive(w), Serves(v) => Serves(w),
           v.client.pc = "send" => w.client.pc = "send", v.client.step = w.client.step,
           ToClient(w) \in Strings, ToClient(v) \in Strings,
           IsStart(ToClient(v), ToClient(w)), ToServer(v) \in {ToServer(w), <<>>}
    PROVE  TurnsOK(k, v)
<1>1. /\ Brief(ToClient(w)) => Brief(ToClient(v))
      /\ ToClient(w) = <<>> => ToClient(v) = <<>>
  BY StartOfBrief
<1>2. Sent(k, v) = Sent(k, w)
  BY DEF Sent
<1> QED
  BY <1>1, <1>2 DEF TurnsOK

LEMMA EndingStays ==
    ASSUME NEW w, NEW v, EndingOK(w), v.client.result = w.client.result,
           Attached(v) => Attached(w), v.up.writer = w.up.writer,
           Attached(v) /\ w.session.pc = "last" => v.session.pc = "last",
           w.down.out = <<>> => v.down.out = <<>>, ToServer(v) \in {ToServer(w), <<>>}
    PROVE  EndingOK(v)
BY DEF EndingOK, Alive

-----------------------------------------------------------------------------
(* The steps of the client. *)

LEMMA ClientMovesConverses ==
    ASSUME NEW k, NEW w, NEW v, ConnOK(w), ConnOK(v), w.link # "none", Converses(k, w),
           ClientMoves(w, v)
    PROVE  Converses(k, v)
<1>1. /\ v.client = w.client /\ v.link = w.link /\ v.session = w.session
      /\ TurnsOK(k, w) /\ EndingOK(w) /\ Alive(w) /\ w.down \in Pipe /\ w.up \in Pipe
      /\ FlowOK(w.down) /\ ToClient(w) \in Strings /\ ToClient(v) \in Strings
      /\ (Alive(w) <=> w.up.writer = "open") /\ (Alive(v) <=> v.up.writer = "open")
  BY ConnParts DEF ClientMoves, ClientStays, ServerStays, Converses
<1>2. /\ IsStart(ToClient(v), ToClient(w)) /\ ToServer(v) \in {ToServer(w), <<>>}
      /\ v.up.writer = w.up.writer /\ (w.down.out = <<>> => v.down.out = <<>>)
  <2>1. CASE w.client.pc = "write" /\ GoesOnWriting(w.up, v.up) /\ v.down = w.down
    <3>1. Pending(v.up) = Pending(w.up) /\ Ahead(v.up) = Ahead(w.up)
      BY <1>1, <2>1, WritingKeeps
    <3>2. v.up.writer = w.up.writer
      BY <1>1, <2>1, WritingEnds DEF SameEnds
    <3>3. ToClient(v) = ToClient(w) /\ ToServer(v) = ToServer(w)
      BY <1>1, <2>1, <3>1 DEF ToClient, ToServer
    <3> QED
      BY <1>1, <2>1, <3>2, <3>3, StartOfItself
  <2>2. CASE w.client.pc = "read" /\ Reads(w.down, v.down) /\ v.up = w.up
    <3>1. /\ Ahead(v.down) = Ahead(w.down) \/ Ahead(v.down) = <<>>
          /\ v.down.out = w.down.out
      BY <1>1, <2>2, ReadsAhead, ReadsEnds
    <3>2. ToClient(v) = ToClient(w) \/ ToClient(v) = <<>>
      BY <1>1, <2>2, <3>1 DEF ToClient
    <3>3. IsStart(<<>>, ToClient(w))
      <4>1. ToClient(w) = <<>> \o ToClient(w)
        BY <1>1, NoBytes DEF Strings
      <4> QED
        BY <1>1, <4>1 DEF IsStart
    <3>4. ToServer(v) = ToServer(w)
      BY <1>1, <2>2 DEF ToServer
    <3> QED
      BY <1>1, <2>2, <3>1, <3>2, <3>3, <3>4, StartOfItself
  <2> QED
    BY <2>1, <2>2 DEF ClientMoves
<1>3. TurnsOK(k, v)
  BY <1>1, <1>2, TurnsStay DEF Alive, Serves
<1>4. EndingOK(v)
  BY <1>1, <1>2, EndingStays DEF Attached
<1> QED
  BY <1>3, <1>4 DEF Converses

LEMMA AwaitsReplyConverses ==
    ASSUME NEW k, NEW w, NEW v, ConnOK(w), ConnOK(v), w.link # "none", Converses(k, w),
           AwaitsReply(w, v)
    PROVE  Converses(k, v)
<1>1. /\ v.client = [w.client EXCEPT !.pc = "read"] /\ v.up = w.up
      /\ w.client.pc = "write" /\ v.down = ReadLine(w.down) /\ CanReadLine(w.down)
      /\ v.link = w.link /\ v.session = w.session /\ w.client \in ClientRecord
      /\ TurnsOK(k, w) /\ EndingOK(w) /\ Alive(w) /\ w.down \in Pipe
      /\ FlowOK(w.down) /\ ToClient(w) \in Strings /\ ToClient(v) \in Strings
  BY ConnParts DEF AwaitsReply, ServerStays, Converses
<1>2. /\ v.client.pc = "read" /\ v.client.step = w.client.step
      /\ v.client.result = w.client.result
  BY <1>1 DEF ClientRecord
<1>3. ToClient(v) = ToClient(w)
  <2>1. Ahead(v.down) = Pending(w.down)
    BY <1>1, ReadLineAhead
  <2> QED
    BY <1>1, <1>2, <2>1 DEF ToClient
<1>4. IsStart(ToClient(v), ToClient(w)) /\ ToServer(v) = ToServer(w)
  BY <1>1, <1>3, StartOfItself DEF ToServer
<1>5. TurnsOK(k, v)
  BY <1>1, <1>2, <1>4, TurnsStay DEF Alive, Serves
<1>6. EndingOK(v)
  <2>1. v.down.out = w.down.out
    BY <1>1, ReadLineEnds
  <2> QED
    BY <1>1, <1>2, <1>4, <2>1, EndingStays DEF Attached
<1> QED
  BY <1>5, <1>6 DEF Converses

LEMMA SendsRequestConverses ==
    ASSUME NEW k, NEW w, NEW v, ConnOK(w), ConnOK(v), w.link # "none", Converses(k, w),
           Plainly(k), SendsRequest(k, w, v)
    PROVE  Converses(k, v)
<1> DEFINE msg == Sent(k, w)
<1>1. /\ v.client = [w.client EXCEPT !.pc = "write"] /\ v.down = w.down
      /\ w.client.pc = "send" /\ v.up = CallWrite(w.up, msg) /\ w.up.out = <<>>
      /\ v.link = w.link /\ v.session = w.session /\ w.client \in ClientRecord
      /\ TurnsOK(k, w) /\ EndingOK(w) /\ Alive(w) /\ w.up \in Pipe /\ FlowOK(w.up)
      /\ (Attached(w) <=> ~Deserted(w.up)) /\ (Serves(w) => Attached(w))
  BY ConnParts DEF SendsRequest, ServerStays, Converses, CanCallWrite, Sent
<1>2. /\ v.client.pc = "write" /\ v.client.step = w.client.step
      /\ v.client.result = "none" /\ w.client.step \in 1 .. 4
  BY <1>1 DEF ClientRecord, Alive
<1>3. msg \in Strings /\ Sent(k, v) = msg
  BY <1>2, RequestTyped DEF Sent, Plainly
<1> HIDE DEF msg
<1>4. ToClient(w) = <<>> /\ ToClient(v) = <<>>
  BY <1>1, <1>2 DEF TurnsOK, ToClient
<1>5. Serves(w) => ToServer(v) = msg
  <2> SUFFICES ASSUME Serves(w) PROVE ToServer(v) = msg
    OBVIOUS
  <2>1. ToServer(w) = <<>> /\ ~Deserted(w.up)
    BY <1>1 DEF TurnsOK
  <2>2. CASE w.session.pc = "read"
    <3>1. Ahead(w.up) = <<>>
      BY <2>1, <2>2 DEF ToServer
    <3>2. w.up.reader # "line"
      BY <1>1, <2>1, <3>1, NothingAhead
    <3>3. Ahead(v.up) = msg
      BY <1>1, <1>3, <2>1, <3>1, <3>2, CallReading
    <3> QED
      BY <1>1, <2>2, <3>3 DEF ToServer
  <2>3. CASE w.session.pc # "read"
    <3>1. Pending(w.up) = <<>>
      BY <2>1, <2>3 DEF ToServer
    <3>2. Pending(v.up) = <<>> \o msg
      BY <1>1, <1>3, <2>1, <3>1, CallAhead
    <3> QED
      BY <1>1, <1>3, <2>3, <3>2, NoBytes DEF ToServer, Strings
  <2> QED
    BY <2>2, <2>3
<1>6. TurnsOK(k, v)
  BY <1>1, <1>2, <1>3, <1>4, <1>5, EmptyBrief DEF TurnsOK, Serves
<1>7. EndingOK(v)
  BY <1>2 DEF EndingOK, Alive
<1> QED
  BY <1>6, <1>7 DEF Converses

\* Nothing is on its way, in either direction, when the client goes on.
LEMMA GoesConverses ==
    ASSUME NEW k, NEW w, NEW v, ConnOK(w), ConnOK(v), w.link # "none", Converses(k, w),
           Goes(k, w, v)
    PROVE  Converses(k, v) /\ v.down = w.down
<1>1. /\ w.client.pc = "read" /\ Alive(w) /\ v.up = w.up
      /\ v.link = w.link /\ v.session = w.session /\ w.client \in ClientRecord
      /\ TurnsOK(k, w) /\ w.down \in Pipe /\ FlowOK(w.down) /\ ~Deserted(w.down)
      /\ (Attached(w) <=> w.down.writer = "open") /\ (Serves(w) => Attached(w))
      /\ v.down = w.down \/ v.down = [w.down EXCEPT !.rbuf = <<>>]
  BY ConnParts DEF Goes, ServerStays, Converses
<1>2. v.client.pc = "send" /\ v.client.result = "none"
  BY <1>1 DEF Goes, Advanced, ClientRecord, Alive
<1>3. w.down.reader \in {"line", "eof"}
  BY DEF Goes, RepliesOf
<1>4. ToClient(w) = Ahead(w.down) /\ Brief(Ahead(w.down))
  BY <1>1 DEF TurnsOK, ToClient
<1>5. w.down.rbuf = <<>> /\ Unread(w.down) = <<>>
  BY <1>1, <1>3, <1>4, ReadItAll
<1>6. v.down = w.down
  BY <1>1, <1>5 DEF Pipe
<1>7. ToClient(v) = <<>>
  BY <1>1, <1>2, <1>3, <1>5, <1>6 DEF ToClient, Pending
<1>8. Serves(w) => ToServer(w) = <<>>
  <2>1. CASE w.down.reader = "line"
    BY <1>1, <1>4, <2>1, LineBehind DEF TurnsOK
  <2>2. CASE w.down.reader = "eof"
    BY <1>1, <2>2 DEF FlowOK, LineOK
  <2> QED
    BY <1>3, <2>1, <2>2
<1>9. ToServer(v) = ToServer(w)
  BY <1>1 DEF ToServer
<1>10. TurnsOK(k, v)
  BY <1>1, <1>7, <1>8, <1>9, EmptyBrief DEF TurnsOK, Serves
<1>11. EndingOK(v)
  BY <1>2 DEF EndingOK, Alive
<1> QED
  BY <1>6, <1>10, <1>11 DEF Converses

-----------------------------------------------------------------------------
LEMMA HungTurn ==
    ASSUME NEW p \in Pipe, NEW how
    PROVE  /\ Pending(p) = <<>> => Pending(Hung(p, how)) = <<>>
           /\ Ahead(p) = <<>> => Ahead(Hung(p, how)) = <<>>
<1> DEFINE q == Hung(p, how)
<1>1. q \in [out : Strings, wire : Strings, rbuf : Strings, line : Strings,
             writer : {how}, reader : {p.reader}]
  BY EmptyIsSeq DEF Hung, Pipe, Strings
<1>2. /\ q.rbuf \in Seq(Bytes) /\ q.wire \in Seq(Bytes) /\ q.out \in Seq(Bytes)
      /\ q.line \in Seq(Bytes)
  BY <1>1 DEF Strings
<1>3. IsStart(Pending(q), Pending(p)) /\ IsStart(Ahead(q), Ahead(p))
  BY HungAhead
<1> HIDE DEF q
<1>4. Unread(q) \in Strings /\ q.line \o Unread(q) \in Strings
  BY <1>2, ConcatProperties DEF Unread, Strings
<1>5. Pending(q) \in Strings /\ Ahead(q) \in Strings
  BY <1>4, EmptyBrief DEF Pending, Ahead
<1>6. Pending(p) \in Strings /\ Ahead(p) \in Strings
  BY AheadTyped
<1>7. /\ Pending(p) = <<>> => Pending(q) = <<>>
      /\ Ahead(p) = <<>> => Ahead(q) = <<>>
  BY <1>3, <1>5, <1>6, StartOfBrief
<1> QED
  BY <1>7 DEF q

LEMMA DialsConverses ==
    ASSUME NEW k, NEW w, NEW v, ConnOK(w), Dials(w, v)
    PROVE  Converses(k, v)
<1>1. /\ v.up = NewPipe /\ v.down = NewPipe /\ v.client.pc = "send"
      /\ v.client.result = "none" /\ v.session.pc = "none"
  BY DEF Dials, ConnOK, EndsOK, Alive, ClientStays
<1>2. Pending(NewPipe) = <<>>
  BY EmptyIsSeq, NoBytes DEF NewPipe, Pending, Unread, Deserted
<1>3. ToClient(v) = <<>> /\ ToServer(v) = <<>>
  BY <1>1, <1>2 DEF ToClient, ToServer
<1> QED
  BY <1>1, <1>3, EmptyBrief DEF Converses, TurnsOK, EndingOK, Alive

\* Who quits has nothing left to read, unless it is killed or the server will
\* not read again.
LEMMA ExitsConverses ==
    ASSUME NEW k, NEW w, NEW v, ConnOK(w), ConnOK(v), w.link # "none", Converses(k, w),
           Exits(w, v)
    PROVE  Converses(k, v)
<1>1. /\ Alive(w) /\ TurnsOK(k, w) /\ w.client \in ClientRecord
      /\ w.up \in Pipe /\ w.down \in Pipe /\ FlowOK(w.down) /\ ~Deserted(w.down)
      /\ v.up = Hung(w.up, Reset(w.down)) /\ v.down = Left(w.down)
      /\ v.session = w.session /\ v.link = w.link
      /\ (Attached(w) <=> w.down.writer = "open")
      /\ (Attached(w) => Serves(w) \/ w.session.pc = "last")
  BY ConnParts DEF Exits, ServerStays, Converses
<1>2. PICK result \in Results \ {"none"} :
          Quits(w, result) /\ v.client = [w.client EXCEPT !.result = result]
  BY DEF Exits
<1>3. v.client.result = result /\ result # "none"
  BY <1>1, <1>2 DEF ClientRecord
<1>4. TurnsOK(k, v)
  BY <1>3 DEF TurnsOK, Alive
<1>5. (\/ w.client.pc = "send"
       \/ w.client.pc = "read" /\ w.down.reader \in {"line", "eof", "error"})
        => w.down.wire = <<>> /\ w.down.out = <<>>
  <2>1. CASE w.client.pc = "send"
    <3>1. Pending(w.down) = <<>>
      BY <1>1, <2>1 DEF TurnsOK, ToClient
    <3> QED
      BY <1>1, <3>1, NothingPending
  <2>2. CASE w.client.pc = "read" /\ w.down.reader \in {"line", "eof", "error"}
    <3>1. Brief(Ahead(w.down))
      BY <1>1, <2>2 DEF TurnsOK, ToClient
    <3> QED
      BY <1>1, <2>2, <3>1, ReadItAll
  <2> QED
    BY <2>1, <2>2
<1>6. w.client.pc = "write" /\ w.client.step = 4 /\ Serves(w) => w.down.wire = <<>>
  <2> SUFFICES ASSUME w.client.pc = "write", w.client.step = 4, Serves(w)
               PROVE  w.down.wire = <<>>
    OBVIOUS
  <2>1. Pending(w.down) = <<>>
    BY <1>1 DEF TurnsOK, ToClient
  <2> QED
    BY <1>1, <2>1, NothingPending
<1>7. v.up.writer = Reset(w.down) /\ v.down.out = w.down.out
  BY <1>1, HungEnds, LeftEnds
<1>8. Attached(v) <=> Attached(w)
  BY <1>1 DEF Attached
<1>9. result # "killed" /\ Attached(w) => v.up.writer = "closed" \/ w.session.pc = "last"
  BY <1>1, <1>2, <1>5, <1>6, <1>7 DEF Quits, Reset
<1>10. result \in {"aborted", "io error", "failed"} /\ Attached(w) =>
           v.down.out = <<>> /\ (w.session.pc = "last" \/ ToServer(w) = <<>>)
  <2> SUFFICES ASSUME result \in {"aborted", "io error", "failed"}, Attached(w)
               PROVE  v.down.out = <<>> /\ (w.session.pc = "last" \/ ToServer(w) = <<>>)
    OBVIOUS
  <2>1. \/ w.client.pc = "send"
        \/ w.client.pc = "read" /\ w.down.reader \in {"line", "eof", "error"}
    BY <1>2 DEF Quits
  <2>2. v.down.out = <<>>
    BY <1>5, <1>7, <2>1
  <2>3. CASE w.client.pc = "send"
    BY <1>1, <2>2, <2>3 DEF TurnsOK
  <2>4. CASE w.client.pc = "read" /\ w.down.reader = "line"
    <3>1. ToClient(w) # <<>>
      BY <1>1, <2>4, LineBehind DEF ToClient
    <3> QED
      BY <1>1, <2>2, <3>1 DEF TurnsOK
  <2>5. CASE w.down.reader \in {"eof", "error"}
    BY <1>1, <2>5 DEF FlowOK, LineOK
  <2> QED
    BY <2>1, <2>3, <2>4, <2>5
<1>11. ToServer(w) = <<>> => ToServer(v) = <<>>
  BY <1>1, HungTurn DEF ToServer
<1>12. EndingOK(v)
  BY <1>1, <1>3, <1>8, <1>9, <1>10, <1>11 DEF EndingOK
<1> QED
  BY <1>4, <1>12 DEF Converses

-----------------------------------------------------------------------------
(* The steps of the thread. *)

LEMMA ServerLeavesConverses ==
    ASSUME NEW k, NEW w, NEW v, ConnOK(w), ConnOK(v), w.link # "none", v.link # "none",
           Converses(k, w), v.client = w.client, v.session.pc = "ended", ServerLeaves(w, v)
    PROVE  Converses(k, v)
<1>1. /\ TurnsOK(k, w) /\ w.down \in Pipe /\ v.down = Hung(w.down, Reset(w.up))
      /\ ToClient(w) \in Strings /\ ToClient(v) \in Strings
  BY ConnParts DEF ServerLeaves, Converses
<1>2. IsStart(ToClient(v), ToClient(w))
  BY <1>1, HungAhead DEF ToClient
<1>3. /\ Brief(ToClient(w)) => Brief(ToClient(v))
      /\ ToClient(w) = <<>> => ToClient(v) = <<>>
  BY <1>1, <1>2, StartOfBrief
<1>4. TurnsOK(k, v)
  BY <1>1, <1>3 DEF TurnsOK, Alive, Serves
<1>5. EndingOK(v)
  BY DEF EndingOK, Attached, Serving
<1> QED
  BY <1>4, <1>5 DEF Converses

LEMMA SameTurns ==
    ASSUME NEW k, NEW w, NEW v, ConnOK(w), ConnOK(v), w.link # "none", v.link # "none",
           Converses(k, w), v.client = w.client, v.down = w.down, Serves(v) => Serves(w),
           Attached(v) => Attached(w), v.up.writer = w.up.writer,
           Attached(v) /\ w.session.pc = "last" => v.session.pc = "last",
           Attached(v) \/ Serves(v) => ToServer(v) \in {ToServer(w), <<>>}
    PROVE  Converses(k, v)
<1>1. TurnsOK(k, w) /\ EndingOK(w) /\ ToClient(w) \in Strings /\ ToClient(v) = ToClient(w)
  BY ConnParts DEF Converses, ToClient
<1>2. Sent(k, v) = Sent(k, w)
  BY DEF Sent
<1>3. TurnsOK(k, v)
  BY <1>1, <1>2 DEF TurnsOK, Alive
<1>4. EndingOK(v)
  BY <1>1 DEF EndingOK, Alive
<1> QED
  BY <1>3, <1>4 DEF Converses

\* The thread calls rio_readlineb.
LEMMA BeginsToRead ==
    ASSUME NEW k, NEW w, NEW v, ConnOK(w), ConnOK(v), w.link # "none", v.link # "none",
           Converses(k, w), v.client = w.client, v.down = w.down, v.up = ReadLine(w.up),
           CanReadLine(w.up), w.session.pc \in {"none", "write"}, v.session.pc = "read",
           Attached(w)
    PROVE  Converses(k, v)
<1>1. w.up \in Pipe /\ FlowOK(w.up)
  BY ConnParts
<1>2. Ahead(v.up) = Pending(w.up)
  BY <1>1, ReadLineAhead
<1>3. ToServer(v) = ToServer(w)
  BY <1>2 DEF ToServer
<1>4. v.up.writer = w.up.writer
  BY <1>1, ReadLineEnds DEF SameEnds
<1> QED
  BY <1>3, <1>4, SameTurns DEF Serves

LEMMA AcceptsConverses ==
    ASSUME NEW k, NEW w, NEW v, ConnOK(w), ConnOK(v), w.link # "none", Converses(k, w),
           Accepts(w, v)
    PROVE  Converses(k, v)
<1>1. /\ v.link # "none" /\ v.client = w.client /\ w.session \in SessionRecord
      /\ w.session.pc = "none" /\ w.link = "queued" /\ w.up.reader = "idle"
  BY DEF Accepts, ClientStays, ConnOK, TypesOK, PlacesOK
<1>2. CASE v.session = [w.session EXCEPT !.pc = "read"] /\ v.up = ReadLine(w.up)
           /\ v.down = w.down
  <2>1. v.session.pc = "read" /\ CanReadLine(w.up) /\ Attached(w)
    BY <1>1, <1>2 DEF SessionRecord, CanReadLine, Attached
  <2> QED
    BY <1>1, <1>2, <2>1, BeginsToRead
<1>3. CASE v.session = [w.session EXCEPT !.pc = "ended"] /\ ServerLeaves(w, v)
  <2>1. v.session.pc = "ended"
    BY <1>1, <1>3 DEF SessionRecord
  <2> QED
    BY <1>1, <1>3, <2>1, ServerLeavesConverses
<1> QED
  BY <1>2, <1>3 DEF Accepts

LEMMA AwaitsRequestConverses ==
    ASSUME NEW k, NEW w, NEW v, ConnOK(w), ConnOK(v), w.link # "none", Converses(k, w),
           AwaitsRequest(w, v)
    PROVE  Converses(k, v)
<1>1. /\ v.link # "none" /\ v.client = w.client /\ w.session \in SessionRecord
      /\ w.session.pc = "write" /\ w.up.reader = "line" /\ v.down = w.down
      /\ v.session = [w.session EXCEPT !.pc = "read"] /\ v.up = ReadLine(w.up)
  BY DEF AwaitsRequest, ClientStays, ConnOK, TypesOK, PlacesOK
<1>2. v.session.pc = "read" /\ CanReadLine(w.up) /\ Attached(w)
  BY <1>1 DEF SessionRecord, CanReadLine, Attached, Serving
<1> QED
  BY <1>1, <1>2, BeginsToRead

LEMMA LeavingConverses ==
    ASSUME NEW k, NEW w, NEW v, ConnOK(w), ConnOK(v), w.link # "none", Converses(k, w),
           Closes(w, v) \/ ServerGoes(w, v)
    PROVE  Converses(k, v)
<1>1. /\ v.link = w.link /\ v.client = w.client /\ w.session \in SessionRecord
      /\ v.session = [w.session EXCEPT !.pc = "ended"]
      /\ ServerLeaves(w, v) \/ (v.up = w.up /\ v.down = w.down)
  BY DEF Closes, ServerGoes, ClientStays, ConnOK, TypesOK
<1>2. v.session.pc = "ended"
  BY <1>1 DEF SessionRecord
<1>3. CASE ServerLeaves(w, v)
  BY <1>1, <1>2, <1>3, ServerLeavesConverses
<1>4. CASE v.up = w.up /\ v.down = w.down
  <2>1. ~Serves(v) /\ ~Attached(v)
    BY <1>2 DEF Serves, Attached, Serving
  <2> QED
    BY <1>1, <1>4, <2>1, SameTurns
<1> QED
  BY <1>1, <1>3, <1>4

LEMMA SessionMovesConverses ==
    ASSUME NEW k, NEW w, NEW v, ConnOK(w), ConnOK(v), w.link # "none", Converses(k, w),
           SessionMoves(w, v)
    PROVE  Converses(k, v)
<1>1. /\ v.link = w.link /\ v.client = w.client /\ v.session = w.session
      /\ w.up \in Pipe /\ w.down \in Pipe /\ FlowOK(w.up) /\ TurnsOK(k, w) /\ EndingOK(w)
      /\ ToClient(w) \in Strings /\ ToClient(v) \in Strings
  BY ConnParts DEF SessionMoves, ServerStays, ClientStays, Converses
<1>2. CASE w.session.pc = "read" /\ Reads(w.up, v.up) /\ v.down = w.down
  <2>1. Ahead(v.up) = Ahead(w.up) \/ Ahead(v.up) = <<>>
    BY <1>1, <1>2, ReadsAhead
  <2>2. v.up.writer = w.up.writer
    BY <1>1, <1>2, ReadsEnds DEF SameEnds
  <2>3. ToServer(v) \in {ToServer(w), <<>>}
    BY <1>1, <1>2, <2>1 DEF ToServer
  <2> QED
    BY <1>1, <1>2, <2>2, <2>3, SameTurns DEF Serves, Attached
<1>3. CASE /\ w.session.pc \in {"write", "last"}
           /\ GoesOnWriting(w.down, v.down) /\ v.up = w.up
  <2>1. Pending(v.down) = Pending(w.down) /\ Ahead(v.down) = Ahead(w.down)
    BY <1>1, <1>3, WritingKeeps
  <2>2. w.down.out # <<>>
    BY <1>1, <1>3, WritingEnds
  <2>3. ToClient(v) = ToClient(w) /\ ToServer(v) = ToServer(w)
    BY <1>1, <1>3, <2>1 DEF ToClient, ToServer
  <2>4. TurnsOK(k, v)
    <3>1. IsStart(ToClient(v), ToClient(w))
      BY <1>1, <2>3, StartOfItself
    <3> QED
      BY <1>1, <2>3, <3>1, TurnsStay DEF Alive, Serves
  <2>5. EndingOK(v)
    BY <1>1, <1>3, <2>2, <2>3, EndingStays DEF Attached
  <2> QED
    BY <2>4, <2>5 DEF Converses
<1> QED
  BY <1>2, <1>3 DEF SessionMoves

-----------------------------------------------------------------------------
\* An answer to a client that waits for it, and to none but the last request
\* if it is the last answer.
LEMMA HandlesConverses ==
    ASSUME NEW k, NEW w, NEW v, ConnOK(w), ConnOK(v), w.link # "none", Converses(k, w),
           Plainly(k), Handles(w, v)
    PROVE  Converses(k, v)
<1> DEFINE line == w.up.line
           m == Decode(line)
<1>1. PICK a : Answered(w, v, m, a)
  BY DEF Handles
<1>2. /\ w.session.pc = "read" /\ w.up.reader = "line" /\ a \in Answers
      /\ v.down = CallWrite(w.down, Encode(a)) /\ v.session.pc \in {"write", "last"}
      /\ a = Error \/ m.type = "BYE" => v.session.pc = "last"
      /\ m = Invalid => a = Error
      /\ v.client = w.client /\ v.link = w.link /\ v.up = w.up
  BY <1>1 DEF Answered, ClientStays
<1>3. /\ TurnsOK(k, w) /\ EndingOK(w) /\ w.down \in Pipe /\ w.up \in Pipe
      /\ FlowOK(w.up) /\ FlowOK(w.down) /\ w.client \in ClientRecord
      /\ (Alive(w) <=> ~Deserted(w.down)) /\ (Serves(w) => Attached(w))
      /\ (Attached(w) <=> ~Deserted(w.up)) /\ w.down.out = <<>>
  BY <1>2, ConnParts DEF Converses, ConnOK, PlacesOK
<1>4. /\ line # <<>> /\ line \in Strings /\ Unread(w.up) \in Strings
      /\ ToServer(w) # <<>> /\ ToServer(w) = line \o Unread(w.up)
  BY <1>2, <1>3, LineBehind, AheadTyped DEF ToServer
<1>5. Serves(w) /\ Attached(w)
  BY <1>2, <1>3 DEF Serves
<1>6. Brief(Encode(a)) /\ Encode(a) \in Strings
  BY <1>2, AnswerBrief
<1>7. EndingOK(v)
  <2>1. w.client.result \notin {"aborted", "io error", "failed"}
    BY <1>2, <1>4, <1>5, <1>3 DEF EndingOK
  <2>2. ~Alive(w) /\ w.client.result # "killed" => w.up.writer = "closed"
    BY <1>2, <1>3, <1>5 DEF EndingOK
  <2> QED
    BY <1>2, <2>1, <2>2 DEF EndingOK, Alive
<1>8. ASSUME Alive(w)
      PROVE  TurnsOK(k, v)
  <2>1. /\ ToServer(w) = Sent(k, w) /\ ToClient(w) = <<>> /\ w.client.pc # "send"
        /\ ~Deserted(w.down)
    BY <1>3, <1>4, <1>5, <1>8 DEF TurnsOK
  <2>2. ToClient(v) = Encode(a)
    <3>1. CASE w.client.pc = "read"
      <4>1. Ahead(w.down) = <<>>
        BY <2>1, <3>1 DEF ToClient
      <4>2. w.down.reader # "line"
        BY <1>3, <2>1, <4>1, NothingAhead
      <4>3. Ahead(v.down) = Encode(a)
        BY <1>2, <1>3, <1>6, <2>1, <4>1, <4>2, CallReading
      <4> QED
        BY <1>2, <3>1, <4>3 DEF ToClient
    <3>2. CASE w.client.pc # "read"
      <4>1. Pending(w.down) = <<>>
        BY <2>1, <3>2 DEF ToClient
      <4>2. Pending(v.down) = <<>> \o Encode(a)
        BY <1>2, <1>3, <1>6, <2>1, <4>1, CallAhead
      <4> QED
        BY <1>2, <1>6, <3>2, <4>2, NoBytes DEF ToClient, Strings
    <3> QED
      BY <3>1, <3>2
  <2>3. ASSUME Serves(v)
        PROVE  ToServer(v) = <<>> /\ w.client.step # 4
    <3>1. m # Invalid /\ m.type # "BYE"
      BY <1>2, <2>3 DEF Serves
    <3>2. Last(line) = Newline /\ Last(line) = line[Len(line)]
      BY <3>1 DEF Decode, Last
    <3>3. w.client.step \in 1 .. 4 /\ Sent(k, w) = line \o Unread(w.up)
      BY <1>3, <1>4, <2>1 DEF ClientRecord
    <3>4. WholeLine(Sent(k, w))
      BY <3>3, RequestWhole DEF Sent
    <3>5. Unread(w.up) = <<>>
      <4>1. OneLine(line \o Unread(w.up))
        BY <3>3, <3>4 DEF WholeLine
      <4> HIDE DEF line
      <4> QED
        BY <1>4, <3>2, <4>1, NothingBehind
    <3>6. ToServer(v) = <<>>
      <4>1. v.session.pc # "read" /\ ~Deserted(v.up) /\ v.up.reader = "line"
        BY <1>2, <1>3, <1>5
      <4> QED
        BY <1>2, <3>5, <4>1 DEF ToServer, Pending
    <3>7. w.client.step # 4
      <4> SUFFICES ASSUME w.client.step = 4 PROVE FALSE
        OBVIOUS
      <4>1. Sent(k, w) = Encode(Message("BYE", <<>>))
        <5>1. RequestOf(k, 4) = Message("BYE", <<>>)
          BY DEF RequestOf
        <5> QED
          BY <5>1 DEF Sent
      <4>2. line \o Unread(w.up) = line
        BY <1>4, <3>5, NoBytes DEF Strings
      <4>3. line = Encode(Message("BYE", <<>>))
        BY <3>3, <4>1, <4>2
      <4>4. m.type = "BYE"
        BY <3>1, <4>3, ByeIsRead
      <4> QED
        BY <3>1, <4>4
    <3> QED
      BY <3>6, <3>7
  <2> QED
    BY <1>2, <1>6, <2>1, <2>2, <2>3 DEF TurnsOK
<1>9. TurnsOK(k, v)
  <2>1. ~Alive(w) => TurnsOK(k, v)
    BY <1>2 DEF TurnsOK, Alive
  <2> QED
    BY <1>8, <2>1
<1> QED
  BY <1>7, <1>9 DEF Converses

LEMMA ConversesStep ==
    ASSUME NEW k, NEW w, NEW v, ConnOK(w), Converses(k, w), Plainly(k), Evolves(k, w, v)
    PROVE  Converses(k, v)
<1>0. ConnOK(v)
  BY ConnStep DEF Plainly
<1>1. CASE w.link = "none"
  <2>1. CASE Dials(w, v)
    BY <2>1, DialsConverses
  <2>2. CASE ~Dials(w, v)
    <3>1. v.link = "none"
      <4>1. w.session.pc \in {"none", "ended"}
        BY <1>1 DEF ConnOK, EndsOK
      <4>2. ~Closes(w, v) /\ ~Handles(w, v) /\ ~AwaitsRequest(w, v) /\ ~Accepts(w, v)
        BY <1>1, <4>1 DEF Closes, Handles, Answered, AwaitsRequest, Accepts
      <4> QED
        BY <1>1, <2>2, <4>2 DEF Evolves, Exits, SendsRequest, ClientMoves, AwaitsReply,
           Goes, SessionMoves, ServerGoes, ServerStays
    <3> QED
      BY <3>1 DEF Converses
  <2> QED
    BY <2>1, <2>2
<1>2. CASE w.link # "none"
  <2>1. ~Dials(w, v)
    BY <1>2 DEF Dials
  <2>2. CASE v = w \/ Exits(w, v) \/ SendsRequest(k, w, v)
    BY <1>0, <1>2, <2>2, ExitsConverses, SendsRequestConverses
  <2>3. CASE ClientMoves(w, v) \/ AwaitsReply(w, v) \/ Goes(k, w, v)
    BY <1>0, <1>2, <2>3, ClientMovesConverses, AwaitsReplyConverses, GoesConverses
  <2>4. CASE Accepts(w, v) \/ SessionMoves(w, v) \/ Closes(w, v) \/ Handles(w, v)
    BY <1>0, <1>2, <2>4, AcceptsConverses, SessionMovesConverses, LeavingConverses,
       HandlesConverses
  <2>5. CASE AwaitsRequest(w, v) \/ ServerGoes(w, v)
    BY <1>0, <1>2, <2>5, AwaitsRequestConverses, LeavingConverses
  <2> QED
    BY <2>1, <2>2, <2>3, <2>4, <2>5, <1>2 DEF Evolves
<1> QED
  BY <1>1, <1>2

-----------------------------------------------------------------------------
\* No argument of a program has a newline in it: its requests are lines.
OneLineArguments ==
    \A c \in Clients :
        \A s \in {commands[c].user, commands[c].table, commands[c].key, commands[c].value} :
            s \in Seq(Bytes \ {Newline})

TalksOK == \A c \in Clients : Converses(commands[c], Conn(c))

TalkInv == ConnInv /\ OneLineArguments /\ TalksOK

LEMMA ArgumentsPlain ==
    ASSUME ConnInv, OneLineArguments, NEW c \in Clients
    PROVE  Plainly(commands[c])
<1>1. commands[c] \in Command
  BY Domains
<1> QED
  BY <1>1 DEF OneLineArguments, Plainly, Plains

LEMMA InitTalks == Init /\ OneLineArguments => TalkInv
<1> SUFFICES ASSUME Init, OneLineArguments PROVE TalkInv
  OBVIOUS
<1>1. \A c \in Clients : link[c] = "none"
  BY DEF Init
<1>2. TalksOK
  BY <1>1, ConnIs DEF TalksOK, Converses
<1> QED
  BY <1>2, InitConn DEF TalkInv

LEMMA NextTalks == TalkInv /\ [Next]_vars => TalkInv'
<1> SUFFICES ASSUME TalkInv, [Next]_vars PROVE TalkInv'
  OBVIOUS
<1>1. ConnInv'
  BY NextKeepsConns DEF TalkInv
<1>2. commands' = commands
  BY DomainsKept DEF TalkInv
<1>3. OneLineArguments'
  BY <1>2 DEF TalkInv, OneLineArguments
<1>4. TalksOK'
  <2> SUFFICES ASSUME NEW c \in Clients PROVE Converses(commands[c], Conn(c)')
    BY <1>2 DEF TalksOK
  <2>1. /\ ConnOK(Conn(c)) /\ Converses(commands[c], Conn(c)) /\ Plainly(commands[c])
        /\ Evolves(commands[c], Conn(c), Conn(c)')
    BY Domains, ArgumentsPlain, NextEvolves DEF TalkInv, TalksOK, Evolve
  <2> QED
    BY <2>1, ConversesStep
<1> QED
  BY <1>1, <1>3, <1>4 DEF TalkInv

\* A client and its thread take turns, and at most one line is on its way
\* between them.
THEOREM TurnsInvariant == Spec /\ OneLineArguments => []TalkInv
BY InitTalks, NextTalks, PTL DEF Spec

-----------------------------------------------------------------------------
(* Why the server ends. *)

LEMMA DeadStaysDead ==
    ASSUME NEW k, NEW w, NEW v, Evolves(k, w, v), ~Alive(w)
    PROVE  v.client = w.client
BY DEF Evolves, Dials, Exits, SendsRequest, ClientMoves, AwaitsReply, Goes, Accepts,
       SessionMoves, Closes, Handles, Answered, AwaitsRequest, ServerGoes, ClientStays

LEMMA ResultsStay ==
    ASSUME ConnInv, [Next]_vars, NEW c \in Clients, clients[c].result # "none"
    PROVE  clients'[c] = clients[c]
<1>1. Evolves(commands[c], Conn(c), Conn(c)') /\ ~Alive(Conn(c))
  BY NextEvolves, ConnIs DEF Evolve, Alive
<1> QED
  BY <1>1, DeadStaysDead, ConnIs

LEMMA Causes ==
    ASSUME [Next]_vars
    PROVE  \/ cause' = cause \/ cause' \notin {"read", "write"}
           \/ cause' = "read" /\ \E c \in Clients : SessionReadFails(c)
           \/ cause' = "write" /\ \E c \in Clients : SessionBreaksPipe(c)
<1>1. CASE Main
  BY <1>1 DEF Main, Opens, CannotListen, ServerExit, Accept, ServerDoes
<1>2. ASSUME NEW c \in Clients, Client(c)
      PROVE  cause' = cause
  BY <1>2 DEF Client, Opens, Unencodable, NoConnection, SendRequest, ClientWrites,
     ClientBreaksPipe, Bye, AwaitReply, ClientReads, Go, GiveUp, Abort, ReadFails,
     ClientDoes
<1>3. ASSUME NEW c \in Clients, Thread(c)
      PROVE  \/ cause' = cause
             \/ cause' = "read" /\ SessionReadFails(c)
             \/ cause' = "write" /\ SessionBreaksPipe(c)
  <2>1. CASE SessionReadFails(c) \/ SessionBreaksPipe(c)
    BY <2>1 DEF SessionReadFails, SessionBreaksPipe, ServerExit
  <2>2. CASE Handle(c)
    BY <2>2 DEF Handle, Login, Push, Set, Get, Top, LogOut, Refuse, Answer
  <2>3. CASE SessionReads(c) \/ EndOfFile(c) \/ SessionWrites(c) \/ AwaitRequest(c)
             \/ Return(c)
    BY <2>3 DEF SessionReads, EndOfFile, SessionWrites, AwaitRequest, Return, Close,
       ServerDoes
  <2> QED
    BY <1>3, <2>1, <2>2, <2>3 DEF Thread
<1>4. CASE Faults
  <2>1. CASE KillServer \/ AcceptFails
    BY <2>1 DEF KillServer, AcceptFails, ServerExit
  <2>2. ASSUME NEW c \in Clients, Kill(c) \/ ThreadFails(c)
        PROVE  cause' = cause
    BY <2>2 DEF Kill, ThreadFails, ServerDoes
  <2> QED
    BY <1>4, <2>1, <2>2 DEF Faults
<1>5. ASSUME NEW c \in Clients, Start(c)
      PROVE  cause' = cause
  BY <1>5 DEF Start, ClientDoes
<1>6. CASE UNCHANGED vars
  BY <1>6 DEF vars
<1> QED
  BY <1>1, <1>2, <1>3, <1>4, <1>5, <1>6 DEF Next, Runs

LEMMA ReadFailsFor ==
    ASSUME TalkInv, NEW c \in Clients, SessionReadFails(c)
    PROVE  clients[c].result = "killed"
<1> DEFINE w == Conn(c)
<1>1. /\ ConnOK(w) /\ Converses(commands[c], w)
      /\ w.session.pc = "read" /\ w.up.reader = "error"
      /\ w.client.result = clients[c].result
  BY Domains, ConnIs DEF TalkInv, TalksOK, SessionReadFails
<1> HIDE DEF w
<1>2. w.link # "none" /\ Attached(w)
  BY <1>1 DEF ConnOK, EndsOK, Attached, Serving
<1>3. w.up.writer = "reset" /\ ~Alive(w)
  BY <1>1, <1>2, ConnParts DEF FlowOK, LineOK
<1> QED
  BY <1>1, <1>2, <1>3 DEF Converses, EndingOK

LEMMA BreaksPipeFor ==
    ASSUME TalkInv, NEW c \in Clients, SessionBreaksPipe(c)
    PROVE  clients[c].result \in {"killed", "done"}
<1> DEFINE w == Conn(c)
<1>1. /\ ConnOK(w) /\ Converses(commands[c], w) /\ w.session.pc \in {"write", "last"}
      /\ BreaksPipe(w.down) /\ w.client.result = clients[c].result
  BY Domains, ConnIs DEF TalkInv, TalksOK, SessionBreaksPipe
<1> HIDE DEF w
<1>2. w.link # "none" /\ Attached(w)
  BY <1>1 DEF ConnOK, EndsOK, Attached, Serving
<1>3. w.down.out # <<>> /\ Deserted(w.down)
  BY <1>1 DEF BreaksPipe, Deserted
<1>4. ~Alive(w) /\ w.client \in ClientRecord
  BY <1>1, <1>2, <1>3, ConnParts
<1>5. w.client.result \notin {"aborted", "io error", "failed"}
  BY <1>1, <1>2, <1>3 DEF Converses, EndingOK
<1> QED
  BY <1>1, <1>4, <1>5 DEF ClientRecord, Results, Alive

\* The server ends because of a client only if that was killed, or had gone
\* with its last answer unread.
THEOREM ServerOutlives == Spec /\ OneLineArguments => []ServerOutlivesClients
<1>1. Init => ServerOutlivesClients
  BY DEF Init, ServerOutlivesClients
<1>2. TalkInv /\ ServerOutlivesClients /\ [Next]_vars => ServerOutlivesClients'
  <2> SUFFICES ASSUME TalkInv, ServerOutlivesClients, [Next]_vars
               PROVE  ServerOutlivesClients'
    OBVIOUS
  <2>0. \A c \in Clients : clients[c].result # "none" => clients'[c] = clients[c]
    BY ResultsStay DEF TalkInv
  <2>1. cause' = "read" => \E c \in Clients : clients'[c].result = "killed"
    <3> SUFFICES ASSUME cause' = "read" PROVE \E c \in Clients : clients'[c].result = "killed"
      OBVIOUS
    <3>1. \E c \in Clients : clients[c].result = "killed"
      BY Causes, ReadFailsFor DEF ServerOutlivesClients
    <3> QED
      BY <2>0, <3>1
  <2>2. cause' = "write" => \E c \in Clients : clients'[c].result \in {"killed", "done"}
    <3> SUFFICES ASSUME cause' = "write"
                 PROVE  \E c \in Clients : clients'[c].result \in {"killed", "done"}
      OBVIOUS
    <3>1. \E c \in Clients : clients[c].result \in {"killed", "done"}
      BY Causes, BreaksPipeFor DEF ServerOutlivesClients
    <3> QED
      BY <2>0, <3>1
  <2> QED
    BY <2>1, <2>2 DEF ServerOutlivesClients
<1> QED
  BY <1>1, <1>2, TurnsInvariant, PTL DEF Spec

-----------------------------------------------------------------------------
(* Each of the two pipes of a connection is a channel of lines. *)

LEMMA UpMaps ==
    ASSUME NEW c
    PROVE  /\ Up(c)!Pending(up[c]) = Pending(up[c]) /\ Up(c)!Got(up[c]) = Got(up[c])
           /\ Up(c)!Deserted(up[c]) <=> Deserted(up[c])
           /\ Up(c)!Pending(up[c])' = Pending(up'[c]) /\ Up(c)!Got(up[c])' = Got(up'[c])
           /\ Up(c)!Deserted(up[c])' <=> Deserted(up'[c])
           /\ \A s, t : Up(c)!Channel!IsPrefixOf(s, t) <=> Channel!IsPrefixOf(s, t)
           /\ \A n, s : Up(c)!Channel!IsFirstLine(n, s) <=> Channel!IsFirstLine(n, s)
BY DEF Up!Pending, Pending, Up!Got, Got, Up!Deserted, Deserted, Up!Unread, Unread,
       Up!Channel!IsPrefixOf, Channel!IsPrefixOf, Up!Channel!IsFirstLine, Channel!IsFirstLine

LEMMA UpStep ==
    ASSUME NEW c, ChannelStep(up[c], up'[c])
    PROVE  [Up(c)!Channel!Next]_(Up(c)!Channel!vars)
<1>1. PutStep(up[c], up'[c]) => Up(c)!Channel!Put
  BY UpMaps DEF PutStep, Up!Channel!Put, SameWriter, SameReader
<1>2. AskStep(up[c], up'[c]) => Up(c)!Channel!Ask
  BY UpMaps DEF AskStep, Up!Channel!Ask, SameWriter, SameReader
<1>3. TakeStep(up[c], up'[c]) => Up(c)!Channel!Take
  BY UpMaps DEF TakeStep, Up!Channel!Take, SameWriter, SameReader
<1>4. TakeRestStep(up[c], up'[c]) => Up(c)!Channel!TakeRest
  BY UpMaps DEF TakeRestStep, Up!Channel!TakeRest, SameWriter, SameReader
<1>5. HangStep(up[c], up'[c]) => Up(c)!Channel!Hang
  BY UpMaps DEF HangStep, Up!Channel!Hang, SameReader
<1>6. LeaveStep(up[c], up'[c]) => Up(c)!Channel!Leave
  BY UpMaps DEF LeaveStep, Up!Channel!Leave, SameWriter
<1>7. NoStep(up[c], up'[c]) => UNCHANGED Up(c)!Channel!vars
  BY UpMaps DEF NoStep, Up!Channel!vars, SameWriter, SameReader
<1> QED
  BY <1>1, <1>2, <1>3, <1>4, <1>5, <1>6, <1>7 DEF ChannelStep, Up!Channel!Next

LEMMA DownMaps ==
    ASSUME NEW c
    PROVE  /\ Down(c)!Pending(down[c]) = Pending(down[c]) /\ Down(c)!Got(down[c]) = Got(down[c])
           /\ Down(c)!Deserted(down[c]) <=> Deserted(down[c])
           /\ Down(c)!Pending(down[c])' = Pending(down'[c])
           /\ Down(c)!Got(down[c])' = Got(down'[c])
           /\ Down(c)!Deserted(down[c])' <=> Deserted(down'[c])
           /\ \A s, t : Down(c)!Channel!IsPrefixOf(s, t) <=> Channel!IsPrefixOf(s, t)
           /\ \A n, s : Down(c)!Channel!IsFirstLine(n, s) <=> Channel!IsFirstLine(n, s)
BY DEF Down!Pending, Pending, Down!Got, Got, Down!Deserted, Deserted, Down!Unread, Unread,
       Down!Channel!IsPrefixOf, Channel!IsPrefixOf, Down!Channel!IsFirstLine,
       Channel!IsFirstLine

LEMMA DownStep ==
    ASSUME NEW c, ChannelStep(down[c], down'[c])
    PROVE  [Down(c)!Channel!Next]_(Down(c)!Channel!vars)
<1>1. PutStep(down[c], down'[c]) => Down(c)!Channel!Put
  BY DownMaps DEF PutStep, Down!Channel!Put, SameWriter, SameReader
<1>2. AskStep(down[c], down'[c]) => Down(c)!Channel!Ask
  BY DownMaps DEF AskStep, Down!Channel!Ask, SameWriter, SameReader
<1>3. TakeStep(down[c], down'[c]) => Down(c)!Channel!Take
  BY DownMaps DEF TakeStep, Down!Channel!Take, SameWriter, SameReader
<1>4. TakeRestStep(down[c], down'[c]) => Down(c)!Channel!TakeRest
  BY DownMaps DEF TakeRestStep, Down!Channel!TakeRest, SameWriter, SameReader
<1>5. HangStep(down[c], down'[c]) => Down(c)!Channel!Hang
  BY DownMaps DEF HangStep, Down!Channel!Hang, SameReader
<1>6. LeaveStep(down[c], down'[c]) => Down(c)!Channel!Leave
  BY DownMaps DEF LeaveStep, Down!Channel!Leave, SameWriter
<1>7. NoStep(down[c], down'[c]) => UNCHANGED Down(c)!Channel!vars
  BY DownMaps DEF NoStep, Down!Channel!vars, SameWriter, SameReader
<1> QED
  BY <1>1, <1>2, <1>3, <1>4, <1>5, <1>6, <1>7 DEF ChannelStep, Down!Channel!Next

LEMMA FlowIsStep ==
    ASSUME NEW p, NEW q, FlowOK(p), Flows(p, q)
    PROVE  ChannelStep(p, q)
<1>1. CASE q = p
  BY <1>1 DEF ChannelStep, NoStep, SameWriter, SameReader
<1>2. CASE Sends(p, q) \/ Receives(p, q)
  BY <1>2, StepRefines DEF FlowOK
<1> QED
  BY <1>1, <1>2 DEF Flows

LEMMA PipesStep ==
    ASSUME TalkInv, [Next]_vars, NEW c \in Clients
    PROVE  ChannelStep(up[c], up'[c]) /\ ChannelStep(down[c], down'[c])
<1> DEFINE k == commands[c]
           w == Conn(c)
           v == Conn(c)'
<1>1. /\ ConnOK(w) /\ Converses(k, w) /\ Plainly(k) /\ Evolves(k, w, v)
      /\ w.up = up[c] /\ w.down = down[c] /\ v.up = up'[c] /\ v.down = down'[c]
  BY Domains, ArgumentsPlain, NextEvolves, ConnIs DEF TalkInv, TalksOK, Evolve
<1> HIDE DEF k, w, v
<1>2. ConnOK(v) /\ FlowOK(w.up) /\ FlowOK(w.down)
  BY <1>1, ConnStep DEF Plainly, ConnOK, TypesOK
<1>3. Flows(w.up, v.up) /\ (Flows(w.down, v.down) \/ Goes(k, w, v))
  BY <1>1, PipesFlow DEF Plainly
<1>4. Goes(k, w, v) => v.down = w.down
  <2>1. CASE w.link = "none"
    BY <1>1, <2>1 DEF ConnOK, EndsOK, Goes
  <2>2. CASE w.link # "none"
    BY <1>1, <1>2, <2>2, GoesConverses
  <2> QED
    BY <2>1, <2>2
<1>5. Flows(w.down, v.down)
  BY <1>3, <1>4 DEF Flows
<1>6. ChannelStep(w.up, v.up) /\ ChannelStep(w.down, v.down)
  BY <1>2, <1>3, <1>5, FlowIsStep
<1> QED
  BY <1>1, <1>6

\* Requests and answers travel as lines, in order and whole: also where a
\* client throws away what the buffer of its rio_t holds, nothing is in it.
THEOREM CarriesConversations == Spec /\ OneLineArguments => ImplementsLineChannel
<1>1. Init => ChannelsInit
  <2> SUFFICES ASSUME Init, NEW c \in Clients
               PROVE  Up(c)!Channel!Init /\ Down(c)!Channel!Init
    BY DEF ChannelsInit
  <2>1. up[c] = NewPipe /\ down[c] = NewPipe
    BY DEF Init
  <2>2. /\ Pending(NewPipe) = <<>> /\ Got(NewPipe) = NoLine
        /\ ~Deserted(NewPipe) /\ NewPipe.writer = "open"
    BY EmptyIsSeq, NoBytes DEF NewPipe, Pending, Unread, Deserted, Got
  <2> QED
    BY <2>1, <2>2, UpMaps, DownMaps DEF Up!Channel!Init, Down!Channel!Init
<1>2. TalkInv /\ [Next]_vars => [ChannelsNext]_vars
  BY PipesStep, UpStep, DownStep DEF ChannelsNext
<1> QED
  BY <1>1, <1>2, TurnsInvariant, PTL DEF Spec, ImplementsLineChannel

-----------------------------------------------------------------------------
(* Words and tokens of what has been put together from words. *)

LEMMA NoWords == Words[<<>>] = <<>> /\ <<>> \in Strings /\ <<>> \in Seq(Strings)
<1>1. <<>> \in Strings /\ <<>> \in Seq(Strings)
  BY EmptySeq DEF Strings
<1> QED
  BY <1>1, WordsIs DEF WordsStep

\* One character more.
LEMMA WordsMore ==
    ASSUME NEW y \in Strings, NEW z \in Bytes
    PROVE  /\ Append(y, z) \in Strings /\ Words[y] \in Seq(Strings)
           /\ z = Blank => Words[Append(y, z)] = Words[y]
           /\ z # Blank /\ (Words[y] = <<>> \/ y = <<>> \/ Last(y) = Blank) =>
                 Words[Append(y, z)] = Append(Words[y], <<z>>)
           /\ z # Blank /\ Words[y] # <<>> /\ y # <<>> /\ Last(y) # Blank =>
                 Words[Append(y, z)] =
                     Append(Front(Words[y]), Append(Last(Words[y]), z))
<1> DEFINE x == Append(y, z)
<1>1. /\ x \in Strings /\ x # <<>> /\ Len(x) = Len(y) + 1 /\ Last(x) = z /\ Front(x) = y
      /\ \A i \in 1 .. Len(y) : x[i] = y[i]
  <2>1. /\ x \in Seq(Bytes) /\ x # <<>> /\ Len(x) = Len(y) + 1 /\ Last(x) = z /\ Front(x) = y
    BY AppendOf DEF Strings
  <2>2. \A i \in 1 .. Len(y) : x[i] = y[i]
    BY AppendProperties DEF Strings
  <2> QED
    BY <2>1, <2>2 DEF Strings
<1>2. Words[y] \in Seq(Strings)
  BY WordsIs
<1>3. y # <<>> => x[Len(x) - 1] = Last(y)
  <2> SUFFICES ASSUME y # <<>> PROVE x[Len(x) - 1] = Last(y)
    OBVIOUS
  <2>1. Len(y) \in Nat \ {0} /\ Last(y) = y[Len(y)]
    BY LastOf DEF Strings
  <2> DEFINE n == Len(y)
  <2>2. n \in 1 .. Len(y) /\ Len(x) - 1 = n
    BY <1>1, <2>1
  <2>3. x[n] = y[n]
    BY <1>1, <2>2
  <2> QED
    BY <2>1, <2>2, <2>3
<1>4. y = <<>> => Words[y] = <<>>
  BY NoWords
<1> HIDE DEF x
<1>5. Words[x] = WordsStep(Words, x)
  BY <1>1, WordsIs
<1>6. Words[x] = IF z = Blank THEN Words[y]
                 ELSE IF Words[y] = <<>> \/ x[Len(x) - 1] = Blank THEN Append(Words[y], <<z>>)
                 ELSE Append(Front(Words[y]), Append(Last(Words[y]), z))
  BY <1>1, <1>5 DEF WordsStep
<1>7. /\ z = Blank => Words[x] = Words[y]
      /\ z # Blank /\ (Words[y] = <<>> \/ y = <<>> \/ Last(y) = Blank) =>
            Words[x] = Append(Words[y], <<z>>)
      /\ z # Blank /\ Words[y] # <<>> /\ y # <<>> /\ Last(y) # Blank =>
            Words[x] = Append(Front(Words[y]), Append(Last(Words[y]), z))
  BY <1>3, <1>4, <1>6
<1> QED
  BY <1>1, <1>2, <1>7 DEF x

\* Where there is no word there are only blanks.
LEMMA NoWordNoText ==
    ASSUME NEW y \in Strings, y # <<>>, Words[y] = <<>> PROVE Last(y) = Blank
<1> SUFFICES ASSUME Last(y) # Blank PROVE FALSE
  OBVIOUS
<1> DEFINE f == Front(y)
           z == Last(y)
<1>1. y = Append(f, z) /\ f \in Strings /\ z \in Bytes
  BY SplitLast, LastOf DEF Strings
<1> HIDE DEF f
<1>2. z # Blank
  OBVIOUS
<1> HIDE DEF z
<1>3. Words[f] \in Seq(Strings) /\ <<z>> \in Strings
  BY <1>1, WordsIs, Single DEF Strings
<1> DEFINE u == <<z>>
<1>4. CASE Words[f] = <<>> \/ f = <<>> \/ Last(f) = Blank
  <2>1. Words[y] = Append(Words[f], u)
    BY <1>1, <1>2, <1>4, WordsMore
  <2>2. u \in Strings
    BY <1>3
  <2> HIDE DEF u
  <2>3. Append(Words[f], u) # <<>>
    BY <1>3, <2>2, AppendOf
  <2> QED
    BY <2>1, <2>3
<1>5. CASE Words[f] # <<>> /\ f # <<>> /\ Last(f) # Blank
  <2> DEFINE g == Front(Words[f])
             l == Append(Last(Words[f]), z)
  <2>1. Words[y] = Append(g, l)
    BY <1>1, <1>2, <1>5, WordsMore
  <2>2. g \in Seq(Strings) /\ l \in Strings
    <3>1. g \in Seq(Strings) /\ Last(Words[f]) \in Strings
      BY <1>3, <1>5, LastOf
    <3> QED
      BY <1>1, <3>1, AppendOf DEF Strings
  <2> HIDE DEF g, l
  <2>3. Append(g, l) # <<>>
    BY <2>2, AppendOf
  <2> QED
    BY <2>1, <2>3
<1> QED
  BY <1>4, <1>5

-----------------------------------------------------------------------------
(* A word after a blank. *)

LEMMA WordAlone ==
    ASSUME NEW z \in Bytes, z # Blank PROVE Words[<<z>>] = <<<<z>>>>
<1>1. Append(<<>>, z) = <<z>> /\ Append(<<>>, <<z>>) = <<<<z>>>>
  OBVIOUS
<1>2. Words[Append(<<>>, z)] = Append(<<>>, <<z>>)
  BY NoWords, WordsMore
<1> QED
  BY <1>1, <1>2

\* Words without blanks.
Solids == {w \in Strings : w # <<>> /\ \A i \in 1 .. Len(w) : w[i] # Blank}

LEMMA SolidParts ==
    ASSUME NEW w \in Solids
    PROVE  /\ w \in Strings /\ w # <<>> /\ Last(w) \in Bytes /\ Last(w) # Blank
           /\ w = Append(Front(w), Last(w)) /\ Front(w) \in Strings
           /\ Len(Front(w)) < Len(w) /\ Len(w) \in Nat
           /\ Front(w) # <<>> => Front(w) \in Solids
<1>1. w \in Strings /\ w # <<>> /\ \A i \in 1 .. Len(w) : w[i] # Blank
  BY DEF Solids
<1>2. /\ Last(w) \in Bytes /\ Last(w) = w[Len(w)]
      /\ Front(w) \in Strings /\ Len(Front(w)) = Len(w) - 1
      /\ \A i \in 1 .. Len(w) - 1 : Front(w)[i] = w[i]
      /\ Len(w) \in Nat \ {0}
  BY <1>1, LastOf DEF Strings
<1>3. Last(w) # Blank /\ Len(Front(w)) < Len(w)
  BY <1>1, <1>2
<1>4. w = Append(Front(w), Last(w))
  BY <1>1, SplitLast DEF Strings
<1>5. \A i \in 1 .. Len(Front(w)) : Front(w)[i] # Blank
  BY <1>1, <1>2
<1> QED
  BY <1>1, <1>2, <1>3, <1>4, <1>5 DEF Solids

After(t, w) == (t \o <<Blank>>) \o w

\* One character more at the end of a word.
LEMMA AfterMore ==
    ASSUME NEW t \in Strings, NEW f \in Strings, NEW z \in Bytes
    PROVE  /\ After(t, f) \in Strings /\ After(t, Append(f, z)) = Append(After(t, f), z)
           /\ After(t, f) # <<>>
           /\ f = <<>> => Last(After(t, f)) = Blank
           /\ f # <<>> => Last(After(t, f)) = Last(f)
<1> DEFINE b == t \o <<Blank>>
<1>1. Blank \in Bytes /\ <<Blank>> \in Strings
  BY BytesAssumption, Single DEF Strings
<1>2. b = Append(t, Blank) /\ b \in Strings /\ b # <<>> /\ Last(b) = Blank
  <2>1. b = Append(t, Blank)
    BY <1>1, AppendIsConcat DEF Strings
  <2> HIDE DEF b
  <2> QED
    BY <1>1, <2>1, AppendOf DEF Strings
<1> HIDE DEF b
<1>3. After(t, f) = b \o f /\ After(t, Append(f, z)) = b \o Append(f, z)
  BY DEF After, b
<1>4. b \o f \in Strings /\ b \o Append(f, z) = Append(b \o f, z)
  BY <1>2, ConcatProperties, ConcatAppend DEF Strings
<1>5. f = <<>> => b \o f = b
  BY <1>2, NoBytes DEF Strings
<1>6. f # <<>> => b \o f # <<>> /\ Last(b \o f) = Last(f)
  <2> SUFFICES ASSUME f # <<>> PROVE b \o f # <<>> /\ Last(b \o f) = Last(f)
    OBVIOUS
  <2>1. f = Append(Front(f), Last(f)) /\ Front(f) \in Strings /\ Last(f) \in Bytes
    BY SplitLast, LastOf DEF Strings
  <2> DEFINE g == Front(f)
             y == Last(f)
  <2>2. f = Append(g, y) /\ g \in Strings /\ y \in Bytes
    BY <2>1
  <2> HIDE DEF g, y
  <2> DEFINE h == b \o g
  <2>3. b \o f = Append(h, y) /\ h \in Strings
    BY <1>2, <2>2, ConcatProperties, ConcatAppend DEF Strings
  <2> HIDE DEF h
  <2>4. b \o f # <<>> /\ Last(b \o f) = y
    BY <2>2, <2>3, AppendOf DEF Strings
  <2> QED
    BY <2>4 DEF y
<1> QED
  BY <1>2, <1>3, <1>4, <1>5, <1>6

LEMMA WordAfter ==
    ASSUME NEW t \in Strings, NEW w \in Solids
    PROVE  After(t, w) \in Strings /\ Words[After(t, w)] = Append(Words[t], w)
<1> DEFINE D == Solids
           m == [d \in D |-> Len(d)]
           Good == {d \in D : Words[After(t, d)] = Append(Words[t], d)}
<1>1. \A d \in D : m[d] \in Nat
  BY SolidParts
<1>2. ASSUME NEW x \in D, \A e \in D : m[e] < m[x] => e \in Good
      PROVE  x \in Good
  <2> DEFINE f == Front(x)
             z == Last(x)
             y == After(t, f)
  <2>1. /\ x = Append(f, z) /\ f \in Strings /\ z \in Bytes /\ z # Blank
        /\ f # <<>> => f \in D /\ m[f] < m[x]
    BY SolidParts
  <2>2. f # <<>> => Words[After(t, f)] = Append(Words[t], f)
    BY <1>2, <2>1
  <2>7. f # <<>> => Last(f) # Blank
    BY <2>1, SolidParts
  <2> HIDE DEF f, z, m, Good
  <2>3. /\ y \in Strings /\ After(t, x) = Append(y, z) /\ y # <<>>
        /\ f = <<>> => Last(y) = Blank
        /\ f # <<>> => Last(y) = Last(f)
    BY <2>1, AfterMore
  <2>4. Words[t] \in Seq(Strings)
    BY WordsIs
  <2>5. CASE f = <<>>
    <3>1. Words[Append(y, z)] = Append(Words[y], <<z>>)
      BY <2>1, <2>3, <2>5, WordsMore
    <3>2. y = Append(t, Blank)
      <4>1. t \o <<Blank>> = Append(t, Blank) /\ t \o <<Blank>> \in Strings
        BY BytesAssumption, AppendIsConcat, AppendOf DEF Strings
      <4> QED
        BY <2>5, <4>1, NoBytes DEF After, Strings
    <3>3. Words[Append(t, Blank)] = Words[t]
      BY BytesAssumption, WordsMore
    <3>4. x = <<z>>
      BY <2>1, <2>5
    <3> QED
      BY <2>3, <3>1, <3>2, <3>3, <3>4 DEF Good
  <2>6. CASE f # <<>>
    <3> DEFINE u == Append(Words[t], f)
    <3>1. u # <<>> /\ Front(u) = Words[t] /\ Last(u) = f
      BY <2>1, <2>4, AppendOf
    <3>2. Words[y] = u
      BY <2>2, <2>6
    <3> HIDE DEF u, y
    <3>3. Last(y) # Blank
      BY <2>3, <2>6, <2>7
    <3>4. Words[Append(y, z)] = Append(Front(Words[y]), Append(Last(Words[y]), z))
      BY <2>1, <2>3, <3>1, <3>2, <3>3, WordsMore
    <3> QED
      BY <2>1, <2>3, <3>1, <3>2, <3>4 DEF Good
  <2> QED
    BY <2>5, <2>6
<1> HIDE DEF m, Good
<1>3. \A d \in D : d \in Good
  BY <1>1, <1>2, BySize
<1>4. After(t, w) \in Strings
  <2>1. Blank \in Bytes /\ w \in Strings
    BY BytesAssumption, SolidParts
  <2> QED
    BY <2>1, AfterMore
<1> QED
  BY <1>3, <1>4 DEF Good

-----------------------------------------------------------------------------
(* What Decode makes of what Encode has made. *)

\* Words that stand for themselves.
Bare == {w \in Strings : w # <<>> /\ w[1] # Quote}

LEMMA TokensBare ==
    ASSUME NEW words \in Seq(Bare) PROVE Tokens[words] = words
<1> DEFINE D == Seq(Bare)
           m == [d \in D |-> Len(d)]
           Good == {d \in D : Tokens[d] = d}
<1>0. \A d \in D : d \in Seq(Strings)
  BY PartsTyped DEF Bare
<1>1. \A d \in D : m[d] \in Nat
  BY LenProperties
<1>2. ASSUME NEW x \in D, \A e \in D : m[e] < m[x] => e \in Good
      PROVE  x \in Good
  <2>1. Tokens[x] = TokensStep(Tokens, x)
    BY <1>0, TokensIs
  <2>2. CASE x = <<>>
    BY <2>1, <2>2 DEF TokensStep
  <2>3. CASE x # <<>>
    <3>1. /\ Head(x) \in Bare /\ Head(x) = x[1] /\ Tail(x) \in D
          /\ Len(x) \in Nat \ {0} /\ Len(Tail(x)) = Len(x) - 1
      BY <2>3, TailOf
    <3>2. m[Tail(x)] < m[x]
      BY <3>1
    <3>3. Tokens[Tail(x)] = Tail(x)
      BY <1>2, <3>1, <3>2 DEF Good
    <3>4. x[1][1] # Quote
      BY <3>1 DEF Bare
    <3>5. Tokens[x] = <<Head(x)>> \o Tail(x)
      BY <2>1, <2>3, <3>3, <3>4 DEF TokensStep
    <3>6. <<Head(x)>> \o Tail(x) = x
      BY <2>3, HeadTailAppend
    <3> QED
      BY <3>5, <3>6
  <2> QED
    BY <2>2, <2>3
<1>4. words \in D
  OBVIOUS
<1> HIDE DEF D, m, Good
<1>3. \A d \in D : d \in Good
  BY <1>1, <1>2, BySize
<1> QED
  BY <1>3, <1>4 DEF Good

\* The first word is the word for the type.
Headed(z, u) ==
    /\ Words[<<z>> \o u] # <<>> /\ Words[<<z>> \o u][1] = <<z>>
    /\ u # <<>> /\ Last(u) # Blank => Len(Words[<<z>> \o u]) > 1

Spaced == {u \in Strings : u = <<>> \/ u[1] = Blank}

LEMMA SpacedFront ==
    ASSUME NEW u \in Spaced, u # <<>>
    PROVE  /\ Front(u) \in Spaced /\ Len(Front(u)) < Len(u) /\ Last(u) \in Bytes
           /\ u = Append(Front(u), Last(u)) /\ (Front(u) = <<>> => Last(u) = Blank)
           /\ Front(u) \in Strings
<1>1. /\ Last(u) \in Bytes /\ Last(u) = u[Len(u)]
      /\ Front(u) \in Strings /\ Len(Front(u)) = Len(u) - 1
      /\ \A i \in 1 .. Len(u) - 1 : Front(u)[i] = u[i]
      /\ Len(u) \in Nat \ {0} /\ u = Append(Front(u), Last(u)) /\ u[1] = Blank
  BY LastOf, SplitLast DEF Strings, Spaced
<1>2. Front(u) = <<>> => Len(Front(u)) = 0
  BY EmptySeq
<1>3. Front(u) # <<>> => Len(Front(u)) # 0
  BY <1>1, EmptySeq DEF Strings
<1>4. Front(u) = <<>> => Last(u) = Blank
  BY <1>1, <1>2
<1>5. Front(u) # <<>> => Front(u)[1] = Blank
  BY <1>1, <1>3
<1> QED
  BY <1>1, <1>4, <1>5 DEF Spaced

LEMMA FirstStays ==
    ASSUME NEW words \in Seq(Strings), words # <<>>, NEW w \in Strings
    PROVE  /\ Append(words, w) # <<>> /\ Append(words, w)[1] = words[1]
           /\ Len(Append(words, w)) > 1
           /\ Len(words) > 1 =>
                 /\ Append(Front(words), w) # <<>> /\ Append(Front(words), w)[1] = words[1]
                 /\ Len(Append(Front(words), w)) > 1
<1>1. Len(words) \in Nat \ {0}
  BY EmptySeq
<1>2. /\ Append(words, w) # <<>> /\ Len(Append(words, w)) > 1
  BY <1>1, AppendOf
<1>3. Append(words, w)[1] = words[1]
  BY <1>1, AppendProperties
<1> DEFINE f == Front(words)
<1>4. f \in Seq(Strings) /\ Len(f) = Len(words) - 1 /\ \A i \in 1 .. Len(f) : f[i] = words[i]
  BY LastOf
<1> HIDE DEF f
<1>5. Append(f, w) # <<>> /\ Len(Append(f, w)) = Len(f) + 1
      /\ \A i \in 1 .. Len(f) : Append(f, w)[i] = f[i]
  BY <1>4, AppendOf, AppendProperties
<1>6. Len(words) > 1 => Append(f, w)[1] = words[1] /\ Len(Append(f, w)) > 1
  BY <1>1, <1>4, <1>5
<1> QED
  BY <1>2, <1>3, <1>5, <1>6 DEF f

LEMMA TypeFirst ==
    ASSUME NEW z \in Bytes, z # Blank, NEW text \in Spaced
    PROVE  Headed(z, text)
<1> DEFINE D == Spaced
           m == [d \in D |-> Len(d)]
           Good == {d \in D : Headed(z, d)}
<1>0. <<z>> \in Strings /\ Words[<<z>>] = <<<<z>>>>
  BY Single, WordAlone DEF Strings
<1>1. \A d \in D : m[d] \in Nat
  BY LenProperties DEF Spaced, Strings
<1>2. ASSUME NEW x \in D, \A e \in D : m[e] < m[x] => e \in Good
      PROVE  x \in Good
  <2>1. CASE x = <<>>
    BY <1>0, <2>1, NoBytes DEF Headed, Strings
  <2>2. CASE x # <<>>
    <3> DEFINE f == Front(x)
               y == Last(x)
               t == <<z>> \o f
               words == Words[t]
    <3>1. /\ f \in D /\ m[f] < m[x] /\ y \in Bytes /\ x = Append(f, y)
          /\ f = <<>> => y = Blank
          /\ f \in Strings
      BY <2>2, SpacedFront
    <3>2. Headed(z, f)
      BY <1>2, <3>1
    <3> HIDE DEF f, y, m
    <3>3. t \in Strings /\ <<z>> \o x = Append(t, y)
      BY <1>0, <3>1, ConcatProperties, ConcatAppend DEF Strings
    <3>4. f # <<>> => t # <<>> /\ Last(t) = Last(f)
      <4> SUFFICES ASSUME f # <<>> PROVE t # <<>> /\ Last(t) = Last(f)
        OBVIOUS
      <4>1. f = Append(Front(f), Last(f)) /\ Front(f) \in Strings /\ Last(f) \in Bytes
        BY <3>1, SplitLast, LastOf DEF Strings
      <4> DEFINE g == Front(f)
                 l == Last(f)
                 h == <<z>> \o g
      <4>2. f = Append(g, l) /\ g \in Strings /\ l \in Bytes
        BY <4>1
      <4> HIDE DEF g, l
      <4>3. t = Append(h, l) /\ h \in Strings
        BY <1>0, <4>2, ConcatProperties, ConcatAppend DEF Strings
      <4> HIDE DEF h, t
      <4> QED
        BY <4>2, <4>3, AppendOf DEF Strings, l
    <3>5. /\ words # <<>> /\ words[1] = <<z>> /\ words \in Seq(Strings)
          /\ f # <<>> /\ Last(f) # Blank => Len(words) > 1
      BY <3>2, <3>3, WordsIs DEF Headed
    <3>6. Words[<<z>> \o x] = Words[Append(t, y)] /\ Last(x) = y
      BY <3>3 DEF y
    <3> HIDE DEF words
    <3>7. CASE y = Blank
      <4>1. Words[Append(t, y)] = Words[t]
        BY <3>1, <3>3, <3>7, WordsMore
      <4> QED
        BY <3>5, <3>6, <3>7, <4>1 DEF Headed, words
    <3>8. CASE y # Blank
      <4>0. f # <<>> /\ t # <<>> /\ Last(t) = Last(f)
        BY <3>1, <3>4, <3>8
      <4> HIDE DEF t
      <4>1. <<y>> \in Strings
        BY <3>1, Single DEF Strings
      <4>2. CASE Last(t) = Blank
        <5>1. Words[Append(t, y)] = Append(words, <<y>>)
          BY <3>1, <3>3, <3>8, <4>2, WordsMore DEF words
        <5> DEFINE u == <<y>>
        <5>2. Words[Append(t, y)] = Append(words, u) /\ u \in Strings
          BY <4>1, <5>1
        <5> HIDE DEF u
        <5>3. /\ Append(words, u) # <<>> /\ Append(words, u)[1] = words[1]
              /\ Len(Append(words, u)) > 1
          BY <3>5, <5>2, FirstStays
        <5> QED
          BY <3>5, <3>6, <5>2, <5>3 DEF Headed
      <4>3. CASE Last(t) # Blank
        <5> DEFINE u == Append(Last(words), y)
        <5>1. Words[Append(t, y)] = Append(Front(words), u)
          BY <3>1, <3>3, <3>5, <3>8, <4>0, <4>3, WordsMore DEF words
        <5>2. u \in Strings
          <6>1. Last(words) \in Strings
            BY <3>5, LastOf
          <6> QED
            BY <3>1, <6>1, AppendOf DEF Strings
        <5> HIDE DEF u
        <5>3. /\ Append(Front(words), u) # <<>> /\ Append(Front(words), u)[1] = words[1]
              /\ Len(Append(Front(words), u)) > 1
          BY <3>5, <4>0, <4>3, <5>2, FirstStays
        <5> QED
          BY <3>5, <3>6, <5>1, <5>3 DEF Headed
      <4> QED
        BY <4>2, <4>3
    <3> QED
      BY <3>7, <3>8
  <2> QED
    BY <2>1, <2>2
<1> HIDE DEF m, Good
<1>3. \A d \in D : d \in Good
  BY <1>1, <1>2, BySize
<1> QED
  BY <1>3 DEF Good

-----------------------------------------------------------------------------
(* Messages come back as they were sent, if their arguments are plain. *)

LEMMA TypeWords == \A t \in Types : t \in Bytes /\ t # Blank /\ t # Quote
<1>1. Types \subseteq Bytes
  BY BytesAssumption
<1>2. Blank \notin Types /\ Quote \notin Types
  BY DEF Types, Requests, Blank, Quote
<1> QED
  BY <1>1, <1>2

\* What stands behind the type begins with a blank.
LEMMA FlattenSpaced ==
    ASSUME NEW seqs \in Seq(Spaced) PROVE FlattenSeq(seqs) \in Spaced
<1> DEFINE D == Seq(Spaced)
           m == [d \in D |-> Len(d)]
           Good == {d \in D : FlattenSeq(d) \in Spaced}
<1>1. \A d \in D : m[d] \in Nat
  BY LenProperties
<1>2. ASSUME NEW x \in D, \A e \in D : m[e] < m[x] => e \in Good
      PROVE  x \in Good
  <2>1. CASE x = <<>>
    BY <2>1, FlattenEmpty, EmptySeq DEF Spaced, Strings
  <2>2. CASE x # <<>>
    <3> DEFINE f == Front(x)
               s == Last(x)
               t == FlattenSeq(f)
    <3>1. f \in D /\ s \in Spaced /\ x = Append(f, s) /\ m[f] < m[x]
      BY <2>2, LastOf, SplitLast
    <3>2. t \in Spaced
      BY <1>2, <3>1
    <3>3. f \in Seq(Seq(Bytes)) /\ s \in Seq(Bytes) /\ t \in Seq(Bytes)
      <4>1. Spaced \subseteq Strings
        BY DEF Spaced
      <4>2. f \in Seq(Strings)
        BY <3>1, <4>1, PartsTyped
      <4> QED
        BY <3>1, <3>2, <4>1, <4>2 DEF Strings
    <3> HIDE DEF f, s, m
    <3>4. FlattenSeq(x) = t \o s
      BY <3>1, <3>3, FlattenAppend
    <3> HIDE DEF t
    <3>5. t \o s \in Strings
      BY <3>3, ConcatProperties DEF Strings
    <3>6. CASE t = <<>>
      <4>1. t \o s = s
        BY <3>3, <3>6, NoBytes
      <4> QED
        BY <3>1, <3>4, <4>1
    <3>7. CASE t # <<>>
      <4>1. 1 \in 1 .. Len(t) /\ t[1] = Blank
        <5>1. Len(t) \in Nat \ {0}
          BY <3>3, <3>7, EmptySeq
        <5> QED
          BY <3>2, <3>7, <5>1 DEF Spaced
      <4>2. (t \o s)[1] = t[1]
        BY <3>3, <4>1, Unjoin
      <4> QED
        BY <3>4, <3>5, <4>1, <4>2 DEF Spaced
    <3> QED
      BY <3>6, <3>7
  <2> QED
    BY <2>1, <2>2
<1>4. seqs \in D
  OBVIOUS
<1> HIDE DEF D, m, Good
<1>3. \A d \in D : d \in Good
  BY <1>1, <1>2, BySize
<1> QED
  BY <1>3, <1>4 DEF Good

LEMMA BlankFirst ==
    ASSUME NEW s \in Strings PROVE <<Blank>> \o s \in Spaced
<1>1. <<Blank>> \in Strings /\ Len(<<Blank>>) = 1 /\ <<Blank>>[1] = Blank
  BY BytesAssumption, Single DEF Strings
<1>2. <<Blank>> \o s \in Strings /\ (<<Blank>> \o s)[1] = <<Blank>>[1]
  BY <1>1, ConcatProperties, Unjoin DEF Strings
<1> QED
  BY <1>1, <1>2 DEF Spaced

\* The type comes back, whatever the arguments.
LEMMA TypeKept ==
    ASSUME NEW msg, msg.type \in Types, msg.args \in Seq(Seq(Plains))
    PROVE  /\ Decode(Encode(msg)) # Invalid /\ Decode(Encode(msg)).type = msg.type
           /\ Decode(Encode(msg)) = Message(msg.type, Tail(Tokens[Words[Body(msg)]]))
           /\ Encode(msg) \in Strings
<1> DEFINE Argument(i) == IF msg.type \in {"FAILED", "ERROR"} /\ i = 1
                            THEN Quoted(msg.args[i]) ELSE msg.args[i]
           F == [i \in DOMAIN msg.args |-> <<Blank>> \o Argument(i)]
           z == msg.type
           text == FlattenSeq(F)
           words == Words[Body(msg)]
           tokens == Tokens[words]
<1>1. z \in Types /\ z \in Bytes /\ z # Blank /\ z # Quote
  BY TypeWords
<1>2. F \in Seq(Spaced)
  <2>1. DOMAIN msg.args = 1 .. Len(msg.args) /\ Len(msg.args) \in Nat
    BY LenProperties
  <2>2. \A i \in DOMAIN msg.args : msg.args[i] \in Strings
    <3>1. \A i \in DOMAIN msg.args : msg.args[i] \in Seq(Plains)
      BY <2>1, ElementOfSeq
    <3>2. \A s \in Seq(Plains) : s \in Strings
      BY PlainBytes, PartsTyped DEF Strings
    <3> QED
      BY <3>1, <3>2
  <2>3. \A s \in Strings : Quoted(s) \in Strings
    <3>1. <<Quote>> \in Strings
      BY BytesAssumption, Single DEF Strings
    <3> QED
      BY <3>1, ConcatProperties DEF Quoted, Strings
  <2>4. \A i \in DOMAIN msg.args : Argument(i) \in Strings
    BY <2>2, <2>3
  <2> HIDE DEF Argument
  <2>5. \A i \in DOMAIN msg.args : <<Blank>> \o Argument(i) \in Spaced
    BY <2>4, BlankFirst
  <2>6. F \in [1 .. Len(msg.args) -> Spaced]
    BY <2>1, <2>5
  <2> QED
    BY <2>1, <2>6
<1>3. Body(msg) = <<z>> \o text
  BY DEF Body
<1>4. text \in Spaced
  <2> HIDE DEF F
  <2> QED
    BY <1>2, FlattenSpaced
<1>5. Body(msg) \in Seq(Plains) /\ Encode(msg) = Body(msg) \o <<Newline>>
  BY PlainBytes, BodyType
<1>6. /\ Encode(msg) \in Strings /\ Encode(msg) # <<>>
      /\ Front(Encode(msg)) = Body(msg) /\ Last(Encode(msg)) = Newline
  <2> DEFINE h == Body(msg)
             line == h \o <<Newline>>
  <2> HIDE DEF h
  <2>1. /\ line \in Strings /\ line # <<>> /\ WholeLine(line) /\ Front(line) = h
    BY <1>5, LineIs DEF h
  <2>2. line[Len(line)] = Newline
    BY <2>1 DEF WholeLine
  <2> HIDE DEF line
  <2>3. Last(line) = Newline
    BY <2>1, <2>2, LastOf DEF Strings
  <2> QED
    BY <1>5, <2>1, <2>3 DEF line, h
<1> HIDE DEF F, text, z
<1>7. words # <<>> /\ words[1] = <<z>>
  BY <1>1, <1>3, <1>4, TypeFirst DEF Headed
<1>8. words \in Seq(Strings)
  <2>1. Body(msg) \in Strings
    BY <1>5, PlainBytes, PartsTyped DEF Strings
  <2> QED
    BY <2>1, WordsIs
<1> HIDE DEF words
<1>9. tokens # <<>> /\ tokens[1] = <<z>>
  <2>1. tokens = TokensStep(Tokens, words)
    BY <1>8, TokensIs
  <2>2. words[1][1] # Quote
    BY <1>1, <1>7
  <2>3. tokens = <<Head(words)>> \o Tokens[Tail(words)]
    BY <1>7, <2>1, <2>2 DEF TokensStep
  <2>4. /\ Head(words) = <<z>> /\ <<Head(words)>> \in Seq(Strings)
        /\ Tail(words) \in Seq(Strings)
    BY <1>7, <1>8, TailOf, Single
  <2>5. Tokens[Tail(words)] \in Seq(Strings)
    BY <2>4, TokensIs
  <2> DEFINE a == <<Head(words)>>
             b == Tokens[Tail(words)]
  <2>6. a \in Seq(Strings) /\ b \in Seq(Strings) /\ Len(a) = 1 /\ a[1] = <<z>>
    BY <2>4, <2>5
  <2>7. tokens = a \o b
    BY <2>3
  <2> HIDE DEF a, b
  <2>8. Len(a \o b) = 1 + Len(b) /\ (a \o b)[1] = a[1] /\ Len(b) \in Nat
    <3>1. Len(a \o b) = Len(a) + Len(b) /\ Len(b) \in Nat
      BY <2>6, ConcatProperties, LenProperties
    <3>2. 1 \in 1 .. Len(a) + Len(b) /\ 1 <= Len(a)
      BY <2>6, <3>1
    <3>3. (a \o b)[1] = IF 1 <= Len(a) THEN a[1] ELSE b[1 - Len(a)]
      BY <2>6, <3>2, ConcatProperties
    <3> QED
      BY <2>6, <3>1, <3>2, <3>3
  <2>9. Len(a \o b) # 0
    BY <2>8
  <2>10. a \o b # <<>>
    BY <2>9, EmptySeq
  <2> QED
    BY <2>6, <2>7, <2>8, <2>10
<1> HIDE DEF tokens
<1>10. Decode(Encode(msg)) = Message(z, Tail(tokens))
  <2>1. <<z>> \in {<<t>> : t \in Types} /\ <<z>>[1] = z
    BY <1>1
  <2>2. tokens = Tokens[Words[Front(Encode(msg))]]
    BY <1>6 DEF tokens, words
  <2> QED
    BY <1>6, <1>9, <2>1, <2>2 DEF Decode
<1>11. Message(z, Tail(tokens)).type = z /\ Invalid.type = "invalid" /\ "invalid" \notin Types
  BY DEF Message, Invalid, Types, Requests
<1>12. Decode(Encode(msg)) # Invalid /\ Decode(Encode(msg)).type = z
  BY <1>1, <1>10, <1>11
<1> QED
  BY <1>6, <1>10, <1>12 DEF z, tokens, words

-----------------------------------------------------------------------------
(* An argument without blanks and quotes comes back as it was.              *)

Safe == {w \in Solids : w \in Seq(Plains) /\ w[1] # Quote}

LEMMA SafeIs ==
    ASSUME NEW a \in Safe
    PROVE  /\ a \in Strings /\ a \in Solids /\ a \in Seq(Plains) /\ a \in Bare
           /\ <<Blank>> \o a \in Strings
<1>1. a \in Strings /\ a # <<>> /\ a \in Solids /\ a \in Seq(Plains) /\ a[1] # Quote
  BY DEF Safe, Solids
<1>2. <<Blank>> \in Strings
  BY BytesAssumption, Single DEF Strings
<1> QED
  BY <1>1, <1>2, ConcatProperties DEF Bare, Strings

LEMMA TypeIsSafe == ASSUME NEW t \in Types PROVE <<t>> \in Safe /\ Words[<<t>>] = <<<<t>>>>
<1>1. t \in Bytes /\ t # Blank /\ t # Quote /\ t \in Plains
  BY TypeWords, PlainBytes
<1> DEFINE w == <<t>>
<1>2. w \in Strings /\ Len(w) = 1 /\ w[1] = t /\ w \in Seq(Plains) /\ w # <<>>
  BY <1>1, Single DEF Strings
<1>3. Words[w] = <<w>>
  BY <1>1, WordAlone
<1> HIDE DEF w
<1>4. w \in Safe
  BY <1>1, <1>2 DEF Safe, Solids
<1> QED
  BY <1>3, <1>4 DEF w

LEMMA TwoOf ==
    ASSUME NEW V, NEW h \in V, NEW a \in V
    PROVE  Append(<<h>>, a) = <<h, a>> /\ Tail(<<h, a>>) = <<a>> /\ <<h, a>> \in Seq(V)
<1> DEFINE s == <<h>>
           t == <<h, a>>
<1>0. s \in Seq(V)
  BY Single
<1>1. Len(s) = 1 /\ s[1] = h
  BY Single
<1>2. t \in Seq(V) /\ Len(t) = 2 /\ t[1] = h /\ t[2] = a /\ Tail(t) = <<a>>
  OBVIOUS
<1> HIDE DEF s, t
<1>3. /\ Append(s, a) \in Seq(V) /\ Len(Append(s, a)) = 2 /\ Append(s, a)[1] = h
      /\ Append(s, a)[2] = a
  <2>1. /\ Append(s, a) \in Seq(V) /\ Len(Append(s, a)) = Len(s) + 1
        /\ Last(Append(s, a)) = a
    BY <1>0, AppendOf
  <2>2. \A i \in 1 .. Len(s) : Append(s, a)[i] = s[i]
    BY <1>0, AppendProperties
  <2>3. Append(s, a)[1] = s[1]
    BY <1>1, <2>2
  <2>4. Len(Append(s, a)) = 2
    BY <1>1, <2>1
  <2> QED
    BY <1>1, <2>1, <2>3, <2>4 DEF Last
<1>4. Append(s, a) = t
  BY <1>2, <1>3, SeqEqual
<1> QED
  BY <1>2, <1>4 DEF s, t

LEMMA ThreeOf ==
    ASSUME NEW V, NEW h \in V, NEW a \in V, NEW b \in V
    PROVE  /\ Append(<<h, a>>, b) = <<h, a, b>> /\ Tail(<<h, a, b>>) = <<a, b>>
           /\ <<h, a, b>> \in Seq(V)
<1> DEFINE s == <<h, a>>
           t == <<h, a, b>>
<1>0. s \in Seq(V)
  OBVIOUS
<1>1. Len(s) = 2 /\ s[1] = h /\ s[2] = a
  OBVIOUS
<1>2. t \in Seq(V) /\ Len(t) = 3 /\ t[1] = h /\ t[2] = a /\ t[3] = b /\ Tail(t) = <<a, b>>
  OBVIOUS
<1> HIDE DEF s, t
<1>3. /\ Append(s, b) \in Seq(V) /\ Len(Append(s, b)) = 3 /\ Append(s, b)[1] = h
      /\ Append(s, b)[2] = a /\ Append(s, b)[3] = b
  <2>1. /\ Append(s, b) \in Seq(V) /\ Len(Append(s, b)) = Len(s) + 1
        /\ Last(Append(s, b)) = b
    BY <1>0, AppendOf
  <2>2. \A i \in 1 .. Len(s) : Append(s, b)[i] = s[i]
    BY <1>0, AppendProperties
  <2>3. Append(s, b)[1] = s[1] /\ Append(s, b)[2] = s[2]
    <3>1. 1 \in 1 .. Len(s) /\ 2 \in 1 .. Len(s)
      BY <1>1
    <3> QED
      BY <2>2, <3>1
  <2>4. Len(Append(s, b)) = 3
    BY <1>1, <2>1
  <2> QED
    BY <1>1, <2>1, <2>3, <2>4 DEF Last
<1>4. Append(s, b) = t
  BY <1>2, <1>3, SeqEqual
<1> QED
  BY <1>2, <1>4 DEF s, t

LEMMA BodyIs ==
    ASSUME NEW m, m.type \notin {"FAILED", "ERROR"}
    PROVE  Body(m) = <<m.type>> \o FlattenSeq([i \in DOMAIN m.args |-> <<Blank>> \o m.args[i]])
BY DEF Body

\* What stands on the line.
LEMMA BodyOne ==
    ASSUME NEW t \in Types, t \notin {"FAILED", "ERROR"}, NEW a \in Safe
    PROVE  Body(Message(t, <<a>>)) = After(<<t>>, a)
<1> DEFINE u == <<Blank>> \o a
           h == <<t>>
<1>1. h \in Strings /\ a \in Strings /\ u \in Strings /\ <<Blank>> \in Strings
  BY TypeIsSafe, SafeIs, BytesAssumption, Single DEF Strings
<1>2. Body(Message(t, <<a>>)) = h \o FlattenSeq(<<u>>)
  <2> DEFINE m == Message(t, <<a>>)
             F == [i \in DOMAIN m.args |-> <<Blank>> \o m.args[i]]
  <2>1. m.type = t /\ DOMAIN m.args = 1 .. 1 /\ m.args[1] = a
    BY DEF Message
  <2> HIDE DEF m
  <2>2. Body(m) = <<m.type>> \o FlattenSeq(F)
    BY <2>1, BodyIs
  <2>3. F = <<u>>
    <3>1. F = [i \in 1 .. 1 |-> u]
      BY <2>1
    <3> HIDE DEF F, u
    <3> QED
      BY <3>1
  <2> QED
    BY <2>1, <2>2, <2>3 DEF m
<1>3. (h \o <<Blank>>) \o a = h \o (<<Blank>> \o a)
  BY <1>1, Assoc DEF Strings
<1>4. After(h, a) = h \o u
  BY <1>3 DEF After
<1> HIDE DEF u, h
<1>5. FlattenSeq(<<u>>) = u
  BY <1>1, FlattenOne DEF Strings
<1> QED
  BY <1>2, <1>4, <1>5 DEF h

LEMMA BodyTwo ==
    ASSUME NEW t \in Types, t \notin {"FAILED", "ERROR"}, NEW a \in Safe, NEW b \in Safe
    PROVE  Body(Message(t, <<a, b>>)) = After(After(<<t>>, a), b)
<1> DEFINE u == <<Blank>> \o a
           x == <<Blank>> \o b
           h == <<t>>
           g == After(h, a)
           s == <<Blank>>
<1>1. h \in Strings /\ a \in Strings /\ u \in Strings /\ s \in Strings
      /\ b \in Strings /\ x \in Strings
  BY TypeIsSafe, SafeIs, BytesAssumption, Single DEF Strings
<1>2. Body(Message(t, <<a, b>>)) = h \o FlattenSeq(<<u, x>>)
  <2> DEFINE m == Message(t, <<a, b>>)
             F == [i \in DOMAIN m.args |-> <<Blank>> \o m.args[i]]
  <2>1. m.type = t /\ DOMAIN m.args = 1 .. 2 /\ m.args[1] = a /\ m.args[2] = b
    BY DEF Message
  <2> HIDE DEF m
  <2>2. Body(m) = <<m.type>> \o FlattenSeq(F)
    BY <2>1, BodyIs
  <2>3. F = <<u, x>>
    <3>1. F = [i \in 1 .. 2 |-> IF i = 1 THEN u ELSE x]
      BY <2>1
    <3> HIDE DEF F, u, x
    <3> QED
      BY <3>1
  <2> QED
    BY <2>1, <2>2, <2>3 DEF m
<1>3. g = h \o u
  <2>1. (h \o s) \o a = h \o (s \o a)
    BY <1>1, Assoc DEF Strings
  <2> QED
    BY <2>1 DEF After
<1>4. After(g, b) = (g \o s) \o b
  BY DEF After
<1>5. x = s \o b /\ u = s \o a
  OBVIOUS
<1> HIDE DEF u, h, s, g, x
<1>6. <<u, x>> = Append(<<u>>, x) /\ <<u>> \in Seq(Strings)
  BY <1>1, TwoOf, Single
<1>7. FlattenSeq(<<u, x>>) = u \o x
  <2>1. FlattenSeq(<<u>>) = u
    BY <1>1, FlattenOne DEF Strings
  <2> DEFINE us == <<u>>
  <2>2. us \in Seq(Strings)
    BY <1>6
  <2> HIDE DEF us
  <2>3. FlattenSeq(Append(us, x)) = FlattenSeq(us) \o x
    BY <1>1, <2>2, FlattenAppend DEF Strings
  <2> QED
    BY <1>6, <2>1, <2>3 DEF us
<1>8. g \in Strings
  BY <1>1, <1>3, ConcatProperties DEF Strings
<1>9. (g \o s) \o b = g \o x
  BY <1>1, <1>5, <1>8, Assoc DEF Strings
<1>10. g \o x = h \o (u \o x)
  <2>0. h \in Seq(Bytes) /\ u \in Seq(Bytes) /\ x \in Seq(Bytes)
    BY <1>1 DEF Strings
  <2>1. (h \o u) \o x = h \o (u \o x)
    BY <2>0, Assoc
  <2> QED
    BY <1>3, <2>1
<1> QED
  BY <1>2, <1>4, <1>7, <1>9, <1>10 DEF g, h

\* The message that comes back.
LEMMA ComesBack ==
    ASSUME NEW msg, msg.type \in Types, msg.args \in Seq(Seq(Plains)),
           NEW words \in Seq(Bare), Words[Body(msg)] = words
    PROVE  Decode(Encode(msg)) = Message(msg.type, Tail(words))
BY TypeKept, TokensBare

LEMMA RoundTripOne ==
    ASSUME NEW t \in Types, t \notin {"FAILED", "ERROR"}, NEW a \in Safe
    PROVE  Decode(Encode(Message(t, <<a>>))) = Message(t, <<a>>)
<1> DEFINE msg == Message(t, <<a>>)
           h == <<t>>
           words == Append(<<h>>, a)
<1>1. h \in Safe /\ Words[h] = <<h>> /\ h \in Bare /\ h \in Strings /\ a \in Bare
  BY TypeIsSafe, SafeIs
<1>2. msg.type = t /\ msg.args = <<a>> /\ msg.args \in Seq(Seq(Plains))
  BY SafeIs, Single DEF Message
<1>4. Body(msg) = After(h, a)
  BY BodyOne
<1> HIDE DEF h
<1>3. words = <<h, a>> /\ Tail(words) = <<a>> /\ words \in Seq(Bare)
  <2>1. h \in Bare /\ a \in Bare
    BY <1>1
  <2> HIDE DEF msg
  <2>2. /\ Append(<<h>>, a) = <<h, a>> /\ Tail(<<h, a>>) = <<a>>
        /\ <<h, a>> \in Seq(Bare)
    BY <2>1, TwoOf
  <2> QED
    BY <2>2
<1>5. Words[After(h, a)] = words
  BY <1>1, SafeIs, WordAfter
<1> HIDE DEF words, msg
<1>7. Decode(Encode(msg)) = Message(msg.type, Tail(words))
  BY <1>2, <1>3, <1>4, <1>5, ComesBack
<1>8. Message(msg.type, Tail(words)) = Message(t, <<a>>)
  BY <1>2, <1>3
<1> QED
  BY <1>7, <1>8 DEF msg

LEMMA RoundTripTwo ==
    ASSUME NEW t \in Types, t \notin {"FAILED", "ERROR"}, NEW a \in Safe, NEW b \in Safe
    PROVE  Decode(Encode(Message(t, <<a, b>>))) = Message(t, <<a, b>>)
<1> DEFINE msg == Message(t, <<a, b>>)
           h == <<t>>
           first == Append(<<h>>, a)
           words == Append(first, b)
<1>1. h \in Safe /\ Words[h] = <<h>> /\ h \in Bare /\ h \in Strings /\ a \in Bare /\ b \in Bare
  BY TypeIsSafe, SafeIs
<1>2. msg.type = t /\ msg.args = <<a, b>> /\ msg.args \in Seq(Seq(Plains))
  BY SafeIs DEF Message
<1>4. Body(msg) = After(After(h, a), b)
  BY BodyTwo
<1> HIDE DEF h
<1>3. words = <<h, a, b>> /\ Tail(words) = <<a, b>> /\ words \in Seq(Bare)
  <2>1. first = <<h, a>>
    BY <1>1, TwoOf
  <2> HIDE DEF first
  <2>2. words = Append(<<h, a>>, b)
    BY <2>1
  <2> HIDE DEF words
  <2>3. h \in Bare /\ a \in Bare /\ b \in Bare
    BY <1>1
  <2>4. /\ Append(<<h, a>>, b) = <<h, a, b>> /\ Tail(<<h, a, b>>) = <<a, b>>
        /\ <<h, a, b>> \in Seq(Bare)
    BY <2>3, ThreeOf
  <2> QED
    BY <2>2, <2>4
<1>5. Words[After(h, a)] = first /\ After(h, a) \in Strings
  BY <1>1, SafeIs, WordAfter
<1>7. Words[After(After(h, a), b)] = words
  BY <1>5, SafeIs, WordAfter
<1> HIDE DEF words, msg
<1>8. Decode(Encode(msg)) = Message(msg.type, Tail(words))
  BY <1>2, <1>3, <1>4, <1>7, ComesBack
<1>9. Message(msg.type, Tail(words)) = Message(t, <<a, b>>)
  BY <1>2, <1>3
<1> QED
  BY <1>8, <1>9 DEF msg

LEMMA IdentifierIsSafe ==
    ASSUME NEW s \in Seq(Plains), IsValidIdentifier(s) PROVE s \in Safe
<1>1. s \in Strings /\ DOMAIN s = 1 .. Len(s) /\ s # <<>> /\ Len(s) \in Nat \ {0}
  BY PlainBytes, PartsTyped, LenProperties, EmptySeq DEF Strings, IsValidIdentifier
<1>2. \A i \in 1 .. Len(s) : s[i] \in Letters \union Digits
  BY <1>1 DEF IsValidIdentifier
<1>3. \A i \in 1 .. Len(s) : s[i] # Blank /\ s[i] # Quote
  BY <1>2, SeparatorAssumption
<1> QED
  BY <1>1, <1>3 DEF Safe, Solids

LEMMA PlainIsSafe ==
    ASSUME NEW v \in Seq(Plains), Plain(v) PROVE v \in Safe /\ v \in Short
<1>1. v \in Strings /\ DOMAIN v = 1 .. Len(v) /\ v # <<>> /\ Len(v) \in Nat
  BY PlainBytes, PartsTyped, LenProperties DEF Strings, Plain
<1>2. v \in Safe
  BY <1>1 DEF Plain, Safe, Solids
<1>3. Len(Encode(Message("PUSH", <<v>>))) = Len(v) + 3
  <2> DEFINE m == Message("PUSH", <<v>>)
             n == Len(v)
  <2>1. m.type = "PUSH" /\ m.args \in Seq(Seq(Plains)) /\ Len(m.args) = 1 /\ m.args[1] = v
    BY Single DEF Message
  <2>2. m.type \in Types /\ m.type \notin {"FAILED", "ERROR"} /\ Len(m.args[1]) = n
    BY <2>1 DEF Types, Requests
  <2> HIDE DEF m, n
  <2>3. Len(Encode(m)) = n + 3
    BY <2>1, <2>2, EncodeLength
  <2> QED
    BY <2>3 DEF m, n
<1> QED
  BY <1>1, <1>2, <1>3 DEF Plain, Short

-----------------------------------------------------------------------------
(* What has been sent is what is read, from a client that is gone, too.     *)

LEMMA StartOfStart ==
    ASSUME NEW s \in Strings, NEW t \in Strings, NEW u \in Strings,
           IsStart(t, s), IsStart(s, u)
    PROVE  IsStart(t, u)
<1>1. PICK x \in Strings : s = t \o x
  BY DEF IsStart
<1>2. PICK y \in Strings : u = s \o y
  BY DEF IsStart
<1>3. u = t \o (x \o y) /\ x \o y \in Strings
  BY <1>1, <1>2, Assoc, ConcatProperties DEF Strings
<1> QED
  BY <1>3 DEF IsStart

LEMMA NothingStarts == ASSUME NEW s \in Strings PROVE IsStart(<<>>, s) /\ IsStart(s, s)
<1>1. s = <<>> \o s
  BY NoBytes DEF Strings
<1> QED
  BY <1>1, StartOfItself DEF IsStart

\* The start of a line that ends in a newline is the line.
LEMMA LineStarts ==
    ASSUME NEW line \in Strings, NEW rest \in Strings, NEW whole, WholeLine(whole),
           line # <<>>, line[Len(line)] = Newline, IsStart(line \o rest, whole)
    PROVE  whole = line /\ rest = <<>>
<1>1. PICK u \in Strings : whole = (line \o rest) \o u
  BY DEF IsStart
<1> DEFINE more == rest \o u
<1>2. whole = line \o more /\ more \in Strings /\ Len(more) = Len(rest) + Len(u)
  BY <1>1, Assoc, ConcatProperties DEF Strings
<1> HIDE DEF more
<1>3. more = <<>>
  BY <1>2, NothingBehind DEF WholeLine
<1>4. whole = line
  BY <1>2, <1>3, NoBytes DEF Strings
<1>5. Len(rest) = 0
  <2>1. Len(rest) \in Nat /\ Len(u) \in Nat
    BY LenProperties DEF Strings
  <2>2. Len(rest) + Len(u) = 0
    BY <1>2, <1>3, EmptySeq
  <2> QED
    BY <2>1, <2>2
<1> QED
  BY <1>4, <1>5, EmptySeq DEF Strings

LEMMA ReadIsWhole ==
    ASSUME NEW line, Decode(line) # Invalid
    PROVE  line # <<>> /\ line[Len(line)] = Newline
BY DEF Decode, Last

\* As far as there is a request before the thread, it is the last one sent.
Asking(k, w) == w.link # "none" /\ Serves(w) => IsStart(ToServer(w), Sent(k, w))

LEMMA RequestKnown ==
    ASSUME NEW k, Plainly(k), NEW w, ConnOK(w), Asking(k, w), w.link # "none",
           w.session.pc = "read", w.up.reader = "line", Decode(w.up.line) # Invalid
    PROVE  w.up.line = Sent(k, w) /\ Unread(w.up) = <<>>
<1> DEFINE line == w.up.line
           rest == Unread(w.up)
           whole == Sent(k, w)
<1>1. FlowOK(w.up) /\ w.up \in Pipe /\ w.client.step \in 1 .. 4 /\ Serves(w)
  BY ConnParts DEF ClientRecord, Serves
<1>2. line \in Strings /\ rest \in Strings /\ ToServer(w) = line \o rest
  BY <1>1, LineBehind, AheadTyped DEF ToServer
<1>3. IsStart(line \o rest, whole)
  BY <1>1, <1>2 DEF Asking
<1>4. WholeLine(whole)
  BY <1>1, RequestWhole DEF Sent
<1>5. line # <<>> /\ line[Len(line)] = Newline
  BY ReadIsWhole
<1> HIDE DEF line, rest, whole
<1>6. whole = line /\ rest = <<>>
  BY <1>2, <1>3, <1>4, <1>5, LineStarts
<1> QED
  BY <1>6 DEF line, rest, whole

LEMMA AnswerIs ==
    ASSUME NEW a \in Answers
    PROVE  /\ a.type \in Types /\ a.args \in Seq(Seq(Plains))
           /\ a.type = "OK" => a = Ok
           /\ a.type = "DATA" => \E y \in Short : a = Data(y)
<1>1. CASE \E y \in Short : a = Data(y)
  <2>1. PICK y \in Short : a = Data(y)
    BY <1>1
  <2>2. y \in Seq(Plains)
    BY DEF Short
  <2>3. a.type = "DATA" /\ a.args = <<y>>
    BY <2>1 DEF Data, Message
  <2> QED
    BY <2>1, <2>2, <2>3, Single DEF Types
<1>2. CASE a \in {Ok, Failed, Error}
  <2>1. a.type \in {"OK", "FAILED", "ERROR"} /\ a.args \in {<<>>, <<Text>>}
    BY <1>2 DEF Ok, Failed, Error, Message
  <2>2. <<>> \in Seq(Seq(Plains)) /\ <<Text>> \in Seq(Seq(Plains))
    BY PlainBytes, EmptySeq, Single
  <2>3. a.type = "OK" => a = Ok
    BY <1>2 DEF Ok, Failed, Error, Message
  <2> QED
    BY <2>1, <2>2, <2>3 DEF Types
<1> QED
  BY <1>1, <1>2 DEF Answers

LEMMA ReplyKnown ==
    ASSUME NEW w, ConnOK(w), w.link # "none", w.client.pc = "read", w.down.reader = "line",
           Decode(w.down.line) # Invalid, NEW a \in Answers, IsStart(ToClient(w), Encode(a))
    PROVE  w.down.line = Encode(a) /\ Decode(w.down.line).type = a.type
<1> DEFINE line == w.down.line
           rest == Unread(w.down)
           whole == Encode(a)
<1>1. FlowOK(w.down) /\ w.down \in Pipe
  BY ConnParts
<1>2. line \in Strings /\ rest \in Strings /\ ToClient(w) = line \o rest
  BY <1>1, LineBehind, AheadTyped DEF ToClient
<1>3. WholeLine(whole) /\ Decode(whole).type = a.type
  BY AnswerIs, EncodeWhole, TypeKept
<1>5. line # <<>> /\ line[Len(line)] = Newline
  BY ReadIsWhole
<1> HIDE DEF line, rest, whole
<1>6. whole = line /\ rest = <<>>
  BY <1>2, <1>3, <1>5, LineStarts DEF whole
<1> QED
  BY <1>3, <1>6 DEF line, whole

-----------------------------------------------------------------------------
(* Steps that bring neither a request nor an answer.                        *)

Quiet(w, v) ==
    \/ v = w \/ ClientMoves(w, v) \/ AwaitsReply(w, v) \/ Accepts(w, v)
    \/ SessionMoves(w, v) \/ Closes(w, v) \/ AwaitsRequest(w, v) \/ ServerGoes(w, v)

LEMMA ReadsLess ==
    ASSUME NEW p, NEW q, FlowOK(p), FlowOK(q), Reads(p, q) \/ q = p
    PROVE  IsStart(Ahead(q), Ahead(p))
<1>1. p \in Pipe /\ q \in Pipe /\ Ahead(p) \in Strings /\ Ahead(q) \in Strings
  BY AheadTyped DEF FlowOK, PipeOK
<1>2. Ahead(q) = Ahead(p) \/ Ahead(q) = <<>>
  BY ReadsAhead
<1> QED
  BY <1>1, <1>2, NothingStarts

LEMMA LeavesLess ==
    ASSUME NEW w, NEW v, w.up \in Pipe, w.down \in Pipe, ServerLeaves(w, v),
           v.client = w.client
    PROVE  IsStart(ToClient(v), ToClient(w))
BY HungAhead DEF ServerLeaves, ToClient

LEMMA QuietToClient ==
    ASSUME NEW w, NEW v, ConnOK(w), ConnOK(v), w.link # "none", Quiet(w, v)
    PROVE  IsStart(ToClient(v), ToClient(w))
<1>1. /\ w.down \in Pipe /\ w.up \in Pipe /\ FlowOK(w.down) /\ FlowOK(v.down)
      /\ w.client \in ClientRecord /\ ToClient(w) \in Strings
  BY ConnPipes, ConnParts
<1>2. CASE v.client = w.client /\ v.down = w.down
  BY <1>1, <1>2, NothingStarts DEF ToClient
<1>3. CASE ClientMoves(w, v)
  <2>1. CASE v.down = w.down
    BY <1>2, <1>3, <2>1 DEF ClientMoves, ClientStays
  <2>2. CASE w.client.pc = "read" /\ Reads(w.down, v.down)
    BY <1>1, <1>3, <2>2, ReadsLess DEF ClientMoves, ClientStays, ToClient
  <2> QED
    BY <1>3, <2>1, <2>2 DEF ClientMoves
<1>4. CASE AwaitsReply(w, v)
  <2>1. /\ w.client.pc = "write" /\ v.client.pc = "read" /\ v.down = ReadLine(w.down)
        /\ CanReadLine(w.down)
    BY <1>1, <1>4 DEF AwaitsReply, ClientRecord
  <2>2. Ahead(v.down) = Pending(w.down)
    BY <1>1, <2>1, ReadLineAhead
  <2>3. ToClient(v) = ToClient(w)
    BY <2>1, <2>2 DEF ToClient
  <2> QED
    BY <1>1, <2>3, NothingStarts
<1>5. CASE SessionMoves(w, v)
  <2>1. CASE v.down = w.down
    BY <1>2, <1>5, <2>1 DEF SessionMoves, ClientStays
  <2>2. CASE GoesOnWriting(w.down, v.down)
    <3>1. Pending(v.down) = Pending(w.down) /\ Ahead(v.down) = Ahead(w.down)
      BY <1>1, <2>2, WritingKeeps
    <3>2. ToClient(v) = ToClient(w)
      BY <1>5, <3>1 DEF SessionMoves, ClientStays, ToClient
    <3> QED
      BY <1>1, <3>2, NothingStarts
  <2> QED
    BY <1>5, <2>1, <2>2 DEF SessionMoves
<1>6. CASE ServerLeaves(w, v) /\ v.client = w.client
  BY <1>1, <1>6, LeavesLess
<1>7. CASE Accepts(w, v) \/ AwaitsRequest(w, v)
  BY <1>2, <1>6, <1>7 DEF Accepts, AwaitsRequest, ClientStays
<1>8. CASE Closes(w, v) \/ ServerGoes(w, v)
  BY <1>2, <1>6, <1>8 DEF Closes, ServerGoes, ClientStays
<1>9. CASE v = w
  BY <1>2, <1>9
<1> QED
  BY <1>3, <1>4, <1>5, <1>7, <1>8, <1>9 DEF Quiet

\* Of what is before a thread, whose client has gone, nothing becomes more.
LEMMA QuietToServer ==
    ASSUME NEW w, NEW v, ConnOK(w), ConnOK(v), w.link # "none", ~Alive(w), Serves(v),
           Quiet(w, v)
    PROVE  IsStart(ToServer(v), ToServer(w)) /\ Serves(w)
<1>1. /\ w.up \in Pipe /\ FlowOK(w.up) /\ FlowOK(v.up) /\ w.session \in SessionRecord
      /\ ToServer(w) \in Strings
  BY ConnPipes, ConnParts
<1>2. CASE v.session = w.session /\ v.up = w.up
  BY <1>1, <1>2, NothingStarts DEF ToServer, Serves
<1>3. CASE ClientMoves(w, v) \/ AwaitsReply(w, v)
  BY <1>3 DEF ClientMoves, AwaitsReply
<1>4. CASE SessionMoves(w, v)
  <2>1. CASE v.up = w.up
    BY <1>2, <1>4, <2>1 DEF SessionMoves, ServerStays
  <2>2. CASE w.session.pc = "read" /\ Reads(w.up, v.up)
    <3>1. v.session = w.session
      BY <1>4 DEF SessionMoves, ServerStays
    <3> QED
      BY <1>1, <2>2, <3>1, ReadsLess DEF ToServer, Serves
  <2> QED
    BY <1>4, <2>1, <2>2 DEF SessionMoves
<1>5. CASE Closes(w, v) \/ ServerGoes(w, v)
  <2>1. v.session.pc = "ended"
    BY <1>1, <1>5 DEF Closes, ServerGoes, SessionRecord
  <2> QED
    BY <2>1 DEF Serves
<1>6. CASE Accepts(w, v) \/ AwaitsRequest(w, v)
  <2>1. /\ w.session.pc \in {"none", "write"} /\ v.session.pc \in {"read", "ended"}
    BY <1>1, <1>6 DEF Accepts, AwaitsRequest, SessionRecord
  <2>2. v.session.pc = "read" /\ Serves(w)
    BY <2>1 DEF Serves
  <2>3. v.up = ReadLine(w.up)
    BY <1>1, <1>6, <2>2 DEF Accepts, AwaitsRequest, SessionRecord
  <2>4. CanReadLine(w.up)
    BY <1>6, <2>1 DEF Accepts, AwaitsRequest, ConnOK, PlacesOK, CanReadLine
  <2>5. Ahead(v.up) = Pending(w.up)
    BY <1>1, <2>3, <2>4, ReadLineAhead
  <2>6. ToServer(v) = ToServer(w)
    BY <2>1, <2>2, <2>5 DEF ToServer
  <2> QED
    BY <1>1, <2>2, <2>6, NothingStarts
<1>7. CASE v = w
  BY <1>2, <1>7
<1> QED
  BY <1>3, <1>4, <1>5, <1>6, <1>7 DEF Quiet

LEMMA AskingStep ==
    ASSUME NEW k, NEW w, NEW v, ConnOK(w), Converses(k, w), Plainly(k), Asking(k, w),
           Evolves(k, w, v)
    PROVE  Asking(k, v)
<1> SUFFICES ASSUME v.link # "none", Serves(v) PROVE IsStart(ToServer(v), Sent(k, v))
  BY DEF Asking
<1>1. ConnOK(v) /\ Converses(k, v)
  BY ConnStep, ConversesStep DEF Plainly
<1>2. Sent(k, v) \in Strings /\ ToServer(v) \in Strings
  <2>1. v.client.step \in 1 .. 4
    BY <1>1, ConnPipes DEF ClientRecord
  <2> QED
    BY <1>1, <2>1, ConnParts, RequestTyped DEF Sent, Plainly
<1>3. CASE Alive(v)
  <2>1. ToServer(v) \in {<<>>, Sent(k, v)}
    BY <1>1, <1>3 DEF Converses, TurnsOK
  <2> QED
    BY <1>2, <2>1, NothingStarts
<1>4. CASE ~Alive(v)
  <2>1. ~Dials(w, v) /\ ~SendsRequest(k, w, v) /\ ~Goes(k, w, v)
    <3>1. w.client \in ClientRecord
      BY ConnPipes
    <3> QED
      BY <1>4, <3>1 DEF Dials, SendsRequest, Goes, Alive, ClientStays, Advanced, ClientRecord
  <2>2. w.link # "none"
    <3> SUFFICES ASSUME w.link = "none" PROVE FALSE
      OBVIOUS
    <3>1. w.session.pc \in {"none", "ended"}
      BY DEF ConnOK, EndsOK
    <3>2. ~Closes(w, v) /\ ~Handles(w, v) /\ ~AwaitsRequest(w, v) /\ ~Accepts(w, v)
      BY <3>1 DEF Closes, Handles, Answered, AwaitsRequest, Accepts
    <3> QED
      BY <2>1, <3>2 DEF Evolves, Exits, ClientMoves, AwaitsReply, SessionMoves, ServerGoes,
         ServerStays
  <2>3. /\ w.up \in Pipe /\ FlowOK(w.up) /\ w.client \in ClientRecord
        /\ ToServer(w) \in Strings
    BY <2>2, ConnParts
  <2>4. CASE Exits(w, v)
    <3>1. /\ Alive(w) /\ v.up = Hung(w.up, Reset(w.down)) /\ v.session = w.session
          /\ v.client.step = w.client.step
      BY <2>2, <2>3, <2>4 DEF Exits, ServerStays, ClientRecord
    <3>2. Sent(k, v) = Sent(k, w) /\ Serves(w)
      BY <3>1 DEF Sent, Serves
    <3>3. IsStart(ToServer(v), ToServer(w))
      BY <2>3, <3>1, HungAhead DEF ToServer
    <3>4. IsStart(ToServer(w), Sent(k, w))
      BY <2>2, <3>2 DEF Asking
    <3> QED
      BY <1>2, <2>3, <3>2, <3>3, <3>4, StartOfStart
  <2>5. CASE Quiet(w, v)
    <3>0. CASE Alive(w)
      <4>1. v.client.result = w.client.result
        BY <2>3, <2>5 DEF Quiet, ClientMoves, AwaitsReply, Accepts, SessionMoves, Closes,
           AwaitsRequest, ServerGoes, ClientStays, ClientRecord
      <4> QED
        BY <1>4, <3>0, <4>1 DEF Alive
    <3>1. CASE ~Alive(w)
      <4>1. v.client = w.client
        BY <3>1, DeadStaysDead
      <4>2. IsStart(ToServer(v), ToServer(w)) /\ Serves(w)
        BY <1>1, <2>2, <2>5, <3>1, QuietToServer
      <4>3. IsStart(ToServer(w), Sent(k, w)) /\ Sent(k, v) = Sent(k, w)
        BY <2>2, <4>1, <4>2 DEF Asking, Sent
      <4> QED
        BY <1>2, <2>3, <4>2, <4>3, StartOfStart
    <3> QED
      BY <3>0, <3>1
  <2>6. CASE Handles(w, v)
    <3>1. PICK a : Answered(w, v, Decode(w.up.line), a)
      BY <2>6 DEF Handles
    <3>2. /\ w.session.pc = "read" /\ w.up.reader = "line" /\ v.up = w.up
          /\ v.session.pc = "write" /\ a # Error
      BY <3>1 DEF Answered, Serves
    <3>3. Decode(w.up.line) # Invalid
      BY <3>1, <3>2 DEF Answered
    <3>4. Unread(w.up) = <<>>
      BY <2>2, <3>2, <3>3, RequestKnown
    <3>5. ToServer(v) = <<>>
      BY <3>2, <3>4 DEF ToServer, Pending
    <3> QED
      BY <1>2, <3>5, NothingStarts
  <2> QED
    BY <2>1, <2>4, <2>5, <2>6 DEF Evolves, Quiet
<1> QED
  BY <1>3, <1>4

-----------------------------------------------------------------------------
(* The story of a value: of a tuple that set_value sets to y, and of the    *)
(* clients that name this tuple.  known says that the tuple is in the store. *)

Reveals(a, y) == \A z \in Short : a = Data(z) => z = y

\* An answer that is on its way gives nothing away but y, and an answer to
\* SET tells the truth.
Honest(k, n, a, y, known) ==
    Reveals(a, y) /\ (a = Ok /\ k.program = "set" /\ n = 3 => known)

Told(k, w, y, known) ==
    \/ ToClient(w) = <<>>
    \/ \E a \in Answers : /\ IsStart(ToClient(w), Encode(a))
                          /\ Honest(k, w.client.step, a, y, known)

Tells(k, w, y, known) ==
    /\ w.session.stack \in Seq({y})
    /\ w.client.printed \in {NoLine, y}
    /\ Alive(w) /\ w.link # "none" => Told(k, w, y, known)
    /\ k.program = "set" /\ w.client.step = 4 /\ ~w.client.stale => known
    /\ w.client.result = "done" => w.client.step = 4

\* What a handler does to a connection of these clients.
AnswersIt(w, v, y, known) ==
    \E a : /\ Answered(w, v, Decode(w.up.line), a)
           /\ v.session.stack \in Seq({y})
           /\ Reveals(a, y)
           /\ a = Ok /\ Decode(w.up.line).type = "SET" => known

LEMMA AnswerArrives ==
    ASSUME NEW k, NEW w, NEW v, NEW m, NEW a, ConnOK(w), w.link # "none", Converses(k, w),
           Answered(w, v, m, a), Alive(w)
    PROVE  ToClient(v) = Encode(a)
<1>1. /\ w.session.pc = "read" /\ w.up.reader = "line" /\ a \in Answers
      /\ v.down = CallWrite(w.down, Encode(a)) /\ v.client = w.client
  BY DEF Answered, ClientStays
<1>2. /\ TurnsOK(k, w) /\ w.down \in Pipe /\ w.up \in Pipe /\ FlowOK(w.up) /\ FlowOK(w.down)
      /\ ~Deserted(w.down) /\ w.down.out = <<>>
  BY <1>1, ConnParts DEF Converses, ConnOK, PlacesOK
<1>3. ToServer(w) # <<>> /\ Serves(w)
  BY <1>1, <1>2, LineBehind DEF ToServer, Serves
<1>4. ToClient(w) = <<>>
  BY <1>2, <1>3 DEF TurnsOK
<1>5. Encode(a) \in Strings
  BY <1>1, AnswerBrief
<1>6. CASE w.client.pc = "read"
  <2>1. Ahead(w.down) = <<>>
    BY <1>4, <1>6 DEF ToClient
  <2>2. w.down.reader # "line"
    BY <1>2, <2>1, NothingAhead
  <2>3. Ahead(v.down) = Encode(a)
    BY <1>1, <1>2, <1>5, <2>1, <2>2, CallReading
  <2> QED
    BY <1>1, <1>6, <2>3 DEF ToClient
<1>7. CASE w.client.pc # "read"
  <2>1. Pending(w.down) = <<>>
    BY <1>4, <1>7 DEF ToClient
  <2>2. Pending(v.down) = <<>> \o Encode(a)
    BY <1>1, <1>2, <1>5, <2>1, CallAhead
  <2> QED
    BY <1>1, <1>5, <1>7, <2>2, NoBytes DEF ToClient, Strings
<1> QED
  BY <1>6, <1>7

LEMMA SetRequest ==
    ASSUME NEW k, Plainly(k), k.program = "set"
    PROVE  Decode(Encode(RequestOf(k, 3))).type = "SET"
<1> DEFINE msg == RequestOf(k, 3)
<1>1. msg.type = "SET" /\ msg.args = <<k.table, k.key>>
  BY DEF RequestOf, Message
<1>2. <<k.table, k.key>> \in Seq(Seq(Plains))
  BY DEF Plainly
<1>3. "SET" \in Types
  BY DEF Types, Requests
<1> HIDE DEF msg
<1>4. Decode(Encode(msg)).type = msg.type
  BY <1>1, <1>2, <1>3, TypeKept
<1> QED
  BY <1>1, <1>4 DEF msg

LEMMA AnswerTells ==
    ASSUME NEW k, NEW w, NEW v, NEW y, NEW known \in BOOLEAN, NEW now \in BOOLEAN,
           ConnOK(w), ConnOK(v), w.link # "none", Converses(k, w), Plainly(k), Asking(k, w),
           Tells(k, w, y, known), known => now, AnswersIt(w, v, y, now)
    PROVE  Tells(k, v, y, now)
<1> DEFINE m == Decode(w.up.line)
<1>1. PICK a : /\ Answered(w, v, m, a) /\ v.session.stack \in Seq({y}) /\ Reveals(a, y)
               /\ (a = Ok /\ m.type = "SET" => now)
  BY DEF AnswersIt
<1> HIDE DEF m
<1>2. /\ w.session.pc = "read" /\ w.up.reader = "line" /\ a \in Answers
      /\ v.client = w.client /\ (m = Invalid => a = Error)
  BY <1>1 DEF Answered, ClientStays
<1>3. ASSUME a = Ok, k.program = "set", w.client.step = 3
      PROVE  now
  <2>1. m # Invalid
    BY <1>2, <1>3 DEF Ok, Error, Message
  <2>2. w.up.line = Sent(k, w)
    BY <1>2, <2>1, RequestKnown DEF m
  <2>3. m.type = "SET"
    BY <1>3, <2>2, SetRequest DEF m, Sent
  <2> QED
    BY <1>1, <1>3, <2>3
<1>4. Alive(v) => Told(k, v, y, now)
  <2> SUFFICES ASSUME Alive(v) PROVE Told(k, v, y, now)
    OBVIOUS
  <2>1. ToClient(v) = Encode(a)
    BY <1>1, <1>2, AnswerArrives DEF Alive
  <2>2. Encode(a) \in Strings
    BY <1>2, AnswerBrief
  <2>3. IsStart(ToClient(v), Encode(a))
    BY <2>1, <2>2, NothingStarts
  <2>4. Honest(k, v.client.step, a, y, now)
    BY <1>1, <1>2, <1>3 DEF Honest
  <2> QED
    BY <1>2, <2>3, <2>4 DEF Told
<1> QED
  BY <1>1, <1>2, <1>4 DEF Tells

-----------------------------------------------------------------------------
\* What comes of the reply that a client reads.
LEMMA ReplyTells ==
    ASSUME NEW k, NEW w, NEW y \in Safe, y \in Short, NEW known \in BOOLEAN, ConnOK(w),
           w.link # "none", Alive(w), w.client.pc = "read", w.down.reader = "line",
           Told(k, w, y, known), NEW m, m = Decode(w.down.line), m # Invalid
    PROVE  /\ m.type = "DATA" => GetValue(m) = y
           /\ m.type = "OK" /\ k.program = "set" /\ w.client.step = 3 => known
<1>1. FlowOK(w.down) /\ w.down \in Pipe
  BY ConnParts
<1>2. ToClient(w) # <<>>
  BY <1>1, LineBehind DEF ToClient
<1>3. PICK a \in Answers : /\ IsStart(ToClient(w), Encode(a))
                           /\ Honest(k, w.client.step, a, y, known)
  BY <1>2 DEF Told
<1>4. w.down.line = Encode(a) /\ m.type = a.type
  BY <1>3, ReplyKnown
<1>5. ASSUME m.type = "DATA"
      PROVE  GetValue(m) = y
  <2>1. PICK z \in Short : a = Data(z)
    BY <1>4, <1>5, AnswerIs
  <2>2. z = y
    BY <1>3, <2>1 DEF Honest, Reveals
  <2>3. m = Decode(Encode(Message("DATA", <<y>>)))
    BY <1>4, <2>1, <2>2 DEF Data
  <2>4. "DATA" \in Types /\ "DATA" \notin {"FAILED", "ERROR"}
    BY DEF Types
  <2>5. m = Message("DATA", <<y>>)
    BY <2>3, <2>4, RoundTripOne
  <2>6. m.type = "DATA" /\ Len(m.args) = 1 /\ m.args[1] = y
    BY <2>5, Single DEF Message
  <2> QED
    BY <2>6 DEF GetValue, ArgumentIf
<1>6. ASSUME m.type = "OK", k.program = "set", w.client.step = 3
      PROVE  known
  <2>1. a = Ok
    BY <1>3, <1>4, <1>6, AnswerIs
  <2> QED
    BY <1>3, <1>6, <2>1 DEF Honest
<1> QED
  BY <1>5, <1>6

LEMMA GoesTells ==
    ASSUME NEW k, NEW w, NEW v, NEW y \in Safe, y \in Short, NEW known \in BOOLEAN,
           ConnOK(w), w.link # "none", Converses(k, v), Tells(k, w, y, known), Goes(k, w, v)
    PROVE  Tells(k, v, y, known)
<1>1. PICK m \in RepliesOf(k, w) : /\ m.type = WantedOf(k, w.client.step)
                                   /\ v.client = Advanced(w.client, m, w.down.reader = "eof")
  BY DEF Goes
<1>2. /\ w.client \in ClientRecord /\ Alive(w) /\ w.client.pc = "read" /\ v.link = w.link
      /\ v.session = w.session
  BY ConnParts DEF Goes, ServerStays
<1>3. /\ v.client.pc = "send" /\ v.client.step = w.client.step + 1
      /\ v.client.result = w.client.result
      /\ v.client.printed = IF m.type = "DATA" THEN GetValue(m) ELSE w.client.printed
  BY <1>1, <1>2 DEF Advanced, ClientRecord
<1>4. v.client.stale <=> (w.client.stale \/ w.down.reader = "eof")
  BY <1>1, <1>2, Zenon DEF Advanced, ClientRecord
<1>5. m.type \in {"OK", "DATA"} /\ m # Invalid
  BY <1>1 DEF WantedOf, Invalid, Message
<1>6. Told(k, w, y, known)
  BY <1>2 DEF Tells
<1>7. ASSUME w.down.reader = "line"
      PROVE  /\ m.type = "DATA" => GetValue(m) = y
             /\ m.type = "OK" /\ k.program = "set" /\ w.client.step = 3 => known
  <2>1. m = Decode(w.down.line)
    BY <1>7 DEF RepliesOf
  <2> QED
    BY <1>2, <1>5, <1>6, <1>7, <2>1, ReplyTells
<1>8. w.down.reader # "line" => w.down.reader = "eof" /\ m.type = "OK"
  BY <1>5 DEF RepliesOf, Message
<1>9. v.client.printed \in {NoLine, y}
  BY <1>3, <1>5, <1>7, <1>8 DEF Tells
<1>10. k.program = "set" /\ v.client.step = 4 /\ ~v.client.stale => known
  <2> SUFFICES ASSUME k.program = "set", v.client.step = 4, ~v.client.stale PROVE known
    OBVIOUS
  <2>1. w.client.step = 3
    BY <1>2, <1>3 DEF ClientRecord
  <2>2. m.type = "OK"
    <3>1. RequestOf(k, 3).type = "SET"
      BY DEF RequestOf, Message
    <3> QED
      BY <1>1, <2>1, <3>1 DEF WantedOf
  <2> QED
    BY <1>4, <1>7, <1>8, <2>1, <2>2
<1>11. Told(k, v, y, known)
  <2>1. ToClient(v) = <<>>
    BY <1>2, <1>3 DEF Converses, TurnsOK, Alive
  <2> QED
    BY <2>1 DEF Told
<1> QED
  BY <1>2, <1>3, <1>9, <1>10, <1>11 DEF Tells, Alive

\* Every other step.
LEMMA OthersTell ==
    ASSUME NEW k, NEW w, NEW v, NEW y, NEW known \in BOOLEAN,
           ConnOK(w), ConnOK(v), Converses(k, w), Converses(k, v), Tells(k, w, y, known),
           Quiet(w, v) \/ Dials(w, v) \/ Exits(w, v) \/ SendsRequest(k, w, v)
    PROVE  Tells(k, v, y, known)
<1>1. w.client \in ClientRecord /\ w.session \in SessionRecord
  BY ConnPipes
<1>2. v.session.stack = w.session.stack
  BY <1>1 DEF Quiet, ClientMoves, AwaitsReply, Accepts, SessionMoves, Closes, AwaitsRequest,
     ServerGoes, Dials, Exits, SendsRequest, ServerStays, SessionRecord
<1>3. /\ v.client.printed = w.client.printed /\ v.client.step = w.client.step
      /\ (v.client.stale <=> w.client.stale)
  BY <1>1 DEF Quiet, ClientMoves, AwaitsReply, Accepts, SessionMoves, Closes, AwaitsRequest,
     ServerGoes, Dials, Exits, SendsRequest, ClientStays, ClientRecord
<1>4. v.client.result = "done" => w.client.step = 4
  <2>1. CASE Exits(w, v)
    BY <1>1, <2>1 DEF Exits, Quits, ClientRecord
  <2>2. CASE ~Exits(w, v)
    <3>1. v.client.result = w.client.result
      BY <1>1, <2>2 DEF Quiet, ClientMoves, AwaitsReply, Accepts, SessionMoves, Closes,
         AwaitsRequest, ServerGoes, Dials, SendsRequest, ClientStays, ClientRecord
    <3> QED
      BY <3>1 DEF Tells
  <2> QED
    BY <2>1, <2>2
<1>5. ASSUME Alive(v), v.link # "none"
      PROVE  Told(k, v, y, known)
  <2>1. CASE Quiet(w, v) /\ w.link # "none"
    <3>1. Alive(w)
      BY <1>1, <1>5, <2>1 DEF Quiet, ClientMoves, AwaitsReply, Accepts, SessionMoves, Closes,
         AwaitsRequest, ServerGoes, ClientStays, ClientRecord, Alive
    <3>2. Told(k, w, y, known)
      BY <2>1, <3>1 DEF Tells
    <3>3. /\ IsStart(ToClient(v), ToClient(w))
          /\ ToClient(v) \in Strings /\ ToClient(w) \in Strings
      BY <1>5, <2>1, QuietToClient, ConnParts
    <3>4. CASE ToClient(w) = <<>>
      <4>1. ToClient(v) = <<>>
        BY <3>3, <3>4, StartOfBrief
      <4> QED
        BY <4>1 DEF Told
    <3>5. CASE ToClient(w) # <<>>
      <4>1. PICK a \in Answers : /\ IsStart(ToClient(w), Encode(a))
                                 /\ Honest(k, w.client.step, a, y, known)
        BY <3>2, <3>5 DEF Told
      <4>2. Encode(a) \in Strings
        BY AnswerBrief
      <4>3. IsStart(ToClient(v), Encode(a))
        BY <3>3, <4>1, <4>2, StartOfStart
      <4> QED
        BY <1>3, <4>1, <4>3 DEF Told
    <3> QED
      BY <3>4, <3>5
  <2>2. CASE v.client.pc = "send"
    <3>1. ToClient(v) = <<>>
      BY <1>5, <2>2 DEF Converses, TurnsOK
    <3> QED
      BY <3>1 DEF Told
  <2>3. CASE w.link = "none"
    <3>1. w.session.pc \in {"none", "ended"}
      BY <2>3 DEF ConnOK, EndsOK
    <3>2. Dials(w, v)
      BY <1>1, <1>5, <2>3, <3>1 DEF Quiet, ClientMoves, AwaitsReply, Accepts, SessionMoves,
         Closes, AwaitsRequest, ServerGoes, Exits, SendsRequest, ServerStays
    <3>3. v.client.pc = "send"
      BY <1>5, <2>3, <3>2 DEF Dials, ClientStays, ConnOK, EndsOK, Alive
    <3> QED
      BY <2>2, <3>3
  <2>4. CASE SendsRequest(k, w, v)
    <3>1. /\ w.client.pc = "send" /\ v.client.pc = "write" /\ Alive(w) /\ w.link # "none"
          /\ v.down = w.down
      BY <1>1, <2>4 DEF SendsRequest, ClientRecord
    <3>2. ToClient(w) = <<>>
      BY <3>1 DEF Converses, TurnsOK
    <3>3. ToClient(v) = <<>>
      BY <3>1, <3>2 DEF ToClient
    <3> QED
      BY <3>3 DEF Told
  <2>5. CASE Exits(w, v)
    <3>1. ~Alive(v)
      BY <1>1, <2>5 DEF Exits, Alive, ClientRecord
    <3> QED
      BY <1>5, <3>1
  <2>6. CASE Dials(w, v)
    BY <2>3, <2>6 DEF Dials
  <2> QED
    BY <2>1, <2>3, <2>4, <2>5, <2>6
<1> QED
  BY <1>2, <1>3, <1>4, <1>5 DEF Tells

-----------------------------------------------------------------------------
\* What a thread makes of the requests of a client with arguments k.
LEMMA RequestBack ==
    ASSUME NEW k, Plainly(k), NEW n \in 1 .. 4, NEW m, m = Decode(Encode(RequestOf(k, n)))
    PROVE  /\ m.type = "SET" => k.program = "set"
           /\ m.type = "PUSH" => k.program = "set"
           /\ m.type = "PUSH" /\ k.value \in Safe => GetValue(m) = k.value
           /\ m.type \in {"SET", "GET"} /\ k.table \in Safe /\ k.key \in Safe =>
                 Tuple(m) = <<k.table, k.key>>
<1> DEFINE r == RequestOf(k, n)
<1>1. n \in {1, 2, 3, 4} /\ k \in Command
  BY DEF Plainly
<1>2. /\ k.user \in Seq(Plains) /\ k.table \in Seq(Plains) /\ k.key \in Seq(Plains)
      /\ k.value \in Seq(Plains)
  BY DEF Plainly
<1>3. /\ \/ r = Message("LOGIN", <<k.user>>)
         \/ r = Message("PUSH", <<k.value>>) /\ k.program = "set"
         \/ r = Message("SET", <<k.table, k.key>>) /\ k.program = "set"
         \/ r = Message("GET", <<k.table, k.key>>)
         \/ r = Message("TOP", <<>>) \/ r = Message("BYE", <<>>)
  <2>1. CASE n = 1
    BY <2>1 DEF RequestOf
  <2>2. CASE n = 2
    BY <2>2 DEF RequestOf
  <2>3. CASE n = 3
    BY <2>3 DEF RequestOf
  <2>4. CASE n = 4
    BY <2>4 DEF RequestOf
  <2> QED
    BY <1>1, <2>1, <2>2, <2>3, <2>4
<1>4. /\ r.type = "SET" => r = Message("SET", <<k.table, k.key>>) /\ k.program = "set"
      /\ r.type = "GET" => r = Message("GET", <<k.table, k.key>>)
      /\ r.type = "PUSH" => r = Message("PUSH", <<k.value>>) /\ k.program = "set"
  BY <1>3 DEF Message
<1>5. m.type = r.type
  <2>1. r.type \in Types /\ r.args \in Seq(Seq(Plains))
    <3>1. r.args \in {<<>>, <<k.user>>, <<k.value>>, <<k.table, k.key>>}
      BY <1>3 DEF Message
    <3>2. /\ <<>> \in Seq(Seq(Plains)) /\ <<k.user>> \in Seq(Seq(Plains))
          /\ <<k.value>> \in Seq(Seq(Plains)) /\ <<k.table, k.key>> \in Seq(Seq(Plains))
      BY <1>2, EmptySeq, Single, TwoOf
    <3>3. r.type \in Types
      BY <1>1, RequestTyped DEF Types, Requests
    <3> QED
      BY <3>1, <3>2, <3>3
  <2> HIDE DEF r
  <2> QED
    BY <2>1, TypeKept DEF r
<1>6. ASSUME m.type = "PUSH", k.value \in Safe
      PROVE  GetValue(m) = k.value
  <2>1. m = Decode(Encode(Message("PUSH", <<k.value>>)))
    BY <1>4, <1>5, <1>6
  <2>2. "PUSH" \in Types /\ "PUSH" \notin {"FAILED", "ERROR"}
    BY DEF Types, Requests
  <2>3. m = Message("PUSH", <<k.value>>)
    BY <1>6, <2>1, <2>2, RoundTripOne
  <2>4. m.type = "PUSH" /\ Len(m.args) = 1 /\ m.args[1] = k.value
    BY <2>3, Single DEF Message
  <2> QED
    BY <2>4 DEF GetValue, ArgumentIf
<1>7. ASSUME m.type \in {"SET", "GET"}, k.table \in Safe, k.key \in Safe
      PROVE  Tuple(m) = <<k.table, k.key>>
  <2>1. PICK t \in {"SET", "GET"} : m = Decode(Encode(Message(t, <<k.table, k.key>>)))
    BY <1>4, <1>5, <1>7
  <2>2. t \in Types /\ t \notin {"FAILED", "ERROR"}
    BY DEF Types, Requests
  <2>3. m = Message(t, <<k.table, k.key>>)
    BY <1>7, <2>1, <2>2, RoundTripTwo
  <2>4. m.type = t /\ Len(m.args) = 2 /\ m.args[1] = k.table /\ m.args[2] = k.key
    BY <2>3 DEF Message
  <2>5. GetKey(m) = k.key
    BY <2>4 DEF GetKey
  <2>6. GetTable(m) = <<>> \o k.table
    BY <2>4 DEF GetTable, ArgumentIf
  <2>7. <<>> \o k.table = k.table
    BY <1>7, SafeIs, NoBytes DEF Strings
  <2> QED
    BY <2>5, <2>6, <2>7 DEF Tuple
<1> QED
  BY <1>4, <1>5, <1>6, <1>7

-----------------------------------------------------------------------------
(* Who moves a session, and who the store. *)

LEMMA OnlyHandlers ==
    ASSUME ConnInv, [Next]_vars, NEW d \in Clients, sessions[d].pc = "read",
           sessions'[d].pc \in {"write", "last"}
    PROVE  Handle(d)
<1>0. DOMAIN sessions = Clients
  BY Domains
<1>9. \A c \in Clients : sessions[c] \in SessionRecord
  BY StackOf
<1>1. ~UNCHANGED sessions
  OBVIOUS
<1>2. ASSUME NEW why, ServerExit(why)
      PROVE  FALSE
  BY <1>9, <1>2 DEF ServerExit, SessionRecord
<1>3. ASSUME NEW c \in Clients, Client(c)
      PROVE  FALSE
  BY <1>1, <1>3 DEF Client, Opens, Unencodable, NoConnection, SendRequest, ClientWrites,
     ClientBreaksPipe, Bye, AwaitReply, ClientReads, Go, GiveUp, Abort, ReadFails, ClientDoes
<1>4. ASSUME NEW c \in Clients, Thread(c)
      PROVE  Handle(d)
  <2>1. CASE SessionReadFails(c) \/ SessionBreaksPipe(c)
    BY <1>2, <2>1 DEF SessionReadFails, SessionBreaksPipe
  <2>2. CASE SessionReads(c) \/ SessionWrites(c)
    BY <1>1, <2>2 DEF SessionReads, SessionWrites
  <2>3. CASE EndOfFile(c) \/ Return(c) \/ AwaitRequest(c)
    <3>1. \E pc \in {"ended", "read"} : sessions' = [sessions EXCEPT ![c].pc = pc]
      BY <2>3 DEF EndOfFile, Return, Close, AwaitRequest
    <3> QED
      BY <1>0, <1>9, <3>1 DEF SessionRecord
  <2>4. CASE Handle(c)
    <3> DEFINE m == Decode(up[c].line)
    <3>1. m \in Messages /\ GetValue(m) \in Short
      BY <2>4, RequestRead DEF Handle
    <3>2. \/ Login(c, m) \/ Push(c, m) \/ Set(c, m) \/ Get(c, m) \/ Top(c, m)
          \/ LogOut(c, m) \/ Refuse(c, m)
      BY <2>4 DEF Handle
    <3> HIDE DEF m
    <3>3. PICK a \in Answers, session \in SessionRecord, pc \in {"write", "last"} :
              Answer(c, a, session, pc)
      BY <3>1, <3>2, HandleIs
    <3>4. c = d
      BY <1>0, <3>3 DEF Answer
    <3> QED
      BY <2>4, <3>4
  <2> QED
    BY <1>4, <2>1, <2>2, <2>3, <2>4 DEF Thread
<1>5. CASE CannotListen \/ KillServer \/ AcceptFails
  BY <1>2, <1>5 DEF CannotListen, KillServer, AcceptFails
<1>6. ASSUME NEW c \in Clients, Accept(c) \/ ThreadFails(c)
      PROVE  FALSE
  <2>1. \E pc \in {"ended", "read"} : sessions' = [sessions EXCEPT ![c].pc = pc]
    BY <1>6 DEF Accept, ThreadFails
  <2> QED
    BY <1>0, <1>9, <2>1 DEF SessionRecord
<1>7. ASSUME NEW c \in Clients, Kill(c) \/ Start(c)
      PROVE  FALSE
  BY <1>1, <1>7 DEF Kill, Start, ClientDoes
<1>8. CASE Opens(Server) \/ UNCHANGED vars
  BY <1>1, <1>8 DEF Opens, vars
<1> QED
  BY <1>3, <1>4, <1>5, <1>6, <1>7, <1>8 DEF Next, Runs, Main, Faults

LEMMA OnlySets ==
    ASSUME [Next]_vars, store' # store
    PROVE  \E c \in Clients : Handle(c) /\ Set(c, Decode(up[c].line))
<1>1. ASSUME NEW why, ServerExit(why)
      PROVE  FALSE
  BY <1>1 DEF ServerExit
<1>2. ASSUME NEW c \in Clients, Client(c)
      PROVE  FALSE
  BY <1>2 DEF Client, Opens, Unencodable, NoConnection, SendRequest, ClientWrites,
     ClientBreaksPipe, Bye, AwaitReply, ClientReads, Go, GiveUp, Abort, ReadFails, ClientDoes
<1>3. ASSUME NEW c \in Clients, Thread(c)
      PROVE  Handle(c) /\ Set(c, Decode(up[c].line))
  <2>1. CASE SessionReadFails(c) \/ SessionBreaksPipe(c)
    BY <1>1, <2>1 DEF SessionReadFails, SessionBreaksPipe
  <2>2. CASE SessionReads(c) \/ EndOfFile(c) \/ SessionWrites(c) \/ AwaitRequest(c) \/ Return(c)
    BY <2>2 DEF SessionReads, EndOfFile, SessionWrites, AwaitRequest, Return, Close, ServerDoes
  <2>3. CASE Handle(c)
    BY <2>3 DEF Handle, Login, Push, Get, Top, LogOut, Refuse
  <2> QED
    BY <1>3, <2>1, <2>2, <2>3 DEF Thread
<1>4. CASE CannotListen \/ KillServer \/ AcceptFails
  BY <1>1, <1>4 DEF CannotListen, KillServer, AcceptFails
<1>5. ASSUME NEW c \in Clients, Kill(c) \/ Accept(c) \/ ThreadFails(c) \/ Start(c)
      PROVE  FALSE
  BY <1>5 DEF Kill, Accept, ThreadFails, Start, ServerDoes, ClientDoes
<1>6. CASE Opens(Server) \/ UNCHANGED vars
  BY <1>6 DEF Opens, vars
<1> QED
  BY <1>2, <1>3, <1>4, <1>5, <1>6 DEF Next, Runs, Main, Faults

-----------------------------------------------------------------------------
NameOf(c) == <<commands[c].table, commands[c].key>>
ValueOf(c) == commands[c].value
Known(s) == NameOf(s) \in DOMAIN store

\* The only program that sets, with arguments that the protocol can carry.
Careful(s) ==
    /\ commands[s].program = "set" /\ OnlyWriter(s) /\ Named(s) /\ Plain(ValueOf(s))

StoryOK(s) ==
    Careful(s) =>
        /\ Known(s) => store[NameOf(s)] = ValueOf(s)
        /\ \A c \in Clients :
              NameOf(c) = NameOf(s) => Tells(commands[c], Conn(c), ValueOf(s), Known(s))

AsksOK == \A c \in Clients : Asking(commands[c], Conn(c))

StoryInv == TalkInv /\ AsksOK /\ \A s \in Clients : StoryOK(s)

LEMMA CarefulSafe ==
    ASSUME TalkInv, NEW s \in Clients, Careful(s)
    PROVE  /\ ValueOf(s) \in Safe /\ ValueOf(s) \in Short
           /\ commands[s].table \in Safe /\ commands[s].key \in Safe
<1>1. Plainly(commands[s])
  BY ArgumentsPlain DEF TalkInv
<1>2. /\ commands[s].table \in Seq(Plains) /\ commands[s].key \in Seq(Plains)
      /\ ValueOf(s) \in Seq(Plains)
  BY <1>1 DEF Plainly, ValueOf
<1> QED
  BY <1>2, IdentifierIsSafe, PlainIsSafe DEF Careful, Named

\* A request that can be read is the last one sent.
LEMMA HandledIs ==
    ASSUME TalkInv, AsksOK, NEW c \in Clients, Handle(c), Decode(up[c].line) # Invalid
    PROVE  /\ Plainly(commands[c]) /\ clients[c].step \in 1 .. 4
           /\ Decode(up[c].line) = Decode(Encode(RequestOf(commands[c], clients[c].step)))
<1> DEFINE k == commands[c]
           w == Conn(c)
<1>1. Plainly(k) /\ ConnOK(w) /\ Asking(k, w)
  BY ArgumentsPlain, Domains DEF TalkInv, AsksOK
<1>2. /\ w.session.pc = "read" /\ w.up.reader = "line" /\ w.up.line = up[c].line
      /\ w.client = clients[c]
  BY ConnIs DEF Handle
<1> HIDE DEF k, w
<1>3. w.link # "none"
  BY <1>1, <1>2 DEF ConnOK, EndsOK
<1>4. up[c].line = Sent(k, w)
  BY <1>1, <1>2, <1>3, RequestKnown
<1>5. w.client.step \in 1 .. 4
  BY <1>1, ConnPipes DEF ClientRecord
<1> QED
  BY <1>1, <1>2, <1>4, <1>5 DEF k, Sent

\* Only the one that is careful sets, and what it has pushed.
LEMMA SetsRight ==
    ASSUME StoryInv, NEW s \in Clients, Careful(s), NEW c \in Clients, Handle(c),
           Set(c, Decode(up[c].line))
    PROVE  /\ c = s /\ Tuple(Decode(up[c].line)) = NameOf(s)
           /\ sessions[c].stack # <<>> => Last(sessions[c].stack) = ValueOf(s)
<1> DEFINE m == Decode(up[c].line)
<1>1. m.type = "SET" /\ m # Invalid
  BY DEF Set, Asks, Invalid, Message
<1>2. /\ Plainly(commands[c]) /\ clients[c].step \in 1 .. 4
      /\ m = Decode(Encode(RequestOf(commands[c], clients[c].step)))
  BY <1>1, HandledIs DEF StoryInv
<1> HIDE DEF m
<1>3. commands[c].program = "set"
  BY <1>1, <1>2, RequestBack
<1>4. c = s
  BY <1>3 DEF Careful, OnlyWriter
<1>5. commands[c].table \in Safe /\ commands[c].key \in Safe
  BY <1>4, CarefulSafe DEF StoryInv
<1>6. Tuple(m) = NameOf(s)
  BY <1>1, <1>2, <1>4, <1>5, RequestBack DEF NameOf
<1>7. sessions[c].stack \in Seq({ValueOf(s)})
  BY <1>4, ConnIs DEF StoryInv, StoryOK, Tells
<1>8. sessions[c].stack # <<>> => Last(sessions[c].stack) = ValueOf(s)
  <2> DEFINE t == sessions[c].stack
             V == {ValueOf(s)}
  <2>1. t \in Seq(V)
    BY <1>7
  <2> HIDE DEF t, V
  <2>2. t # <<>> => Last(t) \in V
    BY <2>1, LastOf
  <2> QED
    BY <2>2 DEF t, V
<1> QED
  BY <1>4, <1>6, <1>8 DEF m

LEMMA StoreRight ==
    ASSUME StoryInv, [Next]_vars, NEW s \in Clients, Careful(s)
    PROVE  /\ Known(s) => Known(s)'
           /\ Known(s)' => store'[NameOf(s)] = ValueOf(s)
           /\ NameOf(s)' = NameOf(s) /\ ValueOf(s)' = ValueOf(s)
<1>0. commands' = commands
  BY DomainsKept DEF StoryInv, TalkInv
<1>1. NameOf(s)' = NameOf(s) /\ ValueOf(s)' = ValueOf(s)
  BY <1>0 DEF NameOf, ValueOf
<1>2. Known(s) => store[NameOf(s)] = ValueOf(s)
  BY DEF StoryInv, StoryOK
<1>3. Known(s)' <=> NameOf(s) \in DOMAIN store'
  BY <1>1 DEF Known
<1>4. CASE store' = store
  BY <1>1, <1>2, <1>3, <1>4 DEF Known
<1>5. CASE store' # store
  <2>1. PICK c \in Clients : Handle(c) /\ Set(c, Decode(up[c].line))
    BY <1>5, OnlySets
  <2>2. /\ sessions[c].stack # <<>>
        /\ store' = Stored(Tuple(Decode(up[c].line)), Last(sessions[c].stack))
    BY <1>5, <2>1 DEF Set
  <2>3. store' = Stored(NameOf(s), ValueOf(s))
    BY <2>1, <2>2, SetsRight
  <2>4. NameOf(s) \in DOMAIN store' /\ store'[NameOf(s)] = ValueOf(s)
    BY <2>3 DEF Stored
  <2> QED
    BY <1>1, <1>3, <2>4
<1> QED
  BY <1>4, <1>5

-----------------------------------------------------------------------------
\* The answers of a thread to clients that name the tuple of s.
LEMMA SetAnswer ==
    ASSUME StoryInv, NEW s \in Clients, Careful(s), NEW c \in Clients, Handle(c),
           NEW m, m = Decode(up[c].line), Set(c, m), [Next]_vars,
           sessions[c].stack # <<>>, store' = Stored(Tuple(m), Last(sessions[c].stack))
    PROVE  Known(s)'
<1>1. Tuple(m) = NameOf(s) /\ NameOf(s)' = NameOf(s)
  BY SetsRight, StoreRight
<1> QED
  BY <1>1 DEF Stored, Known

LEMMA PushedStack ==
    ASSUME NEW session, NEW y, NEW z, session.stack \in Seq({y}), z = y,
           session \in SessionRecord
    PROVE  Pushed(session, z).stack \in Seq({y})
<1>1. Append(session.stack, z) \in Seq({y})
  BY AppendProperties
<1>2. Pushed(session, z).stack = Append(session.stack, z)
  BY DEF Pushed, SessionRecord
<1> QED
  BY <1>1, <1>2

Gives(c, a, session, pc, y, known) ==
    /\ a \in Answers /\ session \in SessionRecord /\ pc \in {"write", "last"}
    /\ Answer(c, a, session, pc)
    /\ session.stack \in Seq({y}) /\ Reveals(a, y)
    /\ a = Ok /\ Decode(up[c].line).type = "SET" => known
    /\ a = Error \/ Decode(up[c].line).type = "BYE" => pc = "last"
    /\ Decode(up[c].line) = Invalid => a = Error

LEMMA HandleGives ==
    ASSUME StoryInv, [Next]_vars, NEW s \in Clients, Careful(s), NEW c \in Clients,
           NameOf(c) = NameOf(s), Handle(c)
    PROVE  \E a, session, pc : Gives(c, a, session, pc, ValueOf(s), Known(s)')
<1> DEFINE m == Decode(up[c].line)
           y == ValueOf(s)
           known == Known(s)'
<1>1. m \in Messages /\ GetValue(m) \in Short /\ ConnInv
  BY RequestRead DEF Handle, StoryInv, TalkInv
<1>2. \/ Login(c, m) \/ Push(c, m) \/ Set(c, m) \/ Get(c, m) \/ Top(c, m)
      \/ LogOut(c, m) \/ Refuse(c, m)
  BY DEF Handle
<1>3. /\ sessions[c] \in SessionRecord /\ sessions[c].stack \in Seq(Short)
      /\ sessions[c].stack \in Seq({y})
  BY <1>1, StackOf, ConnIs DEF StoryInv, StoryOK, Tells
<1>4. /\ y \in Safe /\ y \in Short
      /\ commands[c].table \in Safe /\ commands[c].key \in Safe
  BY CarefulSafe DEF StoryInv, NameOf
<1>5. sessions[c].stack # <<>> =>
          Last(sessions[c].stack) = y /\ Front(sessions[c].stack) \in Seq({y})
  <2> DEFINE t == sessions[c].stack
             V == {y}
  <2>1. t \in Seq(V)
    BY <1>3
  <2> HIDE DEF t, V
  <2>2. t # <<>> => Last(t) \in V /\ Front(t) \in Seq(V)
    BY <2>1, LastOf
  <2> QED
    BY <2>2 DEF t, V
<1>6. /\ Ok \in Answers /\ Failed \in Answers /\ Error \in Answers
      /\ Ok # Error /\ Failed # Error /\ Failed # Ok /\ Error # Ok
      /\ \A z : Data(z) # Error /\ Data(z) # Ok
  BY DEF Answers, Ok, Failed, Error, Data, Message
<1>7. /\ Reveals(Ok, y) /\ Reveals(Failed, y) /\ Reveals(Error, y) /\ Reveals(Data(y), y)
      /\ Data(y) \in Answers
  <2>1. \A z : Data(z) # Ok /\ Data(z) # Failed /\ Data(z) # Error
    BY DEF Ok, Failed, Error, Data, Message
  <2>2. \A z : Data(y) = Data(z) => z = y
    <3> SUFFICES ASSUME NEW z, Data(y) = Data(z) PROVE z = y
      OBVIOUS
    <3>1. <<y>> = <<z>>
      BY DEF Data, Message
    <3> QED
      BY <3>1
  <2> QED
    BY <1>4, <2>1, <2>2 DEF Reveals, Answers
<1>8. Invalid.type \notin Requests /\ Invalid.type = "invalid"
  BY DEF Invalid, Message, Requests
<1>9. m # Invalid => /\ Plainly(commands[c]) /\ clients[c].step \in 1 .. 4
                     /\ m = Decode(Encode(RequestOf(commands[c], clients[c].step)))
  BY HandledIs DEF StoryInv
<1> HIDE DEF m, y, known
<1>10. CASE Login(c, m)
  <2> DEFINE session == [sessions[c] EXCEPT !.loggedIn = TRUE]
  <2>1. session \in SessionRecord /\ session.stack = sessions[c].stack
    BY <1>3 DEF SessionRecord
  <2>2. Answer(c, Ok, session, "write") /\ m.type = "LOGIN"
    BY <1>10 DEF Login, Asks
  <2> HIDE DEF session
  <2>3. Gives(c, Ok, session, "write", y, known)
    BY <1>3, <1>6, <1>7, <1>8, <2>1, <2>2 DEF Gives, m
  <2> QED
    BY <2>3 DEF y, known
<1>11. CASE Push(c, m)
  <2> DEFINE z == GetValue(m)
             session == Pushed(sessions[c], z)
  <2>1. Answer(c, Ok, session, "write") /\ m.type = "PUSH"
    BY <1>11 DEF Push, Asks
  <2>2. m # Invalid
    BY <1>8, <2>1
  <2>3. commands[c].program = "set"
    BY <1>9, <2>1, <2>2, RequestBack
  <2>4. c = s
    BY <2>3 DEF Careful, OnlyWriter
  <2>5. z = y
    BY <1>4, <1>9, <2>1, <2>2, <2>4, RequestBack DEF y, ValueOf
  <2>6. session \in SessionRecord /\ session.stack \in Seq({y})
    BY <1>1, <1>3, <2>5, PushedTyped, PushedStack
  <2> HIDE DEF session
  <2>7. Gives(c, Ok, session, "write", y, known)
    BY <1>6, <1>7, <1>8, <2>1, <2>6 DEF Gives, m
  <2> QED
    BY <2>7 DEF y, known
<1>12. CASE Set(c, m)
  <2>1. m.type = "SET"
    BY <1>12 DEF Set, Asks
  <2>2. CASE Answer(c, Failed, sessions[c], "write")
    <3>1. Gives(c, Failed, sessions[c], "write", y, known)
      BY <1>3, <1>6, <1>7, <1>8, <2>1, <2>2 DEF Gives, m
    <3> QED
      BY <3>1 DEF y, known
  <2>3. CASE /\ sessions[c].stack # <<>>
             /\ store' = Stored(Tuple(m), Last(sessions[c].stack))
             /\ Answer(c, Ok, [sessions[c] EXCEPT !.stack = Front(@)], "write")
    <3> DEFINE session == [sessions[c] EXCEPT !.stack = Front(@)]
    <3>1. Front(sessions[c].stack) \in Seq(Short)
      BY <1>3, <2>3, LastOf
    <3>2. session \in SessionRecord /\ session.stack = Front(sessions[c].stack)
      BY <1>3, <3>1 DEF SessionRecord
    <3>3. session.stack \in Seq({y})
      BY <1>5, <2>3, <3>2
    <3>4. known
      BY <1>12, <2>3, SetAnswer DEF m, known
    <3>5. Answer(c, Ok, session, "write")
      BY <2>3
    <3> HIDE DEF session
    <3>6. Gives(c, Ok, session, "write", y, known)
      BY <1>6, <1>7, <1>8, <2>1, <3>2, <3>3, <3>4, <3>5 DEF Gives, m
    <3> QED
      BY <3>6 DEF y, known
  <2> QED
    BY <1>12, <2>2, <2>3 DEF Set
<1>13. CASE Get(c, m)
  <2>1. m.type = "GET"
    BY <1>13 DEF Get, Asks
  <2>2. CASE Answer(c, Failed, sessions[c], "write")
    <3>1. Gives(c, Failed, sessions[c], "write", y, known)
      BY <1>3, <1>6, <1>7, <1>8, <2>1, <2>2 DEF Gives, m
    <3> QED
      BY <3>1 DEF y, known
  <2>3. CASE /\ Tuple(m) \in DOMAIN store
             /\ Answer(c, Ok, Pushed(sessions[c], store[Tuple(m)]), "write")
    <3> DEFINE z == store[Tuple(m)]
               session == Pushed(sessions[c], z)
    <3>1. m # Invalid
      BY <1>8, <2>1
    <3>2. Tuple(m) = NameOf(s)
      BY <1>4, <1>9, <2>1, <3>1, RequestBack DEF NameOf
    <3>3. z = y
      BY <2>3, <3>2 DEF StoryInv, StoryOK, Known, y
    <3>4. session \in SessionRecord /\ session.stack \in Seq({y})
      BY <1>3, <1>4, <3>3, PushedTyped, PushedStack
    <3>5. Answer(c, Ok, session, "write")
      BY <2>3
    <3> HIDE DEF session
    <3>6. Gives(c, Ok, session, "write", y, known)
      BY <1>6, <1>7, <1>8, <2>1, <3>4, <3>5 DEF Gives, m
    <3> QED
      BY <3>6 DEF y, known
  <2> QED
    BY <1>13, <2>2, <2>3 DEF Get
<1>14. CASE Top(c, m)
  <2>1. m.type = "TOP"
    BY <1>14 DEF Top, Asks
  <2>2. CASE Answer(c, Failed, sessions[c], "write")
    <3>1. Gives(c, Failed, sessions[c], "write", y, known)
      BY <1>3, <1>6, <1>7, <1>8, <2>1, <2>2 DEF Gives, m
    <3> QED
      BY <3>1 DEF y, known
  <2>3. CASE /\ sessions[c].stack # <<>>
             /\ Answer(c, Data(Last(sessions[c].stack)), sessions[c], "write")
    <3>1. Answer(c, Data(y), sessions[c], "write")
      BY <1>5, <2>3
    <3>2. Gives(c, Data(y), sessions[c], "write", y, known)
      BY <1>3, <1>6, <1>7, <1>8, <2>1, <3>1 DEF Gives, m
    <3> QED
      BY <3>2 DEF y, known
  <2> QED
    BY <1>14, <2>2, <2>3 DEF Top, Data
<1>15. CASE LogOut(c, m)
  <2>1. Answer(c, Ok, sessions[c], "last") /\ m.type = "BYE"
    BY <1>15 DEF LogOut, Asks
  <2>2. Gives(c, Ok, sessions[c], "last", y, known)
    BY <1>3, <1>6, <1>7, <1>8, <2>1 DEF Gives, m
  <2> QED
    BY <2>2 DEF y, known
<1>16. CASE Refuse(c, m)
  <2>1. Answer(c, Error, sessions[c], "last")
    BY <1>16 DEF Refuse
  <2>2. Gives(c, Error, sessions[c], "last", y, known)
    BY <1>3, <1>6, <1>7, <2>1 DEF Gives, m
  <2> QED
    BY <2>2 DEF y, known
<1> QED
  BY <1>2, <1>10, <1>11, <1>12, <1>13, <1>14, <1>15, <1>16

-----------------------------------------------------------------------------
LEMMA HandleAnswers ==
    ASSUME StoryInv, [Next]_vars, NEW s \in Clients, Careful(s), NEW c \in Clients,
           NameOf(c) = NameOf(s), Handle(c)
    PROVE  AnswersIt(Conn(c), Conn(c)', ValueOf(s), Known(s)')
<1> DEFINE y == ValueOf(s)
           known == Known(s)'
           m == Decode(up[c].line)
           w == Conn(c)
           v == Conn(c)'
<1>1. PICK a, session, pc : Gives(c, a, session, pc, y, known)
  BY HandleGives
<1>2. /\ down'[c] = CallWrite(down[c], Encode(a))
      /\ sessions'[c] = [session EXCEPT !.pc = pc]
      /\ UNCHANGED <<clients, link, up>>
  BY <1>1, Domains DEF Gives, Answer, StoryInv, TalkInv
<1>3. /\ sessions'[c] \in SessionRecord /\ sessions'[c].pc = pc
      /\ sessions'[c].stack = session.stack
  BY <1>1, <1>2 DEF Gives, SessionRecord
<1>4. /\ w.session.pc = "read" /\ w.up.reader = "line" /\ w.up.line = up[c].line
      /\ w.down = down[c] /\ v.down = down'[c] /\ v.session = sessions'[c]
      /\ v.client = w.client /\ v.link = w.link /\ v.up = w.up
  BY <1>2, ConnIs DEF Handle
<1> HIDE DEF y, known, w, v
<1>5. Answered(w, v, m, a)
  BY <1>1, <1>2, <1>3, <1>4 DEF Gives, Answered, ClientStays
<1>6. AnswersIt(w, v, y, known)
  BY <1>1, <1>3, <1>4, <1>5 DEF Gives, AnswersIt
<1> QED
  BY <1>6 DEF y, known, w, v

LEMMA TellsKept ==
    ASSUME StoryInv, [Next]_vars, NEW s \in Clients, Careful(s), NEW c \in Clients,
           NameOf(c) = NameOf(s)
    PROVE  Tells(commands[c], Conn(c)', ValueOf(s), Known(s)')
<1> DEFINE k == commands[c]
           w == Conn(c)
           v == Conn(c)'
           y == ValueOf(s)
           known == Known(s)
           now == Known(s)'
<1>1. /\ ConnOK(w) /\ Converses(k, w) /\ Plainly(k) /\ Asking(k, w) /\ Evolves(k, w, v)
      /\ Tells(k, w, y, known)
  BY Domains, ArgumentsPlain, NextEvolves
     DEF StoryInv, TalkInv, TalksOK, AsksOK, Evolve, StoryOK
<1>2. known \in BOOLEAN /\ now \in BOOLEAN /\ (known => now)
  BY StoreRight DEF Known
<1>3. y \in Safe /\ y \in Short
  BY CarefulSafe DEF StoryInv
<1>4. Handles(w, v) => AnswersIt(w, v, y, now)
  <2> SUFFICES ASSUME Handles(w, v) PROVE AnswersIt(w, v, y, now)
    OBVIOUS
  <2>1. sessions[c].pc = "read" /\ sessions'[c].pc \in {"write", "last"}
    BY ConnIs DEF Handles, Answered
  <2>2. Handle(c)
    BY <2>1, OnlyHandlers DEF StoryInv, TalkInv
  <2> QED
    BY <2>2, HandleAnswers
<1> HIDE DEF k, w, v, y, known, now
<1>5. ConnOK(v) /\ Converses(k, v)
  BY <1>1, ConnStep, ConversesStep DEF Plainly
<1>6. Tells(k, w, y, now)
  BY <1>1, <1>2 DEF Tells, Told, Honest
<1>7. CASE Handles(w, v)
  <2>1. w.link # "none"
    BY <1>1, <1>7 DEF Handles, Answered, ConnOK, EndsOK
  <2> QED
    BY <1>1, <1>2, <1>4, <1>5, <1>7, <2>1, AnswerTells DEF k, v, y, now
<1>8. CASE Goes(k, w, v)
  <2>1. w.link # "none"
    <3>1. Alive(w) /\ w.client.pc = "read"
      BY <1>8 DEF Goes
    <3> QED
      BY <1>1, <3>1 DEF ConnOK, EndsOK
  <2>2. Tells(k, v, y, now)
    BY <1>1, <1>2, <1>3, <1>5, <1>6, <1>8, <2>1, GoesTells
  <2> QED
    BY <2>2 DEF k, v, y, now
<1>9. CASE Quiet(w, v) \/ Dials(w, v) \/ Exits(w, v) \/ SendsRequest(k, w, v)
  <2>1. Tells(k, v, y, now)
    BY <1>1, <1>2, <1>5, <1>6, <1>9, OthersTell
  <2> QED
    BY <2>1 DEF k, v, y, now
<1> QED
  BY <1>1, <1>7, <1>8, <1>9 DEF Evolves, Quiet

LEMMA NextStory == StoryInv /\ [Next]_vars => StoryInv'
<1> SUFFICES ASSUME StoryInv, [Next]_vars PROVE StoryInv'
  OBVIOUS
<1>0. TalkInv
  BY DEF StoryInv
<1>1. TalkInv'
  BY <1>0, NextTalks
<1>2. commands' = commands
  BY <1>0, DomainsKept DEF TalkInv
<1>3. AsksOK'
  <2> SUFFICES ASSUME NEW c \in Clients PROVE Asking(commands[c], Conn(c)')
    BY <1>2 DEF AsksOK
  <2>1. /\ ConnOK(Conn(c)) /\ Converses(commands[c], Conn(c)) /\ Plainly(commands[c])
        /\ Evolves(commands[c], Conn(c), Conn(c)') /\ Asking(commands[c], Conn(c))
    BY Domains, ArgumentsPlain, NextEvolves DEF StoryInv, TalkInv, TalksOK, AsksOK, Evolve
  <2> QED
    BY <2>1, AskingStep
<1>4. ASSUME NEW s \in Clients
      PROVE  StoryOK(s)'
  <2> SUFFICES ASSUME Careful(s)'
               PROVE  /\ Known(s)' => store'[NameOf(s)'] = ValueOf(s)'
                      /\ \A c \in Clients : NameOf(c)' = NameOf(s)' =>
                            Tells(commands'[c], Conn(c)', ValueOf(s)', Known(s)')
    BY DEF StoryOK
  <2>1. Careful(s)
    BY <1>2 DEF Careful, OnlyWriter, Named, ValueOf
  <2>2. /\ Known(s)' => store'[NameOf(s)] = ValueOf(s)
        /\ NameOf(s)' = NameOf(s) /\ ValueOf(s)' = ValueOf(s)
    BY <2>1, StoreRight
  <2>3. ASSUME NEW c \in Clients, NameOf(c)' = NameOf(s)'
        PROVE  Tells(commands'[c], Conn(c)', ValueOf(s)', Known(s)')
    <3>1. NameOf(c) = NameOf(s)
      BY <1>2, <2>3 DEF NameOf
    <3>2. Tells(commands[c], Conn(c)', ValueOf(s), Known(s)')
      BY <2>1, <3>1, TellsKept
    <3> QED
      BY <1>2, <2>2, <3>2
  <2> QED
    BY <2>2, <2>3
<1> QED
  BY <1>1, <1>3, <1>4 DEF StoryInv

LEMMA InitStory == Init /\ OneLineArguments => StoryInv
<1> SUFFICES ASSUME Init, OneLineArguments PROVE StoryInv
  OBVIOUS
<1>1. TalkInv
  BY InitTalks
<1>2. \A c \in Clients :
          /\ Conn(c).link = "none" /\ Conn(c).session.stack = <<>>
          /\ Conn(c).client.printed = NoLine /\ Conn(c).client.step = 1
          /\ Conn(c).client.result = "none"
  BY ConnIs DEF Init
<1>3. AsksOK
  BY <1>2 DEF AsksOK, Asking
<1>4. \A s \in Clients : StoryOK(s)
  <2> SUFFICES ASSUME NEW s \in Clients PROVE StoryOK(s)
    OBVIOUS
  <2>1. store = <<>>
    BY DEF Init
  <2>2. ~Known(s)
    BY <2>1 DEF Known
  <2>3. ASSUME NEW c \in Clients
        PROVE  Tells(commands[c], Conn(c), ValueOf(s), Known(s))
    <3> DEFINE w == Conn(c)
               y == ValueOf(s)
    <3>1. w.session.stack \in Seq({y})
      <4> HIDE DEF y
      <4> QED
        BY <1>2, EmptySeq
    <3>2. /\ w.link = "none" /\ w.client.printed = NoLine /\ w.client.step = 1
          /\ w.client.result = "none"
      BY <1>2
    <3> HIDE DEF w, y
    <3>3. Tells(commands[c], w, y, Known(s))
      BY <3>1, <3>2 DEF Tells
    <3> QED
      BY <3>3 DEF w, y
  <2> QED
    BY <2>2, <2>3 DEF StoryOK
<1> QED
  BY <1>1, <1>3, <1>4 DEF StoryInv

LEMMA StoryIsRight == StoryInv => SetThenGet
<1> SUFFICES ASSUME StoryInv, NEW s \in Clients, Careful(s), Done(s)
             PROVE  /\ Known(s) /\ store[NameOf(s)] = ValueOf(s)
                    /\ \A g \in Clients : NameOf(g) = NameOf(s) =>
                          clients[g].printed \in {NoLine, ValueOf(s)}
  BY DEF SetThenGet, Careful, Known, NameOf, ValueOf
<1>1. \A c \in Clients :
          NameOf(c) = NameOf(s) => Tells(commands[c], Conn(c), ValueOf(s), Known(s))
  BY DEF StoryInv, StoryOK
<1>2. /\ Conn(s).client.result = "done" /\ ~Conn(s).client.stale
      /\ commands[s].program = "set"
  BY ConnIs DEF Done, Careful
<1>3. Known(s)
  BY <1>1, <1>2 DEF Tells
<1>4. store[NameOf(s)] = ValueOf(s)
  BY <1>3 DEF StoryInv, StoryOK
<1>5. \A g \in Clients :
          NameOf(g) = NameOf(s) => clients[g].printed \in {NoLine, ValueOf(s)}
  BY <1>1, ConnIs DEF Tells
<1> QED
  BY <1>3, <1>4, <1>5

\* What set_value has set, with all its requests answered, is in the table, and
\* no get_value of the same tuple prints anything else, however reads and writes
\* are cut, and whichever of the other programs is killed in between.
THEOREM SetIsGot == Spec /\ OneLineArguments => []SetThenGet
BY InitStory, NextStory, StoryIsRight, PTL DEF Spec

=============================================================================
