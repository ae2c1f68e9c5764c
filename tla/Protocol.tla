------------------------------- MODULE Protocol -------------------------------
(***************************************************************************)
(* The server process of csf_assign05 and the programs set_value and       *)
(* get_value that talk to it over TCP, from socket() to exit().  The bytes *)
(* travel as in RobustIO, the messages are those of Messages.  What the    *)
(* threads of the server do to the tables, and to each other, is the       *)
(* subject of TxServer; here programs run one after the other, as in a     *)
(* script, but a thread may still be busy when the next program starts.    *)
(***************************************************************************)
EXTENDS Messages, FiniteSets

CONSTANTS
    Server,         \* the server process
    Clients,        \* the client processes
    Order,          \* the order in which they are started
    CommandLines,   \* their arguments: functions from Clients to Commands
    Addresses,      \* number of addresses that getaddrinfo finds
    Tables,         \* the tables there are
    Text,           \* what a FAILED or ERROR reply says
    MaxFaults,      \* bound on kills and on failures of accept or of a thread
    MaxCuts         \* bound on reads and writes that move only a part

Processes == Clients \union {Server}

ASSUME ClientsAssumption == IsFiniteSet(Clients) /\ Server \notin Clients
ASSUME OrderAssumption == Order \in [1 .. Cardinality(Clients) -> Clients]
ASSUME AddressesAssumption == Addresses \in Nat /\ Addresses > 0
ASSUME TextAssumption ==
    Text \in Seq(Bytes \ {Newline}) /\ Len(Text) + 5 < MaxLine  \* quoted, after a word
ASSUME CommandsAssumption ==
    CommandLines \subseteq
        [Clients -> [program : {"set", "get"}, user : Seq(Bytes), table : Seq(Bytes),
                     key : Seq(Bytes), value : Seq(Bytes)]]
ASSUME MaxFaultsAssumption == MaxFaults \in Nat /\ MaxCuts \in Nat

VARIABLES
    commands,   \* argv of each client
    opening,    \* where a process is in open_listenfd or open_clientfd
    fds,        \* how many sockets it has open
    clients,    \* pc, step, what it has printed, how it has ended
    link,       \* a connection is "none", "queued" or "accepted"
    sessions,   \* the threads of the server with their ClientConnection
    store,      \* values of the keys of tables
    up, down,   \* the two pipes of a connection, as seen from the client
    cause,      \* why the server has ended
    spent       \* how many faults and partial moves there have been

sockets == <<opening, fds>>
vars == <<commands, opening, fds, clients, link, sessions, store, up, down,
          cause, spent>>

-----------------------------------------------------------------------------
(* open_listenfd and open_clientfd walk a list of addresses.                 *)

At(p, stages) == opening[p].at \in stages

Goto(p, at) ==
    opening' = [opening EXCEPT ![p] =
        [at |-> at, address |-> IF at \in {"establish", "close"}
                                  THEN @.address ELSE 1]]

(* Variant with a bug: the walk goes one address too far.                    *)
TryOneMore(p) ==
    IF opening[p].address <= Addresses
      THEN opening' = [opening EXCEPT ![p] =
                          [at |-> "socket", address |-> @.address + 1]]
      ELSE Goto(p, "failed")

TryNext(p) ==
    IF opening[p].address < Addresses
      THEN opening' = [opening EXCEPT ![p] =
                          [at |-> "socket", address |-> @.address + 1]]
      ELSE Goto(p, "failed")

OpenFds(p, n) == fds' = [fds EXCEPT ![p] = @ + n]

Lookup(p) ==
    /\ At(p, {"lookup"})
    /\ Goto(p, "socket") \/ Goto(p, "failed")
    /\ UNCHANGED <<fds, link>>

Socket(p) ==
    /\ At(p, {"socket"})
    /\ \/ TryNext(p) /\ UNCHANGED fds
       \/ Goto(p, "establish") /\ OpenFds(p, 1)
    /\ UNCHANGED link

(* bind() or connect()                                                       *)
Establish(p) ==
    /\ At(p, {"establish"})
    /\ \/ Goto(p, "close") /\ UNCHANGED link
       \/ p = Server /\ Goto(p, "listen") /\ UNCHANGED link
       \/ /\ p \in Clients /\ At(Server, {"open"})
          /\ Goto(p, "open")
          /\ link' = [link EXCEPT ![p] = "queued"]
    /\ UNCHANGED fds

(* Variant with a bug: the descriptor is not closed before the next try.     *)
CloseNothing(p) ==
    /\ At(p, {"close"})
    /\ TryNext(p) \/ Goto(p, "failed")
    /\ UNCHANGED <<fds, link>>

(* An error of close() ends the search, but the descriptor is free.          *)
CloseFailed(p) ==
    /\ At(p, {"close"})
    /\ TryNext(p) \/ Goto(p, "failed")
    /\ OpenFds(p, -1)
    /\ UNCHANGED link

Listen ==
    /\ At(Server, {"listen"})
    /\ \/ Goto(Server, "open") /\ UNCHANGED fds
       \/ Goto(Server, "failed") /\ OpenFds(Server, -1)
    /\ UNCHANGED link

Opens(p) ==
    /\ Lookup(p) \/ Socket(p) \/ Establish(p) \/ CloseFailed(p)
       \/ (p = Server /\ Listen)
    /\ UNCHANGED <<commands, clients, sessions, store, up, down, cause, spent>>

-----------------------------------------------------------------------------
(* The client programs                                                       *)

Program(c) ==
    LET a == commands[c]
        tuple == <<a.table, a.key>>
    IN  IF a.program = "set"
          THEN << Message("LOGIN", <<a.user>>), Message("PUSH", <<a.value>>),
                  Message("SET", tuple), Message("BYE", <<>>) >>
          ELSE << Message("LOGIN", <<a.user>>), Message("GET", tuple),
                  Message("TOP", <<>>), Message("BYE", <<>>) >>

Request(c) == Program(c)[clients[c].step]
Running(c, pc) == clients[c].pc = pc /\ clients[c].result = "none"

(* The process ends, and with it its end of the connection.                  *)
Exit(c, result) ==
    /\ clients' = [clients EXCEPT ![c].result = result]
    /\ Goto(c, "ended")
    /\ fds' = [fds EXCEPT ![c] = 0]
    /\ IF link[c] = "none"
         THEN UNCHANGED <<up, down>>
         ELSE /\ up' = [up EXCEPT ![c] = Hung(@, Reset(down[c]))]
              /\ down' = [down EXCEPT ![c] = Left(@)]

ClientDoes == UNCHANGED <<commands, link, sessions, store, cause>>

(* A read or a write moves n of the bytes there are.                         *)
Moves(n, bytes) ==
    IF n = Len(bytes)
      THEN UNCHANGED spent
      ELSE /\ spent.cuts < MaxCuts
           /\ spent' = [spent EXCEPT !.cuts = @ + 1]

Start(c) ==
    /\ At(c, {"unstarted"})
    /\ \A i, j \in DOMAIN Order : Order[j] = c /\ i < j => At(Order[i], {"ended"})
    /\ Goto(c, "lookup")
    /\ ClientDoes /\ UNCHANGED <<fds, clients, up, down, spent>>

(* encode throws, and nobody catches it.                                     *)
Unencodable(c) ==
    /\ Running(c, "send") /\ At(c, {"open", "failed"})
    /\ IsTooLong(Request(c))
    /\ Exit(c, "aborted") /\ ClientDoes /\ UNCHANGED spent

(* open_clientfd has returned a negative number, for which nobody looks: the *)
(* first write fails, and unix_error exits with status 0.                    *)
NoConnection(c) ==
    /\ Running(c, "send") /\ At(c, {"failed"})
    /\ ~IsTooLong(Request(c))
    /\ Exit(c, "io error") /\ ClientDoes /\ UNCHANGED spent

SendRequest(c) ==
    /\ Running(c, "send") /\ At(c, {"open"})
    /\ ~IsTooLong(Request(c)) /\ CanCallWrite(up[c])
    /\ up' = [up EXCEPT ![c] = CallWrite(@, Encode(Request(c)))]
    /\ clients' = [clients EXCEPT ![c].pc = "write"]
    /\ ClientDoes /\ UNCHANGED <<sockets, down, spent>>

ClientWrites(c) ==
    /\ Running(c, "write")
    /\ \/ \E n \in 1 .. Len(up[c].out) :
              /\ CanWrite(up[c], n) /\ Moves(n, up[c].out)
              /\ up' = [up EXCEPT ![c] = Write(@, n)]
       \/ /\ CanWriteInVain(up[c]) /\ up' = [up EXCEPT ![c] = WriteInVain(@)]
          /\ UNCHANGED spent
    /\ ClientDoes /\ UNCHANGED <<sockets, clients, down>>

ClientBreaksPipe(c) ==
    /\ Running(c, "write") /\ BreaksPipe(up[c])
    /\ Exit(c, "killed") /\ ClientDoes /\ UNCHANGED spent

(* No answer to BYE is waited for.                                           *)
Bye(c) ==
    /\ Running(c, "write") /\ up[c].out = <<>>
    /\ Request(c).type = "BYE"
    /\ Exit(c, "done") /\ ClientDoes /\ UNCHANGED spent

AwaitReply(c) ==
    /\ Running(c, "write") /\ up[c].out = <<>>
    /\ Request(c).type # "BYE" /\ CanReadLine(down[c])
    /\ down' = [down EXCEPT ![c] = ReadLine(@)]
    /\ clients' = [clients EXCEPT ![c].pc = "read"]
    /\ ClientDoes /\ UNCHANGED <<sockets, up, spent>>

ClientReads(c) ==
    /\ Running(c, "read")
    /\ \/ \E n \in 1 .. Len(down[c].wire) :
              /\ CanRefill(down[c], n) /\ Moves(n, down[c].wire)
              /\ down' = [down EXCEPT ![c] = Refill(@, n)]
       \/ /\ MeetsEnd(down[c]) /\ down' = [down EXCEPT ![c] = MeetEnd(@)]
          /\ UNCHANGED spent
    /\ ClientDoes /\ UNCHANGED <<sockets, clients, up>>

(* What decode makes of buf.  At the end of the file nothing has been        *)
(* written to it: handle_message finds on the stack what it left there, or   *)
(* garbage.                                                                  *)
Replies(c) ==
    CASE down[c].reader = "line" -> {Decode(down[c].line)}
      [] down[c].reader = "eof" ->
            IF clients[c].step > 1 /\ Request(c).type # "TOP"
              THEN {Message("OK", <<>>), Invalid} ELSE {Invalid}
      [] OTHER -> {}

Wanted(c) == IF Request(c).type = "TOP" THEN "DATA" ELSE "OK"

Advanced(client, m, fromStack) ==
    [client EXCEPT !.pc = "send", !.step = @ + 1, !.stale = @ \/ fromStack,
                   !.printed = IF m.type = "DATA" THEN GetValue(m) ELSE @]

(* handle_message gets a copy of the rio_t, with what it has read too much.  *)
Go(c) ==
    /\ Running(c, "read")
    /\ \E m \in Replies(c) :
          /\ m.type = Wanted(c)
          /\ clients' = [clients EXCEPT ![c] = Advanced(@, m, down[c].reader = "eof")]
    /\ down' = [down EXCEPT ![c].rbuf = IF Wanted(c) = "OK" THEN <<>> ELSE @]
    /\ ClientDoes /\ UNCHANGED <<sockets, up, spent>>

(* Variant with a bug: the client does not wait for the end of the line.     *)
GiveUpEarly(c) ==
    /\ Running(c, "read")
    /\ \/ down[c].reader = "reading"
       \/ \E m \in Replies(c) : m # Invalid /\ m.type # Wanted(c)
    /\ Exit(c, "failed") /\ ClientDoes /\ UNCHANGED spent

GiveUp(c) ==
    /\ Running(c, "read")
    /\ \E m \in Replies(c) : m # Invalid /\ m.type # Wanted(c)
    /\ Exit(c, "failed") /\ ClientDoes /\ UNCHANGED spent

(* decode throws, and nobody catches it.                                     *)
Abort(c) ==
    /\ Running(c, "read") /\ Invalid \in Replies(c)
    /\ Exit(c, "aborted") /\ ClientDoes /\ UNCHANGED spent

ReadFails(c) ==
    /\ Running(c, "read") /\ down[c].reader = "error"
    /\ Exit(c, "io error") /\ ClientDoes /\ UNCHANGED spent

Client(c) ==
    \/ Opens(c) \/ Unencodable(c) \/ NoConnection(c)
    \/ SendRequest(c) \/ ClientWrites(c) \/ ClientBreaksPipe(c)
    \/ Bye(c) \/ AwaitReply(c) \/ ClientReads(c)
    \/ Go(c) \/ GiveUp(c) \/ Abort(c) \/ ReadFails(c)

-----------------------------------------------------------------------------
(* The server                                                                *)

Live == {c \in Clients : sessions[c].pc \in {"read", "write", "last"}}

(* The server's end of some connections goes.                                *)
HangUp(conns) ==
    /\ up' = [c \in Clients |-> IF c \in conns THEN Left(up[c]) ELSE up[c]]
    /\ down' = [c \in Clients |->
                   IF c \in conns THEN Hung(down[c], Reset(up[c])) ELSE down[c]]

(* exit() in any thread, or a signal, ends all of them.                      *)
ServerExit(why) ==
    /\ cause' = why
    /\ Goto(Server, "ended") /\ fds' = [fds EXCEPT ![Server] = 0]
    /\ sessions' = [c \in Clients |-> [sessions[c] EXCEPT !.pc = "ended"]]
    /\ HangUp(Live \union {c \in Clients : link[c] = "queued"
                                               /\ sessions[c].pc = "none"})
    /\ UNCHANGED <<commands, clients, link, store>>

(* Open_listenfd does not return, and the status is 0.                       *)
CannotListen ==
    At(Server, {"failed"}) /\ ServerExit("listen") /\ UNCHANGED spent

ServerDoes == UNCHANGED <<commands, clients, store, cause>>

Accept(c) ==
    /\ At(Server, {"open"}) /\ link[c] = "queued"
    /\ link' = [link EXCEPT ![c] = "accepted"]
    /\ OpenFds(Server, 1)
    /\ sessions' = [sessions EXCEPT ![c].pc = "read"]
    /\ up' = [up EXCEPT ![c] = ReadLine(@)]
    /\ ServerDoes /\ UNCHANGED <<opening, down, spent>>

SessionReads(c) ==
    /\ sessions[c].pc = "read"
    /\ \/ \E n \in 1 .. Len(up[c].wire) :
              /\ CanRefill(up[c], n) /\ Moves(n, up[c].wire)
              /\ up' = [up EXCEPT ![c] = Refill(@, n)]
       \/ /\ MeetsEnd(up[c]) /\ up' = [up EXCEPT ![c] = MeetEnd(@)]
          /\ UNCHANGED spent
    /\ ServerDoes /\ UNCHANGED <<sockets, link, sessions, down>>

SessionReadFails(c) ==
    /\ sessions[c].pc = "read" /\ up[c].reader = "error"
    /\ ServerExit("read") /\ UNCHANGED spent

(* ~ClientConnection closes the descriptor.                                  *)
Close(c) ==
    /\ sessions' = [sessions EXCEPT ![c].pc = "ended"]
    /\ OpenFds(Server, -1)
    /\ HangUp({c})
    /\ ServerDoes /\ UNCHANGED <<opening, link, spent>>

(* Variant with a bug: the end of the file is taken for an empty line.       *)
IgnoreEndOfFile(c) ==
    /\ sessions[c].pc = "read" /\ up[c].reader = "eof"
    /\ up' = [up EXCEPT ![c] = ReadLine(@)]
    /\ ServerDoes /\ UNCHANGED <<sockets, link, sessions, down, spent>>

EndOfFile(c) == sessions[c].pc = "read" /\ up[c].reader = "eof" /\ Close(c)

(* Handlers: m is the request, decoded.                                      *)
Asks(c, m, type) ==
    m.type = type /\ IsValid(m) /\ (sessions[c].loggedIn \/ type = "LOGIN")

Answer(c, m, session, pc) ==
    /\ down' = [down EXCEPT ![c] = CallWrite(@, Encode(m))]
    /\ sessions' = [sessions EXCEPT ![c] = [session EXCEPT !.pc = pc]]
    /\ UNCHANGED <<sockets, commands, clients, link, up, cause, spent>>

Ok == Message("OK", <<>>)
Failed == Message("FAILED", <<Text>>)
Error == Message("ERROR", <<Text>>)

Tuple(m) == <<GetTable(m), GetKey(m)>>

Login(c, m) ==
    /\ Asks(c, m, "LOGIN") /\ IsValidIdentifier(GetUsername(m))
    /\ Answer(c, Ok, [sessions[c] EXCEPT !.loggedIn = TRUE], "write")
    /\ UNCHANGED store

Pushed(session, value) ==
    [session EXCEPT !.hasStack = TRUE, !.stack = Append(@, value)]

Push(c, m) ==
    /\ Asks(c, m, "PUSH")
    /\ Answer(c, Ok, Pushed(sessions[c], GetValue(m)), "write")
    /\ UNCHANGED store

(* Table::set and commit_changes                                             *)
Stored(tuple, value) ==
    [t \in DOMAIN store \union {tuple} |-> IF t = tuple THEN value ELSE store[t]]

(* Variant with a bug: the table is not looked for.                          *)
SetBlindly(c, m) ==
    /\ Asks(c, m, "SET")
    /\ store' = IF GetTable(m) \in Tables
                  THEN Stored(Tuple(m), Last(sessions[c].stack)) ELSE store
    /\ Answer(c, Ok, [sessions[c] EXCEPT !.stack = Front(@)], "write")

Set(c, m) ==
    /\ Asks(c, m, "SET")
    /\ LET s == sessions[c]
       IN  IF s.hasStack /\ GetTable(m) \in Tables /\ s.stack # <<>>
             THEN /\ store' = Stored(Tuple(m), Last(s.stack))
                  /\ Answer(c, Ok, [s EXCEPT !.stack = Front(@)], "write")
             ELSE UNCHANGED store /\ Answer(c, Failed, s, "write")

Get(c, m) ==
    /\ Asks(c, m, "GET")
    /\ IF GetTable(m) \in Tables /\ Tuple(m) \in DOMAIN store
         THEN Answer(c, Ok, Pushed(sessions[c], store[Tuple(m)]), "write")
         ELSE Answer(c, Failed, sessions[c], "write")
    /\ UNCHANGED store

Top(c, m) ==
    /\ Asks(c, m, "TOP")
    /\ LET s == sessions[c]
       IN  IF s.hasStack /\ s.stack # <<>>
             THEN Answer(c, Message("DATA", <<Last(s.stack)>>), s, "write")
             ELSE Answer(c, Failed, s, "write")
    /\ UNCHANGED store

LogOut(c, m) ==
    Asks(c, m, "BYE") /\ Answer(c, Ok, sessions[c], "last") /\ UNCHANGED store

(* InvalidMessage: what cannot be decoded, comes before LOGIN or is not a    *)
(* request in proper form.                                                   *)
Refuse(c, m) ==
    /\ \/ ~IsValid(m) \/ m.type \notin Requests
       \/ ~sessions[c].loggedIn /\ m.type # "LOGIN"
       \/ m.type = "LOGIN" /\ ~IsValidIdentifier(GetUsername(m))
    /\ Answer(c, Error, sessions[c], "last")
    /\ UNCHANGED store

Handle(c) ==
    /\ sessions[c].pc = "read" /\ up[c].reader = "line"
    /\ \E m \in {Decode(up[c].line)} :
          \/ Login(c, m) \/ Push(c, m) \/ Set(c, m) \/ Get(c, m) \/ Top(c, m)
          \/ LogOut(c, m) \/ Refuse(c, m)

SessionWrites(c) ==
    /\ sessions[c].pc \in {"write", "last"}
    /\ \/ \E n \in 1 .. Len(down[c].out) :
              /\ CanWrite(down[c], n) /\ Moves(n, down[c].out)
              /\ down' = [down EXCEPT ![c] = Write(@, n)]
       \/ /\ CanWriteInVain(down[c]) /\ down' = [down EXCEPT ![c] = WriteInVain(@)]
          /\ UNCHANGED spent
    /\ ServerDoes /\ UNCHANGED <<sockets, link, sessions, up>>

SessionBreaksPipe(c) ==
    /\ sessions[c].pc \in {"write", "last"} /\ BreaksPipe(down[c])
    /\ ServerExit("write") /\ UNCHANGED spent

AwaitRequest(c) ==
    /\ sessions[c].pc = "write" /\ down[c].out = <<>>
    /\ sessions' = [sessions EXCEPT ![c].pc = "read"]
    /\ up' = [up EXCEPT ![c] = ReadLine(@)]
    /\ ServerDoes /\ UNCHANGED <<sockets, link, down, spent>>

Return(c) == sessions[c].pc = "last" /\ down[c].out = <<>> /\ Close(c)

Main == Opens(Server) \/ CannotListen \/ \E c \in Clients : Accept(c)

Thread(c) ==
    \/ SessionReads(c) \/ SessionReadFails(c) \/ EndOfFile(c) \/ Handle(c)
    \/ SessionWrites(c) \/ SessionBreaksPipe(c) \/ AwaitRequest(c) \/ Return(c)

-----------------------------------------------------------------------------
(* Faults: a signal ends a process, accept() fails, or pthread_create().     *)

Fault ==
    /\ spent.faults < MaxFaults
    /\ spent' = [spent EXCEPT !.faults = @ + 1]

Kill(c) ==
    /\ Fault /\ ~At(c, {"unstarted", "ended"})
    /\ Exit(c, "killed")
    /\ UNCHANGED <<commands, link, sessions, store, cause>>

KillServer == Fault /\ ~At(Server, {"ended"}) /\ ServerExit("killed")
AcceptFails == Fault /\ At(Server, {"open"}) /\ ServerExit("accept")

ThreadFails(c) ==
    /\ Fault /\ At(Server, {"open"}) /\ link[c] = "queued"
    /\ link' = [link EXCEPT ![c] = "accepted"]
    /\ sessions' = [sessions EXCEPT ![c].pc = "ended"]
    /\ HangUp({c})
    /\ ServerDoes /\ UNCHANGED sockets

Faults ==
    KillServer \/ AcceptFails \/ \E c \in Clients : Kill(c) \/ ThreadFails(c)

-----------------------------------------------------------------------------
Init ==
    /\ commands \in CommandLines
    /\ opening = [p \in Processes |->
                     [at |-> IF p = Server THEN "lookup" ELSE "unstarted",
                      address |-> 1]]
    /\ fds = [p \in Processes |-> 0]
    /\ clients = [c \in Clients |->
                     [pc |-> "send", step |-> 1, printed |-> NoLine,
                      result |-> "none", stale |-> FALSE]]
    /\ link = [c \in Clients |-> "none"]
    /\ sessions = [c \in Clients |->
                      [pc |-> "none", loggedIn |-> FALSE, hasStack |-> FALSE,
                       stack |-> <<>>]]
    /\ store = <<>>
    /\ up = [c \in Clients |-> NewPipe] /\ down = [c \in Clients |-> NewPipe]
    /\ cause = "none" /\ spent = [faults |-> 0, cuts |-> 0]

Runs == Main \/ \E c \in Clients : Client(c) \/ Thread(c)

Next == Runs \/ Faults \/ \E c \in Clients : Start(c)

(* The kernel runs some process or thread as long as one can run.  Nobody    *)
(* has to start a client.                                                    *)
Spec == Init /\ [][Next]_vars /\ WF_vars(Runs)

-----------------------------------------------------------------------------
(* Properties *)

(* The states of the processes fit each other: a thread has a connection, a  *)
(* client that sends or waits has one, and each pipe is one.                 *)
ProtocolTypeOK ==
    /\ \A c \in Clients :
          /\ up[c] \in Pipe /\ down[c] \in Pipe
          /\ clients[c].step \in 1 .. 4
          /\ sessions[c].pc \in {"read", "write", "last"} => link[c] = "accepted"
          /\ At(c, {"open"}) => link[c] # "none"
          /\ At(c, {"ended"}) <=> clients[c].result # "none"
    /\ opening \in [Processes ->
          [at : {"unstarted", "lookup", "socket", "establish", "close", "listen",
                 "open", "failed", "ended"},
           address : 1 .. Addresses]]
    /\ fds \in [Processes -> Nat]
    /\ spent \in [faults : 0 .. MaxFaults, cuts : 0 .. MaxCuts]

(* Searching the addresses leaves no descriptor behind, whichever call       *)
(* fails; the server holds its listening socket and one for each thread.     *)
DescriptorsAccounted ==
    \A p \in Processes :
        fds[p] = (IF At(p, {"establish", "close", "listen", "open"}) THEN 1 ELSE 0)
                 + (IF p = Server THEN Cardinality(Live) ELSE 0)

(* A value that the protocol can carry: no blank in it, no quote in front,   *)
(* and a PUSH that is not longer than the reader's buffer allows.            *)
Plain(v) ==
    /\ v # <<>> /\ v[1] # Quote /\ \A i \in DOMAIN v : v[i] # Blank
    /\ Len(Encode(Message("PUSH", <<v>>))) < MaxLine

Done(c) == clients[c].result = "done" /\ ~clients[c].stale

OnlyWriter(s) ==
    \A c \in Clients : commands[c].program = "set" => c = s

Named(c) ==
    IsValidIdentifier(commands[c].table) /\ IsValidIdentifier(commands[c].key)

(* When set_value has ended with all its requests answered, the value is in  *)
(* the table, and a get_value of the same tuple prints that value and no     *)
(* other, if it prints at all.  An answer that was not read but found on the *)
(* stack does not count, nor does a name with quotes around it, for which    *)
(* the server takes what is between them.                                    *)
SetThenGet ==
    \A s \in Clients :
        LET tuple(c) == <<commands[c].table, commands[c].key>>
            value == commands[s].value
        IN  /\ commands[s].program = "set" /\ OnlyWriter(s) /\ Named(s)
            /\ Done(s) /\ Plain(value)
            => /\ tuple(s) \in DOMAIN store /\ store[tuple(s)] = value
               /\ \A g \in Clients :
                     commands[g].program = "get" /\ tuple(g) = tuple(s) =>
                         clients[g].printed \in {NoLine, value}

(* A connection takes the server with it only if the client has been killed  *)
(* or was gone, with its last answer unread, before that was written.        *)
ServerOutlivesClients ==
    /\ cause = "read" => \E c \in Clients : clients[c].result = "killed"
    /\ cause = "write" => \E c \in Clients : clients[c].result \in {"killed", "done"}

Up(c) == INSTANCE PipeRefinement WITH pipe <- up[c]
Down(c) == INSTANCE PipeRefinement WITH pipe <- down[c]

ChannelsInit == \A c \in Clients : Up(c)!Channel!Init /\ Down(c)!Channel!Init
ChannelsNext ==
    \A c \in Clients : /\ [Up(c)!Channel!Next]_(Up(c)!Channel!vars)
                       /\ [Down(c)!Channel!Next]_(Down(c)!Channel!vars)

(* Requests and replies travel as lines, in order and whole.                 *)
ImplementsLineChannel == ChannelsInit /\ [][ChannelsNext]_vars

(* Every client that is started ends, and so does every thread of the        *)
(* server: nobody waits for ever for a line, whoever else is killed.         *)
EveryConversationEnds ==
    <>[](\A c \in Clients : /\ At(c, {"unstarted", "ended"})
                            /\ sessions[c].pc \in {"none", "ended"})

=============================================================================
