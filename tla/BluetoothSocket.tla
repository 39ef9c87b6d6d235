--------------------------- MODULE BluetoothSocket ---------------------------
(***************************************************************************)
(* SPP and L2CAP sockets: ClientSocket and ServerSocket                    *)
(* (frameworks/inner/src/bluetooth_socket.cpp), the streams that read and  *)
(* write them (bluetooth_socket_inputstream.cpp, _outputstream.cpp), the   *)
(* table that gives them ids (include/bluetooth_object_map.h) and the C    *)
(* interface through which threads use them (c_adapter/ohos_bt_socket.cpp).*)
(*                                                                         *)
(* Nothing in a socket is locked: fd_, socketStatus_ and acceptFd_ are     *)
(* plain members, so every read or write of one of them that another       *)
(* thread's step may separate from the next is a step of its own here,     *)
(* but for the two steps of a Close (CloseSet, CloseFd), which say so.     *)
(* The kernel is external: fdTable says which socket's file a descriptor   *)
(* number refers to, numbers are handed out lowest first and used again    *)
(* after a close, a thread blocked in recv keeps the file it entered with, *)
(* and a shutdown ends its wait.  A number that the rest of the process    *)
(* has opened refers to a file of the process, Other.                      *)
(*                                                                         *)
(* SocketRead and SocketWrite differ only in the direction of the data and *)
(* are one operation, SocketConnectEx is SocketConnect with an observer of *)
(* its own.  The contents of what is transferred, the timeouts of Accept   *)
(* (a timed-out wait fails as one whose peer closed does) and the packet   *)
(* sizes are left out.                                                     *)
(***************************************************************************)
EXTENDS Integers, FiniteSets

CONSTANTS
  Threads,      \* threads of the application
  Servers,      \* ServerSocket objects, reused once destroyed
  Clients,      \* ClientSocket objects, reused once destroyed
  MaxFd,        \* descriptor numbers are 1..MaxFd
  MaxObject,    \* maxSize of the object maps (MAX_OBJECT_NUM)
  MaxCalls,     \* bound on the calls the application makes
  MaxOthers     \* bound on the descriptors the rest of the process opens

Sockets == Servers \cup Clients

NoSocket == "null"

Fds == 1..MaxFd

InvalidFd == -1

\* What a descriptor number refers to besides the file of a socket.
Free == "free"

Other == "other"

ASSUME SocketAssumption ==
  /\ Servers \cap Clients = {}
  /\ {NoSocket, Free, Other} \cap Sockets = {}
  /\ {MaxFd, MaxObject, MaxCalls, MaxOthers} \subseteq Nat /\ MaxObject > 0

VARIABLES
  status,       \* socketStatus_ of every object, "none" where there is none
  fd,           \* fd_
  stream,       \* the number inputStream_ and outputStream_ copied, 0 for none
  acceptFd,     \* acceptFd_ of a server
  observers,    \* clients whose observer the service holds
  serverMap,    \* g_serverMap
  clientMap,    \* g_clientMap
  thread,       \* what each thread is doing
  fdTable,      \* kernel: what a number refers to
  shut,         \* kernel: the files that have been shut down
  calls,        \* calls made so far
  others,       \* descriptors the rest of the process has opened so far
  overlapped,   \* history: the pairs of calls made on a socket at one time
  touched,      \* history: sockets through which another's file was reached
  age,          \* history: the ids g_clientMap has handed out, and how many
                \* it handed out after each of them
  laps          \* history: the ages of ids handed out while in use

objects == <<status, fd, stream, acceptFd>>
maps == <<serverMap, clientMap>>
kernel == <<fdTable, shut>>
bounds == <<calls, others>>
socketHistory == <<overlapped, touched, age, laps>>
socketVars == <<objects, observers, maps, thread, kernel, bounds, socketHistory>>

\* op: the call; pc: where it is; obj: the socket it is made on; conn: the
\* client socket an Accept makes; id: its argument; num: the descriptor number
\* it has read; what: what it receives from that.
Idle == [op |-> "none", pc |-> "idle", obj |-> NoSocket, conn |-> NoSocket,
         id |-> 0, num |-> 0, what |-> "none"]

EmptyMap == [objects |-> <<>>, objectIncrease |-> 1]

SocketInit ==
  /\ status = [s \in Sockets |-> "none"]
  /\ fd = [s \in Sockets |-> InvalidFd]
  /\ stream = [c \in Clients |-> 0]
  /\ acceptFd = [s \in Servers |-> 0]
  /\ observers = {}
  /\ serverMap = EmptyMap
  /\ clientMap = EmptyMap
  /\ thread = [t \in Threads |-> Idle]
  /\ fdTable = [n \in Fds |-> Free]
  /\ shut = {}
  /\ calls = 0 /\ others = 0
  /\ overlapped = [s \in Sockets |-> {}] /\ touched = {}
  /\ age = <<>> /\ laps = {}

-----------------------------------------------------------------------------
(* The kernel. *)

HasFreeFd == \E n \in Fds : fdTable[n] = Free

LowestFreeFd ==
  CHOOSE n \in Fds : fdTable[n] = Free /\ \A k \in 1..(n - 1) : fdTable[k] # Free

\* What number n refers to when socket s uses it.
FileOf(n) == IF n \in Fds THEN fdTable[n] ELSE Free

\* s uses the number n: the history records that it is another's.
Touch(s, n) ==
  touched' = IF FileOf(n) \in {Free, s} THEN touched ELSE touched \cup {s}

CloseNumber(n) ==
  fdTable' = IF n \in Fds THEN [fdTable EXCEPT ![n] = Free] ELSE fdTable

\* The rest of the process opens a descriptor, or closes one of its own.
OtherOpens ==
  /\ others < MaxOthers /\ HasFreeFd
  /\ others' = others + 1
  /\ fdTable' = [fdTable EXCEPT ![LowestFreeFd] = Other]
  /\ UNCHANGED <<objects, observers, maps, thread, shut, calls, socketHistory>>

-----------------------------------------------------------------------------
(* BluetoothObjectMap. *)

\* Mutant: the counter wraps one id early.
NextIdWrapsEarly(m) == IF m.objectIncrease >= MaxObject THEN 1 ELSE m.objectIncrease

NextId(m) == IF m.objectIncrease > MaxObject THEN 1 ELSE m.objectIncrease

AddObject(m, o) ==
  LET i == NextId(m)
  IN  [objects |-> IF i \in DOMAIN m.objects THEN m.objects
                   ELSE [j \in DOMAIN m.objects \cup {i} |->
                           IF j = i THEN o ELSE m.objects[j]],
       objectIncrease |-> i + 1]

RemoveObject(m, i) ==
  [m EXCEPT !.objects = [j \in DOMAIN @ \ {i} |-> @[j]]]

Stored(m) == {m.objects[i] : i \in DOMAIN m.objects}

-----------------------------------------------------------------------------
(* Calls and the references they hold. *)

pc(t) == thread[t].pc

Goto(t, where) ==
  thread' = [thread EXCEPT
    ![t].pc = where,
    ![t].num = IF where = "call" THEN @ ELSE 0,
    ![t].what = IF where \in {"wait", "done"} THEN @ ELSE "none"]

\* Thread t is about to call recv or recvmsg on number n.
Receive(t, what, n) ==
  thread' = [thread EXCEPT ![t].pc = "call", ![t].what = what, ![t].num = n]

\* Thread t enters a call on socket s.
Enter(t, op, s, where, n, i) ==
  /\ pc(t) = "idle"
  /\ calls < MaxCalls
  /\ calls' = calls + 1
  /\ thread' = [thread EXCEPT ![t] = [Idle EXCEPT !.op = op, !.pc = where,
                                        !.obj = s, !.num = n, !.id = i,
                                        !.what = IF where = "call" THEN op ELSE "none"]]
  /\ overlapped' = [overlapped EXCEPT ![s] =
       (IF status[s] = "none" THEN {} ELSE @) \cup
       {{op, thread[u].op} : u \in {v \in Threads : thread[v].obj = s}}]

\* Storage for a new object: one that is destroyed and left nothing behind,
\* the history of a touched file included.
Unused(S) == {s \in S \ (observers \cup touched) :
                status[s] = "none" /\ \A n \in Fds : fdTable[n] # s}

\* The object a constructor is given: which one does not matter.
Fresh(S) == IF Unused(S) = {} THEN {} ELSE {CHOOSE s \in S : s \in Unused(S)}

\* The objects thread t is the last to refer to.
LastReference(t) ==
  {s \in {thread[t].obj, thread[t].conn} \cap Sockets :
     /\ s \notin Stored(serverMap) \cup Stored(clientMap)
     /\ \A u \in Threads \ {t} : s \notin {thread[u].obj, thread[u].conn}}

\* The call returns and drops its shared pointers; the destructor of an
\* object that nobody refers to any more closes fd_ once more if it is valid.
Return(t) ==
  LET gone == LastReference(t)
      closed == {fd[s] : s \in gone} \cap Fds
  IN  /\ pc(t) = "return"
      /\ thread' = [thread EXCEPT ![t] = Idle]
      /\ status' = [s \in Sockets |-> IF s \in gone THEN "none" ELSE status[s]]
      /\ fd' = [s \in Sockets |-> IF s \in gone THEN InvalidFd ELSE fd[s]]
      /\ stream' = [c \in Clients |-> IF c \in gone THEN 0 ELSE stream[c]]
      /\ acceptFd' = [s \in Servers |-> IF s \in gone THEN 0 ELSE acceptFd[s]]
      /\ fdTable' = [n \in Fds |-> IF n \in closed THEN Free ELSE fdTable[n]]
      /\ shut' = shut \ gone
      /\ touched' = touched \cup {s \in gone : FileOf(fd[s]) \notin {Free, s}}
      /\ UNCHANGED <<observers, maps, bounds, overlapped, age, laps>>

-----------------------------------------------------------------------------
(* Waiting for the service: recv and recvmsg on a number read before. *)

\* Mutant: a failed Listen or Connect is returned without a Close.
NoCloseOnFailure(t) == "return"

\* Where a call goes on after its wait failed: Listen and Connect return an
\* error, for which the C interface closes the socket; Read and Write return.
AfterFailure(t) ==
  IF thread[t].op \in {"create", "connect"} THEN "closeCheck" ELSE "return"

\* The wait fails.  Accept first stores the failure in acceptFd_, which another
\* Accept may use at the same time.
Fail(t) ==
  LET s == thread[t].obj
  IN  IF thread[t].what = "accept"
      THEN Goto(t, "accepted") /\ acceptFd' = [acceptFd EXCEPT ![s] = InvalidFd]
      ELSE Goto(t, AfterFailure(t)) /\ UNCHANGED acceptFd

\* The system call begins.  A number that refers to nothing fails at once,
\* one that refers to another's file reads that file; what it reads may be
\* taken for what the caller waits for, except for a connection.
SystemCall(t) ==
  LET file == FileOf(thread[t].num)
      own == thread[t].obj
  IN  /\ pc(t) = "call"
      /\ Touch(own, thread[t].num)
      /\ \/ file = own /\ Goto(t, "wait") /\ UNCHANGED acceptFd
         \/ file # own /\ Fail(t)
         \/ /\ file \notin {Free, own} /\ thread[t].what # "accept"
            /\ Goto(t, "done") /\ UNCHANGED acceptFd
      /\ UNCHANGED <<status, fd, stream, observers, maps, kernel, bounds,
                     overlapped, age, laps>>

\* A shutdown of the file ends the wait with nothing received.
Woken(t) ==
  /\ pc(t) = "wait" /\ thread[t].obj \in shut
  /\ Fail(t)
  /\ UNCHANGED <<status, fd, stream, observers, maps, kernel, bounds, socketHistory>>

\* The service closes its end, refuses, or sends what cannot be used.
ServiceFails(t) ==
  /\ pc(t) = "wait" /\ thread[t].obj \notin shut
  /\ Fail(t)
  /\ UNCHANGED <<status, fd, stream, observers, maps, kernel, bounds, socketHistory>>

\* The service sends the channel, the connection signal or data.
ServiceSends(t) ==
  /\ pc(t) = "wait" /\ thread[t].obj \notin shut
  /\ thread[t].what # "accept"
  /\ Goto(t, "done")
  /\ UNCHANGED <<objects, observers, maps, kernel, bounds, socketHistory>>

-----------------------------------------------------------------------------
(* ServerSocket. *)

New(s) ==
  /\ status' = [status EXCEPT ![s] = "init"]
  /\ UNCHANGED <<fd, stream, acceptFd>>

\* SocketServerCreate makes the object and calls Listen, which finds a proxy
\* and a socket that is not closed.
SocketServerCreate(t) ==
  \E s \in Fresh(Servers) :
    /\ Enter(t, "create", s, "listen", 0, 0)
    /\ New(s)
    /\ UNCHANGED <<observers, maps, kernel, others, touched, age, laps>>

\* Listen's answer from the service: an error closes the socket, otherwise
\* the service's descriptor is installed in fd_ and read from.
ListenAnswer(t) ==
  LET s == thread[t].obj
  IN  /\ pc(t) = "listen"
      /\ \/ /\ status' = [status EXCEPT ![s] = "closed"]
            /\ Goto(t, "closeCheck")
            /\ UNCHANGED <<fd, fdTable>>
         \/ /\ HasFreeFd
            /\ fdTable' = [fdTable EXCEPT ![LowestFreeFd] = s]
            /\ fd' = [fd EXCEPT ![s] = LowestFreeFd]
            /\ Receive(t, "channel", LowestFreeFd)
            /\ UNCHANGED status
      /\ UNCHANGED <<stream, acceptFd, observers, maps, shut, bounds, socketHistory>>

\* The channel is known: Listen looks at socketStatus_ ...
ListenCheck(t) ==
  /\ pc(t) = "done" /\ thread[t].what = "channel" /\ thread[t].op = "create"
  /\ Goto(t, IF status[thread[t].obj] = "init" THEN "listening" ELSE "refused")
  /\ UNCHANGED <<objects, observers, maps, kernel, bounds, socketHistory>>

\* ... and sets it.
SetListening(t) ==
  /\ pc(t) = "listening"
  /\ status' = [status EXCEPT ![thread[t].obj] = "listening"]
  /\ Goto(t, "add")
  /\ UNCHANGED <<fd, stream, acceptFd, observers, maps, kernel, bounds, socketHistory>>

\* Closed while it was listening: the descriptor is closed, and fd_ keeps
\* its number for the destructor to close again.
RefuseListening(t) ==
  LET s == thread[t].obj
  IN  /\ pc(t) = "refused"
      /\ Touch(s, fd[s])
      /\ CloseNumber(fd[s])
      /\ status' = [status EXCEPT ![s] = "closed"]
      /\ Goto(t, "closeCheck")
      /\ UNCHANGED <<fd, stream, acceptFd, observers, maps, shut, bounds,
                     overlapped, age, laps>>

\* SocketServerAccept finds a listening server and reads its descriptor.
SocketServerAccept(t) ==
  \E i \in DOMAIN serverMap.objects :
    LET s == serverMap.objects[i]
    IN  /\ Enter(t, "accept", s,
                 IF status[s] = "listening" THEN "call" ELSE "return", fd[s], i)
        /\ UNCHANGED <<objects, observers, maps, kernel, others, touched, age, laps>>

\* RecvSocketFd returns the descriptor of a connection, in acceptFd_.  The
\* history knows it as the one of the client object that will be made.
ConnectionArrives(t) ==
  LET s == thread[t].obj
  IN  /\ pc(t) = "wait" /\ thread[t].what = "accept"
      /\ s \notin shut
      /\ HasFreeFd
      /\ \E c \in Fresh(Clients) :
           /\ status' = [status EXCEPT ![c] = "connected"]
           /\ fdTable' = [fdTable EXCEPT ![LowestFreeFd] = c]
           /\ thread' = [thread EXCEPT ![t].pc = "accepted", ![t].conn = c]
      /\ acceptFd' = [acceptFd EXCEPT ![s] = LowestFreeFd]
      /\ UNCHANGED <<fd, stream, observers, maps, shut, bounds, socketHistory>>

\* Accept looks at acceptFd_, which may be another Accept's by now, ...
AcceptCheck(t) ==
  LET s == thread[t].obj
      c == thread[t].conn
  IN  /\ pc(t) = "accepted"
      /\ Goto(t, IF acceptFd[s] \in Fds THEN "adopt" ELSE "return")
      /\ overlapped' = [x \in Sockets |-> IF x = c THEN overlapped[s] ELSE overlapped[x]]
      /\ UNCHANGED <<objects, observers, maps, kernel, bounds, touched, age, laps>>

\* ... and makes the client socket of what it holds when it is read again.
AcceptedClient(t) ==
  LET s == thread[t].obj
  IN  /\ pc(t) = "adopt"
      /\ \E c \in IF thread[t].conn = NoSocket THEN Fresh(Clients) ELSE {thread[t].conn} :
           /\ status' = [status EXCEPT ![c] = "connected"]
           /\ fd' = [fd EXCEPT ![c] = acceptFd[s]]
           /\ stream' = [stream EXCEPT ![c] = acceptFd[s]]
           /\ overlapped' = [overlapped EXCEPT ![c] = overlapped[s]]
           /\ thread' = [thread EXCEPT ![t].pc = "add", ![t].conn = c]
      /\ UNCHANGED <<acceptFd, observers, maps, kernel, bounds, touched, age, laps>>

-----------------------------------------------------------------------------
(* ClientSocket. *)

\* SocketConnect makes the object; Connect finds it not closed.
SocketConnect(t) ==
  \E c \in Fresh(Clients) :
    /\ Enter(t, "connect", c, "register", 0, 0)
    /\ New(c)
    /\ UNCHANGED <<observers, maps, kernel, others, touched, age, laps>>

\* Connect registers the socket's observer; an error ends it.
RegisterClientObserver(t) ==
  /\ pc(t) = "register"
  /\ \/ observers' = observers \cup {thread[t].obj} /\ Goto(t, "connect")
     \/ UNCHANGED observers /\ Goto(t, "closeCheck")
  /\ UNCHANGED <<objects, maps, kernel, bounds, socketHistory>>

\* The service's answer to Connect: an error, or a descriptor, put in fd_
\* whatever happened to the socket meanwhile.
ConnectAnswer(t) ==
  LET c == thread[t].obj
  IN  /\ pc(t) = "connect"
      /\ \/ Goto(t, "closeCheck") /\ UNCHANGED <<fd, fdTable>>
         \/ /\ HasFreeFd
            /\ fdTable' = [fdTable EXCEPT ![LowestFreeFd] = c]
            /\ fd' = [fd EXCEPT ![c] = LowestFreeFd]
            /\ Receive(t, "channel", LowestFreeFd)
      /\ UNCHANGED <<status, stream, acceptFd, observers, maps, shut, bounds, socketHistory>>

\* RecvSocketPsmOrScn has returned; RecvSocketSignal reads fd_ again.
ConnectChannel(t) ==
  /\ pc(t) = "done" /\ thread[t].what = "channel" /\ thread[t].op = "connect"
  /\ Receive(t, "signal", fd[thread[t].obj])
  /\ UNCHANGED <<objects, observers, maps, kernel, bounds, socketHistory>>

\* The signal has come: the streams copy fd_ and the socket is connected,
\* even when it was closed on the way.
Connected(t) ==
  LET c == thread[t].obj
  IN  /\ pc(t) = "done" /\ thread[t].what = "signal"
      /\ stream' = [stream EXCEPT ![c] = fd[c]]
      /\ status' = [status EXCEPT ![c] = "connected"]
      /\ Goto(t, "add")
      /\ UNCHANGED <<fd, acceptFd, observers, maps, kernel, bounds, socketHistory>>

\* SocketRead and SocketWrite use the number the stream copied.
SocketReadWrite(t) ==
  \E i \in DOMAIN clientMap.objects :
    LET c == clientMap.objects[i]
    IN  /\ Enter(t, "data", c,
                 IF stream[c] \in {0, InvalidFd} THEN "return" ELSE "call",
                 stream[c], i)
        /\ UNCHANGED <<objects, observers, maps, kernel, others, touched, age, laps>>

DataDone(t) ==
  /\ pc(t) = "done" /\ thread[t].what = "data"
  /\ Goto(t, "return")
  /\ UNCHANGED <<objects, observers, maps, kernel, bounds, socketHistory>>

-----------------------------------------------------------------------------
(* Ids and Close. *)

\* Id i of g_clientMap belongs to a stored socket, or a SocketDisconnect is
\* still to remove what is stored under it.
InUse(i) ==
  \/ i \in DOMAIN clientMap.objects
  \/ \E t \in Threads : thread[t].op = "disconnect" /\ thread[t].id = i /\ pc(t) # "return"

\* AddObject: the id of the new socket is returned, also when the id belongs
\* to an older one and nothing is stored.
Add(t) ==
  LET new == IF thread[t].op = "accept" THEN thread[t].conn ELSE thread[t].obj
      i == NextId(clientMap)
  IN  /\ pc(t) = "add"
      /\ IF new \in Servers
         THEN serverMap' = AddObject(serverMap, new) /\ UNCHANGED <<clientMap, age, laps>>
         ELSE /\ clientMap' = AddObject(clientMap, new)
              /\ laps' = IF InUse(i) THEN laps \cup {age[i] + 1} ELSE laps
              /\ age' = [j \in DOMAIN age \cup {i} |-> IF j = i THEN 0 ELSE age[j] + 1]
              /\ UNCHANGED serverMap
      /\ Goto(t, "return")
      /\ UNCHANGED <<objects, observers, kernel, bounds, overlapped, touched>>

\* SocketServerClose, SocketDisconnect and, through the inner interface, a
\* Close of a socket that another thread is about to connect or listen on.
CallClose(t) ==
  /\ \/ \E i \in DOMAIN serverMap.objects :
          Enter(t, "serverClose", serverMap.objects[i], "closeCheck", 0, i)
     \/ \E i \in DOMAIN clientMap.objects :
          Enter(t, "disconnect", clientMap.objects[i], "closeCheck", 0, i)
     \/ \E u \in Threads : /\ thread[u].op \in {"create", "connect"}
                           /\ Enter(t, "close", thread[u].obj, "closeCheck", 0, 0)
  /\ UNCHANGED <<objects, observers, maps, kernel, others, touched, age, laps>>

\* After Close: the C interface forgets the id, and a failed SocketConnect or
\* SocketServerCreate returns.
AfterClose(t) ==
  IF thread[t].op \in {"serverClose", "disconnect"} THEN "remove" ELSE "return"

CloseCheck(t) ==
  /\ pc(t) = "closeCheck"
  /\ Goto(t, IF status[thread[t].obj] = "closed" THEN AfterClose(t) ELSE "closeSet")
  /\ UNCHANGED <<objects, observers, maps, kernel, bounds, socketHistory>>

\* Mutant: Close does not shut the file down.
CloseWithoutShutdown(t) ==
  LET s == thread[t].obj
  IN  /\ pc(t) = "closeSet"
      /\ status' = [status EXCEPT ![s] = "closed"]
      /\ Goto(t, IF fd[s] \in Fds THEN "closeFd" ELSE "deregister")
      /\ UNCHANGED <<fd, stream, acceptFd, observers, maps, kernel, bounds, socketHistory>>

\* The socket is closed first, then its descriptor is shut down if it has one.
\* The store of the status, the test of fd_ and the two shutdowns are one step
\* here: what a call that overlaps the Close does between them is left out.
CloseSet(t) ==
  LET s == thread[t].obj
  IN  /\ pc(t) = "closeSet"
      /\ status' = [status EXCEPT ![s] = "closed"]
      /\ Touch(s, fd[s])
      /\ shut' = IF FileOf(fd[s]) \in Sockets THEN shut \cup {FileOf(fd[s])} ELSE shut
      /\ Goto(t, IF fd[s] \in Fds THEN "closeFd" ELSE "deregister")
      /\ UNCHANGED <<fd, stream, acceptFd, observers, maps, fdTable, bounds,
                     overlapped, age, laps>>

\* Mutant: Close leaves the number in fd_.
CloseKeepsFd(t) ==
  LET s == thread[t].obj
  IN  /\ pc(t) = "closeFd"
      /\ Touch(s, fd[s])
      /\ CloseNumber(fd[s])
      /\ Goto(t, "deregister")
      /\ UNCHANGED <<objects, observers, maps, shut, bounds, overlapped, age, laps>>

\* close and the reset of fd_ are one step too: what an overlapping call does
\* with the number that is closed but still in fd_ is left out.
CloseFd(t) ==
  LET s == thread[t].obj
  IN  /\ pc(t) = "closeFd"
      /\ Touch(s, fd[s])
      /\ CloseNumber(fd[s])
      /\ fd' = [fd EXCEPT ![s] = InvalidFd]
      /\ Goto(t, "deregister")
      /\ UNCHANGED <<status, stream, acceptFd, observers, maps, shut, bounds,
                     overlapped, age, laps>>

\* DeregisterClientObserver; the observer of a server goes with its record in
\* the service.
DeregisterObserver(t) ==
  /\ pc(t) = "deregister"
  /\ observers' = observers \ {thread[t].obj}
  /\ Goto(t, AfterClose(t))
  /\ UNCHANGED <<objects, maps, kernel, bounds, socketHistory>>

Remove(t) ==
  /\ pc(t) = "remove"
  /\ IF thread[t].op = "serverClose"
     THEN serverMap' = RemoveObject(serverMap, thread[t].id) /\ UNCHANGED clientMap
     ELSE clientMap' = RemoveObject(clientMap, thread[t].id) /\ UNCHANGED serverMap
  /\ Goto(t, "return")
  /\ UNCHANGED <<objects, observers, kernel, bounds, socketHistory>>

-----------------------------------------------------------------------------
(* A step of a call that the thread takes by itself. *)
SocketStep(t) ==
  \/ SystemCall(t) \/ Woken(t)
  \/ ListenCheck(t) \/ SetListening(t) \/ RefuseListening(t)
  \/ AcceptCheck(t) \/ AcceptedClient(t)
  \/ RegisterClientObserver(t) \/ ConnectChannel(t) \/ Connected(t)
  \/ DataDone(t)
  \/ Add(t) \/ CloseCheck(t) \/ CloseSet(t) \/ CloseFd(t)
  \/ DeregisterObserver(t) \/ Remove(t) \/ Return(t)

Answer(t) == ListenAnswer(t) \/ ConnectAnswer(t)

SocketNext ==
  \/ \E t \in Threads :
       \/ SocketStep(t) \/ Answer(t)
       \/ SocketServerCreate(t) \/ SocketServerAccept(t) \/ SocketConnect(t)
       \/ SocketReadWrite(t) \/ CallClose(t)
       \/ ConnectionArrives(t)
       \/ ServiceFails(t) \/ ServiceSends(t)
  \/ OtherOpens

\* Threads are scheduled and the service answers its calls; nothing makes it
\* send a channel, a signal, data or a connection.
SocketFairness == \A t \in Threads : WF_socketVars(SocketStep(t)) /\ WF_socketVars(Answer(t))

SocketSpec == SocketInit /\ [][SocketNext]_socketVars /\ SocketFairness

-----------------------------------------------------------------------------
(* Properties. *)

Closing == {"close", "serverClose", "disconnect"}

\* No resource outlives its socket: an open descriptor that the service gave
\* to a socket is in the fd_ of that live socket, and the service holds the
\* observer of live clients only.  Two Accepts that overlap on one server may
\* lose a descriptor, because the second overwrites acceptFd_ before the first
\* has used it.  An observer stays behind when a Close overlaps Connect and
\* deregisters it before it is registered, or when an id is handed out again,
\* MaxObject ids later, while it is in use: a new socket is not stored if the
\* old one still is, and a SocketDisconnect of the old one that is late removes
\* the new one from the map; the destructor, which deregisters nothing, ends it.
ResourcesReturned ==
  /\ \A n \in Fds : fdTable[n] \in Sockets =>
       LET s == fdTable[n]
       IN  \/ status[s] # "none" /\ fd[s] = n
           \/ \E t \in Threads : pc(t) \in {"accepted", "adopt"} /\ thread[t].conn = s
           \/ {"accept"} \in overlapped[s]
  /\ \A c \in observers :
       \/ status[c] # "none"
       \/ {"connect", "close"} \in overlapped[c]
       \/ \E n \in laps : n >= MaxObject

\* A socket reads, writes, shuts down or closes no file but its own, through
\* a number that was closed and used again by somebody else.  The first to do
\* so is a socket one of whose overlapping calls closes it, or whose server
\* two Accepts overlapped on (what it closes may then bring others to do the
\* same).  The destructor after Close, a failed Listen or Connect, an id used
\* after SocketDisconnect, and readers among themselves never are the first.
OwnDescriptorsOnly ==
  touched # {} =>
    \E s \in touched : \E p \in overlapped[s] : p \cap Closing # {} \/ p = {"accept"}

\* A thread that waits in Accept, Read or Write on a socket that is closed
\* comes back: Close shuts the file down before it gives the number away.
BlockedCallsReturn ==
  \A t \in Threads :
    (pc(t) = "wait" /\ thread[t].what \in {"accept", "data"}
       /\ status[thread[t].obj] = "closed") ~> (pc(t) # "wait")

=============================================================================
