----------------------------- MODULE AsyncCalls -----------------------------
(***************************************************************************)
(* The internal calls of sockets and of the console that cannot finish at  *)
(* once.  Such a call tries first; when it would block it leaves a call    *)
(* object with a check function on its thread, and the scheduler polls     *)
(* that function until it says that the call is over.  Partial progress is *)
(* kept in the call object, a key read too early in nextKeybC.             *)
(*                                                                         *)
(* The host's sockets are external: a bounded buffer for each direction,   *)
(* whose bytes are delivered in pieces, and connections that take their    *)
(* time.  A poll that finds nothing changes nothing and is no action.      *)
(***************************************************************************)
EXTENDS Integers, Sequences, SequencesExt

CONSTANTS Threads,
          Programs,    \* functions from threads to sequences of calls
          Keyboard,    \* the keys that will be typed
          SendBuffer,  \* bytes the host takes before they are delivered
          BufferSize,  \* length of the byte array of each thread
          MaxRefusals, \* bound: how often the host refuses a thread
          NULL

ASSUME SizesAssumption ==
  SendBuffer \in Nat \ {0} /\ BufferSize \in Nat /\ MaxRefusals \in Nat

(* A call; what it sends or receives lies in the array from ofs on.  To    *)
(* spin is to loop without a call until all other threads have ended.      *)
CallRecord ==
  [op : {"listen", "accept", "connect", "send", "receive", "close", "readkey",
         "keyavailable", "spin"},
   ofs : Nat, size : Nat, data : Seq(0 .. 255)]

CheckFns == {"Accept_Check", "Connect_Check", "Receive_Check", "Internal_ReadKey_Check"}

(* Programs use bytes of their array, and a socket that was connected. *)
ASSUME ProgramsAssumption ==
  /\ Programs \subseteq [Threads -> Seq(CallRecord)]
  /\ \A p \in Programs, t \in Threads : \A i \in DOMAIN p[t] :
       /\ p[t][i].op \in {"send", "receive"} => p[t][i].ofs + p[t][i].size <= BufferSize
       /\ p[t][i].op = "send" => p[t][i].size = Len(p[t][i].data)
       /\ p[t][i].op = "receive" => p[t][i].size > 0
       /\ p[t][i].op \in {"send", "receive", "close"} =>
            \E j \in 1 .. i - 1 : p[t][j].op \in {"connect", "accept"}

ASSUME NamesAssumption ==
  /\ "none" \notin Threads
  /\ NULL \notin [checkFn : CheckFns, count : Nat] \cup CheckFns
  /\ Keyboard \in Seq(Range(Keyboard))
  /\ NULL \notin Range(Keyboard)

VARIABLES
  \* the runtime
  vm,           \* "loop" or "returned": Thread_Execute
  program, log, errors, sock,   \* as in BlockingCalls
  pAsync,       \* the call object of each thread, or NULL
  buffer,       \* the array of each thread; what lies beyond has positions too
  nextKeybC,    \* the key read by KeyAvailable, or NULL
  \* the host
  listening, backlog,   \* the listening socket
  conn,         \* conn[c]: "none", "pending", "established", "refused"
  flight, ready,        \* bytes not yet and already delivered
  open,         \* as in BlockingCalls
  keyboard, stdin       \* keys to be typed, keys typed

runtime == <<vm, program, log, errors, sock, pAsync, buffer, nextKeybC>>
host == <<listening, backlog, conn, flight, ready, open, keyboard, stdin>>
vars == <<runtime, host>>
console == <<nextKeybC, keyboard, stdin>>
sockets == <<sock, buffer, listening, backlog, conn, flight, ready, open>>

Sides == {"client", "server"}
Other(side) == CHOOSE s \in Sides : s # side
NoSocket == [conn |-> "none", side |-> "client"]

Running(t) == Len(log[t]) < Len(program[t])
Call(t) == program[t][Len(log[t]) + 1]

(* The call of t is made, or polled again with check function fn. *)
Checks(t, op, fn) ==
  /\ Running(t)
  /\ \/ pAsync[t] = NULL /\ Call(t).op = op
     \/ pAsync[t] # NULL /\ pAsync[t].checkFn = fn

(* The call of t is made and does not finish. *)
Blocks(t, fn, count) == pAsync' = [pAsync EXCEPT ![t] = [checkFn |-> fn, count |-> count]]

(* The call is over: the thread goes on, without a call object. *)
Return(t, result) ==
  /\ log' = [log EXCEPT ![t] = Append(@, result)]
  /\ pAsync' = [pAsync EXCEPT ![t] = NULL]

Init ==
  /\ vm = "loop"
  /\ program \in Programs
  /\ log = [t \in Threads |-> <<>>]
  /\ errors = [t \in Threads |-> 0]
  /\ sock = [t \in Threads |-> NoSocket]
  /\ pAsync = [t \in Threads |-> NULL]
  /\ buffer = [t \in Threads |-> [i \in 0 .. BufferSize - 1 |-> 0]]
  /\ nextKeybC = NULL
  /\ listening = FALSE
  /\ backlog = <<>>
  /\ conn = [c \in Threads |-> "none"]
  /\ flight = [c \in Threads |-> [s \in Sides |-> <<>>]]
  /\ ready = [c \in Threads |-> [s \in Sides |-> <<>>]]
  /\ open = [c \in Threads |-> [s \in Sides |-> TRUE]]
  /\ keyboard = Keyboard
  /\ stdin = <<>>

-----------------------------------------------------------------------------
(* The host *)

(* A connection is made: it is in the queue of the listening socket before *)
(* either side knows.                                                      *)
Establish(c) ==
  /\ conn[c] = "pending" /\ listening
  /\ conn' = [conn EXCEPT ![c] = "established"]
  /\ backlog' = Append(backlog, c)
  /\ UNCHANGED <<runtime, listening, flight, ready, open, keyboard, stdin>>

Refuse(c) ==
  /\ conn[c] = "pending" /\ ~listening
  /\ errors[c] < MaxRefusals
  /\ conn' = [conn EXCEPT ![c] = "refused"]
  /\ UNCHANGED <<runtime, listening, backlog, flight, ready, open, keyboard, stdin>>

(* The first n bytes that side wrote arrive. *)
Deliver(c, side, n) ==
  /\ n \in 1 .. Len(flight[c][side])
  /\ ready' = [ready EXCEPT ![c][side] = @ \o SubSeq(flight[c][side], 1, n)]
  /\ flight' = [flight EXCEPT ![c][side] = SubSeq(@, n + 1, Len(@))]
  /\ UNCHANGED <<runtime, listening, backlog, conn, open, keyboard, stdin>>

TypeKey ==
  /\ keyboard # <<>>
  /\ stdin' = Append(stdin, Head(keyboard))
  /\ keyboard' = Tail(keyboard)
  /\ UNCHANGED <<runtime, listening, backlog, conn, flight, ready, open>>

-----------------------------------------------------------------------------
(* Connections *)

Listen(t) ==
  /\ Checks(t, "listen", NULL)
  /\ listening' = TRUE
  /\ Return(t, "ok")
  /\ UNCHANGED <<program, errors, sock, buffer, backlog, conn, flight, ready, open, console>>

Close(t) ==
  /\ Checks(t, "close", NULL)
  /\ open' = [open EXCEPT ![sock[t].conn][sock[t].side] = FALSE]
  /\ Return(t, "ok")
  /\ UNCHANGED <<program, errors, sock, buffer, listening, backlog, conn, flight, ready, console>>

(* Mutant: the connection stays in the queue. *)
TakeConnectionNot == UNCHANGED backlog

TakeConnection == backlog' = Tail(backlog)

Accept_Check(t) ==
  /\ Checks(t, "accept", "Accept_Check")
  /\ backlog # <<>>
  /\ TakeConnection
  /\ sock' = [sock EXCEPT ![t] = [conn |-> Head(backlog), side |-> "server"]]
  /\ Return(t, Head(backlog))
  /\ UNCHANGED <<program, errors, buffer, listening, conn, flight, ready, open, console>>

(* Only a socket that listens is asked. *)
Internal_Accept(t) ==
  /\ Checks(t, "accept", NULL) /\ pAsync[t] = NULL
  /\ listening /\ backlog = <<>>
  /\ Blocks(t, "Accept_Check", 0)
  /\ UNCHANGED <<program, errors, log, console, sockets>>

(* The first try starts to connect, and a try after an error starts again. *)
Internal_Connect(t) ==
  /\ Checks(t, "connect", NULL) /\ pAsync[t] = NULL
  /\ conn[t] \in {"none", "refused"}
  /\ conn' = [conn EXCEPT ![t] = "pending"]
  /\ Blocks(t, "Connect_Check", 0)
  /\ UNCHANGED <<program, errors, log, sock, buffer, listening, backlog, flight, ready,
                 open, console>>

(* Each try calls connect again: EISCONN says that the connection is made. *)
Connect_Check(t) ==
  /\ Checks(t, "connect", "Connect_Check")
  /\ conn[t] = "established"
  /\ sock' = [sock EXCEPT ![t] = [conn |-> t, side |-> "client"]]
  /\ Return(t, "ok")
  /\ UNCHANGED <<program, errors, buffer, listening, backlog, conn, flight, ready, open, console>>

(* The call ends with the error of the host.  What it throws is caught, and *)
(* the program connects again.                                             *)
Connect_CheckFailed(t) ==
  /\ Checks(t, "connect", "Connect_Check")
  /\ pAsync[t] # NULL
  /\ conn[t] = "refused"
  /\ errors' = [errors EXCEPT ![t] = @ + 1]
  /\ pAsync' = [pAsync EXCEPT ![t] = NULL]
  /\ UNCHANGED <<program, log, console, sockets>>

-----------------------------------------------------------------------------
(* Data *)

Count(t) == IF pAsync[t] = NULL THEN 0 ELSE pAsync[t].count

(* The bytes of the array that a call uses, and what a write leaves. *)
Slice(b, ofs, n) == [i \in 1 .. n |-> b[ofs + i - 1]]

(* Mutant: a zero ends what was written. *)
WriteTerminated(b, ofs, bytes) ==
  [i \in DOMAIN b \cup ofs .. ofs + Len(bytes) |->
     IF i < ofs \/ i > ofs + Len(bytes) THEN b[i] ELSE (bytes \o <<0>>)[i - ofs + 1]]

Write(b, ofs, bytes) ==
  [i \in DOMAIN b \cup ofs .. ofs + Len(bytes) - 1 |->
     IF i \in ofs .. ofs + Len(bytes) - 1 THEN bytes[i - ofs + 1] ELSE b[i]]

(* Mutant: a poll writes where the call began. *)
PositionFirst(t) == Call(t).ofs

Position(t) == Call(t).ofs + Count(t)

(* What recv takes: it asks for the whole size in every poll. *)
Recv(t) ==
  LET here == ready[sock[t].conn][Other(sock[t].side)]
  IN SubSeq(here, 1, IF Len(here) < Call(t).size THEN Len(here) ELSE Call(t).size)

(* Bytes have arrived: the call returns when it has all it asked for. *)
Receive_Check(t) ==
  LET c == sock[t].conn
      peer == Other(sock[t].side)
      bytes == Recv(t)
      count == Count(t) + Len(bytes)
  IN /\ Checks(t, "receive", "Receive_Check")
     /\ bytes # <<>>
     /\ ready' = [ready EXCEPT ![c][peer] = SubSeq(@, Len(bytes) + 1, Len(@))]
     /\ buffer' = [buffer EXCEPT ![t] = Write(@, Position(t), bytes)]
     /\ IF count >= Call(t).size
        THEN Return(t, IF Call(t).op = "send" THEN count
                       ELSE Slice(buffer'[t], Call(t).ofs, count))
        ELSE Blocks(t, "Receive_Check", count) /\ UNCHANGED log
     /\ UNCHANGED <<program, errors, sock, listening, backlog, conn, flight, open, console>>

(* Mutant: no bytes are taken for no bytes yet. *)
Receive_CheckAtEndNot(t) == FALSE

(* The peer has closed and everything has arrived: recv returns 0. *)
Receive_CheckAtEnd(t) ==
  LET c == sock[t].conn
      peer == Other(sock[t].side)
  IN /\ Checks(t, "receive", "Receive_Check")
     /\ ~open[c][peer] /\ ready[c][peer] = <<>> /\ flight[c][peer] = <<>>
     /\ Return(t, IF Call(t).op = "send" THEN Count(t)
                  ELSE Slice(buffer[t], Call(t).ofs, Count(t)))
     /\ UNCHANGED <<program, errors, console, sockets>>

Internal_Receive(t) ==
  LET c == sock[t].conn
      peer == Other(sock[t].side)
  IN /\ Checks(t, "receive", NULL) /\ pAsync[t] = NULL
     /\ ready[c][peer] = <<>>
     /\ open[c][peer] \/ flight[c][peer] # <<>>
     /\ Blocks(t, "Receive_Check", 0)
     /\ UNCHANGED <<program, errors, log, console, sockets>>

(* A send hands over what the host takes.  If that is not everything, the  *)
(* call blocks, with the check function of a receive.                      *)
Internal_Send(t) ==
  LET c == sock[t].conn
      me == sock[t].side
      size == Call(t).size
      room == SendBuffer - Len(flight[c][me])
      n == IF size < room THEN size ELSE room
      data == Call(t).data
  IN /\ Checks(t, "send", NULL) /\ pAsync[t] = NULL
     /\ buffer' = [buffer EXCEPT ![t] = Write(@, Call(t).ofs, data)]
     /\ flight' = [flight EXCEPT ![c][me] = @ \o SubSeq(data, 1, n)]
     /\ IF n >= size THEN Return(t, n)
        ELSE Blocks(t, "Receive_Check", n) /\ UNCHANGED log
     /\ UNCHANGED <<program, errors, sock, listening, backlog, conn, ready, open, console>>

-----------------------------------------------------------------------------
(* The console *)

(* Mutant: the key looked at is not forgotten when it is read. *)
ReadAheadKept ==
  IF nextKeybC # NULL THEN UNCHANGED <<nextKeybC, stdin>>
  ELSE stdin' = Tail(stdin) /\ UNCHANGED nextKeybC

(* A key: the one KeyAvailable has read, or the next of the input. *)
ReadAhead ==
  IF nextKeybC # NULL
  THEN nextKeybC' = NULL /\ UNCHANGED stdin
  ELSE stdin' = Tail(stdin) /\ UNCHANGED nextKeybC

KeyThere == nextKeybC # NULL \/ stdin # <<>>
NextKey == IF nextKeybC # NULL THEN nextKeybC ELSE Head(stdin)

(* ReadKey never tries at once. *)
Internal_ReadKey(t) ==
  /\ Checks(t, "readkey", NULL) /\ pAsync[t] = NULL
  /\ Blocks(t, "Internal_ReadKey_Check", 0)
  /\ UNCHANGED <<program, errors, log, console, sockets>>

Internal_ReadKey_Check(t) ==
  /\ pAsync[t] # NULL /\ pAsync[t].checkFn = "Internal_ReadKey_Check"
  /\ KeyThere
  /\ ReadAhead
  /\ Return(t, NextKey)
  /\ UNCHANGED <<program, errors, keyboard, sockets>>

Internal_KeyAvailable(t) ==
  /\ Checks(t, "keyavailable", NULL)
  /\ IF KeyThere
     THEN /\ nextKeybC' = NextKey
          /\ stdin' = IF nextKeybC # NULL THEN stdin ELSE Tail(stdin)
     ELSE UNCHANGED <<nextKeybC, stdin>>
  /\ Return(t, KeyThere)
  /\ UNCHANGED <<program, errors, keyboard, sockets>>

-----------------------------------------------------------------------------
Host ==
  \/ TypeKey
  \/ \E c \in Threads :
       \/ Establish(c)
       \/ Refuse(c)
       \/ \E side \in Sides, n \in 1 .. SendBuffer : Deliver(c, side, n)

(* The other threads have ended, and the loop of this one sees it. *)
Spin(t) ==
  /\ Checks(t, "spin", NULL)
  /\ \A u \in Threads : u # t => ~Running(u)
  /\ Return(t, "ok")
  /\ UNCHANGED <<program, errors, console, sockets>>

(* A thread makes its next call. *)
Begin(t) ==
  \/ Listen(t) \/ Close(t) \/ Internal_Accept(t) \/ Internal_Connect(t)
  \/ Internal_Receive(t) \/ Internal_Send(t)
  \/ Internal_ReadKey(t) \/ Internal_KeyAvailable(t) \/ Spin(t)

(* A check, by the call itself or in a poll, that makes progress. *)
Check(t) ==
  \/ Accept_Check(t) \/ Connect_Check(t) \/ Connect_CheckFailed(t)
  \/ Receive_Check(t) \/ Receive_CheckAtEnd(t) \/ Internal_ReadKey_Check(t)

Step(t) ==
  /\ vm = "loop"
  /\ Begin(t) \/ Check(t)
  /\ UNCHANGED vm

(* Thread_Execute returns, and the program ends, when each thread that has *)
(* not ended was blocked at its poll of the last round; what it waits for  *)
(* may have come since.                                                    *)
GiveUp ==
  /\ vm = "loop"
  /\ \A t \in Threads : Running(t) => pAsync[t] # NULL
  /\ vm' = "returned"
  /\ UNCHANGED <<program, log, errors, sock, pAsync, buffer, nextKeybC, host>>

Next == Host \/ GiveUp \/ \E t \in Threads : Step(t)

(* The host delivers, keys are typed, and every thread is run and polled   *)
(* again and again until Thread_Execute returns.                           *)
Spec ==
  /\ Init /\ [][Next]_vars
  /\ WF_vars(TypeKey)
  /\ \A c \in Threads :
       /\ WF_vars(Establish(c) \/ Refuse(c))
       /\ \A side \in Sides : WF_vars(\E n \in 1 .. SendBuffer : Deliver(c, side, n))
  /\ \A t \in Threads : WF_vars(Step(t))

-----------------------------------------------------------------------------
(* Properties *)

TypeOK ==
  /\ vm \in {"loop", "returned"} /\ errors \in [Threads -> Nat]
  /\ \A t \in Threads : Len(log[t]) <= Len(program[t])
  /\ \A t \in Threads : pAsync[t] # NULL => Running(t) /\ pAsync[t].count \in Nat
  /\ \A t \in Threads : DOMAIN buffer[t] \subseteq 0 .. BufferSize - 1
  /\ \A c \in Threads, s \in Sides : Len(flight[c][s]) <= SendBuffer
  /\ backlog \in Seq(Threads)
  /\ Len(stdin) + Len(keyboard) <= Len(Keyboard)

(* Programs see blocking calls: whatever is polled, in whichever order,    *)
(* and however the bytes come in, streams arrive whole and in order, each  *)
(* connection is accepted once, and every key is read once, in the order   *)
(* in which they were typed.  A byte received in part is still in the      *)
(* stream, and so is a key that was only looked at.                        *)
Receiver(t, c, side) ==
  /\ sock[t] = [conn |-> c, side |-> Other(side)]
  /\ pAsync[t] # NULL /\ pAsync[t].checkFn = "Receive_Check"
Taken(c, side) ==
  IF \E t \in Threads : Receiver(t, c, side)
  THEN LET t == CHOOSE u \in Threads : Receiver(u, c, side)
       IN Slice(buffer[t], Call(t).ofs, pAsync[t].count)
  ELSE <<>>

Blocking == INSTANCE BlockingCalls WITH
  link <- [c \in Threads |->
             IF conn[c] # "established" THEN "none"
             ELSE IF \E i \in DOMAIN backlog : backlog[i] = c THEN "up"
             ELSE "accepted"],
  stream <- [c \in Threads |-> [s \in Sides |->
               Taken(c, s) \o ready[c][s] \o flight[c][s]]],
  keys <- (IF nextKeybC = NULL THEN <<>> ELSE <<nextKeybC>>) \o stdin

ImplementsBlocking == Blocking!Spec

(* Every call returns: none is forgotten, left unpolled, or polled with a  *)
(* function that waits for something else.  A thread that spins keeps      *)
(* Thread_Execute in its loop meanwhile; without one the program ends when *)
(* all threads wait.                                                       *)
KeepsLooping(t) == Len(program[t]) = 1 /\ program[t][1].op = "spin"

AllReturn ==
  (\E t \in Threads : KeepsLooping(t)) => <>(\A t \in Threads : ~Running(t))

(* Violated.  "All data sent" (System.Net.Sockets.Socket.c:323): the bytes *)
(* of the sends that returned have been handed to the socket, so that they *)
(* are received, or on their way.                                          *)
Bytes(t, op, In(_)) ==
  FlattenSeq([i \in 1 .. Len(log[t]) |-> IF program[t][i].op = op THEN In(i) ELSE <<>>])

AllDataSent ==
  \A t, u \in Threads :
    LET c == sock[t].conn
        me == sock[t].side
        sent == Bytes(t, "send", LAMBDA i : program[t][i].data)
        received == Bytes(u, "receive", LAMBDA i : log[u][i])
    IN c # "none" /\ sock[u] = [conn |-> c, side |-> Other(me)] =>
         Len(sent) <= Len(received) + Len(Taken(c, me))
                        + Len(ready[c][me]) + Len(flight[c][me])
=============================================================================
