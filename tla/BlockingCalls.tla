--------------------------- MODULE BlockingCalls ---------------------------
(***************************************************************************)
(* What the calls of sockets and the console promise to a program: each is *)
(* one step, taken when what the call waits for is there.  Connections are *)
(* named by the thread that connects, and carry a stream of bytes in each  *)
(* direction, named by the side that writes to it.                         *)
(***************************************************************************)
EXTENDS Integers, Sequences

CONSTANTS Threads

VARIABLES program,  \* program[t]: the calls of t, in order
          log,      \* log[t]: the results of those that returned
          errors,   \* errors[t]: how many connects ended in an error
          link,     \* link[c]: "none", "up" or "accepted"
          sock,     \* sock[t]: the connection of t and its side of it
          stream,   \* stream[c][side]: the bytes side sent and the other has not received
          open,     \* open[c][side]: side has not closed c
          keys      \* the keys typed and not read

vars == <<program, log, errors, link, sock, stream, open, keys>>

Sides == {"client", "server"}
Other(side) == CHOOSE s \in Sides : s # side
NoSocket == [conn |-> "none", side |-> "client"]

Running(t) == Len(log[t]) < Len(program[t])
Call(t) == program[t][Len(log[t]) + 1]
Calls(t, op) == Running(t) /\ Call(t).op = op
Return(t, result) == log' = [log EXCEPT ![t] = Append(@, result)]

Init ==
  /\ log = [t \in Threads |-> <<>>]
  /\ errors = [t \in Threads |-> 0]
  /\ link = [c \in Threads |-> "none"]
  /\ sock = [t \in Threads |-> NoSocket]
  /\ stream = [c \in Threads |-> [s \in Sides |-> <<>>]]
  /\ open = [c \in Threads |-> [s \in Sides |-> TRUE]]
  /\ keys = <<>>

Listen(t) ==
  /\ Calls(t, "listen")
  /\ Return(t, "ok")
  /\ UNCHANGED <<program, errors, link, sock, stream, open, keys>>

LinkUp(c) ==
  /\ Calls(c, "connect")
  /\ link[c] = "none"
  /\ link' = [link EXCEPT ![c] = "up"]
  /\ UNCHANGED <<program, errors, log, sock, stream, open, keys>>

Connect(t) ==
  /\ Calls(t, "connect")
  /\ link[t] # "none"
  /\ sock' = [sock EXCEPT ![t] = [conn |-> t, side |-> "client"]]
  /\ Return(t, "ok")
  /\ UNCHANGED <<program, errors, link, stream, open, keys>>

(* The call fails, and is made again: there is no connection. *)
ConnectFails(t) ==
  /\ Calls(t, "connect")
  /\ link[t] = "none"
  /\ errors' = [errors EXCEPT ![t] = @ + 1]
  /\ UNCHANGED <<program, log, link, sock, stream, open, keys>>

Accept(t, c) ==
  /\ Calls(t, "accept")
  /\ link[c] = "up"
  /\ link' = [link EXCEPT ![c] = "accepted"]
  /\ sock' = [sock EXCEPT ![t] = [conn |-> c, side |-> "server"]]
  /\ Return(t, c)
  /\ UNCHANGED <<program, errors, stream, open, keys>>

Send(t) ==
  LET c == sock[t].conn
      me == sock[t].side
  IN /\ Calls(t, "send")
     /\ stream' = [stream EXCEPT ![c][me] = @ \o Call(t).data]
     /\ Return(t, Len(Call(t).data))
     /\ UNCHANGED <<program, errors, link, sock, open, keys>>

(* The bytes asked for, or at the end of the stream all that are left. *)
Receive(t) ==
  LET c == sock[t].conn
      peer == Other(sock[t].side)
      there == stream[c][peer]
      n == IF Len(there) < Call(t).size THEN Len(there) ELSE Call(t).size
  IN /\ Calls(t, "receive")
     /\ n = Call(t).size \/ ~open[c][peer]
     /\ stream' = [stream EXCEPT ![c][peer] = SubSeq(@, n + 1, Len(@))]
     /\ Return(t, SubSeq(there, 1, n))
     /\ UNCHANGED <<program, errors, link, sock, open, keys>>

Close(t) ==
  /\ Calls(t, "close")
  /\ open' = [open EXCEPT ![sock[t].conn][sock[t].side] = FALSE]
  /\ Return(t, "ok")
  /\ UNCHANGED <<program, errors, link, sock, stream, keys>>

ReadKey(t) ==
  /\ Calls(t, "readkey")
  /\ keys # <<>>
  /\ Return(t, Head(keys))
  /\ keys' = Tail(keys)
  /\ UNCHANGED <<program, errors, link, sock, stream, open>>

KeyAvailable(t) ==
  /\ Calls(t, "keyavailable")
  /\ Return(t, keys # <<>>)
  /\ UNCHANGED <<program, errors, link, sock, stream, open, keys>>

(* A loop that ends when the other threads have ended. *)
Spin(t) ==
  /\ Calls(t, "spin")
  /\ \A u \in Threads : u # t => ~Running(u)
  /\ Return(t, "ok")
  /\ UNCHANGED <<program, errors, link, sock, stream, open, keys>>

(* Somebody types keys. *)
Typing ==
  /\ Len(keys') = Len(keys) + 1
  /\ SubSeq(keys', 1, Len(keys)) = keys
  /\ UNCHANGED <<program, errors, log, link, sock, stream, open>>

Next ==
  \/ Typing
  \/ \E t \in Threads :
       \/ Listen(t) \/ LinkUp(t) \/ Connect(t) \/ ConnectFails(t) \/ Send(t) \/ Receive(t) \/ Close(t)
       \/ ReadKey(t) \/ KeyAvailable(t) \/ Spin(t)
       \/ \E c \in Threads : Accept(t, c)

Spec == Init /\ [][Next]_vars
=============================================================================
