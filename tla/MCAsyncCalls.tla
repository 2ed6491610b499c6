---------------------------- MODULE MCAsyncCalls ----------------------------
EXTENDS AsyncCalls

CONSTANTS a, b, s, r, k   \* threads

Op(op) == [op |-> op, ofs |-> 0, size |-> 0, data |-> <<>>]
Send(data) == [Op("send") EXCEPT !.size = Len(data), !.data = data]
Receive(ofs, size) == [Op("receive") EXCEPT !.ofs = ofs, !.size = size]

connect == Op("connect")
accept == Op("accept")
readkey == Op("readkey")
keyavailable == Op("keyavailable")

(* A request in two parts, a reply, and another round to the end of the    *)
(* stream.  No more bytes are on their way than a call in progress asks    *)
(* for: a poll after a part has come asks for the whole size again.        *)
Exchange ==
  a :> <<connect, Send(<<1, 2, 3>>), Send(<<4>>), Receive(0, 2), readkey,
         Send(<<8>>), Receive(1, 2), Op("close")>> @@
  s :> <<Op("listen"), accept, Receive(0, 1), Receive(1, 3), Send(<<5, 6>>),
         Receive(0, 1), Send(<<7>>), Op("close")>> @@
  b :> <<keyavailable, readkey>> @@
  r :> <<>> @@
  k :> <<Op("spin")>>

(* Two threads accept the connections of two others. *)
Accepting ==
  a :> <<connect, Send(<<1, 2>>), Receive(0, 1)>> @@
  b :> <<connect, Send(<<3>>), Receive(1, 2), Op("close")>> @@
  s :> <<Op("listen"), accept, Receive(0, 1), Send(<<5>>), Op("close")>> @@
  r :> <<accept, Receive(0, 1), Op("close")>> @@
  k :> <<Op("spin")>>

(* Three threads share the keyboard. *)
Keys ==
  a :> <<keyavailable, readkey, keyavailable>> @@
  b :> <<readkey>> @@
  s :> <<keyavailable, keyavailable, readkey>> @@
  r :> <<>> @@
  k :> <<Op("spin")>>

(* Without a thread that keeps Thread_Execute in its loop. *)
Unkept == [Keys EXCEPT ![k] = <<>>]

MCPrograms == {Exchange, Accepting, Keys, Unkept}
MCKeyboard == <<"x", "y", "z">>

(* A send that the host does not take at once, and a reply. *)
LargeSend ==
  a :> <<connect, Send(<<1, 2, 3>>), Receive(0, 1)>> @@
  s :> <<Op("listen"), accept, Receive(0, 2), Send(<<4>>), Op("close")>> @@
  b :> <<>> @@
  r :> <<>> @@
  k :> <<Op("spin")>>

MCLargeSend == {LargeSend}
NoKeys == <<>>
=============================================================================
