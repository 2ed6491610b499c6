-------------------------- MODULE AsyncCallsProofs --------------------------
(***************************************************************************)
(* Proofs about AsyncCalls, for any programs, keys and sizes: the calls    *)
(* that are tried and polled implement calls that block.                   *)
(***************************************************************************)
EXTENDS AsyncCalls, SequenceTheorems, TLAPS

(* The hypotheses about a run.  The code is wrong otherwise: a send that   *)
(* the host takes in part is polled as a receive, and a receive that got a *)
(* part asks for the whole again.                                          *)
NoPartialSend ==
  \A t \in Threads : Running(t) /\ Call(t).op = "send" => pAsync[t] = NULL

NoSurplus ==
  \A t \in Threads :
    Running(t) /\ Call(t).op = "receive" /\ pAsync[t] # NULL /\ pAsync[t].count > 0 =>
      pAsync[t].count + Len(ready[sock[t].conn][Other(sock[t].side)]) <= Call(t).size

Byte == 0 .. 255
Key == Range(Keyboard)
Results == {"ok"} \cup Threads \cup Nat \cup Seq(Byte) \cup BOOLEAN \cup Key
Socket == [conn : Threads \cup {"none"}, side : Sides]
CallObject == [checkFn : CheckFns, count : Nat]

Types ==
  /\ program \in Programs
  /\ log \in [Threads -> Seq(Results)]
  /\ sock \in [Threads -> Socket]
  /\ pAsync \in [Threads -> CallObject \cup {NULL}]
  /\ buffer \in [Threads -> [0 .. BufferSize - 1 -> Byte]]
  /\ nextKeybC \in Key \cup {NULL}
  /\ listening \in BOOLEAN
  /\ backlog \in Seq(Threads)
  /\ conn \in [Threads -> {"none", "pending", "established", "refused"}]
  /\ flight \in [Threads -> [Sides -> Seq(Byte)]]
  /\ ready \in [Threads -> [Sides -> Seq(Byte)]]
  /\ open \in [Threads -> [Sides -> BOOLEAN]]
  /\ keyboard \in Seq(Key)
  /\ stdin \in Seq(Key)

Sizes ==
  /\ \A t \in Threads : Len(log[t]) <= Len(program[t])
  /\ \A c \in Threads, s \in Sides : Len(flight[c][s]) <= SendBuffer
  /\ Len(stdin) + Len(keyboard) <= Len(Keyboard)

(* A call object is polled with the check function of the call it is for. *)
CallFor(fn) ==
  CASE fn = "Accept_Check" -> "accept"
    [] fn = "Connect_Check" -> "connect"
    [] fn = "Receive_Check" -> "receive"
    [] fn = "Internal_ReadKey_Check" -> "readkey"

CallObjectsFit ==
  \A t \in Threads :
    pAsync[t] # NULL =>
      /\ Running(t)
      /\ Call(t).op = CallFor(pAsync[t].checkFn)
      /\ Call(t).op = "receive" => pAsync[t].count <= Call(t).size

PendingPolled ==
  \A t \in Threads :
    conn[t] = "pending" => pAsync[t] # NULL /\ pAsync[t].checkFn = "Connect_Check"

(* Either side of a connection has at most one socket.                     *)
Connected(t) ==
  \A i \in 1 .. Len(log[t]) :
    program[t][i].op \in {"connect", "accept"} => sock[t].conn # "none"

Accepted(t, c) == sock[t].conn = c /\ sock[t].side = "server"

OneSocketPerSide ==
  /\ \A t \in Threads : sock[t].conn # "none" => conn[sock[t].conn] = "established"
  /\ \A t \in Threads : sock[t].side = "client" => sock[t].conn \in {t, "none"}
  /\ \A t \in Threads : sock[t].side = "server" => sock[t].conn # "none"
  /\ \A t, u, c \in Threads : Accepted(t, c) /\ Accepted(u, c) => t = u
  /\ \A i, j \in DOMAIN backlog : backlog[i] = backlog[j] => i = j
  /\ \A i \in DOMAIN backlog : conn[backlog[i]] = "established"
  /\ \A i \in DOMAIN backlog, t \in Threads : ~Accepted(t, backlog[i])

IInv ==
  /\ Types
  /\ Sizes
  /\ CallObjectsFit
  /\ PendingPolled
  /\ \A t \in Threads : Connected(t)
  /\ OneSocketPerSide

-----------------------------------------------------------------------------
(* Calls *)

LEMMA CallType ==
  ASSUME Types, NEW t \in Threads, Running(t)
  PROVE  /\ Call(t) \in CallRecord
         /\ Call(t).op \in {"send", "receive"} =>
              Call(t).ofs + Call(t).size <= BufferSize
         /\ Call(t).op = "send" => Call(t).size = Len(Call(t).data)
         /\ Call(t).op = "receive" => Call(t).size > 0
         /\ Call(t).op \in {"send", "receive", "close"} =>
              \E j \in 1 .. Len(log[t]) : program[t][j].op \in {"connect", "accept"}
<1>1. program[t] \in Seq(CallRecord)
  BY ProgramsAssumption DEF Types
<1>2. Len(log[t]) \in Nat
  BY DEF Types
<1>3. Len(log[t]) + 1 \in DOMAIN program[t]
  BY <1>1, <1>2 DEF Running
<1> DEFINE p == program
           i == Len(log[t]) + 1
<1>4. /\ p[t][i].op \in {"send", "receive"} => p[t][i].ofs + p[t][i].size <= BufferSize
      /\ p[t][i].op = "send" => p[t][i].size = Len(p[t][i].data)
      /\ p[t][i].op = "receive" => p[t][i].size > 0
      /\ p[t][i].op \in {"send", "receive", "close"} =>
           \E j \in 1 .. i - 1 : p[t][j].op \in {"connect", "accept"}
  BY <1>3, ProgramsAssumption DEF Types
<1>5. 1 .. i - 1 = 1 .. Len(log[t])
  BY <1>2
<1>6. Call(t) \in CallRecord
  BY <1>1, <1>3 DEF Call
<1> QED
  BY <1>4, <1>5, <1>6 DEF Call

LEMMA SidesFacts ==
  ASSUME NEW side \in Sides
  PROVE  /\ Other(side) \in Sides
         /\ Other(side) # side
         /\ Other(Other(side)) = side
         /\ \A s \in Sides : s # side => s = Other(side)
<1>1. \E s \in Sides : s # side
  BY DEF Sides
<1>2. Other(side) \in Sides /\ Other(side) # side
  BY <1>1 DEF Other
<1>3. \E s \in Sides : s # Other(side)
  BY DEF Sides
<1>4. Other(Other(side)) \in Sides /\ Other(Other(side)) # Other(side)
  BY <1>3 DEF Other
<1> QED
  BY <1>2, <1>4 DEF Sides

LEMMA NotNULL ==
  /\ NULL \notin CheckFns
  /\ \A fn \in CheckFns, n \in Nat : [checkFn |-> fn, count |-> n] # NULL
  /\ \A a \in CallObject : a # NULL
<1>1. NULL \notin [checkFn : CheckFns, count : Nat]
  BY NamesAssumption
<1> QED
  BY <1>1, NamesAssumption DEF CallObject

(* What is known of a call when it is made or polled. *)
LEMMA ChecksFacts ==
  ASSUME Types, CallObjectsFit, NEW t \in Threads, NEW op, NEW fn, Checks(t, op, fn),
         fn = NULL \/ (fn \in CheckFns /\ CallFor(fn) = op)
  PROVE  /\ Running(t)
         /\ Call(t).op = op
         /\ fn = NULL => pAsync[t] = NULL
         /\ pAsync[t] # NULL => pAsync[t] \in CallObject /\ pAsync[t].checkFn = fn
<1>1. pAsync[t] # NULL => pAsync[t] \in CallObject /\ pAsync[t].checkFn \in CheckFns
  BY DEF Types, CallObject
<1>2. Running(t) /\ (pAsync[t] = NULL => Call(t).op = op)
  BY DEF Checks
<1>3. pAsync[t] # NULL => pAsync[t].checkFn = fn
  BY DEF Checks
<1>4. pAsync[t] # NULL => Call(t).op = op
  BY <1>1, <1>3, NotNULL DEF CallObjectsFit
<1> QED
  BY <1>1, <1>2, <1>3, <1>4, NotNULL

LEMMA ProgramLength ==
  ASSUME Types, NEW t \in Threads
  PROVE  Len(program[t]) \in Nat /\ Len(log[t]) \in Nat
<1>1. program[t] \in Seq(CallRecord)
  BY ProgramsAssumption DEF Types
<1> QED
  BY <1>1 DEF Types

LEMMA ReturnKeeps ==
  ASSUME Types, Sizes, CallObjectsFit, NEW t \in Threads, Running(t),
         NEW r \in Results, Return(t, r), program' = program
  PROVE  /\ log' \in [Threads -> Seq(Results)]
         /\ pAsync' \in [Threads -> CallObject \cup {NULL}]
         /\ \A u \in Threads : Len(log'[u]) <= Len(program'[u])
         /\ CallObjectsFit'
<1>1. log' = [log EXCEPT ![t] = Append(log[t], r)] /\ pAsync' = [pAsync EXCEPT ![t] = NULL]
  BY DEF Return
<1>2. log[t] \in Seq(Results) /\ Append(log[t], r) \in Seq(Results)
  BY DEF Types
<1>3. log' \in [Threads -> Seq(Results)]
  BY <1>1, <1>2 DEF Types
<1>4. pAsync' \in [Threads -> CallObject \cup {NULL}]
  BY <1>1 DEF Types
<1>5. Len(log'[t]) = Len(log[t]) + 1
  BY <1>1, <1>2 DEF Types
<1>6. \A u \in Threads : u # t => log'[u] = log[u] /\ pAsync'[u] = pAsync[u]
  BY <1>1 DEF Types
<1>7. pAsync'[t] = NULL
  BY <1>1 DEF Types
<1>8. ASSUME NEW u \in Threads
      PROVE  Len(log'[u]) <= Len(program'[u])
  BY <1>5, <1>6, ProgramLength DEF Sizes, Running
<1>9. CallObjectsFit'
  BY <1>6, <1>7 DEF CallObjectsFit, Running, Call
<1> QED
  BY <1>3, <1>4, <1>8, <1>9

LEMMA BlocksKeeps ==
  ASSUME Types, CallObjectsFit, NEW t \in Threads, Running(t),
         NEW fn \in CheckFns, CallFor(fn) = Call(t).op,
         NEW n \in Nat, Call(t).op = "receive" => n <= Call(t).size,
         Blocks(t, fn, n), program' = program, log' = log
  PROVE  /\ pAsync' \in [Threads -> CallObject \cup {NULL}]
         /\ pAsync'[t] # NULL /\ pAsync'[t].checkFn = fn /\ pAsync'[t].count = n
         /\ CallObjectsFit'
<1>1. pAsync' = [pAsync EXCEPT ![t] = [checkFn |-> fn, count |-> n]]
  BY DEF Blocks
<1>2. [checkFn |-> fn, count |-> n] \in CallObject
  BY DEF CallObject
<1>3. pAsync' \in [Threads -> CallObject \cup {NULL}]
  BY <1>1, <1>2 DEF Types
<1>4. pAsync'[t] = [checkFn |-> fn, count |-> n]
  BY <1>1 DEF Types
<1>5. \A u \in Threads : u # t => pAsync'[u] = pAsync[u]
  BY <1>1 DEF Types
<1>6. CallObjectsFit'
  BY <1>4, <1>5 DEF CallObjectsFit, Running, Call
<1> QED
  BY <1>3, <1>4, <1>6, NotNULL

LEMMA ConnectedKept ==
  ASSUME Types, NEW t \in Threads, Running(t), Connected(t),
         program' = program, sock' = sock,
         log' = log \/ (Call(t).op \notin {"connect", "accept"} /\ \E r \in Results : Return(t, r)),
         \A u \in Threads : Connected(u)
  PROVE  \A u \in Threads : Connected(u)'
<1>1. CASE log' = log
  BY <1>1 DEF Connected
<1>2. CASE Call(t).op \notin {"connect", "accept"} /\ \E r \in Results : Return(t, r)
  <2>1. PICK r \in Results : log' = [log EXCEPT ![t] = Append(log[t], r)]
    BY <1>2 DEF Return
  <2>2. \A u \in Threads : u # t => log'[u] = log[u]
    BY <2>1 DEF Types
  <2>3. Len(log[t]) \in Nat /\ Len(log'[t]) = Len(log[t]) + 1
    BY <2>1 DEF Types
  <2>4. \A i \in 1 .. Len(log'[t]) : i \in 1 .. Len(log[t]) \/ i = Len(log[t]) + 1
    BY <2>3
  <2>5. Connected(t)'
    BY <1>2, <2>4 DEF Connected, Call
  <2> QED
    BY <2>2, <2>5 DEF Connected
<1> QED
  BY <1>1, <1>2

-----------------------------------------------------------------------------
(* Bytes of an array *)

LEMMA WriteFacts ==
  ASSUME NEW b \in [0 .. BufferSize - 1 -> Byte], NEW bytes \in Seq(Byte),
         NEW ofs \in Nat, ofs + Len(bytes) <= BufferSize
  PROVE  /\ Write(b, ofs, bytes) \in [0 .. BufferSize - 1 -> Byte]
         /\ \A i \in 0 .. BufferSize - 1 : i < ofs => Write(b, ofs, bytes)[i] = b[i]
         /\ \A i \in 1 .. Len(bytes) : Write(b, ofs, bytes)[ofs + i - 1] = bytes[i]
<1> DEFINE d == 0 .. BufferSize - 1
           w == ofs .. ofs + Len(bytes) - 1
<1>1. Len(bytes) \in Nat /\ BufferSize \in Nat
  BY SizesAssumption
<1>2. DOMAIN b = d /\ w \subseteq d
  BY <1>1
<1>3. DOMAIN b \cup w = d
  BY <1>2
<1>4. Write(b, ofs, bytes) = [i \in d |-> IF i \in w THEN bytes[i - ofs + 1] ELSE b[i]]
  BY <1>3 DEF Write
<1>5. \A i \in w : i - ofs + 1 \in 1 .. Len(bytes)
  BY <1>1
<1>6. \A i \in w : bytes[i - ofs + 1] \in Byte
  BY <1>5
<1>7. \A i \in d : b[i] \in Byte
  OBVIOUS
<1>8. Write(b, ofs, bytes) \in [d -> Byte]
  BY <1>4, <1>6, <1>7
<1>9. \A i \in d : i < ofs => i \notin w
  BY <1>1
<1>10. ASSUME NEW i \in 1 .. Len(bytes)
       PROVE  Write(b, ofs, bytes)[ofs + i - 1] = bytes[i]
  <2>1. ofs + i - 1 \in w /\ (ofs + i - 1) - ofs + 1 = i
    BY <1>1
  <2> QED
    BY <1>2, <1>4, <2>1
<1> QED
  BY <1>4, <1>8, <1>9, <1>10

LEMMA SliceType ==
  ASSUME NEW b \in [0 .. BufferSize - 1 -> Byte], NEW ofs \in Nat, NEW n \in Nat,
         ofs + n <= BufferSize
  PROVE  Slice(b, ofs, n) \in Seq(Byte) /\ Len(Slice(b, ofs, n)) = n
<1>1. \A i \in 1 .. n : ofs + i - 1 \in 0 .. BufferSize - 1
  BY SizesAssumption
<1>2. \A i \in 1 .. n : b[ofs + i - 1] \in Byte
  BY <1>1
<1> QED
  BY <1>2 DEF Slice

(* What is written behind a part lengthens it. *)
LEMMA SliceGrows ==
  ASSUME NEW b \in [0 .. BufferSize - 1 -> Byte], NEW bytes \in Seq(Byte),
         NEW ofs \in Nat, NEW n \in Nat, ofs + (n + Len(bytes)) <= BufferSize
  PROVE  Slice(Write(b, ofs + n, bytes), ofs, n + Len(bytes)) = Slice(b, ofs, n) \o bytes
<1> DEFINE w == Write(b, ofs + n, bytes)
           m == n + Len(bytes)
<1>1. Len(bytes) \in Nat /\ m \in Nat /\ (ofs + n) + Len(bytes) <= BufferSize /\ ofs + n \in Nat
  BY SizesAssumption
<1>2. /\ w \in [0 .. BufferSize - 1 -> Byte]
      /\ \A i \in 0 .. BufferSize - 1 : i < ofs + n => w[i] = b[i]
      /\ \A i \in 1 .. Len(bytes) : w[(ofs + n) + i - 1] = bytes[i]
  BY <1>1, WriteFacts
<1>3. ofs + n <= BufferSize
  BY <1>1, SizesAssumption
<1>4. Slice(b, ofs, n) \in Seq(Byte) /\ Len(Slice(b, ofs, n)) = n
  BY <1>3, SliceType
<1>5. Slice(w, ofs, m) \in Seq(Byte) /\ Len(Slice(w, ofs, m)) = m
  BY <1>1, <1>2, SliceType
<1>6. \A i \in 1 .. m : Slice(w, ofs, m)[i] = w[ofs + i - 1]
  BY DEF Slice
<1>7. \A i \in 1 .. n : Slice(b, ofs, n)[i] = b[ofs + i - 1]
  BY DEF Slice
<1>8. ASSUME NEW i \in 1 .. m
      PROVE  Slice(w, ofs, m)[i] = (Slice(b, ofs, n) \o bytes)[i]
  <2>1. CASE i <= n
    <3>1. ofs + i - 1 \in 0 .. BufferSize - 1 /\ ofs + i - 1 < ofs + n /\ i \in 1 .. n
      BY <1>3, <2>1, SizesAssumption
    <3>2. w[ofs + i - 1] = b[ofs + i - 1]
      BY <1>2, <3>1
    <3>3. (Slice(b, ofs, n) \o bytes)[i] = Slice(b, ofs, n)[i]
      BY <1>1, <1>4, <3>1
    <3> QED
      BY <1>6, <1>7, <3>1, <3>2, <3>3
  <2>2. CASE i > n
    <3>1. i - n \in 1 .. Len(bytes) /\ (ofs + n) + (i - n) - 1 = ofs + i - 1
      BY <1>1, <2>2
    <3>2. w[(ofs + n) + (i - n) - 1] = bytes[i - n]
      BY <1>2, <3>1
    <3>3. (Slice(b, ofs, n) \o bytes)[i] = bytes[i - n]
      BY <1>1, <1>4, <2>2
    <3> QED
      BY <1>6, <3>1, <3>2, <3>3
  <2>3. i <= n \/ i > n
    OBVIOUS
  <2> QED
    BY <2>1, <2>2, <2>3
<1>9. Slice(b, ofs, n) \o bytes \in Seq(Byte) /\ Len(Slice(b, ofs, n) \o bytes) = m
  BY <1>1, <1>4
<1>10. Slice(w, ofs, m) = Slice(b, ofs, n) \o bytes
  BY <1>5, <1>8, <1>9, SeqEqual
<1> QED
  BY <1>10

-----------------------------------------------------------------------------
(* The host keeps the invariant *)

LEMMA AppendFacts ==
  ASSUME NEW S, NEW q \in Seq(S), NEW e \in S
  PROVE  /\ Append(q, e) \in Seq(S)
         /\ Len(Append(q, e)) = Len(q) + 1
         /\ \A i \in DOMAIN Append(q, e) : (i \in DOMAIN q /\ Append(q, e)[i] = q[i])
                                            \/ (i = Len(q) + 1 /\ Append(q, e)[i] = e)
         /\ \A i \in DOMAIN q : i \in DOMAIN Append(q, e) /\ Append(q, e)[i] = q[i]
         /\ Append(q, e)[Len(q) + 1] = e /\ Len(q) + 1 \in DOMAIN Append(q, e)
  OBVIOUS

LEMMA TailFacts ==
  ASSUME NEW S, NEW q \in Seq(S), q # <<>>
  PROVE  /\ Head(q) \in S /\ Head(q) = q[1] /\ 1 \in DOMAIN q
         /\ Tail(q) \in Seq(S)
         /\ Len(Tail(q)) + 1 = Len(q)
         /\ \A i \in DOMAIN Tail(q) : i + 1 \in DOMAIN q /\ Tail(q)[i] = q[i + 1] /\ i + 1 # 1
         /\ \A i \in DOMAIN q : i # 1 => i - 1 \in DOMAIN Tail(q) /\ Tail(q)[i - 1] = q[i]
  OBVIOUS

LEMMA EstablishKeeps ==
  ASSUME IInv, NEW c \in Threads, Establish(c)
  PROVE  IInv'
<1> USE DEF IInv
<1>1. /\ conn[c] = "pending"
      /\ conn' = [conn EXCEPT ![c] = "established"]
      /\ backlog' = Append(backlog, c)
      /\ UNCHANGED <<program, log, sock, pAsync, buffer, nextKeybC, listening, flight,
                     ready, open, keyboard, stdin>>
  BY DEF Establish, runtime
<1>2. conn' \in [Threads -> {"none", "pending", "established", "refused"}]
  BY <1>1 DEF Types
<1>3. conn'[c] = "established" /\ \A d \in Threads : d # c => conn'[d] = conn[d]
  BY <1>1 DEF Types
<1>4. backlog \in Seq(Threads) /\ backlog' \in Seq(Threads)
  BY <1>1, AppendFacts DEF Types
<1>5. \A i \in DOMAIN backlog' :
        (i \in DOMAIN backlog /\ backlog'[i] = backlog[i])
          \/ (i = Len(backlog) + 1 /\ backlog'[i] = c)
  BY <1>1, <1>4, AppendFacts
<1>6. \A i \in DOMAIN backlog : backlog[i] \in Threads /\ backlog[i] # c
  BY <1>1, <1>4 DEF OneSocketPerSide
<1>7. \A t \in Threads : sock[t].conn \in Threads \cup {"none"}
  BY DEF Types, Socket
<1>8. \A t \in Threads : sock[t].conn # c
  BY <1>1, NamesAssumption DEF OneSocketPerSide
<1>9. Types'
  BY <1>1, <1>2, <1>4 DEF Types
<1>10. Sizes'
  BY <1>1 DEF Sizes
<1>11. CallObjectsFit'
  BY <1>1 DEF CallObjectsFit, Running, Call
<1>12. PendingPolled'
  BY <1>1, <1>3 DEF PendingPolled
<1>13. \A t \in Threads : Connected(t)'
  BY <1>1 DEF Connected
<1>14. OneSocketPerSide'
  <2>1. \A t \in Threads : sock'[t].conn # "none" => conn'[sock'[t].conn] = "established"
    BY <1>1, <1>3, <1>7 DEF OneSocketPerSide
  <2>2. \A i, j \in DOMAIN backlog' : backlog'[i] = backlog'[j] => i = j
    BY <1>5, <1>6 DEF OneSocketPerSide
  <2>3. \A i \in DOMAIN backlog' : conn'[backlog'[i]] = "established"
    BY <1>3, <1>5, <1>6 DEF OneSocketPerSide
  <2>4. ASSUME NEW i \in DOMAIN backlog', NEW t \in Threads
        PROVE  ~Accepted(t, backlog[i])'
    <3>1. CASE i \in DOMAIN backlog /\ backlog'[i] = backlog[i]
      BY <1>1, <3>1 DEF OneSocketPerSide, Accepted
    <3>2. CASE backlog'[i] = c
      BY <1>1, <1>8, <3>2 DEF Accepted
    <3> QED
      BY <1>5, <3>1, <3>2
  <2>5. \A t \in Threads : sock'[t] = sock[t]
    BY <1>1
  <2> HIDE DEF IInv
  <2>6. /\ \A t \in Threads : sock'[t].side = "client" => sock'[t].conn \in {t, "none"}
        /\ \A t \in Threads : sock'[t].side = "server" => sock'[t].conn # "none"
    BY <2>5 DEF IInv, OneSocketPerSide, Accepted
  <2>7. \A t, u, d \in Threads : Accepted(t, d)' /\ Accepted(u, d)' => t = u
    BY <2>5 DEF IInv, OneSocketPerSide, Accepted
  <2> QED
    BY <2>1, <2>2, <2>3, <2>4, <2>6, <2>7 DEF OneSocketPerSide
<1> QED
  BY <1>9, <1>10, <1>11, <1>12, <1>13, <1>14

LEMMA RefuseKeeps ==
  ASSUME IInv, NEW c \in Threads, Refuse(c)
  PROVE  IInv'
<1> USE DEF IInv
<1>1. /\ conn[c] = "pending"
      /\ conn' = [conn EXCEPT ![c] = "refused"]
      /\ UNCHANGED <<program, log, sock, pAsync, buffer, nextKeybC, listening, backlog,
                     flight, ready, open, keyboard, stdin>>
  BY DEF Refuse, runtime
<1>2. conn' \in [Threads -> {"none", "pending", "established", "refused"}]
  BY <1>1 DEF Types
<1>3. conn'[c] = "refused" /\ \A d \in Threads : d # c => conn'[d] = conn[d]
  BY <1>1 DEF Types
<1>4. \A t \in Threads : sock[t].conn \in Threads \cup {"none"}
  BY DEF Types, Socket
<1>5. \A t \in Threads : sock[t].conn # c
  BY <1>1, NamesAssumption DEF OneSocketPerSide
<1>6. \A i \in DOMAIN backlog : backlog[i] \in Threads /\ backlog[i] # c
  BY <1>1 DEF OneSocketPerSide, Types
<1>7. Types'
  BY <1>1, <1>2 DEF Types
<1>8. Sizes'
  BY <1>1 DEF Sizes
<1>9. CallObjectsFit'
  BY <1>1 DEF CallObjectsFit, Running, Call
<1>10. PendingPolled'
  BY <1>1, <1>3 DEF PendingPolled
<1>11. \A t \in Threads : Connected(t)'
  BY <1>1 DEF Connected
<1>12. OneSocketPerSide'
  <2>1. \A t \in Threads : sock'[t].conn # "none" => conn'[sock'[t].conn] = "established"
    BY <1>1, <1>3, <1>4, <1>5 DEF OneSocketPerSide
  <2>2. \A i \in DOMAIN backlog' : conn'[backlog'[i]] = "established"
    BY <1>1, <1>3, <1>6 DEF OneSocketPerSide
  <2> QED
    BY <1>1, <2>1, <2>2 DEF OneSocketPerSide, Accepted
<1> QED
  BY <1>7, <1>8, <1>9, <1>10, <1>11, <1>12

(* What the invariant says of sockets, calls and connections does not      *)
(* change with the bytes and keys that come.                               *)
LEMMA OtherwiseKept ==
  ASSUME CallObjectsFit, PendingPolled, \A t \in Threads : Connected(t), OneSocketPerSide,
         UNCHANGED <<program, log, sock, pAsync, backlog, conn>>
  PROVE  CallObjectsFit' /\ PendingPolled' /\ (\A t \in Threads : Connected(t)') /\ OneSocketPerSide'
<1>1. CallObjectsFit'
  BY DEF CallObjectsFit, Running, Call
<1>2. PendingPolled'
  BY DEF PendingPolled
<1>3. \A t \in Threads : Connected(t)'
  BY DEF Connected
<1>4. OneSocketPerSide'
  BY DEF OneSocketPerSide, Accepted
<1> QED
  BY <1>1, <1>2, <1>3, <1>4

LEMMA CutFacts ==
  ASSUME NEW S, NEW q \in Seq(S), NEW n \in 0 .. Len(q)
  PROVE  /\ SubSeq(q, 1, n) \in Seq(S) /\ Len(SubSeq(q, 1, n)) = n
         /\ SubSeq(q, n + 1, Len(q)) \in Seq(S)
         /\ Len(SubSeq(q, n + 1, Len(q))) = Len(q) - n
         /\ SubSeq(q, 1, n) \o SubSeq(q, n + 1, Len(q)) = q
<1> DEFINE x == SubSeq(q, 1, n)
           y == SubSeq(q, n + 1, Len(q))
<1>1. x \in Seq(S) /\ Len(x) = n /\ \A i \in 1 .. n : x[i] = q[i]
  OBVIOUS
<1>2. y \in Seq(S) /\ Len(y) = Len(q) - n /\ \A i \in 1 .. Len(q) - n : y[i] = q[n + i]
  OBVIOUS
<1> HIDE DEF x, y
<1>3. x \o y \in Seq(S) /\ Len(x \o y) = Len(q)
  BY <1>1, <1>2
<1>4. ASSUME NEW i \in 1 .. Len(q)
      PROVE  (x \o y)[i] = q[i]
  <2>1. CASE i <= n
    BY <1>1, <1>2, <2>1
  <2>2. CASE i > n
    <3>1. i - n \in 1 .. Len(q) - n /\ n + (i - n) = i
      BY <2>2
    <3>2. (x \o y)[i] = y[i - n]
      BY <1>1, <1>2, <2>2
    <3> QED
      BY <1>2, <3>1, <3>2
  <2>3. i <= n \/ i > n
    OBVIOUS
  <2> QED
    BY <2>1, <2>2, <2>3
<1>5. x \o y = q
  BY <1>3, <1>4, SeqEqual
<1> QED
  BY <1>1, <1>2, <1>5 DEF x, y

(* The same of bytes, and what two of their sequences make. *)
LEMMA BytesCut ==
  ASSUME NEW q \in Seq(Byte), NEW n \in 0 .. Len(q)
  PROVE  /\ SubSeq(q, 1, n) \in Seq(Byte) /\ Len(SubSeq(q, 1, n)) = n
         /\ SubSeq(q, n + 1, Len(q)) \in Seq(Byte)
         /\ SubSeq(q, 1, n) \o SubSeq(q, n + 1, Len(q)) = q
  BY CutFacts

LEMMA BytesCount ==
  ASSUME NEW q \in Seq(Byte)
  PROVE  Len(q) \in Nat
  BY LenProperties

LEMMA BytesJoin ==
  ASSUME NEW p \in Seq(Byte), NEW q \in Seq(Byte)
  PROVE  p \o q \in Seq(Byte) /\ Len(p \o q) = Len(p) + Len(q)
  BY ConcatProperties

LEMMA DeliverKeeps ==
  ASSUME IInv, NEW c \in Threads, NEW side \in Sides, NEW n \in 1 .. SendBuffer,
         Deliver(c, side, n)
  PROVE  IInv'
<1> USE DEF IInv
<1> DEFINE q == flight[c][side]
           now == SubSeq(q, 1, n)
           later == SubSeq(q, n + 1, Len(q))
<1>1. /\ n \in 1 .. Len(q)
      /\ ready' = [ready EXCEPT ![c][side] = ready[c][side] \o now]
      /\ flight' = [flight EXCEPT ![c][side] = later]
      /\ UNCHANGED <<program, log, sock, pAsync, buffer, nextKeybC, listening, backlog,
                     conn, open, keyboard, stdin>>
  BY DEF Deliver, runtime
<1>2. q \in Seq(Byte) /\ ready[c][side] \in Seq(Byte)
  BY DEF Types
<1>3. now \in Seq(Byte) /\ later \in Seq(Byte) /\ Len(later) = Len(q) - n
  BY <1>1, <1>2, CutFacts
<1>4. ready[c][side] \o now \in Seq(Byte)
  BY <1>2, <1>3
<1> HIDE DEF q, now, later
<1>5. flight' \in [Threads -> [Sides -> Seq(Byte)]]
  BY <1>1, <1>3 DEF Types
<1>6. ready' \in [Threads -> [Sides -> Seq(Byte)]]
  BY <1>1, <1>4 DEF Types
<1>7. Types'
  BY <1>1, <1>5, <1>6 DEF Types
<1>8. \A d \in Threads, s \in Sides :
        flight'[d][s] = IF d = c /\ s = side THEN later ELSE flight[d][s]
  BY <1>1 DEF Types
<1>9. Len(later) <= SendBuffer
  BY <1>1, <1>2, <1>3, SizesAssumption DEF Sizes, q
<1>10. Sizes'
  BY <1>1, <1>8, <1>9 DEF Sizes
<1> QED
  BY <1>1, <1>7, <1>10, OtherwiseKept

LEMMA TypeKeyKeeps ==
  ASSUME IInv, TypeKey
  PROVE  IInv'
<1> USE DEF IInv
<1>1. /\ keyboard # <<>>
      /\ stdin' = Append(stdin, Head(keyboard))
      /\ keyboard' = Tail(keyboard)
      /\ UNCHANGED <<program, log, sock, pAsync, buffer, nextKeybC, listening, backlog,
                     conn, flight, ready, open>>
  BY DEF TypeKey, runtime
<1>2. keyboard \in Seq(Key) /\ stdin \in Seq(Key)
  BY DEF Types
<1>3. Head(keyboard) \in Key /\ keyboard' \in Seq(Key) /\ Len(keyboard') + 1 = Len(keyboard)
  BY <1>1, <1>2, TailFacts
<1>4. stdin' \in Seq(Key) /\ Len(stdin') = Len(stdin) + 1
  BY <1>1, <1>2, <1>3, AppendFacts
<1>5. Types'
  BY <1>1, <1>3, <1>4 DEF Types
<1>6. Len(stdin') + Len(keyboard') <= Len(Keyboard)
  BY <1>2, <1>3, <1>4, NamesAssumption DEF Sizes
<1>7. Sizes'
  BY <1>1, <1>6 DEF Sizes
<1> QED
  BY <1>1, <1>5, <1>7, OtherwiseKept

-----------------------------------------------------------------------------
(* The calls keep the invariant *)

(* A call that makes no connection returns, or goes on being polled. *)
LEMMA ReturnFits ==
  ASSUME IInv, NEW t \in Threads, Running(t), Call(t).op \notin {"connect", "accept"},
         NEW r \in Results, Return(t, r), UNCHANGED <<program, sock, backlog, conn>>
  PROVE  /\ log' \in [Threads -> Seq(Results)]
         /\ pAsync' \in [Threads -> CallObject \cup {NULL}]
         /\ \A u \in Threads : Len(log'[u]) <= Len(program'[u])
         /\ CallObjectsFit'
         /\ PendingPolled'
         /\ \A u \in Threads : Connected(u)'
         /\ OneSocketPerSide'
<1>1. Types /\ Sizes /\ CallObjectsFit /\ PendingPolled /\ OneSocketPerSide
      /\ \A u \in Threads : Connected(u)
  BY DEF IInv
<1>2. /\ log' \in [Threads -> Seq(Results)]
      /\ pAsync' \in [Threads -> CallObject \cup {NULL}]
      /\ \A u \in Threads : Len(log'[u]) <= Len(program'[u])
      /\ CallObjectsFit'
  BY <1>1, ReturnKeeps
<1>3. \A u \in Threads : Connected(u)'
  BY <1>1, ConnectedKept
<1>4. OneSocketPerSide'
  BY <1>1 DEF OneSocketPerSide, Accepted
<1>5. conn[t] # "pending"
  BY <1>1 DEF PendingPolled, CallObjectsFit, CallFor
<1>6. \A u \in Threads : u # t => pAsync'[u] = pAsync[u]
  BY <1>1 DEF Return, Types
<1>7. PendingPolled'
  BY <1>1, <1>5, <1>6 DEF PendingPolled
<1> QED
  BY <1>2, <1>3, <1>4, <1>7

LEMMA BlocksFits ==
  ASSUME IInv, NEW t \in Threads, Running(t), Call(t).op \notin {"connect"},
         NEW fn \in CheckFns, CallFor(fn) = Call(t).op,
         NEW n \in Nat, Call(t).op = "receive" => n <= Call(t).size,
         Blocks(t, fn, n), UNCHANGED <<program, log, sock, backlog, conn>>
  PROVE  /\ pAsync' \in [Threads -> CallObject \cup {NULL}]
         /\ CallObjectsFit'
         /\ PendingPolled'
         /\ \A u \in Threads : Connected(u)'
         /\ OneSocketPerSide'
<1>1. Types /\ Sizes /\ CallObjectsFit /\ PendingPolled /\ OneSocketPerSide
      /\ \A u \in Threads : Connected(u)
  BY DEF IInv
<1>2. pAsync' \in [Threads -> CallObject \cup {NULL}] /\ CallObjectsFit'
  BY <1>1, BlocksKeeps
<1>3. \A u \in Threads : Connected(u)'
  BY <1>1 DEF Connected
<1>4. OneSocketPerSide'
  BY <1>1 DEF OneSocketPerSide, Accepted
<1>5. conn[t] # "pending"
  BY <1>1 DEF PendingPolled, CallObjectsFit, CallFor
<1>6. \A u \in Threads : u # t => pAsync'[u] = pAsync[u]
  BY <1>1 DEF Blocks, Types
<1>7. PendingPolled'
  BY <1>1, <1>5, <1>6 DEF PendingPolled
<1> QED
  BY <1>2, <1>3, <1>4, <1>7

LEMMA ListenKeeps ==
  ASSUME IInv, NEW t \in Threads, Listen(t)
  PROVE  IInv'
<1>1. Types /\ Sizes /\ CallObjectsFit
  BY DEF IInv
<1>2. /\ Checks(t, "listen", NULL) /\ listening' = TRUE /\ Return(t, "ok")
      /\ UNCHANGED <<program, sock, buffer, backlog, conn, flight, ready, open, nextKeybC,
                     keyboard, stdin>>
  BY DEF Listen, console
<1>3. Running(t) /\ Call(t).op = "listen"
  BY <1>1, <1>2, ChecksFacts
<1>4. "ok" \in Results
  BY DEF Results
<1>5. /\ log' \in [Threads -> Seq(Results)]
      /\ pAsync' \in [Threads -> CallObject \cup {NULL}]
      /\ \A u \in Threads : Len(log'[u]) <= Len(program'[u])
      /\ CallObjectsFit' /\ PendingPolled' /\ OneSocketPerSide'
      /\ \A u \in Threads : Connected(u)'
  BY <1>2, <1>3, <1>4, ReturnFits
<1>6. Types'
  BY <1>1, <1>2, <1>5 DEF Types
<1>7. Sizes'
  BY <1>1, <1>2, <1>5 DEF Sizes
<1> QED
  BY <1>5, <1>6, <1>7 DEF IInv

LEMMA SpinKeeps ==
  ASSUME IInv, NEW t \in Threads, Spin(t)
  PROVE  IInv'
<1>1. Types /\ Sizes /\ CallObjectsFit
  BY DEF IInv
<1>2. /\ Checks(t, "spin", NULL) /\ Return(t, "ok")
      /\ UNCHANGED <<program, sock, buffer, listening, backlog, conn, flight, ready, open,
                     nextKeybC, keyboard, stdin>>
  BY DEF Spin, console, sockets
<1>3. Running(t) /\ Call(t).op = "spin"
  BY <1>1, <1>2, ChecksFacts
<1>4. "ok" \in Results
  BY DEF Results
<1>5. /\ log' \in [Threads -> Seq(Results)]
      /\ pAsync' \in [Threads -> CallObject \cup {NULL}]
      /\ \A u \in Threads : Len(log'[u]) <= Len(program'[u])
      /\ CallObjectsFit' /\ PendingPolled' /\ OneSocketPerSide'
      /\ \A u \in Threads : Connected(u)'
  BY <1>2, <1>3, <1>4, ReturnFits
<1>6. Types'
  BY <1>1, <1>2, <1>5 DEF Types
<1>7. Sizes'
  BY <1>1, <1>2, <1>5 DEF Sizes
<1> QED
  BY <1>5, <1>6, <1>7 DEF IInv

LEMMA CloseKeeps ==
  ASSUME IInv, NEW t \in Threads, Close(t)
  PROVE  IInv'
<1>1. Types /\ Sizes /\ CallObjectsFit
  BY DEF IInv
<1>2. /\ Checks(t, "close", NULL) /\ Return(t, "ok")
      /\ open' = [open EXCEPT ![sock[t].conn][sock[t].side] = FALSE]
      /\ UNCHANGED <<program, sock, buffer, listening, backlog, conn, flight, ready,
                     nextKeybC, keyboard, stdin>>
  BY DEF Close, console
<1>3. Running(t) /\ Call(t).op = "close"
  BY <1>1, <1>2, ChecksFacts
<1>4. "ok" \in Results
  BY DEF Results
<1>5. /\ log' \in [Threads -> Seq(Results)]
      /\ pAsync' \in [Threads -> CallObject \cup {NULL}]
      /\ \A u \in Threads : Len(log'[u]) <= Len(program'[u])
      /\ CallObjectsFit' /\ PendingPolled' /\ OneSocketPerSide'
      /\ \A u \in Threads : Connected(u)'
  BY <1>2, <1>3, <1>4, ReturnFits
<1>6. open' \in [Threads -> [Sides -> BOOLEAN]]
  BY <1>1, <1>2 DEF Types
<1>7. Types'
  BY <1>1, <1>2, <1>5, <1>6 DEF Types
<1>8. Sizes'
  BY <1>1, <1>2, <1>5 DEF Sizes
<1> QED
  BY <1>5, <1>7, <1>8 DEF IInv

LEMMA InternalAcceptKeeps ==
  ASSUME IInv, NEW t \in Threads, Internal_Accept(t)
  PROVE  IInv'
<1>1. Types /\ Sizes /\ CallObjectsFit
  BY DEF IInv
<1>2. /\ Checks(t, "accept", NULL) /\ Blocks(t, "Accept_Check", 0)
      /\ UNCHANGED <<program, log, sock, buffer, listening, backlog, conn, flight, ready,
                     open, nextKeybC, keyboard, stdin>>
  BY DEF Internal_Accept, console, sockets
<1>3. Running(t) /\ Call(t).op = "accept"
  BY <1>1, <1>2, ChecksFacts
<1>4. "Accept_Check" \in CheckFns /\ CallFor("Accept_Check") = "accept"
  BY DEF CheckFns, CallFor
<1>5. /\ pAsync' \in [Threads -> CallObject \cup {NULL}]
      /\ CallObjectsFit' /\ PendingPolled' /\ OneSocketPerSide'
      /\ \A u \in Threads : Connected(u)'
  BY <1>2, <1>3, <1>4, BlocksFits
<1>6. Types'
  BY <1>1, <1>2, <1>5 DEF Types
<1>7. Sizes'
  BY <1>1, <1>2, <1>5 DEF Sizes
<1> QED
  BY <1>5, <1>6, <1>7 DEF IInv

LEMMA InternalReceiveKeeps ==
  ASSUME IInv, NEW t \in Threads, Internal_Receive(t)
  PROVE  IInv'
<1>1. Types /\ Sizes /\ CallObjectsFit
  BY DEF IInv
<1>2. /\ Checks(t, "receive", NULL) /\ Blocks(t, "Receive_Check", 0)
      /\ UNCHANGED <<program, log, sock, buffer, listening, backlog, conn, flight, ready,
                     open, nextKeybC, keyboard, stdin>>
  BY DEF Internal_Receive, console, sockets
<1>3. Running(t) /\ Call(t).op = "receive" /\ Call(t) \in CallRecord
  BY <1>1, <1>2, ChecksFacts, CallType
<1>4. "Receive_Check" \in CheckFns /\ CallFor("Receive_Check") = "receive"
  BY DEF CheckFns, CallFor
<1>5. 0 <= Call(t).size
  BY <1>3 DEF CallRecord
<1>6. /\ pAsync' \in [Threads -> CallObject \cup {NULL}]
      /\ CallObjectsFit' /\ PendingPolled' /\ OneSocketPerSide'
      /\ \A u \in Threads : Connected(u)'
  BY <1>2, <1>3, <1>4, <1>5, BlocksFits
<1>7. Types'
  BY <1>1, <1>2, <1>6 DEF Types
<1>8. Sizes'
  BY <1>1, <1>2, <1>6 DEF Sizes
<1> QED
  BY <1>6, <1>7, <1>8 DEF IInv

LEMMA InternalReadKeyKeeps ==
  ASSUME IInv, NEW t \in Threads, Internal_ReadKey(t)
  PROVE  IInv'
<1>1. Types /\ Sizes /\ CallObjectsFit
  BY DEF IInv
<1>2. /\ Checks(t, "readkey", NULL) /\ Blocks(t, "Internal_ReadKey_Check", 0)
      /\ UNCHANGED <<program, log, sock, buffer, listening, backlog, conn, flight, ready,
                     open, nextKeybC, keyboard, stdin>>
  BY DEF Internal_ReadKey, console, sockets
<1>3. Running(t) /\ Call(t).op = "readkey"
  BY <1>1, <1>2, ChecksFacts
<1>4. "Internal_ReadKey_Check" \in CheckFns /\ CallFor("Internal_ReadKey_Check") = "readkey"
  BY DEF CheckFns, CallFor
<1>5. /\ pAsync' \in [Threads -> CallObject \cup {NULL}]
      /\ CallObjectsFit' /\ PendingPolled' /\ OneSocketPerSide'
      /\ \A u \in Threads : Connected(u)'
  BY <1>2, <1>3, <1>4, BlocksFits
<1>6. Types'
  BY <1>1, <1>2, <1>5 DEF Types
<1>7. Sizes'
  BY <1>1, <1>2, <1>5 DEF Sizes
<1> QED
  BY <1>5, <1>6, <1>7 DEF IInv

LEMMA InternalConnectKeeps ==
  ASSUME IInv, NEW t \in Threads, Internal_Connect(t)
  PROVE  IInv'
<1>1. Types /\ Sizes /\ CallObjectsFit /\ PendingPolled /\ OneSocketPerSide
      /\ \A u \in Threads : Connected(u)
  BY DEF IInv
<1>2. /\ Checks(t, "connect", NULL) /\ Blocks(t, "Connect_Check", 0)
      /\ conn[t] \in {"none", "refused"}
      /\ conn' = [conn EXCEPT ![t] = "pending"]
      /\ UNCHANGED <<program, log, sock, buffer, listening, backlog, flight, ready,
                     open, nextKeybC, keyboard, stdin>>
  BY DEF Internal_Connect, console
<1>3. Running(t) /\ Call(t).op = "connect"
  BY <1>1, <1>2, ChecksFacts
<1>4. "Connect_Check" \in CheckFns /\ CallFor("Connect_Check") = "connect"
  BY DEF CheckFns, CallFor
<1>5. /\ pAsync' \in [Threads -> CallObject \cup {NULL}]
      /\ pAsync'[t] # NULL /\ pAsync'[t].checkFn = "Connect_Check"
      /\ CallObjectsFit'
  BY <1>1, <1>2, <1>3, <1>4, BlocksKeeps
<1>6. conn' \in [Threads -> {"none", "pending", "established", "refused"}]
      /\ \A u \in Threads : u # t => conn'[u] = conn[u] /\ pAsync'[u] = pAsync[u]
  BY <1>1, <1>2 DEF Types, Blocks
<1>7. \A u \in Threads : sock[u].conn # t /\ sock[u].conn \in Threads \cup {"none"}
  BY <1>1, <1>2, NamesAssumption DEF OneSocketPerSide, Types, Socket
<1>8. \A i \in DOMAIN backlog : backlog[i] \in Threads /\ backlog[i] # t
  BY <1>1, <1>2 DEF OneSocketPerSide, Types
<1>9. Types'
  BY <1>1, <1>2, <1>5, <1>6 DEF Types
<1>10. Sizes'
  BY <1>1, <1>2 DEF Sizes
<1>11. PendingPolled'
  BY <1>1, <1>5, <1>6 DEF PendingPolled
<1>12. \A u \in Threads : Connected(u)'
  BY <1>1, <1>2 DEF Connected
<1>13. OneSocketPerSide'
  <2>1. \A u \in Threads : sock'[u].conn # "none" => conn'[sock'[u].conn] = "established"
    BY <1>1, <1>2, <1>6, <1>7 DEF OneSocketPerSide
  <2>2. \A i \in DOMAIN backlog' : conn'[backlog'[i]] = "established"
    BY <1>1, <1>2, <1>6, <1>8 DEF OneSocketPerSide
  <2> QED
    BY <1>1, <1>2, <2>1, <2>2 DEF OneSocketPerSide, Accepted
<1> QED
  BY <1>5, <1>9, <1>10, <1>11, <1>12, <1>13 DEF IInv

(* A thread that got a socket has made the call. *)
LEMMA ConnectedNow ==
  ASSUME Types, NEW t \in Threads, NEW r \in Results, Return(t, r), NEW s \in Socket,
         s.conn # "none", sock' = [sock EXCEPT ![t] = s], program' = program,
         \A u \in Threads : Connected(u)
  PROVE  \A u \in Threads : Connected(u)'
<1>1. \A u \in Threads : u # t => log'[u] = log[u] /\ sock'[u] = sock[u]
  BY DEF Return, Types
<1>2. sock'[t] = s
  BY DEF Types
<1> QED
  BY <1>1, <1>2 DEF Connected

LEMMA ConnectCheckKeeps ==
  ASSUME IInv, NEW t \in Threads, Connect_Check(t)
  PROVE  IInv'
<1> DEFINE s == [conn |-> t, side |-> "client"]
<1>1. Types /\ Sizes /\ CallObjectsFit /\ PendingPolled /\ OneSocketPerSide
      /\ \A u \in Threads : Connected(u)
  BY DEF IInv
<1>2. /\ Checks(t, "connect", "Connect_Check") /\ Return(t, "ok")
      /\ conn[t] = "established"
      /\ sock' = [sock EXCEPT ![t] = s]
      /\ UNCHANGED <<program, buffer, listening, backlog, conn, flight, ready,
                     open, nextKeybC, keyboard, stdin>>
  BY DEF Connect_Check, console
<1>3. "Connect_Check" \in CheckFns /\ CallFor("Connect_Check") = "connect"
  BY DEF CheckFns, CallFor
<1>4. Running(t) /\ Call(t).op = "connect"
  BY <1>1, <1>2, <1>3, ChecksFacts
<1>5. "ok" \in Results
  BY DEF Results
<1>6. /\ log' \in [Threads -> Seq(Results)]
      /\ pAsync' \in [Threads -> CallObject \cup {NULL}]
      /\ \A u \in Threads : Len(log'[u]) <= Len(program'[u])
      /\ CallObjectsFit'
  BY <1>1, <1>2, <1>4, <1>5, ReturnKeeps
<1>7. s \in Socket /\ s.conn = t /\ s.side = "client" /\ t # "none"
  BY NamesAssumption DEF Socket, Sides
<1> HIDE DEF s
<1>8. \A u \in Threads : Connected(u)'
  BY <1>1, <1>2, <1>5, <1>7, ConnectedNow
<1>9. sock' \in [Threads -> Socket] /\ sock'[t] = s
      /\ \A u \in Threads : u # t => sock'[u] = sock[u] /\ pAsync'[u] = pAsync[u]
  BY <1>1, <1>2, <1>7 DEF Types, Return
<1>10. Types'
  BY <1>1, <1>2, <1>6, <1>9 DEF Types
<1>11. Sizes'
  BY <1>1, <1>2, <1>6 DEF Sizes
<1>12. PendingPolled'
  BY <1>1, <1>2, <1>9 DEF PendingPolled
<1>13. OneSocketPerSide'
  <2>1. \A u \in Threads : sock'[u].conn # "none" => conn'[sock'[u].conn] = "established"
    BY <1>1, <1>2, <1>7, <1>9 DEF OneSocketPerSide
  <2>2. \A u \in Threads : sock'[u].side = "client" => sock'[u].conn \in {u, "none"}
    BY <1>1, <1>7, <1>9 DEF OneSocketPerSide
  <2>3. \A u \in Threads : sock'[u].side = "server" => sock'[u].conn # "none"
    BY <1>1, <1>7, <1>9 DEF OneSocketPerSide
  <2>4. \A u, c \in Threads : Accepted(u, c)' => Accepted(u, c)
    BY <1>7, <1>9 DEF Accepted
  <2>5. \A i \in DOMAIN backlog : backlog[i] \in Threads
    BY <1>1 DEF Types
  <2>6. \A i \in DOMAIN backlog', u \in Threads : ~Accepted(u, backlog[i])'
    BY <1>1, <1>2, <2>4, <2>5 DEF OneSocketPerSide, Accepted
  <2>7. \A u, v, c \in Threads : Accepted(u, c)' /\ Accepted(v, c)' => u = v
    BY <1>1, <2>4 DEF OneSocketPerSide
  <2>8. /\ \A i, j \in DOMAIN backlog' : backlog'[i] = backlog'[j] => i = j
        /\ \A i \in DOMAIN backlog' : conn'[backlog'[i]] = "established"
    BY <1>1, <1>2 DEF OneSocketPerSide
  <2> QED
    BY <2>1, <2>2, <2>3, <2>6, <2>7, <2>8 DEF OneSocketPerSide
<1> QED
  BY <1>6, <1>8, <1>10, <1>11, <1>12, <1>13 DEF IInv

LEMMA ConnectCheckFailedKeeps ==
  ASSUME IInv, NEW t \in Threads, Connect_CheckFailed(t)
  PROVE  IInv'
<1>1. Types /\ Sizes /\ CallObjectsFit /\ PendingPolled /\ OneSocketPerSide
      /\ \A u \in Threads : Connected(u)
  BY DEF IInv
<1>2. /\ conn[t] = "refused"
      /\ pAsync' = [pAsync EXCEPT ![t] = NULL]
      /\ UNCHANGED <<program, log, sock, buffer, listening, backlog, conn, flight, ready,
                     open, nextKeybC, keyboard, stdin>>
  BY DEF Connect_CheckFailed, console, sockets
<1>3. pAsync' \in [Threads -> CallObject \cup {NULL}] /\ pAsync'[t] = NULL
      /\ \A u \in Threads : u # t => pAsync'[u] = pAsync[u]
  BY <1>1, <1>2 DEF Types
<1>4. Types'
  BY <1>1, <1>2, <1>3 DEF Types
<1>5. Sizes'
  BY <1>1, <1>2 DEF Sizes
<1>6. CallObjectsFit'
  BY <1>1, <1>2, <1>3 DEF CallObjectsFit, Running, Call
<1>7. PendingPolled'
  BY <1>1, <1>2, <1>3 DEF PendingPolled
<1>8. \A u \in Threads : Connected(u)'
  BY <1>1, <1>2 DEF Connected
<1>9. OneSocketPerSide'
  BY <1>1, <1>2 DEF OneSocketPerSide, Accepted
<1> QED
  BY <1>4, <1>5, <1>6, <1>7, <1>8, <1>9 DEF IInv

LEMMA AcceptCheckKeeps ==
  ASSUME IInv, NEW t \in Threads, Accept_Check(t)
  PROVE  IInv'
<1> DEFINE c == Head(backlog)
           s == [conn |-> c, side |-> "server"]
<1>1. Types /\ Sizes /\ CallObjectsFit /\ PendingPolled /\ OneSocketPerSide
      /\ \A u \in Threads : Connected(u)
  BY DEF IInv
<1>2. /\ Checks(t, "accept", "Accept_Check") /\ Return(t, c)
      /\ backlog # <<>> /\ backlog' = Tail(backlog)
      /\ sock' = [sock EXCEPT ![t] = s]
      /\ UNCHANGED <<program, buffer, listening, conn, flight, ready,
                     open, nextKeybC, keyboard, stdin>>
  BY DEF Accept_Check, TakeConnection, console
<1>3. "Accept_Check" \in CheckFns /\ CallFor("Accept_Check") = "accept"
  BY DEF CheckFns, CallFor
<1>4. Running(t) /\ Call(t).op = "accept"
  BY <1>1, <1>2, <1>3, ChecksFacts
<1>5. backlog \in Seq(Threads)
  BY <1>1 DEF Types
<1>6. /\ c \in Threads /\ c = backlog[1] /\ 1 \in DOMAIN backlog
      /\ backlog' \in Seq(Threads)
      /\ \A i \in DOMAIN backlog' :
           i + 1 \in DOMAIN backlog /\ backlog'[i] = backlog[i + 1] /\ i + 1 # 1
  BY <1>2, <1>5, TailFacts
<1>7. c \in Results
  BY <1>6 DEF Results
<1>8. s \in Socket /\ s.conn = c /\ s.side = "server" /\ c # "none"
  BY <1>6, NamesAssumption DEF Socket, Sides
<1> HIDE DEF c, s
<1>9. /\ log' \in [Threads -> Seq(Results)]
      /\ pAsync' \in [Threads -> CallObject \cup {NULL}]
      /\ \A u \in Threads : Len(log'[u]) <= Len(program'[u])
      /\ CallObjectsFit'
  BY <1>1, <1>2, <1>4, <1>7, ReturnKeeps
<1>10. \A u \in Threads : Connected(u)'
  BY <1>1, <1>2, <1>7, <1>8, ConnectedNow
<1>11. sock' \in [Threads -> Socket] /\ sock'[t] = s
       /\ \A u \in Threads : u # t => sock'[u] = sock[u] /\ pAsync'[u] = pAsync[u]
  BY <1>1, <1>2, <1>8 DEF Types, Return
<1>12. Types'
  BY <1>1, <1>2, <1>6, <1>9, <1>11 DEF Types
<1>13. Sizes'
  BY <1>1, <1>2, <1>9 DEF Sizes
<1>14. conn[t] # "pending"
  BY <1>1, <1>4 DEF PendingPolled, CallObjectsFit, CallFor
<1>15. PendingPolled'
  BY <1>1, <1>2, <1>11, <1>14 DEF PendingPolled
<1>16. OneSocketPerSide'
  <2>1. conn[c] = "established" /\ \A u \in Threads : ~Accepted(u, c)
    BY <1>1, <1>6 DEF OneSocketPerSide
  <2>2. \A u \in Threads : sock'[u].conn # "none" => conn'[sock'[u].conn] = "established"
    BY <1>1, <1>2, <1>8, <1>11, <2>1 DEF OneSocketPerSide
  <2>3. \A u \in Threads : sock'[u].side = "client" => sock'[u].conn \in {u, "none"}
    BY <1>1, <1>8, <1>11 DEF OneSocketPerSide
  <2>4. \A u \in Threads : sock'[u].side = "server" => sock'[u].conn # "none"
    BY <1>1, <1>8, <1>11 DEF OneSocketPerSide
  <2>5. \A u, d \in Threads : Accepted(u, d)' => Accepted(u, d) \/ (u = t /\ d = c)
    BY <1>8, <1>11 DEF Accepted
  <2>6. \A u, v, d \in Threads : Accepted(u, d)' /\ Accepted(v, d)' => u = v
    BY <1>1, <2>1, <2>5 DEF OneSocketPerSide
  <2>7. ASSUME NEW i \in DOMAIN backlog'
        PROVE  /\ i + 1 \in DOMAIN backlog /\ backlog'[i] = backlog[i + 1]
               /\ backlog'[i] # c /\ backlog'[i] \in Threads
               /\ conn'[backlog'[i]] = "established"
    BY <1>1, <1>2, <1>5, <1>6 DEF OneSocketPerSide
  <2>8. \A i, j \in DOMAIN backlog' : i + 1 = j + 1 => i = j
    BY <1>6
  <2>9. \A i, j \in DOMAIN backlog' : backlog'[i] = backlog'[j] => i = j
    BY <1>1, <2>7, <2>8 DEF OneSocketPerSide
  <2>10. ASSUME NEW i \in DOMAIN backlog', NEW u \in Threads
         PROVE  ~Accepted(u, backlog[i])'
    <3>1. ~Accepted(u, backlog[i + 1])
      BY <1>1, <2>7 DEF OneSocketPerSide
    <3>2. CASE u = t
      BY <1>8, <1>11, <2>7, <3>2 DEF Accepted
    <3>3. CASE u # t
      BY <1>11, <2>7, <3>1, <3>3 DEF Accepted
    <3> QED
      BY <3>2, <3>3
  <2> QED
    BY <2>2, <2>3, <2>4, <2>6, <2>7, <2>9, <2>10 DEF OneSocketPerSide
<1> QED
  BY <1>9, <1>10, <1>12, <1>13, <1>15, <1>16 DEF IInv

LEMMA NextKeyFacts ==
  ASSUME Types, KeyThere
  PROVE  /\ NextKey \in Key /\ NextKey # NULL
         /\ nextKeybC = NULL => /\ stdin # <<>> /\ NextKey = Head(stdin)
                                /\ Tail(stdin) \in Seq(Key)
                                /\ Len(Tail(stdin)) <= Len(stdin)
         /\ stdin \in Seq(Key) /\ Len(stdin) <= Len(stdin)
<1>1. nextKeybC = NULL => stdin # <<>>
  BY DEF KeyThere
<1>2. stdin # <<>> => /\ Head(stdin) \in Key /\ Tail(stdin) \in Seq(Key)
                      /\ Len(Tail(stdin)) <= Len(stdin)
  BY TailFacts DEF Types
<1>4. stdin \in Seq(Key) /\ Len(stdin) <= Len(stdin)
  BY DEF Types
<1>3. NULL \notin Key
  BY NamesAssumption DEF Key
<1> QED
  BY <1>1, <1>2, <1>3, <1>4 DEF NextKey, Types

LEMMA ReadKeyCheckKeeps ==
  ASSUME IInv, NEW t \in Threads, Internal_ReadKey_Check(t)
  PROVE  IInv'
<1>1. Types /\ Sizes /\ CallObjectsFit
  BY DEF IInv
<1>2. /\ pAsync[t] # NULL /\ pAsync[t].checkFn = "Internal_ReadKey_Check"
      /\ KeyThere /\ ReadAhead /\ Return(t, NextKey)
      /\ UNCHANGED <<program, sock, buffer, listening, backlog, conn, flight, ready,
                     open, keyboard>>
  BY DEF Internal_ReadKey_Check, sockets
<1>3. Running(t) /\ Call(t).op = "readkey"
  BY <1>1, <1>2 DEF CallObjectsFit, CallFor
<1>4. NextKey \in Results
  BY <1>1, <1>2, NextKeyFacts DEF Results
<1>5. /\ log' \in [Threads -> Seq(Results)]
      /\ pAsync' \in [Threads -> CallObject \cup {NULL}]
      /\ \A u \in Threads : Len(log'[u]) <= Len(program'[u])
      /\ CallObjectsFit' /\ PendingPolled' /\ OneSocketPerSide'
      /\ \A u \in Threads : Connected(u)'
  BY <1>2, <1>3, <1>4, ReturnFits
<1>6. nextKeybC' = NULL \/ nextKeybC' = nextKeybC
  BY <1>2 DEF ReadAhead
<1>7. stdin' \in Seq(Key) /\ Len(stdin') <= Len(stdin)
  BY <1>1, <1>2, NextKeyFacts DEF ReadAhead
<1>8. Types'
  BY <1>1, <1>2, <1>5, <1>6, <1>7 DEF Types
<1>9. Len(stdin') \in Nat /\ Len(stdin) \in Nat /\ Len(keyboard) \in Nat /\ Len(Keyboard) \in Nat
  BY <1>1, <1>7, NamesAssumption DEF Types
<1>10. Sizes'
  BY <1>1, <1>2, <1>5, <1>7, <1>9 DEF Sizes
<1> QED
  BY <1>5, <1>8, <1>10 DEF IInv

LEMMA KeyAvailableKeeps ==
  ASSUME IInv, NEW t \in Threads, Internal_KeyAvailable(t)
  PROVE  IInv'
<1>1. Types /\ Sizes /\ CallObjectsFit
  BY DEF IInv
<1>2. /\ Checks(t, "keyavailable", NULL) /\ Return(t, KeyThere)
      /\ IF KeyThere
         THEN /\ nextKeybC' = NextKey
              /\ stdin' = IF nextKeybC # NULL THEN stdin ELSE Tail(stdin)
         ELSE UNCHANGED <<nextKeybC, stdin>>
      /\ UNCHANGED <<program, sock, buffer, listening, backlog, conn, flight, ready,
                     open, keyboard>>
  BY DEF Internal_KeyAvailable, sockets
<1>3. Running(t) /\ Call(t).op = "keyavailable"
  BY <1>1, <1>2, ChecksFacts
<1>4. KeyThere \in Results
  <2>1. KeyThere \in BOOLEAN
    BY DEF KeyThere
  <2> QED
    BY <2>1 DEF Results
<1>5. /\ log' \in [Threads -> Seq(Results)]
      /\ pAsync' \in [Threads -> CallObject \cup {NULL}]
      /\ \A u \in Threads : Len(log'[u]) <= Len(program'[u])
      /\ CallObjectsFit' /\ PendingPolled' /\ OneSocketPerSide'
      /\ \A u \in Threads : Connected(u)'
  BY <1>2, <1>3, <1>4, ReturnFits
<1>6. nextKeybC' \in Key \cup {NULL}
  BY <1>1, <1>2, NextKeyFacts DEF Types
<1>7. stdin' \in Seq(Key) /\ Len(stdin') <= Len(stdin)
  <2>1. stdin \in Seq(Key) /\ Len(stdin) <= Len(stdin)
    BY <1>1 DEF Types
  <2> QED
    BY <1>1, <1>2, <2>1, NextKeyFacts
<1>8. Types'
  BY <1>1, <1>2, <1>5, <1>6, <1>7 DEF Types
<1>9. Len(stdin') \in Nat /\ Len(stdin) \in Nat /\ Len(keyboard) \in Nat /\ Len(Keyboard) \in Nat
  BY <1>1, <1>7, NamesAssumption DEF Types
<1>10. Sizes'
  BY <1>1, <1>2, <1>5, <1>7, <1>9 DEF Sizes
<1> QED
  BY <1>5, <1>8, <1>10 DEF IInv

-----------------------------------------------------------------------------
(* Data *)

(* A thread that sends, receives or closes has a socket, whose other side  *)
(* no other thread has.                                                    *)
LEMMA HasSocket ==
  ASSUME IInv, NEW t \in Threads, Running(t), Call(t).op \in {"send", "receive", "close"}
  PROVE  /\ sock[t].conn \in Threads
         /\ sock[t].side \in Sides
         /\ Other(sock[t].side) \in Sides
<1>1. Types /\ Connected(t)
  BY DEF IInv
<1>2. \E j \in 1 .. Len(log[t]) : program[t][j].op \in {"connect", "accept"}
  BY <1>1, CallType
<1>3. sock[t].conn # "none"
  BY <1>1, <1>2 DEF Connected
<1>4. sock[t] \in Socket
  BY <1>1 DEF Types
<1> QED
  BY <1>3, <1>4, SidesFacts DEF Socket

LEMMA Room ==
  ASSUME NEW size \in Nat, NEW used \in Nat, NEW buf \in Nat,
         (IF size < buf - used THEN size ELSE buf - used) >= size
  PROVE  /\ (IF size < buf - used THEN size ELSE buf - used) = size
         /\ used + size <= buf
  OBVIOUS

LEMMA SendFacts ==
  ASSUME IInv, NoPartialSend', NEW t \in Threads, Internal_Send(t)
  PROVE  LET c == sock[t].conn
             me == sock[t].side
             data == Call(t).data
         IN /\ Checks(t, "send", NULL) /\ pAsync[t] = NULL
            /\ Running(t) /\ Call(t).op = "send"
            /\ buffer' = [buffer EXCEPT ![t] = Write(buffer[t], Call(t).ofs, data)]
            /\ data \in Seq(Byte)
            /\ Len(flight[c][me]) + Len(data) <= SendBuffer
            /\ flight' = [flight EXCEPT ![c][me] = flight[c][me] \o data]
            /\ Return(t, Len(data))
            /\ UNCHANGED <<program, errors, sock, listening, backlog, conn, ready, open, nextKeybC,
                           keyboard, stdin>>
<1> DEFINE c == sock[t].conn
           me == sock[t].side
           data == Call(t).data
           size == Call(t).size
           room == SendBuffer - Len(flight[c][me])
           n == IF size < room THEN size ELSE room
<1>1. Types /\ Sizes /\ CallObjectsFit
  BY DEF IInv
<1>2. /\ Checks(t, "send", NULL) /\ pAsync[t] = NULL
      /\ buffer' = [buffer EXCEPT ![t] = Write(buffer[t], Call(t).ofs, data)]
      /\ flight' = [flight EXCEPT ![c][me] = flight[c][me] \o SubSeq(data, 1, n)]
      /\ IF n >= size THEN Return(t, n)
         ELSE Blocks(t, "Receive_Check", n) /\ UNCHANGED log
      /\ UNCHANGED <<program, errors, sock, listening, backlog, conn, ready, open, nextKeybC,
                     keyboard, stdin>>
  BY DEF Internal_Send, console
<1>3. Running(t) /\ Call(t).op = "send"
  BY <1>1, <1>2, ChecksFacts
<1>4. Call(t) \in CallRecord /\ size = Len(data)
  BY <1>1, <1>3, CallType
<1>5. data \in Seq(Byte) /\ size \in Nat
  BY <1>4 DEF CallRecord, Byte
<1>6. c \in Threads /\ me \in Sides
  BY <1>3, HasSocket
<1>7. flight[c][me] \in Seq(Byte) /\ Len(flight[c][me]) <= SendBuffer
  BY <1>1, <1>6 DEF Types, Sizes
<1>8. n >= size
  <2> SUFFICES ASSUME ~(n >= size)
               PROVE  FALSE
    OBVIOUS
  <2>1. Blocks(t, "Receive_Check", n) /\ log' = log /\ program' = program
    BY <1>2
  <2>2. pAsync'[t] = [checkFn |-> "Receive_Check", count |-> n]
    BY <1>1, <2>1 DEF Blocks, Types
  <2>3. n \in Nat
    BY <1>5, <1>7, SizesAssumption
  <2>4. pAsync'[t] # NULL
    BY <2>2, <2>3, NotNULL DEF CheckFns
  <2>5. Running(t)' /\ (Call(t).op = "send")'
    BY <1>3, <2>1 DEF Running, Call
  <2> QED
    BY <2>4, <2>5 DEF NoPartialSend
<1>9. n = size /\ Len(flight[c][me]) + size <= SendBuffer
  <2> DEFINE used == Len(flight[c][me])
             taken == size
  <2>1. taken \in Nat /\ used \in Nat /\ SendBuffer \in Nat
    <3>1. used \in Nat
      BY <1>7, BytesCount
    <3> QED
      BY <1>5, <3>1, SizesAssumption
  <2>2. (IF taken < SendBuffer - used THEN taken ELSE SendBuffer - used) >= taken
    BY <1>8
  <2> HIDE DEF used, taken
  <2>3. /\ (IF taken < SendBuffer - used THEN taken ELSE SendBuffer - used) = taken
        /\ used + taken <= SendBuffer
    BY <2>1, <2>2, Room
  <2> QED
    BY <2>3 DEF used, taken
<1>10. SubSeq(data, 1, n) = data
  BY <1>4, <1>5, <1>9
<1>11. Len(flight[c][me]) + Len(data) <= SendBuffer
  BY <1>4, <1>9
<1>12. Return(t, Len(data))
  BY <1>2, <1>4, <1>8, <1>9
<1> QED
  BY <1>2, <1>3, <1>5, <1>10, <1>11, <1>12

LEMMA InternalSendKeeps ==
  ASSUME IInv, NoPartialSend', NEW t \in Threads, Internal_Send(t)
  PROVE  IInv'
<1> DEFINE c == sock[t].conn
           me == sock[t].side
           data == Call(t).data
           w == Write(buffer[t], Call(t).ofs, data)
           q == flight[c][me] \o data
<1>1. Types /\ Sizes /\ CallObjectsFit
  BY DEF IInv
<1>2. /\ Running(t) /\ Call(t).op = "send"
      /\ buffer' = [buffer EXCEPT ![t] = w]
      /\ data \in Seq(Byte)
      /\ Len(flight[c][me]) + Len(data) <= SendBuffer
      /\ flight' = [flight EXCEPT ![c][me] = q]
      /\ Return(t, Len(data))
      /\ UNCHANGED <<program, sock, listening, backlog, conn, ready, open, nextKeybC,
                     keyboard, stdin>>
  BY SendFacts
<1>3. c \in Threads /\ me \in Sides
  BY <1>2, HasSocket
<1>4. q \in Seq(Byte) /\ Len(q) <= SendBuffer
  <2>1. flight[c][me] \in Seq(Byte)
    BY <1>1, <1>3 DEF Types
  <2>2. q \in Seq(Byte) /\ Len(q) = Len(flight[c][me]) + Len(data)
    BY <1>2, <2>1, BytesJoin
  <2> QED
    BY <1>2, <2>2
<1>5. /\ Call(t) \in CallRecord /\ Call(t).ofs + Call(t).size <= BufferSize
      /\ Call(t).size = Len(data)
  BY <1>1, <1>2, CallType
<1>6. buffer[t] \in [0 .. BufferSize - 1 -> Byte] /\ Call(t).ofs \in Nat
  BY <1>1, <1>5 DEF Types, CallRecord
<1>7. w \in [0 .. BufferSize - 1 -> Byte]
  BY <1>2, <1>5, <1>6, WriteFacts
<1>8. Len(data) \in Results
  <2>1. Len(data) \in Nat
    BY <1>2, BytesCount
  <2> QED
    BY <2>1 DEF Results
<1> HIDE DEF c, me, w, q, data
<1>9. /\ log' \in [Threads -> Seq(Results)]
      /\ pAsync' \in [Threads -> CallObject \cup {NULL}]
      /\ \A u \in Threads : Len(log'[u]) <= Len(program'[u])
      /\ CallObjectsFit' /\ PendingPolled' /\ OneSocketPerSide'
      /\ \A u \in Threads : Connected(u)'
  BY <1>2, <1>8, ReturnFits
<1>10. buffer' \in [Threads -> [0 .. BufferSize - 1 -> Byte]]
  BY <1>1, <1>2, <1>7 DEF Types
<1>11. flight' \in [Threads -> [Sides -> Seq(Byte)]]
  BY <1>1, <1>2, <1>4 DEF Types
<1>12. \A d \in Threads, s \in Sides :
         flight'[d][s] = IF d = c /\ s = me THEN q ELSE flight[d][s]
  BY <1>1, <1>2 DEF Types
<1>13. Types'
  BY <1>1, <1>2, <1>9, <1>10, <1>11 DEF Types
<1>14. Sizes'
  BY <1>1, <1>2, <1>4, <1>9, <1>12 DEF Sizes
<1> QED
  BY <1>9, <1>13, <1>14 DEF IInv

LEMMA CountFacts ==
  ASSUME Types, CallObjectsFit, NEW t \in Threads, Running(t), Call(t).op = "receive"
  PROVE  /\ Count(t) \in Nat
         /\ Count(t) <= Call(t).size
         /\ Count(t) > 0 => pAsync[t] # NULL /\ pAsync[t].count = Count(t)
<1>1. Call(t).size \in Nat
  BY CallType DEF CallRecord
<1>2. CASE pAsync[t] = NULL
  BY <1>1, <1>2 DEF Count
<1>3. CASE pAsync[t] # NULL
  <2>1. pAsync[t].count \in Nat
    BY <1>3 DEF Types, CallObject
  <2>2. pAsync[t].count <= Call(t).size
    BY <1>3 DEF CallObjectsFit
  <2> QED
    BY <1>3, <2>1, <2>2 DEF Count
<1> QED
  BY <1>2, <1>3

(* A poll gets no more than the call lacks. *)
LEMMA RecvFacts ==
  ASSUME IInv, NoSurplus, NEW t \in Threads, Running(t), Call(t).op = "receive"
  PROVE  LET here == ready[sock[t].conn][Other(sock[t].side)]
         IN /\ here \in Seq(Byte)
            /\ Recv(t) \in Seq(Byte)
            /\ Recv(t) \o SubSeq(here, Len(Recv(t)) + 1, Len(here)) = here
            /\ SubSeq(here, Len(Recv(t)) + 1, Len(here)) \in Seq(Byte)
            /\ Len(Recv(t)) \in Nat
            /\ Count(t) + Len(Recv(t)) \in Nat
            /\ Count(t) + Len(Recv(t)) <= Call(t).size
            /\ Call(t).ofs + (Count(t) + Len(Recv(t))) <= BufferSize
<1> DEFINE c == sock[t].conn
           peer == Other(sock[t].side)
           here == ready[c][peer]
           size == Call(t).size
           n == IF Len(here) < size THEN Len(here) ELSE size
<1>1. Types /\ CallObjectsFit
  BY DEF IInv
<1>2. c \in Threads /\ peer \in Sides
  BY HasSocket
<1>3. here \in Seq(Byte)
  BY <1>1, <1>2 DEF Types
<1>4. Call(t) \in CallRecord /\ Call(t).ofs + size <= BufferSize
  BY <1>1, CallType
<1>5. size \in Nat /\ Call(t).ofs \in Nat
  BY <1>4 DEF CallRecord
<1>6. Recv(t) = SubSeq(here, 1, n)
  BY DEF Recv
<1>7. Count(t) \in Nat /\ Count(t) <= size
      /\ (Count(t) > 0 => pAsync[t] # NULL /\ pAsync[t].count = Count(t))
  BY <1>1, CountFacts
<1>8. Count(t) > 0 => Count(t) + Len(here) <= size
  BY <1>7 DEF NoSurplus
<1> HIDE DEF here, size
<1>9. Len(here) \in Nat
  BY <1>3
<1>10. n \in 0 .. Len(here) /\ n <= size
  BY <1>5, <1>9
<1> HIDE DEF n
<1>11. /\ Recv(t) \in Seq(Byte) /\ Len(Recv(t)) = n
       /\ SubSeq(here, n + 1, Len(here)) \in Seq(Byte)
       /\ Recv(t) \o SubSeq(here, n + 1, Len(here)) = here
  <2>1. n \in 0 .. Len(here)
    BY <1>10
  <2>2. /\ SubSeq(here, 1, n) \in Seq(Byte) /\ Len(SubSeq(here, 1, n)) = n
        /\ SubSeq(here, n + 1, Len(here)) \in Seq(Byte)
        /\ SubSeq(here, 1, n) \o SubSeq(here, n + 1, Len(here)) = here
    BY <1>3, <2>1, BytesCut
  <2> QED
    BY <1>6, <2>2
<1>12. n \in Nat /\ Count(t) + n <= size /\ Count(t) + n \in Nat
  BY <1>5, <1>7, <1>8, <1>9, <1>10
<1>13. Call(t).ofs + (Count(t) + n) <= BufferSize
  BY <1>4, <1>5, <1>12, SizesAssumption DEF size
<1> QED
  BY <1>3, <1>11, <1>12, <1>13 DEF here, size

LEMMA ReceiveFacts ==
  ASSUME IInv, NEW t \in Threads, Receive_Check(t)
  PROVE  LET c == sock[t].conn
             peer == Other(sock[t].side)
             here == ready[c][peer]
             w == Write(buffer[t], Call(t).ofs + Count(t), Recv(t))
             count == Count(t) + Len(Recv(t))
         IN /\ Checks(t, "receive", "Receive_Check")
            /\ Running(t) /\ Call(t).op = "receive"
            /\ ready' = [ready EXCEPT ![c][peer] = SubSeq(here, Len(Recv(t)) + 1, Len(here))]
            /\ buffer' = [buffer EXCEPT ![t] = w]
            /\ buffer'[t] = w
            /\ \/ count >= Call(t).size /\ Return(t, Slice(w, Call(t).ofs, count))
               \/ Blocks(t, "Receive_Check", count) /\ UNCHANGED log
            /\ UNCHANGED <<program, errors, sock, listening, backlog, conn, flight, open, nextKeybC,
                           keyboard, stdin>>
<1>1. Types /\ CallObjectsFit
  BY DEF IInv
<1>2. Checks(t, "receive", "Receive_Check")
  BY DEF Receive_Check
<1>3. "Receive_Check" \in CheckFns /\ CallFor("Receive_Check") = "receive"
  BY DEF CheckFns, CallFor
<1>4. Running(t) /\ Call(t).op = "receive"
  BY <1>1, <1>2, <1>3, ChecksFacts
<1> DEFINE w == Write(buffer[t], Call(t).ofs + Count(t), Recv(t))
<1>5. buffer' = [buffer EXCEPT ![t] = w]
  BY DEF Receive_Check, Position
<1>6. buffer'[t] = w
  BY <1>1, <1>5 DEF Types
<1> HIDE DEF w
<1>7. \/ Count(t) + Len(Recv(t)) >= Call(t).size
         /\ Return(t, Slice(w, Call(t).ofs, Count(t) + Len(Recv(t))))
      \/ Blocks(t, "Receive_Check", Count(t) + Len(Recv(t))) /\ UNCHANGED log
  BY <1>4, <1>6 DEF Receive_Check
<1> QED
  BY <1>2, <1>4, <1>5, <1>6, <1>7 DEF Receive_Check, console, w

LEMMA ReceiveCheckKeeps ==
  ASSUME IInv, NoSurplus, NEW t \in Threads, Receive_Check(t)
  PROVE  IInv'
<1> DEFINE c == sock[t].conn
           peer == Other(sock[t].side)
           here == ready[c][peer]
           rest == SubSeq(here, Len(Recv(t)) + 1, Len(here))
           pos == Call(t).ofs + Count(t)
           w == Write(buffer[t], pos, Recv(t))
           count == Count(t) + Len(Recv(t))
           got == Slice(w, Call(t).ofs, count)
<1>1. Types /\ Sizes /\ CallObjectsFit
  BY DEF IInv
<1>2. /\ Running(t) /\ Call(t).op = "receive"
      /\ ready' = [ready EXCEPT ![c][peer] = rest]
      /\ buffer' = [buffer EXCEPT ![t] = w]
      /\ \/ Return(t, got)
         \/ Blocks(t, "Receive_Check", count) /\ UNCHANGED log
      /\ UNCHANGED <<program, sock, listening, backlog, conn, flight, open, nextKeybC,
                     keyboard, stdin>>
  BY ReceiveFacts
<1>3. /\ Recv(t) \in Seq(Byte) /\ rest \in Seq(Byte)
      /\ count \in Nat /\ count <= Call(t).size
      /\ Call(t).ofs + count <= BufferSize
  BY <1>2, RecvFacts
<1>4. Call(t) \in CallRecord
  BY <1>1, <1>2, CallType
<1>5. Call(t).ofs \in Nat
  BY <1>4 DEF CallRecord
<1>6. Count(t) \in Nat
  BY <1>1, <1>2, CountFacts
<1>7. buffer[t] \in [0 .. BufferSize - 1 -> Byte]
  BY <1>1 DEF Types
<1>8. pos \in Nat /\ pos + Len(Recv(t)) <= BufferSize
  <2>1. Len(Recv(t)) \in Nat
    BY <1>3
  <2> QED
    BY <1>3, <1>5, <1>6, <2>1
<1>9. w \in [0 .. BufferSize - 1 -> Byte]
  BY <1>3, <1>7, <1>8, WriteFacts
<1>10. got \in Seq(Byte)
  BY <1>3, <1>5, <1>9, SliceType
<1>11. got \in Results
  BY <1>10 DEF Results
<1>12. "Receive_Check" \in CheckFns /\ CallFor("Receive_Check") = "receive"
  BY DEF CheckFns, CallFor
<1>13. c \in Threads /\ peer \in Sides
  BY <1>2, HasSocket
<1> HIDE DEF c, peer, rest, w, count, got
<1>14. /\ log' \in [Threads -> Seq(Results)]
       /\ pAsync' \in [Threads -> CallObject \cup {NULL}]
       /\ \A u \in Threads : Len(log'[u]) <= Len(program'[u])
       /\ CallObjectsFit' /\ PendingPolled' /\ OneSocketPerSide'
       /\ \A u \in Threads : Connected(u)'
  <2>1. CASE Return(t, got)
    BY <1>2, <1>11, <2>1, ReturnFits
  <2>2. CASE Blocks(t, "Receive_Check", count) /\ UNCHANGED log
    <3>1. /\ pAsync' \in [Threads -> CallObject \cup {NULL}]
          /\ CallObjectsFit' /\ PendingPolled' /\ OneSocketPerSide'
          /\ \A u \in Threads : Connected(u)'
      BY <1>2, <1>3, <1>12, <2>2, BlocksFits
    <3>2. log' \in [Threads -> Seq(Results)] /\ \A u \in Threads : Len(log'[u]) <= Len(program'[u])
      BY <1>1, <1>2, <2>2 DEF Types, Sizes
    <3> QED
      BY <3>1, <3>2
  <2> QED
    BY <1>2, <2>1, <2>2
<1>15. buffer' \in [Threads -> [0 .. BufferSize - 1 -> Byte]]
  BY <1>1, <1>2, <1>9 DEF Types
<1>16. ready' \in [Threads -> [Sides -> Seq(Byte)]]
  BY <1>1, <1>2, <1>3 DEF Types
<1>17. Types'
  BY <1>1, <1>2, <1>14, <1>15, <1>16 DEF Types
<1>18. Sizes'
  BY <1>1, <1>2, <1>14 DEF Sizes
<1> QED
  BY <1>14, <1>17, <1>18 DEF IInv

LEMMA AtEndFacts ==
  ASSUME IInv, NEW t \in Threads, Receive_CheckAtEnd(t)
  PROVE  LET c == sock[t].conn
             peer == Other(sock[t].side)
         IN /\ Checks(t, "receive", "Receive_Check")
            /\ Running(t) /\ Call(t).op = "receive"
            /\ ~open[c][peer] /\ ready[c][peer] = <<>> /\ flight[c][peer] = <<>>
            /\ Return(t, Slice(buffer[t], Call(t).ofs, Count(t)))
            /\ UNCHANGED <<program, errors, sock, buffer, listening, backlog, conn, flight, ready,
                           open, nextKeybC, keyboard, stdin>>
<1>1. Types /\ CallObjectsFit
  BY DEF IInv
<1>2. Checks(t, "receive", "Receive_Check")
  BY DEF Receive_CheckAtEnd
<1>3. "Receive_Check" \in CheckFns /\ CallFor("Receive_Check") = "receive"
  BY DEF CheckFns, CallFor
<1>4. Running(t) /\ Call(t).op = "receive"
  BY <1>1, <1>2, <1>3, ChecksFacts
<1> QED
  BY <1>2, <1>4 DEF Receive_CheckAtEnd, console, sockets

LEMMA PartType ==
  ASSUME Types, CallObjectsFit, NEW t \in Threads, Running(t), Call(t).op = "receive"
  PROVE  /\ Slice(buffer[t], Call(t).ofs, Count(t)) \in Seq(Byte)
         /\ Len(Slice(buffer[t], Call(t).ofs, Count(t))) = Count(t)
<1>1. Count(t) \in Nat /\ Count(t) <= Call(t).size
  BY CountFacts
<1>2. Call(t) \in CallRecord /\ Call(t).ofs + Call(t).size <= BufferSize
  BY CallType
<1>3. Call(t).ofs \in Nat /\ Call(t).size \in Nat
  BY <1>2 DEF CallRecord
<1>4. Call(t).ofs + Count(t) <= BufferSize
  BY <1>1, <1>2, <1>3, SizesAssumption
<1>5. buffer[t] \in [0 .. BufferSize - 1 -> Byte]
  BY DEF Types
<1> QED
  BY <1>1, <1>3, <1>4, <1>5, SliceType

LEMMA AtEndKeeps ==
  ASSUME IInv, NEW t \in Threads, Receive_CheckAtEnd(t)
  PROVE  IInv'
<1> DEFINE got == Slice(buffer[t], Call(t).ofs, Count(t))
<1>1. Types /\ Sizes /\ CallObjectsFit
  BY DEF IInv
<1>2. /\ Running(t) /\ Call(t).op = "receive" /\ Return(t, got)
      /\ UNCHANGED <<program, sock, buffer, listening, backlog, conn, flight, ready,
                     open, nextKeybC, keyboard, stdin>>
  BY AtEndFacts
<1>3. got \in Results
  BY <1>1, <1>2, PartType DEF Results
<1> HIDE DEF got
<1>4. /\ log' \in [Threads -> Seq(Results)]
      /\ pAsync' \in [Threads -> CallObject \cup {NULL}]
      /\ \A u \in Threads : Len(log'[u]) <= Len(program'[u])
      /\ CallObjectsFit' /\ PendingPolled' /\ OneSocketPerSide'
      /\ \A u \in Threads : Connected(u)'
  BY <1>2, <1>3, ReturnFits
<1>5. Types'
  BY <1>1, <1>2, <1>4 DEF Types
<1>6. Sizes'
  BY <1>1, <1>2, <1>4 DEF Sizes
<1> QED
  BY <1>4, <1>5, <1>6 DEF IInv

-----------------------------------------------------------------------------
(* The invariant *)

LEMMA InitIInv == Init => IInv
<1> SUFFICES ASSUME Init
             PROVE  IInv
  OBVIOUS
<1>1. \A t \in Threads : program[t] \in Seq(CallRecord) /\ log[t] = <<>>
  BY ProgramsAssumption DEF Init
<1>2. \A t \in Threads : Len(log[t]) = 0 /\ Len(program[t]) \in Nat
  BY <1>1
<1>3. Types
  <2>1. NoSocket \in Socket
    BY DEF NoSocket, Socket, Sides
  <2>2. buffer \in [Threads -> [0 .. BufferSize - 1 -> Byte]]
    BY DEF Init, Byte
  <2>3. flight \in [Threads -> [Sides -> Seq(Byte)]] /\ ready \in [Threads -> [Sides -> Seq(Byte)]]
    BY DEF Init
  <2>4. keyboard \in Seq(Key) /\ stdin \in Seq(Key)
    BY NamesAssumption DEF Init, Key
  <2>5. open \in [Threads -> [Sides -> BOOLEAN]]
    BY DEF Init
  <2>6. backlog \in Seq(Threads) /\ log \in [Threads -> Seq(Results)]
    BY DEF Init
  <2>7. /\ program \in Programs
        /\ sock \in [Threads -> Socket]
        /\ pAsync \in [Threads -> CallObject \cup {NULL}]
        /\ nextKeybC \in Key \cup {NULL}
        /\ listening \in BOOLEAN
        /\ conn \in [Threads -> {"none", "pending", "established", "refused"}]
    BY <2>1 DEF Init
  <2> QED
    BY <2>2, <2>3, <2>4, <2>5, <2>6, <2>7 DEF Types
<1>4. Sizes
  <2>1. \A c \in Threads, s \in Sides : Len(flight[c][s]) = 0
    BY DEF Init
  <2>2. Len(stdin) = 0 /\ Len(Keyboard) \in Nat /\ keyboard = Keyboard
    BY NamesAssumption DEF Init
  <2> QED
    BY <1>2, <2>1, <2>2, SizesAssumption DEF Sizes
<1>5. CallObjectsFit /\ PendingPolled
  BY DEF Init, CallObjectsFit, PendingPolled
<1>6. \A t \in Threads : Connected(t)
  BY <1>2 DEF Connected
<1>7. OneSocketPerSide
  <2>1. DOMAIN backlog = {}
    BY DEF Init
  <2>2. \A t \in Threads : sock[t].conn = "none" /\ sock[t].side = "client"
    BY DEF Init, NoSocket
  <2> QED
    BY <2>1, <2>2 DEF OneSocketPerSide, Accepted
<1> QED
  BY <1>3, <1>4, <1>5, <1>6, <1>7 DEF IInv

LEMMA StutterKeeps ==
  ASSUME IInv, GiveUp \/ UNCHANGED vars
  PROVE  IInv'
<1>1. UNCHANGED <<program, log, sock, pAsync, buffer, nextKeybC, listening, backlog, conn,
                  flight, ready, open, keyboard, stdin>>
  BY DEF GiveUp, vars, runtime, host
<1>2. Types' /\ Sizes'
  BY <1>1 DEF IInv, Types, Sizes
<1> QED
  BY <1>1, <1>2, OtherwiseKept DEF IInv

LEMMA NextIInv == IInv /\ NoSurplus /\ NoPartialSend' /\ [Next]_vars => IInv'
<1> SUFFICES ASSUME IInv, NoSurplus, NoPartialSend', [Next]_vars
             PROVE  IInv'
  OBVIOUS
<1>1. CASE Host
  BY <1>1, EstablishKeeps, RefuseKeeps, DeliverKeeps, TypeKeyKeeps DEF Host
<1>2. ASSUME NEW t \in Threads, Begin(t)
      PROVE  IInv'
  BY <1>2, ListenKeeps, CloseKeeps, InternalAcceptKeeps, InternalConnectKeeps,
     InternalReceiveKeeps, InternalSendKeeps, InternalReadKeyKeeps, KeyAvailableKeeps,
     SpinKeeps
     DEF Begin
<1>3. ASSUME NEW t \in Threads, Check(t)
      PROVE  IInv'
  BY <1>3, AcceptCheckKeeps, ConnectCheckKeeps, ConnectCheckFailedKeeps,
     ReceiveCheckKeeps, AtEndKeeps, ReadKeyCheckKeeps DEF Check
<1>4. CASE GiveUp \/ UNCHANGED vars
  BY <1>4, StutterKeeps
<1> QED
  BY <1>1, <1>2, <1>3, <1>4 DEF Next, Step

(* Runs in which no send is partial and no poll of a receive gets more     *)
(* than it lacks.                                                          *)
Regular == NoPartialSend /\ NoSurplus

(* Each call object is polled for its own call, each side of a connection  *)
(* has one socket, each connection is accepted once, and nothing is        *)
(* written outside the arrays.                                             *)
THEOREM Invariance == Spec /\ []Regular => []IInv
<1>1. IInv /\ Regular /\ Regular' /\ [Next]_vars => IInv'
  BY NextIInv DEF Regular
<1> QED
  BY <1>1, InitIInv, PTL DEF Spec

(* What calls do not change: the loop of the scheduler, and the errors of  *)
(* connects, which only grow.                                              *)
RunTypes ==
  /\ vm \in {"loop", "returned"}
  /\ errors \in [Threads -> Nat]

LEMMA RunTypesKept == RunTypes /\ [Next]_vars => RunTypes'
<1> SUFFICES ASSUME RunTypes, [Next]_vars
             PROVE  RunTypes'
  OBVIOUS
<1>1. vm' \in {"loop", "returned"}
  <2>1. CASE Host
    BY <2>1 DEF Host, Establish, Refuse, Deliver, TypeKey, runtime, RunTypes
  <2>2. CASE GiveUp \/ UNCHANGED vars
    BY <2>2 DEF GiveUp, vars, runtime, RunTypes
  <2>3. CASE \E t \in Threads : Step(t)
    BY <2>3 DEF Step, RunTypes
  <2> QED
    BY <2>1, <2>2, <2>3 DEF Next
<1>2. errors' \in [Threads -> Nat]
  <2>1. CASE Host
    BY <2>1 DEF Host, Establish, Refuse, Deliver, TypeKey, runtime, RunTypes
  <2>2. CASE GiveUp \/ UNCHANGED vars
    BY <2>2 DEF GiveUp, vars, runtime, RunTypes
  <2>3. ASSUME NEW t \in Threads, Begin(t)
        PROVE  errors' = errors
    BY <2>3 DEF Begin, Listen, Close, Internal_Accept, Internal_Connect, Internal_Receive,
       Internal_Send, Internal_ReadKey, Internal_KeyAvailable, Spin
  <2>4. ASSUME NEW t \in Threads, Check(t)
        PROVE  errors' = errors \/ errors' = [errors EXCEPT ![t] = @ + 1]
    BY <2>4 DEF Check, Accept_Check, Connect_Check, Connect_CheckFailed, Receive_Check,
       Receive_CheckAtEnd, Internal_ReadKey_Check
  <2> QED
    BY <2>1, <2>2, <2>3, <2>4 DEF Next, Step, RunTypes
<1> QED
  BY <1>1, <1>2 DEF RunTypes

(* The types of AsyncCalls: also that no poll writes outside its array,    *)
(* and no more bytes are on their way than the host takes.                 *)
THEOREM TypeCorrect == Spec /\ []Regular => []TypeOK
<1>1. IInv /\ RunTypes => TypeOK
  <2> SUFFICES ASSUME IInv, RunTypes
               PROVE  TypeOK
    OBVIOUS
  <2>1. Types /\ Sizes /\ CallObjectsFit
    BY DEF IInv
  <2>2. \A t \in Threads : pAsync[t] # NULL => Running(t) /\ pAsync[t].count \in Nat
    BY <2>1 DEF Types, CallObject, CallObjectsFit
  <2>3. \A t \in Threads : DOMAIN buffer[t] \subseteq 0 .. BufferSize - 1
    BY <2>1 DEF Types
  <2> QED
    BY <2>1, <2>2, <2>3 DEF TypeOK, Types, Sizes, RunTypes
<1>2. Init => RunTypes
  BY DEF Init, RunTypes
<1> QED
  BY <1>1, <1>2, RunTypesKept, Invariance, PTL DEF Spec

-----------------------------------------------------------------------------
(* What programs see *)

Link ==
  [c \in Threads |->
     IF conn[c] # "established" THEN "none"
     ELSE IF \E i \in DOMAIN backlog : backlog[i] = c THEN "up"
     ELSE "accepted"]

Stream ==
  [c \in Threads |-> [s \in Sides |-> Taken(c, s) \o ready[c][s] \o flight[c][s]]]

Typed == (IF nextKeybC = NULL THEN <<>> ELSE <<nextKeybC>>) \o stdin

(* The bytes a call in progress has taken. *)
Part(t) == Slice(buffer[t], Call(t).ofs, Count(t))

LEMMA OneReceiver ==
  ASSUME IInv, NEW t \in Threads, NEW u \in Threads, NEW c \in Threads, NEW s \in Sides,
         sock[t] = [conn |-> c, side |-> s], sock[u] = [conn |-> c, side |-> s]
  PROVE  t = u
<1>1. sock[t].conn = c /\ sock[u].conn = c /\ sock[t].side = s /\ sock[u].side = s
  OBVIOUS
<1>2. c # "none"
  BY NamesAssumption
<1>3. s = "client" \/ s = "server"
  BY DEF Sides
<1>4. CASE s = "client"
  BY <1>1, <1>2, <1>4 DEF IInv, OneSocketPerSide
<1>5. CASE s = "server"
  BY <1>1, <1>5 DEF IInv, OneSocketPerSide, Accepted
<1> QED
  BY <1>3, <1>4, <1>5

TakenByReceiver ==
  \A c \in Threads, s \in Sides :
    /\ \A t \in Threads : Receiver(t, c, s) => Taken(c, s) = Part(t)
    /\ (\A t \in Threads : ~Receiver(t, c, s)) => Taken(c, s) = <<>>

LEMMA TakenIs == IInv => TakenByReceiver
<1> SUFFICES ASSUME IInv, NEW c \in Threads, NEW s \in Sides
             PROVE  /\ \A t \in Threads : Receiver(t, c, s) => Taken(c, s) = Part(t)
                    /\ (\A t \in Threads : ~Receiver(t, c, s)) => Taken(c, s) = <<>>
  BY DEF TakenByReceiver
<1>1. ASSUME NEW t \in Threads, Receiver(t, c, s)
      PROVE  Taken(c, s) = Part(t)
  <2> DEFINE v == CHOOSE u \in Threads : Receiver(u, c, s)
  <2>1. v \in Threads /\ Receiver(v, c, s)
    BY <1>1
  <2>2. Other(s) \in Sides
    BY SidesFacts
  <2>3. v = t
    BY <1>1, <2>1, <2>2, OneReceiver DEF Receiver
  <2>4. Taken(c, s) = Slice(buffer[v], Call(v).ofs, pAsync[v].count)
    BY <1>1 DEF Taken
  <2>5. Count(t) = pAsync[t].count
    BY <1>1 DEF Receiver, Count
  <2> QED
    BY <2>3, <2>4, <2>5 DEF Part
<1>2. (\A t \in Threads : ~Receiver(t, c, s)) => Taken(c, s) = <<>>
  BY DEF Taken
<1> QED
  BY <1>1, <1>2

LEMMA TakenIsNext == IInv' => TakenByReceiver'
  BY TakenIs, PTL

Same(u) ==
  /\ sock'[u] = sock[u]
  /\ pAsync'[u] = pAsync[u]
  /\ buffer'[u] = buffer[u]
  /\ Call(u)' = Call(u)

LEMMA TakenKept ==
  ASSUME IInv, IInv', NEW c \in Threads, NEW s \in Sides,
         \A u \in Threads : Same(u) \/ (~Receiver(u, c, s) /\ ~Receiver(u, c, s)')
  PROVE  Taken(c, s)' = Taken(c, s)
<1>1. ASSUME NEW u \in Threads, Same(u)
      PROVE  (Receiver(u, c, s)' <=> Receiver(u, c, s)) /\ Part(u)' = Part(u)
  <2>1. Receiver(u, c, s)' <=> Receiver(u, c, s)
    BY <1>1 DEF Same, Receiver
  <2>2. Count(u)' = Count(u) /\ buffer'[u] = buffer[u] /\ Call(u)' = Call(u)
    BY <1>1 DEF Same, Count
  <2>3. Part(u)' = Part(u)
    BY <2>2 DEF Part
  <2> QED
    BY <2>1, <2>3
<1>2. CASE \E u \in Threads : Receiver(u, c, s)
  <2>1. PICK u \in Threads : Receiver(u, c, s)
    BY <1>2
  <2>2. Same(u) /\ Receiver(u, c, s)' /\ Part(u)' = Part(u)
    BY <1>1, <2>1
  <2> QED
    BY <2>1, <2>2, TakenIs, TakenIsNext DEF TakenByReceiver
<1>3. CASE \A u \in Threads : ~Receiver(u, c, s)
  <2>1. \A u \in Threads : ~Receiver(u, c, s)'
    BY <1>1, <1>3
  <2> QED
    BY <1>3, <2>1, TakenIs, TakenIsNext DEF TakenByReceiver
<1> QED
  BY <1>2, <1>3

LEMMA TakenType ==
  IInv => \A c \in Threads, s \in Sides : Taken(c, s) \in Seq(Byte)
<1> SUFFICES ASSUME IInv, NEW c \in Threads, NEW s \in Sides
             PROVE  Taken(c, s) \in Seq(Byte)
  OBVIOUS
<1>1. CASE \E u \in Threads : Receiver(u, c, s)
  <2>1. PICK u \in Threads : Receiver(u, c, s)
    BY <1>1
  <2>2. Types /\ CallObjectsFit
    BY DEF IInv
  <2>3. Running(u) /\ Call(u).op = "receive"
    BY <2>1, <2>2 DEF Receiver, CallObjectsFit, CallFor
  <2>4. Part(u) \in Seq(Byte)
    BY <2>2, <2>3, PartType DEF Part
  <2> QED
    BY <2>1, <2>4, TakenIs DEF TakenByReceiver
<1>2. CASE \A u \in Threads : ~Receiver(u, c, s)
  <2>1. Taken(c, s) = <<>>
    BY <1>2, TakenIs DEF TakenByReceiver
  <2>2. <<>> \in Seq(Byte)
    OBVIOUS
  <2> QED
    BY <2>1, <2>2
<1> QED
  BY <1>1, <1>2

(* A thread that is making a receive, and any other call. *)
LEMMA TakenByCaller ==
  ASSUME IInv, NEW t \in Threads, Checks(t, "receive", "Receive_Check"),
         Running(t), Call(t).op = "receive"
  PROVE  Taken(sock[t].conn, Other(sock[t].side)) = Part(t)
<1> DEFINE c == sock[t].conn
           s == Other(sock[t].side)
<1>1. Types /\ CallObjectsFit
  BY DEF IInv
<1>2. c \in Threads /\ s \in Sides /\ sock[t].side \in Sides
  BY HasSocket
<1>3. Other(s) = sock[t].side
  BY <1>2, SidesFacts
<1>4. sock[t] = [conn |-> c, side |-> Other(s)]
  <2>1. sock[t] \in Socket
    BY <1>1 DEF Types
  <2> QED
    BY <1>3, <2>1 DEF Socket
<1> HIDE DEF c, s
<1>5. CASE pAsync[t] # NULL
  <2>1. pAsync[t].checkFn = "Receive_Check"
    BY <1>5 DEF Checks
  <2>2. Receiver(t, c, s)
    BY <1>4, <1>5, <2>1 DEF Receiver
  <2> QED
    BY <1>2, <2>2, TakenIs DEF TakenByReceiver, c, s
<1>6. CASE pAsync[t] = NULL
  <2>1. Other(s) \in Sides
    BY <1>2, SidesFacts
  <2>2. ASSUME NEW u \in Threads, Receiver(u, c, s)
        PROVE  FALSE
    <3>1. u = t
      BY <1>2, <1>4, <2>1, <2>2, OneReceiver DEF Receiver
    <3> QED
      BY <1>6, <2>2, <3>1 DEF Receiver
  <2>3. Taken(c, s) = <<>>
    BY <1>2, <2>2, TakenIs DEF TakenByReceiver
  <2>4. Count(t) = 0
    BY <1>6 DEF Count
  <2>5. Part(t) = <<>>
    BY <1>1, <2>4, PartType DEF Part
  <2> QED
    BY <2>3, <2>5 DEF c, s
<1> QED
  BY <1>5, <1>6

-----------------------------------------------------------------------------
(* The steps of BlockingCalls, seen through Link, Stream and Typed *)

LEMMA UnfoldedListen ==
  ASSUME NEW t, Running(t), Call(t).op = "listen", Return(t, "ok"),
         UNCHANGED <<program, errors, Link, sock, Stream, open, Typed>>
  PROVE  Blocking!Listen(t)
  BY DEF Blocking!Listen, Blocking!Calls, Blocking!Running, Blocking!Call, Blocking!Return,
         Running, Call, Return, Link, Stream, Typed

LEMMA UnfoldedLinkUp ==
  ASSUME NEW c, Running(c), Call(c).op = "connect", Link[c] = "none",
         Link' = [Link EXCEPT ![c] = "up"],
         UNCHANGED <<program, errors, log, sock, Stream, open, Typed>>
  PROVE  Blocking!LinkUp(c)
  BY DEF Blocking!LinkUp, Blocking!Calls, Blocking!Running, Blocking!Call,
         Running, Call, Link, Stream, Typed

LEMMA UnfoldedConnect ==
  ASSUME NEW t, Running(t), Call(t).op = "connect", Link[t] # "none",
         sock' = [sock EXCEPT ![t] = [conn |-> t, side |-> "client"]], Return(t, "ok"),
         UNCHANGED <<program, errors, Link, Stream, open, Typed>>
  PROVE  Blocking!Connect(t)
  BY DEF Blocking!Connect, Blocking!Calls, Blocking!Running, Blocking!Call, Blocking!Return,
         Running, Call, Return, Link, Stream, Typed

LEMMA UnfoldedConnectFails ==
  ASSUME NEW t, Running(t), Call(t).op = "connect", Link[t] = "none",
         errors' = [errors EXCEPT ![t] = @ + 1],
         UNCHANGED <<program, log, Link, sock, Stream, open, Typed>>
  PROVE  Blocking!ConnectFails(t)
  BY DEF Blocking!ConnectFails, Blocking!Calls, Blocking!Running, Blocking!Call,
         Running, Call, Link, Stream, Typed

LEMMA UnfoldedSpin ==
  ASSUME NEW t, Running(t), Call(t).op = "spin", Return(t, "ok"),
         \A u \in Threads : u # t => ~Running(u),
         UNCHANGED <<program, errors, Link, sock, Stream, open, Typed>>
  PROVE  Blocking!Spin(t)
  BY DEF Blocking!Spin, Blocking!Calls, Blocking!Running, Blocking!Call, Blocking!Return,
         Running, Call, Return, Link, Stream, Typed

LEMMA UnfoldedAccept ==
  ASSUME NEW t, NEW c, Running(t), Call(t).op = "accept", Link[c] = "up",
         Link' = [Link EXCEPT ![c] = "accepted"],
         sock' = [sock EXCEPT ![t] = [conn |-> c, side |-> "server"]], Return(t, c),
         UNCHANGED <<program, errors, Stream, open, Typed>>
  PROVE  Blocking!Accept(t, c)
  BY DEF Blocking!Accept, Blocking!Calls, Blocking!Running, Blocking!Call, Blocking!Return,
         Running, Call, Return, Link, Stream, Typed

LEMMA UnfoldedSend ==
  ASSUME NEW t, Running(t), Call(t).op = "send",
         Stream' = [Stream EXCEPT ![sock[t].conn][sock[t].side] =
                      Stream[sock[t].conn][sock[t].side] \o Call(t).data],
         Return(t, Len(Call(t).data)),
         UNCHANGED <<program, errors, Link, sock, open, Typed>>
  PROVE  Blocking!Send(t)
  BY DEF Blocking!Send, Blocking!Calls, Blocking!Running, Blocking!Call, Blocking!Return,
         Running, Call, Return, Link, Stream, Typed

LEMMA UnfoldedReceive ==
  ASSUME NEW t,
         LET c == sock[t].conn
             peer == Other(sock[t].side)
             there == Stream[c][peer]
             n == IF Len(there) < Call(t).size THEN Len(there) ELSE Call(t).size
         IN /\ Running(t) /\ Call(t).op = "receive"
            /\ n = Call(t).size \/ ~open[c][peer]
            /\ Stream' = [Stream EXCEPT ![c][peer] = SubSeq(@, n + 1, Len(@))]
            /\ Return(t, SubSeq(there, 1, n))
            /\ UNCHANGED <<program, errors, Link, sock, open, Typed>>
  PROVE  Blocking!Receive(t)
  BY DEF Blocking!Receive, Blocking!Calls, Blocking!Running, Blocking!Call, Blocking!Return,
         Blocking!Other, Blocking!Sides, Other, Sides,
         Running, Call, Return, Link, Stream, Typed

LEMMA UnfoldedClose ==
  ASSUME NEW t, Running(t), Call(t).op = "close",
         open' = [open EXCEPT ![sock[t].conn][sock[t].side] = FALSE], Return(t, "ok"),
         UNCHANGED <<program, errors, Link, sock, Stream, Typed>>
  PROVE  Blocking!Close(t)
  BY DEF Blocking!Close, Blocking!Calls, Blocking!Running, Blocking!Call, Blocking!Return,
         Running, Call, Return, Link, Stream, Typed

LEMMA UnfoldedReadKey ==
  ASSUME NEW t, Running(t), Call(t).op = "readkey", Typed # <<>>,
         Typed' = Tail(Typed), Return(t, Head(Typed)),
         UNCHANGED <<program, errors, Link, sock, Stream, open>>
  PROVE  Blocking!ReadKey(t)
  BY DEF Blocking!ReadKey, Blocking!Calls, Blocking!Running, Blocking!Call, Blocking!Return,
         Running, Call, Return, Link, Stream, Typed

LEMMA UnfoldedKeyAvailable ==
  ASSUME NEW t, Running(t), Call(t).op = "keyavailable", Return(t, Typed # <<>>),
         UNCHANGED <<program, errors, Link, sock, Stream, open, Typed>>
  PROVE  Blocking!KeyAvailable(t)
  BY DEF Blocking!KeyAvailable, Blocking!Calls, Blocking!Running, Blocking!Call,
         Blocking!Return, Running, Call, Return, Link, Stream, Typed

LEMMA UnfoldedTyping ==
  ASSUME Len(Typed') = Len(Typed) + 1, SubSeq(Typed', 1, Len(Typed)) = Typed,
         UNCHANGED <<program, errors, log, Link, sock, Stream, open>>
  PROVE  Blocking!Typing
  BY DEF Blocking!Typing, Link, Stream, Typed

LEMMA UnfoldedVars == Blocking!vars =
  <<program, log, errors, Link, sock, Stream, open, Typed>>
  BY DEF Blocking!vars, Link, Stream, Typed
AbstractStep == Blocking!Next \/ UNCHANGED Blocking!vars

LEMMA Stutters ==
  ASSUME UNCHANGED <<program, errors, log, Link, sock, Stream, open, Typed>>
  PROVE  AbstractStep
  BY UnfoldedVars DEF AbstractStep, Blocking!vars, Link, Stream, Typed

LEMMA IsStep ==
  ASSUME NEW t \in Threads,
         \/ Blocking!Listen(t) \/ Blocking!LinkUp(t) \/ Blocking!Connect(t)
         \/ Blocking!Send(t) \/ Blocking!Receive(t) \/ Blocking!Close(t)
         \/ Blocking!ReadKey(t) \/ Blocking!KeyAvailable(t)
         \/ Blocking!ConnectFails(t) \/ Blocking!Spin(t)
         \/ \E c \in Threads : Blocking!Accept(t, c)
         \/ Blocking!Typing
  PROVE  AbstractStep
  BY DEF AbstractStep, Blocking!Next

LEMMA LinkKept ==
  ASSUME UNCHANGED <<conn, backlog>>
  PROVE  Link' = Link
  BY DEF Link

LEMMA TypedKept ==
  ASSUME UNCHANGED <<nextKeybC, stdin>>
  PROVE  Typed' = Typed
  BY DEF Typed

LEMMA StreamKept ==
  ASSUME UNCHANGED <<ready, flight>>,
         \A c \in Threads, s \in Sides : Taken(c, s)' = Taken(c, s)
  PROVE  Stream' = Stream
  BY DEF Stream

LEMMA StreamAt ==
  ASSUME NEW c \in Threads, NEW s \in Sides
  PROVE  Stream[c][s] = Taken(c, s) \o ready[c][s] \o flight[c][s]
  BY DEF Stream

StreamWith(c, s, q) == [Stream EXCEPT ![c][s] = q]

LEMMA StreamChanged ==
  ASSUME NEW c \in Threads, NEW s \in Sides, NEW q,
         Taken(c, s)' \o ready'[c][s] \o flight'[c][s] = q,
         \A d \in Threads, r \in Sides :
           d # c \/ r # s =>
             /\ Taken(d, r)' = Taken(d, r)
             /\ ready'[d][r] = ready[d][r]
             /\ flight'[d][r] = flight[d][r]
  PROVE  Stream' = StreamWith(c, s, q)
<1>1. Stream' = [d \in Threads |->
                   [r \in Sides |-> Taken(d, r)' \o ready'[d][r] \o flight'[d][r]]]
  BY DEF Stream
<1>2. Stream = [d \in Threads |-> [r \in Sides |-> Taken(d, r) \o ready[d][r] \o flight[d][r]]]
  BY DEF Stream
<1>3. [Stream EXCEPT ![c][s] = q] =
        [d \in Threads |-> [r \in Sides |->
           IF d = c /\ r = s THEN q ELSE Taken(d, r) \o ready[d][r] \o flight[d][r]]]
  BY <1>2
<1>4. ASSUME NEW d \in Threads, NEW r \in Sides
      PROVE  Taken(d, r)' \o ready'[d][r] \o flight'[d][r] =
               IF d = c /\ r = s THEN q ELSE Taken(d, r) \o ready[d][r] \o flight[d][r]
  OBVIOUS
<1>5. ASSUME NEW d \in Threads
      PROVE  [r \in Sides |-> Taken(d, r)' \o ready'[d][r] \o flight'[d][r]] =
               [r \in Sides |->
                  IF d = c /\ r = s THEN q ELSE Taken(d, r) \o ready[d][r] \o flight[d][r]]
  BY <1>4
<1> QED
  BY <1>1, <1>3, <1>5 DEF StreamWith

Receiving(t) == pAsync[t] # NULL /\ pAsync[t].checkFn = "Receive_Check"

(* No bytes are taken by a call other than a receive. *)
LEMMA TakenKeptByOther ==
  ASSUME IInv, IInv', NEW t \in Threads, Running(t), Call(t).op # "receive",
         program' = program,
         \A u \in Threads : u # t => /\ log'[u] = log[u] /\ sock'[u] = sock[u]
                                     /\ pAsync'[u] = pAsync[u] /\ buffer'[u] = buffer[u],
         ~Receiving(t)'
  PROVE  \A c \in Threads, s \in Sides : Taken(c, s)' = Taken(c, s)
<1>1. ~Receiving(t)
  BY DEF IInv, CallObjectsFit, CallFor, Receiving
<1>2. \A u \in Threads : u # t => Same(u)
  BY DEF Same, Call
<1>3. \A c \in Threads, s \in Sides : ~Receiver(t, c, s) /\ ~Receiver(t, c, s)'
  BY <1>1 DEF Receiver, Receiving
<1> QED
  BY <1>2, <1>3, TakenKept

LEMMA TakenKeptByHost ==
  ASSUME IInv, IInv', UNCHANGED <<program, log, sock, pAsync, buffer>>
  PROVE  \A c \in Threads, s \in Sides : Taken(c, s)' = Taken(c, s)
<1>1. \A u \in Threads : Same(u)
  BY DEF Same, Call
<1> QED
  BY <1>1, TakenKept

LEMMA ReturnOthers ==
  ASSUME Types, NEW t \in Threads, NEW r, Return(t, r)
  PROVE  /\ \A u \in Threads : u # t => log'[u] = log[u] /\ pAsync'[u] = pAsync[u]
         /\ ~Receiving(t)'
  BY DEF Return, Types, Receiving

LEMMA BlocksOthers ==
  ASSUME Types, NEW t \in Threads, NEW fn, NEW n, Blocks(t, fn, n)
  PROVE  /\ \A u \in Threads : u # t => pAsync'[u] = pAsync[u]
         /\ pAsync'[t] = [checkFn |-> fn, count |-> n]
  BY DEF Blocks, Types

-----------------------------------------------------------------------------
(* Steps of the host *)

LEMMA EstablishStep ==
  ASSUME IInv, IInv', NEW c \in Threads, Establish(c)
  PROVE  AbstractStep
<1>1. /\ conn[c] = "pending"
      /\ conn' = [conn EXCEPT ![c] = "established"]
      /\ backlog' = Append(backlog, c)
      /\ UNCHANGED <<program, errors, log, sock, pAsync, buffer, nextKeybC, listening, flight,
                     ready, open, keyboard, stdin>>
  BY DEF Establish, runtime
<1>2. Running(c) /\ Call(c).op = "connect"
  BY <1>1 DEF IInv, PendingPolled, CallObjectsFit, CallFor
<1>3. Link[c] = "none"
  BY <1>1 DEF Link
<1>4. conn'[c] = "established" /\ \A d \in Threads : d # c => conn'[d] = conn[d]
  BY <1>1 DEF IInv, Types
<1>5. backlog \in Seq(Threads)
  BY DEF IInv, Types
<1>6. ASSUME NEW d \in Threads
      PROVE  (\E i \in DOMAIN backlog' : backlog'[i] = d)
               <=> d = c \/ \E i \in DOMAIN backlog : backlog[i] = d
  BY <1>1, <1>5, AppendFacts
<1>7. Link' = [Link EXCEPT ![c] = "up"]
  BY <1>4, <1>6 DEF Link
<1>8. Stream' = Stream
  BY <1>1, TakenKeptByHost, StreamKept
<1>9. Typed' = Typed
  BY <1>1, TypedKept
<1>10. Blocking!LinkUp(c)
  BY <1>1, <1>2, <1>3, <1>7, <1>8, <1>9, UnfoldedLinkUp
<1> QED
  BY <1>10, IsStep

LEMMA RefuseStep ==
  ASSUME IInv, IInv', NEW c \in Threads, Refuse(c)
  PROVE  AbstractStep
<1>1. /\ conn[c] = "pending"
      /\ conn' = [conn EXCEPT ![c] = "refused"]
      /\ UNCHANGED <<program, errors, log, sock, pAsync, buffer, nextKeybC, backlog, flight,
                     ready, open, stdin>>
  BY DEF Refuse, runtime
<1>2. conn'[c] = "refused" /\ \A d \in Threads : d # c => conn'[d] = conn[d]
  BY <1>1 DEF IInv, Types
<1>3. \A d \in Threads : conn'[d] = "established" <=> conn[d] = "established"
  BY <1>1, <1>2
<1>4. Link' = Link
  BY <1>1, <1>3 DEF Link
<1>5. Stream' = Stream
  BY <1>1, TakenKeptByHost, StreamKept
<1>6. Typed' = Typed
  BY <1>1, TypedKept
<1> QED
  BY <1>1, <1>4, <1>5, <1>6, Stutters

LEMMA ConcatAssoc ==
  ASSUME NEW x \in Seq(Byte), NEW y \in Seq(Byte), NEW z \in Seq(Byte)
  PROVE  (x \o y) \o z = x \o (y \o z)
  BY ConcatAssociative

LEMMA DeliverStep ==
  ASSUME IInv, IInv', NEW c \in Threads, NEW side \in Sides, NEW n \in 1 .. SendBuffer,
         Deliver(c, side, n)
  PROVE  AbstractStep
<1> DEFINE q == flight[c][side]
           r == ready[c][side]
           tk == Taken(c, side)
           now == SubSeq(q, 1, n)
           later == SubSeq(q, n + 1, Len(q))
<1>1. /\ n \in 1 .. Len(q)
      /\ ready' = [ready EXCEPT ![c][side] = r \o now]
      /\ flight' = [flight EXCEPT ![c][side] = later]
      /\ UNCHANGED <<program, errors, log, sock, pAsync, buffer, nextKeybC, listening, backlog,
                     conn, open, keyboard, stdin>>
  BY DEF Deliver, runtime
<1>2. q \in Seq(Byte) /\ r \in Seq(Byte) /\ tk \in Seq(Byte)
  <2>1. q \in Seq(Byte) /\ r \in Seq(Byte)
    BY DEF IInv, Types
  <2>2. tk \in Seq(Byte)
    BY TakenType
  <2> QED
    BY <2>1, <2>2
<1> HIDE DEF q, r, tk
<1>3. now \in Seq(Byte) /\ later \in Seq(Byte) /\ now \o later = q
  <2>1. n \in 0 .. Len(q)
    BY <1>1, <1>2
  <2> QED
    BY <1>2, <2>1, CutFacts
<1> HIDE DEF now, later
<1>4. \A d \in Threads, s \in Sides :
        /\ ready'[d][s] = IF d = c /\ s = side THEN r \o now ELSE ready[d][s]
        /\ flight'[d][s] = IF d = c /\ s = side THEN later ELSE flight[d][s]
  BY <1>1 DEF IInv, Types
<1>5. \A d \in Threads, s \in Sides : Taken(d, s)' = Taken(d, s)
  BY <1>1, TakenKeptByHost
<1>6. (tk \o (r \o now)) \o later = (tk \o r) \o q
  <2> DEFINE tr == tk \o r
  <2>1. tr \in Seq(Byte)
    BY <1>2
  <2>2. tk \o (r \o now) = tr \o now
    BY <1>2, <1>3, ConcatAssoc
  <2> HIDE DEF tr
  <2>3. (tr \o now) \o later = tr \o (now \o later)
    BY <1>3, <2>1, ConcatAssoc
  <2> QED
    BY <1>3, <2>2, <2>3 DEF tr
<1>7. \A d \in Threads, s \in Sides :
        Taken(d, s)' \o ready'[d][s] \o flight'[d][s] = Taken(d, s) \o ready[d][s] \o flight[d][s]
  BY <1>4, <1>5, <1>6 DEF tk, q, r
<1>8. Stream' = Stream
  BY <1>7 DEF Stream
<1>9. Link' = Link /\ Typed' = Typed
  BY <1>1, LinkKept, TypedKept
<1> QED
  BY <1>1, <1>8, <1>9, Stutters

LEMMA TypeKeyStep ==
  ASSUME IInv, IInv', TypeKey
  PROVE  AbstractStep
<1>1. /\ keyboard # <<>>
      /\ stdin' = Append(stdin, Head(keyboard))
      /\ UNCHANGED <<program, errors, log, sock, pAsync, buffer, nextKeybC, backlog,
                     conn, flight, ready, open>>
  BY DEF TypeKey, runtime
<1>2. keyboard \in Seq(Key) /\ stdin \in Seq(Key)
  BY DEF IInv, Types
<1> DEFINE first == IF nextKeybC = NULL THEN <<>> ELSE <<nextKeybC>>
           k == Head(keyboard)
<1>3. k \in Key
  BY <1>1, <1>2, TailFacts
<1>4. first \in Seq(Key)
  BY DEF IInv, Types
<1>5. Typed = first \o stdin /\ Typed' = first \o Append(stdin, k)
  BY <1>1 DEF Typed
<1> HIDE DEF first, k
<1>6. Typed \in Seq(Key)
  BY <1>2, <1>4, <1>5
<1>7. Typed' = Append(Typed, k)
  BY <1>2, <1>3, <1>4, <1>5
<1>8. Len(Typed') = Len(Typed) + 1 /\ SubSeq(Typed', 1, Len(Typed)) = Typed
  BY <1>3, <1>6, <1>7
<1>9. Link' = Link
  BY <1>1, LinkKept
<1>10. Stream' = Stream
  BY <1>1, TakenKeptByHost, StreamKept
<1>11. Blocking!Typing
  BY <1>1, <1>8, <1>9, <1>10, UnfoldedTyping
<1> QED
  BY <1>11 DEF AbstractStep, Blocking!Next

-----------------------------------------------------------------------------
(* Steps of the calls that move no data *)

LEMMA ListenStep ==
  ASSUME IInv, IInv', NEW t \in Threads, Listen(t)
  PROVE  AbstractStep
<1>1. Types /\ CallObjectsFit
  BY DEF IInv
<1>2. /\ Checks(t, "listen", NULL) /\ Return(t, "ok")
      /\ UNCHANGED <<program, errors, sock, buffer, backlog, conn, flight, ready, open, nextKeybC,
                     stdin>>
  BY DEF Listen, console
<1>3. Running(t) /\ Call(t).op = "listen"
  BY <1>1, <1>2, ChecksFacts
<1>4. Stream' = Stream
  BY <1>1, <1>2, <1>3, ReturnOthers, TakenKeptByOther, StreamKept
<1>5. Link' = Link /\ Typed' = Typed
  BY <1>2, LinkKept, TypedKept
<1>6. Blocking!Listen(t)
  BY <1>2, <1>3, <1>4, <1>5, UnfoldedListen
<1> QED
  BY <1>6, IsStep

LEMMA CloseStep ==
  ASSUME IInv, IInv', NEW t \in Threads, Close(t)
  PROVE  AbstractStep
<1>1. Types /\ CallObjectsFit
  BY DEF IInv
<1>2. /\ Checks(t, "close", NULL) /\ Return(t, "ok")
      /\ open' = [open EXCEPT ![sock[t].conn][sock[t].side] = FALSE]
      /\ UNCHANGED <<program, errors, sock, buffer, backlog, conn, flight, ready, nextKeybC, stdin>>
  BY DEF Close, console
<1>3. Running(t) /\ Call(t).op = "close"
  BY <1>1, <1>2, ChecksFacts
<1>4. Stream' = Stream
  BY <1>1, <1>2, <1>3, ReturnOthers, TakenKeptByOther, StreamKept
<1>5. Link' = Link /\ Typed' = Typed
  BY <1>2, LinkKept, TypedKept
<1>6. Blocking!Close(t)
  BY <1>2, <1>3, <1>4, <1>5, UnfoldedClose
<1> QED
  BY <1>6, IsStep

LEMMA SpinStep ==
  ASSUME IInv, IInv', NEW t \in Threads, Spin(t)
  PROVE  AbstractStep
<1>1. Types /\ CallObjectsFit
  BY DEF IInv
<1>2. /\ Checks(t, "spin", NULL) /\ Return(t, "ok")
      /\ \A u \in Threads : u # t => ~Running(u)
      /\ UNCHANGED <<program, errors, sock, buffer, backlog, conn, flight, ready, open,
                     nextKeybC, stdin>>
  BY DEF Spin, console, sockets
<1>3. Running(t) /\ Call(t).op = "spin"
  BY <1>1, <1>2, ChecksFacts
<1>4. Stream' = Stream
  BY <1>1, <1>2, <1>3, ReturnOthers, TakenKeptByOther, StreamKept
<1>5. Link' = Link /\ Typed' = Typed
  BY <1>2, LinkKept, TypedKept
<1>6. Blocking!Spin(t)
  BY <1>2, <1>3, <1>4, <1>5, UnfoldedSpin
<1> QED
  BY <1>6, IsStep

(* A call that begins to be polled is not seen. *)
LEMMA BeginStep ==
  ASSUME IInv, IInv', NEW t \in Threads, Running(t), Call(t).op # "receive",
         NEW fn, NEW n, fn # "Receive_Check", Blocks(t, fn, n),
         UNCHANGED <<program, errors, log, sock, buffer, backlog, flight, ready, open, nextKeybC,
                     stdin>>,
         \A c \in Threads : conn'[c] = "established" <=> conn[c] = "established"
  PROVE  AbstractStep
<1>1. Types
  BY DEF IInv
<1>2. /\ \A u \in Threads : u # t => pAsync'[u] = pAsync[u]
      /\ pAsync'[t] = [checkFn |-> fn, count |-> n]
  BY <1>1, BlocksOthers
<1>3. ~Receiving(t)'
  <2>1. pAsync'[t].checkFn = fn
    BY <1>2
  <2> QED
    BY <2>1 DEF Receiving
<1>4. Stream' = Stream
  BY <1>2, <1>3, TakenKeptByOther, StreamKept
<1>5. Link' = Link
  BY DEF Link
<1>6. Typed' = Typed
  BY TypedKept
<1> QED
  BY <1>4, <1>5, <1>6, Stutters

LEMMA InternalAcceptStep ==
  ASSUME IInv, IInv', NEW t \in Threads, Internal_Accept(t)
  PROVE  AbstractStep
<1>1. Types /\ CallObjectsFit
  BY DEF IInv
<1>2. /\ Checks(t, "accept", NULL) /\ Blocks(t, "Accept_Check", 0)
      /\ UNCHANGED <<program, errors, log, sock, buffer, backlog, conn, flight, ready, open,
                     nextKeybC, stdin>>
  BY DEF Internal_Accept, console, sockets
<1>3. Running(t) /\ Call(t).op = "accept"
  BY <1>1, <1>2, ChecksFacts
<1> QED
  BY <1>2, <1>3, BeginStep

LEMMA InternalReadKeyStep ==
  ASSUME IInv, IInv', NEW t \in Threads, Internal_ReadKey(t)
  PROVE  AbstractStep
<1>1. Types /\ CallObjectsFit
  BY DEF IInv
<1>2. /\ Checks(t, "readkey", NULL) /\ Blocks(t, "Internal_ReadKey_Check", 0)
      /\ UNCHANGED <<program, errors, log, sock, buffer, backlog, conn, flight, ready, open,
                     nextKeybC, stdin>>
  BY DEF Internal_ReadKey, console, sockets
<1>3. Running(t) /\ Call(t).op = "readkey"
  BY <1>1, <1>2, ChecksFacts
<1> QED
  BY <1>2, <1>3, BeginStep

LEMMA InternalConnectStep ==
  ASSUME IInv, IInv', NEW t \in Threads, Internal_Connect(t)
  PROVE  AbstractStep
<1>1. Types /\ CallObjectsFit
  BY DEF IInv
<1>2. /\ Checks(t, "connect", NULL) /\ Blocks(t, "Connect_Check", 0)
      /\ conn[t] \in {"none", "refused"}
      /\ conn' = [conn EXCEPT ![t] = "pending"]
      /\ UNCHANGED <<program, errors, log, sock, buffer, backlog, flight, ready, open,
                     nextKeybC, stdin>>
  BY DEF Internal_Connect, console
<1>3. Running(t) /\ Call(t).op = "connect"
  BY <1>1, <1>2, ChecksFacts
<1>4. \A c \in Threads : conn'[c] = "established" <=> conn[c] = "established"
  BY <1>1, <1>2 DEF Types
<1> QED
  BY <1>2, <1>3, <1>4, BeginStep

LEMMA ConnectCheckFailedStep ==
  ASSUME IInv, IInv', NEW t \in Threads, Connect_CheckFailed(t)
  PROVE  AbstractStep
<1>1. Types /\ CallObjectsFit
  BY DEF IInv
<1>2. /\ Checks(t, "connect", "Connect_Check")
      /\ conn[t] = "refused"
      /\ errors' = [errors EXCEPT ![t] = @ + 1]
      /\ pAsync' = [pAsync EXCEPT ![t] = NULL]
      /\ UNCHANGED <<program, log, sock, buffer, backlog, conn, flight, ready, open,
                     nextKeybC, stdin>>
  BY DEF Connect_CheckFailed, console, sockets
<1>3. "Connect_Check" \in CheckFns /\ CallFor("Connect_Check") = "connect"
  BY DEF CheckFns, CallFor
<1>4. Running(t) /\ Call(t).op = "connect"
  BY <1>1, <1>2, <1>3, ChecksFacts
<1>5. ~Receiving(t)' /\ \A u \in Threads : u # t => pAsync'[u] = pAsync[u]
  BY <1>1, <1>2 DEF Receiving, Types
<1>6. Stream' = Stream
  BY <1>2, <1>4, <1>5, TakenKeptByOther, StreamKept
<1>7. Link' = Link /\ Typed' = Typed
  BY <1>2, LinkKept, TypedKept
<1>8. Link[t] = "none"
  BY <1>2 DEF Link
<1>9. Blocking!ConnectFails(t)
  BY <1>2, <1>4, <1>6, <1>7, <1>8, UnfoldedConnectFails
<1> QED
  BY <1>9, IsStep

LEMMA ConnectCheckStep ==
  ASSUME IInv, IInv', NEW t \in Threads, Connect_Check(t)
  PROVE  AbstractStep
<1>1. Types /\ CallObjectsFit
  BY DEF IInv
<1>2. /\ Checks(t, "connect", "Connect_Check") /\ Return(t, "ok")
      /\ conn[t] = "established"
      /\ sock' = [sock EXCEPT ![t] = [conn |-> t, side |-> "client"]]
      /\ UNCHANGED <<program, errors, buffer, backlog, conn, flight, ready, open, nextKeybC, stdin>>
  BY DEF Connect_Check, console
<1>3. "Connect_Check" \in CheckFns /\ CallFor("Connect_Check") = "connect"
  BY DEF CheckFns, CallFor
<1>4. Running(t) /\ Call(t).op = "connect"
  BY <1>1, <1>2, <1>3, ChecksFacts
<1>5. \A u \in Threads : u # t => sock'[u] = sock[u]
  BY <1>1, <1>2 DEF Types
<1>6. Stream' = Stream
  BY <1>1, <1>2, <1>4, <1>5, ReturnOthers, TakenKeptByOther, StreamKept
<1>7. Link' = Link /\ Typed' = Typed
  BY <1>2, LinkKept, TypedKept
<1>8. Link[t] # "none"
  BY <1>2 DEF Link
<1>9. Blocking!Connect(t)
  BY <1>2, <1>4, <1>6, <1>7, <1>8, UnfoldedConnect
<1> QED
  BY <1>9, IsStep

LEMMA AcceptCheckStep ==
  ASSUME IInv, IInv', NEW t \in Threads, Accept_Check(t)
  PROVE  AbstractStep
<1> SUFFICES ASSUME NEW c, c = Head(backlog)
             PROVE  AbstractStep
  OBVIOUS
<1>1. Types /\ CallObjectsFit /\ OneSocketPerSide
  BY DEF IInv
<1>2. /\ Checks(t, "accept", "Accept_Check") /\ Return(t, c)
      /\ backlog # <<>> /\ backlog' = Tail(backlog)
      /\ sock' = [sock EXCEPT ![t] = [conn |-> c, side |-> "server"]]
      /\ UNCHANGED <<program, errors, buffer, conn, flight, ready, open, nextKeybC, stdin>>
  BY DEF Accept_Check, TakeConnection, console
<1>3. "Accept_Check" \in CheckFns /\ CallFor("Accept_Check") = "accept"
  BY DEF CheckFns, CallFor
<1>4. Running(t) /\ Call(t).op = "accept"
  BY <1>1, <1>2, <1>3, ChecksFacts
<1>5. backlog \in Seq(Threads)
  BY <1>1 DEF Types
<1>6. /\ c \in Threads /\ c = backlog[1] /\ 1 \in DOMAIN backlog
      /\ \A i \in DOMAIN backlog' :
           i + 1 \in DOMAIN backlog /\ backlog'[i] = backlog[i + 1] /\ i + 1 # 1
      /\ \A i \in DOMAIN backlog : i # 1 => i - 1 \in DOMAIN backlog' /\ backlog'[i - 1] = backlog[i]
  BY <1>2, <1>5, TailFacts
<1>7. conn[c] = "established"
  BY <1>1, <1>6 DEF OneSocketPerSide
<1>8. Link[c] = "up"
  BY <1>6, <1>7 DEF Link
<1>9. ~\E i \in DOMAIN backlog' : backlog'[i] = c
  BY <1>1, <1>6 DEF OneSocketPerSide
<1>10. ASSUME NEW d \in Threads, d # c
       PROVE  (\E i \in DOMAIN backlog' : backlog'[i] = d) <=> \E i \in DOMAIN backlog : backlog[i] = d
  <2>1. ASSUME NEW i \in DOMAIN backlog, backlog[i] = d
        PROVE  \E j \in DOMAIN backlog' : backlog'[j] = d
    BY <1>6, <1>10, <2>1
  <2>2. ASSUME NEW i \in DOMAIN backlog', backlog'[i] = d
        PROVE  \E j \in DOMAIN backlog : backlog[j] = d
    BY <1>6, <2>2
  <2> QED
    BY <2>1, <2>2
<1>11. Link' = [Link EXCEPT ![c] = "accepted"]
  <2>1. ASSUME NEW d \in Threads
        PROVE  Link'[d] = IF d = c THEN "accepted" ELSE Link[d]
    <3>1. CASE d = c
      BY <1>2, <1>7, <1>9, <3>1 DEF Link
    <3>2. CASE d # c
      BY <1>2, <1>10, <3>2 DEF Link
    <3> QED
      BY <3>1, <3>2
  <2>2. DOMAIN Link = Threads /\ DOMAIN Link' = Threads
    BY DEF Link
  <2>3. Link' = [d \in Threads |-> Link'[d]] /\ Link = [d \in Threads |-> Link[d]]
    BY DEF Link
  <2> QED
    BY <1>6, <2>1, <2>2, <2>3
<1>12. \A u \in Threads : u # t => sock'[u] = sock[u]
  BY <1>1, <1>2 DEF Types
<1>13. Stream' = Stream
  BY <1>1, <1>2, <1>4, <1>12, ReturnOthers, TakenKeptByOther, StreamKept
<1>14. Typed' = Typed
  BY <1>2, TypedKept
<1>15. UNCHANGED <<program, errors, Stream, open, Typed>>
  BY <1>2, <1>13, <1>14
<1>16. /\ sock' = [sock EXCEPT ![t] = [conn |-> c, side |-> "server"]]
       /\ Return(t, c)
  BY <1>2
<1>17. Blocking!Accept(t, c)
  BY <1>4, <1>8, <1>11, <1>15, <1>16, UnfoldedAccept
<1>18. \E d \in Threads : Blocking!Accept(t, d)
  BY <1>6, <1>17
<1> QED
  BY <1>18, IsStep

LEMMA TypedFacts ==
  ASSUME Types
  PROVE  /\ KeyThere <=> Typed # <<>>
         /\ KeyThere => Head(Typed) = NextKey
         /\ KeyThere /\ ReadAhead => Typed' = Tail(Typed)
<1>1. stdin \in Seq(Key)
  BY DEF Types
<1>2. CASE nextKeybC = NULL
  <2>1. Typed = stdin
    BY <1>1, <1>2 DEF Typed
  <2>2. KeyThere <=> stdin # <<>>
    BY <1>2 DEF KeyThere
  <2>3. NextKey = Head(stdin)
    BY <1>2 DEF NextKey
  <2>4. ASSUME KeyThere, ReadAhead
        PROVE  Typed' = Tail(Typed)
    <3>1. stdin' = Tail(stdin) /\ nextKeybC' = NULL
      BY <1>2, <2>4 DEF ReadAhead
    <3>2. stdin' \in Seq(Key)
      BY <1>1, <2>2, <2>4, <3>1
    <3> QED
      BY <2>1, <3>1, <3>2 DEF Typed
  <2> QED
    BY <2>1, <2>2, <2>3, <2>4
<1>3. CASE nextKeybC # NULL
  <2>1. nextKeybC \in Key
    BY <1>3 DEF Types
  <2>2. Typed = <<nextKeybC>> \o stdin
    BY <1>3 DEF Typed
  <2>3. Typed # <<>> /\ Head(Typed) = nextKeybC /\ Tail(Typed) = stdin
    BY <1>1, <2>1, <2>2
  <2>4. KeyThere /\ NextKey = nextKeybC
    BY <1>3 DEF KeyThere, NextKey
  <2>5. ASSUME ReadAhead
        PROVE  Typed' = stdin
    <3>1. stdin' = stdin /\ nextKeybC' = NULL
      BY <1>3, <2>5 DEF ReadAhead
    <3> QED
      BY <1>1, <3>1 DEF Typed
  <2> QED
    BY <2>3, <2>4, <2>5
<1> QED
  BY <1>2, <1>3

LEMMA ReadKeyCheckStep ==
  ASSUME IInv, IInv', NEW t \in Threads, Internal_ReadKey_Check(t)
  PROVE  AbstractStep
<1>1. Types /\ CallObjectsFit
  BY DEF IInv
<1>2. /\ pAsync[t] # NULL /\ pAsync[t].checkFn = "Internal_ReadKey_Check"
      /\ KeyThere /\ ReadAhead /\ Return(t, NextKey)
      /\ UNCHANGED <<program, errors, sock, buffer, backlog, conn, flight, ready, open>>
  BY DEF Internal_ReadKey_Check, sockets
<1>3. Running(t) /\ Call(t).op = "readkey"
  BY <1>1, <1>2 DEF CallObjectsFit, CallFor
<1>4. Typed # <<>> /\ Head(Typed) = NextKey /\ Typed' = Tail(Typed)
  BY <1>1, <1>2, TypedFacts
<1>5. Stream' = Stream
  BY <1>1, <1>2, <1>3, ReturnOthers, TakenKeptByOther, StreamKept
<1>6. Link' = Link
  BY <1>2, LinkKept
<1>7. Blocking!ReadKey(t)
  BY <1>2, <1>3, <1>4, <1>5, <1>6, UnfoldedReadKey
<1> QED
  BY <1>7, IsStep

LEMMA KeyAvailableStep ==
  ASSUME IInv, IInv', NEW t \in Threads, Internal_KeyAvailable(t)
  PROVE  AbstractStep
<1>1. Types /\ CallObjectsFit
  BY DEF IInv
<1>2. /\ Checks(t, "keyavailable", NULL) /\ Return(t, KeyThere)
      /\ IF KeyThere
         THEN /\ nextKeybC' = NextKey
              /\ stdin' = IF nextKeybC # NULL THEN stdin ELSE Tail(stdin)
         ELSE UNCHANGED <<nextKeybC, stdin>>
      /\ UNCHANGED <<program, errors, sock, buffer, backlog, conn, flight, ready, open>>
  BY DEF Internal_KeyAvailable, sockets
<1>3. Running(t) /\ Call(t).op = "keyavailable"
  BY <1>1, <1>2, ChecksFacts
<1>4. KeyThere = (Typed # <<>>)
  <2>1. KeyThere \in BOOLEAN
    BY DEF KeyThere
  <2> QED
    BY <1>1, <2>1, TypedFacts
<1>5. Typed' = Typed
  <2>1. CASE ~KeyThere
    BY <1>2, <2>1, TypedKept
  <2>2. CASE nextKeybC # NULL
    <3>1. KeyThere /\ NextKey = nextKeybC
      BY <2>2 DEF KeyThere, NextKey
    <3> QED
      BY <1>2, <2>2, <3>1, TypedKept
  <2>3. CASE KeyThere /\ nextKeybC = NULL
    <3>1. stdin \in Seq(Key) /\ stdin # <<>>
      BY <1>1, <2>3 DEF Types, KeyThere
    <3>2. nextKeybC' = Head(stdin) /\ stdin' = Tail(stdin)
      BY <1>2, <2>3 DEF NextKey
    <3>3. nextKeybC' # NULL
      BY <1>1, <1>2, <2>3, NextKeyFacts
    <3>4. Typed = stdin
      BY <2>3, <3>1 DEF Typed
    <3>5. Typed' = <<Head(stdin)>> \o Tail(stdin)
      BY <3>2, <3>3 DEF Typed
    <3> QED
      BY <3>1, <3>4, <3>5
  <2> QED
    BY <2>1, <2>2, <2>3
<1>6. Stream' = Stream
  BY <1>1, <1>2, <1>3, ReturnOthers, TakenKeptByOther, StreamKept
<1>7. Link' = Link
  BY <1>2, LinkKept
<1>8. Return(t, Typed # <<>>)
  BY <1>2, <1>4
<1>9. Blocking!KeyAvailable(t)
  BY <1>2, <1>3, <1>5, <1>6, <1>7, <1>8, UnfoldedKeyAvailable
<1> QED
  BY <1>9, IsStep

-----------------------------------------------------------------------------
(* Steps of the calls that move data *)

LEMMA PrefixFacts ==
  ASSUME NEW x \in Seq(Byte), NEW y \in Seq(Byte)
  PROVE  /\ SubSeq(x \o y, 1, Len(x)) = x
         /\ SubSeq(x \o y, Len(x) + 1, Len(x \o y)) = y
         /\ Len(x \o y) = Len(x) + Len(y)
<1>1. x \o y \in Seq(Byte) /\ Len(x \o y) = Len(x) + Len(y)
  OBVIOUS
<1>2. SubSeq(x \o y, 1, Len(x)) = x
  OBVIOUS
<1>3. SubSeq(x \o y, Len(x) + 1, Len(x \o y)) = y
  OBVIOUS
<1> QED
  BY <1>1, <1>2, <1>3

(* A receive is seen in no stream but its own.                             *)
LEMMA TakenKeptElsewhere ==
  ASSUME IInv, IInv', NEW t \in Threads, Running(t), Call(t).op = "receive",
         UNCHANGED <<program, sock>>,
         \A u \in Threads : u # t => /\ log'[u] = log[u] /\ pAsync'[u] = pAsync[u]
                                     /\ buffer'[u] = buffer[u]
  PROVE  \A c \in Threads, s \in Sides :
           c # sock[t].conn \/ s # Other(sock[t].side) => Taken(c, s)' = Taken(c, s)
<1> SUFFICES ASSUME NEW c \in Threads, NEW s \in Sides,
                    c # sock[t].conn \/ s # Other(sock[t].side)
             PROVE  Taken(c, s)' = Taken(c, s)
  OBVIOUS
<1>1. \A u \in Threads : u # t => Same(u)
  BY DEF Same, Call
<1>2. sock[t] # [conn |-> c, side |-> Other(s)]
  BY SidesFacts
<1>3. ~Receiver(t, c, s) /\ ~Receiver(t, c, s)'
  BY <1>2 DEF Receiver
<1> QED
  BY <1>1, <1>3, TakenKept

LEMMA TakenWhenBlocked ==
  ASSUME IInv, IInv', NEW t \in Threads, Running(t), Call(t).op = "receive",
         UNCHANGED sock, Receiving(t)'
  PROVE  Taken(sock[t].conn, Other(sock[t].side))' = Part(t)'
<1> SUFFICES ASSUME NEW c, NEW s, c = sock[t].conn, s = Other(sock[t].side)
             PROVE  Taken(c, s)' = Part(t)'
  BY DEF Taken, Receiver
<1>1. c \in Threads /\ s \in Sides /\ sock[t].side \in Sides
  BY HasSocket
<1>2. Other(s) = sock[t].side
  BY <1>1, SidesFacts
<1>3. sock'[t] = [conn |-> c, side |-> Other(s)]
  <2>1. sock[t] \in Socket
    BY DEF IInv, Types
  <2> QED
    BY <1>2, <2>1 DEF Socket
<1>4. Receiver(t, c, s)'
  BY <1>3 DEF Receiver, Receiving
<1> QED
  BY <1>1, <1>4, TakenIsNext DEF TakenByReceiver

LEMMA TakenWhenReturned ==
  ASSUME IInv, IInv', NEW t \in Threads, Running(t), Call(t).op = "receive",
         UNCHANGED sock, ~Receiving(t)'
  PROVE  Taken(sock[t].conn, Other(sock[t].side))' = <<>>
<1> SUFFICES ASSUME NEW c, NEW s, c = sock[t].conn, s = Other(sock[t].side)
             PROVE  Taken(c, s)' = <<>>
  BY DEF Taken, Receiver
<1>1. c \in Threads /\ s \in Sides /\ sock[t].side \in Sides
  BY HasSocket
<1>2. Other(s) = sock[t].side
  BY <1>1, SidesFacts
<1>3. sock[t] = [conn |-> c, side |-> Other(s)]
  <2>1. sock[t] \in Socket
    BY DEF IInv, Types
  <2> QED
    BY <1>2, <2>1 DEF Socket
<1>4. ASSUME NEW u \in Threads, Receiver(u, c, s)'
      PROVE  FALSE
  <2>1. sock[u] = [conn |-> c, side |-> Other(s)]
    BY <1>4 DEF Receiver
  <2>2. Other(s) \in Sides
    BY <1>1, <1>2
  <2>3. u = t
    BY <1>1, <1>3, <2>1, <2>2, OneReceiver
  <2> QED
    BY <1>4, <2>3 DEF Receiver, Receiving
<1> QED
  BY <1>1, <1>4, TakenIsNext DEF TakenByReceiver

(* A receive returns what it asked for, or at the end what is left.        *)
LEMMA ReceiveTakes ==
  ASSUME NEW t, NEW got, NEW rest
  PROVE  LET c == sock[t].conn
             peer == Other(sock[t].side)
         IN /\ Running(t) /\ Call(t).op = "receive" /\ Call(t).size \in Nat
            /\ got \in Seq(Byte) /\ rest \in Seq(Byte)
            /\ Stream[c][peer] = got \o rest
            /\ \/ Len(got) = Call(t).size
               \/ ~open[c][peer] /\ Len(got) <= Call(t).size /\ rest = <<>>
            /\ Stream' = [Stream EXCEPT ![c][peer] = rest]
            /\ Return(t, got)
            /\ UNCHANGED <<program, errors, Link, sock, open, Typed>>
            => Blocking!Receive(t)
<1> DEFINE c == sock[t].conn
           peer == Other(sock[t].side)
           there == Stream[c][peer]
           n == IF Len(there) < Call(t).size THEN Len(there) ELSE Call(t).size
<1> SUFFICES ASSUME Running(t), Call(t).op = "receive", Call(t).size \in Nat,
                    got \in Seq(Byte), rest \in Seq(Byte), there = got \o rest,
                    \/ Len(got) = Call(t).size
                    \/ ~open[c][peer] /\ Len(got) <= Call(t).size /\ rest = <<>>,
                    Stream' = [Stream EXCEPT ![c][peer] = rest],
                    Return(t, got), UNCHANGED <<program, errors, Link, sock, open, Typed>>
             PROVE  Blocking!Receive(t)
  OBVIOUS
<1>1. /\ SubSeq(there, 1, Len(got)) = got
      /\ SubSeq(there, Len(got) + 1, Len(there)) = rest
      /\ Len(there) = Len(got) + Len(rest)
  BY PrefixFacts
<1>2. Len(got) \in Nat /\ Len(rest) \in Nat /\ (rest = <<>> => Len(rest) = 0)
  OBVIOUS
<1>3. n = Len(got)
  <2> HIDE DEF there
  <2>1. CASE Len(got) = Call(t).size
    BY <1>1, <1>2, <2>1
  <2>2. CASE Len(got) <= Call(t).size /\ rest = <<>>
    <3>1. Len(there) = Len(got)
      BY <1>1, <1>2, <2>2
    <3> QED
      BY <1>2, <2>2, <3>1
  <2> QED
    BY <2>1, <2>2
<1>4. n = Call(t).size \/ ~open[c][peer]
  BY <1>3
<1>5. SubSeq(there, 1, n) = got /\ SubSeq(there, n + 1, Len(there)) = rest
  BY <1>1, <1>3
<1>6. Stream' = [Stream EXCEPT ![c][peer] = SubSeq(Stream[c][peer], n + 1, Len(Stream[c][peer]))]
  BY <1>5
<1>7. Return(t, SubSeq(there, 1, n))
  BY <1>5
<1>8. /\ Running(t) /\ Call(t).op = "receive"
      /\ n = Call(t).size \/ ~open[c][peer]
      /\ Stream' = [Stream EXCEPT ![c][peer] = SubSeq(@, n + 1, Len(@))]
      /\ Return(t, SubSeq(there, 1, n))
      /\ UNCHANGED <<program, errors, Link, sock, open, Typed>>
  BY <1>4, <1>6, <1>7
<1> QED
  BY <1>8, UnfoldedReceive

LEMMA InternalSendStep ==
  ASSUME IInv, IInv', NoPartialSend', NEW t \in Threads, Internal_Send(t)
  PROVE  AbstractStep
<1> SUFFICES ASSUME NEW c, NEW me, NEW data,
                    c = sock[t].conn, me = sock[t].side, data = Call(t).data
             PROVE  AbstractStep
  OBVIOUS
<1> DEFINE before == Taken(c, me) \o ready[c][me]
           q == flight[c][me]
<1>1. Types
  BY DEF IInv
<1>2. /\ Running(t) /\ Call(t).op = "send"
      /\ buffer' = [buffer EXCEPT ![t] = Write(buffer[t], Call(t).ofs, data)]
      /\ data \in Seq(Byte)
      /\ flight' = [flight EXCEPT ![c][me] = q \o data]
      /\ Return(t, Len(data))
      /\ UNCHANGED <<program, errors, sock, backlog, conn, ready, open, nextKeybC, stdin>>
  BY SendFacts
<1>3. c \in Threads /\ me \in Sides
  BY <1>2, HasSocket
<1>4. \A u \in Threads : u # t => buffer'[u] = buffer[u]
  BY <1>1, <1>2 DEF Types
<1>5. \A d \in Threads, s \in Sides : Taken(d, s)' = Taken(d, s)
  BY <1>1, <1>2, <1>4, ReturnOthers, TakenKeptByOther
<1>6. before \in Seq(Byte) /\ q \in Seq(Byte)
  <2>1. Taken(c, me) \in Seq(Byte)
    BY <1>3, TakenType
  <2>2. ready[c][me] \in Seq(Byte) /\ flight[c][me] \in Seq(Byte)
    BY <1>1, <1>3 DEF Types
  <2> QED
    BY <2>1, <2>2
<1>7. Stream[c][me] = before \o q
  BY <1>3, StreamAt
<1>8. Link' = Link /\ Typed' = Typed
  BY <1>2, LinkKept, TypedKept
<1>9. \A d \in Threads, s \in Sides :
        flight'[d][s] = IF d = c /\ s = me THEN q \o data ELSE flight[d][s]
  BY <1>1, <1>2 DEF Types
<1>10. Taken(c, me)' \o ready'[c][me] \o flight'[c][me] = before \o (q \o data)
  BY <1>2, <1>3, <1>5, <1>9
<1>11. before \o (q \o data) = (before \o q) \o data
  <2> HIDE DEF before, q
  <2> QED
    BY <1>2, <1>6, ConcatAssoc
<1>12. Stream' = [Stream EXCEPT ![c][me] = Stream[c][me] \o data]
  <2>1. \A d \in Threads, s \in Sides :
          d # c \/ s # me => /\ Taken(d, s)' = Taken(d, s)
                             /\ ready'[d][s] = ready[d][s]
                             /\ flight'[d][s] = flight[d][s]
    <3>1. ready' = ready
      BY <1>2
    <3>2. \A d \in Threads, s \in Sides : d # c \/ s # me => flight'[d][s] = flight[d][s]
      BY <1>9
    <3> HIDE DEF q
    <3> QED
      BY <1>5, <3>1, <3>2
  <2>2. Taken(c, me)' \o ready'[c][me] \o flight'[c][me] = Stream[c][me] \o data
    BY <1>7, <1>10, <1>11
  <2>3. Stream' = StreamWith(c, me, Stream[c][me] \o data)
    BY <1>3, <2>1, <2>2, StreamChanged
  <2> QED
    BY <2>3 DEF StreamWith
<1>13. Blocking!Send(t)
  BY <1>2, <1>8, <1>12, UnfoldedSend
<1> QED
  BY <1>13, IsStep

LEMMA InternalReceiveStep ==
  ASSUME IInv, IInv', NEW t \in Threads, Internal_Receive(t)
  PROVE  AbstractStep
<1>1. Types /\ CallObjectsFit
  BY DEF IInv
<1>2. /\ Checks(t, "receive", NULL) /\ pAsync[t] = NULL
      /\ Blocks(t, "Receive_Check", 0)
      /\ UNCHANGED <<program, errors, log, sock, buffer, backlog, conn, flight, ready, open,
                     nextKeybC, stdin>>
  BY DEF Internal_Receive, console, sockets
<1>3. Running(t) /\ Call(t).op = "receive"
  BY <1>1, <1>2, ChecksFacts
<1>4. /\ \A u \in Threads : u # t => pAsync'[u] = pAsync[u]
      /\ pAsync'[t] = [checkFn |-> "Receive_Check", count |-> 0]
  BY <1>1, <1>2, BlocksOthers
<1>5. pAsync'[t] # NULL
  BY <1>4, NotNULL DEF CheckFns
<1>6. Receiving(t)' /\ Count(t)' = 0
  BY <1>4, <1>5 DEF Receiving, Count
<1>7. Part(t)' = Part(t)
  <2>1. Count(t) = 0
    BY <1>2 DEF Count
  <2>2. buffer' = buffer /\ Call(t)' = Call(t)
    BY <1>2 DEF Call
  <2> QED
    BY <1>6, <2>1, <2>2 DEF Part
<1>8. Checks(t, "receive", "Receive_Check")
  BY <1>2, <1>3 DEF Checks
<1>9. Taken(sock[t].conn, Other(sock[t].side))' = Taken(sock[t].conn, Other(sock[t].side))
  <2>1. Taken(sock[t].conn, Other(sock[t].side)) = Part(t)
    BY <1>3, <1>8, TakenByCaller
  <2>2. Taken(sock[t].conn, Other(sock[t].side))' = Part(t)'
    BY <1>2, <1>3, <1>6, TakenWhenBlocked
  <2> QED
    BY <1>7, <2>1, <2>2
<1>10. \A d \in Threads, s \in Sides :
         d # sock[t].conn \/ s # Other(sock[t].side) => Taken(d, s)' = Taken(d, s)
  BY <1>2, <1>3, <1>4, TakenKeptElsewhere
<1>11. \A d \in Threads, s \in Sides : Taken(d, s)' = Taken(d, s)
  <2>1. ASSUME NEW d \in Threads, NEW s \in Sides, d = sock[t].conn, s = Other(sock[t].side)
        PROVE  Taken(d, s)' = Taken(d, s)
    BY <1>2, <1>9, <2>1 DEF Taken, Receiver
  <2> QED
    BY <1>10, <2>1
<1>12. Stream' = Stream
  BY <1>2, <1>11, StreamKept
<1>13. Link' = Link /\ Typed' = Typed
  BY <1>2, LinkKept, TypedKept
<1> QED
  BY <1>2, <1>12, <1>13, Stutters

LEMMA AtEndStep ==
  ASSUME IInv, IInv', NEW t \in Threads, Receive_CheckAtEnd(t)
  PROVE  AbstractStep
<1> SUFFICES ASSUME NEW c, NEW peer, c = sock[t].conn, peer = Other(sock[t].side)
             PROVE  AbstractStep
  OBVIOUS
<1>1. Types /\ CallObjectsFit
  BY DEF IInv
<1>2. /\ Checks(t, "receive", "Receive_Check")
      /\ Running(t) /\ Call(t).op = "receive"
      /\ ~open[c][peer] /\ ready[c][peer] = <<>> /\ flight[c][peer] = <<>>
      /\ Return(t, Part(t))
      /\ UNCHANGED <<program, errors, sock, buffer, backlog, conn, flight, ready, open, nextKeybC,
                     stdin>>
  BY AtEndFacts DEF Part
<1>3. c \in Threads /\ peer \in Sides
  BY <1>2, HasSocket
<1>4. Part(t) \in Seq(Byte) /\ Len(Part(t)) = Count(t)
  BY <1>1, <1>2, PartType DEF Part
<1>5. Count(t) <= Call(t).size
  BY <1>1, <1>2, CountFacts
<1>6. Call(t).size \in Nat
  BY <1>1, <1>2, CallType DEF CallRecord
<1>7. Taken(c, peer) = Part(t)
  BY <1>2, TakenByCaller
<1>8. Stream[c][peer] = Part(t) \o <<>>
  <2>1. Stream[c][peer] = Taken(c, peer) \o ready[c][peer] \o flight[c][peer]
    BY <1>3, StreamAt
  <2> QED
    BY <1>2, <1>4, <1>7, <2>1
<1>9. ~Receiving(t)' /\ \A u \in Threads : u # t => log'[u] = log[u] /\ pAsync'[u] = pAsync[u]
  BY <1>1, <1>2, ReturnOthers
<1>10. Taken(c, peer)' = <<>>
  BY <1>2, <1>9, TakenWhenReturned DEF Taken, Receiver
<1>11. \A d \in Threads, s \in Sides : d # c \/ s # peer => Taken(d, s)' = Taken(d, s)
  BY <1>2, <1>9, TakenKeptElsewhere
<1>12. Stream' = [Stream EXCEPT ![c][peer] = <<>>]
  <2>1. Taken(c, peer)' \o ready'[c][peer] \o flight'[c][peer] = <<>>
    BY <1>2, <1>10
  <2>2. \A d \in Threads, s \in Sides :
          d # c \/ s # peer => /\ Taken(d, s)' = Taken(d, s)
                               /\ ready'[d][s] = ready[d][s]
                               /\ flight'[d][s] = flight[d][s]
    BY <1>2, <1>11
  <2>3. Stream' = StreamWith(c, peer, <<>>)
    BY <1>3, <2>1, <2>2, StreamChanged
  <2> QED
    BY <2>3 DEF StreamWith
<1>13. Link' = Link /\ Typed' = Typed
  BY <1>2, LinkKept, TypedKept
<1>14. <<>> \in Seq(Byte)
  OBVIOUS
<1>15. Blocking!Receive(t)
  BY <1>2, <1>4, <1>5, <1>6, <1>8, <1>12, <1>13, <1>14, ReceiveTakes
<1> QED
  BY <1>15, IsStep

LEMMA ReceiveCheckStep ==
  ASSUME IInv, IInv', NoSurplus, NEW t \in Threads, Receive_Check(t)
  PROVE  AbstractStep
<1>0. SUFFICES ASSUME NEW c, NEW peer, NEW part, NEW bytes, NEW here, NEW rest, NEW later,
                       NEW ofs, NEW n, NEW w, NEW size,
                       c = sock[t].conn, peer = Other(sock[t].side), part = Part(t),
                       bytes = Recv(t), here = ready[c][peer],
                       rest = SubSeq(here, Len(bytes) + 1, Len(here)),
                       later = flight[c][peer], ofs = Call(t).ofs, n = Count(t),
                       w = Write(buffer[t], ofs + n, bytes), size = Call(t).size
                PROVE  AbstractStep
  OBVIOUS
<1>1. Types /\ CallObjectsFit
  BY DEF IInv
<1>2. /\ Checks(t, "receive", "Receive_Check")
      /\ Running(t) /\ Call(t).op = "receive"
      /\ ready' = [ready EXCEPT ![c][peer] = rest]
      /\ buffer' = [buffer EXCEPT ![t] = w]
      /\ buffer'[t] = w
      /\ \/ n + Len(bytes) >= size /\ Return(t, Slice(w, ofs, n + Len(bytes)))
         \/ Blocks(t, "Receive_Check", n + Len(bytes)) /\ UNCHANGED log
      /\ UNCHANGED <<program, errors, sock, backlog, conn, flight, open, nextKeybC, stdin>>
  BY <1>0, ReceiveFacts
<1>3. c \in Threads /\ peer \in Sides
  BY <1>0, <1>2, HasSocket
<1>4. /\ here \in Seq(Byte) /\ bytes \in Seq(Byte) /\ rest \in Seq(Byte)
      /\ bytes \o rest = here
      /\ Len(bytes) \in Nat
      /\ n + Len(bytes) \in Nat /\ n + Len(bytes) <= size
      /\ ofs + (n + Len(bytes)) <= BufferSize
  BY <1>0, <1>2, RecvFacts
<1>types. bytes \in Seq(Byte) /\ rest \in Seq(Byte)
  BY <1>4
<1>whole. bytes \o rest = here
  BY <1>4
<1>sizes. /\ n + Len(bytes) \in Nat /\ n + Len(bytes) <= size
          /\ ofs + (n + Len(bytes)) <= BufferSize
  BY <1>4
<1>5. ofs \in Nat /\ size \in Nat
  BY <1>0, <1>1, <1>2, CallType DEF CallRecord
<1>6. n \in Nat
  BY <1>0, <1>1, <1>2, CountFacts
<1>7. part \in Seq(Byte) /\ Len(part) = n
  BY <1>0, <1>1, <1>2, PartType DEF Part
<1>8. later \in Seq(Byte)
  BY <1>0, <1>1, <1>3 DEF Types
<1>9. Slice(w, ofs, n + Len(bytes)) = part \o bytes
  <2>1. buffer[t] \in [0 .. BufferSize - 1 -> Byte]
    BY <1>1 DEF Types
  <2>2. part = Slice(buffer[t], ofs, n)
    BY <1>0 DEF Part
  <2>3. w = Write(buffer[t], ofs + n, bytes)
    BY <1>0
  <2>4. Slice(w, ofs, n + Len(bytes)) = Slice(buffer[t], ofs, n) \o bytes
    BY <1>types, <1>sizes, <1>5, <1>6, <2>1, <2>3, SliceGrows
  <2> QED
    BY <2>2, <2>4
<1>10. Taken(c, peer) = part
  BY <1>0, <1>2, TakenByCaller
<1> DEFINE got == part \o bytes
           left == rest \o later
<1>11. got \in Seq(Byte) /\ left \in Seq(Byte) /\ Len(got) = n + Len(bytes)
  <2>1. Len(part \o bytes) = Len(part) + Len(bytes)
    BY <1>types, <1>7
  <2> QED
    BY <1>types, <1>7, <1>8, <2>1
<1>12. Stream[c][peer] = (part \o here) \o later
  BY <1>0, <1>3, <1>10, StreamAt
<1>13. (part \o here) \o later = (got \o rest) \o later /\ (got \o rest) \o later = got \o left
  <2>1. part \o here = got \o rest
    BY <1>types, <1>whole, <1>7, ConcatAssoc
  <2> HIDE DEF got
  <2>2. (got \o rest) \o later = got \o (rest \o later)
    BY <1>types, <1>8, <1>11, ConcatAssoc
  <2> QED
    BY <2>1, <2>2
<1> HIDE DEF got, left
<1>14. \A d \in Threads, s \in Sides :
         ready'[d][s] = IF d = c /\ s = peer THEN rest ELSE ready[d][s]
  BY <1>1, <1>2 DEF Types
<1>15. \A u \in Threads : u # t => buffer'[u] = buffer[u]
  BY <1>1, <1>2 DEF Types
<1>16. Link' = Link /\ Typed' = Typed
  BY <1>2, LinkKept, TypedKept
<1>17. ASSUME \A u \in Threads : u # t => log'[u] = log[u] /\ pAsync'[u] = pAsync[u]
       PROVE  \A d \in Threads, s \in Sides :
                d # c \/ s # peer => /\ Taken(d, s)' = Taken(d, s)
                                     /\ ready'[d][s] = ready[d][s]
                                     /\ flight'[d][s] = flight[d][s]
  <2>1. \A d \in Threads, s \in Sides : d # c \/ s # peer => Taken(d, s)' = Taken(d, s)
    BY <1>0, <1>2, <1>15, <1>17, TakenKeptElsewhere
  <2> QED
    BY <1>2, <1>14, <2>1
<1>18. CASE n + Len(bytes) >= size /\ Return(t, Slice(w, ofs, n + Len(bytes)))
  <2>1. ~Receiving(t)' /\ \A u \in Threads : u # t => log'[u] = log[u] /\ pAsync'[u] = pAsync[u]
    BY <1>1, <1>18, ReturnOthers
  <2>2. Taken(c, peer)' = <<>>
    BY <1>0, <1>2, <2>1, TakenWhenReturned DEF Taken, Receiver
  <2>3. Taken(c, peer)' \o ready'[c][peer] \o flight'[c][peer] = left
    <3>1. ready'[c][peer] = rest /\ flight'[c][peer] = later
      BY <1>0, <1>2, <1>3, <1>14
    <3>2. <<>> \o rest = rest
      BY <1>4
    <3> QED
      BY <2>2, <3>1, <3>2 DEF left
  <2>4. Stream' = StreamWith(c, peer, left)
    BY <1>3, <1>17, <2>1, <2>3, StreamChanged
  <2>5. Stream' = [Stream EXCEPT ![c][peer] = left]
    BY <2>4 DEF StreamWith
  <2>6. Return(t, got)
    BY <1>9, <1>18 DEF got
  <2>7. Len(got) = size
    <3>1. n + Len(bytes) = size
      BY <1>sizes, <1>5, <1>18
    <3> QED
      BY <1>11, <3>1
  <2>8. Stream[c][peer] = got \o left
    BY <1>12, <1>13
  <2>9. Blocking!Receive(t)
    BY <1>0, <1>2, <1>5, <1>11, <1>16, <2>5, <2>6, <2>7, <2>8, ReceiveTakes
  <2> QED
    BY <2>9, IsStep
<1>19. CASE Blocks(t, "Receive_Check", n + Len(bytes)) /\ UNCHANGED log
  <2>1. /\ \A u \in Threads : u # t => pAsync'[u] = pAsync[u]
        /\ pAsync'[t] = [checkFn |-> "Receive_Check", count |-> n + Len(bytes)]
    BY <1>1, <1>19, BlocksOthers
  <2>2. pAsync'[t] # NULL
    BY <1>4, <2>1, NotNULL DEF CheckFns
  <2>3. Receiving(t)' /\ Count(t)' = n + Len(bytes)
    BY <2>1, <2>2 DEF Receiving, Count
  <2>4. Part(t)' = got
    <3>1. Call(t)' = Call(t) /\ buffer'[t] = w
      BY <1>2, <1>19 DEF Call
    <3>2. Part(t)' = Slice(w, ofs, n + Len(bytes))
      BY <1>0, <2>3, <3>1 DEF Part
    <3> QED
      BY <1>9, <3>2 DEF got
  <2>5. Taken(c, peer)' = got
    <3>1. Taken(sock[t].conn, Other(sock[t].side))' = Part(t)'
      BY <1>2, <2>3, TakenWhenBlocked
    <3> QED
      BY <1>0, <1>2, <2>4, <3>1 DEF Taken, Receiver
  <2>6. Taken(c, peer)' \o ready'[c][peer] \o flight'[c][peer] =
          Taken(c, peer) \o ready[c][peer] \o flight[c][peer]
    <3>1. ready'[c][peer] = rest /\ flight'[c][peer] = later
      BY <1>0, <1>2, <1>3, <1>14
    <3> QED
      BY <1>0, <1>10, <1>13, <2>5, <3>1
  <2>7. \A d \in Threads, s \in Sides :
          d # c \/ s # peer => /\ Taken(d, s)' = Taken(d, s)
                               /\ ready'[d][s] = ready[d][s]
                               /\ flight'[d][s] = flight[d][s]
    <3>1. \A u \in Threads : u # t => log'[u] = log[u] /\ pAsync'[u] = pAsync[u]
      BY <1>19, <2>1
    <3> QED
      BY <1>17, <3>1
  <2>8. Stream' = Stream
    <3>1. \A d \in Threads, s \in Sides :
            Taken(d, s)' \o ready'[d][s] \o flight'[d][s] =
              Taken(d, s) \o ready[d][s] \o flight[d][s]
      BY <2>6, <2>7
    <3> QED
      BY <3>1 DEF Stream
  <2> QED
    BY <1>2, <1>16, <1>19, <2>8, Stutters
<1> QED
  BY <1>2, <1>18, <1>19

-----------------------------------------------------------------------------
(* The refinement *)

LEMMA InitStep == Init => Blocking!Init
<1> SUFFICES ASSUME Init
             PROVE  Blocking!Init
  OBVIOUS
<1>1. log = [t \in Threads |-> <<>>]
  BY DEF Init
<1>2. \A c \in Threads : conn[c] # "established"
  BY DEF Init
<1>3. Link = [c \in Threads |-> "none"]
  BY <1>2 DEF Link
<1>4. sock = [t \in Threads |-> [conn |-> "none", side |-> "client"]]
  BY DEF Init, NoSocket
<1>5. \A c \in Threads, s \in Sides : Taken(c, s) = <<>>
  <2>1. \A u \in Threads : pAsync[u] = NULL
    BY DEF Init
  <2>2. \A c \in Threads, s \in Sides, u \in Threads : ~Receiver(u, c, s)
    BY <2>1 DEF Receiver
  <2> QED
    BY <2>2 DEF Taken
<1>6. \A c \in Threads, s \in Sides : ready[c][s] = <<>> /\ flight[c][s] = <<>>
  BY DEF Init
<1>7. \A c \in Threads, s \in Sides : Taken(c, s) \o ready[c][s] \o flight[c][s] = <<>>
  BY <1>5, <1>6
<1>8. Stream = [c \in Threads |-> [s \in Sides |-> <<>>]]
  BY <1>7 DEF Stream
<1>9. open = [c \in Threads |-> [s \in Sides |-> TRUE]]
  BY DEF Init
<1>10. Typed = <<>>
  BY DEF Init, Typed
<1> QED
  BY <1>1, <1>3, <1>4, <1>8, <1>9, <1>10
     DEF Blocking!Init, Init, Blocking!NoSocket, Blocking!Sides, Sides, Link, Stream, Typed

LEMMA NextStep ==
  IInv /\ IInv' /\ NoSurplus /\ NoPartialSend' /\ [Next]_vars => AbstractStep
<1> SUFFICES ASSUME IInv, IInv', NoSurplus, NoPartialSend', [Next]_vars
             PROVE  AbstractStep
  OBVIOUS
<1>1. CASE Host
  <2>1. CASE TypeKey
    BY <2>1, TypeKeyStep
  <2>2. ASSUME NEW c \in Threads, Establish(c)
        PROVE  AbstractStep
    BY <2>2, EstablishStep
  <2>3. ASSUME NEW c \in Threads, Refuse(c)
        PROVE  AbstractStep
    BY <2>3, RefuseStep
  <2>4. ASSUME NEW c \in Threads, NEW side \in Sides, NEW n \in 1 .. SendBuffer,
               Deliver(c, side, n)
        PROVE  AbstractStep
    BY <2>4, DeliverStep
  <2> QED
    BY <1>1, <2>1, <2>2, <2>3, <2>4 DEF Host
<1>2. ASSUME NEW t \in Threads, Begin(t)
      PROVE  AbstractStep
  <2>1. CASE Listen(t)
    BY <2>1, ListenStep
  <2>2. CASE Close(t)
    BY <2>2, CloseStep
  <2>3. CASE Internal_Accept(t)
    BY <2>3, InternalAcceptStep
  <2>4. CASE Internal_Connect(t)
    BY <2>4, InternalConnectStep
  <2>5. CASE Internal_Receive(t)
    BY <2>5, InternalReceiveStep
  <2>6. CASE Internal_Send(t)
    BY <2>6, InternalSendStep
  <2>7. CASE Internal_ReadKey(t)
    BY <2>7, InternalReadKeyStep
  <2>8. CASE Internal_KeyAvailable(t)
    BY <2>8, KeyAvailableStep
  <2>9. CASE Spin(t)
    BY <2>9, SpinStep
  <2> QED
    BY <1>2, <2>1, <2>2, <2>3, <2>4, <2>5, <2>6, <2>7, <2>8, <2>9 DEF Begin
<1>3. ASSUME NEW t \in Threads, Check(t)
      PROVE  AbstractStep
  <2>1. CASE Accept_Check(t)
    BY <2>1, AcceptCheckStep
  <2>2. CASE Connect_Check(t)
    BY <2>2, ConnectCheckStep
  <2>3. CASE Connect_CheckFailed(t)
    BY <2>3, ConnectCheckFailedStep
  <2>4. CASE Receive_Check(t)
    BY <2>4, ReceiveCheckStep
  <2>5. CASE Receive_CheckAtEnd(t)
    BY <2>5, AtEndStep
  <2>6. CASE Internal_ReadKey_Check(t)
    BY <2>6, ReadKeyCheckStep
  <2> QED
    BY <1>3, <2>1, <2>2, <2>3, <2>4, <2>5, <2>6 DEF Check
<1>4. CASE GiveUp \/ UNCHANGED vars
  <2>1. UNCHANGED <<program, errors, log, sock, pAsync, buffer, nextKeybC, backlog, conn,
                    flight, ready, open, stdin>>
    BY <1>4 DEF GiveUp, vars, runtime, host
  <2>2. Stream' = Stream
    BY <2>1, TakenKeptByHost, StreamKept
  <2>3. Link' = Link /\ Typed' = Typed
    BY <2>1, LinkKept, TypedKept
  <2> QED
    BY <2>1, <2>2, <2>3, Stutters
<1> QED
  BY <1>1, <1>2, <1>3, <1>4 DEF Next, Step

(* As long as no send is taken in part and no receive finds more than it   *)
(* lacks, programs see calls that block: streams arrive whole and in       *)
(* order, a connection is accepted once, and a key is read once.           *)
THEOREM Refinement == Spec /\ []Regular => ImplementsBlocking
<1>1. Init => Blocking!Init
  BY InitStep
<1>2. IInv /\ IInv' /\ Regular /\ Regular' /\ [Next]_vars => [Blocking!Next]_(Blocking!vars)
  BY NextStep DEF Regular, AbstractStep
<1>3. Spec /\ []Regular => []IInv
  BY Invariance
<1> QED
  BY <1>1, <1>2, <1>3, PTL DEF Spec, ImplementsBlocking, Blocking!Spec
=============================================================================
