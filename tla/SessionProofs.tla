--------------------------- MODULE SessionProofs ----------------------------
(***************************************************************************)
(* What is proved of clients, connections and sessions, for all numbers of *)
(* clients, accounts, journeys, connections and calls: types, one          *)
(* reservation for each requestId and, when requestIds are kept, for each  *)
(* journey, and, until a call times out, that client and server agree on   *)
(* the call under way, on who is logged in and on what is booked.          *)
(***************************************************************************)
EXTENDS Session, SequenceTheorems, FiniteSetTheorems, TLAPS

-----------------------------------------------------------------------------
(***************************************************************************)
(* The inductive invariant.                                                *)
(***************************************************************************)
\* A goroutine that writes has something to write, and every LOGIN answered
\* with OK names an account.
NamesAccount(resp) == resp.op = "LOGIN" /\ resp.ok => resp.arg \in DOMAIN Accounts

AnswersOK ==
  \A k \in Conns :
    /\ handler[k] = "writing" => answer[k] \in Response /\ NamesAccount(answer[k])
    /\ \A n \in DOMAIN answers[k] : NamesAccount(answers[k][n])

\* Nothing has happened yet on a connection that has not been opened.
Untouched ==
  \A k \in Conns : k[2] > opened[k[1]] =>
    /\ handler[k] = "none"
    /\ requests[k] = << >>
    /\ answers[k] = << >>
    /\ k \notin late

\* A client without a connection, or without a process, waits for nothing and
\* is nobody; one that logs in is nobody yet.
Idle ==
  \A c \in Clients :
    /\ c \in lost \cup quit => call[c] = None /\ name[c] = None
    /\ call[c] # None /\ call[c].op = "LOGIN" => name[c] = None

\* resp is the answer to req on connection k, and what it says is so: the login
\* is in the Session, the reservation in the store.
AnswerTo(resp, req, k) ==
  /\ resp.op = req.op
  /\ resp.id = req.id
  /\ resp.op = "LOGIN" /\ resp.ok => session[k] = resp.arg
  /\ resp.op = "CONFIRM" /\ resp.ok => \E b \in bookings : b.wish = req.arg /\ b.id = req.id

\* The frames on their way and the one about to be written.
Underway(k) ==
  Len(requests[k]) + Len(answers[k]) + (IF handler[k] = "writing" THEN 1 ELSE 0)

\* The exchange of a client with its connection while no call has timed out on
\* it: one call, of which there is one frame at most, somewhere.
Exchange(c, k) ==
  /\ Underway(k) <= (IF call[c] = None THEN 0 ELSE 1)
  /\ \A n \in DOMAIN requests[k] : requests[k][n] = call[c]
  /\ \A n \in DOMAIN answers[k] : AnswerTo(answers[k][n], call[c], k)
  /\ handler[k] = "writing" => AnswerTo(answer[k], call[c], k)
  /\ ~Live(k) => requests[k] = << >>
  /\ name[c] # None =>
       session[k] = name[c] \/ (call[c] # None /\ call[c].op = "LOGOUT")

Exchanges == \A c \in Clients : Conn(c) \notin late /\ c \notin lost \cup quit =>
  Exchange(c, Conn(c))

\* req is a CONFIRM on its way to the server.
Sent(req) == req.op = "CONFIRM" /\ \E k \in Conns : \E n \in DOMAIN requests[k] : requests[k][n] = req

\* What requestIds have been used for: the journey of a CONFIRM on its way, of
\* a reservation, of a client's last attempt.
Uses ==
  {u \in RequestIds \X Wishes :
     \/ Sent([op |-> "CONFIRM", id |-> u[1], arg |-> u[2]])
     \/ \E b \in bookings : b.id = u[1] /\ b.wish = u[2]
     \/ attempt[<<u[1][1], u[2]>>] = u[1]}

\* A requestId is used for one journey, after its call was made, by the client
\* whose it is.
IdsOK ==
  /\ \A u \in Uses : u[1][2] <= sent[u[1][1]]
  /\ \A u, v \in Uses : u[1] = v[1] => u[2] = v[2]
  /\ \A c \in Clients, w \in Wishes : attempt[<<c, w>>] # None => attempt[<<c, w>>][1] = c
  /\ \A c \in Clients : call[c] # None /\ call[c].op = "CONFIRM" =>
       attempt[<<c, call[c].arg>>] = call[c].id

IInv ==
  /\ TypeOK
  /\ AnswersOK
  /\ Untouched
  /\ Idle
  /\ Exchanges
  /\ IdsOK
  /\ OkMeansBookedUntilTimeout

\* The server's half of OneBookingPerWish: a passenger's requestId, however often
\* and on however many connections it is sent, makes one reservation.
OncePerRequest ==
  \A x, y \in bookings : x.passenger = y.passenger /\ x.id = y.id => x = y

\* The client's half, when a CONFIRM keeps its requestId: every CONFIRM and every
\* reservation of a journey carries the requestId of the client's attempt.
KeptIds ==
  /\ \A k \in Conns : \A n \in DOMAIN requests[k] :
       LET req == requests[k][n]
       IN  req.op = "CONFIRM" => attempt[<<k[1], req.arg>>] = req.id
  /\ \A b \in bookings : attempt[<<b.id[1], b.wish>>] = b.id

-----------------------------------------------------------------------------
(***************************************************************************)
(* Queues of frames.                                                       *)
(***************************************************************************)
\* Taking the first frame of a queue.
LEMMA Taken ==
  ASSUME NEW S, NEW q \in Seq(S), q # << >>
  PROVE  /\ 1 \in DOMAIN q /\ Head(q) = q[1] /\ Head(q) \in S
         /\ Tail(q) \in Seq(S)
         /\ Len(q) \in Nat /\ Len(q) >= 1 /\ Len(Tail(q)) = Len(q) - 1
         /\ \A n \in DOMAIN Tail(q) : n + 1 \in DOMAIN q /\ Tail(q)[n] = q[n + 1]
OBVIOUS

\* Adding a frame to a queue.
LEMMA Added ==
  ASSUME NEW S, NEW q \in Seq(S), NEW x \in S
  PROVE  /\ Append(q, x) \in Seq(S)
         /\ Len(q) \in Nat /\ Len(Append(q, x)) = Len(q) + 1
         /\ \A n \in DOMAIN Append(q, x) :
              (n \in DOMAIN q /\ Append(q, x)[n] = q[n]) \/ Append(q, x)[n] = x
OBVIOUS

\* A queue without frames.
LEMMA Empty ==
  /\ \A S : << >> \in Seq(S)
  /\ DOMAIN << >> = {}
  /\ Len(<< >>) = 0
OBVIOUS

\* The length of a queue.
LEMMA Counted ==
  ASSUME NEW S, NEW q \in Seq(S)
  PROVE  /\ Len(q) \in Nat
         /\ q # << >> <=> Len(q) >= 1
         /\ q = << >> <=> Len(q) = 0
         /\ Len(q) = 1 => DOMAIN q = {1}
OBVIOUS

\* The end of a queue, from frame n + 1.
LEMMA Remainder ==
  ASSUME NEW S, NEW q \in Seq(S), NEW n \in 0 .. Len(q)
  PROVE  /\ SubSeq(q, n + 1, Len(q)) \in Seq(S)
         /\ \A m \in DOMAIN SubSeq(q, n + 1, Len(q)) :
              n + m \in DOMAIN q /\ SubSeq(q, n + 1, Len(q))[m] = q[n + m]
OBVIOUS

-----------------------------------------------------------------------------
(***************************************************************************)
(* The server's steps.                                                     *)
(***************************************************************************)
\* What the dispatch of one frame does: req is the frame, resp the answer.
Dispatched(k, req, resp) ==
  /\ requests[k] # << >> /\ req = Head(requests[k]) /\ handler[k] = "reading"
  /\ answer' = [answer EXCEPT ![k] = resp]
  /\ resp.op = req.op /\ resp.id = req.id /\ NamesAccount(resp)
  /\ session' \in [Conns -> DOMAIN Accounts \cup {None, "CLOSING"}]
  /\ \A j \in Conns : j # k => session'[j] = session[j]
  /\ resp.op = "LOGIN" /\ resp.ok => session'[k] = resp.arg
  /\ session'[k] # session[k] => req.op \in {"LOGIN", "LOGOUT"}
  /\ bookings \subseteq bookings'
  /\ bookings' \subseteq Reservations /\ IsFiniteSet(bookings')
  /\ \A b \in bookings' :
       b \in bookings \/ (req.op = "CONFIRM" /\ b.id = req.id /\ b.wish = req.arg)
  /\ resp.op = "CONFIRM" /\ resp.ok => \E b \in bookings' : b.id = req.id
  /\ OncePerRequest => OncePerRequest'

\* Whatever the frame is, it is dispatched in one of the ways of Dispatched.
LEMMA HandleFacts ==
  ASSUME TypeOK, NEW k \in Conns, Handle(k)
  PROVE  \E req \in Request, resp \in Response : Dispatched(k, req, resp)
<1> DEFINE req == Head(requests[k])
<1>1. requests[k] \in Seq(Request) /\ requests[k] # << >> /\ handler[k] = "reading"
  BY DEF TypeOK, Handle
<1>2. req \in Request
  BY <1>1, Taken
<1>3. CASE req.op = "PING" /\ Ping(k, req)
  <2>1. /\ answer' = [answer EXCEPT ![k] = [op |-> req.op, id |-> req.id, ok |-> TRUE, arg |-> None]]
        /\ UNCHANGED <<session, bookings>>
    BY <1>3 DEF Ping, Reply
  <2> DEFINE r == [op |-> req.op, id |-> req.id, ok |-> TRUE, arg |-> None]
  <2>2. r \in Response
    BY <1>2, <1>3 DEF Request, Response
  <2> QED
    BY <1>1, <1>2, <1>3, <2>1, <2>2 DEF TypeOK, NamesAccount, Dispatched, OncePerRequest
<1>4. CASE req.op = "LOGIN" /\ Login(k, req)
  <2>1. req.arg \in DOMAIN Accounts \cup {None} /\ req.id \in RequestIds
    BY <1>2, <1>4 DEF Request
  <2>2. CASE req.arg = None
    <3> DEFINE r == [op |-> req.op, id |-> req.id, ok |-> FALSE, arg |-> None]
    <3>1. r \in Response /\ answer' = [answer EXCEPT ![k] = r] /\ UNCHANGED <<session, bookings>>
      BY <1>4, <2>1, <2>2 DEF Response, Login, Reply
    <3> QED
      BY <1>1, <1>2, <1>4, <3>1 DEF TypeOK, NamesAccount, Dispatched, OncePerRequest
  <2>3. CASE req.arg # None
    <3> DEFINE r == [op |-> req.op, id |-> req.id, ok |-> TRUE, arg |-> req.arg]
    <3>1. /\ r \in Response /\ answer' = [answer EXCEPT ![k] = r] /\ UNCHANGED bookings
          /\ session' = [session EXCEPT ![k] = req.arg]
      BY <1>4, <2>1, <2>3 DEF Response, Login, Reply
    <3> QED
      BY <1>1, <1>2, <1>4, <2>1, <2>3, <3>1 DEF TypeOK, NamesAccount, Dispatched, OncePerRequest
  <2> QED
    BY <2>2, <2>3
<1>5. CASE req.op = "LOGOUT" /\ Logout(k, req)
  <2> DEFINE r == [op |-> req.op, id |-> req.id, ok |-> TRUE, arg |-> None]
  <2>1. /\ r \in Response /\ answer' = [answer EXCEPT ![k] = r] /\ UNCHANGED bookings
        /\ session' = [session EXCEPT ![k] = "CLOSING"]
    BY <1>2, <1>5 DEF Request, Response, Logout, Reply
  <2> QED
    BY <1>1, <1>2, <1>5, <2>1 DEF TypeOK, NamesAccount, Dispatched, OncePerRequest
<1>6. CASE req.op = "CONFIRM" /\ Confirm(k, req)
  <2> DEFINE yes == [op |-> req.op, id |-> req.id, ok |-> TRUE, arg |-> req.arg]
             no == [op |-> req.op, id |-> req.id, ok |-> FALSE, arg |-> None]
             new == Reservation(k, req)
  <2>1. req.id \in RequestIds /\ req.arg \in Wishes
    BY <1>2, <1>6 DEF Request
  <2>2. yes \in Response /\ no \in Response
    BY <1>6, <2>1 DEF Response
  <2>3. UNCHANGED session
    BY <1>6 DEF Confirm
  <2>4. CASE answer' = [answer EXCEPT ![k] = no] /\ UNCHANGED bookings
    BY <1>1, <1>2, <1>6, <2>2, <2>3, <2>4 DEF TypeOK, NamesAccount, Dispatched, OncePerRequest
  <2>5. CASE /\ answer' = [answer EXCEPT ![k] = yes] /\ UNCHANGED bookings
             /\ \E b \in bookings : b.id = req.id
    BY <1>1, <1>2, <1>6, <2>2, <2>3, <2>5 DEF TypeOK, NamesAccount, Dispatched, OncePerRequest
  <2>6. CASE /\ answer' = [answer EXCEPT ![k] = yes] /\ bookings' = bookings \cup {new}
             /\ session[k] \in DOMAIN Accounts
             /\ ~\E b \in bookings : b.passenger = session[k] /\ b.id = req.id
    <3> DEFINE number == Cardinality(bookings)
    <3>1. /\ number \in Nat /\ IsFiniteSet(bookings \cup {new})
          /\ new = [res |-> number + 1, passenger |-> session[k], id |-> req.id, wish |-> req.arg]
      BY FS_CardinalityType, FS_AddElement DEF TypeOK, Reservation
    <3> HIDE DEF number
    <3>2. new \in Reservations
      BY <2>1, <2>6, <3>1 DEF Reservations
    <3>3. bookings' \subseteq Reservations /\ IsFiniteSet(bookings')
      BY <2>6, <3>1, <3>2 DEF TypeOK
    <3>4. \A b \in bookings' : b \in bookings \/ (b.id = req.id /\ b.wish = req.arg)
      BY <2>6, <3>1
    <3>5. new.id = req.id /\ new.passenger = session[k] /\ new \in bookings'
      BY <2>6, <3>1
    <3>6. OncePerRequest => OncePerRequest'
      BY <2>6, <3>5 DEF OncePerRequest
    <3>7. yes.op = req.op /\ yes.id = req.id /\ NamesAccount(yes) /\ yes.op # "LOGIN"
      BY <1>6 DEF NamesAccount
    <3>8. /\ session' \in [Conns -> DOMAIN Accounts \cup {None, "CLOSING"}]
          /\ session' = session
          /\ bookings \subseteq bookings'
          /\ req = Head(requests[k])
      BY <2>3, <2>6 DEF TypeOK
    <3> HIDE DEF new, yes, req
    <3> USE <1>2, <2>2
    <3> WITNESS req \in Request, yes \in Response
    <3> QED
      BY <1>1, <1>6, <2>6, <3>3, <3>4, <3>5, <3>6, <3>7, <3>8 DEF Dispatched
  <2> QED
    BY <1>6, <2>4, <2>5, <2>6 DEF Confirm, Allowed, Book, Reply
<1> QED
  BY <1>3, <1>4, <1>5, <1>6 DEF Handle

\* Types after a step of a goroutine, and what it writes.
LEMMA ServerTypes ==
  ASSUME TypeOK, AnswersOK, Untouched, NEW k \in Conns,
         Handle(k) \/ Write(k) \/ Stop(k) \/ Break(k)
  PROVE  TypeOK' /\ AnswersOK' /\ Untouched'
<1>1. k[1] \in Clients /\ k[2] \in Nat /\ opened[k[1]] \in Nat
  BY BoundsAssumption DEF TypeOK, Conns
<1>2. CASE Handle(k)
  <2>1. PICK req \in Request, resp \in Response : Dispatched(k, req, resp)
    BY <1>2, HandleFacts
  <2>2. /\ requests' = [requests EXCEPT ![k] = Tail(@)] /\ Tail(requests[k]) \in Seq(Request)
        /\ handler' = [handler EXCEPT ![k] = "writing"]
        /\ UNCHANGED <<clientVars, answers, hungUp, faultVars>>
    BY <1>2, <2>1, Taken DEF Handle, TypeOK, Dispatched
  <2>3. TypeOK'
    BY <2>1, <2>2 DEF TypeOK, Dispatched, clientVars, faultVars
  <2>4. AnswersOK'
    BY <2>1, <2>2 DEF TypeOK, Dispatched, AnswersOK, NamesAccount
  <2>5. Untouched'
    BY <1>1, <2>1, <2>2 DEF TypeOK, Dispatched, Untouched, clientVars, faultVars
  <2> QED
    BY <2>3, <2>4, <2>5
<1>3. CASE Write(k)
  <2>1. /\ answer[k] \in Response /\ NamesAccount(answer[k]) /\ handler[k] = "writing"
        /\ answers[k] \in Seq(Response)
    BY <1>3 DEF Write, AnswersOK, TypeOK
  <2>2. /\ answers' = [answers EXCEPT ![k] = answers'[k]] /\ answers'[k] \in Seq(Response)
        /\ \A n \in DOMAIN answers'[k] :
             (n \in DOMAIN answers[k] /\ answers'[k][n] = answers[k][n])
               \/ answers'[k][n] = answer[k]
    BY <1>3, <2>1, Added DEF Write, TypeOK
  <2>3. /\ handler' \in [Conns -> {"none", "reading", "writing", "ended"}]
        /\ handler'[k] \in {"reading", "ended"}
        /\ \A j \in Conns : j # k => handler'[j] = handler[j]
        /\ answer' = [answer EXCEPT ![k] = None]
        /\ UNCHANGED <<clientVars, requests, session, bookings, hungUp, faultVars>>
    BY <1>3 DEF Write, TypeOK
  <2>4. TypeOK'
    BY <2>2, <2>3 DEF TypeOK, clientVars, faultVars
  <2>5. AnswersOK'
    <3> SUFFICES ASSUME NEW j \in Conns
                 PROVE  /\ handler'[j] = "writing" =>
                             answer'[j] \in Response /\ NamesAccount(answer'[j])
                        /\ \A n \in DOMAIN answers'[j] : NamesAccount(answers'[j][n])
      BY DEF AnswersOK
    <3>1. CASE j = k
      <4>1. \A n \in DOMAIN answers[k] : NamesAccount(answers[k][n])
        BY DEF AnswersOK
      <4>2. \A n \in DOMAIN answers'[k] : NamesAccount(answers'[k][n])
        BY <2>1, <2>2, <4>1
      <4> QED
        BY <2>3, <3>1, <4>2
    <3>2. CASE j # k
      <4>1. answers'[j] = answers[j]
        BY <2>2, <3>2 DEF TypeOK
      <4>2. handler'[j] = handler[j]
        BY <2>3, <3>2
      <4>3. answer'[j] = answer[j]
        BY <2>3, <3>2 DEF TypeOK
      <4> QED
        BY <4>1, <4>2, <4>3 DEF AnswersOK
    <3> QED
      BY <3>1, <3>2
  <2>6. Untouched'
    BY <2>1, <2>2, <2>3 DEF TypeOK, Untouched, clientVars, faultVars
  <2> QED
    BY <2>4, <2>5, <2>6
<1>4. CASE Stop(k)
  <2>1. TypeOK'
    BY <1>4 DEF Stop, TypeOK, clientVars, faultVars
  <2>2. AnswersOK'
    BY <1>4 DEF Stop, TypeOK, AnswersOK, NamesAccount
  <2>3. Untouched'
    BY <1>4 DEF Stop, TypeOK, Untouched, clientVars, faultVars
  <2> QED
    BY <2>1, <2>2, <2>3
<1>5. CASE Break(k)
  <2>1. TypeOK'
    BY <1>5, Empty DEF Break, TypeOK, clientVars, faultVars
  <2>2. AnswersOK'
    BY <1>5, Empty DEF Break, TypeOK, AnswersOK, NamesAccount
  <2>3. Untouched'
    BY <1>5 DEF Break, Live, TypeOK, Untouched, clientVars, faultVars
  <2> QED
    BY <2>1, <2>2, <2>3
<1> QED
  BY <1>2, <1>3, <1>4, <1>5

\* The uses of requestIds there are.
LEMMA UsesFacts ==
  ASSUME TypeOK
  PROVE  /\ \A k \in Conns : \A n \in DOMAIN requests[k] :
              requests[k][n].op = "CONFIRM" =>
                <<requests[k][n].id, requests[k][n].arg>> \in Uses
         /\ \A b \in bookings : <<b.id, b.wish>> \in Uses
<1>1. ASSUME NEW k \in Conns, NEW n \in DOMAIN requests[k], requests[k][n].op = "CONFIRM"
      PROVE  <<requests[k][n].id, requests[k][n].arg>> \in Uses
  <2> DEFINE req == requests[k][n]
  <2>1. req \in Request
    BY DEF TypeOK
  <2>2. req.id \in RequestIds /\ req.arg \in Wishes /\ req = [op |-> "CONFIRM", id |-> req.id, arg |-> req.arg]
    BY <1>1, <2>1 DEF Request
  <2>3. Sent([op |-> "CONFIRM", id |-> req.id, arg |-> req.arg])
    BY <1>1, <2>2 DEF Sent
  <2> QED
    BY <2>2, <2>3 DEF Uses
<1>2. ASSUME NEW b \in bookings PROVE <<b.id, b.wish>> \in Uses
  BY DEF Uses, TypeOK, Reservations
<1> QED
  BY <1>1, <1>2

\* Where the one frame of an exchange is, nothing else is.
LEMMA OneFrame ==
  ASSUME TypeOK, NEW k \in Conns, NEW c, Exchange(c, k)
  PROVE  /\ requests[k] # << >> =>
              /\ call[c] # None /\ Len(requests[k]) = 1 /\ answers[k] = << >>
              /\ handler[k] # "writing"
         /\ answers[k] # << >> =>
              /\ call[c] # None /\ Len(answers[k]) = 1 /\ requests[k] = << >>
              /\ handler[k] # "writing"
         /\ handler[k] = "writing" =>
              call[c] # None /\ answers[k] = << >> /\ requests[k] = << >>
<1> DEFINE r == Len(requests[k])
           a == Len(answers[k])
           w == IF handler[k] = "writing" THEN 1 ELSE 0
           m == IF call[c] = None THEN 0 ELSE 1
<1>1. /\ r \in Nat /\ (requests[k] # << >> <=> r >= 1)
      /\ a \in Nat /\ (answers[k] # << >> <=> a >= 1)
  BY Counted DEF TypeOK
<1>2. r + a + w <= m
  BY DEF Exchange, Underway
<1>3. w \in {0, 1} /\ m \in {0, 1} /\ (w = 1 <=> handler[k] = "writing") /\ (m = 1 <=> call[c] # None)
  OBVIOUS
<1> HIDE DEF r, a, w, m
<1>4. /\ r >= 1 => m = 1 /\ r = 1 /\ a = 0 /\ w = 0
      /\ a >= 1 => m = 1 /\ a = 1 /\ r = 0 /\ w = 0
      /\ w = 1 => m = 1 /\ a = 0 /\ r = 0
  BY <1>1, <1>2, <1>3
<1> QED
  BY <1>1, <1>3, <1>4 DEF r, a

\* An exchange does not notice what happens elsewhere.
LEMMA ExchangeKept ==
  ASSUME NEW c, NEW k, Exchange(c, k), call'[c] = call[c], name'[c] = name[c],
         requests'[k] = requests[k], answers'[k] = answers[k], handler'[k] = handler[k],
         answer'[k] = answer[k], session'[k] = session[k], bookings \subseteq bookings'
  PROVE  Exchange(c, k)'
<1>1. Underway(k)' = Underway(k) /\ Live(k)' = Live(k)
  BY DEF Underway, Live
<1>2. \A resp : AnswerTo(resp, call[c], k) => AnswerTo(resp, call[c], k)'
  BY DEF AnswerTo
<1> QED
  BY <1>1, <1>2 DEF Exchange

\* A step of a goroutine in the exchange with its client.
LEMMA ServerExchange ==
  ASSUME IInv, NEW k \in Conns, Handle(k) \/ Write(k) \/ Stop(k) \/ Break(k)
  PROVE  Exchanges'
<1> TypeOK /\ AnswersOK /\ Idle /\ Exchanges /\ IdsOK
  BY DEF IInv
<1>1. UNCHANGED <<clientVars, faultVars>>
  BY DEF Handle, Write, Stop, Break
<1>2. SUFFICES ASSUME NEW c \in Clients, Exchange(c, Conn(c))
               PROVE  Exchange(c, Conn(c))'
  BY <1>1 DEF Exchanges, Conn, clientVars, faultVars
<1>3. bookings \subseteq bookings'
  BY HandleFacts DEF Dispatched, Write, Stop, Break
<1>4. PICK j \in Conns : j = Conn(c) /\ j = Conn(c)' /\ call'[c] = call[c] /\ name'[c] = name[c]
  BY <1>1, BoundsAssumption DEF Conn, Conns, TypeOK, clientVars
<1> SUFFICES Exchange(c, j)'
  BY <1>4
<1> Exchange(c, j)
  BY <1>2, <1>4
<1>5. CASE k # j
  <2>1. /\ requests'[j] = requests[j] /\ answers'[j] = answers[j]
        /\ handler'[j] = handler[j] /\ answer'[j] = answer[j] /\ session'[j] = session[j]
    <3>1. CASE Handle(k)
      <4>1. PICK req \in Request, resp \in Response : Dispatched(k, req, resp)
        BY <3>1, HandleFacts
      <4> QED
        BY <1>4, <1>5, <3>1, <4>1 DEF Handle, Dispatched, TypeOK
    <3>2. CASE Write(k) \/ Stop(k) \/ Break(k)
      BY <1>4, <1>5, <3>2 DEF Write, Stop, Break, TypeOK
    <3> QED
      BY <3>1, <3>2
  <2> QED
    BY <1>3, <1>4, <2>1, ExchangeKept
<1>6. CASE k = j
  <2>1. /\ requests[k] \in Seq(Request) /\ answers[k] \in Seq(Response)
        /\ Len(requests[k]) \in Nat /\ Len(answers[k]) \in Nat
    BY DEF TypeOK
  <2>2. Exchange(c, k)
    BY <1>6
  <2>3. CASE Handle(k)
    <3>1. PICK req \in Request, resp \in Response : Dispatched(k, req, resp)
      BY <2>3, HandleFacts
    <3>2. /\ Len(requests[k]) = 1 /\ answers[k] = << >> /\ call[c] # None
          /\ req = requests[k][1] /\ 1 \in DOMAIN requests[k] /\ req = call[c]
      BY <2>1, <2>2, <3>1, OneFrame, Taken DEF Exchange, Dispatched
    <3>3. /\ requests'[k] = << >> /\ answers'[k] = << >> /\ handler'[k] = "writing"
          /\ answer'[k] = resp
      <4>1. Tail(requests[k]) \in Seq(Request) /\ Len(Tail(requests[k])) = 0
        BY <2>1, <3>1, <3>2, Taken DEF Dispatched
      <4>2. Tail(requests[k]) = << >>
        BY <4>1, Counted
      <4> QED
        BY <2>3, <3>1, <3>2, <4>2 DEF Handle, Dispatched, TypeOK
    <3>4. AnswerTo(resp, req, k)'
      <4>1. ASSUME resp.op = "CONFIRM", resp.ok
            PROVE  \E b \in bookings' : b.wish = req.arg /\ b.id = req.id
        <5>1. PICK b \in bookings' : b.id = req.id
          BY <3>1, <4>1 DEF Dispatched
        <5>2. CASE b \in bookings
          <6>1. <<req.id, req.arg>> \in Uses /\ <<b.id, b.wish>> \in Uses
            BY <3>1, <3>2, <4>1, <5>2, UsesFacts DEF Dispatched
          <6>2. b.wish = req.arg
            BY <5>1, <6>1 DEF IdsOK
          <6> QED
            BY <5>1, <6>2
        <5>3. CASE b.wish = req.arg
          BY <5>1, <5>3
        <5> QED
          BY <3>1, <5>2, <5>3 DEF Dispatched
      <4> QED
        BY <3>1, <4>1 DEF AnswerTo, Dispatched
    <3>5. name[c] # None => session'[k] = name[c] \/ call[c].op = "LOGOUT"
      BY <2>2, <3>1, <3>2 DEF Exchange, Dispatched, Idle
    <3> QED
      BY <1>4, <1>6, <3>2, <3>3, <3>4, <3>5, Empty DEF Exchange, Underway, Live
  <2>4. CASE Write(k)
    <3>1. /\ call[c] # None /\ requests[k] = << >> /\ answers[k] = << >>
          /\ answer[k] \in Response /\ AnswerTo(answer[k], call[c], k)
      <4>1. handler[k] = "writing" /\ answer[k] \in Response
        BY <2>4 DEF Write, AnswersOK
      <4> QED
        BY <2>2, <4>1, OneFrame DEF Exchange
    <3>2. /\ Len(answers'[k]) <= 1 /\ Len(answers'[k]) \in Nat
          /\ \A n \in DOMAIN answers'[k] : answers'[k][n] = answer[k]
      <4>1. CASE answers'[k] = << >>
        BY <4>1, Empty
      <4>2. CASE answers'[k] = Append(<< >>, answer[k])
        BY <4>2, <3>1, Added, Empty
      <4> QED
        BY <2>4, <3>1, <4>1, <4>2 DEF Write, TypeOK
    <3>3. UNCHANGED <<requests, session, bookings>> /\ handler'[k] # "writing"
      BY <2>4 DEF Write, TypeOK
    <3>4. Underway(k)' <= 1
      <4>1. Len(requests'[k]) = 0
        BY <3>1, <3>3, Empty
      <4> QED
        BY <3>2, <3>3, <4>1 DEF Underway
    <3>5. \A n \in DOMAIN answers'[k] : AnswerTo(answers[k][n], call[c], k)'
      BY <1>4, <3>1, <3>2, <3>3 DEF AnswerTo
    <3> QED
      BY <1>4, <1>6, <2>2, <3>1, <3>3, <3>4, <3>5, Empty DEF Exchange
  <2>5. CASE Stop(k)
    <3>1. /\ UNCHANGED <<requests, answers, answer, session, bookings>>
          /\ requests[k] = << >> /\ handler[k] = "reading" /\ handler'[k] = "ended"
      BY <2>5 DEF Stop, TypeOK
    <3> QED
      BY <1>4, <1>6, <2>1, <2>2, <3>1 DEF Exchange, Underway, Live, AnswerTo
  <2>6. CASE Break(k)
    <3>1. /\ requests'[k] = << >> /\ answers'[k] = << >> /\ handler'[k] = "ended"
          /\ UNCHANGED session
      BY <2>6 DEF Break, TypeOK
    <3> QED
      BY <1>4, <1>6, <2>2, <3>1, Empty DEF Exchange, Underway, Live
  <2> QED
    BY <2>3, <2>4, <2>5, <2>6
<1> QED
  BY <1>5, <1>6

\* Frames that vanish, and reservations made of frames, use no requestId anew.
LEMMA NoNewUses ==
  ASSUME UNCHANGED attempt,
         \A k \in Conns : \A n \in DOMAIN requests'[k] :
           \E m \in DOMAIN requests[k] : requests'[k][n] = requests[k][m],
         \A b \in bookings' : b \in bookings \/ <<b.id, b.wish>> \in Uses
  PROVE  Uses' \subseteq Uses
<1> SUFFICES ASSUME NEW u \in Uses' PROVE u \in Uses
  OBVIOUS
<1>1. u \in RequestIds \X Wishes /\ u = <<u[1], u[2]>>
  BY DEF Uses
<1>2. CASE Sent([op |-> "CONFIRM", id |-> u[1], arg |-> u[2]])'
  <2>1. Sent([op |-> "CONFIRM", id |-> u[1], arg |-> u[2]])
    BY <1>2 DEF Sent
  <2> QED
    BY <1>1, <2>1 DEF Uses
<1>3. CASE \E b \in bookings' : b.id = u[1] /\ b.wish = u[2]
  <2>1. PICK b \in bookings' : b.id = u[1] /\ b.wish = u[2]
    BY <1>3
  <2>2. CASE b \in bookings
    BY <1>1, <2>1, <2>2 DEF Uses
  <2>3. CASE <<b.id, b.wish>> \in Uses
    BY <1>1, <2>1, <2>3
  <2> QED
    BY <2>2, <2>3
<1>4. CASE attempt'[<<u[1][1], u[2]>>] = u[1]
  BY <1>1, <1>4 DEF Uses
<1> QED
  BY <1>2, <1>3, <1>4 DEF Uses

\* With no new use, no new attempt and no new call the requestIds stay in order.
LEMMA IdsStay ==
  ASSUME TypeOK, IdsOK, Uses' \subseteq Uses, UNCHANGED <<attempt, sent>>,
         \A c \in Clients : call'[c] = call[c] \/ call'[c] = None
  PROVE  IdsOK'
<1>1. \A u \in Uses' : u[1][2] <= sent'[u[1][1]]
  BY DEF IdsOK
<1>2. \A u, v \in Uses' : u[1] = v[1] => u[2] = v[2]
  BY DEF IdsOK
<1> QED
  BY <1>1, <1>2 DEF IdsOK

\* Nor does a reservation that was made vanish, or a wish become done.
LEMMA BookedStays ==
  ASSUME OkMeansBookedUntilTimeout, bookings \subseteq bookings', late \subseteq late',
         UNCHANGED done
  PROVE  OkMeansBookedUntilTimeout'
<1> SUFFICES ASSUME NEW c \in Clients, \A k \in late' : k[1] # c, NEW w \in done[c]
             PROVE  \E b \in bookings' : b.wish = w /\ b.id[1] = c
  BY DEF OkMeansBookedUntilTimeout
<1> QED
  BY DEF OkMeansBookedUntilTimeout

\* A step of a goroutine and the requestIds.
LEMMA ServerIds ==
  ASSUME IInv, NEW k \in Conns, Handle(k) \/ Write(k) \/ Stop(k) \/ Break(k)
  PROVE  /\ IdsOK' /\ Idle' /\ OkMeansBookedUntilTimeout'
         /\ KeptIds => KeptIds'
<1> TypeOK /\ Idle /\ IdsOK /\ OkMeansBookedUntilTimeout
  BY DEF IInv
<1>1. UNCHANGED <<clientVars, faultVars>>
  BY DEF Handle, Write, Stop, Break
<1>2. ASSUME NEW j \in Conns, NEW n \in DOMAIN requests'[j]
      PROVE  \E m \in DOMAIN requests[j] : requests'[j][n] = requests[j][m]
  <2>1. CASE requests'[j] = requests[j]
    BY <1>2, <2>1
  <2>2. CASE requests'[j] = << >>
    BY <1>2, <2>2, Empty
  <2>3. CASE requests[j] # << >> /\ requests'[j] = Tail(requests[j])
    BY <1>2, <2>3, Taken DEF TypeOK
  <2> QED
    BY <2>1, <2>2, <2>3 DEF Handle, Write, Stop, Break, TypeOK
<1>3. /\ bookings \subseteq bookings'
      /\ \A b \in bookings' : b \in bookings \/
           \E n \in DOMAIN requests[k] :
             requests[k][n].op = "CONFIRM" /\ b.id = requests[k][n].id /\ b.wish = requests[k][n].arg
  <2>1. CASE Handle(k)
    <3>1. PICK req \in Request, resp \in Response : Dispatched(k, req, resp)
      BY <2>1, HandleFacts
    <3>2. 1 \in DOMAIN requests[k] /\ req = requests[k][1]
      BY <3>1, Taken DEF Dispatched, TypeOK
    <3> QED
      BY <3>1, <3>2 DEF Dispatched
  <2>2. CASE Write(k) \/ Stop(k) \/ Break(k)
    BY <2>2 DEF Write, Stop, Break
  <2> QED
    BY <2>1, <2>2
<1>4. Uses' \subseteq Uses
  <2>1. \A b \in bookings' : b \in bookings \/ <<b.id, b.wish>> \in Uses
    BY <1>3, UsesFacts
  <2> QED
    BY <1>1, <1>2, <2>1, NoNewUses DEF clientVars
<1>5. IdsOK'
  BY <1>1, <1>4, IdsStay DEF clientVars
<1>6. OkMeansBookedUntilTimeout'
  BY <1>1, <1>3, BookedStays DEF clientVars, faultVars
<1>7. Idle'
  BY <1>1 DEF Idle, clientVars
<1>8. ASSUME KeptIds PROVE KeptIds'
  <2>1. \A j \in Conns : \A n \in DOMAIN requests'[j] :
          requests'[j][n].op = "CONFIRM" => attempt'[<<j[1], requests'[j][n].arg>>] = requests'[j][n].id
    BY <1>1, <1>2, <1>8 DEF KeptIds, clientVars
  <2>2. ASSUME NEW b \in bookings' PROVE attempt'[<<b.id[1], b.wish>>] = b.id
    <3>1. CASE b \in bookings
      BY <1>1, <1>8, <3>1 DEF KeptIds, clientVars
    <3>2. CASE b \notin bookings
      <4>1. PICK n \in DOMAIN requests[k] :
              requests[k][n].op = "CONFIRM" /\ b.id = requests[k][n].id /\ b.wish = requests[k][n].arg
        BY <1>3, <3>2
      <4>2. requests[k][n] \in Request
        BY DEF TypeOK
      <4>3. b.id \in RequestIds /\ b.wish \in Wishes /\ k[1] \in Clients
        BY <4>1, <4>2 DEF Request, Conns
      <4>4. attempt[<<k[1], b.wish>>] = b.id
        BY <1>8, <4>1 DEF KeptIds
      <4>5. b.id[1] = k[1]
        BY <4>3, <4>4, NoneAssumption DEF IdsOK
      <4> QED
        BY <1>1, <4>4, <4>5 DEF clientVars
    <3> QED
      BY <3>1, <3>2
  <2> QED
    BY <2>1, <2>2 DEF KeptIds
<1> QED
  BY <1>5, <1>6, <1>7, <1>8

-----------------------------------------------------------------------------
(***************************************************************************)
(* The client sends.                                                       *)
(***************************************************************************)
\* Client c sends req on connection k, the one it has or a new one.
Sending(c, k, req) ==
  /\ c \notin quit /\ call[c] = None /\ sent[c] < MaxCalls
  /\ call' = [call EXCEPT ![c] = req]
  /\ sent' = [sent EXCEPT ![c] = @ + 1]
  /\ requests' = [requests EXCEPT ![k] = IF handler'[k] \in {"reading", "writing"}
                                         THEN Append(@, req) ELSE @]
  /\ UNCHANGED <<quit, name, done, answers, answer, session, bookings, hungUp, faultVars>>
  /\ \/ k = Conn(c) /\ c \notin lost /\ UNCHANGED <<opened, lost, handler>>
     \/ /\ k = <<c, opened[c] + 1>> /\ c \in lost /\ opened[c] < MaxConns
        /\ opened' = [opened EXCEPT ![c] = @ + 1]
        /\ handler' = [handler EXCEPT ![k] = "reading"]
        /\ lost' = lost \ {c}
  /\ req.op = "LOGIN" => name[c] = None
  /\ \/ req.op # "CONFIRM" /\ UNCHANGED attempt
     \/ /\ req.op = "CONFIRM"
        /\ attempt' = [attempt EXCEPT ![<<c, req.arg>>] = req.id]
        /\ \/ req.id = nextID(c) /\ (ResendSameId => attempt[<<c, req.arg>>] = None)
           \/ req.id = attempt[<<c, req.arg>>]

\* Every call is sent like that.
LEMMA SendFacts ==
  ASSUME TypeOK, NEW c \in Clients,
         \/ SendPing(c) \/ SendLogout(c)
         \/ \E u \in DOMAIN Accounts \cup {None} : SendLogin(c, u)
         \/ \E w \in Wishes : SendConfirm(c, w)
  PROVE  \E k \in Conns, req \in Request : Sending(c, k, req) /\ k = Conn(c)' /\ k[1] = c
<1>1. Conn(c) \in Conns /\ Conn(c)[1] = c
  BY BoundsAssumption DEF Conn, Conns, TypeOK
<1>2. sent[c] < MaxCalls => nextID(c) \in RequestIds
  BY BoundsAssumption DEF nextID, RequestIds, TypeOK
<1>3. CASE SendPing(c)
  <2> DEFINE req == [op |-> "PING", id |-> nextID(c), arg |-> None]
  <2>1. Send(c, Conn(c), "PING", nextID(c), None) /\ req \in Request
    BY <1>2, <1>3 DEF SendPing, Send, Request
  <2>2. Sending(c, Conn(c), req)
    BY <1>3, <2>1 DEF SendPing, Send, Sending
  <2> QED
    BY <1>1, <1>3, <2>1, <2>2 DEF SendPing, Conn
<1>4. CASE SendLogout(c)
  <2> DEFINE req == [op |-> "LOGOUT", id |-> nextID(c), arg |-> None]
  <2>1. Send(c, Conn(c), "LOGOUT", nextID(c), None) /\ req \in Request
    BY <1>2, <1>4 DEF SendLogout, Send, Request
  <2>2. Sending(c, Conn(c), req)
    BY <1>4, <2>1 DEF SendLogout, Send, Sending
  <2> QED
    BY <1>1, <1>4, <2>1, <2>2 DEF SendLogout, Conn
<1>5. ASSUME NEW u \in DOMAIN Accounts \cup {None}, SendLogin(c, u)
      PROVE  \E k \in Conns, req \in Request : Sending(c, k, req) /\ k = Conn(c)' /\ k[1] = c
  <2> DEFINE req == [op |-> "LOGIN", id |-> nextID(c), arg |-> u]
  <2>1. req \in Request
    BY <1>2, <1>5 DEF SendLogin, Send, Request
  <2>2. CASE c \notin lost
    <3>1. Sending(c, Conn(c), req)
      BY <1>5, <2>2 DEF SendLogin, Send, Sending
    <3> QED
      BY <1>1, <1>5, <2>1, <2>2, <3>1 DEF SendLogin, Conn
  <2>3. CASE c \in lost
    <3> DEFINE k == <<c, opened[c] + 1>>
    <3>1. Dial(c) /\ Send(c, k, "LOGIN", nextID(c), u)
      BY <1>5, <2>3 DEF SendLogin
    <3>2. k \in Conns /\ k[1] = c /\ k = Conn(c)'
      BY <3>1, BoundsAssumption DEF Dial, Conn, Conns, TypeOK
    <3>3. Sending(c, k, req)
      BY <1>5, <2>3, <3>1 DEF SendLogin, Dial, Send, Sending
    <3> QED
      BY <2>1, <3>2, <3>3
  <2> QED
    BY <2>2, <2>3
<1>6. ASSUME NEW w \in Wishes, SendConfirm(c, w)
      PROVE  \E k \in Conns, req \in Request : Sending(c, k, req) /\ k = Conn(c)' /\ k[1] = c
  <2> DEFINE again == ResendSameId /\ attempt[<<c, w>>] # None
             id == IF again THEN attempt[<<c, w>>] ELSE nextID(c)
             req == [op |-> "CONFIRM", id |-> id, arg |-> w]
  <2>1. Send(c, Conn(c), "CONFIRM", id, w)
    BY <1>6 DEF SendConfirm
  <2>2. attempt[<<c, w>>] \in RequestIds \cup {None}
    BY DEF TypeOK
  <2>3. id \in RequestIds
    BY <1>2, <2>1, <2>2 DEF Send
  <2>4. req \in Request
    BY <2>3 DEF Request
  <2>5. Sending(c, Conn(c), req)
    BY <1>6, <2>1, ResendAssumption DEF SendConfirm, Send, Sending
  <2> QED
    BY <1>1, <1>6, <2>4, <2>5 DEF SendConfirm, Conn
<1> QED
  BY <1>3, <1>4, <1>5, <1>6

\* Nothing is under way where a client sends, unless a call has timed out there.
LEMMA QuietBefore ==
  ASSUME IInv, NEW c \in Clients, NEW k \in Conns, NEW req \in Request, Sending(c, k, req),
         k \notin late
  PROVE  /\ requests[k] = << >> /\ answers[k] = << >> /\ handler'[k] # "writing"
         /\ name[c] # None => session[k] = name[c]
<1>1. CASE k = Conn(c) /\ c \notin lost /\ UNCHANGED handler
  <2>1. Exchange(c, k)
    BY <1>1 DEF IInv, Exchanges, Sending
  <2> QED
    BY <1>1, <2>1, OneFrame DEF IInv, Sending, Exchange
<1>2. CASE /\ k = <<c, opened[c] + 1>> /\ c \in lost
           /\ handler' = [handler EXCEPT ![k] = "reading"]
  <2>1. k[2] > opened[k[1]]
    BY <1>2, BoundsAssumption DEF IInv, TypeOK
  <2> QED
    BY <1>2, <2>1 DEF IInv, Untouched, Idle, TypeOK
<1> QED
  BY <1>1, <1>2 DEF Sending

\* Types after a call was sent.
LEMMA SendTypes ==
  ASSUME TypeOK, AnswersOK, Untouched, NEW c \in Clients, NEW k \in Conns, NEW req \in Request,
         Sending(c, k, req)
  PROVE  TypeOK' /\ AnswersOK' /\ Untouched'
<1>1. /\ \A j \in Conns : j # k => handler'[j] = handler[j] /\ requests'[j] = requests[j]
      /\ handler'[k] = handler[k] \/ (k = <<c, opened[c] + 1>> /\ handler'[k] = "reading")
      /\ handler' \in [Conns -> {"none", "reading", "writing", "ended"}]
      /\ opened' \in [Clients -> 1 .. MaxConns]
      /\ \A d \in Clients : opened[d] <= opened'[d]
  <2>1. CASE k = Conn(c) /\ UNCHANGED <<opened, handler>>
    BY <2>1, BoundsAssumption DEF TypeOK, Sending
  <2>2. CASE /\ k = <<c, opened[c] + 1>> /\ opened[c] < MaxConns
             /\ opened' = [opened EXCEPT ![c] = @ + 1]
             /\ handler' = [handler EXCEPT ![k] = "reading"]
    <3>1. opened[c] + 1 \in 1 .. MaxConns /\ opened[c] \in Nat
      BY <2>2, BoundsAssumption DEF TypeOK
    <3>2. opened' \in [Clients -> 1 .. MaxConns] /\ \A d \in Clients : opened[d] <= opened'[d]
      BY <2>2, <3>1, BoundsAssumption DEF TypeOK
    <3>3. \A j \in Conns : j # k => requests'[j] = requests[j]
      BY DEF TypeOK, Sending
    <3> QED
      BY <2>2, <3>2, <3>3 DEF TypeOK
  <2> QED
    BY <2>1, <2>2 DEF Sending
<1>2. requests' \in [Conns -> Seq(Request)]
  BY Added DEF TypeOK, Sending
<1>3. attempt' \in [Clients \X Wishes -> RequestIds \cup {None}]
  BY DEF TypeOK, Sending, Request
<1>4. sent' \in [Clients -> 0 .. MaxCalls] /\ call' \in [Clients -> Request \cup {None}]
  BY BoundsAssumption DEF TypeOK, Sending
<1>5. lost' \subseteq Clients
  BY DEF TypeOK, Sending
<1>6. TypeOK'
  BY <1>1, <1>2, <1>3, <1>4, <1>5 DEF TypeOK, Sending, faultVars
<1>7. AnswersOK'
  <2> SUFFICES ASSUME NEW j \in Conns
               PROVE  /\ handler'[j] = "writing" =>
                           answer'[j] \in Response /\ NamesAccount(answer'[j])
                      /\ \A n \in DOMAIN answers'[j] : NamesAccount(answers'[j][n])
    BY DEF AnswersOK
  <2>1. answer'[j] = answer[j] /\ answers'[j] = answers[j]
    BY DEF Sending
  <2>2. handler'[j] = handler[j] \/ handler'[j] = "reading"
    BY DEF Sending, TypeOK
  <2> QED
    BY <2>1, <2>2 DEF AnswersOK
<1>8. Untouched'
  <2> SUFFICES ASSUME NEW j \in Conns, j[2] > opened'[j[1]]
               PROVE  /\ handler'[j] = "none" /\ requests'[j] = << >> /\ answers'[j] = << >>
                      /\ j \notin late'
    BY DEF Untouched
  <2>1. j[2] > opened[j[1]]
    <3>1. j[1] \in Clients /\ j[2] \in Int
      BY BoundsAssumption DEF Conns
    <3>2. opened \in [Clients -> 1 .. MaxConns] /\ MaxConns \in Nat
      BY BoundsAssumption DEF TypeOK
    <3>3. opened[j[1]] \in Int /\ opened'[j[1]] \in Int
      BY <1>1, <3>1, <3>2
    <3>4. opened[j[1]] <= opened'[j[1]]
      BY <1>1, <3>1
    <3> QED
      BY <3>1, <3>3, <3>4
  <2>2. j # k
    <3>1. k[1] = c /\ k[2] <= opened'[c]
      BY BoundsAssumption DEF Sending, Conn, TypeOK
    <3> QED
      BY <1>1, <3>1, BoundsAssumption DEF TypeOK, Conns
  <2> QED
    BY <1>1, <2>1, <2>2 DEF Untouched, Sending, faultVars
<1> QED
  BY <1>6, <1>7, <1>8

\* The exchanges after a call was sent.
LEMMA SendExchange ==
  ASSUME IInv, NEW c \in Clients, NEW k \in Conns, NEW req \in Request, Sending(c, k, req),
         k = Conn(c)', k[1] = c
  PROVE  Exchanges'
<1> TypeOK /\ Exchanges /\ Idle
  BY DEF IInv
<1> SUFFICES ASSUME NEW d \in Clients, Conn(d)' \notin late, d \notin lost' \cup quit
             PROVE  Exchange(d, Conn(d))'
  BY DEF Exchanges, Sending, faultVars
<1>1. CASE d # c
  <2>1. PICK j \in Conns : j = Conn(d) /\ j = Conn(d)' /\ j # k /\ d \notin lost
    <3>1. opened \in [Clients -> 1 .. MaxConns]
      BY DEF TypeOK
    <3>2. opened'[d] = opened[d] /\ (d \in lost => d \in lost')
      BY <1>1, <3>1 DEF Sending
    <3>3. Conn(d) \in Conns /\ Conn(d)[1] = d
      BY <3>1 DEF Conn, Conns
    <3>4. Conn(d)' = Conn(d)
      BY <3>2 DEF Conn
    <3>5. PICK j : j = Conn(d)
      OBVIOUS
    <3>6. j \in Conns /\ j = Conn(d)' /\ j # k /\ d \notin lost
      BY <1>1, <3>2, <3>3, <3>4, <3>5
    <3> QED
      BY <3>5, <3>6
  <2>2. Exchange(d, j)
    BY <2>1 DEF Exchanges
  <2>3. /\ call'[d] = call[d] /\ name'[d] = name[d] /\ requests'[j] = requests[j]
        /\ answers'[j] = answers[j] /\ handler'[j] = handler[j] /\ answer'[j] = answer[j]
        /\ session'[j] = session[j] /\ bookings \subseteq bookings'
    BY <1>1, <2>1 DEF Sending, TypeOK
  <2>4. Exchange(d, j)'
    BY <2>2, <2>3, ExchangeKept
  <2> QED
    BY <2>1, <2>4
<1>2. CASE d = c
  <2>1. /\ requests[k] = << >> /\ answers[k] = << >> /\ handler'[k] # "writing"
        /\ name[c] # None => session[k] = name[c]
    BY <1>2, QuietBefore
  <2>2. UNCHANGED <<name, answers, answer, session, bookings>> /\ call'[c] = req
    BY DEF Sending, TypeOK
  <2>3. req # None
    BY NoneAssumption
  <2>4. CASE requests'[k] = << >>
    <3>1. Underway(k)' <= 1
      BY <2>1, <2>2, <2>4, Empty DEF Underway
    <3> QED
      BY <1>2, <2>1, <2>2, <2>3, <2>4, <3>1, Empty DEF Exchange
  <2>5. CASE handler'[k] \in {"reading", "writing"} /\ requests'[k] = Append(<< >>, req)
    <3>1. Len(requests'[k]) = 1 /\ \A n \in DOMAIN requests'[k] : requests'[k][n] = req
      BY <2>5, Added, Empty
    <3>2. Underway(k)' <= 1
      BY <2>1, <2>2, <3>1, Empty DEF Underway
    <3> QED
      BY <1>2, <2>1, <2>2, <2>3, <2>5, <3>1, <3>2, Empty DEF Exchange, Live
  <2> QED
    BY <2>1, <2>4, <2>5 DEF Sending, TypeOK
<1> QED
  BY <1>1, <1>2

\* A call adds its own frame, in the last place.
LEMMA SendFrames ==
  ASSUME TypeOK, NEW c \in Clients, NEW k \in Conns, NEW req \in Request, Sending(c, k, req)
  PROVE  \A j \in Conns : \A n \in DOMAIN requests'[j] :
           \/ n \in DOMAIN requests[j] /\ requests'[j][n] = requests[j][n]
           \/ j = k /\ requests'[j][n] = req
<1> SUFFICES ASSUME NEW j \in Conns, NEW n \in DOMAIN requests'[j]
             PROVE  \/ n \in DOMAIN requests[j] /\ requests'[j][n] = requests[j][n]
                    \/ j = k /\ requests'[j][n] = req
  OBVIOUS
<1>1. requests'[j] = requests[j] \/ (j = k /\ requests'[j] = Append(requests[j], req))
  BY DEF Sending, TypeOK
<1>2. requests[j] \in Seq(Request)
  BY DEF TypeOK
<1>3. CASE requests'[j] = requests[j]
  BY <1>3
<1>4. CASE j = k /\ requests'[j] = Append(requests[j], req)
  BY <1>2, <1>4, Added
<1> QED
  BY <1>1, <1>3, <1>4

\* The requestIds after a call was sent: only a CONFIRM uses one, and one that
\* is not the requestId of the last attempt was never used before.
LEMMA SendIds ==
  ASSUME IInv, NEW c \in Clients, NEW k \in Conns, NEW req \in Request, Sending(c, k, req),
         k = Conn(c)', k[1] = c
  PROVE  IdsOK' /\ Idle' /\ OkMeansBookedUntilTimeout'
<1> TypeOK /\ Idle /\ IdsOK /\ OkMeansBookedUntilTimeout
  BY DEF IInv
<1>1. \A d \in Clients : sent[d] <= sent'[d] /\ sent[d] \in Nat /\ sent'[d] \in Nat
  BY BoundsAssumption DEF Sending, TypeOK
<1>2. sent'[c] = sent[c] + 1 /\ call'[c] = req /\ \A d \in Clients : d # c => call'[d] = call[d]
  BY DEF Sending, TypeOK
<1>3. \A u \in Uses : u \in RequestIds \X Wishes /\ u[1] \in RequestIds /\ u[1][1] \in Clients /\ u[1][2] \in Nat
  BY DEF Uses, RequestIds
<1>4. ASSUME NEW u \in Uses'
      PROVE  u \in Uses \/ (req.op = "CONFIRM" /\ u = <<req.id, req.arg>>)
  <2>1. u \in RequestIds \X Wishes /\ u = <<u[1], u[2]>> /\ u[1] \in RequestIds
    BY DEF Uses
  <2>2. CASE Sent([op |-> "CONFIRM", id |-> u[1], arg |-> u[2]])'
    <3> DEFINE f == [op |-> "CONFIRM", id |-> u[1], arg |-> u[2]]
    <3>0. PICK j \in Conns : \E n \in DOMAIN requests'[j] : requests'[j][n] = f
      BY <2>2 DEF Sent
    <3>1. PICK n \in DOMAIN requests'[j] : requests'[j][n] = f
      BY <3>0
    <3>2. CASE f = req
      <4>1. req.op = "CONFIRM" /\ req.id = u[1] /\ req.arg = u[2]
        BY <3>2
      <4> QED
        BY <2>1, <4>1
    <3>3. CASE n \in DOMAIN requests[j] /\ requests[j][n] = f
      <4>1. Sent(f)
        BY <3>3 DEF Sent
      <4> QED
        BY <2>1, <4>1 DEF Uses
    <3> HIDE DEF f
    <3> QED
      BY <3>1, <3>2, <3>3, SendFrames
  <2>3. CASE \E b \in bookings' : b.id = u[1] /\ b.wish = u[2]
    BY <2>1, <2>3 DEF Uses, Sending
  <2>4. CASE attempt'[<<u[1][1], u[2]>>] = u[1]
    <3>1. CASE attempt[<<u[1][1], u[2]>>] = u[1]
      BY <2>1, <3>1 DEF Uses
    <3>2. CASE attempt[<<u[1][1], u[2]>>] # u[1]
      <4>1. /\ req.op = "CONFIRM" /\ <<u[1][1], u[2]>> = <<c, req.arg>>
            /\ attempt' = [attempt EXCEPT ![<<c, req.arg>>] = req.id]
        <5>1. <<u[1][1], u[2]>> \in Clients \X Wishes
          BY <2>1 DEF RequestIds
        <5>2. attempt'[<<u[1][1], u[2]>>] # attempt[<<u[1][1], u[2]>>]
          BY <2>4, <3>2
        <5>3. attempt' # attempt
          BY <5>2
        <5>4. req.op = "CONFIRM" /\ attempt' = [attempt EXCEPT ![<<c, req.arg>>] = req.id]
          BY <5>3 DEF Sending
        <5> QED
          BY <5>1, <5>2, <5>4 DEF TypeOK
      <4>2. <<c, req.arg>> \in Clients \X Wishes /\ u[2] = req.arg
        BY <4>1 DEF Request
      <4>3. u[1] = req.id
        BY <2>4, <4>1, <4>2 DEF TypeOK
      <4> QED
        BY <2>1, <4>1, <4>2, <4>3
    <3> QED
      BY <3>1, <3>2
  <2> QED
    BY <2>2, <2>3, <2>4 DEF Uses
<1>5. ASSUME req.op = "CONFIRM"
      PROVE  /\ req.id[1] = c /\ req.id[2] <= sent'[c]
             /\ \A u \in Uses : u[1] = req.id => u[2] = req.arg
             /\ attempt'[<<c, req.arg>>] = req.id
             /\ \A d \in Clients, w \in Wishes :
                  <<d, w>> # <<c, req.arg>> => attempt'[<<d, w>>] = attempt[<<d, w>>]
  <2>1. req.id \in RequestIds /\ req.arg \in Wishes /\ <<c, req.arg>> \in Clients \X Wishes
    BY <1>5 DEF Request
  <2>2. attempt' = [attempt EXCEPT ![<<c, req.arg>>] = req.id]
    BY <1>5 DEF Sending
  <2>3. CASE req.id = nextID(c)
    <3>1. req.id[1] = c /\ req.id[2] = sent[c] + 1
      BY <2>3 DEF nextID
    <3>2. \A u \in Uses : u[1] # req.id
      BY <1>1, <1>3, <3>1 DEF IdsOK
    <3> QED
      BY <1>1, <1>2, <2>1, <2>2, <3>1, <3>2 DEF TypeOK
  <2>4. CASE req.id = attempt[<<c, req.arg>>]
    <3>1. req.id # None
      BY <2>1, NoneAssumption
    <3>2. req.id[1] = c
      BY <2>1, <2>4, <3>1 DEF IdsOK
    <3>3. <<req.id, req.arg>> \in Uses
      BY <2>1, <2>4, <3>2 DEF Uses
    <3>4. req.id[2] <= sent[c] /\ req.id[2] \in Nat /\ \A u \in Uses : u[1] = req.id => u[2] = req.arg
      BY <3>2, <3>3, <1>3 DEF IdsOK
    <3>5. req.id[2] <= sent'[c]
      BY <1>1, <3>4
    <3> QED
      BY <2>1, <2>2, <3>2, <3>4, <3>5 DEF TypeOK
  <2> QED
    BY <1>5, <2>3, <2>4 DEF Sending
<1>6. IdsOK'
  <2>1. \A u \in Uses' : u[1][2] <= sent'[u[1][1]]
    <3> SUFFICES ASSUME NEW u \in Uses' PROVE u[1][2] <= sent'[u[1][1]]
      OBVIOUS
    <3>1. CASE u \in Uses
      BY <1>1, <1>3, <3>1 DEF IdsOK
    <3>2. CASE req.op = "CONFIRM" /\ u = <<req.id, req.arg>>
      BY <1>5, <3>2
    <3> QED
      BY <1>4, <3>1, <3>2
  <2>2. \A u, v \in Uses' : u[1] = v[1] => u[2] = v[2]
    BY <1>4, <1>5 DEF IdsOK
  <2>3. \A d \in Clients, w \in Wishes : attempt'[<<d, w>>] # None => attempt'[<<d, w>>][1] = d
    <3>1. CASE req.op = "CONFIRM"
      BY <1>5, <3>1 DEF IdsOK
    <3>2. CASE UNCHANGED attempt
      BY <3>2 DEF IdsOK
    <3> QED
      BY <3>1, <3>2 DEF Sending
  <2>4. ASSUME NEW d \in Clients, call'[d] # None /\ call'[d].op = "CONFIRM"
        PROVE  attempt'[<<d, call'[d].arg>>] = call'[d].id
    <3>1. CASE d = c
      BY <1>2, <1>5, <2>4, <3>1
    <3>2. CASE d # c
      <4>1. call[d] # None /\ call[d].op = "CONFIRM" /\ call'[d] = call[d] /\ call[d].arg \in Wishes
        BY <1>2, <2>4, <3>2 DEF TypeOK, Request
      <4>2. attempt'[<<d, call[d].arg>>] = attempt[<<d, call[d].arg>>]
        <5>1. CASE req.op = "CONFIRM"
          BY <1>5, <3>2, <4>1, <5>1
        <5> QED
          BY <5>1 DEF Sending
      <4> QED
        BY <4>1, <4>2 DEF IdsOK
    <3> QED
      BY <3>1, <3>2
  <2> QED
    BY <2>1, <2>2, <2>3, <2>4 DEF IdsOK
<1>7. Idle'
  <2> SUFFICES ASSUME NEW d \in Clients
               PROVE  /\ d \in lost' \cup quit' => call'[d] = None /\ name'[d] = None
                      /\ call'[d] # None /\ call'[d].op = "LOGIN" => name'[d] = None
    BY DEF Idle
  <2>1. CASE d = c
    <3>1. c \notin lost' \cup quit'
      BY DEF Sending
    <3> QED
      BY <1>2, <2>1, <3>1 DEF Sending
  <2>2. CASE d # c
    BY <1>2, <2>2 DEF Idle, Sending
  <2> QED
    BY <2>1, <2>2
<1>8. OkMeansBookedUntilTimeout'
  BY BookedStays DEF Sending, faultVars
<1> QED
  BY <1>6, <1>7, <1>8

\* When a CONFIRM keeps its requestId, what was sent before keeps it too.
LEMMA SendKept ==
  ASSUME ResendSameId, IInv, KeptIds, NEW c \in Clients, NEW k \in Conns, NEW req \in Request,
         Sending(c, k, req), k[1] = c
  PROVE  KeptIds'
<1> TypeOK
  BY DEF IInv
<1>1. ASSUME NEW d \in Clients, NEW w \in Wishes, attempt[<<d, w>>] # None
      PROVE  attempt'[<<d, w>>] = attempt[<<d, w>>]
  <2>1. CASE UNCHANGED attempt
    BY <2>1
  <2>2. CASE /\ attempt' = [attempt EXCEPT ![<<c, req.arg>>] = req.id]
             /\ req.id = attempt[<<c, req.arg>>] \/ attempt[<<c, req.arg>>] = None
    BY <1>1, <2>2 DEF TypeOK
  <2> QED
    BY <2>1, <2>2 DEF Sending
<1>2. ASSUME req.op = "CONFIRM" PROVE attempt'[<<k[1], req.arg>>] = req.id
  BY <1>2 DEF Sending, Request, TypeOK
<1>3. ASSUME NEW j \in Conns, NEW n \in DOMAIN requests'[j], requests'[j][n].op = "CONFIRM"
      PROVE  attempt'[<<j[1], requests'[j][n].arg>>] = requests'[j][n].id
  <2>1. CASE j = k /\ requests'[j][n] = req
    BY <1>2, <1>3, <2>1
  <2>2. CASE n \in DOMAIN requests[j] /\ requests'[j][n] = requests[j][n]
    <3> DEFINE f == requests[j][n]
    <3>1. f \in Request /\ j[1] \in Clients
      BY <2>2 DEF TypeOK, Conns
    <3>2. attempt[<<j[1], f.arg>>] = f.id /\ f.id \in RequestIds /\ f.arg \in Wishes
      BY <1>3, <2>2, <3>1 DEF KeptIds, Request
    <3> QED
      BY <1>1, <2>2, <3>1, <3>2, NoneAssumption
  <2> QED
    BY <2>1, <2>2, SendFrames
<1>4. ASSUME NEW b \in bookings' PROVE attempt'[<<b.id[1], b.wish>>] = b.id
  <2>1. b \in bookings /\ b.id \in RequestIds /\ b.wish \in Wishes /\ b.id[1] \in Clients
    BY DEF Sending, TypeOK, Reservations, RequestIds
  <2> QED
    BY <1>1, <2>1, NoneAssumption DEF KeptIds
<1> QED
  BY <1>3, <1>4 DEF KeptIds

-----------------------------------------------------------------------------
(***************************************************************************)
(* A call ends.                                                            *)
(***************************************************************************)
\* The call of c ends with resp and leaves rest to be read; without a timeout
\* on the connection resp is its answer and nothing is left.
Ending(c, resp, rest) ==
  /\ call[c] # None
  /\ resp \in Response \cup {None} /\ (resp # None => NamesAccount(resp))
  /\ rest \in Seq(Response) /\ \A n \in DOMAIN rest : NamesAccount(rest[n])
  /\ EndCall(c, resp, rest)
  /\ late' \in {late, late \cup {Conn(c)}} /\ torn' \subseteq late' /\ dead' \subseteq Conns
  /\ Conn(c) \notin late' =>
       /\ late' = late /\ rest = << >> /\ requests[Conn(c)] = << >>
       /\ handler[Conn(c)] # "writing"
       /\ resp # None => AnswerTo(resp, call[c], Conn(c))

\* Every call ends like that.
LEMMA EndFacts ==
  ASSUME IInv, NEW c \in Clients,
         Receive(c) \/ Timeout(c) \/ TimeoutMidFrame(c) \/ Garbled(c) \/ ReadError(c)
  PROVE  \E resp, rest : Ending(c, resp, rest)
<1> TypeOK /\ AnswersOK /\ Exchanges /\ Idle
  BY DEF IInv
<1> DEFINE k == Conn(c)
           frames == answers[k]
<1>1. k \in Conns /\ frames \in Seq(Response) /\ \A n \in DOMAIN frames : NamesAccount(frames[n])
  BY BoundsAssumption DEF Conn, Conns, TypeOK, AnswersOK
<1>2. call[c] # None
  BY DEF Receive, Timeout, TimeoutMidFrame, Garbled, ReadError
<1>3. k \notin late => Exchange(c, k)
  BY <1>2 DEF Exchanges, Idle
<1>4. CASE Receive(c)
  <2>1. /\ EndCall(c, Head(frames), Tail(frames)) /\ frames # << >>
        /\ UNCHANGED <<late, torn, dead>>
    BY <1>4 DEF Receive, faultVars
  <2>2. /\ Head(frames) \in Response /\ Head(frames) = frames[1] /\ 1 \in DOMAIN frames
        /\ Tail(frames) \in Seq(Response) /\ \A n \in DOMAIN Tail(frames) : NamesAccount(Tail(frames)[n])
    BY <1>1, <2>1, Taken
  <2>3. ASSUME k \notin late
        PROVE  /\ Tail(frames) = << >> /\ requests[k] = << >> /\ handler[k] # "writing"
               /\ AnswerTo(Head(frames), call[c], k)
    <3>1. requests[k] = << >> /\ handler[k] # "writing" /\ Len(frames) = 1
      BY <1>1, <1>3, <2>1, <2>3, OneFrame
    <3>2. Len(Tail(frames)) = 0
      BY <1>1, <2>1, <3>1, Taken
    <3>3. Tail(frames) = << >>
      BY <2>2, <3>2, Counted
    <3>4. AnswerTo(frames[1], call[c], k)
      BY <1>3, <2>2, <2>3 DEF Exchange
    <3> QED
      BY <2>2, <3>1, <3>3, <3>4
  <2>4. Ending(c, Head(frames), Tail(frames))
    BY <1>1, <1>2, <2>1, <2>2, <2>3 DEF Ending, TypeOK
  <2> QED
    BY <2>4
<1>5. CASE Timeout(c) \/ TimeoutMidFrame(c)
  <2>1. Ending(c, None, frames)
    BY <1>1, <1>2, <1>5 DEF Timeout, TimeoutMidFrame, Ending, TypeOK
  <2> QED
    BY <2>1
<1>6. CASE Garbled(c)
  <2>1. PICK n \in 0 .. Len(frames) :
          /\ EndCall(c, None, SubSeq(frames, n + 1, Len(frames)))
          /\ torn' \subseteq torn
    BY <1>6 DEF Garbled
  <2> DEFINE rest == SubSeq(frames, n + 1, Len(frames))
  <2>2. rest \in Seq(Response) /\ \A m \in DOMAIN rest : NamesAccount(rest[m])
    BY <1>1, Remainder
  <2>3. k \in late /\ UNCHANGED <<late, dead>>
    BY <1>6 DEF Garbled, TypeOK
  <2>4. Ending(c, None, rest)
    BY <1>2, <2>1, <2>2, <2>3 DEF Ending, TypeOK
  <2> QED
    BY <2>4
<1>7. CASE ReadError(c)
  <2>1. /\ EndCall(c, None, << >>) /\ ~Live(k) /\ torn' \subseteq torn /\ UNCHANGED late
        /\ dead' = dead \cup {k}
    BY <1>7 DEF ReadError
  <2>2. k \notin late => requests[k] = << >>
    BY <1>3, <2>1 DEF Exchange
  <2>3. handler[k] # "writing"
    BY <2>1 DEF Live
  <2>4. << >> \in Seq(Response) /\ \A n \in DOMAIN << >> : NamesAccount(<< >>[n])
    BY Empty
  <2>5. Ending(c, None, << >>)
    BY <1>1, <1>2, <2>1, <2>2, <2>3, <2>4 DEF Ending, TypeOK
  <2> QED
    BY <2>5
<1> QED
  BY <1>4, <1>5, <1>6, <1>7

\* Types after a call has ended.
LEMMA EndTypes ==
  ASSUME IInv, NEW c \in Clients, NEW resp, NEW rest, Ending(c, resp, rest)
  PROVE  TypeOK' /\ AnswersOK' /\ Untouched'
<1> TypeOK /\ AnswersOK /\ Untouched
  BY DEF IInv
<1> DEFINE k == Conn(c)
           new == <<c, opened[c] + 1>>
<1>1. k \in Conns /\ opened[c] \in Nat /\ call[c] \in Request
  BY BoundsAssumption DEF Conn, Conns, TypeOK, Ending
<1>2. /\ opened' \in [Clients -> 1 .. MaxConns] /\ lost' \subseteq Clients
      /\ \A d \in Clients : opened[d] <= opened'[d]
      /\ handler' \in [Conns -> {"none", "reading", "writing", "ended"}]
      /\ \A j \in Conns : handler'[j] = handler[j] \/ (j = new /\ handler'[j] = "reading" /\ opened'[c] = opened[c] + 1)
  <2>1. CASE UNCHANGED <<opened, handler>> /\ lost' \in {lost, lost \cup {c}}
    BY <2>1, BoundsAssumption DEF TypeOK
  <2>2. CASE Dial(c)
    <3>1. opened[c] + 1 \in 1 .. MaxConns
      BY <1>1, <2>2, BoundsAssumption DEF Dial
    <3>2. opened' \in [Clients -> 1 .. MaxConns] /\ opened'[c] = opened[c] + 1
          /\ \A d \in Clients : opened[d] <= opened'[d]
      BY <2>2, <3>1, BoundsAssumption DEF Dial, TypeOK
    <3> QED
      BY <2>2, <3>2 DEF Dial, TypeOK
  <2> QED
    BY <2>1, <2>2 DEF Ending, EndCall
<1>3. /\ answers' \in [Conns -> Seq(Response)]
      /\ \A j \in Conns : j # k => answers'[j] = answers[j]
      /\ answers'[k] \in {rest, << >>}
  <2>1. PICK q \in {rest, << >>} : answers' = [answers EXCEPT ![k] = q]
    BY DEF Ending, EndCall
  <2>2. rest \in Seq(Response) /\ << >> \in Seq(Response)
    BY Empty DEF Ending
  <2>3. answers \in [Conns -> Seq(Response)]
    BY DEF TypeOK
  <2> QED
    BY <1>1, <2>1, <2>2, <2>3
<1>4. /\ call' \in [Clients -> Request \cup {None}]
      /\ done' \in [Clients -> SUBSET Wishes]
  BY <1>1 DEF Ending, EndCall, TypeOK, Request
<1>5. name' \in [Clients -> DOMAIN Accounts \cup {None}]
  <2>1. resp # None /\ resp.ok => NameIn(resp) \in DOMAIN Accounts \cup {None}
    BY DEF Ending, NamesAccount, NameIn
  <2> QED
    BY <2>1 DEF Ending, EndCall, TypeOK
<1>6. late' \subseteq Conns /\ hungUp' \subseteq Conns
  BY <1>1 DEF Ending, EndCall, TypeOK
<1>7. TypeOK'
  BY <1>2, <1>3, <1>4, <1>5, <1>6 DEF Ending, EndCall, TypeOK
<1>8. AnswersOK'
  <2>1. \A n \in DOMAIN answers'[k] : NamesAccount(answers'[k][n])
    BY <1>3, Empty DEF Ending
  <2>2. UNCHANGED answer
    BY DEF Ending, EndCall
  <2> QED
    BY <1>2, <1>3, <2>1, <2>2 DEF AnswersOK
<1>9. Untouched'
  <2> SUFFICES ASSUME NEW j \in Conns, j[2] > opened'[j[1]]
               PROVE  /\ handler'[j] = "none" /\ requests'[j] = << >> /\ answers'[j] = << >>
                      /\ j \notin late'
    BY DEF Untouched
  <2>1. j[2] > opened[j[1]] /\ j[1] \in Clients
    BY <1>2, BoundsAssumption DEF TypeOK, Conns
  <2>2. j # k
    BY <1>1, <2>1 DEF Conn
  <2>3. handler'[j] = handler[j]
    BY <1>1, <1>2
  <2> QED
    BY <1>3, <2>1, <2>2, <2>3 DEF Untouched, Ending, EndCall
<1> QED
  BY <1>7, <1>8, <1>9

\* The exchanges after a call has ended.
LEMMA EndExchange ==
  ASSUME IInv, NEW c \in Clients, NEW resp, NEW rest, Ending(c, resp, rest)
  PROVE  Exchanges'
<1> TypeOK /\ Exchanges /\ Idle /\ Untouched
  BY DEF IInv
<1> SUFFICES ASSUME NEW d \in Clients, Conn(d)' \notin late', d \notin lost' \cup quit'
             PROVE  Exchange(d, Conn(d))'
  BY DEF Exchanges
<1>1. /\ late \subseteq late' /\ UNCHANGED <<quit, requests, answer, session, bookings>>
      /\ \A e \in Clients : e # c => /\ opened'[e] = opened[e] /\ call'[e] = call[e]
                                     /\ name'[e] = name[e] /\ (e \in lost <=> e \in lost')
      /\ call'[c] = None
  BY DEF Ending, EndCall, Dial, TypeOK
<1>2. \A j \in Conns : j[1] # c => answers'[j] = answers[j] /\ handler'[j] = handler[j]
  BY DEF Ending, EndCall, Dial, Conn, TypeOK
<1>3. CASE d # c
  <2>1. PICK j \in Conns : j = Conn(d) /\ j = Conn(d)' /\ j[1] # c
    BY <1>1, <1>3, BoundsAssumption DEF Conn, Conns, TypeOK
  <2>2. Exchange(d, j)
    BY <1>1, <1>3, <2>1 DEF Exchanges
  <2>3. Exchange(d, j)'
    BY <1>1, <1>2, <1>3, <2>1, <2>2, ExchangeKept
  <2> QED
    BY <2>1, <2>3
<1>4. CASE d = c /\ call[c].op # "LOGOUT"
  <2>1. PICK k \in Conns : /\ k = Conn(c) /\ k = Conn(c)' /\ k \notin late
                           /\ UNCHANGED <<lost, handler>>
    BY <1>1, <1>4, BoundsAssumption DEF Ending, EndCall, Conn, Conns, TypeOK
  <2>2. /\ late' = late /\ rest = << >> /\ requests[k] = << >> /\ handler[k] # "writing"
        /\ resp # None => AnswerTo(resp, call[c], k)
    BY <1>4, <2>1 DEF Ending
  <2>3. Exchange(c, k)
    BY <1>1, <1>4, <2>1 DEF Exchanges, Idle, Ending
  <2>4. answers'[k] = << >>
    BY <1>4, <2>1, <2>2 DEF Ending, EndCall, TypeOK
  <2>5. name'[c] # None => session[k] = name'[c]
    <3>1. CASE call[c].op = "LOGIN" /\ resp # None /\ resp.ok
      <4>1. name'[c] = NameIn(resp)
        BY <3>1 DEF Ending, EndCall, TypeOK
      <4> QED
        BY <2>2, <3>1, <4>1 DEF NameIn, AnswerTo
    <3>2. CASE ~(call[c].op = "LOGIN" /\ resp # None /\ resp.ok)
      <4>1. name'[c] = name[c]
        BY <1>4, <3>2 DEF Ending, EndCall, TypeOK
      <4> QED
        BY <1>4, <2>3, <4>1 DEF Exchange
    <3> QED
      BY <3>1, <3>2
  <2>6. Underway(k)' <= 0
    BY <1>1, <2>1, <2>2, <2>4, Empty DEF Underway
  <2>7. Exchange(c, k)'
    BY <1>1, <2>1, <2>2, <2>4, <2>5, <2>6, Empty DEF Exchange
  <2> QED
    BY <1>4, <2>1, <2>7
<1>5. CASE d = c /\ call[c].op = "LOGOUT"
  <2>1. Dial(c) /\ answers' = [answers EXCEPT ![Conn(c)] = << >>]
    BY <1>5 DEF Ending, EndCall
  <2>2. PICK k \in Conns : /\ k = <<c, opened[c] + 1>> /\ k = Conn(c)' /\ k # Conn(c)
                           /\ k[2] > opened[k[1]]
    <3>1. opened[c] \in Nat /\ opened[c] + 1 \in 1 .. MaxConns /\ opened'[c] = opened[c] + 1
      BY <2>1, BoundsAssumption DEF Dial, TypeOK
    <3>2. <<c, opened[c] + 1>> \in Conns
      BY <3>1 DEF Conns
    <3> QED
      BY <3>1, <3>2 DEF Conn
  <2>3. requests'[k] = << >> /\ answers'[k] = << >> /\ handler'[k] = "reading"
    BY <1>1, <2>1, <2>2 DEF Untouched, Dial, TypeOK
  <2>4. name'[c] = None
    BY <1>5 DEF Ending, EndCall, TypeOK
  <2>5. Underway(k)' <= 0
    BY <2>3, Empty DEF Underway
  <2>6. Exchange(c, k)'
    BY <1>1, <2>3, <2>4, <2>5, Empty DEF Exchange
  <2> QED
    BY <1>5, <2>2, <2>6
<1> QED
  BY <1>3, <1>4, <1>5

\* The requestIds, and what is done, after a call has ended.
LEMMA EndIds ==
  ASSUME IInv, NEW c \in Clients, NEW resp, NEW rest, Ending(c, resp, rest)
  PROVE  /\ IdsOK' /\ Idle' /\ OkMeansBookedUntilTimeout'
         /\ KeptIds => KeptIds'
<1> TypeOK /\ Idle /\ IdsOK /\ OkMeansBookedUntilTimeout
  BY DEF IInv
<1>1. /\ UNCHANGED <<quit, sent, attempt, requests, bookings>> /\ late \subseteq late'
      /\ call'[c] = None /\ \A d \in Clients : d # c => call'[d] = call[d] /\ name'[d] = name[d]
      /\ \A d \in lost' : d \in lost \/ d = c
  BY DEF Ending, EndCall, Dial, TypeOK
<1>2. IdsOK'
  <2>1. Uses' \subseteq Uses
    BY <1>1, NoNewUses
  <2> QED
    BY <1>1, <2>1, IdsStay
<1>3. Idle'
  <2> SUFFICES ASSUME NEW d \in Clients
               PROVE  /\ d \in lost' \cup quit' => call'[d] = None /\ name'[d] = None
                      /\ call'[d] # None /\ call'[d].op = "LOGIN" => name'[d] = None
    BY DEF Idle
  <2>1. CASE d # c
    BY <1>1, <2>1 DEF Idle
  <2>2. CASE d = c
    <3>1. c \notin lost \cup quit
      BY DEF Idle, Ending
    <3>2. ASSUME c \in lost' PROVE name'[c] = None
      <4>1. call[c].op = "LOGOUT"
        BY <3>1, <3>2 DEF Ending, EndCall
      <4> QED
        BY <4>1 DEF Ending, EndCall, TypeOK
    <3> QED
      BY <1>1, <2>2, <3>1, <3>2
  <2> QED
    BY <2>1, <2>2
<1>4. OkMeansBookedUntilTimeout'
  <2> SUFFICES ASSUME NEW d \in Clients, \A k \in late' : k[1] # d, NEW w \in done'[d]
               PROVE  \E b \in bookings' : b.wish = w /\ b.id[1] = d
    BY DEF OkMeansBookedUntilTimeout
  <2>1. CASE w \in done[d]
    BY <1>1, <2>1 DEF OkMeansBookedUntilTimeout
  <2>2. CASE w \notin done[d]
    <3>1. d = c /\ call[c].op = "CONFIRM" /\ resp # None /\ resp.ok /\ w = call[c].arg
      BY <2>2 DEF Ending, EndCall, TypeOK
    <3>2. Conn(c) \notin late'
      BY <3>1 DEF Conn
    <3>3. PICK b \in bookings : b.wish = w /\ b.id = call[c].id
      BY <3>1, <3>2 DEF Ending, AnswerTo
    <3>4. call[c] # None /\ call[c] \in Request
      BY DEF Ending, TypeOK
    <3>5. w \in Wishes /\ call[c].id \in RequestIds /\ attempt[<<c, w>>] = call[c].id
      BY <3>1, <3>4 DEF IdsOK, Request
    <3>6. b.id[1] = c
      BY <3>3, <3>5, NoneAssumption DEF IdsOK
    <3> QED
      BY <1>1, <3>1, <3>3, <3>6
  <2> QED
    BY <2>1, <2>2
<1>5. KeptIds => KeptIds'
  BY <1>1 DEF KeptIds
<1> QED
  BY <1>2, <1>3, <1>4, <1>5

-----------------------------------------------------------------------------
(***************************************************************************)
(* The client quits, and the whole specification.                          *)
(***************************************************************************)
\* A client that quits leaves its frames behind and is out of every exchange.
LEMMA QuitStep ==
  ASSUME IInv, NEW c \in Clients, Quit(c)
  PROVE  IInv' /\ (KeptIds => KeptIds')
<1> TypeOK /\ AnswersOK /\ Untouched /\ Idle /\ Exchanges /\ IdsOK /\ OkMeansBookedUntilTimeout
  BY DEF IInv
<1>1. /\ UNCHANGED <<opened, lost, sent, attempt, done, requests, handler, answer, session,
                       bookings, late, torn, dead>>
      /\ quit' = quit \cup {c} /\ call'[c] = None /\ name'[c] = None
      /\ \A d \in Clients : d # c => call'[d] = call[d] /\ name'[d] = name[d]
      /\ \A j \in Conns : answers'[j] = answers[j] \/ answers'[j] = << >>
      /\ \A j \in Conns : j[1] # c => answers'[j] = answers[j]
  BY DEF Quit, serverVars, faultVars, Conn, TypeOK
<1>2. Conn(c) \in Conns
  BY BoundsAssumption DEF Conn, Conns, TypeOK
<1>3. TypeOK'
  BY <1>2, Empty DEF Quit, serverVars, faultVars, TypeOK
<1>4. AnswersOK'
  <2> SUFFICES ASSUME NEW j \in Conns
               PROVE  /\ handler'[j] = "writing" =>
                           answer'[j] \in Response /\ NamesAccount(answer'[j])
                      /\ \A n \in DOMAIN answers'[j] : NamesAccount(answers'[j][n])
    BY DEF AnswersOK
  <2>1. handler'[j] = handler[j] /\ answer'[j] = answer[j]
    BY <1>1
  <2>2. answers'[j] = answers[j] \/ DOMAIN answers'[j] = {}
    BY <1>1, Empty
  <2> QED
    BY <2>1, <2>2 DEF AnswersOK
<1>5. Untouched'
  BY <1>1 DEF Untouched
<1>6. Idle'
  BY <1>1 DEF Idle
<1>7. Exchanges'
  <2> SUFFICES ASSUME NEW d \in Clients, Conn(d)' \notin late', d \notin lost' \cup quit'
               PROVE  Exchange(d, Conn(d))'
    BY DEF Exchanges
  <2>1. PICK j \in Conns : j = Conn(d) /\ j = Conn(d)' /\ j[1] # c
    <3>1. Conn(d) \in Conns
      BY BoundsAssumption DEF Conn, Conns, TypeOK
    <3>2. Conn(d)' = Conn(d) /\ Conn(d)[1] = d
      BY <1>1 DEF Conn
    <3>3. d # c
      BY <1>1
    <3>4. PICK j \in Conns : j = Conn(d)
      BY <3>1
    <3>5. j = Conn(d)' /\ j[1] # c
      BY <3>2, <3>3, <3>4
    <3> QED
      BY <3>4, <3>5
  <2>2. Exchange(d, j) /\ d # c
    <3>1. d # c /\ d \notin lost \cup quit
      BY <1>1
    <3>2. Conn(d) \notin late
      BY <1>1, <2>1
    <3> QED
      BY <2>1, <3>1, <3>2 DEF Exchanges
  <2>3. Exchange(d, j)'
    BY <1>1, <2>1, <2>2, ExchangeKept
  <2> QED
    BY <2>1, <2>3
<1>8. IdsOK'
  <2>1. Uses' \subseteq Uses
    BY <1>1, NoNewUses
  <2> QED
    BY <1>1, <2>1, IdsStay
<1>9. OkMeansBookedUntilTimeout'
  BY <1>1, BookedStays
<1>10. KeptIds => KeptIds'
  BY <1>1 DEF KeptIds
<1> QED
  BY <1>3, <1>4, <1>5, <1>6, <1>7, <1>8, <1>9, <1>10 DEF IInv

\* Nothing has been sent at first.
LEMMA InitInvariant == Init => IInv /\ KeptIds
<1> SUFFICES ASSUME Init PROVE IInv /\ KeptIds
  OBVIOUS
<1>1. TypeOK
  BY BoundsAssumption, Empty, FS_EmptySet DEF Init, TypeOK
<1>2. AnswersOK /\ Idle /\ OkMeansBookedUntilTimeout /\ KeptIds
  BY Empty DEF Init, AnswersOK, Idle, OkMeansBookedUntilTimeout, KeptIds
<1>3. Untouched
  BY BoundsAssumption DEF Init, Untouched, Conns
<1>4. Exchanges
  <2> SUFFICES ASSUME NEW c \in Clients PROVE Exchange(c, Conn(c))
    BY DEF Exchanges
  <2> <<c, 1>> \in Conns /\ Conn(c) = <<c, 1>>
    BY BoundsAssumption DEF Init, Conn, Conns
  <2>1. PICK k \in Conns : k = Conn(c)
    OBVIOUS
  <2>2. /\ requests[k] = << >> /\ answers[k] = << >> /\ handler[k] # "writing"
        /\ call[c] = None /\ name[c] = None
    BY DEF Init
  <2>3. Underway(k) <= 0
    BY <2>2, Empty DEF Underway
  <2>4. Exchange(c, k)
    BY <2>2, <2>3, Empty DEF Exchange
  <2> QED
    BY <2>1, <2>4
<1>5. IdsOK
  <2>1. ASSUME NEW u \in Uses PROVE FALSE
    <3>1. u \in RequestIds \X Wishes /\ u[1] \in RequestIds
      BY DEF Uses
    <3>2. ~Sent([op |-> "CONFIRM", id |-> u[1], arg |-> u[2]])
      BY Empty DEF Init, Sent
    <3>3. attempt[<<u[1][1], u[2]>>] = None
      BY <3>1 DEF Init, RequestIds
    <3> QED
      BY <3>1, <3>2, <3>3, NoneAssumption DEF Init, Uses
  <2> QED
    BY <2>1 DEF Init, IdsOK
<1> QED
  BY <1>1, <1>2, <1>3, <1>4, <1>5 DEF IInv

\* Nothing happens in a step that changes nothing.
LEMMA StutterStep ==
  ASSUME IInv, UNCHANGED vars
  PROVE  IInv' /\ (KeptIds => KeptIds')
<1> USE DEF vars, clientVars, serverVars, faultVars
<1>1. TypeOK' /\ AnswersOK' /\ Untouched' /\ Idle'
  BY DEF IInv, TypeOK, AnswersOK, Untouched, Idle
<1>2. Exchanges'
  <2> SUFFICES ASSUME NEW c \in Clients, Exchange(c, Conn(c)) PROVE Exchange(c, Conn(c))'
    BY DEF IInv, Exchanges, Conn
  <2>1. PICK k : k = Conn(c) /\ k = Conn(c)'
    BY DEF Conn
  <2>2. Exchange(c, k)'
    BY <2>1, ExchangeKept
  <2> QED
    BY <2>1, <2>2
<1>3. IdsOK' /\ OkMeansBookedUntilTimeout'
  <2>1. Uses' \subseteq Uses
    BY NoNewUses
  <2> QED
    BY <2>1, IdsStay, BookedStays DEF IInv
<1>4. KeptIds => KeptIds'
  BY DEF KeptIds
<1> QED
  BY <1>1, <1>2, <1>3, <1>4 DEF IInv

\* Every step keeps the inductive invariant, and the requestIds if the client does.
LEMMA NextInvariant ==
  ASSUME IInv, [Next]_vars
  PROVE  IInv' /\ (ResendSameId /\ KeptIds => KeptIds')
<1>1. ASSUME NEW k \in Conns, Handle(k) \/ Write(k) \/ Stop(k) \/ Break(k)
      PROVE  IInv' /\ (KeptIds => KeptIds')
  BY <1>1, ServerTypes, ServerExchange, ServerIds DEF IInv
<1>2. ASSUME NEW k \in Conns, EndOfFile(k) \/ IdleTimeout(k)
      PROVE  IInv' /\ (KeptIds => KeptIds')
  BY <1>1, <1>2 DEF EndOfFile, IdleTimeout
<1>3. ASSUME NEW c \in Clients,
             \/ SendPing(c) \/ SendLogout(c)
             \/ \E u \in DOMAIN Accounts \cup {None} : SendLogin(c, u)
             \/ \E w \in Wishes : SendConfirm(c, w)
      PROVE  IInv' /\ (ResendSameId /\ KeptIds => KeptIds')
  <2>1. PICK k \in Conns, req \in Request : Sending(c, k, req) /\ k = Conn(c)' /\ k[1] = c
    BY <1>3, SendFacts DEF IInv
  <2>2. TypeOK' /\ AnswersOK' /\ Untouched'
    BY <2>1, SendTypes DEF IInv
  <2> QED
    BY <2>1, <2>2, SendExchange, SendIds, SendKept DEF IInv
<1>4. ASSUME NEW c \in Clients,
             Receive(c) \/ Timeout(c) \/ TimeoutMidFrame(c) \/ Garbled(c) \/ ReadError(c)
      PROVE  IInv' /\ (KeptIds => KeptIds')
  <2>1. PICK resp, rest : Ending(c, resp, rest)
    BY <1>4, EndFacts
  <2> QED
    BY <2>1, EndTypes, EndExchange, EndIds DEF IInv
<1> QED
  BY <1>1, <1>2, <1>3, <1>4, QuitStep, StutterStep DEF Next

\* The inductive invariant holds always: types, one frame for each open call,
\* and each requestId used for one journey.
THEOREM SessionInvariant == Spec => []IInv
<1>1. Init => IInv
  BY InitInvariant
<1>2. IInv /\ [Next]_vars => IInv'
  BY NextInvariant
<1> QED
  BY <1>1, <1>2, PTL DEF Spec

\* All variables keep their types.
THEOREM TypeCorrect == Spec => []TypeOK
<1>1. IInv => TypeOK
  BY DEF IInv
<1> QED
  BY <1>1, SessionInvariant, PTL

\* Until a call times out on it, a connection carries one frame of its client's
\* open call and nothing else: requests and answers cannot get out of step.
THEOREM InStep == Spec => []InStepUntilTimeout
<1>1. IInv => InStepUntilTimeout
  <2> SUFFICES ASSUME IInv, NEW c \in Clients, Conn(c) \notin late, c \notin lost \cup quit
               PROVE  /\ InTransit(Conn(c)) \subseteq (IF call[c] = None THEN {} ELSE {call[c].id})
                      /\ Len(requests[Conn(c)]) + Len(answers[Conn(c)]) <= 1
    BY DEF InStepUntilTimeout
  <2>1. PICK k \in Conns : k = Conn(c)
    BY BoundsAssumption DEF IInv, TypeOK, Conn, Conns
  <2>2. Exchange(c, k) /\ TypeOK
    BY <2>1 DEF IInv, Exchanges
  <2>3. /\ requests[k] \in Seq(Request) /\ answers[k] \in Seq(Response)
        /\ requests[k] = << >> \/ answers[k] = << >>
        /\ requests[k] # << >> \/ answers[k] # << >> \/ handler[k] = "writing" => call[c] # None
    BY <2>2, OneFrame DEF TypeOK
  <2>4. Len(requests[k]) + Len(answers[k]) <= 1
    <3> DEFINE r == Len(requests[k])
               a == Len(answers[k])
    <3>1. r \in {0, 1} /\ a \in {0, 1} /\ (r = 0 \/ a = 0)
      BY <2>2, <2>3, OneFrame, Counted
    <3> HIDE DEF r, a
    <3>2. r + a <= 1
      BY <3>1
    <3> QED
      BY <3>2 DEF r, a
  <2>5. ASSUME NEW i \in InTransit(k) PROVE call[c] # None /\ i = call[c].id
    <3>1. ASSUME NEW n \in DOMAIN requests[k], i = requests[k][n].id
          PROVE  call[c] # None /\ i = call[c].id
      BY <2>2, <2>3, <3>1, Empty DEF Exchange
    <3>2. ASSUME NEW n \in DOMAIN answers[k], i = answers[k][n].id
          PROVE  call[c] # None /\ i = call[c].id
      BY <2>2, <2>3, <3>2, Empty DEF Exchange, AnswerTo
    <3>3. CASE handler[k] = "writing" /\ i = answer[k].id
      BY <2>2, <2>3, <3>3 DEF Exchange, AnswerTo
    <3> QED
      BY <3>1, <3>2, <3>3 DEF InTransit
  <2> QED
    BY <2>1, <2>4, <2>5
<1> QED
  BY <1>1, SessionInvariant, PTL

\* Until then the client's login is the one the server keeps.
THEOREM Mirrors == Spec => []MirrorsUntilTimeout
<1>1. IInv => MirrorsUntilTimeout
  <2> SUFFICES ASSUME IInv, NEW c \in Clients, Conn(c) \notin late, c \notin lost, name[c] # None
               PROVE  session[Conn(c)] = name[c] \/ (call[c] # None /\ call[c].op = "LOGOUT")
    BY DEF MirrorsUntilTimeout
  <2>1. Exchange(c, Conn(c))
    BY DEF IInv, Exchanges, Idle
  <2> QED
    BY <2>1 DEF Exchange
<1> QED
  BY <1>1, SessionInvariant, PTL

\* While none of a client's calls has timed out, what its user was told is
\* booked is in the store.
THEOREM OkIsBooked == Spec => []OkMeansBookedUntilTimeout
<1>1. IInv => OkMeansBookedUntilTimeout
  BY DEF IInv
<1> QED
  BY <1>1, SessionInvariant, PTL

\* A passenger's requestId makes one reservation, on whatever connections and
\* however often it is sent, and whether its answers arrive or not, for clients
\* that keep their requestIds and for those that draw new ones.
THEOREM SoldOnce == Spec => []OncePerRequest
<1>1. Init => OncePerRequest
  BY DEF Init, OncePerRequest
<1>2. IInv /\ OncePerRequest /\ [Next]_vars => OncePerRequest'
  <2> SUFFICES ASSUME TypeOK, OncePerRequest, [Next]_vars PROVE OncePerRequest'
    BY DEF IInv
  <2>1. CASE \E k \in Conns : Handle(k)
    BY <2>1, HandleFacts DEF Dispatched
  <2>2. CASE UNCHANGED bookings
    BY <2>2 DEF OncePerRequest
  <2>3. (\E k \in Conns : Handle(k)) \/ UNCHANGED bookings
    <3>1. ASSUME NEW k \in Conns, Write(k) \/ EndOfFile(k) \/ IdleTimeout(k) \/ Break(k)
          PROVE  UNCHANGED bookings
      BY <3>1 DEF Write, EndOfFile, IdleTimeout, Stop, Break
    <3>2. ASSUME NEW c \in Clients,
                 \/ SendPing(c) \/ SendLogout(c)
                 \/ \E u \in DOMAIN Accounts \cup {None} : SendLogin(c, u)
                 \/ \E w \in Wishes : SendConfirm(c, w)
          PROVE  UNCHANGED bookings
      BY <3>2 DEF SendPing, SendLogout, SendLogin, SendConfirm, Send
    <3>3. ASSUME NEW c \in Clients,
                 \/ Receive(c) \/ Timeout(c) \/ TimeoutMidFrame(c) \/ Garbled(c)
                 \/ ReadError(c) \/ Quit(c)
          PROVE  UNCHANGED bookings
      BY <3>3 DEF Receive, Timeout, TimeoutMidFrame, Garbled, ReadError, Quit, EndCall, serverVars
    <3>4. UNCHANGED vars => UNCHANGED bookings
      BY DEF vars, serverVars
    <3> QED
      BY <3>1, <3>2, <3>3, <3>4 DEF Next
  <2> QED
    BY <2>1, <2>2, <2>3
<1> QED
  BY <1>1, <1>2, SessionInvariant, PTL DEF Spec

\* A client that sends a CONFIRM again with its requestId gets the journey once,
\* whatever is lost, late or torn: the server finds the requestId in its index
\* (SoldOnce), and the client uses no other for the journey (KeptIds).  Of a
\* client that draws new ones only SoldOnce is true.
THEOREM BookedOnce == Spec => [](ResendSameId => OneBookingPerWish)
<1> DEFINE Kept == ResendSameId => KeptIds
<1>1. Init => Kept
  BY InitInvariant
<1>2. IInv /\ Kept /\ [Next]_vars => Kept'
  BY NextInvariant
<1>3. IInv /\ Kept /\ OncePerRequest => (ResendSameId => OneBookingPerWish)
  <2> SUFFICES ASSUME KeptIds, OncePerRequest, NEW x \in bookings, NEW y \in bookings,
                      x.passenger = y.passenger, x.wish = y.wish, x.id[1] = y.id[1]
               PROVE  x = y
    BY DEF OneBookingPerWish
  <2>1. x.id = y.id
    BY DEF KeptIds
  <2> QED
    BY <2>1 DEF OncePerRequest
<1> HIDE DEF Kept
<1> QED
  BY <1>1, <1>2, <1>3, SessionInvariant, SoldOnce, PTL DEF Spec
=============================================================================
