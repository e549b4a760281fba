------------------------------ MODULE Session -------------------------------
(***************************************************************************)
(* One TCP connection after another between a passenger's client and the   *)
(* server (src/internal/client, src/internal/server, cmd/passenger): one   *)
(* goroutine for each connection, the login kept with the connection, a    *)
(* client that has one call open at a time and gives up on it after a read *)
(* timeout, without closing the connection.                                *)
(*                                                                         *)
(* A frame is one message; a read given up in the middle of a frame leaves *)
(* the rest of it in the way of the next read.  Of the operations there    *)
(* are PING (no login), LOGIN, LOGOUT and CONFIRM (one for the operations  *)
(* that need a role).                                                      *)
(* The store is reduced to its reservations: a CONFIRM looks for one of    *)
(* the passenger with its requestId and otherwise adds one or refuses.     *)
(***************************************************************************)
EXTENDS Integers, Sequences, FiniteSets

CONSTANTS
  Clients,
  Accounts,     \* a map from usernames to roles
  Wishes,       \* journeys a user wants to book once
  MaxConns,     \* bound: connections a client opens
  MaxCalls,     \* bound: calls a client makes
  ResendSameId, \* a CONFIRM that failed is sent again with its requestId
  None

ASSUME BoundsAssumption == MaxConns \in Nat \ {0} /\ MaxCalls \in Nat

ASSUME ResendAssumption == ResendSameId \in BOOLEAN

Conns == Clients \X (1 .. MaxConns)

RequestIds == Clients \X (1 .. MaxCalls)

VARIABLES
  opened,    \* Client.conn: the connections a client has opened, the last is in use
  lost,      \* clients whose Client.conn is nil: reconnecting failed
  quit,      \* clients whose process has ended
  name,      \* Client.Name and Role: whom the client takes itself for, or None
  call,      \* the request a client waits for, or None
  sent,      \* Client.seq: calls made
  attempt,   \* the requestId a client last used for a wish, or None
  done,      \* the wishes a client was told are booked
  requests,  \* frames on their way to the server, by connection
  answers,   \* frames on their way back
  handler,   \* the goroutine of a connection: "none", "reading", "writing", "ended"
  answer,    \* what it is about to write
  session,   \* its Session: a username, None, or "CLOSING"
  hungUp,    \* connections closed by the client
  late,      \* connections on which a call has timed out
  torn,      \* those of which the client has read part of the next frame
  dead,      \* connections whose end a call has met
  bookings   \* Store.reservations: number, passenger, requestId, wish

clientVars == <<opened, lost, quit, name, call, sent, attempt, done>>

serverVars == <<handler, answer, session, bookings>>

faultVars == <<late, torn, dead>>

vars == <<clientVars, requests, answers, serverVars, hungUp, faultVars>>

Request == [op : {"PING", "LOGIN", "LOGOUT"}, id : RequestIds,
            arg : DOMAIN Accounts \cup {None}]
             \cup [op : {"CONFIRM"}, id : RequestIds, arg : Wishes]

\* None is the absence of a call or of a requestId.
ASSUME NoneAssumption == None \notin Request /\ None \notin RequestIds

Response == [op : {"PING", "LOGIN", "LOGOUT", "CONFIRM"}, id : RequestIds, ok : BOOLEAN,
             arg : DOMAIN Accounts \cup Wishes \cup {None}]

Reservations == [res : Nat, passenger : DOMAIN Accounts, id : RequestIds, wish : Wishes]

TypeOK ==
  /\ opened \in [Clients -> 1 .. MaxConns]
  /\ lost \subseteq Clients
  /\ quit \subseteq Clients
  /\ name \in [Clients -> DOMAIN Accounts \cup {None}]
  /\ call \in [Clients -> Request \cup {None}]
  /\ sent \in [Clients -> 0 .. MaxCalls]
  /\ attempt \in [Clients \X Wishes -> RequestIds \cup {None}]
  /\ done \in [Clients -> SUBSET Wishes]
  /\ requests \in [Conns -> Seq(Request)]
  /\ answers \in [Conns -> Seq(Response)]
  /\ handler \in [Conns -> {"none", "reading", "writing", "ended"}]
  /\ answer \in [Conns -> Response \cup {None}]
  /\ session \in [Conns -> DOMAIN Accounts \cup {None, "CLOSING"}]
  /\ hungUp \subseteq Conns
  /\ late \subseteq Conns
  /\ torn \subseteq late
  /\ dead \subseteq Conns
  /\ bookings \subseteq Reservations
  /\ IsFiniteSet(bookings)

\* The connection a client writes to and reads from.
Conn(c) == <<c, opened[c]>>

Live(k) == handler[k] \in {"reading", "writing"}

\* Every client has dialled once; the server has a goroutine for it.
Init ==
  /\ opened = [c \in Clients |-> 1]
  /\ lost = {}
  /\ quit = {}
  /\ name = [c \in Clients |-> None]
  /\ call = [c \in Clients |-> None]
  /\ sent = [c \in Clients |-> 0]
  /\ attempt = [cw \in Clients \X Wishes |-> None]
  /\ done = [c \in Clients |-> {}]
  /\ requests = [k \in Conns |-> << >>]
  /\ answers = [k \in Conns |-> << >>]
  /\ handler = [k \in Conns |-> IF k[2] = 1 THEN "reading" ELSE "none"]
  /\ answer = [k \in Conns |-> None]
  /\ session = [k \in Conns |-> None]
  /\ hungUp = {}
  /\ late = {}
  /\ torn = {}
  /\ dead = {}
  /\ bookings = {}

-----------------------------------------------------------------------------
(***************************************************************************)
(* The server's goroutine: read a frame, dispatch it, write the answer.    *)
(***************************************************************************)
Reply(k, req, ok, arg) ==
  answer' = [answer EXCEPT ![k] = [op |-> req.op, id |-> req.id, ok |-> ok, arg |-> arg]]

\* Mutant: the first login of a connection is the one that counts.
LoginOnce(k, req) ==
  /\ IF req.arg = None
     THEN Reply(k, req, FALSE, None) /\ UNCHANGED session
     ELSE /\ Reply(k, req, TRUE, req.arg)
          /\ session' = [session EXCEPT ![k] = IF @ = None THEN req.arg ELSE @]
  /\ UNCHANGED bookings

\* opLogin: only a success touches the Session.
Login(k, req) ==
  /\ IF req.arg = None
     THEN Reply(k, req, FALSE, None) /\ UNCHANGED session
     ELSE /\ Reply(k, req, TRUE, req.arg)
          /\ session' = [session EXCEPT ![k] = req.arg]
  /\ UNCHANGED bookings

Logout(k, req) ==
  /\ Reply(k, req, TRUE, None)
  /\ session' = [session EXCEPT ![k] = "CLOSING"]
  /\ UNCHANGED bookings

\* A reservation of the passenger of the session, with a reservationId of its own:
\* none is ever removed, so that their number serves as the next one.
Reservation(k, req) ==
  [res |-> Cardinality(bookings) + 1, passenger |-> session[k], id |-> req.id, wish |-> req.arg]

\* Mutant: confirmIndex is not looked into.
BookAgain(k, req) ==
  \/ Reply(k, req, TRUE, req.arg) /\ bookings' = bookings \cup {Reservation(k, req)}
  \/ Reply(k, req, FALSE, None) /\ UNCHANGED bookings

\* What the store may do with a CONFIRM of the passenger of the session: answer
\* with the reservation that has its requestId, make one, or refuse.
Book(k, req) ==
  LET again == \E b \in bookings : b.passenger = session[k] /\ b.id = req.id
  IN  \/ again /\ Reply(k, req, TRUE, req.arg) /\ UNCHANGED bookings
      \/ ~again /\ Reply(k, req, TRUE, req.arg) /\ bookings' = bookings \cup {Reservation(k, req)}
      \/ ~again /\ Reply(k, req, FALSE, None) /\ UNCHANGED bookings

\* require: logged in, and as a passenger.
Allowed(k) == session[k] \in DOMAIN Accounts /\ Accounts[session[k]] = "PASSENGER"

Confirm(k, req) ==
  /\ IF Allowed(k) THEN Book(k, req) ELSE Reply(k, req, FALSE, None) /\ UNCHANGED bookings
  /\ UNCHANGED session

Ping(k, req) == Reply(k, req, TRUE, None) /\ UNCHANGED <<session, bookings>>

\* ReadFrame and dispatch.
Handle(k) ==
  /\ handler[k] = "reading"
  /\ requests[k] # << >>
  /\ LET req == Head(requests[k])
     IN  \/ req.op = "PING" /\ Ping(k, req)
         \/ req.op = "LOGIN" /\ Login(k, req)
         \/ req.op = "LOGOUT" /\ Logout(k, req)
         \/ req.op = "CONFIRM" /\ Confirm(k, req)
  /\ requests' = [requests EXCEPT ![k] = Tail(@)]
  /\ handler' = [handler EXCEPT ![k] = "writing"]
  /\ UNCHANGED <<clientVars, answers, hungUp, faultVars>>

\* WriteFrame; after the answer to a LOGOUT the goroutine ends and closes.  A
\* write to a client that has hung up is lost or fails.
Write(k) ==
  /\ handler[k] = "writing"
  /\ answers' = [answers EXCEPT ![k] = IF k \in hungUp THEN @ ELSE Append(@, answer[k])]
  /\ \/ /\ session[k] # "CLOSING"
        /\ handler' = [handler EXCEPT ![k] = "reading"]
     \/ /\ session[k] = "CLOSING" \/ k \in hungUp
        /\ handler' = [handler EXCEPT ![k] = "ended"]
  /\ answer' = [answer EXCEPT ![k] = None]
  /\ UNCHANGED <<clientVars, requests, session, bookings, hungUp, faultVars>>

\* The goroutine stops reading.
Stop(k) ==
  /\ handler[k] = "reading"
  /\ requests[k] = << >>
  /\ handler' = [handler EXCEPT ![k] = "ended"]
  /\ UNCHANGED <<clientVars, requests, answers, answer, session, bookings, hungUp, faultVars>>

\* Mutant: the loop ends for the clients that have logged out, not at an error.
EndOfFileIgnored(k) == k \in hungUp /\ session[k] = "CLOSING" /\ Stop(k)

EndOfFile(k) == k \in hungUp /\ Stop(k)

\* No frame within the idle timeout.
IdleTimeout(k) == k \notin hungUp /\ Stop(k)

\* The network or the server process fails; nothing in transit arrives.
Break(k) ==
  /\ Live(k)
  /\ handler' = [handler EXCEPT ![k] = "ended"]
  /\ answer' = [answer EXCEPT ![k] = None]
  /\ requests' = [requests EXCEPT ![k] = << >>]
  /\ answers' = [answers EXCEPT ![k] = << >>]
  /\ UNCHANGED <<clientVars, session, bookings, hungUp, faultVars>>

-----------------------------------------------------------------------------
(***************************************************************************)
(* The client: Call and the menu around it.                                *)
(***************************************************************************)
\* Call, up to ReadFrame; what is written to a dead connection is lost.
Send(c, k, op, id, arg) ==
  LET req == [op |-> op, id |-> id, arg |-> arg]
  IN  /\ c \notin quit
      /\ call[c] = None
      /\ sent[c] < MaxCalls
      /\ call' = [call EXCEPT ![c] = req]
      /\ sent' = [sent EXCEPT ![c] = @ + 1]
      /\ requests' = [requests EXCEPT ![k] = IF handler'[k] \in {"reading", "writing"}
                                             THEN Append(@, req) ELSE @]
      /\ UNCHANGED <<quit, name, done, answers, answer, session, bookings, hungUp, faultVars>>

nextID(c) == <<c, sent[c] + 1>>

\* Reconnect, when the server can be reached.
Dial(c) ==
  /\ opened[c] < MaxConns
  /\ opened' = [opened EXCEPT ![c] = @ + 1]
  /\ handler' = [handler EXCEPT ![<<c, opened[c] + 1>>] = "reading"]
  /\ lost' = lost \ {c}

SendPing(c) ==
  /\ c \notin lost
  /\ UNCHANGED <<opened, lost, attempt, handler>>
  /\ Send(c, Conn(c), "PING", nextID(c), None)

\* Menu "entrar": u = None stands for a wrong name or password.
SendLogin(c, u) ==
  /\ name[c] = None
  /\ UNCHANGED attempt
  /\ \/ /\ c \notin lost
        /\ UNCHANGED <<opened, lost, handler>>
        /\ Send(c, Conn(c), "LOGIN", nextID(c), u)
     \/ /\ c \in lost
        /\ Dial(c)
        /\ Send(c, <<c, opened[c] + 1>>, "LOGIN", nextID(c), u)

SendLogout(c) ==
  /\ name[c] # None
  /\ c \notin lost
  /\ UNCHANGED <<opened, lost, attempt, handler>>
  /\ Send(c, Conn(c), "LOGOUT", nextID(c), None)

\* Mutant: the first CONFIRM of a wish carries the requestId of no call.
SendConfirmUnset(c, w) ==
  /\ name[c] # None
  /\ c \notin lost
  /\ w \notin done[c]
  /\ UNCHANGED <<opened, lost, handler, attempt>>
  /\ Send(c, Conn(c), "CONFIRM", attempt[<<c, w>>], w)

\* Menu "confirmar", until the user is told that the wish is booked.
SendConfirm(c, w) ==
  LET again == ResendSameId /\ attempt[<<c, w>>] # None
      id == IF again THEN attempt[<<c, w>>] ELSE nextID(c)
  IN  /\ name[c] # None
      /\ c \notin lost
      /\ w \notin done[c]
      /\ attempt' = [attempt EXCEPT ![<<c, w>>] = id]
      /\ UNCHANGED <<opened, lost, handler>>
      /\ Send(c, Conn(c), "CONFIRM", id, w)

\* Whom a client takes itself for when LOGIN succeeds: it reads the account
\* from whatever frame it was given, and turns other roles away.
NameIn(resp) ==
  IF resp.op = "LOGIN" /\ Accounts[resp.arg] = "PASSENGER" THEN resp.arg ELSE None

\* The end of a call: an answer, or None for an error; rest is what remains to
\* be read.  A client that has sent LOGOUT hangs up and dials again, whatever
\* the outcome.
EndCall(c, resp, rest) ==
  LET op == call[c].op
      k == Conn(c)
      ok == resp # None /\ resp.ok
  IN  /\ call' = [call EXCEPT ![c] = None]
      /\ name' = [name EXCEPT ![c] = IF op = "LOGIN" /\ ok THEN NameIn(resp)
                                     ELSE IF op = "LOGOUT" THEN None ELSE @]
      /\ done' = [done EXCEPT ![c] = IF op = "CONFIRM" /\ ok THEN @ \cup {call[c].arg} ELSE @]
      /\ \/ /\ op # "LOGOUT"
            /\ answers' = [answers EXCEPT ![k] = rest]
            /\ UNCHANGED <<opened, lost, handler, hungUp>>
         \/ /\ op = "LOGOUT"
            /\ answers' = [answers EXCEPT ![k] = << >>]
            /\ hungUp' = hungUp \cup {k}
            /\ \/ Dial(c)
               \/ lost' = lost \cup {c} /\ UNCHANGED <<opened, handler>>
      /\ UNCHANGED <<quit, sent, attempt, requests, answer, session, bookings>>

\* Mutant: the frame is read and left in the buffer.
ReceivePeek(c) ==
  /\ call[c] # None
  /\ Conn(c) \notin torn
  /\ answers[Conn(c)] # << >>
  /\ EndCall(c, Head(answers[Conn(c)]), answers[Conn(c)])
  /\ UNCHANGED faultVars

\* ReadFrame gives the next frame, which is taken for the answer.
Receive(c) ==
  /\ call[c] # None
  /\ Conn(c) \notin torn
  /\ answers[Conn(c)] # << >>
  /\ EndCall(c, Head(answers[Conn(c)]), Tail(answers[Conn(c)]))
  /\ UNCHANGED faultVars

\* The read deadline passes; the connection stays in use.
Timeout(c) ==
  /\ call[c] # None
  /\ late' = late \cup {Conn(c)}
  /\ EndCall(c, None, answers[Conn(c)])
  /\ UNCHANGED <<torn, dead>>

\* It passes after a part of the frame has been read, which io.ReadFull drops.
TimeoutMidFrame(c) ==
  /\ call[c] # None
  /\ answers[Conn(c)] # << >>
  /\ late' = late \cup {Conn(c)}
  /\ torn' = torn \cup {Conn(c)}
  /\ EndCall(c, None, answers[Conn(c)])
  /\ UNCHANGED dead

\* ReadFrame in the middle of a frame: four bytes of JSON make a length beyond
\* MAX_PAYLOAD, which ends the call at once, or, with a byte of the true length
\* among them, one that swallows what follows.  The call fails, and the next
\* read begins in the middle of some later frame, or at one, as it happens.
Garbled(c) ==
  /\ call[c] # None
  /\ Conn(c) \in torn
  /\ LET frames == answers[Conn(c)]
     IN  \E n \in 0 .. Len(frames) :
           /\ EndCall(c, None, SubSeq(frames, n + 1, Len(frames)))
           /\ \/ n < Len(frames) /\ UNCHANGED torn
              \/ n > 0 /\ torn' = torn \ {Conn(c)}
  /\ UNCHANGED <<late, dead>>

\* The server's end is gone and nothing is left to read.
ReadError(c) ==
  /\ call[c] # None
  /\ answers[Conn(c)] = << >>
  /\ ~Live(Conn(c))
  /\ EndCall(c, None, << >>)
  /\ dead' = dead \cup {Conn(c)}
  /\ torn' = torn \ {Conn(c)}
  /\ UNCHANGED late

\* Menu "sair", the end of the input, or the end of the process in the middle
\* of a call: the socket is closed, and LOGOUT is not sent.
Quit(c) ==
  /\ c \notin quit \cup lost
  /\ quit' = quit \cup {c}
  /\ hungUp' = hungUp \cup {Conn(c)}
  /\ answers' = [answers EXCEPT ![Conn(c)] = << >>]
  /\ call' = [call EXCEPT ![c] = None]
  /\ name' = [name EXCEPT ![c] = None]
  /\ UNCHANGED <<opened, lost, sent, attempt, done, requests, serverVars, faultVars>>

-----------------------------------------------------------------------------
Next ==
  \/ \E k \in Conns :
       Handle(k) \/ Write(k) \/ EndOfFile(k) \/ IdleTimeout(k) \/ Break(k)
  \/ \E c \in Clients :
       \/ SendPing(c) \/ SendLogout(c) \/ Receive(c) \/ Timeout(c) \/ TimeoutMidFrame(c)
       \/ Garbled(c) \/ ReadError(c) \/ Quit(c)
       \/ \E u \in DOMAIN Accounts \cup {None} : SendLogin(c, u)
       \/ \E w \in Wishes : SendConfirm(c, w)

\* The goroutines run, and a closed socket is read to its end.
Fairness ==
  \A k \in Conns : WF_vars(Handle(k)) /\ WF_vars(Write(k)) /\ WF_vars(EndOfFile(k))

Spec == Init /\ [][Next]_vars /\ Fairness

-----------------------------------------------------------------------------
\* A user who repeats a CONFIRM until it is answered gets one reservation,
\* whatever answers and connections are lost on the way: a CONFIRM that is still
\* on its way on the old connection when it is repeated on a new one, or whose
\* answer was lost, finds its own reservation in confirmIndex.  It takes both
\* that look into the index and a client that keeps the requestId (ResendSameId:
\* a caller of Call, as docs/CONCURRENCY.md has it); with a new one for every
\* call, as cmd/passenger draws them, it fails.
OneBookingPerWish ==
  \A x, y \in bookings :
    x.passenger = y.passenger /\ x.wish = y.wish /\ x.id[1] = y.id[1] => x = y

InTransit(k) ==
  {requests[k][n].id : n \in DOMAIN requests[k]} \cup {answers[k][n].id : n \in DOMAIN answers[k]}
    \cup (IF handler[k] = "writing" THEN {answer[k].id} ELSE {})

\* As long as no call of a connection has timed out, client and server are in
\* step: what is under way belongs to the open call, and nothing else is.
InStepUntilTimeout ==
  \A c \in Clients : Conn(c) \notin late /\ c \notin lost \cup quit =>
    /\ InTransit(Conn(c)) \subseteq (IF call[c] = None THEN {} ELSE {call[c].id})
    /\ Len(requests[Conn(c)]) + Len(answers[Conn(c)]) <= 1

\* As long, the client's idea of who is logged in is the server's.
MirrorsUntilTimeout ==
  \A c \in Clients :
    LET k == Conn(c)
    IN  k \notin late /\ c \notin lost /\ Live(k) /\ name[c] # None =>
          session[k] = name[c] \/ (call[c] # None /\ call[c].op = "LOGOUT")

\* As long as no call of a client has timed out, on any of its connections, a
\* reservation its user was told of exists: the answer the client believes is
\* the answer to this CONFIRM, and a requestId that was used before was used
\* for the same journey.
OkMeansBookedUntilTimeout ==
  \A c \in Clients : (\A k \in late : k[1] # c) =>
    \A w \in done[c] : \E b \in bookings : b.wish = w /\ b.id[1] = c

\* A reservation the user was told of exists.  (It need not: an answer that
\* comes after its timeout is taken for the answer of a later call.)
OkMeansBooked ==
  \A c \in Clients : \A w \in done[c] : \E b \in bookings : b.wish = w /\ b.id[1] = c

\* A user logs in on a connection that may be answered: one whose end a call
\* has met was replaced before.  (It is not: Login dials only when there is no
\* connection at all, and only Logout takes a dead one away.)
LoginOnFreshConnection ==
  \A c \in Clients : call[c] # None /\ call[c].op = "LOGIN" => Conn(c) \notin dead

\* The server lets go of every connection its client has closed.
LetGo == \A k \in Conns : k \in hungUp ~> handler[k] = "ended"
=============================================================================
