------------------------ MODULE SessionTunnelProofs ------------------------
(***************************************************************************)
(* What a Flow worker keeps for its peer and for its users.                *)
(*                                                                         *)
(* The two sides agree about authentication (Tunnel), for any number of    *)
(* connections, faults and packets.  Who holds which key is read off the   *)
(* MACs: a frame under way carries the key of its sender, and a receiver   *)
(* only goes on if that is its own.                                        *)
(*                                                                         *)
(* The session and NAT tables (SessionWorker) stay consistent for any      *)
(* ports, flows, timeouts and quarantines, and however many sessions and   *)
(* DNS transactions come and go.                                           *)
(***************************************************************************)
EXTENDS SessionWorker, Tunnel, SessionTableProofs

-----------------------------------------------------------------------------
(* The authentication. *)

AuthFields == {"client_nonce", "server_nonce", "authenticate_after_flush", "authenticated"}
IsAuth(a) ==
  /\ DOMAIN a = AuthFields
  /\ a.authenticate_after_flush \in BOOLEAN /\ a.authenticated \in BOOLEAN

IsConn(c) == DOMAIN c = {"gen", "auth", "expired"} /\ IsAuth(c.auth) /\ c.expired \in BOOLEAN

(* A frame made with a key. *)
MadeWith(k, f) == f.mac[1] = k

(* What the sides of a connection send. *)
UpFrame(f) == f.kind \in {"request", "confirm"} /\ MadeWith(key, f)
DownFrame(f, g) ==
  \/ f = Hello
  \/ /\ f.kind \in {"response", "complete"} /\ MadeWith(ServerKey, f)
     /\ f.kind = "complete" => g \in proven

-----------------------------------------------------------------------------
(* What an outcome r of the server says: it has authenticated only by a    *)
(* frame of its own key, which "made" stands for.                          *)
Judged(k, made, a, r) ==
  /\ IsAuth(r.auth) /\ r.now \in BOOLEAN
  /\ r.now => made /\ r.auth.authenticated
  /\ r.auth.authenticated => a.authenticated \/ r.now
  /\ a.authenticated => r.auth.authenticated
  /\ r.auth.authenticate_after_flush => made
  /\ r.reply # None =>
       /\ r.reply.kind \in {"response", "complete"} /\ MadeWith(k, r.reply)
       /\ r.reply.kind = "complete" => r.now

(* A frame carries the key it was made with. *)
LEMMA FrameIs ==
  ASSUME NEW k, NEW kind, NEW cn, NEW sn, NEW g
  PROVE  AuthFrame(k, kind, cn, sn, g).kind = kind /\ MadeWith(k, AuthFrame(k, kind, cn, sn, g))
BY Zenon DEF AuthFrame, MadeWith, Mac

(* handle_auth_frame of the server. *)
LEMMA HandleServer ==
  ASSUME NEW k, NEW g, NEW a, NEW f, NEW blocked \in BOOLEAN, IsAuth(a)
  PROVE  Judged(k, a.authenticate_after_flush \/ MadeWith(k, f), a,
                HandleAuthFrame("server", k, g, a, f, blocked))
<1> DEFINE h == HandleAuthFrame("server", k, g, a, f, blocked)
           made == a.authenticate_after_flush \/ MadeWith(k, f)
<1> SUFFICES Judged(k, made, a, h) BY Zenon
<1>1. CASE ~Expected("server", k, g, a, f)
  <2>1. h = [auth |-> a, reply |-> None, now |-> FALSE, lost |-> TRUE]
    BY <1>1, Zenon DEF HandleAuthFrame, Outcome
  <2>2. a.authenticate_after_flush => made BY Zenon
  <2> HIDE DEF h, made
  <2>3. h.auth = a /\ h.now = FALSE /\ h.reply = None BY <2>1, Zenon
  <2> QED BY <2>2, <2>3, Zenon DEF Judged, IsAuth
<1>2. CASE Expected("server", k, g, a, f)
  <2>1. made /\ f.kind \in {"request", "confirm"}
    BY <1>2 DEF Expected, MadeWith, Mac
  <2>2. CASE f.kind = "request"
    <3> DEFINE b == [a EXCEPT !.client_nonce = f.client_nonce, !.server_nonce = g]
               q == AuthFrame(k, "response", f.client_nonce, g, g)
    <3>1. h = [auth |-> b, reply |-> q, now |-> FALSE, lost |-> FALSE]
      BY <1>2, <2>2, Zenon DEF HandleAuthFrame, Outcome
    <3>2. IsAuth(b) /\ b.authenticated = a.authenticated
      BY Zenon DEF IsAuth, AuthFields
    <3>3. q.kind = "response" /\ MadeWith(k, q) BY FrameIs, Zenon
    <3> HIDE DEF h, made, b, q
    <3>4. h.auth = b /\ h.now = FALSE /\ h.reply = q BY <3>1, Zenon
    <3> QED BY <2>1, <3>2, <3>3, <3>4, Zenon DEF Judged
  <2>3. CASE f.kind = "confirm" /\ blocked
    <3> DEFINE b == [a EXCEPT !.authenticate_after_flush = TRUE]
    <3>1. h = [auth |-> b, reply |-> None, now |-> FALSE, lost |-> FALSE]
      BY <1>2, <2>3, Zenon DEF HandleAuthFrame, Outcome
    <3>2. IsAuth(b) /\ b.authenticated = a.authenticated
      BY Zenon DEF IsAuth, AuthFields
    <3> HIDE DEF h, made, b
    <3>3. h.auth = b /\ h.now = FALSE /\ h.reply = None BY <3>1, Zenon
    <3> QED BY <2>1, <3>2, <3>3, Zenon DEF Judged
  <2>4. CASE f.kind = "confirm" /\ ~blocked
    <3> DEFINE b == [a EXCEPT !.authenticated = TRUE]
               q == AuthFrame(k, "complete", f.client_nonce, f.server_nonce, g)
    <3>1. h = [auth |-> b, reply |-> q, now |-> TRUE, lost |-> FALSE]
      BY <1>2, <2>4, Zenon DEF HandleAuthFrame, Outcome
    <3>2. IsAuth(b) /\ b.authenticated = TRUE
      BY Zenon DEF IsAuth, AuthFields
    <3>3. q.kind = "complete" /\ MadeWith(k, q) BY FrameIs, Zenon
    <3> HIDE DEF h, made, b, q
    <3>4. h.auth = b /\ h.now = TRUE /\ h.reply = q BY <3>1, Zenon
    <3> QED BY <2>1, <3>2, <3>3, <3>4, Zenon DEF Judged
  <2> QED BY <2>1, <2>2, <2>3, <2>4, Zenon
<1> QED BY <1>1, <1>2, Zenon

(* Nothing happens, or the frame that waited is flushed. *)
LEMMA UnchangedIs ==
  ASSUME NEW k, NEW a, IsAuth(a)
  PROVE  Judged(k, a.authenticate_after_flush, a, Outcome(a, None, FALSE, FALSE))
<1> DEFINE r == Outcome(a, None, FALSE, FALSE)
<1>1. r.auth = a /\ r.now = FALSE /\ r.reply = None BY Zenon DEF Outcome
<1> SUFFICES Judged(k, a.authenticate_after_flush, a, r) BY Zenon
<1> HIDE DEF r
<1> QED BY <1>1, Zenon DEF Judged, IsAuth

(* flush_auth_stream of the server: the frame that waited was made with its key. *)
LEMMA FlushServer ==
  ASSUME NEW k, NEW g, NEW a, IsAuth(a)
  PROVE  Judged(k, a.authenticate_after_flush, a, Flush(k, g, a))
<1>1. CASE ~a.authenticate_after_flush
  <2>1. Flush(k, g, a) = Outcome(a, None, FALSE, FALSE) BY <1>1, Zenon DEF Flush
  <2> QED BY <2>1, UnchangedIs, Zenon
<1>2. CASE a.authenticate_after_flush
  <2> DEFINE b == [a EXCEPT !.authenticate_after_flush = FALSE, !.authenticated = TRUE]
             q == AuthFrame(k, "complete", a.client_nonce, a.server_nonce, g)
             h == Flush(k, g, a)
  <2>1. h = [auth |-> b, reply |-> q, now |-> TRUE, lost |-> FALSE]
    BY <1>2, Zenon DEF Flush, Outcome
  <2>2. IsAuth(b) /\ b.authenticated = TRUE BY Zenon DEF IsAuth, AuthFields
  <2>3. q.kind = "complete" /\ MadeWith(k, q) BY FrameIs, Zenon
  <2> SUFFICES Judged(k, a.authenticate_after_flush, a, h) BY Zenon
  <2> HIDE DEF h, b, q
  <2>4. h.auth = b /\ h.now = TRUE /\ h.reply = q BY <2>1, Zenon
  <2> QED BY <1>2, <2>2, <2>3, <2>4, Zenon DEF Judged
<1> QED BY <1>1, <1>2, Zenon DEF IsAuth

-----------------------------------------------------------------------------
(* A drive of a connection of the server: as Judged, for all that it did.  *)
Drove(k, made, c, d) ==
  /\ IsConn(d.conn) /\ d.conn.gen = c.gen /\ d.now \in BOOLEAN
  /\ d.now => made /\ d.conn.auth.authenticated
  /\ d.conn.auth.authenticated => c.auth.authenticated \/ d.now
  /\ c.auth.authenticated => d.conn.auth.authenticated
  /\ d.conn.auth.authenticate_after_flush => made
  /\ \A f \in d.replies :
       /\ f.kind \in {"response", "complete"} /\ MadeWith(k, f)
       /\ f.kind = "complete" => d.now

(* A connection or its input shows the server's own key. *)
Shown(c, i) ==
  \/ c.auth.authenticate_after_flush
  \/ i.frame # None /\ MadeWith(ServerKey, i.frame)

(* drive_connection of the server. *)
LEMMA DriveOfServer ==
  ASSUME NEW c, NEW i, IsConn(c), i.frame = None \/ i.frame # Hello, i.blocked \in BOOLEAN
  PROVE  Drove(ServerKey, Shown(c, i), c, DriveConnection("server", ServerKey, c, i))
<1> DEFINE k == ServerKey
           r == Taken("server", k, c, i)
           lost == i.lost \/ r.lost \/ (c.expired /\ ~c.auth.authenticated)
           f == IF lost \/ i.blocked THEN Outcome(r.auth, None, FALSE, FALSE)
                                     ELSE Flush(k, c.gen, r.auth)
           made == Shown(c, i)
           e == [c EXCEPT !.auth = f.auth]
           d == DriveConnection("server", k, c, i)
<1>1. IsAuth(c.auth) BY Zenon DEF IsConn
<1>2. Judged(k, made, c.auth, r)
  <2>1. CASE i.frame = None
    <3>1. r = Outcome(c.auth, None, FALSE, FALSE) BY <2>1, Zenon DEF Taken
    <3>2. Judged(k, c.auth.authenticate_after_flush, c.auth, r) BY <3>1, <1>1, UnchangedIs, Zenon
    <3>3. c.auth.authenticate_after_flush => made BY Zenon DEF Shown
    <3> HIDE DEF r, made, k
    <3> QED BY <3>2, <3>3, Zenon DEF Judged
  <2>2. CASE i.frame # None
    <3>1. r = HandleAuthFrame("server", k, c.gen, c.auth, i.frame, i.blocked)
      BY <2>2, Zenon DEF Taken
    <3>2. Judged(k, c.auth.authenticate_after_flush \/ MadeWith(k, i.frame), c.auth, r)
      BY <3>1, <1>1, HandleServer, Zenon
    <3>3. c.auth.authenticate_after_flush \/ MadeWith(k, i.frame) => made
      BY <2>2, Zenon DEF Shown
    <3> HIDE DEF r, made, k
    <3> QED BY <3>2, <3>3, Zenon DEF Judged
  <2> QED BY <2>1, <2>2, Zenon
<1>3. IsAuth(r.auth) BY <1>2, Zenon DEF Judged
<1>4. Judged(k, r.auth.authenticate_after_flush, r.auth, f)
  <2>1. f = Outcome(r.auth, None, FALSE, FALSE) \/ f = Flush(k, c.gen, r.auth) BY Zenon
  <2> HIDE DEF r, f, k
  <2> QED BY <1>3, <2>1, UnchangedIs, FlushServer, Zenon
<1>5. d = [conn |-> e, replies |-> {r.reply, f.reply} \ {None},
           now |-> r.now \/ f.now, lost |-> lost]
  BY Zenon DEF DriveConnection
<1> SUFFICES Drove(k, made, c, d) BY Zenon
<1> HIDE DEF r, lost, f, made, d, k
<1>6. IsConn(e) /\ e.gen = c.gen /\ e.auth = f.auth BY <1>4, Zenon DEF IsConn, Judged
<1> HIDE DEF e
<1>7. d.conn = e /\ d.replies = {r.reply, f.reply} \ {None} /\ d.now = (r.now \/ f.now)
  BY <1>5, Zenon
<1>8. \A x \in d.replies : /\ x.kind \in {"response", "complete"} /\ MadeWith(k, x)
                           /\ x.kind = "complete" => d.now
  BY <1>2, <1>4, <1>7, Zenon DEF Judged
<1> QED BY <1>2, <1>4, <1>6, <1>7, <1>8, Zenon DEF Drove, Judged

-----------------------------------------------------------------------------
(* A drive of the client: it has authenticated only by a "complete" made   *)
(* with its own key, and sends frames made with that key.                  *)
Followed(k, c, i, d) ==
  /\ IsConn(d.conn) /\ d.conn.gen = c.gen /\ ~d.conn.auth.authenticate_after_flush
  /\ d.conn.auth.authenticated =>
       c.auth.authenticated \/ (i.frame # None /\ i.frame.kind = "complete" /\ MadeWith(k, i.frame))
  /\ \A f \in d.replies : f.kind \in {"request", "confirm"} /\ MadeWith(k, f)

(* The same of handle_auth_frame and of the end of the handshake. *)
Answered(k, c, i, r) ==
  /\ IsAuth(r.auth) /\ ~r.auth.authenticate_after_flush
  /\ r.auth.authenticated =>
       c.auth.authenticated \/ (i.frame # None /\ i.frame.kind = "complete" /\ MadeWith(k, i.frame))
  /\ r.reply # None => r.reply.kind \in {"request", "confirm"} /\ MadeWith(k, r.reply)

(* handle_auth_frame and start_client_authentication of the client. *)
LEMMA HandleClient ==
  ASSUME NEW k, NEW c, NEW i, IsConn(c), ~c.auth.authenticate_after_flush
  PROVE  Answered(k, c, i, Taken("client", k, c, i))
<1> DEFINE a == c.auth
           f == i.frame
           r == Taken("client", k, c, i)
<1> SUFFICES Answered(k, c, i, r) BY Zenon
<1>0. IsAuth(a) BY Zenon DEF IsConn
<1>1. CASE f = None \/ (f # Hello /\ ~Expected("client", k, c.gen, a, f))
  <2>1. r.auth = a /\ r.reply = None
    BY <1>1, Zenon DEF Taken, HandleAuthFrame, Outcome
  <2> HIDE DEF r
  <2> QED BY <1>0, <2>1, Zenon DEF Answered
<1>2. CASE f # None /\ f = Hello
  <2> DEFINE b == [NoAuth EXCEPT !.client_nonce = c.gen]
             q == AuthFrame(k, "request", c.gen, None, c.gen)
  <2>1. r = [auth |-> b, reply |-> q, now |-> FALSE, lost |-> FALSE]
    BY <1>2, Zenon DEF Taken, StartClient, Outcome
  <2>2. IsAuth(b) /\ b.authenticated = FALSE /\ b.authenticate_after_flush = FALSE
    BY Zenon DEF NoAuth, IsAuth, AuthFields
  <2>3. q.kind = "request" /\ MadeWith(k, q) BY FrameIs, Zenon
  <2> HIDE DEF r, b, q
  <2>4. r.auth = b /\ r.reply = q BY <2>1, Zenon
  <2> QED BY <2>2, <2>3, <2>4, Zenon DEF Answered
<1>3. CASE f # None /\ f # Hello /\ Expected("client", k, c.gen, a, f)
  <2>1. r = HandleAuthFrame("client", k, c.gen, a, f, i.blocked) BY <1>3, Zenon DEF Taken
  <2>2. MadeWith(k, f) /\ f.kind \in {"response", "complete"}
    BY <1>3 DEF Expected, MadeWith, Mac
  <2>3. CASE f.kind = "response"
    <3> DEFINE b == [a EXCEPT !.server_nonce = f.server_nonce]
               q == AuthFrame(k, "confirm", f.client_nonce, f.server_nonce, c.gen)
    <3>1. r = [auth |-> b, reply |-> q, now |-> FALSE, lost |-> FALSE]
      BY <1>3, <2>1, <2>3, Zenon DEF HandleAuthFrame, Outcome
    <3>2. IsAuth(b) /\ b.authenticated = a.authenticated /\ ~b.authenticate_after_flush
      BY <1>0, Zenon DEF IsAuth, AuthFields
    <3>3. q.kind = "confirm" /\ MadeWith(k, q) BY FrameIs, Zenon
    <3> HIDE DEF r, b, q
    <3>4. r.auth = b /\ r.reply = q BY <3>1, Zenon
    <3> QED BY <3>2, <3>3, <3>4, Zenon DEF Answered
  <2>4. CASE f.kind = "complete"
    <3> DEFINE b == [a EXCEPT !.authenticated = TRUE]
    <3>1. r = [auth |-> b, reply |-> None, now |-> TRUE, lost |-> FALSE]
      BY <1>3, <2>1, <2>4, Zenon DEF HandleAuthFrame, Outcome
    <3>2. IsAuth(b) /\ ~b.authenticate_after_flush
      BY <1>0, Zenon DEF IsAuth, AuthFields
    <3> HIDE DEF r, b
    <3>3. r.auth = b /\ r.reply = None BY <3>1, Zenon
    <3> QED BY <1>3, <2>2, <2>4, <3>2, <3>3, Zenon DEF Answered
  <2> QED BY <2>2, <2>3, <2>4, Zenon
<1> QED BY <1>1, <1>2, <1>3, Zenon

(* drive_connection of the client. *)
LEMMA DriveOfClient ==
  ASSUME NEW k, NEW c, NEW i, IsConn(c), ~c.auth.authenticate_after_flush
  PROVE  Followed(k, c, i, DriveConnection("client", k, c, i))
<1> DEFINE r == Taken("client", k, c, i)
           lost == i.lost \/ r.lost \/ (c.expired /\ ~c.auth.authenticated)
           f == IF lost \/ i.blocked THEN Outcome(r.auth, None, FALSE, FALSE)
                                     ELSE Flush(k, c.gen, r.auth)
           e == [c EXCEPT !.auth = f.auth]
           d == DriveConnection("client", k, c, i)
<1>1. Answered(k, c, i, r) BY HandleClient, Zenon
<1>2. d = [conn |-> e, replies |-> {r.reply, f.reply} \ {None},
           now |-> r.now \/ f.now, lost |-> lost]
  BY Zenon DEF DriveConnection
<1> SUFFICES Followed(k, c, i, d) BY Zenon
<1> HIDE DEF r, lost, d
<1>3. f.auth = r.auth /\ f.reply = None
  BY <1>1, Zenon DEF Answered, Flush, Outcome
<1> HIDE DEF f
<1>4. IsConn(e) /\ e.gen = c.gen /\ e.auth = r.auth BY <1>1, <1>3, Zenon DEF IsConn, Answered
<1> HIDE DEF e
<1>5. d.conn = e /\ d.replies = {r.reply, f.reply} \ {None} BY <1>2, Zenon
<1> QED BY <1>1, <1>3, <1>4, <1>5, Zenon DEF Followed, Answered

-----------------------------------------------------------------------------
(* The inductive invariant: frames under way carry the key of their        *)
(* sender, those for the client are of its connection, and a "complete" is *)
(* only sent by a server that has authenticated; a candidate that waits to *)
(* replace the active connection has authenticated.                        *)
ClientInv ==
  /\ DOMAIN client = {"conn", "next", "buf"}
  /\ IsConn(client.conn) /\ ~client.conn.auth.authenticate_after_flush
  /\ client.conn.auth.authenticated => key = ServerKey /\ client.conn.gen \in proven

ServerInv ==
  /\ DOMAIN server = {"active", "candidate", "promotion", "next", "buf"}
  /\ server.active # None =>
       /\ IsConn(server.active) /\ server.active.auth.authenticated
       /\ server.active.gen \in proven /\ key = ServerKey
  /\ server.candidate # None =>
       /\ IsConn(server.candidate)
       /\ server.candidate.auth.authenticate_after_flush => key = ServerKey
       /\ server.candidate.auth.authenticated => key = ServerKey /\ server.candidate.gen \in proven
       /\ server.promotion => server.candidate.auth.authenticated

FrameInv(m) ==
  \/ m.dir = "up" /\ UpFrame(m.frame)
  \/ m.dir = "down" /\ m.gen = client.conn.gen /\ DownFrame(m.frame, m.gen)

AuthInv == ClientInv /\ ServerInv /\ \A m \in streams : FrameInv(m)

(* The invariant is strong enough. *)
LEMMA AuthInvImplies == AuthInv => AuthAgreement
BY Zenon DEF AuthInv, ClientInv, ServerInv, AuthAgreement

(* A new connection has not authenticated. *)
LEMMA NoConn == \A g : IsConn(Conn(g, NoAuth)) /\ Conn(g, NoAuth).gen = g
                       /\ Conn(g, NoAuth).auth.authenticated = FALSE
                       /\ Conn(g, NoAuth).auth.authenticate_after_flush = FALSE
BY Zenon DEF Conn, NoAuth, IsConn, IsAuth, AuthFields

(* It holds at first. *)
LEMMA AuthInvInit == TunnelInit => AuthInv
<1> SUFFICES ASSUME TunnelInit PROVE AuthInv BY Zenon
<1>1. client.conn = Conn(1, NoAuth) /\ DOMAIN client = {"conn", "next", "buf"}
  BY Zenon DEF TunnelInit, NewClient
<1>2. ClientInv BY <1>1, NoConn, Zenon DEF ClientInv
<1>3. ServerInv BY Zenon DEF TunnelInit, ServerInv
<1> QED BY <1>2, <1>3, Zenon DEF AuthInv, TunnelInit

-----------------------------------------------------------------------------
(* What the server is left with after a drive: connections it had, driven, *)
(* and in place of the active one only a candidate that has authenticated. *)
Left(s, a, c, t) ==
  /\ DOMAIN t = {"active", "candidate", "promotion", "next", "buf"}
  /\ t.active \in {None, a.conn} \/ (c.now /\ t.active = c.conn)
  /\ t.candidate \in {None, c.conn}
  /\ t.promotion => s.promotion \/ c.now

(* drive of the server. *)
LEMMA DriveServerLeaves ==
  ASSUME NEW s, NEW a, NEW c, NEW ia, NEW ic, c.now \in BOOLEAN,
         DOMAIN s = {"active", "candidate", "promotion", "next", "buf"}
  PROVE  /\ Left(s, a, c, DriveServer(s, a, c, ia, ic).state)
         /\ DriveServer(s, a, c, ia, ic).now = c.now
         /\ DriveServer(s, a, c, ia, ic).replies =
              {[gen |-> s.active.gen, dir |-> "down", frame |-> f] : f \in a.replies}
              \cup {[gen |-> s.candidate.gen, dir |-> "down", frame |-> f] : f \in c.replies}
<1> DEFINE base == [s EXCEPT !.active = a.conn, !.candidate = c.conn]
           resolved ==
             IF c.now /\ s.active # None THEN [base EXCEPT !.promotion = TRUE]
             ELSE IF c.now THEN [base EXCEPT !.active = c.conn, !.candidate = None]
             ELSE IF c.lost THEN [base EXCEPT !.candidate = None] ELSE base
           left == IF a.lost /\ ~c.now
                   THEN [resolved EXCEPT !.active = None, !.candidate = None, !.buf = NoBuffer]
                   ELSE resolved
           h == Handled(Prune(left.buf),
                  IF left.active = None THEN {} ELSE IF c.now THEN ic.datagrams ELSE ia.datagrams)
           t == [left EXCEPT !.buf = h.buf]
           rs == {[gen |-> s.active.gen, dir |-> "down", frame |-> f] : f \in a.replies}
                 \cup {[gen |-> s.candidate.gen, dir |-> "down", frame |-> f] : f \in c.replies}
           d == DriveServer(s, a, c, ia, ic)
<1>1. d = [state |-> t, packets |-> h.packets, now |-> c.now, replies |-> rs]
  BY Zenon DEF DriveServer
<1>2. Left(s, a, c, base)
  BY Zenon DEF Left
<1> HIDE DEF h, rs, d
<1>3. Left(s, a, c, resolved)
  <2>1. base.active = a.conn /\ base.candidate = c.conn /\ base.promotion = s.promotion
        /\ DOMAIN base = {"active", "candidate", "promotion", "next", "buf"}
    BY Zenon
  <2> HIDE DEF base
  <2> QED BY <2>1, Zenon DEF Left
<1> HIDE DEF resolved
<1>4. Left(s, a, c, left) BY <1>3, Zenon DEF Left
<1> HIDE DEF left
<1>5. Left(s, a, c, t) BY <1>4, Zenon DEF Left
<1> HIDE DEF t
<1>6. d.state = t /\ d.now = c.now /\ d.replies = rs BY <1>1, Zenon
<1> QED BY <1>5, <1>6, Zenon DEF d, rs

(* An input the server may be given. *)
UpInput(i) == i.blocked \in BOOLEAN /\ (i.frame # None => i.frame # Hello /\ UpFrame(i.frame))

(* A connection the server may not have, driven. *)
LEMMA DrivenIs ==
  ASSUME NEW c, NEW i, UpInput(i), c # None => IsConn(c)
  PROVE  /\ c = None => Driven(c, i) = Idle
         /\ c # None => Drove(ServerKey, Shown(c, i), c, Driven(c, i))
         /\ Driven(c, i).now \in BOOLEAN
<1>1. c = None => Driven(c, i) = Idle /\ Driven(c, i).now = FALSE BY Zenon DEF Driven, Idle
<1>2. c # None => Driven(c, i) = DriveConnection("server", ServerKey, c, i) BY Zenon DEF Driven
<1>3. c # None => Drove(ServerKey, Shown(c, i), c, Driven(c, i))
  BY <1>2, DriveOfServer, Zenon DEF UpInput
<1> QED BY <1>1, <1>3, Zenon DEF Drove

(* What shows the server its own key comes from a client that has it. *)
LEMMA ShownKey ==
  ASSUME NEW c, NEW i, UpInput(i), Shown(c, i),
         c.auth.authenticate_after_flush => key = ServerKey
  PROVE  key = ServerKey
BY Zenon DEF UpInput, Shown, UpFrame, MadeWith

(* Every drive of the server keeps the invariant, ... *)
LEMMA ServerDrivesInv ==
  ASSUME AuthInv, NEW ia, NEW ic, UpInput(ia), UpInput(ic), NEW frames, NEW datagrams,
         ServerDrives(ia, ic, frames, datagrams)
  PROVE  AuthInv'
<1> DEFINE a == Driven(server.active, ia)
           c == Driven(server.candidate, ic)
           d == DriveServer(server, a, c, ia, ic)
           t == d.state
<1>1. /\ server' = t /\ client' = client /\ key' = key
      /\ streams' = Arriving(client, t, (streams \ frames) \cup d.replies)
      /\ proven' = IF d.now THEN proven \cup {server.candidate.gen} ELSE proven
  BY Zenon DEF ServerDrives
<1>2. /\ server.active = None => a = Idle
      /\ server.active # None => Drove(ServerKey, Shown(server.active, ia), server.active, a)
  BY DrivenIs, Zenon DEF AuthInv, ServerInv
<1>3. /\ server.candidate = None => c = Idle
      /\ server.candidate # None =>
            Drove(ServerKey, Shown(server.candidate, ic), server.candidate, c)
      /\ c.now \in BOOLEAN
  BY DrivenIs, Zenon DEF AuthInv, ServerInv
<1> HIDE DEF a, c
<1>4. /\ Left(server, a, c, t) /\ d.now = c.now
      /\ d.replies = {[gen |-> server.active.gen, dir |-> "down", frame |-> f] : f \in a.replies}
           \cup {[gen |-> server.candidate.gen, dir |-> "down", frame |-> f] : f \in c.replies}
  BY <1>3, DriveServerLeaves DEF AuthInv, ServerInv
<1> HIDE DEF d, t
<1>5. server.candidate # None /\ Shown(server.candidate, ic) => key = ServerKey
  BY ShownKey, Zenon DEF AuthInv, ServerInv
<1>6. /\ a.conn # None => server.active # None
      /\ c.conn # None \/ c.now => server.candidate # None
  BY <1>2, <1>3 DEF Idle
<1>7. proven \subseteq proven' /\ (c.now => server.candidate.gen \in proven')
  BY <1>1, <1>4, Zenon
<1>8. ClientInv' BY <1>1, <1>7, Zenon DEF AuthInv, ClientInv
<1>9. ServerInv'
  <2>1. DOMAIN t = {"active", "candidate", "promotion", "next", "buf"} BY <1>4, Zenon DEF Left
  <2>2. c.conn # None =>
          /\ IsConn(c.conn)
          /\ c.conn.auth.authenticate_after_flush => key = ServerKey
          /\ c.conn.auth.authenticated => key = ServerKey /\ c.conn.gen \in proven'
          /\ (server.promotion \/ c.now) => c.conn.auth.authenticated
    BY <1>3, <1>5, <1>6, <1>7, Zenon DEF Drove, AuthInv, ServerInv
  <2>3. a.conn # None =>
          IsConn(a.conn) /\ a.conn.auth.authenticated /\ a.conn.gen \in proven' /\ key = ServerKey
    BY <1>2, <1>6, <1>7, Zenon DEF Drove, AuthInv, ServerInv
  <2>4. t.active # None =>
          IsConn(t.active) /\ t.active.auth.authenticated /\ t.active.gen \in proven'
          /\ key = ServerKey
    BY <1>4, <2>2, <2>3, Zenon DEF Left
  <2>5. t.candidate # None => t.candidate = c.conn /\ (t.promotion => server.promotion \/ c.now)
    BY <1>4, Zenon DEF Left
  <2> QED BY <1>1, <2>1, <2>2, <2>4, <2>5, Zenon DEF ServerInv
<1>10. ASSUME NEW m \in streams' PROVE FrameInv(m)'
  <2>1. m \in streams \/ m \in d.replies BY <1>1, Zenon DEF Arriving
  <2>2. CASE m \in streams
    BY <1>1, <1>7, <2>2, Zenon DEF AuthInv, FrameInv, UpFrame, DownFrame
  <2>3. CASE m \in d.replies
    <3>1. m.dir = "down" BY <1>4, <2>3
    <3>2. m.gen = client.conn.gen BY <1>1, <3>1, Zenon DEF Arriving, Receives
    <3>3. \/ m.frame \in a.replies /\ m.gen = server.active.gen
          \/ m.frame \in c.replies /\ m.gen = server.candidate.gen
      BY <1>4, <2>3
    <3>4. m.frame \in a.replies => server.active # None BY <1>2 DEF Idle
    <3>5. m.frame \in c.replies => server.candidate # None BY <1>3 DEF Idle
    <3>6. /\ m.frame.kind \in {"response", "complete"} /\ MadeWith(ServerKey, m.frame)
          /\ m.frame.kind = "complete" => m.gen \in proven'
      BY <1>2, <1>3, <1>7, <3>3, <3>4, <3>5, Zenon DEF Drove, AuthInv, ServerInv
    <3> QED BY <1>1, <3>1, <3>2, <3>6, Zenon DEF FrameInv, DownFrame
  <2> QED BY <2>1, <2>2, <2>3, Zenon
<1> QED BY <1>8, <1>9, <1>10, Zenon DEF AuthInv

(* ... and so does every drive of the client. *)
LEMMA ClientDrivesInv ==
  ASSUME AuthInv, NEW i, i.frame # None => DownFrame(i.frame, client.conn.gen),
         NEW frames, NEW datagrams, ClientDrives(i, frames, datagrams)
  PROVE  AuthInv'
<1>0. PICK r \in {DriveConnection("client", key, client.conn, i)} :
        \E h \in {Handled(Prune(client.buf),
              IF r.conn.auth.authenticated THEN i.datagrams ELSE {})} :
        \E after \in {IF r.lost THEN NewClient(client.conn.gen + 1)
                      ELSE [client EXCEPT !.conn = r.conn, !.buf = h.buf]} :
          /\ client' = after /\ server' = server /\ key' = key /\ proven' = proven
          /\ streams' = Arriving(after, server, (streams \ frames) \cup
                          {[gen |-> client.conn.gen, dir |-> "up", frame |-> f] : f \in r.replies})
  BY ZenonT(30) DEF ClientDrives
<1>h. PICK h \in {Handled(Prune(client.buf),
      IF r.conn.auth.authenticated THEN i.datagrams ELSE {})} :
        \E after \in {IF r.lost THEN NewClient(client.conn.gen + 1)
                      ELSE [client EXCEPT !.conn = r.conn, !.buf = h.buf]} :
          /\ client' = after /\ server' = server /\ key' = key /\ proven' = proven
          /\ streams' = Arriving(after, server, (streams \ frames) \cup
                          {[gen |-> client.conn.gen, dir |-> "up", frame |-> f] : f \in r.replies})
  BY <1>0, Zenon
<1> DEFINE mine == {[gen |-> client.conn.gen, dir |-> "up", frame |-> f] : f \in r.replies}
<1>1. PICK after \in {IF r.lost THEN NewClient(client.conn.gen + 1)
                      ELSE [client EXCEPT !.conn = r.conn, !.buf = h.buf]} :
          /\ client' = after /\ server' = server /\ key' = key /\ proven' = proven
          /\ streams' = Arriving(after, server, (streams \ frames) \cup mine)
  BY <1>h, Zenon
<1>2. Followed(key, client.conn, i, r) BY <1>0, DriveOfClient, SMTT(30) DEF AuthInv, ClientInv
<1>3. DOMAIN after = {"conn", "next", "buf"}
      /\ (after.conn = Conn(client.conn.gen + 1, NoAuth) \/ after.conn = r.conn)
  <2> DEFINE n == NewClient(client.conn.gen + 1)
             u == [client EXCEPT !.conn = r.conn, !.buf = h.buf]
  <2>1. after = n \/ after = u BY <1>1, Zenon
  <2>2. DOMAIN n = {"conn", "next", "buf"} /\ n.conn = Conn(client.conn.gen + 1, NoAuth)
    BY Zenon DEF NewClient
  <2>3. DOMAIN u = {"conn", "next", "buf"} /\ u.conn = r.conn
    BY Zenon DEF AuthInv, ClientInv
  <2> HIDE DEF n, u
  <2> QED BY <2>1, <2>2, <2>3, Zenon
<1>4. r.conn.auth.authenticated => key = ServerKey /\ client.conn.gen \in proven
  <2>1. CASE client.conn.auth.authenticated BY <2>1, Zenon DEF AuthInv, ClientInv
  <2>2. CASE i.frame # None /\ i.frame.kind = "complete" /\ MadeWith(key, i.frame)
    <3>1. i.frame # Hello BY <2>2 DEF Hello
    <3> QED BY <2>2, <3>1, Zenon DEF DownFrame, MadeWith
  <2> QED BY <1>2, <2>1, <2>2, Zenon DEF Followed
<1>5. ClientInv'
  <2>1. CASE after.conn = Conn(client.conn.gen + 1, NoAuth)
    BY <1>1, <1>3, <2>1, NoConn, Zenon DEF ClientInv
  <2>2. CASE after.conn = r.conn
    BY <1>1, <1>2, <1>3, <1>4, <2>2, Zenon DEF ClientInv, Followed
  <2> QED BY <1>3, <2>1, <2>2, Zenon
<1>6. ServerInv' BY <1>1, Zenon DEF AuthInv, ServerInv
<1>7. ASSUME NEW m \in streams' PROVE FrameInv(m)'
  <2>1. m \in streams \/ m \in mine BY <1>1, Zenon DEF Arriving
  <2>2. m.dir = "down" => m.gen = after.conn.gen BY <1>1, Zenon DEF Arriving, Receives
  <2>3. CASE m \in mine
    <3>1. m.dir = "up" /\ m.frame \in r.replies BY <2>3
    <3> QED BY <1>1, <1>2, <3>1, Zenon DEF FrameInv, UpFrame, Followed
  <2>4. CASE m \in streams
    BY <1>1, <2>2, <2>4, Zenon DEF AuthInv, FrameInv, UpFrame, DownFrame
  <2> QED BY <2>1, <2>3, <2>4, Zenon
<1> QED BY <1>5, <1>6, <1>7, Zenon DEF AuthInv

(* Steps that leave the client's connection, the key and what is proven,   *)
(* add no frame but Hello, and leave the server with connections that are  *)
(* fine.                                                                   *)
LEMMA OtherStep ==
  ASSUME AuthInv, ServerInv', UNCHANGED <<key, proven>>, DOMAIN client' = DOMAIN client,
         client'.conn.gen = client.conn.gen, client'.conn.auth = client.conn.auth,
         IsConn(client'.conn),
         \A m \in streams' : m \in streams \/
            (m.dir = "down" /\ m.gen = client.conn.gen /\ m.frame = Hello)
  PROVE  AuthInv'
<1>1. ClientInv' BY Zenon DEF AuthInv, ClientInv
<1>2. ASSUME NEW m \in streams' PROVE FrameInv(m)'
  BY <1>2, Zenon DEF AuthInv, FrameInv, UpFrame, DownFrame
<1> QED BY <1>1, <1>2, Zenon DEF AuthInv

-----------------------------------------------------------------------------
(* Inputs without a frame. *)
LEMMA Inputs ==
  /\ UpInput(Nothing) /\ Nothing.frame = None
  /\ UpInput(Input(None, {}, TRUE, FALSE)) /\ Input(None, {}, TRUE, FALSE).frame = None
BY Zenon DEF UpInput, Nothing, Input

(* Every step keeps the invariant. *)
LEMMA AuthInvNext == AuthInv /\ [TunnelNext]_tunnel_vars => AuthInv'
<1> SUFFICES ASSUME AuthInv, [TunnelNext]_tunnel_vars PROVE AuthInv' BY Zenon
<1>0. UNCHANGED tunnel_vars => AuthInv'
  BY Zenon DEF tunnel_vars, AuthInv, ClientInv, ServerInv, FrameInv, UpFrame, DownFrame
<1>1. ASSUME NEW g, Accept(g) PROVE AuthInv'
  <2> DEFINE n == Conn(g, NoAuth)
  <2>1. /\ server' = [server EXCEPT !.candidate = n] /\ ~server.promotion
        /\ UNCHANGED <<client, key, proven>>
        /\ streams' = Arriving(client, server',
              streams \cup {[gen |-> g, dir |-> "down", frame |-> Hello]})
    BY <1>1, Zenon DEF Accept
  <2>2. IsConn(n) /\ n.auth.authenticated = FALSE /\ n.auth.authenticate_after_flush = FALSE
    BY NoConn, Zenon
  <2> HIDE DEF n
  <2>3. /\ DOMAIN server' = DOMAIN server /\ server'.active = server.active
        /\ server'.candidate = n /\ server'.promotion = server.promotion
    BY <2>1, Zenon DEF AuthInv, ServerInv
  <2>4. ServerInv' BY <2>1, <2>2, <2>3, Zenon DEF AuthInv, ServerInv
  <2>5. \A m \in streams' : m \in streams \/ (m.dir = "down" /\ m.gen = client.conn.gen
                                              /\ m.frame = Hello)
    BY <2>1 DEF Arriving, Receives
  <2> QED BY <2>1, <2>4, <2>5, OtherStep, Zenon DEF AuthInv, ClientInv
<1>2. ASSUME NEW g, NEW blocked \in BOOLEAN, ServerReceives(g, blocked) PROVE AuthInv'
  <2>1. PICK fs \in {{}} \cup {{m} : m \in {m \in streams : m.gen = g /\ m.dir = "up"}},
             ds \in {{}} \cup {{m} : m \in {m \in net : m.gen = g /\ m.dir = "up"}} :
          LET i == Input(IF fs = {} THEN None ELSE (CHOOSE m \in fs : TRUE).frame,
                         {m.d : m \in ds}, FALSE, blocked)
          IN  ServerDrives(Nothing, i, fs, ds) \/ ServerDrives(i, Nothing, fs, ds)
    BY <1>2, Zenon DEF ServerReceives
  <2> DEFINE fr == IF fs = {} THEN None ELSE (CHOOSE m \in fs : TRUE).frame
             i == Input(fr, {m.d : m \in ds}, FALSE, blocked)
  <2>2. fr = None \/ \E m \in streams : m.dir = "up" /\ fr = m.frame BY Zenon
  <2>3. i.frame = fr /\ i.blocked = blocked BY Zenon DEF Input
  <2>4. ServerDrives(Nothing, i, fs, ds) \/ ServerDrives(i, Nothing, fs, ds) BY <2>1, Zenon
  <2> HIDE DEF fr, i
  <2>5. fr # None => UpFrame(fr) BY <2>2, Zenon DEF AuthInv, FrameInv
  <2>6. fr # None => fr # Hello BY <2>2 DEF AuthInv, FrameInv, UpFrame, Hello
  <2>7. UpInput(i) BY <2>3, <2>5, <2>6, Zenon DEF UpInput
  <2> QED BY <2>4, <2>7, Inputs, ServerDrivesInv, Zenon
<1>3. ASSUME ServerPolls PROVE AuthInv'
  BY <1>3, Inputs, ServerDrivesInv, Zenon DEF ServerPolls
<1>4. ASSUME ActiveLost PROVE AuthInv'
  BY <1>4, Inputs, ServerDrivesInv, Zenon DEF ActiveLost
<1>5. ASSUME CandidateLost PROVE AuthInv'
  BY <1>5, Inputs, ServerDrivesInv, Zenon DEF CandidateLost
<1>6. ASSUME CandidateExpires PROVE AuthInv'
  <2> DEFINE n == [server.candidate EXCEPT !.expired = TRUE]
  <2>1. /\ server' = [server EXCEPT !.candidate = n] /\ server.candidate # None
        /\ UNCHANGED <<client, key, proven, streams>>
    BY <1>6, Zenon DEF CandidateExpires, AuthInv, ServerInv, IsConn
  <2>2. IsConn(n) /\ n.auth = server.candidate.auth /\ n.gen = server.candidate.gen
    BY <2>1, Zenon DEF AuthInv, ServerInv, IsConn
  <2> HIDE DEF n
  <2>3. /\ DOMAIN server' = DOMAIN server /\ server'.active = server.active
        /\ server'.candidate = n /\ server'.promotion = server.promotion
    BY <2>1, Zenon DEF AuthInv, ServerInv
  <2>4. ServerInv' BY <2>1, <2>2, <2>3, Zenon DEF AuthInv, ServerInv
  <2> QED BY <2>1, <2>4, OtherStep, Zenon DEF AuthInv, ClientInv
<1>7. ASSUME Resolve PROVE AuthInv'
  <2> DEFINE n == Commit(server)
  <2>1. /\ server' = [n EXCEPT !.promotion = FALSE] /\ server.promotion
        /\ UNCHANGED <<client, key, proven>>
        /\ streams' = Arriving(client, server', streams)
    BY <1>7, Zenon DEF Resolve
  <2>2. /\ DOMAIN n = DOMAIN server
        /\ server.candidate = None => n = server
        /\ server.candidate # None => n.active = server.candidate /\ n.candidate = None
    BY Zenon DEF Commit, AuthInv, ServerInv
  <2> HIDE DEF n
  <2>3. /\ DOMAIN server' = DOMAIN server /\ server'.active = n.active
        /\ server'.candidate = n.candidate
    BY <2>1, <2>2, Zenon DEF AuthInv, ServerInv
  <2>4. ServerInv' BY <2>1, <2>2, <2>3, Zenon DEF AuthInv, ServerInv
  <2>5. \A m \in streams' : m \in streams BY <2>1, Zenon DEF Arriving
  <2> QED BY <2>1, <2>4, <2>5, OtherStep, Zenon DEF AuthInv, ClientInv
<1>8. ASSUME ServerRestarts PROVE AuthInv'
  <2>1. /\ server' = [server EXCEPT !.active = None, !.candidate = None, !.buf = NoBuffer]
        /\ UNCHANGED <<client, key, proven>>
        /\ streams' = Arriving(client, server', streams)
    BY <1>8, Zenon DEF ServerRestarts
  <2>2. DOMAIN server' = DOMAIN server /\ server'.active = None /\ server'.candidate = None
    BY <2>1, Zenon DEF AuthInv, ServerInv
  <2>3. ServerInv' BY <2>2, Zenon DEF AuthInv, ServerInv
  <2>4. \A m \in streams' : m \in streams BY <2>1, Zenon DEF Arriving
  <2> QED BY <2>1, <2>3, <2>4, OtherStep, Zenon DEF AuthInv, ClientInv
<1>9. ASSUME ClientReceives PROVE AuthInv'
  <2>1. PICK fs \in {{}} \cup {{m} : m \in {m \in streams : m.dir = "down"}},
             ds \in {{}} \cup {{m} : m \in {m \in net : m.dir = "down"}} :
          ClientDrives(Input(IF fs = {} THEN None ELSE (CHOOSE m \in fs : TRUE).frame,
                             {m.d : m \in ds}, FALSE, FALSE), fs, ds)
    BY <1>9, Zenon DEF ClientReceives
  <2> DEFINE fr == IF fs = {} THEN None ELSE (CHOOSE m \in fs : TRUE).frame
             i == Input(fr, {m.d : m \in ds}, FALSE, FALSE)
  <2>2. fr = None \/ \E m \in streams : m.dir = "down" /\ fr = m.frame BY Zenon
  <2>3. i.frame = fr BY Zenon DEF Input
  <2>4. ClientDrives(i, fs, ds) BY <2>1, Zenon
  <2> HIDE DEF fr, i
  <2>5. i.frame # None => DownFrame(i.frame, client.conn.gen)
    BY <2>2, <2>3, Zenon DEF AuthInv, FrameInv
  <2> QED BY <2>4, <2>5, ClientDrivesInv, Zenon
<1>10. ASSUME ClientPolls PROVE AuthInv'
  BY <1>10, Inputs, ClientDrivesInv, Zenon DEF ClientPolls
<1>11. ASSUME ClientLost PROVE AuthInv'
  BY <1>11, Inputs, ClientDrivesInv, Zenon DEF ClientLost
<1>12. ASSUME ClientExpires PROVE AuthInv'
  <2> DEFINE n == [client.conn EXCEPT !.expired = TRUE]
  <2>1. /\ client' = [client EXCEPT !.conn = n] /\ UNCHANGED <<server, key, proven, streams>>
    BY <1>12, Zenon DEF ClientExpires, AuthInv, ClientInv, IsConn
  <2>2. IsConn(n) /\ n.auth = client.conn.auth /\ n.gen = client.conn.gen
    BY Zenon DEF AuthInv, ClientInv, IsConn
  <2> HIDE DEF n
  <2>3. DOMAIN client' = DOMAIN client /\ client'.conn = n BY <2>1, Zenon DEF AuthInv, ClientInv
  <2>4. ServerInv' BY <2>1, Zenon DEF AuthInv, ServerInv
  <2> QED BY <2>1, <2>2, <2>3, <2>4, OtherStep, Zenon
<1>13. ASSUME NEW len, ClientSends(len) \/ ServerSends(len) \/ FragmentsAge PROVE AuthInv'
  <2>1. /\ DOMAIN client' = DOMAIN client /\ client'.conn = client.conn
        /\ UNCHANGED <<key, proven, streams>>
    BY <1>13, Zenon DEF ClientSends, ServerSends, FragmentsAge, AuthInv, ClientInv
  <2>2. /\ DOMAIN server' = DOMAIN server /\ server'.active = server.active
        /\ server'.candidate = server.candidate /\ server'.promotion = server.promotion
    BY <1>13, Zenon DEF ClientSends, ServerSends, FragmentsAge, AuthInv, ServerInv
  <2>3. ServerInv' BY <2>1, <2>2, Zenon DEF AuthInv, ServerInv
  <2> QED BY <2>1, <2>3, OtherStep, Zenon DEF AuthInv, ClientInv
<1> QED
  BY <1>0, <1>1, <1>2, <1>3, <1>4, <1>5, <1>6, <1>7, <1>8, <1>9, <1>10, <1>11, <1>12, <1>13,
     Zenon DEF TunnelNext

(* The two sides agree about authentication in every behaviour of a client *)
(* and a server, with any keys and any number of connections, faults and   *)
(* packets (handle_auth_frame, flush_auth_stream, drive and                *)
(* resolve_candidate_replacement of quic_engine.rs).                       *)
THEOREM AuthenticationAgrees == TunnelSpec => []AuthAgreement
<1> QED BY AuthInvInit, AuthInvNext, AuthInvImplies, PTL DEF TunnelSpec

-----------------------------------------------------------------------------
(* The tables. *)

Inv == TableInv(table, Ports)

(* An outgoing packet touches its session, creates it, or finds no port. *)
LEMMA OutgoingKeepsInv ==
  ASSUME NEW flow, NEW io, NEW flag, Inv, Outgoing(flow, io, flag)
  PROVE  Inv'
<1> DEFINE has == HasSession(table, flow, io.ifindex)
           id  == table.by_key[SessionKey(flow, io.ifindex)]
<1>1. Ports \subseteq Nat BY BoundsAssumption, Zenon
<1>2. CASE has
  <2>1. table' = TouchTcp(table, id, flag, FALSE, now)
    BY <1>2, Zenon DEF Outgoing, GetOrCreate
  <2>2. id \in DOMAIN table.sessions
    BY <1>2, Zenon DEF HasSession, Inv, TableInv, TableConsistent, KeyIndexExact
  <2>3. TableInv(TouchTcp(table, id, flag, FALSE, now), Ports)
    BY <2>2, TouchTcpInv, Zenon DEF Inv
  <2> QED BY <2>1, <2>3, Zenon DEF Inv
<1>3. CASE ~has /\ CanCreate(table, flow, now)
  <2>1. table' = Create(table, Worker, flow, io, 1, flag, now)
    BY <1>3, Zenon DEF Outgoing, GetOrCreate
  <2>2. TableInv(Create(table, Worker, flow, io, 1, flag, now), Ports)
    BY <1>1, <1>3, CreateInv, Zenon DEF Inv
  <2> QED BY <2>1, <2>2, Zenon DEF Inv
<1>4. CASE ~has /\ ~CanCreate(table, flow, now)
  <2>1. table' = [table EXCEPT !.nat =
                    AllocateFailed(table.nat, table.next_session_id, flow, now)]
    BY <1>4, Zenon DEF Outgoing, GetOrCreate
  <2>2. TableInv([table EXCEPT !.nat =
                    AllocateFailed(table.nat, table.next_session_id, flow, now)], Ports)
    BY <1>1, EphemeralInv, Zenon DEF Inv
  <2> QED BY <2>1, <2>2, Zenon DEF Inv
<1> QED BY <1>2, <1>3, <1>4, Zenon

(* An incoming packet may correct the session's queue, and touches it. *)
LEMMA IncomingKeepsInv ==
  ASSUME NEW rkey, NEW io, NEW flag, Inv, Incoming(rkey, io, flag)
  PROVE  Inv'
<1>1. PICK locator \in ReverseLocator(table, Worker, rkey) :
        table' = TouchTcp(CorrectInterceptIo(table, locator.session_id, io),
                          locator.session_id, flag, TRUE, now)
  BY Zenon DEF Incoming
<1> DEFINE id == locator.session_id
           t  == CorrectInterceptIo(table, id, io)
<1>2. id \in DOMAIN table.sessions
  BY <1>1, Zenon DEF ReverseLocator
<1> HIDE DEF id
<1>3. TableInv(t, Ports)
  BY <1>2, CorrectInterceptIoInv, Zenon DEF Inv
<1>4. DOMAIN t.sessions = DOMAIN table.sessions
  BY <1>2, CorrectInterceptIoInv DEF Inv
<1> HIDE DEF t
<1>5. TableInv(TouchTcp(t, id, flag, TRUE, now), Ports)
  BY <1>2, <1>3, <1>4, TouchTcpInv, Zenon
<1> QED BY <1>1, <1>5, Zenon DEF Inv, t, id

(* A DNS query takes a binding, or finds no port. *)
LEMMA TakeDnsBindingKeepsInv ==
  ASSUME NEW flow, Inv, TakeDnsBinding(flow)
  PROVE  Inv'
<1> DEFINE token == DnsBit + next_dns_token
<1>1. Ports \subseteq Nat BY BoundsAssumption, Zenon
<1>2. CASE CanAllocate(table.nat, token, flow, now)
  <2>1. table' = AllocateEphemeral(table, Worker, token, flow, now)
    BY <1>2, Zenon DEF TakeDnsBinding
  <2> HIDE DEF token
  <2>2. TableInv(AllocateEphemeral(table, Worker, token, flow, now), Ports)
    BY <1>1, <1>2, EphemeralInv, Zenon DEF Inv
  <2> QED BY <2>1, <2>2, Zenon DEF Inv
<1>3. CASE ~CanAllocate(table.nat, token, flow, now)
  <2>1. table' = [table EXCEPT !.nat = AllocateFailed(table.nat, token, flow, now)]
    BY <1>3, Zenon DEF TakeDnsBinding
  <2> HIDE DEF token
  <2>2. TableInv([table EXCEPT !.nat = AllocateFailed(table.nat, token, flow, now)], Ports)
    BY <1>1, EphemeralInv, Zenon DEF Inv
  <2> QED BY <2>1, <2>2, Zenon DEF Inv
<1> QED BY <1>2, <1>3, Zenon

(* Every step keeps the invariant. *)
LEMMA InvStep == Inv /\ [Next]_vars => Inv'
<1> SUFFICES ASSUME Inv, [Next]_vars PROVE Inv'
  BY Zenon
<1>1. ASSUME NEW flow \in Flows, NEW io \in Ios, NEW flag, Outgoing(flow, io, flag) PROVE Inv'
  BY <1>1, OutgoingKeepsInv, Zenon
<1>2. ASSUME NEW rkey, NEW io \in Ios, NEW flag, Incoming(rkey, io, flag) PROVE Inv'
  BY <1>2, IncomingKeepsInv, Zenon
<1>3. ASSUME NEW id \in DOMAIN table.sessions, DropSession(id) PROVE Inv'
  <2>1. {id} \subseteq DOMAIN table.sessions BY <1>3, Zenon
  <2>2. TableInv(RemoveSessions(table, {id}, now), Ports)
    BY <2>1, RemoveSessionsInv, Zenon DEF Inv
  <2> QED BY <1>3, <2>2, Zenon DEF Inv, DropSession
<1>4. CASE ExpireIdle
  <2>1. Lapsed(table, now) \subseteq DOMAIN table.sessions BY Zenon DEF Lapsed
  <2>2. TableInv(RemoveSessions(table, Lapsed(table, now), now), Ports)
    BY <2>1, RemoveSessionsInv, Zenon DEF Inv
  <2> QED BY <1>4, <2>2, Zenon DEF Inv, ExpireIdle
<1>5. ASSUME NEW flow \in DnsFlows, TakeDnsBinding(flow) PROVE Inv'
  BY <1>5, TakeDnsBindingKeepsInv, Zenon
<1>6. ASSUME NEW token \in DnsTokens, ReleaseDnsBinding(token) PROVE Inv'
  <2>1. token \in DOMAIN table.nat.forward \ DOMAIN table.sessions BY Zenon DEF DnsTokens
  <2>2. TableInv(ReleaseEphemeral(table, {token}, now), Ports)
    BY <2>1, BoundsAssumption, EphemeralInv, Zenon DEF Inv
  <2> QED BY <1>6, <2>2, Zenon DEF Inv, ReleaseDnsBinding
<1>7. CASE Tick BY <1>7, Zenon DEF Tick, Inv
<1>8. CASE UNCHANGED vars BY <1>8, Zenon DEF vars, Inv
<1> QED
  BY <1>1, <1>2, <1>3, <1>4, <1>5, <1>6, <1>7, <1>8, Zenon DEF Next, Steps

(* The free ports, the bindings, the reverse index, the quarantine, the    *)
(* key index and the deadline index of a Flow worker always describe the   *)
(* same sessions and DNS bindings.                                         *)
THEOREM TablesStayConsistent == Spec => []Consistent
<1>1. Init => Inv
  BY NewTableInv, Zenon DEF Init, Inv
<1>2. Inv => Consistent
  BY Zenon DEF Inv, TableInv, Consistent
<1> QED
  BY <1>1, <1>2, InvStep, PTL DEF Spec

-----------------------------------------------------------------------------
(* Quarantine.  The history of released tuples and the table agree: a      *)
(* tuple that was released is bound again, or its quarantine is over, or   *)
(* it is still in the table of quarantined tuples, until the right time.   *)
Honoured(nat, k, at, time) ==
  \/ k \in DOMAIN nat.reverse
  \/ time >= at + ReuseQuarantine[k.proto]
  \/ k \in DOMAIN nat.quarantined /\ nat.quarantined[k] = at + ReuseQuarantine[k.proto]

KnownProtocols(nat) == \A i \in DOMAIN nat.forward : nat.forward[i].original.proto \in Protocols

QuarantineInv(nat, rel, time) ==
  /\ time \in Nat
  /\ KnownProtocols(nat)
  /\ \A k \in DOMAIN rel :
       rel[k] \in Nat /\ k.proto \in Protocols /\ Honoured(nat, k, rel[k], time)

LEMMA QuarantineNat == \A p \in Protocols : ReuseQuarantine[p] \in Nat
BY QuarantineAssumption, Zenon

(* Dropping the lapsed entries keeps the invariant. *)
LEMMA PurgedHonours ==
  ASSUME NEW nat, NEW new, NEW rel, NEW time, QuarantineInv(nat, rel, time),
         DOMAIN nat.reverse \subseteq DOMAIN new.reverse,
         new.quarantined = Purged(nat, time), KnownProtocols(new)
  PROVE  QuarantineInv(new, rel, time)
<1>1. ASSUME NEW k \in DOMAIN rel PROVE Honoured(new, k, rel[k], time)
  <2>1. rel[k] + ReuseQuarantine[k.proto] \in Nat /\ time \in Nat
    BY QuarantineNat DEF QuarantineInv
  <2>2. CASE k \in DOMAIN nat.quarantined /\ nat.quarantined[k] = rel[k] + ReuseQuarantine[k.proto]
    <3>1. CASE nat.quarantined[k] > time
      <4>1. k \in DOMAIN new.quarantined /\ new.quarantined[k] = nat.quarantined[k]
        BY <2>2, <3>1, Zenon DEF Purged, Restrict
      <4> QED BY <2>2, <4>1, Zenon DEF Honoured
    <3>2. CASE ~(nat.quarantined[k] > time)
      BY <2>1, <2>2, <3>2 DEF Honoured
    <3> QED BY <3>1, <3>2, Zenon
  <2>3. Honoured(nat, k, rel[k], time) BY Zenon DEF QuarantineInv
  <2> QED BY <2>2, <2>3, Zenon DEF Honoured
<1> QED BY <1>1, Zenon DEF QuarantineInv

(* allocate_at binds a tuple only after its quarantine. *)
LEMMA AllocateQuarantine ==
  ASSUME NEW nat, NEW id, NEW flow, NEW loc, NEW rel, NEW time,
         NatConsistent(nat, Ports), CanAllocate(nat, id, flow, time),
         QuarantineInv(nat, rel, time), flow.proto \in Protocols
  PROVE  /\ QuarantineInv(Allocate(nat, id, flow, loc, time), rel, time)
         /\ \A k \in DOMAIN Allocate(nat, id, flow, loc, time).reverse \ DOMAIN nat.reverse :
              k \in DOMAIN rel => time >= rel[k] + ReuseQuarantine[k.proto]
<1> DEFINE port == Lowest(UsablePorts(nat, flow, time))
           rkey == ReverseKey(flow, port)
           new  == Allocate(nat, id, flow, loc, time)
<1>1. rkey \notin DOMAIN nat.reverse /\ rkey \notin DOMAIN Purged(nat, time)
  <2>1. port \in UsablePorts(nat, flow, time)
    BY BoundsAssumption, AllocatedPortIsUsable, Zenon
  <2> HIDE DEF port
  <2> QED BY <2>1, Zenon DEF UsablePorts
<1>2. id \notin DOMAIN nat.forward BY Zenon DEF CanAllocate, MayAllocate
<1> HIDE DEF port
<1>3. /\ new.forward = Put(nat.forward, id, [original |-> flow, port |-> port])
      /\ new.reverse = Put(nat.reverse, rkey, loc)
      /\ new.quarantined = Purged(nat, time)
  BY Zenon DEF Allocate, port
<1> HIDE DEF new, rkey
<1>4. DOMAIN new.reverse = DOMAIN nat.reverse \cup {rkey} BY <1>3, Zenon DEF Put
<1>5. KnownProtocols(new)
  BY <1>2, <1>3 DEF Put, KnownProtocols, QuarantineInv
<1>6. QuarantineInv(new, rel, time)
  BY <1>3, <1>4, <1>5, PurgedHonours, Zenon
<1>7. ASSUME rkey \in DOMAIN rel PROVE time >= rel[rkey] + ReuseQuarantine[rkey.proto]
  <2>1. rel[rkey] + ReuseQuarantine[rkey.proto] \in Nat /\ time \in Nat
    BY <1>7, QuarantineNat DEF QuarantineInv
  <2>2. Honoured(nat, rkey, rel[rkey], time) BY <1>7, Zenon DEF QuarantineInv
  <2>3. CASE rkey \in DOMAIN nat.quarantined
             /\ nat.quarantined[rkey] = rel[rkey] + ReuseQuarantine[rkey.proto]
    <3>1. ~(nat.quarantined[rkey] > time) BY <1>1, <2>3, Zenon DEF Purged, Restrict
    <3> QED BY <2>1, <2>3, <3>1
  <2> QED BY <1>1, <2>2, <2>3, Zenon DEF Honoured
<1> QED BY <1>4, <1>6, <1>7, Zenon DEF new

(* remove_at quarantines what it releases. *)
LEMMA RemoveAllQuarantine ==
  ASSUME NEW nat, NEW ids, ids \subseteq DOMAIN nat.forward, NEW rel, NEW time, NEW rel2,
         QuarantineInv(nat, rel, time),
         rel2 = [k \in DOMAIN rel \cup {BindingKey(nat.forward[i]) : i \in ids} |->
                   IF k \in {BindingKey(nat.forward[i]) : i \in ids} THEN time ELSE rel[k]]
  PROVE  /\ QuarantineInv(RemoveAll(nat, ids, time), rel2, time)
         /\ DOMAIN RemoveAll(nat, ids, time).reverse \subseteq DOMAIN nat.reverse
<1> DEFINE keys == {BindingKey(nat.forward[i]) : i \in ids}
           new  == RemoveAll(nat, ids, time)
<1>1. /\ DOMAIN new.forward = DOMAIN nat.forward \ ids
      /\ \A i \in DOMAIN nat.forward \ ids : new.forward[i] = nat.forward[i]
      /\ DOMAIN new.reverse = DOMAIN nat.reverse \ keys
      /\ new.quarantined = [k \in DOMAIN nat.quarantined \cup keys |->
                              IF k \in keys THEN time + ReuseQuarantine[k.proto]
                                            ELSE nat.quarantined[k]]
  BY Zenon DEF RemoveAll, Restrict
<1> HIDE DEF new
<1>2. \A k \in keys : k.proto \in Protocols
  BY DEF QuarantineInv, KnownProtocols, BindingKey, ReverseKey
<1> HIDE DEF keys
<1>3. rel2 = [k \in DOMAIN rel \cup keys |-> IF k \in keys THEN time ELSE rel[k]]
  BY Zenon DEF keys
<1>4. ASSUME NEW k \in DOMAIN rel2
      PROVE  rel2[k] \in Nat /\ k.proto \in Protocols /\ Honoured(new, k, rel2[k], time)
  <2>1. CASE k \in keys
    BY <1>1, <1>2, <1>3, <2>1 DEF Honoured, QuarantineInv
  <2>2. CASE k \notin keys
    BY <1>1, <1>3, <2>2, Zenon DEF Honoured, QuarantineInv
  <2> QED BY <2>1, <2>2, Zenon
<1>5. KnownProtocols(new) BY <1>1, Zenon DEF QuarantineInv, KnownProtocols
<1>6. QuarantineInv(new, rel2, time) BY <1>4, <1>5, Zenon DEF QuarantineInv
<1> QED BY <1>1, <1>6, Zenon DEF new

QInv == QuarantineInv(table.nat, released, now)

(* A step that leaves the NAT table alone. *)
LEMMA SameNat ==
  ASSUME QInv, table'.nat = table.nat, UNCHANGED <<released, now>>
  PROVE  QInv' /\ BindsAfterQuarantine
BY Zenon DEF QInv, BindsAfterQuarantine

(* A step that takes a binding, or tries to. *)
LEMMA BindingStep ==
  ASSUME NEW id, NEW flow, NEW loc, flow.proto \in Protocols, Inv, QInv,
         UNCHANGED <<released, now>>,
         \/ /\ CanAllocate(table.nat, id, flow, now)
            /\ table'.nat = Allocate(table.nat, id, flow, loc, now)
         \/ table'.nat = AllocateFailed(table.nat, id, flow, now)
  PROVE  QInv' /\ BindsAfterQuarantine
<1>1. IsNat(table.nat) /\ NatConsistent(table.nat, Ports)
  BY Zenon DEF Inv, TableInv, IsTable, TableConsistent
<1>2. CASE CanAllocate(table.nat, id, flow, now)
           /\ table'.nat = Allocate(table.nat, id, flow, loc, now)
  <2>1. QuarantineInv(Allocate(table.nat, id, flow, loc, now), released, now)
    BY <1>1, <1>2, AllocateQuarantine, Zenon DEF QInv
  <2>2. \A k \in DOMAIN Allocate(table.nat, id, flow, loc, now).reverse
                 \ DOMAIN table.nat.reverse :
          k \in DOMAIN released => now >= released[k] + ReuseQuarantine[k.proto]
    BY <1>1, <1>2, AllocateQuarantine, Zenon DEF QInv
  <2> QED BY <1>2, <2>1, <2>2, Zenon DEF QInv, BindsAfterQuarantine
<1>3. CASE table'.nat = AllocateFailed(table.nat, id, flow, now)
  <2> DEFINE new == [table.nat EXCEPT !.quarantined = Purged(table.nat, now)]
  <2>1. CASE table'.nat = table.nat BY <2>1, SameNat, Zenon
  <2>2. CASE table'.nat = new
    <3>1. /\ new.forward = table.nat.forward /\ new.reverse = table.nat.reverse
          /\ new.quarantined = Purged(table.nat, now)
      BY <1>1, Zenon DEF IsNat
    <3> HIDE DEF new
    <3>2. KnownProtocols(new) BY <3>1, Zenon DEF QInv, QuarantineInv, KnownProtocols
    <3>3. QuarantineInv(new, released, now)
      BY <3>1, <3>2, PurgedHonours, Zenon DEF QInv
    <3> QED BY <2>2, <3>1, <3>3, Zenon DEF QInv, BindsAfterQuarantine
  <2> QED BY <1>3, <2>1, <2>2, Zenon DEF AllocateFailed
<1> QED BY <1>2, <1>3, Zenon

(* A step that releases bindings. *)
LEMMA ReleaseStep ==
  ASSUME NEW ids, ids \subseteq DOMAIN table.nat.forward, QInv, now' = now,
         released' = Released(ids), table'.nat = RemoveAll(table.nat, ids, now)
  PROVE  QInv' /\ BindsAfterQuarantine
<1>1. released' = [k \in DOMAIN released \cup {BindingKey(table.nat.forward[i]) : i \in ids} |->
                     IF k \in {BindingKey(table.nat.forward[i]) : i \in ids}
                     THEN now ELSE released[k]]
  BY Zenon DEF Released
<1>2. QuarantineInv(RemoveAll(table.nat, ids, now), released', now)
  BY <1>1, RemoveAllQuarantine, Zenon DEF QInv
<1>3. DOMAIN RemoveAll(table.nat, ids, now).reverse \subseteq DOMAIN table.nat.reverse
  BY Zenon DEF RemoveAll, Restrict
<1> QED BY <1>2, <1>3, Zenon DEF QInv, BindsAfterQuarantine

(* What the operations on the session table do to its NAT table. *)
LEMMA NatOf ==
  ASSUME Inv
  PROVE  /\ \A ids, time : RemoveSessions(table, ids, time).nat = RemoveAll(table.nat, ids, time)
         /\ \A ids, time : ReleaseEphemeral(table, ids, time).nat = RemoveAll(table.nat, ids, time)
         /\ \A w, token, flow, time :
              AllocateEphemeral(table, w, token, flow, time).nat =
                Allocate(table.nat, token, flow,
                         [flow_worker_id |-> w, session_id |-> token], time)
         /\ \A nat : [table EXCEPT !.nat = nat].nat = nat
<1> USE DEF Inv, TableInv, IsTable
<1>1. \A ids, time : RemoveSessions(table, ids, time).nat = RemoveAll(table.nat, ids, time)
  BY Zenon DEF RemoveSessions
<1>2. \A ids, time : ReleaseEphemeral(table, ids, time).nat = RemoveAll(table.nat, ids, time)
  BY Zenon DEF ReleaseEphemeral
<1>3. \A w, token, flow, time :
        AllocateEphemeral(table, w, token, flow, time).nat =
          Allocate(table.nat, token, flow, [flow_worker_id |-> w, session_id |-> token], time)
  BY Zenon DEF AllocateEphemeral
<1>4. \A nat : [table EXCEPT !.nat = nat].nat = nat
  BY Zenon
<1> QED BY <1>1, <1>2, <1>3, <1>4, Zenon

LEMMA OutgoingQuarantine ==
  ASSUME NEW flow \in Flows, NEW io, NEW flag, Inv, QInv, Outgoing(flow, io, flag)
  PROVE  QInv' /\ BindsAfterQuarantine
<1> DEFINE has == HasSession(table, flow, io.ifindex)
           sid == table.by_key[SessionKey(flow, io.ifindex)]
           id  == table.next_session_id
           loc == [flow_worker_id |-> Worker, session_id |-> id]
<1>1. flow.proto \in Protocols BY BoundsAssumption, Zenon
<1>2. UNCHANGED <<released, now>> BY Zenon DEF Outgoing
<1>3. CASE has
  <2>1. table' = TouchTcp(table, sid, flag, FALSE, now)
    BY <1>3, Zenon DEF Outgoing, GetOrCreate
  <2>2. TouchTcp(table, sid, flag, FALSE, now).nat = table.nat
    BY Zenon DEF TouchTcp, Inv, TableInv, IsTable
  <2> QED BY <1>2, <2>1, <2>2, SameNat, Zenon
<1>4. CASE ~has /\ CanCreate(table, flow, now)
  <2>1. table' = Create(table, Worker, flow, io, 1, flag, now)
    BY <1>4, Zenon DEF Outgoing, GetOrCreate
  <2>2. table'.nat = Allocate(table.nat, id, flow, loc, now)
    BY <2>1, Zenon DEF Create
  <2>3. CanAllocate(table.nat, id, flow, now) BY <1>4, Zenon DEF CanCreate
  <2> HIDE DEF id, loc
  <2> QED BY <1>1, <1>2, <2>2, <2>3, BindingStep, Zenon
<1>5. CASE ~has /\ ~CanCreate(table, flow, now)
  <2>1. table' = [table EXCEPT !.nat = AllocateFailed(table.nat, id, flow, now)]
    BY <1>5, Zenon DEF Outgoing, GetOrCreate
  <2>2. table'.nat = AllocateFailed(table.nat, id, flow, now) BY <2>1, NatOf, Zenon
  <2> HIDE DEF id
  <2> QED BY <1>1, <1>2, <2>2, BindingStep, Zenon
<1> QED BY <1>3, <1>4, <1>5, Zenon

LEMMA IncomingQuarantine ==
  ASSUME NEW rkey, NEW io, NEW flag, Inv, QInv, Incoming(rkey, io, flag)
  PROVE  QInv' /\ BindsAfterQuarantine
<1>1. PICK locator \in ReverseLocator(table, Worker, rkey) :
        table' = TouchTcp(CorrectInterceptIo(table, locator.session_id, io),
                          locator.session_id, flag, TRUE, now)
  BY Zenon DEF Incoming
<1> DEFINE id == locator.session_id
           t  == CorrectInterceptIo(table, id, io)
<1>2. id \in DOMAIN table.sessions BY <1>1, Zenon DEF ReverseLocator
<1> HIDE DEF id
<1>3. TableInv(t, Ports) BY <1>2, CorrectInterceptIoInv, Zenon DEF Inv
<1>4. t.nat = table.nat BY <1>2, CorrectInterceptIoInv DEF Inv
<1> HIDE DEF t
<1>5. TouchTcp(t, id, flag, TRUE, now).nat = t.nat BY <1>3, Zenon DEF TouchTcp, TableInv, IsTable
<1>6. table'.nat = table.nat BY <1>1, <1>4, <1>5, Zenon DEF t, id
<1>7. UNCHANGED <<released, now>> BY Zenon DEF Incoming
<1> QED BY <1>6, <1>7, SameNat, Zenon

LEMMA TakeDnsBindingQuarantine ==
  ASSUME NEW flow \in DnsFlows, Inv, QInv, TakeDnsBinding(flow)
  PROVE  QInv' /\ BindsAfterQuarantine
<1> DEFINE token == DnsBit + next_dns_token
           loc   == [flow_worker_id |-> Worker, session_id |-> token]
<1>1. flow.proto \in Protocols BY BoundsAssumption, Zenon
<1>2. UNCHANGED <<released, now>> BY Zenon DEF TakeDnsBinding
<1>3. CASE CanAllocate(table.nat, token, flow, now)
  <2>1. table' = AllocateEphemeral(table, Worker, token, flow, now)
    BY <1>3, Zenon DEF TakeDnsBinding
  <2> HIDE DEF token
  <2>2. table'.nat = Allocate(table.nat, token, flow, loc, now) BY <2>1, NatOf
  <2> HIDE DEF loc
  <2> QED BY <1>1, <1>2, <1>3, <2>2, BindingStep, Zenon
<1>4. CASE ~CanAllocate(table.nat, token, flow, now)
  <2>1. table' = [table EXCEPT !.nat = AllocateFailed(table.nat, token, flow, now)]
    BY <1>4, Zenon DEF TakeDnsBinding
  <2> HIDE DEF token
  <2>2. table'.nat = AllocateFailed(table.nat, token, flow, now) BY <2>1, NatOf, Zenon
  <2> QED BY <1>1, <1>2, <2>2, BindingStep, Zenon
<1> QED BY <1>3, <1>4, Zenon

LEMMA QuarantineStep == Inv /\ QInv /\ [Next]_vars => QInv' /\ [BindsAfterQuarantine]_vars
<1> SUFFICES ASSUME Inv, QInv, [Next]_vars PROVE QInv' /\ [BindsAfterQuarantine]_vars
  BY Zenon
<1>1. DOMAIN table.sessions \subseteq DOMAIN table.nat.forward
  BY Zenon DEF Inv, TableInv, TableConsistent, SessionsBound
<1>2. ASSUME NEW flow \in Flows, NEW io \in Ios, NEW flag, Outgoing(flow, io, flag)
      PROVE  QInv' /\ BindsAfterQuarantine
  BY <1>2, OutgoingQuarantine, Zenon
<1>3. ASSUME NEW rkey, NEW io \in Ios, NEW flag, Incoming(rkey, io, flag)
      PROVE  QInv' /\ BindsAfterQuarantine
  BY <1>3, IncomingQuarantine, Zenon
<1>4. ASSUME NEW id \in DOMAIN table.sessions, DropSession(id)
      PROVE  QInv' /\ BindsAfterQuarantine
  <2>1. {id} \subseteq DOMAIN table.nat.forward BY <1>1, <1>4, Zenon
  <2>2. /\ table'.nat = RemoveAll(table.nat, {id}, now)
        /\ released' = Released({id}) /\ now' = now
    BY <1>4, NatOf, Zenon DEF DropSession
  <2> QED BY <2>1, <2>2, ReleaseStep, Zenon
<1>5. ASSUME ExpireIdle PROVE QInv' /\ BindsAfterQuarantine
  <2> DEFINE ids == Lapsed(table, now)
  <2>1. ids \subseteq DOMAIN table.nat.forward BY <1>1, Zenon DEF Lapsed
  <2>2. /\ table'.nat = RemoveAll(table.nat, ids, now)
        /\ released' = Released(ids) /\ now' = now
    BY <1>5, NatOf, Zenon DEF ExpireIdle
  <2> HIDE DEF ids
  <2> QED BY <2>1, <2>2, ReleaseStep, Zenon
<1>6. ASSUME NEW flow \in DnsFlows, TakeDnsBinding(flow) PROVE QInv' /\ BindsAfterQuarantine
  BY <1>6, TakeDnsBindingQuarantine, Zenon
<1>7. ASSUME NEW token \in DnsTokens, ReleaseDnsBinding(token)
      PROVE  QInv' /\ BindsAfterQuarantine
  <2>1. {token} \subseteq DOMAIN table.nat.forward BY <1>7, Zenon DEF DnsTokens
  <2>2. /\ table'.nat = RemoveAll(table.nat, {token}, now)
        /\ released' = Released({token}) /\ now' = now
    BY <1>7, NatOf, Zenon DEF ReleaseDnsBinding
  <2> QED BY <2>1, <2>2, ReleaseStep, Zenon
<1>8. ASSUME Tick PROVE QInv' /\ BindsAfterQuarantine
  <2>1. table' = table /\ released' = released /\ now' = now + 1 BY <1>8, Zenon DEF Tick
  <2>2. \A k \in DOMAIN released : Honoured(table.nat, k, released[k], now + 1)
    BY QuarantineNat DEF QInv, QuarantineInv, Honoured
  <2> QED BY <2>1, <2>2 DEF QInv, QuarantineInv, BindsAfterQuarantine
<1>9. CASE UNCHANGED vars BY <1>9, Zenon DEF vars, QInv
<1> QED
  BY <1>2, <1>3, <1>4, <1>5, <1>6, <1>7, <1>8, <1>9, Zenon DEF Next, Steps

(* allocate_at never binds a return tuple before the quarantine of its     *)
(* last holder is over, whatever happened in between.                      *)
THEOREM QuarantineIsRespected == Spec => ReuseRespectsQuarantine
<1>1. Init => Inv
  BY NewTableInv, Zenon DEF Init, Inv
<1>2. Init => QInv
  BY DEF Init, QInv, QuarantineInv, KnownProtocols, NewTable, NewNat, EmptyMap
<1>3. Inv /\ QInv /\ [Next]_vars => Inv' /\ QInv' /\ [BindsAfterQuarantine]_vars
  BY InvStep, QuarantineStep, Zenon
<1> QED
  BY <1>1, <1>2, <1>3, PTL DEF Spec, ReuseRespectsQuarantine
-----------------------------------------------------------------------------
(* Early ends.  The state of a TCP session is what its packets after the   *)
(* first have said, and its deadline is early when they, or the first one  *)
(* alone, said that it is over.                                            *)

HeardState(rst, fins) ==
  CASE rst                                        -> "Reset"
    [] ~rst /\ "forward" \in fins /\ "reverse" \in fins -> "Closing"
    [] ~rst /\ "forward" \in fins /\ "reverse" \notin fins -> "FinSeenForward"
    [] ~rst /\ "forward" \notin fins /\ "reverse" \in fins -> "FinSeenReverse"
    [] OTHER                                      -> "Established"

Agrees(proto, state, expires_at, h) ==
  proto = "tcp" =>
    /\ h.rst \in BOOLEAN /\ h.fins \subseteq {"forward", "reverse"}
    /\ state = HeardState(h.rst, h.fins)
    /\ expires_at < h.at + TcpIdle <=> MayEndEarly(h)

SessionAgrees(s, h) == Agrees(s.original.proto, s.tcp_state, s.expires_at, h)

HeardInv ==
  /\ table.next_session_id \in Nat \ {0}
  /\ now \in Nat
  /\ DOMAIN heard = DOMAIN table.sessions
  /\ \A id \in DOMAIN table.sessions : SessionAgrees(table.sessions[id], heard[id])

LEMMA TouchTcpState ==
  ASSUME NEW t, NEW id, NEW flag, NEW reverse, NEW time, IsTable(t), id \in DOMAIN t.sessions
  PROVE  LET s == t.sessions[id]
             u == TouchTcp(t, id, flag, reverse, time)
             state == TcpStateAfter(s.tcp_state, flag, reverse)
         IN  /\ DOMAIN u.sessions = DOMAIN t.sessions
             /\ u.next_session_id = t.next_session_id
             /\ u.sessions[id].original = s.original
             /\ u.sessions[id].tcp_state = state
             /\ u.sessions[id].expires_at = time + TouchTimeout(s.original.proto, flag, state)
             /\ \A i \in DOMAIN t.sessions \ {id} : u.sessions[i] = t.sessions[i]
<1> DEFINE s     == t.sessions[id]
           state == TcpStateAfter(s.tcp_state, flag, reverse)
           at    == time + TouchTimeout(s.original.proto, flag, state)
           s2    == [s EXCEPT !.tcp_state = state, !.expires_at = at]
           dl    == (t.deadlines \ {<<s.expires_at, id>>}) \cup {<<at, id>>}
           u     == TouchTcp(t, id, flag, reverse, time)
<1>1. u = [t EXCEPT !.sessions = [t.sessions EXCEPT ![id] = s2], !.deadlines = dl]
  BY Zenon DEF TouchTcp
<1> HIDE DEF state, at, u
<1>2. s2.tcp_state = state /\ s2.expires_at = at /\ s2.original = s.original
  BY Zenon DEF IsTable, IsSession
<1> HIDE DEF s2, dl
<1>3. u.sessions = [t.sessions EXCEPT ![id] = s2] /\ u.next_session_id = t.next_session_id
  BY <1>1, Zenon DEF IsTable
<1> QED BY <1>2, <1>3, Zenon DEF u, state, at

LEMMA CorrectState ==
  ASSUME NEW t, NEW id, NEW io, IsTable(t), id \in DOMAIN t.sessions
  PROVE  /\ DOMAIN CorrectInterceptIo(t, id, io).sessions = DOMAIN t.sessions
         /\ CorrectInterceptIo(t, id, io).next_session_id = t.next_session_id
         /\ \A i \in DOMAIN t.sessions : \A h :
              SessionAgrees(t.sessions[i], h) =>
                SessionAgrees(CorrectInterceptIo(t, id, io).sessions[i], h)
<1> DEFINE s  == t.sessions[id]
           s2 == [s EXCEPT !.intercept_io = io]
           u  == [t EXCEPT !.sessions = [t.sessions EXCEPT ![id] = s2]]
<1>1. CorrectInterceptIo(t, id, io) \in {t, u} BY Zenon DEF CorrectInterceptIo
<1>2. s2.tcp_state = s.tcp_state /\ s2.expires_at = s.expires_at /\ s2.original = s.original
  BY Zenon DEF IsTable, IsSession
<1> HIDE DEF s2
<1>3. ASSUME NEW h, SessionAgrees(s, h) PROVE SessionAgrees(s2, h)
  BY <1>2, <1>3, Zenon DEF SessionAgrees
<1>4. u.sessions = [t.sessions EXCEPT ![id] = s2] /\ u.next_session_id = t.next_session_id
  BY Zenon DEF IsTable
<1> HIDE DEF u
<1> QED BY <1>1, <1>3, <1>4, Zenon

(* A packet moves the state as it moves what was heard. *)
LEMMA StateFollowsHeard ==
  ASSUME NEW rst \in BOOLEAN, NEW fins, NEW flag, NEW reverse \in BOOLEAN, NEW dir,
         dir = (IF reverse THEN "reverse" ELSE "forward")
  PROVE  TcpStateAfter(HeardState(rst, fins), flag, reverse) =
           HeardState(rst \/ flag = "rst", IF flag = "fin" THEN fins \cup {dir} ELSE fins)
BY SMT DEF HeardState, TcpStateAfter, NotTcp

(* The state tells whether the session is over. *)
LEMMA StateIsOver ==
  ASSUME NEW rst \in BOOLEAN, NEW fins, fins \subseteq {"forward", "reverse"}
  PROVE  HeardState(rst, fins) \in {"Closing", "Reset"} <=>
           rst \/ fins = {"forward", "reverse"}
BY SMT DEF HeardState

LEMMA TimeoutIsEarly ==
  ASSUME NEW flag, NEW state, flag = "rst" => state = "Reset"
  PROVE  /\ TouchTimeout("tcp", flag, state) \in Nat
         /\ TouchTimeout("tcp", flag, state) < TcpIdle <=> state \in {"Closing", "Reset"}
BY TimeoutAssumption, SMT DEF TouchTimeout

(* A packet after the first. *)
LEMMA TouchAgrees ==
  ASSUME NEW proto, NEW state, NEW expires_at, NEW h, Agrees(proto, state, expires_at, h),
         NEW flag, NEW reverse \in BOOLEAN, NEW dir, now \in Nat,
         dir = (IF reverse THEN "reverse" ELSE "forward")
  PROVE  LET next == TcpStateAfter(state, flag, reverse)
         IN  Agrees(proto, next, now + TouchTimeout(proto, flag, next), NowHeard(h, flag, dir))
<1> DEFINE next == TcpStateAfter(state, flag, reverse)
           k    == NowHeard(h, flag, dir)
           rst  == h.rst \/ flag = "rst"
           fins == IF flag = "fin" THEN h.fins \cup {dir} ELSE h.fins
           wait == TouchTimeout("tcp", flag, next)
<1> SUFFICES ASSUME proto = "tcp" PROVE Agrees("tcp", next, now + wait, k)
  BY Zenon DEF Agrees
<1>1. k.at = now /\ k.opened = "none" /\ k.rst = rst /\ k.fins = fins BY Zenon DEF NowHeard
<1> HIDE DEF k
<1>2. /\ h.rst \in BOOLEAN /\ h.fins \subseteq {"forward", "reverse"}
      /\ state = HeardState(h.rst, h.fins)
  BY Zenon DEF Agrees
<1>3. rst \in BOOLEAN /\ fins \subseteq {"forward", "reverse"} BY <1>2, Zenon
<1>4. next = HeardState(rst, fins)
  <2>1. TcpStateAfter(HeardState(h.rst, h.fins), flag, reverse) = HeardState(rst, fins)
    BY <1>2, StateFollowsHeard, SMTT(30)
  <2> QED BY <1>2, <2>1, Zenon
<1>5. flag = "rst" => next = "Reset"
  <2>1. flag = "rst" => rst = TRUE BY <1>2, Zenon
  <2> QED BY <1>4, <2>1, SMT DEF HeardState
<1> HIDE DEF next, rst, fins
<1>6. next \in {"Closing", "Reset"} <=> rst \/ fins = {"forward", "reverse"}
  BY <1>3, <1>4, StateIsOver, Zenon
<1>7. wait \in Nat /\ (wait < TcpIdle <=> next \in {"Closing", "Reset"})
  BY <1>5, TimeoutIsEarly, Zenon
<1> HIDE DEF wait
<1>8. now + wait < now + TcpIdle <=> wait < TcpIdle BY <1>7, TimeoutAssumption, SMT
<1>9. MayEndEarly(k) <=> rst \/ fins = {"forward", "reverse"} BY <1>1, Zenon DEF MayEndEarly
<1> QED BY <1>1, <1>3, <1>4, <1>6, <1>7, <1>8, <1>9, Zenon DEF Agrees

LEMMA TouchHeard ==
  ASSUME HeardInv, NEW t, NEW id \in DOMAIN table.sessions, NEW flag,
         NEW reverse \in BOOLEAN, NEW dir, dir = (IF reverse THEN "reverse" ELSE "forward"),
         IsTable(t), DOMAIN t.sessions = DOMAIN table.sessions,
         t.next_session_id = table.next_session_id,
         \A i \in DOMAIN table.sessions : SessionAgrees(t.sessions[i], heard[i]),
         table' = TouchTcp(t, id, flag, reverse, now), heard' = Hear(id, flag, dir), now' = now
  PROVE  HeardInv'
<1> DEFINE s == t.sessions[id]
           u == TouchTcp(t, id, flag, reverse, now)
           next == TcpStateAfter(s.tcp_state, flag, reverse)
<1>1. /\ DOMAIN u.sessions = DOMAIN t.sessions /\ u.next_session_id = t.next_session_id
      /\ u.sessions[id].original = s.original /\ u.sessions[id].tcp_state = next
      /\ u.sessions[id].expires_at = now + TouchTimeout(s.original.proto, flag, next)
      /\ \A i \in DOMAIN t.sessions \ {id} : u.sessions[i] = t.sessions[i]
  BY TouchTcpState, SMTT(30)
<1> HIDE DEF u
<1>2. /\ DOMAIN heard' = DOMAIN heard
      /\ heard'[id] = NowHeard(heard[id], flag, dir)
      /\ \A i \in DOMAIN heard \ {id} : heard'[i] = heard[i]
  BY Zenon DEF Hear, HeardInv
<1>3. Agrees(s.original.proto, s.tcp_state, s.expires_at, heard[id])
  BY Zenon DEF SessionAgrees
<1>4. Agrees(s.original.proto, next, now + TouchTimeout(s.original.proto, flag, next),
             NowHeard(heard[id], flag, dir))
  BY <1>3, TouchAgrees, Zenon DEF HeardInv
<1>5. SessionAgrees(u.sessions[id], heard'[id]) BY <1>1, <1>2, <1>4, Zenon DEF SessionAgrees
<1>6. ASSUME NEW i \in DOMAIN table.sessions \ {id}
      PROVE  SessionAgrees(u.sessions[i], heard'[i])
  BY <1>1, <1>2, <1>6, Zenon DEF HeardInv
<1> QED BY <1>1, <1>2, <1>5, <1>6, Zenon DEF HeardInv, u

(* The first packet. *)
LEMMA FirstAgrees ==
  ASSUME NEW proto, NEW flag, now \in Nat, flag \in Flags,
         NEW state, proto = "tcp" => state = "Established"
  PROVE  Agrees(proto, state, now + CreateTimeout(proto, flag), FirstHeard(flag))
<1> DEFINE h    == FirstHeard(flag)
           wait == CreateTimeout("tcp", flag)
<1> SUFFICES ASSUME proto = "tcp" PROVE Agrees("tcp", "Established", now + wait, h)
  BY Zenon DEF Agrees
<1>1. h.at = now /\ h.opened = flag /\ h.rst = FALSE /\ h.fins = {} BY Zenon DEF FirstHeard
<1> HIDE DEF h
<1>2. wait \in Nat /\ (wait < TcpIdle <=> flag # "none")
  BY TimeoutAssumption, SMT DEF CreateTimeout, ProtocolIdleTimeout, Flags
<1> HIDE DEF wait
<1>3. now + wait < now + TcpIdle <=> wait < TcpIdle BY <1>2, TimeoutAssumption, SMT
<1>4. MayEndEarly(h) <=> flag # "none" BY <1>1, Zenon DEF MayEndEarly
<1>5. HeardState(FALSE, {}) = "Established" BY Zenon DEF HeardState
<1> QED BY <1>1, <1>2, <1>3, <1>4, <1>5, Zenon DEF Agrees

LEMMA OutgoingHeard ==
  ASSUME NEW flow, NEW io, NEW flag \in Flags, Inv, HeardInv, Outgoing(flow, io, flag)
  PROVE  HeardInv'
<1> DEFINE has == HasSession(table, flow, io.ifindex)
           id  == table.by_key[SessionKey(flow, io.ifindex)]
           new == table.next_session_id
<1>0. now' = now BY Zenon DEF Outgoing
<1>1. CASE has
  <2>1. table' = TouchTcp(table, id, flag, FALSE, now) /\ heard' = Hear(id, flag, "forward")
    BY <1>1, Zenon DEF Outgoing, GetOrCreate
  <2>2. id \in DOMAIN table.sessions /\ IsTable(table)
    BY <1>1, Zenon DEF HasSession, Inv, TableInv, TableConsistent, KeyIndexExact
  <2>3. \A i \in DOMAIN table.sessions : SessionAgrees(table.sessions[i], heard[i])
    BY Zenon DEF HeardInv
  <2> QED BY <1>0, <2>1, <2>2, <2>3, TouchHeard, Zenon
<1>2. CASE ~has /\ CanCreate(table, flow, now)
  <2>1. /\ table' = Create(table, Worker, flow, io, 1, flag, now)
        /\ heard' = Put(heard, new, FirstHeard(flag))
    BY <1>2, Zenon DEF Outgoing, GetOrCreate, NoSession, HeardInv
  <2> DEFINE s == table'.sessions[new]
  <2>2. /\ DOMAIN table'.sessions = DOMAIN table.sessions \cup {new}
        /\ s.original = flow /\ s.expires_at = now + CreateTimeout(flow.proto, flag)
        /\ flow.proto = "tcp" => s.tcp_state = "Established"
        /\ table'.next_session_id = new + 1
        /\ \A i \in DOMAIN table.sessions \ {new} : table'.sessions[i] = table.sessions[i]
    BY <2>1, Zenon DEF Create, Put
  <2>3. /\ DOMAIN heard' = DOMAIN heard \cup {new}
        /\ heard'[new] = FirstHeard(flag)
        /\ \A i \in DOMAIN heard \ {new} : heard'[i] = heard[i]
    BY <2>1, Zenon DEF Put
  <2> HIDE DEF s
  <2>4. SessionAgrees(s, heard'[new])
    <3>1. Agrees(flow.proto, s.tcp_state, now + CreateTimeout(flow.proto, flag), FirstHeard(flag))
      BY <2>2, FirstAgrees, Zenon DEF HeardInv
    <3> QED BY <2>2, <2>3, <3>1, Zenon DEF SessionAgrees
  <2>5. new + 1 \in Nat \ {0} BY SMT DEF HeardInv
  <2> QED BY <1>0, <2>2, <2>3, <2>4, <2>5, Zenon DEF HeardInv, s
<1>3. CASE ~has /\ ~CanCreate(table, flow, now)
  <2>1. table' = [table EXCEPT !.nat = AllocateFailed(table.nat, new, flow, now)] /\ heard' = heard
    BY <1>3, Zenon DEF Outgoing, GetOrCreate
  <2>2. table'.sessions = table.sessions /\ table'.next_session_id = table.next_session_id
    BY <2>1, Zenon DEF Inv, TableInv, IsTable
  <2> QED BY <1>0, <2>1, <2>2, Zenon DEF HeardInv
<1> QED BY <1>1, <1>2, <1>3, Zenon

LEMMA RemovedHeard ==
  ASSUME NEW ids, Inv, HeardInv, table' = RemoveSessions(table, ids, now),
         heard' = Restrict(heard, DOMAIN heard \ ids), now' = now
  PROVE  HeardInv'
<1>1. /\ table'.sessions = Restrict(table.sessions, DOMAIN table.sessions \ ids)
      /\ table'.next_session_id = table.next_session_id
  BY Zenon DEF RemoveSessions, Inv, TableInv, IsTable
<1> QED BY <1>1, Zenon DEF HeardInv, Restrict

LEMMA HeardStep == Inv /\ HeardInv /\ [Next]_vars => HeardInv'
<1> SUFFICES ASSUME Inv, HeardInv, [Next]_vars PROVE HeardInv'
  BY Zenon
<1>1. ASSUME NEW flow, NEW io, NEW flag \in Flags, Outgoing(flow, io, flag) PROVE HeardInv'
  BY <1>1, OutgoingHeard, Zenon
<1>2. ASSUME NEW rkey, NEW io, NEW flag, Incoming(rkey, io, flag) PROVE HeardInv'
  <2>1. PICK locator \in ReverseLocator(table, Worker, rkey) :
          /\ table' = TouchTcp(CorrectInterceptIo(table, locator.session_id, io),
                               locator.session_id, flag, TRUE, now)
          /\ heard' = Hear(locator.session_id, flag, "reverse")
          /\ now' = now
    BY <1>2, Zenon DEF Incoming
  <2> DEFINE id == locator.session_id
             t  == CorrectInterceptIo(table, id, io)
  <2>2. id \in DOMAIN table.sessions BY Zenon DEF ReverseLocator
  <2> HIDE DEF id
  <2>3. IsTable(t) BY <2>2, CorrectInterceptIoInv, Zenon DEF Inv, TableInv
  <2>4. /\ DOMAIN t.sessions = DOMAIN table.sessions
        /\ t.next_session_id = table.next_session_id
        /\ \A i \in DOMAIN table.sessions : \A h :
             SessionAgrees(table.sessions[i], h) => SessionAgrees(t.sessions[i], h)
    BY <2>2, CorrectState, Zenon DEF Inv, TableInv
  <2>5. table' = TouchTcp(t, id, flag, TRUE, now) /\ heard' = Hear(id, flag, "reverse")
    BY <2>1, Zenon DEF id
  <2> HIDE DEF t
  <2>6. \A i \in DOMAIN table.sessions : SessionAgrees(t.sessions[i], heard[i])
    BY <2>4, Zenon DEF HeardInv
  <2> QED BY <2>1, <2>2, <2>3, <2>4, <2>5, <2>6, TouchHeard, Zenon
<1>3. ASSUME NEW id, DropSession(id) PROVE HeardInv'
  BY <1>3, RemovedHeard, Zenon DEF DropSession
<1>4. CASE ExpireIdle BY <1>4, RemovedHeard, Zenon DEF ExpireIdle
<1>5. ASSUME NEW nat, table' = [table EXCEPT !.nat = nat], UNCHANGED <<heard, now>>
      PROVE  HeardInv'
  <2>1. table'.sessions = table.sessions /\ table'.next_session_id = table.next_session_id
    BY <1>5, Zenon DEF Inv, TableInv, IsTable
  <2> QED BY <1>5, <2>1, Zenon DEF HeardInv
<1>6. ASSUME NEW flow, TakeDnsBinding(flow) PROVE HeardInv'
  BY <1>5, <1>6, Zenon DEF TakeDnsBinding, AllocateEphemeral
<1>7. ASSUME NEW token, ReleaseDnsBinding(token) PROVE HeardInv'
  BY <1>5, <1>7, Zenon DEF ReleaseDnsBinding, ReleaseEphemeral
<1>8. CASE Tick
  <2>1. now' \in Nat BY <1>8, SMT DEF Tick, HeardInv
  <2> QED BY <1>8, <2>1, Zenon DEF Tick, HeardInv
<1>9. CASE UNCHANGED vars BY <1>9, Zenon DEF vars, HeardInv
<1>10. \A proto : FlagsOf(proto) \subseteq Flags BY Zenon DEF FlagsOf, Flags
<1> QED BY <1>1, <1>2, <1>3, <1>4, <1>6, <1>7, <1>8, <1>9, <1>10, Zenon DEF Next, Steps

LEMMA HeardInit == Init => HeardInv
BY DEF Init, HeardInv, NewTable, EmptyMap

(* Whatever packets of both directions, resets, expiries and drops come in *)
(* whatever order, a TCP session's deadline is earlier than the idle       *)
(* timeout after its last packet exactly when its packets said that it is  *)
(* over.                                                                   *)
THEOREM EarlyExpiryIsEarned == Spec => []EarlyExpiryEarned
<1>1. HeardInv => EarlyExpiryEarned
  BY Zenon DEF HeardInv, SessionAgrees, Agrees, EarlyExpiryEarned
<1>2. Init => Inv BY NewTableInv, Zenon DEF Init, Inv
<1> QED BY <1>1, <1>2, InvStep, HeardInit, HeardStep, PTL DEF Spec
=============================================================================
