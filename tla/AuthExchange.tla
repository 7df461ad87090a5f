---------------------------- MODULE AuthExchange ----------------------------
(***************************************************************************)
(* The authentication of a connection (src/src/quic_engine.rs): request,   *)
(* response, confirm and complete on a reliable stream, each with a MAC    *)
(* over the nonces and the exporter of the TLS session.  A MAC is the      *)
(* tuple of what it covers; random nonces are the connection's number.     *)
(***************************************************************************)
EXTENDS Integers

CONSTANT None

NoAuth == [client_nonce |-> None, server_nonce |-> None,
           authenticate_after_flush |-> FALSE, authenticated |-> FALSE]

Mac(key, kind, client_nonce, server_nonce, exporter) ==
  <<key, kind, client_nonce, server_nonce, exporter>>

(* queue_auth_frame: the frame. *)
AuthFrame(key, kind, client_nonce, server_nonce, exporter) ==
  [kind |-> kind, client_nonce |-> client_nonce, server_nonce |-> server_nonce,
   mac |-> Mac(key, kind, client_nonce, server_nonce, exporter)]

(* What a frame leads to: the new state, a frame to send, and whether the  *)
(* connection has just authenticated or is lost.                           *)
Outcome(auth, reply, now, lost) == [auth |-> auth, reply |-> reply, now |-> now, lost |-> lost]

(* start_client_authentication. *)
StartClient(key, gen) ==
  Outcome([NoAuth EXCEPT !.client_nonce = gen], AuthFrame(key, "request", gen, None, gen), FALSE, FALSE)

(* The frames a state expects, with the MAC of the receiver's own key. *)
Expected(role, key, gen, a, f) ==
  /\ f.mac = Mac(key, f.kind, f.client_nonce, f.server_nonce, gen)
  /\ \/ role = "server" /\ f.kind = "request" /\ f.server_nonce = None
     \/ role = "client" /\ f.kind = "response" /\ a.client_nonce = f.client_nonce /\ f.server_nonce # None
     \/ /\ f.kind = IF role = "server" THEN "confirm" ELSE "complete"
        /\ a.client_nonce = f.client_nonce /\ a.server_nonce = f.server_nonce

(* Variant: the client has authenticated when it confirms. *)
HandleAuthFrameEarly(role, key, gen, a, f, blocked) ==
  IF ~Expected(role, key, gen, a, f) THEN Outcome(a, None, FALSE, TRUE)
  ELSE IF f.kind = "request"
  THEN Outcome([a EXCEPT !.client_nonce = f.client_nonce, !.server_nonce = gen],
               AuthFrame(key, "response", f.client_nonce, gen, gen), FALSE, FALSE)
  ELSE IF f.kind = "response"
  THEN Outcome([a EXCEPT !.server_nonce = f.server_nonce, !.authenticated = TRUE],
               AuthFrame(key, "confirm", f.client_nonce, f.server_nonce, gen), TRUE, FALSE)
  ELSE IF f.kind = "confirm" /\ blocked
  THEN Outcome([a EXCEPT !.authenticate_after_flush = TRUE], None, FALSE, FALSE)
  ELSE IF f.kind = "confirm"
  THEN Outcome([a EXCEPT !.authenticated = TRUE],
               AuthFrame(key, "complete", f.client_nonce, f.server_nonce, gen), TRUE, FALSE)
  ELSE Outcome([a EXCEPT !.authenticated = TRUE], None, TRUE, FALSE)

(* handle_auth_frame; blocked says whether the stream takes no more now,   *)
(* in which case "complete" is sent by a later flush.                      *)
HandleAuthFrame(role, key, gen, a, f, blocked) ==
  IF ~Expected(role, key, gen, a, f) THEN Outcome(a, None, FALSE, TRUE)
  ELSE IF f.kind = "request"
  THEN Outcome([a EXCEPT !.client_nonce = f.client_nonce, !.server_nonce = gen],
               AuthFrame(key, "response", f.client_nonce, gen, gen), FALSE, FALSE)
  ELSE IF f.kind = "response"
  THEN Outcome([a EXCEPT !.server_nonce = f.server_nonce],
               AuthFrame(key, "confirm", f.client_nonce, f.server_nonce, gen), FALSE, FALSE)
  ELSE IF f.kind = "confirm" /\ blocked
  THEN Outcome([a EXCEPT !.authenticate_after_flush = TRUE], None, FALSE, FALSE)
  ELSE IF f.kind = "confirm"
  THEN Outcome([a EXCEPT !.authenticated = TRUE],
               AuthFrame(key, "complete", f.client_nonce, f.server_nonce, gen), TRUE, FALSE)
  ELSE Outcome([a EXCEPT !.authenticated = TRUE], None, TRUE, FALSE)

(* flush_auth_stream, when the stream takes the "complete" that waited. *)
Flush(key, gen, a) ==
  IF a.authenticate_after_flush
  THEN Outcome([a EXCEPT !.authenticate_after_flush = FALSE, !.authenticated = TRUE],
               AuthFrame(key, "complete", a.client_nonce, a.server_nonce, gen), TRUE, FALSE)
  ELSE Outcome(a, None, FALSE, FALSE)
=============================================================================
