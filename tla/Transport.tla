------------------------------ MODULE Transport ------------------------------
(***************************************************************************)
(* The TLS connection between one client process and the server:          *)
(* send_to_server / recv_from_server (client.c) and send_to_client /       *)
(* recv_from_client (server.c), i.e. SSL_write and SSL_read on a blocking  *)
(* socket.  Each SSL_write is delivered whole and in order.  A party that  *)
(* reached FINISH or ERROR shuts the connection down (SSL_shutdown and     *)
(* close), after which its peer's SSL_read returns 0 once the data in      *)
(* flight is read.  A reset breaks the link: every later SSL_read and      *)
(* SSL_write returns a negative value.                                     *)
(***************************************************************************)
EXTENDS Sequences

CONSTANT LinkFaults     \* whether the connection may be reset

VARIABLES
    c2s,        \* client-to-server bytes in flight, one entry per SSL_write
    s2c,        \* server-to-client bytes in flight
    link,       \* "up" or "broken" (reset)
    cClosed,    \* the client process has shut its side down (or not started)
    sClosed,    \* the server has shut the connection down (or not accepted)
    conn,       \* number of connections accepted so far
    cDone,      \* the client process has returned from close_ssl (or not started)
    sDone       \* the server has left its SSL_shutdown loop (or not accepted)

tvars == <<c2s, s2c, link, cClosed, sClosed, conn, cDone, sDone>>

\* Variant of Terminal that leaves the loop only in FINISH.
TerminalFinishOnly(s) == s = "FINISH"

\* A process leaves its state loop in FINISH or ERROR and shuts down.
Terminal(s) == s \in {"FINISH", "ERROR"}

\* Results SSL_write can return: it fails on a reset link, and after the
\* peer's shutdown the bytes are lost and the call may succeed or fail.
SendResults(peerClosed) ==
    IF link = "broken" THEN {FALSE}
    ELSE IF peerClosed THEN {TRUE, FALSE}
    ELSE {TRUE}

\* The channel after an SSL_write of msg that returned ok.
Deliver(ch, msg, ok, peerClosed) ==
    IF ok /\ ~peerClosed THEN Append(ch, msg) ELSE ch

\* SSL_read returns >= 0: data is in flight, or the peer has shut down
\* and the read returns 0.
RecvReturns(ch, peerClosed) == ch # <<>> \/ (link = "up" /\ peerClosed)

\* SSL_read returns a negative value: the link is reset.
RecvFails == link = "broken"

\* SSL_read does not block.
CanRecv(ch, peerClosed) == RecvReturns(ch, peerClosed) \/ RecvFails

\* The bytes SSL_read places in recv_buf: the next message, or nothing.
Received(ch) == IF ch # <<>> THEN Head(ch) ELSE <<>>

Consume(ch) == IF ch # <<>> THEN Tail(ch) ELSE ch

\* A reset: data in flight is dropped.
LinkBreak ==
    /\ LinkFaults
    /\ link = "up"
    /\ ~(cClosed /\ sClosed)
    /\ link' = "broken"
    /\ c2s' = <<>>
    /\ s2c' = <<>>
    /\ UNCHANGED <<cClosed, sClosed, conn, cDone, sDone>>

\* The first SSL_shutdown of a party sends its close_notify (cClosed,
\* sClosed); on the blocking socket every later call waits until the
\* peer's close_notify has arrived (it returns 1) or the link is reset
\* (it returns -1), so the do-while ends after the second call and its
\* shutdownCount > 10 exit is not taken.
ShutdownReturns(peerClosed) == peerClosed \/ link = "broken"

\* close_ssl (free_ssl_connect after client_state_handle returned): the
\* shutdown loop ends, the SSL object is freed (result 1) or only
\* reported (result -1), and the socket is closed.
ClientShutdown ==
    /\ cClosed /\ ~cDone
    /\ ShutdownReturns(sClosed)
    /\ cDone' = TRUE
    /\ UNCHANGED <<c2s, s2c, link, cClosed, sClosed, conn, sDone>>

\* server main after server_state_handle: the SSL_shutdown loop, close of
\* new_fd, and SSL_free on result 1; the server then returns to accept.
ServerShutdown ==
    /\ sClosed /\ ~sDone
    /\ ShutdownReturns(cClosed)
    /\ sDone' = TRUE
    /\ UNCHANGED <<c2s, s2c, link, cClosed, sClosed, conn, cDone>>
=============================================================================
