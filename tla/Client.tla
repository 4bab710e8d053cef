------------------------------- MODULE Client -------------------------------
(***************************************************************************)
(* Client Protocol State Machine: client_state_handle and                  *)
(* client_event_handle (client.c) with the libcore.c calls they make.      *)
(* One client process runs per connection; the key slots of its device     *)
(* (CLIENT_KEY_SLOT, CLIENT_KEK_SLOT) outlive the process.                 *)
(***************************************************************************)
EXTENDS Naturals, Transport, Wire, Engine

CONSTANTS
    Device,         \* devices the client program runs on
    Password        \* passwords given with -c, as <<32-byte prefix, rest>>

VARIABLES
    cst,        \* g_client_state
    dev,        \* the device this client process runs on
    cmd,        \* client_packet.cmd: "BACKUP" or "RESTORE"
    pw,         \* client_packet.passwd
    typedMac,   \* client_packet.macaddress, the -m text (restore only)
    cRecv,      \* client_packet.recv_buf
    cSend,      \* client_packet.send_buf
    cSendLen,   \* client_packet.send_buf_size
    devKey,     \* CLIENT_KEY_SLOT of each device
    devKek,     \* CLIENT_KEK_SLOT of each device
    cReport,    \* the outcome line the client printed
    cFault      \* an engine call of this client process has failed

cvars == <<cst, dev, cmd, pw, typedMac, cRecv, cSend, cSendLen, devKey,
           devKek, cReport, cFault>>

-----------------------------------------------------------------------------
(* The libcore.c packet builders the client calls.                         *)

\* Variant of WrapPacket whose tag is the HMAC of the slot as it was
\* before generate_key.
WrapPacketStaleTag(f, key, kek) ==
    [ZeroBuf EXCEPT !.ev   = IF Reached(f, 2) THEN "BACKUP_KEY" ELSE "NONE",
                    !.fp   = IF Reached(f, 2) THEN Fingerprint(pw) ELSE Zero,
                    !.blob = IF Reached(f, 3) THEN Wrap(key, kek) ELSE ZeroBlob,
                    !.tag  = IF Reached(f, 4) THEN Hmac(devKey[dev]) ELSE Zero]

\* client_wrap_packet: memset of send_buf, then generate_key (call 1),
\* the password HMAC (2), export of CLIENT_KEY_SLOT under CLIENT_KEK_SLOT
\* (3) and the HMAC of CLIENT_KEY_SLOT (4); the first failure ends it.
WrapPacket(f, key, kek) ==
    [ZeroBuf EXCEPT !.ev   = IF Reached(f, 2) THEN "BACKUP_KEY" ELSE "NONE",
                    !.fp   = IF Reached(f, 2) THEN Fingerprint(pw) ELSE Zero,
                    !.blob = IF Reached(f, 3) THEN Wrap(key, kek) ELSE ZeroBlob,
                    !.tag  = IF Reached(f, 4) THEN Hmac(key) ELSE Zero]

\* Variant of RequireWrapPacket that leaves the fingerprint zeroed.
RequireWrapPacketNoFp(f) ==
    [ZeroBuf EXCEPT !.mac = typedMac,
                    !.ev  = IF Reached(f, 1) THEN "RESTORE_KEY" ELSE "NONE"]

\* client_require_wrap_packet: memset, the -m text, the password HMAC.
RequireWrapPacket(f) ==
    [ZeroBuf EXCEPT !.mac = typedMac,
                    !.ev  = IF Reached(f, 1) THEN "RESTORE_KEY" ELSE "NONE",
                    !.fp  = IF Reached(f, 1) THEN Fingerprint(pw) ELSE Zero]

\* generate_key: generate_salt (get_net_interface's popen, get_macaddr,
\* pufs_get_uid; the salt it builds is not passed on), then
\* pufs_gen_aes_key, which derives the device key into CLIENT_KEY_SLOT.
\* The first failure (call 1 of client_wrap_packet) leaves the slot.
GenerateKey(f) ==
    IF Reached(f, 1) THEN [devKey EXCEPT ![dev] = DevKey(dev)] ELSE devKey

\* edch_packet: ecdh_keys, then the two public keys in send_buf.
EcdhPacket == [cSend EXCEPT !.pk = ClientKp(dev, conn)]

\* ecdh_exchange_handle: generate_ecdh_kek from this connection's key
\* pair and the public keys in recv_buf.
ClientKek(buf) == SessionKek(ClientKp(dev, conn), buf.pk)

\* send_to_server of send_buf; a negative result ends in ERROR, and the
\* loop exit shuts the connection down.
SendToServer(next) ==
    \E ok \in SendResults(sClosed):
        /\ c2s' = Deliver(c2s, Transmit(cSend', cSendLen'), ok, sClosed)
        /\ cst' = IF ok THEN next ELSE "ERROR"
        /\ cClosed' = ~ok

-----------------------------------------------------------------------------
(* One action per state of client_state_handle.                            *)

\* Entry: g_client_state = CONNECTED, then pufs_start, which fails when
\* the engine mutex is busy (another process on the device holds it) or
\* pufs_cmd_iface_init fails; the function then returns and main closes
\* the connection.
ClientStart(busy) ==
    /\ ~cClosed
    /\ cst = "INIT"
    /\ cst' = "CONNECTED"
    /\ \E f \in FailAt(1):
          LET started == Acquired(busy) /\ f # 1
          IN  /\ cClosed' = ~started
              /\ cFault' = ~started
    /\ UNCHANGED <<dev, cmd, pw, typedMac, cRecv, cSend, cSendLen, devKey,
                   devKek, cReport, c2s, s2c, link, sClosed, conn>>

\* CONNECTED: edch_packet (ecdh_keys, then the public keys and the size of
\* send_buf), then send_to_server.
ClientConnected ==
    /\ ~cClosed
    /\ cst = "CONNECTED"
    /\ \/ /\ EngineFaults                  \* ecdh_keys failed
          /\ cst' = "ERROR"
          /\ cClosed' = TRUE
          /\ cFault' = TRUE
          /\ UNCHANGED <<cSend, cSendLen, c2s>>
       \/ /\ cSend' = EcdhPacket
          /\ cSendLen' = "ECDH"
          /\ SendToServer("ECDH_SHARED")
          /\ UNCHANGED cFault
    /\ UNCHANGED <<dev, cmd, pw, typedMac, cRecv, devKey, devKek, cReport,
                   s2c, link, sClosed, conn>>

\* ECDH_SHARED or CLIENT_HANDLER: recv_from_server returned < 0; the loop
\* breaks out of the switch and reads again in the same state.
ClientRecvRetry ==
    /\ ~cClosed
    /\ cst \in {"ECDH_SHARED", "CLIENT_HANDLER"}
    /\ RecvFails
    /\ UNCHANGED <<cvars, tvars>>

\* ECDH_SHARED: recv_from_server returned >= 0 (0 leaves recv_buf as it
\* was).  On an ECDH_EXCHANGE event client_event_handle derives the KEK
\* and builds the backup or restore packet; whatever its outcome, send_buf
\* is then sent and the state becomes CLIENT_HANDLER.  The "Incorrect
\* event" branch to ERROR is left out: the server's answer echoes the
\* request's event, and a stale recv_buf holds client_packet_init's
\* ECDH_EXCHANGE header, so the event here is always ECDH_EXCHANGE.
ClientEcdhShared ==
    /\ ~cClosed
    /\ cst = "ECDH_SHARED"
    /\ RecvReturns(s2c, sClosed)
    /\ LET buf == Overlay(cRecv, Received(s2c))
           kek == ClientKek(buf)
       IN  /\ cRecv' = buf
           /\ s2c' = Consume(s2c)
           /\ buf.ev = "ECDH_EXCHANGE"
           /\ \/ /\ EngineFaults \/ ~ValidPoint(buf.pk)  \* generate_ecdh_kek failed
                 /\ cFault' = TRUE
                 /\ UNCHANGED <<cSend, cSendLen, devKey, devKek>>
                 /\ SendToServer("CLIENT_HANDLER")
              \/ /\ ValidPoint(buf.pk)
                 /\ devKek' = [devKek EXCEPT ![dev] = kek]
                 /\ cSendLen' = "WRAP"
                 /\ \/ /\ cmd = "BACKUP"
                       /\ \E f \in FailAt(4):
                            /\ devKey' = GenerateKey(f)
                            /\ cSend' = WrapPacket(f, devKey'[dev], kek)
                            /\ cFault' = (f # 0)
                    \/ /\ cmd = "RESTORE"
                       /\ \E f \in FailAt(1):
                            /\ cSend' = RequireWrapPacket(f)
                            /\ cFault' = (f # 0)
                       /\ UNCHANGED devKey
                 /\ SendToServer("CLIENT_HANDLER")
    /\ UNCHANGED <<dev, cmd, pw, typedMac, cReport, link, sClosed, conn>>

\* client_import_wrap: import of the received blob into CLIENT_KEY_SLOT
\* under CLIENT_KEK_SLOT (call 1), HMAC of the slot (call 2), and the
\* comparison with the received tag; it prints "Restore OK" or
\* "Restore Fail!" only when both calls succeed.
ClientImportWrap(buf) ==
    \E f \in FailAt(2):
        LET imported == Reached(f, 1) /\ Unwraps(buf.blob, devKek[dev])
            digested == imported /\ Reached(f, 2)
        IN  /\ devKey' = IF imported
                         THEN [devKey EXCEPT ![dev] = buf.blob.key]
                         ELSE devKey
            /\ cReport' = IF ~digested THEN "none"
                          ELSE IF buf.tag = Hmac(devKey'[dev]) THEN "RestoreOK"
                          ELSE "RestoreFail"
            /\ cFault' = (cFault \/ ~digested)

\* client_event_handle for the two events CLIENT_HANDLER passes to it:
\* RESTORE_KEY runs client_import_wrap, whose result is only logged;
\* FINAL_RESULT prints "key backup OK" or "key backup FAIL" after the
\* server's result (its FINISH or ERROR is overwritten by the caller).
ClientEventHandle(buf) ==
    \/ /\ buf.ev = "RESTORE_KEY"
       /\ ClientImportWrap(buf)
    \/ /\ buf.ev = "FINAL_RESULT"
       /\ cReport' = IF buf.result = "SUCCESS" THEN "BackupOK" ELSE "BackupFAIL"
       /\ UNCHANGED <<devKey, cFault>>

\* CLIENT_HANDLER: recv_from_server returned >= 0; a FINAL_RESULT or
\* RESTORE_KEY event goes to client_event_handle and then to FINISH,
\* any other event to ERROR.  The loop then ends and the connection is
\* shut down.
ClientHandler ==
    /\ ~cClosed
    /\ cst = "CLIENT_HANDLER"
    /\ RecvReturns(s2c, sClosed)
    /\ LET buf == Overlay(cRecv, Received(s2c))
       IN  /\ cRecv' = buf
           /\ s2c' = Consume(s2c)
           /\ \/ /\ ClientEventHandle(buf)
                 /\ cst' = "FINISH"
              \/ /\ buf.ev \notin {"RESTORE_KEY", "FINAL_RESULT"}
                 /\ cst' = "ERROR"
                 /\ UNCHANGED <<devKey, cReport, cFault>>
    /\ cClosed' = TRUE
    /\ UNCHANGED <<dev, cmd, pw, typedMac, cSend, cSendLen, devKek, c2s, link,
                   sClosed, conn>>

\* busy: another process of the device holds the engine mutex.
ClientNext(busy) ==
    \/ ClientStart(busy)
    \/ ClientConnected
    \/ ClientRecvRetry
    \/ ClientEcdhShared
    \/ ClientHandler
=============================================================================
