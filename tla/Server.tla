------------------------------- MODULE Server -------------------------------
(***************************************************************************)
(* Server Protocol State Machine: server_state_handle and                  *)
(* server_event_handle (server.c) with the libcore.c calls they make.      *)
(* The server handles one connection at a time, and its server_packet      *)
(* (buffers, MAC address) and key slots are kept from one connection to    *)
(* the next: main clears server_packet once, before the accept loop.       *)
(***************************************************************************)
EXTENDS Naturals, Transport, KeyStore, Wire, Engine

CONSTANT KeyDirGiven     \* whether the server was started with -d <dir>

VARIABLES
    sst,        \* g_server_state
    sRecv,      \* server_packet.recv_buf
    sSend,      \* server_packet.send_buf
    sSendLen,   \* server_packet.send_buf_size
    srvMac,     \* server_packet.macaddress, set by query_arp
    srvKp,      \* the key pair in SERVER_EPHEMERAL/STATIC_PRIVATE_SLOT
    srvKek,     \* SERVER_KEK_SLOT
    srvKey,     \* SERVER_KEY_SLOT
    srvWrapKek  \* SERVER_WRAP_KEK_SLOT

svars == <<sst, sRecv, sSend, sSendLen, srvMac, srvKp, srvKek, srvKey,
           srvWrapKek, store>>

\* save_to_file names the file <macaddress>_<hex>.bin, relative to the
\* working directory; read_from_file prefixes key_file_path, which is
\* empty unless -d was given.
\* server_packet_init after main's memset: the event of recv_buf is
\* ECDH_EXCHANGE, everything else zero.
ServerPacketInit == [ZeroBuf EXCEPT !.ev = "ECDH_EXCHANGE"]

SaveDir == "cwd"
ReadDir == IF KeyDirGiven THEN "keydir" ELSE "cwd"

\* query_arp: the colons of the ARP table's MAC text are dropped.
ArpMac(d) == [dev |-> d, colons |-> FALSE]

\* Variant of ServerAccept whose query_arp result is never copied into
\* macaddress.
ServerAcceptStale(d, hit) == srvMac' = srvMac

\* main's accept loop: query_arp copies the MAC of the peer's IP when the
\* ARP table has it, and returns 0 with macaddress unchanged when it does
\* not.
ServerAccept(d, hit) ==
    srvMac' = IF hit THEN ArpMac(d) ELSE srvMac

\* Variant of SaveFileName naming the file by the record's macaddr, as
\* read_from_file does, instead of the ARP address.
SaveFileNameRecMac(rec) == FileName(SaveDir, rec.mac, rec.fp)

\* save_to_file: strcat of macaddress, "_", the hex of cipher, ".bin".
SaveFileName(rec) == FileName(SaveDir, srvMac, rec.fp)

\* Variant of RestoreFileName naming the file by the ARP address of the
\* connected device instead of the request's macaddr.
RestoreFileNameArp(buf) == FileName(ReadDir, srvMac, buf.fp)

\* read_from_file: key_file_path, the request's macaddr, "_", the hex of
\* cipher, ".bin".
RestoreFileName(buf) == FileName(ReadDir, buf.mac, buf.fp)

\* server_import_wrap: memcmp of the first 32 bytes of the received
\* hmac_key with the HMAC of SERVER_KEY_SLOT.
TagMatches(buf, key) == buf.tag = Hmac(key)

-----------------------------------------------------------------------------
(* server_event_handle's handlers.                                         *)

\* ecdh_exchange_handle and the send that follows it in CONNECTED: the
\* header of the request is copied into send_buf; ecdh_keys (whose failure
\* is only logged) writes the new public keys into send_buf, failing
\* either before the key pair is replaced (ek = 1) or after it is replaced
\* but before its public keys are written (ek = 2); generate_ecdh_kek
\* (call g) derives SERVER_KEK_SLOT.  send_buf_size is set, so send_buf
\* is sent whatever the outcome.
EcdhExchangeHandle(buf) ==
    \E ek \in FailAt(2), g \in FailAt(1), ok \in SendResults(cClosed):
        LET kp == IF ek = 1 THEN srvKp ELSE ServerKp(conn)
            kekOk == g = 0 /\ ValidPoint(buf.pk)
        IN  /\ srvKp' = kp
            /\ sSend' = [sSend EXCEPT !.ev = buf.ev,
                                      !.pk = IF ek = 0 THEN kp ELSE @]
            /\ sSendLen' = "ECDH"
            /\ srvKek' = IF kekOk THEN SessionKek(kp, buf.pk) ELSE srvKek
            /\ sst' = IF kekOk THEN "ECDH_SHARED" ELSE "ERROR"
            /\ s2c' = Deliver(s2c, Transmit(sSend', "ECDH"), ok, cClosed)

\* BACKUP_KEY: server_import_wrap imports the blob into SERVER_KEY_SLOT
\* under SERVER_KEK_SLOT and compares the HMAC of the slot with the tag
\* (first failing call f).  server_export_to_file derives the custody KEK
\* into SERVER_KEK_SLOT and exports the slot under it into recv_buf
\* (first failing call e), but its RET label calls save_to_file whatever
\* happened and returns only its result: fopen or fwrite (first failing
\* call w).  Success queues a FINAL_RESULT.
BackupKey(buf) ==
    \E f \in FailAt(2), e \in FailAt(2), w \in FileFailAt(2):
        LET imported == Reached(f, 1) /\ Unwraps(buf.blob, srvKek)
            key      == IF imported THEN buf.blob.key ELSE srvKey
            verified == imported /\ Reached(f, 2) /\ TagMatches(buf, key)
            kek      == IF Reached(e, 1) THEN CustodyKek ELSE srvKek
            rec      == [buf EXCEPT !.blob = IF e = 0 THEN Wrap(key, kek) ELSE @]
            name     == SaveFileName(rec)
        IN  /\ srvKey' = key
            /\ \/ /\ ~verified
                  /\ sRecv' = buf
                  /\ sst' = "ERROR"
                  /\ UNCHANGED <<srvKek, store, sSend, sSendLen>>
               \/ /\ verified
                  /\ srvKek' = kek
                  /\ sRecv' = rec
                  /\ \/ /\ w = 0
                        /\ store' = Saved(name, RecordOf(rec))
                        /\ sSend' = [sSend EXCEPT !.ev = "FINAL_RESULT",
                                                  !.result = "SUCCESS"]
                        /\ sSendLen' = "RESULT"
                        /\ sst' = "SERVER_HANDLER"
                     \/ /\ w = 1
                        /\ sst' = "ERROR"
                        /\ UNCHANGED <<store, sSend, sSendLen>>
                     \/ /\ w = 2
                        /\ store' = Saved(name, Truncated)
                        /\ sst' = "ERROR"
                        /\ UNCHANGED <<sSend, sSendLen>>

\* server_wrap_packet: send_buf (a copy of recv_buf) becomes a
\* RESTORE_KEY packet, and SERVER_KEY_SLOT is exported under the
\* session KEK into its blob unless the export fails.
ServerWrapPacket(buf, key, exported) ==
    [buf EXCEPT !.ev = "RESTORE_KEY",
                !.blob = IF exported THEN Wrap(key, srvKek) ELSE @]

\* RESTORE_KEY: server_import_from_file reads the record named by the
\* request's MAC text and fingerprint over recv_buf (a failed read is only
\* logged), copies recv_buf to send_buf, derives the custody KEK into
\* SERVER_WRAP_KEK_SLOT (call 1) and imports the record's blob under it
\* (call 2); server_wrap_packet then exports SERVER_KEY_SLOT under the
\* session KEK (call 3) as a RESTORE_KEY packet.
RestoreKey(buf) ==
    \E f \in FailAt(3):
        LET name     == RestoreFileName(buf)
            rbuf     == IF Readable(name)
                        THEN [buf EXCEPT !.fp = store[name].fp,
                                         !.blob = store[name].blob,
                                         !.tag = store[name].tag,
                                         !.mac = store[name].mac]
                        ELSE buf
            wkek     == IF Reached(f, 1) THEN CustodyKek ELSE srvWrapKek
            imported == Reached(f, 1) /\ Reached(f, 2) /\ Unwraps(rbuf.blob, wkek)
            key      == IF imported THEN rbuf.blob.key ELSE srvKey
            exported == imported /\ Reached(f, 3)
        IN  /\ sRecv' = rbuf
            /\ srvWrapKek' = wkek
            /\ srvKey' = key
            /\ sSend' = IF imported
                        THEN ServerWrapPacket(rbuf, key, exported)
                        ELSE rbuf
            /\ sSendLen' = IF imported THEN "WRAP" ELSE sSendLen
            /\ sst' = IF exported THEN "SERVER_HANDLER" ELSE "ERROR"

-----------------------------------------------------------------------------
(* One action per state of server_state_handle.                            *)

\* Entry after accept: g_server_state = CONNECTED, then pufs_start; when
\* it fails the function returns and main shuts the connection down.
ServerStart ==
    /\ ~sClosed
    /\ sst = "INIT"
    /\ sst' = "CONNECTED"
    /\ \E f \in FailAt(1): sClosed' = (f = 1)
    /\ UNCHANGED <<sRecv, sSend, sSendLen, srvMac, srvKp, srvKek, srvKey,
                   srvWrapKek, store, c2s, s2c, link, cClosed, conn>>

\* CONNECTED: recv_from_client; a negative result sets ERROR but the event
\* is still read from recv_buf; an ECDH_EXCHANGE event is handled and
\* answered, any other event ends in ERROR.
ServerConnected ==
    /\ ~sClosed
    /\ sst = "CONNECTED"
    /\ CanRecv(c2s, cClosed)
    /\ LET buf == Overlay(sRecv, Received(c2s))
       IN  /\ sRecv' = buf
           /\ c2s' = Consume(c2s)
           /\ \/ /\ buf.ev = "ECDH_EXCHANGE"
                 /\ EcdhExchangeHandle(buf)
              \/ /\ buf.ev # "ECDH_EXCHANGE"
                 /\ sst' = "ERROR"
                 /\ UNCHANGED <<sSend, sSendLen, srvKp, srvKek, s2c>>
    /\ sClosed' = Terminal(sst')
    /\ UNCHANGED <<srvMac, srvKey, srvWrapKek, store, link, cClosed, conn>>

\* ECDH_SHARED: recv_from_client; a BACKUP_KEY or RESTORE_KEY event is
\* handled by server_event_handle, any other event ends in ERROR.
ServerEcdhShared ==
    /\ ~sClosed
    /\ sst = "ECDH_SHARED"
    /\ CanRecv(c2s, cClosed)
    /\ LET buf == Overlay(sRecv, Received(c2s))
       IN  /\ c2s' = Consume(c2s)
           /\ \/ /\ buf.ev = "BACKUP_KEY"
                 /\ BackupKey(buf)
                 /\ UNCHANGED srvWrapKek
              \/ /\ buf.ev = "RESTORE_KEY"
                 /\ RestoreKey(buf)
                 /\ UNCHANGED <<srvKek, store>>
              \/ /\ buf.ev \notin {"BACKUP_KEY", "RESTORE_KEY"}
                 /\ sRecv' = buf
                 /\ sst' = "ERROR"
                 /\ UNCHANGED <<sSend, sSendLen, srvKek, srvKey, srvWrapKek, store>>
    /\ sClosed' = Terminal(sst')
    /\ UNCHANGED <<srvMac, srvKp, s2c, link, cClosed, conn>>

\* SERVER_HANDLER: send_to_client of the queued response, then FINISH.
ServerHandler ==
    /\ ~sClosed
    /\ sst = "SERVER_HANDLER"
    /\ \E ok \in SendResults(cClosed):
          s2c' = Deliver(s2c, Transmit(sSend, sSendLen), ok, cClosed)
    /\ sst' = "FINISH"
    /\ sClosed' = TRUE
    /\ UNCHANGED <<sRecv, sSend, sSendLen, srvMac, srvKp, srvKek, srvKey,
                   srvWrapKek, store, c2s, link, cClosed, conn>>

ServerNext ==
    \/ ServerStart
    \/ ServerConnected
    \/ ServerEcdhShared
    \/ ServerHandler
=============================================================================
