----------------------------- MODULE KeyBackup -----------------------------
(***************************************************************************)
(* The key backup system: client processes on a set of devices, each run  *)
(* for one connection, and the server that accepts one connection at a    *)
(* time (server.c main), sharing the key store in the server's working    *)
(* directory.  The client's key slots and the server's buffers, key slots *)
(* and MAC address survive from one connection to the next.  The device   *)
(* tools (encryptData, hmacKey) run as processes of their own beside the  *)
(* client on a device, sharing its key engine.                            *)
(***************************************************************************)
EXTENDS Naturals, Sequences, FiniteSets, KeyTools, Server

CONSTANTS
    MaxConn,    \* number of connections the server accepts
    ArpMiss,    \* whether query_arp may miss the peer's IP in /proc/net/arp
    ColonMacs,  \* whether the operator may type -m with colons
    ArpFileFaults \* whether query_arp may fail to open /proc/net/arp

VARIABLES
    backedUp,   \* history: <<device, password>> pairs whose backup printed OK
    listening,  \* server main: "boot", "up" in the accept loop, or "exited"
    stalled     \* the client process waits in SSL_connect on a dropped connection

vars == <<cvars, svars, tvars, toolvars, backedUp, listening, stalled>>

\* The -m texts a restore may be given: a device's MAC, with or without
\* the colons (client main lowercases the text but keeps its colons).
MacText == [dev: Device, colons: IF ColonMacs THEN BOOLEAN ELSE {FALSE}]

Init ==
    \* main of the server: memset of server_packet, server_packet_init.
    /\ sst = "INIT"
    /\ sRecv = ServerPacketInit
    /\ sSend = ZeroBuf
    /\ sSendLen = "NONE"
    /\ srvMac = ZeroMac
    /\ srvKp = NoKp /\ srvKek = NoKek /\ srvKey = NoKey /\ srvWrapKek = NoKek
    /\ store = [n \in {} |-> Truncated]
    \* No client process runs yet; every device's slots are empty.
    /\ cst = "INIT" /\ dev = "none" /\ cmd = "NONE" /\ pw = <<"none", "none">>
    /\ typedMac = ZeroMac
    /\ cRecv = EcdhInitBuf /\ cSend = EcdhInitBuf /\ cSendLen = "NONE"
    /\ devKey = [d \in Device |-> NoKey]
    /\ devKek = [d \in Device |-> NoKek]
    /\ cReport = "none" /\ cFault = FALSE
    /\ c2s = <<>> /\ s2c = <<>> /\ link = "up"
    /\ cClosed = TRUE /\ sClosed = TRUE /\ conn = 0
    /\ cDone = TRUE /\ sDone = TRUE
    /\ backedUp = {}
    /\ listening = "boot"
    /\ stalled = FALSE
    /\ ToolInit

\* create_ssl_ctx: SSL_CTX_new, server.crt, server.key, ca.crt (whose
\* failure exits the process) and, under -m, the client certificate
\* request; it succeeds, or the server does not get to its accept loop.
ServerSetupOutcomes == IF LinkFaults THEN {"up", "exited"} ELSE {"up"}

\* server main before its accept loop: getaddrinfo, socket and bind over
\* the addresses, listen, then create_ssl_ctx.  Any failure ends main
\* (it returns 4, 5, 6 or create_ssl_ctx's code).
ServerBoot ==
    /\ listening = "boot"
    /\ listening' \in ServerSetupOutcomes
    /\ UNCHANGED <<cvars, svars, tvars, toolvars, backedUp, stalled>>

\* A client process is started on device d with command c, password p
\* and (for restore) -m text m (client main: memset, option parsing,
\* client_packet_init, create_ssl_connect), and the server's accept loop
\* takes the connection (accept, query_arp, SSL_accept).  Server state
\* INIT stands for "accepted, server_state_handle not yet entered".
NewConnection ==
    /\ listening = "up"
    /\ cDone /\ sDone
    /\ conn < MaxConn
    /\ \E d \in Device, c \in {"BACKUP", "RESTORE"}, p \in Password,
          m \in MacText, hit \in (IF ArpMiss THEN BOOLEAN ELSE {TRUE}):
          /\ dev' = d /\ cmd' = c /\ pw' = p
          /\ typedMac' = IF c = "RESTORE" THEN m ELSE ZeroMac
          /\ ServerAccept(d, hit)
    /\ cst' = "INIT" /\ cRecv' = EcdhInitBuf /\ cSend' = EcdhInitBuf
    /\ cSendLen' = "NONE" /\ cReport' = "none" /\ cFault' = FALSE
    /\ sst' = "INIT"
    /\ conn' = conn + 1 /\ link' = "up" /\ c2s' = <<>> /\ s2c' = <<>>
    /\ cClosed' = FALSE /\ sClosed' = FALSE
    /\ cDone' = FALSE /\ sDone' = FALSE
    /\ UNCHANGED <<devKey, devKek, sRecv, sSend, sSendLen, srvKp, srvKek,
                   srvKey, srvWrapKek, store, toolvars, backedUp, listening,
                   stalled>>

\* A client process is started but create_ssl_connect fails (no address,
\* no connect, no certificate, or SSL_connect failing) and main returns
\* without running client_state_handle.  When the TCP connection was
\* accepted, the server has already run query_arp before its SSL_accept
\* failed, closed the socket and gone back to accept.  Only where the
\* connection itself may fail.
ConnectFails ==
    /\ LinkFaults
    /\ cDone /\ sDone
    /\ conn < MaxConn
    /\ \E d \in Device, c \in {"BACKUP", "RESTORE"}, p \in Password,
          m \in MacText, hit \in (IF ArpMiss THEN BOOLEAN ELSE {TRUE}):
          /\ dev' = d /\ cmd' = c /\ pw' = p
          /\ typedMac' = IF c = "RESTORE" THEN m ELSE ZeroMac
          /\ (listening = "up" /\ ServerAccept(d, hit)) \/ UNCHANGED srvMac
    /\ cst' = "INIT" /\ cReport' = "none" /\ cFault' = FALSE
    /\ conn' = conn + 1 /\ link' = "broken"
    /\ UNCHANGED <<cRecv, cSend, cSendLen, devKey, devKek, c2s, s2c, cClosed,
                   sClosed, sst, sRecv, sSend, sSendLen, srvKp, srvKek, srvKey,
                   srvWrapKek, store, toolvars, backedUp, cDone, sDone,
                   listening, stalled>>

\* A client process is started and connects, but the server's query_arp
\* cannot open /proc/net/arp: it returns 1 with macaddress unchanged and
\* the accept loop continues to the next accept() without SSL_accept and
\* without closing new_fd.  The client waits in SSL_connect for a
\* handshake nobody answers; the socket stays open and carries nothing,
\* so no reset ends the wait.  The process never reaches
\* client_state_handle (g_client_state stays INIT, no pufs_start).
ArpOpenFails ==
    /\ ArpFileFaults
    /\ listening = "up"
    /\ cDone /\ sDone
    /\ conn < MaxConn
    /\ \E d \in Device, c \in {"BACKUP", "RESTORE"}, p \in Password, m \in MacText:
          /\ dev' = d /\ cmd' = c /\ pw' = p
          /\ typedMac' = IF c = "RESTORE" THEN m ELSE ZeroMac
    /\ cst' = "INIT" /\ cReport' = "none" /\ cFault' = FALSE
    /\ conn' = conn + 1 /\ link' = "up" /\ c2s' = <<>> /\ s2c' = <<>>
    /\ cClosed' = FALSE /\ cDone' = FALSE
    /\ stalled' = TRUE
    /\ UNCHANGED <<cRecv, cSend, cSendLen, devKey, devKek, sClosed, sDone,
                   svars, store, toolvars, backedUp, listening>>

\* The client process holds its device's engine mutex from a successful
\* pufs_start until the loop exits and pufs_end is called (or the
\* process ends).
ClientHolds(d) == Mutex /\ ~cClosed /\ cst # "INIT" /\ dev = d

\* A client step; the history records a backup when "backup OK" is printed.
ClientStep ==
    /\ ClientNext(ToolHolds(dev))
    /\ backedUp' = IF cReport' = "BackupOK" /\ cReport # "BackupOK"
                   THEN backedUp \cup {<<dev, pw>>} ELSE backedUp
    /\ ~stalled
    /\ UNCHANGED <<svars, toolvars, cDone, sDone, listening, stalled>>
ServerStep == ServerNext /\ UNCHANGED <<cvars, toolvars, backedUp, cDone, sDone,
                                         listening, stalled>>
ClientExit == ClientShutdown /\ UNCHANGED <<cvars, svars, toolvars, backedUp, listening,
                                           stalled>>
ServerExit == ServerShutdown /\ UNCHANGED <<cvars, svars, toolvars, backedUp, listening,
                                           stalled>>
ToolStep   == ToolNext({d \in Device : ClientHolds(d)})
              /\ UNCHANGED <<cvars, svars, tvars, backedUp, listening, stalled>>
\* A reset ends only a connection both ends still use; a stalled client's
\* socket carries nothing to reset.
Reset      == ~stalled /\ LinkBreak
              /\ UNCHANGED <<cvars, svars, toolvars, backedUp, listening, stalled>>

Next ==
    \/ ServerBoot
    \/ NewConnection
    \/ ConnectFails
    \/ ArpOpenFails
    \/ ClientStep
    \/ ServerStep
    \/ ClientExit
    \/ ServerExit
    \/ ToolStep
    \/ Reset

\* Each process runs its state loop without waiting on anything but its
\* own socket, and a tool process only on its files: a step that is
\* enabled is eventually taken.
Spec == Init /\ [][Next]_vars /\ WF_vars(ClientStep) /\ WF_vars(ServerStep)
                               /\ WF_vars(ClientExit) /\ WF_vars(ServerExit)
                               /\ WF_vars(ToolStep) /\ WF_vars(ServerBoot)

-----------------------------------------------------------------------------
(* The escrow the record files hold: every record a restore can read and  *)
(* unwrap with the custody KEK, as the identity its name gives (the MAC's *)
(* device and the fingerprint) and the key its blob wraps.                *)

EscrowNames ==
    {n \in DOMAIN store : Readable(n) /\ Unwraps(store[n].blob, CustodyKek)}

Escrow ==
    LET Ident(n) == <<n[2].dev, n[3]>>
    IN  [id \in {Ident(n) : n \in EscrowNames} |->
            store[CHOOSE n \in EscrowNames : Ident(n) = id].blob.key]

Service == INSTANCE BackupService
               WITH Secret    <- {Fingerprint(p) : p \in Password},
                    DeviceKey <- DevKey,
                    escrow    <- Escrow,
                    slot      <- devKey

-----------------------------------------------------------------------------
(* Properties.                                                             *)

\* Every variable holds a value of its kind.
TypeOK ==
    /\ cst \in States \ {"SERVER_HANDLER"}
    /\ sst \in States \ {"CLIENT_HANDLER"}
    /\ cRecv.ev \in Events /\ sRecv.ev \in Events
    /\ cSendLen \in {"NONE", "ECDH", "WRAP", "RESULT"}
    /\ sSendLen \in {"NONE", "ECDH", "WRAP", "RESULT"}
    /\ \A d \in Device : devKey[d] \in {NoKey} \cup {DevKey(e) : e \in Device}
    /\ cReport \in {"none", "BackupOK", "BackupFAIL", "RestoreOK", "RestoreFail"}
    /\ \A n \in DOMAIN store :
          DOMAIN store[n] = {"fp", "blob", "tag", "mac"}
    /\ conn \in 0..MaxConn
    /\ link \in {"up", "broken"}
    /\ stalled \in BOOLEAN
    /\ tst \in {"idle", "running", "done", "failed"}
    /\ \A f \in {"in", "out"} : \A i \in DOMAIN files[f] :
          LET keys == {DevKey(e) : e \in Device}
          IN  files[f][i] \subseteq (keys \X keys)

\* A restore that the client ends in FINISH has placed, in the key slot
\* of the device it ran on, the key of the device whose MAC was typed
\* (client_state_handle CLIENT_HANDLER after client_import_wrap).
RestoreFinishDeliversKey ==
    (cst = "FINISH" /\ cmd = "RESTORE") => devKey[dev] = DevKey(typedMac.dev)

\* Once a backup client has printed "backup OK", from then on, through
\* every later connection whatever its outcome, the record a restore
\* reads for that device and password exists, holds the device key
\* wrapped under the server's custody KEK, and carries the key's HMAC
\* (server_export_to_file and save_to_file, read_from_file).
BackedUpKeysStayRestorable ==
    \A <<d, p>> \in backedUp :
        LET name == FileName(ReadDir, ArpMac(d), Fingerprint(p))
        IN  /\ Readable(name)
            /\ Unwraps(store[name].blob, CustodyKek)
            /\ store[name].blob.key = DevKey(d)
            /\ store[name].tag = Hmac(DevKey(d))

\* A restore over a healthy link, with the password of an earlier
\* successful backup of the device whose MAC was typed, prints
\* "Restore OK" (the whole exchange of both state machines and the key
\* store's naming on save and on read).
RestoreOfBackedUpKeySucceeds ==
    (/\ cClosed /\ sClosed /\ conn > 0
     /\ cmd = "RESTORE" /\ link = "up"
     /\ <<typedMac.dev, pw>> \in backedUp) => cReport = "RestoreOK"

\* A restore succeeds only with the password of a backup of the device
\* whose MAC was typed: "Restore OK" is printed only when an earlier
\* backup of that device used exactly this password (the file name holds
\* the fingerprint pufs_hmac computes from passwd).
RestoreNeedsBackupPassword ==
    (cmd = "RESTORE" /\ cReport = "RestoreOK") => <<typedMac.dev, pw>> \in backedUp

\* A backup client that printed "key backup OK" has, under the name a
\* restore of its device and password reads, a complete record on the
\* server's disk tagged with the key now in its slot.  The server queues
\* SUCCESS only when save_to_file returned 0 (server_export_to_file's
\* RET), after a failed fwrite has truncated nothing it answers; and the
\* client takes FINAL_RESULT only from the packets of this connection,
\* though a read returning 0 leaves the receive buffer as it was.
BackupOKMeansRecordOnDisk ==
    (cmd = "BACKUP" /\ cReport = "BackupOK") =>
        LET name == FileName(ReadDir, ArpMac(dev), Fingerprint(pw))
        IN  Readable(name) /\ store[name].tag = Hmac(devKey[dev])

\* Fail-closed client: a step in which an engine call of the client fails
\* sends nothing to the server (client_state_handle ECDH_SHARED).
ClientFailClosed ==
    [][~cFault /\ cFault' => Len(c2s') <= Len(c2s)]_vars

\* The key in a device's CLIENT_KEY_SLOT, once there is one, is replaced
\* only by a restore client on that device (client_import_wrap): a backup
\* escrows the key the device holds.  client_wrap_packet calls
\* generate_key before it wraps the slot, so a key restored onto another
\* device is lost at that device's next backup.
DeviceKeyReplacedOnlyByRestore ==
    [][\A d \in Device :
         devKey'[d] # devKey[d] =>
             devKey[d] = NoKey \/ (cmd = "RESTORE" /\ d = dev)]_vars

\* With the engine mutex compiled in, whatever an encryptData process
\* does and however it ends, every chunk of its file is either as it was
\* when the process started or XORed with the keystream of one and the
\* same device key, used both as IV source and as AES key.  aes_enc /
\* aes_dec read CLIENT_KEY_SLOT twice per chunk and a client on the same
\* device replaces the slot in generate_key and client_import_wrap; only
\* the trylock of pufs_start keeps those apart.
ToolChunksUnderOneKey ==
    \E k \in {DevKey(e) : e \in Device} :
        \A i \in DOMAIN files[ToolFile] \cap DOMAIN tBefore :
            files[ToolFile][i] \in {tBefore[i], Toggle(tBefore[i], Keystream(k, k))}

\* An encryptData process that exits with status 0 has XORed into every
\* chunk of the file one and the same keystream, that of a device key
\* used both as IV source and as AES key.  aes_enc / aes_dec read
\* CLIENT_KEY_SLOT twice per chunk, and a restore or backup client on the
\* same device may replace the slot between any two of those reads.
\* (A failed fopen or fwrite also ends main with 0.)
ToolZeroExitMeansFileTransformed ==
    (tst \in {"done", "failed"} /\ tkind # "hmac" /\ tExit = "zero") =>
        \E k \in {DevKey(e) : e \in Device} :
            files[ToolFile] = [i \in DOMAIN tBefore |-> Toggle(tBefore[i], Keystream(k, k))]

\* The system implements BackupService: every step of the clients, the
\* server and the tools either leaves the escrow held by the record files
\* and the devices' key slots alone, or is a Generate (generate_key in
\* client_wrap_packet), a Backup (save_to_file of a verified key under
\* the peer's MAC) or a Restore (client_import_wrap of a key read from a
\* record).
ServiceRefined == Service!Spec

\* A backup client that has connected to the listening server, on an
\* engine and file system that do not fail, eventually prints "key backup
\* OK", unless the link is reset first: the ECDH exchange, the wrap,
\* server_import_wrap's tag check, the custody export and save_to_file,
\* and the FINAL_RESULT all go through whatever connections came before.
BackupReportsOK ==
    (cmd = "BACKUP" /\ cst = "INIT" /\ ~cDone) ~> (cReport = "BackupOK" \/ link = "broken")

\* Every connection that starts is eventually closed on both sides: the
\* client and server state loops reach FINISH or ERROR, and neither
\* side's blocking SSL_shutdown loop (close_ssl, server main) waits for
\* ever on the other's close_notify.
Termination ==
    (~cDone \/ ~sDone) ~> (cDone /\ sDone)
=============================================================================
