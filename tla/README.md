# TLA+ models of the PUFsecurity key backup system

This directory holds TLA+ models of `src/key_backup/app`. The models cover the
client and server state machines, the libcore.c calls into the PUFse key
engine, the record files that hold backed-up keys, and the TLS connection
between the two programs. The TLC configurations check the models. Every
module and cfg sits directly in this directory.

## The system

A **client** process (`client.c`) runs on a device for one connection and
either backs up or restores the device key.

- **Backup.** The client generates the device key into `CLIENT_KEY_SLOT`.
  It wraps the key under a session KEK agreed by ECDH, and sends it with two
  things:
  - an HMAC of the key;
  - a *fingerprint* of the password, which is an HMAC keyed by the password.
- **Restore.** The client sends the MAC address typed with `-m` and the
  fingerprint. It then imports the key the server returns into
  `CLIENT_KEY_SLOT`.

The **server** (`server.c`) accepts one connection at a time. On accept it
looks up the client's MAC in `/proc/net/arp` (`query_arp`), then runs its own
state machine.

- **Backup.** It unwraps and checks the key. It re-wraps the key under a
  *custody KEK* derived from its PUF. It stores the `wrap_key_st` in a file
  named `<mac>_<hex fingerprint>.bin` (`save_to_file`).
- **Restore.** It reads the file named by the request's MAC and fingerprint
  (`read_from_file`). It unwraps the key with the custody KEK, and re-wraps
  it under the session KEK.

Both sides use the same loop:

- each side runs `INIT → CONNECTED → ECDH_SHARED → {CLIENT,SERVER}_HANDLER → FINISH`, or goes to `ERROR`;
- the loop exits in FINISH or ERROR, and `main` then shuts the connection down;
- all packets are overlaid on one 2 KiB `send_buf` / `recv_buf` per side.

The two sides interact only through the connection. The server's buffers,
key slots and `macaddress` survive from one connection to the next. So do the
client device's key slots and the record files.

On a device, the tools `encryptData` (OFB encryption or decryption of a file
under `CLIENT_KEY_SLOT`) and `hmacKey` run as processes of their own. They
share the key engine with the client. Their only protection is `pufs_start`'s
mutex, and that is compiled out (`MUTEX 0` in common.h).

## Modules

| Module | Models | State (VARIABLES) | Actions |
|---|---|---|---|
| `Engine` | libcore.c wrappers of the key engine: `ecdh_keys`, `generate_ecdh_kek`, `pufs_gen_aes_key`, `hmac_key`, export/import of wrapped keys, the password HMAC, the custody KDF, and `pufs_start`'s mutex | none. Keys, key pairs and KEKs are symbolic. `FailAt(n)` and `FileFailAt(n)` enumerate which call of a sequence fails first. `Acquired(busy)` is `pufs_start`'s `#if MUTEX` trylock | none |
| `Wire` | common.h packets over the shared buffers, `server_state_t`, `server_event_t` | none. A buffer is a record `ev, pk, fp, blob, tag, mac, result`. `Extent` gives the fields each `send_buf_size` covers. `Overlay` is an `SSL_read` that leaves the rest of the buffer stale | none |
| `Transport` | `SSL_write`/`SSL_read` on the connection, resets, and the close handshake (`close_ssl`, the server's `SSL_shutdown` loop) | `c2s`, `s2c` (in-order channels), `link`, `cClosed`/`sClosed` (close_notify sent), `cDone`/`sDone` (shutdown loop left), `conn` | `LinkBreak`, `ClientShutdown`, `ServerShutdown` |
| `KeyStore` | `save_to_file` / `read_from_file` | `store`: file name ↦ record; a failed `fwrite` leaves `Truncated` | none (used by the server) |
| `Client` | `client_state_handle`, `client_event_handle`, `client_wrap_packet`, `client_require_wrap_packet`, `client_import_wrap`, `generate_key` | `cst` = `g_client_state`, `cRecv`, `cSend`, `cSendLen`, `devKey`, `devKek` (slots per device), `cReport` (printed outcome), `cFault` | `ClientStart`, `ClientConnected`, `ClientRecvRetry`, `ClientEcdhShared`, `ClientHandler` |
| `Server` | `server_state_handle`, `server_event_handle`, `ecdh_exchange_handle`, `server_import_wrap`, `server_export_to_file`, `server_import_from_file`, `server_wrap_packet`, `query_arp` | `sst` = `g_server_state`, `sRecv`, `sSend`, `sSendLen`, `srvMac`, `srvKp`, `srvKek`, `srvKey`, `srvWrapKek` | `ServerStart`, `ServerConnected`, `ServerEcdhShared`, `ServerHandler` |
| `KeyTools` | the device tools `encryptData` (`aes_enc`/`aes_dec`, OFB in 16-byte chunks, read and write back through the same or another file) and `hmacKey` | `tst`, `tkind`, `tDev`, `tpos`, `tIv`, `files` (each chunk as the set of keystreams XORed into it), `tBefore`, `tOut`, `tExit`, `toolRuns` | `ToolStart`, `ToolHmac`, `ToolReadChunk`, `ToolCipher`, `ToolEndOfFile` |
| `BackupService` | the abstract service: what backup and restore promise | `escrow` (<<device, secret>> ↦ key), `slot` (each device's key) | `Generate`, `Backup`, `Restore` |
| `KeyBackup` | both programs' `main`: the server's start-up and accept loop, and client processes one after another; tools beside them | the above, plus the history variable `backedUp`, `listening` (server start-up) and `stalled` (a client left waiting in `SSL_connect`) | `ServerBoot`, `NewConnection`, `ConnectFails`, `ArpOpenFails`, `ClientStep`, `ServerStep`, `ClientExit`, `ServerExit`, `ToolStep`, `Reset` |
| `MC_KeyBackup` | the model-checking instance | two devices; passwords that share or differ in their 32-byte prefix; file shapes for the tools | none |

The engine mutex is not a variable. A client holds its device's mutex from a
successful `pufs_start` until its loop exits (`ClientHolds`). A tool holds it
while it runs (`ToolHolds`). Each side's `pufs_start` is given the other's
holding as `busy`. With `Mutex` FALSE, which is the build's `MUTEX 0`,
`Acquired` is always TRUE.

`KeyBackup` maps onto `BackupService` as follows:
- `escrow` is the set of readable records that unwrap under the custody KEK,
  keyed by their name's device and fingerprint (`Escrow`);
- `slot` is `devKey`.

`ServiceRefined == Service!Spec` is checked as a temporal property.

Each action models a whole state of the loop, including the libcore.c calls
made in that state.

- **Where a call can fail.** Each point where an engine or file call can
  fail is a nondeterministic index `f ∈ FailAt(n)`. It names the first
  failing call, and only when the cfg sets `EngineFaults`.
- **What a failure changes.** The code's `goto RET` structure decides which
  assignments still happen. For example, in `BackupKey` the save happens
  after an export failure, because `server_export_to_file`'s RET label calls
  `save_to_file`.
- **`recv` outcomes.** `recv` returns one of three things: a message; 0 once
  the peer has shut down, leaving the buffer stale; or < 0 on a reset link.

One code branch is left out. The client's "Incorrect event" branch in
ECDH_SHARED cannot be reached, for two reasons:

- the server echoes the request's event;
- a stale `recv_buf` still holds `client_packet_init`'s ECDH_EXCHANGE header.

The branch is replaced by a guard, with a comment saying so.

## Runs

The "Properties" column lists exactly what each cfg checks.

| Run (cfg) | Expect | Properties | Bounds and what it shows |
|---|---|---|---|
| `ok` | pass | `TypeOK`, `RestoreFinishDeliversKey`, `BackedUpKeysStayRestorable`, `RestoreOfBackedUpKeySucceeds`, `ServiceRefined`, `BackupReportsOK` | Bounds: 3 connections, 2 devices, 3 passwords (two share a prefix). Link resets, failed connects and a failed server start are allowed; there are no engine faults. About 128k states. Three connections are enough for backup–backup–restore and backup–restore–restore on either device. A finished restore installs the typed device's key. Every key once reported backed up stays restorable through all later connections. Restoring a backed-up key over a healthy link prints Restore OK. The system refines `BackupService`. Every backup client eventually prints backup OK unless the link is reset first, whatever earlier connections left in the server's buffers (liveness under the fairness below). |
| `faults` | pass | `BackupOKMeansRecordOnDisk` | Bounds: 2 connections, and one tool run beside them. Every engine call, `fopen` and `fwrite` may fail, and so may the server's `fopen` of `/proc/net/arp`, which leaves the client waiting in `SSL_connect` with no further connection. About 3.7M states in about 100 seconds. A client that prints backup OK has a complete record on disk, under the name its restore reads, tagged with the key in its slot. The server answers SUCCESS only when `save_to_file` returned 0. The client takes `FINAL_RESULT` only from a packet of its own connection, even though a read of 0 leaves a stale receive buffer. The record's blob may still be under the session KEK: `fail_export` shows that. |
| `live` | pass | `Termination` | Bounds: 2 connections, engine faults, no resets. Every connection ends with both sides closed, the `SSL_shutdown` handshake included. |
| `tools` | pass | `ToolChunksUnderOneKey` | Bounds: `MUTEX 1`, 3 connections and 2 tool runs on d1. Each run is encrypt, decrypt or hmac, in place (`SameIo` TRUE), over a file of one full chunk and one short chunk. `fopen`, `fwrite` and `pufs_start` may fail. About 490k states. Every chunk of the tool's file is untouched or encrypted under one device key, while clients on d1 back up (regenerating the key) and restore d2's key onto d1. A failed `fopen` or `fwrite` makes `encryptData` exit 0 over an untouched or half-done file. That breaks `ToolZeroExitMeansFileTransformed` but not this property. |
| `live_reset` | violation | `Termination` | After a reset, the client's `recv < 0` path retries forever (client.c:449). |
| `fail_finish` | violation | `RestoreFinishDeliversKey` | A failed import still ends in FINISH (client.c:480). |
| `fail_export` | violation | `BackedUpKeysStayRestorable` | A failed custody wrap is saved and reported OK (libcore.c:358). File faults are on too, so a truncating re-backup (libcore.c:267) is in the same state space. |
| `regen` | violation | `DeviceKeyReplacedOnlyByRestore` | Bounds: 3 connections. d1 backs up. d1's key is restored onto d2. A backup on d2 then regenerates d2's own key over the restored one, because `client_wrap_packet` calls `generate_key` (libcore.c:180). spec.md §4.3 wraps the local key slot. |
| `arp` | violation | `RestoreFinishDeliversKey` | Bounds: 3 connections. An ARP miss files a backup under the previous client's MAC, and a restore then delivers another device's key. |
| `failopen` | violation | `ClientFailClosed` | After a client engine failure, `send_buf` is still sent (client.c:455). |
| `nomutex` | violation | `ToolZeroExitMeansFileTransformed` | As built (`MUTEX 0`), a backup client regenerates d1's key between `aes_enc`'s IV read and its OFB call. `encryptData` then prints OK over a file under mixed keys (common.h:68). |
| `prefix` | violation | `RestoreNeedsBackupPassword` | A password sharing the first 32 bytes of the backed-up one restores the key (libcore.c:187). |

`ok` was also checked once with 4 connections: 848k states in about 2.5
minutes, with no violation. That is too slow for its mutant runs, so the
configuration keeps 3.

The violation runs are the findings in `PROJECT.json`. Some hazards have no
violation run of their own. The reason is given in the hazard's note in
`PROJECT.json`. These hazards are:
- a `-m` typed with colons (client.c:547);
- the server started with `-d` (libcore.c:258 vs 294), which any test of `-d` shows;
- the stale server key pair after a failed `ecdh_keys` (server.c:62);
- `encryptData`'s exit status 0 after a failed `fopen` or `fwrite` (encryptData.c:83-101, 145). `nomutex` checks the property it breaks, but with file faults off, so that its counterexample is the mutex race;
- the SSL objects and sockets the server leaks (server.c:528).

Each passing property has a mutant in `PROJECT.json`: a variant of a mapped
definition that TLC must catch. The mutants are:
- writing the whole packet to the record file (`TypeOK`);
- a record file that is never replaced once it exists (`BackupOKMeansRecordOnDisk`: a truncated first backup, then a successful retry);
- naming the record by the ARP MAC on restore;
- naming it by the record's MAC on save;
- dropping the fingerprint from the restore request;
- leaving the loop only in FINISH;
- `pufs_start` without the trylock (`ToolChunksUnderOneKey`);
- the server keeping the previous MAC on accept (`ServiceRefined`);
- the backup tag computed from the slot before `generate_key` (`BackupReportsOK`).

## Fairness

`Spec` has weak fairness on each of these steps:
- the client step;
- the server step;
- the two shutdown steps;
- the tool step;
- the server start-up.

Each process runs its loop without waiting on anything but its own socket or
files. An enabled step is a read with data available, a read that returns 0
after shutdown, or an `SSL_shutdown` whose peer's close_notify has arrived.
Such a step is taken.

The client's busy retry on a reset link (`ClientRecvRetry`) changes no
state. So fairness does not force it to make progress, which is exactly the
client's behaviour.

Deadlock checking is off (`CHECK_DEADLOCK FALSE`). After the last modelled
connection, the server blocks in `accept()` forever, or has exited at
start-up. Either is a real stop of the system.

## Abstractions and what is left out

- **Cryptography is ideal.**
  - An unwrap succeeds only under the KEK the blob was wrapped with.
  - HMACs of distinct keys differ.
  - The fingerprint depends only on the password's first 32 bytes, because `pufs_hmac(..., SWKEY, passwd, 256)` uses 256 bits of key.
  - OFB is a keystream XOR. A chunk is the set of keystreams applied to it.
- **Byte layout is left out.** Lengths, packet names and the byte layout are not modelled. So are the overlap of the public-key tuples with `wrap_key_st`'s fields, beyond making an overwritten point invalid.
- **SSL_shutdown** is modelled with the blocking-socket semantics OpenSSL documents:
  - the first call sends close_notify;
  - the next call returns once the peer's close_notify arrives (1) or the link is reset (-1).

  So the `shutdownCount > 10` exit is not taken. Freeing of SSL objects is not tracked.
- **Engine mutex.** The `pufs_pal_mutex` implementation is not in the source tree. `Mutex` TRUE models a lock shared by all processes of a device, which is what spec.md asks for.
- **Tool files.** `encryptData` with the same file for `-i` and `-o` relies on glibc's `r+` stream switching between read and write after the `fseek`. This is assumed to work (`SameIo`).
- **Not modelled** (listed in `PROJECT.json` with reasons):
  - certificate contents and verification;
  - clients of other devices connecting while one client waits in `SSL_connect` after `query_arp` failed to open `/proc/net/arp`. The model runs one client process at a time, so `ArpOpenFails` ends the modelled connections. With `ArpFileFaults` TRUE, the `live` configuration finds `Termination` violated in three states: that client never exits. The `live` run keeps the fault off so that it checks every other path;
  - `clear_key`, which nothing calls, and `enroll`, whose body is commented out (it returns 0);
  - the `pure.c` template;
  - the PUFse host library itself.
