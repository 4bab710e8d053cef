------------------------------ MODULE KeyTools ------------------------------
(***************************************************************************)
(* The device-side tools that use the key in CLIENT_KEY_SLOT:              *)
(*   - encryptData (encryptData.c main with aes_enc / aes_dec): encrypts   *)
(*     or, with -d, decrypts a file in 16-byte chunks with AES-OFB under   *)
(*     CLIENT_KEY_SLOT, the IV of every chunk being the HMAC of the slot;  *)
(*   - hmacKey (hmacKey.c main with hmac_key): prints the slot's HMAC.     *)
(* A tool is a process of its own on a device.  It shares the device's    *)
(* key engine with the backup client; only the mutex of pufs_start and     *)
(* pufs_end, compiled in when MUTEX is set, keeps them apart.              *)
(* A chunk's content is the set of keystreams XORed into its plaintext:    *)
(* OFB encryption and decryption both XOR the keystream of (IV, key), so   *)
(* applying the same one twice cancels.                                    *)
(***************************************************************************)
EXTENDS Naturals, Sequences, Client

CONSTANTS
    ToolDevice,     \* devices the tools are run on
    FileShape,      \* the -i file: its 16-byte chunks, "full" or a "short" last
    SameIo,         \* whether -i and -o name the same file
    MaxToolRuns     \* number of tool processes started, one after another

VARIABLES
    tst,        \* "idle", "running", or the process has "done"/"failed"
    tkind,      \* "encrypt", "decrypt" (-d) or "hmac"
    tDev,       \* the device the tool process runs on
    tpos,       \* index of the chunk the do-while loop is at
    tIv,        \* the key pufs_hmac read for this chunk's IV (NoKey: not yet)
    files,      \* "in" and "out" -> sequence of chunk contents
    tBefore,    \* history: the -i file when the process started
    tOut,       \* the result line the process printed
    tExit,      \* main's return value: "zero" or "nonzero"
    toolRuns    \* number of tool processes started

toolvars == <<tst, tkind, tDev, tpos, tIv, files, tBefore, tOut, tExit, toolRuns>>

\* The file encryptData writes: fp_w is fp_r when the names are equal.
ToolFile == IF SameIo THEN "in" ELSE "out"

\* The OFB keystream pufs_enc_ofb and pufs_dec_ofb both XOR into the
\* data: a function of the IV and the key alone.
Keystream(iv, key) == <<iv, key>>

\* pufs_enc_ofb / pufs_dec_ofb of a chunk: XOR of the keystream.
Toggle(chunk, ks) == (chunk \ {ks}) \cup ({ks} \ chunk)

\* fwrite of a chunk at the file position of chunk i: in place (after the
\* fseek back by len) or appended to the output file.
Written(file, i, chunk) ==
    IF i <= Len(file) THEN [file EXCEPT ![i] = chunk] ELSE Append(file, chunk)

\* A failing engine call on CLIENT_KEY_SLOT: an empty slot yields
\* PUFS_ERROR_INVALID ("Key is invalid!"), any other failure an error.
EngineFailure(k) == IF k = NoKey THEN "KeyInvalid" ELSE "EngineFail"

\* goto RET: pufs_end (which releases the mutex) and return ret.
Fail(out, exit) ==
    /\ tst' = "failed"
    /\ tOut' = out
    /\ tExit' = exit

ToolInit ==
    /\ tst = "idle" /\ tkind = "none" /\ tDev = "none"
    /\ tpos = 1 /\ tIv = NoKey
    /\ files = [f \in {"in", "out"} |->
                   IF f = "in" THEN [i \in DOMAIN FileShape |-> {}] ELSE <<>>]
    /\ tBefore = files["in"]
    /\ tOut = "none" /\ tExit = "zero" /\ toolRuns = 0

-----------------------------------------------------------------------------
(* One action per step of the tools' main functions.                      *)

\* main up to pufs_start: a tool process starts on a device once the
\* previous one has exited.  encryptData opens its files: "rb+" for one
\* file named twice, else "r" and then "wb", which empties the output.
\* A failed fopen (o: the first that fails) goes to EXIT with ret still
\* PUFS_SUCCESS, so main returns 0 with nothing transformed.  Then
\* pufs_start takes the engine mutex (when MUTEX is set) and initialises
\* the command interface; its failure returns its nonzero status.
ToolStart(busy) ==
    /\ tst # "running"
    /\ toolRuns < MaxToolRuns
    /\ \E d \in ToolDevice, k \in {"encrypt", "decrypt", "hmac"}, f \in FailAt(1) :
       \E o \in IF k = "hmac" THEN {0} ELSE FileFailAt(IF SameIo THEN 1 ELSE 2) :
          LET opened  == o = 0
              started == opened /\ Acquired(d \in busy) /\ f # 1
          IN  /\ tDev' = d
              /\ tkind' = k
              /\ tst' = IF started THEN "running" ELSE "failed"
              /\ tOut' = IF started THEN "none"
                         ELSE IF opened THEN "StartFail" ELSE "OpenFail"
              /\ tExit' = IF started \/ ~opened THEN "zero" ELSE "nonzero"
              /\ files' = IF k # "hmac" /\ ~SameIo /\ opened
                          THEN [files EXCEPT !["out"] = <<>>] ELSE files
    /\ tBefore' = files["in"]
    /\ tpos' = 1 /\ tIv' = NoKey
    /\ toolRuns' = toolRuns + 1

\* hmacKey: hmac_key (pufs_hmac of CLIENT_KEY_SLOT), pufs_end, then the
\* digest, "Key is invalid!" or "hmac_key FAIL!" is printed and the status
\* returned.
ToolHmac ==
    /\ tst = "running" /\ tkind = "hmac"
    /\ tst' = "done"
    /\ \/ /\ devKey[tDev] # NoKey
          /\ tOut' = "Hmac" /\ tExit' = "zero"
       \/ /\ devKey[tDev] = NoKey \/ EngineFaults
          /\ tOut' = EngineFailure(devKey[tDev]) /\ tExit' = "nonzero"
    /\ UNCHANGED <<tkind, tDev, tpos, tIv, files, tBefore, toolRuns>>

\* The do-while body up to aes_enc / aes_dec's pufs_hmac: fread of the
\* next chunk returned len >= 1, and the slot's HMAC is taken as the IV.
ToolReadChunk ==
    /\ tst = "running" /\ tkind # "hmac" /\ tIv = NoKey
    /\ tpos <= Len(files["in"])
    /\ \/ /\ devKey[tDev] # NoKey
          /\ tIv' = devKey[tDev]
          /\ UNCHANGED <<tst, tOut, tExit>>
       \/ /\ devKey[tDev] = NoKey \/ EngineFaults
          /\ Fail(EngineFailure(devKey[tDev]), "nonzero")
          /\ UNCHANGED tIv
    /\ UNCHANGED <<tkind, tDev, tpos, files, tBefore, toolRuns>>

\* The rest of the do-while body: pufs_enc_ofb / pufs_dec_ofb of the
\* chunk under the key now in CLIENT_KEY_SLOT with the IV read before,
\* the fseek back (same file), and fwrite.  A failed fwrite goes to RET
\* with ret set to fwrite's count, 0.  The loop goes on after a full
\* chunk; after a short one it prints "Encrypt data OK" (or "Decrypt data
\* OK"), and RET calls pufs_end.
ToolCipher ==
    /\ tst = "running" /\ tkind # "hmac" /\ tIv # NoKey
    /\ LET k     == devKey[tDev]
           chunk == Toggle(files["in"][tpos], Keystream(tIv, k))
       IN  \/ /\ k # NoKey
              /\ \E w \in FileFailAt(1):
                    \/ /\ w = 1
                       /\ Fail("WriteFail", "zero")
                       /\ UNCHANGED <<files, tpos, tIv>>
                    \/ /\ w = 0
                       /\ files' = [files EXCEPT ![ToolFile] = Written(@, tpos, chunk)]
                       /\ IF FileShape[tpos] = "full"
                          THEN /\ tpos' = tpos + 1 /\ tIv' = NoKey
                               /\ UNCHANGED <<tst, tOut, tExit>>
                          ELSE /\ tst' = "done"
                               /\ tOut' = IF tkind = "encrypt" THEN "EncryptOK" ELSE "DecryptOK"
                               /\ tExit' = "zero"
                               /\ UNCHANGED <<tpos, tIv>>
           \/ /\ k = NoKey \/ EngineFaults
              /\ Fail(EngineFailure(k), "nonzero")
              /\ UNCHANGED <<files, tpos, tIv>>
    /\ UNCHANGED <<tkind, tDev, tBefore, toolRuns>>

\* fread returned 0 after the last full chunk: the loop breaks, the OK
\* line is printed, ret = 0, and RET calls pufs_end.
ToolEndOfFile ==
    /\ tst = "running" /\ tkind # "hmac" /\ tIv = NoKey
    /\ tpos > Len(files["in"])
    /\ tst' = "done"
    /\ tOut' = IF tkind = "encrypt" THEN "EncryptOK" ELSE "DecryptOK"
    /\ tExit' = "zero"
    /\ UNCHANGED <<tkind, tDev, tpos, tIv, files, tBefore, toolRuns>>

\* busy: the devices whose engine mutex another process holds.
ToolNext(busy) ==
    \/ ToolStart(busy)
    \/ ToolHmac
    \/ ToolReadChunk
    \/ ToolCipher
    \/ ToolEndOfFile

\* The tool process holds its device's engine mutex between pufs_start
\* and pufs_end.
ToolHolds(d) == Mutex /\ tst = "running" /\ tDev = d
=============================================================================
