------------------------------- MODULE Engine -------------------------------
(***************************************************************************)
(* The Secure Key Engine (PUFse) as the application uses it through       *)
(* libcore.c.  Key slots are never read out, so the values they hold are  *)
(* abstract identities:                                                    *)
(*   - a device key is named by the device whose PUF it was derived from;  *)
(*   - an ECDH key pair is named by the party and the connection that      *)
(*     generated it;                                                       *)
(*   - a session KEK is named by the two key pairs it was agreed from;     *)
(*   - a wrapped key records the key and the KEK it was wrapped under.     *)
(* Digests and AES-KW are taken as ideal: an unwrap succeeds only under    *)
(* the KEK the blob was wrapped with, and distinct keys have distinct      *)
(* HMACs.                                                                  *)
(***************************************************************************)

EXTENDS Naturals

CONSTANTS
    EngineFaults,   \* whether calls into the key engine may fail
    FileFaults,     \* whether fopen and fwrite of a file may fail
    Mutex           \* the build's MUTEX setting (common.h defines it as 0)

\* Outcomes of a sequence of n engine (or file) calls: 0 when all
\* succeed, i when call i is the first to fail and ends the sequence.
FailAt(n) == IF EngineFaults THEN 0..n ELSE {0}

\* The same for a sequence of n file calls.
FileFailAt(n) == IF FileFaults THEN 0..n ELSE {0}

\* Call i of the sequence returned success.
Reached(f, i) == f = 0 \/ f > i

\* Variant of Acquired for a pufs_start that never takes the mutex.
AcquiredNoTry(busy) == TRUE

\* pufs_start's "#if MUTEX" block: pufs_pal_mutex_trylock fails, and
\* pufs_start returns -1, while another process holds the engine
\* (between its pufs_start and pufs_end); without MUTEX nothing is taken.
Acquired(busy) == ~Mutex \/ ~busy

\* Empty key slots, and bytes that hold nothing: zeroed by memset.
NoKey  == <<"none">>
NoKp   == <<"none">>
NoKek  == {}
Zero   == <<"zero">>

\* The ECDH key pair (ephemeral in PRK_0/PRK_2, static in PRK_1) that
\* ecdh_keys generates on a party in a given connection.
ClientKp(d, n) == <<"client", d, n>>
ServerKp(n)    == <<"server", n>>

\* Tuples taken from a buffer that holds no public key (zeroed, or
\* overwritten by another packet) are not curve points, and
\* pufs_ecp_ecccdh_2e2s rejects them.
ValidPoint(pk) == pk # Zero

\* generate_ecdh_kek: ECC CDH 2e2s of the local private keys with the
\* peer's public keys, then HKDF into the KEK slot.  Both parties obtain
\* the same KEK exactly when each used the other's current public keys.
SessionKek(own, peer) == {own, peer}

\* The server custody KEK: pufs_kdf from PUFSLOT_3 with no salt and no
\* info, so every derivation on the server yields the same key.
CustodyKek == {<<"custody">>}

\* pufs_gen_aes_key: pufs_kdf from CLIENT_PUFSLOT_AESKEY with no salt,
\* a key unique to and fixed for the device.
DevKey(d) == <<"key", d>>

\* pufs_hmac(..., SSKEY, slot, 256): HMAC-SHA256 keyed by a slot.
Hmac(k) == <<"hmac", k>>

\* pufs_hmac(..., SWKEY, passwd, 256): the password is the HMAC key and
\* only its first 256 bits are used, so the fingerprint is a function of
\* the password's 32-byte prefix.  A password is <<prefix, rest>>.
Fingerprint(pw) == <<"fp", pw[1]>>

\* pufs_export_wrapped_key with AES_KW.
Wrap(k, kek) == [key |-> k, kek |-> kek]

\* A zeroed export_key field.
ZeroBlob == Wrap(NoKey, NoKek)

\* pufs_import_wrapped_key with AES_KW succeeds only for a blob wrapped
\* under the given KEK (the AES-KW integrity check).
Unwraps(blob, kek) ==
    /\ kek # NoKek
    /\ blob.kek = kek
=============================================================================
