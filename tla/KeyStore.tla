------------------------------ MODULE KeyStore ------------------------------
(***************************************************************************)
(* Key Store: the record files of save_to_file / read_from_file           *)
(* (libcore.c).  A file is named by a directory, a MAC address text and    *)
(* the hex of the password fingerprint; it holds one wrap_key_st.  A file  *)
(* that fopen("wb") created but fwrite did not fill is Truncated.         *)
(***************************************************************************)
EXTENDS TLC, Wire

\* The content of a file left short by a failed fwrite: fread of a whole
\* wrap_key_st from it fails.
Truncated == [fp |-> <<"short">>, blob |-> ZeroBlob, tag |-> <<"short">>,
              mac |-> ZeroMac]

VARIABLE store      \* file name -> record

\* The name built by strcat/sprintf: <dir><mac>_<hex(cipher)>.bin.
FileName(dir, mac, fp) == <<dir, mac, fp>>

\* Variant of Saved that keeps a file that already exists, as fopen with
\* "ab" would: read_from_file then reads the first record written.
SavedFirstWins(name, rec) == store @@ (name :> rec)

\* fopen(name, "wb") then fwrite: the file is replaced (last writer wins).
Saved(name, rec) == (name :> rec) @@ store

\* fopen(name, "r") then fread of a whole wrap_key_st succeeds.
Readable(name) == name \in DOMAIN store /\ store[name] # Truncated
=============================================================================
