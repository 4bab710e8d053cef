--------------------------- MODULE BackupService ---------------------------
(***************************************************************************)
(* What the key backup system promises, without connections, packets or   *)
(* the engine's calls: the custodian escrows keys under identities, an     *)
(* identity being a device (its MAC) and a password fingerprint, and a     *)
(* device's key slot is filled by generating the device's own key or by    *)
(* restoring an escrowed one.  A backup escrows the key the device holds,  *)
(* replacing what the identity held (last writer wins); nothing else ever  *)
(* changes or removes an escrowed key.                                     *)
(***************************************************************************)
EXTENDS TLC

CONSTANTS
    Device,         \* devices, named by their MAC address
    Secret,         \* password fingerprints
    DeviceKey(_),   \* the key a device generates from its PUF
    NoKey           \* the content of an empty key slot

VARIABLES
    escrow,     \* identity <<device, secret>> -> escrowed key
    slot        \* device -> the key in its key slot

Init ==
    /\ escrow = [id \in {} |-> NoKey]
    /\ slot = [d \in Device |-> NoKey]

\* A device (re)generates its own key into its slot.
Generate(d) ==
    /\ slot' = [slot EXCEPT ![d] = DeviceKey(d)]
    /\ UNCHANGED escrow

\* The key device d holds is escrowed under identity <<d, s>>.
Backup(d, s) ==
    /\ slot[d] # NoKey
    /\ escrow' = (<<d, s>> :> slot[d]) @@ escrow
    /\ UNCHANGED slot

\* The key escrowed under an identity is placed in device d's slot.
Restore(d, id) ==
    /\ slot' = [slot EXCEPT ![d] = escrow[id]]
    /\ UNCHANGED escrow

Next ==
    \E d \in Device :
        \/ Generate(d)
        \/ \E s \in Secret : Backup(d, s)
        \/ \E id \in DOMAIN escrow : Restore(d, id)

Spec == Init /\ [][Next]_<<escrow, slot>>
=============================================================================
