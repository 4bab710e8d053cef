-------------------------------- MODULE Wire --------------------------------
(***************************************************************************)
(* Wire Codec of common.h: the fixed-size packet layouts that client.c and *)
(* server.c cast over their 2 KiB send_buf / recv_buf.                     *)
(*                                                                         *)
(* A buffer is abstracted to the fields the protocol reads back:           *)
(*   ev     the leading server_event_t of every packet                     *)
(*   pk     the public-key tuples of ecdh_packet_st                        *)
(*   fp     wrap_key_st.cipher    (password fingerprint)                   *)
(*   blob   wrap_key_st.export_key (AES-KW wrapped key)                    *)
(*   tag    wrap_key_st.hmac_key  (HMAC of the key in the slot)            *)
(*   mac    wrap_key_st.macaddr                                            *)
(*   result result_packet_st.result                                        *)
(* Packets are overlaid on the same bytes, so writing one packet kind      *)
(* leaves the fields it does not cover as they were, and SSL_read of a     *)
(* shorter packet leaves the tail of the receive buffer stale.             *)
(***************************************************************************)
EXTENDS Engine

\* server_state_t: the states of both state machines.
States == {"INIT", "CONNECTED", "ECDH_SHARED", "SERVER_HANDLER",
           "CLIENT_HANDLER", "FINISH", "ERROR"}

\* server_event_t, and 0 ("NONE") for a zeroed buffer.
Events == {"NONE", "CONNECT_REQ", "ECDH_EXCHANGE", "BACKUP_KEY",
           "RESTORE_KEY", "FINAL_RESULT"}

\* A zeroed macaddress / macaddr field.
ZeroMac == [dev |-> "none", colons |-> FALSE]

\* The all-zero buffer that memset produces: event 0 is no event and
\* result 0 is SERVER_SUCCESS.
ZeroBuf ==
    [ev |-> "NONE", pk |-> Zero, fp |-> Zero, blob |-> ZeroBlob,
     tag |-> Zero, mac |-> ZeroMac, result |-> "SUCCESS"]

\* The buffers set up by client_packet_init / server_packet_init: an
\* ECDH_EXCHANGE header over zero key tuples.
EcdhInitBuf == [ZeroBuf EXCEPT !.ev = "ECDH_EXCHANGE"]

\* The fields an SSL_write of send_buf_size bytes carries, by the packet
\* whose size was last stored in send_buf_size (0 before any packet).
\* sizeof(ecdh_packet_st) ends before wrap_key_st.macaddr; a
\* result_packet_st covers only the event and the result.
Extent(len) ==
    CASE len = "ECDH"   -> {"ev", "pk", "fp", "blob", "tag"}
      [] len = "WRAP"   -> {"ev", "pk", "fp", "blob", "tag", "mac"}
      [] len = "RESULT" -> {"ev", "result"}
      [] len = "NONE"   -> {}

\* The bytes put on the wire by SSL_write(ssl, send_buf, send_buf_size).
Transmit(buf, len) == [f \in Extent(len) |-> buf[f]]

\* SSL_read into recv_buf: the received bytes replace the fields they
\* cover, the rest of the buffer keeps its old content.
Overlay(buf, msg) ==
    [f \in DOMAIN buf |-> IF f \in DOMAIN msg THEN msg[f] ELSE buf[f]]

\* Variant of RecordOf that writes the whole packet buffer.
RecordOfPacket(buf) == buf

\* The wrap_key_st that save_to_file writes and read_from_file reads.
RecordOf(buf) == [fp |-> buf.fp, blob |-> buf.blob, tag |-> buf.tag, mac |-> buf.mac]
=============================================================================
