-------------------------- MODULE MCStreamSession --------------------------
(* Model-checking instance of StreamSession: the device may push up to two *)
(* unsolicited messages, enough for one to be discarded by the handshake   *)
(* wait and one to stay unread on stream_in_q.                             *)
EXTENDS StreamSession

MCMaxPackets == 2
=============================================================================
