------------------------------ MODULE MCTunnel ------------------------------
(* Small instance of Tunnel for TLC.                                       *)
EXTENDS Tunnel

\* Two bytes each way let a byte sit in a buffer while another is in
\* flight; a window of one makes writes to a slow reader block; three
\* ticks let the timer be reset and then expire.
MCMaxData == 2
MCIdleTimeout == 2
MCBufCap == 2
MCWindow == 1
=============================================================================
