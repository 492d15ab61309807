------------------------------ MODULE TunnelPipe ------------------------------
(***************************************************************************)
(* What a CONNECT tunnel promises its two peers, whatever the buffering    *)
(* inside it: two byte pipes, one per direction.  A pipe delivers the      *)
(* bytes its source sent, in order and never more; it forwards the        *)
(* source's FIN only after the last byte; the tunnel ends "ok" exactly     *)
(* when both FINs have been forwarded, and may end "failed" at any time.   *)
(* Once ended, nothing more is delivered.  Tunnel (the detailed model of   *)
(* proxy.rs 224-270 and 471-480) implements this under the mapping given   *)
(* in Tunnel.tla.                                                          *)
(***************************************************************************)
EXTENDS Naturals

CONSTANT MaxData

VARIABLES
    sent,        \* sent[p]: bytes peer p has sent into the tunnel
    fin,         \* fin[p]: peer p has half-closed its side
    delivered,   \* delivered[d]: bytes of direction d handed to its destination
    halfClosed,  \* halfClosed[d]: the source's FIN has been forwarded
    status       \* "open", "ok" or "failed"

pvars == <<sent, fin, delivered, halfClosed, status>>

PipePeers == {"client", "target"}
PipeDirs == {"c2t", "t2c"}
From(d) == IF d = "c2t" THEN "client" ELSE "target"
Reverse(d) == IF d = "c2t" THEN "t2c" ELSE "c2t"

PipeInit ==
    /\ sent = [p \in PipePeers |-> 0]
    /\ fin = [p \in PipePeers |-> FALSE]
    /\ delivered = [d \in PipeDirs |-> 0]
    /\ halfClosed = [d \in PipeDirs |-> FALSE]
    /\ status = "open"

Send(p) ==
    /\ status = "open" /\ ~fin[p] /\ sent[p] < MaxData
    /\ sent' = [sent EXCEPT ![p] = @ + 1]
    /\ UNCHANGED <<fin, delivered, halfClosed, status>>

Fin(p) ==
    /\ status = "open" /\ ~fin[p]
    /\ fin' = [fin EXCEPT ![p] = TRUE]
    /\ UNCHANGED <<sent, delivered, halfClosed, status>>

Deliver(d) ==
    /\ status = "open" /\ ~halfClosed[d]
    /\ delivered[d] < sent[From(d)]
    /\ delivered' = [delivered EXCEPT ![d] = @ + 1]
    /\ UNCHANGED <<sent, fin, halfClosed, status>>

\* The FIN is forwarded after the last byte; the second one ends the tunnel.
HalfClose(d) ==
    /\ status = "open" /\ ~halfClosed[d]
    /\ fin[From(d)] /\ delivered[d] = sent[From(d)]
    /\ halfClosed' = [halfClosed EXCEPT ![d] = TRUE]
    /\ status' = IF halfClosed[Reverse(d)] THEN "ok" ELSE "open"
    /\ UNCHANGED <<sent, fin, delivered>>

Abort ==
    /\ status = "open"
    /\ status' = "failed"
    /\ UNCHANGED <<sent, fin, delivered, halfClosed>>

PipeNext ==
    \/ \E p \in PipePeers : Send(p) \/ Fin(p)
    \/ \E d \in PipeDirs : Deliver(d) \/ HalfClose(d)
    \/ Abort

PipeSpec == PipeInit /\ [][PipeNext]_pvars
=============================================================================
